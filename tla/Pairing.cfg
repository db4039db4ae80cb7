SPECIFICATION PairingFairSpec
CONSTANTS
    N = 2
    Panels = {p1}
    Deployments <- MCDeployments
    StoredStatus = {"disconnected"}
    MaxAnswers = 1
    MaxAsks = 1
    MaxFaults = 1
INVARIANT WizardInv
PROPERTIES PairedIsLoaded PanelSettles
CHECK_DEADLOCK FALSE
