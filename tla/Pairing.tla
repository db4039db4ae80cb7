------------------------------- MODULE Pairing -------------------------------
(***************************************************************************)
(* Linking the WhatsApp account from the console: the pairing wizard, the  *)
(* program that drives it, the status the console derives and the panel    *)
(* that polls it (apps/web/src/server/hermes, infra/hermes/pairing-        *)
(* service.mjs, the instances routes, components/instances).               *)
(*                                                                         *)
(* The wizard runs in a pseudo-terminal.  It is driven either by the       *)
(* console process itself ("host": the wizard's output is kept in a log    *)
(* file and its pid in another, nothing in memory) or, when                *)
(* HERMES_PAIR_URL is set, by the service in the Hermes container          *)
(* ("service": a session in memory).  Output reaches the driver in chunks  *)
(* cut anywhere, so it is a sequence of the pieces a driver tells apart.   *)
(* The wizard, the gateway, the pipe between a wizard and its driver and   *)
(* the operator are external.                                              *)
(*                                                                         *)
(* One pairing serves every instance: neither driver is told which row     *)
(* the request was about, so the rows are one status here.                 *)
(***************************************************************************)
EXTENDS Integers, FiniteSets, SequencesExt

CONSTANTS
    N,            \* how many wizards may be started in a run (bound)
    Panels,       \* the pairing panels open in browsers
    Deployments,  \* how the console may be deployed: whether url and dataDir are set
    StoredStatus, \* what runtime.status of the row may hold
    MaxAnswers,   \* MAX_ANSWERS: the questions one run answers
    MaxAsks,      \* how many other questions a wizard asks (bound)
    MaxFaults     \* how many faults a behaviour contains (bound)

ASSUME PairingAssumption ==
    /\ N \in Nat \ {0}
    /\ {MaxAnswers, MaxAsks, MaxFaults} \subseteq Nat
    /\ Deployments \subseteq [url : BOOLEAN, dataDir : BOOLEAN]
    /\ StoredStatus \subseteq {"disconnected", "connected", "logged_out", "error"}

Wizards == 1 .. N
NoWizard == 0
NoSession == 0       \* no WhatsApp credentials on disk
OldSession == N + 1  \* the credentials of an earlier pairing
Credentials == 0 .. N + 1

(* What a driver looks for in the output: the text of the re-pair question, the
   text of any other question, the "[y/N]" that ends a question, a QR, the
   success line and a cross. *)
Pieces == {"repair", "other", "[y/N]", "qr", "paired", "cross"}

Idle == [kind |-> "idle", got |-> "null"]

VARIABLES
    url,     \* HERMES_PAIR_URL is set: the service drives the wizard
    dataDir, \* HERMES_DATA_DIR is set: the console can read the gateway's state file
    stored,  \* runtime.status of the row
    wiz,     \* the wizards: where, step, out, got, life, and their driver's read, handled, loaded
    log,     \* the log file: whose output, how much is written, how much is on disk, whether old
    pid,     \* the wizard the pid file names
    session, \* the service's session
    creds,   \* the WhatsApp credentials on disk
    gw,      \* the gateway: its state and the credentials it loaded
    panel,   \* per panel: the status on screen and the request it waits for
    faults   \* faults so far

pairingVars == <<url, dataDir, stored, wiz, log, pid, session, creds, gw, panel, faults>>

(***************************************************************************)
(* What a driver reads in the output.                                      *)
(***************************************************************************)
Holds(s, piece) == \E i \in DOMAIN s : s[i] = piece

(* The words a driver writes back: yes, or an empty line for the default. *)
Yes == "y"
Default == ""
Words == {Yes, Default}

(* Where a question ends, and how many have ended by there. *)
QuestionEnds(s) == {i \in DOMAIN s : s[i] = "[y/N]"}
Place(s, i) == Cardinality({j \in QuestionEnds(s) : j <= i})

(* The answer to the question that ends at position i of s: its text is what
   stands after the previous end. *)
AnswerAt(s, i) ==
    IF \E j \in 1 .. i - 1 : s[j] = "repair" /\ \A k \in j .. i - 1 : s[k] # "[y/N]"
    THEN Yes ELSE Default

(* Mutant: the last chunk is answered by itself. *)
AnswersForChunk(seen, from) ==
    LET chunk == SubSeq(seen, from + 1, Len(seen))
    IN  {answers \in [1 .. Cardinality(QuestionEnds(seen)) -> Words] :
           \A i \in QuestionEnds(seen) :
             answers[Place(seen, i)] = IF i > from THEN AnswerAt(chunk, i - from) ELSE Default}

(* answersFor: one answer for every question the output has shown, each in the place
   of its question.  It looks at everything seen, not at the last chunk (which starts
   after `from`). *)
AnswersFor(seen, from) ==
    {answers \in [1 .. Cardinality(QuestionEnds(seen)) -> Words] :
       \A i \in QuestionEnds(seen) : answers[Place(seen, i)] = AnswerAt(seen, i)}

Read(w) == SubSeq(wiz[w].out, 1, wiz[w].read)
Started(w) == wiz[w].at # "none"
Fresh(w) == ~Started(w) /\ \A v \in Wizards : v < w => Started(v)
Alive(w) == Started(w) /\ wiz[w].life = "alive"

(* Whether the recorded wizard is still alive: the pid file, not memory. *)
IsRunning == pid # NoWizard /\ Alive(pid)

(* Mutant: an abandoned wizard still counts as one that waits for a scan. *)
StatusOfStopped(s, running) ==
    CASE Holds(s, "paired") -> "paired"
      [] ~Holds(s, "paired") /\ Holds(s, "qr") -> "awaiting_scan"
      [] ~Holds(s, "paired") /\ ~Holds(s, "qr") /\ Holds(s, "cross") -> "failed"
      [] OTHER -> "starting"

(* What the recorded output means right now. *)
StatusOf(s, running) ==
    CASE Holds(s, "paired") -> "paired"
      [] ~Holds(s, "paired") /\ Holds(s, "qr") /\ running -> "awaiting_scan"
      [] ~Holds(s, "paired") /\ ~(Holds(s, "qr") /\ running)
         /\ (Holds(s, "cross") \/ (~running /\ s # <<>>)) -> "failed"
      [] OTHER -> "starting"

(* The log as a reader finds it: what has reached the disk. *)
Logged == IF log.of = NoWizard THEN <<>> ELSE SubSeq(wiz[log.of].out, 1, log.onDisk)

(* readHermesPairing: a stopped wizard speaks for ten minutes. *)
ReadHermesPairing ==
    IF \/ log.of = NoWizard /\ ~IsRunning
       \/ ~IsRunning /\ log.old
    THEN "null" ELSE StatusOf(Logged, IsRunning)

(* The service's snapshot; "idle" reaches the console as null.  Its child counts as
   running while the exit code is null, which it stays when a signal ended it. *)
ChildRuns == session # NoWizard /\ wiz[session].life # "exited"
ServiceState ==
    CASE session = NoWizard -> "null"
      [] session # NoWizard /\ ~ChildRuns /\ Read(session) = <<>> -> "failed"
      [] OTHER -> StatusOf(Read(session), ChildRuns)

(* readHermesGatewayStatus over HTTP, when the service was reached. *)
GatewayHttp(reached) ==
    CASE ~(url /\ reached) -> "null"
      [] url /\ reached /\ gw.state = "connected" -> "connected"
      [] url /\ reached /\ gw.state = "connecting" -> "pairing"
      [] OTHER -> "disconnected"

(* gatewayStatus: the gateway's state file. *)
GatewayFile ==
    CASE ~dataDir -> "null"
      [] dataDir /\ gw.state = "connected" -> "connected"
      [] dataDir /\ gw.state = "connecting" -> "pairing"
      [] dataDir /\ gw.state = "fatal" -> "error"
      [] OTHER -> "disconnected"

Overlay == [null |-> "null", starting |-> "pairing", awaiting_scan |-> "pairing",
            paired |-> "connected", failed |-> "error"]

(* hermesInstanceSnapshot: a pairing speaks first, then Hermes, then the row. *)
Snapshot(pairing, gateway) ==
    LET answers == <<Overlay[pairing], gateway, GatewayFile, stored>>
    IN  answers[CHOOSE i \in 1 .. 4 : answers[i] # "null" /\ \A j \in 1 .. i - 1 : answers[j] = "null"]

PollsWhile(status) == status = "pairing"
Stopped(status) == status \in {"disconnected", "logged_out", "error"}

(***************************************************************************)
(* The wizard, which is external.                                          *)
(***************************************************************************)
Blank == [at |-> "none", step |-> "run", out |-> <<>>, got |-> <<>>, life |-> "alive",
          read |-> 0, handled |-> FALSE, loaded |-> FALSE]

Spawned(place) == [Blank EXCEPT !.at = place, !.handled = TRUE]

Prints(w, pieces, step) ==
    wiz' = [wiz EXCEPT ![w].out = @ \o pieces, ![w].step = step]

(* The console in a container has no Hermes to run: a wizard started there says so and stops. *)
CanPair(w) == Alive(w) /\ ~(url /\ wiz[w].at = "host")

Asked(w, text) == Cardinality({i \in DOMAIN wiz[w].out : wiz[w].out[i] = text})

AskOther(w) ==
    /\ CanPair(w) /\ wiz[w].step = "run" /\ Asked(w, "other") < MaxAsks
    /\ Prints(w, <<"other", "[y/N]">>, "asked")
    /\ UNCHANGED <<url, dataDir, stored, log, pid, session, creds, gw, panel, faults>>

AskRePair(w) ==
    /\ CanPair(w) /\ wiz[w].step = "run" /\ creds # NoSession
    /\ Prints(w, <<"repair", "[y/N]">>, "asked")
    /\ UNCHANGED <<url, dataDir, stored, log, pid, session, creds, gw, panel, faults>>

(* The wizard reads the answer to its question.  "y" to the re-pair question clears
   the session; declining ends the run with the session as it was. *)
Hear(w) ==
    /\ CanPair(w) /\ wiz[w].step = "asked"
    /\ Len(wiz[w].got) = Asked(w, "[y/N]")
    /\ IF wiz[w].out[Len(wiz[w].out) - 1] = "repair"
       THEN IF Last(wiz[w].got) = Yes
            THEN Prints(w, <<>>, "run") /\ creds' = NoSession
            ELSE Prints(w, <<"paired">>, "over") /\ UNCHANGED creds
       ELSE Prints(w, <<>>, "run") /\ UNCHANGED creds
    /\ UNCHANGED <<url, dataDir, stored, log, pid, session, gw, panel, faults>>

PrintQr(w) ==
    /\ CanPair(w) /\ wiz[w].step = "run" /\ creds = NoSession
    /\ Prints(w, <<"qr">>, "scan")
    /\ UNCHANGED <<url, dataDir, stored, log, pid, session, creds, gw, panel, faults>>

(* The operator scans the code: the credentials are on disk, then the wizard says so. *)
Scan(w) ==
    /\ CanPair(w) /\ wiz[w].step = "scan"
    /\ creds' = w
    /\ Prints(w, <<"paired">>, "over")
    /\ UNCHANGED <<url, dataDir, stored, log, pid, session, gw, panel, faults>>

(* The wizard gives up: nobody scanned, or it could not run at all. *)
GiveUp(w) ==
    /\ Alive(w) /\ wiz[w].step \in {"run", "scan"}
    /\ \E last \in {<<>>, <<"cross">>} : Prints(w, last, "over")
    /\ UNCHANGED <<url, dataDir, stored, log, pid, session, creds, gw, panel, faults>>

(* The process ends.  A console that still holds the child ends the log and removes
   the pid file at once; output may still be in the pipe. *)
Ends(w, how) ==
    /\ Alive(w)
    /\ wiz' = [wiz EXCEPT ![w].life = how]
    /\ pid' = IF wiz[w].at = "host" /\ wiz[w].handled THEN NoWizard ELSE pid
    /\ UNCHANGED <<url, dataDir, stored, log, session, creds, gw, panel>>

Exit(w) == wiz[w].step = "over" /\ Ends(w, "exited") /\ UNCHANGED faults

Killed(w) == faults < MaxFaults /\ Ends(w, "killed") /\ faults' = faults + 1

(***************************************************************************)
(* The driver.                                                             *)
(***************************************************************************)
(* Mutant: the pairing is judged by the log, which the exit has ended. *)
LoadsByLog(w, seen) ==
    /\ wiz[w].at = "host" /\ ~wiz[w].loaded /\ Holds(seen, "paired")
    /\ log.of = w /\ Alive(w)

(* The running gateway still holds the old session: it is restarted once. *)
Loads(w, seen) ==
    wiz[w].at = "host" /\ ~wiz[w].loaded /\ Holds(seen, "paired")

(* onData: one chunk, cut anywhere.  The host keeps it in the log (unless the exit
   ended the log), answers the questions it has now seen, and restarts the gateway
   once when the output reports a pairing.  The service has no restart. *)
OnData(w) ==
    /\ Started(w) /\ wiz[w].handled /\ wiz[w].read < Len(wiz[w].out)
    /\ \E to \in wiz[w].read + 1 .. Len(wiz[w].out) :
       \E answers \in AnswersFor(SubSeq(wiz[w].out, 1, to), wiz[w].read) :
         LET given == Len(wiz[w].got)
             upto == IF Len(answers) < MaxAnswers THEN Len(answers) ELSE MaxAnswers
             local == wiz[w].at = "host"
             loads == Loads(w, SubSeq(wiz[w].out, 1, to))
         IN  /\ wiz' = [wiz EXCEPT ![w].read = to,
                                   ![w].got = IF given < upto THEN @ \o SubSeq(answers, given + 1, upto) ELSE @,
                                   ![w].loaded = @ \/ loads]
             /\ log' = IF local /\ log.of = w /\ Alive(w) THEN [log EXCEPT !.written = to] ELSE log
             /\ gw' = IF loads THEN [state |-> "connecting", holds |-> creds] ELSE gw
    /\ UNCHANGED <<url, dataDir, stored, pid, session, creds, panel, faults>>

(* The log stream's writes reach the disk after the handler returned. *)
Flush ==
    /\ log.onDisk < log.written
    /\ log' = [log EXCEPT !.onDisk = log.written]
    /\ UNCHANGED <<url, dataDir, stored, wiz, pid, session, creds, gw, panel, faults>>

(* Ten minutes pass without a write to the log of a stopped wizard. *)
GoesQuiet ==
    /\ log.of # NoWizard /\ ~IsRunning /\ ~log.old /\ log.onDisk = log.written
    /\ log' = [log EXCEPT !.old = TRUE]
    /\ UNCHANGED <<url, dataDir, stored, wiz, pid, session, creds, gw, panel, faults>>

(* The console process restarts: the files stay, the handlers and what the log stream
   had not written are gone, and so are the answers to requests. *)
ConsoleRestart ==
    /\ faults < MaxFaults
    /\ faults' = faults + 1
    /\ wiz' = [w \in Wizards |-> [wiz[w] EXCEPT !.handled = @ /\ wiz[w].at # "host"]]
    /\ log' = [log EXCEPT !.written = log.onDisk]
    /\ panel' = [p \in Panels |-> [panel[p] EXCEPT !.req = Idle]]
    /\ UNCHANGED <<url, dataDir, stored, pid, session, creds, gw>>

(* The Hermes container restarts: the service, its session and its wizard go, and the
   gateway loads what is on disk. *)
HermesRestart ==
    /\ faults < MaxFaults /\ url
    /\ faults' = faults + 1
    /\ session' = NoWizard
    /\ wiz' = [w \in Wizards |->
                 IF wiz[w].at = "service"
                 THEN [wiz[w] EXCEPT !.handled = FALSE, !.life = IF @ = "alive" THEN "killed" ELSE @]
                 ELSE wiz[w]]
    /\ gw' = [state |-> "connecting", holds |-> creds]
    /\ UNCHANGED <<url, dataDir, stored, log, pid, creds, panel>>

(***************************************************************************)
(* The gateway, which is external.                                         *)
(***************************************************************************)
GatewayStep ==
    /\ gw.state = "connecting"
    /\ gw' = [gw EXCEPT !.state = IF gw.holds = NoSession THEN "unpaired"
                                  ELSE IF gw.holds = creds THEN "connected" ELSE "fatal"]
    /\ UNCHANGED <<url, dataDir, stored, wiz, log, pid, session, creds, panel, faults>>

(* The session a connected gateway holds was cleared by a re-pair. *)
GatewayDrops ==
    /\ gw.state = "connected" /\ gw.holds # creds
    /\ gw' = [gw EXCEPT !.state = "fatal"]
    /\ UNCHANGED <<url, dataDir, stored, wiz, log, pid, session, creds, panel, faults>>

(***************************************************************************)
(* The console: the panel's requests and the routes that answer them.      *)
(***************************************************************************)
Requests(p, kind) ==
    /\ panel[p].req = Idle
    /\ panel' = [panel EXCEPT ![p].req = [kind |-> kind, got |-> "null"]]
    /\ UNCHANGED <<url, dataDir, stored, wiz, log, pid, session, creds, gw, faults>>

(* The page is opened: it renders the same snapshot the check answers. *)
OpenPage(p) == panel[p].status = "none" /\ Requests(p, "check")
Poll(p) == PollsWhile(panel[p].status) /\ Requests(p, "check")
CheckNow(p) == Stopped(panel[p].status) /\ Requests(p, "check")
PairAgain(p) == Stopped(panel[p].status) /\ Requests(p, "pair")

Reads(p, pairing) ==
    panel' = [panel EXCEPT ![p].req = [kind |-> "answer", got |-> pairing]]

(* callService: the service answers, or the call fails or times out (a fault). *)
Reached == url /\ UNCHANGED faults
Lost == IF url THEN faults < MaxFaults /\ faults' = faults + 1 ELSE UNCHANGED faults

(* readHermesPairingAny: the service's answer, else this process's own pairing. *)
ReadPairing(p) ==
    /\ panel[p].req.kind = "check"
    /\ \/ Reached /\ Reads(p, IF ServiceState # "null" THEN ServiceState ELSE ReadHermesPairing)
       \/ Lost /\ Reads(p, ReadHermesPairing)
    /\ UNCHANGED <<url, dataDir, stored, wiz, log, pid, session, creds, gw>>

(* The service's startPairing: a child that has not exited is left alone. *)
ServiceStarts(w) ==
    IF ChildRuns THEN UNCHANGED <<wiz, session>>
    ELSE Fresh(w) /\ wiz' = [wiz EXCEPT ![w] = Spawned("service")] /\ session' = w

StartPairingRemote(p) ==
    /\ panel[p].req.kind = "pair"
    /\ Reached
    /\ \E w \in Wizards : ServiceStarts(w)
    /\ Reads(p, IF ChildRuns THEN ServiceState ELSE "starting")
    /\ UNCHANGED <<url, dataDir, stored, log, pid, creds, gw>>

(* startHermesPairing: a wizard already running is left alone and reported as it
   stands; otherwise the files are replaced and a new one is spawned. *)
StartsLocal(p) ==
    IF IsRunning
    THEN Reads(p, StatusOf(Logged, TRUE)) /\ UNCHANGED <<wiz, log, pid>>
    ELSE \E w \in Wizards :
           /\ Fresh(w)
           /\ wiz' = [wiz EXCEPT ![w] = Spawned("host")]
           /\ log' = [of |-> w, written |-> 0, onDisk |-> 0, old |-> FALSE]
           /\ pid' = w
           /\ Reads(p, "starting")

(* POST /pair without an answer of the service: there is none, or the call was lost
   on its way. *)
StartPairingLocal(p) ==
    /\ panel[p].req.kind = "pair"
    /\ Lost
    /\ StartsLocal(p)
    /\ UNCHANGED <<url, dataDir, stored, session, creds, gw>>

(* The request reached the service and its answer came too late: the console goes on
   to start a wizard of its own while the service's runs. *)
AnswerTooLate(p) ==
    /\ panel[p].req.kind = "pair" /\ url /\ ~ChildRuns /\ faults < MaxFaults
    /\ faults' = faults + 1
    /\ \E w \in Wizards : ServiceStarts(w)
    /\ panel' = [panel EXCEPT ![p].req = [kind |-> "late", got |-> "null"]]
    /\ UNCHANGED <<url, dataDir, stored, log, pid, creds, gw>>

StartAfterLateAnswer(p) ==
    /\ panel[p].req.kind = "late"
    /\ StartsLocal(p)
    /\ UNCHANGED <<url, dataDir, stored, session, creds, gw, faults>>

(* The route reads the gateway and answers with the snapshot. *)
Answer(p) ==
    /\ panel[p].req.kind = "answer"
    /\ \/ UNCHANGED faults
          /\ panel' = [panel EXCEPT ![p] = [status |-> Snapshot(panel[p].req.got, GatewayHttp(TRUE)), req |-> Idle]]
       \/ url /\ Lost
          /\ panel' = [panel EXCEPT ![p] = [status |-> Snapshot(panel[p].req.got, GatewayHttp(FALSE)), req |-> Idle]]
    /\ UNCHANGED <<url, dataDir, stored, wiz, log, pid, session, creds, gw>>

(* The browser's request fails: the last snapshot stays on screen. *)
RequestFails(p) ==
    /\ panel[p].req # Idle /\ faults < MaxFaults
    /\ faults' = faults + 1
    /\ panel' = [panel EXCEPT ![p].req = Idle]
    /\ UNCHANGED <<url, dataDir, stored, wiz, log, pid, session, creds, gw>>

(***************************************************************************)
(* The specification.                                                      *)
(***************************************************************************)
PairingInit ==
    /\ \E d \in Deployments : url = d.url /\ dataDir = d.dataDir
    /\ stored \in StoredStatus
    /\ wiz = [w \in Wizards |-> Blank]
    /\ log = [of |-> NoWizard, written |-> 0, onDisk |-> 0, old |-> FALSE]
    /\ pid = NoWizard /\ session = NoWizard
    /\ creds \in {NoSession, OldSession}
    /\ gw = [state |-> IF creds = NoSession THEN "unpaired" ELSE "connected", holds |-> creds]
    /\ panel = [p \in Panels |-> [status |-> "none", req |-> Idle]]
    /\ faults = 0

WizardStep(w) ==
    \/ AskOther(w) \/ AskRePair(w) \/ Hear(w) \/ PrintQr(w) \/ Scan(w)
    \/ GiveUp(w) \/ Exit(w) \/ Killed(w)

RouteStep(p) ==
    \/ ReadPairing(p) \/ StartPairingRemote(p) \/ StartPairingLocal(p)
    \/ AnswerTooLate(p) \/ StartAfterLateAnswer(p) \/ Answer(p)

PairingNext ==
    \/ \E w \in Wizards : WizardStep(w) \/ OnData(w)
    \/ Flush \/ GoesQuiet \/ ConsoleRestart \/ HermesRestart
    \/ GatewayStep \/ GatewayDrops
    \/ \E p \in Panels : OpenPage(p) \/ Poll(p) \/ CheckNow(p) \/ PairAgain(p)
                         \/ RouteStep(p) \/ RequestFails(p)

PairingSpec == PairingInit /\ [][PairingNext]_pairingVars

(* The event loop delivers chunks, the log stream writes, time passes, the routes
   answer, the panel's timer fires, a gateway that connects gets an answer and a
   wizard that said its last word exits.  No person is fair: nobody has to scan,
   press a button, or answer. *)
PairingFairness ==
    /\ \A w \in Wizards : WF_pairingVars(OnData(w)) /\ WF_pairingVars(Exit(w))
    /\ WF_pairingVars(Flush) /\ WF_pairingVars(GoesQuiet) /\ WF_pairingVars(GatewayStep)
    /\ \A p \in Panels : WF_pairingVars(Poll(p)) /\ WF_pairingVars(RouteStep(p))

PairingFairSpec == PairingSpec /\ PairingFairness

(***************************************************************************)
(* Properties.                                                             *)
(***************************************************************************)
(* The type invariant. *)
PairingTypeOK ==
    /\ url \in BOOLEAN /\ dataDir \in BOOLEAN /\ stored \in StoredStatus
    /\ \A w \in Wizards :
         /\ wiz[w].at \in {"none", "host", "service"}
         /\ wiz[w].step \in {"run", "asked", "scan", "over"}
         /\ wiz[w].life \in {"alive", "exited", "killed"}
         /\ \A i \in DOMAIN wiz[w].out : wiz[w].out[i] \in Pieces
         /\ \A i \in DOMAIN wiz[w].got : wiz[w].got[i] \in Words
         /\ wiz[w].read \in 0 .. Len(wiz[w].out)
         /\ wiz[w].handled \in BOOLEAN /\ wiz[w].loaded \in BOOLEAN
    /\ log.of \in 0 .. N /\ log.onDisk \in 0 .. log.written /\ log.old \in BOOLEAN
    /\ pid \in 0 .. N /\ session \in 0 .. N
    /\ creds \in Credentials /\ gw.holds \in Credentials
    /\ gw.state \in {"connected", "connecting", "unpaired", "fatal"}
    /\ \A p \in Panels :
         /\ panel[p].status \in {"none", "disconnected", "pairing", "connected", "logged_out", "error"}
         /\ panel[p].req.got \in DOMAIN Overlay
    /\ faults \in 0 .. MaxFaults

(* Every answer a wizard was given is the answer to the question in its place,
   however the output was cut into chunks and whatever restarted. *)
AnswersBelong ==
    \A w \in Wizards :
      LET out == wiz[w].out
      IN  /\ Len(wiz[w].got) <= Cardinality(QuestionEnds(out))
          /\ \A i \in QuestionEnds(out) : Place(out, i) <= Len(wiz[w].got) =>
               wiz[w].got[Place(out, i)] = (IF out[i - 1] = "repair" THEN Yes ELSE Default)

(* At most one wizard is alive in each place, over any presses, panels and restarts:
   a second one would clear the session that is mid-scan. *)
OneWizard ==
    \A v, w \in Wizards : Alive(v) /\ Alive(w) /\ wiz[v].at = wiz[w].at => v = w

(* What holds of the wizards in every state: their types, that each was told what its
   own question asks for, and that none is started over another. *)
WizardInv == PairingTypeOK /\ AnswersBelong /\ OneWizard

(* A pairing the console's own wizard reports reaches the gateway: it is restarted to
   load the credentials even when the wizard exits with its last words still in the
   pipe, unless the console itself restarted in between. *)
PairedIsLoaded ==
    \A w \in Wizards :
      (wiz[w].at = "host" /\ Holds(wiz[w].out, "paired")) ~> (wiz[w].loaded \/ ~wiz[w].handled)

(* A service whose wizard was ended by a signal: the exit code stays null, and the
   service takes it for running until the container restarts. *)
Wedged == session # NoWizard /\ wiz[session].life = "killed"

(* No panel spins on a wizard that is not there: it leaves "pairing" again and again
   unless a wizard is alive (or the service is wedged by a signal). *)
PanelSettles ==
    \A p \in Panels :
      []<>(\/ panel[p].status # "pairing"
           \/ Wedged \/ \E w \in Wizards : Alive(w))
=============================================================================
