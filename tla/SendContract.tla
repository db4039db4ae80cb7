---------------------------- MODULE SendContract ----------------------------
(***************************************************************************)
(* What the send approval flow promises the owner, without processes,      *)
(* locks or clocks: a message is offered to WhatsApp once per decision,    *)
(* only an offer known to have failed may be decided again, and an offer   *)
(* whose fate is unknown is never repeated.                                *)
(***************************************************************************)
EXTENDS Naturals

CONSTANT Sends

VARIABLES
  stage,      (* per send: how far it has come                             *)
  decisions,  (* per send: how often delivering it was decided             *)
  offers,     (* per send: how often it was offered to WhatsApp            *)
  copies,     (* <<send, n>>: the n-th offer of the send arrived           *)
  untold      (* the offers whose answer died with the bridge              *)

vars == <<stage, decisions, offers, copies, untold>>

Stages == {"none", "asked", "granted", "offered", "delivered", "refused",
           "unknown", "withdrawn"}

Init ==
  /\ stage = [s \in Sends |-> "none"]
  /\ decisions = [s \in Sends |-> 0]
  /\ offers = [s \in Sends |-> 0]
  /\ copies = {}
  /\ untold = {}

Offer(s) == <<s, offers[s]>>

Move(s, from, to) ==
  /\ stage[s] \in from
  /\ stage' = [stage EXCEPT ![s] = to]

Ask(s) ==
  /\ Move(s, {"none"}, "asked")
  /\ UNCHANGED <<decisions, offers, copies, untold>>

(* The owner approves, or approves again what is known to have failed.     *)
Decide(s) ==
  /\ Move(s, {"none", "asked", "refused"}, "granted")
  /\ decisions' = [decisions EXCEPT ![s] = @ + 1]
  /\ UNCHANGED <<offers, copies, untold>>

Withdraw(s) ==
  /\ Move(s, {"asked", "granted"}, "withdrawn")
  /\ UNCHANGED <<decisions, offers, copies, untold>>

MakeOffer(s) ==
  /\ Move(s, {"granted"}, "offered")
  /\ offers' = [offers EXCEPT ![s] = @ + 1]
  /\ UNCHANGED <<decisions, copies, untold>>

(* WhatsApp takes the offered message, even after everyone gave up on it.  *)
Arrive(s) ==
  /\ stage[s] \in {"offered", "unknown"}
  /\ Offer(s) \notin copies
  /\ copies' = copies \cup {Offer(s)}
  /\ UNCHANGED <<stage, decisions, offers, untold>>

Confirm(s) ==
  /\ Offer(s) \in copies
  /\ Move(s, {"offered"}, "delivered")
  /\ UNCHANGED <<decisions, offers, copies, untold>>

(* The one exception to a refusal that means what it says: the answer to   *)
(* an offer dies with the bridge, and whoever asked takes it for refused,  *)
(* arrived or not.                                                         *)
LoseAnswer(s) ==
  /\ stage[s] = "offered"
  /\ untold' = untold \cup {Offer(s)}
  /\ UNCHANGED <<stage, decisions, offers, copies>>

(* Otherwise only an offer that did not and will not arrive is refused.    *)
RefuseOffer(s) ==
  /\ Offer(s) \in copies => Offer(s) \in untold
  /\ Move(s, {"offered"}, "refused")
  /\ UNCHANGED <<decisions, offers, copies, untold>>

LoseTrack(s) ==
  /\ Move(s, {"offered"}, "unknown")
  /\ UNCHANGED <<decisions, offers, copies, untold>>

Next ==
  \E s \in Sends :
    \/ Ask(s) \/ Decide(s) \/ Withdraw(s) \/ MakeOffer(s)
    \/ Arrive(s) \/ Confirm(s) \/ RefuseOffer(s) \/ LoseAnswer(s) \/ LoseTrack(s)

Spec == Init /\ [][Next]_vars
=============================================================================
