--------------------------- MODULE PendingActions ---------------------------
(***************************************************************************)
(* The queue of staged group actions: one document of `pendingActions` per *)
(* change the assistant asked for. Three doors lead to its one decision:   *)
(*                                                                         *)
(*   console  POST /api/actions/:id decides and then performs the action;  *)
(*   dm       `approve <id>` in the owner's direct chat only decides;      *)
(*   tool     the assistant stages, decides and performs a low-risk action *)
(*            inside one tool call.                                        *)
(*                                                                         *)
(* A decision, a claim and an outcome are each one transaction with its    *)
(* audit row. Between them the process may be overtaken, fail or die, and  *)
(* WhatsApp may apply a change after the caller stopped waiting for it:    *)
(* the console gives the worker 5 seconds, the worker gives the bridge 15. *)
(* The owner decides from a page that was loaded some time ago and is told *)
(* there, if the answer arrives, what became of the decision.              *)
(***************************************************************************)
EXTENDS Naturals, Sequences, FiniteSets

CONSTANTS
  Actions,     (* staged actions                                           *)
  Autonomous,  (* those of AUTONOMOUS_ACTIONS: no owner is asked           *)
  Messages,    (* the group_send actions; the others change the group      *)
  Handlers,    (* requests in flight                                       *)
  Door,        (* the door each request came through                       *)
  CallsOf,     (* per action: the tool calls that may have asked for it    *)
  Accounts,    (* who may be a member                                      *)
  Results,     (* what WhatsApp may report of a change of members          *)
  Most, MembersMax, Ahead, NameLength, (* as in GroupChange                *)
  None

Doors == {"console", "dm", "tool"}
Outcomes == {"executed", "not_made", "unconfirmed"}
Answers == {"rejected", "already_decided", "error"} \cup Outcomes

(* What the page can say, and of which action.                             *)
Notices == [about : Actions, says : Answers]

Change == INSTANCE GroupChange

ASSUME ActionsAssumption ==
  /\ Autonomous \subseteq Actions
  /\ Messages \subseteq Autonomous
  /\ Door \in [Handlers -> Doors]
  /\ None \notin Actions \cup Answers \cup Notices

(* What the tools can be called with: a leave carries a reason and no more, *)
(* and the texts that become something in WhatsApp have a longest length.  *)
ASSUME CallsAssumption ==
  LET Addresses == [account : Accounts, device : BOOLEAN, user : BOOLEAN]
      Calls == [tool : STRING, text : Nat, image : BOOLEAN,
                members : Seq(Addresses), due : SUBSET Nat]
  IN /\ DOMAIN Most = {"group_rename", "group_set_photo", "group_leave", "group_send"}
     /\ \A a \in Actions :
          /\ CallsOf[a] \subseteq Calls
          /\ \A call \in CallsOf[a] :
               call.tool = "group_leave" =>
                 call = [Change!Call("group_leave") EXCEPT !.text = call.text]
     /\ Results \subseteq Seq([account : Accounts, ok : BOOLEAN])

VARIABLES
  row,        (* the pendingActions collection                             *)
  audit,      (* per action: its audit rows, oldest first                  *)
  at,         (* per request: where it stands                              *)
  on,         (* per request: the action it is about                       *)
  outcome,    (* per request: what it is about to record                   *)
  told,       (* per console request: what it is answered                  *)
  calls,      (* requests whose change is with WhatsApp                    *)
  performed,  (* per action: how often WhatsApp applied it                 *)
  queued,     (* messages handed to the send queue                         *)
  shown,      (* the rows on the owner's page                              *)
  deciding,   (* the row whose buttons are held                            *)
  waiting,    (* requests the page still waits for                         *)
  notice,     (* what the page says was done, and to which row             *)
  failure     (* what the page says went wrong, and with which row         *)

reqVars == <<at, on, outcome, told>>
waVars  == <<calls, performed>>
page    == <<shown, deciding, waiting, notice, failure>>
vars == <<row, audit, reqVars, waVars, queued, page>>

States == {"absent", "pending", "approved", "rejected", "executed", "failed"}
Places == {"ready", "staged", "decided", "claimed", "calling", "outcome", "done", "dead"}
Events == {"staged", "approved", "rejected", "attempted", "executed", "failed"}

Init ==
  /\ row = [a \in Actions |-> [state |-> "absent", running |-> FALSE]]
  /\ audit = [a \in Actions |-> <<>>]
  /\ at = [h \in Handlers |-> "ready"]
  /\ on = [h \in Handlers |-> None]
  /\ outcome = [h \in Handlers |-> None]
  /\ told = [h \in Handlers |-> None]
  /\ calls = {} /\ queued = {}
  /\ performed = [a \in Actions |-> 0]
  /\ shown = {} /\ deciding = None /\ waiting = {}
  /\ notice = None /\ failure = None

Log(a, event) == audit' = [audit EXCEPT ![a] = Append(@, event)]

Goto(h, from, to) ==
  /\ at[h] = from
  /\ at' = [at EXCEPT ![h] = to]

Answer(h, answer) ==
  told' = IF Door[h] = "console" THEN [told EXCEPT ![h] = answer] ELSE told

(* Of the calls that may ask for an action those the tool stages, and the  *)
(* actions of which the worker hands one on.                               *)
Staged(a) == {call \in CallsOf[a] : Change!Stage(call) # Change!Refused}
Stageable == {a \in Actions : Staged(a) # {}}
HandedOn ==
  {a \in Actions : \E call \in Staged(a) : Change!Valid(Change!RequestFor(Change!Stage(call)))}

(* stageAction: the row and its audit row, one commit. What is not         *)
(* autonomous is left for the owner.                                       *)
StageFor(a) ==
  /\ a \in Stageable
  /\ row[a].state = "absent"
  /\ row' = [row EXCEPT ![a].state = "pending"]
  /\ Log(a, "staged")

StageForOwner(a) ==
  /\ a \notin Autonomous
  /\ StageFor(a)
  /\ UNCHANGED <<reqVars, waVars, queued, page>>

StageAutonomous(h, a) ==
  /\ Door[h] = "tool"
  /\ a \in Autonomous
  /\ Goto(h, "ready", "staged")
  /\ StageFor(a)
  /\ on' = [on EXCEPT ![h] = a]
  /\ UNCHANGED <<outcome, told, waVars, queued, page>>

(* Mutant of Decide: whatever was staged can be decided again.             *)
DecideAgain(a, decision) ==
  /\ row[a].state # "absent"
  /\ row' = [row EXCEPT ![a].state = decision]
  /\ Log(a, decision)

(* decideAction's update and its audit row: only a pending row matches.    *)
Decide(a, decision) ==
  /\ row[a].state = "pending"
  /\ row' = [row EXCEPT ![a].state = decision]
  /\ Log(a, decision)

(* What a won approval leads to: the console and the tool go on to perform *)
(* the action, the direct chat has nothing more to do.                     *)
AfterDecision(h, decision) ==
  IF decision = "approved" /\ Door[h] # "dm" THEN "decided" ELSE "done"

(* Decided in the direct chat by the short id, or on the page by a button  *)
(* that is not held: the page holds one row's only, and clears what it     *)
(* said.                                                                   *)
Press(h, a) ==
  /\ Door[h] \in {"console", "dm"}
  /\ IF Door[h] = "dm" THEN UNCHANGED <<on, page>>
     ELSE /\ a \in shown /\ deciding # a
          /\ on' = [on EXCEPT ![h] = a]
          /\ deciding' = a
          /\ waiting' = waiting \cup {h}
          /\ notice' = None /\ failure' = None
          /\ UNCHANGED shown

OwnerDecides(h, a, decision) ==
  /\ Press(h, a)
  /\ Goto(h, "ready", AfterDecision(h, decision))
  /\ Decide(a, decision)
  /\ IF decision = "rejected" THEN Answer(h, decision) ELSE UNCHANGED told
  /\ UNCHANGED <<outcome, waVars, queued>>

(* Another caller decided first: invalid_state.                            *)
OwnerIsLate(h, a) ==
  /\ Press(h, a)
  /\ row[a].state \notin {"absent", "pending"}
  /\ Goto(h, "ready", "done")
  /\ Answer(h, "already_decided")
  /\ UNCHANGED <<row, audit, outcome, waVars, queued>>

(* A click that never reaches the server, or one the store refuses.        *)
PressLost(h, a) ==
  /\ Door[h] = "console"
  /\ Press(h, a)
  /\ Goto(h, "ready", "done")
  /\ Answer(h, "error")
  /\ UNCHANGED <<row, audit, outcome, waVars, queued>>

(* The tool approves its own row, unless the owner decided it first.       *)
ToolDecides(h) ==
  /\ Goto(h, "staged", "decided")
  /\ Decide(on[h], "approved")
  /\ UNCHANGED <<on, outcome, told, waVars, queued, page>>

ToolIsLate(h) ==
  /\ Goto(h, "staged", "done")
  /\ row[on[h]].state # "pending"
  /\ Answer(h, "already_decided")
  /\ UNCHANGED <<row, audit, on, outcome, waVars, queued, page>>

-----------------------------------------------------------------------------
(* executeAction.                                                          *)

(* Mutant of Claim: the audit row is left for later.                       *)
ClaimUnlogged(h) ==
  LET a == on[h] IN
  /\ Goto(h, "decided", "claimed")
  /\ row[a] = [state |-> "approved", running |-> FALSE]
  /\ row' = [row EXCEPT ![a].running = TRUE]
  /\ UNCHANGED <<audit, on, outcome, told, waVars, queued, page>>

(* claim: approved and no result yet, with the audit row of the attempt.   *)
(* Only the winner of the decision comes here, so it finds the row so.     *)
Claim(h) ==
  LET a == on[h] IN
  /\ Goto(h, "decided", "claimed")
  /\ row[a] = [state |-> "approved", running |-> FALSE]
  /\ row' = [row EXCEPT ![a].running = TRUE]
  /\ Log(a, "attempted")
  /\ UNCHANGED <<on, outcome, told, waVars, queued, page>>

Record(h, result) == outcome' = [outcome EXCEPT ![h] = result]

(* group_send: createSend keyed by the action's id.                        *)
QueueMessage(h) ==
  /\ on[h] \in Messages
  /\ Goto(h, "claimed", "outcome")
  /\ queued' = queued \cup {on[h]}
  /\ Record(h, "executed")
  /\ UNCHANGED <<row, audit, on, told, waVars, page>>

(* runWorkerGroupAction: the request leaves for the worker and the bridge. *)
HandOver(h) ==
  /\ on[h] \notin Messages
  /\ Goto(h, "claimed", "calling")
  /\ calls' = calls \cup {h}
  /\ UNCHANGED <<row, audit, on, outcome, told, performed, queued, page>>

(* Parameters that are not this action's: no request is made.              *)
NotHandedOver(h) ==
  /\ Goto(h, "claimed", "outcome")
  /\ Record(h, "not_made")
  /\ UNCHANGED <<row, audit, on, told, waVars, queued, page>>

(* WhatsApp applies the change, whoever still waits for it.                *)
Perform(h) ==
  /\ h \in calls
  /\ on[h] \in HandedOn
  /\ calls' = calls \ {h}
  /\ performed' = [performed EXCEPT ![on[h]] = @ + 1]
  /\ UNCHANGED <<row, audit, reqVars, queued, page>>

(* The codes of a refused write: those that say nothing was changed, and   *)
(* those of a change nobody can vouch for.                                 *)
Sure   == {"invalid_request", "not_found", "group_not_found", "not_admin"}
Unsure == {"instance_offline", "group_admin_failed", "revoke_failed"}

Saying(status, bodies) == {[status |-> status, body |-> b] : b \in bodies}

(* What the worker answers of a change WhatsApp made, refused, or may yet   *)
(* make: a broken connection to the bridge is instance_offline, whatever    *)
(* had left before it broke.                                               *)
WorkerSays(fate) ==
  CASE fate = "made"    -> Saying("ok", {"confirmed", "partial"}) \cup Saying("error", Unsure)
    [] fate = "refused" -> Saying("ok", {"partial"}) \cup Saying("error", Sure \cup Unsure)
    [] fate = "open"    -> Saying("error", Unsure)

(* What the way back may make of it; no answer within WORKER_TIMEOUT_MS is *)
(* one that was cut.                                                       *)
Damaged == UNION {Saying(status, {"cut", "oversized", "unreadable"}) :
                    status \in {"ok", "error", "redirect"}}

(* An unknown code, and a body without one, are an upstream fault.         *)
WorkerFailureFor(body) == IF body \in Sure \cup Unsure THEN body ELSE "internal"

(* callWorker, in the order it looks.                                      *)
CallWorker(answer) ==
  CASE answer.body = "cut"        -> "worker_unreachable"
    [] answer.body = "oversized"  -> "internal"
    [] answer.body = "unreadable" ->
         IF answer.status = "redirect" THEN "worker_unreachable" ELSE "internal"
    [] OTHER -> IF answer.status = "ok" THEN answer.body ELSE WorkerFailureFor(answer.body)

Hear(h, fate) ==
  \E answer \in WorkerSays(fate) \cup Damaged :
    LET heard == CallWorker(answer) IN
    Record(h, CASE heard = "confirmed" -> "executed"
                [] heard \in Sure     -> "not_made"
                [] OTHER               -> "unconfirmed")

(* The change was made: 200 with ok: true is an execution, 200 with ok:    *)
(* false or an answer nobody can use is a failure all the same.            *)
Made(h) ==
  /\ h \notin calls
  /\ Goto(h, "calling", "outcome")
  /\ Hear(h, "made")
  /\ UNCHANGED <<row, audit, on, told, waVars, queued, page>>

(* WhatsApp or the worker refused the change: it is not applied.           *)
Refused(h) ==
  /\ h \in calls
  /\ Goto(h, "calling", "outcome")
  /\ Hear(h, "refused")
  /\ calls' = calls \ {h}
  /\ UNCHANGED <<row, audit, on, told, performed, queued, page>>

(* Mutant of TimedOut: the call is made again.                             *)
TimedOutTriesAgain(h) ==
  /\ Goto(h, "calling", "claimed")
  /\ UNCHANGED <<row, audit, on, outcome, told, waVars, queued, page>>

(* WORKER_TIMEOUT_MS passed, or the bridge could not be heard, with        *)
(* WhatsApp still at it.                                                   *)
TimedOut(h) ==
  /\ h \in calls
  /\ Goto(h, "calling", "outcome")
  /\ Hear(h, "open")
  /\ UNCHANGED <<row, audit, on, told, waVars, queued, page>>

Final(result) == IF result = "executed" THEN "executed" ELSE "failed"

(* settle: the claim it belongs to and its audit row. No other request     *)
(* writes a claimed row, so the update finds it.                           *)
Settle(h) ==
  LET a == on[h] IN
  /\ Goto(h, "outcome", "done")
  /\ row[a] = [state |-> "approved", running |-> TRUE]
  /\ row' = [row EXCEPT ![a] = [state |-> Final(outcome[h]), running |-> FALSE]]
  /\ Log(a, Final(outcome[h]))
  /\ Answer(h, outcome[h]) \/ Answer(h, "error")
  /\ UNCHANGED <<on, outcome, waVars, queued, page>>

(* A storage error between any two transactions, or a committed one whose  *)
(* commit was not heard: what is stored stays and the caller gets an error.*)
StoreFails(h) ==
  /\ at[h] \in {"staged", "decided", "claimed", "outcome"}
  /\ at' = [at EXCEPT ![h] = "done"]
  /\ Answer(h, "error")
  /\ UNCHANGED <<row, audit, on, outcome, waVars, queued, page>>

Crash(h) ==
  /\ at[h] \in {"staged", "decided", "claimed", "calling", "outcome"}
  /\ at' = [at EXCEPT ![h] = "dead"]
  /\ UNCHANGED <<row, audit, on, outcome, told, waVars, queued, page>>

-----------------------------------------------------------------------------
(* The owner's page.                                                       *)

Listed == {a \in Actions : row[a].state = "pending"}

(* What waits for a decision is listed once, when the page opens, or cannot *)
(* be; requests of the page before it are no longer waited for.            *)
OpenPage ==
  /\ shown' \in {Listed, {}}
  /\ deciding' = None /\ waiting' = {} /\ notice' = None /\ failure' = None
  /\ UNCHANGED <<row, audit, reqVars, waVars, queued>>

(* What a failed decision is explained by: the outcome on its row, if the  *)
(* body can be read.                                                       *)
Reasons(h) == {told[h], "error"}

Says(h, what) == [about |-> on[h], says |-> what]

StopsWaiting(h) ==
  /\ h \in waiting
  /\ waiting' = waiting \ {h}
  /\ deciding' = None

(* A 2xx answer: the row leaves the list and the page says what was done.  *)
(* Everything else leaves the row where it is, with the reason.            *)
HearDecision(h) ==
  /\ StopsWaiting(h)
  /\ at[h] = "done"
  /\ \/ /\ told[h] \in {"rejected", "executed"}
        /\ shown' = shown \ {on[h]}
        /\ notice' = Says(h, told[h])
        /\ UNCHANGED failure
     \/ /\ told[h] \notin {"rejected", "executed"}
        /\ failure' \in {Says(h, reason) : reason \in Reasons(h)}
        /\ UNCHANGED <<shown, notice>>
  /\ told' = [told EXCEPT ![h] = None]
  /\ UNCHANGED <<row, audit, at, on, outcome, waVars, queued>>

(* The connection drops while the request is somewhere; the page says that *)
(* the server did not answer.                                              *)
DecisionUnheard(h) ==
  /\ StopsWaiting(h)
  /\ failure' = Says(h, "error")
  /\ UNCHANGED <<row, audit, reqVars, waVars, queued, shown, notice>>

-----------------------------------------------------------------------------
Execute(h) ==
  \/ Claim(h) \/ QueueMessage(h) \/ HandOver(h) \/ NotHandedOver(h)
  \/ Made(h) \/ Refused(h) \/ TimedOut(h) \/ Settle(h)

Next ==
  \/ \E a \in Actions : StageForOwner(a)
  \/ \E h \in Handlers, a \in Actions :
       \/ StageAutonomous(h, a)
       \/ \E decision \in {"approved", "rejected"} : OwnerDecides(h, a, decision)
       \/ OwnerIsLate(h, a) \/ PressLost(h, a)
  \/ \E h \in Handlers :
       \/ ToolDecides(h) \/ ToolIsLate(h)
       \/ Execute(h)
       \/ Perform(h)
       \/ StoreFails(h) \/ Crash(h)
       \/ HearDecision(h) \/ DecisionUnheard(h)
  \/ OpenPage

Spec == Init /\ [][Next]_vars

(* A request runs to its end unless its process dies; WhatsApp and the     *)
(* owner are never forced.                                                 *)
FairSpec == Spec /\ \A h \in Handlers : WF_vars(ToolDecides(h) \/ Execute(h))

-----------------------------------------------------------------------------
(* Correctness.                                                            *)

(* Types of every variable.                                                *)
TypeOK ==
  /\ row \in [Actions -> [state : States, running : BOOLEAN]]
  /\ audit \in [Actions -> Seq(Events)]
  /\ at \in [Handlers -> Places]
  /\ on \in [Handlers -> Actions \cup {None}]
  /\ outcome \in [Handlers -> Outcomes \cup {None}]
  /\ told \in [Handlers -> Answers \cup {None}]
  /\ calls \subseteq Handlers
  /\ performed \in [Actions -> Nat]
  /\ queued \subseteq Actions
  /\ shown \subseteq Actions
  /\ deciding \in Actions \cup {None}
  /\ waiting \subseteq Handlers
  /\ {notice, failure} \subseteq Notices \cup {None}

(* A staged change is applied at most once: whatever the clicks, direct    *)
(* messages, timeouts, storage errors and crashes around it, one decision  *)
(* makes one call (route.ts: the row is decided, and therefore executed,   *)
(* exactly once).                                                          *)
PerformedAtMostOnce == \A a \in Actions : performed[a] <= 1

(* The audit log tells the row's whole story, in order: no decision,       *)
(* attempt or outcome without its evidence and no evidence of what was     *)
(* rolled back.                                                            *)
Story(r) ==
  CASE r.state = "absent"   -> <<>>
    [] r.state = "pending"  -> <<"staged">>
    [] r.state = "rejected" -> <<"staged", "rejected">>
    [] r.state = "approved" ->
         IF r.running THEN <<"staged", "approved", "attempted">>
                      ELSE <<"staged", "approved">>
    [] OTHER -> <<"staged", "approved", "attempted", r.state>>

AuditTellsTheStory == \A a \in Actions : audit[a] = Story(row[a])

(* WhatsApp is touched, or may still be, only for an action whose approval *)
(* and attempt are on record, never for one an owner rejected while a tool *)
(* call or a second click was about to perform it; and a row that says     *)
(* executed is a change WhatsApp applied or a message the dispatcher has.  *)
Touched(a) ==
  \/ performed[a] > 0
  \/ a \in queued
  \/ \E h \in calls : on[h] = a

EffectsMatchTheRow ==
  \A a \in Actions :
    /\ Touched(a) => row[a].running \/ row[a].state \in {"executed", "failed"}
    /\ row[a].state = "executed" =>
         IF a \in Messages THEN a \in queued ELSE performed[a] = 1

(* What stays on the owner's screen stays true, however stale the list it  *)
(* was clicked on, whichever answer came first and whoever else decided:   *)
(* a row said to be rejected was never given to WhatsApp, one said to be   *)
(* done was done, and one said to be refused is not applied later.         *)
Told(says, a) == \E m \in {notice, failure} : m = [about |-> a, says |-> says]

ScreenIsTrue ==
  \A a \in Actions :
    /\ Told("rejected", a) => row[a].state = "rejected" /\ ~Touched(a)
    /\ Told("executed", a) => row[a].state = "executed"
    /\ Told("not_made", a) => row[a].state = "failed" /\ ~Touched(a)
    /\ Told("already_decided", a) => row[a].state # "pending"

(* What the owner approved is what was asked of WhatsApp, and a row says   *)
(* executed of a change of members only if it was made for all of them.    *)
Whole(a) ==
  \A call \in Staged(a) :
    /\ Change!StagedIsRequested(call)
    /\ \A made \in SUBSET Accounts, results \in Results :
         Change!ConfirmedIsComplete(call, made, results)

WholeChanges == {a \in Actions : Whole(a)}

ChangesAreWhole ==
  \A a \in Actions : row[a].state \in {"pending", "executed"} => a \in WholeChanges

(* The row, its log's calls, WhatsApp and the screen agree at every        *)
(* instant.                                                                *)
ActionInv ==
  TypeOK /\ PerformedAtMostOnce /\ EffectsMatchTheRow /\ ScreenIsTrue /\ ChangesAreWhole

(* A rejection or an outcome is final: no later click, direct message or   *)
(* late answer changes the row.                                            *)
OutcomeIsFinal ==
  [][\A a \in Actions : row[a].state \in {"rejected", "executed", "failed"} =>
       row'[a] = row[a]]_vars

(* What the owner approves is performed: the staging tool tells the owner  *)
(* to approve in the direct chat (group-tools.ts, stagedMessage). The      *)
(* direct chat's approval decides the row and nothing performs it.         *)
ApprovedIsPerformed ==
  \A a \in Actions :
    row[a] = [state |-> "approved", running |-> FALSE] ~> row[a].state # "approved"
=============================================================================
