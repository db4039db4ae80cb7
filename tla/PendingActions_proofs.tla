----------------------- MODULE PendingActions_proofs -----------------------
(***************************************************************************)
(* Proofs about PendingActions for any number of actions and requests.     *)
(***************************************************************************)
EXTENDS PendingActions, SequenceTheorems, TLAPS

-----------------------------------------------------------------------------
(* A change from the tool's call to WhatsApp's answer.                     *)

Address == [account : Accounts, device : BOOLEAN, user : BOOLEAN]

ToolCall == [tool : STRING, text : Nat, image : BOOLEAN,
             members : Seq(Address), due : SUBSET Nat]

LEMMA CallType ==
  ASSUME NEW a \in Actions, NEW call \in CallsOf[a]
  PROVE  /\ call \in ToolCall
         /\ call.tool = "group_leave" =>
              call = [Change!Call("group_leave") EXCEPT !.text = call.text]
BY CallsAssumption DEF ToolCall, Address

LEMMA StagedFits ==
  ASSUME NEW a \in Actions, NEW call \in Staged(a)
  PROVE  call \in CallsOf[a] /\ Change!Fits(call) /\ Change!Stage(call) = call
BY DEF Staged, Change!Stage

(* What the tool let pass is asked for as it was staged.                   *)
LEMMA RequestIsStaged ==
  ASSUME NEW a \in Actions, NEW call \in Staged(a)
  PROVE  Change!StagedIsRequested(call)
<1>1. /\ call \in ToolCall
      /\ Change!Fits(call)
      /\ Change!Stage(call) = call
      /\ Change!Stage(call) # Change!Refused
      /\ call.tool = "group_leave" =>
           call = [Change!Call("group_leave") EXCEPT !.text = call.text]
  BY CallType, StagedFits DEF Staged
<1>2. CASE call.tool = "group_leave"
  <2>1. Change!RequestFor(call) = Change!Call("group_leave")
    BY <1>1, <1>2 DEF Change!RequestFor
  <2>2. [call EXCEPT !.text = 0] = Change!Call("group_leave")
    BY <1>1, <1>2 DEF Change!Call
  <2>3. Change!Call("group_leave") # Change!Refused
    BY DEF Change!Call, Change!Refused
  <2> QED BY <1>1, <1>2, <2>1, <2>2, <2>3 DEF Change!StagedIsRequested
<1>3. CASE call.tool # "group_leave"
  <2>1. call.tool \in {"group_rename", "group_set_photo", "message_revoke", "group_send"}
          => call.text # 0
    BY <1>1, CallsAssumption DEF Change!Fits
  <2>2. call.tool = "group_members" => call.members # <<>>
    BY <1>1 DEF Change!Fits
  <2>3. Change!RequestFor(call) = call
    BY <1>1, <1>3, <2>1, <2>2 DEF Change!RequestFor
  <2> QED BY <1>1, <1>3, <2>3 DEF Change!StagedIsRequested
<1> QED BY <1>2, <1>3

(* What is confirmed was made for everybody that was asked for.            *)
LEMMA ConfirmedIsMade ==
  ASSUME NEW a \in Actions, NEW call \in Staged(a),
         NEW made \in SUBSET Accounts, NEW results \in Results
  PROVE  Change!ConfirmedIsComplete(call, made, results)
<1> DEFINE request == Change!RequestFor(Change!Stage(call))
<1> SUFFICES ASSUME Change!Valid(request),
                    \A i \in DOMAIN results : results[i].ok <=> results[i].account \in made,
                    Change!Confirmed(request, results),
                    NEW i \in DOMAIN request.members
             PROVE  request.members[i].account \in made
  BY DEF Change!ConfirmedIsComplete
<1>1. Change!MembershipOutcomes(request.members, results)[i] = "ok"
  BY DEF Change!Confirmed
<1>2. Change!Outcome(request.members[i], results) = "ok"
  BY <1>1 DEF Change!MembershipOutcomes
<1>3. \E j \in DOMAIN results :
        results[j].account = request.members[i].account /\ results[j].ok
  BY <1>2 DEF Change!Outcome
<1> QED BY <1>3

(* Every change that can be staged is asked for and confirmed whole.       *)
LEMMA ChangesArePassedOnWhole == WholeChanges = Actions
BY RequestIsStaged, ConfirmedIsMade DEF WholeChanges, Whole

-----------------------------------------------------------------------------
(* The inductive invariant. That a change is applied once and that the     *)
(* screen is true needs to know which request performs an action, what a   *)
(* claim and an outcome stand for, and which calls may still be applied.   *)

Performing == {"decided", "claimed", "calling", "outcome"}

Settled == {"executed", "failed"}

Untouched(a) ==
  /\ performed[a] = 0
  /\ a \notin queued
  /\ \A h \in calls : on[h] # a

(* An action: applied once at most, never before its claim.                *)
RowInv(a) ==
  /\ performed[a] \in {0, 1}
  /\ a \in queued => a \in Messages
  /\ row[a].running => row[a].state = "approved"
  /\ performed[a] = 1 \/ a \in queued => row[a].running \/ row[a].state \in Settled
  /\ row[a].state = "executed" =>
       IF a \in Messages THEN a \in queued ELSE performed[a] = 1

(* A call that WhatsApp has: for a change not yet applied.                 *)
CallInv(h) ==
  LET a == on[h] IN
  /\ at[h] \in {"calling", "outcome", "done", "dead"}
  /\ a \in Actions \ Messages
  /\ performed[a] = 0
  /\ row[a].running \/ row[a].state \in Settled
  /\ \A g \in calls : on[g] = a => g = h

(* A request: where it stands says what its action's row is.               *)
RequestInv(h) ==
  LET a == on[h] IN
  /\ at[h] = "ready" => told[h] = None /\ h \notin waiting
  /\ at[h] \in Performing \cup {"staged"} => a \in Actions
  /\ at[h] = "staged" => row[a].state # "absent"
  /\ at[h] = "decided" => row[a].state = "approved" /\ ~row[a].running
  /\ at[h] \in {"claimed", "calling", "outcome"} => row[a].state = "approved" /\ row[a].running
  /\ at[h] \in Performing => \A g \in Handlers : at[g] \in Performing /\ on[g] = a => g = h
  /\ at[h] = "claimed" => Untouched(a)
  /\ at[h] = "calling" => a \notin Messages /\ (h \in calls \/ performed[a] = 1)
  /\ at[h] = "outcome" =>
       /\ outcome[h] # None
       /\ outcome[h] = "executed" => IF a \in Messages THEN a \in queued ELSE performed[a] = 1
       /\ outcome[h] = "not_made" => Untouched(a)

(* What an answer claims about an action.                                  *)
Fact(says, a) ==
  CASE says = "rejected"        -> row[a].state = "rejected"
    [] says = "executed"        -> row[a].state = "executed"
    [] says = "not_made"        -> row[a].state = "failed" /\ Untouched(a)
    [] says = "already_decided" -> row[a].state \notin {"absent", "pending"}
    [] OTHER                    -> TRUE

(* An answer on its way, and one the page shows.                           *)
ToldInv(h) ==
  told[h] # None => at[h] = "done" /\ on[h] \in Actions /\ Fact(told[h], on[h])

WaitingInv(h) ==
  /\ Door[h] = "console" /\ on[h] \in Actions
  /\ at[h] = "done" => told[h] # None

PageInv == \A m \in {notice, failure} : m # None => Fact(m.says, m.about)

IInv ==
  /\ TypeOK
  /\ \A a \in Actions : RowInv(a)
  /\ \A h \in calls : CallInv(h)
  /\ \A h \in Handlers : RequestInv(h)
  /\ \A h \in Handlers : ToldInv(h)
  /\ \A h \in waiting : WaitingInv(h)
  /\ PageInv

(* An audit row is added.                                                  *)
LEMMA LogType ==
  ASSUME audit \in [Actions -> Seq(Events)], NEW a \in Actions, NEW e \in Events, Log(a, e)
  PROVE  audit' \in [Actions -> Seq(Events)]
BY DEF Log

LEMMA StageForKeeps ==
  ASSUME IInv, NEW a \in Actions, StageFor(a),
         UNCHANGED <<outcome, told, waVars, queued, page>>,
         \/ UNCHANGED <<at, on>>
         \/ \E h \in Handlers : Goto(h, "ready", "staged") /\ on' = [on EXCEPT ![h] = a]
  PROVE  IInv'
<1> USE DEF Goto, waVars, page, Performing, Settled
<1>0. /\ row \in [Actions -> [state : States, running : BOOLEAN]]
      /\ at \in [Handlers -> Places]
      /\ on \in [Handlers -> Actions \cup {None}]
      /\ calls \subseteq Handlers
  BY DEF IInv, TypeOK
<1>1. /\ row' \in [Actions -> [state : States, running : BOOLEAN]]
      /\ row'[a].state = "pending" /\ row[a].state = "absent"
      /\ row'[a].running = row[a].running
      /\ \A b \in Actions : b # a => row'[b] = row[b]
  BY <1>0 DEF StageFor, States
<1>2. /\ at' \in [Handlers -> Places]
      /\ on' \in [Handlers -> Actions \cup {None}]
      /\ \A g \in Handlers :
           \/ at'[g] = at[g] /\ on'[g] = on[g]
           \/ at[g] = "ready" /\ at'[g] = "staged" /\ on'[g] = a
  BY <1>0 DEF Places
<1>3. TypeOK'
  <2>1. audit' \in [Actions -> Seq(Events)]
    BY LogType DEF IInv, TypeOK, StageFor, Events
  <2> QED BY <1>1, <1>2, <2>1 DEF IInv, TypeOK
<1>4. \A b \in Actions : RowInv(b)'
  BY <1>1 DEF IInv, RowInv
<1>5. ASSUME NEW h \in calls' PROVE CallInv(h)'
  <2>1. h \in Handlers /\ CallInv(h)
    BY <1>0, <1>5 DEF IInv
  <2>2. /\ at'[h] = at[h] /\ on'[h] = on[h]
        /\ row[on[h]].state # "absent" \/ row[on[h]].running
    BY <1>2, <2>1 DEF CallInv
  <2>3. \A g \in calls : on'[g] = on[g]
    BY <1>0, <1>2 DEF IInv, CallInv
  <2>4. /\ row'[on[h]].running = row[on[h]].running
        /\ row[on[h]].state \in Settled => row'[on[h]].state \in Settled
    BY <1>1, <2>1 DEF CallInv
  <2> QED BY <2>1, <2>2, <2>3, <2>4 DEF CallInv
<1>6. \A h \in Handlers : RequestInv(h)'
  BY <1>0, <1>1, <1>2 DEF IInv, RequestInv, CallInv, Untouched
<1>7. \A b \in Actions, says \in Answers : Fact(says, b) => Fact(says, b)'
  BY <1>0, <1>1, <1>2 DEF IInv, Fact, Untouched, CallInv
<1>8. \A h \in Handlers : ToldInv(h)'
  BY <1>2, <1>7 DEF IInv, ToldInv, TypeOK
<1>9. \A h \in waiting' : WaitingInv(h)'
  BY <1>2 DEF IInv, WaitingInv, RequestInv, TypeOK
<1>10. PageInv'
  BY <1>7 DEF IInv, PageInv, TypeOK, Notices
<1> QED BY <1>3, <1>4, <1>5, <1>6, <1>8, <1>9, <1>10 DEF IInv

(* A press on the page, or a message in the direct chat, by a new request. *)
LEMMA Pressed ==
  ASSUME IInv, NEW h \in Handlers, NEW a \in Actions, Press(h, a), at[h] = "ready"
  PROVE  /\ on' \in [Handlers -> Actions \cup {None}]
         /\ \A g \in Handlers : g # h => on'[g] = on[g]
         /\ Door[h] = "console" => on'[h] = a
         /\ shown' \subseteq Actions /\ deciding' \in Actions \cup {None}
         /\ waiting' \subseteq Handlers
         /\ waiting' \subseteq IF Door[h] = "console" THEN waiting \cup {h} ELSE waiting
         /\ {notice', failure'} \subseteq {notice, failure, None}
         /\ \A g \in calls : g # h
<1>1. /\ on \in [Handlers -> Actions \cup {None}]
      /\ shown \subseteq Actions /\ deciding \in Actions \cup {None}
      /\ waiting \subseteq Handlers
  BY DEF IInv, TypeOK
<1>2. \A g \in calls : g # h
  BY DEF IInv, CallInv
<1> QED BY <1>1, <1>2 DEF Press, page

LEMMA OwnerDecidesKeeps ==
  ASSUME IInv, NEW h \in Handlers, NEW a \in Actions, NEW decision \in {"approved", "rejected"},
         OwnerDecides(h, a, decision)
  PROVE  IInv'
<1> USE DEF Goto, waVars, Performing, Settled
<1>0. /\ row \in [Actions -> [state : States, running : BOOLEAN]]
      /\ at \in [Handlers -> Places]
      /\ on \in [Handlers -> Actions \cup {None}]
      /\ told \in [Handlers -> Answers \cup {None}]
      /\ calls \subseteq Handlers
      /\ Door[h] \in {"console", "dm"}
      /\ UNCHANGED <<outcome, calls, performed, queued>>
  BY DEF IInv, TypeOK, OwnerDecides, Press
<1>1. /\ row' \in [Actions -> [state : States, running : BOOLEAN]]
      /\ row'[a].state = decision /\ row[a].state = "pending"
      /\ row'[a].running = row[a].running
      /\ \A b \in Actions : b # a => row'[b] = row[b]
  BY <1>0 DEF OwnerDecides, Decide, States
<1>2. /\ at' \in [Handlers -> Places]
      /\ \A g \in Handlers : g # h => at'[g] = at[g]
      /\ at[h] = "ready"
      /\ at'[h] = IF Door[h] = "console" /\ decision = "approved" THEN "decided" ELSE "done"
  BY <1>0 DEF Places, OwnerDecides, AfterDecision
<1>3. /\ told' \in [Handlers -> Answers \cup {None}]
      /\ \A g \in Handlers : g # h => told'[g] = told[g]
      /\ told'[h] = IF Door[h] = "console" /\ decision = "rejected" THEN "rejected" ELSE told[h]
  BY <1>0 DEF OwnerDecides, Answer, Answers
<1>4. Press(h, a)
  BY DEF OwnerDecides
<1>5. TypeOK'
  <2>1. audit' \in [Actions -> Seq(Events)]
    BY LogType DEF IInv, TypeOK, OwnerDecides, Decide, Events
  <2>2. outcome' \in [Handlers -> Outcomes \cup {None}] /\ performed' \in [Actions -> Nat]
        /\ queued' \subseteq Actions /\ calls' \subseteq Handlers
    BY <1>0 DEF IInv, TypeOK
  <2>3. {notice', failure'} \subseteq Notices \cup {None}
    BY <1>2, <1>4, Pressed DEF IInv, TypeOK
  <2> QED BY <1>1, <1>2, <1>3, <1>4, <2>1, <2>2, <2>3, Pressed DEF TypeOK
<1>6. \A b \in Actions : RowInv(b)'
  BY <1>0, <1>1 DEF IInv, RowInv
<1>7. \A g \in calls' : CallInv(g)'
  BY <1>0, <1>1, <1>2, <1>4, Pressed DEF IInv, CallInv
<1>8. \A g \in Handlers : RequestInv(g)'
  BY <1>0, <1>1, <1>2, <1>3, <1>4, Pressed DEF IInv, RequestInv, RowInv, Untouched
<1>9. \A b \in Actions, says \in Answers : Fact(says, b) => Fact(says, b)'
  BY <1>0, <1>1, <1>2, <1>4, Pressed DEF IInv, Fact, Untouched
<1>10. \A g \in Handlers : ToldInv(g)'
  <2>1. Door[h] = "console" /\ decision = "rejected" => ToldInv(h)'
    BY <1>1, <1>2, <1>3, <1>4, Pressed DEF ToldInv, Fact
  <2>2. ~(Door[h] = "console" /\ decision = "rejected") => ToldInv(h)'
    BY <1>2, <1>3 DEF IInv, ToldInv, RequestInv
  <2>3. \A g \in Handlers : g # h => ToldInv(g)'
    BY <1>0, <1>2, <1>3, <1>4, <1>9, Pressed DEF IInv, ToldInv
  <2> QED BY <2>1, <2>2, <2>3
<1>11. \A g \in waiting' : WaitingInv(g)'
  <2>1. h \in waiting' => WaitingInv(h)'
    BY <1>0, <1>2, <1>3, <1>4, ActionsAssumption, Pressed
    DEF IInv, WaitingInv, RequestInv, Answers
  <2>2. \A g \in waiting' : g # h => WaitingInv(g)'
    BY <1>2, <1>3, <1>4, Pressed DEF IInv, WaitingInv
  <2> QED BY <2>1, <2>2
<1>12. PageInv'
  BY <1>2, <1>4, <1>9, Pressed DEF IInv, PageInv, TypeOK, Notices
<1> QED BY <1>5, <1>6, <1>7, <1>8, <1>10, <1>11, <1>12 DEF IInv

(* A press that decides nothing is answered at once.                       *)
LEMMA PressAnsweredKeeps ==
  ASSUME IInv, NEW h \in Handlers, NEW a \in Actions, NEW answer \in {"already_decided", "error"},
         Press(h, a), Goto(h, "ready", "done"), Answer(h, answer), Fact(answer, a),
         UNCHANGED <<row, audit, outcome, waVars, queued>>
  PROVE  IInv'
<1> USE DEF Goto, waVars, Performing, Settled
<1>0. /\ at \in [Handlers -> Places]
      /\ told \in [Handlers -> Answers \cup {None}]
      /\ calls \subseteq Handlers
      /\ Door[h] \in {"console", "dm"}
  BY DEF IInv, TypeOK, Press
<1>1. /\ at' \in [Handlers -> Places]
      /\ \A g \in Handlers : g # h => at'[g] = at[g]
      /\ at[h] = "ready" /\ at'[h] = "done"
  BY <1>0 DEF Places
<1>2. /\ told' \in [Handlers -> Answers \cup {None}]
      /\ \A g \in Handlers : g # h => told'[g] = told[g]
      /\ told'[h] = IF Door[h] = "console" THEN answer ELSE told[h]
  BY <1>0 DEF Answer, Answers
<1>3. TypeOK'
  <2>1. {notice', failure'} \subseteq Notices \cup {None}
    BY <1>1, Pressed DEF IInv, TypeOK
  <2> QED BY <1>1, <1>2, <2>1, Pressed DEF IInv, TypeOK
<1>4. \A b \in Actions : RowInv(b)'
  BY DEF IInv, RowInv
<1>5. \A g \in calls' : CallInv(g)'
  BY <1>0, <1>1, Pressed DEF IInv, CallInv
<1>6. \A g \in Handlers : RequestInv(g)'
  BY <1>0, <1>1, <1>2, Pressed DEF IInv, RequestInv, Untouched
<1>7. \A b \in Actions, says \in Answers : Fact(says, b) <=> Fact(says, b)'
  BY <1>0, <1>1, Pressed DEF Fact, Untouched
<1>8. \A g \in Handlers : ToldInv(g)'
  <2>1. ToldInv(h)'
    BY <1>1, <1>2, <1>7, Pressed DEF IInv, ToldInv, RequestInv, Answers
  <2>2. \A g \in Handlers : g # h => ToldInv(g)'
    BY <1>0, <1>1, <1>2, <1>7, Pressed DEF IInv, ToldInv
  <2> QED BY <2>1, <2>2
<1>9. \A g \in waiting' : WaitingInv(g)'
  <2>1. h \in waiting' => WaitingInv(h)'
    BY <1>0, <1>1, <1>2, ActionsAssumption, Pressed
    DEF IInv, WaitingInv, RequestInv, Answers
  <2>2. \A g \in waiting' : g # h => WaitingInv(g)'
    BY <1>1, <1>2, Pressed DEF IInv, WaitingInv
  <2> QED BY <2>1, <2>2
<1>10. PageInv'
  BY <1>1, <1>7, Pressed DEF IInv, PageInv, TypeOK, Notices
<1> QED BY <1>3, <1>4, <1>5, <1>6, <1>8, <1>9, <1>10 DEF IInv

(* A request that ends without touching its row: overtaken, refused by the *)
(* store, or with its process.                                             *)
LEMMA EndsKeeps ==
  ASSUME IInv, NEW h \in Handlers, at[h] \in Performing \cup {"staged"},
         UNCHANGED <<row, audit, on, outcome, waVars, queued, page>>,
         \/ at' = [at EXCEPT ![h] = "dead"] /\ UNCHANGED told
         \/ /\ at' = [at EXCEPT ![h] = "done"]
            /\ \E answer \in {"already_decided", "error"} : Answer(h, answer) /\ Fact(answer, on[h])
  PROVE  IInv'
<1> USE DEF waVars, page, Performing, Settled
<1>0. /\ at \in [Handlers -> Places]
      /\ told \in [Handlers -> Answers \cup {None}]
      /\ calls \subseteq Handlers
      /\ on[h] \in Actions
  BY DEF IInv, TypeOK, RequestInv
<1>1. /\ at' \in [Handlers -> Places]
      /\ \A g \in Handlers : g # h => at'[g] = at[g]
      /\ at'[h] \in {"done", "dead"}
  BY <1>0 DEF Places
<1>2. PICK answer \in {"already_decided", "error", told[h]} :
        /\ told' \in [Handlers -> Answers \cup {None}]
        /\ \A g \in Handlers : g # h => told'[g] = told[g]
        /\ told'[h] = answer
        /\ answer # told[h] => at'[h] = "done" /\ Fact(answer, on[h])
        /\ at'[h] = "done" => Door[h] # "console" \/ answer \in Answers
  BY <1>0 DEF Answer, Answers
<1>3. TypeOK'
  BY <1>1, <1>2 DEF IInv, TypeOK
<1>4. \A b \in Actions : RowInv(b)'
  BY DEF IInv, RowInv
<1>5. \A g \in calls' : CallInv(g)'
  BY <1>0, <1>1 DEF IInv, CallInv
<1>6. \A g \in Handlers : RequestInv(g)'
  BY <1>0, <1>1, <1>2 DEF IInv, RequestInv, Untouched
<1>7. \A b \in Actions, says \in Answers : Fact(says, b) <=> Fact(says, b)'
  BY DEF Fact, Untouched
<1>8. \A g \in Handlers : ToldInv(g)'
  BY <1>0, <1>1, <1>2, <1>7 DEF IInv, ToldInv, Answers
<1>9. \A g \in waiting' : WaitingInv(g)'
  BY <1>0, <1>1, <1>2, ActionsAssumption DEF IInv, WaitingInv, TypeOK
<1>10. PageInv'
  BY <1>7 DEF IInv, PageInv, TypeOK, Notices
<1> QED BY <1>3, <1>4, <1>5, <1>6, <1>8, <1>9, <1>10 DEF IInv

(* The tool's own decision, and the claim of a request that won one.       *)
LEMMA AdvanceKeeps ==
  ASSUME IInv, NEW h \in Handlers, ToolDecides(h) \/ Claim(h)
  PROVE  IInv'
<1> USE DEF Goto, waVars, page, Performing, Settled
<1>0. /\ row \in [Actions -> [state : States, running : BOOLEAN]]
      /\ at \in [Handlers -> Places]
      /\ calls \subseteq Handlers
      /\ on[h] \in Actions
      /\ UNCHANGED <<on, outcome, told, calls, performed, queued, shown, deciding, waiting,
                     notice, failure>>
  BY DEF IInv, TypeOK, RequestInv, ToolDecides, Claim
<1>1. /\ row' \in [Actions -> [state : States, running : BOOLEAN]]
      /\ row'[on[h]].state = "approved"
      /\ row'[on[h]].running <=> at'[h] = "claimed"
      /\ \A b \in Actions : b # on[h] => row'[b] = row[b]
      /\ \/ at[h] = "staged" /\ row[on[h]].state = "pending" /\ at'[h] = "decided"
         \/ /\ at[h] = "decided" /\ row[on[h]].state = "approved"
            /\ ~row[on[h]].running /\ at'[h] = "claimed"
  <2>1. CASE ToolDecides(h)
    BY <1>0, <2>1 DEF ToolDecides, Decide, States, IInv, RowInv
  <2>2. CASE Claim(h)
    <3>1. /\ row[on[h]].state = "approved" /\ ~row[on[h]].running
          /\ row' = [row EXCEPT ![on[h]].running = TRUE]
          /\ at[h] = "decided" /\ at' = [at EXCEPT ![h] = "claimed"]
      BY <1>0, <2>2 DEF Claim
    <3>2. at'[h] = "claimed"
      BY <1>0, <3>1
    <3> QED BY <1>0, <3>1, <3>2 DEF States
  <2> QED BY <2>1, <2>2
<1>2. /\ at' \in [Handlers -> Places]
      /\ \A g \in Handlers : g # h => at'[g] = at[g]
  BY <1>0 DEF Places, ToolDecides, Claim
<1>3. TypeOK'
  <2>1. audit' \in [Actions -> Seq(Events)]
    BY <1>0, LogType DEF IInv, TypeOK, ToolDecides, Decide, Claim, Events
  <2> QED BY <1>0, <1>1, <1>2, <2>1 DEF IInv, TypeOK
<1>4. \A b \in Actions : RowInv(b)'
  BY <1>0, <1>1 DEF IInv, RowInv
<1>5. \A g \in calls' : CallInv(g)'
  BY <1>0, <1>1, <1>2 DEF IInv, CallInv, RowInv
<1>6. \A g \in Handlers : RequestInv(g)'
  <2>1. Untouched(on[h])
    BY <1>0, <1>1 DEF IInv, RowInv, CallInv, Untouched
  <2>2. RequestInv(h)'
    BY <1>0, <1>1, <1>2, <2>1 DEF IInv, RequestInv, Untouched
  <2>3. \A g \in Handlers : g # h => RequestInv(g)'
    BY <1>0, <1>1, <1>2 DEF IInv, RequestInv, Untouched
  <2> QED BY <2>2, <2>3
<1>7. \A b \in Actions, says \in Answers : Fact(says, b) => Fact(says, b)'
  BY <1>0, <1>1 DEF Fact, Untouched
<1>8. \A g \in Handlers : ToldInv(g)'
  BY <1>0, <1>1, <1>2, <1>7 DEF IInv, ToldInv, TypeOK
<1>9. \A g \in waiting' : WaitingInv(g)'
  BY <1>0, <1>1, <1>2 DEF IInv, WaitingInv, TypeOK
<1>10. PageInv'
  BY <1>0, <1>7 DEF IInv, PageInv, TypeOK, Notices
<1> QED BY <1>3, <1>4, <1>5, <1>6, <1>8, <1>9, <1>10 DEF IInv

(* What a request hears of its call: executed only of a change that was    *)
(* made, not_made only of one that was refused.                            *)
LEMMA Heard ==
  ASSUME outcome \in [Handlers -> Outcomes \cup {None}], NEW h \in Handlers,
         NEW fate \in {"made", "refused", "open"}, Hear(h, fate)
  PROVE  /\ outcome' \in [Handlers -> Outcomes \cup {None}]
         /\ \A g \in Handlers : g # h => outcome'[g] = outcome[g]
         /\ outcome'[h] \in Outcomes
         /\ outcome'[h] = "executed" => fate = "made"
         /\ outcome'[h] = "not_made" => fate = "refused"
<1>1. PICK answer \in WorkerSays(fate) \cup Damaged :
        LET heard == CallWorker(answer) IN
        Record(h, CASE heard = "confirmed" -> "executed"
                    [] heard \in Sure     -> "not_made"
                    [] OTHER               -> "unconfirmed")
  BY DEF Hear
<1> DEFINE heard == CallWorker(answer)
<1>2. answer \in Damaged => heard \in {"worker_unreachable", "internal"}
  <2>1. answer \in Damaged => answer.body \in {"cut", "oversized", "unreadable"}
    BY DEF Damaged, Saying
  <2> QED BY <2>1 DEF CallWorker
<1>3. answer \in WorkerSays(fate) =>
        /\ heard = "confirmed" => fate = "made"
        /\ heard \in Sure => fate = "refused"
  BY DEF WorkerSays, Saying, CallWorker, WorkerFailureFor, Sure, Unsure
<1>4. /\ heard = "confirmed" => fate = "made"
      /\ heard \in Sure => fate = "refused"
  BY <1>2, <1>3 DEF Sure
<1> QED BY <1>1, <1>4 DEF Record, Outcomes, Sure

(* Steps of a request that holds its claim leave the row and the page.     *)
LEMMA ClaimantKeeps ==
  ASSUME IInv, NEW h \in Handlers, at[h] \in {"claimed", "calling"},
         NEW place \in {"calling", "outcome"}, at' = [at EXCEPT ![h] = place],
         outcome' \in [Handlers -> Outcomes \cup {None}],
         \A g \in Handlers : g # h => outcome'[g] = outcome[g],
         calls' \subseteq calls \cup {h}, calls \subseteq calls' \cup {h},
         h \in calls' => on[h] \notin Messages /\ performed[on[h]] = 0,
         queued' \subseteq queued \cup ({on[h]} \cap Messages), queued \subseteq queued',
         RequestInv(h)',
         UNCHANGED <<row, audit, on, told, performed, page>>
  PROVE  IInv'
<1> USE DEF page, Performing, Settled
<1>0. /\ at \in [Handlers -> Places]
      /\ calls \subseteq Handlers /\ waiting \subseteq Handlers
      /\ on[h] \in Actions
      /\ row[on[h]].state = "approved" /\ row[on[h]].running
  BY DEF IInv, TypeOK, RequestInv
<1>1. /\ at' \in [Handlers -> Places]
      /\ at'[h] = place
      /\ \A g \in Handlers : g # h => at'[g] = at[g]
  BY <1>0 DEF Places
<1>2. TypeOK'
  BY <1>0, <1>1 DEF IInv, TypeOK
<1>3. \A b \in Actions : RowInv(b)'
  BY <1>0 DEF IInv, RowInv
<1>4. \A g \in calls : on[g] = on[h] => g = h
  BY <1>0 DEF IInv, RequestInv, CallInv, Untouched
<1>5. \A g \in calls' : CallInv(g)'
  BY <1>0, <1>1, <1>4 DEF IInv, CallInv
<1>6. \A g \in Handlers : g # h => RequestInv(g)'
  BY <1>0, <1>1 DEF IInv, RequestInv, Untouched
<1>7. \A b \in Actions, says \in Answers : Fact(says, b) => Fact(says, b)'
  BY <1>0 DEF Fact, Untouched
<1>8. \A g \in Handlers : ToldInv(g)'
  BY <1>0, <1>1, <1>7 DEF IInv, ToldInv, TypeOK
<1>9. \A g \in waiting' : WaitingInv(g)'
  BY <1>0, <1>1 DEF IInv, WaitingInv
<1>10. PageInv'
  BY <1>7 DEF IInv, PageInv, TypeOK, Notices
<1> QED BY <1>2, <1>3, <1>5, <1>6, <1>8, <1>9, <1>10 DEF IInv

(* At a claim nobody has touched WhatsApp for the action yet; a call is    *)
(* still there or has been applied, once.                                  *)
LEMMA ClaimedStepKeeps ==
  ASSUME IInv, NEW h \in Handlers,
         QueueMessage(h) \/ NotHandedOver(h) \/ HandOver(h)
  PROVE  IInv'
<1> USE DEF Goto, waVars, page, Performing, Record
<1>1. /\ at[h] = "claimed" /\ on[h] \in Actions
      /\ row[on[h]].state = "approved" /\ row[on[h]].running
      /\ Untouched(on[h])
      /\ \A g \in Handlers : at[g] \in Performing /\ on[g] = on[h] => g = h
      /\ told[h] = None \/ at[h] = "done"
      /\ at \in [Handlers -> Places] /\ outcome \in [Handlers -> Outcomes \cup {None}]
  BY DEF IInv, TypeOK, RequestInv, ToldInv, QueueMessage, NotHandedOver, HandOver
<1>2. CASE QueueMessage(h)
  <2>1. RequestInv(h)'
    BY <1>1, <1>2, ActionsAssumption DEF RequestInv, QueueMessage, Outcomes, Answers
  <2> QED BY <1>1, <1>2, <2>1, ClaimantKeeps DEF QueueMessage, Outcomes, IInv, CallInv
<1>3. CASE NotHandedOver(h)
  <2>1. RequestInv(h)'
    BY <1>1, <1>3, ActionsAssumption DEF RequestInv, NotHandedOver, Outcomes, Answers, Untouched
  <2> QED BY <1>1, <1>3, <2>1, ClaimantKeeps DEF NotHandedOver, Outcomes, IInv, CallInv
<1>4. CASE HandOver(h)
  <2>1. RequestInv(h)'
    BY <1>1, <1>4 DEF RequestInv, HandOver
  <2> QED BY <1>1, <1>4, <2>1, ClaimantKeeps DEF HandOver, Untouched
<1> QED BY <1>2, <1>3, <1>4

LEMMA CallingStepKeeps ==
  ASSUME IInv, NEW h \in Handlers, Made(h) \/ Refused(h) \/ TimedOut(h)
  PROVE  IInv'
<1> USE DEF Goto, waVars, page, Performing
<1>1. /\ at[h] = "calling" /\ on[h] \in Actions \ Messages
      /\ row[on[h]].state = "approved" /\ row[on[h]].running
      /\ h \in calls \/ performed[on[h]] = 1
      /\ h \in calls => performed[on[h]] = 0 /\ \A g \in calls : on[g] = on[h] => g = h
      /\ \A g \in Handlers : at[g] \in Performing /\ on[g] = on[h] => g = h
      /\ on[h] \notin queued
      /\ at \in [Handlers -> Places] /\ outcome \in [Handlers -> Outcomes \cup {None}]
  BY DEF IInv, TypeOK, RequestInv, CallInv, RowInv, Made, Refused, TimedOut
<1>2. CASE Made(h)
  <2>1. RequestInv(h)'
    BY <1>1, <1>2, Heard, ActionsAssumption DEF RequestInv, Made, Answers
  <2> QED BY <1>1, <1>2, <2>1, Heard, ClaimantKeeps DEF Made
<1>3. CASE Refused(h)
  <2>1. RequestInv(h)'
    BY <1>1, <1>3, Heard, ActionsAssumption DEF RequestInv, Refused, Answers, Untouched
  <2> QED BY <1>1, <1>3, <2>1, Heard, ClaimantKeeps DEF Refused
<1>4. CASE TimedOut(h)
  <2>1. RequestInv(h)'
    BY <1>1, <1>4, Heard, ActionsAssumption DEF RequestInv, TimedOut, Answers
  <2> QED BY <1>1, <1>4, <2>1, Heard, ClaimantKeeps DEF TimedOut
<1> QED BY <1>2, <1>3, <1>4

LEMMA PerformKeeps ==
  ASSUME IInv, NEW h \in Handlers, Perform(h)
  PROVE  IInv'
<1> USE DEF Perform, reqVars, page, Performing, Settled
<1>1. /\ h \in calls /\ calls \subseteq Handlers /\ waiting \subseteq Handlers
      /\ on[h] \in Actions \ Messages
      /\ performed[on[h]] = 0
      /\ row[on[h]].running \/ row[on[h]].state \in Settled
      /\ \A g \in calls : on[g] = on[h] => g = h
      /\ at[h] \in {"calling", "outcome", "done", "dead"}
  BY DEF IInv, TypeOK, CallInv
<1>2. /\ performed' \in [Actions -> Nat]
      /\ performed'[on[h]] = 1
      /\ \A b \in Actions : b # on[h] => performed'[b] = performed[b]
  BY <1>1 DEF IInv, TypeOK
<1>3. TypeOK'
  BY <1>1, <1>2 DEF IInv, TypeOK
<1>4. \A b \in Actions : RowInv(b)'
  BY <1>1, <1>2 DEF IInv, RowInv
<1>5. \A g \in calls' : CallInv(g)'
  BY <1>1, <1>2 DEF IInv, CallInv
<1>6. \A b \in Actions : Untouched(b) => Untouched(b)'
  BY <1>1, <1>2 DEF Untouched
<1>7. \A g \in Handlers : RequestInv(g)'
  BY <1>1, <1>2, <1>6 DEF IInv, RequestInv
<1>8. \A b \in Actions, says \in Answers : Fact(says, b) => Fact(says, b)'
  BY <1>6 DEF Fact
<1>9. \A g \in Handlers : ToldInv(g)'
  BY <1>8 DEF IInv, ToldInv, TypeOK
<1>10. \A g \in waiting' : WaitingInv(g)'
  BY DEF IInv, WaitingInv
<1>11. PageInv'
  BY <1>8 DEF IInv, PageInv, TypeOK, Notices
<1> QED BY <1>3, <1>4, <1>5, <1>7, <1>9, <1>10, <1>11 DEF IInv

LEMMA SettleKeeps ==
  ASSUME IInv, NEW h \in Handlers, Settle(h)
  PROVE  IInv'
<1> USE DEF Goto, waVars, page, Performing, Settled
<1>0. /\ row \in [Actions -> [state : States, running : BOOLEAN]]
      /\ at \in [Handlers -> Places]
      /\ told \in [Handlers -> Answers \cup {None}]
      /\ calls \subseteq Handlers /\ waiting \subseteq Handlers
      /\ on[h] \in Actions /\ at[h] = "outcome"
      /\ outcome[h] \in Outcomes
      /\ row[on[h]].state = "approved" /\ row[on[h]].running
      /\ outcome[h] = "executed" =>
           IF on[h] \in Messages THEN on[h] \in queued ELSE performed[on[h]] = 1
      /\ outcome[h] = "not_made" => Untouched(on[h])
      /\ UNCHANGED <<on, outcome, calls, performed, queued, shown, deciding, waiting,
                     notice, failure>>
  BY DEF IInv, TypeOK, RequestInv, Settle
<1>1. /\ row' \in [Actions -> [state : States, running : BOOLEAN]]
      /\ row'[on[h]].state = Final(outcome[h])
      /\ Final(outcome[h]) \in Settled
      /\ ~row'[on[h]].running
      /\ \A b \in Actions : b # on[h] => row'[b] = row[b]
  BY <1>0 DEF Settle, Final, States
<1>2. /\ at' \in [Handlers -> Places]
      /\ at'[h] = "done"
      /\ \A g \in Handlers : g # h => at'[g] = at[g]
  BY <1>0 DEF Settle, Places
<1>3. /\ told' \in [Handlers -> Answers \cup {None}]
      /\ Door[h] = "console" => told'[h] \in {outcome[h], "error"}
      /\ Door[h] # "console" => told'[h] = told[h]
      /\ \A g \in Handlers : g # h => told'[g] = told[g]
  BY <1>0 DEF Settle, Answer, Answers
<1>4. TypeOK'
  <2>1. audit' \in [Actions -> Seq(Events)]
    BY <1>0, <1>1, LogType DEF IInv, TypeOK, Settle, Events
  <2> QED BY <1>0, <1>1, <1>2, <1>3, <2>1 DEF IInv, TypeOK
<1>5. \A b \in Actions : RowInv(b)'
  BY <1>0, <1>1 DEF IInv, RowInv, Final
<1>6. \A g \in calls' : CallInv(g)'
  BY <1>0, <1>1, <1>2 DEF IInv, CallInv
<1>7. \A g \in Handlers : RequestInv(g)'
  BY <1>0, <1>1, <1>2, <1>3 DEF IInv, RequestInv, Untouched
<1>8. \A b \in Actions, says \in Answers : Fact(says, b) => Fact(says, b)'
  BY <1>0, <1>1 DEF Fact, Untouched
<1>9. \A g \in Handlers : ToldInv(g)'
  <2>1. \A says \in {outcome[h], "error"} : Fact(says, on[h])'
    BY <1>0, <1>1, <1>3 DEF Fact, Final, Untouched, Outcomes
  <2>2. told[h] = None
    BY <1>0 DEF IInv, ToldInv
  <2>3. ToldInv(h)'
    BY <1>0, <1>2, <1>3, <2>1, <2>2 DEF ToldInv
  <2>4. \A g \in Handlers : g # h => ToldInv(g)'
    BY <1>0, <1>2, <1>3, <1>8 DEF IInv, ToldInv, TypeOK
  <2> QED BY <2>3, <2>4
<1>10. \A g \in waiting' : WaitingInv(g)'
  BY <1>0, <1>2, <1>3, ActionsAssumption DEF IInv, WaitingInv, Answers
<1>11. PageInv'
  BY <1>0, <1>8 DEF IInv, PageInv, TypeOK, Notices
<1> QED BY <1>4, <1>5, <1>6, <1>7, <1>9, <1>10, <1>11 DEF IInv

(* The page: what it shows is an answer it was given, or nothing.          *)
LEMMA PageKeeps ==
  ASSUME IInv, OpenPage \/ \E h \in Handlers : HearDecision(h) \/ DecisionUnheard(h)
  PROVE  IInv'
<1> USE DEF reqVars, waVars, Performing, Settled
<1>1. /\ UNCHANGED <<row, audit, at, on, outcome, calls, performed, queued>>
      /\ waiting' \subseteq waiting
      /\ waiting \subseteq Handlers /\ calls \subseteq Handlers
      /\ told' \in [Handlers -> Answers \cup {None}]
      /\ \A g \in Handlers : told'[g] # told[g] => told'[g] = None /\ g \notin waiting'
  BY DEF IInv, TypeOK, OpenPage, HearDecision, DecisionUnheard, StopsWaiting
<1>2. /\ shown' \subseteq Actions /\ deciding' \in Actions \cup {None}
      /\ {notice', failure'} \subseteq Notices \cup {None}
      /\ \A m \in {notice', failure'} : m # None => Fact(m.says, m.about)
  <2>1. CASE OpenPage
    BY <2>1 DEF OpenPage, Listed, IInv, TypeOK
  <2>2. ASSUME NEW h \in Handlers, HearDecision(h)
        PROVE  <1>2
    <3>1. /\ told[h] \in Answers /\ on[h] \in Actions
          /\ Fact(told[h], on[h])
      BY <2>2 DEF HearDecision, StopsWaiting, IInv, ToldInv, WaitingInv, TypeOK
    <3>2. Fact("error", on[h])
      BY DEF Fact
    <3> QED
      BY <2>2, <3>1, <3>2
      DEF HearDecision, StopsWaiting, Says, Reasons, IInv, TypeOK, PageInv, Answers,
          Notices
  <2>3. ASSUME NEW h \in Handlers, DecisionUnheard(h)
        PROVE  <1>2
    BY <2>3 DEF DecisionUnheard, StopsWaiting, Says, IInv, TypeOK, WaitingInv, PageInv,
                Answers, Fact, page, Notices
  <2> QED BY <2>1, <2>2, <2>3
<1>3. TypeOK'
  BY <1>1, <1>2 DEF IInv, TypeOK
<1>4. \A b \in Actions : RowInv(b)'
  BY <1>1 DEF IInv, RowInv
<1>5. \A g \in calls' : CallInv(g)'
  BY <1>1 DEF IInv, CallInv
<1>6. \A g \in Handlers : RequestInv(g)'
  BY <1>1 DEF IInv, RequestInv, Untouched
<1>7. \A b \in Actions, says \in Answers : Fact(says, b) <=> Fact(says, b)'
  BY <1>1 DEF Fact, Untouched
<1>8. \A g \in Handlers : ToldInv(g)'
  BY <1>1, <1>7 DEF IInv, ToldInv, TypeOK
<1>9. \A g \in waiting' : WaitingInv(g)'
  BY <1>1 DEF IInv, WaitingInv
<1>10. PageInv'
  BY <1>2, <1>7 DEF PageInv, Notices
<1> QED BY <1>3, <1>4, <1>5, <1>6, <1>8, <1>9, <1>10 DEF IInv

-----------------------------------------------------------------------------
LEMMA InitInv == Init => IInv
<1> SUFFICES ASSUME Init PROVE IInv
  OBVIOUS
<1> USE ActionsAssumption DEF Init
<1>1. TypeOK
  BY DEF TypeOK, States, Places
<1> QED
  BY <1>1
  DEF IInv, RowInv, CallInv, RequestInv, Performing, Settled, ToldInv, WaitingInv, PageInv

LEMMA StepInv == IInv /\ [Next]_vars => IInv'
<1> SUFFICES ASSUME IInv, [Next]_vars PROVE IInv'
  OBVIOUS
<1>1. ASSUME NEW a \in Actions, StageForOwner(a)
      PROVE  IInv'
  BY <1>1, StageForKeeps DEF StageForOwner, reqVars
<1>2. ASSUME NEW h \in Handlers, NEW a \in Actions, StageAutonomous(h, a)
      PROVE  IInv'
  BY <1>2, StageForKeeps DEF StageAutonomous
<1>3. ASSUME NEW h \in Handlers, NEW a \in Actions, OwnerIsLate(h, a) \/ PressLost(h, a)
      PROVE  IInv'
  BY <1>3, PressAnsweredKeeps DEF OwnerIsLate, PressLost, Fact
<1>4. ASSUME NEW h \in Handlers, ToolIsLate(h) \/ StoreFails(h) \/ Crash(h)
      PROVE  IInv'
  <2>1. CASE ToolIsLate(h)
    <3>1. Fact("already_decided", on[h])
      BY <2>1 DEF ToolIsLate, Goto, Fact, IInv, RequestInv
    <3> QED BY <2>1, <3>1, EndsKeeps DEF ToolIsLate, Goto
  <2>2. CASE StoreFails(h)
    BY <2>2, EndsKeeps DEF StoreFails, Fact, Performing
  <2>3. CASE Crash(h)
    BY <2>3, EndsKeeps DEF Crash, Performing
  <2> QED BY <1>4, <2>1, <2>2, <2>3
<1>5. ASSUME NEW h \in Handlers, Execute(h)
      PROVE  IInv'
  BY <1>5, AdvanceKeeps, ClaimedStepKeeps, CallingStepKeeps, SettleKeeps DEF Execute
<1>6. CASE UNCHANGED vars
  BY <1>6
  DEF vars, reqVars, waVars, page, IInv, TypeOK, RowInv, CallInv, RequestInv, Performing,
      Settled, ToldInv, WaitingInv, PageInv, Fact, Untouched
<1> QED
  BY <1>1, <1>2, <1>3, <1>4, <1>5, <1>6, OwnerDecidesKeeps, AdvanceKeeps, PerformKeeps, PageKeeps
  DEF Next

(* Whatever is staged, whoever decides it and whatever becomes of the      *)
(* call: a change is applied at most once, WhatsApp is touched only under  *)
(* a recorded claim, the row tells what happened and so does the screen,   *)
(* and what is approved is what was staged.                                *)
THEOREM ActionsAreSound == Spec => []ActionInv
<1>1. IInv => ActionInv
  <2> SUFFICES ASSUME IInv PROVE ActionInv
    OBVIOUS
  <2> USE DEF Settled
  <2>1. \A a \in Actions : Untouched(a) => ~Touched(a)
    BY DEF Untouched, Touched
  <2>2. PerformedAtMostOnce
    BY DEF IInv, RowInv, PerformedAtMostOnce
  <2>3. EffectsMatchTheRow
    BY DEF IInv, TypeOK, RowInv, CallInv, EffectsMatchTheRow, Touched
  <2>4. ScreenIsTrue
    <3> SUFFICES ASSUME NEW a \in Actions, NEW m \in {notice, failure}, m # None,
                        m.about = a
                 PROVE  /\ m.says = "rejected" => row[a].state = "rejected" /\ ~Touched(a)
                        /\ m.says = "executed" => row[a].state = "executed"
                        /\ m.says = "not_made" => row[a].state = "failed" /\ ~Touched(a)
                        /\ m.says = "already_decided" => row[a].state # "pending"
      <4>1. \A a \in Actions, says \in Answers : [about |-> a, says |-> says] # None
        BY ActionsAssumption DEF Notices
      <4> QED BY <4>1 DEF ScreenIsTrue, Told, Answers, Outcomes
    <3>1. Fact(m.says, a)
      BY DEF IInv, PageInv
    <3>2. Touched(a) => row[a].running \/ row[a].state \in {"executed", "failed"}
      BY <2>3 DEF EffectsMatchTheRow
    <3> QED BY <2>1, <3>1, <3>2 DEF Fact, IInv, RowInv
  <2>5. ChangesAreWhole
    BY ChangesArePassedOnWhole DEF ChangesAreWhole
  <2> QED BY <2>2, <2>3, <2>4, <2>5 DEF ActionInv, IInv
<1> QED BY <1>1, InitInv, StepInv, PTL DEF Spec

(* A rejection or an outcome is final.                                     *)
THEOREM OutcomesAreFinal == Spec => OutcomeIsFinal
<1>1. ASSUME IInv, [Next]_vars, NEW a \in Actions,
             row[a].state \in {"rejected", "executed", "failed"}
      PROVE  row'[a] = row[a]
  <2>1. row \in [Actions -> [state : States, running : BOOLEAN]]
    BY <1>1 DEF IInv, TypeOK
  <2>2. ASSUME NEW b \in Actions, b # a, \E r : row' = [row EXCEPT ![b] = r]
        PROVE  row'[a] = row[a]
    BY <2>1, <2>2
  <2>3. ASSUME NEW h \in Handlers, ToolDecides(h) \/ Execute(h)
        PROVE  row'[a] = row[a]
    BY <1>1, <2>1, <2>3
    DEF ToolDecides, Decide, Execute, Claim, QueueMessage, HandOver, NotHandedOver,
        Made, Refused, TimedOut, Settle, IInv, RequestInv, Goto
  <2> QED
    BY <1>1, <2>1, <2>3
    DEF Next, StageForOwner, StageFor, StageAutonomous, OwnerDecides, Decide, OwnerIsLate,
        PressLost, ToolIsLate, Perform, StoreFails, Crash, HearDecision, DecisionUnheard,
        OpenPage, vars
<1>2. IInv /\ [Next]_vars =>
        [\A a \in Actions : row[a].state \in {"rejected", "executed", "failed"} =>
           row'[a] = row[a]]_vars
  BY <1>1
<1> QED BY <1>2, InitInv, StepInv, PTL DEF Spec, OutcomeIsFinal

(* Short logs, extended by one row.                                        *)
LEMMA AppendToOne ==
  ASSUME NEW S, NEW a \in S, NEW e \in S
  PROVE  Append(<<a>>, e) = <<a, e>>
<1>1. Append(<<a>>, e) \in Seq(S) /\ <<a, e>> \in Seq(S)
  OBVIOUS
<1>2. Len(Append(<<a>>, e)) = 2 /\ Len(<<a, e>>) = 2
  BY <1>1
<1>3. \A i \in 1 .. 2 : Append(<<a>>, e)[i] = <<a, e>>[i]
  BY <1>1
<1> QED BY <1>1, <1>2, <1>3, SeqEqual

LEMMA AppendToTwo ==
  ASSUME NEW S, NEW a \in S, NEW b \in S, NEW e \in S
  PROVE  Append(<<a, b>>, e) = <<a, b, e>>
<1>1. Append(<<a, b>>, e) \in Seq(S) /\ <<a, b, e>> \in Seq(S)
  OBVIOUS
<1>2. Len(Append(<<a, b>>, e)) = 3 /\ Len(<<a, b, e>>) = 3
  BY <1>1
<1>3. \A i \in 1 .. 3 : Append(<<a, b>>, e)[i] = <<a, b, e>>[i]
  BY <1>1
<1> QED BY <1>1, <1>2, <1>3, SeqEqual

LEMMA AppendToThree ==
  ASSUME NEW S, NEW a \in S, NEW b \in S, NEW c \in S, NEW e \in S
  PROVE  Append(<<a, b, c>>, e) = <<a, b, c, e>>
<1>1. Append(<<a, b, c>>, e) \in Seq(S) /\ <<a, b, c, e>> \in Seq(S)
  OBVIOUS
<1>2. Len(Append(<<a, b, c>>, e)) = 4 /\ Len(<<a, b, c, e>>) = 4
  BY <1>1
<1>3. \A i \in 1 .. 4 : Append(<<a, b, c>>, e)[i] = <<a, b, c, e>>[i]
  BY <1>1
<1> QED BY <1>1, <1>2, <1>3, SeqEqual

(* Each write of a row appends what its story gains.                       *)
LEMMA StoryGrows ==
  ASSUME NEW r, NEW n
  PROVE  /\ r.state = "absent" /\ n.state = "pending" => Story(n) = Append(Story(r), "staged")
         /\ r.state = "pending" /\ n.state \in {"approved", "rejected"} /\ ~n.running =>
              Story(n) = Append(Story(r), n.state)
         /\ r.state = "approved" /\ ~r.running /\ n.state = "approved" /\ n.running =>
              Story(n) = Append(Story(r), "attempted")
         /\ r.state = "approved" /\ r.running /\ n.state \in {"executed", "failed"} =>
              Story(n) = Append(Story(r), n.state)
<1>0. {"staged", "approved", "attempted"} \subseteq Events /\ {"rejected", "executed", "failed"} \subseteq Events
  BY DEF Events
<1>1. Append(<<>>, "staged") = <<"staged">>
  OBVIOUS
<1>2. \A e \in Events : Append(<<"staged">>, e) = <<"staged", e>>
  BY <1>0, AppendToOne, Zenon
<1>3. Append(<<"staged", "approved">>, "attempted") = <<"staged", "approved", "attempted">>
  BY <1>0, AppendToTwo, Zenon
<1>4. \A e \in Events : Append(<<"staged", "approved", "attempted">>, e)
                        = <<"staged", "approved", "attempted", e>>
  BY <1>0, AppendToThree, Zenon
<1> QED BY <1>0, <1>1, <1>2, <1>3, <1>4 DEF Story

(* One row of the collection is written, with its evidence.                *)
LEMMA EvidenceKept ==
  ASSUME TypeOK, AuditTellsTheStory, NEW a \in Actions, NEW n, NEW e,
         row' = [row EXCEPT ![a] = n], Log(a, e), Story(n) = Append(Story(row[a]), e)
  PROVE  AuditTellsTheStory'
BY DEF TypeOK, AuditTellsTheStory, Log

(* The log tells every row's story.                                        *)
THEOREM AuditIsComplete == Spec => []AuditTellsTheStory
<1>1. Init => AuditTellsTheStory
  BY DEF Init, AuditTellsTheStory, Story
<1>2. IInv /\ AuditTellsTheStory /\ [Next]_vars => AuditTellsTheStory'
  <2> SUFFICES ASSUME IInv, AuditTellsTheStory, [Next]_vars
               PROVE  AuditTellsTheStory'
    OBVIOUS
  <2> USE DEF Goto
  <2>0. TypeOK /\ row \in [Actions -> [state : States, running : BOOLEAN]]
    BY DEF IInv, TypeOK
  <2>1. ASSUME NEW a \in Actions, StageFor(a)
        PROVE  AuditTellsTheStory'
    <3>1. row' = [row EXCEPT ![a] = [row[a] EXCEPT !.state = "pending"]]
      BY <2>0, <2>1 DEF StageFor
    <3> QED BY <2>0, <2>1, <3>1, EvidenceKept, StoryGrows DEF StageFor
  <2>2. ASSUME NEW a \in Actions, NEW decision \in {"approved", "rejected"}, Decide(a, decision)
        PROVE  AuditTellsTheStory'
    <3>1. row' = [row EXCEPT ![a] = [row[a] EXCEPT !.state = decision]] /\ ~row[a].running
      BY <2>0, <2>2 DEF Decide, IInv, RowInv
    <3>2. /\ [row[a] EXCEPT !.state = decision].state = decision
          /\ ~[row[a] EXCEPT !.state = decision].running
      BY <2>0, <3>1
    <3>3. row[a].state = "pending" /\ Log(a, decision)
      BY <2>2 DEF Decide
    <3> QED BY <2>0, <3>1, <3>2, <3>3, EvidenceKept, StoryGrows
  <2>3. ASSUME NEW h \in Handlers, Claim(h)
        PROVE  AuditTellsTheStory'
    <3>1. row' = [row EXCEPT ![on[h]] = [row[on[h]] EXCEPT !.running = TRUE]]
      BY <2>0, <2>3 DEF Claim
    <3>2. on[h] \in Actions /\ row[on[h]].state = "approved" /\ ~row[on[h]].running
      BY <2>3 DEF Claim, IInv, RequestInv, Performing
    <3>3. [row[on[h]] EXCEPT !.running = TRUE].state = "approved"
          /\ [row[on[h]] EXCEPT !.running = TRUE].running
      BY <2>0, <3>2
    <3>4. Log(on[h], "attempted")
      BY <2>3 DEF Claim
    <3> QED BY <2>0, <3>1, <3>2, <3>3, <3>4, EvidenceKept, StoryGrows
  <2>4. ASSUME NEW h \in Handlers, Settle(h)
        PROVE  AuditTellsTheStory'
    <3>1. on[h] \in Actions /\ row[on[h]].state = "approved" /\ row[on[h]].running
      BY <2>4 DEF Settle, IInv, RequestInv, Performing
    <3>2. row' = [row EXCEPT ![on[h]] = [state |-> Final(outcome[h]), running |-> FALSE]]
          /\ Log(on[h], Final(outcome[h])) /\ Final(outcome[h]) \in {"executed", "failed"}
      BY <2>4 DEF Settle, Final
    <3>3. [state |-> Final(outcome[h]), running |-> FALSE].state = Final(outcome[h])
      OBVIOUS
    <3> QED BY <2>0, <3>1, <3>2, <3>3, EvidenceKept, StoryGrows
  <2>5. ASSUME NEW h \in Handlers, Execute(h)
        PROVE  AuditTellsTheStory'
    BY <2>3, <2>4, <2>5
    DEF Execute, QueueMessage, HandOver, NotHandedOver, Made, Refused, TimedOut, AuditTellsTheStory
  <2>6. ASSUME NEW h \in Handlers, ToolDecides(h)
        PROVE  AuditTellsTheStory'
    BY <2>2, <2>6 DEF ToolDecides, IInv, RequestInv
  <2>7. CASE UNCHANGED <<row, audit>>
    BY <2>7 DEF AuditTellsTheStory
  <2> QED
    BY <2>1, <2>2, <2>5, <2>6, <2>7
    DEF Next, StageForOwner, StageAutonomous, OwnerDecides, OwnerIsLate, PressLost,
        ToolIsLate, Perform, StoreFails, Crash, HearDecision, DecisionUnheard, OpenPage, vars
<1> QED BY <1>1, <1>2, InitInv, StepInv, PTL DEF Spec
=============================================================================
