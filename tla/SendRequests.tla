---------------------------- MODULE SendRequests ----------------------------
(***************************************************************************)
(* The send approval flow: one document of the `sendRequests` collection   *)
(* per requested WhatsApp message, written by two programs.                *)
(*                                                                         *)
(*   BFF (apps/web/src/server/repos/sends.ts)  creates a request, records  *)
(*     the owner's approval, rejection or cancellation of it;              *)
(*   worker (apps/worker/dispatch.go)  claims a due request, hands it to   *)
(*     the Hermes bridge over HTTP and records what came of the attempt.   *)
(*                                                                         *)
(* Every database operation is one step, a MongoDB transaction is one      *)
(* step, and between any two of them a process may be overtaken or die.    *)
(* What the bridge does with a call is nondeterministic: it may post the   *)
(* message and answer, post it and not be heard, or post it long after the *)
(* worker gave up waiting.                                                 *)
(***************************************************************************)
EXTENDS Naturals

CONSTANTS
  Sends,         (* the requests, each named by its idempotency key         *)
  Workers,       (* worker process incarnations: newID() names each start   *)
  Approvers,     (* concurrent POST /api/sends/:id/approve requests         *)
  MaxAttempts,   (* SEND_MAX_ATTEMPTS                                       *)
  LockTTL,       (* dispatchLockTTL, in ticks                               *)
  MaxTime,       (* bound on the clock                                      *)
  BridgeMayDie,  (* may the bridge die between posting and answering?       *)
  None           (* BSON null                                               *)

ErrorClasses == {"rejected", "ambiguous"}

ASSUME SendsAssumption ==
  /\ MaxAttempts \in Nat \ {0}
  /\ LockTTL \in Nat
  /\ MaxTime \in Nat
  /\ BridgeMayDie \in BOOLEAN
  /\ None \notin Workers \cup Sends \cup Nat \cup ErrorClasses

Time == 0..MaxTime

Statuses == {"absent", "pending_approval", "approved", "scheduled", "rejected",
             "cancelled", "sending", "sent", "failed"}

Waiting == {"approved", "scheduled"}   \* the statuses a claim can match

(* One document; `due` is its scheduledFor.                                *)
Rows ==
  [status      : Statuses,
   approval    : {"pending", "approved", "rejected"},
   due         : Time,
   attempts    : 0..MaxAttempts,
   lockedBy    : Workers \cup {None},
   lockedAt    : Time \cup {None},
   errorClass  : ErrorClasses \cup {None},
   waMessageId : BOOLEAN]

(* One delivery attempt, and so one call to the bridge.                    *)
Attempts == Sends \X (1..MaxAttempts)

Phases == {"down", "idle", "claimed", "calling", "acked", "stored",
           "refused", "counted", "dead"}

VARIABLES
  now,        (* the clock both processes read                              *)
  row,        (* the sendRequests collection                                *)
  decisions,  (* per request: audit rows that grant one delivery            *)
  phase,      (* per worker: where dispatchDue stands                       *)
  job,        (* per worker: the attempt it is delivering                   *)
  verdict,    (* per worker: the failure class it is about to record        *)
  approver,   (* per approval request: what approveSend read                *)
  open,       (* attempts the bridge accepted and has not yet performed     *)
  posted,     (* attempts WhatsApp delivered                                *)
  unheard,    (* attempts whose answer died with the bridge                 *)
  okTally,    (* attempts counted as sent                                   *)
  failTally   (* attempts counted as failed                                 *)

bffVars    == <<approver, decisions>>
workerVars == <<phase, job, verdict>>
bridgeVars == <<open, posted, unheard>>
tallyVars  == <<okTally, failTally>>
vars == <<now, row, bffVars, workerVars, bridgeVars, tallyVars>>

NoJob == <<None, 0>>
Idle == [send |-> None, initial |-> TRUE, due |-> 0, status |-> "approved"]

Absent ==
  [status |-> "absent", approval |-> "pending", due |-> 0, attempts |-> 0,
   lockedBy |-> None, lockedAt |-> None, errorClass |-> None,
   waMessageId |-> FALSE]

Init ==
  /\ now = 0
  /\ row = [s \in Sends |-> Absent]
  /\ decisions = [s \in Sends |-> 0]
  /\ phase = [w \in Workers |-> "down"]
  /\ job = [w \in Workers |-> NoJob]
  /\ verdict = [w \in Workers |-> None]
  /\ approver = [h \in Approvers |-> Idle]
  /\ open = {} /\ posted = {} /\ unheard = {}
  /\ okTally = {} /\ failTally = {}

-----------------------------------------------------------------------------
(* The BFF.                                                                *)

(* A request due later is scheduled, any other is approved.                *)
StatusFor(due) == IF due > now THEN "scheduled" ELSE "approved"

(* What each database operation makes of a document.                       *)
Requested == [Absent EXCEPT !.status = "pending_approval", !.due = now]

Decided(due) ==
  [Absent EXCEPT !.status = StatusFor(due), !.approval = "approved", !.due = due]

Approved(r, a) ==
  [r EXCEPT !.status = a.status, !.due = a.due, !.errorClass = None,
            !.approval = IF a.initial THEN "approved" ELSE r.approval,
            !.lockedAt = None, !.lockedBy = None]

Rejected(r) == [r EXCEPT !.status = "rejected", !.approval = "rejected"]

Cancelled(r) == [r EXCEPT !.status = "cancelled", !.approval = "approved"]

Claimed(r, w) ==
  [r EXCEPT !.status = "sending", !.attempts = r.attempts + 1,
            !.lockedBy = w, !.lockedAt = now]

Sent(r) ==
  [r EXCEPT !.status = "sent", !.waMessageId = TRUE, !.errorClass = None,
            !.lockedAt = None, !.lockedBy = None]

(* Mutant of Failed: every failure is recorded as a refusal.               *)
FailedUnclassified(r, class) ==
  [r EXCEPT !.status = "failed", !.errorClass = "rejected",
            !.lockedAt = None, !.lockedBy = None]

Failed(r, class) ==
  [r EXCEPT !.status = "failed", !.errorClass = class,
            !.lockedAt = None, !.lockedBy = None]

Put(s, r) == row' = [row EXCEPT ![s] = r]

(* createSend without a decision, the console's compose form: an upsert    *)
(* keyed by the idempotency key, so a second one changes nothing.          *)
CreatePending(s) ==
  /\ row[s].status = "absent"
  /\ Put(s, Requested)
  /\ UNCHANGED <<now, bffVars, workerVars, bridgeVars, tallyVars>>

(* createSend with a decision: the assistant carrying out a staged message,*)
(* due whenever it was asked for.                                          *)
CreateDecided(s, due) ==
  /\ row[s].status = "absent"
  /\ Put(s, Decided(due))
  /\ decisions' = [decisions EXCEPT ![s] = @ + 1]
  /\ UNCHANGED <<now, approver, workerVars, bridgeVars, tallyVars>>

(* createAutomaticSendUnderRunLease: the reply to an owner mention is born *)
(* approved and due at once. The run lease that guards it is ReplyRuns'.   *)
CreateAutomatic(s) == CreateDecided(s, now)

(* createHumanReviewSendUnderRunLease: the apology for a reply the gate    *)
(* refused waits for the owner.                                            *)
CreateReview(s) == CreatePending(s)

(* approveSend, first half: the row is read outside the transaction and    *)
(* decides which update will be tried. A refusal leaves no trace.          *)
InitiallyApprovable(r) == r.status = "pending_approval" /\ r.approval = "pending"
(* Mutant of Retryable: the class of the failure is not looked at.         *)
RetryableAnyFailure(r) == r.status = "failed"

Retryable(r) == r.status = "failed" /\ r.errorClass # "ambiguous"

ApproveRead(h, s, due) ==
  /\ approver[h] = Idle
  /\ due >= now
  /\ InitiallyApprovable(row[s]) \/ Retryable(row[s])
  /\ approver' = [approver EXCEPT ![h] =
       [send |-> s, initial |-> InitiallyApprovable(row[s]),
        due |-> due, status |-> StatusFor(due)]]
  /\ UNCHANGED <<now, row, decisions, workerVars, bridgeVars, tallyVars>>

(* Mutant of ApproveCommit: the update trusts what was read.               *)
ApproveCommitUnguarded(h) ==
  LET a == approver[h] IN
  /\ a.send \in Sends
  /\ Put(a.send, Approved(row[a.send], a))
  /\ decisions' = [decisions EXCEPT ![a.send] = @ + 1]
  /\ approver' = [approver EXCEPT ![h] = Idle]
  /\ UNCHANGED <<now, workerVars, bridgeVars, tallyVars>>

(* approveSend, second half: the guarded update and its audit row, in one  *)
(* transaction. An initial approval is matched by its two states, a retry  *)
(* by being failed for a reason that cannot have reached WhatsApp.         *)
ApproveCommit(h) ==
  LET a == approver[h] IN
  /\ a.send \in Sends
  /\ IF a.initial THEN InitiallyApprovable(row[a.send]) ELSE Retryable(row[a.send])
  /\ Put(a.send, Approved(row[a.send], a))
  /\ decisions' = [decisions EXCEPT ![a.send] = @ + 1]
  /\ approver' = [approver EXCEPT ![h] = Idle]
  /\ UNCHANGED <<now, workerVars, bridgeVars, tallyVars>>

(* The update matched nothing, the transaction failed or the process died: *)
(* nothing was written.                                                    *)
ApproveAbandon(h) ==
  /\ approver[h].send \in Sends
  /\ approver' = [approver EXCEPT ![h] = Idle]
  /\ UNCHANGED <<now, row, decisions, workerVars, bridgeVars, tallyVars>>

(* transitionSend: one guarded update, so a withdrawal either finds the    *)
(* request before the dispatcher does or not at all.                       *)
Reject(s) ==
  /\ row[s].status = "pending_approval"
  /\ Put(s, Rejected(row[s]))
  /\ UNCHANGED <<now, bffVars, workerVars, bridgeVars, tallyVars>>

Cancel(s) ==
  /\ row[s].status \in Waiting
  /\ Put(s, Cancelled(row[s]))
  /\ UNCHANGED <<now, bffVars, workerVars, bridgeVars, tallyVars>>

-----------------------------------------------------------------------------
(* The worker's dispatcher: a loop that claims one request at a time.      *)

Goto(w, from, to) ==
  /\ phase[w] = from
  /\ phase' = [phase EXCEPT ![w] = to]

(* A process start. Its workerID is drawn afresh, so a restart is another  *)
(* member of Workers.                                                      *)
Start(w) ==
  /\ Goto(w, "down", "idle")
  /\ UNCHANGED <<now, row, bffVars, job, verdict, bridgeVars, tallyVars>>

(* Mutant of Claimable: one attempt too few.                               *)
ClaimableOneShort(r) ==
  /\ r.status \in Waiting
  /\ r.due <= now
  /\ r.attempts + 1 < MaxAttempts
  /\ r.lockedAt # None => r.lockedAt + LockTTL < now

Claimable(r) ==
  /\ r.status \in Waiting
  /\ r.due <= now
  /\ r.attempts < MaxAttempts
  /\ r.lockedAt # None => r.lockedAt + LockTTL < now

(* The claim's findOneAndUpdate: the longest-due claimable request.        *)
ClaimRow(w, s) ==
  /\ Claimable(row[s])
  /\ \A t \in Sends : Claimable(row[t]) => row[s].due <= row[t].due
  /\ Put(s, Claimed(row[s], w))

Claim(w, s) ==
  /\ Goto(w, "idle", "claimed")
  /\ ClaimRow(w, s)
  /\ job' = [job EXCEPT ![w] = <<s, row[s].attempts + 1>>]
  /\ UNCHANGED <<now, bffVars, verdict, bridgeVars, tallyVars>>

(* The claim was stored and the driver reported an error: dispatchDue      *)
(* returns, and the loop's next pass asks for the next claimable request.  *)
ClaimUnacknowledged(w, s) ==
  /\ phase[w] = "idle"
  /\ ClaimRow(w, s)
  /\ UNCHANGED <<now, bffVars, workerVars, bridgeVars, tallyVars>>

Refuse(w, from, class) ==
  /\ Goto(w, from, "refused")
  /\ verdict' = [verdict EXCEPT ![w] = class]

(* deliver fails before a call exists. Rejected: the quoted message is not *)
(* stored, there is no bridge or it cannot be dialled. Ambiguous: the      *)
(* quote cannot be read, or the row contradicts itself.                    *)
NotHandedOver(w) ==
  /\ \E class \in ErrorClasses : Refuse(w, "claimed", class)
  /\ UNCHANGED <<now, row, bffVars, job, bridgeVars, tallyVars>>

(* The POST to the bridge's /send leaves the worker.                       *)
HandOver(w) ==
  /\ Goto(w, "claimed", "calling")
  /\ open' = open \cup {job[w]}
  /\ UNCHANGED <<now, row, bffVars, job, verdict, posted, unheard, tallyVars>>

(* The bridge gives the message to WhatsApp, whether or not anybody is     *)
(* still waiting for the answer.                                           *)
Post(c) ==
  /\ c \in open
  /\ open' = open \ {c}
  /\ posted' = posted \cup {c}
  /\ UNCHANGED <<now, row, bffVars, workerVars, unheard, tallyVars>>

(* 200 with a message id.                                                  *)
Acknowledged(w) ==
  /\ job[w] \in posted
  /\ Goto(w, "calling", "acked")
  /\ UNCHANGED <<now, row, bffVars, job, verdict, bridgeVars, tallyVars>>

(* 503: the bridge's WhatsApp session is down and the call was not made.   *)
NotConnected(w) ==
  /\ job[w] \in open
  /\ Refuse(w, "calling", "rejected")
  /\ open' = open \ {job[w]}
  /\ UNCHANGED <<now, row, bffVars, job, posted, unheard, tallyVars>>

(* Any other answer: a refusal, an unreadable body, an acknowledgement     *)
(* without an id. The message may have been posted.                        *)
Unconfirmed(w) ==
  /\ Refuse(w, "calling", "ambiguous")
  /\ open' = open \ {job[w]}
  /\ UNCHANGED <<now, row, bffVars, job, posted, unheard, tallyVars>>

(* hermesBridgeTimeout: the call is still with the bridge.                 *)
TimedOut(w) ==
  /\ Refuse(w, "calling", "ambiguous")
  /\ UNCHANGED <<now, row, bffVars, job, bridgeVars, tallyVars>>

(* The connection breaks with no answer and no deadline passed: the bridge *)
(* died. transportFailure reports it as errBridgeUnreachable, which        *)
(* classifySendFailure treats like a connection that never opened.         *)
Dropped(w) ==
  /\ BridgeMayDie
  /\ Refuse(w, "calling", "rejected")
  /\ open' = open \ {job[w]}
  /\ unheard' = unheard \cup {job[w]}
  /\ UNCHANGED <<now, row, bffVars, job, posted, tallyVars>>

(* The filter of both settling updates: this worker's own claim.           *)
Holds(w, s) == row[s].status = "sending" /\ row[s].lockedBy = w

(* deliver's update to `sent`.                                             *)
StoreSent(w) ==
  LET s == job[w][1] IN
  Holds(w, s) /\ Put(s, Sent(row[s]))

MarkSent(w) ==
  /\ Goto(w, "acked", "stored")
  /\ StoreSent(w)
  /\ UNCHANGED <<now, bffVars, job, verdict, bridgeVars, tallyVars>>

(* The update reported an error, stored or not, or matched no claim:       *)
(* deliver returns it to be logged and the loop moves on.                  *)
MarkSentFails(w) ==
  /\ Goto(w, "acked", "idle")
  /\ job' = [job EXCEPT ![w] = NoJob]
  /\ StoreSent(w) \/ UNCHANGED row
  /\ UNCHANGED <<now, bffVars, verdict, bridgeVars, tallyVars>>

(* recordSend(true), only once the row says sent; a lost count is logged.  *)
CountSent(w) ==
  /\ Goto(w, "stored", "idle")
  /\ job' = [job EXCEPT ![w] = NoJob]
  /\ okTally' \in {okTally, okTally \cup {job[w]}}
  /\ UNCHANGED <<now, row, bffVars, verdict, bridgeVars, failTally>>

(* refused: recordSend(false) before the row is written.                   *)
CountFailed(w) ==
  /\ Goto(w, "refused", "counted")
  /\ failTally' \in {failTally, failTally \cup {job[w]}}
  /\ UNCHANGED <<now, row, bffVars, job, verdict, bridgeVars, okTally>>

(* failed: the guarded update, which may not be stored.                    *)
MarkFailed(w) ==
  LET s == job[w][1] IN
  /\ Goto(w, "counted", "idle")
  /\ job' = [job EXCEPT ![w] = NoJob]
  /\ verdict' = [verdict EXCEPT ![w] = None]
  /\ \/ /\ Holds(w, s)
        /\ Put(s, Failed(row[s], verdict[w]))
     \/ UNCHANGED row
  /\ UNCHANGED <<now, bffVars, bridgeVars, tallyVars>>

(* The process dies, or is stopped: its context is cancelled and every     *)
(* later write of its fails. Bound: the last incarnation does not.         *)
Crash(w) ==
  /\ phase[w] \notin {"down", "dead"}
  /\ \E v \in Workers \ {w} : phase[v] # "dead"
  /\ phase' = [phase EXCEPT ![w] = "dead"]
  /\ job' = [job EXCEPT ![w] = NoJob]
  /\ verdict' = [verdict EXCEPT ![w] = None]
  /\ UNCHANGED <<now, row, bffVars, bridgeVars, tallyVars>>

Tick ==
  /\ now < MaxTime
  /\ now' = now + 1
  /\ UNCHANGED <<row, bffVars, workerVars, bridgeVars, tallyVars>>

-----------------------------------------------------------------------------
Console ==
  \/ \E s \in Sends, due \in Time : CreateDecided(s, due)
  \/ \E s \in Sends :
       \/ CreatePending(s) \/ CreateAutomatic(s) \/ CreateReview(s)
       \/ Reject(s) \/ Cancel(s)
  \/ \E h \in Approvers, s \in Sends, due \in Time : ApproveRead(h, s, due)
  \/ \E h \in Approvers : ApproveCommit(h) \/ ApproveAbandon(h)

(* What a claimed attempt does next: every step of deliver.                *)
Deliver(w) ==
  \/ NotHandedOver(w) \/ HandOver(w)
  \/ Acknowledged(w) \/ NotConnected(w) \/ Unconfirmed(w)
  \/ TimedOut(w) \/ Dropped(w)
  \/ MarkSent(w) \/ MarkSentFails(w) \/ CountSent(w)
  \/ CountFailed(w) \/ MarkFailed(w)

Dispatcher(w) ==
  \/ Start(w)
  \/ \E s \in Sends : Claim(w, s) \/ ClaimUnacknowledged(w, s)
  \/ Deliver(w)
  \/ Crash(w)

Next ==
  \/ Console
  \/ \E w \in Workers : Dispatcher(w)
  \/ \E c \in open : Post(c)
  \/ Tick

Spec == Init /\ [][Next]_vars

(* The supervisor restarts the worker, its loop keeps running, a bridge    *)
(* call ends within its timeout and time passes. Owners, crashes, storage  *)
(* errors and the bridge's own choices are never forced.                   *)
Fairness ==
  /\ WF_vars(Tick)
  /\ \A w \in Workers :
       /\ WF_vars(Start(w))
       /\ WF_vars(\E s \in Sends : Claim(w, s))
       /\ WF_vars(Deliver(w))

FairSpec == Spec /\ Fairness

-----------------------------------------------------------------------------
(* Correctness.                                                            *)

(* Types of every variable.                                                *)
TypeOK ==
  /\ now \in Time
  /\ row \in [Sends -> Rows]
  /\ decisions \in [Sends -> Nat]
  /\ phase \in [Workers -> Phases]
  /\ job \in [Workers -> Attempts \cup {NoJob}]
  /\ verdict \in [Workers -> ErrorClasses \cup {None}]
  /\ approver \in [Approvers -> [send : Sends \cup {None}, initial : BOOLEAN,
                                 due : Time, status : Waiting]]
  /\ open \subseteq Attempts
  /\ posted \subseteq Attempts
  /\ unheard \subseteq Attempts
  /\ okTally \subseteq Attempts
  /\ failTally \subseteq Attempts

(* No automatic retry: every delivery attempt of a request was paid for by *)
(* a decision of its own, with its own audit row. Claims, crashes, stale   *)
(* locks and late approvals cannot add an attempt (dispatch.go claim,      *)
(* sends.ts approveSend).                                                  *)
NoSilentRetry == \A s \in Sends : row[s].attempts <= decisions[s]

(* No double post: two attempts of one request reach WhatsApp only when    *)
(* the earlier one's answer died with the bridge. Timeouts, late posts,    *)
(* unstored acknowledgements and owner retries never do it.                *)
NoDoublePost ==
  \A c, d \in posted : c[1] = d[1] /\ c[2] < d[2] => c \in unheard

(* What approveSend or a claim may still let through was not delivered by  *)
(* an attempt whose answer anybody could hear.                             *)
DeliveredIsNotOffered ==
  \A c \in posted \ unheard :
    LET r == row[c[1]] IN
    ~ (r.status \in Waiting \/ InitiallyApprovable(r) \/ Retryable(r))

(* Only one process delivers a request, whatever the claims, restarts and  *)
(* approvals around it: an attempt in a worker's hands is the row's latest *)
(* and the row is locked by that worker.                                   *)
ClaimIsExclusive ==
  \A w \in Workers :
    phase[w] \in {"claimed", "calling", "acked", "refused", "counted"} =>
      /\ Holds(w, job[w][1])
      /\ row[job[w][1]].attempts = job[w][2]

(* The console's success rate counts no attempt both ways and no success   *)
(* that the row does not show.                                             *)
TallyIsHonest ==
  /\ okTally \cap failTally = {}
  /\ \A c \in okTally : /\ row[c[1]].status = "sent"
                       /\ row[c[1]].attempts = c[2]

(* A withdrawal is final: once the owner's rejection or cancellation is    *)
(* stored the row does not change and WhatsApp receives nothing more for   *)
(* it, even when the withdrawal raced a claim.                             *)
PostsOf(s) == {c \in posted : c[1] = s}

WithdrawalIsFinal ==
  [][\A s \in Sends : row[s].status \in {"rejected", "cancelled"} =>
       row'[s] = row[s] /\ PostsOf(s)' = PostsOf(s)]_vars

(* A request waiting for delivery that has attempts left is taken or       *)
(* withdrawn, however often the worker restarts and whatever is queued     *)
(* before it.                                                              *)
DueSendIsTaken ==
  \A s \in Sends :
    (row[s].status \in Waiting /\ row[s].attempts < MaxAttempts)
      ~> (row[s].status \notin Waiting)

(* A request whose worker died while delivering it, and whose lock is      *)
(* stale, is picked up again: architecture-draft.md, 8.3, says that the    *)
(* lock's 60s staleness window makes a worker restart mid-send             *)
(* recoverable. The claim matches only approved and scheduled rows, so it  *)
(* never meets a stale lock.                                               *)
Orphaned(r) ==
  /\ r.status = "sending"
  /\ r.lockedAt + LockTTL < now
  /\ \E w \in Workers : r.lockedBy = w /\ phase[w] = "dead"

MidSendRestartRecovers ==
  \A s \in Sends : Orphaned(row[s]) ~> ~Orphaned(row[s])

(* The flow implements SendContract: the row's status says how far the     *)
(* contract has come, its attempts are the offers, what WhatsApp posted    *)
(* are the copies, and only the answers that died with the bridge are      *)
(* untold.                                                                 *)
StageOf(r) ==
  CASE r.status = "absent"                    -> "none"
    [] r.status = "pending_approval"          -> "asked"
    [] r.status \in Waiting                   -> "granted"
    [] r.status = "sending"                   -> "offered"
    [] r.status = "sent"                      -> "delivered"
    [] r.status \in {"rejected", "cancelled"} -> "withdrawn"
    [] r.status = "failed" ->
         IF r.errorClass = "ambiguous" THEN "unknown" ELSE "refused"

Contract == INSTANCE SendContract WITH
  stage     <- [s \in Sends |-> StageOf(row[s])],
  decisions <- decisions,
  offers    <- [s \in Sends |-> row[s].attempts],
  copies    <- posted,
  untold    <- unheard

ImplementsContract == Contract!Spec

-----------------------------------------------------------------------------
(* The inductive invariant: what every status says about the decisions,    *)
(* the lock and the calls made so far.                                     *)

Unlocked(r) == r.lockedBy = None /\ r.lockedAt = None

RowInv(s) ==
  LET r == row[s] IN
  /\ r.status \in {"absent", "pending_approval", "rejected"} =>
       r.attempts = 0 /\ decisions[s] = 0
  /\ r.status \in {"approved", "scheduled", "cancelled"} =>
       decisions[s] = r.attempts + 1
  /\ r.status \in {"sending", "sent", "failed"} =>
       decisions[s] = r.attempts /\ r.attempts > 0
  /\ r.status # "sending" => Unlocked(r)
  /\ r.status = "sending" => r.lockedBy \in Workers
  /\ r.status = "failed" => r.errorClass \in ErrorClasses
  /\ r.status = "sent" => r.waMessageId /\ <<s, r.attempts>> \in posted

(* A call is one of the attempts made, and one that is still open or was   *)
(* heard is the last of them and not known to have failed.                 *)
CallInv(c) ==
  LET r == row[c[1]] IN
  /\ c[2] <= r.attempts
  /\ c \in open => ~(c \in posted)
  /\ c \in open => /\ c[2] = r.attempts
                   /\ \/ r.status = "sending"
                      \/ r.status = "failed" /\ r.errorClass = "ambiguous"
  /\ c \in posted \ unheard =>
       /\ c[2] = r.attempts
       /\ \/ r.status \in {"sending", "sent"}
          \/ r.status = "failed" /\ r.errorClass = "ambiguous"

CallsInv == \A c \in open \cup posted \cup unheard \cup failTally : CallInv(c)

Delivering == {"claimed", "calling", "acked", "refused", "counted"}

WorkerInv(w) ==
  LET c == job[w] IN
  /\ phase[w] \in Delivering \cup {"stored"} <=> c # NoJob
  /\ phase[w] \in Delivering =>
       Holds(w, c[1]) /\ row[c[1]].attempts = c[2]
  /\ phase[w] = "claimed" => c \notin open \cup posted \cup unheard
  /\ phase[w] = "acked" => c \in posted
  /\ phase[w] = "stored" =>
       row[c[1]].status = "sent" /\ row[c[1]].attempts = c[2]
  /\ phase[w] \in {"refused", "counted"} =>
       /\ verdict[w] \in ErrorClasses
       /\ verdict[w] = "rejected" => c \notin open /\ c \notin posted \ unheard
  /\ phase[w] \in {"claimed", "calling", "acked", "stored", "refused"} =>
       c \notin failTally

TallyInv ==
  /\ \A c \in okTally : /\ row[c[1]].status = "sent"
                       /\ row[c[1]].attempts = c[2]
  /\ \A c \in failTally : row[c[1]].status = "sent" => row[c[1]].attempts # c[2]

SendInv ==
  /\ TypeOK
  /\ \A s \in Sends : RowInv(s)
  /\ CallsInv
  /\ \A w \in Workers : WorkerInv(w)
  /\ TallyInv
=============================================================================
