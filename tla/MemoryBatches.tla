---------------------------- MODULE MemoryBatches ----------------------------
(***************************************************************************)
(* What happens to a memory batch: one document of `memoryBatches` names a *)
(* range of a group's messages and is to become one `memorySummaries` row. *)
(*                                                                         *)
(*   worker (apps/worker/memory_batches.go)  claims a due batch under a    *)
(*     two minute lease, posts its id to the BFF, waits 30 seconds for the *)
(*     answer, records a failure and recovers leases that ran out;         *)
(*   BFF (memory-batch-handler.ts, repos/memory.ts)  loads the batch under *)
(*     whatever lease it then has, takes a work lease inside it, calls the *)
(*     model and stores the summary;                                       *)
(*   the owner may withdraw the group's eligibility at any moment, and who *)
(*     wrote a message may revoke it.                                      *)
(*                                                                         *)
(* A callback names the batch and no claim, so one that is delayed works   *)
(* under a later claim. Leases have no clock here: one that is live may    *)
(* run out at any moment, which is what a process sees that was stopped    *)
(* for a while. Two facts about the durations are kept: a work lease never *)
(* outlives the lease it was taken under (renewMemorySummaryWork), and a   *)
(* backoff of at least 4 minutes outlasts a work lease of 90 seconds.      *)
(***************************************************************************)
EXTENDS Naturals

CONSTANTS
  Batches,     (* the ranges, numbered in the order of their createdAt     *)
  Groups,      (* the groups they belong to                                *)
  GroupOf,     (* the group of each batch                                  *)
  MaxAttempts, (* memoryBatchMaxAttempts                                   *)
  MaxVersion   (* bound on the changes of a group's eligibility            *)

ASSUME BatchesAssumption ==
  /\ Batches \subseteq Nat
  /\ GroupOf \in [Batches -> Groups]
  /\ MaxAttempts \in Nat \ {0}
  /\ MaxVersion \in Nat

(* A claim of a batch, the goroutine that made it and the handler of its   *)
(* callback. The lease token is drawn with the attempt's number.           *)
Claims == Batches \X (1..MaxAttempts)
NoToken == 0

States == {"absent", "ready", "processing", "retry_wait", "complete", "dead"}
Outstanding == {"ready", "processing", "retry_wait"}
Kinds == {"none", "content", "redacted"}
Places == {"none", "posted", "sourceless", "loaded", "eligible", "withheld",
           "versioned", "working", "fresh", "asking", "storing", "fencing",
           "unstored", "withdrawn", "redacting", "redactingSource",
           "redactingWork", "unresolved", "refused", "failed", "done"}
Answers == {"none", "ok", "retryable", "terminal"}

VARIABLES
  row,      (* the memoryBatches collection                                *)
  group,    (* per group: is it eligible, and its configVersion            *)
  revoked,  (* batches one of whose messages has been revoked              *)
  summary,  (* per batch: its summary and the lease it was stored under    *)
  wk,       (* per claim: where the worker's goroutine stands              *)
  class,    (* per claim: the failure it is about to record                *)
  hd        (* per claim: its callback's handler                           *)

wkVars == <<wk, class>>
vars == <<row, group, revoked, summary, wkVars, hd>>

NoWork == [by |-> NoToken, live |-> FALSE, version |-> 0]
(* A handler: where it stands, the lease token it loaded, the configVersion *)
(* it works under and the one it called the model under, who worked when   *)
(* its resolution began, and its answer.                                   *)
NoHandler == [at |-> "none", token |-> NoToken, version |-> 0, asked |-> 0,
              holder |-> NoToken, answer |-> "none"]
NoSummary == [kind |-> "none", token |-> NoToken]

Init ==
  /\ row = [b \in Batches |-> [state |-> "absent", attempts |-> 0, due |-> FALSE,
              token |-> NoToken, live |-> FALSE, work |-> NoWork]]
  /\ group = [g \in Groups |-> [eligible |-> TRUE, version |-> 0]]
  /\ revoked = {}
  /\ summary = [b \in Batches |-> NoSummary]
  /\ wk = [c \in Claims |-> "none"]
  /\ class = [c \in Claims |-> "none"]
  /\ hd = [c \in Claims |-> NoHandler]

-----------------------------------------------------------------------------
(* What the updates make of a batch.                                       *)

Unleased(r) == [r EXCEPT !.token = NoToken, !.live = FALSE]

Claimed(r) ==
  [r EXCEPT !.state = "processing", !.attempts = r.attempts + 1,
            !.token = r.attempts + 1, !.live = TRUE]

Retried(r, due) == [Unleased(r) EXCEPT !.state = "retry_wait", !.due = due]

Dead(r) == [Unleased(r) EXCEPT !.state = "dead", !.due = FALSE]

Completed(r) == [Unleased(r) EXCEPT !.state = "complete", !.work = NoWork]

Put(b, r) == row' = [row EXCEPT ![b] = r]

-----------------------------------------------------------------------------
(* The owner moves the group in or out of the assistant's scope: every     *)
(* change of its assignment or whitelisting raises configVersion. Only     *)
(* both together make it eligible, so not every change alters that.        *)
ChangeScope(g, eligible) ==
  /\ group[g].version < MaxVersion
  /\ ~(group[g].eligible /\ eligible)
  /\ group' = [group EXCEPT ![g] = [eligible |-> eligible, version |-> @.version + 1]]
  /\ UNCHANGED <<row, revoked, summary, wkVars, hd>>

(* A source of an outstanding batch is revoked: of any other nothing reads *)
(* it again, and the builder takes none that is.                           *)
Revoke(b) ==
  /\ row[b].state \in Outstanding
  /\ revoked' = revoked \cup {b}
  /\ UNCHANGED <<row, group, summary, wkVars, hd>>

(* The builder inserts a range (MemoryRanges says which): never while the  *)
(* group has an outstanding one. The group may have lost its eligibility   *)
(* since the scan.                                                         *)
Build(b) ==
  /\ row[b].state = "absent"
  /\ \A o \in Batches : o < b => row[o].state # "absent"
  /\ \A o \in Batches \ {b} : GroupOf[o] = GroupOf[b] =>
       row[o].state \in {"absent", "complete"}
  /\ Put(b, [row[b] EXCEPT !.state = "ready", !.due = TRUE])
  /\ UNCHANGED <<group, revoked, summary, wkVars, hd>>

-----------------------------------------------------------------------------
(* The worker.                                                             *)

Claimable(r) ==
  /\ r.state \in {"ready", "retry_wait"}
  /\ r.due
  /\ r.attempts < MaxAttempts

(* Claim takes the oldest; the goroutine posts its callback.               *)
Claim(b) ==
  LET c == <<b, row[b].attempts + 1>> IN
  /\ Claimable(row[b])
  /\ \A o \in Batches : Claimable(row[o]) => b <= o
  /\ Put(b, Claimed(row[b]))
  /\ wk' = [wk EXCEPT ![c] = "calling"]
  /\ hd' = [hd EXCEPT ![c].at = "posted"]
  /\ UNCHANGED <<group, revoked, summary, class>>

Owns(c) == row[c[1]].state = "processing" /\ row[c[1]].token = c[2]

(* A heartbeat extends the lease, even one that ran out unnoticed.         *)
Heartbeat(c) ==
  /\ wk[c] = "calling"
  /\ Owns(c)
  /\ Put(c[1], [row[c[1]] EXCEPT !.live = TRUE])
  /\ UNCHANGED <<group, revoked, summary, wkVars, hd>>

(* Any 2xx leaves the batch to the BFF, whatever it did with it.           *)
HeardOk(c) ==
  /\ wk[c] = "calling"
  /\ hd[c].answer = "ok"
  /\ wk' = [wk EXCEPT ![c] = "done"]
  /\ UNCHANGED <<row, group, revoked, summary, class, hd>>

(* memoryCallbackFailureClass sorts the other answers; no answer within    *)
(* the client's 30 seconds, or none at all, is retryable.                  *)
HeardFailure(c) ==
  /\ wk[c] = "calling"
  /\ hd[c].answer # "ok"
  /\ wk' = [wk EXCEPT ![c] = "failing"]
  /\ class' = [class EXCEPT ![c] = IF hd[c].answer = "terminal" THEN "terminal" ELSE "retryable"]
  /\ UNCHANGED <<row, group, revoked, summary, hd>>

(* Mutant of Fail: a late failure is recorded whatever became of the batch. *)
FailLate(c) ==
  /\ wk[c] = "failing"
  /\ wk' = [wk EXCEPT ![c] = "done"]
  /\ class' = [class EXCEPT ![c] = "none"]
  /\ Put(c[1], IF class[c] = "terminal" \/ row[c[1]].attempts >= MaxAttempts
               THEN Dead(row[c[1]]) ELSE Retried(row[c[1]], FALSE))
  /\ UNCHANGED <<group, revoked, summary, hd>>

(* Fail: under the claim's own token, or not at all. An error of the store *)
(* is ignored, and the class is gone with the goroutine.                   *)
Fail(c) ==
  LET r == row[c[1]] IN
  /\ wk[c] = "failing"
  /\ wk' = [wk EXCEPT ![c] = "done"]
  /\ class' = [class EXCEPT ![c] = "none"]
  /\ \/ /\ Owns(c)
        /\ Put(c[1], IF class[c] = "terminal" \/ r.attempts >= MaxAttempts
                     THEN Dead(r) ELSE Retried(r, FALSE))
     \/ UNCHANGED row
  /\ UNCHANGED <<group, revoked, summary, hd>>

(* The worker stops or dies with the call open.                            *)
Stop(c) ==
  /\ wk[c] \in {"calling", "failing"}
  /\ wk' = [wk EXCEPT ![c] = "done"]
  /\ class' = [class EXCEPT ![c] = "none"]
  /\ UNCHANGED <<row, group, revoked, summary, hd>>

LeaseRunsOut(b) ==
  /\ row[b].state = "processing" /\ row[b].live
  /\ Put(b, [row[b] EXCEPT !.live = FALSE, !.work.live = FALSE])
  /\ UNCHANGED <<group, revoked, summary, wkVars, hd>>

WorkRunsOut(b) ==
  /\ row[b].work.live
  /\ Put(b, [row[b] EXCEPT !.work.live = FALSE])
  /\ UNCHANGED <<group, revoked, summary, wkVars, hd>>

(* nextAttemptAt comes, and the last work lease is long over.              *)
ComesDue(b) ==
  /\ row[b].state = "retry_wait" /\ ~row[b].due
  /\ Put(b, [row[b] EXCEPT !.due = TRUE, !.work.live = FALSE])
  /\ UNCHANGED <<group, revoked, summary, wkVars, hd>>

Expired(r) == r.state = "processing" /\ ~r.live

(* Mutant of Exhausted: the last attempt is expected to be recovered.      *)
ExhaustedLate(r) == r.attempts > MaxAttempts

Exhausted(r) == r.attempts >= MaxAttempts

(* RecoverExpired's two updates.                                           *)
RecoverExhausted(b) ==
  /\ Expired(row[b]) /\ Exhausted(row[b])
  /\ Put(b, Dead(row[b]))
  /\ UNCHANGED <<group, revoked, summary, wkVars, hd>>

RecoverRetryable(b) ==
  /\ Expired(row[b]) /\ row[b].attempts < MaxAttempts
  /\ Put(b, Retried(row[b], TRUE))
  /\ UNCHANGED <<group, revoked, summary, wkVars, hd>>

-----------------------------------------------------------------------------
(* The BFF's handler of a callback.                                        *)

Batch(c) == row[c[1]]
Scope(c) == group[GroupOf[c[1]]]

(* Mutant of Live: any live lease will do.                                 *)
LiveUnderAny(c) == Batch(c).state = "processing" /\ Batch(c).live

(* liveFilter: the lease that was loaded, unexpired.                       *)
Live(c) ==
  /\ Batch(c).state = "processing"
  /\ Batch(c).token = hd[c].token
  /\ Batch(c).live

Works(c) == Live(c) /\ Batch(c).work.by = c[2] /\ Batch(c).work.live

At(c, from, to) ==
  /\ hd[c].at = from
  /\ hd' = [hd EXCEPT ![c].at = to]

Reply(c, from, what) ==
  /\ hd[c].at = from
  /\ hd' = [hd EXCEPT ![c] = [NoHandler EXCEPT !.at = "done", !.answer = what]]

(* A step of the handler alone, and one that writes the batch.             *)
Here == UNCHANGED <<row, group, revoked, summary, wkVars>>
Rest == UNCHANGED <<group, revoked, wkVars>>

InHand(c) == Batch(c).state = "processing" /\ Batch(c).live

(* loadMemoryBatch: under whatever lease the batch has now. Not in         *)
(* anybody's hands: 204. Not with all of its messages: thrown.             *)
Load(c) ==
  /\ \/ /\ InHand(c) /\ hd[c].at = "posted"
        /\ hd' = [hd EXCEPT ![c].token = Batch(c).token,
             ![c].at = IF c[1] \in revoked THEN "sourceless" ELSE "loaded"]
     \/ ~InHand(c) /\ Reply(c, "posted", "ok")
  /\ Here

(* The first look at the group.                                            *)
CheckGroup(c) ==
  /\ IF Scope(c).eligible THEN At(c, "loaded", "eligible")
                          ELSE At(c, "loaded", "withheld")
  /\ Here

(* claimMemorySummaryWork: the group again, with its configVersion ...     *)
ReadVersion(c) ==
  /\ \/ /\ Scope(c).eligible /\ hd[c].at = "eligible"
        /\ hd' = [hd EXCEPT ![c].at = "versioned", ![c].version = Scope(c).version]
     \/ ~Scope(c).eligible /\ Reply(c, "eligible", "ok")
  /\ Here

(* ... and the work lease, if nobody has one. Busy or lost: 202 or 204.    *)
ClaimWork(c) ==
  /\ \/ /\ Live(c) /\ ~Batch(c).work.live
        /\ At(c, "versioned", "working")
        /\ Put(c[1], [Batch(c) EXCEPT !.work =
             [by |-> c[2], live |-> TRUE, version |-> hd[c].version]])
     \/ /\ ~(Live(c) /\ ~Batch(c).work.live)
        /\ Reply(c, "versioned", "ok")
        /\ UNCHANGED row
  /\ Rest /\ UNCHANGED summary

(* A summary that exists is not made again: the handler that stored it     *)
(* completed the batch with it, and the renewal may have noticed.          *)
CheckSummary(c) ==
  /\ \/ summary[c[1]] = NoSummary /\ At(c, "working", "fresh")
     \/ summary[c[1]] # NoSummary /\ Reply(c, "working", "ok")
     \/ summary[c[1]] # NoSummary /\ At(c, "working", "failed")
  /\ Here

(* The last look at the group, and the model is called.                    *)
CallModel(c) ==
  /\ hd[c].at = "fresh"
  /\ Scope(c).eligible /\ Scope(c).version = hd[c].version
  /\ hd' = [hd EXCEPT ![c].at = "asking", ![c].asked = Scope(c).version]
  /\ Here

(* Withdrawn meanwhile, or withdrawn and granted again.                    *)
ScopeMoved(c) ==
  /\ \/ ~Scope(c).eligible /\ At(c, "fresh", "withdrawn")
     \/ Scope(c).eligible /\ Scope(c).version # hd[c].version /\ At(c, "fresh", "failed")
  /\ Here

(* The model's output, its refusal or invalid output (422), an error of    *)
(* the provider or a lost work lease (503).                                *)
Answered(c) ==
  /\ \E to \in {"storing", "refused", "failed"} : At(c, "asking", to)
  /\ Here

(* completeMemoryBatch: what its transaction reads.                        *)
Storable(c) ==
  /\ summary[c[1]] = NoSummary
  /\ Scope(c).eligible
  /\ Batch(c).work.by = c[2]
  /\ Batch(c).work.version = Scope(c).version

StoreBegins(c) ==
  /\ IF Storable(c) THEN At(c, "storing", "fencing") ELSE At(c, "storing", "unstored")
  /\ Here

(* The summary and the batch's completion, in one commit.                  *)
Insert(c, kind) ==
  /\ summary[c[1]] = NoSummary
  /\ summary' = [summary EXCEPT ![c[1]] = [kind |-> kind, token |-> hd[c].token]]
  /\ Put(c[1], Completed(Batch(c)))
  /\ Rest

(* Mutant of StoreCommits: no fence on the group.                          *)
StoreCommitsUnfenced(c) ==
  /\ Works(c) /\ Insert(c, "content")
  /\ Reply(c, "fencing", "ok")

(* The fence on the group's row makes a change of it since a conflict, and *)
(* the batch's update matches a live lease and a live work lease.          *)
StoreCommits(c) ==
  /\ Scope(c).eligible /\ Scope(c).version = hd[c].version
  /\ Works(c) /\ Insert(c, "content")
  /\ Reply(c, "fencing", "ok")

(* The transaction aborts; a conflict is tried again, anything else is     *)
(* lost. A commit that is not heard is lost to the handler as well.        *)
StoreAborts(c) ==
  /\ At(c, "fencing", "storing") \/ At(c, "fencing", "unstored")
  /\ Here

StoreUnheard(c) ==
  /\ Scope(c).eligible /\ Scope(c).version = hd[c].version
  /\ Works(c) /\ Insert(c, "content")
  /\ At(c, "fencing", "unstored")

(* Not stored: was the group withdrawn?                                    *)
CheckWithdrawn(c) ==
  /\ IF Scope(c).eligible THEN At(c, "unstored", "failed")
                          ELSE At(c, "unstored", "withdrawn")
  /\ Here

(* resolveAuthorizationRevokedMemoryBatch, before ("withheld") or under    *)
(* ("withdrawn") the work lease: the transaction reads the group without a *)
(* fence, so it may be granted again before the commit. What conflicts is  *)
(* another write of the batch, a work lease taken or given back.           *)
ResolveBegins(c) ==
  /\ \E from \in {"withheld", "withdrawn"} :
       /\ hd[c].at = from
       /\ hd' = [hd EXCEPT ![c].holder = Batch(c).work.by, ![c].at =
            CASE from = "withheld"  -> IF Scope(c).eligible THEN "unresolved" ELSE "redacting"
              [] from = "withdrawn" -> IF Scope(c).eligible THEN "failed" ELSE "redactingWork"]
  /\ Here

(* resolveRevokedMemoryBatch, again under whatever lease there is now and  *)
(* whoever works under it. A batch it finds in nobody's hands is invalid.  *)
ResolveRevokedBegins(c) ==
  /\ \/ /\ InHand(c) /\ hd[c].at = "sourceless"
        /\ hd' = [hd EXCEPT ![c].at = "redactingSource", ![c].token = Batch(c).token,
                            ![c].holder = Batch(c).work.by]
     \/ ~InHand(c) /\ At(c, "sourceless", "refused")
  /\ Here

ResolveCommits(c) ==
  /\ Batch(c).work.by = hd[c].holder
  /\ \/ Live(c) /\ Reply(c, "redacting", "ok")
     \/ Live(c) /\ Reply(c, "redactingSource", "ok")
     \/ Works(c) /\ Reply(c, "redactingWork", "ok")
  /\ Insert(c, "redacted")

(* Tried again after a conflict, or lost.                                  *)
ResolveAborts(c) ==
  /\ \/ At(c, "redacting", "withheld") \/ At(c, "redacting", "unresolved")
     \/ At(c, "redactingSource", "sourceless") \/ At(c, "redactingSource", "refused")
     \/ At(c, "redactingWork", "withdrawn") \/ At(c, "redactingWork", "failed")
  /\ Here

Unresolved(c) == Reply(c, "unresolved", "retryable") /\ Here

(* The catch clause: the work lease is given back, then the answer.        *)
GiveUp(c) ==
  /\ Reply(c, "refused", "terminal") \/ Reply(c, "failed", "retryable")
  /\ IF Works(c) THEN Put(c[1], [Batch(c) EXCEPT !.work = NoWork]) ELSE UNCHANGED row
  /\ Rest /\ UNCHANGED summary

(* The BFF dies, or loses its database and answers 503.                    *)
Crash(c) ==
  /\ hd[c].at \notin {"none", "done"}
  /\ \E what \in {"none", "retryable"} : Reply(c, hd[c].at, what)
  /\ Here

-----------------------------------------------------------------------------
Lease(b) == LeaseRunsOut(b) \/ WorkRunsOut(b) \/ ComesDue(b)

Recover(b) == RecoverExhausted(b) \/ RecoverRetryable(b)

Call(c) == Heartbeat(c) \/ HeardOk(c) \/ HeardFailure(c) \/ Fail(c) \/ Stop(c)

Summarise(c) ==
  \/ Load(c) \/ CheckGroup(c) \/ ReadVersion(c) \/ ClaimWork(c) \/ CheckSummary(c)
  \/ CallModel(c) \/ ScopeMoved(c) \/ Answered(c)
  \/ StoreBegins(c) \/ StoreCommits(c) \/ StoreAborts(c) \/ StoreUnheard(c)
  \/ CheckWithdrawn(c) \/ ResolveBegins(c) \/ ResolveRevokedBegins(c)
  \/ ResolveCommits(c) \/ ResolveAborts(c)
  \/ Unresolved(c) \/ GiveUp(c) \/ Crash(c)

Next ==
  \/ \E g \in Groups, eligible \in BOOLEAN : ChangeScope(g, eligible)
  \/ \E b \in Batches : Build(b) \/ Revoke(b) \/ Claim(b) \/ Lease(b) \/ Recover(b)
  \/ \E c \in Claims : Call(c) \/ Summarise(c)

Spec == Init /\ [][Next]_vars

(* A lease runs out once nobody renews it.                                 *)
Abandoned(b) == ~\E c \in Claims : c[1] = b /\ wk[c] = "calling"

(* The worker's loop ticks, time passes, and a call ends within its 30     *)
(* seconds. The BFF owes nothing.                                          *)
Fairness ==
  /\ \A b \in Batches :
       /\ WF_vars(Claim(b))
       /\ WF_vars(Recover(b))
       /\ WF_vars(ComesDue(b))
       /\ WF_vars(Abandoned(b) /\ LeaseRunsOut(b))
  /\ \A c \in Claims : WF_vars(HeardOk(c) \/ HeardFailure(c)) /\ WF_vars(Fail(c))

FairSpec == Spec /\ Fairness

-----------------------------------------------------------------------------
(* Types, and what every reader of a batch relies on: one that waits has   *)
(* an attempt left to be claimed with and is leased to nobody, one that is *)
(* processed is leased under its latest attempt.                           *)
TypeOK ==
  /\ row \in [Batches -> [state : States, attempts : 0..MaxAttempts, due : BOOLEAN,
        token : 0..MaxAttempts, live : BOOLEAN,
        work : [by : 0..MaxAttempts, live : BOOLEAN, version : 0..MaxVersion]]]
  /\ group \in [Groups -> [eligible : BOOLEAN, version : 0..MaxVersion]]
  /\ revoked \subseteq Batches
  /\ summary \in [Batches -> [kind : Kinds, token : 0..MaxAttempts]]
  /\ wk \in [Claims -> {"none", "calling", "failing", "done"}]
  /\ class \in [Claims -> {"none", "retryable", "terminal"}]
  /\ hd \in [Claims -> [at : Places, token : 0..MaxAttempts, version : 0..MaxVersion,
        asked : 0..MaxVersion, holder : 0..MaxAttempts, answer : Answers]]
  /\ \A b \in Batches : LET r == row[b] IN
       /\ r.state \in {"ready", "retry_wait"} => r.attempts < MaxAttempts
       /\ r.token = IF r.state = "processing" THEN r.attempts ELSE NoToken

(* A batch is complete exactly when it has its one summary, and that was   *)
(* stored under the batch's last claim: no summary of a batch that is      *)
(* tried again, no watermark over messages nobody summarised, nothing by a *)
(* handler whose lease was recovered and claimed by another                *)
(* (completeMemoryBatch, completedWatermark).                              *)
SummaryIffComplete ==
  \A b \in Batches :
    /\ summary[b] # NoSummary <=> row[b].state = "complete"
    /\ summary[b] # NoSummary => summary[b].token = row[b].attempts

(* A batch and its summary agree at every instant.                         *)
BatchInv == TypeOK /\ SummaryIffComplete

(* A summary with content is stored only while its group is eligible, and  *)
(* the eligibility was not touched since before the messages were handed   *)
(* to the model: withdrawn and granted again counts as withdrawn.          *)
ConsentCoversTheModelCall ==
  [][\A b \in Batches :
       summary'[b] # summary[b] /\ summary'[b].kind = "content" =>
         /\ group[GroupOf[b]].eligible
         /\ \E c \in Claims :
              /\ c[1] = b /\ hd[c].at = "fencing" /\ hd'[c].at # "fencing"
              /\ hd[c].asked = group[GroupOf[b]].version
    ]_vars

(* Done is done: nothing that comes late, no failure, heartbeat, recovery  *)
(* or second handler, moves a batch that is complete or dead.              *)
EndIsFinal ==
  [][\A b \in Batches :
       row[b].state \in {"complete", "dead"} =>
         /\ row'[b].state = row[b].state
         /\ row'[b].attempts = row[b].attempts
         /\ row'[b].token = NoToken
         /\ summary'[b] = summary[b]
    ]_vars

(* A group's batches, as MemoryContract sees them: ranges of one.          *)
BatchesIn(states) ==
  [g \in Groups |-> {b \in Batches : GroupOf[b] = g /\ row[b].state \in states}]

BatchContract == INSTANCE MemoryContract WITH
  Messages <- Batches,
  open <- BatchesIn(Outstanding),
  done <- BatchesIn({"complete"}),
  lost <- BatchesIn({"dead"})

(* Whatever callbacks, failures and recoveries come late, the batches of a *)
(* group are summarised in order, one at a time and each once; one that is *)
(* complete is not given up, and one that is dead not summarised           *)
(* (MemoryContract).                                                       *)
BatchesImplementMemory == BatchContract!Spec

(* Whatever the BFF does and however often the worker dies, a batch ends:  *)
(* complete, or dead with its attempts used up or refused for good.        *)
OutstandingIsResolved ==
  \A b \in Batches :
    row[b].state \in Outstanding ~> row[b].state \in {"complete", "dead"}
=============================================================================
