------------------------ MODULE SendRequests_proofs ------------------------
(***************************************************************************)
(* Proofs about SendRequests for every number of requests, workers and     *)
(* approval handlers, every attempt limit and every clock bound.           *)
(***************************************************************************)
EXTENDS SendRequests, TLAPS

LEMMA InitInv == Init => SendInv
<1> SUFFICES ASSUME Init PROVE SendInv
  OBVIOUS
<1> USE SendsAssumption DEF Init
<1>1. TypeOK
  BY DEF TypeOK, Time, Rows, Absent, Statuses, ErrorClasses, Phases, Idle,
         Waiting, Attempts, NoJob
<1>2. \A s \in Sends : RowInv(s)
  BY DEF RowInv, Absent, Unlocked
<1>3. CallsInv
  BY DEF CallsInv
<1>4. \A w \in Workers : WorkerInv(w)
  BY DEF WorkerInv, Delivering
<1>5. TallyInv
  BY DEF TallyInv
<1> QED BY <1>1, <1>2, <1>3, <1>4, <1>5 DEF SendInv

(* Storing a document changes no other one.                                *)
LEMMA PutRow ==
  ASSUME row \in [Sends -> Rows], NEW s \in Sends, NEW r \in Rows, Put(s, r)
  PROVE  /\ row' \in [Sends -> Rows]
         /\ row'[s] = r
         /\ \A t \in Sends : t # s => row'[t] = row[t]
BY DEF Put

(* The fields of a document that the invariant speaks of.                  *)
LEMMA RowFields ==
  ASSUME NEW r \in Rows
  PROVE  /\ r.status \in Statuses
         /\ r.attempts \in 0..MaxAttempts
         /\ r.lockedBy \in Workers \cup {None}
         /\ r.errorClass \in ErrorClasses \cup {None}
         /\ r.due \in Time
BY DEF Rows

(* What each database operation makes of a document: a document, with      *)
(* these fields.                                                           *)
LEMMA AbsentRow ==
  /\ Absent \in Rows
  /\ Absent.status = "absent"
  /\ Absent.attempts = 0
  /\ Absent.lockedBy = None
  /\ Absent.lockedAt = None
BY SendsAssumption DEF Absent, Rows, Statuses, Time

LEMMA RequestedRow ==
  ASSUME now \in Time
  PROVE  /\ Requested \in Rows
         /\ Requested.status = "pending_approval"
         /\ Requested.attempts = 0
         /\ Unlocked(Requested)
<1>1. Requested = [Absent EXCEPT !.status = "pending_approval", !.due = now]
  BY DEF Requested
<1> QED BY <1>1, AbsentRow DEF Rows, Statuses, Unlocked

LEMMA DecidedRow ==
  ASSUME NEW due \in Time
  PROVE  /\ Decided(due) \in Rows
         /\ Decided(due).status \in Waiting
         /\ Decided(due).attempts = 0
         /\ Unlocked(Decided(due))
<1>1. StatusFor(due) \in Waiting /\ StatusFor(due) \in Statuses
  BY DEF StatusFor, Waiting, Statuses
<1> QED BY <1>1, AbsentRow DEF Decided, Rows, Unlocked

LEMMA ApprovedRow ==
  ASSUME NEW r \in Rows, NEW a, a.status \in Waiting, a.due \in Time
  PROVE  /\ Approved(r, a) \in Rows
         /\ Approved(r, a).status \in Waiting
         /\ Approved(r, a).attempts = r.attempts
         /\ Unlocked(Approved(r, a))
BY SendsAssumption DEF Approved, Rows, Statuses, Time, Unlocked, Waiting

LEMMA RejectedRow ==
  ASSUME NEW r \in Rows
  PROVE  /\ Rejected(r) \in Rows
         /\ Rejected(r).status = "rejected"
         /\ Rejected(r).attempts = r.attempts
         /\ Unlocked(r) => Unlocked(Rejected(r))
BY DEF Rejected, Rows, Statuses, Unlocked

LEMMA CancelledRow ==
  ASSUME NEW r \in Rows
  PROVE  /\ Cancelled(r) \in Rows
         /\ Cancelled(r).status = "cancelled"
         /\ Cancelled(r).attempts = r.attempts
         /\ Unlocked(r) => Unlocked(Cancelled(r))
BY DEF Cancelled, Rows, Statuses, Unlocked

LEMMA ClaimedRow ==
  ASSUME NEW r \in Rows, r.attempts < MaxAttempts, now \in Time, NEW w \in Workers
  PROVE  /\ Claimed(r, w) \in Rows
         /\ Claimed(r, w).status = "sending"
         /\ Claimed(r, w).attempts = r.attempts + 1
         /\ r.attempts + 1 \in 1..MaxAttempts
         /\ Claimed(r, w).lockedBy = w
<1>1. r.attempts + 1 \in 0..MaxAttempts /\ r.attempts + 1 \in 1..MaxAttempts
  BY SendsAssumption DEF Rows
<1> QED BY <1>1 DEF Claimed, Rows, Statuses, Time

LEMMA SentRow ==
  ASSUME NEW r \in Rows
  PROVE  /\ Sent(r) \in Rows
         /\ Sent(r).status = "sent"
         /\ Sent(r).attempts = r.attempts
         /\ Sent(r).waMessageId
         /\ Unlocked(Sent(r))
BY DEF Sent, Rows, Statuses, Unlocked

LEMMA FailedRow ==
  ASSUME NEW r \in Rows, NEW class \in ErrorClasses
  PROVE  /\ Failed(r, class) \in Rows
         /\ Failed(r, class).status = "failed"
         /\ Failed(r, class).attempts = r.attempts
         /\ Failed(r, class).errorClass = class
         /\ Unlocked(Failed(r, class))
BY DEF Failed, Rows, Statuses, Unlocked

(* A new row waits for a decision. *)
LEMMA CreatePendingInv ==
  ASSUME SendInv, NEW s \in Sends, CreatePending(s)
  PROVE  SendInv'
<1> USE SendsAssumption
    DEF SendInv, bffVars, workerVars, bridgeVars, tallyVars, CreatePending
<1> DEFINE r == row[s]
           r1 == Requested
<1>1. /\ row \in [Sends -> Rows]
      /\ now \in Time
      /\ s \in Sends
      /\ r \in Rows
      /\ r.status = "absent"
  BY DEF TypeOK
<1>2. /\ r1 \in Rows
      /\ r1.status = "pending_approval"
      /\ r1.attempts = 0
      /\ Unlocked(r1)
  BY <1>1, RequestedRow
<1>3. /\ row' \in [Sends -> Rows]
      /\ row'[s] = r1
      /\ \A t \in Sends : t # s => row'[t] = row[t]
  BY <1>1, <1>2, PutRow
<1>4. r.status \in Statuses /\ r.attempts \in 0..MaxAttempts
  BY <1>1, RowFields
<1>5. /\ decisions' \in [Sends -> Nat]
      /\ decisions'[s] = decisions[s]
      /\ \A t \in Sends : t # s => decisions'[t] = decisions[t]
  BY <1>1 DEF TypeOK
<1> HIDE DEF r1
<1>6. TypeOK'
  BY <1>2, <1>3, <1>5 DEF TypeOK
<1>7. \A t \in Sends : RowInv(t)'
  <2>1. RowInv(s)
    BY <1>1
  <2>2. RowInv(s)'
    BY <2>1, <1>1, <1>2, <1>3, <1>4, <1>5 DEF RowInv, Unlocked, Waiting
  <2>3. ASSUME NEW t \in Sends, t # s
        PROVE  RowInv(t)'
    BY <2>3, <1>3, <1>5 DEF RowInv, Unlocked
  <2> QED BY <2>2, <2>3
<1>8. CallsInv'
  <2> SUFFICES ASSUME NEW c \in (open \cup posted \cup unheard \cup failTally)'
               PROVE  CallInv(c)'
    BY DEF CallsInv
  <2>1. /\ CallInv(c)
        /\ c \in Attempts
        /\ c[1] \in Sends
        /\ c[2] \in Nat
        /\ c = <<c[1], c[2]>>
    BY DEF CallsInv, TypeOK, Attempts
  <2>2. CASE c[1] # s
    BY <2>1, <2>2, <1>3 DEF CallInv
  <2>3. CASE c[1] = s
    BY <2>1, <2>3, <1>1, <1>2, <1>3, <1>4 DEF CallInv, RowInv, Waiting, ErrorClasses
  <2> QED BY <2>2, <2>3
<1>9. ASSUME NEW v \in Workers PROVE WorkerInv(v)'
  <2>1. /\ WorkerInv(v) /\ job[v] \in Attempts \cup {NoJob}
        /\ UNCHANGED <<phase, job, verdict, open, posted, unheard, failTally>>
    BY DEF TypeOK
  <2>2. ASSUME phase[v] \in Delivering \cup {"stored"}
        PROVE  row'[job[v][1]] = row[job[v][1]]
    <3>1. job[v][1] \in Sends
      BY <2>1, <2>2 DEF WorkerInv, Attempts
    <3>2. job[v][1] # s
      BY <1>1, <2>1, <2>2 DEF WorkerInv, Holds, Waiting
    <3> QED BY <1>3, <3>1, <3>2
  <2> QED BY <2>1, <2>2 DEF WorkerInv, Holds, Delivering
<1>10. TallyInv'
  <2>1. okTally \subseteq Attempts /\ failTally \subseteq Attempts
    BY DEF TypeOK
  <2>2. \A c \in okTally : c[1] \in Sends /\ c[1] # s /\ row'[c[1]] = row[c[1]]
    BY <1>1, <1>3, <2>1 DEF TallyInv, Attempts, Waiting
  <2>3. \A c \in failTally : c[1] \in Sends /\ (c[1] # s => row'[c[1]] = row[c[1]])
    BY <1>3, <2>1 DEF Attempts
  <2>4. r1.status # "sent"
    BY <1>2 DEF Waiting
  <2> QED BY <1>3, <2>2, <2>3, <2>4 DEF TallyInv
<1> QED BY <1>6, <1>7, <1>8, <1>9, <1>10

(* A new row that was decided by its creation. *)
LEMMA CreateDecidedInv ==
  ASSUME SendInv, NEW s \in Sends, NEW due \in Time, CreateDecided(s, due)
  PROVE  SendInv'
<1> USE SendsAssumption
    DEF SendInv, bffVars, workerVars, bridgeVars, tallyVars, CreateDecided
<1> DEFINE r == row[s]
           r1 == Decided(due)
<1>1. /\ row \in [Sends -> Rows]
      /\ now \in Time
      /\ s \in Sends
      /\ r \in Rows
      /\ r.status = "absent"
  BY DEF TypeOK
<1>2. /\ r1 \in Rows
      /\ r1.status \in Waiting
      /\ r1.attempts = 0
      /\ Unlocked(r1)
  BY <1>1, DecidedRow
<1>3. /\ row' \in [Sends -> Rows]
      /\ row'[s] = r1
      /\ \A t \in Sends : t # s => row'[t] = row[t]
  BY <1>1, <1>2, PutRow
<1>4. r.status \in Statuses /\ r.attempts \in 0..MaxAttempts
  BY <1>1, RowFields
<1>5. /\ decisions' \in [Sends -> Nat]
      /\ decisions'[s] = decisions[s] + 1
      /\ \A t \in Sends : t # s => decisions'[t] = decisions[t]
  BY <1>1 DEF TypeOK
<1> HIDE DEF r1
<1>6. TypeOK'
  BY <1>2, <1>3, <1>5 DEF TypeOK
<1>7. \A t \in Sends : RowInv(t)'
  <2>1. RowInv(s)
    BY <1>1
  <2>2. RowInv(s)'
    BY <2>1, <1>1, <1>2, <1>3, <1>4, <1>5 DEF RowInv, Unlocked, Waiting
  <2>3. ASSUME NEW t \in Sends, t # s
        PROVE  RowInv(t)'
    BY <2>3, <1>3, <1>5 DEF RowInv, Unlocked
  <2> QED BY <2>2, <2>3
<1>8. CallsInv'
  <2> SUFFICES ASSUME NEW c \in (open \cup posted \cup unheard \cup failTally)'
               PROVE  CallInv(c)'
    BY DEF CallsInv
  <2>1. /\ CallInv(c)
        /\ c \in Attempts
        /\ c[1] \in Sends
        /\ c[2] \in Nat
        /\ c = <<c[1], c[2]>>
    BY DEF CallsInv, TypeOK, Attempts
  <2>2. CASE c[1] # s
    BY <2>1, <2>2, <1>3 DEF CallInv
  <2>3. CASE c[1] = s
    BY <2>1, <2>3, <1>1, <1>2, <1>3, <1>4 DEF CallInv, RowInv, Waiting, ErrorClasses
  <2> QED BY <2>2, <2>3
<1>9. ASSUME NEW v \in Workers PROVE WorkerInv(v)'
  <2>1. /\ WorkerInv(v) /\ job[v] \in Attempts \cup {NoJob}
        /\ UNCHANGED <<phase, job, verdict, open, posted, unheard, failTally>>
    BY DEF TypeOK
  <2>2. ASSUME phase[v] \in Delivering \cup {"stored"}
        PROVE  row'[job[v][1]] = row[job[v][1]]
    <3>1. job[v][1] \in Sends
      BY <2>1, <2>2 DEF WorkerInv, Attempts
    <3>2. job[v][1] # s
      BY <1>1, <2>1, <2>2 DEF WorkerInv, Holds, Waiting
    <3> QED BY <1>3, <3>1, <3>2
  <2> QED BY <2>1, <2>2 DEF WorkerInv, Holds, Delivering
<1>10. TallyInv'
  <2>1. okTally \subseteq Attempts /\ failTally \subseteq Attempts
    BY DEF TypeOK
  <2>2. \A c \in okTally : c[1] \in Sends /\ c[1] # s /\ row'[c[1]] = row[c[1]]
    BY <1>1, <1>3, <2>1 DEF TallyInv, Attempts, Waiting
  <2>3. \A c \in failTally : c[1] \in Sends /\ (c[1] # s => row'[c[1]] = row[c[1]])
    BY <1>3, <2>1 DEF Attempts
  <2>4. r1.status # "sent"
    BY <1>2 DEF Waiting
  <2> QED BY <1>3, <2>2, <2>3, <2>4 DEF TallyInv
<1> QED BY <1>6, <1>7, <1>8, <1>9, <1>10

(* Reading a row changes only the approval in progress. *)
LEMMA ApproveReadInv ==
  ASSUME SendInv, NEW h \in Approvers, NEW s \in Sends, NEW due \in Time,
         ApproveRead(h, s, due)
  PROVE  SendInv'
<1> USE SendsAssumption DEF SendInv, TypeOK, Time, Rows, Statuses, Waiting, ErrorClasses, Phases, Attempts, NoJob,
        bffVars, workerVars, bridgeVars, tallyVars, ApproveRead, Idle
<1>1. TypeOK'
  <2>1. StatusFor(due) \in Waiting
    BY DEF StatusFor, Waiting
  <2>2. InitiallyApprovable(row[s]) \in BOOLEAN
    BY DEF InitiallyApprovable
  <2> QED BY <2>1, <2>2
<1>2. \A t \in Sends : RowInv(t)'
  BY DEF RowInv, Unlocked, WorkerInv, Delivering, Holds
<1>3. CallsInv'
  BY DEF CallsInv, CallInv, RowInv, WorkerInv, Delivering, Holds
<1>4. \A v \in Workers : WorkerInv(v)'
  BY DEF WorkerInv, Delivering, Holds, CallsInv, CallInv, RowInv
<1>5. TallyInv'
  BY DEF TallyInv, CallsInv, CallInv, WorkerInv, Delivering, Holds, RowInv
<1> QED BY <1>1, <1>2, <1>3, <1>4, <1>5

(* The guarded update finds a row without an outstanding call. *)
LEMMA ApproveCommitInv ==
  ASSUME SendInv, NEW h \in Approvers, ApproveCommit(h)
  PROVE  SendInv'
<1> USE SendsAssumption
    DEF SendInv, bffVars, workerVars, bridgeVars, tallyVars, ApproveCommit
<1>0. PICK s \in Sends : s = approver[h].send
  BY DEF TypeOK, WorkerInv, Delivering, Attempts
<1> DEFINE a == approver[h]
           r == row[s]
           r1 == Approved(r, a)
<1>1. /\ row \in [Sends -> Rows]
      /\ now \in Time
      /\ s \in Sends
      /\ r \in Rows
      /\ a.status \in Waiting
      /\ a.due \in Time
      /\ \/ r.status = "pending_approval"
         \/ r.status = "failed" /\ r.errorClass # "ambiguous"
  BY <1>0 DEF TypeOK, InitiallyApprovable, Retryable
<1>2. /\ r1 \in Rows
      /\ r1.status \in Waiting
      /\ r1.attempts = r.attempts
      /\ Unlocked(r1)
  BY <1>1, ApprovedRow
<1>3. /\ row' \in [Sends -> Rows]
      /\ row'[s] = r1
      /\ \A t \in Sends : t # s => row'[t] = row[t]
  BY <1>0, <1>1, <1>2, PutRow
<1>4. r.status \in Statuses /\ r.attempts \in 0..MaxAttempts
  BY <1>1, RowFields
<1>5. /\ decisions' \in [Sends -> Nat]
      /\ decisions'[s] = decisions[s] + 1
      /\ \A t \in Sends : t # s => decisions'[t] = decisions[t]
  BY <1>0, <1>1 DEF TypeOK
<1> HIDE DEF r1
<1>6. TypeOK'
  <2>1. Idle \in [send : Sends \cup {None}, initial : BOOLEAN,
                   due : Time, status : Waiting]
    BY DEF Idle, Time, Waiting
  <2> QED BY <2>1, <1>3, <1>5 DEF TypeOK
<1>7. \A t \in Sends : RowInv(t)'
  <2>1. RowInv(s)
    BY <1>1
  <2>2. RowInv(s)'
    BY <2>1, <1>1, <1>2, <1>3, <1>4, <1>5 DEF RowInv, Unlocked, Waiting
  <2>3. ASSUME NEW t \in Sends, t # s
        PROVE  RowInv(t)'
    BY <2>3, <1>3, <1>5 DEF RowInv, Unlocked
  <2> QED BY <2>2, <2>3
<1>8. CallsInv'
  <2> SUFFICES ASSUME NEW c \in (open \cup posted \cup unheard \cup failTally)'
               PROVE  CallInv(c)'
    BY DEF CallsInv
  <2>1. /\ CallInv(c)
        /\ c \in Attempts
        /\ c[1] \in Sends
        /\ c[2] \in Nat
        /\ c = <<c[1], c[2]>>
    BY DEF CallsInv, TypeOK, Attempts
  <2>2. CASE c[1] # s
    BY <2>1, <2>2, <1>3 DEF CallInv
  <2>3. CASE c[1] = s
    BY <2>1, <2>3, <1>0, <1>1, <1>2, <1>3, <1>4 DEF CallInv, RowInv, Waiting, ErrorClasses
  <2> QED BY <2>2, <2>3
<1>9. \A v \in Workers : WorkerInv(v)'
  BY <1>0, <1>1, <1>2, <1>3, <1>4
  DEF TypeOK, RowInv, WorkerInv, Delivering, Holds, CallsInv, CallInv, Attempts,
      Waiting, NoJob
<1>10. TallyInv'
  BY <1>0, <1>1, <1>2, <1>3, <1>4
  DEF TypeOK, RowInv, TallyInv, CallsInv, CallInv, Attempts, Waiting, WorkerInv, Delivering, Holds
<1> QED BY <1>6, <1>7, <1>8, <1>9, <1>10

(* An approval that writes nothing. *)
LEMMA ApproveAbandonInv ==
  ASSUME SendInv, NEW h \in Approvers, ApproveAbandon(h)
  PROVE  SendInv'
<1> USE SendsAssumption DEF SendInv, TypeOK, Time, Rows, Statuses, Waiting, ErrorClasses, Phases, Attempts, NoJob,
        bffVars, workerVars, bridgeVars, tallyVars, ApproveAbandon, Idle
<1>1. TypeOK'
  BY DEF WorkerInv, Delivering
<1>2. \A t \in Sends : RowInv(t)'
  BY DEF RowInv, Unlocked, WorkerInv, Delivering, Holds
<1>3. CallsInv'
  BY DEF CallsInv, CallInv, RowInv, WorkerInv, Delivering, Holds
<1>4. \A v \in Workers : WorkerInv(v)'
  BY DEF WorkerInv, Delivering, Holds, CallsInv, CallInv, RowInv
<1>5. TallyInv'
  BY DEF TallyInv, CallsInv, CallInv, WorkerInv, Delivering, Holds, RowInv
<1> QED BY <1>1, <1>2, <1>3, <1>4, <1>5

(* A rejected row was never claimed. *)
LEMMA RejectInv ==
  ASSUME SendInv, NEW s \in Sends, Reject(s)
  PROVE  SendInv'
<1> USE SendsAssumption
    DEF SendInv, bffVars, workerVars, bridgeVars, tallyVars, Reject
<1> DEFINE r == row[s]
           r1 == Rejected(r)
<1>1. /\ row \in [Sends -> Rows]
      /\ now \in Time
      /\ s \in Sends
      /\ r \in Rows
      /\ r.status = "pending_approval"
      /\ Unlocked(r)
  BY DEF TypeOK, RowInv
<1>2. /\ r1 \in Rows
      /\ r1.status = "rejected"
      /\ r1.attempts = r.attempts
      /\ Unlocked(r1)
  BY <1>1, RejectedRow
<1>3. /\ row' \in [Sends -> Rows]
      /\ row'[s] = r1
      /\ \A t \in Sends : t # s => row'[t] = row[t]
  BY <1>1, <1>2, PutRow
<1>4. r.status \in Statuses /\ r.attempts \in 0..MaxAttempts
  BY <1>1, RowFields
<1>5. /\ decisions' \in [Sends -> Nat]
      /\ decisions'[s] = decisions[s]
      /\ \A t \in Sends : t # s => decisions'[t] = decisions[t]
  BY <1>1 DEF TypeOK
<1> HIDE DEF r1
<1>6. TypeOK'
  BY <1>2, <1>3, <1>5 DEF TypeOK
<1>7. \A t \in Sends : RowInv(t)'
  <2>1. RowInv(s)
    BY <1>1
  <2>2. RowInv(s)'
    BY <2>1, <1>1, <1>2, <1>3, <1>4, <1>5 DEF RowInv, Unlocked, Waiting
  <2>3. ASSUME NEW t \in Sends, t # s
        PROVE  RowInv(t)'
    BY <2>3, <1>3, <1>5 DEF RowInv, Unlocked
  <2> QED BY <2>2, <2>3
<1>8. CallsInv'
  <2> SUFFICES ASSUME NEW c \in (open \cup posted \cup unheard \cup failTally)'
               PROVE  CallInv(c)'
    BY DEF CallsInv
  <2>1. /\ CallInv(c)
        /\ c \in Attempts
        /\ c[1] \in Sends
        /\ c[2] \in Nat
        /\ c = <<c[1], c[2]>>
    BY DEF CallsInv, TypeOK, Attempts
  <2>2. CASE c[1] # s
    BY <2>1, <2>2, <1>3 DEF CallInv
  <2>3. CASE c[1] = s
    BY <2>1, <2>3, <1>1, <1>2, <1>3, <1>4 DEF CallInv, RowInv, Waiting, ErrorClasses
  <2> QED BY <2>2, <2>3
<1>9. ASSUME NEW v \in Workers PROVE WorkerInv(v)'
  <2>1. /\ WorkerInv(v) /\ job[v] \in Attempts \cup {NoJob}
        /\ UNCHANGED <<phase, job, verdict, open, posted, unheard, failTally>>
    BY DEF TypeOK
  <2>2. ASSUME phase[v] \in Delivering \cup {"stored"}
        PROVE  row'[job[v][1]] = row[job[v][1]]
    <3>1. job[v][1] \in Sends
      BY <2>1, <2>2 DEF WorkerInv, Attempts
    <3>2. job[v][1] # s
      BY <1>1, <2>1, <2>2 DEF WorkerInv, Holds, Waiting
    <3> QED BY <1>3, <3>1, <3>2
  <2> QED BY <2>1, <2>2 DEF WorkerInv, Holds, Delivering
<1>10. TallyInv'
  <2>1. okTally \subseteq Attempts /\ failTally \subseteq Attempts
    BY DEF TypeOK
  <2>2. \A c \in okTally : c[1] \in Sends /\ c[1] # s /\ row'[c[1]] = row[c[1]]
    BY <1>1, <1>3, <2>1 DEF TallyInv, Attempts, Waiting
  <2>3. \A c \in failTally : c[1] \in Sends /\ (c[1] # s => row'[c[1]] = row[c[1]])
    BY <1>3, <2>1 DEF Attempts
  <2>4. r1.status # "sent"
    BY <1>2 DEF Waiting
  <2> QED BY <1>3, <2>2, <2>3, <2>4 DEF TallyInv
<1> QED BY <1>6, <1>7, <1>8, <1>9, <1>10

(* A cancelled row is not in any worker's hands. *)
LEMMA CancelInv ==
  ASSUME SendInv, NEW s \in Sends, Cancel(s)
  PROVE  SendInv'
<1> USE SendsAssumption
    DEF SendInv, bffVars, workerVars, bridgeVars, tallyVars, Cancel
<1> DEFINE r == row[s]
           r1 == Cancelled(r)
<1>1. /\ row \in [Sends -> Rows]
      /\ now \in Time
      /\ s \in Sends
      /\ r \in Rows
      /\ r.status \in Waiting
      /\ Unlocked(r)
  BY DEF TypeOK, RowInv, Waiting
<1>2. /\ r1 \in Rows
      /\ r1.status = "cancelled"
      /\ r1.attempts = r.attempts
      /\ Unlocked(r1)
  BY <1>1, CancelledRow
<1>3. /\ row' \in [Sends -> Rows]
      /\ row'[s] = r1
      /\ \A t \in Sends : t # s => row'[t] = row[t]
  BY <1>1, <1>2, PutRow
<1>4. r.status \in Statuses /\ r.attempts \in 0..MaxAttempts
  BY <1>1, RowFields
<1>5. /\ decisions' \in [Sends -> Nat]
      /\ decisions'[s] = decisions[s]
      /\ \A t \in Sends : t # s => decisions'[t] = decisions[t]
  BY <1>1 DEF TypeOK
<1> HIDE DEF r1
<1>6. TypeOK'
  BY <1>2, <1>3, <1>5 DEF TypeOK
<1>7. \A t \in Sends : RowInv(t)'
  <2>1. RowInv(s)
    BY <1>1
  <2>2. RowInv(s)'
    BY <2>1, <1>1, <1>2, <1>3, <1>4, <1>5 DEF RowInv, Unlocked, Waiting
  <2>3. ASSUME NEW t \in Sends, t # s
        PROVE  RowInv(t)'
    BY <2>3, <1>3, <1>5 DEF RowInv, Unlocked
  <2> QED BY <2>2, <2>3
<1>8. CallsInv'
  <2> SUFFICES ASSUME NEW c \in (open \cup posted \cup unheard \cup failTally)'
               PROVE  CallInv(c)'
    BY DEF CallsInv
  <2>1. /\ CallInv(c)
        /\ c \in Attempts
        /\ c[1] \in Sends
        /\ c[2] \in Nat
        /\ c = <<c[1], c[2]>>
    BY DEF CallsInv, TypeOK, Attempts
  <2>2. CASE c[1] # s
    BY <2>1, <2>2, <1>3 DEF CallInv
  <2>3. CASE c[1] = s
    BY <2>1, <2>3, <1>1, <1>2, <1>3, <1>4 DEF CallInv, RowInv, Waiting, ErrorClasses
  <2> QED BY <2>2, <2>3
<1>9. ASSUME NEW v \in Workers PROVE WorkerInv(v)'
  <2>1. /\ WorkerInv(v) /\ job[v] \in Attempts \cup {NoJob}
        /\ UNCHANGED <<phase, job, verdict, open, posted, unheard, failTally>>
    BY DEF TypeOK
  <2>2. ASSUME phase[v] \in Delivering \cup {"stored"}
        PROVE  row'[job[v][1]] = row[job[v][1]]
    <3>1. job[v][1] \in Sends
      BY <2>1, <2>2 DEF WorkerInv, Attempts
    <3>2. job[v][1] # s
      BY <1>1, <2>1, <2>2 DEF WorkerInv, Holds, Waiting
    <3> QED BY <1>3, <3>1, <3>2
  <2> QED BY <2>1, <2>2 DEF WorkerInv, Holds, Delivering
<1>10. TallyInv'
  <2>1. okTally \subseteq Attempts /\ failTally \subseteq Attempts
    BY DEF TypeOK
  <2>2. \A c \in okTally : c[1] \in Sends /\ c[1] # s /\ row'[c[1]] = row[c[1]]
    BY <1>1, <1>3, <2>1 DEF TallyInv, Attempts, Waiting
  <2>3. \A c \in failTally : c[1] \in Sends /\ (c[1] # s => row'[c[1]] = row[c[1]])
    BY <1>3, <2>1 DEF Attempts
  <2>4. r1.status # "sent"
    BY <1>2 DEF Waiting
  <2> QED BY <1>3, <2>2, <2>3, <2>4 DEF TallyInv
<1> QED BY <1>6, <1>7, <1>8, <1>9, <1>10

(* A process start. *)
LEMMA StartInv ==
  ASSUME SendInv, NEW w \in Workers, Start(w)
  PROVE  SendInv'
<1> USE SendsAssumption DEF SendInv, TypeOK, Time, Rows, Statuses, Waiting, ErrorClasses, Phases, Attempts, NoJob,
        bffVars, workerVars, bridgeVars, tallyVars, Start, Goto
<1>1. TypeOK'
  BY DEF WorkerInv, Delivering
<1>2. \A t \in Sends : RowInv(t)'
  BY DEF RowInv, Unlocked, WorkerInv, Delivering, Holds
<1>3. CallsInv'
  BY DEF CallsInv, CallInv, RowInv, WorkerInv, Delivering, Holds
<1>4. \A v \in Workers : WorkerInv(v)'
  BY DEF WorkerInv, Delivering, Holds, CallsInv, CallInv, RowInv
<1>5. TallyInv'
  BY DEF TallyInv, CallsInv, CallInv, WorkerInv, Delivering, Holds, RowInv
<1> QED BY <1>1, <1>2, <1>3, <1>4, <1>5

(* A claim spends one decision and finds the row unlocked. *)
LEMMA ClaimInv ==
  ASSUME SendInv, NEW w \in Workers, NEW s \in Sends, Claim(w, s)
  PROVE  SendInv'
<1> USE SendsAssumption
    DEF SendInv, bffVars, workerVars, bridgeVars, tallyVars, Claim, ClaimRow, Goto
<1> DEFINE r == row[s]
           r1 == Claimed(r, w)
<1>1. /\ row \in [Sends -> Rows]
      /\ now \in Time
      /\ s \in Sends
      /\ r \in Rows
      /\ r.status \in Waiting
      /\ r.attempts < MaxAttempts
  BY DEF TypeOK, Claimable
<1>2. /\ r1 \in Rows
      /\ r1.status = "sending"
      /\ r1.attempts = r.attempts + 1
      /\ r1.attempts \in 1..MaxAttempts
      /\ r1.lockedBy = w
  BY <1>1, ClaimedRow
<1>3. /\ row' \in [Sends -> Rows]
      /\ row'[s] = r1
      /\ \A t \in Sends : t # s => row'[t] = row[t]
  BY <1>1, <1>2, PutRow
<1>4. r.status \in Statuses /\ r.attempts \in 0..MaxAttempts
  BY <1>1, RowFields
<1>5. /\ decisions' \in [Sends -> Nat]
      /\ decisions'[s] = decisions[s]
      /\ \A t \in Sends : t # s => decisions'[t] = decisions[t]
  BY <1>1 DEF TypeOK
<1> HIDE DEF r1
<1>6. TypeOK'
  <2>1. job' \in [Workers -> Attempts \cup {NoJob}]
    BY <1>1, <1>2 DEF TypeOK, Attempts
  <2>2. phase' \in [Workers -> Phases]
    BY DEF TypeOK, Phases
  <2> QED BY <2>1, <2>2, <1>3, <1>5 DEF TypeOK
<1>7. \A t \in Sends : RowInv(t)'
  <2>1. RowInv(s)
    BY <1>1
  <2>2. RowInv(s)'
    BY <2>1, <1>1, <1>2, <1>3, <1>4, <1>5 DEF RowInv, Unlocked, Waiting
  <2>3. ASSUME NEW t \in Sends, t # s
        PROVE  RowInv(t)'
    BY <2>3, <1>3, <1>5 DEF RowInv, Unlocked
  <2> QED BY <2>2, <2>3
<1>8. CallsInv'
  <2> SUFFICES ASSUME NEW c \in (open \cup posted \cup unheard \cup failTally)'
               PROVE  CallInv(c)'
    BY DEF CallsInv
  <2>1. /\ CallInv(c)
        /\ c \in Attempts
        /\ c[1] \in Sends
        /\ c[2] \in Nat
        /\ c = <<c[1], c[2]>>
    BY DEF CallsInv, TypeOK, Attempts
  <2>2. CASE c[1] # s
    BY <2>1, <2>2, <1>3 DEF CallInv
  <2>3. CASE c[1] = s
    BY <2>1, <2>3, <1>1, <1>2, <1>3, <1>4 DEF CallInv, RowInv, Waiting, ErrorClasses
  <2> QED BY <2>2, <2>3
<1>9. ASSUME NEW v \in Workers PROVE WorkerInv(v)'
  <2>1. /\ WorkerInv(v) /\ job[v] \in Attempts \cup {NoJob}
        /\ open' = open /\ posted' = posted /\ unheard' = unheard
        /\ failTally' = failTally /\ verdict' = verdict
    BY DEF TypeOK
  <2>2. CASE v = w
    <3> DEFINE c == <<s, r1.attempts>>
    <3>1. phase'[v] = "claimed" /\ job'[v] = c /\ c # NoJob
      BY <1>1, <1>2, <2>2 DEF TypeOK, NoJob
    <3>2. c \notin open \cup posted \cup unheard \cup failTally
      BY <1>1, <1>2, <1>4 DEF CallsInv, CallInv
    <3>3. Holds(v, s)' /\ row'[s].attempts = c[2]
      BY <1>2, <1>3, <2>2 DEF Holds
    <3> HIDE DEF c
    <3>4. c[1] = s
      BY DEF c
    <3> QED BY <2>1, <3>1, <3>2, <3>3, <3>4 DEF WorkerInv, Delivering
  <2>3. CASE v # w
    <3>1. phase'[v] = phase[v] /\ job'[v] = job[v]
      BY <2>3 DEF TypeOK
    <3>2. ASSUME phase[v] \in Delivering \cup {"stored"}
          PROVE  row'[job[v][1]] = row[job[v][1]]
      <4>1. job[v][1] \in Sends
        BY <2>1, <3>2 DEF WorkerInv, Attempts
      <4>2. job[v][1] # s
        BY <1>1, <2>1, <3>2 DEF WorkerInv, Holds, Waiting
      <4> QED BY <1>3, <4>1, <4>2
    <3> QED BY <2>1, <3>1, <3>2 DEF WorkerInv, Holds, Delivering
  <2> QED BY <2>2, <2>3
<1>10. TallyInv'
  <2>1. okTally \subseteq Attempts /\ failTally \subseteq Attempts
    BY DEF TypeOK
  <2>2. \A c \in okTally : c[1] \in Sends /\ c[1] # s /\ row'[c[1]] = row[c[1]]
    BY <1>1, <1>3, <2>1 DEF TallyInv, Attempts, Waiting
  <2>3. \A c \in failTally : c[1] \in Sends /\ (c[1] # s => row'[c[1]] = row[c[1]])
    BY <1>3, <2>1 DEF Attempts
  <2>4. r1.status # "sent"
    BY <1>2 DEF Waiting
  <2> QED BY <1>3, <2>2, <2>3, <2>4 DEF TallyInv
<1> QED BY <1>6, <1>7, <1>8, <1>9, <1>10

(* A claim nobody holds. *)
LEMMA ClaimUnacknowledgedInv ==
  ASSUME SendInv, NEW w \in Workers, NEW s \in Sends,
         ClaimUnacknowledged(w, s)
  PROVE  SendInv'
<1> USE SendsAssumption
    DEF SendInv, bffVars, workerVars, bridgeVars, tallyVars, ClaimUnacknowledged, ClaimRow
<1> DEFINE r == row[s]
           r1 == Claimed(r, w)
<1>1. /\ row \in [Sends -> Rows]
      /\ now \in Time
      /\ s \in Sends
      /\ r \in Rows
      /\ r.status \in Waiting
      /\ r.attempts < MaxAttempts
  BY DEF TypeOK, Claimable
<1>2. /\ r1 \in Rows
      /\ r1.status = "sending"
      /\ r1.attempts = r.attempts + 1
      /\ r1.attempts \in 1..MaxAttempts
      /\ r1.lockedBy = w
  BY <1>1, ClaimedRow
<1>3. /\ row' \in [Sends -> Rows]
      /\ row'[s] = r1
      /\ \A t \in Sends : t # s => row'[t] = row[t]
  BY <1>1, <1>2, PutRow
<1>4. r.status \in Statuses /\ r.attempts \in 0..MaxAttempts
  BY <1>1, RowFields
<1>5. /\ decisions' \in [Sends -> Nat]
      /\ decisions'[s] = decisions[s]
      /\ \A t \in Sends : t # s => decisions'[t] = decisions[t]
  BY <1>1 DEF TypeOK
<1> HIDE DEF r1
<1>6. TypeOK'
  BY <1>2, <1>3, <1>5 DEF TypeOK
<1>7. \A t \in Sends : RowInv(t)'
  <2>1. RowInv(s)
    BY <1>1
  <2>2. RowInv(s)'
    BY <2>1, <1>1, <1>2, <1>3, <1>4, <1>5 DEF RowInv, Unlocked, Waiting
  <2>3. ASSUME NEW t \in Sends, t # s
        PROVE  RowInv(t)'
    BY <2>3, <1>3, <1>5 DEF RowInv, Unlocked
  <2> QED BY <2>2, <2>3
<1>8. CallsInv'
  <2> SUFFICES ASSUME NEW c \in (open \cup posted \cup unheard \cup failTally)'
               PROVE  CallInv(c)'
    BY DEF CallsInv
  <2>1. /\ CallInv(c)
        /\ c \in Attempts
        /\ c[1] \in Sends
        /\ c[2] \in Nat
        /\ c = <<c[1], c[2]>>
    BY DEF CallsInv, TypeOK, Attempts
  <2>2. CASE c[1] # s
    BY <2>1, <2>2, <1>3 DEF CallInv
  <2>3. CASE c[1] = s
    BY <2>1, <2>3, <1>1, <1>2, <1>3, <1>4 DEF CallInv, RowInv, Waiting, ErrorClasses
  <2> QED BY <2>2, <2>3
<1>9. ASSUME NEW v \in Workers PROVE WorkerInv(v)'
  <2>1. /\ WorkerInv(v) /\ job[v] \in Attempts \cup {NoJob}
        /\ UNCHANGED <<phase, job, verdict, open, posted, unheard, failTally>>
    BY DEF TypeOK
  <2>2. ASSUME phase[v] \in Delivering \cup {"stored"}
        PROVE  row'[job[v][1]] = row[job[v][1]]
    <3>1. job[v][1] \in Sends
      BY <2>1, <2>2 DEF WorkerInv, Attempts
    <3>2. job[v][1] # s
      BY <1>1, <2>1, <2>2 DEF WorkerInv, Holds, Waiting
    <3> QED BY <1>3, <3>1, <3>2
  <2> QED BY <2>1, <2>2 DEF WorkerInv, Holds, Delivering
<1>10. TallyInv'
  <2>1. okTally \subseteq Attempts /\ failTally \subseteq Attempts
    BY DEF TypeOK
  <2>2. \A c \in okTally : c[1] \in Sends /\ c[1] # s /\ row'[c[1]] = row[c[1]]
    BY <1>1, <1>3, <2>1 DEF TallyInv, Attempts, Waiting
  <2>3. \A c \in failTally : c[1] \in Sends /\ (c[1] # s => row'[c[1]] = row[c[1]])
    BY <1>3, <2>1 DEF Attempts
  <2>4. r1.status # "sent"
    BY <1>2 DEF Waiting
  <2> QED BY <1>3, <2>2, <2>3, <2>4 DEF TallyInv
<1> QED BY <1>6, <1>7, <1>8, <1>9, <1>10

(* Before the call exists, either class is true of it. *)
LEMMA NotHandedOverInv ==
  ASSUME SendInv, NEW w \in Workers, NotHandedOver(w)
  PROVE  SendInv'
<1> USE SendsAssumption DEF SendInv, TypeOK, Time, Rows, Statuses, Waiting, ErrorClasses, Phases, Attempts, NoJob,
        bffVars, workerVars, bridgeVars, tallyVars, NotHandedOver, Refuse, Goto
<1>1. TypeOK'
  BY DEF WorkerInv, Delivering
<1>2. \A t \in Sends : RowInv(t)'
  BY DEF RowInv, Unlocked, WorkerInv, Delivering, Holds
<1>3. CallsInv'
  BY DEF CallsInv, CallInv, RowInv, WorkerInv, Delivering, Holds
<1>4. \A v \in Workers : WorkerInv(v)'
  BY DEF WorkerInv, Delivering, Holds, CallsInv, CallInv, RowInv
<1>5. TallyInv'
  BY DEF TallyInv, CallsInv, CallInv, WorkerInv, Delivering, Holds, RowInv
<1> QED BY <1>1, <1>2, <1>3, <1>4, <1>5

(* The call is the row's last attempt. *)
LEMMA HandOverInv ==
  ASSUME SendInv, NEW w \in Workers, HandOver(w)
  PROVE  SendInv'
<1> USE SendsAssumption DEF SendInv, TypeOK, Time, Rows, Statuses, Waiting, ErrorClasses, Phases, Attempts, NoJob,
        bffVars, workerVars, bridgeVars, tallyVars, HandOver, Goto
<1>1. TypeOK'
  BY DEF WorkerInv, Delivering
<1>2. \A t \in Sends : RowInv(t)'
  BY DEF RowInv, Unlocked, WorkerInv, Delivering, Holds
<1>3. CallsInv'
  BY DEF CallsInv, CallInv, RowInv, WorkerInv, Delivering, Holds
<1>4. \A v \in Workers : WorkerInv(v)'
  BY DEF WorkerInv, Delivering, Holds, CallsInv, CallInv, RowInv
<1>5. TallyInv'
  BY DEF TallyInv, CallsInv, CallInv, WorkerInv, Delivering, Holds, RowInv
<1> QED BY <1>1, <1>2, <1>3, <1>4, <1>5

(* The bridge performs a call, whoever still waits for it. *)
LEMMA PostInv ==
  ASSUME SendInv, NEW c \in open, Post(c)
  PROVE  SendInv'
<1> USE SendsAssumption DEF SendInv, TypeOK, Time, Rows, Statuses, Waiting, ErrorClasses, Phases, Attempts, NoJob,
        bffVars, workerVars, bridgeVars, tallyVars, Post
<1>1. TypeOK'
  BY DEF WorkerInv, Delivering
<1>2. \A t \in Sends : RowInv(t)'
  BY DEF RowInv, Unlocked, WorkerInv, Delivering, Holds
<1>3. CallsInv'
  BY DEF CallsInv, CallInv, RowInv, WorkerInv, Delivering, Holds
<1>4. \A v \in Workers : WorkerInv(v)'
  BY DEF WorkerInv, Delivering, Holds, CallsInv, CallInv, RowInv
<1>5. TallyInv'
  BY DEF TallyInv, CallsInv, CallInv, WorkerInv, Delivering, Holds, RowInv
<1> QED BY <1>1, <1>2, <1>3, <1>4, <1>5

(* An acknowledgement is of a posted call. *)
LEMMA AcknowledgedInv ==
  ASSUME SendInv, NEW w \in Workers, Acknowledged(w)
  PROVE  SendInv'
<1> USE SendsAssumption DEF SendInv, TypeOK, Time, Rows, Statuses, Waiting, ErrorClasses, Phases, Attempts, NoJob,
        bffVars, workerVars, bridgeVars, tallyVars, Acknowledged, Goto
<1>1. TypeOK'
  BY DEF WorkerInv, Delivering
<1>2. \A t \in Sends : RowInv(t)'
  BY DEF RowInv, Unlocked, WorkerInv, Delivering, Holds
<1>3. CallsInv'
  BY DEF CallsInv, CallInv, RowInv, WorkerInv, Delivering, Holds
<1>4. \A v \in Workers : WorkerInv(v)'
  BY DEF WorkerInv, Delivering, Holds, CallsInv, CallInv, RowInv
<1>5. TallyInv'
  BY DEF TallyInv, CallsInv, CallInv, WorkerInv, Delivering, Holds, RowInv
<1> QED BY <1>1, <1>2, <1>3, <1>4, <1>5

(* A 503 closes a call that was not performed. *)
LEMMA NotConnectedInv ==
  ASSUME SendInv, NEW w \in Workers, NotConnected(w)
  PROVE  SendInv'
<1> USE SendsAssumption DEF SendInv, TypeOK, Time, Rows, Statuses, Waiting, ErrorClasses, Phases, Attempts, NoJob,
        bffVars, workerVars, bridgeVars, tallyVars, NotConnected, Refuse, Goto
<1>1. TypeOK'
  BY DEF WorkerInv, Delivering
<1>2. \A t \in Sends : RowInv(t)'
  BY DEF RowInv, Unlocked, WorkerInv, Delivering, Holds
<1>3. CallsInv'
  BY DEF CallsInv, CallInv, RowInv, WorkerInv, Delivering, Holds
<1>4. \A v \in Workers : WorkerInv(v)'
  BY DEF WorkerInv, Delivering, Holds, CallsInv, CallInv, RowInv
<1>5. TallyInv'
  BY DEF TallyInv, CallsInv, CallInv, WorkerInv, Delivering, Holds, RowInv
<1> QED BY <1>1, <1>2, <1>3, <1>4, <1>5

(* An answer that proves nothing is ambiguous. *)
LEMMA UnconfirmedInv ==
  ASSUME SendInv, NEW w \in Workers, Unconfirmed(w)
  PROVE  SendInv'
<1> USE SendsAssumption DEF SendInv, TypeOK, Time, Rows, Statuses, Waiting, ErrorClasses, Phases, Attempts, NoJob,
        bffVars, workerVars, bridgeVars, tallyVars, Unconfirmed, Refuse, Goto
<1>1. TypeOK'
  BY DEF WorkerInv, Delivering
<1>2. \A t \in Sends : RowInv(t)'
  BY DEF RowInv, Unlocked, WorkerInv, Delivering, Holds
<1>3. CallsInv'
  BY DEF CallsInv, CallInv, RowInv, WorkerInv, Delivering, Holds
<1>4. \A v \in Workers : WorkerInv(v)'
  BY DEF WorkerInv, Delivering, Holds, CallsInv, CallInv, RowInv
<1>5. TallyInv'
  BY DEF TallyInv, CallsInv, CallInv, WorkerInv, Delivering, Holds, RowInv
<1> QED BY <1>1, <1>2, <1>3, <1>4, <1>5

(* A deadline leaves the call with the bridge. *)
LEMMA TimedOutInv ==
  ASSUME SendInv, NEW w \in Workers, TimedOut(w)
  PROVE  SendInv'
<1> USE SendsAssumption DEF SendInv, TypeOK, Time, Rows, Statuses, Waiting, ErrorClasses, Phases, Attempts, NoJob,
        bffVars, workerVars, bridgeVars, tallyVars, TimedOut, Refuse, Goto
<1>1. TypeOK'
  BY DEF WorkerInv, Delivering
<1>2. \A t \in Sends : RowInv(t)'
  BY DEF RowInv, Unlocked, WorkerInv, Delivering, Holds
<1>3. CallsInv'
  BY DEF CallsInv, CallInv, RowInv, WorkerInv, Delivering, Holds
<1>4. \A v \in Workers : WorkerInv(v)'
  BY DEF WorkerInv, Delivering, Holds, CallsInv, CallInv, RowInv
<1>5. TallyInv'
  BY DEF TallyInv, CallsInv, CallInv, WorkerInv, Delivering, Holds, RowInv
<1> QED BY <1>1, <1>2, <1>3, <1>4, <1>5

(* A broken connection closes the call and is remembered in `unheard`. *)
LEMMA DroppedInv ==
  ASSUME SendInv, NEW w \in Workers, Dropped(w)
  PROVE  SendInv'
<1> USE SendsAssumption DEF SendInv, TypeOK, Time, Rows, Statuses, Waiting, ErrorClasses, Phases, Attempts, NoJob,
        bffVars, workerVars, bridgeVars, tallyVars, Dropped, Refuse, Goto
<1>1. TypeOK'
  BY DEF WorkerInv, Delivering
<1>2. \A t \in Sends : RowInv(t)'
  BY DEF RowInv, Unlocked, WorkerInv, Delivering, Holds
<1>3. CallsInv'
  BY DEF CallsInv, CallInv, RowInv, WorkerInv, Delivering, Holds
<1>4. \A v \in Workers : WorkerInv(v)'
  BY DEF WorkerInv, Delivering, Holds, CallsInv, CallInv, RowInv
<1>5. TallyInv'
  BY DEF TallyInv, CallsInv, CallInv, WorkerInv, Delivering, Holds, RowInv
<1> QED BY <1>1, <1>2, <1>3, <1>4, <1>5

(* Only the holder of the row settles it. *)
LEMMA MarkSentInv ==
  ASSUME SendInv, NEW w \in Workers, MarkSent(w)
  PROVE  SendInv'
<1> USE SendsAssumption
    DEF SendInv, bffVars, workerVars, bridgeVars, tallyVars, MarkSent, StoreSent, Goto
<1>0. PICK s \in Sends : s = job[w][1]
  BY DEF TypeOK, WorkerInv, Delivering, Attempts
<1> DEFINE r == row[s]
           r1 == Sent(r)
<1>1. /\ row \in [Sends -> Rows]
      /\ now \in Time
      /\ s \in Sends
      /\ r \in Rows
      /\ r.status = "sending"
      /\ r.attempts = job[w][2]
      /\ job[w] = <<s, r.attempts>>
      /\ job[w] \in Attempts
      /\ job[w] \in posted
  BY <1>0 DEF TypeOK, WorkerInv, Delivering, Holds, Attempts
<1>2. /\ r1 \in Rows
      /\ r1.status = "sent"
      /\ r1.attempts = r.attempts
      /\ r1.waMessageId
      /\ Unlocked(r1)
  BY <1>1, SentRow
<1>3. /\ row' \in [Sends -> Rows]
      /\ row'[s] = r1
      /\ \A t \in Sends : t # s => row'[t] = row[t]
  BY <1>0, <1>1, <1>2, PutRow
<1>4. r.status \in Statuses /\ r.attempts \in 0..MaxAttempts
  BY <1>1, RowFields
<1>5. /\ decisions' \in [Sends -> Nat]
      /\ decisions'[s] = decisions[s]
      /\ \A t \in Sends : t # s => decisions'[t] = decisions[t]
  BY <1>0, <1>1 DEF TypeOK
<1> HIDE DEF r1
<1>6. TypeOK'
  <2>1. phase' \in [Workers -> Phases]
    BY DEF TypeOK, Phases
  <2> QED BY <2>1, <1>3, <1>5 DEF TypeOK
<1>7. \A t \in Sends : RowInv(t)'
  <2>1. RowInv(s)
    BY <1>1
  <2>2. RowInv(s)'
    BY <2>1, <1>1, <1>2, <1>3, <1>4, <1>5 DEF RowInv, Unlocked, Waiting
  <2>3. ASSUME NEW t \in Sends, t # s
        PROVE  RowInv(t)'
    BY <2>3, <1>3, <1>5 DEF RowInv, Unlocked
  <2> QED BY <2>2, <2>3
<1>8. CallsInv'
  <2> SUFFICES ASSUME NEW c \in (open \cup posted \cup unheard \cup failTally)'
               PROVE  CallInv(c)'
    BY DEF CallsInv
  <2>1. /\ CallInv(c)
        /\ c \in Attempts
        /\ c[1] \in Sends
        /\ c[2] \in Nat
        /\ c = <<c[1], c[2]>>
    BY DEF CallsInv, TypeOK, Attempts
  <2>2. CASE c[1] # s
    BY <2>1, <2>2, <1>3 DEF CallInv
  <2>3. CASE c[1] = s
    BY <2>1, <2>3, <1>0, <1>1, <1>2, <1>3, <1>4 DEF CallInv, RowInv, Waiting, ErrorClasses
  <2> QED BY <2>2, <2>3
<1>9. \A v \in Workers : WorkerInv(v)'
  BY <1>0, <1>1, <1>2, <1>3, <1>4
  DEF TypeOK, RowInv, WorkerInv, Delivering, Holds, CallsInv, CallInv, Attempts,
      Waiting, NoJob
<1>10. TallyInv'
  BY <1>0, <1>1, <1>2, <1>3, <1>4
  DEF TypeOK, RowInv, TallyInv, CallsInv, CallInv, Attempts, Waiting, WorkerInv, Delivering, Holds
<1> QED BY <1>6, <1>7, <1>8, <1>9, <1>10

(* The acknowledgement was stored and the worker did not learn of it. *)
LEMMA MarkSentUnheardInv ==
  ASSUME SendInv, NEW w \in Workers, MarkSentFails(w),
         StoreSent(w)
  PROVE  SendInv'
<1> USE SendsAssumption
    DEF SendInv, bffVars, workerVars, bridgeVars, tallyVars, MarkSentFails, StoreSent, Goto
<1>0. PICK s \in Sends : s = job[w][1]
  BY DEF TypeOK, WorkerInv, Delivering, Attempts
<1> DEFINE r == row[s]
           r1 == Sent(r)
<1>1. /\ row \in [Sends -> Rows]
      /\ now \in Time
      /\ s \in Sends
      /\ r \in Rows
      /\ r.status = "sending"
      /\ r.attempts = job[w][2]
      /\ job[w] = <<s, r.attempts>>
      /\ job[w] \in Attempts
      /\ job[w] \in posted
  BY <1>0 DEF TypeOK, WorkerInv, Delivering, Holds, Attempts
<1>2. /\ r1 \in Rows
      /\ r1.status = "sent"
      /\ r1.attempts = r.attempts
      /\ r1.waMessageId
      /\ Unlocked(r1)
  BY <1>1, SentRow
<1>3. /\ row' \in [Sends -> Rows]
      /\ row'[s] = r1
      /\ \A t \in Sends : t # s => row'[t] = row[t]
  BY <1>0, <1>1, <1>2, PutRow
<1>4. r.status \in Statuses /\ r.attempts \in 0..MaxAttempts
  BY <1>1, RowFields
<1>5. /\ decisions' \in [Sends -> Nat]
      /\ decisions'[s] = decisions[s]
      /\ \A t \in Sends : t # s => decisions'[t] = decisions[t]
  BY <1>0, <1>1 DEF TypeOK
<1> HIDE DEF r1
<1>6. TypeOK'
  <2>1. job' \in [Workers -> Attempts \cup {NoJob}]
    BY <1>1, <1>2 DEF TypeOK, Attempts
  <2>2. phase' \in [Workers -> Phases]
    BY DEF TypeOK, Phases
  <2> QED BY <2>1, <2>2, <1>3, <1>5 DEF TypeOK
<1>7. \A t \in Sends : RowInv(t)'
  <2>1. RowInv(s)
    BY <1>1
  <2>2. RowInv(s)'
    BY <2>1, <1>1, <1>2, <1>3, <1>4, <1>5 DEF RowInv, Unlocked, Waiting
  <2>3. ASSUME NEW t \in Sends, t # s
        PROVE  RowInv(t)'
    BY <2>3, <1>3, <1>5 DEF RowInv, Unlocked
  <2> QED BY <2>2, <2>3
<1>8. CallsInv'
  <2> SUFFICES ASSUME NEW c \in (open \cup posted \cup unheard \cup failTally)'
               PROVE  CallInv(c)'
    BY DEF CallsInv
  <2>1. /\ CallInv(c)
        /\ c \in Attempts
        /\ c[1] \in Sends
        /\ c[2] \in Nat
        /\ c = <<c[1], c[2]>>
    BY DEF CallsInv, TypeOK, Attempts
  <2>2. CASE c[1] # s
    BY <2>1, <2>2, <1>3 DEF CallInv
  <2>3. CASE c[1] = s
    BY <2>1, <2>3, <1>0, <1>1, <1>2, <1>3, <1>4 DEF CallInv, RowInv, Waiting, ErrorClasses
  <2> QED BY <2>2, <2>3
<1>9. ASSUME NEW v \in Workers PROVE WorkerInv(v)'
  <2>1. /\ WorkerInv(v) /\ job[v] \in Attempts \cup {NoJob}
        /\ open' = open /\ posted' = posted /\ unheard' = unheard
        /\ failTally' = failTally /\ verdict' = verdict
    BY DEF TypeOK
  <2>2. CASE v = w
    BY <2>2 DEF TypeOK, WorkerInv, Delivering
  <2>3. CASE v # w
    <3>1. phase'[v] = phase[v] /\ job'[v] = job[v]
      BY <2>3 DEF TypeOK
    <3>2. row[s].lockedBy = w
      BY <1>0 DEF Holds
    <3>3. ASSUME phase[v] \in Delivering \cup {"stored"}
          PROVE  row'[job[v][1]] = row[job[v][1]]
      <4>1. job[v][1] \in Sends
        BY <2>1, <3>3 DEF WorkerInv, Attempts
      <4>2. job[v][1] # s
        BY <1>1, <2>1, <2>3, <3>2, <3>3 DEF WorkerInv, Holds
      <4> QED BY <1>3, <4>1, <4>2
    <3> QED BY <2>1, <3>1, <3>3 DEF WorkerInv, Holds, Delivering
  <2> QED BY <2>2, <2>3
<1>10. TallyInv'
  BY <1>0, <1>1, <1>2, <1>3, <1>4
  DEF TypeOK, RowInv, TallyInv, CallsInv, CallInv, Attempts, Waiting, WorkerInv, Delivering, Holds
<1> QED BY <1>6, <1>7, <1>8, <1>9, <1>10

(* The acknowledgement may or may not have been stored. *)
LEMMA MarkSentFailsInv ==
  ASSUME SendInv, NEW w \in Workers, MarkSentFails(w)
  PROVE  SendInv'
<1>1. CASE StoreSent(w)
  BY <1>1, MarkSentUnheardInv
<1>2. CASE UNCHANGED row
  <2> USE SendsAssumption, <1>2 DEF SendInv, TypeOK, Time, Rows, Statuses, Waiting, ErrorClasses, Phases, Attempts, NoJob,
        bffVars, workerVars, bridgeVars, tallyVars, MarkSentFails, Goto
  <2>1. TypeOK'
    OBVIOUS
  <2>2. \A t \in Sends : RowInv(t)'
    BY DEF RowInv, Unlocked
  <2>3. CallsInv'
    BY DEF CallsInv, CallInv
  <2>4. \A v \in Workers : WorkerInv(v)'
    BY DEF WorkerInv, Delivering, Holds
  <2>5. TallyInv'
    BY DEF TallyInv
  <2> QED BY <2>1, <2>2, <2>3, <2>4, <2>5
<1> QED BY <1>1, <1>2 DEF MarkSentFails

(* A success is counted after its row says so. *)
LEMMA CountSentInv ==
  ASSUME SendInv, NEW w \in Workers, CountSent(w)
  PROVE  SendInv'
<1> USE SendsAssumption DEF SendInv, TypeOK, Time, Rows, Statuses, Waiting, ErrorClasses, Phases, Attempts, NoJob,
        bffVars, workerVars, bridgeVars, tallyVars, CountSent, Goto
<1>1. TypeOK'
  BY DEF WorkerInv, Delivering
<1>2. \A t \in Sends : RowInv(t)'
  BY DEF RowInv, Unlocked, WorkerInv, Delivering, Holds
<1>3. CallsInv'
  BY DEF CallsInv, CallInv, RowInv, WorkerInv, Delivering, Holds
<1>4. \A v \in Workers : WorkerInv(v)'
  BY DEF WorkerInv, Delivering, Holds, CallsInv, CallInv, RowInv
<1>5. TallyInv'
  BY DEF TallyInv, CallsInv, CallInv, WorkerInv, Delivering, Holds, RowInv
<1> QED BY <1>1, <1>2, <1>3, <1>4, <1>5

(* A failure is counted before its row says so. *)
LEMMA CountFailedInv ==
  ASSUME SendInv, NEW w \in Workers, CountFailed(w)
  PROVE  SendInv'
<1> USE SendsAssumption DEF SendInv, TypeOK, Time, Rows, Statuses, Waiting, ErrorClasses, Phases, Attempts, NoJob,
        bffVars, workerVars, bridgeVars, tallyVars, CountFailed, Goto
<1>1. TypeOK'
  BY DEF WorkerInv, Delivering
<1>2. \A t \in Sends : RowInv(t)'
  BY DEF RowInv, Unlocked, WorkerInv, Delivering, Holds
<1>3. CallsInv'
  BY DEF CallsInv, CallInv, RowInv, WorkerInv, Delivering, Holds
<1>4. \A v \in Workers : WorkerInv(v)'
  BY DEF WorkerInv, Delivering, Holds, CallsInv, CallInv, RowInv
<1>5. TallyInv'
  BY DEF TallyInv, CallsInv, CallInv, WorkerInv, Delivering, Holds, RowInv
<1> QED BY <1>1, <1>2, <1>3, <1>4, <1>5

(* The class recorded is true of the call. *)
LEMMA MarkFailedStoredInv ==
  ASSUME SendInv, NEW w \in Workers, MarkFailed(w),
         Put(job[w][1], Failed(row[job[w][1]], verdict[w]))
  PROVE  SendInv'
<1> USE SendsAssumption
    DEF SendInv, bffVars, workerVars, bridgeVars, tallyVars, MarkFailed, Goto
<1>0. PICK s \in Sends : s = job[w][1]
  BY DEF TypeOK, WorkerInv, Delivering, Attempts
<1> DEFINE r == row[s]
           r1 == Failed(r, verdict[w])
<1>1. /\ row \in [Sends -> Rows]
      /\ now \in Time
      /\ s \in Sends
      /\ r \in Rows
      /\ r.status = "sending"
      /\ r.attempts = job[w][2]
      /\ job[w] = <<s, r.attempts>>
      /\ job[w] \in Attempts
      /\ verdict[w] \in ErrorClasses
      /\ verdict[w] = "rejected" => job[w] \notin open /\ job[w] \notin posted \ unheard
  BY <1>0 DEF TypeOK, WorkerInv, Delivering, Holds, Attempts
<1>2. /\ r1 \in Rows
      /\ r1.status = "failed"
      /\ r1.attempts = r.attempts
      /\ r1.errorClass = verdict[w]
      /\ Unlocked(r1)
  BY <1>1, FailedRow
<1>3. /\ row' \in [Sends -> Rows]
      /\ row'[s] = r1
      /\ \A t \in Sends : t # s => row'[t] = row[t]
  BY <1>0, <1>1, <1>2, PutRow
<1>4. r.status \in Statuses /\ r.attempts \in 0..MaxAttempts
  BY <1>1, RowFields
<1>5. /\ decisions' \in [Sends -> Nat]
      /\ decisions'[s] = decisions[s]
      /\ \A t \in Sends : t # s => decisions'[t] = decisions[t]
  BY <1>0, <1>1 DEF TypeOK
<1> HIDE DEF r1
<1>6. TypeOK'
  <2>1. job' \in [Workers -> Attempts \cup {NoJob}]
    BY <1>1, <1>2 DEF TypeOK, Attempts
  <2>2. phase' \in [Workers -> Phases]
    BY DEF TypeOK, Phases
  <2>3. verdict' \in [Workers -> ErrorClasses \cup {None}]
    BY DEF TypeOK
  <2> QED BY <2>1, <2>2, <2>3, <1>3, <1>5 DEF TypeOK
<1>7. \A t \in Sends : RowInv(t)'
  <2>1. RowInv(s)
    BY <1>1
  <2>2. RowInv(s)'
    BY <2>1, <1>1, <1>2, <1>3, <1>4, <1>5 DEF RowInv, Unlocked, Waiting
  <2>3. ASSUME NEW t \in Sends, t # s
        PROVE  RowInv(t)'
    BY <2>3, <1>3, <1>5 DEF RowInv, Unlocked
  <2> QED BY <2>2, <2>3
<1>8. CallsInv'
  <2> SUFFICES ASSUME NEW c \in (open \cup posted \cup unheard \cup failTally)'
               PROVE  CallInv(c)'
    BY DEF CallsInv
  <2>1. /\ CallInv(c)
        /\ c \in Attempts
        /\ c[1] \in Sends
        /\ c[2] \in Nat
        /\ c = <<c[1], c[2]>>
    BY DEF CallsInv, TypeOK, Attempts
  <2>2. CASE c[1] # s
    BY <2>1, <2>2, <1>3 DEF CallInv
  <2>3. CASE c[1] = s
    BY <2>1, <2>3, <1>0, <1>1, <1>2, <1>3, <1>4 DEF CallInv, RowInv, Waiting, ErrorClasses
  <2> QED BY <2>2, <2>3
<1>9. \A v \in Workers : WorkerInv(v)'
  BY <1>0, <1>1, <1>2, <1>3, <1>4
  DEF TypeOK, RowInv, WorkerInv, Delivering, Holds, CallsInv, CallInv, Attempts,
      Waiting, NoJob
<1>10. TallyInv'
  BY <1>0, <1>1, <1>2, <1>3, <1>4
  DEF TypeOK, RowInv, TallyInv, CallsInv, CallInv, Attempts, Waiting, WorkerInv, Delivering, Holds
<1> QED BY <1>6, <1>7, <1>8, <1>9, <1>10

(* The failure may or may not have been stored. *)
LEMMA MarkFailedInv ==
  ASSUME SendInv, NEW w \in Workers, MarkFailed(w)
  PROVE  SendInv'
<1>1. CASE Put(job[w][1], Failed(row[job[w][1]], verdict[w]))
  BY <1>1, MarkFailedStoredInv
<1>2. CASE UNCHANGED row
  <2> USE SendsAssumption, <1>2 DEF SendInv, TypeOK, Time, Rows, Statuses, Waiting, ErrorClasses, Phases, Attempts, NoJob,
        bffVars, workerVars, bridgeVars, tallyVars, MarkFailed, Goto
  <2>1. TypeOK'
    OBVIOUS
  <2>2. \A t \in Sends : RowInv(t)'
    BY DEF RowInv, Unlocked
  <2>3. CallsInv'
    BY DEF CallsInv, CallInv
  <2>4. \A v \in Workers : WorkerInv(v)'
    BY DEF WorkerInv, Delivering, Holds
  <2>5. TallyInv'
    BY DEF TallyInv
  <2> QED BY <2>1, <2>2, <2>3, <2>4, <2>5
<1> QED BY <1>1, <1>2 DEF MarkFailed

(* A dead worker leaves its row locked. *)
LEMMA CrashInv ==
  ASSUME SendInv, NEW w \in Workers, Crash(w)
  PROVE  SendInv'
<1> USE SendsAssumption DEF SendInv, TypeOK, Time, Rows, Statuses, Waiting, ErrorClasses, Phases, Attempts, NoJob,
        bffVars, workerVars, bridgeVars, tallyVars, Crash
<1>1. TypeOK'
  BY DEF WorkerInv, Delivering
<1>2. \A t \in Sends : RowInv(t)'
  BY DEF RowInv, Unlocked, WorkerInv, Delivering, Holds
<1>3. CallsInv'
  BY DEF CallsInv, CallInv, RowInv, WorkerInv, Delivering, Holds
<1>4. \A v \in Workers : WorkerInv(v)'
  BY DEF WorkerInv, Delivering, Holds, CallsInv, CallInv, RowInv
<1>5. TallyInv'
  BY DEF TallyInv, CallsInv, CallInv, WorkerInv, Delivering, Holds, RowInv
<1> QED BY <1>1, <1>2, <1>3, <1>4, <1>5

(* Time alone changes nothing the invariant speaks of. *)
LEMMA TickInv ==
  ASSUME SendInv, Tick
  PROVE  SendInv'
<1> USE SendsAssumption DEF SendInv, TypeOK, Time, Rows, Statuses, Waiting, ErrorClasses, Phases, Attempts, NoJob,
        bffVars, workerVars, bridgeVars, tallyVars, Tick
<1>1. TypeOK'
  BY DEF WorkerInv, Delivering
<1>2. \A t \in Sends : RowInv(t)'
  BY DEF RowInv, Unlocked, WorkerInv, Delivering, Holds
<1>3. CallsInv'
  BY DEF CallsInv, CallInv, RowInv, WorkerInv, Delivering, Holds
<1>4. \A v \in Workers : WorkerInv(v)'
  BY DEF WorkerInv, Delivering, Holds, CallsInv, CallInv, RowInv
<1>5. TallyInv'
  BY DEF TallyInv, CallsInv, CallInv, WorkerInv, Delivering, Holds, RowInv
<1> QED BY <1>1, <1>2, <1>3, <1>4, <1>5

-----------------------------------------------------------------------------
(* Every step of the system preserves the invariant.                       *)
LEMMA NextInv ==
  ASSUME SendInv, [Next]_vars
  PROVE  SendInv'
<1>1. CASE Console
  <2>1. ASSUME NEW s \in Sends, CreateAutomatic(s)
        PROVE  SendInv'
    BY <2>1, CreateDecidedInv DEF CreateAutomatic, SendInv, TypeOK
  <2>2. ASSUME NEW s \in Sends, CreateReview(s)
        PROVE  SendInv'
    BY <2>2, CreatePendingInv DEF CreateReview
  <2> QED
    BY <1>1, <2>1, <2>2, CreatePendingInv, CreateDecidedInv, ApproveReadInv,
       ApproveCommitInv, ApproveAbandonInv, RejectInv, CancelInv DEF Console
<1>2. ASSUME NEW w \in Workers, Dispatcher(w)
      PROVE  SendInv'
  <2>1. CASE Deliver(w)
    BY <2>1, NotHandedOverInv, HandOverInv, AcknowledgedInv, NotConnectedInv,
       UnconfirmedInv, TimedOutInv, DroppedInv, MarkSentInv, MarkSentFailsInv,
       CountSentInv, CountFailedInv, MarkFailedInv DEF Deliver
  <2> QED
    BY <1>2, <2>1, StartInv, ClaimInv, ClaimUnacknowledgedInv, CrashInv
    DEF Dispatcher
<1>3. CASE \E c \in open : Post(c)
  BY <1>3, PostInv
<1>4. CASE Tick
  BY <1>4, TickInv
<1>5. CASE UNCHANGED vars
  BY <1>5
  DEF vars, bffVars, workerVars, bridgeVars, tallyVars, SendInv, TypeOK, RowInv,
      CallsInv, CallInv, WorkerInv, TallyInv, Holds
<1> QED BY <1>1, <1>2, <1>3, <1>4, <1>5 DEF Next

(* What every status says about the decisions, the lock and the calls made *)
(* so far is true in every reachable state, of every request, worker and   *)
(* approval handler (sends.ts and dispatch.go together).                   *)
THEOREM SendInvariant == Spec => []SendInv
<1>1. Init => SendInv
  BY InitInv
<1>2. SendInv /\ [Next]_vars => SendInv'
  BY NextInv
<1> QED BY <1>1, <1>2, PTL DEF Spec

(* Every delivery attempt was paid for by a decision of its own, recorded  *)
(* with its audit row: no claim, crash or stale lock retries a request.    *)
THEOREM SendsAreNotRetriedSilently == Spec => []NoSilentRetry
<1>1. SendInv => NoSilentRetry
  <2> SUFFICES ASSUME SendInv, NEW s \in Sends
               PROVE  row[s].attempts <= decisions[s]
    BY DEF NoSilentRetry
  <2>1. row[s] \in Rows /\ decisions[s] \in Nat /\ RowInv(s)
    BY DEF SendInv, TypeOK
  <2>2. row[s].attempts \in 0..MaxAttempts /\ row[s].status \in Statuses
    BY <2>1, RowFields
  <2> QED BY <2>1, <2>2, SendsAssumption DEF RowInv, Statuses
<1> QED BY <1>1, SendInvariant, PTL

(* Two attempts of one request reach WhatsApp only when the answer of the  *)
(* earlier one died with the bridge: every earlier call is settled.        *)
THEOREM SendsArePostedOnce == Spec => []NoDoublePost
<1>1. SendInv => NoDoublePost
  <2> SUFFICES ASSUME SendInv, NEW c \in posted, NEW d \in posted,
                      c[1] = d[1], c[2] < d[2], c \notin unheard
               PROVE  FALSE
    BY DEF NoDoublePost
  <2>1. /\ c \in Attempts /\ d \in Attempts
        /\ c[1] \in Sends /\ c[2] \in Nat /\ d[2] \in Nat
    BY SendsAssumption DEF SendInv, TypeOK, Attempts
  <2>2. c[2] = row[c[1]].attempts /\ d[2] <= row[c[1]].attempts
    BY DEF SendInv, CallsInv, CallInv
  <2> QED BY <2>1, <2>2
<1> QED BY <1>1, SendInvariant, PTL

(* What may still be approved, retried or claimed was not delivered by an  *)
(* attempt whose answer anybody could hear.                                *)
THEOREM DeliveredSendsStaySettled == Spec => []DeliveredIsNotOffered
<1>1. SendInv => DeliveredIsNotOffered
  BY DEF SendInv, CallsInv, CallInv, DeliveredIsNotOffered, Waiting,
         InitiallyApprovable, Retryable
<1> QED BY <1>1, SendInvariant, PTL

(* A request in a worker's hands is locked by that worker and the attempt  *)
(* it delivers is the latest: no second process delivers it.               *)
THEOREM ClaimsAreExclusive == Spec => []ClaimIsExclusive
<1>1. SendInv => ClaimIsExclusive
  BY DEF SendInv, WorkerInv, Delivering, ClaimIsExclusive
<1> QED BY <1>1, SendInvariant, PTL

(* No attempt is counted as both a success and a failure, and a counted    *)
(* success is one the row shows.                                           *)
THEOREM TalliesAreHonest == Spec => []TallyIsHonest
<1>1. SendInv => TallyIsHonest
  BY DEF SendInv, TallyInv, TallyIsHonest
<1> QED BY <1>1, SendInvariant, PTL

(* A rejected or cancelled request does not change and WhatsApp receives   *)
(* nothing more for it, even when the withdrawal raced a claim.            *)
THEOREM WithdrawalsAreFinal == Spec => WithdrawalIsFinal
<1>1. ASSUME SendInv, [Next]_vars, NEW s \in Sends,
             row[s].status \in {"rejected", "cancelled"}
      PROVE  row'[s] = row[s] /\ PostsOf(s)' = PostsOf(s)
  <2> USE <1>1 DEF SendInv, PostsOf, bffVars, workerVars, bridgeVars, tallyVars
  <2>1. row \in [Sends -> Rows]
    BY DEF TypeOK
  <2>2. ASSUME NEW t \in Sends, NEW r, Put(t, r),
               row[t].status \notin {"rejected", "cancelled"}
        PROVE  row'[s] = row[s]
    BY <1>1, <2>1, <2>2 DEF Put
  <2>3. CASE Console
    BY <1>1, <2>1, <2>2, <2>3
    DEF Console, CreatePending, CreateDecided, CreateAutomatic, CreateReview,
        ApproveRead, ApproveCommit, ApproveAbandon, Reject, Cancel, InitiallyApprovable,
        Retryable, Waiting
  <2>4. ASSUME NEW w \in Workers, Dispatcher(w)
        PROVE  row'[s] = row[s] /\ posted' = posted
    <3>1. ASSUME StoreSent(w), phase[w] = "acked"
          PROVE  row'[s] = row[s]
      BY <2>2, <3>1
      DEF StoreSent, Holds, WorkerInv, Delivering, TypeOK, Attempts
    <3>2. CASE MarkFailed(w)
      BY <2>2, <3>2
      DEF MarkFailed, Goto, Holds, WorkerInv, Delivering, TypeOK, Attempts
    <3>3. CASE MarkSent(w) \/ MarkSentFails(w)
      BY <3>1, <3>3 DEF MarkSent, MarkSentFails, Goto
    <3>4. CASE \E t \in Sends : Claim(w, t) \/ ClaimUnacknowledged(w, t)
      BY <2>2, <3>4
      DEF Claim, ClaimUnacknowledged, ClaimRow, Claimable, Waiting
    <3> QED
      BY <2>4, <3>2, <3>3, <3>4
      DEF Dispatcher, Deliver, Start, NotHandedOver, HandOver, Acknowledged,
          NotConnected, Unconfirmed, TimedOut, Dropped, CountSent, CountFailed,
          Crash
  <2>5. ASSUME NEW c \in open, Post(c)
        PROVE  row'[s] = row[s] /\ PostsOf(s)' = PostsOf(s)
    <3>1. c[1] # s
      BY <1>1 DEF CallsInv, CallInv
    <3> QED BY <2>5, <3>1 DEF Post
  <2>6. CASE Tick \/ UNCHANGED vars
    BY <2>6 DEF Tick, vars
  <2> QED BY <1>1, <2>3, <2>4, <2>5, <2>6 DEF Next
<1>2. SendInv /\ [Next]_vars =>
        [\A s \in Sends : row[s].status \in {"rejected", "cancelled"} =>
           row'[s] = row[s] /\ PostsOf(s)' = PostsOf(s)]_vars
  BY <1>1
<1> QED BY <1>2, SendInvariant, PTL DEF Spec, WithdrawalIsFinal

-----------------------------------------------------------------------------
(* The flow implements SendContract.                                       *)

stageOf == [s \in Sends |-> StageOf(row[s])]
offersOf == [s \in Sends |-> row[s].attempts]

(* What each status is to the contract.                                    *)
LEMMA Stages ==
  ASSUME NEW r \in Rows
  PROVE  /\ r.status = "absent" => StageOf(r) = "none"
         /\ r.status = "pending_approval" => StageOf(r) = "asked"
         /\ r.status \in Waiting => StageOf(r) = "granted"
         /\ r.status = "sending" => StageOf(r) = "offered"
         /\ r.status = "sent" => StageOf(r) = "delivered"
         /\ r.status \in {"rejected", "cancelled"} => StageOf(r) = "withdrawn"
         /\ (r.status = "failed" /\ r.errorClass = "ambiguous") => StageOf(r) = "unknown"
         /\ (r.status = "failed" /\ r.errorClass # "ambiguous") => StageOf(r) = "refused"
BY DEF StageOf, Waiting

(* Storing a document moves the contract's stage of that request alone.    *)
LEMMA PutStage ==
  ASSUME row \in [Sends -> Rows], NEW s \in Sends, NEW r \in Rows, Put(s, r)
  PROVE  /\ stageOf' = [stageOf EXCEPT ![s] = StageOf(r)]
         /\ offersOf' = [offersOf EXCEPT ![s] = r.attempts]
         /\ stageOf[s] = StageOf(row[s])
         /\ offersOf[s] = row[s].attempts
BY PutRow DEF stageOf, offersOf

(* Nothing but the clock, the reads and the counts changed.                *)
LEMMA NothingForTheContract ==
  ASSUME UNCHANGED <<row, decisions, posted, unheard>>
  PROVE  UNCHANGED Contract!vars
BY DEF Contract!vars

(* A document that is one step further is a move of the contract.          *)
LEMMA PutMoves ==
  ASSUME row \in [Sends -> Rows], NEW s \in Sends, NEW r \in Rows, Put(s, r),
         NEW from, StageOf(row[s]) \in from
  PROVE  /\ Contract!Move(s, from, StageOf(r))
         /\ r.attempts = row[s].attempts => offersOf' = offersOf
         /\ r.attempts = row[s].attempts + 1 =>
              offersOf' = [offersOf EXCEPT ![s] = @ + 1]
<1>1. /\ stageOf' = [stageOf EXCEPT ![s] = StageOf(r)]
      /\ offersOf' = [offersOf EXCEPT ![s] = r.attempts]
      /\ stageOf[s] = StageOf(row[s])
      /\ offersOf[s] = row[s].attempts
  BY PutStage
<1>2. Contract!Move(s, from, StageOf(r))
  BY <1>1 DEF Contract!Move, stageOf
<1>3. offersOf \in [Sends -> {row[t].attempts : t \in Sends}]
  BY DEF offersOf
<1> QED BY <1>1, <1>2, <1>3

(* What the console stores is an Ask, a Decide or a Withdraw.              *)
LEMMA ConsoleImplements ==
  ASSUME SendInv, Console
  PROVE  [Contract!Next]_(Contract!vars)
<1> USE DEF bffVars, workerVars, bridgeVars, tallyVars
<1>1. /\ row \in [Sends -> Rows] /\ now \in Time
      /\ \A s \in Sends : RowInv(s)
  BY DEF SendInv, TypeOK
<1>2. ASSUME NEW s \in Sends, CreatePending(s)
      PROVE  Contract!Ask(s)
  <2>1. /\ row[s] \in Rows /\ Requested \in Rows /\ Put(s, Requested)
        /\ Requested.attempts = 0 /\ row[s].attempts = 0
        /\ StageOf(row[s]) \in {"none"} /\ StageOf(Requested) = "asked"
    BY <1>1, <1>2, RequestedRow, Stages DEF CreatePending, RowInv
  <2>2. Contract!Move(s, {"none"}, "asked") /\ offersOf' = offersOf
    BY <1>1, <2>1, PutMoves
  <2> QED BY <1>2, <2>2 DEF CreatePending, Contract!Ask, offersOf
<1>3. ASSUME NEW s \in Sends, NEW due \in Time, CreateDecided(s, due)
      PROVE  Contract!Decide(s)
  <2>1. /\ row[s] \in Rows /\ Decided(due) \in Rows /\ Put(s, Decided(due))
        /\ Decided(due).attempts = 0 /\ row[s].attempts = 0
        /\ StageOf(row[s]) \in {"none", "asked", "refused"}
        /\ StageOf(Decided(due)) = "granted"
    BY <1>1, <1>3, DecidedRow, Stages DEF CreateDecided, RowInv
  <2>2. /\ Contract!Move(s, {"none", "asked", "refused"}, "granted")
        /\ offersOf' = offersOf
    BY <1>1, <2>1, PutMoves
  <2> QED BY <1>3, <2>2 DEF CreateDecided, Contract!Decide, offersOf
<1>4. ASSUME NEW h \in Approvers, ApproveCommit(h)
      PROVE  \E s \in Sends : Contract!Decide(s)
  <2> DEFINE a == approver[h]
             s == a.send
             r1 == Approved(row[s], a)
  <2>1. /\ s \in Sends /\ row[s] \in Rows
        /\ a.status \in Waiting /\ a.due \in Time
    BY <1>1, <1>4 DEF ApproveCommit, SendInv, TypeOK
  <2>2. StageOf(row[s]) \in {"none", "asked", "refused"}
    BY <1>4, <2>1, Stages DEF ApproveCommit, InitiallyApprovable, Retryable
  <2>3. /\ r1 \in Rows /\ Put(s, r1) /\ r1.attempts = row[s].attempts
        /\ StageOf(r1) = "granted"
    BY <1>4, <2>1, ApprovedRow, Stages DEF ApproveCommit
  <2>4. /\ Contract!Move(s, {"none", "asked", "refused"}, "granted")
        /\ offersOf' = offersOf
    BY <1>1, <2>1, <2>2, <2>3, PutMoves
  <2>5. Contract!Decide(s)
    BY <1>4, <2>4 DEF ApproveCommit, Contract!Decide, offersOf
  <2> QED BY <2>1, <2>5
<1>5. ASSUME NEW s \in Sends, Reject(s)
      PROVE  Contract!Withdraw(s)
  <2>1. /\ row[s] \in Rows /\ Rejected(row[s]) \in Rows /\ Put(s, Rejected(row[s]))
        /\ Rejected(row[s]).attempts = row[s].attempts
        /\ StageOf(row[s]) \in {"asked", "granted"}
        /\ StageOf(Rejected(row[s])) = "withdrawn"
    BY <1>1, <1>5, RejectedRow, Stages DEF Reject
  <2>2. /\ Contract!Move(s, {"asked", "granted"}, "withdrawn")
        /\ offersOf' = offersOf
    BY <1>1, <2>1, PutMoves
  <2> QED BY <1>5, <2>2 DEF Reject, Contract!Withdraw, offersOf
<1>6. ASSUME NEW s \in Sends, Cancel(s)
      PROVE  Contract!Withdraw(s)
  <2>1. /\ row[s] \in Rows /\ Cancelled(row[s]) \in Rows /\ Put(s, Cancelled(row[s]))
        /\ Cancelled(row[s]).attempts = row[s].attempts
        /\ StageOf(row[s]) \in {"asked", "granted"}
        /\ StageOf(Cancelled(row[s])) = "withdrawn"
    BY <1>1, <1>6, CancelledRow, Stages DEF Cancel
  <2>2. /\ Contract!Move(s, {"asked", "granted"}, "withdrawn")
        /\ offersOf' = offersOf
    BY <1>1, <2>1, PutMoves
  <2> QED BY <1>6, <2>2 DEF Cancel, Contract!Withdraw, offersOf
<1>7. ASSUME NEW h \in Approvers,
             ApproveAbandon(h) \/ \E s \in Sends, due \in Time : ApproveRead(h, s, due)
      PROVE  UNCHANGED Contract!vars
  BY <1>7, NothingForTheContract DEF ApproveAbandon, ApproveRead
<1> QED
  BY <1>1, <1>2, <1>3, <1>4, <1>5, <1>6, <1>7
  DEF Console, CreateReview, CreateAutomatic, Contract!Next

(* What the dispatcher does with a request is an offer and its outcome.    *)
LEMMA DispatcherImplements ==
  ASSUME SendInv, NEW w \in Workers, Dispatcher(w)
  PROVE  [Contract!Next]_(Contract!vars)
<1> USE DEF bffVars, workerVars, bridgeVars, tallyVars
<1> DEFINE c == job[w]
           s == c[1]
<1>1. row \in [Sends -> Rows] /\ now \in Time
  BY DEF SendInv, TypeOK
<1>2. WorkerInv(w) /\ c \in Attempts \cup {NoJob}
  BY DEF SendInv, TypeOK
<1>3. ASSUME phase[w] \in Delivering
      PROVE  /\ s \in Sends /\ row[s] \in Rows
             /\ StageOf(row[s]) = "offered"
             /\ c = <<s, row[s].attempts>>
             /\ stageOf[s] = "offered" /\ offersOf[s] = row[s].attempts
  <2>1. c \in Attempts /\ Holds(w, s) /\ row[s].attempts = c[2]
    BY <1>2, <1>3 DEF WorkerInv
  <2>2. s \in Sends /\ c = <<c[1], c[2]>>
    BY <2>1 DEF Attempts
  <2> QED BY <1>1, <2>1, <2>2, Stages DEF Holds, stageOf, offersOf
<1>4. ASSUME NEW t \in Sends, ClaimRow(w, t),
             UNCHANGED <<decisions, posted, unheard>>
      PROVE  Contract!MakeOffer(t)
  <2>1. /\ row[t] \in Rows /\ row[t].attempts < MaxAttempts
        /\ row[t].status \in Waiting
    BY <1>1, <1>4 DEF ClaimRow, Claimable
  <2>2. /\ Claimed(row[t], w) \in Rows
        /\ StageOf(Claimed(row[t], w)) = "offered"
        /\ Claimed(row[t], w).attempts = row[t].attempts + 1
    BY <1>1, <2>1, ClaimedRow, Stages
  <2>3. StageOf(row[t]) \in {"granted"} /\ Put(t, Claimed(row[t], w))
    BY <1>4, <2>1, Stages DEF ClaimRow
  <2>4. /\ Contract!Move(t, {"granted"}, "offered")
        /\ offersOf' = [offersOf EXCEPT ![t] = @ + 1]
    BY <1>1, <2>1, <2>2, <2>3, PutMoves
  <2> QED BY <1>4, <2>4 DEF Contract!MakeOffer, offersOf
<1>5. ASSUME StoreSent(w), phase[w] = "acked",
             UNCHANGED <<decisions, posted, unheard>>
      PROVE  \E t \in Sends : Contract!Confirm(t)
  <2>1. s \in Sends /\ row[s] \in Rows /\ c = <<s, row[s].attempts>> /\ c \in posted
    BY <1>2, <1>3, <1>5 DEF WorkerInv, Delivering
  <2>2. StageOf(row[s]) = "offered"
    BY <1>3, <1>5 DEF Delivering
  <2>3. /\ Sent(row[s]) \in Rows /\ StageOf(Sent(row[s])) = "delivered"
        /\ Sent(row[s]).attempts = row[s].attempts /\ Put(s, Sent(row[s]))
    BY <1>5, <2>1, SentRow, Stages DEF StoreSent
  <2>4. Contract!Move(s, {"offered"}, "delivered") /\ offersOf' = offersOf
    BY <1>1, <2>1, <2>2, <2>3, PutMoves
  <2>5. Contract!Confirm(s)
    BY <1>5, <2>1, <2>4 DEF Contract!Confirm, Contract!Offer, offersOf
  <2> QED BY <2>1, <2>5
<1>6. ASSUME MarkFailed(w), row' # row
      PROVE  \E t \in Sends : Contract!RefuseOffer(t) \/ Contract!LoseTrack(t)
  <2> DEFINE r1 == Failed(row[s], verdict[w])
  <2>1. /\ s \in Sends /\ row[s] \in Rows /\ c = <<s, row[s].attempts>>
        /\ StageOf(row[s]) = "offered"
    BY <1>3, <1>6 DEF MarkFailed, Goto, Delivering
  <2>2. /\ verdict[w] \in ErrorClasses
        /\ verdict[w] = "rejected" => c \notin posted \ unheard
    BY <1>2, <1>6 DEF MarkFailed, Goto, WorkerInv
  <2>3. Put(s, r1) /\ UNCHANGED <<decisions, posted, unheard>>
    BY <1>6 DEF MarkFailed
  <2>4. /\ r1 \in Rows /\ r1.status = "failed" /\ r1.attempts = row[s].attempts
        /\ r1.errorClass = verdict[w]
    BY <2>1, <2>2, FailedRow
  <2>5. Contract!Move(s, {"offered"}, StageOf(r1)) /\ offersOf' = offersOf
    BY <1>1, <2>1, <2>3, <2>4, PutMoves
  <2>6. CASE verdict[w] = "ambiguous"
    <3>1. StageOf(r1) = "unknown"
      BY <2>4, <2>6, Stages
    <3> QED BY <2>1, <2>3, <2>5, <3>1 DEF Contract!LoseTrack, offersOf
  <2>7. CASE verdict[w] = "rejected"
    <3>1. StageOf(r1) = "refused"
      BY <2>4, <2>7, Stages
    <3> QED
      BY <2>1, <2>2, <2>3, <2>5, <2>7, <3>1
      DEF Contract!RefuseOffer, Contract!Offer, offersOf
  <2> QED BY <2>1, <2>2, <2>6, <2>7 DEF ErrorClasses
<1>7. ASSUME Dropped(w)
      PROVE  \E t \in Sends : Contract!LoseAnswer(t)
  <2>1. s \in Sends /\ stageOf[s] = "offered" /\ c = <<s, offersOf[s]>>
    BY <1>3, <1>7 DEF Dropped, Refuse, Goto, Delivering
  <2>2. Contract!LoseAnswer(s)
    BY <1>7, <2>1 DEF Dropped, Contract!LoseAnswer, Contract!Offer, stageOf, offersOf
  <2> QED BY <2>1, <2>2
<1>8. CASE UNCHANGED <<row, decisions, posted, unheard>>
  BY <1>8, NothingForTheContract
<1>9. CASE \E t \in Sends : Claim(w, t) \/ ClaimUnacknowledged(w, t)
  BY <1>4, <1>9 DEF Claim, ClaimUnacknowledged, Contract!Next
<1>10. CASE MarkSent(w) \/ MarkSentFails(w)
  <2>1. phase[w] = "acked" /\ UNCHANGED <<decisions, posted, unheard>>
    BY <1>10 DEF MarkSent, MarkSentFails, Goto
  <2>2. StoreSent(w) \/ UNCHANGED row
    BY <1>10 DEF MarkSent, MarkSentFails
  <2> QED BY <1>5, <1>8, <2>1, <2>2 DEF Contract!Next
<1>11. CASE MarkFailed(w)
  <2>1. UNCHANGED <<decisions, posted, unheard>>
    BY <1>11 DEF MarkFailed
  <2> QED BY <1>6, <1>8, <1>11, <2>1 DEF Contract!Next
<1>12. CASE Dropped(w)
  BY <1>7, <1>12 DEF Contract!Next
<1> QED
  BY <1>8, <1>9, <1>10, <1>11, <1>12
  DEF Dispatcher, Deliver, Start, NotHandedOver, HandOver, Acknowledged,
      NotConnected, Unconfirmed, TimedOut, CountSent, CountFailed, Crash, Refuse

(* A message WhatsApp takes, however late, was offered and not given up    *)
(* for refused.                                                            *)
LEMMA PostImplements ==
  ASSUME SendInv, NEW c \in open, Post(c)
  PROVE  [Contract!Next]_(Contract!vars)
<1> DEFINE s == c[1]
<1>1. /\ row \in [Sends -> Rows]
      /\ s \in Sends /\ c = <<c[1], c[2]>>
  BY DEF SendInv, TypeOK, Attempts
<1>2. /\ c \notin posted /\ c[2] = row[s].attempts
      /\ \/ row[s].status = "sending"
         \/ row[s].status = "failed" /\ row[s].errorClass = "ambiguous"
  BY DEF SendInv, CallsInv, CallInv
<1>3. stageOf[s] \in {"offered", "unknown"} /\ c = <<s, offersOf[s]>>
  BY <1>1, <1>2, Stages DEF stageOf, offersOf
<1>4. Contract!Arrive(s)
  BY <1>2, <1>3
  DEF Post, Contract!Arrive, Contract!Offer, stageOf, offersOf,
      bffVars, workerVars, tallyVars
<1> QED BY <1>1, <1>4 DEF Contract!Next

(* The two programs together, with their crashes, stale locks, lost        *)
(* acknowledgements and retries, promise the owner what SendContract says: *)
(* every step is one of its steps or none.                                 *)
THEOREM FlowImplementsContract == Spec => ImplementsContract
<1>1. Init => Contract!Init
  BY AbsentRow, Stages DEF Init, Contract!Init
<1>2. SendInv /\ [Next]_vars => [Contract!Next]_(Contract!vars)
  <2> SUFFICES ASSUME SendInv, [Next]_vars
               PROVE  [Contract!Next]_(Contract!vars)
    OBVIOUS
  <2>1. CASE Tick \/ UNCHANGED vars
    BY <2>1, NothingForTheContract
    DEF Tick, vars, bffVars, bridgeVars
  <2> QED
    BY <2>1, ConsoleImplements, DispatcherImplements, PostImplements DEF Next
<1> QED BY <1>1, <1>2, SendInvariant, PTL DEF Spec, ImplementsContract, Contract!Spec
=============================================================================
