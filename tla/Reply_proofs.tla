---------------------------- MODULE Reply_proofs ----------------------------
(***************************************************************************)
(* Proofs about ReplyRuns, for any number of messages and callbacks, any   *)
(* attempt limit, lease, backoffs and clock bound; and about ReplyTools,   *)
(* for any calls, groups, sizes, reserves and tables.                      *)
(***************************************************************************)
EXTENDS ReplyRuns, ReplyTools, FiniteSetTheorems, SequenceTheorems, TLAPS

(* Where a callback has claimed its run, or has done with it.              *)
Working == {"claimed", "recalling", "generating", "closing", "settling"}

(* A run: what its state says of its lease, its attempts and its send.     *)
RunInv(m) ==
  LET r == run[m] IN
  /\ r.state = "processing" =>
       r.holder \in Callbacks /\ r.expires \in Nat /\ r.attempts > 0
  /\ r.state = "absent" => r.attempts = 0
  /\ r.state = "failed" => r.attempts < MaxAttempts /\ r.next # None
  /\ send[m] # Unsent <=> r.state = "complete"
  /\ send[m] # Unsent => send[m].attempt = r.attempts
  /\ calls[m] <= r.attempts

(* A callback that holds a lease made the run's last claim, and has not    *)
(* called the model for it before its second renewal.                      *)
HolderInv(c) ==
  LET m == about[c]
      r == run[m]
  IN m \in Messages /\ r.state = "processing" /\ r.holder = c =>
       /\ try[c] = r.attempts
       /\ at[c] \in Working \cup {"done", "dead"}
       /\ at[c] \in {"claimed", "recalling"} => calls[m] < r.attempts

CallbackInv(c) ==
  /\ at[c] # "ready" => about[c] \in Messages
  /\ \A m \in Messages : run[m].state = "processing" /\ run[m].holder = c => about[c] = m
  /\ at[c] = "closing" => plan[c] \in Plans
  /\ HolderInv(c)

IInv ==
  /\ TypeOK
  /\ \A m \in Messages : RunInv(m)
  /\ \A c \in Callbacks : CallbackInv(c)

LEMMA InitInv == Init => IInv
<1> SUFFICES ASSUME Init PROVE IInv
  OBVIOUS
<1> USE RepliesAssumption DEF Init
<1>1. TypeOK
  BY DEF TypeOK, Time, Runs, States, Kinds, Unsent, Places, Plans
<1> QED BY <1>1 DEF IInv, RunInv, CallbackInv, HolderInv, Unsent

(* A callback that moves on, with nothing of its run or another's changed. *)
LEMMA MoveKeeps ==
  ASSUME IInv, NEW c \in Callbacks, NEW place \in Places, at[c] # "ready",
         at' = [at EXCEPT ![c] = place],
         place \in {"claimed", "recalling"} => at[c] = "claimed",
         place \in Working \cup {"done", "dead"} \/ at[c] \notin Working \cup {"done", "dead"},
         plan' \in [Callbacks -> Plans \cup {None}],
         \A d \in Callbacks : d # c => plan'[d] = plan[d],
         place = "closing" => plan'[c] \in Plans,
         since' \in [Callbacks -> Time],
         UNCHANGED <<now, run, send, calls, about, try>>
  PROVE  IInv'
<1>0. at \in [Callbacks -> Places]
  BY DEF IInv, TypeOK
<1>1. TypeOK'
  BY <1>0 DEF IInv, TypeOK
<1>2. \A m \in Messages : RunInv(m)'
  BY DEF IInv, RunInv
<1>3. \A d \in Callbacks : CallbackInv(d)'
  BY <1>0 DEF IInv, CallbackInv, HolderInv, Working
<1> QED BY <1>1, <1>2, <1>3 DEF IInv

(* A claim.                                                                *)
LEMMA TakeKeeps ==
  ASSUME IInv, NEW c \in Callbacks, NEW from \in {"insert", "reclaim", "retry"}, Take(c, from),
         run[about[c]].attempts < MaxAttempts, run[about[c]].state # "complete"
  PROVE  IInv'
<1> DEFINE m == about[c]
<1> USE DEF Take, Goto
<1>0. /\ run \in [Messages -> Runs] /\ at \in [Callbacks -> Places]
      /\ since \in [Callbacks -> Time] /\ try \in [Callbacks -> 0..MaxAttempts]
      /\ m \in Messages /\ at[c] = from
      /\ run[m] \in Runs /\ run[m].attempts \in 0..MaxAttempts
      /\ calls[m] \in Nat /\ calls[m] <= run[m].attempts
      /\ send[m] = Unsent
      /\ RepliesAssumption
  BY RepliesAssumption DEF IInv, TypeOK, CallbackInv, RunInv, Runs
<1>1. /\ run' \in [Messages -> Runs]
      /\ run'[m].state = "processing" /\ run'[m].holder = c
      /\ run'[m].attempts = run[m].attempts + 1
      /\ run'[m].expires \in Nat
      /\ \A n \in Messages : n # m => run'[n] = run[n]
  <2>1. run[m].attempts + 1 \in 0..MaxAttempts /\ since[c] + Lease \in Nat
    BY <1>0 DEF RepliesAssumption, Time
  <2>2. Taken(run[m], c) \in Runs
    BY <1>0, <2>1 DEF Taken, Runs, States
  <2>3. run' = [run EXCEPT ![m] = Taken(run[m], c)]
    OBVIOUS
  <2> QED BY <1>0, <2>1, <2>2, <2>3 DEF Taken, Runs
<1>2. /\ at' \in [Callbacks -> Places] /\ at'[c] = "claimed"
      /\ \A d \in Callbacks : d # c => at'[d] = at[d]
      /\ try' \in [Callbacks -> 0..MaxAttempts] /\ try'[c] = run[m].attempts + 1
      /\ \A d \in Callbacks : d # c => try'[d] = try[d]
  BY <1>0 DEF Places, RepliesAssumption
<1>3. TypeOK'
  BY <1>1, <1>2 DEF IInv, TypeOK
<1>4. \A n \in Messages : RunInv(n)'
  BY <1>0, <1>1 DEF IInv, RunInv
<1>5. \A d \in Callbacks : CallbackInv(d)'
  BY <1>0, <1>1, <1>2 DEF IInv, CallbackInv, HolderInv, Working
<1> QED BY <1>3, <1>4, <1>5 DEF IInv

(* The end of a run, or of an attempt, by its holder or by a claim that    *)
(* found it exhausted.                                                     *)
LEMMA EndKeeps ==
  ASSUME IInv, NEW c \in Callbacks, at[c] # "ready",
         NEW place \in {"done", "settling"}, at' = [at EXCEPT ![c] = place],
         place = "settling" => at[c] = "closing",
         NEW r \in Runs, run' = [run EXCEPT ![about[c]] = r],
         run[about[c]].state # "complete",
         r.attempts = run[about[c]].attempts,
         \/ r.state = "dead" /\ UNCHANGED send
         \/ /\ r.state = "failed" /\ UNCHANGED send
            /\ r.attempts < MaxAttempts /\ r.next # None
         \/ /\ r.state = "complete"
            /\ \E form \in Kinds :
                 send' = [send EXCEPT ![about[c]] = [kind |-> form, attempt |-> r.attempts]],
         UNCHANGED <<now, calls, about, since, try, plan>>
  PROVE  IInv'
<1> DEFINE m == about[c]
<1>0. /\ run \in [Messages -> Runs] /\ at \in [Callbacks -> Places]
      /\ m \in Messages /\ send[m] = Unsent
  BY DEF IInv, TypeOK, CallbackInv, RunInv
<1>1. /\ run' \in [Messages -> Runs] /\ run'[m] = r
      /\ \A n \in Messages : n # m => run'[n] = run[n]
      /\ at' \in [Callbacks -> Places] /\ at'[c] = place
      /\ \A d \in Callbacks : d # c => at'[d] = at[d]
  BY <1>0 DEF Places
<1>2. /\ send' \in [Messages -> [kind : Kinds \cup {"none"}, attempt : 0..MaxAttempts]]
      /\ \A n \in Messages : n # m => send'[n] = send[n]
      /\ send'[m] # Unsent <=> r.state = "complete"
      /\ send'[m] # Unsent => send'[m].attempt = r.attempts
  <2> DEFINE Sends == [kind : Kinds \cup {"none"}, attempt : 0..MaxAttempts]
  <2>1. send \in [Messages -> Sends] /\ r.attempts \in 0..MaxAttempts
    BY DEF IInv, TypeOK, Runs
  <2>2. CASE r.state = "complete"
    <3>1. PICK form \in Kinds :
            send' = [send EXCEPT ![m] = [kind |-> form, attempt |-> r.attempts]]
      BY <2>2
    <3>2. /\ [kind |-> form, attempt |-> r.attempts] \in Sends
          /\ [kind |-> form, attempt |-> r.attempts] # Unsent
      BY <2>1 DEF Kinds, Unsent
    <3> QED BY <1>0, <2>1, <2>2, <3>1, <3>2
  <2>3. CASE r.state # "complete"
    BY <1>0, <2>1, <2>3
  <2> QED BY <2>2, <2>3
<1>3. TypeOK'
  BY <1>1, <1>2 DEF IInv, TypeOK
<1>4. \A n \in Messages : RunInv(n)'
  BY <1>0, <1>1, <1>2 DEF IInv, RunInv
<1>5. \A d \in Callbacks : CallbackInv(d)'
  BY <1>0, <1>1 DEF IInv, CallbackInv, HolderInv, Working
<1> QED BY <1>3, <1>4, <1>5 DEF IInv

(* A renewal moves the lease's end only; the second one is followed by a   *)
(* call of the model.                                                      *)
LEMMA RenewKeeps ==
  ASSUME IInv, NEW c \in Callbacks, RenewForRecall(c) \/ RenewForModel(c) \/ Heartbeat(c)
  PROVE  IInv'
<1> DEFINE m == about[c]
<1> USE DEF Goto
<1>0. /\ run \in [Messages -> Runs] /\ at \in [Callbacks -> Places]
      /\ calls \in [Messages -> Nat] /\ plan \in [Callbacks -> Plans \cup {None}]
      /\ since \in [Callbacks -> Time]
      /\ m \in Messages /\ now + Lease \in Nat
      /\ at[c] \in {"claimed", "recalling", "generating"}
      /\ run[m].attempts \in Nat
  BY RepliesAssumption
  DEF IInv, TypeOK, CallbackInv, Time, Runs, RenewForRecall, RenewForModel, Heartbeat, Renew
<1>1. CASE ~Holds(c)
  <2>1. at' = [at EXCEPT ![c] = "done"] /\ UNCHANGED <<now, run, send, calls, about, since, try, plan>>
    BY <1>1 DEF RenewForRecall, RenewForModel, Heartbeat, Renew
  <2> QED BY <1>0, <2>1, MoveKeeps DEF Places, Working
<1>2. CASE Holds(c)
  <2>1. /\ run' = [run EXCEPT ![m].expires = now + Lease]
        /\ UNCHANGED <<now, send, about, since, try, plan>>
        /\ \/ at[c] = "claimed" /\ at' = [at EXCEPT ![c] = "recalling"] /\ UNCHANGED calls
           \/ /\ at[c] = "recalling" /\ at' = [at EXCEPT ![c] = "generating"]
              /\ calls' = [calls EXCEPT ![m] = @ + 1]
           \/ at[c] = "generating" /\ at' = [at EXCEPT ![c] = "generating"] /\ UNCHANGED calls
    BY <1>2 DEF RenewForRecall, RenewForModel, Heartbeat, Renew, Extend
  <2>2. /\ run' \in [Messages -> Runs]
        /\ \A n \in Messages : n # m => run'[n] = run[n]
        /\ run'[m].state = run[m].state /\ run'[m].holder = run[m].holder
        /\ run'[m].attempts = run[m].attempts /\ run'[m].expires \in Nat
        /\ run[m].state = "processing" /\ run[m].holder = c
    BY <1>0, <1>2, <2>1 DEF Runs, Holds
  <2>3. /\ at' \in [Callbacks -> Places] /\ at'[c] \in {"recalling", "generating"}
        /\ \A d \in Callbacks : d # c => at'[d] = at[d]
        /\ calls' \in [Messages -> Nat]
        /\ \A n \in Messages : n # m => calls'[n] = calls[n]
        /\ at'[c] = "recalling" => at[c] = "claimed" /\ calls'[m] = calls[m]
        /\ calls'[m] = calls[m] \/ (calls'[m] = calls[m] + 1 /\ at[c] = "recalling")
    BY <1>0, <2>1 DEF Places
  <2>4. TypeOK'
    BY <2>1, <2>2, <2>3 DEF IInv, TypeOK
  <2>5. \A n \in Messages : RunInv(n)'
    BY <1>0, <2>1, <2>2, <2>3 DEF IInv, TypeOK, RunInv, CallbackInv, HolderInv
  <2>6. \A d \in Callbacks : CallbackInv(d)'
    BY <1>0, <2>1, <2>2, <2>3 DEF IInv, CallbackInv, HolderInv, Working
  <2> QED BY <2>4, <2>5, <2>6 DEF IInv
<1> QED BY <1>1, <1>2

(* An attempt that failed is recorded under its own live lease.            *)
LEMMA FailKeeps ==
  ASSUME IInv, NEW c \in Callbacks, NEW terminal \in BOOLEAN, FailRun(c, terminal),
         at[c] \in {"closing", "settling"}, at' = [at EXCEPT ![c] = "done"],
         UNCHANGED <<now, send, calls, about, since, try, plan>>
  PROVE  IInv'
<1> DEFINE m == about[c]
<1>0. /\ run \in [Messages -> Runs] /\ m \in Messages /\ run[m] \in Runs
      /\ plan \in [Callbacks -> Plans \cup {None}] /\ since \in [Callbacks -> Time]
      /\ now \in Nat
  BY RepliesAssumption DEF IInv, TypeOK, CallbackInv, Time
<1>1. CASE ~Holds(c)
  BY <1>0, <1>1, MoveKeeps DEF FailRun, Places, Working
<1>2. CASE Holds(c)
  <2>1. try[c] = run[m].attempts /\ run[m].state = "processing"
    BY <1>0, <1>2 DEF Holds, IInv, CallbackInv, HolderInv
  <2>2. CASE terminal \/ try[c] >= MaxAttempts
    <3>1. /\ Closed(run[m], "dead") \in Runs /\ Closed(run[m], "dead").state = "dead"
          /\ Closed(run[m], "dead").attempts = run[m].attempts
      BY <1>0 DEF Closed, Runs, States
    <3>2. run' = [run EXCEPT ![m] = Closed(run[m], "dead")]
      BY <1>2, <2>2 DEF FailRun
    <3> QED BY <2>1, <3>1, <3>2, EndKeeps
  <2>3. CASE ~(terminal \/ try[c] >= MaxAttempts)
    <3>1. PICK d \in Delays : run' = [run EXCEPT ![m] = Failed(run[m], now + d)]
      BY <1>2, <2>3 DEF FailRun
    <3>2. now + d \in Nat /\ now + d # None
      BY <1>0, RepliesAssumption
    <3>3. /\ Failed(run[m], now + d) \in Runs /\ Failed(run[m], now + d).state = "failed"
          /\ Failed(run[m], now + d).attempts = run[m].attempts
          /\ Failed(run[m], now + d).next = now + d
      BY <1>0, <3>2 DEF Failed, Runs, States
    <3>4. run[m].attempts < MaxAttempts
      BY <1>0, <2>1, <2>3, RepliesAssumption DEF Runs
    <3> QED BY <2>1, <3>1, <3>2, <3>3, <3>4, EndKeeps
  <2> QED BY <2>2, <2>3
<1> QED BY <1>1, <1>2

(* The close: the run and its send, by the holder of a live lease.         *)
LEMMA CloseKeeps ==
  ASSUME IInv, NEW c \in Callbacks, Close(c)
  PROVE  IInv'
<1> DEFINE m == about[c]
           r == Closed(run[m], "complete")
<1>1. /\ run \in [Messages -> Runs] /\ m \in Messages /\ run[m] \in Runs
      /\ run[m].state = "processing" /\ try[c] = run[m].attempts
      /\ at[c] = "closing" /\ plan[c] \in Kinds
  BY DEF Close, Goto, Holds, IInv, TypeOK, CallbackInv, HolderInv
<1>2. r \in Runs /\ r.state = "complete" /\ r.attempts = run[m].attempts
  BY <1>1 DEF Closed, Runs, States
<1>3. PICK place \in {"done", "settling"} : at' = [at EXCEPT ![c] = place]
  BY DEF Close, Goto
<1>4. /\ run' = [run EXCEPT ![m] = r]
      /\ send' = [send EXCEPT ![m] = [kind |-> plan[c], attempt |-> r.attempts]]
      /\ UNCHANGED <<now, calls, about, since, try, plan>>
  BY <1>1, <1>2 DEF Close
<1> QED BY <1>1, <1>2, <1>3, <1>4, EndKeeps

LEMMA ClaimKeeps ==
  ASSUME IInv, NEW c \in Callbacks, Claim(c)
  PROVE  IInv'
<1> DEFINE m == about[c]
<1> USE DEF Goto
<1>0. /\ run \in [Messages -> Runs] /\ at[c] # "ready" /\ m \in Messages /\ run[m] \in Runs
      /\ plan \in [Callbacks -> Plans \cup {None}] /\ since \in [Callbacks -> Time]
      /\ now \in Time
      /\ MaxAttempts > 0 /\ MaxAttempts \in Nat
      /\ run[m].state = "absent" => run[m].attempts = 0
      /\ send[m] # Unsent <=> run[m].state = "complete"
  BY RepliesAssumption
  DEF Claim, Begin, Insert, Reclaim, Exhaust, Retry, Look, Pass, IInv, TypeOK, CallbackInv, RunInv
<1>1. CASE Begin(c)
  BY <1>0, <1>1, MoveKeeps DEF Begin, Reconcile, Places, Working
<1>2. ASSUME NEW from \in {"insert", "reclaim", "exhaust", "retry", "look"}, NEW to \in Places,
             Pass(c, from, to), to \in {"reclaim", "exhaust", "retry", "look", "done"}
      PROVE  IInv'
  BY <1>0, <1>2, MoveKeeps DEF Pass, Working
<1>3. CASE Insert(c)
  BY <1>0, <1>2, <1>3, TakeKeeps DEF Insert, Places
<1>4. CASE Reclaim(c)
  BY <1>0, <1>2, <1>4, TakeKeeps DEF Reclaim, Reclaimable, Expired, Places
<1>5. CASE Exhaust(c)
  <2>1. CASE Exhausted(run[m], c) /\ ~Pass(c, "exhaust", "retry")
    <3>1. /\ Closed(run[m], "dead") \in Runs /\ Closed(run[m], "dead").state = "dead"
          /\ Closed(run[m], "dead").attempts = run[m].attempts
      BY <1>0 DEF Closed, Runs, States
    <3>2. /\ run' = [run EXCEPT ![m] = Closed(run[m], "dead")]
          /\ at' = [at EXCEPT ![c] = "done"]
          /\ UNCHANGED <<now, send, calls, about, since, try, plan>>
      BY <1>5, <2>1 DEF Exhaust
    <3> QED BY <1>0, <2>1, <3>1, <3>2, EndKeeps DEF Exhausted, Expired
  <2>2. CASE Pass(c, "exhaust", "retry")
    BY <1>2, <2>2 DEF Places
  <2> QED BY <1>5, <2>1, <2>2 DEF Exhaust
<1>6. CASE Retry(c)
  BY <1>0, <1>2, <1>6, TakeKeeps DEF Retry, Retryable, Due, Places
<1>7. CASE Look(c)
  BY <1>2, <1>7 DEF Look, Places
<1> QED BY <1>1, <1>3, <1>4, <1>5, <1>6, <1>7 DEF Claim

LEMMA AnswerKeeps ==
  ASSUME IInv, NEW c \in Callbacks, Answer(c)
  PROVE  IInv'
<1> DEFINE m == about[c]
<1> USE DEF Goto
<1>0. /\ plan \in [Callbacks -> Plans \cup {None}] /\ since \in [Callbacks -> Time]
      /\ at[c] # "ready" => m \in Messages /\ (send[m] # Unsent <=> run[m].state = "complete")
  BY DEF IInv, TypeOK, CallbackInv, RunInv
<1>1. CASE AnswerCommand(c) \/ CannotAsk(c) \/ Generated(c)
  BY <1>0, <1>1, MoveKeeps
  DEF AnswerCommand, CannotAsk, Generated, Decide, Places, Working, Plans, Kinds
<1>2. CASE CloseFails(c)
  BY <1>0, <1>2, MoveKeeps DEF CloseFails, Pass, Places, Working
<1>3. ASSUME send[m] # Unsent, Reconcile(m), at[c] \in {"closing", "settling"},
             at' = [at EXCEPT ![c] = "done"], UNCHANGED <<now, send, calls, about, since, try, plan>>
      PROVE  IInv'
  BY <1>0, <1>3, MoveKeeps DEF Reconcile, Places, Working
<1>4. CASE CloseLost(c)
  BY <1>0, <1>3, <1>4, MoveKeeps DEF CloseLost, Places, Working
<1>5. CASE Settle(c)
  BY <1>3, <1>5, FailKeeps DEF Settle
<1>6. CASE GiveUp(c)
  BY <1>6, FailKeeps DEF GiveUp
<1> QED
  BY <1>1, <1>2, <1>4, <1>5, <1>6, CloseKeeps, RenewKeeps DEF Answer

LEMMA StepInv == IInv /\ [Next]_vars => IInv'
<1> SUFFICES ASSUME IInv, [Next]_vars PROVE IInv'
  OBVIOUS
<1>1. ASSUME NEW c \in Callbacks, NEW m \in Messages, Receive(c, m)
      PROVE  IInv'
  <2>1. /\ at \in [Callbacks -> Places] /\ about \in [Callbacks -> Messages \cup {None}]
        /\ at[c] = "ready" /\ at' = [at EXCEPT ![c] = "begin"]
        /\ about' = [about EXCEPT ![c] = m]
    BY <1>1 DEF Receive, Goto, IInv, TypeOK
  <2>2. TypeOK'
    BY <1>1, <2>1 DEF Receive, IInv, TypeOK, Places
  <2>3. \A n \in Messages : RunInv(n)'
    BY <1>1 DEF Receive, IInv, RunInv
  <2>4. \A n \in Messages : ~(run[n].state = "processing" /\ run[n].holder = c)
    BY <2>1 DEF IInv, CallbackInv, HolderInv, Working
  <2>5. \A d \in Callbacks : CallbackInv(d)'
    BY <1>1, <2>1, <2>4 DEF Receive, IInv, CallbackInv, HolderInv, Working
  <2> QED BY <2>2, <2>3, <2>5 DEF IInv
<1>2. ASSUME NEW c \in Callbacks, Crash(c)
      PROVE  IInv'
  BY <1>2, MoveKeeps DEF Crash, Places, Working, IInv, TypeOK
<1>3. CASE Tick \/ UNCHANGED vars
  <2>1. now' \in Time /\ UNCHANGED <<run, send, calls, at, about, since, try, plan>>
    BY <1>3, RepliesAssumption DEF Tick, vars, cbVars, IInv, TypeOK, Time
  <2> QED BY <2>1 DEF IInv, TypeOK, RunInv, CallbackInv, HolderInv
<1> QED BY <1>1, <1>2, <1>3, ClaimKeeps, AnswerKeeps, RenewKeeps DEF Next

LEMMA BoundedCalls == IInv => ModelCallsAreBounded
<1> SUFFICES ASSUME IInv, NEW m \in Messages
             PROVE  calls[m] <= run[m].attempts /\ run[m].attempts <= MaxAttempts
  BY DEF ModelCallsAreBounded
<1>1. run[m] \in Runs
  BY DEF IInv, TypeOK
<1> QED BY <1>1, RepliesAssumption DEF IInv, RunInv, Runs

(* A run is complete exactly when its send exists, the send is the last    *)
(* claimant's, and the model is called at most once per claim, whatever    *)
(* leases lapsed and callbacks came twice.                                 *)
THEOREM RunAndSendAgree == Spec => []ReplyInv
<1>1. IInv => ReplyInv
  BY BoundedCalls DEF IInv, RunInv, ReplyInv, SendIffComplete
<1> QED BY <1>1, InitInv, StepInv, PTL DEF Spec

(* At most one call of the model per claim, and MaxAttempts claims.        *)
THEOREM ModelCallsStayBounded == Spec => []ModelCallsAreBounded
<1>1. IInv => ModelCallsAreBounded
  BY BoundedCalls
<1> QED BY <1>1, InitInv, StepInv, PTL DEF Spec

(* A closed run stays closed and its model uncalled.                       *)
THEOREM ClosedRunsStayClosed == Spec => ClosedIsFinal
<1>1. ASSUME IInv, [Next]_vars, NEW m \in Messages, run[m].state \in {"complete", "dead"}
      PROVE  run'[m] = run[m] /\ calls'[m] = calls[m]
  <2> USE <1>1 DEF Goto
  <2>1. /\ run \in [Messages -> Runs] /\ calls \in [Messages -> Nat]
        /\ \A n \in Messages : send[n] # Unsent <=> run[n].state = "complete"
    BY DEF IInv, TypeOK, RunInv
  <2>2. ASSUME NEW n \in Messages, n # m, \E r : run' = [run EXCEPT ![n] = r]
        PROVE  run'[m] = run[m]
    BY <2>1, <2>2
  <2>3. ASSUME NEW c \in Callbacks, Claim(c)
        PROVE  run'[m] = run[m] /\ calls' = calls
    BY <2>1, <2>3
    DEF Claim, Begin, Insert, Reclaim, Exhaust, Retry, Look, Pass, Take, Reconcile,
        Reclaimable, Exhausted, Retryable, Expired, Due, IInv, CallbackInv
  <2>4. ASSUME NEW c \in Callbacks, Answer(c) \/ Heartbeat(c)
        PROVE  run'[m] = run[m] /\ calls'[m] = calls[m]
    BY <2>1, <2>4
    DEF Answer, AnswerCommand, CannotAsk, RenewForRecall, RenewForModel, Heartbeat, Renew,
        Extend, Generated, Decide, Close, CloseLost, CloseFails, Settle, GiveUp, FailRun,
        Pass, Reconcile, Holds, IInv, CallbackInv
  <2> QED BY <2>3, <2>4 DEF Next, Receive, Crash, Tick, vars, cbVars
<1>2. IInv /\ [Next]_vars =>
        [\A m \in Messages : run[m].state \in {"complete", "dead"} =>
           run'[m] = run[m] /\ calls'[m] = calls[m]]_vars
  BY <1>1
<1> QED BY <1>2, InitInv, StepInv, PTL DEF Spec, ClosedIsFinal

(***************************************************************************)
(* ReplyTools                                                              *)
(***************************************************************************)
(* Where a call stands before it has left any trace.                       *)
Unstaged == {"called", "group_read", "group_messages", "autonomous", "staged", "cancel",
             "object", "extract"}
Staging == {"decide", "execute"}
UnderWay == Unstaged \cup Staging \cup {"record"}

(* The runs of a kind of attachment.                                       *)
StagesOf ==
  [pdf |-> {"pdftotext"}, docx |-> {"body"},
   xlsx |-> {"manifest", "relations", "sheet", "strings"},
   zip |-> {"manifest", "relations", "sheet", "strings", "body"},
   image |-> {"magick", "convert", "magick jpeg", "convert jpeg"},
   video |-> {"probe", "frame 1", "frame 2"}]

(* A table that is given and is not the one written is said to be cut.     *)
TablesAreTold == \A csv \in CsvReadings : csv.ok /\ csv.short => csv.flagged

(* Which tool a call is of, where only one is.                             *)
ToolSound(r) ==
  /\ r.at \in {"group_read", "group_messages", "autonomous", "staged"} => r.tool = r.at
  /\ r.at \in Staging => r.tool = "autonomous"
  /\ r.at = "cancel" => r.tool = "cancel_scheduled"
  /\ r.at \in {"object", "extract"} => r.tool = "media"
  /\ r.at \in UnderWay \cup {"answer"} => r.tool \in Tools
  /\ r.at = "extract" => r.kind \in Extracted /\ r.stage \in StagesOf[r.kind] \cup Ends
  /\ r.at = "extract" /\ r.child => r.stage \in Stages

(* What it is about is in scope, and stays so while it is under way.       *)
ReachSound(r) ==
  /\ r.about \subseteq r.within
  /\ kind = "group" /\ r.tool # "monitored_groups" => r.about \subseteq {Own}
  /\ r.at \in UnderWay => monitored \subseteq r.within

(* The rows it has left so far.                                            *)
RowSound(r) ==
  /\ r.at \in Unstaged => r.read = 0 /\ r.staged = 0
  /\ r.at \in Staging => r.read = 0 /\ r.staged = 1
  /\ r.at = "record" => r.read = 0 /\ r.staged \in 0 .. 1 /\ (r.tool \in ReadTools => r.staged = 0)
  /\ r.at = "answer" /\ ~r.lost =>
       IF r.tool \in ReadTools THEN r.read = 1 /\ r.staged = 0 ELSE r.read = 0 /\ r.staged >= 1

(* What it is told, which is nothing before it has come to a result.       *)
ToldSound(r) ==
  /\ r.at \in Unstaged \cup Staging => r.told = Nothing /\ ~r.short
  /\ r.told = "done" /\ r.tool = "autonomous" => r.performed /\ r.row = "executed"
  /\ r.told = "done" /\ r.tool = "cancel_scheduled" =>
       queued = [status |-> "cancelled", posted |-> FALSE]
  /\ TablesAreTold /\ r.told = "ok" /\ r.short => r.flagged

Sound(r) == r \in CallRecords /\ ToolSound(r) /\ ReachSound(r) /\ RowSound(r) /\ ToldSound(r)

CallsInv ==
  /\ kind \in {"group", "user"}
  /\ monitored \in SUBSET Groups
  /\ queued \in [status : {"scheduled", "dispatching", "cancelled"}, posted : BOOLEAN]
  /\ queued.status = "scheduled" => ~queued.posted
  /\ call = [c \in Calls |-> call[c]]
  /\ \A c \in Calls : Sound(call[c])

LEMMA IdleSound == Sound(Idle)
BY DEF Sound, Idle, CallRecords, ToolSound, ReachSound, RowSound, ToldSound, Nothing, UnderWay,
       Unstaged, Staging, ReadTools

LEMMA AfterRunSound ==
  ASSUME NEW form \in Extracted, NEW s \in StagesOf[form], NEW got, NEW good,
         NEW after \in AfterRun(form, s, got, good)
  PROVE  after \in NextRuns /\ after.to \in StagesOf[form] \cup Ends
<1> USE DEF AfterRun, NextRun, StagesOf, Ends, Extracted, Documents
<1>1. CASE form \in {"pdf", "docx"}
  BY <1>1
<1>2. CASE form = "xlsx"
  BY <1>2 DEF AfterWorkbook, NoWorkbook
<1>5. CASE form = "zip" /\ s = "body"
  BY <1>5 DEF AfterWorkbook, NoWorkbook
<1>6. CASE form = "zip" /\ s # "body"
  BY <1>6 DEF AfterWorkbook, NoWorkbook
<1>3. CASE form = "image"
  BY <1>3 DEF AfterPicture
<1>4. CASE form = "video"
  BY <1>4 DEF AfterClip
<1> QED BY <1>1, <1>2, <1>3, <1>4, <1>5, <1>6

(* A call that comes to a result.                                          *)
LEMMA RecordSound ==
  ASSUME NEW c \in Calls, Sound(call[c]), call[c].at \in Unstaged \cup Staging,
         NEW told \in {"ok", "not_available", "not_stored", "unsupported_type", "action_failed"}
  PROVE  /\ Sound(Record(c, told)) /\ Record(c, told) \in CallRecords
         /\ Record(c, told).at = "record" /\ Record(c, told).told = told
<1> DEFINE r == call[c]
           n == Record(c, told)
<1> USE DEF Record
<1>1. r \in CallRecords
  BY DEF Sound
<1>2. n \in CallRecords
  BY <1>1 DEF CallRecords
<1>3. ToolSound(n)
  BY <1>1, <1>2 DEF Sound, CallRecords, ToolSound, UnderWay, Unstaged, Staging
<1>4. ReachSound(n)
  BY <1>1 DEF Sound, CallRecords, ReachSound, UnderWay, Unstaged, Staging
<1>5. RowSound(n)
  BY <1>1 DEF Sound, CallRecords, RowSound, ToolSound, UnderWay, Unstaged, Staging, ReadTools
<1>6. ToldSound(n)
  BY <1>1 DEF Sound, CallRecords, ToldSound, UnderWay, Unstaged, Staging
<1>7. n.at = "record" /\ n.told = told
  BY <1>1 DEF CallRecords
<1> QED BY <1>2, <1>3, <1>4, <1>5, <1>6, <1>7 DEF Sound

LEMMA RecordFields ==
  ASSUME NEW c \in Calls, call[c] \in CallRecords, NEW told
  PROVE  LET n == Record(c, told) r == call[c] IN
         /\ n.at = "record" /\ n.told = told /\ n.tool = r.tool /\ n.about = r.about
         /\ n.within = r.within /\ n.short = r.short /\ n.flagged = r.flagged /\ n.row = r.row
         /\ n.performed = r.performed /\ n.read = r.read /\ n.staged = r.staged /\ n.lost = r.lost
BY DEF Record, CallRecords

(* What a call's soundness looks at.                                       *)
LEMMA Alike ==
  ASSUME NEW r, NEW n \in CallRecords, Sound(r),
         n.at = r.at, n.tool = r.tool, n.about = r.about, n.within = r.within,
         n.told = r.told, n.short = r.short, n.flagged = r.flagged, n.row = r.row,
         n.performed = r.performed, n.read = r.read, n.staged = r.staged, n.lost = r.lost,
         r.at # "extract"
  PROVE  Sound(n)
BY DEF Sound, ToolSound, ReachSound, RowSound, ToldSound

LEMMA NotAvailableSound ==
  ASSUME NEW c \in Calls, Sound(call[c]), call[c].at \in Unstaged \cup Staging
  PROVE  Sound(NotAvailable(c))
<1> DEFINE r == Record(c, "not_available")
           n == NotAvailable(c)
<1>1. Sound(r) /\ r \in CallRecords /\ r.at = "record"
  BY RecordSound
<1> HIDE DEF r
<1>2. n = [r EXCEPT !.ref = Nothing]
  BY DEF NotAvailable, r
<1> HIDE DEF n
<1>3. n \in CallRecords
  BY <1>1, <1>2 DEF CallRecords, Nothing
<1>4. Sound(n)
  BY <1>1, <1>2, <1>3, Alike DEF CallRecords
<1> QED BY <1>4 DEF n

LEMMA CallKeeps ==
  ASSUME CallsInv, NEW c \in Calls, NEW n, Sound(n), call' = [call EXCEPT ![c] = n],
         kind' = kind, monitored' = monitored, queued' = queued
  PROVE  CallsInv'
<1>1. \A d \in Calls : call'[d] = IF d = c THEN n ELSE call[d]
  BY DEF CallsInv
<1>2. ASSUME NEW r, Sound(r) PROVE Sound(r)'
  BY <1>2 DEF Sound, ToolSound, ReachSound, RowSound, ToldSound
<1>3. \A d \in Calls : Sound(call'[d])
  BY <1>1 DEF CallsInv
<1>4. \A d \in Calls : Sound(call[d])'
  BY <1>2, <1>3
<1> QED BY <1>4 DEF CallsInv

(* An answered call keeps what it did.                                      *)
LEMMA SettledSound ==
  ASSUME NEW c \in Calls, Sound(call[c]), NEW told, told = "spent" \/ told = call[c].told
  PROVE  Sound(Settled(c, told))
<1> DEFINE n == Settled(c, told)
<1>1. call[c] \in CallRecords /\ Idle \in CallRecords
  BY IdleSound DEF Sound
<1>2. n \in CallRecords /\ n.at = "done" /\ n.about = {} /\ ~n.short
  <2>1. Idle.about = {} /\ ~Idle.short
    BY DEF Idle
  <2>2. CASE told # "done"
    BY <1>1, <2>1, <2>2 DEF Settled, CallRecords
  <2>3. CASE told = "done"
    <3>1. n = [Idle EXCEPT !.at = "done", !.tool = call[c].tool, !.told = "done",
                           !.row = call[c].row, !.performed = call[c].performed]
      BY <2>3 DEF Settled
    <3>2. /\ call[c].tool \in Tools \cup {Nothing} /\ call[c].performed \in BOOLEAN
          /\ call[c].row \in {Nothing, "pending", "approved", "rejected", "executed", "failed"}
      BY <1>1 DEF CallRecords
    <3> DEFINE m == [Idle EXCEPT !.at = "done", !.tool = call[c].tool]
    <3>m. n = [m EXCEPT !.told = "done", !.row = call[c].row, !.performed = call[c].performed]
      BY <3>1
    <3>i. m \in CallRecords
      <4>1. ASSUME NEW t \in Tools \cup {Nothing}, NEW q \in CallRecords
            PROVE  [q EXCEPT !.at = "done", !.tool = t] \in CallRecords
        BY DEF CallRecords
      <4> QED BY <1>1, <3>2, <4>1
    <3> HIDE DEF m, n
    <3>3. n \in CallRecords
      <4>1. ASSUME NEW q \in CallRecords PROVE [q EXCEPT !.told = "done"] \in CallRecords
        BY DEF CallRecords
      <4>2. ASSUME NEW q \in CallRecords,
                   NEW w \in {Nothing, "pending", "approved", "rejected", "executed", "failed"}
            PROVE  [q EXCEPT !.row = w] \in CallRecords
        BY DEF CallRecords
      <4>3. ASSUME NEW q \in CallRecords, NEW p \in BOOLEAN
            PROVE  [q EXCEPT !.performed = p] \in CallRecords
        BY DEF CallRecords
      <4> DEFINE k == [m EXCEPT !.told = "done"]
                 l == [k EXCEPT !.row = call[c].row]
      <4>4. n = [l EXCEPT !.performed = call[c].performed]
        BY <3>m
      <4>5. k \in CallRecords
        BY <3>i, <4>1
      <4> HIDE DEF k
      <4>6. l \in CallRecords
        BY <3>2, <4>2, <4>5
      <4> HIDE DEF l
      <4> QED BY <3>2, <4>3, <4>4, <4>6
    <3>4. n.at = "done" /\ n.about = {} /\ ~n.short
      BY <1>1, <2>1, <3>1 DEF CallRecords
    <3> QED BY <3>3, <3>4
  <2> QED BY <2>2, <2>3
<1>3. \/ n.told = Nothing
      \/ /\ n.told = call[c].told /\ n.tool = call[c].tool /\ n.row = call[c].row
         /\ n.performed = call[c].performed
  BY <1>1 DEF Settled, Idle, CallRecords
<1>4. ToldSound(n)
  BY <1>2, <1>3 DEF Sound, ToldSound, Unstaged, Staging, Nothing
<1> HIDE DEF n
<1>5. Sound(n)
  BY <1>2, <1>4 DEF Sound, ToolSound, ReachSound, RowSound, UnderWay, Unstaged, Staging
<1> QED BY <1>5 DEF n

LEMMA RefuseKeeps ==
  ASSUME CallsInv, NEW c \in Calls, Refuse(c)
  PROVE  CallsInv'
<1> DEFINE r == call[c]
           a == [Heeded(c) EXCEPT !.told = "not_available", !.lost = TRUE]
<1>1. Sound(r) /\ r \in CallRecords /\ r.at = "called"
  BY DEF CallsInv, Sound, Refuse, Does
<1>2. Sound(Settled(c, "spent"))
  BY <1>1, SettledSound
<1>3. Sound(a)
  <2>1. a \in CallRecords
    BY <1>1 DEF Heeded, CallRecords
  <2>2. a.at = "answer" /\ a.tool = call[c].tool /\ a.about = {} /\ a.told = "not_available" /\ a.lost
    BY <1>1 DEF Heeded, CallRecords
  <2>3. call[c].tool \in Tools
    BY <1>1 DEF Sound, ToolSound, UnderWay, Unstaged
  <2> HIDE DEF a
  <2> QED BY <2>1, <2>2, <2>3 DEF Sound, ToolSound, ReachSound, RowSound, ToldSound,
       UnderWay, Unstaged, Staging
<1>4. /\ call' = [call EXCEPT ![c] = Settled(c, "spent")] \/ call' = [call EXCEPT ![c] = a]
      /\ UNCHANGED <<kind, monitored, queued>>
  BY DEF Refuse, Does, Rest, world, reply
<1> HIDE DEF a
<1> QED BY <1>2, <1>3, <1>4, CallKeeps

(* The call that is under way keeps to what it was about, whatever of its   *)
(* own bookkeeping moves on.                                                *)
LEMMA ResolveKeeps ==
  ASSUME CallsInv, NEW c \in Calls, Resolve(c)
  PROVE  CallsInv'
<1> DEFINE scope == ScopedGroup(call[c].ref)
           a == [call[c] EXCEPT !.at = call[c].tool, !.ref = Nothing, !.about = scope]
<1>1. Sound(call[c]) /\ call[c] \in CallRecords /\ call[c].at = "called" /\ call[c].tool \in Scoped
  BY DEF CallsInv, Sound, Resolve, Does
<1>2. scope \subseteq monitored /\ (kind = "group" => scope \subseteq {Own})
  BY DEF ScopedGroup
<1>3. monitored \subseteq call[c].within /\ monitored \in SUBSET Groups
  BY <1>1 DEF CallsInv, Sound, ReachSound, UnderWay, Unstaged
<1> HIDE DEF scope
<1>4. Sound(a)
  <2>1. a \in CallRecords
    BY <1>1, <1>2, <1>3 DEF Scoped, Nothing, CallRecords
  <2>2. /\ a.at = call[c].tool /\ a.tool = call[c].tool /\ a.about = scope
        /\ a.within = call[c].within
        /\ a.told = call[c].told /\ a.short = call[c].short /\ a.flagged = call[c].flagged
        /\ a.read = call[c].read /\ a.staged = call[c].staged
    BY <1>1 DEF CallRecords
  <2>3. ToolSound(a)
    BY <1>1, <2>2 DEF Scoped, Tools, ToolSound, Staging
  <2>4. ReachSound(a)
    BY <1>1, <1>2, <1>3, <2>2 DEF ReachSound
  <2>5. RowSound(a) /\ ToldSound(a)
    BY <1>1, <2>2 DEF Sound, Scoped, RowSound, ToldSound, Unstaged, Staging, Nothing
  <2> QED BY <2>1, <2>3, <2>4, <2>5 DEF Sound
<1>5. Sound(NotAvailable(c))
  BY <1>1, NotAvailableSound DEF Unstaged
<1>6. /\ call' = [call EXCEPT ![c] = NotAvailable(c)] \/ call' = [call EXCEPT ![c] = a]
      /\ UNCHANGED <<kind, monitored, queued>>
  BY DEF Resolve, Does, Rest, world, reply, scope
<1> HIDE DEF a
<1> QED BY <1>4, <1>5, <1>6, CallKeeps

LEMMA ReadGroupKeeps ==
  ASSUME CallsInv, NEW c \in Calls, ReadGroup(c) \/ ListScheduledSends(c)
  PROVE  CallsInv'
<1>1. Sound(call[c]) /\ call[c].at \in Unstaged
  BY DEF CallsInv, ReadGroup, ListScheduledSends, Does, Unstaged
<1>2. Sound(Record(c, "ok")) /\ Sound(NotAvailable(c))
  BY <1>1, RecordSound, NotAvailableSound
<1>3. /\ \/ call' = [call EXCEPT ![c] = Record(c, "ok")]
         \/ call' = [call EXCEPT ![c] = NotAvailable(c)]
      /\ UNCHANGED <<kind, monitored, queued>>
  BY DEF ReadGroup, ListScheduledSends, Does, Rest, world, reply
<1> QED BY <1>2, <1>3, CallKeeps

(* A recap that leaves out a line that was in scope counts more lines than  *)
(* it gives.                                                                *)
LEMMA RecapsAreTold ==
  ASSUME NEW recap \in Recaps
  PROVE  recap.short \in BOOLEAN /\ recap.flagged \in BOOLEAN /\ (recap.short => recap.flagged)
<1>1. PICK heard \in Growing, said \in Growing, clipped \in BOOLEAN :
        LET rows     == Least(heard[2], RecapLimit)
            spoken   == Least(said[2], RecapLimit)
            windowed == Least(rows + spoken, RecapLimit)
        IN recap = [short   |-> clipped \/ windowed < heard[1] + said[1],
                    flagged |-> clipped \/ rows < heard[3] + said[3]]
  BY DEF Recaps
<1>2. \A g \in Growing : /\ g[1] \in Nat /\ g[2] \in Nat /\ g[3] \in Nat
                        /\ g[1] <= g[2] /\ g[2] <= g[3]
  <2>1. \A n \in Heard : n \in Nat
    BY SizesAssumption
  <2> QED BY <2>1 DEF Growing
<1>3. RecapLimit \in Nat
  BY SizesAssumption
<1> QED BY <1>1, <1>2, <1>3 DEF Least

(* A result that says so where it is cut.                                   *)
LEMMA CutSound ==
  ASSUME NEW c \in Calls, Sound(call[c]), call[c].at \in Unstaged, NEW cut \in BOOLEAN,
         NEW flag \in BOOLEAN, TablesAreTold /\ cut => flag
  PROVE  Sound([Record(c, "ok") EXCEPT !.short = cut, !.flagged = flag])
<1> DEFINE r == Record(c, "ok")
           n == [r EXCEPT !.short = cut, !.flagged = flag]
<1>1. Sound(r) /\ r \in CallRecords /\ r.at = "record" /\ r.told = "ok"
  BY RecordSound
<1> HIDE DEF r
<1>2. n \in CallRecords
  BY <1>1 DEF CallRecords
<1>3. /\ n.at = r.at /\ n.tool = r.tool /\ n.about = r.about /\ n.within = r.within
      /\ n.told = r.told /\ n.short = cut /\ n.flagged = flag
      /\ n.read = r.read /\ n.staged = r.staged /\ n.lost = r.lost
  BY <1>1 DEF CallRecords
<1> HIDE DEF n
<1>4. ToolSound(n) /\ ReachSound(n) /\ RowSound(n)
  BY <1>1, <1>3 DEF Sound, ToolSound, ReachSound, RowSound
<1>5. ToldSound(n)
  BY <1>1, <1>3 DEF ToldSound, Unstaged, Staging
<1>6. Sound(n)
  BY <1>2, <1>4, <1>5 DEF Sound
<1> QED BY <1>6 DEF n, r

LEMMA ReadGroupMessagesKeeps ==
  ASSUME CallsInv, NEW c \in Calls, ReadGroupMessages(c)
  PROVE  CallsInv'
<1>1. PICK recap \in Recaps :
        call' = [call EXCEPT ![c] = [Record(c, "ok") EXCEPT !.short   = recap.short,
                                                            !.flagged = recap.flagged]]
  BY DEF ReadGroupMessages, Does
<1>2. Sound(call[c]) /\ call[c].at \in Unstaged
  BY DEF CallsInv, ReadGroupMessages, Does, Unstaged
<1>3. UNCHANGED <<kind, monitored, queued>>
  BY DEF ReadGroupMessages, Rest, world, reply
<1> QED BY <1>1, <1>2, <1>3, CutSound, RecapsAreTold, CallKeeps

(* The same, of the monitored groups the call lists.                        *)
LEMMA ListMonitoredGroupsKeeps ==
  ASSUME CallsInv, NEW c \in Calls, ListMonitoredGroups(c)
  PROVE  CallsInv'
<1>1. Sound(call[c]) /\ call[c].at \in Unstaged /\ call[c].tool = "monitored_groups"
      /\ call[c] \in CallRecords
  BY DEF CallsInv, Sound, ListMonitoredGroups, Does, Unstaged
<1>2. UNCHANGED <<kind, monitored, queued>>
  BY DEF ListMonitoredGroups, Rest, world, reply
<1>3. CASE call' = [call EXCEPT ![c] = NotAvailable(c)]
  BY <1>1, <1>2, <1>3, NotAvailableSound, CallKeeps
<1>4. ASSUME NEW listed \in SUBSET monitored,
             call' = [call EXCEPT ![c] = [Record(c, "ok") EXCEPT !.about   = listed,
                                                                 !.short   = listed # monitored,
                                                                 !.flagged = listed # monitored]]
      PROVE  CallsInv'
  <2> DEFINE cut == listed # monitored
             q   == Record(c, "ok")
             r   == [q EXCEPT !.short = cut, !.flagged = cut]
             n   == [q EXCEPT !.about = listed, !.short = cut, !.flagged = cut]
  <2>1. Sound(r)
    BY <1>1, CutSound
  <2>0. q \in CallRecords /\ q.at = "record" /\ q.tool = "monitored_groups" /\ q.within = call[c].within
    BY <1>1, RecordSound, RecordFields
  <2> HIDE DEF q, cut
  <2>2. cut \in BOOLEAN
    BY DEF cut
  <2>3. listed \subseteq Groups /\ listed \subseteq q.within
    BY <1>1, <2>0 DEF CallsInv, Sound, ReachSound, UnderWay
  <2>4. n \in CallRecords
    BY <2>0, <2>2, <2>3 DEF CallRecords
  <2>5. /\ n.about = listed /\ r.at = "record" /\ r.tool = "monitored_groups"
        /\ n.at = r.at /\ n.tool = r.tool /\ n.within = r.within /\ r.within = q.within
        /\ n.told = r.told /\ n.short = r.short /\ n.flagged = r.flagged /\ n.row = r.row
        /\ n.performed = r.performed /\ n.read = r.read /\ n.staged = r.staged /\ n.lost = r.lost
    BY <2>0 DEF CallRecords
  <2> HIDE DEF r, n
  <2>6. Sound(n)
    BY <2>1, <2>3, <2>4, <2>5 DEF Sound, ToolSound, ReachSound, RowSound, ToldSound
  <2> QED BY <1>2, <1>4, <2>6, CallKeeps DEF n, q, cut
<1> QED BY <1>3, <1>4 DEF ListMonitoredGroups, Does

LEMMA FindSendKeeps ==
  ASSUME CallsInv, NEW c \in Calls, FindSend(c)
  PROVE  CallsInv'
<1> DEFINE a == [call[c] EXCEPT !.at = "cancel"]
<1>1. Sound(call[c]) /\ call[c].at = "called" /\ call[c].tool = "cancel_scheduled"
      /\ call[c] \in CallRecords
  BY DEF CallsInv, Sound, FindSend, Does
<1>2. Sound(a)
  BY <1>1 DEF CallRecords, Sound, ToolSound, ReachSound, RowSound, ToldSound, UnderWay, Unstaged, Staging
<1>3. Sound(NotAvailable(c))
  BY <1>1, NotAvailableSound DEF Unstaged
<1>4. /\ call' = [call EXCEPT ![c] = NotAvailable(c)] \/ call' = [call EXCEPT ![c] = a]
      /\ UNCHANGED <<kind, monitored, queued>>
  BY DEF FindSend, Does, Rest, world, reply
<1> HIDE DEF a
<1> QED BY <1>2, <1>3, <1>4, CallKeeps

(* The queued send leaves the queue once: who is told that it was withdrawn *)
(* is told so for good.                                                     *)
LEMMA QueueKeeps ==
  ASSUME CallsInv, queued.status = "scheduled", NEW r, Sound(r), kind' = kind, monitored' = monitored
  PROVE  Sound(r)'
<1>1. ~(r.told = "done" /\ r.tool = "cancel_scheduled")
  BY DEF Sound, ToldSound
<1> QED BY <1>1 DEF Sound, ToolSound, ReachSound, RowSound, ToldSound

LEMMA DispatchKeeps == CallsInv /\ Dispatch => CallsInv'
<1> SUFFICES ASSUME CallsInv, Dispatch PROVE CallsInv'
  OBVIOUS
<1>1. /\ queued.status = "scheduled" /\ queued' = [status |-> "dispatching", posted |-> TRUE]
      /\ UNCHANGED <<kind, monitored, call>>
  BY DEF Dispatch, reply
<1>2. \A c \in Calls : Sound(call[c])'
  BY <1>1, QueueKeeps DEF CallsInv
<1> QED BY <1>1, <1>2 DEF CallsInv

LEMMA CancelScheduledSendKeeps ==
  ASSUME CallsInv, NEW c \in Calls, CancelScheduledSend(c)
  PROVE  CallsInv'
<1>1. /\ Sound(call[c]) /\ call[c].at = "cancel" /\ call[c].tool = "cancel_scheduled"
      /\ call[c] \in CallRecords /\ UNCHANGED <<kind, monitored>>
  BY DEF CallsInv, Sound, ToolSound, CancelScheduledSend, Does, reply
<1>2. CASE queued.status # "scheduled"
  BY <1>1, <1>2, RecordSound, CallKeeps DEF CancelScheduledSend, Does, Unstaged
<1>3. CASE queued.status = "scheduled"
  <2>1. /\ queued' = [queued EXCEPT !.status = "cancelled"]
        /\ call' = [call EXCEPT ![c] = Record(c, "done")]
    BY <1>3 DEF CancelScheduledSend, Does
  <2>2. queued' = [status |-> "cancelled", posted |-> FALSE]
    BY <1>3, <2>1 DEF CallsInv
  <2>3. ASSUME NEW r, r = Record(c, "ok"), NEW n, n = Record(c, "done")
        PROVE  Sound(n)'
    <3>1. Sound(r) /\ r \in CallRecords /\ r.tool = "cancel_scheduled"
      BY <1>1, <2>3, RecordSound, RecordFields DEF Unstaged
    <3>2. Sound(r)'
      BY <1>1, <1>3, <3>1, QueueKeeps
    <3>3. n \in CallRecords
      BY <1>1, <2>3 DEF Record, CallRecords
    <3>4. /\ n.at = r.at /\ n.tool = r.tool /\ n.about = r.about /\ n.within = r.within
          /\ n.told = "done" /\ n.short = r.short /\ n.read = r.read /\ n.staged = r.staged
          /\ n.lost = r.lost /\ r.at = "record"
      BY <1>1, <2>3, RecordFields
    <3>5. ToolSound(n)' /\ ReachSound(n)' /\ RowSound(n)'
      BY <3>2, <3>4 DEF Sound, ToolSound, ReachSound, RowSound
    <3>6. ToldSound(n)'
      BY <2>2, <3>1, <3>4 DEF ToldSound, Unstaged, Staging
    <3> QED BY <3>3, <3>5, <3>6 DEF Sound, CallRecords
  <2>4. ASSUME NEW r, Sound(r)
        PROVE  Sound(r)'
    BY <1>1, <1>3, <2>4, QueueKeeps
  <2>5. \A d \in Calls : call'[d] = IF d = c THEN Record(c, "done") ELSE call[d]
    BY <2>1 DEF CallsInv
  <2>6. \A d \in Calls : Sound(call[d])'
    BY <2>3, <2>4, <2>5 DEF CallsInv
  <2> QED BY <1>1, <2>1, <2>2, <2>6 DEF CallsInv
<1> QED BY <1>2, <1>3

LEMMA StageGroupActionKeeps ==
  ASSUME CallsInv, NEW c \in Calls, StageGroupAction(c)
  PROVE  CallsInv'
<1> DEFINE p == [call[c] EXCEPT !.at = "decide", !.row = "pending", !.staged = 1]
           w == [Heeded(c) EXCEPT !.told = "staged", !.row = "pending", !.staged = 1]
<1>1. Sound(call[c]) /\ call[c] \in CallRecords /\ call[c].at \in {"autonomous", "staged"}
  BY DEF CallsInv, Sound, StageGroupAction, Does
<1>2. Sound(NotAvailable(c))
  BY <1>1, NotAvailableSound DEF Unstaged
<1>3. UNCHANGED <<kind, monitored, queued>>
  BY DEF StageGroupAction, Rest, world, reply
<1>4. CASE Does(c, "autonomous", p)
  <2>1. call[c].at = "autonomous" /\ call[c].tool = "autonomous" /\ call' = [call EXCEPT ![c] = p]
    BY <1>1, <1>4 DEF Does, Sound, ToolSound
  <2>2. p \in CallRecords
    BY <1>1, 1 \in 0 .. 2 DEF CallRecords
  <2>3. /\ p.at = "decide" /\ p.tool = "autonomous" /\ p.about = call[c].about
        /\ p.within = call[c].within /\ p.told = call[c].told /\ p.short = call[c].short
        /\ p.read = call[c].read /\ p.staged = 1
    BY <1>1, <2>1 DEF CallRecords
  <2> HIDE DEF p
  <2>4. Sound(p)
    BY <1>1, <2>2, <2>3 DEF Sound, ToolSound, ReachSound, RowSound, ToldSound,
         UnderWay, Unstaged, Staging, Nothing, Tools
  <2> QED BY <1>3, <2>1, <2>4, CallKeeps
<1>5. CASE Does(c, "staged", w)
  <2>1. call[c].at = "staged" /\ call[c].tool = "staged" /\ call' = [call EXCEPT ![c] = w]
    BY <1>1, <1>5 DEF Does, Sound, ToolSound
  <2>2. w \in CallRecords
    BY <1>1, 1 \in 0 .. 2 DEF Heeded, CallRecords
  <2>3. /\ w.at = "answer" /\ w.tool = "staged" /\ w.about = {} /\ w.told = "staged"
        /\ w.read = call[c].read /\ w.staged = 1
    BY <1>1, <2>1 DEF Heeded, CallRecords
  <2> HIDE DEF w
  <2>4. Sound(w)
    BY <1>1, <2>2, <2>3 DEF Sound, ToolSound, ReachSound, RowSound, ToldSound,
         UnderWay, Unstaged, Staging, ReadTools, Tools, Nothing
  <2> QED BY <1>3, <2>1, <2>4, CallKeeps
<1> QED BY <1>2, <1>3, <1>4, <1>5, CallKeeps DEF StageGroupAction, Does

LEMMA DecideKeeps ==
  ASSUME CallsInv, NEW c \in Calls, DecideAsPolicy(c) \/ OwnerDecides(c)
  PROVE  CallsInv'
<1>1. Sound(call[c]) /\ call[c] \in CallRecords /\ call[c].at = "decide"
  BY DEF CallsInv, Sound, DecideAsPolicy, OwnerDecides, Does
<1>2. UNCHANGED <<kind, monitored, queued>>
  BY DEF DecideAsPolicy, OwnerDecides, Rest, world, reply
<1>3. Sound(NotAvailable(c))
  BY <1>1, NotAvailableSound DEF Staging
<1>4. ASSUME NEW place \in Staging, NEW decision \in {"approved", "rejected"},
             call' = [call EXCEPT ![c] = [call[c] EXCEPT !.at = place, !.row = decision]]
      PROVE  CallsInv'
  <2> DEFINE n == [call[c] EXCEPT !.at = place, !.row = decision]
  <2>1. n \in CallRecords
    BY <1>1 DEF CallRecords, Staging
  <2>2. /\ n.at = place /\ n.tool = call[c].tool /\ n.about = call[c].about
        /\ n.within = call[c].within /\ n.told = call[c].told /\ n.short = call[c].short
        /\ n.read = call[c].read /\ n.staged = call[c].staged
    BY <1>1 DEF CallRecords
  <2> HIDE DEF n
  <2>3. Sound(n)
    BY <1>1, <2>1, <2>2 DEF Sound, ToolSound, ReachSound, RowSound, ToldSound,
         UnderWay, Unstaged, Staging, Nothing
  <2> QED BY <1>2, <1>4, <2>3, CallKeeps DEF n
<1>5. CASE OwnerDecides(c)
  <2>1. PICK decision \in {"approved", "rejected"} : call' = [call EXCEPT ![c].row = decision]
    BY <1>5 DEF OwnerDecides
  <2>2. call' = [call EXCEPT ![c] = [call[c] EXCEPT !.at = "decide", !.row = decision]]
    BY <1>1, <2>1 DEF CallRecords
  <2> QED BY <1>4, <2>2 DEF Staging
<1>6. CASE DecideAsPolicy(c)
  <2>1. CASE call[c].row = "pending"
    BY <1>4, <1>6, <2>1 DEF DecideAsPolicy, Does, Staging
  <2>2. CASE call[c].row # "pending"
    BY <1>2, <1>3, <1>6, <2>2, CallKeeps DEF DecideAsPolicy, Does
  <2> QED BY <2>1, <2>2
<1> QED BY <1>5, <1>6

LEMMA ExecuteKeeps ==
  ASSUME CallsInv, NEW c \in Calls, Execute(c)
  PROVE  CallsInv'
<1> DEFINE n(told, done, row1) == [Record(c, told) EXCEPT !.performed = done, !.row = row1]
<1>1. Sound(call[c]) /\ call[c] \in CallRecords /\ call[c].at = "execute"
  BY DEF CallsInv, Sound, Execute, Does
<1>2. UNCHANGED <<kind, monitored, queued>>
  BY DEF Execute, Rest, world, reply
<1>3. \/ call' = [call EXCEPT ![c] = n("done", TRUE, "executed")]
      \/ \E performed \in BOOLEAN, told \in {"action_failed", "not_available"} :
           call' = [call EXCEPT ![c] = n(told, performed, "failed")]
  BY DEF Execute, Does
<1>4. ASSUME NEW told \in {"done", "action_failed", "not_available"}, NEW done \in BOOLEAN,
             NEW row1 \in {"executed", "failed"},
             told = "done" => done /\ row1 = "executed"
      PROVE  Sound(n(told, done, row1))
  <2>1. n(told, done, row1) \in CallRecords
    <3>1. Record(c, told) \in CallRecords
      BY <1>1 DEF Record, CallRecords
    <3> QED BY <3>1 DEF CallRecords
  <2> QED BY <1>1, <1>4, <2>1 DEF Record, CallRecords, Sound, ToolSound, ReachSound, RowSound, ToldSound,
       UnderWay, Unstaged, Staging, ReadTools
<1> HIDE DEF n
<1> QED BY <1>2, <1>3, <1>4, CallKeeps

LEMMA LoadScopedMediaKeeps ==
  ASSUME CallsInv, NEW c \in Calls, LoadScopedMedia(c)
  PROVE  CallsInv'
<1>1. Sound(call[c]) /\ call[c] \in CallRecords /\ call[c].at = "called" /\ call[c].tool = "media"
  BY DEF CallsInv, Sound, LoadScopedMedia, Does
<1>2. UNCHANGED <<kind, monitored, queued>>
  BY DEF LoadScopedMedia, Rest, world, reply
<1>3. Sound(NotAvailable(c))
  BY <1>1, NotAvailableSound DEF Unstaged
<1>4. \A scope \in Reachable : scope \subseteq monitored /\ (kind = "group" => scope \subseteq {Own})
  BY DEF Reachable
<1>5. monitored \subseteq call[c].within /\ monitored \in SUBSET Groups
  BY <1>1 DEF CallsInv, Sound, ReachSound, UnderWay, Unstaged
<1>6. ASSUME NEW scope \in Reachable, NEW told \in {"not_stored", "unsupported_type"}
      PROVE  Sound([Record(c, told) EXCEPT !.about = scope])
  <2> DEFINE n == [Record(c, told) EXCEPT !.about = scope]
  <2>1. n \in CallRecords
    BY <1>1, <1>4, <1>5 DEF Record, CallRecords
  <2> QED BY <1>1, <1>4, <1>5, <2>1 DEF Record, CallRecords, Sound, ToolSound, ReachSound, RowSound,
       ToldSound, UnderWay, Unstaged, Staging, ReadTools
<1>7. ASSUME NEW scope \in Reachable
      PROVE  Sound([call[c] EXCEPT !.at = "object", !.about = scope])
  <2> DEFINE n == [call[c] EXCEPT !.at = "object", !.about = scope]
  <2>1. n \in CallRecords
    BY <1>1, <1>4, <1>5 DEF CallRecords
  <2> QED BY <1>1, <1>4, <1>5, <2>1 DEF CallRecords, Sound, ToolSound, ReachSound, RowSound,
       ToldSound, UnderWay, Unstaged, Staging
<1> QED BY <1>2, <1>3, <1>6, <1>7, CallKeeps DEF LoadScopedMedia, Does

(* What a run of a program leaves of the read it is for.                    *)
LEMMA ExtractSound ==
  ASSUME NEW c \in Calls, Sound(call[c]), call[c].at \in {"object", "extract"},
         NEW n \in CallRecords,
         n.at = "extract", n.tool = call[c].tool, n.about = call[c].about, n.within = call[c].within,
         n.told = call[c].told, n.short = call[c].short, n.read = call[c].read,
         n.staged = call[c].staged, n.kind \in Extracted, n.stage \in StagesOf[n.kind] \cup Ends,
         n.child => n.stage \in Stages
  PROVE  Sound(n)
BY DEF Sound, ToolSound, ReachSound, RowSound, ToldSound, UnderWay, Unstaged, Staging, Nothing

LEMMA FirstIsOne == \A form \in Extracted : FirstRun[form] \in StagesOf[form] /\ FirstRun[form] \in Stages
<1> SUFFICES ASSUME NEW form \in Extracted
             PROVE  FirstRun[form] \in StagesOf[form] /\ FirstRun[form] \in Stages
  OBVIOUS
<1> USE DEF FirstRun, StagesOf, Stages
<1>1. CASE form = "pdf"
  BY <1>1
<1>2. CASE form = "docx"
  BY <1>2
<1>3. CASE form = "xlsx"
  BY <1>3
<1>4. CASE form = "zip"
  BY <1>4
<1>5. CASE form = "image"
  BY <1>5
<1>6. CASE form = "video"
  BY <1>6
<1> QED BY <1>1, <1>2, <1>3, <1>4, <1>5, <1>6 DEF Extracted, Documents

LEMMA ReadObjectKeeps ==
  ASSUME CallsInv, NEW c \in Calls, ReadObject(c)
  PROVE  CallsInv'
<1>1. Sound(call[c]) /\ call[c] \in CallRecords /\ call[c].at = "object"
  BY DEF CallsInv, Sound, ReadObject, Does
<1>2. UNCHANGED <<kind, monitored, queued>>
  BY DEF ReadObject, Rest, world, reply
<1>3. Sound(NotAvailable(c))
  BY <1>1, NotAvailableSound DEF Unstaged
<1>4. ASSUME NEW csv \in CsvReadings
      PROVE  csv.short \in BOOLEAN /\ csv.flagged \in BOOLEAN
  <2>1. PICK table \in Tables, lineEnd \in LineEnds, mark \in Marks : csv = CsvReading(table, lineEnd, mark)
    BY DEF CsvReadings
  <2> DEFINE parsed == ParseCsv(mark \o WrittenTable(table, lineEnd))
             given  == FittingTable(parsed)
  <2>2. csv = [ok |-> given.ok, short |-> given.records # table, flagged |-> given.truncated]
    BY <2>1 DEF CsvReading
  <2> HIDE DEF parsed
  <2>3. given.truncated \in BOOLEAN
    BY DEF FittingTable
  <2> HIDE DEF given
  <2> QED BY <2>2, <2>3
<1>5. ASSUME NEW csv \in CsvReadings, csv.ok
      PROVE  Sound([Record(c, "ok") EXCEPT !.short = csv.short, !.flagged = csv.flagged])
  BY <1>1, <1>4, <1>5, CutSound DEF TablesAreTold, Unstaged
<1>6. ASSUME NEW cut \in BOOLEAN
      PROVE  Sound([Record(c, "ok") EXCEPT !.short = cut, !.flagged = cut])
  BY <1>1, CutSound DEF Unstaged
<1>7. ASSUME NEW form \in Extracted
      PROVE  Sound([call[c] EXCEPT !.at = "extract", !.dir = form \in InFile,
                                   !.kind = form, !.stage = FirstRun[form]])
  <2> DEFINE n == [call[c] EXCEPT !.at = "extract", !.dir = form \in InFile,
                                  !.kind = form, !.stage = FirstRun[form]]
  <2>1. FirstRun[form] \in StagesOf[form] /\ FirstRun[form] \in Stages
    BY FirstIsOne
  <2>5. (form \in InFile) \in BOOLEAN
    OBVIOUS
  <2>2. n \in CallRecords
    BY <1>1, <2>1, <2>5 DEF CallRecords
  <2>3. /\ n.at = "extract" /\ n.tool = call[c].tool /\ n.about = call[c].about
        /\ n.within = call[c].within /\ n.told = call[c].told /\ n.short = call[c].short
        /\ n.read = call[c].read /\ n.staged = call[c].staged /\ n.kind = form
        /\ n.stage = FirstRun[form]
    BY <1>1 DEF CallRecords
  <2> HIDE DEF n
  <2>4. Sound(n)
    BY <1>1, <2>1, <2>2, <2>3, ExtractSound
  <2> QED BY <2>4 DEF n
<1>8. CASE \E csv \in CsvReadings :
             call' = [call EXCEPT ![c] = IF csv.ok
                        THEN [Record(c, "ok") EXCEPT !.short = csv.short, !.flagged = csv.flagged]
                        ELSE NotAvailable(c)]
  BY <1>2, <1>3, <1>5, <1>8, CallKeeps
<1> QED BY <1>2, <1>3, <1>6, <1>7, <1>8, CallKeeps DEF ReadObject, Does

LEMMA RunExtractorKeeps ==
  ASSUME CallsInv, NEW c \in Calls, RunExtractor(c)
  PROVE  CallsInv'
<1> DEFINE n == [call[c] EXCEPT !.child = TRUE]
<1>1. /\ Sound(call[c]) /\ call[c] \in CallRecords /\ call[c].at = "extract"
      /\ call[c].stage \in Stages /\ call' = [call EXCEPT ![c] = n]
  BY DEF CallsInv, Sound, RunExtractor, Does
<1>2. UNCHANGED <<kind, monitored, queued>>
  BY DEF RunExtractor, Rest, world, reply
<1>3. n \in CallRecords
  BY <1>1 DEF CallRecords
<1>4. /\ n.at = "extract" /\ n.tool = call[c].tool /\ n.about = call[c].about
      /\ n.within = call[c].within /\ n.told = call[c].told /\ n.short = call[c].short
      /\ n.read = call[c].read /\ n.staged = call[c].staged /\ n.kind = call[c].kind
      /\ n.stage = call[c].stage
  BY <1>1 DEF CallRecords
<1> HIDE DEF n
<1>5. Sound(n)
  <2>1. call[c].kind \in Extracted /\ call[c].stage \in StagesOf[call[c].kind] \cup Ends
    BY <1>1 DEF Sound, ToolSound
  <2> QED BY <1>1, <1>3, <1>4, <2>1, ExtractSound
<1> QED BY <1>1, <1>2, <1>5, CallKeeps

LEMMA FinishKeeps ==
  ASSUME CallsInv, NEW c \in Calls, Finish(c) \/ TimesOut(c)
  PROVE  CallsInv'
<1>1. /\ Sound(call[c]) /\ call[c] \in CallRecords /\ call[c].at = "extract" /\ call[c].child
  BY DEF CallsInv, Sound, Finish, TimesOut
<1>2. UNCHANGED <<kind, monitored, queued>>
  BY DEF Finish, TimesOut, Rest, world, reply
<1>0. PICK good \in BOOLEAN :
        \E after \in AfterRun(call[c].kind, call[c].stage, call[c].got, good) :
          call' = [call EXCEPT ![c] = [call[c] EXCEPT !.child = FALSE, !.stage = after.to, !.got = after.got]]
  BY DEF Finish, TimesOut, Does, Afterwards
<1>3. PICK after \in AfterRun(call[c].kind, call[c].stage, call[c].got, good) :
        call' = [call EXCEPT ![c] = [call[c] EXCEPT !.child = FALSE, !.stage = after.to, !.got = after.got]]
  BY <1>0
<1> DEFINE n == [call[c] EXCEPT !.child = FALSE, !.stage = after.to, !.got = after.got]
<1>4. call[c].kind \in Extracted /\ call[c].stage \in StagesOf[call[c].kind]
  <2>1. /\ call[c].kind \in Extracted /\ call[c].stage \in StagesOf[call[c].kind] \cup Ends
        /\ call[c].stage \in Stages
    BY <1>1 DEF Sound, ToolSound
  <2> QED BY <2>1 DEF Stages, Ends
<1>5. after \in NextRuns /\ after.to \in StagesOf[call[c].kind] \cup Ends
  BY <1>4, AfterRunSound
<1>6. n \in CallRecords
  <2>1. after.to \in Stages \cup Ends /\ after.got \in BOOLEAN
    BY <1>5 DEF NextRuns
  <2>2. call[c] \in CallRecords /\ FALSE \in BOOLEAN
    BY <1>1
  <2> QED BY <2>1, <2>2 DEF CallRecords
<1>7. /\ n.at = "extract" /\ n.tool = call[c].tool /\ n.about = call[c].about
      /\ n.within = call[c].within /\ n.told = call[c].told /\ n.short = call[c].short
      /\ n.read = call[c].read /\ n.staged = call[c].staged /\ n.kind = call[c].kind
      /\ n.stage = after.to /\ ~n.child
  BY <1>1 DEF CallRecords
<1> HIDE DEF n
<1>8. Sound(n)
  BY <1>1, <1>4, <1>5, <1>6, <1>7, ExtractSound
<1> QED BY <1>2, <1>3, <1>8, CallKeeps DEF n

LEMMA ReadCapabilityKeeps ==
  ASSUME CallsInv, NEW c \in Calls, ReadCapability(c)
  PROVE  CallsInv'
<1> DEFINE swept(r) == [r EXCEPT !.dir = FALSE, !.kind = Nothing, !.stage = Nothing, !.got = FALSE]
           given(cut, blank) == [Record(c, "ok") EXCEPT !.short = cut, !.flagged = cut, !.blank = blank]
<1>1. Sound(call[c]) /\ call[c] \in CallRecords /\ call[c].at = "extract"
  BY DEF CallsInv, Sound, ReadCapability, Does
<1>2. UNCHANGED <<kind, monitored, queued>>
  BY DEF ReadCapability, Rest, world, reply
<1>3. \/ call' = [call EXCEPT ![c] = swept(NotAvailable(c))]
      \/ \E cut \in BOOLEAN, blank \in BOOLEAN : call' = [call EXCEPT ![c] = swept(given(cut, blank))]
  <2> DEFINE blank1 == call[c].stage = "text" /\ ~call[c].got
             some   == {given(cut, blank1) : cut \in IF call[c].stage = "text" THEN BOOLEAN ELSE {FALSE}}
  <2>1. \E r \in {NotAvailable(c)} \cup (IF call[c].stage = "refused" THEN {} ELSE some) :
          call' = [call EXCEPT ![c] = swept(r)]
    BY DEF ReadCapability, Does
  <2>2. \A r \in some : \E cut \in BOOLEAN : r = given(cut, blank1)
    OBVIOUS
  <2>3. blank1 \in BOOLEAN
    OBVIOUS
  <2> HIDE DEF some, blank1, given, swept
  <2> QED BY <2>1, <2>2, <2>3
<1>4. ASSUME NEW r \in CallRecords, Sound(r), r.at = "record"
      PROVE  Sound(swept(r))
  <2> DEFINE n == swept(r)
  <2>1. n \in CallRecords
    BY <1>4 DEF CallRecords
  <2>2. /\ n.at = r.at /\ n.tool = r.tool /\ n.about = r.about /\ n.within = r.within
        /\ n.told = r.told /\ n.short = r.short /\ n.flagged = r.flagged /\ n.row = r.row
        /\ n.performed = r.performed /\ n.read = r.read /\ n.staged = r.staged /\ n.lost = r.lost
    BY <1>4 DEF CallRecords
  <2> HIDE DEF n
  <2>3. Sound(n)
    BY <1>4, <2>1, <2>2, Alike
  <2> QED BY <2>3 DEF n
<1>5. Sound(swept(NotAvailable(c)))
  <2>1. Sound(NotAvailable(c)) /\ NotAvailable(c) \in CallRecords
    BY <1>1, NotAvailableSound DEF Sound, Unstaged
  <2>2. NotAvailable(c).at = "record"
    BY <1>1 DEF NotAvailable, Record, CallRecords
  <2> QED BY <1>4, <2>1, <2>2
<1>6. ASSUME NEW cut \in BOOLEAN, NEW blank \in BOOLEAN PROVE Sound(swept(given(cut, blank)))
  <2> DEFINE r == [Record(c, "ok") EXCEPT !.short = cut, !.flagged = cut]
             n == given(cut, blank)
  <2>1. Sound(r)
    BY <1>1, CutSound DEF Unstaged
  <2>2. n \in CallRecords
    BY <1>1 DEF Record, CallRecords
  <2>3. /\ n.at = "record" /\ r.at = "record" /\ n.at = r.at /\ n.tool = r.tool
        /\ n.about = r.about /\ n.within = r.within
        /\ n.told = r.told /\ n.short = r.short /\ n.flagged = r.flagged /\ n.row = r.row
        /\ n.performed = r.performed /\ n.read = r.read /\ n.staged = r.staged /\ n.lost = r.lost
    BY <1>1 DEF Record, CallRecords
  <2> HIDE DEF r, n
  <2>4. Sound(n)
    BY <2>1, <2>2, <2>3, Alike
  <2> QED BY <1>4, <2>2, <2>3, <2>4 DEF n
<1> HIDE DEF swept, given
<1> QED BY <1>2, <1>3, <1>5, <1>6, CallKeeps

(* A recorded call is on its way back, with one row more or none.           *)
LEMMA RecordToolCallKeeps ==
  ASSUME CallsInv, NEW c \in Calls, RecordToolCall(c) \/ RecordMediaRead(c)
  PROVE  CallsInv'
<1>1. Sound(call[c]) /\ call[c] \in CallRecords /\ call[c].at = "record"
  BY DEF CallsInv, Sound, RecordToolCall, RecordMediaRead, Does
<1>2. UNCHANGED <<kind, monitored, queued>>
  BY DEF RecordToolCall, RecordMediaRead, Rest, world, reply
<1>3. PICK n \in Recorded(c) : call' = [call EXCEPT ![c] = n]
  BY DEF RecordToolCall, RecordMediaRead, Does
<1>4. /\ call[c].tool \in Tools /\ call[c].read = 0 /\ call[c].staged \in 0 .. 1
      /\ call[c].tool \in ReadTools => call[c].staged = 0
  BY <1>1 DEF Sound, ToolSound, RowSound, UnderWay
<1>5. \/ n = [Heeded(c) EXCEPT !.lost = TRUE]
      \/ call[c].tool \in ReadTools /\ n = [Heeded(c) EXCEPT !.read = @ + 1]
      \/ call[c].tool \notin ReadTools /\ n = [Heeded(c) EXCEPT !.staged = @ + 1]
  BY DEF Recorded
<1>6. n \in CallRecords
  <2>1. call[c].read + 1 \in 0 .. 1 /\ call[c].staged + 1 \in 0 .. 2
    BY <1>4
  <2>2. Heeded(c) \in CallRecords
    BY <1>1 DEF Heeded, CallRecords
  <2>6. Heeded(c).read = call[c].read /\ Heeded(c).staged = call[c].staged
    BY <1>1 DEF Heeded, CallRecords
  <2>3. CASE n = [Heeded(c) EXCEPT !.lost = TRUE]
    BY <2>2, <2>3 DEF CallRecords
  <2>4. CASE n = [Heeded(c) EXCEPT !.read = @ + 1]
    BY <2>1, <2>2, <2>6, <2>4 DEF CallRecords
  <2>5. CASE n = [Heeded(c) EXCEPT !.staged = @ + 1]
    BY <2>1, <2>2, <2>6, <2>5 DEF CallRecords
  <2> QED BY <1>5, <2>3, <2>4, <2>5
<1>7. /\ n.at = "answer" /\ n.tool = call[c].tool /\ n.about = {} /\ n.told = call[c].told
      /\ ~n.short /\ n.performed = call[c].performed /\ n.row = call[c].row
  <2>1. Heeded(c) \in CallRecords
    BY <1>1 DEF Heeded, CallRecords
  <2>2. /\ Heeded(c).at = "answer" /\ Heeded(c).tool = call[c].tool /\ Heeded(c).about = {}
        /\ Heeded(c).told = call[c].told /\ ~Heeded(c).short
        /\ Heeded(c).performed = call[c].performed /\ Heeded(c).row = call[c].row
    BY <1>1 DEF Heeded, CallRecords
  <2> QED BY <1>5, <2>1, <2>2 DEF CallRecords
<1>8. ~n.lost => IF n.tool \in ReadTools THEN n.read = 1 /\ n.staged = 0
                                         ELSE n.read = 0 /\ n.staged >= 1
  <2>1. CASE n = [Heeded(c) EXCEPT !.lost = TRUE]
    BY <1>1, <2>1 DEF Heeded, CallRecords
  <2>2. CASE call[c].tool \in ReadTools /\ n = [Heeded(c) EXCEPT !.read = @ + 1]
    BY <1>1, <1>4, <2>2 DEF Heeded, CallRecords
  <2>3. CASE call[c].tool \notin ReadTools /\ n = [Heeded(c) EXCEPT !.staged = @ + 1]
    BY <1>1, <1>4, <2>3 DEF Heeded, CallRecords
  <2> QED BY <1>5, <2>1, <2>2, <2>3
<1>9. Sound(n)
  BY <1>1, <1>4, <1>6, <1>7, <1>8
  DEF Sound, ToolSound, ReachSound, RowSound, ToldSound, UnderWay, Unstaged, Staging
<1> QED BY <1>2, <1>3, <1>9, CallKeeps

LEMMA ClipKeeps ==
  ASSUME CallsInv, NEW c \in Calls, NEW size, NEW given, Clip(c, size, given)
  PROVE  CallsInv'
<1>1. Sound(call[c]) /\ UNCHANGED <<kind, monitored, queued>>
  BY DEF CallsInv, Clip, world
<1>2. PICK told : /\ told = "spent" \/ told = call[c].told
                  /\ call' = [call EXCEPT ![c] = Settled(c, told)]
  BY DEF Clip, Does
<1> QED BY <1>1, <1>2, SettledSound, CallKeeps

(* One step of one call.                                                    *)
LEMMA RunKeeps ==
  ASSUME CallsInv, NEW c \in Calls, Run(c) \/ Finish(c) \/ OwnerDecides(c)
  PROVE  CallsInv'
<1>1. ASSUME RunGroupTool(c) PROVE CallsInv'
  BY <1>1, ResolveKeeps, ReadGroupKeeps, ReadGroupMessagesKeeps, ListMonitoredGroupsKeeps, FindSendKeeps,
     CancelScheduledSendKeeps, StageGroupActionKeeps, DecideKeeps, ExecuteKeeps, RecordToolCallKeeps
  DEF RunGroupTool
<1>2. ASSUME RunMediaTool(c) PROVE CallsInv'
  BY <1>2, LoadScopedMediaKeeps, ReadObjectKeeps, RunExtractorKeeps, FinishKeeps, ReadCapabilityKeeps,
     RecordToolCallKeeps
  DEF RunMediaTool
<1> QED BY <1>1, <1>2, RefuseKeeps, ClipKeeps, FinishKeeps, DecideKeeps DEF Run

(* The owner moves a group: the calls under way may act on either scope.    *)
LEMMA MoveGroupKeeps ==
  ASSUME CallsInv, NEW g \in Groups, Move(g)
  PROVE  CallsInv'
<1>1. UNCHANGED <<kind, queued>> /\ monitored' \in SUBSET Groups
  BY DEF CallsInv, Move, reply
<1>2. /\ call' = [c \in Calls |-> call'[c]]
      /\ \A c \in Calls : call'[c] = IF call[c].at \in {"idle", "answer", "done"} THEN call[c]
                                     ELSE [call[c] EXCEPT !.within = @ \cup monitored']
  BY DEF Move
<1>3. ASSUME NEW r, Sound(r), r.at \in {"idle", "answer", "done"}
      PROVE  Sound(r)'
  BY <1>1, <1>3 DEF Sound, ToolSound, ReachSound, RowSound, ToldSound, UnderWay, Unstaged, Staging
<1>4. ASSUME NEW r, Sound(r), NEW n, n = [r EXCEPT !.within = @ \cup monitored']
      PROVE  Sound(n)'
  <2>1. r \in CallRecords
    BY <1>4 DEF Sound
  <2>2. n \in CallRecords /\ n.within = r.within \cup monitored'
    BY <1>1, <1>4, <2>1 DEF CallRecords
  <2>3. /\ n.at = r.at /\ n.tool = r.tool /\ n.about = r.about /\ n.told = r.told
        /\ n.short = r.short /\ n.flagged = r.flagged /\ n.row = r.row
        /\ n.performed = r.performed /\ n.read = r.read /\ n.staged = r.staged /\ n.lost = r.lost
        /\ n.kind = r.kind /\ n.stage = r.stage /\ n.child = r.child
    BY <1>4, <2>1 DEF CallRecords
  <2>4. ToolSound(n)' /\ RowSound(n)' /\ ToldSound(n)'
    BY <1>1, <1>4, <2>3 DEF Sound, ToolSound, RowSound, ToldSound
  <2>5. ReachSound(n)'
    BY <1>1, <1>4, <2>2, <2>3 DEF Sound, ReachSound
  <2> QED BY <2>2, <2>4, <2>5 DEF Sound
<1>5. \A c \in Calls : Sound(call[c])'
  BY <1>2, <1>3, <1>4 DEF CallsInv
<1> QED BY <1>1, <1>2, <1>5 DEF CallsInv

(* A turn of the model makes its calls in the scope of the moment.          *)
LEMMA CallToolsKeeps ==
  ASSUME CallsInv, NEW turn, NEW o, CallTools(turn, o), \A c \in Calls : turn[c] \in Requests(c)
  PROVE  CallsInv'
<1> DEFINE n(c) == [Idle EXCEPT !.at = "called", !.tool = turn[c].tool, !.ref = turn[c].ref,
                                !.within = monitored]
<1>1. UNCHANGED <<kind, monitored, queued>>
  BY DEF CallTools, world
<1>2. call' = [c \in Calls |-> IF turn[c] = NoRequest THEN Idle ELSE n(c)]
  BY DEF CallTools
<1>3. ASSUME NEW c \in Calls, turn[c] # NoRequest
      PROVE  Sound(n(c))
  <2>1. turn[c].tool \in Tools /\ turn[c].ref \in Groups \cup Names \cup {Nothing}
    <3>0. PICK tool \in ToolsOf[c] : \E ref \in Refs(tool) : turn[c] = [tool |-> tool, ref |-> ref]
      BY <1>3 DEF Requests
    <3>1. PICK ref \in Refs(tool) : turn[c] = [tool |-> tool, ref |-> ref]
      BY <3>0
    <3>2. tool \in Tools
      BY ToolsAssumption
    <3>3. ref \in Groups \cup Names \cup {Nothing}
      BY DEF Refs
    <3> QED BY <3>1, <3>2, <3>3
  <2>2. n(c) \in CallRecords
    <3>1. Idle \in CallRecords /\ monitored \in SUBSET Groups
      BY IdleSound DEF Sound, CallsInv
    <3> QED BY <2>1, <3>1 DEF CallRecords
  <2>3. /\ n(c).at = "called" /\ n(c).tool \in Tools /\ n(c).about = {} /\ n(c).within = monitored
        /\ n(c).told = Nothing /\ ~n(c).short /\ n(c).read = 0 /\ n(c).staged = 0
    BY <2>1 DEF Idle
  <2> HIDE DEF n
  <2> QED BY <2>2, <2>3 DEF Sound, ToolSound, ReachSound, RowSound, ToldSound, UnderWay, Unstaged,
       Staging, Nothing
<1> HIDE DEF n
<1>4. ASSUME NEW r, Sound(r) PROVE Sound(r)'
  BY <1>1, <1>4 DEF Sound, ToolSound, ReachSound, RowSound, ToldSound
<1>5. \A c \in Calls : Sound(call'[c])
  BY <1>2, <1>3, IdleSound
<1>6. \A c \in Calls : Sound(call[c])'
  BY <1>4, <1>5
<1> QED BY <1>1, <1>2, <1>6 DEF CallsInv

LEMMA CallsInit == ToolsInit => CallsInv
<1> SUFFICES ASSUME ToolsInit PROVE CallsInv
  OBVIOUS
<1>1. call = [c \in Calls |-> Idle] /\ monitored = Groups /\ kind \in {"group", "user"}
      /\ queued = [status |-> "scheduled", posted |-> FALSE]
  BY DEF ToolsInit
<1> QED BY <1>1, IdleSound DEF CallsInv

LEMMA CallsStep == CallsInv /\ [ToolsNext]_toolsVars => CallsInv'
<1> SUFFICES ASSUME CallsInv, [ToolsNext]_toolsVars PROVE CallsInv'
  OBVIOUS
<1>1. ASSUME UNCHANGED <<kind, monitored, queued, call>> PROVE CallsInv'
  BY <1>1 DEF CallsInv, Sound, ToolSound, ReachSound, RowSound, ToldSound
<1>2. CASE Prepare \/ AnswerOwner \/ AskAgain \/ Abandon \/ UNCHANGED toolsVars
           \/ \E s \in Summaries : StoreBatch(s)
  BY <1>1, <1>2 DEF Prepare, RecallMemory, Connect, Assemble, AnswerOwner, AskAgain, Abandon, StoreBatch,
                    toolsVars, world, reply
<1>3. CASE Continue
  <2>1. call' = [c \in Calls |-> Idle] /\ UNCHANGED <<kind, monitored, queued>>
    BY <1>3 DEF Continue, world
  <2>2. Sound(Idle)'
    BY <2>1, IdleSound DEF Sound, ToolSound, ReachSound, RowSound, ToldSound, Idle
  <2>3. \A c \in Calls : Sound(call[c])'
    BY <2>1, <2>2
  <2> QED BY <2>1, <2>3 DEF CallsInv
<1>4. CASE Generate
  BY <1>2, <1>4, CallToolsKeeps DEF Generate
<1> QED BY <1>2, <1>3, <1>4, RunKeeps, MoveGroupKeeps, DispatchKeeps DEF ToolsNext

(* A call answers, or acts, only about what was in scope during that call.  *)
THEOREM AnswersStayAuthorised == ToolsSpec => []AnswersWereAuthorised
<1>1. CallsInv => AnswersWereAuthorised
  BY DEF CallsInv, Sound, ReachSound, AnswersWereAuthorised
<1> QED BY <1>1, CallsInit, CallsStep, PTL DEF ToolsSpec

(* A call that was answered has left its row, unless the log failed.        *)
THEOREM CallsStayRecorded == ToolsSpec => []CallsAreRecorded
<1>1. CallsInv => CallsAreRecorded
  BY DEF CallsInv, Sound, RowSound, CallsAreRecorded
<1> QED BY <1>1, CallsInit, CallsStep, PTL DEF ToolsSpec

(* What the model is told was done was done, and stays done.                *)
THEOREM DoneMeansDone == ToolsSpec => []DoneIsDone
<1>1. CallsInv => DoneIsDone
  BY DEF CallsInv, Sound, ToldSound, DoneIsDone
<1> QED BY <1>1, CallsInit, CallsStep, PTL DEF ToolsSpec

(***************************************************************************)
(* The table of a file                                                     *)
(***************************************************************************)
(* Steps from 0 to n, with what holds as a set.                             *)
LEMMA StepByStep ==
  ASSUME NEW n \in Nat, NEW T, 0 \in T, \A k \in 0 .. n : k \in T /\ k < n => k + 1 \in T
  PROVE  \A k \in 0 .. n : k \in T
<1> DEFINE B == {k \in 0 .. n : k \notin T}
<1> SUFFICES ASSUME B # {} PROVE FALSE
  OBVIOUS
<1>1. n \in Int /\ 0 \in Int
  OBVIOUS
<1>2. IsFiniteSet(0 .. n)
  BY <1>1, FS_Interval
<1>3. IsWellFoundedOn(StrictSubsetOrdering(0 .. n), SUBSET (0 .. n))
  BY <1>2, FS_StrictSubsetOrderingWellFounded, FS_FiniteSubsetsOfFinite
<1>4. PICK F : F = {0 .. k : k \in B}
  OBVIOUS
<1>5. F \subseteq SUBSET (0 .. n) /\ F # {}
  BY <1>4
<1>6. PICK x \in F : \A y \in F : ~(<<y, x>> \in StrictSubsetOrdering(0 .. n))
  BY <1>3, <1>5, WFMin
<1>7. PICK f \in B : x = 0 .. f
  BY <1>4
<1>8. f \in Nat /\ f # 0 /\ f - 1 \in 0 .. n /\ f - 1 < n /\ (f - 1) + 1 = f
  BY <1>7
<1>9. f - 1 \in B
  BY <1>7, <1>8
<1>10. 0 .. (f - 1) \subseteq x /\ f \in x /\ f \notin 0 .. (f - 1)
  BY <1>7, <1>8
<1>11. 0 .. (f - 1) \in F /\ 0 .. (f - 1) # x
  BY <1>4, <1>9, <1>10
<1>12. <<0 .. (f - 1), x>> \in StrictSubsetOrdering(0 .. n)
  BY <1>5, <1>10, <1>11 DEF StrictSubsetOrdering
<1> QED BY <1>6, <1>11, <1>12

(* The character behind place k of a text that after follows.               *)
Behind(text, after, k) == IF k < Len(text) THEN text[k + 1] ELSE after

(* f is the reader's way through the text from s.                           *)
Way(f, text, s, after, n) ==
  /\ DOMAIN f = 0 .. n /\ f[0] = s
  /\ \A k \in 1 .. n : f[k] = NextCharacter(f[k - 1], text[k], Behind(text, after, k))

Text == Seq(Characters)

LEMMA WayExists ==
  ASSUME NEW text, Len(text) \in Nat, NEW s, NEW after
  PROVE  \E f : Way(f, text, s, after, Len(text))
<1> DEFINE T == {n \in 0 .. Len(text) : \E f : Way(f, text, s, after, n)}
<1>1. 0 \in T
  <2> DEFINE z == [k \in 0 .. 0 |-> s]
  <2>1. Way(z, text, s, after, 0)
    BY DEF Way
  <2> QED BY <2>1
<1>2. ASSUME NEW n \in 0 .. Len(text), n \in T, n < Len(text) PROVE n + 1 \in T
  <2>1. PICK f : Way(f, text, s, after, n)
    BY <1>2
  <2> DEFINE next == NextCharacter(f[n], text[n + 1], Behind(text, after, n + 1))
             g == [k \in 0 .. (n + 1) |-> IF k = n + 1 THEN next ELSE f[k]]
  <2>2. n \in Nat /\ n + 1 \in 0 .. Len(text) /\ n + 1 # 0 /\ (n + 1) - 1 = n
    BY <1>2
  <2>3. DOMAIN g = 0 .. (n + 1) /\ g[0] = s
    BY <2>1, <2>2 DEF Way
  <2>4. g[n + 1] = next /\ g[n] = f[n]
    BY <2>2
  <2>5. ASSUME NEW k \in 1 .. n PROVE g[k] = f[k] /\ g[k - 1] = f[k - 1]
    BY <2>2
  <2>6. \A k \in 1 .. (n + 1) : k = n + 1 \/ k \in 1 .. n
    BY <2>2
  <2> HIDE DEF g
  <2>7. \A k \in 1 .. (n + 1) : g[k] = NextCharacter(g[k - 1], text[k], Behind(text, after, k))
    <3>1. g[n + 1] = NextCharacter(g[(n + 1) - 1], text[n + 1], Behind(text, after, n + 1))
      BY <2>2, <2>4, Zenon
    <3>2. ASSUME NEW k \in 1 .. n
          PROVE  g[k] = NextCharacter(g[k - 1], text[k], Behind(text, after, k))
      <4>1. f[k] = NextCharacter(f[k - 1], text[k], Behind(text, after, k))
        BY <2>1, Zenon DEF Way
      <4> QED BY <2>5, <4>1, Zenon
    <3> QED BY <2>6, <3>1, <3>2, Zenon
  <2>8. Way(g, text, s, after, n + 1)
    BY <2>3, <2>7, Zenon DEF Way
  <2> QED BY <2>2, <2>8
<1>3. \A k \in 0 .. Len(text) : k \in T /\ k < Len(text) => k + 1 \in T
  BY <1>2
<1> HIDE DEF T
<1>4. Len(text) \in 0 .. Len(text)
  OBVIOUS
<1>5. Len(text) \in T
  BY <1>1, <1>3, <1>4, StepByStep
<1> QED BY <1>5 DEF T

LEMMA OneWay ==
  ASSUME NEW text, Len(text) \in Nat, NEW s, NEW after, NEW f, NEW g,
         Way(f, text, s, after, Len(text)), Way(g, text, s, after, Len(text))
  PROVE  f[Len(text)] = g[Len(text)]
<1> DEFINE T == {k \in 0 .. Len(text) : f[k] = g[k]}
<1>1. 0 \in T
  BY DEF Way
<1>2. ASSUME NEW k \in 0 .. Len(text), k \in T, k < Len(text) PROVE k + 1 \in T
  <2>1. k + 1 \in 1 .. Len(text) /\ k + 1 \in 0 .. Len(text) /\ (k + 1) - 1 = k /\ f[k] = g[k]
    BY <1>2
  <2>2. f[k + 1] = NextCharacter(f[(k + 1) - 1], text[k + 1], Behind(text, after, k + 1))
    BY <2>1, Zenon DEF Way
  <2>3. g[k + 1] = NextCharacter(g[(k + 1) - 1], text[k + 1], Behind(text, after, k + 1))
    BY <2>1, Zenon DEF Way
  <2>4. f[k + 1] = g[k + 1]
    BY <2>1, <2>2, <2>3, Zenon
  <2> QED BY <2>1, <2>4
<1>3. \A k \in 0 .. Len(text) : k \in T /\ k < Len(text) => k + 1 \in T
  BY <1>2
<1> HIDE DEF T
<1>4. Len(text) \in 0 .. Len(text)
  OBVIOUS
<1>5. Len(text) \in T
  BY <1>1, <1>3, <1>4, StepByStep
<1> QED BY <1>5 DEF T

LEMMA ReadingIs ==
  ASSUME NEW text, Len(text) \in Nat, NEW s, NEW after, NEW f, Way(f, text, s, after, Len(text))
  PROVE  Reading(text, s, after) = f[Len(text)]
<1> DEFINE P(h) == h = [i \in 0 .. Len(text) |->
                          IF i = 0 THEN s
                          ELSE NextCharacter(h[i - 1], text[i], IF i < Len(text) THEN text[i + 1] ELSE after)]
           g == CHOOSE h : P(h)
<1>1. P(f)
  <2>1. \A i \in 0 .. Len(text) : i = 0 \/ i \in 1 .. Len(text)
    OBVIOUS
  <2>2. ASSUME NEW i \in 0 .. Len(text)
        PROVE  f[i] = IF i = 0 THEN s
                      ELSE NextCharacter(f[i - 1], text[i], IF i < Len(text) THEN text[i + 1] ELSE after)
    <3>1. CASE i = 0
      BY <3>1, Zenon DEF Way
    <3>2. CASE i # 0
      BY <2>1, <3>2, Zenon DEF Way, Behind
    <3> QED BY <3>1, <3>2
  <2>3. f = [i \in 0 .. Len(text) |-> f[i]]
    BY DEF Way
  <2> QED BY <2>2, <2>3, Zenon
<1>2. P(g)
  BY <1>1, Zenon
<1>3. Reading(text, s, after) = g[Len(text)]
  BY Zenon DEF Reading
<1> HIDE DEF g
<1>4. Way(g, text, s, after, Len(text))
  <2>1. g = [i \in 0 .. Len(text) |->
               IF i = 0 THEN s
               ELSE NextCharacter(g[i - 1], text[i], IF i < Len(text) THEN text[i + 1] ELSE after)]
    BY <1>2, Zenon
  <2>2. DOMAIN g = 0 .. Len(text)
    BY <2>1, Zenon
  <2>3. \A i \in 1 .. Len(text) : i \in 0 .. Len(text) /\ i # 0
    OBVIOUS
  <2>4. 0 \in 0 .. Len(text)
    OBVIOUS
  <2>5. g[0] = s
    BY <2>1, <2>4, Zenon
  <2>6. ASSUME NEW i \in 1 .. Len(text)
        PROVE  g[i] = NextCharacter(g[i - 1], text[i], Behind(text, after, i))
    BY <2>1, <2>3, Zenon DEF Behind
  <2> QED BY <2>2, <2>5, <2>6, Zenon DEF Way
<1>5. g[Len(text)] = f[Len(text)]
  BY <1>4, OneWay
<1> QED BY <1>3, <1>5

(* What two texts after one another are read as.                            *)
LEMMA ReadingBoth ==
  ASSUME NEW a \in Text, NEW b \in Text, NEW s, NEW after
  PROVE  Reading(a \o b, s, after) = Reading(b, Reading(a, s, Behind(b, after, 0)), after)
<1> DEFINE m == Len(a)
           n == Len(b)
<1>1. /\ m \in Nat /\ n \in Nat /\ Len(a \o b) = m + n
      /\ \A k \in 1 .. m + n : (a \o b)[k] = IF k <= m THEN a[k] ELSE b[k - m]
  BY DEF Text
<1> DEFINE between == Behind(b, after, 0)
<1>2. PICK f : Way(f, a, s, between, m)
  BY <1>1, WayExists
<1>3. Reading(a, s, between) = f[m]
  BY <1>1, <1>2, ReadingIs
<1>4. PICK g : Way(g, b, f[m], after, n)
  BY <1>1, WayExists
<1>5. Reading(b, f[m], after) = g[n]
  BY <1>1, <1>4, ReadingIs
<1> DEFINE ab == a \o b
           h == [k \in 0 .. (m + n) |-> IF k <= m THEN f[k] ELSE g[k - m]]
<1>6. \A k \in 1 .. m : ab[k] = a[k] /\ Behind(ab, after, k) = Behind(a, between, k)
  <2> SUFFICES ASSUME NEW k \in 1 .. m
               PROVE  ab[k] = a[k] /\ Behind(ab, after, k) = Behind(a, between, k)
    OBVIOUS
  <2>1. CASE k < m
    BY <1>1, <2>1 DEF Behind
  <2>2. CASE k = m
    BY <1>1, <2>2 DEF Behind
  <2> QED BY <1>1, <2>1, <2>2
<1>7. \A k \in 1 .. n : ab[m + k] = b[k] /\ Behind(ab, after, m + k) = Behind(b, after, k)
  BY <1>1 DEF Behind
<1>8. Len(ab) = m + n
  BY <1>1
<1> HIDE DEF m, n, ab, between
<1>9. Way(h, ab, s, after, m + n)
  <2>1. DOMAIN h = 0 .. (m + n) /\ h[0] = s
    BY <1>1, <1>2 DEF Way
  <2>2. ASSUME NEW k \in 1 .. m
        PROVE  h[k] = NextCharacter(h[k - 1], ab[k], Behind(ab, after, k))
    <3>1. h[k] = f[k] /\ h[k - 1] = f[k - 1]
      BY <1>1
    <3> HIDE DEF h
    <3>2. f[k] = NextCharacter(f[k - 1], a[k], Behind(a, between, k))
      BY <1>2, Zenon DEF Way
    <3> QED BY <1>6, <3>1, <3>2, Zenon
  <2>3. ASSUME NEW k \in 1 .. n
        PROVE  h[m + k] = NextCharacter(h[(m + k) - 1], ab[m + k], Behind(ab, after, m + k))
    <3>1. h[m + k] = g[k]
      BY <1>1
    <3>2. h[(m + k) - 1] = g[k - 1]
      <4>1. CASE k = 1
        <5>1. h[(m + k) - 1] = f[m] /\ k - 1 = 0
          BY <1>1, <4>1
        <5> QED BY <1>4, <5>1 DEF Way
      <4>2. CASE k # 1
        BY <1>1, <4>2
      <4> QED BY <4>1, <4>2
    <3> HIDE DEF h
    <3>3. g[k] = NextCharacter(g[k - 1], b[k], Behind(b, after, k))
      BY <1>4, Zenon DEF Way
    <3> QED BY <1>7, <3>1, <3>2, <3>3, Zenon
  <2> HIDE DEF h
  <2>4. \A j \in 1 .. (m + n) : j \in 1 .. m \/ \E k \in 1 .. n : j = m + k
    <3> SUFFICES ASSUME NEW j \in 1 .. (m + n), j \notin 1 .. m PROVE \E k \in 1 .. n : j = m + k
      OBVIOUS
    <3>1. j - m \in 1 .. n /\ j = m + (j - m)
      BY <1>1
    <3> QED BY <3>1
  <2>5. \A j \in 1 .. (m + n) : h[j] = NextCharacter(h[j - 1], ab[j], Behind(ab, after, j))
    BY <2>2, <2>3, <2>4, Zenon
  <2> QED BY <2>1, <2>5, Zenon DEF Way
<1>10. h[m + n] = g[n]
  <2>1. CASE n = 0
    <3>1. h[m + n] = f[m] /\ g[n] = f[m]
      BY <1>1, <1>4, <2>1 DEF Way
    <3> QED BY <3>1
  <2>2. CASE n # 0
    BY <1>1, <2>2
  <2> QED BY <2>1, <2>2
<1> HIDE DEF h
<1>11. Reading(ab, s, after) = h[m + n]
  BY <1>1, <1>8, <1>9, ReadingIs
<1> QED BY <1>3, <1>5, <1>10, <1>11 DEF ab, between

(* The texts of a sequence, joined up to each of them.                      *)
LEMMA JoinedSteps ==
  ASSUME NEW texts \in Seq(Text)
  PROVE  \E j \in [0 .. Len(texts) -> Text] :
            /\ j[0] = <<>> /\ \A k \in 1 .. Len(texts) : j[k] = j[k - 1] \o texts[k]
            /\ Joined(texts) = j[Len(texts)]
<1> DEFINE N == Len(texts)
           Steps(j, n) == j[0] = <<>> /\ \A k \in 1 .. n : j[k] = j[k - 1] \o texts[k]
           P(h) == h = [n \in 0 .. N |-> IF n = 0 THEN <<>> ELSE h[n - 1] \o texts[n]]
           T == {n \in 0 .. N : \E j \in [0 .. n -> Text] : Steps(j, n)}
<1>0. N \in Nat /\ N \in 0 .. N /\ \A k \in 1 .. N : texts[k] \in Text
  OBVIOUS
<1>1. 0 \in T
  <2> DEFINE z == [k \in 0 .. 0 |-> <<>>]
  <2>0. <<>> \in Text
    BY DEF Text
  <2>1. z \in [0 .. 0 -> Text] /\ Steps(z, 0)
    BY <2>0
  <2>2. 0 \in 0 .. N
    BY <1>0
  <2> HIDE DEF z, N, Steps
  <2> QED BY <2>1, <2>2
<1>2. ASSUME NEW n \in 0 .. N, n \in T, n < N PROVE n + 1 \in T
  <2>1. PICK j \in [0 .. n -> Text] : Steps(j, n)
    BY <1>2
  <2> HIDE DEF N
  <2>2. n \in Nat /\ n + 1 \in 1 .. N /\ n + 1 \in 0 .. N /\ texts[n + 1] \in Text /\ j[n] \in Text
    BY <1>0, <1>2
  <2>3. j[n] \o texts[n + 1] \in Text
    BY <2>2 DEF Text
  <2> DEFINE g == [k \in 0 .. (n + 1) |-> IF k = n + 1 THEN j[n] \o texts[n + 1] ELSE j[k]]
  <2>4. g \in [0 .. (n + 1) -> Text]
    BY <2>2, <2>3
  <2>5. g[0] = <<>>
    BY <2>1, <2>2
  <2>6. g[n + 1] = g[n] \o texts[n + 1] /\ (n + 1) - 1 = n
    <3>1. n \in 0 .. (n + 1) /\ n + 1 \in 0 .. (n + 1) /\ n # n + 1
      BY <2>2
    <3>2. g[n + 1] = j[n] \o texts[n + 1] /\ g[n] = j[n]
      BY <3>1, Zenon
    <3>3. (n + 1) - 1 = n
      BY <2>2
    <3> QED BY <3>2, <3>3, Zenon
  <2>7. ASSUME NEW k \in 1 .. n PROVE g[k] = g[k - 1] \o texts[k]
    <3>1. g[k] = j[k] /\ g[k - 1] = j[k - 1]
      BY <2>2
    <3> QED BY <2>1, <3>1
  <2>8. \A k \in 1 .. (n + 1) : k = n + 1 \/ k \in 1 .. n
    BY <2>2
  <2> HIDE DEF g
  <2>9. Steps(g, n + 1)
    BY <2>5, <2>6, <2>7, <2>8
  <2> HIDE DEF Steps
  <2> QED BY <2>2, <2>4, <2>9
<1>3. N \in T
  <2>1. \A k \in 0 .. N : k \in T /\ k < N => k + 1 \in T
    BY <1>2
  <2> HIDE DEF T, N
  <2>2. \A k \in 0 .. N : k \in T
    BY <1>0, <1>1, <2>1, StepByStep
  <2> QED BY <1>0, <2>2
<1>4. PICK j \in [0 .. N -> Text] : Steps(j, N)
  BY <1>3
<1>5. P(j)
  <2>1. \A k \in 0 .. N : k # 0 => k \in 1 .. N
    BY <1>0
  <2>2. \A k \in 0 .. N : j[k] = IF k = 0 THEN <<>> ELSE j[k - 1] \o texts[k]
    BY <1>4, <2>1
  <2> QED BY <2>2
<1> DEFINE g == CHOOSE h : P(h)
<1>6. P(g)
  BY <1>5, Zenon
<1>7. Joined(texts) = g[N]
  BY Zenon DEF Joined
<1> HIDE DEF g
<1>8. Steps(g, N) /\ DOMAIN g = 0 .. N
  BY <1>0, <1>6
<1>9. \A k \in 0 .. N : g[k] = j[k]
  <2> DEFINE U == {k \in 0 .. N : g[k] = j[k]}
  <2>1. 0 \in U
    BY <1>0, <1>4, <1>8
  <2>2. \A k \in 0 .. N : k \in U /\ k < N => k + 1 \in U
    <3> SUFFICES ASSUME NEW k \in 0 .. N, k \in U, k < N PROVE k + 1 \in U
      OBVIOUS
    <3>1. k + 1 \in 1 .. N /\ g[k] = j[k] /\ (k + 1) - 1 = k
      BY <1>0
    <3>2. g[k + 1] = g[k] \o texts[k + 1] /\ j[k + 1] = j[k] \o texts[k + 1]
      BY <1>4, <1>8, <3>1
    <3>3. g[k + 1] = j[k + 1]
      BY <3>1, <3>2
    <3> QED BY <3>1, <3>3
  <2> HIDE DEF U, N
  <2>3. \A k \in 0 .. N : k \in U
    BY <1>0, <2>1, <2>2, StepByStep
  <2> QED BY <2>3 DEF U
<1> QED BY <1>0, <1>4, <1>7, <1>9

LEMMA ReadingNone ==
  ASSUME NEW s, NEW after
  PROVE  Reading(<<>>, s, after) = s
<1> DEFINE f == [k \in 0 .. 0 |-> s]
<1>1. Way(f, <<>>, s, after, 0)
  BY DEF Way
<1>2. Len(<<>>) = 0 /\ f[0] = s
  OBVIOUS
<1> HIDE DEF f
<1> QED BY <1>1, <1>2, ReadingIs

LEMMA ReadingOne ==
  ASSUME NEW c \in Characters, NEW s, NEW after
  PROVE  Reading(<<c>>, s, after) = NextCharacter(s, c, after)
<1> DEFINE next == NextCharacter(s, c, after)
           f == [k \in 0 .. 1 |-> IF k = 0 THEN s ELSE next]
<1>1. Len(<<c>>) = 1 /\ <<c>>[1] = c /\ Behind(<<c>>, after, 1) = after
  BY DEF Behind
<1>2. f[0] = s /\ f[1] = next /\ DOMAIN f = 0 .. 1
  OBVIOUS
<1> HIDE DEF f
<1>3. f[1] = NextCharacter(f[1 - 1], <<c>>[1], Behind(<<c>>, after, 1))
  <2>1. 1 - 1 = 0
    OBVIOUS
  <2> QED BY <1>1, <1>2, <2>1, Zenon
<1>4. \A k \in 1 .. 1 : k = 1
  OBVIOUS
<1>5. Way(f, <<c>>, s, after, 1)
  BY <1>2, <1>3, <1>4, Zenon DEF Way
<1> QED BY <1>1, <1>2, <1>5, ReadingIs

(* Texts read one by one, each from a state of its set, followed by what    *)
(* begins the next.                                                         *)
LEMMA ReadingAll ==
  ASSUME NEW texts \in Seq(Text \ {<<>>}), NEW S, NEW after,
         \A k \in 1 .. Len(texts) : \A s \in S[k - 1] :
            Reading(texts[k], s, IF k < Len(texts) THEN texts[k + 1][1] ELSE after) \in S[k]
  PROVE  \A s \in S[0] : Reading(Joined(texts), s, after) \in S[Len(texts)]
<1> TAKE s \in S[0]
<1> DEFINE N == Len(texts)
           Next1(k) == IF k < N THEN texts[k + 1][1] ELSE after
<1>0. N \in Nat /\ N \in 0 .. N /\ texts \in Seq(Text) /\ \A k \in 1 .. N : texts[k] \in Text \ {<<>>}
  OBVIOUS
<1>1. PICK j \in [0 .. N -> Text] :
         /\ j[0] = <<>> /\ \A k \in 1 .. N : j[k] = j[k - 1] \o texts[k]
         /\ Joined(texts) = j[N]
  BY <1>0, JoinedSteps
<1> DEFINE T == {k \in 0 .. N : Reading(j[k], s, Next1(k)) \in S[k]}
<1>2. 0 \in T
  <2>1. Reading(j[0], s, Next1(0)) = s
    BY <1>1, ReadingNone
  <2> HIDE DEF Next1, N
  <2> QED BY <1>0, <2>1
<1>3. ASSUME NEW k \in 0 .. N, k \in T, k < N PROVE k + 1 \in T
  <2>1. k + 1 \in 1 .. N /\ k + 1 \in 0 .. N /\ (k + 1) - 1 = k
    BY <1>0, <1>3
  <2> DEFINE t == texts[k + 1]
  <2>2. t \in Text /\ Len(t) > 0 /\ j[k] \in Text
    <3>1. t \in Text /\ t # <<>> /\ j[k] \in Text
      BY <1>0, <1>1, <2>1
    <3>2. Len(t) > 0
      BY <3>1 DEF Text
    <3> QED BY <3>1, <3>2
  <2>3. Behind(t, Next1(k + 1), 0) = Next1(k)
    BY <1>3, <2>2 DEF Behind
  <2>4. j[k + 1] = j[k] \o t
    BY <1>1, <2>1
  <2>5. Reading(j[k], s, Next1(k)) \in S[(k + 1) - 1]
    BY <1>3, <2>1
  <2>6. \A u \in S[(k + 1) - 1] : Reading(texts[k + 1], u, Next1(k + 1)) \in S[k + 1]
    BY <2>1
  <2> HIDE DEF Next1, N
  <2>7. Reading(t, Reading(j[k], s, Next1(k)), Next1(k + 1)) \in S[k + 1]
    BY <2>5, <2>6
  <2>8. Reading(j[k] \o t, s, Next1(k + 1)) = Reading(t, Reading(j[k], s, Next1(k)), Next1(k + 1))
    BY <2>2, <2>3, ReadingBoth
  <2>9. Reading(j[k + 1], s, Next1(k + 1)) \in S[k + 1]
    BY <2>4, <2>7, <2>8, Zenon
  <2> QED BY <2>1, <2>9
<1>4. N \in T
  <2>1. \A k \in 0 .. N : k \in T /\ k < N => k + 1 \in T
    BY <1>3
  <2> HIDE DEF T, N
  <2> QED BY <1>0, <1>2, <2>1, StepByStep
<1>5. Next1(N) = after
  BY <1>0
<1> HIDE DEF Next1
<1> QED BY <1>1, <1>4, <1>5

(* The reader in a field that is all there so far, as is all before it.     *)
At(field, row, records, quoted) ==
  [field |-> field, row |-> row, records |-> records,
   quoted |-> quoted, skip |-> FALSE, truncated |-> FALSE]

LEMMA PlainCharacter ==
  ASSUME NEW field, NEW row, NEW records, NEW c, c \notin {Comma, Quote, CR, LF}, NEW after
  PROVE  NextCharacter(At(field, row, records, FALSE), c, after)
           = At(Append(field, c), row, records, FALSE)
BY Zenon DEF NextCharacter, At, Added

LEMMA QuotedCharacter ==
  ASSUME NEW field, NEW row, NEW records, NEW c, c # Quote, NEW after
  PROVE  NextCharacter(At(field, row, records, TRUE), c, after)
           = At(Append(field, c), row, records, TRUE)
BY Zenon DEF NextCharacter, At, Added

LEMMA CharactersAreText ==
  /\ Comma \in Characters /\ Quote \in Characters /\ CR \in Characters /\ LF \in Characters
  /\ \A c \in Characters : <<c>> \in Text
BY TablesAssumption DEF Text

(* The reader that passes over the second one of two quotes.                *)
Past(field, row, records) ==
  [field |-> field, row |-> row, records |-> records,
   quoted |-> TRUE, skip |-> TRUE, truncated |-> FALSE]

LEMMA FirstQuote ==
  ASSUME NEW field, NEW row, NEW records
  PROVE  NextCharacter(At(field, row, records, TRUE), Quote, Quote)
           = Past(Append(field, Quote), row, records)
BY Zenon DEF NextCharacter, At, Added, Past

LEMMA SecondQuote ==
  ASSUME NEW field, NEW row, NEW records, NEW after
  PROVE  NextCharacter(Past(field, row, records), Quote, after) = At(field, row, records, TRUE)
BY Zenon DEF NextCharacter, At, Past

(* A character of a quoted cell, its quotes doubled.                        *)
LEMMA ReadingDoubled ==
  ASSUME NEW field, NEW row, NEW records, NEW c \in Characters, NEW after
  PROVE  Reading(IF c = Quote THEN <<Quote, Quote>> ELSE <<c>>, At(field, row, records, TRUE), after)
           = At(Append(field, c), row, records, TRUE)
<1>1. CASE c # Quote
  <2>1. Reading(<<c>>, At(field, row, records, TRUE), after) = NextCharacter(At(field, row, records, TRUE), c, after)
    BY ReadingOne, Zenon
  <2>2. NextCharacter(At(field, row, records, TRUE), c, after) = At(Append(field, c), row, records, TRUE)
    BY <1>1, QuotedCharacter, Zenon
  <2> QED BY <1>1, <2>1, <2>2, Zenon
<1>2. CASE c = Quote
  <2> DEFINE s == At(field, row, records, TRUE)
             t == Past(Append(field, Quote), row, records)
  <2>1. <<Quote, Quote>> = <<Quote>> \o <<Quote>> /\ <<Quote>> \in Text /\ Quote \in Characters
    BY CharactersAreText
  <2>2. Behind(<<Quote>>, after, 0) = Quote
    BY DEF Behind
  <2>3. Reading(<<Quote>>, s, Quote) = t
    BY <2>1, FirstQuote, ReadingOne, Zenon
  <2>4. Reading(<<Quote>>, t, after) = At(Append(field, Quote), row, records, TRUE)
    <3>1. NextCharacter(t, Quote, after) = At(Append(field, Quote), row, records, TRUE)
      BY SecondQuote, Zenon
    <3> HIDE DEF t
    <3>2. Reading(<<Quote>>, t, after) = NextCharacter(t, Quote, after)
      BY <2>1, ReadingOne
    <3> QED BY <3>1, <3>2, Zenon
  <2> HIDE DEF s, t
  <2>5. Reading(<<Quote>> \o <<Quote>>, s, after) = Reading(<<Quote>>, Reading(<<Quote>>, s, Quote), after)
    BY <2>1, <2>2, ReadingBoth
  <2> QED BY <1>2, <2>1, <2>3, <2>4, <2>5 DEF s
<1> QED BY <1>1, <1>2

LEMMA OneMore ==
  ASSUME NEW A, NEW q \in Seq(A), NEW k \in 0 .. Len(q), k < Len(q)
  PROVE  /\ Append(SubSeq(q, 1, k), q[k + 1]) = SubSeq(q, 1, k + 1)
         /\ SubSeq(q, 1, 0) = <<>> /\ SubSeq(q, 1, Len(q)) = q
<1>1. /\ SubSeq(q, 1, k) \in Seq(A) /\ Len(SubSeq(q, 1, k)) = k
      /\ \A i \in 1 .. k : SubSeq(q, 1, k)[i] = q[i]
  BY SubSeqProperties
<1>2. /\ SubSeq(q, 1, k + 1) \in Seq(A) /\ Len(SubSeq(q, 1, k + 1)) = k + 1
      /\ \A i \in 1 .. (k + 1) : SubSeq(q, 1, k + 1)[i] = q[i]
  BY SubSeqProperties
<1>3. q[k + 1] \in A
  OBVIOUS
<1> DEFINE a == Append(SubSeq(q, 1, k), q[k + 1])
<1>4. a \in Seq(A) /\ Len(a) = k + 1 /\ \A i \in 1 .. (k + 1) : a[i] = q[i]
  BY <1>1, <1>3
<1> HIDE DEF a
<1>5. a = SubSeq(q, 1, k + 1)
  BY <1>2, <1>4, SeqEqual
<1> QED BY <1>5, SubSeqFull, SubSeqEmpty DEF a

LEMMA WholeSeq ==
  ASSUME NEW A, NEW q \in Seq(A)
  PROVE  SubSeq(q, 1, 0) = <<>> /\ SubSeq(q, 1, Len(q)) = q
OBVIOUS

LEMMA PlainCell ==
  ASSUME NEW cell \in Text, NEW row, NEW records, NEW after,
         \A i \in 1 .. Len(cell) : cell[i] \notin {Comma, Quote, CR, LF}
  PROVE  Reading(cell, At(<<>>, row, records, FALSE), after) = At(cell, row, records, FALSE)
<1> DEFINE N == Len(cell)
           f == [k \in 0 .. N |-> At(SubSeq(cell, 1, k), row, records, FALSE)]
<1>0. N \in Nat /\ N \in 0 .. N /\ 0 \in 0 .. N
  BY DEF Text
<1>1. SubSeq(cell, 1, 0) = <<>> /\ SubSeq(cell, 1, N) = cell
  BY WholeSeq DEF Text
<1>2. f[0] = At(<<>>, row, records, FALSE) /\ f[N] = At(cell, row, records, FALSE) /\ DOMAIN f = 0 .. N
  BY <1>0, <1>1
<1>3. ASSUME NEW k \in 1 .. N
      PROVE  f[k] = NextCharacter(f[k - 1], cell[k], Behind(cell, after, k))
  <2>1. k - 1 \in 0 .. N /\ k \in 0 .. N /\ k - 1 < N /\ (k - 1) + 1 = k
    BY <1>0
  <2>2. Append(SubSeq(cell, 1, k - 1), cell[(k - 1) + 1]) = SubSeq(cell, 1, (k - 1) + 1)
    BY <2>1, OneMore DEF Text
  <2>3. NextCharacter(At(SubSeq(cell, 1, k - 1), row, records, FALSE), cell[k], Behind(cell, after, k))
          = At(Append(SubSeq(cell, 1, k - 1), cell[k]), row, records, FALSE)
    BY PlainCharacter
  <2>4. /\ f[k] = At(SubSeq(cell, 1, k), row, records, FALSE)
        /\ f[k - 1] = At(SubSeq(cell, 1, k - 1), row, records, FALSE)
    BY <2>1
  <2> HIDE DEF f
  <2> QED BY <2>1, <2>2, <2>3, <2>4
<1> HIDE DEF f
<1>4. Way(f, cell, At(<<>>, row, records, FALSE), after, N)
  BY <1>2, <1>3, Zenon DEF Way
<1> QED BY <1>0, <1>2, <1>4, ReadingIs

LEMMA DoubledCell ==
  ASSUME NEW cell \in Text, NEW row, NEW records, NEW after
  PROVE  /\ Joined(Doubled(cell)) \in Text
         /\ Reading(Joined(Doubled(cell)), At(<<>>, row, records, TRUE), after)
              = At(cell, row, records, TRUE)
<1> DEFINE N == Len(cell)
           S == [k \in 0 .. N |-> {At(SubSeq(cell, 1, k), row, records, TRUE)}]
           d == Doubled(cell)
<1>0. N \in Nat /\ N \in 0 .. N /\ 0 \in 0 .. N /\ \A k \in 1 .. N : cell[k] \in Characters
  BY DEF Text
<1>1. SubSeq(cell, 1, 0) = <<>> /\ SubSeq(cell, 1, N) = cell
  BY WholeSeq DEF Text
<1>2. /\ d \in Seq(Text \ {<<>>}) /\ Len(d) = N
      /\ \A k \in 1 .. N : d[k] = IF cell[k] = Quote THEN <<Quote, Quote>> ELSE <<cell[k]>>
  <2>1. \A k \in 1 .. N : (IF cell[k] = Quote THEN <<Quote, Quote>> ELSE <<cell[k]>>) \in Text \ {<<>>}
    <3>1. <<Quote, Quote>> \in Text \ {<<>>}
      BY CharactersAreText DEF Text
    <3>2. \A c \in Characters : <<c>> \in Text \ {<<>>}
      BY CharactersAreText
    <3> QED BY <1>0, <3>1, <3>2
  <2> HIDE DEF N
  <2> QED BY <1>0, <2>1 DEF Doubled, N
<1> HIDE DEF d
<1>3. ASSUME NEW k \in 1 .. N, NEW s \in S[k - 1], NEW x
      PROVE  Reading(d[k], s, x) \in S[k]
  <2>1. k - 1 \in 0 .. N /\ k \in 0 .. N /\ k - 1 < N /\ (k - 1) + 1 = k
    BY <1>0
  <2>2. Append(SubSeq(cell, 1, k - 1), cell[(k - 1) + 1]) = SubSeq(cell, 1, (k - 1) + 1)
    BY <2>1, OneMore DEF Text
  <2>3. s = At(SubSeq(cell, 1, k - 1), row, records, TRUE)
    BY <2>1
  <2>4. Reading(d[k], s, x) = At(Append(SubSeq(cell, 1, k - 1), cell[k]), row, records, TRUE)
    <3>1. d[k] = (IF cell[k] = Quote THEN <<Quote, Quote>> ELSE <<cell[k]>>) /\ cell[k] \in Characters
      BY <1>0, <1>2, Zenon
    <3>2. cell[k] \in Characters
      BY <3>1
    <3>3. Reading(IF cell[k] = Quote THEN <<Quote, Quote>> ELSE <<cell[k]>>,
                  At(SubSeq(cell, 1, k - 1), row, records, TRUE), x)
            = At(Append(SubSeq(cell, 1, k - 1), cell[k]), row, records, TRUE)
      BY <3>2, ReadingDoubled, Zenon
    <3> HIDE DEF S
    <3> QED BY <2>3, <3>1, <3>3, Zenon
  <2>5. S[k] = {At(SubSeq(cell, 1, k), row, records, TRUE)}
    BY <2>1
  <2> HIDE DEF S
  <2> QED BY <2>1, <2>2, <2>4, <2>5
<1>4. S[0] = {At(<<>>, row, records, TRUE)} /\ S[N] = {At(cell, row, records, TRUE)}
  BY <1>0, <1>1
<1> HIDE DEF S
<1>5. \A s \in S[0] : Reading(Joined(d), s, after) \in S[Len(d)]
  BY <1>2, <1>3, ReadingAll
<1>6. Joined(d) \in Text
  <2>1. d \in Seq(Text)
    BY <1>2
  <2>2. PICK j \in [0 .. Len(d) -> Text] : Joined(d) = j[Len(d)]
    BY <2>1, JoinedSteps
  <2> QED BY <1>0, <1>2, <2>2
<1> QED BY <1>2, <1>4, <1>5, <1>6 DEF d

LEMMA TellApart ==
  /\ Quote # Comma /\ Quote # CR /\ Quote # LF /\ Comma # CR /\ Comma # LF /\ CR # LF
  /\ Bom # Quote /\ Bom # Comma /\ Bom # CR /\ Bom # LF
BY DEF Bom, Quote, Comma, CR, LF

LEMMA OpensQuotes ==
  ASSUME NEW row, NEW records, NEW after
  PROVE  NextCharacter(At(<<>>, row, records, FALSE), Quote, after) = At(<<>>, row, records, TRUE)
BY TellApart, Zenon DEF NextCharacter, At

LEMMA ClosesQuotes ==
  ASSUME NEW field, NEW row, NEW records, NEW after, after # Quote
  PROVE  NextCharacter(At(field, row, records, TRUE), Quote, after) = At(field, row, records, FALSE)
BY Zenon DEF NextCharacter, At

(* What is written of a cell is read as the cell.                           *)
LEMMA ReadingCell ==
  ASSUME NEW cell \in Text, NEW row, NEW records, NEW after, after # Quote
  PROVE  /\ Written(cell) \in Text
         /\ Reading(Written(cell), At(<<>>, row, records, FALSE), after) = At(cell, row, records, FALSE)
<1>1. CASE \A i \in 1 .. Len(cell) : cell[i] \notin {Comma, Quote, CR, LF}
  <2>1. Written(cell) = cell
    BY <1>1, Zenon DEF Written
  <2> QED BY <1>1, <2>1, PlainCell, Zenon
<1>2. CASE ~\A i \in 1 .. Len(cell) : cell[i] \notin {Comma, Quote, CR, LF}
  <2> DEFINE body == Joined(Doubled(cell))
             open == At(<<>>, row, records, FALSE)
             inside == At(<<>>, row, records, TRUE)
             last == At(cell, row, records, TRUE)
             closed == At(cell, row, records, FALSE)
  <2>1. Written(cell) = <<Quote>> \o body \o <<Quote>>
    BY <1>2, Zenon DEF Written
  <2>2. body \in Text /\ Reading(body, inside, Quote) = last
    BY DoubledCell, Zenon
  <2>3. Quote \in Characters /\ <<Quote>> \in Text /\ Behind(<<Quote>>, after, 0) = Quote
    BY CharactersAreText DEF Behind
  <2>4. \A x : NextCharacter(open, Quote, x) = inside
    BY OpensQuotes, Zenon
  <2>5. NextCharacter(last, Quote, after) = closed
    BY ClosesQuotes, Zenon
  <2> HIDE DEF body, open, inside, last, closed
  <2>6. \A x : Reading(<<Quote>>, open, x) = inside
    BY <2>3, <2>4, ReadingOne
  <2>7. Reading(<<Quote>>, last, after) = closed
    BY <2>3, <2>5, ReadingOne
  <2>8. Reading(<<Quote>> \o body, open, Quote) = last
    BY <2>2, <2>3, <2>6, ReadingBoth
  <2>9. <<Quote>> \o body \in Text
    BY <2>2, <2>3 DEF Text
  <2>10. Reading((<<Quote>> \o body) \o <<Quote>>, open, after) = closed
    BY <2>3, <2>7, <2>8, <2>9, ReadingBoth
  <2>11. (<<Quote>> \o body) \o <<Quote>> \in Text
    BY <2>3, <2>9 DEF Text
  <2> QED BY <2>1, <2>10, <2>11, Zenon DEF open, closed
<1> QED BY <1>1, <1>2

(* A cell begins with no line end, and with a mark only if it holds one.    *)
LEMMA CellBegins ==
  ASSUME NEW cell \in Text, NEW behind \in Text, behind # <<>>
  PROVE  /\ Written(cell) \o behind \in Text \ {<<>>}
         /\ (Written(cell) \o behind)[1] \in
               {Quote} \cup (IF cell = <<>> THEN {behind[1]} ELSE {cell[1]} \ {Comma, CR, LF})
<1>0. Written(cell) \in Text
  <2>1. Comma # Quote
    BY DEF Comma, Quote
  <2> QED BY <2>1, ReadingCell
<1>1. Len(behind) > 0 /\ Len(behind) \in Nat /\ Len(cell) \in Nat
  BY DEF Text
<1>2. Written(cell) \o behind \in Text \ {<<>>}
  BY <1>0, <1>1 DEF Text
<1>3. CASE \A i \in 1 .. Len(cell) : cell[i] \notin {Comma, Quote, CR, LF}
  <2>1. Written(cell) = cell
    BY <1>3, Zenon DEF Written
  <2>2. CASE cell = <<>>
    BY <1>1, <1>2, <2>1, <2>2 DEF Text
  <2>3. CASE cell # <<>>
    <3>1. 1 \in 1 .. Len(cell) /\ (cell \o behind)[1] = cell[1]
      BY <1>1, <2>3 DEF Text
    <3> QED BY <1>2, <1>3, <2>1, <2>3, <3>1
  <2> QED BY <2>2, <2>3
<1>4. CASE ~\A i \in 1 .. Len(cell) : cell[i] \notin {Comma, Quote, CR, LF}
  <2> DEFINE body == Joined(Doubled(cell))
  <2>1. Written(cell) = <<Quote>> \o body \o <<Quote>>
    BY <1>4, Zenon DEF Written
  <2>2. body \in Text /\ <<Quote>> \in Text
    BY DoubledCell, CharactersAreText
  <2> HIDE DEF body
  <2>3. (<<Quote>> \o body \o <<Quote>>)[1] = Quote /\ Len(<<Quote>> \o body \o <<Quote>>) > 0
    BY <2>2 DEF Text
  <2>4. (Written(cell) \o behind)[1] = Quote
    BY <1>0, <1>1, <2>1, <2>3 DEF Text
  <2> QED BY <1>2, <2>4
<1> QED BY <1>3, <1>4

(* The states of the reader, and those of one that has cut something.       *)
CsvStates ==
  [field : Text, row : Seq(Text), records : Seq(Seq(Text)),
   quoted : BOOLEAN, skip : BOOLEAN, truncated : BOOLEAN]

Cut == {s \in CsvStates : s.truncated}

LEMMA Bounds == MaxRows \in Nat /\ MaxColumns \in Nat /\ CellMax \in Nat
BY TablesAssumption

LEMMA FieldEnds ==
  ASSUME NEW s \in CsvStates
  PROVE  /\ EndField(s) \in CsvStates
         /\ EndField(s).records = s.records
         /\ EndField(s).quoted = s.quoted /\ EndField(s).skip = s.skip
         /\ s.truncated => EndField(s).truncated
         /\ EndField(s).field = <<>>
         /\ ~EndField(s).truncated => EndField(s).row = Append(s.row, s.field)
<1> DEFINE row == IF Len(s.row) < MaxColumns THEN Append(s.row, Clipped(s.field)) ELSE s.row
           cut == s.truncated \/ Len(s.row) >= MaxColumns \/ Len(s.field) > CellMax
           e == EndField(s)
<1>1. s.field \in Text /\ s.row \in Seq(Text) /\ Len(s.row) \in Nat /\ Len(s.field) \in Nat
  BY DEF CsvStates, Text
<1>2. Clipped(s.field) \in Text
  <2>1. SubSeq(s.field, 1, CellMax) \in Text \/ Len(s.field) <= CellMax
    <3> SUFFICES ASSUME Len(s.field) > CellMax PROVE SubSeq(s.field, 1, CellMax) \in Text
      BY <1>1, Bounds
    <3>1. \A i \in 1 .. CellMax : s.field[i] \in Characters
      BY <1>1, Bounds DEF Text
    <3> QED BY <3>1, Bounds, SubSeqProperties DEF Text
  <2> QED BY <1>1, <2>1, Bounds DEF Clipped
<1>3. e = [s EXCEPT !.field = <<>>, !.row = row, !.truncated = cut]
  BY DEF EndField
<1>4. row \in Seq(Text) /\ cut \in BOOLEAN /\ <<>> \in Text
  BY <1>1, <1>2 DEF Text
<1>5. ~cut => row = Append(s.row, s.field)
  BY <1>1, Bounds DEF Clipped
<1>6. s.truncated => cut
  OBVIOUS
<1> HIDE DEF row, cut, e
<1>7. e \in CsvStates
  BY <1>3, <1>4 DEF CsvStates
<1>8. /\ e.field = <<>> /\ e.row = row /\ e.truncated = cut /\ e.records = s.records
      /\ e.quoted = s.quoted /\ e.skip = s.skip
  BY <1>3 DEF CsvStates
<1> QED BY <1>5, <1>6, <1>7, <1>8 DEF e

LEMMA RecordEnds ==
  ASSUME NEW s \in CsvStates
  PROVE  /\ EndRecord(s) \in CsvStates
         /\ EndRecord(s).quoted = s.quoted /\ EndRecord(s).skip = s.skip
         /\ s.truncated => EndRecord(s).truncated
         /\ EndRecord(s).field = <<>> /\ EndRecord(s).row = <<>>
         /\ ~EndRecord(s).truncated => EndRecord(s).records = Append(s.records, Append(s.row, s.field))
<1> DEFINE f == EndField(s)
           records == IF Len(f.records) < MaxRows + 1 THEN Append(f.records, f.row) ELSE f.records
           cut == f.truncated \/ Len(f.records) >= MaxRows + 1
           e == EndRecord(s)
<1>1. /\ f \in CsvStates /\ f.records = s.records /\ f.quoted = s.quoted /\ f.skip = s.skip
      /\ s.truncated => f.truncated
      /\ f.field = <<>> /\ (~f.truncated => f.row = Append(s.row, s.field))
  BY FieldEnds
<1>2. e = [f EXCEPT !.row = <<>>, !.records = records, !.truncated = cut]
  BY DEF EndRecord
<1> HIDE DEF f
<1>3. f.records \in Seq(Seq(Text)) /\ f.row \in Seq(Text) /\ Len(f.records) \in Nat /\ f.truncated \in BOOLEAN
  BY <1>1 DEF CsvStates
<1>4. records \in Seq(Seq(Text)) /\ cut \in BOOLEAN /\ <<>> \in Seq(Text)
  BY <1>3
<1>5. ~cut => records = Append(s.records, Append(s.row, s.field))
  BY <1>1, <1>3, Bounds
<1>6. s.truncated => cut
  BY <1>1
<1> HIDE DEF records, cut, e
<1>7. e \in CsvStates
  BY <1>1, <1>2, <1>4 DEF CsvStates
<1>8. /\ e.field = <<>> /\ e.row = <<>> /\ e.truncated = cut /\ e.records = records
      /\ e.quoted = s.quoted /\ e.skip = s.skip
  BY <1>1, <1>2 DEF CsvStates
<1> QED BY <1>5, <1>6, <1>7, <1>8 DEF e

LEMMA TwoTexts == ASSUME NEW a, NEW b PROVE <<a, b>> = <<a>> \o <<b>>
<1> DEFINE A == {a, b}
           l == <<a, b>>
           r == <<a>> \o <<b>>
<1>1. l \in Seq(A) /\ Len(l) = 2 /\ l[1] = a /\ l[2] = b
  OBVIOUS
<1>2. <<a>> \in Seq(A) /\ <<b>> \in Seq(A) /\ Len(<<a>>) = 1 /\ Len(<<b>>) = 1
  OBVIOUS
<1>3. r \in Seq(A) /\ Len(r) = 2 /\ r[1] = a /\ r[2] = b
  BY <1>2
<1> HIDE DEF l, r
<1>4. \A i \in 1 .. Len(l) : l[i] = r[i]
  BY <1>1, <1>3
<1>5. l = r
  BY <1>1, <1>3, <1>4, SeqEqual
<1> QED BY <1>5 DEF l, r

(* What is cut stays so.                                                    *)
LEMMA CutStays ==
  ASSUME NEW s \in Cut, NEW c \in Characters, NEW after
  PROVE  NextCharacter(s, c, after) \in Cut
<1>1. s \in CsvStates /\ s.truncated
  BY DEF Cut
<1>2. \A t \in Cut, b \in BOOLEAN : [t EXCEPT !.skip = b] \in Cut /\ [t EXCEPT !.quoted = b] \in Cut
  BY DEF Cut, CsvStates
<1>3. \A d \in Characters : Added(s, d) \in Cut
  <2> SUFFICES ASSUME NEW d \in Characters PROVE Added(s, d) \in Cut
    OBVIOUS
  <2>1. Append(s.field, d) \in Text
    BY <1>1 DEF CsvStates, Text
  <2> DEFINE field == Append(s.field, d)
  <2>2. Added(s, d) = [s EXCEPT !.field = field]
    BY DEF Added
  <2> HIDE DEF field
  <2> QED BY <1>1, <2>1, <2>2 DEF Cut, CsvStates, field
<1>4. EndField(s) \in Cut /\ EndRecord(s) \in Cut
  BY <1>1, FieldEnds, RecordEnds DEF Cut
<1>5. Quote \in Characters /\ (c = CR /\ after = LF) \in BOOLEAN
  BY CharactersAreText
<1> DEFINE b == c = CR /\ after = LF
<1>6. /\ [s EXCEPT !.skip = FALSE] \in Cut /\ [s EXCEPT !.quoted = TRUE] \in Cut
      /\ [s EXCEPT !.quoted = FALSE] \in Cut /\ [Added(s, Quote) EXCEPT !.skip = TRUE] \in Cut
      /\ [EndRecord(s) EXCEPT !.skip = b] \in Cut
  BY <1>2, <1>3, <1>4, <1>5
<1>7. s.skip \in BOOLEAN /\ s.quoted \in BOOLEAN
  BY <1>1 DEF CsvStates
<1>8. CASE s.skip
  BY <1>6, <1>8, Zenon DEF NextCharacter
<1>9. CASE ~s.skip /\ s.quoted
  <2>1. CASE c # Quote
    BY <1>3, <1>9, <2>1, Zenon DEF NextCharacter
  <2>2. CASE c = Quote /\ after = Quote
    BY <1>6, <1>9, <2>2, Zenon DEF NextCharacter
  <2>3. CASE c = Quote /\ after # Quote
    BY <1>6, <1>9, <2>3, Zenon DEF NextCharacter
  <2> QED BY <2>1, <2>2, <2>3
<1>10. CASE ~s.skip /\ ~s.quoted
  <2>1. CASE c = Quote
    BY <1>6, <1>10, <2>1, TellApart, Zenon DEF NextCharacter
  <2>2. CASE c = Comma
    BY <1>4, <1>10, <2>2, TellApart, Zenon DEF NextCharacter
  <2>3. CASE c \in {CR, LF}
    BY <1>6, <1>10, <2>3, TellApart, Zenon DEF NextCharacter
  <2>4. CASE c \notin {Quote, Comma, CR, LF}
    BY <1>3, <1>10, <2>4, Zenon DEF NextCharacter
  <2> QED BY <2>1, <2>2, <2>3, <2>4
<1> QED BY <1>7, <1>8, <1>9, <1>10

LEMMA ReadingCut ==
  ASSUME NEW text \in Text, NEW s \in Cut, NEW after
  PROVE  Reading(text, s, after) \in Cut
<1> DEFINE N == Len(text)
<1>0. N \in Nat /\ N \in 0 .. N /\ 0 \in 0 .. N /\ \A k \in 1 .. N : text[k] \in Characters
  BY DEF Text
<1>1. PICK f : Way(f, text, s, after, N)
  BY <1>0, WayExists
<1>2. Reading(text, s, after) = f[N]
  BY <1>0, <1>1, ReadingIs
<1> DEFINE T == {k \in 0 .. N : f[k] \in Cut}
<1>3. 0 \in T
  BY <1>0, <1>1 DEF Way
<1>4. ASSUME NEW k \in 0 .. N, k \in T, k < N PROVE k + 1 \in T
  <2>1. k + 1 \in 1 .. N /\ k + 1 \in 0 .. N /\ (k + 1) - 1 = k /\ f[k] \in Cut
    BY <1>0, <1>4
  <2>2. f[k + 1] = NextCharacter(f[(k + 1) - 1], text[k + 1], Behind(text, after, k + 1))
    BY <1>1, <2>1, Zenon DEF Way
  <2>3. NextCharacter(f[k], text[k + 1], Behind(text, after, k + 1)) \in Cut
    BY <1>0, <2>1, CutStays
  <2>4. f[k + 1] \in Cut
    BY <2>1, <2>2, <2>3, Zenon
  <2> QED BY <2>1, <2>4
<1>5. \A k \in 0 .. N : k \in T /\ k < N => k + 1 \in T
  BY <1>4
<1> HIDE DEF T, N
<1>6. N \in T
  BY <1>0, <1>3, <1>5, StepByStep
<1> QED BY <1>2, <1>6 DEF T, N

(* The reader has cut something, or is at s.                                *)
AtOrCut(s) == Cut \cup {s}

LEMMA AtIsAState ==
  ASSUME NEW field \in Text, NEW row \in Seq(Text), NEW records \in Seq(Seq(Text))
  PROVE  /\ At(field, row, records, FALSE) \in CsvStates
         /\ At(field, row, records, FALSE).field = field /\ At(field, row, records, FALSE).row = row
         /\ At(field, row, records, FALSE).records = records
         /\ At(field, row, records, FALSE).quoted = FALSE
         /\ At(field, row, records, FALSE).skip = FALSE
BY DEF At, CsvStates

LEMMA AState ==
  ASSUME NEW s \in CsvStates, ~s.quoted, ~s.skip, ~s.truncated
  PROVE  s = At(s.field, s.row, s.records, FALSE)
BY DEF At, CsvStates

LEMMA ReadingComma ==
  ASSUME NEW cell \in Text, NEW row \in Seq(Text), NEW records \in Seq(Seq(Text)), NEW after
  PROVE  Reading(<<Comma>>, At(cell, row, records, FALSE), after)
           \in AtOrCut(At(<<>>, Append(row, cell), records, FALSE))
<1> DEFINE s == At(cell, row, records, FALSE)
<1>1. /\ s \in CsvStates /\ s.field = cell /\ s.row = row /\ s.records = records
      /\ s.quoted = FALSE /\ s.skip = FALSE
  BY DEF At, CsvStates
<1> HIDE DEF s
<1>2. NextCharacter(s, Comma, after) = EndField(s)
  BY <1>1, TellApart, Zenon DEF NextCharacter
<1>3. Reading(<<Comma>>, s, after) = EndField(s)
  BY <1>2, CharactersAreText, ReadingOne
<1> DEFINE e == EndField(s)
<1>4. /\ e \in CsvStates /\ e.records = records /\ e.quoted = FALSE /\ e.skip = FALSE
      /\ e.field = <<>> /\ (~e.truncated => e.row = Append(row, cell))
  BY <1>1, FieldEnds
<1> HIDE DEF e
<1> DEFINE goal == AtOrCut(At(<<>>, Append(row, cell), records, FALSE))
<1>5. CASE e.truncated
  <2>1. e \in goal
    BY <1>4, <1>5 DEF Cut, AtOrCut
  <2> QED BY <1>3, <2>1, Zenon DEF e, s
<1>6. CASE ~e.truncated
  <2>1. e = At(e.field, e.row, e.records, FALSE)
    BY <1>4, <1>6, AState
  <2>2. e = At(<<>>, Append(row, cell), records, FALSE)
    BY <1>4, <1>6, <2>1, Zenon
  <2>3. e \in goal
    BY <2>2, Zenon DEF AtOrCut
  <2> QED BY <1>3, <2>3, Zenon DEF e, s
<1> QED BY <1>5, <1>6

(* A line end in its three forms; a lone CR must not be followed by an LF.  *)
LEMMA ReadingLineEnd ==
  ASSUME NEW cell \in Text, NEW row \in Seq(Text), NEW records \in Seq(Seq(Text)), NEW after,
         NEW lineEnd \in LineEnds, lineEnd = <<CR>> => after # LF
  PROVE  Reading(lineEnd, At(cell, row, records, FALSE), after)
           \in AtOrCut(At(<<>>, <<>>, Append(records, Append(row, cell)), FALSE))
<1> DEFINE s == At(cell, row, records, FALSE)
           r == EndRecord(s)
           goal == AtOrCut(At(<<>>, <<>>, Append(records, Append(row, cell)), FALSE))
<1>1. /\ s \in CsvStates /\ s.field = cell /\ s.row = row /\ s.records = records
      /\ s.quoted = FALSE /\ s.skip = FALSE
  BY DEF At, CsvStates
<1> HIDE DEF s
<1>2. /\ r \in CsvStates /\ r.quoted = FALSE /\ r.skip = FALSE /\ r.field = <<>> /\ r.row = <<>>
      /\ (~r.truncated => r.records = Append(records, Append(row, cell)))
  BY <1>1, RecordEnds
<1>3. \A c \in {CR, LF} : \A x : NextCharacter(s, c, x) = [r EXCEPT !.skip = (c = CR /\ x = LF)]
  BY <1>1, TellApart, Zenon DEF NextCharacter
<1> HIDE DEF r
<1>4. r \in goal
  <2>1. CASE r.truncated
    BY <1>2, <2>1 DEF Cut, AtOrCut
  <2>2. CASE ~r.truncated
    <3>1. r = At(r.field, r.row, r.records, FALSE)
      BY <1>2, <2>2, AState
    <3>2. r = At(<<>>, <<>>, Append(records, Append(row, cell)), FALSE)
      BY <1>2, <2>2, <3>1, Zenon
    <3> QED BY <3>2, Zenon DEF AtOrCut
  <2> QED BY <2>1, <2>2
<1>5. [r EXCEPT !.skip = FALSE] = r /\ [[r EXCEPT !.skip = TRUE] EXCEPT !.skip = FALSE] = r
      /\ [r EXCEPT !.skip = TRUE].skip = TRUE
  BY <1>2 DEF CsvStates
<1> HIDE DEF goal
<1>6. CR \in Characters /\ LF \in Characters /\ <<CR>> \in Text /\ <<LF>> \in Text
  BY CharactersAreText
<1>7. CASE lineEnd = <<LF>>
  <2>1. NextCharacter(s, LF, after) = [r EXCEPT !.skip = FALSE]
    <3>1. (LF = CR /\ after = LF) = FALSE
      BY TellApart
    <3> QED BY <1>3, <3>1, Zenon
  <2>2. Reading(<<LF>>, s, after) = NextCharacter(s, LF, after)
    BY <1>6, ReadingOne
  <2>3. Reading(<<LF>>, s, after) = r
    BY <1>5, <2>1, <2>2, Zenon
  <2> QED BY <1>4, <1>7, <2>3, Zenon DEF s, goal
<1>8. CASE lineEnd = <<CR>>
  <2>1. NextCharacter(s, CR, after) = [r EXCEPT !.skip = FALSE]
    <3>1. (CR = CR /\ after = LF) = FALSE
      BY <1>8
    <3> QED BY <1>3, <3>1, Zenon
  <2>2. Reading(<<CR>>, s, after) = NextCharacter(s, CR, after)
    BY <1>6, ReadingOne
  <2>3. Reading(<<CR>>, s, after) = r
    BY <1>5, <2>1, <2>2, Zenon
  <2> QED BY <1>4, <1>8, <2>3, Zenon DEF s, goal
<1>9. CASE lineEnd = <<CR, LF>>
  <2> DEFINE t == [r EXCEPT !.skip = TRUE]
  <2>1. NextCharacter(s, CR, LF) = t
    <3>1. (CR = CR /\ LF = LF) = TRUE
      OBVIOUS
    <3> QED BY <1>3, <3>1, Zenon
  <2>2. NextCharacter(t, LF, after) = [t EXCEPT !.skip = FALSE]
    <3>1. t.skip = TRUE
      BY <1>5
    <3> HIDE DEF t
    <3> QED BY <3>1, Zenon DEF NextCharacter
  <2>3. [t EXCEPT !.skip = FALSE] = r
    BY <1>5
  <2> HIDE DEF t
  <2>4. <<CR, LF>> = <<CR>> \o <<LF>> /\ Behind(<<LF>>, after, 0) = LF
    <3>1. <<CR, LF>> = <<CR>> \o <<LF>>
      BY <1>6, TwoTexts, Zenon
    <3>2. Behind(<<LF>>, after, 0) = LF
      BY DEF Behind
    <3> QED BY <3>1, <3>2
  <2>5. Reading(<<CR>> \o <<LF>>, s, after) = Reading(<<LF>>, Reading(<<CR>>, s, LF), after)
    BY <1>6, <2>4, ReadingBoth
  <2>6. Reading(<<CR>>, s, LF) = t
    BY <1>6, <2>1, ReadingOne
  <2>7. Reading(<<LF>>, t, after) = NextCharacter(t, LF, after)
    BY <1>6, ReadingOne
  <2>8. Reading(<<CR, LF>>, s, after) = r
    BY <2>2, <2>3, <2>4, <2>5, <2>6, <2>7, Zenon
  <2> QED BY <1>4, <1>9, <2>8, Zenon DEF s, goal
<1> QED BY <1>7, <1>8, <1>9, TablesAssumption

LEMMA ReadingPiece ==
  ASSUME NEW a \in Text, NEW b \in Text, b # <<>>, NEW s, NEW m, NEW after, NEW G,
         Reading(a, s, b[1]) = m, Reading(b, m, after) \in G
  PROVE  Reading(a \o b, s, after) \in G
<1>1. Behind(b, after, 0) = b[1]
  <2>1. Len(b) > 0
    BY DEF Text
  <2> QED BY <2>1 DEF Behind
<1>2. Reading(a \o b, s, after) = Reading(b, Reading(a, s, Behind(b, after, 0)), after)
  BY ReadingBoth
<1> QED BY <1>1, <1>2, Zenon

LEMMA LineEndsAreText ==
  ASSUME NEW lineEnd \in LineEnds
  PROVE  lineEnd \in Text /\ lineEnd # <<>> /\ lineEnd[1] \in {CR, LF} /\ lineEnd[1] # Quote
<1>1. CR \in Characters /\ LF \in Characters
  BY CharactersAreText
<1>2. lineEnd \in {<<LF>>, <<CR, LF>>, <<CR>>}
  BY TablesAssumption
<1>3. lineEnd \in Text /\ lineEnd # <<>> /\ lineEnd[1] \in {CR, LF}
  <2>1. CASE lineEnd = <<LF>>
    BY <1>1, <2>1 DEF Text
  <2>2. CASE lineEnd = <<CR, LF>>
    BY <1>1, <2>2 DEF Text
  <2>3. CASE lineEnd = <<CR>>
    BY <1>1, <2>3 DEF Text
  <2> QED BY <1>2, <2>1, <2>2, <2>3
<1> QED BY <1>3, TellApart

Pieces(row, lineEnd) ==
  [i \in 1 .. Len(row) |-> Written(row[i]) \o (IF i < Len(row) THEN <<Comma>> ELSE lineEnd)]

LEMMA PiecesOfRow ==
  ASSUME NEW row \in Seq(Text), NEW lineEnd \in LineEnds
  PROVE  Pieces(row, lineEnd) \in Seq(Text \ {<<>>}) /\ Len(Pieces(row, lineEnd)) = Len(row)
<1> DEFINE N == Len(row)
           texts == [i \in 1 .. N |-> Written(row[i]) \o (IF i < N THEN <<Comma>> ELSE lineEnd)]
<1>0. N \in Nat /\ \A i \in 1 .. N : row[i] \in Text
  OBVIOUS
<1>1. lineEnd \in Text /\ lineEnd # <<>> /\ <<Comma>> \in Text /\ <<Comma>> # <<>>
  BY LineEndsAreText, CharactersAreText
<1>2. \A i \in 1 .. N : texts[i] \in Text \ {<<>>}
  <2> SUFFICES ASSUME NEW i \in 1 .. N PROVE texts[i] \in Text \ {<<>>}
    OBVIOUS
  <2> DEFINE b == IF i < N THEN <<Comma>> ELSE lineEnd
  <2>1. b \in Text /\ b # <<>> /\ row[i] \in Text
    BY <1>0, <1>1
  <2>2. texts[i] = Written(row[i]) \o b
    BY Zenon
  <2> HIDE DEF b, texts
  <2>3. Written(row[i]) \o b \in Text \ {<<>>}
    BY <2>1, CellBegins, Zenon
  <2> QED BY <2>2, <2>3
<1> HIDE DEF N
<1>3. DOMAIN texts = 1 .. N /\ texts = [i \in 1 .. N |-> texts[i]]
  OBVIOUS
<1> HIDE DEF texts
<1>4. texts \in [1 .. N -> Text \ {<<>>}]
  BY <1>2, <1>3
<1>5. texts \in Seq(Text \ {<<>>}) /\ Len(texts) = N
  BY <1>0, <1>4
<1> QED BY <1>5, Zenon DEF texts, N, Pieces

(* A written row is read as the row, unless it is cut.                      *)
LEMMA ReadingRow ==
  ASSUME NEW row \in Seq(Text) \ {<<>>}, NEW records \in Seq(Seq(Text)), NEW after,
         NEW lineEnd \in LineEnds, lineEnd = <<CR>> => after # LF,
         NEW s \in AtOrCut(At(<<>>, <<>>, records, FALSE))
  PROVE  Reading(WrittenRow(row, lineEnd), s, after) \in AtOrCut(At(<<>>, <<>>, Append(records, row), FALSE))
<1> DEFINE N == Len(row)
           texts == [i \in 1 .. N |-> Written(row[i]) \o (IF i < N THEN <<Comma>> ELSE lineEnd)]
           S == [k \in 0 .. N |-> IF k = N THEN AtOrCut(At(<<>>, <<>>, Append(records, row), FALSE))
                                   ELSE AtOrCut(At(<<>>, SubSeq(row, 1, k), records, FALSE))]
<1>0. N \in Nat \ {0} /\ N \in 0 .. N /\ 0 \in 0 .. N /\ 0 # N /\ \A i \in 1 .. N : row[i] \in Text
  OBVIOUS
<1>1. lineEnd \in Text /\ lineEnd # <<>> /\ lineEnd[1] \in {CR, LF} /\ lineEnd[1] # Quote
  BY LineEndsAreText
<1>2. <<Comma>> \in Text /\ <<Comma>> # <<>> /\ <<Comma>>[1] = Comma /\ Comma # Quote
  BY CharactersAreText, TellApart
<1>4. texts \in Seq(Text \ {<<>>}) /\ Len(texts) = N
  BY PiecesOfRow, Zenon DEF Pieces
<1>3. \A i \in 1 .. N : texts[i] \in Text
  <2> HIDE DEF texts
  <2> QED BY <1>4
<1>5. ASSUME NEW k \in 1 .. N, NEW u \in S[k - 1], NEW x, lineEnd = <<CR>> /\ k = N => x # LF
      PROVE  Reading(texts[k], u, x) \in S[k]
  <2>1. k - 1 \in 0 .. N /\ k \in 0 .. N /\ k - 1 < N /\ k - 1 # N /\ (k - 1) + 1 = k /\ row[k] \in Text
    BY <1>0
  <2>2. S[k - 1] = AtOrCut(At(<<>>, SubSeq(row, 1, k - 1), records, FALSE))
    BY <2>1, Zenon
  <2>3. S[k] = IF k = N THEN AtOrCut(At(<<>>, <<>>, Append(records, row), FALSE))
               ELSE AtOrCut(At(<<>>, SubSeq(row, 1, k), records, FALSE))
    BY <2>1, Zenon
  <2>4. /\ Append(SubSeq(row, 1, k - 1), row[k]) = SubSeq(row, 1, k)
        /\ SubSeq(row, 1, N) = row /\ SubSeq(row, 1, k - 1) \in Seq(Text)
    <3>1. Append(SubSeq(row, 1, k - 1), row[(k - 1) + 1]) = SubSeq(row, 1, (k - 1) + 1)
      BY <2>1, OneMore
    <3>2. SubSeq(row, 1, N) = row
      BY WholeSeq
    <3>3. SubSeq(row, 1, k - 1) \in Seq(Text)
      BY <1>0, <2>1, SubSeqProperties
    <3> QED BY <2>1, <3>1, <3>2, <3>3
  <2>5. texts[k] = Written(row[k]) \o (IF k < N THEN <<Comma>> ELSE lineEnd) /\ texts[k] \in Text
    BY <1>3, Zenon
  <2> DEFINE start == At(<<>>, SubSeq(row, 1, k - 1), records, FALSE)
             full  == At(row[k], SubSeq(row, 1, k - 1), records, FALSE)
  <2>6. \A y : y # Quote => Reading(Written(row[k]), start, y) = full
    BY <2>1, ReadingCell, Zenon
  <2>7. Written(row[k]) \in Text
    BY <1>2, <2>1, ReadingCell, Zenon
  <2> HIDE DEF texts, S
  <2>8. CASE u \in Cut
    <3>1. Reading(texts[k], u, x) \in Cut
      BY <2>5, <2>8, ReadingCut
    <3> QED BY <2>3, <3>1, Zenon DEF AtOrCut
  <2>9. CASE u = start /\ k < N
    <3>1. Reading(<<Comma>>, full, x) \in AtOrCut(At(<<>>, Append(SubSeq(row, 1, k - 1), row[k]), records, FALSE))
      BY <2>1, <2>4, ReadingComma, Zenon
    <3>2. Reading(<<Comma>>, full, x) \in S[k]
      <4>1. k # N
        BY <2>9, <1>0
      <4> QED BY <2>3, <2>4, <3>1, <4>1, Zenon
    <3>3. Reading(Written(row[k]), start, <<Comma>>[1]) = full
      BY <1>2, <2>6, Zenon
    <3> HIDE DEF start, full
    <3>4. Reading(Written(row[k]) \o <<Comma>>, start, x) \in S[k]
      BY <1>2, <2>7, <3>2, <3>3, ReadingPiece, Zenon
    <3> QED BY <2>5, <2>9, <3>4, Zenon
  <2>10. CASE u = start /\ ~(k < N)
    <3>0. k = N
      BY <1>0, <2>10
    <3>1. Reading(lineEnd, full, x) \in AtOrCut(At(<<>>, <<>>, Append(records, Append(SubSeq(row, 1, k - 1), row[k])), FALSE))
      BY <1>5, <2>1, <2>4, <3>0, ReadingLineEnd, Zenon
    <3>2. Reading(lineEnd, full, x) \in S[k]
      BY <2>3, <2>4, <3>0, <3>1, Zenon
    <3>3. Reading(Written(row[k]), start, lineEnd[1]) = full
      <4>1. lineEnd[1] # Quote
        BY <1>1
      <4> QED BY <2>6, <4>1, Zenon
    <3> HIDE DEF start, full
    <3>4. Reading(Written(row[k]) \o lineEnd, start, x) \in S[k]
      BY <1>1, <2>7, <3>2, <3>3, ReadingPiece, Zenon
    <3> QED BY <2>5, <2>10, <3>4, Zenon
  <2>11. u \in Cut \/ u = start
    BY <1>5, <2>2, Zenon DEF AtOrCut
  <2> QED BY <2>8, <2>9, <2>10, <2>11
<1>6. s \in S[0] /\ S[N] = AtOrCut(At(<<>>, <<>>, Append(records, row), FALSE))
  <2>1. SubSeq(row, 1, 0) = <<>>
    BY WholeSeq
  <2> QED BY <1>0, <2>1, Zenon
<1>7. WrittenRow(row, lineEnd) = Joined(texts)
  BY Zenon DEF WrittenRow
<1> HIDE DEF texts, S
<1>8. \A k \in 1 .. Len(texts) : \A u \in S[k - 1] :
         Reading(texts[k], u, IF k < Len(texts) THEN texts[k + 1][1] ELSE after) \in S[k]
  <2> SUFFICES ASSUME NEW k \in 1 .. N, NEW u \in S[k - 1]
               PROVE  Reading(texts[k], u, IF k < N THEN texts[k + 1][1] ELSE after) \in S[k]
    BY <1>4, Zenon
  <2>1. k = N => (IF k < N THEN texts[k + 1][1] ELSE after) = after
    BY <1>0
  <2> QED BY <1>5, <2>1, Zenon
<1>9. Reading(Joined(texts), s, after) \in S[Len(texts)]
  BY <1>4, <1>6, <1>8, ReadingAll
<1> QED BY <1>4, <1>6, <1>7, <1>9, Zenon

(* What is joined begins as its first text does.                            *)
LEMMA JoinedBegins ==
  ASSUME NEW texts \in Seq(Text \ {<<>>})
  PROVE  /\ Joined(texts) \in Text /\ (texts = <<>> => Joined(texts) = <<>>)
         /\ texts # <<>> => Joined(texts) # <<>> /\ Joined(texts)[1] = texts[1][1]
<1> DEFINE N == Len(texts)
<1>0. N \in Nat /\ N \in 0 .. N /\ texts \in Seq(Text) /\ \A k \in 1 .. N : texts[k] \in Text /\ texts[k] # <<>>
  OBVIOUS
<1>1. PICK j \in [0 .. N -> Text] :
         /\ j[0] = <<>> /\ \A k \in 1 .. N : j[k] = j[k - 1] \o texts[k]
         /\ Joined(texts) = j[N]
  BY <1>0, JoinedSteps
<1> DEFINE T == {k \in 0 .. N : k = 0 \/ (Len(j[k]) > 0 /\ j[k][1] = texts[1][1])}
<1>2. 0 \in T
  BY <1>0
<1>3. ASSUME NEW k \in 0 .. N, k \in T, k < N PROVE k + 1 \in T
  <2>1. k + 1 \in 1 .. N /\ k + 1 \in 0 .. N /\ (k + 1) - 1 = k /\ k + 1 # 0
    <3> HIDE DEF T, N
    <3> QED BY <1>0, <1>3
  <2>2. texts[k + 1] \in Text /\ texts[k + 1] # <<>> /\ j[k] \in Text /\ j[k + 1] = j[k] \o texts[k + 1]
    BY <1>0, <1>1, <2>1
  <2>3. Len(texts[k + 1]) > 0
    BY <2>2 DEF Text
  <2>4. CASE k = 0
    <3>1. j[k] = <<>> /\ k + 1 = 1
      BY <1>1, <2>4
    <3>2. Len(j[k + 1]) > 0 /\ j[k + 1][1] = texts[k + 1][1]
      BY <2>2, <2>3, <3>1 DEF Text
    <3> QED BY <2>1, <3>1, <3>2
  <2>5. CASE k # 0
    <3>1. Len(j[k]) > 0 /\ j[k][1] = texts[1][1]
      BY <1>3, <2>5
    <3>2. Len(j[k + 1]) > 0 /\ j[k + 1][1] = j[k][1]
      BY <2>2, <3>1 DEF Text
    <3> QED BY <2>1, <3>1, <3>2
  <2> QED BY <2>4, <2>5
<1>4. N \in T
  <2>1. \A k \in 0 .. N : k \in T /\ k < N => k + 1 \in T
    BY <1>3
  <2> HIDE DEF T, N
  <2> QED BY <1>0, <1>2, <2>1, StepByStep
<1>5. texts = <<>> => N = 0
  OBVIOUS
<1>6. texts # <<>> => N # 0
  OBVIOUS
<1>7. N # 0 => Len(j[N]) > 0 /\ j[N][1] = texts[1][1]
  BY <1>4
<1> QED BY <1>0, <1>1, <1>5, <1>6, <1>7

LEMMA RowBegins ==
  ASSUME NEW row \in Seq(Text) \ {<<>>}, NEW lineEnd \in LineEnds
  PROVE  /\ WrittenRow(row, lineEnd) \in Text \ {<<>>}
         /\ lineEnd = <<CR>> => WrittenRow(row, lineEnd)[1] # LF
         /\ WrittenRow(row, lineEnd)[1] = Bom => row[1] # <<>> /\ row[1][1] = Bom
<1> DEFINE texts == Pieces(row, lineEnd)
           behind == IF 1 < Len(row) THEN <<Comma>> ELSE lineEnd
<1>1. Len(row) \in Nat /\ 1 \in 1 .. Len(row) /\ row[1] \in Text
  OBVIOUS
<1>2. texts \in Seq(Text \ {<<>>}) /\ Len(texts) = Len(row)
  BY PiecesOfRow
<1>3. texts[1] = Written(row[1]) \o behind
  BY <1>1, Zenon DEF Pieces
<1>4. WrittenRow(row, lineEnd) = Joined(texts)
  BY Zenon DEF WrittenRow, Pieces
<1>5. <<Comma>> \in Text /\ <<Comma>> # <<>> /\ <<Comma>>[1] = Comma
  BY CharactersAreText
<1>6. lineEnd \in Text /\ lineEnd # <<>> /\ lineEnd[1] \in {CR, LF}
  BY LineEndsAreText
<1>7. lineEnd = <<CR>> => lineEnd[1] = CR
  OBVIOUS
<1>8. /\ behind \in Text /\ behind # <<>> /\ behind[1] \in {Comma, CR, LF}
      /\ lineEnd = <<CR>> => behind[1] # LF
  BY <1>5, <1>6, <1>7, TellApart
<1> HIDE DEF texts, behind
<1>9. texts # <<>>
  BY <1>1, <1>2
<1>10. Joined(texts) \in Text /\ Joined(texts) # <<>> /\ Joined(texts)[1] = texts[1][1]
  BY <1>2, <1>9, JoinedBegins
<1> DEFINE c == texts[1][1]
<1>11. c \in {Quote} \cup (IF row[1] = <<>> THEN {behind[1]} ELSE {row[1][1]} \ {Comma, CR, LF})
  BY <1>1, <1>3, <1>8, CellBegins, Zenon
<1> HIDE DEF c
<1>12. lineEnd = <<CR>> => c # LF
  BY <1>8, <1>11, TellApart
<1>13. c = Bom => row[1] # <<>> /\ row[1][1] = Bom
  BY <1>8, <1>11, TellApart
<1> QED BY <1>4, <1>10, <1>12, <1>13 DEF c

(* A written table is read as the table, unless it is cut.                  *)
LEMMA ReadingTable ==
  ASSUME NEW table \in Seq(Seq(Text) \ {<<>>}), NEW lineEnd \in LineEnds
  PROVE  /\ WrittenTable(table, lineEnd) \in Text
         /\ WrittenTable(table, lineEnd) # <<>> /\ WrittenTable(table, lineEnd)[1] = Bom
              => table # <<>> /\ table[1][1] # <<>> /\ table[1][1][1] = Bom
         /\ Reading(WrittenTable(table, lineEnd), At(<<>>, <<>>, <<>>, FALSE), Bom)
              \in AtOrCut(At(<<>>, <<>>, table, FALSE))
<1> DEFINE N == Len(table)
           texts == [i \in 1 .. N |-> WrittenRow(table[i], lineEnd)]
           S == [k \in 0 .. N |-> AtOrCut(At(<<>>, <<>>, SubSeq(table, 1, k), FALSE))]
<1>0. /\ N \in Nat /\ N \in 0 .. N /\ 0 \in 0 .. N /\ \A i \in 1 .. N : table[i] \in Seq(Text) \ {<<>>}
      /\ table \in Seq(Seq(Text))
  OBVIOUS
<1>1. \A i \in 1 .. N : texts[i] = WrittenRow(table[i], lineEnd)
  BY Zenon
<1>2. texts \in Seq(Text \ {<<>>}) /\ Len(texts) = N
  <2>1. \A i \in 1 .. N : WrittenRow(table[i], lineEnd) \in Text \ {<<>>}
    BY <1>0, RowBegins
  <2> HIDE DEF N
  <2> QED BY <1>0, <2>1
<1>3. WrittenTable(table, lineEnd) = Joined(texts)
  BY Zenon DEF WrittenTable
<1>4. S[0] = AtOrCut(At(<<>>, <<>>, <<>>, FALSE)) /\ S[N] = AtOrCut(At(<<>>, <<>>, table, FALSE))
  <2>1. SubSeq(table, 1, 0) = <<>> /\ SubSeq(table, 1, N) = table
    BY <1>0, WholeSeq
  <2> QED BY <1>0, <2>1, Zenon
<1>5. \A k \in 0 .. N : S[k] = AtOrCut(At(<<>>, <<>>, SubSeq(table, 1, k), FALSE))
  BY Zenon
<1> HIDE DEF texts, S
<1>6. ASSUME NEW k \in 1 .. N, NEW u \in S[k - 1]
      PROVE  Reading(texts[k], u, IF k < Len(texts) THEN texts[k + 1][1] ELSE Bom) \in S[k]
  <2>1. k - 1 \in 0 .. N /\ k \in 0 .. N /\ k - 1 < N /\ (k - 1) + 1 = k /\ table[k] \in Seq(Text) \ {<<>>}
    BY <1>0
  <2>2. Append(SubSeq(table, 1, k - 1), table[k]) = SubSeq(table, 1, k) /\ SubSeq(table, 1, k - 1) \in Seq(Seq(Text))
    <3>1. Append(SubSeq(table, 1, k - 1), table[(k - 1) + 1]) = SubSeq(table, 1, (k - 1) + 1)
      BY <1>0, <2>1, OneMore
    <3>2. \A i \in 1 .. (k - 1) : table[i] \in Seq(Text)
      BY <1>0, <2>1
    <3>3. SubSeq(table, 1, k - 1) \in Seq(Seq(Text))
      BY <2>1, <3>2, SubSeqProperties
    <3> QED BY <2>1, <3>1, <3>3
  <2> DEFINE x == IF k < Len(texts) THEN texts[k + 1][1] ELSE Bom
  <2>3. lineEnd = <<CR>> => x # LF
    <3>1. CASE k < N
      <4>1. k + 1 \in 1 .. N
        BY <1>0, <3>1
      <4>2. x = WrittenRow(table[k + 1], lineEnd)[1]
        BY <1>1, <1>2, <3>1, <4>1
      <4> QED BY <1>0, <4>1, <4>2, RowBegins
    <3>2. CASE ~(k < N)
      BY <1>2, <3>2, TellApart
    <3> QED BY <3>1, <3>2
  <2> HIDE DEF x
  <2>4. u \in AtOrCut(At(<<>>, <<>>, SubSeq(table, 1, k - 1), FALSE))
    BY <1>5, <1>6, <2>1, Zenon
  <2>5. Reading(WrittenRow(table[k], lineEnd), u, x)
          \in AtOrCut(At(<<>>, <<>>, Append(SubSeq(table, 1, k - 1), table[k]), FALSE))
    BY <2>1, <2>2, <2>3, <2>4, ReadingRow, Zenon
  <2>6. Reading(texts[k], u, x) \in S[k]
    BY <1>1, <1>5, <2>1, <2>2, <2>5, Zenon
  <2> QED BY <2>6 DEF x
<1>7. \A k \in 1 .. Len(texts) : \A u \in S[k - 1] :
         Reading(texts[k], u, IF k < Len(texts) THEN texts[k + 1][1] ELSE Bom) \in S[k]
  BY <1>2, <1>6, Zenon
<1>8. \A u \in S[0] : Reading(Joined(texts), u, Bom) \in S[Len(texts)]
  BY <1>2, <1>7, ReadingAll
<1>9. At(<<>>, <<>>, <<>>, FALSE) \in S[0]
  BY <1>4, Zenon DEF AtOrCut
<1>10. Reading(WrittenTable(table, lineEnd), At(<<>>, <<>>, <<>>, FALSE), Bom)
         \in AtOrCut(At(<<>>, <<>>, table, FALSE))
  BY <1>2, <1>3, <1>4, <1>8, <1>9, Zenon
<1>11. Joined(texts) \in Text /\ (texts = <<>> => Joined(texts) = <<>>)
       /\ (texts # <<>> => Joined(texts)[1] = texts[1][1])
  BY <1>2, JoinedBegins
<1>12. ASSUME Joined(texts) # <<>>, Joined(texts)[1] = Bom
       PROVE  table # <<>> /\ table[1][1] # <<>> /\ table[1][1][1] = Bom
  <2>1. texts # <<>>
    BY <1>11, <1>12
  <2>2. 1 \in 1 .. N /\ table # <<>>
    BY <1>0, <1>2, <2>1
  <2>3. WrittenRow(table[1], lineEnd)[1] = Bom
    BY <1>1, <1>11, <1>12, <2>1, <2>2
  <2> QED BY <1>0, <2>2, <2>3, RowBegins
<1> QED BY <1>3, <1>10, <1>11, <1>12

(* A file is read as the table that was written, or said to be cut.         *)
LEMMA ParsedOrCut ==
  ASSUME NEW table \in Tables, NEW lineEnd \in LineEnds, NEW mark \in Marks
  PROVE  LET parsed == ParseCsv(mark \o WrittenTable(table, lineEnd))
         IN parsed.truncated = TRUE \/ (parsed.records = table /\ parsed.truncated = FALSE)
<1> DEFINE w == WrittenTable(table, lineEnd)
           text == mark \o w
           source == IF text # <<>> /\ Head(text) = Bom THEN Tail(text) ELSE text
           start == At(<<>>, <<>>, <<>>, FALSE)
           read == Reading(source, start, Bom)
           last == IF read.field # <<>> \/ read.row # <<>> THEN EndRecord(read) ELSE read
           parsed == ParseCsv(text)
<1>1. table \in Seq(Seq(Text) \ {<<>>}) /\ mark \in {<<>>, <<Bom>>}
  BY TablesAssumption DEF Text
<1>2. ~(table # <<>> /\ table[1][1] # <<>> /\ table[1][1][1] = Bom)
  BY TablesAssumption
<1>3. /\ w \in Text /\ (w # <<>> => w[1] # Bom)
      /\ Reading(w, start, Bom) \in AtOrCut(At(<<>>, <<>>, table, FALSE))
  BY <1>1, <1>2, ReadingTable, Zenon
<1> HIDE DEF w
<1>4. source = w
  <2>0. Bom \in Characters
    BY TablesAssumption
  <2>1. CASE mark = <<>>
    <3>1. text = w
      BY <1>3, <2>1 DEF Text
    <3> HIDE DEF text
    <3> QED BY <1>3, <3>1 DEF Text
  <2>2. CASE mark = <<Bom>>
    <3>1. text # <<>> /\ Head(text) = Bom /\ Tail(text) = w
      BY <1>3, <2>0, <2>2 DEF Text
    <3> HIDE DEF text
    <3> QED BY <3>1
  <2> QED BY <1>1, <2>1, <2>2
<1>5. start = Between(<<>>, <<>>, FALSE)
  BY Zenon DEF At, Between
<1>6. parsed = [records |-> last.records, truncated |-> last.truncated \/ read.quoted]
  BY <1>5, Zenon DEF ParseCsv
<1>7. read \in AtOrCut(At(<<>>, <<>>, table, FALSE))
  BY <1>3, <1>4, Zenon
<1> HIDE DEF text, source, start, read, parsed
<1>8. CASE read \in Cut
  <2>1. read \in CsvStates /\ read.truncated = TRUE
    BY <1>8 DEF Cut, CsvStates
  <2>2. EndRecord(read) \in CsvStates /\ EndRecord(read).truncated
    BY <2>1, RecordEnds
  <2>3. last.truncated = TRUE
    BY <2>1, <2>2 DEF CsvStates
  <2> HIDE DEF last
  <2>4. parsed.truncated = (last.truncated \/ read.quoted)
    BY <1>6
  <2> QED BY <2>3, <2>4 DEF parsed, text, w
<1>9. CASE read = At(<<>>, <<>>, table, FALSE)
  <2>1. /\ read.field = <<>> /\ read.row = <<>> /\ read.records = table
        /\ read.quoted = FALSE /\ read.truncated = FALSE
    BY <1>9 DEF At
  <2>2. last = read
    BY <2>1
  <2> HIDE DEF last
  <2>3. parsed.records = table /\ parsed.truncated = FALSE
    BY <1>6, <2>1, <2>2
  <2> QED BY <2>3 DEF parsed, text, w
<1> QED BY <1>7, <1>8, <1>9, Zenon DEF AtOrCut

LEMMA Greatest ==
  ASSUME NEW n \in Nat, NEW F, F \subseteq 1 .. n, F # {}
  PROVE  \E m \in F : \A k \in F : k <= m
<1> SUFFICES ASSUME \A m \in F : \E k \in F : ~(k <= m) PROVE FALSE
  OBVIOUS
<1> DEFINE T == {k \in 0 .. n : \E m \in F : m >= k}
<1>1. 0 \in T
  <2>1. PICK m \in F : m \in 1 .. n
    OBVIOUS
  <2>2. m >= 0 /\ 0 \in 0 .. n
    BY <2>1
  <2> QED BY <2>2
<1>2. ASSUME NEW k \in 0 .. n, k \in T, k < n PROVE k + 1 \in T
  <2>1. PICK m \in F : m >= k
    BY <1>2
  <2>2. PICK l \in F : ~(l <= m)
    OBVIOUS
  <2>3. l >= k + 1 /\ k + 1 \in 0 .. n
    BY <1>2, <2>1, <2>2
  <2> QED BY <2>3
<1>3. \A k \in 0 .. n : k \in T /\ k < n => k + 1 \in T
  BY <1>2
<1>4. n \in T
  <2> HIDE DEF T
  <2>1. n \in 0 .. n
    OBVIOUS
  <2> QED BY <1>1, <1>3, <2>1, StepByStep
<1>5. PICK m \in F : m >= n
  BY <1>4
<1>6. PICK k \in F : ~(k <= m)
  OBVIOUS
<1> QED BY <1>5, <1>6

(* Dropping rows is told; what drops none gives the table.                  *)
LEMMA FittingTold ==
  ASSUME NEW parsed, NEW table \in Tables,
         parsed.truncated = TRUE \/ (parsed.records = table /\ parsed.truncated = FALSE),
         FittingTable(parsed).ok, FittingTable(parsed).records # table
  PROVE  FittingTable(parsed).truncated
<1> DEFINE fitting == {n \in 1 .. Len(parsed.records) : Cells(SubSeq(parsed.records, 1, n)) <= TableRoom}
           most == CHOOSE n \in fitting : \A k \in fitting : k <= n
           given == FittingTable(parsed)
<1>1. /\ given.ok = (parsed.records = <<>> \/ fitting # {})
      /\ given.records = IF fitting = {} THEN <<>> ELSE SubSeq(parsed.records, 1, most)
      /\ given.truncated = (parsed.truncated \/ (fitting # {} /\ most < Len(parsed.records)))
  BY DEF FittingTable
<1> HIDE DEF given
<1>2. CASE parsed.truncated = TRUE
  BY <1>1, <1>2 DEF given
<1>3. CASE parsed.records = table /\ parsed.truncated = FALSE
  <2>1. table \in Seq(Seq(Text) \ {<<>>}) /\ Len(table) \in Nat
    BY TablesAssumption DEF Text
  <2>2. given.ok /\ given.records # table
    BY DEF given
  <2>3. fitting # {}
    BY <1>1, <1>3, <2>2
  <2>4. fitting \subseteq 1 .. Len(table)
    BY <1>3
  <2>5. \E m \in fitting : \A k \in fitting : k <= m
    <3> HIDE DEF fitting
    <3> QED BY <2>1, <2>3, <2>4, Greatest
  <2>6. most \in fitting
    <3> HIDE DEF fitting
    <3> QED BY <2>5
  <2>7. SubSeq(table, 1, Len(table)) = table
    BY <2>1, WholeSeq
  <2> HIDE DEF fitting, most
  <2>8. most \in 1 .. Len(table)
    BY <2>4, <2>6
  <2>9. most # Len(table)
    BY <1>1, <1>3, <2>2, <2>3, <2>7
  <2>10. most < Len(table)
    BY <2>1, <2>8, <2>9
  <2>11. given.truncated = TRUE
    BY <1>1, <1>3, <2>3, <2>10
  <2> QED BY <2>11 DEF given
<1> QED BY <1>2, <1>3

LEMMA CsvIsTold == TablesAreTold
<1> SUFFICES ASSUME NEW csv \in CsvReadings, csv.ok, csv.short PROVE csv.flagged
  BY DEF TablesAreTold
<1>1. PICK table \in Tables, lineEnd \in LineEnds, mark \in Marks : csv = CsvReading(table, lineEnd, mark)
  BY DEF CsvReadings
<1> DEFINE parsed == ParseCsv(mark \o WrittenTable(table, lineEnd))
<1>2. csv = [ok |-> FittingTable(parsed).ok, short |-> FittingTable(parsed).records # table,
             flagged |-> FittingTable(parsed).truncated]
  BY <1>1 DEF CsvReading
<1>3. parsed.truncated = TRUE \/ (parsed.records = table /\ parsed.truncated = FALSE)
  BY ParsedOrCut
<1> HIDE DEF parsed
<1>4. csv.ok = FittingTable(parsed).ok /\ csv.short = (FittingTable(parsed).records # table)
      /\ csv.flagged = FittingTable(parsed).truncated
  BY <1>2
<1>5. FittingTable(parsed).ok /\ FittingTable(parsed).records # table
  BY <1>4
<1>6. FittingTable(parsed).truncated
  BY <1>3, <1>5, FittingTold
<1> QED BY <1>4, <1>6

(* A result that is cut says so: a list, a recap, a text, a table.          *)
THEOREM CutsAreTold == ToolsSpec => []CutIsTold
<1>1. CallsInv => CutIsTold
  BY CsvIsTold DEF CallsInv, Sound, ToldSound, CutIsTold
<1> QED BY <1>1, CallsInit, CallsStep, PTL DEF ToolsSpec

(***************************************************************************)
(* The prompt of a reply                                                   *)
(***************************************************************************)
LEMMA TheSizes ==
  /\ Ceiling \in Nat /\ OutputReserve \in Nat /\ SchemaReserve \in Nat /\ ResultReserve \in Nat
  /\ HistoryReserve \in Nat /\ StructuralReserve \in Nat /\ MaxSteps \in Nat /\ MaxMoves \in Nat
  /\ Attempts \in Nat \ {0} /\ MaxSteps * OutputReserve <= HistoryReserve
  /\ Content \in Nat
  /\ Content + SchemaReserve + ResultReserve + HistoryReserve + StructuralReserve + OutputReserve = Ceiling
BY SizesAssumption DEF Content, Reserves

(* What a limited query returns is a sequence of what is stored.            *)
LEMMA LimitedSeq ==
  ASSUME NEW S, IsFiniteSet(S), NEW n \in Nat, NEW q \in [1 .. Least(n, Cardinality(S)) -> S]
  PROVE  /\ q \in Seq(S) /\ Len(q) = Least(n, Cardinality(S)) /\ DOMAIN q = 1 .. Len(q)
         /\ Len(q) \in Nat /\ ToSet(q) \subseteq S
<1>1. Cardinality(S) \in Nat
  BY FS_CardinalityType
<1>2. Least(n, Cardinality(S)) \in Nat
  BY <1>1 DEF Least
<1>3. q \in Seq(S) /\ Len(q) = Least(n, Cardinality(S)) /\ DOMAIN q = 1 .. Len(q)
  BY <1>2
<1> QED BY <1>2, <1>3 DEF ToSet

-----------------------------------------------------------------------------
(* Ranking facts                                                           *)
Sunken(T, f, hits) == {g \in T : RanksAbove(g, f, hits)}

LEMMA ScoresAreNumbers ==
  ASSUME NEW f \in Facts, NEW hits
  PROVE  FactScore(f, hits) \in Nat /\ f.id \in Nat
BY MemoryAssumption DEF FactScore

LEMMA RankIsAnOrder ==
  ASSUME NEW hits, NEW f \in Facts, NEW g \in Facts, NEW h \in Facts
  PROVE  /\ ~RanksAbove(f, f, hits)
         /\ RanksAbove(f, g, hits) /\ RanksAbove(g, h, hits) => RanksAbove(f, h, hits)
         /\ ~RanksAbove(f, g, hits) /\ ~RanksAbove(g, f, hits) => f = g
         /\ ~RanksAbove(f, g, hits) => FactScore(g, hits) >= FactScore(f, hits)
<1>1. /\ FactScore(f, hits) \in Nat /\ FactScore(g, hits) \in Nat /\ FactScore(h, hits) \in Nat
      /\ f.id \in Nat /\ g.id \in Nat /\ h.id \in Nat
  BY ScoresAreNumbers
<1>2. f.id = g.id => f = g
  BY MemoryAssumption
<1> QED BY <1>1, <1>2 DEF RanksAbove

(* Of any facts there is a best one.                                        *)
LEMMA BestExists ==
  ASSUME NEW T, T \subseteq Facts, T # {}, NEW hits
  PROVE  \E f \in T : \A g \in T : ~RanksAbove(g, f, hits)
<1>0. IsFiniteSet(T)
  BY MemoryAssumption, FS_Subset
<1>1. IsWellFoundedOn(StrictSubsetOrdering(T), SUBSET T)
  BY <1>0, FS_StrictSubsetOrderingWellFounded, FS_FiniteSubsetsOfFinite
<1>2. PICK F : F = {Sunken(T, f, hits) : f \in T}
  OBVIOUS
<1>3. F \subseteq SUBSET T /\ F # {}
  BY <1>2 DEF Sunken
<1>4. PICK x \in F : \A y \in F : ~(<<y, x>> \in StrictSubsetOrdering(T))
  BY <1>1, <1>3, WFMin
<1>5. PICK f \in T : x = Sunken(T, f, hits)
  BY <1>2
<1>6. ASSUME NEW g \in T, RanksAbove(g, f, hits) PROVE FALSE
  <2>1. Sunken(T, g, hits) \subseteq x
    <3> SUFFICES ASSUME NEW h \in Sunken(T, g, hits) PROVE h \in x
      OBVIOUS
    <3>1. h \in T /\ RanksAbove(h, g, hits) /\ h \in Facts /\ g \in Facts /\ f \in Facts
      BY DEF Sunken
    <3>2. RanksAbove(h, f, hits)
      BY <1>6, <3>1, RankIsAnOrder
    <3> QED BY <1>5, <3>1, <3>2 DEF Sunken
  <2>2. g \in x
    BY <1>5, <1>6 DEF Sunken
  <2>3. g \notin Sunken(T, g, hits)
    BY RankIsAnOrder DEF Sunken
  <2>4. Sunken(T, g, hits) \in F /\ Sunken(T, g, hits) # x
    BY <1>2, <2>2, <2>3
  <2>5. <<Sunken(T, g, hits), x>> \in StrictSubsetOrdering(T)
    BY <1>3, <2>1, <2>4 DEF StrictSubsetOrdering
  <2> QED BY <1>4, <2>4, <2>5
<1> QED BY <1>6

Kept(hits, recent) ==
  {f \in hits \cup recent :
     \A g \in hits \cup recent : g.text = f.text => ~RanksAbove(g, f, hits)}

FactsMost == TextFactLimit + RecentFactLimit

LEMMA RankedFacts ==
  ASSUME NEW hits \in SUBSET Facts, NEW recent \in SUBSET Facts, NEW q \in RankFacts(hits, recent)
  PROVE  /\ q \in [1 .. Least(FactsMost, Cardinality(Kept(hits, recent))) -> Kept(hits, recent)]
         /\ \A i, j \in DOMAIN q : i # j => q[i] # q[j]
         /\ IsFiniteSet(Kept(hits, recent)) /\ Kept(hits, recent) \subseteq Facts
         /\ FactsMost \in Nat
<1> DEFINE K == Kept(hits, recent)
<1>1. IsFiniteSet(K) /\ K \subseteq Facts
  BY MemoryAssumption, FS_Subset DEF Kept
<1>2. FactsMost \in Nat
  BY SizesAssumption DEF FactsMost
<1>3. /\ q \in [1 .. Least(FactsMost, Cardinality(K)) -> K]
      /\ \A i, j \in DOMAIN q : i < j => q[i] # q[j]
  BY DEF RankFacts, FirstOf, Kept, FactsMost
<1>4. DOMAIN q = 1 .. Len(q) /\ Len(q) \in Nat
  BY <1>1, <1>2, <1>3, LimitedSeq
<1>5. ASSUME NEW i \in DOMAIN q, NEW j \in DOMAIN q, i # j PROVE q[i] # q[j]
  <2>1. i \in Nat /\ j \in Nat
    BY <1>4
  <2>2. i < j \/ j < i
    BY <1>5, <2>1
  <2> QED BY <1>3, <2>2
<1> QED BY <1>1, <1>2, <1>3, <1>5

(* No two ranked facts say the same, and unless the list is full the best   *)
(* wording of everything recalled is in it.                                 *)
LEMMA RankingIsSound ==
  ASSUME NEW hits \in SUBSET Facts, NEW recent \in SUBSET Facts, NEW q \in RankFacts(hits, recent)
  PROVE  /\ \A i, j \in DOMAIN q : i # j => q[i].text # q[j].text
         /\ Len(q) < TextFactLimit + RecentFactLimit =>
              \A f \in hits \cup recent : \E i \in DOMAIN q :
                q[i].text = f.text /\ FactScore(q[i], hits) >= FactScore(f, hits)
<1> DEFINE K == Kept(hits, recent)
           n == Cardinality(K)
<1>1. /\ q \in [1 .. Least(FactsMost, n) -> K] /\ \A i, j \in DOMAIN q : i # j => q[i] # q[j]
      /\ IsFiniteSet(K) /\ K \subseteq Facts /\ FactsMost \in Nat /\ n \in Nat
  BY RankedFacts, FS_CardinalityType
<1>2. Len(q) = Least(FactsMost, n) /\ DOMAIN q = 1 .. Len(q)
  BY <1>1, LimitedSeq
<1>3. ASSUME NEW i \in DOMAIN q, NEW j \in DOMAIN q, i # j PROVE q[i].text # q[j].text
  <2>1. q[i] \in K /\ q[j] \in K /\ q[i] # q[j] /\ q[i] \in Facts /\ q[j] \in Facts
    BY <1>1, <1>3
  <2>2. q[i].text = q[j].text => ~RanksAbove(q[i], q[j], hits) /\ ~RanksAbove(q[j], q[i], hits)
    BY <2>1 DEF Kept
  <2> QED BY <2>1, <2>2, RankIsAnOrder
<1>4. ASSUME Len(q) < FactsMost, NEW f \in hits \cup recent
      PROVE  \E i \in DOMAIN q : q[i].text = f.text /\ FactScore(q[i], hits) >= FactScore(f, hits)
  <2>1. Len(q) = n
    BY <1>1, <1>2, <1>4 DEF Least
  <2>2. q \in Injection(1 .. n, K)
    BY <1>1, <1>2, <2>1 DEF Injection, IsInjective
  <2>3. Cardinality(1 .. n) = n
    BY <1>1, FS_Interval
  <2>4. q \in Surjection(1 .. n, K)
    <3> HIDE DEF K
    <3> QED BY <1>1, <2>2, <2>3, FS_Injection
  <2> DEFINE T == {g \in hits \cup recent : g.text = f.text}
  <2>5. T \subseteq Facts /\ f \in T
    OBVIOUS
  <2>6. PICK b \in T : \A g \in T : ~RanksAbove(g, b, hits)
    BY <2>5, BestExists
  <2>7. b \in K
    BY <2>6 DEF Kept
  <2>8. PICK i \in 1 .. n : q[i] = b
    BY <2>4, <2>7 DEF Surjection
  <2>9. FactScore(b, hits) >= FactScore(f, hits)
    BY <2>5, <2>6, RankIsAnOrder
  <2> QED BY <1>2, <2>1, <2>6, <2>8, <2>9
<1> QED BY <1>3, <1>4 DEF FactsMost

-----------------------------------------------------------------------------
(* Costs                                                                   *)
LEMMA TotalIsANumber ==
  ASSUME NEW costs \in Seq(Nat)
  PROVE  Total(costs) \in Nat
<1> DEFINE part == [i \in 1 .. Len(costs) |-> {i} \X (0 .. costs[i])]
           P == {{i} \X (0 .. costs[i]) : i \in DOMAIN costs}
<1>1. DOMAIN costs = 1 .. Len(costs) /\ Len(costs) \in Nat
  OBVIOUS
<1>2. part \in Surjection(1 .. Len(costs), P)
  BY <1>1 DEF Surjection
<1>3. IsFiniteSet(P)
  BY <1>1, <1>2, FS_Interval, FS_Surjection
<1>4. ASSUME NEW i \in 1 .. Len(costs) PROVE IsFiniteSet({i} \X (0 .. costs[i]))
  <2>0. costs[i] \in Int /\ 0 \in Int
    OBVIOUS
  <2>1. IsFiniteSet(0 .. costs[i])
    BY <2>0, FS_Interval
  <2>2. IsFiniteSet({i})
    BY FS_Singleton
  <2> QED BY <2>1, <2>2, FS_Product
<1>5. \A p \in P : IsFiniteSet(p)
  BY <1>1, <1>4
<1>6. IsFiniteSet(UNION P)
  BY <1>3, <1>5, FS_UNION
<1> QED BY <1>6, FS_CardinalityType DEF Total

LEMMA SpentIsANumber ==
  ASSUME NEW costs \in Seq(Nat), NEW n \in 0 .. Len(costs)
  PROVE  Spent(costs, n) \in Nat
<1>1. SubSeq(costs, 1, n) \in Seq(Nat)
  BY SubSeqProperties
<1>2. Total(SubSeq(costs, 1, n)) \in Nat /\ HeaderCost \in Nat
  BY <1>1, TotalIsANumber, SizesAssumption
<1> QED BY <1>2 DEF Spent

(* A segment takes no more than what is left of the content's share.        *)
LEMMA SegmentFits ==
  ASSUME NEW costs \in Seq(Nat), NEW n, NEW most \in Nat, NEW used \in 0 .. Content, Content \in Nat,
         Fills(n, costs, most, used)
  PROVE  /\ n \in 0 .. Len(costs) /\ n \in Nat /\ Spent(costs, n) \in Nat
         /\ used + Spent(costs, n) \in 0 .. Content
<1>1. n \in 0 .. Len(costs) /\ n \in Nat
  BY DEF Fills
<1>2. Spent(costs, n) \in Nat
  BY <1>1, SpentIsANumber
<1>3. CASE n = 0
  BY <1>1, <1>2, <1>3 DEF Spent
<1>4. CASE n # 0
  <2>1. n \in 1 .. n
    BY <1>1, <1>4
  <2>2. HeaderCost + Total(SubSeq(costs, 1, n)) <= Least(HeaderCost + most, Content - used)
    BY <2>1 DEF Fills
  <2>3. Spent(costs, n) <= Least(HeaderCost + most, Content - used)
    BY <1>4, <2>2 DEF Spent
  <2>c. HeaderCost \in Nat /\ used \in Nat /\ used <= Content
    BY SizesAssumption
  <2>4. HeaderCost + most \in Nat /\ Content - used \in Nat
    BY <2>c
  <2>5. Spent(costs, n) <= Content - used
    BY <1>2, <2>3, <2>4 DEF Least
  <2> QED BY <1>1, <1>2, <2>c, <2>5
<1> QED BY <1>3, <1>4

LEMMA CostsAreNumbers ==
  ASSUME NEW S, NEW q \in Seq(S), \A x \in S : x.cost \in Nat
  PROVE  CostsOf(q) \in Seq(Nat) /\ Len(CostsOf(q)) = Len(q)
<1>1. DOMAIN q = 1 .. Len(q) /\ Len(q) \in Nat /\ \A i \in 1 .. Len(q) : q[i] \in S
  OBVIOUS
<1>2. CostsOf(q) = [i \in 1 .. Len(q) |-> q[i].cost]
  BY <1>1 DEF CostsOf
<1>3. CostsOf(q) \in [1 .. Len(q) -> Nat]
  BY <1>1, <1>2
<1> QED BY <1>1, <1>3

LEMMA ReversedSeq ==
  ASSUME NEW S, NEW q \in Seq(S)
  PROVE  Reverse(q) \in Seq(S)
<1>1. DOMAIN q = 1 .. Len(q) /\ Len(q) \in Nat /\ \A i \in 1 .. Len(q) : q[i] \in S
  OBVIOUS
<1>2. \A i \in 1 .. Len(q) : Len(q) - i + 1 \in 1 .. Len(q)
  BY <1>1
<1>3. Reverse(q) \in [1 .. Len(q) -> S]
  BY <1>1, <1>2 DEF Reverse
<1> QED BY <1>1, <1>3

LEMMA LinesCost ==
  ASSUME NEW h \in Histories, NEW lines \in ContextMessages(h.said, h.sent)
  PROVE  Reverse(CostsOf(lines)) \in Seq(Nat)
<1> DEFINE S == h.said \cup h.sent
<1>1. /\ IsFiniteSet(h.said) /\ IsFiniteSet(h.sent) /\ IsFiniteSet(S)
      /\ \A line \in S : line.cost \in Nat
  BY HistoryAssumption, FS_Union
<1>2. HistoryLimit \in Nat
  BY SizesAssumption
<1>n. ASSUME NEW T, NEW q \in NewestLines(T) PROVE q \in [1 .. Least(HistoryLimit, Cardinality(T)) -> T]
  BY DEF NewestLines, FirstOf
<1>3. PICK q \in NewestLines(h.said), p \in NewestLines(h.sent) :
        lines \in {Reverse(m) : m \in NewestLines(ToSet(q) \cup ToSet(p))}
  BY DEF ContextMessages
<1>4. ToSet(q) \subseteq h.said
  BY <1>1, <1>2, <1>n, LimitedSeq
<1>5. ToSet(p) \subseteq h.sent
  BY <1>1, <1>2, <1>n, LimitedSeq
<1> DEFINE U == ToSet(q) \cup ToSet(p)
<1>6. U \subseteq S /\ IsFiniteSet(U)
  BY <1>1, <1>4, <1>5, FS_Subset
<1>7. PICK m \in [1 .. Least(HistoryLimit, Cardinality(U)) -> U] : lines = Reverse(m)
  BY <1>3, <1>n
<1> HIDE DEF U, S
<1>8. m \in Seq(U) /\ Len(m) \in Nat
  BY <1>2, <1>6, <1>7, LimitedSeq
<1>9. lines \in Seq(U) /\ \A line \in U : line.cost \in Nat
  BY <1>1, <1>6, <1>7, <1>8, ReversedSeq DEF S
<1> QED BY <1>9, CostsAreNumbers, ReversedSeq

(* The assembled prompt fits, and cites what was recalled.                  *)
LEMMA AssembledFits ==
  ASSUME NEW history1, Reverse(history1) \in Seq(Nat),
         NEW summaries \in Seq(Summaries), NEW facts \in Seq(Facts), NEW m, NEW s, NEW f,
         Content \in Nat, MandatoryCost <= Content,
         Assembled(history1, summaries, facts, m, s, f)
  PROVE  LET made == AssembledPrompt(history1, summaries, facts, m, s, f)
         IN  /\ made.used \in 0 .. Content
             /\ made.batches \subseteq {x.batch : x \in ToSet(summaries)} \cup {x.batch : x \in ToSet(facts)}
<1> DEFINE newest == Reverse(history1)
           withM  == MandatoryCost + Spent(newest, m)
           withS  == withM + Spent(CostsOf(summaries), s)
           withF  == withS + Spent(CostsOf(facts), f)
           made   == AssembledPrompt(history1, summaries, facts, m, s, f)
<1>1. /\ CostsOf(summaries) \in Seq(Nat) /\ Len(CostsOf(summaries)) = Len(summaries)
      /\ CostsOf(facts) \in Seq(Nat) /\ Len(CostsOf(facts)) = Len(facts)
  <2>1. (\A x \in Summaries : x.cost \in Nat) /\ (\A x \in Facts : x.cost \in Nat)
    BY MemoryAssumption
  <2> QED BY <2>1, CostsAreNumbers
<1>2. MandatoryCost \in 0 .. Content /\ MessagesMax \in Nat /\ SummariesMax \in Nat /\ FactsMax \in Nat
  BY SizesAssumption
<1>3. /\ Fills(m, newest, MessagesMax, MandatoryCost)
      /\ Fills(s, CostsOf(summaries), SummariesMax, withM)
      /\ Fills(f, CostsOf(facts), FactsMax, withS)
  BY DEF Assembled
<1>4. withM \in 0 .. Content
  BY <1>2, <1>3, SegmentFits
<1> HIDE DEF withM
<1>5. withS \in 0 .. Content /\ s \in 0 .. Len(summaries)
  BY <1>1, <1>2, <1>3, <1>4, SegmentFits
<1> HIDE DEF withS
<1>6. withF \in 0 .. Content /\ f \in 0 .. Len(facts)
  BY <1>1, <1>2, <1>3, <1>5, SegmentFits
<1>7. made.used = withF
  BY DEF AssembledPrompt, withM, withS
<1>8. made.batches = {summaries[i].batch : i \in 1 .. s} \cup {facts[i].batch : i \in 1 .. f}
  BY DEF AssembledPrompt
<1>9. \A i \in 1 .. s : summaries[i] \in ToSet(summaries)
  BY <1>5 DEF ToSet
<1>10. \A i \in 1 .. f : facts[i] \in ToSet(facts)
  BY <1>6 DEF ToSet
<1> HIDE DEF made, withF
<1> QED BY <1>6, <1>7, <1>8, <1>9, <1>10 DEF made

-----------------------------------------------------------------------------
(* What the branches returned is stored, and what was assembled of it fits. *)
RecallInv ==
  /\ phase \in {"recall", "assembled"} =>
       /\ stored \in SUBSET Summaries
       /\ DOMAIN recalled \subseteq RecallBranches
       /\ "summaries" \in DOMAIN recalled => recalled["summaries"] \in Seq(stored)
       /\ \A b \in {"hits", "recent"} : b \in DOMAIN recalled => recalled[b] \in SUBSET FactsStored
  /\ phase = "assembled" =>
       /\ DOMAIN recalled = RecallBranches
       /\ prompt.used \in 0 .. Content
       /\ prompt.batches \subseteq {s.batch : s \in stored}

(* What a branch returns is stored as it runs.                              *)
LEMMA SummariesAreStored ==
  ASSUME stored \in SUBSET Summaries, NEW answer \in Branch("summaries")
  PROVE  answer \in Seq(stored)
<1>1. Branch("summaries") = RecentSummaries(stored)
  BY Zenon DEF Branch
<1>2. answer \in [1 .. Least(SummaryLimit, Cardinality(stored)) -> stored]
  BY <1>1 DEF RecentSummaries, FirstOf
<1>3. IsFiniteSet(stored) /\ SummaryLimit \in Nat
  BY MemoryAssumption, SizesAssumption, FS_Subset
<1> QED BY <1>2, <1>3, LimitedSeq

LEMMA FactsAreStored ==
  ASSUME NEW b \in {"hits", "recent"}, NEW answer \in Branch(b)
  PROVE  answer \in SUBSET FactsStored
<1>1. CASE b = "hits"
  <2>1. Branch("hits") = TextMatchingFacts(FactsStored)
    BY Zenon DEF Branch
  <2> DEFINE T == {f \in FactsStored : f.hit > 0}
  <2>2. PICK q \in [1 .. Least(TextFactLimit, Cardinality(T)) -> T] : answer = ToSet(q)
    BY <1>1, <2>1 DEF TextMatchingFacts, FirstOf
  <2>3. IsFiniteSet(T) /\ TextFactLimit \in Nat
    BY MemoryAssumption, SizesAssumption, FS_Subset DEF FactsStored
  <2> QED BY <2>2, <2>3, LimitedSeq
<1>2. CASE b = "recent"
  <2>1. Branch("recent") = RecentFacts(FactsStored)
    BY Zenon DEF Branch
  <2> DEFINE T == FactsStored
  <2>2. PICK q \in [1 .. Least(RecentFactLimit, Cardinality(T)) -> T] : answer = ToSet(q)
    BY <1>2, <2>1 DEF RecentFacts, FirstOf
  <2>3. IsFiniteSet(T) /\ RecentFactLimit \in Nat
    BY MemoryAssumption, SizesAssumption, FS_Subset DEF FactsStored
  <2> QED BY <2>2, <2>3, LimitedSeq
<1> QED BY <1>1, <1>2

LEMMA RecallMemoryKeeps == RecallInv /\ RecallMemory => RecallInv'
<1> SUFFICES ASSUME RecallInv, RecallMemory PROVE RecallInv'
  OBVIOUS
<1>1. PICK b \in RecallBranches \ DOMAIN recalled : \E answer \in Branch(b) :
        recalled' = [x \in DOMAIN recalled \cup {b} |-> IF x = b THEN answer ELSE recalled[x]]
  BY DEF RecallMemory
<1>2. PICK answer \in Branch(b) :
        recalled' = [x \in DOMAIN recalled \cup {b} |-> IF x = b THEN answer ELSE recalled[x]]
  BY <1>1
<1>3. phase = "recall" /\ phase' = phase /\ stored' = stored
  BY DEF RecallMemory, world
<1>4. FactsStored' = FactsStored
  BY <1>3 DEF FactsStored
<1>5. b = "summaries" => answer \in Seq(stored)
  BY <1>3, SummariesAreStored DEF RecallInv
<1>6. b \in {"hits", "recent"} => answer \in SUBSET FactsStored
  BY FactsAreStored
<1>7. DOMAIN recalled' = DOMAIN recalled \cup {b} /\ DOMAIN recalled' \subseteq RecallBranches
  BY <1>2, <1>3 DEF RecallInv
<1>8. "summaries" \in DOMAIN recalled' => recalled'["summaries"] \in Seq(stored)
  BY <1>2, <1>3, <1>5, <1>7 DEF RecallInv
<1>9. \A d \in {"hits", "recent"} : d \in DOMAIN recalled' => recalled'[d] \in SUBSET FactsStored
  BY <1>2, <1>3, <1>6, <1>7 DEF RecallInv
<1> QED BY <1>3, <1>4, <1>7, <1>8, <1>9 DEF RecallInv

(* A batch that is stored meanwhile takes nothing away.                     *)
LEMMA StoreBatchKeeps ==
  ASSUME RecallInv, NEW new \in Summaries, StoreBatch(new)
  PROVE  RecallInv'
<1>1. phase = "recall" /\ UNCHANGED <<phase, recalled>> /\ stored' = stored \cup {new}
  BY DEF StoreBatch, reply
<1>2. FactsStored \subseteq FactsStored'
  BY <1>1 DEF FactsStored
<1>3. \A q \in Seq(stored) : q \in Seq(stored')
  BY <1>1
<1>4. stored' \in SUBSET Summaries
  BY <1>1 DEF RecallInv
<1> QED BY <1>1, <1>2, <1>3, <1>4 DEF RecallInv

(* What the branches returned is assembled.                                 *)
LEMMA AssembleKeeps ==
  ASSUME RecallInv, Content \in Nat, NEW h \in Histories, NEW lines \in ContextMessages(h.said, h.sent),
         Assemble(CostsOf(lines))
  PROVE  RecallInv'
<1> DEFINE batches == {s.batch : s \in stored}
<1>1. /\ phase = "recall" /\ DOMAIN recalled = RecallBranches
      /\ UNCHANGED <<stored, recalled>>
  BY DEF Assemble, world
<1>2. /\ stored \in SUBSET Summaries /\ recalled.summaries \in Seq(stored)
      /\ recalled.hits \in SUBSET FactsStored /\ recalled.recent \in SUBSET FactsStored
  BY <1>1 DEF RecallInv, RecallBranches
<1>3. FactsStored' = FactsStored /\ FactsStored \subseteq Facts
  BY <1>1 DEF FactsStored
<1>4. CASE MandatoryCost > Content
  <2>1. phase' = "failed"
    BY <1>4 DEF Assemble
  <2> QED BY <2>1 DEF RecallInv
<1>5. CASE ~(MandatoryCost > Content)
  <2>1. phase' = "assembled"
    BY <1>5 DEF Assemble
  <2>2. PICK facts \in RankFacts(recalled.hits, recalled.recent), m \in 0 .. Most, s \in 0 .. Most, f \in 0 .. Most :
          /\ Assembled(CostsOf(lines), recalled.summaries, facts, m, s, f)
          /\ prompt' = AssembledPrompt(CostsOf(lines), recalled.summaries, facts, m, s, f)
    BY <1>5 DEF Assemble
  <2> DEFINE K == Kept(recalled.hits, recalled.recent)
  <2>3. /\ facts \in [1 .. Least(FactsMost, Cardinality(K)) -> K] /\ IsFiniteSet(K) /\ K \subseteq Facts
        /\ FactsMost \in Nat
    BY <1>2, <1>3, RankedFacts
  <2>4. K \subseteq FactsStored
    BY <1>2 DEF Kept
  <2> HIDE DEF K
  <2>5. facts \in Seq(K) /\ ToSet(facts) \subseteq K
    BY <2>3, LimitedSeq
  <2>6. facts \in Seq(Facts) /\ recalled.summaries \in Seq(Summaries)
    BY <1>2, <2>3, <2>5
  <2>7. Reverse(CostsOf(lines)) \in Seq(Nat)
    BY LinesCost
  <2>8. MandatoryCost <= Content
    BY <1>5, SizesAssumption
  <2>9. /\ prompt'.used \in 0 .. Content
        /\ prompt'.batches \subseteq {x.batch : x \in ToSet(recalled.summaries)} \cup {x.batch : x \in ToSet(facts)}
    BY <2>2, <2>6, <2>7, <2>8, AssembledFits
  <2>10. ToSet(recalled.summaries) \subseteq stored
    BY <1>2 DEF ToSet
  <2>11. \A x \in ToSet(facts) : x.batch \in batches
    BY <2>4, <2>5 DEF FactsStored
  <2>12. prompt'.batches \subseteq batches
    BY <2>9, <2>10, <2>11
  <2>13. phase' = "assembled" => /\ DOMAIN recalled' = RecallBranches
                                 /\ prompt'.used \in 0 .. Content
                                 /\ prompt'.batches \subseteq {x.batch : x \in stored'}
    BY <1>1, <2>9, <2>12
  <2> QED BY <1>1, <1>2, <1>3, <2>13 DEF RecallInv
<1> QED BY <1>4, <1>5

LEMMA RecallInit == ToolsInit => RecallInv
BY MemoryAssumption DEF ToolsInit, RecallInv

LEMMA RecallStep == RecallInv /\ Content \in Nat /\ [ToolsNext]_toolsVars => RecallInv'
<1> SUFFICES ASSUME RecallInv, Content \in Nat, [ToolsNext]_toolsVars PROVE RecallInv'
  OBVIOUS
<1>1. ASSUME phase' \notin {"recall", "assembled"} PROVE RecallInv'
  BY <1>1 DEF RecallInv
<1>2. ASSUME UNCHANGED <<stored, phase, recalled, prompt>> PROVE RecallInv'
  BY <1>2 DEF RecallInv, FactsStored
<1>3. ASSUME phase' = phase, phase \notin {"recall", "assembled"} PROVE RecallInv'
  BY <1>1, <1>3
<1>4. CASE Prepare
  <2>1. CASE Connect
    BY <1>1, <2>1 DEF Connect
  <2> QED BY <1>4, <2>1, RecallMemoryKeeps, AssembleKeeps DEF Prepare
<1>5. CASE Generate \/ Continue \/ Abandon
  BY <1>1, <1>5 DEF Generate, CallTools, AnswerOwner, AskAgain, Continue, Abandon
<1>6. ASSUME NEW c \in Calls, Run(c) \/ Finish(c) \/ OwnerDecides(c)
      PROVE  RecallInv'
  BY <1>2, <1>6
  DEF Run, RunGroupTool, RunMediaTool, Refuse, Resolve, ReadGroup, ReadGroupMessages,
      ListMonitoredGroups, ListScheduledSends, FindSend, CancelScheduledSend, StageGroupAction,
      DecideAsPolicy, Execute, RecordToolCall, LoadScopedMedia, ReadObject, RunExtractor, Finish,
      TimesOut, ReadCapability, RecordMediaRead, Clip, OwnerDecides, Rest, world, reply
<1>7. ASSUME NEW g \in Groups, Move(g) PROVE RecallInv'
  BY <1>2, <1>7 DEF Move, reply
<1>8. CASE Dispatch \/ UNCHANGED toolsVars
  BY <1>2, <1>8 DEF Dispatch, toolsVars, world, reply
<1> QED BY <1>4, <1>5, <1>6, <1>7, <1>8, StoreBatchKeeps DEF ToolsNext

(* Whichever branch saw which batch, the ranked facts repeat nothing and     *)
(* miss nothing, and the prompt fits and cites only what is stored.          *)
THEOREM PromptStaysSound == ToolsSpec => []PromptIsSound
<1>1. RecallInv => PromptIsSound
  <2> SUFFICES ASSUME RecallInv, phase = "assembled", NEW facts \in RankFacts(recalled.hits, recalled.recent)
               PROVE  /\ \A i, j \in DOMAIN facts : i # j => facts[i].text # facts[j].text
                      /\ Len(facts) < TextFactLimit + RecentFactLimit =>
                           \A f \in recalled.hits \cup recalled.recent : \E i \in DOMAIN facts :
                             /\ facts[i].text = f.text
                             /\ FactScore(facts[i], recalled.hits) >= FactScore(f, recalled.hits)
    BY DEF PromptIsSound, RecallInv
  <2>1. recalled.hits \in SUBSET Facts /\ recalled.recent \in SUBSET Facts
    BY DEF RecallInv, RecallBranches, FactsStored
  <2> QED BY <2>1, RankingIsSound
<1> QED BY <1>1, TheSizes, RecallInit, RecallStep, PTL DEF ToolsSpec

(***************************************************************************)
(* The sums of a reply                                                     *)
(***************************************************************************)
SumsInv ==
  /\ moves \in 0 .. MaxMoves /\ stored \in SUBSET Summaries
  /\ phase \in {"recall", "assembled", "asking", "tools", "closing", "replied", "refused", "failed"}
  /\ phase # "assembled" => prompt.used \in 0 .. Content
  /\ attempt \in 1 .. Attempts /\ step \in 0 .. MaxSteps
  /\ history \in Nat /\ results \in Nat /\ remaining \in Nat
  /\ HistoryIsReserved /\ ResultsAreReserved

(* No more steps than there are, no more history than they may make.        *)
LEMMA StepsTimesOutput ==
  ASSUME NEW n \in 0 .. MaxSteps
  PROVE  /\ n * OutputReserve \in Nat
         /\ (n + 1) * OutputReserve = n * OutputReserve + OutputReserve
         /\ n * OutputReserve <= MaxSteps * OutputReserve
BY TheSizes

LEMMA SumsInit == ToolsInit => SumsInv
BY TheSizes, MemoryAssumption DEF ToolsInit, SumsInv, NoPrompt, HistoryIsReserved, ResultsAreReserved

LEMMA SumsStep == SumsInv /\ RecallInv /\ [ToolsNext]_toolsVars => SumsInv'
<1> SUFFICES ASSUME SumsInv, RecallInv, [ToolsNext]_toolsVars PROVE SumsInv'
  OBVIOUS
<1> USE TheSizes DEF SumsInv, HistoryIsReserved, ResultsAreReserved
<1>1. CASE Prepare
  <2>1. CASE RecallMemory
    BY <1>1, <2>1 DEF RecallMemory, world
  <2>2. CASE Connect
    BY <1>1, <2>2 DEF Connect, RecallInv, NoPrompt
  <2>3. ASSUME NEW lines, Assemble(lines) PROVE SumsInv'
    BY <1>1, <2>3 DEF Assemble, world
  <2> QED BY <1>1, <2>1, <2>2, <2>3 DEF Prepare
<1>2. ASSUME NEW turn, NEW o \in Outputs, CallTools(turn, o) PROVE SumsInv'
  <2>1. o \in 0 .. OutputReserve
    BY SizesAssumption
  <2>2. /\ phase = "asking" /\ step < MaxSteps /\ phase' = "tools" /\ step' = step + 1
        /\ history' = history + o
        /\ UNCHANGED <<moves, stored, prompt, attempt, results, remaining>>
    BY <1>2 DEF CallTools, world
  <2>3. history + o <= (step + 1) * OutputReserve
    BY <2>1, StepsTimesOutput
  <2> QED BY <2>1, <2>2, <2>3
<1>3. CASE AnswerOwner \/ Continue \/ Abandon
  BY <1>3 DEF AnswerOwner, Continue, Abandon, world
<1>4. CASE AskAgain
  BY <1>4 DEF AskAgain, world
<1>5. ASSUME NEW c \in Calls, NEW size \in Sizes, NEW given \in 0 .. ResultReserve, Clip(c, size, given)
      PROVE  SumsInv'
  <2>1. size \in Nat
    BY SizesAssumption
  <2>2. given <= remaining
    BY <1>5, <2>1 DEF Clip
  <2>3. /\ remaining' = 0 \/ remaining' = remaining - given
        /\ results' = results \/ results' = results + given
        /\ remaining' + given <= remaining
    BY <1>5, <2>1, <2>2 DEF Clip
  <2>4. UNCHANGED <<moves, stored, phase, prompt, attempt, step, history>>
    BY <1>5 DEF Clip, world
  <2> QED BY <2>2, <2>3, <2>4
<1>6. ASSUME UNCHANGED <<moves, stored, phase, prompt, attempt, step, history, results, remaining>>
      PROVE  SumsInv'
  BY <1>6
<1>7. ASSUME NEW c \in Calls, Run(c) \/ Finish(c) \/ OwnerDecides(c)
      PROVE  SumsInv'
  BY <1>5, <1>6, <1>7
  DEF Run, RunGroupTool, RunMediaTool, Refuse, Resolve, ReadGroup, ReadGroupMessages,
      ListMonitoredGroups, ListScheduledSends, FindSend, CancelScheduledSend, StageGroupAction,
      DecideAsPolicy, Execute, RecordToolCall, LoadScopedMedia, ReadObject, RunExtractor, Finish,
      TimesOut, ReadCapability, RecordMediaRead, OwnerDecides, Rest, world, reply
<1>8. ASSUME NEW g \in Groups, Move(g) PROVE SumsInv'
  BY <1>8 DEF Move, reply
<1>9. CASE Dispatch \/ (\E s \in Summaries : StoreBatch(s)) \/ UNCHANGED toolsVars
  BY <1>9 DEF Dispatch, StoreBatch, toolsVars, world, reply
<1> QED BY <1>1, <1>2, <1>3, <1>4, <1>7, <1>8, <1>9 DEF ToolsNext, Generate

(* Every request of a reply leaves its answer room under the ceiling.       *)
THEOREM RequestsFit == ToolsSpec => []ContextInv
<1>1. CallsInv /\ SumsInv /\ RecallInv => ContextInv
  <2> SUFFICES ASSUME CallsInv, SumsInv, RecallInv PROVE ContextInv
    OBVIOUS
  <2>1. prompt.used \in 0 .. Content
    BY DEF SumsInv, RecallInv
  <2>2. call \in [Calls -> CallRecords]
    BY DEF CallsInv, Sound
  <2>3. ToolsTypeOK
    BY <2>1, <2>2, TheSizes DEF CallsInv, SumsInv, ToolsTypeOK
  <2>4. ContextFits
    BY <2>1, TheSizes, StepsTimesOutput
    DEF SumsInv, HistoryIsReserved, ResultsAreReserved, ContextFits
  <2> QED BY <2>3, <2>4 DEF SumsInv, ContextInv, BudgetInv
<1> QED BY <1>1, TheSizes, CallsInit, CallsStep, RecallInit, RecallStep, SumsInit, SumsStep, PTL
     DEF ToolsSpec
=============================================================================
