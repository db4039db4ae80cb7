------------------------------ MODULE ReplyRuns ------------------------------
(***************************************************************************)
(* The answer to an owner's mention: one document of `agentReplyRuns` per  *)
(* message, contended by the callbacks the worker posts for it.            *)
(*                                                                         *)
(* A callback (POST /api/internal/reply-jobs) claims the run under a lease *)
(* with a token of its own, renews the lease before and during the model   *)
(* call, and closes the run together with its one send request. It may die *)
(* or stall at any point, its lease may lapse while it works and another   *)
(* callback may take the run over; storage may commit and not say so.      *)
(*                                                                         *)
(* Each step is one database operation or one transaction. A callback      *)
(* claims at most once, so its name stands for its lease token.            *)
(***************************************************************************)
EXTENDS Naturals

CONSTANTS
  Messages,    (* triggering messages                                      *)
  Callbacks,   (* POST requests to the BFF                                 *)
  MaxAttempts, (* AGENT_REPLY_MAX_ATTEMPTS                                 *)
  Lease,       (* AGENT_REPLY_LEASE_MS, in ticks                           *)
  Delays,      (* the backoffs agentReplyRetryDelayMs may choose           *)
  MaxTime,     (* bound on the clock                                       *)
  None

ASSUME RepliesAssumption ==
  /\ MaxAttempts \in Nat \ {0}
  /\ Lease \in Nat \ {0}
  /\ Delays \subseteq Nat
  /\ MaxTime \in Nat
  /\ None \notin Callbacks \cup Messages \cup Nat

Time == 0..MaxTime
Kinds == {"automatic", "review"}

VARIABLES
  now,    (* the clock                                                     *)
  run,    (* the agentReplyRuns collection, per message                    *)
  send,   (* per message: its send request and the attempt that wrote it   *)
  calls,  (* per message: model calls made for it                          *)
  at,     (* per callback: where it stands                                 *)
  about,  (* per callback: the message                                     *)
  since,  (* per callback: the time its claim began, the claim's `now`     *)
  try,    (* per callback: run.attempts as its claim returned it           *)
  plan    (* per callback: how it means to close the run                   *)

cbVars == <<at, about, since, try, plan>>
vars == <<now, run, send, calls, cbVars>>

States == {"absent", "processing", "complete", "failed", "dead"}
Plans == Kinds \cup {"retryable", "terminal"}
Places == {"ready", "begin", "insert", "reclaim", "exhaust", "retry", "look",
           "claimed", "recalling", "generating", "closing", "settling",
           "done", "dead"}

Unsent == [kind |-> "none", attempt |-> 0]

Init ==
  /\ now = 0
  /\ run = [m \in Messages |-> [state |-> "absent", holder |-> None,
              expires |-> None, attempts |-> 0, next |-> None]]
  /\ send = [m \in Messages |-> Unsent]
  /\ calls = [m \in Messages |-> 0]
  /\ at = [c \in Callbacks |-> "ready"]
  /\ about = [c \in Callbacks |-> None]
  /\ since = [c \in Callbacks |-> 0]
  /\ try = [c \in Callbacks |-> 0]
  /\ plan = [c \in Callbacks |-> None]

Goto(c, from, to) ==
  /\ at[c] = from
  /\ at' = [at EXCEPT ![c] = to]

-----------------------------------------------------------------------------
(* What the updates make of a run.                                         *)

Taken(r, c) ==
  [r EXCEPT !.state = "processing", !.holder = c, !.attempts = r.attempts + 1,
            !.expires = since[c] + Lease]

Closed(r, state) ==
  [r EXCEPT !.state = state, !.holder = None, !.expires = None, !.next = None]

Failed(r, next) ==
  [r EXCEPT !.state = "failed", !.holder = None, !.expires = None, !.next = next]

(* Mutant: any live lease will do. *)
HoldsAny(c) ==
  /\ about[c] \in Messages
  /\ run[about[c]].state = "processing"
  /\ run[about[c]].expires > now

Holds(c) ==
  LET r == run[about[c]] IN
  /\ about[c] \in Messages
  /\ r.state = "processing"
  /\ r.holder = c
  /\ r.expires > now

(* Mutant: no lease counts as an expired one, whatever the state. *)
ExpiredOrFree(r, t) ==
  /\ r.state # "absent"
  /\ IF r.expires = None THEN TRUE ELSE r.expires <= t

Expired(r, t) == r.state = "processing" /\ r.expires <= t
Due(r, t) == r.state = "failed" /\ r.next <= t

-----------------------------------------------------------------------------
(* The callback is posted and passes the route's gates: an authorised      *)
(* owner, a stored message with text, an eligible chat.                    *)
Receive(c, m) ==
  /\ Goto(c, "ready", "begin")
  /\ about' = [about EXCEPT ![c] = m]
  /\ UNCHANGED <<now, run, send, calls, since, try, plan>>

(* reconcileAgentReplySend: a send that exists closes the run, whatever    *)
(* state it is in.                                                         *)
Reconcile(m) ==
  IF run[m].state = "complete" THEN UNCHANGED run
  ELSE run' = [run EXCEPT ![m] = Closed(@, "complete")]

Begin(c) ==
  LET m == about[c] IN
  /\ at[c] = "begin"
  /\ \/ /\ send[m] # Unsent
        /\ Goto(c, "begin", "done")
        /\ Reconcile(m)
        /\ UNCHANGED since
     \/ /\ send[m] = Unsent
        /\ Goto(c, "begin", "insert")
        /\ since' = [since EXCEPT ![c] = now]
        /\ UNCHANGED run
  /\ UNCHANGED <<now, send, calls, about, try, plan>>

(* claimAgentReplyRun: four guarded updates and a read, in this order, all *)
(* judged by the time the claim began. A fifth update, for a due run whose *)
(* attempts are spent, never matches: such a run is dead already.          *)
Take(c, from) ==
  LET m == about[c] IN
  /\ Goto(c, from, "claimed")
  /\ run' = [run EXCEPT ![m] = Taken(@, c)]
  /\ try' = [try EXCEPT ![c] = run[m].attempts + 1]
  /\ UNCHANGED <<now, send, calls, about, since, plan>>

Pass(c, from, to) ==
  /\ Goto(c, from, to)
  /\ UNCHANGED <<now, run, send, calls, about, since, try, plan>>

Insert(c) ==
  LET r == run[about[c]] IN
  /\ at[c] = "insert"
  /\ \/ r.state = "absent" /\ Take(c, "insert")
     \/ r.state # "absent" /\ Pass(c, "insert", "reclaim")

Reclaimable(r, c) == Expired(r, since[c]) /\ r.attempts < MaxAttempts

Reclaim(c) ==
  LET r == run[about[c]] IN
  /\ at[c] = "reclaim"
  /\ \/ Reclaimable(r, c) /\ Take(c, "reclaim")
     \/ ~Reclaimable(r, c) /\ Pass(c, "reclaim", "exhaust")

Exhausted(r, c) == Expired(r, since[c]) /\ r.attempts >= MaxAttempts

Exhaust(c) ==
  LET m == about[c] IN
  /\ at[c] = "exhaust"
  /\ \/ /\ Exhausted(run[m], c)
        /\ Goto(c, "exhaust", "done")
        /\ run' = [run EXCEPT ![m] = Closed(@, "dead")]
        /\ UNCHANGED <<now, send, calls, about, since, try, plan>>
     \/ ~Exhausted(run[m], c) /\ Pass(c, "exhaust", "retry")

Retryable(r, c) == Due(r, since[c]) /\ r.attempts < MaxAttempts

Retry(c) ==
  LET r == run[about[c]] IN
  /\ at[c] = "retry"
  /\ \/ Retryable(r, c) /\ Take(c, "retry")
     \/ ~Retryable(r, c) /\ Pass(c, "retry", "look")

(* A complete run's send is replayed, a dead one is reported, any other    *)
(* has a holder or is not due: 202.                                        *)
Look(c) == Pass(c, "look", "done")

-----------------------------------------------------------------------------
(* The holder.                                                             *)

Decide(c, from, what) ==
  /\ Goto(c, from, "closing")
  /\ plan' = [plan EXCEPT ![c] = what]

(* A command in a direct chat is decided and answered without a model; no  *)
(* token counter: the run cannot be answered at all.                       *)
AnswerCommand(c) ==
  /\ Decide(c, "claimed", "automatic")
  /\ UNCHANGED <<now, run, send, calls, about, since, try>>

CannotAsk(c) ==
  /\ Decide(c, "claimed", "terminal") \/ Decide(c, "recalling", "terminal")
  /\ UNCHANGED <<now, run, send, calls, about, since, try>>

(* renewAgentReplyLease: only a live lease of one's own is extended; a     *)
(* holder that lost it stops.                                              *)
Extend(c) == run' = [run EXCEPT ![about[c]].expires = now + Lease]

Renew(c, from, to) ==
  \/ Goto(c, from, to) /\ Holds(c) /\ Extend(c)
  \/ Goto(c, from, "done") /\ ~Holds(c) /\ UNCHANGED run

RenewForRecall(c) ==
  /\ Renew(c, "claimed", "recalling")
  /\ UNCHANGED <<now, send, calls, about, since, try, plan>>

(* Renewed again, and the model is called.                                 *)
RenewForModel(c) ==
  /\ Renew(c, "recalling", "generating")
  /\ calls' = IF Holds(c) THEN [calls EXCEPT ![about[c]] = @ + 1] ELSE calls
  /\ UNCHANGED <<now, send, about, since, try, plan>>

(* The heartbeat; a lost lease aborts the call.                            *)
Heartbeat(c) ==
  /\ Renew(c, "generating", "generating")
  /\ UNCHANGED <<now, send, calls, about, since, try, plan>>

(* The model answers: a reply, output the sanitizer refuses, or a failure  *)
(* classifyReplyFailure sorts.                                             *)
Generated(c) ==
  /\ \E what \in Plans : Decide(c, "generating", what)
  /\ UNCHANGED <<now, run, send, calls, about, since, try>>

(* createAutomaticSendUnderRunLease and createHumanReviewSendUnderRunLease:*)
(* the run is closed under its live lease and the send inserted, in one    *)
(* transaction. Its commit may not be heard.                               *)
Close(c) ==
  LET m == about[c] IN
  /\ plan[c] \in Kinds
  /\ Holds(c)
  /\ send[m] = Unsent
  /\ Goto(c, "closing", "done") \/ Goto(c, "closing", "settling")
  /\ run' = [run EXCEPT ![m] = Closed(@, "complete")]
  /\ send' = [send EXCEPT ![m] = [kind |-> plan[c], attempt |-> try[c]]]
  /\ UNCHANGED <<now, calls, about, since, try, plan>>

(* The lease was lost: the run is reconciled with the winner's send, if    *)
(* there is one.                                                           *)
CloseLost(c) ==
  /\ plan[c] \in Kinds
  /\ ~Holds(c)
  /\ Goto(c, "closing", "done")
  /\ IF send[about[c]] # Unsent THEN Reconcile(about[c]) ELSE UNCHANGED run
  /\ UNCHANGED <<now, send, calls, about, since, try, plan>>

(* The transaction failed and nothing was stored.                          *)
CloseFails(c) ==
  /\ plan[c] \in Kinds
  /\ Pass(c, "closing", "settling")

(* failAgentReplyRun: under a live lease; the last attempt's failure, and  *)
(* a terminal one, is final.                                               *)
FailRun(c, terminal) ==
  LET m == about[c] IN
  IF Holds(c)
  THEN IF terminal \/ try[c] >= MaxAttempts
       THEN run' = [run EXCEPT ![m] = Closed(@, "dead")]
       ELSE \E d \in Delays : run' = [run EXCEPT ![m] = Failed(@, now + d)]
  ELSE UNCHANGED run

(* An unheard commit: the send is looked for before the attempt is failed. *)
Settle(c) ==
  /\ Goto(c, "settling", "done")
  /\ IF send[about[c]] # Unsent THEN Reconcile(about[c]) ELSE FailRun(c, FALSE)
  /\ UNCHANGED <<now, send, calls, about, since, try, plan>>

GiveUp(c) ==
  /\ plan[c] \in {"retryable", "terminal"}
  /\ Goto(c, "closing", "done")
  /\ FailRun(c, plan[c] = "terminal")
  /\ UNCHANGED <<now, send, calls, about, since, try, plan>>

Crash(c) ==
  /\ at[c] \notin {"ready", "done", "dead"}
  /\ at' = [at EXCEPT ![c] = "dead"]
  /\ UNCHANGED <<now, run, send, calls, about, since, try, plan>>

Tick ==
  /\ now < MaxTime
  /\ now' = now + 1
  /\ UNCHANGED <<run, send, calls, cbVars>>

-----------------------------------------------------------------------------
Claim(c) == Begin(c) \/ Insert(c) \/ Reclaim(c) \/ Exhaust(c) \/ Retry(c) \/ Look(c)

Answer(c) ==
  \/ AnswerCommand(c) \/ CannotAsk(c)
  \/ RenewForRecall(c) \/ RenewForModel(c) \/ Generated(c)
  \/ Close(c) \/ CloseLost(c) \/ CloseFails(c) \/ Settle(c) \/ GiveUp(c)

Next ==
  \/ \E c \in Callbacks :
       \/ \E m \in Messages : Receive(c, m)
       \/ Claim(c) \/ Answer(c) \/ Heartbeat(c) \/ Crash(c)
  \/ Tick

Spec == Init /\ [][Next]_vars

-----------------------------------------------------------------------------
(* Correctness.                                                            *)

(* Types, and that a failed run has an attempt left and a time for it: the *)
(* claim's branch for a due run whose attempts are spent finds nothing.    *)
Runs == [state : States, holder : Callbacks \cup {None}, expires : Nat \cup {None},
         attempts : 0..MaxAttempts, next : Nat \cup {None}]

TypeOK ==
  /\ now \in Time
  /\ run \in [Messages -> Runs]
  /\ send \in [Messages -> [kind : Kinds \cup {"none"}, attempt : 0..MaxAttempts]]
  /\ calls \in [Messages -> Nat]
  /\ at \in [Callbacks -> Places]
  /\ about \in [Callbacks -> Messages \cup {None}]
  /\ since \in [Callbacks -> Time]
  /\ try \in [Callbacks -> 0..MaxAttempts]
  /\ plan \in [Callbacks -> Plans \cup {None}]
  /\ \A m \in Messages : run[m].state = "failed" =>
       run[m].attempts < MaxAttempts /\ run[m].next # None

(* A run is complete exactly when its send exists, and the send is the     *)
(* work of the run's last claimant: every answer that was created is found *)
(* again, no other callback makes a second, and one that lost its lease    *)
(* while the model was thinking contributes nothing.                       *)
SendIffComplete ==
  \A m \in Messages :
    /\ send[m] # Unsent <=> run[m].state = "complete"
    /\ send[m] # Unsent => send[m].attempt = run[m].attempts

(* However often a message is redelivered and its callbacks die, the model *)
(* is called at most once per claim and MaxAttempts times in all.          *)
ModelCallsAreBounded ==
  \A m \in Messages : calls[m] <= run[m].attempts /\ run[m].attempts <= MaxAttempts

(* A run, its send and the calls of its model agree at every instant.      *)
ReplyInv == TypeOK /\ SendIffComplete /\ ModelCallsAreBounded

(* A closed run stays closed: no stale holder, late failure or redelivered *)
(* callback reopens it, and no model call is begun for a message that has  *)
(* its answer or whose run was given up.                                   *)
ClosedIsFinal ==
  [][\A m \in Messages : run[m].state \in {"complete", "dead"} =>
       run'[m] = run[m] /\ calls'[m] = calls[m]]_vars
=============================================================================
