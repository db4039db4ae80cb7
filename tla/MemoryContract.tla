--------------------------- MODULE MemoryContract ---------------------------
(***************************************************************************)
(* What the memory of a group promises, without builders, leases, handlers *)
(* or callbacks: the group's messages are summarised in order, in ranges   *)
(* taken up one at a time, each message at most once; and once a range is  *)
(* given up, nothing after it is taken up.                                 *)
(***************************************************************************)
EXTENDS Naturals

CONSTANTS
  Groups,
  Messages  (* numbered in their order                                     *)

VARIABLES
  open,     (* per group: the messages of the range that is taken up       *)
  done,     (* per group: the messages that are summarised                 *)
  lost      (* per group: the messages of the range that was given up      *)

vars == <<open, done, lost>>

Init ==
  /\ open = [g \in Groups |-> {}]
  /\ done = [g \in Groups |-> {}]
  /\ lost = [g \in Groups |-> {}]

(* A range is taken up when no other is open or lost, beyond what is done. *)
Take(g, range) ==
  /\ open[g] = {} /\ lost[g] = {}
  /\ range # {}
  /\ \A m \in range, d \in done[g] : d < m
  /\ open' = [open EXCEPT ![g] = range]
  /\ UNCHANGED <<done, lost>>

(* All of it is summarised, or blanked, at once.                           *)
Summarise(g) ==
  /\ open[g] # {}
  /\ done' = [done EXCEPT ![g] = @ \cup open[g]]
  /\ open' = [open EXCEPT ![g] = {}]
  /\ UNCHANGED lost

GiveUp(g) ==
  /\ open[g] # {}
  /\ lost' = [lost EXCEPT ![g] = open[g]]
  /\ open' = [open EXCEPT ![g] = {}]
  /\ UNCHANGED done

Next ==
  \E g \in Groups :
    \/ \E range \in SUBSET Messages : Take(g, range)
    \/ Summarise(g) \/ GiveUp(g)

Spec == Init /\ [][Next]_vars
=============================================================================
