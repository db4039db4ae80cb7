------------------------------ MODULE GroupSync ------------------------------
(***************************************************************************)
(* How the worker follows the membership of a WhatsApp account:            *)
(* runGroupSync (groupsync.go) on a timer and when the console asks, and   *)
(* the repair of a single row that is read when stale (httpapi.go). Each   *)
(* reads WhatsApp through the bridge, reads the stored rows, and writes    *)
(* what it made of both, one row at a time: nothing keeps two of them from *)
(* overlapping, and WhatsApp moves meanwhile.                              *)
(*                                                                         *)
(* Of an observation the model keeps what the merge compares: the state,   *)
(* the name and the ring of former names. The stamps, and the ring's check *)
(* for the same entry twice (same name and stamp), are left out: a ring is *)
(* only ever written together with the name after its newest entry.        *)
(***************************************************************************)
EXTENDS Naturals, FiniteSets, Sequences

CONSTANTS
  Groups,
  Former,    (* groups left in an earlier life of the worker               *)
  Names,
  Out,       (* what WhatsApp says of a group the account is not in        *)
  NoName,
  Timer,     (* the scheduler: one pass after the other                    *)
  Manual,    (* passes asked for by the console                            *)
  Readers,   (* reads of one group                                         *)
  Prune,     (* GROUP_SYNC_PRUNE                                           *)
  RingMax,   (* subjectHistoryMax                                          *)
  MaxMoves,  (* bound on what happens in WhatsApp                          *)
  MaxErrors  (* bound on the failures of the bridge, the store, the process *)

ASSUME SyncAssumption ==
  /\ IsFiniteSet(Groups)
  /\ Former \subseteq Groups
  /\ Timer \notin Manual /\ Timer \notin Readers /\ Manual \cap Readers = {}
  /\ Out \notin Names /\ NoName \notin Names /\ Out # NoName
  /\ Prune \in BOOLEAN
  /\ RingMax \in Nat \ {0}
  /\ MaxMoves \in Nat /\ MaxErrors \in Nat

Passes == {Timer} \cup Manual
Actors == Passes \cup Readers

VARIABLES
  live,    (* WhatsApp: each group's name, or Out                          *)
  everOut, (* groups the account was out of at some time                   *)
  row,     (* the groups collection, observed                              *)
  gauge,   (* the instance's runtime.groupSync                             *)
  at,      (* per actor: where it stands                                   *)
  seen,    (* per actor: what the bridge answered                          *)
  base,    (* per actor: the rows it loaded                                *)
  todo,    (* per actor: the rows it has left to write                     *)
  count,   (* per actor: CountLeft                                         *)
  moves,
  errors

envVars == <<live, everOut, moves>>
workVars == <<at, seen, base, todo, count>>
vars == <<envVars, row, gauge, workVars, errors>>

Unknown == [known |-> FALSE, state |-> "active", name |-> NoName, ring |-> <<>>]
Listed(l) == {g \in Groups : l[g] # Out}
Left == {g \in Groups : row[g].known /\ row[g].state = "left"}

LeftBefore == [known : {TRUE}, state : {"left"}, name : Names, ring : {<<>>}]

Init ==
  /\ live \in [Groups -> Names \cup {Out}]
  /\ everOut = {g \in Groups : live[g] = Out}
  /\ row \in [Groups -> LeftBefore \cup {Unknown}]
  /\ \A g \in Groups : row[g].known <=> g \in Former
  /\ \A g \in Former : live[g] = Out
  /\ gauge = [observed |-> 0, left |-> 0, failed |-> FALSE]
  /\ at = [p \in Actors |-> "idle"]
  /\ seen = [p \in Actors |-> [g \in Groups |-> Out]]
  /\ base = [p \in Actors |-> [g \in Groups |-> Unknown]]
  /\ todo = [p \in Actors |-> {}]
  /\ count = [p \in Actors |-> 0]
  /\ moves = 0
  /\ errors = 0

(* The account joins, leaves or is removed; a group gets another name.     *)
Move(g, x) ==
  /\ moves < MaxMoves
  /\ x # live[g]
  /\ moves' = moves + 1
  /\ live' = [live EXCEPT ![g] = x]
  /\ everOut' = IF x = Out THEN everOut \cup {g} ELSE everOut
  /\ UNCHANGED <<row, gauge, workVars, errors>>

-----------------------------------------------------------------------------
(* appendSubjectHistory.                                                   *)
Pushed(ring, name) ==
  LET grown == <<name>> \o ring
  IN IF Len(grown) > RingMax THEN SubSeq(grown, 1, RingMax) ELSE grown

(* Mutant of Merged: the membership is the stored one's.                   *)
MergedKeepsState(old, name) ==
  LET renamed == name \notin {NoName, old.name} IN
  [known |-> TRUE, state |-> old.state,
   name |-> IF renamed THEN name ELSE old.name,
   ring |-> IF renamed /\ old.name # NoName THEN Pushed(old.ring, old.name) ELSE old.ring]

(* mergeSnapshot: a group WhatsApp lists is one the account is in; a name  *)
(* that differs moves the stored one into the ring.                        *)
Merged(old, name) ==
  LET renamed == name \notin {NoName, old.name} IN
  [known |-> TRUE, state |-> "active",
   name |-> IF renamed THEN name ELSE old.name,
   ring |-> IF renamed /\ old.name # NoName THEN Pushed(old.ring, old.name) ELSE old.ring]

Go(p, place) == at' = [at EXCEPT ![p] = place]

(* A request ends; the scheduler waits for its next tick.                  *)
Ended(p) == IF p = Timer THEN "idle" ELSE "done"

(* An actor that ends forgets what it read.                                *)
Forget(p) ==
  /\ Go(p, Ended(p))
  /\ seen' = [seen EXCEPT ![p] = [g \in Groups |-> Out]]
  /\ base' = [base EXCEPT ![p] = [g \in Groups |-> Unknown]]
  /\ todo' = [todo EXCEPT ![p] = {}]
  /\ count' = [count EXCEPT ![p] = 0]

-----------------------------------------------------------------------------
(* A pass.                                                                 *)

(* bridge.Groups, one moment's answer.                                     *)
Fetch(p) ==
  /\ at[p] = "idle"
  /\ seen' = [seen EXCEPT ![p] = live]
  /\ Go(p, "load")
  /\ UNCHANGED <<envVars, row, gauge, base, todo, count, errors>>

(* Mutant of FetchFails: no answer is an empty one.                        *)
FetchFailsEmpty(p) ==
  /\ at[p] = "idle" /\ errors < MaxErrors
  /\ errors' = errors + 1
  /\ Go(p, "load")
  /\ UNCHANGED <<envVars, row, gauge, seen, base, todo, count>>

(* A bridge that cannot be reached says nothing about membership.          *)
FetchFails(p) ==
  /\ at[p] = "idle" /\ errors < MaxErrors
  /\ errors' = errors + 1
  /\ gauge' \in {gauge, [gauge EXCEPT !.failed = TRUE]}
  /\ Go(p, Ended(p))
  /\ UNCHANGED <<envVars, row, seen, base, todo, count>>

Load(p) ==
  /\ at[p] = "load"
  /\ base' = [base EXCEPT ![p] =
       [g \in Groups |-> IF seen[p][g] = Out THEN Unknown ELSE row[g]]]
  /\ todo' = [todo EXCEPT ![p] = Listed(seen[p])]
  /\ Go(p, "upsert")
  /\ UNCHANGED <<envVars, row, gauge, seen, count, errors>>

(* UpsertObserved of the merge with the row as it was loaded, which nobody *)
(* looks at again.                                                         *)
Upsert(p, g) ==
  /\ at[p] = "upsert" /\ g \in todo[p]
  /\ row' = [row EXCEPT ![g] = Merged(base[p][g], seen[p][g])]
  /\ base' = [base EXCEPT ![p][g] = Unknown]
  /\ todo' = [todo EXCEPT ![p] = @ \ {g}]
  /\ UNCHANGED <<envVars, gauge, at, seen, count, errors>>

(* KnownGroupJIDs, once every row is written.                              *)
ReadBaseline(p) ==
  /\ at[p] = "upsert" /\ todo[p] = {}
  /\ todo' = [todo EXCEPT ![p] =
       IF Prune THEN {g \in Groups \ Left : row[g].known /\ seen[p][g] = Out} ELSE {}]
  /\ Go(p, "prune")
  /\ UNCHANGED <<envVars, row, gauge, seen, base, count, errors>>

MarkedLeft(g) == row' = [row EXCEPT ![g].state = "left"]

MarkLeft(p, g) ==
  /\ at[p] = "prune" /\ g \in todo[p]
  /\ MarkedLeft(g)
  /\ todo' = [todo EXCEPT ![p] = @ \ {g}]
  /\ UNCHANGED <<envVars, gauge, at, seen, base, count, errors>>

CountLeft(p) ==
  /\ at[p] = "prune" /\ todo[p] = {}
  /\ count' = [count EXCEPT ![p] = Cardinality(Left)]
  /\ Go(p, "record")
  /\ UNCHANGED <<envVars, row, gauge, seen, base, todo, errors>>

Summary(p) == [observed |-> Cardinality(Listed(seen[p])), left |-> count[p], failed |-> FALSE]

(* recordGroupSync.                                                        *)
Record(p) ==
  /\ at[p] = "record"
  /\ gauge' = Summary(p)
  /\ Forget(p)
  /\ UNCHANGED <<envVars, row, errors>>

(* The store fails, the deadline passes or the process ends; rows that are *)
(* written stay written, and the error may not be recorded either.         *)
GiveUp(p) ==
  /\ at[p] \in {"load", "upsert", "prune", "record"} /\ errors < MaxErrors
  /\ errors' = errors + 1
  /\ gauge' \in {gauge, [gauge EXCEPT !.failed = TRUE]}
  /\ Forget(p)
  /\ UNCHANGED <<envVars, row>>

-----------------------------------------------------------------------------
(* A read of one group whose row is stale (repairStale).                   *)

FindOne(p, g) ==
  /\ at[p] = "idle" /\ row[g].known
  /\ base' = [base EXCEPT ![p][g] = row[g]]
  /\ todo' = [todo EXCEPT ![p] = {g}]
  /\ Go(p, "info")
  /\ UNCHANGED <<envVars, row, gauge, seen, count, errors>>

(* bridge.GroupInfo.                                                       *)
GroupInfo(p, g) ==
  /\ at[p] = "info" /\ g \in todo[p]
  /\ seen' = [seen EXCEPT ![p][g] = live[g]]
  /\ Go(p, IF live[g] = Out THEN "gone" ELSE "repair")
  /\ UNCHANGED <<envVars, row, gauge, base, todo, count, errors>>

Repair(p, g) ==
  /\ at[p] = "repair" /\ g \in todo[p]
  /\ row' = [row EXCEPT ![g] = Merged(base[p][g], seen[p][g])]
  /\ Forget(p)
  /\ UNCHANGED <<envVars, gauge, errors>>

MarkGone(p, g) ==
  /\ at[p] = "gone" /\ g \in todo[p]
  /\ MarkedLeft(g)
  /\ Forget(p)
  /\ UNCHANGED <<envVars, gauge, errors>>

(* The stored row is served: it is fresh, or the repair failed.            *)
ServeStored(p) ==
  /\ at[p] \in {"info", "repair", "gone"}
  /\ Forget(p)
  /\ UNCHANGED <<envVars, row, gauge, errors>>

-----------------------------------------------------------------------------
Pass(p) ==
  \/ Fetch(p) \/ Load(p) \/ ReadBaseline(p) \/ CountLeft(p) \/ Record(p)
  \/ \E g \in Groups : Upsert(p, g) \/ MarkLeft(p, g)

Read(p) ==
  \/ ServeStored(p)
  \/ \E g \in Groups : FindOne(p, g) \/ GroupInfo(p, g) \/ Repair(p, g) \/ MarkGone(p, g)

Next ==
  \/ \E g \in Groups : \E x \in Names \cup {Out} : Move(g, x)
  \/ \E p \in Passes : Pass(p) \/ FetchFails(p) \/ GiveUp(p)
  \/ \E p \in Readers : Read(p)

Spec == Init /\ [][Next]_vars

(* The ticker ticks for ever, and every call has a deadline: what has      *)
(* begun ends. Nobody has to ask for a pass or a read.                     *)
Fairness ==
  /\ WF_vars(Pass(Timer))
  /\ \A p \in Manual : WF_vars(at[p] # "idle" /\ Pass(p))
  /\ \A p \in Readers : WF_vars(at[p] # "idle" /\ Read(p))

FairSpec == Spec /\ Fairness

-----------------------------------------------------------------------------
Rings == UNION {[1..n -> Names] : n \in 0..RingMax}

(* Types, and the cap of the ring.                                         *)
TypeOK ==
  /\ live \in [Groups -> Names \cup {Out}] /\ everOut \subseteq Groups
  /\ row \in [Groups -> [known : BOOLEAN, state : {"active", "left"},
                         name : Names \cup {NoName}, ring : Rings]]
  /\ gauge \in [observed : 0..Cardinality(Groups), left : 0..Cardinality(Groups), failed : BOOLEAN]
  /\ at \in [Actors -> {"idle", "load", "upsert", "prune", "record",
                        "info", "repair", "gone", "done"}]
  /\ seen \in [Actors -> [Groups -> Names \cup {Out}]]
  /\ base \in [Actors -> [Groups -> [known : BOOLEAN, state : {"active", "left"},
                                     name : Names \cup {NoName}, ring : Rings]]]
  /\ todo \in [Actors -> SUBSET Groups]
  /\ count \in [Actors -> 0..Cardinality(Groups)]
  /\ moves \in 0..MaxMoves /\ errors \in 0..MaxErrors

(* A group the account never was out of is never marked left, whichever    *)
(* calls fail and however passes and repairs overlap: an unreachable       *)
(* bridge must not look like having left every group (section 6.6.5).      *)
KeptGroupIsNeverLeft == Left \subseteq everOut

(* No row is left behind the account's back.                                *)
SyncInv == TypeOK /\ KeptGroupIsNeverLeft

Agrees(g) ==
  IF live[g] = Out THEN g \notin Left => ~row[g].known
  ELSE row[g].known /\ row[g].state = "active" /\ row[g].name = live[g]

(* Once WhatsApp and the failures rest, the rows come to say what WhatsApp *)
(* says and keep saying it: what a stale pass wrote is repaired, and a     *)
(* group that came back is active again. The summary the dashboard reads   *)
(* settles likewise: its counts describe the rows, and an error of the     *)
(* past is gone.                                                           *)
SyncSettles ==
  /\ Prune => <>[](\A g \in Groups : Agrees(g))
  /\ <>[](gauge = [observed |-> Cardinality(Listed(live)), left |-> Cardinality(Left),
                   failed |-> FALSE])
=============================================================================
