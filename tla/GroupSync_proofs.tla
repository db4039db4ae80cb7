--------------------------- MODULE GroupSync_proofs ---------------------------
(***************************************************************************)
(* Proofs about GroupSync for any number of groups, names, passes and      *)
(* readers.                                                                *)
(***************************************************************************)
EXTENDS GroupSync, FiniteSetTheorems, TLAPS

RowType == [known : BOOLEAN, state : {"active", "left"},
            name : Names \cup {NoName}, ring : Rings]

(* What an actor is about to write is what WhatsApp said of the group: it  *)
(* merges groups that were listed, and marks left groups that were not.    *)
ActorInv(p) ==
  /\ at[p] \in {"load", "upsert", "prune"} =>
       \A g \in Groups : seen[p][g] = Out => g \in everOut
  /\ at[p] \in {"upsert", "repair"} => \A g \in todo[p] : seen[p][g] # Out
  /\ at[p] = "info" => \A g, h \in todo[p] : g = h
  /\ at[p] \in {"prune", "gone"} => todo[p] \subseteq everOut

IInv ==
  /\ TypeOK
  /\ KeptGroupIsNeverLeft
  /\ \A g \in Groups : live[g] = Out => g \in everOut
  /\ \A p \in Actors : ActorInv(p)

LEMMA SeqIsFunction ==
  ASSUME NEW S, NEW s \in Seq(S)
  PROVE  s \in [1..Len(s) -> S]
OBVIOUS

(* appendSubjectHistory keeps the cap.                                     *)
LEMMA PushedIsRing ==
  ASSUME NEW ring \in Rings, NEW name \in Names
  PROVE  Pushed(ring, name) \in Rings
<1>1. PICK n \in 0..RingMax : ring \in [1..n -> Names]
  BY DEF Rings
<1> DEFINE grown == <<name>> \o ring
<1>2. ring \in Seq(Names) /\ Len(ring) = n
  BY <1>1, SyncAssumption
<1>3. grown \in Seq(Names) /\ Len(grown) = n + 1
  BY <1>2
<1> HIDE DEF grown
<1>4. CASE Len(grown) > RingMax
  <2> DEFINE cut == SubSeq(grown, 1, RingMax)
  <2>1. cut \in Seq(Names) /\ Len(cut) = RingMax
    BY <1>3, <1>4, SyncAssumption
  <2> HIDE DEF cut
  <2>2. cut \in [1..RingMax -> Names]
    BY <2>1, SeqIsFunction
  <2>3. RingMax \in 0..RingMax
    BY SyncAssumption
  <2> QED BY <2>2, <2>3, <1>4 DEF Pushed, Rings, grown, cut
<1>5. CASE ~(Len(grown) > RingMax)
  <2>1. grown \in [1..n + 1 -> Names] /\ n + 1 \in 0..RingMax
    BY <1>1, <1>3, <1>5, SeqIsFunction, SyncAssumption
  <2> QED BY <2>1, <1>5 DEF Pushed, Rings, grown
<1> QED BY <1>4, <1>5

LEMMA EmptyIsRing == <<>> \in Rings
<1>1. <<>> \in [1..0 -> Names] /\ 0 \in 0..RingMax
  BY SyncAssumption
<1> QED BY <1>1 DEF Rings

(* mergeSnapshot makes an active row of a stored row and a name.           *)
LEMMA MergedIsActive ==
  ASSUME NEW old \in RowType, NEW name \in Names
  PROVE  Merged(old, name) \in RowType /\ Merged(old, name).state = "active"
<1>1. old.ring \in Rings /\ old.name \in Names \cup {NoName}
  BY DEF RowType
<1>2. old.name # NoName => Pushed(old.ring, old.name) \in Rings
  BY <1>1, PushedIsRing
<1> QED BY <1>1, <1>2, EmptyIsRing DEF Merged, RowType

LEMMA Counted ==
  ASSUME NEW S \in SUBSET Groups
  PROVE  Cardinality(S) \in 0..Cardinality(Groups)
<1>1. IsFiniteSet(S) /\ Cardinality(S) <= Cardinality(Groups)
  BY SyncAssumption, FS_Subset
<1>2. Cardinality(S) \in Nat /\ Cardinality(Groups) \in Nat
  BY <1>1, SyncAssumption, FS_CardinalityType
<1> QED BY <1>1, <1>2

LEMMA TypeParts ==
  ASSUME TypeOK
  PROVE  /\ row \in [Groups -> RowType]
         /\ base \in [Actors -> [Groups -> RowType]]
         /\ \A g \in Groups : row[g].known /\ row[g].state = "left" <=> g \in Left
BY DEF TypeOK, RowType, Left

LEMMA UnknownIsRow == Unknown \in RowType
BY EmptyIsRing DEF Unknown, RowType

(* Marking a group left touches its row only.                              *)
LEMMA MarkedLeftRow ==
  ASSUME row \in [Groups -> RowType], NEW g \in Groups, MarkedLeft(g)
  PROVE  /\ row' \in [Groups -> RowType]
         /\ \A h \in Groups \ {g} : row'[h] = row[h]
<1>1. [row[g] EXCEPT !.state = "left"] \in RowType
  BY DEF RowType
<1> QED BY <1>1 DEF MarkedLeft

LEMMA InitInv == Init => IInv
<1> SUFFICES ASSUME Init PROVE IInv
  OBVIOUS
<1> USE DEF Init
<1>1. LeftBefore \cup {Unknown} \subseteq RowType
  BY EmptyIsRing, UnknownIsRow DEF LeftBefore, RowType
<1>2. row \in [Groups -> RowType]
  BY <1>1
<1>3. {} \in SUBSET Groups /\ 0 \in 0..Cardinality(Groups)
  BY Counted, FS_EmptySet
<1>4. TypeOK
  <2>1. /\ live \in [Groups -> Names \cup {Out}] /\ everOut \subseteq Groups
        /\ moves \in 0..MaxMoves /\ errors \in 0..MaxErrors
    BY SyncAssumption
  <2>2. gauge \in [observed : 0..Cardinality(Groups), left : 0..Cardinality(Groups), failed : BOOLEAN]
    BY <1>3
  <2>3. /\ at \in [Actors -> {"idle", "load", "upsert", "prune", "record",
                               "info", "repair", "gone", "done"}]
        /\ seen \in [Actors -> [Groups -> Names \cup {Out}]]
        /\ todo \in [Actors -> SUBSET Groups]
        /\ count \in [Actors -> 0..Cardinality(Groups)]
    BY <1>3
  <2>4. base \in [Actors -> [Groups -> RowType]]
    BY UnknownIsRow
  <2> QED BY <1>2, <2>1, <2>2, <2>3, <2>4 DEF TypeOK, RowType
<1>5. KeptGroupIsNeverLeft
  BY DEF KeptGroupIsNeverLeft, Left
<1>6. \A p \in Actors : ActorInv(p)
  BY DEF ActorInv
<1> QED BY <1>4, <1>5, <1>6 DEF IInv

-----------------------------------------------------------------------------
(* Steps are of three kinds: an actor's own bookkeeping, a row that        *)
(* becomes active, a row that is marked left.                              *)

LEMMA Forgotten ==
  ASSUME TypeOK, NEW p \in Actors, Forget(p)
  PROVE  /\ at' \in [Actors -> {"idle", "load", "upsert", "prune", "record",
                                "info", "repair", "gone", "done"}]
         /\ seen' \in [Actors -> [Groups -> Names \cup {Out}]]
         /\ base' \in [Actors -> [Groups -> RowType]]
         /\ todo' \in [Actors -> SUBSET Groups]
         /\ count' \in [Actors -> 0..Cardinality(Groups)]
         /\ at'[p] \in {"idle", "done"}
         /\ \A q \in Actors \ {p} : at'[q] = at[q] /\ seen'[q] = seen[q] /\ todo'[q] = todo[q]
<1> USE DEF Forget, Go, Ended
<1>1. Cardinality({}) \in 0..Cardinality(Groups) /\ Cardinality({}) = 0
  BY Counted, FS_EmptySet
<1>2. at' = [at EXCEPT ![p] = Ended(p)] /\ Ended(p) \in {"idle", "done"}
  OBVIOUS
<1>3. /\ at' \in [Actors -> {"idle", "load", "upsert", "prune", "record",
                             "info", "repair", "gone", "done"}]
      /\ at'[p] \in {"idle", "done"}
      /\ \A q \in Actors \ {p} : at'[q] = at[q]
  BY <1>2 DEF TypeOK
<1>4. base' \in [Actors -> [Groups -> RowType]]
  BY UnknownIsRow, TypeParts
<1>5. /\ seen' \in [Actors -> [Groups -> Names \cup {Out}]]
      /\ todo' \in [Actors -> SUBSET Groups]
      /\ count' \in [Actors -> 0..Cardinality(Groups)]
      /\ \A q \in Actors \ {p} : seen'[q] = seen[q] /\ todo'[q] = todo[q]
  BY <1>1 DEF TypeOK
<1> QED BY <1>3, <1>4, <1>5

(* An actor that keeps its place, and what it knows, keeps its invariant.  *)
LEMMA ActorKept ==
  ASSUME NEW q \in Actors, ActorInv(q), at'[q] = at[q], seen'[q] = seen[q],
         todo'[q] = todo[q], everOut \subseteq everOut'
  PROVE  ActorInv(q)'
BY DEF ActorInv

LEMMA ForgetPreserves ==
  ASSUME IInv, NEW p \in Actors, Forget(p), UNCHANGED envVars,
         row' \in [Groups -> RowType],
         \A g \in Left' : g \in everOut,
         gauge' \in [observed : 0..Cardinality(Groups), left : 0..Cardinality(Groups), failed : BOOLEAN],
         errors' \in 0..MaxErrors
  PROVE  IInv'
<1>1. TypeOK /\ \A q \in Actors : ActorInv(q)
  BY DEF IInv
<1>2. TypeOK'
  BY <1>1, Forgotten DEF TypeOK, RowType, envVars
<1>3. KeptGroupIsNeverLeft'
  BY DEF KeptGroupIsNeverLeft, envVars
<1>4. ASSUME NEW q \in Actors PROVE ActorInv(q)'
  <2>1. CASE q = p
    BY <1>1, <2>1, Forgotten DEF ActorInv
  <2>2. CASE q # p
    BY <1>1, <2>2, Forgotten, ActorKept DEF envVars
  <2> QED BY <2>1, <2>2
<1>5. (\A g \in Groups : live[g] = Out => g \in everOut)'
  BY DEF IInv, envVars
<1> QED BY <1>2, <1>3, <1>4, <1>5 DEF IInv

LEMMA MovePreserves ==
  ASSUME IInv, NEW g \in Groups, NEW x \in Names \cup {Out}, Move(g, x)
  PROVE  IInv'
<1> USE DEF Move, workVars
<1>1. everOut \subseteq everOut' /\ everOut' \subseteq Groups
  BY DEF IInv, TypeOK
<1>2. TypeOK'
  BY <1>1, SyncAssumption DEF IInv, TypeOK
<1>3. KeptGroupIsNeverLeft'
  BY <1>1 DEF IInv, KeptGroupIsNeverLeft, Left
<1>4. (\A h \in Groups : live[h] = Out => h \in everOut)'
  BY <1>1 DEF IInv, TypeOK
<1>5. \A q \in Actors : ActorInv(q)'
  BY <1>1, ActorKept DEF IInv
<1> QED BY <1>2, <1>3, <1>4, <1>5 DEF IInv

(* A step that moves one actor and leaves the rows alone.                  *)
LEMMA StepPreserves ==
  ASSUME IInv, NEW p \in Actors, UNCHANGED <<envVars, row>>,
         TypeOK', ActorInv(p)',
         \A q \in Actors \ {p} : at'[q] = at[q] /\ seen'[q] = seen[q] /\ todo'[q] = todo[q]
  PROVE  IInv'
<1>1. KeptGroupIsNeverLeft'
  BY DEF IInv, KeptGroupIsNeverLeft, Left, envVars
<1>2. (\A h \in Groups : live[h] = Out => h \in everOut)'
  BY DEF IInv, envVars
<1>3. ASSUME NEW q \in Actors PROVE ActorInv(q)'
  <2>1. CASE q = p
    BY <2>1
  <2>2. CASE q # p
    BY <2>2, ActorKept DEF IInv, envVars
  <2> QED BY <2>1, <2>2
<1> QED BY <1>1, <1>2, <1>3 DEF IInv

LEMMA PassPreserves ==
  ASSUME IInv, NEW p \in Passes, Pass(p)
  PROVE  IInv'
<1>0. p \in Actors /\ TypeOK /\ ActorInv(p)
  BY DEF IInv, Actors
<1> USE <1>0
<1>1. CASE Fetch(p)
  <2>1. TypeOK'
    BY <1>1 DEF Fetch, Go, TypeOK, envVars
  <2>2. at'[p] = "load" /\ seen'[p] = live
    BY <1>1 DEF Fetch, Go, TypeOK
  <2>3. ActorInv(p)'
    BY <1>1, <2>2 DEF ActorInv, Fetch, envVars, IInv
  <2>4. \A q \in Actors \ {p} : at'[q] = at[q] /\ seen'[q] = seen[q] /\ todo'[q] = todo[q]
    BY <1>1 DEF Fetch, Go, TypeOK
  <2> QED BY <1>1, <2>1, <2>3, <2>4, StepPreserves DEF Fetch
<1>2. CASE Load(p)
  <2>1. /\ at'[p] = "upsert" /\ seen' = seen /\ todo'[p] = Listed(seen[p])
        /\ base'[p] \in [Groups -> RowType] /\ everOut' = everOut
    BY <1>2, UnknownIsRow, TypeParts DEF Load, Go, TypeOK, envVars
  <2>2. TypeOK'
    <3>1. base' \in [Actors -> [Groups -> RowType]]
      BY <1>2, <2>1, TypeParts DEF Load
    <3>2. todo' \in [Actors -> SUBSET Groups]
      BY <1>2 DEF Load, TypeOK, Listed
    <3>3. at' \in [Actors -> {"idle", "load", "upsert", "prune", "record",
                              "info", "repair", "gone", "done"}]
      BY <1>2 DEF Load, Go, TypeOK
    <3> QED BY <1>2, <3>1, <3>2, <3>3 DEF Load, TypeOK, envVars, RowType
  <2>3. ActorInv(p)'
    BY <1>2, <2>1 DEF ActorInv, Load, Listed
  <2>4. \A q \in Actors \ {p} : at'[q] = at[q] /\ seen'[q] = seen[q] /\ todo'[q] = todo[q]
    BY <1>2 DEF Load, Go, TypeOK
  <2> QED BY <1>2, <2>2, <2>3, <2>4, StepPreserves DEF Load
<1>3. CASE ReadBaseline(p)
  <2>1. /\ at'[p] = "prune" /\ seen' = seen /\ everOut' = everOut
        /\ todo'[p] = IF Prune THEN {g \in Groups \ Left : row[g].known /\ seen[p][g] = Out} ELSE {}
    BY <1>3 DEF ReadBaseline, Go, TypeOK, envVars
  <2>2. TypeOK'
    BY <1>3 DEF ReadBaseline, Go, TypeOK, envVars
  <2>3. ActorInv(p)'
    BY <1>3, <2>1 DEF ActorInv, ReadBaseline
  <2>4. \A q \in Actors \ {p} : at'[q] = at[q] /\ seen'[q] = seen[q] /\ todo'[q] = todo[q]
    BY <1>3 DEF ReadBaseline, Go, TypeOK
  <2> QED BY <1>3, <2>2, <2>3, <2>4, StepPreserves DEF ReadBaseline
<1>4. CASE CountLeft(p)
  <2>1. Cardinality(Left) \in 0..Cardinality(Groups)
    BY Counted DEF Left
  <2>2. TypeOK'
    BY <1>4, <2>1 DEF CountLeft, Go, TypeOK, envVars
  <2>3. ActorInv(p)'
    BY <1>4 DEF ActorInv, CountLeft, Go, TypeOK
  <2>4. \A q \in Actors \ {p} : at'[q] = at[q] /\ seen'[q] = seen[q] /\ todo'[q] = todo[q]
    BY <1>4 DEF CountLeft, Go, TypeOK
  <2> QED BY <1>4, <2>2, <2>3, <2>4, StepPreserves DEF CountLeft
<1>5. CASE Record(p)
  <2>1. Cardinality(Listed(seen[p])) \in 0..Cardinality(Groups)
    BY Counted DEF Listed
  <2>2. gauge' \in [observed : 0..Cardinality(Groups), left : 0..Cardinality(Groups), failed : BOOLEAN]
    BY <1>5, <2>1 DEF Record, Summary, TypeOK
  <2>3. row' \in [Groups -> RowType] /\ \A g \in Left' : g \in everOut
    BY <1>5, TypeParts DEF Record, IInv, KeptGroupIsNeverLeft, Left
  <2> QED BY <1>5, <2>2, <2>3, ForgetPreserves DEF Record, TypeOK
<1>6. ASSUME NEW g \in Groups, Upsert(p, g) PROVE IInv'
  <2>1. seen[p][g] \in Names /\ base[p][g] \in RowType
    BY <1>6, TypeParts DEF Upsert, ActorInv, TypeOK
  <2>2. Merged(base[p][g], seen[p][g]) \in RowType /\ Merged(base[p][g], seen[p][g]).state = "active"
    BY <2>1, MergedIsActive
  <2>3. /\ row' \in [Groups -> RowType] /\ row'[g].state = "active"
        /\ \A h \in Groups \ {g} : row'[h] = row[h]
    BY <1>6, <2>2, TypeParts DEF Upsert
  <2>4. base' \in [Actors -> [Groups -> RowType]] /\ todo' \in [Actors -> SUBSET Groups]
    BY <1>6, UnknownIsRow, TypeParts DEF Upsert, TypeOK
  <2>5. TypeOK'
    BY <1>6, <2>3, <2>4 DEF Upsert, TypeOK, envVars, RowType
  <2>6. KeptGroupIsNeverLeft'
    BY <1>6, <2>3 DEF Upsert, IInv, KeptGroupIsNeverLeft, Left, envVars
  <2>7. ASSUME NEW q \in Actors PROVE ActorInv(q)'
    <3>1. /\ at'[q] = at[q] /\ seen'[q] = seen[q] /\ everOut' = everOut
          /\ todo'[q] \subseteq todo[q] /\ ActorInv(q)
      BY <1>6 DEF Upsert, envVars, TypeOK, IInv
    <3> QED BY <3>1 DEF ActorInv
  <2>8. (\A h \in Groups : live[h] = Out => h \in everOut)'
    BY <1>6 DEF Upsert, envVars, IInv
  <2> QED BY <2>5, <2>6, <2>7, <2>8 DEF IInv
<1>7. ASSUME NEW g \in Groups, MarkLeft(p, g) PROVE IInv'
  <2>1. g \in everOut
    BY <1>7 DEF MarkLeft, ActorInv
  <2>2. /\ row' \in [Groups -> RowType]
        /\ \A h \in Groups \ {g} : row'[h] = row[h]
    BY <1>7, TypeParts, MarkedLeftRow DEF MarkLeft
  <2>3. TypeOK'
    BY <1>7, <2>2 DEF MarkLeft, TypeOK, envVars, RowType
  <2>4. KeptGroupIsNeverLeft'
    BY <1>7, <2>1, <2>2 DEF MarkLeft, IInv, KeptGroupIsNeverLeft, Left, envVars
  <2>5. ASSUME NEW q \in Actors PROVE ActorInv(q)'
    <3>1. /\ at'[q] = at[q] /\ seen'[q] = seen[q] /\ everOut' = everOut
          /\ todo'[q] \subseteq todo[q] /\ ActorInv(q)
      BY <1>7 DEF MarkLeft, envVars, TypeOK, IInv
    <3> QED BY <3>1 DEF ActorInv
  <2>6. (\A h \in Groups : live[h] = Out => h \in everOut)'
    BY <1>7 DEF MarkLeft, envVars, IInv
  <2> QED BY <2>3, <2>4, <2>5, <2>6 DEF IInv
<1> QED BY <1>1, <1>2, <1>3, <1>4, <1>5, <1>6, <1>7 DEF Pass

LEMMA AnotherError ==
  ASSUME TypeOK, errors < MaxErrors
  PROVE  errors + 1 \in 0..MaxErrors
BY SyncAssumption DEF TypeOK

LEMMA GaugeFails ==
  ASSUME TypeOK, NEW x \in {gauge, [gauge EXCEPT !.failed = TRUE]}
  PROVE  x \in [observed : 0..Cardinality(Groups), left : 0..Cardinality(Groups), failed : BOOLEAN]
<1> DEFINE N == 0..Cardinality(Groups)
<1>1. gauge \in [observed : N, left : N, failed : BOOLEAN]
  BY DEF TypeOK
<1> HIDE DEF N
<1>2. x \in [observed : N, left : N, failed : BOOLEAN]
  BY <1>1
<1> QED BY <1>2 DEF N

LEMMA FailurePreserves ==
  ASSUME IInv, NEW p \in Passes, FetchFails(p) \/ GiveUp(p)
  PROVE  IInv'
<1>0. p \in Actors /\ TypeOK /\ ActorInv(p)
  BY DEF IInv, Actors
<1> USE <1>0
<1>1. CASE FetchFails(p)
  <2>0. /\ errors' \in 0..MaxErrors
        /\ gauge' \in [observed : 0..Cardinality(Groups), left : 0..Cardinality(Groups), failed : BOOLEAN]
        /\ at' \in [Actors -> {"idle", "load", "upsert", "prune", "record",
                               "info", "repair", "gone", "done"}]
    BY <1>1, AnotherError, GaugeFails DEF FetchFails, Go, Ended, TypeOK
  <2>1. TypeOK'
    BY <1>1, <2>0 DEF FetchFails, TypeOK, envVars
  <2>2. at'[p] \in {"idle", "done"}
    BY <1>1 DEF FetchFails, Go, Ended, TypeOK
  <2>3. ActorInv(p)'
    BY <2>2 DEF ActorInv
  <2>4. \A q \in Actors \ {p} : at'[q] = at[q] /\ seen'[q] = seen[q] /\ todo'[q] = todo[q]
    BY <1>1 DEF FetchFails, Go, TypeOK
  <2> QED BY <1>1, <2>1, <2>3, <2>4, StepPreserves DEF FetchFails
<1>2. CASE GiveUp(p)
  <2>1. /\ gauge' \in [observed : 0..Cardinality(Groups), left : 0..Cardinality(Groups), failed : BOOLEAN]
        /\ errors' \in 0..MaxErrors
    BY <1>2, AnotherError, GaugeFails DEF GiveUp
  <2>2. row' \in [Groups -> RowType] /\ \A g \in Left' : g \in everOut
    BY <1>2, TypeParts DEF GiveUp, IInv, KeptGroupIsNeverLeft, Left
  <2> QED BY <1>2, <2>1, <2>2, ForgetPreserves DEF GiveUp
<1> QED BY <1>1, <1>2

LEMMA ReadPreserves ==
  ASSUME IInv, NEW p \in Readers, Read(p)
  PROVE  IInv'
<1>0. p \in Actors /\ TypeOK /\ ActorInv(p)
  BY DEF IInv, Actors
<1> USE <1>0
<1>1. CASE ServeStored(p)
  <2>1. row' \in [Groups -> RowType] /\ \A g \in Left' : g \in everOut
    BY <1>1, TypeParts DEF ServeStored, IInv, KeptGroupIsNeverLeft, Left
  <2> QED BY <1>1, <2>1, ForgetPreserves DEF ServeStored, TypeOK
<1>2. ASSUME NEW g \in Groups, FindOne(p, g) PROVE IInv'
  <2>1. at'[p] = "info" /\ todo'[p] = {g}
    BY <1>2 DEF FindOne, Go, TypeOK
  <2>2. base' \in [Actors -> [Groups -> RowType]] /\ todo' \in [Actors -> SUBSET Groups]
    BY <1>2, TypeParts DEF FindOne, TypeOK
  <2>3. TypeOK'
    BY <1>2, <2>2 DEF FindOne, Go, TypeOK, envVars, RowType
  <2>4. ActorInv(p)'
    BY <2>1 DEF ActorInv
  <2>5. \A q \in Actors \ {p} : at'[q] = at[q] /\ seen'[q] = seen[q] /\ todo'[q] = todo[q]
    BY <1>2 DEF FindOne, Go, TypeOK
  <2> QED BY <1>2, <2>3, <2>4, <2>5, StepPreserves DEF FindOne
<1>3. ASSUME NEW g \in Groups, GroupInfo(p, g) PROVE IInv'
  <2>1. /\ at'[p] = IF live[g] = Out THEN "gone" ELSE "repair"
        /\ todo' = todo /\ seen'[p][g] = live[g] /\ everOut' = everOut
        /\ todo[p] = {g}
    BY <1>3 DEF GroupInfo, Go, TypeOK, envVars, ActorInv
  <2>2. seen' \in [Actors -> [Groups -> Names \cup {Out}]]
    BY <1>3 DEF GroupInfo, TypeOK
  <2>3. at' \in [Actors -> {"idle", "load", "upsert", "prune", "record",
                            "info", "repair", "gone", "done"}]
    BY <1>3 DEF GroupInfo, Go, TypeOK
  <2>4. TypeOK'
    BY <1>3, <2>2, <2>3 DEF GroupInfo, TypeOK, envVars
  <2>5. ActorInv(p)'
    BY <2>1 DEF ActorInv, IInv
  <2>6. \A q \in Actors \ {p} : at'[q] = at[q] /\ seen'[q] = seen[q] /\ todo'[q] = todo[q]
    BY <1>3 DEF GroupInfo, Go, TypeOK
  <2> QED BY <1>3, <2>4, <2>5, <2>6, StepPreserves DEF GroupInfo
<1>4. ASSUME NEW g \in Groups, Repair(p, g) PROVE IInv'
  <2>1. seen[p][g] \in Names /\ base[p][g] \in RowType
    BY <1>4, TypeParts DEF Repair, ActorInv, TypeOK
  <2>2. Merged(base[p][g], seen[p][g]) \in RowType /\ Merged(base[p][g], seen[p][g]).state = "active"
    BY <2>1, MergedIsActive
  <2>3. /\ row' \in [Groups -> RowType] /\ row'[g].state = "active"
        /\ \A h \in Groups \ {g} : row'[h] = row[h]
    BY <1>4, <2>2, TypeParts DEF Repair
  <2>4. \A h \in Left' : h \in everOut
    BY <2>3 DEF IInv, KeptGroupIsNeverLeft, Left
  <2> QED BY <1>4, <2>3, <2>4, ForgetPreserves DEF Repair, TypeOK
<1>5. ASSUME NEW g \in Groups, MarkGone(p, g) PROVE IInv'
  <2>1. g \in everOut
    BY <1>5 DEF MarkGone, ActorInv
  <2>2. /\ row' \in [Groups -> RowType]
        /\ \A h \in Groups \ {g} : row'[h] = row[h]
    BY <1>5, TypeParts, MarkedLeftRow DEF MarkGone
  <2>3. \A h \in Left' : h \in everOut
    BY <2>1, <2>2 DEF IInv, KeptGroupIsNeverLeft, Left
  <2> QED BY <1>5, <2>2, <2>3, ForgetPreserves DEF MarkGone, TypeOK
<1> QED BY <1>1, <1>2, <1>3, <1>4, <1>5 DEF Read

LEMMA NextPreserves == IInv /\ [Next]_vars => IInv'
<1> SUFFICES ASSUME IInv, [Next]_vars PROVE IInv'
  OBVIOUS
<1>1. CASE UNCHANGED vars
  BY <1>1 DEF vars, envVars, workVars, IInv, TypeOK, KeptGroupIsNeverLeft, Left, ActorInv
<1>2. CASE Next
  BY <1>2, MovePreserves, PassPreserves, FailurePreserves, ReadPreserves DEF Next
<1> QED BY <1>1, <1>2

(* Whatever the bridge and the store fail to do, and however passes and    *)
(* repairs of any number of actors overlap, a group is marked left only if *)
(* the account was out of it at some time (runGroupSync, repairStale).     *)
THEOREM KeptGroupsStay == Spec => []SyncInv
<1>1. IInv => SyncInv
  BY DEF IInv, SyncInv
<1> QED BY <1>1, InitInv, NextPreserves, PTL DEF Spec
=============================================================================
