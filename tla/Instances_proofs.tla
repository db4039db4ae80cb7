-------------------------- MODULE Instances_proofs --------------------------
(***************************************************************************)
(* Proofs about what an instance owns: its group scope (GroupScope), for    *)
(* any number of accounts, groups, memberships and requests; and its        *)
(* pairing (Pairing), for any number of wizards, panels, questions and      *)
(* faults.                                                                 *)
(***************************************************************************)
EXTENDS GroupScope, Pairing, FiniteSetTheorems, SequenceTheorems, TLAPS

(***************************************************************************)
(* GroupScope.                                                             *)
(***************************************************************************)
RowsWith(V) == [exists : BOOLEAN, assigned : BOOLEAN, whitelisted : BOOLEAN, version : V]

On(rows, r) == rows[r].exists /\ rows[r].whitelisted

Agree(rows, lists) ==
  \A i \in Instances : lists[i] = {g \in Jids : <<i, g>> \in Rows /\ On(rows, <<i, g>>)}

KnownIn(rows, i) == {r[2] : r \in {s \in Rows : s[1] = i /\ rows[s].exists}}

(* What a transaction sees was true at one instant, and no row it saw has  *)
(* gone since; a row's request is about exactly one row of the snapshot,   *)
(* a list's request names groups the snapshot knows.                       *)
SnapInv(h) ==
  LET s == snap[h] IN
  /\ s.row \in [Rows -> RowsWith(Nat)]
  /\ s.list \in [Instances -> SUBSET Jids]
  /\ Agree(s.row, s.list)
  /\ \A r \in Rows : s.row[r].exists => row[r].exists
  /\ IF IsPatch(h) THEN Matched(s.row, req[h]) # {}
     ELSE req[h].list \subseteq KnownIn(s.row, req[h].instance)

(* A request under way knows what it asks, and a list that passed the      *)
(* check names known groups ever after.                                    *)
HandlerInv(h) ==
  /\ at[h] \in {"read", "check"} => req[h] \in Edits
  /\ at[h] \in {"begin", "open"} => req[h] \in Patches \cup Edits
  /\ at[h] = "begin" /\ ~IsPatch(h) => req[h].list \subseteq Known(req[h].instance)
  /\ at[h] = "open" => SnapInv(h)

IInv ==
  /\ TypeOK
  /\ snap = [h \in Handlers |-> snap[h]]
  /\ ListMatchesRows
  /\ \A r \in Rows : row[r].whitelisted => row[r].exists
  /\ \A h \in Handlers : HandlerInv(h)

LEMMA TypeParts ==
  ASSUME TypeOK
  PROVE  /\ row \in [Rows -> RowsWith(Nat)]
         /\ row \in [Rows -> RowsWith(0..Cardinality(Done))]
         /\ list \in [Instances -> SUBSET Jids]
         /\ IsFiniteSet(Done) /\ Cardinality(Done) \in Nat
<1>1. IsFiniteSet(Done) /\ Cardinality(Done) \in Nat
  BY ScopeAssumption, FS_Subset, FS_CardinalityType DEF Done
<1>2. 0..Cardinality(Done) \subseteq Nat
  BY <1>1
<1>3. row \in [Rows -> RowsWith(0..Cardinality(Done))]
  BY DEF TypeOK, RowsWith
<1>4. row \in [Rows -> RowsWith(Nat)]
  <2> SUFFICES ASSUME NEW r \in Rows PROVE row[r] \in RowsWith(Nat)
    BY <1>3
  <2> QED BY <1>2, <1>3 DEF RowsWith
<1> QED BY <1>1, <1>3, <1>4 DEF TypeOK

(* A request is for a row or for a list.                                   *)
LEMMA PatchOrEdit ==
  /\ \A q \in Patches : q \in AllPatches
  /\ \A q \in Edits : q \in AllEdits /\ q \notin AllPatches
<1>1. \A q \in AllEdits : q \notin AllPatches
  <2> SUFFICES ASSUME NEW q \in AllEdits, q \in AllPatches PROVE FALSE
    OBVIOUS
  <2>1. DOMAIN q = {"instance", "list"}
    BY DEF AllEdits
  <2>2. DOMAIN q = {"jid", "instance", "assigned", "whitelisted"}
    BY DEF AllPatches
  <2> QED BY <2>1, <2>2
<1> QED BY <1>1, ScopeAssumption

LEMMA ListAgrees == ListMatchesRows <=> Agree(row, list)
BY DEF ListMatchesRows, Agree, On

LEMMA InitInv == Init => IInv
<1> SUFFICES ASSUME Init PROVE IInv
  OBVIOUS
<1>1. Done = {}
  BY DEF Init, Done
<1>2. Cardinality(Done) = 0
  BY <1>1, FS_EmptySet
<1>3. TypeOK
  <2>1. row \in [Rows -> [exists : BOOLEAN, assigned : BOOLEAN, whitelisted : BOOLEAN,
                          version : 0..Cardinality(Done)]]
    <3>1. ASSUME NEW e \in BOOLEAN
          PROVE  [NoRow EXCEPT !.exists = e] \in RowsWith({0})
      BY DEF NoRow, RowsWith
    <3>2. NoRow \in RowsWith({0})
      BY DEF NoRow, RowsWith
    <3>3. 0 \in 0..Cardinality(Done)
      BY <1>2
    <3>4. ASSUME NEW r \in Rows PROVE row[r] \in RowsWith(0..Cardinality(Done))
      <4>1. row[r] \in RowsWith({0})
        BY <3>1, <3>2 DEF Init
      <4> QED BY <3>3, <4>1 DEF RowsWith
    <3>5. row \in [Rows -> RowsWith(0..Cardinality(Done))]
      BY <3>4 DEF Init
    <3> QED BY <3>5 DEF RowsWith
  <2>2. /\ list \in [Instances -> SUBSET Jids]
        /\ audit \in [Instances -> [source : {"none", "group-row", "instance-config"},
                        names : SUBSET Jids, granted : BOOLEAN, before : SUBSET Jids]]
    BY DEF Init, NoAudit
  <2> QED BY <2>1, <2>2 DEF Init, TypeOK
<1>4. \A r \in Rows : ~row[r].whitelisted
  BY DEF Init, NoRow
<1>5. ListMatchesRows
  BY <1>4 DEF Init, ListMatchesRows
<1> QED BY <1>3, <1>4, <1>5 DEF Init, IInv, HandlerInv

-----------------------------------------------------------------------------
(* What a transaction makes of its snapshot.                               *)

LEMMA InstanceOf ==
  ASSUME IInv, NEW h \in Handlers, at[h] = "open"
  PROVE  /\ Instance(h) \in Instances
         /\ IsPatch(h) => /\ req[h] \in Patches
                          /\ <<Instance(h), req[h].jid>> \in Rows
                          /\ snap[h].row[<<Instance(h), req[h].jid>>].exists
         /\ ~IsPatch(h) => req[h] \in Edits /\ Instance(h) = req[h].instance
<1>1. SnapInv(h) /\ req[h] \in Patches \cup Edits
  BY DEF IInv, HandlerInv
<1>2. CASE IsPatch(h)
  <2>1. PICK r \in Matched(snap[h].row, req[h]) : Instance(h) = r[1]
    BY <1>1, <1>2 DEF SnapInv, Instance
  <2>2. r \in Rows /\ snap[h].row[r].exists /\ r[2] = req[h].jid
    BY <2>1 DEF Matched
  <2>3. r = <<r[1], r[2]>> /\ r[1] \in Instances
    BY <2>2, ScopeAssumption
  <2>4. req[h] \in Patches
    BY <1>1, <1>2, PatchOrEdit DEF IsPatch
  <2> QED BY <1>2, <2>1, <2>2, <2>3, <2>4
<1>3. CASE ~IsPatch(h)
  <2>1. req[h] \in Edits /\ req[h] \in AllEdits
    BY <1>1, <1>3, PatchOrEdit DEF IsPatch
  <2> QED BY <1>3, <2>1 DEF Instance, AllEdits
<1> QED BY <1>2, <1>3

(* A row that is written differs in a flag and has a higher version.       *)
LEMMA NewRows ==
  ASSUME IInv, NEW h \in Handlers, at[h] = "open", NEW r \in Rows
  PROVE  LET old == snap[h].row[r]
             new == NewRow(h, r)
         IN /\ old \in RowsWith(Nat)
            /\ new \in RowsWith({old.version, old.version + 1})
            /\ new.exists = old.exists
            /\ r[1] # Instance(h) => new = old
            /\ new.assigned # old.assigned \/ new.whitelisted # old.whitelisted
                 => new.version = old.version + 1
<1> DEFINE old == snap[h].row[r]
           Raised(new) == /\ new \in RowsWith({old.version, old.version + 1})
                          /\ new.exists = old.exists
                          /\ \/ new.assigned # old.assigned
                             \/ new.whitelisted # old.whitelisted
                             => new.version = old.version + 1
<1>1. old \in RowsWith(Nat)
  BY DEF IInv, HandlerInv, SnapInv
<1>2. ASSUME NEW p \in AllPatches
      PROVE  Raised(PatchedRow(old, p))
  <2>1. Set(old.assigned, AssignedBy(p)) \in BOOLEAN /\ Set(old.whitelisted, p.whitelisted) \in BOOLEAN
    BY <1>1, <1>2 DEF Set, AssignedBy, AllPatches, Flags, RowsWith
  <2>2. /\ PatchedRow(old, p).exists = old.exists
        /\ PatchedRow(old, p).assigned = Set(old.assigned, AssignedBy(p))
        /\ PatchedRow(old, p).whitelisted = Set(old.whitelisted, p.whitelisted)
        /\ PatchedRow(old, p).version =
             old.version + (IF \/ Set(old.assigned, AssignedBy(p)) # old.assigned
                               \/ Set(old.whitelisted, p.whitelisted) # old.whitelisted
                            THEN 1 ELSE 0)
        /\ DOMAIN PatchedRow(old, p) = {"exists", "assigned", "whitelisted", "version"}
    BY <1>1 DEF PatchedRow, RowsWith
  <2>3. PatchedRow(old, p).version \in {old.version, old.version + 1}
    BY <1>1, <2>2 DEF RowsWith
  <2>4. PatchedRow(old, p) \in RowsWith({old.version, old.version + 1})
    BY <1>1, <2>1, <2>2, <2>3 DEF RowsWith, PatchedRow
  <2> QED BY <1>1, <2>2, <2>4
<1>3. ASSUME NEW listed \in BOOLEAN
      PROVE  Raised(EditedRow(old, listed))
  BY <1>1 DEF EditedRow, RowsWith
<1>4. old \in RowsWith({old.version, old.version + 1})
  BY <1>1 DEF RowsWith
<1>5. IsPatch(h) => req[h] \in AllPatches
  BY DEF IsPatch
<1>6. NewRow(h, r) = IF r[1] # Instance(h) THEN old
                     ELSE IF ~IsPatch(h) THEN EditedRow(old, r[2] \in req[h].list)
                     ELSE IF r[2] = req[h].jid THEN PatchedRow(old, req[h]) ELSE old
  BY DEF NewRow
<1>7. CASE NewRow(h, r) = old
  BY <1>1, <1>4, <1>7
<1>8. CASE r[1] = Instance(h) /\ ~IsPatch(h)
  <2>1. NewRow(h, r) = EditedRow(old, r[2] \in req[h].list)
    BY <1>6, <1>8
  <2>2. (r[2] \in req[h].list) \in BOOLEAN
    OBVIOUS
  <2>3. Raised(NewRow(h, r))
    <3> HIDE DEF Raised
    <3> QED BY <1>3, <2>1, <2>2, Zenon
  <2> QED BY <1>1, <1>8, <2>3
<1>9. CASE r[1] = Instance(h) /\ IsPatch(h) /\ r[2] = req[h].jid
  BY <1>1, <1>2, <1>5, <1>6, <1>9
<1> QED BY <1>6, <1>7, <1>8, <1>9

(* Alone, either request leaves list and rows in agreement.                *)
LEMMA SnapshotAgrees ==
  ASSUME IInv, NEW h \in Handlers, at[h] = "open"
  PROVE  NewList(h) = {g \in Jids : /\ <<Instance(h), g>> \in Rows
                                   /\ NewRow(h, <<Instance(h), g>>).exists
                                   /\ NewRow(h, <<Instance(h), g>>).whitelisted}
<1> DEFINE i == Instance(h)
           s == snap[h]
           new(g) == NewRow(h, <<i, g>>)
<1>1. /\ i \in Instances
      /\ s.row \in [Rows -> RowsWith(Nat)]
      /\ s.list[i] = {g \in Jids : <<i, g>> \in Rows /\ On(s.row, <<i, g>>)}
  BY InstanceOf DEF IInv, HandlerInv, SnapInv, Agree
<1>2. CASE IsPatch(h)
  <2> DEFINE p == req[h]
  <2>1. /\ p \in AllPatches /\ p.jid \in Jids
        /\ <<i, p.jid>> \in Rows
        /\ s.row[<<i, p.jid>>].exists
    BY <1>2, InstanceOf, PatchOrEdit DEF AllPatches
  <2>2. NewList(h) = PatchedList(s.list[i], p)
    BY <1>2 DEF NewList
  <2>3. ASSUME NEW g \in Jids, <<i, g>> \in Rows
        PROVE  new(g) = IF g = p.jid THEN PatchedRow(s.row[<<i, g>>], p) ELSE s.row[<<i, g>>]
    BY <1>2 DEF NewRow
  <2>4. ASSUME NEW g \in Jids, <<i, g>> \in Rows
        PROVE  /\ new(g).exists = s.row[<<i, g>>].exists
               /\ new(g).whitelisted = IF g = p.jid THEN Set(s.row[<<i, g>>].whitelisted, p.whitelisted)
                                       ELSE s.row[<<i, g>>].whitelisted
    <3> DEFINE old == s.row[<<i, g>>]
    <3>1. old \in RowsWith(Nat)
      BY <1>1, <2>4
    <3>2. new(g) = IF g = p.jid THEN PatchedRow(old, p) ELSE old
      BY <2>3, <2>4
    <3>3. /\ PatchedRow(old, p).exists = old.exists
          /\ PatchedRow(old, p).whitelisted = Set(old.whitelisted, p.whitelisted)
      <4> HIDE DEF old
      <4> QED BY <3>1 DEF PatchedRow, RowsWith
    <3> QED BY <3>2, <3>3
  <2>5. CASE p.whitelisted = None
    BY <1>1, <2>2, <2>4, <2>5 DEF PatchedList, Set, On
  <2>6. CASE p.whitelisted # None
    <3>1. p.whitelisted \in BOOLEAN
      BY <2>1, <2>6 DEF AllPatches, Flags
    <3>2. CASE p.whitelisted = TRUE
      BY <1>1, <2>1, <2>2, <2>4, <2>6, <3>2 DEF PatchedList, Set, On
    <3>3. CASE p.whitelisted = FALSE
      BY <1>1, <2>1, <2>2, <2>4, <2>6, <3>3 DEF PatchedList, Set, On
    <3> QED BY <3>1, <3>2, <3>3
  <2> QED BY <2>5, <2>6
<1>3. CASE ~IsPatch(h)
  <2>1. /\ req[h] \in AllEdits /\ req[h].list \subseteq Jids
        /\ i = req[h].instance /\ NewList(h) = req[h].list
        /\ req[h].list \subseteq KnownIn(s.row, i)
    BY <1>3, InstanceOf, PatchOrEdit DEF NewList, AllEdits, IInv, HandlerInv, SnapInv
  <2>2. ASSUME NEW g \in Jids, <<i, g>> \in Rows
        PROVE  new(g) = EditedRow(s.row[<<i, g>>], g \in req[h].list)
    BY <1>3 DEF NewRow
  <2>3. ASSUME NEW g \in Jids, <<i, g>> \in Rows
        PROVE  /\ new(g).exists = s.row[<<i, g>>].exists
               /\ new(g).exists => new(g).whitelisted = (g \in req[h].list)
    BY <1>1, <2>2, <2>3 DEF EditedRow, RowsWith
  <2>4. ASSUME NEW g \in req[h].list
        PROVE  <<i, g>> \in Rows /\ s.row[<<i, g>>].exists
    <3>1. PICK r \in Rows : r[1] = i /\ s.row[r].exists /\ r[2] = g
      BY <2>1, <2>4 DEF KnownIn
    <3> QED BY <3>1, ScopeAssumption
  <2> QED BY <2>1, <2>3, <2>4
<1> QED BY <1>2, <1>3

-----------------------------------------------------------------------------
(* The steps.                                                              *)

(* A request nobody touched stays in order, since no row goes.             *)
LEMMA HandlerKeeps ==
  ASSUME NEW g \in Handlers, HandlerInv(g),
         at'[g] = at[g], req'[g] = req[g], snap'[g] = snap[g],
         \A r \in Rows : row[r].exists => row'[r].exists
  PROVE  HandlerInv(g)'
<1>1. IsPatch(g)' = IsPatch(g)
  BY DEF IsPatch
<1>2. \A i : Known(i) \subseteq Known(i)'
  BY DEF Known
<1>3. at[g] = "open" => SnapInv(g)'
  BY <1>1 DEF HandlerInv, SnapInv
<1> QED BY <1>1, <1>2, <1>3 DEF HandlerInv

(* One request moves and the database does not.                            *)
LEMMA MoveKeeps ==
  ASSUME IInv, NEW h \in Handlers,
         UNCHANGED dbVars,
         NEW place \in {"read", "check", "begin", "open", "refused"},
         at[h] # "done", Go(h, place),
         NEW q \in Patches \cup Edits \cup {None}, req' = [req EXCEPT ![h] = q],
         NEW b \in SUBSET Jids, before' = [before EXCEPT ![h] = b],
         NEW s, snap' = [snap EXCEPT ![h] = s],
         place # "open" => s = None,
         HandlerInv(h)'
  PROVE  IInv'
<1>1. at \in [Handlers -> {"idle", "read", "check", "begin", "open", "refused", "done"}]
  BY DEF IInv, TypeOK
<1>2. Done' = Done
  BY <1>1 DEF Done, Go
<1>0. /\ snap' = [g \in Handlers |-> snap'[g]]
      /\ snap'[h] = s
      /\ \A g \in Handlers \ {h} : snap'[g] = snap[g]
  BY DEF IInv
<1>3. TypeOK'
  BY <1>0, <1>1, <1>2 DEF IInv, TypeOK, dbVars, Go
<1>4. ListMatchesRows'
  BY DEF IInv, ListMatchesRows, dbVars
<1>5. ASSUME NEW g \in Handlers \ {h} PROVE HandlerInv(g)'
  <2>1. HandlerInv(g) /\ req \in [Handlers -> Patches \cup Edits \cup {None}]
    BY DEF IInv, TypeOK
  <2>2. at'[g] = at[g] /\ req'[g] = req[g] /\ snap'[g] = snap[g]
    BY <1>0, <1>1, <2>1 DEF Go
  <2>3. \A r \in Rows : row[r].exists => row'[r].exists
    BY DEF dbVars
  <2> QED BY <2>1, <2>2, <2>3, HandlerKeeps
<1> QED BY <1>0, <1>3, <1>4, <1>5 DEF IInv, dbVars

LEMMA ReceiveKeeps ==
  ASSUME IInv, NEW h \in Handlers, NEW q \in Patches \cup Edits, Receive(h, q)
  PROVE  IInv'
<1> DEFINE place == IF q \in Patches THEN "begin" ELSE "read"
<1>1. /\ at \in [Handlers -> {"idle", "read", "check", "begin", "open", "refused", "done"}]
      /\ req \in [Handlers -> Patches \cup Edits \cup {None}]
      /\ before \in [Handlers -> SUBSET Jids]
      /\ \A g \in Handlers : at[g] # "open" => snap[g] = None
  BY DEF IInv, TypeOK
<1>2. at[h] = "idle" /\ Go(h, place) /\ req' = [req EXCEPT ![h] = q] /\ UNCHANGED <<dbVars, before, snap>>
  BY DEF Receive
<1>3. at'[h] = place /\ req'[h] = q
  BY <1>1, <1>2 DEF Go
<1>4. HandlerInv(h)'
  <2>1. q \in Patches => IsPatch(h)'
    BY <1>3, PatchOrEdit DEF IsPatch
  <2> QED BY <1>3, <2>1 DEF HandlerInv
<1>6. snap' = [snap EXCEPT ![h] = None]
  BY <1>1, <1>2 DEF IInv
<1>5. before' = [before EXCEPT ![h] = before[h]] /\ before[h] \in SUBSET Jids
  BY <1>1, <1>2
<1> QED BY <1>1, <1>2, <1>4, <1>5, <1>6, MoveKeeps

(* A step that leaves the request as it is.                                *)
LEMMA StepKeeps ==
  ASSUME IInv, NEW h \in Handlers,
         UNCHANGED <<dbVars, req>>,
         NEW place \in {"read", "check", "begin", "open", "refused"},
         at[h] # "done", Go(h, place),
         NEW b \in SUBSET Jids, before' = [before EXCEPT ![h] = b],
         NEW s, snap' = [snap EXCEPT ![h] = s],
         place # "open" => s = None,
         place \in {"check", "begin", "open"} => req[h] \in Patches \cup Edits,
         place = "check" => req[h] \in Edits,
         place # "read",
         place = "begin" /\ ~IsPatch(h) => req[h].list \subseteq Known(req[h].instance),
         place = "open" => SnapInv(h)'
  PROVE  IInv'
<1>1. /\ at \in [Handlers -> {"idle", "read", "check", "begin", "open", "refused", "done"}]
      /\ req \in [Handlers -> Patches \cup Edits \cup {None}]
  BY DEF IInv, TypeOK
<1>2. req' = [req EXCEPT ![h] = req[h]] /\ req[h] \in Patches \cup Edits \cup {None}
  BY <1>1
<1>3. at'[h] = place /\ req'[h] = req[h]
  BY <1>1 DEF Go
<1>4. IsPatch(h)' = IsPatch(h) /\ \A i : Known(i)' = Known(i)
  BY DEF IsPatch, Known, dbVars
<1>5. HandlerInv(h)'
  BY <1>3, <1>4 DEF HandlerInv
<1> QED BY <1>2, <1>5, MoveKeeps DEF dbVars

LEMMA HandleKeeps ==
  ASSUME IInv, NEW h \in Handlers,
         ReadBefore(h) \/ CheckGroups(h) \/ Begin(h) \/ Retry(h) \/ Abort(h)
  PROVE  IInv'
<1>1. /\ before \in [Handlers -> SUBSET Jids]
      /\ list \in [Instances -> SUBSET Jids]
      /\ \A g \in Handlers : at[g] # "open" => snap[g] = None
      /\ HandlerInv(h)
      /\ before[h] \in SUBSET Jids /\ before = [before EXCEPT ![h] = before[h]]
  BY DEF IInv, TypeOK
<1>0. /\ snap = [snap EXCEPT ![h] = snap[h]]
      /\ \A x : [snap EXCEPT ![h] = x][h] = x
  BY DEF IInv
<1>2. CASE ReadBefore(h)
  <2>1. req[h] \in Edits /\ req[h].instance \in Instances
    BY <1>1, <1>2, PatchOrEdit DEF ReadBefore, HandlerInv, AllEdits
  <2> QED BY <1>0, <1>1, <1>2, <2>1, StepKeeps DEF ReadBefore
<1>3. CASE CheckGroups(h)
  BY <1>0, <1>1, <1>3, StepKeeps DEF CheckGroups, HandlerInv
<1>4. CASE Begin(h)
  <2>1. CASE IsPatch(h) /\ Cardinality(Matched(row, req[h])) # 1
    BY <1>0, <1>1, <1>4, <2>1, StepKeeps DEF Begin, HandlerInv
  <2>2. CASE ~(IsPatch(h) /\ Cardinality(Matched(row, req[h])) # 1)
    <3> DEFINE s == [row |-> row, list |-> list]
    <3>1. snap' = [snap EXCEPT ![h] = s] /\ snap'[h] = s /\ UNCHANGED <<dbVars, req>>
      BY <1>0, <1>4, <2>2 DEF Begin
    <3>2. SnapInv(h)'
      <4>1. IsPatch(h)' = IsPatch(h) /\ req'[h] = req[h] /\ row' = row
        BY <3>1 DEF IsPatch, dbVars
      <4>2. /\ row \in [Rows -> RowsWith(Nat)]
            /\ list \in [Instances -> SUBSET Jids]
            /\ Agree(row, list)
        BY TypeParts, ListAgrees DEF IInv
      <4>3. IsPatch(h) => Matched(row, req[h]) # {}
        BY <2>2, FS_EmptySet
      <4>4. ~IsPatch(h) => req[h].list \subseteq KnownIn(row, req[h].instance)
        BY <1>1, <1>4 DEF Begin, HandlerInv, Known, KnownIn
      <4> QED BY <3>1, <4>1, <4>2, <4>3, <4>4 DEF SnapInv
    <3> QED BY <1>1, <1>4, <2>2, <3>1, <3>2, StepKeeps DEF Begin, HandlerInv
  <2> QED BY <2>1, <2>2
<1>5. CASE Retry(h)
  <2>1. ~IsPatch(h) => req[h].list \subseteq Known(req[h].instance)
    BY <1>1, <1>5 DEF Retry, HandlerInv, SnapInv, KnownIn, Known
  <2> QED BY <1>1, <1>5, <2>1, StepKeeps DEF Retry, HandlerInv
<1>6. CASE Abort(h)
  BY <1>1, <1>6, StepKeeps DEF Abort, HandlerInv
<1> QED BY <1>2, <1>3, <1>4, <1>5, <1>6

LEMMA AppearsKeeps ==
  ASSUME IInv, NEW r \in Rows, Appears(r)
  PROVE  IInv'
<1>1. /\ row \in [Rows -> RowsWith(0..Cardinality(Done))]
      /\ ~row[r].exists
      /\ row' = [row EXCEPT ![r].exists = TRUE]
  BY TypeParts DEF IInv, Appears
<1>2. UNCHANGED <<list, audit, at, req, before, snap>>
  BY DEF Appears
<1>3. /\ row' \in [Rows -> RowsWith(0..Cardinality(Done))]
      /\ \A t \in Rows : row[t].exists => row'[t].exists
  BY <1>1 DEF RowsWith
<1>4. Done' = Done
  BY <1>2 DEF Done
<1>5. TypeOK'
  BY <1>2, <1>3, <1>4 DEF IInv, TypeOK, RowsWith
<1>6. /\ ListMatchesRows'
      /\ \A t \in Rows : row'[t].whitelisted => row'[t].exists
  <2>1. \A t \in Rows : On(row', t) <=> On(row, t)
    BY <1>1 DEF IInv, On, RowsWith
  <2>2. Agree(row', list')
    BY <1>2, <2>1, ListAgrees DEF IInv, Agree
  <2>3. ListMatchesRows' <=> Agree(row', list')
    BY DEF ListMatchesRows, Agree, On
  <2> QED BY <1>1, <2>2, <2>3 DEF IInv, RowsWith
<1>7. ASSUME NEW g \in Handlers PROVE HandlerInv(g)'
  BY <1>2, <1>3, HandlerKeeps DEF IInv
<1> QED BY <1>2, <1>5, <1>6, <1>7 DEF IInv

(* What a commit does to rows and lists.                                   *)
LEMMA CommitEffects ==
  ASSUME IInv, NEW h \in Handlers, Commit(h)
  PROVE  LET i == Instance(h)
             s == snap[h]
         IN /\ at[h] = "open" /\ i \in Instances
            /\ \A r \in Rows : \/ row'[r] = row[r] /\ NewRow(h, r) = s.row[r]
                               \/ row'[r] = NewRow(h, r) /\ row[r] = s.row[r]
            /\ DOMAIN row' = Rows
            /\ \A j \in Instances \ {i} : list'[j] = list[j]
            /\ \/ list'[i] = list[i] /\ NewList(h) = s.list[i]
               \/ list'[i] = NewList(h) /\ list[i] = s.list[i]
            /\ DOMAIN list' = Instances
<1>1. list \in [Instances -> SUBSET Jids]
  BY TypeParts DEF IInv
<1> QED BY <1>1, InstanceOf DEF Commit, Conflict, Writes

(* First committer wins: list and rows agree after the commit as they did  *)
(* in the snapshot and do now.                                             *)
LEMMA CommitAgrees ==
  ASSUME IInv, NEW h \in Handlers, Commit(h)
  PROVE  Agree(row', list')
<1> DEFINE i == Instance(h)
           s == snap[h]
<1>0. /\ i \in Instances /\ at[h] = "open"
      /\ Agree(row, list) /\ Agree(s.row, s.list)
  BY CommitEffects, ListAgrees DEF IInv, HandlerInv, SnapInv
<1>1. ASSUME NEW j \in Instances \ {i}
      PROVE  list'[j] = {g \in Jids : <<j, g>> \in Rows /\ On(row', <<j, g>>)}
  <2>1. ASSUME NEW g \in Jids, <<j, g>> \in Rows PROVE row'[<<j, g>>] = row[<<j, g>>]
    <3> DEFINE r == <<j, g>>
    <3>1. r[1] # i
      BY <1>1
    <3>2. NewRow(h, r) = s.row[r]
      BY <1>0, <2>1, <3>1, NewRows
    <3>3. \/ row'[r] = row[r]
          \/ row'[r] = NewRow(h, r) /\ row[r] = s.row[r]
      BY <2>1, CommitEffects
    <3> QED BY <3>2, <3>3
  <2>2. list'[j] = list[j]
    BY <1>1, CommitEffects
  <2> QED BY <1>0, <2>1, <2>2 DEF Agree, On
<1>2. list'[i] = {g \in Jids : <<i, g>> \in Rows /\ On(row', <<i, g>>)}
  <2> DEFINE new(g) == NewRow(h, <<i, g>>)
  <2>1. /\ list[i] = {g \in Jids : <<i, g>> \in Rows /\ On(row, <<i, g>>)}
        /\ s.list[i] = {g \in Jids : <<i, g>> \in Rows /\ On(s.row, <<i, g>>)}
        /\ NewList(h) = {g \in Jids : <<i, g>> \in Rows /\ new(g).exists /\ new(g).whitelisted}
    BY <1>0, SnapshotAgrees DEF Agree
  <2>2. ASSUME NEW g \in Jids, <<i, g>> \in Rows
        PROVE  \/ row'[<<i, g>>] = row[<<i, g>>] /\ new(g) = s.row[<<i, g>>]
               \/ row'[<<i, g>>] = new(g) /\ row[<<i, g>>] = s.row[<<i, g>>]
    BY <2>2, CommitEffects
  <2>3. \/ list'[i] = list[i] /\ NewList(h) = s.list[i]
        \/ list'[i] = NewList(h) /\ list[i] = s.list[i]
    BY CommitEffects
  <2>4. ASSUME NEW g \in Jids, <<i, g>> \in Rows
        PROVE  g \in list'[i] <=> On(row', <<i, g>>)
    <3> HIDE DEF i, s, new
    <3> QED BY <2>1, <2>2, <2>3, <2>4 DEF On
  <2>5. list'[i] \subseteq {g \in Jids : <<i, g>> \in Rows}
    BY <2>1, <2>3
  <2> QED BY <2>4, <2>5
<1> QED BY <1>1, <1>2 DEF Agree

LEMMA CommitKeeps ==
  ASSUME IInv, NEW h \in Handlers, Commit(h)
  PROVE  IInv'
<1>0. /\ at \in [Handlers -> {"idle", "read", "check", "begin", "open", "refused", "done"}]
      /\ at[h] = "open" /\ HandlerInv(h)
      /\ at' = [at EXCEPT ![h] = "done"]
      /\ snap' = [snap EXCEPT ![h] = None]
      /\ UNCHANGED <<req, before>>
  BY DEF IInv, TypeOK, Commit, Go
<1>1. Cardinality(Done') = Cardinality(Done) + 1 /\ Cardinality(Done) \in Nat
  <2>1. Done' = Done \cup {h} /\ h \notin Done
    BY <1>0 DEF Done
  <2> QED BY <2>1, TypeParts, FS_AddElement DEF IInv
<1>2. ASSUME NEW r \in Rows
      PROVE  /\ row'[r] \in RowsWith(0..Cardinality(Done'))
             /\ row[r].exists => row'[r].exists
             /\ row'[r].whitelisted => row'[r].exists
  <2>1. row[r] \in RowsWith(0..Cardinality(Done)) /\ (row[r].whitelisted => row[r].exists)
    BY TypeParts DEF IInv
  <2>2. CASE row'[r] = row[r]
    BY <1>1, <2>1, <2>2 DEF RowsWith
  <2>3. CASE row'[r] = NewRow(h, r) /\ row[r] = snap[h].row[r]
    <3>1. /\ row'[r] \in RowsWith({row[r].version, row[r].version + 1})
          /\ row'[r].exists = row[r].exists
      BY <1>0, <2>3, NewRows
    <3>2. row'[r] \in RowsWith(0..Cardinality(Done'))
      BY <1>1, <2>1, <3>1 DEF RowsWith
    <3>3. ~row[r].exists => row'[r] = row[r]
      <4>1. CASE IsPatch(h)
        <5>1. r[1] = Instance(h) /\ r[2] = req[h].jid => r = <<Instance(h), req[h].jid>>
          BY ScopeAssumption
        <5> QED BY <1>0, <2>3, <4>1, <5>1, InstanceOf DEF NewRow
      <4>2. CASE ~IsPatch(h)
        BY <2>3, <4>2 DEF NewRow, EditedRow
      <4> QED BY <4>1, <4>2
    <3> QED BY <2>1, <3>1, <3>2, <3>3
  <2> QED BY <2>2, <2>3, CommitEffects
<1>3. row' \in [Rows -> RowsWith(0..Cardinality(Done'))]
  BY <1>2, CommitEffects DEF Commit
<1>4. ListMatchesRows' /\ list' \in [Instances -> SUBSET Jids]
  <2>1. ListMatchesRows' <=> Agree(row', list')
    BY DEF ListMatchesRows, Agree, On
  <2>2. list' = [j \in Instances |-> list'[j]]
    BY TypeParts DEF IInv, Commit
  <2> QED BY <2>1, <2>2, CommitAgrees DEF Agree
<1>5. audit' \in [Instances -> [source : {"none", "group-row", "instance-config"},
                  names : SUBSET Jids, granted : BOOLEAN, before : SUBSET Jids]]
  <2>1. IsPatch(h) /\ req[h].whitelisted # None => req[h].whitelisted \in BOOLEAN /\ req[h].jid \in Jids
    BY DEF IsPatch, AllPatches, Flags
  <2>2. ~IsPatch(h) => req[h].list \in SUBSET Jids
    BY <1>0, InstanceOf, PatchOrEdit DEF AllEdits
  <2> QED BY <2>1, <2>2 DEF IInv, TypeOK, Commit, Moved, Replaced
<1>6. TypeOK' /\ snap' = [g \in Handlers |-> snap'[g]]
  BY <1>0, <1>3, <1>4, <1>5 DEF IInv, TypeOK, RowsWith
<1>7. ASSUME NEW g \in Handlers PROVE HandlerInv(g)'
  <2>1. CASE g = h
    BY <1>0, <2>1 DEF HandlerInv
  <2>2. CASE g # h
    <3>1. at'[g] = at[g] /\ req'[g] = req[g] /\ snap'[g] = snap[g] /\ HandlerInv(g)
      BY <1>0, <2>2 DEF IInv
    <3> QED BY <1>2, <3>1, HandlerKeeps
  <2> QED BY <2>1, <2>2
<1> QED BY <1>2, <1>4, <1>6, <1>7 DEF IInv

LEMMA StepInv == IInv /\ [Next]_vars => IInv'
<1>1. ASSUME IInv, UNCHANGED vars PROVE IInv'
  <2>1. UNCHANGED <<row, list, audit, at, req, before, snap, Done>>
    BY <1>1 DEF vars, dbVars, Done
  <2>2. \A g \in Handlers : HandlerInv(g)'
    BY <1>1, <2>1, HandlerKeeps DEF IInv
  <2> QED BY <1>1, <2>1, <2>2 DEF IInv, TypeOK, ListMatchesRows
<1> QED BY <1>1, ReceiveKeeps, HandleKeeps, CommitKeeps, AppearsKeeps DEF Next, Handle

-----------------------------------------------------------------------------
(* However many requests overlap, and whatever the database aborts or runs *)
(* again, an account's list and the flags of its rows are one.             *)
THEOREM ListAndRowsAgree == Spec => []ScopeInv
<1>1. IInv => ScopeInv
  BY DEF IInv, ScopeInv
<1> QED BY <1>1, InitInv, StepInv, PTL DEF Spec

(* A group's version grows with every change of its eligibility and never  *)
(* falls.                                                                  *)
THEOREM VersionsFollowEligibility == Spec => EligibilityIsVersioned
<1>1. ASSUME IInv, [Next]_vars, NEW r \in Rows
      PROVE  /\ row'[r].version >= row[r].version
             /\ Eligible(r)' # Eligible(r) => row'[r].version > row[r].version
  <2>1. row \in [Rows -> RowsWith(Nat)]
    BY <1>1, TypeParts DEF IInv
  <2>2. CASE row'[r] = row[r]
    BY <2>1, <2>2 DEF Eligible, RowsWith
  <2>3. ASSUME NEW h \in Handlers, Commit(h), row'[r] # row[r]
        PROVE  /\ row'[r].version >= row[r].version
               /\ Eligible(r)' # Eligible(r) => row'[r].version > row[r].version
    <3>1. row'[r] = NewRow(h, r) /\ row[r] = snap[h].row[r] /\ at[h] = "open"
      BY <1>1, <2>3, CommitEffects
    <3>2. /\ row'[r].version \in {row[r].version, row[r].version + 1}
          /\ row'[r].assigned # row[r].assigned \/ row'[r].whitelisted # row[r].whitelisted
               => row'[r].version = row[r].version + 1
      BY <1>1, <3>1, NewRows DEF RowsWith
    <3> QED BY <2>1, <3>2 DEF Eligible, RowsWith
  <2>4. ASSUME NEW t \in Rows, Appears(t)
        PROVE  row'[r].version = row[r].version /\ row'[r].assigned = row[r].assigned
               /\ row'[r].whitelisted = row[r].whitelisted
    BY <2>1, <2>4 DEF Appears, RowsWith
  <2>5. (\E t \in Rows : Appears(t)) =>
          /\ row'[r].version >= row[r].version
          /\ Eligible(r)' # Eligible(r) => row'[r].version > row[r].version
    BY <2>1, <2>4 DEF Eligible, RowsWith
  <2>6. ASSUME NEW h \in Handlers,
               ReadBefore(h) \/ CheckGroups(h) \/ Begin(h) \/ Retry(h) \/ Abort(h)
                 \/ \E q \in Patches \cup Edits : Receive(h, q)
        PROVE  row' = row
    BY <2>6 DEF ReadBefore, CheckGroups, Begin, Retry, Abort, Receive, dbVars
  <2> QED BY <1>1, <2>2, <2>3, <2>5, <2>6 DEF Next, Handle, vars, dbVars
<1>2. IInv /\ [Next]_vars =>
        [\A r \in Rows :
           /\ row'[r].version >= row[r].version
           /\ Eligible(r)' # Eligible(r) => row'[r].version > row[r].version]_vars
  BY <1>1
<1> QED BY <1>2, InitInv, StepInv, PTL DEF Spec, EligibilityIsVersioned

(* Every change of a list has an audit row that names what moved, and      *)
(* nothing else moved with it.                                             *)
THEOREM EveryMoveIsRecorded == Spec => MovesAreRecorded
<1>1. ASSUME IInv, [Next]_vars, NEW i \in Instances, list'[i] # list[i]
      PROVE  LET a == audit'[i] IN
             list'[i] = IF a.source = "instance-config" THEN a.names
                        ELSE IF a.granted THEN list[i] \cup a.names ELSE list[i] \ a.names
  <2>1. PICK h \in Handlers : Commit(h)
    BY <1>1 DEF Next, Handle, ReadBefore, CheckGroups, Begin, Retry, Abort, Receive, Appears, vars, dbVars
  <2>2. /\ i = Instance(h) /\ at[h] = "open"
        /\ list'[i] = NewList(h) /\ list[i] = snap[h].list[i] /\ NewList(h) # snap[h].list[i]
    BY <1>1, <2>1, CommitEffects
  <2>3. CASE IsPatch(h)
    <3>1. NewList(h) = PatchedList(list[i], req[h]) /\ req[h].whitelisted # None
      BY <2>2, <2>3 DEF NewList, PatchedList
    <3>2. audit'[i] = Moved(req[h].jid, req[h].whitelisted)
      BY <1>1, <2>1, <2>2, <2>3, <3>1 DEF Commit, IInv, TypeOK
    <3> QED BY <2>2, <3>1, <3>2 DEF PatchedList, Moved
  <2>4. CASE ~IsPatch(h)
    <3>1. audit'[i] = Replaced(before[h], req[h].list)
      BY <1>1, <2>1, <2>2, <2>4 DEF Commit, IInv, TypeOK
    <3> QED BY <2>2, <2>4, <3>1 DEF NewList, Replaced
  <2> QED BY <2>3, <2>4
<1>2. IInv /\ [Next]_vars =>
        [\A i \in Instances : list'[i] # list[i] =>
           LET a == audit'[i] IN
           list'[i] = IF a.source = "instance-config" THEN a.names
                      ELSE IF a.granted THEN list[i] \cup a.names ELSE list[i] \ a.names]_vars
  BY <1>1
<1> QED BY <1>2, InitInv, StepInv, PTL DEF Spec, MovesAreRecorded

(***************************************************************************)
(* Pairing.                                                                *)
(***************************************************************************)
Statuses == {"none", "disconnected", "pairing", "connected", "logged_out", "error"}

WizardRecords ==
  [at : {"none", "host", "service"}, step : {"run", "asked", "scan", "over"},
   out : Seq(Pieces), got : Seq(Words), life : {"alive", "exited", "killed"},
   read : Nat, handled : BOOLEAN, loaded : BOOLEAN]
LogRecords == [of : 0 .. N, written : Nat, onDisk : Nat, old : BOOLEAN]
PanelRecords ==
  [status : Statuses, req : [kind : {"idle", "check", "pair", "late", "answer"}, got : DOMAIN Overlay]]

(* A question's text comes right before its end.                           *)
AsksInOne(out) ==
  /\ \A i \in QuestionEnds(out) : i - 1 \in DOMAIN out
  /\ \A j \in DOMAIN out : out[j] = "repair" => j + 1 \in DOMAIN out /\ out[j + 1] = "[y/N]"

(* Each answer is the one its question, by its place, asks for.             *)
ToldInPlace(out, got) ==
  /\ Len(got) <= Cardinality(QuestionEnds(out))
  /\ \A i \in QuestionEnds(out) : Place(out, i) <= Len(got) =>
       got[Place(out, i)] = (IF out[i - 1] = "repair" THEN Yes ELSE Default)

WizardSound(n) ==
  n \in WizardRecords /\ n.read <= Len(n.out) /\ AsksInOne(n.out) /\ ToldInPlace(n.out, n.got)

(* The log is a started wizard's and holds no more than its driver has read. *)
LogSound ==
  /\ log \in LogRecords /\ log.onDisk <= log.written
  /\ log.of # NoWizard => wiz[log.of].at # "none" /\ log.written <= wiz[log.of].read

(* A wizard that is alive is the one its place knows of: the pid file names *)
(* the host's, the session is the service's.                                *)
Owned ==
  \A w \in Wizards : Alive(w) => IF wiz[w].at = "host" THEN pid = w ELSE session = w

WorldType ==
  /\ url \in BOOLEAN /\ dataDir \in BOOLEAN /\ stored \in StoredStatus
  /\ pid \in 0 .. N /\ session \in 0 .. N /\ creds \in Credentials
  /\ gw \in [state : {"connected", "connecting", "unpaired", "fatal"}, holds : Credentials]
  /\ faults \in 0 .. MaxFaults

WizardsSound == wiz = [w \in Wizards |-> wiz[w]] /\ \A w \in Wizards : WizardSound(wiz[w])

PairingIInv ==
  WorldType /\ panel \in [Panels -> PanelRecords] /\ WizardsSound /\ LogSound /\ Owned

-----------------------------------------------------------------------------
(* Places are numbered from one, in the order of the ends.                  *)
LEMMA PlacesNumber ==
  ASSUME NEW s \in Seq(Pieces)
  PROVE  /\ DOMAIN s = 1 .. Len(s) /\ Len(s) \in Nat
         /\ QuestionEnds(s) \subseteq 1 .. Len(s) /\ IsFiniteSet(QuestionEnds(s))
         /\ Cardinality(QuestionEnds(s)) \in Nat
         /\ \A i \in QuestionEnds(s) : Place(s, i) \in 1 .. Cardinality(QuestionEnds(s))
<1> DEFINE E == QuestionEnds(s)
<1>1. DOMAIN s = 1 .. Len(s) /\ Len(s) \in Nat /\ E \subseteq 1 .. Len(s)
  BY DEF QuestionEnds
<1>2. IsFiniteSet(E) /\ Cardinality(E) \in Nat
  <2>1. IsFiniteSet(1 .. Len(s))
    BY <1>1, FS_Interval
  <2> QED BY <1>1, <2>1, FS_Subset, FS_CardinalityType
<1>3. ASSUME NEW i \in E PROVE Place(s, i) \in 1 .. Cardinality(E)
  <2> DEFINE P == {j \in E : j <= i}
  <2>1. P \subseteq E /\ i \in P
    BY <1>1, <1>3
  <2>2. IsFiniteSet(P) /\ Cardinality(P) \in Nat /\ Cardinality(P) <= Cardinality(E)
    BY <1>2, <2>1, FS_Subset, FS_CardinalityType
  <2>3. Cardinality(P) # 0
    BY <2>1, <2>2, FS_EmptySet
  <2> QED BY <1>2, <2>2, <2>3 DEF Place
<1> QED BY <1>1, <1>2, <1>3

(* What was said later leaves the places as they were, and comes after all  *)
(* of them.                                                                *)
LEMMA PlacesStay ==
  ASSUME NEW s \in Seq(Pieces), NEW t \in Seq(Pieces), Len(s) <= Len(t),
         \A i \in 1 .. Len(s) : t[i] = s[i]
  PROVE  /\ QuestionEnds(s) = {i \in QuestionEnds(t) : i <= Len(s)}
         /\ Cardinality(QuestionEnds(s)) <= Cardinality(QuestionEnds(t))
         /\ \A i \in QuestionEnds(s) : Place(s, i) = Place(t, i)
         /\ \A i \in QuestionEnds(t) \ QuestionEnds(s) :
              Place(t, i) > Cardinality(QuestionEnds(s))
<1> DEFINE E == QuestionEnds(s)
           F == QuestionEnds(t)
<1>1. /\ DOMAIN s = 1 .. Len(s) /\ DOMAIN t = 1 .. Len(t) /\ Len(s) \in Nat /\ Len(t) \in Nat
      /\ IsFiniteSet(E) /\ IsFiniteSet(F) /\ E \subseteq 1 .. Len(s) /\ F \subseteq 1 .. Len(t)
      /\ Cardinality(E) \in Nat /\ Cardinality(F) \in Nat
  BY PlacesNumber
<1>2. E = {i \in F : i <= Len(s)}
  BY <1>1 DEF QuestionEnds
<1>3. Cardinality(E) <= Cardinality(F)
  BY <1>1, <1>2, FS_Subset
<1>4. ASSUME NEW i \in E PROVE Place(s, i) = Place(t, i)
  <2>1. {j \in E : j <= i} = {j \in F : j <= i}
    BY <1>1, <1>2, <1>4
  <2> QED BY <2>1 DEF Place
<1>5. ASSUME NEW i \in F \ E PROVE Place(t, i) > Cardinality(E)
  <2> DEFINE P == {j \in F : j <= i}
  <2>1. E \subseteq P /\ i \in P /\ P \subseteq F
    BY <1>1, <1>2, <1>5
  <2>2. IsFiniteSet(P) /\ Cardinality(P) \in Nat
    BY <1>1, <2>1, FS_Subset, FS_CardinalityType
  <2>3. Cardinality(E) <= Cardinality(P) /\ (Cardinality(E) = Cardinality(P) => E = P)
    BY <2>1, <2>2, FS_Subset
  <2>4. Cardinality(E) # Cardinality(P)
    BY <1>5, <2>1, <2>3
  <2>5. Place(t, i) = Cardinality(P)
    BY DEF Place
  <2> HIDE DEF P, E, F
  <2> QED BY <1>1, <2>2, <2>3, <2>4, <2>5
<1> QED BY <1>2, <1>3, <1>4, <1>5

(* The answers stay in place when the wizard says more.                     *)
LEMMA MoreSaid ==
  ASSUME NEW s \in Seq(Pieces), NEW t \in Seq(Pieces), Len(s) <= Len(t),
         \A i \in 1 .. Len(s) : t[i] = s[i],
         NEW got \in Seq(Words), AsksInOne(s), ToldInPlace(s, got)
  PROVE  ToldInPlace(t, got)
<1> DEFINE S == Cardinality(QuestionEnds(s))
           T == Cardinality(QuestionEnds(t))
<1>0. Len(got) \in Nat
  OBVIOUS
<1>1. DOMAIN s = 1 .. Len(s) /\ Len(s) \in Nat /\ S \in Nat /\ T \in Nat
  BY PlacesNumber
<1>t. S <= T
  BY PlacesStay
<1>g. Len(got) <= S
  BY DEF ToldInPlace
<1> HIDE DEF S, T
<1>2. Len(got) <= Cardinality(QuestionEnds(t))
  BY <1>0, <1>1, <1>t, <1>g DEF T
<1>3. ASSUME NEW i \in QuestionEnds(t), Place(t, i) <= Len(got)
      PROVE  got[Place(t, i)] = (IF t[i - 1] = "repair" THEN Yes ELSE Default)
  <2>1. i \in QuestionEnds(s)
    <3> SUFFICES ASSUME i \notin QuestionEnds(s) PROVE FALSE
      OBVIOUS
    <3>1. Place(t, i) > S
      BY PlacesStay DEF S
    <3>2. Place(t, i) \in Nat
      <4>1. Place(t, i) \in 1 .. T
        BY PlacesNumber DEF T
      <4> QED BY <1>1, <4>1
    <3> QED BY <1>0, <1>1, <1>g, <1>3, <3>1, <3>2
  <2>2. Place(s, i) = Place(t, i)
    BY <2>1, PlacesStay
  <2>3. i - 1 \in 1 .. Len(s) /\ t[i - 1] = s[i - 1]
    BY <1>1, <2>1 DEF AsksInOne
  <2> QED BY <1>3, <2>1, <2>2, <2>3 DEF ToldInPlace
<1> QED BY <1>2, <1>3 DEF ToldInPlace

(* What answersFor says to a question is what the question asks for.        *)
LEMMA AnswerIsRight ==
  ASSUME NEW s \in Seq(Pieces), NEW t \in Seq(Pieces), Len(s) <= Len(t),
         \A i \in 1 .. Len(s) : t[i] = s[i], AsksInOne(t), NEW i \in QuestionEnds(s)
  PROVE  AnswerAt(s, i) = (IF t[i - 1] = "repair" THEN Yes ELSE Default)
<1>1. /\ DOMAIN s = 1 .. Len(s) /\ DOMAIN t = 1 .. Len(t) /\ Len(s) \in Nat /\ Len(t) \in Nat
      /\ i \in 1 .. Len(s)
  BY PlacesNumber
<1>2. i \in QuestionEnds(t) /\ s[i] = "[y/N]" /\ t[i] = "[y/N]"
  BY <1>1 DEF QuestionEnds
<1>3. i - 1 \in 1 .. Len(s) /\ s[i - 1] = t[i - 1]
  BY <1>1, <1>2 DEF AsksInOne
<1>4. CASE t[i - 1] = "repair"
  <2>1. s[i - 1] = "repair" /\ \A k \in i - 1 .. i - 1 : s[k] # "[y/N]"
    BY <1>1, <1>3, <1>4
  <2>2. i - 1 \in 1 .. i - 1
    BY <1>1, <1>3
  <2> QED BY <1>4, <2>1, <2>2 DEF AnswerAt
<1>5. CASE t[i - 1] # "repair"
  <2> SUFFICES ASSUME NEW j \in 1 .. i - 1, s[j] = "repair", \A k \in j .. i - 1 : s[k] # "[y/N]"
               PROVE  FALSE
    BY <1>5 DEF AnswerAt
  <2>1. j \in 1 .. Len(s) /\ t[j] = "repair" /\ j \in DOMAIN t
    BY <1>1
  <2>2. t[j + 1] = "[y/N]"
    BY <2>1 DEF AsksInOne
  <2>3. j # i - 1
    BY <1>3, <1>5
  <2>4. j + 1 \in j .. i - 1 /\ j + 1 \in 1 .. Len(s)
    BY <1>1, <2>1, <2>3
  <2> QED BY <2>2, <2>4
<1> QED BY <1>4, <1>5

(* What a wizard may say in one go.                                         *)
Sayings == {<<>>, <<"qr">>, <<"paired">>, <<"cross">>, <<"other", "[y/N]">>, <<"repair", "[y/N]">>}

LEMMA SaidInOne ==
  ASSUME NEW s \in Seq(Pieces), NEW said \in Sayings, AsksInOne(s)
  PROVE  /\ s \o said \in Seq(Pieces) /\ Len(s) <= Len(s \o said)
         /\ \A i \in 1 .. Len(s) : (s \o said)[i] = s[i]
         /\ AsksInOne(s \o said)
<1> DEFINE t == s \o said
           l == Len(s)
<1>0. DOMAIN s = 1 .. l /\ l \in Nat
  OBVIOUS
<1>1. said \in Seq(Pieces)
  <2>1. {"qr", "paired", "cross", "other", "repair", "[y/N]"} = Pieces
    BY DEF Pieces
  <2>2. said = <<>> \/ (\E p \in Pieces : said = <<p>>) \/ (\E p, q \in Pieces : said = <<p, q>>)
    BY <2>1 DEF Sayings
  <2>3. CASE said = <<>>
    BY <2>3
  <2>4. ASSUME NEW p \in Pieces, said = <<p>> PROVE said \in Seq(Pieces)
    <3>1. <<p>> \in Seq(Pieces)
      OBVIOUS
    <3> QED BY <2>4, <3>1
  <2>5. ASSUME NEW p \in Pieces, NEW q \in Pieces, said = <<p, q>> PROVE said \in Seq(Pieces)
    <3>1. <<p, q>> \in Seq(Pieces)
      OBVIOUS
    <3> QED BY <2>5, <3>1
  <2> QED BY <2>2, <2>3, <2>4, <2>5
<1>2. /\ t \in Seq(Pieces) /\ Len(t) = l + Len(said) /\ DOMAIN t = 1 .. Len(t)
      /\ \A i \in 1 .. l : t[i] = s[i]
      /\ \A i \in 1 .. Len(said) : t[l + i] = said[i]
  BY <1>1
<1>3. Len(said) \in 0 .. 2
  BY DEF Sayings
<1> HIDE DEF t, l
<1>4. ASSUME NEW i \in QuestionEnds(t) PROVE i - 1 \in DOMAIN t
  <2>1. i \in 1 .. Len(t) /\ t[i] = "[y/N]"
    BY <1>2, <1>4 DEF QuestionEnds
  <2>2. CASE i \in 1 .. l
    <3>1. i \in QuestionEnds(s)
      BY <1>0, <1>2, <2>1, <2>2 DEF QuestionEnds
    <3> QED BY <1>0, <1>2, <1>3, <3>1 DEF AsksInOne
  <2>3. CASE i = l + 1
    <3>1. said[1] = "[y/N]" /\ 1 \in 1 .. Len(said)
      BY <1>0, <1>2, <1>3, <2>1, <2>3
    <3> QED BY <3>1 DEF Sayings
  <2>4. CASE i = l + 2
    BY <1>0, <1>2, <1>3, <2>1, <2>4
  <2> QED BY <1>0, <1>2, <1>3, <2>1, <2>2, <2>3, <2>4
<1>5. ASSUME NEW j \in DOMAIN t, t[j] = "repair" PROVE j + 1 \in DOMAIN t /\ t[j + 1] = "[y/N]"
  <2>1. CASE j \in 1 .. l
    <3>1. j + 1 \in 1 .. l /\ s[j + 1] = "[y/N]"
      BY <1>0, <1>2, <1>5, <2>1 DEF AsksInOne
    <3> QED BY <1>0, <1>2, <1>3, <3>1
  <2>2. CASE j = l + 1
    <3>1. said[1] = "repair" /\ 1 \in 1 .. Len(said)
      BY <1>0, <1>2, <1>3, <1>5, <2>2
    <3>2. Len(said) = 2 /\ said[2] = "[y/N]"
      BY <3>1 DEF Sayings
    <3>3. t[l + 2] = said[2] /\ l + 2 \in 1 .. Len(t) /\ j + 1 = l + 2
      BY <1>0, <1>2, <2>2, <3>2
    <3> QED BY <1>2, <3>2, <3>3
  <2>3. CASE j = l + 2
    <3>1. said[2] = "repair" /\ 2 \in 1 .. Len(said)
      BY <1>0, <1>2, <1>3, <1>5, <2>3
    <3>2. said = <<"other", "[y/N]">> \/ said = <<"repair", "[y/N]">>
      BY <3>1 DEF Sayings
    <3>3. <<"other", "[y/N]">>[2] = "[y/N]" /\ <<"repair", "[y/N]">>[2] = "[y/N]"
      OBVIOUS
    <3>4. said[2] = "[y/N]"
      BY <3>2, <3>3
    <3> QED BY <3>1, <3>4
  <2>4. j \in 1 .. l \/ j = l + 1 \/ j = l + 2
    <3> DEFINE k == Len(said)
    <3>1. j \in 1 .. l + k
      BY <1>2
    <3>2. k \in 0 .. 2 /\ l \in Nat
      BY <1>0, <1>3
    <3> HIDE DEF k
    <3> QED BY <3>1, <3>2
  <2> QED BY <2>1, <2>2, <2>3, <2>4
<1>6. l <= Len(t)
  BY <1>0, <1>2, <1>3
<1> QED BY <1>2, <1>4, <1>5, <1>6 DEF AsksInOne, t, l

LEMMA Says ==
  ASSUME NEW n, WizardSound(n), NEW said \in Sayings, NEW next \in {"run", "asked", "scan", "over"}
  PROVE  LET m == [n EXCEPT !.out = n.out \o said, !.step = next]
         IN  WizardSound(m) /\ m.at = n.at /\ m.life = n.life /\ m.read = n.read
<1> DEFINE m == [n EXCEPT !.out = n.out \o said, !.step = next]
           t == n.out \o said
           W == Seq(Pieces)
           A == Seq(Words)
<1>1. /\ n \in WizardRecords /\ n.read <= Len(n.out) /\ AsksInOne(n.out) /\ ToldInPlace(n.out, n.got)
      /\ n.out \in W /\ n.got \in A /\ n.read \in Nat /\ Len(n.out) \in Nat
  BY DEF WizardSound, WizardRecords
<1>2. /\ t \in W /\ Len(n.out) <= Len(t) /\ AsksInOne(t)
      /\ \A i \in 1 .. Len(n.out) : t[i] = n.out[i]
  BY <1>1, SaidInOne
<1>3. ToldInPlace(t, n.got)
  BY <1>1, <1>2, MoreSaid
<1>4. n.read <= Len(t)
  BY <1>1, <1>2
<1> HIDE DEF t, W, A
<1>5. /\ m \in WizardRecords /\ m.at = n.at /\ m.life = n.life /\ m.read = n.read
      /\ m.out = t /\ m.got = n.got
  BY <1>1, <1>2 DEF WizardRecords, W, A, t
<1> HIDE DEF m
<1>6. WizardSound(m)
  BY <1>1, <1>2, <1>3, <1>4, <1>5 DEF WizardSound
<1> QED BY <1>5, <1>6 DEF m

-----------------------------------------------------------------------------
(* One wizard changes, the others and the world's types do not.             *)
LEMMA OneWizardChanges ==
  ASSUME PairingIInv, NEW w \in Wizards, NEW n, WizardSound(n), wiz' = [wiz EXCEPT ![w] = n]
  PROVE  WizardsSound' /\ wiz'[w] = n /\ \A v \in Wizards : v # w => wiz'[v] = wiz[v]
<1>1. /\ wiz = [v \in Wizards |-> wiz[v]] /\ \A v \in Wizards : WizardSound(wiz[v])
  BY DEF PairingIInv, WizardsSound
<1>2. /\ wiz' = [v \in Wizards |-> wiz'[v]] /\ wiz'[w] = n
      /\ \A v \in Wizards : v # w => wiz'[v] = wiz[v]
  BY <1>1
<1>3. \A v \in Wizards : WizardSound(wiz'[v])
  BY <1>1, <1>2
<1> QED BY <1>2, <1>3 DEF WizardsSound

(* A wizard that stays where and as alive as it was, and was read no less,   *)
(* is known and logged as before.                                          *)
LEMMA StillOwned ==
  ASSUME PairingIInv, NEW w \in Wizards, NEW n, WizardSound(n), wiz' = [wiz EXCEPT ![w] = n],
         n.at = wiz[w].at, n.life = wiz[w].life, n.read >= wiz[w].read,
         UNCHANGED <<pid, session>>
  PROVE  Owned' /\ (UNCHANGED log => LogSound')
<1>1. /\ wiz'[w] = n /\ \A v \in Wizards : v # w => wiz'[v] = wiz[v]
  BY OneWizardChanges
<1>2. Owned'
  BY <1>1 DEF PairingIInv, Owned, Alive, Started
<1>3. ASSUME UNCHANGED log PROVE LogSound'
  <2>1. LogSound /\ log.written \in Nat /\ log.of \in 0 .. N
    BY DEF PairingIInv, LogSound, LogRecords
  <2>2. n.read \in Nat /\ wiz[w].read \in Nat
    BY DEF PairingIInv, WizardsSound, WizardSound, WizardRecords
  <2>3. ASSUME log.of # NoWizard
        PROVE  wiz'[log.of].at # "none" /\ log.written <= wiz'[log.of].read
    <3>1. log.of \in Wizards
      BY <2>1, <2>3, PairingAssumption DEF Wizards, NoWizard
    <3>2. wiz[log.of].at # "none" /\ log.written <= wiz[log.of].read
      BY <2>1, <2>3 DEF LogSound
    <3> QED BY <1>1, <2>1, <2>2, <3>1, <3>2
  <2> QED BY <1>3, <2>1, <2>3 DEF LogSound
<1> QED BY <1>2, <1>3

LEMMA PrintsPreserves ==
  ASSUME PairingIInv, NEW w \in Wizards,
         NEW said \in Sayings, NEW next \in {"run", "asked", "scan", "over"},
         Prints(w, said, next), creds' \in Credentials,
         UNCHANGED <<url, dataDir, stored, log, pid, session, gw, panel, faults>>
  PROVE  PairingIInv'
<1> DEFINE n == wiz[w]
           m == [n EXCEPT !.out = n.out \o said, !.step = next]
<1>1. WizardSound(n) /\ n.read \in Nat
  BY DEF PairingIInv, WizardsSound, WizardSound, WizardRecords
<1>2. WizardSound(m) /\ m.at = n.at /\ m.life = n.life /\ m.read = n.read
  BY <1>1, Says
<1>3. wiz' = [wiz EXCEPT ![w] = m]
  BY <1>1 DEF Prints, PairingIInv, WizardsSound, WizardSound, WizardRecords
<1> HIDE DEF m
<1>4. WizardsSound'
  BY <1>2, <1>3, OneWizardChanges
<1>o. Owned' /\ LogSound'
  <2>1. m.read >= wiz[w].read /\ m.at = wiz[w].at /\ m.life = wiz[w].life
    BY <1>1, <1>2
  <2> QED BY <1>2, <1>3, <2>1, StillOwned
<1>5. WorldType' /\ (panel \in [Panels -> PanelRecords])'
  BY DEF PairingIInv, WorldType
<1> QED BY <1>4, <1>o, <1>5 DEF PairingIInv

LEMMA WizardsAreCredentials == Wizards \subseteq Credentials /\ NoSession \in Credentials
BY PairingAssumption DEF Wizards, Credentials, NoSession

LEMMA WizardSpeaks ==
  ASSUME PairingIInv, NEW w \in Wizards,
         AskOther(w) \/ AskRePair(w) \/ Hear(w) \/ PrintQr(w) \/ Scan(w) \/ GiveUp(w)
  PROVE  PairingIInv'
<1>0. creds \in Credentials /\ w \in Credentials /\ NoSession \in Credentials
  BY WizardsAreCredentials DEF PairingIInv, WorldType
<1>1. UNCHANGED <<url, dataDir, stored, log, pid, session, gw, panel, faults>> /\ creds' \in Credentials
  BY <1>0 DEF AskOther, AskRePair, Hear, PrintQr, Scan, GiveUp
<1>2. \E said \in Sayings, next \in {"run", "asked", "scan", "over"} : Prints(w, said, next)
  <2>1. CASE AskOther(w) \/ AskRePair(w)
    BY <2>1 DEF AskOther, AskRePair, Sayings
  <2>2. CASE Hear(w)
    BY <2>2 DEF Hear, Sayings
  <2>3. CASE PrintQr(w) \/ Scan(w) \/ GiveUp(w)
    BY <2>3 DEF PrintQr, Scan, GiveUp, Sayings
  <2> QED BY <2>1, <2>2, <2>3
<1> QED BY <1>1, <1>2, PrintsPreserves

LEMMA EndsPreserves ==
  ASSUME PairingIInv, NEW w \in Wizards, Exit(w) \/ Killed(w)
  PROVE  PairingIInv'
<1>0. PICK how \in {"exited", "killed"} : Ends(w, how)
  BY DEF Exit, Killed
<1> DEFINE n == wiz[w]
           m == [n EXCEPT !.life = how]
<1>1. WizardSound(n) /\ n.read \in Nat /\ n \in WizardRecords /\ Alive(w)
  BY <1>0 DEF PairingIInv, WizardsSound, WizardSound, WizardRecords, Ends
<1>2. /\ m \in WizardRecords /\ m.at = n.at /\ m.read = n.read /\ m.out = n.out /\ m.got = n.got
      /\ m.life # "alive"
  BY <1>1 DEF WizardRecords
<1>3. wiz' = [wiz EXCEPT ![w] = m]
  BY <1>0 DEF Ends
<1>s. UNCHANGED <<log, session>> /\ (pid' = pid \/ (wiz[w].at = "host" /\ pid' = NoWizard))
  BY <1>0 DEF Ends
<1> HIDE DEF m
<1>4. WizardSound(m)
  BY <1>1, <1>2 DEF WizardSound
<1>5. WizardsSound' /\ wiz'[w] = m /\ \A v \in Wizards : v # w => wiz'[v] = wiz[v]
  BY <1>3, <1>4, OneWizardChanges
<1>6. Owned'
  <2> SUFFICES ASSUME NEW v \in Wizards, Alive(v)'
               PROVE  IF wiz'[v].at = "host" THEN pid' = v ELSE session' = v
    BY DEF Owned
  <2>1. v # w /\ wiz'[v] = wiz[v] /\ Alive(v)
    BY <1>2, <1>5 DEF Alive, Started
  <2>2. IF wiz[v].at = "host" THEN pid = v ELSE session = v
    BY <2>1 DEF PairingIInv, Owned
  <2>3. wiz[w].at = "host" => pid = w
    BY <1>1 DEF PairingIInv, Owned
  <2> QED BY <1>s, <2>1, <2>2, <2>3
<1>7. LogSound'
  <2>1. \A v \in Wizards : wiz'[v].at = wiz[v].at /\ wiz'[v].read = wiz[v].read
    BY <1>2, <1>5
  <2>2. log.of \in 0 .. N
    BY DEF PairingIInv, LogSound, LogRecords
  <2>3. log.of # NoWizard => log.of \in Wizards
    BY <2>2, PairingAssumption DEF Wizards, NoWizard
  <2> QED BY <1>s, <2>1, <2>3 DEF PairingIInv, LogSound
<1>8. WorldType' /\ (panel \in [Panels -> PanelRecords])'
  <2>1. faults' \in 0 .. MaxFaults
    <3>1. MaxFaults \in Nat
      BY PairingAssumption
    <3> QED BY <3>1 DEF PairingIInv, WorldType, Exit, Killed
  <2>2. pid' \in 0 .. N
    BY <1>s, PairingAssumption DEF PairingIInv, WorldType, NoWizard
  <2> QED BY <1>0, <2>1, <2>2 DEF PairingIInv, WorldType, Ends
<1> QED BY <1>5, <1>6, <1>7, <1>8 DEF PairingIInv

-----------------------------------------------------------------------------
(* The next answers, in the places of the next questions.                   *)
LEMMA NextAnswers ==
  ASSUME NEW got \in Seq(Words), NEW k \in Nat, NEW answers \in [1 .. k -> Words],
         NEW upto \in Nat, upto <= k, Len(got) < upto
  PROVE  LET more == got \o SubSeq(answers, Len(got) + 1, upto)
         IN  /\ more \in Seq(Words) /\ Len(more) = upto
             /\ \A i \in 1 .. Len(got) : more[i] = got[i]
             /\ \A i \in Len(got) + 1 .. upto : more[i] = answers[i]
<1> DEFINE g == Len(got)
           part == SubSeq(answers, g + 1, upto)
           W == Words
<1>0. g \in Nat /\ got \in Seq(W)
  OBVIOUS
<1>1. answers \in Seq(W) /\ Len(answers) = k
  <2>1. answers \in [1 .. k -> W] /\ k \in Nat
    OBVIOUS
  <2> HIDE DEF W
  <2> QED BY <2>1
<1> HIDE DEF W
<1>2. g + 1 \in 1 .. k + 1 /\ upto \in 0 .. k
  BY <1>0
<1>3. \A i \in g + 1 .. upto : answers[i] \in W
  BY <1>0, <1>2 DEF W
<1>4. /\ part \in Seq(W) /\ Len(part) = upto - g /\ upto - g \in Nat
      /\ \A i \in 1 .. upto - g : part[i] = answers[i + g]
  <2>1. /\ part \in Seq(W) /\ Len(part) = IF g + 1 <= upto THEN upto - (g + 1) + 1 ELSE 0
        /\ \A i \in 1 .. upto - (g + 1) + 1 : part[i] = answers[g + 1 + i - 1]
    BY <1>0, <1>3, SubSeqProperties
  <2>2. upto - (g + 1) + 1 = upto - g /\ g + 1 <= upto /\ upto - g \in Nat
    BY <1>0
  <2>3. \A i \in 1 .. upto - g : g + 1 + i - 1 = i + g
    BY <1>0
  <2> HIDE DEF part, g
  <2> QED BY <2>1, <2>2, <2>3
<1> HIDE DEF part
<1>5. /\ got \o part \in Seq(W) /\ Len(got \o part) = upto
      /\ \A i \in 1 .. g : (got \o part)[i] = got[i]
      /\ \A i \in 1 .. upto - g : (got \o part)[g + i] = part[i]
  <2>1. /\ got \o part \in Seq(W) /\ Len(got \o part) = g + Len(part)
        /\ \A i \in 1 .. g : (got \o part)[i] = got[i]
        /\ \A i \in 1 .. Len(part) : (got \o part)[g + i] = part[i]
    BY <1>0, <1>4
  <2> QED BY <1>0, <1>4, <2>1
<1>6. ASSUME NEW i \in g + 1 .. upto PROVE (got \o part)[i] = answers[i]
  <2>1. i - g \in 1 .. upto - g /\ g + (i - g) = i /\ (i - g) + g = i
    BY <1>0, <1>6
  <2> QED BY <1>4, <1>5, <2>1
<1> QED BY <1>5, <1>6 DEF part, g, W

LEMMA Answered ==
  ASSUME NEW n, WizardSound(n), NEW to \in n.read + 1 .. Len(n.out),
         NEW from, NEW answers \in AnswersFor(SubSeq(n.out, 1, to), from),
         NEW upto \in Nat, upto <= Len(answers), Len(n.got) < upto
  PROVE  LET more == n.got \o SubSeq(answers, Len(n.got) + 1, upto)
         IN  more \in Seq(Words) /\ ToldInPlace(n.out, more)
<1> DEFINE out == n.out
           got == n.got
           seen == SubSeq(out, 1, to)
           k == Cardinality(QuestionEnds(seen))
           more == got \o SubSeq(answers, Len(got) + 1, upto)
<1>1. /\ out \in Seq(Pieces) /\ got \in Seq(Words) /\ AsksInOne(out) /\ ToldInPlace(out, got)
      /\ n.read \in Nat
  BY DEF WizardSound, WizardRecords
<1>2. to \in 0 .. Len(out) /\ Len(out) \in Nat
  BY <1>1
<1> HIDE DEF out, got
<1>3. /\ seen \in Seq(Pieces) /\ Len(seen) = to /\ \A i \in 1 .. to : seen[i] = out[i]
  BY <1>1, <1>2
<1>p. Len(seen) <= Len(out) /\ \A i \in 1 .. Len(seen) : out[i] = seen[i]
  BY <1>2, <1>3
<1>4. /\ answers \in [1 .. k -> Words]
      /\ \A i \in QuestionEnds(seen) : answers[Place(seen, i)] = AnswerAt(seen, i)
  BY DEF AnswersFor, out, seen
<1> HIDE DEF seen
<1>5. k \in Nat /\ k <= Cardinality(QuestionEnds(out)) /\ Cardinality(QuestionEnds(out)) \in Nat
  BY <1>1, <1>2, <1>3, PlacesNumber, PlacesStay
<1>6. Len(answers) = k
  BY <1>4, <1>5
<1>7. upto <= k /\ Len(got) < upto /\ Len(got) \in Nat
  BY <1>1, <1>6 DEF got
<1> HIDE DEF k
<1>8. /\ more \in Seq(Words) /\ Len(more) = upto
      /\ \A i \in 1 .. Len(got) : more[i] = got[i]
      /\ \A i \in Len(got) + 1 .. upto : more[i] = answers[i]
  BY <1>1, <1>4, <1>5, <1>7, NextAnswers
<1> HIDE DEF more
<1>9. ASSUME NEW i \in QuestionEnds(out), Place(out, i) <= upto
      PROVE  more[Place(out, i)] = (IF out[i - 1] = "repair" THEN Yes ELSE Default)
  <2>1. Place(out, i) \in 1 .. upto
    BY <1>1, <1>9, PlacesNumber
  <2>2. CASE Place(out, i) <= Len(got)
    <3>1. more[Place(out, i)] = got[Place(out, i)]
      BY <1>7, <1>8, <2>1, <2>2
    <3> QED BY <1>1, <2>2, <3>1 DEF ToldInPlace
  <2>3. CASE Place(out, i) > Len(got)
    <3>1. i \in QuestionEnds(seen)
      <4> SUFFICES ASSUME i \notin QuestionEnds(seen) PROVE FALSE
        OBVIOUS
      <4>0. i \in QuestionEnds(out) \ QuestionEnds(seen)
        BY <1>9
      <4>1. Place(out, i) > k
        BY <1>1, <1>3, <1>p, <1>9, <4>0, PlacesStay DEF k
      <4> QED BY <1>5, <1>7, <2>1, <4>1
    <3>2. Place(seen, i) = Place(out, i)
      BY <1>1, <1>3, <1>p, <3>1, PlacesStay
    <3>3. more[Place(out, i)] = AnswerAt(seen, i)
      BY <1>4, <1>7, <1>8, <2>1, <2>3, <3>1, <3>2
    <3>4. AnswerAt(seen, i) = (IF out[i - 1] = "repair" THEN Yes ELSE Default)
      BY <1>1, <1>3, <1>p, <3>1, AnswerIsRight
    <3> QED BY <3>3, <3>4
  <2> QED BY <1>7, <2>1, <2>2, <2>3
<1>10. Len(more) <= Cardinality(QuestionEnds(out))
  BY <1>5, <1>7, <1>8
<1> QED BY <1>8, <1>9, <1>10 DEF ToldInPlace, more, out, got

LEMMA OnDataPreserves ==
  ASSUME PairingIInv, NEW w \in Wizards, OnData(w)
  PROVE  PairingIInv'
<1> DEFINE n == wiz[w]
           given == Len(n.got)
           loads(to) == Loads(w, SubSeq(n.out, 1, to))
           upto(answers) == IF Len(answers) < MaxAnswers THEN Len(answers) ELSE MaxAnswers
           got(answers) == IF given < upto(answers) THEN n.got \o SubSeq(answers, given + 1, upto(answers)) ELSE n.got
           m(to, answers) == [n EXCEPT !.read = to, !.got = got(answers), !.loaded = @ \/ loads(to)]
<1>1. /\ WizardSound(n) /\ n \in WizardRecords /\ n.read \in Nat /\ Len(n.out) \in Nat /\ given \in Nat
      /\ n.got \in Seq(Words)
  BY DEF PairingIInv, WizardsSound, WizardSound, WizardRecords
<1>2. PICK to \in n.read + 1 .. Len(n.out) :
        \E answers \in AnswersFor(SubSeq(n.out, 1, to), n.read) :
          /\ wiz' = [wiz EXCEPT ![w].read = to,
                                ![w].got = IF given < upto(answers) THEN @ \o SubSeq(answers, given + 1, upto(answers)) ELSE @,
                                ![w].loaded = @ \/ loads(to)]
          /\ log' = IF wiz[w].at = "host" /\ log.of = w /\ Alive(w) THEN [log EXCEPT !.written = to] ELSE log
          /\ gw' = IF loads(to) THEN [state |-> "connecting", holds |-> creds] ELSE gw
  BY DEF OnData
<1>3. PICK answers \in AnswersFor(SubSeq(n.out, 1, to), n.read) :
          /\ wiz' = [wiz EXCEPT ![w].read = to,
                                ![w].got = IF given < upto(answers) THEN @ \o SubSeq(answers, given + 1, upto(answers)) ELSE @,
                                ![w].loaded = @ \/ loads(to)]
          /\ log' = IF wiz[w].at = "host" /\ log.of = w /\ Alive(w) THEN [log EXCEPT !.written = to] ELSE log
          /\ gw' = IF loads(to) THEN [state |-> "connecting", holds |-> creds] ELSE gw
  BY <1>2
<1> DEFINE k == m(to, answers)
<1>4. wiz' = [wiz EXCEPT ![w] = k]
  BY <1>3
<1>5. Len(answers) \in Nat
  <2>1. SubSeq(n.out, 1, to) \in Seq(Pieces)
    BY <1>1 DEF WizardRecords
  <2>2. Cardinality(QuestionEnds(SubSeq(n.out, 1, to))) \in Nat
    BY <2>1, PlacesNumber
  <2> QED BY <2>2 DEF AnswersFor
<1>6. upto(answers) \in Nat /\ upto(answers) <= Len(answers)
  BY <1>5, PairingAssumption
<1>7. got(answers) \in Seq(Words) /\ ToldInPlace(n.out, got(answers))
  <2>1. CASE given < upto(answers)
    <3> HIDE DEF n, upto
    <3> QED BY <1>1, <1>2, <1>6, <2>1, Answered
  <2>2. CASE ~(given < upto(answers))
    BY <1>1, <2>2 DEF WizardSound
  <2> QED BY <2>1, <2>2
<1>8. loads(to) \in BOOLEAN /\ n.loaded \in BOOLEAN
  BY <1>1 DEF Loads, WizardRecords
<1>9. to \in Nat /\ to <= Len(n.out) /\ to > n.read
  BY <1>1
<1> HIDE DEF got, loads, upto
<1>10. /\ k \in WizardRecords /\ k.read = to /\ k.out = n.out /\ k.got = got(answers)
       /\ k.at = n.at /\ k.life = n.life
  <2> DEFINE A == Seq(Words)
  <2>1. got(answers) \in A /\ (n.loaded \/ loads(to)) \in BOOLEAN
    BY <1>7, <1>8
  <2>2. n \in [at : {"none", "host", "service"}, step : {"run", "asked", "scan", "over"},
               out : Seq(Pieces), got : A, life : {"alive", "exited", "killed"},
               read : Nat, handled : BOOLEAN, loaded : BOOLEAN]
    BY <1>1 DEF WizardRecords
  <2> HIDE DEF A, n
  <2> QED BY <1>9, <2>1, <2>2 DEF WizardRecords, A
<1>11. WizardSound(k)
  <2> HIDE DEF k
  <2> QED BY <1>1, <1>7, <1>9, <1>10 DEF WizardSound
<1>12. UNCHANGED <<url, dataDir, stored, pid, session, creds, panel, faults>>
  BY DEF OnData
<1> HIDE DEF k
<1>13. WizardsSound' /\ wiz'[w] = k /\ \A v \in Wizards : v # w => wiz'[v] = wiz[v]
  BY <1>4, <1>11, OneWizardChanges
<1>14. k.at = wiz[w].at /\ k.life = wiz[w].life /\ k.read >= wiz[w].read
  BY <1>1, <1>9, <1>10
<1>15. Owned' /\ (UNCHANGED log => LogSound')
  BY <1>4, <1>11, <1>12, <1>14, StillOwned
<1>16. LogSound'
  <2>1. CASE log' = [log EXCEPT !.written = to] /\ log.of = w
    <3>1. log \in LogRecords /\ log.onDisk <= log.written /\ log.written <= n.read /\ n.at # "none"
      BY <2>1, PairingAssumption DEF PairingIInv, LogSound, NoWizard, Wizards
    <3>2. /\ log' \in LogRecords /\ log'.written = to /\ log'.onDisk = log.onDisk /\ log'.of = w
          /\ log.onDisk \in Nat /\ log.written \in Nat
      BY <1>9, <2>1, <3>1 DEF LogRecords
    <3>3. log.onDisk <= to
      BY <1>1, <1>9, <3>1, <3>2
    <3>4. wiz'[w].at # "none" /\ wiz'[w].read = to /\ w # NoWizard
      BY <1>10, <1>13, <3>1, PairingAssumption DEF Wizards, NoWizard
    <3>5. to <= to
      BY <1>9
    <3> QED BY <3>2, <3>3, <3>4, <3>5 DEF LogSound
  <2> QED BY <1>3, <1>15, <2>1
<1>17. WorldType'
  <2>1. gw' \in [state : {"connected", "connecting", "unpaired", "fatal"}, holds : Credentials]
    BY <1>3 DEF PairingIInv, WorldType
  <2> QED BY <1>12, <2>1 DEF PairingIInv, WorldType
<1>18. (panel \in [Panels -> PanelRecords])'
  BY <1>12 DEF PairingIInv
<1> QED BY <1>13, <1>15, <1>16, <1>17, <1>18 DEF PairingIInv

-----------------------------------------------------------------------------
LEMMA WizardsStay ==
  ASSUME PairingIInv, UNCHANGED wiz
  PROVE  /\ WizardsSound' /\ (UNCHANGED log => LogSound') /\ (UNCHANGED <<pid, session>> => Owned')
<1>1. WizardsSound'
  BY DEF PairingIInv, WizardsSound
<1>2. UNCHANGED log => LogSound'
  BY DEF PairingIInv, LogSound
<1>3. UNCHANGED <<pid, session>> => Owned'
  BY DEF PairingIInv, Owned, Alive, Started
<1> QED BY <1>1, <1>2, <1>3

LEMMA FaultsStayBounded ==
  ASSUME PairingIInv, UNCHANGED faults \/ (faults < MaxFaults /\ faults' = faults + 1)
  PROVE  faults' \in 0 .. MaxFaults
<1>1. MaxFaults \in Nat /\ faults \in 0 .. MaxFaults
  BY PairingAssumption DEF PairingIInv, WorldType
<1> QED BY <1>1

LEMMA HousekeepingPreserves ==
  ASSUME PairingIInv, Flush \/ GoesQuiet \/ GatewayStep \/ GatewayDrops
  PROVE  PairingIInv'
<1>1. UNCHANGED <<url, dataDir, stored, wiz, pid, session, creds, panel, faults>>
  BY DEF Flush, GoesQuiet, GatewayStep, GatewayDrops
<1>2. LogSound'
  <2>1. LogSound /\ log \in LogRecords
    BY DEF PairingIInv, LogSound
  <2>2. CASE log' = [log EXCEPT !.onDisk = log.written]
    <3>1. log' \in LogRecords /\ log'.of = log.of /\ log'.written = log.written /\ log'.onDisk = log.written
      BY <2>1, <2>2 DEF LogRecords
    <3>2. log.written <= log.written
      BY <2>1 DEF LogRecords
    <3> QED BY <1>1, <2>1, <3>1, <3>2 DEF LogSound
  <2>3. CASE log' = [log EXCEPT !.old = TRUE]
    <3>1. log' \in LogRecords /\ log'.of = log.of /\ log'.written = log.written /\ log'.onDisk = log.onDisk
      BY <2>1, <2>3 DEF LogRecords
    <3> QED BY <1>1, <2>1, <3>1 DEF LogSound
  <2>4. CASE UNCHANGED log
    BY <1>1, <2>4, WizardsStay
  <2> QED BY <2>2, <2>3, <2>4 DEF Flush, GoesQuiet, GatewayStep, GatewayDrops
<1>3. WorldType'
  <2>1. gw \in [state : {"connected", "connecting", "unpaired", "fatal"}, holds : Credentials]
    BY DEF PairingIInv, WorldType
  <2>2. gw' \in [state : {"connected", "connecting", "unpaired", "fatal"}, holds : Credentials]
    BY <2>1 DEF Flush, GoesQuiet, GatewayStep, GatewayDrops
  <2> QED BY <1>1, <2>2 DEF PairingIInv, WorldType
<1> QED BY <1>1, <1>2, <1>3, WizardsStay DEF PairingIInv

(* A restart changes who listens to a wizard, or ends it; never what it said. *)
LEMMA RestartedSound ==
  ASSUME NEW n, WizardSound(n), NEW h \in BOOLEAN, NEW l \in {"alive", "exited", "killed"}
  PROVE  LET m == [n EXCEPT !.handled = h, !.life = l]
         IN  /\ WizardSound(m) /\ m.at = n.at /\ m.life = l /\ m.read = n.read
<1> DEFINE m == [n EXCEPT !.handled = h, !.life = l]
<1>1. n \in WizardRecords
  BY DEF WizardSound
<1>2. /\ m \in WizardRecords /\ m.at = n.at /\ m.read = n.read /\ m.out = n.out /\ m.got = n.got
      /\ m.life = l
  BY <1>1 DEF WizardRecords
<1> HIDE DEF m
<1>3. WizardSound(m)
  BY <1>2 DEF WizardSound
<1> QED BY <1>2, <1>3 DEF m

LEMMA RestartPreserves ==
  ASSUME PairingIInv, ConsoleRestart \/ HermesRestart
  PROVE  PairingIInv'
<1> DEFINE sound(w) == WizardSound(wiz'[w]) /\ wiz'[w].at = wiz[w].at /\ wiz'[w].read = wiz[w].read
<1>0. \A w \in Wizards : WizardSound(wiz[w]) /\ wiz[w] \in WizardRecords
  BY DEF PairingIInv, WizardsSound, WizardSound
<1>1. ASSUME NEW w \in Wizards
      PROVE  /\ sound(w)
             /\ wiz'[w].life = wiz[w].life
                \/ (HermesRestart /\ wiz[w].at = "service" /\ wiz'[w].life # "alive")
  <2> DEFINE n == wiz[w]
  <2>0. WizardSound(n) /\ n.handled \in BOOLEAN /\ n.life \in {"alive", "exited", "killed"}
    BY <1>0 DEF WizardRecords
  <2>1. CASE ConsoleRestart
    <3>1. PICK h \in BOOLEAN : wiz'[w] = [n EXCEPT !.handled = h, !.life = n.life]
      <4>1. (n.handled /\ n.at # "host") \in BOOLEAN
        BY <2>0
      <4>2. wiz'[w] = [n EXCEPT !.handled = n.handled /\ n.at # "host", !.life = n.life]
        BY <1>0, <2>1 DEF ConsoleRestart, WizardRecords
      <4> QED BY <4>1, <4>2
    <3> DEFINE l == n.life
               m == [n EXCEPT !.handled = h, !.life = l]
    <3>2. l \in {"alive", "exited", "killed"} /\ h \in BOOLEAN
      BY <2>0
    <3>w. wiz'[w] = m
      BY <3>1
    <3>n. n \in WizardRecords
      BY <1>0
    <3> HIDE DEF l, n
    <3>r. m \in WizardRecords
      BY <3>2, <3>n DEF WizardRecords
    <3>f. m.at = n.at /\ m.life = l /\ m.read = n.read /\ m.out = n.out /\ m.got = n.got
      BY <3>n DEF WizardRecords
    <3> HIDE DEF m
    <3>m. WizardSound(m)
      BY <2>0, <3>r, <3>f DEF WizardSound
    <3> HIDE DEF m
    <3>3. /\ WizardSound(wiz'[w]) /\ wiz'[w].at = n.at /\ wiz'[w].life = l
          /\ wiz'[w].read = n.read
      BY <3>m, <3>f, <3>w
    <3> QED BY <3>3 DEF n, l
  <2>2. CASE HermesRestart /\ n.at = "service"
    <3> DEFINE l == IF n.life = "alive" THEN "killed" ELSE n.life
    <3>1. wiz'[w] = [n EXCEPT !.handled = FALSE, !.life = l]
      BY <2>2 DEF HermesRestart
    <3>2. l \in {"alive", "exited", "killed"} /\ l # "alive" /\ FALSE \in BOOLEAN
      BY <2>0
    <3> DEFINE m == [n EXCEPT !.handled = FALSE, !.life = l]
    <3> HIDE DEF l, n
    <3>m. WizardSound(m) /\ m.at = n.at /\ m.life = l /\ m.read = n.read
      BY <2>0, <3>2, RestartedSound
    <3>w. wiz'[w] = m
      BY <3>1
    <3> HIDE DEF m
    <3>3. /\ WizardSound(wiz'[w]) /\ wiz'[w].at = n.at /\ wiz'[w].life = l
          /\ wiz'[w].read = n.read
      BY <3>m, <3>w
    <3> QED BY <2>2, <3>2, <3>3 DEF n
  <2>3. CASE HermesRestart /\ n.at # "service"
    <3>1. wiz'[w] = n
      BY <2>3 DEF HermesRestart
    <3> QED BY <2>0, <3>1
  <2> QED BY <2>1, <2>2, <2>3
<1>2. WizardsSound'
  <2>1. wiz' = [w \in Wizards |-> wiz'[w]]
    BY DEF ConsoleRestart, HermesRestart
  <2> QED BY <1>1, <2>1 DEF WizardsSound
<1>3. Owned'
  <2> SUFFICES ASSUME NEW w \in Wizards, Alive(w)'
               PROVE  IF wiz'[w].at = "host" THEN pid' = w ELSE session' = w
    BY DEF Owned
  <2>1. Alive(w) /\ wiz'[w].life = wiz[w].life /\ wiz'[w].at = wiz[w].at /\ wiz[w].at # "none"
    BY <1>1 DEF Alive, Started
  <2>2. IF wiz[w].at = "host" THEN pid = w ELSE session = w
    BY <2>1 DEF PairingIInv, Owned
  <2>3. CASE ConsoleRestart
    BY <2>1, <2>2, <2>3 DEF ConsoleRestart
  <2>4. CASE HermesRestart
    <3>1. wiz[w].at # "service"
      <4> SUFFICES ASSUME wiz[w].at = "service" PROVE FALSE
        OBVIOUS
      <4>1. wiz'[w] = [wiz[w] EXCEPT !.handled = FALSE, !.life = IF @ = "alive" THEN "killed" ELSE @]
        BY <2>4 DEF HermesRestart
      <4>2. wiz'[w].life # "alive"
        BY <1>0, <4>1 DEF WizardRecords
      <4> QED BY <4>2 DEF Alive
    <3>2. wiz[w].at = "host"
      BY <1>0, <2>1, <3>1 DEF WizardRecords
    <3> QED BY <2>1, <2>2, <2>4, <3>2 DEF HermesRestart
  <2> QED BY <2>3, <2>4
<1>4. LogSound'
  <2>1. LogSound /\ log \in LogRecords /\ (log.of # NoWizard => log.of \in Wizards)
    BY PairingAssumption DEF PairingIInv, LogSound, LogRecords, Wizards, NoWizard
  <2>2. \A w \in Wizards :
          wiz'[w].at = wiz[w].at /\ wiz'[w].read = wiz[w].read /\ wiz[w].read \in Nat
    BY <1>0, <1>1 DEF WizardRecords
  <2>3. CASE ConsoleRestart
    <3>1. log' = [log EXCEPT !.written = log.onDisk]
      BY <2>3 DEF ConsoleRestart
    <3>2. /\ log' \in LogRecords /\ log'.of = log.of /\ log'.written = log.onDisk /\ log'.onDisk = log.onDisk
          /\ log.onDisk \in Nat /\ log.written \in Nat
      BY <2>1, <3>1 DEF LogRecords
    <3>3. log.of # NoWizard => wiz'[log.of].at # "none" /\ log.onDisk <= wiz'[log.of].read
      BY <2>1, <2>2, <3>2 DEF LogSound
    <3> QED BY <3>2, <3>3 DEF LogSound
  <2>4. CASE UNCHANGED log
    BY <2>1, <2>2, <2>4 DEF LogSound
  <2> QED BY <2>3, <2>4 DEF HermesRestart
<1>5. WorldType'
  <2>1. faults' \in 0 .. MaxFaults
    BY FaultsStayBounded DEF ConsoleRestart, HermesRestart
  <2>2. gw' \in [state : {"connected", "connecting", "unpaired", "fatal"}, holds : Credentials]
    <3>1. gw \in [state : {"connected", "connecting", "unpaired", "fatal"}, holds : Credentials]
          /\ creds \in Credentials
      BY DEF PairingIInv, WorldType
    <3>2. CASE gw' = [state |-> "connecting", holds |-> creds]
      BY <3>1, <3>2
    <3> QED BY <3>1, <3>2 DEF ConsoleRestart, HermesRestart
  <2>3. session' \in 0 .. N
    <3>1. session' = session \/ session' = 0
      BY DEF ConsoleRestart, HermesRestart, NoWizard
    <3> QED BY <3>1, PairingAssumption DEF PairingIInv, WorldType
  <2> QED BY <2>1, <2>2, <2>3 DEF ConsoleRestart, HermesRestart, PairingIInv, WorldType
<1>6. (panel \in [Panels -> PanelRecords])'
  <2>1. Idle \in [kind : {"idle", "check", "pair", "late", "answer"}, got : DOMAIN Overlay]
    BY DEF Idle, Overlay
  <2>2. panel \in [Panels -> PanelRecords]
    BY DEF PairingIInv
  <2>3. \A p \in Panels : [panel[p] EXCEPT !.req = Idle] \in PanelRecords
    BY <2>1, <2>2 DEF PanelRecords
  <2> QED BY <2>2, <2>3 DEF ConsoleRestart, HermesRestart
<1> QED BY <1>2, <1>3, <1>4, <1>5, <1>6 DEF PairingIInv

-----------------------------------------------------------------------------
(* The console.                                                             *)
Heard == DOMAIN Overlay

LEMMA HeardWords ==
  /\ Heard = {"null", "starting", "awaiting_scan", "paired", "failed"}
  /\ \A a \in Heard : Overlay[a] \in Statuses \cup {"null"}
<1>1. Heard = {"null", "starting", "awaiting_scan", "paired", "failed"}
  BY DEF Heard, Overlay
<1>2. /\ Overlay["null"] = "null" /\ Overlay["starting"] = "pairing" /\ Overlay["awaiting_scan"] = "pairing"
      /\ Overlay["paired"] = "connected" /\ Overlay["failed"] = "error"
  BY DEF Overlay
<1> QED BY <1>1, <1>2 DEF Statuses

LEMMA StatusWords ==
  ASSUME NEW s, NEW running
  PROVE  StatusOf(s, running) \in Heard
<1>1. StatusOf(s, running) \in {"paired", "awaiting_scan", "failed", "starting"}
  BY Zenon DEF StatusOf
<1> QED BY <1>1, HeardWords

LEMMA PairingIsHeard == ReadHermesPairing \in Heard /\ ServiceState \in Heard
<1>1. "null" \in Heard /\ "failed" \in Heard /\ "starting" \in Heard
  BY HeardWords
<1>2. ReadHermesPairing \in Heard
  BY <1>1, StatusWords DEF ReadHermesPairing
<1>3. ServiceState \in Heard
  BY Zenon, <1>1, StatusWords DEF ServiceState
<1> QED BY <1>2, <1>3

(* Something is always shown: the row speaks when nothing else does.        *)
LEMMA SnapshotShows ==
  ASSUME stored \in StoredStatus, NEW a \in Heard, NEW b \in Statuses \cup {"null"}
  PROVE  Snapshot(a, b) \in Statuses
<1>1. GatewayFile \in Statuses \cup {"null"}
  <2>1. GatewayFile \in {"null", "connected", "pairing", "error", "disconnected"}
    BY Zenon DEF GatewayFile
  <2> QED BY <2>1 DEF Statuses
<1>2. stored \in Statuses \ {"null"} /\ Overlay[a] \in Statuses \cup {"null"}
  BY HeardWords, PairingAssumption DEF Statuses
<1> DEFINE o == Overlay[a]
           f == GatewayFile
           answers == <<o, b, f, stored>>
           first(i) == answers[i] # "null" /\ \A j \in 1 .. i - 1 : answers[j] = "null"
<1>3. answers[1] = o /\ answers[2] = b /\ answers[3] = f /\ answers[4] = stored
  OBVIOUS
<1>4. \A i \in 1 .. 4 : answers[i] \in Statuses \cup {"null"}
  <2> HIDE DEF answers
  <2> QED BY <1>1, <1>2, <1>3
<1>5. \E i \in 1 .. 4 : first(i)
  <2> HIDE DEF answers
  <2>1. answers[4] # "null"
    BY <1>2, <1>3
  <2>2. CASE answers[1] # "null"
    BY <2>2
  <2>3. CASE answers[1] = "null" /\ answers[2] # "null"
    <3>1. first(2)
      BY <2>3
    <3> QED BY <3>1
  <2>4. CASE answers[1] = "null" /\ answers[2] = "null" /\ answers[3] # "null"
    <3>1. first(3)
      BY <2>4
    <3> QED BY <3>1
  <2>5. CASE answers[1] = "null" /\ answers[2] = "null" /\ answers[3] = "null"
    <3>1. first(4)
      BY <2>1, <2>5
    <3> QED BY <3>1
  <2> QED BY <2>2, <2>3, <2>4, <2>5
<1>6. Snapshot(a, b) = answers[CHOOSE i \in 1 .. 4 : first(i)]
  BY DEF Snapshot
<1> HIDE DEF answers
<1> QED BY <1>4, <1>5, <1>6

LEMMA GatewayWords == \A r \in BOOLEAN : GatewayHttp(r) \in Statuses \cup {"null"}
<1> SUFFICES ASSUME NEW r \in BOOLEAN PROVE GatewayHttp(r) \in Statuses \cup {"null"}
  OBVIOUS
<1>1. GatewayHttp(r) \in {"null", "connected", "pairing", "disconnected"}
  BY Zenon DEF GatewayHttp
<1> QED BY <1>1 DEF Statuses

Kinds == {"idle", "check", "pair", "late", "answer"}

(* A panel's request moves on, or is answered.                              *)
LEMMA PanelMoves ==
  ASSUME panel \in [Panels -> PanelRecords], NEW p \in Panels,
         \/ \E k \in Kinds, g \in Heard : panel' = [panel EXCEPT ![p].req = [kind |-> k, got |-> g]]
         \/ \E st \in Statuses : panel' = [panel EXCEPT ![p] = [status |-> st, req |-> Idle]]
  PROVE  (panel \in [Panels -> PanelRecords])'
<1> DEFINE R == [kind : Kinds, got : Heard]
<1>0. PanelRecords = [status : Statuses, req : R]
  BY DEF PanelRecords, Kinds, Heard
<1>1. Idle \in R
  BY HeardWords DEF Idle, Kinds
<1>2. ASSUME NEW k \in Kinds, NEW g \in Heard, panel' = [panel EXCEPT ![p].req = [kind |-> k, got |-> g]]
      PROVE  panel' \in [Panels -> PanelRecords]
  <2>1. [kind |-> k, got |-> g] \in R
    OBVIOUS
  <2> HIDE DEF R
  <2> QED BY <1>0, <1>2, <2>1
<1> HIDE DEF R
<1>3. ASSUME NEW st \in Statuses, panel' = [panel EXCEPT ![p] = [status |-> st, req |-> Idle]]
      PROVE  panel' \in [Panels -> PanelRecords]
  BY <1>0, <1>1, <1>3
<1> QED BY <1>2, <1>3

LEMMA AsksPreserves ==
  ASSUME PairingIInv, NEW p \in Panels,
         \/ OpenPage(p) \/ Poll(p) \/ CheckNow(p) \/ PairAgain(p)
         \/ ReadPairing(p) \/ Answer(p) \/ RequestFails(p)
  PROVE  PairingIInv'
<1>1. UNCHANGED <<url, dataDir, stored, wiz, log, pid, session, creds, gw>>
  BY DEF OpenPage, Poll, CheckNow, PairAgain, Requests, ReadPairing, Answer, RequestFails
<1>2. faults' \in 0 .. MaxFaults
  BY FaultsStayBounded DEF OpenPage, Poll, CheckNow, PairAgain, Requests, ReadPairing, Answer,
     RequestFails, Reached, Lost
<1>3. panel \in [Panels -> PanelRecords] /\ stored \in StoredStatus
  BY DEF PairingIInv, WorldType
<1>4. (panel \in [Panels -> PanelRecords])'
  <2>1. CASE OpenPage(p) \/ Poll(p) \/ CheckNow(p) \/ PairAgain(p)
    <3>1. PICK k \in {"check", "pair"} : Requests(p, k)
      BY <2>1 DEF OpenPage, Poll, CheckNow, PairAgain
    <3> QED BY <1>3, <3>1, HeardWords, PanelMoves DEF Requests, Kinds
  <2>2. CASE ReadPairing(p)
    <3>1. PICK a \in Heard : Reads(p, a)
      BY <2>2, PairingIsHeard DEF ReadPairing
    <3> QED BY <1>3, <3>1, PanelMoves DEF Reads, Kinds
  <2>3. CASE Answer(p)
    <3>1. panel[p].req.got \in Heard
      BY <1>3 DEF PanelRecords, Heard
    <3>2. \A r \in BOOLEAN : Snapshot(panel[p].req.got, GatewayHttp(r)) \in Statuses
      BY <1>3, <3>1, GatewayWords, SnapshotShows
    <3>3. \E st \in Statuses : panel' = [panel EXCEPT ![p] = [status |-> st, req |-> Idle]]
      BY <2>3, <3>2 DEF Answer
    <3> QED BY <1>3, <3>3, PanelMoves
  <2>4. CASE RequestFails(p)
    <3>1. panel' = [panel EXCEPT ![p].req = [kind |-> "idle", got |-> "null"]]
      BY <2>4 DEF RequestFails, Idle
    <3> QED BY <1>3, <3>1, HeardWords, PanelMoves DEF Kinds
  <2> QED BY <2>1, <2>2, <2>3, <2>4
<1>5. WorldType'
  BY <1>1, <1>2 DEF PairingIInv, WorldType
<1> QED BY <1>1, <1>4, <1>5, WizardsStay DEF PairingIInv

(* A wizard just started has said nothing and owes no answer.               *)
LEMMA SpawnedSound ==
  ASSUME NEW place \in {"host", "service"}
  PROVE  /\ WizardSound(Spawned(place)) /\ Spawned(place).at = place /\ Spawned(place).life = "alive"
         /\ Spawned(place).read = 0 /\ WizardSound(Blank) /\ Blank.at = "none"
<1>1. <<>> \in Seq(Pieces) /\ <<>> \in Seq(Words) /\ DOMAIN <<>> = {} /\ Len(<<>>) = 0
  OBVIOUS
<1>2. QuestionEnds(<<>>) = {}
  BY <1>1 DEF QuestionEnds
<1>3. AsksInOne(<<>>) /\ ToldInPlace(<<>>, <<>>)
  BY <1>1, <1>2, FS_EmptySet DEF AsksInOne, ToldInPlace
<1>4. /\ Spawned(place) \in WizardRecords /\ Spawned(place).out = <<>> /\ Spawned(place).got = <<>>
      /\ Spawned(place).read = 0 /\ Spawned(place).at = place /\ Spawned(place).life = "alive"
      /\ Blank \in WizardRecords /\ Blank.out = <<>> /\ Blank.got = <<>>
      /\ Blank.read = 0 /\ Blank.at = "none"
  BY <1>1 DEF Spawned, Blank, WizardRecords
<1> QED BY <1>1, <1>3, <1>4 DEF WizardSound

(* A start leaves a wizard that is alive alone, and spawns one where none is. *)
LEMMA LocalStartPreserves ==
  ASSUME PairingIInv, NEW p \in Panels, StartsLocal(p), faults' \in 0 .. MaxFaults,
         UNCHANGED <<url, dataDir, stored, session, creds, gw>>
  PROVE  PairingIInv'
<1>1. panel \in [Panels -> PanelRecords] /\ WizardsSound /\ wiz = [w \in Wizards |-> wiz[w]]
  BY DEF PairingIInv, WizardsSound
<1>2. CASE IsRunning
  <2>1. UNCHANGED <<wiz, log, pid>> /\ Reads(p, StatusOf(Logged, TRUE))
    BY <1>2 DEF StartsLocal
  <2>2. (panel \in [Panels -> PanelRecords])'
    BY <1>1, <2>1, StatusWords, PanelMoves DEF Reads, Kinds
  <2>3. WorldType'
    BY <2>1 DEF PairingIInv, WorldType
  <2> QED BY <2>1, <2>2, <2>3, WizardsStay DEF PairingIInv
<1>3. CASE ~IsRunning
  <2>1. PICK w \in Wizards :
          /\ wiz' = [wiz EXCEPT ![w] = Spawned("host")]
          /\ log' = [of |-> w, written |-> 0, onDisk |-> 0, old |-> FALSE]
          /\ pid' = w /\ Reads(p, "starting")
    BY <1>3 DEF StartsLocal
  <2>2. WizardsSound' /\ wiz'[w] = Spawned("host") /\ \A v \in Wizards : v # w => wiz'[v] = wiz[v]
    BY <2>1, SpawnedSound, OneWizardChanges
  <2>3. w \in 0 .. N /\ w # NoWizard
    BY PairingAssumption DEF Wizards, NoWizard
  <2>4. LogSound'
    BY <2>1, <2>2, <2>3, SpawnedSound DEF LogSound, LogRecords
  <2>5. Owned'
    <3> SUFFICES ASSUME NEW v \in Wizards, Alive(v)'
                 PROVE  IF wiz'[v].at = "host" THEN pid' = v ELSE session' = v
      BY DEF Owned
    <3>1. CASE v = w
      BY <2>1, <2>2, <3>1, SpawnedSound
    <3>2. CASE v # w
      <4>1. wiz'[v] = wiz[v] /\ Alive(v)
        BY <2>2, <3>2 DEF Alive, Started
      <4>2. IF wiz[v].at = "host" THEN pid = v ELSE session = v
        BY <4>1 DEF PairingIInv, Owned
      <4>3. wiz[v].at # "host"
        BY <1>3, <4>1, <4>2 DEF IsRunning, Wizards, NoWizard
      <4> QED BY <4>1, <4>2, <4>3
    <3> QED BY <3>1, <3>2
  <2>6. (panel \in [Panels -> PanelRecords])'
    BY <1>1, <2>1, HeardWords, PanelMoves DEF Reads, Kinds
  <2>7. WorldType'
    BY <2>1, <2>3 DEF PairingIInv, WorldType
  <2> QED BY <2>2, <2>4, <2>5, <2>6, <2>7 DEF PairingIInv
<1> QED BY <1>2, <1>3

LEMMA RemoteStartPreserves ==
  ASSUME PairingIInv, NEW p \in Panels, NEW w \in Wizards, ServiceStarts(w),
         (panel \in [Panels -> PanelRecords])', faults' \in 0 .. MaxFaults,
         UNCHANGED <<url, dataDir, stored, log, pid, creds, gw>>
  PROVE  PairingIInv'
<1>1. CASE ChildRuns
  <2>1. UNCHANGED <<wiz, session>>
    BY <1>1 DEF ServiceStarts
  <2>2. WorldType'
    BY <2>1 DEF PairingIInv, WorldType
  <2> QED BY <2>1, <2>2, WizardsStay DEF PairingIInv
<1>2. CASE ~ChildRuns
  <2>1. Fresh(w) /\ wiz' = [wiz EXCEPT ![w] = Spawned("service")] /\ session' = w
    BY <1>2 DEF ServiceStarts
  <2>2. WizardsSound' /\ wiz'[w] = Spawned("service") /\ \A v \in Wizards : v # w => wiz'[v] = wiz[v]
    BY <2>1, SpawnedSound, OneWizardChanges
  <2>3. w \in 0 .. N /\ w # NoWizard
    BY PairingAssumption DEF Wizards, NoWizard
  <2>4. LogSound'
    <3>1. LogSound /\ (log.of # NoWizard => log.of \in Wizards)
      BY PairingAssumption DEF PairingIInv, LogSound, LogRecords, Wizards, NoWizard
    <3>2. log.of # w
      BY <2>1, <2>3, <3>1 DEF LogSound, Fresh, Started
    <3> QED BY <2>2, <3>1, <3>2 DEF LogSound
  <2>5. Owned'
    <3> SUFFICES ASSUME NEW v \in Wizards, Alive(v)'
                 PROVE  IF wiz'[v].at = "host" THEN pid' = v ELSE session' = v
      BY DEF Owned
    <3>1. CASE v = w
      BY <2>1, <2>2, <3>1, SpawnedSound
    <3>2. CASE v # w
      <4>1. wiz'[v] = wiz[v] /\ Alive(v)
        BY <2>2, <3>2 DEF Alive, Started
      <4>2. IF wiz[v].at = "host" THEN pid = v ELSE session = v
        BY <4>1 DEF PairingIInv, Owned
      <4>3. wiz[v].at = "host"
        BY <1>2, <4>1, <4>2 DEF ChildRuns, Alive, Wizards, NoWizard
      <4> QED BY <4>1, <4>2, <4>3
    <3> QED BY <3>1, <3>2
  <2>6. WorldType'
    BY <2>1, <2>3 DEF PairingIInv, WorldType
  <2> QED BY <2>2, <2>4, <2>5, <2>6 DEF PairingIInv
<1> QED BY <1>1, <1>2

(* The routes: with the service's answer, without it, or with both.          *)
LEMMA StartsPreserve ==
  ASSUME PairingIInv, NEW p \in Panels,
         \/ StartPairingRemote(p) \/ StartPairingLocal(p)
         \/ AnswerTooLate(p) \/ StartAfterLateAnswer(p)
  PROVE  PairingIInv'
<1>1. panel \in [Panels -> PanelRecords]
  BY DEF PairingIInv
<1>2. CASE StartPairingRemote(p)
  <2>1. PICK w \in Wizards : ServiceStarts(w)
    BY <1>2 DEF StartPairingRemote
  <2>2. PICK a \in Heard : Reads(p, a)
    BY <1>2, PairingIsHeard, HeardWords DEF StartPairingRemote
  <2>3. (panel \in [Panels -> PanelRecords])'
    BY <1>1, <2>2, PanelMoves DEF Reads, Kinds
  <2>4. faults' \in 0 .. MaxFaults
    BY <1>2, FaultsStayBounded DEF StartPairingRemote, Reached
  <2> QED BY <1>2, <2>1, <2>3, <2>4, RemoteStartPreserves DEF StartPairingRemote
<1>3. CASE StartPairingLocal(p)
  <2>1. faults' \in 0 .. MaxFaults
    BY <1>3, FaultsStayBounded DEF StartPairingLocal, Lost
  <2> QED BY <1>3, <2>1, LocalStartPreserves DEF StartPairingLocal
<1>4. CASE AnswerTooLate(p)
  <2>1. PICK w \in Wizards : ServiceStarts(w)
    BY <1>4 DEF AnswerTooLate
  <2>2. (panel \in [Panels -> PanelRecords])'
    BY <1>1, <1>4, HeardWords, PanelMoves DEF AnswerTooLate, Kinds
  <2>3. faults' \in 0 .. MaxFaults
    BY <1>4, FaultsStayBounded DEF AnswerTooLate
  <2> QED BY <1>4, <2>1, <2>2, <2>3, RemoteStartPreserves DEF AnswerTooLate
<1>5. CASE StartAfterLateAnswer(p)
  <2>1. faults' \in 0 .. MaxFaults
    BY <1>5, FaultsStayBounded DEF StartAfterLateAnswer
  <2> QED BY <1>5, <2>1, LocalStartPreserves DEF StartAfterLateAnswer
<1> QED BY <1>2, <1>3, <1>4, <1>5

-----------------------------------------------------------------------------
LEMMA PairingBegins == PairingInit => PairingIInv
<1> SUFFICES ASSUME PairingInit PROVE PairingIInv
  OBVIOUS
<1>0. N \in Nat /\ 0 \in 0 .. N /\ N + 1 \in 0 .. N + 1 /\ 0 \in 0 .. N + 1 /\ 0 \in 0 .. MaxFaults
  BY PairingAssumption
<1>1. url \in BOOLEAN /\ dataDir \in BOOLEAN
  BY PairingAssumption DEF PairingInit
<1>2. creds \in Credentials
  BY <1>0 DEF PairingInit, Credentials, NoSession, OldSession
<1>3. gw \in [state : {"connected", "connecting", "unpaired", "fatal"}, holds : Credentials]
  BY <1>2 DEF PairingInit
<1>4. WorldType
  BY <1>0, <1>1, <1>2, <1>3 DEF PairingInit, WorldType, NoWizard
<1>5. panel \in [Panels -> PanelRecords]
  <2>1. [status |-> "none", req |-> Idle] \in PanelRecords
    BY DEF PanelRecords, Statuses, Idle, Overlay
  <2> QED BY <2>1 DEF PairingInit
<1>6. WizardsSound
  BY SpawnedSound DEF PairingInit, WizardsSound
<1>7. LogSound
  BY <1>0 DEF PairingInit, LogSound, LogRecords, NoWizard
<1>8. Owned
  BY SpawnedSound DEF PairingInit, Owned, Alive, Started
<1> QED BY <1>4, <1>5, <1>6, <1>7, <1>8 DEF PairingIInv

LEMMA PairingGoesOn == PairingIInv /\ [PairingNext]_pairingVars => PairingIInv'
<1> SUFFICES ASSUME PairingIInv, [PairingNext]_pairingVars PROVE PairingIInv'
  OBVIOUS
<1>1. CASE UNCHANGED pairingVars
  <2>1. WorldType' /\ (panel \in [Panels -> PanelRecords])'
    BY <1>1 DEF PairingIInv, WorldType, pairingVars
  <2> QED BY <1>1, <2>1, WizardsStay DEF PairingIInv, pairingVars
<1>2. ASSUME NEW w \in Wizards, WizardStep(w) \/ OnData(w) PROVE PairingIInv'
  <2>1. CASE Exit(w) \/ Killed(w)
    BY <2>1, EndsPreserves
  <2>2. CASE OnData(w)
    BY <2>2, OnDataPreserves
  <2>3. CASE AskOther(w) \/ AskRePair(w) \/ Hear(w) \/ PrintQr(w) \/ Scan(w) \/ GiveUp(w)
    BY <2>3, WizardSpeaks
  <2> QED BY <1>2, <2>1, <2>2, <2>3 DEF WizardStep
<1>3. CASE Flush \/ GoesQuiet \/ GatewayStep \/ GatewayDrops
  BY <1>3, HousekeepingPreserves
<1>4. CASE ConsoleRestart \/ HermesRestart
  BY <1>4, RestartPreserves
<1>5. ASSUME NEW p \in Panels,
             \/ OpenPage(p) \/ Poll(p) \/ CheckNow(p) \/ PairAgain(p)
             \/ RouteStep(p) \/ RequestFails(p)
      PROVE  PairingIInv'
  <2>1. CASE \/ StartPairingRemote(p) \/ StartPairingLocal(p)
             \/ AnswerTooLate(p) \/ StartAfterLateAnswer(p)
    BY <2>1, StartsPreserve
  <2>2. CASE \/ OpenPage(p) \/ Poll(p) \/ CheckNow(p) \/ PairAgain(p)
             \/ ReadPairing(p) \/ Answer(p) \/ RequestFails(p)
    BY <2>2, AsksPreserves
  <2> QED BY <1>5, <2>1, <2>2 DEF RouteStep
<1> QED BY <1>1, <1>2, <1>3, <1>4, <1>5 DEF PairingNext

LEMMA WizardsAreRight == PairingIInv => WizardInv
<1> SUFFICES ASSUME PairingIInv PROVE WizardInv
  OBVIOUS
<1>1. \A w \in Wizards : WizardSound(wiz[w]) /\ wiz[w] \in WizardRecords
  BY DEF PairingIInv, WizardsSound, WizardSound
<1>2. AnswersBelong
  BY <1>1 DEF AnswersBelong, WizardSound, ToldInPlace
<1>3. OneWizard
  <2> SUFFICES ASSUME NEW v \in Wizards, NEW w \in Wizards,
                      Alive(v), Alive(w), wiz[v].at = wiz[w].at
               PROVE  v = w
    BY DEF OneWizard
  <2>1. /\ IF wiz[v].at = "host" THEN pid = v ELSE session = v
        /\ IF wiz[w].at = "host" THEN pid = w ELSE session = w
    BY DEF PairingIInv, Owned
  <2> QED BY <2>1
<1>4. ASSUME NEW w \in Wizards
      PROVE  /\ wiz[w].at \in {"none", "host", "service"}
             /\ wiz[w].step \in {"run", "asked", "scan", "over"}
             /\ wiz[w].life \in {"alive", "exited", "killed"}
             /\ \A i \in DOMAIN wiz[w].out : wiz[w].out[i] \in Pieces
             /\ \A i \in DOMAIN wiz[w].got : wiz[w].got[i] \in Words
             /\ wiz[w].read \in 0 .. Len(wiz[w].out)
             /\ wiz[w].handled \in BOOLEAN /\ wiz[w].loaded \in BOOLEAN
  <2> DEFINE n == wiz[w]
  <2>1. WizardSound(n) /\ n \in WizardRecords
    BY <1>1
  <2>2. /\ n.at \in {"none", "host", "service"} /\ n.step \in {"run", "asked", "scan", "over"}
        /\ n.life \in {"alive", "exited", "killed"} /\ n.handled \in BOOLEAN /\ n.loaded \in BOOLEAN
        /\ n.out \in Seq(Pieces) /\ n.got \in Seq(Words) /\ n.read \in Nat
    BY <2>1 DEF WizardRecords
  <2>3. n.read <= Len(n.out) /\ Len(n.out) \in Nat
    BY <2>1, <2>2 DEF WizardSound
  <2> HIDE DEF n
  <2>4. n.read \in 0 .. Len(n.out)
    BY <2>2, <2>3
  <2>5. \A i \in DOMAIN n.out : n.out[i] \in Pieces
    BY <2>2
  <2>6. \A i \in DOMAIN n.got : n.got[i] \in Words
    BY <2>2
  <2> QED BY <2>2, <2>4, <2>5, <2>6 DEF n
<1>5. log.of \in 0 .. N /\ log.onDisk \in 0 .. log.written /\ log.old \in BOOLEAN
  <2>1. log \in LogRecords /\ log.onDisk <= log.written
    BY DEF PairingIInv, LogSound
  <2> QED BY <2>1 DEF LogRecords
<1>6. \A p \in Panels : panel[p].status \in Statuses /\ panel[p].req.got \in DOMAIN Overlay
  <2>1. panel \in [Panels -> PanelRecords]
    BY DEF PairingIInv
  <2> QED BY <2>1 DEF PanelRecords
<1>7. WorldType
  BY DEF PairingIInv
<1>8. PairingTypeOK
  BY <1>4, <1>5, <1>6, <1>7 DEF PairingTypeOK, WorldType, Statuses
<1> QED BY <1>2, <1>3, <1>8 DEF WizardInv

(* Every answer a wizard was given is the answer to the question in its     *)
(* place, however its output was cut and whatever restarted, and at most    *)
(* one wizard is alive in each place, for every number of wizards, panels,   *)
(* questions and faults.                                                   *)
THEOREM AnswersKeepTheirPlace == PairingSpec => []WizardInv
<1>1. PairingSpec => []PairingIInv
  BY PairingBegins, PairingGoesOn, PTL DEF PairingSpec
<1> QED BY <1>1, WizardsAreRight, PTL
=============================================================================
