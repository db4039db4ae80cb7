-------------------------- MODULE IngestQueue_proofs --------------------------
(***************************************************************************)
(* Proofs about IngestQueue for any number of deliveries and messages, any *)
(* capacity and any limit of a flush.                                      *)
(***************************************************************************)
EXTENDS IngestQueue, FiniteSetTheorems, WellFoundedInduction, TLAPS

(* What is on its way was handed over, and the consumer is where its batch *)
(* and its last flush say.                                                 *)
ConsumerInv ==
  /\ Elements(ch) \cup Elements(batch) \cup written \subseteq Handed
  /\ stopped <=> final
  /\ final => ch = <<>> /\ run # "select"
  /\ run = "select" => Len(batch) < FlushMax
  /\ run = "done" => final /\ batch = <<>>

(* A document that was written has its row; what the last Save reports as  *)
(* new was not counted before, and is one document per message.            *)
StoreInv ==
  /\ \A d \in written : row[MessageOf[d]].exists
  /\ \A job \in jobs : Elements(job) \subseteq written
  /\ run \in {"stored", "counted"} => Elements(batch) \subseteq written
  /\ run = "stored" =>
       /\ \A d \in created : row[MessageOf[d]].exists /\ tally[MessageOf[d]] = 0
       /\ \A d, e \in created : MessageOf[d] = MessageOf[e] => d = e

IInv == QueueInv /\ EffectsFollowTheRow /\ ConsumerInv /\ StoreInv

-----------------------------------------------------------------------------
(* Sequences and their elements.                                           *)

LEMMA ElementsAppend ==
  ASSUME NEW S, NEW s \in Seq(S), NEW x
  PROVE  Elements(Append(s, x)) = Elements(s) \cup {x}
<1>1. DOMAIN Append(s, x) = 1..Len(s) + 1 /\ DOMAIN s = 1..Len(s) /\ Len(s) \in Nat
  OBVIOUS
<1>2. \A i \in 1..Len(s) : Append(s, x)[i] = s[i]
  OBVIOUS
<1>3. Append(s, x)[Len(s) + 1] = x
  OBVIOUS
<1> QED BY <1>1, <1>2, <1>3 DEF Elements

LEMMA ElementsTail ==
  ASSUME NEW S, NEW s \in Seq(S), s # <<>>
  PROVE  Elements(s) = {Head(s)} \cup Elements(Tail(s))
<1>1. /\ DOMAIN s = 1..Len(s) /\ Len(s) \in Nat \ {0}
      /\ DOMAIN Tail(s) = 1..Len(s) - 1
  OBVIOUS
<1>2. Head(s) = s[1] /\ \A i \in 1..Len(s) - 1 : Tail(s)[i] = s[i + 1]
  OBVIOUS
<1>3. ASSUME NEW i \in DOMAIN s PROVE s[i] \in {Head(s)} \cup Elements(Tail(s))
  <2>1. i = 1 \/ (i - 1 \in 1..Len(s) - 1 /\ s[i] = Tail(s)[i - 1])
    BY <1>1, <1>2
  <2> QED BY <1>1, <1>2, <2>1 DEF Elements
<1>4. ASSUME NEW i \in DOMAIN Tail(s) PROVE Tail(s)[i] \in Elements(s)
  <2>1. i + 1 \in DOMAIN s /\ Tail(s)[i] = s[i + 1]
    BY <1>1, <1>2
  <2> QED BY <2>1 DEF Elements
<1>5. Head(s) \in Elements(s)
  BY <1>1, <1>2 DEF Elements
<1> QED BY <1>3, <1>4, <1>5 DEF Elements

LEMMA ElementsConcat ==
  ASSUME NEW S, NEW s \in Seq(S), NEW t \in Seq(S)
  PROVE  Elements(s \o t) = Elements(s) \cup Elements(t)
<1>1. /\ DOMAIN s = 1..Len(s) /\ DOMAIN t = 1..Len(t) /\ Len(s) \in Nat /\ Len(t) \in Nat
      /\ DOMAIN (s \o t) = 1..Len(s) + Len(t)
  OBVIOUS
<1>2. /\ \A i \in 1..Len(s) : (s \o t)[i] = s[i]
      /\ \A i \in 1..Len(t) : (s \o t)[Len(s) + i] = t[i]
  OBVIOUS
<1>3. ASSUME NEW i \in DOMAIN (s \o t) PROVE (s \o t)[i] \in Elements(s) \cup Elements(t)
  <2>1. CASE i \in 1..Len(s)
    BY <1>1, <1>2, <2>1 DEF Elements
  <2>2. CASE i \notin 1..Len(s)
    <3>1. i - Len(s) \in 1..Len(t) /\ (s \o t)[i] = t[i - Len(s)]
      BY <1>1, <1>2, <2>2
    <3> QED BY <1>1, <3>1 DEF Elements
  <2> QED BY <2>1, <2>2
<1>4. ASSUME NEW i \in DOMAIN s PROVE s[i] \in Elements(s \o t)
  BY <1>1, <1>2 DEF Elements
<1>5. ASSUME NEW i \in DOMAIN t PROVE t[i] \in Elements(s \o t)
  <2>1. Len(s) + i \in DOMAIN (s \o t) /\ t[i] = (s \o t)[Len(s) + i]
    BY <1>1, <1>2
  <2> QED BY <2>1 DEF Elements
<1> QED BY <1>3, <1>4, <1>5 DEF Elements

LEMMA ElementsIn ==
  ASSUME NEW S, NEW s \in Seq(S)
  PROVE  Elements(s) \subseteq S
BY DEF Elements

LEMMA ElementsEmpty == Elements(<<>>) = {}
BY DEF Elements

(* A set of naturals that is not empty has a least member.                 *)
Below == {ss \in Nat \X Nat : ss[1] < ss[2]}

LEMMA BelowWellFounded == IsWellFoundedOn(Below, Nat)
BY NatLessThanWellFounded, Zenon DEF OpToRel, Below

LEMMA Least ==
  ASSUME NEW I \in SUBSET Nat, I # {}
  PROVE  \E i \in I : \A j \in I : i <= j
<1>1. PICK i \in I : \A j \in I : ~(<<j, i>> \in Below)
  BY BelowWellFounded, WFMin, Zenon
<1>2. \A j \in I : ~(j < i)
  BY <1>1 DEF Below
<1> QED BY <1>2

-----------------------------------------------------------------------------
LEMMA InitInv == Init => IInv
<1> SUFFICES ASSUME Init PROVE IInv
  OBVIOUS
<1> USE DEF Init
<1>1. TypeOK
  <2>1. /\ ch \in Seq(Deliveries) /\ Len(ch) <= Size
        /\ batch \in Seq(Deliveries) /\ Len(batch) <= FlushMax /\ ~final
    BY IngestAssumption
  <2>2. NoRow \in [exists : BOOLEAN, media : Outcomes, key : BOOLEAN]
    BY DEF NoRow, Outcomes
  <2>3. /\ row \in [Messages -> [exists : BOOLEAN, media : Outcomes, key : BOOLEAN]]
        /\ outcome \in [Deliveries -> Outcomes] /\ tally \in [Messages -> Nat]
    BY <2>2 DEF Outcomes
  <2> QED BY <2>1, <2>3 DEF TypeOK
<1>2. WrittenOrDropped /\ ConsumerInv
  BY ElementsEmpty, IngestAssumption DEF WrittenOrDropped, ConsumerInv, Handed
<1>3. EffectsFollowTheRow
  BY IngestAssumption DEF EffectsFollowTheRow, NoRow
<1>4. StoreInv
  BY DEF StoreInv
<1> QED BY <1>1, <1>2, <1>3, <1>4 DEF IInv, QueueInv

(* The collection after an upsert of some documents of the batch: rows     *)
(* that were there stay as they are, every document has one, and a new one *)
(* promises no object.                                                     *)
LEMMA UpsertKeeps ==
  ASSUME TypeOK, NEW W \in SUBSET Elements(batch)
  PROVE  /\ Upserted(W) \in [Messages -> [exists : BOOLEAN, media : Outcomes, key : BOOLEAN]]
         /\ \A m \in Messages : row[m].exists => Upserted(W)[m] = row[m]
         /\ \A m \in Messages : Upserted(W)[m].key => Upserted(W)[m] = row[m]
         /\ \A d \in W : Upserted(W)[MessageOf[d]].exists
<1>1. ASSUME NEW m \in Messages, NEW d \in W, MessageOf[d] = m
      PROVE  outcome[batch[FirstOf(W, m)]] \in Outcomes
  <2> DEFINE I == {i \in DOMAIN batch : batch[i] \in W /\ MessageOf[batch[i]] = m}
  <2>1. I \in SUBSET Nat /\ I # {}
    BY <1>1 DEF TypeOK, Elements
  <2>2. PICK i \in I : \A j \in I : i <= j
    BY <2>1, Least
  <2>3. \A j \in 1..(i - 1) : j \in DOMAIN batch /\ ~(i <= j)
    BY <2>2 DEF TypeOK
  <2>4. \A j \in 1..(i - 1) : ~(batch[j] \in W /\ MessageOf[batch[j]] = m)
    BY <2>2, <2>3
  <2>5. FirstOf(W, m) \in DOMAIN batch
    BY <2>2, <2>4 DEF FirstOf
  <2> QED BY <2>5 DEF TypeOK
<1>2. ASSUME NEW m \in Messages
      PROVE  Upserted(W)[m] \in [exists : BOOLEAN, media : Outcomes, key : BOOLEAN]
  <2>1. row[m] \in [exists : BOOLEAN, media : Outcomes, key : BOOLEAN]
    BY DEF TypeOK
  <2> QED BY <1>1, <2>1 DEF Upserted
<1>3. \A d \in W : MessageOf[d] \in Messages
  BY ElementsIn, IngestAssumption DEF TypeOK
<1> QED BY <1>2, <1>3 DEF Upserted

(* A step that leaves collection, counters and goroutines alone.           *)
LEMMA EffectsKept ==
  ASSUME IInv, UNCHANGED <<dbVars, jobs>>,
         \A d \in written : outcome'[d] = outcome[d]
  PROVE  EffectsFollowTheRow'
BY DEF IInv, EffectsFollowTheRow, dbVars

LEMMA HandlerPreserves ==
  ASSUME IInv, NEW d \in Deliveries, Arrive(d) \/ Handle(d)
  PROVE  IInv'
<1> USE DEF IInv, QueueInv
<1>1. \A e \in written : at[e] = "accepted" /\ e \in Deliveries
  BY DEF ConsumerInv, Handed
<1>2. CASE Arrive(d) \/ CheckStopped(d)
  <2>1. /\ UNCHANGED <<proc, outcome, run, final, created, dropped, jobs, qVars, dbVars>>
        /\ at[d] # "accepted" /\ \E x \in {"arrived", "refused", "storing"} : at' = [at EXCEPT ![d] = x]
    BY <1>2 DEF Arrive, CheckStopped
  <2>2. Handed' = Handed
    BY <2>1 DEF Handed, TypeOK
  <2>3. TypeOK'
    BY <2>1 DEF TypeOK, qVars, dbVars
  <2>4. WrittenOrDropped' /\ ConsumerInv'
    BY <2>1, <2>2 DEF WrittenOrDropped, ConsumerInv, qVars, dbVars
  <2>5. StoreInv'
    BY <2>1 DEF StoreInv, qVars, dbVars
  <2> QED BY <2>1, <2>3, <2>4, <2>5, EffectsKept
<1>3. ASSUME NEW o \in Outcomes, StoreMedia(d, o) PROVE IInv'
  <2>1. \A e \in written : outcome'[e] = outcome[e]
    BY <1>1, <1>3 DEF StoreMedia, TypeOK
  <2>2. Handed' = Handed
    BY <1>3 DEF StoreMedia, Handed, TypeOK
  <2>3. TypeOK'
    BY <1>3 DEF StoreMedia, TypeOK, qVars, dbVars
  <2>4. WrittenOrDropped' /\ ConsumerInv'
    BY <1>3, <2>2 DEF StoreMedia, WrittenOrDropped, ConsumerInv, qVars, dbVars
  <2>5. StoreInv'
    BY <1>3 DEF StoreMedia, StoreInv, qVars, dbVars
  <2> QED BY <1>3, <2>1, <2>3, <2>4, <2>5, EffectsKept DEF StoreMedia
<1>4. CASE Enqueue(d)
  <2>1. Handed' = Handed \cup {d}
    BY <1>4 DEF Enqueue, Handed, TypeOK
  <2>2. /\ UNCHANGED <<dbVars, jobs, outcome, run, final, batch, stopped, created, proc>>
        /\ at' \in [Deliveries -> {"none", "arrived", "refused", "storing", "mapped", "accepted"}]
    BY <1>4 DEF Enqueue, TypeOK
  <2>3. CASE ~stopped /\ Len(ch) < Size /\ ch' = Append(ch, d) /\ UNCHANGED dropped
    <3>1. Elements(ch') = Elements(ch) \cup {d}
      BY <2>3, ElementsAppend DEF TypeOK
    <3>2. ch' \in Seq(Deliveries) /\ Len(ch') <= Size
      BY <2>3, IngestAssumption DEF TypeOK
    <3>3. TypeOK'
      BY <2>2, <2>3, <3>2 DEF TypeOK, dbVars
    <3>4. WrittenOrDropped' /\ ConsumerInv'
      BY <2>1, <2>2, <2>3, <3>1 DEF WrittenOrDropped, ConsumerInv, dbVars
    <3>5. StoreInv'
      BY <2>2 DEF StoreInv, dbVars
    <3> QED BY <2>2, <3>3, <3>4, <3>5, EffectsKept
  <2>4. CASE dropped' = dropped \cup {d} /\ UNCHANGED ch
    <3>1. TypeOK'
      BY <2>2, <2>4 DEF TypeOK, dbVars
    <3>2. WrittenOrDropped' /\ ConsumerInv'
      BY <2>1, <2>2, <2>4 DEF WrittenOrDropped, ConsumerInv, dbVars
    <3>3. StoreInv'
      BY <2>2 DEF StoreInv, dbVars
    <3> QED BY <2>2, <3>1, <3>2, <3>3, EffectsKept
  <2> QED BY <1>4, <2>3, <2>4 DEF Enqueue
<1> QED BY <1>2, <1>3, <1>4 DEF Handle

(* The consumer takes from the channel or begins a flush.                  *)
LEMMA CollectPreserves ==
  ASSUME IInv, Receive \/ Tick \/ Stop
  PROVE  IInv'
<1> USE DEF IInv, QueueInv
<1>0. ch \in Seq(Deliveries) /\ batch \in Seq(Deliveries) /\ run = "select" /\ ~final
  BY DEF Receive, Tick, Stop, TypeOK, ConsumerInv
<1>1. CASE Receive
  <2>1. /\ ch' = Tail(ch) /\ batch' = Append(batch, Head(ch)) /\ ch # <<>> /\ run = "select"
        /\ Head(ch) \in Deliveries
        /\ UNCHANGED <<proc, at, outcome, final, created, dropped, jobs, stopped, dbVars>>
    BY <1>0, <1>1 DEF Receive
  <2>2. /\ Elements(ch) = {Head(ch)} \cup Elements(ch')
        /\ Elements(batch') = Elements(batch) \cup {Head(ch)}
    BY <1>0, <2>1, ElementsTail, ElementsAppend
  <2>3. /\ ch' \in Seq(Deliveries) /\ Len(ch') <= Size /\ batch' \in Seq(Deliveries)
        /\ Len(batch') <= FlushMax
        /\ run' \in {"select", "flush"} /\ (run' = "select" => Len(batch') < FlushMax)
    BY <1>0, <1>1, <2>1, IngestAssumption DEF Receive, TypeOK, ConsumerInv
  <2>4. TypeOK'
    BY <1>0, <2>1, <2>3 DEF TypeOK, dbVars
  <2>5. WrittenOrDropped' /\ ConsumerInv'
    BY <1>0, <2>1, <2>2, <2>3 DEF WrittenOrDropped, ConsumerInv, Handed, dbVars
  <2>6. StoreInv'
    BY <2>1, <2>3 DEF StoreInv, dbVars
  <2> QED BY <2>1, <2>4, <2>5, <2>6, EffectsKept
<1>2. CASE Tick
  <2>1. run' = "flush" /\ UNCHANGED <<proc, at, outcome, final, created, dropped, jobs, qVars, dbVars>>
    BY <1>2 DEF Tick
  <2>2. TypeOK'
    BY <2>1 DEF TypeOK, qVars, dbVars
  <2>3. WrittenOrDropped' /\ ConsumerInv'
    BY <2>1 DEF WrittenOrDropped, ConsumerInv, Handed, qVars, dbVars
  <2>4. StoreInv'
    BY <2>1 DEF StoreInv, qVars, dbVars
  <2> QED BY <2>1, <2>2, <2>3, <2>4, EffectsKept
<1>3. CASE Stop
  <2>1. /\ stopped' /\ final' /\ stopped' = TRUE /\ final' = TRUE
        /\ batch' = batch \o ch /\ ch' = <<>>
        /\ run' = IF batch' = <<>> THEN "done" ELSE "flush"
        /\ UNCHANGED <<proc, at, outcome, created, dropped, jobs, dbVars>>
    BY <1>3 DEF Stop
  <2>2. Elements(batch') = Elements(batch) \cup Elements(ch) /\ Elements(ch') = {}
    BY <1>0, <2>1, ElementsConcat, ElementsEmpty
  <2>3. batch' \in Seq(Deliveries) /\ Len(batch') <= FlushMax + Size - 1
    BY <1>0, <2>1, IngestAssumption DEF TypeOK, ConsumerInv
  <2>4. TypeOK'
    BY <2>1, <2>3, IngestAssumption DEF TypeOK, dbVars
  <2>5. ConsumerInv'
    BY <2>1, <2>2 DEF ConsumerInv, Handed, dbVars
  <2>6. WrittenOrDropped'
    BY <2>1, <2>2, ElementsEmpty DEF WrittenOrDropped, Handed, dbVars
  <2>7. StoreInv'
    BY <2>1 DEF StoreInv, dbVars
  <2> QED BY <2>1, <2>4, <2>5, <2>6, <2>7, EffectsKept
<1> QED BY <1>1, <1>2, <1>3

(* What a write of some documents of the batch leaves true.                *)
LEMMA WriteKeeps ==
  ASSUME IInv, NEW W \in SUBSET Elements(batch),
         row' = Upserted(W), written' = written \cup W,
         UNCHANGED <<outcome, tally, jobs>>
  PROVE  /\ row' \in [Messages -> [exists : BOOLEAN, media : Outcomes, key : BOOLEAN]]
         /\ written' \subseteq Handed /\ written' \subseteq Deliveries
         /\ \A d \in written' : row'[MessageOf[d]].exists
         /\ EffectsFollowTheRow'
<1>1. TypeOK /\ EffectsFollowTheRow /\ StoreInv /\ ConsumerInv
  BY DEF IInv, QueueInv
<1>2. written' \subseteq Handed /\ written' \subseteq Deliveries
  BY <1>1 DEF ConsumerInv, Handed
<1>3. \A d \in written' : MessageOf[d] \in Messages
  BY <1>2, IngestAssumption
<1>4. \A d \in written' : row'[MessageOf[d]].exists
  BY <1>1, <1>3, UpsertKeeps DEF StoreInv
<1>5. EffectsFollowTheRow'
  <2>1. \A m \in Messages : tally[m] <= 1 /\ (tally[m] = 1 => row'[m].exists)
    BY <1>1, UpsertKeeps DEF EffectsFollowTheRow
  <2>2. \A job \in jobs : \A d \in Elements(job) : row'[MessageOf[d]].exists /\ d \in written'
    BY <1>1, <1>4 DEF EffectsFollowTheRow
  <2>3. \A m \in Messages : row'[m].key => \E d \in written' : MessageOf[d] = m /\ outcome[d] = "stored"
    BY <1>1, UpsertKeeps DEF EffectsFollowTheRow
  <2> QED BY <2>1, <2>2, <2>3 DEF EffectsFollowTheRow
<1> QED BY <1>1, <1>2, <1>4, <1>5, UpsertKeeps

LEMMA SavePreserves ==
  ASSUME IInv, Save
  PROVE  IInv'
<1> DEFINE W == Elements(batch)
<1>0. TypeOK /\ WrittenOrDropped /\ EffectsFollowTheRow /\ ConsumerInv /\ StoreInv
  BY DEF IInv, QueueInv
<1>1. /\ row' = Upserted(W) /\ written' = written \cup W /\ created' = Created(W)
      /\ run = "flush" /\ run' = "stored"
      /\ UNCHANGED <<proc, at, outcome, final, dropped, jobs, tally, ch, stopped, batch>>
  BY DEF Save, qVars
<1>2. W \subseteq Deliveries
  BY <1>0, ElementsIn DEF TypeOK
<1> HIDE DEF W
<1>w. W = Elements(batch)
  BY DEF W
<1>3. /\ row' \in [Messages -> [exists : BOOLEAN, media : Outcomes, key : BOOLEAN]]
      /\ written' \subseteq Handed /\ written' \subseteq Deliveries
      /\ \A d \in written' : row'[MessageOf[d]].exists
      /\ EffectsFollowTheRow'
  BY <1>1, <1>w, WriteKeeps
<1>4. TypeOK'
  BY <1>0, <1>1, <1>2, <1>3 DEF TypeOK, Created
<1>5. WrittenOrDropped' /\ ConsumerInv'
  BY <1>0, <1>1, <1>3, <1>w DEF WrittenOrDropped, ConsumerInv, Handed
<1>6. \A d \in created' : row'[MessageOf[d]].exists /\ tally'[MessageOf[d]] = 0
  <2> SUFFICES ASSUME NEW d \in Created(W) PROVE row'[MessageOf[d]].exists /\ tally'[MessageOf[d]] = 0
    BY <1>1
  <2>1. d \in W /\ ~row[MessageOf[d]].exists /\ MessageOf[d] \in Messages
    BY <1>2, IngestAssumption DEF Created
  <2>2. tally[MessageOf[d]] <= 1 /\ tally[MessageOf[d]] # 1 /\ tally[MessageOf[d]] \in Nat
    BY <1>0, <2>1 DEF EffectsFollowTheRow, TypeOK
  <2> QED BY <1>1, <1>3, <2>1, <2>2
<1>7. \A d, e \in created' : MessageOf[d] = MessageOf[e] => d = e
  <2> SUFFICES ASSUME NEW d \in Created(W), NEW e \in Created(W), MessageOf[d] = MessageOf[e]
               PROVE  d = e
    BY <1>1
  <2>1. PICK i \in DOMAIN batch : /\ batch[i] = d
                                  /\ \A j \in 1..(i - 1) : MessageOf[batch[j]] # MessageOf[d]
    BY DEF Created
  <2>2. PICK k \in DOMAIN batch : /\ batch[k] = e
                                  /\ \A j \in 1..(k - 1) : MessageOf[batch[j]] # MessageOf[e]
    BY DEF Created
  <2>3. i \in Nat \ {0} /\ k \in Nat \ {0}
    BY <1>0 DEF TypeOK
  <2>4. k \notin 1..(i - 1) /\ i \notin 1..(k - 1)
    BY <2>1, <2>2
  <2>5. i = k
    BY <2>3, <2>4
  <2> QED BY <2>1, <2>2, <2>5
<1>8. StoreInv'
  BY <1>0, <1>1, <1>3, <1>6, <1>7, <1>w DEF StoreInv
<1> QED BY <1>3, <1>4, <1>5, <1>8 DEF IInv, QueueInv

LEMMA SaveFailsPreserves ==
  ASSUME IInv, NEW W \in SUBSET Elements(batch), SaveFails(W)
  PROVE  IInv'
<1>0. TypeOK /\ WrittenOrDropped /\ ConsumerInv /\ StoreInv
  BY DEF IInv, QueueInv
<1>1. /\ row' = Upserted(W) /\ written' = written \cup W /\ dropped' = dropped \cup Elements(batch)
      /\ batch' = <<>> /\ run = "flush" /\ run' = AfterFlush /\ run' \in {"done", "select"}
      /\ UNCHANGED <<proc, at, outcome, final, created, jobs, tally, ch, stopped>>
  BY DEF SaveFails, AfterFlush
<1>2. /\ row' \in [Messages -> [exists : BOOLEAN, media : Outcomes, key : BOOLEAN]]
      /\ written' \subseteq Handed /\ written' \subseteq Deliveries
      /\ \A d \in written' : row'[MessageOf[d]].exists
      /\ EffectsFollowTheRow'
  BY <1>1, WriteKeeps
<1>3. Elements(batch) \subseteq Deliveries
  BY <1>0, ElementsIn DEF TypeOK
<1>4. batch' \in Seq(Deliveries) /\ Len(batch') = 0
  BY <1>1
<1>5. TypeOK'
  BY <1>0, <1>1, <1>2, <1>3, <1>4, IngestAssumption DEF TypeOK
<1>6. ConsumerInv'
  BY <1>0, <1>1, <1>2, <1>4, ElementsEmpty, IngestAssumption DEF ConsumerInv, Handed, AfterFlush
<1>7. WrittenOrDropped'
  BY <1>0, <1>1, ElementsEmpty DEF WrittenOrDropped, ConsumerInv, Handed, AfterFlush
<1>8. StoreInv'
  BY <1>0, <1>1, <1>2 DEF StoreInv
<1> QED BY <1>2, <1>5, <1>6, <1>7, <1>8 DEF IInv, QueueInv

LEMMA OnStoredPreserves ==
  ASSUME IInv, OnStored
  PROVE  IInv'
<1>0. TypeOK /\ WrittenOrDropped /\ EffectsFollowTheRow /\ ConsumerInv /\ StoreInv
  BY DEF IInv, QueueInv
<1>1. /\ run = "stored" /\ run' = "counted"
      /\ UNCHANGED <<proc, at, outcome, final, created, dropped, jobs, qVars, row, written>>
  BY DEF OnStored
<1>2. ASSUME NEW m \in Messages
      PROVE  /\ tally'[m] \in Nat /\ tally'[m] <= 1
             /\ tally'[m] = 1 => row[m].exists
  <2> DEFINE new == {d \in created : MessageOf[d] = m}
  <2>1. tally[m] \in Nat /\ tally[m] <= 1 /\ (tally[m] = 1 => row[m].exists)
    BY <1>0 DEF TypeOK, EffectsFollowTheRow
  <2>2. CASE new = {}
    <3>1. Cardinality(new) = 0
      BY <2>2, FS_EmptySet
    <3>2. tally'[m] = tally[m] + Cardinality(new) \/ tally'[m] = tally[m]
      BY DEF OnStored
    <3> QED BY <2>1, <3>1, <3>2
  <2>3. CASE new # {}
    <3>1. PICK d \in new : TRUE
      BY <2>3
    <3>2. new = {d}
      BY <1>0, <1>1, <3>1 DEF StoreInv
    <3>3. Cardinality(new) = 1
      BY <3>2, FS_Singleton
    <3>4. tally[m] = 0 /\ row[m].exists
      BY <1>0, <1>1, <3>1 DEF StoreInv
    <3>5. tally'[m] = tally[m] + Cardinality(new) \/ tally'[m] = tally[m]
      BY DEF OnStored
    <3> QED BY <3>3, <3>4, <3>5
  <2> QED BY <2>2, <2>3
<1>3. tally' \in [Messages -> Nat]
  <2>1. tally' = [m \in Messages |-> tally'[m]]
    BY <1>0 DEF OnStored, TypeOK
  <2> QED BY <1>2, <2>1
<1>4. TypeOK'
  BY <1>0, <1>1, <1>3 DEF TypeOK, qVars
<1>5. WrittenOrDropped' /\ ConsumerInv'
  BY <1>0, <1>1 DEF WrittenOrDropped, ConsumerInv, Handed, qVars
<1>6. EffectsFollowTheRow'
  BY <1>0, <1>1, <1>2 DEF EffectsFollowTheRow
<1>7. StoreInv'
  BY <1>0, <1>1 DEF StoreInv, qVars
<1> QED BY <1>4, <1>5, <1>6, <1>7 DEF IInv, QueueInv

LEMMA AfterSavePreserves ==
  ASSUME IInv, AfterSave
  PROVE  IInv'
<1>0. TypeOK /\ WrittenOrDropped /\ EffectsFollowTheRow /\ ConsumerInv /\ StoreInv
  BY DEF IInv, QueueInv
<1>1. /\ run = "counted" /\ batch' = <<>> /\ created' = {}
      /\ run' = AfterFlush /\ run' \in {"done", "select"}
      /\ UNCHANGED <<proc, at, outcome, final, dropped, ch, stopped, row, tally, written>>
  BY DEF AfterSave, AfterFlush, dbVars
<1>2. Elements(batch) \subseteq written
  BY <1>0, <1>1 DEF StoreInv
<1>3. \A job \in jobs' : job \in jobs \/ (job = batch /\ \E d \in Elements(batch) : Observed(d))
  BY DEF AfterSave, JobsWithBatch
<1>4. \A job \in jobs' : job \in Seq(Deliveries) /\ job # <<>> /\ Elements(job) \subseteq written
  <2> SUFFICES ASSUME NEW job \in jobs'
               PROVE  job \in Seq(Deliveries) /\ job # <<>> /\ Elements(job) \subseteq written
    OBVIOUS
  <2>1. CASE job \in jobs
    BY <1>0, <2>1 DEF TypeOK, StoreInv
  <2>2. CASE job = batch /\ \E d \in Elements(batch) : Observed(d)
    BY <1>0, <1>2, <2>2, ElementsEmpty DEF TypeOK
  <2> QED BY <1>3, <2>1, <2>2
<1>5. batch' \in Seq(Deliveries) /\ Len(batch') = 0
  BY <1>1
<1>6. TypeOK'
  BY <1>0, <1>1, <1>4, <1>5, IngestAssumption DEF TypeOK
<1>7. ConsumerInv'
  BY <1>0, <1>1, <1>5, ElementsEmpty, IngestAssumption DEF ConsumerInv, Handed, AfterFlush
<1>8. WrittenOrDropped'
  BY <1>0, <1>1, <1>2, ElementsEmpty DEF WrittenOrDropped, ConsumerInv, Handed, AfterFlush
<1>9. EffectsFollowTheRow' /\ StoreInv'
  BY <1>0, <1>1, <1>4 DEF EffectsFollowTheRow, StoreInv
<1> QED BY <1>6, <1>7, <1>8, <1>9 DEF IInv, QueueInv

LEMMA SaveMediaPreserves ==
  ASSUME IInv, NEW job \in jobs, SaveMedia(job)
  PROVE  IInv'
<1> DEFINE d == Head(job)
           m == MessageOf[d]
<1>0. TypeOK /\ WrittenOrDropped /\ EffectsFollowTheRow /\ ConsumerInv /\ StoreInv
  BY DEF IInv, QueueInv
<1>1. UNCHANGED <<proc, at, outcome, run, final, created, dropped, ch, stopped, batch, tally, written>>
  BY DEF SaveMedia, qVars
<1>2. job \in Seq(Deliveries) /\ job # <<>> /\ Elements(job) \subseteq written
  BY <1>0 DEF TypeOK, StoreInv
<1>3. d \in written /\ Elements(Tail(job)) \subseteq written /\ Tail(job) \in Seq(Deliveries)
  BY <1>2, ElementsTail
<1>4. d \in Deliveries /\ m \in Messages /\ outcome[d] \in Outcomes
  BY <1>0, <1>3, IngestAssumption DEF TypeOK
<1>5. /\ row' \in [Messages -> [exists : BOOLEAN, media : Outcomes, key : BOOLEAN]]
      /\ \A n \in Messages : row'[n].exists = row[n].exists
      /\ \A n \in Messages \ {m} : row'[n] = row[n]
      /\ row'[m].key => row[m].key \/ outcome[d] = "stored"
  <2>1. CASE row' = [row EXCEPT ![m].media = outcome[d], ![m].key = (outcome[d] = "stored")]
    <3> DEFINE r == [row[m] EXCEPT !.media = outcome[d], !.key = (outcome[d] = "stored")]
    <3>1. row[m] \in [exists : BOOLEAN, media : Outcomes, key : BOOLEAN]
      BY <1>0, <1>4 DEF TypeOK
    <3>2. /\ r \in [exists : BOOLEAN, media : Outcomes, key : BOOLEAN]
          /\ r.exists = row[m].exists /\ r.key = (outcome[d] = "stored")
      BY <1>4, <3>1
    <3>3. row' = [row EXCEPT ![m] = r]
      BY <2>1
    <3> HIDE DEF r
    <3> QED BY <1>0, <1>4, <3>2, <3>3 DEF TypeOK
  <2>2. CASE UNCHANGED row
    BY <1>0, <2>2 DEF TypeOK
  <2> QED BY <2>1, <2>2 DEF SaveMedia
<1>6. \A j \in jobs' : j \in jobs \/ (j = Tail(job) /\ Len(job) # 1)
  BY DEF SaveMedia
<1>7. \A j \in jobs' : j \in Seq(Deliveries) /\ j # <<>> /\ Elements(j) \subseteq written
  <2> SUFFICES ASSUME NEW j \in jobs'
               PROVE  j \in Seq(Deliveries) /\ j # <<>> /\ Elements(j) \subseteq written
    OBVIOUS
  <2>1. CASE j \in jobs
    BY <1>0, <2>1 DEF TypeOK, StoreInv
  <2>2. CASE j = Tail(job) /\ Len(job) # 1
    <3>1. Len(Tail(job)) = Len(job) - 1 /\ Len(job) \in Nat \ {0}
      BY <1>2
    <3>2. Len(Tail(job)) # 0
      BY <2>2, <3>1
    <3>3. Tail(job) # <<>>
      <4>1. Len(<<>>) = 0
        OBVIOUS
      <4> QED BY <3>2, <4>1, Zenon
    <3> QED BY <1>3, <2>2, <3>3
  <2> QED BY <1>6, <2>1, <2>2
<1> HIDE DEF m, d
<1>8. TypeOK'
  BY <1>0, <1>1, <1>5, <1>7 DEF TypeOK
<1>9. WrittenOrDropped' /\ ConsumerInv'
  BY <1>0, <1>1 DEF WrittenOrDropped, ConsumerInv, Handed
<1>10. \A e \in written \cup created : MessageOf[e] \in Messages
  BY <1>0, IngestAssumption DEF TypeOK
<1>11. StoreInv'
  BY <1>0, <1>1, <1>5, <1>7, <1>10 DEF StoreInv
<1>12. EffectsFollowTheRow'
  <2>1. \A n \in Messages : tally[n] <= 1 /\ (tally[n] = 1 => row'[n].exists)
    BY <1>0, <1>5 DEF EffectsFollowTheRow
  <2>2. \A j \in jobs' : \A e \in Elements(j) : row'[MessageOf[e]].exists /\ e \in written
    BY <1>0, <1>5, <1>7, <1>10 DEF StoreInv
  <2>3. \A n \in Messages : row'[n].key => \E e \in written : MessageOf[e] = n /\ outcome[e] = "stored"
    BY <1>0, <1>3, <1>5 DEF EffectsFollowTheRow, m
  <2> QED BY <1>1, <2>1, <2>2, <2>3 DEF EffectsFollowTheRow
<1> QED BY <1>8, <1>9, <1>11, <1>12 DEF IInv, QueueInv

LEMMA NextPreserves == IInv /\ [Next]_vars => IInv'
<1> SUFFICES ASSUME IInv, [Next]_vars PROVE IInv'
  OBVIOUS
<1>1. CASE Leave \/ Exit \/ UNCHANGED vars
  <2>1. /\ proc' \in {"up", "leaving", "exited"}
        /\ UNCHANGED <<at, outcome, run, final, created, dropped, jobs, ch, stopped, batch, row, tally, written>>
    BY <1>1 DEF Leave, Exit, vars, qVars, dbVars, IInv, QueueInv, TypeOK
  <2> QED BY <2>1 DEF IInv, QueueInv, TypeOK, WrittenOrDropped, EffectsFollowTheRow,
                      ConsumerInv, StoreInv, Handed
<1>2. CASE Next
  <2>1. CASE Consume
    BY <2>1, CollectPreserves, SavePreserves, SaveFailsPreserves, OnStoredPreserves, AfterSavePreserves
    DEF Consume
  <2> QED BY <1>1, <1>2, <2>1, HandlerPreserves, SaveMediaPreserves DEF Next
<1> QED BY <1>1, <1>2

LEMMA Invariant == Spec => []IInv
BY InitInv, NextPreserves, PTL DEF Spec

(* Nothing that was handed over is lost, for any interleaving of producers *)
(* with the consumer's shutdown and any failure of a bulk write: it is on  *)
(* its way, written, or counted as dropped (Enqueue, Run, stop, flush).    *)
THEOREM NothingIsLost == Spec => []QueueInv
<1>1. IInv => QueueInv
  BY DEF IInv
<1> QED BY <1>1, Invariant, PTL

(* A message is counted once, when its row appeared, and an attachment's   *)
(* record tells of a delivery of its own message, whichever flushes fail   *)
(* and however the goroutines of two flushes overlap (onStored,            *)
(* recordSaved, saveMedia).                                                *)
THEOREM EffectsFollow == Spec => []EffectsFollowTheRow
<1>1. IInv => EffectsFollowTheRow
  BY DEF IInv
<1> QED BY <1>1, Invariant, PTL
=============================================================================
