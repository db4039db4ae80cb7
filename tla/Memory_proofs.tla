---------------------------- MODULE Memory_proofs ---------------------------
(***************************************************************************)
(* Proofs about the memory of a group. First MemoryRanges: how messages    *)
(* are cut into batches, for any messages and timestamps, any builders,    *)
(* limits and window; with MemoryPrompt, what is shown and kept of them,   *)
(* for any texts, claims and lengths. Then MemoryBatches: what becomes of  *)
(* a batch, for any number of batches and groups, any attempt limit and    *)
(* any number of changes of a group's eligibility.                         *)
(***************************************************************************)
EXTENDS MemoryBatches, MemoryRanges, FiniteSetTheorems, SequenceTheorems, TLAPS

-----------------------------------------------------------------------------
(* How MemoryRanges cuts messages: first and last of a set, ranks in it,   *)
(* and its initial segments.                                               *)

Upward(S, m) == {n \in S : m <= n}
Downward(S, m) == {n \in S : n <= m}

(* A finite set has a minimal one among the sets its members cut off.      *)
LEMMA MinimalCut ==
  ASSUME NEW S, IsFiniteSet(S), NEW F \in SUBSET SUBSET S, F # {}
  PROVE  \E x \in F : \A y \in F : y \subseteq x => y = x
<1>1. IsWellFoundedOn(StrictSubsetOrdering(S), FiniteSubsetsOf(S))
  BY FS_StrictSubsetOrderingWellFounded
<1>2. FiniteSubsetsOf(S) = SUBSET S
  BY FS_FiniteSubsetsOfFinite
<1>3. \E x \in F : \A y \in F : ~(<<y, x>> \in StrictSubsetOrdering(S))
  BY <1>1, <1>2, WFMin
<1> QED BY <1>3 DEF StrictSubsetOrdering

LEMMA MinimalUpward ==
  ASSUME NEW S, IsFiniteSet(S), S # {}
  PROVE  \E m \in S : \A n \in S : Upward(S, n) \subseteq Upward(S, m) => Upward(S, n) = Upward(S, m)
<1>1. PICK F : F = {Upward(S, m) : m \in S}
  OBVIOUS
<1>2. F \in SUBSET SUBSET S
  BY <1>1 DEF Upward
<1>3. F # {}
  BY <1>1
<1>4. PICK x \in F : \A y \in F : y \subseteq x => y = x
  BY <1>2, <1>3, MinimalCut
<1>5. PICK m \in S : x = Upward(S, m)
  BY <1>1
<1>6. \A n \in S : Upward(S, n) \in F
  BY <1>1
<1> QED BY <1>4, <1>5, <1>6

LEMMA MinimalDownward ==
  ASSUME NEW S, IsFiniteSet(S), S # {}
  PROVE  \E m \in S : \A n \in S : Downward(S, n) \subseteq Downward(S, m) => Downward(S, n) = Downward(S, m)
<1>1. PICK F : F = {Downward(S, m) : m \in S}
  OBVIOUS
<1>2. F \in SUBSET SUBSET S
  BY <1>1 DEF Downward
<1>3. F # {}
  BY <1>1
<1>4. PICK x \in F : \A y \in F : y \subseteq x => y = x
  BY <1>2, <1>3, MinimalCut
<1>5. PICK m \in S : x = Downward(S, m)
  BY <1>1
<1>6. \A n \in S : Downward(S, n) \in F
  BY <1>1
<1> QED BY <1>4, <1>5, <1>6

LEMMA LastIsLast ==
  ASSUME NEW S, S \subseteq Nat, IsFiniteSet(S), S # {}
  PROVE  Last(S) \in S /\ \A n \in S : n <= Last(S)
<1>1. \A n \in S : n \in Nat
  OBVIOUS
<1>2. PICK m \in S : \A n \in S : Upward(S, n) \subseteq Upward(S, m) => Upward(S, n) = Upward(S, m)
  BY MinimalUpward
<1>3. ASSUME NEW n \in S, ~(n <= m) PROVE FALSE
  <2>1. ASSUME NEW k \in S, n <= k PROVE m <= k
    BY <1>1, <1>3, <2>1
  <2>2. Upward(S, n) \subseteq Upward(S, m)
    BY <2>1 DEF Upward
  <2>3. m \in Upward(S, m) /\ m \notin Upward(S, n)
    BY <1>1, <1>3 DEF Upward
  <2> QED BY <1>2, <2>2, <2>3
<1> QED BY <1>3 DEF Last

LEMMA FirstIsFirst ==
  ASSUME NEW S, S \subseteq Nat, IsFiniteSet(S), S # {}
  PROVE  First(S) \in S /\ \A n \in S : First(S) <= n
<1>1. \A n \in S : n \in Nat
  OBVIOUS
<1>2. PICK m \in S : \A n \in S : Downward(S, n) \subseteq Downward(S, m) => Downward(S, n) = Downward(S, m)
  BY MinimalDownward
<1>3. ASSUME NEW n \in S, ~(m <= n) PROVE FALSE
  <2>1. ASSUME NEW k \in S, k <= n PROVE k <= m
    BY <1>1, <1>3, <2>1
  <2>2. Downward(S, n) \subseteq Downward(S, m)
    BY <2>1 DEF Downward
  <2>3. m \in Downward(S, m) /\ m \notin Downward(S, n)
    BY <1>1, <1>3 DEF Downward
  <2> QED BY <1>2, <2>2, <2>3
<1> QED BY <1>3 DEF First

LEMMA RankGrows ==
  ASSUME NEW S, S \subseteq Nat, IsFiniteSet(S), NEW a \in Nat, NEW b \in Nat, a <= b
  PROVE  /\ Rank(S, a) \in Nat /\ Rank(S, b) \in Nat
         /\ Rank(S, a) <= Rank(S, b)
         /\ b \in S /\ a < b => Rank(S, a) < Rank(S, b)
<1> DEFINE A == {n \in S : n <= a}
           B == {n \in S : n <= b}
<1>0. \A n \in S : n \in Nat
  OBVIOUS
<1>1. A \subseteq B /\ B \subseteq S
  <2>1. ASSUME NEW n \in S, n <= a PROVE n <= b
    BY <1>0, <2>1
  <2> QED BY <2>1
<1>6. A \in SUBSET B /\ B \in SUBSET S
  BY <1>1
<1>2. IsFiniteSet(B) /\ IsFiniteSet(A) /\ Cardinality(A) <= Cardinality(B)
      /\ (Cardinality(B) = Cardinality(A) => B = A)
  BY <1>6, FS_Subset
<1>3. Cardinality(A) \in Nat /\ Cardinality(B) \in Nat
  BY <1>2, FS_CardinalityType
<1>4. b \in S /\ a < b => b \in B /\ b \notin A
  OBVIOUS
<1>5. Rank(S, a) = Cardinality(A) /\ Rank(S, b) = Cardinality(B)
  BY DEF Rank
<1> HIDE DEF A, B
<1> QED BY <1>2, <1>3, <1>4, <1>5

(* T has whatever S has below a member of T.                               *)
Initial(T, S) == T \subseteq S /\ \A n \in S : \A t \in T : n <= t => n \in T

LEMMA RankInInitial ==
  ASSUME NEW S, NEW T, Initial(T, S), NEW m \in T
  PROVE  Rank(T, m) = Rank(S, m)
<1>1. {n \in T : n <= m} = {n \in S : n <= m}
  BY DEF Initial
<1> QED BY <1>1 DEF Rank

LEMMA RankOfLast ==
  ASSUME NEW S, S \subseteq Nat, IsFiniteSet(S), S # {}
  PROVE  Rank(S, Last(S)) = Cardinality(S)
<1>1. {n \in S : n <= Last(S)} = S
  BY LastIsLast
<1> QED BY <1>1 DEF Rank

LEMMA RankOfNext ==
  ASSUME NEW S, S \subseteq Nat, IsFiniteSet(S), NEW T, Initial(T, S),
         NEW m \in S \ T, \A n \in S \ T : m <= n
  PROVE  Rank(S, m) = Cardinality(T) + 1
<1>1. {n \in S : n <= m} = T \cup {m}
  <2>1. ASSUME NEW n \in S, n <= m PROVE n \in T \cup {m}
    <3>1. n \in Nat /\ m \in Nat
      OBVIOUS
    <3> QED BY <2>1, <3>1
  <2>2. ASSUME NEW t \in T PROVE t \in S /\ t <= m
    <3>1. t \in S /\ t \in Nat /\ m \in Nat
      BY DEF Initial
    <3> QED BY <3>1 DEF Initial
  <2> QED BY <2>1, <2>2
<1>2. T \in SUBSET S
  BY DEF Initial
<1>3. IsFiniteSet(T)
  BY <1>2, FS_Subset
<1>4. Cardinality(T \cup {m}) = Cardinality(T) + 1
  BY <1>3, FS_AddElement
<1> QED BY <1>1, <1>4 DEF Rank

LEMMA InitialChain ==
  ASSUME NEW S, NEW T, NEW U, Initial(T, S), Initial(U, T)
  PROVE  Initial(U, S)
BY DEF Initial

(* A set has the messages of its range in it: the next one after them has  *)
(* a rank one higher, unless there is none.                                *)
LEMMA NextOne ==
  ASSUME NEW S, S \subseteq Nat, IsFiniteSet(S), NEW T, Initial(T, S),
         NEW m \in S, m \notin T
  PROVE  \E n \in S : n \notin T /\ n <= m /\ Rank(S, n) = Cardinality(T) + 1
<1>1. S \ T \subseteq Nat /\ S \ T \in SUBSET S /\ S \ T # {}
  OBVIOUS
<1>2. IsFiniteSet(S \ T)
  BY <1>1, FS_Subset
<1>3. /\ First(S \ T) \in S \ T
      /\ \A n \in S \ T : First(S \ T) <= n
  BY <1>1, <1>2, FirstIsFirst
<1>4. Rank(S, First(S \ T)) = Cardinality(T) + 1
  BY <1>3, RankOfNext
<1> QED BY <1>3, <1>4

-----------------------------------------------------------------------------
(* What a builder reads after a watermark.                                 *)

(* The messages it may read, and each cut of them, as the query pipeline   *)
(* takes them.                                                             *)
LEMMA Cuts ==
  ASSUME stored \subseteq Messages, IsFiniteSet(stored), NEW mk
  PROVE  /\ After(mk) \subseteq Nat /\ IsFiniteSet(After(mk))
         /\ \A m \in After(mk) : m \in Messages /\ m \in Nat /\ TimeOf[m] \in Nat
         /\ Initial(Scan(mk), After(mk))
         /\ Initial(Bounded(mk), After(mk))
         /\ Initial(NextMessages(mk), Bounded(mk))
         /\ Initial(NextMessages(mk), After(mk))
<1> DEFINE S == After(mk)
<1>0. /\ Messages \subseteq Nat /\ TimeOf \in [Messages -> Nat]
      /\ \A m, n \in Messages : m < n => TimeOf[m] <= TimeOf[n]
      /\ Limit \in Nat /\ EqualLimit \in Nat /\ Window \in Nat
  BY RangesAssumption
<1>1. S \in SUBSET stored
  BY DEF After
<1>2. S \subseteq Nat /\ IsFiniteSet(S)
  BY <1>0, <1>1, FS_Subset
<1>3. \A m \in S : m \in Messages /\ m \in Nat /\ TimeOf[m] \in Nat
  BY <1>0, <1>1
<1> HIDE DEF S
<1>4. ASSUME NEW m \in S, NEW n \in S, m <= n
      PROVE  Rank(S, m) \in Nat /\ Rank(S, n) \in Nat /\ Rank(S, m) <= Rank(S, n)
  <2>1. m \in Nat /\ n \in Nat
    BY <1>3
  <2> QED BY <1>2, <1>4, <2>1, RankGrows
<1>5. ASSUME NEW m \in S, NEW n \in S, m <= n PROVE TimeOf[m] <= TimeOf[n]
  BY <1>0, <1>3, <1>5
<1>6. Initial(Scan(mk), S)
  <2>1. ASSUME NEW n \in S, NEW t \in Scan(mk), n <= t PROVE n \in Scan(mk)
    <3>1. t \in S /\ Rank(S, t) <= EqualLimit + 1
      BY DEF Scan, S
    <3>2. Rank(S, n) <= EqualLimit + 1
      BY <1>0, <1>4, <2>1, <3>1
    <3> QED BY <3>2 DEF Scan, S
  <2> QED BY <2>1 DEF Initial, Scan, S
<1>7. Initial(Bounded(mk), S)
  <2>1. ASSUME NEW n \in S, NEW t \in Bounded(mk), n <= t PROVE n \in Bounded(mk)
    <3>1. t \in Scan(mk) /\ TimeOf[t] <= TimeOf[First(Scan(mk))] + Window
      BY DEF Bounded
    <3>2. t \in S /\ n \in Scan(mk)
      BY <1>6, <2>1, <3>1 DEF Initial
    <3>3. First(Scan(mk)) \in S
      <4>1. Scan(mk) \in SUBSET S /\ Scan(mk) \subseteq Nat /\ Scan(mk) # {}
        BY <1>2, <1>6, <3>1 DEF Initial
      <4>2. IsFiniteSet(Scan(mk))
        BY <1>2, <4>1, FS_Subset
      <4> QED BY <4>1, <4>2, FirstIsFirst
    <3>4. TimeOf[n] <= TimeOf[t] /\ TimeOf[First(Scan(mk))] \in Nat /\ TimeOf[n] \in Nat /\ TimeOf[t] \in Nat
      BY <1>3, <1>5, <2>1, <3>2, <3>3
    <3>5. TimeOf[n] <= TimeOf[First(Scan(mk))] + Window
      BY <1>0, <3>1, <3>4
    <3> QED BY <3>2, <3>5 DEF Bounded
  <2> QED BY <1>6, <2>1 DEF Initial, Bounded
<1>8. Initial(NextMessages(mk), Bounded(mk))
  <2> DEFINE B == Bounded(mk)
  <2>0. B \in SUBSET S /\ B \subseteq Nat
    BY <1>2, <1>7 DEF Initial
  <2>1. IsFiniteSet(B)
    BY <1>2, <2>0, FS_Subset
  <2> HIDE DEF B
  <2>2. ASSUME NEW m \in B, NEW n \in B
        PROVE  /\ Rank(B, m) \in Nat /\ Rank(B, n) \in Nat
               /\ m <= n => Rank(B, m) <= Rank(B, n)
    <3>1. m \in Nat /\ n \in Nat
      BY <2>0
    <3>2. CASE m <= n
      BY <2>0, <2>1, <3>1, <3>2, RankGrows
    <3>3. CASE ~(m <= n)
      <4>1. n <= m
        BY <3>1, <3>3
      <4> QED BY <2>0, <2>1, <3>1, <3>3, <4>1, RankGrows
    <3> QED BY <3>2, <3>3
  <2>3. ASSUME NEW k \in B, NEW m \in NextMessages(mk), k <= m PROVE k \in NextMessages(mk)
    <3>1. m \in B
      BY DEF NextMessages, B
    <3>2. Rank(B, k) <= Rank(B, m) /\ Rank(B, k) \in Nat /\ Rank(B, m) \in Nat
      BY <2>2, <2>3, <3>1
    <3>3. CASE Rank(B, m) <= Limit
      BY <1>0, <3>2, <3>3 DEF NextMessages, B
    <3>4. CASE Rank(B, m) <= EqualLimit /\ \E n \in B : Rank(B, n) = Limit /\ TimeOf[n] = TimeOf[m]
      <4>1. PICK n \in B : Rank(B, n) = Limit /\ TimeOf[n] = TimeOf[m]
        BY <3>4
      <4>2. Rank(B, k) <= EqualLimit
        BY <1>0, <3>2, <3>4
      <4>3. CASE Rank(B, k) <= Limit
        BY <4>3 DEF NextMessages, B
      <4>4. CASE ~(Rank(B, k) <= Limit)
        <5>1. ~(k <= n)
          BY <1>0, <2>2, <4>1, <4>4
        <5>2. k \in S /\ n \in S /\ m \in S /\ k \in Nat /\ n \in Nat /\ m \in Nat
          BY <2>0, <3>1
        <5>3. n <= k
          BY <5>1, <5>2
        <5>4. TimeOf[n] <= TimeOf[k] /\ TimeOf[k] <= TimeOf[m]
          BY <1>5, <2>3, <5>2, <5>3
        <5>5. TimeOf[n] = TimeOf[k]
          BY <1>3, <4>1, <5>2, <5>4
        <5> QED BY <4>1, <4>2, <5>5 DEF NextMessages, B
      <4> QED BY <4>3, <4>4
    <3> QED BY <3>3, <3>4 DEF NextMessages, B
  <2> QED BY <2>3 DEF Initial, NextMessages, B
<1>9. Initial(NextMessages(mk), S)
  BY <1>7, <1>8, InitialChain
<1> QED BY <1>2, <1>3, <1>6, <1>7, <1>8, <1>9 DEF S

(* What it read is a range: all there is between the watermark and its     *)
(* end, and with a second's messages together if there is room.            *)
LEMMA ReadsARange ==
  ASSUME stored \subseteq Messages, IsFiniteSet(stored), NEW mk \in Nat,
         NextMessages(mk) # {}
  PROVE  LET N == NextMessages(mk) IN
         /\ N \subseteq stored
         /\ Cardinality(N) <= EqualLimit
         /\ \A m \in N : mk < m
         /\ \A m \in stored : mk < m /\ m <= Last(N) => m \in N
         /\ \A m \in stored : TimeOf[m] = TimeOf[Last(N)] /\ Last(N) < m =>
              Cardinality(N) >= EqualLimit
<1> DEFINE S == After(mk)
           B == Bounded(mk)
           N == NextMessages(mk)
           L == Last(N)
<1>0. /\ Messages \subseteq Nat
      /\ \A m, n \in Messages : m < n => TimeOf[m] <= TimeOf[n]
      /\ Limit \in Nat /\ EqualLimit \in Nat /\ Limit <= EqualLimit
  BY RangesAssumption
<1>1. /\ S \subseteq Nat /\ IsFiniteSet(S)
      /\ \A m \in S : m \in Messages /\ m \in Nat /\ TimeOf[m] \in Nat
      /\ Initial(Scan(mk), S) /\ Initial(B, S) /\ Initial(N, B) /\ Initial(N, S)
  BY Cuts
<1>2. S \subseteq stored /\ \A m \in stored : mk < m <=> m \in S
  <2>1. \A m \in stored : (m > mk) <=> (mk < m)
    OBVIOUS
  <2> QED BY <2>1 DEF After
<1>3. B \in SUBSET S /\ N \in SUBSET S /\ N \subseteq B
  BY <1>1 DEF Initial
<1>4. IsFiniteSet(B) /\ IsFiniteSet(N) /\ B \subseteq Nat /\ N \subseteq Nat
  BY <1>1, <1>3, FS_Subset
<1>5. L \in N /\ \A n \in N : n <= L
  BY <1>4, LastIsLast
<1>6. Rank(N, L) = Cardinality(N) /\ Cardinality(N) \in Nat
  BY <1>4, RankOfLast, FS_CardinalityType
<1>7. Rank(B, L) = Cardinality(N)
  BY <1>1, <1>5, <1>6, RankInInitial
<1>8. \/ Rank(B, L) <= Limit
      \/ /\ Rank(B, L) <= EqualLimit
         /\ \E n \in B : Rank(B, n) = Limit /\ TimeOf[n] = TimeOf[L]
  BY <1>5 DEF NextMessages
<1>9. Cardinality(N) <= EqualLimit
  BY <1>0, <1>6, <1>7, <1>8
<1> HIDE DEF S, B, N, L
<1>10. ASSUME NEW m \in S, m <= L PROVE m \in N
  BY <1>1, <1>5, <1>10 DEF Initial
<1>11. ASSUME NEW m \in S, TimeOf[m] = TimeOf[L], L < m PROVE Cardinality(N) >= EqualLimit
  <2>1. SUFFICES ASSUME ~(Cardinality(N) >= EqualLimit) PROVE FALSE
    OBVIOUS
  <2>2. L \in S /\ L \in B /\ L \in Nat /\ m \in Nat
    BY <1>1, <1>3, <1>5
  <2>3. m \notin N
    BY <1>5, <1>11, <2>2
  <2>4. PICK n \in S : n \notin N /\ n <= m /\ Rank(S, n) = Cardinality(N) + 1
    BY <1>1, <2>3, NextOne
  <2>5. n \in Nat /\ L <= n
    BY <1>1, <1>10, <2>2, <2>4
  <2>6. TimeOf[n] = TimeOf[L]
    <3>1. TimeOf[L] <= TimeOf[n]
      BY <1>0, <1>1, <2>2, <2>4, <2>5
    <3>2. TimeOf[n] <= TimeOf[m]
      BY <1>0, <1>1, <2>2, <2>4, <2>5
    <3> QED BY <1>1, <1>11, <2>2, <2>4, <3>1, <3>2
  <2>7. n \in Scan(mk)
    BY <1>0, <1>6, <2>1, <2>4 DEF Scan, S
  <2>8. L \in Bounded(mk)
    BY <2>2 DEF B
  <2>9. n \in B
    BY <2>6, <2>7, <2>8 DEF Bounded, B
  <2>10. Rank(B, n) = Cardinality(N) + 1
    BY <1>1, <2>4, <2>9, RankInInitial
  <2>11. Rank(B, n) <= EqualLimit
    BY <1>0, <1>6, <2>1, <2>10
  <2>12. ~(Rank(B, n) <= Limit)
    BY <2>4, <2>9 DEF NextMessages, N, B
  <2>13. ~\E k \in B : Rank(B, k) = Limit /\ TimeOf[k] = TimeOf[n]
    BY <2>4, <2>9, <2>11 DEF NextMessages, N, B
  <2>14. Rank(B, L) = Limit
    BY <1>0, <1>6, <1>7, <1>8, <2>6, <2>10, <2>12, <2>13
  <2> QED BY <2>2, <2>6, <2>13, <2>14
<1>12. \A m \in N : mk < m
  BY <1>2, <1>3
<1>13. N \subseteq stored
  BY <1>2, <1>3
<1>14. ASSUME NEW m \in stored, L < m PROVE m \in S
  <2>1. m \in Nat /\ L \in Nat /\ mk < L
    BY <1>0, <1>4, <1>5, <1>12
  <2> QED BY <1>2, <1>14, <2>1
<1> QED BY <1>2, <1>9, <1>10, <1>11, <1>12, <1>13, <1>14 DEF N, L

-----------------------------------------------------------------------------
(* The invariant of the batches. A batch that is not the newest has a      *)
(* successor, which the index on the predecessor then guards; what a       *)
(* builder holds is based on the end of a complete batch.                  *)

Ends == {Last(b.sources) : b \in batches}

NoGap ==
  \A x \in {Origin} \cup Ends :
    (\E b \in batches : x < Last(b.sources)) => \E o \in batches : o.pred = x

BuilderInv(w) ==
  /\ at[w] \in {"messages", "insert"} =>
       \/ mark[w] = Origin
       \/ \E b \in batches : b.state = "complete" /\ mark[w] = Last(b.sources)
  /\ at[w] = "insert" =>
       /\ rows[w] # {} /\ Cardinality(rows[w]) <= EqualLimit
       /\ \A m \in rows[w] : mark[w] < m

RangeIInv ==
  /\ RangesTypeOK
  /\ IsFiniteSet(stored)
  /\ RangesFollowEachOther
  /\ OneOutstanding
  /\ NoGap
  /\ \A w \in Builders : BuilderInv(w)

(* What a builder holds leaves nothing out that came in time.              *)
HoldsAll ==
  \A w \in Builders : at[w] = "insert" =>
    \A m \in stored \ late : mark[w] < m /\ m <= Last(rows[w]) => m \in rows[w]

HoldsTies ==
  \A w \in Builders : at[w] = "insert" =>
    \A m \in stored \ tied :
      TimeOf[m] = TimeOf[Last(rows[w])] /\ Last(rows[w]) < m =>
        Cardinality(rows[w]) >= EqualLimit

(* A batch's messages, and where they begin and end.                       *)
LEMMA BatchFacts ==
  ASSUME RangesTypeOK, IsFiniteSet(stored), NEW b \in batches
  PROVE  /\ b.pred \in Nat
         /\ b.sources \subseteq stored /\ b.sources \subseteq Nat
         /\ IsFiniteSet(b.sources) /\ b.sources # {}
         /\ b.state \in RangeStates
         /\ Last(b.sources) \in b.sources /\ First(b.sources) \in b.sources
         /\ Last(b.sources) \in Nat /\ First(b.sources) \in Nat
         /\ Last(b.sources) > Origin
         /\ \A m \in b.sources : First(b.sources) <= m /\ m <= Last(b.sources)
<1>1. /\ b.pred \in Messages \cup {Origin}
      /\ b.sources \in SUBSET stored
      /\ b.state \in RangeStates
      /\ b.sources # {}
  BY DEF RangesTypeOK
<1>2. \A m \in Messages : m \in Nat /\ m > Origin
  BY RangesAssumption DEF Origin
<1>3. b.pred \in Nat
  BY <1>1, <1>2 DEF Origin
<1>8. \A m \in b.sources : m \in Messages
  BY <1>1 DEF RangesTypeOK
<1>4. b.sources \subseteq Nat /\ \A m \in b.sources : m \in Nat /\ m > Origin
  BY <1>2, <1>8
<1>5. IsFiniteSet(b.sources)
  BY <1>1, FS_Subset
<1>6. Last(b.sources) \in b.sources /\ \A m \in b.sources : m <= Last(b.sources)
  BY <1>1, <1>4, <1>5, LastIsLast
<1>7. First(b.sources) \in b.sources /\ \A m \in b.sources : First(b.sources) <= m
  BY <1>1, <1>4, <1>5, FirstIsFirst
<1> QED BY <1>1, <1>3, <1>4, <1>5, <1>6, <1>7

(* The same of what a builder has read.                                    *)
LEMMA RowFacts ==
  ASSUME RangesTypeOK, IsFiniteSet(stored), NEW w \in Builders, rows[w] # {}
  PROVE  /\ rows[w] \subseteq stored /\ rows[w] \subseteq Nat
         /\ Last(rows[w]) \in rows[w] /\ First(rows[w]) \in rows[w]
         /\ Last(rows[w]) \in Nat /\ First(rows[w]) \in Nat
         /\ Last(rows[w]) \in Messages
         /\ \A m \in rows[w] : First(rows[w]) <= m /\ m <= Last(rows[w])
<1>1. rows[w] \in SUBSET stored
  BY DEF RangesTypeOK
<1>2. Messages \subseteq Nat /\ stored \subseteq Messages
  BY RangesAssumption DEF RangesTypeOK
<1>3. rows[w] \subseteq Nat
  BY <1>1, <1>2
<1>4. IsFiniteSet(rows[w])
  BY <1>1, FS_Subset
<1>5. /\ Last(rows[w]) \in rows[w]
      /\ First(rows[w]) \in rows[w]
      /\ \A m \in rows[w] : First(rows[w]) <= m /\ m <= Last(rows[w])
  BY <1>3, <1>4, LastIsLast, FirstIsFirst
<1> QED BY <1>1, <1>2, <1>3, <1>5

LEMMA RangeInitInv == RangesInit => RangeIInv
<1> SUFFICES ASSUME RangesInit PROVE RangeIInv
  OBVIOUS
<1> USE DEF RangesInit
<1>1. RangesTypeOK
  BY DEF RangesTypeOK
<1>2. IsFiniteSet(stored)
  BY FS_EmptySet
<1>3. RangesFollowEachOther /\ OneOutstanding /\ NoGap
  BY DEF RangesFollowEachOther, OneOutstanding, NoGap
<1>4. \A w \in Builders : BuilderInv(w)
  BY DEF BuilderInv
<1> QED BY <1>1, <1>2, <1>3, <1>4 DEF RangeIInv

(* A step of builder w that leaves the batches and the messages alone.     *)
LEMMA BuilderStep ==
  ASSUME RangeIInv, UNCHANGED <<stored, batches, late, tied>>,
         at' \in [Builders -> {"idle", "watermark", "messages", "insert"}],
         mark' \in [Builders -> Messages \cup {Origin}],
         rows' \in [Builders -> SUBSET stored],
         \A w \in Builders : BuilderInv(w)'
  PROVE  RangeIInv'
<1>1. RangesTypeOK'
  BY DEF RangeIInv, RangesTypeOK
<1>2. RangesFollowEachOther' /\ OneOutstanding' /\ NoGap'
  BY DEF RangeIInv, RangesFollowEachOther, OneOutstanding, NoGap, Ends
<1> QED BY <1>1, <1>2 DEF RangeIInv

(* The watermark is the end of a complete batch.                           *)
LEMMA WatermarkIsAnEnd ==
  ASSUME RangesTypeOK, IsFiniteSet(stored)
  PROVE  /\ Watermark \in Messages \cup {Origin}
         /\ \/ Watermark = Origin
            \/ \E b \in batches : b.state = "complete" /\ Watermark = Last(b.sources)
<1> DEFINE L == Lasts({"complete"})
<1>1. \A b \in batches : Last(b.sources) \in stored /\ Last(b.sources) \in Nat
  BY BatchFacts
<1>2. L \subseteq stored /\ L \subseteq Nat
  BY <1>1 DEF Lasts
<1>3. IsFiniteSet(L)
  <2>1. L \in SUBSET stored
    BY <1>2
  <2> QED BY <2>1, FS_Subset
<1>4. L # {} => Last(L) \in L
  BY <1>2, <1>3, LastIsLast
<1>5. \A x \in L : \E b \in batches : b.state = "complete" /\ x = Last(b.sources)
  BY DEF Lasts
<1>6. stored \subseteq Messages
  BY DEF RangesTypeOK
<1>7. Watermark = IF L = {} THEN Origin ELSE Last(L)
  BY DEF Watermark
<1> HIDE DEF L
<1> QED BY <1>2, <1>4, <1>5, <1>6, <1>7

LEMMA BuilderKeeps ==
  ASSUME RangeIInv, NEW w \in Builders,
         CheckOutstanding(w) \/ ReadWatermark(w) \/ ReadMessages(w) \/ Abandon(w)
  PROVE  RangeIInv'
<1>0. /\ RangesTypeOK /\ IsFiniteSet(stored)
      /\ at \in [Builders -> {"idle", "watermark", "messages", "insert"}]
      /\ mark \in [Builders -> Messages \cup {Origin}]
      /\ rows \in [Builders -> SUBSET stored]
      /\ \A v \in Builders : BuilderInv(v)
  BY DEF RangeIInv, RangesTypeOK
<1>1. CASE CheckOutstanding(w)
  <2>1. \A v \in Builders : BuilderInv(v)'
    BY <1>0, <1>1 DEF CheckOutstanding, BuilderInv
  <2>2. at' \in [Builders -> {"idle", "watermark", "messages", "insert"}]
    BY <1>0, <1>1 DEF CheckOutstanding
  <2> QED BY <1>0, <1>1, <2>1, <2>2, BuilderStep DEF CheckOutstanding
<1>2. CASE ReadWatermark(w)
  <2>1. /\ Watermark \in Messages \cup {Origin}
        /\ \/ Watermark = Origin
           \/ \E b \in batches : b.state = "complete" /\ Watermark = Last(b.sources)
    BY <1>0, WatermarkIsAnEnd
  <2>2. \A v \in Builders : BuilderInv(v)'
    BY <1>0, <1>2, <2>1 DEF ReadWatermark, BuilderInv
  <2>3. /\ at' \in [Builders -> {"idle", "watermark", "messages", "insert"}]
        /\ mark' \in [Builders -> Messages \cup {Origin}]
    BY <1>0, <1>2, <2>1 DEF ReadWatermark
  <2> QED BY <1>0, <1>2, <2>2, <2>3, BuilderStep DEF ReadWatermark
<1>3. CASE ReadMessages(w)
  <2> DEFINE N == NextMessages(mark[w])
  <2>1. stored \subseteq Messages
    BY <1>0 DEF RangesTypeOK
  <2>2. N # {} => /\ N \subseteq stored /\ Cardinality(N) <= EqualLimit
                  /\ \A m \in N : mark[w] < m
    <3>1. mark[w] \in Nat
      <4>1. \A m \in Messages \cup {Origin} : m \in Nat
        BY RangesAssumption DEF Origin
      <4> QED BY <1>0, <4>1
    <3> QED BY <1>0, <2>1, <3>1, ReadsARange
  <2>3. /\ rows' = [rows EXCEPT ![w] = N]
        /\ at' = [at EXCEPT ![w] = IF N = {} THEN "idle" ELSE "insert"]
        /\ at[w] = "messages"
        /\ UNCHANGED <<stored, batches, mark, late, tied>>
    BY <1>3 DEF ReadMessages
  <2> HIDE DEF N
  <2>4. BuilderInv(w)'
    BY <1>0, <2>2, <2>3 DEF BuilderInv
  <2>5. \A v \in Builders \ {w} : BuilderInv(v)'
    BY <1>0, <2>3 DEF BuilderInv
  <2>6. /\ at' \in [Builders -> {"idle", "watermark", "messages", "insert"}]
        /\ rows' \in [Builders -> SUBSET stored]
    BY <1>0, <2>2, <2>3
  <2> QED BY <1>0, <2>3, <2>4, <2>5, <2>6, BuilderStep
<1>4. CASE Abandon(w)
  <2>1. \A v \in Builders : BuilderInv(v)'
    BY <1>0, <1>4 DEF Abandon, BuilderInv
  <2>2. /\ at' \in [Builders -> {"idle", "watermark", "messages", "insert"}]
        /\ rows' \in [Builders -> SUBSET stored]
    BY <1>0, <1>4 DEF Abandon
  <2> QED BY <1>0, <1>4, <2>1, <2>2, BuilderStep DEF Abandon
<1> QED BY <1>1, <1>2, <1>3, <1>4

LEMMA ArrivalKeeps ==
  ASSUME RangeIInv, NEW m \in Messages, Store(m)
  PROVE  RangeIInv'
<1>1. RangesTypeOK'
  <2>1. stored' = stored \cup {m} /\ UNCHANGED <<batches, at, mark, rows>>
        /\ late' \subseteq stored' /\ tied' \subseteq stored'
    BY DEF Store, RangeIInv, RangesTypeOK
  <2> QED BY <2>1 DEF RangeIInv, RangesTypeOK
<1>2. IsFiniteSet(stored)'
  BY FS_AddElement DEF Store, RangeIInv
<1>3. RangesFollowEachOther' /\ OneOutstanding' /\ NoGap' /\ \A w \in Builders : BuilderInv(w)'
  BY DEF Store, RangeIInv, RangesFollowEachOther, OneOutstanding, NoGap, Ends, BuilderInv
<1> QED BY <1>1, <1>2, <1>3 DEF RangeIInv

(* A batch ends: it keeps its place among the others.                      *)
LEMMA ResolveKeeps ==
  ASSUME RangeIInv, NEW b \in batches, NEW state \in {"complete", "dead"}, Resolve(b, state)
  PROVE  RangeIInv'
<1> DEFINE c == [b EXCEPT !.state = state]
           Old(o) == IF o = c THEN b ELSE o
<1>0. RangesTypeOK /\ RangesFollowEachOther /\ OneOutstanding /\ NoGap
      /\ \A w \in Builders : BuilderInv(w)
  BY DEF RangeIInv
<1>1. /\ b \in [pred : Messages \cup {Origin}, sources : SUBSET stored, state : RangeStates]
      /\ b.state = "ready"
      /\ batches' = (batches \ {b}) \cup {c}
      /\ UNCHANGED <<stored, at, mark, rows, late, tied>>
  BY <1>0 DEF Resolve, RangesTypeOK
<1>2. /\ c.pred = b.pred /\ c.sources = b.sources /\ c.state = state
      /\ c \in [pred : Messages \cup {Origin}, sources : SUBSET stored, state : RangeStates]
  BY <1>1 DEF RangeStates
<1> HIDE DEF c
<1>3. ASSUME NEW o \in batches'
      PROVE  /\ Old(o) \in batches
             /\ o.pred = Old(o).pred /\ o.sources = Old(o).sources
             /\ o.state # "complete" => Old(o).state # "complete"
  BY <1>1, <1>2
<1>4. ASSUME NEW o \in batches', NEW p \in batches', o # p PROVE Old(o) # Old(p)
  <2>1. \A q \in batches' : q # c => q # b
    BY <1>1
  <2>2. CASE o = c
    BY <1>4, <2>1, <2>2
  <2>3. CASE o # c
    BY <1>4, <2>1, <2>3
  <2> QED BY <2>2, <2>3
<1>5. ASSUME NEW o \in batches
      PROVE  \E p \in batches' : /\ p.pred = o.pred /\ p.sources = o.sources
                                 /\ o.state = "complete" => p.state = "complete"
  BY <1>1, <1>2
<1> HIDE DEF Old
<1>6. RangesTypeOK'
  <2>1. batches' \subseteq [pred : Messages \cup {Origin}, sources : SUBSET stored, state : RangeStates]
    BY <1>0, <1>1, <1>2 DEF RangesTypeOK
  <2>2. \A o \in batches' : o.sources # {} /\ Cardinality(o.sources) <= EqualLimit
    BY <1>0, <1>3 DEF RangesTypeOK
  <2> QED BY <1>0, <1>1, <2>1, <2>2 DEF RangesTypeOK
<1>7. RangesFollowEachOther'
  <2> SUFFICES ASSUME NEW o \in batches'
               PROVE  /\ o.pred # Origin => \E p \in batches' : o.pred = Last(p.sources)
                      /\ o.pred < First(o.sources)
                      /\ \A p \in batches' \ {o} :
                           Last(o.sources) < First(p.sources) \/ Last(p.sources) < First(o.sources)
    BY DEF RangesFollowEachOther
  <2>1. o.pred # Origin => \E p \in batches' : o.pred = Last(p.sources)
    <3>1. SUFFICES ASSUME o.pred # Origin PROVE \E p \in batches' : o.pred = Last(p.sources)
      OBVIOUS
    <3>2. PICK q \in batches : o.pred = Last(q.sources)
      BY <1>0, <1>3, <3>1 DEF RangesFollowEachOther
    <3> QED BY <1>5, <3>2
  <2>2. o.pred < First(o.sources)
    BY <1>0, <1>3 DEF RangesFollowEachOther
  <2>3. ASSUME NEW p \in batches' \ {o}
        PROVE  Last(o.sources) < First(p.sources) \/ Last(p.sources) < First(o.sources)
    <3>1. Old(p) \in batches \ {Old(o)} /\ Old(o) \in batches
      BY <1>3, <1>4
    <3>2. \/ Last(Old(o).sources) < First(Old(p).sources)
          \/ Last(Old(p).sources) < First(Old(o).sources)
      BY <1>0, <3>1 DEF RangesFollowEachOther
    <3> QED BY <1>3, <3>2
  <2> QED BY <2>1, <2>2, <2>3
<1>8. OneOutstanding'
  <2> SUFFICES ASSUME NEW o \in batches', NEW p \in batches', o.state # "complete"
               PROVE  /\ p.state # "complete" => o = p
                      /\ Last(p.sources) <= Last(o.sources)
    BY DEF OneOutstanding
  <2>1. Old(o) \in batches /\ Old(p) \in batches /\ Old(o).state # "complete"
    BY <1>3
  <2>2. p.state # "complete" => Old(o) = Old(p)
    BY <1>0, <1>3, <2>1 DEF OneOutstanding
  <2>3. Last(Old(p).sources) <= Last(Old(o).sources)
    BY <1>0, <2>1 DEF OneOutstanding
  <2> QED BY <1>3, <1>4, <2>2, <2>3
<1>9. NoGap'
  <2> SUFFICES ASSUME NEW x \in ({Origin} \cup Ends)', NEW o \in batches', x < Last(o.sources)
               PROVE  \E p \in batches' : p.pred = x
    BY DEF NoGap, Origin
  <2>1. x \in {Origin} \cup Ends
    BY <1>3 DEF Ends, Origin
  <2>2. Old(o) \in batches /\ x < Last(Old(o).sources)
    BY <1>3
  <2>3. PICK q \in batches : q.pred = x
    BY <1>0, <2>1, <2>2 DEF NoGap
  <2> QED BY <1>5, <2>3
<1>10. ASSUME NEW w \in Builders PROVE BuilderInv(w)'
  <2>1. BuilderInv(w)
    BY <1>0
  <2>2. ASSUME NEW q \in batches, q.state = "complete", mark[w] = Last(q.sources)
        PROVE  \E p \in batches' : p.state = "complete" /\ mark[w] = Last(p.sources)
    BY <1>5, <2>2
  <2> QED BY <1>1, <2>1, <2>2 DEF BuilderInv
<1> QED BY <1>1, <1>6, <1>7, <1>8, <1>9, <1>10 DEF RangeIInv

(* A batch that is inserted follows every other one, and all of those are  *)
(* complete: had another builder been first, its batch would have the      *)
(* predecessor, or follow one that has.                                    *)
LEMMA InsertedLast ==
  ASSUME RangeIInv, NEW w \in Builders, at[w] = "insert", ~Duplicate(w)
  PROVE  /\ mark[w] \in {Origin} \cup Ends /\ mark[w] \in Nat
         /\ \A b \in batches : Last(b.sources) <= mark[w]
         /\ \A b \in batches : b.state = "complete"
<1>0. /\ RangesTypeOK /\ IsFiniteSet(stored) /\ RangesFollowEachOther /\ OneOutstanding /\ NoGap
      /\ BuilderInv(w)
  BY DEF RangeIInv
<1>1. \/ mark[w] = Origin
      \/ \E b \in batches : b.state = "complete" /\ mark[w] = Last(b.sources)
  BY <1>0 DEF BuilderInv
<1>2. \A b \in batches : /\ Last(b.sources) \in Nat /\ First(b.sources) \in Nat
                         /\ Last(b.sources) > Origin
                         /\ First(b.sources) <= Last(b.sources)
  BY <1>0, BatchFacts
<1>3. mark[w] \in {Origin} \cup Ends /\ mark[w] \in Nat
  BY <1>1, <1>2 DEF Ends, Origin
<1>4. \A b \in batches : ~(mark[w] < Last(b.sources))
  BY <1>0, <1>3 DEF NoGap, Duplicate
<1>5. \A b \in batches : Last(b.sources) <= mark[w]
  BY <1>2, <1>3, <1>4
<1>6. ASSUME NEW b \in batches, b.state # "complete" PROVE FALSE
  <2>1. CASE mark[w] = Origin
    BY <1>2, <1>5, <2>1 DEF Origin
  <2>2. ASSUME NEW c \in batches, c.state = "complete", mark[w] = Last(c.sources) PROVE FALSE
    <3>1. Last(c.sources) <= Last(b.sources)
      BY <1>0, <1>6 DEF OneOutstanding
    <3>2. Last(c.sources) = Last(b.sources)
      BY <1>2, <1>5, <2>2, <3>1
    <3>3. Last(b.sources) < First(c.sources) \/ Last(c.sources) < First(b.sources)
      BY <1>0, <1>6, <2>2 DEF RangesFollowEachOther
    <3> QED BY <1>2, <3>2, <3>3
  <2> QED BY <1>1, <2>1, <2>2
<1> QED BY <1>3, <1>5, <1>6

LEMMA MaterializeKeeps ==
  ASSUME RangeIInv, NEW w \in Builders, Materialize(w)
  PROVE  RangeIInv'
<1> DEFINE n == [pred |-> mark[w], sources |-> rows[w], state |-> "ready"]
<1>0. /\ RangesTypeOK /\ IsFiniteSet(stored) /\ RangesFollowEachOther /\ OneOutstanding /\ NoGap
      /\ at \in [Builders -> {"idle", "watermark", "messages", "insert"}]
      /\ mark \in [Builders -> Messages \cup {Origin}]
      /\ rows \in [Builders -> SUBSET stored]
      /\ \A v \in Builders : BuilderInv(v)
  BY DEF RangeIInv, RangesTypeOK
<1>1. /\ at[w] = "insert"
      /\ at' = [at EXCEPT ![w] = "idle"] /\ rows' = [rows EXCEPT ![w] = {}]
      /\ UNCHANGED <<stored, mark, late, tied>>
      /\ batches' = IF Duplicate(w) THEN batches ELSE batches \cup {n}
  BY DEF Materialize
<1>2. /\ at' \in [Builders -> {"idle", "watermark", "messages", "insert"}]
      /\ mark' \in [Builders -> Messages \cup {Origin}]
      /\ rows' \in [Builders -> SUBSET stored]
  BY <1>0, <1>1
<1>3. \A v \in Builders : BuilderInv(v)'
  BY <1>0, <1>1 DEF BuilderInv
<1>4. CASE Duplicate(w)
  BY <1>1, <1>2, <1>3, <1>4, BuilderStep
<1>5. CASE ~Duplicate(w)
  <2>1. /\ mark[w] \in {Origin} \cup Ends /\ mark[w] \in Nat
        /\ \A b \in batches : Last(b.sources) <= mark[w]
        /\ \A b \in batches : b.state = "complete"
    BY <1>1, <1>5, InsertedLast
  <2>2. /\ rows[w] # {} /\ Cardinality(rows[w]) <= EqualLimit
        /\ \A m \in rows[w] : mark[w] < m
    BY <1>0, <1>1 DEF BuilderInv
  <2>3. /\ First(rows[w]) \in rows[w] /\ Last(rows[w]) \in rows[w]
        /\ First(rows[w]) \in Nat /\ Last(rows[w]) \in Nat
    BY <1>0, <2>2, RowFacts
  <2>4. mark[w] < First(rows[w]) /\ mark[w] < Last(rows[w])
    BY <2>2, <2>3
  <2>5. /\ n.pred = mark[w] /\ n.sources = rows[w] /\ n.state = "ready"
        /\ n \in [pred : Messages \cup {Origin}, sources : SUBSET stored, state : RangeStates]
    BY <1>0 DEF RangeStates
  <2> HIDE DEF n
  <2>6. batches' = batches \cup {n}
    BY <1>1, <1>5
  <2>7. \A b \in batches : Last(b.sources) \in Nat
    BY <1>0, BatchFacts
  <2>8. RangesTypeOK'
    BY <1>0, <1>1, <1>2, <2>2, <2>5, <2>6 DEF RangesTypeOK
  <2>9. RangesFollowEachOther'
    <3>1. ASSUME NEW b \in batches PROVE Last(b.sources) < First(rows[w])
      BY <2>1, <2>3, <2>4, <2>7
    <3>2. mark[w] # Origin => \E o \in batches : mark[w] = Last(o.sources)
      BY <2>1 DEF Ends
    <3> QED BY <1>0, <2>4, <2>5, <2>6, <3>1, <3>2 DEF RangesFollowEachOther
  <2>10. OneOutstanding'
    <3>1. ASSUME NEW b \in batches PROVE Last(b.sources) <= Last(rows[w])
      BY <2>1, <2>3, <2>4, <2>7
    <3>2. Last(rows[w]) <= Last(rows[w])
      BY <2>3
    <3> QED BY <2>1, <2>5, <2>6, <3>1, <3>2 DEF OneOutstanding
  <2>11. NoGap'
    <3> SUFFICES ASSUME NEW x \in ({Origin} \cup Ends)', NEW b \in batches', x < Last(b.sources)
                 PROVE  \E o \in batches' : o.pred = x
      BY DEF NoGap, Origin
    <3>1. x = Origin \/ x \in Ends \/ x = Last(rows[w])
      BY <2>5, <2>6 DEF Ends, Origin
    <3>2. x \in Nat
      BY <2>3, <2>7, <3>1 DEF Ends, Origin
    <3>3. Last(b.sources) <= Last(rows[w]) /\ Last(b.sources) \in Nat
      BY <2>1, <2>3, <2>4, <2>5, <2>6, <2>7
    <3>4. x # Last(rows[w])
      BY <2>3, <3>2, <3>3
    <3>5. x \in {Origin} \cup Ends
      BY <3>1, <3>4
    <3>6. x <= mark[w]
      BY <2>1, <3>5 DEF Ends, Origin
    <3>7. CASE x = mark[w]
      BY <2>5, <2>6, <3>7
    <3>8. CASE x < mark[w]
      <4>1. mark[w] \in Ends
        BY <2>1, <3>2, <3>8 DEF Origin
      <4>2. \E o \in batches : x < Last(o.sources)
        BY <3>8, <4>1 DEF Ends
      <4>3. \E o \in batches : o.pred = x
        BY <1>0, <3>5, <4>2 DEF NoGap
      <4> QED BY <2>6, <4>3
    <3> QED BY <2>1, <3>2, <3>6, <3>7, <3>8
  <2>12. \A v \in Builders : BuilderInv(v)'
    BY <1>3
  <2> QED BY <1>0, <1>1, <2>8, <2>9, <2>10, <2>11, <2>12 DEF RangeIInv
<1> QED BY <1>4, <1>5

LEMMA RangeStepInv == RangeIInv /\ [RangesNext]_rangesVars => RangeIInv'
<1> SUFFICES ASSUME RangeIInv, [RangesNext]_rangesVars PROVE RangeIInv'
  OBVIOUS
<1>1. CASE UNCHANGED rangesVars
  BY <1>1 DEF rangesVars, RangeIInv, RangesTypeOK, RangesFollowEachOther, OneOutstanding,
              NoGap, Ends, BuilderInv
<1>2. ASSUME NEW m \in Messages, Store(m) PROVE RangeIInv'
  BY <1>2, ArrivalKeeps
<1>3. ASSUME NEW w \in Builders, BuildRange(w) \/ Abandon(w) PROVE RangeIInv'
  BY <1>3, BuilderKeeps, MaterializeKeeps DEF BuildRange
<1>4. ASSUME NEW b \in batches, Resolve(b, "complete") \/ Resolve(b, "dead") PROVE RangeIInv'
  BY <1>4, ResolveKeeps
<1> QED BY <1>1, <1>2, <1>3, <1>4 DEF RangesNext

(* buildGroup without a transaction: the ranges follow each other, never   *)
(* overlap, and one at most is outstanding, whatever builders run at the   *)
(* same time, give up or die, and whenever messages arrive.                *)
THEOREM RangesAreAChain == RangesSpec => []RangeInv
<1>1. RangeIInv => RangeInv
  BY DEF RangeIInv, RangeInv
<1> QED BY <1>1, RangeInitInv, RangeStepInv, PTL DEF RangesSpec

(* What a step does to the ranges of the contract.                         *)
LEMMA OnlyOutstanding ==
  ASSUME RangeIInv, NEW b \in batches, b.state # "complete"
  PROVE  \A o \in batches \ {b} : o.state = "complete"
BY DEF RangeIInv, OneOutstanding

LEMMA BuildersImplement ==
  ASSUME RangeIInv, NEW w \in Builders, Materialize(w), ~Duplicate(w)
  PROVE  RangeContract!Take("group", rows[w])
<1> DEFINE n == [pred |-> mark[w], sources |-> rows[w], state |-> "ready"]
<1>1. /\ mark[w] \in Nat
      /\ \A b \in batches : Last(b.sources) <= mark[w] /\ b.state = "complete"
  BY InsertedLast DEF Materialize
<1>2. batches' = batches \cup {n}
  BY DEF Materialize
<1>3. rows[w] # {} /\ \A m \in rows[w] : mark[w] < m /\ m \in Nat
  BY RowFacts DEF RangeIInv, BuilderInv, Materialize
<1>4. n.state = "ready" /\ n.sources = rows[w]
  OBVIOUS
<1> HIDE DEF n
<1>5. SourcesIn("ready") = {} /\ SourcesIn("dead") = {}
  BY <1>1 DEF SourcesIn
<1>6. SourcesIn("ready")' = rows[w]
  BY <1>1, <1>2, <1>4 DEF SourcesIn
<1>7. SourcesIn("complete")' = SourcesIn("complete") /\ SourcesIn("dead")' = SourcesIn("dead")
  BY <1>2, <1>4 DEF SourcesIn
<1>8. \A m \in rows[w], d \in SourcesIn("complete") : d < m
  <2> SUFFICES ASSUME NEW m \in rows[w], NEW b \in batches, NEW d \in b.sources
               PROVE  d < m
    BY DEF SourcesIn
  <2>1. d <= Last(b.sources) /\ Last(b.sources) \in Nat /\ d \in Nat
    BY BatchFacts DEF RangeIInv
  <2> QED BY <1>1, <1>3, <2>1
<1> QED BY <1>3, <1>5, <1>6, <1>7, <1>8 DEF RangeContract!Take

LEMMA ResolutionsImplement ==
  ASSUME RangeIInv, NEW b \in batches
  PROVE  /\ Resolve(b, "complete") => RangeContract!Summarise("group")
         /\ Resolve(b, "dead") => RangeContract!GiveUp("group")
<1>1. /\ b.sources # {}
      /\ b \in [pred : Messages \cup {Origin}, sources : SUBSET stored, state : RangeStates]
  BY DEF RangeIInv, RangesTypeOK
<1>2. ASSUME NEW state \in {"complete", "dead"}, Resolve(b, state)
      PROVE  /\ SourcesIn("ready") = b.sources /\ SourcesIn("ready")' = {}
             /\ SourcesIn("dead") = {}
             /\ SourcesIn("complete")' =
                  IF state = "complete" THEN SourcesIn("complete") \cup b.sources
                                        ELSE SourcesIn("complete")
             /\ SourcesIn("dead")' = IF state = "dead" THEN b.sources ELSE {}
  <2> DEFINE n == [b EXCEPT !.state = state]
  <2>1. /\ b.state = "ready" /\ batches' = (batches \ {b}) \cup {n}
        /\ \A o \in batches \ {b} : o.state = "complete"
    BY <1>2, OnlyOutstanding DEF Resolve
  <2>2. n.sources = b.sources /\ n.state = state
    BY <1>1
  <2> HIDE DEF n
  <2> QED BY <2>1, <2>2 DEF SourcesIn
<1>3. Resolve(b, "complete") => RangeContract!Summarise("group")
  BY <1>1, <1>2 DEF RangeContract!Summarise
<1>4. Resolve(b, "dead") => RangeContract!GiveUp("group")
  BY <1>1, <1>2 DEF RangeContract!GiveUp
<1> QED BY <1>3, <1>4

(* Builders that check, read and insert without a transaction, messages    *)
(* that come in any order and batches that end either way keep to          *)
(* MemoryContract: every step is one of its steps or none.                 *)
THEOREM RangesKeepTheContract == RangesSpec => RangesImplementMemory
<1>1. RangesInit => RangeContract!Init
  BY DEF RangesInit, RangeContract!Init, SourcesIn
<1>2. RangeIInv /\ [RangesNext]_rangesVars => [RangeContract!Next]_(RangeContract!vars)
  <2> SUFFICES ASSUME RangeIInv, [RangesNext]_rangesVars
               PROVE  [RangeContract!Next]_(RangeContract!vars)
    OBVIOUS
  <2>1. CASE UNCHANGED batches
    BY <2>1 DEF RangeContract!vars, SourcesIn
  <2>2. ASSUME NEW w \in Builders, Materialize(w), ~Duplicate(w)
        PROVE  RangeContract!Next
    <3>1. rows[w] \in SUBSET Messages
      BY DEF RangeIInv, RangesTypeOK
    <3> QED BY <2>2, <3>1, BuildersImplement DEF RangeContract!Next
  <2>3. ASSUME NEW b \in batches, Resolve(b, "complete") \/ Resolve(b, "dead")
        PROVE  RangeContract!Next
    BY <2>3, ResolutionsImplement DEF RangeContract!Next
  <2>4. \/ UNCHANGED batches
        \/ \E w \in Builders : Materialize(w) /\ ~Duplicate(w)
        \/ \E b \in batches : Resolve(b, "complete") \/ Resolve(b, "dead")
    BY DEF RangesNext, Store, BuildRange, CheckOutstanding, ReadWatermark, ReadMessages,
           Materialize, Abandon, rangesVars
  <2> QED BY <2>1, <2>2, <2>3, <2>4
<1> QED BY <1>1, <1>2, RangeInitInv, RangeStepInv, PTL
        DEF RangesSpec, RangesImplementMemory, RangeContract!Spec

(* The last message of a batch, and of what a builder holds, is stored.    *)
LEMMA StoredMessages ==
  ASSUME RangeIInv
  PROVE  /\ stored \subseteq Messages
         /\ \A m \in Messages : m \in Nat /\ m > Origin /\ TimeOf[m] \in Nat
         /\ \A b \in batches : Last(b.sources) \in stored
         /\ \A w \in Builders : at[w] = "insert" => Last(rows[w]) \in stored
<1>0. RangesTypeOK /\ IsFiniteSet(stored) /\ \A w \in Builders : BuilderInv(w)
  BY DEF RangeIInv
<1>1. stored \subseteq Messages
  BY <1>0 DEF RangesTypeOK
<1>2. \A m \in Messages : m \in Nat /\ m > Origin /\ TimeOf[m] \in Nat
  BY RangesAssumption DEF Origin
<1>3. ASSUME NEW b \in batches PROVE Last(b.sources) \in stored
  BY <1>0, BatchFacts
<1>4. ASSUME NEW w \in Builders, at[w] = "insert" PROVE Last(rows[w]) \in stored
  <2>1. rows[w] # {}
    BY <1>0, <1>4 DEF BuilderInv
  <2> QED BY <1>0, <2>1, RowFacts
<1> QED BY <1>1, <1>2, <1>3, <1>4

(* What a step makes of the batches, and of what builders hold: what is    *)
(* inserted was held, and what is held was read just now or before.        *)
LEMMA StepShapes ==
  ASSUME RangeIInv, [RangesNext]_rangesVars
  PROVE  \/ \E m \in Messages : Store(m)
         \/ /\ UNCHANGED <<stored, late, tied>>
            /\ \A b \in batches' :
                 \/ \E o \in batches : o.sources = b.sources
                 \/ \E w \in Builders : /\ at[w] = "insert" /\ ~Duplicate(w)
                                        /\ b.sources = rows[w]
            /\ \A b \in batches : \E o \in batches' : o.sources = b.sources
            /\ \A w \in Builders : at'[w] = "insert" =>
                 \/ at[w] = "insert" /\ mark'[w] = mark[w] /\ rows'[w] = rows[w]
                 \/ /\ NextMessages(mark'[w]) # {}
                    /\ rows'[w] = NextMessages(mark'[w])
<1> DEFINE Shape ==
      /\ UNCHANGED <<stored, late, tied>>
      /\ \A b \in batches' :
           \/ \E o \in batches : o.sources = b.sources
           \/ \E w \in Builders : /\ at[w] = "insert" /\ ~Duplicate(w)
                                  /\ b.sources = rows[w]
      /\ \A b \in batches : \E o \in batches' : o.sources = b.sources
      /\ \A w \in Builders : at'[w] = "insert" =>
           \/ at[w] = "insert" /\ mark'[w] = mark[w] /\ rows'[w] = rows[w]
           \/ /\ NextMessages(mark'[w]) # {}
              /\ rows'[w] = NextMessages(mark'[w])
<1>0. /\ at \in [Builders -> {"idle", "watermark", "messages", "insert"}]
      /\ mark \in [Builders -> Messages \cup {Origin}]
      /\ rows \in [Builders -> SUBSET stored]
      /\ batches \subseteq [pred : Messages \cup {Origin}, sources : SUBSET stored, state : RangeStates]
  BY DEF RangeIInv, RangesTypeOK
<1>1. ASSUME UNCHANGED rangesVars PROVE Shape
  BY <1>1 DEF rangesVars
<1>2. ASSUME NEW w \in Builders, CheckOutstanding(w) \/ ReadWatermark(w) \/ Abandon(w) PROVE Shape
  BY <1>0, <1>2 DEF CheckOutstanding, ReadWatermark, Abandon
<1>3. ASSUME NEW w \in Builders, ReadMessages(w) PROVE Shape
  BY <1>0, <1>3 DEF ReadMessages
<1>4. ASSUME NEW w \in Builders, Materialize(w) PROVE Shape
  BY <1>0, <1>4 DEF Materialize
<1>5. ASSUME NEW b \in batches, NEW state, Resolve(b, state) PROVE Shape
  <2>1. [b EXCEPT !.state = state].sources = b.sources
    BY <1>0
  <2> QED BY <1>5, <2>1 DEF Resolve
<1> HIDE DEF Shape
<1>6. (\E m \in Messages : Store(m)) \/ Shape
  <2>1. ASSUME NEW w \in Builders, BuildRange(w) \/ Abandon(w) PROVE Shape
    BY <1>2, <1>3, <1>4, <2>1 DEF BuildRange
  <2>2. ASSUME NEW b \in batches, Resolve(b, "complete") \/ Resolve(b, "dead") PROVE Shape
    BY <1>5, <2>2
  <2>3. CASE RangesNext
    BY <2>1, <2>2, <2>3 DEF RangesNext
  <2> QED BY <1>1, <2>3
<1> QED BY <1>6 DEF Shape

LEMMA MarksAreNumbers ==
  RangeIInv' => \A w \in Builders : mark'[w] \in Nat
<1>1. \A m \in Messages \cup {Origin} : m \in Nat
  BY RangesAssumption DEF Origin
<1> QED BY <1>1 DEF RangeIInv, RangesTypeOK

LEMMA SkipStep ==
  ASSUME RangeIInv, NothingSkipped, HoldsAll, [RangesNext]_rangesVars
  PROVE  (NothingSkipped /\ HoldsAll)'
<1>3. \A w \in Builders : mark'[w] \in Nat
  BY RangeStepInv, MarksAreNumbers
<1>0. /\ stored \subseteq Messages
      /\ \A m \in Messages : m \in Nat /\ m > Origin
      /\ \A b \in batches : Last(b.sources) \in stored
      /\ \A w \in Builders : at[w] = "insert" => Last(rows[w]) \in stored
  BY StoredMessages
<1>1. ASSUME NEW m \in Messages, Store(m) PROVE (NothingSkipped /\ HoldsAll)'
  <2>1. /\ m \notin stored /\ stored' = stored \cup {m}
        /\ UNCHANGED <<batches, at, mark, rows>>
        /\ late \subseteq late'
        /\ m \notin late' => ~ReadBeyond(m)
    BY <1>1 DEF Store
  <2>2. ASSUME NEW b \in batches, m \notin late' PROVE ~(m <= Last(b.sources))
    <3>1. ~(m < Last(b.sources)) /\ m # Last(b.sources)
      BY <1>0, <2>1, <2>2 DEF ReadBeyond
    <3>2. m \in Nat /\ Last(b.sources) \in Nat
      BY <1>0
    <3> QED BY <3>1, <3>2
  <2>3. ASSUME NEW w \in Builders, at[w] = "insert", m \notin late' PROVE ~(m <= Last(rows[w]))
    <3>1. ~(m < Last(rows[w])) /\ m # Last(rows[w])
      BY <1>0, <2>1, <2>3 DEF ReadBeyond
    <3>2. m \in Nat /\ Last(rows[w]) \in Nat
      BY <1>0, <2>3
    <3> QED BY <3>1, <3>2
  <2>4. NothingSkipped'
    BY <2>1, <2>2 DEF NothingSkipped
  <2>5. HoldsAll'
    BY <2>1, <2>3 DEF HoldsAll
  <2> QED BY <2>4, <2>5
<1>2. CASE ~\E m \in Messages : Store(m)
  <2>1. /\ UNCHANGED <<stored, late>>
        /\ \A b \in batches' :
             \/ \E o \in batches : o.sources = b.sources
             \/ \E w \in Builders : /\ at[w] = "insert" /\ ~Duplicate(w)
                                    /\ b.sources = rows[w]
        /\ \A b \in batches : \E o \in batches' : o.sources = b.sources
        /\ \A w \in Builders : at'[w] = "insert" =>
             \/ at[w] = "insert" /\ mark'[w] = mark[w] /\ rows'[w] = rows[w]
             \/ /\ NextMessages(mark'[w]) # {}
                /\ rows'[w] = NextMessages(mark'[w])
    BY <1>2, StepShapes
  <2>2. ASSUME NEW m \in stored \ late, NEW b \in batches', m <= Last(b.sources)
        PROVE  \E o \in batches' : m \in o.sources
    <3>1. CASE \E o \in batches : o.sources = b.sources
      BY <2>1, <2>2, <3>1 DEF NothingSkipped
    <3>2. ASSUME NEW w \in Builders, at[w] = "insert", ~Duplicate(w), b.sources = rows[w]
          PROVE  \E o \in batches' : m \in o.sources
      <4>1. mark[w] \in {Origin} \cup Ends /\ mark[w] \in Nat
        BY <3>2, InsertedLast
      <4>2. CASE mark[w] < m
        BY <2>2, <3>2, <4>2 DEF HoldsAll
      <4>3. CASE ~(mark[w] < m)
        <5>1. m \in Nat /\ m > Origin
          BY <1>0
        <5>2. m <= mark[w] /\ mark[w] # Origin
          BY <4>1, <4>3, <5>1 DEF Origin
        <5>3. PICK o \in batches : mark[w] = Last(o.sources)
          BY <4>1, <5>2 DEF Ends
        <5>4. \E q \in batches : m \in q.sources
          BY <5>2, <5>3 DEF NothingSkipped
        <5> QED BY <2>1, <5>4
      <4> QED BY <4>2, <4>3
    <3> QED BY <2>1, <3>1, <3>2
  <2>3. ASSUME NEW w \in Builders, at'[w] = "insert", NEW m \in stored \ late,
               mark'[w] < m, m <= Last(rows'[w])
        PROVE  m \in rows'[w]
    <3>1. CASE at[w] = "insert" /\ mark'[w] = mark[w] /\ rows'[w] = rows[w]
      BY <2>3, <3>1 DEF HoldsAll
    <3>2. CASE NextMessages(mark'[w]) # {} /\ rows'[w] = NextMessages(mark'[w])
      <4>1. stored \subseteq Messages /\ IsFiniteSet(stored)
        BY <1>0 DEF RangeIInv
      <4>2. m \in stored /\ m <= Last(NextMessages(mark'[w]))
        BY <2>3, <3>2
      <4> QED BY <1>3, <2>3, <3>2, <4>1, <4>2, ReadsARange
    <3> QED BY <2>1, <2>3, <3>1, <3>2
  <2> QED BY <2>1, <2>2, <2>3 DEF NothingSkipped, HoldsAll
<1> QED BY <1>1, <1>2

(* No message before the end of a batch is left out, unless it was stored  *)
(* when somebody had read beyond it: not at the boundary of a window, not  *)
(* at a limit, not between messages of one second.                         *)
THEOREM NoMessageIsSkipped == RangesSpec => []NothingSkipped
<1>1. RangesInit => NothingSkipped /\ HoldsAll
  BY DEF RangesInit, NothingSkipped, HoldsAll
<1>2. RangeIInv /\ (NothingSkipped /\ HoldsAll) /\ [RangesNext]_rangesVars =>
        (NothingSkipped /\ HoldsAll)'
  BY SkipStep
<1> QED BY <1>1, <1>2, RangeInitInv, RangeStepInv, PTL DEF RangesSpec

LEMMA TiesStep ==
  ASSUME RangeIInv, EqualRowsTogether, HoldsTies, [RangesNext]_rangesVars
  PROVE  (EqualRowsTogether /\ HoldsTies)'
<1>3. \A w \in Builders : mark'[w] \in Nat
  BY RangeStepInv, MarksAreNumbers
<1>0. /\ stored \subseteq Messages /\ IsFiniteSet(stored)
      /\ \A m \in Messages : m \in Nat /\ TimeOf[m] \in Nat
      /\ \A b \in batches : Last(b.sources) \in stored
      /\ \A w \in Builders : at[w] = "insert" => Last(rows[w]) \in stored
  BY StoredMessages DEF RangeIInv
<1>1. ASSUME NEW m \in Messages, Store(m) PROVE (EqualRowsTogether /\ HoldsTies)'
  <2>1. /\ m \notin stored /\ stored' = stored \cup {m}
        /\ UNCHANGED <<batches, at, mark, rows>>
        /\ tied \subseteq tied'
        /\ m \notin tied' => ~ReadUpTo(m)
    BY <1>1 DEF Store
  <2>2. ASSUME NEW b \in batches, m \notin tied' PROVE TimeOf[m] # TimeOf[Last(b.sources)]
    <3>1. ~(TimeOf[m] <= TimeOf[Last(b.sources)])
      BY <2>1, <2>2 DEF ReadUpTo
    <3>2. TimeOf[m] \in Nat /\ TimeOf[Last(b.sources)] \in Nat
      BY <1>0
    <3> QED BY <3>1, <3>2
  <2>3. ASSUME NEW w \in Builders, at[w] = "insert", m \notin tied'
        PROVE  TimeOf[m] # TimeOf[Last(rows[w])]
    <3>1. ~(TimeOf[m] <= TimeOf[Last(rows[w])])
      BY <2>1, <2>3 DEF ReadUpTo
    <3>2. TimeOf[m] \in Nat /\ TimeOf[Last(rows[w])] \in Nat
      BY <1>0, <2>3
    <3> QED BY <3>1, <3>2
  <2>4. EqualRowsTogether'
    BY <2>1, <2>2 DEF EqualRowsTogether
  <2>5. HoldsTies'
    BY <2>1, <2>3 DEF HoldsTies
  <2> QED BY <2>4, <2>5
<1>2. CASE ~\E m \in Messages : Store(m)
  <2>1. /\ UNCHANGED <<stored, tied>>
        /\ \A b \in batches' :
             \/ \E o \in batches : o.sources = b.sources
             \/ \E w \in Builders : at[w] = "insert" /\ b.sources = rows[w]
        /\ \A w \in Builders : at'[w] = "insert" =>
             \/ at[w] = "insert" /\ rows'[w] = rows[w]
             \/ /\ NextMessages(mark'[w]) # {}
                /\ rows'[w] = NextMessages(mark'[w])
    BY <1>2, StepShapes
  <2>2. EqualRowsTogether'
    <3> SUFFICES ASSUME NEW b \in batches', NEW m \in stored \ tied,
                        TimeOf[m] = TimeOf[Last(b.sources)], Last(b.sources) < m
                 PROVE  Cardinality(b.sources) >= EqualLimit
      BY <2>1 DEF EqualRowsTogether
    <3>1. CASE \E o \in batches : o.sources = b.sources
      BY <3>1 DEF EqualRowsTogether
    <3>2. CASE \E w \in Builders : at[w] = "insert" /\ b.sources = rows[w]
      BY <3>2 DEF HoldsTies
    <3> QED BY <2>1, <3>1, <3>2
  <2>3. ASSUME NEW w \in Builders, at'[w] = "insert", NEW m \in stored \ tied,
               TimeOf[m] = TimeOf[Last(rows'[w])], Last(rows'[w]) < m
        PROVE  Cardinality(rows'[w]) >= EqualLimit
    <3>1. CASE at[w] = "insert" /\ rows'[w] = rows[w]
      BY <2>3, <3>1 DEF HoldsTies
    <3>2. CASE NextMessages(mark'[w]) # {} /\ rows'[w] = NextMessages(mark'[w])
      <4>1. /\ m \in stored /\ Last(NextMessages(mark'[w])) < m
            /\ TimeOf[m] = TimeOf[Last(NextMessages(mark'[w]))]
        BY <2>3, <3>2
      <4> QED BY <1>0, <1>3, <3>2, <4>1, ReadsARange
    <3> QED BY <2>1, <2>3, <3>1, <3>2
  <2> QED BY <2>1, <2>2, <2>3 DEF EqualRowsTogether, HoldsTies
<1> QED BY <1>1, <1>2

(* Messages of one second that were there when it was read are in one      *)
(* batch, unless that is full (the extension of nextMessages).             *)
THEOREM OneSecondIsOneBatch == RangesSpec => []EqualRowsTogether
<1>1. RangesInit => EqualRowsTogether /\ HoldsTies
  BY DEF RangesInit, EqualRowsTogether, HoldsTies
<1>2. RangeIInv /\ (EqualRowsTogether /\ HoldsTies) /\ [RangesNext]_rangesVars =>
        (EqualRowsTogether /\ HoldsTies)'
  BY TiesStep
<1> QED BY <1>1, <1>2, RangeInitInv, RangeStepInv, PTL DEF RangesSpec

-----------------------------------------------------------------------------
(* What MemoryPrompt shows of a batch.                                     *)

(* Induction over an interval, for a set.                                  *)
LEMMA SetInduction ==
  ASSUME NEW n \in Nat, NEW T, 0 \in T, \A k \in 0 .. n : k \in T /\ k < n => k + 1 \in T
  PROVE  \A k \in 0 .. n : k \in T
<1> DEFINE B == {k \in 0 .. n : k \notin T}
<1> SUFFICES ASSUME B # {} PROVE FALSE
  OBVIOUS
<1>0. 0 \in Int /\ n \in Int
  OBVIOUS
<1>1. IsFiniteSet(B) /\ B \subseteq Nat
  <2>1. IsFiniteSet(0 .. n)
    BY <1>0, FS_Interval
  <2> QED BY <2>1, FS_Subset
<1>2. First(B) \in B /\ \A k \in B : First(B) <= k
  BY <1>1, FirstIsFirst
<1> DEFINE f == First(B)
<1> HIDE DEF f
<1>3. f \in 0 .. n /\ f \notin T /\ \A k \in B : f <= k
  BY <1>2 DEF f
<1>4. f # 0 /\ f - 1 \in 0 .. n /\ f - 1 < n
  BY <1>3
<1>5. f - 1 \notin B
  BY <1>3, <1>4
<1>6. f - 1 \in T
  BY <1>4, <1>5
<1>7. (f - 1) + 1 \in T
  BY <1>4, <1>6
<1> QED BY <1>3, <1>7

(* SumOf adds up.                                                          *)
LEMMA SumIsASum ==
  ASSUME NEW s \in Seq(Nat)
  PROVE  \E f \in [0 .. Len(s) -> Nat] :
            /\ f[0] = 0 /\ \A k \in 1 .. Len(s) : f[k] = f[k - 1] + s[k]
            /\ SumOf(s) = f[Len(s)]
<1> DEFINE P(g) == g = [k \in 0 .. Len(s) |-> IF k = 0 THEN 0 ELSE g[k - 1] + s[k]]
           T == {n \in 0 .. Len(s) :
                   \E f \in [0 .. n -> Nat] : f[0] = 0 /\ \A k \in 1 .. n : f[k] = f[k - 1] + s[k]}
<1>0. Len(s) \in Nat /\ \A k \in 1 .. Len(s) : s[k] \in Nat
  OBVIOUS
<1>1. 0 \in T
  <2> DEFINE z == [k \in 0 .. 0 |-> 0]
  <2>1. z \in [0 .. 0 -> Nat] /\ z[0] = 0 /\ \A k \in 1 .. 0 : z[k] = z[k - 1] + s[k]
    OBVIOUS
  <2>2. 0 \in 0 .. Len(s)
    BY <1>0
  <2> HIDE DEF z
  <2> QED BY <2>1, <2>2
<1>2. ASSUME NEW n \in 0 .. Len(s), n \in T, n < Len(s) PROVE n + 1 \in T
  <2>1. PICK f \in [0 .. n -> Nat] : f[0] = 0 /\ \A k \in 1 .. n : f[k] = f[k - 1] + s[k]
    BY <1>2
  <2>2. n \in Nat /\ n + 1 \in 1 .. Len(s) /\ s[n + 1] \in Nat /\ f[n] \in Nat
    BY <1>0, <1>2
  <2> DEFINE g == [k \in 0 .. (n + 1) |-> IF k = n + 1 THEN f[n] + s[n + 1] ELSE f[k]]
  <2>3. g \in [0 .. (n + 1) -> Nat]
    BY <2>2
  <2>4. g[0] = 0 /\ \A k \in 1 .. (n + 1) : g[k] = g[k - 1] + s[k]
    <3>1. g[0] = 0
      BY <2>1, <2>2
    <3>2. g[n + 1] = g[n] + s[n + 1] /\ (n + 1) - 1 = n
      BY <2>2
    <3>3. ASSUME NEW k \in 1 .. n PROVE g[k] = g[k - 1] + s[k]
      <4>1. k \in 0 .. (n + 1) /\ k - 1 \in 0 .. (n + 1) /\ k # n + 1 /\ k - 1 # n + 1
        BY <2>2
      <4> QED BY <2>1, <4>1
    <3>4. \A k \in 1 .. (n + 1) : k = n + 1 \/ k \in 1 .. n
      BY <2>2
    <3> HIDE DEF g
    <3> QED BY <3>1, <3>2, <3>3, <3>4
  <2>5. n + 1 \in 0 .. Len(s)
    BY <2>2
  <2> HIDE DEF g
  <2> QED BY <2>3, <2>4, <2>5
<1>3. Len(s) \in T
  <2>1. \A k \in 0 .. Len(s) : k \in T /\ k < Len(s) => k + 1 \in T
    BY <1>2
  <2> HIDE DEF T
  <2>2. \A k \in 0 .. Len(s) : k \in T
    BY <1>0, <1>1, <2>1, SetInduction
  <2> QED BY <1>0, <2>2
<1>4. PICK f \in [0 .. Len(s) -> Nat] : f[0] = 0 /\ \A k \in 1 .. Len(s) : f[k] = f[k - 1] + s[k]
  BY <1>3
<1>5. P(f)
  <2>1. \A k \in 0 .. Len(s) : k # 0 => k \in 1 .. Len(s)
    BY <1>0
  <2>2. \A k \in 0 .. Len(s) : f[k] = IF k = 0 THEN 0 ELSE f[k - 1] + s[k]
    BY <1>4, <2>1
  <2> QED BY <2>2
<1> DEFINE g == CHOOSE h : P(h)
<1>6. P(g)
  BY <1>5, Zenon
<1>7. SumOf(s) = g[Len(s)]
  BY Zenon DEF SumOf
<1> HIDE DEF g
<1>8. g[0] = 0 /\ \A k \in 1 .. Len(s) : g[k] = g[k - 1] + s[k]
  BY <1>0, <1>6
<1>9. \A k \in 0 .. Len(s) : g[k] \in Nat
  <2> DEFINE U == {k \in 0 .. Len(s) : g[k] \in Nat}
  <2>1. 0 \in U
    BY <1>0, <1>8
  <2>2. \A k \in 0 .. Len(s) : k \in U /\ k < Len(s) => k + 1 \in U
    <3> SUFFICES ASSUME NEW k \in 0 .. Len(s), k \in U, k < Len(s) PROVE k + 1 \in U
      OBVIOUS
    <3>1. k + 1 \in 1 .. Len(s) /\ g[k] \in Nat /\ (k + 1) - 1 = k
      BY <1>0
    <3>2. g[k + 1] = g[k] + s[k + 1] /\ s[k + 1] \in Nat
      BY <1>0, <1>8, <3>1
    <3>3. k + 1 \in 0 .. Len(s)
      BY <1>0
    <3> QED BY <3>1, <3>2, <3>3
  <2> HIDE DEF U
  <2>3. \A k \in 0 .. Len(s) : k \in U
    BY <1>0, <2>1, <2>2, SetInduction
  <2> QED BY <2>3 DEF U
<1>10. g \in [0 .. Len(s) -> Nat]
  BY <1>6, <1>9
<1> QED BY <1>7, <1>8, <1>10

LEMMA SumOfAppended ==
  ASSUME NEW s \in Seq(Nat), NEW x \in Nat
  PROVE  SumOf(s) \in Nat /\ SumOf(Append(s, x)) = SumOf(s) + x
<1> DEFINE t == Append(s, x)
           n == Len(s)
<1>1. t \in Seq(Nat) /\ Len(t) = n + 1 /\ t[n + 1] = x /\ n \in Nat /\ \A k \in 1 .. n : t[k] = s[k]
  OBVIOUS
<1>2. PICK f \in [0 .. n -> Nat] : /\ f[0] = 0 /\ \A k \in 1 .. n : f[k] = f[k - 1] + s[k]
                                   /\ SumOf(s) = f[n]
  BY SumIsASum
<1>3. PICK g \in [0 .. (n + 1) -> Nat] : /\ g[0] = 0 /\ \A k \in 1 .. (n + 1) : g[k] = g[k - 1] + t[k]
                                       /\ SumOf(t) = g[n + 1]
  <2> HIDE DEF t
  <2> QED BY <1>1, SumIsASum
<1> HIDE DEF t, n
<1>4. \A k \in 0 .. n : k \in {j \in 0 .. n : g[j] = f[j]}
  <2> DEFINE U == {j \in 0 .. n : g[j] = f[j]}
  <2>1. 0 \in U
    BY <1>1, <1>2, <1>3
  <2>2. \A k \in 0 .. n : k \in U /\ k < n => k + 1 \in U
    <3> SUFFICES ASSUME NEW k \in 0 .. n, k \in U, k < n PROVE k + 1 \in U
      OBVIOUS
    <3>1. k + 1 \in 1 .. n /\ k + 1 \in 1 .. (n + 1) /\ (k + 1) - 1 = k
      BY <1>1
    <3> QED BY <1>1, <1>2, <1>3, <3>1
  <2> HIDE DEF U
  <2>3. \A k \in 0 .. n : k \in U
    BY <1>1, <2>1, <2>2, SetInduction
  <2> QED BY <2>3 DEF U
<1>5. g[n] = f[n] /\ g[n + 1] = g[n] + t[n + 1] /\ f[n] \in Nat
  BY <1>1, <1>2, <1>3, <1>4
<1> QED BY <1>1, <1>2, <1>3, <1>5 DEF t

LEMMA SumOfNothing == SumOf(<<>>) = 0
<1>1. <<>> \in Seq(Nat) /\ Len(<<>>) = 0
  OBVIOUS
<1> QED BY <1>1, SumIsASum

LEMMA TruncatedText ==
  ASSUME NEW t \in Seq(Nat), NEW most \in Nat
  PROVE  LET c == TruncateScalars(t, most) IN
         /\ c \in Seq(Nat) /\ Len(c) = Smaller(Len(t), most) /\ Len(c) \in Nat /\ Len(c) <= Len(t)
         /\ \A i \in 1 .. Len(c) : c[i] = t[i]
<1> DEFINE n == Smaller(Len(t), most)
<1>1. n \in Nat /\ n <= Len(t) /\ Len(t) \in Nat
  BY DEF Smaller
<1> HIDE DEF n
<1>2. 1 \in 1 .. (Len(t) + 1) /\ n \in 0 .. Len(t)
  BY <1>1
<1>3. /\ SubSeq(t, 1, n) \in Seq(Nat) /\ Len(SubSeq(t, 1, n)) = n
      /\ \A i \in 1 .. n : SubSeq(t, 1, n)[i] = t[i]
  BY <1>1, <1>2, SubSeqProperties
<1> QED BY <1>1, <1>3 DEF TruncateScalars, n

(* A text that agrees with another as far as it goes is that one, cut.      *)
LEMMA PrefixIsCut ==
  ASSUME NEW t \in Seq(Nat), NEW c \in Seq(Nat), Len(c) <= Len(t), \A i \in 1 .. Len(c) : c[i] = t[i]
  PROVE  c = TruncateScalars(t, Len(c))
<1> DEFINE d == TruncateScalars(t, Len(c))
<1>1. Len(c) \in Nat /\ Len(t) \in Nat
  OBVIOUS
<1>2. d \in Seq(Nat) /\ Len(d) = Len(c) /\ \A i \in 1 .. Len(d) : d[i] = t[i]
  BY <1>1, TruncatedText DEF Smaller
<1> HIDE DEF d
<1>3. \A i \in 1 .. Len(c) : c[i] = d[i]
  BY <1>2
<1>4. c = d
  BY <1>2, <1>3, SeqEqual
<1> QED BY <1>4 DEF d

LEMMA LengthIsANumber ==
  ASSUME NEW t \in Seq(Nat)
  PROVE  \A cut \in BOOLEAN : Length(t, cut) \in Nat /\ Length(t, cut) <= Length(t, TRUE)
<1>1. SumOf(t) \in Nat
  BY SumOfAppended
<1>2. Envelope \in Nat /\ Mark \in Nat
  BY PromptAssumption
<1> QED BY <1>1, <1>2 DEF Length

RowsShown == [of : Messages, text : Seq(Nat), cut : BOOLEAN]

LEMMA PromptLengthGrows ==
  ASSUME NEW shown \in Seq(RowsShown), NEW r \in RowsShown
  PROVE  /\ PromptLength(shown) \in Nat
         /\ PromptLength(Append(shown, r)) =
              PromptLength(shown) + Length(r.text, r.cut) + (IF shown = <<>> THEN 0 ELSE 1)
<1> DEFINE n == Len(shown)
           more == Append(shown, r)
           lengths == [i \in 1 .. n |-> LengthOfRow(shown, i)]
           last == Length(r.text, r.cut) + (IF shown = <<>> THEN 0 ELSE 1)
<1>1. n \in Nat /\ DOMAIN shown = 1 .. n /\ \A i \in 1 .. n : shown[i] \in RowsShown
  OBVIOUS
<1>2. Len(more) = n + 1 /\ more[n + 1] = r /\ \A i \in 1 .. n : more[i] = shown[i]
  OBVIOUS
<1>3. \A x \in RowsShown : x.text \in Seq(Nat) /\ x.cut \in BOOLEAN /\ Length(x.text, x.cut) \in Nat
  BY LengthIsANumber DEF RowsShown
<1>4. \A i \in 1 .. n : LengthOfRow(shown, i) \in Nat
  BY <1>1, <1>3 DEF LengthOfRow
<1>5. lengths \in Seq(Nat) /\ Len(lengths) = n
  BY <1>1, <1>4
<1>6. n = 0 <=> shown = <<>>
  OBVIOUS
<1>7. last \in Nat
  BY <1>3
<1>8. LengthOfRow(more, n + 1) = last
  BY <1>1, <1>2, <1>6 DEF LengthOfRow
<1>9. \A i \in 1 .. n : LengthOfRow(more, i) = LengthOfRow(shown, i)
  BY <1>2 DEF LengthOfRow
<1> DEFINE all == [i \in 1 .. Len(more) |-> LengthOfRow(more, i)]
<1>10. all = Append(lengths, last)
  <2> DEFINE longer == Append(lengths, last)
  <2>0. Append(lengths, last) \in Seq(Nat) /\ Len(Append(lengths, last)) = n + 1
        /\ Append(lengths, last)[n + 1] = last /\ \A i \in 1 .. n : Append(lengths, last)[i] = lengths[i]
    <3> HIDE DEF last, lengths
    <3> QED BY <1>5, <1>7
  <2>1. \A i \in 1 .. n + 1 : i = n + 1 \/ i \in 1 .. n
    BY <1>1
  <2>2. \A i \in 1 .. n : lengths[i] = LengthOfRow(shown, i) /\ lengths[i] \in Nat
    BY <1>4
  <2> HIDE DEF last, more, lengths
  <2>3. \A i \in 1 .. n + 1 : LengthOfRow(more, i) = longer[i] /\ longer[i] \in Nat
    BY <1>7, <1>8, <1>9, <2>0, <2>1, <2>2
  <2>4. all \in Seq(Nat) /\ Len(all) = n + 1 /\ \A i \in 1 .. n + 1 : all[i] = longer[i]
    <3> HIDE DEF longer, n
    <3>1. all = [i \in 1 .. n + 1 |-> LengthOfRow(more, i)] /\ n + 1 \in Nat
      BY <1>1, <1>2
    <3>2. all \in [1 .. n + 1 -> Nat] /\ \A i \in 1 .. n + 1 : all[i] = longer[i]
      <4> HIDE DEF all
      <4> QED BY <2>3, <3>1
    <3> HIDE DEF all
    <3> QED BY <3>1, <3>2
  <2> HIDE DEF all
  <2> QED BY <2>0, <2>4, SeqEqual
<1>11. PromptLength(shown) = SumOf(lengths) /\ PromptLength(more) = SumOf(all)
  BY DEF PromptLength
<1> HIDE DEF last, lengths, all, more, n
<1>12. SumOf(lengths) \in Nat /\ SumOf(Append(lengths, last)) = SumOf(lengths) + last
  BY <1>5, <1>7, SumOfAppended
<1>13. PromptLength(shown) \in Nat /\ PromptLength(more) = PromptLength(shown) + last
  BY <1>10, <1>11, <1>12
<1>14. Length(r.text, r.cut) \in Nat
  BY <1>3
<1> QED BY <1>13, <1>14 DEF last, more

(* A row says of which message it is, and whether its text is all there.    *)
FaithfulRow(r, m) ==
  /\ r.of = m
  /\ r.cut <=> r.text # TextOf[m]
  /\ r.text = TruncateScalars(TextOf[m], Len(r.text))

SoFarFits(sofar, messages, k) ==
  /\ sofar \in [rows : Seq(RowsShown), remaining : Nat, full : BOOLEAN]
  /\ Len(sofar.rows) <= k /\ (~sofar.full => Len(sofar.rows) = k)
  /\ PromptLength(sofar.rows) + sofar.remaining = PromptRoom
  /\ \A i \in 1 .. Len(sofar.rows) : FaithfulRow(sofar.rows[i], messages[i])

(* One more message: the room that is left shrinks by what is shown of it.  *)
LEMMA WithMessageKeeps ==
  ASSUME NEW messages, NEW k \in Nat, NEW m \in Messages, messages[k + 1] = m,
         NEW sofar, SoFarFits(sofar, messages, k)
  PROVE  SoFarFits(WithMessage(sofar, m), messages, k + 1)
<1> DEFINE separator == IF sofar.rows = <<>> THEN 0 ELSE 1
           room   == sofar.remaining - separator
           capped == TruncateScalars(TextOf[m], Smaller(TextCap, sofar.remaining))
           isCut  == capped # TextOf[m]
           excess == Length(capped, TRUE) - room
           fits   == Length(capped, isCut) <= room
           most   == Len(capped) - Smaller(excess, Len(capped))
           text   == IF fits THEN capped ELSE TruncateScalars(capped, most)
           cut    == isCut \/ ~fits
           left   == room - Length(text, cut)
           r      == [of |-> m, text |-> text, cut |-> cut]
           next   == WithMessage(sofar, m)
<1>1. next = IF sofar.full \/ sofar.remaining <= 0 \/ left < 0 THEN [sofar EXCEPT !.full = TRUE]
             ELSE [sofar EXCEPT !.rows = Append(@, r), !.remaining = left]
  BY Zenon DEF WithMessage
<1>2. /\ sofar \in [rows : Seq(RowsShown), remaining : Nat, full : BOOLEAN]
      /\ Len(sofar.rows) <= k /\ (~sofar.full => Len(sofar.rows) = k)
      /\ PromptLength(sofar.rows) + sofar.remaining = PromptRoom
      /\ \A i \in 1 .. Len(sofar.rows) : FaithfulRow(sofar.rows[i], messages[i])
  BY DEF SoFarFits
<1>3. TextOf[m] \in Seq(Nat) /\ TextCap \in Nat
  BY PromptAssumption, RangesAssumption
<1>4. /\ capped \in Seq(Nat) /\ Len(capped) \in Nat /\ Len(capped) <= Len(TextOf[m])
      /\ \A i \in 1 .. Len(capped) : capped[i] = TextOf[m][i]
  <2>1. Smaller(TextCap, sofar.remaining) \in Nat
    BY <1>2, <1>3 DEF Smaller
  <2> QED BY <1>3, <2>1, TruncatedText
<1> HIDE DEF capped
<1>c. isCut \in BOOLEAN /\ TRUE \in BOOLEAN
  OBVIOUS
<1> DEFINE asCut  == Length(capped, TRUE)
           asRead == Length(capped, isCut)
<1>l. asCut \in Nat /\ asRead \in Nat /\ asRead <= asCut
  <2> HIDE DEF isCut
  <2> QED BY <1>4, <1>c, LengthIsANumber
<1>r. room \in Int
  BY <1>2
<1>f. fits <=> asRead <= room
  OBVIOUS
<1>e. excess = asCut - room
  OBVIOUS
<1>5. excess \in Int
  <2> HIDE DEF room, asCut, excess, asRead
  <2> QED BY <1>l, <1>r, <1>e
<1>6. ASSUME ~fits, ~(left < 0) PROVE most \in Nat /\ most < Len(capped)
  <2>2. excess > 0
    <3> HIDE DEF room, asCut, asRead, excess, fits
    <3> QED BY <1>6, <1>l, <1>r, <1>f, <1>e
  <2>3. CASE Len(capped) # 0
    <3> HIDE DEF excess
    <3> QED BY <1>4, <1>5, <2>2, <2>3 DEF Smaller
  <2>4. CASE Len(capped) = 0
    <3>1. most = 0
      <4> HIDE DEF excess
      <4>1. Smaller(excess, 0) = 0
        BY <1>5, <2>2 DEF Smaller
      <4> QED BY <2>4, <4>1
    <3>2. TruncateScalars(capped, 0) = capped
      <4>1. capped = TruncateScalars(capped, Len(capped))
        BY <1>4, PrefixIsCut
      <4> QED BY <2>4, <4>1
    <3>3. text = capped /\ cut
      BY <1>6, <3>1, <3>2
    <3>4. left = room - asCut
      <4> HIDE DEF room, fits, isCut, text, cut
      <4>1. cut = TRUE
        BY <3>3 DEF cut
      <4> QED BY <3>3, <4>1
    <3>5. left < 0
      <4> HIDE DEF left, room, asCut, asRead, excess
      <4> QED BY <1>l, <1>r, <1>e, <2>2, <3>4
    <3> QED BY <1>6, <3>5
  <2> QED BY <2>3, <2>4
<1> HIDE DEF excess, most
<1>7. ASSUME ~(left < 0)
      PROVE  /\ text \in Seq(Nat) /\ Len(text) <= Len(TextOf[m])
             /\ \A i \in 1 .. Len(text) : text[i] = TextOf[m][i]
             /\ cut <=> text # TextOf[m]
  <2>1. CASE fits
    BY <1>4, <2>1
  <2>2. CASE ~fits
    <3>1. most \in Nat /\ most < Len(capped)
      BY <1>6, <1>7, <2>2
    <3>2. /\ text \in Seq(Nat) /\ Len(text) = most /\ \A i \in 1 .. most : text[i] = capped[i]
      <4>1. text = TruncateScalars(capped, most)
        BY <2>2
      <4>2. Smaller(Len(capped), most) = most
        BY <1>4, <3>1 DEF Smaller
      <4> HIDE DEF text
      <4> QED BY <1>4, <3>1, <4>1, <4>2, TruncatedText
    <3> HIDE DEF text, fits
    <3>3. Len(text) < Len(TextOf[m]) /\ \A i \in 1 .. Len(text) : text[i] = TextOf[m][i]
      <4>1. Len(TextOf[m]) \in Nat /\ Len(text) < Len(TextOf[m])
        BY <1>3, <1>4, <3>1, <3>2
      <4>2. \A i \in 1 .. Len(text) : i \in 1 .. most /\ i \in 1 .. Len(capped)
        BY <1>4, <3>1, <3>2
      <4> QED BY <1>4, <3>2, <4>1, <4>2
    <3>4. text # TextOf[m]
      BY <1>3, <3>2, <3>3
    <3> QED BY <1>3, <2>2, <3>2, <3>3, <3>4
  <2> QED BY <2>1, <2>2
<1>8. CASE sofar.full \/ sofar.remaining <= 0 \/ left < 0
  <2>1. next = [sofar EXCEPT !.full = TRUE]
    BY <1>1, <1>8
  <2> HIDE DEF next
  <2>2. /\ next \in [rows : Seq(RowsShown), remaining : Nat, full : BOOLEAN]
        /\ next.rows = sofar.rows /\ next.remaining = sofar.remaining /\ next.full
    BY <1>2, <2>1
  <2>3. SoFarFits(next, messages, k + 1)
    BY <1>2, <2>2 DEF SoFarFits
  <2> QED BY <2>3 DEF next
<1>9. CASE ~(sofar.full \/ sofar.remaining <= 0 \/ left < 0)
  <2>1. next = [sofar EXCEPT !.rows = Append(@, r), !.remaining = left]
    BY <1>1, <1>9
  <2>2. /\ text \in Seq(Nat) /\ Len(text) <= Len(TextOf[m])
        /\ \A i \in 1 .. Len(text) : text[i] = TextOf[m][i]
        /\ cut <=> text # TextOf[m]
    BY <1>7, <1>9
  <2>3. cut \in BOOLEAN /\ Length(text, cut) \in Nat
    BY <2>2, LengthIsANumber
  <2> HIDE DEF text, cut, next
  <2>4. r \in RowsShown /\ r.of = m /\ r.text = text /\ r.cut = cut
    BY <2>2, <2>3 DEF RowsShown
  <2>5. text = TruncateScalars(TextOf[m], Len(text))
    BY <1>3, <2>2, PrefixIsCut
  <2>6. FaithfulRow(r, m)
    BY <2>2, <2>4, <2>5 DEF FaithfulRow
  <2> HIDE DEF r
  <2>7. PromptLength(Append(sofar.rows, r)) = PromptLength(sofar.rows) + Length(text, cut) + separator
    BY <1>2, <2>4, PromptLengthGrows
  <2>8. PromptLength(sofar.rows) \in Nat
    BY <1>2, <2>4, PromptLengthGrows
  <2>9. left \in Nat /\ left = sofar.remaining - separator - Length(text, cut) /\ separator \in Nat
    BY <1>2, <1>9, <2>3
  <2> HIDE DEF left, separator
  <2>10. PromptLength(Append(sofar.rows, r)) + left = PromptRoom
    BY <1>2, <2>3, <2>7, <2>8, <2>9
  <2>11. /\ next \in [rows : Seq(RowsShown), remaining : Nat, full : BOOLEAN]
         /\ next.rows = Append(sofar.rows, r) /\ next.remaining = left /\ next.full = sofar.full
    <3>1. Append(sofar.rows, r) \in Seq(RowsShown)
      BY <1>2, <2>4
    <3> QED BY <1>2, <2>1, <2>9, <3>1
  <2>12. Len(sofar.rows) = k
    BY <1>2, <1>9
  <2>13. Len(next.rows) = k + 1 /\ next.rows[k + 1] = r /\ \A i \in 1 .. k : next.rows[i] = sofar.rows[i]
    BY <1>2, <2>4, <2>11, <2>12
  <2>14. \A i \in 1 .. k + 1 : i = k + 1 \/ i \in 1 .. k
    OBVIOUS
  <2>15. \A i \in 1 .. Len(next.rows) : FaithfulRow(next.rows[i], messages[i])
    BY <1>2, <2>6, <2>12, <2>13, <2>14
  <2>16. SoFarFits(next, messages, k + 1)
    BY <2>10, <2>11, <2>13, <2>15 DEF SoFarFits
  <2> QED BY <2>16 DEF next
<1> QED BY <1>8, <1>9

(* What is shown of all messages is what a step after the other shows.      *)
LEMMA EnvelopesFit ==
  ASSUME NEW messages \in Seq(Messages)
  PROVE  \E sofar : /\ SoFarFits(sofar, messages, Len(messages))
                    /\ Envelopes(messages) = sofar.rows
<1> DEFINE n == Len(messages)
           next(x, k) == IF k = 0 THEN NoEnvelopes ELSE WithMessage(x[k - 1], messages[k])
           P(g) == g = [k \in 0 .. Len(messages) |-> IF k = 0 THEN NoEnvelopes
                                                     ELSE WithMessage(g[k - 1], messages[k])]
           T == {j \in 0 .. n : \E f : DOMAIN f = 0 .. j /\ \A k \in 0 .. j : f[k] = next(f, k)}
<1>0. n \in Nat /\ \A k \in 1 .. n : messages[k] \in Messages
  OBVIOUS
<1>1. 0 \in T
  <2> DEFINE f == [k \in 0 .. 0 |-> NoEnvelopes]
  <2>1. DOMAIN f = 0 .. 0 /\ \A k \in 0 .. 0 : f[k] = next(f, k)
    OBVIOUS
  <2> HIDE DEF f, next
  <2> QED BY <1>0, <2>1
<1>2. \A j \in 0 .. n : j \in T /\ j < n => j + 1 \in T
  <2> SUFFICES ASSUME NEW j \in 0 .. n, j \in T, j < n PROVE j + 1 \in T
    OBVIOUS
  <2>1. PICK f : DOMAIN f = 0 .. j /\ \A k \in 0 .. j : f[k] = next(f, k)
    OBVIOUS
  <2> DEFINE w == WithMessage(f[j], messages[j + 1])
             g == [k \in 0 .. (j + 1) |-> IF k = j + 1 THEN w ELSE f[k]]
  <2>2. j \in Nat /\ j + 1 \in 0 .. n /\ (j + 1) - 1 = j /\ j + 1 # 0 /\ j # j + 1
    BY <1>0
  <2>3. g[j + 1] = next(g, j + 1)
    <3>1. g[j + 1] = w /\ g[j] = f[j]
      BY <2>2
    <3> HIDE DEF g
    <3> QED BY <2>2, <3>1
  <2>4. ASSUME NEW k \in 0 .. j PROVE g[k] = next(g, k)
    <3>1. g[k] = f[k] /\ f[k] = next(f, k)
      BY <2>1, <2>2
    <3>2. k # 0 => g[k - 1] = f[k - 1]
      BY <2>2
    <3> HIDE DEF g
    <3> QED BY <3>1, <3>2
  <2>5. \A k \in 0 .. (j + 1) : k = j + 1 \/ k \in 0 .. j
    BY <2>2
  <2>6. DOMAIN g = 0 .. (j + 1)
    OBVIOUS
  <2> HIDE DEF g, next
  <2>7. \A k \in 0 .. (j + 1) : g[k] = next(g, k)
    BY <2>3, <2>4, <2>5
  <2> QED BY <2>2, <2>6, <2>7
<1>3. n \in T
  <2> HIDE DEF T, n
  <2>1. \A k \in 0 .. n : k \in T
    BY <1>0, <1>1, <1>2, SetInduction
  <2> QED BY <1>0, <2>1
<1>4. PICK f : DOMAIN f = 0 .. n /\ \A k \in 0 .. n : f[k] = next(f, k)
  BY <1>3
<1>5. \E h : P(h)
  <2> DEFINE h == [k \in 0 .. n |-> f[k]]
  <2>1. \A k \in 0 .. n : k # 0 => k - 1 \in 0 .. n
    BY <1>0
  <2>2. \A k \in 0 .. n : h[k] = f[k]
    OBVIOUS
  <2>3. \A k \in 0 .. n : f[k] = next(h, k)
    <3> HIDE DEF h, n
    <3> QED BY <1>4, <2>1, <2>2
  <2>4. P(h)
    BY <2>3
  <2> QED BY <2>4
<1> DEFINE g == CHOOSE h : P(h)
<1>6. P(g)
  <2> HIDE DEF P
  <2> QED BY <1>5, Zenon
<1>7. Envelopes(messages) = g[n].rows
  BY Zenon DEF Envelopes
<1> HIDE DEF g
<1>8. \A k \in 0 .. n : g[k] = next(g, k)
  BY <1>0, <1>6
<1> HIDE DEF next, P
<1> DEFINE U == {k \in 0 .. n : SoFarFits(g[k], messages, k)}
<1>9. 0 \in U
  <2>1. g[0] = NoEnvelopes
    BY <1>0, <1>8 DEF next
  <2>2. PromptRoom \in Nat
    BY PromptAssumption
  <2>3. PromptLength(<<>>) = 0
    <3>1. Len(<<>>) = 0
      OBVIOUS
    <3>2. [i \in 1 .. 0 |-> LengthOfRow(<<>>, i)] = <<>>
      OBVIOUS
    <3> QED BY <3>1, <3>2, SumOfNothing DEF PromptLength
  <2>4. <<>> \in Seq(RowsShown) /\ Len(<<>>) = 0
    OBVIOUS
  <2>5. SoFarFits(NoEnvelopes, messages, 0)
    BY <2>2, <2>3, <2>4 DEF NoEnvelopes, SoFarFits
  <2> QED BY <1>0, <2>1, <2>5
<1>10. \A k \in 0 .. n : k \in U /\ k < n => k + 1 \in U
  <2> SUFFICES ASSUME NEW k \in 0 .. n, k \in U, k < n PROVE k + 1 \in U
    OBVIOUS
  <2>1. k \in Nat /\ k + 1 \in 0 .. n /\ k + 1 \in 1 .. n /\ (k + 1) - 1 = k /\ k + 1 # 0
    BY <1>0
  <2>2. g[k + 1] = WithMessage(g[k], messages[k + 1])
    BY <1>8, <2>1 DEF next
  <2>3. messages[k + 1] \in Messages
    BY <1>0, <2>1
  <2>4. SoFarFits(g[k + 1], messages, k + 1)
    BY <2>1, <2>2, <2>3, WithMessageKeeps
  <2> QED BY <2>1, <2>4
<1>11. \A k \in 0 .. n : k \in U
  <2> HIDE DEF U, n
  <2> QED BY <1>0, <1>9, <1>10, SetInduction
<1>12. SoFarFits(g[n], messages, n)
  BY <1>0, <1>11
<1> QED BY <1>7, <1>12

(* The prompt is faithful to any batch of messages.                         *)
LEMMA PromptIsAlwaysFaithful ==
  ASSUME NEW messages \in Seq(Messages)
  PROVE  PromptIsFaithful(messages)
<1>1. PICK sofar : /\ SoFarFits(sofar, messages, Len(messages))
                   /\ Envelopes(messages) = sofar.rows
  BY EnvelopesFit
<1>2. /\ sofar \in [rows : Seq(RowsShown), remaining : Nat, full : BOOLEAN]
      /\ Len(sofar.rows) <= Len(messages)
      /\ PromptLength(sofar.rows) + sofar.remaining = PromptRoom
      /\ \A i \in 1 .. Len(sofar.rows) : FaithfulRow(sofar.rows[i], messages[i])
  BY <1>1 DEF SoFarFits
<1>3. PICK shown \in Seq(RowsShown) : shown = sofar.rows
  BY <1>2
<1>4. PICK room \in Nat : room = sofar.remaining
  BY <1>2
<1>5. PromptLength(shown) \in Nat \/ shown = <<>>
  <2>1. ASSUME shown # <<>> PROVE PromptLength(shown) \in Nat
    <3>1. shown[1] \in RowsShown
      BY <2>1
    <3> QED BY <3>1, PromptLengthGrows
  <2> QED BY <2>1
<1>6. PromptLength(<<>>) = 0
  <2>1. Len(<<>>) = 0 /\ [i \in 1 .. 0 |-> LengthOfRow(<<>>, i)] = <<>>
    OBVIOUS
  <2> QED BY <2>1, SumOfNothing DEF PromptLength
<1>7. PromptLength(shown) <= PromptRoom
  BY <1>2, <1>3, <1>4, <1>5, <1>6
<1>8. Len(shown) <= Len(messages) /\ \A i \in DOMAIN shown : FaithfulRow(shown[i], messages[i])
  BY <1>2, <1>3
<1> QED BY <1>1, <1>3, <1>7, <1>8 DEF PromptIsFaithful, FaithfulRow

(* Every rank is somebody's, so a batch can be loaded in order.             *)
LEMMA EveryRank ==
  ASSUME NEW S, S \subseteq Nat, IsFiniteSet(S), NEW i \in 1 .. Cardinality(S)
  PROVE  \E m \in S : Rank(S, m) = i
<1> DEFINE n == Cardinality(S)
           rank == [m \in S |-> Rank(S, m)]
<1>0. n \in Nat /\ \A m \in S : m \in Nat
  BY FS_CardinalityType
<1>1. ASSUME NEW m \in S PROVE Rank(S, m) \in 1 .. n
  <2> DEFINE A == {k \in S : k <= m}
  <2>1. A \in SUBSET S /\ m \in A
    BY <1>0
  <2>2. IsFiniteSet(A) /\ Cardinality(A) <= n /\ Cardinality(A) \in Nat
    BY <2>1, FS_Subset, FS_CardinalityType
  <2>3. Cardinality(A) # 0
    <3> HIDE DEF A
    <3> QED BY <2>1, <2>2, FS_EmptySet
  <2>4. Rank(S, m) = Cardinality(A)
    BY DEF Rank
  <2> HIDE DEF A, n
  <2> QED BY <1>0, <2>2, <2>3, <2>4
<1>2. ASSUME NEW a \in S, NEW b \in S, a # b PROVE rank[a] # rank[b]
  <2>1. a \in Nat /\ b \in Nat /\ (a < b \/ b < a)
    BY <1>0, <1>2
  <2>2. rank[a] = Rank(S, a) /\ rank[b] = Rank(S, b)
    OBVIOUS
  <2> HIDE DEF rank
  <2>3. ASSUME a < b PROVE Rank(S, a) # Rank(S, b)
    <3>1. a <= b
      BY <2>1, <2>3
    <3>2. Rank(S, a) \in Nat /\ Rank(S, b) \in Nat /\ Rank(S, a) < Rank(S, b)
      BY <2>1, <2>3, <3>1, RankGrows, Zenon
    <3> QED BY <3>2
  <2>4. ASSUME b < a PROVE Rank(S, a) # Rank(S, b)
    <3>1. b <= a
      BY <2>1, <2>4
    <3>2. Rank(S, a) \in Nat /\ Rank(S, b) \in Nat /\ Rank(S, b) < Rank(S, a)
      BY <2>1, <2>4, <3>1, RankGrows, Zenon
    <3> QED BY <3>2
  <2> QED BY <2>1, <2>2, <2>3, <2>4
<1>3. rank \in Injection(S, 1 .. n)
  BY <1>1, <1>2 DEF Injection, IsInjective
<1>4. 1 \in Int /\ n \in Int
  BY <1>0
<1>5. IsFiniteSet(1 .. n) /\ Cardinality(1 .. n) = n
  BY <1>0, <1>4, FS_Interval
<1>6. rank \in Surjection(S, 1 .. n)
  <2> HIDE DEF rank
  <2> QED BY <1>3, <1>5, FS_Injection
<1> QED BY <1>6 DEF Surjection

LEMMA LoadedMessages ==
  ASSUME NEW S, S \subseteq Messages, IsFiniteSet(S)
  PROVE  Loaded(S) \in Seq(Messages)
<1>1. S \subseteq Nat
  BY RangesAssumption
<1>2. Cardinality(S) \in Nat
  BY FS_CardinalityType
<1>3. ASSUME NEW i \in 1 .. Cardinality(S) PROVE (CHOOSE m \in S : Rank(S, m) = i) \in S
  BY <1>1, <1>3, EveryRank
<1>4. Loaded(S) = [i \in 1 .. Cardinality(S) |-> CHOOSE m \in S : Rank(S, m) = i]
  BY DEF Loaded
<1>5. Loaded(S) \in [1 .. Cardinality(S) -> Messages]
  BY <1>3, <1>4
<1> QED BY <1>2, <1>5

(* Of claims that say the same the first is stored, and a citation is of    *)
(* what was shown.                                                          *)
LEMMA FactsAreAlwaysSupported ==
  ASSUME NEW messages
  PROVE  FactsAreSupported(messages, ModelClaims)
<1> DEFINE shown == Shown(Envelopes(messages))
           kept  == ValidCitations(ModelClaims, shown)
           facts == StoredFacts(ModelClaims, kept)
<1>0. Len(ModelClaims) \in Nat /\ DOMAIN ModelClaims = 1 .. Len(ModelClaims)
  BY RangesAssumption
<1>1. \A k \in kept : k \in DOMAIN ModelClaims /\ k \in Nat /\ ModelClaims[k].cites \subseteq shown
  BY <1>0 DEF ValidCitations
<1>2. \A k \in facts : k \in kept
  BY DEF StoredFacts
<1>3. ASSUME NEW i \in facts, NEW j \in facts, ModelClaims[i].says = ModelClaims[j].says PROVE i = j
  <2>1. i \in Nat /\ j \in Nat /\ i \in kept /\ j \in kept
    BY <1>1, <1>2
  <2>2. ~(i < j) /\ ~(j < i)
    BY <1>3, <2>1 DEF StoredFacts
  <2> QED BY <2>1, <2>2
<1>4. ASSUME NEW k \in DOMAIN ModelClaims, ModelClaims[k].cites \subseteq shown
      PROVE  \E i \in facts : ModelClaims[i].says = ModelClaims[k].says
  <2> DEFINE same == {j \in kept : ModelClaims[j].says = ModelClaims[k].says}
  <2>1. k \in same
    BY <1>4 DEF ValidCitations
  <2>2. same \subseteq 1 .. Len(ModelClaims) /\ same \subseteq Nat
    BY <1>0, <1>1
  <2>3. IsFiniteSet(same)
    <3>1. 1 \in Int /\ Len(ModelClaims) \in Int
      BY <1>0
    <3>2. IsFiniteSet(1 .. Len(ModelClaims))
      BY <3>1, FS_Interval
    <3> HIDE DEF same
    <3> QED BY <2>2, <3>2, FS_Subset
  <2>4. First(same) \in same /\ \A j \in same : First(same) <= j
    <3> HIDE DEF same
    <3> QED BY <2>1, <2>2, <2>3, FirstIsFirst
  <2>5. PICK f \in same : \A j \in same : f <= j
    BY <2>4
  <2>6. \A j \in kept : j < f => ModelClaims[j].says # ModelClaims[f].says
    <3> SUFFICES ASSUME NEW j \in kept, j < f, ModelClaims[j].says = ModelClaims[f].says PROVE FALSE
      OBVIOUS
    <3>1. j \in same /\ j \in Nat /\ f \in Nat
      BY <1>1, <2>5
    <3> QED BY <2>5, <3>1
  <2>7. f \in facts
    BY <2>5, <2>6 DEF StoredFacts
  <2> QED BY <2>5, <2>7
<1> HIDE DEF shown, kept, facts
<1>5. /\ \A k \in facts : ModelClaims[k].cites \subseteq shown
      /\ \A i, j \in facts : ModelClaims[i].says = ModelClaims[j].says => i = j
      /\ \A k \in DOMAIN ModelClaims : ModelClaims[k].cites \subseteq shown =>
           \E i \in facts : ModelClaims[i].says = ModelClaims[k].says
  BY <1>1, <1>2, <1>3, <1>4
<1> QED BY <1>5 DEF FactsAreSupported, shown, kept, facts

(* Whatever the texts and the model's claims, the prompt of every batch is  *)
(* within its room and without a gap, and what is remembered rests on it.   *)
THEOREM BatchesStayReadable == RangesSpec => []BatchesAreRead
<1>1. RangeIInv => BatchesAreRead
  <2> SUFFICES ASSUME RangeIInv, NEW b \in batches
               PROVE  /\ PromptIsFaithful(Loaded(b.sources))
                      /\ FactsAreSupported(Loaded(b.sources), ModelClaims)
    BY DEF BatchesAreRead
  <2>1. b.sources \subseteq stored /\ IsFiniteSet(b.sources) /\ stored \subseteq Messages
    BY BatchFacts, StoredMessages DEF RangeIInv
  <2>2. Loaded(b.sources) \in Seq(Messages)
    BY <2>1, LoadedMessages
  <2> QED BY <2>2, PromptIsAlwaysFaithful, FactsAreAlwaysSupported
<1> QED BY <1>1, RangeInitInv, RangeStepInv, PTL DEF RangesSpec

-----------------------------------------------------------------------------
(* What becomes of a batch: MemoryBatches.                                 *)

WorkLeases == [by : 0..MaxAttempts, live : BOOLEAN, version : 0..MaxVersion]

Rows == [state : States, attempts : 0..MaxAttempts, due : BOOLEAN,
         token : 0..MaxAttempts, live : BOOLEAN, work : WorkLeases]

Handlers == [at : Places, token : 0..MaxAttempts, version : 0..MaxVersion,
             asked : 0..MaxVersion, holder : 0..MaxAttempts, answer : Answers]

(* What the state of a batch says of its attempts and its lease.           *)
Sound(r) ==
  /\ r \in Rows
  /\ r.state = "absent" => r.attempts = 0
  /\ r.state \in {"ready", "retry_wait"} => r.attempts < MaxAttempts
  /\ r.token = IF r.state = "processing" THEN r.attempts ELSE NoToken

(* A batch and its summary.                                                *)
SummaryInv(b) ==
  /\ summary[b] # NoSummary <=> row[b].state = "complete"
  /\ summary[b] # NoSummary => summary[b].token = row[b].attempts

(* From the model call to the commit, a handler works under the version it *)
(* called the model with.                                                  *)
HandlerInv(c) == hd[c].at \in {"asking", "storing", "fencing"} => hd[c].asked = hd[c].version

IInv ==
  /\ TypeOK
  /\ \A b \in Batches : Sound(row[b]) /\ SummaryInv(b)
  /\ \A c \in Claims : HandlerInv(c)

LEMMA ClaimParts ==
  ASSUME NEW c \in Claims
  PROVE  c[1] \in Batches /\ c[2] \in 1..MaxAttempts
BY DEF Claims

(* TypeOK, and the rows apart from the rest of it.                         *)
LEMMA TypeParts ==
  ASSUME IInv
  PROVE  /\ row \in [Batches -> Rows]
         /\ group \in [Groups -> [eligible : BOOLEAN, version : 0..MaxVersion]]
         /\ summary \in [Batches -> [kind : Kinds, token : 0..MaxAttempts]]
         /\ hd \in [Claims -> Handlers]
BY DEF IInv, TypeOK, Rows, WorkLeases, Handlers

(* What each update makes of a sound batch.                                *)
LEMMA Updates ==
  ASSUME NEW r, Sound(r)
  PROVE  /\ r.state = "absent" => Sound([r EXCEPT !.state = "ready", !.due = TRUE])
         /\ Claimable(r) => Sound(Claimed(r)) /\ Claimed(r).state = "processing"
         /\ Sound([r EXCEPT !.live = TRUE])
         /\ Sound([r EXCEPT !.live = FALSE, !.work.live = FALSE])
         /\ Sound([r EXCEPT !.work.live = FALSE])
         /\ Sound([r EXCEPT !.due = TRUE, !.work.live = FALSE])
         /\ Sound([r EXCEPT !.work = NoWork])
         /\ Sound(Dead(r)) /\ Dead(r).state = "dead"
         /\ \A due \in BOOLEAN : r.attempts < MaxAttempts =>
              Sound(Retried(r, due)) /\ Retried(r, due).state = "retry_wait"
         /\ /\ Sound(Completed(r)) /\ Completed(r).state = "complete"
            /\ Completed(r).attempts = r.attempts
<1>0. /\ MaxAttempts \in Nat /\ MaxAttempts > 0 /\ MaxVersion \in Nat
      /\ 0 \in 0..MaxAttempts /\ 0 \in 0..MaxVersion
  BY BatchesAssumption
<1> USE DEF Sound, Rows, WorkLeases, States, NoToken
<1>1. /\ r.work \in WorkLeases /\ NoWork \in WorkLeases
      /\ [r.work EXCEPT !.live = FALSE] \in WorkLeases
      /\ 0 \in 0..MaxAttempts
  BY <1>0 DEF NoWork
<1>2. r.state = "absent" => Sound([r EXCEPT !.state = "ready", !.due = TRUE])
  BY <1>0
<1>3. Claimable(r) => Sound(Claimed(r)) /\ Claimed(r).state = "processing"
  <2> SUFFICES ASSUME Claimable(r)
               PROVE  Sound(Claimed(r)) /\ Claimed(r).state = "processing"
    OBVIOUS
  <2>1. r.attempts + 1 \in 0..MaxAttempts /\ r.attempts + 1 # 0
    BY <1>0 DEF Claimable
  <2> QED BY <2>1 DEF Claimed
<1>4. /\ Sound([r EXCEPT !.live = TRUE])
      /\ Sound([r EXCEPT !.live = FALSE, !.work.live = FALSE])
      /\ Sound([r EXCEPT !.work.live = FALSE])
      /\ Sound([r EXCEPT !.due = TRUE, !.work.live = FALSE])
      /\ Sound([r EXCEPT !.work = NoWork])
  BY <1>1
<1>5. Sound(Dead(r)) /\ Dead(r).state = "dead"
  BY <1>1 DEF Dead, Unleased
<1>6. ASSUME NEW due \in BOOLEAN, r.attempts < MaxAttempts
      PROVE  Sound(Retried(r, due)) /\ Retried(r, due).state = "retry_wait"
  BY <1>1, <1>6 DEF Retried, Unleased
<1>7. /\ Sound(Completed(r)) /\ Completed(r).state = "complete"
      /\ Completed(r).attempts = r.attempts
  BY <1>1 DEF Completed, Unleased
<1> QED BY <1>2, <1>3, <1>4, <1>5, <1>6, <1>7

(* A batch is written and its summary is not.                              *)
LEMMA WriteKeeps ==
  ASSUME IInv, NEW b \in Batches, NEW r, Put(b, r), Sound(r), UNCHANGED summary,
         \/ row[b].state # "complete" /\ r.state # "complete"
         \/ r.state = row[b].state /\ r.attempts = row[b].attempts
  PROVE  \A o \in Batches : Sound(row[o])' /\ SummaryInv(o)'
<1>1. row \in [Batches -> Rows]
  BY TypeParts
<1>2. row'[b] = r /\ \A o \in Batches : o # b => row'[o] = row[o]
  BY <1>1 DEF Put
<1> QED BY <1>2 DEF IInv, SummaryInv

LEMMA SameRows ==
  ASSUME IInv, UNCHANGED <<row, summary>>
  PROVE  \A o \in Batches : Sound(row[o])' /\ SummaryInv(o)'
BY DEF IInv, SummaryInv

(* A handler moves on.                                                     *)
LEMMA HandlerKeeps ==
  ASSUME IInv, NEW c \in Claims, NEW h \in Handlers, hd' = [hd EXCEPT ![c] = h],
         h.at \in {"asking", "storing", "fencing"} => h.asked = h.version
  PROVE  hd' \in [Claims -> Handlers] /\ \A d \in Claims : HandlerInv(d)'
BY TypeParts DEF IInv, HandlerInv

LEMMA AtKeeps ==
  ASSUME IInv, NEW c \in Claims, NEW from, NEW to \in Places, At(c, from, to),
         to \in {"asking", "storing", "fencing"} => from \in {"asking", "storing", "fencing"}
  PROVE  hd' \in [Claims -> Handlers] /\ \A d \in Claims : HandlerInv(d)'
<1>1. hd[c] \in Handlers /\ hd' = [hd EXCEPT ![c] = [hd[c] EXCEPT !.at = to]]
  BY TypeParts DEF At
<1>2. [hd[c] EXCEPT !.at = to] \in Handlers
  BY <1>1 DEF Handlers
<1>3. [hd[c] EXCEPT !.at = to].at = to
  BY <1>1 DEF Handlers
<1>4. [hd[c] EXCEPT !.at = to].asked = hd[c].asked /\ [hd[c] EXCEPT !.at = to].version = hd[c].version
  BY <1>1 DEF Handlers
<1>5. hd[c].at = from
  BY DEF At
<1> QED BY <1>1, <1>2, <1>3, <1>4, <1>5, HandlerKeeps DEF IInv, HandlerInv

LEMMA ReplyKeeps ==
  ASSUME IInv, NEW c \in Claims, NEW from, NEW what \in Answers, Reply(c, from, what)
  PROVE  hd' \in [Claims -> Handlers] /\ \A d \in Claims : HandlerInv(d)'
<1>0. 0 \in 0..MaxAttempts /\ 0 \in 0..MaxVersion
  BY BatchesAssumption
<1>1. [NoHandler EXCEPT !.at = "done", !.answer = what] \in Handlers
  BY <1>0 DEF NoHandler, Handlers, Places, Answers, NoToken
<1>2. [NoHandler EXCEPT !.at = "done", !.answer = what].at = "done"
  BY DEF NoHandler
<1> QED BY <1>1, <1>2, HandlerKeeps DEF Reply

(* The parts of the invariant after a step, put together.                  *)
LEMMA Assemble ==
  ASSUME IInv,
         row' \in [Batches -> Rows],
         group' \in [Groups -> [eligible : BOOLEAN, version : 0..MaxVersion]],
         revoked' \subseteq Batches,
         summary' \in [Batches -> [kind : Kinds, token : 0..MaxAttempts]],
         wk' \in [Claims -> {"none", "calling", "failing", "done"}],
         class' \in [Claims -> {"none", "retryable", "terminal"}],
         hd' \in [Claims -> Handlers],
         \A o \in Batches : Sound(row[o])' /\ SummaryInv(o)',
         \A d \in Claims : HandlerInv(d)'
  PROVE  IInv'
<1>1. TypeOK'
  BY DEF TypeOK, Rows, WorkLeases, Handlers, Sound
<1> QED BY <1>1 DEF IInv

LEMMA PutType ==
  ASSUME IInv, NEW b \in Batches, NEW r, Put(b, r), Sound(r)
  PROVE  row' \in [Batches -> Rows]
BY TypeParts DEF Put, Sound

-----------------------------------------------------------------------------
LEMMA InitInv == Init => IInv
<1> SUFFICES ASSUME Init PROVE IInv
  OBVIOUS
<1>0. /\ MaxAttempts \in Nat /\ MaxAttempts > 0 /\ MaxVersion \in Nat
      /\ 0 \in 0..MaxAttempts /\ 0 \in 0..MaxVersion
  BY BatchesAssumption
<1>1. NoWork \in WorkLeases /\ NoHandler \in Handlers
  BY <1>0 DEF NoWork, WorkLeases, NoHandler, Handlers, NoToken, Places, Answers
<1>2. TypeOK
  BY <1>0, <1>1
  DEF Init, TypeOK, NoToken, NoSummary, Kinds, States, WorkLeases, Handlers
<1>3. \A b \in Batches : Sound(row[b]) /\ SummaryInv(b)
  BY <1>0, <1>1 DEF Init, Sound, Rows, States, NoToken, NoSummary, SummaryInv
<1>4. \A c \in Claims : HandlerInv(c)
  BY DEF Init, HandlerInv, NoHandler
<1> QED BY <1>2, <1>3, <1>4 DEF IInv

(* The owner and the builder.                                              *)
LEMMA ScopeKeeps ==
  ASSUME IInv, NEW g \in Groups, NEW eligible \in BOOLEAN, ChangeScope(g, eligible)
  PROVE  IInv'
<1>1. group' \in [Groups -> [eligible : BOOLEAN, version : 0..MaxVersion]]
  BY TypeParts, BatchesAssumption DEF ChangeScope
<1>2. \A o \in Batches : Sound(row[o])' /\ SummaryInv(o)'
  BY SameRows DEF ChangeScope
<1> QED BY <1>1, <1>2, Assemble, TypeParts DEF ChangeScope, wkVars, IInv, TypeOK, HandlerInv

LEMMA RevokeKeeps ==
  ASSUME IInv, NEW b \in Batches, Revoke(b)
  PROVE  IInv'
<1>1. \A o \in Batches : Sound(row[o])' /\ SummaryInv(o)'
  BY SameRows DEF Revoke
<1> QED BY <1>1, Assemble, TypeParts DEF Revoke, wkVars, IInv, TypeOK, HandlerInv

(* A step that writes one batch and nobody's handler.                      *)
LEMMA BatchStep ==
  ASSUME IInv, NEW b \in Batches, NEW r, Put(b, r), Sound(r), UNCHANGED <<group, revoked, summary, hd>>,
         wk' \in [Claims -> {"none", "calling", "failing", "done"}],
         class' \in [Claims -> {"none", "retryable", "terminal"}],
         \/ row[b].state # "complete" /\ r.state # "complete"
         \/ r.state = row[b].state /\ r.attempts = row[b].attempts
  PROVE  IInv'
<1>1. \A o \in Batches : Sound(row[o])' /\ SummaryInv(o)'
  BY WriteKeeps
<1>2. row' \in [Batches -> Rows]
  BY PutType
<1> QED BY <1>1, <1>2, Assemble, TypeParts DEF IInv, TypeOK, HandlerInv

(* The builder, the worker's loop and the passing of time.                 *)
LEMMA WorkerKeeps ==
  ASSUME IInv, NEW b \in Batches, Build(b) \/ Lease(b) \/ Recover(b)
  PROVE  IInv'
<1>0. Sound(row[b])
  BY DEF IInv
<1>1. CASE Build(b)
  <2> DEFINE r == [row[b] EXCEPT !.state = "ready", !.due = TRUE]
  <2>1. Put(b, r) /\ row[b].state = "absent" /\ UNCHANGED <<group, revoked, summary, wkVars, hd>>
    BY <1>1 DEF Build
  <2>2. Sound(r)
    BY <1>0, <2>1, Updates
  <2>3. r.state = "ready"
    BY <1>0 DEF Sound, Rows
  <2> HIDE DEF r
  <2> QED BY <2>1, <2>2, <2>3, BatchStep DEF wkVars, IInv, TypeOK
<1>2. CASE Lease(b)
  <2>1. PICK r \in {[row[b] EXCEPT !.live = FALSE, !.work.live = FALSE],
                    [row[b] EXCEPT !.work.live = FALSE],
                    [row[b] EXCEPT !.due = TRUE, !.work.live = FALSE]} :
          Put(b, r) /\ UNCHANGED <<group, revoked, summary, wkVars, hd>>
    BY <1>2 DEF Lease, LeaseRunsOut, WorkRunsOut, ComesDue
  <2>2. Sound(r)
    <3>1. /\ Sound([row[b] EXCEPT !.live = FALSE, !.work.live = FALSE])
          /\ Sound([row[b] EXCEPT !.work.live = FALSE])
          /\ Sound([row[b] EXCEPT !.due = TRUE, !.work.live = FALSE])
      BY <1>0, Updates, Zenon
    <3> QED BY <2>1, <3>1, Zenon
  <2>3. r.state = row[b].state /\ r.attempts = row[b].attempts
    BY <1>0 DEF Sound, Rows
  <2> QED BY <2>1, <2>2, <2>3, BatchStep DEF wkVars, IInv, TypeOK
<1>3. CASE Recover(b)
  <2>1. row[b].state = "processing"
    BY <1>3 DEF Recover, RecoverExhausted, RecoverRetryable, Expired
  <2>2. PICK r : /\ Put(b, r) /\ UNCHANGED <<group, revoked, summary, wkVars, hd>>
                 /\ r = Dead(row[b]) \/ (r = Retried(row[b], TRUE) /\ row[b].attempts < MaxAttempts)
    BY <1>3 DEF Recover, RecoverExhausted, RecoverRetryable
  <2>3. Sound(r) /\ r.state # "complete"
    BY <1>0, <2>2, Updates
  <2> QED BY <2>1, <2>2, <2>3, BatchStep DEF wkVars, IInv, TypeOK
<1> QED BY <1>1, <1>2, <1>3

LEMMA ClaimKeeps ==
  ASSUME IInv, NEW b \in Batches, Claim(b)
  PROVE  IInv'
<1> DEFINE c == <<b, row[b].attempts + 1>>
<1>0. Sound(row[b]) /\ Claimable(row[b])
  BY DEF IInv, Claim
<1>1. c \in Claims
  BY <1>0, BatchesAssumption DEF Claims, Claimable, Sound, Rows
<1>2. Put(b, Claimed(row[b])) /\ Sound(Claimed(row[b])) /\ Claimed(row[b]).state = "processing"
  BY <1>0, Updates DEF Claim
<1>3. row[b].state # "complete"
  BY <1>0 DEF Claimable
<1>4. UNCHANGED <<group, revoked, summary, class>>
  BY DEF Claim
<1>5. \A o \in Batches : Sound(row[o])' /\ SummaryInv(o)'
  BY <1>2, <1>3, <1>4, WriteKeeps
<1>6. row' \in [Batches -> Rows]
  BY <1>2, PutType
<1>7. wk' \in [Claims -> {"none", "calling", "failing", "done"}]
  BY <1>1 DEF Claim, IInv, TypeOK
<1>8. hd' \in [Claims -> Handlers] /\ \A d \in Claims : HandlerInv(d)'
  <2>1. hd[c] \in Handlers /\ hd' = [hd EXCEPT ![c] = [hd[c] EXCEPT !.at = "posted"]]
    BY <1>1, TypeParts DEF Claim
  <2>2. [hd[c] EXCEPT !.at = "posted"] \in Handlers /\ [hd[c] EXCEPT !.at = "posted"].at = "posted"
    BY <2>1 DEF Handlers, Places
  <2> HIDE DEF c
  <2> QED BY <1>1, <2>1, <2>2, HandlerKeeps
<1> QED BY <1>4, <1>5, <1>6, <1>7, <1>8, Assemble, TypeParts DEF IInv, TypeOK

LEMMA CallKeeps ==
  ASSUME IInv, NEW c \in Claims, Call(c)
  PROVE  IInv'
<1>0. c[1] \in Batches /\ Sound(row[c[1]])
  BY ClaimParts DEF IInv
<1>1. CASE Heartbeat(c)
  <2>1. [row[c[1]] EXCEPT !.live = TRUE].state = row[c[1]].state
        /\ [row[c[1]] EXCEPT !.live = TRUE].attempts = row[c[1]].attempts
    BY <1>0 DEF Sound, Rows
  <2> QED BY <1>0, <1>1, <2>1, Updates, BatchStep DEF Heartbeat, wkVars, IInv, TypeOK
<1>2. CASE HeardOk(c) \/ HeardFailure(c) \/ Stop(c)
  <2>1. /\ wk' \in [Claims -> {"none", "calling", "failing", "done"}]
        /\ class' \in [Claims -> {"none", "retryable", "terminal"}]
        /\ UNCHANGED <<row, group, revoked, summary, hd>>
    BY <1>2 DEF HeardOk, HeardFailure, Stop, IInv, TypeOK
  <2>2. \A o \in Batches : Sound(row[o])' /\ SummaryInv(o)'
    BY <2>1, SameRows
  <2> QED BY <2>1, <2>2, Assemble, TypeParts DEF IInv, TypeOK, HandlerInv
<1>3. CASE Fail(c)
  <2>1. /\ wk' \in [Claims -> {"none", "calling", "failing", "done"}]
        /\ class' \in [Claims -> {"none", "retryable", "terminal"}]
        /\ UNCHANGED <<group, revoked, summary, hd>>
    BY <1>3 DEF Fail, IInv, TypeOK
  <2>2. CASE UNCHANGED row
    <3>1. \A o \in Batches : Sound(row[o])' /\ SummaryInv(o)'
      BY <2>1, <2>2, SameRows
    <3> QED BY <2>1, <2>2, <3>1, Assemble, TypeParts DEF IInv, TypeOK, HandlerInv
  <2>3. CASE Owns(c) /\ ~UNCHANGED row
    <3>1. PICK r : /\ Put(c[1], r)
                   /\ \/ r = Dead(row[c[1]])
                      \/ r = Retried(row[c[1]], FALSE) /\ ~(row[c[1]].attempts >= MaxAttempts)
      BY <1>3, <2>3 DEF Fail
    <3>2. row[c[1]].attempts >= MaxAttempts \/ row[c[1]].attempts < MaxAttempts
      BY <1>0, BatchesAssumption DEF Sound, Rows
    <3>3. Sound(r) /\ r.state # "complete"
      BY <1>0, <3>1, <3>2, Updates
    <3> QED BY <1>0, <2>1, <2>3, <3>1, <3>3, BatchStep DEF Owns
  <2> QED BY <1>3, <2>2, <2>3 DEF Fail
<1> QED BY <1>1, <1>2, <1>3 DEF Call

-----------------------------------------------------------------------------
(* The handler.                                                            *)

LEMMA HereKeeps ==
  ASSUME IInv, Here, hd' \in [Claims -> Handlers], \A d \in Claims : HandlerInv(d)'
  PROVE  IInv'
<1>1. \A o \in Batches : Sound(row[o])' /\ SummaryInv(o)'
  BY SameRows DEF Here
<1> QED BY <1>1, Assemble, TypeParts DEF Here, wkVars, IInv, TypeOK

LEMMA HandlerStepKeeps ==
  ASSUME IInv, NEW c \in Claims,
         \/ Load(c) \/ CheckGroup(c) \/ ReadVersion(c) \/ CheckSummary(c) \/ CallModel(c)
         \/ ScopeMoved(c) \/ Answered(c) \/ StoreBegins(c) \/ StoreAborts(c)
         \/ CheckWithdrawn(c) \/ ResolveBegins(c) \/ ResolveRevokedBegins(c)
         \/ ResolveAborts(c) \/ Unresolved(c) \/ Crash(c)
  PROVE  IInv'
<1> DEFINE Keeps == hd' \in [Claims -> Handlers] /\ \A d \in Claims : HandlerInv(d)'
           Late == {"asking", "storing", "fencing"}
<1>0. /\ hd \in [Claims -> Handlers] /\ hd[c] \in Handlers
      /\ Batch(c) \in Rows /\ Scope(c) \in [eligible : BOOLEAN, version : 0..MaxVersion]
  BY TypeParts, ClaimParts, BatchesAssumption DEF Batch, Scope
<1>1. ASSUME NEW from, NEW to \in Places, At(c, from, to), to \in Late => from \in Late
      PROVE  Keeps
  BY <1>1, AtKeeps
<1>2. ASSUME NEW from, NEW what \in Answers, Reply(c, from, what)
      PROVE  Keeps
  BY <1>2, ReplyKeeps
<1>3. ASSUME NEW h \in Handlers, hd' = [hd EXCEPT ![c] = h], h.at \in Late => h.asked = h.version
      PROVE  Keeps
  BY <1>3, HandlerKeeps
<1>4. CASE Load(c)
  <2>1. ASSUME NEW to \in {"sourceless", "loaded"},
               hd' = [hd EXCEPT ![c] = [hd[c] EXCEPT !.token = Batch(c).token, !.at = to]]
        PROVE  Keeps
    <3>1. [hd[c] EXCEPT !.token = Batch(c).token, !.at = to] \in Handlers
      BY <1>0 DEF Handlers, Rows, Places
    <3>2. [hd[c] EXCEPT !.token = Batch(c).token, !.at = to].at = to
      BY <1>0 DEF Handlers
    <3> QED BY <1>3, <2>1, <3>1, <3>2
  <2>2. Keeps
    BY <1>0, <1>2, <1>4, <2>1 DEF Load, Answers
  <2> QED BY <1>4, <2>2, HereKeeps DEF Load
<1>5. CASE CheckGroup(c) \/ CheckWithdrawn(c) \/ CheckSummary(c) \/ ScopeMoved(c) \/ Unresolved(c)
  <2>1. Keeps
    BY <1>1, <1>2, <1>5
    DEF CheckGroup, CheckWithdrawn, CheckSummary, ScopeMoved, Unresolved, Places, Answers
  <2> QED
    BY <1>5, <2>1, HereKeeps DEF CheckGroup, CheckWithdrawn, CheckSummary, ScopeMoved, Unresolved
<1>6. CASE ReadVersion(c)
  <2>1. ASSUME hd' = [hd EXCEPT ![c] = [hd[c] EXCEPT !.at = "versioned", !.version = Scope(c).version]]
        PROVE  Keeps
    <3>1. [hd[c] EXCEPT !.at = "versioned", !.version = Scope(c).version] \in Handlers
      BY <1>0 DEF Handlers, Places
    <3>2. [hd[c] EXCEPT !.at = "versioned", !.version = Scope(c).version].at = "versioned"
      BY <1>0 DEF Handlers
    <3> QED BY <1>3, <2>1, <3>1, <3>2
  <2>2. Keeps
    BY <1>0, <1>2, <1>6, <2>1 DEF ReadVersion, Answers
  <2> QED BY <1>6, <2>2, HereKeeps DEF ReadVersion
<1>7. CASE CallModel(c)
  <2> DEFINE h == [hd[c] EXCEPT !.at = "asking", !.asked = Scope(c).version]
  <2>1. hd' = [hd EXCEPT ![c] = h]
    BY <1>7 DEF CallModel
  <2>2. h \in Handlers /\ h.asked = Scope(c).version /\ h.version = hd[c].version
    BY <1>0 DEF Handlers, Places
  <2>3. h.asked = h.version
    BY <1>7, <2>2 DEF CallModel
  <2> HIDE DEF h
  <2>4. Keeps
    BY <1>3, <2>1, <2>2, <2>3
  <2> QED BY <1>7, <2>4, HereKeeps DEF CallModel
<1>8. CASE Answered(c) \/ StoreBegins(c) \/ StoreAborts(c)
  <2>1. Keeps
    BY <1>1, <1>8 DEF Answered, StoreBegins, StoreAborts, Places
  <2> QED BY <1>8, <2>1, HereKeeps DEF Answered, StoreBegins, StoreAborts
<1>9. CASE ResolveBegins(c)
  <2>1. PICK to \in {"unresolved", "redacting", "failed", "redactingWork"} :
          hd' = [hd EXCEPT ![c] = [hd[c] EXCEPT !.holder = Batch(c).work.by, !.at = to]]
    BY <1>0, <1>9 DEF ResolveBegins
  <2>2. /\ [hd[c] EXCEPT !.holder = Batch(c).work.by, !.at = to] \in Handlers
        /\ [hd[c] EXCEPT !.holder = Batch(c).work.by, !.at = to].at = to
    BY <1>0, <2>1 DEF Handlers, Places, Rows, WorkLeases
  <2>3. Keeps
    BY <1>3, <2>1, <2>2
  <2> QED BY <1>9, <2>3, HereKeeps DEF ResolveBegins
<1>10. CASE ResolveRevokedBegins(c)
  <2>1. ASSUME hd' = [hd EXCEPT ![c] = [hd[c] EXCEPT !.at = "redactingSource", !.token = Batch(c).token,
                                                     !.holder = Batch(c).work.by]]
        PROVE  Keeps
    <3> DEFINE h == [hd[c] EXCEPT !.at = "redactingSource", !.token = Batch(c).token,
                                  !.holder = Batch(c).work.by]
    <3>1. h \in Handlers /\ h.at = "redactingSource"
      BY <1>0 DEF Handlers, Places, Rows, WorkLeases
    <3>2. hd' = [hd EXCEPT ![c] = h]
      BY <2>1
    <3> HIDE DEF h
    <3> QED BY <1>3, <3>1, <3>2
  <2>2. Keeps
    BY <1>0, <1>1, <1>10, <2>1 DEF ResolveRevokedBegins, Places
  <2> QED BY <1>10, <2>2, HereKeeps DEF ResolveRevokedBegins
<1>11. CASE ResolveAborts(c)
  <2>1. Keeps
    BY <1>1, <1>11 DEF ResolveAborts, Places
  <2> QED BY <1>11, <2>1, HereKeeps DEF ResolveAborts
<1>12. CASE Crash(c)
  <2>1. Keeps
    BY <1>2, <1>12 DEF Crash, Answers
  <2> QED BY <1>12, <2>1, HereKeeps DEF Crash
<1> QED BY <1>4, <1>5, <1>6, <1>7, <1>8, <1>9, <1>10, <1>11, <1>12

(* A handler that writes its batch, and not its summary: it takes the work *)
(* lease or gives it back.                                                 *)
LEMMA WorkLeaseKeeps ==
  ASSUME IInv, NEW c \in Claims, ClaimWork(c) \/ GiveUp(c)
  PROVE  IInv'
<1>0. /\ c[1] \in Batches /\ c[2] \in 0..MaxAttempts /\ Sound(row[c[1]])
      /\ Batch(c) = row[c[1]] /\ hd[c] \in Handlers
  <2>1. c[1] \in Batches /\ c[2] \in 1..MaxAttempts
    BY ClaimParts
  <2>2. c[2] \in 0..MaxAttempts
    BY <2>1, BatchesAssumption
  <2> QED BY <2>1, <2>2, TypeParts DEF IInv, Batch
<1>1. /\ UNCHANGED <<group, revoked, summary, wkVars>>
      /\ hd' \in [Claims -> Handlers] /\ \A d \in Claims : HandlerInv(d)'
  BY AtKeeps, ReplyKeeps DEF ClaimWork, GiveUp, Rest, Places, Answers
<1>2. CASE UNCHANGED row
  BY <1>1, <1>2, HereKeeps DEF Here
<1>3. ASSUME NEW w \in WorkLeases, Put(c[1], [Batch(c) EXCEPT !.work = w])
      PROVE  IInv'
  <2> DEFINE r == [row[c[1]] EXCEPT !.work = w]
  <2>1. Sound(r) /\ r.state = row[c[1]].state /\ r.attempts = row[c[1]].attempts
    BY <1>0 DEF Sound, Rows
  <2>2. Put(c[1], r)
    BY <1>0, <1>3
  <2> HIDE DEF r
  <2>3. \A o \in Batches : Sound(row[o])' /\ SummaryInv(o)'
    BY <1>0, <1>1, <2>1, <2>2, WriteKeeps
  <2>4. row' \in [Batches -> Rows]
    BY <1>0, <2>1, <2>2, PutType
  <2> QED BY <1>1, <2>3, <2>4, Assemble, TypeParts DEF wkVars, IInv, TypeOK
<1>4. NoWork \in WorkLeases /\ [by |-> c[2], live |-> TRUE, version |-> hd[c].version] \in WorkLeases
  BY <1>0, BatchesAssumption DEF NoWork, NoToken, WorkLeases, Handlers
<1> QED BY <1>2, <1>3, <1>4 DEF ClaimWork, GiveUp

(* The only writer of a summary, and of a batch's completion, in one       *)
(* commit under the lease the handler loaded.                              *)
LEMMA InsertKeeps ==
  ASSUME IInv, NEW c \in Claims, NEW kind \in {"content", "redacted"}, Live(c), Insert(c, kind),
         hd' \in [Claims -> Handlers], \A d \in Claims : HandlerInv(d)'
  PROVE  IInv'
<1> DEFINE b == c[1]
<1>0. /\ b \in Batches /\ Sound(row[b]) /\ Batch(c) = row[b] /\ hd[c] \in Handlers
      /\ summary \in [Batches -> [kind : Kinds, token : 0..MaxAttempts]]
      /\ row \in [Batches -> Rows]
  BY ClaimParts, TypeParts DEF IInv, Batch
<1>1. /\ hd[c].token = row[b].attempts
      /\ UNCHANGED <<group, revoked, wkVars>>
      /\ Put(b, Completed(row[b]))
      /\ summary' = [summary EXCEPT ![b] = [kind |-> kind, token |-> hd[c].token]]
  BY <1>0 DEF Live, Insert, Rest, Sound
<1>2. /\ Sound(Completed(row[b])) /\ Completed(row[b]).state = "complete"
      /\ Completed(row[b]).attempts = row[b].attempts
  BY <1>0, Updates
<1>3. /\ row' \in [Batches -> Rows] /\ row'[b] = Completed(row[b])
      /\ \A o \in Batches : o # b => row'[o] = row[o]
  BY <1>0, <1>1, <1>2, PutType DEF Put
<1>4. /\ summary' \in [Batches -> [kind : Kinds, token : 0..MaxAttempts]]
      /\ summary'[b] # NoSummary /\ summary'[b].token = row[b].attempts
      /\ \A o \in Batches : o # b => summary'[o] = summary[o]
  BY <1>0, <1>1 DEF Handlers, Kinds, NoSummary
<1>5. \A o \in Batches : Sound(row[o])' /\ SummaryInv(o)'
  BY <1>2, <1>3, <1>4 DEF IInv, SummaryInv
<1> QED BY <1>1, <1>3, <1>4, <1>5, Assemble, TypeParts DEF wkVars, IInv, TypeOK

LEMMA StoreKeeps ==
  ASSUME IInv, NEW c \in Claims, StoreCommits(c) \/ StoreUnheard(c) \/ ResolveCommits(c)
  PROVE  IInv'
<1>1. hd' \in [Claims -> Handlers] /\ \A d \in Claims : HandlerInv(d)'
  BY AtKeeps, ReplyKeeps DEF StoreCommits, StoreUnheard, ResolveCommits, Places, Answers
<1>2. Live(c) /\ \E kind \in {"content", "redacted"} : Insert(c, kind)
  BY DEF StoreCommits, StoreUnheard, ResolveCommits, Works
<1> QED BY <1>1, <1>2, InsertKeeps

LEMMA StepInv == IInv /\ [Next]_vars => IInv'
<1> SUFFICES ASSUME IInv, [Next]_vars PROVE IInv'
  OBVIOUS
<1>1. ASSUME NEW c \in Claims, Summarise(c)
      PROVE  IInv'
  BY <1>1, HandlerStepKeeps, WorkLeaseKeeps, StoreKeeps DEF Summarise
<1>2. CASE UNCHANGED vars
  <2>1. \A d \in Claims : HandlerInv(d)'
    BY <1>2 DEF vars, IInv, HandlerInv
  <2> QED BY <1>2, <2>1, HereKeeps, TypeParts DEF vars, Here
<1> QED BY <1>1, <1>2, ScopeKeeps, RevokeKeeps, WorkerKeeps, ClaimKeeps, CallKeeps DEF Next

(* A batch is complete exactly when it has its one summary, stored under   *)
(* the batch's last claim.                                                 *)
THEOREM BatchAndSummaryAgree == Spec => []BatchInv
<1>1. IInv => BatchInv
  BY DEF IInv, SummaryInv, BatchInv, SummaryIffComplete
<1> QED BY <1>1, InitInv, StepInv, PTL DEF Spec

(* What changes a summary: a commit, of the handler's own batch.           *)
LEMMA SummaryWriters ==
  ASSUME IInv, [Next]_vars, NEW b \in Batches, summary'[b] # summary[b]
  PROVE  \E c \in Claims :
           /\ c[1] = b /\ Live(c)
           /\ StoreCommits(c) \/ StoreUnheard(c) \/ ResolveCommits(c)
<1>0. summary \in [Batches -> [kind : Kinds, token : 0..MaxAttempts]]
  BY TypeParts
<1>1. PICK c \in Claims : StoreCommits(c) \/ StoreUnheard(c) \/ ResolveCommits(c)
  BY DEF Next, ChangeScope, Build, Revoke, Claim, Lease, LeaseRunsOut, WorkRunsOut, ComesDue,
         Recover, RecoverExhausted, RecoverRetryable, Call, Heartbeat, HeardOk, HeardFailure,
         Fail, Stop, Summarise, Load, CheckGroup, ReadVersion, ClaimWork, CheckSummary,
         CallModel, ScopeMoved, Answered, StoreBegins, StoreAborts, CheckWithdrawn,
         ResolveBegins, ResolveRevokedBegins, ResolveAborts, Unresolved, GiveUp, Crash,
         Here, Rest, vars
<1>2. Live(c) /\ \E kind \in {"content", "redacted"} : Insert(c, kind)
  BY <1>1 DEF StoreCommits, StoreUnheard, ResolveCommits, Works
<1>3. c[1] = b
  BY <1>0, <1>2, ClaimParts DEF Insert
<1> QED BY <1>1, <1>2, <1>3

(* A summary with content was made under an eligibility nobody touched     *)
(* since before the model was called.                                      *)
THEOREM ConsentIsUnbroken == Spec => ConsentCoversTheModelCall
<1>1. ASSUME IInv, [Next]_vars, NEW b \in Batches,
             summary'[b] # summary[b], summary'[b].kind = "content"
      PROVE  /\ group[GroupOf[b]].eligible
             /\ \E c \in Claims :
                  /\ c[1] = b /\ hd[c].at = "fencing" /\ hd'[c].at # "fencing"
                  /\ hd[c].asked = group[GroupOf[b]].version
  <2>1. PICK c \in Claims : /\ c[1] = b
                            /\ StoreCommits(c) \/ StoreUnheard(c) \/ ResolveCommits(c)
    BY <1>1, SummaryWriters
  <2>2. StoreCommits(c) \/ StoreUnheard(c)
    BY <1>1, <2>1, TypeParts DEF ResolveCommits, Insert
  <2>3. /\ hd[c].at = "fencing" /\ Scope(c).eligible /\ Scope(c).version = hd[c].version
        /\ hd'[c].at # "fencing"
    <3>1. hd \in [Claims -> Handlers] /\ hd[c] \in Handlers
      BY <1>1, TypeParts
    <3>2. [NoHandler EXCEPT !.at = "done", !.answer = "ok"].at = "done"
      BY DEF NoHandler
    <3>3. [hd[c] EXCEPT !.at = "unstored"].at = "unstored"
      BY <3>1 DEF Handlers
    <3> QED BY <2>2, <3>1, <3>2, <3>3 DEF StoreCommits, StoreUnheard, Reply, At
  <2> QED BY <1>1, <2>1, <2>3 DEF IInv, HandlerInv, Scope
<1>2. IInv /\ [Next]_vars =>
        [\A b \in Batches :
           summary'[b] # summary[b] /\ summary'[b].kind = "content" =>
             /\ group[GroupOf[b]].eligible
             /\ \E c \in Claims :
                  /\ c[1] = b /\ hd[c].at = "fencing" /\ hd'[c].at # "fencing"
                  /\ hd[c].asked = group[GroupOf[b]].version]_vars
  BY <1>1
<1> QED BY <1>2, InitInv, StepInv, PTL DEF Spec, ConsentCoversTheModelCall

(* A batch that is complete or dead stays as it is, and so does its        *)
(* summary.                                                                *)
THEOREM EndsAreFinal == Spec => EndIsFinal
<1>1. ASSUME IInv, [Next]_vars, NEW b \in Batches, row[b].state \in {"complete", "dead"}
      PROVE  /\ row'[b].state = row[b].state
             /\ row'[b].attempts = row[b].attempts
             /\ row'[b].token = NoToken
             /\ summary'[b] = summary[b]
  <2>0. row \in [Batches -> Rows] /\ Sound(row[b]) /\ IInv'
    BY <1>1, TypeParts, StepInv DEF IInv
  <2>1. summary'[b] = summary[b]
    BY <1>1, SummaryWriters DEF Live, Batch
  <2>2. row'[b].state = row[b].state /\ row'[b].attempts = row[b].attempts
    <3> DEFINE Same == row'[b].state = row[b].state /\ row'[b].attempts = row[b].attempts
    <3>1. ASSUME NEW o \in Batches, NEW r, Put(o, r),
                 o = b => r.state = row[b].state /\ r.attempts = row[b].attempts
          PROVE  Same
      BY <2>0, <3>1 DEF Put
    <3>2. ASSUME NEW o \in Batches, Build(o) \/ Claim(o) \/ Recover(o)
          PROVE  Same
      BY <1>1, <3>1, <3>2
      DEF Build, Claim, Claimable, Recover, RecoverExhausted, RecoverRetryable, Expired
    <3>3. ASSUME NEW o \in Batches, Lease(o)
          PROVE  Same
      <4>1. PICK r \in {[row[o] EXCEPT !.live = FALSE, !.work.live = FALSE],
                        [row[o] EXCEPT !.work.live = FALSE],
                        [row[o] EXCEPT !.due = TRUE, !.work.live = FALSE]} : Put(o, r)
        BY <3>3 DEF Lease, LeaseRunsOut, WorkRunsOut, ComesDue
      <4>2. r.state = row[o].state /\ r.attempts = row[o].attempts
        BY <2>0 DEF Rows
      <4> QED BY <3>1, <4>1, <4>2
    <3>4. ASSUME NEW c \in Claims, Call(c)
          PROVE  Same
      BY <1>1, <3>1, <3>4, ClaimParts
      DEF Call, Heartbeat, HeardOk, HeardFailure, Fail, Stop, Owns
    <3>5. ASSUME NEW c \in Claims, ClaimWork(c) \/ GiveUp(c), ~UNCHANGED row
          PROVE  Same
      <4>1. PICK w : Put(c[1], [row[c[1]] EXCEPT !.work = w])
        BY <3>5 DEF ClaimWork, GiveUp, Batch
      <4>2. /\ [row[c[1]] EXCEPT !.work = w].state = row[c[1]].state
            /\ [row[c[1]] EXCEPT !.work = w].attempts = row[c[1]].attempts
        BY <2>0, ClaimParts DEF Rows
      <4> QED BY <3>1, <4>1, <4>2, ClaimParts
    <3>6. ASSUME NEW c \in Claims, StoreCommits(c) \/ StoreUnheard(c) \/ ResolveCommits(c)
          PROVE  Same
      BY <1>1, <3>1, <3>6, ClaimParts
      DEF StoreCommits, StoreUnheard, ResolveCommits, Works, Live, Batch, Insert
    <3>7. ASSUME NEW c \in Claims, Summarise(c)
          PROVE  Same
      BY <3>5, <3>6, <3>7
      DEF Summarise, Load, CheckGroup, ReadVersion, CheckSummary, CallModel, ScopeMoved,
          Answered, StoreBegins, StoreAborts, CheckWithdrawn, ResolveBegins,
          ResolveRevokedBegins, ResolveAborts, Unresolved, Crash, Here
    <3> QED
      BY <1>1, <3>2, <3>3, <3>4, <3>7 DEF Next, ChangeScope, Revoke, vars
  <2>3. row'[b].token = NoToken
    <3>1. Sound(row[b])'
      BY <2>0 DEF IInv
    <3> QED BY <1>1, <2>2, <3>1 DEF Sound
  <2> QED BY <2>1, <2>2, <2>3
<1>2. IInv /\ [Next]_vars =>
        [\A b \in Batches :
           row[b].state \in {"complete", "dead"} =>
             /\ row'[b].state = row[b].state
             /\ row'[b].attempts = row[b].attempts
             /\ row'[b].token = NoToken
             /\ summary'[b] = summary[b]]_vars
  BY <1>1
<1> QED BY <1>2, InitInv, StepInv, PTL DEF Spec, EndIsFinal

-----------------------------------------------------------------------------
(* The batches of a group and MemoryContract.                              *)

(* The builder's order: a group has one batch at most that is not          *)
(* complete, and it is the newest.                                         *)
QueueInv ==
  /\ \A b, o \in Batches : o < b /\ row[b].state # "absent" => row[o].state # "absent"
  /\ \A b, o \in Batches :
       GroupOf[b] = GroupOf[o] /\ b # o => 
         row[b].state \in {"absent", "complete"} \/ row[o].state \in {"absent", "complete"}

(* What becomes of the state of one batch.                                 *)
Moves(b, from, to) ==
  /\ row[b].state \in from /\ row'[b].state = to
  /\ \A o \in Batches \ {b} : row'[o].state = row[o].state

LEMMA PutMoves ==
  ASSUME IInv, NEW b \in Batches, NEW r, Put(b, r), NEW from, row[b].state \in from
  PROVE  Moves(b, from, r.state)
BY TypeParts DEF Put, Moves

(* Every step but a build leaves all states alone, or moves an outstanding *)
(* batch.                                                                  *)
LEMMA StateMoves ==
  ASSUME IInv, [Next]_vars
  PROVE  \/ \A b \in Batches : row'[b].state = row[b].state
         \/ \E b \in Batches : Build(b) /\ Moves(b, {"absent"}, "ready")
         \/ \E b \in Batches, to \in Outstanding \cup {"complete", "dead"} :
              Moves(b, Outstanding, to)
<1> DEFINE Still == \A b \in Batches : row'[b].state = row[b].state
           Moved == \E b \in Batches, to \in Outstanding \cup {"complete", "dead"} :
                      Moves(b, Outstanding, to)
<1>0. row \in [Batches -> Rows] /\ \A b \in Batches : Sound(row[b])
  BY TypeParts DEF IInv
<1>1. ASSUME NEW b \in Batches, NEW r, Put(b, r), r.state = row[b].state
      PROVE  Still
  BY <1>0, <1>1 DEF Put
<1>2. ASSUME NEW b \in Batches, NEW r, Put(b, r), row[b].state \in Outstanding,
             r.state \in Outstanding \cup {"complete", "dead"}
      PROVE  Moved
  BY <1>2, PutMoves
<1> HIDE DEF Still, Moved
<1>3. ASSUME NEW b \in Batches, Build(b)
      PROVE  Moves(b, {"absent"}, "ready")
  <2>1. Put(b, [row[b] EXCEPT !.state = "ready", !.due = TRUE]) /\ row[b].state = "absent"
    BY <1>3 DEF Build
  <2>2. [row[b] EXCEPT !.state = "ready", !.due = TRUE].state = "ready"
    BY <1>0 DEF Rows
  <2> QED BY <2>1, <2>2, PutMoves
<1>4. ASSUME NEW b \in Batches
      PROVE  /\ Claimed(row[b]).state = "processing"
             /\ \A due \in BOOLEAN : Retried(row[b], due).state = "retry_wait"
             /\ Dead(row[b]).state = "dead" /\ Completed(row[b]).state = "complete"
             /\ [row[b] EXCEPT !.live = TRUE].state = row[b].state
             /\ [row[b] EXCEPT !.live = FALSE, !.work.live = FALSE].state = row[b].state
             /\ [row[b] EXCEPT !.work.live = FALSE].state = row[b].state
             /\ [row[b] EXCEPT !.due = TRUE, !.work.live = FALSE].state = row[b].state
             /\ \A w : [row[b] EXCEPT !.work = w].state = row[b].state
  BY <1>0 DEF Rows, Claimed, Retried, Dead, Completed, Unleased
<1>5. ASSUME NEW b \in Batches, Claim(b) \/ Recover(b)
      PROVE  Moved
  <2>1. CASE Claim(b)
    BY <1>2, <1>4, <2>1 DEF Claim, Claimable, Outstanding
  <2>2. CASE Recover(b)
    BY <1>2, <1>4, <2>2
    DEF Recover, RecoverExhausted, RecoverRetryable, Expired, Outstanding
  <2> QED BY <1>5, <2>1, <2>2
<1>6. ASSUME NEW b \in Batches, Lease(b)
      PROVE  Still
  BY <1>1, <1>4, <1>6 DEF Lease, LeaseRunsOut, WorkRunsOut, ComesDue
<1>7. ASSUME NEW c \in Claims, Call(c)
      PROVE  Still \/ Moved
  <2>1. CASE UNCHANGED row
    BY <2>1 DEF Still
  <2>2. CASE Heartbeat(c)
    BY <1>1, <1>4, <2>2, ClaimParts DEF Heartbeat
  <2>3. CASE Fail(c) /\ ~UNCHANGED row
    BY <1>2, <1>4, <2>3, ClaimParts DEF Fail, Owns, Outstanding
  <2> QED BY <1>7, <2>1, <2>2, <2>3 DEF Call, HeardOk, HeardFailure, Stop
<1>8. ASSUME NEW c \in Claims, Summarise(c)
      PROVE  Still \/ Moved
  <2>1. CASE UNCHANGED row
    BY <2>1 DEF Still
  <2>2. CASE (ClaimWork(c) \/ GiveUp(c)) /\ ~UNCHANGED row
    BY <1>1, <1>4, <2>2, ClaimParts DEF ClaimWork, GiveUp, Batch
  <2>3. CASE StoreCommits(c) \/ StoreUnheard(c) \/ ResolveCommits(c)
    BY <1>2, <1>4, <2>3, ClaimParts
    DEF StoreCommits, StoreUnheard, ResolveCommits, Works, Live, Batch, Insert, Outstanding
  <2> QED
    BY <1>8, <2>1, <2>2, <2>3
    DEF Summarise, Load, CheckGroup, ReadVersion, CheckSummary, CallModel, ScopeMoved,
        Answered, StoreBegins, StoreAborts, CheckWithdrawn, ResolveBegins,
        ResolveRevokedBegins, ResolveAborts, Unresolved, Crash, Here
<1>9. ASSUME UNCHANGED row
      PROVE  Still
  BY <1>9 DEF Still
<1> QED
  BY <1>3, <1>5, <1>6, <1>7, <1>8, <1>9 DEF Next, ChangeScope, Revoke, vars, Still, Moved

LEMMA QueueKeeps ==
  ASSUME IInv, QueueInv, [Next]_vars
  PROVE  QueueInv'
<1>1. CASE \A b \in Batches : row'[b].state = row[b].state
  BY <1>1 DEF QueueInv
<1>2. ASSUME NEW b \in Batches, Build(b), Moves(b, {"absent"}, "ready")
      PROVE  QueueInv'
  BY <1>2 DEF QueueInv, Build, Moves
<1>3. ASSUME NEW b \in Batches, NEW to \in Outstanding \cup {"complete", "dead"},
             Moves(b, Outstanding, to)
      PROVE  QueueInv'
  BY <1>3 DEF QueueInv, Moves, Outstanding
<1> QED BY <1>1, <1>2, <1>3, StateMoves

LEMMA QueueStarts == Init => QueueInv
<1> SUFFICES ASSUME Init PROVE QueueInv
  OBVIOUS
<1>1. \A b \in Batches : row[b].state = "absent"
  BY DEF Init
<1> QED BY <1>1 DEF QueueInv

(* The batches of the groups after one of them moved.                      *)
LEMMA MovedBatches ==
  ASSUME NEW b \in Batches, NEW from, NEW to, Moves(b, from, to), NEW S
  PROVE  BatchesIn(S)' = [BatchesIn(S) EXCEPT
           ![GroupOf[b]] = IF to \in S THEN @ \cup {b} ELSE @ \ {b}]
<1>1. GroupOf[b] \in Groups
  BY BatchesAssumption
<1>2. ASSUME NEW g \in Groups
      PROVE  BatchesIn(S)'[g] =
               IF g # GroupOf[b] THEN BatchesIn(S)[g]
               ELSE IF to \in S THEN BatchesIn(S)[g] \cup {b} ELSE BatchesIn(S)[g] \ {b}
  <2>1. CASE g # GroupOf[b]
    BY <2>1 DEF BatchesIn, Moves
  <2>2. CASE g = GroupOf[b] /\ to \in S
    BY <2>2 DEF BatchesIn, Moves
  <2>3. CASE g = GroupOf[b] /\ to \notin S
    BY <2>3 DEF BatchesIn, Moves
  <2> QED BY <2>1, <2>2, <2>3
<1>3. /\ BatchesIn(S) = [g \in Groups |-> BatchesIn(S)[g]]
      /\ BatchesIn(S)' = [g \in Groups |-> BatchesIn(S)'[g]]
  BY DEF BatchesIn
<1> QED BY <1>1, <1>2, <1>3

(* Claims that come twice, callbacks that are delayed into later claims,   *)
(* failures recorded late and leases recovered keep to MemoryContract:     *)
(* every step is one of its steps or none.                                 *)
THEOREM BatchesKeepTheContract == Spec => BatchesImplementMemory
<1>1. Init => BatchContract!Init
  <2> SUFFICES ASSUME Init PROVE BatchContract!Init
    OBVIOUS
  <2>1. \A b \in Batches : row[b].state = "absent"
    BY DEF Init
  <2> QED BY <2>1 DEF BatchContract!Init, BatchesIn, Outstanding
<1>2. ASSUME IInv, QueueInv, [Next]_vars
      PROVE  [BatchContract!Next]_(BatchContract!vars)
  <2>1. CASE \A b \in Batches : row'[b].state = row[b].state
    <3>1. \A S : BatchesIn(S)' = BatchesIn(S)
      BY <2>1 DEF BatchesIn
    <3> QED BY <3>1 DEF BatchContract!vars
  <2>2. ASSUME NEW b \in Batches, Build(b), Moves(b, {"absent"}, "ready")
        PROVE  BatchContract!Next
    <3> DEFINE g == GroupOf[b]
    <3>0. g \in Groups /\ Batches \subseteq Nat /\ row[b].state = "absent"
      BY <2>2, BatchesAssumption DEF Moves
    <3>1. BatchesIn(Outstanding)[g] = {} /\ BatchesIn({"dead"})[g] = {}
      BY <2>2, <3>0 DEF Build, BatchesIn, Outstanding
    <3>2. \A d \in BatchesIn({"complete"})[g] : d < b
      BY <1>2, <3>0 DEF BatchesIn, QueueInv
    <3>3. BatchesIn(Outstanding)' = [BatchesIn(Outstanding) EXCEPT ![g] = {b}]
      <4>1. "ready" \in Outstanding
        BY DEF Outstanding
      <4>2. BatchesIn(Outstanding)' = [BatchesIn(Outstanding) EXCEPT ![g] = @ \cup {b}]
        BY <2>2, <4>1, MovedBatches
      <4> QED BY <3>1, <4>2
    <3>4. UNCHANGED <<BatchesIn({"complete"}), BatchesIn({"dead"})>>
      <4>1. ASSUME NEW S, S = {"complete"} \/ S = {"dead"}
            PROVE  BatchesIn(S)' = BatchesIn(S)
        <5>1. "ready" \notin S /\ b \notin BatchesIn(S)[g]
          BY <3>0, <4>1 DEF BatchesIn
        <5>2. BatchesIn(S)' = [BatchesIn(S) EXCEPT ![g] = @ \ {b}]
          BY <2>2, <5>1, MovedBatches
        <5>3. BatchesIn(S) = [h \in Groups |-> BatchesIn(S)[h]]
          BY DEF BatchesIn
        <5> QED BY <5>1, <5>2, <5>3
      <4> QED BY <4>1
    <3>5. BatchContract!Take(g, {b})
      <4>1. {b} # {}
        OBVIOUS
      <4>2. \A m \in {b} : \A d \in BatchesIn({"complete"})[g] : d < m
        BY <3>2
      <4> QED BY <3>1, <3>3, <3>4, <4>1, <4>2 DEF BatchContract!Take
    <3> QED BY <3>0, <3>5 DEF BatchContract!Next
  <2>3. ASSUME NEW b \in Batches, NEW to \in Outstanding \cup {"complete", "dead"},
               Moves(b, Outstanding, to)
        PROVE  [BatchContract!Next]_(BatchContract!vars)
    <3> DEFINE g == GroupOf[b]
    <3>0. g \in Groups /\ row[b].state \in Outstanding
      BY <2>3, BatchesAssumption DEF Moves
    <3>1. BatchesIn(Outstanding)[g] = {b}
      BY <1>2, <3>0 DEF BatchesIn, QueueInv, Outstanding
    <3>2. b \notin BatchesIn({"complete"})[g] /\ b \notin BatchesIn({"dead"})[g]
      BY <3>0 DEF BatchesIn, Outstanding
    <3>3. ASSUME NEW S, to \notin S, b \notin BatchesIn(S)[g]
          PROVE  BatchesIn(S)' = BatchesIn(S)
      <4>1. BatchesIn(S)' = [BatchesIn(S) EXCEPT ![g] = @ \ {b}]
        BY <2>3, <3>3, MovedBatches
      <4>2. BatchesIn(S) = [h \in Groups |-> BatchesIn(S)[h]]
        BY DEF BatchesIn
      <4> QED BY <3>3, <4>1, <4>2
    <3>4. ASSUME NEW S, to \in S
          PROVE  BatchesIn(S)' = [BatchesIn(S) EXCEPT ![g] = @ \cup {b}]
      BY <2>3, <3>4, MovedBatches
    <3>5. to \notin Outstanding =>
            BatchesIn(Outstanding)' = [BatchesIn(Outstanding) EXCEPT ![g] = {}]
      <4> SUFFICES ASSUME to \notin Outstanding
                   PROVE  BatchesIn(Outstanding)' = [BatchesIn(Outstanding) EXCEPT ![g] = {}]
        OBVIOUS
      <4>1. BatchesIn(Outstanding)' = [BatchesIn(Outstanding) EXCEPT ![g] = @ \ {b}]
        BY <2>3, MovedBatches
      <4> QED BY <3>1, <4>1
    <3>6. CASE to \in Outstanding
      <4>1. UNCHANGED <<BatchesIn({"complete"}), BatchesIn({"dead"})>>
        BY <3>2, <3>3, <3>6 DEF Outstanding
      <4>2. BatchesIn(Outstanding)' = [BatchesIn(Outstanding) EXCEPT ![g] = {b} \cup {b}]
        BY <3>1, <3>4, <3>6
      <4>3. BatchesIn(Outstanding) = [h \in Groups |-> BatchesIn(Outstanding)[h]]
        BY DEF BatchesIn
      <4>4. UNCHANGED BatchesIn(Outstanding)
        BY <3>1, <4>2, <4>3
      <4> QED BY <4>1, <4>4 DEF BatchContract!vars
    <3>7. CASE to = "complete"
      <4>1. UNCHANGED BatchesIn({"dead"})
        BY <3>2, <3>3, <3>7
      <4>2. BatchesIn({"complete"})' =
              [BatchesIn({"complete"}) EXCEPT ![g] = @ \cup BatchesIn(Outstanding)[g]]
        BY <3>1, <3>4, <3>7
      <4>3. BatchContract!Summarise(g)
        BY <3>1, <3>5, <3>7, <4>1, <4>2 DEF BatchContract!Summarise, Outstanding
      <4> QED BY <3>0, <4>3 DEF BatchContract!Next
    <3>8. CASE to = "dead"
      <4>1. UNCHANGED BatchesIn({"complete"})
        BY <3>2, <3>3, <3>8
      <4>2. BatchesIn({"dead"})' =
              [BatchesIn({"dead"}) EXCEPT ![g] = BatchesIn(Outstanding)[g]]
        <5>1. BatchesIn({"dead"})[g] = {}
          BY <1>2, <3>0 DEF BatchesIn, QueueInv, Outstanding
        <5> QED BY <3>1, <3>4, <3>8, <5>1
      <4>3. BatchContract!GiveUp(g)
        BY <3>1, <3>5, <3>8, <4>1, <4>2 DEF BatchContract!GiveUp, Outstanding
      <4> QED BY <3>0, <4>3 DEF BatchContract!Next
    <3> QED BY <3>6, <3>7, <3>8
  <2> QED BY <1>2, <2>1, <2>2, <2>3, StateMoves
<1> QED BY <1>1, <1>2, QueueStarts, QueueKeeps, InitInv, StepInv, PTL
        DEF Spec, BatchesImplementMemory, BatchContract!Spec
=============================================================================
