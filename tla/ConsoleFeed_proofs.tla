-------------------------- MODULE ConsoleFeed_proofs --------------------------
(***************************************************************************)
(* Proofs about the live stream of ConsoleFeed, for any number of clients  *)
(* and changes and any number of faults.                                   *)
(***************************************************************************)
EXTENDS ConsoleFeed, FiniteSetTheorems, TLAPS

ConnType == [at : {"off", "asked", "place", "opening", "streaming", "saving", "ending"},
             token : Places, resume : Places, start : Places, retried : BOOLEAN,
             delivered : BOOLEAN, pos : Places, pending : Places]
ClientType == [last : Places, seen : SUBSET (1 .. MaxChanges),
               wire : Seq(1 .. MaxChanges), fell : BOOLEAN]

Frames(n) == n.seen \cup ToSet(n.wire)
Contiguous(F) == \A p, q \in F : p .. q \subseteq F

(* A client's frames are one run of changes, the wire comes after what was *)
(* seen and in order, and the last one seen is the client's token.         *)
FrameInv(n) ==
  /\ Contiguous(Frames(n))
  /\ \A i, j \in DOMAIN n.wire : i < j => n.wire[i] < n.wire[j]
  /\ \A x \in n.seen : \A i \in DOMAIN n.wire : x < n.wire[i]
  /\ n.seen = {} => n.last = 0
  /\ n.seen # {} => n.last \in n.seen /\ \A x \in n.seen : x <= n.last

(* Until a connection delivers, it stands where its client left off; then  *)
(* it stands at the newest of the client's frames.                         *)
ConnInv(k, n) ==
  /\ k.at \in {"asked", "place", "opening"} => ~k.delivered
  /\ k.at \in {"asked", "place", "opening", "streaming", "saving"} /\ ~k.delivered =>
       n.wire = <<>> /\ k.token = n.last
  /\ k.at \in {"opening", "streaming", "saving"} /\ ~k.delivered /\ k.token # 0 => k.resume = k.token
  /\ k.at \in {"streaming", "saving"} /\ Frames(n) # {} =>
       k.pos \in Frames(n) /\ \A x \in Frames(n) : x <= k.pos

StreamInv(k, n) == ~n.fell => FrameInv(n) /\ ConnInv(k, n)

IInv == TypeOK /\ \A c \in Clients : StreamInv(conn[c], client[c])

(* The walk.  A row is still to come when the pages so far end before it.  *)
ToCome(w, r) == w.given # <<>> => Newer(w.last, r)
Given(w)     == UNION ToSet(w.given)

WalkType(w) ==
  /\ w = [at |-> w.at, branches |-> w.branches, got |-> w.got, given |-> w.given,
          last |-> w.last, steady |-> w.steady]
  /\ w.steady \subseteq Rows /\ w.given \in Seq(SUBSET Rows)
  /\ w.got = [b \in DOMAIN w.got |-> w.got[b]] /\ DOMAIN w.got \subseteq w.branches
  /\ \A b \in DOMAIN w.got : w.got[b] \subseteq Rows

(* Pages are given in the order of their rows, the cursor is behind all of  *)
(* them, and what the branches hold comes after it.                         *)
PagesInv(w) ==
  /\ \A i, j \in DOMAIN w.given : i < j => \A r \in w.given[i], s \in w.given[j] : Newer(r, s)
  /\ w.at = "page" =>
       /\ \A r \in Given(w) : w.last \in Rows /\ (r = w.last \/ Newer(r, w.last))
       /\ w.given # <<>> => w.last \in Rows
       /\ \A b \in DOMAIN w.got : \A r \in w.got[b] : ToCome(w, r)

(* A row that a branch has not read is behind a full page of that branch.   *)
BranchInv(w) ==
  \A b \in DOMAIN w.got : \A r \in w.steady \cap Found(b) :
    ToCome(w, r) => \/ r \in w.got[b]
                    \/ Cardinality(w.got[b]) = Limit /\ \A s \in w.got[b] : Newer(s, r)

(* No row that passed the filters all along is lost on the way.             *)
SteadyInv(w) ==
  /\ w.steady \subseteq listed
  /\ w.at = "page" => /\ w.steady \subseteq UNION {Found(b) : b \in w.branches}
                      /\ \A r \in w.steady : r \in Given(w) \/ ToCome(w, r)
                      /\ BranchInv(w)
  /\ w.at = "done" => w.steady \subseteq Given(w)

WalkInv == TypeOK /\ WalkType(walk) /\ PagesInv(walk) /\ SteadyInv(walk)

-----------------------------------------------------------------------------
LEMMA TypeParts ==
  ASSUME TypeOK, NEW c \in Clients
  PROVE  /\ conn \in [Clients -> ConnType] /\ client \in [Clients -> ClientType]
         /\ conn[c] \in ConnType /\ client[c] \in ClientType
BY DEF TypeOK, ConnType, ClientType

LEMMA NoSet == ToSet(<<>>) = {}
BY DEF ToSet

LEMMA ToSetAppend ==
  ASSUME NEW S, NEW s \in Seq(S), NEW x
  PROVE  ToSet(Append(s, x)) = ToSet(s) \cup {x}
<1>1. DOMAIN Append(s, x) = 1..Len(s) + 1 /\ DOMAIN s = 1..Len(s) /\ Len(s) \in Nat
  OBVIOUS
<1>2. \A i \in 1..Len(s) : Append(s, x)[i] = s[i]
  OBVIOUS
<1>3. Append(s, x)[Len(s) + 1] = x
  OBVIOUS
<1> QED BY <1>1, <1>2, <1>3 DEF ToSet

LEMMA ToSetTail ==
  ASSUME NEW S, NEW s \in Seq(S), s # <<>>
  PROVE  ToSet(s) = {Head(s)} \cup ToSet(Tail(s))
<1>1. /\ DOMAIN s = 1..Len(s) /\ Len(s) \in Nat \ {0}
      /\ DOMAIN Tail(s) = 1..Len(s) - 1
  OBVIOUS
<1>2. Head(s) = s[1] /\ \A i \in 1..Len(s) - 1 : Tail(s)[i] = s[i + 1]
  OBVIOUS
<1>3. ASSUME NEW i \in DOMAIN s PROVE s[i] \in {Head(s)} \cup ToSet(Tail(s))
  <2>1. i = 1 \/ (i - 1 \in 1..Len(s) - 1 /\ s[i] = Tail(s)[i - 1])
    BY <1>1, <1>2
  <2> QED BY <1>1, <1>2, <2>1 DEF ToSet
<1>4. ASSUME NEW i \in DOMAIN Tail(s) PROVE Tail(s)[i] \in ToSet(s)
  <2>1. i + 1 \in DOMAIN s /\ Tail(s)[i] = s[i + 1]
    BY <1>1, <1>2
  <2> QED BY <2>1 DEF ToSet
<1>5. Head(s) \in ToSet(s)
  BY <1>1, <1>2 DEF ToSet
<1> QED BY <1>3, <1>4, <1>5 DEF ToSet

LEMMA Elements ==
  ASSUME NEW S, NEW s \in Seq(S), NEW i \in DOMAIN s
  PROVE  s[i] \in S
OBVIOUS

LEMMA FramesAreChanges ==
  ASSUME NEW n \in ClientType
  PROVE  Frames(n) \in SUBSET (1 .. MaxChanges) /\ n.seen \in SUBSET (1 .. MaxChanges)
         /\ n.wire \in Seq(1 .. MaxChanges)
         /\ \A i \in DOMAIN n.wire : n.wire[i] \in 1 .. MaxChanges
<1>1. n.seen \in SUBSET (1 .. MaxChanges) /\ n.wire \in Seq(1 .. MaxChanges)
  BY DEF ClientType
<1>2. \A i \in DOMAIN n.wire : n.wire[i] \in 1 .. MaxChanges
  BY <1>1, Elements
<1> QED BY <1>1, <1>2 DEF Frames, ToSet

(* A client with another wire.                                             *)
LEMMA Rewired ==
  ASSUME NEW n \in ClientType, NEW w \in Seq(1 .. MaxChanges)
  PROVE  LET m == [n EXCEPT !.wire = w]
         IN  m \in ClientType /\ m.seen = n.seen /\ m.last = n.last /\ m.fell = n.fell /\ m.wire = w
<1> DEFINE W == Seq(1 .. MaxChanges)
           S == SUBSET (1 .. MaxChanges)
<1>1. n \in [last : Places, seen : S, wire : W, fell : BOOLEAN] /\ w \in W
  BY DEF ClientType
<1> HIDE DEF W, S
<1>2. [n EXCEPT !.wire = w] \in [last : Places, seen : S, wire : W, fell : BOOLEAN]
  BY <1>1
<1> QED BY <1>1, <1>2 DEF ClientType, W, S

LEMMA Blank ==
  /\ NoConn \in ConnType /\ NoClient \in ClientType
  /\ \A k : k.at \in {"off", "ending"} => ConnInv(k, NoClient)
  /\ FrameInv(NoClient)
<1>1. 0 \in Places
  BY BoundsAssumption DEF Places
<1>2. Frames(NoClient) = {}
  BY NoSet DEF Frames, NoClient
<1> QED BY <1>1, <1>2 DEF NoConn, NoClient, ConnType, ClientType, ConnInv, FrameInv, Contiguous

LEMMA InitInv == Init => IInv
<1> SUFFICES ASSUME Init PROVE IInv
  OBVIOUS
<1>1. 0 \in Places /\ 0 \in 0 .. MaxFaults
  BY BoundsAssumption DEF Places
<1>2. TypeOK
  BY <1>1, Blank, RowsAssumption DEF Init, TypeOK, ConnType, ClientType
<1>3. \A c \in Clients : StreamInv(conn[c], client[c])
  BY Blank DEF Init, StreamInv, NoConn
<1> QED BY <1>2, <1>3 DEF IInv

(* Only one client's stream is touched by a step of it.                    *)
LEMMA OneStream ==
  ASSUME IInv, NEW c \in Clients,
         UNCHANGED <<stored, listed, changes, horizon>>,
         cursor' \in Places, faults' \in 0 .. MaxFaults,
         NEW k \in ConnType, NEW n \in ClientType,
         conn' = [conn EXCEPT ![c] = k], client' = [client EXCEPT ![c] = n],
         StreamInv(k, n)
  PROVE  IInv'
<1>1. conn' \in [Clients -> ConnType] /\ client' \in [Clients -> ClientType]
  BY TypeParts DEF IInv
<1>2. TypeOK'
  BY <1>1 DEF IInv, TypeOK, ConnType, ClientType, Places
<1>3. \A d \in Clients : StreamInv(conn'[d], client'[d])
  BY TypeParts DEF IInv
<1> QED BY <1>2, <1>3 DEF IInv

(* A client whose frames stay, on a connection that need not know them.    *)
LEMMA Detached ==
  ASSUME NEW k, NEW n, ~n.fell => FrameInv(n), k.at \in {"off", "ending"}
  PROVE  StreamInv(k, n)
BY DEF StreamInv, ConnInv

(* Frames lost on the wire are the newest ones.                            *)
LEMMA WireLost ==
  ASSUME NEW n \in ClientType, FrameInv(n)
  PROVE  FrameInv([n EXCEPT !.wire = <<>>])
<1> DEFINE m == [n EXCEPT !.wire = <<>>]
<1>0. <<>> \in Seq(1 .. MaxChanges)
  OBVIOUS
<1>1. m.seen = n.seen /\ m.last = n.last /\ m.wire = <<>>
  BY <1>0, Rewired
<1>2. Frames(m) = n.seen
  BY <1>1, NoSet DEF Frames
<1>3. ASSUME NEW p \in n.seen, NEW q \in n.seen, NEW x \in p .. q
      PROVE  x \in n.seen
  <2>1. x \in Frames(n)
    BY <1>3 DEF FrameInv, Contiguous, Frames
  <2>2. p \in Int /\ q \in Int
    BY FramesAreChanges
  <2>3. ASSUME NEW i \in DOMAIN n.wire PROVE x # n.wire[i]
    <3>1. q < n.wire[i] /\ n.wire[i] \in Int
      BY FramesAreChanges DEF FrameInv
    <3> QED BY <2>2, <3>1
  <2> QED BY <2>1, <2>3 DEF Frames, ToSet
<1>4. Contiguous(Frames(m))
  BY <1>2, <1>3 DEF Contiguous
<1> QED BY <1>1, <1>4 DEF FrameInv

LEMMA FaultType ==
  ASSUME TypeOK, Fails \/ UNCHANGED faults
  PROVE  faults' \in 0 .. MaxFaults
BY BoundsAssumption DEF TypeOK, Fails

(* A stream that broke goes on from where it stands, or ends.              *)
LEMMA BrokenKeeps ==
  ASSUME IInv, NEW c \in Clients, conn[c].at \in {"opening", "streaming"}
  PROVE  Broken(c) \in ConnType /\ StreamInv(Broken(c), client[c])
<1>1. conn[c] \in ConnType /\ StreamInv(conn[c], client[c])
  BY TypeParts DEF IInv
<1>2. CASE Broken(c) = [conn[c] EXCEPT !.at = "opening", !.retried = TRUE] /\ ~conn[c].delivered
  <2> DEFINE k == [conn[c] EXCEPT !.at = "opening", !.retried = TRUE]
  <2>1. k \in ConnType /\ k.at = "opening" /\ k.delivered = conn[c].delivered
        /\ k.token = conn[c].token /\ k.resume = conn[c].resume
    BY <1>1 DEF ConnType
  <2>2. StreamInv(k, client[c])
    BY <1>1, <1>2, <2>1 DEF StreamInv, ConnInv
  <2> QED BY <1>2, <2>1, <2>2
<1>3. CASE Broken(c) = [conn[c] EXCEPT !.at = "ending"]
  <2>1. Broken(c) \in ConnType /\ Broken(c).at = "ending"
    BY <1>1, <1>3 DEF ConnType
  <2> QED BY <1>1, <2>1, Detached DEF StreamInv
<1> QED BY <1>2, <1>3 DEF Broken

LEMMA PlacingPreserves ==
  ASSUME IInv, NEW c \in Clients,
         Connect(c) \/ ChangeStreamSupport(c) \/ ReadStreamCursor(c)
  PROVE  IInv'
<1> DEFINE n == client[c]
<1>0. /\ TypeOK /\ conn[c] \in ConnType /\ n \in ClientType /\ StreamInv(conn[c], n)
      /\ 0 \in Places
  BY TypeParts, BoundsAssumption DEF IInv, Places
<1>1. /\ UNCHANGED <<stored, listed, changes, horizon>> /\ cursor' \in Places
      /\ client' = [client EXCEPT ![c] = n]
  BY <1>0, TypeParts DEF Connect, ChangeStreamSupport, ReadStreamCursor, database, TypeOK
<1>2. faults' \in 0 .. MaxFaults
  BY <1>0, FaultType DEF Connect, ChangeStreamSupport, ReadStreamCursor
<1> HIDE DEF n
<1> SUFFICES \E k \in ConnType : conn' = [conn EXCEPT ![c] = k] /\ StreamInv(k, n)
  BY <1>0, <1>1, <1>2, OneStream
<1>3. CASE Connect(c)
  <2> DEFINE k == [NoConn EXCEPT !.at = "asked", !.token = n.last]
  <2>1. /\ k \in ConnType /\ k.at = "asked" /\ k.token = n.last
    BY <1>0, Blank DEF ConnType, ClientType, NoConn
  <2>2. n.wire = <<>> /\ conn' = [conn EXCEPT ![c] = k]
    BY <1>3 DEF Connect, Conn, n
  <2>3. ~k.delivered
    BY DEF NoConn
  <2>4. StreamInv(k, n)
    BY <1>0, <2>1, <2>2, <2>3 DEF StreamInv, ConnInv
  <2> QED BY <2>1, <2>2, <2>4
<1>4. CASE conn' = [conn EXCEPT ![c] = NoConn]
  <2>1. NoConn.at = "off"
    BY DEF NoConn
  <2>2. StreamInv(NoConn, n)
    BY <1>0, <2>1, Detached DEF StreamInv
  <2> QED BY <1>4, <2>2, Blank
<1>5. ASSUME NEW start \in {changes, IF changes = 0 THEN 0 ELSE changes - 1},
             Conn(c, "asked", [conn[c] EXCEPT !.at = "place", !.start = start])
      PROVE  \E k \in ConnType : conn' = [conn EXCEPT ![c] = k] /\ StreamInv(k, n)
  <2> DEFINE k == [conn[c] EXCEPT !.at = "place", !.start = start]
  <2>1. start \in Places
    <3>1. changes \in Places /\ (changes # 0 => changes - 1 \in Places)
      BY <1>0, BoundsAssumption DEF TypeOK, Places
    <3> QED BY <1>0, <1>5, <3>1
  <2>2. /\ k \in ConnType /\ k.at = "place" /\ k.token = conn[c].token
        /\ k.delivered = conn[c].delivered
    BY <1>0, <2>1 DEF ConnType
  <2>3. StreamInv(k, n)
    BY <1>0, <1>5, <2>2 DEF StreamInv, ConnInv, Conn
  <2> QED BY <1>5, <2>2, <2>3 DEF Conn
<1>6. CASE Conn(c, "place", [conn[c] EXCEPT !.at = "opening", !.resume = Place(c)])
  <2> DEFINE k == [conn[c] EXCEPT !.at = "opening", !.resume = Place(c)]
  <2>1. Place(c) \in Places /\ (conn[c].token # 0 => Place(c) = conn[c].token)
    BY <1>0 DEF Place, TypeOK, ConnType
  <2>2. /\ k \in ConnType /\ k.at = "opening" /\ k.token = conn[c].token
        /\ k.delivered = conn[c].delivered /\ k.resume = Place(c)
    BY <1>0, <2>1 DEF ConnType
  <2>3. StreamInv(k, n)
    BY <1>0, <1>6, <2>1, <2>2 DEF StreamInv, ConnInv, Conn
  <2> QED BY <1>6, <2>2, <2>3 DEF Conn
<1> QED BY <1>3, <1>4, <1>5, <1>6 DEF ChangeStreamSupport, ReadStreamCursor, Conn

LEMMA OpenPreserves ==
  ASSUME IInv, NEW c \in Clients, OpenChangeStream(c)
  PROVE  IInv'
<1> DEFINE n == client[c]
           resumes == conn[c].resume # 0 /\ ~conn[c].retried
           from == IF resumes THEN conn[c].resume ELSE conn[c].start
<1>0. /\ TypeOK /\ conn[c] \in ConnType /\ n \in ClientType /\ StreamInv(conn[c], n)
      /\ conn[c].at = "opening"
  BY TypeParts DEF IInv, OpenChangeStream, Conn
<1>1. /\ UNCHANGED <<stored, listed, changes, horizon>> /\ cursor' \in Places
      /\ faults' \in 0 .. MaxFaults
  BY <1>0 DEF OpenChangeStream, database, TypeOK
<1>2. CASE conn' = [conn EXCEPT ![c] = Broken(c)] /\ UNCHANGED client
  <2>1. client' = [client EXCEPT ![c] = n]
    BY <1>0, <1>2, TypeParts
  <2> QED BY <1>0, <1>1, <1>2, <2>1, BrokenKeeps, OneStream
<1>3. CASE /\ conn' = [conn EXCEPT ![c] = [conn[c] EXCEPT !.at = "streaming", !.pos = from]]
           /\ client' = [client EXCEPT ![c].fell = @ \/ (conn[c].retried /\ n.seen # {})]
  <2> DEFINE k == [conn[c] EXCEPT !.at = "streaming", !.pos = from]
             m == [n EXCEPT !.fell = @ \/ (conn[c].retried /\ n.seen # {})]
  <2>1. /\ k \in ConnType /\ k.at = "streaming" /\ k.pos = from /\ k.token = conn[c].token
        /\ k.delivered = conn[c].delivered /\ k.resume = conn[c].resume
    BY <1>0 DEF ConnType
  <2>2. /\ m \in ClientType /\ m.seen = n.seen /\ m.wire = n.wire /\ m.last = n.last
        /\ m.fell <=> n.fell \/ (conn[c].retried /\ n.seen # {})
    BY <1>0 DEF ClientType, ConnType
  <2>3. conn' = [conn EXCEPT ![c] = k] /\ client' = [client EXCEPT ![c] = m]
    BY <1>3
  <2>4. ASSUME ~m.fell PROVE FrameInv(m) /\ ConnInv(k, m)
    <3>1. FrameInv(n) /\ ConnInv(conn[c], n)
      BY <1>0, <2>2, <2>4 DEF StreamInv
    <3>2. FrameInv(m)
      BY <2>2, <3>1 DEF FrameInv, Frames
    <3>3. n.wire = <<>> /\ conn[c].token = n.last /\ ~conn[c].delivered
          /\ (conn[c].token # 0 => conn[c].resume = conn[c].token)
      BY <1>0, <3>1 DEF ConnInv
    <3>4. Frames(m) = n.seen
      BY <2>2, <3>3, NoSet DEF Frames
    <3>5. ASSUME n.seen # {} PROVE from \in n.seen /\ \A x \in n.seen : x <= from
      <4>1. n.last \in n.seen /\ n.last # 0
        BY <1>0, <3>1, <3>5, FramesAreChanges DEF FrameInv
      <4>2. conn[c].resume = n.last /\ ~conn[c].retried
        BY <2>2, <2>4, <3>3, <3>5, <4>1
      <4>3. from = n.last
        BY <4>1, <4>2
      <4> QED BY <3>1, <3>5, <4>3 DEF FrameInv
    <3> HIDE DEF from, k, m, n
    <3> QED BY <2>1, <2>2, <3>2, <3>3, <3>4, <3>5 DEF ConnInv
  <2>5. StreamInv(k, m)
    BY <2>4 DEF StreamInv
  <2> HIDE DEF k, m
  <2> QED BY <1>1, <2>1, <2>2, <2>3, <2>5, OneStream
<1> QED BY <1>2, <1>3 DEF OpenChangeStream, Conn

LEMMA DeliverPreserves ==
  ASSUME IInv, NEW c \in Clients, Deliver(c)
  PROVE  IInv'
<1> DEFINE n == client[c]
           new == conn[c].pos + 1
           m == [n EXCEPT !.wire = Append(n.wire, new)]
<1>0. /\ TypeOK /\ conn[c] \in ConnType /\ n \in ClientType /\ StreamInv(conn[c], n)
      /\ conn[c].at = "streaming" /\ conn[c].pos < changes
  BY TypeParts DEF IInv, Deliver, Conn
<1>1. /\ UNCHANGED <<stored, listed, changes, horizon>> /\ cursor' \in Places
      /\ faults' \in 0 .. MaxFaults
  BY <1>0 DEF Deliver, database, TypeOK
<1>2. new \in 1 .. MaxChanges /\ new \in Places /\ conn[c].pos \in Nat
  BY <1>0, BoundsAssumption DEF TypeOK, ConnType, Places
<1>3. PICK at \in {"streaming", "saving"} :
        conn' = [conn EXCEPT ![c] = [conn[c] EXCEPT !.at = at, !.delivered = TRUE,
                                                    !.pos = @ + 1, !.pending = conn[c].pos + 1]]
  BY DEF Deliver, Conn
<1> DEFINE k == [conn[c] EXCEPT !.at = at, !.delivered = TRUE, !.pos = @ + 1, !.pending = conn[c].pos + 1]
<1>4. k \in ConnType /\ k.at = at /\ k.delivered = TRUE /\ k.pos = new
  BY <1>0, <1>2 DEF ConnType
<1>5. /\ m \in ClientType /\ m.seen = n.seen /\ m.wire = Append(n.wire, new)
      /\ m.last = n.last /\ m.fell = n.fell
      /\ n.wire \in Seq(1 .. MaxChanges)
  <2>1. n.wire \in Seq(1 .. MaxChanges)
    BY <1>0, FramesAreChanges
  <2>2. Append(n.wire, new) \in Seq(1 .. MaxChanges)
    BY <1>2, <2>1
  <2> QED BY <1>0, <2>1, <2>2, Rewired
<1>6. client' = [client EXCEPT ![c] = m]
  BY DEF Deliver
<1>7. Frames(m) = Frames(n) \cup {new}
  BY <1>5, ToSetAppend DEF Frames
<1>8. ASSUME ~m.fell PROVE FrameInv(m) /\ ConnInv(k, m)
  <2>1. FrameInv(n) /\ ConnInv(conn[c], n)
    BY <1>0, <1>5, <1>8 DEF StreamInv
  <2>2. Frames(n) # {} => conn[c].pos \in Frames(n) /\ \A x \in Frames(n) : x <= conn[c].pos
    BY <1>0, <2>1 DEF ConnInv
  <2>3. \A x \in Frames(n) : x < new /\ x \in Int
    BY <1>0, <1>2, <2>2, FramesAreChanges
  <2>4. Contiguous(Frames(m))
    <3>1. ASSUME NEW p \in Frames(n) \cup {new}, NEW q \in Frames(n) \cup {new}, NEW x \in p .. q
          PROVE  x \in Frames(n) \cup {new}
      <4>0. Contiguous(Frames(n))
        BY <2>1 DEF FrameInv
      <4>1. CASE q = new /\ p # new /\ x # new
        <5>1. p \in Frames(n) /\ conn[c].pos \in Frames(n) /\ p \in Int
          BY <2>2, <2>3, <3>1, <4>1
        <5>2. x \in p .. conn[c].pos
          BY <1>2, <3>1, <4>1, <5>1
        <5> QED BY <4>0, <5>1, <5>2 DEF Contiguous
      <4>2. CASE q = new /\ p = new
        BY <1>2, <3>1, <4>2
      <4>3. CASE q # new /\ p = new
        BY <1>2, <2>3, <3>1, <4>3
      <4>4. CASE q # new /\ p # new
        BY <3>1, <4>0, <4>4 DEF Contiguous
      <4> QED BY <4>1, <4>2, <4>3, <4>4
    <3> QED BY <1>7, <3>1 DEF Contiguous
  <2>5. \A i \in DOMAIN n.wire : n.wire[i] \in Frames(n)
    BY DEF Frames, ToSet
  <2>6. /\ DOMAIN m.wire = 1 .. Len(n.wire) + 1 /\ DOMAIN n.wire = 1 .. Len(n.wire)
        /\ Len(n.wire) \in Nat
        /\ m.wire[Len(n.wire) + 1] = new
        /\ \A i \in 1 .. Len(n.wire) : m.wire[i] = n.wire[i]
    BY <1>5
  <2> HIDE DEF m, n, new
  <2>7. \A i, j \in DOMAIN m.wire : i < j => m.wire[i] < m.wire[j]
    <3> SUFFICES ASSUME NEW i \in DOMAIN m.wire, NEW j \in DOMAIN m.wire, i < j
                 PROVE  m.wire[i] < m.wire[j]
      OBVIOUS
    <3>1. i \in 1 .. Len(n.wire) /\ m.wire[i] = n.wire[i]
      BY <2>6
    <3>2. CASE j \in 1 .. Len(n.wire)
      BY <2>1, <2>6, <3>1, <3>2 DEF FrameInv
    <3>3. CASE j = Len(n.wire) + 1
      BY <2>3, <2>5, <2>6, <3>1, <3>3
    <3> QED BY <2>6, <3>2, <3>3
  <2>8. \A x \in m.seen : \A i \in DOMAIN m.wire : x < m.wire[i]
    <3> SUFFICES ASSUME NEW x \in m.seen, NEW i \in DOMAIN m.wire PROVE x < m.wire[i]
      OBVIOUS
    <3>1. x \in n.seen /\ x \in Frames(n)
      BY <1>5 DEF Frames
    <3>2. CASE i \in 1 .. Len(n.wire)
      BY <2>1, <2>6, <3>1, <3>2 DEF FrameInv
    <3>3. CASE i = Len(n.wire) + 1
      BY <2>3, <2>6, <3>1, <3>3
    <3> QED BY <2>6, <3>2, <3>3
  <2>9. FrameInv(m)
    BY <1>5, <2>1, <2>4, <2>7, <2>8 DEF FrameInv
  <2>10. ConnInv(k, m)
    <3>1. new \in Frames(m) /\ \A x \in Frames(m) : x <= new
      BY <1>2, <1>7, <2>3
    <3> HIDE DEF k
    <3> QED BY <1>4, <3>1 DEF ConnInv
  <2> QED BY <2>9, <2>10
<1>9. StreamInv(k, m)
  BY <1>8 DEF StreamInv
<1>10. conn' = [conn EXCEPT ![c] = k]
  BY <1>3
<1> HIDE DEF k, m, new
<1> QED BY <1>1, <1>4, <1>5, <1>6, <1>9, <1>10, OneStream

LEMMA SavePreserves ==
  ASSUME IInv, NEW c \in Clients, Save(c) \/ End(c)
  PROVE  IInv'
<1> DEFINE n == client[c]
<1>0. /\ TypeOK /\ conn[c] \in ConnType /\ n \in ClientType /\ StreamInv(conn[c], n)
  BY TypeParts DEF IInv
<1>1. /\ UNCHANGED <<stored, listed, changes, horizon>> /\ cursor' \in Places
      /\ faults' \in 0 .. MaxFaults /\ client' = [client EXCEPT ![c] = n]
  BY <1>0, TypeParts DEF Save, End, SaveStreamCursor, database, TypeOK, ConnType
<1>2. CASE Save(c)
  <2> DEFINE k == [conn[c] EXCEPT !.at = "streaming"]
  <2>1. /\ k \in ConnType /\ k.at = "streaming" /\ k.token = conn[c].token /\ k.pos = conn[c].pos
        /\ k.delivered = conn[c].delivered /\ k.resume = conn[c].resume
    BY <1>0 DEF ConnType
  <2>2. conn[c].at = "saving" /\ conn' = [conn EXCEPT ![c] = k]
    BY <1>2 DEF Save, SaveStreamCursor, Conn
  <2>3. StreamInv(k, n)
    BY <1>0, <2>1, <2>2 DEF StreamInv, ConnInv
  <2> HIDE DEF k
  <2> QED BY <1>0, <1>1, <2>1, <2>2, <2>3, OneStream
<1>3. CASE End(c)
  <2>1. NoConn.at = "off" /\ conn' = [conn EXCEPT ![c] = NoConn]
    BY <1>3 DEF End, SaveStreamCursor, Conn, NoConn
  <2>2. StreamInv(NoConn, n)
    BY <1>0, <2>1, Detached DEF StreamInv
  <2> QED BY <1>0, <1>1, <2>1, <2>2, Blank, OneStream
<1> QED BY <1>2, <1>3

LEMMA BreakPreserves ==
  ASSUME IInv, NEW c \in Clients, Break(c)
  PROVE  IInv'
<1>0. TypeOK /\ client[c] \in ClientType /\ conn[c].at \in {"opening", "streaming"}
  BY TypeParts DEF IInv, Break
<1>1. /\ UNCHANGED <<stored, listed, changes, horizon>> /\ cursor' \in Places
      /\ client' = [client EXCEPT ![c] = client[c]] /\ conn' = [conn EXCEPT ![c] = Broken(c)]
  BY <1>0, TypeParts DEF Break, database, TypeOK
<1>2. faults' \in 0 .. MaxFaults
  BY <1>0, FaultType DEF Break
<1> QED BY <1>0, <1>1, <1>2, BrokenKeeps, OneStream

LEMMA ReceivePreserves ==
  ASSUME IInv, NEW c \in Clients, Receive(c)
  PROVE  IInv'
<1> DEFINE n == client[c]
           h == Head(n.wire)
           m == [n EXCEPT !.last = h, !.seen = n.seen \cup {h}, !.wire = Tail(n.wire)]
<1>0. /\ TypeOK /\ conn[c] \in ConnType /\ n \in ClientType /\ StreamInv(conn[c], n)
      /\ n.wire # <<>> /\ n.wire \in Seq(1 .. MaxChanges)
  BY TypeParts, FramesAreChanges DEF IInv, Receive
<1>1. /\ UNCHANGED <<stored, listed, changes, horizon>> /\ cursor' \in Places
      /\ faults' \in 0 .. MaxFaults /\ conn' = [conn EXCEPT ![c] = conn[c]]
      /\ client' = [client EXCEPT ![c] = m]
  <2>1. client' = [client EXCEPT ![c] = m]
    BY DEF Receive
  <2>2. conn' = [conn EXCEPT ![c] = conn[c]]
    BY <1>0, TypeParts DEF Receive
  <2> QED BY <1>0, <2>1, <2>2 DEF Receive, database, TypeOK
<1>2. /\ h \in 1 .. MaxChanges /\ h = n.wire[1] /\ Len(n.wire) \in Nat \ {0}
      /\ DOMAIN n.wire = 1 .. Len(n.wire) /\ DOMAIN Tail(n.wire) = 1 .. Len(n.wire) - 1
      /\ \A i \in 1 .. Len(n.wire) - 1 : Tail(n.wire)[i] = n.wire[i + 1]
      /\ Tail(n.wire) \in Seq(1 .. MaxChanges)
  <2> DEFINE S == 1 .. MaxChanges
             w == n.wire
  <2>1. w \in Seq(S) /\ w # <<>>
    BY <1>0
  <2> HIDE DEF S, w
  <2>2. /\ Head(w) \in S /\ Head(w) = w[1] /\ Len(w) \in Nat \ {0}
        /\ DOMAIN w = 1 .. Len(w) /\ Tail(w) \in Seq(S)
    BY <2>1
  <2>3. /\ DOMAIN Tail(w) = 1 .. Len(w) - 1
        /\ \A i \in 1 .. Len(w) - 1 : Tail(w)[i] = w[i + 1]
    BY <2>1
  <2> QED BY <2>2, <2>3 DEF S, w
<1>3. /\ m.last = h /\ m.seen = n.seen \cup {h} /\ m.wire = Tail(n.wire) /\ m.fell = n.fell
      /\ m \in ClientType
  <2> DEFINE W == Seq(1 .. MaxChanges)
             S == SUBSET (1 .. MaxChanges)
  <2>1. n \in [last : Places, seen : S, wire : W, fell : BOOLEAN]
    BY <1>0 DEF ClientType
  <2>2. h \in Places /\ n.seen \cup {h} \in S /\ Tail(n.wire) \in W
    BY <1>2, <2>1 DEF Places
  <2> HIDE DEF W, S, h
  <2>3. /\ m \in [last : Places, seen : S, wire : W, fell : BOOLEAN]
        /\ m.last = h /\ m.seen = n.seen \cup {h} /\ m.wire = Tail(n.wire) /\ m.fell = n.fell
    BY <2>1, <2>2
  <2> QED BY <2>3 DEF ClientType, W, S
<1>4. Frames(m) = Frames(n)
  <2>1. ToSet(n.wire) = {h} \cup ToSet(Tail(n.wire))
    BY <1>0, ToSetTail
  <2> QED BY <1>3, <2>1 DEF Frames
<1>5. ASSUME ~m.fell PROVE FrameInv(m) /\ ConnInv(conn[c], m)
  <2>1. FrameInv(n) /\ ConnInv(conn[c], n)
    BY <1>0, <1>3, <1>5 DEF StreamInv
  <2>2. \A x \in n.seen : x < h /\ x \in Int
    <3>1. 1 \in DOMAIN n.wire
      BY <1>2
    <3>2. \A x \in n.seen : x < n.wire[1]
      BY <2>1, <3>1 DEF FrameInv
    <3>3. n.seen \subseteq Int
      BY <1>0, FramesAreChanges
    <3> QED BY <1>2, <3>2, <3>3
  <2>3. \A i \in 1 .. Len(n.wire) - 1 : h < n.wire[i + 1] /\ i + 1 \in DOMAIN n.wire
    BY <1>2, <2>1 DEF FrameInv
  <2> HIDE DEF m, h, n
  <2>4. \A i, j \in DOMAIN m.wire : i < j => m.wire[i] < m.wire[j]
    <3> SUFFICES ASSUME NEW i \in DOMAIN m.wire, NEW j \in DOMAIN m.wire, i < j
                 PROVE  m.wire[i] < m.wire[j]
      OBVIOUS
    <3>1. i + 1 \in DOMAIN n.wire /\ j + 1 \in DOMAIN n.wire /\ i + 1 < j + 1
      BY <1>2, <1>3
    <3>2. m.wire[i] = n.wire[i + 1] /\ m.wire[j] = n.wire[j + 1]
      BY <1>2, <1>3
    <3> QED BY <2>1, <3>1, <3>2 DEF FrameInv
  <2>5. \A x \in m.seen : \A i \in DOMAIN m.wire : x < m.wire[i]
    <3> SUFFICES ASSUME NEW x \in m.seen, NEW i \in DOMAIN m.wire PROVE x < m.wire[i]
      OBVIOUS
    <3>1. i \in 1 .. Len(n.wire) - 1 /\ i + 1 \in DOMAIN n.wire /\ m.wire[i] = n.wire[i + 1]
      BY <1>2, <1>3
    <3>2. CASE x = h
      BY <2>3, <3>1, <3>2
    <3>3. CASE x \in n.seen
      BY <2>1, <3>1, <3>3 DEF FrameInv
    <3> QED BY <1>3, <3>2, <3>3
  <2>6. h \in m.seen /\ \A x \in m.seen : x <= h
    BY <1>2, <1>3, <2>2
  <2>7. FrameInv(m)
    BY <1>3, <1>4, <2>1, <2>4, <2>5, <2>6 DEF FrameInv
  <2>8. ConnInv(conn[c], m)
    BY <1>0, <1>4, <2>1 DEF ConnInv
  <2> QED BY <2>7, <2>8
<1>6. StreamInv(conn[c], m)
  BY <1>5 DEF StreamInv
<1> HIDE DEF m
<1> QED BY <1>0, <1>1, <1>3, <1>6, OneStream

LEMMA LeavePreserves ==
  ASSUME IInv, NEW c \in Clients, Leave(c)
  PROVE  IInv'
<1> DEFINE k == [conn[c] EXCEPT !.at = "ending"]
<1>0. /\ TypeOK /\ conn[c] \in ConnType /\ client[c] \in ClientType /\ StreamInv(conn[c], client[c])
  BY TypeParts DEF IInv
<1>1. /\ UNCHANGED <<stored, listed, changes, horizon>> /\ cursor' \in Places
      /\ conn' = [conn EXCEPT ![c] = k]
  BY <1>0, TypeParts DEF Leave, database, TypeOK
<1>2. faults' \in 0 .. MaxFaults
  BY <1>0, FaultType DEF Leave
<1>3. PICK m \in {NoClient, [client[c] EXCEPT !.wire = <<>>]} : client' = [client EXCEPT ![c] = m]
  BY DEF Leave
<1>4. k \in ConnType /\ k.at = "ending"
  BY <1>0 DEF ConnType
<1>5. m \in ClientType /\ (~m.fell => FrameInv(m))
  <2>1. CASE m = NoClient
    BY <2>1, Blank
  <2>2. CASE m = [client[c] EXCEPT !.wire = <<>>]
    <3>0. <<>> \in Seq(1 .. MaxChanges)
      OBVIOUS
    <3>1. m \in ClientType /\ m.fell = client[c].fell
      BY <1>0, <2>2, <3>0, Rewired
    <3> QED BY <1>0, <2>2, <3>1, WireLost DEF StreamInv
  <2> QED BY <2>1, <2>2
<1>6. StreamInv(k, m)
  BY <1>4, <1>5, Detached
<1> HIDE DEF k
<1> QED BY <1>1, <1>2, <1>3, <1>4, <1>5, <1>6, OneStream

LEMMA CrashPreserves ==
  ASSUME IInv, Crash
  PROVE  IInv'
<1>0. TypeOK /\ faults' \in 0 .. MaxFaults
  BY FaultType DEF IInv, Crash
<1>1. ASSUME NEW c \in Clients
      PROVE  /\ conn'[c] = NoConn /\ client'[c] = [client[c] EXCEPT !.wire = <<>>]
             /\ client'[c] \in ClientType /\ StreamInv(conn'[c], client'[c])
  <2>1. client[c] \in ClientType /\ StreamInv(conn[c], client[c])
    BY TypeParts DEF IInv
  <2>2. conn'[c] = NoConn /\ client'[c] = [client[c] EXCEPT !.wire = <<>>] /\ NoConn.at = "off"
    BY DEF Crash, NoConn
  <2>0. <<>> \in Seq(1 .. MaxChanges)
    OBVIOUS
  <2> DEFINE m == [client[c] EXCEPT !.wire = <<>>]
  <2>m. m \in ClientType /\ m.fell = client[c].fell
    BY <2>0, <2>1, Rewired
  <2>3. client'[c] \in ClientType /\ client'[c].fell = client[c].fell
    BY <2>2, <2>m
  <2>4. ~client'[c].fell => FrameInv(client'[c])
    BY <2>1, <2>2, <2>3, WireLost DEF StreamInv
  <2> QED BY <2>2, <2>3, <2>4, Detached
<1>2. conn' \in [Clients -> ConnType] /\ client' \in [Clients -> ClientType]
  BY <1>1, Blank DEF Crash
<1>3. TypeOK'
  BY <1>0, <1>2 DEF Crash, TypeOK, ConnType, ClientType, database, Places
<1> QED BY <1>1, <1>3 DEF IInv

LEMMA WritePreserves ==
  ASSUME IInv, WriteAny \/ Truncate \/ SearchMessages \/ \E r \in Rows : Insert(r) \/ Update(r)
  PROVE  IInv'
<1>1. TypeOK /\ UNCHANGED stream
  BY DEF IInv, WriteAny, Truncate, SearchMessages, Begin, ReadBranch, GivePage, Insert, Update,
         Write, stream
<1>2. /\ stored' \in SUBSET Rows /\ listed' \in SUBSET stored'
      /\ changes' \in Places /\ horizon' \in Places
  <2>1. \/ UNCHANGED changes \/ (changes < MaxChanges /\ changes' = changes + 1)
    BY DEF WriteAny, Truncate, SearchMessages, Begin, ReadBranch, GivePage, Insert, Update, Write, database
  <2>2. \/ UNCHANGED horizon \/ (horizon + 1 < changes /\ horizon' = horizon + 1)
    BY DEF WriteAny, Truncate, SearchMessages, Begin, ReadBranch, GivePage, Insert, Update, Write, database
  <2>3. stored' \in SUBSET Rows /\ listed' \in SUBSET stored'
    BY <1>1 DEF WriteAny, Truncate, SearchMessages, Begin, ReadBranch, GivePage, Insert, Update,
       database, TypeOK
  <2>4. changes' \in Places
    BY <1>1, <2>1, BoundsAssumption DEF TypeOK, Places
  <2>5. horizon' \in Places
    BY <1>1, <2>2, BoundsAssumption DEF TypeOK, Places
  <2> QED BY <2>3, <2>4, <2>5
<1>3. TypeOK'
  BY <1>1, <1>2 DEF TypeOK, stream, Places
<1> QED BY <1>1, <1>3 DEF IInv, stream

LEMMA NextPreserves == IInv /\ [Next]_vars => IInv'
<1> SUFFICES ASSUME IInv, [Next]_vars PROVE IInv'
  OBVIOUS
<1>1. CASE UNCHANGED vars
  <2>1. TypeOK'
    BY <1>1 DEF vars, database, stream, IInv, TypeOK, Places
  <2> QED BY <1>1, <2>1 DEF vars, database, stream, IInv
<1>2. CASE Next
  BY <1>2, PlacingPreserves, OpenPreserves, DeliverPreserves, SavePreserves, BreakPreserves,
     ReceivePreserves, LeavePreserves, CrashPreserves, WritePreserves
  DEF Next, Serve
<1> QED BY <1>1, <1>2

(* A client that was never sent back to the time of the probe has missed   *)
(* no change, for any number of tabs, lost connections, restarts and       *)
(* truncations of the oplog (openChangeStream, resumeAfter, Last-Event-ID). *)
THEOREM NothingIsMissed == Spec => []ChangesAreContiguous
<1>1. IInv => ChangesAreContiguous
  BY DEF IInv, StreamInv, FrameInv, Contiguous, Frames, ChangesAreContiguous
<1> QED BY <1>1, InitInv, NextPreserves, PTL DEF Spec

-----------------------------------------------------------------------------
LEMMA NewerOrder ==
  /\ \A r \in Rows : ~Newer(r, r)
  /\ \A r, s \in Rows : r = s \/ Newer(r, s) \/ Newer(s, r)
  /\ \A r, s, t \in Rows : Newer(r, s) /\ Newer(s, t) => Newer(r, t)
<1>1. \A r \in Rows : r = [at |-> r.at, id |-> r.id, instance |-> r.instance]
                      /\ r.at \in Nat /\ r.id \in Nat /\ r.instance \in Nat
  BY RowsAssumption
<1>2. ASSUME NEW r \in Rows, NEW s \in Rows PROVE r = s \/ Newer(r, s) \/ Newer(s, r)
  <2>1. r.at = s.at /\ r.id = s.id /\ r.instance = s.instance => r = s
    BY <1>1
  <2> QED BY <1>1, <2>1 DEF Newer
<1>3. \A r \in Rows : ~Newer(r, r)
  BY <1>1 DEF Newer
<1>4. ASSUME NEW r \in Rows, NEW s \in Rows, NEW t \in Rows, Newer(r, s), Newer(s, t)
      PROVE  Newer(r, t)
  BY <1>1, <1>4 DEF Newer
<1> QED BY <1>2, <1>3, <1>4

LEMMA FiniteRows ==
  ASSUME NEW S \in SUBSET Rows
  PROVE  IsFiniteSet(S) /\ Cardinality(S) \in Nat
BY RowsAssumption, FS_Subset, FS_CardinalityType

(* A page is its set, or full and ahead of all the rest of the set.        *)
LEMMA Page ==
  ASSUME NEW S \in SUBSET Rows, NEW page \in PagesOf(S)
  PROVE  /\ page \subseteq S /\ page \in SUBSET Rows
         /\ Cardinality(page) \in 0 .. Limit
         /\ \A r \in S \ page : Cardinality(page) = Limit /\ \A s \in page : Newer(s, r)
<1>1. /\ page \subseteq S /\ page \in SUBSET Rows
      /\ Cardinality(page) = IF Limit < Cardinality(S) THEN Limit ELSE Cardinality(S)
      /\ \A r \in page, s \in S \ page : ~Newer(s, r)
  BY DEF PagesOf
<1>2. IsFiniteSet(S) /\ IsFiniteSet(page) /\ Cardinality(S) \in Nat /\ Limit \in Nat
  BY <1>1, FiniteRows, BoundsAssumption
<1>3. Cardinality(page) \in 0 .. Limit
  BY <1>1, <1>2
<1>4. ASSUME NEW r \in S \ page PROVE Cardinality(page) = Limit /\ \A s \in page : Newer(s, r)
  <2>1. Cardinality(page) # Cardinality(S)
    BY <1>1, <1>2, <1>4, FS_Subset
  <2>2. \A s \in page : s # r /\ ~Newer(r, s)
    BY <1>1, <1>4
  <2> QED BY <1>1, <2>1, <2>2, NewerOrder
<1> QED BY <1>1, <1>3, <1>4

(* What one branch holds back, the page of all of them is ahead of.        *)
LEMMA PageOfBranches ==
  ASSUME NEW S \in SUBSET Rows, NEW page \in PagesOf(S),
         NEW part \in SUBSET S, NEW r \in Rows,
         r \in part \/ (Cardinality(part) = Limit /\ \A s \in part : Newer(s, r))
  PROVE  r \in page \/ (Cardinality(page) = Limit /\ \A s \in page : Newer(s, r))
<1>1. /\ page \subseteq S /\ page \in SUBSET Rows /\ Cardinality(page) \in 0 .. Limit
      /\ \A x \in S \ page : Cardinality(page) = Limit /\ \A s \in page : Newer(s, x)
  BY Page
<1>2. Limit \in Nat \ {0} /\ IsFiniteSet(page) /\ IsFiniteSet(part) /\ part \in SUBSET Rows
  BY <1>1, FiniteRows, BoundsAssumption
<1>3. CASE r \in part
  BY <1>1, <1>3
<1>4. CASE /\ r \notin page
           /\ Cardinality(part) = Limit /\ \A s \in part : Newer(s, r)
  <2>1. CASE part \subseteq page
    <3>1. part = page
      <4>1. Cardinality(part) <= Cardinality(page) /\ (Cardinality(part) = Cardinality(page) => part = page)
        BY <1>2, <2>1, FS_Subset
      <4> QED BY <1>1, <1>2, <1>4, <4>1
    <3> QED BY <1>4, <3>1
  <2>2. CASE ~(part \subseteq page)
    <3>1. PICK x \in part : x \notin page
      BY <2>2
    <3>2. Cardinality(page) = Limit /\ \A s \in page : Newer(s, x)
      BY <1>1, <3>1
    <3>3. Newer(x, r) /\ x \in Rows
      BY <1>2, <1>4, <3>1
    <3> QED BY <1>1, <3>2, <3>3, NewerOrder
  <2> QED BY <2>1, <2>2
<1> QED BY <1>3, <1>4

LEMMA GivenAppend ==
  ASSUME NEW s \in Seq(SUBSET Rows), NEW page \in SUBSET Rows
  PROVE  /\ Append(s, page) \in Seq(SUBSET Rows) /\ Append(s, page) # <<>>
         /\ UNION ToSet(Append(s, page)) = (UNION ToSet(s)) \cup page
         /\ DOMAIN s = 1 .. Len(s) /\ Len(s) \in Nat
         /\ DOMAIN Append(s, page) = 1 .. Len(s) + 1
         /\ \A i \in 1 .. Len(s) : Append(s, page)[i] = s[i]
         /\ Append(s, page)[Len(s) + 1] = page
<1> DEFINE T == SUBSET Rows
<1>1. s \in Seq(T) /\ page \in T
  OBVIOUS
<1>2. ToSet(Append(s, page)) = ToSet(s) \cup {page}
  BY ToSetAppend
<1> HIDE DEF T
<1>3. /\ Append(s, page) \in Seq(T) /\ Append(s, page) # <<>>
      /\ DOMAIN s = 1 .. Len(s) /\ Len(s) \in Nat
      /\ DOMAIN Append(s, page) = 1 .. Len(s) + 1
  BY <1>1
<1>4. /\ \A i \in 1 .. Len(s) : Append(s, page)[i] = s[i]
      /\ Append(s, page)[Len(s) + 1] = page
  BY <1>1
<1>5. UNION ToSet(Append(s, page)) = (UNION ToSet(s)) \cup page
  <2>1. \A A : \A x : UNION (A \cup {x}) = (UNION A) \cup x
    OBVIOUS
  <2> QED BY <1>2, <2>1
<1>6. Append(s, page) \in Seq(SUBSET Rows) /\ Append(s, page) # <<>>
  BY <1>3 DEF T
<1> QED BY <1>3, <1>4, <1>5, <1>6

(* Nothing given, nothing behind the cursor.                               *)
LEMMA NoneGiven == Given(NoWalk) = {} /\ NoWalk.given = <<>> /\ DOMAIN NoWalk.got = {}
BY NoSet DEF Given, NoWalk

LEMMA WalkStarts == Init => WalkInv
<1> SUFFICES ASSUME Init PROVE WalkInv
  OBVIOUS
<1>1. walk = NoWalk /\ TypeOK
  BY InitInv DEF Init, IInv
<1>2. WalkType(NoWalk)
  BY DEF WalkType, NoWalk
<1>3. PagesInv(NoWalk)
  BY DEF PagesInv, NoWalk
<1>4. SteadyInv(NoWalk)
  BY DEF SteadyInv, NoWalk
<1> QED BY <1>1, <1>2, <1>3, <1>4 DEF WalkInv

(* Steps that leave the walk and the rows it looks at alone.               *)
LEMMA WalkStays ==
  ASSUME WalkInv, TypeOK', UNCHANGED <<listed, walk>>
  PROVE  WalkInv'
<1>1. \A b : Found(b)' = Found(b)
  BY DEF Found
<1>2. WalkType(walk)' /\ PagesInv(walk)'
  BY DEF WalkInv, WalkType, PagesInv, ToCome, Given
<1>3. SteadyInv(walk)'
  BY <1>1 DEF WalkInv, SteadyInv, BranchInv, ToCome, Given
<1> QED BY <1>2, <1>3 DEF WalkInv

(* A write can only take rows out of those that passed all along.          *)
LEMMA WalkOutlivesWrites ==
  ASSUME WalkInv, TypeOK', NEW r \in Rows, Insert(r) \/ Update(r)
  PROVE  WalkInv'
<1> DEFINE w == walk
           v == walk'
<1>1. WalkType(w) /\ PagesInv(w) /\ SteadyInv(w) /\ w.steady \subseteq stored
  BY DEF WalkInv, SteadyInv, TypeOK
<1>2. /\ v = [walk EXCEPT !.steady = v.steady]
      /\ v.steady \subseteq w.steady
      /\ \A q \in v.steady : q \in listed'
  <2>1. CASE Insert(r)
    BY <1>1, <2>1 DEF Insert, SteadyInv, WalkType
  <2>2. CASE Update(r)
    BY <1>1, <2>2 DEF Update, SteadyInv, WalkType
  <2> QED BY <2>1, <2>2
<1>3. /\ v = [at |-> v.at, branches |-> v.branches, got |-> v.got, given |-> v.given,
              last |-> v.last, steady |-> v.steady]
      /\ v.at = w.at /\ v.branches = w.branches /\ v.got = w.got /\ v.given = w.given
      /\ v.last = w.last
  BY <1>1, <1>2 DEF WalkType
<1>4. \A b : \A q \in v.steady : q \in Found(b)' <=> q \in Found(b)
  BY <1>1, <1>2 DEF Found, SteadyInv
<1> HIDE DEF w, v
<1>5. WalkType(v)
  BY <1>1, <1>2, <1>3 DEF WalkType
<1>6. PagesInv(v)
  BY <1>1, <1>3 DEF PagesInv, ToCome, Given
<1>7. SteadyInv(walk)'
  <2>1. v.steady \subseteq listed'
    BY <1>2
  <2>2. ASSUME v.at = "page"
        PROVE  /\ \A q \in v.steady : \E b \in v.branches : q \in Found(b)'
               /\ \A q \in v.steady : q \in Given(v) \/ ToCome(v, q)
    BY <1>1, <1>2, <1>3, <1>4, <2>2 DEF SteadyInv, ToCome, Given
  <2>3. ASSUME v.at = "page", NEW b \in DOMAIN v.got, NEW q \in v.steady \cap Found(b)', ToCome(v, q)
        PROVE  \/ q \in v.got[b]
               \/ Cardinality(v.got[b]) = Limit /\ \A s \in v.got[b] : Newer(s, q)
    BY <1>1, <1>2, <1>3, <1>4, <2>3 DEF SteadyInv, BranchInv, ToCome
  <2>4. v.at = "done" => v.steady \subseteq Given(v)
    BY <1>1, <1>2, <1>3 DEF SteadyInv, Given
  <2> QED BY <2>1, <2>2, <2>3, <2>4 DEF SteadyInv, BranchInv, ToCome, Given, v
<1> QED BY <1>5, <1>6, <1>7 DEF WalkInv, v, WalkType, PagesInv, ToCome, Given

LEMMA WalkBegins ==
  ASSUME WalkInv, TypeOK', Begin
  PROVE  WalkInv'
<1>1. PICK branches \in {{"all"}, Branches} :
        walk' = [NoWalk EXCEPT !.at = "page", !.branches = branches,
                               !.steady = UNION {Found(b) : b \in branches}]
  BY DEF Begin
<1> DEFINE v == walk'
<1>2. /\ v = [at |-> v.at, branches |-> v.branches, got |-> v.got, given |-> v.given,
              last |-> v.last, steady |-> v.steady]
      /\ v.at = "page" /\ v.branches = branches /\ v.got = <<>> /\ v.given = <<>>
      /\ v.steady = UNION {Found(b) : b \in branches}
  BY <1>1 DEF NoWalk
<1>3. UNCHANGED listed /\ listed \subseteq Rows /\ \A b : Found(b)' = Found(b)
  BY DEF Begin, database, WalkInv, TypeOK, Found
<1>4. v.steady \subseteq listed
  BY <1>2 DEF Found
<1>5. DOMAIN v.got = {} /\ Given(v) = {}
  BY <1>2, NoSet DEF Given
<1> HIDE DEF v
<1>6. WalkType(v)
  BY <1>2, <1>3, <1>4, <1>5 DEF WalkType
<1>7. PagesInv(v)
  BY <1>2, <1>5 DEF PagesInv
<1>8. SteadyInv(walk)'
  <2>1. v.steady \subseteq listed' /\ \A q \in v.steady : ToCome(v, q)
    BY <1>2, <1>3, <1>4 DEF ToCome
  <2>2. v.steady = UNION {Found(b)' : b \in v.branches}
    BY <1>2, <1>3
  <2> QED BY <1>2, <1>5, <2>1, <2>2 DEF SteadyInv, BranchInv, ToCome, Given, v
<1> QED BY <1>6, <1>7, <1>8 DEF WalkInv, v, WalkType, PagesInv, ToCome, Given

LEMMA WalkReads ==
  ASSUME WalkInv, TypeOK', NEW b \in Branches \cup {"all"}, ReadBranch(b)
  PROVE  WalkInv'
<1> DEFINE w == walk
           v == walk'
           rest == {r \in Found(b) : ToCome(w, r)}
<1>1. WalkType(w) /\ PagesInv(w) /\ SteadyInv(w) /\ w.at = "page" /\ b \in w.branches
  BY DEF WalkInv, ReadBranch
<1>2. PICK page \in PagesOf(rest) :
        v = [walk EXCEPT !.got = [x \in DOMAIN @ \cup {b} |-> IF x = b THEN page ELSE @[x]]]
  BY DEF ReadBranch, ToCome
<1>3. /\ v = [at |-> v.at, branches |-> v.branches, got |-> v.got, given |-> v.given,
              last |-> v.last, steady |-> v.steady]
      /\ v.at = w.at /\ v.branches = w.branches /\ v.given = w.given
      /\ v.last = w.last /\ v.steady = w.steady
      /\ v.got = [x \in DOMAIN w.got \cup {b} |-> IF x = b THEN page ELSE w.got[x]]
  BY <1>1, <1>2 DEF WalkType
<1>4. UNCHANGED listed /\ listed \subseteq Rows /\ \A c : Found(c)' = Found(c)
  BY DEF ReadBranch, database, WalkInv, TypeOK, Found
<1>5. rest \in SUBSET Rows
  BY <1>4 DEF Found
<1> HIDE DEF w, v
<1>6. /\ page \subseteq rest /\ page \in SUBSET Rows
      /\ \A r \in rest \ page : Cardinality(page) = Limit /\ \A s \in page : Newer(s, r)
  BY <1>5, Page
<1>7. /\ DOMAIN v.got = DOMAIN w.got \cup {b} /\ v.got[b] = page
      /\ \A c \in DOMAIN v.got : c # b => c \in DOMAIN w.got /\ v.got[c] = w.got[c]
      /\ v.got = [x \in DOMAIN v.got |-> v.got[x]]
  BY <1>3
<1>8. WalkType(v)
  BY <1>1, <1>3, <1>6, <1>7 DEF WalkType
<1>9. PagesInv(v)
  <2>1. ASSUME NEW c \in DOMAIN v.got, NEW r \in v.got[c] PROVE ToCome(v, r)
    <3>1. CASE c = b
      BY <1>3, <1>6, <1>7, <2>1, <3>1 DEF ToCome
    <3>2. CASE c # b
      BY <1>1, <1>3, <1>7, <2>1, <3>2 DEF PagesInv, ToCome
    <3> QED BY <3>1, <3>2
  <2> QED BY <1>1, <1>3, <2>1 DEF PagesInv, Given
<1>10. SteadyInv(walk)'
  <2>1. ASSUME NEW c \in DOMAIN v.got, NEW r \in v.steady \cap Found(c), ToCome(v, r)
        PROVE  \/ r \in v.got[c]
               \/ Cardinality(v.got[c]) = Limit /\ \A s \in v.got[c] : Newer(s, r)
    <3>1. CASE c = b
      BY <1>3, <1>6, <1>7, <2>1, <3>1 DEF ToCome
    <3>2. CASE c # b
      BY <1>1, <1>3, <1>7, <2>1, <3>2 DEF SteadyInv, BranchInv, ToCome
    <3> QED BY <3>1, <3>2
  <2>2. BranchInv(walk)'
    BY <1>4, <2>1 DEF BranchInv, ToCome, v
  <2>3. /\ v.steady \subseteq listed' /\ v.steady \subseteq UNION {Found(c)' : c \in v.branches}
        /\ \A r \in v.steady : r \in Given(v) \/ ToCome(v, r)
    BY <1>1, <1>3, <1>4 DEF SteadyInv, Given, ToCome
  <2> QED BY <1>1, <1>3, <2>2, <2>3 DEF SteadyInv, Given, ToCome, v
<1> QED BY <1>8, <1>9, <1>10 DEF WalkInv, v, WalkType, PagesInv, ToCome, Given

(* The page given is ahead of everything that is still to come.            *)
LEMMA WalkGives ==
  ASSUME WalkInv, TypeOK', GivePage
  PROVE  WalkInv'
<1> DEFINE w == walk
           v == walk'
           all == UNION {w.got[b] : b \in w.branches}
<1>1. /\ WalkType(w) /\ PagesInv(w) /\ SteadyInv(w) /\ w.at = "page" /\ DOMAIN w.got = w.branches
      /\ BranchInv(w)
  BY DEF WalkInv, GivePage, SteadyInv
<1>2. PICK page \in PagesOf(all) :
        \E last \in IF page = {} THEN {w.last} ELSE EndsOf(page) :
          v = [walk EXCEPT !.at = IF Cardinality(page) < Limit THEN "done" ELSE "page",
                           !.got = <<>>, !.given = Append(@, page), !.last = last]
  BY DEF GivePage
<1>3. PICK last \in IF page = {} THEN {w.last} ELSE EndsOf(page) :
        v = [walk EXCEPT !.at = IF Cardinality(page) < Limit THEN "done" ELSE "page",
                         !.got = <<>>, !.given = Append(@, page), !.last = last]
  BY <1>2
<1>4. /\ v = [at |-> v.at, branches |-> v.branches, got |-> v.got, given |-> v.given,
              last |-> v.last, steady |-> v.steady]
      /\ v.at = (IF Cardinality(page) < Limit THEN "done" ELSE "page")
      /\ v.branches = w.branches /\ v.given = Append(w.given, page)
      /\ v.last = last /\ v.steady = w.steady /\ v.got = <<>>
  BY <1>1, <1>3 DEF WalkType
<1>5. UNCHANGED listed /\ \A b : Found(b)' = Found(b)
  BY DEF GivePage, database, Found
<1> HIDE DEF w, v
<1>6. all \in SUBSET Rows /\ \A b \in w.branches : w.got[b] \in SUBSET all
  BY <1>1 DEF WalkType
<1>7. /\ page \subseteq all /\ page \in SUBSET Rows /\ Cardinality(page) \in 0 .. Limit
  BY <1>6, Page
<1>8. page # {} => last \in page /\ \A s \in page : s = last \/ Newer(s, last)
  <2>1. ASSUME page # {} PROVE last \in page /\ \A s \in page : ~Newer(last, s)
    BY <1>3, <2>1 DEF EndsOf
  <2> QED BY <1>7, <2>1, NewerOrder
<1>9. \A r \in all : ToCome(w, r)
  BY <1>1 DEF PagesInv
<1>10. /\ v.given \in Seq(SUBSET Rows) /\ v.given # <<>>
       /\ Given(v) = Given(w) \cup page
       /\ DOMAIN w.given = 1 .. Len(w.given) /\ Len(w.given) \in Nat
       /\ DOMAIN v.given = 1 .. Len(w.given) + 1
       /\ \A i \in 1 .. Len(w.given) : v.given[i] = w.given[i]
       /\ v.given[Len(w.given) + 1] = page
  <2> DEFINE g == w.given
  <2>1. g \in Seq(SUBSET Rows) /\ v.given = Append(g, page) /\ page \in SUBSET Rows
    BY <1>1, <1>4, <1>7 DEF WalkType
  <2> HIDE DEF g
  <2> DEFINE new == Append(g, page)
  <2>2. /\ new \in Seq(SUBSET Rows) /\ new # <<>>
        /\ UNION ToSet(new) = (UNION ToSet(g)) \cup page
        /\ DOMAIN g = 1 .. Len(g) /\ Len(g) \in Nat
        /\ DOMAIN new = 1 .. Len(g) + 1
        /\ \A i \in 1 .. Len(g) : new[i] = g[i]
        /\ new[Len(g) + 1] = page
    BY <2>1, GivenAppend
  <2> HIDE DEF new
  <2>3. v.given = new
    BY <2>1 DEF new
  <2> QED BY <2>2, <2>3 DEF g, Given
<1>11. \A r \in Given(w) : w.given # <<>> /\ r \in Rows
  <2>1. \A r \in Given(w) : \E i \in DOMAIN w.given : r \in w.given[i]
    BY DEF Given, ToSet
  <2>2. \A i \in DOMAIN w.given : w.given[i] \in SUBSET Rows
    BY <1>1, Elements DEF WalkType
  <2>3. w.given = <<>> => DOMAIN w.given = {}
    OBVIOUS
  <2> QED BY <2>1, <2>2, <2>3
<1>12. \A r \in Given(w) : \A s \in page : Newer(r, s)
  <2> SUFFICES ASSUME NEW r \in Given(w), NEW s \in page PROVE Newer(r, s)
    OBVIOUS
  <2>1. w.last \in Rows /\ (r = w.last \/ Newer(r, w.last))
    BY <1>1 DEF PagesInv
  <2>2. Newer(w.last, s)
    BY <1>7, <1>9, <1>11 DEF ToCome
  <2> QED BY <1>7, <1>11, <2>1, <2>2, NewerOrder
<1>13. ASSUME NEW r \in v.steady, r \notin Given(v)
       PROVE  Cardinality(page) = Limit /\ \A s \in page : Newer(s, r)
  <2>1. r \in Rows /\ r \notin page /\ ToCome(w, r)
    BY <1>1, <1>4, <1>10, <1>13 DEF SteadyInv, WalkType
  <2>2. PICK b \in w.branches : r \in Found(b)
    BY <1>1, <1>4, <1>13 DEF SteadyInv
  <2>3. r \in w.got[b] \/ (Cardinality(w.got[b]) = Limit /\ \A s \in w.got[b] : Newer(s, r))
    BY <1>1, <1>4, <1>13, <2>1, <2>2 DEF BranchInv
  <2>4. w.got[b] \in SUBSET all
    BY <1>6
  <2> HIDE DEF all
  <2> QED BY <1>6, <2>1, <2>3, <2>4, PageOfBranches
<1>14. DOMAIN v.got = {}
  BY <1>4
<1>15. Limit \in Nat \ {0} /\ (v.at = "page" <=> Cardinality(page) = Limit) /\ v.at \in {"page", "done"}
  BY <1>4, <1>7, BoundsAssumption
<1>16. v.at = "page" => page # {}
  BY <1>15, FS_EmptySet
<1>17. WalkType(v)
  BY <1>1, <1>4, <1>10, <1>14 DEF WalkType
<1>18. PagesInv(v)
  <2>1. ASSUME NEW i \in DOMAIN v.given, NEW j \in DOMAIN v.given, i < j,
               NEW r \in v.given[i], NEW s \in v.given[j]
        PROVE  Newer(r, s)
    <3>1. i \in 1 .. Len(w.given) /\ r \in w.given[i] /\ i \in DOMAIN w.given
      BY <1>10, <2>1
    <3>2. CASE j \in 1 .. Len(w.given)
      BY <1>1, <1>10, <2>1, <3>1, <3>2 DEF PagesInv
    <3>3. CASE j = Len(w.given) + 1
      BY <1>10, <1>12, <2>1, <3>1, <3>3 DEF Given, ToSet
    <3> QED BY <1>10, <3>2, <3>3
  <2>2. ASSUME v.at = "page"
        PROVE  v.last \in Rows /\ \A r \in Given(v) : r = v.last \/ Newer(r, v.last)
    BY <1>4, <1>7, <1>8, <1>10, <1>12, <1>16, <2>2
  <2> QED BY <1>14, <2>1, <2>2 DEF PagesInv
<1>19. SteadyInv(walk)'
  <2>1. v.steady \subseteq listed' /\ v.steady \subseteq UNION {Found(b)' : b \in v.branches}
    BY <1>1, <1>4, <1>5 DEF SteadyInv
  <2>2. ASSUME v.at = "page", NEW r \in v.steady PROVE r \in Given(v) \/ ToCome(v, r)
    BY <1>4, <1>8, <1>13, <1>16, <2>2 DEF ToCome
  <2>3. v.at = "done" => v.steady \subseteq Given(v)
    BY <1>13, <1>15
  <2>4. BranchInv(walk)'
    BY <1>14 DEF BranchInv, v
  <2> QED BY <2>1, <2>2, <2>3, <2>4 DEF SteadyInv, Given, ToCome, v
<1> QED BY <1>17, <1>18, <1>19 DEF WalkInv, v, WalkType, PagesInv, ToCome, Given

(* Every step keeps what the walk relies on; those of the stream and the    *)
(* oplog touch none of it.                                                 *)
LEMMA WalkPreserved == WalkInv /\ TypeOK' /\ [Next]_vars => WalkInv'
<1> SUFFICES ASSUME WalkInv, TypeOK', [Next]_vars PROVE WalkInv'
  OBVIOUS
<1>1. CASE UNCHANGED <<listed, walk>>
  BY <1>1, WalkStays
<1>2. CASE \E r \in Rows : Insert(r) \/ Update(r)
  BY <1>2, WalkOutlivesWrites
<1>3. CASE SearchMessages
  BY <1>3, WalkBegins, WalkReads, WalkGives DEF SearchMessages
<1>4. CASE UNCHANGED vars \/ WriteAny \/ Truncate \/ Crash
  <2>1. UNCHANGED <<listed, walk>>
    BY <1>4 DEF vars, database, WriteAny, Truncate, Crash
  <2> QED BY <1>1, <2>1
<1>5. ASSUME NEW c \in Clients, Connect(c) \/ Serve(c) \/ Break(c) \/ Receive(c) \/ Leave(c)
      PROVE  UNCHANGED <<listed, walk>>
  BY <1>5 DEF Connect, Serve, ChangeStreamSupport, ReadStreamCursor, OpenChangeStream, Deliver,
     Save, End, SaveStreamCursor, Break, Receive, Leave, database
<1> QED BY <1>1, <1>2, <1>3, <1>4, <1>5 DEF Next

(* Paging to the end gives every row that passed the filters all along, in  *)
(* order and once, for any rows, any page size and any writes between two   *)
(* reads (searchMessages, compareRows, nextMessageCursor).                  *)
THEOREM NoRowIsLost == Spec => []WalkIsComplete
<1>1. WalkInv => WalkIsComplete
  BY DEF WalkInv, PagesInv, SteadyInv, Given, WalkIsComplete
<1>2. IInv => TypeOK
  BY DEF IInv
<1> QED BY <1>1, <1>2, InitInv, NextPreserves, WalkStarts, WalkPreserved, PTL DEF Spec
=============================================================================
