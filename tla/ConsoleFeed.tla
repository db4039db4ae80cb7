------------------------------ MODULE ConsoleFeed ------------------------------
(***************************************************************************)
(* What the console reads of the database while others write it: pages of  *)
(* stored messages, walked by the key of the last row given                *)
(* (repos/messages.ts), and the live changes of GET /api/stream            *)
(* (api/stream/route.ts).  A change is its place in the oplog and stands   *)
(* for its resume token; what a frame says of it is left out.  A behaviour *)
(* follows either a walk or the streams: they share only the writes, and   *)
(* of those a stream sees but their order.                                 *)
(***************************************************************************)
EXTENDS Naturals, Sequences, FiniteSets, SequencesExt

CONSTANTS
  Rows,        \* messages, as keys [at, id, instance]
  Early,       \* those stored at first
  Hits,        \* which branches of a search find a row, by row
  Limit,       \* rows of a page
  Clients,     \* browser tabs of one tenant
  MaxChanges,  \* bound: writes
  MaxFaults    \* bound: lost connections, failures, restarts, reloads

Branches == {"text", "typeahead"}

ASSUME RowsAssumption == /\ Rows \subseteq [at : Nat, id : Nat, instance : Nat]
                         /\ IsFiniteSet(Rows) /\ Early \subseteq Rows
                         /\ Hits \in [Rows -> SUBSET Branches]
ASSUME BoundsAssumption == Limit \in Nat \ {0} /\ MaxChanges \in Nat /\ MaxFaults \in Nat

VARIABLES
  reader,   \* what the behaviour follows: "pages" or "streams"
  stored,   \* rows the collection holds
  listed,   \* those of them the filters of the search let through
  changes,  \* length of the oplog
  horizon,  \* changes up to here are gone from the oplog
  cursor,   \* the tenant's saved place, 0 for none
  faults,   \* failures so far
  conn,     \* the server's side of each client's connection
  client,   \* the client's side
  walk      \* one walk through the pages

database == <<stored, listed, changes, horizon>>
stream   == <<cursor, faults, conn, client>>
vars     == <<reader, database, stream, walk>>

NoConn == [at |-> "off", token |-> 0, resume |-> 0, start |-> 0, retried |-> FALSE,
           delivered |-> FALSE, pos |-> 0, pending |-> 0]
NoClient == [last |-> 0, seen |-> {}, wire |-> <<>>, fell |-> FALSE]
NoRow == [at |-> 0, id |-> 0, instance |-> 0]
NoWalk == [at |-> "idle", branches |-> {}, got |-> <<>>, given |-> <<>>, last |-> NoRow, steady |-> {}]

Init ==
  /\ reader \in {"pages", "streams"}
  /\ stored = Early /\ listed = Early
  /\ changes = 0 /\ horizon = 0 /\ cursor = 0 /\ faults = 0
  /\ conn = [c \in Clients |-> NoConn]
  /\ client = [c \in Clients |-> NoClient]
  /\ walk = NoWalk

(***************************************************************************)
(* The database                                                            *)
(***************************************************************************)
Write ==
  /\ changes < MaxChanges /\ changes' = changes + 1
  /\ UNCHANGED <<reader, horizon, stream>>

WriteAny == reader = "streams" /\ Write /\ UNCHANGED <<stored, listed, walk>>

\* A message arrives, in whatever order of its own time.
Insert(r) ==
  /\ reader = "pages" /\ Write /\ r \notin stored
  /\ stored' = stored \cup {r} /\ listed' = listed \cup {r}
  /\ UNCHANGED walk

\* A field of a stored message that the filters look at changes; its time and
\* its text never do.
Update(r) ==
  /\ reader = "pages" /\ Write /\ r \in stored
  /\ listed' = IF r \in listed THEN listed \ {r} ELSE listed \cup {r}
  /\ walk' = [walk EXCEPT !.steady = @ \ {r}]
  /\ UNCHANGED stored

\* The oplog is a capped collection, never quite empty.
Truncate ==
  /\ reader = "streams" /\ horizon + 1 < changes
  /\ horizon' = horizon + 1
  /\ UNCHANGED <<reader, stored, listed, changes, stream, walk>>

(***************************************************************************)
(* Pages                                                                   *)
(***************************************************************************)
\* Mutant: the order ends with the message's id, which is unique only
\* within an instance.
NewerById(r, s) == \/ r.at > s.at
                   \/ r.at = s.at /\ r.id > s.id

\* Newest first; id and instance make the order total.
Newer(r, s) == \/ r.at > s.at
               \/ r.at = s.at /\ r.id > s.id
               \/ r.at = s.at /\ r.id = s.id /\ r.instance > s.instance

\* A page of a set: as many as there is room for, and none newer left out.
PagesOf(S) ==
  {T \in SUBSET S : /\ Cardinality(T) = (IF Limit < Cardinality(S) THEN Limit ELSE Cardinality(S))
                    /\ \A r \in T, s \in S \ T : ~Newer(s, r)}

\* The row a page ends with, whose key asks for the next.
EndsOf(page) == {r \in page : \A s \in page : ~Newer(r, s)}

Found(b) == IF b = "all" THEN listed ELSE {r \in listed : b \in Hits[r]}

\* A search asks two indexes, a listing without a term the collection.
Begin ==
  /\ reader = "pages" /\ walk.at = "idle"
  /\ \E branches \in {{"all"}, Branches} :
       walk' = [NoWalk EXCEPT !.at = "page", !.branches = branches,
                              !.steady = UNION {Found(b) : b \in branches}]
  /\ UNCHANGED <<reader, database, stream>>

\* The branches of one page are read concurrently, each at its own instant.
ReadBranch(b) ==
  /\ walk.at = "page" /\ b \in walk.branches \ DOMAIN walk.got
  /\ \E page \in PagesOf({r \in Found(b) : walk.given # <<>> => Newer(walk.last, r)}) :
       walk' = [walk EXCEPT !.got = [x \in DOMAIN @ \cup {b} |-> IF x = b THEN page ELSE @[x]]]
  /\ UNCHANGED <<reader, database, stream>>

\* The union, cut to the page.  Only a full page promises another.
GivePage ==
  /\ walk.at = "page" /\ DOMAIN walk.got = walk.branches
  /\ \E page \in PagesOf(UNION {walk.got[b] : b \in walk.branches}) :
       \E last \in IF page = {} THEN {walk.last} ELSE EndsOf(page) :
         walk' = [walk EXCEPT !.at = IF Cardinality(page) < Limit THEN "done" ELSE "page",
                              !.got = <<>>,
                              !.given = Append(@, page), !.last = last]
  /\ UNCHANGED <<reader, database, stream>>

SearchMessages == Begin \/ (\E b \in Branches \cup {"all"} : ReadBranch(b)) \/ GivePage
(***************************************************************************)
(* The stream                                                              *)
(***************************************************************************)
Conn(c, at, conn1) == conn[c].at = at /\ conn' = [conn EXCEPT ![c] = conn1]

Fails == faults < MaxFaults /\ faults' = faults + 1

\* EventSource asks again by itself whenever its stream has ended, with the id
\* of the last frame it got.
Connect(c) ==
  /\ reader = "streams" /\ client[c].wire = <<>>
  /\ Conn(c, "off", [NoConn EXCEPT !.at = "asked", !.token = client[c].last])
  /\ UNCHANGED <<reader, database, cursor, faults, client, walk>>

\* The deployment is asked whether it can stream at all.  The time it answers
\* with is that of the latest change, and a stream from a time includes it.
ChangeStreamSupport(c) ==
  /\ \/ \E start \in {changes, IF changes = 0 THEN 0 ELSE changes - 1} :
          /\ Conn(c, "asked", [conn[c] EXCEPT !.at = "place", !.start = start])
          /\ UNCHANGED faults
     \/ Fails /\ Conn(c, "asked", NoConn)
  /\ UNCHANGED <<reader, database, cursor, client, walk>>

\* Mutant: the tenant's place comes before the client's own.
PlaceOfTheTenant(c) == IF cursor # 0 THEN cursor ELSE conn[c].token

\* Where the client was, or else where anyone of the tenant was.
Place(c) == IF conn[c].token # 0 THEN conn[c].token ELSE cursor

ReadStreamCursor(c) ==
  /\ \/ Conn(c, "place", [conn[c] EXCEPT !.at = "opening", !.resume = Place(c)]) /\ UNCHANGED faults
     \/ conn[c].token = 0 /\ Fails /\ Conn(c, "place", NoConn)
  /\ UNCHANGED <<reader, database, cursor, client, walk>>

\* Mutant: a refused token ends the stream like any other failure.
BrokenForGood(c) == [conn[c] EXCEPT !.at = "ending"]

\* A stream that breaks before its first change is opened once more, from the
\* time of the probe; any other ends.
Broken(c) ==
  IF ~conn[c].retried /\ conn[c].resume # 0 /\ ~conn[c].delivered
  THEN [conn[c] EXCEPT !.at = "opening", !.retried = TRUE]
  ELSE [conn[c] EXCEPT !.at = "ending"]

\* A token is of use while the oplog still holds its change.
OpenChangeStream(c) ==
  /\ LET resumes == conn[c].resume # 0 /\ ~conn[c].retried
         from    == IF resumes THEN conn[c].resume ELSE conn[c].start
         there   == IF resumes THEN from > horizon ELSE from >= horizon
     IN IF there
        THEN /\ Conn(c, "opening", [conn[c] EXCEPT !.at = "streaming", !.pos = from])
             /\ client' = [client EXCEPT ![c].fell = @ \/ (conn[c].retried /\ client[c].seen # {})]
        ELSE Conn(c, "opening", Broken(c)) /\ UNCHANGED client
  /\ UNCHANGED <<reader, database, cursor, faults, walk>>

\* One change becomes one frame.  The cursor is saved at most once a second,
\* and the next change waits for that.
Deliver(c) ==
  /\ conn[c].pos < changes /\ conn[c].pos >= horizon
  /\ \E at \in {"streaming", "saving"} :
       Conn(c, "streaming", [conn[c] EXCEPT !.at = at, !.delivered = TRUE,
                                            !.pos = @ + 1, !.pending = conn[c].pos + 1])
  /\ client' = [client EXCEPT ![c].wire = Append(@, conn[c].pos + 1)]
  /\ UNCHANGED <<reader, database, cursor, faults, walk>>

\* A save that fails is not heard of.
SaveStreamCursor(c, from, to) ==
  /\ Conn(c, from, to)
  /\ cursor' \in {cursor, IF conn[c].pending # 0 THEN conn[c].pending ELSE cursor}
  /\ UNCHANGED <<reader, database, faults, client, walk>>

Save(c) == SaveStreamCursor(c, "saving", [conn[c] EXCEPT !.at = "streaming"])

End(c) == SaveStreamCursor(c, "ending", NoConn)

\* MongoDB fails the stream, or has dropped the change it would give next.
Break(c) ==
  /\ \/ conn[c].at \in {"opening", "streaming"} /\ Fails
     \/ conn[c].at = "streaming" /\ conn[c].pos < horizon /\ UNCHANGED faults
  /\ conn' = [conn EXCEPT ![c] = Broken(c)]
  /\ UNCHANGED <<reader, database, cursor, client, walk>>

Receive(c) ==
  /\ client[c].wire # <<>>
  /\ LET n == client[c]
         change == Head(n.wire)
     IN client' = [client EXCEPT ![c] = [n EXCEPT !.last = change, !.seen = n.seen \cup {change},
                                                   !.wire = Tail(n.wire)]]
  /\ UNCHANGED <<reader, database, cursor, faults, conn, walk>>

\* The client is cut off, or the page is loaded anew; what is on the wire is
\* lost, and the server hears of it.
Leave(c) ==
  /\ conn[c].at \in {"opening", "streaming", "saving"} /\ Fails
  /\ conn' = [conn EXCEPT ![c].at = "ending"]
  /\ \E client1 \in {NoClient, [client[c] EXCEPT !.wire = <<>>]} : client' = [client EXCEPT ![c] = client1]
  /\ UNCHANGED <<reader, database, cursor, walk>>

Crash ==
  /\ reader = "streams" /\ Fails
  /\ conn' = [c \in Clients |-> NoConn]
  /\ client' = [c \in Clients |-> [client[c] EXCEPT !.wire = <<>>]]
  /\ UNCHANGED <<reader, database, cursor, walk>>

Serve(c) ==
  \/ ChangeStreamSupport(c) \/ ReadStreamCursor(c) \/ OpenChangeStream(c)
  \/ Deliver(c) \/ Save(c) \/ End(c)

(***************************************************************************)
(* Specification                                                           *)
(***************************************************************************)
Next ==
  \/ WriteAny \/ \E r \in Rows : Insert(r) \/ Update(r)
  \/ Truncate \/ SearchMessages
  \/ \E c \in Clients : Connect(c) \/ Serve(c) \/ Break(c) \/ Receive(c) \/ Leave(c)
  \/ Crash

Spec == Init /\ [][Next]_vars

\* The process runs, MongoDB answers or fails, and a browser asks again and
\* reads what it is sent; nothing makes anybody write or a stream break, save
\* one whose next change is gone.
Fairness ==
  \A c \in Clients :
    /\ WF_vars(Connect(c)) /\ WF_vars(Serve(c)) /\ WF_vars(Receive(c))
    /\ WF_vars(Break(c) /\ UNCHANGED faults)

FairSpec == Spec /\ Fairness

(***************************************************************************)
(* Properties                                                              *)
(***************************************************************************)
Places == 0 .. MaxChanges

\* Type invariant.
TypeOK ==
  /\ stored \in SUBSET Rows /\ listed \in SUBSET stored
  /\ changes \in Places /\ horizon \in Places /\ cursor \in Places /\ faults \in 0 .. MaxFaults
  /\ conn \in [Clients -> [at : {"off", "asked", "place", "opening", "streaming", "saving", "ending"},
                           token : Places, resume : Places, start : Places, retried : BOOLEAN,
                           delivered : BOOLEAN, pos : Places, pending : Places]]
  /\ client \in [Clients -> [last : Places, seen : SUBSET (1 .. MaxChanges),
                             wire : Seq(1 .. MaxChanges), fell : BOOLEAN]]

\* A walk to the last page gives every row that passed its filters all along,
\* once, and no row twice, whatever arrives or changes between two pages or
\* between the two reads of one page.
WalkIsComplete ==
  /\ TypeOK
  /\ \A i, j \in DOMAIN walk.given : i < j =>
       \A r \in walk.given[i], s \in walk.given[j] : Newer(r, s)
  /\ walk.at = "done" => walk.steady \subseteq UNION ToSet(walk.given)

\* A client that comes back with its own token has missed nothing in between,
\* whatever other tabs were sent and wherever the saved cursor stands: its only
\* gap is the one of a stream reopened without the token.
ChangesAreContiguous ==
  \A c \in Clients : ~client[c].fell =>
    \A p, q \in client[c].seen \cup ToSet(client[c].wire) : p .. q \subseteq client[c].seen \cup ToSet(client[c].wire)

\* A token that is of no use any more does not keep a client from its stream:
\* once nothing fails every client is sent all there is.
ClientsCatchUp ==
  reader = "streams" =>
    \A c \in Clients : <>[](/\ conn[c].at = "streaming" /\ conn[c].pos = changes
                            /\ client[c].wire = <<>>)
=============================================================================
