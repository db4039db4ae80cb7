----------------------------- MODULE GroupScope -----------------------------
(***************************************************************************)
(* Which groups the assistant may read: the flags of each `groups` row     *)
(* (config.assigned, config.whitelisted, config.configVersion) and the     *)
(* list of each instance (config.groupJidWhitelist), which two operations  *)
(* move together: updateGroupConfig (repos/groups.ts), for one row, and    *)
(* updateInstanceConfig (repos/instance-config.ts), for a whole list.      *)
(*                                                                         *)
(* Both run in a transaction of MongoDB: it reads the snapshot of its      *)
(* first operation, and fails if a document it really changes has been     *)
(* changed since; withTransaction then runs it again. A write that changes *)
(* nothing is no write. What they read before the transaction is not part  *)
(* of it. Rows appear by GroupSync and are never deleted.                  *)
(***************************************************************************)
EXTENDS Naturals, FiniteSets

CONSTANTS
  Instances, (* linked accounts                                            *)
  Jids,      (* WhatsApp groups                                            *)
  Rows,      (* who is in which: two accounts may share a group            *)
  Handlers,  (* requests of the console                                    *)
  Patches,   (* what PATCH /api/groups/[id] may be asked                   *)
  Edits,     (* what PATCH /api/instances/[id] may be asked                *)
  None       (* a field left out                                           *)

Flags == BOOLEAN \cup {None}
AllPatches ==
  {p \in [jid : Jids, instance : Instances \cup {None}, assigned : Flags, whitelisted : Flags] :
     p.assigned # None \/ p.whitelisted # None}
AllEdits == [instance : Instances, list : SUBSET Jids]

ASSUME ScopeAssumption ==
  /\ Rows \subseteq Instances \X Jids
  /\ Patches \subseteq AllPatches
  /\ Edits \subseteq AllEdits
  /\ IsFiniteSet(Handlers)

VARIABLES
  row,    (* the groups collection                                         *)
  list,   (* per instance: its whitelist                                   *)
  audit,  (* per instance: the newest instance.whitelist.updated row       *)
  at,     (* per request: where its handler stands                         *)
  req,    (* per request: what it asks                                     *)
  before, (* per request: the list read before the transaction             *)
  snap    (* per request: the transaction's snapshot                       *)

dbVars == <<row, list, audit>>
vars == <<dbVars, at, req, before, snap>>

NoRow == [exists |-> FALSE, assigned |-> FALSE, whitelisted |-> FALSE, version |-> 0]
NoAudit == [source |-> "none", names |-> {}, granted |-> FALSE, before |-> {}]

Moved(jid, granted) ==
  [source |-> "group-row", names |-> {jid}, granted |-> granted, before |-> {}]
Replaced(old, new) ==
  [source |-> "instance-config", names |-> new, granted |-> TRUE, before |-> old]

Init ==
  /\ row \in [Rows -> {NoRow, [NoRow EXCEPT !.exists = TRUE]}]
  /\ list = [i \in Instances |-> {}]
  /\ audit = [i \in Instances |-> NoAudit]
  /\ at = [h \in Handlers |-> "idle"]
  /\ req = [h \in Handlers |-> None]
  /\ before = [h \in Handlers |-> {}]
  /\ snap = [h \in Handlers |-> None]

Go(h, place) == at' = [at EXCEPT ![h] = place]

IsPatch(h) == req[h] \in AllPatches

(* The worker inserts a group it saw, with the default configuration.      *)
Appears(r) ==
  /\ ~row[r].exists
  /\ row' = [row EXCEPT ![r].exists = TRUE]
  /\ UNCHANGED <<list, audit, at, req, before, snap>>

-----------------------------------------------------------------------------
(* One row.                                                                *)

(* The whitelist moves the pair, whatever the patch says of `assigned`.    *)
AssignedBy(p) == IF p.whitelisted # None THEN p.whitelisted ELSE p.assigned

Set(old, new) == IF new = None THEN old ELSE new

(* Mutant of PatchedRow: the version follows the whitelist alone.          *)
PatchedRowByList(r, p) ==
  [r EXCEPT !.assigned = Set(@, AssignedBy(p)),
            !.whitelisted = Set(@, p.whitelisted),
            !.version = @ + (IF Set(r.whitelisted, p.whitelisted) # r.whitelisted THEN 1 ELSE 0)]

PatchedRow(r, p) ==
  LET changed == \/ Set(r.assigned, AssignedBy(p)) # r.assigned
                 \/ Set(r.whitelisted, p.whitelisted) # r.whitelisted
  IN [r EXCEPT !.assigned = Set(@, AssignedBy(p)),
               !.whitelisted = Set(@, p.whitelisted),
               !.version = @ + (IF changed THEN 1 ELSE 0)]

(* Mutant of PatchedList: a row that loses the flag stays on the list.     *)
PatchedListGrants(l, p) == IF p.whitelisted = TRUE THEN l \cup {p.jid} ELSE l

(* moveGroupWhitelistJid.                                                  *)
PatchedList(l, p) ==
  IF p.whitelisted = None THEN l
  ELSE IF p.whitelisted THEN l \cup {p.jid} ELSE l \ {p.jid}

Matched(rows, p) ==
  {r \in Rows : rows[r].exists /\ r[2] = p.jid /\ p.instance \in {None, r[1]}}

-----------------------------------------------------------------------------
(* A whole list.                                                           *)

(* The two updateMany: each touches the rows that differ.                  *)
EditedRow(r, listed) ==
  IF r.exists /\ (r.whitelisted # listed \/ r.assigned # listed)
  THEN [r EXCEPT !.assigned = listed, !.whitelisted = listed, !.version = @ + 1]
  ELSE r

ReadBefore(h) ==
  /\ at[h] = "read"
  /\ before' = [before EXCEPT ![h] = list[req[h].instance]]
  /\ Go(h, "check")
  /\ UNCHANGED <<dbVars, req, snap>>

Known(i) == {r[2] : r \in {s \in Rows : s[1] = i /\ row[s].exists}}

(* unknownGroups.                                                          *)
CheckGroups(h) ==
  /\ at[h] = "check"
  /\ Go(h, IF req[h].list \subseteq Known(req[h].instance) THEN "begin" ELSE "refused")
  /\ UNCHANGED <<dbVars, req, before, snap>>

-----------------------------------------------------------------------------
(* The transaction of either.                                              *)

Receive(h, q) ==
  /\ at[h] = "idle"
  /\ req' = [req EXCEPT ![h] = q]
  /\ Go(h, IF q \in Patches THEN "begin" ELSE "read")
  /\ UNCHANGED <<dbVars, before, snap>>

(* A row's instance is resolved first: none and two are refused.           *)
Begin(h) ==
  /\ at[h] = "begin"
  /\ IF IsPatch(h) /\ Cardinality(Matched(row, req[h])) # 1
     THEN Go(h, "refused") /\ UNCHANGED snap
     ELSE Go(h, "open") /\ snap' = [snap EXCEPT ![h] = [row |-> row, list |-> list]]
  /\ UNCHANGED <<dbVars, req, before>>

Instance(h) ==
  IF IsPatch(h) THEN (CHOOSE r \in Matched(snap[h].row, req[h]) : TRUE)[1] ELSE req[h].instance

(* The documents as the transaction leaves them in its snapshot.           *)
NewRow(h, r) ==
  LET old == snap[h].row[r] IN
  IF r[1] # Instance(h) THEN old
  ELSE IF ~IsPatch(h) THEN EditedRow(old, r[2] \in req[h].list)
  ELSE IF r[2] = req[h].jid THEN PatchedRow(old, req[h]) ELSE old

(* Mutant of NewList: an edit keeps what was granted since it was opened.  *)
NewListMerged(h) ==
  LET old == snap[h].list[Instance(h)] IN
  IF IsPatch(h) THEN PatchedList(old, req[h]) ELSE req[h].list \cup (old \ before[h])

NewList(h) ==
  LET old == snap[h].list[Instance(h)] IN
  IF IsPatch(h) THEN PatchedList(old, req[h]) ELSE req[h].list

Writes(h) == {r \in Rows : NewRow(h, r) # snap[h].row[r]}

(* MongoDB's: somebody changed a document the transaction changes. A list  *)
(* that was changed and changed back is let through, with the same result. *)
Conflict(h) ==
  LET i == Instance(h) IN
  \/ \E r \in Writes(h) : row[r] # snap[h].row[r]
  \/ NewList(h) # snap[h].list[i] /\ list[i] # snap[h].list[i]

Retry(h) ==
  /\ at[h] = "open" /\ Conflict(h)
  /\ Go(h, "begin")
  /\ snap' = [snap EXCEPT ![h] = None]
  /\ UNCHANGED <<dbVars, req, before>>

Commit(h) ==
  LET i == Instance(h) IN
  /\ at[h] = "open" /\ ~Conflict(h)
  /\ row' = [r \in Rows |-> IF r \in Writes(h) THEN NewRow(h, r) ELSE row[r]]
  /\ list' = [list EXCEPT ![i] = IF NewList(h) # snap[h].list[i] THEN NewList(h) ELSE @]
  /\ audit' = IF IsPatch(h) /\ req[h].whitelisted = None THEN audit
       ELSE [audit EXCEPT ![i] = IF IsPatch(h) THEN Moved(req[h].jid, req[h].whitelisted)
                                 ELSE Replaced(before[h], req[h].list)]
  /\ Go(h, "done")
  /\ snap' = [snap EXCEPT ![h] = None]
  /\ UNCHANGED <<req, before>>

(* The database fails, or the process ends, and the transaction is void.   *)
Abort(h) ==
  /\ at[h] \in {"read", "check", "begin", "open"}
  /\ Go(h, "refused")
  /\ snap' = [snap EXCEPT ![h] = None]
  /\ UNCHANGED <<dbVars, req, before>>

Handle(h) ==
  \/ ReadBefore(h) \/ CheckGroups(h) \/ Begin(h) \/ Retry(h) \/ Commit(h) \/ Abort(h)

Next ==
  \/ \E h \in Handlers : Handle(h) \/ \E q \in Patches \cup Edits : Receive(h, q)
  \/ \E r \in Rows : Appears(r)

Spec == Init /\ [][Next]_vars

-----------------------------------------------------------------------------
Done == {h \in Handlers : at[h] = "done"}

(* Types, and that a request raises a row's version once at most: clearing *)
(* and setting are not two changes to those who wait for one.              *)
TypeOK ==
  /\ row \in [Rows -> [exists : BOOLEAN, assigned : BOOLEAN, whitelisted : BOOLEAN,
                       version : 0..Cardinality(Done)]]
  /\ list \in [Instances -> SUBSET Jids]
  /\ audit \in [Instances -> [source : {"none", "group-row", "instance-config"},
                  names : SUBSET Jids, granted : BOOLEAN, before : SUBSET Jids]]
  /\ at \in [Handlers -> {"idle", "read", "check", "begin", "open", "refused", "done"}]
  /\ req \in [Handlers -> Patches \cup Edits \cup {None}]
  /\ before \in [Handlers -> SUBSET Jids]
  /\ \A h \in Handlers : at[h] # "open" => snap[h] = None

(* The list and its mirror agree, whoever moved them and however the       *)
(* requests overlapped: a group taken off the list is off for every        *)
(* reader, and one that is on it has a row of the same account to take the *)
(* grant back from (unknownGroups).                                        *)
ListMatchesRows ==
  \A i \in Instances :
    list[i] = {g \in Jids : <<i, g>> \in Rows /\ row[<<i, g>>].exists
                                            /\ row[<<i, g>>].whitelisted}

(* The two places a grant is written in are one at every instant.          *)
ScopeInv == TypeOK /\ ListMatchesRows

Eligible(r) == row[r].assigned /\ row[r].whitelisted

(* A version stands for one answer: when a group's eligibility changes its *)
(* version has grown, and it never falls. The summaries' fence             *)
(* (MemoryBatches) compares versions only.                                 *)
EligibilityIsVersioned ==
  [][\A r \in Rows :
       /\ row'[r].version >= row[r].version
       /\ Eligible(r)' # Eligible(r) => row'[r].version > row[r].version]_vars

(* Every move of a list has its own audit row, which names what moved and  *)
(* nothing else did: a toggle keeps what others changed meanwhile.         *)
MovesAreRecorded ==
  [][\A i \in Instances : list'[i] # list[i] =>
       LET a == audit'[i] IN
       list'[i] = IF a.source = "instance-config" THEN a.names
                  ELSE IF a.granted THEN list[i] \cup a.names ELSE list[i] \ a.names]_vars
=============================================================================
