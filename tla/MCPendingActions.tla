-------------------------- MODULE MCPendingActions --------------------------
(* Small instances of PendingActions for TLC.                              *)
EXTENDS PendingActions, TLC

CONSTANTS console1, console2, dm1, tool1, kick, rename, post, ann, bob

(* What may be asked for, of the owner: changes of members by either       *)
(* spelling of an account, leaves, revocations and photos; of nobody:      *)
(* names and switches, and messages.                                       *)
AllMost == [group_rename |-> 3, group_set_photo |-> 2, group_leave |-> 2, group_send |-> 2]

Addresses == [account : {ann, bob}, device : BOOLEAN, user : BOOLEAN]

With(tool, field, values) == {[Change!Call(tool) EXCEPT ![field] = v] : v \in values}

AllCalls ==
  [a \in Actions |->
     CASE a = kick -> With("group_members", "members", UNION {[1 .. n -> Addresses] : n \in 0 .. 3})
                      \cup With("group_leave", "text", 0 .. 3) \cup With("message_revoke", "text", 0 .. 3)
                      \cup {[c EXCEPT !.image = i] : i \in BOOLEAN, c \in With("group_set_photo", "text", 0 .. 3)}
       [] a = rename -> With("group_rename", "text", 0 .. 4)
                        \cup {Change!Call(t) : t \in {"group_set_announce", "group_set_locked"}}
       [] a = post -> {[c EXCEPT !.due = d] : d \in {{}} \cup {{n} : n \in 0 .. 3},
                                            c \in With("group_send", "text", 0 .. 3)}]

AllResults == UNION {[1 .. n -> [account : {ann, bob}, ok : BOOLEAN]] : n \in 0 .. 2}

(* Every door, and two clicks on the owner's page.                         *)
AllDoors ==
  [h \in Handlers |->
     IF h = dm1 THEN "dm" ELSE IF h = tool1 THEN "tool" ELSE "console"]

Symmetry == Permutations({console1, console2})
=============================================================================
