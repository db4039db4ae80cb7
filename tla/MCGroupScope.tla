---------------------------- MODULE MCGroupScope ----------------------------
(* Small instances of GroupScope for TLC.                                  *)
EXTENDS GroupScope, TLC

CONSTANTS home, work, family, sports

Symmetry == Permutations(Handlers)

(* Both accounts are in one group, the first in another one as well.       *)
Memberships == {<<home, family>>, <<home, sports>>, <<work, family>>}

Toggle(jid, instance, on) ==
  [jid |-> jid, instance |-> instance, assigned |-> None, whitelisted |-> on]

Assign(jid, on) == [jid |-> jid, instance |-> home, assigned |-> on, whitelisted |-> None]

(* The toggle with and without its instance, and the flag of its own.      *)
Requests ==
  {Toggle(family, home, on) : on \in BOOLEAN} \cup {Toggle(family, None, TRUE)}
    \cup {Toggle(sports, None, on) : on \in BOOLEAN} \cup {Assign(family, on) : on \in BOOLEAN}

Lists == [instance : {home}, list : SUBSET {family, sports}]
           \cup {[instance |-> work, list |-> {sports}]}
=============================================================================
