---------------------------- MODULE MCConsoleFeed ----------------------------
EXTENDS ConsoleFeed

Key(at, id, instance) == [at |-> at, id |-> id, instance |-> instance]
MCRows == {Key(1, 1, 1), Key(1, 1, 2), Key(2, 1, 1), Key(2, 2, 1)}
MCEarly == {Key(1, 1, 1), Key(1, 1, 2), Key(2, 1, 1)}
MCHits == [r \in MCRows |-> CASE r = Key(1, 1, 1) -> {"text"}
                              [] r = Key(1, 1, 2) -> {"typeahead"}
                              [] OTHER -> Branches]
=============================================================================
