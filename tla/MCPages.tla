------------------------------ MODULE MCPages -------------------------------
EXTENDS Pages, TLC

CONSTANTS i1, i2, web, loose, q1, hn1, hn2, any, ad1, ad2

MCHitCount == i1 :> 2 @@ i2 :> 1

MCCtrNames == 1..3
MCLooks ==
    {[state |-> "running", health |-> "healthy", exit |-> 0, update |-> FALSE, cpu |-> 1, mem |-> 2, since |-> 1],
     [state |-> "running", health |-> "unhealthy", exit |-> 0, update |-> TRUE, cpu |-> 2, mem |-> 1, since |-> 1],
     [state |-> "exited", health |-> "", exit |-> 1, update |-> FALSE, cpu |-> 0, mem |-> 0, since |-> 2]}
MCStackOf == 1 :> web @@ 2 :> loose @@ 3 :> web
MCLines ==
    {[key |-> "host", names |-> ns] : ns \in {<<hn1>>, <<any, hn2, hn1>>}}
        \cup {[key |-> "match"]} \cup {[key |-> "hostname", addr |-> a] : a \in {ad1, ad2}}
MCFound == q1 :> {1, 2}
=============================================================================
