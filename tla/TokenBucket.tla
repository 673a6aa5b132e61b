---------------------------- MODULE TokenBucket -----------------------------
(***************************************************************************)
(* What the limiter of the question endpoint promises                      *)
(* (backend/internal/http/middleware.go): every host has a bucket that     *)
(* fills with time up to Full, and a request that passes takes at least    *)
(* Cost out of it.  In this specification a bucket is never forgotten, and *)
(* time is the same for all.  The level is measured in ticks.              *)
(***************************************************************************)
EXTENDS Naturals

CONSTANTS Hosts,  \* who is limited
          Full,   \* what a bucket holds
          Cost    \* what a request takes at least

VARIABLE level

TypeOK == level \in [Hosts -> 0..Full]

Init == level = [h \in Hosts |-> Full]

Admit(h) == /\ level[h] >= Cost
            /\ \E l \in 0..(level[h] - Cost) : level' = [level EXCEPT ![h] = l]

Tick == level' = [h \in Hosts |-> IF level[h] < Full THEN level[h] + 1 ELSE Full]

Next == Tick \/ \E h \in Hosts : Admit(h)

Spec == Init /\ [][Next]_level
=============================================================================
