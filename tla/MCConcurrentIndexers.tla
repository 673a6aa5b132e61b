------------------------ MODULE MCConcurrentIndexers ------------------------
(***************************************************************************)
(* ConcurrentIndexers for TLC: run a has two workers and two documents     *)
(* that name the same people crosswise; the runs b and c write one of them *)
(* too.  The texts of that document differ in their lengths and lists.     *)
(***************************************************************************)
EXTENDS ConcurrentIndexers

CONSTANTS w1, w2, w3, w4, a, b, c, d1, d2, p, q

WorkersRun == [w \in Workers |-> CASE w = w3 -> b [] w = w4 -> c [] OTHER -> a]

RunsCorpus == [r \in Runs |-> IF r = a THEN {d1, d2} ELSE {d1}]

TextParts == [d \in Docs |-> [t \in Texts |-> IF d = d1 /\ t \in {a, Old} THEN 2 ELSE 1]]

TextLists == [d \in Docs |-> [t \in Texts |->
  CASE t = a /\ d = d1 -> <<p, q>>
    [] t = a /\ d = d2 -> <<q, p>>
    [] t = b -> <<q>>
    [] t = Old -> <<p>>
    [] OTHER -> <<>>]]
=============================================================================
