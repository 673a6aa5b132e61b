---------------------------- MODULE MCQAService -----------------------------
(***************************************************************************)
(* QAService with three questions: two that are close to each other, one   *)
(* of them asked in two languages, and a third that had to be redacted.    *)
(***************************************************************************)
EXTENDS QAService

Close == {"taxes", "taxes?"}
Scores == [p \in Questions \X Questions |->
             IF p[1] = p[2] THEN 10 ELSE IF p[1] \in Close /\ p[2] \in Close THEN 9 ELSE 3]
Asked == {<<"taxes", "fr">>, <<"taxes?", "fr">>, <<"taxes", "de">>, <<"mail", "fr">>}
=============================================================================
