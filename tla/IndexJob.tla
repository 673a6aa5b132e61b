------------------------------ MODULE IndexJob ------------------------------
(***************************************************************************)
(* What one call of processDocumentGroups promises its caller, without its *)
(* goroutines and channels (backend/cmd/rag-cli/main.go).                  *)
(*                                                                         *)
(* Documents become visible in the database one at a time, while the job   *)
(* runs.  The job ends once, with one verdict.  "ok" is given only when    *)
(* every document is stored, unless the deadline of the run has cut the    *)
(* job short.  Nothing is written after the verdict.                       *)
(***************************************************************************)
CONSTANT Documents      \* the document groups handed to the job

VARIABLES stored,       \* the documents committed by this job
          cut,          \* TRUE once the deadline of the run has expired
          verdict       \* "running", then "ok" or "failed"

vars == <<stored, cut, verdict>>

Verdicts == {"running", "ok", "failed"}

TypeOK == /\ stored \subseteq Documents
          /\ cut \in BOOLEAN
          /\ verdict \in Verdicts

Init == /\ stored = {}
        /\ cut = FALSE
        /\ verdict = "running"

Store(d) == /\ verdict = "running"
            /\ stored' = stored \cup {d}
            /\ UNCHANGED <<cut, verdict>>

Expire == /\ verdict = "running"
          /\ cut' = TRUE
          /\ UNCHANGED <<stored, verdict>>

Succeed == /\ verdict = "running"
           /\ cut \/ stored = Documents
           /\ verdict' = "ok"
           /\ UNCHANGED <<stored, cut>>

Fail == /\ verdict = "running"
        /\ verdict' = "failed"
        /\ UNCHANGED <<stored, cut>>

Next == \/ \E d \in Documents : Store(d)
        \/ Expire
        \/ Succeed
        \/ Fail

Spec == Init /\ [][Next]_vars
=============================================================================
