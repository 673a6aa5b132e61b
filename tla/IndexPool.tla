----------------------------- MODULE IndexPool ------------------------------
(***************************************************************************)
(* The worker pool of "rag-cli index": processDocumentGroups and           *)
(* processDocumentGroup (backend/cmd/rag-cli/main.go).                     *)
(*                                                                         *)
(* The caller's goroutine publishes the document groups on an unbuffered   *)
(* channel, worker goroutines take them, translate, embed, store and       *)
(* measure each one, and put a result on a buffered channel.  The first    *)
(* error cancels the shared context; a run may also have a deadline.       *)
(*                                                                         *)
(* What a document becomes in the database is the business of module       *)
(* DocumentIndex; here a document is a number, its position in the list.   *)
(***************************************************************************)
EXTENDS Naturals, Sequences

CONSTANTS NumGroups,         \* len(input.DocumentGroups)
          RequestedWorkers,  \* the --workers flag
          Mode,              \* cfg.RAG.Mode
          HasDeadline        \* whether indexContextForMode sets a deadline

ASSUME NumGroupsAssumption == NumGroups \in Nat \ {0}
ASSUME WorkersAssumption == RequestedWorkers \in 1..8
ASSUME ModeAssumption == Mode \in {"local", "llm"}
ASSUME DeadlineAssumption == /\ HasDeadline \in BOOLEAN
                             /\ Mode = "local" => HasDeadline

WorkerCount == IF RequestedWorkers > NumGroups THEN NumGroups ELSE RequestedWorkers
Workers == 1..WorkerCount
Groups == 1..NumGroups

VARIABLES next,        \* the group the publisher offers; NumGroups + 1 after the last
          jobsClosed,  \* close(jobs) has happened
          pc,          \* where each worker is
          job,         \* the group each worker holds, 0 for none
          ctxErr,      \* jobCtx.Err(): "none", "canceled" or "deadline"
          firstErr,    \* what errOnce kept: "none", "fault" or an error of the context
          results,     \* the buffered channel of results, one per processed group
          stored,      \* groups whose transaction is committed
          started,     \* history: groups handed to processDocumentGroup
          outcome      \* "running", then "ok" or "failed" once the call returns

vars == <<next, jobsClosed, pc, job, ctxErr, firstErr, results, stored, started, outcome>>

Calls == {"translate", "embed", "upsert", "metrics"}
Stages == {"receive", "received", "send", "returned"} \cup Calls
CtxErrs == {"none", "canceled", "deadline"}

TypeOK == /\ next \in 1..(NumGroups + 1)
          /\ jobsClosed \in BOOLEAN
          /\ pc \in [Workers -> Stages]
          /\ job \in [Workers -> 0..NumGroups]
          /\ ctxErr \in CtxErrs
          /\ firstErr \in CtxErrs \cup {"fault"}
          /\ results \in Seq(Groups)
          /\ stored \subseteq Groups
          /\ started \subseteq Groups
          /\ outcome \in {"running", "ok", "failed"}

Init == /\ next = 1
        /\ jobsClosed = FALSE
        /\ pc = [w \in Workers |-> "receive"]
        /\ job = [w \in Workers |-> 0]
        /\ ctxErr = "none"
        /\ firstErr = "none"
        /\ results = <<>>
        /\ stored = {}
        /\ started = {}
        /\ outcome = "running"

-----------------------------------------------------------------------------
(* The publisher: the select of publishLoop, then close(jobs).             *)

\* Mutant: the loop variable is shared, every job carries the first group.
PublishSharedVariable(w) ==
  /\ ~jobsClosed
  /\ next \in Groups
  /\ pc[w] = "receive"
  /\ pc' = [pc EXCEPT ![w] = "received"]
  /\ job' = [job EXCEPT ![w] = 1]
  /\ next' = next + 1
  /\ UNCHANGED <<jobsClosed, ctxErr, firstErr, results, stored, started, outcome>>

\* The channel is unbuffered: a send happens together with a worker's receive.
\* The select may take this branch although the context is already done.
Publish(w) ==
  /\ ~jobsClosed
  /\ next \in Groups
  /\ pc[w] = "receive"
  /\ pc' = [pc EXCEPT ![w] = "received"]
  /\ job' = [job EXCEPT ![w] = next]
  /\ next' = next + 1
  /\ UNCHANGED <<jobsClosed, ctxErr, firstErr, results, stored, started, outcome>>

\* Mutant: the send is not in a select with jobCtx.Done.
StopPublishingAtEndOnly ==
  /\ ~jobsClosed
  /\ next = NumGroups + 1
  /\ jobsClosed' = TRUE
  /\ UNCHANGED <<next, pc, job, ctxErr, firstErr, results, stored, started, outcome>>

StopPublishing ==
  /\ ~jobsClosed
  /\ next = NumGroups + 1 \/ ctxErr # "none"
  /\ jobsClosed' = TRUE
  /\ UNCHANGED <<next, pc, job, ctxErr, firstErr, results, stored, started, outcome>>

-----------------------------------------------------------------------------
(* A worker.                                                               *)

\* "for job := range jobs" ends once the channel is closed.
LeaveLoop(w) ==
  /\ pc[w] = "receive"
  /\ jobsClosed
  /\ pc' = [pc EXCEPT ![w] = "returned"]
  /\ UNCHANGED <<next, jobsClosed, job, ctxErr, firstErr, results, stored, started, outcome>>

\* The job was received after the context ended: the worker gives it up.
DropJob(w) ==
  /\ pc[w] = "received"
  /\ ctxErr # "none"
  /\ pc' = [pc EXCEPT ![w] = "returned"]
  /\ job' = [job EXCEPT ![w] = 0]
  /\ UNCHANGED <<next, jobsClosed, ctxErr, firstErr, results, stored, started, outcome>>

StartDocument(w) ==
  /\ pc[w] = "received"
  /\ ctxErr = "none"
  /\ pc' = [pc EXCEPT ![w] = IF Mode = "llm" THEN "translate" ELSE "embed"]
  /\ started' = started \cup {job[w]}
  /\ UNCHANGED <<next, jobsClosed, job, ctxErr, firstErr, results, stored, outcome>>

\* A document that has every language makes no call, and ignores the context.
Translate(w) ==
  /\ pc[w] = "translate"
  /\ pc' = [pc EXCEPT ![w] = "embed"]
  /\ UNCHANGED <<next, jobsClosed, job, ctxErr, firstErr, results, stored, started, outcome>>

\* Chunking and embedding.  The deterministic embedder ignores the context.
Embed(w) ==
  /\ pc[w] = "embed"
  /\ ctxErr = "none" \/ Mode = "local"
  /\ pc' = [pc EXCEPT ![w] = "upsert"]
  /\ UNCHANGED <<next, jobsClosed, job, ctxErr, firstErr, results, stored, started, outcome>>

\* UpsertChunks commits one transaction per document.
Upsert(w) ==
  /\ pc[w] = "upsert"
  /\ ctxErr = "none"
  /\ stored' = stored \cup {job[w]}
  /\ pc' = [pc EXCEPT ![w] = "metrics"]
  /\ UNCHANGED <<next, jobsClosed, job, ctxErr, firstErr, results, started, outcome>>

WriteMetrics(w) ==
  /\ pc[w] = "metrics"
  /\ ctxErr = "none"
  /\ pc' = [pc EXCEPT ![w] = "send"]
  /\ UNCHANGED <<next, jobsClosed, job, ctxErr, firstErr, results, stored, started, outcome>>

\* Mutant: cancel without keeping the error.
CancelOnly(err) ==
  /\ firstErr' = firstErr
  /\ ctxErr' = IF ctxErr = "none" THEN "canceled" ELSE ctxErr

\* Mutant: errors of the context are taken for a normal end.
KeepFirstFault(err) ==
  /\ firstErr' = IF firstErr = "none" /\ err = "fault" THEN err ELSE firstErr
  /\ ctxErr' = IF ctxErr = "none" THEN "canceled" ELSE ctxErr

\* Mutant: no sync.Once, the last error is kept.
KeepLastError(err) ==
  /\ firstErr' = err
  /\ ctxErr' = IF ctxErr = "none" THEN "canceled" ELSE ctxErr

\* errOnce.Do: the first error is kept and cancels the context for everyone.
KeepFirstError(err) ==
  /\ firstErr' = IF firstErr = "none" THEN err ELSE firstErr
  /\ ctxErr' = IF ctxErr = "none" THEN "canceled" ELSE ctxErr

\* A call of processDocumentGroup fails, by itself or because the context ended.
\* A commit whose answer is lost is an error to the worker, the row being there.
FailDocument(w) ==
  /\ pc[w] \in Calls
  /\ \E err \in {"fault"} \cup ({ctxErr} \ {"none"}) : KeepFirstError(err)
  /\ \/ UNCHANGED stored
     \/ pc[w] = "upsert" /\ stored' = stored \cup {job[w]}
  /\ pc' = [pc EXCEPT ![w] = "returned"]
  /\ job' = [job EXCEPT ![w] = 0]
  /\ UNCHANGED <<next, jobsClosed, results, started, outcome>>

\* The results channel has room for one result per group.
SendResult(w) ==
  /\ pc[w] = "send"
  /\ Len(results) < NumGroups
  /\ results' = Append(results, job[w])
  /\ pc' = [pc EXCEPT ![w] = "receive"]
  /\ job' = [job EXCEPT ![w] = 0]
  /\ UNCHANGED <<next, jobsClosed, ctxErr, firstErr, stored, started, outcome>>

WorkerStep(w) == \/ LeaveLoop(w)
                 \/ DropJob(w)
                 \/ StartDocument(w)
                 \/ Translate(w)
                 \/ Embed(w)
                 \/ Upsert(w)
                 \/ WriteMetrics(w)
                 \/ FailDocument(w)
                 \/ SendResult(w)

-----------------------------------------------------------------------------
(* The deadline, and the end of the call.                                  *)

DeadlineExpires ==
  /\ HasDeadline
  /\ outcome = "running"
  /\ ctxErr = "none"
  /\ ctxErr' = "deadline"
  /\ UNCHANGED <<next, jobsClosed, pc, job, firstErr, results, stored, started, outcome>>

\* Mutant: no wg.Wait.
ReturnWithoutWaiting ==
  /\ outcome = "running"
  /\ jobsClosed
  /\ outcome' = IF firstErr = "none" THEN "ok" ELSE "failed"
  /\ UNCHANGED <<next, jobsClosed, pc, job, ctxErr, firstErr, results, stored, started>>

\* wg.Wait, close(results), then the first error or the totals of the results.
Return ==
  /\ outcome = "running"
  /\ jobsClosed
  /\ \A w \in Workers : pc[w] = "returned"
  /\ outcome' = IF firstErr = "none" THEN "ok" ELSE "failed"
  /\ UNCHANGED <<next, jobsClosed, pc, job, ctxErr, firstErr, results, stored, started>>

PublisherStep == StopPublishing \/ \E w \in Workers : Publish(w)

Next == \/ PublisherStep
        \/ \E w \in Workers : WorkerStep(w)
        \/ DeadlineExpires
        \/ Return

Spec == Init /\ [][Next]_vars

(***************************************************************************)
(* Every goroutine is scheduled, and every call a worker makes returns:    *)
(* the HTTP clients have timeouts (translate.go:85, embed.go:54) and the   *)
(* database answers.  Nothing is assumed about the deadline or errors.     *)
(***************************************************************************)
Fairness == /\ WF_vars(PublisherStep)
            /\ \A w \in Workers : WF_vars(WorkerStep(w))
            /\ WF_vars(Return)

FairSpec == Spec /\ Fairness

-----------------------------------------------------------------------------
(* Properties.                                                             *)

Holds(w, g) == pc[w] \notin {"receive", "returned"} /\ job[w] = g
Processed == {results[i] : i \in 1..Len(results)}

(***************************************************************************)
(* A document is never in the hands of two workers, and never processed    *)
(* again once its result is sent: two transactions on one document, or a   *)
(* document counted twice in the totals (main.go:343).                     *)
(***************************************************************************)
ProcessedOnce ==
  /\ \A v, w \in Workers, g \in Groups : Holds(v, g) /\ Holds(w, g) => v = w
  /\ \A w \in Workers, g \in Groups : Holds(w, g) => g \notin Processed
  /\ \A i, j \in 1..Len(results) : results[i] = results[j] => i = j

(***************************************************************************)
(* The call returns no error and its context did not expire: every         *)
(* document group is committed and counted.  This is what runIndex relies  *)
(* on when it prints how many documents were processed (main.go:211).      *)
(***************************************************************************)
SuccessIsComplete ==
  outcome = "ok" /\ ctxErr # "deadline" => stored = Groups /\ Processed = Groups

(***************************************************************************)
(* Even when the deadline cuts a run that reports success, no document     *)
(* that a worker began is left out: what is missing was never begun.       *)
(***************************************************************************)
SuccessKeepsStarted == outcome = "ok" => started \subseteq stored

(***************************************************************************)
(* The error the call returns is the cause, never the "context canceled"   *)
(* that the cause produced in the other workers (errOnce, main.go:313).    *)
(***************************************************************************)
FirstErrorIsCause ==
  /\ firstErr # "canceled"
  /\ firstErr = "deadline" => ctxErr = "deadline"

(***************************************************************************)
(* The call always returns: no worker blocks on the results channel, and   *)
(* the publisher does not wait for ever for workers that have all left     *)
(* after an error.                                                         *)
(***************************************************************************)
CallReturns == <>(outcome # "running")

(***************************************************************************)
(* The pool keeps the promise of IndexJob: in particular nothing is        *)
(* committed after the call has returned.                                  *)
(***************************************************************************)
Job == INSTANCE IndexJob WITH Documents <- Groups,
                              cut <- (ctxErr = "deadline"),
                              verdict <- outcome
ImplementsJob == Job!Spec
=============================================================================
