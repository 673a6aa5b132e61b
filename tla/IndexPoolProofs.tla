-------------------------- MODULE IndexPoolProofs ---------------------------
(***************************************************************************)
(* Proofs about IndexPool, for any number of groups and of workers.        *)
(*                                                                         *)
(* The invariant follows the group of each job: once published it is held  *)
(* by exactly one worker or its result is sent, and it can only disappear  *)
(* after the context has ended; once started it can only disappear after   *)
(* an error has been kept.                                                 *)
(*                                                                         *)
(* That the call returns is a matter of fairness; that it can always go    *)
(* on, and in how many steps it ends, is proved here.                      *)
(***************************************************************************)
EXTENDS IndexPool, FiniteSetTheorems, TLAPS

\* A worker names a group exactly while it is busy with it.
BusyWorkers ==
  \A w \in Workers : job[w] = 0 <=> pc[w] \in {"receive", "returned"}

\* Whatever is held, sent or started was published before.
OnlyPublished ==
  /\ \A w \in Workers : job[w] < next
  /\ \A i \in 1..Len(results) : results[i] < next
  /\ \A g \in started : g < next
  /\ \A w \in Workers : pc[w] = "received" => job[w] \notin started

PublishedNotLost ==
  \A g \in Groups : g < next =>
    \/ \E w \in Workers : Holds(w, g)
    \/ g \in Processed
    \/ ctxErr # "none"

StartedNotLost ==
  \A g \in started :
    \/ \E w \in Workers : Holds(w, g)
    \/ g \in Processed
    \/ firstErr # "none"

\* The two error variables: who has set which.
ErrorsAgree ==
  /\ FirstErrorIsCause
  /\ ctxErr = "canceled" => firstErr # "none"
  /\ firstErr # "none" => ctxErr # "none"
  /\ outcome = "ok" => firstErr = "none"

\* A group is counted only after its transaction is committed.
CountedAreStored ==
  /\ Processed \subseteq stored
  /\ \A w \in Workers : pc[w] \in {"metrics", "send"} => job[w] \in stored

Closing ==
  /\ jobsClosed => next = NumGroups + 1 \/ ctxErr # "none"
  /\ outcome # "running" => jobsClosed /\ \A w \in Workers : pc[w] = "returned"

IInv == /\ TypeOK
        /\ BusyWorkers
        /\ OnlyPublished
        /\ ProcessedOnce
        /\ PublishedNotLost
        /\ StartedNotLost
        /\ ErrorsAgree
        /\ CountedAreStored
        /\ Closing

-----------------------------------------------------------------------------
(* The initial state.                                                      *)

LEMMA InitIInv == Init => IInv
<1> SUFFICES ASSUME Init PROVE IInv
  OBVIOUS
<1> USE NumGroupsAssumption DEF NumGroupsAssumption, Init, Groups, Stages, Calls, CtxErrs
<1>1. next \in 1..(NumGroups + 1)
  OBVIOUS
<1>1a. jobsClosed \in BOOLEAN
  OBVIOUS
<1>2. pc \in [Workers -> Stages]
  OBVIOUS
<1>3. job \in [Workers -> 0..NumGroups]
  OBVIOUS
<1>4. results \in Seq(Groups)
  OBVIOUS
<1>4a. Len(results) = 0
  OBVIOUS
<1>5. stored \subseteq Groups /\ started \subseteq Groups
  OBVIOUS
<1>6. TypeOK
  BY <1>1, <1>1a, <1>2, <1>3, <1>4, <1>5 DEF TypeOK
<1>7. BusyWorkers /\ OnlyPublished
  BY <1>4a DEF BusyWorkers, OnlyPublished
<1>8. PublishedNotLost /\ StartedNotLost
  BY DEF PublishedNotLost, StartedNotLost
<1>9. ProcessedOnce /\ CountedAreStored
  BY <1>4a DEF ProcessedOnce, CountedAreStored, Processed, Holds
<1>10. ErrorsAgree /\ Closing
  BY DEF ErrorsAgree, FirstErrorIsCause, Closing
<1>11. QED
  BY <1>6, <1>7, <1>8, <1>9, <1>10 DEF IInv

-----------------------------------------------------------------------------
(* The publisher.                                                          *)

LEMMA PublishIInv == ASSUME IInv, NEW w \in Workers, Publish(w) PROVE IInv'
<1> USE NumGroupsAssumption DEF NumGroupsAssumption, Groups
<1> USE DEF IInv, TypeOK, Publish
<1>1. TypeOK'
  <2>1. next' \in 1..(NumGroups + 1)
    OBVIOUS
  <2>2. pc' \in [Workers -> Stages]
    BY DEF Stages
  <2>3. job' \in [Workers -> 0..NumGroups]
    OBVIOUS
  <2>4. QED
    BY <2>1, <2>2, <2>3
<1>2. BusyWorkers'
  BY DEF BusyWorkers
<1>3. OnlyPublished'
  BY DEF OnlyPublished
<1>4. ProcessedOnce'
  <2>1. \A v \in Workers, g \in Groups :
          Holds(v, g)' <=> IF v = w THEN g = next ELSE Holds(v, g)
    BY DEF Holds
  <2>2. \A v \in Workers : ~Holds(v, next)
    BY DEF Holds, OnlyPublished
  <2>3. next \notin Processed
    BY DEF Processed, OnlyPublished
  <2>4. Processed' = Processed
    BY DEF Processed
  <2>5. QED
    BY <2>1, <2>2, <2>3, <2>4 DEF ProcessedOnce
<1>5. PublishedNotLost'
  BY DEF PublishedNotLost, Holds, Processed
<1>6. StartedNotLost'
  BY DEF StartedNotLost, Holds, Processed
<1>7. CountedAreStored'
  BY DEF CountedAreStored, Processed
<1>8. ErrorsAgree' /\ Closing'
  BY DEF ErrorsAgree, FirstErrorIsCause, Closing
<1>9. QED
  BY <1>1, <1>2, <1>3, <1>4, <1>5, <1>6, <1>7, <1>8

\* What a step that keeps the jobs, the results and the history preserves.
LEMMA SameJobs ==
  ASSUME IInv, UNCHANGED <<next, pc, job, results, stored, started>>,
         ctxErr' = ctxErr \/ ctxErr' # "none", firstErr' = firstErr,
         TypeOK', ErrorsAgree', Closing'
  PROVE  IInv'
<1> USE DEF IInv
<1>1. BusyWorkers' /\ OnlyPublished'
  BY DEF BusyWorkers, OnlyPublished
<1>2. ProcessedOnce' /\ CountedAreStored'
  BY DEF ProcessedOnce, CountedAreStored, Processed, Holds
<1>3. PublishedNotLost' /\ StartedNotLost'
  BY DEF PublishedNotLost, StartedNotLost, Processed, Holds
<1>4. QED
  BY <1>1, <1>2, <1>3

LEMMA StopPublishingIInv == ASSUME IInv, StopPublishing PROVE IInv'
<1>1. TypeOK'
  BY DEF IInv, TypeOK, StopPublishing
<1>2. ErrorsAgree' /\ Closing'
  BY DEF IInv, StopPublishing, ErrorsAgree, FirstErrorIsCause, Closing
<1>3. QED
  BY <1>1, <1>2, SameJobs DEF StopPublishing

LEMMA DeadlineIInv == ASSUME IInv, DeadlineExpires PROVE IInv'
<1>1. TypeOK'
  BY DEF IInv, TypeOK, DeadlineExpires, CtxErrs
<1>2. ErrorsAgree' /\ Closing'
  BY DEF IInv, DeadlineExpires, ErrorsAgree, FirstErrorIsCause, Closing
<1>3. QED
  BY <1>1, <1>2, SameJobs DEF DeadlineExpires

LEMMA ReturnIInv == ASSUME IInv, Return PROVE IInv'
<1>1. TypeOK'
  BY DEF IInv, TypeOK, Return
<1>2. ErrorsAgree' /\ Closing'
  BY DEF IInv, Return, ErrorsAgree, FirstErrorIsCause, Closing
<1>3. QED
  BY <1>1, <1>2, SameJobs DEF Return

-----------------------------------------------------------------------------
(* The workers.                                                            *)

LEMMA LeaveLoopIInv == ASSUME IInv, NEW w \in Workers, LeaveLoop(w) PROVE IInv'
<1> USE DEF IInv, TypeOK, LeaveLoop
<1>1. TypeOK'
  BY DEF Stages
<1>2. BusyWorkers' /\ OnlyPublished'
  BY DEF BusyWorkers, OnlyPublished
<1>3. \A v \in Workers, g \in Groups : Holds(v, g)' <=> Holds(v, g)
  BY DEF Holds
<1>4. Processed' = Processed
  BY DEF Processed
<1>5. ProcessedOnce'
  BY <1>3, <1>4 DEF ProcessedOnce
<1>6. PublishedNotLost' /\ StartedNotLost'
  BY <1>3, <1>4 DEF PublishedNotLost, StartedNotLost
<1>7. CountedAreStored'
  BY <1>4 DEF CountedAreStored
<1>8. ErrorsAgree' /\ Closing'
  BY DEF ErrorsAgree, FirstErrorIsCause, Closing
<1>9. QED
  BY <1>1, <1>2, <1>5, <1>6, <1>7, <1>8

LEMMA DropJobIInv == ASSUME IInv, NEW w \in Workers, DropJob(w) PROVE IInv'
<1> USE DEF IInv, TypeOK, DropJob
<1>1. TypeOK'
  BY NumGroupsAssumption DEF NumGroupsAssumption, Stages
<1>2. BusyWorkers' /\ OnlyPublished'
  BY DEF BusyWorkers, OnlyPublished
<1>3. \A v \in Workers, g \in Groups : Holds(v, g)' <=> v # w /\ Holds(v, g)
  BY DEF Holds
<1>4. Processed' = Processed
  BY DEF Processed
<1>5. ProcessedOnce'
  BY <1>3, <1>4 DEF ProcessedOnce
<1>6. PublishedNotLost'
  BY DEF PublishedNotLost
<1>7. StartedNotLost'
  BY <1>3, <1>4 DEF StartedNotLost, OnlyPublished, Holds
<1>8. CountedAreStored'
  BY <1>4 DEF CountedAreStored
<1>9. ErrorsAgree' /\ Closing'
  BY DEF ErrorsAgree, FirstErrorIsCause, Closing
<1>10. QED
  BY <1>1, <1>2, <1>5, <1>6, <1>7, <1>8, <1>9

LEMMA StartDocumentIInv == ASSUME IInv, NEW w \in Workers, StartDocument(w) PROVE IInv'
<1> USE DEF IInv, TypeOK, StartDocument
<1>1. job[w] \in Groups
  BY DEF BusyWorkers, Groups
<1>2. TypeOK'
  <2>1. pc' \in [Workers -> Stages]
    BY DEF Stages, Calls
  <2>2. started' \subseteq Groups
    BY <1>1
  <2>3. QED
    BY <2>1, <2>2
<1>3. \A v \in Workers, g \in Groups : Holds(v, g)' <=> Holds(v, g)
  BY DEF Holds
<1>4. Processed' = Processed
  BY DEF Processed
<1>5. BusyWorkers'
  BY DEF BusyWorkers
<1>6. OnlyPublished'
  <2>1. \A v \in Workers : pc'[v] = "received" => job'[v] \notin started'
    <3> SUFFICES ASSUME NEW v \in Workers, pc'[v] = "received" PROVE job[v] # job[w]
      BY DEF OnlyPublished
    <3>1. v # w /\ Holds(w, job[w]) /\ Holds(v, job[v])
      BY DEF Holds
    <3>2. QED
      BY <1>1, <3>1 DEF ProcessedOnce
  <2>2. QED
    BY <2>1 DEF OnlyPublished
<1>7. ProcessedOnce'
  BY <1>3, <1>4 DEF ProcessedOnce
<1>8. PublishedNotLost'
  BY <1>3, <1>4 DEF PublishedNotLost
<1>9. StartedNotLost'
  <2>1. Holds(w, job[w])
    BY DEF Holds
  <2>2. QED
    BY <1>1, <1>3, <1>4, <2>1 DEF StartedNotLost
<1>10. CountedAreStored'
  BY <1>4 DEF CountedAreStored
<1>11. ErrorsAgree' /\ Closing'
  BY DEF ErrorsAgree, FirstErrorIsCause, Closing
<1>12. QED
  BY <1>2, <1>5, <1>6, <1>7, <1>8, <1>9, <1>10, <1>11

\* Going from one call of processDocumentGroup to the next.
LEMMA NextCallIInv ==
  ASSUME IInv, NEW w \in Workers, NEW from \in Calls, NEW to \in Calls \cup {"send"},
         pc[w] = from, pc' = [pc EXCEPT ![w] = to],
         to \in {"metrics", "send"} => job[w] \in stored',
         stored \subseteq stored', stored' \subseteq Groups,
         UNCHANGED <<next, jobsClosed, job, ctxErr, firstErr, results, started, outcome>>
  PROVE  IInv'
<1> USE DEF IInv, TypeOK, Calls
<1>1. TypeOK'
  BY DEF Stages
<1>2. BusyWorkers' /\ OnlyPublished'
  BY DEF BusyWorkers, OnlyPublished
<1>3. \A v \in Workers, g \in Groups : Holds(v, g)' <=> Holds(v, g)
  BY DEF Holds
<1>4. Processed' = Processed
  BY DEF Processed
<1>5. ProcessedOnce'
  BY <1>3, <1>4 DEF ProcessedOnce
<1>6. PublishedNotLost' /\ StartedNotLost'
  BY <1>3, <1>4 DEF PublishedNotLost, StartedNotLost
<1>7. CountedAreStored'
  BY <1>4 DEF CountedAreStored
<1>8. ErrorsAgree' /\ Closing'
  BY DEF ErrorsAgree, FirstErrorIsCause, Closing
<1>9. QED
  BY <1>1, <1>2, <1>5, <1>6, <1>7, <1>8

LEMMA CallsIInv ==
  ASSUME IInv, NEW w \in Workers, Translate(w) \/ Embed(w) \/ Upsert(w) \/ WriteMetrics(w)
  PROVE  IInv'
<1>1. stored \subseteq Groups /\ (pc[w] = "upsert" => job[w] \in Groups)
  BY DEF IInv, TypeOK, BusyWorkers, Groups
<1>2. pc[w] \in {"metrics", "send"} => job[w] \in stored
  BY DEF IInv, CountedAreStored
<1>3. CASE Translate(w)
  BY <1>1, <1>3, NextCallIInv DEF Translate, Calls
<1>4. CASE Embed(w)
  BY <1>1, <1>4, NextCallIInv DEF Embed, Calls
<1>5. CASE Upsert(w)
  BY <1>1, <1>5, NextCallIInv DEF Upsert, Calls
<1>6. CASE WriteMetrics(w)
  BY <1>1, <1>2, <1>6, NextCallIInv DEF WriteMetrics, Calls
<1>7. QED
  BY <1>3, <1>4, <1>5, <1>6

LEMMA FailDocumentIInv == ASSUME IInv, NEW w \in Workers, FailDocument(w) PROVE IInv'
<1> USE DEF IInv, TypeOK, FailDocument, Calls
<1>1. PICK err \in {"fault"} \cup ({ctxErr} \ {"none"}) : KeepFirstError(err)
  OBVIOUS
<1>2. /\ firstErr' = IF firstErr = "none" THEN err ELSE firstErr
      /\ ctxErr' = IF ctxErr = "none" THEN "canceled" ELSE ctxErr
  BY <1>1 DEF KeepFirstError
<1>3. ctxErr' # "none" /\ firstErr' # "none"
  BY <1>2
<1>4. stored \subseteq stored' /\ stored' \subseteq Groups
  <2>1. job[w] \in Groups
    BY DEF BusyWorkers, Groups
  <2>2. QED
    BY <2>1
<1>5. TypeOK'
  <2>1. pc' \in [Workers -> Stages]
    BY DEF Stages
  <2>2. job' \in [Workers -> 0..NumGroups]
    BY NumGroupsAssumption DEF NumGroupsAssumption
  <2>3. ctxErr' \in CtxErrs /\ firstErr' \in CtxErrs \cup {"fault"}
    BY <1>2 DEF CtxErrs
  <2>4. QED
    BY <1>4, <2>1, <2>2, <2>3
<1>6. BusyWorkers' /\ OnlyPublished'
  BY DEF BusyWorkers, OnlyPublished
<1>7. \A v \in Workers, g \in Groups : Holds(v, g)' <=> v # w /\ Holds(v, g)
  BY DEF Holds
<1>8. Processed' = Processed
  BY DEF Processed
<1>9. ProcessedOnce'
  BY <1>7, <1>8 DEF ProcessedOnce
<1>10. PublishedNotLost' /\ StartedNotLost'
  BY <1>3 DEF PublishedNotLost, StartedNotLost
<1>11. CountedAreStored'
  BY <1>4, <1>8 DEF CountedAreStored
<1>12. ErrorsAgree'
  <2>1. pc[w] # "returned" /\ outcome' = "running"
    BY DEF Closing
  <2>2. FirstErrorIsCause'
    BY <1>2 DEF ErrorsAgree, FirstErrorIsCause
  <2>3. QED
    BY <1>3, <2>1, <2>2 DEF ErrorsAgree
<1>13. Closing'
  BY <1>3 DEF Closing
<1>14. QED
  BY <1>5, <1>6, <1>9, <1>10, <1>11, <1>12, <1>13

LEMMA SendResultIInv == ASSUME IInv, NEW w \in Workers, SendResult(w) PROVE IInv'
<1> USE DEF IInv, TypeOK, SendResult
<1>1. job[w] \in Groups /\ Holds(w, job[w])
  BY DEF BusyWorkers, Groups, Holds
<1>2. results' \in Seq(Groups) /\ Len(results') = Len(results) + 1
  BY <1>1
<1>3. \A i \in 1..Len(results') :
        results'[i] = IF i = Len(results) + 1 THEN job[w] ELSE results[i]
  BY <1>1, <1>2
<1>4. Processed' = Processed \cup {job[w]}
  <2>1. Len(results) \in Nat
    OBVIOUS
  <2>2. Processed' \subseteq Processed \cup {job[w]}
    BY <1>2, <1>3, <2>1 DEF Processed
  <2>3. \A i \in 1..Len(results) : results[i] = results'[i] /\ i \in 1..Len(results')
    BY <1>2, <1>3, <2>1
  <2>4. Processed \subseteq Processed'
    BY <2>3 DEF Processed
  <2>5. job[w] = results'[Len(results')] /\ Len(results') \in 1..Len(results')
    BY <1>2, <1>3, <2>1
  <2>6. job[w] \in Processed'
    BY <2>5 DEF Processed
  <2>7. QED
    BY <2>2, <2>4, <2>6
<1>5. \A v \in Workers, g \in Groups : Holds(v, g)' <=> v # w /\ Holds(v, g)
  BY DEF Holds
<1>6. TypeOK'
  <2>1. pc' \in [Workers -> Stages]
    BY DEF Stages
  <2>2. job' \in [Workers -> 0..NumGroups]
    BY NumGroupsAssumption DEF NumGroupsAssumption
  <2>3. QED
    BY <1>2, <2>1, <2>2
<1>7. BusyWorkers'
  BY DEF BusyWorkers
<1>8. OnlyPublished'
  <2>1. \A i \in 1..Len(results') : results'[i] < next'
    BY <1>2, <1>3 DEF OnlyPublished
  <2>2. QED
    BY <2>1 DEF OnlyPublished
<1>9. ProcessedOnce'
  <2>1. \A v \in Workers, g \in Groups : Holds(v, g)' => g \notin Processed'
    BY <1>1, <1>4, <1>5 DEF ProcessedOnce
  <2>2. \A i \in 1..Len(results) : results[i] # job[w]
    BY <1>1 DEF ProcessedOnce, Processed
  <2>3. \A i, j \in 1..Len(results') : results'[i] = results'[j] => i = j
    BY <1>2, <1>3, <2>2 DEF ProcessedOnce
  <2>4. \A u, v \in Workers, g \in Groups : Holds(u, g)' /\ Holds(v, g)' => u = v
    BY <1>5 DEF ProcessedOnce
  <2>5. QED
    BY <2>1, <2>3, <2>4 DEF ProcessedOnce
<1>10. \A v \in Workers, g \in Groups : Holds(v, g) => Holds(v, g)' \/ g \in Processed'
  BY <1>4, <1>5 DEF Holds
<1>11. PublishedNotLost' /\ StartedNotLost'
  BY <1>4, <1>10 DEF PublishedNotLost, StartedNotLost
<1>12. CountedAreStored'
  BY <1>4 DEF CountedAreStored
<1>13. ErrorsAgree' /\ Closing'
  BY DEF ErrorsAgree, FirstErrorIsCause, Closing
<1>14. QED
  BY <1>6, <1>7, <1>8, <1>9, <1>11, <1>12, <1>13

-----------------------------------------------------------------------------
(* The invariant is inductive.                                             *)

LEMMA NextIInv == IInv /\ [Next]_vars => IInv'
<1> SUFFICES ASSUME IInv, [Next]_vars PROVE IInv'
  OBVIOUS
<1>1. ASSUME NEW w \in Workers, WorkerStep(w) PROVE IInv'
  BY <1>1, LeaveLoopIInv, DropJobIInv, StartDocumentIInv, CallsIInv,
     FailDocumentIInv, SendResultIInv DEF WorkerStep
<1>2. CASE PublisherStep
  BY <1>2, PublishIInv, StopPublishingIInv DEF PublisherStep
<1>3. CASE DeadlineExpires
  BY <1>3, DeadlineIInv
<1>4. CASE Return
  BY <1>4, ReturnIInv
<1>5. CASE UNCHANGED vars
  BY <1>5 DEF vars, IInv, TypeOK, BusyWorkers, OnlyPublished, ProcessedOnce, Processed, Holds,
     PublishedNotLost, StartedNotLost, ErrorsAgree, FirstErrorIsCause, CountedAreStored, Closing
<1>6. QED
  BY <1>1, <1>2, <1>3, <1>4, <1>5 DEF Next

LEMMA SpecIInv == Spec => []IInv
<1> QED
  BY InitIInv, NextIInv, PTL DEF Spec

(***************************************************************************)
(* When every worker has left without an error and the deadline has not    *)
(* struck, the context never ended, so every group was published, and none *)
(* was dropped.                                                            *)
(***************************************************************************)
LEMMA OkMeansAll ==
  ASSUME IInv, jobsClosed, \A w \in Workers : pc[w] = "returned", firstErr = "none"
  PROVE  /\ ctxErr # "deadline" => stored = Groups /\ Processed = Groups
         /\ started \subseteq stored
<1> USE DEF IInv, TypeOK
<1>1. \A w \in Workers, g \in Groups : ~Holds(w, g)
  BY DEF Holds
<1>2. started \subseteq stored
  BY <1>1 DEF StartedNotLost, CountedAreStored
<1>3. ASSUME ctxErr # "deadline" PROVE stored = Groups /\ Processed = Groups
  <2>1. ctxErr = "none"
    BY <1>3 DEF ErrorsAgree, CtxErrs
  <2>2. \A g \in Groups : g < next
    BY <2>1, NumGroupsAssumption DEF Closing, Groups, NumGroupsAssumption
  <2>3. Groups \subseteq Processed
    BY <1>1, <2>1, <2>2 DEF PublishedNotLost
  <2>4. QED
    BY <2>3 DEF CountedAreStored
<1>4. QED
  BY <1>2, <1>3

(* Type correctness.                                                       *)
THEOREM TypeCorrect == Spec => []TypeOK
<1> QED
  BY SpecIInv, PTL DEF IInv

(* No document is in the hands of two workers or counted twice, for any    *)
(* number of documents and workers.                                        *)
THEOREM DocumentsProcessedOnce == Spec => []ProcessedOnce
<1> QED
  BY SpecIInv, PTL DEF IInv

(* The call returns the cause of a failure, not its consequence.           *)
THEOREM FirstErrorKept == Spec => []FirstErrorIsCause
<1> QED
  BY SpecIInv, PTL DEF IInv, ErrorsAgree

(* A call that returns no error, before its deadline, has committed and    *)
(* counted every document.                                                 *)
THEOREM CompleteOnSuccess == Spec => []SuccessIsComplete
<1>1. IInv => SuccessIsComplete
  BY OkMeansAll DEF SuccessIsComplete, IInv, ErrorsAgree, Closing
<1>2. QED
  BY <1>1, SpecIInv, PTL

(* A call that returns no error has committed all it started, deadline or  *)
(* not.                                                                    *)
THEOREM StartedKeptOnSuccess == Spec => []SuccessKeepsStarted
<1>1. IInv => SuccessKeepsStarted
  BY OkMeansAll DEF SuccessKeepsStarted, IInv, ErrorsAgree, Closing
<1>2. QED
  BY <1>1, SpecIInv, PTL

-----------------------------------------------------------------------------
(* The refinement.                                                         *)

(***************************************************************************)
(* Every behaviour of the pool is one of IndexJob: the commits are its     *)
(* Store steps, the deadline its Expire, the return of the call its        *)
(* Succeed or Fail, and everything else is invisible.                      *)
(***************************************************************************)
THEOREM PoolImplementsJob == Spec => ImplementsJob
<1>1. Init => Job!Init
  BY DEF Init, Job!Init
<1>2. ASSUME IInv, IInv', [Next]_vars PROVE [Job!Next]_(Job!vars)
  <2> USE DEF Job!Next, Job!vars
  <2>1. ASSUME NEW w \in Workers, Upsert(w) \/ FailDocument(w) PROVE [Job!Next]_(Job!vars)
    <3>1. outcome = "running" /\ outcome' = "running"
      BY <1>2, <2>1 DEF IInv, Closing, Upsert, FailDocument, Calls
    <3>2. (ctxErr = "deadline")' = (ctxErr = "deadline")
      BY <2>1 DEF Upsert, FailDocument, KeepFirstError
    <3>3. CASE stored' = stored
      BY <3>1, <3>2, <3>3
    <3>4. CASE pc[w] = "upsert" /\ stored' = stored \cup {job[w]}
      <4>1. job[w] \in Groups
        BY <1>2, <3>4 DEF IInv, TypeOK, BusyWorkers, Groups
      <4>2. Job!Store(job[w])
        BY <3>1, <3>2, <3>4 DEF Job!Store
      <4>3. QED
        BY <4>1, <4>2
    <3>5. QED
      BY <2>1, <3>3, <3>4 DEF Upsert, FailDocument
  <2>2. ASSUME NEW w \in Workers, WorkerStep(w) PROVE [Job!Next]_(Job!vars)
    BY <2>1, <2>2 DEF WorkerStep, LeaveLoop, DropJob, StartDocument, Translate, Embed,
       WriteMetrics, SendResult
  <2>3. CASE PublisherStep
    BY <2>3 DEF PublisherStep, Publish, StopPublishing
  <2>4. CASE DeadlineExpires
    BY <2>4 DEF DeadlineExpires, Job!Expire
  <2>5. CASE Return
    <3>1. firstErr = "none" => (ctxErr # "deadline" => stored = Groups)
      BY <1>2, <2>5, OkMeansAll DEF Return
    <3>2. CASE firstErr = "none"
      BY <2>5, <3>1, <3>2 DEF Return, Job!Succeed
    <3>3. CASE firstErr # "none"
      BY <2>5, <3>3 DEF Return, Job!Fail
    <3>4. QED
      BY <3>2, <3>3
  <2>6. CASE UNCHANGED vars
    BY <2>6 DEF vars
  <2>7. QED
    BY <1>2, <2>2, <2>3, <2>4, <2>5, <2>6 DEF Next
<1>3. QED
  BY <1>1, <1>2, SpecIInv, PTL DEF Spec, ImplementsJob, Job!Spec

-----------------------------------------------------------------------------
(* The end of the call: nobody is stuck.                                   *)

\* Workers leave only when there will be no more jobs.
LeftForGood == \A w \in Workers : pc[w] = "returned" => jobsClosed \/ ctxErr # "none"

\* The guards of PublisherStep, of WorkerStep (FailDocument, for a call) and of Return.
PublisherCanGoOn ==
  /\ ~jobsClosed
  /\ next = NumGroups + 1 \/ ctxErr # "none" \/ \E w \in Workers : pc[w] = "receive"
WorkerCanGoOn(w) ==
  \/ pc[w] = "receive" /\ jobsClosed
  \/ pc[w] \in {"received"} \cup Calls
  \/ pc[w] = "send" /\ Len(results) < NumGroups
CallCanReturn == jobsClosed /\ \A w \in Workers : pc[w] = "returned"

NeverStuck ==
  outcome = "running" =>
    PublisherCanGoOn \/ CallCanReturn \/ \E w \in Workers : WorkerCanGoOn(w)

\* The results sent are of as many groups.
LEMMA RoomForResult ==
  ASSUME IInv, NEW w \in Workers, pc[w] = "send"
  PROVE  Len(results) < NumGroups
<1> USE NumGroupsAssumption DEF NumGroupsAssumption, Groups
<1> DEFINE n == Len(results)
           f == [i \in 1..n |-> results[i]]
<1>1. results \in Seq(Groups) /\ n \in Nat
  BY DEF IInv, TypeOK
<1>2. f \in Bijection(1..n, Processed)
  <2>1. f \in [1..n -> Processed]
    BY DEF Processed
  <2>2. \A i, j \in 1..n : f[i] = f[j] => i = j
    BY DEF IInv, ProcessedOnce
  <2>3. \A g \in Processed : \E i \in 1..n : f[i] = g
    BY DEF Processed
  <2> HIDE DEF f, n
  <2>4. QED
    BY <2>1, <2>2, <2>3 DEF Bijection, Injection, Surjection, IsInjective
<1>3. IsFiniteSet(1..n) /\ Cardinality(1..n) = n
  <2> HIDE DEF n
  <2>1. 1 \in Int /\ n \in Int /\ n \in Nat
    BY <1>1
  <2>2. IsFiniteSet(1..n) /\ Cardinality(1..n) = IF 1 > n THEN 0 ELSE n - 1 + 1
    BY ONLY <2>1, FS_Interval
  <2>3. QED
    BY ONLY <2>1, <2>2
<1>4. IsFiniteSet(Processed) /\ Cardinality(Processed) = n
  <2> HIDE DEF f, n
  <2>1. ExistsBijection(1..n, Processed)
    BY <1>2 DEF ExistsBijection
  <2>2. QED
    BY ONLY <1>3, <2>1, FS_Bijection
<1>5. job[w] \in Groups /\ job[w] \notin Processed
  BY DEF IInv, TypeOK, BusyWorkers, ProcessedOnce, Holds
<1>6. Processed \cup {job[w]} \subseteq Groups
  BY <1>1, <1>5 DEF Processed
<1>7. IsFiniteSet(Groups) /\ Cardinality(Groups) = NumGroups
  BY FS_Interval
<1>8. Cardinality(Processed \cup {job[w]}) = n + 1
  BY <1>4, <1>5, FS_AddElement
<1>9. Cardinality(Processed \cup {job[w]}) <= Cardinality(Groups)
  BY <1>6, <1>7, FS_Subset
<1>10. QED
  BY <1>1, <1>7, <1>8, <1>9

LEMMA LeftForGoodStep == ASSUME IInv, LeftForGood, [Next]_vars PROVE LeftForGood'
<1>1. CASE UNCHANGED vars
  BY <1>1 DEF vars, LeftForGood
<1>2. CASE PublisherStep \/ DeadlineExpires \/ Return
  BY <1>2 DEF PublisherStep, Publish, StopPublishing, DeadlineExpires, Return, LeftForGood,
     IInv, TypeOK
<1>3. ASSUME NEW w \in Workers, WorkerStep(w) PROVE LeftForGood'
  <2>1. /\ jobsClosed' = jobsClosed
        /\ ctxErr # "none" => ctxErr' # "none"
        /\ \A v \in Workers : v # w => pc'[v] = pc[v]
    BY <1>3 DEF WorkerStep, LeaveLoop, DropJob, StartDocument, Translate, Embed, Upsert,
       WriteMetrics, FailDocument, KeepFirstError, SendResult, IInv, TypeOK
  <2>2. pc'[w] = "returned" => jobsClosed \/ ctxErr' # "none"
    BY <1>3 DEF WorkerStep, LeaveLoop, DropJob, StartDocument, Translate, Embed, Upsert,
       WriteMetrics, FailDocument, KeepFirstError, SendResult, IInv, TypeOK
  <2>3. QED
    BY <2>1, <2>2 DEF LeftForGood
<1>4. QED
  BY <1>1, <1>2, <1>3 DEF Next

(***************************************************************************)
(* As long as the call has not returned, its goroutine or a worker can go  *)
(* on: a result always finds room in its channel, and the publisher is     *)
(* never left alone with an open channel and a context that has not ended. *)
(***************************************************************************)
THEOREM PoolIsNeverStuck == Spec => []NeverStuck
<1>1. Init => LeftForGood
  BY DEF Init, LeftForGood
<1>2. IInv /\ LeftForGood /\ [Next]_vars => LeftForGood'
  BY LeftForGoodStep
<1>3. IInv /\ LeftForGood => NeverStuck
  <2> SUFFICES ASSUME IInv, LeftForGood, outcome = "running", ~PublisherCanGoOn,
                      \A w \in Workers : ~WorkerCanGoOn(w)
               PROVE  CallCanReturn
    BY DEF NeverStuck
  <2>1. pc \in [Workers -> Stages] /\ 1 \in Workers
    BY NumGroupsAssumption, WorkersAssumption
    DEF IInv, TypeOK, Workers, WorkerCount, NumGroupsAssumption, WorkersAssumption
  <2>2. \A w \in Workers : pc[w] # "send"
    BY RoomForResult DEF WorkerCanGoOn
  <2>3. \A w \in Workers : pc[w] = "returned" \/ (pc[w] = "receive" /\ ~jobsClosed)
    BY <2>1, <2>2 DEF WorkerCanGoOn, Stages
  <2>4. jobsClosed
    BY <2>1, <2>3 DEF PublisherCanGoOn, LeftForGood
  <2>5. QED
    BY <2>3, <2>4 DEF CallCanReturn
<1>4. QED
  BY <1>1, <1>2, <1>3, SpecIInv, PTL DEF Spec

-----------------------------------------------------------------------------
(* The steps that are left: seven for each group, from Publish to          *)
(* SendResult, a departure for each worker, and three for the call.        *)

BusyStages == {"received", "send"} \cup Calls
DoneBefore == [s \in BusyStages |->
                 CASE s = "received"  -> 1
                   [] s = "translate" -> 2
                   [] s = "embed"     -> 3
                   [] s = "upsert"    -> 4
                   [] s = "metrics"   -> 5
                   [] s = "send"      -> 6]

Todo(g, k) ==
  g >= next \/ \E w \in Workers : Holds(w, g) /\ DoneBefore[pc[w]] < k

DocumentSteps == {p \in Groups \X (1..7) : Todo(p[1], p[2])}
Present == {w \in Workers : pc[w] # "returned"}
CallSteps == {e \in {"close", "end of the context", "return"} :
                \/ e = "close" /\ ~jobsClosed
                \/ e = "end of the context" /\ ctxErr = "none"
                \/ e = "return" /\ outcome = "running"}

OneStepLess ==
  /\ DocumentSteps' \subseteq DocumentSteps
  /\ Present' \subseteq Present
  /\ CallSteps' \subseteq CallSteps
  /\ \/ DocumentSteps' # DocumentSteps
     \/ Present' # Present
     \/ CallSteps' # CallSteps

LEMMA DocumentStepsShrink ==
  ASSUME \A g \in Groups, k \in 1..7 : Todo(g, k)' => Todo(g, k),
         \E g \in Groups, k \in 1..7 : Todo(g, k) /\ ~Todo(g, k)'
  PROVE  DocumentSteps' \subseteq DocumentSteps /\ DocumentSteps' # DocumentSteps
<1>1. ASSUME NEW g \in Groups, NEW k \in 1..7
      PROVE  /\ <<g, k>> \in DocumentSteps <=> Todo(g, k)
             /\ <<g, k>> \in DocumentSteps' <=> Todo(g, k)'
  BY DEF DocumentSteps
<1>2. DocumentSteps' \subseteq DocumentSteps
  <2> SUFFICES ASSUME NEW p \in Groups \X (1..7), Todo(p[1], p[2])'
               PROVE  Todo(p[1], p[2])
    BY DEF DocumentSteps
  <2>1. p[1] \in Groups /\ p[2] \in 1..7
    OBVIOUS
  <2>2. QED
    BY <2>1
<1>3. DocumentSteps' # DocumentSteps
  BY <1>1
<1>4. QED
  BY <1>2, <1>3

\* A step of a document, or its end in the hands of its worker.
LEMMA DocumentAdvances ==
  ASSUME IInv, NEW w \in Workers, pc[w] \notin {"receive", "returned"},
         next' = next,
         \A v \in Workers : v # w => pc'[v] = pc[v] /\ job'[v] = job[v],
         \/ pc'[w] \in {"receive", "returned"}
         \/ /\ pc'[w] \in BusyStages
            /\ job'[w] = job[w]
            /\ DoneBefore[pc[w]] < DoneBefore[pc'[w]]
  PROVE  DocumentSteps' \subseteq DocumentSteps /\ DocumentSteps' # DocumentSteps
<1>1. /\ pc[w] \in BusyStages
      /\ job[w] \in Groups /\ job[w] < next /\ Holds(w, job[w])
  BY NumGroupsAssumption
  DEF NumGroupsAssumption, IInv, TypeOK, BusyWorkers, OnlyPublished, Groups, Stages, BusyStages,
      Holds
<1>2. \A s \in BusyStages : DoneBefore[s] \in 1..6
  BY DEF DoneBefore, BusyStages, Calls
<1>3. \A v \in Workers : pc[v] \notin {"receive", "returned"} =>
        pc[v] \in BusyStages
  BY DEF IInv, TypeOK, Stages, BusyStages
<1>4. \A g \in Groups, k \in 1..7 : Todo(g, k)' => Todo(g, k)
  <2> SUFFICES ASSUME NEW g \in Groups, NEW k \in 1..7, ~(g >= next),
                      NEW v \in Workers, Holds(v, g)', DoneBefore[pc'[v]] < k
               PROVE  Holds(v, g) /\ DoneBefore[pc[v]] < k
    BY DEF Todo
  <2>1. CASE v # w
    BY <2>1 DEF Holds
  <2>2. CASE v = w
    <3>1. pc'[w] \notin {"receive", "returned"} /\ job'[w] = g
      BY <2>2 DEF Holds
    <3>2. pc'[w] \in BusyStages /\ job[w] = g
      BY <3>1
    <3>3. DoneBefore[pc[w]] < DoneBefore[pc'[w]] /\ DoneBefore[pc'[w]] < k
      BY <2>2, <3>1
    <3>4. DoneBefore[pc[w]] < k
      BY <1>1, <1>2, <3>2, <3>3
    <3>5. QED
      BY <1>1, <2>2, <3>2, <3>4
  <2>3. QED
    BY <2>1, <2>2
<1>5. \E g \in Groups, k \in 1..7 : Todo(g, k) /\ ~Todo(g, k)'
  <2>1. PICK g \in Groups : g = job[w]
    BY <1>1
  <2>2. PICK k \in 1..7 :
          /\ DoneBefore[pc[w]] < k
          /\ pc'[w] \in {"receive", "returned"} \/ k = DoneBefore[pc'[w]]
    <3>1. CASE pc'[w] \in {"receive", "returned"}
      <4>1. DoneBefore[pc[w]] < 7
        BY <1>1, <1>2
      <4>2. QED
        BY <3>1, <4>1
    <3>2. CASE pc'[w] \notin {"receive", "returned"}
      <4>1. DoneBefore[pc'[w]] \in 1..7 /\ DoneBefore[pc[w]] < DoneBefore[pc'[w]]
        BY <1>2, <3>2
      <4>2. QED
        BY <4>1
    <3>3. QED
      BY <3>1, <3>2
  <2>3. Holds(w, g)
    BY <1>1, <2>1
  <2>4. Todo(g, k)
    BY <2>2, <2>3 DEF Todo
  <2>5. ASSUME NEW v \in Workers, Holds(v, g)', DoneBefore[pc'[v]] < k
        PROVE  FALSE
    <3>1. CASE v = w
      BY <1>2, <2>2, <2>5, <3>1 DEF Holds
    <3>2. CASE v # w
      <4>1. Holds(v, g)
        BY <2>5, <3>2 DEF Holds
      <4>2. QED
        BY <2>3, <3>2, <4>1 DEF IInv, ProcessedOnce
    <3>3. QED
      BY <3>1, <3>2
  <2>6. ~(g >= next')
    BY <1>1, <2>1 DEF IInv, TypeOK, Groups
  <2>7. ~Todo(g, k)'
    BY <2>5, <2>6 DEF Todo
  <2>8. QED
    BY <2>4, <2>7
<1>6. QED
  BY <1>4, <1>5, DocumentStepsShrink

LEMMA WorkerStepIsOneLess ==
  ASSUME IInv, NEW w \in Workers, WorkerStep(w) PROVE OneStepLess
<1> USE DEF IInv, TypeOK
<1>1. /\ next' = next /\ jobsClosed' = jobsClosed /\ outcome' = outcome
      /\ \A v \in Workers : v # w => pc'[v] = pc[v] /\ job'[v] = job[v]
  BY DEF WorkerStep, LeaveLoop, DropJob, StartDocument, Translate, Embed, Upsert,
     WriteMetrics, FailDocument, SendResult
<1>2. ctxErr' = "none" => ctxErr = "none"
  BY DEF WorkerStep, LeaveLoop, DropJob, StartDocument, Translate, Embed, Upsert,
     WriteMetrics, FailDocument, KeepFirstError, SendResult
<1>3. pc[w] # "returned"
  BY DEF WorkerStep, LeaveLoop, DropJob, StartDocument, Translate, Embed, Upsert,
     WriteMetrics, FailDocument, SendResult, Calls
<1>4. Present' \subseteq Present
  BY <1>1, <1>3 DEF Present
<1>5. CallSteps' \subseteq CallSteps
  BY <1>1, <1>2 DEF CallSteps
<1>6. CASE LeaveLoop(w)
  <2>1. Present' # Present
    BY <1>3, <1>6 DEF LeaveLoop, Present
  <2>2. \A v \in Workers, g \in Groups : Holds(v, g)' => Holds(v, g) /\ pc'[v] = pc[v]
    BY <1>6 DEF LeaveLoop, Holds
  <2>3. DocumentSteps' \subseteq DocumentSteps
    BY <1>1, <2>2 DEF DocumentSteps, Todo
  <2>4. QED
    BY <1>4, <1>5, <2>1, <2>3 DEF OneStepLess
<1>7. CASE ~LeaveLoop(w)
  <2>1. pc[w] \notin {"receive", "returned"}
    BY <1>7 DEF WorkerStep, DropJob, StartDocument, Translate, Embed, Upsert,
       WriteMetrics, FailDocument, SendResult, Calls
  <2>2. \/ pc'[w] \in {"receive", "returned"}
        \/ /\ pc'[w] \in BusyStages
           /\ job'[w] = job[w]
           /\ DoneBefore[pc[w]] < DoneBefore[pc'[w]]
    BY <1>7 DEF WorkerStep, DropJob, StartDocument, Translate, Embed, Upsert,
       WriteMetrics, FailDocument, SendResult, Calls, BusyStages, DoneBefore
  <2>3. DocumentSteps' \subseteq DocumentSteps /\ DocumentSteps' # DocumentSteps
    BY <1>1, <2>1, <2>2, DocumentAdvances
  <2>4. QED
    BY <1>4, <1>5, <2>3 DEF OneStepLess
<1>8. QED
  BY <1>6, <1>7

LEMMA PublishIsOneLess ==
  ASSUME IInv, NEW w \in Workers, Publish(w) PROVE OneStepLess
<1> USE DEF IInv, TypeOK, Publish
<1>1. Present' \subseteq Present /\ CallSteps' \subseteq CallSteps
  BY DEF Present, CallSteps
<1>2. \A g \in Groups, k \in 1..7 : Todo(g, k)' => Todo(g, k)
  BY DEF Todo, Holds, Groups
<1>3. PICK g \in Groups : g = next
  OBVIOUS
<1>4. Todo(g, 1)
  BY <1>3 DEF Todo, Groups
<1>5. \A v \in Workers : Holds(v, g)' => v = w
  BY <1>3 DEF Holds, OnlyPublished, Groups
<1>6. DoneBefore[pc'[w]] = 1 /\ ~(g >= next')
  BY <1>3 DEF DoneBefore, BusyStages, Calls, Groups, Stages
<1>7. ~Todo(g, 1)'
  BY <1>5, <1>6 DEF Todo
<1>8. DocumentSteps' \subseteq DocumentSteps /\ DocumentSteps' # DocumentSteps
  BY <1>2, <1>4, <1>7, DocumentStepsShrink
<1>9. QED
  BY <1>1, <1>8 DEF OneStepLess

\* Closing the channel, the deadline and the return are steps of the call.
LEMMA CallStepIsOneLess ==
  ASSUME IInv, StopPublishing \/ DeadlineExpires \/ Return PROVE OneStepLess
<1>1. UNCHANGED <<next, pc, job>>
  BY DEF StopPublishing, DeadlineExpires, Return
<1>2. DocumentSteps' = DocumentSteps /\ Present' = Present
  BY <1>1 DEF DocumentSteps, Todo, Holds, Present
<1>3. CallSteps' \subseteq CallSteps /\ CallSteps' # CallSteps
  <2>1. CASE StopPublishing
    <3>1. ~jobsClosed /\ jobsClosed' /\ UNCHANGED <<ctxErr, outcome>>
      BY <2>1 DEF StopPublishing
    <3>2. "close" \in CallSteps /\ "close" \notin CallSteps'
      BY <3>1 DEF CallSteps
    <3>3. QED
      BY <3>1, <3>2 DEF CallSteps
  <2>2. CASE DeadlineExpires
    <3>1. ctxErr = "none" /\ ctxErr' # "none" /\ UNCHANGED <<jobsClosed, outcome>>
      BY <2>2 DEF DeadlineExpires
    <3>2. "end of the context" \in CallSteps /\ "end of the context" \notin CallSteps'
      BY <3>1 DEF CallSteps
    <3>3. QED
      BY <3>1, <3>2 DEF CallSteps
  <2>3. CASE Return
    <3>1. outcome = "running" /\ outcome' # "running" /\ UNCHANGED <<jobsClosed, ctxErr>>
      BY <2>3 DEF Return
    <3>2. "return" \in CallSteps /\ "return" \notin CallSteps'
      BY <3>1 DEF CallSteps
    <3>3. QED
      BY <3>1, <3>2 DEF CallSteps
  <2>4. QED
    BY <2>1, <2>2, <2>3
<1>4. QED
  BY <1>2, <1>3 DEF OneStepLess

(***************************************************************************)
(* Every step of the pool uses up a step that was left, whatever fails and *)
(* whenever the context ends: no worker goes round without doing anything, *)
(* and no document goes back to an earlier stage.                          *)
(***************************************************************************)
THEOREM EveryStepIsOneLess == Spec => [][OneStepLess]_vars
<1>1. IInv /\ [Next]_vars => [OneStepLess]_vars
  BY WorkerStepIsOneLess, PublishIsOneLess, CallStepIsOneLess DEF Next, PublisherStep
<1>2. QED
  BY <1>1, SpecIInv, PTL DEF Spec

-----------------------------------------------------------------------------
(* How long a call takes.                                                  *)

MostSteps == 7 * NumGroups + WorkerCount + 3

\* How many steps can be left, in any state.
LEMMA StepsLeftAreBounded ==
  /\ IsFiniteSet(DocumentSteps) /\ Cardinality(DocumentSteps) <= 7 * NumGroups
  /\ IsFiniteSet(Present) /\ Cardinality(Present) <= WorkerCount
  /\ IsFiniteSet(CallSteps) /\ Cardinality(CallSteps) <= 3
<1> USE NumGroupsAssumption, WorkersAssumption DEF NumGroupsAssumption, WorkersAssumption
<1>1. NumGroups \in Int /\ WorkerCount \in Int /\ WorkerCount >= 1 /\ 1 \in Int /\ 7 \in Int
  BY DEF WorkerCount
<1>2. /\ IsFiniteSet(Groups) /\ Cardinality(Groups) = NumGroups
      /\ IsFiniteSet(Workers) /\ Cardinality(Workers) = WorkerCount
      /\ IsFiniteSet(1..7) /\ Cardinality(1..7) = 7
  <2>1. \A n \in Int : n >= 1 => IsFiniteSet(1..n) /\ Cardinality(1..n) = n
    <3> TAKE n \in Int
    <3>1. 1 \in Int
      OBVIOUS
    <3>2. IsFiniteSet(1..n) /\ Cardinality(1..n) = IF 1 > n THEN 0 ELSE n - 1 + 1
      BY ONLY <3>1, n \in Int, FS_Interval
    <3>3. QED
      BY ONLY <3>1, n \in Int, <3>2
  <2>2. IsFiniteSet(Groups) /\ Cardinality(Groups) = NumGroups
    BY <2>1 DEF Groups
  <2>3. IsFiniteSet(Workers) /\ Cardinality(Workers) = WorkerCount
    <3> HIDE DEF WorkerCount
    <3>1. QED
      BY <1>1, <2>1 DEF Workers
  <2>4. IsFiniteSet(1..7) /\ Cardinality(1..7) = 7
    <3>1. 1 \in Int /\ 7 \in Int
      OBVIOUS
    <3>2. IsFiniteSet(1..7) /\ Cardinality(1..7) = IF 1 > 7 THEN 0 ELSE 7 - 1 + 1
      BY ONLY <3>1, FS_Interval, Zenon
    <3>3. QED
      BY ONLY <3>2
  <2>5. QED
    BY <2>2, <2>3, <2>4
<1>3. /\ IsFiniteSet(Groups \X (1..7))
      /\ Cardinality(Groups \X (1..7)) = NumGroups * 7
  BY <1>2, FS_Product
<1>4. IsFiniteSet(DocumentSteps) /\ Cardinality(DocumentSteps) <= NumGroups * 7
  BY <1>3, FS_Subset DEF DocumentSteps
<1>5. IsFiniteSet(Present) /\ Cardinality(Present) <= WorkerCount
  BY <1>2, FS_Subset DEF Present
<1>6. /\ IsFiniteSet({"close", "end of the context", "return"})
      /\ Cardinality({"close", "end of the context", "return"}) = 3
  <2> DEFINE A == {} \cup {"close"}
             B == A \cup {"end of the context"}
             C == B \cup {"return"}
  <2>1. IsFiniteSet(A) /\ Cardinality(A) = 1
    <3>1. IsFiniteSet({}) /\ Cardinality({}) = 0
      BY FS_EmptySet
    <3>2. QED
      BY <3>1, FS_AddElement
  <2>2. "end of the context" \notin A
    OBVIOUS
  <2>3. "return" \notin B
    OBVIOUS
  <2>4. C = {"close", "end of the context", "return"}
    OBVIOUS
  <2> HIDE DEF A
  <2>5. IsFiniteSet(B) /\ Cardinality(B) = 2
    <3>1. IsFiniteSet(B) /\ Cardinality(B) = Cardinality(A) + 1
      BY ONLY <2>1, <2>2, FS_AddElement
    <3> HIDE DEF B
    <3>2. QED
      BY <2>1, <3>1
  <2> HIDE DEF B
  <2>6. IsFiniteSet(C) /\ Cardinality(C) = 3
    BY <2>3, <2>5, FS_AddElement
  <2>7. QED
    BY <2>4, <2>6
<1>7. CallSteps \subseteq {"close", "end of the context", "return"}
  BY DEF CallSteps
<1>8. IsFiniteSet(CallSteps) /\ Cardinality(CallSteps) <= 3
  BY <1>6, <1>7, FS_Subset
<1>9. QED
  BY <1>1, <1>4, <1>5, <1>8

VARIABLE taken  \* history: how many steps the pool has taken

countedVars == <<vars, taken>>
CountedInit == Init /\ taken = 0
CountedNext == Next /\ taken' = taken + 1
CountedSpec == CountedInit /\ [][CountedNext]_countedVars

StepsLeft == Cardinality(DocumentSteps) + Cardinality(Present) + Cardinality(CallSteps)

CallIsShort == taken <= MostSteps

\* The steps taken and the steps left.
CountedInv == /\ IInv
              /\ taken \in Nat
              /\ taken + StepsLeft <= MostSteps

LEMMA SmallerSet ==
  ASSUME NEW S, NEW T, IsFiniteSet(S), T \subseteq S
  PROVE  /\ IsFiniteSet(T)
         /\ Cardinality(T) \in Nat /\ Cardinality(S) \in Nat
         /\ Cardinality(T) <= Cardinality(S)
         /\ T # S => Cardinality(T) < Cardinality(S)
<1>1. /\ IsFiniteSet(T) /\ Cardinality(T) <= Cardinality(S)
      /\ Cardinality(S) = Cardinality(T) => S = T
  BY FS_Subset
<1>2. Cardinality(T) \in Nat /\ Cardinality(S) \in Nat
  BY <1>1, FS_CardinalityType
<1>3. QED
  BY <1>1, <1>2

\* A step leaves fewer than there were.
LEMMA OneStepLessCounts ==
  ASSUME OneStepLess
  PROVE  StepsLeft \in Nat /\ StepsLeft' \in Nat /\ StepsLeft' + 1 <= StepsLeft
<1>1. /\ Cardinality(DocumentSteps) \in Nat /\ Cardinality(DocumentSteps') \in Nat
      /\ Cardinality(DocumentSteps') <= Cardinality(DocumentSteps)
      /\ DocumentSteps' # DocumentSteps => Cardinality(DocumentSteps') < Cardinality(DocumentSteps)
  BY StepsLeftAreBounded, SmallerSet DEF OneStepLess
<1>2. /\ Cardinality(Present) \in Nat /\ Cardinality(Present') \in Nat
      /\ Cardinality(Present') <= Cardinality(Present)
      /\ Present' # Present => Cardinality(Present') < Cardinality(Present)
  BY StepsLeftAreBounded, SmallerSet DEF OneStepLess
<1>3. /\ Cardinality(CallSteps) \in Nat /\ Cardinality(CallSteps') \in Nat
      /\ Cardinality(CallSteps') <= Cardinality(CallSteps)
      /\ CallSteps' # CallSteps => Cardinality(CallSteps') < Cardinality(CallSteps)
  BY StepsLeftAreBounded, SmallerSet DEF OneStepLess
<1>4. StepsLeft' = Cardinality(DocumentSteps') + Cardinality(Present') + Cardinality(CallSteps')
  BY DEF StepsLeft
<1>5. DocumentSteps' # DocumentSteps \/ Present' # Present \/ CallSteps' # CallSteps
  BY DEF OneStepLess
<1>6. QED
  BY <1>1, <1>2, <1>3, <1>4, <1>5 DEF StepsLeft

(***************************************************************************)
(* processDocumentGroups takes no more than seven steps for each document, *)
(* one for each worker, and three of its own, in whatever order they come, *)
(* whatever fails and whenever the context ends (main.go:264-345).         *)
(***************************************************************************)
THEOREM CallsAreShort == CountedSpec => []CallIsShort
<1>1. CountedInit => CountedInv
  <2> SUFFICES ASSUME CountedInit PROVE CountedInv
    OBVIOUS
  <2>1. NumGroups \in Nat /\ WorkerCount \in Nat
    BY NumGroupsAssumption, WorkersAssumption
    DEF NumGroupsAssumption, WorkersAssumption, WorkerCount
  <2>2. /\ Cardinality(DocumentSteps) \in Nat /\ Cardinality(DocumentSteps) <= 7 * NumGroups
        /\ Cardinality(Present) \in Nat /\ Cardinality(Present) <= WorkerCount
        /\ Cardinality(CallSteps) \in Nat /\ Cardinality(CallSteps) <= 3
    BY StepsLeftAreBounded, FS_CardinalityType
  <2>3. IInv /\ taken = 0
    BY InitIInv DEF CountedInit
  <2>4. QED
    BY <2>1, <2>2, <2>3 DEF CountedInv, StepsLeft, MostSteps
<1>2. CountedInv /\ [CountedNext]_countedVars => CountedInv'
  <2> SUFFICES ASSUME CountedInv, [CountedNext]_countedVars PROVE CountedInv'
    OBVIOUS
  <2>1. [Next]_vars
    BY DEF CountedNext, countedVars
  <2>2. IInv'
    BY <2>1, NextIInv DEF CountedInv
  <2>3. CASE UNCHANGED countedVars
    <3>1. UNCHANGED <<next, jobsClosed, pc, job, ctxErr, outcome, taken>>
      BY <2>3 DEF countedVars, vars
    <3>2. StepsLeft' = StepsLeft
      BY <3>1 DEF StepsLeft, DocumentSteps, Todo, Holds, Present, CallSteps
    <3>3. QED
      BY <2>2, <3>1, <3>2 DEF CountedInv, MostSteps
  <2>4. CASE CountedNext
    <3>1. OneStepLess /\ taken' = taken + 1
      BY <2>4, WorkerStepIsOneLess, PublishIsOneLess, CallStepIsOneLess
      DEF CountedNext, CountedInv, Next, PublisherStep
    <3>2. StepsLeft \in Nat /\ StepsLeft' \in Nat /\ StepsLeft' + 1 <= StepsLeft
      BY <3>1, OneStepLessCounts
    <3>3. MostSteps' = MostSteps /\ MostSteps \in Nat
      BY NumGroupsAssumption, WorkersAssumption
      DEF NumGroupsAssumption, WorkersAssumption, WorkerCount, MostSteps
    <3>4. taken \in Nat /\ taken + StepsLeft <= MostSteps
      BY DEF CountedInv
    <3>5. taken' \in Nat /\ taken' + StepsLeft' <= MostSteps
      <4>1. taken' = taken + 1
        BY <3>1
      <4>2. MostSteps \in Nat
        BY <3>3
      <4>3. \A t, a, b, m \in Nat : t + a <= m /\ b + 1 <= a => t + 1 \in Nat /\ t + 1 + b <= m
        OBVIOUS
      <4>4. taken + 1 \in Nat /\ taken + 1 + StepsLeft' <= MostSteps
        BY ONLY <3>2, <3>4, <4>2, <4>3
      <4>5. QED
        BY ONLY <4>1, <4>4
    <3>6. QED
      BY <2>2, <3>3, <3>5 DEF CountedInv
  <2>5. QED
    BY <2>3, <2>4
<1>3. CountedInv => CallIsShort
  <2> SUFFICES ASSUME CountedInv PROVE CallIsShort
    OBVIOUS
  <2>1. StepsLeft \in Nat
    BY StepsLeftAreBounded, FS_CardinalityType DEF StepsLeft
  <2>2. MostSteps \in Nat
    BY NumGroupsAssumption, WorkersAssumption
    DEF NumGroupsAssumption, WorkersAssumption, WorkerCount, MostSteps
  <2>3. QED
    BY <2>1, <2>2 DEF CountedInv, CallIsShort
<1>4. QED
  BY <1>1, <1>2, <1>3, PTL DEF CountedSpec
=============================================================================
