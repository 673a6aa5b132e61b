------------------------- MODULE UsageMetricsProofs -------------------------
(***************************************************************************)
(* Proofs about UsageMetrics, for any documents, number of languages and   *)
(* number of retries.                                                      *)
(*                                                                         *)
(* The invariant follows the calls of each document: what is emitted       *)
(* belongs to the call that is made; the languages whose two calls are     *)
(* behind have succeeded; and the collector is behind the answers and the  *)
(* events by the one call that is being recorded, if any.                  *)
(*                                                                         *)
(* The aggregates are sums over the documents.  Total is shown to be what  *)
(* its recursive definition says, by induction over sets of numbers        *)
(* (AllNumbers), and one event more to raise it by one; an open            *)
(* transaction that has written its row is alone on it, and ahead of what  *)
(* is committed by the event of its document (TxnAgrees).                  *)
(***************************************************************************)
EXTENDS UsageMetrics, FiniteSetTheorems, WellFoundedInduction, TLAPS

Emitting == {"record", "commit", "collect"}

\* The event is that of the call.
EventAgrees(d) ==
  pc[d] \in Emitting => /\ event[d].operation = Operation(call[d])
                        /\ event[d].target = Target(call[d])

\* The languages whose title and content are behind have succeeded; at the end all have.
WorkSoFar(d) ==
  /\ pc[d] \in {"idle", "call"} \cup Emitting =>
       \A t \in Targets : 2 * t - 1 < call[d] => t \in collector[d].succeeded
  /\ pc[d] \in {"store", "metrics"} => Targets \subseteq collector[d].succeeded
  /\ collector[d].succeeded \subseteq collector[d].attempted

\* The answer that the collector has not counted yet.
Pending(d) == IF /\ pc[d] \in Emitting
                 /\ event[d].operation = "translation"
                 /\ event[d].outcome # "failed"
              THEN 1 ELSE 0

AnswersCounted(d) ==
  pc[d] # "dead" => answered[d] = collector[d].tokens + Pending(d)

\* An event is ahead of the collector only between its commit and Collect.
Ahead(d, operation) == IF /\ pc[d] = "collect"
                          /\ event[d].operation = operation
                          /\ event[d].outcome # "failed"
                       THEN 1 ELSE 0

EventsCounted(d) ==
  pc[d] # "dead" =>
    /\ events[d]["translation"]["success"] <= collector[d].tokens + Ahead(d, "translation")
    /\ events[d]["embedding"]["success"] <= collector[d].embeddings + Ahead(d, "embedding")

\* A row is written when nothing more can change.
RowAgrees(d) ==
  metrics[d] # NoRow =>
    /\ pc[d] \in Ended
    /\ metrics[d].tokens = answered[d]
    /\ events[d]["embedding"]["success"] <= metrics[d].embeddings
    /\ events[d]["translation"]["success"] <= metrics[d].tokens
    /\ metrics[d].attempted = Targets /\ metrics[d].succeeded = Targets

DocInv(d) == /\ EventAgrees(d)
             /\ WorkSoFar(d)
             /\ AnswersCounted(d)
             /\ EventsCounted(d)
             /\ RowAgrees(d)

IInv == TypeOK /\ \A d \in Documents : DocInv(d)

-----------------------------------------------------------------------------
(* The calls of a document.                                                *)

\* A translation is of one of the languages.
LEMMA TargetOfCall ==
  ASSUME NEW c \in 1..NumCalls, Operation(c) = "translation"
  PROVE  /\ Target(c) \in Targets
         /\ \A t \in Targets : 2 * t - 1 < c + 1 => t = Target(c) \/ 2 * t - 1 < c
         /\ c < NumCalls
<1>1. c < NumCalls
  BY DEF Operation
<1>2. c \in Nat /\ c >= 1 /\ c <= 2 * NumTargets
  BY <1>1, UsageAssumption DEF UsageAssumption, NumCalls
<1> DEFINE t0 == (c + 1) \div 2
<1>3. t0 \in Int /\ 2 * t0 <= c + 1 /\ c + 1 < 2 * t0 + 2
  BY <1>2
<1>4. t0 \in 1..NumTargets
  BY <1>2, <1>3, UsageAssumption DEF UsageAssumption
<1>5. ASSUME NEW t \in Targets, 2 * t - 1 < c + 1 PROVE t = t0 \/ 2 * t - 1 < c
  BY <1>2, <1>3, <1>5, UsageAssumption DEF UsageAssumption, Targets
<1> QED
  BY <1>1, <1>4, <1>5 DEF Target, Targets

\* The call of the embedding is the last, with every language behind it.
LEMMA LastCall ==
  ASSUME NEW c \in 1..NumCalls, Operation(c) # "translation"
  PROVE  c = NumCalls /\ \A t \in Targets : 2 * t - 1 < c
BY UsageAssumption DEF UsageAssumption, Operation, NumCalls, Targets

\* The target of any call, the embedding's among them.
LEMMA TargetInRange ==
  ASSUME NEW c \in 1..NumCalls
  PROVE  /\ Target(c) \in Targets \cup {NumTargets + 1}
         /\ Operation(c) \in Operations
<1>1. CASE Operation(c) = "translation"
  BY <1>1, TargetOfCall DEF Operations
<1>2. CASE Operation(c) # "translation"
  <2>1. c = 2 * NumTargets + 1
    BY <1>2, LastCall DEF NumCalls
  <2>2. (2 * NumTargets + 1 + 1) \div 2 = NumTargets + 1
    BY UsageAssumption DEF UsageAssumption
  <2> QED
    BY <1>2, <2>1, <2>2 DEF Target, Operation, Operations
<1> QED
  BY <1>1, <1>2

-----------------------------------------------------------------------------
(* The initial state.                                                      *)

LEMMA InitIInv == Init => IInv
<1> SUFFICES ASSUME Init PROVE IInv
  OBVIOUS
<1> USE DEF Init
<1>1. TypeOK
  <2>1. 1 \in 1..NumCalls
    BY UsageAssumption DEF UsageAssumption, NumCalls
  <2>2. NoCount \in Count
    BY DEF NoCount, Count
  <2>3. NoUsage \in Usage
    BY DEF NoUsage, Usage
  <2>4. 0 \in 0..MaxRetries /\ 0 \in 0..MaxLost
    BY UsageAssumption DEF UsageAssumption
  <2> QED
    BY <2>1, <2>2, <2>3, <2>4 DEF TypeOK, Recording
<1>2. ASSUME NEW d \in Documents PROVE DocInv(d)
  <2>1. EventAgrees(d)
    BY DEF EventAgrees, Emitting
  <2>2. WorkSoFar(d)
    BY DEF WorkSoFar, Emitting, NoUsage, Targets
  <2>3. AnswersCounted(d)
    BY DEF AnswersCounted, Pending, Emitting, NoUsage
  <2>4. EventsCounted(d)
    BY DEF EventsCounted, Ahead, NoCount, NoUsage, Operations, Statuses
  <2>5. RowAgrees(d)
    BY DEF RowAgrees
  <2> QED
    BY <2>1, <2>2, <2>3, <2>4, <2>5 DEF DocInv
<1> QED
  BY <1>1, <1>2 DEF IInv

-----------------------------------------------------------------------------
(* Types.                                                                  *)

LEMMA NextCallTypes ==
  ASSUME TypeOK, NEW d \in Documents, pc[d] = "collect", ReturnFromCall(d)
  PROVE  /\ pc' \in [Documents -> {"idle"} \cup Busy \cup Ended]
         /\ pc'[d] \in {"call", "store", "failed"}
         /\ \A e \in Documents \ {d} : pc'[e] = pc[e] /\ event'[e] = event[e]
         /\ call' \in [Documents -> 1..NumCalls]
         /\ attempt' \in [Documents -> 0..MaxRetries]
         /\ event' \in [Documents -> Event \cup {NoEvent}]
         /\ ctxEnded' \in BOOLEAN
<1> USE DEF TypeOK, Goto
<1>0. 1 \in 1..NumCalls /\ 0 \in 0..MaxRetries /\ NumCalls \in Nat
  BY UsageAssumption DEF UsageAssumption, NumCalls
<1>1. CASE NextCall(d)
  <2>1. CASE call[d] < NumCalls
    <3>1. call[d] + 1 \in 1..NumCalls
      BY <1>0, <2>1
    <3>2. /\ call' = [call EXCEPT ![d] = call[d] + 1]
          /\ pc' = [pc EXCEPT ![d] = "call"]
          /\ event' = [event EXCEPT ![d] = NoEvent]
          /\ attempt' = [attempt EXCEPT ![d] = 0]
          /\ ctxEnded' = ctxEnded
      BY <1>1, <2>1 DEF NextCall
    <3> QED
      BY <1>0, <3>1, <3>2 DEF Busy
  <2>2. CASE ~(call[d] < NumCalls)
    BY <1>0, <1>1, <2>2 DEF NextCall, Busy
  <2> QED
    BY <2>1, <2>2
<1>2. CASE Retryable(d) /\ TryAgain(d)
  <2>1. attempt[d] + 1 \in 0..MaxRetries
    BY <1>2, UsageAssumption DEF UsageAssumption, Retryable
  <2> QED
    BY <1>2, <2>1 DEF TryAgain, Busy
<1>3. CASE FailDocument(d)
  BY <1>0, <1>3 DEF FailDocument, Leave, Ended
<1> QED
  BY <1>1, <1>2, <1>3 DEF ReturnFromCall

LEMMA CountedType ==
  ASSUME NEW u \in Usage, NEW e \in Event,
         e.operation = "translation" => e.target \in Targets
  PROVE  Counted(u, e) \in Usage
<1>1. CASE e.operation = "embedding"
  <2>1. PICK n \in Nat : Counted(u, e) = [u EXCEPT !.embeddings = n]
    <3>1. u.embeddings + 1 \in Nat
      BY DEF Usage
    <3> QED
      BY <1>1, <3>1 DEF Counted
  <2> QED
    BY <2>1 DEF Usage
<1>2. CASE e.operation # "embedding"
  <2>1. e.target \in Targets
    BY <1>2 DEF Event, Operations
  <2>2. PICK n \in Nat, A \in SUBSET Targets, S \in SUBSET Targets :
          Counted(u, e) = [u EXCEPT !.tokens = n, !.attempted = A, !.succeeded = S]
    <3>1. u.tokens \in Nat /\ u.attempted \subseteq Targets /\ u.succeeded \subseteq Targets
      BY DEF Usage
    <3>2. /\ (IF e.outcome = "failed" THEN u.tokens ELSE u.tokens + 1) \in Nat
          /\ u.attempted \cup {e.target} \in SUBSET Targets
          /\ (IF e.outcome = "success" THEN u.succeeded \cup {e.target} ELSE u.succeeded)
               \in SUBSET Targets
      BY <2>1, <3>1
    <3> QED
      BY <1>2, <3>2 DEF Counted
  <2> QED
    BY <2>2 DEF Usage
<1> QED
  BY <1>1, <1>2

LEMMA IncrementType ==
  ASSUME NEW count \in Count, NEW d
  PROVE  Increment(count, d) \in Count
BY DEF Increment, Count, Status, Statuses

LEMMA TypeStep ==
  ASSUME TypeOK, \A d \in Documents : EventAgrees(d), [Next]_vars
  PROVE  TypeOK'
<1> USE DEF TypeOK, Goto
<1>0. /\ 1 \in 1..NumCalls /\ 0 \in 0..MaxRetries /\ lost \in Nat
      /\ "translation" \in Operations /\ "embedding" \in Operations
      /\ \A k \in Operations : k # NoTxn.key
  BY UsageAssumption DEF UsageAssumption, NumCalls, Operations, NoTxn
<1>1. ASSUME NEW d \in Documents, Start(d) PROVE TypeOK'
  BY <1>1 DEF Start, work, tables, counts, Busy, Recording
<1>2. ASSUME NEW d \in Documents, NEW outcomes, outcomes \subseteq Outcomes,
             Emit(d, outcomes)
      PROVE  TypeOK'
  <2>1. PICK outcome \in Outcomes :
          /\ event' = [event EXCEPT ![d] =
               [operation |-> Operation(call[d]), target |-> Target(call[d]),
                outcome |-> outcome]]
          /\ \/ answered' = [answered EXCEPT ![d] = @ + 1]
             \/ answered' = answered
    <3>1. (IF ctxEnded THEN {"failed"} ELSE outcomes) \subseteq Outcomes
      BY <1>2 DEF Outcomes
    <3> QED
      BY <1>2, <3>1 DEF Emit
  <2>2. [operation |-> Operation(call[d]), target |-> Target(call[d]),
         outcome |-> outcome] \in Event
    BY TargetInRange DEF Event
  <2>3. \A e \in Event : e # NoEvent
    BY DEF Event, NoEvent, Operations
  <2> QED
    BY <1>2, <2>1, <2>2, <2>3 DEF Emit, tables, Busy, Recording
<1>3. ASSUME NEW d \in Documents, EmbedSilently(d) PROVE TypeOK'
  BY <1>3 DEF EmbedSilently, tables, counts, Busy, Recording
<1>4. ASSUME NEW d \in Documents, UpsertDaily(d) PROVE TypeOK'
  <2>1. event[d] \in Event /\ Key(d) \in Operations
    BY <1>4 DEF UpsertDaily, Key, Event, Recording
  <2>2. Increment(agg[Key(d)], d) \in Count
    BY <2>1, IncrementType
  <2>3. [key |-> Key(d), count |-> Increment(agg[Key(d)], d)]
          \in [key : Operations, count : Count] \ {NoTxn}
    BY <1>0, <2>1, <2>2
  <2> QED
    BY <1>4, <2>1, <2>3 DEF UpsertDaily, tables, counts, Busy, Recording
<1>5. ASSUME NEW d \in Documents, pc[d] = "commit", Committed(d)
      PROVE  /\ agg' \in [Operations -> Count]
             /\ events' \in [Documents -> [Operations -> Count]]
             /\ metrics' = metrics
  <2>1. event[d] \in Event /\ Key(d) \in Operations
    BY <1>5 DEF Key, Event, Recording
  <2>2. txn[d].count \in Count
    BY <1>5
  <2>3. Increment(events[d][Key(d)], d) \in Count
    BY <2>1, IncrementType
  <2> QED
    BY <1>5, <2>1, <2>2, <2>3 DEF Committed
<1>6. ASSUME NEW d \in Documents, CommitEvent(d) PROVE TypeOK'
  BY <1>5, <1>6 DEF CommitEvent, CloseTxn, counts, Busy, Recording
<1>7. ASSUME NEW d \in Documents, RecordFails(d) PROVE TypeOK'
  <2>1. lost' \in 0..MaxLost
    BY <1>0, <1>7, UsageAssumption DEF UsageAssumption, RecordFails, MayFail
  <2>2. /\ agg' \in [Operations -> Count]
        /\ events' \in [Documents -> [Operations -> Count]]
        /\ metrics' = metrics
    BY <1>5, <1>7 DEF RecordFails, tables
  <2> QED
    BY <1>7, <2>1, <2>2 DEF RecordFails, CloseTxn, Busy, Recording
<1>8. ASSUME NEW d \in Documents, Collect(d) PROVE TypeOK'
  <2>1. event[d] \in Event /\ pc[d] = "collect"
    BY <1>8 DEF Collect
  <2>2. event[d].operation = "translation" => event[d].target \in Targets
    BY <2>1, TargetOfCall DEF EventAgrees, Emitting
  <2>3. collector' \in [Documents -> Usage]
    BY <1>8, <2>1, <2>2, CountedType DEF Collect
  <2> QED
    BY <1>8, <2>1, <2>3, NextCallTypes DEF Collect, tables, Busy, Recording, Ended
<1>9. ASSUME NEW d \in Documents, StoreChunks(d) PROVE TypeOK'
  BY <1>9 DEF StoreChunks, tables, counts, Busy, Recording
<1>10. ASSUME NEW d \in Documents, WriteMetrics(d) PROVE TypeOK'
  BY <1>0, <1>10 DEF WriteMetrics, SaveRow, Leave, counts, Ended, Recording
<1>11. ASSUME NEW d \in Documents, StoreFails(d) PROVE TypeOK'
  <2>1. metrics' \in [Documents -> Usage \cup {NoRow}] /\ UNCHANGED <<events, agg>>
    BY <1>11 DEF StoreFails, SaveRow, tables
  <2> QED
    BY <1>0, <1>11, <2>1 DEF StoreFails, FailDocument, Leave, counts, Ended, Recording
<1>12. ASSUME DeadlineExpires PROVE TypeOK'
  BY <1>12 DEF DeadlineExpires, work, tables, counts
<1>13. ASSUME Crash PROVE TypeOK'
  <2>1. NoUsage \in Usage
    BY DEF NoUsage, Usage
  <2> QED
    BY <1>0, <1>13, <2>1 DEF Crash, tables, Ended, Recording
<1>14. ASSUME UNCHANGED vars PROVE TypeOK'
  BY <1>14 DEF vars, work, tables, counts
<1>15. {"success", "failed"} \subseteq Outcomes
  BY DEF Outcomes
<1> QED
  BY <1>1, <1>2, <1>3, <1>4, <1>6, <1>7, <1>8, <1>9, <1>10, <1>11, <1>12, <1>13,
     <1>14, <1>15
  DEF Next, Works, Fails, TranslateOnce, EmbedTexts

-----------------------------------------------------------------------------
(* The steps.                                                              *)

\* What the invariant says of a document depends on this only.
Same(d) == /\ pc'[d] = pc[d] /\ call'[d] = call[d] /\ event'[d] = event[d]
           /\ collector'[d] = collector[d] /\ answered'[d] = answered[d]
           /\ events'[d] = events[d] /\ metrics'[d] = metrics[d]

LEMMA Frame ==
  ASSUME NEW d \in Documents, DocInv(d), Same(d)
  PROVE  DocInv(d)'
BY DEF DocInv, Same, EventAgrees, WorkSoFar, AnswersCounted, Pending, EventsCounted,
       Ahead, RowAgrees

\* What Counted does to each field.
LEMMA CountedFields ==
  ASSUME NEW u \in Usage, NEW e \in Event
  PROVE  /\ Counted(u, e).embeddings =
              IF e.operation = "embedding" THEN u.embeddings + 1 ELSE u.embeddings
         /\ Counted(u, e).tokens =
              IF e.operation = "translation" /\ e.outcome # "failed"
              THEN u.tokens + 1 ELSE u.tokens
         /\ Counted(u, e).attempted =
              IF e.operation = "translation" THEN u.attempted \cup {e.target}
              ELSE u.attempted
         /\ Counted(u, e).succeeded =
              IF e.operation = "translation" /\ e.outcome = "success"
              THEN u.succeeded \cup {e.target} ELSE u.succeeded
<1>1. CASE e.operation = "embedding"
  BY <1>1 DEF Counted, Usage
<1>2. CASE e.operation = "translation"
  BY <1>2 DEF Counted, Usage
<1> QED
  BY <1>1, <1>2 DEF Event, Operations

\* A call ends: the answer is pending.
LEMMA EmitStep ==
  ASSUME TypeOK, NEW d \in Documents, DocInv(d), NEW outcomes, Emit(d, outcomes)
  PROVE  DocInv(d)'
<1> USE DEF TypeOK, Goto
<1>1. PICK outcome :
        /\ event'[d] = [operation |-> Operation(call[d]), target |-> Target(call[d]),
                        outcome |-> outcome]
        /\ answered'[d] = IF Operation(call[d]) = "translation" /\ outcome # "failed"
                          THEN answered[d] + 1 ELSE answered[d]
  BY DEF Emit
<1>2. /\ pc[d] = "call" /\ pc'[d] = "record" /\ call'[d] = call[d]
      /\ collector'[d] = collector[d] /\ events'[d] = events[d] /\ metrics'[d] = metrics[d]
  BY DEF Emit, tables
<1>3. collector[d].tokens \in Nat /\ collector[d].embeddings \in Nat
  BY DEF Usage
<1>4. EventAgrees(d)'
  BY <1>1, <1>2 DEF EventAgrees
<1>5. WorkSoFar(d)'
  BY <1>2 DEF DocInv, WorkSoFar, Emitting
<1>6. AnswersCounted(d)'
  BY <1>1, <1>2, <1>3 DEF DocInv, AnswersCounted, Pending, Emitting
<1>7. EventsCounted(d)'
  BY <1>2, <1>3 DEF DocInv, EventsCounted, Ahead
<1>8. RowAgrees(d)'
  BY <1>2 DEF DocInv, RowAgrees, Ended
<1> QED
  BY <1>4, <1>5, <1>6, <1>7, <1>8 DEF DocInv

\* The event is recorded, or is lost: the collector is at most one behind.
LEMMA RecordStep ==
  ASSUME TypeOK, NEW d \in Documents, DocInv(d), pc[d] \in Recording,
         pc'[d] \in {"commit", "collect"},
         call'[d] = call[d], event'[d] = event[d],
         collector'[d] = collector[d], answered'[d] = answered[d],
         metrics'[d] = metrics[d],
         \/ events'[d] = events[d]
         \/ /\ pc'[d] = "collect"
            /\ events'[d] = [events[d] EXCEPT ![Key(d)] = Increment(@, d)]
  PROVE  DocInv(d)'
<1> USE DEF TypeOK
<1>1. event[d] \in Event /\ Key(d) \in Operations
  BY DEF Key, Event
<1>2. collector[d].tokens \in Nat /\ collector[d].embeddings \in Nat
  BY DEF Usage
<1>3. EventAgrees(d)'
  BY DEF DocInv, EventAgrees, Recording, Emitting
<1>4. WorkSoFar(d)'
  BY DEF DocInv, WorkSoFar, Recording, Emitting
<1>5. AnswersCounted(d)'
  BY DEF DocInv, AnswersCounted, Pending, Recording, Emitting
<1>6. EventsCounted(d)'
  <2>1. /\ events[d]["translation"]["success"] \in Nat
        /\ events[d]["embedding"]["success"] \in Nat
    BY DEF Count, Operations, Statuses
  <2>2. /\ events[d]["translation"]["success"] <= collector[d].tokens
        /\ events[d]["embedding"]["success"] <= collector[d].embeddings
    BY <1>2 DEF DocInv, EventsCounted, Ahead, Recording
  <2>3. CASE events'[d] = events[d]
    BY <1>2, <2>1, <2>2, <2>3 DEF EventsCounted, Ahead
  <2>4. CASE events'[d] = [events[d] EXCEPT ![Key(d)] = Increment(@, d)]
             /\ pc'[d] = "collect"
    <3>1. ASSUME NEW k \in Operations
          PROVE  events'[d][k]["success"] =
                   IF k = event[d].operation /\ event[d].outcome = "success"
                   THEN events[d][k]["success"] + 1 ELSE events[d][k]["success"]
      BY <1>1, <2>4 DEF Key, Increment, Count, Status, Statuses
    <3>2. /\ events'[d]["translation"]["success"]
               <= collector[d].tokens + Ahead(d, "translation")'
          /\ events'[d]["embedding"]["success"]
               <= collector[d].embeddings + Ahead(d, "embedding")'
      BY <1>2, <2>1, <2>2, <2>4, <3>1 DEF Ahead, Operations
    <3> QED
      BY <3>2 DEF EventsCounted
  <2> QED
    BY <2>3, <2>4
<1>7. RowAgrees(d)'
  BY DEF DocInv, RowAgrees, Recording, Ended
<1> QED
  BY <1>3, <1>4, <1>5, <1>6, <1>7 DEF DocInv

\* The collector catches up, and the call is repeated, followed by the next or given up.
LEMMA CollectStep ==
  ASSUME TypeOK, NEW d \in Documents, DocInv(d), Collect(d)
  PROVE  DocInv(d)'
<1> USE DEF TypeOK, Goto
<1>1. /\ pc[d] = "collect" /\ event[d] \in Event /\ collector[d] \in Usage
      /\ event[d].operation = Operation(call[d]) /\ event[d].target = Target(call[d])
      /\ event[d].operation \in {"translation", "embedding"}
  BY DEF Collect, DocInv, EventAgrees, Emitting, Event, Operations
<1>2. /\ collector'[d] = Counted(collector[d], event[d])
      /\ answered'[d] = answered[d] /\ events'[d] = events[d] /\ metrics'[d] = metrics[d]
      /\ pc'[d] \in {"call", "store", "failed"}
  BY NextCallTypes DEF Collect, tables
<1>3. collector[d].tokens \in Nat /\ collector[d].embeddings \in Nat
  BY DEF Usage
<1>4. /\ collector'[d].embeddings =
           IF event[d].operation = "embedding" THEN collector[d].embeddings + 1
           ELSE collector[d].embeddings
      /\ collector'[d].tokens =
           IF event[d].operation = "translation" /\ event[d].outcome # "failed"
           THEN collector[d].tokens + 1 ELSE collector[d].tokens
      /\ collector'[d].attempted =
           IF event[d].operation = "translation"
           THEN collector[d].attempted \cup {event[d].target} ELSE collector[d].attempted
      /\ collector'[d].succeeded =
           IF event[d].operation = "translation" /\ event[d].outcome = "success"
           THEN collector[d].succeeded \cup {event[d].target} ELSE collector[d].succeeded
  <2> DEFINE u == collector[d]
             e == event[d]
  <2>1. u \in Usage /\ e \in Event /\ collector'[d] = Counted(u, e)
    BY <1>1, <1>2
  <2> HIDE DEF u, e, TypeOK
  <2>2. /\ collector'[d].embeddings =
             IF e.operation = "embedding" THEN u.embeddings + 1 ELSE u.embeddings
        /\ collector'[d].tokens =
             IF e.operation = "translation" /\ e.outcome # "failed"
             THEN u.tokens + 1 ELSE u.tokens
        /\ collector'[d].attempted =
             IF e.operation = "translation" THEN u.attempted \cup {e.target}
             ELSE u.attempted
        /\ collector'[d].succeeded =
             IF e.operation = "translation" /\ e.outcome = "success"
             THEN u.succeeded \cup {e.target} ELSE u.succeeded
    BY <2>1, CountedFields, Zenon
  <2> QED
    BY <2>2 DEF u, e
<1>5. EventAgrees(d)'
  BY <1>2 DEF EventAgrees, Emitting
<1>6. AnswersCounted(d)'
  BY <1>1, <1>2, <1>3, <1>4 DEF DocInv, AnswersCounted, Pending, Emitting
<1>7. EventsCounted(d)'
  <2>1. /\ events[d]["translation"]["success"] \in Nat
        /\ events[d]["embedding"]["success"] \in Nat
    BY DEF Count, Operations, Statuses
  <2> QED
    BY <1>1, <1>2, <1>3, <1>4, <2>1 DEF DocInv, EventsCounted, Ahead
<1>8. RowAgrees(d)'
  BY <1>1, <1>2 DEF DocInv, RowAgrees, Ended
<1>9. WorkSoFar(d)'
  <2>1. collector'[d].succeeded \subseteq collector'[d].attempted
    BY <1>4 DEF DocInv, WorkSoFar
  <2>2. collector[d].succeeded \subseteq collector'[d].succeeded
    BY <1>4
  <2>3. \A t \in Targets : 2 * t - 1 < call[d] => t \in collector'[d].succeeded
    BY <1>1, <2>2 DEF DocInv, WorkSoFar, Emitting
  <2>4. CASE event[d].outcome = "success" /\ Operation(call[d]) = "translation"
    <3>1. pc'[d] = "call" /\ call'[d] = call[d] + 1
      BY <2>4, TargetOfCall DEF Collect, ReturnFromCall, NextCall
    <3>2. \A t \in Targets : 2 * t - 1 < call[d] + 1 => t \in collector'[d].succeeded
      BY <1>1, <1>4, <2>3, <2>4, TargetOfCall
    <3> QED
      BY <2>1, <3>1, <3>2 DEF WorkSoFar
  <2>5. CASE event[d].outcome = "success" /\ Operation(call[d]) # "translation"
    <3>1. call[d] = NumCalls /\ Targets \subseteq collector'[d].succeeded
      BY <2>3, <2>5, LastCall
    <3>2. pc'[d] = "store"
      <4>1. ~(call[d] < NumCalls)
        BY <3>1, UsageAssumption DEF UsageAssumption, NumCalls
      <4> QED
        BY <2>5, <4>1 DEF Collect, ReturnFromCall, NextCall
    <3> QED
      BY <2>1, <3>1, <3>2 DEF WorkSoFar, Emitting
  <2>6. CASE event[d].outcome # "success" /\ Retryable(d)
    <3>1. pc'[d] = "call" /\ call'[d] = call[d]
      BY <2>6 DEF Collect, ReturnFromCall, TryAgain
    <3> QED
      BY <2>1, <2>3, <3>1 DEF WorkSoFar
  <2>7. CASE event[d].outcome # "success" /\ ~Retryable(d)
    <3>1. pc'[d] = "failed"
      BY <2>7 DEF Collect, ReturnFromCall, FailDocument, Leave
    <3> QED
      BY <2>1, <3>1 DEF WorkSoFar, Emitting
  <2> QED
    BY <2>4, <2>5, <2>6, <2>7
<1> QED
  BY <1>5, <1>6, <1>7, <1>8, <1>9 DEF DocInv

\* The last two statements: when they are reached, all languages have succeeded and
\* nothing is pending.
LEMMA StoreStep ==
  ASSUME TypeOK, NEW d \in Documents, DocInv(d), pc[d] \in {"store", "metrics"},
         pc'[d] \in {"metrics", "done", "failed"},
         collector'[d] = collector[d], answered'[d] = answered[d],
         events'[d] = events[d],
         metrics'[d] # metrics[d] => pc'[d] \in Ended /\ metrics'[d] = collector[d]
  PROVE  DocInv(d)'
<1> USE DEF TypeOK
<1>1. collector[d].tokens \in Nat /\ collector[d].embeddings \in Nat
      /\ collector[d].attempted \subseteq Targets
  BY DEF Usage
<1>2. /\ metrics[d] = NoRow
      /\ answered[d] = collector[d].tokens
      /\ events[d]["translation"]["success"] <= collector[d].tokens
      /\ events[d]["embedding"]["success"] <= collector[d].embeddings
      /\ Targets \subseteq collector[d].succeeded
      /\ collector[d].succeeded \subseteq collector[d].attempted
  <2>1. /\ events[d]["translation"]["success"] \in Nat
        /\ events[d]["embedding"]["success"] \in Nat
    BY DEF Count, Operations, Statuses
  <2> QED
    BY <1>1, <2>1
    DEF DocInv, RowAgrees, AnswersCounted, Pending, EventsCounted, Ahead, WorkSoFar,
        Ended, Emitting
<1>3. /\ events[d]["translation"]["success"] \in Nat
      /\ events[d]["embedding"]["success"] \in Nat
  BY DEF Count, Operations, Statuses
<1>4. EventAgrees(d)' /\ WorkSoFar(d)'
  BY <1>2 DEF EventAgrees, WorkSoFar, Emitting
<1>5. AnswersCounted(d)' /\ EventsCounted(d)'
  BY <1>1, <1>2, <1>3 DEF AnswersCounted, Pending, EventsCounted, Ahead, Emitting
<1>6. RowAgrees(d)'
  BY <1>1, <1>2 DEF RowAgrees
<1> QED
  BY <1>4, <1>5, <1>6 DEF DocInv

LEMMA DocStep ==
  ASSUME IInv, [Next]_vars
  PROVE  \A x \in Documents : DocInv(x)'
<1> SUFFICES ASSUME NEW x \in Documents PROVE DocInv(x)'
  OBVIOUS
<1>0. TypeOK /\ DocInv(x)
  BY DEF IInv
<1> USE <1>0 DEF TypeOK, Goto
<1>1. ASSUME NEW d \in Documents, Start(d) PROVE DocInv(x)'
  <2>1. CASE d # x
    BY <1>1, <2>1, Frame DEF Start, tables, counts, Same
  <2>2. CASE d = x
    <3>1. pc[x] = "idle" /\ pc'[x] = "call"
      BY <1>1, <2>2 DEF Start
    <3> QED
      BY <1>1, <3>1
      DEF Start, tables, counts, DocInv, EventAgrees, WorkSoFar, AnswersCounted, Pending,
          EventsCounted, Ahead, RowAgrees, Emitting, Ended
  <2> QED
    BY <2>1, <2>2
<1>2. ASSUME NEW d \in Documents, NEW outcomes, Emit(d, outcomes) PROVE DocInv(x)'
  <2>1. CASE d # x
    BY <1>2, <2>1, Frame DEF Emit, tables, Same
  <2>2. CASE d = x
    BY <1>2, <2>2, EmitStep
  <2> QED
    BY <2>1, <2>2
<1>3. ASSUME NEW d \in Documents, EmbedSilently(d) PROVE DocInv(x)'
  <2>1. CASE d # x
    BY <1>3, <2>1, Frame DEF EmbedSilently, tables, counts, Same
  <2>2. CASE d = x
    <3>1. /\ pc[x] = "call" /\ pc'[x] = "store" /\ Operation(call[x]) # "translation"
          /\ collector' = collector /\ answered' = answered /\ events' = events
          /\ metrics' = metrics
      BY <1>3, <2>2 DEF EmbedSilently, tables, counts
    <3>2. Targets \subseteq collector[x].succeeded
      BY <3>1, LastCall DEF DocInv, WorkSoFar
    <3> QED
      BY <3>1, <3>2
      DEF DocInv, EventAgrees, WorkSoFar, AnswersCounted, Pending, EventsCounted, Ahead,
          RowAgrees, Emitting, Ended
  <2> QED
    BY <2>1, <2>2
<1>4. ASSUME NEW d \in Documents, UpsertDaily(d) PROVE DocInv(x)'
  <2>1. CASE d # x
    BY <1>4, <2>1, Frame DEF UpsertDaily, tables, counts, Same
  <2>2. CASE d = x
    BY <1>4, <2>2, RecordStep DEF UpsertDaily, tables, counts, Recording
  <2> QED
    BY <2>1, <2>2
<1>5. ASSUME NEW d \in Documents, CommitEvent(d) PROVE DocInv(x)'
  <2>1. CASE d # x
    BY <1>5, <2>1, Frame DEF CommitEvent, Committed, counts, Same
  <2>2. CASE d = x
    <3>1. events'[x] = [events[x] EXCEPT ![Key(x)] = Increment(@, x)]
      BY <1>5, <2>2 DEF CommitEvent, Committed
    <3> QED
      BY <1>5, <2>2, <3>1, RecordStep DEF CommitEvent, Committed, counts, Recording
  <2> QED
    BY <2>1, <2>2
<1>6. ASSUME NEW d \in Documents, RecordFails(d) PROVE DocInv(x)'
  <2>1. CASE d # x
    BY <1>6, <2>1, Frame DEF RecordFails, Committed, tables, Same
  <2>2. CASE d = x
    <3>1. /\ metrics' = metrics
          /\ \/ events'[x] = events[x]
             \/ events'[x] = [events[x] EXCEPT ![Key(x)] = Increment(@, x)]
      BY <1>6, <2>2 DEF RecordFails, Committed, tables
    <3> QED
      BY <1>6, <2>2, <3>1, RecordStep DEF RecordFails
  <2> QED
    BY <2>1, <2>2
<1>7. ASSUME NEW d \in Documents, Collect(d) PROVE DocInv(x)'
  <2>1. CASE d # x
    <3>1. call'[x] = call[x]
      BY <1>7, <2>1 DEF Collect, ReturnFromCall, NextCall, TryAgain, FailDocument, Leave
    <3> QED
      BY <1>7, <2>1, <3>1, Frame, NextCallTypes DEF Collect, tables, Same
  <2>2. CASE d = x
    BY <1>7, <2>2, CollectStep
  <2> QED
    BY <2>1, <2>2
<1>8. ASSUME NEW d \in Documents, StoreChunks(d) PROVE DocInv(x)'
  <2>1. CASE d # x
    BY <1>8, <2>1, Frame DEF StoreChunks, tables, counts, Same
  <2>2. CASE d = x
    BY <1>8, <2>2, StoreStep DEF StoreChunks, tables, counts
  <2> QED
    BY <2>1, <2>2
<1>9. ASSUME NEW d \in Documents, WriteMetrics(d) PROVE DocInv(x)'
  <2>1. CASE d # x
    BY <1>9, <2>1, Frame DEF WriteMetrics, SaveRow, Leave, counts, Same
  <2>2. CASE d = x
    BY <1>9, <2>2, StoreStep DEF WriteMetrics, SaveRow, Leave, counts, Ended
  <2> QED
    BY <2>1, <2>2
<1>10. ASSUME NEW d \in Documents, StoreFails(d) PROVE DocInv(x)'
  <2>1. CASE d # x
    BY <1>10, <2>1, Frame
    DEF StoreFails, SaveRow, FailDocument, Leave, tables, counts, Same
  <2>2. CASE d = x
    BY <1>10, <2>2, StoreStep
    DEF StoreFails, SaveRow, FailDocument, Leave, tables, counts, Ended
  <2> QED
    BY <2>1, <2>2
<1>11. ASSUME DeadlineExpires PROVE DocInv(x)'
  BY <1>11, Frame DEF DeadlineExpires, work, tables, counts, Same
<1>12. ASSUME Crash PROVE DocInv(x)'
  <2>1. /\ pc'[x] = "dead" /\ collector'[x] = NoUsage
        /\ answered'[x] = answered[x] /\ events'[x] = events[x] /\ metrics'[x] = metrics[x]
    BY <1>12 DEF Crash, tables
  <2> QED
    BY <2>1
    DEF NoUsage, DocInv, EventAgrees, WorkSoFar, AnswersCounted, EventsCounted, RowAgrees,
        Emitting, Ended
<1>13. ASSUME UNCHANGED vars PROVE DocInv(x)'
  BY <1>13, Frame DEF vars, work, tables, counts, Same
<1> QED
  BY <1>1, <1>2, <1>3, <1>4, <1>5, <1>6, <1>7, <1>8, <1>9, <1>10, <1>11, <1>12, <1>13
  DEF Next, Works, Fails, TranslateOnce, EmbedTexts

-----------------------------------------------------------------------------
(* The theorems.                                                           *)

LEMMA Invariance == Spec => []IInv
<1>1. ASSUME IInv, [Next]_vars PROVE IInv'
  BY <1>1, TypeStep, DocStep DEF IInv, DocInv
<1> QED
  BY <1>1, InitIInv, PTL DEF Spec

\* TypeOK of every reachable state, the bound MaxRetries on the attempts of a call
\* (translate.go:94) among it.
THEOREM TypeCorrect == Spec => []TypeOK
<1>1. IInv => TypeOK
  BY DEF IInv
<1> QED
  BY <1>1, Invariance, PTL

\* The metrics of a document count each answer of its translations, and no less than
\* the events do, although events are lost (main.go:674).
THEOREM CallsCounted == Spec => []MetricsCountCalls
<1>1. IInv => MetricsCountCalls
  BY DEF IInv, DocInv, RowAgrees, MetricsCountCalls
<1> QED
  BY <1>1, Invariance, PTL

\* A document with metrics has been translated into all languages (main.go:492).
THEOREM RowsAreOfTranslated == Spec => []MetricsMeanTranslated
<1>1. IInv => MetricsMeanTranslated
  BY DEF IInv, DocInv, RowAgrees, MetricsMeanTranslated
<1> QED
  BY <1>1, Invariance, PTL

-----------------------------------------------------------------------------
(* Sums over the documents.                                                *)

\* A set that has 0, and with each number the next, has them all.
LEMMA AllNumbers ==
  ASSUME NEW S, 0 \in S, \A n \in Nat : n \in S => n + 1 \in S
  PROVE  \A n \in Nat : n \in S
<1> DEFINE R == {p \in Nat \X Nat : p[1] < p[2]}
           T == Nat \ S
<1>1. IsWellFoundedOn(R, Nat)
  BY NatLessThanWellFounded DEF OpToRel
<1>2. SUFFICES ASSUME T # {} PROVE FALSE
  OBVIOUS
<1>3. PICK n \in T : \A m \in T : ~(<<m, n>> \in R)
  <2> HIDE DEF R
  <2>1. T \subseteq Nat
    OBVIOUS
  <2>2. QED
    BY <1>1, <1>2, <2>1, WFMin
<1>4. n \in Nat \ {0} /\ n - 1 \in Nat /\ n - 1 < n
  OBVIOUS
<1>5. n - 1 \notin T
  <2>1. <<n - 1, n>> \in R
    BY <1>4
  <2> HIDE DEF R
  <2>2. QED
    BY <1>3, <2>1
<1>6. (n - 1) + 1 \in S
  BY <1>4, <1>5
<1>7. QED
  BY <1>4, <1>6

\* The fold of MapThenSumSet, as a function of the set that is left.
First(t) == CHOOSE x \in t : TRUE
IsTotal(g, ev, k, s) ==
  g = [t \in SUBSET Documents |->
         IF t = {} THEN 0 ELSE ev[First(t)][k][s] + g[t \ {First(t)}]]
Total(ev, k, s) == CHOOSE g : IsTotal(g, ev, k, s)

LEMMA SumIsTotal ==
  AggregatesMatchEvents <=>
    \A k \in Operations, s \in Statuses : agg[k][s] = Total(events, k, s)[Documents]
  BY DEF AggregatesMatchEvents, MapThenSumSet, MapThenFoldSet, Total, IsTotal, First

LEMMA SumIsTotalNext ==
  AggregatesMatchEvents' <=>
    \A k \in Operations, s \in Statuses : agg'[k][s] = Total(events', k, s)[Documents]
  BY DEF AggregatesMatchEvents, MapThenSumSet, MapThenFoldSet, Total, IsTotal, First

LEMMA FirstTaken ==
  ASSUME NEW t \in SUBSET Documents
  PROVE  /\ Cardinality(t) \in Nat
         /\ t = {} <=> Cardinality(t) = 0
         /\ t # {} => /\ First(t) \in t
                      /\ t \ {First(t)} \in SUBSET Documents
                      /\ Cardinality(t \ {First(t)}) = Cardinality(t) - 1
<1>1. IsFiniteSet(t)
  BY UsageAssumption, FS_Subset
<1>2. Cardinality(t) \in Nat /\ (t = {} <=> Cardinality(t) = 0)
  BY <1>1, FS_CardinalityType, FS_EmptySet
<1>3. ASSUME t # {}
      PROVE  /\ First(t) \in t
             /\ t \ {First(t)} \in SUBSET Documents
             /\ Cardinality(t \ {First(t)}) = Cardinality(t) - 1
  <2>1. First(t) \in t
    BY <1>3 DEF First
  <2> HIDE DEF First
  <2>2. QED
    BY <1>1, <2>1, FS_RemoveElement
<1>4. QED
  BY <1>2, <1>3

\* There is such a function, for any numbers of events.
LEMMA TotalExists ==
  ASSUME NEW ev, NEW k, NEW s, \A d \in Documents : ev[d][k][s] \in Nat
  PROVE  \E g : IsTotal(g, ev, k, s)
<1> DEFINE Small(n) == {t \in SUBSET Documents : Cardinality(t) <= n}
           IsPart(g, n) == /\ g \in [Small(n) -> Nat]
                           /\ \A t \in Small(n) :
                                g[t] = IF t = {} THEN 0
                                       ELSE ev[First(t)][k][s] + g[t \ {First(t)}]
           S == {n \in Nat : \E g : IsPart(g, n)}
<1>1. 0 \in S
  <2>1. ASSUME NEW t \in Small(0) PROVE t = {}
    <3>1. t \in SUBSET Documents /\ Cardinality(t) <= 0
      OBVIOUS
    <3>2. Cardinality(t) \in Nat /\ (t = {} <=> Cardinality(t) = 0)
      BY <3>1, FirstTaken
    <3>3. QED
      BY <3>1, <3>2
  <2>2. IsPart([t \in Small(0) |-> 0], 0)
    <3> HIDE DEF Small
    <3>1. QED
      BY <2>1
  <2>3. QED
    BY <2>2
<1>2. ASSUME NEW n \in Nat, n \in S PROVE n + 1 \in S
  <2>1. PICK g : IsPart(g, n)
    BY <1>2
  <2> DEFINE h == [t \in Small(n + 1) |->
                     IF t \in Small(n) THEN g[t] ELSE ev[First(t)][k][s] + g[t \ {First(t)}]]
  <2>2. ASSUME NEW t \in Small(n + 1), t # {}
        PROVE  /\ t \ {First(t)} \in Small(n) /\ t \ {First(t)} \in Small(n + 1)
               /\ First(t) \in Documents
    <3>1. /\ First(t) \in t /\ t \ {First(t)} \in SUBSET Documents
          /\ Cardinality(t \ {First(t)}) = Cardinality(t) - 1 /\ Cardinality(t) \in Nat
      BY <2>2, FirstTaken
    <3>2. Cardinality(t) - 1 <= n /\ Cardinality(t) - 1 <= n + 1
      BY <3>1
    <3>3. QED
      BY <3>1, <3>2
  <2>3. Small(n) \subseteq Small(n + 1) /\ {} \in Small(n)
    <3>1. \A t \in SUBSET Documents : Cardinality(t) \in Nat
      BY FirstTaken
    <3>2. Cardinality({}) = 0
      BY FS_EmptySet
    <3>3. QED
      BY <3>1, <3>2
  <2> HIDE DEF Small
  <2>4. h \in [Small(n + 1) -> Nat]
    <3>1. SUFFICES ASSUME NEW t \in Small(n + 1)
                   PROVE  (IF t \in Small(n) THEN g[t]
                           ELSE ev[First(t)][k][s] + g[t \ {First(t)}]) \in Nat
      OBVIOUS
    <3>2. CASE t \in Small(n)
      BY <2>1, <3>2
    <3>3. CASE t \notin Small(n)
      <4>1. t # {} /\ t \ {First(t)} \in Small(n) /\ First(t) \in Documents
        BY <2>2, <2>3, <3>3
      <4>2. g[t \ {First(t)}] \in Nat /\ ev[First(t)][k][s] \in Nat
        BY <2>1, <4>1
      <4>3. QED
        BY <3>3, <4>2
    <3>4. QED
      BY <3>2, <3>3
  <2>5. ASSUME NEW t \in Small(n + 1)
        PROVE  h[t] = IF t = {} THEN 0 ELSE ev[First(t)][k][s] + h[t \ {First(t)}]
    <3>1. t # {} => h[t \ {First(t)}] = g[t \ {First(t)}]
      BY <2>2
    <3>2. CASE t \in Small(n)
      <4>1. h[t] = g[t]
        BY <3>2
      <4> HIDE DEF h
      <4>2. QED
        BY <2>1, <3>1, <3>2, <4>1
    <3>3. CASE t \notin Small(n)
      <4>1. t # {} /\ h[t] = ev[First(t)][k][s] + g[t \ {First(t)}]
        BY <2>3, <3>3
      <4> HIDE DEF h
      <4>2. QED
        BY <3>1, <4>1
    <3>4. QED
      BY <3>2, <3>3
  <2>6. IsPart(h, n + 1)
    <3> HIDE DEF h
    <3>1. QED
      BY <2>4, <2>5
  <2> HIDE DEF h, IsPart
  <2>7. QED
    BY <2>6
<1>3. \A n \in Nat : n \in S
  <2> HIDE DEF S
  <2>1. QED
    BY <1>1, <1>2, AllNumbers
<1>4. /\ Cardinality(Documents) \in Nat
      /\ Small(Cardinality(Documents)) = SUBSET Documents
  <2>1. Cardinality(Documents) \in Nat
    BY UsageAssumption, FS_CardinalityType
  <2>2. \A t \in SUBSET Documents : Cardinality(t) <= Cardinality(Documents)
    BY UsageAssumption, FS_Subset
  <2>3. QED
    BY <2>1, <2>2
<1>5. PICK g : IsPart(g, Cardinality(Documents))
  BY <1>3, <1>4
<1>6. /\ g \in [SUBSET Documents -> Nat]
      /\ \A t \in SUBSET Documents :
           g[t] = IF t = {} THEN 0 ELSE ev[First(t)][k][s] + g[t \ {First(t)}]
  <2> HIDE DEF Small
  <2>1. QED
    BY <1>4, <1>5
<1>7. g = [t \in SUBSET Documents |-> g[t]]
  BY <1>6
<1>8. QED
  BY <1>6, <1>7 DEF IsTotal

LEMMA TotalDef ==
  ASSUME NEW ev, NEW k, NEW s, \A d \in Documents : ev[d][k][s] \in Nat,
         NEW t \in SUBSET Documents
  PROVE  Total(ev, k, s)[t] =
           IF t = {} THEN 0 ELSE ev[First(t)][k][s] + Total(ev, k, s)[t \ {First(t)}]
<1> DEFINE g == Total(ev, k, s)
<1>1. IsTotal(g, ev, k, s)
  BY TotalExists DEF Total
<1> HIDE DEF g
<1>2. g[t] = IF t = {} THEN 0 ELSE ev[First(t)][k][s] + g[t \ {First(t)}]
  BY <1>1 DEF IsTotal
<1>3. QED
  BY <1>2 DEF g

\* Without events there is nothing to count.
LEMMA TotalOfNone ==
  ASSUME NEW ev, NEW k, NEW s, \A d \in Documents : ev[d][k][s] = 0
  PROVE  Total(ev, k, s)[Documents] = 0
<1> DEFINE g == Total(ev, k, s)
           S == {n \in Nat : \A t \in SUBSET Documents : Cardinality(t) = n => g[t] = 0}
<1>1. \A t \in SUBSET Documents :
        g[t] = IF t = {} THEN 0 ELSE ev[First(t)][k][s] + g[t \ {First(t)}]
  <2>1. \A e \in Documents : ev[e][k][s] \in Nat
    OBVIOUS
  <2>2. ASSUME NEW t \in SUBSET Documents
        PROVE  Total(ev, k, s)[t] =
                 IF t = {} THEN 0 ELSE ev[First(t)][k][s] + Total(ev, k, s)[t \ {First(t)}]
    BY ONLY t \in SUBSET Documents, <2>1, TotalDef
  <2>3. QED
    BY <2>2
<1> HIDE DEF g
<1>2. 0 \in S
  BY <1>1, FirstTaken
<1>3. ASSUME NEW n \in Nat, n \in S PROVE n + 1 \in S
  <2>1. SUFFICES ASSUME NEW t \in SUBSET Documents, Cardinality(t) = n + 1 PROVE g[t] = 0
    OBVIOUS
  <2>2. /\ t # {} /\ First(t) \in Documents /\ t \ {First(t)} \in SUBSET Documents
        /\ Cardinality(t \ {First(t)}) = n
    BY <2>1, FirstTaken
  <2>3. g[t \ {First(t)}] = 0 /\ ev[First(t)][k][s] = 0
    BY <1>3, <2>2
  <2>4. g[t] = ev[First(t)][k][s] + g[t \ {First(t)}]
    BY <1>1, <2>2
  <2>5. QED
    BY <2>3, <2>4
<1>4. \A n \in Nat : n \in S
  <2> HIDE DEF S
  <2>1. QED
    BY <1>2, <1>3, AllNumbers
<1>5. Cardinality(Documents) \in Nat
  BY UsageAssumption, FS_CardinalityType
<1>6. QED
  BY <1>4, <1>5 DEF g

\* What one document has more, the sum has more.
LEMMA TotalOfOneMore ==
  ASSUME NEW ev, NEW ew, NEW k, NEW s, NEW d \in Documents, NEW m \in Nat,
         \A e \in Documents : /\ ev[e][k][s] \in Nat
                              /\ ew[e][k][s] = IF e = d THEN ev[e][k][s] + m ELSE ev[e][k][s]
  PROVE  /\ Total(ev, k, s)[Documents] \in Nat
         /\ Total(ew, k, s)[Documents] = Total(ev, k, s)[Documents] + m
<1> DEFINE g == Total(ev, k, s)
           h == Total(ew, k, s)
           S == {n \in Nat : \A t \in SUBSET Documents : Cardinality(t) = n =>
                    g[t] \in Nat /\ h[t] = IF d \in t THEN g[t] + m ELSE g[t]}
<1>1. \A t \in SUBSET Documents :
        g[t] = IF t = {} THEN 0 ELSE ev[First(t)][k][s] + g[t \ {First(t)}]
  <2>1. \A e \in Documents : ev[e][k][s] \in Nat
    OBVIOUS
  <2>2. ASSUME NEW t \in SUBSET Documents
        PROVE  Total(ev, k, s)[t] =
                 IF t = {} THEN 0 ELSE ev[First(t)][k][s] + Total(ev, k, s)[t \ {First(t)}]
    BY <2>1, TotalDef
  <2>3. QED
    BY <2>2
<1>2. \A t \in SUBSET Documents :
        h[t] = IF t = {} THEN 0 ELSE ew[First(t)][k][s] + h[t \ {First(t)}]
  <2>1. \A e \in Documents : ew[e][k][s] \in Nat
    OBVIOUS
  <2>2. ASSUME NEW t \in SUBSET Documents
        PROVE  Total(ew, k, s)[t] =
                 IF t = {} THEN 0 ELSE ew[First(t)][k][s] + Total(ew, k, s)[t \ {First(t)}]
    BY <2>1, TotalDef
  <2>3. QED
    BY <2>2
<1> HIDE DEF g, h
<1>3. 0 \in S
  BY <1>1, <1>2, FirstTaken
<1>4. ASSUME NEW n \in Nat, n \in S PROVE n + 1 \in S
  <2>1. SUFFICES ASSUME NEW t \in SUBSET Documents, Cardinality(t) = n + 1
                 PROVE  g[t] \in Nat /\ h[t] = IF d \in t THEN g[t] + m ELSE g[t]
    OBVIOUS
  <2> DEFINE x == First(t)
             r == t \ {x}
  <2>2. /\ t # {} /\ x \in t /\ x \in Documents /\ r \in SUBSET Documents
        /\ Cardinality(r) = n
    BY <2>1, FirstTaken
  <2>3. g[r] \in Nat /\ h[r] = IF d \in r THEN g[r] + m ELSE g[r]
    BY <1>4, <2>2
  <2>4. g[t] = ev[x][k][s] + g[r] /\ h[t] = ew[x][k][s] + h[r]
    BY <1>1, <1>2, <2>2
  <2>5. ev[x][k][s] \in Nat /\ ew[x][k][s] = IF x = d THEN ev[x][k][s] + m ELSE ev[x][k][s]
    BY <2>2
  <2>6. d \in t <=> x = d \/ d \in r
    BY <2>2
  <2>7. x = d => d \notin r
    OBVIOUS
  <2> HIDE DEF x, r
  <2>8. QED
    BY <2>3, <2>4, <2>5, <2>6, <2>7
<1>5. \A n \in Nat : n \in S
  <2> HIDE DEF S
  <2>1. QED
    BY <1>3, <1>4, AllNumbers
<1>6. Cardinality(Documents) \in Nat
  BY UsageAssumption, FS_CardinalityType
<1>7. QED
  BY <1>5, <1>6 DEF g, h

-----------------------------------------------------------------------------
(* The aggregates.                                                         *)

\* An open transaction has counted its event to what is committed, and is the only one
\* on its row.
TxnAgrees(d) ==
  pc[d] = "commit" =>
    /\ txn[d].key = Key(d)
    /\ txn[d].count = Increment(agg[Key(d)], d)
    /\ \A e \in Documents : e # d => txn[e].key # Key(d)

AggInv == AggregatesMatchEvents /\ \A d \in Documents : TxnAgrees(d)

LEMMA InitAggInv == Init => AggInv
<1> SUFFICES ASSUME Init PROVE AggInv
  OBVIOUS
<1>1. \A k \in Operations, s \in Statuses : agg[k][s] = Total(events, k, s)[Documents]
  <2>1. SUFFICES ASSUME NEW k \in Operations, NEW s \in Statuses
                 PROVE  agg[k][s] = Total(events, k, s)[Documents]
    OBVIOUS
  <2>2. agg[k][s] = 0 /\ \A d \in Documents : events[d][k][s] = 0
    BY DEF Init, NoCount
  <2>3. QED
    BY <2>2, TotalOfNone
<1>2. \A d \in Documents : TxnAgrees(d)
  BY DEF Init, TxnAgrees
<1>3. QED
  BY <1>1, <1>2, SumIsTotal DEF AggInv

\* A commit adds one to the aggregate and one to the events.
LEMMA CommittedCounts ==
  ASSUME TypeOK, AggInv, NEW d \in Documents, pc[d] = "commit", Committed(d)
  PROVE  /\ AggregatesMatchEvents'
         /\ \A k \in Operations : k # Key(d) => agg'[k] = agg[k]
<1>1. /\ agg \in [Operations -> Count] /\ events \in [Documents -> [Operations -> Count]]
      /\ event[d] \in Event
  BY DEF TypeOK, Recording
<1>2. Key(d) \in Operations /\ Status(event[d].outcome) \in Statuses
  BY <1>1 DEF Key, Event, Status, Statuses
<1>3. /\ agg' = [agg EXCEPT ![Key(d)] = Increment(agg[Key(d)], d)]
      /\ events' = [events EXCEPT ![d][Key(d)] = Increment(@, d)]
  BY DEF Committed, AggInv, TxnAgrees
<1>4. \A k \in Operations : k # Key(d) => agg'[k] = agg[k]
  BY <1>1, <1>3
<1>5. ASSUME NEW k \in Operations, NEW s \in Statuses
      PROVE  agg'[k][s] = Total(events', k, s)[Documents]
  <2> DEFINE m == IF k = Key(d) /\ s = Status(event[d].outcome) THEN 1 ELSE 0
  <2>1. m \in Nat
    OBVIOUS
  <2>2. agg[k] \in Count /\ agg[k][s] \in Nat
    BY <1>1 DEF Count
  <2>3. agg'[k][s] = agg[k][s] + m
    <3>1. CASE k = Key(d)
      <4>1. agg'[k] = [agg[k] EXCEPT ![Status(event[d].outcome)] = @ + 1]
        BY <1>1, <1>2, <1>3, <3>1 DEF Increment
      <4>2. QED
        BY <1>2, <2>2, <3>1, <4>1 DEF Count
    <3>2. CASE k # Key(d)
      BY <1>4, <2>2, <3>2
    <3>3. QED
      BY <3>1, <3>2
  <2>4. ASSUME NEW e \in Documents
        PROVE  /\ events[e][k][s] \in Nat
               /\ events'[e][k][s] = IF e = d THEN events[e][k][s] + m ELSE events[e][k][s]
    <3>1. events[e] \in [Operations -> Count] /\ events[e][k] \in Count /\ events[e][k][s] \in Nat
      BY <1>1 DEF Count
    <3>2. CASE e # d
      <4>1. events'[e] = events[e]
        BY <1>1, <1>3, <3>2
      <4>2. QED
        BY <3>1, <3>2, <4>1
    <3>3. CASE e = d /\ k # Key(d)
      <4>1. events'[e][k] = events[e][k]
        BY <1>1, <1>2, <1>3, <3>1, <3>3
      <4>2. QED
        BY <3>1, <3>3, <4>1
    <3>4. CASE e = d /\ k = Key(d)
      <4>1. events'[e][k] = [events[e][k] EXCEPT ![Status(event[d].outcome)] = @ + 1]
        BY <1>1, <1>2, <1>3, <3>1, <3>4 DEF Increment
      <4>2. QED
        BY <1>2, <3>1, <3>4, <4>1 DEF Count
    <3>5. QED
      BY <3>2, <3>3, <3>4
  <2>5. agg[k][s] = Total(events, k, s)[Documents]
    BY SumIsTotal DEF AggInv
  <2> HIDE DEF m
  <2>6. Total(events', k, s)[Documents] = Total(events, k, s)[Documents] + m
    BY <2>1, <2>4, TotalOfOneMore
  <2>7. QED
    BY <2>3, <2>5, <2>6
<1>6. QED
  BY <1>4, <1>5, SumIsTotalNext

LEMMA KeyOfTxn ==
  ASSUME TypeOK, NEW d \in Documents, pc[d] = "commit"
  PROVE  Key(d) \in Operations /\ Key(d) # NoTxn.key
<1>1. event[d] \in Event
  BY DEF TypeOK, Recording
<1>2. QED
  BY <1>1 DEF Key, Event, Operations, NoTxn

\* A step that leaves the aggregates alone, and opens no transaction.
LEMMA AggUnchanged ==
  ASSUME TypeOK, AggInv, UNCHANGED <<events, agg>>,
         \A d \in Documents :
           \/ pc'[d] # "commit" /\ txn'[d] \in {txn[d], NoTxn}
           \/ UNCHANGED <<pc[d], txn[d], event[d]>>
  PROVE  AggInv'
<1>1. AggregatesMatchEvents'
  BY SumIsTotal, SumIsTotalNext DEF AggInv
<1>2. ASSUME NEW d \in Documents, pc'[d] = "commit" PROVE TxnAgrees(d)'
  <2>1. UNCHANGED <<pc[d], txn[d], event[d]>>
    BY <1>2
  <2>2. Key(d)' = Key(d) /\ txn[d].key = Key(d) /\ txn[d].count = Increment(agg[Key(d)], d)
        /\ \A e \in Documents : e # d => txn[e].key # Key(d)
    BY <1>2, <2>1 DEF Key, AggInv, TxnAgrees
  <2>3. \A e \in Documents : e # d => txn'[e].key # Key(d)
    <3>1. Key(d) # NoTxn.key
      BY <1>2, <2>1, KeyOfTxn
    <3>2. QED
      BY <2>2, <3>1
  <2>4. QED
    BY <2>1, <2>2, <2>3 DEF TxnAgrees, Increment
<1>3. QED
  BY <1>1, <1>2 DEF AggInv, TxnAgrees

\* A commit, done or answered or not, closes the transaction.
LEMMA CommitStep ==
  ASSUME TypeOK, AggInv, NEW d \in Documents, pc[d] = "commit", Committed(d), CloseTxn(d),
         Goto(d, "collect"), UNCHANGED event
  PROVE  AggInv'
<1>1. AggregatesMatchEvents' /\ \A k \in Operations : k # Key(d) => agg'[k] = agg[k]
  BY CommittedCounts
<1>2. txn' = [txn EXCEPT ![d] = NoTxn] /\ pc' = [pc EXCEPT ![d] = "collect"]
  BY DEF CloseTxn, Goto
<1>3. ASSUME NEW c \in Documents, pc'[c] = "commit" PROVE TxnAgrees(c)'
  <2>1. c # d /\ pc[c] = "commit" /\ txn'[c] = txn[c]
    BY <1>2, <1>3 DEF TypeOK
  <2>2. /\ txn[c].key = Key(c) /\ txn[c].count = Increment(agg[Key(c)], c)
        /\ \A e \in Documents : e # c => txn[e].key # Key(c)
    BY <2>1 DEF AggInv, TxnAgrees
  <2>3. Key(c) # Key(d) /\ Key(c) \in Operations /\ Key(c) # NoTxn.key
    <3>1. txn[d].key = Key(d)
      BY DEF AggInv, TxnAgrees
    <3>2. QED
      BY <2>1, <2>2, <3>1, KeyOfTxn
  <2>4. agg'[Key(c)] = agg[Key(c)] /\ Key(c)' = Key(c)
    BY <1>1, <2>3 DEF Key
  <2>5. \A e \in Documents : e # c => txn'[e].key # Key(c)
    BY <1>2, <2>2, <2>3 DEF TypeOK
  <2>6. QED
    BY <2>1, <2>2, <2>4, <2>5 DEF TxnAgrees, Increment
<1>4. QED
  BY <1>1, <1>3 DEF AggInv, TxnAgrees

\* Who opens a transaction finds no other on its row.
LEMMA UpsertStep ==
  ASSUME TypeOK, AggInv, NEW d \in Documents, UpsertDaily(d)
  PROVE  AggInv'
<1>1. /\ \A e \in Documents : txn[e].key # Key(d)
      /\ txn' = [txn EXCEPT ![d] = [key |-> Key(d), count |-> Increment(agg[Key(d)], d)]]
      /\ pc' = [pc EXCEPT ![d] = "commit"]
      /\ UNCHANGED <<event, events, agg>>
  BY DEF UpsertDaily, Goto, tables
<1>2. AggregatesMatchEvents'
  BY <1>1, SumIsTotal, SumIsTotalNext DEF AggInv
<1>3. \A c \in Documents : Key(c)' = Key(c) /\ Increment(agg[Key(c)], c)' = Increment(agg[Key(c)], c)
  BY <1>1 DEF Key, Increment
<1>4. TxnAgrees(d)'
  BY <1>1, <1>3 DEF TypeOK, TxnAgrees
<1>5. ASSUME NEW c \in Documents, c # d, pc'[c] = "commit" PROVE TxnAgrees(c)'
  <2>1. pc[c] = "commit" /\ txn'[c] = txn[c]
    BY <1>1, <1>5 DEF TypeOK
  <2>2. /\ txn[c].key = Key(c) /\ txn[c].count = Increment(agg[Key(c)], c)
        /\ \A e \in Documents : e # c => txn[e].key # Key(c)
    BY <2>1 DEF AggInv, TxnAgrees
  <2>3. \A e \in Documents : e # c => txn'[e].key # Key(c)
    <3>1. SUFFICES ASSUME NEW e \in Documents, e # c PROVE txn'[e].key # Key(c)
      OBVIOUS
    <3>2. CASE e = d
      <4>1. txn'[d].key = Key(d)
        BY <1>1 DEF TypeOK
      <4>2. Key(c) # Key(d)
        BY <1>1, <2>2
      <4>3. QED
        BY <3>2, <4>1, <4>2
    <3>3. CASE e # d
      BY <1>1, <2>2, <3>1, <3>3 DEF TypeOK
    <3>4. QED
      BY <3>2, <3>3
  <2>4. QED
    BY <1>3, <2>1, <2>2, <2>3 DEF TxnAgrees
<1>6. QED
  BY <1>2, <1>4, <1>5 DEF AggInv, TxnAgrees

LEMMA AggStep == ASSUME TypeOK, AggInv, [Next]_vars PROVE AggInv'
<1> USE DEF Goto
<1>0. pc \in [Documents -> {"idle"} \cup Busy \cup Ended] /\ txn \in [Documents -> [key : Operations, count : Count] \cup {NoTxn}]
      /\ event \in [Documents -> Event \cup {NoEvent}]
  BY DEF TypeOK
<1>1. ASSUME NEW d \in Documents, Start(d) \/ EmbedSilently(d) \/ StoreChunks(d) PROVE AggInv'
  BY <1>0, <1>1, AggUnchanged DEF Start, EmbedSilently, StoreChunks, tables
<1>2. ASSUME NEW d \in Documents, NEW outcomes, Emit(d, outcomes) PROVE AggInv'
  <2>1. /\ pc' = [pc EXCEPT ![d] = "record"] /\ UNCHANGED <<txn, events, agg>>
        /\ \A e \in Documents : e # d => event'[e] = event[e]
    BY <1>0, <1>2 DEF Emit, tables
  <2>2. QED
    BY <1>0, <2>1, AggUnchanged
<1>3. ASSUME NEW d \in Documents, UpsertDaily(d) PROVE AggInv'
  BY <1>3, UpsertStep
<1>4. ASSUME NEW d \in Documents, CommitEvent(d) PROVE AggInv'
  BY <1>4, CommitStep DEF CommitEvent
<1>5. ASSUME NEW d \in Documents, RecordFails(d) PROVE AggInv'
  <2>1. CASE pc[d] = "commit" /\ Committed(d)
    BY <1>5, <2>1, CommitStep DEF RecordFails
  <2>2. CASE UNCHANGED tables
    <3>1. pc' = [pc EXCEPT ![d] = "collect"] /\ txn' = [txn EXCEPT ![d] = NoTxn]
          /\ UNCHANGED <<event, events, agg>>
      BY <1>5, <2>2 DEF RecordFails, CloseTxn, tables
    <3>2. QED
      BY <1>0, <3>1, AggUnchanged
  <2>3. QED
    BY <1>5, <2>1, <2>2 DEF RecordFails
<1>6. ASSUME NEW d \in Documents, Collect(d) PROVE AggInv'
  <2>1. /\ UNCHANGED <<txn, events, agg>> /\ pc'[d] \in {"call", "store", "failed"}
        /\ \A e \in Documents \ {d} : pc'[e] = pc[e] /\ event'[e] = event[e]
    BY <1>6, NextCallTypes DEF Collect, tables
  <2>2. QED
    BY <2>1, AggUnchanged
<1>7. ASSUME NEW d \in Documents, WriteMetrics(d) \/ StoreFails(d) PROVE AggInv'
  <2>1. /\ UNCHANGED <<txn, events, agg>> /\ pc'[d] # "commit"
        /\ \A e \in Documents \ {d} : pc'[e] = pc[e] /\ event'[e] = event[e]
    BY <1>0, <1>7 DEF WriteMetrics, StoreFails, SaveRow, FailDocument, Leave, tables
  <2>2. QED
    BY <2>1, AggUnchanged
<1>8. ASSUME DeadlineExpires \/ UNCHANGED vars PROVE AggInv'
  BY <1>8, AggUnchanged DEF DeadlineExpires, vars, work, tables
<1>9. ASSUME Crash PROVE AggInv'
  <2>1. UNCHANGED <<events, agg>> /\ \A d \in Documents : pc'[d] = "dead" /\ txn'[d] = NoTxn
    BY <1>9 DEF Crash, tables
  <2>2. QED
    BY <2>1, AggUnchanged
<1>10. QED
  BY <1>1, <1>2, <1>3, <1>4, <1>5, <1>6, <1>7, <1>8, <1>9
  DEF Next, Works, Fails, TranslateOnce, EmbedTexts

LEMMA AggInvariant == Spec => []AggInv
<1>1. Init => AggInv
  BY InitAggInv
<1>2. IInv /\ AggInv /\ [Next]_vars => AggInv'
  BY AggStep DEF IInv
<1>3. QED
  BY <1>1, <1>2, Invariance, PTL DEF Spec

(***************************************************************************)
(* The daily aggregates count exactly the events that are committed, for   *)
(* any number of workers: whoever writes a row holds it until its own      *)
(* event is committed with it or neither is (usage_metrics.go:455).        *)
(***************************************************************************)
THEOREM AggregatesAgree == Spec => []AggregatesMatchEvents
<1>1. AggInv => AggregatesMatchEvents
  BY DEF AggInv
<1>2. QED
  BY <1>1, AggInvariant, PTL
=============================================================================
