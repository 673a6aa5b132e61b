---------------------------- MODULE UsageMetrics ----------------------------
(***************************************************************************)
(* The calls of an index run to the language models and what is recorded   *)
(* of them: LLMTranslator.Translate and LLMEmbedder.EmbedTexts             *)
(* (backend/internal/rag/translate.go, embed.go), the event and the daily  *)
(* aggregate of each call (usage_metrics.go), the collector of the run and *)
(* the row of metrics of each document (backend/cmd/rag-cli/main.go).      *)
(*                                                                         *)
(* Each document is in the hands of one worker (module IndexPool).  What a *)
(* call answers, and whether a statement fails, is open.                   *)
(***************************************************************************)
EXTENDS Naturals, FiniteSets, FiniteSetsExt

CONSTANTS Documents,
          NumTargets,   \* how many languages a document is translated into
          MaxRetries,   \* of an answer without text
          MaxLost       \* bound on the events that the database fails to record

\* NewLLMTranslator raises a negative MaxRetries to 0.
ASSUME UsageAssumption == /\ IsFiniteSet(Documents)
                          /\ NumTargets \in Nat /\ MaxRetries \in Nat
                          /\ MaxLost \in Nat

VARIABLES ctxEnded,   \* the context of the run is cancelled or past its deadline
          pc,         \* where the worker of a document is
          call,       \* the number of the call it makes
          attempt,    \* of that call, from 0
          event,      \* what the call emits
          txn,        \* the aggregate that an open transaction has written
          events,     \* how many events are committed
          agg,        \* the aggregates of the day
          lost,       \* how many events were not recorded although they could
          collector,  \* indexUsageCollector.byDocument
          metrics,    \* the rows of rag_index_document_metrics of this run
          answered    \* how many answers with a usage the translations of a document got

work == <<pc, call, attempt, event>>
tables == <<events, agg, metrics>>
counts == <<lost, collector, answered>>
vars == <<ctxEnded, work, txn, tables, counts>>

Targets == 1..NumTargets
Operations == {"translation", "embedding"}

\* A status, and of the errors the one that Translate tries again: an answer
\* without text.
Outcomes == {"success", "empty", "failed"}
Status(outcome) == IF outcome = "success" THEN "success" ELSE "error"
Statuses == {"success", "error"}

\* Title and content of each language, then all chunks at once.
NumCalls == 2 * NumTargets + 1
Operation(c) == IF c < NumCalls THEN "translation" ELSE "embedding"
Target(c) == (c + 1) \div 2

Event == [operation : Operations, target : Targets \cup {NumTargets + 1}, outcome : Outcomes]
NoEvent == [operation |-> "none"]

Count == [Statuses -> Nat]
NoCount == [s \in Statuses |-> 0]
NoTxn == [key |-> "none", count |-> NoCount]

Usage == [embeddings : Nat, tokens : Nat,
          attempted : SUBSET Targets, succeeded : SUBSET Targets]
NoUsage == [embeddings |-> 0, tokens |-> 0, attempted |-> {}, succeeded |-> {}]
NoRow == [embeddings |-> 0]

Busy == {"call", "record", "commit", "collect", "store", "metrics"}
Recording == {"record", "commit"}
Ended == {"done", "failed", "dead"}

TypeOK == /\ ctxEnded \in BOOLEAN /\ lost \in 0..MaxLost
          /\ pc \in [Documents -> {"idle"} \cup Busy \cup Ended]
          /\ call \in [Documents -> 1..NumCalls]
          /\ attempt \in [Documents -> 0..MaxRetries]
          /\ event \in [Documents -> Event \cup {NoEvent}]
          /\ \A d \in Documents : /\ pc[d] \in Recording \cup {"collect"} => event[d] # NoEvent
                                  /\ txn[d] # NoTxn <=> pc[d] = "commit"
          /\ txn \in [Documents -> [key : Operations, count : Count] \cup {NoTxn}]
          /\ events \in [Documents -> [Operations -> Count]]
          /\ agg \in [Operations -> Count]
          /\ collector \in [Documents -> Usage]
          /\ metrics \in [Documents -> Usage \cup {NoRow}]
          /\ answered \in [Documents -> Nat]

Init == /\ ctxEnded = FALSE /\ lost = 0
        /\ pc = [d \in Documents |-> "idle"]
        /\ call = [d \in Documents |-> 1]
        /\ attempt = [d \in Documents |-> 0]
        /\ event = [d \in Documents |-> NoEvent]
        /\ txn = [d \in Documents |-> NoTxn]
        /\ events = [d \in Documents |-> [k \in Operations |-> NoCount]]
        /\ agg = [k \in Operations |-> NoCount]
        /\ collector = [d \in Documents |-> NoUsage]
        /\ metrics = [d \in Documents |-> NoRow]
        /\ answered = [d \in Documents |-> 0]

Goto(d, place) == pc' = [pc EXCEPT ![d] = place]

-----------------------------------------------------------------------------
(* The calls.                                                              *)

\* A worker takes the document up.
Start(d) == /\ pc[d] = "idle" /\ ~ctxEnded
            /\ Goto(d, "call")
            /\ UNCHANGED <<ctxEnded, call, attempt, event, txn, tables, counts>>

\* What the call ends with is emitted; emitUsageEvent takes the document from the
\* context.  Once that has ended no request succeeds.
Emit(d, outcomes) ==
  /\ pc[d] = "call"
  /\ \E outcome \in IF ctxEnded THEN {"failed"} ELSE outcomes :
       /\ event' = [event EXCEPT ![d] =
            [operation |-> Operation(call[d]), target |-> Target(call[d]),
             outcome |-> outcome]]
       /\ answered' = IF Operation(call[d]) = "translation" /\ outcome # "failed"
                      THEN [answered EXCEPT ![d] = @ + 1] ELSE answered
  /\ Goto(d, "record")
  /\ UNCHANGED <<ctxEnded, call, attempt, txn, tables, lost, collector>>

TranslateOnce(d) == Operation(call[d]) = "translation" /\ Emit(d, Outcomes)

\* An answer without vectors is an error like any other.
EmbedTexts(d) == Operation(call[d]) = "embedding" /\ Emit(d, {"success", "failed"})

\* An answer in the form of "embeddings" is returned without an event.
EmbedSilently(d) ==
  /\ pc[d] = "call" /\ ~ctxEnded
  /\ Operation(call[d]) = "embedding"
  /\ Goto(d, "store")
  /\ UNCHANGED <<ctxEnded, call, attempt, event, txn, tables, counts>>

\* The worker has returned.
Leave(d, how) == /\ Goto(d, how)
                 /\ call' = [call EXCEPT ![d] = 1]
                 /\ attempt' = [attempt EXCEPT ![d] = 0]
                 /\ event' = [event EXCEPT ![d] = NoEvent]

\* It returns an error, and the pool cancels the context.
FailDocument(d) == Leave(d, "failed") /\ ctxEnded' = TRUE

NextCall(d) == /\ event' = [event EXCEPT ![d] = NoEvent]
               /\ IF call[d] < NumCalls
                  THEN call' = [call EXCEPT ![d] = @ + 1] /\ Goto(d, "call")
                  ELSE UNCHANGED call /\ Goto(d, "store")
               /\ attempt' = [attempt EXCEPT ![d] = 0]
               /\ UNCHANGED ctxEnded

Retryable(d) == /\ event[d].outcome = "empty"
                /\ ~ctxEnded
                /\ attempt[d] < MaxRetries

TryAgain(d) == /\ event' = [event EXCEPT ![d] = NoEvent]
               /\ attempt' = [attempt EXCEPT ![d] = @ + 1]
               /\ Goto(d, "call")
               /\ UNCHANGED <<ctxEnded, call>>

\* Mutant: a text that stays empty is left out.
ReturnAnyway(d) == IF event[d].outcome = "success" THEN NextCall(d)
                   ELSE IF Retryable(d) THEN TryAgain(d)
                   ELSE IF event[d].outcome = "empty" THEN NextCall(d)
                   ELSE FailDocument(d)

\* The rest of the loop of Translate, or the return of EmbedTexts.
ReturnFromCall(d) == IF event[d].outcome = "success" THEN NextCall(d)
                     ELSE IF Retryable(d) THEN TryAgain(d)
                     ELSE FailDocument(d)

-----------------------------------------------------------------------------
(* RecordUsageEvent, with the context of the call.                         *)

\* The row of the aggregates: one per day and operation, among what does not vary here.
Key(d) == event[d].operation

Increment(count, d) == [count EXCEPT ![Status(event[d].outcome)] = @ + 1]

\* Mutant: the row is read and then written.
UpsertUnlocked(d) ==
  /\ pc[d] = "record" /\ ~ctxEnded
  /\ txn' = [txn EXCEPT ![d] = [key |-> Key(d), count |-> Increment(agg[Key(d)], d)]]
  /\ Goto(d, "commit")
  /\ UNCHANGED <<ctxEnded, call, attempt, event, tables, counts>>

\* The event is inserted, which nobody sees yet, and the aggregate written: ON
\* CONFLICT DO UPDATE waits for the transaction that has written the row, and
\* counts on from what that one has committed.
UpsertDaily(d) ==
  /\ pc[d] = "record" /\ ~ctxEnded
  /\ \A e \in Documents : txn[e].key # Key(d)
  /\ txn' = [txn EXCEPT ![d] = [key |-> Key(d), count |-> Increment(agg[Key(d)], d)]]
  /\ Goto(d, "commit")
  /\ UNCHANGED <<ctxEnded, call, attempt, event, tables, counts>>

\* The database commits.
Committed(d) == /\ agg' = [agg EXCEPT ![Key(d)] = txn[d].count]
                /\ events' = [events EXCEPT ![d][Key(d)] = Increment(@, d)]
                /\ UNCHANGED metrics

CloseTxn(d) == txn' = [txn EXCEPT ![d] = NoTxn]

CommitEvent(d) ==
  /\ pc[d] = "commit" /\ ~ctxEnded
  /\ Committed(d)
  /\ CloseTxn(d)
  /\ Goto(d, "collect")
  /\ UNCHANGED <<ctxEnded, call, attempt, event, counts>>

\* The database may fail while the context lasts; afterwards every statement does.
MayFail == /\ ctxEnded \/ lost < MaxLost
           /\ lost' = IF ctxEnded THEN lost ELSE lost + 1

\* Mutant: the transaction stays open.
RecordFailsOpen(d) ==
  /\ pc[d] \in Recording
  /\ MayFail
  /\ Goto(d, "collect")
  /\ UNCHANGED <<ctxEnded, call, attempt, event, txn, tables, collector, answered>>

\* Mutant: an event that is not recorded is not counted.
RecordFailsAndReturns(d) ==
  /\ pc[d] \in Recording
  /\ MayFail
  /\ CloseTxn(d)
  /\ ReturnFromCall(d)
  /\ UNCHANGED <<tables, collector, answered>>

\* A statement fails and the transaction is rolled back; or the commit is done and
\* its answer is lost.  Emit logs the error.
RecordFails(d) ==
  /\ pc[d] \in Recording
  /\ \/ MayFail /\ UNCHANGED tables
     \/ pc[d] = "commit" /\ Committed(d) /\ UNCHANGED lost
  /\ CloseTxn(d)
  /\ Goto(d, "collect")
  /\ UNCHANGED <<ctxEnded, call, attempt, event, collector, answered>>

-----------------------------------------------------------------------------
(* The collector and the metrics of the document.                          *)

\* What Emit adds for the event, recorded or not.
Counted(usage, e) ==
  IF e.operation = "embedding" THEN [usage EXCEPT !.embeddings = @ + 1]
  ELSE [usage EXCEPT !.tokens = IF e.outcome = "failed" THEN @ ELSE @ + 1,
                     !.attempted = @ \cup {e.target},
                     !.succeeded = IF e.outcome = "success" THEN @ \cup {e.target} ELSE @]

Collect(d) == /\ pc[d] = "collect"
              /\ collector' = [collector EXCEPT ![d] = Counted(@, event[d])]
              /\ ReturnFromCall(d)
              /\ UNCHANGED <<txn, tables, lost, answered>>

\* UpsertChunks (module DocumentIndex).
StoreChunks(d) == /\ pc[d] = "store" /\ ~ctxEnded
                  /\ Goto(d, "metrics")
                  /\ UNCHANGED <<ctxEnded, call, attempt, event, txn, tables, counts>>

\* SnapshotDocument, and one statement.
SaveRow(d) == /\ metrics' = [metrics EXCEPT ![d] = collector[d]]
              /\ UNCHANGED <<events, agg>>

WriteMetrics(d) == /\ pc[d] = "metrics" /\ ~ctxEnded
                   /\ SaveRow(d)
                   /\ Leave(d, "done")
                   /\ UNCHANGED <<ctxEnded, txn, counts>>

\* The statement is not done, or it is and its answer is lost.
StoreFails(d) == /\ \/ pc[d] = "store" /\ UNCHANGED tables
                    \/ pc[d] = "metrics" /\ (UNCHANGED tables \/ SaveRow(d))
                 /\ FailDocument(d)
                 /\ UNCHANGED <<txn, counts>>

-----------------------------------------------------------------------------
(* What happens around the workers.                                        *)

DeadlineExpires == /\ ~ctxEnded
                   /\ ctxEnded' = TRUE
                   /\ UNCHANGED <<work, txn, tables, counts>>

\* The run is over, and the database rolls back what is open.
Crash == /\ \E d \in Documents : pc[d] \in Busy
         /\ ctxEnded' = TRUE
         /\ pc' = [d \in Documents |-> "dead"]
         /\ call' = [d \in Documents |-> 1]
         /\ attempt' = [d \in Documents |-> 0]
         /\ event' = [d \in Documents |-> NoEvent]
         /\ txn' = [d \in Documents |-> NoTxn]
         /\ collector' = [d \in Documents |-> NoUsage]
         /\ UNCHANGED <<tables, lost, answered>>

Works(d) == \/ TranslateOnce(d) \/ EmbedTexts(d) \/ EmbedSilently(d)
            \/ UpsertDaily(d) \/ CommitEvent(d)
            \/ Collect(d)
            \/ StoreChunks(d) \/ WriteMetrics(d)
Fails(d) == RecordFails(d) \/ StoreFails(d)

Next == \/ \E d \in Documents : Start(d) \/ Works(d) \/ Fails(d)
        \/ DeadlineExpires \/ Crash

Spec == Init /\ [][Next]_vars

\* The workers are scheduled, calls return, and statements fail once the context has
\* ended.
FairSpec == /\ Spec
            /\ \A d \in Documents : WF_vars(Works(d)) /\ WF_vars(ctxEnded /\ Fails(d))

-----------------------------------------------------------------------------
(* Properties.                                                             *)

(***************************************************************************)
(* The daily aggregates count exactly the events there are, whatever       *)
(* workers write at once, fails, is lost or crashes between the two        *)
(* statements of RecordUsageEvent (usage_metrics.go:455).                  *)
(***************************************************************************)
AggregatesMatchEvents ==
  \A k \in Operations, s \in Statuses :
    LET Of(d) == events[d][k][s] IN agg[k][s] = MapThenSumSet(Of, Documents)

(***************************************************************************)
(* The metrics of a document count every answer that its translations got, *)
(* also those of retries and those whose event was lost; so they never     *)
(* count less than the events do (main.go:674).                            *)
(***************************************************************************)
MetricsCountCalls ==
  \A d \in Documents : metrics[d] # NoRow =>
    /\ metrics[d].tokens = answered[d]
    /\ events[d]["embedding"]["success"] <= metrics[d].embeddings
    /\ events[d]["translation"]["success"] <= metrics[d].tokens

(***************************************************************************)
(* A document has metrics only when all its languages were translated:     *)
(* what the row says was attempted has succeeded, although attempts fail   *)
(* and are made again (main.go:492).                                       *)
(***************************************************************************)
MetricsMeanTranslated ==
  \A d \in Documents : metrics[d] # NoRow =>
    metrics[d].attempted = Targets /\ metrics[d].succeeded = Targets

(***************************************************************************)
(* Recording holds no worker up for ever: a document that was taken up is  *)
(* done or given up, though the workers wait for each other's rows.        *)
(***************************************************************************)
DocumentsEnd == \A d \in Documents : pc[d] \in Busy ~> pc[d] \in Ended
=============================================================================
