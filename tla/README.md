# Formal models of Civika

Civika fetches Swiss votation data, indexes it in PostgreSQL with pgvector, and
answers reads and questions about it in several languages. This directory holds
TLA+ models of its Go backend, the TLC configurations that check them, and
proofs checked by TLAPS. Paths below are relative to `src/`.

Contents: [1 Inventory](#1-inventory), [2 Modules](#2-modules),
[3 Runs](#3-runs), [4 What the violation runs show](#4-what-the-violation-runs-show),
[5 Fairness](#5-fairness), [6 Proofs](#6-proofs), [7 Not modelled](#7-not-modelled),
[8 Plan](#8-plan), [9 Running](#9-running).

## 1 Inventory

```
 openparldata.ch --HTTP--> data-fetch --files--> rag-cli index --SQL--> PostgreSQL
                             | fetch cache         | worker pool           ^   ^
                             v (volume)            v LLM: translate, embed |   |
                                                                           |   |
 browser --> frontend --> civika-api -- SQLQueryService: reads, on-demand translation
                              |
                              +------- QAService: exact + semantic cache, search, LLM
```

| Component | State | Operations | What is hard |
|---|---|---|---|
| Worker pool (`backend/cmd/rag-cli/main.go:264-530`) | the jobs channel, the results channel, the shared context, the first error | publish, receive, translate, embed, upsert, metrics, fail, cancel, deadline, return | goroutines against cancellation; a deadline without an error; blocking on channels |
| Document index (`internal/rag/index_skip.go`, `translate.go:412-630`, `store.go:284-694`, `chunk.go`) | tables documents, document_translations, rag_chunks | load state, skip or process, reuse or translate, delete, upsert, mark complete, commit | crashes between statements; skip decided by counts and hashes of rows of earlier runs in other modes |
| Concurrent indexers (the same transaction of `store.go`, open in several workers and pods) | row locks, what each DELETE has found, the committed rows | begin, delete links, find and delete chunks, write, commit, roll back, fail | READ COMMITTED, waits in a cycle, unique indexes, a shared context |
| On-demand translation (`internal/services/sql_query_service.go:604-907`; `frontend/src/components/common/PendingTranslationRefresher.tsx`) | the rows of document_translations, the set `inFlight`, goroutines, what each page shows | read, answer ready or pending, enqueue, load source, check, placeholder, model call, store, mark failed, exit, reload | reads that are stale when the job starts; ignored errors; index commits meanwhile; restarts; pages that wait |
| Question answering (`qa_service.go`, `qa_cache.go`) | two maps under one mutex | exact lookup, embed, semantic lookup, search, explain, set, expire, evict | concurrent requests across expiry; answers shared between similar questions |
| Fetch cache (`backend/cmd/data-fetch/main.go:491-720`) | a body and a meta file per URL | clean up, read, request, retry, write body, write meta | crashes between writes; several processes on one volume; files stamped in two clocks (mtime, fetched_at) |
| Corpus pipeline (`main.go:245-315`, `753-869`, `internal/rag/ingest.go:58-92`) | the normalized files, named by rank and voting | select, fetch, write, ingest all files, index | files nobody removes; kills inside a write; ranks that shift |
| Crawl (`main.go:779-1028`) | the queue, the visited set, the bodies found | take a node, skip, fetch, queue its links, stop at a cap, look a body up or fetch it | caps against reachability; links in an order that varies |
| Corpus parsing (`ingest.go`) | none | markdown, HTML, PDF, JSON | text processing |
| LLM clients (`embed.go`, `translate.go:39-411`, `query.go`) | none | one HTTP call each, retries of an answer without text | errors, time-outs, the end of the context between two attempts |
| Rate limiter (`internal/http/middleware.go:96-187`) | token buckets per client | allow, clean up | removal of idle buckets; times taken before the lock |
| Usage metrics (`usage_metrics.go`, collector in `rag-cli/main.go:661-733`) | event rows, daily aggregates, rows of metrics, a collector in memory | emit, insert, upsert, commit, count, snapshot, list | workers writing one row; events that are lost; failures between rows |
| HTTP handlers, router, config, langs, debuglog, frontend, Helm | no state of their own | | |

What makes each correct:

* the pool ends, reports the cause, drops nothing silently, commits nothing after it returned;
* two transactions at one document replace each other, and waits that lock each other up end;
* a document in the index is one whole write; a translation belongs to the source beside it; nothing changed is skipped; what stops changing is indexed in the end;
* one translation job per language and document, originals are never replaced, keys are released, a ready row matches its hash, no page waits for ever where there is a translator;
* a cached answer is for the same context and a near question, bounded in number and in time, and nothing sensitive is kept;
* a cache hit is a whole body no older than the TTL, and no crash blocks the fetch for ever;
* the corpus follows the server;
* no host gets more requests through than its rate and burst allow, and none that keeps asking is shut out;
* aggregates match events, and the metrics of a document count every call, lost event or not.

The hazards, each at its line and with the properties that would catch it, are in
`PROJECT.json`.

## 2 Modules

| Module | Models | Correspondence |
|---|---|---|
| `IndexJob` | the promise of one call of `processDocumentGroups` | `stored`: documents committed; `cut`: deadline expired; `verdict` |
| `IndexPool` | the pool with its goroutines and channels | `next`, `jobsClosed`: the publisher's loop and `close(jobs)`; `pc[w]`, `job[w]`: a worker and its job; `ctxErr`: `jobCtx.Err()`; `firstErr`: what `errOnce` kept; `results`: the buffered channel |
| `IndexPoolProofs` | theorems about `IndexPool` | |
| `DocumentIndex`, `MCDocumentIndex` | one document, from the corpus through skip, reuse and translation to the transaction | `db`: the committed rows; `txn`: what the transaction sees; `existing`: what `LoadIndexState` returned; `texts`: the documents after `EnsureMissingTranslations` |
| `DocumentIndexProofs` | theorems about `DocumentIndex` | |
| `ConcurrentIndexers`, `MC...` | the transactions of several workers and runs, on documents and intervenants they share | `chunks`, `links`, `count`: the committed rows; `todo`, `failed`: what is left of each run and whether its context is canceled; `stage[w]`, `target[w]`, `deleted[w]`, `done[w]`: a transaction, the rows its DELETE found, those it took, and how many of `Writes` it has made; `met`, `hadLinks`: history, for the properties only |
| `ConcurrentIndexersProofs` | theorems about `ConcurrentIndexers` | |
| `OnDemandTranslation`, `MC...` | one document read and translated by the API | `rows`: document_translations; `inFlight`: the map of that name; `jobs[g]`: a goroutine of `translateDocumentAsync`; `requests[c]`: the titles a request has read; `answers[c]`: what a page shows; `serverMode`: `cfg.RAG.Mode`, on which it depends whether there is a translator, and which a restart may change. `Reload` is the timer of `PendingTranslationRefresher.tsx`, `RequestFails` the error that `frontend/src/lib/api.ts` passes on |
| `OnDemandTranslationProofs` | theorems about `OnDemandTranslation` | |
| `QAService`, `MC...` | `Query` and the two caches | `exact`, `semantic`: the maps (an entry has a version of the index and an age); `lag[c]`: how long ago the request in the cache read the clock, which it does before it takes the mutex |
| `QAServiceProofs` | theorems about `QAService` | |
| `TokenBucket` | the promise of the rate limiter: a bucket per host, never forgotten, and one clock | `level[h]` |
| `RateLimiter` | `qaRateLimitMiddleware`, `qaRateLimiter.allow` and the library's buckets | `visitors`: the map; `cleaned`: the age of `lastCleanup`; `waiting[r]`: a request that has read the clock and waits for the mutex |
| `RateLimiterProofs` | theorems about `RateLimiter`, and about a window of time over it | `elapsed`, `passed[h]`: counted from any state on |
| `FetchCache` | the cache of one URL | `body`, `meta`: the two files, torn or whole; `listed[p]`: the files that the cleanup has listed and not yet looked at; `retired`: how long ago the server gave up a version |
| `Crawl`, `MC...` | what `data-fetch` downloads for one voting | `queue`, `seen`, `nodeCount`: the variables of `crawlVoting`; `bodies`: the map it returns and `bodyFromCacheOrFetch` extends; `links`: what `extractChildURLs` finds in the body of each URL, any graph; `calls[u]`: how often `fetchURL` was called; `phase`: whether the loop or one of the four lookups after it is at work |
| `UsageMetrics` | the model calls of one index run and what is recorded of them | `pc[d]`, `call[d]`, `attempt[d]`: where the worker of a document is; `event[d]`: what `emitUsageEvent` passes on; `txn[d]`: the row its open transaction has written; `events`, `agg`, `metrics`: the three tables; `collector`: `indexUsageCollector.byDocument`; `answered` (of no variable in the code): the answers that came |
| `UsageMetricsProofs` | theorems about `UsageMetrics` | |
| `CorpusPipeline` | the two commands of the indexing pods | `latest[v]`: the text the server has; `cached[v]`: the one in the fetch cache; `file[<<rank, voting>>]`: the normalized files; `at[p]`: where a pod is; `plan[p]`, `rank[p]`: the selection and the loop; `batch[p]`: what ingestion found |
| `DataFetchProofs` | theorems about `FetchCache`, `Crawl` and `CorpusPipeline` | |

Texts, documents and answers are records of a language and a version; SHA-256
hashes are equality of what is hashed; times are ages that saturate once they
exceed every limit they are compared with. The aggregates of `UsageMetrics` are those
of one day, flow, mode and model, so that their key is the operation; calls are
counted, and each answer with a usage stands for its tokens; which document has which
worker, and the order they are taken up in, is left to `IndexPool`. `IndexPool` treats a document as
its position, `DocumentIndex` follows what "upsert" does to one of them from run to
run, and `ConcurrentIndexers` has the same transaction among others: the documents of
a run share no row but those of the intervenants, and two runs share all. There a text is
known by the run that read it, so that a mixture of two shows.

Some operators are marked `Mutant` in a comment: a plausible error in the code
next to the definition it would replace. They are part of no specification;
`PROJECT.json` pairs each with the property that finds it.

## 3 Runs

States are distinct states found by TLC. Each module has a type invariant `TypeOK`. Where
it is proved (section 6), for all values of the constants, the run does not check it again.

| Run (cfg) | Checks | Bounds, and why they are enough | States |
|---|---|---|---|
| `IndexPoolDeadline` | ProcessedOnce, SuccessIsComplete, SuccessKeepsStarted, FirstErrorIsCause, CallReturns, ImplementsJob | 4 documents, 3 workers, llm mode, deadline: one worker fails, one drops a job, one is at work, and the publisher still has a document | 108,337 |
| `DocumentIndexMixed` | CommittedIsWhole, TranslationsFollowSource, SkippedIsIndexed, OriginalsAreWhole, EventuallyIndexed | 2 languages, 3 versions of 2, 1 and 2 chunks, both modes, sources {1} or {1,2}, dates on 2 versions of a single source (there the fingerprint decides, elsewhere the hashes): change, growth, shrinking, mode switches, a language or a date that comes and goes; with fairness | 155,820 |
| `ConcurrentIndexersThree` | CountedPartsAgree, DeadlockNeedsCrossing, CommitReplacesAll, RunsEnd | 3 runs, the first with 2 workers; 2 documents whose lists name 2 intervenants crosswise; all runs write the first document, with texts of 1 and 2 chunks and other lists; any of the documents indexed before or not; a fault at any statement: cycles over persons, over one document, overlaps of two and of three; with fairness | 136,330 |
| `TranslationIndex` | OneJobPerLanguage, ReadyMatchesHash, KeysAreReleased, PendingPagesSettle | 2 languages, 2 versions, 1 page, 2 goroutines (one per language is all there can be), index commits of both modes at any time, failures of every call, restarts in either mode, the API with a translator and without; with fairness | 51,706 |
| `QAServiceCaches` | AnswersAreRelevant, NothingSensitiveIsKept, CachesAreBounded, StaleAnswersEnd | 2 requests, 3 questions (two of them close, one sensitive), 2 contexts, one entry per cache: every insertion evicts; TTL 1, lag up to 1, 2 versions of the index; with fairness | 481,084 |
| `RateLimiterHosts` | ImplementsBucket, NobodyStarves | 2 hosts, 2 requests before the mutex, a request every 2 ticks, burst 2, cleanup every 2 ticks, clocks behind by up to 1: a bucket is removed, made anew, emptied, refused and asked out of order; with fairness | 67,550 |
| `FetchCacheShared` | HitsAreFresh, RunsRecover, StaleBodiesEnd | 2 processes, 2 versions, TTL 1, retention 2, one retry, crashes between every two system calls; with fairness | 521,286 |
| `CrawlCaps` | NearestFirst, CrawlIsComplete, RequestedOnce | all link graphs over 3 URLs of the host and 1 elsewhere, 2 lists of seeds, depths 1 and 2, 2 or 3 nodes: cycles, long and short ways to one URL, both caps met and not met, failures of every fetch | 1,084,928 |
| `UsageMetricsDaily` | AggregatesMatchEvents, MetricsCountCalls, MetricsMeanTranslated, DocumentsEnd | 2 documents at work at once, one language (two translations and an embedding each), one retry, one event that the database fails to record (any number once the context has ended), the deadline and a kill at any time: two transactions meet on one row, in every order; with fairness | 177,056 |
| `CorpusShifts` | SelectionIsWhole, NewestIsWritten, CorpusConverges | 1 pod, 2 votings that may pass (so that ranks shift and the selection falls back to all), 2 versions, kills at every step; with fairness | 12,479 |

Named bounds: `MaxPieces`, `NumLangs`, `MaxVersion`, `MaxJobs`, `MaxRetries`, `MaxLost`,
`Requests` and `MaxLag` cap counters the program does not cap or takes from its
configuration; `MaxAge` is where an age stops counting because no comparison of
the code distinguishes greater ones. A
language of `DocumentIndex` and `OnDemandTranslation` is a number because the
code orders languages: by the supported list, and by code.

`CHECK_DEADLOCK FALSE` is set for `IndexPoolDeadline`, where the call returns
(`CallReturns` says it stops nowhere else), for `UsageMetricsDaily`, where the
run ends (`DocumentsEnd`), for `ConcurrentIndexersThree`, where all runs end (`RunsEnd`), and for `CrawlCaps`, where the processing of a voting ends.

## 4 What the violation runs show

Each checks one sentence of the repository's documents and finds a behaviour of
the code that breaks it. The quotation is in the comment of the property and in
`PROJECT.json` "findings".

| Run (cfg) | Property | Shortest story |
|---|---|---|
| `DocumentIndexReuse` | WholeTextsStored | a text of two chunks is translated and stored; the row keeps the second chunk; the next run reuses that as the whole |
| `TranslationPage` | OriginalsAreKept | a page cut between two rows of a document hides a language that exists |

Other places where the code departs from what one reads, met while modelling and
kept in the models as the code has them, without a run of their own:

* a failed call leaves a row with a title, so that no later request misses the language and
  none translates it (`sql_query_service.go:734`, `:616`), where
  `docs/plans/PLAN-20260314-rag-index-translations.md:79` says "Après traitement async, la même
  requête renvoie la langue demandée";
* a voting whose rank has changed has two files, and the one of the higher rank is ingested
  last, be it the older (`backend/cmd/data-fetch/main.go:781`, `ingest.go:64`; compare
  `docs/data-fetch.md:6`, `:47`); `CorpusConverges` says what comes of it in the end;
* two runs that overlap at a document without links, or not indexed before, may leave chunks
  of both texts behind (`docs/plans/PLAN-20260314-rag-cli-index-commit-par-document.md:68`
  asks for "eviter etat mixte ancien/nouveau"); those the count speaks of are of one text
  (`CountedPartsAgree`), so that a later skip keeps the others;
* such a run may also meet a link of the other at another place, and then fails on the
  unique index over document, intervenant and relation (`store.go:218`);
* workers of one run may deadlock over intervenants, which fails the run, where
  `docs/plans/PLAN-20260315-indexation-pipeline-document.md:6` speaks of a parallelisation
  without conflict; and so may three runs at one document;
* in local mode, the default (`backend/config/config.go:157`, `helm/civika/values.yaml:51`), the API
  has no translator (`civika-api/main.go:151`), and `enqueueTranslationJobs` returns at once
  (`sql_query_service.go:695`), but the answer is "translation in progress" all the same (`:633`):
  unless an index run stores the language, the page reloads every 12 s for ever, where
  `docs/plans/PLAN-20260314-rag-index-translations.md:27` speaks of a job and "disponibilité au
  prochain refresh". `PendingPagesSettle` says that this is the only case in which a page that
  shows the whole document stays pending; in llm mode alone it never does;
* a list that is cut between two languages of a votation (`sql_query_service.go:123`) may be
  pending for ever: its job finds the translation done, and the page reloads every 12 s
  (with `Paged` TRUE, `PendingPagesSettle` fails);
* an original can be replaced by a job without any cut, when an index run of either mode adds
  its language between the request's read and the job's write (`OriginalsOfWholePagesKept`,
  section 6, says that nothing else does it);
* a summary that is asked for again, because the answer had only reasoning in it, leaves no
  event for the first call (`query.go`), so that the usage counts too little;
* a request may be cheaper by the ticks its clock is behind (`middleware.go:160`), every pod
  of the API has a limiter of its own, and no configuration enforces `CleanupIsSlow`;
* under React's strict mode, in development only, the effect of `VotationQASection` that asks
  the first question is canceled and not run again;
* the message of `rag-cli index` counts all documents also when the deadline cut
  the publisher off (`backend/cmd/rag-cli/main.go:211-219`);
* only `EnsureMissingTranslations` marks a row ready (`translate.go:459`), and it
  runs in llm mode alone, while a skip asks for ready rows in both modes
  (`index_skip.go:116`): runs in local mode alone never skip;
* in llm mode the expected chunks are those of the sources
  (`index_skip.go:128-146`) and the stored ones include the translations
  (`store.go:594`), so that a document with one translated language is never skipped;
* rows of languages that left the sources stay, and may let a document be skipped
  when the text of an earlier run comes back (`index_skip.go:108`); `SkipIsSound` of
  `DocumentIndexProofs` says under which condition that cannot happen;
* a placeholder's title is answered as ready (`sql_query_service.go:616`), and a
  request that read before a job finished may start another one, which puts a
  placeholder over the ready row (`:734`);
* the prompt of a summary is cut at its end, where the language instruction stands
  (`query.go:119`): `buildSummaryPrompt` fills its budget with the text of one hit and still
  writes the whole header of the next (`:467`), beyond the 220 characters it sets aside, so that
  the instruction may be lost, where `docs/plans/PLAN-20260315-llm-language-visitor.md:5` asks
  for answers in the visitor's language "de facon stricte et explicite";
* the entry that is evicted is the oldest, not the least recently used (`qa_cache.go:295`);
* a dated document whose text changes, but not its dates or its number of chunks, is
  skipped (`index_skip.go:169`); in the model every dated version has dates of its own;
* vectors answered under `embeddings` rather than `data` leave no event (`embed.go:173`),
  so that a document may have metrics with no embedding call;
* an event is written with the context of its call (`main.go:676`): what ends with the
  context, failed calls above all, is not recorded;
* the row of metrics of a document may exist although the run reports its failure, when
  the statement is done and its answer lost (`main.go:517`); a failed document whose
  statement was not done has none;
* the time of the fetch is part of a document's content (`ingest.go:521`), so that
  unchanged texts make another hash after each `data-fetch`.

## 5 Fairness

* `IndexPool`: every goroutine is scheduled (`WF` of the publisher, of each
  worker and of the return). Calls return because the HTTP clients have
  time-outs (`translate.go:85`, `embed.go:54`). Neither the deadline nor an
  error is assumed to come.
* `DocumentIndex`: the CronJob starts runs again and again (weak fairness on
  some run beginning; in which mode is not assumed) and a run goes on.
  `EventuallyIndexed` assumes in its premise that aborts end.
* `ConcurrentIndexers`: workers go on, the database ends a cycle of waits
  (`deadlock_timeout`), and what is canceled rolls back. No fault is assumed.
* `OnDemandTranslation`: goroutines are scheduled; first requests and restarts are
  not assumed. The context of a job ends after 90 s, so its calls return. A request that has
  read its rows is answered, and the timer of a pending page fires (12 s).
  `PendingPagesSettle` assumes in its premise that failures and restarts end, not that there is
  a translator.
* `QAService`: time passes and a request that is in progress goes on. `MaxLag`
  says that a goroutine which read the clock gets the mutex in bounded time; it is 1
  and not 0 in the run, or overlapping requests could hold the clock back for ever.
* `RateLimiter`: time passes, and a request that waits gets the mutex: nobody holds it
  across a call, and Go's mutex does not starve a waiter. That a host keeps asking is a premise.
* `FetchCache`: time passes, a run that has begun goes on and runs are started.
  `RunsRecover` says that some process succeeds again and again.
* `UsageMetrics`: workers are scheduled, a call and a statement end (as for `IndexPool`),
  and a statement fails once its context has ended. A worker that waits for another's row
  needs nothing more: each transaction writes one such row, and the calls of a run are
  finitely many, so that the others cannot take it for ever.
* `CorpusPipeline`: pods are started again by the CronJob, and a request for a
  voting that keeps being made does not answer from the cache for ever,
  because the cached body ages (`FetchCache` shows that: `StaleBodiesEnd`).

A premise such as "from some time on no run is aborted" is written so that the
steps which end a run normally do not make it false.

## 6 Proofs

Every theorem holds for all values of the constants that satisfy the named
assumptions of its module.

`IndexPoolProofs` (numbers of documents and of workers are arbitrary). The
invariant `IInv` follows the group of each job. Besides `TypeOK` and
`ProcessedOnce` it says: a worker names a group exactly while it is busy
(`BusyWorkers`); whatever is held, sent or started was published
(`OnlyPublished`); a published group is held or sent unless the context has
ended (`PublishedNotLost`), a started one unless an error has been kept
(`StartedNotLost`); the two error variables agree on who set which
(`ErrorsAgree`); a counted group is committed (`CountedAreStored`); the channel
is closed only at the end or after the context ended (`Closing`). None of the
promises about a success is inductive alone: "every document is stored" needs to
know where a group is between its publication and its result, and that a group
given up in between leaves a trace in `ctxErr` or `firstErr`. From it follow
`TypeCorrect`, `DocumentsProcessedOnce`, `FirstErrorKept`, `CompleteOnSuccess`,
`StartedKeptOnSuccess`, and `PoolImplementsJob`: each step of the pool is a step
of `IndexJob` or a stutter under `cut <- (ctxErr = "deadline")`,
`verdict <- outcome`.

`CallReturns` is a liveness property and stays with TLC, but what it comes from is proved.
`PoolIsNeverStuck`: until the call has returned, the caller or a worker can go on. A result
always finds room in its channel, because the results are of as many groups and the one to come
is of another (`RoomForResult`, by counting); and workers leave only after the channel is closed
or the context has ended (`LeftForGood`), upon which the publisher stops too. What can go on is
stated by the guards of the actions. `EveryStepIsOneLess`: each step uses up one of the steps that
are left, of documents (`DocumentSteps`), of workers (`Present`) and of the call (`CallSteps`).
`CallsAreShort` draws the conclusion, about the specification with a variable `taken` that counts
its steps: there are at most seven for each document, one for each worker and three of the call, in
every behaviour. The invariant is that the steps taken and those left (`StepsLeft`) are no more than
that; TLC finds behaviours of llm mode that take as many. So the pool takes finitely many steps, and
can be out of steps only when the call has returned.

`DocumentIndexProofs` (languages, versions, text lengths, the sets of source
languages and the dated versions are arbitrary). `IInv` adds to `TypeOK`, `CommittedIsWhole` and
`TranslationsFollowSource`: a ready row, in the database and in the copy a run
has loaded, says which source its content stems from (`RowsAgree`); the texts a
run holds are its documents and translations of the picked source
(`TextsAgree`); its transaction holds exactly the chunks of the languages
written so far, and their rows carry the hashes of these texts
(`TransactionAgrees`). From it follow `TypeCorrect`, `AlwaysWhole` and
`NeverStaleTranslation`. `SkipIsSound` has one hypothesis, that all sets of
source languages share a language; without it the rows of languages that left
can match a text that comes back (section 4). Its own strengthening says that a ready row of
the shared language means that the last commit was of every language, and that
the fingerprint of a dated document tells its text (`AllStored`), for which the
transaction must be followed too (`WrittenRows`).

Two theorems delimit the finding about reused translations (section 4). `OriginalsStayWhole`: what
is stored in a language that the text comes from is whole, for every corpus and every history of
runs, so that only translations are cut short. `ShortTextsStayWhole`: if no text has more than one
chunk, these are whole too, so that nothing but the length is to blame.

`UsageMetricsProofs` (documents, languages, retries and lost events are arbitrary). A row
of metrics is written from the collector, so `IInv` says for each document (`DocInv`) how
far the collector has come: the languages whose title and content are behind have succeeded
(`WorkSoFar`, which needs that the event belongs to the call, `EventAgrees`); it is behind
the answers by the one being recorded (`AnswersCounted`), and behind the committed events
by one between the commit and the count (`EventsCounted`); a row, once there, is final
(`RowAgrees`). None of it holds of the row alone. From it follow `TypeCorrect`, `CallsCounted`
and `RowsAreOfTranslated`.

`AggregatesAgree` is about all documents at once: the aggregate of an operation is a sum over
the documents of the events they have recorded. Two transactions may be open on one row, so
`AggInv` says that the sum holds of the committed rows and, for each open transaction that has
written its row, that this row is the committed one with the event of its document added
(`TxnAgrees`); it can be, because the second to come waits for the first. The sum is over
document numbers, and what one more event does to it is proved by induction over them.

`ConcurrentIndexersProofs` (documents, intervenants, workers, texts and lists are arbitrary;
the runs are finitely many and `None` is no document). `IInv` says which rows a transaction
can hold at all (`RowsKnown`), that no row is held twice (`Exclusive`), that the partners of a
transaction are among the runs it has met (`MetKnown`), that one which met only those still there
(`Undisturbed`) has found what is committed (`SeesCurrent`), and that one which will replace all
covers every chunk of its document (`Covered`). The argument about cycles has two halves: of two
transactions at one document that met nobody else, one holds nothing yet; so every wait in a
cycle is for an intervenant, and who waits for one holds only such as come before it in its
list, which makes the lists cross. From it follow `TypeCorrect`, `DeadlocksNeedCrossing`,
`CountsAreTrue` and `CommitsReplaceAll`.

`OnDemandTranslationProofs` (languages, versions, pages, originals, modes of the API and of the
index runs, and cuts are arbitrary). `OneJobPerLanguage` is inductive with `TypeOK`; `ReadyMatchesHash` needs that a job
which is past its query knows a source (`SourcesKnown`), since the hash it writes is of what it
loaded then. From it follow `TypeCorrect`, `OneJobForEach` and `ReadyIsOfItsSource`.

`OriginalsOfWholePagesKept` delimits the other finding: with two hypotheses, that requests read the
whole document (`~Paged`) and that the corpus has it in the same languages `ls` for ever, no job
replaces an original, whatever fails, restarts or is indexed anew. Its invariant `KeptInv` says
that the rows of `ls` are originals once there are rows at all (`HasOriginals`), that translations
stem from them (`StemFrom`), and that requests and jobs are only about other languages
(`OnlyOthers`). TLC refutes it without either hypothesis.

`QAServiceProofs` (requests, questions, contexts, scores and limits are arbitrary). What
`StoreAnswer` puts into a cache was decided when the request began, so `IInv` says for each stage
of a request what it knows of its question (`StageOK`), that its answer is relevant while it
is carried along (`Relevant`), and that the caches hold finitely many entries, all of which may be
kept (`Kept`). From it follow `TypeCorrect`, `OnlyRelevantAnswers`, `SensitiveIsForgotten` and
`CachesStayBounded`.

`RateLimiterProofs` (hosts, requests, rates, intervals and lags are arbitrary).
`LimiterImplementsBucket` has two hypotheses, `CleanupIsSlow` and `LagIsShort`: a removed
bucket would have been full, because it was last asked about when its host was last seen
(`SeenAgrees`, up to the lag), and a request asks for no more than a bucket can have. The
abstract request costs `Period - MaxLag`. `WindowsAreBounded` says of the
limiter itself, under the same two hypotheses, what a reader expects of it: in a window of time
that opens in any state it can be in, the requests of a host that passed have been paid from a
full bucket and the time since. It follows from a balance between what passed and the level that
the limiter's bucket stands for (`Balance`).

`DataFetchProofs`, on `FetchCache` (processes, versions, limits and retries are arbitrary). A hit is judged by
one of two clocks, so `IInv` says of both that no version had been retired for longer than the
time which is written down for it: in the meta file (`MetaIsFresh`) and in the memory of a process
that is about to write it (`StampsAreFresh`). Both need that the version the server has now is not
retired (`CurrentIsNotRetired`). From it follow `TypeCorrect` and `HitsStayFresh`.

`DataFetchProofs`, on `Crawl` (URLs, graphs of links, seeds and caps are arbitrary). The queue
holds nodes of one depth and then of the next (`ByDepth`), none nearer than it is (`NotTooNear`).
While a node of depth `d` is at its head, all visited URLs are within `d` links of the seeds, what
is nearer than `d` has been visited, and what is within `d`, or linked by what has been visited,
has been visited or waits (`Frontier`); when the queue is empty, nothing is left.
`Near`, which says how far a URL is, is a recursive function. From it follow `CrawlTypeCorrect`,
`NearestAreFirst`, `CrawlCompletes` and `RequestedAtMostOnce`, where a second request, of a URL
whose fetch has failed, is ruled out because the failure ends the run.

`DataFetchProofs`, on `CorpusPipeline` (pods, votings and versions are arbitrary).
`CorpusTypeCorrect` holds without condition; `SelectionStaysWhole` and `NewestIsAlwaysWritten`
have the hypothesis `OneAtATime`, that at most one pod is at work: the CronJob says
`concurrencyPolicy: Forbid` (`helm/civika/values.yaml`), while the first indexing job has two pods,
of which neither property is true (section 7). The invariant says that the files which the loop
has passed are whole (`WrittenSoFar`), that no file is newer than the text in the cache and that
none newer than the server's (`CacheIsNewest`), and that a pod which is about to write holds what
is in the cache (`DocsAgree`), so that what is written is no older than what is there.

The functions that `Crawl`, `CorpusPipeline` and `UsageMetrics` define by recursion over numbers
(`Near`, `ToCome`, the sum over documents) are proved to be what their definitions say, and are
reasoned about, by taking the least number of a set (`AllNumbers`): the induction theorems of the
library have an operator as parameter, which the installed provers cannot instantiate.

Only model-checked: all liveness properties (`CallReturns`, `EventuallyIndexed`, `RunsEnd`,
`KeysAreReleased`, `PendingPagesSettle`, `StaleAnswersEnd`, `NobodyStarves`, `RunsRecover`,
`StaleBodiesEnd`, `DocumentsEnd`, `CorpusConverges`), because reasoning from fairness
needs `ENABLED`, which is out of the prover's reach.

## 7 Not modelled

* Skip and reuse under two index runs at once: `ConcurrentIndexers` begins where a run has
  decided to write a document, and leaves out the rows of translations, which are under the row
  of the document.
* Two pods at work at once on the normalized files: the run of `CorpusPipeline` has one pod, and
  the theorems speak of pods that run one at a time. The model has the steps of several, and
  TLC finds both `SelectionIsWhole` and `NewestIsWritten` violated with two of them, as one
  reads a file that the other has truncated, or writes an older text over a newer.
* Parsing of markdown, HTML, PDF and of the JSON of the server: text processing.
* SQL text, paging by date, taxonomies: reads without state.
* HTTP handlers, configuration parsing, logging, the frontend but for the page that waits, and
  the manifests.
* The events of the API, which are rows of aggregates of their own, and the summary call with
  its retry (`query.go`), which `QAService` takes for a call that answers or fails; the text of
  its prompt.
* The client key of the limiter (`middleware.go`, `qaClientKey`): which requests are of one
  host is given.
* Clocks that differ between pods, and full disks.

## 8 Plan

In order of importance:

1. `IndexPool`, `IndexJob` and proofs: done.
2. `DocumentIndex` and proofs: done.
3. `OnDemandTranslation` and proofs, `QAService` and proofs: done.
4. `ConcurrentIndexers` and proofs: done. Left: the API's writes among the transactions.
5. `RateLimiter`, `TokenBucket` and proofs, windows included: done.
6. `UsageMetrics` and proofs, aggregates included: done. Left: the summary with its retries, and the events of the API.
7. `FetchCache` and proofs: done.
8. `CorpusPipeline` and proofs, pods one at a time: done. Left: what two pods at once still
   guarantee.
9. `Crawl` and proofs: done.
10. Pure functions: `ChunkDocuments` against `expectedChunkCountForTokens`, `retryDelay` in 64
    bits, and what `buildSummaryPrompt` cuts off.

## 9 Running

    tlc -workers 2 -config IndexPoolDeadline.cfg IndexPool.tla
    tlc -workers 2 -config DocumentIndexMixed.cfg MCDocumentIndex.tla
    tlapm IndexPoolProofs.tla
    tlapm DocumentIndexProofs.tla
    tlapm UsageMetricsProofs.tla
    tlapm ConcurrentIndexersProofs.tla
    tlapm OnDemandTranslationProofs.tla
    tlapm QAServiceProofs.tla
    tlapm RateLimiterProofs.tla
    tlapm DataFetchProofs.tla

`PROJECT.json` names the module of every configuration.
