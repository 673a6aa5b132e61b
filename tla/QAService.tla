----------------------------- MODULE QAService ------------------------------
(***************************************************************************)
(* Questions and the two caches of their answers: QAService.Query          *)
(* (backend/internal/services/qa_service.go) over QACache (qa_cache.go).   *)
(*                                                                         *)
(* Requests run concurrently.  Each looks into the exact cache, may look   *)
(* into the semantic one, searches the index, has the answer written, and  *)
(* stores it in both; between these steps others run, time passes and the  *)
(* index changes.  Every operation of the cache reads the clock before it  *)
(* takes the mutex.                                                        *)
(*                                                                         *)
(* Time is kept as ages, which stop counting when they no longer matter.   *)
(* An answer is known by its question, its context (language, votation,    *)
(* object, canton) and the version of the index it was made from.          *)
(***************************************************************************)
EXTENDS Naturals, FiniteSets

CONSTANTS Clients,       \* concurrent requests
          Questions,     \* sanitized questions
          Contexts,      \* what a qaCacheContext may be
          Keys,          \* the questions that are asked, each in its context
          Sensitive,     \* questions that sanitizeQuestion had to redact
          Short,         \* questions under MinSemanticQuestionChars
          Score,         \* cosineSimilarity of two questions, from 0 to 10
          Threshold,     \* SimilarityThreshold, on that scale
          SemanticEnabled,
          ExactTTL, SemanticTTL,
          ExactMaxEntries, SemanticMaxEntries,
          MaxLag,        \* bound on the ticks between reading the clock and the mutex
          Versions       \* bound on the versions of the index, 0 is the empty index

ASSUME QuestionsAssumption == Sensitive \subseteq Questions /\ Short \subseteq Questions
ASSUME KeysAssumption == Keys # {} /\ Keys \subseteq Questions \X Contexts
ASSUME ScoreAssumption == /\ Score \in [Questions \X Questions -> 0..10]
                          /\ \A q \in Questions : Score[q, q] = 10
                          /\ Threshold \in 1..10
ASSUME SemanticAssumption == SemanticEnabled \in BOOLEAN
\* Load replaces zero and negative values (config.go:171-184).
ASSUME LimitsAssumption == /\ {ExactTTL, SemanticTTL, ExactMaxEntries, SemanticMaxEntries}
                                \subseteq Nat \ {0}
                           /\ MaxLag \in Nat
ASSUME VersionsAssumption == Versions \subseteq Nat /\ 0 \in Versions

Question(k) == k[1]
Context(k) == k[2]

Longest(a, b) == IF a > b THEN a ELSE b
MaxAge == Longest(ExactTTL, SemanticTTL) + MaxLag + 1

\* An entry: the version its answer was made from, and the age of CreatedAt.
\* LastHitAt and HitCount are written by every hit and read by nothing.
Entry == [version : Versions, age : 0..MaxAge]
NoEntry == [version |-> 0, age |-> MaxAge + 1]

Answer == [key : Keys, version : Versions]

VARIABLES index,     \* the version of the index
          exact,     \* exactEntries
          semantic,  \* semanticEntries; a key is question and context here too
          pc,        \* where each request is
          key,       \* its question and context
          lag,       \* how long ago it read the clock
          vector,    \* whether it has the question's vector
          found,     \* the version of the index its search saw
          answer     \* the answer it got last, as a set of at most one

vars == <<index, exact, semantic, pc, key, lag, vector, found, answer>>

InCache == {"exact", "semantic", "set"}
Stages == {"idle", "embed", "search", "explain"} \cup InCache

TypeOK == /\ index \in Versions
          /\ exact \in [Keys -> Entry \cup {NoEntry}]
          /\ semantic \in [Keys -> Entry \cup {NoEntry}]
          /\ pc \in [Clients -> Stages]
          /\ key \in [Clients -> Keys]
          /\ lag \in [Clients -> 0..MaxLag]
          /\ vector \in [Clients -> BOOLEAN]
          /\ found \in [Clients -> Versions]
          /\ answer \in [Clients -> SUBSET Answer]
          /\ \A c \in Clients : Cardinality(answer[c]) <= 1

Entries(cache) == {k \in Keys : cache[k] # NoEntry}

Init == /\ index \in Versions
        /\ exact = [k \in Keys |-> NoEntry]
        /\ semantic = [k \in Keys |-> NoEntry]
        /\ pc = [c \in Clients |-> "idle"]
        /\ key = [c \in Clients |-> CHOOSE k \in Keys : TRUE]
        /\ lag = [c \in Clients |-> 0]
        /\ vector = [c \in Clients |-> FALSE]
        /\ found = [c \in Clients |-> 0]
        /\ answer = [c \in Clients |-> {}]

-----------------------------------------------------------------------------
(* The caches.  A lag is how far a request's clock is behind.              *)

Cacheable(q) == q \notin Sensitive
SemanticFor(q) == SemanticEnabled /\ q \notin Short

\* removeExpiredLocked: what is older than its TTL by the caller's clock.
Unexpired(cache, ttl, behind) ==
  [k \in Keys |-> IF cache[k] # NoEntry /\ cache[k].age > ttl + behind THEN NoEntry ELSE cache[k]]

\* Mutant: no eviction.
EvictNothing(cache, max) == {cache}

\* evictOldestLocked: the oldest by CreatedAt go, ties in any order.
EvictOldest(cache, max) ==
  {[k \in Keys |-> IF k \in kept THEN cache[k] ELSE NoEntry] :
     kept \in {ks \in SUBSET Entries(cache) :
                 /\ Cardinality(ks) = IF Cardinality(Entries(cache)) > max THEN max
                                      ELSE Cardinality(Entries(cache))
                 /\ \A k \in ks, e \in Entries(cache) \ ks : cache[k].age <= cache[e].age}}

Reply(c, k, v) == answer' = [answer EXCEPT ![c] = {[key |-> k, version |-> v]}]

Goto(c, stage) == pc' = [pc EXCEPT ![c] = stage]
\* Query returns: nothing is left of the request but its answer.
Finish(c) == /\ Goto(c, "idle")
             /\ lag' = [lag EXCEPT ![c] = 0]
             /\ vector' = [vector EXCEPT ![c] = FALSE]
             /\ found' = [found EXCEPT ![c] = 0]
\* The next cache operation of a request begins: it reads the clock.
EnterCache(c, stage) == Goto(c, stage) /\ lag' = [lag EXCEPT ![c] = 0]

-----------------------------------------------------------------------------
(* A request: QAService.Query.                                             *)

Ask(c, k) ==
  /\ pc[c] = "idle"
  /\ key' = [key EXCEPT ![c] = k]
  /\ answer' = [answer EXCEPT ![c] = {}]
  /\ IF Cacheable(Question(k)) THEN EnterCache(c, "exact")
                               ELSE Goto(c, "search") /\ UNCHANGED lag
  /\ UNCHANGED <<index, exact, semantic, vector, found>>

RemoveExpired(c) ==
  /\ exact' = Unexpired(exact, ExactTTL, lag[c])
  /\ semantic' = Unexpired(semantic, SemanticTTL, lag[c])

\* Mutant: a hit makes an entry young again.
ExactHitRefreshes(c) ==
  LET k == key[c]
  IN  /\ pc[c] = "exact"
      /\ Unexpired(exact, ExactTTL, lag[c])[k] # NoEntry
      /\ exact' = [Unexpired(exact, ExactTTL, lag[c]) EXCEPT ![k].age = lag[c]]
      /\ semantic' = Unexpired(semantic, SemanticTTL, lag[c])
      /\ Reply(c, k, exact[k].version)
      /\ Finish(c)
      /\ UNCHANGED <<index, key>>

ExactHit(c) ==
  LET k == key[c]
  IN  /\ pc[c] = "exact"
      /\ Unexpired(exact, ExactTTL, lag[c])[k] # NoEntry
      /\ RemoveExpired(c)
      /\ Reply(c, k, exact[k].version)
      /\ Finish(c)
      /\ UNCHANGED <<index, key>>

ExactMiss(c) ==
  /\ pc[c] = "exact"
  /\ Unexpired(exact, ExactTTL, lag[c])[key[c]] = NoEntry
  /\ RemoveExpired(c)
  /\ Goto(c, IF SemanticFor(Question(key[c])) THEN "embed" ELSE "search")
  /\ UNCHANGED <<index, key, lag, vector, found, answer>>

EmbedQuestion(c) ==
  /\ pc[c] = "embed"
  /\ vector' = [vector EXCEPT ![c] = TRUE]
  /\ EnterCache(c, "semantic")
  /\ UNCHANGED <<index, exact, semantic, key, found, answer>>

\* Mutant: the best entry is taken whatever its context.
NearestAnywhere(c, cache) ==
  LET q == Question(key[c])
      near == {k \in Entries(cache) : Score[q, Question(k)] >= Threshold}
  IN  {k \in near : \A e \in near : Score[q, Question(e)] <= Score[q, Question(k)]}

\* The entries GetSemantic may take: the best of the context, at the threshold or over.
Nearest(c, cache) ==
  LET q == Question(key[c])
      near == {k \in Entries(cache) : /\ Context(k) = Context(key[c])
                                      /\ Score[q, Question(k)] >= Threshold}
  IN  {k \in near : \A e \in near : Score[q, Question(e)] <= Score[q, Question(k)]}

SemanticHit(c) ==
  /\ pc[c] = "semantic"
  /\ RemoveExpired(c)
  /\ LET cache == Unexpired(semantic, SemanticTTL, lag[c])
     IN  \E k \in Nearest(c, cache) : Reply(c, k, cache[k].version)
  /\ Finish(c)
  /\ UNCHANGED <<index, key>>

SemanticMiss(c) ==
  /\ pc[c] = "semantic"
  /\ Nearest(c, Unexpired(semantic, SemanticTTL, lag[c])) = {}
  /\ RemoveExpired(c)
  /\ Goto(c, "search")
  /\ UNCHANGED <<index, key, lag, vector, found, answer>>

\* SearchSimilar, or QueryRAG; the empty index has no hit, and needs no explanation.
Search(c) ==
  /\ pc[c] = "search"
  /\ \/ /\ index # 0
        /\ found' = [found EXCEPT ![c] = index]
        /\ Goto(c, "explain")
        /\ UNCHANGED <<lag, vector, answer>>
     \/ /\ index = 0 /\ Cacheable(Question(key[c]))
        /\ EnterCache(c, "set")
        /\ UNCHANGED <<vector, found, answer>>
     \/ /\ index = 0 /\ ~Cacheable(Question(key[c]))
        /\ Reply(c, key[c], index)
        /\ Finish(c)
  /\ UNCHANGED <<index, exact, semantic, key>>

\* Mutant: every answer is stored.
ExplainAndStore(c) ==
  /\ pc[c] = "explain"
  /\ EnterCache(c, "set")
  /\ UNCHANGED <<index, exact, semantic, key, vector, found, answer>>

\* ExplainVotation.
Explain(c) ==
  /\ pc[c] = "explain"
  /\ \/ /\ Cacheable(Question(key[c]))
        /\ EnterCache(c, "set")
        /\ UNCHANGED <<vector, found, answer>>
     \/ /\ ~Cacheable(Question(key[c]))
        /\ Reply(c, key[c], found[c])
        /\ Finish(c)
  /\ UNCHANGED <<index, exact, semantic, key>>

\* QACache.Set: in the exact cache, then in the semantic one if there is a vector.
StoreAnswer(c) ==
  /\ pc[c] = "set"
  /\ LET entry == [version |-> found[c], age |-> lag[c]]
         Stored(cache, ttl) == [Unexpired(cache, ttl, lag[c]) EXCEPT ![key[c]] = entry]
     IN  /\ exact' \in EvictOldest(Stored(exact, ExactTTL), ExactMaxEntries)
         /\ IF vector[c] /\ SemanticFor(Question(key[c]))
            THEN semantic' \in EvictOldest(Stored(semantic, SemanticTTL), SemanticMaxEntries)
            ELSE semantic' = Unexpired(semantic, SemanticTTL, lag[c])
  /\ Reply(c, key[c], found[c])
  /\ Finish(c)
  /\ UNCHANGED <<index, key>>

\* The embedder, the database or the model fails: an error, and nothing is stored.
FailRequest(c) ==
  /\ pc[c] \in {"embed", "search", "explain"}
  /\ Finish(c)
  /\ UNCHANGED <<index, exact, semantic, key, answer>>

RequestStep(c) == \/ ExactHit(c)
                  \/ ExactMiss(c)
                  \/ EmbedQuestion(c)
                  \/ SemanticHit(c)
                  \/ SemanticMiss(c)
                  \/ Search(c)
                  \/ Explain(c)
                  \/ StoreAnswer(c)
                  \/ FailRequest(c)

-----------------------------------------------------------------------------
(* Time, and the index.                                                    *)

Older(n) == IF n < MaxAge THEN n + 1 ELSE n
Aged(cache) ==
  [k \in Keys |-> IF cache[k] = NoEntry THEN NoEntry
                  ELSE [cache[k] EXCEPT !.age = Older(@)]]

Tick == /\ \A c \in Clients : pc[c] \in InCache => lag[c] < MaxLag
        /\ lag' = [c \in Clients |-> IF pc[c] \in InCache THEN lag[c] + 1 ELSE lag[c]]
        /\ exact' = Aged(exact)
        /\ semantic' = Aged(semantic)
        /\ UNCHANGED <<index, pc, key, vector, found, answer>>

IndexChanges == /\ index + 1 \in Versions
                /\ index' = index + 1
                /\ UNCHANGED <<exact, semantic, pc, key, lag, vector, found, answer>>

Next == \/ \E c \in Clients, k \in Keys : Ask(c, k)
        \/ \E c \in Clients : RequestStep(c)
        \/ Tick
        \/ IndexChanges

Spec == Init /\ [][Next]_vars

(***************************************************************************)
(* Time passes, and a request that has begun goes on: its calls have       *)
(* timeouts and the mutex is never held across one.  With MaxLag = 0       *)
(* overlapping requests could hold Tick back for ever, so that a run that  *)
(* checks liveness takes MaxLag > 0.                                       *)
(***************************************************************************)
Fairness == WF_vars(Tick) /\ \A c \in Clients : WF_vars(RequestStep(c))
FairSpec == Spec /\ Fairness

-----------------------------------------------------------------------------
(* Properties.                                                             *)

Answers(c) == answer'[c] # answer[c] /\ answer'[c] # {}

(***************************************************************************)
(* An answer is for the context that was asked, and for the question, or   *)
(* for one that is close enough: "En cas de doute (score faible ou         *)
(* contexte incompatible), le cache est ignore" (docs/advanced-usage.md).  *)
(***************************************************************************)
AnswersAreRelevant ==
  \A c \in Clients : \A a \in answer[c] :
    /\ Context(a.key) = Context(key[c])
    /\ \/ Question(a.key) = Question(key[c])
       \/ /\ SemanticFor(Question(key[c])) /\ SemanticFor(Question(a.key))
          /\ Score[Question(key[c]), Question(a.key)] >= Threshold

(***************************************************************************)
(* Nothing of a question that had to be redacted is kept, and neither      *)
(* cache outgrows its limit ("cap taille stricte"), however the requests   *)
(* interleave (PLAN-20260315-llm-usage-audit-and-token-reduction.md:48,    *)
(* :355).                                                                  *)
(***************************************************************************)
NothingSensitiveIsKept ==
  \A k \in Entries(exact) \cup Entries(semantic) : Question(k) \notin Sensitive
CachesAreBounded == /\ Cardinality(Entries(exact)) <= ExactMaxEntries
                    /\ Cardinality(Entries(semantic)) <= SemanticMaxEntries

(***************************************************************************)
(* The caches have no invalidation, only their TTL.  It must be enough:    *)
(* once the index stops changing, from some time on no request is answered *)
(* from an older index, whatever is asked again and again.                 *)
(***************************************************************************)
StaleAnswersEnd ==
  \A v \in Versions :
    <>[](index = v)
      => <>[][\A c \in Clients : Answers(c) => \A a \in answer'[c] : a.version = v]_vars
=============================================================================
