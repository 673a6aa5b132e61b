-------------------------- MODULE QAServiceProofs ---------------------------
(***************************************************************************)
(* Proofs about QAService.  For any number of requests, questions and      *)
(* entries, however the requests interleave with the expiry of entries and *)
(* with changes of the index: an answer is for the context and, nearly,    *)
(* the question it is given to, nothing of a redacted question is kept,    *)
(* and the caches do not outgrow their limits.                             *)
(*                                                                         *)
(* The invariant adds what a request knows of its question at each stage,  *)
(* since what StoreAnswer puts into the caches was decided when the        *)
(* request began.                                                          *)
(***************************************************************************)
EXTENDS QAService, FiniteSetTheorems, TLAPS

Cache == [Keys -> Entry \cup {NoEntry}]

Kept(cache, max) == /\ cache \in Cache
                    /\ IsFiniteSet(Entries(cache))
                    /\ Cardinality(Entries(cache)) <= max
                    /\ \A k \in Entries(cache) : Cacheable(Question(k))

CachesOK == /\ Kept(exact, ExactMaxEntries)
            /\ Kept(semantic, SemanticMaxEntries)
            /\ \A k \in Entries(semantic) : SemanticFor(Question(k))

\* A request that is in the caches may be, in the semantic one too if it has a vector.
StageOK(c) ==
  /\ pc[c] \in InCache \cup {"embed"} => Cacheable(Question(key[c]))
  /\ pc[c] \in {"embed", "semantic"} => SemanticFor(Question(key[c]))
  /\ pc[c] = "idle" => ~vector[c]
  /\ vector[c] => SemanticFor(Question(key[c]))

Relevant(c) == \A a \in answer[c] :
    /\ Context(a.key) = Context(key[c])
    /\ \/ Question(a.key) = Question(key[c])
       \/ /\ SemanticFor(Question(key[c])) /\ SemanticFor(Question(a.key))
          /\ Score[Question(key[c]), Question(a.key)] >= Threshold

RequestsOK == \A c \in Clients : StageOK(c) /\ Relevant(c)

IInv == TypeOK /\ CachesOK /\ RequestsOK

-----------------------------------------------------------------------------
(* The operations of the caches.                                           *)

LEMMA AgesAreNat == /\ MaxAge \in Nat /\ MaxLag \in Nat /\ MaxLag < MaxAge
                    /\ ExactMaxEntries \in Nat \ {0} /\ SemanticMaxEntries \in Nat \ {0}
BY LimitsAssumption DEF MaxAge, Longest

LEMMA NoEntryIsNone == NoEntry \notin Entry
BY AgesAreNat DEF NoEntry, Entry

LEMMA UnexpiredKeeps ==
  ASSUME NEW cache \in Cache, NEW ttl, NEW behind
  PROVE  /\ Unexpired(cache, ttl, behind) \in Cache
         /\ Entries(Unexpired(cache, ttl, behind)) \subseteq Entries(cache)
         /\ \A k \in Entries(Unexpired(cache, ttl, behind)) :
              Unexpired(cache, ttl, behind)[k] = cache[k]
BY DEF Unexpired, Entries, Cache

LEMMA AgedKeeps ==
  ASSUME NEW cache \in Cache
  PROVE  Aged(cache) \in Cache /\ Entries(Aged(cache)) \subseteq Entries(cache)
<1>1. ASSUME NEW e \in Entry PROVE [e EXCEPT !.age = Older(@)] \in Entry
  <2>1. e.version \in Versions /\ e.age \in 0..MaxAge
    BY DEF Entry
  <2>2. Older(e.age) \in 0..MaxAge
    BY <2>1, AgesAreNat DEF Older
  <2>. QED
    BY <2>1, <2>2 DEF Entry
<1>. QED
  BY <1>1 DEF Aged, Entries, Cache

LEMMA PutKeeps ==
  ASSUME NEW cache \in Cache, NEW k \in Keys, NEW e \in Entry
  PROVE  /\ [cache EXCEPT ![k] = e] \in Cache
         /\ Entries([cache EXCEPT ![k] = e]) \subseteq Entries(cache) \cup {k}
BY DEF Entries, Cache

LEMMA EvictKeeps ==
  ASSUME NEW cache \in Cache, NEW max \in Nat, IsFiniteSet(Entries(cache)),
         NEW new \in EvictOldest(cache, max)
  PROVE  /\ new \in Cache
         /\ Entries(new) \subseteq Entries(cache)
         /\ IsFiniteSet(Entries(new))
         /\ Cardinality(Entries(new)) <= max
<1>1. PICK kept \in SUBSET Entries(cache) :
        /\ Cardinality(kept) = IF Cardinality(Entries(cache)) > max THEN max
                               ELSE Cardinality(Entries(cache))
        /\ new = [k \in Keys |-> IF k \in kept THEN cache[k] ELSE NoEntry]
  BY DEF EvictOldest
<1>2. new \in Cache
  BY <1>1 DEF Cache
<1>3. Entries(new) = kept
  BY <1>1 DEF Entries
<1>4. Cardinality(Entries(cache)) \in Nat
  BY FS_CardinalityType
<1>5. IsFiniteSet(kept)
  BY FS_Subset
<1>. QED
  BY <1>1, <1>2, <1>3, <1>4, <1>5

-----------------------------------------------------------------------------
(* What is kept.                                                           *)

LEMMA KeptSubset ==
  ASSUME NEW cache, NEW max \in Nat, Kept(cache, max),
         NEW new \in Cache, Entries(new) \subseteq Entries(cache)
  PROVE  Kept(new, max)
<1>1. /\ IsFiniteSet(Entries(new))
      /\ Cardinality(Entries(new)) <= Cardinality(Entries(cache))
  BY FS_Subset DEF Kept
<1>2. Cardinality(Entries(new)) \in Nat /\ Cardinality(Entries(cache)) \in Nat
  BY <1>1, FS_CardinalityType DEF Kept
<1>. QED
  BY <1>1, <1>2 DEF Kept

LEMMA KeptUnexpired ==
  ASSUME NEW cache, NEW max \in Nat, Kept(cache, max), NEW ttl, NEW behind
  PROVE  Kept(Unexpired(cache, ttl, behind), max)
BY UnexpiredKeeps, KeptSubset DEF Kept

LEMMA KeptPut ==
  ASSUME NEW cache, NEW max \in Nat, Kept(cache, max), NEW ttl, NEW behind,
         NEW k \in Keys, Cacheable(Question(k)), NEW e \in Entry,
         NEW new \in EvictOldest([Unexpired(cache, ttl, behind) EXCEPT ![k] = e], max)
  PROVE  Kept(new, max) /\ Entries(new) \subseteq Entries(cache) \cup {k}
<1>. DEFINE u == Unexpired(cache, ttl, behind)
            put == [u EXCEPT ![k] = e]
<1>1. u \in Cache /\ Kept(u, max) /\ Entries(u) \subseteq Entries(cache)
  BY KeptUnexpired, UnexpiredKeeps DEF Kept
<1>. HIDE DEF u
<1>2. put \in Cache /\ Entries(put) \subseteq Entries(u) \cup {k}
  BY <1>1, PutKeeps
<1>3. IsFiniteSet(Entries(u) \cup {k})
  BY <1>1, FS_AddElement DEF Kept
<1>4. IsFiniteSet(Entries(put))
  BY <1>2, <1>3, FS_Subset
<1>5. new \in EvictOldest(put, max)
  BY DEF u
<1>. HIDE DEF put
<1>6. /\ new \in Cache /\ Entries(new) \subseteq Entries(put)
      /\ IsFiniteSet(Entries(new)) /\ Cardinality(Entries(new)) <= max
  BY <1>2, <1>4, <1>5, EvictKeeps
<1>7. Entries(new) \subseteq Entries(u) \cup {k}
  BY <1>2, <1>6
<1>8. \A j \in Entries(u) \cup {k} : Cacheable(Question(j))
  BY <1>1 DEF Kept
<1>9. Kept(new, max)
  BY <1>6, <1>7, <1>8 DEF Kept
<1>. QED
  BY <1>1, <1>7, <1>9

LEMMA EntryVersion ==
  ASSUME NEW cache \in Cache, NEW k \in Entries(cache)
  PROVE  k \in Keys /\ cache[k] \in Entry /\ cache[k].version \in Versions
BY DEF Cache, Entries, Entry

-----------------------------------------------------------------------------
(* What a step of one request leaves of the others.                        *)

Others(c) == \A d \in Clients \ {c} :
  /\ pc'[d] = pc[d] /\ key'[d] = key[d] /\ vector'[d] = vector[d] /\ answer'[d] = answer[d]

\* The variables of the requests have their types after the step.
RequestTypes == /\ pc \in [Clients -> Stages]
                /\ key \in [Clients -> Keys]
                /\ lag \in [Clients -> 0..MaxLag]
                /\ vector \in [Clients -> BOOLEAN]
                /\ found \in [Clients -> Versions]
                /\ answer \in [Clients -> SUBSET Answer]
                /\ \A d \in Clients : Cardinality(answer[d]) <= 1

LEMMA OneRequest ==
  ASSUME IInv, NEW c \in Clients, RequestTypes', CachesOK', index' \in Versions,
         Others(c), StageOK(c)', Relevant(c)'
  PROVE  IInv'
<1>1. TypeOK'
  BY DEF TypeOK, RequestTypes, CachesOK, Kept, Cache
<1>2. ASSUME NEW d \in Clients, d # c PROVE StageOK(d)' /\ Relevant(d)'
  BY <1>2 DEF Others, IInv, RequestsOK, StageOK, Relevant
<1>. QED
  BY <1>1, <1>2 DEF IInv, RequestsOK

LEMMA GotoKeeps ==
  ASSUME TypeOK, NEW c \in Clients, NEW stage \in Stages, Goto(c, stage)
  PROVE  /\ pc' \in [Clients -> Stages]
         /\ pc'[c] = stage
         /\ \A d \in Clients \ {c} : pc'[d] = pc[d]
BY DEF TypeOK, Goto

LEMMA EnterKeeps ==
  ASSUME TypeOK, NEW c \in Clients, NEW stage \in Stages, EnterCache(c, stage)
  PROVE  /\ pc' \in [Clients -> Stages] /\ lag' \in [Clients -> 0..MaxLag]
         /\ pc'[c] = stage
         /\ \A d \in Clients \ {c} : pc'[d] = pc[d]
BY GotoKeeps, AgesAreNat DEF TypeOK, EnterCache

LEMMA FinishKeeps ==
  ASSUME TypeOK, NEW c \in Clients, Finish(c)
  PROVE  /\ pc' \in [Clients -> Stages] /\ lag' \in [Clients -> 0..MaxLag]
         /\ vector' \in [Clients -> BOOLEAN] /\ found' \in [Clients -> Versions]
         /\ pc'[c] = "idle" /\ vector'[c] = FALSE
         /\ \A d \in Clients \ {c} : pc'[d] = pc[d] /\ vector'[d] = vector[d]
<1>1. "idle" \in Stages
  BY DEF Stages
<1>2. /\ pc' \in [Clients -> Stages] /\ pc'[c] = "idle"
      /\ \A d \in Clients \ {c} : pc'[d] = pc[d]
  BY <1>1, GotoKeeps DEF Finish
<1>3. lag' \in [Clients -> 0..MaxLag] /\ found' \in [Clients -> Versions]
  BY AgesAreNat, VersionsAssumption DEF TypeOK, Finish
<1>4. /\ vector' \in [Clients -> BOOLEAN] /\ vector'[c] = FALSE
      /\ \A d \in Clients \ {c} : vector'[d] = vector[d]
  BY DEF TypeOK, Finish
<1>. QED
  BY <1>2, <1>3, <1>4

LEMMA ReplyKeeps ==
  ASSUME TypeOK, NEW c \in Clients, NEW k \in Keys, NEW v \in Versions, Reply(c, k, v)
  PROVE  /\ answer' \in [Clients -> SUBSET Answer]
         /\ \A d \in Clients : Cardinality(answer'[d]) <= 1
         /\ answer'[c] = {[key |-> k, version |-> v]}
         /\ \A d \in Clients \ {c} : answer'[d] = answer[d]
<1>. DEFINE a == [key |-> k, version |-> v]
<1>1. a \in Answer /\ Cardinality({a}) = 1
  BY FS_Singleton DEF Answer
<1>. HIDE DEF a
<1>2. answer' = [answer EXCEPT ![c] = {a}]
  BY DEF Reply, a
<1>3. answer' \in [Clients -> SUBSET Answer]
  BY <1>1, <1>2 DEF TypeOK
<1>4. answer'[c] = {a} /\ \A d \in Clients \ {c} : answer'[d] = answer[d]
  BY <1>2 DEF TypeOK
<1>5. ASSUME NEW d \in Clients PROVE Cardinality(answer'[d]) <= 1
  <2>1. CASE d = c
    <3>1. answer'[d] = {a}
      BY <1>4, <2>1
    <3>2. Cardinality(answer'[d]) = 1
      BY <1>1, <3>1, Zenon
    <3>. QED
      BY <3>2
  <2>2. CASE d # c
    BY <1>4, <2>2 DEF TypeOK
  <2>. QED
    BY <2>1, <2>2
<1>. QED
  BY <1>3, <1>4, <1>5 DEF a

\* What any request's expiry does to the caches.
LEMMA ExpiryKeeps ==
  ASSUME CachesOK, NEW c \in Clients, RemoveExpired(c)
  PROVE  CachesOK'
<1>1. Kept(exact', ExactMaxEntries) /\ Kept(semantic', SemanticMaxEntries)
  BY AgesAreNat, KeptUnexpired DEF CachesOK, RemoveExpired
<1>2. Entries(semantic') \subseteq Entries(semantic)
  BY UnexpiredKeeps DEF CachesOK, Kept, RemoveExpired
<1>3. \A k \in Entries(semantic') : SemanticFor(Question(k))
  BY <1>2 DEF CachesOK
<1>. QED
  BY <1>1, <1>3 DEF CachesOK, Kept, Entries

LEMMA SameCaches == ASSUME CachesOK, UNCHANGED <<exact, semantic>> PROVE CachesOK'
BY DEF CachesOK, Kept, Entries

-----------------------------------------------------------------------------
(* The steps.                                                              *)

LEMMA InitInv == Init => IInv
<1> SUFFICES ASSUME Init PROVE IInv
  OBVIOUS
<1>1. Cardinality({}) = 0 /\ IsFiniteSet({})
  BY FS_EmptySet
<1>2. Entries([k \in Keys |-> NoEntry]) = {} /\ [k \in Keys |-> NoEntry] \in Cache
  BY DEF Entries, Cache
<1>3. CachesOK
  <2>1. exact = [k \in Keys |-> NoEntry] /\ semantic = [k \in Keys |-> NoEntry]
    BY DEF Init
  <2>2. Entries(exact) = {} /\ exact \in Cache /\ Entries(semantic) = {} /\ semantic \in Cache
    BY <1>2, <2>1
  <2>. QED
    BY <1>1, <2>2, AgesAreNat DEF CachesOK, Kept
<1>4. (CHOOSE k \in Keys : TRUE) \in Keys
  BY KeysAssumption
<1>5. TypeOK
  BY <1>1, <1>3, <1>4, AgesAreNat, VersionsAssumption
     DEF Init, TypeOK, CachesOK, Kept, Cache, Stages
<1>6. RequestsOK
  BY DEF Init, RequestsOK, StageOK, Relevant, InCache
<1>. QED
  BY <1>3, <1>5, <1>6 DEF IInv

LEMMA AskInv ==
  ASSUME IInv, NEW c \in Clients, NEW k \in Keys, Ask(c, k)
  PROVE  IInv'
<1>1. TypeOK /\ CachesOK /\ StageOK(c) /\ pc[c] = "idle"
  BY DEF IInv, RequestsOK, Ask
<1>2. key' = [key EXCEPT ![c] = k] /\ answer' = [answer EXCEPT ![c] = {}]
  BY DEF Ask
<1>3. /\ pc' \in [Clients -> Stages] /\ lag' \in [Clients -> 0..MaxLag]
      /\ \A d \in Clients \ {c} : pc'[d] = pc[d]
      /\ \/ pc'[c] = "exact" /\ Cacheable(Question(k))
         \/ pc'[c] = "search"
  <2>1. "exact" \in Stages /\ "search" \in Stages
    BY DEF Stages, InCache
  <2>2. CASE Cacheable(Question(k))
    BY <1>1, <2>1, <2>2, EnterKeeps DEF Ask
  <2>3. CASE ~Cacheable(Question(k))
    BY <1>1, <2>1, <2>3, GotoKeeps DEF Ask, TypeOK
  <2>. QED
    BY <2>2, <2>3
<1>4. /\ answer' \in [Clients -> SUBSET Answer]
      /\ \A d \in Clients : Cardinality(answer'[d]) <= 1
      /\ answer'[c] = {}
      /\ \A d \in Clients \ {c} : answer'[d] = answer[d]
  BY <1>1, <1>2, FS_EmptySet DEF TypeOK
<1>5. key' \in [Clients -> Keys] /\ key'[c] = k /\ \A d \in Clients \ {c} : key'[d] = key[d]
  BY <1>1, <1>2 DEF TypeOK
<1>6. RequestTypes'
  BY <1>1, <1>3, <1>4, <1>5 DEF RequestTypes, TypeOK, Ask
<1>7. Others(c)
  BY <1>3, <1>4, <1>5 DEF Others, Ask
<1>8. StageOK(c)' /\ Relevant(c)'
  BY <1>1, <1>3, <1>4, <1>5 DEF StageOK, Relevant, InCache, Ask
<1>9. CachesOK' /\ index' \in Versions
  BY <1>1, SameCaches DEF Ask, TypeOK
<1>. QED
  BY <1>6, <1>7, <1>8, <1>9, OneRequest

\* A request that ends with an answer that was found or made for it.
LEMMA ReplyInv ==
  ASSUME IInv, NEW c \in Clients, NEW k \in Keys, NEW v \in Versions,
         Reply(c, k, v), Finish(c), CachesOK', UNCHANGED <<index, key>>,
         Context(k) = Context(key[c]),
         \/ Question(k) = Question(key[c])
         \/ /\ SemanticFor(Question(key[c])) /\ SemanticFor(Question(k))
            /\ Score[Question(key[c]), Question(k)] >= Threshold
  PROVE  IInv'
<1>1. TypeOK
  BY DEF IInv
<1>2. RequestTypes'
  BY <1>1, FinishKeeps, ReplyKeeps DEF RequestTypes, TypeOK
<1>3. Others(c)
  BY <1>1, FinishKeeps, ReplyKeeps DEF Others
<1>4. StageOK(c)'
  BY <1>1, FinishKeeps DEF StageOK, InCache
<1>5. Relevant(c)'
  <2>1. answer'[c] = {[key |-> k, version |-> v]}
    BY <1>1, ReplyKeeps
  <2>2. ASSUME NEW a \in answer'[c] PROVE a.key = k
    <3>1. a = [key |-> k, version |-> v]
      BY <2>1, Zenon
    <3>. QED
      BY <3>1
  <2>3. key'[c] = key[c]
    OBVIOUS
  <2> SUFFICES ASSUME NEW a \in answer'[c]
               PROVE  /\ Context(a.key) = Context(key[c])
                      /\ \/ Question(a.key) = Question(key[c])
                         \/ /\ SemanticFor(Question(key[c])) /\ SemanticFor(Question(a.key))
                            /\ Score[Question(key[c]), Question(a.key)] >= Threshold
    BY <2>3, Zenon DEF Relevant
  <2>4. a.key = k
    BY <2>2
  <2>. QED
    BY <2>4, Zenon
<1>. QED
  BY <1>1, <1>2, <1>3, <1>4, <1>5, OneRequest DEF TypeOK

\* A request that goes on: its question and its answer stay.
LEMMA GoOnInv ==
  ASSUME IInv, NEW c \in Clients, NEW stage \in Stages, CachesOK',
         pc' \in [Clients -> Stages], pc'[c] = stage, \A d \in Clients \ {c} : pc'[d] = pc[d],
         lag' \in [Clients -> 0..MaxLag], vector' \in [Clients -> BOOLEAN],
         \A d \in Clients \ {c} : vector'[d] = vector[d],
         found' \in [Clients -> Versions], UNCHANGED <<index, key, answer>>,
         stage \in InCache \cup {"embed"} => Cacheable(Question(key[c])),
         stage \in {"embed", "semantic"} \/ vector'[c] => SemanticFor(Question(key[c])),
         stage = "idle" => ~vector'[c]
  PROVE  IInv'
<1>1. RequestTypes'
  BY DEF IInv, TypeOK, RequestTypes
<1>2. Others(c)
  BY DEF Others
<1>3. StageOK(c)'
  BY DEF StageOK
<1>4. Relevant(c)'
  BY DEF IInv, RequestsOK, Relevant
<1>. QED
  BY <1>1, <1>2, <1>3, <1>4, OneRequest DEF IInv, TypeOK

LEMMA StoreInv ==
  ASSUME IInv, NEW c \in Clients, StoreAnswer(c)
  PROVE  IInv'
<1>. DEFINE k == key[c]
            entry == [version |-> found[c], age |-> lag[c]]
            Stored(cache, ttl) == [Unexpired(cache, ttl, lag[c]) EXCEPT ![k] = entry]
<1>1. TypeOK /\ CachesOK /\ StageOK(c) /\ pc[c] = "set"
  BY DEF IInv, RequestsOK, StoreAnswer
<1>2. k \in Keys /\ found[c] \in Versions /\ Cacheable(Question(k))
  BY <1>1 DEF TypeOK, StageOK, InCache
<1>3. entry \in Entry
  BY <1>1, <1>2, AgesAreNat DEF TypeOK, Entry
<1>. HIDE DEF entry
<1>4. Kept(exact', ExactMaxEntries)
  <2>1. exact' \in EvictOldest(Stored(exact, ExactTTL), ExactMaxEntries)
    BY DEF StoreAnswer, entry
  <2>. QED
    BY <1>1, <1>2, <1>3, <2>1, AgesAreNat, KeptPut DEF CachesOK
<1>5. /\ Kept(semantic', SemanticMaxEntries)
      /\ \A j \in Entries(semantic') : SemanticFor(Question(j))
  <2>1. CASE vector[c] /\ SemanticFor(Question(k))
    <3>1. semantic' \in EvictOldest(Stored(semantic, SemanticTTL), SemanticMaxEntries)
      BY <2>1 DEF StoreAnswer, entry
    <3>2. Kept(semantic', SemanticMaxEntries) /\ Entries(semantic') \subseteq Entries(semantic) \cup {k}
      BY <1>1, <1>2, <1>3, <3>1, AgesAreNat, KeptPut DEF CachesOK
    <3>. QED
      BY <1>1, <2>1, <3>2 DEF CachesOK
  <2>2. CASE ~(vector[c] /\ SemanticFor(Question(k)))
    <3>1. semantic' = Unexpired(semantic, SemanticTTL, lag[c])
      BY <2>2 DEF StoreAnswer
    <3>. QED
      BY <1>1, <3>1, AgesAreNat, KeptUnexpired, UnexpiredKeeps DEF CachesOK, Kept
  <2>. QED
    BY <2>1, <2>2
<1>6. CachesOK'
  BY <1>4, <1>5 DEF CachesOK, Kept, Entries
<1>7. Reply(c, k, found[c]) /\ Finish(c) /\ UNCHANGED <<index, key>>
  BY DEF StoreAnswer
<1>. QED
  BY <1>2, <1>6, <1>7, ReplyInv

LEMMA RequestInv ==
  ASSUME IInv, NEW c \in Clients, RequestStep(c)
  PROVE  IInv'
<1>. DEFINE q == Question(key[c])
<1>1. TypeOK /\ CachesOK /\ StageOK(c)
  BY DEF IInv, RequestsOK
<1>2. key[c] \in Keys
  BY <1>1 DEF TypeOK
<1>3. \A stage \in InCache \cup {"embed", "search", "explain", "idle"} : stage \in Stages
  BY DEF Stages
<1>4. CASE ExactHit(c)
  <2>1. CachesOK'
    BY <1>1, <1>4, ExpiryKeeps DEF ExactHit
  <2>2. key[c] \in Entries(exact)
    BY <1>1, <1>2, <1>4, UnexpiredKeeps DEF ExactHit, Entries, CachesOK, Kept
  <2>3. exact[key[c]].version \in Versions
    BY <1>1, <2>2, EntryVersion DEF CachesOK, Kept
  <2>. QED
    BY <1>2, <1>4, <2>1, <2>3, ReplyInv DEF ExactHit
<1>5. CASE ExactMiss(c)
  <2>. DEFINE stage == IF SemanticFor(q) THEN "embed" ELSE "search"
  <2>1. CachesOK'
    BY <1>1, <1>5, ExpiryKeeps DEF ExactMiss
  <2>2. stage \in Stages /\ stage \notin InCache /\ stage # "idle"
    BY <1>3 DEF InCache
  <2>3. Cacheable(q)
    BY <1>1, <1>5 DEF ExactMiss, StageOK, InCache
  <2>4. stage = "embed" => SemanticFor(q)
    OBVIOUS
  <2>5. stage # "semantic"
    OBVIOUS
  <2>6. Goto(c, stage) /\ UNCHANGED <<index, key, lag, vector, found, answer>>
    BY <1>5 DEF ExactMiss
  <2>. HIDE DEF stage
  <2>. QED
    BY <1>1, <2>1, <2>2, <2>3, <2>4, <2>5, <2>6, GotoKeeps, GoOnInv DEF TypeOK, StageOK
<1>6. CASE EmbedQuestion(c)
  <2>1. CachesOK'
    BY <1>1, <1>6, SameCaches DEF EmbedQuestion
  <2>2. "semantic" \in Stages /\ Cacheable(q) /\ SemanticFor(q)
    BY <1>1, <1>3, <1>6 DEF EmbedQuestion, StageOK, InCache
  <2>3. vector' \in [Clients -> BOOLEAN] /\ \A d \in Clients \ {c} : vector'[d] = vector[d]
    BY <1>1, <1>6 DEF EmbedQuestion, TypeOK
  <2>. QED
    BY <1>1, <1>6, <2>1, <2>2, <2>3, EnterKeeps, GoOnInv DEF EmbedQuestion, TypeOK
<1>7. CASE SemanticHit(c)
  <2>. DEFINE cache == Unexpired(semantic, SemanticTTL, lag[c])
  <2>1. CachesOK'
    BY <1>1, <1>7, ExpiryKeeps DEF SemanticHit
  <2>2. PICK k \in Nearest(c, cache) : Reply(c, k, cache[k].version)
    BY <1>7 DEF SemanticHit
  <2>3. /\ k \in Entries(cache) /\ Context(k) = Context(key[c])
        /\ Score[q, Question(k)] >= Threshold
    BY <2>2 DEF Nearest
  <2>4. cache \in Cache /\ Entries(cache) \subseteq Entries(semantic)
    BY <1>1, UnexpiredKeeps DEF CachesOK, Kept
  <2>5. k \in Keys /\ cache[k].version \in Versions
    BY <2>3, <2>4, EntryVersion
  <2>6. SemanticFor(q) /\ SemanticFor(Question(k))
    BY <1>1, <1>7, <2>3, <2>4 DEF SemanticHit, StageOK, CachesOK
  <2>. HIDE DEF cache
  <2>. QED
    BY <1>7, <2>1, <2>2, <2>3, <2>5, <2>6, ReplyInv DEF SemanticHit
<1>8. CASE SemanticMiss(c)
  <2>1. CachesOK'
    BY <1>1, <1>8, ExpiryKeeps DEF SemanticMiss
  <2>2. Goto(c, "search") /\ UNCHANGED <<index, key, lag, vector, found, answer>>
    BY <1>8 DEF SemanticMiss
  <2>3. "search" \notin InCache /\ "search" \in Stages
    BY <1>3 DEF InCache
  <2>. QED
    BY <1>1, <2>1, <2>2, <2>3, GotoKeeps, GoOnInv DEF TypeOK, StageOK
<1>9. CASE Search(c)
  <2>1. CachesOK' /\ UNCHANGED <<index, key>>
    BY <1>1, <1>9, SameCaches DEF Search
  <2>2. CASE /\ index # 0 /\ found' = [found EXCEPT ![c] = index]
             /\ Goto(c, "explain") /\ UNCHANGED <<lag, vector, answer>>
    <3>1. found' \in [Clients -> Versions]
      BY <1>1, <2>2 DEF TypeOK
    <3>2. "explain" \notin InCache /\ "explain" \in Stages
      BY <1>3 DEF InCache
    <3>. QED
      BY <1>1, <2>1, <2>2, <3>1, <3>2, GotoKeeps, GoOnInv DEF TypeOK, StageOK
  <2>3. CASE Cacheable(q) /\ EnterCache(c, "set") /\ UNCHANGED <<vector, found, answer>>
    <3>1. "set" \in Stages
      BY <1>3 DEF InCache
    <3>. QED
      BY <1>1, <2>1, <2>3, <3>1, EnterKeeps, GoOnInv DEF TypeOK, StageOK
  <2>4. CASE Reply(c, key[c], index) /\ Finish(c)
    BY <1>1, <1>2, <2>1, <2>4, ReplyInv DEF TypeOK
  <2>. QED
    BY <1>9, <2>2, <2>3, <2>4 DEF Search
<1>10. CASE Explain(c)
  <2>1. CachesOK' /\ UNCHANGED <<index, key>>
    BY <1>1, <1>10, SameCaches DEF Explain
  <2>2. CASE Cacheable(q) /\ EnterCache(c, "set") /\ UNCHANGED <<vector, found, answer>>
    <3>1. "set" \in Stages
      BY <1>3 DEF InCache
    <3>. QED
      BY <1>1, <2>1, <2>2, <3>1, EnterKeeps, GoOnInv DEF TypeOK, StageOK
  <2>3. CASE Reply(c, key[c], found[c]) /\ Finish(c)
    BY <1>1, <1>2, <2>1, <2>3, ReplyInv DEF TypeOK
  <2>. QED
    BY <1>10, <2>2, <2>3 DEF Explain
<1>11. CASE StoreAnswer(c)
  BY <1>11, StoreInv
<1>12. CASE FailRequest(c)
  <2>1. CachesOK' /\ UNCHANGED <<index, key, answer>> /\ Finish(c)
    BY <1>1, <1>12, SameCaches DEF FailRequest
  <2>2. "idle" \notin InCache /\ "idle" \in Stages
    BY <1>3 DEF InCache
  <2>. QED
    BY <1>1, <2>1, <2>2, FinishKeeps, GoOnInv
<1>. QED
  BY <1>4, <1>5, <1>6, <1>7, <1>8, <1>9, <1>10, <1>11, <1>12 DEF RequestStep

LEMMA TickInv == ASSUME IInv, Tick PROVE IInv'
<1>1. TypeOK /\ CachesOK /\ RequestsOK
  BY DEF IInv
<1>2. /\ exact' = Aged(exact) /\ semantic' = Aged(semantic)
      /\ UNCHANGED <<index, pc, key, vector, found, answer>>
  BY DEF Tick
<1>3. Kept(exact', ExactMaxEntries) /\ Kept(semantic', SemanticMaxEntries)
  BY <1>1, <1>2, AgesAreNat, AgedKeeps, KeptSubset DEF CachesOK, Kept
<1>4. Entries(semantic') \subseteq Entries(semantic)
  BY <1>1, <1>2, AgedKeeps DEF CachesOK, Kept
<1>5. CachesOK'
  BY <1>1, <1>3, <1>4 DEF CachesOK, Kept, Entries
<1>6. lag' \in [Clients -> 0..MaxLag]
  BY <1>1, AgesAreNat DEF Tick, TypeOK
<1>7. TypeOK'
  BY <1>1, <1>2, <1>5, <1>6 DEF TypeOK, CachesOK, Kept, Cache
<1>8. RequestsOK'
  BY <1>1, <1>2 DEF RequestsOK, StageOK, Relevant
<1>. QED
  BY <1>5, <1>7, <1>8 DEF IInv

LEMMA StepInv == IInv /\ [Next]_vars => IInv'
<1> SUFFICES ASSUME IInv, [Next]_vars PROVE IInv'
  OBVIOUS
<1>1. CASE \E c \in Clients, k \in Keys : Ask(c, k)
  BY <1>1, AskInv
<1>2. CASE \E c \in Clients : RequestStep(c)
  BY <1>2, RequestInv
<1>3. CASE Tick
  BY <1>3, TickInv
<1>4. CASE IndexChanges
  <2>1. CachesOK' /\ TypeOK' /\ RequestsOK'
    BY <1>4, SameCaches DEF IndexChanges, IInv, TypeOK, RequestsOK, StageOK, Relevant
  <2>. QED
    BY <2>1 DEF IInv
<1>5. CASE UNCHANGED vars
  <2>1. CachesOK' /\ TypeOK' /\ RequestsOK'
    BY <1>5, SameCaches DEF vars, IInv, TypeOK, RequestsOK, StageOK, Relevant
  <2>. QED
    BY <2>1 DEF IInv
<1>. QED
  BY <1>1, <1>2, <1>3, <1>4, <1>5 DEF Next

LEMMA Invariance == Spec => []IInv
BY InitInv, StepInv, PTL DEF Spec

-----------------------------------------------------------------------------
(* The theorems.                                                           *)

(***************************************************************************)
(* The variables of QAService keep their types.                            *)
(***************************************************************************)
THEOREM TypeCorrect == Spec => []TypeOK
BY Invariance, PTL DEF IInv

(***************************************************************************)
(* However many requests interleave, and whatever expires between their    *)
(* steps, an answer is for the context that was asked, and for the         *)
(* question or for one that is close enough (qa_service.go, Query).        *)
(***************************************************************************)
THEOREM OnlyRelevantAnswers == Spec => []AnswersAreRelevant
<1>1. IInv => AnswersAreRelevant
  BY DEF IInv, RequestsOK, Relevant, AnswersAreRelevant
<1>. QED
  BY <1>1, Invariance, PTL

(***************************************************************************)
(* Nothing of a question that had to be redacted is in a cache.            *)
(***************************************************************************)
THEOREM SensitiveIsForgotten == Spec => []NothingSensitiveIsKept
<1>1. IInv => NothingSensitiveIsKept
  BY DEF IInv, CachesOK, Kept, Cacheable, NothingSensitiveIsKept
<1>. QED
  BY <1>1, Invariance, PTL

(***************************************************************************)
(* Neither cache outgrows its limit, with any number of requests storing   *)
(* at the same time (qa_cache.go, evictOldestLocked).                      *)
(***************************************************************************)
THEOREM CachesStayBounded == Spec => []CachesAreBounded
<1>1. IInv => CachesAreBounded
  BY DEF IInv, CachesOK, Kept, CachesAreBounded
<1>. QED
  BY <1>1, Invariance, PTL
=============================================================================
