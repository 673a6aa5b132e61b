--------------------------- MODULE DataFetchProofs ---------------------------
(***************************************************************************)
(* Theorems about the parts of data-fetch, from the request to the index:  *)
(* FetchCache, Crawl and CorpusPipeline, one after the other.              *)
(*                                                                         *)
(* FetchCache, for any processes, versions, limits and retries, and for    *)
(* kills between any two system calls: type correctness, and that a cache  *)
(* hit is fresh.  HitsAreFresh speaks of the two reads of one process.     *)
(* What makes it true is that a version has never been retired for longer  *)
(* than any time that was written down for it: in the meta file, or in the *)
(* memory of a process that fetched it or has read the file.               *)
(*                                                                         *)
(* Crawl, for any graph of links, seeds and caps: type correctness, what   *)
(* the crawl finds and in which order, and that nothing is requested       *)
(* twice.  The queue holds nodes of two depths at most; while one of depth *)
(* d is at its head, all that is within d is found or waits (Frontier).    *)
(*                                                                         *)
(* CorpusPipeline, for any pods, page and versions: type correctness; and, *)
(* when pods run one at a time, that a selection is whole and that no text *)
(* is written over a newer one.                                            *)
(*                                                                         *)
(* Crawl and CorpusPipeline have functions that are defined by recursion   *)
(* over numbers (Near, ToCome).  That they are what their definitions say  *)
(* is proved first, by induction over sets of numbers (AllNumbers).        *)
(***************************************************************************)
EXTENDS FetchCache, Crawl, CorpusPipeline, FiniteSetTheorems, SequenceTheorems,
        WellFoundedInduction, TLAPS

-----------------------------------------------------------------------------
(* The fetch cache: the invariant.                                         *)

\* The server has not replaced the version it has, nor those to come.
CurrentIsNotRetired == \A v \in Versions : v >= version => retired[v] = 0

MetaIsFresh == meta.holds \in Versions => retired[meta.holds] <= meta.fetched

StampsAreFresh ==
  \A p \in Processes : holding[p] # Absent => retired[holding[p]] <= stamp[p]

IInv == TypeOK /\ CurrentIsNotRetired /\ MetaIsFresh /\ StampsAreFresh

-----------------------------------------------------------------------------
(* The fetch cache: ages and files.                                        *)

LEMMA Sizes == /\ MaxVersion \in Nat \ {0} /\ TTL \in Nat /\ Retention \in Nat
               /\ MaxRetries \in Nat /\ MaxAge \in Nat \ {0}
               /\ 0 \in Ages /\ 1 \in Versions
               /\ Versions \subseteq Nat /\ Absent \notin Versions /\ Torn \notin Versions
               /\ Torn # Absent
BY VersionAssumption, ConfigAssumption DEF MaxAge, Ages, Versions, Absent, Torn

LEMMA OlderAges ==
  /\ \A a \in Ages : Older(a) \in Ages
  /\ \A a, b \in Ages : a <= b => Older(a) <= Older(b)
BY Sizes DEF Ages, Older

LEMMA FreshFiles ==
  ASSUME NEW h \in Versions \cup {Absent, Torn}, NEW a \in Ages
  PROVE  /\ [holds |-> h, mtime |-> 0] \in BodyFile
         /\ [holds |-> h, fetched |-> a, mtime |-> 0] \in MetaFile
BY Sizes DEF BodyFile, MetaFile

LEMMA NoFiles == NoBody \in BodyFile /\ NoMeta \in MetaFile
BY Sizes DEF NoBody, NoMeta, BodyFile, MetaFile

LEMMA OlderBody ==
  ASSUME NEW b \in BodyFile
  PROVE  [b EXCEPT !.mtime = IF b.holds = Absent THEN 0 ELSE Older(@)] \in BodyFile
<1>1. b.mtime \in Ages
  BY DEF BodyFile
<1>2. Older(b.mtime) \in Ages
  BY <1>1, OlderAges
<1>. QED
  BY <1>2, Sizes DEF BodyFile

LEMMA OlderMeta ==
  ASSUME NEW m \in MetaFile
  PROVE  LET n == [m EXCEPT !.mtime = IF m.holds = Absent THEN 0 ELSE Older(@),
                            !.fetched = IF m.holds \in Versions THEN Older(@) ELSE 0]
         IN  /\ n \in MetaFile
             /\ n.holds = m.holds
             /\ m.holds \in Versions => n.fetched = Older(m.fetched)
<1>1. m.mtime \in Ages /\ m.fetched \in Ages /\ m.holds \in Versions \cup {Absent, Torn}
  BY DEF MetaFile
<1>2. Older(m.mtime) \in Ages /\ Older(m.fetched) \in Ages
  BY <1>1, OlderAges
<1>. QED
  BY <1>1, <1>2, Sizes DEF MetaFile

-----------------------------------------------------------------------------
(* The fetch cache: the ways in which most steps change a process.         *)

LEMMA FinishKeeps ==
  ASSUME TypeOK, StampsAreFresh, NEW p \in Processes, NEW v \in Versions \cup {Absent},
         Finish(p, v), UNCHANGED retired
  PROVE  /\ pc' \in [Processes -> Stages]
         /\ listed' \in [Processes -> SUBSET {"body", "meta"}]
         /\ attempt' \in [Processes -> 0..MaxRetries]
         /\ holding' \in [Processes -> Versions \cup {Absent}]
         /\ stamp' \in [Processes -> Ages]
         /\ result' \in [Processes -> Versions \cup {Absent}]
         /\ StampsAreFresh'
BY Sizes DEF Finish, Goto, TypeOK, Stages, Writing, StampsAreFresh

\* The process goes on with a version, or with none, and the age of what it knows of it.
LEMMA HoldKeeps ==
  ASSUME TypeOK, StampsAreFresh, NEW p \in Processes, NEW v \in Versions \cup {Absent},
         NEW a \in Ages, v # Absent => retired[v] <= a,
         holding' = [holding EXCEPT ![p] = v], stamp' = [stamp EXCEPT ![p] = a],
         UNCHANGED retired
  PROVE  /\ holding' \in [Processes -> Versions \cup {Absent}]
         /\ stamp' \in [Processes -> Ages]
         /\ StampsAreFresh'
BY DEF TypeOK, StampsAreFresh

LEMMA GotoType ==
  ASSUME TypeOK, NEW p \in Processes, NEW stage \in Stages, Goto(p, stage)
  PROVE  pc' \in [Processes -> Stages]
BY DEF TypeOK, Goto

LEMMA InitInv == Init => IInv
<1> SUFFICES ASSUME Init PROVE IInv
  OBVIOUS
<1>1. TypeOK
  BY Sizes, NoFiles DEF Init, TypeOK, Stages
<1>2. CurrentIsNotRetired /\ MetaIsFresh /\ StampsAreFresh
  BY Sizes DEF Init, CurrentIsNotRetired, MetaIsFresh, StampsAreFresh, NoMeta
<1>. QED
  BY <1>1, <1>2 DEF IInv

-----------------------------------------------------------------------------
(* The fetch cache: the steps of a process.                                *)

LEMMA BeginRunInv ==
  ASSUME IInv, NEW p \in Processes, BeginRun(p)
  PROVE  IInv'
BY GotoType, Sizes
   DEF IInv, TypeOK, BeginRun, Goto, Stages, CurrentIsNotRetired, MetaIsFresh, StampsAreFresh

LEMMA CleanBodyInv ==
  ASSUME IInv, NEW p \in Processes, CleanBody(p)
  PROVE  IInv'
<1>1. UNCHANGED <<version, retired, meta>>
  BY DEF CleanBody
<1>2. CASE Finish(p, Absent) /\ UNCHANGED body
  BY <1>1, <1>2, FinishKeeps DEF IInv, TypeOK, CurrentIsNotRetired, MetaIsFresh
<1>3. CASE /\ body' \in {NoBody, body}
           /\ listed' = [listed EXCEPT ![p] = @ \ {"body"}]
           /\ Goto(p, "cleanMeta")
           /\ UNCHANGED <<attempt, holding, stamp, result>>
  BY <1>1, <1>3, NoFiles
     DEF IInv, TypeOK, Goto, Stages, CurrentIsNotRetired, MetaIsFresh, StampsAreFresh
<1>. QED
  BY <1>2, <1>3 DEF CleanBody

LEMMA CleanMetaInv ==
  ASSUME IInv, NEW p \in Processes, CleanMeta(p)
  PROVE  IInv'
<1>1. UNCHANGED <<version, retired, body>>
  BY DEF CleanMeta
<1>2. CASE Finish(p, Absent) /\ UNCHANGED meta
  BY <1>1, <1>2, FinishKeeps DEF IInv, TypeOK, CurrentIsNotRetired, MetaIsFresh
<1>3. CASE /\ meta' \in {NoMeta, meta}
           /\ listed' = [listed EXCEPT ![p] = {}]
           /\ Goto(p, AfterCleaning)
           /\ UNCHANGED <<attempt, holding, stamp, result>>
  <2>1. AfterCleaning \in Stages
    BY DEF AfterCleaning, Stages
  <2>2. TypeOK'
    BY <1>1, <1>3, <2>1, NoFiles DEF IInv, TypeOK, Goto
  <2>3. MetaIsFresh'
    BY <1>1, <1>3, Sizes DEF IInv, MetaIsFresh, NoMeta
  <2>. QED
    BY <1>1, <1>3, <2>2, <2>3 DEF IInv, CurrentIsNotRetired, StampsAreFresh
<1>. QED
  BY <1>2, <1>3 DEF CleanMeta

LEMMA ReadMetaInv ==
  ASSUME IInv, NEW p \in Processes, ReadMeta(p)
  PROVE  IInv'
<1>1. UNCHANGED <<version, retired, body, meta>>
  BY DEF ReadMeta
<1>2. CASE Finish(p, Absent)
  BY <1>1, <1>2, FinishKeeps DEF IInv, TypeOK, CurrentIsNotRetired, MetaIsFresh
<1>3. CASE Goto(p, "request") /\ UNCHANGED <<listed, attempt, holding, stamp, result>>
  BY <1>1, <1>3 DEF IInv, TypeOK, Goto, Stages, CurrentIsNotRetired, MetaIsFresh, StampsAreFresh
<1>4. CASE /\ meta.holds # Torn /\ meta.holds # Absent
           /\ Goto(p, "open")
           /\ holding' = [holding EXCEPT ![p] = meta.holds]
           /\ stamp' = [stamp EXCEPT ![p] = meta.fetched]
           /\ UNCHANGED <<listed, attempt, result>>
  <2>1. meta.holds \in Versions /\ meta.fetched \in Ages
    BY <1>4 DEF IInv, TypeOK, MetaFile
  <2>2. retired[meta.holds] <= meta.fetched
    BY <2>1 DEF IInv, MetaIsFresh
  <2>3. /\ holding' \in [Processes -> Versions \cup {Absent}]
        /\ stamp' \in [Processes -> Ages]
        /\ StampsAreFresh'
    BY <1>1, <1>4, <2>1, <2>2, HoldKeeps DEF IInv
  <2>4. pc' \in [Processes -> Stages]
    BY <1>4 DEF IInv, TypeOK, Goto, Stages
  <2>. QED
    BY <1>1, <1>4, <2>3, <2>4 DEF IInv, TypeOK, CurrentIsNotRetired, MetaIsFresh
<1>. QED
  BY <1>2, <1>3, <1>4 DEF ReadMeta

LEMMA ReadBodyInv ==
  ASSUME IInv, NEW p \in Processes, ReadBody(p)
  PROVE  IInv'
<1>1. UNCHANGED <<version, retired, body, meta>>
  BY DEF ReadBody
<1>2. CASE Finish(p, holding[p])
  <2>1. holding[p] \in Versions \cup {Absent}
    BY DEF IInv, TypeOK
  <2>. QED
    BY <1>1, <1>2, <2>1, FinishKeeps DEF IInv, TypeOK, CurrentIsNotRetired, MetaIsFresh
<1>3. CASE /\ Goto(p, "request")
           /\ holding' = [holding EXCEPT ![p] = Absent]
           /\ stamp' = [stamp EXCEPT ![p] = 0]
           /\ UNCHANGED <<listed, attempt, result>>
  <2>1. /\ holding' \in [Processes -> Versions \cup {Absent}]
        /\ stamp' \in [Processes -> Ages]
        /\ StampsAreFresh'
    BY <1>1, <1>3, HoldKeeps, Sizes DEF IInv
  <2>2. pc' \in [Processes -> Stages]
    BY <1>3 DEF IInv, TypeOK, Goto, Stages
  <2>. QED
    BY <1>1, <1>3, <2>1, <2>2 DEF IInv, TypeOK, CurrentIsNotRetired, MetaIsFresh
<1>. QED
  BY <1>2, <1>3 DEF ReadBody

LEMMA RequestInv ==
  ASSUME IInv, NEW p \in Processes, Request(p)
  PROVE  IInv'
<1>1. /\ UNCHANGED <<version, retired, body, meta, listed, attempt, result>>
      /\ holding' = [holding EXCEPT ![p] = version]
      /\ stamp' = [stamp EXCEPT ![p] = 0]
      /\ Goto(p, "body")
  BY DEF Request
<1>2. version \in Versions /\ retired[version] <= 0
  <2>1. version \in Versions /\ version >= version
    BY Sizes DEF IInv, TypeOK
  <2>. QED
    BY <2>1 DEF IInv, CurrentIsNotRetired
<1>3. /\ holding' \in [Processes -> Versions \cup {Absent}]
      /\ stamp' \in [Processes -> Ages]
      /\ StampsAreFresh'
  BY <1>1, <1>2, HoldKeeps, Sizes DEF IInv
<1>4. pc' \in [Processes -> Stages]
  BY <1>1 DEF IInv, TypeOK, Goto, Stages, Writing
<1>. QED
  BY <1>1, <1>3, <1>4 DEF IInv, TypeOK, CurrentIsNotRetired, MetaIsFresh

LEMMA RetryRequestInv ==
  ASSUME IInv, NEW p \in Processes, RetryRequest(p)
  PROVE  IInv'
<1>1. attempt' \in [Processes -> 0..MaxRetries]
  BY Sizes DEF IInv, TypeOK, RetryRequest
<1>. QED
  BY <1>1 DEF RetryRequest, IInv, TypeOK, CurrentIsNotRetired, MetaIsFresh, StampsAreFresh

LEMMA WriteBodyInv ==
  ASSUME IInv, NEW p \in Processes, TruncateBody(p) \/ WriteBody(p)
  PROVE  IInv'
<1>1. /\ UNCHANGED <<version, retired, meta, listed, attempt, holding, stamp, result>>
      /\ Goto(p, "bodyOpen") \/ Goto(p, "meta")
  BY DEF TruncateBody, WriteBody
<1>2. body' = body \/ \E h \in Versions \cup {Absent, Torn} : body' = [holds |-> h, mtime |-> 0]
  BY DEF TruncateBody, WriteBody, IInv, TypeOK
<1>3. body' \in BodyFile
  <2>1. \A h \in Versions \cup {Absent, Torn} : [holds |-> h, mtime |-> 0] \in BodyFile
    BY FreshFiles, Sizes
  <2>. QED
    BY <1>2, <2>1 DEF IInv, TypeOK
<1>4. pc' \in [Processes -> Stages]
  BY <1>1 DEF IInv, TypeOK, Goto, Stages, Writing
<1>. QED
  BY <1>1, <1>3, <1>4 DEF IInv, TypeOK, CurrentIsNotRetired, MetaIsFresh, StampsAreFresh

LEMMA TruncateMetaInv ==
  ASSUME IInv, NEW p \in Processes, TruncateMeta(p)
  PROVE  IInv'
<1>1. meta' \in MetaFile /\ meta'.holds \notin Versions
  BY FreshFiles, Sizes DEF TruncateMeta
<1>2. pc' \in [Processes -> Stages]
  BY DEF TruncateMeta, IInv, TypeOK, Goto, Stages
<1>. QED
  BY <1>1, <1>2
     DEF TruncateMeta, IInv, TypeOK, CurrentIsNotRetired, MetaIsFresh, StampsAreFresh

LEMMA WriteMetaInv ==
  ASSUME IInv, NEW p \in Processes, WriteMeta(p)
  PROVE  IInv'
<1>1. UNCHANGED <<version, retired, body>> /\ Finish(p, holding[p])
  BY DEF WriteMeta
<1>2. holding[p] \in Versions \cup {Absent} /\ stamp[p] \in Ages
  BY DEF IInv, TypeOK
<1>3. CASE meta' = meta
  BY <1>1, <1>2, <1>3, FinishKeeps DEF IInv, TypeOK, CurrentIsNotRetired, MetaIsFresh
<1>4. CASE meta' = [holds |-> holding[p], fetched |-> stamp[p], mtime |-> 0]
  <2>1. meta' \in MetaFile
    BY <1>2, <1>4, FreshFiles
  <2>2. MetaIsFresh'
    BY <1>1, <1>2, <1>4, Sizes DEF IInv, MetaIsFresh, StampsAreFresh
  <2>. QED
    BY <1>1, <1>2, <2>1, <2>2, FinishKeeps DEF IInv, TypeOK, CurrentIsNotRetired
<1>. QED
  BY <1>3, <1>4 DEF WriteMeta

LEMMA EndsInv ==
  ASSUME IInv, NEW p \in Processes, FailRequest(p) \/ Crash(p)
  PROVE  IInv'
<1>1. UNCHANGED <<version, retired, body, meta>> /\ Finish(p, Absent)
  BY DEF FailRequest, Crash
<1>. QED
  BY <1>1, FinishKeeps DEF IInv, TypeOK, CurrentIsNotRetired, MetaIsFresh

-----------------------------------------------------------------------------
(* The fetch cache: the server, and time.                                  *)

LEMMA ResourceChangesInv == ASSUME IInv, ResourceChanges PROVE IInv'
<1>1. version' \in Versions /\ version' > version /\ version \in Nat /\ version' \in Nat
  BY Sizes DEF ResourceChanges, IInv, TypeOK, Versions
<1>2. CurrentIsNotRetired'
  BY <1>1, Sizes DEF ResourceChanges, IInv, CurrentIsNotRetired
<1>. QED
  BY <1>1, <1>2 DEF ResourceChanges, IInv, TypeOK, MetaIsFresh, StampsAreFresh

LEMMA TickInv == ASSUME IInv, Tick PROVE IInv'
<1>1. TypeOK
  BY DEF IInv
<1>2. /\ retired' \in [Versions -> Ages]
      /\ \A v \in Versions : retired'[v] = IF v < version THEN Older(retired[v]) ELSE 0
  BY <1>1, OlderAges, Sizes DEF Tick, TypeOK
<1>3. body' \in BodyFile
  BY <1>1, OlderBody DEF Tick, TypeOK
<1>4. /\ meta' \in MetaFile
      /\ meta'.holds = meta.holds
      /\ meta.holds \in Versions => meta'.fetched = Older(meta.fetched)
  BY <1>1, OlderMeta DEF Tick, TypeOK
<1>5. /\ stamp' \in [Processes -> Ages]
      /\ \A p \in Processes : holding[p] # Absent => stamp'[p] = Older(stamp[p])
  BY <1>1, OlderAges, Sizes DEF Tick, TypeOK
<1>6. UNCHANGED <<version, pc, listed, attempt, holding, result>>
  BY DEF Tick
<1>7. ASSUME NEW v \in Versions, NEW a \in Ages, retired[v] <= a
      PROVE  retired'[v] <= Older(a)
  <2>1. retired[v] \in Ages /\ Older(a) \in Nat
    BY <1>1, OlderAges DEF TypeOK, Ages
  <2>2. Older(retired[v]) <= Older(a)
    BY <1>7, <2>1, OlderAges
  <2>. QED
    BY <1>2, <2>1, <2>2
<1>8. MetaIsFresh'
  <2>1. meta.holds \in Versions => meta.fetched \in Ages /\ retired[meta.holds] <= meta.fetched
    BY <1>1 DEF IInv, MetaIsFresh, TypeOK, MetaFile
  <2>. QED
    BY <1>4, <1>7, <2>1 DEF MetaIsFresh
<1>9. StampsAreFresh'
  <2> SUFFICES ASSUME NEW p \in Processes, holding[p] # Absent
               PROVE  retired'[holding[p]] <= stamp'[p]
    BY <1>6 DEF StampsAreFresh
  <2>1. holding[p] \in Versions /\ stamp[p] \in Ages /\ retired[holding[p]] <= stamp[p]
    BY <1>1 DEF IInv, StampsAreFresh, TypeOK
  <2>. QED
    BY <1>5, <1>7, <2>1
<1>10. CurrentIsNotRetired'
  BY <1>1, <1>2, <1>6, Sizes DEF CurrentIsNotRetired, TypeOK
<1>. QED
  BY <1>1, <1>2, <1>3, <1>4, <1>5, <1>6, <1>8, <1>9, <1>10 DEF IInv, TypeOK

LEMMA NextInv == IInv /\ [Next]_vars => IInv'
<1> SUFFICES ASSUME IInv, [Next]_vars PROVE IInv'
  OBVIOUS
<1>1. ASSUME NEW p \in Processes, RunStep(p) PROVE IInv'
  BY <1>1, CleanBodyInv, CleanMetaInv, ReadMetaInv, ReadBodyInv, RequestInv, RetryRequestInv,
     WriteBodyInv, TruncateMetaInv, WriteMetaInv DEF RunStep
<1>2. CASE UNCHANGED vars
  BY <1>2 DEF vars, IInv, TypeOK, CurrentIsNotRetired, MetaIsFresh, StampsAreFresh
<1>. QED
  BY <1>1, <1>2, BeginRunInv, EndsInv, ResourceChangesInv, TickInv DEF Next

LEMMA AlwaysIInv == Spec => []IInv
BY InitInv, NextInv, PTL DEF Spec

-----------------------------------------------------------------------------
(* The fetch cache: theorems.                                               *)

(***************************************************************************)
(* Every state of the cache is well-typed: in particular, a process makes  *)
(* MaxRetries retries at most (fetchURL), and what it holds or returns is  *)
(* a whole body.                                                           *)
(***************************************************************************)
THEOREM TypeCorrect == Spec => []TypeOK
BY AlwaysIInv, PTL DEF IInv

(***************************************************************************)
(* HitsAreFresh: readCache returns a whole body that the server did not    *)
(* replace earlier than the fetch its meta data tell of.                   *)
(***************************************************************************)
THEOREM HitsStayFresh == Spec => HitsAreFresh
<1>1. IInv /\ [Next]_vars =>
        [\A p \in Processes :
           pc[p] = "open" /\ pc'[p] = "idle" /\ result'[p] # Absent
             => /\ result'[p] \in Versions
                /\ retired[result'[p]] <= stamp[p]]_vars
  <2> SUFFICES ASSUME IInv, Next, NEW p \in Processes,
                      pc[p] = "open", pc'[p] = "idle", result'[p] # Absent
               PROVE  result'[p] \in Versions /\ retired[result'[p]] <= stamp[p]
    OBVIOUS
  <2>. USE DEF Goto, Finish
  <2>1. pc \in [Processes -> Stages] /\ result \in [Processes -> Versions \cup {Absent}]
    BY DEF IInv, TypeOK
  <2>2. ASSUME NEW q \in Processes, q # p,
               BeginRun(q) \/ RunStep(q) \/ FailRequest(q) \/ Crash(q)
        PROVE  FALSE
    BY <2>1, <2>2 DEF BeginRun, RunStep, FailRequest, Crash, CleanBody, CleanMeta, ReadMeta,
       ReadBody, Request, RetryRequest, TruncateBody, WriteBody, TruncateMeta, WriteMeta
  <2>3. BeginRun(p) \/ RunStep(p) \/ FailRequest(p) \/ Crash(p)
    BY <2>2 DEF Next, ResourceChanges, Tick
  <2>4. ReadBody(p) \/ Crash(p)
    BY <2>3 DEF BeginRun, RunStep, FailRequest, CleanBody, CleanMeta, ReadMeta,
       Request, RetryRequest, TruncateBody, WriteBody, TruncateMeta, WriteMeta
  <2>5. ~Crash(p)
    BY <2>1 DEF Crash
  <2>6. result'[p] = holding[p]
    BY <2>1, <2>4, <2>5 DEF ReadBody
  <2>. QED
    BY <2>6 DEF IInv, TypeOK, StampsAreFresh
<1>. QED
  BY <1>1, AlwaysIInv, PTL DEF Spec, HitsAreFresh

-----------------------------------------------------------------------------
(* Induction, for sets of numbers.                                         *)

\* A set that has 0, and with each number the next, has them all.
LEMMA AllNumbers ==
  ASSUME NEW S, 0 \in S, \A n \in Nat : n \in S => n + 1 \in S
  PROVE  \A n \in Nat : n \in S
<1> DEFINE R == {p \in Nat \X Nat : p[1] < p[2]}
           T == Nat \ S
<1>1. IsWellFoundedOn(R, Nat)
  BY NatLessThanWellFounded DEF OpToRel
<1>2. SUFFICES ASSUME T # {} PROVE FALSE
  OBVIOUS
<1>3. PICK n \in T : \A m \in T : ~(<<m, n>> \in R)
  <2> HIDE DEF R
  <2>1. T \subseteq Nat
    OBVIOUS
  <2>2. QED
    BY <1>1, <1>2, <2>1, WFMin
<1>4. n \in Nat \ {0} /\ n - 1 \in Nat /\ n - 1 < n
  OBVIOUS
<1>5. n - 1 \notin T
  <2>1. <<n - 1, n>> \in R
    BY <1>4
  <2> HIDE DEF R
  <2>2. QED
    BY <1>3, <2>1
<1>6. (n - 1) + 1 \in S
  BY <1>4, <1>5
<1>7. QED
  BY <1>4, <1>6

-----------------------------------------------------------------------------
(* The crawl: Near is well defined.                                        *)

\* What a URL reaches in one step, beside what reaches it.
Wider(s) == s \cup (Allowed \cap UNION {links[u] : u \in s})
SeedURLs == {u \in Allowed : \E i \in DOMAIN seeds : seeds[i] = u}

\* Near up to a number.
NearUpTo(n) == {g \in [0..n -> SUBSET Allowed] :
                  \A d \in 0..n : g[d] = IF d = 0 THEN SeedURLs ELSE Wider(g[d - 1])}

LEMMA WiderAllowed == ASSUME NEW s \in SUBSET Allowed PROVE Wider(s) \in SUBSET Allowed
  BY DEF Wider

LEMMA NearUpToExists == \A n \in Nat : NearUpTo(n) # {}
<1> DEFINE S == {n \in Nat : NearUpTo(n) # {}}
<1>1. 0 \in S
  <2>1. [d \in 0..0 |-> SeedURLs] \in NearUpTo(0)
    BY DEF NearUpTo, SeedURLs
  <2>2. QED
    BY <2>1
<1>2. ASSUME NEW n \in Nat, n \in S PROVE n + 1 \in S
  <2>1. PICK g \in NearUpTo(n) : TRUE
    BY <1>2
  <2> DEFINE h == [d \in 0..(n + 1) |-> IF d = n + 1 THEN Wider(g[n]) ELSE g[d]]
  <2>2. g \in [0..n -> SUBSET Allowed] /\ n \in 0..n
    BY <2>1 DEF NearUpTo
  <2>3. Wider(g[n]) \in SUBSET Allowed
    BY <2>2, WiderAllowed
  <2>4. h \in [0..(n + 1) -> SUBSET Allowed]
    BY <2>2, <2>3
  <2>5. ASSUME NEW d \in 0..(n + 1)
        PROVE  h[d] = IF d = 0 THEN SeedURLs ELSE Wider(h[d - 1])
    <3>1. CASE d = n + 1
      <4>1. h[d] = Wider(g[n]) /\ d - 1 = n /\ d # 0 /\ n \in 0..(n + 1) /\ n # n + 1
        BY <3>1
      <4>2. h[n] = g[n]
        BY <4>1
      <4>3. QED
        BY <4>1, <4>2
    <3>2. CASE d # n + 1
      <4>1. d \in 0..n /\ h[d] = g[d]
        BY <3>2
      <4>2. CASE d = 0
        BY <4>1, <4>2, <2>1 DEF NearUpTo
      <4>3. CASE d # 0
        <5>1. d - 1 \in 0..(n + 1) /\ d - 1 # n + 1
          BY <4>1, <4>3
        <5>2. h[d - 1] = g[d - 1]
          BY <5>1
        <5>3. g[d] = Wider(g[d - 1])
          BY <4>1, <4>3, <2>1 DEF NearUpTo
        <5>4. QED
          BY <4>1, <4>3, <5>2, <5>3
      <4>4. QED
        BY <4>2, <4>3
    <3>3. QED
      BY <3>1, <3>2
  <2>6. h \in NearUpTo(n + 1)
    <3> HIDE DEF h
    <3>1. QED
      BY <2>4, <2>5 DEF NearUpTo
  <2>7. QED
    BY <2>6
<1>3. QED
  <2> HIDE DEF S
  <2>1. \A n \in Nat : n \in S
    BY <1>1, <1>2, AllNumbers
  <2> USE DEF S
  <2>2. QED
    BY <2>1

\* Two that both reach a number agree there.
LEMMA NearUpToUnique ==
  ASSUME NEW n \in Nat, NEW m \in Nat, NEW g \in NearUpTo(n), NEW h \in NearUpTo(m)
  PROVE  \A d \in Nat : d <= n /\ d <= m => g[d] = h[d]
<1> DEFINE S == {d \in Nat : d <= n /\ d <= m => g[d] = h[d]}
<1>1. 0 \in S
  <2>1. 0 \in 0..n /\ 0 \in 0..m
    OBVIOUS
  <2>2. g[0] = SeedURLs /\ h[0] = SeedURLs
    BY <2>1 DEF NearUpTo
  <2>3. QED
    BY <2>2
<1>2. ASSUME NEW d \in Nat, d \in S PROVE d + 1 \in S
  <2>1. SUFFICES ASSUME d + 1 <= n, d + 1 <= m PROVE g[d + 1] = h[d + 1]
    OBVIOUS
  <2>2. d + 1 \in 0..n /\ d + 1 \in 0..m /\ d + 1 # 0 /\ (d + 1) - 1 = d /\ d <= n /\ d <= m
    BY <2>1
  <2>3. g[d + 1] = Wider(g[d])
    BY <2>2 DEF NearUpTo
  <2>4. h[d + 1] = Wider(h[d])
    BY <2>2 DEF NearUpTo
  <2>5. g[d] = h[d]
    BY <1>2, <2>2
  <2>6. QED
    BY <2>3, <2>4, <2>5
<1>3. QED
  <2> HIDE DEF S
  <2>1. \A d \in Nat : d \in S
    BY <1>1, <1>2, AllNumbers
  <2> USE DEF S
  <2>2. QED
    BY <2>1

\* What the definition of Near says of it.
LEMMA NearDef ==
  /\ Near[0] = SeedURLs
  /\ \A d \in Nat : Near[d + 1] = Wider(Near[d])
  /\ \A d \in Nat : Near[d] \subseteq Allowed
<1> DEFINE Of(n) == CHOOSE g \in NearUpTo(n) : TRUE
           f == [d \in Nat |-> Of(d)[d]]
           IsNear(h) == h = [d \in Nat |->
                          IF d = 0 THEN {u \in Allowed : \E i \in DOMAIN seeds : seeds[i] = u}
                          ELSE h[d - 1] \cup (Allowed \cap UNION {links[u] : u \in h[d - 1]})]
<1>1. \A n \in Nat : Of(n) \in NearUpTo(n)
  BY NearUpToExists
<1>2. \A d \in Nat : f[d] = IF d = 0 THEN SeedURLs ELSE Wider(f[d - 1])
  <2> SUFFICES ASSUME NEW d \in Nat
               PROVE  f[d] = IF d = 0 THEN SeedURLs ELSE Wider(f[d - 1])
    OBVIOUS
  <2>1. f[d] = Of(d)[d] /\ Of(d) \in NearUpTo(d)
    BY <1>1
  <2>2. CASE d = 0
    <3> HIDE DEF Of, f
    <3>1. QED
      BY <2>1, <2>2 DEF NearUpTo
  <2>3. CASE d # 0
    <3>1. d - 1 \in Nat /\ d \in 0..d /\ d - 1 <= d /\ d - 1 <= d - 1
      BY <2>3
    <3>2. f[d - 1] = Of(d - 1)[d - 1] /\ Of(d - 1) \in NearUpTo(d - 1)
      BY <1>1, <3>1
    <3> HIDE DEF Of, f
    <3>3. Of(d)[d] = Wider(Of(d)[d - 1])
      BY <2>1, <2>3, <3>1 DEF NearUpTo
    <3>4. Of(d)[d - 1] = Of(d - 1)[d - 1]
      BY <2>1, <3>1, <3>2, NearUpToUnique
    <3>5. QED
      BY <2>1, <2>3, <3>2, <3>3, <3>4
  <2>4. QED
    BY <2>2, <2>3
<1>3. IsNear(f)
  <2>1. f = [d \in Nat |-> f[d]]
    OBVIOUS
  <2> HIDE DEF f
  <2>2. QED
    BY <1>2, <2>1 DEF Wider, SeedURLs
<1>4. IsNear(Near)
  <2>1. Near = CHOOSE h : IsNear(h)
    BY DEF Near
  <2> HIDE DEF f, IsNear
  <2>2. QED
    BY <1>3, <2>1
<1>5. /\ Near[0] = SeedURLs
      /\ \A d \in Nat : Near[d + 1] = Wider(Near[d])
  <2>1. \A d \in Nat : Near[d] = IF d = 0 THEN SeedURLs ELSE Wider(Near[d - 1])
    <3> DEFINE h == Near
    <3>1. IsNear(h)
      BY <1>4
    <3> HIDE DEF h
    <3>2. \A d \in Nat : h[d] = IF d = 0 THEN SeedURLs ELSE Wider(h[d - 1])
      BY <3>1 DEF Wider, SeedURLs
    <3>3. QED
      BY <3>2 DEF h
  <2>2. QED
    BY <2>1
<1>6. \A d \in Nat : Near[d] \subseteq Allowed
  <2> DEFINE S == {d \in Nat : Near[d] \subseteq Allowed}
  <2>1. 0 \in S
    BY <1>5 DEF SeedURLs
  <2>2. ASSUME NEW d \in Nat, d \in S PROVE d + 1 \in S
    BY <1>5, <2>2, WiderAllowed
  <2> HIDE DEF S
  <2>3. \A d \in Nat : d \in S
    BY <2>1, <2>2, AllNumbers
  <2>4. QED
    BY <2>3 DEF S
<1>7. QED
  BY <1>5, <1>6

\* Who is near is near for every greater depth.
LEMMA NearGrows ==
  ASSUME NEW d \in Nat, NEW e \in Nat, d <= e
  PROVE  Near[d] \subseteq Near[e]
<1> DEFINE S == {n \in Nat : Near[d] \subseteq Near[d + n]}
<1>1. 0 \in S
  OBVIOUS
<1>2. ASSUME NEW n \in Nat, n \in S PROVE n + 1 \in S
  <2>1. d + n \in Nat /\ d + (n + 1) = (d + n) + 1
    OBVIOUS
  <2>2. Near[d + n] \subseteq Near[(d + n) + 1]
    BY <2>1, NearDef DEF Wider
  <2>3. QED
    BY <1>2, <2>1, <2>2
<1>3. e - d \in S
  <2> HIDE DEF S
  <2>1. \A n \in Nat : n \in S
    BY <1>1, <1>2, AllNumbers
  <2>2. QED
    BY <2>1
<1>4. d + (e - d) = e
  OBVIOUS
<1>5. QED
  BY <1>3, <1>4

\* When a set is as far as one gets, nothing more is near.
LEMMA NearStays ==
  ASSUME NEW d \in Nat, NEW e \in Nat, d <= e,
         \A u \in Near[d] : Allowed \cap links[u] \subseteq Near[d]
  PROVE  Near[e] = Near[d]
<1> DEFINE S == {n \in Nat : Near[d + n] = Near[d]}
<1>1. 0 \in S
  OBVIOUS
<1>2. ASSUME NEW n \in Nat, n \in S PROVE n + 1 \in S
  <2>1. d + n \in Nat /\ d + (n + 1) = (d + n) + 1
    OBVIOUS
  <2>2. Near[(d + n) + 1] = Wider(Near[d])
    BY <1>2, <2>1, NearDef
  <2>3. Wider(Near[d]) = Near[d]
    BY DEF Wider
  <2>4. QED
    BY <2>1, <2>2, <2>3
<1>3. e - d \in S
  <2> HIDE DEF S
  <2>1. \A n \in Nat : n \in S
    BY <1>1, <1>2, AllNumbers
  <2>2. QED
    BY <2>1
<1>4. d + (e - d) = e
  OBVIOUS
<1>5. QED
  BY <1>3, <1>4

-----------------------------------------------------------------------------
(* The crawl: the queue.                                                   *)

\* The members of SetToSeqs are sequences of the set, with all its members.
LEMMA SeqsOfSet ==
  ASSUME NEW S, IsFiniteSet(S), NEW s \in SetToSeqs(S)
  PROVE  s \in Seq(S) /\ \A x \in S : \E i \in DOMAIN s : s[i] = x
<1> DEFINE D == 1..Cardinality(S)
<1>1. Cardinality(S) \in Nat
  BY FS_CardinalityType
<1>2. s \in [D -> S] /\ \A i, j \in D : i # j => s[i] # s[j]
  BY DEF SetToSeqs
<1>3. s \in Injection(D, S)
  BY <1>2 DEF Injection, IsInjective
<1>4. Cardinality(D) = Cardinality(S)
  <2>1. 0 + Cardinality(S) = Cardinality(S)
    BY <1>1
  <2>2. Cardinality(D) = IF 1 > Cardinality(S) THEN 0 ELSE Cardinality(S) - 1 + 1
    BY <1>1, FS_Interval
  <2>3. QED
    BY <1>1, <2>2
<1>5. s \in Surjection(D, S)
  BY <1>3, <1>4, FS_Injection
<1>6. QED
  BY <1>1, <1>2, <1>5 DEF Surjection

\* The queue without its head, and with more at its end.
LEMMA TailAndMore ==
  ASSUME NEW T, NEW q \in Seq(T), q # <<>>, NEW r \in Seq(T)
  PROVE  /\ Tail(q) \o r \in Seq(T)
         /\ \A i \in DOMAIN (Tail(q) \o r) :
              \/ i + 1 \in DOMAIN q /\ (Tail(q) \o r)[i] = q[i + 1]
              \/ /\ i - Len(q) + 1 \in DOMAIN r /\ (Tail(q) \o r)[i] = r[i - Len(q) + 1]
                 /\ i >= Len(q)
         /\ \A i \in DOMAIN q : i # 1 => /\ i - 1 \in DOMAIN (Tail(q) \o r)
                                         /\ (Tail(q) \o r)[i - 1] = q[i]
         /\ \A i \in DOMAIN r : \E j \in DOMAIN (Tail(q) \o r) : (Tail(q) \o r)[j] = r[i]
<1> DEFINE t == Tail(q)
           w == t \o r
<1>1. t \in Seq(T) /\ Len(t) = Len(q) - 1 /\ \A i \in 1..Len(t) : t[i] = q[i + 1]
  BY HeadTailProperties
<1>2. Len(q) \in Nat \ {0} /\ Len(r) \in Nat /\ DOMAIN q = 1..Len(q) /\ DOMAIN r = 1..Len(r)
  OBVIOUS
<1> HIDE DEF t
<1>3. /\ w \in Seq(T) /\ Len(w) = Len(t) + Len(r) /\ DOMAIN w = 1..Len(w)
      /\ \A i \in 1..Len(w) : w[i] = IF i <= Len(t) THEN t[i] ELSE r[i - Len(t)]
  <2>1. /\ w \in Seq(T) /\ Len(w) = Len(t) + Len(r)
        /\ \A i \in 1..Len(t) + Len(r) : w[i] = IF i <= Len(t) THEN t[i] ELSE r[i - Len(t)]
    BY <1>1, ConcatProperties
  <2> HIDE DEF w
  <2>2. QED
    BY <2>1
<1> HIDE DEF w
<1>4. ASSUME NEW i \in DOMAIN w
      PROVE  \/ i + 1 \in DOMAIN q /\ w[i] = q[i + 1]
             \/ i - Len(q) + 1 \in DOMAIN r /\ w[i] = r[i - Len(q) + 1] /\ i >= Len(q)
  <2>1. CASE i <= Len(t)
    <3>1. i \in 1..Len(t) /\ w[i] = t[i]
      BY <1>1, <1>2, <1>3, <2>1
    <3>2. QED
      BY <1>1, <1>2, <3>1
  <2>2. CASE i > Len(t)
    <3>1. i \in 1..Len(w) /\ i \in Nat /\ Len(t) \in Nat /\ Len(w) = Len(t) + Len(r)
      BY <1>1, <1>2, <1>3
    <3>2. w[i] = r[i - Len(t)]
      BY <1>3, <2>2, <3>1
    <3>3. i - Len(t) = i - Len(q) + 1 /\ i - Len(t) \in 1..Len(r) /\ i >= Len(q)
      BY <1>1, <1>2, <2>2, <3>1
    <3>4. QED
      BY <1>2, <3>2, <3>3
  <2>3. QED
    BY <1>1, <1>2, <1>3, <2>1, <2>2
<1>5. ASSUME NEW i \in DOMAIN q, i # 1 PROVE i - 1 \in DOMAIN w /\ w[i - 1] = q[i]
  <2>1. i - 1 \in 1..Len(t) /\ (i - 1) + 1 = i
    BY <1>1, <1>2, <1>5
  <2>2. i - 1 \in 1..Len(w) /\ i - 1 <= Len(t)
    BY <1>1, <1>2, <1>3, <2>1
  <2>3. w[i - 1] = t[i - 1] /\ t[i - 1] = q[i]
    BY <1>1, <1>3, <2>1, <2>2
  <2>4. QED
    BY <1>3, <2>2, <2>3
<1>6. ASSUME NEW i \in DOMAIN r PROVE \E j \in DOMAIN w : w[j] = r[i]
  <2>1. i \in Nat /\ i >= 1 /\ i <= Len(r) /\ Len(t) \in Nat
    BY <1>1, <1>2
  <2>2. i + Len(t) \in 1..Len(w) /\ i + Len(t) > Len(t) /\ (i + Len(t)) - Len(t) = i
    BY <1>2, <1>3, <2>1
  <2>3. w[i + Len(t)] = r[(i + Len(t)) - Len(t)]
    BY <1>3, <2>1, <2>2
  <2>4. QED
    BY <1>3, <2>2, <2>3
<1>7. QED
  BY <1>3, <1>4, <1>5, <1>6 DEF w, t

-----------------------------------------------------------------------------
(* The crawl: the search.                                                  *)

\* The nodes of the queue are in the order of their depth, and of two depths at most.
ByDepth(q) ==
  \A i, j \in DOMAIN q : i < j =>
    q[i].depth <= q[j].depth /\ q[j].depth <= q[i].depth + 1

QueuedAt(q, d) == {u \in URLs : \E i \in DOMAIN q : q[i].url = u /\ q[i].depth = d}

\* No URL is in the queue with a depth that is too small for it.
NotTooNear(q) == \A i \in DOMAIN q : q[i].url \in Allowed => q[i].url \in Near[q[i].depth]

\* While depth d is at work: what is done is within d, what is within d is done or
\* waits, and so is what the done ones link.
Frontier(q, done, d) ==
  /\ done \subseteq Near[d]
  /\ Near[d] \subseteq done \cup QueuedAt(q, d)
  /\ \A u \in done : Children(u) \subseteq done \cup QueuedAt(q, d) \cup QueuedAt(q, d + 1)
  /\ \A e \in Nat : e < d => Near[e] \subseteq done

\* How far the search is.
Searched(q, done) ==
  IF q # <<>> /\ q[1].depth <= maxDepth THEN Frontier(q, done, q[1].depth)
  ELSE done = Near[maxDepth]

\* The depths of what follows in the queue.
LEMMA DepthsFollow ==
  ASSUME NEW q \in Seq(Node), q # <<>>, ByDepth(q)
  PROVE  \A i \in DOMAIN q : q[i].depth \in Nat /\ q[1].depth <= q[i].depth
                             /\ q[i].depth <= q[1].depth + 1
<1> TAKE i \in DOMAIN q
<1>1. 1 \in DOMAIN q /\ DOMAIN q \subseteq Nat \ {0}
  OBVIOUS
<1>2. q[i] \in Node /\ q[1] \in Node
  BY <1>1
<1>3. q[i].depth \in Nat /\ q[1].depth \in Nat
  BY <1>2 DEF Node
<1>4. CASE i = 1
  BY <1>3, <1>4
<1>5. CASE i # 1
  <2>1. 1 < i
    BY <1>1, <1>5
  <2>2. QED
    BY <1>1, <1>3, <2>1 DEF ByDepth
<1>6. QED
  BY <1>4, <1>5

\* The queue stays in order when the head's children go to its end.
LEMMA OrderKept ==
  ASSUME NEW q \in Seq(Node), q # <<>>, ByDepth(q), NEW r \in Seq(Node),
         \A i \in DOMAIN r : r[i].depth = q[1].depth + 1
  PROVE  ByDepth(Tail(q) \o r)
<1> DEFINE w == Tail(q) \o r
<1>1. /\ w \in Seq(Node)
      /\ \A i \in DOMAIN w :
           \/ i + 1 \in DOMAIN q /\ w[i] = q[i + 1]
           \/ /\ i - Len(q) + 1 \in DOMAIN r /\ w[i] = r[i - Len(q) + 1]
              /\ i >= Len(q)
  BY TailAndMore
<1> HIDE DEF w
<1>2. Len(q) \in Nat /\ DOMAIN q = 1..Len(q) /\ DOMAIN w \subseteq Nat /\ 1 \in DOMAIN q
  BY <1>1
<1>3. SUFFICES ASSUME NEW i \in DOMAIN w, NEW j \in DOMAIN w, i < j
               PROVE  w[i].depth <= w[j].depth /\ w[j].depth <= w[i].depth + 1
  BY DEF ByDepth, w
<1>4. i \in Nat /\ j \in Nat
  BY <1>2
<1>5. q[1].depth \in Nat
  BY <1>2, DepthsFollow
<1>6. CASE i + 1 \in DOMAIN q /\ w[i] = q[i + 1] /\ j + 1 \in DOMAIN q /\ w[j] = q[j + 1]
  <2>1. i + 1 < j + 1
    BY <1>3, <1>4
  <2>2. QED
    BY <1>6, <2>1 DEF ByDepth
<1>7. CASE i + 1 \in DOMAIN q /\ w[i] = q[i + 1] /\ w[j].depth = q[1].depth + 1
  <2>1. w[i].depth \in Nat /\ q[1].depth <= w[i].depth /\ w[i].depth <= q[1].depth + 1
    BY <1>7, DepthsFollow
  <2>2. QED
    BY <1>5, <1>7, <2>1
<1>8. CASE i >= Len(q) /\ j + 1 \in DOMAIN q
  BY <1>2, <1>3, <1>4, <1>8
<1>9. CASE w[i].depth = q[1].depth + 1 /\ w[j].depth = q[1].depth + 1
  BY <1>5, <1>9
<1>10. QED
  BY <1>1, <1>6, <1>7, <1>8, <1>9

\* When nothing of a depth waits any more, the next one is at work.
LEMMA NextDepth ==
  ASSUME NEW q \in Seq(Node), NEW done \in SUBSET Allowed, NEW d \in Nat,
         Frontier(q, done, d), QueuedAt(q, d) = {}
  PROVE  done = Near[d] /\ Frontier(q, done, d + 1)
<1>1. done = Near[d]
  BY DEF Frontier
<1>2. \A u \in done : Children(u) \subseteq done \cup QueuedAt(q, d + 1)
  BY DEF Frontier
<1>3. Near[d + 1] = done \cup (Allowed \cap UNION {links[u] : u \in done})
  BY <1>1, NearDef DEF Wider
<1>4. Near[d + 1] \subseteq done \cup QueuedAt(q, d + 1)
  BY <1>2, <1>3 DEF Children
<1>5. ASSUME NEW e \in Nat, e < d + 1 PROVE Near[e] \subseteq done
  <2>1. e <= d
    BY <1>5
  <2>2. QED
    BY <1>1, <2>1, NearGrows
<1>6. QED
  BY <1>1, <1>2, <1>3, <1>4, <1>5 DEF Frontier

\* The head of the queue is done, or nothing to do, and what it links waits.
LEMMA FrontierKept ==
  ASSUME NEW q \in Seq(Node), q # <<>>, ByDepth(q), NotTooNear(q),
         NEW r \in Seq(Node), \A i \in DOMAIN r : r[i].depth = q[1].depth + 1,
         NEW done \in SUBSET Allowed, Frontier(q, done, q[1].depth),
         NEW after \in SUBSET Allowed, done \subseteq after, after \subseteq done \cup {q[1].url},
         q[1].url \in Allowed => q[1].url \in after,
         \A u \in after \ done : \A v \in Children(u) : \E i \in DOMAIN r : r[i].url = v
  PROVE  Frontier(Tail(q) \o r, after, q[1].depth)
<1> DEFINE w == Tail(q) \o r
           d == q[1].depth
           h == q[1].url
<1>1. /\ w \in Seq(Node)
      /\ \A i \in DOMAIN q : i # 1 => i - 1 \in DOMAIN w /\ w[i - 1] = q[i]
      /\ \A i \in DOMAIN r : \E j \in DOMAIN w : w[j] = r[i]
  <2>1. w \in Seq(Node)
    BY TailAndMore
  <2>2. \A i \in DOMAIN q : i # 1 => i - 1 \in DOMAIN w /\ w[i - 1] = q[i]
    BY TailAndMore
  <2>3. \A i \in DOMAIN r : \E j \in DOMAIN w : w[j] = r[i]
    BY TailAndMore
  <2>4. QED
    BY <2>1, <2>2, <2>3
<1>2. 1 \in DOMAIN q /\ q[1] \in Node /\ h \in URLs /\ d \in Nat /\ d + 1 \in Nat
  <2>1. 1 \in DOMAIN q /\ q[1] \in Node
    OBVIOUS
  <2>2. QED
    BY <2>1 DEF Node
<1> HIDE DEF w
<1>3. ASSUME NEW u \in URLs, NEW e \in Nat, u \in QueuedAt(q, e), u # h
      PROVE  u \in QueuedAt(w, e)
  <2>1. PICK i \in DOMAIN q : q[i].url = u /\ q[i].depth = e
    BY <1>3 DEF QueuedAt
  <2>2. i # 1
    BY <1>3, <2>1
  <2>3. i - 1 \in DOMAIN w /\ w[i - 1] = q[i]
    BY <1>1, <2>2
  <2>4. QED
    BY <2>1, <2>3 DEF QueuedAt
<1>4. Allowed \subseteq URLs
  BY URLsAssumption
<1>5. h \in Allowed => h \in after
  OBVIOUS
<1>6. after \subseteq Near[d]
  <2>1. h \in Allowed => h \in Near[d]
    BY <1>2 DEF NotTooNear
  <2>2. done \subseteq Near[d]
    BY DEF Frontier
  <2>3. QED
    BY <2>1, <2>2
<1>7. Near[d] \subseteq after \cup QueuedAt(w, d)
  <2>1. SUFFICES ASSUME NEW u \in Near[d], u \notin after PROVE u \in QueuedAt(w, d)
    OBVIOUS
  <2>2. u \in Allowed
    BY <1>2, NearDef
  <2>3. u \in QueuedAt(q, d)
    BY <2>1 DEF Frontier
  <2>4. QED
    BY <1>2, <1>3, <1>4, <1>5, <2>1, <2>2, <2>3
<1>8. ASSUME NEW u \in after, NEW v \in Children(u)
      PROVE  v \in after \cup QueuedAt(w, d) \cup QueuedAt(w, d + 1)
  <2>1. v \in Allowed
    BY DEF Children
  <2>2. CASE u \in done
    <3>1. v \in done \cup QueuedAt(q, d) \cup QueuedAt(q, d + 1)
      BY <2>2 DEF Frontier
    <3>2. QED
      BY <1>2, <1>3, <1>4, <1>5, <2>1, <3>1
  <2>3. CASE u \notin done
    <3>1. PICK i \in DOMAIN r : r[i].url = v
      BY <2>3
    <3>2. PICK j \in DOMAIN w : w[j] = r[i]
      BY <1>1
    <3>3. w[j].url = v /\ w[j].depth = d + 1
      BY <3>1, <3>2
    <3>4. v \in QueuedAt(w, d + 1)
      BY <1>4, <2>1, <3>3 DEF QueuedAt
    <3>5. QED
      BY <3>4
  <2>4. QED
    BY <2>2, <2>3
<1>9. \A e \in Nat : e < d => Near[e] \subseteq after
  BY DEF Frontier
<1>10. QED
  BY <1>6, <1>7, <1>8, <1>9 DEF Frontier, w

\* One node of the queue, within the depths that count.
LEMMA SearchStep ==
  ASSUME maxDepth \in Nat,
         NEW q \in Seq(Node), q # <<>>, ByDepth(q), NotTooNear(q), q[1].depth <= maxDepth,
         NEW r \in Seq(Node), \A i \in DOMAIN r : r[i].depth = q[1].depth + 1,
         NEW done \in SUBSET Allowed, Searched(q, done),
         NEW after \in SUBSET Allowed, done \subseteq after, after \subseteq done \cup {q[1].url},
         q[1].url \in Allowed => q[1].url \in after,
         \A u \in after \ done : \A v \in Children(u) : \E i \in DOMAIN r : r[i].url = v
  PROVE  Searched(Tail(q) \o r, after)
<1> DEFINE w == Tail(q) \o r
           d == q[1].depth
<1>1. 1 \in DOMAIN q /\ d \in Nat /\ d + 1 \in Nat
  <2>1. 1 \in DOMAIN q
    OBVIOUS
  <2>2. QED
    BY <2>1, DepthsFollow
<1>2. Frontier(q, done, d)
  BY DEF Searched
<1>3. Frontier(w, after, d)
  BY <1>2, FrontierKept
<1>4. w \in Seq(Node) /\ ByDepth(w)
  BY OrderKept, TailAndMore
<1>5. w # <<>> => w[1].depth \in {d, d + 1}
  <2> HIDE DEF w
  <2>1. SUFFICES ASSUME w # <<>> PROVE w[1].depth \in {d, d + 1}
    OBVIOUS
  <2>2. 1 \in DOMAIN w
    BY <1>4, <2>1
  <2>3. \/ 1 + 1 \in DOMAIN q /\ w[1] = q[1 + 1]
        \/ 1 - Len(q) + 1 \in DOMAIN r /\ w[1] = r[1 - Len(q) + 1]
    BY <2>2, TailAndMore DEF w
  <2>4. CASE 1 + 1 \in DOMAIN q /\ w[1] = q[1 + 1]
    <3>1. q[1 + 1].depth \in Nat /\ d <= q[1 + 1].depth /\ q[1 + 1].depth <= d + 1
      BY <2>4, DepthsFollow
    <3>2. QED
      BY <1>1, <2>4, <3>1
  <2>5. CASE 1 - Len(q) + 1 \in DOMAIN r /\ w[1] = r[1 - Len(q) + 1]
    BY <2>5
  <2>6. QED
    BY <2>3, <2>4, <2>5
<1> HIDE DEF w
<1>6. CASE w # <<>> /\ w[1].depth = d
  BY <1>3, <1>6 DEF Searched, w
<1>7. CASE w # <<>> /\ w[1].depth = d + 1
  <2>1. QueuedAt(w, d) = {}
    <3>1. \A i \in DOMAIN w : w[1].depth <= w[i].depth /\ w[i].depth \in Nat
      BY <1>4, <1>7, DepthsFollow
    <3>2. \A i \in DOMAIN w : w[i].depth # d
      BY <1>1, <1>7, <3>1
    <3>3. QED
      BY <3>2 DEF QueuedAt
  <2>2. after = Near[d] /\ Frontier(w, after, d + 1)
    BY <1>1, <1>3, <1>4, <2>1, NextDepth
  <2>3. CASE d + 1 <= maxDepth
    BY <1>7, <2>2, <2>3 DEF Searched, w
  <2>4. CASE ~(d + 1 <= maxDepth)
    <3>1. d = maxDepth
      BY <1>1, <2>4
    <3>2. QED
      BY <1>7, <2>2, <2>4, <3>1 DEF Searched, w
  <2>5. QED
    BY <2>3, <2>4
<1>8. CASE w = <<>>
  <2>1. QueuedAt(w, d) = {} /\ QueuedAt(w, d + 1) = {}
    BY <1>8 DEF QueuedAt
  <2>2. after = Near[d] /\ Frontier(w, after, d + 1)
    BY <1>1, <1>3, <1>4, <2>1, NextDepth
  <2>3. \A u \in Near[d] : Allowed \cap links[u] \subseteq Near[d]
    BY <1>3, <2>1, <2>2 DEF Frontier, Children
  <2>4. Near[maxDepth] = Near[d]
    BY <1>1, <2>3, NearStays
  <2>5. QED
    BY <1>8, <2>2, <2>4 DEF Searched, w
<1>9. QED
  BY <1>5, <1>6, <1>7, <1>8

-----------------------------------------------------------------------------
(* The crawl: the invariant.                                               *)

\* As long as it goes on, all it has seen it has found.
Counting == phase = "crawl" => crawled = seen /\ bodies = seen /\ nodeCount <= maxNodes

\* A body is there exactly when it was requested.
CallsAgree == phase # "failed" => \A u \in URLs : calls[u] = IF u \in bodies THEN 1 ELSE 0

SearchAgrees ==
  phase = "crawl" => ByDepth(queue) /\ NotTooNear(queue) /\ Searched(queue, crawled)

\* What is left to look up ends with the voting.
LookupsLeft == phase \in {"crawl", "lookup"} => lookups # NumLookups

CrawlInv == /\ CrawlTypeOK
            /\ LookupsLeft
            /\ Counting
            /\ CallsAgree
            /\ SearchAgrees
            /\ NearestFirst
            /\ CrawlIsComplete
            /\ RequestedOnce

LEMMA NodesAtDepth ==
  ASSUME NEW s \in Seq(URLs), NEW d \in Nat
  PROVE  /\ AtDepth(s, d) \in Seq(Node)
         /\ DOMAIN AtDepth(s, d) = DOMAIN s
         /\ \A i \in DOMAIN s : AtDepth(s, d)[i].url = s[i] /\ AtDepth(s, d)[i].depth = d
<1>1. \A i \in DOMAIN s : [url |-> s[i], depth |-> d] \in Node
  BY DEF Node
<1>2. DOMAIN s = 1..Len(s) /\ Len(s) \in Nat
  OBVIOUS
<1>3. AtDepth(s, d) \in [1..Len(s) -> Node]
  BY <1>1, <1>2 DEF AtDepth
<1>4. AtDepth(s, d) \in Seq(Node)
  BY <1>2, <1>3
<1>5. QED
  BY <1>4 DEF AtDepth

\* What is seen is finitely much, and one more counts one.
LEMMA CountOneMore ==
  ASSUME NEW s \in SUBSET Allowed, NEW u \in Allowed, u \notin s
  PROVE  /\ Cardinality(s) \in Nat
         /\ Cardinality(s \cup {u}) = Cardinality(s) + 1
<1>1. IsFiniteSet(s)
  <2>1. s \subseteq URLs
    BY URLsAssumption
  <2>2. QED
    BY <2>1, URLsAssumption, FS_Subset
<1>2. QED
  BY <1>1, FS_AddElement, FS_CardinalityType

LEMMA CountedType ==
  ASSUME NEW s \in SUBSET Allowed
  PROVE  Cardinality(s) \in Nat
<1>1. IsFiniteSet(s)
  <2>1. s \subseteq URLs
    BY URLsAssumption
  <2>2. QED
    BY <2>1, URLsAssumption, FS_Subset
<1>2. QED
  BY <1>1, FS_CardinalityType

LEMMA CrawlBegins == CrawlInit => CrawlInv
<1> SUFFICES ASSUME CrawlInit PROVE CrawlInv
  OBVIOUS
<1> USE DEF CrawlInit
<1>1. seeds \in Seq(URLs) /\ \E i \in DOMAIN seeds : seeds[i] = Affairs
  BY SeedsAssumption
<1>2. /\ queue \in Seq(Node) /\ DOMAIN queue = DOMAIN seeds
      /\ \A i \in DOMAIN seeds : queue[i].url = seeds[i] /\ queue[i].depth = 0
  BY <1>1, NodesAtDepth
<1>3. maxDepth \in Nat /\ maxNodes \in Nat \ {0}
  BY CapsAssumption
<1>4. CrawlTypeOK
  <2>1. nodeCount = Cardinality(seen)
    BY FS_EmptySet
  <2>2. lookups \in 0..NumLookups
    BY DEF NumLookups
  <2>3. QED
    BY <1>2, <1>3, <2>1, <2>2 DEF CrawlTypeOK
<1>5. Counting /\ CallsAgree /\ LookupsLeft /\ RequestedOnce
  BY <1>3 DEF Counting, CallsAgree, LookupsLeft, NumLookups, RequestedOnce
<1>6. Near[0] = SeedURLs /\ \A d \in Nat : Near[d] \subseteq Allowed
  BY NearDef
<1>7. SearchAgrees
  <2>1. ByDepth(queue)
    BY <1>2 DEF ByDepth
  <2>2. NotTooNear(queue)
    BY <1>2, <1>6 DEF NotTooNear, SeedURLs
  <2>3. queue # <<>> /\ queue[1].depth = 0
    <3>1. queue # <<>>
      BY <1>1, <1>2
    <3>2. 1 \in DOMAIN queue
      BY <1>2, <3>1
    <3>3. QED
      BY <1>2, <3>1, <3>2
  <2>4. Frontier(queue, crawled, 0)
    <3>1. Near[0] \subseteq QueuedAt(queue, 0)
      <4>1. SUFFICES ASSUME NEW u \in SeedURLs PROVE u \in QueuedAt(queue, 0)
        BY <1>6
      <4>2. PICK i \in DOMAIN seeds : seeds[i] = u
        BY DEF SeedURLs
      <4>3. QED
        BY <1>2, <4>2, URLsAssumption DEF QueuedAt, SeedURLs
    <3>2. QED
      BY <3>1 DEF Frontier
  <2>5. Searched(queue, crawled)
    BY <1>3, <2>3, <2>4 DEF Searched
  <2>6. QED
    BY <2>1, <2>2, <2>5 DEF SearchAgrees
<1>8. NearestFirst /\ CrawlIsComplete
  BY DEF NearestFirst, CrawlIsComplete
<1>9. QED
  BY <1>4, <1>5, <1>7, <1>8 DEF CrawlInv

\* What the search has found so far comes in the order of the distance.
LEMMA SearchedNearestFirst ==
  ASSUME NEW q \in Seq(Node), ByDepth(q), NEW done, Searched(q, done), maxDepth \in Nat
  PROVE  \A d \in 0..maxDepth : done \subseteq Near[d] \/ Near[d] \subseteq done
<1> TAKE d \in 0..maxDepth
<1>1. d \in Nat /\ d <= maxDepth
  OBVIOUS
<1>2. CASE q # <<>> /\ q[1].depth <= maxDepth
  <2>1. Frontier(q, done, q[1].depth)
    BY <1>2 DEF Searched
  <2>2. q[1].depth \in Nat
    <3>1. 1 \in DOMAIN q
      BY <1>2
    <3>2. QED
      BY <1>2, <3>1, DepthsFollow
  <2>3. CASE d < q[1].depth
    BY <1>1, <2>1, <2>3 DEF Frontier
  <2>4. CASE q[1].depth <= d
    <3>1. Near[q[1].depth] \subseteq Near[d]
      BY <1>1, <2>2, <2>4, NearGrows
    <3>2. QED
      BY <2>1, <3>1 DEF Frontier
  <2>5. QED
    BY <1>1, <2>2, <2>3, <2>4
<1>3. CASE ~(q # <<>> /\ q[1].depth <= maxDepth)
  <2>1. done = Near[maxDepth]
    BY <1>3 DEF Searched
  <2>2. Near[d] \subseteq Near[maxDepth]
    BY <1>1, NearGrows
  <2>3. QED
    BY <2>1, <2>2
<1>4. QED
  BY <1>2, <1>3

\* The graph does not change: what the next state is said to have, it has.
LEMMA NearUnchanged == ASSUME UNCHANGED config PROVE Near' = Near
  BY DEF config, Near

LEMMA SearchAgreesNext ==
  ASSUME UNCHANGED config,
         ByDepth(queue'), NotTooNear(queue'), Searched(queue', crawled')
  PROVE  SearchAgrees'
<1>1. Near' = Near /\ maxDepth' = maxDepth /\ links' = links
  BY NearUnchanged DEF config
<1>2. ByDepth(queue)'
  BY DEF ByDepth
<1>3. NotTooNear(queue)'
  BY <1>1 DEF NotTooNear
<1>4. Searched(queue, crawled)'
  BY <1>1 DEF Searched, Frontier, QueuedAt, Children
<1>5. QED
  BY <1>2, <1>3, <1>4 DEF SearchAgrees

LEMMA NearestFirstNext ==
  ASSUME UNCHANGED config,
         \A d \in 0..maxDepth : crawled' \subseteq Near[d] \/ Near[d] \subseteq crawled'
  PROVE  NearestFirst'
  BY NearUnchanged DEF NearestFirst, config

\* The bodies and the calls of a step of the crawl.
LEMMA RequestKeeps ==
  ASSUME CrawlInv, RequestNode
  PROVE  /\ node \in Node /\ node = queue[1] /\ node.url \in Allowed \ seen
         /\ node.depth \in Nat /\ node.depth <= maxDepth
         /\ seen' \subseteq Allowed
         /\ nodeCount' = Cardinality(seen') /\ nodeCount' <= maxNodes
         /\ calls' \in [URLs -> Nat]
         /\ \A u \in URLs : calls'[u] = IF u \in seen' THEN 1 ELSE 0
<1> USE DEF RequestNode
<1>1. CrawlTypeOK /\ Counting /\ CallsAgree
  BY DEF CrawlInv
<1>2. queue \in Seq(Node) /\ queue # <<>> /\ 1 \in DOMAIN queue
  BY <1>1 DEF CrawlTypeOK
<1>3. node = queue[1] /\ node \in Node
  BY <1>2 DEF node
<1>4. node.url \in Allowed \ seen /\ node.depth <= maxDepth /\ node.depth \in Nat
  BY <1>3 DEF Wanted, Node
<1>5. maxNodes \in Nat /\ seen \subseteq Allowed
  BY <1>1, CapsAssumption DEF CrawlTypeOK
<1>6. nodeCount' = Cardinality(seen') /\ nodeCount' <= maxNodes
  <2>1. Cardinality(seen') = Cardinality(seen) + 1 /\ Cardinality(seen) \in Nat
    BY <1>4, <1>5, CountOneMore
  <2>2. nodeCount = Cardinality(seen)
    BY <1>1 DEF CrawlTypeOK
  <2>3. QED
    BY <1>5, <2>1, <2>2 DEF OverTheCap
<1>7. calls' \in [URLs -> Nat] /\ \A u \in URLs : calls'[u] = IF u \in seen' THEN 1 ELSE 0
  <2>1. calls \in [URLs -> Nat] /\ \A u \in URLs : calls[u] = IF u \in seen THEN 1 ELSE 0
    BY <1>1 DEF CrawlTypeOK, Counting, CallsAgree
  <2>2. node.url \in URLs
    BY <1>4, URLsAssumption
  <2>3. QED
    BY <1>4, <2>1, <2>2
<1>8. QED
  BY <1>3, <1>4, <1>5, <1>6, <1>7

LEMMA SkipKeeps == ASSUME CrawlInv, SkipNode PROVE CrawlInv'
<1> USE DEF SkipNode
<1>1. CrawlTypeOK /\ Counting /\ CallsAgree /\ SearchAgrees
  BY DEF CrawlInv
<1>2. /\ queue \in Seq(Node) /\ queue # <<>> /\ 1 \in DOMAIN queue
      /\ queue[1] \in Node /\ queue[1].url \in URLs /\ queue[1].depth \in Nat
  <2>1. queue \in Seq(Node) /\ queue # <<>> /\ 1 \in DOMAIN queue
    BY <1>1 DEF CrawlTypeOK
  <2>2. queue[1] \in Node
    BY <2>1
  <2>3. QED
    BY <2>1, <2>2 DEF Node
<1>3. node = queue[1]
  BY <1>2 DEF node
<1>4. queue' = Tail(queue) \o <<>> /\ queue' \in Seq(Node) /\ <<>> \in Seq(Node)
  <2>1. Tail(queue) \in Seq(Node)
    BY <1>2, HeadTailProperties
  <2>2. QED
    BY <2>1, ConcatEmptySeq
<1>5. crawled \in SUBSET Allowed /\ crawled = seen /\ maxDepth \in Nat
  BY <1>1, CapsAssumption DEF CrawlTypeOK, Counting
<1>6. ByDepth(queue) /\ NotTooNear(queue) /\ Searched(queue, crawled)
  BY <1>1 DEF SearchAgrees
<1>7. ByDepth(queue')
  <2>1. \A i \in DOMAIN <<>> : <<>>[i].depth = queue[1].depth + 1
    OBVIOUS
  <2>2. QED
    BY <1>2, <1>4, <1>6, <2>1, OrderKept
<1>8. \A i \in DOMAIN queue' : i + 1 \in DOMAIN queue /\ queue'[i] = queue[i + 1]
  <2>1. \A i \in DOMAIN <<>> : FALSE
    OBVIOUS
  <2>2. QED
    BY <1>2, <1>4, <2>1, TailAndMore
<1>9. NotTooNear(queue')
  BY <1>6, <1>8 DEF NotTooNear
<1>10. Searched(queue', crawled')
  <2>1. CASE queue[1].depth <= maxDepth
    <3>1. queue[1].url \in Allowed => queue[1].url \in crawled
      BY <1>2, <1>3, <1>5, <2>1 DEF Wanted
    <3>2. \A i \in DOMAIN <<>> : <<>>[i].depth = queue[1].depth + 1
      OBVIOUS
    <3>3. \A u \in crawled \ crawled : \A v \in Children(u) : \E i \in DOMAIN <<>> : <<>>[i].url = v
      OBVIOUS
    <3>4. Searched(Tail(queue) \o <<>>, crawled)
      BY <1>2, <1>4, <1>5, <1>6, <2>1, <3>1, <3>2, <3>3, SearchStep
    <3>5. QED
      BY <1>4, <3>4
  <2>2. CASE ~(queue[1].depth <= maxDepth)
    <3>1. crawled = Near[maxDepth]
      BY <1>6, <2>2 DEF Searched
    <3>2. queue' # <<>> => ~(queue'[1].depth <= maxDepth)
      <4>1. SUFFICES ASSUME queue' # <<>> PROVE ~(queue'[1].depth <= maxDepth)
        OBVIOUS
      <4>2. 1 \in DOMAIN queue'
        BY <1>4, <4>1
      <4>3. 1 + 1 \in DOMAIN queue /\ queue'[1] = queue[1 + 1]
        BY <1>8, <4>2
      <4>4. queue[1].depth <= queue[1 + 1].depth /\ queue[1 + 1].depth \in Nat
        BY <1>2, <1>6, <4>3, DepthsFollow
      <4>5. QED
        BY <1>2, <1>5, <2>2, <4>3, <4>4
    <3>3. QED
      BY <3>1, <3>2 DEF Searched
  <2>3. QED
    BY <2>1, <2>2
<1>11. SearchAgrees'
  BY <1>7, <1>9, <1>10, SearchAgreesNext
<1>12. CrawlTypeOK' /\ Counting' /\ CallsAgree' /\ LookupsLeft'
  BY <1>1, <1>4 DEF CrawlInv, CrawlTypeOK, Counting, CallsAgree, LookupsLeft, config
<1>13. NearestFirst' /\ CrawlIsComplete' /\ RequestedOnce'
  BY NearUnchanged DEF CrawlInv, NearestFirst, CrawlIsComplete, RequestedOnce, config
<1>14. QED
  BY <1>11, <1>12, <1>13 DEF CrawlInv

LEMMA VisitKeeps == ASSUME CrawlInv, VisitNode PROVE CrawlInv'
<1> DEFINE d == queue[1].depth
           u == queue[1].url
<1>1. CrawlTypeOK /\ Counting /\ CallsAgree /\ SearchAgrees /\ NearestFirst
  BY DEF CrawlInv
<1>2. /\ RequestNode /\ phase = "crawl" /\ queue # <<>>
      /\ seen' = seen \cup {node.url}
      /\ bodies' = bodies \cup {node.url} /\ crawled' = crawled \cup {node.url}
      /\ UNCHANGED <<config, phase, lookups>>
  BY DEF VisitNode, RequestNode
<1>3. /\ node = queue[1] /\ u \in Allowed \ seen /\ d \in Nat /\ d <= maxDepth
      /\ seen' \subseteq Allowed
      /\ nodeCount' = Cardinality(seen') /\ nodeCount' <= maxNodes
      /\ calls' \in [URLs -> Nat]
      /\ \A v \in URLs : calls'[v] = IF v \in seen' THEN 1 ELSE 0
  BY <1>2, RequestKeeps
<1>4. queue \in Seq(Node) /\ 1 \in DOMAIN queue
  BY <1>1, <1>2 DEF CrawlTypeOK
<1>5. crawled = seen /\ bodies = seen /\ crawled \in SUBSET Allowed
      /\ maxDepth \in Nat /\ maxNodes \in Nat
  BY <1>1, <1>2, CapsAssumption DEF CrawlTypeOK, Counting
<1>6. ByDepth(queue) /\ NotTooNear(queue) /\ Searched(queue, crawled)
  BY <1>1, <1>2 DEF SearchAgrees
<1>7. IsFiniteSet(Children(u)) /\ Children(u) \subseteq URLs
  <2>1. Children(u) \subseteq Allowed
    BY DEF Children
  <2>2. QED
    BY <2>1, URLsAssumption, FS_Subset
<1>8. PICK cs \in SetToSeqs(Children(u)) : queue' = Tail(queue) \o AtDepth(cs, d + 1)
  BY <1>3 DEF VisitNode, Push
<1> DEFINE r == AtDepth(cs, d + 1)
<1>9. cs \in Seq(Children(u)) /\ \A v \in Children(u) : \E i \in DOMAIN cs : cs[i] = v
  BY <1>7, SeqsOfSet
<1>10. cs \in Seq(URLs)
  BY <1>7, <1>9
<1>11. /\ r \in Seq(Node) /\ DOMAIN r = DOMAIN cs
       /\ \A i \in DOMAIN r : r[i].url = cs[i] /\ r[i].depth = d + 1
  BY <1>3, <1>10, NodesAtDepth
<1> HIDE DEF r
<1>12. queue' = Tail(queue) \o r
  BY <1>8 DEF r
<1>13. queue' \in Seq(Node) /\ ByDepth(queue')
  <2>1. queue' \in Seq(Node)
    BY <1>2, <1>4, <1>11, <1>12, TailAndMore
  <2>2. ByDepth(Tail(queue) \o r)
    BY <1>2, <1>4, <1>6, <1>11, OrderKept
  <2>3. QED
    BY <1>12, <2>1, <2>2
<1>14. u \in Near[d]
  BY <1>3, <1>4, <1>6 DEF NotTooNear
<1>15. \A i \in DOMAIN r : r[i].url \in Near[d + 1]
  <2>1. Near[d + 1] = Wider(Near[d])
    BY <1>3, NearDef
  <2>2. Children(u) \subseteq Wider(Near[d])
    BY <1>14 DEF Children, Wider
  <2>3. \A i \in DOMAIN cs : cs[i] \in Children(u)
    BY <1>9
  <2>4. QED
    BY <1>11, <2>1, <2>2, <2>3
<1>16. NotTooNear(queue')
  <2>1. SUFFICES ASSUME NEW i \in DOMAIN queue', queue'[i].url \in Allowed
                 PROVE  queue'[i].url \in Near[queue'[i].depth]
    BY DEF NotTooNear
  <2>2. \/ i + 1 \in DOMAIN queue /\ queue'[i] = queue[i + 1]
        \/ i - Len(queue) + 1 \in DOMAIN r /\ queue'[i] = r[i - Len(queue) + 1]
    BY <1>2, <1>4, <1>11, <1>12, TailAndMore
  <2>3. CASE i + 1 \in DOMAIN queue /\ queue'[i] = queue[i + 1]
    BY <1>6, <2>1, <2>3 DEF NotTooNear
  <2>4. CASE i - Len(queue) + 1 \in DOMAIN r /\ queue'[i] = r[i - Len(queue) + 1]
    BY <1>11, <1>15, <2>4
  <2>5. QED
    BY <2>2, <2>3, <2>4
<1>17. crawled' \in SUBSET Allowed /\ crawled \subseteq crawled' /\ u \in crawled'
       /\ crawled' = crawled \cup {u}
  BY <1>2, <1>3, <1>5
<1>18. Searched(queue', crawled')
  <2>1. \A x \in crawled' \ crawled : \A v \in Children(x) : \E i \in DOMAIN r : r[i].url = v
    <3>1. \A x \in crawled' \ crawled : x = u
      BY <1>17
    <3>2. \A v \in Children(u) : \E i \in DOMAIN r : r[i].url = v
      BY <1>9, <1>11
    <3>3. QED
      BY <3>1, <3>2
  <2>2. Searched(Tail(queue) \o r, crawled')
    BY <1>2, <1>3, <1>4, <1>5, <1>6, <1>11, <1>17, <2>1, SearchStep
  <2>3. QED
    BY <1>12, <2>2
<1>19. SearchAgrees'
  BY <1>2, <1>13, <1>16, <1>18, SearchAgreesNext
<1>20. CrawlTypeOK'
  <2>1. nodeCount' \in Nat
    BY <1>3, CountedType
  <2>2. nodeCount' <= maxNodes + 1
    BY <1>3, <1>5, <2>1
  <2>3. crawled' \subseteq seen' /\ crawled' \subseteq bodies' /\ bodies' \subseteq Allowed
    BY <1>2, <1>3, <1>5
  <2>4. QED
    BY <1>1, <1>2, <1>3, <1>13, <2>2, <2>3 DEF CrawlTypeOK, config
<1>21. Counting' /\ CallsAgree' /\ LookupsLeft' /\ RequestedOnce'
  BY <1>2, <1>3, <1>5 DEF CrawlInv, Counting, CallsAgree, LookupsLeft, RequestedOnce, config
<1>22. NearestFirst'
  <2>1. \A e \in 0..maxDepth : crawled' \subseteq Near[e] \/ Near[e] \subseteq crawled'
    BY <1>5, <1>13, <1>18, SearchedNearestFirst
  <2>2. QED
    BY <1>2, <2>1, NearestFirstNext
<1>23. CrawlIsComplete'
  BY <1>2 DEF CrawlIsComplete
<1>24. QED
  BY <1>19, <1>20, <1>21, <1>22, <1>23 DEF CrawlInv

LEMMA VisitFailsKeeps == ASSUME CrawlInv, VisitFails PROVE CrawlInv'
<1>1. CrawlTypeOK /\ Counting /\ NearestFirst
  BY DEF CrawlInv
<1>2. /\ RequestNode /\ phase = "crawl" /\ seen' = seen \cup {node.url}
      /\ phase' = "failed" /\ queue' = <<>>
      /\ UNCHANGED <<config, bodies, crawled, lookups>>
  BY DEF VisitFails, RequestNode
<1>3. /\ node.url \in Allowed
      /\ seen' \subseteq Allowed
      /\ nodeCount' = Cardinality(seen') /\ nodeCount' <= maxNodes
      /\ calls' \in [URLs -> Nat]
      /\ \A v \in URLs : calls'[v] = IF v \in seen' THEN 1 ELSE 0
  BY <1>2, RequestKeeps
<1>4. maxNodes \in Nat /\ nodeCount' \in Nat
  <2>1. seen \in SUBSET Allowed /\ maxNodes \in Nat
    BY <1>1, CapsAssumption DEF CrawlTypeOK
  <2>2. Cardinality(seen') \in Nat
    BY <1>3, CountedType
  <2>3. QED
    BY <1>3, <2>1, <2>2
<1>5. nodeCount' <= maxNodes + 1
  BY <1>3, <1>4
<1>6. CrawlTypeOK'
  BY <1>1, <1>2, <1>3, <1>5 DEF CrawlTypeOK, config
<1>7. /\ Counting' /\ CallsAgree' /\ LookupsLeft' /\ SearchAgrees'
      /\ CrawlIsComplete' /\ RequestedOnce'
  BY <1>2, <1>3 DEF Counting, CallsAgree, LookupsLeft, SearchAgrees, CrawlIsComplete, RequestedOnce
<1>8. NearestFirst'
  BY <1>1, <1>2, NearUnchanged DEF NearestFirst, config
<1>9. QED
  BY <1>6, <1>7, <1>8 DEF CrawlInv

LEMMA StopAtCapKeeps == ASSUME CrawlInv, StopAtCap PROVE CrawlInv'
<1> USE DEF StopAtCap
<1>1. CrawlTypeOK /\ Counting /\ CallsAgree /\ SearchAgrees /\ NearestFirst /\ RequestedOnce
  BY DEF CrawlInv
<1>2. queue \in Seq(Node) /\ queue # <<>> /\ 1 \in DOMAIN queue
  BY <1>1 DEF CrawlTypeOK
<1>3. node = queue[1] /\ node \in Node
  BY <1>2 DEF node
<1>4. /\ node.url \in Allowed \ seen
      /\ queue[1].depth \in Nat /\ queue[1].depth <= maxDepth
  BY <1>3 DEF Wanted, Node
<1>5. maxNodes \in Nat /\ maxDepth \in Nat /\ seen \in SUBSET Allowed /\ nodeCount = Cardinality(seen)
  BY <1>1, CapsAssumption DEF CrawlTypeOK
<1>6. /\ Cardinality(seen) \in Nat /\ nodeCount' = Cardinality(seen')
      /\ nodeCount = maxNodes /\ nodeCount' = maxNodes + 1
  <2>1. Cardinality(seen') = Cardinality(seen) + 1 /\ Cardinality(seen) \in Nat
    BY <1>4, <1>5, CountOneMore
  <2>2. nodeCount <= maxNodes /\ nodeCount + 1 > maxNodes
    BY <1>1 DEF Counting, OverTheCap
  <2>3. QED
    BY <1>5, <2>1, <2>2
<1>7. crawled = seen /\ bodies = seen
  BY <1>1 DEF Counting
<1>8. crawled \subseteq Near[maxDepth]
  <2>1. Frontier(queue, crawled, queue[1].depth)
    BY <1>1, <1>2, <1>4 DEF SearchAgrees, Searched
  <2>2. Near[queue[1].depth] \subseteq Near[maxDepth]
    BY <1>4, <1>5, NearGrows
  <2>3. QED
    BY <2>1, <2>2 DEF Frontier
<1>9. Near' = Near /\ maxDepth' = maxDepth /\ maxNodes' = maxNodes
  BY NearUnchanged DEF config
<1>10. CrawlIsComplete'
  BY <1>5, <1>6, <1>7, <1>8, <1>9 DEF CrawlIsComplete
<1>11. CrawlTypeOK'
  BY <1>1, <1>4, <1>5, <1>6 DEF CrawlTypeOK, config
<1>12. Counting' /\ CallsAgree' /\ LookupsLeft' /\ SearchAgrees' /\ RequestedOnce'
  BY <1>1 DEF CrawlInv, Counting, CallsAgree, LookupsLeft, SearchAgrees, RequestedOnce
<1>13. NearestFirst'
  BY <1>1, <1>9 DEF NearestFirst
<1>14. QED
  BY <1>10, <1>11, <1>12, <1>13 DEF CrawlInv

LEMMA QueueEmptyKeeps == ASSUME CrawlInv, QueueEmpty PROVE CrawlInv'
<1> USE DEF QueueEmpty
<1>1. CrawlTypeOK /\ CallsAgree /\ SearchAgrees /\ NearestFirst /\ RequestedOnce
  BY DEF CrawlInv
<1>2. crawled = Near[maxDepth]
  BY <1>1 DEF SearchAgrees, Searched
<1>3. Near' = Near /\ maxDepth' = maxDepth
  BY NearUnchanged DEF config
<1>4. CrawlIsComplete' /\ NearestFirst'
  BY <1>1, <1>2, <1>3 DEF CrawlIsComplete, NearestFirst
<1>5. CrawlTypeOK' /\ Counting' /\ CallsAgree' /\ LookupsLeft' /\ SearchAgrees' /\ RequestedOnce'
  BY <1>1 DEF CrawlInv, CrawlTypeOK, Counting, CallsAgree, LookupsLeft, SearchAgrees, RequestedOnce,
              config
<1>6. QED
  BY <1>4, <1>5 DEF CrawlInv

\* A body that is not there is asked for, and then it is.
LEMMA LookedUp ==
  ASSUME CrawlInv, NEW u \in URLs, u \in Allowed, phase = "lookup", BodyFromCacheOrFetch(u)
  PROVE  /\ calls' \in [URLs -> Nat]
         /\ bodies' \subseteq Allowed /\ bodies \subseteq bodies'
         /\ \A v \in URLs : calls'[v] = IF v \in bodies' THEN 1 ELSE 0
<1>1. /\ calls \in [URLs -> Nat] /\ bodies \subseteq Allowed
      /\ \A v \in URLs : calls[v] = IF v \in bodies THEN 1 ELSE 0
  BY DEF CrawlInv, CrawlTypeOK, CallsAgree
<1>2. CASE u \in bodies
  BY <1>1, <1>2 DEF BodyFromCacheOrFetch
<1>3. CASE u \notin bodies
  BY <1>1, <1>3 DEF BodyFromCacheOrFetch
<1>4. QED
  BY <1>2, <1>3

LEMMA LookupKeeps == ASSUME CrawlInv, NEW u \in URLs, Lookup(u) PROVE CrawlInv'
<1> USE DEF Lookup
<1>1. CrawlTypeOK /\ NearestFirst /\ CrawlIsComplete /\ phase = "lookup"
  BY DEF CrawlInv, LookupOf
<1>2. /\ calls' \in [URLs -> Nat]
      /\ bodies' \subseteq Allowed /\ bodies \subseteq bodies'
      /\ \A v \in URLs : calls'[v] = IF v \in bodies' THEN 1 ELSE 0
  BY <1>1, LookedUp
<1>3. lookups' \in 0..NumLookups /\ phase' \in {"lookup", "done"}
  <2>1. lookups \in 0..NumLookups /\ lookups # NumLookups
    BY <1>1 DEF CrawlTypeOK, CrawlInv, LookupsLeft
  <2>2. QED
    BY <1>1, <2>1 DEF NumLookups
<1>4. CrawlTypeOK'
  BY <1>1, <1>2, <1>3 DEF CrawlTypeOK, config
<1>5. LookupsLeft'
  BY <1>1 DEF LookupsLeft
<1>6. Counting' /\ CallsAgree' /\ SearchAgrees' /\ RequestedOnce'
  BY <1>2, <1>3 DEF Counting, CallsAgree, SearchAgrees, RequestedOnce
<1>7. NearestFirst' /\ CrawlIsComplete'
  BY <1>1, NearUnchanged DEF NearestFirst, CrawlIsComplete, config
<1>8. QED
  BY <1>4, <1>5, <1>6, <1>7 DEF CrawlInv

LEMMA LookupFailsKeeps == ASSUME CrawlInv, NEW u \in URLs, LookupFails(u) PROVE CrawlInv'
<1> USE DEF LookupFails
<1>1. CrawlTypeOK /\ NearestFirst /\ CallsAgree /\ phase = "lookup"
  BY DEF CrawlInv, LookupOf
<1>2. /\ calls' \in [URLs -> Nat]
      /\ bodies' \subseteq Allowed /\ bodies \subseteq bodies'
      /\ \A v \in URLs : calls'[v] = IF v \in bodies' THEN 1 ELSE 0
  <2>1. CASE u \in Allowed
    BY <1>1, <2>1, LookedUp
  <2>2. CASE u \notin Allowed
    BY <1>1, <2>2 DEF CrawlTypeOK, CallsAgree
  <2>3. QED
    BY <2>1, <2>2
<1>3. CrawlTypeOK'
  BY <1>1, <1>2 DEF CrawlTypeOK, config
<1>4. /\ Counting' /\ CallsAgree' /\ LookupsLeft' /\ SearchAgrees'
      /\ CrawlIsComplete' /\ RequestedOnce'
  BY <1>2 DEF Counting, CallsAgree, LookupsLeft, SearchAgrees, CrawlIsComplete, RequestedOnce
<1>5. NearestFirst'
  BY <1>1, NearUnchanged DEF NearestFirst, config
<1>6. QED
  BY <1>3, <1>4, <1>5 DEF CrawlInv

LEMMA CrawlStutters == ASSUME CrawlInv, UNCHANGED crawlVars PROVE CrawlInv'
<1>1. UNCHANGED config
  BY DEF crawlVars
<1>2. CrawlTypeOK' /\ Counting' /\ CallsAgree' /\ LookupsLeft' /\ RequestedOnce'
  BY DEF CrawlInv, crawlVars, config, CrawlTypeOK, Counting, CallsAgree, LookupsLeft, RequestedOnce
<1>3. SearchAgrees'
  <2>1. CASE phase = "crawl"
    BY <1>1, <2>1, SearchAgreesNext DEF CrawlInv, SearchAgrees, crawlVars
  <2>2. CASE phase # "crawl"
    BY <2>2 DEF SearchAgrees, crawlVars
  <2>3. QED
    BY <2>1, <2>2
<1>4. NearestFirst' /\ CrawlIsComplete'
  BY <1>1, NearUnchanged DEF CrawlInv, NearestFirst, CrawlIsComplete, crawlVars, config
<1>5. QED
  BY <1>2, <1>3, <1>4 DEF CrawlInv

LEMMA CrawlKeeps == ASSUME CrawlInv, [CrawlNext]_crawlVars PROVE CrawlInv'
<1>1. CASE SkipNode
  BY <1>1, SkipKeeps
<1>2. CASE VisitNode
  BY <1>2, VisitKeeps
<1>3. CASE VisitFails
  BY <1>3, VisitFailsKeeps
<1>4. CASE StopAtCap
  BY <1>4, StopAtCapKeeps
<1>5. CASE QueueEmpty
  BY <1>5, QueueEmptyKeeps
<1>6. CASE \E u \in URLs : Lookup(u) \/ LookupFails(u)
  BY <1>6, LookupKeeps, LookupFailsKeeps
<1>7. CASE UNCHANGED crawlVars
  BY <1>7, CrawlStutters
<1>8. QED
  BY <1>1, <1>2, <1>3, <1>4, <1>5, <1>6, <1>7 DEF CrawlNext

LEMMA CrawlInvariant == CrawlSpec => []CrawlInv
<1>1. CrawlInit => CrawlInv
  BY CrawlBegins
<1>2. CrawlInv /\ [CrawlNext]_crawlVars => CrawlInv'
  BY CrawlKeeps
<1>3. QED
  BY <1>1, <1>2, PTL DEF CrawlSpec

(***************************************************************************)
(* The queue of crawlVoting, the set of what it has seen and what is       *)
(* looked up afterwards have their types, whatever the links are: what is  *)
(* seen is counted one for one and at most one beyond the cap.             *)
(***************************************************************************)
THEOREM CrawlTypeCorrect == CrawlSpec => []CrawlTypeOK
<1>1. CrawlInv => CrawlTypeOK
  BY DEF CrawlInv
<1>2. QED
  BY <1>1, CrawlInvariant, PTL

(***************************************************************************)
(* The crawl visits a URL only after all that are nearer, whatever the     *)
(* caps and the graph of the links, and in whatever order the links of a   *)
(* body are met: the mark that is set at the first meeting hides no        *)
(* shorter way (main.go:910).                                              *)
(***************************************************************************)
THEOREM NearestAreFirst == CrawlSpec => []NearestFirst
<1>1. CrawlInv => NearestFirst
  BY DEF CrawlInv
<1>2. QED
  BY <1>1, CrawlInvariant, PTL

(***************************************************************************)
(* A crawl that ends has all that MaxDepth links reach, or is full.        *)
(***************************************************************************)
THEOREM CrawlCompletes == CrawlSpec => []CrawlIsComplete
<1>1. CrawlInv => CrawlIsComplete
  BY DEF CrawlInv
<1>2. QED
  BY <1>1, CrawlInvariant, PTL

(***************************************************************************)
(* No URL of a voting is requested twice, by the crawl or by the look-ups  *)
(* that follow it, and none of another host is requested.                  *)
(***************************************************************************)
THEOREM RequestedAtMostOnce == CrawlSpec => []RequestedOnce
<1>1. CrawlInv => RequestedOnce
  BY DEF CrawlInv
<1>2. QED
  BY <1>1, CrawlInvariant, PTL

-----------------------------------------------------------------------------
(* The corpus: what is selected.                                           *)

LEMMA PageSizes ==
  /\ NumVotings \in Nat \ {0} /\ MaxTextVersion \in Nat \ {0}
  /\ Votings \subseteq Nat /\ Ranks = Votings /\ TextVersions \subseteq Nat
  /\ NoDocument = 0 /\ TornFile \in Nat
  /\ TornFile \notin TextVersions /\ NoDocument \notin TextVersions /\ TornFile # NoDocument
  BY NumVotingsAssumption, MaxTextVersionAssumption
     DEF Votings, Ranks, TextVersions, NoDocument, TornFile

LEMMA PageIsWhole ==
  Page \in Seq(Votings) /\ Len(Page) = NumVotings /\ \A i \in Ranks : Page[i] = i
<1>1. Page \in [1..NumVotings -> Votings]
  BY PageSizes DEF Page, Ranks, Votings
<1>2. QED
  BY <1>1, PageSizes DEF Page, Ranks

\* One voting more.
TakeOne(s, i) == IF Page[i] \in past THEN s ELSE Append(s, Page[i])

LEMMA TakenOne ==
  ASSUME NEW s \in Seq(Votings), NEW i \in Ranks
  PROVE  TakeOne(s, i) \in Seq(Votings) /\ Len(TakeOne(s, i)) <= Len(s) + 1
<1>1. Page[i] \in Votings /\ Len(s) \in Nat
  BY PageSizes, PageIsWhole
<1>2. Append(s, Page[i]) \in Seq(Votings) /\ Len(Append(s, Page[i])) = Len(s) + 1
  BY <1>1
<1>3. QED
  BY <1>1, <1>2 DEF TakeOne

\* ToCome up to a place of the page.
ToComeUpTo(n) == {g \in [0..n -> Seq(Votings)] :
                    \A i \in 0..n : g[i] = IF i = 0 THEN <<>> ELSE TakeOne(g[i - 1], i)}

LEMMA ToComeUpToExists == ToComeUpTo(NumVotings) # {}
<1> DEFINE S == {n \in Nat : n <= NumVotings => ToComeUpTo(n) # {}}
<1>1. 0 \in S
  <2>1. [i \in 0..0 |-> <<>>] \in ToComeUpTo(0)
    BY DEF ToComeUpTo
  <2>2. QED
    BY <2>1
<1>2. ASSUME NEW n \in Nat, n \in S PROVE n + 1 \in S
  <2>1. SUFFICES ASSUME n + 1 <= NumVotings PROVE ToComeUpTo(n + 1) # {}
    OBVIOUS
  <2>2. n <= NumVotings /\ n + 1 \in Ranks
    BY <2>1, PageSizes DEF Ranks
  <2>3. PICK g \in ToComeUpTo(n) : TRUE
    BY <1>2, <2>2
  <2> DEFINE h == [i \in 0..(n + 1) |-> IF i = n + 1 THEN TakeOne(g[n], n + 1) ELSE g[i]]
  <2>4. g \in [0..n -> Seq(Votings)] /\ g[n] \in Seq(Votings)
    BY <2>3 DEF ToComeUpTo
  <2>5. TakeOne(g[n], n + 1) \in Seq(Votings)
    BY <2>2, <2>4, TakenOne
  <2>6. h \in [0..(n + 1) -> Seq(Votings)]
    BY <2>4, <2>5
  <2>7. ASSUME NEW i \in 0..(n + 1)
        PROVE  h[i] = IF i = 0 THEN <<>> ELSE TakeOne(h[i - 1], i)
    <3>1. CASE i = n + 1
      <4>1. i # 0 /\ i - 1 = n /\ n \in 0..(n + 1) /\ n # n + 1 /\ h[i] = TakeOne(g[n], n + 1)
        BY <3>1
      <4>2. h[n] = g[n]
        BY <4>1
      <4>3. QED
        BY <3>1, <4>1, <4>2
    <3>2. CASE i # n + 1
      <4>1. i \in 0..n /\ h[i] = g[i]
        BY <3>2
      <4>2. CASE i = 0
        BY <2>3, <4>1, <4>2 DEF ToComeUpTo
      <4>3. CASE i # 0
        <5>1. i - 1 \in 0..(n + 1) /\ i - 1 # n + 1
          BY <4>1, <4>3
        <5>2. h[i - 1] = g[i - 1]
          BY <5>1
        <5>3. g[i] = TakeOne(g[i - 1], i)
          BY <2>3, <4>1, <4>3 DEF ToComeUpTo
        <5>4. QED
          BY <4>1, <4>3, <5>2, <5>3
      <4>4. QED
        BY <4>2, <4>3
    <3>3. QED
      BY <3>1, <3>2
  <2>8. h \in ToComeUpTo(n + 1)
    <3> HIDE DEF h
    <3>1. QED
      BY <2>6, <2>7 DEF ToComeUpTo
  <2>9. QED
    BY <2>8
<1>3. NumVotings \in S
  <2> HIDE DEF S
  <2>1. \A n \in Nat : n \in S
    BY <1>1, <1>2, AllNumbers
  <2>2. QED
    BY <2>1, PageSizes
<1>4. QED
  BY <1>3, PageSizes

LEMMA ToComeDef ==
  \A i \in 0..NumVotings : ToCome[i] = IF i = 0 THEN <<>> ELSE TakeOne(ToCome[i - 1], i)
<1> DEFINE IsToCome(h) ==
             h = [i \in 0..NumVotings |->
                    IF i = 0 THEN <<>>
                    ELSE IF Page[i] \in past THEN h[i - 1] ELSE Append(h[i - 1], Page[i])]
<1>1. PICK g \in ToComeUpTo(NumVotings) : TRUE
  BY ToComeUpToExists
<1>2. IsToCome(g)
  <2>1. /\ g \in [0..NumVotings -> Seq(Votings)]
        /\ \A i \in 0..NumVotings : g[i] = IF i = 0 THEN <<>> ELSE TakeOne(g[i - 1], i)
    BY <1>1 DEF ToComeUpTo
  <2>2. g = [i \in 0..NumVotings |-> g[i]]
    BY <2>1
  <2>3. QED
    BY <2>1, <2>2 DEF TakeOne
<1>3. IsToCome(ToCome)
  <2>1. ToCome = CHOOSE h : IsToCome(h)
    BY DEF ToCome
  <2> HIDE DEF IsToCome
  <2>2. QED
    BY <1>2, <2>1
<1>4. QED
  <2> DEFINE h == ToCome
  <2>1. IsToCome(h)
    BY <1>3
  <2> HIDE DEF h
  <2>2. \A i \in 0..NumVotings : h[i] = IF i = 0 THEN <<>> ELSE TakeOne(h[i - 1], i)
    BY <2>1 DEF TakeOne
  <2>3. QED
    BY <2>2 DEF h

LEMMA ToComeIsList ==
  \A n \in Nat : n <= NumVotings => ToCome[n] \in Seq(Votings) /\ Len(ToCome[n]) <= n
<1> DEFINE S == {n \in Nat : n <= NumVotings => ToCome[n] \in Seq(Votings) /\ Len(ToCome[n]) <= n}
<1>1. 0 \in S
  <2>1. 0 \in 0..NumVotings
    BY PageSizes
  <2>2. ToCome[0] = <<>>
    BY <2>1, ToComeDef
  <2>3. <<>> \in Seq(Votings) /\ Len(<<>>) <= 0
    OBVIOUS
  <2>4. QED
    BY <2>2, <2>3
<1>2. ASSUME NEW n \in Nat, n \in S PROVE n + 1 \in S
  <2>1. SUFFICES ASSUME n + 1 <= NumVotings
                 PROVE  ToCome[n + 1] \in Seq(Votings) /\ Len(ToCome[n + 1]) <= n + 1
    OBVIOUS
  <2>2. /\ n + 1 \in 0..NumVotings /\ n + 1 # 0 /\ (n + 1) - 1 = n
        /\ n <= NumVotings /\ n + 1 \in Ranks
    BY <2>1, PageSizes DEF Ranks
  <2>3. ToCome[n + 1] = TakeOne(ToCome[n], n + 1)
    BY <2>2, ToComeDef
  <2>4. ToCome[n] \in Seq(Votings) /\ Len(ToCome[n]) <= n
    BY <1>2, <2>2
  <2>5. TakeOne(ToCome[n], n + 1) \in Seq(Votings)
    BY <2>2, <2>4, TakenOne
  <2>6. Len(TakeOne(ToCome[n], n + 1)) <= Len(ToCome[n]) + 1
    BY <2>2, <2>4, TakenOne
  <2>7. Len(ToCome[n]) \in Nat /\ Len(TakeOne(ToCome[n], n + 1)) \in Nat
    BY <2>4, <2>5
  <2>8. QED
    BY <2>3, <2>4, <2>5, <2>6, <2>7
<1>3. QED
  <2> HIDE DEF S
  <2>1. \A n \in Nat : n \in S
    BY <1>1, <1>2, AllNumbers
  <2> USE DEF S
  <2>2. QED
    BY <2>1

\* At least one voting is selected, and no more than the page has.
LEMMA SelectedIsList ==
  Selected \in Seq(Votings) /\ Len(Selected) \in 1..NumVotings
<1>1. ToCome[NumVotings] \in Seq(Votings) /\ Len(ToCome[NumVotings]) <= NumVotings
  BY ToComeIsList, PageSizes
<1>2. CASE ToCome[NumVotings] = <<>>
  BY <1>2, PageIsWhole, PageSizes DEF Selected
<1>3. CASE ToCome[NumVotings] # <<>>
  <2>1. Len(ToCome[NumVotings]) \in Nat \ {0}
    BY <1>1, <1>3
  <2>2. Selected = ToCome[NumVotings]
    BY <1>3 DEF Selected
  <2>3. QED
    BY <1>1, <2>1, <2>2, PageSizes
<1>4. QED
  BY <1>2, <1>3

-----------------------------------------------------------------------------
(* The corpus: the last of the files of a voting.                          *)

\* Among the numbers up to one there is a greatest.
LEMMA GreatestExists ==
  ASSUME NEW n \in Nat, NEW T \in SUBSET (0..n), T # {}
  PROVE  \E i \in T : \A j \in T : j <= i
<1> DEFINE R == {q \in Nat \X Nat : q[1] < q[2]}
           D == {n - i : i \in T}
<1>1. IsWellFoundedOn(R, Nat)
  BY NatLessThanWellFounded DEF OpToRel
<1>2. D \subseteq Nat /\ D # {}
  <2>1. \A i \in T : i \in Nat /\ i <= n /\ n - i \in Nat
    OBVIOUS
  <2>2. QED
    BY <2>1
<1>3. PICK m \in D : \A d \in D : ~(<<d, m>> \in R)
  <2> HIDE DEF R, D
  <2>1. QED
    BY <1>1, <1>2, WFMin
<1>4. PICK i \in T : m = n - i
  OBVIOUS
<1>5. ASSUME NEW j \in T PROVE j <= i
  <2>1. n - j \in D /\ i \in 0..n /\ j \in 0..n /\ n - j \in Nat /\ m \in Nat
    BY <1>4
  <2>2. ~(n - j < m)
    BY <1>3, <2>1
  <2>3. QED
    BY <1>4, <2>1, <2>2
<1>6. QED
  BY <1>5

LEMMA LastFileIsOne ==
  ASSUME NEW v \in Votings, Files(v) # {}
  PROVE  LastFile(v) \in Files(v)
<1>1. Files(v) \in SUBSET (0..NumVotings)
  BY PageSizes DEF Files, Ranks
<1>2. \E i \in Files(v) : \A j \in Files(v) : j <= i
  BY <1>1, GreatestExists, PageSizes
<1>3. QED
  BY <1>2 DEF LastFile

-----------------------------------------------------------------------------
(* The corpus: types.                                                      *)

AtAVoting(p) == at[p] \in {"fetch", "write", "writing"}

\* A pod that is at a voting is at one of its selection.
RanksAgree == \A p \in Pods : AtAVoting(p) => rank[p] \in 1..Len(plan[p])

CorpusShape == CorpusTypeOK /\ RanksAgree

LEMMA AtAVotingOfThePage ==
  ASSUME CorpusShape, NEW p \in Pods, AtAVoting(p)
  PROVE  /\ rank[p] \in Ranks /\ rank[p] \in 1..Len(plan[p]) /\ Len(plan[p]) \in Nat
         /\ Voting(p) \in Votings
         /\ FileName(p) \in Ranks \X Votings
<1>1. /\ plan[p] \in Seq(Votings) /\ Len(plan[p]) <= NumVotings
      /\ rank[p] \in 1..Len(plan[p]) /\ Len(plan[p]) \in Nat
  BY DEF CorpusShape, CorpusTypeOK, RanksAgree
<1>2. Voting(p) \in Votings
  BY <1>1 DEF Voting
<1>3. rank[p] \in Ranks
  BY <1>1, PageSizes DEF Ranks
<1>4. QED
  BY <1>1, <1>2, <1>3 DEF FileName

LEMMA TextsAreNumbers == \A x \in TextVersions \cup {0, NoDocument, TornFile} : x \in Nat
  BY MaxTextVersionAssumption DEF TextVersions, NoDocument, TornFile

LEMMA NothingInBatch == NoBatch \in [Votings -> TextVersions \cup {NoDocument}]
  BY DEF NoBatch

LEMMA CorpusShapeInit == CorpusInit => CorpusShape
<1> SUFFICES ASSUME CorpusInit PROVE CorpusShape
  OBVIOUS
<1> USE DEF CorpusInit
<1>1. 1 \in TextVersions /\ "idle" \in Places
  BY PageSizes DEF TextVersions, Places
<1>2. <<>> \in Seq(Votings) /\ Len(<<>>) <= NumVotings /\ 0 \in 0..Len(<<>>)
  BY PageSizes
<1>3. \A p \in Pods : Len(plan[p]) <= NumVotings /\ rank[p] \in 0..Len(plan[p])
  BY <1>2
<1>4. CorpusTypeOK
  BY <1>1, <1>2, <1>3, NothingInBatch, PageSizes DEF CorpusTypeOK
<1>5. RanksAgree
  BY DEF RanksAgree, AtAVoting
<1>6. QED
  BY <1>4, <1>5 DEF CorpusShape

\* Types of what a pod has and of what the volume and the index have.
PodsOK == /\ at \in [Pods -> Places]
          /\ plan \in [Pods -> Seq(Votings)]
          /\ rank \in [Pods -> Nat]
          /\ \A p \in Pods : /\ Len(plan[p]) <= NumVotings
                             /\ rank[p] \in 0..Len(plan[p])
          /\ doc \in [Pods -> TextVersions \cup {NoDocument}]
          /\ batch \in [Pods -> [Votings -> TextVersions \cup {NoDocument}]]
          /\ RanksAgree
StoresOK == /\ past \subseteq Votings
            /\ latest \in [Votings -> TextVersions]
            /\ cached \in [Votings -> TextVersions \cup {0}]
            /\ file \in [Ranks \X Votings -> TextVersions \cup {NoDocument, TornFile}]
            /\ index \in [Votings -> TextVersions \cup {NoDocument}]

LEMMA ShapeParts == CorpusShape <=> PodsOK /\ StoresOK
  BY DEF CorpusShape, CorpusTypeOK, PodsOK, StoresOK

LEMMA ShapePartsNext == CorpusShape' <=> PodsOK' /\ StoresOK'
  BY DEF CorpusShape, CorpusTypeOK, PodsOK, StoresOK

\* The fields of a pod that goes on, one by one.
LEMMA EndRunShape == ASSUME PodsOK, NEW p \in Pods, EndRun(p) PROVE PodsOK'
<1> USE DEF EndRun, GoOnTo
<1>1. "idle" \in Places /\ <<>> \in Seq(Votings) /\ Len(<<>>) = 0
  BY DEF Places
<1>2. /\ at' \in [Pods -> Places] /\ plan' \in [Pods -> Seq(Votings)] /\ rank' \in [Pods -> Nat]
      /\ doc' \in [Pods -> TextVersions \cup {NoDocument}]
      /\ batch' \in [Pods -> [Votings -> TextVersions \cup {NoDocument}]]
  BY <1>1, NothingInBatch DEF PodsOK
<1>3. \A q \in Pods : Len(plan'[q]) <= NumVotings /\ rank'[q] \in 0..Len(plan'[q])
  BY <1>1, PageSizes DEF PodsOK
<1>4. RanksAgree'
  BY DEF PodsOK, RanksAgree, AtAVoting
<1>5. QED
  BY <1>2, <1>3, <1>4 DEF PodsOK

LEMMA StartRunShape == ASSUME CorpusShape, NEW p \in Pods, StartRun(p) PROVE CorpusShape'
<1> USE DEF StartRun, GoOnTo
<1>1. PodsOK /\ StoresOK
  BY ShapeParts
<1>2. Selected \in Seq(Votings) /\ Len(Selected) \in 1..NumVotings
  BY SelectedIsList
<1> HIDE DEF Selected
<1>3. "fetch" \in Places /\ 1 \in 1..Len(Selected) /\ 1 \in 0..Len(Selected)
      /\ Len(Selected) <= NumVotings
  BY <1>2, PageSizes DEF Places
<1>4. /\ at' \in [Pods -> Places] /\ plan' \in [Pods -> Seq(Votings)] /\ rank' \in [Pods -> Nat]
  BY <1>1, <1>2, <1>3 DEF PodsOK
<1>5. \A q \in Pods : Len(plan'[q]) <= NumVotings /\ rank'[q] \in 0..Len(plan'[q])
  BY <1>1, <1>3 DEF PodsOK
<1>6. RanksAgree'
  BY <1>1, <1>3 DEF PodsOK, RanksAgree, AtAVoting
<1>7. PodsOK'
  BY <1>1, <1>4, <1>5, <1>6 DEF PodsOK
<1>8. StoresOK'
  BY <1>1 DEF StoresOK
<1>9. QED
  BY <1>7, <1>8, ShapePartsNext

LEMMA FetchVotingShape == ASSUME CorpusShape, NEW p \in Pods, FetchVoting(p) PROVE CorpusShape'
<1>1. PodsOK /\ StoresOK /\ at[p] = "fetch"
  BY ShapeParts DEF FetchVoting
<1>2. Voting(p) \in Votings
  BY <1>1, AtAVotingOfThePage DEF AtAVoting
<1>3. PICK v \in {cached[Voting(p)], latest[Voting(p)]} \ {0} :
        /\ cached' = [cached EXCEPT ![Voting(p)] = v]
        /\ doc' = [doc EXCEPT ![p] = v]
  BY DEF FetchVoting
<1>4. v \in TextVersions
  BY <1>1, <1>2, <1>3 DEF StoresOK
<1>5. StoresOK'
  BY <1>1, <1>2, <1>3, <1>4 DEF StoresOK, FetchVoting
<1>6. at' = [at EXCEPT ![p] = "write"] /\ UNCHANGED <<plan, rank, batch>>
  BY DEF FetchVoting, GoOnTo
<1>7. RanksAgree'
  BY <1>1, <1>6 DEF PodsOK, RanksAgree, AtAVoting
<1>8. PodsOK'
  BY <1>1, <1>3, <1>4, <1>6, <1>7 DEF PodsOK, Places
<1>9. QED
  BY <1>5, <1>8, ShapePartsNext

LEMMA TruncateFileShape == ASSUME CorpusShape, NEW p \in Pods, TruncateFile(p) PROVE CorpusShape'
<1>1. PodsOK /\ StoresOK /\ at[p] = "write"
  BY ShapeParts DEF TruncateFile
<1>2. FileName(p) \in Ranks \X Votings
  BY <1>1, AtAVotingOfThePage DEF AtAVoting
<1>3. StoresOK'
  BY <1>1, <1>2 DEF StoresOK, TruncateFile
<1>4. at' = [at EXCEPT ![p] = "writing"] /\ UNCHANGED <<plan, rank, doc, batch>>
  BY DEF TruncateFile, GoOnTo
<1>5. RanksAgree'
  BY <1>1, <1>4 DEF PodsOK, RanksAgree, AtAVoting
<1>6. PodsOK'
  BY <1>1, <1>4, <1>5 DEF PodsOK, Places
<1>7. QED
  BY <1>3, <1>6, ShapePartsNext

\* Where a pod is after a voting.
LEMMA NextVotingShape ==
  ASSUME CorpusShape, NEW p \in Pods, AtAVoting(p), NextVoting(p), UNCHANGED plan
  PROVE  /\ at' \in [Pods -> Places] /\ rank' \in [Pods -> Nat] /\ RanksAgree'
         /\ \A q \in Pods : rank'[q] \in 0..Len(plan[q])
<1>1. PodsOK
  BY ShapeParts
<1>2. rank[p] \in 1..Len(plan[p]) /\ Len(plan[p]) \in Nat
  BY AtAVotingOfThePage
<1>3. CASE rank[p] < Len(plan[p])
  <2>1. rank' = [rank EXCEPT ![p] = @ + 1] /\ at' = [at EXCEPT ![p] = "fetch"]
    BY <1>3 DEF NextVoting, GoOnTo
  <2>2. rank[p] + 1 \in 1..Len(plan[p]) /\ rank[p] + 1 \in Nat
    BY <1>2, <1>3
  <2>3. RanksAgree'
    BY <1>1, <2>1, <2>2 DEF PodsOK, RanksAgree, AtAVoting
  <2>4. \A q \in Pods : rank'[q] \in 0..Len(plan[q])
    BY <1>1, <1>2, <2>1, <2>2 DEF PodsOK
  <2>5. QED
    BY <1>1, <2>1, <2>2, <2>3, <2>4 DEF PodsOK, Places
<1>4. CASE ~(rank[p] < Len(plan[p]))
  <2>1. UNCHANGED rank /\ at' = [at EXCEPT ![p] = "read"]
    BY <1>4 DEF NextVoting, GoOnTo
  <2>2. RanksAgree'
    BY <1>1, <2>1 DEF PodsOK, RanksAgree, AtAVoting
  <2>3. QED
    BY <1>1, <2>1, <2>2 DEF PodsOK, Places
<1>5. QED
  BY <1>3, <1>4

LEMMA WriteFileShape == ASSUME CorpusShape, NEW p \in Pods, WriteFile(p) PROVE CorpusShape'
<1>1. PodsOK /\ StoresOK /\ at[p] = "writing"
  BY ShapeParts DEF WriteFile
<1>2. AtAVoting(p)
  BY <1>1 DEF AtAVoting
<1>3. FileName(p) \in Ranks \X Votings
  BY <1>2, AtAVotingOfThePage
<1>4. /\ \/ file' = [file EXCEPT ![FileName(p)] = doc[p]]
         \/ file' = [file EXCEPT ![FileName(p)] = TornFile]
      /\ doc' = [doc EXCEPT ![p] = NoDocument]
      /\ NextVoting(p)
      /\ UNCHANGED <<past, latest, cached, plan, batch, index>>
  BY DEF WriteFile
<1>5. StoresOK'
  BY <1>1, <1>3, <1>4 DEF StoresOK, PodsOK
<1>6. /\ at' \in [Pods -> Places] /\ rank' \in [Pods -> Nat] /\ RanksAgree'
      /\ \A q \in Pods : rank'[q] \in 0..Len(plan[q])
  BY <1>2, <1>4, NextVotingShape
<1>7. PodsOK'
  BY <1>1, <1>4, <1>6 DEF PodsOK
<1>8. QED
  BY <1>5, <1>7, ShapePartsNext

LEMMA ReadCorpusShape == ASSUME CorpusShape, NEW p \in Pods, ReadCorpus(p) PROVE CorpusShape'
<1> DEFINE found == [v \in Votings |-> IF Files(v) = {} THEN NoDocument ELSE file[<<LastFile(v), v>>]]
<1>1. PodsOK /\ StoresOK
  BY ShapeParts
<1>2. /\ \A n \in Ranks \X Votings : file[n] # TornFile
      /\ batch' = [batch EXCEPT ![p] = found]
      /\ at' = [at EXCEPT ![p] = "store"]
      /\ UNCHANGED <<past, latest, cached, file, plan, rank, doc, index>>
  BY DEF ReadCorpus, GoOnTo
<1>3. found \in [Votings -> TextVersions \cup {NoDocument}]
  <2>1. SUFFICES ASSUME NEW v \in Votings, Files(v) # {}
                 PROVE  file[<<LastFile(v), v>>] \in TextVersions \cup {NoDocument}
    OBVIOUS
  <2>2. LastFile(v) \in Ranks
    BY <2>1, LastFileIsOne DEF Files
  <2>3. <<LastFile(v), v>> \in Ranks \X Votings
    BY <2>2
  <2>4. QED
    BY <1>1, <1>2, <2>3 DEF StoresOK
<1> HIDE DEF found
<1>4. RanksAgree'
  BY <1>1, <1>2 DEF PodsOK, RanksAgree, AtAVoting
<1>5. PodsOK'
  BY <1>1, <1>2, <1>3, <1>4 DEF PodsOK, Places
<1>6. StoresOK'
  BY <1>1, <1>2 DEF StoresOK
<1>7. QED
  BY <1>5, <1>6, ShapePartsNext

\* A run that ends without the index.
LEMMA EndedRunShape ==
  ASSUME CorpusShape, NEW p \in Pods, EndRun(p), UNCHANGED <<past, latest, cached, file, index>>
  PROVE  CorpusShape'
<1>1. PodsOK /\ StoresOK
  BY ShapeParts
<1>2. StoresOK'
  BY <1>1 DEF StoresOK
<1>3. QED
  BY <1>1, <1>2, EndRunShape, ShapePartsNext

LEMMA StoreDocumentsShape ==
  ASSUME CorpusShape, NEW p \in Pods, StoreDocuments(p) PROVE CorpusShape'
<1>1. PodsOK /\ StoresOK
  BY ShapeParts
<1>2. /\ index' = [v \in Votings |-> IF batch[p][v] = NoDocument THEN index[v] ELSE batch[p][v]]
      /\ EndRun(p) /\ UNCHANGED <<past, latest, cached, file>>
  BY DEF StoreDocuments
<1>3. \A v \in Votings : batch[p][v] \in TextVersions \cup {NoDocument}
  BY <1>1 DEF PodsOK
<1>4. StoresOK'
  BY <1>1, <1>2, <1>3 DEF StoresOK
<1>5. QED
  BY <1>1, <1>2, <1>4, EndRunShape, ShapePartsNext

LEMMA VotingPassesShape == ASSUME CorpusShape, NEW v \in Votings, VotingPasses(v) PROVE CorpusShape'
<1>1. PodsOK /\ StoresOK
  BY ShapeParts
<1>2. StoresOK'
  BY <1>1 DEF StoresOK, VotingPasses
<1>3. PodsOK'
  BY <1>1 DEF PodsOK, RanksAgree, AtAVoting, VotingPasses
<1>4. QED
  BY <1>2, <1>3, ShapePartsNext

LEMMA TextsChangeShape == ASSUME CorpusShape, NEW v \in Votings, TextsChange(v) PROVE CorpusShape'
<1>1. PodsOK /\ StoresOK
  BY ShapeParts
<1>2. latest[v] + 1 \in TextVersions
  BY <1>1, PageSizes DEF StoresOK, TextVersions, TextsChange
<1>3. StoresOK'
  BY <1>1, <1>2 DEF StoresOK, TextsChange
<1>4. PodsOK'
  BY <1>1 DEF PodsOK, RanksAgree, AtAVoting, TextsChange
<1>5. QED
  BY <1>3, <1>4, ShapePartsNext

LEMMA CorpusShapeNext == ASSUME CorpusShape, [CorpusNext]_corpusVars PROVE CorpusShape'
<1>1. CASE \E p \in Pods : StartRun(p)
  BY <1>1, StartRunShape
<1>2. CASE \E p \in Pods : FetchVoting(p)
  BY <1>2, FetchVotingShape
<1>3. CASE \E p \in Pods : TruncateFile(p)
  BY <1>3, TruncateFileShape
<1>4. CASE \E p \in Pods : WriteFile(p)
  BY <1>4, WriteFileShape
<1>5. CASE \E p \in Pods : ReadCorpus(p)
  BY <1>5, ReadCorpusShape
<1>6. CASE \E p \in Pods : RefuseCorpus(p) \/ FailRun(p) \/ Kill(p)
  BY <1>6, EndedRunShape DEF RefuseCorpus, FailRun, Kill
<1>7. CASE \E p \in Pods : StoreDocuments(p)
  BY <1>7, StoreDocumentsShape
<1>8. CASE \E v \in Votings : VotingPasses(v) \/ TextsChange(v)
  BY <1>8, VotingPassesShape, TextsChangeShape
<1>9. CASE UNCHANGED corpusVars
  BY <1>9 DEF CorpusShape, CorpusTypeOK, RanksAgree, AtAVoting, corpusVars
<1>10. QED
  BY <1>1, <1>2, <1>3, <1>4, <1>5, <1>6, <1>7, <1>8, <1>9 DEF CorpusNext, PodStep

LEMMA CorpusShapeAlways == CorpusSpec => []CorpusShape
<1>1. CorpusInit => CorpusShape
  BY CorpusShapeInit
<1>2. CorpusShape /\ [CorpusNext]_corpusVars => CorpusShape'
  BY CorpusShapeNext
<1>3. QED
  BY <1>1, <1>2, PTL DEF CorpusSpec

(***************************************************************************)
(* Whatever votings pass and whatever texts change while pods fetch, are   *)
(* killed and start again, the selection and the rank a pod is at stay     *)
(* within the page, no torn file gets into what is ingested or indexed,    *)
(* and an index run finds the last file of a voting (ingest.go).           *)
(***************************************************************************)
THEOREM CorpusTypeCorrect == CorpusSpec => []CorpusTypeOK
<1>1. CorpusShape => CorpusTypeOK
  BY DEF CorpusShape
<1>2. QED
  BY <1>1, CorpusShapeAlways, PTL

-----------------------------------------------------------------------------
(* The corpus: runs one at a time.                                         *)

\* What concurrencyPolicy Forbid and one pod per job see to.
OneAtATime == \A p, q \in Pods : at[p] # "idle" /\ at[q] # "idle" => p = q

\* The cache never goes back, and no whole file is newer than it.
CacheIsNewest ==
  \A v \in Votings : /\ cached[v] <= latest[v]
                     /\ \A i \in Ranks : file[<<i, v>>] = TornFile \/ file[<<i, v>>] <= cached[v]

\* What is about to be written is what was fetched last.
DocsAgree ==
  \A p \in Pods : at[p] \in {"write", "writing"} =>
    doc[p] = cached[Voting(p)] /\ doc[p] \in TextVersions

\* The votings before the one a pod is at have whole files.
WholeUpTo(p, n) == \A i \in 1..n : file[<<i, plan[p][i]>>] \in TextVersions
WrittenSoFar ==
  \A p \in Pods : /\ AtAVoting(p) => WholeUpTo(p, rank[p] - 1)
                  /\ at[p] = "writing" => file[FileName(p)] = TornFile

InTurn == CacheIsNewest /\ DocsAgree /\ WrittenSoFar /\ SelectionIsWhole

LEMMA OthersAreIdle ==
  ASSUME OneAtATime, NEW p \in Pods, at[p] # "idle"
  PROVE  \A q \in Pods : q # p => at[q] = "idle"
  BY DEF OneAtATime

LEMMA InTurnInit == CorpusInit => InTurn
<1> SUFFICES ASSUME CorpusInit PROVE InTurn
  OBVIOUS
<1>1. CacheIsNewest
  BY PageSizes DEF CorpusInit, CacheIsNewest
<1>2. DocsAgree /\ WrittenSoFar /\ SelectionIsWhole
  BY DEF CorpusInit, DocsAgree, WrittenSoFar, SelectionIsWhole, AtAVoting
<1>3. QED
  BY <1>1, <1>2 DEF InTurn

\* What a pod has written is not lost as long as nobody else writes.
LEMMA KeptInTurn ==
  ASSUME CorpusShape, InTurn, UNCHANGED <<file, cached>>,
         latest' \in [Votings -> Nat], \A v \in Votings : latest[v] <= latest'[v],
         at' \in [Pods -> Places],
         \A p \in Pods :
           \/ at'[p] \in {"idle", "store"}
           \/ UNCHANGED <<at[p], plan[p], rank[p], doc[p]>>
  PROVE  InTurn'
<1>1. CacheIsNewest'
  <2>1. \A v \in Votings : cached[v] \in TextVersions \cup {0} /\ latest[v] \in TextVersions
    BY DEF CorpusShape, CorpusTypeOK
  <2>2. \A v \in Votings : cached[v] \in Nat /\ latest[v] \in Nat
    BY <2>1, TextsAreNumbers
  <2>3. QED
    BY <2>2 DEF InTurn, CacheIsNewest
<1>2. ASSUME NEW p \in Pods
      PROVE  /\ at'[p] \in {"write", "writing"} =>
                  doc'[p] = cached'[Voting(p)'] /\ doc'[p] \in TextVersions
             /\ AtAVoting(p)' => WholeUpTo(p, rank[p] - 1)'
             /\ at'[p] = "writing" => file'[FileName(p)'] = TornFile
             /\ at'[p] = "read" => \A i \in 1..Len(plan'[p]) : file'[<<i, plan'[p][i]>>] \in TextVersions
  <2>1. CASE at'[p] \in {"idle", "store"}
    BY <2>1 DEF AtAVoting
  <2>2. CASE UNCHANGED <<at[p], plan[p], rank[p], doc[p]>>
    BY <2>2 DEF InTurn, DocsAgree, WrittenSoFar, SelectionIsWhole, AtAVoting, WholeUpTo, FileName,
                Voting
  <2>3. QED
    BY <2>1, <2>2
<1>3. DocsAgree' /\ WrittenSoFar' /\ SelectionIsWhole'
  BY <1>2 DEF DocsAgree, WrittenSoFar, SelectionIsWhole
<1>4. QED
  BY <1>1, <1>3 DEF InTurn

LEMMA StartRunInTurn == ASSUME CorpusShape, InTurn, NEW p \in Pods, StartRun(p) PROVE InTurn'
<1> USE DEF StartRun, GoOnTo
<1>1. CacheIsNewest'
  BY DEF InTurn, CacheIsNewest
<1>2. /\ plan \in [Pods -> Seq(Votings)] /\ rank \in [Pods -> Nat] /\ at \in [Pods -> Places]
  BY DEF CorpusShape, CorpusTypeOK
<1>3. at'[p] = "fetch" /\ rank'[p] = 1
  BY <1>2
<1>4. \A q \in Pods : q # p => at'[q] = at[q] /\ plan'[q] = plan[q] /\ rank'[q] = rank[q]
  BY <1>2
<1>5. DocsAgree'
  BY <1>3, <1>4 DEF InTurn, DocsAgree, Voting
<1>6. WrittenSoFar'
  <2>1. WholeUpTo(p, rank[p] - 1)'
    BY <1>3 DEF WholeUpTo
  <2>2. QED
    BY <1>3, <1>4, <2>1 DEF InTurn, WrittenSoFar, WholeUpTo, AtAVoting, FileName, Voting
<1>7. SelectionIsWhole'
  BY <1>3, <1>4 DEF InTurn, SelectionIsWhole
<1>8. QED
  BY <1>1, <1>5, <1>6, <1>7 DEF InTurn

LEMMA FetchVotingInTurn ==
  ASSUME CorpusShape, InTurn, OneAtATime, NEW p \in Pods, FetchVoting(p) PROVE InTurn'
<1>1. /\ at[p] = "fetch" /\ at' = [at EXCEPT ![p] = "write"]
      /\ UNCHANGED <<past, latest, file, plan, rank, batch, index>>
  BY DEF FetchVoting, GoOnTo
<1>2. PICK v \in {cached[Voting(p)], latest[Voting(p)]} \ {0} :
        /\ cached' = [cached EXCEPT ![Voting(p)] = v]
        /\ doc' = [doc EXCEPT ![p] = v]
  BY DEF FetchVoting
<1>3. Voting(p) \in Votings
  BY <1>1, AtAVotingOfThePage DEF AtAVoting
<1>4. /\ cached \in [Votings -> TextVersions \cup {0}] /\ latest \in [Votings -> TextVersions]
      /\ doc \in [Pods -> TextVersions \cup {NoDocument}]
      /\ at \in [Pods -> Places]
      /\ file \in [Ranks \X Votings -> TextVersions \cup {NoDocument, TornFile}]
  BY DEF CorpusShape, CorpusTypeOK
<1>5. v \in TextVersions
  BY <1>2, <1>3, <1>4
<1>6. cached[Voting(p)] <= v /\ v <= latest[Voting(p)]
  <2>1. cached[Voting(p)] <= latest[Voting(p)]
    BY <1>3 DEF InTurn, CacheIsNewest
  <2>2. cached[Voting(p)] \in TextVersions \cup {0} /\ latest[Voting(p)] \in TextVersions
    BY <1>3, <1>4
  <2>3. cached[Voting(p)] \in Nat /\ latest[Voting(p)] \in Nat
    BY <2>2, TextsAreNumbers
  <2>4. v = cached[Voting(p)] \/ v = latest[Voting(p)]
    BY <1>2
  <2>5. QED
    BY <2>1, <2>3, <2>4
<1>7. \A q \in Pods : q # p => at'[q] = "idle"
  BY <1>1, <1>4, OthersAreIdle
<1>8. at'[p] = "write" /\ doc'[p] = v /\ cached'[Voting(p)] = v
  BY <1>1, <1>2, <1>3, <1>4
<1>9. CacheIsNewest'
  <2>1. SUFFICES ASSUME NEW w \in Votings
                 PROVE  /\ cached'[w] <= latest[w]
                        /\ \A i \in Ranks : \/ file[<<i, w>>] = TornFile
                                            \/ file[<<i, w>>] <= cached'[w]
    BY <1>1 DEF CacheIsNewest
  <2>2. /\ cached[w] <= latest[w]
        /\ \A i \in Ranks : file[<<i, w>>] = TornFile \/ file[<<i, w>>] <= cached[w]
    BY DEF InTurn, CacheIsNewest
  <2>3. CASE w = Voting(p)
    <3>1. \A i \in Ranks : file[<<i, w>>] \in TextVersions \cup {NoDocument, TornFile}
      BY <1>4
    <3>2. \A i \in Ranks : file[<<i, w>>] \in Nat
      BY <3>1, TextsAreNumbers
    <3>3. cached[w] \in TextVersions \cup {0}
      BY <1>4
    <3>4. cached[w] \in Nat /\ v \in Nat
      BY <1>5, <3>3, TextsAreNumbers
    <3>5. QED
      BY <1>6, <1>8, <2>2, <2>3, <3>2, <3>4
  <2>4. CASE w # Voting(p)
    BY <1>2, <1>4, <2>2, <2>4
  <2>5. QED
    BY <2>3, <2>4
<1>10. DocsAgree'
  <2>1. Voting(p)' = Voting(p)
    BY <1>1 DEF Voting
  <2>2. QED
    BY <1>5, <1>7, <1>8, <2>1 DEF DocsAgree
<1>11. WrittenSoFar'
  <2>1. WholeUpTo(p, rank[p] - 1)'
    BY <1>1 DEF InTurn, WrittenSoFar, WholeUpTo, AtAVoting
  <2>2. QED
    BY <1>7, <1>8, <2>1 DEF WrittenSoFar, AtAVoting
<1>12. SelectionIsWhole'
  BY <1>7, <1>8 DEF SelectionIsWhole
<1>13. QED
  BY <1>9, <1>10, <1>11, <1>12 DEF InTurn

\* The files a pod has written are not the one it is at.
LEMMA OtherNames ==
  ASSUME CorpusShape, NEW p \in Pods, AtAVoting(p), NEW x, file' = [file EXCEPT ![FileName(p)] = x]
  PROVE  /\ file'[FileName(p)] = x
         /\ \A n \in Ranks \X Votings : n # FileName(p) => file'[n] = file[n]
         /\ \A i \in 1..(rank[p] - 1) : file'[<<i, plan[p][i]>>] = file[<<i, plan[p][i]>>]
<1>1. /\ rank[p] \in Ranks /\ rank[p] \in 1..Len(plan[p]) /\ Len(plan[p]) \in Nat
      /\ FileName(p) \in Ranks \X Votings
  BY AtAVotingOfThePage
<1>2. file \in [Ranks \X Votings -> TextVersions \cup {NoDocument, TornFile}]
  BY DEF CorpusShape, CorpusTypeOK
<1>3. file'[FileName(p)] = x /\ \A n \in Ranks \X Votings : n # FileName(p) => file'[n] = file[n]
  BY <1>1, <1>2
<1>4. ASSUME NEW i \in 1..(rank[p] - 1) PROVE file'[<<i, plan[p][i]>>] = file[<<i, plan[p][i]>>]
  <2>1. plan[p] \in Seq(Votings)
    BY DEF CorpusShape, CorpusTypeOK
  <2>2. i \in Ranks /\ i \in 1..Len(plan[p]) /\ i # rank[p]
    BY <1>1, PageSizes DEF Ranks
  <2>3. <<i, plan[p][i]>> \in Ranks \X Votings
    BY <2>1, <2>2
  <2>4. <<i, plan[p][i]>> # FileName(p)
    BY <2>2 DEF FileName
  <2>5. QED
    BY <1>3, <2>3, <2>4
<1>5. QED
  BY <1>3, <1>4

LEMMA TruncateFileInTurn ==
  ASSUME CorpusShape, InTurn, OneAtATime, NEW p \in Pods, TruncateFile(p) PROVE InTurn'
<1>1. /\ at[p] = "write" /\ at' = [at EXCEPT ![p] = "writing"]
      /\ file' = [file EXCEPT ![FileName(p)] = TornFile]
      /\ UNCHANGED <<past, latest, cached, plan, rank, doc, batch, index>>
  BY DEF TruncateFile, GoOnTo
<1>2. AtAVoting(p) /\ at \in [Pods -> Places]
  BY <1>1 DEF AtAVoting, CorpusShape, CorpusTypeOK
<1>3. at'[p] = "writing" /\ \A q \in Pods : q # p => at'[q] = "idle"
  BY <1>1, <1>2, OthersAreIdle
<1>4. /\ file'[FileName(p)] = TornFile
      /\ \A n \in Ranks \X Votings : n # FileName(p) => file'[n] = file[n]
      /\ \A i \in 1..(rank[p] - 1) : file'[<<i, plan[p][i]>>] = file[<<i, plan[p][i]>>]
  BY <1>1, <1>2, OtherNames
<1>5. CacheIsNewest'
  <2>1. SUFFICES ASSUME NEW w \in Votings, NEW i \in Ranks
                 PROVE  /\ cached[w] <= latest[w]
                        /\ file'[<<i, w>>] = TornFile \/ file'[<<i, w>>] <= cached[w]
    BY <1>1, PageSizes DEF CacheIsNewest, InTurn
  <2>2. <<i, w>> \in Ranks \X Votings
    OBVIOUS
  <2>3. QED
    BY <1>4, <2>2 DEF InTurn, CacheIsNewest
<1>6. DocsAgree'
  BY <1>1, <1>3 DEF InTurn, DocsAgree, Voting
<1>7. WrittenSoFar'
  <2>1. FileName(p)' = FileName(p)
    BY <1>1 DEF FileName, Voting
  <2>2. WholeUpTo(p, rank[p] - 1)'
    BY <1>1, <1>2, <1>4 DEF InTurn, WrittenSoFar, WholeUpTo
  <2>3. QED
    BY <1>3, <1>4, <2>1, <2>2 DEF WrittenSoFar, AtAVoting
<1>8. SelectionIsWhole'
  BY <1>3 DEF SelectionIsWhole
<1>9. QED
  BY <1>5, <1>6, <1>7, <1>8 DEF InTurn

LEMMA WriteFileInTurn ==
  ASSUME CorpusShape, InTurn, OneAtATime, NEW p \in Pods, WriteFile(p) PROVE InTurn'
<1>1. /\ at[p] = "writing" /\ NextVoting(p)
      /\ UNCHANGED <<past, latest, cached, plan, batch, index>>
  BY DEF WriteFile
<1>2. AtAVoting(p) /\ at \in [Pods -> Places] /\ rank \in [Pods -> Nat]
  BY <1>1 DEF AtAVoting, CorpusShape, CorpusTypeOK
<1>3. file' = [file EXCEPT ![FileName(p)] = doc[p]]
  <2>1. file[FileName(p)] = TornFile
    BY <1>1 DEF InTurn, WrittenSoFar
  <2>2. QED
    BY <2>1 DEF WriteFile
<1>4. doc[p] = cached[Voting(p)] /\ doc[p] \in TextVersions
  BY <1>1 DEF InTurn, DocsAgree
<1>5. /\ file'[FileName(p)] = doc[p]
      /\ \A n \in Ranks \X Votings : n # FileName(p) => file'[n] = file[n]
      /\ \A i \in 1..(rank[p] - 1) : file'[<<i, plan[p][i]>>] = file[<<i, plan[p][i]>>]
  BY <1>2, <1>3, OtherNames
<1>6. rank[p] \in 1..Len(plan[p]) /\ Len(plan[p]) \in Nat /\ Voting(p) \in Votings
  BY <1>2, AtAVotingOfThePage
<1>7. \A q \in Pods : q # p => at'[q] = "idle"
  BY <1>1, <1>2, OthersAreIdle DEF NextVoting, GoOnTo
<1>8. CacheIsNewest'
  <2>1. SUFFICES ASSUME NEW w \in Votings, NEW i \in Ranks
                 PROVE  /\ cached[w] <= latest[w]
                        /\ file'[<<i, w>>] = TornFile \/ file'[<<i, w>>] <= cached[w]
    BY <1>1, PageSizes DEF CacheIsNewest, InTurn
  <2>2. <<i, w>> \in Ranks \X Votings
    OBVIOUS
  <2>3. CASE <<i, w>> = FileName(p)
    <3>1. w = Voting(p) /\ file'[<<i, w>>] = doc[p]
      BY <1>5, <2>3 DEF FileName
    <3>2. file'[<<i, w>>] = cached[w] /\ cached[w] \in Nat
      BY <1>4, <3>1, PageSizes
    <3>3. QED
      BY <3>2 DEF InTurn, CacheIsNewest
  <2>4. CASE <<i, w>> # FileName(p)
    BY <1>5, <2>2, <2>4 DEF InTurn, CacheIsNewest
  <2>5. QED
    BY <2>3, <2>4
<1>9. \A i \in 1..rank[p] : file'[<<i, plan[p][i]>>] \in TextVersions
  <2>1. TAKE i \in 1..rank[p]
  <2>2. CASE i = rank[p]
    BY <1>4, <1>5, <2>2 DEF FileName, Voting
  <2>3. CASE i # rank[p]
    <3>1. i \in 1..(rank[p] - 1)
      BY <1>6, <2>3
    <3>2. file[<<i, plan[p][i]>>] \in TextVersions
      BY <1>2, <3>1 DEF InTurn, WrittenSoFar, WholeUpTo
    <3>3. QED
      BY <1>5, <3>1, <3>2
  <2>4. QED
    BY <2>2, <2>3
<1>10. DocsAgree' /\ WrittenSoFar' /\ SelectionIsWhole'
  <2>1. CASE rank[p] < Len(plan[p])
    <3>1. at'[p] = "fetch" /\ rank'[p] = rank[p] + 1
      BY <1>1, <1>2, <2>1 DEF NextVoting, GoOnTo
    <3>2. rank'[p] - 1 = rank[p]
      BY <1>6, <3>1
    <3>3. WholeUpTo(p, rank[p] - 1)'
      BY <1>1, <1>9, <3>2 DEF WholeUpTo
    <3>4. QED
      BY <1>7, <3>1, <3>3 DEF DocsAgree, WrittenSoFar, SelectionIsWhole, AtAVoting
  <2>2. CASE ~(rank[p] < Len(plan[p]))
    <3>1. at'[p] = "read" /\ rank[p] = Len(plan[p])
      BY <1>1, <1>2, <1>6, <2>2 DEF NextVoting, GoOnTo
    <3>2. QED
      BY <1>1, <1>7, <1>9, <3>1 DEF DocsAgree, WrittenSoFar, SelectionIsWhole, AtAVoting
  <2>3. QED
    BY <2>1, <2>2
<1>11. QED
  BY <1>8, <1>10 DEF InTurn

\* All the other steps write no file.
LEMMA OtherStepsInTurn ==
  ASSUME CorpusShape, CorpusShape', InTurn,
         \/ \E p \in Pods : ReadCorpus(p) \/ RefuseCorpus(p) \/ StoreDocuments(p) \/ FailRun(p)
                              \/ Kill(p)
         \/ \E v \in Votings : VotingPasses(v) \/ TextsChange(v)
         \/ UNCHANGED corpusVars
  PROVE  InTurn'
<1>1. UNCHANGED <<file, cached>>
  BY DEF ReadCorpus, RefuseCorpus, StoreDocuments, FailRun, Kill, VotingPasses, TextsChange, corpusVars
<1>2. /\ latest \in [Votings -> Nat] /\ latest' \in [Votings -> Nat]
      /\ at \in [Pods -> Places] /\ at' \in [Pods -> Places]
      /\ plan \in [Pods -> Seq(Votings)] /\ rank \in [Pods -> Nat]
      /\ doc \in [Pods -> TextVersions \cup {NoDocument}]
  BY PageSizes DEF CorpusShape, CorpusTypeOK
<1>3. \A v \in Votings : latest[v] <= latest'[v]
  BY <1>2 DEF ReadCorpus, RefuseCorpus, StoreDocuments, FailRun, Kill, VotingPasses, TextsChange,
              corpusVars
<1>4. \A p \in Pods : \/ at'[p] \in {"idle", "store"}
                      \/ UNCHANGED <<at[p], plan[p], rank[p], doc[p]>>
  <2>1. CASE \E p \in Pods : ReadCorpus(p)
    BY <1>2, <2>1 DEF ReadCorpus, GoOnTo
  <2>2. CASE \E p \in Pods : RefuseCorpus(p) \/ StoreDocuments(p) \/ FailRun(p) \/ Kill(p)
    <3>1. PICK p \in Pods : EndRun(p)
      BY <2>2 DEF RefuseCorpus, StoreDocuments, FailRun, Kill
    <3>2. QED
      BY <1>2, <3>1 DEF EndRun, GoOnTo
  <2>3. CASE \/ \E v \in Votings : VotingPasses(v) \/ TextsChange(v)
             \/ UNCHANGED corpusVars
    BY <2>3 DEF VotingPasses, TextsChange, corpusVars
  <2>4. QED
    BY <2>1, <2>2, <2>3
<1>5. QED
  BY <1>1, <1>2, <1>3, <1>4, KeptInTurn

LEMMA InTurnNext ==
  ASSUME CorpusShape, CorpusShape', InTurn, OneAtATime, [CorpusNext]_corpusVars
  PROVE  InTurn'
<1>1. CASE \E p \in Pods : StartRun(p)
  BY <1>1, StartRunInTurn
<1>2. CASE \E p \in Pods : FetchVoting(p)
  BY <1>2, FetchVotingInTurn
<1>3. CASE \E p \in Pods : TruncateFile(p)
  BY <1>3, TruncateFileInTurn
<1>4. CASE \E p \in Pods : WriteFile(p)
  BY <1>4, WriteFileInTurn
<1>5. CASE \/ \E p \in Pods : ReadCorpus(p) \/ RefuseCorpus(p) \/ StoreDocuments(p) \/ FailRun(p)
                                \/ Kill(p)
           \/ \E v \in Votings : VotingPasses(v) \/ TextsChange(v)
           \/ UNCHANGED corpusVars
  BY <1>5, OtherStepsInTurn
<1>6. QED
  BY <1>1, <1>2, <1>3, <1>4, <1>5 DEF CorpusNext, PodStep

LEMMA InTurnAlways == CorpusSpec /\ []OneAtATime => []InTurn
<1>1. CorpusInit => InTurn
  BY InTurnInit
<1>2. CorpusShape /\ CorpusShape' /\ InTurn /\ OneAtATime /\ [CorpusNext]_corpusVars => InTurn'
  BY InTurnNext
<1>3. QED
  BY <1>1, <1>2, CorpusShapeAlways, PTL DEF CorpusSpec

(***************************************************************************)
(* As long as no two pods run at a time, as the CronJob sees to            *)
(* (values.yaml:195), a run of data-fetch that succeeded left a whole file *)
(* for every voting of its selection, although pods before it were killed  *)
(* in the middle of such a file and votings passed in between.             *)
(***************************************************************************)
THEOREM SelectionStaysWhole == CorpusSpec /\ []OneAtATime => []SelectionIsWhole
<1>1. InTurn => SelectionIsWhole
  BY DEF InTurn
<1>2. QED
  BY <1>1, InTurnAlways, PTL

(***************************************************************************)
(* Under the same condition no run writes a text over a newer one, nor     *)
(* leaves a newer one of the voting under another rank: what a pod fetched *)
(* is what the cache, which never goes back, still holds when it writes.   *)
(***************************************************************************)
THEOREM NewestIsAlwaysWritten == CorpusSpec /\ []OneAtATime => NewestIsWritten
<1>1. InTurn /\ CorpusShape /\ [CorpusNext]_corpusVars =>
        [\A p \in Pods : at[p] = "writing" /\ WriteFile(p) =>
           \A i \in Ranks : file[<<i, Voting(p)>>] = TornFile \/ file[<<i, Voting(p)>>] <= doc[p]]_corpusVars
  <2>1. SUFFICES ASSUME InTurn, CorpusShape, NEW p \in Pods, at[p] = "writing", NEW i \in Ranks
                 PROVE  file[<<i, Voting(p)>>] = TornFile \/ file[<<i, Voting(p)>>] <= doc[p]
    OBVIOUS
  <2>2. Voting(p) \in Votings
    BY <2>1, AtAVotingOfThePage DEF AtAVoting
  <2>3. doc[p] = cached[Voting(p)]
    BY <2>1 DEF InTurn, DocsAgree
  <2>4. QED
    BY <2>1, <2>2, <2>3 DEF InTurn, CacheIsNewest
<1>2. QED
  BY <1>1, CorpusShapeAlways, InTurnAlways, PTL DEF CorpusSpec, NewestIsWritten
=============================================================================
