--------------------- MODULE OnDemandTranslationProofs ----------------------
(***************************************************************************)
(* Theorems about OnDemandTranslation, for any languages, pages, originals *)
(* and index runs, and for lists that are cut anywhere: type correctness,  *)
(* one job per language, rows that match their hashes, and originals that  *)
(* are kept when pages are whole and the source languages stay.            *)
(***************************************************************************)
EXTENDS OnDemandTranslation, WellFoundedInduction, TLAPS

\* A job that has loaded its source knows it.
SourcesKnown ==
  \A g \in Goroutines :
    jobs[g].stage \in {"check", "place", "translate", "store", "fail"} => jobs[g].source \in Source

IInv == TypeOK /\ SourcesKnown /\ OneJobPerLanguage /\ ReadyMatchesHash

-----------------------------------------------------------------------------
(* Texts, rows and jobs.                                                   *)

LEMMA LangsAreNat == Langs \subseteq Nat /\ 0 \notin Langs /\ 0 \notin Versions
BY LangsAssumption DEF Langs, Versions

LEMMA NothingIsNone ==
  /\ NoText \notin Text
  /\ NoRow \notin Row
  /\ NoJob \notin Job
  /\ NoRequest \notin Request
BY LangsAreNat DEF NoText, Text, NoRow, Row, NoJob, Job, NoRequest, Request

LEMMA InLanguageType ==
  ASSUME NEW text \in Text, NEW l \in Langs
  PROVE  InLanguage(text, l) \in Text
BY DEF InLanguage, Text

LEMMA OriginalType ==
  ASSUME NEW l \in Langs, NEW v \in Versions
  PROVE  Original(l, v) \in Text /\ InLanguage(Original(l, v), l) = Original(l, v)
BY DEF Original, Text, InLanguage

LEMMA LeastIsIn == ASSUME NEW S \in (SUBSET Langs) \ {{}} PROVE Least(S) \in S
<1>. DEFINE R == {p \in Nat \X Nat : p[1] < p[2]}
<1>1. S # {} /\ S \subseteq Nat
  BY LangsAreNat
<1>2. IsWellFoundedOn(R, Nat)
  BY NatLessThanWellFounded DEF OpToRel
<1>3. \E l \in S : \A m \in S : ~(<<m, l>> \in R)
  <2>. HIDE DEF R
  <2>. QED
    BY <1>1, <1>2, WFMin
<1>4. \E l \in S : \A m \in S : l <= m
  <2>1. PICK l \in S : \A m \in S : ~(<<m, l>> \in R)
    BY <1>3
  <2>2. ASSUME NEW m \in S PROVE l <= m
    <3>1. l \in Nat /\ m \in Nat /\ <<m, l>> \notin R
      BY <1>1, <2>1
    <3>2. ~(m < l)
      BY <3>1
    <3>. QED
      BY <3>1, <3>2
  <2>. QED
    BY <2>2
<1>. QED
  BY <1>4 DEF Least

\* A row, made and read.
LEMMA MakeRow ==
  ASSUME NEW status \in {"", "pending", "failed", "ready"}, NEW text \in Text,
         NEW hash \in Source \cup {NoSource}
  PROVE  [status |-> status, text |-> text, hash |-> hash] \in Row
BY DEF Row

LEMMA RowStatus ==
  ASSUME NEW row, NEW status, NEW text, NEW hash,
         row = [status |-> status, text |-> text, hash |-> hash]
  PROVE  row.status = status
OBVIOUS

LEMMA RowText ==
  ASSUME NEW row \in Row \cup {NoRow}
  PROVE  row.text \in Text \cup {NoText}
<1>1. CASE row \in Row
  BY <1>1 DEF Row
<1>2. CASE row = NoRow
  BY <1>2 DEF NoRow
<1>. QED
  BY <1>1, <1>2

(***************************************************************************)
(* What an index run leaves in a row: the row that was there, or one whose *)
(* text matches its hash.                                                  *)
(***************************************************************************)
LEMMA IndexedRow ==
  ASSUME NEW originals \in OriginalSets, NEW v \in Versions, NEW mode \in IndexModes,
         NEW l \in Langs
  PROVE  \/ Indexed(rows, originals, v, mode)[l] = rows[l]
         \/ /\ Indexed(rows, originals, v, mode)[l] \in Row
            /\ Indexed(rows, originals, v, mode)[l].status = "ready" =>
                 Indexed(rows, originals, v, mode)[l].text
                   = InLanguage(Indexed(rows, originals, v, mode)[l].hash.text, l)
<1>. DEFINE r == Indexed(rows, originals, v, mode)[l]
            s == Least(originals)
            source == [label |-> s, text |-> Original(s, v)]
<1>1. s \in Langs
  BY OriginalsAssumption, LeastIsIn
<1>2. CASE l \in originals
  <2>1. r = OriginalRow(l, v, mode)
    BY <1>2 DEF Indexed
  <2>2. Original(l, v) \in Text /\ InLanguage(Original(l, v), l) = Original(l, v)
    BY OriginalType
  <2>3. CASE mode = "local"
    <3>1. r = [status |-> "", text |-> Original(l, v), hash |-> NoSource]
      BY <2>1, <2>3 DEF OriginalRow
    <3>2. r \in Row
      BY <2>2, <3>1, MakeRow
    <3>3. r.status = ""
      BY <3>1, RowStatus, Zenon
    <3>4. r.status # "ready"
      BY <3>3, Zenon
    <3>. HIDE DEF r
    <3>. QED
      BY <3>2, <3>4 DEF r
  <2>4. CASE mode # "local"
    <3>1. r = [status |-> "ready", text |-> Original(l, v),
               hash |-> [label |-> l, text |-> Original(l, v)]]
      BY <2>1, <2>4 DEF OriginalRow
    <3>2. [label |-> l, text |-> Original(l, v)] \in Source
      BY <2>2 DEF Source
    <3>. QED
      BY <2>2, <3>1, <3>2 DEF Row
  <2>. QED
    BY <2>3, <2>4
<1>3. CASE l \notin originals /\ mode = "llm"
  <2>1. r = TranslatedRow(l, source)
    BY <1>3 DEF Indexed
  <2>2. source \in Source /\ source.text \in Text
    BY <1>1, OriginalType DEF Source
  <2>3. InLanguage(source.text, l) \in Text
    BY <2>2, InLanguageType
  <2>. HIDE DEF source, r
  <2>4. r = [status |-> "ready", text |-> InLanguage(source.text, l), hash |-> source]
    BY <2>1 DEF TranslatedRow
  <2>5. r \in Row /\ r.text = InLanguage(r.hash.text, l)
    BY <2>2, <2>3, <2>4 DEF Row
  <2>. QED
    BY <2>5 DEF r
<1>4. CASE l \notin originals /\ mode # "llm"
  BY <1>4 DEF Indexed
<1>. QED
  BY <1>2, <1>3, <1>4

LEMMA JobFields ==
  ASSUME TypeOK, NEW g \in Goroutines
  PROVE  /\ jobs[g] # NoJob => jobs[g] \in Job
         /\ jobs[g] \in Job => jobs[g].lang \in Langs /\ jobs[g].source \in Source \cup {NoSource}
         /\ jobs[g].stage # "none" => jobs[g] # NoJob
BY DEF TypeOK, Job, NoJob

\* A job that goes on, with or without a source.
LEMMA JobGoes ==
  ASSUME NEW j \in Job,
         NEW stage \in {"load", "check", "place", "translate", "store", "fail", "exit"}
  PROVE  [j EXCEPT !.stage = stage] \in Job
BY DEF Job

-----------------------------------------------------------------------------
(* The parts of the invariant that only some actions disturb.              *)

\* Jobs that keep their languages keep OneJobPerLanguage.
LEMMA SameJobs ==
  ASSUME OneJobPerLanguage, UNCHANGED inFlight,
         \A g \in Goroutines : jobs'[g].lang = jobs[g].lang /\ (jobs'[g] = NoJob <=> jobs[g] = NoJob)
  PROVE  OneJobPerLanguage'
BY DEF OneJobPerLanguage

(***************************************************************************)
(* A step of a job within its work: it leaves what the pages hold and the  *)
(* set inFlight, and moves no other job.                                   *)
(***************************************************************************)
LEMMA JobMoves ==
  ASSUME IInv, NEW g \in Goroutines, NEW j \in Job,
         jobs[g] \in Job,
         j.lang = jobs[g].lang,
         j.stage \in {"check", "place", "translate", "store", "fail"} => j.source \in Source,
         jobs' = [jobs EXCEPT ![g] = j],
         UNCHANGED <<serverMode, version, inFlight, requests, answers>>,
         rows' \in [Langs -> Row \cup {NoRow}],
         ReadyMatchesHash'
  PROVE  IInv'
<1>1. TypeOK'
  BY DEF IInv, TypeOK
<1>2. SourcesKnown'
  BY DEF IInv, TypeOK, SourcesKnown
<1>3. OneJobPerLanguage'
  <2>1. \A h \in Goroutines : jobs'[h].lang = jobs[h].lang /\ (jobs'[h] = NoJob <=> jobs[h] = NoJob)
    BY NothingIsNone DEF IInv, TypeOK
  <2>. QED
    BY <2>1, SameJobs DEF IInv
<1>. QED
  BY <1>1, <1>2, <1>3 DEF IInv

\* What a job writes, by Upsert.
LEMMA UpsertKeeps ==
  ASSUME IInv, NEW g \in Goroutines, NEW status \in {"pending", "failed", "ready"}, NEW text \in Text,
         jobs[g] \in Job, jobs[g].source \in Source,
         status = "ready" => text = InLanguage(jobs[g].source.text, jobs[g].lang),
         Upsert(g, status, text)
  PROVE  rows' \in [Langs -> Row \cup {NoRow}] /\ ReadyMatchesHash'
<1>. DEFINE k == jobs[g].lang
            row == [status |-> status, text |-> text, hash |-> jobs[g].source]
<1>1. k \in Langs /\ row \in Row
  BY DEF Job, Row
<1>2. rows \in [Langs -> Row \cup {NoRow}] /\ rows' = [rows EXCEPT ![k] = row]
  BY DEF IInv, TypeOK, Upsert
<1>3. row.status = "ready" => row.text = InLanguage(row.hash.text, k)
  OBVIOUS
<1>. HIDE DEF row
<1>4. ReadyMatchesHash'
  <2> SUFFICES ASSUME NEW l \in Langs, rows'[l].status = "ready"
               PROVE  rows'[l].text = InLanguage(rows'[l].hash.text, l)
    BY DEF ReadyMatchesHash
  <2>1. CASE l = k
    BY <1>1, <1>2, <1>3, <2>1
  <2>2. CASE l # k
    BY <1>1, <1>2, <2>2 DEF IInv, ReadyMatchesHash
  <2>. QED
    BY <2>1, <2>2
<1>. QED
  BY <1>1, <1>2, <1>4

-----------------------------------------------------------------------------
(* The invariant.                                                          *)

LEMMA InitInv == Init => IInv
<1> SUFFICES ASSUME Init PROVE IInv
  OBVIOUS
<1>. DEFINE blank == [l \in Langs |-> NoRow]
<1>1. PICK originals \in OriginalSets : rows = Indexed(blank, originals, 1, "local")
  BY DEF Init
<1>2. 1 \in Versions
  BY LangsAssumption DEF Versions
<1>3. \A l \in Langs : rows[l] = NoRow \/ rows[l] = OriginalRow(l, 1, "local")
  BY <1>1 DEF Indexed
<1>4. \A l \in Langs : rows[l] = NoRow
                    \/ rows[l] = [status |-> "", text |-> Original(l, 1), hash |-> NoSource]
  BY <1>3 DEF OriginalRow
<1>5. \A l \in Langs : rows[l] \in Row \cup {NoRow} /\ rows[l].status = ""
  <2> SUFFICES ASSUME NEW l \in Langs
               PROVE  rows[l] \in Row \cup {NoRow} /\ rows[l].status = ""
    OBVIOUS
  <2>1. CASE rows[l] = NoRow
    <3>1. rows[l].status = ""
      BY <2>1, RowStatus, Zenon DEF NoRow
    <3>. QED
      BY <2>1, <3>1
  <2>2. CASE rows[l] = [status |-> "", text |-> Original(l, 1), hash |-> NoSource]
    <3>1. Original(l, 1) \in Text
      BY <1>2, OriginalType
    <3>2. rows[l] \in Row
      BY <2>2, <3>1, MakeRow
    <3>3. rows[l].status = ""
      BY <2>2, RowStatus, Zenon
    <3>. QED
      BY <3>2, <3>3
  <2>. QED
    BY <1>4, <2>1, <2>2
<1>6. rows \in [Langs -> Row \cup {NoRow}]
  <2>1. rows = [l \in Langs |-> rows[l]]
    BY <1>1 DEF Indexed
  <2>. QED
    BY <1>5, <2>1
<1>7. TypeOK
  BY <1>2, <1>6 DEF Init, TypeOK
<1>8. SourcesKnown /\ OneJobPerLanguage
  BY DEF Init, SourcesKnown, OneJobPerLanguage, NoJob
<1>9. ReadyMatchesHash
  BY <1>5 DEF ReadyMatchesHash
<1>. QED
  BY <1>7, <1>8, <1>9 DEF IInv

LEMMA IndexInv == IInv /\ IndexCommits => IInv'
<1> SUFFICES ASSUME IInv, IndexCommits PROVE IInv'
  OBVIOUS
<1>1. PICK mode \in IndexModes, originals \in OriginalSets, v \in Versions :
        version' = v /\ rows' = Indexed(rows, originals, v, mode)
  BY DEF IndexCommits
<1>2. UNCHANGED <<serverMode, inFlight, jobs, requests, answers>>
  BY DEF IndexCommits
<1>3. \A l \in Langs :
        \/ rows'[l] = rows[l]
        \/ /\ rows'[l] \in Row
           /\ rows'[l].status = "ready" => rows'[l].text = InLanguage(rows'[l].hash.text, l)
  BY <1>1, IndexedRow
<1>4. rows' \in [Langs -> Row \cup {NoRow}]
  <2>1. rows' = [l \in Langs |-> rows'[l]]
    BY <1>1 DEF Indexed
  <2>2. \A l \in Langs : rows'[l] \in Row \cup {NoRow}
    BY <1>3 DEF IInv, TypeOK
  <2>. QED
    BY <2>1, <2>2
<1>5. TypeOK'
  BY <1>1, <1>2, <1>4 DEF IInv, TypeOK
<1>6. ReadyMatchesHash'
  BY <1>3 DEF IInv, ReadyMatchesHash
<1>7. SourcesKnown' /\ OneJobPerLanguage'
  BY <1>2 DEF IInv, SourcesKnown, OneJobPerLanguage
<1>. QED
  BY <1>5, <1>6, <1>7 DEF IInv

LEMMA RequestFields ==
  ASSUME TypeOK, NEW c \in Clients, requests[c] # NoRequest
  PROVE  /\ requests[c].lang \in Langs
         /\ requests[c].titles[requests[c].lang] \in Text \cup {NoText}
<1>1. requests[c] \in Request
  BY DEF TypeOK
<1>. QED
  BY <1>1 DEF Request

LEMMA StartKeeps ==
  ASSUME IInv, NEW l \in Langs, NEW g \in Goroutines,
         l \notin inFlight, inFlight' = inFlight \cup {l}, StartJob(g, l)
  PROVE  OneJobPerLanguage' /\ SourcesKnown'
<1>. DEFINE j == [stage |-> "load", lang |-> l, source |-> NoSource]
<1>1. jobs[g] = NoJob /\ jobs' = [jobs EXCEPT ![g] = j]
  BY DEF StartJob
<1>2. jobs'[g] = j /\ \A h \in Goroutines \ {g} : jobs'[h] = jobs[h]
  BY <1>1 DEF IInv, TypeOK
<1>3. j.lang = l /\ j.stage = "load" /\ NoJob.lang = 0 /\ NoJob.stage = "none"
  BY DEF NoJob
<1>4. \A h \in Goroutines : jobs[h] # NoJob => jobs[h].lang \in inFlight
  BY DEF IInv, OneJobPerLanguage
<1>5. \A h \in Goroutines : jobs[h].lang # l
  BY <1>3, <1>4, LangsAreNat
<1>. HIDE DEF j
<1>6. OneJobPerLanguage'
  <2>1. \A h \in Goroutines : jobs'[h] # NoJob => jobs'[h].lang \in inFlight'
    BY <1>2, <1>3, <1>4
  <2>2. \A m \in inFlight' : \E h \in Goroutines : jobs'[h].lang = m
    <3> SUFFICES ASSUME NEW m \in inFlight' PROVE \E h \in Goroutines : jobs'[h].lang = m
      OBVIOUS
    <3>1. CASE m = l
      BY <1>2, <1>3, <3>1
    <3>2. CASE m # l
      <4>1. PICK h \in Goroutines : jobs[h].lang = m
        BY <3>2 DEF IInv, OneJobPerLanguage
      <4>2. m \in Langs
        BY <3>2 DEF IInv, TypeOK
      <4>3. h # g
        BY <1>1, <1>3, <4>1, <4>2, LangsAreNat
      <4>. QED
        BY <1>2, <4>1, <4>3
    <3>. QED
      BY <3>1, <3>2
  <2>3. \A h, i \in Goroutines : jobs'[h] # NoJob /\ jobs'[h].lang = jobs'[i].lang => h = i
    <3> SUFFICES ASSUME NEW h \in Goroutines, NEW i \in Goroutines,
                        jobs'[h] # NoJob, jobs'[h].lang = jobs'[i].lang
                 PROVE  h = i
      OBVIOUS
    <3>1. CASE h = g \/ i = g
      BY <1>2, <1>3, <1>5, <3>1
    <3>2. CASE h # g /\ i # g
      BY <1>2, <3>2 DEF IInv, OneJobPerLanguage
    <3>. QED
      BY <3>1, <3>2
  <2>. QED
    BY <2>1, <2>2, <2>3 DEF OneJobPerLanguage
<1>7. SourcesKnown'
  BY <1>2, <1>3 DEF IInv, SourcesKnown
<1>. QED
  BY <1>6, <1>7

LEMMA EnqueueKeeps ==
  ASSUME IInv, NEW l \in Langs, EnqueueTranslationJob(l)
  PROVE  /\ inFlight' \subseteq Langs
         /\ jobs' \in [Goroutines -> Job \cup {NoJob}]
         /\ OneJobPerLanguage' /\ SourcesKnown'
<1>1. CASE UNCHANGED <<inFlight, jobs>>
  BY <1>1 DEF IInv, TypeOK, OneJobPerLanguage, SourcesKnown
<1>2. ASSUME NEW g \in Goroutines, l \notin inFlight, inFlight' = inFlight \cup {l}, StartJob(g, l)
      PROVE  /\ inFlight' \subseteq Langs
             /\ jobs' \in [Goroutines -> Job \cup {NoJob}]
             /\ OneJobPerLanguage' /\ SourcesKnown'
  <2>1. [stage |-> "load", lang |-> l, source |-> NoSource] \in Job
    BY DEF Job
  <2>2. jobs' \in [Goroutines -> Job \cup {NoJob}] /\ inFlight' \subseteq Langs
    BY <1>2, <2>1 DEF IInv, TypeOK, StartJob
  <2>. QED
    BY <1>2, <2>2, StartKeeps
<1>. QED
  BY <1>1, <1>2 DEF EnqueueTranslationJob

LEMMA RequestInv ==
  ASSUME IInv, NEW c \in Clients, RequestStep(c)
  PROVE  IInv'
<1>1. ASSUME NEW l \in Langs, ReadRows(c, l) PROVE IInv'
  <2>1. PICK page \in Pages : requests' = [requests EXCEPT ![c] =
          [lang |-> l, titles |-> [k \in Langs |-> IF k \in page THEN rows[k].text ELSE NoText]]]
    BY <1>1 DEF ReadRows
  <2>2. \A k \in Langs : rows[k].text \in Text \cup {NoText}
    BY RowText DEF IInv, TypeOK
  <2>3. [lang |-> l, titles |-> [k \in Langs |-> IF k \in page THEN rows[k].text ELSE NoText]]
          \in Request
    BY <2>2 DEF Request
  <2>4. TypeOK'
    BY <1>1, <2>1, <2>3 DEF ReadRows, IInv, TypeOK
  <2>5. SourcesKnown' /\ OneJobPerLanguage' /\ ReadyMatchesHash'
    BY <1>1 DEF ReadRows, IInv, SourcesKnown, OneJobPerLanguage, ReadyMatchesHash
  <2>. QED
    BY <2>4, <2>5 DEF IInv
<1>2. ASSUME NEW l \in Langs, RequestFails(c, l) PROVE IInv'
  <2>1. [state |-> "error", lang |-> l, text |-> NoText] \in Answer
    BY DEF Answer
  <2>2. TypeOK'
    BY <1>2, <2>1 DEF RequestFails, IInv, TypeOK
  <2>3. SourcesKnown' /\ OneJobPerLanguage' /\ ReadyMatchesHash'
    BY <1>2 DEF RequestFails, IInv, SourcesKnown, OneJobPerLanguage, ReadyMatchesHash
  <2>. QED
    BY <2>2, <2>3 DEF IInv
<1>3. CASE AnswerReady(c)
  <2>. DEFINE l == requests[c].lang
              title == requests[c].titles[l]
              answer == [state |-> "ready", lang |-> l, text |-> title]
  <2>1. answers' = [answers EXCEPT ![c] = answer] /\ title # NoText
    BY <1>3 DEF AnswerReady
  <2>2. l \in Langs /\ title \in Text
    BY <1>3, <2>1, RequestFields DEF AnswerReady, IInv
  <2>3. answer \in Answer
    BY <2>2 DEF Answer
  <2>. HIDE DEF answer
  <2>4. TypeOK'
    BY <1>3, <2>1, <2>3 DEF AnswerReady, IInv, TypeOK
  <2>5. SourcesKnown' /\ OneJobPerLanguage' /\ ReadyMatchesHash'
    BY <1>3 DEF AnswerReady, IInv, SourcesKnown, OneJobPerLanguage, ReadyMatchesHash
  <2>. QED
    BY <2>4, <2>5 DEF IInv
<1>4. CASE AnswerPending(c)
  <2>. DEFINE l == requests[c].lang
              answer == [state |-> "pending", lang |-> l, text |-> NoText]
  <2>1. /\ answers' = [answers EXCEPT ![c] = answer]
        /\ EnqueueTranslationJob(l)
        /\ requests' = [requests EXCEPT ![c] = NoRequest]
        /\ UNCHANGED <<serverMode, version, rows>>
    BY <1>4 DEF AnswerPending
  <2>2. l \in Langs
    BY <1>4, RequestFields DEF AnswerPending, IInv
  <2>3. answer \in Answer
    BY <2>2 DEF Answer
  <2>. HIDE DEF answer
  <2>4. /\ inFlight' \subseteq Langs /\ jobs' \in [Goroutines -> Job \cup {NoJob}]
        /\ OneJobPerLanguage' /\ SourcesKnown'
    BY <2>1, <2>2, EnqueueKeeps
  <2>5. TypeOK'
    BY <2>1, <2>3, <2>4 DEF IInv, TypeOK
  <2>6. ReadyMatchesHash'
    BY <2>1 DEF IInv, ReadyMatchesHash
  <2>. QED
    BY <2>4, <2>5, <2>6 DEF IInv
<1>. QED
  BY <1>1, <1>2, <1>3, <1>4 DEF RequestStep

LEMMA JobInv ==
  ASSUME IInv, NEW g \in Goroutines, JobStep(g)
  PROVE  IInv'
<1>1. jobs[g] \in Job /\ jobs[g].lang \in Langs
  <2>1. jobs[g].stage # "none"
    BY DEF JobStep, LoadSource, CheckReady, WritePlaceholder, Translate, StoreTranslation,
           MarkTranslationFailed, CallFails, ExitJob, At, AfterFailure
  <2>. QED
    BY <2>1, JobFields DEF IInv
<1>2. jobs \in [Goroutines -> Job \cup {NoJob}] /\ rows \in [Langs -> Row \cup {NoRow}]
  BY DEF IInv, TypeOK
<1>3. jobs[g].stage \in {"check", "place", "translate", "store", "fail"} =>
        jobs[g].source \in Source /\ jobs[g].source.text \in Text
  BY DEF IInv, SourcesKnown, Source
\* A step that only moves the stage.
<1>4. ASSUME NEW stage \in {"check", "place", "translate", "store", "fail", "exit"},
             stage # "exit" => jobs[g].source \in Source,
             Goto(g, stage), UNCHANGED <<serverMode, version, inFlight, requests, answers>>,
             rows' \in [Langs -> Row \cup {NoRow}], ReadyMatchesHash'
      PROVE  IInv'
  <2>. DEFINE j == [jobs[g] EXCEPT !.stage = stage]
  <2>1. j \in Job /\ j.lang = jobs[g].lang /\ j.source = jobs[g].source /\ j.stage = stage
    BY <1>1 DEF Job
  <2>2. jobs' = [jobs EXCEPT ![g] = j]
    BY <1>4 DEF Goto
  <2>. HIDE DEF j
  <2>. QED
    BY <1>1, <1>4, <2>1, <2>2, JobMoves
<1>5. UNCHANGED rows => rows' \in [Langs -> Row \cup {NoRow}] /\ ReadyMatchesHash'
  BY <1>2 DEF IInv, ReadyMatchesHash
<1>6. CASE LoadSource(g)
  <2>. DEFINE s == Least(Stored \ {jobs[g].lang})
              source == [label |-> s, text |-> rows[s].text]
              j == [jobs[g] EXCEPT !.stage = "check", !.source = source]
  <2>1. Stored \ {jobs[g].lang} \in (SUBSET Langs) \ {{}}
    BY <1>6 DEF LoadSource, Stored
  <2>2. s \in Stored
    BY <2>1, LeastIsIn
  <2>3. s \in Langs /\ rows[s] \in Row
    BY <1>2, <2>2 DEF Stored
  <2>4. source \in Source
    BY <2>3 DEF Source, Row
  <2>5. jobs' = [jobs EXCEPT ![g].stage = "check", ![g].source = source]
    BY <1>6 DEF LoadSource
  <2>. HIDE DEF source
  <2>6. j \in Job /\ j.lang = jobs[g].lang /\ j.source = source
    BY <1>1, <2>4 DEF Job
  <2>7. jobs' = [jobs EXCEPT ![g] = j]
    BY <1>1, <1>2, <2>5 DEF Job
  <2>8. UNCHANGED <<serverMode, version, rows, inFlight, requests, answers>>
    BY <1>6 DEF LoadSource
  <2>. HIDE DEF j
  <2>. QED
    BY <1>1, <1>5, <2>4, <2>6, <2>7, <2>8, JobMoves
<1>7. CASE CheckReady(g)
  <2>1. jobs[g].source \in Source
    BY <1>3, <1>7 DEF CheckReady, At
  <2>2. Goto(g, "exit") \/ Goto(g, "place")
    BY <1>7 DEF CheckReady
  <2>. QED
    BY <1>4, <1>5, <1>7, <2>1, <2>2 DEF CheckReady
<1>8. CASE WritePlaceholder(g)
  <2>1. jobs[g].source \in Source /\ jobs[g].source.text \in Text
    BY <1>3, <1>8 DEF WritePlaceholder, At
  <2>2. rows' \in [Langs -> Row \cup {NoRow}] /\ ReadyMatchesHash'
    BY <1>1, <1>8, <2>1, UpsertKeeps DEF WritePlaceholder
  <2>. QED
    BY <1>4, <1>8, <2>1, <2>2 DEF WritePlaceholder
<1>9. CASE Translate(g)
  <2>1. jobs[g].source \in Source
    BY <1>3, <1>9 DEF Translate, At
  <2>. QED
    BY <1>4, <1>5, <1>9, <2>1 DEF Translate
<1>10. CASE StoreTranslation(g)
  <2>1. jobs[g].source \in Source /\ jobs[g].source.text \in Text
    BY <1>3, <1>10 DEF StoreTranslation, At
  <2>2. InLanguage(jobs[g].source.text, jobs[g].lang) \in Text
    BY <1>1, <2>1, InLanguageType
  <2>3. rows' \in [Langs -> Row \cup {NoRow}] /\ ReadyMatchesHash'
    BY <1>1, <1>10, <2>1, <2>2, UpsertKeeps DEF StoreTranslation
  <2>. QED
    BY <1>4, <1>10, <2>3 DEF StoreTranslation
<1>11. CASE MarkTranslationFailed(g)
  <2>1. jobs[g].source \in Source /\ jobs[g].source.text \in Text
    BY <1>3, <1>11 DEF MarkTranslationFailed, At
  <2>2. rows' \in [Langs -> Row \cup {NoRow}] /\ ReadyMatchesHash'
    BY <1>1, <1>11, <2>1, UpsertKeeps DEF MarkTranslationFailed
  <2>. QED
    BY <1>4, <1>11, <2>2 DEF MarkTranslationFailed
<1>12. CASE CallFails(g)
  <2>. DEFINE stage == AfterFailure[jobs[g].stage]
  <2>1. jobs[g].stage \in {"load", "check", "place", "translate", "store", "fail"}
    BY <1>12 DEF CallFails, AfterFailure
  <2>2. stage \in {"place", "translate", "fail", "exit"} /\ (jobs[g].stage = "load" => stage = "exit")
    BY <2>1 DEF AfterFailure
  <2>3. stage # "exit" => jobs[g].source \in Source
    BY <1>3, <2>1, <2>2
  <2>4. Goto(g, stage) /\ UNCHANGED <<serverMode, version, rows, inFlight, requests, answers>>
    BY <1>12 DEF CallFails
  <2>. HIDE DEF stage
  <2>. QED
    BY <1>4, <1>5, <2>2, <2>3, <2>4
<1>13. CASE ExitJob(g)
  <2>1. /\ inFlight' = inFlight \ {jobs[g].lang}
        /\ jobs' = [jobs EXCEPT ![g] = NoJob]
        /\ UNCHANGED <<serverMode, version, rows, requests, answers>>
    BY <1>13 DEF ExitJob
  <2>2. TypeOK'
    BY <2>1 DEF IInv, TypeOK
  <2>3. NoJob.lang = 0 /\ NoJob.stage = "none"
    BY DEF NoJob
  <2>4. jobs'[g] = NoJob /\ \A h \in Goroutines \ {g} : jobs'[h] = jobs[h]
    BY <1>2, <2>1
  <2>5. SourcesKnown'
    BY <2>3, <2>4 DEF IInv, SourcesKnown
  <2>6. \A h \in Goroutines \ {g} : jobs[h].lang # jobs[g].lang
    BY <1>1, NothingIsNone DEF IInv, OneJobPerLanguage
  <2>7. OneJobPerLanguage'
    <3>1. \A h \in Goroutines : jobs'[h] # NoJob => jobs'[h].lang \in inFlight'
      BY <2>1, <2>4, <2>6 DEF IInv, OneJobPerLanguage
    <3>2. \A m \in inFlight' : \E h \in Goroutines : jobs'[h].lang = m
      BY <2>1, <2>4 DEF IInv, OneJobPerLanguage
    <3>3. \A h, i \in Goroutines : jobs'[h] # NoJob /\ jobs'[h].lang = jobs'[i].lang => h = i
      <4> SUFFICES ASSUME NEW h \in Goroutines, NEW i \in Goroutines,
                          jobs'[h] # NoJob, jobs'[h].lang = jobs'[i].lang
                   PROVE  h = i
        OBVIOUS
      <4>1. h # g /\ jobs[h] # NoJob /\ jobs'[h].lang = jobs[h].lang
        BY <2>4
      <4>2. jobs[h].lang \in Langs
        BY <4>1, JobFields DEF IInv
      <4>3. i # g
        BY <2>3, <2>4, <4>1, <4>2, LangsAreNat
      <4>. QED
        BY <2>4, <4>1, <4>3 DEF IInv, OneJobPerLanguage
    <3>. QED
      BY <3>1, <3>2, <3>3 DEF OneJobPerLanguage
  <2>8. ReadyMatchesHash'
    BY <2>1 DEF IInv, ReadyMatchesHash
  <2>. QED
    BY <2>2, <2>5, <2>7, <2>8 DEF IInv
<1>. QED
  BY <1>6, <1>7, <1>8, <1>9, <1>10, <1>11, <1>12, <1>13 DEF JobStep

LEMMA RestartInv == IInv /\ Restart => IInv'
<1> SUFFICES ASSUME IInv, Restart PROVE IInv'
  OBVIOUS
<1>1. /\ inFlight' = {} /\ jobs' = [g \in Goroutines |-> NoJob]
      /\ requests' = [c \in Clients |-> NoRequest]
      /\ serverMode' \in ServerModes /\ UNCHANGED <<version, rows>>
  BY DEF Restart
<1>2. answers' \in [Clients -> Answer \cup {NoAnswer}]
  <2>1. ASSUME NEW c \in Clients, requests[c] # NoRequest
        PROVE  [state |-> "error", lang |-> requests[c].lang, text |-> NoText] \in Answer
    BY <2>1, RequestFields DEF IInv, Answer
  <2>. QED
    BY <2>1 DEF Restart, IInv, TypeOK
<1>3. TypeOK'
  BY <1>1, <1>2 DEF IInv, TypeOK
<1>4. SourcesKnown' /\ OneJobPerLanguage'
  BY <1>1 DEF SourcesKnown, OneJobPerLanguage, NoJob
<1>5. ReadyMatchesHash'
  BY <1>1 DEF IInv, ReadyMatchesHash
<1>. QED
  BY <1>3, <1>4, <1>5 DEF IInv

LEMMA NextInv == IInv /\ [Next]_vars => IInv'
<1> SUFFICES ASSUME IInv, [Next]_vars PROVE IInv'
  OBVIOUS
<1>1. CASE UNCHANGED vars
  BY <1>1 DEF vars, IInv, TypeOK, SourcesKnown, OneJobPerLanguage, ReadyMatchesHash
<1>. QED
  BY <1>1, RequestInv, JobInv, IndexInv, RestartInv DEF Next

LEMMA AlwaysIInv == Spec => []IInv
BY InitInv, NextInv, PTL DEF Spec

-----------------------------------------------------------------------------
(***************************************************************************)
(* Every state of the API's translations is well-typed: in particular no   *)
(* page says "ready" without a text (applyTranslationFallback).            *)
(***************************************************************************)
THEOREM TypeCorrect == Spec => []TypeOK
BY AlwaysIInv, PTL DEF IInv

(***************************************************************************)
(* The set inFlight has the languages of the goroutines, each of them at   *)
(* work on its own (enqueueTranslationJobs and the deferred delete of      *)
(* translateDocumentAsync).                                                *)
(***************************************************************************)
THEOREM OneJobForEach == Spec => []OneJobPerLanguage
BY AlwaysIInv, PTL DEF IInv

(***************************************************************************)
(* A ready row is the translation of the text whose hash it carries,       *)
(* whatever index runs committed while the model was at work.              *)
(***************************************************************************)
THEOREM ReadyIsOfItsSource == Spec => []ReadyMatchesHash
BY AlwaysIInv, PTL DEF IInv

-----------------------------------------------------------------------------
(* Originals, of documents that are read whole and keep their languages.   *)

HasOriginals(ls) == \A l \in ls : rows[l].text # NoText

\* Every text stems from an original of these languages.
StemFrom(ls) ==
  /\ \A l \in Langs : rows[l] # NoRow => rows[l].text.from \in ls
  /\ \A g \in Goroutines : jobs[g].source \in Source => jobs[g].source.text.from \in ls

\* Who has read an original finds a title, and asks for no translation into its language.
OnlyOthers(ls) ==
  /\ \A c \in Clients, l \in ls : requests[c] # NoRequest => requests[c].titles[l] # NoText
  /\ \A g \in Goroutines : jobs[g].lang \notin ls

KeptInv(ls) == HasOriginals(ls) /\ StemFrom(ls) /\ OnlyOthers(ls)

LEMMA NoneFields ==
  /\ NoJob.lang = 0 /\ NoJob.source = NoSource /\ NoSource \notin Source
  /\ NoRow.text = NoText /\ NoText.from = 0
BY LangsAreNat DEF NoJob, NoSource, Source, NoRow, NoText

LEMMA TextOfRow ==
  ASSUME NEW row, NEW status, NEW text, NEW hash,
         row = [status |-> status, text |-> text, hash |-> hash]
  PROVE  row.text = text
OBVIOUS

\* What an index run leaves in a row, when it offers the document in ls.
LEMMA IndexedFrom ==
  ASSUME NEW ls \in (SUBSET Langs) \ {{}}, NEW old, NEW v \in Versions, NEW mode, NEW l \in Langs
  PROVE  /\ l \in ls => /\ Indexed(old, ls, v, mode)[l].text # NoText
                       /\ Indexed(old, ls, v, mode)[l].text.from \in ls
         /\ l \notin ls => \/ Indexed(old, ls, v, mode)[l] = old[l]
                          \/ Indexed(old, ls, v, mode)[l].text.from \in ls
<1>. DEFINE r == Indexed(old, ls, v, mode)[l]
<1>1. CASE l \in ls
  <2>1. r = OriginalRow(l, v, mode)
    BY <1>1 DEF Indexed
  <2>2. r.text = Original(l, v)
    <3>1. CASE mode = "local"
      <4>1. r = [status |-> "", text |-> Original(l, v), hash |-> NoSource]
        BY <2>1, <3>1 DEF OriginalRow
      <4>. QED
        BY <4>1, TextOfRow, Zenon
    <3>2. CASE mode # "local"
      BY <2>1, <3>2 DEF OriginalRow
    <3>. QED
      BY <3>1, <3>2
  <2>3. Original(l, v).from = l /\ Original(l, v) # NoText
    BY OriginalType, NothingIsNone DEF Original
  <2>. HIDE DEF r
  <2>4. l \in ls => r.text # NoText /\ r.text.from \in ls
    BY <2>2, <2>3
  <2>. QED
    BY <1>1, <2>4 DEF r
<1>2. CASE l \notin ls /\ mode = "llm"
  <2>. DEFINE s == Least(ls)
              source == [label |-> s, text |-> Original(s, v)]
  <2>1. r = TranslatedRow(l, source)
    BY <1>2 DEF Indexed
  <2>2. r.text = InLanguage(Original(s, v), l)
    BY <2>1 DEF TranslatedRow
  <2>3. s \in ls
    BY LeastIsIn
  <2>4. InLanguage(Original(s, v), l).from = s
    BY DEF InLanguage, Original
  <2>. HIDE DEF r, s
  <2>5. r.text.from \in ls
    BY <2>2, <2>3, <2>4
  <2>. QED
    BY <1>2, <2>5 DEF r
<1>3. CASE l \notin ls /\ mode # "llm"
  BY <1>3 DEF Indexed
<1>. QED
  BY <1>1, <1>2, <1>3

LEMMA KeptInit ==
  ASSUME NEW ls \in (SUBSET Langs) \ {{}}, OriginalSets \subseteq {ls}, Init
  PROVE  KeptInv(ls)
<1>. DEFINE blank == [l \in Langs |-> NoRow]
<1>1. rows = Indexed(blank, ls, 1, "local") /\ 1 \in Versions
  BY LangsAssumption DEF Init, Versions
<1>2. ASSUME NEW l \in Langs
      PROVE  /\ l \in ls => rows[l].text # NoText /\ rows[l].text.from \in ls
             /\ l \notin ls => rows[l] = NoRow \/ rows[l].text.from \in ls
  <2>1. blank[l] = NoRow
    OBVIOUS
  <2>. HIDE DEF blank
  <2>2. /\ l \in ls => /\ Indexed(blank, ls, 1, "local")[l].text # NoText
                      /\ Indexed(blank, ls, 1, "local")[l].text.from \in ls
        /\ l \notin ls => \/ Indexed(blank, ls, 1, "local")[l] = blank[l]
                         \/ Indexed(blank, ls, 1, "local")[l].text.from \in ls
    BY <1>1, IndexedFrom
  <2>. QED
    BY <1>1, <2>1, <2>2
<1>3. HasOriginals(ls)
  <2>1. ls \subseteq Langs
    OBVIOUS
  <2>. QED
    BY <1>2, <2>1 DEF HasOriginals
<1>4. \A l \in Langs : rows[l] # NoRow => rows[l].text.from \in ls
  BY <1>2
<1>5. \A g \in Goroutines : jobs[g] = NoJob
  BY DEF Init
<1>6. \A c \in Clients : requests[c] = NoRequest
  BY DEF Init
<1>. QED
  BY <1>3, <1>4, <1>5, <1>6, NoneFields, LangsAreNat DEF KeptInv, StemFrom, OnlyOthers

LEMMA KeptIndex ==
  ASSUME NEW ls \in (SUBSET Langs) \ {{}}, OriginalSets \subseteq {ls}, KeptInv(ls), IndexCommits
  PROVE  KeptInv(ls)'
<1>1. PICK mode \in IndexModes, v \in Versions : rows' = Indexed(rows, ls, v, mode)
  BY DEF IndexCommits
<1>2. ASSUME NEW l \in Langs
      PROVE  /\ l \in ls => rows'[l].text # NoText /\ rows'[l].text.from \in ls
             /\ l \notin ls => rows'[l] = rows[l] \/ rows'[l].text.from \in ls
  <2>1. /\ l \in ls => /\ Indexed(rows, ls, v, mode)[l].text # NoText
                      /\ Indexed(rows, ls, v, mode)[l].text.from \in ls
        /\ l \notin ls => \/ Indexed(rows, ls, v, mode)[l] = rows[l]
                         \/ Indexed(rows, ls, v, mode)[l].text.from \in ls
    BY IndexedFrom
  <2>. QED
    BY <1>1, <2>1
<1>3. HasOriginals(ls)'
  <2>1. ls \subseteq Langs
    OBVIOUS
  <2>. QED
    BY <1>2, <2>1 DEF HasOriginals
<1>4. \A l \in Langs : rows'[l] # NoRow => rows'[l].text.from \in ls
  <2>1. \A l \in Langs : rows[l] # NoRow => rows[l].text.from \in ls
    BY DEF KeptInv, StemFrom
  <2>. QED
    BY <1>2, <2>1
<1>. QED
  BY <1>3, <1>4 DEF IndexCommits, KeptInv, StemFrom, OnlyOthers

LEMMA KeptRequest ==
  ASSUME NEW ls \in (SUBSET Langs) \ {{}}, ~Paged, IInv, KeptInv(ls),
         NEW c \in Clients, RequestStep(c)
  PROVE  KeptInv(ls)'
<1>1. ASSUME NEW l \in Langs, ReadRows(c, l) PROVE KeptInv(ls)'
  <2>. DEFINE titles == [k \in Langs |-> rows[k].text]
  <2>1. requests' = [requests EXCEPT ![c] = [lang |-> l, titles |-> titles]]
    <3>1. PICK page \in Pages : requests' = [requests EXCEPT ![c] =
            [lang |-> l, titles |-> [k \in Langs |-> IF k \in page THEN rows[k].text ELSE NoText]]]
      BY <1>1 DEF ReadRows
    <3>2. page = Langs
      BY DEF Pages
    <3>3. [k \in Langs |-> IF k \in page THEN rows[k].text ELSE NoText] = titles
      BY <3>2
    <3>. QED
      BY <3>1, <3>3
  <2>2. \A k \in ls : titles[k] # NoText
    BY DEF KeptInv, HasOriginals
  <2>. HIDE DEF titles
  <2>3. \A d \in Clients, k \in ls : requests'[d] # NoRequest => requests'[d].titles[k] # NoText
    BY <2>1, <2>2 DEF IInv, TypeOK, KeptInv, OnlyOthers
  <2>. QED
    BY <1>1, <2>3 DEF ReadRows, KeptInv, HasOriginals, StemFrom, OnlyOthers
<1>2. ASSUME NEW l \in Langs, RequestFails(c, l) PROVE KeptInv(ls)'
  BY <1>2 DEF RequestFails, KeptInv, HasOriginals, StemFrom, OnlyOthers
<1>3. ASSUME requests' = [requests EXCEPT ![c] = NoRequest], UNCHANGED rows
      PROVE  /\ HasOriginals(ls)'
             /\ \A l \in Langs : rows'[l] # NoRow => rows'[l].text.from \in ls
             /\ \A d \in Clients, l \in ls : requests'[d] # NoRequest => requests'[d].titles[l] # NoText
  BY <1>3 DEF IInv, TypeOK, KeptInv, HasOriginals, StemFrom, OnlyOthers
<1>4. CASE AnswerReady(c)
  BY <1>3, <1>4 DEF AnswerReady, KeptInv, StemFrom, OnlyOthers
<1>5. CASE AnswerPending(c)
  <2>. DEFINE l == requests[c].lang
  <2>1. requests' = [requests EXCEPT ![c] = NoRequest] /\ UNCHANGED rows
    BY <1>5 DEF AnswerPending
  <2>2. l \in Langs /\ l \notin ls
    BY <1>5, RequestFields DEF AnswerPending, IInv, KeptInv, OnlyOthers
  <2>3. EnqueueTranslationJob(l)
    BY <1>5 DEF AnswerPending
  <2>4. \A g \in Goroutines : \/ jobs'[g] = jobs[g]
                             \/ jobs'[g] = [stage |-> "load", lang |-> l, source |-> NoSource]
    BY <2>3 DEF EnqueueTranslationJob, StartJob, IInv, TypeOK
  <2>. HIDE DEF l
  <2>5. \A g \in Goroutines : jobs'[g].lang \notin ls
    BY <2>2, <2>4 DEF KeptInv, OnlyOthers
  <2>6. \A g \in Goroutines : jobs'[g].source \in Source => jobs'[g].source.text.from \in ls
    BY <2>4, NoneFields DEF KeptInv, StemFrom
  <2>. QED
    <3>1. /\ HasOriginals(ls)'
          /\ \A k \in Langs : rows'[k] # NoRow => rows'[k].text.from \in ls
          /\ \A d \in Clients, k \in ls : requests'[d] # NoRequest => requests'[d].titles[k] # NoText
      BY <1>3, <2>1
    <3>2. StemFrom(ls)'
      BY <2>6, <3>1 DEF StemFrom
    <3>3. OnlyOthers(ls)'
      BY <2>5, <3>1 DEF OnlyOthers
    <3>. QED
      BY <3>1, <3>2, <3>3 DEF KeptInv
<1>. QED
  BY <1>1, <1>2, <1>4, <1>5 DEF RequestStep

\* What a job writes stems from its source.
LEMMA KeptJob ==
  ASSUME NEW ls \in (SUBSET Langs) \ {{}}, IInv, KeptInv(ls),
         NEW g \in Goroutines, JobStep(g)
  PROVE  /\ KeptInv(ls)'
         /\ \A l \in Langs : l # jobs[g].lang => rows'[l] = rows[l]
<1>1. jobs[g] \in Job /\ jobs[g].lang \in Langs /\ jobs[g].lang \notin ls
  <2>1. jobs[g].stage # "none"
    BY DEF JobStep, LoadSource, CheckReady, WritePlaceholder, Translate, StoreTranslation,
           MarkTranslationFailed, CallFails, ExitJob, At, AfterFailure
  <2>. QED
    BY <2>1, JobFields DEF IInv, KeptInv, OnlyOthers
<1>2. rows \in [Langs -> Row \cup {NoRow}] /\ jobs \in [Goroutines -> Job \cup {NoJob}]
  BY DEF IInv, TypeOK
<1>3. CASE UNCHANGED rows
  <2>1. ASSUME NEW stage, jobs' = [jobs EXCEPT ![g].stage = stage]
        PROVE  jobs'[g].lang = jobs[g].lang /\ jobs'[g].source = jobs[g].source
    BY <1>1, <1>2, <2>1 DEF Job
  <2>2. CASE LoadSource(g)
    <3>. DEFINE s == Least(Stored \ {jobs[g].lang})
                source == [label |-> s, text |-> rows[s].text]
    <3>1. Stored \ {jobs[g].lang} \in (SUBSET Langs) \ {{}}
      BY <2>2 DEF LoadSource, Stored
    <3>2. s \in Langs /\ rows[s] # NoRow
      BY <3>1, LeastIsIn DEF Stored
    <3>3. source.text.from \in ls
      BY <3>2 DEF KeptInv, StemFrom
    <3>4. jobs' = [jobs EXCEPT ![g].stage = "check", ![g].source = source]
      BY <2>2 DEF LoadSource
    <3>. HIDE DEF source
    <3>5. jobs'[g].lang = jobs[g].lang /\ jobs'[g].source = source
      BY <1>1, <1>2, <3>4 DEF Job
    <3>6. \A h \in Goroutines \ {g} : jobs'[h] = jobs[h]
      BY <1>2, <3>4
    <3>. QED
      BY <1>1, <1>3, <2>2, <3>3, <3>5, <3>6
      DEF LoadSource, KeptInv, HasOriginals, StemFrom, OnlyOthers
  <2>3. CASE ExitJob(g)
    <3>1. \A h \in Goroutines : jobs'[h] = jobs[h] \/ jobs'[h] = NoJob
      BY <1>2, <2>3 DEF ExitJob
    <3>2. \A h \in Goroutines : jobs'[h].lang \notin ls
      BY <3>1, NoneFields, LangsAreNat DEF KeptInv, OnlyOthers
    <3>3. \A h \in Goroutines : jobs'[h].source \in Source => jobs'[h].source.text.from \in ls
      BY <3>1, NoneFields DEF KeptInv, StemFrom
    <3>. QED
      <4>1. UNCHANGED requests
        BY <2>3 DEF ExitJob
      <4>2. HasOriginals(ls)'
        BY <1>3 DEF KeptInv, HasOriginals
      <4>3. StemFrom(ls)'
        BY <1>3, <3>3 DEF KeptInv, StemFrom
      <4>4. OnlyOthers(ls)'
        BY <3>2, <4>1 DEF KeptInv, OnlyOthers
      <4>. QED
        BY <1>3, <4>2, <4>3, <4>4 DEF KeptInv
  <2>4. CASE CheckReady(g) \/ Translate(g) \/ CallFails(g) \/ WritePlaceholder(g)
             \/ StoreTranslation(g) \/ MarkTranslationFailed(g)
    <3>1. PICK stage : jobs' = [jobs EXCEPT ![g].stage = stage]
      BY <2>4 DEF CheckReady, Translate, CallFails, WritePlaceholder, StoreTranslation,
                  MarkTranslationFailed, Goto
    <3>2. \A h \in Goroutines \ {g} : jobs'[h] = jobs[h]
      BY <1>2, <3>1
    <3>3. UNCHANGED requests
      BY <2>4 DEF CheckReady, Translate, CallFails, WritePlaceholder, StoreTranslation,
                  MarkTranslationFailed
    <3>4. \A h \in Goroutines : jobs'[h].lang = jobs[h].lang /\ jobs'[h].source = jobs[h].source
      BY <2>1, <3>1, <3>2
    <3>. QED
      BY <1>3, <3>3, <3>4 DEF KeptInv, HasOriginals, StemFrom, OnlyOthers
  <2>. QED
    BY <1>3, <2>2, <2>3, <2>4 DEF JobStep
<1>4. CASE WritePlaceholder(g) \/ StoreTranslation(g) \/ MarkTranslationFailed(g)
  <2>. DEFINE k == jobs[g].lang
  <2>1. jobs[g].source \in Source
    BY <1>4 DEF IInv, SourcesKnown, WritePlaceholder, StoreTranslation, MarkTranslationFailed, At
  <2>2. jobs[g].source.text.from \in ls
    BY <2>1 DEF KeptInv, StemFrom
  <2>3. PICK status, text : Upsert(g, status, text) /\ text.from = jobs[g].source.text.from
    <3>1. InLanguage(jobs[g].source.text, k).from = jobs[g].source.text.from
      BY <2>1 DEF InLanguage, Source, Text
    <3>. QED
      BY <1>4, <3>1 DEF WritePlaceholder, StoreTranslation, MarkTranslationFailed
  <2>. DEFINE row == [status |-> status, text |-> text, hash |-> jobs[g].source]
  <2>4. rows' = [rows EXCEPT ![k] = row] /\ row.text = text
    BY <2>3 DEF Upsert
  <2>. HIDE DEF row
  <2>5. rows'[k] = row /\ \A l \in Langs : l # k => rows'[l] = rows[l]
    BY <1>1, <1>2, <2>4
  <2>6. HasOriginals(ls)'
    BY <1>1, <2>5 DEF KeptInv, HasOriginals
  <2>7. \A l \in Langs : rows'[l] # NoRow => rows'[l].text.from \in ls
    BY <2>2, <2>3, <2>4, <2>5 DEF KeptInv, StemFrom
  <2>8. PICK stage : jobs' = [jobs EXCEPT ![g].stage = stage]
    BY <1>4 DEF WritePlaceholder, StoreTranslation, MarkTranslationFailed, Goto
  <2>9. \A h \in Goroutines : jobs'[h].lang = jobs[h].lang /\ jobs'[h].source = jobs[h].source
    BY <1>1, <1>2, <2>8 DEF Job
  <2>10. UNCHANGED requests
    BY <1>4 DEF WritePlaceholder, StoreTranslation, MarkTranslationFailed
  <2>. QED
    BY <2>5, <2>6, <2>7, <2>9, <2>10 DEF KeptInv, StemFrom, OnlyOthers
<1>. QED
  BY <1>3, <1>4 DEF JobStep, LoadSource, CheckReady, Translate, CallFails, ExitJob

LEMMA KeptNext ==
  ASSUME NEW ls \in (SUBSET Langs) \ {{}}, OriginalSets \subseteq {ls}, ~Paged,
         IInv, KeptInv(ls), [Next]_vars
  PROVE  KeptInv(ls)'
<1>1. CASE UNCHANGED vars
  BY <1>1 DEF vars, KeptInv, HasOriginals, StemFrom, OnlyOthers
<1>2. CASE Restart
  <2>1. (\A g \in Goroutines : jobs'[g] = NoJob) /\ \A c \in Clients : requests'[c] = NoRequest
    BY <1>2 DEF Restart
  <2>2. UNCHANGED rows
    BY <1>2 DEF Restart
  <2>. QED
    BY <2>1, <2>2, NoneFields, LangsAreNat DEF KeptInv, HasOriginals, StemFrom, OnlyOthers
<1>. QED
  BY <1>1, <1>2, KeptIndex, KeptRequest, KeptJob DEF Next

(***************************************************************************)
(* No job replaces an original when requests read the whole document       *)
(* (GetVotationByID) and the corpus has it in the same languages for ever, *)
(* whatever fails, restarts and is indexed anew meanwhile.  Either         *)
(* hypothesis is needed: a list that LIMIT cuts hides an original, and a   *)
(* language that an index run adds is not there when the request reads.    *)
(***************************************************************************)
THEOREM OriginalsOfWholePagesKept ==
  ASSUME ~Paged, NEW ls \in (SUBSET Langs) \ {{}}, OriginalSets \subseteq {ls}
  PROVE  Spec => OriginalsAreKept
<1>1. Init => KeptInv(ls)
  BY KeptInit
<1>2. IInv /\ KeptInv(ls) /\ [Next]_vars => KeptInv(ls)'
  BY KeptNext
<1>3. IInv /\ KeptInv(ls) /\ [Next]_vars =>
        [\A g \in Goroutines, l \in Langs :
           JobStep(g) /\ rows[l].text.lang = l /\ rows[l].text.from = l => rows'[l] = rows[l]]_vars
  <2> SUFFICES ASSUME IInv, KeptInv(ls), NEW g \in Goroutines, NEW l \in Langs,
                      JobStep(g), rows[l].text.from = l
               PROVE  rows'[l] = rows[l]
    OBVIOUS
  <2>1. rows[l] # NoRow
    BY NoneFields, LangsAreNat
  <2>2. l \in ls
    BY <2>1 DEF KeptInv, StemFrom
  <2>3. l # jobs[g].lang
    BY <2>2 DEF KeptInv, OnlyOthers
  <2>. QED
    BY <2>3, KeptJob
<1>. QED
  BY <1>1, <1>2, <1>3, AlwaysIInv, PTL DEF Spec, OriginalsAreKept
=============================================================================
