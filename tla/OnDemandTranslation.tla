------------------------ MODULE OnDemandTranslation -------------------------
(***************************************************************************)
(* The translations the API makes when a reader asks for a language that a *)
(* document lacks (backend/internal/services/sql_query_service.go).        *)
(*                                                                         *)
(* A request reads the document's translations, answers "ready" or         *)
(* "pending", and in the second case starts a goroutine, at most one per   *)
(* document and language, that writes a placeholder, calls the model, and  *)
(* writes the translation.  The process may crash; an index run may commit *)
(* the document at any time.  A page whose answer is pending loads itself  *)
(* again (frontend/src/components/common/PendingTranslationRefresher.tsx). *)
(*                                                                         *)
(* One document: jobs of two documents share no row and no key.            *)
(* A language is its rank in the order of loadBestSourceTranslation, which *)
(* is also that of pickSourceDocument.  A text, title and content, is      *)
(* known by the language its words are in, and by the original it stems    *)
(* from.  A hash is what is hashed.                                        *)
(***************************************************************************)
EXTENDS Naturals

CONSTANTS NumLangs,      \* the supported languages are 1..NumLangs
          Alphabet,      \* their ranks in alphabetical order, that of a list's rows
          Clients,       \* the pages open in browsers, each with a request at most
          MaxJobs,       \* bound on the goroutines that run at once
          MaxVersion,    \* bound on the versions of the document's originals
          Paged,         \* whether requests go to the list, which LIMIT cuts
          OriginalSets,  \* the sets of languages the corpus may hold originals in
          IndexModes,    \* the modes of the index runs beside the API
          ServerModes    \* the modes the API is started in, by cfg.RAG.Mode

Langs == 1..NumLangs
Versions == 1..MaxVersion
Goroutines == 1..MaxJobs

ASSUME LangsAssumption == NumLangs \in Nat \ {0} /\ MaxVersion \in Nat \ {0}
ASSUME AlphabetAssumption == /\ Alphabet \in [Langs -> Langs]
                             /\ \A l \in Langs : \E i \in Langs : Alphabet[i] = l
ASSUME JobsAssumption == MaxJobs \in Nat \ {0}
ASSUME PagedAssumption == Paged \in BOOLEAN
ASSUME OriginalsAssumption == OriginalSets \subseteq (SUBSET Langs) \ {{}}
ASSUME IndexModesAssumption == IndexModes \subseteq {"local", "llm"}
ASSUME ServerModesAssumption == ServerModes \subseteq {"local", "llm"}

-----------------------------------------------------------------------------
(* Texts and rows of document_translations.                                *)

Text == [lang : Langs, from : Langs, version : Versions]
NoText == [lang |-> 0, from |-> 0, version |-> 0]
Original(l, v) == [lang |-> l, from |-> l, version |-> v]
InLanguage(text, l) == [text EXCEPT !.lang = l]

\* What loadBestSourceTranslation returns, and what is hashed: the row's language too.
Source == [label : Langs, text : Text]
NoSource == [label |-> 0, text |-> NoText]

NoRow == [status |-> "", text |-> NoText, hash |-> NoSource]
Row == [status : {"", "pending", "failed", "ready"}, text : Text,
        hash : Source \cup {NoSource}]

Least(ls) == CHOOSE l \in ls : \A m \in ls : l <= m

NoJob == [stage |-> "none", lang |-> 0, source |-> NoSource]
Job == [stage : {"load", "check", "place", "translate", "store", "fail", "exit"},
        lang : Langs, source : Source \cup {NoSource}]

NoRequest == [lang |-> 0, titles |-> [l \in Langs |-> NoText]]
Request == [lang : Langs, titles : [Langs -> Text \cup {NoText}]]

NoAnswer == [state |-> "none", lang |-> 0, text |-> NoText]
Answer == [state : {"ready"}, lang : Langs, text : Text]
            \cup [state : {"pending", "error"}, lang : Langs, text : {NoText}]

VARIABLES serverMode,  \* cfg.RAG.Mode of the process that serves
          version,     \* the version of the originals in the corpus
          rows,        \* the document's rows, per language
          inFlight,    \* SQLQueryService.inFlight: the languages being translated
          jobs,        \* the goroutines of translateDocumentAsync
          requests,    \* what each client's request has read
          answers      \* what each page shows, from its last answer

vars == <<serverMode, version, rows, inFlight, jobs, requests, answers>>

TypeOK == /\ serverMode \in ServerModes
          /\ version \in Versions
          /\ rows \in [Langs -> Row \cup {NoRow}]
          /\ inFlight \subseteq Langs
          /\ jobs \in [Goroutines -> Job \cup {NoJob}]
          /\ requests \in [Clients -> Request \cup {NoRequest}]
          /\ answers \in [Clients -> Answer \cup {NoAnswer}]

Stored == {l \in Langs : rows[l] # NoRow}

-----------------------------------------------------------------------------
(* Index runs (module DocumentIndex), as the API sees them.                *)

OriginalRow(l, v, mode) ==
  IF mode = "local" THEN [status |-> "", text |-> Original(l, v), hash |-> NoSource]
  ELSE [status |-> "ready", text |-> Original(l, v),
        hash |-> [label |-> l, text |-> Original(l, v)]]

TranslatedRow(l, source) ==
  [status |-> "ready", text |-> InLanguage(source.text, l), hash |-> source]

\* Only an llm run stores translations; no run deletes a row.
Indexed(old, originals, v, mode) ==
  [l \in Langs |->
     IF l \in originals THEN OriginalRow(l, v, mode)
     ELSE IF mode = "llm"
          THEN TranslatedRow(l, [label |-> Least(originals),
                                 text  |-> Original(Least(originals), v)])
          ELSE old[l]]

Init == /\ serverMode \in ServerModes
        /\ version = 1
        /\ \E originals \in OriginalSets :
             rows = Indexed([l \in Langs |-> NoRow], originals, 1, "local")
        /\ inFlight = {}
        /\ jobs = [g \in Goroutines |-> NoJob]
        /\ requests = [c \in Clients |-> NoRequest]
        /\ answers = [c \in Clients |-> NoAnswer]

\* The one transaction of the document, of the same texts or of newer ones.
IndexCommits == \E mode \in IndexModes, originals \in OriginalSets, v \in Versions :
  /\ v \in {version, version + 1}
  /\ version' = v
  /\ rows' = Indexed(rows, originals, v, mode)
  /\ UNCHANGED <<serverMode, inFlight, jobs, requests, answers>>

-----------------------------------------------------------------------------
(* Requests: ListVotations and GetVotationByID.                            *)

\* A page of the list is cut at any row, and so may show some languages only.
Pages == IF Paged THEN {{Alphabet[k] : k \in i..j} : i, j \in Langs} ELSE {Langs}

ReadRows(c, l) ==
  /\ requests[c] = NoRequest
  /\ \E page \in Pages :
       /\ page \cap Stored # {}
       /\ requests' = [requests EXCEPT ![c] =
            [lang |-> l, titles |-> [k \in Langs |-> IF k \in page THEN rows[k].text ELSE NoText]]]
  /\ UNCHANGED <<serverMode, version, rows, inFlight, jobs, answers>>

\* The page's 12 seconds are over.
Reload(c) == answers[c].state = "pending" /\ ReadRows(c, answers[c].lang)

\* The query fails, or nobody is there to answer: the page says so, and waits for
\* its reader.
RequestFails(c, l) ==
  /\ requests[c] = NoRequest
  /\ answers' = [answers EXCEPT ![c] = [state |-> "error", lang |-> l, text |-> NoText]]
  /\ UNCHANGED <<serverMode, version, rows, inFlight, jobs, requests>>

\* applyTranslationFallback: there is a title to show, whatever its status.
AnswerReady(c) ==
  /\ requests[c] # NoRequest
  /\ LET l == requests[c].lang
         title == requests[c].titles[l]
     IN  /\ title # NoText
         /\ answers' = [answers EXCEPT ![c] = [state |-> "ready", lang |-> l, text |-> title]]
  /\ requests' = [requests EXCEPT ![c] = NoRequest]
  /\ UNCHANGED <<serverMode, version, rows, inFlight, jobs>>

StartJob(g, l) ==
  /\ jobs[g] = NoJob
  /\ jobs' = [jobs EXCEPT ![g] = [stage |-> "load", lang |-> l, source |-> NoSource]]

\* Mutant: enqueueTranslationJobs does not look before it adds the key.
EnqueueAlways(l) ==
  /\ inFlight' = inFlight \cup {l}
  /\ \E g \in Goroutines : StartJob(g, l)

\* buildTranslatorRuntime: s.translator is nil in any other mode.
HasTranslator == serverMode = "llm"

\* enqueueTranslationJobs, under the mutex.  Without a translator there is no job,
\* although the answer is pending all the same.
EnqueueTranslationJob(l) ==
  \/ /\ ~HasTranslator \/ l \in inFlight
     /\ UNCHANGED <<inFlight, jobs>>
  \/ /\ HasTranslator
     /\ l \notin inFlight
     /\ inFlight' = inFlight \cup {l}
     /\ \E g \in Goroutines : StartJob(g, l)

AnswerPending(c) ==
  /\ requests[c] # NoRequest
  /\ LET l == requests[c].lang
     IN  /\ requests[c].titles[l] = NoText
         /\ answers' = [answers EXCEPT ![c] = [state |-> "pending", lang |-> l, text |-> NoText]]
         /\ EnqueueTranslationJob(l)
  /\ requests' = [requests EXCEPT ![c] = NoRequest]
  /\ UNCHANGED <<serverMode, version, rows>>

-----------------------------------------------------------------------------
(* A job: translateDocumentAsync.                                          *)

At(g, stage) == jobs[g].stage = stage
Goto(g, stage) == jobs' = [jobs EXCEPT ![g].stage = stage]

\* loadBestSourceTranslation: any row of another language will do.  (That there is
\* none is an error, see CallFails.)
LoadSource(g) ==
  /\ At(g, "load")
  /\ Stored \ {jobs[g].lang} # {}
  /\ LET s == Least(Stored \ {jobs[g].lang})
     IN  jobs' = [jobs EXCEPT ![g].stage = "check",
                              ![g].source = [label |-> s, text |-> rows[s].text]]
  /\ UNCHANGED <<serverMode, version, rows, inFlight, requests, answers>>

AlreadyReady(g) == LET row == rows[jobs[g].lang]
                   IN  row.status = "ready" /\ row.hash = jobs[g].source

\* translationAlreadyReady.
CheckReady(g) ==
  /\ At(g, "check")
  /\ Goto(g, IF AlreadyReady(g) THEN "exit" ELSE "place")
  /\ UNCHANGED <<serverMode, version, rows, inFlight, requests, answers>>

\* upsertTranslation.
Upsert(g, status, text) ==
  rows' = [rows EXCEPT ![jobs[g].lang] =
             [status |-> status, text |-> text, hash |-> jobs[g].source]]

WritePlaceholder(g) ==
  /\ At(g, "place")
  /\ Upsert(g, "pending", jobs[g].source.text)
  /\ Goto(g, "translate")
  /\ UNCHANGED <<serverMode, version, inFlight, requests, answers>>

\* Both calls of the model, for the title and for the content.
Translate(g) ==
  /\ At(g, "translate")
  /\ Goto(g, "store")
  /\ UNCHANGED <<serverMode, version, rows, inFlight, requests, answers>>

\* Mutant: what is stored is stamped with the source as it is now.
StoreWithFreshHash(g) ==
  /\ At(g, "store")
  /\ LET l == jobs[g].lang
         s == Least(Stored \ {l})
     IN  rows' = [rows EXCEPT ![l] =
                    [status |-> "ready", text |-> InLanguage(jobs[g].source.text, l),
                     hash |-> [label |-> s, text |-> rows[s].text]]]
  /\ Goto(g, "exit")
  /\ UNCHANGED <<serverMode, version, inFlight, requests, answers>>

StoreTranslation(g) ==
  /\ At(g, "store")
  /\ Upsert(g, "ready", InLanguage(jobs[g].source.text, jobs[g].lang))
  /\ Goto(g, "exit")
  /\ UNCHANGED <<serverMode, version, inFlight, requests, answers>>

MarkTranslationFailed(g) ==
  /\ At(g, "fail")
  /\ Upsert(g, "failed", jobs[g].source.text)
  /\ Goto(g, "exit")
  /\ UNCHANGED <<serverMode, version, inFlight, requests, answers>>

\* Where a job goes when its query, or its call of the model, returns an error.
AfterFailure == [load |-> "exit", check |-> "place", place |-> "translate",
                 translate |-> "fail", store |-> "exit", fail |-> "exit"]

\* Mutant: a failure returns past the deferred delete.
CallFailsAndVanishes(g) ==
  /\ jobs[g].stage \in DOMAIN AfterFailure
  /\ jobs' = [jobs EXCEPT ![g] = IF AfterFailure[@.stage] = "exit" THEN NoJob
                                 ELSE [@ EXCEPT !.stage = AfterFailure[@]]]
  /\ UNCHANGED <<serverMode, version, rows, inFlight, requests, answers>>

\* An error, of the call or of a context past its deadline: of all these only
\* the model's is looked at.
CallFails(g) ==
  /\ jobs[g].stage \in DOMAIN AfterFailure
  /\ Goto(g, AfterFailure[jobs[g].stage])
  /\ UNCHANGED <<serverMode, version, rows, inFlight, requests, answers>>

\* The deferred delete.
ExitJob(g) ==
  /\ At(g, "exit")
  /\ inFlight' = inFlight \ {jobs[g].lang}
  /\ jobs' = [jobs EXCEPT ![g] = NoJob]
  /\ UNCHANGED <<serverMode, version, rows, requests, answers>>

JobStep(g) == \/ LoadSource(g)
              \/ CheckReady(g)
              \/ WritePlaceholder(g)
              \/ Translate(g)
              \/ StoreTranslation(g)
              \/ MarkTranslationFailed(g)
              \/ CallFails(g)
              \/ ExitJob(g)

\* The process dies, or ends ten seconds after a signal; another takes its place, be
\* it with another configuration.
Restart == /\ inFlight' = {}
           /\ jobs' = [g \in Goroutines |-> NoJob]
           /\ requests' = [c \in Clients |-> NoRequest]
           /\ answers' = [c \in Clients |->
                IF requests[c] = NoRequest THEN answers[c]
                ELSE [state |-> "error", lang |-> requests[c].lang, text |-> NoText]]
           /\ serverMode' \in ServerModes
           /\ UNCHANGED <<version, rows>>

RequestStep(c) == \/ \E l \in Langs : ReadRows(c, l) \/ RequestFails(c, l)
                  \/ AnswerReady(c)
                  \/ AnswerPending(c)

Next == \/ \E c \in Clients : RequestStep(c)
        \/ \E g \in Goroutines : JobStep(g)
        \/ IndexCommits
        \/ Restart

Spec == Init /\ [][Next]_vars

(***************************************************************************)
(* Every goroutine is scheduled, and each of its calls returns within the  *)
(* 90 seconds of its context (sql_query_service.go:723).  A request that   *)
(* has read its rows is answered.  The timer of a pending page fires.      *)
(***************************************************************************)
Fairness == /\ \A g \in Goroutines : WF_vars(JobStep(g))
            /\ \A c \in Clients : /\ WF_vars(AnswerReady(c) \/ AnswerPending(c))
                                  /\ WF_vars(Reload(c))

FairSpec == Spec /\ Fairness

-----------------------------------------------------------------------------
(* Properties.                                                             *)

(***************************************************************************)
(* The set inFlight and the goroutines agree: a key is there exactly while *)
(* one goroutine, and no other, works on that language.  A key left behind *)
(* would forbid the translation until the next restart; a missing one      *)
(* would let two goroutines write the same row and pay the model twice.    *)
(***************************************************************************)
OneJobPerLanguage ==
  /\ \A g \in Goroutines : jobs[g] # NoJob => jobs[g].lang \in inFlight
  /\ \A l \in inFlight : \E g \in Goroutines : jobs[g].lang = l
  /\ \A g, h \in Goroutines : jobs[g] # NoJob /\ jobs[g].lang = jobs[h].lang => g = h

(***************************************************************************)
(* A row marked ready is in its own language and is the translation of the *)
(* very text whose hash it carries, even when the source changed while the *)
(* model was at work.  The next index run, which keeps ready rows by their *)
(* hash alone (translate.go:482), would otherwise keep a stale text.       *)
(***************************************************************************)
ReadyMatchesHash ==
  \A l \in Langs : rows[l].status = "ready" =>
    rows[l].text = InLanguage(rows[l].hash.text, l)

(***************************************************************************)
(* A job fills what is missing and never replaces an original: "Si la      *)
(* langue existe deja dans les documents source, la reutiliser"            *)
(* (PLAN-20260314-rag-index-translations.md:23).                           *)
(***************************************************************************)
OriginalsAreKept ==
  [][\A g \in Goroutines, l \in Langs :
       JobStep(g) /\ rows[l].text.lang = l /\ rows[l].text.from = l => rows'[l] = rows[l]]_vars

(***************************************************************************)
(* A language that is being translated does not stay so for ever: whatever *)
(* fails, the key leaves inFlight and a later request can try again.       *)
(***************************************************************************)
KeysAreReleased == \A l \in Langs : (l \in inFlight) ~> (l \notin inFlight)

(***************************************************************************)
(* A page that shows "translation in progress" for ever, and loads itself  *)
(* every 12 seconds, belongs to an API without translator, and to a        *)
(* language that no index run ever stores: in any other case it gets       *)
(* another answer once no call fails and nothing restarts, whatever        *)
(* failures, crashes, changes of mode and index runs came before.          *)
(* (Of a page that shows the whole document: for a list that LIMIT cuts    *)
(* between two languages the page may stay so.)                            *)
(***************************************************************************)
PendingPagesSettle ==
  <>[][~Restart /\ \A g \in Goroutines : ~CallFails(g)]_vars
    => \A c \in Clients, l \in Langs :
         <>[](answers[c].state = "pending" /\ answers[c].lang = l)
           => <>[](~HasTranslator /\ l \notin Stored)
=============================================================================
