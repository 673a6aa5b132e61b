--------------------------- MODULE DocumentIndex ----------------------------
(***************************************************************************)
(* One document in the index: what successive runs of "rag-cli index" make *)
(* of its rows and chunks in the database (backend/cmd/rag-cli/main.go and *)
(* translate.go, chunk.go, index_skip.go, store.go of backend/internal/rag)*)
(*                                                                         *)
(* A run ingests the corpus, loads what the database knows, skips the      *)
(* document or processes it: translations, chunks, embeddings, then one    *)
(* transaction.  A run may fail or be killed anywhere.  Runs do not        *)
(* overlap (the CronJob has concurrencyPolicy Forbid); the corpus and the  *)
(* mode may change between and during runs.                                *)
(*                                                                         *)
(* A language is its rank in the preference list of pickSourceDocument.    *)
(* A text is known by the source text it stems from, by the number of      *)
(* chunks it makes, and by whether it is the whole text.  A hash of a text *)
(* is the text.                                                            *)
(***************************************************************************)
EXTENDS Naturals, FiniteSets

CONSTANTS NumLangs,     \* the supported languages are 1..NumLangs
          Pieces,       \* how many chunks each version of the source text makes
          MaxPieces,    \* bound on the chunks of a machine translation
          SourceSets,   \* the sets of languages the corpus may offer the document in
          DatedVersions, \* the versions with an issue or modification date, each its own
          Modes         \* the values of cfg.RAG.Mode that runs use

Langs == 1..NumLangs
Versions == DOMAIN Pieces

ASSUME LangsAssumption == NumLangs \in Nat \ {0}
ASSUME PiecesAssumption == /\ MaxPieces \in Nat \ {0}
                           /\ Versions \subseteq Nat \ {0}
                           /\ Pieces \in [Versions -> 1..MaxPieces]
ASSUME SourcesAssumption == SourceSets \subseteq (SUBSET Langs) \ {{}}
ASSUME DatedAssumption == DatedVersions \subseteq Versions
ASSUME ModesAssumption == Modes \subseteq {"local", "llm"}

-----------------------------------------------------------------------------
(* Texts, documents and rows.                                              *)

Text == [from : Langs, version : Versions, pieces : 1..MaxPieces, whole : BOOLEAN]
NoText == [from |-> 0, version |-> 0, pieces |-> 0, whole |-> FALSE]

SourceText(l, v) == [from |-> l, version |-> v, pieces |-> Pieces[v], whole |-> TRUE]

\* The text of the last chunk, which makes one chunk when chunked again.
LastChunk(text) ==
  IF text.pieces = 1 THEN text ELSE [text EXCEPT !.pieces = 1, !.whole = FALSE]

\* What the corpus offers: a version per language, 0 where there is none.
Offered(docs) == {l \in Langs : docs[l] # 0}
Corpora == {c \in [Langs -> Versions \cup {0}] : Offered(c) \in SourceSets}
NoDocs == [l \in Langs |-> 0]

\* ChunkDocuments: the part number is in the chunk's id, with the language.
ChunksOf(l, text) == {[lang |-> l, part |-> i, text |-> text] : i \in 1..text.pieces}
Chunk == [lang : Langs, part : 1..MaxPieces, text : Text]

ChunksOfAll(texts, ls) == UNION {ChunksOf(l, texts[l]) : l \in ls}

SourceTexts(docs) ==
  [l \in Langs |-> IF docs[l] = 0 THEN NoText ELSE SourceText(l, docs[l])]

\* pickSourceDocument
PickSource(docs) == CHOOSE l \in Offered(docs) : \A m \in Offered(docs) : l <= m

\* Only single documents of the generic JSON format carry dates.
IsDated(docs) == LET l == PickSource(docs) IN Offered(docs) = {l} /\ docs[l] \in DatedVersions

\* Mutant: the date is looked at, not its value.
FingerprintIgnoresDate(docs) == IF IsDated(docs) THEN 1 ELSE 0

\* sourceFingerprintForDocument: only a dated document has one of high confidence.
Fingerprint(docs) == IF IsDated(docs) THEN docs[PickSource(docs)] ELSE 0

NoRow == [status |-> "", sourceHash |-> NoText, content |-> NoText, hash |-> NoText]
Row == [status : {"", "ready"}, sourceHash : Text \cup {NoText},
        content : Text \cup {NoText}, hash : Text \cup {NoText}]

\* documents, document_translations and the chunk table, for this document.
EmptyDb == [exists |-> FALSE, complete |-> FALSE, count |-> 0, fingerprint |-> 0,
            rows |-> [l \in Langs |-> NoRow], chunks |-> {}]
Database == [exists : BOOLEAN, complete : BOOLEAN, count : Nat,
             fingerprint : Versions \cup {0}, rows : [Langs -> Row], chunks : SUBSET Chunk]

-----------------------------------------------------------------------------
(* The decision to skip.                                                   *)

RequiredLanguages(docs, m) == IF m = "llm" THEN Langs ELSE Offered(docs)

ExpectedChunkCount(docs) == Cardinality(ChunksOfAll(SourceTexts(docs), Offered(docs)))

SourceFingerprintMatches(docs, state) ==
  Fingerprint(docs) # 0 /\ state.fingerprint = Fingerprint(docs)

\* Mutant: it is enough that one language is unchanged.
AnyContentHashMatches(docs, state) ==
  \E l \in Offered(docs) : state.rows[l].hash = SourceText(l, docs[l])

FallbackContentHashesMatch(docs, state) ==
  \A l \in Offered(docs) : state.rows[l].hash = SourceText(l, docs[l])

ShouldSkip(docs, state, m) ==
  /\ state.exists
  /\ state.complete
  /\ state.count = ExpectedChunkCount(docs)
  /\ \A l \in RequiredLanguages(docs, m) : state.rows[l].status = "ready"
  /\ SourceFingerprintMatches(docs, state) \/ FallbackContentHashesMatch(docs, state)

-----------------------------------------------------------------------------
VARIABLES corpus,    \* what ingestion would find now
          db,        \* what is committed
          pc,        \* where the run is
          mode,      \* its cfg.RAG.Mode, "" between runs
          docs,      \* the documents it ingested
          existing,  \* what LoadIndexState told it
          texts,     \* the texts it will store, per language
          todo,      \* the languages it still has to translate, then to write
          txn        \* the database as its open transaction sees it

vars == <<corpus, db, pc, mode, docs, existing, texts, todo, txn>>

InTransaction == {"write", "mark", "commit"}

TypeOK == /\ corpus \in Corpora
          /\ db \in Database
          /\ pc \in {"idle", "loaded", "translate", "embed"} \cup InTransaction
          /\ mode \in Modes \cup {""}
          /\ docs \in Corpora \cup {NoDocs}
          /\ existing \in Database
          /\ texts \in [Langs -> Text \cup {NoText}]
          /\ todo \subseteq Langs
          /\ txn \in Database
          /\ pc \notin InTransaction => txn = EmptyDb

NoTexts == [l \in Langs |-> NoText]

Init == /\ corpus \in Corpora
        /\ db = EmptyDb
        /\ pc = "idle"
        /\ mode = ""
        /\ docs = NoDocs
        /\ existing = EmptyDb
        /\ texts = NoTexts
        /\ todo = {}
        /\ txn = EmptyDb

\* The process ends: nothing of the run is left, an open transaction is rolled back.
Exit == /\ pc' = "idle"
        /\ mode' = ""
        /\ docs' = NoDocs
        /\ existing' = EmptyDb
        /\ texts' = NoTexts
        /\ todo' = {}
        /\ txn' = EmptyDb

-----------------------------------------------------------------------------
(* data-fetch, or an editor, changes the files.                            *)

CorpusChanges == /\ corpus' \in Corpora \ {corpus}
                 /\ UNCHANGED <<db, pc, mode, docs, existing, texts, todo, txn>>

-----------------------------------------------------------------------------
(* A run.                                                                  *)

\* runIndex: IngestCorpus, then LoadIndexState.
BeginRun(m) == /\ pc = "idle"
               /\ pc' = "loaded"
               /\ mode' = m
               /\ docs' = corpus
               /\ existing' = db
               /\ UNCHANGED <<corpus, db, texts, todo, txn>>

SkipDocument == /\ pc = "loaded"
                /\ ShouldSkip(docs, existing, mode)
                /\ Exit
                /\ UNCHANGED <<corpus, db>>

\* Mutant: languages that are there are looked up among the translations too.
ProcessAllLanguages ==
  /\ pc = "loaded"
  /\ ~ShouldSkip(docs, existing, mode)
  /\ texts' = SourceTexts(docs)
  /\ pc' = IF mode = "llm" THEN "translate" ELSE "embed"
  /\ todo' = IF mode = "llm" THEN Langs ELSE {}
  /\ UNCHANGED <<corpus, db, mode, docs, existing, txn>>

ProcessDocument ==
  /\ pc = "loaded"
  /\ ~ShouldSkip(docs, existing, mode)
  /\ texts' = SourceTexts(docs)
  /\ pc' = IF mode = "llm" THEN "translate" ELSE "embed"
  /\ todo' = IF mode = "llm" THEN Langs \ Offered(docs) ELSE {}
  /\ UNCHANGED <<corpus, db, mode, docs, existing, txn>>

NextOf(ls, l) == l \in ls /\ \A m \in ls : l <= m

TheSource == SourceText(PickSource(docs), docs[PickSource(docs)])

\* Mutant: a translation of any version of the source is good.
ReusableWhatever(l) == existing.rows[l].status = "ready"

\* reuseExistingReadyTranslation: made from the source text of today.
Reusable(l) == /\ existing.rows[l].status = "ready"
               /\ existing.rows[l].sourceHash = TheSource

ReuseTranslation(l) ==
  /\ pc = "translate"
  /\ NextOf(todo, l)
  /\ Reusable(l)
  /\ texts' = [texts EXCEPT ![l] = existing.rows[l].content]
  /\ todo' = todo \ {l}
  /\ UNCHANGED <<corpus, db, pc, mode, docs, existing, txn>>

\* translateDocument: the model may answer with a text of any length.
TranslateDocument(l) ==
  /\ pc = "translate"
  /\ NextOf(todo, l)
  /\ ~Reusable(l)
  /\ \E n \in 1..MaxPieces : texts' = [texts EXCEPT ![l] = [TheSource EXCEPT !.pieces = n]]
  /\ todo' = todo \ {l}
  /\ UNCHANGED <<corpus, db, pc, mode, docs, existing, txn>>

TranslationsDone == /\ pc = "translate"
                    /\ todo = {}
                    /\ pc' = "embed"
                    /\ UNCHANGED <<corpus, db, mode, docs, existing, texts, todo, txn>>

ToStore == {l \in Langs : texts[l] # NoText}

\* Mutant: the old chunks are overwritten, never deleted.
BeginWithoutDelete ==
  /\ pc = "embed"
  /\ pc' = "write"
  /\ txn' = db
  /\ todo' = ToStore
  /\ UNCHANGED <<corpus, db, mode, docs, existing, texts>>

\* The vectors are there: the transaction begins and deletes the old chunks.
BeginTransaction ==
  /\ pc = "embed"
  /\ pc' = "write"
  /\ txn' = [db EXCEPT !.chunks = {}]
  /\ todo' = ToStore
  /\ UNCHANGED <<corpus, db, mode, docs, existing, texts>>

\* What is stored beside the text of a language: only llm runs set a status.
RowFor(l) ==
  [status     |-> IF mode = "llm" THEN "ready" ELSE "",
   sourceHash |-> IF mode # "llm" THEN NoText
                  ELSE IF l \in Offered(docs) THEN SourceText(l, docs[l]) ELSE TheSource,
   content    |-> LastChunk(texts[l]),
   hash       |-> texts[l]]

\* The chunks of one language, each with its upserts of the document's row and of
\* the translation's, whose content_normalized is left with the last chunk.
WriteLanguage(l) ==
  /\ pc = "write"
  /\ NextOf(todo, l)
  /\ txn' = [exists      |-> TRUE,
             complete    |-> FALSE,
             count       |-> 0,
             fingerprint |-> Fingerprint(docs),
             rows        |-> [txn.rows EXCEPT ![l] = RowFor(l)],
             chunks      |-> {c \in txn.chunks : c.lang # l \/ c.part > texts[l].pieces}
                               \cup ChunksOf(l, texts[l])]
  /\ todo' = todo \ {l}
  /\ pc' = IF todo' = {} THEN "mark" ELSE "write"
  /\ UNCHANGED <<corpus, db, mode, docs, existing, texts>>

\* The last statement of the transaction: index_complete, and len(items).
MarkComplete ==
  /\ pc = "mark"
  /\ txn' = [txn EXCEPT !.complete = TRUE, !.count = Cardinality(ChunksOfAll(texts, ToStore))]
  /\ pc' = "commit"
  /\ UNCHANGED <<corpus, db, mode, docs, existing, texts, todo>>

Commit == /\ pc = "commit"
          /\ db' = txn
          /\ Exit
          /\ UNCHANGED corpus

\* An error of any call, the end of the context, or a kill.
AbortRun == /\ pc # "idle"
            /\ Exit
            /\ UNCHANGED <<corpus, db>>

RunStep == \/ SkipDocument
           \/ ProcessDocument
           \/ \E l \in Langs : ReuseTranslation(l) \/ TranslateDocument(l)
           \/ TranslationsDone
           \/ BeginTransaction
           \/ \E l \in Langs : WriteLanguage(l)
           \/ MarkComplete
           \/ Commit

Next == \/ CorpusChanges
        \/ \E m \in Modes : BeginRun(m)
        \/ RunStep
        \/ AbortRun

Spec == Init /\ [][Next]_vars

(***************************************************************************)
(* The CronJob starts a run again and again, and a run that is not killed  *)
(* goes on: its calls have timeouts.  Runs need not succeed.               *)
(***************************************************************************)
Fairness == /\ WF_vars(\E m \in Modes : BeginRun(m))
            /\ WF_vars(RunStep)

FairSpec == Spec /\ Fairness

-----------------------------------------------------------------------------
(* Properties.                                                             *)

StoredIn(l) == {c \in db.chunks : c.lang = l}

(***************************************************************************)
(* What readers find is always one whole write of the document: the row    *)
(* is complete, it counts the chunks that are there, and the chunks of a   *)
(* language are all the parts of one text, the one whose hash the          *)
(* translation's row holds.  A crash, a failure or a shorter new version   *)
(* must not leave a mixture of old and new chunks                          *)
(* (PLAN-20260314-rag-cli-index-commit-par-document.md:68).                *)
(***************************************************************************)
CommittedIsWhole ==
  db.exists => /\ db.complete
               /\ db.count = Cardinality(db.chunks)
               /\ \A l \in Langs : StoredIn(l) \in {{}, ChunksOf(l, db.rows[l].hash)}

(***************************************************************************)
(* A machine translation that can be searched is a translation of the      *)
(* source text stored beside it, never of an older one: reuse must notice  *)
(* every change of the source text or of the source language.              *)
(***************************************************************************)
TranslationsFollowSource ==
  \A c \in db.chunks : c.text.from # c.lang =>
    StoredIn(c.text.from) = ChunksOf(c.text.from, SourceText(c.text.from, c.text.version))

\* Every text of the corpus can be searched, and so can every required language.
Indexed(m) ==
  /\ db.complete
  /\ \A l \in Offered(corpus) : StoredIn(l) = ChunksOf(l, SourceText(l, corpus[l]))
  /\ \A l \in RequiredLanguages(corpus, m) : StoredIn(l) # {}

(***************************************************************************)
(* A run never skips a document whose present text is not what is stored:  *)
(* "Eviter le retraitement d'un document deja indexe s'il est inchange"    *)
(* (PLAN-20260314-rag-index-skip-intelligent.md:9), and none that is       *)
(* partly written (PLAN-...-commit-par-document.md:94).                    *)
(***************************************************************************)
SkippedIsIndexed == \A m \in Modes : ShouldSkip(corpus, db, m) => Indexed(m)

(***************************************************************************)
(* Once the corpus stops changing and runs stop failing, the texts of the  *)
(* corpus end up in the index and stay there.  (A run that skips, or that  *)
(* commits what is there, ends as an aborted one does.)                    *)
(***************************************************************************)
EventuallyIndexed ==
  \A c \in Corpora :
    <>[](corpus = c) /\ <>[][AbortRun => SkipDocument \/ Commit]_vars
      => <>[](\A l \in Offered(c) : StoredIn(l) = ChunksOf(l, SourceText(l, c[l])))

(***************************************************************************)
(* What an llm run reuses may be the end of a translation only             *)
(* (WholeTextsStored), but a language that the corpus had the document in  *)
(* is stored whole, also after runs in which it was a translation: its row *)
(* then holds an end that must not take the place of the document          *)
(* (translate.go:456).                                                     *)
(***************************************************************************)
OriginalsAreWhole == \A c \in db.chunks : c.text.from = c.lang => c.text.whole

(***************************************************************************)
(* The plan's "pas de perte/duplication de chunks apres reindex d'un       *)
(* document" (PLAN-20260314-rag-cli-index-commit-par-document.md:95): what *)
(* is stored for a language is always the whole of a text.                 *)
(***************************************************************************)
WholeTextsStored == \A c \in db.chunks : c.text.whole
=============================================================================
