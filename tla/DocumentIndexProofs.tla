------------------------ MODULE DocumentIndexProofs -------------------------
(***************************************************************************)
(* Proofs about DocumentIndex, for any number of languages and versions.   *)
(*                                                                         *)
(* The invariant follows what a run holds: the texts it has so far all     *)
(* stem from the documents it ingested, what its transaction has written   *)
(* are the chunks of those texts, and what is committed is a complete      *)
(* transaction.                                                            *)
(***************************************************************************)
EXTENDS DocumentIndex, FiniteSetTheorems, WellFoundedInduction, TLAPS

\* A ready translation's row says which source text its content stems from.
RowsAgree(d) ==
  \A l \in Langs : d.rows[l].status = "ready" =>
    /\ d.rows[l].content \in Text
    /\ d.rows[l].sourceHash \in Text
    /\ d.rows[l].content.from = d.rows[l].sourceHash.from
    /\ d.rows[l].content.version = d.rows[l].sourceHash.version

StemsFrom(text, l, v) == text \in Text /\ text.from = l /\ text.version = v

\* What a run may hold for a language it has no document in.
Translation(c, text) == text = NoText \/ StemsFrom(text, PickSource(c), c[PickSource(c)])

Working == {"translate", "embed", "write", "mark", "commit"}

TextsAgree ==
  /\ pc # "idle" => docs \in Corpora
  /\ pc \in Working =>
       /\ \A l \in Offered(docs) : texts[l] = SourceText(l, docs[l])
       /\ \A l \in Langs \ Offered(docs) : Translation(docs, texts[l])
  /\ pc = "translate" =>
       /\ mode = "llm"
       /\ todo \subseteq Langs \ Offered(docs)
       /\ \A l \in Langs : texts[l] = NoText => l \in todo
  /\ pc \in {"embed", "write", "mark", "commit"} /\ mode = "llm" => ToStore = Langs

Written == ToStore \ todo

TransactionAgrees ==
  /\ pc \in InTransaction =>
       /\ todo \subseteq ToStore
       /\ RowsAgree(txn)
       /\ txn.chunks = ChunksOfAll(texts, Written)
       /\ \A l \in Written : txn.rows[l].hash = texts[l]
  /\ pc = "write" => todo # {}
  /\ pc \in {"mark", "commit"} => todo = {} /\ txn.exists
  /\ pc = "commit" => txn.complete /\ txn.count = Cardinality(txn.chunks)

IInv == /\ TypeOK
        /\ CommittedIsWhole
        /\ TranslationsFollowSource
        /\ RowsAgree(db) /\ RowsAgree(existing)
        /\ TextsAgree
        /\ TransactionAgrees

-----------------------------------------------------------------------------
(* The operators on texts and documents.                                   *)

LEMMA SourceTextType ==
  ASSUME NEW l \in Langs, NEW v \in Versions
  PROVE  StemsFrom(SourceText(l, v), l, v) /\ SourceText(l, v) # NoText
<1>1. Pieces[v] \in 1..MaxPieces /\ v # 0
  BY PiecesAssumption DEF PiecesAssumption
<1>2. QED
  BY <1>1 DEF SourceText, Text, NoText, StemsFrom

LEMMA LastChunkType ==
  ASSUME NEW text \in Text
  PROVE  StemsFrom(LastChunk(text), text.from, text.version)
<1>1. 1 \in 1..MaxPieces
  BY PiecesAssumption DEF PiecesAssumption
<1>2. CASE text.pieces = 1
  BY <1>2 DEF LastChunk, StemsFrom
<1>3. CASE text.pieces # 1
  <2>1. LastChunk(text) =
          [from |-> text.from, version |-> text.version, pieces |-> 1, whole |-> FALSE]
    BY <1>3 DEF LastChunk, Text
  <2>2. QED
    BY <1>1, <2>1 DEF Text, StemsFrom
<1>4. QED
  BY <1>2, <1>3

LEMMA OfferedVersions ==
  ASSUME NEW c \in Corpora, NEW l \in Offered(c)
  PROVE  l \in Langs /\ c[l] \in Versions
<1> QED
  BY DEF Corpora, Offered

\* Every corpus has a source, the first of the languages it offers.
LEMMA PickSourceOffered == ASSUME NEW c \in Corpora PROVE PickSource(c) \in Offered(c)
<1> DEFINE R == {p \in Nat \X Nat : p[1] < p[2]}
<1>1. Offered(c) # {} /\ Offered(c) \subseteq Nat
  BY SourcesAssumption, LangsAssumption DEF SourcesAssumption, LangsAssumption, Corpora, Offered, Langs
<1>2. IsWellFoundedOn(R, Nat)
  BY NatLessThanWellFounded DEF OpToRel
<1>3. \E l \in Offered(c) : \A m \in Offered(c) : ~(<<m, l>> \in R)
  <2> HIDE DEF R
  <2>1. QED
    BY <1>1, <1>2, WFMin
<1>4. \E l \in Offered(c) : \A m \in Offered(c) : l <= m
  <2>1. PICK l \in Offered(c) : \A m \in Offered(c) : ~(<<m, l>> \in R)
    BY <1>3
  <2>2. ASSUME NEW m \in Offered(c) PROVE l <= m
    <3>1. l \in Nat /\ m \in Nat /\ <<m, l>> \notin R
      BY <1>1, <2>1
    <3>2. ~(m < l)
      BY <3>1
    <3>3. QED
      BY <3>1, <3>2
  <2>3. QED
    BY <2>2
<1>5. QED
  BY <1>4 DEF PickSource

LEMMA FiniteChunks ==
  ASSUME NEW ts \in [Langs -> Text \cup {NoText}], NEW ls \in SUBSET Langs
  PROVE  /\ ChunksOfAll(ts, {l \in ls : ts[l] # NoText}) \in SUBSET Chunk
         /\ IsFiniteSet(ChunksOfAll(ts, {l \in ls : ts[l] # NoText}))
<1> DEFINE all == ChunksOfAll(ts, {l \in ls : ts[l] # NoText})
           f == [p \in Langs \X (1..MaxPieces) |-> [lang |-> p[1], part |-> p[2], text |-> ts[p[1]]]]
           T == {f[p] : p \in Langs \X (1..MaxPieces)}
<1>1. IsFiniteSet(Langs \X (1..MaxPieces))
  <2>1. 1 \in Int /\ NumLangs \in Int /\ MaxPieces \in Int
    BY LangsAssumption, PiecesAssumption DEF LangsAssumption, PiecesAssumption
  <2>2. IsFiniteSet(1..NumLangs) /\ IsFiniteSet(1..MaxPieces)
    BY <2>1, FS_Interval
  <2>3. QED
    BY <2>2, FS_Product DEF Langs
<1>2. f \in Surjection(Langs \X (1..MaxPieces), T)
  BY DEF Surjection
<1>3. IsFiniteSet(T)
  BY <1>1, <1>2, FS_Surjection
<1>4. ASSUME NEW l \in ls, ts[l] # NoText, NEW i \in 1..ts[l].pieces
      PROVE  /\ [lang |-> l, part |-> i, text |-> ts[l]] \in T
             /\ [lang |-> l, part |-> i, text |-> ts[l]] \in Chunk
  <2>1. i \in 1..MaxPieces /\ ts[l] \in Text
    BY <1>4, PiecesAssumption DEF Text, PiecesAssumption
  <2>2. [lang |-> l, part |-> i, text |-> ts[l]] = f[<<l, i>>]
    BY <2>1
  <2>3. QED
    BY <2>1, <2>2 DEF Chunk
<1>5. all \subseteq T /\ all \subseteq Chunk
  <2> SUFFICES ASSUME NEW c \in all PROVE c \in T /\ c \in Chunk
    OBVIOUS
  <2>1. PICK l \in ls : ts[l] # NoText /\ c \in ChunksOf(l, ts[l])
    BY DEF ChunksOfAll
  <2>2. PICK i \in 1..ts[l].pieces : c = [lang |-> l, part |-> i, text |-> ts[l]]
    BY <2>1 DEF ChunksOf
  <2>3. QED
    BY <1>4, <2>1, <2>2
<1>6. IsFiniteSet(all)
  BY <1>3, <1>5, FS_Subset
<1>7. QED
  BY <1>5, <1>6

LEMMA EmptyTypes ==
  EmptyDb \in Database /\ RowsAgree(EmptyDb) /\ NoTexts \in [Langs -> Text \cup {NoText}]
<1>1. NoRow \in Row
  BY DEF NoRow, Row
<1>2. EmptyDb \in Database
  BY <1>1 DEF EmptyDb, Database
<1>3. RowsAgree(EmptyDb)
  BY DEF EmptyDb, RowsAgree, NoRow
<1>4. QED
  BY <1>2, <1>3 DEF NoTexts

LEMMA SourceTextsType ==
  ASSUME NEW c \in Corpora
  PROVE  /\ SourceTexts(c) \in [Langs -> Text \cup {NoText}]
         /\ \A l \in Offered(c) : SourceTexts(c)[l] = SourceText(l, c[l])
         /\ \A l \in Langs \ Offered(c) : SourceTexts(c)[l] = NoText
<1>1. ASSUME NEW l \in Langs PROVE SourceTexts(c)[l] \in Text \cup {NoText}
  <2>1. CASE c[l] = 0
    BY <2>1 DEF SourceTexts
  <2>2. CASE c[l] # 0
    BY <2>2, OfferedVersions, SourceTextType DEF SourceTexts, Offered, StemsFrom
  <2>3. QED
    BY <2>1, <2>2
<1>2. QED
  BY <1>1 DEF SourceTexts, Offered

-----------------------------------------------------------------------------
(* The initial state and the steps outside a transaction.                  *)

LEMMA InitIInv == Init => IInv
<1> SUFFICES ASSUME Init PROVE IInv
  OBVIOUS
<1>1. TypeOK
  BY EmptyTypes DEF Init, TypeOK
<1>2. CommittedIsWhole /\ TranslationsFollowSource
  BY DEF Init, CommittedIsWhole, TranslationsFollowSource, EmptyDb
<1>3. RowsAgree(db) /\ RowsAgree(existing)
  BY EmptyTypes DEF Init
<1>4. TextsAgree /\ TransactionAgrees
  BY DEF Init, TextsAgree, TransactionAgrees, Working, InTransaction
<1>5. QED
  BY <1>1, <1>2, <1>3, <1>4 DEF IInv

LEMMA SameDb ==
  ASSUME IInv, UNCHANGED db
  PROVE  CommittedIsWhole' /\ TranslationsFollowSource' /\ RowsAgree(db)'
<1> QED
  BY DEF IInv, CommittedIsWhole, TranslationsFollowSource, StoredIn, RowsAgree

LEMMA CorpusChangesIInv == ASSUME IInv, CorpusChanges PROVE IInv'
<1>1. TypeOK'
  BY DEF IInv, TypeOK, CorpusChanges
<1>2. RowsAgree(existing)' /\ TextsAgree' /\ TransactionAgrees'
  BY DEF IInv, CorpusChanges, RowsAgree, TextsAgree, TransactionAgrees, Written, ToStore
<1>3. QED
  BY <1>1, <1>2, SameDb DEF IInv, CorpusChanges

LEMMA BeginRunIInv == ASSUME IInv, NEW m \in Modes, BeginRun(m) PROVE IInv'
<1>1. TypeOK'
  BY DEF IInv, TypeOK, BeginRun, InTransaction
<1>2. RowsAgree(existing)'
  BY DEF IInv, BeginRun, RowsAgree
<1>3. TextsAgree' /\ TransactionAgrees'
  BY DEF IInv, TypeOK, BeginRun, TextsAgree, TransactionAgrees, Working, InTransaction
<1>4. QED
  BY <1>1, <1>2, <1>3, SameDb DEF IInv, BeginRun

\* However a run ends, it leaves no trace but what is committed.
LEMMA ExitKeeps ==
  ASSUME IInv, Exit, UNCHANGED corpus, db' \in Database
  PROVE  TypeOK' /\ RowsAgree(existing)' /\ TextsAgree' /\ TransactionAgrees'
<1>1. TypeOK'
  BY EmptyTypes DEF IInv, TypeOK, Exit
<1>2. RowsAgree(existing)'
  BY EmptyTypes DEF Exit, RowsAgree
<1>3. TextsAgree' /\ TransactionAgrees'
  BY DEF Exit, TextsAgree, TransactionAgrees, Working, InTransaction
<1>4. QED
  BY <1>1, <1>2, <1>3

LEMMA SkipOrAbortIInv == ASSUME IInv, SkipDocument \/ AbortRun PROVE IInv'
<1>1. Exit /\ UNCHANGED <<corpus, db>>
  BY DEF SkipDocument, AbortRun
<1>2. db' \in Database
  BY <1>1 DEF IInv, TypeOK
<1>3. QED
  BY <1>1, <1>2, ExitKeeps, SameDb DEF IInv

LEMMA ProcessDocumentIInv == ASSUME IInv, ProcessDocument PROVE IInv'
<1> USE DEF IInv, ProcessDocument
<1>1. docs \in Corpora /\ docs' = docs
  BY DEF TextsAgree
<1>2. TypeOK'
  BY <1>1, SourceTextsType DEF TypeOK, InTransaction
<1>3. RowsAgree(existing)'
  BY DEF RowsAgree
<1>4. TransactionAgrees'
  BY DEF TransactionAgrees, InTransaction
<1>5. TextsAgree'
  <2>1. \A l \in Offered(docs) : texts'[l] = SourceText(l, docs[l])
    BY <1>1, SourceTextsType
  <2>2. \A l \in Langs \ Offered(docs) : texts'[l] = NoText
    BY <1>1, SourceTextsType
  <2>3. ASSUME NEW l \in Langs, mode = "llm", texts'[l] = NoText PROVE l \in todo'
    BY <1>1, <2>1, <2>3, SourceTextType, OfferedVersions
  <2>4. /\ pc' \in {"translate", "embed"}
        /\ pc' = "translate" <=> mode = "llm"
        /\ mode' = mode
        /\ mode = "llm" => todo' \subseteq Langs \ Offered(docs)
    OBVIOUS
  <2>5. \A l \in Langs \ Offered(docs) : Translation(docs, texts'[l])
    BY <2>2 DEF Translation
  <2>6. QED
    BY <1>1, <2>1, <2>3, <2>4, <2>5 DEF TextsAgree, Working
<1>6. QED
  BY <1>2, <1>3, <1>4, <1>5, SameDb

\* A text found for the next missing language, from the database or the model.
LEMMA FoundIInv ==
  ASSUME IInv, pc = "translate", NEW l \in Langs, NextOf(todo, l),
         NEW text, StemsFrom(text, PickSource(docs), docs[PickSource(docs)]),
         texts' = [texts EXCEPT ![l] = text], todo' = todo \ {l},
         UNCHANGED <<corpus, db, pc, mode, docs, existing, txn>>
  PROVE  IInv'
<1> USE DEF IInv
<1>1. TypeOK'
  BY DEF TypeOK, StemsFrom
<1>2. RowsAgree(existing)' /\ TransactionAgrees'
  BY DEF RowsAgree, TransactionAgrees, InTransaction
<1>3. TextsAgree'
  <2>1. docs \in Corpora
    BY DEF TextsAgree
  <2>2. \A m \in Langs : texts'[m] = IF m = l THEN text ELSE texts[m]
    BY DEF TypeOK
  <2>3. \A m \in Offered(docs) : texts'[m] = SourceText(m, docs[m])
    BY <2>2 DEF TextsAgree, Working, NextOf
  <2>4. \A m \in Langs \ Offered(docs) : Translation(docs, texts'[m])
    BY <2>2 DEF TextsAgree, Working, Translation
  <2>5. text # NoText
    BY LangsAssumption DEF StemsFrom, Text, NoText, Langs, LangsAssumption
  <2>6. /\ mode' = "llm"
        /\ todo' \subseteq Langs \ Offered(docs)
        /\ \A m \in Langs : texts'[m] = NoText => m \in todo'
    BY <2>2, <2>5 DEF TextsAgree
  <2>7. QED
    BY <2>1, <2>3, <2>4, <2>6 DEF TextsAgree
<1>4. QED
  BY <1>1, <1>2, <1>3, SameDb

LEMMA TheSourceType ==
  ASSUME docs \in Corpora
  PROVE  StemsFrom(TheSource, PickSource(docs), docs[PickSource(docs)])
<1> QED
  BY PickSourceOffered, OfferedVersions, SourceTextType DEF TheSource

LEMMA ReuseTranslationIInv == ASSUME IInv, NEW l \in Langs, ReuseTranslation(l) PROVE IInv'
<1>1. StemsFrom(TheSource, PickSource(docs), docs[PickSource(docs)])
  BY TheSourceType DEF IInv, TextsAgree, ReuseTranslation
<1>2. StemsFrom(existing.rows[l].content, PickSource(docs), docs[PickSource(docs)])
  BY <1>1 DEF IInv, RowsAgree, ReuseTranslation, Reusable, StemsFrom
<1>3. QED
  BY <1>2, FoundIInv DEF ReuseTranslation

LEMMA TranslateDocumentIInv == ASSUME IInv, NEW l \in Langs, TranslateDocument(l) PROVE IInv'
<1>1. StemsFrom(TheSource, PickSource(docs), docs[PickSource(docs)])
  BY TheSourceType DEF IInv, TextsAgree, TranslateDocument
<1>2. PICK n \in 1..MaxPieces : texts' = [texts EXCEPT ![l] = [TheSource EXCEPT !.pieces = n]]
  BY DEF TranslateDocument
<1>3. StemsFrom([TheSource EXCEPT !.pieces = n], PickSource(docs), docs[PickSource(docs)])
  BY <1>1 DEF StemsFrom, Text
<1>4. QED
  BY <1>2, <1>3, FoundIInv DEF TranslateDocument

LEMMA TranslationsDoneIInv == ASSUME IInv, TranslationsDone PROVE IInv'
<1> USE DEF IInv, TranslationsDone
<1>1. TypeOK'
  BY DEF TypeOK, InTransaction
<1>2. RowsAgree(existing)' /\ TransactionAgrees'
  BY DEF RowsAgree, TransactionAgrees, InTransaction
<1>3. TextsAgree'
  <2>1. ToStore' = Langs
    BY DEF TextsAgree, ToStore
  <2>2. QED
    BY <2>1 DEF TextsAgree, Working
<1>4. QED
  BY <1>1, <1>2, <1>3, SameDb

-----------------------------------------------------------------------------
(* The transaction.                                                        *)

\* There is always something to store: the documents themselves.
LEMMA ToStoreNotEmpty ==
  ASSUME IInv, pc \in Working PROVE ToStore # {} /\ Offered(docs) \subseteq ToStore
<1>1. docs \in Corpora
  BY DEF IInv, TextsAgree, Working
<1>2. \A l \in Offered(docs) : l \in Langs /\ texts[l] # NoText
  BY <1>1, SourceTextType, OfferedVersions DEF IInv, TextsAgree
<1>3. QED
  BY <1>1, <1>2, PickSourceOffered DEF ToStore

LEMMA BeginTransactionIInv == ASSUME IInv, BeginTransaction PROVE IInv'
<1> USE DEF IInv, BeginTransaction
<1>1. txn' \in Database /\ ToStore' = ToStore
  BY DEF TypeOK, Database, ToStore
<1>2. TypeOK'
  BY <1>1 DEF TypeOK, InTransaction, ToStore
<1>3. RowsAgree(existing)' /\ RowsAgree(txn)'
  BY DEF RowsAgree, TypeOK, Database
<1>4. TextsAgree'
  BY <1>1 DEF TextsAgree, Working
<1>5. TransactionAgrees'
  <2>1. todo' # {}
    BY ToStoreNotEmpty DEF Working
  <2>2. Written' = {}
    BY <1>1 DEF Written
  <2>3. txn'.chunks = ChunksOfAll(texts', Written')
    BY <2>2 DEF TypeOK, Database, ChunksOfAll
  <2>4. QED
    BY <1>1, <1>3, <2>1, <2>2, <2>3 DEF TransactionAgrees, InTransaction
<1>6. QED
  BY <1>2, <1>3, <1>4, <1>5, SameDb

LEMMA WriteLanguageIInv == ASSUME IInv, NEW l \in Langs, WriteLanguage(l) PROVE IInv'
<1> USE DEF IInv, WriteLanguage
<1>1. docs \in Corpora /\ mode' = mode /\ docs' = docs /\ texts' = texts /\ ToStore' = ToStore
  BY DEF TextsAgree, ToStore
<1>2. l \in todo /\ l \in ToStore /\ texts[l] \in Text /\ texts[l] # NoText
  BY DEF NextOf, TransactionAgrees, InTransaction, ToStore, TypeOK
<1>3. /\ TheSource \in Text
      /\ l \in Offered(docs) => texts[l] = SourceText(l, docs[l])
      /\ l \notin Offered(docs) => texts[l].from = TheSource.from /\ texts[l].version = TheSource.version
  BY <1>1, <1>2, TheSourceType DEF StemsFrom, Translation, TextsAgree, Working
<1>4. RowFor(l) \in Row
  BY <1>2, <1>3, LastChunkType DEF RowFor, Row, StemsFrom
<1>5. Written' = Written \cup {l} /\ l \notin Written
  BY <1>1, <1>2 DEF Written
<1>6. txn'.chunks = ChunksOfAll(texts, Written')
  <2>1. \A c \in txn.chunks : c.lang # l
    BY <1>5 DEF TransactionAgrees, InTransaction, ChunksOfAll, ChunksOf
  <2>2. txn'.chunks = txn.chunks \cup ChunksOf(l, texts[l])
    BY <2>1
  <2>3. txn.chunks = ChunksOfAll(texts, Written)
    BY DEF TransactionAgrees, InTransaction
  <2>4. ChunksOfAll(texts, Written \cup {l}) = ChunksOfAll(texts, Written) \cup ChunksOf(l, texts[l])
    BY DEF ChunksOfAll
  <2>5. QED
    BY <1>5, <2>2, <2>3, <2>4
<1>7. txn' \in Database
  <2>1. txn'.chunks \in SUBSET Chunk
    <3>1. Written' = {m \in Written' : texts[m] # NoText} /\ Written' \in SUBSET Langs
      BY <1>1 DEF Written, ToStore
    <3>2. QED
      BY <1>6, <3>1, FiniteChunks DEF TypeOK
  <2>2. txn'.rows \in [Langs -> Row]
    BY <1>4 DEF TypeOK, Database
  <2>3. Fingerprint(docs) \in Versions \cup {0}
    BY <1>1, PickSourceOffered, OfferedVersions DEF Fingerprint
  <2>4. QED
    BY <2>1, <2>2, <2>3 DEF Database
<1>8. TypeOK'
  BY <1>7 DEF TypeOK, InTransaction
<1>9. RowsAgree(existing)' /\ TextsAgree'
  BY <1>1 DEF RowsAgree, TextsAgree, Working
<1>10. RowsAgree(txn)'
  <2>1. \A m \in Langs : txn'.rows[m] = IF m = l THEN RowFor(l) ELSE txn.rows[m]
    BY DEF TypeOK, Database
  <2>2. RowFor(l).status = "ready" =>
          /\ RowFor(l).content \in Text
          /\ RowFor(l).sourceHash \in Text
          /\ RowFor(l).content.from = RowFor(l).sourceHash.from
          /\ RowFor(l).content.version = RowFor(l).sourceHash.version
    <3> SUFFICES ASSUME mode = "llm"
        PROVE  /\ RowFor(l).content \in Text
               /\ RowFor(l).sourceHash \in Text
               /\ RowFor(l).content.from = RowFor(l).sourceHash.from
               /\ RowFor(l).content.version = RowFor(l).sourceHash.version
      BY DEF RowFor
    <3>1. /\ RowFor(l).content = LastChunk(texts[l])
          /\ RowFor(l).sourceHash = IF l \in Offered(docs) THEN texts[l] ELSE TheSource
      BY <1>3 DEF RowFor
    <3>2. StemsFrom(LastChunk(texts[l]), texts[l].from, texts[l].version)
      BY <1>2, LastChunkType
    <3>3. QED
      BY <1>2, <1>3, <3>1, <3>2 DEF StemsFrom
  <2>3. QED
    BY <2>1, <2>2 DEF RowsAgree, TransactionAgrees, InTransaction
<1>11. \A m \in Written' : txn'.rows[m].hash = texts[m]
  <2>1. \A m \in Langs : txn'.rows[m] = IF m = l THEN RowFor(l) ELSE txn.rows[m]
    BY DEF TypeOK, Database
  <2>2. RowFor(l).hash = texts[l]
    BY DEF RowFor
  <2>3. \A m \in Written : m \in Langs /\ txn.rows[m].hash = texts[m]
    BY DEF TransactionAgrees, InTransaction, Written, ToStore
  <2>4. QED
    BY <1>5, <2>1, <2>2, <2>3
<1>12. TransactionAgrees'
  BY <1>1, <1>2, <1>6, <1>10, <1>11 DEF TransactionAgrees, InTransaction
<1>13. QED
  BY <1>8, <1>9, <1>12, SameDb

LEMMA MarkCompleteIInv == ASSUME IInv, MarkComplete PROVE IInv'
<1> USE DEF IInv, MarkComplete
<1>1. ToStore' = ToStore /\ Written' = Written /\ Written = ToStore
  BY DEF ToStore, Written, TransactionAgrees
<1>2. txn.chunks = ChunksOfAll(texts, ToStore)
  BY <1>1 DEF TransactionAgrees, InTransaction
<1>3. txn'.count = Cardinality(txn'.chunks) /\ txn'.complete /\ txn'.exists
  BY <1>2 DEF TransactionAgrees, TypeOK, Database
<1>4. txn' \in Database
  <2>1. ToStore = {m \in ToStore : texts[m] # NoText} /\ ToStore \in SUBSET Langs
    BY DEF ToStore
  <2>2. IsFiniteSet(ChunksOfAll(texts, ToStore))
    BY <2>1, FiniteChunks DEF TypeOK
  <2>3. Cardinality(ChunksOfAll(texts, ToStore)) \in Nat
    BY <2>2, FS_CardinalityType
  <2>4. QED
    BY <2>3 DEF TypeOK, Database
<1>5. TypeOK'
  BY <1>4 DEF TypeOK, InTransaction
<1>6. RowsAgree(existing)' /\ TextsAgree'
  BY <1>1 DEF RowsAgree, TextsAgree, Working
<1>7. TransactionAgrees'
  <2>1. txn'.chunks = txn.chunks /\ txn'.rows = txn.rows
    BY DEF TypeOK, Database
  <2>2. RowsAgree(txn)'
    BY <2>1 DEF RowsAgree, TransactionAgrees, InTransaction
  <2>3. QED
    BY <1>1, <1>3, <2>1, <2>2 DEF TransactionAgrees, InTransaction
<1>8. QED
  BY <1>5, <1>6, <1>7, SameDb

\* What a transaction that may commit has written.
LEMMA CommittedChunks ==
  ASSUME IInv, pc = "commit"
  PROVE  /\ txn.chunks = ChunksOfAll(texts, ToStore)
         /\ \A l \in ToStore :
              {c \in txn.chunks : c.lang = l} = ChunksOf(l, texts[l]) /\ txn.rows[l].hash = texts[l]
         /\ \A l \in Langs \ ToStore : {c \in txn.chunks : c.lang = l} = {}
<1>1. txn.chunks = ChunksOfAll(texts, ToStore) /\ \A l \in ToStore : txn.rows[l].hash = texts[l]
  BY DEF IInv, TransactionAgrees, InTransaction, Written
<1>2. \A c \in txn.chunks : c.lang \in ToStore /\ c \in ChunksOf(c.lang, texts[c.lang])
  BY <1>1 DEF ChunksOfAll, ChunksOf
<1>3. \A l \in ToStore : ChunksOf(l, texts[l]) \subseteq txn.chunks
  BY <1>1 DEF ChunksOfAll
<1>4. \A l \in ToStore : \A c \in ChunksOf(l, texts[l]) : c.lang = l
  BY DEF ChunksOf
<1>5. QED
  BY <1>1, <1>2, <1>3, <1>4

LEMMA CommitIInv == ASSUME IInv, Commit PROVE IInv'
<1> USE DEF IInv, Commit
<1>1. db' = txn /\ txn \in Database
  BY DEF TypeOK
<1>2. \A l \in Langs : StoredIn(l)' = {c \in txn.chunks : c.lang = l}
  BY <1>1 DEF StoredIn
<1>3. RowsAgree(db)'
  BY <1>1 DEF RowsAgree, TransactionAgrees, InTransaction
<1>4. CommittedIsWhole'
  <2>1. db'.complete /\ db'.count = Cardinality(db'.chunks)
    BY <1>1 DEF TransactionAgrees
  <2>2. \A l \in Langs : StoredIn(l)' \in {{}, ChunksOf(l, db'.rows[l].hash)}
    BY <1>1, <1>2, CommittedChunks DEF ToStore
  <2>3. QED
    BY <2>1, <2>2 DEF CommittedIsWhole
<1>5. TranslationsFollowSource'
  <2> SUFFICES ASSUME NEW c \in txn.chunks, c.text.from # c.lang
      PROVE  {k \in txn.chunks : k.lang = c.text.from}
               = ChunksOf(c.text.from, SourceText(c.text.from, c.text.version))
    BY <1>1 DEF TranslationsFollowSource, StoredIn
  <2> DEFINE s == PickSource(docs)
  <2>1. docs \in Corpora /\ s \in Offered(docs)
    BY PickSourceOffered DEF TextsAgree
  <2>2. s \in Langs /\ docs[s] \in Versions /\ s \in ToStore
    BY <2>1, OfferedVersions, ToStoreNotEmpty DEF Working
  <2>3. PICK l \in ToStore : c.lang = l /\ c.text = texts[l]
    BY CommittedChunks DEF ChunksOfAll, ChunksOf
  <2>4. l \notin Offered(docs)
    BY <2>1, <2>3, SourceTextType, OfferedVersions DEF TextsAgree, Working, StemsFrom
  <2>5. texts[l].from = s /\ texts[l].version = docs[s]
    BY <2>3, <2>4 DEF TextsAgree, Working, Translation, StemsFrom, ToStore
  <2>6. texts[s] = SourceText(s, docs[s])
    BY <2>1 DEF TextsAgree, Working
  <2>7. {k \in txn.chunks : k.lang = s} = ChunksOf(s, texts[s])
    BY <2>2, CommittedChunks
  <2>8. QED
    BY <2>3, <2>5, <2>6, <2>7
<1>6. QED
  BY <1>1, <1>3, <1>4, <1>5, ExitKeeps

-----------------------------------------------------------------------------
(* The invariant is inductive.                                             *)

LEMMA NextIInv == IInv /\ [Next]_vars => IInv'
<1> SUFFICES ASSUME IInv, [Next]_vars PROVE IInv'
  OBVIOUS
<1>1. CASE CorpusChanges
  BY <1>1, CorpusChangesIInv
<1>2. ASSUME NEW m \in Modes, BeginRun(m) PROVE IInv'
  BY <1>2, BeginRunIInv
<1>3. CASE RunStep
  BY <1>3, SkipOrAbortIInv, ProcessDocumentIInv, ReuseTranslationIInv, TranslateDocumentIInv,
     TranslationsDoneIInv, BeginTransactionIInv, WriteLanguageIInv, MarkCompleteIInv, CommitIInv
  DEF RunStep
<1>4. CASE AbortRun
  BY <1>4, SkipOrAbortIInv
<1>5. CASE UNCHANGED vars
  <2>1. TypeOK' /\ RowsAgree(existing)'
    BY <1>5 DEF vars, IInv, TypeOK, RowsAgree
  <2>2. TextsAgree' /\ TransactionAgrees'
    BY <1>5 DEF vars, IInv, TextsAgree, TransactionAgrees, Written, ToStore, RowsAgree
  <2>3. QED
    BY <1>5, <2>1, <2>2, SameDb DEF vars, IInv
<1>6. QED
  BY <1>1, <1>2, <1>3, <1>4, <1>5 DEF Next

LEMMA SpecIInv == Spec => []IInv
<1> QED
  BY InitIInv, NextIInv, PTL DEF Spec

(* Type correctness; with it, that no transaction outlives its run.        *)
THEOREM TypeCorrect == Spec => []TypeOK
<1> QED
  BY SpecIInv, PTL DEF IInv

(* Readers always find one whole write of the document, whatever the runs  *)
(* that failed or were killed.                                             *)
THEOREM AlwaysWhole == Spec => []CommittedIsWhole
<1> QED
  BY SpecIInv, PTL DEF IInv

(* Machine translations are of the source text stored with them.           *)
THEOREM NeverStaleTranslation == Spec => []TranslationsFollowSource
<1> QED
  BY SpecIInv, PTL DEF IInv

-----------------------------------------------------------------------------
(* Skipping, when the corpus always offers one same language.              *)

\* If the common language is ready, the last commit was of an llm run, and so
\* of every language; a dated document's fingerprint tells its text.
AllStored(common, d) ==
  d.exists =>
    /\ d.rows[common].status = "ready" =>
         \A l \in Langs : /\ {c \in d.chunks : c.lang = l} = ChunksOf(l, d.rows[l].hash)
                          /\ d.rows[l].hash \in Text
    /\ d.fingerprint # 0 => d.rows[common].hash = SourceText(common, d.fingerprint)

WrittenRows ==
  pc \in InTransaction /\ Written # {} =>
    /\ \A l \in Written : txn.rows[l].status = IF mode = "llm" THEN "ready" ELSE ""
    /\ txn.fingerprint = Fingerprint(docs)

SkipInv(common) == AllStored(common, db) /\ WrittenRows

LEMMA CommitAllStored ==
  ASSUME NEW common \in Langs, \A S \in SourceSets : common \in S,
         IInv, SkipInv(common), Commit
  PROVE  AllStored(common, db)'
<1> USE DEF IInv
<1>1. docs \in Corpora /\ common \in Offered(docs)
  BY DEF TextsAgree, Commit, Corpora
<1>2. common \in ToStore /\ Written = ToStore /\ pc = "commit" /\ db' = txn
  BY <1>1, ToStoreNotEmpty DEF Commit, Working, Written, TransactionAgrees
<1>3. txn.rows[common].status = "ready" => mode = "llm"
  BY <1>2 DEF SkipInv, WrittenRows, InTransaction
<1>4. ASSUME mode = "llm", NEW l \in Langs
      PROVE  {c \in txn.chunks : c.lang = l} = ChunksOf(l, txn.rows[l].hash) /\ txn.rows[l].hash \in Text
  <2>1. l \in ToStore
    BY <1>2, <1>4 DEF TextsAgree
  <2>2. texts[l] \in Text
    BY <2>1 DEF ToStore, TypeOK
  <2>3. QED
    BY <1>2, <2>1, <2>2, CommittedChunks
<1>5. ASSUME txn.fingerprint # 0 PROVE txn.rows[common].hash = SourceText(common, txn.fingerprint)
  <2>1. txn.fingerprint = Fingerprint(docs)
    BY <1>2 DEF SkipInv, WrittenRows, InTransaction
  <2>2. PickSource(docs) = common
    BY <1>1, <1>5, <2>1 DEF Fingerprint, IsDated
  <2>3. txn.fingerprint = docs[common]
    BY <1>5, <2>1, <2>2 DEF Fingerprint
  <2>4. texts[common] = SourceText(common, docs[common])
    BY <1>1, <1>2 DEF TextsAgree, Working
  <2>5. QED
    BY <1>2, <2>3, <2>4, CommittedChunks
<1>6. QED
  BY <1>2, <1>3, <1>4, <1>5 DEF AllStored

LEMMA NextWrittenRows == ASSUME IInv, WrittenRows, [Next]_vars PROVE WrittenRows'
<1>1. CASE BeginTransaction
  BY <1>1 DEF BeginTransaction, WrittenRows, Written, ToStore
<1>2. ASSUME NEW l \in Langs, WriteLanguage(l) PROVE WrittenRows'
  <2>1. Written' \subseteq Written \cup {l} /\ Written \subseteq Langs /\ pc = "write"
    BY <1>2 DEF WriteLanguage, Written, ToStore
  <2>2. \A k \in Langs : txn'.rows[k] = IF k = l THEN RowFor(l) ELSE txn.rows[k]
    BY <1>2 DEF WriteLanguage, IInv, TypeOK, Database
  <2>3. RowFor(l).status = IF mode = "llm" THEN "ready" ELSE ""
    BY DEF RowFor
  <2>4. txn'.fingerprint = Fingerprint(docs) /\ docs' = docs /\ mode' = mode
    BY <1>2 DEF WriteLanguage
  <2>5. ASSUME NEW k \in Written' PROVE txn'.rows[k].status = IF mode = "llm" THEN "ready" ELSE ""
    <3>1. CASE k = l
      BY <2>1, <2>2, <2>3, <3>1
    <3>2. CASE k # l
      BY <2>1, <2>2, <3>2 DEF WrittenRows, InTransaction
    <3>3. QED
      BY <3>1, <3>2
  <2>6. Fingerprint(docs)' = Fingerprint(docs)
    BY <2>4 DEF Fingerprint, IsDated, PickSource, Offered
  <2>7. QED
    BY <2>4, <2>5, <2>6 DEF WrittenRows
<1>3. CASE MarkComplete
  <2>1. txn'.rows = txn.rows /\ txn'.fingerprint = txn.fingerprint
    BY <1>3 DEF MarkComplete, IInv, TypeOK, Database
  <2>2. QED
    BY <1>3, <2>1 DEF MarkComplete, WrittenRows, Written, ToStore, InTransaction, Fingerprint, IsDated,
       PickSource, Offered
<1>4. CASE CorpusChanges \/ UNCHANGED vars
  BY <1>4 DEF CorpusChanges, vars, WrittenRows, Written, ToStore, Fingerprint, IsDated, PickSource, Offered
<1>5. ASSUME pc' \notin InTransaction PROVE WrittenRows'
  BY <1>5 DEF WrittenRows
<1>6. CASE (\E m \in Modes : BeginRun(m)) \/ AbortRun \/ SkipDocument \/ ProcessDocument
           \/ TranslationsDone \/ Commit
           \/ (\E l \in Langs : ReuseTranslation(l) \/ TranslateDocument(l))
  BY <1>5, <1>6 DEF BeginRun, AbortRun, SkipDocument, ProcessDocument, TranslationsDone, Commit,
     Exit, ReuseTranslation, TranslateDocument, InTransaction
<1>7. QED
  BY <1>1, <1>2, <1>3, <1>4, <1>6 DEF Next, RunStep

LEMMA SkipInvImplies ==
  ASSUME NEW common \in Langs, \A S \in SourceSets : common \in S,
         IInv, SkipInv(common)
  PROVE  SkippedIsIndexed
<1> SUFFICES ASSUME NEW m \in Modes, ShouldSkip(corpus, db, m) PROVE Indexed(m)
  BY DEF SkippedIsIndexed
<1>1. corpus \in Corpora /\ common \in Offered(corpus) /\ Offered(corpus) \subseteq Langs
  BY DEF IInv, TypeOK, Corpora, Offered
<1>2. common \in RequiredLanguages(corpus, m) /\ RequiredLanguages(corpus, m) \subseteq Langs
  BY <1>1 DEF RequiredLanguages
<1>3. db.exists /\ db.complete /\ db.rows[common].status = "ready"
  BY <1>2 DEF ShouldSkip
<1>4. \A l \in Langs : StoredIn(l) = ChunksOf(l, db.rows[l].hash) /\ db.rows[l].hash \in Text
  BY <1>3 DEF SkipInv, AllStored, StoredIn
<1>5. \A l \in Langs : StoredIn(l) # {}
  <2> SUFFICES ASSUME NEW l \in Langs PROVE StoredIn(l) # {}
    OBVIOUS
  <2>1. 1 \in 1..db.rows[l].hash.pieces
    BY <1>4, PiecesAssumption DEF Text, PiecesAssumption
  <2>2. [lang |-> l, part |-> 1, text |-> db.rows[l].hash] \in ChunksOf(l, db.rows[l].hash)
    BY <2>1 DEF ChunksOf
  <2>3. QED
    BY <1>4, <2>2
<1>6. \A l \in Offered(corpus) : db.rows[l].hash = SourceText(l, corpus[l])
  <2>1. CASE FallbackContentHashesMatch(corpus, db)
    BY <2>1 DEF FallbackContentHashesMatch
  <2>2. CASE SourceFingerprintMatches(corpus, db)
    <3>1. IsDated(corpus) /\ db.fingerprint # 0 /\ db.fingerprint = corpus[PickSource(corpus)]
      BY <2>2 DEF SourceFingerprintMatches, Fingerprint
    <3>2. PickSource(corpus) = common /\ Offered(corpus) = {common}
      BY <1>1, <3>1 DEF IsDated
    <3>3. QED
      BY <1>3, <3>1, <3>2 DEF SkipInv, AllStored
  <2>3. QED
    BY <2>1, <2>2 DEF ShouldSkip
<1>7. QED
  BY <1>1, <1>2, <1>3, <1>4, <1>5, <1>6 DEF Indexed

(* A run skips nothing that is not indexed as it is now, when there is a   *)
(* language the corpus always has the document in.  Without one it may:    *)
(* the rows of the languages that left are never removed, and their hashes *)
(* can match a text that comes back.                                       *)
THEOREM SkipIsSound ==
  ASSUME NEW common \in Langs, \A S \in SourceSets : common \in S
  PROVE  Spec => []SkippedIsIndexed
<1>1. Init => SkipInv(common)
  <2> SUFFICES ASSUME Init PROVE SkipInv(common)
    OBVIOUS
  <2>1. ~db.exists
    BY DEF Init, EmptyDb
  <2>2. pc \notin InTransaction
    BY DEF Init, InTransaction
  <2>3. QED
    BY <2>1, <2>2 DEF SkipInv, AllStored, WrittenRows
<1>2. IInv /\ SkipInv(common) /\ [Next]_vars => SkipInv(common)'
  <2> SUFFICES ASSUME IInv, SkipInv(common), [Next]_vars PROVE SkipInv(common)'
    OBVIOUS
  <2>1. WrittenRows'
    BY NextWrittenRows DEF SkipInv
  <2>2. CASE Commit
    BY <2>1, <2>2, CommitAllStored DEF SkipInv
  <2>3. CASE UNCHANGED db
    BY <2>1, <2>3 DEF SkipInv, AllStored
  <2>4. QED
    BY <2>2, <2>3 DEF Next, vars, RunStep, CorpusChanges, BeginRun, SkipDocument, ProcessDocument,
       ReuseTranslation, TranslateDocument, TranslationsDone, BeginTransaction, WriteLanguage,
       MarkComplete, AbortRun
<1>3. IInv /\ SkipInv(common) => SkippedIsIndexed
  BY SkipInvImplies
<1>4. QED
  BY <1>1, <1>2, <1>3, SpecIInv, PTL DEF Spec

-----------------------------------------------------------------------------
(* Whole texts.                                                            *)

LEMMA OriginalsWholeStep ==
  ASSUME IInv, OriginalsAreWhole, [Next]_vars PROVE OriginalsAreWhole'
<1>1. CASE Commit
  <2> SUFFICES ASSUME NEW c \in txn.chunks, c.text.from = c.lang PROVE c.text.whole
    BY <1>1 DEF Commit, OriginalsAreWhole
  <2>1. pc = "commit" /\ docs \in Corpora
    BY <1>1 DEF Commit, IInv, TextsAgree
  <2>2. PICK l \in ToStore : c.lang = l /\ c.text = texts[l]
    BY <2>1, CommittedChunks DEF ChunksOfAll, ChunksOf
  <2>3. CASE l \in Offered(docs)
    <3>1. texts[l] = SourceText(l, docs[l])
      BY <2>1, <2>3 DEF IInv, TextsAgree, Working
    <3>2. QED
      BY <2>2, <3>1 DEF SourceText
  <2>4. CASE l \notin Offered(docs)
    <3>1. texts[l].from = PickSource(docs)
      BY <2>1, <2>2, <2>4 DEF IInv, TextsAgree, Working, Translation, StemsFrom, ToStore
    <3>2. QED
      BY <2>1, <2>2, <2>4, <3>1, PickSourceOffered
  <2>5. QED
    BY <2>3, <2>4
<1>2. CASE UNCHANGED db
  BY <1>2 DEF OriginalsAreWhole
<1>3. QED
  BY <1>1, <1>2 DEF Next, vars, RunStep, CorpusChanges, BeginRun, SkipDocument, ProcessDocument,
     ReuseTranslation, TranslateDocument, TranslationsDone, BeginTransaction, WriteLanguage,
     MarkComplete, AbortRun

(* The texts of the corpus are stored whole, whatever was kept of earlier  *)
(* translations into their languages: only translations are cut short.     *)
THEOREM OriginalsStayWhole == Spec => []OriginalsAreWhole
<1>1. Init => OriginalsAreWhole
  <2>1. EmptyDb.chunks = {}
    BY DEF EmptyDb
  <2>2. QED
    BY <2>1 DEF Init, OriginalsAreWhole
<1>2. IInv /\ OriginalsAreWhole /\ [Next]_vars => OriginalsAreWhole'
  BY OriginalsWholeStep
<1>3. QED
  BY <1>1, <1>2, SpecIInv, PTL DEF Spec

\* All that is stored, loaded or about to be stored is whole.
WholeDb(d) == /\ \A c \in d.chunks : c.text.whole
              /\ \A l \in Langs : d.rows[l].status = "ready" => d.rows[l].content.whole
WholeInv == /\ WholeDb(db) /\ WholeDb(existing) /\ WholeDb(txn)
            /\ \A l \in Langs : texts[l] = NoText \/ texts[l].whole

LEMMA WholeExit == ASSUME Exit, WholeDb(db)' PROVE WholeInv'
<1>1. WholeDb(EmptyDb)
  BY DEF WholeDb, EmptyDb, NoRow
<1>2. WholeDb(existing)' /\ WholeDb(txn)'
  BY <1>1 DEF Exit, WholeDb
<1>3. QED
  BY <1>2 DEF Exit, WholeInv, NoTexts

LEMMA WholeWrite ==
  ASSUME MaxPieces = 1, IInv, WholeInv, NEW l \in Langs, WriteLanguage(l) PROVE WholeInv'
<1>1. l \in ToStore /\ texts[l] \in Text /\ texts[l].whole
  BY DEF IInv, TypeOK, TransactionAgrees, InTransaction, NextOf, WriteLanguage, WholeInv, ToStore
<1>2. LastChunk(texts[l]) = texts[l]
  BY <1>1 DEF LastChunk, Text
<1>3. \A c \in txn'.chunks : c.text.whole
  BY <1>1 DEF WriteLanguage, WholeInv, WholeDb, ChunksOf
<1>4. \A k \in Langs : txn'.rows[k] = IF k = l THEN RowFor(l) ELSE txn.rows[k]
  BY DEF WriteLanguage, IInv, TypeOK, Database
<1>5. RowFor(l).content = texts[l]
  BY <1>2 DEF RowFor
<1>6. WholeDb(txn)'
  BY <1>1, <1>3, <1>4, <1>5 DEF WholeInv, WholeDb
<1>7. QED
  BY <1>6 DEF WriteLanguage, WholeInv, WholeDb

LEMMA WholeStep ==
  ASSUME MaxPieces = 1, IInv, WholeInv, [Next]_vars PROVE WholeInv'
<1>1. CASE SkipDocument \/ AbortRun \/ Commit
  BY <1>1, WholeExit DEF SkipDocument, AbortRun, Commit, WholeInv, WholeDb
<1>2. CASE CorpusChanges \/ TranslationsDone \/ UNCHANGED vars \/ \E m \in Modes : BeginRun(m)
  BY <1>2 DEF CorpusChanges, TranslationsDone, vars, BeginRun, WholeInv, WholeDb
<1>3. CASE ProcessDocument
  <2>1. \A l \in Langs : texts'[l] = NoText \/ texts'[l].whole
    BY <1>3 DEF ProcessDocument, SourceTexts, SourceText
  <2>2. QED
    BY <1>3, <2>1 DEF ProcessDocument, WholeInv, WholeDb
<1>4. ASSUME NEW l \in Langs, ReuseTranslation(l) PROVE WholeInv'
  <2>1. existing.rows[l].content.whole
    BY <1>4 DEF ReuseTranslation, Reusable, WholeInv, WholeDb
  <2>2. \A k \in Langs : texts'[k] = IF k = l THEN existing.rows[l].content ELSE texts[k]
    BY <1>4 DEF ReuseTranslation, IInv, TypeOK
  <2>3. QED
    BY <1>4, <2>1, <2>2 DEF ReuseTranslation, WholeInv, WholeDb
<1>5. ASSUME NEW l \in Langs, TranslateDocument(l) PROVE WholeInv'
  <2>1. PICK n \in 1..MaxPieces : texts' = [texts EXCEPT ![l] = [TheSource EXCEPT !.pieces = n]]
    BY <1>5 DEF TranslateDocument
  <2>2. [TheSource EXCEPT !.pieces = n].whole
    BY DEF TheSource, SourceText
  <2>3. \A k \in Langs : texts'[k] = IF k = l THEN [TheSource EXCEPT !.pieces = n] ELSE texts[k]
    BY <2>1 DEF IInv, TypeOK
  <2>4. QED
    BY <1>5, <2>2, <2>3 DEF TranslateDocument, WholeInv, WholeDb
<1>6. CASE BeginTransaction
  <2>1. txn'.chunks = {} /\ txn'.rows = db.rows
    BY <1>6 DEF BeginTransaction, IInv, TypeOK, Database
  <2>2. QED
    BY <1>6, <2>1 DEF BeginTransaction, WholeInv, WholeDb
<1>7. CASE MarkComplete
  <2>1. txn'.chunks = txn.chunks /\ txn'.rows = txn.rows
    BY <1>7 DEF MarkComplete, IInv, TypeOK, Database
  <2>2. QED
    BY <1>7, <2>1 DEF MarkComplete, WholeInv, WholeDb
<1>8. QED
  BY <1>1, <1>2, <1>3, <1>4, <1>5, <1>6, <1>7, WholeWrite DEF Next, RunStep

(* When every text makes a single chunk, nothing is lost in reuse: all     *)
(* that is stored is whole.  Texts of more chunks are what breaks it, not  *)
(* changes, other languages, modes or failures.                            *)
THEOREM ShortTextsStayWhole == ASSUME MaxPieces = 1 PROVE Spec => []WholeTextsStored
<1>1. Init => WholeInv
  <2>1. WholeDb(EmptyDb) /\ \A l \in Langs : NoTexts[l] = NoText
    BY DEF WholeDb, EmptyDb, NoRow, NoTexts
  <2>2. QED
    BY <2>1 DEF Init, WholeInv
<1>2. IInv /\ WholeInv /\ [Next]_vars => WholeInv'
  BY WholeStep
<1>3. WholeInv => WholeTextsStored
  BY DEF WholeInv, WholeDb, WholeTextsStored
<1>4. QED
  BY <1>1, <1>2, <1>3, SpecIInv, PTL DEF Spec
=============================================================================
