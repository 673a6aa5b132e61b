------------------------- MODULE ConcurrentIndexers -------------------------
(***************************************************************************)
(* Index runs that write at the same time: the workers of one "rag-cli     *)
(* index", and the pods of one job, each of them with a transaction of     *)
(* upsertDocumentChunks (backend/internal/rag/store.go) open.  The chart   *)
(* starts two pods of four workers each (values.yaml, job.parallelism).    *)
(*                                                                         *)
(* The transaction is the default one of PostgreSQL, READ COMMITTED: each  *)
(* statement sees what is committed when it starts, waits for the rows     *)
(* that another transaction has touched, and an upsert also meets rows it  *)
(* cannot see.  A cycle of waits is ended by the database, which makes the *)
(* statement of one of them fail.                                          *)
(*                                                                         *)
(* Each run has read its own text of a document, so a run is also the name *)
(* of a text; Old is the text that was indexed before.  A text has a       *)
(* number of chunks and a list of intervenants.                            *)
(***************************************************************************)
EXTENDS Naturals, Sequences, FiniteSets

CONSTANTS Docs, People, Runs, Workers,
          RunOf,  \* the run of each worker
          Corpus, \* [Runs -> SUBSET Docs]: the documents that a run has to index
          Parts,  \* [Docs -> [Texts -> Nat]]: the chunks of a text
          Lists,  \* [Docs -> [Texts -> Seq(People)]]: Chunk.Intervenants, without repeats
          Old, None

Texts == Runs \cup {Old}

ASSUME NamesAssumption == None \notin Docs /\ IsFiniteSet(Runs)
ASSUME RunOfAssumption == RunOf \in [Workers -> Runs]
ASSUME CorpusAssumption == Corpus \in [Runs -> SUBSET Docs]
ASSUME PartsAssumption == Parts \in [Docs -> [Texts -> Nat \ {0}]]
ASSUME ListsAssumption == Lists \in [Docs -> [Texts -> Seq(People)]]

AllParts == UNION {1..Parts[d][t] : d \in Docs, t \in Texts}
AllPlaces == UNION {DOMAIN Lists[d][t] : d \in Docs, t \in Texts}

\* What a transaction may hold.
ChunkRow(d, k) == <<"chunk", d, k>>
LinkRow(d, p) == <<"link", d, p>>
DocumentRow(d) == <<"document", d>>
PersonRow(p) == <<"person", p>>

Rows == {ChunkRow(d, k) : d \in Docs, k \in AllParts} \cup {LinkRow(d, p) : d \in Docs, p \in People}

\* Each intervenant and its link.
PersonWrites(d, t) == [i \in 1..(2 * Len(Lists[d][t])) |->
  IF i % 2 = 1 THEN PersonRow(Lists[d][t][(i + 1) \div 2])
               ELSE LinkRow(d, Lists[d][t][i \div 2])]

\* Mutant: the row of the document is written after the first intervenant.
WritesDocumentLate == [d \in Docs |-> [t \in Texts |->
  LET persons == PersonWrites(d, t)
  IN  (IF persons = <<>> THEN <<DocumentRow(d)>>
       ELSE SubSeq(persons, 1, 2) \o <<DocumentRow(d)>> \o SubSeq(persons, 3, Len(persons)))
        \o [k \in 1..Parts[d][t] |-> ChunkRow(d, k)]]]

(***************************************************************************)
(* The writes of the loop over the chunks, by what they may wait for: the  *)
(* document, each intervenant with its link, the chunk.  From the second   *)
(* chunk on the transaction has all but the chunk.  What it writes on the  *)
(* translation is under the row of the document.                           *)
(***************************************************************************)
Writes == [d \in Docs |-> [t \in Texts |->
  <<DocumentRow(d)>> \o PersonWrites(d, t) \o [k \in 1..Parts[d][t] |-> ChunkRow(d, k)]]]

VARIABLES chunks,    \* the committed chunks: the text each part is from
          links,     \* the committed links: the order_index of each person, 0 for none
          count,     \* documents.indexed_chunk_count, 0 for no row
          todo,      \* the documents that no worker of the run has taken
          failed,    \* runs whose shared context is canceled
          doc,       \* the document of each worker's transaction
          stage,     \* where the transaction is
          target,    \* the rows that its DELETE has found
          deleted,   \* the rows that its DELETEs have taken
          done,      \* how many of its writes it has done
          met,       \* history: the runs it has overlapped with on its document
          hadLinks   \* history: its first DELETE found links

db == <<chunks, links, count>>
vars == <<chunks, links, count, todo, failed, doc, stage, target, deleted, done, met, hadLinks>>

Stages == {"idle", "links", "between", "chunks", "write"}

TypeOK == /\ chunks \in [Docs -> [AllParts -> Texts \cup {None}]]
          /\ links \in [Docs -> [People -> AllPlaces \cup {0}]]
          /\ count \in [Docs -> AllParts \cup {0}]
          /\ todo \in [Runs -> SUBSET Docs]
          /\ failed \subseteq Runs
          /\ doc \in [Workers -> Docs \cup {None}]
          /\ stage \in [Workers -> Stages]
          /\ target \in [Workers -> SUBSET Rows]
          /\ deleted \in [Workers -> SUBSET Rows]
          /\ done \in [Workers -> Nat]
          /\ met \in [Workers -> SUBSET Runs]
          /\ \A w \in Workers :
               /\ done[w] <= IF doc[w] = None THEN 0 ELSE Len(Writes[doc[w]][RunOf[w]])
               /\ doc[w] = None <=> stage[w] = "idle"
          /\ hadLinks \in [Workers -> BOOLEAN]

\* The text of run r, or the old one, and nothing else.
ChunksOf(d, t) == [k \in AllParts |-> IF k <= Parts[d][t] THEN t ELSE None]
LinksOf(d, t) == [p \in People |->
  IF \E i \in DOMAIN Lists[d][t] : Lists[d][t][i] = p
  THEN CHOOSE i \in DOMAIN Lists[d][t] : Lists[d][t][i] = p
  ELSE 0]

Init == /\ \E indexed \in SUBSET Docs :
             /\ chunks = [d \in Docs |-> IF d \in indexed THEN ChunksOf(d, Old)
                                         ELSE [k \in AllParts |-> None]]
             /\ links = [d \in Docs |-> IF d \in indexed THEN LinksOf(d, Old)
                                        ELSE [p \in People |-> 0]]
             /\ count = [d \in Docs |-> IF d \in indexed THEN Parts[d][Old] ELSE 0]
        /\ todo = Corpus
        /\ failed = {}
        /\ doc = [w \in Workers |-> None]
        /\ stage = [w \in Workers |-> "idle"]
        /\ target = [w \in Workers |-> {}]
        /\ deleted = [w \in Workers |-> {}]
        /\ done = [w \in Workers |-> 0]
        /\ met = [w \in Workers |-> {}]
        /\ hadLinks = [w \in Workers |-> FALSE]

-----------------------------------------------------------------------------
(* The rows of a transaction, and who waits for whom.                      *)

List(w) == Lists[doc[w]][RunOf[w]]

WritesOf(w) == Writes[doc[w]][RunOf[w]]

Holds(w, row) == row \in deleted[w] \/ \E i \in 1..done[w] : WritesOf(w)[i] = row

Wanted(w) == IF stage[w] \in {"links", "chunks"} THEN target[w]
             ELSE IF stage[w] = "write" /\ done[w] < Len(WritesOf(w))
             THEN {WritesOf(w)[done[w] + 1]}
             ELSE {}

Open == {w \in Workers : stage[w] # "idle"}

WaitsFor(w, u) == w # u /\ \E row \in Wanted(w) : Holds(u, row)

IsFree(w) == \A u \in Open : ~WaitsFor(w, u)

\* w waits, directly or not, for itself: it is in every set that has those it waits
\* for and those that its members wait for.
InCycle(w) ==
  LET waits == {e \in Open \X Open : WaitsFor(e[1], e[2])}
  IN  /\ w \in Open
      /\ ~IsFree(w)
      /\ \A S \in SUBSET Open : (\A e \in waits : e[1] \in S \cup {w} => e[2] \in S) => w \in S

-----------------------------------------------------------------------------
(* The transaction.                                                        *)

\* The worker takes a document; the DELETE of the links sees the committed ones.
Begin(w, d) ==
  LET r == RunOf[w]
      others == {u \in Open : doc[u] = d}
  IN  /\ stage[w] = "idle"
      /\ r \notin failed
      /\ d \in todo[r]
      /\ todo' = [todo EXCEPT ![r] = @ \ {d}]
      /\ doc' = [doc EXCEPT ![w] = d]
      /\ stage' = [stage EXCEPT ![w] = "links"]
      /\ target' = [target EXCEPT ![w] = {LinkRow(d, p) : p \in {q \in People : links[d][q] # 0}}]
      /\ hadLinks' = [hadLinks EXCEPT ![w] = target'[w] # {}]
      /\ met' = [u \in Workers |->
           IF u = w THEN UNION {{RunOf[x]} \cup met[x] : x \in others}
           ELSE IF u \in others THEN met[u] \cup {r}
           ELSE met[u]]
      /\ UNCHANGED <<db, failed, deleted, done>>

\* A DELETE visits the rows it has found in the order in which any other does: it
\* waits at the first, and then has them all.
Delete(w, at, after) ==
  /\ stage[w] = at
  /\ IsFree(w)
  /\ deleted' = [deleted EXCEPT ![w] = @ \cup target[w]]
  /\ target' = [target EXCEPT ![w] = {}]
  /\ stage' = [stage EXCEPT ![w] = after]
  /\ UNCHANGED <<db, todo, failed, doc, done, met, hadLinks>>

DeleteLinks(w) == Delete(w, "links", "between")

\* Mutant: the DELETE of the chunks is missing.
SeeNoChunks(w) ==
  /\ stage[w] = "between"
  /\ stage' = [stage EXCEPT ![w] = "chunks"]
  /\ UNCHANGED <<db, todo, failed, doc, target, deleted, done, met, hadLinks>>

\* The DELETE of the chunks sees the ones that are committed now.
SeeChunks(w) ==
  LET d == doc[w]
  IN  /\ stage[w] = "between"
      /\ target' = [target EXCEPT ![w] =
           {ChunkRow(d, k) : k \in {j \in AllParts : chunks[d][j] # None}}]
      /\ stage' = [stage EXCEPT ![w] = "chunks"]
      /\ UNCHANGED <<db, todo, failed, doc, deleted, done, met, hadLinks>>

DeleteChunks(w) == Delete(w, "chunks", "write")

\* The unique index on the document and the person of a link: a committed link of
\* that person at another place, which the DELETE did not see.
Clashes(w) ==
  LET d == doc[w]
      next == WritesOf(w)[done[w] + 1]
      own == LinksOf(d, RunOf[w])
  IN  \E p \in People : /\ next = LinkRow(d, p)
                        /\ LinkRow(d, p) \notin deleted[w]
                        /\ links[d][p] \notin {0, own[p]}

Write(w) ==
  /\ stage[w] = "write"
  /\ done[w] < Len(WritesOf(w))
  /\ IsFree(w)
  /\ ~Clashes(w)
  /\ done' = [done EXCEPT ![w] = @ + 1]
  /\ UNCHANGED <<db, todo, failed, doc, stage, target, deleted, met, hadLinks>>

-----------------------------------------------------------------------------
(* Its ends.                                                               *)

\* The transaction is over: who waits for rows that it deleted does not find them
\* any more, and finds the others as they are now.
Close(w, gone) ==
  /\ doc' = [doc EXCEPT ![w] = None]
  /\ stage' = [stage EXCEPT ![w] = "idle"]
  /\ target' = [u \in Workers |-> IF u = w THEN {} ELSE target[u] \ gone]
  /\ deleted' = [deleted EXCEPT ![w] = {}]
  /\ done' = [done EXCEPT ![w] = 0]
  /\ met' = [met EXCEPT ![w] = {}]
  /\ hadLinks' = [hadLinks EXCEPT ![w] = FALSE]

\* Mutant: the old chunks are deleted after the new ones are written.
CommitDeletesLast(w) ==
  LET d == doc[w]
      t == RunOf[w]
  IN  /\ stage[w] = "write"
      /\ done[w] = Len(WritesOf(w))
      /\ chunks' = [chunks EXCEPT ![d] = [k \in AllParts |->
           IF ChunkRow(d, k) \in deleted[w] THEN None
           ELSE IF k <= Parts[d][t] THEN t
           ELSE @[k]]]
      /\ links' = [links EXCEPT ![d] = LinksOf(d, t)]
      /\ count' = [count EXCEPT ![d] = Parts[d][t]]
      /\ Close(w, deleted[w])
      /\ UNCHANGED <<todo, failed>>

\* The row of the document gets its count, and all of it is seen at once.
Commit(w) ==
  LET d == doc[w]
      t == RunOf[w]
  IN  /\ stage[w] = "write"
      /\ done[w] = Len(WritesOf(w))
      /\ chunks' = [chunks EXCEPT ![d] = [k \in AllParts |->
           IF k <= Parts[d][t] THEN t
           ELSE IF ChunkRow(d, k) \in deleted[w] THEN None
           ELSE @[k]]]
      /\ links' = [links EXCEPT ![d] = [p \in People |->
           IF LinksOf(d, t)[p] # 0 THEN LinksOf(d, t)[p]
           ELSE IF LinkRow(d, p) \in deleted[w] THEN 0
           ELSE @[p]]]
      /\ count' = [count EXCEPT ![d] = Parts[d][t]]
      /\ Close(w, deleted[w])
      /\ UNCHANGED <<todo, failed>>

\* defer tx.Rollback().
Rollback(w) == Close(w, {})

\* Mutant: a document that failed is taken again, however often.
FailAndRetry(w) ==
  /\ Rollback(w)
  /\ todo' = [todo EXCEPT ![RunOf[w]] = @ \cup {doc[w]}]
  /\ UNCHANGED <<db, failed>>

\* A statement fails: the error cancels the context of the run.
Fail(w) ==
  /\ Rollback(w)
  /\ failed' = failed \cup {RunOf[w]}
  /\ UNCHANGED <<db, todo>>

\* The deadlock detector picks it.
DeadlockVictim(w) == InCycle(w) /\ Fail(w)

LinkClash(w) == /\ stage[w] = "write"
                /\ done[w] < Len(WritesOf(w))
                /\ IsFree(w)
                /\ Clashes(w)
                /\ Fail(w)

\* Any other fault: the connection, the disk, the pod.
Fault(w) == w \in Open /\ Fail(w)

\* The context was canceled by another worker of the run.
Canceled(w) == w \in Open /\ RunOf[w] \in failed /\ Fail(w)

Step(w) == \/ \E d \in Docs : Begin(w, d)
           \/ DeleteLinks(w) \/ SeeChunks(w) \/ DeleteChunks(w)
           \/ Write(w) \/ Commit(w)
           \/ DeadlockVictim(w) \/ LinkClash(w) \/ Canceled(w)

Next == \E w \in Workers : Step(w) \/ Fault(w)

Spec == Init /\ [][Next]_vars

(***************************************************************************)
(* Every worker goes on when it can, the database finds the deadlocks, and *)
(* a canceled transaction is rolled back.  A fault need not happen.        *)
(***************************************************************************)
Fairness == \A w \in Workers : WF_vars(Step(w))
FairSpec == Spec /\ Fairness

-----------------------------------------------------------------------------
(* Properties.                                                             *)

(***************************************************************************)
(* When a commit leaves no chunk of another text in the document, as the   *)
(* replacement in one transaction is meant to: no other writer overlapped, *)
(* or only one did and there were links to wait for.  (Two that overlap on *)
(* a document without links, or not indexed yet, may mix their texts: the  *)
(* later one's DELETE ran too early to see the chunks of the other.)       *)
(***************************************************************************)
ReplacesAll(w) ==
  LET d == doc[w]
  IN  met[w] = {} \/ (hadLinks[w] /\ Cardinality(met[w]) = 1)
        => chunks'[d] = ChunksOf(d, RunOf[w])

CommitReplacesAll == [][\A w \in Workers : Commit(w) => ReplacesAll(w)]_vars

(***************************************************************************)
(* The parts that the count of a document speaks of are all there, and of  *)
(* one text, whatever overlapped: the skip trusts the count.               *)
(***************************************************************************)
CountedPartsAgree ==
  \A d \in Docs : count[d] # 0 =>
    \E t \in Texts : count[d] = Parts[d][t] /\ \A k \in 1..count[d] : chunks[d][k] = t

\* p comes before q in the list of an open transaction.
Before(p, q) == \E w \in Open : \E i, j \in DOMAIN List(w) :
                  i < j /\ List(w)[i] = p /\ List(w)[j] = q

\* Lists that name the same people in orders that no one order agrees with.
ListsCross == \E S \in (SUBSET People) \ {{}} : \A p \in S : \E q \in S : Before(p, q)

(***************************************************************************)
(* Transactions wait for each other in a cycle only over intervenants that *)
(* their documents name in different orders, or when more than two runs    *)
(* are at one document: the row of the document comes first, and the       *)
(* others of it are under that row.                                        *)
(***************************************************************************)
DeadlockNeedsCrossing ==
  \A w \in Workers : InCycle(w) =>
    ListsCross \/ \E u \in Open : Cardinality(met[u]) > 1

(***************************************************************************)
(* Whatever waits for whom, every run comes to its end: its documents are  *)
(* all taken or it has failed, and no transaction is left.                 *)
(***************************************************************************)
RunsEnd == <>[](Open = {} /\ \A r \in Runs : todo[r] = {} \/ r \in failed)
=============================================================================
