---------------------- MODULE ConcurrentIndexersProofs ----------------------
(***************************************************************************)
(* Proofs about ConcurrentIndexers: for any number of runs, workers,       *)
(* documents and intervenants, transactions wait for each other in a cycle *)
(* only where DeadlockNeedsCrossing says so, the count of a document       *)
(* speaks of parts of one text, and a commit that overlapped with one      *)
(* other run at most, and had links, replaces all.                         *)
(*                                                                         *)
(* The argument about cycles has two halves.  Of two transactions at one   *)
(* document that have met nobody else, one holds nothing yet: this needs   *)
(* an invariant about what each has seen.  So who waits in a cycle, and is *)
(* waited for, waits for an intervenant, and holds those that come before  *)
(* it in its own list.                                                     *)
(***************************************************************************)
EXTENDS ConcurrentIndexers, FiniteSetTheorems, SequenceTheorems, TLAPS

IsPerson(row) == row[1] = "person"
IsOf(row, d) == row[1] # "person" /\ row[2] = d

-----------------------------------------------------------------------------
(* The writes of a transaction.                                            *)

LEMMA ListType ==
  ASSUME NEW d \in Docs, NEW t \in Texts
  PROVE  /\ Lists[d][t] \in Seq(People) /\ Len(Lists[d][t]) \in Nat
         /\ Parts[d][t] \in Nat \ {0}
         /\ DOMAIN Lists[d][t] = 1..Len(Lists[d][t])
BY ListsAssumption, PartsAssumption

LEMMA SequenceOf ==
  ASSUME NEW S, NEW n \in Nat, NEW f, f = [i \in 1..n |-> f[i]], \A i \in 1..n : f[i] \in S
  PROVE  f \in Seq(S) /\ Len(f) = n
OBVIOUS

LEMMA Concatenation ==
  ASSUME NEW S, NEW s \in Seq(S), NEW r \in Seq(S)
  PROVE  /\ s \o r \in Seq(S) /\ Len(s \o r) = Len(s) + Len(r)
         /\ \A i \in 1..Len(s) : (s \o r)[i] = s[i]
         /\ \A i \in 1..Len(r) : (s \o r)[Len(s) + i] = r[i]
<1>. DEFINE c == s \o r
<1>1. /\ c \in Seq(S) /\ Len(c) = Len(s) + Len(r)
      /\ \A i \in 1..Len(s) + Len(r) : c[i] = IF i <= Len(s) THEN s[i] ELSE r[i - Len(s)]
  BY ConcatProperties, Zenon
<1>2. Len(s) \in Nat /\ Len(r) \in Nat
  OBVIOUS
<1>. HIDE DEF c
<1>3. \A i \in 1..Len(s) : c[i] = s[i]
  BY <1>1, <1>2
<1>4. ASSUME NEW i \in 1..Len(r) PROVE c[Len(s) + i] = r[i]
  <2>1. /\ Len(s) + i \in 1..(Len(s) + Len(r)) /\ ~(Len(s) + i <= Len(s))
        /\ (Len(s) + i) - Len(s) = i
    BY <1>2
  <2>. QED
    BY <1>1, <2>1
<1>. QED
  BY <1>1, <1>3, <1>4 DEF c

LEMMA PersonRows ==
  ASSUME NEW d \in Docs, NEW t \in Texts, NEW i \in 1..(2 * Len(Lists[d][t]))
  PROVE  \/ \E j \in 1..Len(Lists[d][t]) :
              i + 1 = 2 * j /\ PersonWrites(d, t)[i] = PersonRow(Lists[d][t][j])
         \/ \E p : PersonWrites(d, t)[i] = LinkRow(d, p)
<1>1. Len(Lists[d][t]) \in Nat
  BY ListType
<1>2. CASE i % 2 = 1
  <2>1. (i + 1) \div 2 \in 1..Len(Lists[d][t]) /\ i + 1 = 2 * ((i + 1) \div 2)
    BY <1>1, <1>2
  <2>2. PersonWrites(d, t)[i] = PersonRow(Lists[d][t][(i + 1) \div 2])
    BY <1>2 DEF PersonWrites
  <2>. QED
    BY <2>1, <2>2
<1>3. CASE i % 2 # 1
  <2>1. PersonWrites(d, t)[i] = LinkRow(d, Lists[d][t][i \div 2])
    BY <1>3 DEF PersonWrites
  <2>. QED
    BY <2>1
<1>. QED
  BY <1>2, <1>3

LEMMA WritesShape ==
  ASSUME NEW d \in Docs, NEW t \in Texts
  PROVE  /\ Len(Writes[d][t]) \in Nat
         /\ \A i \in 1..Len(Writes[d][t]) :
              \/ \E j \in 1..Len(Lists[d][t]) :
                   i = 2 * j /\ Writes[d][t][i] = PersonRow(Lists[d][t][j])
              \/ \E p : Writes[d][t][i] = LinkRow(d, p)
              \/ \E k : Writes[d][t][i] = ChunkRow(d, k)
              \/ Writes[d][t][i] = DocumentRow(d)
         /\ Len(Writes[d][t]) >= 1 /\ Writes[d][t][1] = DocumentRow(d)
<1>. DEFINE n == 2 * Len(Lists[d][t])
            head == <<DocumentRow(d)>>
            persons == PersonWrites(d, t)
            parts == [k \in 1..Parts[d][t] |-> ChunkRow(d, k)]
            Any == {head[1]} \cup {persons[i] : i \in 1..n} \cup {parts[k] : k \in 1..Parts[d][t]}
<1>1. n \in Nat /\ Parts[d][t] \in Nat
  BY ListType
<1>2. persons \in Seq(Any) /\ Len(persons) = n
  <2>1. persons = [i \in 1..n |-> persons[i]] /\ \A i \in 1..n : persons[i] \in Any
    BY DEF PersonWrites
  <2>. HIDE DEF persons, parts, n, head, Any
  <2>. QED
    BY <1>1, <2>1, SequenceOf
<1>3. parts \in Seq(Any) /\ Len(parts) = Parts[d][t]
  <2>1. parts = [k \in 1..Parts[d][t] |-> parts[k]] /\ \A k \in 1..Parts[d][t] : parts[k] \in Any
    OBVIOUS
  <2>. HIDE DEF persons, parts, n, head, Any
  <2>. QED
    BY <1>1, <2>1, SequenceOf
<1>4. head \in Seq(Any) /\ Len(head) = 1 /\ head[1] = DocumentRow(d)
  OBVIOUS
<1>5. Writes[d][t] = head \o persons \o parts
  BY DEF Writes
<1>6. \A i \in 1..n : \/ \E j \in 1..Len(Lists[d][t]) :
                           i + 1 = 2 * j /\ persons[i] = PersonRow(Lists[d][t][j])
                      \/ \E p : persons[i] = LinkRow(d, p)
  BY PersonRows
<1>7. \A k \in 1..Parts[d][t] : parts[k] = ChunkRow(d, k)
  OBVIOUS
<1>. HIDE DEF persons, parts, head, Any, n
<1>8. /\ head \o persons \in Seq(Any) /\ Len(head \o persons) = 1 + n
      /\ \A i \in 1..1 : (head \o persons)[i] = head[i]
      /\ \A i \in 1..n : (head \o persons)[1 + i] = persons[i]
  <2>1. /\ head \o persons \in Seq(Any) /\ Len(head \o persons) = Len(head) + Len(persons)
        /\ \A i \in 1..Len(head) : (head \o persons)[i] = head[i]
        /\ \A i \in 1..Len(persons) : (head \o persons)[Len(head) + i] = persons[i]
    <3>1. head \in Seq(Any) /\ persons \in Seq(Any)
      BY <1>2, <1>4
    <3>. QED
      BY <3>1, Concatenation
  <2>. QED
    BY <1>2, <1>4, <2>1, Zenon
<1>. DEFINE front == head \o persons
            m == Parts[d][t]
            w == Writes[d][t]
<1>. HIDE DEF front, m, w
<1>9. /\ w \in Seq(Any) /\ Len(w) = (1 + n) + m
      /\ \A i \in 1..(1 + n) : w[i] = front[i]
      /\ \A i \in 1..m : w[(1 + n) + i] = parts[i]
  <2>1. w = front \o parts
    BY <1>5 DEF w, front
  <2>2. front \in Seq(Any) /\ Len(front) = 1 + n /\ 1 + n \in Nat
    BY <1>1, <1>8 DEF front
  <2>3. parts \in Seq(Any) /\ Len(parts) = m /\ m \in Nat
    BY <1>1, <1>3 DEF m
  <2>. QED
    <3>1. /\ front \o parts \in Seq(Any) /\ Len(front \o parts) = Len(front) + Len(parts)
          /\ \A i \in 1..Len(front) : (front \o parts)[i] = front[i]
          /\ \A i \in 1..Len(parts) : (front \o parts)[Len(front) + i] = parts[i]
      <4>1. front \in Seq(Any) /\ parts \in Seq(Any)
        BY <2>2, <2>3
      <4>. QED
        BY <4>1, Concatenation
    <3>. QED
      BY <2>1, <2>2, <2>3, <3>1, Zenon
<1>10. Len(w) \in Nat /\ Len(w) >= 1 /\ w[1] = DocumentRow(d)
  <2>1. Len(w) = (1 + n) + m /\ m \in Nat /\ 1 \in 1..1 /\ 1 \in 1..(1 + n)
    BY <1>1, <1>9 DEF m
  <2>2. w[1] = front[1] /\ front[1] = head[1]
    BY <1>8, <1>9, <2>1, Zenon DEF front
  <2>. QED
    BY <1>1, <1>4, <2>1, <2>2
<1>11. ASSUME NEW i \in 1..Len(w)
       PROVE  \/ \E j \in 1..Len(Lists[d][t]) : i = 2 * j /\ w[i] = PersonRow(Lists[d][t][j])
              \/ \E p : w[i] = LinkRow(d, p)
              \/ \E k : w[i] = ChunkRow(d, k)
              \/ w[i] = DocumentRow(d)
  <2>1. CASE i = 1
    BY <1>10, <2>1
  <2>2. CASE i \in 2..(1 + n)
    <3>1. i - 1 \in 1..n /\ 1 + (i - 1) = i /\ (i - 1) + 1 = i
      BY <1>1, <2>2
    <3>2. w[i] = persons[i - 1]
      BY <1>1, <1>8, <1>9, <2>2, <3>1 DEF front
    <3>. QED
      BY <1>6, <3>1, <3>2
  <2>3. CASE i > 1 + n
    <3>1. i - (1 + n) \in 1..m /\ (1 + n) + (i - (1 + n)) = i
      BY <1>1, <1>9, <2>3 DEF m
    <3>2. w[i] = parts[i - (1 + n)]
      BY <1>9, <3>1
    <3>. QED
      BY <1>7, <3>1, <3>2 DEF m
  <2>. QED
    BY <1>1, <1>9, <2>1, <2>2, <2>3 DEF m
<1>. QED
  BY <1>10, <1>11 DEF w

\* A write is of an intervenant, whose place says when it comes, or of the document.
LEMMA WriteKinds ==
  ASSUME NEW d \in Docs, NEW t \in Texts, NEW i \in 1..Len(Writes[d][t])
  PROVE  /\ ~IsPerson(Writes[d][t][i]) => IsOf(Writes[d][t][i], d)
         /\ IsPerson(Writes[d][t][i]) =>
              \E j \in 1..Len(Lists[d][t]) : i = 2 * j /\ Lists[d][t][j] = Writes[d][t][i][2]
<1>1. \A p : IsPerson(PersonRow(p)) /\ PersonRow(p)[2] = p
  BY DEF IsPerson, PersonRow
<1>2. \A p : ~IsPerson(LinkRow(d, p)) /\ IsOf(LinkRow(d, p), d)
  BY DEF IsPerson, IsOf, LinkRow
<1>3. \A k : ~IsPerson(ChunkRow(d, k)) /\ IsOf(ChunkRow(d, k), d)
  BY DEF IsPerson, IsOf, ChunkRow
<1>4. ~IsPerson(DocumentRow(d)) /\ IsOf(DocumentRow(d), d)
  BY DEF IsPerson, IsOf, DocumentRow
<1>. QED
  BY <1>1, <1>2, <1>3, <1>4, WritesShape

-----------------------------------------------------------------------------
(* The invariant.                                                          *)

CommittedLinks(d) == {LinkRow(d, p) : p \in {q \in People : links[d][q] # 0}}
CommittedChunks(d) == {ChunkRow(d, k) : k \in {j \in AllParts : chunks[d][j] # None}}

Partners(w) == {u \in Open \ {w} : doc[u] = doc[w]}

\* All that a transaction has overlapped with at its document are still open: nobody
\* has committed the document since it began.
Undisturbed(w) == met[w] = {RunOf[u] : u \in Partners(w)}

RowsKnown(w) ==
  /\ \A row \in target[w] \cup deleted[w] : IsOf(row, doc[w])
  /\ stage[w] = "idle" => target[w] = {}
  /\ stage[w] \in {"idle", "links"} => deleted[w] = {}
  /\ stage[w] # "write" => done[w] = 0

MetKnown(w) == stage[w] # "idle" =>
  /\ doc[w] \notin todo[RunOf[w]]
  /\ \A r \in met[w] : doc[w] \notin todo[r]
  /\ RunOf[w] \notin met[w]
  /\ \A u \in Partners(w) : /\ RunOf[u] # RunOf[w] /\ RunOf[u] \in met[w]
                             /\ met[u] \cup {RunOf[u]} = met[w] \cup {RunOf[w]}

Sees(w) ==
  /\ hadLinks[w] => CommittedLinks(doc[w]) # {}
  /\ stage[w] = "links" => target[w] = CommittedLinks(doc[w])
  /\ stage[w] \in {"between", "chunks"} => deleted[w] = CommittedLinks(doc[w])
  /\ stage[w] = "chunks" => target[w] = CommittedChunks(doc[w])
  /\ stage[w] = "write" => deleted[w] = CommittedLinks(doc[w]) \cup CommittedChunks(doc[w])

SeesCurrent(w) == stage[w] # "idle" /\ Undisturbed(w) => Sees(w)

\* It has every committed chunk, of whoever has committed the document since.
Covers(w) ==
  /\ stage[w] = "chunks" => CommittedChunks(doc[w]) \subseteq target[w]
  /\ stage[w] = "write" => CommittedChunks(doc[w]) \subseteq deleted[w]

Covered(w) ==
  stage[w] # "idle" /\ (met[w] = {} \/ (hadLinks[w] /\ Cardinality(met[w]) = 1))
    => Covers(w) /\ (Undisturbed(w) \/ Partners(w) = {})

Exclusive(u, w) == u # w => \A row : ~(Holds(u, row) /\ Holds(w, row))

IInv == /\ TypeOK
        /\ \A w \in Workers : /\ RowsKnown(w) /\ MetKnown(w)
                               /\ SeesCurrent(w) /\ Covered(w)
        /\ \A u, w \in Workers : Exclusive(u, w)

-----------------------------------------------------------------------------
(* What the steps have in common.                                          *)

LEMMA OpenDoc ==
  ASSUME TypeOK, NEW w \in Workers
  PROVE  /\ stage[w] # "idle" => doc[w] \in Docs
         /\ w \in Open <=> stage[w] # "idle"
         /\ RunOf[w] \in Texts /\ RunOf[w] \in Runs
BY RunOfAssumption DEF TypeOK, Open, Texts

LEMMA HoldsSame ==
  ASSUME NEW u, deleted'[u] = deleted[u], done'[u] = done[u], doc'[u] = doc[u], NEW row
  PROVE  Holds(u, row)' <=> Holds(u, row)
BY DEF Holds, WritesOf

LEMMA HoldsNothing ==
  ASSUME NEW u, deleted[u] = {}, done[u] = 0, NEW row
  PROVE  ~Holds(u, row)
BY DEF Holds

\* Who has met one run, and this one, has met this one only.
LEMMA OnlyMetSet ==
  ASSUME NEW m \in SUBSET Runs, NEW s \in m, Cardinality(m) <= 1
  PROVE  m = {s}
<1>1. IsFiniteSet(m)
  BY NamesAssumption, FS_Subset
<1>2. ASSUME NEW r \in m, r # s PROVE FALSE
  <2>. DEFINE rest == m \ {r}
  <2>1. IsFiniteSet(rest) /\ Cardinality(rest) = Cardinality(m) - 1
    BY <1>1, FS_RemoveElement
  <2>2. Cardinality(m) \in Nat /\ Cardinality(rest) \in Nat
    BY <1>1, <2>1, FS_CardinalityType
  <2>3. Cardinality(rest) = 0
    BY <2>1, <2>2
  <2>4. rest = {}
    BY <2>1, <2>3, FS_EmptySet
  <2>. QED
    BY <1>2, <2>4
<1>. QED
  BY <1>2

LEMMA OnlyMet ==
  ASSUME TypeOK, NEW u \in Workers, NEW s \in met[u], Cardinality(met[u]) <= 1
  PROVE  met[u] = {s}
<1>1. met[u] \in SUBSET Runs
  BY DEF TypeOK
<1>. QED
  BY <1>1, OnlyMetSet

\* An open transaction goes on.
LEMMA GoesOn ==
  ASSUME IInv, NEW w \in Workers, TypeOK',
         UNCHANGED <<chunks, links, todo, doc, met, hadLinks>>,
         stage[w] # "idle", stage'[w] # "idle",
         \A u \in Workers \ {w} : /\ target'[u] = target[u] /\ deleted'[u] = deleted[u]
                                  /\ done'[u] = done[u] /\ stage'[u] = stage[u],
         RowsKnown(w)', Undisturbed(w) => Sees(w)', Covers(w) => Covers(w)',
         \A u \in Workers \ {w} : \A row :
           Holds(w, row)' /\ ~Holds(w, row) => ~Holds(u, row)
  PROVE  IInv'
<1>1. Open' = Open
  BY DEF Open
<1>2. \A u : Partners(u)' = Partners(u)
  BY <1>1 DEF Partners
<1>3. \A u : Undisturbed(u)' = Undisturbed(u)
  BY <1>2 DEF Undisturbed
<1>4. \A d : CommittedLinks(d)' = CommittedLinks(d) /\ CommittedChunks(d)' = CommittedChunks(d)
  BY DEF CommittedLinks, CommittedChunks
<1>5. ASSUME NEW u \in Workers
      PROVE  RowsKnown(u)' /\ MetKnown(u)' /\ SeesCurrent(u)' /\ Covered(u)'
  <2>1. MetKnown(u)' /\ Covered(u)'
    <3>1. MetKnown(u)'
      BY <1>2 DEF IInv, MetKnown
    <3>2. Covers(u) => Covers(u)'
      BY <1>4 DEF Covers
    <3>3. stage'[u] # "idle" => stage[u] # "idle"
      OBVIOUS
    <3>. QED
      BY <1>2, <1>3, <3>1, <3>2, <3>3 DEF IInv, Covered
  <2>2. CASE u = w
    BY <1>3, <2>1, <2>2 DEF SeesCurrent
  <2>3. CASE u # w
    <3>1. RowsKnown(u)'
      BY <2>3 DEF IInv, RowsKnown
    <3>2. SeesCurrent(u)'
      BY <1>3, <1>4, <2>3 DEF IInv, SeesCurrent, Sees
    <3>. QED
      BY <2>1, <3>1, <3>2
  <2>. QED
    BY <2>2, <2>3
<1>6. ASSUME NEW u \in Workers, NEW v \in Workers PROVE Exclusive(u, v)'
  <2> SUFFICES ASSUME u # v, NEW row PROVE ~(Holds(u, row)' /\ Holds(v, row)')
    BY DEF Exclusive
  <2>1. ~(Holds(u, row) /\ Holds(v, row))
    BY DEF IInv, Exclusive
  <2>2. \A x \in Workers \ {w} : Holds(x, row)' <=> Holds(x, row)
    BY HoldsSame
  <2>. QED
    BY <2>1, <2>2
<1>. QED
  BY <1>5, <1>6 DEF IInv

\* A transaction ends, whether it commits or not.
LEMMA Ends ==
  ASSUME IInv, NEW w \in Workers, NEW gone, TypeOK', Close(w, gone), stage[w] # "idle",
         gone \subseteq deleted[w], UNCHANGED todo,
         (UNCHANGED chunks /\ gone = {}) \/ stage[w] = "write",
         \A d \in Docs \ {doc[w]} : chunks'[d] = chunks[d] /\ links'[d] = links[d]
  PROVE  IInv'
<1>1. /\ doc'[w] = None /\ stage'[w] = "idle" /\ target'[w] = {} /\ deleted'[w] = {}
      /\ done'[w] = 0
  BY DEF Close, IInv, TypeOK
<1>2. \A u \in Workers \ {w} :
        /\ doc'[u] = doc[u] /\ stage'[u] = stage[u] /\ target'[u] = target[u] \ gone
        /\ deleted'[u] = deleted[u] /\ done'[u] = done[u] /\ met'[u] = met[u]
        /\ hadLinks'[u] = hadLinks[u]
  BY DEF Close, IInv, TypeOK
<1>3. Open' = Open \ {w} /\ Open \subseteq Workers /\ w \in Open
  BY <1>1, <1>2 DEF Open
<1>4. \A u \in Workers \ {w} : Partners(u)' = Partners(u) \ {w}
  BY <1>2, <1>3 DEF Partners
<1>5. ASSUME NEW u \in Workers PROVE RowsKnown(u)' /\ MetKnown(u)'
  <2>1. CASE u = w
    BY <1>1, <2>1 DEF RowsKnown, MetKnown
  <2>2. CASE u # w
    <3>1. RowsKnown(u)'
      BY <1>2, <2>2 DEF IInv, RowsKnown
    <3>2. MetKnown(u)'
      <4> SUFFICES ASSUME stage[u] # "idle" PROVE MetKnown(u)'
        BY <1>2, <2>2 DEF MetKnown
      <4>1. Partners(u)' \subseteq Partners(u) /\ \A x \in Partners(u)' : x \in Workers \ {w}
        BY <1>3, <1>4, <2>2 DEF Partners
      <4>2. \A x \in Partners(u)' : met'[x] = met[x]
        BY <1>2, <4>1
      <4>3. MetKnown(u) /\ doc'[u] = doc[u] /\ met'[u] = met[u]
        BY <1>2, <2>2 DEF IInv
      <4>. QED
        BY <4>1, <4>2, <4>3 DEF MetKnown
    <3>. QED
      BY <3>1, <3>2
  <2>. QED
    BY <2>1, <2>2
<1>6. ASSUME NEW u \in Workers, stage'[u] # "idle", Undisturbed(u)' PROVE Sees(u)'
  <2>1. u # w /\ u \in Open /\ doc[u] \in Docs /\ doc[w] \in Docs
    BY <1>1, <1>2, <1>6, OpenDoc DEF IInv, Open
  <2>2. doc[u] # doc[w]
    <3> SUFFICES ASSUME doc[u] = doc[w] PROVE FALSE
      OBVIOUS
    <3>1. w \in Partners(u) /\ u \in Partners(w)
      BY <1>3, <2>1 DEF Partners
    <3>2. RunOf[w] \in met'[u]
      BY <1>2, <2>1, <3>1 DEF IInv, MetKnown, Open
    <3>3. PICK x \in Partners(u)' : RunOf[x] = RunOf[w]
      BY <1>6, <3>2 DEF Undisturbed
    <3>4. x \in Partners(u) /\ x # w
      BY <1>4, <2>1, <3>3
    <3>5. x \in Partners(w)
      BY <3>4 DEF Partners
    <3>. QED
      BY <3>3, <3>5 DEF IInv, MetKnown
  <2>3. Undisturbed(u)
    <3>1. w \notin Partners(u)
      BY <2>2 DEF Partners
    <3>2. Partners(u)' = Partners(u)
      BY <1>4, <2>1, <3>1
    <3>. QED
      BY <1>2, <1>6, <2>1, <3>2 DEF Undisturbed
  <2>4. Sees(u)
    BY <1>2, <1>6, <2>1, <2>3 DEF IInv, SeesCurrent
  <2>5. /\ CommittedLinks(doc[u])' = CommittedLinks(doc[u])
        /\ CommittedChunks(doc[u])' = CommittedChunks(doc[u])
    BY <1>2, <2>1, <2>2 DEF CommittedLinks, CommittedChunks
  <2>6. target'[u] = target[u]
    <3>1. \A row \in target[u] : row[2] = doc[u]
      BY DEF IInv, RowsKnown, IsOf
    <3>2. \A row \in gone : row[2] = doc[w]
      BY DEF IInv, RowsKnown, IsOf
    <3>3. target'[u] = target[u] \ gone
      BY <1>2, <2>1
    <3>. QED
      BY <2>2, <3>1, <3>2, <3>3
  <2>. QED
    BY <1>2, <2>1, <2>4, <2>5, <2>6 DEF Sees, CommittedLinks, CommittedChunks
<1>7. ASSUME NEW u \in Workers, NEW v \in Workers PROVE Exclusive(u, v)'
  <2> SUFFICES ASSUME u # v, NEW row PROVE ~(Holds(u, row)' /\ Holds(v, row)')
    BY DEF Exclusive
  <2>1. ~(Holds(u, row) /\ Holds(v, row))
    BY DEF IInv, Exclusive
  <2>2. \A x \in Workers \ {w} : Holds(x, row)' <=> Holds(x, row)
    BY <1>2, HoldsSame
  <2>3. ~Holds(w, row)'
    BY <1>1 DEF Holds
  <2>. QED
    BY <2>1, <2>2, <2>3
<1>8. ASSUME NEW u \in Workers, stage'[u] # "idle",
             met'[u] = {} \/ (hadLinks'[u] /\ Cardinality(met'[u]) = 1)
      PROVE  Covers(u)' /\ (Undisturbed(u)' \/ Partners(u)' = {})
  <2>1. u # w /\ u \in Open /\ doc[u] \in Docs /\ doc[w] \in Docs
    BY <1>1, <1>2, <1>8, OpenDoc DEF IInv, Open
  <2>2. /\ met[u] = {} \/ (hadLinks[u] /\ Cardinality(met[u]) = 1)
        /\ Covers(u) /\ (Undisturbed(u) \/ Partners(u) = {})
        /\ MetKnown(u) /\ MetKnown(w)
    BY <1>2, <1>8, <2>1 DEF IInv, Covered, Open
  <2>3. CASE doc[u] # doc[w]
    <3>1. Partners(u)' = Partners(u)
      BY <1>4, <2>1, <2>3 DEF Partners
    <3>2. Undisturbed(u)' \/ Partners(u)' = {}
      BY <1>2, <2>1, <2>2, <3>1 DEF Undisturbed
    <3>3. CommittedChunks(doc[u])' = CommittedChunks(doc[u])
      BY <1>2, <2>1, <2>3 DEF CommittedChunks
    <3>4. target'[u] = target[u]
      <4>1. \A row \in target[u] : row[2] = doc[u]
        BY DEF IInv, RowsKnown, IsOf
      <4>2. \A row \in gone : row[2] = doc[w]
        BY DEF IInv, RowsKnown, IsOf
      <4>3. target'[u] = target[u] \ gone
        BY <1>2, <2>1
      <4>. QED
        BY <2>3, <4>1, <4>2, <4>3
    <3>5. Covers(u)'
      BY <1>2, <2>1, <2>2, <3>3, <3>4 DEF Covers, CommittedChunks
    <3>. QED
      BY <3>2, <3>5
  <2>4. CASE doc[u] = doc[w]
    <3>1. w \in Partners(u) /\ u \in Partners(w)
      BY <1>3, <2>1, <2>4 DEF Partners
    <3>2. hadLinks[u] /\ Undisturbed(u) /\ met[u] = {RunOf[w]}
      <4>1. RunOf[w] \in met[u] /\ hadLinks[u] /\ Cardinality(met[u]) = 1
        BY <2>1, <2>2, <3>1 DEF MetKnown, Open
      <4>2. Undisturbed(u)
        BY <2>2, <3>1
      <4>3. met[u] = {RunOf[w]}
        BY <2>1, <4>1, OnlyMet DEF IInv, Open
      <4>. QED
        BY <4>1, <4>2, <4>3
    <3>3. Partners(u)' = {}
      <4> SUFFICES ASSUME NEW x \in Partners(u) \ {w} PROVE FALSE
        BY <1>4, <2>1
      <4>1. RunOf[x] = RunOf[w]
        BY <2>1, <2>2, <3>2 DEF MetKnown, Open
      <4>2. x \in Partners(w)
        BY <2>4 DEF Partners
      <4>. QED
        BY <1>3, <2>2, <4>1, <4>2 DEF MetKnown, Open
    <3>4. CASE UNCHANGED chunks /\ gone = {}
      <4>1. CommittedChunks(doc[u])' = CommittedChunks(doc[u]) /\ target'[u] = target[u]
        BY <1>2, <2>1, <3>4 DEF CommittedChunks
      <4>. QED
        BY <1>2, <2>1, <2>2, <3>3, <4>1 DEF Covers, CommittedChunks
    <3>5. CASE stage[w] = "write"
      <4>1. met[w] = {RunOf[u]}
        BY <2>1, <2>2, <3>1, <3>2 DEF MetKnown, Open
      <4>2. \A x \in Partners(w) : RunOf[x] \in met[w]
        BY <1>3, <2>2 DEF MetKnown, Open
      <4>3. Undisturbed(w)
        BY <3>1, <4>1, <4>2 DEF Undisturbed
      <4>4. Sees(w) /\ Sees(u)
        BY <2>1, <3>2, <4>3 DEF IInv, SeesCurrent, Open
      <4>5. PICK row : row \in CommittedLinks(doc[w])
        BY <2>4, <3>2, <4>4 DEF Sees
      <4>6. row \in deleted[w]
        BY <3>5, <4>4, <4>5 DEF Sees
      <4>7. row \notin deleted[u]
        BY <2>1, <4>6 DEF IInv, Exclusive, Holds, Open
      <4>8. stage[u] \in {"links", "idle"}
        BY <2>1, <2>4, <4>4, <4>5, <4>7 DEF Sees, IInv, TypeOK, Stages, Open
      <4>. QED
        BY <1>2, <2>1, <3>3, <4>8 DEF Covers, Open
    <3>. QED
      BY <3>4, <3>5
  <2>. QED
    BY <2>3, <2>4
<1>. QED
  BY <1>5, <1>6, <1>7, <1>8 DEF IInv, SeesCurrent, Covered

-----------------------------------------------------------------------------
(* The steps.                                                              *)

LEMMA PartsAreKnown ==
  ASSUME NEW e \in Docs, NEW u \in Texts
  PROVE  /\ Parts[e][u] \in AllParts /\ AllParts \subseteq Nat \ {0}
         /\ 1..Parts[e][u] \subseteq AllParts
         /\ DOMAIN Lists[e][u] \subseteq AllPlaces
<1>. DEFINE P == {1..Parts[d][t] : d \in Docs, t \in Texts}
            L == {DOMAIN Lists[d][t] : d \in Docs, t \in Texts}
<1>1. \A d \in Docs, t \in Texts : Parts[d][t] \in Nat \ {0}
  BY PartsAssumption
<1>2. \A s \in P : s \subseteq Nat \ {0}
  BY <1>1
<1>3. 1..Parts[e][u] \in P /\ DOMAIN Lists[e][u] \in L
  OBVIOUS
<1>4. AllParts = UNION P /\ AllPlaces = UNION L
  BY DEF AllParts, AllPlaces
<1>5. Parts[e][u] \in 1..Parts[e][u]
  BY <1>1
<1>. HIDE DEF P, L
<1>. QED
  BY <1>2, <1>3, <1>4, <1>5

LEMMA TextsOf ==
  ASSUME NEW d \in Docs, NEW t \in Texts
  PROVE  /\ ChunksOf(d, t) \in [AllParts -> Texts \cup {None}]
         /\ LinksOf(d, t) \in [People -> AllPlaces \cup {0}]
<1>1. \A p \in People : LinksOf(d, t)[p] \in AllPlaces \cup {0}
  <2> SUFFICES ASSUME NEW p \in People PROVE LinksOf(d, t)[p] \in AllPlaces \cup {0}
    OBVIOUS
  <2>1. CASE \E i \in DOMAIN Lists[d][t] : Lists[d][t][i] = p
    <3>1. (CHOOSE i \in DOMAIN Lists[d][t] : Lists[d][t][i] = p) \in DOMAIN Lists[d][t]
      BY <2>1
    <3>. QED
      BY <2>1, <3>1, PartsAreKnown DEF LinksOf
  <2>2. CASE ~\E i \in DOMAIN Lists[d][t] : Lists[d][t][i] = p
    BY <2>2 DEF LinksOf
  <2>. QED
    BY <2>1, <2>2
<1>. QED
  BY <1>1 DEF ChunksOf, LinksOf

LEMMA InitInv == Init => IInv
<1> SUFFICES ASSUME Init PROVE IInv
  OBVIOUS
<1>1. Old \in Texts
  BY DEF Texts
<1>2. PICK indexed \in SUBSET Docs :
        /\ chunks = [d \in Docs |-> IF d \in indexed THEN ChunksOf(d, Old)
                                    ELSE [k \in AllParts |-> None]]
        /\ links = [d \in Docs |-> IF d \in indexed THEN LinksOf(d, Old)
                                   ELSE [p \in People |-> 0]]
        /\ count = [d \in Docs |-> IF d \in indexed THEN Parts[d][Old] ELSE 0]
  BY DEF Init
<1>3. /\ chunks \in [Docs -> [AllParts -> Texts \cup {None}]]
      /\ links \in [Docs -> [People -> AllPlaces \cup {0}]]
      /\ count \in [Docs -> AllParts \cup {0}]
  <2>1. \A d \in Docs : chunks[d] \in [AllParts -> Texts \cup {None}]
    BY <1>1, <1>2, TextsOf
  <2>2. \A d \in Docs : links[d] \in [People -> AllPlaces \cup {0}]
    BY <1>1, <1>2, TextsOf
  <2>3. \A d \in Docs : count[d] \in AllParts \cup {0}
    BY <1>1, <1>2, PartsAreKnown
  <2>. QED
    BY <1>2, <2>1, <2>2, <2>3
<1>4. TypeOK
  BY <1>3, CorpusAssumption DEF Init, TypeOK, Stages
<1>5. \A w \in Workers : stage[w] = "idle" /\ target[w] = {} /\ deleted[w] = {} /\ done[w] = 0
  BY DEF Init
<1>. QED
  BY <1>4, <1>5 DEF IInv, RowsKnown, MetKnown, SeesCurrent, Covered, Exclusive, Holds

LEMMA OnlyMetNext ==
  ASSUME TypeOK', NEW u \in Workers, NEW s \in met'[u], Cardinality(met'[u]) <= 1
  PROVE  met'[u] = {s}
<1>1. met'[u] \in SUBSET Runs
  BY DEF TypeOK
<1>. QED
  BY <1>1, OnlyMetSet

LEMMA BeginInv ==
  ASSUME IInv, NEW w \in Workers, NEW d \in Docs, Begin(w, d)
  PROVE  IInv'
<1>. DEFINE r == RunOf[w]
            others == {u \in Open : doc[u] = d}
<1>1. /\ stage[w] = "idle" /\ r \in Runs /\ d \in todo[r]
      /\ deleted[w] = {} /\ done[w] = 0 /\ w \notin Open
  BY OpenDoc DEF IInv, RowsKnown, Begin, Open
<1>2. /\ todo' = [todo EXCEPT ![r] = @ \ {d}]
      /\ doc' = [doc EXCEPT ![w] = d] /\ stage' = [stage EXCEPT ![w] = "links"]
      /\ target' = [target EXCEPT ![w] = CommittedLinks(d)]
      /\ met' = [u \in Workers |-> IF u = w THEN UNION {{RunOf[x]} \cup met[x] : x \in others}
                                   ELSE IF u \in others THEN met[u] \cup {r}
                                   ELSE met[u]]
      /\ UNCHANGED <<chunks, links, count, failed, deleted, done>>
      /\ hadLinks' = [hadLinks EXCEPT ![w] = target'[w] # {}]
  BY DEF Begin, CommittedLinks, db
<1>3. others \subseteq Workers /\ \A x \in others : RunOf[x] \in Runs /\ met[x] \subseteq Runs
  BY OpenDoc DEF IInv, TypeOK, Open
<1>4. CommittedLinks(d) \subseteq Rows
  BY DEF CommittedLinks, Rows
<1>5. TypeOK'
  <2>1. met' \in [Workers -> SUBSET Runs]
    BY <1>1, <1>2, <1>3 DEF IInv, TypeOK
  <2>2. target' \in [Workers -> SUBSET Rows]
    BY <1>2, <1>4 DEF IInv, TypeOK
  <2>3. /\ doc' \in [Workers -> Docs \cup {None}] /\ stage' \in [Workers -> Stages]
        /\ todo' \in [Runs -> SUBSET Docs]
    BY <1>1, <1>2 DEF IInv, TypeOK, Stages
  <2>4. hadLinks' \in [Workers -> BOOLEAN]
    BY <1>2 DEF IInv, TypeOK
  <2>5. ASSUME NEW u \in Workers
        PROVE  /\ done'[u] <= IF doc'[u] = None THEN 0 ELSE Len(Writes[doc'[u]][RunOf[u]])
               /\ doc'[u] = None <=> stage'[u] = "idle"
    <3>1. CASE u = w
      <4>1. doc'[u] = d /\ stage'[u] = "links" /\ done'[u] = 0 /\ d # None
        BY <1>1, <1>2, <3>1, NamesAssumption DEF IInv, TypeOK
      <4>2. Len(Writes[d][RunOf[u]]) \in Nat
        BY WritesShape, OpenDoc DEF IInv
      <4>. QED
        BY <4>1, <4>2
    <3>2. CASE u # w
      BY <1>2, <3>2 DEF IInv, TypeOK
    <3>. QED
      BY <3>1, <3>2
  <2>. QED
    BY <1>2, <2>1, <2>2, <2>3, <2>4, <2>5 DEF IInv, TypeOK
<1>6. /\ doc'[w] = d /\ stage'[w] = "links" /\ target'[w] = CommittedLinks(d)
      /\ met'[w] = UNION {{RunOf[x]} \cup met[x] : x \in others}
      /\ \A u \in Workers \ {w} : /\ doc'[u] = doc[u] /\ stage'[u] = stage[u]
                                  /\ target'[u] = target[u]
                                  /\ met'[u] = IF u \in others THEN met[u] \cup {r} ELSE met[u]
      /\ Open' = Open \cup {w}
  BY <1>2 DEF IInv, TypeOK, Open
<1>7. /\ Partners(w)' = others
      /\ \A u \in others : Partners(u)' = Partners(u) \cup {w}
      /\ \A u \in Open \ others : Partners(u)' = Partners(u)
  <2>1. \A u \in Open : u # w /\ u \in Workers /\ doc'[u] = doc[u]
    BY <1>1, <1>6 DEF Open
  <2>2. Partners(w)' = others
    BY <1>1, <1>6, <2>1 DEF Partners
  <2>3. ASSUME NEW u \in others PROVE Partners(u)' = Partners(u) \cup {w}
    <3>1. doc[u] = d /\ u \in Open
      OBVIOUS
    <3>. QED
      BY <1>6, <2>1, <3>1 DEF Partners
  <2>4. ASSUME NEW u \in Open \ others PROVE Partners(u)' = Partners(u)
    <3>1. doc[u] # d /\ u \in Open
      OBVIOUS
    <3>. QED
      BY <1>6, <2>1, <3>1 DEF Partners
  <2>. QED
    BY <2>2, <2>3, <2>4
<1>8. \A u \in others : d \notin todo[RunOf[u]] /\ \A s \in met[u] : d \notin todo[s]
  BY <1>3 DEF IInv, MetKnown, Open
<1>9. \A s \in Runs : todo'[s] \subseteq todo[s] /\ (s = r => d \notin todo'[s])
  BY <1>1, <1>2 DEF IInv, TypeOK
<1>10. ASSUME NEW u \in Workers PROVE RowsKnown(u)'
  <2>1. \A row \in CommittedLinks(d) : IsOf(row, d)
    BY DEF CommittedLinks, IsOf, LinkRow
  <2>2. CASE u = w
    BY <1>1, <1>2, <1>6, <2>1, <2>2 DEF RowsKnown
  <2>3. CASE u # w
    BY <1>2, <1>6, <2>3 DEF IInv, RowsKnown
  <2>. QED
    BY <2>2, <2>3
\* Those at the document have all met each other: so has the new one.
<1>14. \A x \in others : met[x] \cup {RunOf[x]} = met'[w]
  <2>1. \A x, y \in others : met[x] \cup {RunOf[x]} = met[y] \cup {RunOf[y]}
    <3> SUFFICES ASSUME NEW x \in others, NEW y \in others, x # y
                 PROVE  met[x] \cup {RunOf[x]} = met[y] \cup {RunOf[y]}
      OBVIOUS
    <3>1. y \in Partners(x)
      BY DEF Partners
    <3>. QED
      BY <1>3, <3>1 DEF IInv, MetKnown, Open
  <2>. QED
    BY <1>6, <2>1
<1>11. ASSUME NEW u \in Workers PROVE MetKnown(u)'
  <2>1. CASE u = w
    <3>1. d \notin todo'[r]
      BY <1>1, <1>9
    <3>2. \A s \in met'[w] : d \notin todo'[s]
      BY <1>3, <1>6, <1>8, <1>9
    <3>3. r \notin met'[w] /\ \A x \in others : RunOf[x] # r /\ RunOf[x] \in met'[w]
      BY <1>1, <1>6, <1>8
    <3>4. \A x \in others : met'[x] \cup {RunOf[x]} = met'[w] \cup {r}
      BY <1>1, <1>3, <1>6, <1>14
    <3>. QED
      BY <1>6, <1>7, <2>1, <3>1, <3>2, <3>3, <3>4 DEF MetKnown
  <2>2. CASE u \in others
    <3>1. u # w /\ doc[u] = d /\ u \in Open /\ MetKnown(u)
      BY <1>1, <2>2 DEF IInv
    <3>2. d \notin todo'[RunOf[u]] /\ \A s \in met[u] \cup {r} : d \notin todo'[s]
      BY <1>1, <1>3, <1>8, <1>9, <2>2
    <3>3. \A x \in Partners(u) \cup {w} : RunOf[x] # RunOf[u] /\ RunOf[x] \in met[u] \cup {r}
      BY <1>1, <1>8, <2>2, <3>1 DEF MetKnown, Open
    <3>4. doc'[u] = d /\ met'[u] = met[u] \cup {r} /\ Partners(u)' = Partners(u) \cup {w}
      BY <1>3, <1>6, <1>7, <2>2, <3>1
    <3>5. RunOf[u] \notin met'[u]
      BY <1>1, <1>8, <2>2, <3>1, <3>4 DEF MetKnown, Open
    <3>6. ASSUME NEW x \in Partners(u) \cup {w}
          PROVE  met'[x] \cup {RunOf[x]} = met'[u] \cup {RunOf[u]}
      <4>1. CASE x = w
        BY <1>1, <1>3, <1>6, <1>14, <2>2, <4>1
      <4>2. CASE x # w
        <5>1. x \in others
          BY <3>1, <4>2 DEF Partners
        <5>. QED
          BY <1>1, <1>3, <1>6, <1>14, <2>2, <5>1
      <4>. QED
        BY <4>1, <4>2
    <3>. QED
      BY <3>2, <3>3, <3>4, <3>5, <3>6 DEF MetKnown
  <2>3. CASE u # w /\ u \notin others
    <3> SUFFICES ASSUME stage[u] # "idle" PROVE MetKnown(u)'
      BY <1>6, <2>3 DEF MetKnown
    <3>1. u \in Open \ others /\ MetKnown(u) /\ met[u] \subseteq Runs /\ RunOf[u] \in Runs
      BY <2>3, OpenDoc DEF IInv, TypeOK, Open
    <3>2. \A x \in Partners(u) : x \in Workers \ {w} /\ x \notin others
      BY <1>1, <2>3, <3>1 DEF Partners, Open
    <3>3. /\ doc'[u] = doc[u] /\ met'[u] = met[u] /\ Partners(u)' = Partners(u)
          /\ \A x \in Partners(u) : met'[x] = met[x]
      BY <1>6, <1>7, <2>3, <3>1, <3>2
    <3>4. doc[u] \notin todo'[RunOf[u]] /\ \A s \in met[u] : doc[u] \notin todo'[s]
      BY <1>9, <3>1 DEF MetKnown, Open
    <3>. QED
      BY <3>1, <3>3, <3>4 DEF MetKnown, Open
  <2>. QED
    BY <2>1, <2>2, <2>3
<1>12. ASSUME NEW u \in Workers, stage'[u] # "idle", Undisturbed(u)' PROVE Sees(u)'
  <2>1. \A e : CommittedLinks(e)' = CommittedLinks(e) /\ CommittedChunks(e)' = CommittedChunks(e)
    BY <1>2 DEF CommittedLinks, CommittedChunks
  <2>2. CASE u = w
    <3>1. hadLinks'[w] => CommittedLinks(d) # {}
      BY <1>2, <1>6 DEF IInv, TypeOK
    <3>. QED
      BY <1>6, <2>1, <2>2, <3>1 DEF Sees
  <2>3. CASE u # w
    <3>1. u \in Open
      BY <1>6, <1>12, <2>3 DEF Open
    <3>2. Undisturbed(u)
      <4>1. CASE u \in others
        <5>1. met[u] \cup {r} = {RunOf[x] : x \in Partners(u)} \cup {r}
          BY <1>6, <1>7, <1>12, <2>3, <4>1 DEF Undisturbed
        <5>2. r \notin met[u]
          BY <1>1, <1>8, <4>1
        <5>3. {RunOf[x] : x \in Partners(u)} \subseteq met[u]
          BY <3>1 DEF IInv, MetKnown, Open
        <5>. QED
          BY <5>1, <5>2, <5>3 DEF Undisturbed
      <4>2. CASE u \notin others
        BY <1>6, <1>7, <1>12, <2>3, <3>1, <4>2 DEF Undisturbed
      <4>. QED
        BY <4>1, <4>2
    <3>3. Sees(u)
      BY <3>1, <3>2 DEF IInv, SeesCurrent, Open
    <3>4. hadLinks'[u] = hadLinks[u]
      BY <1>2, <2>3 DEF IInv, TypeOK
    <3>. QED
      BY <1>2, <1>6, <2>1, <2>3, <3>3, <3>4 DEF Sees
  <2>. QED
    BY <2>2, <2>3
<1>15. ASSUME NEW u \in Workers, stage'[u] # "idle",
              met'[u] = {} \/ (hadLinks'[u] /\ Cardinality(met'[u]) = 1)
       PROVE  Covers(u)' /\ (Undisturbed(u)' \/ Partners(u)' = {})
  <2>1. CASE u = w
    <3>1. Covers(u)'
      BY <1>6, <2>1 DEF Covers
    <3>2. CASE others = {}
      BY <1>7, <2>1, <3>1, <3>2
    <3>3. CASE others # {}
      <4>1. PICK x \in others : TRUE
        BY <3>3
      <4>2. RunOf[x] \in met'[w] /\ Cardinality(met'[w]) <= 1
        <5>1. RunOf[x] \in met'[w]
          BY <1>6
        <5>2. Cardinality(met'[w]) = 1
          BY <1>15, <2>1, <5>1
        <5>. QED
          BY <5>1, <5>2
      <4>3. met'[w] = {RunOf[x]}
        BY <1>5, <4>2, OnlyMetNext
      <4>4. \A y \in others : RunOf[y] \in met'[w]
        BY <1>6
      <4>5. Undisturbed(w)'
        BY <1>7, <4>1, <4>3, <4>4 DEF Undisturbed
      <4>. QED
        BY <2>1, <3>1, <4>5
    <3>. QED
      BY <3>2, <3>3
  <2>2. CASE u # w
    <3>1. u \in Open /\ u \in Workers /\ hadLinks'[u] = hadLinks[u] /\ MetKnown(u)
      BY <1>2, <1>6, <1>15, <2>2 DEF Open, IInv, TypeOK
    <3>2. CommittedChunks(doc[u])' = CommittedChunks(doc[u])
      BY <1>2, <1>6, <2>2 DEF CommittedChunks
    <3>3. Covers(u) => Covers(u)'
      BY <1>2, <1>6, <2>2, <3>2 DEF Covers, CommittedChunks
    <3>4. CASE u \in others
      <4>1. met'[u] = met[u] \cup {r} /\ r \notin met[u]
        BY <1>1, <1>6, <1>8, <2>2, <3>4
      <4>2. met'[u] = {r}
        <5>1. Cardinality(met'[u]) = 1
          BY <1>15, <4>1
        <5>. QED
          BY <1>5, <4>1, <5>1, OnlyMetNext
      <4>3. met[u] = {}
        BY <4>1, <4>2
      <4>4. Partners(u) = {}
        BY <3>1, <4>3 DEF MetKnown, Open
      <4>5. Undisturbed(u)'
        BY <1>7, <3>4, <4>2, <4>4 DEF Undisturbed
      <4>6. Covers(u)
        BY <3>1, <4>3 DEF IInv, Covered, Open
      <4>. QED
        BY <3>3, <4>5, <4>6
    <3>5. CASE u \notin others
      <4>1. met'[u] = met[u] /\ Partners(u)' = Partners(u)
        BY <1>6, <1>7, <2>2, <3>1, <3>5
      <4>2. Covers(u) /\ (Undisturbed(u) \/ Partners(u) = {})
        BY <1>15, <3>1, <4>1 DEF IInv, Covered, Open
      <4>. QED
        BY <3>3, <4>1, <4>2 DEF Undisturbed
    <3>. QED
      BY <3>4, <3>5
  <2>. QED
    BY <2>1, <2>2
<1>13. ASSUME NEW u \in Workers, NEW v \in Workers PROVE Exclusive(u, v)'
  <2> SUFFICES ASSUME u # v, NEW row PROVE ~(Holds(u, row)' /\ Holds(v, row)')
    BY DEF Exclusive
  <2>1. ~(Holds(u, row) /\ Holds(v, row))
    BY DEF IInv, Exclusive
  <2>2. \A x \in Workers \ {w} : Holds(x, row)' <=> Holds(x, row)
    BY <1>2, <1>6, HoldsSame
  <2>3. ~Holds(w, row)'
    BY <1>1, <1>2 DEF Holds
  <2>. QED
    BY <2>1, <2>2, <2>3
<1>. QED
  BY <1>5, <1>10, <1>11, <1>12, <1>13, <1>15 DEF IInv, SeesCurrent, Covered

LEMMA FreeRow ==
  ASSUME IInv, NEW w \in Workers, IsFree(w), NEW row \in Wanted(w), NEW u \in Workers \ {w}
  PROVE  ~Holds(u, row)
<1>1. CASE stage[u] = "idle"
  BY <1>1, HoldsNothing DEF IInv, RowsKnown
<1>2. CASE stage[u] # "idle"
  BY <1>2 DEF IsFree, WaitsFor, Open
<1>. QED
  BY <1>1, <1>2

LEMMA DeleteInv ==
  ASSUME IInv, NEW w \in Workers, NEW at, NEW after, Delete(w, at, after),
         \/ at = "links" /\ after = "between"
         \/ at = "chunks" /\ after = "write"
  PROVE  IInv'
<1>1. /\ stage[w] = at /\ IsFree(w) /\ TypeOK /\ RowsKnown(w)
      /\ UNCHANGED <<chunks, links, count, todo, failed, doc, done, met, hadLinks>>
  BY DEF Delete, db, IInv
<1>2. /\ deleted' = [deleted EXCEPT ![w] = @ \cup target[w]]
      /\ target' = [target EXCEPT ![w] = {}]
      /\ stage' = [stage EXCEPT ![w] = after]
  BY DEF Delete
<1>3. /\ deleted'[w] = deleted[w] \cup target[w] /\ target'[w] = {} /\ stage'[w] = after
      /\ \A u \in Workers \ {w} : /\ target'[u] = target[u] /\ deleted'[u] = deleted[u]
                                  /\ done'[u] = done[u] /\ stage'[u] = stage[u]
  BY <1>1, <1>2 DEF TypeOK
<1>4. TypeOK'
  <2>1. deleted' \in [Workers -> SUBSET Rows] /\ target' \in [Workers -> SUBSET Rows]
    BY <1>1, <1>2 DEF TypeOK
  <2>2. stage' \in [Workers -> Stages]
    BY <1>1, <1>2 DEF TypeOK, Stages
  <2>3. \A u \in Workers : doc'[u] = None <=> stage'[u] = "idle"
    BY <1>1, <1>3 DEF TypeOK
  <2>. QED
    BY <1>1, <2>1, <2>2, <2>3 DEF TypeOK
<1>5. RowsKnown(w)'
  BY <1>1, <1>3 DEF RowsKnown
<1>6. ASSUME Undisturbed(w) PROVE Sees(w)'
  <2>1. Sees(w)
    BY <1>1, <1>6 DEF IInv, SeesCurrent
  <2>. QED
    BY <1>1, <1>3, <2>1 DEF Sees, RowsKnown, CommittedLinks, CommittedChunks
<1>7. ASSUME NEW u \in Workers \ {w}, NEW row, Holds(w, row)', ~Holds(w, row)
      PROVE  ~Holds(u, row)
  <2>1. row \in target[w]
    BY <1>1, <1>3, <1>7 DEF Holds, WritesOf
  <2>2. row \in Wanted(w)
    BY <1>1, <2>1 DEF Wanted
  <2>. QED
    BY <1>1, <2>2, FreeRow
<1>8. Covers(w) => Covers(w)'
  BY <1>1, <1>3 DEF Covers, CommittedChunks
<1>. QED
  BY <1>1, <1>3, <1>4, <1>5, <1>6, <1>7, <1>8, GoesOn

LEMMA SeeChunksInv ==
  ASSUME IInv, NEW w \in Workers, SeeChunks(w)
  PROVE  IInv'
<1>1. /\ stage[w] = "between" /\ TypeOK /\ RowsKnown(w)
      /\ target' = [target EXCEPT ![w] = CommittedChunks(doc[w])]
      /\ stage' = [stage EXCEPT ![w] = "chunks"]
      /\ UNCHANGED <<chunks, links, count, todo, failed, doc, deleted, done, met, hadLinks>>
  BY DEF SeeChunks, db, IInv, CommittedChunks
<1>2. /\ target'[w] = CommittedChunks(doc[w]) /\ stage'[w] = "chunks"
      /\ \A u \in Workers \ {w} : target'[u] = target[u] /\ stage'[u] = stage[u]
  BY <1>1 DEF TypeOK
<1>3. doc[w] \in Docs
  BY <1>1, OpenDoc
<1>4. CommittedChunks(doc[w]) \subseteq Rows
  BY <1>3 DEF CommittedChunks, Rows
<1>5. TypeOK'
  <2>1. target' \in [Workers -> SUBSET Rows] /\ stage' \in [Workers -> Stages]
    BY <1>1, <1>4 DEF TypeOK, Stages
  <2>2. \A u \in Workers : doc'[u] = None <=> stage'[u] = "idle"
    BY <1>1, <1>2 DEF TypeOK
  <2>. QED
    BY <1>1, <2>1, <2>2 DEF TypeOK
<1>6. \A row \in CommittedChunks(doc[w]) : IsOf(row, doc[w])
  BY DEF CommittedChunks, IsOf, ChunkRow
<1>7. RowsKnown(w)'
  BY <1>1, <1>2, <1>6 DEF RowsKnown
<1>8. ASSUME Undisturbed(w) PROVE Sees(w)'
  <2>1. Sees(w)
    BY <1>1, <1>8 DEF IInv, SeesCurrent
  <2>. QED
    BY <1>1, <1>2, <2>1 DEF Sees, CommittedLinks, CommittedChunks
<1>9. \A row : Holds(w, row)' <=> Holds(w, row)
  BY <1>1, HoldsSame
<1>10. Covers(w)'
  BY <1>1, <1>2 DEF Covers, CommittedChunks
<1>. QED
  BY <1>1, <1>2, <1>5, <1>7, <1>8, <1>9, <1>10, GoesOn

LEMMA WriteInv ==
  ASSUME IInv, NEW w \in Workers, Write(w)
  PROVE  IInv'
<1>1. /\ stage[w] = "write" /\ done[w] < Len(WritesOf(w)) /\ IsFree(w) /\ TypeOK /\ RowsKnown(w)
      /\ done' = [done EXCEPT ![w] = @ + 1]
      /\ UNCHANGED <<chunks, links, count, todo, failed, doc, stage, target, deleted, met, hadLinks>>
  BY DEF Write, db, IInv
<1>2. doc[w] \in Docs /\ RunOf[w] \in Texts
  BY <1>1, OpenDoc
<1>3. /\ done[w] \in Nat /\ done'[w] = done[w] + 1
      /\ \A u \in Workers \ {w} : done'[u] = done[u]
  BY <1>1 DEF TypeOK
<1>4. TypeOK'
  <2>1. done' \in [Workers -> Nat]
    BY <1>1, <1>3 DEF TypeOK
  <2>2. done'[w] <= IF doc[w] = None THEN 0 ELSE Len(Writes[doc[w]][RunOf[w]])
    BY <1>1, <1>2, <1>3, WritesShape, NamesAssumption DEF WritesOf
  <2>. QED
    BY <1>1, <1>3, <2>1, <2>2 DEF TypeOK
<1>5. RowsKnown(w)'
  BY <1>1 DEF RowsKnown
<1>6. Undisturbed(w) => Sees(w)'
  BY <1>1 DEF IInv, SeesCurrent, Sees, CommittedLinks, CommittedChunks
<1>7. ASSUME NEW u \in Workers \ {w}, NEW row, Holds(w, row)', ~Holds(w, row)
      PROVE  ~Holds(u, row)
  <2>1. PICK i \in 1..(done[w] + 1) : WritesOf(w)[i] = row
    BY <1>1, <1>3, <1>7 DEF Holds, WritesOf
  <2>2. i = done[w] + 1
    BY <1>3, <1>7, <2>1 DEF Holds
  <2>3. row \in Wanted(w)
    BY <1>1, <2>1, <2>2 DEF Wanted
  <2>. QED
    BY <1>1, <2>3, FreeRow
<1>8. Covers(w) => Covers(w)'
  BY <1>1 DEF Covers, CommittedChunks
<1>. QED
  BY <1>1, <1>3, <1>4, <1>5, <1>6, <1>7, <1>8, GoesOn

LEMMA CloseType ==
  ASSUME TypeOK, NEW w \in Workers, NEW gone, Close(w, gone)
  PROVE  /\ doc' \in [Workers -> Docs \cup {None}] /\ stage' \in [Workers -> Stages]
         /\ target' \in [Workers -> SUBSET Rows] /\ deleted' \in [Workers -> SUBSET Rows]
         /\ done' \in [Workers -> Nat] /\ met' \in [Workers -> SUBSET Runs]
         /\ hadLinks' \in [Workers -> BOOLEAN]
         /\ \A u \in Workers :
              /\ done'[u] <= IF doc'[u] = None THEN 0 ELSE Len(Writes[doc'[u]][RunOf[u]])
              /\ doc'[u] = None <=> stage'[u] = "idle"
<1>1. /\ doc' \in [Workers -> Docs \cup {None}] /\ stage' \in [Workers -> Stages]
      /\ target' \in [Workers -> SUBSET Rows] /\ deleted' \in [Workers -> SUBSET Rows]
  BY DEF Close, TypeOK, Stages
<1>2. /\ done' \in [Workers -> Nat] /\ met' \in [Workers -> SUBSET Runs]
      /\ hadLinks' \in [Workers -> BOOLEAN]
  BY DEF Close, TypeOK
<1>3. ASSUME NEW u \in Workers
      PROVE  /\ done'[u] <= IF doc'[u] = None THEN 0 ELSE Len(Writes[doc'[u]][RunOf[u]])
             /\ doc'[u] = None <=> stage'[u] = "idle"
  <2>1. CASE u = w
    <3>1. done'[u] = 0 /\ doc'[u] = None /\ stage'[u] = "idle"
      BY <2>1 DEF Close, TypeOK
    <3>. QED
      BY <3>1
  <2>2. CASE u # w
    <3>1. done'[u] = done[u] /\ doc'[u] = doc[u] /\ stage'[u] = stage[u]
      BY <2>2 DEF Close, TypeOK
    <3>. QED
      BY <3>1 DEF TypeOK
  <2>. QED
    BY <2>1, <2>2
<1>. QED
  BY <1>1, <1>2, <1>3

LEMMA FailInv ==
  ASSUME IInv, NEW w \in Workers, stage[w] # "idle", Fail(w)
  PROVE  IInv'
<1>1. TypeOK /\ Close(w, {}) /\ UNCHANGED <<chunks, links, count, todo>>
      /\ failed' = failed \cup {RunOf[w]}
  BY DEF Fail, Rollback, IInv, db
<1>2. failed' \subseteq Runs
  BY <1>1, OpenDoc DEF TypeOK
<1>3. TypeOK'
  BY <1>1, <1>2, CloseType DEF TypeOK
<1>. QED
  BY <1>1, <1>3, Ends

LEMMA CommitType ==
  ASSUME TypeOK, NEW w \in Workers, Commit(w)
  PROVE  /\ TypeOK'
         /\ \A e \in Docs \ {doc[w]} :
              chunks'[e] = chunks[e] /\ links'[e] = links[e] /\ count'[e] = count[e]
         /\ count'[doc[w]] = Parts[doc[w]][RunOf[w]]
         /\ \A k \in 1..Parts[doc[w]][RunOf[w]] : chunks'[doc[w]][k] = RunOf[w]
<1>. DEFINE d == doc[w]
            t == RunOf[w]
            newChunks == [k \in AllParts |-> IF k <= Parts[d][t] THEN t
                            ELSE IF ChunkRow(d, k) \in deleted[w] THEN None ELSE chunks[d][k]]
            newLinks == [p \in People |-> IF LinksOf(d, t)[p] # 0 THEN LinksOf(d, t)[p]
                            ELSE IF LinkRow(d, p) \in deleted[w] THEN 0 ELSE links[d][p]]
<1>1. d \in Docs /\ t \in Texts
  BY OpenDoc DEF Commit
<1>2. /\ chunks \in [Docs -> [AllParts -> Texts \cup {None}]]
      /\ links \in [Docs -> [People -> AllPlaces \cup {0}]]
      /\ count \in [Docs -> AllParts \cup {0}]
  BY DEF TypeOK
<1>3. /\ chunks' = [chunks EXCEPT ![d] = newChunks]
      /\ links' = [links EXCEPT ![d] = newLinks]
      /\ count' = [count EXCEPT ![d] = Parts[d][t]]
  BY DEF Commit
<1>4. newChunks \in [AllParts -> Texts \cup {None}] /\ chunks[d] \in [AllParts -> Texts \cup {None}]
  BY <1>1, <1>2
<1>5. newLinks \in [People -> AllPlaces \cup {0}]
  BY <1>1, <1>2, TextsOf
<1>6. Parts[d][t] \in AllParts
  BY <1>1, PartsAreKnown
<1>7. \A k \in 1..Parts[d][t] : newChunks[k] = t
  <2>1. 1..Parts[d][t] \subseteq AllParts /\ Parts[d][t] \in Nat
    BY <1>1, PartsAreKnown
  <2>. QED
    BY <2>1
<1>. HIDE DEF newChunks, newLinks
<1>8. /\ chunks' \in [Docs -> [AllParts -> Texts \cup {None}]]
      /\ links' \in [Docs -> [People -> AllPlaces \cup {0}]]
      /\ count' \in [Docs -> AllParts \cup {0}]
  BY <1>2, <1>3, <1>4, <1>5, <1>6
<1>9. Close(w, deleted[w]) /\ UNCHANGED <<todo, failed>>
  BY DEF Commit
<1>10. TypeOK'
  BY <1>8, <1>9, CloseType DEF TypeOK
<1>11. /\ chunks'[d] = newChunks /\ count'[d] = Parts[d][t]
       /\ \A e \in Docs \ {d} : chunks'[e] = chunks[e] /\ links'[e] = links[e] /\ count'[e] = count[e]
  BY <1>1, <1>2, <1>3
<1>. QED
  BY <1>7, <1>10, <1>11

LEMMA CommitInv ==
  ASSUME IInv, NEW w \in Workers, Commit(w)
  PROVE  IInv'
<1>1. TypeOK /\ Close(w, deleted[w]) /\ UNCHANGED todo /\ stage[w] = "write"
  BY DEF Commit, IInv
<1>2. TypeOK' /\ \A e \in Docs \ {doc[w]} : chunks'[e] = chunks[e] /\ links'[e] = links[e]
  BY <1>1, CommitType
<1>. QED
  BY <1>1, <1>2, Ends

LEMMA StepInv == IInv /\ [Next]_vars => IInv'
<1> SUFFICES ASSUME IInv, [Next]_vars PROVE IInv'
  OBVIOUS
<1>1. ASSUME NEW w \in Workers, Step(w) \/ Fault(w) PROVE IInv'
  <2>1. CASE \E d \in Docs : Begin(w, d)
    BY <2>1, BeginInv
  <2>2. CASE DeleteLinks(w)
    BY <2>2, DeleteInv DEF DeleteLinks
  <2>3. CASE SeeChunks(w)
    BY <2>3, SeeChunksInv
  <2>4. CASE DeleteChunks(w)
    BY <2>4, DeleteInv DEF DeleteChunks
  <2>5. CASE Write(w)
    BY <2>5, WriteInv
  <2>6. CASE Commit(w)
    BY <2>6, CommitInv
  <2>7. CASE DeadlockVictim(w) \/ LinkClash(w) \/ Canceled(w) \/ Fault(w)
    <3>1. stage[w] # "idle" /\ Fail(w)
      BY <2>7 DEF DeadlockVictim, InCycle, LinkClash, Canceled, Fault, Open
    <3>. QED
      BY <3>1, FailInv
  <2>. QED
    BY <1>1, <2>1, <2>2, <2>3, <2>4, <2>5, <2>6, <2>7 DEF Step
<1>2. CASE UNCHANGED vars
  <2>1. TypeOK'
    BY <1>2 DEF vars, IInv, TypeOK
  <2>2. ASSUME NEW w \in Workers PROVE RowsKnown(w)' /\ MetKnown(w)'
    BY <1>2 DEF vars, IInv, RowsKnown, MetKnown, Partners, Open
  <2>3. ASSUME NEW w \in Workers PROVE SeesCurrent(w)' /\ Covered(w)'
    <3>1. Partners(w)' = Partners(w)
      BY <1>2 DEF vars, Partners, Open
    <3>2. Undisturbed(w)' = Undisturbed(w)
      BY <1>2, <3>1 DEF vars, Undisturbed
    <3>3. SeesCurrent(w)'
      BY <1>2, <3>2 DEF vars, IInv, SeesCurrent, Sees, CommittedLinks, CommittedChunks
    <3>4. Covers(w)' = Covers(w)
      BY <1>2 DEF vars, Covers, CommittedChunks
    <3>5. Covered(w)'
      BY <1>2, <3>1, <3>2, <3>4 DEF vars, IInv, Covered
    <3>. QED
      BY <3>3, <3>5
  <2>4. ASSUME NEW u \in Workers, NEW w \in Workers PROVE Exclusive(u, w)'
    <3>1. \A x, row : Holds(x, row)' <=> Holds(x, row)
      BY <1>2 DEF vars, Holds, WritesOf
    <3>. QED
      BY <3>1 DEF IInv, Exclusive
  <2>. QED
    BY <2>1, <2>2, <2>3, <2>4 DEF IInv
<1>. QED
  BY <1>1, <1>2 DEF Next

LEMMA Invariance == Spec => []IInv
BY InitInv, StepInv, PTL DEF Spec

-----------------------------------------------------------------------------
(* Who waits for whom.                                                     *)

Edge(u, v) == WaitsFor(u, v)

Closed(S, w) == \A u, v \in Open : Edge(u, v) /\ u \in S \cup {w} => v \in S

\* The transactions that w waits for, directly or not.
Reach(w) == {v \in Open : \A S \in SUBSET Open : Closed(S, w) => v \in S}

\* The cycles that w is in.
Cycle(w) == {v \in Reach(w) : w \in Reach(v)}

LEMMA InCycleReaches ==
  ASSUME NEW w, InCycle(w)
  PROVE  w \in Open /\ w \in Reach(w)
<1>. DEFINE waits == {e \in Open \X Open : WaitsFor(e[1], e[2])}
<1>1. /\ w \in Open
      /\ \A S \in SUBSET Open : (\A e \in waits : e[1] \in S \cup {w} => e[2] \in S) => w \in S
  BY DEF InCycle
<1>2. ASSUME NEW S \in SUBSET Open, Closed(S, w), NEW e \in waits, e[1] \in S \cup {w}
      PROVE  e[2] \in S
  <2>1. e[1] \in Open /\ e[2] \in Open /\ WaitsFor(e[1], e[2])
    OBVIOUS
  <2>. QED
    BY <1>2, <2>1 DEF Closed, Edge
<1>. HIDE DEF waits
<1>. QED
  BY <1>1, <1>2 DEF Reach

LEMMA ReachGoesOn ==
  ASSUME NEW w, NEW v \in Open, v = w \/ v \in Reach(w), NEW x \in Open, Edge(v, x)
  PROVE  x \in Reach(w)
BY DEF Reach, Closed

LEMMA ReachGoesBack ==
  ASSUME NEW v \in Open, NEW w, w \in Reach(v)
  PROVE  \E x \in Open : Edge(v, x) /\ (w = x \/ w \in Reach(x))
<1>. DEFINE S == {y \in Open : \E x \in Open : Edge(v, x) /\ (y = x \/ y \in Reach(x))}
<1>1. ASSUME NEW u \in Open, NEW z \in Open, Edge(u, z), u \in S \cup {v} PROVE z \in S
  <2>1. CASE u = v
    BY <1>1, <2>1
  <2>2. CASE u \in S
    <3>1. PICK x \in Open : Edge(v, x) /\ (u = x \/ u \in Reach(x))
      BY <2>2
    <3>2. z \in Reach(x)
      BY <1>1, <3>1, ReachGoesOn
    <3>. QED
      BY <3>1, <3>2
  <2>. QED
    BY <1>1, <2>1, <2>2
<1>2. Closed(S, v)
  BY <1>1 DEF Closed
<1>3. w \in S
  BY <1>2 DEF Reach
<1>. QED
  BY <1>3

\* Who is in a cycle is waited for, and waits for one that is in it too.
LEMMA CycleGoesOn ==
  ASSUME NEW w \in Open, w \in Reach(w), NEW v \in Cycle(w)
  PROVE  /\ v \in Open
         /\ \E u \in Open : Edge(u, v)
         /\ \E x \in Cycle(w) : Edge(v, x)
<1>1. v \in Open /\ v \in Reach(w) /\ w \in Reach(v)
  BY DEF Cycle, Reach
<1>2. \E u \in Open : Edge(u, v)
  <2>. DEFINE S == {y \in Open : \E u \in Open : Edge(u, y)}
  <2>1. Closed(S, w)
    BY DEF Closed
  <2>2. v \in S
    BY <1>1, <2>1 DEF Reach
  <2>. QED
    BY <2>2
<1>3. PICK x \in Open : Edge(v, x) /\ (w = x \/ w \in Reach(x))
  BY <1>1, ReachGoesBack
<1>4. x \in Reach(w)
  BY <1>1, <1>3, ReachGoesOn
<1>5. x \in Cycle(w)
  BY <1>3, <1>4 DEF Cycle
<1>. QED
  BY <1>1, <1>2, <1>3, <1>5

-----------------------------------------------------------------------------
(* Of two that have met nobody else, one holds nothing.                    *)

LEMMA OnlyOne ==
  ASSUME IInv, NEW u \in Open, NEW w \in Partners(u), Cardinality(met[u]) <= 1
  PROVE  Undisturbed(u)
<1>1. u \in Workers /\ RunOf[w] \in met[u] /\ stage[u] # "idle"
  BY DEF IInv, MetKnown, Open
<1>2. met[u] = {RunOf[w]}
  BY <1>1, OnlyMet DEF IInv
<1>3. \A x \in Partners(u) : RunOf[x] \in met[u]
  BY <1>1 DEF IInv, MetKnown
<1>. QED
  BY <1>2, <1>3 DEF Undisturbed

LEMMA FirstWrite ==
  ASSUME IInv, NEW w \in Workers, done[w] # 0
  PROVE  Holds(w, DocumentRow(doc[w]))
<1>1. stage[w] = "write" /\ done[w] \in Nat
  BY DEF IInv, RowsKnown, TypeOK
<1>2. doc[w] \in Docs /\ RunOf[w] \in Texts
  BY <1>1, OpenDoc DEF IInv
<1>3. 1 \in 1..done[w] /\ WritesOf(w)[1] = DocumentRow(doc[w])
  BY <1>1, <1>2, WritesShape DEF WritesOf
<1>. QED
  BY <1>3 DEF Holds

HoldsAny(w) == deleted[w] # {} \/ done[w] # 0

LEMMA OneHolds ==
  ASSUME IInv, NEW u \in Open, NEW w \in Open, u # w, doc[u] = doc[w],
         Cardinality(met[u]) <= 1, Cardinality(met[w]) <= 1
  PROVE  ~(HoldsAny(u) /\ HoldsAny(w))
<1> SUFFICES ASSUME HoldsAny(u), HoldsAny(w) PROVE FALSE
  OBVIOUS
<1>. DEFINE L == CommittedLinks(doc[u])
            K == CommittedChunks(doc[u])
<1>1. u \in Workers /\ w \in Workers /\ stage[u] # "idle" /\ stage[w] # "idle"
  BY DEF Open
<1>2. w \in Partners(u) /\ u \in Partners(w)
  BY DEF Partners
<1>3. Sees(u) /\ Sees(w)
  BY <1>1, <1>2, OnlyOne DEF IInv, SeesCurrent
<1>4. stage[u] \in Stages /\ stage[w] \in Stages
  BY <1>1 DEF IInv, TypeOK
<1>5. ASSUME NEW row PROVE ~(Holds(u, row) /\ Holds(w, row))
  BY <1>1 DEF IInv, Exclusive
<1>6. stage[u] # "links" /\ stage[w] # "links"
  BY <1>1 DEF HoldsAny, IInv, RowsKnown
<1>7. L \subseteq deleted[u] /\ L \subseteq deleted[w]
  BY <1>3, <1>4, <1>6, <1>1 DEF Sees, Stages
<1>8. L = {}
  BY <1>5, <1>7 DEF Holds
<1>9. stage[u] = "write" /\ stage[w] = "write"
  BY <1>1, <1>3, <1>4, <1>6, <1>8 DEF Sees, Stages, HoldsAny, IInv, RowsKnown
<1>10. deleted[u] = K /\ deleted[w] = K
  BY <1>3, <1>8, <1>9 DEF Sees
<1>11. K = {}
  BY <1>5, <1>10 DEF Holds
<1>12. Holds(u, DocumentRow(doc[u])) /\ Holds(w, DocumentRow(doc[w]))
  BY <1>1, <1>10, <1>11, FirstWrite DEF HoldsAny
<1>. QED
  BY <1>5, <1>12

LEMMA WantedRows ==
  ASSUME IInv, NEW v \in Open, NEW row \in Wanted(v)
  PROVE  /\ ~IsPerson(row) => IsOf(row, doc[v])
         /\ IsPerson(row) => /\ Wanted(v) = {row}
                             /\ \E j \in 1..Len(List(v)) : done[v] + 1 = 2 * j /\ List(v)[j] = row[2]
<1>1. v \in Workers /\ doc[v] \in Docs /\ RunOf[v] \in Texts
  BY OpenDoc DEF IInv, Open
<1>2. CASE row \in target[v] /\ Wanted(v) = target[v]
  BY <1>1, <1>2 DEF IInv, RowsKnown, IsOf, IsPerson
<1>3. CASE done[v] < Len(WritesOf(v)) /\ Wanted(v) = {WritesOf(v)[done[v] + 1]}
  <2>1. done[v] + 1 \in 1..Len(WritesOf(v)) /\ row = WritesOf(v)[done[v] + 1]
    BY <1>1, <1>3, WritesShape DEF IInv, TypeOK, WritesOf
  <2>. QED
    BY <1>1, <1>3, <2>1, WriteKinds DEF WritesOf, List
<1>. QED
  BY <1>2, <1>3 DEF Wanted

LEMMA HeldRows ==
  ASSUME IInv, NEW x \in Open, NEW row, Holds(x, row)
  PROVE  /\ HoldsAny(x)
         /\ ~IsPerson(row) => IsOf(row, doc[x])
         /\ IsPerson(row) => \E j \in 1..Len(List(x)) : 2 * j <= done[x] /\ List(x)[j] = row[2]
<1>1. x \in Workers /\ doc[x] \in Docs /\ RunOf[x] \in Texts
  BY OpenDoc DEF IInv, Open
<1>2. CASE row \in deleted[x]
  BY <1>1, <1>2 DEF IInv, RowsKnown, IsOf, IsPerson, HoldsAny
<1>3. CASE \E i \in 1..done[x] : WritesOf(x)[i] = row
  <2>1. PICK i \in 1..done[x] : WritesOf(x)[i] = row
    BY <1>3
  <2>2. done[x] \in Nat /\ done[x] <= Len(WritesOf(x)) /\ Len(WritesOf(x)) \in Nat
    BY <1>1, NamesAssumption, WritesShape DEF IInv, TypeOK, WritesOf
  <2>3. i \in 1..Len(WritesOf(x)) /\ i <= done[x] /\ done[x] # 0
    BY <2>1, <2>2
  <2>. QED
    BY <1>1, <2>1, <2>3, WriteKinds DEF WritesOf, List, HoldsAny
<1>. QED
  BY <1>2, <1>3 DEF Holds

LEMMA DeadlockLemma == IInv => DeadlockNeedsCrossing
<1> SUFFICES ASSUME IInv, NEW w \in Workers, InCycle(w),
                    \A u \in Open : ~(Cardinality(met[u]) > 1)
             PROVE  ListsCross
  BY DEF DeadlockNeedsCrossing
<1>1. w \in Open /\ w \in Reach(w) /\ w \in Cycle(w)
  BY InCycleReaches DEF Cycle
<1>2. ASSUME NEW u \in Open PROVE Cardinality(met[u]) <= 1
  <2>1. IsFiniteSet(met[u])
    BY NamesAssumption, FS_Subset DEF IInv, TypeOK, Open
  <2>2. Cardinality(met[u]) \in Nat
    BY <2>1, FS_CardinalityType
  <2>. QED
    BY <2>2
<1>3. ASSUME NEW v \in Cycle(w)
      PROVE  /\ v \in Open
             /\ \E x \in Cycle(w) : \E row \in Wanted(v) : Holds(x, row) /\ IsPerson(row)
  <2>1. v \in Open /\ \E u \in Open : Edge(u, v)
    BY <1>1, CycleGoesOn
  <2>2. HoldsAny(v)
    BY <2>1, HeldRows DEF Edge, WaitsFor
  <2>3. PICK x \in Cycle(w) : Edge(v, x)
    BY <1>1, CycleGoesOn
  <2>4. x \in Open
    BY DEF Cycle, Reach
  <2>5. PICK row \in Wanted(v) : Holds(x, row)
    BY <2>3 DEF Edge, WaitsFor
  <2>6. IsPerson(row)
    <3> SUFFICES ASSUME ~IsPerson(row) PROVE FALSE
      OBVIOUS
    <3>1. IsOf(row, doc[v]) /\ IsOf(row, doc[x]) /\ HoldsAny(x)
      BY <2>1, <2>4, <2>5, WantedRows, HeldRows
    <3>2. doc[v] = doc[x] /\ v # x
      BY <2>3, <3>1 DEF IsOf, Edge, WaitsFor
    <3>. QED
      BY <1>2, <2>1, <2>2, <2>4, <3>1, <3>2, OneHolds
  <2>. QED
    BY <2>1, <2>5, <2>6
<1>. DEFINE Person(v) == (CHOOSE row \in Wanted(v) : IsPerson(row))[2]
            S == {Person(v) : v \in Cycle(w)}
<1>4. ASSUME NEW v \in Cycle(w)
      PROVE  \E row \in Wanted(v) :
               /\ IsPerson(row) /\ Person(v) = row[2]
               /\ \E j \in 1..Len(List(v)) : done[v] + 1 = 2 * j /\ List(v)[j] = Person(v)
               /\ \E x \in Cycle(w) : Holds(x, row)
  <2>1. PICK row \in Wanted(v) : IsPerson(row) /\ \E x \in Cycle(w) : Holds(x, row)
    BY <1>3
  <2>2. Wanted(v) = {row} /\ \E j \in 1..Len(List(v)) : done[v] + 1 = 2 * j /\ List(v)[j] = row[2]
    BY <1>3, <2>1, WantedRows
  <2>3. (CHOOSE r \in Wanted(v) : IsPerson(r)) = row
    BY <2>1, <2>2
  <2>. QED
    BY <2>1, <2>2, <2>3
<1>. HIDE DEF Person
<1>5. ASSUME NEW v \in Cycle(w)
      PROVE  Person(v) \in People /\ \E x \in Cycle(w) : Before(Person(v), Person(x))
  <2>1. PICK row \in Wanted(v) : /\ IsPerson(row) /\ Person(v) = row[2]
                                 /\ \E x \in Cycle(w) : Holds(x, row)
    BY <1>4
  <2>2. PICK x \in Cycle(w) : Holds(x, row)
    BY <2>1
  <2>3. x \in Open /\ x \in Workers /\ doc[x] \in Docs /\ RunOf[x] \in Texts
    BY <1>3, OpenDoc DEF IInv, Open
  <2>4. PICK i \in 1..Len(List(x)) : 2 * i <= done[x] /\ List(x)[i] = Person(v)
    BY <2>1, <2>2, <2>3, HeldRows
  <2>5. PICK j \in 1..Len(List(x)) : done[x] + 1 = 2 * j /\ List(x)[j] = Person(x)
    BY <1>4
  <2>6. DOMAIN List(x) = 1..Len(List(x)) /\ List(x) \in Seq(People) /\ Len(List(x)) \in Nat
    BY <2>3, ListType DEF List
  <2>7. i < j
    BY <2>3, <2>4, <2>5, <2>6 DEF IInv, TypeOK
  <2>8. Before(Person(v), Person(x))
    BY <2>3, <2>4, <2>5, <2>6, <2>7 DEF Before
  <2>9. Person(v) \in People
    BY <2>4, <2>6
  <2>. QED
    BY <2>8, <2>9
<1>6. S \in (SUBSET People) \ {{}}
  BY <1>1, <1>5
<1>7. \A p \in S : \E q \in S : Before(p, q)
  BY <1>5
<1>. QED
  BY <1>6, <1>7 DEF ListsCross

-----------------------------------------------------------------------------
(* The theorems.                                                           *)

(***************************************************************************)
(* The variables of ConcurrentIndexers keep their types.                   *)
(***************************************************************************)
THEOREM TypeCorrect == Spec => []TypeOK
BY Invariance, PTL DEF IInv

(***************************************************************************)
(* With any number of runs, workers and documents, a cycle of waits comes  *)
(* from intervenants that documents name in different orders, or from      *)
(* three runs at one document (store.go, upsertDocumentChunks).            *)
(***************************************************************************)
THEOREM DeadlocksNeedCrossing == Spec => []DeadlockNeedsCrossing
BY Invariance, DeadlockLemma, PTL

(***************************************************************************)
(* Whatever overlaps, the count of a document speaks of parts that are all *)
(* there and of one text.                                                  *)
(***************************************************************************)
THEOREM CountsAreTrue == Spec => []CountedPartsAgree
<1>1. Init => CountedPartsAgree
  <2> SUFFICES ASSUME Init, NEW d \in Docs, count[d] # 0
               PROVE  \E t \in Texts : count[d] = Parts[d][t] /\ \A k \in 1..count[d] : chunks[d][k] = t
    BY DEF CountedPartsAgree
  <2>1. Old \in Texts
    BY DEF Texts
  <2>2. count[d] = Parts[d][Old] /\ chunks[d] = ChunksOf(d, Old)
    BY DEF Init
  <2>3. \A k \in 1..Parts[d][Old] : ChunksOf(d, Old)[k] = Old
    BY <2>1, PartsAreKnown DEF ChunksOf
  <2>. QED
    BY <2>1, <2>2, <2>3
<1>2. IInv /\ CountedPartsAgree /\ [Next]_vars => CountedPartsAgree'
  <2> SUFFICES ASSUME IInv, CountedPartsAgree, [Next]_vars PROVE CountedPartsAgree'
    OBVIOUS
  <2>1. CASE UNCHANGED <<chunks, count>>
    BY <2>1 DEF CountedPartsAgree
  <2>2. ASSUME NEW w \in Workers, Commit(w) PROVE CountedPartsAgree'
    <3>1. RunOf[w] \in Texts /\ TypeOK
      BY OpenDoc DEF IInv
    <3>2. /\ \A e \in Docs \ {doc[w]} : chunks'[e] = chunks[e] /\ count'[e] = count[e]
          /\ count'[doc[w]] = Parts[doc[w]][RunOf[w]]
          /\ \A k \in 1..Parts[doc[w]][RunOf[w]] : chunks'[doc[w]][k] = RunOf[w]
      BY <2>2, <3>1, CommitType
    <3> SUFFICES ASSUME NEW d \in Docs, count'[d] # 0
                 PROVE  \E t \in Texts : /\ count'[d] = Parts[d][t]
                                         /\ \A k \in 1..count'[d] : chunks'[d][k] = t
      BY DEF CountedPartsAgree
    <3>3. CASE d = doc[w]
      BY <3>1, <3>2, <3>3
    <3>4. CASE d # doc[w]
      BY <3>2, <3>4 DEF CountedPartsAgree
    <3>. QED
      BY <3>3, <3>4
  <2>3. UNCHANGED <<chunks, count>> \/ \E w \in Workers : Commit(w)
    BY DEF Next, Step, Begin, DeleteLinks, DeleteChunks, Delete, SeeChunks, Write, DeadlockVictim,
           LinkClash, Canceled, Fault, Fail, vars, db
  <2>. QED
    BY <2>1, <2>2, <2>3
<1>. QED
  BY <1>1, <1>2, Invariance, PTL DEF Spec

(***************************************************************************)
(* A commit that overlapped with no other run, or with one only and had    *)
(* links to wait for, leaves the chunks of its own text and no other: the  *)
(* DELETEs of upsertDocumentChunks (store.go) have seen them all.          *)
(***************************************************************************)
THEOREM CommitsReplaceAll == Spec => CommitReplacesAll
<1>1. IInv /\ [Next]_vars => [\A w \in Workers : Commit(w) => ReplacesAll(w)]_vars
  <2> SUFFICES ASSUME IInv, NEW w \in Workers, Commit(w),
                      met[w] = {} \/ (hadLinks[w] /\ Cardinality(met[w]) = 1)
               PROVE  chunks'[doc[w]] = ChunksOf(doc[w], RunOf[w])
    BY DEF ReplacesAll
  <2>. DEFINE d == doc[w]
              t == RunOf[w]
  <2>1. stage[w] = "write" /\ d \in Docs
    BY OpenDoc DEF Commit, IInv
  <2>2. CommittedChunks(d) \subseteq deleted[w]
    BY <2>1 DEF IInv, Covered, Covers
  <2>3. chunks'[d] = [k \in AllParts |-> IF k <= Parts[d][t] THEN t
                                        ELSE IF ChunkRow(d, k) \in deleted[w] THEN None
                                        ELSE chunks[d][k]]
    BY <2>1 DEF Commit, IInv, TypeOK
  <2>4. ASSUME NEW k \in AllParts, ChunkRow(d, k) \notin deleted[w] PROVE chunks[d][k] = None
    BY <2>2, <2>4 DEF CommittedChunks
  <2>. QED
    BY <2>3, <2>4 DEF ChunksOf
<1>. QED
  BY <1>1, Invariance, PTL DEF Spec, CommitReplacesAll
=============================================================================
