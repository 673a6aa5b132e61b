--------------------------- MODULE CorpusPipeline ---------------------------
(***************************************************************************)
(* From the server to the index: the command data-fetch && rag-cli index   *)
(* of the indexing pods (deploy/helm/civika/values.yaml:178), with run,    *)
(* selectVotings and processVoting of backend/cmd/data-fetch/main.go and   *)
(* IngestCorpus of backend/internal/rag/ingest.go.                         *)
(*                                                                         *)
(* data-fetch writes one file per selected voting, named by the voting and *)
(* by its rank in the selection, on a volume that outlives the pod; it     *)
(* removes none.  The index reads every file there is, in the order of the *)
(* names; of two documents of one voting it keeps the last.  Pods may be   *)
(* killed, and several may share the volume.                               *)
(*                                                                         *)
(* The votings are the page that the server lists, in its order.  A text   *)
(* is known by its version; the time of the fetch that the file carries    *)
(* with it (fetched_at_utc) decides nothing here.                          *)
(***************************************************************************)
EXTENDS Naturals, Sequences

CONSTANTS Pods,
          NumVotings,   \* on the page; up to 99, so that names sort by rank
          MayPass,      \* the votings whose day may come
          MaxTextVersion    \* bound on the versions of a voting's texts

Votings == 1..NumVotings
Ranks == 1..NumVotings
TextVersions == 1..MaxTextVersion

ASSUME NumVotingsAssumption == NumVotings \in 1..99
ASSUME MayPassAssumption == MayPass \subseteq Votings
ASSUME MaxTextVersionAssumption == MaxTextVersion \in Nat \ {0}

\* A document is the version of its texts.
NoDocument == 0           \* no file, nothing fetched, nothing indexed
TornFile == MaxTextVersion + 1    \* not JSON: truncated, or two texts in one

VARIABLES past,     \* the votings whose day has come
          latest,   \* per voting, the version of its texts on the server
          cached,   \* per voting, the version the fetch cache holds
          file,     \* the normalized files, per rank and voting
          at,       \* where each pod is
          plan,     \* the votings it selected, in order
          rank,     \* of the one it is at
          doc,      \* the document it is about to write
          batch,    \* per voting, what it ingested
          index     \* per voting, what is indexed

corpusVars == <<past, latest, cached, file, at, plan, rank, doc, batch, index>>

NoBatch == [v \in Votings |-> NoDocument]
Places == {"idle", "fetch", "write", "writing", "read", "store"}

CorpusTypeOK == /\ past \subseteq Votings
                /\ latest \in [Votings -> TextVersions]
                /\ cached \in [Votings -> TextVersions \cup {0}]
                /\ file \in [Ranks \X Votings -> TextVersions \cup {NoDocument, TornFile}]
                /\ at \in [Pods -> Places]
                /\ plan \in [Pods -> Seq(Votings)]
                /\ rank \in [Pods -> Nat]
                /\ \A p \in Pods : /\ Len(plan[p]) <= NumVotings
                                   /\ rank[p] \in 0..Len(plan[p])
                /\ doc \in [Pods -> TextVersions \cup {NoDocument}]
                /\ batch \in [Pods -> [Votings -> TextVersions \cup {NoDocument}]]
                /\ index \in [Votings -> TextVersions \cup {NoDocument}]

CorpusInit == /\ past = {}
              /\ latest = [v \in Votings |-> 1]
              /\ cached = [v \in Votings |-> 0]
              /\ file = [n \in Ranks \X Votings |-> NoDocument]
              /\ at = [p \in Pods |-> "idle"]
              /\ plan = [p \in Pods |-> <<>>]
              /\ rank = [p \in Pods |-> 0]
              /\ doc = [p \in Pods |-> NoDocument]
              /\ batch = [p \in Pods |-> NoBatch]
              /\ index = NoBatch

-----------------------------------------------------------------------------
(* data-fetch.                                                             *)

GoOnTo(p, place) == at' = [at EXCEPT ![p] = place]
Page == [i \in Ranks |-> i]

\* selectVotings: those to come, and if there are none all of them.
ToCome[i \in 0..NumVotings] ==
  IF i = 0 THEN <<>>
  ELSE IF Page[i] \in past THEN ToCome[i - 1] ELSE Append(ToCome[i - 1], Page[i])
Selected == IF ToCome[NumVotings] = <<>> THEN Page ELSE ToCome[NumVotings]

\* What a pod holds goes with it.
EndRun(p) == /\ GoOnTo(p, "idle")
             /\ plan' = [plan EXCEPT ![p] = <<>>]
             /\ rank' = [rank EXCEPT ![p] = 0]
             /\ doc' = [doc EXCEPT ![p] = NoDocument]
             /\ batch' = [batch EXCEPT ![p] = NoBatch]

StartRun(p) ==
  /\ at[p] = "idle"
  /\ plan' = [plan EXCEPT ![p] = Selected]
  /\ rank' = [rank EXCEPT ![p] = 1]
  /\ GoOnTo(p, "fetch")
  /\ UNCHANGED <<past, latest, cached, file, doc, batch, index>>

Voting(p) == plan[p][rank[p]]
FileName(p) == <<rank[p], Voting(p)>>

\* Mutant: the cache may hold any earlier version.
FetchAnything(p) ==
  /\ at[p] = "fetch"
  /\ \E v \in 1..latest[Voting(p)] :
       /\ cached' = [cached EXCEPT ![Voting(p)] = v]
       /\ doc' = [doc EXCEPT ![p] = v]
  /\ GoOnTo(p, "write")
  /\ UNCHANGED <<past, latest, file, plan, rank, batch, index>>

\* Mutant: a cached body never expires.
FetchOnce(p) ==
  /\ at[p] = "fetch"
  /\ LET v == Voting(p)
         got == IF cached[v] # 0 THEN cached[v] ELSE latest[v]
     IN  /\ cached' = [cached EXCEPT ![v] = got]
         /\ doc' = [doc EXCEPT ![p] = got]
  /\ GoOnTo(p, "write")
  /\ UNCHANGED <<past, latest, file, plan, rank, batch, index>>

\* processVoting up to the write: the texts, each from the cache (module FetchCache)
\* or from the server, and the fixture built of them.
FetchVoting(p) ==
  /\ at[p] = "fetch"
  /\ \E v \in {cached[Voting(p)], latest[Voting(p)]} \ {0} :
       /\ cached' = [cached EXCEPT ![Voting(p)] = v]
       /\ doc' = [doc EXCEPT ![p] = v]
  /\ GoOnTo(p, "write")
  /\ UNCHANGED <<past, latest, file, plan, rank, batch, index>>

\* A request fails, a body cannot be decoded or a voting has no affair: the run
\* ends, and what it has not come to stays as it is.
FailRun(p) ==
  /\ at[p] = "fetch"
  /\ EndRun(p)
  /\ UNCHANGED <<past, latest, cached, file, index>>

\* os.WriteFile truncates the file first.
TruncateFile(p) ==
  /\ at[p] = "write"
  /\ file' = [file EXCEPT ![FileName(p)] = TornFile]
  /\ GoOnTo(p, "writing")
  /\ UNCHANGED <<past, latest, cached, plan, rank, doc, batch, index>>

\* To the next voting; after the last, data-fetch has succeeded.
NextVoting(p) ==
  IF rank[p] < Len(plan[p])
  THEN /\ rank' = [rank EXCEPT ![p] = @ + 1]
       /\ GoOnTo(p, "fetch")
  ELSE /\ UNCHANGED rank
       /\ GoOnTo(p, "read")

\* Mutant: an error of the write is not looked at.
WriteFileOrNot(p) ==
  /\ at[p] = "writing"
  /\ file' \in {file, [file EXCEPT ![FileName(p)] = doc[p]]}
  /\ doc' = [doc EXCEPT ![p] = NoDocument]
  /\ NextVoting(p)
  /\ UNCHANGED <<past, latest, cached, plan, batch, index>>

\* What another pod wrote in between may show behind a shorter text.
WriteFile(p) ==
  /\ at[p] = "writing"
  /\ \/ file' = [file EXCEPT ![FileName(p)] = doc[p]]
     \/ /\ file[FileName(p)] # TornFile
        /\ file' = [file EXCEPT ![FileName(p)] = TornFile]
  /\ doc' = [doc EXCEPT ![p] = NoDocument]
  /\ NextVoting(p)
  /\ UNCHANGED <<past, latest, cached, plan, batch, index>>

-----------------------------------------------------------------------------
(* rag-cli index.                                                          *)

Files(v) == {i \in Ranks : file[<<i, v>>] # NoDocument}
LastFile(v) == CHOOSE i \in Files(v) : \A j \in Files(v) : j <= i

\* IngestCorpus.  A file that is not JSON ends the run.
ReadCorpus(p) ==
  /\ at[p] = "read"
  /\ \A n \in Ranks \X Votings : file[n] # TornFile
  /\ batch' = [batch EXCEPT ![p] =
       [v \in Votings |-> IF Files(v) = {} THEN NoDocument ELSE file[<<LastFile(v), v>>]]]
  /\ GoOnTo(p, "store")
  /\ UNCHANGED <<past, latest, cached, file, plan, rank, doc, index>>

RefuseCorpus(p) ==
  /\ at[p] = "read"
  /\ \E n \in Ranks \X Votings : file[n] = TornFile
  /\ EndRun(p)
  /\ UNCHANGED <<past, latest, cached, file, index>>

\* The rest of the run (modules IndexPool and DocumentIndex), when it succeeds.
StoreDocuments(p) ==
  /\ at[p] = "store"
  /\ index' = [v \in Votings |-> IF batch[p][v] = NoDocument THEN index[v] ELSE batch[p][v]]
  /\ EndRun(p)
  /\ UNCHANGED <<past, latest, cached, file>>

PodStep(p) == \/ FetchVoting(p)
              \/ TruncateFile(p) \/ WriteFile(p)
              \/ ReadCorpus(p) \/ RefuseCorpus(p)
              \/ StoreDocuments(p)

-----------------------------------------------------------------------------
(* What happens around the runs.                                           *)

Kill(p) == /\ at[p] # "idle"
           /\ EndRun(p)
           /\ UNCHANGED <<past, latest, cached, file, index>>

VotingPasses(v) == /\ v \in MayPass \ past
                   /\ past' = past \cup {v}
                   /\ UNCHANGED <<latest, cached, file, at, plan, rank, doc, batch, index>>

TextsChange(v) == /\ latest[v] < MaxTextVersion
                  /\ latest' = [latest EXCEPT ![v] = @ + 1]
                  /\ UNCHANGED <<past, cached, file, at, plan, rank, doc, batch, index>>

CorpusNext == \/ \E p \in Pods : StartRun(p) \/ PodStep(p) \/ FailRun(p) \/ Kill(p)
              \/ \E v \in Votings : VotingPasses(v) \/ TextsChange(v)

CorpusSpec == CorpusInit /\ [][CorpusNext]_corpusVars

\* The voting is fetched anew, not taken from the cache.
FetchNow(p, v) == FetchVoting(p) /\ Voting(p) = v /\ doc'[p] = latest[v]

(***************************************************************************)
(* Runs are started again and again (the CronJob), one that is not killed  *)
(* goes on, and a cached body is refreshed once its TTL is over            *)
(* (FetchCache!StaleBodiesEnd).                                            *)
(***************************************************************************)
CorpusFairness == \A p \in Pods : /\ WF_corpusVars(StartRun(p))
                                  /\ WF_corpusVars(PodStep(p))
                                  /\ \A v \in Votings : SF_corpusVars(FetchNow(p, v))
CorpusFairSpec == CorpusSpec /\ CorpusFairness

-----------------------------------------------------------------------------
(* Properties.                                                             *)

(***************************************************************************)
(* What a run writes for a voting is never older than what the volume      *)
(* already holds for it under any rank, whatever came from the cache and   *)
(* whatever an earlier run left half done.                                 *)
(***************************************************************************)
NewestIsWritten ==
  [][\A p \in Pods : at[p] = "writing" /\ WriteFile(p) =>
       \A i \in Ranks : file[<<i, Voting(p)>>] = TornFile \/ file[<<i, Voting(p)>>] <= doc[p]]_corpusVars

(***************************************************************************)
(* Once data-fetch has succeeded, each voting of its selection has a whole *)
(* file under its rank: what makes the index refuse the corpus is a file   *)
(* that an earlier, killed run left under a rank nobody writes any more.   *)
(***************************************************************************)
SelectionIsWhole ==
  \A p \in Pods : at[p] = "read" =>
    \A i \in 1..Len(plan[p]) : file[<<i, plan[p][i]>>] \in TextVersions

(***************************************************************************)
(* The corpus follows the server: when nothing changes there any more and  *)
(* data-fetch is no longer killed nor fails, it succeeds again and again,  *)
(* and what is then under the rank of a voting it selected is the last     *)
(* text, or torn by another pod.  The last text is also what the index     *)
(* takes in, if no voting before it on the page has passed: the rank of    *)
(* one that moves up the list leaves its older file where it was, and that *)
(* file is read last.                                                      *)
(***************************************************************************)
CorpusConverges ==
  \A vs \in [Votings -> TextVersions], ended \in SUBSET MayPass :
    /\ <>[](latest = vs /\ past = ended)
    /\ <>[][\A p \in Pods : at'[p] = "idle" => at[p] \in {"idle", "read", "store"}]_corpusVars
    => /\ []<>(\E p \in Pods : at[p] = "read")
       /\ <>[](\A p \in Pods : at[p] \in {"read", "store"} =>
                 \A i \in 1..Len(plan[p]) :
                   LET v == plan[p][i]
                   IN  /\ file[<<i, v>>] \in {TornFile, vs[v]}
                       /\ at[p] = "store" /\ (\A w \in ended : w >= v) => batch[p][v] = vs[v])
=============================================================================
