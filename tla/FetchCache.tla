----------------------------- MODULE FetchCache -----------------------------
(***************************************************************************)
(* The file cache of data-fetch, for one URL: fetchURL with readCache,     *)
(* writeCache and cleanupExpiredCache (backend/cmd/data-fetch/main.go).    *)
(*                                                                         *)
(* A cached response is two files, the body and the meta data that hold    *)
(* the body's hash and the time of the fetch.  Nothing locks them: several *)
(* processes share the volume (parallelism 2 of the indexing Job), each    *)
(* may be killed between any two system calls, and os.WriteFile first      *)
(* truncates the file, then writes it.                                     *)
(*                                                                         *)
(* Time is kept as ages.  A body is the version of the resource it is the  *)
(* text of, and a hash of a body is the body.                              *)
(***************************************************************************)
EXTENDS Naturals

CONSTANTS Processes,
          MaxVersion,    \* bound on the versions of the resource
          TTL,           \* --cache-ttl, 0 for no limit
          Retention,     \* --cache-retention
          MaxRetries,    \* --max-retries
          ForceRefresh   \* --force-refresh

Versions == 1..MaxVersion

ASSUME VersionAssumption == MaxVersion \in Nat \ {0}
\* parseFetchConfig refuses other values.
ASSUME ConfigAssumption == /\ TTL \in Nat
                           /\ Retention \in Nat \ {0}
                           /\ MaxRetries \in Nat
                           /\ ForceRefresh \in BOOLEAN

\* What a file may hold besides what was written to it.
Absent == 0           \* no such file
Torn == MaxVersion + 1   \* truncated, or written over by another process

\* Greater ages are not told apart: the code compares them with these two only.
MaxAge == (IF TTL > Retention THEN TTL ELSE Retention) + 1
Ages == 0..MaxAge
Older(n) == IF n < MaxAge THEN n + 1 ELSE n

BodyFile == [holds : Versions \cup {Absent, Torn}, mtime : Ages]
\* Of the meta data: whether it can be decoded, the hash, and the age of FetchedAt.
MetaFile == [holds : Versions \cup {Absent, Torn}, fetched : Ages, mtime : Ages]

NoBody == [holds |-> Absent, mtime |-> 0]
NoMeta == [holds |-> Absent, fetched |-> 0, mtime |-> 0]

VARIABLES version,   \* of the resource, on the server
          retired,   \* per version, for how long it has been replaced there
          body,      \* the file .body
          meta,      \* the file .meta.json
          pc,        \* where each process is
          listed,    \* the files its cleanupExpiredCache has yet to visit
          attempt,   \* the retries it made
          holding,   \* the body it got, or the hash it read
          stamp,     \* the age of the time it will write, or has read
          result     \* what its last fetchURL returned: a version, Absent for an error

vars == <<version, retired, body, meta, pc, listed, attempt, holding, stamp, result>>

Writing == {"body", "meta"}
Stages == {"idle", "cleanBody", "cleanMeta", "read", "open", "request", "bodyOpen", "metaOpen"}
            \cup Writing

TypeOK == /\ version \in Versions
          /\ retired \in [Versions -> Ages]
          /\ body \in BodyFile
          /\ meta \in MetaFile
          /\ pc \in [Processes -> Stages]
          /\ listed \in [Processes -> SUBSET {"body", "meta"}]
          /\ attempt \in [Processes -> 0..MaxRetries]
          /\ holding \in [Processes -> Versions \cup {Absent}]
          /\ stamp \in [Processes -> Ages]
          /\ result \in [Processes -> Versions \cup {Absent}]

Init == /\ version = 1
        /\ retired = [v \in Versions |-> 0]
        /\ body = NoBody
        /\ meta = NoMeta
        /\ pc = [p \in Processes |-> "idle"]
        /\ listed = [p \in Processes |-> {}]
        /\ attempt = [p \in Processes |-> 0]
        /\ holding = [p \in Processes |-> Absent]
        /\ stamp = [p \in Processes |-> 0]
        /\ result = [p \in Processes |-> Absent]

-----------------------------------------------------------------------------
(* A run, as far as this URL is concerned.                                 *)

Goto(p, stage) == pc' = [pc EXCEPT ![p] = stage]

Finish(p, v) == /\ Goto(p, "idle")
                /\ listed' = [listed EXCEPT ![p] = {}]
                /\ attempt' = [attempt EXCEPT ![p] = 0]
                /\ holding' = [holding EXCEPT ![p] = Absent]
                /\ stamp' = [stamp EXCEPT ![p] = 0]
                /\ result' = [result EXCEPT ![p] = v]

\* cleanupExpiredCache: the directory is listed, then each file looked at.
BeginRun(p) ==
  /\ pc[p] = "idle"
  /\ listed' = [listed EXCEPT ![p] = (IF body.holds = Absent THEN {} ELSE {"body"})
                                       \cup (IF meta.holds = Absent THEN {} ELSE {"meta"})]
  /\ result' = [result EXCEPT ![p] = Absent]
  /\ Goto(p, "cleanBody")
  /\ UNCHANGED <<version, retired, body, meta, attempt, holding, stamp>>

\* A listed file that another process removed since cannot be looked at, which ends
\* the run.  (The cutoff is taken at the file's turn.)
CleanBody(p) ==
  /\ pc[p] = "cleanBody"
  /\ IF "body" \in listed[p] /\ body.holds = Absent
     THEN Finish(p, Absent) /\ UNCHANGED body
     ELSE /\ body' = IF "body" \in listed[p] /\ body.mtime > Retention THEN NoBody ELSE body
          /\ listed' = [listed EXCEPT ![p] = @ \ {"body"}]
          /\ Goto(p, "cleanMeta")
          /\ UNCHANGED <<attempt, holding, stamp, result>>
  /\ UNCHANGED <<version, retired, meta>>

AfterCleaning == IF ForceRefresh THEN "request" ELSE "read"

\* Mutant: only bodies are removed.
KeepMeta(p) ==
  /\ pc[p] = "cleanMeta"
  /\ listed' = [listed EXCEPT ![p] = {}]
  /\ Goto(p, AfterCleaning)
  /\ UNCHANGED <<version, retired, body, meta, attempt, holding, stamp, result>>

CleanMeta(p) ==
  /\ pc[p] = "cleanMeta"
  /\ IF "meta" \in listed[p] /\ meta.holds = Absent
     THEN Finish(p, Absent) /\ UNCHANGED meta
     ELSE /\ meta' = IF "meta" \in listed[p] /\ meta.mtime > Retention THEN NoMeta ELSE meta
          /\ listed' = [listed EXCEPT ![p] = {}]
          /\ Goto(p, AfterCleaning)
          /\ UNCHANGED <<attempt, holding, stamp, result>>
  /\ UNCHANGED <<version, retired, body>>

Expired(age) == TTL > 0 /\ age > TTL

\* readCache, up to the age of the entry.  Meta data that cannot be decoded is an
\* error, and ends the run.
ReadMeta(p) ==
  /\ pc[p] = "read"
  /\ IF meta.holds = Torn THEN Finish(p, Absent)
     ELSE IF meta.holds = Absent \/ Expired(meta.fetched)
     THEN Goto(p, "request") /\ UNCHANGED <<listed, attempt, holding, stamp, result>>
     ELSE /\ Goto(p, "open")
          /\ holding' = [holding EXCEPT ![p] = meta.holds]
          /\ stamp' = [stamp EXCEPT ![p] = meta.fetched]
          /\ UNCHANGED <<listed, attempt, result>>
  /\ UNCHANGED <<version, retired, body, meta>>

\* Mutant: the hash is not compared with the body's.
ReadAnyBody(p) ==
  /\ pc[p] = "open"
  /\ IF body.holds # Absent THEN Finish(p, body.holds)
     ELSE /\ Goto(p, "request")
          /\ holding' = [holding EXCEPT ![p] = Absent]
          /\ stamp' = [stamp EXCEPT ![p] = 0]
          /\ UNCHANGED <<listed, attempt, result>>
  /\ UNCHANGED <<version, retired, body, meta>>

\* Mutant: a hit writes the entry again, as a fetch does.
ReadBodyAndRenew(p) ==
  /\ pc[p] = "open"
  /\ IF body.holds = holding[p]
     THEN /\ Finish(p, holding[p])
          /\ body' = [body EXCEPT !.mtime = 0]
          /\ meta' = [holds |-> body.holds, fetched |-> 0, mtime |-> 0]
     ELSE /\ Goto(p, "request")
          /\ holding' = [holding EXCEPT ![p] = Absent]
          /\ stamp' = [stamp EXCEPT ![p] = 0]
          /\ UNCHANGED <<body, meta, listed, attempt, result>>
  /\ UNCHANGED <<version, retired>>

\* readCache, the body and validateSHA.
ReadBody(p) ==
  /\ pc[p] = "open"
  /\ IF body.holds = holding[p] THEN Finish(p, holding[p])
     ELSE /\ Goto(p, "request")
          /\ holding' = [holding EXCEPT ![p] = Absent]
          /\ stamp' = [stamp EXCEPT ![p] = 0]
          /\ UNCHANGED <<listed, attempt, result>>
  /\ UNCHANGED <<version, retired, body, meta>>

\* fetchURLOnce: the body, and the time writeCache stamps it with; a request takes
\* less than a tick (defaultHTTPTimeout).
Request(p) ==
  /\ pc[p] = "request"
  /\ holding' = [holding EXCEPT ![p] = version]
  /\ stamp' = [stamp EXCEPT ![p] = 0]
  /\ Goto(p, "body")
  /\ UNCHANGED <<version, retired, body, meta, listed, attempt, result>>

\* Status 429 or 5xx: again after a delay, MaxRetries times.
RetryRequest(p) ==
  /\ pc[p] = "request"
  /\ attempt[p] < MaxRetries
  /\ attempt' = [attempt EXCEPT ![p] = @ + 1]
  /\ UNCHANGED <<version, retired, body, meta, pc, listed, holding, stamp, result>>

\* Any other failure, or the last retry: the run ends with an error.
FailRequest(p) ==
  /\ pc[p] = "request"
  /\ Finish(p, Absent)
  /\ UNCHANGED <<version, retired, body, meta>>

\* os.WriteFile(bodyPath): the open truncates the file.
TruncateBody(p) ==
  /\ pc[p] = "body"
  /\ body' = [holds |-> Torn, mtime |-> 0]
  /\ Goto(p, "bodyOpen")
  /\ UNCHANGED <<version, retired, meta, listed, attempt, holding, stamp, result>>

\* The bytes of a process that wrote since the open may show behind a shorter body;
\* those of a file that was removed since are lost.
WriteBody(p) ==
  /\ pc[p] = "bodyOpen"
  /\ \/ body.holds # Absent /\ body' = [holds |-> holding[p], mtime |-> 0]
     \/ body.holds \in Versions \ {holding[p]} /\ body' = [holds |-> Torn, mtime |-> 0]
     \/ body.holds = Absent /\ UNCHANGED body
  /\ Goto(p, "meta")
  /\ UNCHANGED <<version, retired, meta, listed, attempt, holding, stamp, result>>

\* os.WriteFile(metaPath).
TruncateMeta(p) ==
  /\ pc[p] = "meta"
  /\ meta' = [holds |-> Torn, fetched |-> 0, mtime |-> 0]
  /\ Goto(p, "metaOpen")
  /\ UNCHANGED <<version, retired, body, listed, attempt, holding, stamp, result>>

\* All meta data of a URL have one length: the last write is what is there.
WriteMeta(p) ==
  /\ pc[p] = "metaOpen"
  /\ meta' = IF meta.holds = Absent THEN meta
             ELSE [holds |-> holding[p], fetched |-> stamp[p], mtime |-> 0]
  /\ Finish(p, holding[p])
  /\ UNCHANGED <<version, retired, body>>

\* Killed, or out of disk space.
Crash(p) ==
  /\ pc[p] # "idle"
  /\ Finish(p, Absent)
  /\ UNCHANGED <<version, retired, body, meta>>

RunStep(p) == \/ CleanBody(p) \/ CleanMeta(p)
              \/ ReadMeta(p) \/ ReadBody(p)
              \/ Request(p)
              \/ RetryRequest(p)
              \/ TruncateBody(p) \/ WriteBody(p)
              \/ TruncateMeta(p) \/ WriteMeta(p)

-----------------------------------------------------------------------------
(* The server, and time.                                                   *)

ResourceChanges == /\ version < MaxVersion
                   /\ version' = version + 1
                   /\ UNCHANGED <<retired, body, meta, pc, listed, attempt, holding, stamp, result>>

Tick == /\ retired' = [v \in Versions |-> IF v < version THEN Older(retired[v]) ELSE 0]
        /\ body' = [body EXCEPT !.mtime = IF body.holds = Absent THEN 0 ELSE Older(@)]
        /\ meta' = [meta EXCEPT !.mtime = IF meta.holds = Absent THEN 0 ELSE Older(@),
                                !.fetched = IF meta.holds \in Versions THEN Older(@) ELSE 0]
        /\ stamp' = [p \in Processes |-> IF holding[p] = Absent THEN 0 ELSE Older(stamp[p])]
        /\ UNCHANGED <<version, pc, listed, attempt, holding, result>>

Next == \/ \E p \in Processes : \/ BeginRun(p)
                                \/ RunStep(p)
                                \/ FailRequest(p)
                                \/ Crash(p)
        \/ ResourceChanges
        \/ Tick

Spec == Init /\ [][Next]_vars

(***************************************************************************)
(* Runs are started again and again (the CronJob), a run that is not       *)
(* killed goes on, and time passes.                                        *)
(***************************************************************************)
Fairness == /\ WF_vars(Tick)
            /\ \A p \in Processes : WF_vars(BeginRun(p)) /\ WF_vars(RunStep(p))
FairSpec == Spec /\ Fairness

-----------------------------------------------------------------------------
(* Properties.                                                             *)

(***************************************************************************)
(* What a cache hit returns is a body the server sent, whole, and the      *)
(* server replaced it, if it did, after the fetch its meta data tell of,   *)
(* whose age ReadMeta compares with the TTL: neither a crash between the   *)
(* two files, nor another process that rewrites them between the two       *)
(* reads, makes the meta data of one fetch vouch for the body of another.  *)
(***************************************************************************)
HitsAreFresh ==
  [][\A p \in Processes :
       pc[p] = "open" /\ pc'[p] = "idle" /\ result'[p] # Absent
         => /\ result'[p] \in Versions
            /\ retired[result'[p]] <= stamp[p]]_vars

\* What may end a run with an error although nothing is killed and the server answers.
MetaIsTorn(p) == pc[p] = "read" /\ meta.holds = Torn
FileIsGone(p) == \/ pc[p] = "cleanBody" /\ "body" \in listed[p] /\ body.holds = Absent
                 \/ pc[p] = "cleanMeta" /\ "meta" \in listed[p] /\ meta.holds = Absent

(***************************************************************************)
(* Whatever a crash leaves on the disk, and whatever the processes do to   *)
(* each other: once none is killed and the server answers, at the last     *)
(* retry at the latest, runs succeed again and again, though not every     *)
(* process's.  Torn meta data make every run fail until                    *)
(* cleanupExpiredCache removes them.                                       *)
(***************************************************************************)
RunsRecover ==
  <>[][\A q \in Processes : pc[q] # "idle" /\ pc'[q] = "idle" /\ result'[q] = Absent
                              => MetaIsTorn(q) \/ FileIsGone(q)]_vars
    => []<>(\E p \in Processes : result[p] # Absent)

(***************************************************************************)
(* The cache follows the server: once the resource has its last version    *)
(* and calls no longer fail, the earlier versions are no longer returned.  *)
(***************************************************************************)
StaleBodiesEnd ==
  TTL > 0 =>
    \A v \in Versions :
      <>[](version = v)
        => <>[][\A p \in Processes :
                  result'[p] # result[p] /\ result'[p] # Absent => result'[p] = v]_vars
=============================================================================
