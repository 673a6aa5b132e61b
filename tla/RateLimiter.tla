---------------------------- MODULE RateLimiter -----------------------------
(***************************************************************************)
(* The limiter of POST /api/v1/qa/query: qaRateLimitMiddleware and         *)
(* qaRateLimiter.allow (backend/internal/http/middleware.go), with the     *)
(* buckets of golang.org/x/time/rate.                                      *)
(*                                                                         *)
(* A bucket is made when its host is first seen, full, and removed when    *)
(* the host has not been seen for a while.  A request reads the clock      *)
(* before it takes the mutex, so that the times at which the buckets are   *)
(* asked may be out of order.                                              *)
(*                                                                         *)
(* Time is kept as ages, which stop counting when no comparison can tell   *)
(* them apart.  What a bucket holds is measured in ticks: one request is   *)
(* worth Period of them, which is 1 / QPS.                                 *)
(***************************************************************************)
EXTENDS Naturals

CONSTANTS Hosts,     \* the keys of qaClientKey
          Requests,  \* bound on the requests that are in the limiter at once
          Period,    \* ticks it takes to earn a request, 1 / QPS
          Burst,     \* requests a bucket holds
          Interval,  \* CleanupInterval
          MaxLag     \* bound on the ticks between reading the clock and the mutex

\* qaRateLimitMiddleware limits nothing otherwise; newQARateLimiter replaces an
\* interval that is not positive.
ASSUME RatesAssumption == {Period, Burst, Interval} \subseteq Nat \ {0}
ASSUME LagAssumption == MaxLag \in Nat

Full == Burst * Period
StaleAfter == 2 * Interval
Longest(a, b) == IF a > b THEN a ELSE b
MaxAge == Longest(Full, StaleAfter) + MaxLag + 1

\* A qaVisitor: the tokens and the time of its rate.Limiter, and lastSeen.
Visitor == [tokens : 0..Full, last : 0..MaxAge, seen : 0..MaxAge]
NoVisitor == [tokens |-> Full, last |-> MaxAge + 1, seen |-> MaxAge + 1]

\* A request that has read the clock and waits for the mutex.
Waiting == [host : Hosts, lag : 0..MaxLag]

VARIABLES visitors,  \* qaRateLimiter.visitors
          cleaned,   \* the age of lastCleanup
          waiting    \* the requests before the mutex, each as a set of at most one

vars == <<visitors, cleaned, waiting>>

TypeOK == /\ visitors \in [Hosts -> Visitor \cup {NoVisitor}]
          /\ cleaned \in 0..MaxAge
          /\ waiting \in [Requests -> {{}} \cup {{w} : w \in Waiting}]

Init == /\ visitors = [h \in Hosts |-> NoVisitor]
        /\ cleaned = 0
        /\ waiting = [r \in Requests |-> {}]

-----------------------------------------------------------------------------
(* rate.Limiter, as AllowN uses it.                                        *)

\* Limiter.advance: what there is at the time that is `behind` ago.  A time before
\* the last one adds nothing.
Tokens(v, behind) ==
  LET earned == IF v.last > behind THEN v.last - behind ELSE 0
  IN  IF v.tokens + earned < Full THEN v.tokens + earned ELSE Full

\* AllowN takes a token out and moves the limiter to that time, be it back.
TakeToken(v, behind) == [v EXCEPT !.tokens = Tokens(v, behind) - Period, !.last = behind]

-----------------------------------------------------------------------------
(* qaRateLimiter.allow, under the mutex, by a clock that is `behind`.      *)

\* Mutant: a bucket goes stale while its host is at work.
StaleByLastToken(v, behind) == v # NoVisitor /\ v.last > Interval + behind

IsStale(v, behind) == v # NoVisitor /\ v.seen > StaleAfter + behind

CleanupIsDue(behind) == cleaned >= Interval + behind

Cleanup(behind) ==
  IF CleanupIsDue(behind)
  THEN [h \in Hosts |-> IF IsStale(visitors[h], behind) THEN NoVisitor ELSE visitors[h]]
  ELSE visitors

NewVisitor(behind) == [tokens |-> Full, last |-> behind, seen |-> behind]

\* The visitor of a host after the cleanup, seen now.
Seen(h, behind) ==
  LET v == Cleanup(behind)[h]
  IN  IF v = NoVisitor THEN NewVisitor(behind) ELSE [v EXCEPT !.seen = behind]

Decide(r, w, v) ==
  /\ visitors' = [Cleanup(w.lag) EXCEPT ![w.host] = v]
  /\ cleaned' = IF CleanupIsDue(w.lag) THEN w.lag ELSE cleaned
  /\ waiting' = [waiting EXCEPT ![r] = {}]

\* The request passes to the handler.
Admit(r) == \E w \in waiting[r] :
  LET v == Seen(w.host, w.lag)
  IN  /\ Tokens(v, w.lag) >= Period
      /\ Decide(r, w, TakeToken(v, w.lag))

\* Mutant: a bucket that is asked in vain starts to earn anew.
RefuseAndForget(r) == \E w \in waiting[r] :
  LET v == Seen(w.host, w.lag)
  IN  /\ Tokens(v, w.lag) < Period
      /\ Decide(r, w, [v EXCEPT !.last = w.lag])

\* The request is answered with 429.
Refuse(r) == \E w \in waiting[r] :
  LET v == Seen(w.host, w.lag)
  IN  /\ Tokens(v, w.lag) < Period
      /\ Decide(r, w, v)

\* The middleware reads the clock.
Arrive(r, h) ==
  /\ waiting[r] = {}
  /\ waiting' = [waiting EXCEPT ![r] = {[host |-> h, lag |-> 0]}]
  /\ UNCHANGED <<visitors, cleaned>>

-----------------------------------------------------------------------------
Older(age) == IF age < MaxAge THEN age + 1 ELSE age

Tick ==
  /\ \A r \in Requests : \A w \in waiting[r] : w.lag < MaxLag
  /\ visitors' = [h \in Hosts |->
       IF visitors[h] = NoVisitor THEN NoVisitor
       ELSE [visitors[h] EXCEPT !.last = Older(@), !.seen = Older(@)]]
  /\ cleaned' = Older(cleaned)
  /\ waiting' = [r \in Requests |-> {[w EXCEPT !.lag = @ + 1] : w \in waiting[r]}]

Next == \/ \E r \in Requests, h \in Hosts : Arrive(r, h)
        \/ \E r \in Requests : Admit(r) \/ Refuse(r)
        \/ Tick

Spec == Init /\ [][Next]_vars

(***************************************************************************)
(* Time passes, and a request gets the mutex, which nobody holds across a  *)
(* call.                                                                   *)
(***************************************************************************)
Fairness == WF_vars(Tick) /\ \A r \in Requests : WF_vars(Admit(r) \/ Refuse(r))
FairSpec == Spec /\ Fairness

-----------------------------------------------------------------------------
(* Properties.                                                             *)

\* What a host could still spend, by the clock of Tick.
Level(h) == IF visitors[h] = NoVisitor THEN Full ELSE Tokens(visitors[h], 0)

(***************************************************************************)
(* What it takes: a removed bucket would be full again, and a request gets *)
(* the mutex before its host has earned another.  The configuration        *)
(* enforces neither; its default (a cleanup every minute, three requests   *)
(* of one second) satisfies the first by far.                              *)
(***************************************************************************)
CleanupIsSlow == Full + MaxLag <= StaleAfter + 1
LagIsShort == MaxLag <= Period

(***************************************************************************)
(* The removal of idle buckets and the times out of order together give no *)
(* host more than a bucket that is never removed, and asked in order,      *)
(* would: except that a request may be cheaper by the ticks its clock was  *)
(* behind.                                                                 *)
(***************************************************************************)
Bucket == INSTANCE TokenBucket
            WITH Cost <- Period - MaxLag,
                 level <- [h \in Hosts |-> Level(h)]

ImplementsBucket == Bucket!Spec

(***************************************************************************)
(* A host that goes on asking is admitted again and again: neither its own *)
(* refused requests nor the clocks of others keep its bucket from filling. *)
(***************************************************************************)
NobodyStarves ==
  \A h \in Hosts :
    []<><<\E r \in Requests : Arrive(r, h)>>_vars
      => []<><<\E r \in Requests : Admit(r) /\ \E w \in waiting[r] : w.host = h>>_vars
=============================================================================
