------------------------- MODULE RateLimiterProofs --------------------------
(***************************************************************************)
(* Theorems about RateLimiter, for any hosts, requests, rates, intervals   *)
(* and lags: type correctness, that it implements TokenBucket when its     *)
(* cleanup is slow enough, and how many requests of a host then pass in    *)
(* any time.                                                               *)
(***************************************************************************)
EXTENDS RateLimiter, TLAPS

\* Level, of a visitor.
LevelOf(v) == IF v = NoVisitor THEN Full ELSE Tokens(v, 0)

\* A bucket's time is the one of a request that its host was seen for, or of a
\* younger one whose clock was read at most MaxLag earlier.
SeenAgrees == \A h \in Hosts : visitors[h] # NoVisitor =>
                visitors[h].seen <= visitors[h].last + MaxLag

IInv == TypeOK /\ SeenAgrees

-----------------------------------------------------------------------------
(* The sizes, and the tokens of a visitor.                                 *)

LEMMA Sizes == /\ Period \in Nat /\ Full \in Nat /\ MaxLag \in Nat
               /\ StaleAfter \in Nat /\ MaxAge \in Nat /\ Interval \in Nat
               /\ 0 < Period /\ Period <= Full
               /\ Full + MaxLag < MaxAge
               /\ StaleAfter + MaxLag < MaxAge
<1>1. /\ Period \in Nat /\ Burst \in Nat /\ Interval \in Nat /\ MaxLag \in Nat
      /\ 0 < Period /\ 0 < Burst
  BY RatesAssumption, LagAssumption
<1>2. Full \in Nat /\ Period <= Full
  BY <1>1 DEF Full
<1>3. StaleAfter \in Nat
  BY <1>1 DEF StaleAfter
<1>. QED
  BY <1>1, <1>2, <1>3 DEF MaxAge, Longest

LEMMA NoVisitorIsNone == NoVisitor \notin Visitor
BY Sizes DEF NoVisitor, Visitor

LEMMA VisitorFields ==
  ASSUME NEW v \in Visitor
  PROVE  v.tokens \in 0..Full /\ v.last \in 0..MaxAge /\ v.seen \in 0..MaxAge
BY DEF Visitor

LEMMA TokensType ==
  ASSUME NEW v \in Visitor, NEW b \in 0..MaxLag
  PROVE  Tokens(v, b) \in 0..Full
BY Sizes, VisitorFields DEF Tokens

LEMMA NewVisitorFull ==
  ASSUME NEW b \in 0..MaxLag
  PROVE  /\ NewVisitor(b) \in Visitor
         /\ Tokens(NewVisitor(b), b) = Full
         /\ Tokens(NewVisitor(b), 0) = Full
         /\ NewVisitor(b).seen = b /\ NewVisitor(b).last = b
BY Sizes DEF NewVisitor, Visitor, Tokens

LEMMA TakeTokenFields ==
  ASSUME NEW v \in Visitor, NEW b \in 0..MaxLag, Tokens(v, b) >= Period
  PROVE  /\ TakeToken(v, b) \in Visitor
         /\ TakeToken(v, b).tokens = Tokens(v, b) - Period
         /\ TakeToken(v, b).last = b
         /\ TakeToken(v, b).seen = v.seen
<1>1. Tokens(v, b) - Period \in 0..Full /\ b \in 0..MaxAge
  BY Sizes, TokensType
<1>. QED
  BY <1>1 DEF TakeToken, Visitor

(***************************************************************************)
(* A request costs a period less the ticks its clock was behind: what a    *)
(* time out of order earns twice is no more than that.                     *)
(***************************************************************************)
LEMMA CostOfRequest ==
  ASSUME NEW v \in Visitor, NEW b \in 0..MaxLag, Tokens(v, b) >= Period, LagIsShort
  PROVE  /\ Tokens(TakeToken(v, b), 0) \in Nat
         /\ Tokens(TakeToken(v, b), 0) + (Period - MaxLag) <= Tokens(v, 0)
<1>. DEFINE t == v.tokens
            a == v.last
            u == TakeToken(v, b)
<1>1. t \in 0..Full /\ a \in 0..MaxAge /\ MaxLag <= Period
  BY VisitorFields DEF LagIsShort
<1>2. u.tokens = Tokens(v, b) - Period /\ u.last = b /\ Tokens(v, b) \in 0..Full
  BY TakeTokenFields, TokensType
<1>3. Tokens(v, 0) = IF t + a < Full THEN t + a ELSE Full
  BY <1>1, Sizes DEF Tokens
<1>4. Tokens(u, 0) = IF Tokens(v, b) - Period + b < Full THEN Tokens(v, b) - Period + b ELSE Full
  BY <1>2, Sizes DEF Tokens
<1>5. CASE a > b
  <2>1. Tokens(v, b) = IF t + (a - b) < Full THEN t + (a - b) ELSE Full
    BY <1>5 DEF Tokens
  <2>. QED
    BY <1>1, <1>3, <1>4, <1>5, <2>1, Sizes
<1>6. CASE ~(a > b)
  <2>1. Tokens(v, b) = t
    BY <1>1, <1>6, Sizes DEF Tokens
  <2>. QED
    BY <1>1, <1>3, <1>4, <1>6, <2>1, Sizes
<1>. QED
  BY <1>5, <1>6

-----------------------------------------------------------------------------
(* The cleanup, and the visitor that allow finds or makes.                 *)

LEMMA WaitingFields ==
  ASSUME TypeOK, NEW r \in Requests, NEW w \in waiting[r]
  PROVE  w \in Waiting /\ w.host \in Hosts /\ w.lag \in 0..MaxLag
<1>1. waiting[r] \in {{}} \cup {{x} : x \in Waiting}
  BY DEF TypeOK
<1>2. w \in Waiting
  BY <1>1
<1>. QED
  BY <1>2 DEF Waiting

LEMMA CleanupKeeps ==
  ASSUME TypeOK, NEW b \in 0..MaxLag
  PROVE  /\ Cleanup(b) \in [Hosts -> Visitor \cup {NoVisitor}]
         /\ \A h \in Hosts : Cleanup(b)[h] = visitors[h] \/ Cleanup(b)[h] = NoVisitor
<1>1. visitors \in [Hosts -> Visitor \cup {NoVisitor}]
  BY DEF TypeOK
<1>2. CASE CleanupIsDue(b)
  <2>1. Cleanup(b) = [h \in Hosts |-> IF IsStale(visitors[h], b) THEN NoVisitor ELSE visitors[h]]
    BY <1>2 DEF Cleanup
  <2>. QED
    BY <1>1, <2>1
<1>3. CASE ~CleanupIsDue(b)
  BY <1>1, <1>3 DEF Cleanup
<1>. QED
  BY <1>2, <1>3

(***************************************************************************)
(* What is removed was full: so far back is its last token.                *)
(***************************************************************************)
LEMMA CleanupLevel ==
  ASSUME IInv, CleanupIsSlow, NEW b \in 0..MaxLag, NEW h \in Hosts
  PROVE  LevelOf(Cleanup(b)[h]) = Level(h)
<1>1. visitors[h] \in Visitor \cup {NoVisitor}
  BY DEF IInv, TypeOK
<1>2. Level(h) = LevelOf(visitors[h])
  BY DEF Level, LevelOf
<1>3. CASE Cleanup(b)[h] = visitors[h]
  BY <1>2, <1>3
<1>4. CASE Cleanup(b)[h] # visitors[h]
  <2>1. CleanupIsDue(b) /\ IsStale(visitors[h], b) /\ Cleanup(b)[h] = NoVisitor
    BY <1>4 DEF Cleanup
  <2>2. visitors[h] \in Visitor /\ visitors[h].seen > StaleAfter + b
    BY <1>1, <2>1 DEF IsStale
  <2>3. visitors[h].seen <= visitors[h].last + MaxLag
    BY <2>1 DEF IInv, SeenAgrees, IsStale
  <2>4. visitors[h].last >= Full
    BY <2>2, <2>3, VisitorFields, Sizes DEF CleanupIsSlow
  <2>5. Tokens(visitors[h], 0) = Full
    BY <2>2, <2>4, VisitorFields, Sizes DEF Tokens
  <2>. QED
    BY <1>2, <2>1, <2>2, <2>5, NoVisitorIsNone DEF LevelOf
<1>. QED
  BY <1>3, <1>4

LEMMA SeenType ==
  ASSUME TypeOK, NEW h \in Hosts, NEW b \in 0..MaxLag
  PROVE  Seen(h, b) \in Visitor /\ Seen(h, b).seen = b
<1>1. CASE Cleanup(b)[h] = NoVisitor
  BY <1>1, NewVisitorFull DEF Seen
<1>2. CASE Cleanup(b)[h] # NoVisitor
  <2>1. Cleanup(b)[h] \in Visitor /\ b \in 0..MaxAge
    BY <1>2, CleanupKeeps, Sizes
  <2>2. Seen(h, b) = [Cleanup(b)[h] EXCEPT !.seen = b]
    BY <1>2 DEF Seen
  <2>. QED
    BY <2>1, <2>2 DEF Visitor
<1>. QED
  BY <1>1, <1>2

LEMMA SeenLevel ==
  ASSUME IInv, CleanupIsSlow, NEW h \in Hosts, NEW b \in 0..MaxLag
  PROVE  Tokens(Seen(h, b), 0) = Level(h)
<1>1. LevelOf(Cleanup(b)[h]) = Level(h)
  BY CleanupLevel
<1>2. CASE Cleanup(b)[h] = NoVisitor
  BY <1>1, <1>2, NewVisitorFull DEF Seen, LevelOf
<1>3. CASE Cleanup(b)[h] # NoVisitor
  <2>1. Cleanup(b)[h] \in Visitor
    BY <1>3, CleanupKeeps DEF IInv
  <2>2. Seen(h, b) = [Cleanup(b)[h] EXCEPT !.seen = b]
    BY <1>3 DEF Seen
  <2>3. Seen(h, b).tokens = Cleanup(b)[h].tokens /\ Seen(h, b).last = Cleanup(b)[h].last
    BY <2>1, <2>2 DEF Visitor
  <2>. QED
    BY <1>1, <1>3, <2>3 DEF LevelOf, Tokens
<1>. QED
  BY <1>2, <1>3

-----------------------------------------------------------------------------
(* The invariant.                                                          *)

LEMMA DecideKeeps ==
  ASSUME IInv, NEW r \in Requests, NEW w \in waiting[r], NEW v \in Visitor,
         v.seen = w.lag, Decide(r, w, v)
  PROVE  IInv'
<1>1. TypeOK /\ w.host \in Hosts /\ w.lag \in 0..MaxLag
  BY WaitingFields DEF IInv
<1>2. visitors' \in [Hosts -> Visitor \cup {NoVisitor}]
  BY <1>1, CleanupKeeps DEF Decide
<1>3. cleaned' \in 0..MaxAge
  BY <1>1, Sizes DEF TypeOK, Decide
<1>4. waiting' \in [Requests -> {{}} \cup {{x} : x \in Waiting}]
  BY <1>1 DEF TypeOK, Decide
<1>5. SeenAgrees'
  <2> SUFFICES ASSUME NEW h \in Hosts, visitors'[h] # NoVisitor
               PROVE  visitors'[h].seen <= visitors'[h].last + MaxLag
    BY DEF SeenAgrees
  <2>1. CASE h = w.host
    <3>1. visitors'[h] = v
      BY <1>1, <2>1, CleanupKeeps DEF Decide
    <3>. QED
      BY <1>1, <3>1, VisitorFields, Sizes
  <2>2. CASE h # w.host
    <3>1. visitors'[h] = visitors[h]
      BY <1>1, <2>2, CleanupKeeps DEF Decide
    <3>. QED
      BY <3>1 DEF IInv, SeenAgrees
  <2>. QED
    BY <2>1, <2>2
<1>. QED
  BY <1>2, <1>3, <1>4, <1>5 DEF IInv, TypeOK

\* What an admitted and a refused request decide.
LEMMA AdmitDecides ==
  ASSUME TypeOK, NEW r \in Requests, Admit(r)
  PROVE  \E w \in waiting[r] : \E v \in Visitor :
           /\ v = Seen(w.host, w.lag)
           /\ Tokens(v, w.lag) >= Period
           /\ Decide(r, w, TakeToken(v, w.lag))
<1>1. PICK w \in waiting[r] : /\ Tokens(Seen(w.host, w.lag), w.lag) >= Period
                              /\ Decide(r, w, TakeToken(Seen(w.host, w.lag), w.lag))
  BY DEF Admit
<1>2. Seen(w.host, w.lag) \in Visitor
  BY WaitingFields, SeenType
<1>. QED
  BY <1>1, <1>2

LEMMA RefuseDecides ==
  ASSUME TypeOK, NEW r \in Requests, Refuse(r)
  PROVE  \E w \in waiting[r] : \E v \in Visitor :
           /\ v = Seen(w.host, w.lag)
           /\ Decide(r, w, v)
<1>1. PICK w \in waiting[r] : Decide(r, w, Seen(w.host, w.lag))
  BY DEF Refuse
<1>2. Seen(w.host, w.lag) \in Visitor
  BY WaitingFields, SeenType
<1>. QED
  BY <1>1, <1>2

LEMMA OlderFields ==
  ASSUME NEW v \in Visitor
  PROVE  LET u == [v EXCEPT !.last = Older(@), !.seen = Older(@)]
         IN  /\ u \in Visitor
             /\ u.tokens = v.tokens
             /\ u.last = IF v.last < MaxAge THEN v.last + 1 ELSE v.last
             /\ u.seen = IF v.seen < MaxAge THEN v.seen + 1 ELSE v.seen
<1>1. Older(v.last) \in 0..MaxAge /\ Older(v.seen) \in 0..MaxAge
  BY VisitorFields, Sizes DEF Older
<1>. QED
  BY <1>1 DEF Visitor, Older

LEMMA InitInv == Init => IInv
<1> SUFFICES ASSUME Init PROVE IInv
  OBVIOUS
<1>. QED
  BY Sizes DEF Init, IInv, TypeOK, SeenAgrees

LEMMA NextInv == IInv /\ [Next]_vars => IInv'
<1> SUFFICES ASSUME IInv, [Next]_vars PROVE IInv'
  OBVIOUS
<1>. USE DEF IInv
<1>1. ASSUME NEW r \in Requests, NEW h \in Hosts, Arrive(r, h) PROVE IInv'
  <2>1. [host |-> h, lag |-> 0] \in Waiting
    BY Sizes DEF Waiting
  <2>2. TypeOK'
    BY <1>1, <2>1 DEF Arrive, TypeOK
  <2>3. SeenAgrees'
    BY <1>1 DEF Arrive, SeenAgrees
  <2>. QED
    BY <2>2, <2>3
<1>2. ASSUME NEW r \in Requests, Admit(r) PROVE IInv'
  <2>1. PICK w \in waiting[r], v \in Visitor :
          /\ v = Seen(w.host, w.lag) /\ Tokens(v, w.lag) >= Period
          /\ Decide(r, w, TakeToken(v, w.lag))
    BY <1>2, AdmitDecides
  <2>2. w.host \in Hosts /\ w.lag \in 0..MaxLag
    BY WaitingFields
  <2>3. v.seen = w.lag
    BY <2>1, <2>2, SeenType
  <2>4. TakeToken(v, w.lag) \in Visitor /\ TakeToken(v, w.lag).seen = w.lag
    BY <2>1, <2>2, <2>3, TakeTokenFields
  <2>. QED
    BY <2>1, <2>4, DecideKeeps
<1>3. ASSUME NEW r \in Requests, Refuse(r) PROVE IInv'
  <2>1. PICK w \in waiting[r], v \in Visitor :
          v = Seen(w.host, w.lag) /\ Decide(r, w, v)
    BY <1>3, RefuseDecides
  <2>2. v.seen = w.lag
    BY <2>1, WaitingFields, SeenType
  <2>. QED
    BY <2>1, <2>2, DecideKeeps
<1>4. CASE Tick
  <2>1. \A h \in Hosts : visitors[h] # NoVisitor => visitors[h] \in Visitor
    BY DEF TypeOK
  <2>2. visitors' \in [Hosts -> Visitor \cup {NoVisitor}]
    BY <1>4, <2>1, OlderFields DEF Tick
  <2>3. cleaned' \in 0..MaxAge
    <3>1. cleaned \in 0..MaxAge /\ cleaned' = Older(cleaned)
      BY <1>4 DEF Tick, TypeOK
    <3>. QED
      BY <3>1, Sizes DEF Older
  <2>4. waiting' \in [Requests -> {{}} \cup {{x} : x \in Waiting}]
    <3> SUFFICES ASSUME NEW r \in Requests
                 PROVE  {[w EXCEPT !.lag = @ + 1] : w \in waiting[r]}
                          \in {{}} \cup {{x} : x \in Waiting}
      BY <1>4 DEF Tick
    <3>1. waiting[r] = {} \/ \E x \in Waiting : waiting[r] = {x}
      BY DEF TypeOK
    <3>2. CASE waiting[r] = {}
      BY <3>2
    <3>3. ASSUME NEW x \in Waiting, waiting[r] = {x}
          PROVE  {[w EXCEPT !.lag = @ + 1] : w \in waiting[r]} \in {{y} : y \in Waiting}
      <4>1. x.lag < MaxLag /\ x.host \in Hosts /\ x.lag \in 0..MaxLag
        BY <1>4, <3>3 DEF Tick, Waiting
      <4>2. [x EXCEPT !.lag = @ + 1] \in Waiting
        BY <4>1, Sizes DEF Waiting
      <4>3. {[w EXCEPT !.lag = @ + 1] : w \in waiting[r]} = {[x EXCEPT !.lag = @ + 1]}
        BY <3>3
      <4>. QED
        BY <4>2, <4>3
    <3>. QED
      BY <3>1, <3>2, <3>3
  <2>5. SeenAgrees'
    <3> SUFFICES ASSUME NEW h \in Hosts, visitors'[h] # NoVisitor
                 PROVE  visitors'[h].seen <= visitors'[h].last + MaxLag
      BY DEF SeenAgrees
    <3>. DEFINE v == visitors[h]
                u == [v EXCEPT !.last = Older(@), !.seen = Older(@)]
    <3>1. v # NoVisitor /\ visitors'[h] = u
      BY <1>4 DEF Tick
    <3>2. v \in Visitor /\ v.seen <= v.last + MaxLag
      BY <2>1, <3>1 DEF SeenAgrees
    <3>3. /\ u.last = IF v.last < MaxAge THEN v.last + 1 ELSE v.last
          /\ u.seen = IF v.seen < MaxAge THEN v.seen + 1 ELSE v.seen
      BY <3>2, OlderFields
    <3>. HIDE DEF u
    <3>. QED
      BY <3>1, <3>2, <3>3, VisitorFields, Sizes
  <2>. QED
    BY <2>2, <2>3, <2>4, <2>5 DEF TypeOK
<1>5. CASE UNCHANGED vars
  BY <1>5 DEF vars, TypeOK, SeenAgrees
<1>. QED
  BY <1>1, <1>2, <1>3, <1>4, <1>5 DEF Next

LEMMA AlwaysIInv == Spec => []IInv
BY InitInv, NextInv, PTL DEF Spec

(***************************************************************************)
(* Every state of the limiter is well-typed: in particular, no bucket goes *)
(* below zero or above Full (rate.Limiter under qaRateLimiter.allow).      *)
(***************************************************************************)
THEOREM TypeCorrect == Spec => []TypeOK
BY AlwaysIInv, PTL DEF IInv

-----------------------------------------------------------------------------
(* The limiter implements the bucket.                                      *)

LevelType == \A h \in Hosts : Level(h) \in 0..Full

LEMMA LevelTyped == TypeOK => LevelType
BY TokensType, Sizes DEF TypeOK, LevelType, Level

LEMMA AdmitImplements ==
  ASSUME IInv, CleanupIsSlow, LagIsShort, NEW r \in Requests, Admit(r)
  PROVE  \E w \in waiting[r] : w.host \in Hosts /\ Bucket!Admit(w.host)
<1>. DEFINE old == [h \in Hosts |-> Level(h)]
            cost == Period - MaxLag
<1>1. PICK w \in waiting[r], v \in Visitor :
        /\ v = Seen(w.host, w.lag) /\ Tokens(v, w.lag) >= Period
        /\ Decide(r, w, TakeToken(v, w.lag))
  BY AdmitDecides DEF IInv
<1>2. w.host \in Hosts /\ w.lag \in 0..MaxLag
  BY WaitingFields DEF IInv
<1>3. Tokens(v, 0) = Level(w.host)
  BY <1>1, <1>2, SeenLevel
<1>. DEFINE now == Tokens(TakeToken(v, w.lag), 0)
<1>4. now \in Nat /\ now + cost <= Level(w.host)
  BY <1>1, <1>2, <1>3, CostOfRequest
<1>5. Level(w.host) \in 0..Full /\ cost \in Nat
  BY <1>2, LevelTyped, Sizes DEF IInv, LevelType, LagIsShort
<1>6. Level(w.host)' = now
  <2>1. visitors'[w.host] = TakeToken(v, w.lag)
    BY <1>1, <1>2, CleanupKeeps DEF Decide, IInv
  <2>2. TakeToken(v, w.lag) \in Visitor
    BY <1>1, <1>2, TakeTokenFields
  <2>. QED
    BY <2>1, <2>2, NoVisitorIsNone DEF Level, Tokens
<1>7. \A h \in Hosts \ {w.host} : Level(h)' = Level(h)
  <2> TAKE h \in Hosts \ {w.host}
  <2>1. visitors'[h] = Cleanup(w.lag)[h]
    BY <1>1, <1>2, CleanupKeeps DEF Decide, IInv
  <2>2. Level(h)' = LevelOf(Cleanup(w.lag)[h])
    BY <2>1 DEF Level, LevelOf, Tokens
  <2>. QED
    BY <1>2, <2>2, CleanupLevel
<1>8. [h \in Hosts |-> Level(h)'] = [old EXCEPT ![w.host] = now]
  BY <1>2, <1>6, <1>7
<1>9. now \in 0..(old[w.host] - cost) /\ old[w.host] >= cost
  BY <1>2, <1>4, <1>5
<1>. QED
  BY <1>1, <1>2, <1>8, <1>9 DEF Bucket!Admit

LEMMA RefuseStutters ==
  ASSUME IInv, CleanupIsSlow, NEW r \in Requests, Refuse(r)
  PROVE  \A h \in Hosts : Level(h)' = Level(h)
<1>1. PICK w \in waiting[r], v \in Visitor :
        v = Seen(w.host, w.lag) /\ Decide(r, w, v)
  BY RefuseDecides DEF IInv
<1>2. w.host \in Hosts /\ w.lag \in 0..MaxLag
  BY WaitingFields DEF IInv
<1> TAKE h \in Hosts
<1>3. CASE h = w.host
  <2>1. visitors'[h] = v
    BY <1>1, <1>2, <1>3, CleanupKeeps DEF Decide, IInv
  <2>2. Level(h)' = Tokens(v, 0)
    BY <2>1, NoVisitorIsNone DEF Level, Tokens
  <2>. QED
    BY <1>1, <1>2, <1>3, <2>2, SeenLevel
<1>4. CASE h # w.host
  <2>1. visitors'[h] = Cleanup(w.lag)[h]
    BY <1>1, <1>2, <1>4, CleanupKeeps DEF Decide, IInv
  <2>2. Level(h)' = LevelOf(Cleanup(w.lag)[h])
    BY <2>1 DEF Level, LevelOf, Tokens
  <2>. QED
    BY <1>2, <2>2, CleanupLevel
<1>. QED
  BY <1>3, <1>4

LEMMA TickImplements ==
  ASSUME IInv, Tick
  PROVE  Bucket!Tick
<1> SUFFICES ASSUME NEW h \in Hosts
             PROVE  Level(h)' = IF Level(h) < Full THEN Level(h) + 1 ELSE Full
  BY DEF Bucket!Tick
<1>1. CASE visitors[h] = NoVisitor
  <2>1. visitors'[h] = NoVisitor
    BY <1>1 DEF Tick
  <2>. QED
    BY <1>1, <2>1, Sizes DEF Level
<1>2. CASE visitors[h] # NoVisitor
  <2>. DEFINE v == visitors[h]
              u == [v EXCEPT !.last = Older(@), !.seen = Older(@)]
  <2>1. v \in Visitor /\ visitors'[h] = u
    BY <1>2 DEF Tick, IInv, TypeOK
  <2>2. /\ u \in Visitor /\ u.tokens = v.tokens
        /\ u.last = IF v.last < MaxAge THEN v.last + 1 ELSE v.last
    BY <2>1, OlderFields
  <2>3. Level(h) = Tokens(v, 0) /\ Level(h)' = Tokens(u, 0)
    BY <1>2, <2>1, <2>2, NoVisitorIsNone DEF Level, Tokens
  <2>. HIDE DEF u
  <2>4. Tokens(u, 0) = IF Tokens(v, 0) < Full THEN Tokens(v, 0) + 1 ELSE Full
    BY <2>1, <2>2, VisitorFields, Sizes DEF Tokens
  <2>. QED
    BY <2>3, <2>4
<1>. QED
  BY <1>1, <1>2

(***************************************************************************)
(* For every rate, burst, interval and number of hosts: if the cleanup is  *)
(* slow against the burst and requests get the mutex within a period, the  *)
(* limiter, with its removals and its clocks out of order, is a bucket per *)
(* host that is never removed.                                             *)
(***************************************************************************)
THEOREM LimiterImplementsBucket ==
  ASSUME CleanupIsSlow, LagIsShort
  PROVE  Spec => ImplementsBucket
<1>1. Init => Bucket!Init
  BY DEF Init, Bucket!Init, Level
<1>2. IInv /\ [Next]_vars => [Bucket!Next]_([h \in Hosts |-> Level(h)])
  <2> SUFFICES ASSUME IInv, [Next]_vars
               PROVE  [Bucket!Next]_([h \in Hosts |-> Level(h)])
    OBVIOUS
  <2>1. ASSUME NEW r \in Requests, NEW h \in Hosts, Arrive(r, h)
        PROVE  \A i \in Hosts : Level(i)' = Level(i)
    BY <2>1 DEF Arrive, Level, Tokens
  <2>2. ASSUME NEW r \in Requests, Admit(r) PROVE Bucket!Next
    BY <2>2, AdmitImplements DEF Bucket!Next
  <2>3. ASSUME NEW r \in Requests, Refuse(r)
        PROVE  \A i \in Hosts : Level(i)' = Level(i)
    BY <2>3, RefuseStutters
  <2>4. CASE Tick
    BY <2>4, TickImplements DEF Bucket!Next
  <2>5. CASE UNCHANGED vars
    BY <2>5 DEF vars, Level, Tokens
  <2>. QED
    BY <2>1, <2>2, <2>3, <2>4, <2>5 DEF Next
<1>. QED
  BY <1>1, <1>2, AlwaysIInv, PTL DEF Spec, ImplementsBucket, Bucket!Spec

-----------------------------------------------------------------------------
(* Windows.  One opens in any state that the limiter can be in, and counts *)
(* the ticks and the requests that pass from there on.                     *)

VARIABLES elapsed,  \* the ticks since the window opened
          passed    \* the requests of each host that passed in it

window == <<vars, elapsed, passed>>

WindowOpens == /\ IInv
               /\ elapsed = 0
               /\ passed = [h \in Hosts |-> 0]

Passes(h) == \E r \in Requests : Admit(r) /\ \E w \in waiting[r] : w.host = h

WindowNext ==
  \/ /\ Tick
     /\ elapsed' = elapsed + 1
     /\ UNCHANGED passed
  \/ \E h \in Hosts : /\ Passes(h)
                      /\ passed' = [passed EXCEPT ![h] = @ + 1]
                      /\ UNCHANGED elapsed
  \/ /\ \E r \in Requests : Refuse(r) \/ \E h \in Hosts : Arrive(r, h)
     /\ UNCHANGED <<elapsed, passed>>

Window == WindowOpens /\ [][WindowNext]_window

Cost == Period - MaxLag

\* What was spent and what is left is what was there and what was earned.
Balance == \A h \in Hosts : passed[h] * Cost + Level(h) <= Full + elapsed

WindowInv == /\ IInv
             /\ elapsed \in Nat
             /\ passed \in [Hosts -> Nat]
             /\ Balance

(***************************************************************************)
(* The requests of a host that pass in any window of time cost no more     *)
(* than a full bucket and the length of the window: rate.NewLimiter(QPS,   *)
(* burst) as newQARateLimiter sets it up (middleware.go:110-122), whatever *)
(* cleanup and the order of the clocks do.                                 *)
(***************************************************************************)
PassesAreEarned == \A h \in Hosts : passed[h] * Cost <= Full + elapsed

LEMMA OneMore ==
  ASSUME NEW n \in Nat, NEW c \in Nat
  PROVE  /\ n * c \in Nat
         /\ (n + 1) * c = n * c + c
OBVIOUS

LEMMA CostIsNat == LagIsShort => Cost \in Nat
BY Sizes DEF LagIsShort, Cost

LEMMA LevelIsNat ==
  ASSUME IInv, NEW h \in Hosts
  PROVE  Level(h) \in 0..Full
BY LevelTyped DEF IInv, LevelType

LEMMA OneEach ==
  ASSUME TypeOK, NEW r \in Requests, NEW w \in waiting[r], NEW u \in waiting[r]
  PROVE  u = w
<1>1. waiting[r] \in {{}} \cup {{x} : x \in Waiting}
  BY DEF TypeOK
<1>. QED
  BY <1>1

\* Where nothing is counted and no level has risen, the balance stays.
LEMMA Quiet ==
  ASSUME WindowInv, IInv', UNCHANGED <<elapsed, passed>>, \A h \in Hosts : Level(h)' = Level(h)
  PROVE  WindowInv'
BY DEF WindowInv, Balance, Cost

LEMMA PassKeeps ==
  ASSUME WindowInv, IInv', CleanupIsSlow, LagIsShort, NEW h \in Hosts, Passes(h),
         passed' = [passed EXCEPT ![h] = @ + 1], UNCHANGED elapsed
  PROVE  WindowInv'
<1>1. IInv /\ TypeOK /\ elapsed \in Nat /\ passed \in [Hosts -> Nat] /\ Cost \in Nat
  BY CostIsNat DEF WindowInv, IInv
<1>2. Bucket!Admit(h)
  <2>1. PICK r \in Requests : Admit(r) /\ \E w \in waiting[r] : w.host = h
    BY DEF Passes
  <2>2. PICK w \in waiting[r] : Bucket!Admit(w.host)
    BY <1>1, <2>1, AdmitImplements
  <2>3. w.host = h
    BY <1>1, <2>1, OneEach
  <2>. QED
    BY <2>2, <2>3
<1>. DEFINE old == [i \in Hosts |-> Level(i)]
<1>3. PICK l \in 0..(old[h] - Cost) : [i \in Hosts |-> Level(i)'] = [old EXCEPT ![h] = l]
  BY <1>2 DEF Bucket!Admit, Cost
<1>4. old[h] >= Cost
  BY <1>2 DEF Bucket!Admit, Cost
<1>5. ASSUME NEW i \in Hosts
      PROVE  passed'[i] * Cost + Level(i)' <= Full + elapsed
  <2>1. CASE i = h
    <3>. DEFINE spent == passed[h] * Cost
    <3>1. Level(i)' = l /\ passed'[i] = passed[h] + 1
      <4>1. [j \in Hosts |-> Level(j)'][h] = [old EXCEPT ![h] = l][h]
        BY <1>3
      <4>. QED
        BY <1>1, <2>1, <4>1
    <3>2. passed'[i] * Cost = spent + Cost /\ spent \in Nat
      BY <1>1, <3>1, OneMore
    <3>3. spent + Level(h) <= Full + elapsed
      BY DEF WindowInv, Balance
    <3>4. Level(h) \in 0..Full /\ Full \in Nat /\ old[h] = Level(h)
      BY <1>1, LevelIsNat, Sizes
    <3>5. l + Cost <= Level(h) /\ l \in Nat
      BY <1>1, <1>3, <1>4, <3>4
    <3>. HIDE DEF spent
    <3>. QED
      BY <1>1, <3>1, <3>2, <3>3, <3>4, <3>5
  <2>2. CASE i # h
    <3>1. passed'[i] = passed[i]
      BY <1>1, <2>2
    <3>2. Level(i)' = Level(i)
      <4>1. [j \in Hosts |-> Level(j)'][i] = [old EXCEPT ![h] = l][i]
        BY <1>3
      <4>. QED
        BY <2>2, <4>1
    <3>. QED
      BY <3>1, <3>2 DEF WindowInv, Balance
  <2>. QED
    BY <2>1, <2>2
<1>6. passed' \in [Hosts -> Nat]
  BY <1>1
<1>. QED
  BY <1>1, <1>5, <1>6 DEF WindowInv, Balance, Cost

LEMMA TickKeeps ==
  ASSUME WindowInv, IInv', LagIsShort, Tick, elapsed' = elapsed + 1, UNCHANGED passed
  PROVE  WindowInv'
<1>1. IInv /\ elapsed \in Nat /\ passed \in [Hosts -> Nat] /\ Cost \in Nat
  BY CostIsNat DEF WindowInv
<1>2. Bucket!Tick
  BY <1>1, TickImplements
<1>3. ASSUME NEW h \in Hosts
      PROVE  passed[h] * Cost + Level(h)' <= Full + (elapsed + 1)
  <2>. DEFINE spent == passed[h] * Cost
  <2>1. Level(h)' = IF Level(h) < Full THEN Level(h) + 1 ELSE Full
    <3>1. [i \in Hosts |-> Level(i)'][h]
            = IF Level(h) < Full THEN Level(h) + 1 ELSE Full
      BY <1>2 DEF Bucket!Tick
    <3>. QED
      BY <3>1
  <2>2. spent \in Nat /\ spent + Level(h) <= Full + elapsed
    BY <1>1, OneMore DEF WindowInv, Balance
  <2>3. Level(h) \in 0..Full /\ Full \in Nat
    BY <1>1, LevelIsNat, Sizes
  <2>. HIDE DEF spent
  <2>4. spent + Level(h)' <= Full + (elapsed + 1)
    BY <1>1, <2>1, <2>2, <2>3
  <2>. QED
    BY <2>4 DEF spent
<1>. QED
  BY <1>1, <1>3 DEF WindowInv, Balance, Cost

(***************************************************************************)
(* PassesAreEarned, for any hosts, rates and lags, in a window that opens  *)
(* in any state that has the invariant of the limiter.                     *)
(***************************************************************************)
THEOREM WindowsAreBounded ==
  ASSUME CleanupIsSlow, LagIsShort
  PROVE  Window => []PassesAreEarned
<1>1. WindowOpens => WindowInv
  <2> SUFFICES ASSUME WindowOpens PROVE WindowInv
    OBVIOUS
  <2>1. ASSUME NEW h \in Hosts PROVE passed[h] * Cost + Level(h) <= Full + elapsed
    <3>1. passed[h] = 0 /\ elapsed = 0 /\ Level(h) \in 0..Full /\ Cost \in Nat /\ Full \in Nat
      BY LevelIsNat, CostIsNat, Sizes DEF WindowOpens
    <3>. QED
      BY <3>1
  <2>. QED
    BY <2>1 DEF WindowOpens, WindowInv, Balance
<1>2. WindowInv /\ [WindowNext]_window => WindowInv'
  <2> SUFFICES ASSUME WindowInv, [WindowNext]_window PROVE WindowInv'
    OBVIOUS
  <2>1. IInv'
    <3>1. IInv
      BY DEF WindowInv
    <3>2. [Next]_vars
      BY DEF WindowNext, Passes, window, Next
    <3>. QED
      BY <3>1, <3>2, NextInv
  <2>2. CASE Tick /\ elapsed' = elapsed + 1 /\ UNCHANGED passed
    BY <2>1, <2>2, TickKeeps
  <2>3. ASSUME NEW h \in Hosts, Passes(h), passed' = [passed EXCEPT ![h] = @ + 1],
               UNCHANGED elapsed
        PROVE  WindowInv'
    BY <2>1, <2>3, PassKeeps
  <2>4. ASSUME NEW r \in Requests, Refuse(r), UNCHANGED <<elapsed, passed>>
        PROVE  WindowInv'
    <3>1. \A h \in Hosts : Level(h)' = Level(h)
      BY <2>4, RefuseStutters DEF WindowInv
    <3>. QED
      BY <2>1, <2>4, <3>1, Quiet
  <2>5. ASSUME NEW r \in Requests, NEW i \in Hosts, Arrive(r, i), UNCHANGED <<elapsed, passed>>
        PROVE  WindowInv'
    <3>1. \A h \in Hosts : Level(h)' = Level(h)
      BY <2>5 DEF Arrive, Level, Tokens
    <3>. QED
      BY <2>1, <2>5, <3>1, Quiet
  <2>6. CASE UNCHANGED window
    <3>1. UNCHANGED <<elapsed, passed>> /\ \A h \in Hosts : Level(h)' = Level(h)
      BY <2>6 DEF window, vars, Level, Tokens
    <3>. QED
      BY <2>1, <3>1, Quiet
  <2>. QED
    BY <2>2, <2>3, <2>4, <2>5, <2>6 DEF WindowNext
<1>3. WindowInv => PassesAreEarned
  <2> SUFFICES ASSUME WindowInv, NEW h \in Hosts
               PROVE  passed[h] * Cost <= Full + elapsed
    BY DEF PassesAreEarned
  <2>. DEFINE spent == passed[h] * Cost
  <2>1. spent \in Nat /\ Level(h) \in 0..Full /\ elapsed \in Nat /\ Full \in Nat
    BY OneMore, CostIsNat, LevelIsNat, Sizes DEF WindowInv
  <2>2. spent + Level(h) <= Full + elapsed
    BY DEF WindowInv, Balance
  <2>. HIDE DEF spent
  <2>3. spent <= Full + elapsed
    BY <2>1, <2>2
  <2>. QED
    BY <2>3 DEF spent
<1>. QED
  BY <1>1, <1>2, <1>3, PTL DEF Window
=============================================================================
