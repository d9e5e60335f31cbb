---------------------- MODULE AgreementLifecycleProofs ----------------------
(***************************************************************************)
(* What the status of an agreement and its breaches can never do, for any  *)
(* covenants, dates and any number of records.                             *)
(***************************************************************************)
EXTENDS AgreementLifecycle, FoldTheorems

\* A read returns the same records, in whatever order.
LEMMA OrdersType ==
  ASSUME NEW s \in Seq(TestResults), NEW t \in Orders(s)
  PROVE  t \in Seq(TestResults)
<1>1. DOMAIN s = 1 .. Len(s) /\ Range(s) \subseteq TestResults
  BY DEF Range
<1>2. t \in [1 .. Len(s) -> TestResults]
  BY <1>1 DEF Orders
<1> QED BY <1>2

\* A step that assigns to a field of a recorded event.
Assign ==
  \/ \E n \in DOMAIN events, status \in Remediations : AssignRemediation(n, status)
  \/ \E n \in DOMAIN events, status \in Waivers : AssignWaiver(n, status)

\* It changes that event only, and adds none.
LEMMA AssignedEvent ==
  ASSUME TypeOK, Assign
  PROVE  /\ \E n \in DOMAIN events : events' = [events EXCEPT ![n] = events'[n]]
         /\ events' \in Seq(DefaultEvents) /\ Len(events') = Len(events)
         /\ UNCHANGED <<keepsOrder, covenants, maturity, today, base, results, recorded>>
<1>1. events \in Seq(DefaultEvents) /\ DOMAIN events = 1 .. Len(events)
  BY DEF TypeOK
<1>2. PICK n \in DOMAIN events, e \in DefaultEvents : events' = [events EXCEPT ![n] = e]
  <2>1. ASSUME NEW n \in DOMAIN events, NEW status \in Remediations, AssignRemediation(n, status)
        PROVE  \E e \in DefaultEvents : events' = [events EXCEPT ![n] = e]
    <3>1. events[n] \in DefaultEvents
      BY <1>1
    <3>2. [events[n] EXCEPT !.remediation = status] \in DefaultEvents
      BY <2>1, <3>1 DEF DefaultEvents
    <3> QED BY <2>1, <3>2 DEF AssignRemediation
  <2>2. ASSUME NEW n \in DOMAIN events, NEW status \in Waivers, AssignWaiver(n, status)
        PROVE  \E e \in DefaultEvents : events' = [events EXCEPT ![n] = e]
    <3>1. events[n] \in DefaultEvents
      BY <1>1
    <3>2. [events[n] EXCEPT !.waiver = status] \in DefaultEvents
      BY <2>2, <3>1 DEF DefaultEvents
    <3> QED BY <2>2, <3>2 DEF AssignWaiver
  <2> QED BY <2>1, <2>2 DEF Assign
<1>3. events'[n] = e
  BY <1>2
<1>4. events' \in Seq(DefaultEvents) /\ Len(events') = Len(events)
  BY <1>1, <1>2
<1> QED BY <1>2, <1>3, <1>4 DEF Assign, AssignRemediation, AssignWaiver

\* The variables of the agreement have their types.
THEOREM TypeCorrect == Spec => []TypeOK
<1> USE LifecycleAssumption
<1>1. Init => TypeOK
  BY DEF Init, TypeOK, BaseStatuses, Dates
<1>2. TypeOK /\ [Next]_vars => TypeOK'
  <2> SUFFICES ASSUME TypeOK, [Next]_vars PROVE TypeOK'
    OBVIOUS
  <2>1. ASSUME NEW r \in TestResults, RecordTestResult(r) PROVE TypeOK'
    BY <2>1 DEF RecordTestResult, TypeOK
  <2>2. ASSUME NEW e \in DefaultEvents, RecordDefaultEvent(e) PROVE TypeOK'
    BY <2>2 DEF RecordDefaultEvent, TypeOK
  <2>3. CASE Activate \/ Terminate
    BY <2>3 DEF Activate, Terminate, TypeOK, BaseStatuses
  <2>4. CASE DayPasses
    BY <2>4 DEF DayPasses, TypeOK, Dates
  <2>5. CASE Reload
    BY <2>5, OrdersType DEF Reload, TypeOK
  <2>6. CASE Assign
    BY <2>6, AssignedEvent DEF TypeOK
  <2>7. CASE UNCHANGED vars
    BY <2>7 DEF vars, TypeOK
  <2> QED BY <2>1, <2>2, <2>3, <2>4, <2>5, <2>6, <2>7 DEF Next, Assign
<1> QED BY <1>1, <1>2, PTL DEF Spec

Continuing == \E n \in DOMAIN events : IsContinuing(events[n])

\* The status in terms of what it is made of.
LEMMA StatusParts ==
  ASSUME TypeOK
  PROVE  /\ Status = "defaulted" <=> Continuing
         /\ Status = "matured" <=> ~Continuing /\ maturity <= today
  BY DEF Status, Continuing, TypeOK, BaseStatuses

\* A new event ends no default.
LEMMA NewEventEndsNothing ==
  ASSUME TypeOK, NEW e \in DefaultEvents, RecordDefaultEvent(e), Continuing
  PROVE  Continuing'
<1>1. events' = Append(events, e) /\ events \in Seq(DefaultEvents)
  BY DEF RecordDefaultEvent, TypeOK
<1>2. \A n \in DOMAIN events : n \in DOMAIN events' /\ events'[n] = events[n]
  BY <1>1
<1> QED BY <1>2 DEF Continuing, IsContinuing

\* A default ends only when its last continuing event is remedied or waived, and
\* what shows then is maturity or the status set by hand.
THEOREM DefaultsEnd == Spec => DefaultEndsWithItsLastEvent
<1> DEFINE Ends == Status = "defaulted" /\ Status' # "defaulted"
           ByItsLastEvent ==
             /\ \E n \in DOMAIN events :
                  /\ ~IsContinuing(events'[n])
                  /\ \A m \in DOMAIN events : IsContinuing(events[m]) => m = n
                  /\ events' = [events EXCEPT ![n] = events'[n]]
             /\ Status' = IF maturity <= today THEN "matured" ELSE base
<1>1. TypeOK /\ [Next]_vars => [Ends => ByItsLastEvent]_vars
  <2> SUFFICES ASSUME TypeOK, Next, Ends PROVE ByItsLastEvent
    BY DEF vars
  <2>1. Continuing /\ ~Continuing'
    BY StatusParts DEF Status, Continuing
  <2>2. Assign
    <3>1. \A e \in DefaultEvents : ~RecordDefaultEvent(e)
      BY <2>1, NewEventEndsNothing
    <3>2. events' # events
      BY <2>1 DEF Continuing
    <3> QED BY <3>1, <3>2
            DEF Next, Assign, RecordTestResult, Activate, Terminate, DayPasses, Reload
  <2>3. PICK n \in DOMAIN events : events' = [events EXCEPT ![n] = events'[n]]
    BY <2>2, AssignedEvent
  <2>4. DOMAIN events' = DOMAIN events /\ \A m \in DOMAIN events : m # n => events'[m] = events[m]
    BY <2>3
  <2>5. ~IsContinuing(events'[n])
    BY <2>1, <2>4 DEF Continuing
  <2>6. \A m \in DOMAIN events : IsContinuing(events[m]) => m = n
    BY <2>1, <2>4 DEF Continuing
  <2>7. Status' = IF maturity <= today THEN "matured" ELSE base
    <3>1. UNCHANGED <<maturity, today, base>>
      BY <2>2, AssignedEvent
    <3> QED BY <2>1, <3>1 DEF Status, Continuing
  <2> QED BY <2>3, <2>5, <2>6, <2>7
<1> QED BY <1>1, TypeCorrect, PTL DEF Spec, DefaultEndsWithItsLastEvent

----------------------------------------------------------------------------
(***************************************************************************)
(* The breach: what the loop over the test results computes.               *)
(***************************************************************************)

NoResult == [c \in {} |-> {}]

\* g[k] is the dict of is_in_covenant_breach after the first k results.
LoopStates(g, rs) ==
  /\ g[0] = NoResult
  /\ \A k \in 1 .. Len(rs) : g[k] = Later(g[k - 1], rs[k])
  /\ Latest(rs) = g[Len(rs)]

\* The dict has an entry for some of the covenants.
Dicts == UNION {[D -> TestResults] : D \in SUBSET Covenants}

\* What a test result names.
LEMMA ResultType ==
  ASSUME NEW r \in TestResults
  PROVE  r.covenant \in Covenants /\ r.date \in Nat
  BY LifecycleAssumption DEF TestResults, Dates

\* One turn of the loop leaves a dict of results by covenant.
LEMMA LaterType ==
  ASSUME NEW latest \in Dicts, NEW r \in TestResults
  PROVE  Later(latest, r) \in Dicts
<1>1. PICK D \in SUBSET Covenants : latest \in [D -> TestResults]
  BY DEF Dicts
<1> DEFINE E == D \cup {r.covenant}
<1>2. E \in SUBSET Covenants
  BY DEF TestResults
<1>3. [c \in E |-> IF c = r.covenant THEN r ELSE latest[c]] \in [E -> TestResults]
  BY <1>1
<1> QED BY <1>1, <1>2, <1>3 DEF Later, Dicts

\* The loop runs through such states, from the first result to the last.
LEMMA LoopUnrolled ==
  ASSUME NEW rs \in Seq(TestResults)
  PROVE  \E g : LoopStates(g, rs)
<1> DEFINE n == Len(rs)
           step == [p \in (1 .. n) \X Dicts |-> Later(p[2], rs[p[1]])]
           Unrolled(f) == f = [s \in SUBSET DOMAIN rs |->
                                 IF s = {} THEN [c \in {} |-> {}]
                                 ELSE Later(f[s \ {Max(s)}], rs[Max(s)])]
           loop == CHOOSE f : Unrolled(f)
           g == InitialParts(loop, n)
<1>1. n \in Nat /\ DOMAIN rs = 1 .. n /\ \A k \in 1 .. n : rs[k] \in TestResults
  OBVIOUS
<1>2. NoResult \in Dicts
  <2>1. NoResult \in [{} -> TestResults] /\ {} \in SUBSET Covenants
    BY DEF NoResult
  <2> QED BY <2>1 DEF Dicts
<1>3. step \in [(1 .. n) \X Dicts -> Dicts]
  BY <1>1, LaterType
<1>4. PICK f \in [SUBSET (1 .. n) -> Dicts] : IsSeqFold(f, n, NoResult, step)
  <2> HIDE DEF step, n
  <2> QED BY <1>1, <1>2, <1>3, SeqFoldExists
<1>5. \A s \in (SUBSET (1 .. n)) \ {{}} : Max(s) \in 1 .. n
  BY <1>1, MaxIsIn
<1>6. Unrolled(f)
  BY <1>1, <1>4, <1>5 DEF IsSeqFold, NoResult
<1>7. Unrolled(loop)
  BY <1>6, Zenon
<1>8. Latest(rs) = g[n]
  <2>1. Latest(rs) = loop[DOMAIN rs]
    BY Zenon DEF Latest, FoldLeft, MapThenFoldSet
  <2> QED BY <1>1, <2>1 DEF InitialParts
<1> HIDE DEF loop
<1>9. IsRun(g, n, Dicts, NoResult, step)
  <2>1. Unfolds(loop, n, Dicts, NoResult, step)
    BY <1>1, <1>5, <1>7 DEF Unfolds, NoResult
  <2> HIDE DEF step, n
  <2> QED BY <1>1, <1>2, <1>3, <2>1, SeqFoldRun
<1>10. ASSUME NEW k \in 1 .. n PROVE g[k] = Later(g[k - 1], rs[k])
  <2>1. k - 1 \in 0 .. n
    BY <1>1
  <2> HIDE DEF g
  <2>2. g[k - 1] \in Dicts
    BY <1>9, <2>1 DEF IsRun
  <2> QED BY <1>9, <2>2 DEF IsRun
<1>11. LoopStates(g, rs)
  BY <1>8, <1>9, <1>10 DEF LoopStates, IsRun
<1> QED BY <1>11

\* Among the first k results, the n-th is the most recent one of its covenant, and
\* the first of those of its date.
Current(rs, k, n) ==
  /\ n \in 1 .. k
  /\ \A m \in 1 .. k : rs[m].covenant = rs[n].covenant =>
       \/ rs[m].date < rs[n].date
       \/ rs[m].date = rs[n].date /\ n <= m

\* latest holds the current result of each covenant tested in the first k results.
HoldsCurrent(latest, rs, k) ==
  \A c \in Covenants :
    /\ c \in DOMAIN latest <=> \E n \in 1 .. k : rs[n].covenant = c
    /\ c \in DOMAIN latest =>
         \E n \in 1 .. k : Current(rs, k, n) /\ rs[n].covenant = c /\ latest[c] = rs[n]

\* One turn of the loop.
LEMMA LoopTurn ==
  ASSUME NEW rs \in Seq(TestResults), NEW k \in 0 .. Len(rs) - 1, NEW latest,
         HoldsCurrent(latest, rs, k)
  PROVE  HoldsCurrent(Later(latest, rs[k + 1]), rs, k + 1)
<1> DEFINE r == rs[k + 1]
           next == Later(latest, r)
<1>1. k \in Nat /\ k + 1 \in 1 .. Len(rs) /\ r \in TestResults
  OBVIOUS
<1>2. \A m \in 1 .. k + 1 :
        /\ rs[m] \in TestResults /\ rs[m].date \in Nat
        /\ m \in 1 .. k \/ m = k + 1
  BY ResultType
<1>3. r.date \in Nat /\ r.covenant \in Covenants
  BY <1>1, ResultType
<1> SUFFICES ASSUME NEW c \in Covenants
             PROVE  /\ c \in DOMAIN next <=> \E n \in 1 .. k + 1 : rs[n].covenant = c
                    /\ c \in DOMAIN next =>
                         \E n \in 1 .. k + 1 : /\ Current(rs, k + 1, n)
                                               /\ rs[n].covenant = c /\ next[c] = rs[n]
  BY DEF HoldsCurrent
<1>4. CASE c # r.covenant
  <2>1. c \in DOMAIN next <=> c \in DOMAIN latest
    BY <1>4 DEF Later
  <2>2. c \in DOMAIN next => next[c] = latest[c]
    BY <1>4 DEF Later
  <2>3. \A n \in 1 .. k + 1 : rs[n].covenant = c => n \in 1 .. k
    BY <1>2, <1>4
  <2>4. \A n \in 1 .. k : n \in 1 .. k + 1
    BY <1>1
  <2>5. \A n \in 1 .. k : rs[n].covenant = c /\ Current(rs, k, n) => Current(rs, k + 1, n)
    BY <2>3, <2>4 DEF Current
  <2> HIDE DEF next, r
  <2>6. c \in DOMAIN latest <=> \E n \in 1 .. k : rs[n].covenant = c
    BY DEF HoldsCurrent
  <2>7. c \in DOMAIN latest =>
          \E n \in 1 .. k : Current(rs, k, n) /\ rs[n].covenant = c /\ latest[c] = rs[n]
    BY DEF HoldsCurrent
  <2> QED BY <2>1, <2>2, <2>3, <2>4, <2>5, <2>6, <2>7
<1>5. CASE c = r.covenant /\ c \notin DOMAIN latest
  <2>1. c \in DOMAIN next /\ next[c] = r
    BY <1>5 DEF Later
  <2>2. \A m \in 1 .. k : rs[m].covenant # c
    BY <1>5 DEF HoldsCurrent
  <2>3. Current(rs, k + 1, k + 1)
    BY <1>1, <1>2, <1>5, <2>2 DEF Current
  <2> HIDE DEF next
  <2> QED BY <1>1, <1>5, <2>1, <2>3
<1>6. CASE c = r.covenant /\ c \in DOMAIN latest
  <2>1. PICK n \in 1 .. k : Current(rs, k, n) /\ rs[n].covenant = c /\ latest[c] = rs[n]
    BY <1>6 DEF HoldsCurrent
  <2>2. n \in 1 .. k + 1 /\ rs[n].date \in Nat /\ k + 1 \in 1 .. k + 1
    BY <1>1, <1>2
  <2>3. CASE r.date > rs[n].date
    <3>1. c \in DOMAIN next /\ next[c] = r
      BY <1>6, <2>1, <2>3 DEF Later
    <3>2. ASSUME NEW m \in 1 .. k + 1, rs[m].covenant = r.covenant
          PROVE  rs[m].date < r.date \/ (rs[m].date = r.date /\ k + 1 <= m)
      <4>1. CASE m = k + 1
        BY <1>1, <4>1
      <4>2. CASE m \in 1 .. k
        <5>1. rs[m].covenant = rs[n].covenant
          BY <1>6, <2>1, <3>2
        <5>2. rs[m].date <= rs[n].date
          BY <1>2, <2>1, <2>2, <4>2, <5>1 DEF Current
        <5>3. rs[m].date \in Nat
          BY <1>2
        <5> HIDE DEF r, next
        <5> QED BY SMTT(30), <1>3, <2>2, <2>3, <5>2, <5>3
      <4> QED BY <1>2, <4>1, <4>2
    <3>3. Current(rs, k + 1, k + 1)
      BY <2>2, <3>2 DEF Current
    <3> HIDE DEF next
    <3> QED BY <1>6, <2>2, <3>1, <3>3
  <2>4. CASE ~(r.date > rs[n].date)
    <3>1. next = latest
      BY <1>6, <2>1, <2>4 DEF Later
    <3>2. Current(rs, k + 1, n)
      <4>1. r.date <= rs[n].date
        BY <1>3, <2>2, <2>4
      <4>2. n <= k + 1
        OBVIOUS
      <4> QED BY <1>2, <1>3, <2>1, <2>2, <4>1, <4>2 DEF Current
    <3> HIDE DEF next
    <3> QED BY <1>6, <2>1, <2>2, <3>1, <3>2
  <2> QED BY <2>3, <2>4
<1> QED BY <1>4, <1>5, <1>6

\* After the loop the dict holds the current result of every covenant tested.
THEOREM LatestIsCurrent ==
  ASSUME NEW rs \in Seq(TestResults)
  PROVE  HoldsCurrent(Latest(rs), rs, Len(rs))
<1>1. PICK g : LoopStates(g, rs)
  BY LoopUnrolled
<1> DEFINE Done == {k \in Nat : k <= Len(rs) => HoldsCurrent(g[k], rs, k)}
<1>2. 0 \in Done
  <2>1. DOMAIN g[0] = {} /\ 1 .. 0 = {}
    BY <1>1 DEF LoopStates, NoResult
  <2> QED BY <2>1 DEF HoldsCurrent
<1>3. ASSUME NEW k \in Nat, k \in Done PROVE k + 1 \in Done
  <2> SUFFICES ASSUME k + 1 <= Len(rs) PROVE HoldsCurrent(g[k + 1], rs, k + 1)
    OBVIOUS
  <2>1. k \in 0 .. Len(rs) - 1 /\ k + 1 \in 1 .. Len(rs) /\ (k + 1) - 1 = k
    OBVIOUS
  <2>2. g[k + 1] = Later(g[k], rs[k + 1])
    BY <1>1, <2>1 DEF LoopStates
  <2>3. HoldsCurrent(g[k], rs, k)
    BY <1>3, <2>1
  <2> QED BY <2>1, <2>2, <2>3, LoopTurn
<1>4. Len(rs) \in Done
  <2> HIDE DEF Done
  <2> QED BY <1>2, <1>3, NatSetInduction
<1> QED BY <1>1, <1>4 DEF LoopStates

\* So a covenant is in breach exactly when its current result is a failure.
LEMMA BreachIsCurrentFailure ==
  ASSUME NEW rs \in Seq(TestResults), NEW c \in Covenants
  PROVE  InBreach(rs, c) <=>
           \E n \in 1 .. Len(rs) : /\ Current(rs, Len(rs), n)
                                   /\ rs[n].covenant = c /\ rs[n].outcome = "fail"
<1> DEFINE latest == Latest(rs)
<1>1. HoldsCurrent(latest, rs, Len(rs))
  BY LatestIsCurrent
<1> HIDE DEF latest
<1>2. InBreach(rs, c) <=> c \in DOMAIN latest /\ latest[c].outcome = "fail"
  BY DEF InBreach, latest
<1>3. \A m, n \in 1 .. Len(rs) :
        /\ Current(rs, Len(rs), m) /\ Current(rs, Len(rs), n)
        /\ rs[m].covenant = rs[n].covenant
        => m = n
  <2>1. \A m \in 1 .. Len(rs) : rs[m].date \in Nat
    BY ResultType
  <2> QED BY <2>1 DEF Current
<1> QED BY <1>1, <1>2, <1>3 DEF HoldsCurrent

----------------------------------------------------------------------------
(***************************************************************************)
(* The order of the results.  A read returns a reordering of what was      *)
(* recorded, and where no two results of a covenant share a date the loop  *)
(* computes the same breaches from it.                                     *)
(***************************************************************************)

\* f says which of the items of s is the n-th of t.
Reordering(f, t, s) ==
  /\ f \in [1 .. Len(s) -> 1 .. Len(s)]
  /\ \A m, n \in 1 .. Len(s) : f[m] = f[n] => m = n
  /\ \A m \in 1 .. Len(s) : \E n \in 1 .. Len(s) : f[n] = m
  /\ \A n \in 1 .. Len(s) : t[n] = s[f[n]]

\* Such an f loses no item.
LEMMA ReorderingOfOrder ==
  ASSUME NEW s \in Seq(TestResults), NEW t \in Orders(s)
  PROVE  Len(t) = Len(s) /\ \E f : Reordering(f, t, s)
<1> DEFINE D == 1 .. Len(s)
<1>1. DOMAIN s = D /\ IsFiniteSet(D)
  BY FS_Interval
<1>2. PICK f \in [D -> D] : IsInjective(f) /\ \A n \in D : t[n] = s[f[n]]
  BY <1>1 DEF Orders
<1>3. f \in Injection(D, D)
  BY <1>2 DEF Injection
<1>4. f \in Surjection(D, D)
  BY <1>1, <1>3, FS_Injection
<1>5. Reordering(f, t, s)
  BY <1>2, <1>4 DEF Reordering, Surjection, IsInjective
<1>6. t \in Seq(TestResults) /\ DOMAIN t = D
  BY <1>1, OrdersType DEF Orders
<1>7. Len(t) = Len(s)
  BY <1>6
<1> QED BY <1>5, <1>7

\* Such an f makes t one of the orders of s.
LEMMA OrderOfReordering ==
  ASSUME NEW s \in Seq(TestResults), NEW t \in Seq(TestResults), Len(t) = Len(s),
         NEW f, Reordering(f, t, s)
  PROVE  t \in Orders(s)
<1>1. DOMAIN s = 1 .. Len(s) /\ DOMAIN t = 1 .. Len(s)
  OBVIOUS
<1>2. f \in [DOMAIN s -> DOMAIN s] /\ IsInjective(f)
  BY <1>1 DEF Reordering, IsInjective
<1>3. \A n \in DOMAIN s : t[n] = s[f[n]] /\ t[n] \in Range(s)
  BY <1>1 DEF Reordering, Range
<1>4. t \in [DOMAIN s -> Range(s)]
  BY <1>1, <1>3
<1> QED BY <1>2, <1>3, <1>4 DEF Orders

\* Reordering a reordering, and appending one item to both.
LEMMA OrdersCompose ==
  ASSUME NEW s \in Seq(TestResults), NEW t \in Orders(s), NEW u \in Orders(t)
  PROVE  u \in Orders(s)
<1>1. t \in Seq(TestResults) /\ u \in Seq(TestResults)
  BY OrdersType
<1>2. PICK f : Len(t) = Len(s) /\ Reordering(f, t, s)
  BY ReorderingOfOrder
<1>3. PICK g : Len(u) = Len(t) /\ Reordering(g, u, t)
  BY <1>1, ReorderingOfOrder
<1> DEFINE D == 1 .. Len(s)
           h == [n \in D |-> f[g[n]]]
<1>4. f \in [D -> D] /\ g \in [D -> D]
  BY <1>2, <1>3 DEF Reordering
<1>5. h \in [D -> D] /\ \A n \in D : u[n] = s[h[n]]
  <2>1. \A n \in D : g[n] \in D /\ h[n] = f[g[n]] /\ u[n] = t[g[n]]
    BY <1>2, <1>3, <1>4 DEF Reordering
  <2> QED BY <1>2, <1>4, <2>1 DEF Reordering
<1>6. \A m, n \in D : h[m] = h[n] => m = n
  <2> SUFFICES ASSUME NEW m \in D, NEW n \in D, h[m] = h[n] PROVE m = n
    OBVIOUS
  <2>1. g[m] \in D /\ g[n] \in D /\ f[g[m]] = f[g[n]]
    BY <1>4
  <2>2. g[m] = g[n]
    BY <1>2, <2>1 DEF Reordering
  <2> QED BY <1>2, <1>3, <2>2 DEF Reordering
<1>7. ASSUME NEW m \in D PROVE \E n \in D : h[n] = m
  <2>1. PICK p \in D : f[p] = m
    BY <1>2 DEF Reordering
  <2>2. PICK n \in D : g[n] = p
    BY <1>2, <1>3 DEF Reordering
  <2> QED BY <2>1, <2>2
<1>8. Reordering(h, u, s)
  BY <1>5, <1>6, <1>7 DEF Reordering
<1> QED BY <1>1, <1>2, <1>3, <1>8, OrderOfReordering

\* A result appended to both the list and its reordering.
LEMMA OrdersAppend ==
  ASSUME NEW s \in Seq(TestResults), NEW t \in Orders(s), NEW r \in TestResults
  PROVE  Append(t, r) \in Orders(Append(s, r))
<1>1. t \in Seq(TestResults)
  BY OrdersType
<1>2. PICK f : Len(t) = Len(s) /\ Reordering(f, t, s)
  BY ReorderingOfOrder
<1> DEFINE k == Len(s)
           g == [n \in 1 .. k + 1 |-> IF n = k + 1 THEN k + 1 ELSE f[n]]
           s1 == Append(s, r)
           t1 == Append(t, r)
<1>3. /\ k \in Nat /\ k + 1 \in 1 .. k + 1
      /\ \A n \in 1 .. k + 1 : n = k + 1 \/ n \in 1 .. k
      /\ \A n \in 1 .. k : n # k + 1 /\ n \in 1 .. k + 1
  OBVIOUS
<1>4. /\ s1 \in Seq(TestResults) /\ t1 \in Seq(TestResults)
      /\ Len(s1) = k + 1 /\ Len(t1) = k + 1
      /\ s1[k + 1] = r /\ t1[k + 1] = r
      /\ \A n \in 1 .. k : s1[n] = s[n] /\ t1[n] = t[n]
  BY <1>1, <1>2
<1>5. /\ f \in [1 .. k -> 1 .. k]
      /\ \A m, n \in 1 .. k : f[m] = f[n] => m = n
      /\ \A m \in 1 .. k : \E n \in 1 .. k : f[n] = m
      /\ \A n \in 1 .. k : t[n] = s[f[n]]
  BY <1>2 DEF Reordering
<1> HIDE DEF s1, t1, k
<1>6. g \in [1 .. k + 1 -> 1 .. k + 1]
  BY <1>3, <1>5
<1>7. g[k + 1] = k + 1 /\ \A n \in 1 .. k : g[n] = f[n] /\ f[n] \in 1 .. k
  BY <1>3, <1>5
<1> HIDE DEF g
<1>8. \A m, n \in 1 .. k + 1 : g[m] = g[n] => m = n
  BY <1>3, <1>5, <1>7
<1>9. ASSUME NEW m \in 1 .. k + 1 PROVE \E n \in 1 .. k + 1 : g[n] = m
  <2>1. CASE m = k + 1
    BY <1>3, <1>7, <2>1
  <2>2. CASE m \in 1 .. k
    <3>1. PICK n \in 1 .. k : f[n] = m
      BY <1>5, <2>2
    <3> QED BY <1>3, <1>7, <3>1
  <2> QED BY <1>3, <2>1, <2>2
<1>10. ASSUME NEW n \in 1 .. k + 1 PROVE t1[n] = s1[g[n]]
  <2>1. CASE n = k + 1
    BY <1>4, <1>7, <2>1
  <2>2. CASE n \in 1 .. k
    <3>1. t1[n] = t[n] /\ t[n] = s[f[n]] /\ g[n] = f[n] /\ f[n] \in 1 .. k
      BY <1>4, <1>5, <1>7, <2>2
    <3>2. s1[f[n]] = s[f[n]]
      BY <1>4, <3>1
    <3> QED BY <3>1, <3>2
  <2> QED BY <1>3, <2>1, <2>2
<1>11. Reordering(g, t1, s1)
  BY <1>4, <1>6, <1>8, <1>9, <1>10 DEF Reordering
<1>12. t1 \in Orders(s1)
  BY <1>4, <1>11, OrderOfReordering
<1> QED BY <1>12 DEF s1, t1

\* The order of recording is one of the orders.
LEMMA OrdersSame ==
  ASSUME NEW s \in Seq(TestResults)
  PROVE  s \in Orders(s)
<1> DEFINE f == [n \in 1 .. Len(s) |-> n]
<1>1. Reordering(f, s, s)
  BY DEF Reordering
<1> HIDE DEF f
<1> QED BY <1>1, OrderOfReordering

\* No two results of a covenant share a date.
OneOfADate(s) ==
  \A m, n \in 1 .. Len(s) : s[m].covenant = s[n].covenant /\ s[m].date = s[n].date => m = n

\* The current results are the same ones in any such order.
LEMMA CurrentInAnyOrder ==
  ASSUME NEW s \in Seq(TestResults), NEW t, NEW f, Reordering(f, t, s), OneOfADate(s),
         NEW n \in 1 .. Len(s)
  PROVE  Current(t, Len(s), n) <=> Current(s, Len(s), f[n])
<1> DEFINE D == 1 .. Len(s)
<1>1. f \in [D -> D] /\ \A m \in D : t[m] = s[f[m]]
  BY DEF Reordering
<1>2. \A m \in D : s[m].date \in Nat
  BY ResultType
<1>3. ASSUME Current(t, Len(s), n), NEW m \in D, s[m].covenant = s[f[n]].covenant
      PROVE  s[m].date < s[f[n]].date \/ (s[m].date = s[f[n]].date /\ f[n] <= m)
  <2>1. PICK q \in D : f[q] = m
    BY DEF Reordering
  <2>2. t[q] = s[m] /\ t[n] = s[f[n]] /\ f[n] \in D
    BY <1>1, <2>1
  <2>3. s[m].date < s[f[n]].date \/ s[m].date = s[f[n]].date
    BY <1>3, <2>2 DEF Current
  <2>4. s[m].date = s[f[n]].date => m = f[n]
    BY <1>3, <2>2 DEF OneOfADate
  <2>5. f[n] <= f[n]
    BY <2>2
  <2> QED BY <2>3, <2>4, <2>5
<1>4. ASSUME Current(s, Len(s), f[n]), NEW m \in D, t[m].covenant = t[n].covenant
      PROVE  t[m].date < t[n].date \/ (t[m].date = t[n].date /\ n <= m)
  <2>1. t[m] = s[f[m]] /\ t[n] = s[f[n]] /\ f[n] \in D /\ f[m] \in D
    BY <1>1
  <2>2. t[m].date < t[n].date \/ t[m].date = t[n].date
    BY <1>4, <2>1 DEF Current
  <2>3. t[m].date = t[n].date => f[m] = f[n]
    BY <1>4, <2>1 DEF OneOfADate
  <2>4. f[m] = f[n] => m = n
    BY DEF Reordering
  <2>5. n <= n
    OBVIOUS
  <2> QED BY <2>2, <2>3, <2>4, <2>5
<1>5. f[n] \in D
  BY <1>1
<1> QED BY <1>3, <1>4, <1>5 DEF Current

\* So are the breaches, in whatever order the results come back.
THEOREM BreachInAnyOrder ==
  ASSUME NEW s \in Seq(TestResults), NEW t \in Orders(s), OneOfADate(s), NEW c \in Covenants
  PROVE  InBreach(t, c) <=> InBreach(s, c)
<1>1. t \in Seq(TestResults) /\ Len(t) = Len(s)
  BY OrdersType, ReorderingOfOrder
<1>2. PICK f : Reordering(f, t, s)
  BY ReorderingOfOrder
<1> DEFINE D == 1 .. Len(s)
           Fails(u, n) == Current(u, Len(s), n) /\ u[n].covenant = c /\ u[n].outcome = "fail"
<1>3. \A n \in D : f[n] \in D /\ t[n] = s[f[n]]
  BY <1>2 DEF Reordering
<1>4. \A n \in D : Fails(t, n) <=> Fails(s, f[n])
  BY <1>2, <1>3, CurrentInAnyOrder
<1>5. \A m \in D : \E n \in D : f[n] = m
  BY <1>2 DEF Reordering
<1>6. InBreach(t, c) <=> \E n \in D : Fails(t, n)
  BY <1>1, BreachIsCurrentFailure
<1>7. InBreach(s, c) <=> \E n \in D : Fails(s, n)
  BY BreachIsCurrentFailure
<1> HIDE DEF Fails
<1>8. ASSUME NEW n \in D, Fails(t, n) PROVE \E m \in D : Fails(s, m)
  BY <1>3, <1>4, <1>8
<1>9. ASSUME NEW m \in D, Fails(s, m) PROVE \E n \in D : Fails(t, n)
  <2>1. PICK n \in D : f[n] = m
    BY <1>5
  <2> QED BY <1>4, <1>9, <2>1
<1> QED BY <1>6, <1>7, <1>8, <1>9

----------------------------------------------------------------------------
\* What a read returns: the very list, or some order of it.
ReadsAll ==
  /\ keepsOrder => results = recorded
  /\ results \in Orders(recorded)

\* Every read returns all that was recorded, once each.
THEOREM ReadsReturnAll == Spec => []ReadsAll
<1>1. Init => ReadsAll
  <2> SUFFICES ASSUME Init PROVE ReadsAll
    OBVIOUS
  <2>1. results = <<>> /\ recorded = <<>>
    BY DEF Init
  <2>2. <<>> \in Seq(TestResults)
    OBVIOUS
  <2>3. <<>> \in Orders(<<>>)
    BY <2>2, OrdersSame
  <2> QED BY <2>1, <2>3 DEF ReadsAll
<1>2. TypeOK /\ ReadsAll /\ [Next]_vars => ReadsAll'
  <2> SUFFICES ASSUME TypeOK, ReadsAll, [Next]_vars PROVE ReadsAll'
    OBVIOUS
  <2>1. ASSUME NEW r \in TestResults, RecordTestResult(r) PROVE ReadsAll'
    <3>1. /\ results' = Append(results, r) /\ recorded' = Append(recorded, r)
          /\ keepsOrder' = keepsOrder
      BY <2>1 DEF RecordTestResult
    <3>2. Append(results, r) \in Orders(Append(recorded, r))
      BY OrdersAppend DEF ReadsAll, TypeOK
    <3> QED BY <3>1, <3>2 DEF ReadsAll
  <2>2. CASE Reload
    <3>1. results' \in Orders(recorded)
      BY <2>2, OrdersCompose DEF Reload, ReadsAll, TypeOK
    <3> QED BY <2>2, <3>1 DEF Reload, ReadsAll
  <2>3. CASE UNCHANGED <<keepsOrder, results, recorded>>
    BY <2>3 DEF ReadsAll
  <2> QED BY <2>1, <2>2, <2>3
          DEF Next, vars, RecordDefaultEvent, Activate, Terminate, DayPasses,
              AssignRemediation, AssignWaiver
<1> QED BY <1>1, <1>2, TypeCorrect, PTL DEF Spec

\* If reads keep the order, or no order matters, a read shows the breaches of
\* the recorded results.
LEMMA ReadBreach ==
  ASSUME TypeOK, ReadsAll, keepsOrder \/ NoSameDate, NEW c \in Covenants
  PROVE  InBreach(results, c) <=> InBreach(recorded, c)
<1>1. CASE keepsOrder
  BY <1>1 DEF ReadsAll
<1>2. CASE NoSameDate
  <2>1. OneOfADate(recorded)
    BY <1>2 DEF NoSameDate, OneOfADate, TypeOK
  <2> QED BY <2>1, BreachInAnyOrder DEF ReadsAll, TypeOK
<1> QED BY <1>1, <1>2

\* Where reads keep the order of the list, or no two results of a covenant share a
\* date, the loop reports a breach exactly when the most recent result of some
\* covenant is a failure, the first one recorded on its date.
THEOREM BreachIsLatest == Spec => []BreachIsLatestFailure
<1>1. TypeOK /\ ReadsAll => BreachIsLatestFailure
  <2> SUFFICES ASSUME TypeOK, ReadsAll, keepsOrder \/ NoSameDate
               PROVE  IsInCovenantBreach(results) <=> \E n \in DOMAIN recorded : CurrentFailure(n)
    BY DEF BreachIsLatestFailure
  <2>1. recorded \in Seq(TestResults) /\ DOMAIN recorded = 1 .. Len(recorded)
    BY DEF TypeOK
  <2>2. \A n \in DOMAIN recorded :
          CurrentFailure(n) <=> Current(recorded, Len(recorded), n) /\ recorded[n].outcome = "fail"
    BY <2>1 DEF CurrentFailure, Current
  <2>3. IsInCovenantBreach(results) <=> \E c \in Covenants : InBreach(recorded, c)
    BY ReadBreach DEF IsInCovenantBreach
  <2>4. ASSUME NEW c \in Covenants, InBreach(recorded, c)
        PROVE  \E n \in DOMAIN recorded : CurrentFailure(n)
    BY <2>1, <2>2, <2>4, BreachIsCurrentFailure
  <2>5. ASSUME NEW n \in DOMAIN recorded, CurrentFailure(n)
        PROVE  \E c \in Covenants : InBreach(recorded, c)
    <3>1. recorded[n].covenant \in Covenants
      BY <2>1, ResultType
    <3>2. InBreach(recorded, recorded[n].covenant)
      BY <2>1, <2>2, <2>5, <3>1, BreachIsCurrentFailure
    <3> QED BY <3>1, <3>2
  <2> QED BY <2>3, <2>4, <2>5
<1> QED BY <1>1, TypeCorrect, ReadsReturnAll, PTL

\* A result that ends a breach is dated after all the earlier ones of its covenant.
LEMMA BreachEnds ==
  ASSUME NEW s \in Seq(TestResults), NEW r \in TestResults, NEW c \in Covenants,
         InBreach(s, c), ~InBreach(Append(s, r), c)
  PROVE  /\ r.covenant = c /\ r.outcome # "fail"
         /\ \A n \in 1 .. Len(s) : s[n].covenant = c => s[n].date < r.date
<1> DEFINE k == Len(s)
           s1 == Append(s, r)
<1>1. /\ k \in Nat /\ k + 1 \in 1 .. k + 1
      /\ \A n \in 1 .. k + 1 : n = k + 1 \/ n \in 1 .. k
      /\ \A n \in 1 .. k : n <= k + 1 /\ n \in 1 .. k + 1
  OBVIOUS
<1>2. /\ s1 \in Seq(TestResults) /\ Len(s1) = k + 1 /\ s1[k + 1] = r
      /\ \A n \in 1 .. k : s1[n] = s[n]
  OBVIOUS
<1>3. \A n \in 1 .. k : s[n].date \in Nat
  BY ResultType
<1>4. r.date \in Nat
  BY ResultType
<1>5. PICK n \in 1 .. k : Current(s, k, n) /\ s[n].covenant = c /\ s[n].outcome = "fail"
  BY BreachIsCurrentFailure
<1> HIDE DEF s1, k
<1>6. \A m \in 1 .. k + 1 :
        Current(s1, k + 1, m) /\ s1[m].covenant = c => s1[m].outcome # "fail"
  <2>1. InBreach(s1, c) <=> \E m \in 1 .. Len(s1) : /\ Current(s1, Len(s1), m)
                                                    /\ s1[m].covenant = c /\ s1[m].outcome = "fail"
    BY <1>2, BreachIsCurrentFailure
  <2> QED BY <1>2, <2>1 DEF s1
<1>7. r.covenant = c /\ s[n].date < r.date
  <2> SUFFICES ASSUME ~(r.covenant = c /\ s[n].date < r.date) PROVE Current(s1, k + 1, n)
    BY <1>1, <1>2, <1>5, <1>6
  <2> SUFFICES ASSUME NEW m \in 1 .. k + 1, s1[m].covenant = s1[n].covenant
               PROVE  s1[m].date < s1[n].date \/ (s1[m].date = s1[n].date /\ n <= m)
    BY <1>1 DEF Current
  <2>1. CASE m = k + 1
    <3>1. r.covenant = c
      BY <1>2, <1>5, <2>1
    <3>2. r.date <= s[n].date
      BY <1>3, <1>4, <3>1
    <3> QED BY <1>1, <1>2, <1>3, <1>4, <2>1, <3>2
  <2>2. CASE m \in 1 .. k
    BY <1>2, <1>5, <2>2 DEF Current
  <2> QED BY <1>1, <2>1, <2>2
<1>8. ASSUME NEW m \in 1 .. k, s[m].covenant = c PROVE s[m].date < r.date
  <2>1. s[m].date <= s[n].date
    BY <1>3, <1>5, <1>8 DEF Current
  <2> QED BY <1>3, <1>4, <1>7, <2>1
<1>9. Current(s1, k + 1, k + 1)
  <2> SUFFICES ASSUME NEW m \in 1 .. k + 1, s1[m].covenant = r.covenant
               PROVE  s1[m].date < r.date \/ (s1[m].date = r.date /\ k + 1 <= m)
    BY <1>1, <1>2 DEF Current
  <2>1. CASE m = k + 1
    BY <1>1, <1>2, <2>1
  <2>2. CASE m \in 1 .. k
    BY <1>2, <1>7, <1>8, <2>2
  <2> QED BY <1>1, <2>1, <2>2
<1>10. r.outcome # "fail"
  BY <1>1, <1>2, <1>6, <1>7, <1>9
<1> QED BY <1>7, <1>8, <1>10 DEF k

\* Where reads keep the order of the list, or no two results of a covenant share a
\* date, a breach ends only by a later result that is not a failure.
THEOREM BreachesEndLater == Spec => BreachNeedsLaterTest
<1> DEFINE Ended(c) ==
             (keepsOrder \/ NoSameDate') /\ InBreach(results, c) /\ ~InBreach(results', c)
           ByLaterTest(c) ==
             /\ Len(recorded') > Len(recorded)
             /\ Last(recorded').covenant = c
             /\ Last(recorded').outcome # "fail"
             /\ \A n \in DOMAIN recorded :
                  recorded[n].covenant = c => recorded[n].date < Last(recorded').date
<1>1. TypeOK /\ ReadsAll /\ TypeOK' /\ ReadsAll' /\ [Next]_vars
        => \A c \in Covenants : Ended(c) => ByLaterTest(c)
  <2> SUFFICES ASSUME TypeOK, ReadsAll, TypeOK', ReadsAll', [Next]_vars,
                      NEW c \in Covenants, Ended(c)
               PROVE  ByLaterTest(c)
    OBVIOUS
  <2>1. keepsOrder' = keepsOrder
    BY DEF Next, vars, RecordTestResult, RecordDefaultEvent, Activate, Terminate, DayPasses,
           Reload, AssignRemediation, AssignWaiver
  <2>2. InBreach(results', c) <=> InBreach(recorded', c)
    <3>1. CASE keepsOrder'
      BY <3>1 DEF ReadsAll
    <3>2. CASE NoSameDate'
      <4>1. OneOfADate(recorded') /\ recorded' \in Seq(TestResults)
        BY <3>2 DEF NoSameDate, OneOfADate, TypeOK
      <4> QED BY <4>1, BreachInAnyOrder DEF ReadsAll
    <3> QED BY <2>1, <3>1, <3>2
  <2>3. ASSUME NEW r \in TestResults, RecordTestResult(r) PROVE ByLaterTest(c)
    <3>1. recorded \in Seq(TestResults) /\ recorded' = Append(recorded, r)
      BY <2>3 DEF RecordTestResult, TypeOK
    <3>2. /\ Len(recorded') = Len(recorded) + 1 /\ Last(recorded') = r
          /\ DOMAIN recorded = 1 .. Len(recorded)
      BY <3>1 DEF Last
    <3>3. NoSameDate' => NoSameDate
      <4>1. \A n \in DOMAIN recorded : n \in DOMAIN recorded' /\ recorded'[n] = recorded[n]
        BY <3>1
      <4> QED BY <4>1 DEF NoSameDate
    <3>4. InBreach(recorded, c)
      BY <3>3, ReadBreach
    <3>5. ~InBreach(Append(recorded, r), c)
      BY <2>2, <3>1
    <3>6. /\ r.covenant = c /\ r.outcome # "fail"
          /\ \A n \in 1 .. Len(recorded) : recorded[n].covenant = c => recorded[n].date < r.date
      BY <3>1, <3>4, <3>5, BreachEnds
    <3> QED BY <3>1, <3>2, <3>6
  <2>4. CASE UNCHANGED recorded
    <3>1. NoSameDate' <=> NoSameDate
      BY <2>4 DEF NoSameDate
    <3>2. InBreach(results, c) <=> InBreach(recorded, c)
      BY <3>1, ReadBreach
    <3> QED BY <2>2, <2>4, <3>2
  <2> QED BY <2>3, <2>4 DEF Next, vars, RecordDefaultEvent, Activate, Terminate, DayPasses,
                            Reload, AssignRemediation, AssignWaiver
<1> QED BY <1>1, TypeCorrect, ReadsReturnAll, PTL DEF Spec, BreachNeedsLaterTest

\* A result that is there already changes no breach, wherever it stands in the list.
LEMMA RepeatedResult ==
  ASSUME NEW s \in Seq(TestResults), NEW j \in 1 .. Len(s), NEW c \in Covenants
  PROVE  InBreach(Append(s, s[j]), c) <=> InBreach(s, c)
<1> DEFINE k == Len(s)
           r == s[j]
           s1 == Append(s, r)
<1>1. r \in TestResults /\ r.date \in Nat
  BY ResultType
<1>2. ASSUME InBreach(s, c) PROVE InBreach(s1, c)
  <2> SUFFICES ASSUME ~InBreach(s1, c) PROVE FALSE
    OBVIOUS
  <2> HIDE DEF r
  <2>1. r.covenant = c /\ \A n \in 1 .. k : s[n].covenant = c => s[n].date < r.date
    BY <1>1, <1>2, BreachEnds
  <2> QED BY <1>1, <2>1 DEF r
<1>3. ASSUME InBreach(s1, c) PROVE InBreach(s, c)
  <2>1. /\ s1 \in Seq(TestResults) /\ Len(s1) = k + 1 /\ s1[k + 1] = r /\ k \in Nat
        /\ \A n \in 1 .. k : s1[n] = s[n] /\ n \in 1 .. k + 1 /\ ~(k + 1 <= n)
        /\ \A n \in 1 .. k + 1 : n = k + 1 \/ n \in 1 .. k
    OBVIOUS
  <2> HIDE DEF s1
  <2>2. PICK n \in 1 .. Len(s1) :
          Current(s1, Len(s1), n) /\ s1[n].covenant = c /\ s1[n].outcome = "fail"
    BY <1>3, <2>1, BreachIsCurrentFailure
  <2> HIDE DEF k
  <2>3. n # k + 1
    <3> SUFFICES ASSUME n = k + 1 PROVE FALSE
      OBVIOUS
    <3>1. s1[j] = r /\ s1[n] = r /\ j \in 1 .. k + 1 /\ ~(n <= j)
      BY <2>1 DEF k
    <3>2. ~(r.date < r.date)
      BY <1>1
    <3> QED BY <2>1, <2>2, <3>1, <3>2 DEF Current
  <2>4. n \in 1 .. k
    BY <2>1, <2>2, <2>3
  <2>5. Current(s, k, n) /\ s[n].covenant = c /\ s[n].outcome = "fail"
    BY <2>1, <2>2, <2>4 DEF Current
  <2> QED BY <2>4, <2>5, BreachIsCurrentFailure DEF k
<1> QED BY <1>2, <1>3

\* A record that is sent twice and stored twice changes neither breach nor status.
THEOREM RepeatsChangeNothing == Spec => RepeatChangesNothing
<1> DEFINE SameAnswers ==
             /\ \A c \in Covenants : InBreach(results', c) <=> InBreach(results, c)
             /\ Status' = Status
<1>1. TypeOK /\ ReadsAll /\ [Next]_vars => [Repeats => SameAnswers]_vars
  <2> SUFFICES ASSUME TypeOK, ReadsAll, Next, Repeats PROVE SameAnswers
    BY DEF Repeats, vars
  <2>1. ASSUME NEW r \in TestResults, RecordTestResult(r) PROVE SameAnswers
    <3>1. /\ results' = Append(results, r) /\ recorded' = Append(recorded, r)
          /\ UNCHANGED <<events, maturity, today, base>>
      BY <2>1 DEF RecordTestResult
    <3>2. Last(recorded') = r
      BY <3>1 DEF Last, TypeOK
    <3>3. r \in Range(recorded)
      BY <3>1, <3>2 DEF Repeats
    <3>4. PICK m \in 1 .. Len(recorded) : recorded[m] = r
      BY <3>3 DEF Range, TypeOK
    <3>5. PICK f : Len(results) = Len(recorded) /\ Reordering(f, results, recorded)
      BY ReorderingOfOrder DEF ReadsAll, TypeOK
    <3>6. PICK j \in 1 .. Len(recorded) : f[j] = m
      BY <3>5 DEF Reordering
    <3>7. j \in 1 .. Len(results) /\ results[j] = r
      BY <3>4, <3>5, <3>6 DEF Reordering
    <3>8. \A c \in Covenants : InBreach(results', c) <=> InBreach(results, c)
      BY <3>1, <3>7, RepeatedResult DEF TypeOK
    <3>9. Status' = Status
      BY <3>1 DEF Status
    <3> QED BY <3>8, <3>9
  <2>2. ASSUME NEW e \in DefaultEvents, RecordDefaultEvent(e) PROVE SameAnswers
    <3>1. /\ events' = Append(events, e)
          /\ UNCHANGED <<results, recorded, maturity, today, base>>
      BY <2>2 DEF RecordDefaultEvent
    <3>2. Last(events') = e
      BY <3>1 DEF Last, TypeOK
    <3>3. e \in Range(events)
      BY <3>1, <3>2 DEF Repeats
    <3>4. PICK m \in DOMAIN events : events[m] = e
      BY <3>3 DEF Range
    <3>5. \A n \in DOMAIN events' : (n \in DOMAIN events /\ events'[n] = events[n]) \/ events'[n] = e
      BY <3>1 DEF TypeOK
    <3>6. Continuing' => Continuing
      BY <3>4, <3>5 DEF Continuing, IsContinuing
    <3>7. Continuing => Continuing'
      BY <2>2, NewEventEndsNothing
    <3>8. Status' = Status
      BY <3>1, <3>6, <3>7 DEF Status, Continuing
    <3> QED BY <3>1, <3>8
  <2>3. ~(Activate \/ Terminate \/ DayPasses \/ Reload)
    BY DEF Repeats, Activate, Terminate, DayPasses, Reload, TypeOK
  <2>4. ~Assign
    BY AssignedEvent DEF Repeats, TypeOK
  <2> QED BY <2>1, <2>2, <2>3, <2>4 DEF Next, Assign
<1> QED BY <1>1, TypeCorrect, ReadsReturnAll, PTL DEF Spec, RepeatChangesNothing
============================================================================
