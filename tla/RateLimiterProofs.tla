------------------------- MODULE RateLimiterProofs -------------------------
(***************************************************************************)
(* Proofs about RateLimiter, for any callers, any number of threads, any   *)
(* limit, any window, and calls stalled for any time.                      *)
(***************************************************************************)
EXTENDS RateLimiter, TLAPS

USE DEF Instants, NoWindow, Windows, Idle, Timed, Locked

\* The reading of a call and the window it works on are instants of the clock,
\* and so is the start of the window it leaves behind: a lemma about check()'s
\* arithmetic on windows.
LEMMA CurrentType ==
  ASSUME NEW call \in Locked
  PROVE  Current(call) \in Windows
BY DEF Current

\* Every variable of the limiter keeps its type.
THEOREM TypeCorrect == Spec => []TypeOK
<1> USE LimiterAssumption
<1>1. Init => TypeOK
  BY DEF Init, TypeOK, Answers
<1>2. TypeOK /\ [Next]_vars => TypeOK'
  <2> SUFFICES ASSUME TypeOK, [Next]_vars PROVE TypeOK'
    OBVIOUS
  <2> USE DEF TypeOK
  <2>1. ASSUME NEW t \in Threads, NEW i \in Identities, ReadClock(t, i) PROVE TypeOK'
    BY <2>1 DEF ReadClock
  <2>2. ASSUME NEW t \in Threads, Acquire(t) PROVE TypeOK'
    <3>1. calls[t] \in Timed
      BY <2>2 DEF Acquire
    <3>2. Lookup(calls[t].identity, calls[t].now) \in Windows
      BY <3>1 DEF Lookup
    <3>3. calls' \in [Threads -> {Idle} \cup Timed \cup Locked]
      BY <2>2, <3>1, <3>2 DEF Acquire
    <3> QED BY <2>2, <3>3 DEF Acquire
  <2>3. ASSUME NEW t \in Threads, Admit(t) PROVE TypeOK'
    <3>1. calls[t] \in Locked
      BY <2>3 DEF Admit
    <3> DEFINE i == calls[t].identity
               w == Current(calls[t])
    <3>2. i \in Identities /\ w.start \in Instants /\ w.count \in Nat
      BY <3>1, CurrentType
    <3> HIDE DEF i, w
    <3>3. windows' \in [Identities -> Windows]
      <4>1. windows' = [windows EXCEPT ![i] = [start |-> w.start, count |-> w.count + 1]]
        BY <2>3 DEF Admit, i, w
      <4>2. [start |-> w.start, count |-> w.count + 1] \in Windows
        BY <3>2
      <4> QED BY <4>1, <4>2, <3>2
    <3>4. admitted' \in [Identities -> Seq(Instants)]
      <4>1. admitted' = [admitted EXCEPT ![i] = Append(@, clock)]
        BY <2>3 DEF Admit, i
      <4> QED BY <4>1, <3>2
    <3>5. spent' \in [Identities -> [Instants -> Nat]]
      <4>1. spent' = [spent EXCEPT ![i] = [spent[i] EXCEPT ![w.start] = spent[i][w.start] + 1]]
        BY <2>3, <3>2 DEF Admit, i, w
      <4>2. [spent[i] EXCEPT ![w.start] = spent[i][w.start] + 1] \in [Instants -> Nat]
        BY SMTT(30), <3>2
      <4> QED BY <4>1, <4>2, <3>2
    <3> QED BY <2>3, <3>3, <3>4, <3>5 DEF Admit, Answers
  <2>4. ASSUME NEW t \in Threads, Refuse(t) PROVE TypeOK'
    <3>1. calls[t] \in Locked
      BY <2>4 DEF Refuse
    <3>2. Current(calls[t]) \in Windows
      BY <3>1, CurrentType
    <3>3. answer' \in Answers
      <4> DEFINE call == calls[t]
      <4>1. call.identity \in Identities /\ call.now \in Instants /\ Current(call).start \in Instants
        BY <3>1, <3>2
      <4>2. RetryAfter(call) \in Int /\ Header(call) \in Int
        BY <4>1 DEF RetryAfter, Header
      <4>3. answer' = [status |-> "429", identity |-> call.identity, at |-> clock,
                       opened |-> Current(call).start,
                       retry |-> RetryAfter(call), header |-> Header(call)]
        BY <2>4 DEF Refuse
      <4> HIDE DEF call
      <4> QED BY <4>1, <4>2, <4>3 DEF Answers
    <3> QED BY <2>4, <3>3 DEF Refuse
  <2>5. CASE Tick
    BY <2>5 DEF Tick
  <2>6. CASE UNCHANGED vars
    BY <2>6 DEF vars
  <2> QED BY <2>1, <2>2, <2>3, <2>4, <2>5, <2>6 DEF Next
<1> QED BY <1>1, <1>2, PTL DEF Spec

----------------------------------------------------------------------------
(***************************************************************************)
(* The quota.  The lock makes the entry that a thread has read the one     *)
(* that is stored until the thread lets go of the lock; from that, a new   *)
(* window starts later than the stored one, so nothing was charged to it   *)
(* yet, and a window that is continued has counted what was charged to it. *)
(***************************************************************************)

\* What a lock holder knows of the window it is about to count in.
LEMMA CurrentWindow ==
  ASSUME LimiterAssumption, TypeOK, QuotaInv,
         NEW t \in Threads, calls[t].pc = "locked"
  PROVE  LET i == calls[t].identity  w == Current(calls[t]) IN
         /\ i \in Identities /\ w.start \in Instants /\ w.count \in Nat
         /\ w.count = spent[i][w.start]
         /\ \A s \in Instants : s > w.start => spent[i][s] = 0
         /\ windows[i].count > 0 /\ w # windows[i] =>
              w.count = 0 /\ w.start >= windows[i].start + Window
<1> DEFINE call == calls[t]
           i == call.identity
           w == Current(call)
<1>1. call \in Locked
  BY DEF TypeOK
<1>2. i \in Identities /\ call.now \in Instants /\ w.start \in Instants /\ w.count \in Nat
  BY <1>1, CurrentType
<1>3. windows[i].start \in Instants /\ windows[i].count \in Nat
  BY <1>2 DEF TypeOK
<1>4. call.entry = Lookup(i, call.now)
  BY DEF QuotaInv, EntryIsFresh
<1>5. /\ windows[i].count > 0 => spent[i][windows[i].start] = windows[i].count
      /\ \A s \in Instants : s > windows[i].start => spent[i][s] = 0
      /\ windows[i].count = 0 => \A s \in Instants : spent[i][s] = 0
  BY <1>2 DEF QuotaInv, CountIsSpent
<1>6. Window \in Nat /\ Window > 0 /\ MaxTime \in Nat
  BY DEF LimiterAssumption
<1>7. CASE windows[i].count = 0
  <2>1. w.start = call.now /\ w.count = 0
    BY <1>2, <1>4, <1>6, <1>7 DEF Lookup, Current
  <2> QED BY <2>1, <1>2, <1>5, <1>7
<1>8. CASE windows[i].count > 0
  <2>1. call.entry = windows[i]
    BY <1>3, <1>4, <1>8 DEF Lookup
  <2>2. CASE call.now - windows[i].start >= Window
    <3>1. w.start = call.now /\ w.count = 0
      BY <2>1, <2>2 DEF Current
    <3>2. call.now > windows[i].start /\ call.now >= windows[i].start + Window
      BY <2>2, <1>2, <1>3, <1>6
    <3> QED BY SMTT(30), <3>1, <3>2, <1>2, <1>3, <1>5
  <2>3. CASE ~(call.now - windows[i].start >= Window)
    <3>1. w = windows[i]
      BY <2>1, <2>3 DEF Current
    <3> QED BY <3>1, <1>2, <1>5, <1>8
  <2> QED BY <2>2, <2>3
<1> QED BY <1>3, <1>7, <1>8

\* What Admit does, in the terms of CurrentWindow.
LEMMA AdmitEffect ==
  ASSUME LimiterAssumption, TypeOK, QuotaInv, NEW t \in Threads, Admit(t)
  PROVE  LET i == calls[t].identity  w == Current(calls[t]) IN
         /\ i \in Identities
         /\ \A j \in Identities : j # i => windows'[j] = windows[j] /\ spent'[j] = spent[j]
         /\ windows'[i] = [start |-> w.start, count |-> w.count + 1]
         /\ spent'[i][w.start] = w.count + 1
         /\ \A s \in Instants : s # w.start => spent'[i][s] = spent[i][s]
         /\ w.count + 1 <= MaxRequests
<1> DEFINE i == calls[t].identity
           w == Current(calls[t])
<1>1. calls[t].pc = "locked"
  BY DEF Admit
<1>2. i \in Identities /\ w.start \in Instants /\ w.count \in Nat /\ w.count = spent[i][w.start]
  BY <1>1, CurrentWindow
<1>3. windows' = [windows EXCEPT ![i] = [start |-> w.start, count |-> w.count + 1]]
  BY DEF Admit
<1>4. spent' = [spent EXCEPT ![i] = [spent[i] EXCEPT ![w.start] = spent[i][w.start] + 1]]
  BY <1>2 DEF Admit, TypeOK
<1>5. w.count < MaxRequests /\ MaxRequests \in Int
  BY DEF Admit, LimiterAssumption
<1> HIDE DEF i, w
<1>6. windows \in [Identities -> Windows] /\ spent \in [Identities -> [Instants -> Nat]]
  BY DEF TypeOK
<1>7. spent'[i] = [spent[i] EXCEPT ![w.start] = spent[i][w.start] + 1]
  BY <1>2, <1>4, <1>6
<1>8. spent[i] \in [Instants -> Nat]
  BY <1>2, <1>6
<1>9. /\ i \in Identities
      /\ \A j \in Identities : j # i => windows'[j] = windows[j] /\ spent'[j] = spent[j]
      /\ windows'[i] = [start |-> w.start, count |-> w.count + 1]
      /\ spent'[i][w.start] = w.count + 1
      /\ \A s \in Instants : s # w.start => spent'[i][s] = spent[i][s]
      /\ w.count + 1 <= MaxRequests
  <2>1. \A j \in Identities : j # i => windows'[j] = windows[j] /\ spent'[j] = spent[j]
    BY <1>2, <1>3, <1>4, <1>6
  <2>2. windows'[i] = [start |-> w.start, count |-> w.count + 1]
    BY <1>2, <1>3, <1>6
  <2>3. spent'[i][w.start] = w.count + 1
    BY <1>2, <1>7, <1>8
  <2>4. \A s \in Instants : s # w.start => spent'[i][s] = spent[i][s]
    BY <1>2, <1>7, <1>8
  <2> QED BY <1>2, <1>5, <2>1, <2>2, <2>3, <2>4
<1> QED BY <1>9 DEF i, w

\* The books of the quota are right when the limiter starts.
LEMMA QuotaInit == LimiterAssumption /\ Init => QuotaInv
BY DEF LimiterAssumption, Init, QuotaInv, LockHeld, EntryIsFresh, CountIsSpent, QuotaPerWindow

\* Every step keeps them.
LEMMA QuotaStep ==
  ASSUME LimiterAssumption, TypeOK, QuotaInv, [Next]_vars
  PROVE  QuotaInv'
<1>1. ASSUME NEW t \in Threads, NEW i \in Identities, ReadClock(t, i) PROVE QuotaInv'
  <2>1. calls[t].pc = "idle" /\ calls'[t].pc = "timed"
        /\ \A u \in Threads : u # t => calls'[u] = calls[u]
    BY <1>1 DEF ReadClock, TypeOK
  <2>2. UNCHANGED <<windows, lock, spent>>
    BY <1>1 DEF ReadClock
  <2>3. LockHeld'
    BY <2>1, <2>2 DEF QuotaInv, LockHeld
  <2>4. EntryIsFresh'
    BY <2>1, <2>2 DEF QuotaInv, EntryIsFresh, Lookup
  <2>5. CountIsSpent' /\ QuotaPerWindow'
    BY <2>2 DEF QuotaInv, CountIsSpent, QuotaPerWindow
  <2> QED BY <2>3, <2>4, <2>5 DEF QuotaInv
<1>2. ASSUME NEW t \in Threads, Acquire(t) PROVE QuotaInv'
  <2>1. calls' = [calls EXCEPT ![t] =
                    [pc |-> "locked", identity |-> calls[t].identity, now |-> calls[t].now,
                     entry |-> Lookup(calls[t].identity, calls[t].now)]]
        /\ lock = NoThread /\ lock' = t /\ UNCHANGED <<windows, spent>>
    BY <1>2 DEF Acquire
  <2>2. \A u \in Threads : u # t => calls'[u] = calls[u] /\ calls[u].pc # "locked"
    BY <2>1 DEF TypeOK, QuotaInv, LockHeld, LimiterAssumption
  <2>3. calls'[t] = [pc |-> "locked", identity |-> calls[t].identity, now |-> calls[t].now,
                     entry |-> Lookup(calls[t].identity, calls[t].now)]
    BY <2>1 DEF TypeOK
  <2>4. LockHeld'
    BY <2>1, <2>2, <2>3 DEF LockHeld
  <2>5. EntryIsFresh'
    BY <2>1, <2>2, <2>3 DEF EntryIsFresh, Lookup
  <2>6. CountIsSpent' /\ QuotaPerWindow'
    BY <2>1 DEF QuotaInv, CountIsSpent, QuotaPerWindow
  <2> QED BY <2>4, <2>5, <2>6 DEF QuotaInv
<1>3. ASSUME NEW t \in Threads, Admit(t) \/ Refuse(t) PROVE LockHeld' /\ EntryIsFresh'
  <2>1. calls' = [calls EXCEPT ![t] = Idle] /\ calls[t].pc = "locked" /\ lock' = NoThread
    BY <1>3 DEF Admit, Refuse
  <2>2. \A u \in Threads : calls'[u].pc # "locked"
    BY <2>1 DEF TypeOK, QuotaInv, LockHeld
  <2> QED BY <2>1, <2>2 DEF LockHeld, EntryIsFresh, LimiterAssumption
<1>4. ASSUME NEW t \in Threads, Admit(t) PROVE QuotaInv'
  <2> DEFINE i == calls[t].identity
             w == Current(calls[t])
  <2>1. calls[t].pc = "locked"
    BY <1>4 DEF Admit
  <2>2. /\ i \in Identities /\ w.start \in Instants /\ w.count \in Nat
        /\ \A s \in Instants : s > w.start => spent[i][s] = 0
    BY <2>1, CurrentWindow
  <2>3. /\ \A j \in Identities : j # i => windows'[j] = windows[j] /\ spent'[j] = spent[j]
        /\ windows'[i] = [start |-> w.start, count |-> w.count + 1]
        /\ spent'[i][w.start] = w.count + 1
        /\ \A s \in Instants : s # w.start => spent'[i][s] = spent[i][s]
        /\ w.count + 1 <= MaxRequests
    BY <1>4, AdmitEffect
  <2> HIDE DEF i, w
  <2>4. CountIsSpent'
    <3> SUFFICES ASSUME NEW j \in Identities
                 PROVE  /\ windows'[j].count > 0 => windows'[j].count <= MaxRequests
                        /\ windows'[j].count > 0 => spent'[j][windows'[j].start] = windows'[j].count
                        /\ \A s \in Instants : s > windows'[j].start => spent'[j][s] = 0
                        /\ windows'[j].count = 0 => \A s \in Instants : spent'[j][s] = 0
      BY DEF CountIsSpent
    <3>1. CASE j # i
      BY <2>3, <3>1 DEF QuotaInv, CountIsSpent
    <3>2. CASE j = i
      BY <2>2, <2>3, <3>2
    <3> QED BY <3>1, <3>2
  <2>5. QuotaPerWindow'
    <3> SUFFICES ASSUME NEW j \in Identities, NEW s \in Instants, spent'[j][s] > 0
                 PROVE  spent'[j][s] <= MaxRequests
      BY DEF QuotaPerWindow
    <3>1. CASE j = i /\ s = w.start
      BY <2>3, <3>1
    <3>2. CASE ~(j = i /\ s = w.start)
      BY <2>3, <3>2 DEF QuotaInv, QuotaPerWindow
    <3> QED BY <3>1, <3>2
  <2> QED BY <1>3, <1>4, <2>4, <2>5 DEF QuotaInv
<1>5. ASSUME NEW t \in Threads, Refuse(t) PROVE QuotaInv'
  <2>1. UNCHANGED <<windows, spent>>
    BY <1>5 DEF Refuse
  <2>2. CountIsSpent' /\ QuotaPerWindow'
    BY <2>1 DEF QuotaInv, CountIsSpent, QuotaPerWindow
  <2> QED BY <1>3, <1>5, <2>2 DEF QuotaInv
<1>6. ASSUME UNCHANGED <<windows, lock, calls, spent>> PROVE QuotaInv'
  BY <1>6 DEF QuotaInv, LockHeld, EntryIsFresh, CountIsSpent, QuotaPerWindow, Lookup
<1>7. CASE Tick
  BY <1>6, <1>7 DEF Tick
<1>8. CASE UNCHANGED vars
  BY <1>6, <1>8 DEF vars
<1> QED BY <1>1, <1>2, <1>4, <1>5, <1>7, <1>8 DEF Next

\* The cap: no window of an identity is ever charged more than MaxRequests
\* admissions (InMemoryRateLimiter.check under any number of threads).
THEOREM QuotaHolds == Spec => []QuotaPerWindow
<1>1. Init => QuotaInv
  BY LimiterAssumption, QuotaInit
<1>2. TypeOK /\ QuotaInv /\ [Next]_vars => QuotaInv'
  BY LimiterAssumption, QuotaStep
<1>3. QuotaInv => QuotaPerWindow
  BY DEF QuotaInv
<1> QED BY <1>1, <1>2, <1>3, TypeCorrect, PTL DEF Spec

\* Windows do not overlap: an entry of the limiter changes by one more request
\* in the same window, or to a window that begins when the old one is over.
THEOREM WindowsDisjoint == Spec => WindowsNeverOverlap
<1> DEFINE Moves(i) ==
      windows[i].count > 0 /\ windows'[i] # windows[i] =>
        \/ windows'[i] = [windows[i] EXCEPT !.count = @ + 1]
        \/ windows'[i].start >= windows[i].start + Window
<1>1. TypeOK /\ QuotaInv /\ [Next]_vars => [\A i \in Identities : Moves(i)]_vars
  <2> SUFFICES ASSUME TypeOK, QuotaInv, [Next]_vars, NEW i \in Identities PROVE Moves(i)
    OBVIOUS
  <2>1. ASSUME NEW t \in Threads, Admit(t) PROVE Moves(i)
    <3> DEFINE w == Current(calls[t])
    <3>1. calls[t].pc = "locked"
      BY <2>1 DEF Admit
    <3>2. CASE i # calls[t].identity
      BY <2>1, <3>2, AdmitEffect, LimiterAssumption
    <3>3. CASE i = calls[t].identity
      <4>1. windows'[i] = [start |-> w.start, count |-> w.count + 1]
        BY <2>1, <3>3, AdmitEffect, LimiterAssumption
      <4>2. windows[i].count > 0 /\ w # windows[i] => w.start >= windows[i].start + Window
        BY <3>1, <3>3, CurrentWindow, LimiterAssumption
      <4>3. windows[i] \in Windows
        BY DEF TypeOK
      <4> HIDE DEF w
      <4>4. CASE w = windows[i]
        BY <4>1, <4>3, <4>4
      <4>5. CASE w # windows[i]
        BY <4>1, <4>2, <4>5
      <4> QED BY <4>4, <4>5
    <3> QED BY <3>2, <3>3
  <2>2. CASE UNCHANGED windows
    BY <2>2
  <2> QED BY <2>1, <2>2 DEF Next, ReadClock, Acquire, Refuse, Tick, vars
<1>2. Spec => []QuotaInv
  <2>1. Init => QuotaInv
    BY LimiterAssumption, QuotaInit
  <2>2. TypeOK /\ QuotaInv /\ [Next]_vars => QuotaInv'
    BY LimiterAssumption, QuotaStep
  <2> QED BY <2>1, <2>2, TypeCorrect, PTL DEF Spec
<1>3. Spec => [][\A i \in Identities : Moves(i)]_vars
  BY <1>1, <1>2, TypeCorrect, PTL DEF Spec
<1> QED BY <1>3 DEF WindowsNeverOverlap

----------------------------------------------------------------------------
(***************************************************************************)
(* Refusals.                                                               *)
(***************************************************************************)
LEMMA QuotaAlways == Spec => []QuotaInv
<1>1. Init => QuotaInv
  BY LimiterAssumption, QuotaInit
<1>2. TypeOK /\ QuotaInv /\ [Next]_vars => QuotaInv'
  BY LimiterAssumption, QuotaStep
<1> QED BY <1>1, <1>2, TypeCorrect, PTL DEF Spec

\* A refusal is of a spent window: Refuse answers for a window whose count is
\* what was charged to it, and what is charged is never taken back.
THEOREM RefusalsSpent == Spec => []RefusedOnlyWhenSpent
<1>1. Init => RefusedOnlyWhenSpent
  BY DEF Init, RefusedOnlyWhenSpent
<1>2. TypeOK /\ QuotaInv /\ RefusedOnlyWhenSpent /\ [Next]_vars => RefusedOnlyWhenSpent'
  <2> SUFFICES ASSUME TypeOK, QuotaInv, RefusedOnlyWhenSpent, [Next]_vars
               PROVE  RefusedOnlyWhenSpent'
    OBVIOUS
  <2>1. ASSUME NEW t \in Threads, Admit(t) PROVE RefusedOnlyWhenSpent'
    BY <2>1 DEF Admit, RefusedOnlyWhenSpent
  <2>2. ASSUME NEW t \in Threads, Refuse(t) PROVE RefusedOnlyWhenSpent'
    <3> DEFINE i == calls[t].identity
               w == Current(calls[t])
    <3>1. w.count = spent[i][w.start] /\ w.count >= MaxRequests
      BY <2>2, CurrentWindow, LimiterAssumption DEF Refuse
    <3>2. answer'.identity = i /\ answer'.opened = w.start /\ spent' = spent
      BY <2>2 DEF Refuse
    <3> QED BY <3>1, <3>2 DEF RefusedOnlyWhenSpent
  <2>3. CASE UNCHANGED <<spent, answer>>
    BY <2>3 DEF RefusedOnlyWhenSpent
  <2> QED BY <2>1, <2>2, <2>3 DEF Next, ReadClock, Acquire, Tick, vars
<1> QED BY <1>1, <1>2, QuotaAlways, TypeCorrect, PTL DEF Spec

\* The reading of a call is in the past, but by no more than its stall.
Punctual ==
  \A t \in Threads : InFlight(t) => calls[t].now <= clock /\ clock - calls[t].now <= MaxStall

\* Every step keeps a call close to the time it read.
LEMMA PunctualStep ==
  ASSUME TypeOK, Punctual, [Next]_vars
  PROVE  Punctual'
<1> USE LimiterAssumption DEF Punctual, InFlight
<1>1. ASSUME NEW t \in Threads, NEW i \in Identities, ReadClock(t, i) PROVE Punctual'
  BY SMTT(30), <1>1 DEF ReadClock, TypeOK
<1>2. ASSUME NEW t \in Threads, Acquire(t) PROVE Punctual'
  BY <1>2 DEF Acquire, TypeOK
<1>3. ASSUME NEW t \in Threads, Admit(t) \/ Refuse(t) PROVE Punctual'
  <2>1. clock' = clock /\ calls' = [calls EXCEPT ![t] = Idle]
    BY <1>3 DEF Admit, Refuse
  <2> QED BY <2>1 DEF TypeOK
<1>4. CASE Tick
  <2>1. \A t \in Threads : InFlight(t) => calls[t].now \in Nat
    BY DEF TypeOK
  <2>2. clock \in Nat /\ clock' = clock + 1 /\ calls' = calls
        /\ \A t \in Threads : InFlight(t) => clock - calls[t].now < MaxStall
    BY <1>4 DEF Tick, TypeOK
  <2> QED BY <2>1, <2>2
<1>5. CASE UNCHANGED vars
  BY <1>5 DEF vars
<1> QED BY <1>1, <1>2, <1>3, <1>4, <1>5 DEF Next

\* The announced wait ends with the window, give or take the stall of the call
\* and the rounding of the header.
THEOREM WaitsMatch == Spec => []WaitMatchesWindow
<1>1. Init => Punctual /\ WaitMatchesWindow
  BY DEF Init, Punctual, InFlight, WaitMatchesWindow
<1>2. TypeOK /\ Punctual /\ WaitMatchesWindow /\ [Next]_vars => WaitMatchesWindow'
  <2> SUFFICES ASSUME TypeOK, Punctual, WaitMatchesWindow, [Next]_vars
               PROVE  WaitMatchesWindow'
    OBVIOUS
  <2>1. ASSUME NEW t \in Threads, Admit(t) PROVE WaitMatchesWindow'
    BY <2>1 DEF Admit, WaitMatchesWindow
  <2>2. ASSUME NEW t \in Threads, Refuse(t) PROVE WaitMatchesWindow'
    <3> DEFINE call == calls[t]
               start == Current(call).start
    <3>1. call \in Locked
      BY <2>2 DEF Refuse, TypeOK
    <3>2. start \in Instants /\ call.now \in Instants /\ clock \in Instants
      BY <3>1, CurrentType DEF TypeOK
    <3>3. call.now <= clock /\ clock - call.now <= MaxStall
      BY <3>1 DEF Punctual, InFlight
    <3>4. call.now - start < Window
      BY <3>1, LimiterAssumption DEF Current
    <3>5. /\ answer'.at = clock /\ answer'.opened = start
          /\ answer'.retry = Window - (call.now - start)
          /\ answer'.header = Window - (call.now - start) + 1
      BY <2>2 DEF Refuse, RetryAfter, Header
    <3> HIDE DEF call, start
    <3> QED BY <3>2, <3>3, <3>4, <3>5, LimiterAssumption DEF WaitMatchesWindow
  <2>3. CASE UNCHANGED answer
    BY <2>3 DEF WaitMatchesWindow
  <2> QED BY <2>1, <2>2, <2>3 DEF Next, ReadClock, Acquire, Tick, vars
<1> QED BY <1>1, <1>2, PunctualStep, TypeCorrect, PTL DEF Spec

----------------------------------------------------------------------------
(***************************************************************************)
(* The boundary burst.  Of the admissions of an identity the last          *)
(* windows[i].count belong to the stored window; those before it belong to *)
(* windows that began at least one Window earlier; and, as no window is    *)
(* charged more than MaxRequests, those that lie MaxRequests further back  *)
(* to windows that began two earlier.  A call is admitted at most MaxStall *)
(* after a reading within its window.                                      *)
(***************************************************************************)
BurstOf(a, s, c, at) ==
  /\ c <= Len(a) /\ (c = 0 => Len(a) = 0)
  /\ s <= at
  /\ c > 0 => \A n \in DOMAIN a :
       /\ a[n] < s + Window + MaxStall
       /\ n <= Len(a) - c => a[n] < s + MaxStall
       /\ n <= Len(a) - c - MaxRequests => a[n] < s - Window + MaxStall

BurstInv ==
  \A i \in Identities : BurstOf(admitted[i], windows[i].start, windows[i].count, clock)

\* The three ways in which one more admission, at the instant at, can be charged:
\* to the first window there is, to the stored window, and to the next one.
LEMMA BurstGrows ==
  ASSUME NEW a \in Seq(Int), NEW s \in Int, NEW c \in Nat, NEW at \in Int,
         BurstOf(a, s, c, at), c <= MaxRequests,
         NEW r \in Int, NEW k \in Nat, r <= at, at < r + Window + MaxStall,
         \/ c = 0 /\ k = 0
         \/ c > 0 /\ r = s /\ k = c
         \/ c > 0 /\ r >= s + Window /\ k = 0
  PROVE  BurstOf(Append(a, at), r, k + 1, at)
<1> DEFINE b == Append(a, at)
           L == Len(a)
<1>0. MaxRequests \in Int /\ Window \in Nat /\ MaxStall \in Nat
  BY LimiterAssumption
<1>1. L \in Nat /\ Len(b) = L + 1 /\ DOMAIN b = 1 .. L + 1 /\ DOMAIN a = 1 .. L
  OBVIOUS
<1>2. b[L + 1] = at /\ \A n \in 1 .. L : b[n] = a[n] /\ a[n] \in Int
  OBVIOUS
<1>3. c <= L /\ (c = 0 => L = 0)
  BY DEF BurstOf
<1>4. ASSUME NEW n \in 1 .. L + 1
      PROVE  /\ b[n] < r + Window + MaxStall
             /\ n <= L - k => b[n] < r + MaxStall
             /\ n <= L - k - MaxRequests => b[n] < r - Window + MaxStall
  <2> HIDE DEF b, L
  <2>1. CASE n = L + 1
    BY <1>0, <1>1, <1>2, <1>3, <2>1
  <2>2. CASE n \in 1 .. L
    <3>1. c > 0
      BY <1>1, <1>3, <2>2
    <3>2. /\ a[n] < s + Window + MaxStall
          /\ n <= L - c => a[n] < s + MaxStall
          /\ n <= L - c - MaxRequests => a[n] < s - Window + MaxStall
      BY <1>1, <2>2, <3>1 DEF BurstOf, L
    <3>3. b[n] = a[n] /\ a[n] \in Int
      BY <1>2, <2>2
    <3> QED BY SMTT(30), <1>0, <1>1, <1>3, <2>2, <3>1, <3>2, <3>3
  <2> QED BY <1>1, <2>1, <2>2
<1>5. k + 1 <= L + 1
  BY <1>1, <1>3
<1>6. BurstOf(b, r, k + 1, at)
  <2> HIDE DEF b, L
  <2>1. /\ L + 1 - (k + 1) = L - k /\ k + 1 > 0
        /\ L + 1 - (k + 1) - MaxRequests = L - k - MaxRequests
    BY <1>0, <1>1
  <2> QED BY <1>1, <1>4, <1>5, <2>1 DEF BurstOf
<1> QED BY <1>6

\* Hence the burst, where the new admission is the last of those it is about.
LEMMA BurstEnds ==
  ASSUME NEW a \in Seq(Int), NEW s \in Int, NEW c \in Nat, BurstOf(a, s, c, a[Len(a)]),
         0 < c, c <= MaxRequests, NEW n \in DOMAIN a, n + 2 * MaxRequests = Len(a)
  PROVE  a[Len(a)] - a[n] > Window - MaxStall
<1>0. MaxRequests \in Int /\ Window \in Nat /\ MaxStall \in Nat
  BY LimiterAssumption
<1>1. n \in 1 .. Len(a) /\ n <= Len(a) - c - MaxRequests /\ a[n] \in Int /\ a[Len(a)] \in Int
  BY <1>0
<1>2. a[n] < s - Window + MaxStall /\ s <= a[Len(a)]
  BY <1>1 DEF BurstOf
<1> QED BY SMTT(30), <1>0, <1>1, <1>2

\* The window of the call that holds the lock begins with its own reading, or is
\* the stored one while that is open.
LEMMA WindowOfCall ==
  ASSUME TypeOK, QuotaInv, Punctual, NEW t \in Threads, calls[t].pc = "locked"
  PROVE  LET i == calls[t].identity  w == Current(calls[t]) IN
         \E r \in Instants :
           /\ r <= clock /\ clock - r <= MaxStall
           /\ \/ w = [start |-> r, count |-> 0]
              \/ w = windows[i] /\ windows[i].count > 0 /\ r - w.start < Window
<1> DEFINE r == calls[t].now
           i == calls[t].identity
<1>1. calls[t] \in Locked
  BY DEF TypeOK
<1>2. r \in Instants /\ r <= clock /\ clock - r <= MaxStall
  BY <1>1 DEF Punctual, InFlight
<1>3. calls[t].entry = Lookup(i, r)
  BY DEF QuotaInv, EntryIsFresh
<1>4. i \in Identities /\ windows[i] \in Windows
  BY <1>1 DEF TypeOK
<1>5. \/ Current(calls[t]) = [start |-> r, count |-> 0]
      \/ Current(calls[t]) = calls[t].entry /\ r - calls[t].entry.start < Window
  <2>1. r - calls[t].entry.start \in Int /\ Window \in Int
    BY <1>1, LimiterAssumption
  <2> QED BY <2>1 DEF Current
<1>6. \/ calls[t].entry = [start |-> r, count |-> 0]
      \/ calls[t].entry = windows[i] /\ windows[i].count > 0
  BY <1>3, <1>4 DEF Lookup
<1> QED BY <1>2, <1>5, <1>6

\* An admission lengthens the list of its identity by the present instant.
LEMMA AdmitNotes ==
  ASSUME TypeOK, NEW t \in Threads, Admit(t)
  PROVE  LET i == calls[t].identity IN
         /\ i \in Identities
         /\ admitted'[i] = Append(admitted[i], clock)
         /\ \A j \in Identities : j # i => admitted'[j] = admitted[j]
<1>1. calls[t] \in Locked /\ admitted' = [admitted EXCEPT ![calls[t].identity] = Append(@, clock)]
  BY DEF Admit, TypeOK
<1> QED BY <1>1 DEF TypeOK

\* An admission keeps the bursts of its identity bounded.
LEMMA AdmitBurst ==
  ASSUME TypeOK, QuotaInv, Punctual, BurstInv, BurstBounded, NEW t \in Threads, Admit(t)
  PROVE  LET i == calls[t].identity IN
         /\ BurstOf(admitted'[i], windows'[i].start, windows'[i].count, clock')
         /\ \A n \in DOMAIN admitted'[i] :
              LET m == n + 2 * MaxRequests IN
              MaxRequests > 0 /\ m <= Len(admitted'[i])
                => admitted'[i][m] - admitted'[i][n] > Window - MaxStall
<1> DEFINE i == calls[t].identity
           w == Current(calls[t])
           a == admitted[i]
           s == windows[i].start
           c == windows[i].count
           b == admitted'[i]
<1>0. MaxRequests \in Int /\ Window \in Nat /\ MaxStall \in Nat /\ MaxTime \in Nat
  BY LimiterAssumption
<1>1. calls[t].pc = "locked" /\ clock' = clock
  BY DEF Admit
<1>2. i \in Identities /\ b = Append(a, clock)
  BY AdmitNotes
<1>3. a \in Seq(Int) /\ clock \in Int /\ s \in Int /\ c \in Nat
  <2>1. admitted[i] \in Seq(Instants) /\ windows[i] \in Windows /\ clock \in Instants
    BY <1>2 DEF TypeOK
  <2>2. Instants \subseteq Int
    BY <1>0
  <2>3. \A S, T : S \subseteq T => Seq(S) \subseteq Seq(T)
    OBVIOUS
  <2> HIDE DEF Instants
  <2>4. a \in Seq(Int)
    BY <2>1, <2>2, <2>3
  <2> QED BY <2>1, <2>2, <2>4
<1>4. windows'[i].start = w.start /\ windows'[i].count = w.count + 1 /\ w.count + 1 <= MaxRequests
  <2>1. windows'[i] = [start |-> w.start, count |-> w.count + 1] /\ w.count + 1 <= MaxRequests
    BY AdmitEffect, LimiterAssumption
  <2> HIDE DEF w
  <2> QED BY <2>1
<1>5. /\ w.start \in Int /\ w.count \in Nat
      /\ c > 0 /\ w # windows[i] => w.count = 0 /\ w.start >= s + Window
  BY <1>0, <1>1, CurrentWindow, LimiterAssumption
<1>6. PICK r \in Instants :
        /\ r <= clock /\ clock - r <= MaxStall
        /\ \/ w = [start |-> r, count |-> 0]
           \/ w = windows[i] /\ windows[i].count > 0 /\ r - w.start < Window
  BY <1>1, WindowOfCall
<1>7. BurstOf(a, s, c, clock) /\ s <= clock
  BY <1>2 DEF BurstInv, BurstOf
<1>8. c <= MaxRequests
  BY <1>0, <1>2, <1>3, <1>4, <1>5 DEF QuotaInv, CountIsSpent
<1>9. w.start <= clock /\ clock < w.start + Window + MaxStall
  <2>1. CASE w = [start |-> r, count |-> 0]
    <3>1. w.start = r
      BY <2>1
    <3>2. Window > 0
      BY LimiterAssumption
    <3> HIDE DEF w
    <3> QED BY <1>0, <1>3, <1>6, <3>1, <3>2
  <2>2. CASE w = windows[i] /\ r - w.start < Window
    <3>1. w.start = s
      BY <2>2
    <3> HIDE DEF w, s
    <3> QED BY <1>0, <1>3, <1>5, <1>6, <1>7, <2>2, <3>1
  <2> QED BY <1>6, <2>1, <2>2
<1>10. \/ c = 0 /\ w.count = 0
       \/ c > 0 /\ w.start = s /\ w.count = c
       \/ c > 0 /\ w.start >= s + Window /\ w.count = 0
  <2>1. w.count = 0 \/ (w.start = s /\ w.count = c /\ c > 0)
    BY <1>6
  <2>2. c > 0 => (w.start = s /\ w.count = c) \/ (w.count = 0 /\ w.start >= s + Window)
    BY <1>5
  <2> HIDE DEF w, s, c
  <2> QED BY <1>3, <2>1, <2>2
<1>11. BurstOf(b, w.start, w.count + 1, clock)
  <2> HIDE DEF w, a, s, c, b
  <2> QED BY <1>2, <1>3, <1>5, <1>7, <1>8, <1>9, <1>10, BurstGrows
<1>12. ASSUME NEW n \in DOMAIN b, MaxRequests > 0, n + 2 * MaxRequests <= Len(b)
       PROVE  b[n + 2 * MaxRequests] - b[n] > Window - MaxStall
  <2> DEFINE m == n + 2 * MaxRequests
  <2>1. /\ Len(b) = Len(a) + 1 /\ DOMAIN b = 1 .. Len(b) /\ DOMAIN a = 1 .. Len(a)
        /\ b[Len(b)] = clock /\ \A l \in 1 .. Len(a) : b[l] = a[l]
        /\ b \in Seq(Int) /\ Len(a) \in Nat
    <3> HIDE DEF a, b
    <3> QED BY <1>2, <1>3
  <2>2. CASE m = Len(b)
    <3>1. BurstOf(b, w.start, w.count + 1, b[Len(b)]) /\ n + 2 * MaxRequests = Len(b)
      BY <1>11, <2>1, <2>2
    <3>2. w.count + 1 \in Nat /\ 0 < w.count + 1
      BY <1>5
    <3> HIDE DEF w, b
    <3> QED BY <1>4, <1>5, <2>1, <2>2, <3>1, <3>2, BurstEnds
  <2>3. CASE m # Len(b)
    <3>1. n \in 1 .. Len(a) /\ m \in 1 .. Len(a) /\ m <= Len(a)
      <4> HIDE DEF a, b
      <4>1. m \in Int /\ n \in Int
          BY <1>0, <2>1
        <4> HIDE DEF m
        <4> QED BY SMTT(30), <1>0, <1>12, <2>1, <2>3, <4>1 DEF m
    <3>2. a[m] - a[n] > Window - MaxStall
      BY <1>2, <1>12, <2>1, <3>1 DEF BurstBounded
    <3> QED BY <2>1, <3>1, <3>2
  <2> QED BY <2>2, <2>3
<1>13. BurstOf(admitted'[i], windows'[i].start, windows'[i].count, clock')
  BY <1>1, <1>4, <1>11
<1> QED BY <1>12, <1>13

\* Every step keeps the invariant of the bursts.
LEMMA BurstStep ==
  ASSUME TypeOK, TypeOK', QuotaInv, Punctual, BurstInv, BurstBounded, [Next]_vars
  PROVE  BurstInv' /\ BurstBounded'
<1>2. ASSUME NEW t \in Threads, Admit(t) PROVE BurstInv' /\ BurstBounded'
  <2>1. \A j \in Identities : j # calls[t].identity =>
          admitted'[j] = admitted[j] /\ windows'[j] = windows[j]
    BY <1>2, AdmitEffect, AdmitNotes, LimiterAssumption
  <2>2. clock' = clock
    BY <1>2 DEF Admit
  <2>3. BurstInv'
    <3> SUFFICES ASSUME NEW j \in Identities
                 PROVE  BurstOf(admitted'[j], windows'[j].start, windows'[j].count, clock')
      BY DEF BurstInv, BurstOf
    <3>1. CASE j = calls[t].identity
      BY <1>2, <3>1, AdmitBurst
    <3>2. CASE j # calls[t].identity
      BY <2>1, <2>2, <3>2 DEF BurstInv, BurstOf
    <3> QED BY <3>1, <3>2
  <2>4. BurstBounded'
    <3> SUFFICES ASSUME NEW j \in Identities
                 PROVE  \A n \in DOMAIN admitted'[j] :
                          LET m == n + 2 * MaxRequests IN
                          MaxRequests > 0 /\ m <= Len(admitted'[j])
                            => admitted'[j][m] - admitted'[j][n] > Window - MaxStall
      BY DEF BurstBounded
    <3>1. CASE j = calls[t].identity
      BY <1>2, <3>1, AdmitBurst
    <3>2. CASE j # calls[t].identity
      BY <2>1, <3>2 DEF BurstBounded
    <3> QED BY <3>1, <3>2
  <2> QED BY <2>3, <2>4
<1>3. ASSUME UNCHANGED <<windows, admitted>>, clock' >= clock, clock' \in Int
      PROVE  BurstInv' /\ BurstBounded'
  <2>1. BurstBounded'
    BY <1>3 DEF BurstBounded
  <2>2. \A i \in Identities : windows[i].start \in Int /\ clock \in Int
    BY DEF TypeOK
  <2>3. BurstInv'
    BY <1>3, <2>2 DEF BurstInv, BurstOf
  <2> QED BY <2>1, <2>3
<1>4. CASE Tick
  BY <1>3, <1>4 DEF Tick, TypeOK
<1>5. CASE UNCHANGED <<windows, admitted, clock>>
  BY <1>3, <1>5 DEF TypeOK
<1> QED BY <1>2, <1>4, <1>5 DEF Next, ReadClock, Acquire, Refuse, vars

\* More than twice the quota takes an identity longer than a window, less the
\* stall of a call (the boundary burst that ADR-0028 accepts).
THEOREM BurstsBounded == Spec => []BurstBounded
<1>1. Init => Punctual /\ BurstInv /\ BurstBounded
  BY LimiterAssumption DEF Init, Punctual, InFlight, BurstInv, BurstOf, BurstBounded
<1> QED BY <1>1, BurstStep, PunctualStep, QuotaAlways, TypeCorrect, PTL DEF Spec
============================================================================
