---------------------------- MODULE RateLimiter ----------------------------
(***************************************************************************)
(* The fixed-window request limiter in front of POST /extractions          *)
(* (app/rate_limit.py).  The dependency that calls it is synchronous, so   *)
(* FastAPI runs it in a thread pool and several threads are inside check() *)
(* at once.  check() reads the monotonic clock BEFORE it takes the lock:   *)
(* by the time a thread works on a window, its reading may be old.         *)
(*                                                                         *)
(* Time is counted in whole ticks; time.monotonic() is a float, and every  *)
(* comparison the code makes on it is a comparison of differences.         *)
(***************************************************************************)
EXTENDS Integers, Sequences

CONSTANTS
  Identities,   \* the key fingerprints of the callers
  Threads,      \* the workers of the thread pool
  MaxRequests,  \* extraction_rate_limit_max_requests
  Window,       \* extraction_rate_limit_window_seconds
  MaxStall,     \* the longest a call may take between clock reading and answer
  MaxTime       \* the last instant of the clock in a bounded run

NoThread == "no thread"   \* the lock is free

\* RateLimitSettings (app/config.py) puts no bound on MaxRequests: zero or a
\* negative number is a legal setting.  A window of zero seconds or less would
\* never be open, so the limiter is only meaningful for a positive one.
ASSUME LimiterAssumption ==
  /\ NoThread \notin Threads
  /\ MaxRequests \in Int
  /\ Window \in Nat \ {0}
  /\ MaxStall \in Nat
  /\ MaxTime \in Nat

VARIABLES
  clock,     \* time.monotonic()
  windows,   \* self._windows: per identity the start of its window and the count
  lock,      \* self._lock: the thread that holds it, or NoThread
  calls,     \* where each thread is in check(), with its local variables
  admitted,  \* history: per identity, the instants at which calls were allowed
  spent,     \* history: per identity and window start, the calls charged to it
  answer     \* history: the last answer a call produced

vars == <<clock, windows, lock, calls, admitted, spent, answer>>

Instants == 0 .. MaxTime

\* check() stores a window only with a count of at least one, so a count of
\* zero stands for an identity without an entry.
NoWindow == [start |-> 0, count |-> 0]

Windows == [start : Instants, count : Nat]
Idle == [pc |-> "idle"]
Timed == [pc : {"timed"}, identity : Identities, now : Instants]
Locked == [pc : {"locked"}, identity : Identities, now : Instants, entry : Windows]

Init ==
  /\ clock = 0
  /\ windows = [i \in Identities |-> NoWindow]
  /\ lock = NoThread
  /\ calls = [t \in Threads |-> Idle]
  /\ admitted = [i \in Identities |-> <<>>]
  /\ spent = [i \in Identities |-> [s \in Instants |-> 0]]
  /\ answer = [status |-> "none"]

InFlight(t) == calls[t].pc # "idle"

----------------------------------------------------------------------------
(***************************************************************************)
(* The steps of one call.                                                  *)
(***************************************************************************)

\* A request reaches the dependency and check() reads the clock.
ReadClock(t, i) ==
  /\ calls[t].pc = "idle"
  /\ calls' = [calls EXCEPT ![t] = [pc |-> "timed", identity |-> i, now |-> clock]]
  /\ UNCHANGED <<clock, windows, lock, admitted, spent, answer>>

\* self._windows.get(identity_key, (now, 0))
Lookup(i, now) ==
  IF windows[i].count = 0 THEN [start |-> now, count |-> 0] ELSE windows[i]

\* Mutant of Acquire: the section is not locked.
AcquireWithoutLock(t) ==
  /\ calls[t].pc = "timed"
  /\ lock' = t
  /\ calls' = [calls EXCEPT ![t] =
                 [pc |-> "locked", identity |-> calls[t].identity, now |-> calls[t].now,
                  entry |-> Lookup(calls[t].identity, calls[t].now)]]
  /\ UNCHANGED <<clock, windows, admitted, spent, answer>>

\* The thread gets the lock and reads the entry of its identity.
Acquire(t) ==
  /\ calls[t].pc = "timed"
  /\ lock = NoThread
  /\ lock' = t
  /\ calls' = [calls EXCEPT ![t] =
                 [pc |-> "locked", identity |-> calls[t].identity, now |-> calls[t].now,
                  entry |-> Lookup(calls[t].identity, calls[t].now)]]
  /\ UNCHANGED <<clock, windows, admitted, spent, answer>>

\* Mutant of Current: the window is over one tick early.
CurrentTooSoon(call) ==
  IF call.now - call.entry.start >= Window - 1
    THEN [start |-> call.now, count |-> 0]
    ELSE call.entry

\* Mutant of Current: the end of the new window is stored as its start.
CurrentAsExpiry(call) ==
  IF call.now - call.entry.start >= Window
    THEN [start |-> call.now + Window, count |-> 0]
    ELSE call.entry

\* A window that has run out is replaced by one that starts at the reading.
Current(call) ==
  IF call.now - call.entry.start >= Window
    THEN [start |-> call.now, count |-> 0]
    ELSE call.entry

\* Mutant of RetryAfter: the seconds that have passed.
RetryAfterElapsed(call) == call.now - Current(call).start

\* The seconds check() returns when it refuses.
RetryAfter(call) == Window - (call.now - Current(call).start)

\* The Retry-After header, int(retry_after_seconds) + 1.
Header(call) == RetryAfter(call) + 1

\* Mutant of Admit: one request too many.
AdmitOneMore(t) ==
  LET call == calls[t] IN
  /\ call.pc = "locked"
  /\ Current(call).count <= MaxRequests
  /\ windows' = [windows EXCEPT ![call.identity] =
                   [start |-> Current(call).start, count |-> Current(call).count + 1]]
  /\ lock' = NoThread
  /\ calls' = [calls EXCEPT ![t] = Idle]
  /\ admitted' = [admitted EXCEPT ![call.identity] = Append(@, clock)]
  /\ spent' = [spent EXCEPT ![call.identity][Current(call).start] = @ + 1]
  /\ answer' = [status |-> "allowed"]
  /\ UNCHANGED clock

\* The request is let through, and counted.
Admit(t) ==
  LET call == calls[t] IN
  /\ call.pc = "locked"
  /\ Current(call).count < MaxRequests
  /\ windows' = [windows EXCEPT ![call.identity] =
                   [start |-> Current(call).start, count |-> Current(call).count + 1]]
  /\ lock' = NoThread
  /\ calls' = [calls EXCEPT ![t] = Idle]
  /\ admitted' = [admitted EXCEPT ![call.identity] = Append(@, clock)]
  /\ spent' = [spent EXCEPT ![call.identity][Current(call).start] = @ + 1]
  /\ answer' = [status |-> "allowed"]
  /\ UNCHANGED clock

\* Mutant of Refuse: the last request of the quota is refused.
RefuseOneEarly(t) ==
  LET call == calls[t] IN
  /\ call.pc = "locked"
  /\ Current(call).count + 1 >= MaxRequests
  /\ lock' = NoThread
  /\ calls' = [calls EXCEPT ![t] = Idle]
  /\ answer' = [status |-> "429", identity |-> call.identity, at |-> clock,
                opened |-> Current(call).start,
                retry |-> RetryAfter(call), header |-> Header(call)]
  /\ UNCHANGED <<clock, windows, admitted, spent>>

\* The refusal stores nothing, not even a window that was found to be over.
Refuse(t) ==
  LET call == calls[t] IN
  /\ call.pc = "locked"
  /\ Current(call).count >= MaxRequests
  /\ lock' = NoThread
  /\ calls' = [calls EXCEPT ![t] = Idle]
  /\ answer' = [status |-> "429", identity |-> call.identity, at |-> clock,
                opened |-> Current(call).start,
                retry |-> RetryAfter(call), header |-> Header(call)]
  /\ UNCHANGED <<clock, windows, admitted, spent>>

\* Time passes.  No call stays in flight longer than MaxStall ticks.
Tick ==
  /\ clock < MaxTime
  /\ \A t \in Threads : InFlight(t) => clock - calls[t].now < MaxStall
  /\ clock' = clock + 1
  /\ UNCHANGED <<windows, lock, calls, admitted, spent, answer>>

Next ==
  \/ \E t \in Threads, i \in Identities : ReadClock(t, i)
  \/ \E t \in Threads : Acquire(t) \/ Admit(t) \/ Refuse(t)
  \/ Tick

Spec == Init /\ [][Next]_vars
----------------------------------------------------------------------------
(***************************************************************************)
(* Properties.                                                             *)
(***************************************************************************)

Answers ==
  [status : {"none", "allowed"}]
    \cup [status : {"429"}, identity : Identities, at : Instants, opened : Instants,
          retry : Int, header : Int]

\* The variables have their types: windows hold a start and a count, and a
\* thread has an entry exactly while it is inside the locked section.
TypeOK ==
  /\ clock \in Instants
  /\ windows \in [Identities -> Windows]
  /\ lock \in Threads \cup {NoThread}
  /\ calls \in [Threads -> {Idle} \cup Timed \cup Locked]
  /\ admitted \in [Identities -> Seq(Instants)]
  /\ spent \in [Identities -> [Instants -> Nat]]
  /\ answer \in Answers

\* The cap on POST /extractions: no window of an identity is ever charged more
\* than MaxRequests admissions, whatever threads run check() side by side and
\* however old their clock readings are.  A lost increment would break it.
QuotaPerWindow ==
  \A i \in Identities, s \in Instants : spent[i][s] > 0 => spent[i][s] <= MaxRequests

\* The quota an identity has spent is bounded over any short span: more than
\* 2 * MaxRequests admissions always take longer than a window, less the time
\* that calls may have been stalled (the boundary burst of ADR-0028).
BurstBounded ==
  \A i \in Identities : \A n \in DOMAIN admitted[i] :
    LET m == n + 2 * MaxRequests IN
    (MaxRequests > 0 /\ m <= Len(admitted[i]))
      => admitted[i][m] - admitted[i][n] > Window - MaxStall

\* A request is refused only when its identity has used up the window the
\* refusal was made in; the traffic of another identity never counts.
RefusedOnlyWhenSpent ==
  answer.status = "429" => spent[answer.identity][answer.opened] >= MaxRequests

\* The wait that a refusal announces, counted from the moment it is answered,
\* ends no earlier than the window (a client that obeys it is not refused by
\* the same window again) and no later than the stall of the call and the
\* rounding of the Retry-After header account for.
WaitMatchesWindow ==
  answer.status = "429" =>
    /\ answer.retry > 0
    /\ answer.at + answer.retry >= answer.opened + Window
    /\ answer.at + answer.header <= answer.opened + Window + MaxStall + 1

\* An open window is never moved: an entry changes either by counting one more
\* request, or by a new window that starts at least a whole window later.
WindowsNeverOverlap ==
  [][\A i \in Identities :
       windows[i].count > 0 /\ windows'[i] # windows[i] =>
         \/ windows'[i] = [windows[i] EXCEPT !.count = @ + 1]
         \/ windows'[i].start >= windows[i].start + Window]_vars
----------------------------------------------------------------------------
(***************************************************************************)
(* The inductive invariant behind QuotaPerWindow: mutual exclusion, the    *)
(* entry a lock holder works on is the one that is stored, and the count   *)
(* of a window is what was charged to it.                                  *)
(***************************************************************************)
LockHeld == \A t \in Threads : calls[t].pc = "locked" <=> lock = t

EntryIsFresh ==
  \A t \in Threads : calls[t].pc = "locked" =>
    calls[t].entry = Lookup(calls[t].identity, calls[t].now)

\* Nothing is charged to a window that has not been opened yet.
CountIsSpent ==
  \A i \in Identities :
    /\ windows[i].count > 0 => windows[i].count <= MaxRequests
    /\ windows[i].count > 0 => spent[i][windows[i].start] = windows[i].count
    /\ \A s \in Instants : s > windows[i].start => spent[i][s] = 0
    /\ windows[i].count = 0 => \A s \in Instants : spent[i][s] = 0

QuotaInv == LockHeld /\ EntryIsFresh /\ CountIsSpent /\ QuotaPerWindow
============================================================================
