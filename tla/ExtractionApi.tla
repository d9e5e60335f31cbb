--------------------------- MODULE ExtractionApi ---------------------------
(***************************************************************************)
(* The endpoint POST /extractions as a whole: the role check of ApiAccess, *)
(* the rate limiter, the handler and the background task of                *)
(* ExtractionJobs, in one process that can be restarted with other         *)
(* settings.  Job j is the one request j asks for.                         *)
(*                                                                         *)
(* FastAPI runs the dependencies of a request in the order role check,     *)
(* limiter, service, each synchronous one in a pool thread: other requests *)
(* may run between any two of these steps.  It decodes the body as JSON    *)
(* before them, and reports a body that does not fit the DTO after them.   *)
(*                                                                         *)
(* The table of the keys, the limiter and the job repository are made by   *)
(* lru_cache'd functions when they are first asked for.  Requests that ask *)
(* before the first object is ready make one of their own each; lru_cache  *)
(* keeps the first that is ready, and the others are used once, each by    *)
(* the request that made it.  A limiter's check() is one step; its inside  *)
(* is the subject of RateLimiter, and lru_cache that of SharedStore.       *)
(***************************************************************************)
EXTENDS ExtractionJobs, ApiAccess, FiniteSetsExt, Sequences

CONSTANTS
  Deployments,  \* the settings operators put in force, one after the other
  MaxRequests,  \* extraction_rate_limit_max_requests
  Window,       \* extraction_rate_limit_window_seconds
  MaxTime       \* bound on the clock of a run

ASSUME ApiAssumption ==
  /\ Deployments \in Seq(Settings) /\ Deployments # <<>>
  /\ MaxRequests \in Nat /\ Window \in Nat \ {0}
  /\ MaxTime \in Nat

VARIABLES
  settings,    \* which of the deployments AuthSettings() would read now
  since,       \* history: which one it was when the process began
  table,       \* the cached result of _load_role_keys
  limiter,     \* whether get_rate_limiter has a limiter in its cache
  windows,     \* InMemoryRateLimiter._windows of that limiter
  repository,  \* whether get_extraction_job_repository has one in its cache
  now,         \* time.monotonic()
  calls,       \* the POST requests that this process was sent
  checks,      \* history: what a limiter of this process said of each request
  early        \* history: the requests of this process that came before both were made

accessVars == <<settings, since, table>>
limitVars == <<limiter, windows, now, checks>>
repositoryVars == <<repository, early>>
apiVars == <<vars, accessVars, limitVars, repositoryVars, calls>>

Unloaded == [loaded |-> FALSE]
Table(role_keys) == [loaded |-> TRUE, role_keys |-> role_keys]
NoWindow == [start |-> 0, count |-> 0]
NotChecked == [allowed |-> FALSE, key |-> NoKey]

ApiInit ==
  /\ Init
  /\ settings = 1 /\ since = 1
  /\ table = Unloaded
  /\ limiter = FALSE /\ windows = [k \in Keys |-> NoWindow]
  /\ repository = FALSE
  /\ now = 0
  /\ calls = [j \in Jobs |-> [pc |-> "idle"]]
  /\ checks = [j \in Jobs |-> NotChecked]
  /\ early = {}

----------------------------------------------------------------------------
\* A request goes on to its next step, or is answered.
At(call, pc) == [pc |-> pc, key |-> call.key]
GoesTo(j, pc) == calls' = [calls EXCEPT ![j] = At(@, pc)]
Answers(j, status) ==
  calls' = [calls EXCEPT ![j] = [pc |-> "done", key |-> @.key, status |-> status]]

\* A client sends a request, with or without a key.
Arrive(j, key) ==
  /\ calls[j].pc = "idle"
  /\ calls' = [calls EXCEPT ![j] = [pc |-> "authenticate", key |-> key]]
  /\ early' = IF limiter /\ repository THEN early ELSE early \cup {j}
  /\ UNCHANGED <<vars, accessVars, limitVars, repository>>

\* A body that is not JSON is a 422 before any dependency runs, whoever sends it.
ArriveUnreadable(j) ==
  /\ calls[j].pc = "idle"
  /\ calls' = [calls EXCEPT ![j] = [pc |-> "unread"]]
  /\ UNCHANGED <<vars, accessVars, limitVars, repositoryVars>>

\* A request without a key is refused before the table is asked for.
Anonymous(j) ==
  /\ calls[j].pc = "authenticate" /\ calls[j].key = NoKey
  /\ Answers(j, 401)
  /\ UNCHANGED <<vars, accessVars, limitVars, repositoryVars>>

Verdict(j, role_keys) ==
  LET status == Admission(role_keys, calls[j].key, "submit_extraction") IN
  IF status = 200 THEN GoesTo(j, "limit") ELSE Answers(j, status)

\* get_current_identity finds the table in the cache ...
Authenticate(j) ==
  /\ calls[j].pc = "authenticate" /\ calls[j].key # NoKey /\ table.loaded
  /\ Verdict(j, table.role_keys)
  /\ UNCHANGED <<vars, accessVars, limitVars, repositoryVars>>

\* ... or makes one of the settings as they are now, as every request does that
\* comes before the first table is cached.
LoadTable(j) ==
  /\ calls[j].pc = "authenticate" /\ calls[j].key # NoKey /\ ~table.loaded
  /\ calls' = [calls EXCEPT ![j] =
       [pc |-> "loaded", key |-> @.key, role_keys |-> LoadRoleKeys(Deployments[settings])]]
  /\ UNCHANGED <<vars, accessVars, limitVars, repositoryVars>>

\* lru_cache keeps the first table it is given; a request uses the one it made.
CacheTable(j) ==
  /\ calls[j].pc = "loaded"
  /\ table' = IF table.loaded THEN table ELSE Table(calls[j].role_keys)
  /\ Verdict(j, calls[j].role_keys)
  /\ UNCHANGED <<vars, settings, since, limitVars, repositoryVars>>

----------------------------------------------------------------------------
\* The window check() works with: the stored one, unless there is none or it is
\* over.
CurrentWindow(k) ==
  IF windows[k].count = 0 \/ now - windows[k].start >= Window
    THEN [start |-> now, count |-> 0] ELSE windows[k]

\* get_rate_limiter finds no limiter in its cache and makes one.  The first that is
\* ready is kept, and its request goes on as if it had found it; any other request
\* goes on with the one it made.
MissLimiter(j) ==
  /\ calls[j].pc = "limit" /\ ~limiter
  /\ GoesTo(j, "making limiter")
  /\ UNCHANGED <<vars, accessVars, limitVars, repositoryVars>>

MakeLimiter(j) ==
  /\ calls[j].pc = "making limiter"
  /\ limiter' = TRUE
  /\ GoesTo(j, IF limiter THEN "limit alone" ELSE "limit")
  /\ UNCHANGED <<vars, accessVars, windows, now, checks, repositoryVars>>

\* Mutant of Enforce: one window for all the callers of the role.
EnforceByRole(j) ==
  LET k == calls[j].key
      w == CurrentWindow(k) IN
  /\ calls[j].pc = "limit" /\ limiter
  /\ checks' = [checks EXCEPT ![j] = [allowed |-> w.count < MaxRequests, alone |-> FALSE,
                                      key |-> k, start |-> w.start]]
  /\ IF w.count < MaxRequests
       THEN /\ windows' = [i \in Keys |-> [w EXCEPT !.count = @ + 1]]
            /\ GoesTo(j, "store")
       ELSE Answers(j, 429) /\ UNCHANGED windows
  /\ UNCHANGED <<vars, accessVars, limiter, now, repositoryVars>>

\* Mutant of Enforce: the count is kept, but no one is refused.
EnforceInVain(j) ==
  LET k == calls[j].key
      w == CurrentWindow(k) IN
  /\ calls[j].pc = "limit" /\ limiter
  /\ checks' = [checks EXCEPT ![j] = [allowed |-> TRUE, alone |-> FALSE,
                                      key |-> k, start |-> w.start]]
  /\ windows' = [windows EXCEPT ![k] = [w EXCEPT !.count = @ + 1]]
  /\ GoesTo(j, "store")
  /\ UNCHANGED <<vars, accessVars, limiter, now, repositoryVars>>

\* enforce_extraction_rate_limit charges the caller's window, or answers 429
\* and charges nothing.
Enforce(j) ==
  LET k == calls[j].key
      w == CurrentWindow(k) IN
  /\ calls[j].pc = "limit" /\ limiter
  /\ checks' = [checks EXCEPT ![j] = [allowed |-> w.count < MaxRequests, alone |-> FALSE,
                                      key |-> k, start |-> w.start]]
  /\ IF w.count < MaxRequests
       THEN /\ windows' = [windows EXCEPT ![k] = [w EXCEPT !.count = @ + 1]]
            /\ GoesTo(j, "store")
       ELSE Answers(j, 429) /\ UNCHANGED windows
  /\ UNCHANGED <<vars, accessVars, limiter, now, repositoryVars>>

\* The same with a limiter that nobody else has: its one window is new.
EnforceAlone(j) ==
  /\ calls[j].pc = "limit alone"
  /\ checks' = [checks EXCEPT ![j] = [allowed |-> 0 < MaxRequests, alone |-> TRUE,
                                      key |-> calls[j].key, start |-> now]]
  /\ IF 0 < MaxRequests THEN GoesTo(j, "store") ELSE Answers(j, 429)
  /\ UNCHANGED <<vars, accessVars, limiter, windows, now, repositoryVars>>

----------------------------------------------------------------------------
\* get_extraction_job_repository, just as the limiter.
MissRepository(j) ==
  /\ calls[j].pc = "store" /\ ~repository
  /\ GoesTo(j, "making repository")
  /\ UNCHANGED <<vars, accessVars, limitVars, repositoryVars>>

MakeRepository(j) ==
  /\ calls[j].pc = "making repository"
  /\ repository' = TRUE
  /\ GoesTo(j, IF repository THEN "store alone" ELSE "store")
  /\ UNCHANGED <<vars, accessVars, limitVars, early>>

\* Mutant of Handle: the job is submitted before its body is looked at.
HandleUnread(j) ==
  /\ calls[j].pc = "store alone" \/ (calls[j].pc = "store" /\ repository)
  /\ Submit(j, calls[j].pc = "store")
  /\ Answers(j, 202) \/ Answers(j, 422)
  /\ UNCHANGED <<accessVars, limitVars, repositoryVars>>

\* The body, looked at only now, fits SubmitExtractionRequest: submit_extraction
\* stores the job, schedules its task and answers 202.  Or it does not fit: a 422,
\* though the request has been charged.
Handle(j) ==
  /\ calls[j].pc = "store alone" \/ (calls[j].pc = "store" /\ repository)
  /\ \/ Submit(j, calls[j].pc = "store") /\ Answers(j, 202)
     \/ UNCHANGED vars /\ Answers(j, 422)
  /\ UNCHANGED <<accessVars, limitVars, repositoryVars>>

\* GET /extractions/{id} with a key: the role check alone, and a read of the
\* repository (Seen).  It changes no job, but it asks for the table and the
\* repository too and may make the first ones, the table of settings that it read
\* at any moment since the process began.
Get(key, n) ==
  LET role_keys == IF table.loaded THEN table.role_keys ELSE LoadRoleKeys(Deployments[n])
      admitted == Admission(role_keys, key, "get_extraction") = 200 IN
  /\ ~table.loaded \/ ~repository
  /\ table' = Table(role_keys)
  /\ repository' = (repository \/ admitted)
  /\ UNCHANGED <<vars, settings, since, limitVars, early, calls>>

\* A request to another route asks for the table alone.
AskElsewhere(n) ==
  /\ ~table.loaded
  /\ table' = Table(LoadRoleKeys(Deployments[n]))
  /\ UNCHANGED <<vars, settings, since, limitVars, repositoryVars, calls>>

\* The operators change the settings; a running process goes on with the table
\* it has.
Reconfigure ==
  /\ settings < Len(Deployments)
  /\ settings' = settings + 1
  /\ UNCHANGED <<vars, since, table, limitVars, repositoryVars, calls>>

\* Mutant of Redeploy: the table outlives the process.
RedeployKeepingTable ==
  /\ Restart
  /\ since' = settings
  /\ limiter' = FALSE /\ windows' = [k \in Keys |-> NoWindow]
  /\ checks' = [j \in Jobs |-> NotChecked]
  /\ repository' = FALSE /\ early' = {}
  /\ calls' = [j \in Jobs |-> [pc |-> "idle"]]
  /\ UNCHANGED <<settings, table, now>>

\* The process is restarted: all it has cached, windows and jobs included, is gone,
\* and so are its requests.
Redeploy ==
  /\ Restart
  /\ since' = settings
  /\ table' = Unloaded
  /\ limiter' = FALSE /\ windows' = [k \in Keys |-> NoWindow]
  /\ checks' = [j \in Jobs |-> NotChecked]
  /\ repository' = FALSE /\ early' = {}
  /\ calls' = [j \in Jobs |-> [pc |-> "idle"]]
  /\ UNCHANGED <<settings, now>>

Tick ==
  /\ now < MaxTime
  /\ now' = now + 1
  /\ UNCHANGED <<vars, accessVars, limiter, windows, checks, repositoryVars, calls>>

Work(j) == Run(j) /\ UNCHANGED <<accessVars, limitVars, repositoryVars, calls>>

Serve(j) ==
  \/ Anonymous(j) \/ Authenticate(j) \/ LoadTable(j) \/ CacheTable(j)
  \/ MissLimiter(j) \/ MakeLimiter(j) \/ Enforce(j) \/ EnforceAlone(j)
  \/ MissRepository(j) \/ MakeRepository(j) \/ Handle(j)

ApiNext ==
  \/ \E j \in Jobs :
       \/ \E key \in Keys \cup {NoKey} : Arrive(j, key)
       \/ ArriveUnreadable(j) \/ Serve(j) \/ Work(j)
  \/ \E n \in since .. settings : AskElsewhere(n) \/ \E key \in Keys : Get(key, n)
  \/ Reconfigure \/ Redeploy \/ Tick

\* The server goes on with every request it has and every task; clients,
\* operators and restarts are not promised.
ApiSpec ==
  /\ ApiInit /\ [][ApiNext]_apiVars
  /\ \A j \in Jobs : WF_apiVars(Serve(j) \/ Work(j))
----------------------------------------------------------------------------
(***************************************************************************)
(* Properties.                                                             *)
(***************************************************************************)
RoleKeys == UNION {[ks -> Roles] : ks \in SUBSET Keys}

\* Where a request is that has passed the role check.
PastRoleCheck ==
  {"limit", "making limiter", "limit alone", "store", "making repository", "store alone"}

Arrived == [pc : {"authenticate"}, key : Keys \cup {NoKey}]
Loading == [pc : {"loaded"}, key : Keys, role_keys : RoleKeys]
Admitted == [pc : PastRoleCheck, key : Keys]
Closed == [pc : {"done"}, key : Keys \cup {NoKey},
           status : {202, 401, 403, 422, 429}]
CallStates ==
  [pc : {"idle", "unread"}] \cup Arrived \cup Loading \cup Admitted \cup Closed
Checked == [allowed : BOOLEAN, alone : BOOLEAN, key : Keys, start : Nat]

\* The variables of the endpoint have their types; those of the jobs are in
\* TypeOK.
ApiTypeOK ==
  /\ settings \in DOMAIN Deployments /\ since \in 1 .. settings
  /\ table = Unloaded \/ table \in [loaded : {TRUE}, role_keys : RoleKeys]
  /\ limiter \in BOOLEAN /\ repository \in BOOLEAN
  /\ windows \in [Keys -> [start : 0 .. MaxTime, count : 0 .. MaxRequests]]
  /\ now \in 0 .. MaxTime
  /\ calls \in [Jobs -> CallStates]
  /\ checks \in [Jobs -> {NotChecked} \cup Checked]
  /\ early \subseteq Jobs

\* The requests that a window of the kept limiter admitted, and those that came
\* through at the time with a limiter of their own.
Charged(k, start) ==
  {j \in Jobs : checks[j] = [allowed |-> TRUE, alone |-> FALSE, key |-> k, start |-> start]}
Astray(k, start) ==
  {j \in Jobs : checks[j] = [allowed |-> TRUE, alone |-> TRUE, key |-> k, start |-> start]}

\* The reason for the limiter (docs/specs/rate_limit.md, "unbounded spend"): what
\* one caller can make the process spend in one window is bounded, through every
\* retry of every job it was let start.  Only requests that arrived before limiter
\* and repository were both made can escape the quota, and each of them adds the cost
\* of its own job, no more.
SpendPerWindow ==
  \A k \in Keys, start \in 0 .. MaxTime :
    LET astray == Astray(k, start) IN
    /\ astray \subseteq early
    /\ MapThenSumSet(LAMBDA j : requests[j], Charged(k, start) \cup astray) <=
         (MaxRequests + Cardinality(astray)) * MaxAttempts * (TransportRetries + 1)

\* A 429 is earned by requests of the caller itself: its own window of this
\* process has been spent on requests that passed the role check, well-formed or
\* not.  Other analysts, officers and strangers cost it nothing.
RefusedByOwnRequests ==
  \A j \in Jobs : calls[j].pc = "done" /\ calls[j].status = 429 =>
    Cardinality(Charged(checks[j].key, checks[j].start)) = MaxRequests

\* A verdict comes from settings that were in force in the life of the process
\* that gave it, whatever table was cached before and whichever request loaded
\* it: a key that was revoked before the restart is not let in after it
\* (ADR-0026: revocation is an edit and a redeploy), and a key in both lists is
\* never an analyst's.
VerdictOfThisLife ==
  \A j \in Jobs : calls[j].pc \in PastRoleCheck \cup {"done"} =>
    \E n \in since .. settings :
      LET s == Deployments[n]
          k == calls[j].key
          status == IF calls[j].pc = "done" THEN calls[j].status ELSE 200 IN
      CASE status = 401 -> k \notin s.analysts \cup s.officers
        [] status = 403 -> k \in s.officers
        [] OTHER -> k \in s.analysts \ s.officers

\* An answer tells what was done: a job of this process has been stored if and
\* only if its request was answered 202, and nothing was ever spent on another.
\* Such a job is stored where a GET finds it, unless its request arrived before
\* limiter and repository were both made.
AnswersAreTrue ==
  \A j \in Jobs :
    LET accepted == calls[j].pc = "done" /\ calls[j].status = 202 IN
    /\ store[j] # Absent <=> accepted
    /\ requests[j] > 0 => accepted
    /\ store[j] # Absent /\ j \notin shared => j \in early

\* Whatever a client began comes to an end: its request is answered and, if that
\* was a 202, its job ends, or the process is restarted.
UnderWay(j) ==
  \/ calls[j].pc \in {"authenticate", "loaded"} \cup PastRoleCheck
  \/ store[j].status = "pending"

EveryRequestEnds == \A j \in Jobs : UnderWay(j) ~> ~UnderWay(j)
============================================================================
