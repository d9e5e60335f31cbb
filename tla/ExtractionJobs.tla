--------------------------- MODULE ExtractionJobs ---------------------------
(***************************************************************************)
(* Extraction jobs: POST /extractions stores a pending job and schedules   *)
(* ExtractionJobService.run as a background task of the same process; run  *)
(* calls ExtractionService.extract, which asks the model for JSON, and     *)
(* asks again with the validation errors when the answer does not fit.     *)
(* GET /extractions/{id} reads the job at any time.  The store is a dict   *)
(* of the process: a restart loses the jobs together with their tasks.     *)
(* A request among the first of a process may be given a repository of its *)
(* own that later requests do not read; its job lives on there unseen.     *)
(*                                                                         *)
(* The only await at which another task can run is the call of the API, so *)
(* everything between two answers of the API is one step.                  *)
(***************************************************************************)
EXTENDS Naturals, FiniteSets

CONSTANTS
  Jobs,              \* job ids of one process; each submission uses a fresh one
  MaxAttempts,       \* max_attempts of extract
  TransportRetries   \* transport_max_retries, the retries of the SDK in one call

ASSUME JobsAssumption ==
  /\ MaxAttempts \in Nat \ {0}
  /\ TransportRetries \in Nat

VARIABLES
  store,     \* InMemoryExtractionJobRepository._store, of all repositories together
  shared,    \* the jobs in the repository that a GET reads
  tasks,     \* the background tasks: where run() is, and the attempt it is in
  sent,      \* the HTTP requests of the API call in progress, per job
  requests   \* history: HTTP requests this process made to the API for each job

vars == <<store, shared, tasks, sent, requests>>

Absent == [status |-> "absent"]
Pending ==
  [status |-> "pending", completed |-> FALSE, result |-> FALSE, error |-> FALSE]

NoTask == [pc |-> "none", attempt |-> 0]
Over == [pc |-> "ended", attempt |-> 0]

Init ==
  /\ store = [j \in Jobs |-> Absent]
  /\ shared = {}
  /\ tasks = [j \in Jobs |-> NoTask]
  /\ sent = [j \in Jobs |-> 0]
  /\ requests = [j \in Jobs |-> 0]

----------------------------------------------------------------------------
\* The handler of POST /extractions: submit() stores the job, add_task()
\* schedules run(), and nothing is awaited in between.  An id is a new uuid4.
\* The repository of the request is the one that is kept, or not.
Submit(j, kept) ==
  /\ store[j] = Absent
  /\ store' = [store EXCEPT ![j] = Pending]
  /\ shared' = IF kept THEN shared \cup {j} ELSE shared
  /\ tasks' = [tasks EXCEPT ![j].pc = "scheduled"]
  /\ UNCHANGED <<sent, requests>>

\* What GET /extractions/{id} returns, at any time; an unknown id is a 404.
Seen(j) == IF j \in shared THEN store[j].status ELSE Absent.status

\* run() begins: it finds its job, and extract() makes the first call.
Start(j) ==
  /\ tasks[j].pc = "scheduled"
  /\ store[j] # Absent
  /\ tasks' = [tasks EXCEPT ![j] = [pc |-> "calling", attempt |-> 1]]
  /\ UNCHANGED <<store, shared, sent, requests>>

\* The SDK sends the HTTP request of a call, or sends it again after a
\* transient failure of the transport.
Send(j) ==
  /\ tasks[j].pc = "calling"
  /\ sent[j] <= TransportRetries
  /\ sent' = [sent EXCEPT ![j] = @ + 1]
  /\ requests' = [requests EXCEPT ![j] = @ + 1]
  /\ UNCHANGED <<store, shared, tasks>>

Answered(j) == tasks[j].pc = "calling" /\ sent[j] > 0

\* Mutant of Finish: run() goes on after it has written the end.
FinishAndGoOn(j, job) ==
  /\ store' = [store EXCEPT ![j] = job]
  /\ UNCHANGED <<shared, tasks, sent, requests>>

\* run() writes the end of its job, and the task is over.
Finish(j, job) ==
  /\ store' = [store EXCEPT ![j] = job]
  /\ tasks' = [tasks EXCEPT ![j] = Over]
  /\ sent' = [sent EXCEPT ![j] = 0]
  /\ UNCHANGED <<shared, requests>>

Succeeded ==
  [status |-> "succeeded", completed |-> TRUE, result |-> TRUE, error |-> FALSE]

\* Mutant of Failed: completed_at is not set.
FailedWithoutEnd ==
  [status |-> "failed", completed |-> FALSE, result |-> FALSE, error |-> TRUE]

\* Each way to fail has a fixed message of its own; all of them end the job alike.
Failed ==
  [status |-> "failed", completed |-> TRUE, result |-> FALSE, error |-> TRUE]

\* The answer is JSON of the target model.
Succeed(j) ==
  /\ Answered(j)
  /\ Finish(j, Succeeded)

\* Mutant of Retry: one attempt too many.
RetryOnceMore(j) ==
  /\ Answered(j)
  /\ tasks[j].attempt <= MaxAttempts
  /\ tasks' = [tasks EXCEPT ![j].attempt = @ + 1]
  /\ sent' = [sent EXCEPT ![j] = 0]
  /\ UNCHANGED <<store, shared, requests>>

\* The answer does not validate: the next attempt, with the errors appended.
Retry(j) ==
  /\ Answered(j)
  /\ tasks[j].attempt < MaxAttempts
  /\ tasks' = [tasks EXCEPT ![j].attempt = @ + 1]
  /\ sent' = [sent EXCEPT ![j] = 0]
  /\ UNCHANGED <<store, shared, requests>>

\* It does not validate and was the last attempt: ExtractionError.
GiveUp(j) ==
  /\ Answered(j)
  /\ tasks[j].attempt = MaxAttempts
  /\ Finish(j, Failed)

\* Mutant of TransportFails: run() does not catch the APIError.
TransportFailsUncaught(j) ==
  /\ Answered(j)
  /\ tasks' = [tasks EXCEPT ![j] = Over]
  /\ sent' = [sent EXCEPT ![j] = 0]
  /\ UNCHANGED <<store, shared, requests>>

\* APIError: the SDK has given up, or the API refused.  There is no new attempt.
TransportFails(j) == Answered(j) /\ Finish(j, Failed)

\* An answer without a first text block.  There is no new attempt either.
WrongShape(j) == Answered(j) /\ Finish(j, Failed)

\* Mutant of Unexpected: run() has no last except clause.
UnexpectedUncaught(j) ==
  /\ tasks[j].pc = "calling"
  /\ tasks' = [tasks EXCEPT ![j] = Over]
  /\ sent' = [sent EXCEPT ![j] = 0]
  /\ UNCHANGED <<store, shared, requests>>

\* Any other exception from extract(), the call of the API and the code around it.
\* (One out of model_dump, in the else branch of run(), would not be caught: the
\* models of the answers are plain data, which dumps.)
Unexpected(j) == tasks[j].pc = "calling" /\ Finish(j, Failed)

\* The process is restarted: jobs and tasks are gone.
Restart ==
  /\ store' = [j \in Jobs |-> Absent]
  /\ shared' = {}
  /\ tasks' = [j \in Jobs |-> NoTask]
  /\ sent' = [j \in Jobs |-> 0]
  /\ requests' = [j \in Jobs |-> 0]

Run(j) ==
  \/ Start(j) \/ Send(j)
  \/ Succeed(j) \/ Retry(j) \/ GiveUp(j)
  \/ TransportFails(j) \/ WrongShape(j) \/ Unexpected(j)

Next ==
  \/ \E j \in Jobs : (\E kept \in BOOLEAN : Submit(j, kept)) \/ Run(j)
  \/ Restart

Spec == Init /\ [][Next]_vars

\* The event loop runs a task that can run, and a call of the API comes to an
\* end: the SDK puts a timeout on every HTTP request.
FairSpec == Spec /\ \A j \in Jobs : WF_vars(Run(j))
----------------------------------------------------------------------------
(***************************************************************************)
(* Properties.                                                             *)
(***************************************************************************)
\* A job has a completion time, a result and an error just as its status says.
JobStates ==
  {job \in [status : {"pending", "succeeded", "failed"}, completed : BOOLEAN,
            result : BOOLEAN, error : BOOLEAN] :
     /\ job.completed <=> job.status # "pending"
     /\ job.result <=> job.status = "succeeded"
     /\ job.error <=> job.status = "failed"}

\* The variables have their types; in particular every stored job is complete.
TypeOK ==
  /\ store \in [Jobs -> JobStates \cup {Absent}]
  /\ shared \subseteq Jobs
  /\ tasks \in [Jobs -> [pc : {"none", "scheduled", "calling", "ended"}, attempt : Nat]]
  /\ sent \in [Jobs -> Nat]
  /\ requests \in [Jobs -> Nat]

\* No orphans: a job is pending exactly while its background task still has
\* work to do, so a client that polls a pending job never waits for nothing
\* (run's docstring: "always leaves the job terminal").
PendingHasTask ==
  \A j \in Jobs : store[j].status = "pending" <=> tasks[j].pc \in {"scheduled", "calling"}

\* What one accepted job can cost: at most MaxAttempts calls of the API, each
\* with at most TransportRetries repetitions by the SDK, however the answers
\* and the failures fall ("no unbounded spend", docs/specs/rate_limit.md).
RequestsBounded ==
  \A j \in Jobs : requests[j] <= MaxAttempts * (TransportRetries + 1)

\* A client that polls a job, at whatever moments, never sees it go back: a terminal
\* state is what all later polls return, unless all jobs are lost together (a
\* restart): no id that was known becomes unknown while another is known.
PollsMoveForward ==
  [][\A j \in Jobs :
       /\ Seen(j) \in {"succeeded", "failed"} => Seen(j)' \in {Seen(j), "absent"}
       /\ Seen(j) # "absent" /\ Seen(j)' = "absent" => \A i \in Jobs : Seen(i)' = "absent"]_vars
============================================================================
