------------------------ MODULE ExtractionApiProofs ------------------------
(***************************************************************************)
(* The extraction jobs keep their promises for any number of jobs and any  *)
(* numbers of attempts and retries, and so does the endpoint in front of   *)
(* them for any keys, settings, quota, window and number of requests,      *)
(* however they overlap from the first moment of a process.                *)
(***************************************************************************)
EXTENDS ExtractionApi, FoldTheorems

(***************************************************************************)
(* The jobs: theorems about the specification of ExtractionJobs, whatever  *)
(* stands in front of it.                                                  *)
(***************************************************************************)

\* The ends a job can be given, and the states in which its task has work to do.
Working == {"scheduled", "calling"}
Ends == {Succeeded, Failed}

\* The states of a job the worker knows of, and their status.
LEMMA StatesType ==
  /\ Pending \in JobStates /\ Pending.status = "pending"
  /\ \A job \in Ends : job \in JobStates /\ job.status \in {"succeeded", "failed"}
  /\ Absent.status = "absent"
  BY DEF Pending, Ends, Succeeded, Failed, Absent, JobStates

\* Every step of a running task either leaves the store alone or ends the job of
\* a task that is calling.
LEMMA RunShape ==
  ASSUME TypeOK, NEW j \in Jobs, Run(j)
  PROVE  \/ /\ store' = store
            /\ tasks[j].pc \in Working /\ tasks'[j].pc \in Working
            /\ \A i \in Jobs \ {j} : tasks'[i] = tasks[i]
            /\ shared' = shared
         \/ \E job \in Ends : tasks[j].pc = "calling" /\ Finish(j, job)
<1>1. CASE Start(j)
  BY <1>1 DEF Start, TypeOK, Working
<1>2. CASE Send(j)
  BY <1>2 DEF Send, TypeOK, Working
<1>3. CASE Retry(j)
  BY <1>3 DEF Retry, Answered, TypeOK, Working
<1>4. CASE Succeed(j) \/ GiveUp(j) \/ TransportFails(j) \/ WrongShape(j) \/ Unexpected(j)
  BY <1>4 DEF Succeed, GiveUp, TransportFails, WrongShape, Unexpected, Answered, Ends
<1> QED BY <1>1, <1>2, <1>3, <1>4 DEF Run

\* The variables of the jobs have their types.
THEOREM TypeCorrect == Spec => []TypeOK
<1>1. Init => TypeOK
  BY DEF Init, TypeOK, NoTask
<1>2. TypeOK /\ [Next]_vars => TypeOK'
  <2> SUFFICES ASSUME TypeOK, [Next]_vars PROVE TypeOK'
    OBVIOUS
  <2>1. ASSUME NEW j \in Jobs, NEW kept \in BOOLEAN, Submit(j, kept) PROVE TypeOK'
    BY <2>1, StatesType DEF Submit, TypeOK
  <2>3. ASSUME NEW j \in Jobs, NEW job \in Ends, Finish(j, job) PROVE TypeOK'
    BY <2>3, StatesType DEF Finish, TypeOK, Over
  <2>4. ASSUME NEW j \in Jobs, Start(j) \/ Send(j) \/ Retry(j) PROVE TypeOK'
    <3>1. CASE Start(j)
      BY <3>1 DEF Start, TypeOK
    <3>2. CASE Send(j)
      BY <3>2 DEF Send, TypeOK
    <3>3. CASE Retry(j)
      BY <3>3 DEF Retry, TypeOK
    <3> QED BY <2>4, <3>1, <3>2, <3>3
  <2>5. CASE Restart
    BY <2>5 DEF Restart, TypeOK, NoTask
  <2>6. CASE UNCHANGED vars
    BY <2>6 DEF vars, TypeOK
  <2>7. ASSUME NEW j \in Jobs, Run(j) PROVE TypeOK'
    BY <2>7, <2>3, <2>4 DEF Run, Succeed, GiveUp, TransportFails, WrongShape, Unexpected, Ends
  <2> QED BY <2>1, <2>5, <2>6, <2>7 DEF Next
<1> QED BY <1>1, <1>2, PTL DEF Spec

\* PendingHasTask: a job is pending exactly while its task still has work to do.
LEMMA NoOrphansStep ==
  ASSUME TypeOK, PendingHasTask, [Next]_vars
  PROVE  PendingHasTask'
<1>1. ASSUME NEW j \in Jobs, NEW kept \in BOOLEAN, Submit(j, kept) PROVE PendingHasTask'
  BY <1>1, StatesType DEF Submit, TypeOK, PendingHasTask
<1>3. ASSUME NEW j \in Jobs, Run(j) PROVE PendingHasTask'
  <2>1. ASSUME NEW job \in Ends, Finish(j, job) PROVE PendingHasTask'
    BY <2>1, StatesType DEF Finish, TypeOK, PendingHasTask, Over
  <2>2. CASE /\ store' = store
             /\ tasks[j].pc \in Working /\ tasks'[j].pc \in Working
             /\ \A i \in Jobs \ {j} : tasks'[i] = tasks[i]
    BY <2>2 DEF PendingHasTask, Working
  <2> QED BY <1>3, <2>1, <2>2, RunShape
<1>4. CASE Restart
  BY <1>4, StatesType DEF Restart, PendingHasTask, NoTask
<1>5. CASE UNCHANGED vars
  BY <1>5 DEF vars, PendingHasTask
<1> QED BY <1>1, <1>3, <1>4, <1>5 DEF Next

\* No job is orphaned: whatever answers, failures and restarts come.
THEOREM NoOrphans == Spec => []PendingHasTask
<1>1. Init => PendingHasTask
  BY DEF Init, PendingHasTask, NoTask, Absent
<1> QED BY <1>1, NoOrphansStep, TypeCorrect, PTL DEF Spec
----------------------------------------------------------------------------
(***************************************************************************)
(* What a job can cost.                                                    *)
(***************************************************************************)
PerAttempt == TransportRetries + 1

\* The attempts before the current one have cost at most PerAttempt each.
Accounted ==
  \A j \in Jobs :
    /\ sent[j] <= PerAttempt
    /\ requests[j] <= MaxAttempts * PerAttempt
    /\ tasks[j].pc = "scheduled" => requests[j] = 0 /\ sent[j] = 0
    /\ tasks[j].pc = "calling" =>
         /\ tasks[j].attempt \in 1 .. MaxAttempts
         /\ requests[j] <= (tasks[j].attempt - 1) * PerAttempt + sent[j]
    /\ tasks[j].pc \notin {"scheduled", "calling"} => sent[j] = 0
    /\ store[j] = Absent => requests[j] = 0

\* One more attempt costs PerAttempt more, and never more than all attempts.
LEMMA Budget ==
  /\ PerAttempt \in Nat
  /\ \A n \in Nat : n * PerAttempt \in Nat /\ (n + 1) * PerAttempt = n * PerAttempt + PerAttempt
  /\ \A n, m \in Nat : n < m => n * PerAttempt + PerAttempt <= m * PerAttempt
<1>1. PerAttempt \in Nat
  BY JobsAssumption DEF PerAttempt
<1>2. ASSUME NEW n \in Nat, NEW m \in Nat, n < m
      PROVE  n * PerAttempt + PerAttempt <= m * PerAttempt
  <2>1. (m - n - 1) \in Nat /\ m = n + 1 + (m - n - 1)
    BY <1>2
  <2>2. (m - n - 1) * PerAttempt >= 0
    BY <1>1, <2>1
  <2> QED BY <1>1, <2>1, <2>2
<1> QED BY <1>1, <1>2

\* A step keeps the books of every job.
LEMMA AccountedStep ==
  ASSUME TypeOK, PendingHasTask, Accounted, [Next]_vars
  PROVE  Accounted'
<1> USE JobsAssumption
<1>1. PerAttempt \in Nat /\ MaxAttempts * PerAttempt \in Nat
  BY Budget
<1>2. ASSUME NEW j \in Jobs, NEW kept \in BOOLEAN, Submit(j, kept) PROVE Accounted'
  <2>1. sent[j] = 0 /\ requests[j] = 0 /\ tasks'[j].pc = "scheduled"
    BY <1>2 DEF Submit, TypeOK, Accounted, Absent, PendingHasTask
  <2>2. /\ \A i \in Jobs \ {j} : tasks'[i] = tasks[i] /\ store'[i] = store[i]
        /\ UNCHANGED <<sent, requests>>
    BY <1>2 DEF Submit, TypeOK
  <2> QED BY <1>1, <2>1, <2>2 DEF Accounted
<1>4. ASSUME NEW j \in Jobs, Start(j) PROVE Accounted'
  <2>1. requests[j] <= (1 - 1) * PerAttempt + sent[j]
    BY <1>1, <1>4 DEF Start, Accounted, TypeOK
  <2> QED BY <1>4, <2>1 DEF Start, TypeOK, Accounted
<1>5. ASSUME NEW j \in Jobs, Send(j) PROVE Accounted'
  <2> DEFINE n == tasks[j].attempt - 1
  <2>1. n \in Nat /\ n + 1 \in Nat /\ n + 1 <= MaxAttempts /\ n + 1 = tasks[j].attempt
    BY <1>5 DEF Send, Accounted, TypeOK
  <2>2. /\ sent'[j] = sent[j] + 1 /\ requests'[j] = requests[j] + 1
        /\ sent[j] + 1 <= PerAttempt
    BY <1>5 DEF Send, TypeOK, PerAttempt
  <2>3. requests[j] <= n * PerAttempt + sent[j]
    BY <1>5 DEF Send, Accounted
  <2>4. n * PerAttempt + PerAttempt <= MaxAttempts * PerAttempt /\ n * PerAttempt \in Nat
    <3>1. n < MaxAttempts
      BY <2>1
    <3> HIDE DEF n
    <3> QED BY <2>1, <3>1, Budget
  <2>5. requests'[j] <= n * PerAttempt + sent'[j] /\ requests'[j] <= MaxAttempts * PerAttempt
    <3> HIDE DEF n
    <3>1. requests[j] \in Nat /\ sent[j] \in Nat
      BY DEF TypeOK
    <3> DEFINE before == n * PerAttempt
               most == MaxAttempts * PerAttempt
    <3>2. before \in Nat /\ most \in Nat /\ before + PerAttempt <= most
      BY <1>1, <2>4
    <3>3. requests[j] <= before + sent[j]
      BY <2>3
    <3> HIDE DEF before, most
    <3>4. requests'[j] <= before + sent'[j] /\ requests'[j] <= most
      BY <1>1, <2>2, <3>1, <3>2, <3>3
    <3> QED BY <3>4 DEF before, most
  <2>6. /\ UNCHANGED <<tasks, store>> /\ store[j] # Absent
        /\ \A i \in Jobs \ {j} : sent'[i] = sent[i] /\ requests'[i] = requests[i]
    BY <1>5, StatesType DEF Send, TypeOK, PendingHasTask
  <2> QED BY <1>5, <2>2, <2>5, <2>6 DEF Accounted, Send
<1>6. ASSUME NEW j \in Jobs, Retry(j) PROVE Accounted'
  <2> DEFINE n == tasks[j].attempt - 1
  <2>1. n \in Nat /\ n + 1 \in 1 .. MaxAttempts /\ n + 2 \in 1 .. MaxAttempts /\ n + 1 = tasks[j].attempt
    BY <1>6 DEF Retry, Answered, Accounted, TypeOK
  <2>2. /\ tasks'[j].attempt = n + 2 /\ tasks'[j].pc = "calling" /\ sent'[j] = 0
        /\ UNCHANGED <<requests, store>>
        /\ \A i \in Jobs \ {j} : tasks'[i] = tasks[i] /\ sent'[i] = sent[i]
    BY <1>6, <2>1 DEF Retry, Answered, TypeOK
  <2>3. requests[j] <= n * PerAttempt + sent[j] /\ sent[j] <= PerAttempt
    BY <1>6 DEF Retry, Answered, Accounted
  <2>4. requests[j] <= (n + 1) * PerAttempt
    <3>1. requests[j] \in Nat /\ sent[j] \in Nat
      BY DEF TypeOK
    <3> HIDE DEF n
    <3>2. (n + 1) * PerAttempt = n * PerAttempt + PerAttempt /\ n * PerAttempt \in Nat
      BY <2>1, Budget
    <3> DEFINE before == n * PerAttempt
    <3>3. before \in Nat /\ requests[j] <= before + sent[j]
      BY <2>3, <3>2
    <3> HIDE DEF before
    <3>4. requests[j] <= before + PerAttempt
      BY <1>1, <2>3, <3>1, <3>3
    <3> QED BY <3>2, <3>4 DEF before
  <2>5. requests'[j] <= (tasks'[j].attempt - 1) * PerAttempt + sent'[j]
    <3> HIDE DEF n
    <3>1. (n + 2) - 1 = n + 1 /\ n + 1 \in Nat
      BY <2>1
    <3>2. (n + 1) * PerAttempt \in Nat
      BY <3>1, Budget
    <3> QED BY <2>2, <2>4, <3>1, <3>2
  <2> HIDE DEF n
  <2> QED BY <1>1, <2>1, <2>2, <2>5 DEF Accounted
<1>7. ASSUME NEW j \in Jobs, NEW job \in Ends, Finish(j, job) PROVE Accounted'
  BY <1>1, <1>7, StatesType DEF Finish, TypeOK, Accounted, Over
<1>8. CASE Restart
  BY <1>1, <1>8 DEF Restart, Accounted, NoTask
<1>9. CASE UNCHANGED vars
  BY <1>9 DEF vars, Accounted
<1>10. ASSUME NEW j \in Jobs, Run(j) PROVE Accounted'
  BY <1>10, <1>4, <1>5, <1>6, <1>7
     DEF Run, Succeed, GiveUp, TransportFails, WrongShape, Unexpected, Ends
<1> QED BY <1>2, <1>8, <1>9, <1>10 DEF Next

\* No job costs more HTTP requests than its attempts with all their retries.
THEOREM SpendBounded == Spec => []RequestsBounded
<1>1. Init => Accounted
  <2>1. PerAttempt \in Nat /\ MaxAttempts * PerAttempt \in Nat
    BY Budget, JobsAssumption
  <2> QED BY <2>1 DEF Init, Accounted, NoTask
<1>2. Accounted => RequestsBounded
  BY DEF Accounted, RequestsBounded, PerAttempt
<1> QED BY <1>1, <1>2, AccountedStep, NoOrphans, TypeCorrect, PTL DEF Spec
----------------------------------------------------------------------------
(***************************************************************************)
(* What a client sees.                                                     *)
(***************************************************************************)

\* No read of a job contradicts an earlier one, but for the restart that loses all.
THEOREM PollsForward == Spec => PollsMoveForward
<1> DEFINE Forward ==
      \A j \in Jobs :
        /\ Seen(j) \in {"succeeded", "failed"} => Seen(j)' \in {Seen(j), "absent"}
        /\ Seen(j) # "absent" /\ Seen(j)' = "absent" => \A i \in Jobs : Seen(i)' = "absent"
<1>1. TypeOK /\ PendingHasTask /\ [Next]_vars => Forward
  <2> SUFFICES ASSUME TypeOK, PendingHasTask, [Next]_vars PROVE Forward
    OBVIOUS
  <2>1. ASSUME NEW j \in Jobs, NEW kept \in BOOLEAN, Submit(j, kept) PROVE Forward
    <3>1. Seen(j) = "absent" /\ \A i \in Jobs \ {j} : Seen(i)' = Seen(i)
      BY <2>1, StatesType DEF Submit, Seen, TypeOK
    <3> QED BY <3>1
  <2>2. ASSUME NEW j \in Jobs, Run(j) PROVE Forward
    <3>1. ASSUME NEW job \in Ends, tasks[j].pc = "calling", Finish(j, job) PROVE Forward
      <4>1. \A i \in Jobs \ {j} : Seen(i)' = Seen(i)
        BY <3>1 DEF Finish, Seen, TypeOK
      <4>2. /\ store[j].status = "pending" /\ shared' = shared
            /\ store'[j].status \in {"succeeded", "failed"}
        BY <3>1, StatesType DEF PendingHasTask, Finish, TypeOK
      <4>3. Seen(j) \notin {"succeeded", "failed"} /\ (Seen(j)' = "absent" => Seen(j) = "absent")
        BY <4>2, StatesType DEF Seen
      <4> QED BY <4>1, <4>3
    <3>2. CASE store' = store /\ shared' = shared
      BY <3>2 DEF Seen
    <3> QED BY <2>2, <3>1, <3>2, RunShape
  <2>3. CASE Restart
    BY <2>3, StatesType DEF Restart, Seen
  <2>4. CASE UNCHANGED vars
    BY <2>4 DEF vars, Seen
  <2> QED BY <2>1, <2>2, <2>3, <2>4 DEF Next
<1>2. [Forward]_vars <=> (Forward \/ UNCHANGED vars)
  OBVIOUS
<1> QED BY <1>1, <1>2, NoOrphans, TypeCorrect, PTL DEF Spec, PollsMoveForward
----------------------------------------------------------------------------
(***************************************************************************)
(* The endpoint: theorems about the specification of ExtractionApi.        *)
(***************************************************************************)

\* The steps of a request: the role check, then what comes before its handler.
Asking(j) == Anonymous(j) \/ Authenticate(j) \/ LoadTable(j) \/ CacheTable(j)

Checking(j) ==
  \/ MissLimiter(j) \/ MakeLimiter(j) \/ Enforce(j) \/ EnforceAlone(j)
  \/ MissRepository(j) \/ MakeRepository(j)

LEMMA ServeParts ==
  ASSUME NEW j
  PROVE  Serve(j) <=> Asking(j) \/ Checking(j) \/ Handle(j)
  BY DEF Serve, Asking, Checking

\* Behind its role check and its limiter, the endpoint does nothing with the jobs
\* that ExtractionJobs does not do.
THEOREM EndpointRunsJobs == ApiSpec => Spec
<1>1. ApiInit => Init
  BY DEF ApiInit
<1>2. [ApiNext]_apiVars => [Next]_vars
  <2> SUFFICES ASSUME [ApiNext]_apiVars PROVE [Next]_vars
    OBVIOUS
  <2>1. ASSUME NEW j \in Jobs, Handle(j) PROVE [Next]_vars
    <3>1. \E kept \in BOOLEAN : Submit(j, kept) \/ UNCHANGED vars
      BY <2>1 DEF Handle
    <3> QED BY <3>1 DEF Next
  <2>2. ASSUME NEW j \in Jobs, Work(j) PROVE [Next]_vars
    BY <2>2 DEF Work, Next
  <2>3. CASE Redeploy
    BY <2>3 DEF Redeploy, Next
  <2>4. CASE vars' = vars
    BY <2>4
  <2>5. ASSUME NEW j \in Jobs, Asking(j) \/ Checking(j) PROVE vars' = vars
    BY <2>5 DEF Asking, Checking, Anonymous, Authenticate, LoadTable, CacheTable, MissLimiter,
       MakeLimiter, Enforce, EnforceAlone, MissRepository, MakeRepository
  <2>6. ASSUME NEW j \in Jobs, NEW key \in Keys \cup {NoKey}, Arrive(j, key) PROVE vars' = vars
    BY <2>6 DEF Arrive
  <2>7. ASSUME NEW j \in Jobs, ArriveUnreadable(j) PROVE vars' = vars
    BY <2>7 DEF ArriveUnreadable
  <2>8. ASSUME NEW n, AskElsewhere(n) \/ \E key \in Keys : Get(key, n) PROVE vars' = vars
    BY <2>8 DEF AskElsewhere, Get
  <2>9. CASE Reconfigure \/ Tick
    BY <2>4, <2>9 DEF Reconfigure, Tick
  <2>10. CASE UNCHANGED apiVars
    BY <2>4, <2>10 DEF apiVars
  <2> QED BY <2>1, <2>2, <2>3, <2>4, <2>5, <2>6, <2>7, <2>8, <2>9, <2>10, ServeParts DEF ApiNext
<1> QED BY <1>1, <1>2, PTL DEF ApiSpec, Spec

\* So it inherits what they promise.
THEOREM JobsKept == ApiSpec => [](TypeOK /\ PendingHasTask /\ RequestsBounded)
  BY EndpointRunsJobs, TypeCorrect, NoOrphans, SpendBounded, PTL

\* The clients who read through the role check see no job go back.
THEOREM PollsKept == ApiSpec => PollsMoveForward
  BY EndpointRunsJobs, PollsForward, PTL
----------------------------------------------------------------------------
(***************************************************************************)
(* Types.                                                                  *)
(***************************************************************************)
LEMMA InForce ==
  ASSUME ApiTypeOK, NEW n \in since .. settings
  PROVE  Deployments[n] \in Settings
  BY ApiAssumption DEF ApiTypeOK

\* The table of a setting gives every key that is listed one role, and a key of
\* both lists that of an officer.
LEMMA RoleTable ==
  ASSUME NEW s \in Settings
  PROVE  /\ LoadRoleKeys(s) \in RoleKeys
         /\ DOMAIN LoadRoleKeys(s) = s.analysts \cup s.officers
         /\ \A k \in s.analysts \cup s.officers :
              LoadRoleKeys(s)[k] = "loan_operations_analyst" <=> k \notin s.officers
<1>1. s.analysts \cup s.officers \in SUBSET Keys
  BY DEF Settings
<1>2. LoadRoleKeys(s) \in [s.analysts \cup s.officers -> Roles]
  BY DEF LoadRoleKeys, Roles
<1> QED BY <1>1, <1>2 DEF LoadRoleKeys, RoleKeys

\* What the role check of POST /extractions says of a key.
LEMMA AdmissionToSubmit ==
  ASSUME NEW role_keys \in RoleKeys, NEW key
  PROVE  /\ Admission(role_keys, key, "submit_extraction") =
              Judge(role_keys, key, {"loan_operations_analyst"})
         /\ Admission(role_keys, key, "submit_extraction") \in {200, 401, 403}
         /\ Admission(role_keys, key, "submit_extraction") = 200 => key \in Keys
<1>1. "submit_extraction" \notin Public /\ "submit_extraction" \in Writers
  BY DEF Public, Writers
<1>2. Admission(role_keys, key, "submit_extraction") =
        Judge(role_keys, key, {"loan_operations_analyst"})
  BY <1>1 DEF Admission, Analysts
<1>3. DOMAIN role_keys \subseteq Keys
  BY DEF RoleKeys
<1> QED BY <1>2, <1>3 DEF Judge

\* A request that goes on past the role check.
LEMMA GoesToType ==
  ASSUME ApiTypeOK, NEW j \in Jobs, NEW pc \in PastRoleCheck, calls[j].key \in Keys, GoesTo(j, pc)
  PROVE  /\ calls' \in [Jobs -> CallStates]
         /\ \A i \in Jobs \ {j} : calls'[i] = calls[i]
         /\ calls'[j].key = calls[j].key /\ calls'[j].pc = pc
<1>1. calls' = [calls EXCEPT ![j] = At(calls[j], pc)]
  BY DEF GoesTo
<1>2. At(calls[j], pc) \in Admitted
  BY DEF At, Admitted
<1> QED BY <1>1, <1>2 DEF ApiTypeOK, At, CallStates

\* A request that is answered.
LEMMA AnsweredType ==
  ASSUME ApiTypeOK, NEW j \in Jobs, NEW status \in {202, 401, 403, 422, 429},
         calls[j].key \in Keys \cup {NoKey}, Answers(j, status)
  PROVE  /\ calls' \in [Jobs -> CallStates]
         /\ \A i \in Jobs \ {j} : calls'[i] = calls[i]
         /\ calls'[j].key = calls[j].key /\ calls'[j].pc = "done" /\ calls'[j].status = status
<1> DEFINE answer == [pc |-> "done", key |-> calls[j].key, status |-> status]
<1>1. calls' = [calls EXCEPT ![j] = answer]
  BY DEF Answers
<1>2. answer \in Closed
  BY DEF Closed
<1>3. calls' \in [Jobs -> CallStates]
  <2> HIDE DEF answer
  <2> QED BY <1>1, <1>2 DEF ApiTypeOK, CallStates
<1> QED BY <1>1, <1>3 DEF ApiTypeOK

\* The verdict sends a request on to the limiter, or answers it.
LEMMA VerdictType ==
  ASSUME ApiTypeOK, NEW j \in Jobs, NEW role_keys \in RoleKeys,
         calls[j].key \in Keys, Verdict(j, role_keys)
  PROVE  /\ calls' \in [Jobs -> CallStates]
         /\ \A i \in Jobs \ {j} : calls'[i] = calls[i]
         /\ calls'[j].key = calls[j].key
         /\ LET status == Admission(role_keys, calls[j].key, "submit_extraction") IN
              IF status = 200 THEN calls'[j].pc = "limit"
                              ELSE calls'[j].pc = "done" /\ calls'[j].status = status
<1> DEFINE status == Admission(role_keys, calls[j].key, "submit_extraction")
<1>1. status \in {200, 401, 403}
  BY AdmissionToSubmit
<1>2. CASE status = 200
  <2>1. GoesTo(j, "limit")
    BY <1>2 DEF Verdict
  <2> QED BY <1>2, <2>1, GoesToType DEF PastRoleCheck
<1>3. CASE status # 200
  <2>1. Answers(j, status)
    BY <1>3 DEF Verdict
  <2> HIDE DEF status
  <2> QED BY <1>1, <1>3, <2>1, AnsweredType DEF status
<1> QED BY <1>2, <1>3

\* Where a request is, and what is known of it there.
LEMMA CallType ==
  ASSUME ApiTypeOK, NEW j \in Jobs
  PROVE  /\ calls[j].pc = "authenticate" => calls[j].key \in Keys \cup {NoKey}
         /\ calls[j].pc = "loaded" => calls[j].key \in Keys /\ calls[j].role_keys \in RoleKeys
         /\ calls[j].pc \in PastRoleCheck => calls[j].key \in Keys
         /\ calls[j].pc = "done" => calls[j].key \in Keys \cup {NoKey}
<1>1. calls[j] \in CallStates
  BY DEF ApiTypeOK
<1>2. CASE calls[j] \in Arrived
  BY <1>2 DEF Arrived, PastRoleCheck
<1>3. CASE calls[j] \in Loading
  BY <1>3 DEF Loading, PastRoleCheck
<1>4. CASE calls[j] \in Admitted
  BY <1>4 DEF Admitted, PastRoleCheck
<1>5. CASE calls[j] \in Closed
  BY <1>5 DEF Closed, PastRoleCheck
<1>6. CASE calls[j] \in [pc : {"idle", "unread"}]
  BY <1>6 DEF PastRoleCheck
<1> QED BY <1>1, <1>2, <1>3, <1>4, <1>5, <1>6 DEF CallStates

\* A role check uses the cached table, or one made of settings of this life.
LEMMA TableType ==
  ASSUME ApiTypeOK
  PROVE  /\ table.loaded \in BOOLEAN
         /\ table.loaded => table.role_keys \in RoleKeys
         /\ \A role_keys \in RoleKeys : Table(role_keys) \in [loaded : {TRUE}, role_keys : RoleKeys]
         /\ \A n \in since .. settings : LoadRoleKeys(Deployments[n]) \in RoleKeys
         /\ settings \in since .. settings
<1>1. table = Unloaded => table.loaded = FALSE
  BY DEF Unloaded
<1>2. table # Unloaded => table.loaded = TRUE /\ table.role_keys \in RoleKeys
  <2> HIDE DEF Unloaded
  <2> QED BY DEF ApiTypeOK
<1>3. \A role_keys \in RoleKeys : Table(role_keys) \in [loaded : {TRUE}, role_keys : RoleKeys]
  BY DEF Table
<1>4. settings \in since .. settings
  BY ApiAssumption DEF ApiTypeOK
<1> QED BY <1>1, <1>2, <1>3, <1>4, InForce, RoleTable

\* What a step of the role check changes.
LEMMA AskingDoes ==
  ASSUME ApiTypeOK, NEW j \in Jobs, Asking(j)
  PROVE  /\ UNCHANGED <<vars, settings, since, limitVars, repositoryVars>>
         /\ calls[j].pc \in {"authenticate", "loaded"}
         /\ calls' \in [Jobs -> CallStates]
         /\ \A i \in Jobs \ {j} : calls'[i] = calls[i]
         /\ calls'[j].key = calls[j].key
         /\ table' = table \/ table' \in [loaded : {TRUE}, role_keys : RoleKeys]
         /\ \/ calls'[j].pc \in {"loaded", "limit"}
            \/ calls'[j].pc = "done" /\ calls'[j].status \in {401, 403}
<1>1. ASSUME NEW role_keys \in RoleKeys, calls[j].key \in Keys, Verdict(j, role_keys)
      PROVE  /\ calls' \in [Jobs -> CallStates]
             /\ \A i \in Jobs \ {j} : calls'[i] = calls[i]
             /\ calls'[j].key = calls[j].key
             /\ \/ calls'[j].pc = "limit"
                \/ calls'[j].pc = "done" /\ calls'[j].status \in {401, 403}
  BY <1>1, VerdictType, AdmissionToSubmit
<1>2. CASE Anonymous(j)
  BY <1>2, AnsweredType DEF Anonymous, accessVars
<1>3. CASE Authenticate(j)
  BY <1>1, <1>3, TableType, CallType DEF Authenticate, accessVars
<1>4. CASE LoadTable(j)
  <2> DEFINE call == [pc |-> "loaded", key |-> calls[j].key,
                      role_keys |-> LoadRoleKeys(Deployments[settings])]
  <2>1. calls' = [calls EXCEPT ![j] = call]
    BY <1>4 DEF LoadTable
  <2>2. call \in Loading
    BY <1>4, TableType, CallType DEF LoadTable, Loading
  <2> QED BY <1>4, <2>1, <2>2 DEF LoadTable, ApiTypeOK, accessVars, CallStates
<1>5. CASE CacheTable(j)
  <2>1. /\ calls[j].pc = "loaded" /\ calls[j].role_keys \in RoleKeys /\ calls[j].key \in Keys
        /\ Verdict(j, calls[j].role_keys)
        /\ UNCHANGED <<vars, settings, since, limitVars, repositoryVars>>
    BY <1>5, CallType DEF CacheTable
  <2>2. table' = table \/ table' \in [loaded : {TRUE}, role_keys : RoleKeys]
    BY <1>5, <2>1, TableType DEF CacheTable
  <2> QED BY <1>1, <2>1, <2>2
<1> QED BY <1>2, <1>3, <1>4, <1>5 DEF Asking

\* What a limiter of its own tells a request, and what it changes.
LEMMA AloneType ==
  ASSUME ApiTypeOK, NEW j \in Jobs, EnforceAlone(j)
  PROVE  /\ checks' = [checks EXCEPT ![j] =
              [allowed |-> 0 < MaxRequests, alone |-> TRUE, key |-> calls[j].key, start |-> now]]
         /\ UNCHANGED <<windows, limiter, repository>>
         /\ calls[j].pc = "limit alone" /\ calls[j].key \in Keys
         /\ 0 < MaxRequests => GoesTo(j, "store")
         /\ ~(0 < MaxRequests) => Answers(j, 429)
  BY CallType DEF EnforceAlone, repositoryVars, PastRoleCheck

\* What the limiter works with, what it notes down and what it charges.
LEMMA LimiterType ==
  ASSUME ApiTypeOK, NEW j \in Jobs, Enforce(j)
  PROVE  LET k == calls[j].key
             w == CurrentWindow(k) IN
         /\ k \in Keys /\ calls[j].pc = "limit" /\ UNCHANGED <<limiter, repository>>
         /\ w \in [start : 0 .. MaxTime, count : 0 .. MaxRequests]
         /\ checks' = [checks EXCEPT ![j] =
              [allowed |-> w.count < MaxRequests, alone |-> FALSE, key |-> k, start |-> w.start]]
         /\ w.count < MaxRequests =>
              /\ windows' = [windows EXCEPT ![k] = [start |-> w.start, count |-> w.count + 1]]
              /\ GoesTo(j, "store")
         /\ w.count = MaxRequests => windows' = windows /\ Answers(j, 429)
<1> DEFINE k == calls[j].key
           w == CurrentWindow(k)
<1>1. k \in Keys /\ calls[j].pc = "limit" /\ UNCHANGED <<limiter, repository>>
  BY CallType DEF Enforce, PastRoleCheck, repositoryVars
<1>2. w \in [start : 0 .. MaxTime, count : 0 .. MaxRequests]
  BY <1>1, ApiAssumption DEF CurrentWindow, ApiTypeOK
<1>3. checks' = [checks EXCEPT ![j] =
        [allowed |-> w.count < MaxRequests, alone |-> FALSE, key |-> k, start |-> w.start]]
  BY DEF Enforce
<1>4. w.count < MaxRequests =>
        windows' = [windows EXCEPT ![k] = [w EXCEPT !.count = w.count + 1]] /\ GoesTo(j, "store")
  BY DEF Enforce
<1>5. w.count = MaxRequests => windows' = windows /\ Answers(j, 429)
  BY <1>2, ApiAssumption DEF Enforce
<1>6. [w EXCEPT !.count = w.count + 1] = [start |-> w.start, count |-> w.count + 1]
  <2> HIDE DEF w
  <2> QED BY <1>2
<1> HIDE DEF w
<1> QED BY <1>1, <1>2, <1>3, <1>4, <1>5, <1>6 DEF w

\* What a step between the role check and the handler changes.
LEMMA CheckingDoes ==
  ASSUME ApiTypeOK, NEW j \in Jobs, Checking(j)
  PROVE  /\ UNCHANGED <<vars, accessVars, now, early>>
         /\ calls[j].pc \in PastRoleCheck /\ calls[j].key \in Keys
         /\ calls' \in [Jobs -> CallStates]
         /\ \A i \in Jobs \ {j} : calls'[i] = calls[i]
         /\ calls'[j].key = calls[j].key
         /\ \/ calls'[j].pc \in PastRoleCheck
            \/ calls'[j].pc = "done" /\ calls'[j].status = 429
         /\ limiter' \in BOOLEAN /\ (limiter => limiter')
         /\ repository' \in BOOLEAN /\ (repository => repository')
<1>1. /\ UNCHANGED <<vars, accessVars, now, early>>
      /\ limiter' \in BOOLEAN /\ (limiter => limiter')
      /\ repository' \in BOOLEAN /\ (repository => repository')
  BY DEF Checking, MissLimiter, MakeLimiter, Enforce, EnforceAlone, MissRepository, MakeRepository,
     limitVars, repositoryVars, ApiTypeOK
<1>2. calls[j].pc \in PastRoleCheck
  BY DEF Checking, MissLimiter, MakeLimiter, Enforce, EnforceAlone, MissRepository, MakeRepository,
     PastRoleCheck
<1>3. \E pc \in PastRoleCheck : GoesTo(j, pc) \/ Answers(j, 429)
  BY DEF Checking, MissLimiter, MakeLimiter, Enforce, EnforceAlone, MissRepository, MakeRepository,
     PastRoleCheck
<1>4. calls[j].key \in Keys
  BY <1>2, CallType
<1>5. CASE Answers(j, 429)
  BY <1>1, <1>2, <1>4, <1>5, AnsweredType
<1>6. ASSUME NEW pc \in PastRoleCheck, GoesTo(j, pc)
      PROVE  /\ calls' \in [Jobs -> CallStates]
             /\ \A i \in Jobs \ {j} : calls'[i] = calls[i]
             /\ calls'[j].key = calls[j].key /\ calls'[j].pc \in PastRoleCheck
  BY <1>4, <1>6, GoesToType
<1> QED BY <1>1, <1>2, <1>3, <1>4, <1>5, <1>6

\* What the handler changes.
LEMMA HandleDoes ==
  ASSUME ApiTypeOK, NEW j \in Jobs, Handle(j)
  PROVE  /\ UNCHANGED <<accessVars, limitVars, repositoryVars>>
         /\ calls[j].pc \in PastRoleCheck
         /\ calls[j].pc = "store alone" \/ (calls[j].pc = "store" /\ repository)
         /\ calls' \in [Jobs -> CallStates]
         /\ \A i \in Jobs \ {j} : calls'[i] = calls[i]
         /\ calls'[j].key = calls[j].key /\ calls'[j].pc = "done"
         /\ \/ Submit(j, calls[j].pc = "store") /\ calls'[j].status = 202
            \/ vars' = vars /\ calls'[j].status = 422
<1>1. calls[j].pc \in PastRoleCheck /\ calls[j].key \in Keys
  BY CallType DEF Handle, PastRoleCheck
<1>2. /\ UNCHANGED <<accessVars, limitVars, repositoryVars>>
      /\ calls[j].pc = "store alone" \/ (calls[j].pc = "store" /\ repository)
  BY DEF Handle
<1>3. ASSUME NEW status \in {202, 422}, Answers(j, status)
      PROVE  /\ calls' \in [Jobs -> CallStates]
             /\ \A i \in Jobs \ {j} : calls'[i] = calls[i]
             /\ calls'[j].key = calls[j].key /\ calls'[j].pc = "done" /\ calls'[j].status = status
  BY <1>1, <1>3, AnsweredType
<1>4. \/ Submit(j, calls[j].pc = "store") /\ Answers(j, 202)
      \/ vars' = vars /\ Answers(j, 422)
  BY Zenon DEF Handle
<1>5. /\ calls' \in [Jobs -> CallStates]
      /\ \A i \in Jobs \ {j} : calls'[i] = calls[i]
      /\ calls'[j].key = calls[j].key /\ calls'[j].pc = "done"
      /\ Answers(j, 202) => calls'[j].status = 202
      /\ Answers(j, 422) => calls'[j].status = 422
  <2>1. Answers(j, 202) \/ Answers(j, 422)
    BY <1>4, Zenon
  <2> QED BY <1>3, <2>1
<1> QED BY <1>1, <1>2, <1>4, <1>5, Zenon

\* A check leaves a note, and the windows are windows still.
LEMMA NotesType ==
  ASSUME ApiTypeOK, NEW j \in Jobs, Checking(j)
  PROVE  /\ checks' \in [Jobs -> {NotChecked} \cup Checked]
         /\ windows' \in [Keys -> [start : 0 .. MaxTime, count : 0 .. MaxRequests]]
<1>1. CASE Enforce(j)
  <2> DEFINE k == calls[j].key
             w == CurrentWindow(k)
             note == [allowed |-> w.count < MaxRequests, alone |-> FALSE, key |-> k, start |-> w.start]
  <2>1. /\ k \in Keys
        /\ w.start \in 0 .. MaxTime /\ w.count \in 0 .. MaxRequests
        /\ checks' = [checks EXCEPT ![j] = note]
        /\ w.count < MaxRequests =>
             windows' = [windows EXCEPT ![k] = [start |-> w.start, count |-> w.count + 1]]
        /\ w.count = MaxRequests => windows' = windows
    BY <1>1, LimiterType
  <2> HIDE DEF w
  <2>2. note \in Checked
    BY <2>1, ApiAssumption DEF Checked
  <2>3. CASE w.count < MaxRequests
    <3>1. [start |-> w.start, count |-> w.count + 1] \in [start : 0 .. MaxTime, count : 0 .. MaxRequests]
      BY <2>1, <2>3, ApiAssumption
    <3> QED BY <2>1, <2>2, <2>3, <3>1 DEF ApiTypeOK
  <2>4. CASE w.count = MaxRequests
    BY <2>1, <2>2, <2>4 DEF ApiTypeOK
  <2> QED BY <2>1, <2>3, <2>4, ApiAssumption
<1>2. CASE EnforceAlone(j)
  <2> DEFINE note == [allowed |-> 0 < MaxRequests, alone |-> TRUE, key |-> calls[j].key, start |-> now]
  <2>1. checks' = [checks EXCEPT ![j] = note] /\ windows' = windows /\ calls[j].key \in Keys
    BY <1>2, AloneType
  <2>2. note \in Checked
    BY <2>1, ApiAssumption DEF Checked, ApiTypeOK
  <2> QED BY <2>1, <2>2 DEF ApiTypeOK
<1>3. CASE MissLimiter(j) \/ MakeLimiter(j) \/ MissRepository(j) \/ MakeRepository(j)
  BY <1>3 DEF MissLimiter, MakeLimiter, MissRepository, MakeRepository, limitVars, ApiTypeOK
<1> QED BY <1>1, <1>2, <1>3 DEF Checking

\* A restart takes the endpoint back to its beginning, but for settings and clock.
LEMMA RedeployDoes ==
  ASSUME Redeploy
  PROVE  /\ store' = [j \in Jobs |-> Absent] /\ requests' = [j \in Jobs |-> 0]
         /\ since' = settings /\ table' = Unloaded
         /\ limiter' = FALSE /\ windows' = [k \in Keys |-> NoWindow]
         /\ repository' = FALSE /\ early' = {}
         /\ calls' = [j \in Jobs |-> [pc |-> "idle"]] /\ checks' = [j \in Jobs |-> NotChecked]
         /\ UNCHANGED <<settings, now>>
  BY DEF Redeploy, Restart

\* A GET, or a request to another route, finds a table or caches one of this life.
LEMMA ElsewhereDoes ==
  ASSUME ApiTypeOK, NEW n \in since .. settings, AskElsewhere(n) \/ \E key \in Keys : Get(key, n)
  PROVE  /\ UNCHANGED <<vars, settings, since, limitVars, early, calls>>
         /\ \/ table.loaded /\ table' = Table(table.role_keys)
            \/ table' = Table(LoadRoleKeys(Deployments[n]))
         /\ repository' \in BOOLEAN /\ (repository => repository')
<1>1. CASE AskElsewhere(n)
  BY <1>1 DEF AskElsewhere, repositoryVars, ApiTypeOK
<1>2. ASSUME NEW key \in Keys, Get(key, n)
      PROVE  /\ UNCHANGED <<vars, settings, since, limitVars, early, calls>>
             /\ \/ table.loaded /\ table' = Table(table.role_keys)
                \/ table' = Table(LoadRoleKeys(Deployments[n]))
             /\ repository' \in BOOLEAN /\ (repository => repository')
  <2>1. repository' = (repository \/ Admission(IF table.loaded THEN table.role_keys
                              ELSE LoadRoleKeys(Deployments[n]), key, "get_extraction") = 200)
    BY <1>2 DEF Get
  <2>2. repository' \in BOOLEAN /\ (repository => repository')
    BY <2>1, Zenon DEF ApiTypeOK
  <2> QED BY <1>2, <2>2 DEF Get
<1> QED BY <1>1, <1>2

\* The variables of the endpoint have their types.
THEOREM ApiTypeCorrect == ApiSpec => []ApiTypeOK
<1>1. ApiInit => ApiTypeOK
  <2> SUFFICES ASSUME ApiInit PROVE ApiTypeOK
    OBVIOUS
  <2>1. limiter \in BOOLEAN /\ repository \in BOOLEAN
    BY Zenon DEF ApiInit
  <2>2. calls \in [Jobs -> CallStates]
    BY DEF ApiInit, CallStates
  <2> QED BY <2>1, <2>2, ApiAssumption DEF ApiInit, ApiTypeOK, NoWindow
<1>2. ApiTypeOK /\ [ApiNext]_apiVars => ApiTypeOK'
  <2> SUFFICES ASSUME ApiTypeOK, [ApiNext]_apiVars PROVE ApiTypeOK'
    OBVIOUS
  <2>1. ASSUME NEW j \in Jobs, NEW key \in Keys \cup {NoKey}, Arrive(j, key) PROVE ApiTypeOK'
    <3>1. [pc |-> "authenticate", key |-> key] \in Arrived
      BY DEF Arrived
    <3> QED BY <2>1, <3>1 DEF Arrive, ApiTypeOK, accessVars, limitVars, CallStates
  <2>2. ASSUME NEW j \in Jobs, ArriveUnreadable(j) PROVE ApiTypeOK'
    BY <2>2 DEF ArriveUnreadable, ApiTypeOK, accessVars, limitVars, repositoryVars, CallStates
  <2>3. ASSUME NEW j \in Jobs, Asking(j) PROVE ApiTypeOK'
    <3>1. UNCHANGED <<settings, since, limiter, windows, now, checks, repository, early>>
      BY <2>3, AskingDoes DEF limitVars, repositoryVars
    <3>2. limiter' \in BOOLEAN /\ repository' \in BOOLEAN
      BY <3>1, Zenon DEF ApiTypeOK
    <3>3. calls' \in [Jobs -> CallStates]
      BY <2>3, AskingDoes
    <3>4. table' = table \/ table' \in [loaded : {TRUE}, role_keys : RoleKeys]
      BY <2>3, AskingDoes
    <3> QED BY <3>1, <3>2, <3>3, <3>4 DEF ApiTypeOK
  <2>4. ASSUME NEW j \in Jobs, Checking(j) PROVE ApiTypeOK'
    <3>1. UNCHANGED <<settings, since, table, now, early>>
      BY <2>4, CheckingDoes DEF accessVars
    <3>2. limiter' \in BOOLEAN /\ repository' \in BOOLEAN
      BY <2>4, CheckingDoes, Zenon
    <3> QED BY <2>4, <3>1, <3>2, CheckingDoes, NotesType DEF ApiTypeOK
  <2>5. ASSUME NEW j \in Jobs, Handle(j) PROVE ApiTypeOK'
    <3>1. UNCHANGED <<settings, since, table, limiter, windows, now, checks, repository, early>>
      BY <2>5, HandleDoes DEF accessVars, limitVars, repositoryVars
    <3>2. limiter' \in BOOLEAN /\ repository' \in BOOLEAN
      BY <3>1, Zenon DEF ApiTypeOK
    <3> QED BY <2>5, <3>1, <3>2, HandleDoes DEF ApiTypeOK
  <2>6. ASSUME NEW n \in since .. settings, AskElsewhere(n) \/ \E key \in Keys : Get(key, n)
        PROVE  ApiTypeOK'
    <3>1. table' \in [loaded : {TRUE}, role_keys : RoleKeys]
      BY <2>6, ElsewhereDoes, TableType
    <3> QED BY <2>6, <3>1, ElsewhereDoes DEF ApiTypeOK, limitVars
  <2>7. ASSUME NEW j \in Jobs, Work(j) PROVE ApiTypeOK'
    BY <2>7 DEF Work, ApiTypeOK, accessVars, limitVars, repositoryVars
  <2>8. CASE Reconfigure
    <3>1. settings' \in DOMAIN Deployments /\ since \in 1 .. settings'
      BY <2>8, ApiAssumption DEF Reconfigure, ApiTypeOK
    <3> QED BY <2>8, <3>1 DEF Reconfigure, ApiTypeOK, limitVars, repositoryVars
  <2>9. CASE Redeploy
    BY <2>9, RedeployDoes, ApiAssumption DEF ApiTypeOK, NoWindow, CallStates
  <2>10. CASE Tick
    <3>1. now' \in 0 .. MaxTime
      BY <2>10, ApiAssumption DEF Tick, ApiTypeOK
    <3> QED BY <2>10, <3>1 DEF Tick, ApiTypeOK, accessVars, repositoryVars
  <2>11. CASE UNCHANGED apiVars
    BY <2>11 DEF apiVars, ApiTypeOK, accessVars, limitVars, repositoryVars
  <2> QED BY <2>1, <2>2, <2>3, <2>4, <2>5, <2>6, <2>7, <2>8, <2>9, <2>10, <2>11, ServeParts
          DEF ApiNext
<1> QED BY <1>1, <1>2, PTL DEF ApiSpec
----------------------------------------------------------------------------
(***************************************************************************)
(* The first requests of a process.                                        *)
(***************************************************************************)

\* Only a request that came before limiter and repository were both made finds one
\* of them missing, and only such a request goes on with one of its own.
EarlyOnes ==
  /\ IsFiniteSet(early)
  /\ \A j \in Jobs \ early :
       /\ calls[j].pc \notin {"idle", "unread"} => limiter /\ repository
       /\ calls[j].pc \notin
            {"making limiter", "limit alone", "making repository", "store alone"}
       /\ checks[j].allowed => ~checks[j].alone

LEMMA NotCheckedSays == NotChecked.allowed = FALSE
  BY Zenon DEF NotChecked

\* A step keeps an eye on the first requests.
LEMMA EarlyStep ==
  ASSUME ApiTypeOK, EarlyOnes, [ApiNext]_apiVars
  PROVE  EarlyOnes'
<1>1. ASSUME early' = early, limiter => limiter', repository => repository', checks' = checks,
             \A j \in Jobs :
               \/ calls'[j] = calls[j]
               \/ calls'[j].pc \in {"unread", "loaded", "limit", "store", "done"} /\
                  (calls'[j].pc # "unread" => calls[j].pc \notin {"idle", "unread"})
      PROVE  EarlyOnes'
  BY <1>1 DEF EarlyOnes
<1>2. ASSUME NEW j \in Jobs, NEW key \in Keys \cup {NoKey}, Arrive(j, key) PROVE EarlyOnes'
  <2>1. /\ UNCHANGED <<limiter, repository, checks>> /\ calls'[j].pc = "authenticate"
        /\ \A i \in Jobs \ {j} : calls'[i] = calls[i]
    BY <1>2 DEF Arrive, limitVars, ApiTypeOK
  <2>2. \/ early' = early /\ limiter /\ repository
        \/ early' = early \cup {j}
    BY <1>2 DEF Arrive
  <2>3. IsFiniteSet(early')
    BY <2>2, FS_AddElement DEF EarlyOnes
  <2>4. CASE early' = early /\ limiter /\ repository
    <3>1. checks[j].allowed => j \in early \/ ~checks[j].alone
      BY DEF EarlyOnes
    <3> QED BY <2>1, <2>3, <2>4 DEF EarlyOnes
  <2>5. CASE early' = early \cup {j}
    BY <2>1, <2>3, <2>5 DEF EarlyOnes
  <2> QED BY <2>2, <2>4, <2>5
<1>3. ASSUME NEW j \in Jobs, ArriveUnreadable(j) PROVE EarlyOnes'
  BY <1>1, <1>3 DEF ArriveUnreadable, limitVars, repositoryVars, ApiTypeOK
<1>4. ASSUME NEW j \in Jobs, Asking(j) PROVE EarlyOnes'
  <2>1. UNCHANGED <<early, limiter, repository, checks>>
    BY <1>4, AskingDoes DEF limitVars, repositoryVars
  <2>2. /\ \A i \in Jobs \ {j} : calls'[i] = calls[i]
        /\ calls[j].pc \in {"authenticate", "loaded"} /\ calls'[j].pc \in {"loaded", "limit", "done"}
    BY <1>4, AskingDoes, ZenonT(60)
  <2> QED BY <1>1, <2>1, <2>2
<1>5. ASSUME NEW j \in Jobs, Handle(j) PROVE EarlyOnes'
  <2>1. UNCHANGED <<early, limiter, repository, checks>>
    BY <1>5, HandleDoes DEF limitVars, repositoryVars
  <2>2. /\ \A i \in Jobs \ {j} : calls'[i] = calls[i]
        /\ calls[j].pc \in PastRoleCheck /\ calls'[j].pc = "done"
    BY <1>5, HandleDoes
  <2> QED BY <1>1, <2>1, <2>2 DEF PastRoleCheck
<1>6. ASSUME NEW j \in Jobs, MissLimiter(j) \/ MissRepository(j) \/ EnforceAlone(j) PROVE EarlyOnes'
  <2>1. j \in early
    BY <1>6 DEF EarlyOnes, MissLimiter, MissRepository, EnforceAlone
  <2>2. UNCHANGED <<early, limiter, repository>>
    BY <1>6 DEF MissLimiter, MissRepository, EnforceAlone, limitVars, repositoryVars
  <2>3. \A i \in Jobs \ {j} : checks'[i] = checks[i]
    BY <1>6 DEF MissLimiter, MissRepository, EnforceAlone, limitVars, ApiTypeOK
  <2>4. \A i \in Jobs \ {j} : calls'[i] = calls[i]
    BY <1>6, CheckingDoes DEF Checking
  <2> QED BY <2>1, <2>2, <2>3, <2>4 DEF EarlyOnes
<1>7. ASSUME NEW j \in Jobs, MakeLimiter(j) \/ MakeRepository(j) PROVE EarlyOnes'
  <2>1. j \in early
    BY <1>7 DEF EarlyOnes, MakeLimiter, MakeRepository
  <2>2. Checking(j) /\ checks' = checks
    BY <1>7 DEF MakeLimiter, MakeRepository, Checking, limitVars
  <2>3. early' = early /\ \A i \in Jobs \ {j} : calls'[i] = calls[i]
    BY <2>2, CheckingDoes
  <2>4. (limiter => limiter') /\ (repository => repository')
    BY <2>2, CheckingDoes, Zenon
  <2> QED BY <2>1, <2>2, <2>3, <2>4 DEF EarlyOnes
<1>8. ASSUME NEW j \in Jobs, Enforce(j) PROVE EarlyOnes'
  <2>1. /\ UNCHANGED <<early, limiter, repository>> /\ calls[j].pc = "limit"
        /\ calls'[j].pc \in {"store", "done"}
        /\ \A i \in Jobs \ {j} : calls'[i] = calls[i] /\ checks'[i] = checks[i]
        /\ checks'[j].alone = FALSE
    <3>1. UNCHANGED <<early, limiter, repository>> /\ calls[j].pc = "limit"
      BY <1>8 DEF Enforce, repositoryVars
    <3>2. GoesTo(j, "store") \/ Answers(j, 429)
      BY <1>8 DEF Enforce
    <3> DEFINE note == [allowed |-> CurrentWindow(calls[j].key).count < MaxRequests, alone |-> FALSE,
                        key |-> calls[j].key, start |-> CurrentWindow(calls[j].key).start]
    <3>3. checks' = [checks EXCEPT ![j] = note]
      BY <1>8, LimiterType
    <3>4. note.alone = FALSE
      BY Zenon
    <3> HIDE DEF note
    <3> QED BY <3>1, <3>2, <3>3, <3>4 DEF GoesTo, Answers, At, ApiTypeOK
  <2> QED BY <2>1 DEF EarlyOnes
<1>9. ASSUME NEW n \in since .. settings, AskElsewhere(n) \/ \E key \in Keys : Get(key, n)
      PROVE  EarlyOnes'
  BY <1>1, <1>9, ElsewhereDoes DEF limitVars
<1>10. CASE Redeploy
  <2>1. IsFiniteSet(early')
    BY <1>10, RedeployDoes, FS_EmptySet
  <2>2. \A j \in Jobs : calls'[j].pc = "idle" /\ checks'[j] = NotChecked
    BY <1>10, RedeployDoes
  <2> QED BY <2>1, <2>2, NotCheckedSays DEF EarlyOnes
<1>11. CASE UNCHANGED <<calls, checks, limiter, repository, early>>
  BY <1>11 DEF EarlyOnes
<1>12. ASSUME NEW j \in Jobs, Work(j) PROVE UNCHANGED <<calls, checks, limiter, repository, early>>
  BY <1>12 DEF Work, limitVars, repositoryVars
<1>13. CASE Reconfigure \/ Tick \/ UNCHANGED apiVars
  BY <1>11, <1>13 DEF Reconfigure, Tick, apiVars, limitVars, repositoryVars
<1> QED BY <1>2, <1>3, <1>4, <1>5, <1>6, <1>7, <1>8, <1>9, <1>10, <1>11, <1>12, <1>13, ServeParts
        DEF ApiNext, Checking

\* Whoever uses a limiter or a repository of its own is one of them.
LEMMA EarlyKept == ApiSpec => []EarlyOnes
<1>1. ApiInit => EarlyOnes
  <2> SUFFICES ASSUME ApiInit PROVE EarlyOnes
    OBVIOUS
  <2>1. IsFiniteSet(early)
    BY FS_EmptySet DEF ApiInit
  <2>2. \A j \in Jobs : calls[j].pc = "idle" /\ checks[j] = NotChecked
    BY DEF ApiInit
  <2> QED BY <2>1, <2>2, NotCheckedSays DEF EarlyOnes
<1> QED BY <1>1, EarlyStep, ApiTypeCorrect, PTL DEF ApiSpec
----------------------------------------------------------------------------
(***************************************************************************)
(* Answers and what they say of the jobs.                                  *)
(***************************************************************************)

\* A step keeps the answers true.
LEMMA AnswersStep ==
  ASSUME TypeOK, ApiTypeOK, PendingHasTask, EarlyOnes, AnswersAreTrue, [ApiNext]_apiVars
  PROVE  AnswersAreTrue'
<1>1. ASSUME NEW j \in Jobs, UNCHANGED <<store, shared, requests>>, early \subseteq early',
             \A i \in Jobs \ {j} : calls'[i] = calls[i],
             ~(calls[j].pc = "done" /\ calls[j].status = 202),
             ~(calls'[j].pc = "done" /\ calls'[j].status = 202)
      PROVE  AnswersAreTrue'
  BY <1>1 DEF AnswersAreTrue
<1>2. ASSUME NEW j \in Jobs, NEW key \in Keys \cup {NoKey}, Arrive(j, key) PROVE AnswersAreTrue'
  <2>1. UNCHANGED <<store, shared, requests>> /\ early \subseteq early'
    BY <1>2 DEF Arrive, vars
  <2>2. calls[j].pc = "idle" /\ calls'[j].pc = "authenticate" /\ \A i \in Jobs \ {j} : calls'[i] = calls[i]
    BY <1>2 DEF Arrive, ApiTypeOK
  <2> QED BY <1>1, <2>1, <2>2
<1>3. ASSUME NEW j \in Jobs, ArriveUnreadable(j) PROVE AnswersAreTrue'
  BY <1>1, <1>3 DEF ArriveUnreadable, vars, repositoryVars, ApiTypeOK
<1>4. ASSUME NEW j \in Jobs, Asking(j) PROVE AnswersAreTrue'
  <2>1. UNCHANGED <<store, shared, requests, early>>
    BY <1>4, AskingDoes DEF vars, repositoryVars
  <2>2. /\ calls[j].pc # "done" /\ \A i \in Jobs \ {j} : calls'[i] = calls[i]
        /\ ~(calls'[j].pc = "done" /\ calls'[j].status = 202)
    <3>1. /\ \/ calls'[j].pc \in {"loaded", "limit"}
             \/ calls'[j].pc = "done" /\ calls'[j].status \in {401, 403}
          /\ calls[j].pc \in {"authenticate", "loaded"}
          /\ \A i \in Jobs \ {j} : calls'[i] = calls[i]
      BY <1>4, AskingDoes, ZenonT(60)
    <3> QED BY <3>1
  <2> QED BY <1>1, <2>1, <2>2
<1>5. ASSUME NEW j \in Jobs, Checking(j) PROVE AnswersAreTrue'
  <2>1. UNCHANGED <<store, shared, requests, early>>
    BY <1>5, CheckingDoes DEF vars
  <2>2. /\ calls[j].pc # "done" /\ \A i \in Jobs \ {j} : calls'[i] = calls[i]
        /\ ~(calls'[j].pc = "done" /\ calls'[j].status = 202)
    <3>1. /\ \/ calls'[j].pc \in PastRoleCheck
             \/ calls'[j].pc = "done" /\ calls'[j].status = 429
          /\ calls[j].pc \in PastRoleCheck
          /\ \A i \in Jobs \ {j} : calls'[i] = calls[i]
      BY <1>5, CheckingDoes
    <3>2. "done" \notin PastRoleCheck
      BY DEF PastRoleCheck
    <3> QED BY <3>1, <3>2
  <2> QED BY <1>1, <2>1, <2>2
<1>6. ASSUME NEW j \in Jobs, Handle(j) PROVE AnswersAreTrue'
  <2>1. /\ early' = early /\ calls[j].pc # "done" /\ calls'[j].pc = "done"
        /\ \A i \in Jobs \ {j} : calls'[i] = calls[i]
    BY <1>6, HandleDoes DEF repositoryVars, PastRoleCheck
  <2>2. CASE vars' = vars /\ calls'[j].status = 422
    BY <1>1, <2>1, <2>2 DEF vars
  <2>3. ASSUME NEW kept \in BOOLEAN, kept = (calls[j].pc = "store"), Submit(j, kept),
               calls'[j].status = 202
        PROVE  AnswersAreTrue'
    <3>1. /\ store'[j] # Absent /\ requests' = requests
          /\ shared' = (IF kept THEN shared \cup {j} ELSE shared)
          /\ \A i \in Jobs \ {j} : store'[i] = store[i]
      BY <2>3, StatesType DEF Submit, TypeOK
    <3>2. ~kept => j \in early
      <4>1. calls[j].pc = "store alone" \/ calls[j].pc = "store"
        BY <1>6, HandleDoes
      <4> QED BY <2>3, <4>1 DEF EarlyOnes
    <3> QED BY <2>1, <2>3, <3>1, <3>2 DEF AnswersAreTrue
  <2>4. \/ \E kept \in BOOLEAN : kept = (calls[j].pc = "store") /\ Submit(j, kept) /\ calls'[j].status = 202
        \/ vars' = vars /\ calls'[j].status = 422
    BY <1>6, HandleDoes, ZenonT(60)
  <2> QED BY <2>2, <2>3, <2>4
<1>7. ASSUME NEW j \in Jobs, Work(j) PROVE AnswersAreTrue'
  <2>1. calls' = calls /\ early' = early /\ Run(j)
    BY <1>7 DEF Work, repositoryVars
  <2>2. store[j] # Absent
    BY <2>1, StatesType DEF PendingHasTask, Run, Start, Send, Retry, Succeed, GiveUp,
       TransportFails, WrongShape, Unexpected, Answered
  <2>3. shared' = shared /\ \A i \in Jobs : store'[i] # Absent <=> store[i] # Absent
    <3>1. ASSUME NEW job \in Ends, Finish(j, job)
          PROVE  shared' = shared /\ \A i \in Jobs : store'[i] # Absent <=> store[i] # Absent
      BY <2>2, <3>1, StatesType DEF Finish, TypeOK
    <3> QED BY <2>1, <3>1, RunShape
  <2>4. \A i \in Jobs \ {j} : requests'[i] = requests[i]
    <3>1. ASSUME NEW job, Finish(j, job) PROVE requests' = requests
      BY <3>1 DEF Finish
    <3> QED BY <2>1, <3>1
            DEF TypeOK, Run, Start, Send, Retry, Succeed, GiveUp, TransportFails, WrongShape, Unexpected
  <2> QED BY <2>1, <2>2, <2>3, <2>4 DEF AnswersAreTrue
<1>8. CASE Redeploy
  BY <1>8, RedeployDoes DEF AnswersAreTrue
<1>9. ASSUME NEW n \in since .. settings, AskElsewhere(n) \/ \E key \in Keys : Get(key, n)
      PROVE  UNCHANGED <<vars, early, calls>>
  BY <1>9, ElsewhereDoes
<1>10. CASE Reconfigure \/ Tick \/ UNCHANGED apiVars
  BY <1>10 DEF Reconfigure, Tick, apiVars, vars, repositoryVars, AnswersAreTrue
<1>11. CASE UNCHANGED <<vars, early, calls>>
  BY <1>11 DEF vars, AnswersAreTrue
<1> QED BY <1>2, <1>3, <1>4, <1>5, <1>6, <1>7, <1>8, <1>9, <1>10, <1>11, ServeParts DEF ApiNext

\* A job is in a store of the process exactly when its request was answered 202, and
\* where a GET finds it unless the request was one of the first, whatever overlaps
\* and fails.
THEOREM AnswersTold == ApiSpec => []AnswersAreTrue
<1>1. ApiInit => AnswersAreTrue
  BY DEF ApiInit, Init, AnswersAreTrue
<1> QED BY <1>1, AnswersStep, EarlyKept, ApiTypeCorrect, JobsKept, PTL DEF ApiSpec
----------------------------------------------------------------------------
(***************************************************************************)
(* Verdicts and the settings they come from.                               *)
(***************************************************************************)
OfThisLife(role_keys) ==
  \E n \in since .. settings : role_keys = LoadRoleKeys(Deployments[n])

TablesOfThisLife ==
  /\ table.loaded => OfThisLife(table.role_keys)
  /\ \A j \in Jobs : calls[j].pc = "loaded" => OfThisLife(calls[j].role_keys)

\* Deployment n answers this status to this key, 200 meaning that it lets it in.
Fits(key, status, n) ==
  LET s == Deployments[n] IN
  /\ status = 401 => key \notin s.analysts \cup s.officers
  /\ status = 403 => key \in s.officers
  /\ status \notin {401, 403} => key \in s.analysts \ s.officers

StatusNow(call) == IF call.pc = "done" THEN call.status ELSE 200

\* A verdict from a table of this life fits some settings of this life.
LEMMA VerdictFits ==
  ASSUME ApiTypeOK, NEW role_keys, OfThisLife(role_keys), NEW key
  PROVE  \E n \in since .. settings : Fits(key, Admission(role_keys, key, "submit_extraction"), n)
<1>1. PICK n \in since .. settings : role_keys = LoadRoleKeys(Deployments[n])
  BY DEF OfThisLife
<1>2. Deployments[n] \in Settings
  BY InForce
<1>3. role_keys \in RoleKeys
  BY <1>1, <1>2, RoleTable
<1>4. Fits(key, Judge(role_keys, key, {"loan_operations_analyst"}), n)
  <2> DEFINE s == Deployments[n]
  <2>1. /\ DOMAIN role_keys = s.analysts \cup s.officers
        /\ \A k \in s.analysts \cup s.officers :
             role_keys[k] = "loan_operations_analyst" <=> k \notin s.officers
    BY <1>1, <1>2, RoleTable
  <2>2. CASE key \notin DOMAIN role_keys
    BY <2>1, <2>2 DEF Judge, Fits
  <2>3. CASE key \in DOMAIN role_keys
    BY <2>1, <2>3 DEF Judge, Fits
  <2> QED BY <2>2, <2>3
<1> QED BY <1>3, <1>4, AdmissionToSubmit

\* A request without a key fits any settings as a 401.
LEMMA AnonymousFits ==
  ASSUME ApiTypeOK
  PROVE  \E n \in since .. settings : Fits(NoKey, 401, n)
<1>1. settings \in since .. settings
  BY TableType
<1>2. NoKey \notin Deployments[settings].analysts \cup Deployments[settings].officers
  BY <1>1, InForce, AccessAssumption DEF Settings
<1> QED BY <1>1, <1>2 DEF Fits

Fitting(j) ==
  calls[j].pc \in PastRoleCheck \cup {"done"} =>
    \E n \in since .. settings : Fits(calls[j].key, StatusNow(calls[j]), n)

Verdicts == \A j \in Jobs : Fitting(j)

\* The property, by the verdicts of the calls.
LEMMA VerdictsAreFits == VerdictOfThisLife <=> Verdicts
  BY DEF VerdictOfThisLife, Verdicts, Fitting, Fits, StatusNow

LEMMA Outside ==
  \A pc \in {"idle", "unread", "authenticate", "loaded", "done"} : pc \notin PastRoleCheck
  BY DEF PastRoleCheck

\* A step of the role check keeps tables and verdicts in the life they belong to.
LEMMA AskingVerdict ==
  ASSUME ApiTypeOK, TablesOfThisLife, Verdicts, NEW j \in Jobs, Asking(j)
  PROVE  TablesOfThisLife' /\ Verdicts'
<1> USE DEF Verdicts, Fitting
<1>1. UNCHANGED <<settings, since>> /\ \A i \in Jobs \ {j} : calls'[i] = calls[i]
  BY AskingDoes
<1>2. ASSUME calls'[j].pc # "loaded", table' = table \/ \E role_keys \in RoleKeys :
               OfThisLife(role_keys) /\ table' = Table(role_keys),
             \E n \in since .. settings : Fits(calls'[j].key, StatusNow(calls'[j]), n)
      PROVE  TablesOfThisLife' /\ Verdicts'
  <2>1. TablesOfThisLife'
    BY <1>1, <1>2 DEF TablesOfThisLife, OfThisLife, Table
  <2>2. \A i \in Jobs : Fitting(i)'
    BY <1>1, <1>2 DEF Fits, StatusNow
  <2> QED BY <2>1, <2>2
<1>3. ASSUME NEW role_keys \in RoleKeys, OfThisLife(role_keys), calls[j].key \in Keys,
             Verdict(j, role_keys), table' = table \/ table' = Table(role_keys)
      PROVE  TablesOfThisLife' /\ Verdicts'
  <2>1. /\ calls'[j].key = calls[j].key /\ calls'[j].pc # "loaded"
        /\ StatusNow(calls'[j]) = Admission(role_keys, calls[j].key, "submit_extraction")
    BY <1>3, VerdictType DEF StatusNow
  <2>2. \E n \in since .. settings : Fits(calls'[j].key, StatusNow(calls'[j]), n)
    BY <1>3, <2>1, VerdictFits
  <2> QED BY <1>2, <1>3, <2>1, <2>2
<1>4. CASE Anonymous(j)
  <2>1. /\ calls'[j].key = NoKey /\ calls'[j].pc # "loaded" /\ StatusNow(calls'[j]) = 401
        /\ table' = table
    BY <1>4, AnsweredType DEF Anonymous, accessVars, StatusNow
  <2> QED BY <1>2, <2>1, AnonymousFits
<1>5. CASE Authenticate(j)
  <2>1. table.role_keys \in RoleKeys /\ OfThisLife(table.role_keys) /\ table' = table
    BY <1>5, TableType DEF Authenticate, TablesOfThisLife, accessVars
  <2>2. calls[j].key \in Keys
    BY <1>5, CallType DEF Authenticate
  <2> QED BY <1>3, <1>5, <2>1, <2>2 DEF Authenticate
<1>6. CASE LoadTable(j)
  <2>1. /\ calls'[j].pc = "loaded" /\ table' = table
        /\ calls'[j].role_keys = LoadRoleKeys(Deployments[settings])
    BY <1>6 DEF LoadTable, accessVars, ApiTypeOK
  <2>2. settings \in since .. settings
    BY TableType
  <2>3. TablesOfThisLife'
    BY <1>1, <2>1, <2>2 DEF TablesOfThisLife, OfThisLife
  <2>4. \A i \in Jobs : Fitting(i)'
    BY <1>1, <2>1, Outside DEF Fits, StatusNow
  <2> QED BY <2>3, <2>4
<1>7. CASE CacheTable(j)
  <2>1. calls[j].key \in Keys /\ calls[j].role_keys \in RoleKeys /\ OfThisLife(calls[j].role_keys)
    BY <1>7, CallType DEF CacheTable, TablesOfThisLife
  <2> QED BY <1>3, <1>7, <2>1 DEF CacheTable
<1> QED BY <1>4, <1>5, <1>6, <1>7 DEF Asking

\* So does every other step.
LEMMA VerdictStep ==
  ASSUME ApiTypeOK, TablesOfThisLife, Verdicts, [ApiNext]_apiVars
  PROVE  TablesOfThisLife' /\ Verdicts'
<1> USE DEF Verdicts, Fitting
<1>1. ASSUME NEW j \in Jobs, Checking(j) \/ Handle(j) PROVE TablesOfThisLife' /\ Verdicts'
  <2>1. /\ UNCHANGED <<settings, since, table>> /\ calls[j].pc \in PastRoleCheck
        /\ \A i \in Jobs \ {j} : calls'[i] = calls[i]
        /\ calls'[j].key = calls[j].key
        /\ \/ calls'[j].pc \in PastRoleCheck
           \/ calls'[j].pc = "done" /\ calls'[j].status \in {202, 422, 429}
    <3>1. CASE Checking(j)
      BY <3>1, CheckingDoes DEF accessVars
    <3>2. CASE Handle(j)
      <4>1. /\ UNCHANGED accessVars /\ calls[j].pc \in PastRoleCheck
            /\ \A i \in Jobs \ {j} : calls'[i] = calls[i]
            /\ calls'[j].key = calls[j].key /\ calls'[j].pc = "done"
        BY <3>2, HandleDoes, ZenonT(60)
      <4>2. calls'[j].status = 202 \/ calls'[j].status = 422
        BY <3>2, HandleDoes, Zenon
      <4> QED BY <4>1, <4>2 DEF accessVars
    <3> QED BY <1>1, <3>1, <3>2
  <2>2. /\ "done" \notin PastRoleCheck /\ "loaded" \notin PastRoleCheck
        /\ StatusNow(calls[j]) = 200 /\ StatusNow(calls'[j]) \in {200, 202, 422, 429}
    BY <2>1, Outside DEF StatusNow
  <2>3. TablesOfThisLife'
    BY <2>1, <2>2 DEF TablesOfThisLife, OfThisLife
  <2>4. Fitting(j)'
    <3>1. PICK n \in since .. settings : Fits(calls[j].key, 200, n)
      BY <2>1, <2>2
    <3>2. Fits(calls[j].key, StatusNow(calls'[j]), n)
      <4> HIDE DEF StatusNow
      <4> QED BY <2>2, <3>1 DEF Fits
    <3>3. n \in since' .. settings' /\ Fits(calls'[j].key, StatusNow(calls'[j]), n)
      BY <2>1, <2>2, <3>2
    <3> QED BY <3>3 DEF Fits, StatusNow
  <2>5. \A i \in Jobs \ {j} : Fitting(i)'
    BY <2>1 DEF Fits, StatusNow
  <2> QED BY <2>3, <2>4, <2>5
<1>2. ASSUME NEW j \in Jobs, ArriveUnreadable(j) \/ \E key \in Keys \cup {NoKey} : Arrive(j, key)
      PROVE  TablesOfThisLife' /\ Verdicts'
  <2>1. /\ \A i \in Jobs \ {j} : calls'[i] = calls[i]
        /\ calls'[j].pc \in {"authenticate", "unread"}
        /\ UNCHANGED <<settings, since, table>>
    BY <1>2 DEF Arrive, ArriveUnreadable, accessVars, ApiTypeOK
  <2>2. TablesOfThisLife'
    BY <2>1 DEF TablesOfThisLife, OfThisLife
  <2>3. \A i \in Jobs : Fitting(i)'
    BY <2>1, Outside DEF Fits, StatusNow
  <2> QED BY <2>2, <2>3
<1>3. ASSUME NEW n \in since .. settings, AskElsewhere(n) \/ \E key \in Keys : Get(key, n)
      PROVE  TablesOfThisLife' /\ Verdicts'
  <2>1. /\ calls' = calls /\ UNCHANGED <<settings, since>>
        /\ \/ table.loaded /\ table' = Table(table.role_keys)
           \/ table' = Table(LoadRoleKeys(Deployments[n]))
    BY <1>3, ElsewhereDoes
  <2>2. TablesOfThisLife'
    BY <2>1 DEF TablesOfThisLife, OfThisLife, Table
  <2>3. \A i \in Jobs : Fitting(i)'
    BY <2>1 DEF Fits, StatusNow
  <2> QED BY <2>2, <2>3
<1>4. CASE Reconfigure
  <2>1. /\ calls' = calls /\ UNCHANGED <<since, table>>
        /\ \A n \in since .. settings : n \in since' .. settings'
    BY <1>4, ApiAssumption DEF Reconfigure, ApiTypeOK
  <2>2. TablesOfThisLife'
    BY <2>1 DEF TablesOfThisLife, OfThisLife
  <2>3. \A i \in Jobs : Fitting(i)'
    BY <2>1 DEF Fits, StatusNow
  <2> QED BY <2>2, <2>3
<1>5. CASE Redeploy
  <2>1. table' = Unloaded /\ \A j \in Jobs : calls'[j].pc = "idle"
    BY <1>5, RedeployDoes
  <2>2. TablesOfThisLife'
    BY <2>1 DEF TablesOfThisLife, Unloaded
  <2>3. \A i \in Jobs : Fitting(i)'
    BY <2>1, Outside
  <2> QED BY <2>2, <2>3
<1>6. CASE UNCHANGED <<calls, settings, since, table>>
  <2>1. \A i \in Jobs : Fitting(i)'
    BY <1>6 DEF Fits, StatusNow
  <2> QED BY <1>6, <2>1 DEF TablesOfThisLife, OfThisLife
<1>7. ASSUME NEW j \in Jobs, Work(j) PROVE UNCHANGED <<calls, settings, since, table>>
  BY <1>7 DEF Work, accessVars
<1>8. CASE Tick \/ UNCHANGED apiVars
  BY <1>6, <1>8 DEF Tick, apiVars, accessVars
<1> QED BY <1>1, <1>2, <1>3, <1>4, <1>5, <1>7, <1>6, <1>8, AskingVerdict, ServeParts DEF ApiNext

\* No verdict outlives the settings of the process that gave it.
THEOREM VerdictsInTime == ApiSpec => []VerdictOfThisLife
<1>1. ApiInit => TablesOfThisLife /\ Verdicts
  <2> SUFFICES ASSUME ApiInit PROVE TablesOfThisLife /\ Verdicts
    OBVIOUS
  <2>1. table.loaded = FALSE /\ \A j \in Jobs : calls[j].pc = "idle"
    BY Zenon DEF ApiInit, Unloaded
  <2> QED BY <2>1, Outside DEF TablesOfThisLife, Verdicts, Fitting
<1> QED BY <1>1, VerdictStep, VerdictsAreFits, ApiTypeCorrect, PTL DEF ApiSpec
----------------------------------------------------------------------------
(***************************************************************************)
(* The books of the limiter.                                               *)
(***************************************************************************)

\* Charged, of the notes of this or of the next state.
ChargedIn(notes, k, start) ==
  {j \in Jobs : notes[j] = [allowed |-> TRUE, alone |-> FALSE, key |-> k, start |-> start]}

\* What was charged to a window never exceeds the quota, ...
WithinQuota ==
  \A k \in Keys, start \in Nat :
    IsFiniteSet(ChargedIn(checks, k, start)) /\ Cardinality(ChargedIn(checks, k, start)) <= MaxRequests

\* ... the window in force counts just what was charged to it, ...
CountIsCharged ==
  \A k \in Keys :
    /\ windows[k].start <= now
    /\ Cardinality(ChargedIn(checks, k, windows[k].start)) = windows[k].count

\* ... and nothing was charged to a later one.
NoneCharged ==
  \A j \in Jobs : checks[j].allowed /\ ~checks[j].alone =>
    checks[j].start <= windows[checks[j].key].start /\ windows[checks[j].key].count > 0

\* Where a request has not been checked yet.
Unchecked ==
  {"idle", "unread", "authenticate", "loaded", "limit", "making limiter", "limit alone"}

LEMMA Sides ==
  /\ \A pc \in {"idle", "unread", "authenticate", "loaded", "limit", "limit alone"} : pc \in Unchecked
  /\ \A pc \in {"store", "done"} : pc \notin Unchecked
  BY DEF Unchecked

NotedOnce ==
  \A j \in Jobs :
    /\ calls[j].pc \in Unchecked => checks[j] = NotChecked
    /\ calls[j].pc = "done" /\ calls[j].status = 429 => checks[j] \in Checked

Earned ==
  \A j \in Jobs : calls[j].pc = "done" /\ calls[j].status = 429 =>
    Cardinality(ChargedIn(checks, checks[j].key, checks[j].start)) = MaxRequests

\* The property, by the refusals of the calls.
LEMMA RefusedIsEarned == RefusedByOwnRequests <=> Earned
  BY DEF RefusedByOwnRequests, Earned, Charged, ChargedIn

Books == WithinQuota /\ CountIsCharged /\ NoneCharged /\ NotedOnce /\ Earned

\* The window that check() works with counts what was charged to it, be it the
\* stored one or a new one.
LEMMA CurrentIsCharged ==
  ASSUME ApiTypeOK, Books, NEW k \in Keys
  PROVE  LET w == CurrentWindow(k) IN
         /\ w \in [start : 0 .. MaxTime, count : 0 .. MaxRequests]
         /\ windows[k].start <= w.start /\ w.start <= now
         /\ Cardinality(ChargedIn(checks, k, w.start)) = w.count
<1> DEFINE w == CurrentWindow(k)
<1>1. /\ windows[k] \in [start : 0 .. MaxTime, count : 0 .. MaxRequests]
      /\ now \in 0 .. MaxTime /\ MaxTime \in Nat /\ MaxRequests \in Nat /\ Window \in Nat \ {0}
  BY ApiAssumption DEF ApiTypeOK
<1>2. windows[k].start <= now /\ Cardinality(ChargedIn(checks, k, windows[k].start)) = windows[k].count
  BY DEF Books, CountIsCharged
<1>3. CASE windows[k].count = 0 \/ now - windows[k].start >= Window
  <2>1. w.start = now /\ w.count = 0 /\ w = [start |-> now, count |-> 0]
    BY <1>3 DEF CurrentWindow
  <2>2. ASSUME NEW j \in ChargedIn(checks, k, now) PROVE FALSE
    <3>1. j \in Jobs /\ checks[j].allowed /\ ~checks[j].alone
          /\ checks[j].key = k /\ checks[j].start = now
      BY <2>2 DEF ChargedIn
    <3>2. now <= windows[k].start /\ windows[k].count > 0
      BY <3>1 DEF Books, NoneCharged
    <3> QED BY <1>1, <1>3, <3>2
  <2>3. Cardinality(ChargedIn(checks, k, now)) = 0
    BY <2>2, FS_EmptySet
  <2> QED BY <1>1, <1>2, <2>1, <2>3
<1>4. CASE ~(windows[k].count = 0 \/ now - windows[k].start >= Window)
  <2>1. w = windows[k]
    BY <1>4 DEF CurrentWindow
  <2> QED BY <1>1, <1>2, <2>1
<1> QED BY <1>3, <1>4

\* A check keeps the books.
LEMMA EnforceBooks ==
  ASSUME ApiTypeOK, Books, NEW j \in Jobs, Enforce(j)
  PROVE  Books'
<1> DEFINE k == calls[j].key
           w == CurrentWindow(k)
           note == [allowed |-> w.count < MaxRequests, alone |-> FALSE, key |-> k, start |-> w.start]
<1>1. /\ k \in Keys /\ w \in [start : 0 .. MaxTime, count : 0 .. MaxRequests]
      /\ checks' = [checks EXCEPT ![j] = note]
      /\ w.count < MaxRequests =>
           windows' = [windows EXCEPT ![k] = [start |-> w.start, count |-> w.count + 1]]
      /\ w.count = MaxRequests => windows' = windows
  BY LimiterType
<1>2. /\ windows[k].start <= w.start /\ w.start <= now
      /\ Cardinality(ChargedIn(checks, k, w.start)) = w.count
  BY <1>1, CurrentIsCharged
<1>3. /\ now' = now /\ MaxRequests \in Nat
      /\ checks[j] = NotChecked /\ MaxTime \in Nat /\ now \in 0 .. MaxTime
      /\ windows \in [Keys -> [start : 0 .. MaxTime, count : 0 .. MaxRequests]]
      /\ checks \in [Jobs -> {NotChecked} \cup Checked]
      /\ calls \in [Jobs -> CallStates]
  BY ApiAssumption DEF Enforce, ApiTypeOK, Books, NotedOnce, Unchecked
<1>4. w.count < MaxRequests => GoesTo(j, "store")
  BY LimiterType
<1>5. w.count = MaxRequests => Answers(j, 429)
  BY LimiterType
<1>6. note \in Checked
  BY <1>1, <1>3 DEF Checked
<1> HIDE DEF w
<1>7. CASE w.count < MaxRequests
  <2>1. note = [allowed |-> TRUE, alone |-> FALSE, key |-> k, start |-> w.start]
    BY <1>7
  <2>2. ChargedIn(checks', k, w.start) = ChargedIn(checks, k, w.start) \cup {j}
    BY <1>1, <1>3, <2>1 DEF ChargedIn
  <2>3. j \notin ChargedIn(checks, k, w.start)
    BY <1>3 DEF ChargedIn, NotChecked
  <2>4. \A key \in Keys : \A start \in Nat :
          <<key, start>> # <<k, w.start>> =>
            ChargedIn(checks', key, start) = ChargedIn(checks, key, start)
    BY <1>1, <1>3, <2>1 DEF ChargedIn, NotChecked
  <2>5. w.start \in Nat /\ IsFiniteSet(ChargedIn(checks, k, w.start))
    BY <1>1, <1>3 DEF Books, WithinQuota
  <2>6. /\ IsFiniteSet(ChargedIn(checks', k, w.start))
        /\ Cardinality(ChargedIn(checks', k, w.start)) = w.count + 1
    BY <1>2, <2>2, <2>3, <2>5, FS_AddElement
  <2>7. WithinQuota'
    <3> SUFFICES ASSUME NEW key \in Keys, NEW start \in Nat
                 PROVE  /\ IsFiniteSet(ChargedIn(checks', key, start))
                        /\ Cardinality(ChargedIn(checks', key, start)) <= MaxRequests
      BY DEF WithinQuota
    <3>1. CASE key = k /\ start = w.start
      BY <1>1, <1>3, <1>7, <2>6, <3>1
    <3>2. CASE ~(key = k /\ start = w.start)
      <4>1. ChargedIn(checks', key, start) = ChargedIn(checks, key, start)
        BY <2>4, <3>2
      <4> QED BY <4>1 DEF Books, WithinQuota
    <3> QED BY <3>1, <3>2
  <2>8. CountIsCharged'
    <3> SUFFICES ASSUME NEW key \in Keys
                 PROVE  /\ windows'[key].start <= now'
                        /\ Cardinality(ChargedIn(checks', key, windows'[key].start)) =
                             windows'[key].count
      BY DEF CountIsCharged
    <3>1. CASE key = k
      <4>1. windows'[key].start = w.start /\ windows'[key].count = w.count + 1
        BY <1>1, <1>3, <1>7, <3>1
      <4> QED BY <1>2, <1>3, <2>6, <3>1, <4>1
    <3>2. CASE key # k
      <4>1. windows'[key] = windows[key] /\ windows[key].start \in Nat
        BY <1>1, <1>3, <1>7, <3>2
      <4>2. ChargedIn(checks', key, windows[key].start) = ChargedIn(checks, key, windows[key].start)
        BY <1>3, <2>4, <3>2, <4>1
      <4> QED BY <1>3, <4>1, <4>2 DEF Books, CountIsCharged
    <3> QED BY <3>1, <3>2
  <2>9. NoneCharged'
    BY <1>1, <1>2, <1>3, <1>7, <2>1 DEF Books, NoneCharged, Checked, NotChecked
  <2>10. /\ \A i \in Jobs \ {j} : calls'[i] = calls[i] /\ checks'[i] = checks[i]
         /\ calls'[j].pc = "store"
    BY <1>1, <1>3, <1>4, <1>7 DEF GoesTo, At
  <2>11. NotedOnce'
    <3>1. calls'[j].pc \notin Unchecked
      BY <2>10, Sides
    <3> QED BY <2>10, <3>1 DEF Books, NotedOnce
  <2>12. Earned'
    <3> SUFFICES ASSUME NEW i \in Jobs, calls'[i].pc = "done", calls'[i].status = 429
                 PROVE  Cardinality(ChargedIn(checks', checks'[i].key, checks'[i].start)) = MaxRequests
      BY DEF Earned
    <3>1. /\ i # j /\ checks'[i] = checks[i] /\ checks[i] \in Checked
          /\ Cardinality(ChargedIn(checks, checks[i].key, checks[i].start)) = MaxRequests
      BY <2>10 DEF Books, NotedOnce, Earned
    <3>2. <<checks[i].key, checks[i].start>> # <<k, w.start>>
      BY <1>2, <1>7, <1>1, <1>3, <3>1
    <3>3. ChargedIn(checks', checks[i].key, checks[i].start) =
            ChargedIn(checks, checks[i].key, checks[i].start)
      BY <2>4, <3>1, <3>2 DEF Checked
    <3> QED BY <3>1, <3>3
  <2> QED BY <2>7, <2>8, <2>9, <2>11, <2>12 DEF Books
<1>8. CASE w.count = MaxRequests
  <2>1. note = [allowed |-> FALSE, alone |-> FALSE, key |-> k, start |-> w.start] /\ windows' = windows
    <3>1. (w.count < MaxRequests) = FALSE
      BY <1>3, <1>8
    <3> QED BY <1>1, <1>8, <3>1
  <2>2. \A key, start : ChargedIn(checks', key, start) = ChargedIn(checks, key, start)
    BY <1>1, <1>3, <2>1 DEF ChargedIn, NotChecked
  <2>3. /\ \A i \in Jobs \ {j} : calls'[i] = calls[i] /\ checks'[i] = checks[i]
        /\ calls'[j].pc = "done" /\ checks'[j] = note
    BY <1>1, <1>3, <1>5, <1>8 DEF Answers
  <2>4. WithinQuota' /\ CountIsCharged'
    BY <1>3, <2>1, <2>2 DEF Books, WithinQuota, CountIsCharged
  <2>5. NoneCharged' /\ NotedOnce'
    <3>1. NoneCharged'
      BY <1>3, <2>1, <2>3 DEF Books, NoneCharged
    <3>2. checks'[j] \in Checked
      BY <1>6, <2>3
    <3>3. calls'[j].pc \notin Unchecked
      BY <2>3, Sides
    <3>4. NotedOnce'
      BY <2>3, <3>2, <3>3 DEF Books, NotedOnce
    <3> QED BY <3>1, <3>4
  <2>6. Earned'
    <3>1. ASSUME NEW i \in Jobs \ {j}, calls'[i].pc = "done", calls'[i].status = 429
          PROVE  Cardinality(ChargedIn(checks', checks'[i].key, checks'[i].start)) = MaxRequests
      BY <2>2, <2>3, <3>1 DEF Books, Earned
    <3>2. Cardinality(ChargedIn(checks', checks'[j].key, checks'[j].start)) = MaxRequests
      BY <1>2, <1>8, <2>2, <2>3
    <3> QED BY <3>1, <3>2 DEF Earned
  <2> QED BY <2>4, <2>5, <2>6 DEF Books
<1>9. w.count < MaxRequests \/ w.count = MaxRequests
  BY <1>1, <1>3
<1> QED BY <1>7, <1>8, <1>9

\* A check by a limiter that nobody else has charges no window; it refuses only
\* when the quota is zero.
LEMMA AloneBooks ==
  ASSUME ApiTypeOK, Books, NEW j \in Jobs, EnforceAlone(j)
  PROVE  Books'
<1> DEFINE note == [allowed |-> 0 < MaxRequests, alone |-> TRUE, key |-> calls[j].key, start |-> now]
<1>1. /\ checks' = [checks EXCEPT ![j] = note] /\ windows' = windows /\ calls[j].key \in Keys
      /\ calls[j].pc = "limit alone"
      /\ 0 < MaxRequests => GoesTo(j, "store")
      /\ ~(0 < MaxRequests) => Answers(j, 429)
  BY AloneType
<1>2. /\ now' = now /\ now \in Nat /\ MaxRequests \in Nat /\ checks[j] = NotChecked
      /\ checks \in [Jobs -> {NotChecked} \cup Checked] /\ calls \in [Jobs -> CallStates]
  <2>1. now' = now
    BY DEF EnforceAlone
  <2>2. checks[j] = NotChecked
    BY <1>1, Sides DEF Books, NotedOnce
  <2> QED BY <2>1, <2>2, ApiAssumption DEF ApiTypeOK
<1>3. note \in Checked /\ note.alone = TRUE /\ note.key = calls[j].key /\ note.start = now
  <2>1. (0 < MaxRequests) \in BOOLEAN /\ TRUE \in BOOLEAN
    OBVIOUS
  <2> DEFINE allowed == 0 < MaxRequests
  <2> HIDE DEF allowed
  <2>2. [allowed |-> allowed, alone |-> TRUE, key |-> calls[j].key, start |-> now] \in Checked
    BY <1>1, <1>2, <2>1 DEF Checked, allowed
  <2> QED BY <2>2 DEF allowed
<1>4. \A key, start : note # [allowed |-> TRUE, alone |-> FALSE, key |-> key, start |-> start]
  <2>1. ASSUME NEW key, NEW start,
               note = [allowed |-> TRUE, alone |-> FALSE, key |-> key, start |-> start]
        PROVE  FALSE
    <3>1. note.alone = FALSE
      <4> HIDE DEF note
      <4> QED BY <2>1, Zenon
    <3> QED BY <1>3, <3>1
  <2> QED BY <2>1
<1> HIDE DEF note
<1>5. \A key, start : NotChecked # [allowed |-> TRUE, alone |-> FALSE, key |-> key, start |-> start]
  BY DEF NotChecked
<1>6. \A key, start : ChargedIn(checks', key, start) = ChargedIn(checks, key, start)
  BY <1>1, <1>2, <1>4, <1>5 DEF ChargedIn
<1>7. /\ \A i \in Jobs \ {j} : calls'[i] = calls[i] /\ checks'[i] = checks[i]
      /\ checks'[j] = note
      /\ calls'[j].pc = "store" \/ (calls'[j].pc = "done" /\ ~(0 < MaxRequests))
  <2>1. \A i \in Jobs \ {j} : checks'[i] = checks[i]
    BY <1>1, <1>2
  <2>2. checks'[j] = note
    BY <1>1, <1>2
  <2>3. CASE GoesTo(j, "store")
    BY <1>2, <2>1, <2>2, <2>3 DEF GoesTo, At
  <2>4. CASE ~(0 < MaxRequests) /\ Answers(j, 429)
    BY <1>2, <2>1, <2>2, <2>4 DEF Answers
  <2> QED BY <1>1, <2>3, <2>4
<1>8. WithinQuota' /\ CountIsCharged'
  BY <1>1, <1>2, <1>6 DEF Books, WithinQuota, CountIsCharged
<1>9. NoneCharged'
  BY <1>1, <1>3, <1>7 DEF Books, NoneCharged
<1>10. NotedOnce'
  <2>1. calls'[j].pc \notin Unchecked
    BY <1>7, Sides
  <2> QED BY <1>3, <1>7, <2>1 DEF Books, NotedOnce
<1>11. Earned'
  <2>1. ASSUME NEW i \in Jobs \ {j}, calls'[i].pc = "done", calls'[i].status = 429
        PROVE  Cardinality(ChargedIn(checks', checks'[i].key, checks'[i].start)) = MaxRequests
    BY <1>6, <1>7, <2>1 DEF Books, Earned
  <2>2. ASSUME calls'[j].pc = "done"
        PROVE  Cardinality(ChargedIn(checks', checks'[j].key, checks'[j].start)) = MaxRequests
    <3>1. MaxRequests = 0
      BY <1>2, <1>7, <2>2
    <3>2. /\ IsFiniteSet(ChargedIn(checks, calls[j].key, now))
          /\ Cardinality(ChargedIn(checks, calls[j].key, now)) <= MaxRequests
      BY <1>1, <1>2 DEF Books, WithinQuota
    <3>3. Cardinality(ChargedIn(checks, calls[j].key, now)) = 0
      BY <3>1, <3>2, FS_CardinalityType
    <3> QED BY <1>3, <1>6, <1>7, <3>1, <3>3
  <2> QED BY <2>1, <2>2 DEF Earned
<1> QED BY <1>8, <1>9, <1>10, <1>11 DEF Books

\* The books of a process that has just begun.
LEMMA FirstBooks ==
  ASSUME checks = [j \in Jobs |-> NotChecked], windows = [k \in Keys |-> NoWindow],
         calls = [j \in Jobs |-> [pc |-> "idle"]], now >= 0
  PROVE  Books
<1>1. \A k, start : ChargedIn(checks, k, start) = {}
  BY DEF ChargedIn, NotChecked
<1>2. \A k, start : /\ IsFiniteSet(ChargedIn(checks, k, start))
                    /\ Cardinality(ChargedIn(checks, k, start)) = 0
  BY <1>1, FS_EmptySet
<1>3. WithinQuota
  BY <1>2, ApiAssumption DEF WithinQuota
<1>4. CountIsCharged
  BY <1>2 DEF CountIsCharged, NoWindow
<1>5. NoneCharged
  BY NotCheckedSays DEF NoneCharged
<1> QED BY <1>3, <1>4, <1>5 DEF Books, NotedOnce, Earned

\* Every other step leaves the notes alone, and the windows too, but for a restart.
LEMMA BooksStep ==
  ASSUME ApiTypeOK, Books, [ApiNext]_apiVars
  PROVE  Books'
<1> DEFINE Quiet ==
      /\ checks' = checks
      /\ \A j \in Jobs :
           /\ calls'[j].pc \in Unchecked => calls[j].pc \in Unchecked
           /\ calls'[j].pc = "done" /\ calls'[j].status = 429 =>
                calls[j].pc = "done" /\ calls[j].status = 429
<1>1. ASSUME Quiet PROVE WithinQuota' /\ NotedOnce' /\ Earned'
  BY <1>1 DEF Books, WithinQuota, NotedOnce, Earned
<1>2. ASSUME Quiet, windows' = windows, now' = now PROVE Books'
  BY <1>1, <1>2 DEF Books, CountIsCharged, NoneCharged
<1>3. ASSUME NEW j \in Jobs, Asking(j) PROVE Books'
  <2>1. UNCHANGED <<windows, now, checks>>
    BY <1>3, AskingDoes DEF limitVars
  <2>2. /\ calls[j].pc \in {"authenticate", "loaded"}
        /\ \A i \in Jobs \ {j} : calls'[i] = calls[i]
        /\ \/ calls'[j].pc \in {"loaded", "limit"}
           \/ calls'[j].pc = "done" /\ calls'[j].status \in {401, 403}
    BY <1>3, AskingDoes, ZenonT(60)
  <2>3. calls[j].pc \in Unchecked
    BY <2>2 DEF Unchecked
  <2> QED BY <1>2, <2>1, <2>2, <2>3
<1>4. ASSUME NEW j \in Jobs,
             MissLimiter(j) \/ MakeLimiter(j) \/ MissRepository(j) \/ MakeRepository(j)
      PROVE  Books'
  <2>1. /\ UNCHANGED <<windows, now, checks>>
        /\ \E pc \in PastRoleCheck : GoesTo(j, pc) /\ (pc \in Unchecked => calls[j].pc \in Unchecked)
    BY <1>4 DEF MissLimiter, MakeLimiter, MissRepository, MakeRepository, limitVars, PastRoleCheck,
       Unchecked
  <2>2. calls[j].key \in Keys
    BY <1>4, CheckingDoes DEF Checking
  <2>3. PICK pc \in PastRoleCheck : GoesTo(j, pc) /\ (pc \in Unchecked => calls[j].pc \in Unchecked)
    BY <2>1
  <2>4. \A i \in Jobs \ {j} : calls'[i] = calls[i]
    BY <2>2, <2>3, GoesToType
  <2>5. calls'[j].pc = pc /\ pc # "done"
    BY <2>2, <2>3, GoesToType, Outside
  <2> QED BY <1>2, <2>1, <2>3, <2>4, <2>5
<1>5. ASSUME NEW j \in Jobs, Handle(j) PROVE Books'
  <2>1. UNCHANGED <<windows, now, checks>>
    BY <1>5, HandleDoes DEF limitVars
  <2>2. calls'[j].pc = "done" /\ \A i \in Jobs \ {j} : calls'[i] = calls[i]
    BY <1>5, HandleDoes
  <2>3. calls'[j].status = 202 \/ calls'[j].status = 422
    BY <1>5, HandleDoes, Zenon
  <2>4. calls'[j].pc \notin Unchecked
    BY <2>2, Sides
  <2> QED BY <1>2, <2>1, <2>2, <2>3, <2>4
<1>6. ASSUME NEW j \in Jobs, ArriveUnreadable(j) \/ \E key \in Keys \cup {NoKey} : Arrive(j, key)
      PROVE  Books'
  <2>1. UNCHANGED <<windows, now, checks>>
    BY <1>6 DEF Arrive, ArriveUnreadable, limitVars
  <2>2. /\ \A i \in Jobs \ {j} : calls'[i] = calls[i]
        /\ calls[j].pc = "idle" /\ calls'[j].pc \in {"authenticate", "unread"}
    BY <1>6 DEF Arrive, ArriveUnreadable, ApiTypeOK
  <2>3. calls[j].pc \in Unchecked /\ calls'[j].pc # "done"
    BY <2>2, Sides
  <2> QED BY <1>2, <2>1, <2>2, <2>3
<1>7. CASE Redeploy
  <2>1. /\ checks' = [j \in Jobs |-> NotChecked] /\ windows' = [k \in Keys |-> NoWindow]
        /\ calls' = [j \in Jobs |-> [pc |-> "idle"]] /\ now' >= 0
    BY <1>7, RedeployDoes, ApiAssumption DEF ApiTypeOK
  <2>2. \A k, start : ChargedIn(checks', k, start) = {}
    BY <2>1 DEF ChargedIn, NotChecked
  <2>3. \A k, start : /\ IsFiniteSet(ChargedIn(checks', k, start))
                      /\ Cardinality(ChargedIn(checks', k, start)) = 0
    BY <2>2, FS_EmptySet
  <2>4. WithinQuota'
    BY <2>3, ApiAssumption DEF WithinQuota
  <2>5. CountIsCharged'
    BY <2>1, <2>3 DEF CountIsCharged, NoWindow
  <2>6. NoneCharged'
    BY <2>1, NotCheckedSays DEF NoneCharged
  <2> QED BY <2>1, <2>4, <2>5, <2>6 DEF Books, NotedOnce, Earned
<1>8. CASE Tick
  <2>1. /\ UNCHANGED <<windows, checks, calls>> /\ now' = now + 1
        /\ now \in Nat /\ \A k \in Keys : windows[k].start \in Nat
    BY <1>8, ApiAssumption DEF Tick, ApiTypeOK
  <2>2. CountIsCharged' /\ NoneCharged'
    BY <2>1 DEF Books, CountIsCharged, NoneCharged
  <2> QED BY <1>1, <2>1, <2>2 DEF Books
<1>9. ASSUME NEW j \in Jobs, Work(j) PROVE UNCHANGED <<calls, windows, now, checks>>
  BY <1>9 DEF Work, limitVars
<1>10. ASSUME NEW n \in since .. settings, AskElsewhere(n) \/ \E key \in Keys : Get(key, n)
       PROVE  UNCHANGED <<calls, windows, now, checks>>
  BY <1>10, ElsewhereDoes DEF limitVars
<1>11. CASE Reconfigure \/ UNCHANGED apiVars
  BY <1>2, <1>11 DEF Reconfigure, apiVars, limitVars
<1> QED BY <1>2, <1>3, <1>4, <1>5, <1>6, <1>7, <1>8, <1>9, <1>10, <1>11, EnforceBooks, AloneBooks,
           ServeParts
        DEF ApiNext, Checking

\* The limiter's windows and the requests counted in them agree at all times.
LEMMA BooksKept == ApiSpec => []Books
<1>1. ApiInit => Books
  BY FirstBooks DEF ApiInit
<1> QED BY <1>1, BooksStep, ApiTypeCorrect, PTL DEF ApiSpec

\* Whoever is refused has used up the window of its own.
THEOREM RefusalsEarned == ApiSpec => []RefusedByOwnRequests
<1>1. Books => RefusedByOwnRequests
  BY RefusedIsEarned DEF Books
<1> QED BY <1>1, BooksKept, PTL
----------------------------------------------------------------------------
(***************************************************************************)
(* What one caller can spend.                                              *)
(***************************************************************************)

\* More windows allow for at least as many requests.
LEMMA TimesGrows ==
  ASSUME NEW m \in Nat, NEW n \in Nat, NEW b \in Nat, m <= n
  PROVE  m * b <= n * b
<1>1. PICK d \in Nat : n = m + d
  <2>1. n - m \in Nat /\ n = m + (n - m)
    OBVIOUS
  <2> QED BY <2>1
<1>2. n * b = m * b + d * b /\ d * b \in Nat /\ m * b \in Nat
  BY <1>1
<1> QED BY <1>2

\* The requests that one caller brought through in a window are at most the quota,
\* and those that were among the first of the process.
LEMMA BroughtThrough ==
  ASSUME ApiTypeOK, EarlyOnes, Books, NEW k \in Keys, NEW start \in 0 .. MaxTime
  PROVE  LET charged == Charged(k, start)
             astray == Astray(k, start) IN
         /\ astray \subseteq early
         /\ IsFiniteSet(charged \cup astray) /\ Cardinality(charged \cup astray) \in Nat
         /\ Cardinality(astray) \in Nat
         /\ Cardinality(charged \cup astray) <= MaxRequests + Cardinality(astray)
<1> DEFINE charged == Charged(k, start)
           astray == Astray(k, start)
<1>1. astray \subseteq early
  <2> SUFFICES ASSUME NEW j \in astray, j \notin early PROVE FALSE
    OBVIOUS
  <2>1. j \in Jobs /\ checks[j].allowed = TRUE /\ checks[j].alone = TRUE
    BY DEF Astray
  <2> QED BY <2>1 DEF EarlyOnes
<1>2. IsFiniteSet(charged) /\ Cardinality(charged) <= MaxRequests
  <2>1. charged = ChargedIn(checks, k, start) /\ start \in Nat
    BY ApiAssumption DEF Charged, ChargedIn
  <2> HIDE DEF charged
  <2> QED BY <2>1 DEF Books, WithinQuota
<1>3. IsFiniteSet(astray)
  BY <1>1, FS_Subset DEF EarlyOnes
<1> HIDE DEF charged, astray
<1>4. /\ IsFiniteSet(charged \cup astray) /\ IsFiniteSet(charged \cap astray)
      /\ Cardinality(charged \cup astray) =
           Cardinality(charged) + Cardinality(astray) - Cardinality(charged \cap astray)
  BY <1>2, <1>3, FS_Union, FS_Intersection
<1>5. /\ Cardinality(charged) \in Nat /\ Cardinality(astray) \in Nat
      /\ Cardinality(charged \cap astray) \in Nat /\ Cardinality(charged \cup astray) \in Nat
  BY <1>2, <1>3, <1>4, FS_CardinalityType
<1>6. Cardinality(charged \cup astray) <= MaxRequests + Cardinality(astray)
  BY <1>2, <1>4, <1>5, ApiAssumption
<1> QED BY <1>1, <1>4, <1>5, <1>6 DEF charged, astray

\* What one caller can make the process spend in a window is bounded: the quota
\* bounds the jobs of the kept limiter, each request that was given a limiter of its
\* own came before limiter and repository were both made and adds one job, and the
\* retries bound what a job sends to the API.
THEOREM SpendBoundedPerWindow == ApiSpec => []SpendPerWindow
<1> DEFINE perJob == MaxAttempts * (TransportRetries + 1)
<1>1. TypeOK /\ ApiTypeOK /\ RequestsBounded /\ EarlyOnes /\ Books => SpendPerWindow
  <2> SUFFICES ASSUME TypeOK, ApiTypeOK, RequestsBounded, EarlyOnes, Books,
                      NEW k \in Keys, NEW start \in 0 .. MaxTime
               PROVE  /\ Astray(k, start) \subseteq early
                      /\ MapThenSumSet(LAMBDA j : requests[j], Charged(k, start) \cup Astray(k, start)) <=
                           (MaxRequests + Cardinality(Astray(k, start))) * MaxAttempts * (TransportRetries + 1)
    BY DEF SpendPerWindow
  <2> DEFINE S == Charged(k, start) \cup Astray(k, start)
             most == MaxRequests + Cardinality(Astray(k, start))
             spending == MapThenSumSet(LAMBDA j : requests[j], S)
  <2>1. spending = SumFunctionOnSet(requests, S)
    BY Zenon DEF MapThenSumSet, SumFunctionOnSet, FoldFunctionOnSet
  <2>2. /\ Astray(k, start) \subseteq early
        /\ IsFiniteSet(S) /\ Cardinality(S) \in Nat /\ most \in Nat /\ Cardinality(S) <= most
    <3>1. Cardinality(Astray(k, start)) \in Nat
      BY BroughtThrough
    <3> QED BY <3>1, BroughtThrough, ApiAssumption
  <2>3. \A j \in S : requests[j] \in Int /\ requests[j] <= perJob
    BY DEF Charged, Astray, TypeOK, RequestsBounded
  <2> HIDE DEF S, most
  <2>4. perJob \in Nat /\ most * MaxAttempts * (TransportRetries + 1) = most * perJob
    BY <2>2, JobsAssumption
  <2>5. SumFunctionOnSet(requests, S) <= Cardinality(S) * perJob
    <3> HIDE DEF perJob
    <3> QED BY <2>2, <2>3, <2>4, SumBounded
  <2>6. Cardinality(S) * perJob <= most * perJob
    <3> HIDE DEF perJob
    <3> QED BY <2>2, <2>4, TimesGrows
  <2>7. SumFunctionOnSet(requests, S) \in Int /\ Cardinality(S) * perJob \in Int /\ most * perJob \in Int
    <3> HIDE DEF perJob
    <3> QED BY <2>2, <2>3, <2>4, SumIsInt
  <2>8. SumFunctionOnSet(requests, S) <= most * perJob
    <3> DEFINE sum == SumFunctionOnSet(requests, S)
               jobs == Cardinality(S) * perJob
               bound == most * perJob
    <3>1. sum \in Int /\ jobs \in Int /\ bound \in Int /\ sum <= jobs /\ jobs <= bound
      BY <2>5, <2>6, <2>7
    <3> HIDE DEF sum, jobs, bound
    <3>2. sum <= bound
      BY <3>1
    <3> QED BY <3>2 DEF sum, bound
  <2>9. spending <= most * MaxAttempts * (TransportRetries + 1)
    <3> HIDE DEF spending, perJob
    <3> QED BY <2>1, <2>4, <2>8
  <2> QED BY <2>2, <2>9 DEF S, most
<1> QED BY <1>1, BooksKept, EarlyKept, ApiTypeCorrect, JobsKept, PTL
============================================================================
