------------------------- MODULE AgreementLifecycle -------------------------
(***************************************************************************)
(* What one facility agreement says of itself (app/domain.py): its status  *)
(* and whether it is in covenant breach are computed on every read from    *)
(* the test results and default events recorded on it and from today's     *)
(* date.  The records arrive one after the other through AgreementService; *)
(* concurrent recording is the subject of PostgresAgreements.              *)
(***************************************************************************)
EXTENDS Naturals, SequencesExt

CONSTANTS
  Covenants,    \* covenant ids, of this agreement or not
  NoCovenant,   \* related_covenant_id = None
  MaxDate,      \* dates are 0 .. MaxDate in a bounded run
  MaxRecords    \* bound on the test results and default events recorded

ASSUME LifecycleAssumption ==
  /\ NoCovenant \notin Covenants
  /\ MaxDate \in Nat
  /\ MaxRecords \in Nat

VARIABLES
  keepsOrder,  \* whether a read returns the test results in recording order
  covenants,   \* ids of the agreement's covenants
  maturity,    \* maturity_date
  today,       \* date.today()
  base,        \* _base_status
  results,     \* covenant_test_results, as the current read orders them
  events,      \* default_events
  recorded     \* history: the test results in the order they were recorded

vars == <<keepsOrder, covenants, maturity, today, base, results, events, recorded>>

Dates == 0 .. MaxDate
BaseStatuses == {"draft", "active", "terminated"}
Outcomes == {"pass", "fail", "waived"}

TestResults == [covenant : Covenants, date : Dates, outcome : Outcomes]
Remediations == {"outstanding", "remedied"}
Waivers == {"none", "waived"}
DefaultEvents ==
  [breach : BOOLEAN,                       \* event_type = "covenant_breach"
   covenant : Covenants \cup {NoCovenant},
   remediation : Remediations,
   waiver : Waivers]

\* A covenant_breach event requires a covenant; it need not be one of ours.
ValidEvent(e) == e.breach => e.covenant # NoCovenant

----------------------------------------------------------------------------
(***************************************************************************)
(* The computed fields.                                                    *)
(***************************************************************************)

\* Mutant of Later: a result of the same date replaces an earlier one.
LaterOrSame(latest, r) ==
  IF r.covenant \notin DOMAIN latest \/ r.date >= latest[r.covenant].date
    THEN [c \in DOMAIN latest \cup {r.covenant} |-> IF c = r.covenant THEN r ELSE latest[c]]
    ELSE latest

\* The dict of is_in_covenant_breach: the loop replaces the entry of a covenant
\* only by a result with a strictly later date.
Later(latest, r) ==
  IF r.covenant \notin DOMAIN latest \/ r.date > latest[r.covenant].date
    THEN [c \in DOMAIN latest \cup {r.covenant} |-> IF c = r.covenant THEN r ELSE latest[c]]
    ELSE latest

Latest(rs) == FoldLeft(Later, [c \in {} |-> {}], rs)

\* Mutant of InBreach: a waived failure still counts.
InBreachUnlessPassed(rs, c) == c \in DOMAIN Latest(rs) /\ Latest(rs)[c].outcome # "pass"

InBreach(rs, c) == c \in DOMAIN Latest(rs) /\ Latest(rs)[c].outcome = "fail"
IsInCovenantBreach(rs) == \E c \in Covenants : InBreach(rs, c)

IsContinuing(e) == ~(e.remediation = "remedied" \/ e.waiver = "waived")

\* Mutant of Status: only the event recorded last counts.
StatusOfLastEvent ==
  IF events # <<>> /\ IsContinuing(Last(events)) THEN "defaulted"
  ELSE IF maturity <= today THEN "matured"
  ELSE base

\* compute_agreement_status: defaulted, then matured, then the base status.
Status ==
  IF \E n \in DOMAIN events : IsContinuing(events[n]) THEN "defaulted"
  ELSE IF maturity <= today THEN "matured"
  ELSE base

----------------------------------------------------------------------------
\* A created agreement is a draft without records; it may have matured already.
\* The in-memory backend keeps the order of a list, Postgres need not.
Init ==
  /\ keepsOrder \in BOOLEAN
  /\ covenants \in SUBSET Covenants
  /\ maturity \in Dates
  /\ today = 0
  /\ base = "draft"
  /\ results = <<>>
  /\ events = <<>>
  /\ recorded = <<>>

\* Mutant of RecordTestResult: the result is appended to the wrong list.
RecordTestResultAsEvent(r) ==
  /\ Len(recorded) + Len(events) < MaxRecords
  /\ r.covenant \in covenants
  /\ events' = Append(events, r)
  /\ recorded' = Append(recorded, r)
  /\ UNCHANGED <<keepsOrder, covenants, maturity, today, base, results>>

\* record_covenant_test_result: a covenant of another agreement is a 404.
RecordTestResult(r) ==
  /\ Len(recorded) + Len(events) < MaxRecords
  /\ r.covenant \in covenants
  /\ results' = Append(results, r)
  /\ recorded' = Append(recorded, r)
  /\ UNCHANGED <<keepsOrder, covenants, maturity, today, base, events>>

\* record_default_event: an event that does not validate is a 422.
RecordDefaultEvent(e) ==
  /\ Len(recorded) + Len(events) < MaxRecords
  /\ ValidEvent(e)
  /\ events' = Append(events, e)
  /\ UNCHANGED <<keepsOrder, covenants, maturity, today, base, results, recorded>>

\* FacilityAgreement.activate and .terminate check nothing.
Activate ==
  /\ base' = "active"
  /\ UNCHANGED <<keepsOrder, covenants, maturity, today, results, events, recorded>>

Terminate ==
  /\ base' = "terminated"
  /\ UNCHANGED <<keepsOrder, covenants, maturity, today, results, events, recorded>>

\* An assignment to remediation_status or waiver_status of a recorded event, in
\* place and in either direction (ADR-0009 leaves the direction to the service).
\* Like activate() and terminate(), no handler of the service calls it yet.
AssignRemediation(n, status) ==
  /\ events' = [events EXCEPT ![n].remediation = status]
  /\ UNCHANGED <<keepsOrder, covenants, maturity, today, base, results, recorded>>

AssignWaiver(n, status) ==
  /\ events' = [events EXCEPT ![n].waiver = status]
  /\ UNCHANGED <<keepsOrder, covenants, maturity, today, base, results, recorded>>

DayPasses ==
  /\ today < MaxDate
  /\ today' = today + 1
  /\ UNCHANGED <<keepsOrder, covenants, maturity, base, results, events, recorded>>

\* The next read.  The in-memory backend returns the list itself.  The Postgres
\* relationship has no order_by, so its rows come back in any order.
Orders(s) ==
  {t \in [DOMAIN s -> Range(s)] :
     \E f \in [DOMAIN s -> DOMAIN s] :
       IsInjective(f) /\ \A n \in DOMAIN s : t[n] = s[f[n]]}

Reload ==
  /\ ~keepsOrder
  /\ results' \in Orders(results)
  /\ UNCHANGED <<keepsOrder, covenants, maturity, today, base, events, recorded>>

Next ==
  \/ \E r \in TestResults : RecordTestResult(r)
  \/ \E e \in DefaultEvents : RecordDefaultEvent(e)
  \/ Activate \/ Terminate \/ DayPasses \/ Reload
  \/ \E n \in DOMAIN events, status \in Remediations : AssignRemediation(n, status)
  \/ \E n \in DOMAIN events, status \in Waivers : AssignWaiver(n, status)

Spec == Init /\ [][Next]_vars
----------------------------------------------------------------------------
(***************************************************************************)
(* Properties.                                                             *)
(***************************************************************************)

\* The variables have their types, whatever order the records come back in.
TypeOK ==
  /\ keepsOrder \in BOOLEAN
  /\ covenants \subseteq Covenants
  /\ maturity \in Dates /\ today \in Dates
  /\ base \in BaseStatuses
  /\ results \in Seq(TestResults) /\ recorded \in Seq(TestResults)
  /\ events \in Seq(DefaultEvents)

\* PRD 3.6, with the tie rule of ADR-0004: a covenant is breached when a "fail"
\* is its most recent result, where of two results of one date the one that was
\* recorded first counts.
CurrentFailure(n) ==
  /\ recorded[n].outcome = "fail"
  /\ \A m \in DOMAIN recorded : recorded[m].covenant = recorded[n].covenant =>
       \/ recorded[m].date < recorded[n].date
       \/ recorded[m].date = recorded[n].date /\ n <= m

NoSameDate ==
  \A m, n \in DOMAIN recorded :
    recorded[m].covenant = recorded[n].covenant /\ recorded[m].date = recorded[n].date => m = n

\* The loop over the list computes just that, if reads keep the order of the
\* list; where no two results of a covenant share a date, any order will do.
BreachIsLatestFailure ==
  keepsOrder \/ NoSameDate =>
    (IsInCovenantBreach(results) <=> \E n \in DOMAIN recorded : CurrentFailure(n))

\* Under the same condition a breach ends only by a new result of the same
\* covenant that is dated after every earlier one and is not a failure.
BreachNeedsLaterTest ==
  [][\A c \in Covenants :
       (keepsOrder \/ NoSameDate') /\ InBreach(results, c) /\ ~InBreach(results', c) =>
         /\ Len(recorded') > Len(recorded)
         /\ Last(recorded').covenant = c
         /\ Last(recorded').outcome # "fail"
         /\ \A n \in DOMAIN recorded :
              recorded[n].covenant = c => recorded[n].date < Last(recorded').date]_vars

\* ADR-0004: "a same-date pass does not clear a same-date fail".  When the breach
\* of a covenant ends, some other outcome is dated after all its failures.
SameDatePassClearsNothing ==
  [][\A c \in Covenants : InBreach(results, c) /\ ~InBreach(results', c) =>
       \E n \in DOMAIN recorded' :
         /\ recorded'[n].covenant = c
         /\ \A m \in DOMAIN recorded' :
              recorded'[m].covenant = c /\ recorded'[m].outcome = "fail" =>
                recorded'[m].date < recorded'[n].date]_vars

\* A POST whose 201 was lost is sent again, and its record is stored twice, under
\* two ids.  The repeat changes neither the breach of a covenant nor the status,
\* even where the record it repeats is not the last one.  (An event that was
\* remedied or waived meanwhile is no longer what was recorded, and to record it
\* again is no repeat: the default is back.)
Repeats ==
  \/ Len(recorded') > Len(recorded) /\ Last(recorded') \in Range(recorded)
  \/ Len(events') > Len(events) /\ Last(events') \in Range(events)

RepeatChangesNothing ==
  [][Repeats =>
       /\ \A c \in Covenants : InBreach(results', c) <=> InBreach(results, c)
       /\ Status' = Status]_vars

\* PRD section 4: an agreement leaves "defaulted" "if the condition that made it
\* defaulted no longer holds".  A default ends only with its last continuing event,
\* by an assignment to that event which leaves all the others as they are; then the
\* agreement shows what was behind the default: maturity, where that has come
\* meanwhile, else the status set by hand.
DefaultEndsWithItsLastEvent ==
  [][Status = "defaulted" /\ Status' # "defaulted" =>
       /\ \E n \in DOMAIN events :
            /\ ~IsContinuing(events'[n])
            /\ \A m \in DOMAIN events : IsContinuing(events[m]) => m = n
            /\ events' = [events EXCEPT ![n] = events'[n]]
       /\ Status' = IF maturity <= today THEN "matured" ELSE base]_vars

\* PRD section 4: the status "only changes through the transitions below", which
\* lead from draft to active, from active to defaulted and matured, from defaulted
\* back to active, and from any status to terminated, a manual analyst action.  So
\* no change is unlisted, and terminate() is never without effect on the status.
ListedChange ==
  \/ <<Status, Status'>> \in {<<"draft", "active">>, <<"active", "defaulted">>,
                             <<"active", "matured">>, <<"defaulted", "active">>}
  \/ Status' = "terminated"

StatusFollowsTable ==
  [][/\ Status' # Status => ListedChange
     /\ Terminate => Status' = "terminated"]_vars
============================================================================
