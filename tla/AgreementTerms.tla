--------------------------- MODULE AgreementTerms ---------------------------
(***************************************************************************)
(* POST /agreements: the request becomes a FacilityAgreement only if the   *)
(* model validator of the domain lets its parties, amount, dates and       *)
(* repayment schedule pass together; otherwise the answer is 422 and       *)
(* nothing is stored.  Days and amounts are small integers.                *)
(*                                                                         *)
(* Every refusal has the same effect, so the order of the checks is not    *)
(* kept.  The interest terms are left out: nothing is checked of them      *)
(* beyond their shape.                                                     *)
(***************************************************************************)
EXTENDS Integers, SequencesExt

CONSTANTS
  Borrower,         \* the borrower_id of the request
  Parties,          \* the party ids a request may name, the borrower included
  NoAgent,          \* facility_agent_id is None
  NoAgreement,      \* nothing is stored
  Amounts,          \* facility amounts a request may name, zero included
  Principals,       \* principals of installments, negative ones included
  MaxDate,          \* bound: dates are 0 .. MaxDate
  MaxLenders,       \* bound on lender_ids
  MaxInstallments   \* bound on the installments of a schedule

ASSUME TermsAssumption ==
  /\ Borrower \in Parties /\ NoAgent \notin Parties
  /\ Amounts \subseteq Int /\ Principals \subseteq Int
  /\ MaxDate \in Nat /\ MaxLenders \in Nat /\ MaxInstallments \in Nat

VARIABLES
  request,  \* the body of the request
  answer,   \* the status of the answer; 0 before there is one
  stored    \* the agreement in the repository

vars == <<request, answer, stored>>

Dates == 0 .. MaxDate

Installments == [due : Dates, principal : Principals]

\* lender_ids is a list: an id may be there twice, and it may be empty.  An
\* amortizing schedule may have no installment either.
Schedules ==
  [type : {"bullet"}] \cup
  [type : {"amortizing"}, installments : BoundedSeq(Installments, MaxInstallments)]

Requests ==
  [lenders : BoundedSeq(Parties, MaxLenders), agent : {Borrower, NoAgent},
   amount : Amounts, agreed : Dates, effective : Dates, maturity : Dates,
   schedule : Schedules]

Init ==
  /\ request \in Requests
  /\ answer = 0
  /\ stored = NoAgreement

----------------------------------------------------------------------------
Syndicated(r) == Len(r.lenders) > 1

PartiesPass(r) ==
  /\ ~Contains(r.lenders, Borrower)
  /\ r.lenders # <<>>
  /\ Syndicated(r) => r.agent # NoAgent

TermsPass(r) ==
  /\ r.amount > 0
  /\ r.agreed <= r.effective /\ r.effective < r.maturity

\* The sum is exact; that of the code is rounded to the 28 digits of the Decimal
\* context, which only longer amounts notice.
Principal(installments) ==
  FoldLeft(LAMBDA total, i : total + i.principal, 0, installments)

\* Mutant of DatesIncrease: equal due dates pass.
DatesDoNotDecrease(installments) ==
  \A n \in 2 .. Len(installments) : installments[n - 1].due <= installments[n].due

\* Each due date is compared with the one before it only.
DatesIncrease(installments) ==
  \A n \in 2 .. Len(installments) : installments[n - 1].due < installments[n].due

\* Mutant of SchedulePasses: an installment may be due after maturity.
SchedulePassesLate(r) ==
  r.schedule.type = "amortizing" =>
    LET list == r.schedule.installments IN
    /\ Principal(list) = r.amount
    /\ DatesIncrease(list)

SchedulePasses(r) ==
  r.schedule.type = "amortizing" =>
    LET list == r.schedule.installments IN
    /\ Principal(list) = r.amount
    /\ DatesIncrease(list)
    /\ \A n \in DOMAIN list : list[n].due <= r.maturity

\* _validate_agreement raises no ValueError.
Valid(r) == PartiesPass(r) /\ TermsPass(r) /\ SchedulePasses(r)

\* create_agreement: the agreement takes over the fields of the request.
Accept ==
  /\ answer = 0
  /\ Valid(request)
  /\ answer' = 201
  /\ stored' = request
  /\ UNCHANGED request

\* Mutant of Refuse: what is refused is stored all the same.
RefuseAfterAdd ==
  /\ answer = 0
  /\ ~Valid(request)
  /\ answer' = 422
  /\ stored' = request
  /\ UNCHANGED request

\* The exception leaves create_agreement before add().
Refuse ==
  /\ answer = 0
  /\ ~Valid(request)
  /\ answer' = 422
  /\ UNCHANGED <<request, stored>>

Next == Accept \/ Refuse

Spec == Init /\ [][Next]_vars
----------------------------------------------------------------------------
(***************************************************************************)
(* Properties.                                                             *)
(***************************************************************************)

\* The variables have their types, and exactly what was answered with 201 is
\* stored.
TypeOK ==
  /\ request \in Requests
  /\ answer \in {0, 201, 422}
  /\ stored = IF answer = 201 THEN request ELSE NoAgreement

\* The principal of the installments due on a day.
PrincipalDue(installments, day) ==
  FoldLeft(LAMBDA total, i : IF i.due = day THEN total + i.principal ELSE total,
           0, installments)

\* What is paid, by day: a bullet schedule is one installment of the whole
\* amount, due on the maturity date.
PaidOn(r, day) ==
  IF r.schedule.type = "bullet"
  THEN IF day = r.maturity THEN r.amount ELSE 0
  ELSE PrincipalDue(r.schedule.installments, day)

\* What is still owed at the end of a day.
Owed(r, day) ==
  r.amount - SumFunctionOnSet([d \in Dates |-> PaidOn(r, d)], 0 .. day)

\* A stored agreement is repaid, to the last unit and not more, by the end of
\* its maturity date and stays so.
RepaidByMaturity ==
  stored # NoAgreement =>
    \A day \in stored.maturity .. MaxDate : Owed(stored, day) = 0

\* The list of installments is a calendar: after the n-th due date exactly the
\* first n installments are paid.  The validator compares neighbours only.
InstallmentsAreACalendar ==
  stored # NoAgreement /\ stored.schedule.type = "amortizing" =>
    LET list == stored.schedule.installments IN
    \A n \in DOMAIN list :
      /\ {m \in DOMAIN list : list[m].due <= list[n].due} = 1 .. n
      /\ Owed(stored, list[n].due) = stored.amount - Principal(SubSeq(list, 1, n))
============================================================================
