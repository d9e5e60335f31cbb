------------------------ MODULE AgreementTermsProofs ------------------------
(***************************************************************************)
(* What an agreement that passed the validator repays, for any parties,    *)
(* amounts and dates, and for schedules of any length.                     *)
(***************************************************************************)
EXTENDS AgreementTerms, FoldTheorems

\* The variables have their types, and exactly what was answered with 201 is
\* stored.
THEOREM TypeCorrect == Spec => []TypeOK
<1>1. Init => TypeOK
  BY DEF Init, TypeOK
<1>2. TypeOK /\ [Next]_vars => TypeOK'
  BY DEF TypeOK, Next, Accept, Refuse, vars
<1> QED BY <1>1, <1>2, PTL DEF Spec

\* What is stored has passed the validator.
StoredIsValid ==
  stored # NoAgreement => stored \in Requests /\ Valid(stored)

\* Nothing is stored that the validator refuses.
THEOREM OnlyValidStored == Spec => []StoredIsValid
<1>1. Init => StoredIsValid
  BY DEF Init, StoredIsValid
<1>2. TypeOK /\ StoredIsValid /\ [Next]_vars => StoredIsValid'
  <2> SUFFICES ASSUME TypeOK, StoredIsValid, [Next]_vars PROVE StoredIsValid'
    OBVIOUS
  <2>1. CASE Accept
    BY <2>1 DEF Accept, StoredIsValid, TypeOK
  <2>2. CASE UNCHANGED stored
    BY <2>2 DEF StoredIsValid
  <2> QED BY <2>1, <2>2 DEF Next, Refuse, vars
<1> QED BY <1>1, <1>2, TypeCorrect, PTL DEF Spec

----------------------------------------------------------------------------
(***************************************************************************)
(* The totals: of all installments, and of those due on one day.           *)
(***************************************************************************)

\* g[k] is the total of the first k installments.
Totals(g, list) ==
  /\ g \in [0 .. Len(list) -> Int]
  /\ g[0] = 0
  /\ \A k \in 1 .. Len(list) : g[k] = g[k - 1] + list[k].principal
  /\ Principal(list) = g[Len(list)]

\* The same of the installments that are due on one day.
DueTotals(g, list, day) ==
  /\ g \in [0 .. Len(list) -> Int]
  /\ g[0] = 0
  /\ \A k \in 1 .. Len(list) :
       g[k] = IF list[k].due = day THEN g[k - 1] + list[k].principal ELSE g[k - 1]
  /\ PrincipalDue(list, day) = g[Len(list)]

\* What an installment is made of.
LEMMA InstallmentType ==
  ASSUME NEW i \in Installments
  PROVE  i.due \in Nat /\ i.due \in Dates /\ i.principal \in Int
<1>1. i.due \in Dates /\ i.principal \in Principals
  BY DEF Installments
<1>2. Dates \subseteq Nat /\ Principals \subseteq Int
  BY TermsAssumption DEF Dates
<1> QED BY <1>1, <1>2

\* The validator's sum runs through such totals.
LEMMA TotalsExist ==
  ASSUME NEW list \in Seq(Installments)
  PROVE  \E g : Totals(g, list)
<1> DEFINE n == Len(list)
           step == [p \in (1 .. n) \X Int |-> p[2] + list[p[1]].principal]
           Unrolled(f) == f = [s \in SUBSET DOMAIN list |->
                                 IF s = {} THEN 0
                                 ELSE f[s \ {Max(s)}] + list[Max(s)].principal]
           loop == CHOOSE f : Unrolled(f)
           g == InitialParts(loop, n)
<1>1. n \in Nat /\ DOMAIN list = 1 .. n /\ \A k \in 1 .. n : list[k] \in Installments
  OBVIOUS
<1>2. step \in [(1 .. n) \X Int -> Int]
  BY <1>1, InstallmentType
<1>3. PICK f \in [SUBSET (1 .. n) -> Int] : IsSeqFold(f, n, 0, step)
  <2>1. 0 \in Int
    OBVIOUS
  <2> HIDE DEF step, n
  <2> QED BY <1>1, <1>2, <2>1, SeqFoldExists
<1>4. \A s \in (SUBSET (1 .. n)) \ {{}} : Max(s) \in 1 .. n
  BY <1>1, MaxIsIn
<1>5. Unrolled(f)
  BY <1>1, <1>3, <1>4 DEF IsSeqFold
<1>6. Unrolled(loop)
  BY <1>5, Zenon
<1>7. Principal(list) = g[n]
  <2>1. Principal(list) = loop[DOMAIN list]
    BY Zenon DEF Principal, FoldLeft, MapThenFoldSet
  <2> QED BY <1>1, <2>1 DEF InitialParts
<1> HIDE DEF loop
<1>8. IsRun(g, n, Int, 0, step)
  <2>1. Unfolds(loop, n, Int, 0, step)
    BY <1>1, <1>4, <1>6 DEF Unfolds
  <2>2. 0 \in Int
    OBVIOUS
  <2> HIDE DEF step, n
  <2> QED BY <1>1, <1>2, <2>1, <2>2, SeqFoldRun
<1>9. \A k \in 1 .. n : g[k - 1] \in Int /\ g[k] = g[k - 1] + list[k].principal
  <2>1. \A k \in 1 .. n : k - 1 \in 0 .. n
    BY <1>1
  <2> HIDE DEF g
  <2> QED BY <1>8, <2>1 DEF IsRun
<1>10. Totals(g, list)
  BY <1>1, <1>7, <1>8, <1>9 DEF Totals, IsRun
<1> QED BY <1>10

\* So does the sum over the installments of one day.
LEMMA DueTotalsExist ==
  ASSUME NEW list \in Seq(Installments), NEW day
  PROVE  \E g : DueTotals(g, list, day)
<1> DEFINE n == Len(list)
           step == [p \in (1 .. n) \X Int |->
                      IF list[p[1]].due = day THEN p[2] + list[p[1]].principal ELSE p[2]]
           Unrolled(f) == f = [s \in SUBSET DOMAIN list |->
                                 IF s = {} THEN 0
                                 ELSE IF list[Max(s)].due = day
                                 THEN f[s \ {Max(s)}] + list[Max(s)].principal
                                 ELSE f[s \ {Max(s)}]]
           loop == CHOOSE f : Unrolled(f)
           g == InitialParts(loop, n)
<1>1. n \in Nat /\ DOMAIN list = 1 .. n /\ \A k \in 1 .. n : list[k] \in Installments
  OBVIOUS
<1>2. step \in [(1 .. n) \X Int -> Int]
  BY <1>1, InstallmentType
<1>3. PICK f \in [SUBSET (1 .. n) -> Int] : IsSeqFold(f, n, 0, step)
  <2>1. 0 \in Int
    OBVIOUS
  <2> HIDE DEF step, n
  <2> QED BY <1>1, <1>2, <2>1, SeqFoldExists
<1>4. \A s \in (SUBSET (1 .. n)) \ {{}} : Max(s) \in 1 .. n
  BY <1>1, MaxIsIn
<1>5. Unrolled(f)
  BY <1>1, <1>3, <1>4 DEF IsSeqFold
<1>6. Unrolled(loop)
  BY <1>5, Zenon
<1>7. PrincipalDue(list, day) = g[n]
  <2>1. PrincipalDue(list, day) = loop[DOMAIN list]
    BY Zenon DEF PrincipalDue, FoldLeft, MapThenFoldSet
  <2> QED BY <1>1, <2>1 DEF InitialParts
<1> HIDE DEF loop
<1>8. IsRun(g, n, Int, 0, step)
  <2>1. Unfolds(loop, n, Int, 0, step)
    BY <1>1, <1>4, <1>6 DEF Unfolds
  <2>2. 0 \in Int
    OBVIOUS
  <2> HIDE DEF step, n
  <2> QED BY <1>1, <1>2, <2>1, <2>2, SeqFoldRun
<1>9. \A k \in 1 .. n :
        /\ g[k - 1] \in Int
        /\ g[k] = IF list[k].due = day THEN g[k - 1] + list[k].principal ELSE g[k - 1]
  <2>1. \A k \in 1 .. n : k - 1 \in 0 .. n
    BY <1>1
  <2> HIDE DEF g
  <2> QED BY <1>8, <2>1 DEF IsRun
<1>10. DueTotals(g, list, day)
  BY <1>1, <1>7, <1>8, <1>9 DEF DueTotals, IsRun
<1> QED BY <1>10

----------------------------------------------------------------------------
(***************************************************************************)
(* What is paid by the end of a day.                                       *)
(***************************************************************************)

PaidBy(list, day) == SumFunctionOnSet([d \in Dates |-> PrincipalDue(list, d)], 0 .. day)

\* The sum over the days up to one of them is the total of the first j
\* installments, if these and no others are due by then.
LEMMA PaidByIsTotal ==
  ASSUME NEW list \in Seq(Installments), NEW g, Totals(g, list),
         NEW day \in Dates, NEW j \in 0 .. Len(list),
         \A k \in 1 .. Len(list) : list[k].due <= day <=> k <= j
  PROVE  PaidBy(list, day) = g[j]
<1> DEFINE n == Len(list)
           days == 0 .. day
           due == [d \in Dates |-> CHOOSE h : DueTotals(h, list, d)]
           paid == [k \in 0 .. n |-> [d \in Dates |-> due[d][k]]]
           upTo(k) == IF k <= j THEN k ELSE j
           Paid == {k \in Nat : k <= n => SumFunctionOnSet(paid[k], days) = g[upTo(k)]}
<1>1. \A d \in Dates : DueTotals(due[d], list, d)
  BY DueTotalsExist
<1>2. n \in Nat /\ j \in Nat /\ j <= n /\ MaxDate \in Nat /\ day \in Nat
  BY TermsAssumption DEF Dates
<1>3. IsFiniteSet(days) /\ days \subseteq Dates
  <2>1. IsFiniteSet(0 .. day)
    BY <1>2, FS_Interval
  <2>2. 0 .. day \subseteq Dates
    BY <1>2 DEF Dates
  <2> QED BY <2>1, <2>2
<1> HIDE DEF due, n
<1>4. ASSUME NEW k \in 0 .. n PROVE \A d \in Dates : paid[k][d] = due[d][k] /\ paid[k][d] \in Int
  BY <1>1 DEF DueTotals, n
<1>5. 0 \in Paid
  <2>1. 0 \in 0 .. n /\ upTo(0) = 0
    BY <1>2
  <2>2. \A d \in days : paid[0][d] = 0
    BY <1>1, <1>3, <1>4, <2>1 DEF DueTotals
  <2>3. SumFunctionOnSet(paid[0], days) = 0
    <3> HIDE DEF paid, days
    <3> QED BY <1>3, <2>2, SumOfZeros
  <2>4. g[0] = 0
    BY DEF Totals
  <2> HIDE DEF paid, days
  <2> QED BY <2>1, <2>3, <2>4
<1>6. ASSUME NEW k \in Nat, k \in Paid PROVE k + 1 \in Paid
  <2> SUFFICES ASSUME k + 1 <= n PROVE SumFunctionOnSet(paid[k + 1], days) = g[upTo(k + 1)]
    OBVIOUS
  <2> DEFINE i == list[k + 1]
             before == SumFunctionOnSet(paid[k], days)
  <2>1. k \in 0 .. n /\ k + 1 \in 0 .. n /\ k + 1 \in 1 .. n /\ (k + 1) - 1 = k /\ k <= n
    BY <1>2
  <2>2. i \in Installments
    BY <2>1 DEF n
  <2>3. i.due \in Nat /\ i.due \in Dates /\ i.principal \in Int
    BY <2>2, InstallmentType
  <2>4. \A d \in Dates :
          due[d][k + 1] = IF i.due = d THEN due[d][k] + i.principal ELSE due[d][k]
    BY <1>1, <2>1 DEF DueTotals, n
  <2>5. before = g[upTo(k)]
    BY <1>6, <2>1
  <2> HIDE DEF i
  <2>6. \A d \in Dates :
          /\ paid[k][d] \in Int /\ paid[k + 1][d] \in Int
          /\ d # i.due => paid[k + 1][d] = paid[k][d]
          /\ d = i.due => paid[k + 1][d] = paid[k][d] + i.principal
    BY <1>4, <2>1, <2>4
  <2> HIDE DEF paid, days
  <2>7. SumFunctionOnSet(paid[k + 1], days) =
          before + (IF i.due \in days THEN paid[k + 1][i.due] - paid[k][i.due] ELSE 0)
    <3>1. \A d \in days : /\ paid[k][d] \in Int /\ paid[k + 1][d] \in Int
                          /\ d # i.due => paid[k + 1][d] = paid[k][d]
      BY <1>3, <2>6
    <3> QED BY <1>3, <3>1, SumUpdated
  <2>8. paid[k + 1][i.due] - paid[k][i.due] = i.principal
    BY SMTT(30), <2>3, <2>6
  <2>9. i.due \in days <=> k + 1 <= j
    BY <1>2, <2>1, <2>3 DEF i, n, days
  <2>10. g[k] \in Int /\ g[k + 1] = g[k] + i.principal
    BY <2>1 DEF Totals, i, n
  <2>11. CASE k + 1 <= j
    <3>1. upTo(k) = k /\ upTo(k + 1) = k + 1
      BY <1>2, <2>11
    <3> HIDE DEF before, upTo
    <3> QED BY <2>3, <2>5, <2>7, <2>8, <2>9, <2>10, <2>11, <3>1
  <2>12. CASE ~(k + 1 <= j)
    <3>1. upTo(k) = j /\ upTo(k + 1) = j /\ j \in 0 .. n
      BY <1>2, <2>12
    <3>2. g[j] \in Int
      BY <3>1 DEF Totals, n
    <3> HIDE DEF before, upTo
    <3> QED BY <2>5, <2>7, <2>9, <2>12, <3>1, <3>2
  <2> QED BY <2>11, <2>12
<1>7. n \in Paid
  <2> HIDE DEF Paid
  <2> QED BY <1>2, <1>5, <1>6, NatSetInduction
<1>8. paid[n] = [d \in Dates |-> PrincipalDue(list, d)]
  BY <1>1, <1>2 DEF DueTotals, n
<1>9. upTo(n) = j
  BY <1>2
<1> HIDE DEF paid, upTo, days
<1>10. SumFunctionOnSet(paid[n], days) = g[j]
  BY <1>2, <1>7, <1>9
<1> QED BY <1>8, <1>10 DEF PaidBy, days

\* The schedule of a stored agreement.
LEMMA ScheduleType ==
  ASSUME NEW r \in Requests
  PROVE  /\ r.amount \in Int /\ r.maturity \in Dates
         /\ r.schedule.type \in {"bullet", "amortizing"}
         /\ r.schedule.type = "amortizing" => r.schedule.installments \in Seq(Installments)
<1>1. r.amount \in Amounts /\ r.maturity \in Dates /\ r.schedule \in Schedules
  BY DEF Requests
<1>2. Amounts \subseteq Int
  BY TermsAssumption
<1>3. \A list \in BoundedSeq(Installments, MaxInstallments) : list \in Seq(Installments)
  BY TermsAssumption DEF BoundedSeq, SeqOf
<1> QED BY <1>1, <1>2, <1>3 DEF Schedules

\* What is owed, in terms of the two kinds of schedule.
LEMMA OwedOfSchedule ==
  ASSUME NEW r \in Requests, NEW day \in Dates
  PROVE  /\ r.schedule.type = "amortizing" =>
              Owed(r, day) = r.amount - PaidBy(r.schedule.installments, day)
         /\ r.schedule.type = "bullet" /\ r.maturity <= day => Owed(r, day) = 0
<1>1. CASE r.schedule.type = "amortizing"
  <2>1. [d \in Dates |-> PaidOn(r, d)] = [d \in Dates |-> PrincipalDue(r.schedule.installments, d)]
    BY <1>1 DEF PaidOn
  <2> QED BY <1>1, <2>1 DEF Owed, PaidBy
<1>2. CASE r.schedule.type = "bullet" /\ r.maturity <= day
  <2> DEFINE days == 0 .. day
             nothing == [d \in Dates |-> 0]
             once == [d \in Dates |-> PaidOn(r, d)]
  <2>1. MaxDate \in Nat /\ day \in Nat /\ r.maturity \in Nat /\ r.amount \in Int
    BY TermsAssumption, ScheduleType DEF Dates
  <2>2. days \subseteq Dates
    BY <2>1 DEF Dates
  <2>3. IsFiniteSet(days)
    BY <2>1, FS_Interval
  <2>4. r.maturity \in days
    BY <1>2, <2>1
  <2>5. \A d \in days :
          /\ nothing[d] = 0 /\ nothing[d] \in Int /\ once[d] \in Int
          /\ d # r.maturity => once[d] = nothing[d]
          /\ d = r.maturity => once[d] = r.amount
    BY <1>2, <2>1, <2>2 DEF PaidOn
  <2> HIDE DEF nothing, once, days
  <2>6. SumFunctionOnSet(nothing, days) = 0
    BY <2>3, <2>5, SumOfZeros
  <2>7. SumFunctionOnSet(once, days) =
          SumFunctionOnSet(nothing, days)
          + (IF r.maturity \in days THEN once[r.maturity] - nothing[r.maturity] ELSE 0)
    BY <2>3, <2>5, SumUpdated
  <2>8. SumFunctionOnSet(once, days) = r.amount
    BY <2>1, <2>4, <2>5, <2>6, <2>7
  <2>9. Owed(r, day) = r.amount - SumFunctionOnSet(once, days)
    BY DEF Owed, once, days
  <2> QED BY <1>2, <2>1, <2>8, <2>9
<1> QED BY <1>1, <1>2

\* A stored agreement is repaid to the last unit by the end of its maturity date.
THEOREM Repaid == Spec => []RepaidByMaturity
<1>1. StoredIsValid => RepaidByMaturity
  <2> SUFFICES ASSUME StoredIsValid, stored # NoAgreement,
                      NEW day \in stored.maturity .. MaxDate
               PROVE  Owed(stored, day) = 0
    BY DEF RepaidByMaturity
  <2> DEFINE list == stored.schedule.installments
  <2>1. stored \in Requests /\ Valid(stored)
    BY DEF StoredIsValid
  <2>2. stored.amount \in Int /\ stored.maturity \in Nat /\ MaxDate \in Nat
    BY <2>1, TermsAssumption, ScheduleType DEF Dates
  <2>3. day \in Dates /\ day \in Nat /\ stored.maturity <= day
    BY <2>2 DEF Dates
  <2>4. CASE stored.schedule.type = "bullet"
    BY <2>1, <2>3, <2>4, OwedOfSchedule
  <2>5. CASE stored.schedule.type = "amortizing"
    <3>1. list \in Seq(Installments)
      BY <2>1, <2>5, ScheduleType
    <3>2. /\ Principal(list) = stored.amount
          /\ \A n \in DOMAIN list : list[n].due <= stored.maturity
      BY <2>1, <2>5 DEF Valid, SchedulePasses
    <3>3. Owed(stored, day) = stored.amount - PaidBy(list, day)
      BY <2>1, <2>3, <2>5, OwedOfSchedule
    <3> HIDE DEF list
    <3>4. PICK g : Totals(g, list)
      BY <3>1, TotalsExist
    <3>5. Len(list) \in 0 .. Len(list)
      BY <3>1
    <3>6. \A k \in 1 .. Len(list) : list[k].due <= day <=> k <= Len(list)
      <4>1. \A k \in 1 .. Len(list) :
              list[k].due \in Nat /\ list[k].due <= stored.maturity /\ k <= Len(list)
        BY <3>1, <3>2, InstallmentType
      <4> QED BY <2>2, <2>3, <4>1
    <3>7. PaidBy(list, day) = g[Len(list)]
      BY <2>3, <3>1, <3>4, <3>5, <3>6, PaidByIsTotal
    <3>8. PaidBy(list, day) = stored.amount
      BY <3>2, <3>4, <3>7 DEF Totals
    <3> QED BY <2>2, <3>3, <3>8
  <2> QED BY <2>1, <2>4, <2>5, ScheduleType
<1> QED BY <1>1, OnlyValidStored, PTL

----------------------------------------------------------------------------
(***************************************************************************)
(* The calendar: the validator compares neighbours only.                   *)
(***************************************************************************)

\* Due dates that increase from one to the next increase over any distance.
LEMMA DatesIncreaseThroughout ==
  ASSUME NEW list \in Seq(Installments), DatesIncrease(list),
         NEW m \in 1 .. Len(list), NEW n \in 1 .. Len(list), m < n
  PROVE  list[m].due < list[n].due
<1> DEFINE Far == {d \in Nat : m + d + 1 <= Len(list) => list[m].due < list[m + d + 1].due}
<1>1. \A k \in 1 .. Len(list) : list[k].due \in Nat
  BY InstallmentType
<1>2. \A k \in 1 .. Len(list) : k + 1 <= Len(list) => list[k].due < list[k + 1].due
  <2> SUFFICES ASSUME NEW k \in 1 .. Len(list), k + 1 <= Len(list)
               PROVE  list[k].due < list[k + 1].due
    OBVIOUS
  <2>1. k + 1 \in 2 .. Len(list) /\ (k + 1) - 1 = k
    OBVIOUS
  <2> QED BY <2>1 DEF DatesIncrease
<1>3. 0 \in Far
  <2>1. m + 0 + 1 = m + 1
    OBVIOUS
  <2> QED BY <1>2, <2>1
<1>4. ASSUME NEW d \in Nat, d \in Far PROVE d + 1 \in Far
  <2> DEFINE k == m + d + 1
  <2> SUFFICES ASSUME k + 1 <= Len(list) PROVE list[m].due < list[k + 1].due
    <3>1. m + (d + 1) + 1 = k + 1
      OBVIOUS
    <3> QED BY <3>1
  <2>1. k \in 1 .. Len(list) /\ k + 1 \in 1 .. Len(list) /\ k <= Len(list)
    OBVIOUS
  <2>2. list[m].due < list[k].due
    BY <1>4, <2>1
  <2> HIDE DEF k
  <2>3. list[k].due < list[k + 1].due
    BY <1>2, <2>1
  <2> QED BY <1>1, <2>1, <2>2, <2>3
<1>5. n - m - 1 \in Nat /\ m + (n - m - 1) + 1 = n
  OBVIOUS
<1>6. n - m - 1 \in Far
  <2> HIDE DEF Far
  <2> QED BY <1>3, <1>4, <1>5, NatSetInduction
<1> QED BY <1>5, <1>6

\* The total of the first n installments is the principal of their list.
LEMMA TotalOfPrefix ==
  ASSUME NEW list \in Seq(Installments), NEW g, Totals(g, list), NEW n \in 1 .. Len(list)
  PROVE  Principal(SubSeq(list, 1, n)) = g[n]
<1> DEFINE sub == SubSeq(list, 1, n)
<1>1. /\ sub \in Seq(Installments) /\ Len(sub) = n /\ n \in Nat
      /\ \A k \in 1 .. n : sub[k] = list[k] /\ k \in 1 .. Len(list)
  OBVIOUS
<1> HIDE DEF sub
<1>2. PICK h : Totals(h, sub)
  BY <1>1, TotalsExist
<1> DEFINE Same == {k \in Nat : k <= n => h[k] = g[k]}
<1>3. 0 \in Same
  BY <1>2 DEF Totals
<1>4. ASSUME NEW k \in Nat, k \in Same PROVE k + 1 \in Same
  <2> SUFFICES ASSUME k + 1 <= n PROVE h[k + 1] = g[k + 1]
    OBVIOUS
  <2>1. k + 1 \in 1 .. n /\ (k + 1) - 1 = k /\ k <= n
    BY <1>1
  <2>2. h[k + 1] = h[k] + list[k + 1].principal
    BY <1>1, <1>2, <2>1 DEF Totals
  <2>3. g[k + 1] = g[k] + list[k + 1].principal
    BY <1>1, <2>1 DEF Totals
  <2> QED BY <1>4, <2>1, <2>2, <2>3
<1>5. n \in Same
  <2> HIDE DEF Same
  <2> QED BY <1>1, <1>3, <1>4, NatSetInduction
<1>6. Principal(sub) = h[n]
  BY <1>1, <1>2 DEF Totals
<1> QED BY <1>1, <1>5, <1>6 DEF sub

\* In a stored schedule exactly the first n installments are paid by the n-th due
\* date: comparing neighbours orders the whole list.
THEOREM Calendar == Spec => []InstallmentsAreACalendar
<1>1. StoredIsValid => InstallmentsAreACalendar
  <2> SUFFICES ASSUME StoredIsValid, stored # NoAgreement,
                      stored.schedule.type = "amortizing",
                      NEW n \in DOMAIN stored.schedule.installments
               PROVE  LET list == stored.schedule.installments IN
                      /\ {m \in DOMAIN list : list[m].due <= list[n].due} = 1 .. n
                      /\ Owed(stored, list[n].due) =
                           stored.amount - Principal(SubSeq(list, 1, n))
    BY DEF InstallmentsAreACalendar
  <2> DEFINE list == stored.schedule.installments
  <2>1. stored \in Requests /\ Valid(stored)
    BY DEF StoredIsValid
  <2>2. list \in Seq(Installments) /\ DatesIncrease(list)
    BY <2>1, ScheduleType DEF Valid, SchedulePasses
  <2>3. \A day \in Dates : Owed(stored, day) = stored.amount - PaidBy(list, day)
    BY <2>1, OwedOfSchedule
  <2> HIDE DEF list
  <2>4. DOMAIN list = 1 .. Len(list) /\ n \in 1 .. Len(list) /\ Len(list) \in Nat
    BY <2>2 DEF list
  <2>5. \A k \in 1 .. Len(list) : list[k].due \in Nat /\ list[k].due \in Dates
    BY <2>2, InstallmentType
  <2>6. ASSUME NEW k \in 1 .. Len(list) PROVE list[k].due <= list[n].due <=> k <= n
    <3>1. CASE k < n
      BY <2>2, <2>4, <2>5, <3>1, DatesIncreaseThroughout
    <3>2. CASE k = n
      BY <2>4, <2>5, <3>2
    <3>3. CASE n < k
      <4>1. list[n].due < list[k].due
        BY <2>2, <2>4, <3>3, DatesIncreaseThroughout
      <4> QED BY <2>4, <2>5, <3>3, <4>1
    <3> QED BY <2>4, <3>1, <3>2, <3>3
  <2>7. {m \in DOMAIN list : list[m].due <= list[n].due} = 1 .. n
    BY <2>4, <2>6
  <2>8. PICK g : Totals(g, list)
    BY <2>2, TotalsExist
  <2>9. PaidBy(list, list[n].due) = g[n]
    <3>1. n \in 0 .. Len(list)
      BY <2>4
    <3> QED BY <2>2, <2>4, <2>5, <2>6, <2>8, <3>1, PaidByIsTotal
  <2>10. Principal(SubSeq(list, 1, n)) = g[n]
    BY <2>2, <2>4, <2>8, TotalOfPrefix
  <2>11. Owed(stored, list[n].due) = stored.amount - Principal(SubSeq(list, 1, n))
    BY <2>3, <2>4, <2>5, <2>9, <2>10
  <2> QED BY <2>7, <2>11 DEF list
<1> QED BY <1>1, OnlyValidStored, PTL
============================================================================
