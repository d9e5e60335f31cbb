------------------------ MODULE AgreementReadsProofs ------------------------
(***************************************************************************)
(* What a client finds who reads the listing page by page, for any         *)
(* agreements, any limit and any number of changes in between.             *)
(***************************************************************************)
EXTENDS AgreementReads, FoldTheorems

\* How many of the first k items of s are in M.
Count(s, M, k) == Cardinality({n \in 1 .. k : s[n] \in M})

\* The count goes up by one with each item of the set.
LEMMA CountSteps ==
  ASSUME NEW s, NEW M, NEW k \in Nat
  PROVE  /\ Count(s, M, k) \in Nat
         /\ Count(s, M, 0) = 0
         /\ Count(s, M, k + 1) = IF s[k + 1] \in M THEN Count(s, M, k) + 1 ELSE Count(s, M, k)
<1> DEFINE S(i) == {n \in 1 .. i : s[n] \in M}
<1>1. IsFiniteSet(1 .. k)
  BY FS_Interval
<1>2. IsFiniteSet(S(k)) /\ Cardinality(S(k)) \in Nat
  BY <1>1, FS_Subset, FS_CardinalityType
<1>3. S(0) = {}
  OBVIOUS
<1>4. CASE s[k + 1] \in M
  <2>1. S(k + 1) = S(k) \cup {k + 1} /\ k + 1 \notin S(k)
    BY <1>4
  <2> HIDE DEF S
  <2>2. Cardinality(S(k + 1)) = Cardinality(S(k)) + 1
    BY <1>2, <2>1, FS_AddElement
  <2> QED BY <1>2, <1>3, <1>4, <2>2, FS_EmptySet DEF Count, S
<1>5. CASE s[k + 1] \notin M
  <2>1. S(k + 1) = S(k)
    BY <1>5
  <2> QED BY <1>2, <1>3, <1>5, <2>1, FS_EmptySet DEF Count
<1> QED BY <1>4, <1>5

\* More items, and more of them in the set, count more.
LEMMA CountMonotone ==
  ASSUME NEW s, NEW t, NEW M, NEW N, NEW k \in Nat, NEW m \in Nat, k <= m,
         \A n \in 1 .. k : s[n] \in M => t[n] \in N
  PROVE  Count(s, M, k) <= Count(t, N, m)
<1> DEFINE S == {n \in 1 .. k : s[n] \in M}
           T == {n \in 1 .. m : t[n] \in N}
<1>1. IsFiniteSet(1 .. m)
  BY FS_Interval
<1>2. S \subseteq T /\ T \subseteq 1 .. m
  OBVIOUS
<1> HIDE DEF S, T
<1>3. IsFiniteSet(T)
  BY <1>1, <1>2, FS_Subset
<1>4. Cardinality(S) <= Cardinality(T)
  BY <1>2, <1>3, FS_Subset
<1> QED BY <1>4 DEF Count, S, T

----------------------------------------------------------------------------
(***************************************************************************)
(* The filter and the page.                                                *)
(***************************************************************************)

\* list holds those of the first k items of s that are in M, each at its place.
IsFilter(list, s, M, k) ==
  /\ list \in Seq(Agreements)
  /\ Len(list) = Count(s, M, k)
  /\ \A p \in 1 .. k : s[p] \in M => list[Count(s, M, p)] = s[p]
  /\ \A i \in 1 .. Len(list) : \E p \in 1 .. k : s[p] \in M /\ Count(s, M, p) = i

\* Appending the next item, or leaving it out.
LEMMA FilterStep ==
  ASSUME NEW s \in Seq(Agreements), NEW M, NEW k \in 0 .. Len(s) - 1,
         NEW list, IsFilter(list, s, M, k)
  PROVE  IsFilter(IF s[k + 1] \in M THEN Append(list, s[k + 1]) ELSE list, s, M, k + 1)
<1> DEFINE a == s[k + 1]
           c == Count(s, M, k)
<1>1. /\ k \in Nat /\ a \in Agreements /\ k + 1 \in 1 .. k + 1
      /\ \A p \in 1 .. k + 1 : p \in 1 .. k \/ p = k + 1
      /\ \A p \in 1 .. k : p \in 1 .. k + 1 /\ p \in Nat /\ p <= k
  OBVIOUS
<1>2. /\ c \in Nat
      /\ Count(s, M, k + 1) = IF a \in M THEN c + 1 ELSE c
  BY <1>1, CountSteps
<1>3. list \in Seq(Agreements) /\ Len(list) = c
  BY DEF IsFilter
<1>4. \A p \in 1 .. k : s[p] \in M => Count(s, M, p) \in 1 .. c
  <2> SUFFICES ASSUME NEW p \in 1 .. k, s[p] \in M PROVE Count(s, M, p) \in 1 .. c
    OBVIOUS
  <2>1. p - 1 \in Nat /\ (p - 1) + 1 = p /\ p \in Nat
    OBVIOUS
  <2>2. Count(s, M, p - 1) \in Nat /\ Count(s, M, p) = Count(s, M, p - 1) + 1
    BY <2>1, CountSteps
  <2>3. Count(s, M, p) <= c
    BY <1>1, CountMonotone
  <2> QED BY <1>2, <2>2, <2>3
<1> HIDE DEF c, a
<1>5. CASE a \in M
  <2> DEFINE more == Append(list, a)
  <2>1. /\ more \in Seq(Agreements) /\ Len(more) = c + 1 /\ more[c + 1] = a
        /\ \A i \in 1 .. c : more[i] = list[i]
    BY <1>1, <1>2, <1>3
  <2> HIDE DEF more
  <2>2. Len(more) = Count(s, M, k + 1)
    BY <1>2, <1>5, <2>1
  <2>3. ASSUME NEW p \in 1 .. k + 1, s[p] \in M PROVE more[Count(s, M, p)] = s[p]
    <3>1. CASE p = k + 1
      BY <1>2, <1>5, <2>1, <3>1 DEF a
    <3>2. CASE p \in 1 .. k
      BY <1>4, <2>1, <2>3, <3>2 DEF IsFilter
    <3> QED BY <1>1, <3>1, <3>2
  <2>4. ASSUME NEW i \in 1 .. Len(more)
        PROVE  \E p \in 1 .. k + 1 : s[p] \in M /\ Count(s, M, p) = i
    <3>1. CASE i = c + 1
      BY <1>1, <1>2, <1>5, <3>1 DEF a
    <3>2. CASE i \in 1 .. c
      <4>1. PICK p \in 1 .. k : s[p] \in M /\ Count(s, M, p) = i
        BY <1>3, <3>2 DEF IsFilter
      <4> QED BY <1>1, <4>1
    <3>3. i = c + 1 \/ i \in 1 .. c
      BY <1>2, <2>1
    <3> QED BY <3>1, <3>2, <3>3
  <2>5. IsFilter(more, s, M, k + 1)
    BY <2>1, <2>2, <2>3, <2>4 DEF IsFilter
  <2> QED BY <1>5, <2>5 DEF more, a
<1>6. CASE a \notin M
  <2>1. ASSUME NEW p \in 1 .. k + 1, s[p] \in M PROVE p \in 1 .. k
    BY <1>1, <1>6, <2>1 DEF a
  <2>2. IsFilter(list, s, M, k + 1)
    <3>1. \A p \in 1 .. k + 1 : s[p] \in M => list[Count(s, M, p)] = s[p]
      BY <2>1 DEF IsFilter
    <3>2. \A i \in 1 .. Len(list) : \E p \in 1 .. k + 1 : s[p] \in M /\ Count(s, M, p) = i
      BY <1>1 DEF IsFilter
    <3> QED BY <1>2, <1>3, <1>6, <3>1, <3>2 DEF IsFilter
  <2> QED BY <1>6, <2>2 DEF a
<1> QED BY <1>5, <1>6

\* The filter of list_agreements.
LEMMA MatchingIsFilter ==
  ASSUME NEW s \in Seq(Agreements)
  PROVE  IsFilter(Matching(s), s, matches, Len(s))
<1> DEFINE n == Len(s)
           V == Seq(Agreements)
           step == [p \in (1 .. n) \X V |->
                      IF s[p[1]] \in matches THEN Append(p[2], s[p[1]]) ELSE p[2]]
           Unrolled(f) == f = [t \in SUBSET DOMAIN s |->
                                 IF t = {} THEN <<>>
                                 ELSE IF s[Max(t)] \in matches
                                 THEN Append(f[t \ {Max(t)}], s[Max(t)])
                                 ELSE f[t \ {Max(t)}]]
           loop == CHOOSE f : Unrolled(f)
           g == InitialParts(loop, n)
<1>1. n \in Nat /\ DOMAIN s = 1 .. n /\ \A k \in 1 .. n : s[k] \in Agreements
  OBVIOUS
<1>2. <<>> \in V
  OBVIOUS
<1>3. step \in [(1 .. n) \X V -> V]
  BY <1>1
<1>4. PICK f \in [SUBSET (1 .. n) -> V] : IsSeqFold(f, n, <<>>, step)
  <2> HIDE DEF step, n, V
  <2> QED BY <1>1, <1>2, <1>3, SeqFoldExists
<1>5. \A t \in (SUBSET (1 .. n)) \ {{}} : Max(t) \in 1 .. n
  BY <1>1, MaxIsIn
<1>6. Unrolled(f)
  <2> HIDE DEF V
  <2> QED BY <1>1, <1>4, <1>5 DEF IsSeqFold
<1>7. Unrolled(loop)
  BY <1>6, Zenon
<1>8. Matching(s) = g[n]
  <2>1. Matching(s) = loop[DOMAIN s]
    BY Zenon DEF Matching, FoldLeft, MapThenFoldSet
  <2> QED BY <1>1, <2>1 DEF InitialParts
<1> HIDE DEF loop, V
<1>9. IsRun(g, n, V, <<>>, step)
  <2>1. Unfolds(loop, n, V, <<>>, step)
    BY <1>1, <1>5, <1>7 DEF Unfolds
  <2> HIDE DEF step, n
  <2> QED BY <1>1, <1>2, <1>3, <2>1, SeqFoldRun
<1>10. ASSUME NEW k \in 1 .. n
       PROVE  g[k] = IF s[k] \in matches THEN Append(g[k - 1], s[k]) ELSE g[k - 1]
  <2>1. k - 1 \in 0 .. n
    BY <1>1
  <2> HIDE DEF g
  <2>2. g[k - 1] \in V
    BY <1>9, <2>1 DEF IsRun
  <2> QED BY <1>9, <2>2 DEF IsRun
<1> DEFINE Filtered == {k \in Nat : k <= n => IsFilter(g[k], s, matches, k)}
<1>11. 0 \in Filtered
  <2>1. g[0] = <<>>
    BY <1>9 DEF IsRun
  <2>2. Count(s, matches, 0) = 0
    BY CountSteps
  <2> HIDE DEF g
  <2>3. IsFilter(<<>>, s, matches, 0)
    BY <2>2 DEF IsFilter
  <2> QED BY <2>1, <2>3
<1>12. ASSUME NEW k \in Nat, k \in Filtered PROVE k + 1 \in Filtered
  <2> SUFFICES ASSUME k + 1 <= n PROVE IsFilter(g[k + 1], s, matches, k + 1)
    OBVIOUS
  <2>1. k + 1 \in 1 .. n /\ (k + 1) - 1 = k /\ k \in 0 .. n - 1 /\ k <= n
    BY <1>1
  <2> HIDE DEF g
  <2>2. IsFilter(g[k], s, matches, k)
    BY <1>12, <2>1
  <2>3. g[k + 1] = IF s[k + 1] \in matches THEN Append(g[k], s[k + 1]) ELSE g[k]
    BY <1>10, <2>1
  <2> QED BY <2>1, <2>2, <2>3, FilterStep
<1>13. n \in Filtered
  <2> HIDE DEF Filtered
  <2> QED BY <1>1, <1>11, <1>12, NatSetInduction
<1> QED BY <1>1, <1>8, <1>13

\* What is on a page, by the places of the matching agreements, and when a page is
\* full.
LEMMA PageItems ==
  ASSUME NEW s \in Seq(Agreements), IsInjective(s), NEW offset \in Nat
  PROVE  /\ \A p \in 1 .. Len(s) :
              s[p] \in Range(Page(s, offset)) <=>
                /\ s[p] \in matches
                /\ offset < Count(s, matches, p) /\ Count(s, matches, p) <= offset + Limit
         /\ Len(Page(s, offset)) = Limit <=> offset + Limit <= Count(s, matches, Len(s))
         /\ Range(Page(s, offset)) \subseteq Range(s)
<1> DEFINE list == Matching(s)
           c == Len(list)
           last == IF offset + Limit <= c THEN offset + Limit ELSE c
           page == SubSeq(list, offset + 1, last)
<1>1. IsFilter(list, s, matches, Len(s))
  BY MatchingIsFilter
<1> HIDE DEF list
<1>2. list \in Seq(Agreements) /\ c \in Nat /\ c = Count(s, matches, Len(s))
  BY <1>1 DEF IsFilter
<1>3. Limit \in Nat /\ Limit > 0
  BY LimitAssumption
<1>4. Page(s, offset) = page
  BY DEF Page, list
<1>5. /\ DOMAIN page = 1 .. last - offset
      /\ \A i \in 1 .. last - offset : page[i] = list[i + offset]
  BY <1>2, <1>3
<1>6. Len(page) = IF offset < last THEN last - offset ELSE 0
  BY <1>2, <1>3
<1>7. Len(page) = Limit <=> offset + Limit <= c
  <2> HIDE DEF page, c
  <2> QED BY <1>2, <1>3, <1>6
<1>8. Range(page) = {list[i] : i \in offset + 1 .. last}
  <2>1. \A i \in 1 .. last - offset : i + offset \in offset + 1 .. last
    BY <1>2, <1>3
  <2>2. \A i \in offset + 1 .. last : i - offset \in 1 .. last - offset /\ (i - offset) + offset = i
    BY <1>2, <1>3
  <2> HIDE DEF page, last
  <2> QED BY <1>5, <2>1, <2>2 DEF Range
<1> HIDE DEF page
<1>9. DOMAIN s = 1 .. Len(s) /\ Len(s) \in Nat
  OBVIOUS
<1>10. \A i \in 1 .. c : \E p \in 1 .. Len(s) :
         s[p] \in matches /\ Count(s, matches, p) = i /\ list[i] = s[p]
  BY <1>1 DEF IsFilter
<1>11. \A i \in offset + 1 .. last : i \in 1 .. c /\ i <= offset + Limit
  BY <1>2, <1>3
<1>12. Range(page) \subseteq Range(s)
  <2> SUFFICES ASSUME NEW x \in Range(page) PROVE x \in Range(s)
    OBVIOUS
  <2>1. PICK i \in offset + 1 .. last : x = list[i]
    BY <1>8
  <2>2. PICK p \in 1 .. Len(s) : list[i] = s[p]
    BY <1>10, <1>11
  <2> QED BY <1>9, <2>1, <2>2 DEF Range
<1>13. ASSUME NEW p \in 1 .. Len(s), s[p] \in Range(page)
       PROVE  /\ s[p] \in matches
              /\ offset < Count(s, matches, p) /\ Count(s, matches, p) <= offset + Limit
  <2>1. PICK i \in offset + 1 .. last : s[p] = list[i]
    BY <1>8, <1>13
  <2>2. PICK q \in 1 .. Len(s) : s[q] \in matches /\ Count(s, matches, q) = i /\ list[i] = s[q]
    BY <1>10, <1>11
  <2>3. q = p
    BY <1>9, <2>1, <2>2 DEF IsInjective
  <2>4. offset < i /\ i <= offset + Limit
    BY <1>2, <1>3
  <2> QED BY <2>2, <2>3, <2>4
<1>14. ASSUME NEW p \in 1 .. Len(s), s[p] \in matches,
              offset < Count(s, matches, p), Count(s, matches, p) <= offset + Limit
       PROVE  s[p] \in Range(page)
  <2> DEFINE i == Count(s, matches, p)
  <2>1. list[i] = s[p]
    BY <1>1, <1>14 DEF IsFilter
  <2>2. p \in Nat /\ p <= Len(s)
    OBVIOUS
  <2>3. i \in Nat /\ i <= c
    <3>1. Count(s, matches, p) <= Count(s, matches, Len(s))
      BY <1>9, <2>2, CountMonotone
    <3> QED BY <1>2, <2>2, <3>1, CountSteps
  <2> HIDE DEF i
  <2>4. i \in offset + 1 .. last
    BY <1>2, <1>3, <1>14, <2>3 DEF i
  <2> QED BY <1>8, <2>1, <2>4
<1> QED BY <1>2, <1>4, <1>7, <1>12, <1>13, <1>14

----------------------------------------------------------------------------
(***************************************************************************)
(* Types.  An offset stays within one page of the end of the store because *)
(* a page that was full had a whole page of agreements before its end.     *)
(***************************************************************************)

\* A new agreement is the last one, and the only one with its id.
LEMMA StoreGrows ==
  ASSUME TypeOK, NEW a \in Agreements, a \notin Range(store)
  PROVE  /\ Append(store, a) \in Seq(Agreements) /\ IsInjective(Append(store, a))
         /\ Range(Append(store, a)) = Range(store) \cup {a}
         /\ Len(Append(store, a)) = Len(store) + 1
<1> DEFINE more == Append(store, a)
           k == Len(store)
<1>1. store \in Seq(Agreements) /\ IsInjective(store)
  BY DEF TypeOK
<1>2. /\ k \in Nat /\ more \in Seq(Agreements) /\ Len(more) = k + 1 /\ more[k + 1] = a
      /\ DOMAIN more = 1 .. k + 1 /\ DOMAIN store = 1 .. k
      /\ \A n \in 1 .. k : more[n] = store[n] /\ n \in 1 .. k + 1
      /\ \A n \in 1 .. k + 1 : n = k + 1 \/ n \in 1 .. k
      /\ k + 1 \in 1 .. k + 1
  BY <1>1
<1> HIDE DEF more, k
<1>3. \A n \in 1 .. k : store[n] \in Range(store) /\ store[n] # a
  BY <1>2 DEF Range
<1>4. IsInjective(more)
  BY <1>1, <1>2, <1>3 DEF IsInjective
<1>5. Range(more) = Range(store) \cup {a}
  <2>1. ASSUME NEW n \in 1 .. k + 1 PROVE more[n] \in Range(store) \cup {a}
    BY <1>2, <1>3
  <2>2. Range(more) \subseteq Range(store) \cup {a}
    BY <1>2, <2>1 DEF Range
  <2>3. ASSUME NEW x \in Range(store) PROVE x \in Range(more)
    <3>1. PICK n \in 1 .. k : store[n] = x
      BY <1>2 DEF Range
    <3> QED BY <1>2, <3>1 DEF Range
  <2>4. a \in Range(more)
    BY <1>2 DEF Range
  <2> QED BY <2>2, <2>3, <2>4
<1> QED BY <1>2, <1>4, <1>5 DEF more, k

\* Whatever list_all() returns, it holds each agreement once.
LEMMA ListingType ==
  ASSUME TypeOK, NEW s \in Listings
  PROVE  /\ s \in Seq(Agreements) /\ IsInjective(s)
         /\ Len(s) = Len(store) /\ Range(s) \subseteq Range(store)
<1>1. /\ store \in Seq(Agreements) /\ IsInjective(store)
      /\ DOMAIN store = 1 .. Len(store) /\ Len(store) \in Nat
  BY DEF TypeOK
<1>2. CASE keepsOrder
  BY <1>1, <1>2 DEF Listings
<1>3. CASE ~keepsOrder
  <2>1. s \in [1 .. Len(store) -> Range(store)] /\ IsInjective(s)
    BY <1>1, <1>3 DEF Listings
  <2>2. Range(store) \subseteq Agreements
    BY <1>1 DEF Range
  <2>3. s \in Seq(Agreements) /\ Len(s) = Len(store)
    BY <1>1, <2>1, <2>2
  <2>4. Range(s) \subseteq Range(store)
    BY <2>1 DEF Range
  <2> QED BY <2>1, <2>3, <2>4
<1> QED BY <1>2, <1>3

\* The client reads on only while its offset is within the store.
PagesInStore == sweep.open => sweep.offset <= Len(store)

\* The next offset is a whole number of pages again.
LEMMA NextOffset ==
  ASSUME NEW offset, NEW k \in Nat,
         offset \in {n * Limit : n \in 0 .. k + 1}, offset <= k
  PROVE  offset \in Nat /\ offset + Limit \in {n * Limit : n \in 0 .. k + 1}
<1>1. Limit \in Nat /\ Limit >= 1
  BY LimitAssumption
<1>2. PICK n \in 0 .. k + 1 : offset = n * Limit
  OBVIOUS
<1>3. n \in Nat /\ n * Limit \in Nat
  BY <1>1
<1>4. n <= n * Limit
  BY <1>1, <1>3
<1>5. (n + 1) * Limit = n * Limit + Limit
  BY <1>1, <1>3
<1>6. n + 1 \in 0 .. k + 1
  BY <1>2, <1>3, <1>4
<1> QED BY <1>2, <1>3, <1>5, <1>6

\* An offset is a natural number.
LEMMA OffsetType ==
  ASSUME TypeOK
  PROVE  sweep.offset \in Nat
<1>1. \A n \in Nat : n * Limit \in Nat
  BY LimitAssumption
<1>2. PICK n \in 0 .. Len(store) + 1 : sweep.offset = n * Limit
  BY DEF TypeOK
<1> QED BY <1>1, <1>2

\* Every page moves the offset by one limit.
LEMMA PageRead ==
  ASSUME TypeOK, PagesInStore, ReadPage
  PROVE  \E s \in Listings :
           /\ sweep' = [open |-> Len(Page(s, sweep.offset)) = Limit,
                        offset |-> sweep.offset + Limit,
                        seen |-> sweep.seen \cup Range(Page(s, sweep.offset)),
                        twice |-> sweep.twice
                                  \cup (Range(Page(s, sweep.offset)) \cap sweep.seen)]
           /\ sweep.offset \in Nat
<1>1. sweep.offset \in Nat
  <2>1. Len(store) \in Nat
    BY DEF TypeOK
  <2> QED BY <2>1, NextOffset DEF ReadPage, TypeOK, PagesInStore
<1> QED BY <1>1 DEF ReadPage

\* The variables have their types.
THEOREM TypeCorrect == Spec => [](TypeOK /\ PagesInStore)
<1>1. Init => TypeOK /\ PagesInStore
  <2> SUFFICES ASSUME Init PROVE TypeOK /\ PagesInStore
    OBVIOUS
  <2>1. store = <<>> /\ Len(store) = 0 /\ DOMAIN store = {}
    BY DEF Init
  <2>2. store \in Seq(Agreements) /\ IsInjective(store)
    BY <2>1 DEF IsInjective
  <2>3. 0 \in {n * Limit : n \in 0 .. 0 + 1}
    <3>1. 0 = 0 * Limit /\ 0 \in 0 .. 0 + 1
      BY LimitAssumption
    <3> QED BY <3>1
  <2> QED BY <2>1, <2>2, <2>3 DEF Init, TypeOK, PagesInStore, NoSweep
<1>2. TypeOK /\ PagesInStore /\ [Next]_vars => (TypeOK /\ PagesInStore)'
  <2> SUFFICES ASSUME TypeOK, PagesInStore, [Next]_vars PROVE TypeOK' /\ PagesInStore'
    OBVIOUS
  <2>0. store \in Seq(Agreements) /\ Len(store) \in Nat /\ Limit \in Nat
    BY LimitAssumption DEF TypeOK
  <2>1. ASSUME NEW a \in Agreements, NEW filtered \in BOOLEAN, Create(a, filtered)
        PROVE  TypeOK' /\ PagesInStore'
    <3>1. /\ store' = Append(store, a) /\ a \notin Range(store)
          /\ UNCHANGED <<keepsOrder, sweep, stayed, left>>
          /\ matches' \subseteq matches \cup {a} /\ matches \subseteq matches'
          /\ entered' \subseteq entered \cup {a}
      BY <2>1 DEF Create
    <3>2. /\ store' \in Seq(Agreements) /\ IsInjective(store')
          /\ Range(store') = Range(store) \cup {a} /\ Len(store') = Len(store) + 1
      BY <3>1, StoreGrows
    <3>3. sweep.offset \in {n * Limit : n \in 0 .. Len(store') + 1}
      <4>1. PICK n \in 0 .. Len(store) + 1 : sweep.offset = n * Limit
        BY DEF TypeOK
      <4>2. n \in 0 .. Len(store') + 1
        BY <2>0, <3>2
      <4> QED BY <4>1, <4>2
    <3>4. sweep.open => sweep.offset <= Len(store')
      <4>1. sweep.open => sweep.offset \in Nat /\ sweep.offset <= Len(store)
        BY <2>0, NextOffset DEF TypeOK, PagesInStore
      <4> QED BY <2>0, <3>2, <4>1
    <3>5. TypeOK'
      BY <3>1, <3>2, <3>3 DEF TypeOK
    <3> QED BY <3>1, <3>4, <3>5 DEF PagesInStore
  <2>2. ASSUME NEW a \in Agreements, Enters(a) \/ Leaves(a) PROVE TypeOK' /\ PagesInStore'
    BY <2>2 DEF Enters, Leaves, TypeOK, PagesInStore
  <2>3. CASE Begin
    <3>1. sweep'.open /\ sweep'.offset = 0 /\ sweep'.seen = {} /\ sweep'.twice = {}
      BY <2>3 DEF Begin, NoSweep
    <3>2. 0 \in {n * Limit : n \in 0 .. Len(store) + 1}
      <4>1. 0 = 0 * Limit /\ 0 \in 0 .. Len(store) + 1
        BY <2>0
      <4> QED BY <4>1
    <3> QED BY <2>0, <2>3, <3>1, <3>2 DEF Begin, TypeOK, PagesInStore
  <2>4. CASE ReadPage
    <3> DEFINE page(s) == Page(s, sweep.offset)
    <3>1. PICK s \in Listings :
            /\ sweep' = [open |-> Len(page(s)) = Limit,
                         offset |-> sweep.offset + Limit,
                         seen |-> sweep.seen \cup Range(page(s)),
                         twice |-> sweep.twice \cup (Range(page(s)) \cap sweep.seen)]
            /\ sweep.offset \in Nat
      BY <2>4, PageRead
    <3>2. /\ s \in Seq(Agreements) /\ IsInjective(s)
          /\ Len(s) = Len(store) /\ Range(s) \subseteq Range(store)
      BY ListingType
    <3>3. /\ Len(page(s)) = Limit => sweep.offset + Limit <= Count(s, matches, Len(s))
          /\ Range(page(s)) \subseteq Range(store)
      BY <3>1, <3>2, PageItems
    <3>4. Count(s, matches, Len(s)) <= Len(store)
      <4> DEFINE S == 1 .. Len(s)
                 T == {n \in S : s[n] \in matches}
      <4>1. IsFiniteSet(S) /\ Cardinality(S) = Len(s)
        <5>1. Len(s) \in Nat /\ 1 \in Int
          BY <2>0, <3>2
        <5>2. IsFiniteSet(S) /\ Cardinality(S) = IF 1 > Len(s) THEN 0 ELSE Len(s) - 1 + 1
          BY SMTT(30), <5>1, FS_Interval
        <5> QED BY <5>1, <5>2
      <4>2. T \subseteq S
        OBVIOUS
      <4> HIDE DEF S, T
      <4>3. Cardinality(T) <= Cardinality(S)
        BY <4>1, <4>2, FS_Subset
      <4> QED BY <3>2, <4>1, <4>3 DEF Count, S, T
    <3>5. sweep'.open => sweep'.offset <= Len(store)
      <4>1. Count(s, matches, Len(s)) \in Nat
        BY <2>0, <3>2, CountSteps
      <4> HIDE DEF page
      <4>2. sweep'.open => Len(page(s)) = Limit
        BY <3>1
      <4>3. sweep'.offset = sweep.offset + Limit /\ sweep.offset \in Nat
        BY <3>1
      <4> QED BY <2>0, <3>3, <3>4, <4>1, <4>2, <4>3
    <3>6. sweep'.offset \in {n * Limit : n \in 0 .. Len(store) + 1}
      <4>1. sweep.offset + Limit \in {n * Limit : n \in 0 .. Len(store) + 1}
        BY <2>0, <2>4, NextOffset DEF TypeOK, PagesInStore, ReadPage
      <4> QED BY <3>1, <4>1
    <3> HIDE DEF page
    <3>7. /\ sweep'.open \in BOOLEAN
          /\ sweep'.seen \subseteq Range(store) /\ sweep'.twice \subseteq sweep'.seen
      BY <3>1, <3>3 DEF TypeOK
    <3> QED BY <2>4, <3>5, <3>6, <3>7 DEF ReadPage, TypeOK, PagesInStore
  <2>5. CASE UNCHANGED vars
    BY <2>5 DEF vars, TypeOK, PagesInStore
  <2> QED BY <2>1, <2>2, <2>3, <2>4, <2>5 DEF Next
<1> QED BY <1>1, <1>2, PTL DEF Spec

----------------------------------------------------------------------------
(***************************************************************************)
(* The sweep.  The place of an agreement among the matching ones is how    *)
(* many of them were created before it.  What the client has not seen is   *)
(* at or behind its offset, unless an earlier agreement left; what it has  *)
(* seen lies before its offset, unless an earlier one entered.             *)
(***************************************************************************)

OneBefore(p, S) == \E n \in 1 .. p - 1 : store[n] \in S

UnseenAhead ==
  keepsOrder /\ sweep.open =>
    \A p \in 1 .. Len(store) : store[p] \in stayed \ sweep.seen =>
      OneBefore(p, left) \/ sweep.offset <= Count(store, matches, p - 1)

SeenBehind ==
  keepsOrder /\ sweep.open =>
    \A p \in 1 .. Len(store) : store[p] \in sweep.seen =>
      OneBefore(p, entered) \/ Count(store, matches, p - 1) < sweep.offset

\* The two promises, by the places of the agreements.
MissedLate ==
  keepsOrder /\ Swept =>
    \A p \in 1 .. Len(store) : store[p] \in stayed \ sweep.seen => OneBefore(p, left)

TwiceLate ==
  keepsOrder =>
    \A p \in 1 .. Len(store) : store[p] \in sweep.twice => OneBefore(p, entered)

SweepInv == UnseenAhead /\ SeenBehind /\ MissedLate /\ TwiceLate

\* Where one place of an injective store comes before another, so do the agreements.
LEMMA BeforeByPlace ==
  ASSUME TypeOK, NEW p \in 1 .. Len(store), NEW S, OneBefore(p, S)
  PROVE  \E b \in S : Before(b, store[p])
<1>1. PICK n \in 1 .. p - 1 : store[n] \in S
  BY DEF OneBefore
<1>2. n \in DOMAIN store /\ p \in DOMAIN store /\ n < p
  BY DEF TypeOK
<1> QED BY <1>1, <1>2 DEF Before

\* Every agreement of the histories has a place.
LEMMA PlaceOf ==
  ASSUME TypeOK, NEW a \in Range(store)
  PROVE  \E p \in 1 .. Len(store) : store[p] = a
  BY DEF TypeOK, Range

\* The place of an agreement among the matching ones.
LEMMA CountType ==
  ASSUME NEW p \in 1 .. Len(store)
  PROVE  /\ Count(store, matches, p - 1) \in Nat
         /\ Count(store, matches, p) = IF store[p] \in matches
                                       THEN Count(store, matches, p - 1) + 1
                                       ELSE Count(store, matches, p - 1)
<1>1. p - 1 \in Nat /\ (p - 1) + 1 = p
  OBVIOUS
<1> QED BY <1>1, CountSteps

\* A new agreement is behind all the others.
LEMMA CreateKeeps ==
  ASSUME TypeOK, SweepInv, NEW a \in Agreements, NEW filtered \in BOOLEAN, Create(a, filtered)
  PROVE  SweepInv'
<1> DEFINE k == Len(store)
<1>1. /\ store' = Append(store, a) /\ a \notin Range(store)
      /\ UNCHANGED <<keepsOrder, sweep, stayed, left>>
      /\ matches \subseteq matches' /\ matches' \subseteq matches \cup {a}
      /\ entered \subseteq entered'
  BY DEF Create
<1>2. /\ store \in Seq(Agreements) /\ k \in Nat
      /\ Len(store') = k + 1 /\ store'[k + 1] = a
      /\ \A n \in 1 .. k : store'[n] = store[n]
      /\ \A n \in 1 .. k + 1 : n \in 1 .. k \/ n = k + 1
  BY <1>1 DEF TypeOK
<1>3. \A n \in 1 .. k : store[n] # a
  BY <1>1, <1>2 DEF Range
<1>4. a \notin stayed /\ a \notin sweep.seen /\ a \notin sweep.twice
  BY <1>1 DEF TypeOK
<1>5. ASSUME NEW p \in 1 .. k
      PROVE  /\ OneBefore(p, left) => OneBefore(p, left)'
             /\ OneBefore(p, entered) => OneBefore(p, entered)'
             /\ Count(store', matches', p - 1) = Count(store, matches, p - 1)
  <2>1. \A n \in 1 .. p - 1 : n \in 1 .. k /\ store'[n] = store[n]
    BY <1>2
  <2>2. \A n \in 1 .. p - 1 : store'[n] \in matches' <=> store[n] \in matches
    BY <1>1, <1>3, <2>1
  <2>3. {n \in 1 .. p - 1 : store'[n] \in matches'} = {n \in 1 .. p - 1 : store[n] \in matches}
    BY <2>2
  <2> QED BY <1>1, <2>1, <2>3 DEF OneBefore, Count
<1>6. \A p \in 1 .. k + 1 :
        store'[p] \in stayed \/ store'[p] \in sweep.seen \/ store'[p] \in sweep.twice
        => p \in 1 .. k
  BY <1>2, <1>4
<1> HIDE DEF k
<1>7. UnseenAhead'
  BY <1>1, <1>2, <1>5, <1>6 DEF SweepInv, UnseenAhead, k
<1>8. SeenBehind'
  BY <1>1, <1>2, <1>5, <1>6 DEF SweepInv, SeenBehind, k
<1>9. MissedLate'
  BY <1>1, <1>2, <1>5, <1>6 DEF SweepInv, MissedLate, Swept, k
<1>10. TwiceLate'
  <2>1. sweep.twice \subseteq sweep.seen
    BY DEF TypeOK
  <2> QED BY <1>1, <1>2, <1>5, <1>6, <2>1 DEF SweepInv, TwiceLate, k
<1> QED BY <1>7, <1>8, <1>9, <1>10 DEF SweepInv

\* An agreement that begins to match moves the later ones back.
LEMMA EntersKeeps ==
  ASSUME TypeOK, SweepInv, NEW a \in Agreements, Enters(a)
  PROVE  SweepInv'
<1>1. /\ matches' = matches \cup {a} /\ entered' = entered \cup {a}
      /\ UNCHANGED <<keepsOrder, store, sweep, stayed, left>>
  BY DEF Enters
<1>2. ASSUME NEW p \in 1 .. Len(store)
      PROVE  /\ OneBefore(p, left)' <=> OneBefore(p, left)
             /\ OneBefore(p, entered) => OneBefore(p, entered)'
             /\ Count(store, matches', p - 1) \in Nat
             /\ Count(store, matches, p - 1) \in Nat
             /\ Count(store, matches, p - 1) <= Count(store, matches', p - 1)
             /\ OneBefore(p, entered)' \/ Count(store, matches', p - 1) <= Count(store, matches, p - 1)
  <2>1. p - 1 \in Nat /\ p - 1 <= p - 1
    OBVIOUS
  <2>2. Count(store, matches, p - 1) <= Count(store, matches', p - 1)
    BY <1>1, <2>1, CountMonotone
  <2>3. ASSUME ~OneBefore(p, entered)'
        PROVE  Count(store, matches', p - 1) <= Count(store, matches, p - 1)
    <3>1. \A n \in 1 .. p - 1 : store[n] \in matches' => store[n] \in matches
      BY <1>1, <2>3 DEF OneBefore
    <3> QED BY <2>1, <3>1, CountMonotone
  <2> QED BY <1>1, <2>1, <2>2, <2>3, CountSteps DEF OneBefore
<1>3. sweep.open => sweep.offset \in Nat
  BY OffsetType
<1>4. UnseenAhead'
  <2> SUFFICES ASSUME keepsOrder, sweep.open, NEW p \in 1 .. Len(store),
                      store[p] \in stayed', store[p] \notin sweep.seen, ~OneBefore(p, left)'
               PROVE  sweep.offset <= Count(store, matches', p - 1)
    BY <1>1 DEF UnseenAhead, OneBefore
  <2>1. sweep.offset <= Count(store, matches, p - 1)
    BY <1>1, <1>2 DEF SweepInv, UnseenAhead
  <2> QED BY <1>2, <1>3, <2>1
<1>5. SeenBehind'
  <2> SUFFICES ASSUME keepsOrder, sweep.open, NEW p \in 1 .. Len(store),
                      store[p] \in sweep.seen, ~OneBefore(p, entered)'
               PROVE  Count(store, matches', p - 1) < sweep.offset
    BY <1>1 DEF SeenBehind, OneBefore
  <2>1. Count(store, matches, p - 1) < sweep.offset
    BY <1>1, <1>2 DEF SweepInv, SeenBehind
  <2> QED BY <1>2, <1>3, <2>1
<1>6. MissedLate' /\ TwiceLate'
  BY <1>1, <1>2 DEF SweepInv, MissedLate, TwiceLate, Swept
<1> QED BY <1>4, <1>5, <1>6 DEF SweepInv

\* An agreement that ceases to match moves the later ones forward.
LEMMA LeavesKeeps ==
  ASSUME TypeOK, SweepInv, NEW a \in Agreements, Leaves(a)
  PROVE  SweepInv'
<1>1. /\ matches' = matches \ {a} /\ left' = left \cup {a} /\ stayed' = stayed \ {a}
      /\ UNCHANGED <<keepsOrder, store, sweep, entered>>
  BY DEF Leaves
<1>2. ASSUME NEW p \in 1 .. Len(store)
      PROVE  /\ OneBefore(p, entered)' <=> OneBefore(p, entered)
             /\ OneBefore(p, left) => OneBefore(p, left)'
             /\ Count(store, matches', p - 1) \in Nat
             /\ Count(store, matches, p - 1) \in Nat
             /\ Count(store, matches', p - 1) <= Count(store, matches, p - 1)
             /\ OneBefore(p, left)' \/ Count(store, matches, p - 1) <= Count(store, matches', p - 1)
  <2>1. p - 1 \in Nat /\ p - 1 <= p - 1
    OBVIOUS
  <2>2. Count(store, matches', p - 1) <= Count(store, matches, p - 1)
    BY <1>1, <2>1, CountMonotone
  <2>3. ASSUME ~OneBefore(p, left)'
        PROVE  Count(store, matches, p - 1) <= Count(store, matches', p - 1)
    <3>1. \A n \in 1 .. p - 1 : store[n] \in matches => store[n] \in matches'
      BY <1>1, <2>3 DEF OneBefore
    <3> QED BY <2>1, <3>1, CountMonotone
  <2> QED BY <1>1, <2>1, <2>2, <2>3, CountSteps DEF OneBefore
<1>3. sweep.open => sweep.offset \in Nat
  BY OffsetType
<1>4. UnseenAhead'
  <2> SUFFICES ASSUME keepsOrder, sweep.open, NEW p \in 1 .. Len(store),
                      store[p] \in stayed', store[p] \notin sweep.seen, ~OneBefore(p, left)'
               PROVE  sweep.offset <= Count(store, matches', p - 1)
    BY <1>1 DEF UnseenAhead, OneBefore
  <2>1. sweep.offset <= Count(store, matches, p - 1)
    BY <1>1, <1>2 DEF SweepInv, UnseenAhead
  <2> QED BY <1>2, <1>3, <2>1
<1>5. SeenBehind'
  <2> SUFFICES ASSUME keepsOrder, sweep.open, NEW p \in 1 .. Len(store),
                      store[p] \in sweep.seen, ~OneBefore(p, entered)'
               PROVE  Count(store, matches', p - 1) < sweep.offset
    BY <1>1 DEF SeenBehind, OneBefore
  <2>1. Count(store, matches, p - 1) < sweep.offset
    BY <1>1, <1>2 DEF SweepInv, SeenBehind
  <2> QED BY <1>2, <1>3, <2>1
<1>6. MissedLate' /\ TwiceLate'
  BY <1>1, <1>2 DEF SweepInv, MissedLate, TwiceLate, Swept
<1> QED BY <1>4, <1>5, <1>6 DEF SweepInv

\* A page shows the matching agreements of its places, and no others; the one that
\* is not full is the last.
LEMMA ReadPageKeeps ==
  ASSUME TypeOK, PagesInStore, SweepInv, ReadPage
  PROVE  SweepInv'
<1> DEFINE offset == sweep.offset
           page == Page(store, offset)
<1>0. store \in Seq(Agreements) /\ IsInjective(store) /\ Len(store) \in Nat /\ Limit \in Nat
  BY LimitAssumption DEF TypeOK
<1>1. /\ sweep.open /\ offset \in Nat
      /\ UNCHANGED <<keepsOrder, store, matches, stayed, left, entered>>
  BY OffsetType DEF ReadPage
<1>2. keepsOrder =>
        sweep' = [open |-> Len(page) = Limit,
                  offset |-> offset + Limit,
                  seen |-> sweep.seen \cup Range(page),
                  twice |-> sweep.twice \cup (Range(page) \cap sweep.seen)]
  BY PageRead DEF Listings
<1>3. ASSUME NEW p \in 1 .. Len(store)
      PROVE  /\ Count(store, matches, p - 1) \in Nat
             /\ store[p] \in Range(page) <=>
                  /\ store[p] \in matches
                  /\ offset < Count(store, matches, p - 1) + 1
                  /\ Count(store, matches, p - 1) + 1 <= offset + Limit
             /\ store[p] \in matches =>
                  Count(store, matches, p - 1) + 1 <= Count(store, matches, Len(store))
  <2>1. /\ Count(store, matches, p - 1) \in Nat
        /\ Count(store, matches, p) = IF store[p] \in matches
                                      THEN Count(store, matches, p - 1) + 1
                                      ELSE Count(store, matches, p - 1)
    BY CountType
  <2>2. store[p] \in Range(page) <=>
          /\ store[p] \in matches
          /\ offset < Count(store, matches, p) /\ Count(store, matches, p) <= offset + Limit
    BY <1>0, <1>1, PageItems
  <2>3. Count(store, matches, p) <= Count(store, matches, Len(store))
    BY <1>0, CountMonotone
  <2> HIDE DEF page, offset
  <2> QED BY <2>1, <2>2, <2>3
<1>4. /\ Len(page) = Limit <=> offset + Limit <= Count(store, matches, Len(store))
      /\ Count(store, matches, Len(store)) \in Nat
  BY <1>0, <1>1, PageItems, CountSteps
<1> SUFFICES ASSUME keepsOrder PROVE SweepInv'
  BY <1>1 DEF SweepInv, UnseenAhead, SeenBehind, MissedLate, TwiceLate
<1>5. /\ sweep'.open <=> Len(page) = Limit
      /\ sweep'.offset = offset + Limit
      /\ sweep'.seen = sweep.seen \cup Range(page)
      /\ sweep'.twice = sweep.twice \cup (Range(page) \cap sweep.seen)
  <2> HIDE DEF page, offset
  <2>1. sweep'.open <=> Len(page) = Limit
    <3>1. sweep'.open = (Len(page) = Limit)
      BY <1>2
    <3> QED BY <3>1
  <2>2. sweep'.offset = offset + Limit
    BY <1>2
  <2>3. /\ sweep'.seen = sweep.seen \cup Range(page)
        /\ sweep'.twice = sweep.twice \cup (Range(page) \cap sweep.seen)
    BY <1>2
  <2> QED BY <2>1, <2>2, <2>3
<1> HIDE DEF page
<1>6. ASSUME NEW p \in 1 .. Len(store), store[p] \in stayed \ sweep'.seen, ~OneBefore(p, left)
      PROVE  /\ offset + Limit <= Count(store, matches, p - 1)
             /\ offset + Limit <= Count(store, matches, Len(store))
  <2>1. store[p] \in matches /\ store[p] \in stayed \ sweep.seen /\ store[p] \notin Range(page)
    BY <1>5, <1>6 DEF TypeOK
  <2>2. offset <= Count(store, matches, p - 1)
    BY <1>1, <1>6, <2>1 DEF SweepInv, UnseenAhead
  <2> HIDE DEF offset
  <2> QED BY <1>0, <1>1, <1>3, <1>4, <2>1, <2>2
<1>7. ASSUME NEW p \in 1 .. Len(store), store[p] \in sweep'.seen, ~OneBefore(p, entered)
      PROVE  Count(store, matches, p - 1) < offset + Limit
  <2>1. CASE store[p] \in sweep.seen
    <3>1. Count(store, matches, p - 1) < offset
      BY <1>1, <1>7, <2>1 DEF SweepInv, SeenBehind
    <3> HIDE DEF offset
    <3> QED BY <1>0, <1>1, <1>3, <3>1
  <2>2. CASE store[p] \in Range(page)
    <3> HIDE DEF offset
    <3> QED BY <1>0, <1>1, <1>3, <2>2
  <2> QED BY <1>5, <1>7, <2>1, <2>2
<1>8. ASSUME NEW p \in 1 .. Len(store), store[p] \in sweep'.twice
      PROVE  OneBefore(p, entered)
  <2>1. CASE store[p] \in sweep.twice
    BY <2>1 DEF SweepInv, TwiceLate
  <2>2. CASE store[p] \in Range(page) /\ store[p] \in sweep.seen
    <3>1. ~(Count(store, matches, p - 1) < offset)
      <4> HIDE DEF offset
      <4> QED BY <1>0, <1>1, <1>3, <2>2
    <3> QED BY <1>1, <2>2, <3>1 DEF SweepInv, SeenBehind
  <2> QED BY <1>5, <1>8, <2>1, <2>2
<1>9. UnseenAhead'
  BY <1>1, <1>5, <1>6 DEF UnseenAhead, OneBefore
<1>10. SeenBehind'
  BY <1>1, <1>5, <1>7 DEF SeenBehind, OneBefore
<1>11. MissedLate'
  <2>1. Swept' => Len(page) # Limit
    BY <1>5 DEF Swept
  <2> QED BY <1>1, <1>4, <1>6, <2>1 DEF MissedLate, OneBefore
<1>12. TwiceLate'
  BY <1>1, <1>8 DEF TwiceLate, OneBefore
<1> QED BY <1>9, <1>10, <1>11, <1>12 DEF SweepInv

\* Every step of the service and of the client keeps the sweep's invariant.
THEOREM SweepInvariant == Spec => []SweepInv
<1>1. Init => SweepInv
  <2> SUFFICES ASSUME Init PROVE SweepInv
    OBVIOUS
  <2>1. 1 .. Len(store) = {} /\ ~sweep.open /\ ~Swept
    BY DEF Init, NoSweep, Swept
  <2> QED BY <2>1 DEF SweepInv, UnseenAhead, SeenBehind, MissedLate, TwiceLate
<1>2. TypeOK /\ PagesInStore /\ SweepInv /\ [Next]_vars => SweepInv'
  <2> SUFFICES ASSUME TypeOK, PagesInStore, SweepInv, [Next]_vars PROVE SweepInv'
    OBVIOUS
  <2>1. ASSUME NEW a \in Agreements, NEW filtered \in BOOLEAN, Create(a, filtered) PROVE SweepInv'
    BY <2>1, CreateKeeps
  <2>2. ASSUME NEW a \in Agreements, Enters(a) PROVE SweepInv'
    BY <2>2, EntersKeeps
  <2>3. ASSUME NEW a \in Agreements, Leaves(a) PROVE SweepInv'
    BY <2>3, LeavesKeeps
  <2>4. CASE Begin
    <3>1. /\ sweep'.open /\ sweep'.offset = 0 /\ sweep'.twice = {} /\ sweep'.seen = {}
          /\ UNCHANGED <<keepsOrder, store, matches>>
      BY <2>4 DEF Begin, NoSweep
    <3>2. UnseenAhead'
      <4>1. \A p \in 1 .. Len(store) : 0 <= Count(store, matches, p - 1)
        <5>1. \A p \in 1 .. Len(store) : Count(store, matches, p - 1) \in Nat
          BY CountType
        <5> QED BY <5>1
      <4> QED BY <3>1, <4>1 DEF UnseenAhead
    <3> QED BY <3>1, <3>2 DEF SweepInv, SeenBehind, MissedLate, TwiceLate, Swept
  <2>5. CASE ReadPage
    BY <2>5, ReadPageKeeps
  <2>6. CASE UNCHANGED vars
    BY <2>6 DEF vars, SweepInv, UnseenAhead, SeenBehind, MissedLate, TwiceLate, Swept, OneBefore
  <2> QED BY <2>1, <2>2, <2>3, <2>4, <2>5, <2>6 DEF Next
<1> QED BY <1>1, <1>2, TypeCorrect, PTL DEF Spec

\* An agreement that matched all the time is missing from the pages only if one
\* created before it ceased to match while the client was reading.
THEOREM NothingMissed == Spec => []MissedOnlyAfterOneLeft
<1>1. TypeOK /\ SweepInv => MissedOnlyAfterOneLeft
  <2> SUFFICES ASSUME TypeOK, SweepInv, keepsOrder, Swept, NEW a \in stayed \ sweep.seen
               PROVE  \E b \in left : Before(b, a)
    BY DEF MissedOnlyAfterOneLeft
  <2>1. a \in Range(store)
    BY DEF TypeOK
  <2>2. PICK p \in 1 .. Len(store) : store[p] = a
    BY <2>1, PlaceOf
  <2>3. OneBefore(p, left)
    BY <2>2 DEF SweepInv, MissedLate
  <2> QED BY <2>2, <2>3, BeforeByPlace
<1> QED BY <1>1, TypeCorrect, SweepInvariant, PTL

\* It is on two pages only if one created before it began to match in between.
THEOREM NothingTwice == Spec => []TwiceOnlyAfterOneEntered
<1>1. TypeOK /\ SweepInv => TwiceOnlyAfterOneEntered
  <2> SUFFICES ASSUME TypeOK, SweepInv, keepsOrder, NEW a \in sweep.twice
               PROVE  \E b \in entered : Before(b, a)
    BY DEF TwiceOnlyAfterOneEntered
  <2>1. a \in Range(store)
    BY DEF TypeOK
  <2>2. PICK p \in 1 .. Len(store) : store[p] = a
    BY <2>1, PlaceOf
  <2>3. OneBefore(p, entered)
    BY <2>2 DEF SweepInv, TwiceLate
  <2> QED BY <2>2, <2>3, BeforeByPlace
<1> QED BY <1>1, TypeCorrect, SweepInvariant, PTL
============================================================================
