--------------------------- MODULE AgreementReads ---------------------------
(***************************************************************************)
(* GET /agreements, page by page.  Every page is computed from scratch: the*)
(* service takes all agreements, filters them by what they say of          *)
(* themselves now, and cuts limit and offset out of the list.  Between two *)
(* pages of a client agreements are created, and others begin or cease to  *)
(* match its filter.                                                       *)
(*                                                                         *)
(* The client reads on, with its offset moved by one limit, until a page   *)
(* comes back with fewer items than the limit.                             *)
(***************************************************************************)
EXTENDS Naturals, SequencesExt

CONSTANTS
  Agreements,  \* agreement ids
  Limit        \* the limit of every page; the query parameter is at least 1

ASSUME LimitAssumption == Limit \in Nat \ {0}

VARIABLES
  keepsOrder,  \* whether list_all() returns the agreements in creation order
  store,       \* the agreements, in creation order
  matches,     \* those that match the filter of the client now
  sweep,       \* the client: whether it reads, its offset and what it was given
  stayed,      \* history: the agreements that have matched since the sweep began
  left,        \* history: those that ceased to match in the meantime
  entered      \* history: those that began to match in the meantime

vars == <<keepsOrder, store, matches, sweep, stayed, left, entered>>

NoSweep == [open |-> FALSE, offset |-> 0, seen |-> {}, twice |-> {}]

\* A dict keeps the order of insertion, and update() does not change it.  The
\* SELECT of the Postgres backend has no ORDER BY.
Init ==
  /\ keepsOrder \in BOOLEAN
  /\ store = <<>>
  /\ matches = {}
  /\ sweep = NoSweep
  /\ stayed = {} /\ left = {} /\ entered = {}

----------------------------------------------------------------------------
\* POST /agreements; the new agreement may match the filter or not.
Create(a, filtered) ==
  /\ a \notin Range(store)
  /\ store' = Append(store, a)
  /\ matches' = IF filtered THEN matches \cup {a} ELSE matches
  /\ entered' = IF filtered THEN entered \cup {a} ELSE entered
  /\ UNCHANGED <<keepsOrder, sweep, stayed, left>>

\* Something is recorded on an agreement, or a day passes, and its status or its
\* breach flag changes.  The agreement keeps its place in the store.
Enters(a) ==
  /\ a \in Range(store) \ matches
  /\ matches' = matches \cup {a}
  /\ entered' = entered \cup {a}
  /\ UNCHANGED <<keepsOrder, store, sweep, stayed, left>>

\* Mutant of Leaves: what no longer matches is removed.
LeavesStore(a) ==
  /\ a \in matches
  /\ store' = SelectSeq(store, LAMBDA b : b # a)
  /\ matches' = matches \ {a}
  /\ stayed' = stayed \ {a}
  /\ left' = left \cup {a}
  /\ UNCHANGED <<keepsOrder, sweep, entered>>

Leaves(a) ==
  /\ a \in matches
  /\ matches' = matches \ {a}
  /\ stayed' = stayed \ {a}
  /\ left' = left \cup {a}
  /\ UNCHANGED <<keepsOrder, store, sweep, entered>>

----------------------------------------------------------------------------
\* What list_all() may return.
Listings ==
  IF keepsOrder THEN {store}
  ELSE {s \in [DOMAIN store -> Range(store)] : IsInjective(s)}

\* The filters keep the order of the listing.
Matching(listing) ==
  FoldLeft(LAMBDA list, a : IF a \in matches THEN Append(list, a) ELSE list, <<>>, listing)

\* Mutant of Page: the page is cut out before the filter.
PageBeforeFilter(listing, offset) ==
  LET last == IF offset + Limit <= Len(listing) THEN offset + Limit ELSE Len(listing)
  IN  Matching(SubSeq(listing, offset + 1, last))

\* Mutant of Page: a page begins with the last item of the page before.
PageOverlapping(listing, offset) ==
  LET list == Matching(listing)
      first == IF offset = 0 THEN 1 ELSE offset
      last == IF offset + Limit <= Len(list) THEN offset + Limit ELSE Len(list)
  IN  SubSeq(list, first, last)

\* list_agreements: filter, then agreements[offset : offset + limit].
Page(listing, offset) ==
  LET list == Matching(listing)
      last == IF offset + Limit <= Len(list) THEN offset + Limit ELSE Len(list)
  IN  SubSeq(list, offset + 1, last)

\* The client starts over, at offset 0.
Begin ==
  /\ ~sweep.open
  /\ sweep' = [NoSweep EXCEPT !.open = TRUE]
  /\ stayed' = matches /\ left' = {} /\ entered' = {}
  /\ UNCHANGED <<keepsOrder, store, matches>>

\* One GET.  The count of the answer is the number of its items, not of all
\* agreements that match.
ReadPage ==
  /\ sweep.open
  /\ \E listing \in Listings :
       LET page == Page(listing, sweep.offset)
           items == Range(page) IN
       sweep' = [open |-> Len(page) = Limit,
                 offset |-> sweep.offset + Limit,
                 seen |-> sweep.seen \cup items,
                 twice |-> sweep.twice \cup (items \cap sweep.seen)]
  /\ UNCHANGED <<keepsOrder, store, matches, stayed, left, entered>>

Next ==
  \/ \E a \in Agreements :
       \/ \E filtered \in BOOLEAN : Create(a, filtered)
       \/ Enters(a) \/ Leaves(a)
  \/ Begin \/ ReadPage

Spec == Init /\ [][Next]_vars
----------------------------------------------------------------------------
(***************************************************************************)
(* Properties.                                                             *)
(***************************************************************************)

\* The variables have their types; an offset is a whole number of pages.
TypeOK ==
  /\ keepsOrder \in BOOLEAN
  /\ store \in Seq(Agreements) /\ IsInjective(store)
  /\ matches \subseteq Range(store)
  /\ sweep.open \in BOOLEAN
  /\ sweep.offset \in {n * Limit : n \in 0 .. Len(store) + 1}
  /\ sweep.seen \subseteq Range(store) /\ sweep.twice \subseteq sweep.seen
  /\ stayed \subseteq matches
  /\ left \subseteq Range(store) /\ entered \subseteq Range(store)

\* a was created before b.
Before(a, b) ==
  \E m, n \in DOMAIN store : m < n /\ store[m] = a /\ store[n] = b

Swept == sweep # NoSweep /\ ~sweep.open

\* What a paged listing promises where list_all() keeps its order: an agreement
\* that matched all the time is missing from the pages only if one created
\* before it ceased to match while the client was reading.  New agreements and
\* ones that begin to match never hide another.
MissedOnlyAfterOneLeft ==
  keepsOrder /\ Swept =>
    \A a \in stayed \ sweep.seen : \E b \in left : Before(b, a)

\* And an agreement is on two pages only if one created before it began to
\* match while the client was reading.
TwiceOnlyAfterOneEntered ==
  keepsOrder => \A a \in sweep.twice : \E b \in entered : Before(b, a)
============================================================================
