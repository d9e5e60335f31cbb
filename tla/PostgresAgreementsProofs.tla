---------------------- MODULE PostgresAgreementsProofs ----------------------
(***************************************************************************)
(* Proofs about PostgresAgreements, for any agreements, any number of      *)
(* requests, and any way their steps interleave and fail.                  *)
(***************************************************************************)
EXTENDS PostgresAgreements, TLAPS

\* A request in flight has a copy of its agreement.
LEMMA InFlightCall ==
  ASSUME TypeOK, NEW r \in Requests, InFlight(r)
  PROVE  /\ calls[r] \in Working
         /\ calls[r].input \in Inputs
         /\ calls[r].input.agreement \in Agreements
         /\ calls[r].kept \in Rows /\ calls[r].got \in Rows /\ calls[r].loaded \in Rows
<1>1. calls[r] \in Working
  BY DEF TypeOK, InFlight, Calls, Done
<1>2. calls[r].input \in Inputs
  BY <1>1 DEF Working
<1>3. calls[r].input.agreement \in Agreements
  BY <1>2 DEF Inputs
<1> QED BY <1>1, <1>2, <1>3 DEF Working

\* Moving a request on keeps its record in Working.
LEMMA AtType ==
  ASSUME NEW call \in Working, NEW got \in Rows, NEW loaded \in Rows,
         NEW pc \in {"get_events", "append", "load_results", "load_events", "flush", "respond"}
  PROVE  At(pc, call, got, loaded) \in Working
BY DEF At, Working

\* A read of one table is a read of rows.
LEMMA FreshType ==
  ASSUME TypeOK, NEW rows \in Rows, NEW a \in Agreements, NEW tab \in Tables
  PROVE  Fresh(rows, a, tab) \in Rows
BY DEF Fresh, Rows, TypeOK

\* The names of the tables and the rows of an agreement without any.
LEMMA TablesType ==
  /\ "covenant_test_results" \in Tables
  /\ "default_events" \in Tables
  /\ NoRows \in Rows
  /\ \A kind : TableOf(kind) \in Tables
BY DEF Tables, NoRows, Rows, TableOf

\* Every variable keeps its type.
THEOREM TypeCorrect == Spec => []TypeOK
<1>1. Init => TypeOK
  BY TablesType DEF Init, TypeOK, Calls
<1>2. TypeOK /\ [Next]_vars => TypeOK'
  <2> SUFFICES ASSUME TypeOK, [Next]_vars PROVE TypeOK'
    OBVIOUS
  <2>1. ASSUME NEW a \in Agreements, NEW cs \in SUBSET Covenants, Add(a, cs) PROVE TypeOK'
    BY <2>1 DEF Add, TypeOK
  <2>2. ASSUME NEW r \in Requests, NEW in \in Inputs, Get(r, in) PROVE TypeOK'
    <3>1. in.agreement \in Agreements
      BY DEF Inputs
    <3>2. db[in.agreement] \in Rows
      BY <3>1 DEF TypeOK
    <3>3. [pc |-> "get_results", input |-> in, kept |-> db[in.agreement],
           got |-> NoRows, loaded |-> NoRows] \in Calls
      BY <3>2, TablesType DEF Working, Calls
    <3>4. [pc |-> "done", status |-> 404, input |-> in] \in Calls
      BY DEF Done, Calls
    <3>5. calls' \in [Requests -> Calls]
      BY <2>2, <3>3, <3>4 DEF Get, TypeOK
    <3> QED BY <2>2, <3>5 DEF Get, TypeOK
  <2>3. ASSUME NEW r \in Requests, NEW status \in {201, 404, 422, 500}, InFlight(r),
               Answer(r, status), UNCHANGED <<created, covenants, db, committed>>
        PROVE  TypeOK'
    <3>1. [pc |-> "done", status |-> status, input |-> calls[r].input] \in Calls
      BY <2>3, InFlightCall DEF Done, Calls
    <3>2. calls' \in [Requests -> Calls]
      BY <2>3, <3>1 DEF Answer, TypeOK
    <3> QED BY <2>3, <3>2 DEF TypeOK
  <2>4. ASSUME NEW r \in Requests, InFlight(r),
               NEW pc \in {"get_events", "append", "load_results", "load_events", "flush"},
               NEW got \in Rows, NEW loaded \in Rows,
               calls' = [calls EXCEPT ![r] = At(pc, calls[r], got, loaded)],
               UNCHANGED <<created, covenants, db, committed>>
        PROVE  TypeOK'
    <3>1. At(pc, calls[r], got, loaded) \in Calls
      BY <2>4, InFlightCall, AtType DEF Calls
    <3>2. calls' \in [Requests -> Calls]
      BY <2>4, <3>1 DEF TypeOK
    <3> QED BY <2>4, <3>2 DEF TypeOK
  <2>5. ASSUME NEW r \in Requests, GetResults(r) PROVE TypeOK'
    <3>1. InFlight(r)
      BY <2>5 DEF GetResults, InFlight
    <3>2. Fresh(calls[r].got, calls[r].input.agreement, "covenant_test_results") \in Rows
      BY <3>1, InFlightCall, FreshType, TablesType
    <3> QED BY <2>5, <3>1, <3>2, <2>4, InFlightCall DEF GetResults
  <2>6. ASSUME NEW r \in Requests, GetEvents(r) PROVE TypeOK'
    <3>1. InFlight(r)
      BY <2>6 DEF GetEvents, InFlight
    <3>2. Fresh(calls[r].got, calls[r].input.agreement, "default_events") \in Rows
      BY <3>1, InFlightCall, FreshType, TablesType
    <3> QED BY <2>6, <3>1, <3>2, <2>4, InFlightCall DEF GetEvents
  <2>7. ASSUME NEW r \in Requests, AppendRow(r) PROVE TypeOK'
    <3> DEFINE tab == TableOf(calls[r].input.kind)
    <3>1. InFlight(r)
      BY <2>7 DEF AppendRow, InFlight
    <3>2. [calls[r].got EXCEPT ![tab] = calls[r].got[tab] \cup {r}] \in Rows
      BY <3>1, InFlightCall, TablesType DEF Rows
    <3> QED BY <2>7, <3>1, <3>2, <2>4, InFlightCall DEF AppendRow
  <2>8. ASSUME NEW r \in Requests, LoadResults(r) PROVE TypeOK'
    <3>1. InFlight(r)
      BY <2>8 DEF LoadResults, InFlight
    <3>2. Fresh(calls[r].loaded, calls[r].input.agreement, "covenant_test_results") \in Rows
      BY <3>1, InFlightCall, FreshType, TablesType
    <3> QED BY <2>8, <3>1, <3>2, <2>4, InFlightCall DEF LoadResults
  <2>9. ASSUME NEW r \in Requests, LoadEvents(r) PROVE TypeOK'
    <3>1. InFlight(r)
      BY <2>9 DEF LoadEvents, InFlight
    <3>2. Fresh(calls[r].loaded, calls[r].input.agreement, "default_events") \in Rows
      BY <3>1, InFlightCall, FreshType, TablesType
    <3> QED BY <2>9, <3>1, <3>2, <2>4, InFlightCall DEF LoadEvents
  <2>10. ASSUME NEW r \in Requests, Commit(r) PROVE TypeOK'
    <3> DEFINE a == calls[r].input.agreement
               rows == [tab \in Tables |-> Flushed(r, tab)]
    <3>1. InFlight(r)
      BY <2>10 DEF Commit, InFlight
    <3>2. a \in Agreements /\ calls[r].got \in Rows /\ calls[r].loaded \in Rows
      BY <3>1, InFlightCall
    <3>3. db[a] \in Rows
      BY <3>2 DEF TypeOK
    <3>4. rows \in Rows
      BY <3>2, <3>3 DEF Flushed, Inserts, Deletes, Rows
    <3>5. db' \in [Agreements -> Rows]
      BY <2>10, <3>2, <3>4 DEF Commit, TypeOK
    <3>6. At("respond", calls[r], calls[r].got, calls[r].loaded) \in Calls
      BY <3>1, InFlightCall, AtType DEF Calls
    <3>7. ASSUME NEW s \in Requests PROVE Kept(calls[s], a, rows) \in Calls
      <4>1. calls[s] \in Calls
        BY DEF TypeOK
      <4>2. CASE InFlight(s)
        <5>1. calls[s] \in Working /\ calls[s].kept \in Rows
          BY <4>2, InFlightCall
        <5>2. [tab \in Tables |-> calls[s].kept[tab] \cap rows[tab]] \in Rows
          BY <5>1, <3>4 DEF Rows
        <5> QED BY <4>1, <5>1, <5>2 DEF Kept, Working, Calls
      <4>3. CASE ~InFlight(s)
        BY <4>1, <4>3 DEF Kept, InFlight
      <4> QED BY <4>2, <4>3
    <3>8. calls' = [s \in Requests |->
            IF s = r THEN At("respond", calls[r], calls[r].got, calls[r].loaded)
                     ELSE Kept(calls[s], a, rows)]
      BY <2>10 DEF Commit
    <3> HIDE DEF rows, a
    <3>9. calls' \in [Requests -> Calls]
      BY <3>6, <3>7, <3>8
    <3> QED BY <2>10, <3>5, <3>9 DEF Commit, TypeOK
  <2>11. ASSUME NEW r \in Requests, Reject(r) \/ Respond(r) \/ Fail(r) PROVE TypeOK'
    BY <2>11, <2>3 DEF Reject, Respond, Fail, InFlight
  <2>12. CASE UNCHANGED vars
    BY <2>12 DEF TypeOK, vars
  <2> QED
    BY <2>1, <2>2, <2>5, <2>6, <2>7, <2>8, <2>9, <2>10, <2>11, <2>12 DEF Next, Step
<1> QED BY <1>1, <1>2, PTL DEF Spec
----------------------------------------------------------------------------
(***************************************************************************)
(* What the steps of a request have in common: they move one request on,   *)
(* and only a commit writes.                                               *)
(***************************************************************************)

\* The request that moves on keeps its input and its history, and has the copy
\* that the step gives it; the others stay as they are.
LEMMA Moved ==
  ASSUME TypeOK, NEW r \in Requests, NEW pc, NEW got, NEW loaded,
         calls' = [calls EXCEPT ![r] = At(pc, calls[r], got, loaded)]
  PROVE  /\ calls'[r].pc = pc /\ calls'[r].input = calls[r].input
         /\ calls'[r].kept = calls[r].kept
         /\ calls'[r].got = got /\ calls'[r].loaded = loaded
         /\ \A s \in Requests \ {r} : calls'[s] = calls[s]
BY DEF TypeOK, At

\* An answered request keeps its input, and the others stay as they are.
LEMMA Answered ==
  ASSUME TypeOK, NEW r \in Requests, NEW status, Answer(r, status)
  PROVE  /\ calls'[r].pc = "done" /\ calls'[r].status = status
         /\ calls'[r].input = calls[r].input
         /\ \A s \in Requests \ {r} : calls'[s] = calls[s]
BY DEF TypeOK, Answer

\* What a commit does to the requests: only "kept" of others shrinks.
LEMMA Committed ==
  ASSUME TypeOK, NEW r \in Requests, Commit(r)
  PROVE  /\ InFlight(r) /\ calls'[r].pc = "respond"
         /\ \A s \in Requests :
              /\ s # r => calls'[s].pc = calls[s].pc
              /\ calls'[s].input = calls[s].input
              /\ calls[s].pc = "done" => calls'[s].status = calls[s].status
              /\ InFlight(s) => /\ calls'[s].got = calls[s].got
                               /\ calls'[s].loaded = calls[s].loaded
<1> DEFINE a == calls[r].input.agreement
           rows == [tab \in Tables |-> Flushed(r, tab)]
<1>1. InFlight(r)
  BY DEF Commit, InFlight
<1>2. \A s \in Requests : calls'[s] =
        IF s = r THEN At("respond", calls[r], calls[r].got, calls[r].loaded)
                 ELSE Kept(calls[s], a, rows)
  BY DEF Commit
<1> HIDE DEF a, rows
<1>3. ASSUME NEW s \in Requests, s # r
      PROVE  /\ calls'[s].pc = calls[s].pc /\ calls'[s].input = calls[s].input
             /\ calls[s].pc = "done" => calls'[s].status = calls[s].status
             /\ InFlight(s) => calls'[s].got = calls[s].got /\ calls'[s].loaded = calls[s].loaded
  <2>1. CASE InFlight(s)
    <3>1. calls[s] \in Working
      BY <2>1, InFlightCall
    <3> QED BY <2>1, <3>1, <1>2, <1>3 DEF Kept, Working, InFlight
  <2>2. CASE ~InFlight(s)
    BY <2>2, <1>2, <1>3 DEF Kept, InFlight
  <2> QED BY <2>1, <2>2
<1>4. /\ calls'[r].pc = "respond" /\ calls'[r].input = calls[r].input
      /\ calls'[r].got = calls[r].got /\ calls'[r].loaded = calls[r].loaded
  BY <1>2 DEF At
<1> QED BY <1>1, <1>3, <1>4 DEF InFlight, Commit
----------------------------------------------------------------------------
(***************************************************************************)
(* Where rows come from.                                                   *)
(***************************************************************************)

\* A request that has not committed is not among those that have.
LEMMA NotYetCommitted ==
  ASSUME Origin, NEW r \in Requests, calls[r].pc \notin {"respond", "done"}
  PROVE  r \notin committed
BY DEF Origin

\* A step that changes a copy, and neither commits nor answers, keeps Origin
\* when it takes the rows of the copy from the tables or adds its own.
LEMMA OriginMove ==
  ASSUME TypeOK, Origin, NEW r \in Requests, NEW pc, NEW got, NEW loaded,
         calls[r].pc \notin {"respond", "done"},
         calls' = [calls EXCEPT ![r] = At(pc, calls[r], got, loaded)],
         \A tab \in Tables : got[tab] \subseteq committed \cup {r} /\ loaded[tab] \subseteq committed,
         UNCHANGED <<db, committed>>
  PROVE  Origin'
<1>1. r \notin committed
  BY NotYetCommitted
<1>2. /\ calls'[r].got = got /\ calls'[r].loaded = loaded
      /\ \A s \in Requests \ {r} : calls'[s] = calls[s]
  BY DEF TypeOK, At
<1>3. \A a \in Agreements, tab \in Tables : db'[a][tab] \subseteq committed'
  BY DEF Origin
<1>4. \A s \in Requests : InFlight(s)' => \A tab \in Tables :
        calls'[s].got[tab] \subseteq committed' \cup {s} /\ calls'[s].loaded[tab] \subseteq committed'
  BY <1>2 DEF Origin, InFlight
<1>5. \A x \in committed' : x \in Requests \ {r} /\ calls'[x] = calls[x]
  BY <1>1, <1>2 DEF TypeOK
<1>6. \A x \in committed' :
        /\ calls'[x].pc \in {"respond", "done"}
        /\ calls'[x].pc = "done" => calls'[x].status \in {201, 500}
  BY <1>5 DEF Origin
<1> QED BY <1>3, <1>4, <1>6 DEF Origin

\* Origin is kept by an answer: only a committed request is answered with 201.
LEMMA OriginAnswer ==
  ASSUME TypeOK, Origin, NEW r \in Requests, NEW status, Answer(r, status),
         r \in committed => status \in {201, 500},
         UNCHANGED <<db, committed>>
  PROVE  Origin'
BY Answered DEF Origin, InFlight, TypeOK

\* The copy of a request in flight holds committed rows and its own.
LEMMA OriginCopy ==
  ASSUME TypeOK, Origin, NEW r \in Requests, InFlight(r), NEW tab \in Tables
  PROVE  /\ calls[r].got[tab] \subseteq committed \cup {r}
         /\ calls[r].loaded[tab] \subseteq committed
         /\ db[calls[r].input.agreement][tab] \subseteq committed
BY InFlightCall DEF Origin

\* A copy into which one table was read again holds what it held, or stored rows.
LEMMA FreshRows ==
  ASSUME NEW a \in Agreements, NEW rows \in Rows, NEW u \in Tables, NEW tab \in Tables
  PROVE  Fresh(rows, a, u)[tab] = IF tab = u THEN db[a][tab] ELSE rows[tab]
BY DEF Fresh, Rows

\* Every step keeps Origin.
LEMMA OriginStep ==
  ASSUME TypeOK, Origin, [Next]_vars
  PROVE  Origin'
<1>1. ASSUME NEW a \in Agreements, NEW cs \in SUBSET Covenants, Add(a, cs) PROVE Origin'
  BY <1>1 DEF Add, Origin, InFlight
<1>2. ASSUME NEW r \in Requests, NEW in \in Inputs, Get(r, in) PROVE Origin'
  <2>1. r \notin committed
    BY <1>2, NotYetCommitted DEF Get
  <2>2. \A s \in Requests \ {r} : calls'[s] = calls[s]
    BY <1>2 DEF Get, TypeOK
  <2>3. InFlight(r)' => calls'[r].got = NoRows /\ calls'[r].loaded = NoRows
    BY <1>2 DEF Get, TypeOK, InFlight
  <2> QED BY <1>2, <2>1, <2>2, <2>3 DEF Get, Origin, InFlight, NoRows, TypeOK
<1>3. ASSUME NEW r \in Requests, GetResults(r) PROVE Origin'
  <2>1. InFlight(r)
    BY <1>3 DEF GetResults, InFlight
  <2> DEFINE got == Fresh(calls[r].got, calls[r].input.agreement, "covenant_test_results")
  <2>2. \A tab \in Tables : got[tab] \subseteq committed \cup {r} /\ calls[r].loaded[tab] \subseteq committed
    BY <2>1, InFlightCall, OriginCopy, FreshRows, TablesType
  <2> HIDE DEF got
  <2>3. calls' = [calls EXCEPT ![r] = At("get_events", calls[r], got, calls[r].loaded)]
    BY <1>3 DEF GetResults, got
  <2> QED BY <1>3, <2>2, <2>3, OriginMove DEF GetResults
<1>4. ASSUME NEW r \in Requests, GetEvents(r) PROVE Origin'
  <2>1. InFlight(r)
    BY <1>4 DEF GetEvents, InFlight
  <2> DEFINE got == Fresh(calls[r].got, calls[r].input.agreement, "default_events")
  <2>2. \A tab \in Tables : got[tab] \subseteq committed \cup {r} /\ calls[r].loaded[tab] \subseteq committed
    BY <2>1, InFlightCall, OriginCopy, FreshRows, TablesType
  <2> HIDE DEF got
  <2>3. calls' = [calls EXCEPT ![r] = At("append", calls[r], got, calls[r].loaded)]
    BY <1>4 DEF GetEvents, got
  <2> QED BY <1>4, <2>2, <2>3, OriginMove DEF GetEvents
<1>5. ASSUME NEW r \in Requests, AppendRow(r) PROVE Origin'
  <2>1. InFlight(r)
    BY <1>5 DEF AppendRow, InFlight
  <2> DEFINE u == TableOf(calls[r].input.kind)
             got == [calls[r].got EXCEPT ![u] = calls[r].got[u] \cup {r}]
  <2>2. \A tab \in Tables : got[tab] \subseteq committed \cup {r} /\ calls[r].loaded[tab] \subseteq committed
    BY <2>1, InFlightCall, OriginCopy, TablesType DEF Rows
  <2>3. calls' = [calls EXCEPT ![r] = At("load_results", calls[r], got, calls[r].loaded)]
    BY <1>5 DEF AppendRow
  <2> HIDE DEF got
  <2> QED BY <1>5, <2>2, <2>3, OriginMove DEF AppendRow
<1>6. ASSUME NEW r \in Requests, LoadResults(r) PROVE Origin'
  <2>1. InFlight(r)
    BY <1>6 DEF LoadResults, InFlight
  <2> DEFINE loaded == Fresh(calls[r].loaded, calls[r].input.agreement, "covenant_test_results")
  <2>2. \A tab \in Tables : loaded[tab] \subseteq committed
    BY <2>1, InFlightCall, OriginCopy, FreshRows, TablesType
  <2> HIDE DEF loaded
  <2>3. \A tab \in Tables : calls[r].got[tab] \subseteq committed \cup {r} /\ loaded[tab] \subseteq committed
    BY <2>1, <2>2, OriginCopy
  <2>4. calls' = [calls EXCEPT ![r] = At("load_events", calls[r], calls[r].got, loaded)]
    BY <1>6 DEF LoadResults, loaded
  <2> QED BY <1>6, <2>3, <2>4, OriginMove DEF LoadResults
<1>7. ASSUME NEW r \in Requests, LoadEvents(r) PROVE Origin'
  <2>1. InFlight(r)
    BY <1>7 DEF LoadEvents, InFlight
  <2> DEFINE loaded == Fresh(calls[r].loaded, calls[r].input.agreement, "default_events")
  <2>2. \A tab \in Tables : loaded[tab] \subseteq committed
    BY <2>1, InFlightCall, OriginCopy, FreshRows, TablesType
  <2> HIDE DEF loaded
  <2>3. \A tab \in Tables : calls[r].got[tab] \subseteq committed \cup {r} /\ loaded[tab] \subseteq committed
    BY <2>1, <2>2, OriginCopy
  <2>4. calls' = [calls EXCEPT ![r] = At("flush", calls[r], calls[r].got, loaded)]
    BY <1>7 DEF LoadEvents, loaded
  <2> QED BY <1>7, <2>3, <2>4, OriginMove DEF LoadEvents
<1>8. ASSUME NEW r \in Requests, Commit(r) PROVE Origin'
  <2>1. InFlight(r) /\ committed' = committed \cup {r}
    BY <1>8 DEF Commit, InFlight
  <2>2. \A tab \in Tables : Flushed(r, tab) \subseteq committed \cup {r}
    BY <2>1, OriginCopy DEF Flushed, Inserts, Deletes
  <2>3. \A b \in Agreements, tab \in Tables : db'[b][tab] \subseteq committed'
    BY <1>8, <2>1, <2>2, InFlightCall DEF Commit, Origin, TypeOK
  <2>4. \A s \in Requests : InFlight(s)' => \A tab \in Tables :
          calls'[s].got[tab] \subseteq committed' \cup {s} /\ calls'[s].loaded[tab] \subseteq committed'
    BY <1>8, <2>1, Committed DEF Origin, InFlight
  <2>5. \A x \in committed' :
          /\ calls'[x].pc \in {"respond", "done"}
          /\ calls'[x].pc = "done" => calls'[x].status \in {201, 500}
    BY <1>8, <2>1, Committed DEF Origin, TypeOK
  <2> QED BY <2>3, <2>4, <2>5 DEF Origin
<1>9. ASSUME NEW r \in Requests, Reject(r) PROVE Origin'
  <2>1. r \notin committed
    BY <1>9, NotYetCommitted DEF Reject
  <2> QED BY <1>9, <2>1, OriginAnswer DEF Reject
<1>10. ASSUME NEW r \in Requests, Respond(r) \/ Fail(r) PROVE Origin'
  BY <1>10, OriginAnswer DEF Respond, Fail
<1>11. CASE UNCHANGED vars
  BY <1>11 DEF vars, Origin, InFlight
<1> QED
  BY <1>1, <1>2, <1>3, <1>4, <1>5, <1>6, <1>7, <1>8, <1>9, <1>10, <1>11 DEF Next, Step

\* Rows and copies never hold a row whose request has not committed.
LEMMA OriginHolds == Spec => [](TypeOK /\ Origin)
<1>1. Init => Origin
  BY DEF Init, Origin, InFlight, NoRows
<1>2. TypeOK /\ Origin /\ [Next]_vars => Origin'
  BY OriginStep
<1> QED BY <1>1, <1>2, TypeCorrect, PTL DEF Spec

\* OnlyCommittedRows: the tables hold no row of a request that was refused, or
\* that failed before its commit, whatever the other requests rewrite.
THEOREM NoPhantomRows == Spec => []OnlyCommittedRows
<1>1. TypeOK /\ Origin => OnlyCommittedRows
  BY DEF Origin, OnlyCommittedRows
<1> QED BY <1>1, OriginHolds, PTL
----------------------------------------------------------------------------
(***************************************************************************)
(* What a rewrite can destroy.                                             *)
(***************************************************************************)

\* Moving a request on keeps Seen when the tables it has then read were read whole.
LEMMA SeenMove ==
  ASSUME TypeOK, Seen, NEW r \in Requests, InFlight(r), NEW pc, NEW got, NEW loaded,
         calls' = [calls EXCEPT ![r] = At(pc, calls[r], got, loaded)],
         \A tab \in Tables : \/ calls[r].kept[tab] \subseteq got[tab]
                             \/ pc = "get_events" /\ tab # "covenant_test_results",
         db' = db
  PROVE  Seen'
<1>1. /\ calls'[r].input = calls[r].input /\ calls'[r].kept = calls[r].kept /\ calls'[r].got = got
      /\ calls'[r].pc = pc
      /\ \A s \in Requests \ {r} : calls'[s] = calls[s]
  BY DEF TypeOK, At
<1>2. ASSUME NEW s \in Requests, InFlight(s)', NEW tab \in Tables
      PROVE  /\ calls'[s].kept[tab] \subseteq db'[calls'[s].input.agreement][tab]
             /\ HasRead(s, tab)' => calls'[s].kept[tab] \subseteq calls'[s].got[tab]
  <2>1. CASE s = r
    <3>1. calls[r].kept[tab] \subseteq db[calls[r].input.agreement][tab]
      BY DEF Seen
    <3> QED BY <2>1, <1>1, <3>1 DEF HasRead
  <2>2. CASE s # r
    BY <2>2, <1>1, <1>2 DEF Seen, InFlight, HasRead
  <2> QED BY <2>1, <2>2
<1> QED BY <1>2 DEF Seen

\* Of a request in flight, what was there all along is there, and was read.
LEMMA SeenCopy ==
  ASSUME Seen, NEW r \in Requests, InFlight(r), NEW tab \in Tables
  PROVE  /\ calls[r].kept[tab] \subseteq db[calls[r].input.agreement][tab]
         /\ HasRead(r, tab) => calls[r].kept[tab] \subseteq calls[r].got[tab]
BY DEF Seen

\* A commit deletes no row that its request has seen all along.
LEMMA KeptIsFlushed ==
  ASSUME Seen, NEW r \in Requests, calls[r].pc = "flush", NEW tab \in Tables
  PROVE  calls[r].kept[tab] \subseteq Flushed(r, tab)
<1>1. InFlight(r) /\ HasRead(r, tab)
  BY DEF InFlight, HasRead
<1> QED BY <1>1, SeenCopy DEF Flushed, Deletes

\* Every step keeps Seen.
LEMMA SeenStep ==
  ASSUME TypeOK, Seen, [Next]_vars
  PROVE  Seen'
<1>1. ASSUME NEW a \in Agreements, NEW cs \in SUBSET Covenants, Add(a, cs) PROVE Seen'
  BY <1>1 DEF Add, Seen, InFlight, HasRead
<1>2. ASSUME NEW r \in Requests, NEW in \in Inputs, Get(r, in) PROVE Seen'
  <2>1. /\ \A s \in Requests \ {r} : calls'[s] = calls[s]
        /\ db' = db
    BY <1>2 DEF Get, TypeOK
  <2>2. InFlight(r)' => /\ calls'[r].pc = "get_results"
                        /\ calls'[r].kept = db[calls'[r].input.agreement]
    BY <1>2 DEF Get, TypeOK, InFlight
  <2>3. ASSUME NEW s \in Requests, InFlight(s)', NEW tab \in Tables
        PROVE  /\ calls'[s].kept[tab] \subseteq db'[calls'[s].input.agreement][tab]
               /\ HasRead(s, tab)' => calls'[s].kept[tab] \subseteq calls'[s].got[tab]
    <3>1. CASE s = r
      BY <3>1, <2>1, <2>2, <2>3 DEF HasRead
    <3>2. CASE s # r
      BY <3>2, <2>1, <2>3 DEF Seen, InFlight, HasRead
    <3> QED BY <3>1, <3>2
  <2> QED BY <2>3 DEF Seen
<1>3. ASSUME NEW r \in Requests, GetResults(r) PROVE Seen'
  <2>1. InFlight(r)
    BY <1>3 DEF GetResults, InFlight
  <2> DEFINE got == Fresh(calls[r].got, calls[r].input.agreement, "covenant_test_results")
  <2>2. calls' = [calls EXCEPT ![r] = At("get_events", calls[r], got, calls[r].loaded)]
    BY <1>3 DEF GetResults
  <2>4. got["covenant_test_results"] = db[calls[r].input.agreement]["covenant_test_results"]
    BY <2>1, InFlightCall, FreshRows, TablesType
  <2> HIDE DEF got
  <2>5. \A tab \in Tables : calls[r].kept[tab] \subseteq got[tab] \/ tab # "covenant_test_results"
    BY <2>1, <2>4, SeenCopy
  <2> QED BY ZenonT(30), <1>3, <2>1, <2>2, <2>5, SeenMove DEF GetResults
<1>4. ASSUME NEW r \in Requests, GetEvents(r) PROVE Seen'
  <2>1. InFlight(r) /\ HasRead(r, "covenant_test_results")
    BY <1>4 DEF GetEvents, InFlight, HasRead
  <2> DEFINE got == Fresh(calls[r].got, calls[r].input.agreement, "default_events")
  <2>2. calls' = [calls EXCEPT ![r] = At("append", calls[r], got, calls[r].loaded)]
    BY <1>4 DEF GetEvents
  <2>3. \A tab \in Tables : got[tab] = IF tab = "default_events"
                                         THEN db[calls[r].input.agreement][tab]
                                         ELSE calls[r].got[tab]
    BY <2>1, InFlightCall, FreshRows, TablesType
  <2> HIDE DEF got
  <2>4. \A tab \in Tables : calls[r].kept[tab] \subseteq got[tab]
    BY <2>1, <2>3, SeenCopy DEF Tables
  <2>5. db' = db
    BY <1>4 DEF GetEvents
  <2> QED BY <2>1, <2>2, <2>4, <2>5, SeenMove
<1>5. ASSUME NEW r \in Requests, AppendRow(r) PROVE Seen'
  <2>1. InFlight(r) /\ \A tab \in Tables : HasRead(r, tab)
    BY <1>5 DEF AppendRow, InFlight, HasRead
  <2> DEFINE u == TableOf(calls[r].input.kind)
             got == [calls[r].got EXCEPT ![u] = calls[r].got[u] \cup {r}]
  <2>2. calls' = [calls EXCEPT ![r] = At("load_results", calls[r], got, calls[r].loaded)]
    BY <1>5 DEF AppendRow
  <2>3. \A tab \in Tables : calls[r].got[tab] \subseteq got[tab]
    BY <2>1, InFlightCall DEF Rows
  <2> HIDE DEF got
  <2>4. \A tab \in Tables : calls[r].kept[tab] \subseteq got[tab]
    BY <2>1, <2>3, SeenCopy
  <2>5. db' = db
    BY <1>5 DEF AppendRow
  <2> QED BY <2>1, <2>2, <2>4, <2>5, SeenMove
<1>6. ASSUME NEW r \in Requests, LoadResults(r) \/ LoadEvents(r) PROVE Seen'
  <2>1. InFlight(r) /\ \A tab \in Tables : HasRead(r, tab)
    BY <1>6 DEF LoadResults, LoadEvents, InFlight, HasRead
  <2>2. \A tab \in Tables : calls[r].kept[tab] \subseteq calls[r].got[tab]
    BY <2>1, SeenCopy
  <2>3. CASE LoadResults(r)
    BY <2>1, <2>2, <2>3, SeenMove DEF LoadResults
  <2>4. CASE LoadEvents(r)
    BY <2>1, <2>2, <2>4, SeenMove DEF LoadEvents
  <2> QED BY <1>6, <2>3, <2>4
<1>7. ASSUME NEW r \in Requests, Commit(r) PROVE Seen'
  <2> DEFINE a == calls[r].input.agreement
             rows == [tab \in Tables |-> Flushed(r, tab)]
  <2>1. calls[r].pc = "flush" /\ InFlight(r) /\ a \in Agreements
    BY <1>7, InFlightCall DEF Commit, InFlight
  <2>2. db' = [db EXCEPT ![a] = rows]
    BY <1>7 DEF Commit
  <2>3. \A s \in Requests : calls'[s] =
          IF s = r THEN At("respond", calls[r], calls[r].got, calls[r].loaded)
                   ELSE Kept(calls[s], a, rows)
    BY <1>7 DEF Commit
  <2>4. db'[a] = rows /\ \A b \in Agreements \ {a} : db'[b] = db[b]
    BY <2>1, <2>2 DEF TypeOK
  <2>5. \A tab \in Tables : calls[r].kept[tab] \subseteq rows[tab]
    BY <2>1, KeptIsFlushed
  <2> HIDE DEF rows, a
  <2>6. ASSUME NEW s \in Requests, InFlight(s)', NEW tab \in Tables
        PROVE  /\ calls'[s].kept[tab] \subseteq db'[calls'[s].input.agreement][tab]
               /\ HasRead(s, tab)' => calls'[s].kept[tab] \subseteq calls'[s].got[tab]
    <3>1. CASE s = r
      <4>1. /\ calls'[r].kept = calls[r].kept /\ calls'[r].got = calls[r].got
            /\ calls'[r].input.agreement = a
        BY <2>3 DEF At, a
      <4>2. HasRead(r, tab)
        BY <2>1 DEF HasRead
      <4> QED BY <3>1, <4>1, <4>2, <2>1, <2>4, <2>5, SeenCopy
    <3>2. CASE s # r
      <4>1. InFlight(s) /\ calls'[s].pc = calls[s].pc /\ calls'[s].input = calls[s].input
            /\ calls'[s].got = calls[s].got
        BY <3>2, <2>6, <1>7, Committed DEF InFlight
      <4>2. calls[s] \in Working /\ calls[s].input.agreement \in Agreements
        BY <4>1, InFlightCall
      <4>3. CASE calls[s].input.agreement = a
        <5>1. calls'[s].kept[tab] = calls[s].kept[tab] \cap rows[tab]
          <6>1. calls'[s] = [calls[s] EXCEPT !.kept = [u \in Tables |-> calls[s].kept[u] \cap rows[u]]]
            BY <2>3, <3>2, <4>1, <4>3 DEF Kept, InFlight
          <6> QED BY <4>2, <6>1 DEF Working
        <5> QED BY <5>1, <4>1, <4>3, <2>4, SeenCopy DEF HasRead
      <4>4. CASE calls[s].input.agreement # a
        <5>1. calls'[s] = calls[s]
          BY <2>3, <3>2, <4>4 DEF Kept
        <5> QED BY <5>1, <4>1, <4>2, <4>4, <2>4, SeenCopy DEF HasRead
      <4> QED BY <4>3, <4>4
    <3> QED BY <3>1, <3>2
  <2> QED BY <2>6 DEF Seen
<1>8. ASSUME NEW r \in Requests, Reject(r) \/ Respond(r) \/ Fail(r) PROVE Seen'
  <2>1. /\ calls'[r].pc = "done" /\ db' = db
        /\ \A s \in Requests \ {r} : calls'[s] = calls[s]
    BY <1>8, Answered DEF Reject, Respond, Fail
  <2> QED BY <2>1 DEF Seen, InFlight, HasRead
<1>9. CASE UNCHANGED vars
  BY <1>9 DEF vars, Seen, InFlight, HasRead
<1> QED
  BY <1>1, <1>2, <1>3, <1>4, <1>5, <1>6, <1>7, <1>8, <1>9 DEF Next, Step

\* Only a commit adds to the committed requests, and only its own.
LEMMA OnlyCommitCommits ==
  ASSUME TypeOK, [Next]_vars, NEW r \in Requests, r \in committed' \ committed
  PROVE  Commit(r)
<1>1. ASSUME NEW s \in Requests, Commit(s) PROVE s = r
  BY <1>1 DEF Commit
<1>2. ASSUME NEW s \in Requests, Step(s), ~Commit(s) PROVE FALSE
  BY <1>2 DEF Step, Get, GetResults, GetEvents, Reject, AppendRow, LoadResults, LoadEvents,
              Respond, Fail
<1> QED BY <1>1, <1>2 DEF Next, Add, vars

\* StableRowsSurvive: the full rewrite of an agreement by one request deletes no
\* row that was stored all the time since that request read its first row.
THEOREM StableRowsKept == Spec => StableRowsSurvive
<1>1. Init => Seen
  BY DEF Init, Seen, InFlight
<1>2. TypeOK /\ Seen /\ [Next]_vars => Seen'
  BY SeenStep
<1>3. TypeOK /\ Seen /\ [Next]_vars =>
        [\A r \in Requests : r \in committed' \ committed =>
           \A tab \in Tables : calls[r].kept[tab] \subseteq db'[calls[r].input.agreement][tab]]_vars
  <2> SUFFICES ASSUME TypeOK, Seen, [Next]_vars,
                      NEW r \in Requests, r \in committed' \ committed, NEW tab \in Tables
               PROVE  calls[r].kept[tab] \subseteq db'[calls[r].input.agreement][tab]
    OBVIOUS
  <2>1. Commit(r)
    BY OnlyCommitCommits
  <2>2. calls[r].pc = "flush" /\ calls[r].input.agreement \in Agreements
    BY <2>1, InFlightCall DEF Commit, InFlight
  <2>3. db'[calls[r].input.agreement][tab] = Flushed(r, tab)
    BY <2>1, <2>2 DEF Commit, TypeOK
  <2> QED BY <2>2, <2>3, KeptIsFlushed
<1> QED BY <1>1, <1>2, <1>3, TypeCorrect, PTL DEF Spec, StableRowsSurvive
----------------------------------------------------------------------------
(***************************************************************************)
(* What a commit stores.                                                   *)
(***************************************************************************)

\* Every step keeps the row of a request in its copy once it is there.
LEMMA OwnRowStep ==
  ASSUME TypeOK, OwnRow, [Next]_vars
  PROVE  OwnRow'
<1> DEFINE Writing == {"load_results", "load_events", "flush"}
           Has(r) == r \in calls[r].got[TableOf(calls[r].input.kind)]
<1> SUFFICES ASSUME NEW s \in Requests, calls'[s].pc \in Writing PROVE Has(s)'
  BY DEF OwnRow
<1>1. ASSUME calls'[s] = calls[s] PROVE Has(s)'
  BY <1>1 DEF OwnRow
<1>2. ASSUME NEW r \in Requests, Commit(r) PROVE Has(s)'
  BY <1>2, Committed DEF OwnRow, InFlight
<1>3. ASSUME NEW r \in Requests, Step(r), ~Commit(r), s # r PROVE Has(s)'
  <2>1. calls'[s] = calls[s]
    BY <1>3 DEF Step, Get, GetResults, GetEvents, Reject, AppendRow, LoadResults, LoadEvents,
                Respond, Fail, Answer, TypeOK
  <2> QED BY <2>1, <1>1
<1>4. ASSUME AppendRow(s) PROVE Has(s)'
  <2> DEFINE u == TableOf(calls[s].input.kind)
  <2>1. InFlight(s)
    BY <1>4 DEF AppendRow, InFlight
  <2>2. /\ calls'[s].input = calls[s].input
        /\ calls'[s].got = [calls[s].got EXCEPT ![u] = calls[s].got[u] \cup {s}]
    BY <1>4 DEF AppendRow, At, TypeOK
  <2> QED BY <2>1, <2>2, InFlightCall, TablesType DEF Rows
<1>5. ASSUME LoadResults(s) \/ LoadEvents(s) PROVE Has(s)'
  <2>1. calls'[s].input = calls[s].input /\ calls'[s].got = calls[s].got
    BY <1>5 DEF LoadResults, LoadEvents, At, TypeOK
  <2>2. Has(s)
    BY <1>5 DEF LoadResults, LoadEvents, OwnRow
  <2> QED BY <2>1, <2>2
<1>6. ASSUME \/ \E in \in Inputs : Get(s, in)
             \/ GetResults(s) \/ GetEvents(s) \/ Reject(s) \/ Respond(s) \/ Fail(s)
      PROVE  FALSE
  <2>1. calls'[s].pc \in {"get_results", "get_events", "append", "done"}
    BY <1>6 DEF Get, GetResults, GetEvents, Reject, Respond, Fail, Answer, At, TypeOK
  <2> QED BY <2>1
<1>7. ASSUME NEW a \in Agreements, NEW cs \in SUBSET Covenants, Add(a, cs) PROVE Has(s)'
  BY <1>7, <1>1 DEF Add
<1>8. CASE UNCHANGED vars
  BY <1>8, <1>1 DEF vars
<1>9. ASSUME NEW r \in Requests, Step(r) PROVE Has(s)'
  <2>1. CASE s = r
    BY <1>9, <2>1, <1>2, <1>4, <1>5, <1>6 DEF Step
  <2>2. CASE s # r
    BY <1>9, <2>2, <1>2, <1>3
  <2> QED BY <2>1, <2>2
<1> QED BY <1>7, <1>8, <1>9 DEF Next

\* The row of a request that is about to commit is one of its inserts.
LEMMA OwnRowIsInserted ==
  ASSUME TypeOK, Origin, OwnRow, NEW r \in Requests, calls[r].pc = "flush"
  PROVE  r \in Inserts(r, TableOf(calls[r].input.kind)) /\ r \notin committed
<1>1. r \notin committed
  BY NotYetCommitted
<1>2. r \notin calls[r].loaded[TableOf(calls[r].input.kind)]
  BY <1>1, OriginCopy, TablesType DEF InFlight
<1> QED BY <1>1, <1>2 DEF OwnRow, Inserts

\* CommitStoresOwnRow: the transaction of a request writes the request's row.
THEOREM CommitsStore == Spec => CommitStoresOwnRow
<1>1. Init => OwnRow
  BY DEF Init, OwnRow
<1>2. TypeOK /\ OwnRow /\ [Next]_vars => OwnRow'
  BY OwnRowStep
<1>3. TypeOK /\ Origin /\ OwnRow /\ [Next]_vars =>
        [\A r \in Requests : r \in committed' \ committed =>
           r \in db'[calls[r].input.agreement][TableOf(calls[r].input.kind)]]_vars
  <2> SUFFICES ASSUME TypeOK, Origin, OwnRow, [Next]_vars,
                      NEW r \in Requests, r \in committed' \ committed
               PROVE  r \in db'[calls[r].input.agreement][TableOf(calls[r].input.kind)]
    OBVIOUS
  <2> DEFINE u == TableOf(calls[r].input.kind)
  <2>1. Commit(r)
    BY OnlyCommitCommits
  <2>2. calls[r].pc = "flush" /\ calls[r].input.agreement \in Agreements
    BY <2>1, InFlightCall DEF Commit, InFlight
  <2>3. u \in Tables
    BY TablesType
  <2>4. db'[calls[r].input.agreement][u] = Flushed(r, u)
    BY <2>1, <2>2, <2>3 DEF Commit, TypeOK
  <2>5. r \in Inserts(r, u)
    BY <2>2, OwnRowIsInserted
  <2> QED BY <2>4, <2>5 DEF Flushed
<1> QED BY <1>1, <1>2, <1>3, OriginHolds, PTL DEF Spec, CommitStoresOwnRow
----------------------------------------------------------------------------
(***************************************************************************)
(* Where rows are.                                                         *)
(***************************************************************************)

\* The agreement of a request never changes once the request has begun.
LEMMA InputsStay ==
  ASSUME TypeOK, [Next]_vars, NEW x \in Requests, calls[x].pc # "idle"
  PROVE  calls'[x].pc # "idle" /\ calls'[x].input = calls[x].input
<1>1. ASSUME NEW r \in Requests, Commit(r)
      PROVE  calls'[x].pc # "idle" /\ calls'[x].input = calls[x].input
  BY <1>1, Committed DEF InFlight
<1>2. ASSUME NEW r \in Requests, Step(r), ~Commit(r)
      PROVE  calls'[x].pc # "idle" /\ calls'[x].input = calls[x].input
  <2>1. CASE x # r
    BY <1>2, <2>1 DEF Step, Get, GetResults, GetEvents, Reject, AppendRow, LoadResults,
                      LoadEvents, Respond, Fail, Answer, TypeOK
  <2>2. CASE x = r
    BY <1>2, <2>2 DEF Step, Get, GetResults, GetEvents, Reject, AppendRow, LoadResults,
                      LoadEvents, Respond, Fail, Answer, At, TypeOK
  <2> QED BY <2>1, <2>2
<1>3. ASSUME calls' = calls PROVE calls'[x].pc # "idle" /\ calls'[x].input = calls[x].input
  BY <1>3
<1> QED BY <1>1, <1>2, <1>3 DEF Next, Add, vars

\* Agreements are never deleted, and the covenants of one that exists never change.
LEMMA CovenantsStay ==
  ASSUME TypeOK, [Next]_vars, NEW a \in created
  PROVE  a \in created' /\ covenants'[a] = covenants[a]
<1>1. ASSUME NEW b \in Agreements, NEW cs \in SUBSET Covenants, Add(b, cs)
      PROVE  a \in created' /\ covenants'[a] = covenants[a]
  BY <1>1 DEF Add, TypeOK
<1>2. ASSUME NEW r \in Requests, Step(r) PROVE a \in created' /\ covenants'[a] = covenants[a]
  BY <1>2 DEF Step, Get, GetResults, GetEvents, Reject, AppendRow, LoadResults, LoadEvents,
              Commit, Respond, Fail
<1> QED BY <1>1, <1>2 DEF Next, vars

\* A row that is in its place stays so.
LEMMA InPlaceStays ==
  ASSUME TypeOK, [Next]_vars, NEW a \in created, NEW tab \in Tables, NEW x \in Requests,
         InPlace(x, a, tab)
  PROVE  a \in created' /\ InPlace(x, a, tab)'
BY InputsStay, CovenantsStay DEF InPlace

\* The rows of a copy are in the place of its request's agreement.
LEMMA PlacesCopy ==
  ASSUME TypeOK, Places, NEW r \in Requests, InFlight(r), NEW tab \in Tables
  PROVE  /\ calls[r].input.agreement \in created
         /\ \A x \in calls[r].got[tab] \cup calls[r].loaded[tab]
                       \cup db[calls[r].input.agreement][tab] :
              x \in Requests /\ InPlace(x, calls[r].input.agreement, tab)
<1>1. /\ calls[r].input.agreement \in Agreements
      /\ db[calls[r].input.agreement] \in Rows
      /\ calls[r].got \in Rows /\ calls[r].loaded \in Rows
  BY InFlightCall DEF TypeOK
<1> QED BY <1>1 DEF Places, Rows

\* What the copy of a request holds after a step: rows that were in the tables
\* of its agreement or in the copy, and the request's own where it belongs.
LEMMA CopyStep ==
  ASSUME TypeOK, Places, [Next]_vars, NEW r \in Requests, InFlight(r)',
         NEW tab \in Tables, NEW x \in calls'[r].got[tab] \cup calls'[r].loaded[tab]
  PROVE  /\ calls'[r].input.agreement \in created
         /\ x \in Requests /\ InPlace(x, calls'[r].input.agreement, tab)
<1> DEFINE Goal == /\ calls'[r].input.agreement \in created
                   /\ x \in Requests /\ InPlace(x, calls'[r].input.agreement, tab)
           Source == calls[r].got[tab] \cup calls[r].loaded[tab]
                       \cup db[calls[r].input.agreement][tab]
<1>1. ASSUME InFlight(r), calls'[r].input = calls[r].input, x \in Source PROVE Goal
  BY <1>1, PlacesCopy
<1>2. ASSUME calls'[r] = calls[r] PROVE Goal
  BY <1>1, <1>2 DEF InFlight
<1>3. ASSUME NEW s \in Requests, Commit(s) PROVE Goal
  <2>1. InFlight(r) /\ calls'[r].input = calls[r].input
        /\ calls'[r].got = calls[r].got /\ calls'[r].loaded = calls[r].loaded
    BY <1>3, Committed DEF InFlight
  <2> QED BY <2>1, <1>1
<1>4. ASSUME NEW in \in Inputs, Get(r, in) PROVE FALSE
  BY <1>4 DEF Get, InFlight, NoRows, TypeOK
<1>5. ASSUME GetResults(r) \/ GetEvents(r) \/ LoadResults(r) \/ LoadEvents(r) PROVE Goal
  <2>1. InFlight(r)
    BY <1>5 DEF GetResults, GetEvents, LoadResults, LoadEvents, InFlight
  <2>2. calls'[r].input = calls[r].input
    BY <1>5 DEF GetResults, GetEvents, LoadResults, LoadEvents, At, TypeOK
  <2>3. /\ calls'[r].got = calls[r].got \/ \E u \in Tables :
             calls'[r].got = Fresh(calls[r].got, calls[r].input.agreement, u)
        /\ calls'[r].loaded = calls[r].loaded \/ \E u \in Tables :
             calls'[r].loaded = Fresh(calls[r].loaded, calls[r].input.agreement, u)
    BY <1>5, TablesType DEF GetResults, GetEvents, LoadResults, LoadEvents, At, TypeOK
  <2>4. x \in Source
    BY <2>1, <2>3, InFlightCall, FreshRows
  <2> QED BY <2>1, <2>2, <2>4, <1>1
<1>6. ASSUME AppendRow(r) PROVE Goal
  <2> DEFINE u == TableOf(calls[r].input.kind)
             a == calls[r].input.agreement
  <2>1. InFlight(r)
    BY <1>6 DEF AppendRow, InFlight
  <2>2. /\ calls'[r].input = calls[r].input /\ calls'[r].loaded = calls[r].loaded
        /\ calls'[r].got = [calls[r].got EXCEPT ![u] = calls[r].got[u] \cup {r}]
    BY <1>6 DEF AppendRow, At, TypeOK
  <2>3. x \in Source \/ (x = r /\ tab = u)
    <3>1. calls[r].got \in [Tables -> SUBSET Requests]
      BY <2>1, InFlightCall DEF Rows
    <3> HIDE DEF u
    <3>2. calls'[r].got[tab] = IF tab = u THEN calls[r].got[tab] \cup {r} ELSE calls[r].got[tab]
      BY <2>2, <3>1
    <3>3. x \in calls'[r].got[tab] \/ x \in calls[r].loaded[tab]
      BY <2>2
    <3> QED BY <3>2, <3>3
  <2>4. InPlace(r, a, u)
    BY <1>6 DEF AppendRow, InPlace, NotFound, TableOf
  <2> QED BY <2>1, <2>2, <2>3, <2>4, <1>1, PlacesCopy
<1>7. ASSUME Reject(r) \/ Respond(r) \/ Fail(r) PROVE FALSE
  BY <1>7, Answered DEF Reject, Respond, Fail, InFlight
<1>8. ASSUME NEW s \in Requests, Step(s), ~Commit(s), s # r PROVE calls'[r] = calls[r]
  BY <1>8 DEF Step, Get, GetResults, GetEvents, Reject, AppendRow, LoadResults, LoadEvents,
              Respond, Fail, Answer, TypeOK
<1>9. ASSUME NEW s \in Requests, Step(s) PROVE Goal
  <2>1. CASE s = r
    BY <1>9, <2>1, <1>3, <1>4, <1>5, <1>6, <1>7 DEF Step
  <2>2. CASE s # r
    BY <1>9, <2>2, <1>2, <1>3, <1>8
  <2> QED BY <2>1, <2>2
<1> QED BY <1>2, <1>9 DEF Next, Add, vars

\* A stored row was stored, or was in the copy of the request that commits.
LEMMA StoredStep ==
  ASSUME TypeOK, Places, [Next]_vars, NEW a \in Agreements, NEW tab \in Tables,
         NEW x \in db'[a][tab]
  PROVE  a \in created /\ x \in Requests /\ InPlace(x, a, tab)
<1>1. CASE x \in db[a][tab]
  BY <1>1 DEF Places, TypeOK, Rows
<1>2. CASE x \notin db[a][tab]
  <2>1. PICK r \in Requests : Commit(r)
    BY <1>2 DEF Next, Add, vars, Step, Get, GetResults, GetEvents, Reject, AppendRow,
                LoadResults, LoadEvents, Respond, Fail
  <2>2. InFlight(r) /\ calls[r].input.agreement \in Agreements
    BY <2>1, InFlightCall DEF Commit, InFlight
  <2>3. a = calls[r].input.agreement /\ x \in Flushed(r, tab)
    BY <1>2, <2>1, <2>2 DEF Commit, TypeOK
  <2>4. x \in calls[r].got[tab] \cup calls[r].loaded[tab] \cup db[a][tab]
    BY <2>3 DEF Flushed, Inserts
  <2> QED BY <2>2, <2>3, <2>4, PlacesCopy
<1> QED BY <1>1, <1>2

\* A request comes into flight only by its own first step.
LEMMA OnlyGetBegins ==
  ASSUME TypeOK, [Next]_vars, NEW r \in Requests, ~InFlight(r), InFlight(r)'
  PROVE  \E in \in Inputs : Get(r, in)
<1>1. calls'[r] # calls[r]
  BY DEF InFlight
<1>2. ASSUME NEW s \in Requests, Step(s) PROVE \E in \in Inputs : Get(r, in)
  <2>1. CASE Commit(s)
    BY <2>1, Committed DEF InFlight
  <2>2. CASE ~Commit(s) /\ s # r
    BY <1>1, <1>2, <2>2 DEF Step, Get, GetResults, GetEvents, Reject, AppendRow,
                            LoadResults, LoadEvents, Respond, Fail, Answer, TypeOK
  <2>3. CASE s = r
    BY <1>2, <2>3 DEF Step, InFlight, GetResults, GetEvents, Reject, AppendRow,
                      LoadResults, LoadEvents, Commit, Respond, Fail
  <2> QED BY <2>1, <2>2, <2>3
<1> QED BY <1>1, <1>2 DEF Next, Add, vars

\* The agreement of a request that is still in flight after a step exists.
LEMMA RequestStep ==
  ASSUME TypeOK, Places, [Next]_vars, NEW r \in Requests, InFlight(r)'
  PROVE  calls'[r].input.agreement \in created'
<1>1. CASE InFlight(r)
  <2>1. calls[r].input.agreement \in created /\ calls'[r].input = calls[r].input
    BY <1>1, InputsStay DEF Places, InFlight
  <2> QED BY <2>1, CovenantsStay
<1>2. CASE ~InFlight(r)
  <2>1. PICK in \in Inputs : Get(r, in)
    BY <1>2, OnlyGetBegins
  <2> QED BY <2>1 DEF Get, InFlight, TypeOK
<1> QED BY <1>1, <1>2

\* Every step keeps every row, stored or copied, where it belongs.
LEMMA PlacesStep ==
  ASSUME TypeOK, TypeOK', Places, [Next]_vars
  PROVE  Places'
<1>1. ASSUME NEW a \in Agreements, NEW tab \in Tables, NEW x \in db'[a][tab]
      PROVE  a \in created' /\ InPlace(x, a, tab)'
  BY <1>1, StoredStep, InPlaceStays
<1>2. ASSUME NEW r \in Requests, InFlight(r)'
      PROVE  (/\ calls[r].input.agreement \in created
              /\ \A tab \in Tables : \A x \in calls[r].got[tab] \cup calls[r].loaded[tab] :
                   InPlace(x, calls[r].input.agreement, tab))'
  <2>1. calls'[r].input.agreement \in created'
    BY <1>2, RequestStep
  <2>2. ASSUME NEW tab \in Tables, NEW x \in calls'[r].got[tab] \cup calls'[r].loaded[tab]
        PROVE  InPlace(x, calls[r].input.agreement, tab)'
    <3>1. PICK a \in created : a = calls'[r].input.agreement /\ x \in Requests /\ InPlace(x, a, tab)
      BY <1>2, <2>2, CopyStep
    <3>2. InPlace(x, a, tab)'
      BY <3>1, InPlaceStays
    <3> QED BY <3>1, <3>2 DEF InPlace
  <2> QED BY <2>1, <2>2
<1> QED BY <1>1, <1>2 DEF Places

\* RowsInTheirPlace: no rewrite, of this agreement or of another, moves a row,
\* and every stored test result is of a covenant of its agreement.
THEOREM RowsStayInPlace == Spec => []RowsInTheirPlace
<1>1. Init => Places
  BY DEF Init, Places, InFlight, NoRows
<1>2. TypeOK /\ TypeOK' /\ Places /\ [Next]_vars => Places'
  BY PlacesStep
<1>3. Places => RowsInTheirPlace
  BY DEF Places, InPlace, RowsInTheirPlace
<1> QED BY <1>1, <1>2, <1>3, TypeCorrect, PTL DEF Spec
----------------------------------------------------------------------------
(***************************************************************************)
(* Where requests do not overlap the tables are the ledger.               *)
(***************************************************************************)

\* What UpToDate says of one request and one table.
Current(r, tab) ==
  LET rows == db[calls[r].input.agreement][tab] IN
  /\ HasRead(r, tab) => calls[r].got[tab] = rows \cup Appended(r, tab)
  /\ HasLoaded(r, tab) => calls[r].loaded[tab] = rows

\* A step leaves each request alone with an agreement that is not contended.
LEMMA AloneStep ==
  ASSUME TypeOK, Alone, [Next]_vars
  PROVE  Alone'
<1>1. ASSUME NEW r \in Requests, InFlight(r)', ~InFlight(r),
             NEW s \in Requests, InFlight(s)',
             calls'[r].input.agreement = calls'[s].input.agreement,
             calls'[r].input.agreement \in Quiet
      PROVE  r = s
  <2>1. PICK in \in Inputs : Get(r, in)
    BY <1>1, OnlyGetBegins
  <2>2. \A q \in Requests \ {r} : calls'[q] = calls[q]
    BY <2>1 DEF Get, TypeOK
  <2>3. calls'[r].input = in
    BY <2>1 DEF Get, TypeOK
  <2> QED BY <1>1, <2>1, <2>2, <2>3 DEF Get, InFlight, Quiet
<1>2. ASSUME NEW r \in Requests, InFlight(r), NEW s \in Requests, InFlight(s),
             calls'[r].input.agreement = calls'[s].input.agreement,
             calls'[r].input.agreement \in Quiet
      PROVE  r = s
  <2>1. calls'[r].input = calls[r].input /\ calls'[s].input = calls[s].input
    BY <1>2, InputsStay DEF InFlight
  <2> QED BY <1>2, <2>1 DEF Alone
<1> QED BY <1>1, <1>2 DEF Alone

\* A step keeps the copies of the requests in flight up to date.
LEMMA UpToDateStep ==
  ASSUME TypeOK, Alone, UpToDate, [Next]_vars
  PROVE  UpToDate'
<1> SUFFICES ASSUME NEW r \in Requests, InFlight(r)', calls'[r].pc # "respond",
                    calls'[r].input.agreement \in Quiet, NEW tab \in Tables
             PROVE  Current(r, tab)'
  BY DEF UpToDate, Current
<1>1. ASSUME calls'[r] = calls[r], db' = db PROVE Current(r, tab)'
  BY <1>1 DEF UpToDate, Current, InFlight, HasRead, HasLoaded, Appended
<1>2. ASSUME NEW s \in Requests, Commit(s) PROVE Current(r, tab)'
  <2>1. s # r /\ InFlight(s) /\ InFlight(r)
    BY <1>2, Committed DEF InFlight
  <2>2. /\ calls'[r].pc = calls[r].pc /\ calls'[r].input = calls[r].input
        /\ calls'[r].got = calls[r].got /\ calls'[r].loaded = calls[r].loaded
    BY <1>2, <2>1, Committed
  <2>3. calls[r].input.agreement # calls[s].input.agreement
    BY <2>1, <2>2 DEF Alone
  <2>4. db'[calls[r].input.agreement] = db[calls[r].input.agreement]
    BY <1>2, <2>1, <2>3, InFlightCall DEF Commit, TypeOK
  <2>5. Current(r, tab)
    BY <2>1, <2>2 DEF UpToDate, Current
  <2> QED BY <2>2, <2>4, <2>5 DEF Current, HasRead, HasLoaded, Appended
<1>3. ASSUME NEW s \in Requests, Step(s), ~Commit(s) PROVE db' = db /\ (s # r => calls'[r] = calls[r])
  BY <1>3 DEF Step, Get, GetResults, GetEvents, Reject, AppendRow, LoadResults, LoadEvents,
              Respond, Fail, Answer, TypeOK
<1>4. ASSUME NEW in \in Inputs, Get(r, in) PROVE Current(r, tab)'
  <2>1. calls'[r].pc = "get_results"
    BY <1>4 DEF Get, InFlight, TypeOK
  <2> QED BY <2>1 DEF Current, HasRead, HasLoaded
<1>5. ASSUME GetResults(r) \/ GetEvents(r) PROVE Current(r, tab)'
  <2>1. InFlight(r) /\ calls[r].pc # "respond"
    BY <1>5 DEF GetResults, GetEvents, InFlight
  <2>2. /\ calls'[r].input = calls[r].input /\ db' = db
        /\ calls'[r].pc \in {"get_events", "append"}
    BY <1>5 DEF GetResults, GetEvents, At, TypeOK
  <2>3. CASE GetResults(r)
    <3>1. /\ calls'[r].pc = "get_events"
          /\ calls'[r].got = Fresh(calls[r].got, calls[r].input.agreement, "covenant_test_results")
      BY <2>3 DEF GetResults, At, TypeOK
    <3>2. calls'[r].got["covenant_test_results"] =
            db[calls[r].input.agreement]["covenant_test_results"]
      BY <2>1, <3>1, InFlightCall, FreshRows, TablesType
    <3> QED BY <2>2, <3>1, <3>2 DEF Current, HasRead, HasLoaded, Appended
  <2>4. CASE GetEvents(r)
    <3>1. /\ calls'[r].pc = "append"
          /\ calls'[r].got = Fresh(calls[r].got, calls[r].input.agreement, "default_events")
      BY <2>4 DEF GetEvents, At, TypeOK
    <3>2. calls'[r].got[tab] = IF tab = "default_events"
                                 THEN db[calls[r].input.agreement][tab] ELSE calls[r].got[tab]
      BY <2>1, <3>1, InFlightCall, FreshRows, TablesType
    <3>3. tab # "default_events" =>
            calls[r].got[tab] = db[calls[r].input.agreement][tab]
      <4>1. calls[r].pc = "get_events" /\ Appended(r, tab) = {}
        BY <2>4 DEF GetEvents, Appended
      <4>2. tab # "default_events" => HasRead(r, tab)
        BY <4>1 DEF HasRead, Tables
      <4>3. Current(r, tab)
        BY <2>1, <2>2 DEF UpToDate, Current
      <4> QED BY <4>1, <4>2, <4>3 DEF Current
    <3>4. calls'[r].got[tab] = db'[calls'[r].input.agreement][tab]
      BY <2>2, <3>2, <3>3
    <3>5. Appended(r, tab)' = {} /\ ~HasLoaded(r, tab)'
      BY <3>1 DEF Appended, HasLoaded
    <3> QED BY <3>4, <3>5 DEF Current
  <2> QED BY <1>5, <2>3, <2>4
<1>6. ASSUME AppendRow(r) PROVE Current(r, tab)'
  <2> DEFINE u == TableOf(calls[r].input.kind)
  <2>1. InFlight(r) /\ calls[r].pc = "append"
    BY <1>6 DEF AppendRow, InFlight
  <2>2. /\ calls'[r].pc = "load_results" /\ calls'[r].input = calls[r].input /\ db' = db
        /\ calls'[r].got = [calls[r].got EXCEPT ![u] = calls[r].got[u] \cup {r}]
    BY <1>6 DEF AppendRow, At, TypeOK
  <2>3. calls[r].got[tab] = db[calls[r].input.agreement][tab]
    <3>1. calls[r].got[tab] = db[calls[r].input.agreement][tab] \cup Appended(r, tab)
      BY <2>1, <2>2 DEF UpToDate, HasRead
    <3>2. Appended(r, tab) = {}
      BY <2>1 DEF Appended
    <3> QED BY <3>1, <3>2
  <2>4. calls[r].got \in [Tables -> SUBSET Requests]
    BY <2>1, InFlightCall DEF Rows
  <2>5. calls'[r].got[tab] = IF tab = u THEN calls[r].got[tab] \cup {r} ELSE calls[r].got[tab]
    BY <2>2, <2>4
  <2>6. Appended(r, tab)' = IF tab = u THEN {r} ELSE {}
    BY <2>2 DEF Appended
  <2> QED BY <2>2, <2>3, <2>5, <2>6 DEF Current, HasLoaded
<1>7. ASSUME LoadResults(r) \/ LoadEvents(r) PROVE Current(r, tab)'
  <2>1. InFlight(r) /\ calls[r].pc \in {"load_results", "load_events"}
    BY <1>7 DEF LoadResults, LoadEvents, InFlight
  <2>2. /\ calls'[r].input = calls[r].input /\ calls'[r].got = calls[r].got /\ db' = db
        /\ calls'[r].pc \in {"load_events", "flush"}
    BY <1>7 DEF LoadResults, LoadEvents, At, TypeOK
  <2>3. Appended(r, tab)' = Appended(r, tab)
    BY <2>1, <2>2 DEF Appended
  <2>4. calls'[r].got[tab] = db'[calls'[r].input.agreement][tab] \cup Appended(r, tab)'
    BY <2>1, <2>2, <2>3 DEF UpToDate, HasRead
  <2>5. HasLoaded(r, tab)' => calls'[r].loaded[tab] = db'[calls'[r].input.agreement][tab]
    <3>1. CASE LoadResults(r)
      <4>1. /\ calls'[r].pc = "load_events"
            /\ calls'[r].loaded =
                 Fresh(calls[r].loaded, calls[r].input.agreement, "covenant_test_results")
        BY <3>1 DEF LoadResults, At, TypeOK
      <4> QED BY <2>1, <2>2, <4>1, InFlightCall, FreshRows, TablesType DEF HasLoaded
    <3>2. CASE LoadEvents(r)
      <4>1. calls'[r].loaded = Fresh(calls[r].loaded, calls[r].input.agreement, "default_events")
        BY <3>2 DEF LoadEvents, At, TypeOK
      <4>2. calls'[r].loaded[tab] = IF tab = "default_events"
                                      THEN db[calls[r].input.agreement][tab]
                                      ELSE calls[r].loaded[tab]
        BY <2>1, <4>1, InFlightCall, FreshRows, TablesType
      <4>3. tab # "default_events" => calls[r].loaded[tab] = db[calls[r].input.agreement][tab]
        BY <2>1, <2>2, <3>2 DEF UpToDate, LoadEvents, HasLoaded, Tables
      <4> QED BY <2>2, <4>2, <4>3
    <3> QED BY <1>7, <3>1, <3>2
  <2> QED BY <2>4, <2>5 DEF Current
<1>8. ASSUME Reject(r) \/ Respond(r) \/ Fail(r) PROVE FALSE
  BY <1>8, Answered DEF Reject, Respond, Fail, InFlight
<1>9. ASSUME NEW s \in Requests, Step(s) PROVE Current(r, tab)'
  <2>1. CASE s = r
    BY <1>9, <2>1, <1>2, <1>4, <1>5, <1>6, <1>7, <1>8 DEF Step
  <2>2. CASE s # r
    BY <1>9, <2>2, <1>1, <1>2, <1>3
  <2> QED BY <2>1, <2>2
<1> QED BY <1>1, <1>9 DEF Next, Add, vars

\* A commit of a request that is up to date stores its row and nothing else.
LEMMA CommitRecords ==
  ASSUME TypeOK, Origin, OwnRow, Places, UpToDate, NEW r \in Requests, Commit(r),
         calls[r].input.agreement \in Quiet
  PROVE  Ledger!Record(calls[r].input.agreement, TableOf(calls[r].input.kind), r)
<1> DEFINE a == calls[r].input.agreement
           u == TableOf(calls[r].input.kind)
<1>1. calls[r].pc = "flush" /\ InFlight(r)
  BY DEF Commit, InFlight
<1>2. a \in Agreements /\ a \in created /\ u \in Tables
  BY <1>1, InFlightCall, TablesType DEF Places
<1>3. r \notin committed
  BY <1>1, OwnRowIsInserted
<1>4. ASSUME NEW tab \in Tables
      PROVE  Flushed(r, tab) = IF tab = u THEN db[a][tab] \cup {r} ELSE db[a][tab]
  <2>1. /\ calls[r].got[tab] = db[a][tab] \cup Appended(r, tab)
        /\ calls[r].loaded[tab] = db[a][tab]
    BY <1>1 DEF UpToDate, HasRead, HasLoaded
  <2>2. Appended(r, tab) = IF tab = u THEN {r} ELSE {}
    BY <1>1 DEF Appended
  <2> QED BY <2>1, <2>2 DEF Flushed, Inserts, Deletes
<1>5. db[a] \in [Tables -> SUBSET Requests]
  BY <1>2 DEF TypeOK, Rows
<1>6. db' = [db EXCEPT ![a] = [tab \in Tables |-> Flushed(r, tab)]]
  BY DEF Commit
<1> HIDE DEF u
<1>7. [tab \in Tables |-> Flushed(r, tab)] = [db[a] EXCEPT ![u] = @ \cup {r}]
  BY <1>2, <1>4, <1>5
<1> DEFINE quiet == [b \in Quiet |-> db[b]]
<1>8. [b \in Quiet |-> db'[b]] = [quiet EXCEPT ![a][u] = @ \cup {r}]
  <2>1. Quiet \subseteq Agreements
    BY DEF Quiet
  <2>2. \A b \in Quiet : db'[b] = IF b = a THEN [db[a] EXCEPT ![u] = @ \cup {r}] ELSE db[b]
    BY <1>6, <1>7, <2>1 DEF TypeOK
  <2>3. quiet[a] = db[a]
    OBVIOUS
  <2> HIDE DEF a
  <2> QED BY <2>2, <2>3
<1>9. \A b \in Quiet, tab \in Tables : r \notin quiet[b][tab]
  BY <1>3 DEF Origin, Quiet
<1>10. created' = created
  BY DEF Commit
<1> HIDE DEF quiet
<1> QED BY <1>2, <1>8, <1>9, <1>10 DEF Ledger!Record, u, quiet

\* IsLedger: on an agreement whose requests come one at a time, whatever fails
\* and however requests on other agreements interleave, the records only ever
\* grow, by the one row of the request that commits.
THEOREM SerialIsLedger == Spec => IsLedger
<1> DEFINE Inv == Origin /\ OwnRow /\ Places /\ Alone /\ UpToDate
<1>1. Init => Ledger!Init /\ Inv
  BY DEF Init, Ledger!Init, Quiet, NoRows, Origin, OwnRow, Places, Alone, UpToDate, InFlight
<1>2. TypeOK /\ TypeOK' /\ Inv /\ [Next]_vars => Inv'
  BY OriginStep, OwnRowStep, PlacesStep, AloneStep, UpToDateStep
<1>3. TypeOK /\ Inv /\ [Next]_vars => [Ledger!Next]_(Ledger!vars)
  <2> SUFFICES ASSUME TypeOK, Inv, [Next]_vars PROVE [Ledger!Next]_(Ledger!vars)
    OBVIOUS
  <2>1. ASSUME NEW a \in Agreements, NEW cs \in SUBSET Covenants, Add(a, cs)
        PROVE  [Ledger!Next]_(Ledger!vars)
    <3>1. CASE a \in Quiet
      BY <2>1, <3>1 DEF Add, Ledger!Next, Ledger!Create
    <3>2. CASE a \notin Quiet
      BY <2>1, <3>2 DEF Add, Ledger!vars
    <3> QED BY <3>1, <3>2
  <2>2. ASSUME NEW r \in Requests, Commit(r) PROVE [Ledger!Next]_(Ledger!vars)
    <3>1. InFlight(r)
      BY <2>2 DEF Commit, InFlight
    <3>2. CASE calls[r].input.agreement \in Quiet
      BY <2>2, <3>1, <3>2, CommitRecords, InFlightCall, TablesType DEF Ledger!Next
    <3>3. CASE calls[r].input.agreement \notin Quiet
      <4>1. \A b \in Quiet : db'[b] = db[b]
        BY <2>2, <3>3 DEF Commit, TypeOK, Quiet
      <4> QED BY <2>2, <4>1 DEF Commit, Ledger!vars
    <3> QED BY <3>2, <3>3
  <2>3. ASSUME NEW r \in Requests, Step(r), ~Commit(r) PROVE UNCHANGED <<created, db>>
    BY <2>3 DEF Step, Get, GetResults, GetEvents, Reject, AppendRow, LoadResults, LoadEvents,
                Respond, Fail
  <2> QED BY <2>1, <2>2, <2>3 DEF Next, vars, Ledger!vars
<1> HIDE DEF Inv
<1> QED BY <1>1, <1>2, <1>3, TypeCorrect, PTL DEF Spec, IsLedger, Ledger!Spec
============================================================================
