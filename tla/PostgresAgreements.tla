------------------------- MODULE PostgresAgreements -------------------------
(***************************************************************************)
(* Recording on an agreement with the Postgres backend.                    *)
(*                                                                         *)
(* AgreementService.record_covenant_test_result and record_default_event   *)
(* read the whole agreement, append one child object to the copy they got, *)
(* and hand the copy to PostgresAgreementRepository.update(), which loads  *)
(* the agreement again in a transaction of its own and assigns the copy's  *)
(* children to it.  Every await of the code is a separate step here: the   *)
(* event loop may run other requests between any two of them.              *)
(*                                                                         *)
(* A row is known by the request that made it: its id is a fresh uuid4 and *)
(* each request makes one row.  The scalar columns of an agreement and its *)
(* covenants never change after creation, so only the child rows are kept. *)
(***************************************************************************)
EXTENDS FiniteSets

CONSTANTS
  Agreements,   \* agreement ids
  Covenants,    \* covenant ids
  NoCovenant,   \* related_covenant_id = None
  Requests,     \* POST requests that record something, each with its row's id
  Contended     \* agreements whose requests may be in flight together

ASSUME AgreementsAssumption ==
  /\ NoCovenant \notin Covenants
  /\ Contended \subseteq Agreements

\* The two child tables, and what a request asks for: a test result of a
\* covenant, a covenant_breach event, or an event of any other type.
Tables == {"covenant_test_results", "default_events"}
Kinds == {"test_result", "covenant_breach", "other_event"}
TableOf(kind) == IF kind = "test_result" THEN "covenant_test_results" ELSE "default_events"

\* The covenant of a test result is a part of the request's path.
Inputs ==
  {in \in [agreement : Agreements, kind : Kinds, covenant : Covenants \cup {NoCovenant}] :
     in.kind = "test_result" => in.covenant # NoCovenant}

VARIABLES
  created,    \* rows of the table agreements
  covenants,  \* their covenants column
  db,         \* committed child rows, per agreement and table
  calls,      \* the requests in flight, with their local variables
  committed   \* history: the requests whose transaction has committed

vars == <<created, covenants, db, calls, committed>>

NoRows == [tab \in Tables |-> {}]

Init ==
  /\ created = {}
  /\ covenants = [a \in Agreements |-> {}]
  /\ db = [a \in Agreements |-> NoRows]
  /\ calls = [r \in Requests |-> [pc |-> "idle"]]
  /\ committed = {}

InFlight(r) == calls[r].pc \notin {"idle", "done"}

\* The copy "got", the domain object that _to_domain builds, and the rows
\* "loaded" change together with the place a request is at; its input and its
\* history stay.
At(pc, call, got, loaded) ==
  [pc |-> pc, input |-> call.input, kept |-> call.kept, got |-> got, loaded |-> loaded]

\* Mutant of Answer: the copy outlives the request.
AnswerKeepingCopy(r, status) == calls' = [calls EXCEPT ![r].pc = "done"]

\* The answer of a request ends it.
Answer(r, status) ==
  calls' = [calls EXCEPT ![r] = [pc |-> "done", status |-> status, input |-> calls[r].input]]

----------------------------------------------------------------------------
(***************************************************************************)
(* POST /agreements: one transaction that inserts the parent row, without  *)
(* children.                                                               *)
(***************************************************************************)
Add(a, cs) ==
  /\ a \notin created
  /\ created' = created \cup {a}
  /\ covenants' = [covenants EXCEPT ![a] = cs]
  /\ UNCHANGED <<db, calls, committed>>

----------------------------------------------------------------------------
(***************************************************************************)
(* POST .../test-results and POST .../default-events.                      *)
(***************************************************************************)

\* repository.get: the SELECT of the parent row.  The request starts here;
\* "kept" is history: the rows its agreement has had ever since, per table.
Get(r, in) ==
  /\ calls[r].pc = "idle"
  /\ in.agreement \in Contended \/ \A s \in Requests : InFlight(s) => calls[s].input.agreement # in.agreement
  /\ calls' = [calls EXCEPT ![r] =
       IF in.agreement \in created
         THEN [pc |-> "get_results", input |-> in, kept |-> db[in.agreement],
               got |-> NoRows, loaded |-> NoRows]
         ELSE [pc |-> "done", status |-> 404, input |-> in]]
  /\ UNCHANGED <<created, covenants, db, committed>>

\* selectinload reads each child table with a statement of its own, and READ
\* COMMITTED gives each statement a snapshot of its own.
Fresh(rows, a, tab) == [rows EXCEPT ![tab] = db[a][tab]]

GetResults(r) ==
  LET c == calls[r] IN
  /\ c.pc = "get_results"
  /\ calls' = [calls EXCEPT ![r] =
       At("get_events", c, Fresh(c.got, c.input.agreement, "covenant_test_results"), c.loaded)]
  /\ UNCHANGED <<created, covenants, db, committed>>

\* Mutant of GetEvents: the events are not loaded with the agreement.
GetEventsNotLoaded(r) ==
  LET c == calls[r] IN
  /\ c.pc = "get_events"
  /\ calls' = [calls EXCEPT ![r] = At("append", c, c.got, c.loaded)]
  /\ UNCHANGED <<created, covenants, db, committed>>

GetEvents(r) ==
  LET c == calls[r] IN
  /\ c.pc = "get_events"
  /\ calls' = [calls EXCEPT ![r] =
       At("append", c, Fresh(c.got, c.input.agreement, "default_events"), c.loaded)]
  /\ UNCHANGED <<created, covenants, db, committed>>

\* Mutant of NotFound: any covenant will do.
NotFoundUnnamed(in) == in.kind = "test_result" /\ in.covenant = NoCovenant

\* The checks between the read and the append.  A test result must name one of
\* the agreement's covenants (404); a covenant_breach event must name one (422),
\* but not necessarily one of this agreement's.
NotFound(in) == in.kind = "test_result" /\ in.covenant \notin covenants[in.agreement]
Invalid(in) == in.kind = "covenant_breach" /\ in.covenant = NoCovenant

Reject(r) ==
  /\ calls[r].pc = "append"
  /\ \/ NotFound(calls[r].input) /\ Answer(r, 404)
     \/ Invalid(calls[r].input) /\ Answer(r, 422)
  /\ UNCHANGED <<created, covenants, db, committed>>

\* The new object joins the copy, in the list of its kind.
AppendRow(r) ==
  LET c == calls[r]
      tab == TableOf(c.input.kind) IN
  /\ c.pc = "append"
  /\ ~NotFound(c.input) /\ ~Invalid(c.input)
  /\ calls' = [calls EXCEPT ![r] =
       At("load_results", c, [c.got EXCEPT ![tab] = c.got[tab] \cup {r}], c.loaded)]
  /\ UNCHANGED <<created, covenants, db, committed>>

\* repository.update: the transaction loads the agreement again.  Its parent row
\* is there, since nothing deletes agreements; the children are what counts.
LoadResults(r) ==
  LET c == calls[r] IN
  /\ c.pc = "load_results"
  /\ calls' = [calls EXCEPT ![r] =
       At("load_events", c, c.got, Fresh(c.loaded, c.input.agreement, "covenant_test_results"))]
  /\ UNCHANGED <<created, covenants, db, committed>>

LoadEvents(r) ==
  LET c == calls[r] IN
  /\ c.pc = "load_events"
  /\ calls' = [calls EXCEPT ![r] =
       At("flush", c, c.got, Fresh(c.loaded, c.input.agreement, "default_events"))]
  /\ UNCHANGED <<created, covenants, db, committed>>

\* Mutant of Inserts: update() forgets the events.
InsertsResultsOnly(r, tab) ==
  {x \in calls[r].got[tab] \ calls[r].loaded[tab] : tab = "covenant_test_results"}

\* Mutant of Deletes: every loaded row is deleted, and not inserted again.
DeletesAll(r, tab) == calls[r].loaded[tab]

\* Assigning the two collections makes the unit of work compare the copy with
\* what THIS transaction loaded: a loaded row that the copy lacks is deleted, a
\* row of the copy that was not loaded is inserted, a row in both is rewritten
\* with the values it has.  A row in neither is not touched.
Inserts(r, tab) == calls[r].got[tab] \ calls[r].loaded[tab]
Deletes(r, tab) == calls[r].loaded[tab] \ calls[r].got[tab]
Flushed(r, tab) == (db[calls[r].input.agreement][tab] \ Deletes(r, tab)) \cup Inserts(r, tab)

\* Inserting a row that another transaction has committed since breaks the
\* primary key, and rewriting one that another transaction has deleted since
\* matches no row.  That is noticed (StaleDataError) only where the table has a
\* single row to rewrite: several are one executemany, of which asyncpg gives no
\* row count, and the lost row stays lost.  What is noticed cannot commit, and
\* fails.  Deleting a row that is gone already is only a warning.
DuplicateKey(r) ==
  \E tab \in Tables : Inserts(r, tab) \cap db[calls[r].input.agreement][tab] # {}

RowGone(r) ==
  \E tab \in Tables, row \in Requests :
    /\ calls[r].got[tab] \cap calls[r].loaded[tab] = {row}
    /\ row \notin db[calls[r].input.agreement][tab]

\* Flush and COMMIT.  The statements of the flush only write rows, and hold the
\* row locks until the transaction ends, so both are one step.
\* What the other requests have seen all along shrinks with the tables.
Kept(call, a, rows) ==
  IF call.pc \notin {"idle", "done"} /\ call.input.agreement = a
    THEN [call EXCEPT !.kept = [tab \in Tables |-> call.kept[tab] \cap rows[tab]]]
    ELSE call

Commit(r) ==
  LET c == calls[r]
      a == c.input.agreement
      rows == [tab \in Tables |-> Flushed(r, tab)] IN
  /\ c.pc = "flush"
  /\ ~DuplicateKey(r) /\ ~RowGone(r)
  /\ db' = [db EXCEPT ![a] = rows]
  /\ committed' = committed \cup {r}
  /\ calls' = [s \in Requests |->
       IF s = r THEN At("respond", c, c.got, c.loaded) ELSE Kept(calls[s], a, rows)]
  /\ UNCHANGED <<created, covenants>>

Respond(r) ==
  /\ calls[r].pc = "respond"
  /\ Answer(r, 201)
  /\ UNCHANGED <<created, covenants, db, committed>>

\* Mutant of Fail: what was flushed is not rolled back.
FailWithoutRollback(r) ==
  /\ InFlight(r)
  /\ Answer(r, 500)
  /\ db' = IF calls[r].pc = "flush"
             THEN [db EXCEPT ![calls[r].input.agreement] = [tab \in Tables |-> Flushed(r, tab)]]
             ELSE db
  /\ UNCHANGED <<created, covenants, committed>>

\* Any await may fail instead: the connection is lost, the transaction is the
\* victim of a deadlock, the one rewritten row has gone or a key is there twice.
\* The transaction is rolled back, and CorrelationIdMiddleware turns the exception
\* into a 500.  After COMMIT was sent
\* the rows may be there all the same.  A crash of the process is every request
\* in flight failing, with no answer at all.
Fail(r) ==
  /\ InFlight(r)
  /\ Answer(r, 500)
  /\ UNCHANGED <<created, covenants, db, committed>>

----------------------------------------------------------------------------
Step(r) ==
  \/ \E in \in Inputs : Get(r, in)
  \/ GetResults(r) \/ GetEvents(r)
  \/ Reject(r) \/ AppendRow(r)
  \/ LoadResults(r) \/ LoadEvents(r)
  \/ Commit(r) \/ Respond(r)
  \/ Fail(r)

Next ==
  \/ \E a \in Agreements, cs \in SUBSET Covenants : Add(a, cs)
  \/ \E r \in Requests : Step(r)

Spec == Init /\ [][Next]_vars
----------------------------------------------------------------------------
(***************************************************************************)
(* Properties.                                                             *)
(***************************************************************************)
Rows == [Tables -> SUBSET Requests]

Working ==
  [pc : {"get_results", "get_events", "append", "load_results", "load_events",
         "flush", "respond"},
   input : Inputs, kept : Rows, got : Rows, loaded : Rows]

Done == [pc : {"done"}, status : {201, 404, 422, 500}, input : Inputs]

Calls == {[pc |-> "idle"]} \cup Working \cup Done

\* The tables hold rows of requests, and a request has a copy of its agreement
\* exactly while it is in flight.
TypeOK ==
  /\ created \subseteq Agreements
  /\ covenants \in [Agreements -> SUBSET Covenants]
  /\ db \in [Agreements -> Rows]
  /\ calls \in [Requests -> Calls]
  /\ committed \subseteq Requests

\* No phantom rows: whatever is stored was put there by a transaction of its
\* own request that committed.  A request that was refused (404, 422), or that
\* failed before its COMMIT, leaves nothing behind, not even through another
\* request's full rewrite of the agreement.
OnlyCommittedRows ==
  \A a \in Agreements, tab \in Tables : \A x \in db[a][tab] :
    /\ x \in committed
    /\ calls[x].pc \in {"respond", "done"}
    /\ calls[x].pc = "done" => calls[x].status \in {201, 500}

\* A row is stored on the agreement and in the table its request named, and a
\* test result always names a covenant of that agreement: no foreign key says
\* so (ADR-0021), and a rewrite of another agreement must not move it.
RowsInTheirPlace ==
  \A a \in Agreements, tab \in Tables : \A x \in db[a][tab] :
    /\ a \in created
    /\ calls[x].input.agreement = a
    /\ TableOf(calls[x].input.kind) = tab
    /\ tab = "covenant_test_results" => calls[x].input.covenant \in covenants[a]

\* A commit stores the row of its own request: a 201 is never given for a row
\* that the transaction did not write.
CommitStoresOwnRow ==
  [][\A r \in Requests : r \in committed' \ committed =>
       r \in db'[calls[r].input.agreement][TableOf(calls[r].input.kind)]]_vars

\* Which records a full rewrite can destroy: only ones that were recorded, or
\* went missing, while the request was in flight.  A row that was stored all
\* the time since a request began survives that request's commit.
StableRowsSurvive ==
  [][\A r \in Requests : r \in committed' \ committed =>
       \A tab \in Tables : calls[r].kept[tab] \subseteq db'[calls[r].input.agreement][tab]]_vars

\* When the requests on one agreement do not overlap, a record that is stored is
\* never lost, whatever the requests on other agreements do to those: the tables
\* of such agreements are the append-only ledger.
Quiet == Agreements \ Contended

Ledger == INSTANCE AgreementLedger WITH
  Agreements <- Quiet, created <- created \cap Quiet,
  recorded <- [a \in Quiet |-> db[a]], Records <- Requests
IsLedger == Ledger!Spec

\* PostgresAgreementRepository.update's docstring and ADR-0021: a full-aggregate
\* write REPLACES the children, so the last writer wins.
LastWriteWins ==
  [][\A r \in Requests : r \in committed' \ committed =>
       db'[calls[r].input.agreement] = calls[r].got]_vars
----------------------------------------------------------------------------
(***************************************************************************)
(* Inductive invariants.                                                   *)
(***************************************************************************)

\* Where rows come from: tables and copies hold rows of committed requests,
\* and a copy may hold the row of its own request besides.
Origin ==
  /\ \A a \in Agreements, tab \in Tables : db[a][tab] \subseteq committed
  /\ \A r \in Requests : InFlight(r) => \A tab \in Tables :
       /\ calls[r].got[tab] \subseteq committed \cup {r}
       /\ calls[r].loaded[tab] \subseteq committed
  /\ \A x \in committed :
       /\ calls[x].pc \in {"respond", "done"}
       /\ calls[x].pc = "done" => calls[x].status \in {201, 500}

\* A request that has read a table has every row of it that has been there all
\* along, and what has been there all along is there now.
HasRead(r, tab) ==
  \/ calls[r].pc \in {"append", "load_results", "load_events", "flush", "respond"}
  \/ calls[r].pc = "get_events" /\ tab = "covenant_test_results"

Seen ==
  \A r \in Requests : InFlight(r) => \A tab \in Tables :
    /\ calls[r].kept[tab] \subseteq db[calls[r].input.agreement][tab]
    /\ HasRead(r, tab) => calls[r].kept[tab] \subseteq calls[r].got[tab]

\* Once a request has appended its row, the row is in its copy.
OwnRow ==
  \A r \in Requests : calls[r].pc \in {"load_results", "load_events", "flush"} =>
    r \in calls[r].got[TableOf(calls[r].input.kind)]

\* Every row, stored or in a copy, is where its request wanted it.
InPlace(x, a, tab) ==
  /\ calls[x].pc # "idle"
  /\ calls[x].input.agreement = a
  /\ TableOf(calls[x].input.kind) = tab
  /\ tab = "covenant_test_results" => calls[x].input.covenant \in covenants[a]

Places ==
  /\ \A a \in Agreements, tab \in Tables : \A x \in db[a][tab] : a \in created /\ InPlace(x, a, tab)
  /\ \A r \in Requests : InFlight(r) =>
       /\ calls[r].input.agreement \in created
       /\ \A tab \in Tables : \A x \in calls[r].got[tab] \cup calls[r].loaded[tab] :
            InPlace(x, calls[r].input.agreement, tab)

\* When requests on one agreement do not overlap, a request in flight has its
\* agreement to itself, and what it has read is what is stored: the copy is the
\* table, with the request's row once appended, and so is what was loaded.
Alone ==
  \A r, s \in Requests :
    /\ InFlight(r) /\ InFlight(s)
    /\ calls[r].input.agreement = calls[s].input.agreement
    /\ calls[r].input.agreement \in Quiet
    => r = s

Appended(r, tab) ==
  {x \in {r} : /\ calls[r].pc \in {"load_results", "load_events", "flush"}
              /\ tab = TableOf(calls[r].input.kind)}

HasLoaded(r, tab) ==
  \/ calls[r].pc = "flush"
  \/ calls[r].pc = "load_events" /\ tab = "covenant_test_results"

UpToDate ==
  \A r \in Requests :
    InFlight(r) /\ calls[r].pc # "respond" /\ calls[r].input.agreement \in Quiet =>
    \A tab \in Tables :
    LET rows == db[calls[r].input.agreement][tab] IN
    /\ HasRead(r, tab) => calls[r].got[tab] = rows \cup Appended(r, tab)
    /\ HasLoaded(r, tab) => calls[r].loaded[tab] = rows
============================================================================
