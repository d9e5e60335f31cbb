---------------------------- MODULE SharedStore ----------------------------
(***************************************************************************)
(* How the requests of a process come to share their state.  The extraction*)
(* job store, the in-memory agreement store and the rate limiter are made  *)
(* by functions under functools.lru_cache that FastAPI calls as dependencies;*)
(* the functions are synchronous, so it calls them in threads of its pool. *)
(* lru_cache does not hold a lock while the function runs: two first calls *)
(* that overlap both run it, each returns the object it made, and the cache*)
(* keeps the one that was ready first.                                     *)
(*                                                                         *)
(* The module follows requests from their first dependency to the use of   *)
(* the store they were given: a POST adds a record, a GET looks for one.   *)
(***************************************************************************)
CONSTANTS
  Requests,   \* requests; each makes at most one store and adds at most one record
  NoStore     \* the cache is empty

ASSUME StoreAssumption == NoStore \notin Requests

VARIABLES
  cache,     \* the store that the cache keeps; a store has its maker's name
  contents,  \* the records of each store, each named after the POST that added it
  calls,     \* where each request is, and the store it was given
  early,     \* history: the requests that began before any store was cached
  added      \* history: the records of the POSTs that were answered

vars == <<cache, contents, calls, early, added>>

Init ==
  /\ cache = NoStore
  /\ contents = [s \in Requests |-> {}]
  /\ calls = [r \in Requests |-> [pc |-> "idle"]]
  /\ early = {}
  /\ added = {}

----------------------------------------------------------------------------
\* What a request is about: a POST about the record it will add, a GET about one
\* that the client was told of before it sent the GET.
Subjects(r) == {r} \cup added

\* Mutant of Hit: the call does not look whether anything is cached.
HitUnchecked(r, x) ==
  /\ calls[r].pc = "idle"
  /\ calls' = [calls EXCEPT ![r] = [pc |-> "ready", subject |-> x, store |-> cache]]
  /\ UNCHANGED <<cache, contents, early, added>>

\* A call that finds the cache filled returns what it keeps.
Hit(r, x) ==
  /\ calls[r].pc = "idle"
  /\ cache # NoStore
  /\ calls' = [calls EXCEPT ![r] = [pc |-> "ready", subject |-> x, store |-> cache]]
  /\ UNCHANGED <<cache, contents, early, added>>

\* A call that finds it empty runs the function.
Miss(r, x) ==
  /\ calls[r].pc = "idle"
  /\ cache = NoStore
  /\ calls' = [calls EXCEPT ![r] = [pc |-> "making", subject |-> x]]
  /\ early' = early \cup {r}
  /\ UNCHANGED <<cache, contents, added>>

\* Mutant of Made: the last store that is ready replaces the one that is kept.
MadeLastIsKept(r) ==
  /\ calls[r].pc = "making"
  /\ calls' = [calls EXCEPT ![r] =
                 [pc |-> "ready", subject |-> calls[r].subject, store |-> r]]
  /\ cache' = r
  /\ UNCHANGED <<contents, early, added>>

\* The function returns a new store, which the cache keeps unless it already
\* keeps one.  The caller gets the store it made in either case.
Made(r) ==
  /\ calls[r].pc = "making"
  /\ calls' = [calls EXCEPT ![r] =
                 [pc |-> "ready", subject |-> calls[r].subject, store |-> r]]
  /\ cache' = IF cache = NoStore THEN r ELSE cache
  /\ UNCHANGED <<contents, early, added>>

Use(r) == calls[r].pc = "ready" /\ calls' = [calls EXCEPT ![r].pc = "done"]

\* A POST: the repository's add(), and the answer that the record exists.
Post(r) ==
  /\ Use(r)
  /\ calls[r].subject = r
  /\ contents' = [contents EXCEPT ![calls[r].store] = @ \cup {r}]
  /\ added' = added \cup {r}
  /\ UNCHANGED <<cache, early>>

\* A GET: the repository's get(), answered with 200 or 404.
Found(r) ==
  /\ Use(r)
  /\ calls[r].subject # r
  /\ calls[r].subject \in contents[calls[r].store]
  /\ UNCHANGED <<cache, contents, early, added>>

NotFound(r) ==
  /\ calls[r].pc = "ready"
  /\ calls[r].subject # r
  /\ calls[r].subject \notin contents[calls[r].store]
  /\ calls' = [calls EXCEPT ![r].pc = "not found"]
  /\ UNCHANGED <<cache, contents, early, added>>

Next ==
  \E r \in Requests :
    \/ \E x \in Subjects(r) : Hit(r, x) \/ Miss(r, x)
    \/ Made(r)
    \/ Post(r) \/ Found(r) \/ NotFound(r)

Spec == Init /\ [][Next]_vars
----------------------------------------------------------------------------
(***************************************************************************)
(* Properties.                                                             *)
(***************************************************************************)
\* The variables have their types; a request has a store once it is past its
\* dependencies.
TypeOK ==
  /\ cache \in Requests \cup {NoStore}
  /\ contents \in [Requests -> SUBSET Requests]
  /\ calls \in [Requests ->
       {[pc |-> "idle"]}
         \cup [pc : {"making"}, subject : Requests]
         \cup [pc : {"ready", "done", "not found"}, subject : Requests, store : Requests]]
  /\ early \subseteq Requests
  /\ added \subseteq Requests

\* Only the first, overlapping requests of a process can lose what they add: a
\* record is found by every GET that is sent after the answer of its POST, if
\* the POST came when some store had already been made.
LaterRecordsAreFound ==
  \A r \in Requests : calls[r].pc = "not found" => calls[r].subject \in early

\* app/dependencies.py: "One shared in-memory store (or Postgres engine) for the
\* process lifetime."  A client that was given a 201 or 202 finds its record.
PostedIsFound == \A r \in Requests : calls[r].pc # "not found"
----------------------------------------------------------------------------
(***************************************************************************)
(* The inductive invariant behind LaterRecordsAreFound: a request that is  *)
(* not early, and every GET is not, works on the store that is kept, and   *)
(* that store has the records of all POSTs that were not early.            *)
(***************************************************************************)
OnKeptStore(r) ==
  /\ calls[r].pc = "idle" => r \notin early
  /\ calls[r].pc = "making" => calls[r].subject = r /\ r \in early
  /\ calls[r].pc = "ready" =>
       /\ cache # NoStore
       /\ calls[r].subject = r \/ (calls[r].subject \in added /\ r \notin early)
       /\ r \notin early => calls[r].store = cache

FoundOrEarly(r) == calls[r].pc = "not found" => calls[r].subject \in early

KeptRecords ==
  /\ cache = NoStore => added = {}
  /\ cache # NoStore => added \ early \subseteq contents[cache]

FoundInv ==
  /\ \A r \in Requests : OnKeptStore(r) /\ FoundOrEarly(r)
  /\ KeptRecords
============================================================================
