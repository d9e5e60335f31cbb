------------------------- MODULE SharedStoreProofs -------------------------
(***************************************************************************)
(* Proofs about SharedStore, for any number of requests.                   *)
(***************************************************************************)
EXTENDS SharedStore, TLAPS

\* The three shapes of a call that TypeOK allows.
NewCall == [pc |-> "idle"]
MakingCalls == [pc : {"making"}, subject : Requests]
ServedCalls == [pc : {"ready", "done", "not found"}, subject : Requests, store : Requests]

\* A call is what its place says.
LEMMA CallShape ==
  ASSUME TypeOK, NEW r \in Requests
  PROVE  /\ calls[r].pc = "making" => calls[r] \in MakingCalls
         /\ calls[r].pc = "ready" => calls[r] \in ServedCalls
<1>1. calls[r] \in {NewCall} \cup MakingCalls \cup ServedCalls
  BY DEF TypeOK, NewCall, MakingCalls, ServedCalls
<1>2. CASE calls[r] = NewCall
  BY <1>2 DEF NewCall
<1>3. CASE calls[r] \in MakingCalls
  BY <1>3 DEF MakingCalls
<1>4. CASE calls[r] \in ServedCalls
  BY <1>4 DEF ServedCalls
<1> QED BY <1>1, <1>2, <1>3, <1>4

\* Moving a request to a new place keeps the type of all calls.
LEMMA CallStep ==
  ASSUME TypeOK, NEW r \in Requests, NEW call \in MakingCalls \cup ServedCalls,
         calls' = [calls EXCEPT ![r] = call]
  PROVE  calls' \in [Requests -> {NewCall} \cup MakingCalls \cup ServedCalls]
BY DEF TypeOK, NewCall, MakingCalls, ServedCalls

\* A served request that goes on keeps its subject and its store.
LEMMA Served ==
  ASSUME NEW call \in ServedCalls, NEW pc \in {"ready", "done", "not found"}
  PROVE  /\ [call EXCEPT !.pc = pc] \in ServedCalls
         /\ [call EXCEPT !.pc = pc].pc = pc
         /\ [call EXCEPT !.pc = pc].subject = call.subject
BY DEF ServedCalls

\* Every variable keeps its type.
THEOREM TypeCorrect == Spec => []TypeOK
<1>1. Init => TypeOK
  BY DEF Init, TypeOK
<1>2. TypeOK /\ [Next]_vars => TypeOK'
  <2> SUFFICES ASSUME TypeOK, [Next]_vars PROVE TypeOK'
    OBVIOUS
  <2>1. ASSUME NEW r \in Requests, NEW call \in MakingCalls \cup ServedCalls,
               calls' = [calls EXCEPT ![r] = call],
               cache' \in Requests \cup {NoStore}, contents' \in [Requests -> SUBSET Requests],
               early' \subseteq Requests, added' \subseteq Requests
        PROVE  TypeOK'
    BY <2>1, CallStep DEF TypeOK, NewCall, MakingCalls, ServedCalls
  <2>2. ASSUME NEW r \in Requests, NEW x \in Subjects(r), Hit(r, x) PROVE TypeOK'
    BY <2>2 DEF Hit, Subjects, TypeOK
  <2>3. ASSUME NEW r \in Requests, NEW x \in Subjects(r), Miss(r, x) PROVE TypeOK'
    BY <2>3 DEF Miss, Subjects, TypeOK
  <2>4. ASSUME NEW r \in Requests, Made(r) PROVE TypeOK'
    <3>1. [pc |-> "ready", subject |-> calls[r].subject, store |-> r] \in ServedCalls
      BY <2>4, CallShape DEF Made, MakingCalls, ServedCalls
    <3> QED BY <2>4, <3>1, <2>1 DEF Made, TypeOK
  <2>5. ASSUME NEW r \in Requests, Post(r) PROVE TypeOK'
    <3>1. [calls[r] EXCEPT !.pc = "done"] \in ServedCalls /\ calls[r].store \in Requests
      BY <2>5, CallShape, Served DEF Post, Use, ServedCalls
    <3>2. calls' = [calls EXCEPT ![r] = [calls[r] EXCEPT !.pc = "done"]]
      BY <2>5 DEF Post, Use, TypeOK
    <3>3. contents' \in [Requests -> SUBSET Requests]
      BY <2>5, <3>1 DEF Post, TypeOK
    <3> QED BY <2>5, <3>1, <3>2, <3>3, <2>1 DEF Post, TypeOK
  <2>6. ASSUME NEW r \in Requests, Found(r) \/ NotFound(r) PROVE TypeOK'
    <3>1. PICK pc \in {"done", "not found"} :
            calls' = [calls EXCEPT ![r] = [calls[r] EXCEPT !.pc = pc]]
      BY <2>6 DEF Found, NotFound, Use, TypeOK
    <3>2. [calls[r] EXCEPT !.pc = pc] \in ServedCalls
      BY <2>6, CallShape, Served DEF Found, NotFound, Use
    <3> QED BY ZenonT(30), <2>6, <3>1, <3>2, <2>1 DEF Found, NotFound, TypeOK
  <2>7. CASE UNCHANGED vars
    BY <2>7 DEF vars, TypeOK
  <2> QED BY <2>2, <2>3, <2>4, <2>5, <2>6, <2>7 DEF Next
<1> QED BY <1>1, <1>2, PTL DEF Spec

\* A step of one request keeps the invariant of the others: the store that is
\* kept stays, and the histories of early requests and of added records only grow
\* by that request.
LEMMA OthersKeepInv ==
  ASSUME FoundInv, NEW r \in Requests, NEW s \in Requests \ {r},
         calls'[s] = calls[s],
         cache # NoStore => cache' = cache,
         early' = early \/ early' = early \cup {r},
         added \subseteq added'
  PROVE  OnKeptStore(s)' /\ FoundOrEarly(s)'
<1>1. OnKeptStore(s) /\ FoundOrEarly(s)
  BY DEF FoundInv
<1>2. s \in early' <=> s \in early
  OBVIOUS
<1>3. early \subseteq early'
  OBVIOUS
<1>4. /\ calls'[s].pc = calls[s].pc
      /\ calls'[s].subject = calls[s].subject
      /\ calls'[s].store = calls[s].store
  OBVIOUS
<1>5. OnKeptStore(s)'
  BY <1>1, <1>2, <1>4 DEF OnKeptStore
<1>6. FoundOrEarly(s)'
  BY <1>1, <1>3, <1>4 DEF FoundOrEarly
<1> QED BY <1>5, <1>6

\* A ready request that moves on keeps its subject, and moves no other request.
LEMMA Moved ==
  ASSUME TypeOK, NEW r \in Requests, calls[r].pc = "ready",
         NEW pc \in {"done", "not found"}, calls' = [calls EXCEPT ![r].pc = pc]
  PROVE  /\ calls'[r].pc = pc
         /\ calls'[r].subject = calls[r].subject
         /\ \A s \in Requests \ {r} : calls'[s] = calls[s]
<1>1. calls[r] \in ServedCalls
  BY CallShape
<1>2. calls'[r] = [calls[r] EXCEPT !.pc = pc] /\ \A s \in Requests \ {r} : calls'[s] = calls[s]
  BY DEF TypeOK
<1> QED BY ZenonT(30), <1>1, <1>2 DEF ServedCalls

\* A request that is done with its store owes nothing more.
LEMMA DoneKeepsInv ==
  ASSUME FoundInv, NEW r \in Requests, NEW pc \in {"done", "not found"},
         calls'[r].pc = pc, calls'[r].subject = calls[r].subject,
         \A s \in Requests \ {r} : calls'[s] = calls[s],
         pc = "not found" => calls[r].subject \in early,
         cache' = cache, early' = early, added \subseteq added'
  PROVE  \A s \in Requests : OnKeptStore(s)' /\ FoundOrEarly(s)'
<1>1. OnKeptStore(r)'
  BY DEF OnKeptStore
<1>2. FoundOrEarly(r)'
  BY DEF FoundOrEarly
<1>3. ASSUME NEW s \in Requests \ {r} PROVE OnKeptStore(s)' /\ FoundOrEarly(s)'
  BY <1>3, OthersKeepInv
<1> QED BY <1>1, <1>2, <1>3

\* LaterRecordsAreFound: whatever calls overlap at the start of a process, a
\* record is lost only if its POST began before the first store was made.
THEOREM OnlyEarlyRecordsAreLost == Spec => []LaterRecordsAreFound
<1>1. Init => FoundInv
  <2> SUFFICES ASSUME Init PROVE FoundInv
    OBVIOUS
  <2>1. ASSUME NEW r \in Requests PROVE OnKeptStore(r) /\ FoundOrEarly(r)
    <3>1. calls[r].pc = "idle" /\ r \notin early
      BY DEF Init
    <3> QED BY <3>1 DEF OnKeptStore, FoundOrEarly
  <2>2. KeptRecords
    BY DEF Init, KeptRecords
  <2> QED BY <2>1, <2>2 DEF FoundInv
<1>2. TypeOK /\ FoundInv /\ [Next]_vars => FoundInv'
  <2> SUFFICES ASSUME TypeOK, FoundInv, [Next]_vars PROVE FoundInv'
    OBVIOUS
  <2>0. ASSUME NEW r \in Requests, OnKeptStore(r)', FoundOrEarly(r)', KeptRecords',
               \A s \in Requests \ {r} : calls'[s] = calls[s],
               cache # NoStore => cache' = cache,
               early' = early \/ early' = early \cup {r},
               added \subseteq added'
        PROVE  FoundInv'
    <3>1. ASSUME NEW s \in Requests \ {r} PROVE OnKeptStore(s)' /\ FoundOrEarly(s)'
      BY <2>0, OthersKeepInv
    <3> QED BY <2>0, <3>1 DEF FoundInv
  <2>1. ASSUME NEW r \in Requests, NEW x \in Subjects(r), Hit(r, x) PROVE FoundInv'
    <3>1. /\ calls'[r] = [pc |-> "ready", subject |-> x, store |-> cache]
          /\ \A s \in Requests \ {r} : calls'[s] = calls[s]
      BY <2>1 DEF Hit, TypeOK
    <3>2. calls'[r].pc = "ready" /\ calls'[r].subject = x /\ calls'[r].store = cache
      BY <3>1
    <3>3. /\ cache # NoStore /\ cache' = cache /\ early' = early
          /\ added' = added /\ contents' = contents
      BY <2>1 DEF Hit
    <3>4. r \notin early
      BY <2>1 DEF Hit, FoundInv, OnKeptStore
    <3>5. x = r \/ x \in added
      BY DEF Subjects
    <3>6. OnKeptStore(r)' /\ FoundOrEarly(r)'
      BY <3>2, <3>3, <3>4, <3>5 DEF OnKeptStore, FoundOrEarly
    <3>7. KeptRecords'
      BY <3>3 DEF FoundInv, KeptRecords
    <3> QED BY <2>0, <3>1, <3>3, <3>6, <3>7
  <2>2. ASSUME NEW r \in Requests, NEW x \in Subjects(r), Miss(r, x) PROVE FoundInv'
    <3>1. /\ calls'[r] = [pc |-> "making", subject |-> x]
          /\ \A s \in Requests \ {r} : calls'[s] = calls[s]
      BY <2>2 DEF Miss, TypeOK
    <3>2. calls'[r].pc = "making" /\ calls'[r].subject = x
      BY <3>1
    <3>3. /\ cache = NoStore /\ cache' = cache /\ early' = early \cup {r}
          /\ added' = added /\ contents' = contents
      BY <2>2 DEF Miss
    <3>4. x = r
      BY <3>3 DEF Subjects, FoundInv, KeptRecords
    <3>5. OnKeptStore(r)' /\ FoundOrEarly(r)'
      BY <3>2, <3>3, <3>4 DEF OnKeptStore, FoundOrEarly
    <3>6. KeptRecords'
      BY <3>3 DEF FoundInv, KeptRecords
    <3> QED BY <2>0, <3>1, <3>3, <3>5, <3>6
  <2>3. ASSUME NEW r \in Requests, Made(r) PROVE FoundInv'
    <3>1. calls[r].subject = r /\ r \in early
      BY <2>3 DEF Made, FoundInv, OnKeptStore
    <3>2. /\ calls'[r] = [pc |-> "ready", subject |-> r, store |-> r]
          /\ \A s \in Requests \ {r} : calls'[s] = calls[s]
      BY <2>3, <3>1 DEF Made, TypeOK
    <3>3. calls'[r].pc = "ready" /\ calls'[r].subject = r
      BY <3>2
    <3>4. /\ cache' = IF cache = NoStore THEN r ELSE cache
          /\ early' = early /\ added' = added /\ contents' = contents
      BY <2>3 DEF Made
    <3>5. cache' # NoStore
      BY <3>4, StoreAssumption
    <3>6. OnKeptStore(r)' /\ FoundOrEarly(r)'
      BY <3>1, <3>3, <3>4, <3>5 DEF OnKeptStore, FoundOrEarly
    <3>7. KeptRecords'
      BY <3>4, <3>5 DEF FoundInv, KeptRecords
    <3> QED BY <2>0, <3>2, <3>4, <3>6, <3>7
  <2>4. ASSUME NEW r \in Requests, Post(r) PROVE FoundInv'
    <3>1. /\ calls[r].pc = "ready" /\ calls' = [calls EXCEPT ![r].pc = "done"]
          /\ cache' = cache /\ early' = early /\ added' = added \cup {r}
          /\ contents' = [contents EXCEPT ![calls[r].store] = @ \cup {r}]
      BY <2>4 DEF Post, Use
    <3>2. \A s \in Requests : OnKeptStore(s)' /\ FoundOrEarly(s)'
      BY <3>1, Moved, DoneKeepsInv
    <3>3. cache # NoStore /\ (r \notin early => calls[r].store = cache)
      BY <3>1 DEF FoundInv, OnKeptStore
    <3>4. cache \in Requests
      BY <3>3 DEF TypeOK
    <3>5. contents[cache] \subseteq contents'[cache] /\ (r \notin early => r \in contents'[cache])
      BY <3>1, <3>3, <3>4 DEF TypeOK
    <3>6. KeptRecords'
      BY <3>1, <3>3, <3>5 DEF FoundInv, KeptRecords
    <3> QED BY <3>2, <3>6 DEF FoundInv
  <2>5. ASSUME NEW r \in Requests, Found(r) PROVE FoundInv'
    <3>1. /\ calls[r].pc = "ready" /\ calls' = [calls EXCEPT ![r].pc = "done"]
          /\ cache' = cache /\ early' = early /\ added' = added /\ contents' = contents
      BY <2>5 DEF Found, Use
    <3>2. \A s \in Requests : OnKeptStore(s)' /\ FoundOrEarly(s)'
      BY <3>1, Moved, DoneKeepsInv
    <3>3. KeptRecords'
      BY <3>1 DEF FoundInv, KeptRecords
    <3> QED BY <3>2, <3>3 DEF FoundInv
  <2>6. ASSUME NEW r \in Requests, NotFound(r) PROVE FoundInv'
    <3>1. /\ calls[r].pc = "ready" /\ calls' = [calls EXCEPT ![r].pc = "not found"]
          /\ calls[r].subject # r /\ calls[r].subject \notin contents[calls[r].store]
          /\ cache' = cache /\ early' = early /\ added' = added /\ contents' = contents
      BY <2>6 DEF NotFound
    <3>2. calls[r].subject \in added /\ calls[r].store = cache /\ cache # NoStore
      BY <3>1 DEF FoundInv, OnKeptStore
    <3>3. calls[r].subject \in early
      BY <3>1, <3>2 DEF FoundInv, KeptRecords
    <3>4. \A s \in Requests : OnKeptStore(s)' /\ FoundOrEarly(s)'
      BY <3>1, <3>3, Moved, DoneKeepsInv
    <3>5. KeptRecords'
      BY <3>1 DEF FoundInv, KeptRecords
    <3> QED BY <3>4, <3>5 DEF FoundInv
  <2>7. CASE UNCHANGED vars
    BY <2>7 DEF vars, FoundInv, OnKeptStore, FoundOrEarly, KeptRecords
  <2> QED BY <2>1, <2>2, <2>3, <2>4, <2>5, <2>6, <2>7 DEF Next
<1>3. FoundInv => LaterRecordsAreFound
  BY DEF FoundInv, FoundOrEarly, LaterRecordsAreFound
<1> QED BY <1>1, <1>2, <1>3, TypeCorrect, PTL DEF Spec
============================================================================
