--------------------------- MODULE ExampleScripts ---------------------------
(***************************************************************************)
(* Two programs of scripts/ as clients of the HTTP API: the persistence    *)
(* smoke test, which asserts the status of each of its calls, and the      *)
(* seeding script, which stops at the first error.  Both call one endpoint *)
(* after the other, as the route checks of ApiAccess let them.             *)
(***************************************************************************)
EXTENDS ApiAccess, Naturals, Sequences

VARIABLES
  script,     \* which of the two is run
  step,       \* the next of its calls
  outcome,    \* "running", or how it ended
  settings,   \* the AuthSettings of the server, whatever they are
  agreement   \* the agreement created last: how many records it has

vars == <<script, step, outcome, settings, agreement>>

\* smoke_test_persistence.main, after the migrations, each call with the status
\* it asserts.
SmokeTest ==
  << <<"create_agreement", 201>>, <<"get_agreement", 200>>, <<"list_agreements", 200>>,
     <<"record_covenant_test_result", 201>>, <<"record_default_event", 201>>,
     <<"get_agreement", 200>> >>

\* seed_example_data: the health check of main, then the four agreements of
\* seed: healthy, in breach, defaulted and matured.
Seed ==
  << <<"health", 200>>,
     <<"create_agreement", 201>>, <<"record_covenant_test_result", 201>>,
     <<"create_agreement", 201>>, <<"record_covenant_test_result", 201>>,
     <<"create_agreement", 201>>, <<"record_default_event", 201>>,
     <<"create_agreement", 201>> >>

Program == [smoke_test |-> SmokeTest, seed |-> Seed]

\* Neither client is made with a header.
Header == NoKey

NoAgreement == [results |-> 0, events |-> 0]

Init ==
  /\ script \in DOMAIN Program
  /\ step = 1
  /\ outcome = "running"
  /\ settings \in Settings
  /\ agreement = NoAgreement

\* The smoke test needs a database and runs the migrations before its calls.
NoDatabase ==
  /\ outcome = "running" /\ script = "smoke_test" /\ step = 1
  /\ outcome' = "not_started"
  /\ UNCHANGED <<script, step, settings, agreement>>

\* What a call that is let through does.
Effect(route) ==
  agreement' = CASE route = "create_agreement" -> NoAgreement
                 [] route = "record_covenant_test_result" -> [agreement EXCEPT !.results = @ + 1]
                 [] route = "record_default_event" -> [agreement EXCEPT !.events = @ + 1]
                 [] OTHER -> agreement

Admitted(route) == Admission(LoadRoleKeys(settings), Header, route) = 200

Call ==
  /\ outcome = "running" /\ step <= Len(Program[script])
  /\ Admitted(Program[script][step][1])
  /\ Effect(Program[script][step][1])
  /\ step' = step + 1
  /\ UNCHANGED <<script, outcome, settings>>

\* AssertionError of the one, HTTPStatusError of the other.
Raise ==
  /\ outcome = "running" /\ step <= Len(Program[script])
  /\ ~Admitted(Program[script][step][1])
  /\ outcome' = "raised"
  /\ UNCHANGED <<script, step, settings, agreement>>

\* The smoke test compares what its last read returns with what it recorded.
End ==
  /\ outcome = "running" /\ step > Len(Program[script])
  /\ outcome' = IF script = "seed" \/ agreement = [results |-> 1, events |-> 1]
                  THEN "ok" ELSE "raised"
  /\ UNCHANGED <<script, step, settings, agreement>>

Next == NoDatabase \/ Call \/ Raise \/ End

Spec == Init /\ [][Next]_vars
----------------------------------------------------------------------------
\* The smoke test "exercises all 5 agreement endpoints end-to-end through the
\* real FastAPI app" and the seeding script populates a running instance: where
\* an analyst's key is configured at all, neither of them raises.
ScriptsGoThrough == settings.analysts \ settings.officers # {} => outcome # "raised"
============================================================================
