----------------------------- MODULE ApiAccess -----------------------------
(***************************************************************************)
(* Who may call the HTTP API (app/auth.py).  The operators list the API    *)
(* keys of each role in two settings; a request sends its key in the       *)
(* header X-API-Key, and what a route asks for is an identity or a role.   *)
(* A key stands for its fingerprint too, by which the rate limiter knows   *)
(* the caller: sixteen hexadecimal digits of SHA-256 are taken as distinct *)
(* for distinct keys.                                                      *)
(***************************************************************************)
CONSTANTS
  Keys,   \* API keys, configured or not
  NoKey   \* a request without the header

ASSUME AccessAssumption == NoKey \notin Keys

Roles == {"loan_operations_analyst", "credit_risk_officer"}
Analysts == {"loan_operations_analyst"}

\* AuthSettings, after _split_keys has cut the two comma-separated lists into
\* keys, stripped them and dropped the empty ones.
Settings == [analysts : SUBSET Keys, officers : SUBSET Keys]

\* The table of _load_role_keys: the analysts' keys are entered first, and a key
\* of both lists is overwritten with the role of an officer.
LoadRoleKeys(s) ==
  [k \in s.analysts \cup s.officers |->
     IF k \in s.officers THEN "credit_risk_officer" ELSE "loan_operations_analyst"]

\* get_current_identity, then the check of require_role(allowed): the status with
\* which a request is refused, or 200 if its route goes on.
Judge(table, key, allowed) ==
  IF key \notin DOMAIN table THEN 401
  ELSE IF table[key] \notin allowed THEN 403
  ELSE 200

\* What the routes ask for: the health checks nothing, GET /agreements any
\* identity, the three POST routes of /agreements and all of /extractions an
\* analyst.
Public == {"health"}
Readers == {"get_agreement", "list_agreements"}
Writers == {"create_agreement", "record_covenant_test_result", "record_default_event",
            "submit_extraction", "get_extraction"}

Admission(table, key, route) ==
  IF route \in Public THEN 200
  ELSE Judge(table, key, IF route \in Writers THEN Analysts ELSE Roles)
============================================================================
