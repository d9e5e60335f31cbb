-------------------------- MODULE AgreementLedger --------------------------
(***************************************************************************)
(* What the record of a facility agreement promises: once a covenant test  *)
(* result or a default event is recorded on an agreement it stays there,   *)
(* in the table of its kind, on that agreement and on no other.            *)
(*                                                                         *)
(* This is the contract AgreementRepository has with AgreementService when *)
(* the calls on one agreement follow one another; the backends are shown   *)
(* to implement it, or shown where they do not.                            *)
(***************************************************************************)
CONSTANTS
  Agreements,  \* ids of agreements
  Tables,      \* the kinds of record an agreement collects
  Records      \* ids of records, each used at most once

VARIABLES
  created,   \* the agreements that exist
  recorded   \* per agreement and table, the records it holds

vars == <<created, recorded>>

Init ==
  /\ created = {}
  /\ recorded = [a \in Agreements |-> [tab \in Tables |-> {}]]

Create(a) ==
  /\ a \notin created
  /\ created' = created \cup {a}
  /\ UNCHANGED recorded

\* A record id is fresh: no agreement holds it yet.
Record(a, tab, x) ==
  /\ a \in created
  /\ \A b \in Agreements, u \in Tables : x \notin recorded[b][u]
  /\ recorded' = [recorded EXCEPT ![a][tab] = @ \cup {x}]
  /\ UNCHANGED created

Next ==
  \E a \in Agreements :
    \/ Create(a)
    \/ \E tab \in Tables, x \in Records : Record(a, tab, x)

Spec == Init /\ [][Next]_vars
============================================================================
