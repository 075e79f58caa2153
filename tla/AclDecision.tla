---------------------------- MODULE AclDecision ----------------------------
(***************************************************************************)
(* Abstract specification of the decision evaluator: a caller holding a    *)
(* snapshot asks for a decision and for an outcome, and gets the ones      *)
(* AccessSpec defines from spec sections 4.3 and 4.4.                      *)
(***************************************************************************)
EXTENDS AccessSpec

CONSTANTS Snapshots, DataDomainArgs, Queries, None

VARIABLES snapshot, dataDomain, query, decision, outcome
vars == <<snapshot, dataDomain, query, decision, outcome>>

Init ==
  /\ snapshot \in Snapshots
  /\ dataDomain \in DataDomainArgs
  /\ query \in Queries
  /\ decision = None
  /\ outcome = None

Decide ==
  /\ decision = None
  /\ decision' = SpecDecision(snapshot, dataDomain, query)
  /\ UNCHANGED <<snapshot, dataDomain, query, outcome>>

DecideOutcome ==
  /\ outcome = None
  /\ outcome' = SpecOutcome(snapshot, dataDomain, query)
  /\ UNCHANGED <<snapshot, dataDomain, query, decision>>

Next == Decide \/ DecideOutcome

Spec == Init /\ [][Next]_vars
=============================================================================
