------------------------ MODULE MCDecisionEvaluator ------------------------
(***************************************************************************)
(* Model of decide/decideOutcome for TLC. The keys come from three         *)
(* DataDomains: a full one (org and owner set), one with only org set, and *)
(* one whose org value is "=" (its key does not parse). Scopes are held    *)
(* under the full, the org-only and the global key.                        *)
(***************************************************************************)
EXTENDS DecisionEvaluator

NoDD == [orgRefName |-> Undefined, accountNumber |-> Undefined,
         tenantId |-> Undefined, dataSegment |-> Undefined, ownerId |-> Undefined]
DFull == [NoDD EXCEPT !.orgRefName = <<"x">>, !.ownerId = <<"x">>]
DOrg == [NoDD EXCEPT !.orgRefName = <<"x">>]
DBad == [NoDD EXCEPT !.orgRefName = <<"=">>]

KFull == ScopeKeyFromDataDomain(DFull)
KOrg == ScopeKeyFromDataDomain(DOrg)

\* Outcomes as the server stores them, effect case as it comes.
Allow1 == [effect |-> "allow", rule |-> "r1"]
Deny2 == [effect |-> "DENY", rule |-> "r2"]

Matrices == {<<>>, <<"A", "*", "*">> :> Deny2, <<"A", "D", "X">> :> Allow1,
             (<<"*", "D", "*">> :> Allow1) @@ (<<"A", "*", "X">> :> Deny2)}

Scoped == [requiresServer : {FALSE}, matrix : Matrices]
          \cup [requiresServer : {TRUE}, matrix : {<<"A", "D", "X">> :> Allow1}]

\* A scopes object: each of the three keys absent or holding a scope.
ScopesObjects ==
  UNION {[S -> Scoped] : S \in SUBSET {KFull, KOrg, GlobalKey}}

MCSnapshots ==
  {Null}
  \cup [enabled : {FALSE}, requestedScope : {Undefined}, requestedFallback : {Undefined},
        scopes : {GlobalKey :> [requiresServer |-> FALSE,
                                matrix |-> <<"A", "D", "X">> :> Allow1]}]
  \cup [enabled : {TRUE}, requestedScope : {Undefined, <<>>, KFull},
        requestedFallback : {Undefined, <<>>, <<KOrg>>},
        scopes : ScopesObjects \cup {Undefined}]

\* A snapshot whose global scope has a null or missing matrix, a malformed
\* input the server could send.
NoMatrixSnapshot ==
  [enabled |-> TRUE, requestedScope |-> Undefined, requestedFallback |-> Undefined,
   scopes |-> GlobalKey :> [requiresServer |-> FALSE, matrix |-> Undefined]]

MCSnapshotsNoMatrix == MCSnapshots \cup {NoMatrixSnapshot}

MCDataDomainArgs == {Undefined, NoDD, DFull, DOrg, DBad}

MCQueries == {<<"A", "D", "X">>, <<"B", "D", "X">>}

\* An action whose name is a member of Object.prototype.
MCProtoQueries == MCQueries \cup {<<"A", "D", "constructor">>}


(***************************************************************************)
(* Refinement: every decide and decideOutcome call of the code is a call   *)
(* of the abstract evaluator of spec 4.3-4.4. The decision is the most     *)
(* specific entry of the first usable candidate scope, a requiresServer    *)
(* scope is passed over, and the kill switch and default deny hold.        *)
(***************************************************************************)
Abstract == INSTANCE AclDecision
AclDecisionSpec == Abstract!Spec

(***************************************************************************)
(* Spec 6 and 7: decide returns "ALLOW" or "DENY" and does not throw,     *)
(* whatever the snapshot and the area, domain and action names: a name    *)
(* the matrix does not hold falls through the wildcard tries (lines       *)
(* 88-92) to a stored entry or to the default deny, and a malformed scope *)
(* ends in DENY.                                                          *)
(***************************************************************************)
DecideReturnsAllowOrDeny == decision # None => decision \in {"ALLOW", "DENY"}
=============================================================================
