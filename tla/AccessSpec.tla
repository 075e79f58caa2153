----------------------------- MODULE AccessSpec -----------------------------
(***************************************************************************)
(* What the spec promises of local decision resolution, written from its   *)
(* text and not from the code: the wildcard precedence of section 4.3 as   *)
(* "the most specific present entry", and the resolution of section 4.4    *)
(* as "the least (candidate position, specificity) entry of a usable       *)
(* scope, with DENY as the default".                                       *)
(***************************************************************************)
EXTENDS FallbackChainBuilder, Naturals

\* A stored triple matches a query triple if each part equals the query's
\* part or is the wildcard.
Matches(t, q) == \A j \in 1..3 : t[j] = q[j] \/ t[j] = "*"

\* Rank in 1..8 of a matching triple: wildcarding the area weighs more than
\* the domain, which weighs more than the action.
Specificity(t, q) ==
  1 + (IF t[1] = q[1] THEN 0 ELSE 4) + (IF t[2] = q[2] THEN 0 ELSE 2)
    + (IF t[3] = q[3] THEN 0 ELSE 1)

PresentMatches(m, q) == {t \in DOMAIN m : Matches(t, q) /\ m[t] # Null}

\* Spec 4.3: the outcome of the most specific present entry, or none.
MostSpecificEntry(m, q) ==
  IF PresentMatches(m, q) = {} THEN Null
  ELSE m[CHOOSE t \in PresentMatches(m, q) :
           \A u \in PresentMatches(m, q) : Specificity(t, q) <= Specificity(u, q)]

\* Spec 4.4 steps 2-4: the starting key and the chain, in that order.
Candidates(snap, dd) ==
  IF dd # Undefined
  THEN <<ScopeKeyFromDataDomain(dd)>> \o BuildFallbackChain(ScopeKeyFromDataDomain(dd))
  ELSE <<IF Truthy(snap.requestedScope) THEN snap.requestedScope ELSE GlobalKey>>
         \o (IF snap.requestedFallback # Undefined THEN snap.requestedFallback
             ELSE <<GlobalKey>>)

\* Spec 4.4 step 5: a scope is usable if present and not requiresServer.
UsableScope(snap, k) ==
  snap.scopes # Undefined /\ k \in DOMAIN snap.scopes
  /\ ~snap.scopes[k].requiresServer

\* Spec 4.4 steps 1 and 5-7: the outcome the evaluator must find, or none.
SpecOutcome(snap, dd, q) ==
  LET C == Candidates(snap, dd)
      U == {i \in 1..Len(C) : UsableScope(snap, C[i])
                              /\ MostSpecificEntry(snap.scopes[C[i]].matrix, q) # Null}
  IN IF snap = Null \/ ~snap.enabled \/ U = {} THEN Null
     ELSE MostSpecificEntry(snap.scopes[C[CHOOSE i \in U : \A j \in U : i <= j]].matrix, q)

\* The decision text: the uppercased effect, or DENY.
SpecDecision(snap, dd, q) ==
  IF SpecOutcome(snap, dd, q) = Null THEN "DENY"
  ELSE ToUpperCase(SpecOutcome(snap, dd, q).effect)
=============================================================================
