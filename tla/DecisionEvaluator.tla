------------------------- MODULE DecisionEvaluator -------------------------
(***************************************************************************)
(* decide and decideOutcome of acl-client.js, as the two calls a caller    *)
(* makes against the snapshot it holds. The snapshot is a record whose     *)
(* absent fields are Undefined, or Null when there is no snapshot; scopes  *)
(* maps scope keys to [requiresServer, matrix] records. The two functions  *)
(* are two copies of one scan in the code, and two definitions here.       *)
(***************************************************************************)
EXTENDS FallbackChainBuilder, MatrixLookup

CONSTANTS Snapshots,       \* the snapshots a caller may hold
          DataDomainArgs,  \* the dataDomain arguments, Undefined among them
          Queries,         \* the <<area, domain, action>> arguments
          TypeError,       \* the exception m[a] throws when m is undefined
          None             \* a call not yet made

VARIABLES snapshot, dataDomain, query, decision, outcome
vars == <<snapshot, dataDomain, query, decision, outcome>>

\* snapshot.scopes ? snapshot.scopes[key] : null, with a missing key undefined.
ScopedAt(snap, key) ==
  IF snap.scopes # Undefined /\ key \in DOMAIN snap.scopes
  THEN snap.scopes[key] ELSE Null

\* Mutant: the requiresServer flag is not checked.
TryScopeIgnoringServer(snap, key, q) ==
  LET scoped == ScopedAt(snap, key)
  IN IF scoped = Null THEN Null
     ELSE IF scoped.matrix = Undefined THEN TypeError
     ELSE LookupAreaDomainAction(scoped.matrix, q[1], q[2], q[3])

\* One loop iteration on key: Null to continue, else the lookup's result
\* or the TypeError of reading a property of an undefined matrix.
TryScope(snap, key, q) ==
  LET scoped == ScopedAt(snap, key)
  IN IF scoped = Null \/ scoped.requiresServer THEN Null
     ELSE IF scoped.matrix = Undefined THEN TypeError
     ELSE LookupAreaDomainAction(scoped.matrix, q[1], q[2], q[3])

\* decide (lines 96-116).
DecideResult(snap, dd, q) ==
  LET startKey == IF dd # Undefined THEN ScopeKeyFromDataDomain(dd)
                  ELSE IF Truthy(snap.requestedScope) THEN snap.requestedScope
                  ELSE GlobalKey
      chain == IF dd # Undefined THEN BuildFallbackChain(startKey)
               ELSE IF snap.requestedFallback # Undefined THEN snap.requestedFallback
               ELSE <<GlobalKey>>
      tryScopes == <<startKey>> \o chain
      i == SelectInSeq(tryScopes, LAMBDA k : TryScope(snap, k, q) # Null)
      out == TryScope(snap, tryScopes[i], q)
  IN IF snap = Null \/ ~snap.enabled THEN "DENY"
     ELSE IF i = 0 THEN "DENY"
     ELSE IF out = TypeError THEN TypeError
     ELSE ToUpperCase(out.effect)

\* decideOutcome (lines 118-138).
DecideOutcomeResult(snap, dd, q) ==
  LET startKey == IF dd # Undefined THEN ScopeKeyFromDataDomain(dd)
                  ELSE IF Truthy(snap.requestedScope) THEN snap.requestedScope
                  ELSE GlobalKey
      chain == IF dd # Undefined THEN BuildFallbackChain(startKey)
               ELSE IF snap.requestedFallback # Undefined THEN snap.requestedFallback
               ELSE <<GlobalKey>>
      tryScopes == <<startKey>> \o chain
      i == SelectInSeq(tryScopes, LAMBDA k : TryScope(snap, k, q) # Null)
  IN IF snap = Null \/ ~snap.enabled THEN Null
     ELSE IF i = 0 THEN Null
     ELSE TryScope(snap, tryScopes[i], q)

Init ==
  /\ snapshot \in Snapshots
  /\ dataDomain \in DataDomainArgs
  /\ query \in Queries
  /\ decision = None
  /\ outcome = None

Decide ==
  /\ decision = None
  /\ decision' = DecideResult(snapshot, dataDomain, query)
  /\ UNCHANGED <<snapshot, dataDomain, query, outcome>>

DecideOutcome ==
  /\ outcome = None
  /\ outcome' = DecideOutcomeResult(snapshot, dataDomain, query)
  /\ UNCHANGED <<snapshot, dataDomain, query, decision>>

Next == Decide \/ DecideOutcome

Spec == Init /\ [][Next]_vars
=============================================================================
