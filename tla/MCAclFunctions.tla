---------------------------- MODULE MCAclFunctions ----------------------------
(***************************************************************************)
(* Harness for the pure functions of acl-client.js. A caller does one of *)
(*   - encode one DataDomain, whose five values come from a small         *)
(*     alphabet, and build the fallback chain of the resulting key;       *)
(*   - look up one query in one matrix;                                   *)
(*   - interpret one check response;                                      *)
(*   - interpret one evaluate response and ask its view for one decision. *)
(* The calls share nothing, so each behaviour makes one of them (the      *)
(* inputs of the others are None).                                        *)
(***************************************************************************)
EXTENDS MatrixLookup, AccessSpec, ResponseInterpreters

CONSTANTS CheckResponses, EvaluateResponses, DecisionQueries

\* Every string of at most one token over the value alphabet.
Values == {<<>>} \cup {<<c>> : c \in {"x", "*", "=", "|", " "}}

DataDomains ==
  [orgRefName : Values \cup {Undefined}, accountNumber : Values \cup {Undefined},
   tenantId : Values \cup {Undefined}, dataSegment : Values \cup {Undefined},
   ownerId : Values \cup {Undefined}] \cup {Undefined}

Outcomes == {[effect |-> "allow", rule |-> "r1"], [effect |-> "DENY", rule |-> "r2"]}

StoredTriples == {"A", "*"} \X {"D", "*"} \X {"X", "*"}

Matrices == UNION {[S -> Outcomes] : S \in SUBSET StoredTriples}

Queries == {<<"A", "D", "X">>, <<"B", "D", "X">>, <<"*", "D", "X">>}

VARIABLES dd, key, chain, m, q, out, check, checkView, res, evalView, query, got
fns == <<dd, key, chain, m, q, out>>
views == <<check, checkView, res, evalView, query, got>>
vars == <<fns, views>>

Outcome1 == [effect |-> "ALLOW", rule |-> "r1"]

\* Every decisions object over area "a", domain "d" or "*" and action "c"
\* or "*", each entry absent, null or an outcome.
MCDecisions ==
  UNION {[S -> {Outcome1, Null}] : S \in SUBSET ({"a"} \X {"d", "*"} \X {"c", "*"})}

MCCheckResponses ==
  {Undefined}
  \cup [decision : {Undefined, "", "ALLOW"}, finalEffect : {Undefined, "", "deny"},
        decisionScope : {Undefined, "", "S"},
        scopedConstraints : {Undefined, NotArray, <<>>, <<"c1">>},
        filterConstraintsPresent : {Undefined, TRUE, FALSE},
        filterConstraints : {Undefined, NotArray, <<"c1">>}]

MCEvaluateResponses ==
  {Undefined}
  \cup [allow : {Undefined, <<"a", "d", "c">> :> TRUE}, deny : {Undefined},
        decisions : {Undefined} \cup MCDecisions, evalModeUsed : {Undefined, "TENANT"}]

\* Without the null response, whose view has no getDecision.
MCEvaluateResponsesNonNull == MCEvaluateResponses \ {Undefined}

MCDecisionQueries == {"a", "b"} \X {"d", "*"} \X {"c", "*"}

Init ==
  /\ \/ dd \in DataDomains /\ m = None /\ q = None /\ check = None /\ res = None
     \/ dd = None /\ m \in Matrices /\ q \in Queries /\ check = None /\ res = None
     \/ dd = None /\ m = None /\ q = None /\ check \in CheckResponses /\ res = None
     \/ dd = None /\ m = None /\ q = None /\ check = None /\ res \in EvaluateResponses
  /\ key = None /\ chain = None /\ out = None
  /\ checkView = None /\ evalView = None /\ got = None
  /\ query \in IF res = None THEN {None} ELSE DecisionQueries

EncodeCall ==
  /\ dd # None /\ key = None
  /\ key' = ScopeKeyFromDataDomain(dd)
  /\ UNCHANGED <<dd, chain, m, q, out, views>>

BuildChainCall ==
  /\ key # None /\ chain = None
  /\ chain' = BuildFallbackChain(key)
  /\ UNCHANGED <<dd, key, m, q, out, views>>

LookupCall ==
  /\ m # None /\ out = None
  /\ out' = LookupAreaDomainAction(m, q[1], q[2], q[3])
  /\ UNCHANGED <<dd, key, chain, m, q, views>>

InterpretCheck ==
  /\ check # None /\ checkView = None
  /\ checkView' = InterpretCheckResponse(check)
  /\ UNCHANGED <<fns, check, res, evalView, query, got>>

InterpretEvaluate ==
  /\ res # None /\ evalView = None
  /\ evalView' = InterpretEvaluateResponse(res)
  /\ UNCHANGED <<fns, check, checkView, res, query, got>>

GetDecisionCall ==
  /\ evalView # None /\ got = None
  /\ got' = CallGetDecision(evalView, query)
  /\ UNCHANGED <<fns, check, checkView, res, evalView, query>>

Next ==
  \/ EncodeCall \/ BuildChainCall \/ LookupCall
  \/ InterpretCheck \/ InterpretEvaluate \/ GetDecisionCall

Spec == Init /\ [][Next]_vars

\* The wildcard-normalised fields of a DataDomain, as the spec states them.
Normalized(d) ==
  [f \in ScopeFields |->
     IF d = Undefined \/ d[DDField[f]] = Undefined \/ Trim(d[DDField[f]]) = <<>>
     THEN Star ELSE d[DDField[f]]]


(***************************************************************************)
(* Chain shape (buildFallbackChain, spec 4.2): for an encoded key that     *)
(* parses, the chain has five keys, each of which parses again; the i-th   *)
(* has exactly the first i fields of owner, seg, tenant, acct, org widened *)
(* to '*' and every other field as parsed from the key; the last is the    *)
(* global key.                                                             *)
(***************************************************************************)
WidenedAt(f, i) == \E j \in 1..i : <<"owner", "seg", "tenant", "acct", "org">>[j] = f

ChainWidensInOrder ==
  chain # None /\ ParseScopeKey(key) # Null =>
    /\ Len(chain) = 5
    /\ chain[5] = GlobalKey
    /\ \A i \in 1..5 :
         ParseScopeKey(chain[i]) =
           [f \in ScopeFields |-> IF WidenedAt(f, i) THEN Star
                                  ELSE ParseScopeKey(key)[f]]

(***************************************************************************)
(* Round trip (spec 8): decoding the encoded key of any DataDomain,        *)
(* including the empty one, gives back its wildcard-normalised values.     *)
(***************************************************************************)
RoundTrip == key # None => ParseScopeKey(key) = Normalized(dd)
(***************************************************************************)
(* Wildcard precedence (lookupAreaDomainAction, spec 4.3 and 8): the       *)
(* lookup returns the outcome of the most specific present entry that      *)
(* matches the query, preferring a domain wildcard to an area wildcard,    *)
(* and none when no entry matches.                                         *)
(***************************************************************************)
LookupMostSpecific == out # None => out = MostSpecificEntry(m, q)

(***************************************************************************)
(* Spec 4.5 lists getDecision in the evaluate view and spec 7 says no path *)
(* throws to the caller: a caller that interprets any evaluate response,  *)
(* the missing one of line 164 included, and asks the view for a decision *)
(* gets an entry or null, never a TypeError.                              *)
(***************************************************************************)
GetDecisionNeverThrows == got # TypeError
=============================================================================
