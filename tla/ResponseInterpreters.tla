------------------------ MODULE ResponseInterpreters ------------------------
(***************************************************************************)
(* interpretCheckResponse and interpretEvaluateResponse of acl-client.js   *)
(* (lines 147-177), and the getDecision closure the second one returns.    *)
(*                                                                         *)
(* A response is Undefined (null or missing) or a record whose absent      *)
(* fields are Undefined; a JSON null field reads the same as an absent one *)
(* in every expression of this code. A view is a record whose DOMAIN is    *)
(* the set of properties the returned object has. The getDecision closure  *)
(* is the decisions object it captures.                                    *)
(***************************************************************************)
EXTENDS JsValues

CONSTANTS NotArray,   \* a field that is present but not an array
          TypeError,  \* calling view.getDecision when it is undefined
          None        \* a call not yet made

\* Array.isArray over the values a field may hold.
IsArray(x) == x \notin {Undefined, NotArray}

\* Truthiness of a string field: present and not "".
Given(s) == s # Undefined /\ s # ""

\* The object literal {}.
EmptyObject == [t \in {} |-> Null]

\* interpretCheckResponse (lines 147-160).
InterpretCheckResponse(check) ==
  IF check = Undefined
  THEN [decision |-> "DENY", scope |-> "DEFAULT", constraints |-> <<>>]
  ELSE [decision |-> IF Given(check.decision) THEN check.decision
                     ELSE IF Given(check.finalEffect) THEN ToUpperCase(check.finalEffect)
                     ELSE "DENY",
        scope |-> IF Given(check.decisionScope) THEN check.decisionScope ELSE "DEFAULT",
        constraints |-> IF IsArray(check.scopedConstraints)
                        THEN check.scopedConstraints ELSE <<>>,
        filterConstraintsPresent |-> check.filterConstraintsPresent = TRUE,
        filterConstraints |-> IF IsArray(check.filterConstraints)
                              THEN check.filterConstraints ELSE <<>>]

\* interpretEvaluateResponse (lines 163-168, 176): `x || {}` on objects,
\* which are always truthy; the null response has no getDecision.
InterpretEvaluateResponse(res) ==
  IF res = Undefined
  THEN [allow |-> EmptyObject, deny |-> EmptyObject, decisions |-> EmptyObject,
        evalModeUsed |-> "LEGACY"]
  ELSE LET Obj(o) == IF o = Undefined THEN EmptyObject ELSE o
           decisions == Obj(res.decisions)
       IN [allow |-> Obj(res.allow), deny |-> Obj(res.deny), decisions |-> decisions,
           evalModeUsed |-> IF Given(res.evalModeUsed) THEN res.evalModeUsed ELSE "LEGACY",
           getDecision |-> decisions]

\* getDecision (lines 169-175): a missing level returns null, and so does a
\* falsy entry.
GetDecision(decisions, area, domain, action) ==
  LET out == PropertyPath(decisions, <<area, domain, action>>)
  IN IF out \in {Undefined, Null} THEN Null ELSE out

\* view.getDecision(area, domain, action) as a caller writes it.
CallGetDecision(view, q) ==
  IF "getDecision" \notin DOMAIN view THEN TypeError
  ELSE GetDecision(view.getDecision, q[1], q[2], q[3])
=============================================================================
