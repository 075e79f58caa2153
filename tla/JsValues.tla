------------------------------ MODULE JsValues ------------------------------
(***************************************************************************)
(* JavaScript values shared by the acl-client.js modules. A string is a    *)
(* sequence of tokens; undefined and null are model values.                *)
(***************************************************************************)
EXTENDS Sequences, SequencesExt

CONSTANTS Undefined,  \* an absent property: undefined, or null in JSON
          Null        \* the null a function of the library returns

\* A string is truthy in JavaScript iff it is defined and non-empty.
Truthy(s) == s # Undefined /\ s # Null /\ s # <<>>

\* String(effect).toUpperCase() for the effect texts a snapshot carries,
\* and for an effect that is undefined.
ToUpperCase(e) == CASE e \in {"allow", "ALLOW", "Allow"} -> "ALLOW"
                    [] e \in {"deny", "DENY", "Deny"} -> "DENY"
                    [] e = Undefined -> "UNDEFINED"

(***************************************************************************)
(* Property reads on objects parsed from JSON. A nested object is         *)
(* flattened to a function from the key paths of its leaves to the        *)
(* leaves; every inner level holds at least one leaf. Every object also   *)
(* inherits the members of Object.prototype: o[k] for such a k with no own *)
(* property k is a function, truthy, with no effect field, and its own    *)
(* inherited members in turn.                                             *)
(***************************************************************************)
ObjectProtoKeys == {"constructor", "toString", "valueOf", "hasOwnProperty"}

\* An inner level of the object, an own property holding an object.
OwnObject == "object"

\* A member inherited from Object.prototype (a function).
InheritedMember == [effect |-> Undefined]

\* o[p[1]][p[2]]...[p[n]], Undefined where a level is missing.
RECURSIVE PropertyPath(_, _)
PropertyPath(o, p) ==
  IF p \in DOMAIN o THEN o[p]
  ELSE IF \E t \in DOMAIN o : Len(t) > Len(p) /\ SubSeq(t, 1, Len(p)) = p THEN OwnObject
  ELSE IF /\ Last(p) \in ObjectProtoKeys
          /\ Len(p) = 1 \/ PropertyPath(o, Front(p)) # Undefined
       THEN InheritedMember
  ELSE Undefined
=============================================================================
