--------------------------- MODULE ScopeKeyCodec ---------------------------
(***************************************************************************)
(* The scope-key codec of acl-client.js: scopeKeyFromDataDomain,          *)
(* parseScopeKey and formatScopeKey.                                       *)
(*                                                                         *)
(* A JavaScript string is a sequence of tokens. A token is one character   *)
(* ("x", "*", "=", "|", " ") or one of the five field names, which the     *)
(* model keeps atomic. A value therefore cannot spell a field name letter   *)
(* by letter. An absent property (undefined or null) is the model value    *)
(* Undefined, and a failed parse is the model value Null.                  *)
(***************************************************************************)
EXTENDS JsValues

\* The five scope-key field names.
ScopeFields == {"org", "acct", "tenant", "seg", "owner"}

\* The DataDomain property read for each scope-key field (line 33).
DDField == [org |-> "orgRefName", acct |-> "accountNumber",
            tenant |-> "tenantId", seg |-> "dataSegment", owner |-> "ownerId"]

Star == <<"*">>

\* String.prototype.trim, with " " standing for every whitespace character.
RECURSIVE Trim(_)
Trim(s) ==
  IF s = <<>> THEN s
  ELSE IF Head(s) = " " THEN Trim(Tail(s))
  ELSE IF Last(s) = " " THEN Trim(Front(s))
  ELSE s

\* String.prototype.split(sep) for a one-token separator: "" gives [""],
\* and a separator at either end gives an empty piece there.
RECURSIVE SplitOn(_, _)
SplitOn(s, sep) ==
  LET i == SelectInSeq(s, LAMBDA t : t = sep)
  IN IF i = 0 THEN <<s>>
     ELSE <<SubSeq(s, 1, i - 1)>> \o SplitOn(SubSeq(s, i + 1, Len(s)), sep)

\* formatScopeKey: the five parts joined in the fixed order, no escaping.
FormatScopeKey(parts) ==
  <<"org", "=">> \o parts.org \o <<"|", "acct", "=">> \o parts.acct
    \o <<"|", "tenant", "=">> \o parts.tenant \o <<"|", "seg", "=">> \o parts.seg
    \o <<"|", "owner", "=">> \o parts.owner

\* The literal 'org=*|acct=*|tenant=*|seg=*|owner=*'.
GlobalKey == FormatScopeKey([f \in ScopeFields |-> Star])

\* scopeKeyFromDataDomain: a null domain is {}; an absent value, or one
\* that is blank after trimming, becomes '*'; any other value is written
\* untrimmed.
ScopeKeyFromDataDomain(dataDomain) ==
  LET V(x) == IF x = Undefined \/ Trim(x) = <<>> THEN Star ELSE x
  IN FormatScopeKey([f \in ScopeFields |->
                       IF dataDomain = Undefined THEN Star
                       ELSE V(dataDomain[DDField[f]])])

\* parseScopeKey: split on '|', then each segment on '='. An empty key name
\* fails; a segment without '=' sets its key to '*'; only the text between
\* the first and second '=' is kept; a later segment overwrites an earlier
\* one. The result is valid only if all five parts are truthy.
ParseScopeKey(key) ==
  LET Step(obj, p) ==
        LET kv == SplitOn(p, "=")
        IN IF obj = Null \/ kv[1] = <<>> THEN Null
           ELSE IF Len(kv[1]) = 1 /\ kv[1][1] \in ScopeFields
                THEN [obj EXCEPT ![kv[1][1]] = IF Len(kv) = 1 THEN Star ELSE kv[2]]
                ELSE obj
      obj == FoldLeft(Step, [f \in ScopeFields |-> Undefined], SplitOn(key, "|"))
  IN IF ~Truthy(key) THEN Null
     ELSE IF obj # Null /\ \A f \in ScopeFields : Truthy(obj[f]) THEN obj
     ELSE Null
=============================================================================
