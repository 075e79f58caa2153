-------------------------- MODULE MCScopeKeyParse --------------------------
(***************************************************************************)
(* Harness for parseScopeKey on keys received from elsewhere (a caller or  *)
(* a server), compared with the decoding rules of spec section 4.1.        *)
(***************************************************************************)
EXTENDS ScopeKeyCodec

CONSTANTS None

\* A segment per field: with a value, with an empty value, or without '='.
SegmentsOf(f) == {<<f, "=", "x">>, <<f, "=", "*">>, <<f, "=">>, <<f>>}

RawKeys ==
  {s[1] \o <<"|">> \o s[2] \o <<"|">> \o s[3] \o <<"|">> \o s[4] \o <<"|">> \o s[5] :
     s \in SegmentsOf("org") \X SegmentsOf("acct") \X SegmentsOf("tenant")
             \X SegmentsOf("seg") \X SegmentsOf("owner")}

VARIABLES key, parsed
vars == <<key, parsed>>

Init == key \in RawKeys /\ parsed = None

ParseCall ==
  /\ parsed = None
  /\ parsed' = ParseScopeKey(key)
  /\ UNCHANGED key

Next == ParseCall

Spec == Init /\ [][Next]_vars

\* Spec 4.1 decode: a segment without '=' is a failure; an empty value is
\* read as '*'; decoding succeeds only if all five field names occur.
SpecDecode(k) ==
  LET segs == SplitOn(k, "|")
      Name(p) == SubSeq(p, 1, SelectInSeq(p, LAMBDA t : t = "=") - 1)
      Value(p) == SubSeq(p, SelectInSeq(p, LAMBDA t : t = "=") + 1, Len(p))
      Valid == \A i \in 1..Len(segs) : SelectInSeq(segs[i], LAMBDA t : t = "=") > 1
      ValueOf(f) == LET i == CHOOSE i \in 1..Len(segs) : Name(segs[i]) = <<f>>
                    IN IF Value(segs[i]) = <<>> THEN Star ELSE Value(segs[i])
  IN IF Valid /\ \A f \in ScopeFields : \E i \in 1..Len(segs) : Name(segs[i]) = <<f>>
     THEN [f \in ScopeFields |-> ValueOf(f)]
     ELSE Null

(***************************************************************************)
(* parseScopeKey decodes every key the way spec 4.1 says: a segment with   *)
(* no '=' fails, and a segment with an empty value is read as '*'.         *)
(***************************************************************************)
ParseMatchesSpec == parsed # None => parsed = SpecDecode(key)
=============================================================================
