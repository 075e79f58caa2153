---------------------------- MODULE MatrixLookup ----------------------------
(***************************************************************************)
(* lookupAreaDomainAction of acl-client.js.                                *)
(*                                                                         *)
(* The matrix m[area][domain][action] is flattened to a function from the  *)
(* triples <<area, domain, action>> it holds to the stored outcomes. A     *)
(* missing level or a falsy level is a miss in the code. Both are the      *)
(* triple being outside DOMAIN m, so nothing is lost. A falsy stored       *)
(* outcome (JSON null) is the value Null and is also a miss (line 91).     *)
(* A name of Object.prototype reads an inherited member at that level.     *)
(***************************************************************************)
EXTENDS JsValues

W == "*"

\* Mutant: the area wildcard is tried before the domain wildcard.
TriesAreaFirst(area, domain, action) ==
  <<<<area, domain, action>>, <<area, domain, W>>, <<W, domain, action>>,
    <<area, W, W>>, <<area, W, action>>, <<W, domain, W>>, <<W, W, action>>,
    <<W, W, W>>>>

\* The tries array (lines 78-87), in the order they are tried.
Tries(area, domain, action) ==
  <<<<area, domain, action>>, <<area, domain, W>>, <<area, W, action>>,
    <<area, W, W>>, <<W, domain, action>>, <<W, domain, W>>, <<W, W, action>>,
    <<W, W, W>>>>

\* m[a][d][c] for t = <<a, d, c>>, or Null when any level is missing.
At(m, t) == IF PropertyPath(m, t) = Undefined THEN Null ELSE PropertyPath(m, t)

\* The loop of lines 88-92 and the final return null.
LookupAreaDomainAction(m, area, domain, action) ==
  LET tries == Tries(area, domain, action)
      i == SelectInSeq(tries, LAMBDA t : At(m, t) # Null)
  IN IF i = 0 THEN Null ELSE At(m, tries[i])
=============================================================================
