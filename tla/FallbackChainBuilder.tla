------------------------ MODULE FallbackChainBuilder ------------------------
(***************************************************************************)
(* buildFallbackChain of acl-client.js: parse the key, then widen one      *)
(* field at a time (owner, seg, tenant, acct, org), keeping the fields     *)
(* already widened, and emit the re-formatted key after each step.         *)
(***************************************************************************)
EXTENDS ScopeKeyCodec

\* Mutant: segment and tenant widened in the swapped order.
WideningStepsSwapped == <<<<"owner", Star>>, <<"tenant", Star>>, <<"seg", Star>>,
                          <<"acct", Star>>, <<"org", Star>>>>

\* The steps array: the field set to '*' at each widening step.
WideningSteps == <<<<"owner", Star>>, <<"seg", Star>>, <<"tenant", Star>>,
                   <<"acct", Star>>, <<"org", Star>>>>

\* One loop iteration: current = { ...current, [k]: val }; chain.push(...).
WidenStep(acc, step) ==
  LET current == [acc.current EXCEPT ![step[1]] = step[2]]
  IN [current |-> current, chain |-> Append(acc.chain, FormatScopeKey(current))]

BuildFallbackChain(scopeKey) ==
  LET parts == ParseScopeKey(scopeKey)
      chain == FoldLeft(WidenStep,
                        [current |-> parts, chain |-> <<>>],
                        WideningSteps).chain
  IN IF parts = Null THEN <<>>
     ELSE IF Last(chain) # GlobalKey THEN Append(chain, GlobalKey)
     ELSE chain
=============================================================================
