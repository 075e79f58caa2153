# TLA+ models of the quantum-framework ACL client and ontology migration

This directory holds TLA+ models of the JavaScript code of the repository, the
TLC configurations that check them, and `PROJECT.json`, which maps every
definition to the source lines it models. It lists the runs, the mutants
and the hazards.

## 1. Inventory

The repository has three JavaScript files.

| File | What it is |
|------|------------|
| `src/quantum-framework/src/main/resources/META-INF/resources/security/acl-client.js` | ACL client library: evaluates access decisions locally against a scoped access snapshot. |
| `src/quantum-ontology-mongo/scripts/migrate-ontology-datadomain.js` | mongosh/Node script that migrates ontology edges from tenant-only scoping to full DataDomain scoping and swaps the unique index. |
| `src/framework/src/test/javascript/testScript.js` | Graal.js interop demo. It has no state worth modelling, and the spec excludes it. |

### 1.1 ACL client (`acl-client.js`)

The library is a stateless module of pure, synchronous functions. Its only
"state" is the snapshot the caller holds. The spec (§3) says the library never
mutates the snapshot. The components, leaves first:

* **ScopeKeyCodec** (`scopeKeyFromDataDomain` l.30-34, `parseScopeKey` l.61-71,
  `formatScopeKey` l.73-75). Encodes a DataDomain into
  `org=..|acct=..|tenant=..|seg=..|owner=..`. Empty or absent fields become `*`.
  It also parses such a key back into its five parts. Nothing is escaped. The
  parse splits on `|` and then on `=`. It keeps only the text between the first
  and second `=`. It treats a segment without `=` as `*`. It rejects the key
  when any of the five parts is missing or empty.
* **FallbackChainBuilder** (`buildFallbackChain` l.36-59). Widens a parsed key
  one field at a time, in the order owner, seg, tenant, acct, org, and
  re-formats the key after each step. It ends with the global key. A key that
  does not parse gives an empty chain.
* **MatrixLookup** (`lookupAreaDomainAction` l.77-94). Tries eight
  (area, domain, action) triples in a fixed wildcard precedence. Any falsy level
  or outcome counts as a miss.
* **DecisionEvaluator** (`decide` l.96-116, `decideOutcome` l.118-138). These
  are two copies of the same scan. Step 1 is a kill switch on
  `snapshot.enabled`. The start key is the encoded DataDomain, or else
  `requestedScope`, or else the global key. The chain is the built chain, or
  else `requestedFallback`, or else `[global]`. The candidates
  `[start, ...chain]` are tried in order. A scope is skipped when it is absent
  or has `requiresServer` set. The first lookup hit wins. The default is DENY
  (or `null`).
* **ResponseInterpreters** (`interpretCheckResponse` l.147-160,
  `interpretEvaluateResponse` l.163-177). These normalise two server response
  shapes and fill in defaults.

Interaction: the evaluator calls the codec, the chain builder and the lookup.
Callers may call every function directly, because all of them are exported
(l.140-178). The snapshot is produced by the server and replaced by the caller
on refresh. The spec puts that outside the core.

What is hard in the client is not concurrency, since every call is
synchronous. It is the interplay of three string and map algorithms with
JavaScript truthiness:
* unescaped separators break the encode/parse round trip. A DataDomain value
  containing `=` or `|` gives a key that does not parse, so the chain is
  empty and the global scope is never consulted;
* `[]` is truthy, so an empty `requestedFallback` removes the global fallback;
* the two evaluator copies must agree;
* the cross-scope order (scope order before wildcard precedence) must hold;
* `requiresServer` scopes are skipped, not stopped at;
* a scope without `matrix` throws a TypeError, although spec §7 says that no
  path throws;
* property reads walk the prototype chain, so names such as `constructor`
  hit inherited members.

Correctness properties:
* the chain widens in the fixed order and ends global;
* the lookup returns the most specific present entry;
* `decide` and `decideOutcome` agree;
* the evaluator implements the spec's resolution rule (refinement);
* default deny and the kill switch hold;
* `decode(encode(d))` round-trips (spec §8);
* no path throws (spec §7).

### 1.2 Ontology DataDomain migration (`migrate-ontology-datadomain.js`)

This part is stateful. It is a sequence of database steps against the
`edges` collection and its indexes, run against a live database:

1. It counts edges with a missing or incomplete `dataDomain`, and edges that
   have a tenant but lack org or account (l.38-62).
2. It builds, per tenant, the most common (org, acct, seg) pattern of the
   complete edges. It then runs `updateMany` per tenant, which sets org, acct
   *and* seg on that tenant's incomplete edges (l.70-151).
3. It counts the edges with no `dataDomain` and, when there are any, sets
   system defaults on them (l.153-182).
4. It drops the old unique index `uniq_tenant_src_p_dst` (l.185-205).
5. It checks the new index `uniq_domain_src_p_dst`. If the index has the wrong
   structure it drops it. It creates the index when it is missing, and a
   duplicate key error is reported, not raised (l.207-275).
6. It validates: it counts the incomplete edges and the duplicate groups, and
   reports `success` (l.277-353).

State: the edges (each with a `(src,p,dst)` triple and an optional, partial
`dataDomain`), the set of indexes, and the script's position. The hard parts:
* `updateMany` runs in dry-run mode too (l.122, l.162). Only the printed
  counts depend on `dryRun`.
* The `indexes` list is read before the structure check and used after the
  index is dropped (l.209, l.241). A wrongly structured new index is dropped
  and then not recreated.
* Between the old index drop (l.197) and the new index creation (l.247), no
  uniqueness is enforced. If the creation fails, none is enforced at all.
* The backfill overwrites fields that were present, such as `dataSegment`.
* `updateMany` can fail half-way, for example on a duplicate key under the old
  index. Step 2 and step 3 are not in a `try`, so the script aborts with a
  partial backfill. It can then be re-run.
* The application keeps writing edges while the script runs.
* Ties for the "most common pattern" depend on the scan order.
* `tenantPatterns` is a plain object indexed by tenantId (l.86-89). A
  tenantId named like an `Object.prototype` member reads that member. For
  `"__proto__"` this is `Object.prototype` itself, so that tenant's pattern
  counts are inherited by every object, and the for-in at l.98 visits them
  for every other tenant.

Correctness properties:
* a dry run changes nothing;
* after a completed non-dry run the unique new index exists;
* the backfill fills only missing fields, from a pattern of the same tenant;
* duplicates under the new key exist only while no unique index is in force
  (some index in force at every step cannot hold: the script drops the old
  index before it creates the new one);
* `success` implies that every edge is complete and that the index exists.

## 2. Plan

Modules, in the order they are built (most important behaviour first):

1. `ScopeKeyCodec` (encode, parse, format) and `FallbackChainBuilder`
   (`EXTENDS ScopeKeyCodec`). These are pure operators over keys written as
   token sequences. `MCAclFunctions` is the harness: it encodes every DataDomain
   over a small alphabet and builds its chain. Runs: the chain widening order
   (pass), the spec §8 round trip (violation), and the spec §4.1 parse rules
   (violation, `MCScopeKeyParse`).
2. `MatrixLookup`, the pure precedence lookup. `MCAclFunctions` also checks it
   against the spec's "most specific present entry" over every matrix of
   a query's eight triples.
3. `AclDecision`, the abstract evaluator. It states what spec §4.3-4.4
   promise, as the lexicographically least (candidate, specificity) entry.
   `DecisionEvaluator` (`EXTENDS FallbackChainBuilder, MatrixLookup`) holds
   the code's `decide` and `decideOutcome` as actions of a caller holding one
   snapshot. `MCDecisionEvaluator` checks that they agree, and checks the
   refinement `AclDecision!Spec` (pass). A second cfg checks the spec §7
   "returns ALLOW or DENY and never throws" (violation, `decision_contract`).
4. `OntologyMigration`, the migration script as a state machine. Each step is
   one action. The model also has a crash and re-run, and the application
   writing edges concurrently. `MCOntologyMigration` uses three edges, two
   `(src,p,dst)` triples and one or two tenants.
5. `ResponseInterpreters`, the two normalisers. Their runs check the result
   shape against spec §4.5 (done in the second sitting). `MCAclFunctions`
   is the harness of every pure function of the client, these included.

Abstract specifications: `AclDecision` for the evaluator, and
`MigrationOutcome` for what the migration may do to the collection (done in
the second sitting).

## 3. Modules

| Module | Models | State and actions |
|--------|--------|-------------------|
| `JsValues` | JavaScript values the client compares and reads | `Undefined`, `Null`, truthiness (`[]` is truthy), `toUpperCase` of an effect, and `PropertyPath`: `o[k1][k2][k3]` on a JSON object, where a name of `Object.prototype` (`constructor`, `toString`, ...) reads an inherited function |
| `ScopeKeyCodec` | `scopeKeyFromDataDomain`, `parseScopeKey`, `formatScopeKey` | pure operators; a string is a sequence of tokens, and `split`/`trim` follow JS semantics |
| `FallbackChainBuilder` | `buildFallbackChain` | a fold over `WideningSteps`, followed by the global-key guard |
| `MatrixLookup` | `lookupAreaDomainAction` | `Tries` lists the eight triples in code order; the matrix is a function from triples to outcomes |
| `AccessSpec`, `AclDecision` | spec §4.3-4.4, not code | the abstract evaluator: the first usable candidate scope that has an entry, then its most specific entry |
| `DecisionEvaluator` | `decide`, `decideOutcome` | variables `snapshot`, `dataDomain`, `query`, `decision`, `outcome`; one action per exported call |
| `ResponseInterpreters` | `interpretCheckResponse`, `interpretEvaluateResponse`, `getDecision` | pure operators; a view is a record whose `DOMAIN` is the set of properties of the returned object, and the `getDecision` closure is the `decisions` object it captures |
| `MigrationOutcome` | the migration header's promise, not code | variables `collection` and `unique`: inserts, a backfill from a complete edge of the same tenant, the system fill, index drop and create |
| `OntologyMigration` | `migrateOntologyDataDomain` and its entry points | variables `edges`, `indexes` and the script's position and locals; one action per Mongo call that changes or decides state, plus `Run`, `EntryThrows` (the named-database and Node entries, which throw before any call), `Crash` and `AppInsert`. `CountNoDomain` (l.154) and `SystemDefaults` (l.162) are two steps, as the count and the update are two calls. The history variables `quiet` and `begun` are only for the properties of `migration_quiet`. `Tally` replays the pattern scan over the edges in `find()` order on a JS object, with `Object.prototype` as a second map |

The `MC*` modules instantiate these modules for TLC. The harness of a pure
function picks its inputs in `Init`, and each call is one action. The harnesses
set `CHECK_DEADLOCK FALSE` because a call returns and nothing follows it.
The migration config also sets `CHECK_DEADLOCK FALSE`, because the system
really does stop: after `MaxRuns` runs the script is not started again.

## 4. Runs

| Run | Expect | What it shows |
|-----|--------|---------------|
| `acl_functions` | pass | Every DataDomain over the alphabet `{x, *, =, \|, space}` (values of length at most 1, absent, or null) encodes to a key. When that key parses, its chain widens owner, seg, tenant, acct and org in order, keeps what it widened, and ends global exactly once. The same run covers every matrix on the eight triples of a query, with exact, unknown and wildcard queries. On each, the lookup returns the most specific present entry. The same run also calls the response interpreters on every check response and every non-null evaluate response, but checks no property of them: each such property would only restate a `||`, `?:` or `Array.isArray` default of l.147-175. |
| `scopekey_roundtrip` | violation | `decode(encode(d))` fails for a value containing `=` or `\|` (spec §8). |
| `scopekey_parse_spec` | violation | `parseScopeKey` reads `seg` (no `=`) as `*` and rejects `seg=`, the reverse of spec §4.1. |
| `decision_evaluator` | pass | `decide` and `decideOutcome` each implement `AclDecision` (refinement, `PROPERTY AclDecisionSpec`) over snapshots built from three scope keys with or without `requiresServer` and an enabled/disabled switch, and over five DataDomain arguments, including an unparsable one and `requestedScope`/`requestedFallback` (`[]` included). |
| `migration` | pass | The script runs at most twice (not dry). Along the way it may crash, `updateMany` may fail part way, and the application may insert edges. Every step refines `MigrationOutcome` (`PROPERTY MigrationOutcomeSpec`, mapping `collection <- [e \in Present(edges) \|-> edges[e]]` and `unique <- indexes \cap UniqueIndexes`). So a complete edge never changes, an edge is filled only from a complete edge of its own tenant or with the system defaults, and an index is only created over a collection it accepts. |
| `migration_quiet` | pass | A non-dry run during which the application inserted nothing leaves no edge without a `dataDomain`, and no tenant-only edge whose tenant has a complete edge (`QuietRunBackfills`). The history variable `quiet` records that no insert happened since the run began. So the counts of l.44-61 and l.154 send the run through every step the data needs, and the backfill filter reaches every edge the comment at l.71-73 promises to fill. When such a run began with a unique index in force and without the misshapen new index, it returns with the new unique index in place (`QuietRunCreatesIndex`; the history variable `begun` holds the indexes when the run began). So the script's own fills never write two edges the new key cannot tell apart, and `createIndex` reaches the DuplicateKey branch of l.268 only through edges the application wrote in the window, or left there before a re-run. The runs before it may have crashed, aborted or been dry. |
| `decision_contract` | violation | `decide` does not always return ALLOW or DENY (spec §6, §7). A usable scope without a matrix makes it throw a TypeError. An action named `constructor` makes it return `"UNDEFINED"`, passing over a stored `(A,*,*)` DENY. |
| `response_views` | violation | The view made for a null evaluate response (l.164) has no `getDecision`, so `view.getDecision(...)` throws a TypeError, against spec §4.5 (which lists `getDecision` in the view) and §7 (no path throws). |
| `migration_dryrun` | violation | A dry run writes the backfill and the system defaults. |
| `migration_overwrite` | violation | The backfill overwrites the `dataSegment` an edge had, and the org or account an edge had when only the other one was missing. |
| `migration_proto` | violation | With one tenantId `"__proto__"` (two complete edges of one pattern) and a tenant T1 with a complete edge of another pattern and a tenant-only edge, T1's edge is backfilled with the `"__proto__"` tenant's org and account: `MigrationOutcomeSpec` fails at the `updateMany`. |
| `migration_index` | violation | A wrongly structured new index is dropped and not recreated, yet the run reports `success` with no unique index left. |

Every property of a passing run has a mutant in `PROJECT.json`. The mutant is a
plausible bug in the mapped definition, and TLC finds the property violated
under that run's config.

## 5. Bounds

* Scope keys. The values have length at most 1, over five tokens that include
  both separators, the wildcard and whitespace. That covers every branch of
  `trim`, `split`, the `=`-less segment and the empty value. The chain check
  goes through every field.
* Matrix. All maps from the eight triples over `{A,*}×{D,*}×{X,*}` to
  {absent, allow, deny} are covered. A pair of outcomes is enough to tell any
  two precedences apart.
* Evaluator. The bounds are three scopes (full key, org-only key, global) and
  two outcomes. That lets a narrow scope, a broader one and the global scope
  each win or be skipped. `MCSnapshotsNoMatrix` adds a scope without a matrix
  for the contract run.
* Migration. The bounds are three edge ids, two `(src,p,dst)` triples, two
  tenants, two orgs, one account, `dataSegment` in {absent, 0, 1}, three
  initial index sets and `MaxRuns = 2`. Three edges are the fewest for which
  the following can all happen in one run:
  * a tenant-only edge;
  * a complete edge of the same tenant that supplies the pattern;
  * an application insert that collides under the old index.

  With two runs, a crashed or aborted run is followed by a re-run.
  `Permutations(Ids)` is sound symmetry, because no definition tells ids
  apart. The `migration` run starts only non-dry runs. A dry run writes through the
  same backfill and system-fill actions, so its steps add nothing to the
  refinement check; `migration_dryrun` and `migration_quiet` run dry runs.
  `VIEW StateView` leaves out `quiet` and `begun`, which no action reads and no
  property of that run mentions. The pass run has about 630 k distinct
  states and takes under 2 minutes. `migration_proto` uses four ids, the smallest number for which
  the inherited count (two edges) beats the tenant's own (one edge), and
  only the three edge shapes that scenario needs, so that its initial states
  stay few. `migration_quiet` uses three ids with symmetry and lets both
  dry and non-dry runs start; it has about 1.7 M distinct states and takes
  under a minute.
* Response interpreters. Each check field takes absent, `""` and a value, or
  absent, a non-array, `[]` and an array, so each of the `||`, `?:` and
  `Array.isArray` defaults meets both of its branches. The `decisions`
  objects are all maps from `{a}×{d,*}×{c,*}` to {absent, null, outcome}. The
  queries miss at each level, and a literal `*` shows there is no wildcard
  precedence. Property reads on a JSON object are modelled only for own
  levels that hold a leaf. An empty own level `{}` (truthy, with no entries)
  is never sent by the server, and is left out.

## 6. Fairness

No run assumes fairness, and the project states no liveness property. The
migration function is straight-line code with finite loops. A started run
therefore ends unless one of its Mongo calls never returns. That is an
assumption about the server, not something the code decides, so a
termination property would only restate the fairness it needs. The client
functions are synchronous calls with nothing to wait for.

## 7. Findings

1. Unescaped scope keys (`acl-client.js:33`). The round trip of spec §8 fails.
   An affected request gets an empty fallback chain, so the global scope is
   never tried.
2. The parse rules (`acl-client.js:68,70`) are the reverse of spec §4.1.
3. A missing matrix throws (`acl-client.js:89`), against spec §7.
4. The dry run writes (`migrate-ontology-datadomain.js:122,162`). The
   main block always passes `dryRun: false`. The dry-run path is reached by
   calling the function with `{dryRun: true}` from a mongosh session.
5. The backfill overwrites present fields (`:131-135`), against the comment at
   lines 71-73.
6. Stale `indexes` list (`:241`). A wrongly structured new index is dropped and
   never recreated, and `success` is still reported.
7. Inherited names (`acl-client.js:89-91`). An area, domain or action named
   like a member of `Object.prototype` reads an inherited function:
   * `decide` returns `"UNDEFINED"` and passes over a stored wildcard DENY;
   * a caller testing `!== 'DENY'` would allow;
   * `getDecision` (l.170-174) returns the function instead of null (by
     reading; no run shows it).
8. The null check view (`acl-client.js:148`) has three fields, while every
   other view has five. Spec §4.5 names five, but its example 6 shows exactly
   these three, so this is a spec ambiguity and no run checks it.
9. The null evaluate view (`acl-client.js:164`) has no `getDecision`, so calling
   it throws, against spec §4.5 and §7.
10. Cross-tenant backfill (`migrate-ontology-datadomain.js:86`). A tenantId
    `"__proto__"` puts its pattern counts on `Object.prototype`. Every other
    tenant's count object inherits them, so a tenant whose own patterns have
    fewer edges takes that tenant's org and account, against the comment at
    lines 71-73 ("edges with the same tenantId").

## 8. Not modelled

* The UMD wrapper. It only chooses the export target.
* `testScript.js`. It is a Graal demo with no state.
* In the migration:
  * printing and the counts that are only printed;
  * `ownerId`, which no filter, index or pattern reads;
  * the key of the old index, which is assumed to be `(tenantId, src, p, dst)`
    as its name says;
  * the branch for neither mongosh nor Node (l.394-399), which only prints;
  * non-string tenant ids: `for-in` gives the tenantId back as a string,
    so the `updateMany` of l.122 matches no edge of a numeric tenant. Those
    edges stay incomplete and validation reports it, so no property tells
    this apart;
  * values containing `|` in the pattern key.

## 9. What the plan has left

* Two more migration cases would each need a violation run of their own,
  and the project is at its limit of twelve runs:
  * an org or account value that contains `|` (l.84, l.105). It would
    break `MigrationOutcomeSpec`, because the fill takes values that no
    edge had;
  * a numeric tenantId (l.124). It would break `QuietRunBackfills`: the
    tenant's edges are never backfilled, because for-in gives the key back
    as a string.
