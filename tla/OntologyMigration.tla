------------------------- MODULE OntologyMigration -------------------------
(***************************************************************************)
(* migrateOntologyDataDomain of migrate-ontology-datadomain.js, run        *)
(* against a live edges collection: each Mongo call of the script is one   *)
(* step, the running application may insert edges between any two steps,  *)
(* the script process may die between steps, and an operator may run it   *)
(* again.                                                                  *)
(*                                                                         *)
(* An edge is [triple, dd]: its (src, p, dst) triple and its dataDomain,  *)
(* which is NoDD when absent, or a record of tenant, org, acct and seg in *)
(* which an absent field is Missing. ownerId is left out: no query, index *)
(* or pattern of the script reads it. Indexes are named by what they are: *)
(* "old" (unique on tenant and triple), "newGood" (the unique new index)  *)
(* and "newBad" (an index of the new name without the required structure).*)
(***************************************************************************)
EXTENDS Naturals, FiniteSets, Sequences, TLC
LOCAL INSTANCE SequencesExt

CONSTANTS Ids,            \* document ids of the edges collection
          EdgeRecords,    \* the edges the collection may hold initially
          InsertRecords,  \* the edges the application may insert
          InitIndexes,    \* the index sets the collection may start with
          SYSTEM,         \* the string "system" of the defaults
          Missing,        \* an absent dataDomain field
          NoDD,           \* an absent dataDomain
          NotInserted,    \* an id with no document yet
          DryRunModes,    \* the dryRun options a run may be given
          MaxRuns         \* bound on the number of runs of the script

VARIABLES edges,        \* Ids -> edge record or NotInserted
          indexes,      \* names of the indexes on the collection
          pc,           \* where the script is
          dryRun,       \* options.dryRun of the current run
          runs,         \* runs started so far
          defaults,     \* tenantDefaults: tenant -> [org, acct, seg]
          pending,      \* tenants of tenantDefaults not yet backfilled
          seen,         \* the indexes list read at line 209
          success,      \* the success field of the returned result
          quiet,        \* history: no application insert since the run began
          begun         \* history: the indexes when the run began

script == <<pc, dryRun, runs, defaults, pending, seen, success>>
vars == <<edges, indexes, script, quiet, begun>>

UniqueIndexes == {"old", "newGood"}
NewNames == {"newGood", "newBad"}

Present(E) == {e \in Ids : E[e] # NotInserted}

\* The value at dataDomain.f, Missing when the field or dataDomain is absent.
F(r, f) == IF r.dd = NoDD THEN Missing ELSE r.dd[f]

Has(r, f) == F(r, f) # Missing

\* The $or filter of lines 44-51 and 281-288.
Incomplete(r) == ~Has(r, "org") \/ ~Has(r, "acct") \/ ~Has(r, "tenant")

\* The filter of lines 55-61.
TenantOnly(r) == Has(r, "tenant") /\ (~Has(r, "org") \/ ~Has(r, "acct"))

\* Mutant: the tenant of the filter dropped.
BackfillMatchAnyTenant(r, t) == TenantOnly(r)

\* Mutant: the $or of lines 125-128 written as an $and.
BackfillMatchAllMissing(r, t) ==
  Has(r, "tenant") /\ ~Has(r, "org") /\ ~Has(r, "acct") /\ F(r, "tenant") = t

\* The updateMany filter of lines 123-128.
BackfillMatch(r, t) == TenantOnly(r) /\ F(r, "tenant") = t

\* The find filter of lines 78-82.
CompleteForPattern(r) == Has(r, "tenant") /\ Has(r, "org") /\ Has(r, "acct")

\* Mutant: the new index created without dataDomain.tenantId.
KeyOfWithoutTenant(idx, r) ==
  IF idx = "old" THEN <<F(r, "tenant"), r.triple>>
  ELSE <<F(r, "org"), F(r, "acct"), F(r, "seg"), r.triple>>

\* Index keys; a missing field is indexed as null.
KeyOf(idx, r) ==
  IF idx = "old" THEN <<F(r, "tenant"), r.triple>>
  ELSE <<F(r, "org"), F(r, "acct"), F(r, "tenant"), F(r, "seg"), r.triple>>

UniqueUnder(E, idx) ==
  \A e1, e2 \in Present(E) : e1 # e2 => KeyOf(idx, E[e1]) # KeyOf(idx, E[e2])

\* A collection state every unique index in idxs accepts.
Accepted(E, idxs) == \A i \in idxs \cap UniqueIndexes : UniqueUnder(E, i)

(***************************************************************************)
(* The pattern key of line 84 and its parse at lines 105-110: seg is       *)
(* written as `${dataSegment || 0}` and read back by parseInt(..) || 0.    *)
(***************************************************************************)
SegText(s) == IF s = Missing \/ s = 0 THEN "0" ELSE "1"
ParseInt(t) == IF t = "1" THEN 1 ELSE 0

PatternOf(r) == <<F(r, "org"), F(r, "acct"), SegText(F(r, "seg"))>>

\* Mutant: the split pattern key destructured in the wrong order.
DefaultOfSwapped(p) == [org |-> p[2], acct |-> p[1], seg |-> ParseInt(p[3])]

DefaultOf(p) == [org |-> p[1], acct |-> p[2], seg |-> ParseInt(p[3])]

(***************************************************************************)
(* updateMany(filter, {$set}) is not atomic: documents are updated one by  *)
(* one, and the first update a unique index rejects aborts the rest. The   *)
(* outcome is a subset S of the matched documents updated, complete or     *)
(* stopped by a rejected document. Upd(e) is the updated record of e.      *)
(***************************************************************************)
Apply(S, Upd(_)) == [e \in Ids |-> IF e \in S THEN Upd(e) ELSE edges[e]]

UpdateOutcomes(matched, Upd(_)) ==
  {S \in SUBSET matched :
     /\ Accepted(Apply(S, Upd), indexes)
     /\ \/ S = matched
        \/ \E e \in matched \ S : ~Accepted(Apply(S \cup {e}, Upd), indexes)}

-----------------------------------------------------------------------------
(* The script's steps. *)

\* Step 1 (lines 38-66): the two counts, and the branch on them.
Analyze ==
  /\ pc = "analyze"
  /\ LET missing == \E e \in Present(edges) : Incomplete(edges[e])
         tOnly == \E e \in Present(edges) : TenantOnly(edges[e])
     IN pc' = IF ~missing /\ ~tOnly THEN "dropOld"
              ELSE IF tOnly THEN "patterns" ELSE "noDomain"
  /\ UNCHANGED <<edges, indexes, dryRun, runs, defaults, pending, seen, success, quiet, begun>>

(***************************************************************************)
(* tenantPatterns (lines 77-90) is a plain object keyed by tenantId, and   *)
(* tenantPatterns[tenantId] reads an inherited member too: for            *)
(* "__proto__" it is Object.prototype itself, so that tenant's counts      *)
(* become properties every object inherits; for "constructor" and the     *)
(* like it is a function whose own properties no loop enumerates. A count  *)
(* read with `|| 0` sees an inherited count. acc.own holds each tenant's   *)
(* own counts, acc.proto the counts on Object.prototype.                   *)
(***************************************************************************)
ProtoKey == "__proto__"
MemberKeys == {"constructor", "toString", "valueOf", "hasOwnProperty"}
NoCounts == [k \in {} |-> 0]

RECURSIVE Tally(_, _)
Tally(s, acc) ==
  IF s = <<>> THEN acc
  ELSE LET t == F(Head(s), "tenant")
           k == PatternOf(Head(s))
           Read(o) == IF k \in DOMAIN o THEN o[k]
                      ELSE IF k \in DOMAIN acc.proto THEN acc.proto[k] ELSE 0
           mine == IF t \in DOMAIN acc.own THEN acc.own[t] ELSE NoCounts
       IN Tally(Tail(s),
            CASE t = ProtoKey -> [acc EXCEPT !.proto = (k :> Read(@) + 1) @@ @]
              [] t \in MemberKeys -> acc
              [] OTHER -> [acc EXCEPT !.own = (t :> ((k :> Read(mine) + 1) @@ mine)) @@ @])

\* Lines 94-103: for-in visits a tenant's own keys, then the inherited ones,
\* and keeps the first key of the highest count. Own keys of equal count
\* go in insertion order, which may be any of them.
MostCommon(own, proto) ==
  LET Keys == DOMAIN own \cup DOMAIN proto
      Cnt(k) == IF k \in DOMAIN own THEN own[k] ELSE proto[k]
      Top == {k \in Keys : \A j \in Keys : Cnt(j) <= Cnt(k)}
  IN IF Top \cap DOMAIN own # {} THEN Top \cap DOMAIN own ELSE Top

\* Lines 75-115: find() visits the complete edges in some order. The
\* tenants of tenantDefaults are those with own counts; the inherited keys
\* that for-in also visits are pattern texts, which no tenantId equals, so
\* their updateMany matches nothing and is left out.
ReadPatterns ==
  /\ pc = "patterns"
  /\ \E order \in SetToSeqs({e \in Present(edges) : CompleteForPattern(edges[e])}) :
       LET acc == Tally([i \in DOMAIN order |-> edges[order[i]]],
                        [own |-> [t \in {} |-> NoCounts], proto |-> NoCounts])
           T == DOMAIN acc.own
       IN \E choice \in [T -> UNION {MostCommon(acc.own[t], acc.proto) : t \in T}] :
            /\ \A t \in T : choice[t] \in MostCommon(acc.own[t], acc.proto)
            /\ defaults' = [t \in T |-> DefaultOf(choice[t])]
            /\ pending' = T
  /\ pc' = "backfill"
  /\ UNCHANGED <<edges, indexes, dryRun, runs, seen, success, quiet, begun>>

\* Lines 119-148: one updateMany per tenant of tenantDefaults; it runs in a
\* dry run too. A rejected document throws out of the script.
BackfillTenant(t) ==
  /\ pc = "backfill"
  /\ t \in pending
  /\ LET matched == {e \in Present(edges) : BackfillMatch(edges[e], t)}
         Upd(e) == [edges[e] EXCEPT !.dd.org = defaults[t].org,
                                    !.dd.acct = defaults[t].acct,
                                    !.dd.seg = defaults[t].seg]
     IN \E S \in UpdateOutcomes(matched, Upd) :
          /\ edges' = Apply(S, Upd)
          /\ pc' = IF S # matched THEN "aborted" ELSE "backfill"
  /\ pending' = pending \ {t}
  /\ UNCHANGED <<indexes, dryRun, runs, defaults, seen, success, quiet, begun>>

\* Line 119: the loop over tenantDefaults is over.
BackfillDone ==
  /\ pc = "backfill"
  /\ pending = {}
  /\ pc' = "noDomain"
  /\ UNCHANGED <<edges, indexes, dryRun, runs, defaults, pending, seen, success, quiet, begun>>

\* Lines 153-158: count the edges with no dataDomain; the update runs only
\* when the count is not zero.
CountNoDomain ==
  /\ pc = "noDomain"
  /\ pc' = IF \E e \in Present(edges) : edges[e].dd = NoDD THEN "sysFill" ELSE "dropOld"
  /\ UNCHANGED <<edges, indexes, dryRun, runs, defaults, pending, seen, success, quiet, begun>>

\* Lines 159-182: edges with no dataDomain get the system defaults; the
\* updateMany runs in a dry run too.
SystemDefaults ==
  /\ pc = "sysFill"
  /\ LET matched == {e \in Present(edges) : edges[e].dd = NoDD}
         Upd(e) == [edges[e] EXCEPT !.dd = [tenant |-> SYSTEM, org |-> SYSTEM,
                                            acct |-> SYSTEM, seg |-> 0]]
     IN \E S \in UpdateOutcomes(matched, Upd) :
          /\ edges' = Apply(S, Upd)
          /\ pc' = IF S # matched THEN "aborted" ELSE "dropOld"
  /\ UNCHANGED <<indexes, dryRun, runs, defaults, pending, seen, success, quiet, begun>>

\* Step 3 (lines 186-205): drop the old index unless this is a dry run.
DropOldIndex ==
  /\ pc = "dropOld"
  /\ indexes' = IF "old" \in indexes /\ ~dryRun THEN indexes \ {"old"} ELSE indexes
  /\ pc' = "checkNew"
  /\ UNCHANGED <<edges, dryRun, runs, defaults, pending, seen, success, quiet, begun>>

\* Lines 209-239: read the index list; a new index without the required
\* structure is dropped unless this is a dry run.
CheckNewIndex ==
  /\ pc = "checkNew"
  /\ seen' = indexes
  /\ indexes' = IF "newBad" \in indexes /\ ~dryRun THEN indexes \ {"newBad"} ELSE indexes
  /\ pc' = "createNew"
  /\ UNCHANGED <<edges, dryRun, runs, defaults, pending, success, quiet, begun>>

\* Lines 241-275: the decision uses the list read before the drop; the
\* creation fails, and the error is only printed, when edges collide.
CreateNewIndex ==
  /\ pc = "createNew"
  /\ LET hasNewIndex == seen \cap NewNames # {}
         create == (~hasNewIndex \/ (~dryRun /\ seen \cap NewNames = {})) /\ ~dryRun
     IN indexes' = IF create /\ UniqueUnder(edges, "newGood")
                   THEN indexes \cup {"newGood"} ELSE indexes
  /\ pc' = "validate"
  /\ UNCHANGED <<edges, dryRun, runs, defaults, pending, seen, success, quiet, begun>>

\* Step 5 (lines 278-353): count incomplete edges and duplicate groups.
Validate ==
  /\ pc = "validate"
  /\ success' = /\ \A e \in Present(edges) : ~Incomplete(edges[e])
                /\ UniqueUnder(edges, "newGood")
  /\ pc' = "done"
  /\ UNCHANGED <<edges, indexes, dryRun, runs, defaults, pending, seen, quiet, begun>>

-----------------------------------------------------------------------------
(* The environment of the script. *)

Ended == {"idle", "done", "aborted", "crashed", "failed"}

\* An operator runs the script in mongosh on the current database (lines
\* 357-366) after the last run ended; the function runs with dryRun false.
Run ==
  /\ pc \in Ended
  /\ runs < MaxRuns
  /\ \E d \in DryRunModes : dryRun' = d
  /\ runs' = runs + 1
  /\ pc' = "analyze"
  /\ defaults' = <<>> /\ pending' = {} /\ seen' = {} /\ success' = FALSE
  /\ quiet' = TRUE /\ begun' = indexes
  /\ UNCHANGED <<edges, indexes>>

(***************************************************************************)
(* The two other entries throw before any call on the collection: given a *)
(* database name (lines 359-361), `const db = db.getSiblingDB(..)` reads   *)
(* the block's own db before its initialisation; under Node (lines         *)
(* 367-393) the function's first statement, print (line 32), is not       *)
(* defined, and neither is the print of the catch block.                   *)
(***************************************************************************)
EntryThrows ==
  /\ pc \in Ended
  /\ runs < MaxRuns
  /\ runs' = runs + 1
  /\ pc' = "failed"
  /\ UNCHANGED <<edges, indexes, dryRun, defaults, pending, seen, success, quiet, begun>>

\* The script process dies between two of its calls.
Crash ==
  /\ pc \notin Ended
  /\ pc' = "crashed"
  /\ UNCHANGED <<edges, indexes, dryRun, runs, defaults, pending, seen, success, quiet, begun>>

\* The application inserts an edge; an insert a unique index rejects fails.
AppInsert(e, r) ==
  /\ edges[e] = NotInserted
  /\ Accepted([edges EXCEPT ![e] = r], indexes)
  /\ edges' = [edges EXCEPT ![e] = r]
  /\ quiet' = FALSE
  /\ UNCHANGED <<indexes, script, begun>>

-----------------------------------------------------------------------------
Init ==
  /\ edges \in [Ids -> EdgeRecords \cup {NotInserted}]
  /\ indexes \in InitIndexes
  /\ Accepted(edges, indexes)
  /\ pc = "idle" /\ dryRun = FALSE /\ runs = 0
  /\ defaults = <<>> /\ pending = {} /\ seen = {} /\ success = FALSE
  /\ quiet = FALSE /\ begun = {}

ScriptNext ==
  \/ Analyze \/ ReadPatterns \/ (\E t \in pending : BackfillTenant(t))
  \/ BackfillDone \/ CountNoDomain \/ SystemDefaults \/ DropOldIndex \/ CheckNewIndex
  \/ CreateNewIndex \/ Validate

Next ==
  \/ ScriptNext
  \/ Run \/ EntryThrows \/ Crash
  \/ \E e \in Ids, r \in InsertRecords : AppInsert(e, r)

Spec == Init /\ [][Next]_vars


-----------------------------------------------------------------------------
(* Properties. *)

(***************************************************************************)
(* The backfill only fills what is missing (the comment at lines 71-73:    *)
(* "use the most common orgRefName/accountNum" for edges missing them): a  *)
(* dataDomain field an edge has is never overwritten by the script.        *)
(***************************************************************************)
BackfillOnlyFillsMissing ==
  [][ScriptNext => \A e \in Present(edges) :
        edges[e].dd # NoDD =>
          \A f \in {"tenant", "org", "acct", "seg"} :
             Has(edges[e], f) => F(edges'[e], f) = F(edges[e], f)]_vars

(***************************************************************************)
(* A dry run changes nothing (the header prints "Dry run: YES" and every  *)
(* write of a dry run is reported as "Would ..."): no step of a dry run    *)
(* changes an edge or an index.                                            *)
(***************************************************************************)
DryRunChangesNothing ==
  [][ScriptNext /\ dryRun => UNCHANGED <<edges, indexes>>]_vars

(***************************************************************************)
(* Refinement: seen from the collection (the inserted edges and the       *)
(* unique indexes in force), every step of the script, of a crash, of a   *)
(* re-run and of the application is a step of MigrationOutcome: edges are *)
(* only filled from a complete edge of the same tenant or with the system *)
(* defaults, complete edges never change, and an index is only created    *)
(* over a collection it accepts.                                          *)
(***************************************************************************)
Outcome == INSTANCE MigrationOutcome
             WITH collection <- [e \in Present(edges) |-> edges[e]],
                  unique <- indexes \cap UniqueIndexes,
                  Segments <- {0, 1}
MigrationOutcomeSpec == Outcome!Spec

(***************************************************************************)
(* A run left alone does all its steps can do (the header: "Backfills     *)
(* dataDomain on edges lacking full context"; the counts of lines 44-61 and *)
(* 154 decide which steps run): when a non-dry run during which the        *)
(* application inserted nothing returns, no edge is left without a         *)
(* dataDomain, and a tenant-only edge is left only when no complete edge   *)
(* of its tenant could give it a pattern.                                  *)
(***************************************************************************)
QuietRunBackfills ==
  pc = "done" /\ ~dryRun /\ quiet =>
    \A e \in Present(edges) :
      /\ edges[e].dd # NoDD
      /\ TenantOnly(edges[e]) =>
           \A c \in Present(edges) :
             CompleteForPattern(edges[c]) => F(edges[c], "tenant") # F(edges[e], "tenant")


(***************************************************************************)
(* The index window (lines 197-275) is only open to the application: a    *)
(* non-dry run that began with a unique index in force and without the     *)
(* misshapen new index, and during which the application inserted         *)
(* nothing, returns with the unique index on the full DataDomain in place.*)
(* Its own backfill and system fill (lines 122, 162) must therefore never *)
(* write two edges that the new key cannot tell apart, so that            *)
(* createIndex never reaches the DuplicateKey branch of line 268.         *)
(***************************************************************************)
QuietRunCreatesIndex ==
  /\ pc = "done" /\ ~dryRun /\ quiet
  /\ begun \cap UniqueIndexes # {} /\ "newBad" \notin begun
  => "newGood" \in indexes

(***************************************************************************)
(* A non-dry run that reports success leaves the unique index on the full *)
(* DataDomain in place (step 3 of the header: "Creates new                *)
(* uniq_domain_src_p_dst index"; line 234: "Recreating...").              *)
(***************************************************************************)
SuccessImpliesNewIndex ==
  pc = "done" /\ success /\ ~dryRun => "newGood" \in indexes
=============================================================================
