------------------------ MODULE MCOntologyMigration ------------------------
(***************************************************************************)
(* The migration for TLC: three document ids, two (src, p, dst) triples,   *)
(* two tenants, two orgs and one account number besides "system". The      *)
(* initial edges are the shapes the tenant-only scheme leaves behind: no   *)
(* dataDomain, tenant only, tenant and org without account, a dataDomain   *)
(* without tenant, and complete edges, with or without a dataSegment.      *)
(***************************************************************************)
EXTENDS OntologyMigration, TLC

CONSTANTS T1, T2, O1, O2, A1, t1, t2

Tenants == {T1, T2}
Orgs == {O1, O2}
Triples == {t1, t2}
Segs == {0, 1}

DD(t, o, a, s) == [tenant |-> t, org |-> o, acct |-> a, seg |-> s]

Shapes ==
  {NoDD}
  \cup {DD(t, Missing, Missing, s) : t \in Tenants, s \in {Missing, 1}}
  \cup {DD(t, o, Missing, Missing) : t \in Tenants, o \in Orgs}
  \cup {DD(Missing, O1, A1, Missing)}
  \cup {DD(t, o, A1, s) : t \in Tenants, o \in Orgs, s \in {Missing, 1}}
  \cup {DD(SYSTEM, SYSTEM, SYSTEM, 0)}

MCEdgeRecords == [triple : Triples, dd : Shapes]

\* The application inserts tenant-only edges (an instance still on the old
\* scheme) and complete edges.
MCInsertRecords ==
  [triple : Triples, dd : {DD(T1, Missing, Missing, Missing), DD(T1, O2, A1, 1)}]

\* With T2 the tenantId "__proto__": two complete edges of T2 with one
\* pattern, a complete edge of T1 with another, and a tenant-only edge of T1.
MCProtoEdgeRecords ==
  [triple : Triples,
   dd : {DD(T2, O1, A1, Missing), DD(T1, O2, A1, Missing), DD(T1, Missing, Missing, Missing)}]

MCInitIndexes == {{"old"}, {"old", "newBad"}, {"old", "newGood"}}

Symmetry == Permutations(Ids)

\* The state without the history variables quiet and begun, which no action
\* reads: for the runs whose properties do not mention them, two states that
\* differ only in these have the same futures.
StateView == <<edges, indexes, script>>

DataDomains ==
  [tenant : Tenants \cup {SYSTEM, Missing}, org : Orgs \cup {SYSTEM, Missing},
   acct : {A1, SYSTEM, Missing}, seg : Segs \cup {Missing}]

TypeOK ==
  /\ edges \in [Ids -> [triple : Triples, dd : DataDomains \cup {NoDD}] \cup {NotInserted}]
  /\ indexes \subseteq {"old", "newGood", "newBad"}
  /\ pc \in {"idle", "analyze", "patterns", "backfill", "noDomain", "sysFill", "dropOld",
             "checkNew", "createNew", "validate", "done", "aborted", "crashed", "failed"}
  /\ dryRun \in BOOLEAN
  /\ runs \in 0..MaxRuns
  /\ \A t \in DOMAIN defaults :
       defaults[t] \in [org : Orgs \cup {SYSTEM}, acct : {A1, SYSTEM}, seg : Segs]
  /\ pending \subseteq DOMAIN defaults
  /\ seen \subseteq {"old", "newGood", "newBad"}
  /\ success \in BOOLEAN
  /\ quiet \in BOOLEAN
  /\ begun \subseteq {"old", "newGood", "newBad"}
=============================================================================
