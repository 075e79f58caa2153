-------------------------- MODULE MigrationOutcome --------------------------
(***************************************************************************)
(* What the ontology DataDomain migration promises the edges collection   *)
(* (the header of migrate-ontology-datadomain.js: backfill dataDomain on  *)
(* edges lacking full context, drop the old unique index, create the new  *)
(* one), seen from the collection alone. An edge is [triple, dd] as in    *)
(* OntologyMigration. Every change to the collection is one of:           *)
(*   - the application inserts an edge the unique indexes accept;         *)
(*   - some incomplete edges of a tenant take the org and account of a    *)
(*     complete edge of that same tenant;                                 *)
(*   - some edges with no dataDomain take the system dataDomain;          *)
(*   - a unique index is dropped, or created over a collection it accepts.*)
(* Edges are never deleted, and a complete edge never changes.            *)
(***************************************************************************)
EXTENDS Naturals

CONSTANTS Ids, EdgeRecords, InsertRecords, SYSTEM, Missing, NoDD, Segments

VARIABLES collection,  \* the inserted edges: a function from their ids
          unique       \* the unique indexes: a subset of {"old", "newGood"}

Fld(r, f) == IF r.dd = NoDD THEN Missing ELSE r.dd[f]

Complete(r) == \A f \in {"tenant", "org", "acct"} : Fld(r, f) # Missing

\* The key of an edge under the old (tenant) and the new (full) index.
Key(i, r) == IF i = "old" THEN <<Fld(r, "tenant"), r.triple>>
             ELSE <<Fld(r, "org"), Fld(r, "acct"), Fld(r, "tenant"), Fld(r, "seg"), r.triple>>

Accepts(c, idxs) ==
  \A i \in idxs : \A e1, e2 \in DOMAIN c : e1 # e2 => Key(i, c[e1]) # Key(i, c[e2])

Init ==
  /\ \E S \in SUBSET Ids : collection \in [S -> EdgeRecords]
  /\ unique \in SUBSET {"old", "newGood"}
  /\ Accepts(collection, unique)

Insert(e, r) ==
  /\ e \in Ids \ DOMAIN collection
  /\ r \in InsertRecords
  /\ collection' = [x \in DOMAIN collection \cup {e} |-> IF x = e THEN r ELSE collection[x]]
  /\ Accepts(collection', unique)
  /\ UNCHANGED unique

BackfillFrom(src, S) ==
  /\ src \in DOMAIN collection /\ Complete(collection[src])
  /\ S \subseteq {e \in DOMAIN collection :
                    /\ ~Complete(collection[e])
                    /\ Fld(collection[e], "tenant") = Fld(collection[src], "tenant")}
  /\ \E seg \in Segments :
       collection' = [e \in DOMAIN collection |->
                        IF e \in S
                        THEN [collection[e] EXCEPT !.dd.org = Fld(collection[src], "org"),
                                                   !.dd.acct = Fld(collection[src], "acct"),
                                                   !.dd.seg = seg]
                        ELSE collection[e]]
  /\ Accepts(collection', unique)
  /\ UNCHANGED unique

SystemFill(S) ==
  /\ S \subseteq {e \in DOMAIN collection : collection[e].dd = NoDD}
  /\ collection' = [e \in DOMAIN collection |->
                      IF e \in S
                      THEN [collection[e] EXCEPT !.dd = [tenant |-> SYSTEM, org |-> SYSTEM,
                                                         acct |-> SYSTEM, seg |-> 0]]
                      ELSE collection[e]]
  /\ Accepts(collection', unique)
  /\ UNCHANGED unique

DropIndex(i) ==
  /\ i \in unique
  /\ unique' = unique \ {i}
  /\ UNCHANGED collection

CreateIndex ==
  /\ Accepts(collection, unique \cup {"newGood"})
  /\ unique' = unique \cup {"newGood"}
  /\ UNCHANGED collection

Next ==
  \/ \E e \in Ids, r \in InsertRecords : Insert(e, r)
  \/ \E src \in DOMAIN collection, S \in SUBSET DOMAIN collection : BackfillFrom(src, S)
  \/ \E S \in SUBSET DOMAIN collection : SystemFill(S)
  \/ \E i \in unique : DropIndex(i)
  \/ CreateIndex

Spec == Init /\ [][Next]_<<collection, unique>>
=============================================================================
