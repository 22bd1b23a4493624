----------------------------- MODULE IndexOpen -----------------------------
(***************************************************************************)
(* Every command on the index opens its database first (index.go, Open and *)
(* migrate).  The first one creates the schema: several statements in one  *)
(* Exec and no transaction, so that SQLite commits them one by one, and    *)
(* last the version that tells later commands the schema is there.  The    *)
(* process may be killed, and others may open the file, between any two.   *)
(***************************************************************************)
EXTENDS Integers, FiniteSets

CONSTANTS
  Procs,       \* processes that use the index
  Statements   \* CREATE statements of the schema

ASSUME OpenAssumption == Statements \in Nat \ {0}

VARIABLES
  created,     \* the statements carried out so far, in their order
  version,     \* PRAGMA user_version
  pc,          \* pc[p]: where process p stands
  next         \* next[p]: the statement p executes next

file == <<created, version>>

SchemaVersion == 1

OpenTypeOK ==
  /\ created \in 0 .. Statements
  /\ version \in {0, SchemaVersion}
  /\ next \in [Procs -> 1 .. Statements + 1]

OpenInit ==
  /\ created = 0 /\ version = 0
  /\ pc = [p \in Procs |-> "idle"]
  /\ next = [p \in Procs |-> 1]

Go(p, where) == pc' = [pc EXCEPT ![p] = where]

\* A command starts with what the file says of its version.
Open(p, resting) ==
  /\ pc[p] \in resting
  /\ Go(p, IF version = SchemaVersion THEN "open" ELSE "schema")
  /\ next' = [next EXCEPT ![p] = 1]
  /\ UNCHANGED file

\* Statement next[p].  What it creates must not be there.
Create(p) ==
  /\ pc[p] = "schema" /\ next[p] <= Statements
  /\ IF created >= next[p]
     THEN /\ Go(p, "refused")
          /\ UNCHANGED <<created, next>>
     ELSE /\ created' = next[p]
          /\ next' = [next EXCEPT ![p] = @ + 1]
          /\ UNCHANGED pc
  /\ UNCHANGED version

\* Seeded fault: the version is set before the schema.
SetVersionFirst(p) ==
  /\ pc[p] = "schema"
  /\ version' = SchemaVersion
  /\ Go(p, IF next[p] > Statements THEN "open" ELSE "schema")
  /\ UNCHANGED <<created, next>>

SetVersion(p) ==
  /\ pc[p] = "schema" /\ next[p] > Statements
  /\ version' = SchemaVersion
  /\ Go(p, "open")
  /\ UNCHANGED <<created, next>>

migrate(p) == Create(p) \/ SetVersion(p)

\* A database that says it has the schema has all of it, wherever the command
\* that created it was killed and whoever else opened the file meanwhile
\* (index.go:134 sets user_version last).
SchemaWhole == version = SchemaVersion => created = Statements
=============================================================================
