-------------------------- MODULE SchemaMigrations --------------------------
(***************************************************************************)
(* "fider migrate", which every server runs before it starts to serve.     *)
(* Nothing keeps two of them apart: each reads the last version once and   *)
(* then applies the files that come after it, each in a transaction that   *)
(* also writes the history, whose primary key is the version.              *)
(***************************************************************************)
EXTENDS Integers, Sequences, FiniteSets, FiniteSetsExt, Functions

CONSTANTS
  Runner,          \* processes that migrate
  Version          \* all versions

ASSUME VersionAssumption == Version \subseteq Nat \ {0}

VARIABLES
  files,           \* the versions that the image of each process contains
  legacy,          \* the version in schema_migrations, or 0
  history,         \* migrations_history
  schema,          \* whose contents have taken effect, in that order
  runner           \* of each process: where it is, and its last version

migrationVars == <<files, legacy, history, schema, runner>>

\* Releases only add files at the end.
Chained(f) ==
  \A r, s \in Runner : f[r] \subseteq f[s] \/ f[s] \subseteq f[r]
Later(f) ==
  \A r, s \in Runner : \A v \in f[r] \ f[s] : \A w \in f[s] : f[s] \subseteq f[r] => v > w

InOrder(s) == \A i, j \in DOMAIN s : i < j => s[i] < s[j]

\* The schema of a new database, of one from before the history was introduced,
\* and of one that is up to date with some image.
MigrationInit(f, applied, recorded) ==
  /\ files = f
  /\ legacy = IF recorded \/ applied = << >> THEN 0 ELSE applied[Len(applied)]
  /\ history = IF recorded THEN Range(applied) ELSE {}
  /\ schema = applied
  /\ runner = [r \in Runner |-> [pc |-> "idle", last |-> 0]]

migrating(r) == runner[r].pc \notin {"idle", "done", "failed"}
move(r, pc) == runner' = [runner EXCEPT ![r].pc = pc]

\* MAX(version) of the history, or what an older table says.
getLastMigration(r) ==
  /\ runner[r].pc = "idle"
  /\ runner' = [runner EXCEPT ![r] =
       [pc |-> "next", last |-> IF history = {} THEN legacy ELSE Max(history)]]
  /\ UNCHANGED <<files, legacy, history, schema>>

\* The versions of the image that are greater than the last; the least of them
\* comes next, as the files are sorted.
todo(r) == {v \in files[r] : v > runner[r].last}
next(r) == Min(todo(r))

\* Whatever the content does, it does in a transaction; run a second time it
\* fails, or it does not.
ExecContent(r) ==
  /\ runner[r].pc = "next" /\ todo(r) # {}
  /\ move(r, "insert")
  /\ UNCHANGED <<files, legacy, history, schema>>

\* Mutation of InsertHistory: the version is not recorded in its transaction.
InsertNothing(r) ==
  /\ runner[r].pc = "insert"
  /\ move(r, "commit")
  /\ UNCHANGED <<files, legacy, history, schema>>

\* The insert waits for another one of the same key, and fails if it is there.
InsertHistory(r) ==
  /\ runner[r].pc = "insert"
  /\ \A s \in Runner : runner[s].pc = "commit" => next(s) # next(r)
  /\ move(r, IF next(r) \in history THEN "failed" ELSE "commit")
  /\ UNCHANGED <<files, legacy, history, schema>>

\* The answer of a commit may be lost: the process fails, the version is there.
CommitMigration(r) ==
  /\ runner[r].pc = "commit"
  /\ history' = history \cup {next(r)}
  /\ schema' = Append(schema, next(r))
  /\ \/ runner' = [runner EXCEPT ![r] = [pc |-> "next", last |-> next(r)]]
     \/ move(r, "failed")
  /\ UNCHANGED <<files, legacy>>

Migrated(r) ==
  /\ runner[r].pc = "next" /\ todo(r) = {}
  /\ move(r, "done")
  /\ UNCHANGED <<files, legacy, history, schema>>

\* Mutation of MigrationFails: the error is logged, and the loop goes on.
MigrationFailsOn(r) ==
  /\ migrating(r)
  /\ runner' = [runner EXCEPT ![r] =
       [pc |-> "next", last |-> IF todo(r) = {} THEN @.last ELSE next(r)]]
  /\ UNCHANGED <<files, legacy, history, schema>>

\* A statement fails or the process dies; its transaction is rolled back.
MigrationFails(r) ==
  /\ migrating(r)
  /\ move(r, "failed")
  /\ UNCHANGED <<files, legacy, history, schema>>

MigrationNext ==
  \E r \in Runner :
    \/ getLastMigration(r) \/ ExecContent(r) \/ InsertHistory(r) \/ CommitMigration(r)
    \/ Migrated(r) \/ MigrationFails(r)

\* What the statements of an image that has all the files need.
SchemaReady == Version \subseteq Range(schema)
-----------------------------------------------------------------------------
MigrationTypeOK ==
  /\ files \in [Runner -> SUBSET Version] /\ Chained(files) /\ Later(files)
  /\ legacy \in Version \cup {0}
  /\ history \subseteq Version
  /\ schema \in Seq(Version)
  /\ runner \in [Runner -> [pc : {"idle", "next", "insert", "commit", "done", "failed"},
                            last : Version \cup {0}]]

\* Servers of one or of several releases that start together apply every file
\* at most once, and in order, whatever fails and whoever dies (migrate.go:66).
AppliedInOrder == InOrder(schema)

\* A server that goes on to serve finds every file of its image applied.
SuccessMeansApplied == \A r \in Runner : runner[r].pc = "done" => files[r] \subseteq Range(schema)

\* Files are applied at most once, in order, and all of them before a server
\* of their image serves.
MigrationsApplied == AppliedInOrder /\ SuccessMeansApplied
=============================================================================
