----------------------------- MODULE Migrations -----------------------------
(***************************************************************************)
(* The managed migrations: the API, the worker and the script all run them *)
(* at their start, on one database and perhaps from different builds, and  *)
(* refuse to start if a file they know was applied with other contents.    *)
(***************************************************************************)
EXTENDS Naturals, Sequences

CONSTANTS
  Unapplied,
  Starters,   \* processes that start
  Builds      \* what a process may be built of: sequences of [version, checksum]

VARIABLES
  migrated,   \* schema_migrations: a function from versions to checksums
  effects,    \* the files whose statements have taken effect, in their order
  starter     \* [at, build, next] of each process

schema == <<migrated, effects, starter>>

Files     == UNION {{b[i] : i \in DOMAIN b} : b \in Builds}
Versions  == {file.version : file \in Files}
Checksums == {file.checksum : file \in Files}

File == [version : Versions, checksum : Checksums]

BuildAssumption == Builds \subseteq Seq(File) /\ Unapplied \notin Checksums

Down == [at |-> "down", build |-> <<>>, next |-> 1]

SchemaInit ==
  /\ migrated = [v \in Versions |-> Unapplied]
  /\ effects = <<>>
  /\ starter = [p \in Starters |-> Down]

Now(p) == starter[p].build[starter[p].next]

StandsAt(p, stage) == starter[p].at = stage

Proceeds(p, stage) == starter' = [starter EXCEPT ![p].at = stage]

Further(x) == [at |-> "look", build |-> x.build, next |-> x.next + 1]

Start(p, build) ==
  /\ StandsAt(p, "down")
  /\ starter' = [starter EXCEPT ![p] = [at |-> "look", build |-> build, next |-> 1]]
  /\ UNCHANGED <<migrated, effects>>

\* The version is looked up before any transaction.
Missing(p) ==
  /\ StandsAt(p, "look")
  /\ starter[p].next <= Len(starter[p].build)
  /\ migrated[Now(p).version] = Unapplied
  /\ Proceeds(p, "apply")
  /\ UNCHANGED <<migrated, effects>>

Present(p) ==
  /\ StandsAt(p, "look")
  /\ starter[p].next <= Len(starter[p].build)
  /\ migrated[Now(p).version] = Now(p).checksum
  /\ starter' = [starter EXCEPT ![p] = Further(starter[p])]
  /\ UNCHANGED <<migrated, effects>>

Mismatch(p) ==
  /\ StandsAt(p, "look")
  /\ starter[p].next <= Len(starter[p].build)
  /\ migrated[Now(p).version] \notin {Unapplied, Now(p).checksum}
  /\ Proceeds(p, "down")
  /\ UNCHANGED <<migrated, effects>>

\* The primary key decides between two that have looked too early.
AlwaysInsertable(version) == TRUE
Insertable(version) == migrated[version] = Unapplied

\* The statements of the file and the row are one transaction ...
Apply(p) ==
  LET file == Now(p)
  IN  /\ StandsAt(p, "apply")
      /\ Insertable(file.version)
      /\ migrated' = [migrated EXCEPT ![file.version] = file.checksum]
      /\ effects' = Append(effects, file)
      /\ starter' = [starter EXCEPT ![p] = Further(starter[p])]

\* ... which is rolled back if the row is there, or a statement fails.
ApplyFails(p) == StandsAt(p, "apply") /\ Proceeds(p, "down") /\ UNCHANGED <<migrated, effects>>

Ready(p) ==
  /\ StandsAt(p, "look")
  /\ starter[p].next > Len(starter[p].build)
  /\ Proceeds(p, "up")
  /\ UNCHANGED <<migrated, effects>>

Stop(p) == ~StandsAt(p, "down") /\ Proceeds(p, "down") /\ UNCHANGED <<migrated, effects>>

SchemaNext ==
  \E p \in Starters :
    \/ \E build \in Builds : Start(p, build)
    \/ Missing(p) \/ Present(p) \/ Mismatch(p)
    \/ Apply(p) \/ ApplyFails(p)
    \/ Ready(p) \/ Stop(p)

SchemaSpec == SchemaInit /\ [][SchemaNext]_schema

-----------------------------------------------------------------------------

\* A file takes effect once, under one of its contents, and is recorded then.
OncePerVersion ==
  /\ \A i, j \in DOMAIN effects : effects[i].version = effects[j].version => i = j
  /\ \A v \in Versions, file \in {effects[i] : i \in DOMAIN effects} :
       file.version = v => migrated[v] = file.checksum
  /\ \A v \in Versions : migrated[v] # Unapplied => \E i \in DOMAIN effects : effects[i].version = v

(* A process that is up runs on the database it was built for: each of its *)
(* files has taken effect once, as it knows it, whoever started with it.   *)
MigrationsSound ==
  /\ OncePerVersion
  /\ \A p \in Starters : StandsAt(p, "up") =>
       \A k \in DOMAIN starter[p].build :
         \E i \in DOMAIN effects : effects[i] = starter[p].build[k]
=============================================================================
