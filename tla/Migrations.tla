----------------------------- MODULE Migrations -----------------------------
(***************************************************************************)
(* cmd/migrate up on several machines at once                              *)
(* (internal/migrations/runner.go, register.go, cmd/migrate/main.go): the  *)
(* ids of the table migrations are read once, then each migration of this  *)
(* build that is not among them runs and is recorded, as two statements.   *)
(*                                                                         *)
(* Migrations are numbered in the order of their ids, and each is one      *)
(* multi-statement Exec, so it takes effect as a whole or not at all, and  *)
(* finds its own effect there when it is run again (IF NOT EXISTS, ON      *)
(* CONFLICT).                                                              *)
(***************************************************************************)
EXTENDS Naturals, FiniteSets

CONSTANTS
  Machines,
  LastMigration,   \* how many migrations there are
  MaxRuns          \* bound of the model: runs of cmd/migrate

ASSUME MigrationsAssumption ==
  LastMigration \in Nat \ {0} /\ MaxRuns \in Nat /\ IsFiniteSet(Machines)

VARIABLES
  recorded,   \* the table migrations
  effects,    \* migrations whose effect the schema has
  runner,     \* the process on each machine, if there is one
  runs,       \* how many there have been
  repeated,   \* history: migrations that ran although their effect was there
  excused     \* history: migrations of which somebody could not know that

migrationVars == <<recorded, effects, runner, runs, repeated, excused>>

Ids == 1..LastMigration

\* A process: the migrations of its build, what it has read, the one it is at.
NoRunner == [at |-> "idle", build |-> 0, applied |-> {}, next |-> 1]

MigrationsInit ==
  /\ recorded = {} /\ effects = {}
  /\ runner = [m \in Machines |-> NoRunner] /\ runs = 0
  /\ repeated = {} /\ excused = {}

\* cmd/migrate up, from the build of this machine, after NewRunner has sorted.
StartRunner(m, build) ==
  /\ runs < MaxRuns /\ runs' = runs + 1
  /\ runner[m] = NoRunner
  /\ runner' = [runner EXCEPT ![m] = [NoRunner EXCEPT !.at = "read", !.build = build]]
  /\ UNCHANGED <<recorded, effects, repeated, excused>>

\* appliedSet, after initTable.  An error while the rows come in ends the loop as
\* their end does (nothing asks rows.Err): some ids may be missing.
ReadApplied(m, ids) ==
  /\ runner[m].at = "read"
  /\ ids \subseteq recorded
  /\ runner' = [runner EXCEPT ![m].at = "loop", ![m].applied = ids]
  /\ excused' = excused \cup (recorded \ ids)
  /\ UNCHANGED <<recorded, effects, runs, repeated>>

\* [SKIP], and the end of the loop.
SkipApplied(m) ==
  LET p == runner[m] IN
  /\ p.at = "loop" /\ p.next <= p.build /\ p.next \in p.applied
  /\ runner' = [runner EXCEPT ![m].next = @ + 1]
  /\ UNCHANGED <<recorded, effects, runs, repeated, excused>>

EndLoop(m) ==
  /\ runner[m].at = "loop" /\ runner[m].next > runner[m].build
  /\ runner' = [runner EXCEPT ![m] = NoRunner]
  /\ UNCHANGED <<recorded, effects, runs, repeated, excused>>

\* Others that have the migration in hand, or have read that it is missing.
Beside(m, id) ==
  {q \in Machines \ {m} :
     \/ runner[q].at = "record" /\ runner[q].next = id
     \/ runner[q].at \in {"loop", "record"} /\ id \notin runner[q].applied}

Excuse(m, id) == excused' = IF Beside(m, id) = {} THEN excused ELSE excused \cup {id}

ToRun(p) == p.next <= p.build /\ p.next \notin p.applied

\* m.Up.
RunMigration(m) ==
  LET p == runner[m] IN
  /\ p.at = "loop" /\ ToRun(p)
  /\ effects' = effects \cup {p.next}
  /\ repeated' = IF p.next \in effects THEN repeated \cup {p.next} ELSE repeated
  /\ runner' = [runner EXCEPT ![m].at = "record"]
  /\ Excuse(m, p.next)
  /\ UNCHANGED <<recorded, runs>>

\* INSERT INTO migrations, whose PRIMARY KEY refuses a second record.
RecordMigration(m) ==
  LET p == runner[m] IN
  /\ p.at = "record" /\ p.next \notin recorded
  /\ recorded' = recorded \cup {p.next}
  /\ runner' = [runner EXCEPT ![m].at = "loop", ![m].next = @ + 1]
  /\ Excuse(m, p.next)
  /\ UNCHANGED <<effects, runs, repeated>>

\* Mutant of RecordFails: the error is dropped.
RecordFailsOn(m) ==
  /\ runner[m].at = "record"
  /\ runner' = [runner EXCEPT ![m].at = "loop", ![m].next = @ + 1]
  /\ excused' = excused \cup {runner[m].next}
  /\ UNCHANGED <<recorded, effects, runs, repeated>>

\* The INSERT is refused or fails, or the process stops before it: the effect stays.
RecordFails(m) ==
  /\ runner[m].at = "record"
  /\ runner' = [runner EXCEPT ![m] = NoRunner]
  /\ excused' = excused \cup {runner[m].next}
  /\ UNCHANGED <<recorded, effects, runs, repeated>>

\* The INSERT commits and the process ends, unheard or by then.
RecordUnheard(m) ==
  LET p == runner[m] IN
  /\ p.at = "record" /\ p.next \notin recorded
  /\ recorded' = recorded \cup {p.next}
  /\ runner' = [runner EXCEPT ![m] = NoRunner]
  /\ Excuse(m, p.next)
  /\ UNCHANGED <<effects, runs, repeated>>

\* An error of initTable, of the SELECT or of a migration, or a stop: log.Fatalf.
RunnerFails(m) ==
  /\ runner[m].at \in {"read", "loop"}
  /\ runner' = [runner EXCEPT ![m] = NoRunner]
  /\ UNCHANGED <<recorded, effects, runs, repeated, excused>>

MigrationsNext ==
  \/ \E m \in Machines, build \in Ids : StartRunner(m, build)
  \/ \E m \in Machines, ids \in SUBSET recorded : ReadApplied(m, ids)
  \/ \E m \in Machines :
       \/ SkipApplied(m) \/ RunMigration(m) \/ EndLoop(m)
       \/ RecordMigration(m) \/ RecordFails(m) \/ RecordUnheard(m)
       \/ RunnerFails(m)

MigrationsSpec == MigrationsInit /\ [][MigrationsNext]_migrationVars

-----------------------------------------------------------------------------
(* Properties.                                                             *)

\* Table, schema and processes are well typed.
MigrationsTypeOK ==
  /\ recorded \subseteq Ids /\ effects \subseteq Ids
  /\ runner \in [Machines -> [at : {"idle", "read", "loop", "record"}, build : 0..LastMigration,
                              applied : SUBSET Ids, next : 1..(LastMigration + 1)]]
  /\ runs \in Nat /\ repeated \subseteq Ids /\ excused \subseteq Ids

\* Whatever stops, fails and overlaps, the record is a beginning of the list with
\* no gap, and the schema is where the record says or one migration further
\* (internal/migrations/runner.go:99-133).
RecordFollowsEffect ==
  \E n \in 0..LastMigration :
    recorded = 1..n /\ effects \in {1..n, 1..(n + 1)}

\* A migration runs over its own effect only when a process has ended before it
\* could record it, a second one had read that it is missing, or the read of the
\* ids was cut short (internal/migrations/runner.go:51-71, 105-121).
RepeatsExcused == repeated \subseteq excused

\* Processes that overlap, fail and stop leave a record that the next one can go
\* on from (internal/migrations/runner.go:85-133).
SchemaFollowsRecord == RecordFollowsEffect /\ RepeatsExcused
=============================================================================
