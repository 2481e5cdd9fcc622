----------------------------- MODULE Migrations -----------------------------
(***************************************************************************)
(* The schema migration runner, internal/migrations/runner.go.             *)
(*                                                                         *)
(* Several processes (application instances that migrate at start-up and   *)
(* operators running "conspectus migrate [--repair]") share one database.  *)
(* A process takes the advisory lock on a connection of its own, reads the *)
(* version row and applies the files above it, one statement at a time.    *)
(* Before each statement it bookmarks its place in the settings table, and *)
(* after each file it stamps the version.  Statements and stamps travel on *)
(* the lock's connection; the bookmark and the version read use the        *)
(* connection pool, which outlives that connection.                        *)
(*                                                                         *)
(* One action is one round trip to the database.  A file is known by its   *)
(* version number (migrations.go Load refuses a set that is not 1, 2, 3,   *)
(* ... so checkGapless cannot fail).  MySQL commits every DDL statement.   *)
(***************************************************************************)
EXTENDS Integers, Sequences

CONSTANTS
  Runners,        \* the processes that may migrate
  Tables,         \* the tables the files create
  Features,       \* what a table may have: itself, a column, an index, ...
  Settings,       \* the settings table
  Files,          \* the migration files: a sequence of sequences of statements
  Build,          \* how many of the files the binary of each runner embeds
  Commands,       \* what a runner may be started as: "run", "repair"
  LockModes,      \* whether the server grants GET_LOCK: a subset of BOOLEAN
  StartVersions,  \* the versions the database may have at the outset
  NoRunner,       \* the lock is free
  NoBookmark,     \* the db_migration_state row is absent
  MaxFaults,      \* bound on crashes and failed calls through the pool
  MaxLost         \* bound on connections lost under a running process

(***************************************************************************)
(* Statements: "drop" or "create" a table, add an "index" or a "column" to *)
(* it, or "modify" it (MODIFY, CONVERT).  The schema is the set of         *)
(* <<table, feature>> present.  Feature Table is the table itself;         *)
(* <<Settings, Wide>> says that settings.value can hold a bookmark.        *)
(***************************************************************************)
Table == "table"
Wide == "wide"
Statement == [op : {"drop", "create", "index", "column", "modify"},
              table : Tables, feature : Features]
Objects == Tables \X Features

ASSUME ConstantsAssumption ==
  /\ Files \in Seq(Seq(Statement))
  /\ Build \in [Runners -> 0 .. Len(Files)]
  /\ Commands \subseteq {"run", "repair"}
  /\ LockModes \subseteq BOOLEAN
  /\ StartVersions \subseteq 0 .. Len(Files)
  /\ Settings \in Tables
  /\ {Table, Wide} \subseteq Features
  /\ NoRunner \notin Runners
  /\ NoBookmark \notin [file : 1 .. Len(Files), index : Nat]
  /\ MaxFaults \in Nat /\ MaxLost \in Nat

Versions == 1 .. Len(Files)

\* <<v, j>> is the j-th statement of file v.
Statements == UNION {{v} \X (1 .. Len(Files[v])) : v \in Versions}
At(p) == Files[p[1]][p[2]]

\* The statements of the files below v, and the first k of file v: those that
\* precede statement k + 1 of file v.
Preceding(v, k) == {p \in Statements : p[1] < v \/ (p[1] = v /\ p[2] <= k)}
Through(v) == Preceding(v + 1, 0)

\* Only file 1 drops the settings table (migrations/0001_base.sql).
ASSUME SettingsAssumption ==
  \A p \in Statements : At(p).op = "drop" /\ At(p).table = Settings => p[1] = 1

VARIABLES
  schema,     \* the objects present in the database
  version,    \* the db_version row; 0 when the row or the table is absent
  bookmark,   \* the db_migration_state row: a file and a statement index
  done,       \* history: the statements executed so far
  lockWorks,  \* the server grants GET_LOCK
  lock,       \* who holds conspectus_migrate
  pc,         \* where each runner is
  command,    \* what each was started as
  target,     \* the file each is applying
  index,      \* how many statements of it are behind it (k in applyOne)
  conn,       \* the connection acquireLock returned is alive
  faults,     \* how many crashes and failed calls there have been
  lost        \* how many connections have been lost

db == <<schema, version, bookmark, done>>
runner == <<pc, command, target, index, conn>>
vars == <<db, lockWorks, lock, runner, faults, lost>>

-----------------------------------------------------------------------------
(* What a statement needs, does and answers.                               *)

Drops(s) == s.op = "drop"
Object(s) == <<s.table, s.feature>>

\* The files as migrations/ has them: none is empty; none drops a table that an
\* earlier one has changed; none drops anything any more once one lets the
\* settings hold a bookmark.
Widens(p) == ~Drops(At(p)) /\ Object(At(p)) = <<Settings, Wide>>
SafeFiles ==
  /\ \A v \in Versions : Files[v] # <<>>
  /\ \A p, q \in Statements :
       /\ Drops(At(q)) /\ ~Drops(At(p)) /\ At(q).table = At(p).table => q[1] <= p[1]
       /\ Drops(At(q)) /\ Widens(p) => q[1] < p[1]

\* Mutant: 1061 is not let pass.
ToleratedCreateOnly(s) == s.op = "create" /\ Object(s) \in schema

\* The server answers 1050 or 1061, which isAlreadyApplied lets pass.
Tolerated(s) == s.op \in {"create", "index"} /\ Object(s) \in schema

\* It answers another error: 1060 for a column that is there already, 1146
\* for a table that is not.
Rejected(s) == /\ ~Drops(s)
               /\ ~Tolerated(s)
               /\ \/ s.op # "create" /\ <<s.table, Table>> \notin schema
                  \/ s.op # "modify" /\ Object(s) \in schema

After(s) == IF Drops(s) THEN {o \in schema : o[1] # s.table}
                        ELSE schema \cup {Object(s)}

\* The schema files 1 .. v build on an empty database: what some statement
\* adds and no later one drops.
SchemaAt(v) ==
  {o \in Objects :
     \E p \in Through(v) :
       /\ ~Drops(At(p)) /\ Object(At(p)) = o
       /\ \A q \in Through(v) : Drops(At(q)) /\ At(q).table = o[1]
                                  => q \in Preceding(p[1], p[2])}

Init ==
  /\ version \in StartVersions
  /\ schema = SchemaAt(version)
  /\ done = Through(version)
  /\ bookmark = NoBookmark
  /\ lockWorks \in LockModes
  /\ lock = NoRunner
  /\ pc = [r \in Runners |-> "idle"]
  /\ command = [r \in Runners |-> "run"]
  /\ target = [r \in Runners |-> 0]
  /\ index = [r \in Runners |-> 0]
  /\ conn = [r \in Runners |-> FALSE]
  /\ faults = 0
  /\ lost = 0

Goto(r, l) == pc' = [pc EXCEPT ![r] = l]

\* The function returns: its locals are gone and its connection is closed.
Return(r) ==
  /\ Goto(r, "idle")
  /\ command' = [command EXCEPT ![r] = "run"]
  /\ target' = [target EXCEPT ![r] = 0]
  /\ index' = [index EXCEPT ![r] = 0]
  /\ conn' = [conn EXCEPT ![r] = FALSE]

-----------------------------------------------------------------------------
(* Taking the lock.                                                        *)

\* A process starts Run (at boot, or "migrate") or Repair ("migrate --repair")
\* and takes a connection out of the pool.
Start(r, c) ==
  /\ pc[r] = "idle"
  /\ Goto(r, "locking")
  /\ command' = [command EXCEPT ![r] = c]
  /\ conn' = [conn EXCEPT ![r] = TRUE]
  /\ UNCHANGED <<db, lockWorks, lock, target, index, faults, lost>>

AfterLock(r) == IF command[r] = "run" THEN "readVersion" ELSE "readBookmark"

\* Mutant: GET_LOCK's answer is not looked at.
LockIgnored == TRUE
LockFree == lock = NoRunner

GetLock(r) ==
  /\ pc[r] = "locking" /\ conn[r] /\ lockWorks
  /\ LockFree
  /\ lock' = r
  /\ Goto(r, AfterLock(r))
  /\ UNCHANGED <<db, lockWorks, command, target, index, conn, faults, lost>>

\* GET_LOCK fails: the server prohibits it, or the connection is gone.  The
\* runner carries on without the lock.
LockUnavailable(r) ==
  /\ pc[r] = "locking"
  /\ ~lockWorks \/ ~conn[r]
  /\ Goto(r, AfterLock(r))
  /\ UNCHANGED <<db, lockWorks, lock, command, target, index, conn, faults, lost>>

\* Mutant: past the deadline the runner goes on without the lock.
LockTimeoutProceeds(r) ==
  /\ pc[r] = "locking" /\ conn[r] /\ lockWorks
  /\ ~LockFree
  /\ Goto(r, AfterLock(r))
  /\ UNCHANGED <<db, lockWorks, lock, command, target, index, conn, faults, lost>>

\* Another instance kept the lock past the deadline.
LockTimeout(r) ==
  /\ pc[r] = "locking" /\ conn[r] /\ lockWorks
  /\ ~LockFree
  /\ Return(r)
  /\ UNCHANGED <<db, lockWorks, lock, faults, lost>>

-----------------------------------------------------------------------------
(* Choosing the file.                                                      *)

\* The first file Run applies on a database at version v; none is pending
\* when it exceeds the build (an up-to-date or a newer schema).
FirstPending(v) == v + 1

ReadVersion(r) ==
  /\ pc[r] = "readVersion"
  /\ IF FirstPending(version) > Build[r]
     THEN Goto(r, "release") /\ UNCHANGED target
     ELSE Goto(r, "resume") /\ target' = [target EXCEPT ![r] = FirstPending(version)]
  /\ UNCHANGED <<db, lockWorks, lock, command, index, conn, faults, lost>>

\* Repair applies the file the bookmark names, when its build has it.
ReadBookmark(r) ==
  /\ pc[r] = "readBookmark"
  /\ IF bookmark = NoBookmark
     THEN Goto(r, "release") /\ UNCHANGED target
     ELSE IF bookmark.file > Build[r]
     THEN Goto(r, "release") /\ UNCHANGED target
     ELSE Goto(r, "resume") /\ target' = [target EXCEPT ![r] = bookmark.file]
  /\ UNCHANGED <<db, lockWorks, lock, command, index, conn, faults, lost>>

-----------------------------------------------------------------------------
(* applyOne.                                                               *)

\* Mutant: the bookmarked statement is taken to have been executed.
ResumeIndexSkips(v) ==
  IF bookmark = NoBookmark THEN 0
  ELSE IF bookmark.file = v /\ bookmark.index + 1 < Len(Files[v])
       THEN bookmark.index + 1 ELSE 0

\* Where to begin in file v: at the bookmark if it is about this file and
\* past its first statement.
ResumeIndex(v) ==
  IF bookmark = NoBookmark THEN 0
  ELSE IF bookmark.file = v /\ bookmark.index < Len(Files[v])
       THEN bookmark.index ELSE 0

\* Mutant: one statement too many.
NextStepTooFar(v, k) == IF k <= Len(Files[v]) THEN "bookmark" ELSE "stamp"
NextStep(v, k) == IF k < Len(Files[v]) THEN "bookmark" ELSE "stamp"

BeginAt(r, k) ==
  /\ index' = [index EXCEPT ![r] = k]
  /\ Goto(r, NextStep(target[r], k))
  /\ UNCHANGED <<db, lockWorks, lock, command, target, conn, lost>>

Resume(r) ==
  /\ pc[r] = "resume"
  /\ BeginAt(r, ResumeIndex(target[r]))
  /\ UNCHANGED faults

\* readState takes any failure of the query for "no bookmark".
ResumeBlind(r) ==
  /\ pc[r] = "resume" /\ faults < MaxFaults
  /\ BeginAt(r, 0)
  /\ faults' = faults + 1

\* Until the column is widened the bookmark does not fit, which is not an error.
BookmarkFits == {<<Settings, Table>>, <<Settings, Wide>>} \subseteq schema

\* Mutant: the bookmark points past the statement about to be executed.
PlacePast(r) == [file |-> target[r], index |-> index[r] + 1]
Place(r) == [file |-> target[r], index |-> index[r]]

WriteBookmark(r) ==
  /\ pc[r] = "bookmark"
  /\ bookmark' = IF BookmarkFits THEN Place(r) ELSE bookmark
  /\ Goto(r, "execute")
  /\ UNCHANGED <<schema, version, done, lockWorks, lock, command, target, index,
                 conn, faults, lost>>

Current(r) == <<target[r], index[r] + 1>>

\* Statements and stamps go through the lock's connection.
Reaches(r) == conn[r]

\* Dropping the settings table takes the version and the bookmark with it.
Execute(r) ==
  LET s == At(Current(r)) IN
  /\ pc[r] = "execute" /\ Reaches(r) /\ ~Rejected(s)
  /\ schema' = IF Tolerated(s) THEN schema ELSE After(s)
  /\ IF Drops(s) /\ s.table = Settings
     THEN version' = 0 /\ bookmark' = NoBookmark
     ELSE UNCHANGED <<version, bookmark>>
  /\ done' = done \cup {Current(r)}
  /\ index' = [index EXCEPT ![r] = @ + 1]
  /\ Goto(r, NextStep(target[r], index[r] + 1))
  /\ UNCHANGED <<lockWorks, lock, command, target, conn, faults, lost>>

\* The server refuses the statement, or the connection is gone.
ExecuteFails(r) ==
  /\ pc[r] = "execute"
  /\ ~Reaches(r) \/ Rejected(At(Current(r)))
  /\ Goto(r, "release")
  /\ UNCHANGED <<db, lockWorks, lock, command, target, index, conn, faults, lost>>

\* setVersion, then Run's next file; Repair stops after one.
Stamp(r) ==
  /\ pc[r] = "stamp" /\ Reaches(r) /\ <<Settings, Table>> \in schema
  /\ version' = target[r]
  /\ IF command[r] = "run" /\ target[r] < Build[r]
     THEN Goto(r, "resume") /\ target' = [target EXCEPT ![r] = @ + 1]
     ELSE Goto(r, "clear") /\ UNCHANGED target
  /\ UNCHANGED <<schema, bookmark, done, lockWorks, lock, command, index, conn, faults, lost>>

StampFails(r) ==
  /\ pc[r] = "stamp"
  /\ ~Reaches(r) \/ <<Settings, Table>> \notin schema
  /\ Goto(r, "release")
  /\ UNCHANGED <<db, lockWorks, lock, command, target, index, conn, faults, lost>>

ClearBookmark(r) ==
  /\ pc[r] = "clear"
  /\ bookmark' = NoBookmark
  /\ Goto(r, "release")
  /\ UNCHANGED <<schema, version, done, lockWorks, lock, command, target, index,
                 conn, faults, lost>>

\* clearState only warns of a failure.
ClearFails(r) ==
  /\ pc[r] = "clear" /\ faults < MaxFaults
  /\ Goto(r, "release")
  /\ faults' = faults + 1
  /\ UNCHANGED <<db, lockWorks, lock, command, target, index, conn, lost>>

-----------------------------------------------------------------------------
(* Leaving, with or without success.                                       *)

Unlocked(r) == IF lock = r THEN NoRunner ELSE lock

Release(r) ==
  /\ pc[r] = "release"
  /\ lock' = Unlocked(r)
  /\ Return(r)
  /\ UNCHANGED <<db, lockWorks, faults, lost>>

\* The process dies, or a call through the pool fails and it gives up: the
\* server drops the connection and with it the lock.
Crash(r) ==
  /\ pc[r] # "idle" /\ faults < MaxFaults
  /\ faults' = faults + 1
  /\ lock' = Unlocked(r)
  /\ Return(r)
  /\ UNCHANGED <<db, lockWorks, lost>>

\* The connection alone is lost, between two statements.  The server frees
\* the lock; the runner does not know.
LoseConnection(r) ==
  /\ pc[r] # "idle" /\ conn[r] /\ lost < MaxLost
  /\ lost' = lost + 1
  /\ lock' = Unlocked(r)
  /\ conn' = [conn EXCEPT ![r] = FALSE]
  /\ UNCHANGED <<db, lockWorks, pc, command, target, index, faults>>

Step(r) ==
  \/ GetLock(r) \/ LockUnavailable(r) \/ LockTimeout(r)
  \/ ReadVersion(r) \/ ReadBookmark(r)
  \/ Resume(r) \/ WriteBookmark(r) \/ Execute(r) \/ ExecuteFails(r)
  \/ Stamp(r) \/ StampFails(r) \/ ClearBookmark(r) \/ Release(r)

Fault(r) == ResumeBlind(r) \/ ClearFails(r) \/ Crash(r) \/ LoseConnection(r)

Next == \E r \in Runners : Step(r) \/ Fault(r) \/ \E c \in Commands : Start(r, c)

Spec == Init /\ [][Next]_vars

\* A process that is running keeps running; the server grants the lock to
\* every waiter in turn; a failed process is started again (by its service
\* manager, or by an operator).
Fairness ==
  \A r \in Runners :
    /\ WF_vars(Step(r))
    /\ SF_vars(GetLock(r))
    /\ \A c \in Commands : SF_vars(Start(r, c))

FairSpec == Spec /\ Fairness

-----------------------------------------------------------------------------
(* Properties.                                                             *)

\* Every variable has its type; index counts statements of the target file.
TypeOK ==
  /\ schema \subseteq Objects
  /\ version \in 0 .. Len(Files)
  /\ bookmark \in {NoBookmark} \cup [file : Versions, index : Nat]
  /\ done \subseteq Statements
  /\ lockWorks \in BOOLEAN
  /\ lock \in Runners \cup {NoRunner}
  /\ pc \in [Runners -> {"idle", "locking", "readVersion", "readBookmark", "resume",
                          "bookmark", "execute", "stamp", "clear", "release"}]
  /\ command \in [Runners -> {"run", "repair"}]
  /\ target \in [Runners -> 0 .. Len(Files)]
  /\ index \in [Runners -> Nat]
  /\ conn \in [Runners -> BOOLEAN]
  /\ faults \in 0 .. MaxFaults /\ lost \in 0 .. MaxLost
  /\ \A r \in Runners :
       /\ pc[r] = "readBookmark" => command[r] = "repair"
       /\ pc[r] \in {"resume", "bookmark", "execute", "stamp"} => target[r] \in 1 .. Build[r]
       /\ pc[r] \in {"bookmark", "execute"} => index[r] < Len(Files[target[r]])

\* A stamped version means that every statement of every file up to it has
\* been executed, and a bookmark that every statement before it has: no crash,
\* lost connection, resume or repair skips a statement, with or without the
\* lock (applyOne bookmarks before the statement and stamps after the file).
NothingSkipped ==
  /\ Through(version) \subseteq done
  /\ bookmark # NoBookmark => Preceding(bookmark.file, bookmark.index) \subseteq done

\* A statement is first executed only when all that precede it, in its file and
\* in the files before, have been.
InOrder == [][\A p \in done' \ done : Preceding(p[1], p[2] - 1) \subseteq done]_done

\* With the lock, a run that can still reach the database through its lock's
\* connection is applying the file right above the version row: the version
\* it read under the lock is not stale, whoever else started, timed out,
\* crashed or lost its connection meanwhile.
FreshPlan ==
  lockWorks => \A r \in Runners :
    /\ command[r] = "run" /\ conn[r]
    /\ pc[r] \in {"resume", "bookmark", "execute", "stamp"}
    => target[r] = version + 1

\* With the lock, everything the stamped files build is in the database: no
\* late or repeated statement drops what a stamped file created.
SchemaMatchesVersion == lockWorks => SchemaAt(version) \subseteq schema

\* With the lock, the version row never goes back: not after a repair from a
\* bookmark a stale runner left, nor when an older build migrates a database a
\* newer one has upgraded (runner.go:118).
VersionOnlyAdvances == [][lockWorks => version' >= version]_version

\* With the lock, and started again after each fault, the processes bring the
\* database to the newest version and leave it there (docs/quickstart.md:73).
EventuallyMigrated == <>[](lockWorks => version = Len(Files))

\* The processes end up migrated, and never leave the schema and its version
\* apart on the way, also when a connection and its lock are lost.
EndsMigrated == []SchemaMatchesVersion /\ EventuallyMigrated
=============================================================================
