------------------------------ MODULE Compiler ------------------------------
(***************************************************************************)
(* Project compilation in crates/pipeline_manager: the project table       *)
(* (db/mod.rs, db/storage.rs), the API handlers that change it (main.rs)   *)
(* and the compiler task (compiler.rs), which runs the SQL compiler and    *)
(* then cargo as child processes, one project at a time.  Every access to  *)
(* the database is made under one mutex and is one step; between two of    *)
(* them the task holds nothing.                                            *)
(*                                                                         *)
(* A project's code is identified with its version.  built[p] is the       *)
(* version the executable on disk was built from, Unknown if none or not   *)
(* known since the last restart.  Time is in seconds, the granularity of   *)
(* the status_since column.                                                *)
(***************************************************************************)
EXTENDS Integers, FiniteSets

CONSTANTS
    Projects,       \* project ids the database will ever hand out
    Bounds          \* bounds on what a behaviour may contain, one chosen at the start:
                    \*   version    the last version of each project, 0: not created
                    \*   time       the last value of the clock
                    \*   restarts   restarts of the server
                    \*   deletable  the projects that may be deleted
                    \*   configs, config_version, pipelines   see Runner

ASSUME ProjectsAssumption == "none" \notin Projects

ASSUME CompilerAssumption ==
    \A b \in Bounds :
        /\ b.version \in [Projects -> Nat]
        /\ {b.time, b.restarts} \subseteq Nat
        /\ b.deletable \subseteq Projects

VARIABLES
    project,    \* the rows of the project table
    now,        \* the database's clock
    task,       \* the compiler task: its position and its CompilationJob
    built,      \* the executables on disk
    server,     \* whether the server is still booting, and restarts so far
    bounds      \* the bounds of this behaviour, an element of Bounds

compilerVars == <<project, now, task, built, server, bounds>>

Unknown == 0
NoSchema == 0

Absent == [row |-> "new", version |-> 0, status |-> "None", since |-> 0,
           schema |-> NoSchema]

NoJob == [stage |-> "none", p |-> "none", version |-> 0, process |-> "none"]

(* Waiting in select!, with no compilation in progress. *)
NewTask == [pc |-> "select", job |-> NoJob]

is_compiling(status) == status \in {"CompilingSql", "CompilingRust"}

CompilerInit ==
    /\ bounds \in Bounds
    /\ project = [p \in Projects |-> Absent]
    /\ now = 0
    /\ task = NewTask
    /\ built = [p \in Projects |-> Unknown]
    /\ server = [booting |-> TRUE, restarts |-> 0]

Exists(p) == project[p].row = "stored"

Requested(p) ==
    Exists(p) /\ (project[p].status = "Pending" \/ is_compiling(project[p].status))

-----------------------------------------------------------------------------
(* API handlers.  They are served once the server has booted. *)

new_project(p) ==
    /\ ~server.booting
    /\ project[p].row = "new" /\ bounds.version[p] > 0
    /\ project' = [project EXCEPT ![p] = [Absent EXCEPT !.row = "stored", !.version = 1,
                                                        !.since = now]]
    /\ UNCHANGED <<now, task, built, server, bounds>>

(* The code changes; changing only the name leaves all of this alone. *)
update_project(p) ==
    /\ ~server.booting
    /\ Exists(p) /\ project[p].version < bounds.version[p]
    /\ project' = [project EXCEPT ![p].version = @ + 1, ![p].status = "None",
                                  ![p].schema = NoSchema]
    /\ UNCHANGED <<now, task, built, server, bounds>>

(* Ids are never handed out again. *)
delete_project(p) ==
    /\ ~server.booting
    /\ p \in bounds.deletable /\ Exists(p)
    /\ project' = [project EXCEPT ![p].row = "deleted"]
    /\ UNCHANGED <<now, task, built, server, bounds>>

set_project_status(p, status) ==
    project' = [project EXCEPT ![p].status = status, ![p].schema = NoSchema,
                               ![p].since = now]

(* The client passes the current version: any other is refused. *)
set_project_pending(p) ==
    /\ ~server.booting
    /\ Exists(p)
    /\ project[p].status # "Pending" /\ ~is_compiling(project[p].status)
    /\ set_project_status(p, "Pending")
    /\ UNCHANGED <<now, task, built, server, bounds>>

cancel_project(p) ==
    /\ ~server.booting
    /\ Exists(p)
    /\ IF project[p].status # "Pending" \/ ~is_compiling(project[p].status)
       THEN UNCHANGED project
       ELSE set_project_status(p, "None")
    /\ UNCHANGED <<now, task, built, server, bounds>>

-----------------------------------------------------------------------------
(* The compiler task. *)

Guarded_mutant(p, version, status) ==
    [project EXCEPT ![p].status = status, ![p].since = now]

(* set_project_status_guarded: the row after it, if the project exists. *)
Guarded(p, version, status) ==
    IF project[p].version = version
    THEN [project EXCEPT ![p].status = status, ![p].since = now]
    ELSE project

Obsolete_mutant(job) ==
    \/ ~Exists(job.p)
    \/ project[job.p].version # job.version
    \/ project[job.p].status # "CompilingSql"

(* The periodic look at the project of the job: it was deleted, updated or *)
(* its status was changed, so the compiler process is killed.              *)
Obsolete(job) ==
    \/ ~Exists(job.p)
    \/ project[job.p].version # job.version
    \/ ~is_compiling(project[job.p].status)

Poll ==
    /\ task.pc = "select"
    /\ task' = [pc |-> "pick",
                job |-> IF task.job # NoJob /\ Obsolete(task.job) THEN NoJob ELSE task.job]
    /\ UNCHANGED <<project, now, built, server, bounds>>

(* A compiler process ends by itself; a finished cargo build leaves the *)
(* executable of the version it was given.                              *)
ProcessExit(success) ==
    /\ task.job.process = "running"
    /\ task' = [task EXCEPT !.job.process = IF success THEN "ok" ELSE "failed"]
    /\ built' = IF success /\ task.job.stage = "rust"
                THEN [built EXCEPT ![task.job.p] = task.job.version] ELSE built
    /\ UNCHANGED <<project, now, server, bounds>>

(* An unknown project makes set_project_status_guarded fail, and `?` ends  *)
(* the task.                                                               *)
Dies == task' = [pc |-> "dead", job |-> NoJob] /\ UNCHANGED project

SqlDone ==
    /\ task.pc = "select" /\ task.job.stage = "sql" /\ task.job.process = "ok"
    /\ LET p == task.job.p IN
       IF Exists(p)
       THEN /\ project' = [Guarded(p, task.job.version, "CompilingRust") EXCEPT
                             ![p].schema = task.job.version]
            /\ task' = [pc |-> "pick", job |-> [task.job EXCEPT !.stage = "rust",
                                                               !.process = "running"]]
       ELSE Dies
    /\ UNCHANGED <<now, built, server, bounds>>

RustDone ==
    /\ task.pc = "select" /\ task.job.stage = "rust" /\ task.job.process = "ok"
    /\ IF Exists(task.job.p)
       THEN /\ project' = Guarded(task.job.p, task.job.version, "Success")
            /\ task' = [pc |-> "pick", job |-> NoJob]
       ELSE Dies
    /\ UNCHANGED <<now, built, server, bounds>>

JobFailed_mutant ==
    /\ task.pc = "select" /\ task.job.process = "failed"
    /\ task' = [pc |-> "pick", job |-> NoJob]
    /\ UNCHANGED <<project, now, built, server, bounds>>

(* SqlError, RustError and SystemError are told apart by the message only. *)
JobFailed ==
    /\ task.pc = "select" /\ task.job.process = "failed"
    /\ IF Exists(task.job.p)
       THEN /\ project' = Guarded(task.job.p, task.job.version, "Error")
            /\ task' = [pc |-> "pick", job |-> NoJob]
       ELSE Dies
    /\ UNCHANGED <<now, built, server, bounds>>

Pending == {p \in Projects : Exists(p) /\ project[p].status = "Pending"}

Oldest == {p \in Pending : \A q \in Pending : project[p].since <= project[q].since}

(* query_one fails unless there is exactly one row, which is taken for an *)
(* empty queue.                                                           *)
next_job == IF Cardinality(Oldest) = 1 THEN Oldest ELSE {}

Pick ==
    /\ task.pc = "pick"
    /\ task' = IF task.job = NoJob /\ next_job # {}
               THEN LET p == CHOOSE q \in next_job : TRUE
                    IN [pc |-> "mark", job |-> [stage |-> "sql", p |-> p,
                                                version |-> project[p].version,
                                                process |-> "running"]]
               ELSE [task EXCEPT !.pc = "select"]
    /\ UNCHANGED <<project, now, built, server, bounds>>

(* The job runs already when its status is written, under a new lock. *)
MarkCompiling ==
    /\ task.pc = "mark"
    /\ IF Exists(task.job.p)
       THEN /\ project' = Guarded(task.job.p, task.job.version, "CompilingSql")
            /\ task' = [task EXCEPT !.pc = "select"]
       ELSE Dies
    /\ UNCHANGED <<now, built, server, bounds>>

ProcessNoticed == SqlDone \/ RustDone \/ JobFailed

CompilerTask == Poll \/ ProcessNoticed \/ Pick \/ MarkCompiling

-----------------------------------------------------------------------------
(* The server: restarts, and boots with the compiler task already running. *)

Restart ==
    /\ server.restarts < bounds.restarts
    /\ server' = [booting |-> TRUE, restarts |-> server.restarts + 1]
    /\ task' = NewTask
    /\ built' = [p \in Projects |-> Unknown]
    /\ UNCHANGED <<project, now, bounds>>

reset_project_status ==
    /\ server.booting
    /\ server' = [server EXCEPT !.booting = FALSE]
    /\ project' = [p \in Projects |-> [project[p] EXCEPT !.status = "None",
                                                         !.schema = NoSchema]]
    /\ UNCHANGED <<now, task, built, bounds>>

Tick ==
    /\ now < bounds.time
    /\ now' = now + 1
    /\ UNCHANGED <<project, task, built, server, bounds>>

(* What happens in the compiler alone; deleting a project and a restart    *)
(* concern pipelines too.                                                  *)
CompilerStep ==
    \/ \E p \in Projects : \/ new_project(p) \/ update_project(p)
                           \/ set_project_pending(p) \/ cancel_project(p)
    \/ CompilerTask
    \/ \E success \in BOOLEAN : ProcessExit(success)
    \/ reset_project_status \/ Tick

(* The task is scheduled, the server boots, compilers terminate, and a      *)
(* finished process is noticed even though the poll is ready again and      *)
(* again (select! chooses among the ready branches at random).              *)
CompilerFairness ==
    /\ WF_compilerVars(CompilerTask) /\ SF_compilerVars(ProcessNoticed)
    /\ WF_compilerVars(\E success \in BOOLEAN : ProcessExit(success))
    /\ WF_compilerVars(reset_project_status)

-----------------------------------------------------------------------------

(* A project whose status is Success can be run: the executable on disk was *)
(* built, since the last restart, from the current version of its code, and *)
(* no compiler process is about to replace it, however updates, deletions,  *)
(* restarts and the compiler interleave.                                    *)
SuccessMeansBuilt ==
    \A p \in Projects :
        (~server.booting /\ Exists(p) /\ project[p].status = "Success") =>
            built[p] = project[p].version /\ task.job.p # p

(* A project that is shown as compiling is being compiled, in that stage    *)
(* and that version.  Otherwise it would stay so for ever, since            *)
(* set_project_pending ignores projects that are compiling.                 *)
CompilingHasJob ==
    \A p \in Projects :
        LET status == project[p].status
        IN (~server.booting /\ task.pc # "dead" /\ Exists(p) /\ is_compiling(status)) =>
             /\ task.job.p = p /\ task.job.version = project[p].version
             /\ task.job.stage = IF status = "CompilingSql" THEN "sql" ELSE "rust"

(* Every compilation request comes to an end: it succeeds, fails or is made *)
(* obsolete by an update, a deletion or a restart.  Two faults of the code  *)
(* are excepted: the death of the task, when the project it works on is     *)
(* deleted at the wrong moment, and two oldest requests of the same second, *)
(* which next_job takes for an empty queue.                                 *)
RequestsEnd ==
    \A p \in Projects :
        Requested(p) ~> \/ ~Requested(p)
                        \/ task.pc = "dead"
                        \/ Cardinality(Oldest) > 1
=============================================================================
