---------------------------- MODULE ManagerProofs ----------------------------
(***************************************************************************)
(* Proofs about PipelineManager, for any number of projects, configs,      *)
(* pipelines, versions and restarts: the safety invariants that the run    *)
(* `manager` checks on small instances.                                    *)
(***************************************************************************)
EXTENDS PipelineManager, TLAPS

-----------------------------------------------------------------------------
(* Types. *)

Statuses == {"None", "Pending", "CompilingSql", "CompilingRust", "Success", "Error"}

ProjectRows == [row : {"new", "stored", "deleted"}, version : Nat, status : Statuses, since : Nat,
                schema : Nat]

Jobs == [stage : {"none", "sql", "rust"}, p : Projects \cup {"none"}, version : Nat,
         process : {"none", "running", "ok", "failed"}]

Tasks == [pc : {"select", "pick", "mark", "dead"}, job : Jobs]

CompilerTypeOK ==
    /\ project \in [Projects -> ProjectRows]
    /\ now \in Nat
    /\ task \in Tasks
    /\ built \in [Projects -> Nat]
    /\ server \in [booting : BOOLEAN, restarts : Nat]

ConfigRows == [row : {"new", "stored", "deleted"}, version : Nat,
               project : Projects \cup {NoProject}, pipeline : Pipelines \cup {NoPipeline}]

PipelineRows == [row : {"new", "stored", "deleted"}, config : Configs \cup {NoConfig},
                 port : BOOLEAN, shutdown : BOOLEAN]

RunnerTypeOK ==
    /\ config \in [Configs -> ConfigRows]
    /\ pipeline \in [Pipelines -> PipelineRows]
    /\ process \in [Pipelines -> {"none", "starting", "up", "stopping", "gone"}]
    /\ logged \subseteq Pipelines
    /\ request \in [Pipelines -> {"none", "waiting", "ok", "failed", "lost"}]
    /\ launched \in [Pipelines -> [version : Nat, code : Nat, image : Nat]]
    /\ early \subseteq Pipelines

-----------------------------------------------------------------------------
(* The compiler alone. *)

(* What the compiler task knows about its job: a finished cargo build left *)
(* the executable of the job's version, every job has a project, and a job *)
(* that is not marked yet is in its first stage.                           *)
JobInv ==
    /\ task.job.stage = "none" <=> task.job.p = "none"
    /\ task.job.stage = "none" <=> task.job.process = "none"
    /\ task.job.stage = "none" => task.job = NoJob
    /\ task.pc = "mark" => task.job.stage = "sql"
    /\ task.job.stage = "rust" /\ task.job.process = "ok" => built[task.job.p] = task.job.version

CompilerInv == CompilerTypeOK /\ JobInv /\ SuccessMeansBuilt /\ CompilingHasJob

LEMMA PendingPicked ==
    ASSUME CompilerTypeOK, next_job # {}
    PROVE  (CHOOSE q \in next_job : TRUE) \in Pending
  <1>1. (CHOOSE q \in next_job : TRUE) \in next_job
    BY Zenon
  <1>. QED  BY Zenon, <1>1 DEF next_job, Oldest

LEMMA CompilerTypeInit == CompilerInit => CompilerInv
  BY ProjectsAssumption DEF CompilerInit, CompilerInv, CompilerTypeOK, JobInv, SuccessMeansBuilt,
     CompilingHasJob, ProjectRows, Statuses, Absent, Tasks, Jobs, NewTask, NoJob, NoSchema,
     Unknown, Exists, is_compiling

LEMMA RowUpdates ==
    ASSUME NEW r \in ProjectRows, NEW n \in Nat, NEW status \in Statuses, NEW t \in Nat
    PROVE  /\ [r EXCEPT !.version = n, !.status = status, !.schema = NoSchema] \in ProjectRows
           /\ [r EXCEPT !.status = status, !.schema = NoSchema, !.since = t] \in ProjectRows
           /\ [r EXCEPT !.status = status, !.schema = NoSchema] \in ProjectRows
           /\ [r EXCEPT !.status = status, !.since = t] \in ProjectRows
           /\ [r EXCEPT !.schema = n] \in ProjectRows
           /\ [r EXCEPT !.row = "deleted"] \in ProjectRows
           /\ r.version + 1 \in Nat
  <1>. USE DEF ProjectRows, NoSchema
  <1>1. [r EXCEPT !.version = n, !.status = status, !.schema = NoSchema] \in ProjectRows
    BY Zenon
  <1>2. [r EXCEPT !.status = status, !.schema = NoSchema, !.since = t] \in ProjectRows
    BY Zenon
  <1>3. [r EXCEPT !.status = status, !.schema = NoSchema] \in ProjectRows
    BY Zenon
  <1>4. [r EXCEPT !.status = status, !.since = t] \in ProjectRows
    BY Zenon
  <1>5. [r EXCEPT !.schema = n] \in ProjectRows
    BY Zenon
  <1>6. [r EXCEPT !.row = "deleted"] \in ProjectRows /\ r.version + 1 \in Nat
    OBVIOUS
  <1>. HIDE DEF ProjectRows
  <1>. QED  BY Zenon, <1>1, <1>2, <1>3, <1>4, <1>5, <1>6

LEMMA JobMade ==
    ASSUME NEW p \in Projects, NEW n \in Nat
    PROVE  [stage |-> "sql", p |-> p, version |-> n, process |-> "running"] \in Jobs
  BY Zenon DEF Jobs

LEMMA JobMoved ==
    ASSUME NEW j \in Jobs
    PROVE  [j EXCEPT !.stage = "rust", !.process = "running"] \in Jobs
  BY Zenon DEF Jobs

LEMMA StatusNames ==
    {"None", "Pending", "CompilingSql", "CompilingRust", "Success", "Error"} \subseteq Statuses
  BY Zenon DEF Statuses

LEMMA GuardedType ==
    ASSUME CompilerTypeOK, NEW p \in Projects, NEW version \in Nat, NEW status \in Statuses
    PROVE  Guarded(p, version, status) \in [Projects -> ProjectRows]
  <1>1. [project[p] EXCEPT !.status = status, !.since = now] \in ProjectRows
    BY Zenon, RowUpdates DEF CompilerTypeOK
  <1>. QED  BY Zenon, <1>1 DEF CompilerTypeOK, Guarded

(* Every step of the compiler keeps the types. *)
LEMMA CompilerTypeStep ==
    ASSUME CompilerInv,
           CompilerStep \/ (\E p \in Projects : delete_project(p)) \/ Restart
    PROVE  CompilerTypeOK'
  <1>. USE DEF CompilerTypeOK, Tasks, Jobs
  <1>1. ASSUME NEW p \in Projects,
               new_project(p) \/ update_project(p) \/ delete_project(p)
               \/ set_project_pending(p) \/ cancel_project(p)
        PROVE  CompilerTypeOK'
    <2>0. project[p] \in ProjectRows /\ now \in Nat
      BY Zenon DEF CompilerInv
    <2>1. CASE new_project(p)
      BY Zenon, <2>1 DEF CompilerInv, new_project, Absent, NoSchema, ProjectRows, Statuses
    <2>2. CASE update_project(p)
      <3>1. [project[p] EXCEPT !.version = project[p].version + 1, !.status = "None",
                               !.schema = NoSchema] \in ProjectRows
        BY Zenon, <2>0, RowUpdates, StatusNames
      <3>. QED  BY Zenon, <2>2, <3>1 DEF CompilerInv, update_project
    <2>3. CASE delete_project(p)
      <3>1. [project[p] EXCEPT !.row = "deleted"] \in ProjectRows
        BY Zenon, <2>0, RowUpdates, StatusNames
      <3>. QED  BY Zenon, <2>3, <3>1 DEF CompilerInv, delete_project
    <2>4. ASSUME NEW status \in {"None", "Pending"}
          PROVE  [project[p] EXCEPT !.status = status, !.schema = NoSchema, !.since = now]
                   \in ProjectRows
      BY Zenon, <2>0, RowUpdates, StatusNames
    <2>5. CASE set_project_pending(p)
      BY Zenon, <2>4, <2>5 DEF CompilerInv, set_project_pending, set_project_status
    <2>6. CASE cancel_project(p)
      BY <2>4, <2>6 DEF CompilerInv, cancel_project, set_project_status
    <2>. QED  BY Zenon, <1>1, <2>1, <2>2, <2>3, <2>5, <2>6
  <1>2. CASE Poll
    BY Zenon, <1>2 DEF CompilerInv, Poll, NoJob
  <1>3. ASSUME NEW success \in BOOLEAN, ProcessExit(success)
        PROVE  CompilerTypeOK'
    <2>1. task' \in Tasks
      <3>1. CASE success
        BY Zenon, <1>3, <3>1 DEF CompilerInv, ProcessExit
      <3>2. CASE ~success
        BY Zenon, <1>3, <3>2 DEF CompilerInv, ProcessExit
      <3>. QED  BY Zenon, <3>1, <3>2
    <2>2. built' \in [Projects -> Nat]
      BY Zenon, <1>3 DEF CompilerInv, ProcessExit
    <2>3. UNCHANGED <<project, now, server>>
      BY Zenon, <1>3 DEF ProcessExit
    <2>. QED  BY Zenon, <2>1, <2>2, <2>3 DEF CompilerInv
  <1>4. CASE SqlDone
    <2>. DEFINE p == task.job.p
    <2>0. task.job.version \in Nat /\ (p \in Projects \/ p = "none")
      BY Zenon DEF CompilerInv
    <2>1. CASE Exists(p)
      <3>1. p \in Projects
        BY Zenon, <1>4 DEF SqlDone, CompilerInv, JobInv
      <3>. DEFINE rows == Guarded(p, task.job.version, "CompilingRust")
      <3>2. rows \in [Projects -> ProjectRows]
        BY Zenon, <2>0, <3>1, GuardedType, StatusNames DEF CompilerInv
      <3>. HIDE DEF rows
      <3>3. [rows[p] EXCEPT !.schema = task.job.version] \in ProjectRows
        BY Zenon, <2>0, <3>1, <3>2, RowUpdates, StatusNames
      <3>4. project' = [rows EXCEPT ![p].schema = task.job.version]
        BY Zenon, <1>4, <2>1 DEF SqlDone, rows
      <3>5. project' \in [Projects -> ProjectRows]
        BY Zenon, <3>1, <3>2, <3>3, <3>4
      <3>. DEFINE job == [task.job EXCEPT !.stage = "rust", !.process = "running"]
      <3>6. job \in Jobs
        BY Zenon, <2>0, <3>1, JobMoved DEF CompilerInv
      <3>8. task' = [pc |-> "pick", job |-> job]
        BY Zenon, <1>4, <2>1 DEF SqlDone
      <3>. HIDE DEF job, Jobs
      <3>9. task' \in Tasks
        BY Zenon, <3>6, <3>8
      <3>7. UNCHANGED <<now, built, server, bounds>>
        BY Zenon, <1>4 DEF SqlDone
      <3>. QED  BY Zenon, <3>5, <3>7, <3>9 DEF CompilerInv
    <2>2. CASE ~Exists(p)
      BY <1>4, <2>2 DEF SqlDone, Dies, CompilerInv, NoJob
    <2>. QED  BY Zenon, <2>1, <2>2
  <1>5. ASSUME NEW status \in Statuses, Exists(task.job.p),
               project' = Guarded(task.job.p, task.job.version, status),
               task.job.stage # "none"
        PROVE  project' \in [Projects -> ProjectRows]
    BY Zenon, <1>5, GuardedType DEF CompilerInv, JobInv
  <1>6. CASE RustDone
    <2>1. CASE Exists(task.job.p)
      BY <1>5, <1>6, <2>1, StatusNames DEF RustDone, CompilerInv, NoJob
    <2>2. CASE ~Exists(task.job.p)
      BY <1>6, <2>2 DEF RustDone, Dies, CompilerInv, NoJob
    <2>. QED  BY Zenon, <2>1, <2>2
  <1>12. CASE JobFailed
    <2>1. CASE Exists(task.job.p)
      BY <1>5, <1>12, <2>1, StatusNames DEF JobFailed, CompilerInv, JobInv, NoJob
    <2>2. CASE ~Exists(task.job.p)
      BY <1>12, <2>2 DEF JobFailed, Dies, CompilerInv, NoJob
    <2>. QED  BY Zenon, <2>1, <2>2
  <1>7. CASE Pick
    <2>1. CASE task.job = NoJob /\ next_job # {}
      <3>. DEFINE p == CHOOSE q \in next_job : TRUE
      <3>1. p \in Projects
        BY Zenon, <2>1, PendingPicked DEF CompilerInv, Pending
      <3>2. task' = [pc |-> "mark", job |-> [stage |-> "sql", p |-> p,
                                             version |-> project[p].version,
                                             process |-> "running"]]
        BY Zenon, <1>7, <2>1 DEF Pick
      <3>. HIDE DEF p
      <3>3. project[p].version \in Nat
        BY Zenon, <3>1 DEF CompilerInv, ProjectRows
      <3>. DEFINE job == [stage |-> "sql", p |-> p, version |-> project[p].version,
                          process |-> "running"]
      <3>6. job \in Jobs
        BY Zenon, <3>1, <3>3, JobMade
      <3>7. task' = [pc |-> "mark", job |-> job]
        BY Zenon, <3>2
      <3>. HIDE DEF job, Jobs
      <3>4. task' \in Tasks
        BY Zenon, <3>6, <3>7
      <3>5. UNCHANGED <<project, now, built, server, bounds>>
        BY Zenon, <1>7 DEF Pick
      <3>. QED  BY Zenon, <3>4, <3>5 DEF CompilerInv
    <2>2. CASE ~(task.job = NoJob /\ next_job # {})
      BY Zenon, <1>7, <2>2 DEF Pick, CompilerInv
    <2>. QED  BY Zenon, <2>1, <2>2
  <1>8. CASE MarkCompiling
    <2>1. CASE Exists(task.job.p)
      BY <1>5, <1>8, <2>1, StatusNames DEF MarkCompiling, CompilerInv, JobInv
    <2>2. CASE ~Exists(task.job.p)
      BY <1>8, <2>2 DEF MarkCompiling, Dies, CompilerInv, NoJob
    <2>. QED  BY Zenon, <2>1, <2>2
  <1>9. CASE Restart
    BY <1>9 DEF CompilerInv, Restart, NewTask, NoJob, Unknown
  <1>10. CASE reset_project_status
    <2>1. \A p \in Projects : [project[p] EXCEPT !.status = "None", !.schema = NoSchema]
                                 \in ProjectRows
      BY Zenon, RowUpdates, StatusNames DEF CompilerInv
    <2>2. project' \in [Projects -> ProjectRows]
      BY Zenon, <1>10, <2>1 DEF reset_project_status
    <2>. QED  BY Zenon, <1>10, <2>2 DEF CompilerInv, reset_project_status
  <1>11. CASE Tick
    BY <1>11 DEF CompilerInv, Tick
  <1>. QED
    BY Zenon, <1>1, <1>2, <1>3, <1>4, <1>6, <1>7, <1>8, <1>9, <1>10, <1>11, <1>12
    DEF CompilerStep, CompilerTask, ProcessNoticed

-----------------------------------------------------------------------------
(* The compiler's invariants. *)

(* A handler changes one project and leaves it neither compiled nor being  *)
(* compiled.                                                               *)
LEMMA OneRow ==
    ASSUME CompilerInv, NEW p \in Projects,
           \A q \in Projects \ {p} : project'[q] = project[q],
           project'[p].status \in {"None", "Pending"} \/ project'[p].row # "stored",
           UNCHANGED <<task, built, server>>
    PROVE  JobInv' /\ SuccessMeansBuilt' /\ CompilingHasJob'
  <1>1. JobInv'
    BY Zenon DEF CompilerInv, JobInv, NoJob
  <1>2. SuccessMeansBuilt'
    BY Zenon DEF CompilerInv, SuccessMeansBuilt, Exists
  <1>3. CompilingHasJob'
    BY DEF CompilerInv, CompilingHasJob, Exists, is_compiling
  <1>. QED  BY Zenon, <1>1, <1>2, <1>3

(* What set_project_status_guarded leaves in each row. *)
LEMMA GuardedRows ==
    ASSUME CompilerTypeOK, NEW p \in Projects, NEW version \in Nat, NEW status \in Statuses,
           NEW q \in Projects
    PROVE  LET new == Guarded(p, version, status)[q]
           IN /\ new.row = project[q].row /\ new.version = project[q].version
              /\ q # p => new.status = project[q].status
              /\ project[p].version = version => Guarded(p, version, status)[p].status = status
              /\ project[p].version # version => new.status = project[q].status
  <1>1. project[q] \in ProjectRows
    BY Zenon DEF CompilerTypeOK
  <1>2. CASE q = p
    BY Zenon, <1>1, <1>2 DEF CompilerTypeOK, Guarded, ProjectRows
  <1>3. CASE q # p
    BY Zenon, <1>1, <1>3 DEF CompilerTypeOK, Guarded, ProjectRows
  <1>. QED  BY Zenon, <1>2, <1>3

(* The task sets the status of its project, unless the project has moved   *)
(* on to another version, and goes on with its job or ends it.             *)
LEMMA StatusSet ==
    ASSUME CompilerInv, task.job.stage # "none", task.pc # "dead", NEW status \in Statuses,
           \A q \in Projects :
               /\ project'[q].row = project[q].row /\ project'[q].version = project[q].version
               /\ q # task.job.p \/ project[q].version # task.job.version =>
                    project'[q].status = project[q].status
               /\ q = task.job.p /\ project[q].version = task.job.version =>
                    project'[q].status = status,
           UNCHANGED <<built, server>>,
           status = "Success" => built[task.job.p] = task.job.version /\ task'.job.p = "none",
           task'.job.p \in {task.job.p, "none"},
           is_compiling(status) =>
               /\ task'.job.p = task.job.p /\ task'.job.version = task.job.version
               /\ task'.job.stage = IF status = "CompilingSql" THEN "sql" ELSE "rust"
    PROVE  SuccessMeansBuilt' /\ CompilingHasJob'
  <1>1. SuccessMeansBuilt'
    <2>. SUFFICES ASSUME NEW q \in Projects, (~server.booting)', Exists(q)',
                         project'[q].status = "Success"
                  PROVE  built'[q] = project'[q].version /\ task'.job.p # q
      BY Zenon DEF SuccessMeansBuilt
    <2>1. CASE q = task.job.p /\ project[q].version = task.job.version
      BY Zenon, <2>1, ProjectsAssumption
    <2>2. CASE ~(q = task.job.p /\ project[q].version = task.job.version)
      <3>1. project[q].status = "Success" /\ Exists(q) /\ ~server.booting
        BY Zenon, <2>2 DEF Exists
      <3>2. built[q] = project[q].version /\ task.job.p # q
        BY Zenon, <3>1 DEF CompilerInv, SuccessMeansBuilt
      <3>. QED  BY Zenon, <3>2, ProjectsAssumption
    <2>. QED  BY Zenon, <2>1, <2>2
  <1>2. CompilingHasJob'
    <2>. SUFFICES ASSUME NEW q \in Projects, (~server.booting)', Exists(q)',
                         is_compiling(project'[q].status)
                  PROVE  /\ task'.job.p = q /\ task'.job.version = project'[q].version
                         /\ task'.job.stage = IF project'[q].status = "CompilingSql"
                                              THEN "sql" ELSE "rust"
      BY Zenon DEF CompilingHasJob
    <2>1. CASE q = task.job.p /\ project[q].version = task.job.version
      BY Zenon, <2>1
    <2>2. CASE ~(q = task.job.p /\ project[q].version = task.job.version)
      <3>1. is_compiling(project[q].status) /\ Exists(q) /\ ~server.booting
        BY Zenon, <2>2 DEF Exists
      <3>2. task.job.p = q /\ task.job.version = project[q].version
        BY Zenon, <3>1 DEF CompilerInv, CompilingHasJob
      <3>. QED  BY Zenon, <2>2, <3>2
    <2>. QED  BY Zenon, <2>1, <2>2
  <1>. QED  BY Zenon, <1>1, <1>2

(* Every step of the compiler, and a restart, keeps the invariant. *)
LEMMA CompilerInvStep ==
    ASSUME CompilerInv,
           CompilerStep \/ (\E p \in Projects : delete_project(p)) \/ Restart
    PROVE  CompilerInv'
  <1>0. CompilerTypeOK'
    BY Zenon, CompilerTypeStep
  <1>. SUFFICES JobInv' /\ SuccessMeansBuilt' /\ CompilingHasJob'
    BY Zenon, <1>0 DEF CompilerInv
  <1>1. ASSUME NEW p \in Projects,
               new_project(p) \/ update_project(p) \/ delete_project(p)
               \/ set_project_pending(p) \/ cancel_project(p)
        PROVE  JobInv' /\ SuccessMeansBuilt' /\ CompilingHasJob'
    <2>0. project[p] \in ProjectRows /\ project \in [Projects -> ProjectRows]
      BY Zenon DEF CompilerInv, CompilerTypeOK
    <2>1. CASE new_project(p)
      BY Zenon, <2>0, <2>1, OneRow DEF new_project, Absent
    <2>2. CASE update_project(p)
      BY Zenon, <2>0, <2>2, OneRow DEF update_project, ProjectRows
    <2>3. CASE delete_project(p)
      BY Zenon, <2>0, <2>3, OneRow DEF delete_project, ProjectRows
    <2>4. CASE set_project_pending(p)
      BY Zenon, <2>0, <2>4, OneRow DEF set_project_pending, set_project_status, ProjectRows
    <2>5. CASE cancel_project(p)
      <3>1. project[p].status # "Pending" \/ ~is_compiling(project[p].status)
        BY Zenon DEF is_compiling
      <3>2. UNCHANGED <<project, task, built, server>>
        BY Zenon, <2>5, <3>1 DEF cancel_project
      <3>. QED
        BY Zenon, <3>2 DEF CompilerInv, JobInv, SuccessMeansBuilt, CompilingHasJob, Exists, NoJob
    <2>. QED  BY Zenon, <1>1, <2>1, <2>2, <2>3, <2>4, <2>5
  <1>2. CASE Poll
    <2>0. UNCHANGED <<project, built, server>> /\ task.pc = "select"
      BY Zenon, <1>2 DEF Poll
    <2>1. task'.pc = "pick" /\ task'.job \in {task.job, NoJob}
      BY Zenon, <1>2 DEF Poll
    <2>2. JobInv'
      BY <2>0, <2>1 DEF CompilerInv, JobInv, NoJob
    <2>3. SuccessMeansBuilt'
      BY <2>0, <2>1, ProjectsAssumption DEF CompilerInv, SuccessMeansBuilt, Exists, NoJob
    <2>4. CompilingHasJob'
      <3>. SUFFICES ASSUME NEW q \in Projects, ~server.booting, Exists(q),
                           is_compiling(project[q].status)
                    PROVE  task'.job = task.job /\ task.pc # "dead"
        BY Zenon, <2>0 DEF CompilerInv, CompilingHasJob, Exists
      <3>1. task.job.p = q /\ task.job.version = project[q].version
        BY Zenon, <2>0 DEF CompilerInv, CompilingHasJob
      <3>2. ~Obsolete(task.job)
        BY Zenon, <3>1 DEF Obsolete
      <3>. QED  BY Zenon, <1>2, <2>0, <3>2 DEF Poll
    <2>. QED  BY Zenon, <2>2, <2>3, <2>4
  <1>3. ASSUME NEW success \in BOOLEAN, ProcessExit(success)
        PROVE  JobInv' /\ SuccessMeansBuilt' /\ CompilingHasJob'
    <2>0. task \in Tasks /\ task.job \in Jobs /\ built \in [Projects -> Nat]
      BY Zenon DEF CompilerInv, CompilerTypeOK, Tasks
    <2>1. /\ UNCHANGED <<project, server>> /\ task'.pc = task.pc
          /\ task'.job.p = task.job.p /\ task'.job.version = task.job.version
          /\ task'.job.stage = task.job.stage /\ task'.job.process \in {"ok", "failed"}
      BY Zenon, <1>3, <2>0 DEF ProcessExit, Tasks, Jobs
    <2>2. task.job.stage # "none" /\ task.job.p \in Projects
      BY Zenon, <1>3, <2>0 DEF ProcessExit, CompilerInv, JobInv, Jobs
    <2>3. \A q \in Projects : q # task.job.p => built'[q] = built[q]
      BY Zenon, <1>3, <2>0 DEF ProcessExit
    <2>4. task'.job.process = "ok" /\ task.job.stage = "rust" =>
              built'[task.job.p] = task.job.version
      <3>1. CASE success
        BY Zenon, <1>3, <2>0, <2>2, <3>1 DEF ProcessExit
      <3>2. CASE ~success
        BY Zenon, <1>3, <2>0, <3>2 DEF ProcessExit, Tasks, Jobs
      <3>. QED  BY Zenon, <3>1, <3>2
    <2>5. JobInv'
      BY Zenon, <2>1, <2>2, <2>4, ProjectsAssumption DEF CompilerInv, JobInv
    <2>6. SuccessMeansBuilt'
      BY Zenon, <2>1, <2>3 DEF CompilerInv, SuccessMeansBuilt, Exists
    <2>7. CompilingHasJob'
      BY Zenon, <2>1 DEF CompilerInv, CompilingHasJob, Exists
    <2>. QED  BY Zenon, <2>5, <2>6, <2>7
  <1>4. ASSUME task.job.stage # "none", Exists(task.job.p), NEW status \in Statuses
        PROVE  LET new == Guarded(task.job.p, task.job.version, status)
               IN \A q \in Projects :
                    /\ new[q].row = project[q].row /\ new[q].version = project[q].version
                    /\ q # task.job.p \/ project[q].version # task.job.version =>
                         new[q].status = project[q].status
                    /\ q = task.job.p /\ project[q].version = task.job.version =>
                         new[q].status = status
    <2>1. task.job.p \in Projects /\ task.job.version \in Nat
      BY Zenon, <1>4 DEF CompilerInv, CompilerTypeOK, JobInv, Tasks, Jobs
    <2>. QED  BY <1>4, <2>1, GuardedRows DEF CompilerInv
  <1>5. ASSUME Dies, task.job.stage # "none", UNCHANGED <<built, server>>
        PROVE  JobInv' /\ SuccessMeansBuilt' /\ CompilingHasJob'
    <2>1. JobInv'
      BY Zenon, <1>5 DEF Dies, JobInv, NoJob
    <2>2. SuccessMeansBuilt'
      BY Zenon, <1>5, ProjectsAssumption DEF Dies, CompilerInv, SuccessMeansBuilt, Exists, NoJob
    <2>3. CompilingHasJob'
      BY Zenon, <1>5 DEF Dies, CompilingHasJob
    <2>. QED  BY Zenon, <2>1, <2>2, <2>3
  <1>6. CASE SqlDone
    <2>0. /\ task.pc = "select" /\ task.job.stage = "sql" /\ UNCHANGED <<built, server>>
          /\ project \in [Projects -> ProjectRows] /\ task \in Tasks /\ task.job \in Jobs
          /\ task.job.p \in Projects /\ task.job.version \in Nat
      BY Zenon, <1>6 DEF SqlDone, CompilerInv, CompilerTypeOK, JobInv, Tasks, Jobs
    <2>1. CASE Exists(task.job.p)
      <3>. DEFINE new == Guarded(task.job.p, task.job.version, "CompilingRust")
      <3>1. new \in [Projects -> ProjectRows]
        BY Zenon, <2>0, GuardedType, StatusNames DEF CompilerInv
      <3>2. /\ project' = [new EXCEPT ![task.job.p].schema = task.job.version]
            /\ task'.pc = "pick"
            /\ task'.job = [task.job EXCEPT !.stage = "rust", !.process = "running"]
        BY <1>6, <2>1 DEF SqlDone
      <3>3. \A q \in Projects :
                /\ new[q].row = project[q].row /\ new[q].version = project[q].version
                /\ q # task.job.p \/ project[q].version # task.job.version =>
                     new[q].status = project[q].status
                /\ q = task.job.p /\ project[q].version = task.job.version =>
                     new[q].status = "CompilingRust"
        BY Zenon, <1>4, <2>0, <2>1, StatusNames
      <3>. HIDE DEF new
      <3>4. \A q \in Projects : /\ project'[q].row = new[q].row
                                /\ project'[q].version = new[q].version
                                /\ project'[q].status = new[q].status
        BY <3>1, <3>2 DEF ProjectRows
      <3>5. /\ task'.job.p = task.job.p /\ task'.job.version = task.job.version
            /\ task'.job.stage = "rust" /\ task'.job.process = "running"
        BY Zenon, <2>0, <3>2 DEF Jobs
      <3>6. JobInv'
        BY Zenon, <2>0, <3>2, <3>5, ProjectsAssumption DEF JobInv
      <3>7. SuccessMeansBuilt' /\ CompilingHasJob'
        BY <2>0, <3>3, <3>4, <3>5, StatusSet, StatusNames DEF is_compiling
      <3>. QED  BY Zenon, <3>6, <3>7
    <2>2. CASE ~Exists(task.job.p)
      BY Zenon, <1>5, <1>6, <2>2 DEF SqlDone
    <2>. QED  BY Zenon, <2>1, <2>2
  <1>7. ASSUME NEW status \in {"Success", "Error"},
               task.job.stage # "none", task.pc = "select", Exists(task.job.p),
               project' = Guarded(task.job.p, task.job.version, status),
               task' = [pc |-> "pick", job |-> NoJob], UNCHANGED <<built, server>>,
               status = "Success" => built[task.job.p] = task.job.version
        PROVE  JobInv' /\ SuccessMeansBuilt' /\ CompilingHasJob'
    <2>1. JobInv'
      BY Zenon, <1>7 DEF JobInv, NoJob
    <2>2. status \in Statuses /\ ~is_compiling(status)
      BY Zenon, <1>7 DEF Statuses, is_compiling
    <2>3. task'.job.p = "none"
      BY Zenon, <1>7 DEF NoJob
    <2>4. SuccessMeansBuilt' /\ CompilingHasJob'
      BY <1>4, <1>7, <2>2, <2>3, StatusSet
    <2>. QED  BY Zenon, <2>1, <2>4
  <1>8. CASE RustDone
    <2>1. CASE Exists(task.job.p)
      BY Zenon, <1>7, <1>8, <2>1 DEF RustDone, CompilerInv, JobInv
    <2>2. CASE ~Exists(task.job.p)
      BY Zenon, <1>5, <1>8, <2>2 DEF RustDone
    <2>. QED  BY Zenon, <2>1, <2>2
  <1>9. CASE JobFailed
    <2>0. task.job.stage # "none"
      BY Zenon, <1>9 DEF JobFailed, CompilerInv, JobInv
    <2>1. CASE Exists(task.job.p)
      BY Zenon, <1>7, <1>9, <2>0, <2>1 DEF JobFailed
    <2>2. CASE ~Exists(task.job.p)
      BY Zenon, <1>5, <1>9, <2>0, <2>2 DEF JobFailed
    <2>. QED  BY Zenon, <2>1, <2>2
  <1>10. CASE Pick
    <2>0. UNCHANGED <<project, built, server>> /\ task.pc = "pick" /\ task \in Tasks
      BY Zenon, <1>10 DEF Pick, CompilerInv, CompilerTypeOK
    <2>1. CASE task.job = NoJob /\ next_job # {}
      <3>. DEFINE p == CHOOSE q \in next_job : TRUE
      <3>1. p \in Projects /\ project[p].status = "Pending"
        BY Zenon, <2>1, PendingPicked DEF CompilerInv, Pending
      <3>2. task' = [pc |-> "mark", job |-> [stage |-> "sql", p |-> p,
                                             version |-> project[p].version,
                                             process |-> "running"]]
        BY Zenon, <1>10, <2>1 DEF Pick
      <3>. HIDE DEF p
      <3>3. JobInv'
        BY Zenon, <3>1, <3>2, ProjectsAssumption DEF JobInv
      <3>4. SuccessMeansBuilt'
        BY Zenon, <2>0, <3>1, <3>2 DEF CompilerInv, SuccessMeansBuilt, Exists
      <3>5. \A q \in Projects : ~server.booting /\ Exists(q) => ~is_compiling(project[q].status)
        BY <2>0, <2>1, ProjectsAssumption DEF CompilerInv, CompilingHasJob, NoJob
      <3>6. CompilingHasJob'
        BY Zenon, <2>0, <3>5 DEF CompilingHasJob, Exists
      <3>. QED  BY Zenon, <3>3, <3>4, <3>6
    <2>2. CASE ~(task.job = NoJob /\ next_job # {})
      <3>1. task'.pc = "select" /\ task'.job = task.job
        BY Zenon, <1>10, <2>0, <2>2 DEF Pick, Tasks
      <3>2. JobInv'
        BY Zenon, <2>0, <3>1 DEF CompilerInv, JobInv, NoJob
      <3>3. SuccessMeansBuilt' /\ CompilingHasJob'
        BY <2>0, <3>1 DEF CompilerInv, SuccessMeansBuilt, CompilingHasJob, Exists
      <3>. QED  BY Zenon, <3>2, <3>3
    <2>. QED  BY Zenon, <2>1, <2>2
  <1>11. CASE MarkCompiling
    <2>0. /\ task.pc = "mark" /\ task.job.stage = "sql" /\ UNCHANGED <<built, server>>
          /\ task \in Tasks
      BY Zenon, <1>11 DEF MarkCompiling, CompilerInv, CompilerTypeOK, JobInv
    <2>1. CASE Exists(task.job.p)
      <3>1. /\ project' = Guarded(task.job.p, task.job.version, "CompilingSql")
            /\ task'.pc = "select" /\ task'.job = task.job
        BY Zenon, <1>11, <2>0, <2>1 DEF MarkCompiling, Tasks
      <3>2. JobInv'
        BY Zenon, <2>0, <3>1 DEF CompilerInv, JobInv, NoJob
      <3>3. SuccessMeansBuilt' /\ CompilingHasJob'
        BY <1>4, <2>0, <2>1, <3>1, StatusSet, StatusNames
      <3>. QED  BY Zenon, <3>2, <3>3
    <2>2. CASE ~Exists(task.job.p)
      BY Zenon, <1>5, <1>11, <2>0, <2>2 DEF MarkCompiling
    <2>. QED  BY Zenon, <2>1, <2>2
  <1>12. CASE Restart
    BY Zenon, <1>12 DEF Restart, NewTask, NoJob, JobInv, SuccessMeansBuilt, CompilingHasJob
  <1>13. CASE reset_project_status
    <2>0. project \in [Projects -> ProjectRows]
      BY Zenon DEF CompilerInv, CompilerTypeOK
    <2>1. \A q \in Projects : project'[q].status = "None"
      BY Zenon, <1>13, <2>0 DEF reset_project_status, ProjectRows
    <2>2. JobInv'
      BY Zenon, <1>13 DEF reset_project_status, CompilerInv, JobInv, NoJob
    <2>3. SuccessMeansBuilt' /\ CompilingHasJob'
      BY Zenon, <2>1 DEF SuccessMeansBuilt, CompilingHasJob, is_compiling
    <2>. QED  BY Zenon, <2>2, <2>3
  <1>14. CASE Tick
    BY Zenon, <1>14 DEF Tick, CompilerInv, JobInv, SuccessMeansBuilt, CompilingHasJob, Exists, NoJob
  <1>. QED
    BY Zenon, <1>1, <1>2, <1>3, <1>6, <1>8, <1>9, <1>10, <1>11, <1>12, <1>13, <1>14
    DEF CompilerStep, CompilerTask, ProcessNoticed

-----------------------------------------------------------------------------
(* The runner. *)

(* The life of a pipeline.  A launch that is being waited for belongs to a *)
(* stored pipeline, and one that was answered has its port stored, unless  *)
(* the pipeline was addressed early.  A port is logged by a process that   *)
(* came up, and a launch that failed leaves no process.                    *)
LaunchInv(i) ==
    /\ pipeline[i].row = "new" => /\ ~pipeline[i].shutdown /\ i \notin logged
                                  /\ process[i] = "none" /\ request[i] = "none"
    /\ request[i] = "waiting" /\ i \notin early => Known(i) /\ ~pipeline[i].shutdown
    /\ request[i] = "ok" /\ i \notin early /\ Known(i) /\ ~pipeline[i].shutdown => pipeline[i].port
    /\ i \in logged => process[i] \in {"up", "stopping", "gone"}
    /\ request[i] = "ok" => i \in logged
    /\ request[i] = "failed" => process[i] \in {"none", "gone"}
    /\ i \notin early /\ request[i] = "ok" /\ (pipeline[i].shutdown \/ ~Known(i)) => ~Alive(i)

(* Configs and pipelines refer to each other. *)
RefersBack(c) ==
    LET i == config[c].pipeline
    IN i # NoPipeline => Known(i) /\ ~pipeline[i].shutdown /\ pipeline[i].config = c

RunnerInv ==
    /\ RunnerTypeOK
    /\ \A i \in Pipelines : LaunchInv(i)
    /\ \A c \in Configs : RefersBack(c)
    /\ RunsDeclaredCode

ManagerInv == CompilerInv /\ RunnerInv

LEMMA RunnerInitInv == RunnerInit => RunnerInv
  BY DEF RunnerInit, RunnerInv, RunnerTypeOK, ConfigRows, PipelineRows, LaunchInv, RefersBack,
     RunsDeclaredCode, Unknown, NoPipeline, NoConfig, NoProject, Known, Alive

LEMMA PipelineRowUpdates ==
    ASSUME NEW r \in PipelineRows, NEW c \in Configs \cup {NoConfig}
    PROVE  /\ [r EXCEPT !.row = "stored", !.config = c] \in PipelineRows
           /\ [r EXCEPT !.config = c] \in PipelineRows
           /\ [r EXCEPT !.port = TRUE] \in PipelineRows
           /\ [r EXCEPT !.row = "deleted"] \in PipelineRows
           /\ [r EXCEPT !.shutdown = TRUE] \in PipelineRows
           /\ [r EXCEPT !.shutdown = TRUE, !.row = "deleted"] \in PipelineRows
  <1>. USE DEF PipelineRows
  <1>1. [r EXCEPT !.row = "stored", !.config = c] \in PipelineRows
    BY Zenon
  <1>2. [r EXCEPT !.config = c] \in PipelineRows /\ [r EXCEPT !.port = TRUE] \in PipelineRows
    BY Zenon
  <1>3. [r EXCEPT !.row = "deleted"] \in PipelineRows
    BY Zenon
  <1>4. [r EXCEPT !.shutdown = TRUE] \in PipelineRows
    BY Zenon
  <1>5. [r EXCEPT !.shutdown = TRUE, !.row = "deleted"] \in PipelineRows
    BY Zenon
  <1>. HIDE DEF PipelineRows
  <1>. QED  BY Zenon, <1>1, <1>2, <1>3, <1>4, <1>5

(* What a step does not touch keeps its invariant. *)
LEMMA PipelineFrame ==
    ASSUME NEW i \in Pipelines, LaunchInv(i),
           pipeline'[i].row = pipeline[i].row, pipeline'[i].port = pipeline[i].port,
           pipeline'[i].shutdown = pipeline[i].shutdown,
           process'[i] = process[i], request'[i] = request[i],
           i \in logged' <=> i \in logged, i \in early' <=> i \in early
    PROVE  LaunchInv(i)'
  BY Zenon DEF LaunchInv, Known, Alive

LEMMA ConfigChanged ==
    ASSUME RunnerInv, NEW c \in Configs, NEW p \in Projects \cup {NoProject},
           new_config(c, p) \/ update_config(c, p)
    PROVE  RunnerInv'
  <1>0. /\ UNCHANGED <<pipeline, process, logged, request, launched, early>>
        /\ config \in [Configs -> ConfigRows]
    BY Zenon DEF new_config, update_config, RunnerInv, RunnerTypeOK
  <1>1. PICK r \in ConfigRows : config' = [config EXCEPT ![c] = r] /\ r.pipeline = config[c].pipeline
    <2>1. CASE new_config(c, p)
      <3>. DEFINE r == [config[c] EXCEPT !.row = "stored", !.version = 1, !.project = p]
      <3>1. r \in ConfigRows /\ r.pipeline = config[c].pipeline
        <4>1. config[c] \in ConfigRows
          BY Zenon, <1>0
        <4>. QED  BY Zenon, <4>1 DEF ConfigRows
      <3>2. config' = [config EXCEPT ![c] = r]
        BY Zenon, <1>0, <2>1 DEF new_config
      <3>. QED  BY Zenon, <3>1, <3>2
    <2>2. CASE update_config(c, p)
      <3>. DEFINE r == [config[c] EXCEPT !.version = @ + 1, !.project = p]
      <3>1. r \in ConfigRows /\ r.pipeline = config[c].pipeline
        <4>1. config[c] \in ConfigRows /\ config[c].version + 1 \in Nat
          BY <1>0 DEF ConfigRows
        <4>. QED  BY Zenon, <4>1 DEF ConfigRows
      <3>2. config' = [config EXCEPT ![c] = r]
        BY Zenon, <1>0, <2>2 DEF update_config
      <3>. QED  BY Zenon, <3>1, <3>2
    <2>. QED  BY Zenon, <2>1, <2>2
  <1>2. config' \in [Configs -> ConfigRows]
    BY Zenon, <1>0, <1>1
  <1>3. \A d \in Configs : config'[d].pipeline = config[d].pipeline
    BY Zenon, <1>0, <1>1
  <1>4. RunnerTypeOK'
    BY Zenon, <1>0, <1>2 DEF RunnerInv, RunnerTypeOK
  <1>5. \A i \in Pipelines : LaunchInv(i)'
    BY Zenon, <1>0, PipelineFrame DEF RunnerInv
  <1>6. \A d \in Configs : RefersBack(d)'
    BY Zenon, <1>0, <1>3 DEF RunnerInv, RefersBack, Known
  <1>7. RunsDeclaredCode'
    BY Zenon, <1>0 DEF RunnerInv, RunsDeclaredCode
  <1>. QED  BY Zenon, <1>4, <1>5, <1>6, <1>7 DEF RunnerInv

LEMMA ConfigsDeleted ==
    ASSUME RunnerInv, NEW cs \in SUBSET Configs, DeleteConfigs(cs)
    PROVE  RunnerInv'
  <1>0. /\ UNCHANGED <<process, logged, request, launched, early>>
        /\ config \in [Configs -> ConfigRows] /\ pipeline \in [Pipelines -> PipelineRows]
    BY Zenon DEF DeleteConfigs, RunnerInv, RunnerTypeOK
  <1>1. /\ config' \in [Configs -> ConfigRows]
        /\ \A c \in Configs : config'[c].pipeline = IF c \in cs THEN NoPipeline
                                                     ELSE config[c].pipeline
    <2>1. [row |-> "deleted", version |-> 0, project |-> NoProject,
           pipeline |-> NoPipeline] \in ConfigRows
      BY Zenon DEF ConfigRows
    <2>. QED  BY Zenon, <1>0, <2>1 DEF DeleteConfigs
  <1>2. ASSUME NEW i \in Pipelines
        PROVE  /\ pipeline'[i] \in PipelineRows /\ pipeline'[i].row = pipeline[i].row
               /\ pipeline'[i].port = pipeline[i].port
               /\ pipeline'[i].shutdown = pipeline[i].shutdown
               /\ pipeline[i].config \notin cs => pipeline'[i].config = pipeline[i].config
    <2>1. PICK d \in Configs \cup {NoConfig} :
              /\ pipeline'[i] = [pipeline[i] EXCEPT !.config = d]
              /\ pipeline[i].config \notin cs => d = pipeline[i].config
      BY Zenon, <1>0 DEF DeleteConfigs, PipelineRows
    <2>2. pipeline[i] \in PipelineRows
      BY Zenon, <1>0
    <2>3. pipeline'[i] \in PipelineRows
      BY Zenon, <2>1, <2>2, PipelineRowUpdates
    <2>. QED  BY Zenon, <2>1, <2>2, <2>3 DEF PipelineRows
  <1>3. pipeline' \in [Pipelines -> PipelineRows]
    BY Zenon, <1>2 DEF DeleteConfigs
  <1>4. RunnerTypeOK'
    BY Zenon, <1>0, <1>1, <1>3 DEF RunnerInv, RunnerTypeOK
  <1>5. \A i \in Pipelines : LaunchInv(i)'
    BY Zenon, <1>0, <1>2, PipelineFrame DEF RunnerInv
  <1>6. ASSUME NEW c \in Configs  PROVE RefersBack(c)'
    <2>1. CASE c \in cs
      BY Zenon, <1>1, <2>1 DEF RefersBack
    <2>2. CASE c \notin cs /\ config[c].pipeline # NoPipeline
      <3>1. config[c].pipeline \in Pipelines
        BY Zenon, <1>0, <2>2 DEF ConfigRows
      <3>. QED  BY <1>1, <1>2, <2>2, <3>1 DEF RunnerInv, RefersBack, Known
    <2>3. CASE c \notin cs /\ config[c].pipeline = NoPipeline
      BY Zenon, <1>1, <2>3 DEF RefersBack
    <2>. QED  BY Zenon, <2>1, <2>2, <2>3
  <1>7. RunsDeclaredCode'
    BY Zenon, <1>0 DEF RunnerInv, RunsDeclaredCode
  <1>. QED  BY Zenon, <1>4, <1>5, <1>6, <1>7 DEF RunnerInv

(* The status Success that run_pipeline looks at vouches for the executable. *)
LEMMA PipelineRun ==
    ASSUME ManagerInv, NEW c \in Configs, NEW i \in Pipelines,
           NEW v, run_pipeline(c, i, v)
    PROVE  RunnerInv'
  <1>0. /\ config \in [Configs -> ConfigRows] /\ pipeline \in [Pipelines -> PipelineRows]
        /\ process \in [Pipelines -> {"none", "starting", "up", "stopping", "gone"}]
        /\ request \in [Pipelines -> {"none", "waiting", "ok", "failed", "lost"}]
        /\ launched \in [Pipelines -> [version : Nat, code : Nat, image : Nat]]
    BY Zenon DEF ManagerInv, RunnerInv, RunnerTypeOK
  <1>1. /\ pipeline[i].row = "new" /\ LaunchInv(i) /\ UNCHANGED <<logged, early>>
        /\ pipeline' = [pipeline EXCEPT ![i].row = "stored", ![i].config = c]
        /\ config' = [config EXCEPT ![c].pipeline = i]
        /\ config[c].project # NoProject /\ Exists(config[c].project) /\ ~server.booting
        /\ project[config[c].project].status = "Success"
    BY Zenon DEF run_pipeline, Runnable, ManagerInv, RunnerInv
  <1>2. /\ pipeline' \in [Pipelines -> PipelineRows]
        /\ pipeline'[i].row = "stored" /\ pipeline'[i].config = c /\ ~pipeline'[i].shutdown
        /\ \A j \in Pipelines \ {i} : pipeline'[j] = pipeline[j]
    <2>0. pipeline[i] \in PipelineRows
      BY Zenon, <1>0
    <2>. DEFINE r == [pipeline[i] EXCEPT !.row = "stored", !.config = c]
    <2>1. r \in PipelineRows
      BY Zenon, <2>0, PipelineRowUpdates
    <2>2. r.row = "stored" /\ r.config = c /\ r.shutdown = pipeline[i].shutdown
      BY Zenon, <2>0 DEF PipelineRows
    <2>3. pipeline' = [pipeline EXCEPT ![i] = r]
      BY Zenon, <1>0, <1>1
    <2>. HIDE DEF r
    <2>4. ~r.shutdown
      BY Zenon, <1>1, <2>2 DEF LaunchInv
    <2>. QED  BY Zenon, <1>0, <2>1, <2>2, <2>3, <2>4
  <1>3. /\ config' \in [Configs -> ConfigRows] /\ config'[c].pipeline = i
        /\ \A d \in Configs \ {c} : config'[d] = config[d]
    <2>1. config[c] \in ConfigRows
      BY Zenon, <1>0
    <2>2. [config[c] EXCEPT !.pipeline = i] \in ConfigRows
      BY Zenon, <2>1 DEF ConfigRows
    <2>. QED  BY Zenon, <1>0, <1>1, <2>2 DEF ConfigRows
  <1>4. config[c].project \in Projects
    BY Zenon, <1>0, <1>1 DEF ConfigRows
  <1>5. /\ built[config[c].project] = project[config[c].project].version
        /\ built[config[c].project] \in Nat
    BY Zenon, <1>1, <1>4 DEF ManagerInv, CompilerInv, SuccessMeansBuilt, CompilerTypeOK
  <1>6. /\ process' \in [Pipelines -> {"none", "starting", "up", "stopping", "gone"}]
        /\ request' \in [Pipelines -> {"none", "waiting", "ok", "failed", "lost"}]
        /\ \A j \in Pipelines \ {i} : process'[j] = process[j] /\ request'[j] = request[j]
        /\ \/ request'[i] = "waiting" /\ process'[i] = "starting"
           \/ request'[i] = "failed" /\ process'[i] = "none"
    <2>1. \/ /\ process' = [process EXCEPT ![i] = "starting"]
             /\ request' = [request EXCEPT ![i] = "waiting"]
          \/ process' = process /\ request' = [request EXCEPT ![i] = "failed"]
      BY Zenon DEF run_pipeline
    <2>2. process[i] = "none"
      BY Zenon, <1>1 DEF LaunchInv
    <2>. QED  BY Zenon, <1>0, <2>1, <2>2
  <1>7. launched' \in [Pipelines -> [version : Nat, code : Nat, image : Nat]] /\ RunsDeclaredCode'
    <2>1. \/ UNCHANGED launched
          \/ launched' = [launched EXCEPT ![i] = [version |-> v,
                                                  code |-> project[config[c].project].version,
                                                  image |-> built[config[c].project]]]
      BY Zenon DEF run_pipeline, Started
    <2>2. RunsDeclaredCode
      BY Zenon DEF ManagerInv, RunnerInv
    <2>3. v \in Nat
      <3>1. v \in 1..config[c].version
        BY Zenon DEF run_pipeline
      <3>2. config[c].version \in Nat
        BY Zenon, <1>0 DEF ConfigRows
      <3>. QED  BY <3>1, <3>2
    <2>. QED  BY <1>0, <1>5, <2>1, <2>2, <2>3 DEF RunsDeclaredCode
  <1>8. RunnerTypeOK'
    BY Zenon, <1>1, <1>2, <1>3, <1>6, <1>7 DEF ManagerInv, RunnerInv, RunnerTypeOK
  <1>9. ASSUME NEW j \in Pipelines  PROVE LaunchInv(j)'
    <2>1. CASE j = i
      BY Zenon, <1>1, <1>2, <1>6, <2>1 DEF LaunchInv, Known, Alive
    <2>2. CASE j # i
      BY Zenon, <1>1, <1>2, <1>6, <2>2, PipelineFrame DEF ManagerInv, RunnerInv
    <2>. QED  BY Zenon, <2>1, <2>2
  <1>10. ASSUME NEW d \in Configs  PROVE RefersBack(d)'
    <2>1. CASE d = c
      BY Zenon, <1>2, <1>3, <2>1 DEF RefersBack, Known
    <2>2. CASE d # c
      <3>1. RefersBack(d) /\ config'[d] = config[d]
        BY Zenon, <1>3, <2>2 DEF ManagerInv, RunnerInv
      <3>2. config[d].pipeline # NoPipeline => config[d].pipeline \in Pipelines \ {i}
        BY Zenon, <1>0, <1>1, <3>1 DEF RefersBack, Known, ConfigRows
      <3>. QED  BY Zenon, <1>2, <3>1, <3>2 DEF RefersBack, Known
    <2>. QED  BY Zenon, <2>1, <2>2
  <1>. QED  BY Zenon, <1>7, <1>8, <1>9, <1>10 DEF RunnerInv

LEMMA ProcessMoves ==
    ASSUME RunnerInv, NEW i \in Pipelines, ProcessUp(i) \/ ProcessDies(i)
    PROVE  RunnerInv'
  <1>0. /\ process \in [Pipelines -> {"none", "starting", "up", "stopping", "gone"}]
        /\ UNCHANGED <<config, pipeline, request, launched, early>> /\ LaunchInv(i)
    BY Zenon DEF RunnerInv, RunnerTypeOK, ProcessUp, ProcessDies
  <1>1. /\ process' \in [Pipelines -> {"none", "starting", "up", "stopping", "gone"}]
        /\ \A j \in Pipelines \ {i} : process'[j] = process[j]
        /\ \A j \in Pipelines \ {i} : j \in logged' <=> j \in logged
        /\ \/ process[i] = "starting" /\ process'[i] = "up" /\ logged' = logged \cup {i}
           \/ process[i] # "none" /\ process'[i] = "gone" /\ logged' = logged
    BY Zenon, <1>0 DEF ProcessUp, ProcessDies
  <1>2. RunnerTypeOK'
    BY Zenon, <1>0, <1>1 DEF RunnerInv, RunnerTypeOK
  <1>3. ASSUME NEW j \in Pipelines  PROVE LaunchInv(j)'
    <2>1. CASE j = i
      BY Zenon, <1>0, <1>1, <2>1 DEF LaunchInv, Known, Alive
    <2>2. CASE j # i
      BY Zenon, <1>0, <1>1, <2>2, PipelineFrame DEF RunnerInv
    <2>. QED  BY Zenon, <2>1, <2>2
  <1>4. \A c \in Configs : RefersBack(c)'
    BY Zenon, <1>0 DEF RunnerInv, RefersBack, Known
  <1>5. RunsDeclaredCode'
    BY Zenon, <1>0 DEF RunnerInv, RunsDeclaredCode
  <1>. QED  BY Zenon, <1>2, <1>3, <1>4, <1>5 DEF RunnerInv

LEMMA StartupSucceeds ==
    ASSUME RunnerInv, NEW i \in Pipelines, StartupOk(i)
    PROVE  RunnerInv'
  <1>0. /\ pipeline \in [Pipelines -> PipelineRows] /\ pipeline[i] \in PipelineRows
        /\ request \in [Pipelines -> {"none", "waiting", "ok", "failed", "lost"}]
        /\ request[i] = "waiting" /\ i \in logged /\ LaunchInv(i)
        /\ request' = [request EXCEPT ![i] = "ok"]
        /\ UNCHANGED <<config, process, logged, launched, early>>
    BY Zenon DEF RunnerInv, RunnerTypeOK, StartupOk
  <1>1. /\ pipeline' \in [Pipelines -> PipelineRows]
        /\ \A j \in Pipelines \ {i} : pipeline'[j] = pipeline[j]
        /\ pipeline'[i].row = pipeline[i].row /\ pipeline'[i].config = pipeline[i].config
        /\ pipeline'[i].shutdown = pipeline[i].shutdown
        /\ Known(i) => pipeline'[i].port
    <2>1. CASE Known(i)
      <3>. DEFINE r == [pipeline[i] EXCEPT !.port = TRUE]
      <3>1. r \in PipelineRows
        BY Zenon, <1>0 DEF PipelineRows
      <3>2. r.row = pipeline[i].row /\ r.config = pipeline[i].config /\ r.port
        BY Zenon, <1>0 DEF PipelineRows
      <3>3. r.shutdown = pipeline[i].shutdown
        BY Zenon, <1>0 DEF PipelineRows
      <3>4. pipeline' = [pipeline EXCEPT ![i] = r]
        BY Zenon, <2>1 DEF StartupOk
      <3>. HIDE DEF r
      <3>. QED  BY Zenon, <1>0, <3>1, <3>2, <3>3, <3>4
    <2>2. CASE ~Known(i)
      BY Zenon, <1>0, <2>2 DEF StartupOk
    <2>. QED  BY Zenon, <2>1, <2>2
  <1>2. RunnerTypeOK'
    BY Zenon, <1>0, <1>1 DEF RunnerInv, RunnerTypeOK
  <1>3. ASSUME NEW j \in Pipelines  PROVE LaunchInv(j)'
    <2>1. CASE j = i
      BY Zenon, <1>0, <1>1, <2>1 DEF LaunchInv, Known, Alive
    <2>2. CASE j # i
      BY Zenon, <1>0, <1>1, <2>2, PipelineFrame DEF RunnerInv
    <2>. QED  BY Zenon, <2>1, <2>2
  <1>4. ASSUME NEW c \in Configs  PROVE RefersBack(c)'
    <2>1. config[c].pipeline # NoPipeline => config[c].pipeline \in Pipelines
      BY Zenon DEF RunnerInv, RunnerTypeOK, ConfigRows
    <2>. QED  BY <1>0, <1>1, <2>1 DEF RunnerInv, RefersBack, Known
  <1>5. RunsDeclaredCode'
    BY Zenon, <1>0 DEF RunnerInv, RunsDeclaredCode
  <1>. QED  BY Zenon, <1>2, <1>3, <1>4, <1>5 DEF RunnerInv

(* A pipeline that no config refers to any more. *)
LEMMA Dereferenced ==
    ASSUME RunnerInv, NEW i \in Pipelines,
           \A c \in Configs : /\ config'[c].pipeline \in {config[c].pipeline, NoPipeline}
                              /\ config'[c].pipeline # i,
           \A j \in Pipelines \ {i} : pipeline'[j] = pipeline[j]
    PROVE  \A c \in Configs : RefersBack(c)'
  <1>. SUFFICES ASSUME NEW c \in Configs, config'[c].pipeline # NoPipeline
                PROVE  RefersBack(c)'
    BY Zenon DEF RefersBack
  <1>1. config'[c].pipeline = config[c].pipeline /\ config[c].pipeline \in Pipelines \ {i}
    BY Zenon DEF RunnerInv, RunnerTypeOK, ConfigRows
  <1>. QED  BY <1>1 DEF RunnerInv, RefersBack, Known

LEMMA StartupFails ==
    ASSUME RunnerInv, NEW i \in Pipelines, StartupError(i)
    PROVE  RunnerInv'
  <1>0. /\ pipeline \in [Pipelines -> PipelineRows] /\ pipeline[i] \in PipelineRows
        /\ request \in [Pipelines -> {"none", "waiting", "ok", "failed", "lost"}]
        /\ process \in [Pipelines -> {"none", "starting", "up", "stopping", "gone"}]
        /\ config \in [Configs -> ConfigRows]
        /\ request' = [request EXCEPT ![i] = "failed"] /\ LaunchInv(i)
        /\ process' = [process EXCEPT ![i] = "gone"]
        /\ UNCHANGED <<logged, launched, early>>
    BY Zenon DEF RunnerInv, RunnerTypeOK, StartupError
  <1>1. /\ pipeline' \in [Pipelines -> PipelineRows] /\ pipeline'[i].row = "deleted"
        /\ \A j \in Pipelines \ {i} : pipeline'[j] = pipeline[j]
    <2>1. [pipeline[i] EXCEPT !.row = "deleted"] \in PipelineRows
      BY Zenon, <1>0 DEF PipelineRows
    <2>2. [pipeline[i] EXCEPT !.row = "deleted"].row = "deleted"
      BY Zenon, <1>0 DEF PipelineRows
    <2>. QED  BY Zenon, <1>0, <2>1, <2>2 DEF StartupError
  <1>2. /\ config' \in [Configs -> ConfigRows]
        /\ \A c \in Configs : /\ config'[c].pipeline \in {config[c].pipeline, NoPipeline}
                               /\ config'[c].pipeline # i
    <2>1. ASSUME NEW c \in Configs
          PROVE  LET n == IF config[c].pipeline = i THEN NoPipeline ELSE config[c].pipeline
                 IN /\ [config[c] EXCEPT !.pipeline = n] \in ConfigRows
                    /\ [config[c] EXCEPT !.pipeline = n].pipeline = n
                    /\ n # i
      <3>1. config[c] \in ConfigRows
        BY Zenon, <1>0
      <3>. QED  BY <3>1 DEF ConfigRows, NoPipeline, Pipelines
    <2>2. config' = [c \in Configs |->
                       [config[c] EXCEPT !.pipeline = IF config[c].pipeline = i THEN NoPipeline
                                                      ELSE config[c].pipeline]]
      BY Zenon DEF StartupError, Unreferenced
    <2>. QED  BY Zenon, <2>1, <2>2
  <1>3. RunnerTypeOK'
    BY Zenon, <1>0, <1>1, <1>2 DEF RunnerInv, RunnerTypeOK
  <1>4. ASSUME NEW j \in Pipelines  PROVE LaunchInv(j)'
    <2>1. CASE j = i
      BY Zenon, <1>0, <1>1, <2>1 DEF LaunchInv, Known, Alive
    <2>2. CASE j # i
      BY Zenon, <1>0, <1>1, <2>2, PipelineFrame DEF RunnerInv
    <2>. QED  BY Zenon, <2>1, <2>2
  <1>5. \A c \in Configs : RefersBack(c)'
    BY Zenon, <1>1, <1>2, Dereferenced
  <1>6. RunsDeclaredCode'
    BY Zenon, <1>0 DEF RunnerInv, RunsDeclaredCode
  <1>. QED  BY Zenon, <1>3, <1>4, <1>5, <1>6 DEF RunnerInv

(* Shutting a pipeline down, and deleting it, stops a process that is      *)
(* reachable; one whose launch was answered is, unless it is gone.         *)
LEMMA PipelineStopped ==
    ASSUME RunnerInv, NEW i \in Pipelines, shutdown_pipeline(i) \/ delete_pipeline(i)
    PROVE  RunnerInv'
  <1>0. /\ pipeline \in [Pipelines -> PipelineRows] /\ pipeline[i] \in PipelineRows
        /\ request \in [Pipelines -> {"none", "waiting", "ok", "failed", "lost"}]
        /\ process \in [Pipelines -> {"none", "starting", "up", "stopping", "gone"}]
        /\ config \in [Configs -> ConfigRows] /\ early \subseteq Pipelines
        /\ Addressed(i) /\ StopProcess(i) /\ LaunchInv(i)
        /\ UNCHANGED <<logged, request, launched>>
    BY Zenon DEF RunnerInv, RunnerTypeOK, shutdown_pipeline, delete_pipeline
  <1>1. /\ Known(i) /\ early' \subseteq Pipelines
        /\ i \in early' <=> (request[i] = "waiting" \/ i \in early)
        /\ \A j \in Pipelines \ {i} : j \in early' <=> j \in early
    BY Zenon, <1>0 DEF Addressed
  <1>2. /\ process' \in [Pipelines -> {"none", "starting", "up", "stopping", "gone"}]
        /\ \A j \in Pipelines \ {i} : process'[j] = process[j]
        /\ process[i] = "up" /\ pipeline[i].port /\ ~pipeline[i].shutdown =>
             process'[i] = "stopping"
        /\ process'[i] \in {process[i], "stopping"}
        /\ process'[i] # process[i] => process[i] = "up"
    BY Zenon, <1>0 DEF StopProcess, Reachable
  <1>3. /\ pipeline' \in [Pipelines -> PipelineRows]
        /\ pipeline'[i].row \in {"stored", "deleted"} /\ pipeline'[i].shutdown
        /\ \A j \in Pipelines \ {i} : pipeline'[j] = pipeline[j]
    <2>1. CASE shutdown_pipeline(i)
      <3>. DEFINE r == [pipeline[i] EXCEPT !.shutdown = TRUE]
      <3>1. r \in PipelineRows
        BY Zenon, <1>0 DEF PipelineRows
      <3>2. r.row = "stored" /\ r.shutdown
        BY Zenon, <1>0, <1>1 DEF PipelineRows, Known
      <3>3. pipeline' = [pipeline EXCEPT ![i] = r]
        BY Zenon, <2>1 DEF shutdown_pipeline
      <3>. HIDE DEF r
      <3>. QED  BY Zenon, <1>0, <3>1, <3>2, <3>3
    <2>2. CASE delete_pipeline(i)
      <3>. DEFINE r == [pipeline[i] EXCEPT !.shutdown = TRUE, !.row = "deleted"]
      <3>1. r \in PipelineRows
        BY Zenon, <1>0 DEF PipelineRows
      <3>2. r.row = "deleted" /\ r.shutdown
        BY Zenon, <1>0, <1>1 DEF PipelineRows, Known
      <3>3. pipeline' = [pipeline EXCEPT ![i] = r]
        BY Zenon, <1>0, <2>2 DEF delete_pipeline
      <3>. HIDE DEF r
      <3>. QED  BY Zenon, <1>0, <3>1, <3>2, <3>3
    <2>. QED  BY Zenon, <2>1, <2>2
  <1>4. ASSUME NEW c \in Configs
        PROVE  /\ RemovedFromConfig(i)[c] \in ConfigRows
               /\ RemovedFromConfig(i)[c].pipeline \in {config[c].pipeline, NoPipeline}
               /\ RemovedFromConfig(i)[c].pipeline # i
    <2>0. config[c] \in ConfigRows /\ RefersBack(c) /\ NoPipeline # i
      BY <1>0 DEF RunnerInv, NoPipeline, Pipelines
    <2>1. CASE c = pipeline[i].config /\ ~pipeline[i].shutdown
      <3>1. RemovedFromConfig(i)[c] = [config[c] EXCEPT !.pipeline = NoPipeline]
        BY Zenon, <2>1 DEF RemovedFromConfig
      <3>. QED  BY Zenon, <2>0, <3>1 DEF ConfigRows
    <2>2. CASE ~(c = pipeline[i].config /\ ~pipeline[i].shutdown)
      <3>1. RemovedFromConfig(i)[c] = config[c]
        BY Zenon, <2>2 DEF RemovedFromConfig
      <3>2. config[c].pipeline # i
        BY Zenon, <2>0, <2>2 DEF RefersBack
      <3>. QED  BY Zenon, <2>0, <3>1, <3>2
    <2>. QED  BY Zenon, <2>1, <2>2
  <1>5. /\ config' \in [Configs -> ConfigRows]
        /\ \A c \in Configs : /\ config'[c].pipeline \in {config[c].pipeline, NoPipeline}
                               /\ config'[c].pipeline # i
    <2>. DEFINE rows == RemovedFromConfig(i)
    <2>1. rows \in [Configs -> ConfigRows]
      BY Zenon, <1>4 DEF RemovedFromConfig
    <2>2. \A c \in Configs : /\ rows[c].pipeline \in {config[c].pipeline, NoPipeline}
                             /\ rows[c].pipeline # i
      BY Zenon, <1>4
    <2>3. CASE shutdown_pipeline(i)
      BY Zenon, <2>1, <2>2, <2>3 DEF shutdown_pipeline
    <2>4. CASE delete_pipeline(i)
      <3>1. config' = [c \in Configs |->
                         [rows[c] EXCEPT !.pipeline = IF rows[c].pipeline = i THEN NoPipeline
                                                      ELSE rows[c].pipeline]]
        BY Zenon, <2>4 DEF delete_pipeline
      <3>. HIDE DEF rows
      <3>2. ASSUME NEW c \in Configs
            PROVE  config'[c] = [rows[c] EXCEPT !.pipeline = rows[c].pipeline]
        BY Zenon, <2>2, <3>1
      <3>3. ASSUME NEW c \in Configs  PROVE config'[c] = rows[c]
        BY Zenon, <2>1, <3>2 DEF ConfigRows
      <3>. QED  BY Zenon, <2>1, <2>2, <3>1, <3>3
    <2>. QED  BY Zenon, <2>3, <2>4
  <1>6. RunnerTypeOK'
    BY Zenon, <1>0, <1>1, <1>2, <1>3, <1>5 DEF RunnerInv, RunnerTypeOK
  <1>7. ASSUME NEW j \in Pipelines  PROVE LaunchInv(j)'
    <2>1. CASE j = i
      BY Zenon, <1>0, <1>1, <1>2, <1>3, <2>1 DEF LaunchInv, Known, Alive
    <2>2. CASE j # i
      BY Zenon, <1>0, <1>1, <1>2, <1>3, <2>2, PipelineFrame DEF RunnerInv
    <2>. QED  BY Zenon, <2>1, <2>2
  <1>8. \A c \in Configs : RefersBack(c)'
    BY Zenon, <1>3, <1>5, Dereferenced
  <1>9. RunsDeclaredCode'
    BY Zenon, <1>0 DEF RunnerInv, RunsDeclaredCode
  <1>. QED  BY Zenon, <1>6, <1>7, <1>8, <1>9 DEF RunnerInv

LEMMA RequestsLost ==
    ASSUME RunnerInv, LoseRequests
    PROVE  RunnerInv'
  <1>0. /\ request \in [Pipelines -> {"none", "waiting", "ok", "failed", "lost"}]
        /\ UNCHANGED <<config, pipeline, process, logged, launched, early>>
    BY Zenon DEF RunnerInv, RunnerTypeOK, LoseRequests
  <1>1. /\ request' \in [Pipelines -> {"none", "waiting", "ok", "failed", "lost"}]
        /\ \A i \in Pipelines : \/ request'[i] = request[i]
                                \/ request[i] = "waiting" /\ request'[i] = "lost"
    <2>1. request' = [i \in Pipelines |-> IF request[i] = "waiting" THEN "lost" ELSE request[i]]
      BY Zenon DEF LoseRequests
    <2>2. \A i \in Pipelines : request[i] \in {"none", "waiting", "ok", "failed", "lost"}
      BY Zenon, <1>0
    <2>. QED  BY Zenon, <2>1, <2>2
  <1>2. RunnerTypeOK'
    BY Zenon, <1>0, <1>1 DEF RunnerInv, RunnerTypeOK
  <1>3. ASSUME NEW i \in Pipelines  PROVE LaunchInv(i)'
    <2>0. LaunchInv(i)
      BY Zenon DEF RunnerInv
    <2>1. CASE request'[i] = request[i]
      BY Zenon, <1>0, <2>0, <2>1, PipelineFrame
    <2>2. CASE request[i] = "waiting" /\ request'[i] = "lost"
      BY Zenon, <1>0, <2>0, <2>2 DEF LaunchInv, Known, Alive
    <2>. QED  BY Zenon, <1>1, <2>1, <2>2
  <1>4. \A c \in Configs : RefersBack(c)'
    BY Zenon, <1>0 DEF RunnerInv, RefersBack, Known
  <1>5. RunsDeclaredCode'
    BY Zenon, <1>0 DEF RunnerInv, RunsDeclaredCode
  <1>. QED  BY Zenon, <1>2, <1>3, <1>4, <1>5 DEF RunnerInv

-----------------------------------------------------------------------------
(* The manager. *)

LEMMA RunnerUnchanged ==
    ASSUME RunnerInv, UNCHANGED runnerVars  PROVE RunnerInv'
  <1>. USE DEF runnerVars
  <1>1. RunnerTypeOK'
    BY Zenon DEF RunnerInv, RunnerTypeOK
  <1>2. \A i \in Pipelines : LaunchInv(i)'
    BY Zenon, PipelineFrame DEF RunnerInv
  <1>3. \A c \in Configs : RefersBack(c)'
    BY Zenon DEF RunnerInv, RefersBack, Known
  <1>4. RunsDeclaredCode'
    BY Zenon DEF RunnerInv, RunsDeclaredCode
  <1>. QED  BY Zenon, <1>1, <1>2, <1>3, <1>4 DEF RunnerInv

LEMMA CompilerUnchanged ==
    ASSUME CompilerInv, UNCHANGED compilerVars  PROVE CompilerInv'
  <1>. USE DEF compilerVars
  <1>1. CompilerTypeOK' /\ JobInv'
    BY Zenon DEF CompilerInv, CompilerTypeOK, JobInv, NoJob
  <1>2. SuccessMeansBuilt' /\ CompilingHasJob'
    BY Zenon DEF CompilerInv, SuccessMeansBuilt, CompilingHasJob, Exists
  <1>. QED  BY Zenon, <1>1, <1>2 DEF CompilerInv

(* ManagerInv is an inductive invariant of the manager. *)
LEMMA ManagerStep == ManagerInv /\ [Next]_vars => ManagerInv'
  <1>. SUFFICES ASSUME ManagerInv, [Next]_vars  PROVE ManagerInv'
    BY Zenon
  <1>0. CompilerInv /\ RunnerInv
    BY Zenon DEF ManagerInv
  <1>1. CASE CompilerStep /\ UNCHANGED runnerVars
    BY Zenon, <1>0, <1>1, CompilerInvStep, RunnerUnchanged DEF ManagerInv
  <1>2. CASE RunnerStep /\ UNCHANGED compilerVars
    <2>1. RunnerInv'
      BY Zenon, <1>0, <1>2, ConfigChanged, ConfigsDeleted, PipelineRun, ProcessMoves, StartupSucceeds,
         StartupFails, PipelineStopped DEF RunnerStep, delete_config
    <2>. QED  BY Zenon, <1>0, <1>2, <2>1, CompilerUnchanged DEF ManagerInv
  <1>3. ASSUME NEW p \in Projects, DeleteProject(p)  PROVE ManagerInv'
    BY Zenon, <1>0, <1>3, CompilerInvStep, ConfigsDeleted DEF DeleteProject, ManagerInv
  <1>4. CASE RestartServer
    BY Zenon, <1>0, <1>4, CompilerInvStep, RequestsLost DEF RestartServer, ManagerInv
  <1>5. CASE UNCHANGED vars
    BY Zenon, <1>0, <1>5, CompilerUnchanged, RunnerUnchanged DEF vars, ManagerInv
  <1>. QED  BY Zenon, <1>1, <1>2, <1>3, <1>4, <1>5 DEF Next

LEMMA ManagerInductive == Spec => []ManagerInv
  <1>1. Init => ManagerInv
    BY Zenon, CompilerTypeInit, RunnerInitInv DEF Init, ManagerInv
  <1>. QED  BY <1>1, ManagerStep, PTL DEF Spec

(* With any number of projects and whatever updates, deletions, clock and  *)
(* restarts do, a project the manager shows as compiled has on disk the    *)
(* executable of its current version, and no compiler is about to replace  *)
(* it (set_project_status_guarded, reset_project_status).                  *)
THEOREM CompiledIsBuilt == Spec => []SuccessMeansBuilt
  <1>1. ManagerInv => SuccessMeansBuilt
    BY Zenon DEF ManagerInv, CompilerInv
  <1>. QED  BY <1>1, ManagerInductive, PTL

(* A project shown as compiling is the one the compiler task works on, in  *)
(* the version and the stage shown, as long as the task lives.             *)
THEOREM CompilingIsCompiled == Spec => []CompilingHasJob
  <1>1. ManagerInv => CompilingHasJob
    BY Zenon DEF ManagerInv, CompilerInv
  <1>. QED  BY <1>1, ManagerInductive, PTL

(* With any number of configs and pipelines, once run_pipeline has answered *)
(* and the pipeline is shut down or deleted, its process is not left alive, *)
(* unless it was addressed before the answer.                               *)
THEOREM NothingOrphaned == Spec => []NoOrphan
  <1>1. ManagerInv => NoOrphan
    <2>. SUFFICES ASSUME ManagerInv, NEW i \in Pipelines \ early, request[i] \in {"ok", "failed"},
                         pipeline[i].shutdown \/ ~Known(i)
                  PROVE  ~Alive(i)
      BY Zenon DEF NoOrphan
    <2>1. LaunchInv(i)
      BY Zenon DEF ManagerInv, RunnerInv
    <2>. QED  BY Zenon, <2>1 DEF LaunchInv, Alive
  <1>. QED  BY <1>1, ManagerInductive, PTL

(* No config ever refers to a pipeline that is shut down or deleted. *)
THEOREM ReferencesLive == Spec => []ConfigRefersToLive
  <1>1. ManagerInv => ConfigRefersToLive
    BY Zenon DEF ManagerInv, RunnerInv, RefersBack, ConfigRefersToLive
  <1>. QED  BY <1>1, ManagerInductive, PTL

(* The compiler and the runner together: run_pipeline looks only at the     *)
(* status of a project, and yet every pipeline is started from an           *)
(* executable that was built from the code in its metadata, whatever        *)
(* version the request wrote next to that code.                             *)
THEOREM DeclaredCodeRuns == Spec => []RunsDeclaredCode
  <1>1. ManagerInv => RunsDeclaredCode
    BY Zenon DEF ManagerInv, RunnerInv
  <1>. QED  BY <1>1, ManagerInductive, PTL

=============================================================================
