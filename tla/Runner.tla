------------------------------- MODULE Runner -------------------------------
(***************************************************************************)
(* The pipeline runner of crates/pipeline_manager (runner.rs) and the      *)
(* tables it keeps (db/mod.rs): launching the executable of a project,     *)
(* waiting for its start-up outside the database lock, shutting it down    *)
(* over HTTP and deleting it, while configs come and go.  Every handler    *)
(* runs under the database mutex except while run_pipeline waits.          *)
(***************************************************************************)
EXTENDS Compiler

CONSTANTS
    Configs,        \* config ids
    MaxPipelines    \* bound: pipeline ids handed out

ASSUME RunnerAssumption ==
    /\ MaxPipelines \in Nat
    /\ "NULL" \notin Configs \cup Projects
    /\ \A b \in Bounds : /\ b.configs \subseteq Configs /\ b.pipelines \in 0..MaxPipelines
                          /\ b.config_version \in Nat

Pipelines == 1..MaxPipelines
NoPipeline == 0
NoConfig == "NULL"
NoProject == "NULL"

VARIABLES
    config,     \* project_config rows
    pipeline,   \* pipeline rows
    process,    \* the operating system's processes
    logged,     \* pipelines whose log shows the port number
    request,    \* the run_pipeline request that created each pipeline
    launched,   \* for each pipeline the version and the code in its metadata
                \* file and the code its executable was built from; code is
                \* named by the version of the project that it is the code of
    early       \* history: pipelines shut down or deleted during their launch

runnerVars == <<config, pipeline, process, logged, request, launched, early>>

RunnerInit ==
    /\ config = [c \in Configs |-> [row |-> "new", version |-> 0, project |-> NoProject,
                                    pipeline |-> NoPipeline]]
    /\ pipeline = [i \in Pipelines |-> [row |-> "new", config |-> NoConfig,
                                        port |-> FALSE, shutdown |-> FALSE]]
    /\ process = [i \in Pipelines |-> "none"]
    /\ logged = {}
    /\ request = [i \in Pipelines |-> "none"]
    /\ launched = [i \in Pipelines |-> [version |-> 0, code |-> Unknown, image |-> Unknown]]
    /\ early = {}

Alive(i) == process[i] \in {"starting", "up"}
Known(i) == pipeline[i].row = "stored"

-----------------------------------------------------------------------------
(* API handlers of configs; a config's project, if any, must exist. *)

References == {NoProject} \cup {p \in Projects : Exists(p)}

new_config(c, p) ==
    /\ ~server.booting
    /\ c \in bounds.configs /\ config[c].row = "new"
    /\ p \in References
    /\ config' = [config EXCEPT ![c].row = "stored", ![c].version = 1, ![c].project = p]
    /\ UNCHANGED <<pipeline, process, logged, request, launched, early>>

update_config(c, p) ==
    /\ ~server.booting
    /\ config[c].row = "stored" /\ config[c].version < bounds.config_version
    /\ p \in References
    /\ config' = [config EXCEPT ![c].version = @ + 1, ![c].project = p]
    /\ UNCHANGED <<pipeline, process, logged, request, launched, early>>

(* Configs deleted, by themselves or with their project: pipelines keep    *)
(* running with config_id NULL.                                            *)
DeleteConfigs(cs) ==
    /\ config' = [c \in Configs |->
                    IF c \in cs THEN [row |-> "deleted", version |-> 0, project |-> NoProject,
                                      pipeline |-> NoPipeline]
                               ELSE config[c]]
    /\ pipeline' = [i \in Pipelines |->
                      [pipeline[i] EXCEPT !.config = IF @ \in cs THEN NoConfig ELSE @]]
    /\ UNCHANGED <<process, logged, request, launched, early>>

delete_config(c) ==
    /\ ~server.booting
    /\ config[c].row = "stored"
    /\ DeleteConfigs({c})

-----------------------------------------------------------------------------

Runnable_mutant(c) == config[c].project # NoProject /\ Exists(config[c].project)

(* The config has a project and the project has been compiled. *)
Runnable(c) ==
    /\ config[c].project # NoProject
    /\ Exists(config[c].project)
    /\ project[config[c].project].status = "Success"

(* What start leaves behind: metadata with the code of the project and,    *)
(* for a version, the config_version of the request, and a process of the  *)
(* executable that is in the project's directory.                          *)
Started(p, config_version) ==
    [version |-> config_version, code |-> project[p].version, image |-> built[p]]

(* run_pipeline up to the point where it releases the lock: the row, the   *)
(* config's reference to it, the metadata file and the process.            *)
(* config_version is the "latest config version known to the client";      *)
(* nobody compares it with that of the config or of the project.  If the   *)
(* executable cannot be spawned the request fails and the row stays.       *)
run_pipeline(c, i, config_version) ==
    /\ ~server.booting
    /\ i <= bounds.pipelines
    /\ pipeline[i].row = "new" /\ \A j \in 1..(i - 1) : pipeline[j].row # "new"
    /\ config[c].row = "stored" /\ Runnable(c)
    /\ config_version \in 1..config[c].version
    /\ pipeline' = [pipeline EXCEPT ![i].row = "stored", ![i].config = c]
    /\ config' = [config EXCEPT ![c].pipeline = i]
    /\ \/ /\ process' = [process EXCEPT ![i] = "starting"]
          /\ request' = [request EXCEPT ![i] = "waiting"]
          /\ launched' = [launched EXCEPT ![i] = Started(config[c].project, config_version)]
       \/ /\ request' = [request EXCEPT ![i] = "failed"]
          /\ UNCHANGED <<process, launched>>
    /\ UNCHANGED <<logged, early>>

(* The process logs its port, or fails, or crashes later. *)
ProcessUp(i) ==
    /\ process[i] = "starting"
    /\ process' = [process EXCEPT ![i] = "up"]
    /\ logged' = logged \cup {i}
    /\ UNCHANGED <<config, pipeline, request, launched, early>>

ProcessDies(i) ==
    /\ process[i] \in {"starting", "up", "stopping"}
    /\ process' = [process EXCEPT ![i] = "gone"]
    /\ UNCHANGED <<config, pipeline, logged, request, launched, early>>

(* wait_for_startup found the port; a missing row is not an error. *)
StartupOk(i) ==
    /\ request[i] = "waiting" /\ i \in logged
    /\ pipeline' = IF Known(i) THEN [pipeline EXCEPT ![i].port = TRUE] ELSE pipeline
    /\ request' = [request EXCEPT ![i] = "ok"]
    /\ UNCHANGED <<config, process, logged, launched, early>>

(* pipeline_id REFERENCES pipeline(id) ON DELETE SET NULL. *)
Unreferenced(i) ==
    [c \in Configs |-> [config[c] EXCEPT !.pipeline = IF @ = i THEN NoPipeline ELSE @]]

(* A mutant: the row is deleted and the process left alone. *)
StartupError_mutant(i) ==
    /\ request[i] = "waiting"
    /\ pipeline' = [pipeline EXCEPT ![i].row = "deleted"]
    /\ config' = Unreferenced(i)
    /\ request' = [request EXCEPT ![i] = "failed"]
    /\ UNCHANGED <<process, logged, launched, early>>

(* wait_for_startup found an error or timed out (the port may have been    *)
(* logged after the last look): the process is killed, the row deleted.    *)
StartupError(i) ==
    /\ request[i] = "waiting"
    /\ process' = [process EXCEPT ![i] = "gone"]
    /\ pipeline' = [pipeline EXCEPT ![i].row = "deleted"]
    /\ config' = Unreferenced(i)
    /\ request' = [request EXCEPT ![i] = "failed"]
    /\ UNCHANGED <<logged, launched, early>>

Addressed(i) ==
    /\ ~server.booting
    /\ Known(i)
    /\ early' = IF request[i] = "waiting" THEN early \cup {i} ELSE early

Reachable(i) == pipeline[i].port /\ process[i] = "up"

(* do_shutdown_pipeline: the pipeline is asked to stop and ends later; one *)
(* that cannot be reached counts as already shut down.  (A pipeline that   *)
(* answers with an error leaves everything as it is.)                      *)
StopProcess(i) ==
    process' = IF ~pipeline[i].shutdown /\ Reachable(i)
               THEN [process EXCEPT ![i] = "stopping"] ELSE process

(* A mutant: the config keeps its reference. *)
RemovedFromConfig_mutant(i) == config

RemovedFromConfig(i) ==
    [c \in Configs |->
        IF c = pipeline[i].config /\ ~pipeline[i].shutdown
        THEN [config[c] EXCEPT !.pipeline = NoPipeline] ELSE config[c]]

shutdown_pipeline(i) ==
    /\ Addressed(i)
    /\ StopProcess(i)
    /\ config' = RemovedFromConfig(i)
    /\ pipeline' = [pipeline EXCEPT ![i].shutdown = TRUE]
    /\ UNCHANGED <<logged, request, launched>>

(* delete_pipeline: do_shutdown_pipeline, then the row. *)
delete_pipeline(i) ==
    /\ Addressed(i)
    /\ StopProcess(i)
    /\ config' = [c \in Configs |->
                    [RemovedFromConfig(i)[c] EXCEPT !.pipeline = IF @ = i THEN NoPipeline ELSE @]]
    /\ pipeline' = [pipeline EXCEPT ![i].shutdown = TRUE, ![i].row = "deleted"]
    /\ UNCHANGED <<logged, request, launched>>

(* A restart of the server loses the requests that wait for a start-up;    *)
(* pipelines, which are processes of their own, go on.                     *)
LoseRequests ==
    /\ request' = [i \in Pipelines |-> IF request[i] = "waiting" THEN "lost" ELSE request[i]]
    /\ UNCHANGED <<config, pipeline, process, logged, launched, early>>

RunnerStep ==
    \/ \E c \in Configs : \/ delete_config(c)
                          \/ \E p \in Projects \cup {NoProject} :
                               new_config(c, p) \/ update_config(c, p)
                          \/ \E i \in Pipelines : \E v \in 1..bounds.config_version :
                               run_pipeline(c, i, v)
    \/ \E i \in Pipelines :
         \/ ProcessUp(i) \/ ProcessDies(i) \/ StartupOk(i) \/ StartupError(i)
         \/ shutdown_pipeline(i) \/ delete_pipeline(i)

-----------------------------------------------------------------------------

(* "Shut down the pipeline if it is still running and delete it from the    *)
(* database" (pipeline_delete): once the request that launched a pipeline   *)
(* has returned and the pipeline is shut down or deleted, no process of it  *)
(* is left running, where nobody could reach it any more.  Pipelines that   *)
(* were shut down or deleted before their launch was answered, and launches *)
(* lost in a restart, are excepted: without a port a pipeline counts as     *)
(* unreachable, and its process goes on.                                    *)
NoOrphan ==
    \A i \in Pipelines \ early :
        (request[i] \in {"ok", "failed"} /\ (pipeline[i].shutdown \/ ~Known(i))) => ~Alive(i)

(* A config never refers to a pipeline that is shut down or deleted, in     *)
(* whatever order launches, failures, shutdowns and deletions come.         *)
ConfigRefersToLive ==
    \A c \in Configs :
        LET i == config[c].pipeline
        IN i # NoPipeline => Known(i) /\ ~pipeline[i].shutdown

(* A pipeline runs the code that its metadata shows (PipelineMetadata::code, *)
(* "Project code"): the executable that run_pipeline starts was built from   *)
(* the code that it saves, although it looks only at the status of the       *)
(* project and compilations, updates and restarts go on around it.  The      *)
(* metadata's version, documented as "Project version", is excepted: it is   *)
(* that of the config, as the client knows it.                               *)
RunsDeclaredCode ==
    \A i \in Pipelines : launched[i].image = launched[i].code
=============================================================================
