--------------------------- MODULE PipelineManager ---------------------------
(***************************************************************************)
(* The pipeline manager (crates/pipeline_manager): the compiler service    *)
(* and the runner over one database and one server process.  They meet     *)
(* where a pipeline is run from what the compiler left on disk, where      *)
(* deleting a project deletes its configs, and where the server restarts.  *)
(***************************************************************************)
EXTENDS Runner

vars == <<compilerVars, runnerVars>>

Init == CompilerInit /\ RunnerInit

(* project_config.project_id REFERENCES project(id) ON DELETE CASCADE. *)
DeleteProject(p) ==
    /\ delete_project(p)
    /\ DeleteConfigs({c \in Configs : config[c].project = p})

RestartServer == Restart /\ LoseRequests

Next ==
    \/ CompilerStep /\ UNCHANGED runnerVars
    \/ RunnerStep /\ UNCHANGED compilerVars
    \/ \E p \in Projects : DeleteProject(p)
    \/ RestartServer

Spec == Init /\ [][Next]_vars

FairSpec == Spec /\ CompilerFairness
=============================================================================
