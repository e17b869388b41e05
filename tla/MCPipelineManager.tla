-------------------------- MODULE MCPipelineManager --------------------------
(* Three instances of the pipeline manager.  In the first two projects       *)
(* compete for the compiler while one of them is updated and deleted; in the *)
(* second pipelines of one project are run while it is recompiled, deleted   *)
(* and the server restarts; in the third it is run twice from one config.  *)
EXTENDS PipelineManager

MCProjects == {"a", "b"}
MCConfigs == {"c1"}

Versions(a, b) == [p \in MCProjects |-> IF p = "a" THEN a ELSE b]

MCBounds ==
    {[version |-> Versions(2, 1), time |-> 2, restarts |-> 1, deletable |-> {"a"},
      configs |-> {}, config_version |-> 0, pipelines |-> 0],
     [version |-> Versions(2, 0), time |-> 0, restarts |-> 1, deletable |-> {"a"},
      configs |-> {"c1"}, config_version |-> 2, pipelines |-> 1],
     [version |-> Versions(1, 0), time |-> 0, restarts |-> 0, deletable |-> {},
      configs |-> {"c1"}, config_version |-> 1, pipelines |-> 2]}
=============================================================================
