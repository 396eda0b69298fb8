---------------------------- MODULE MCSchemaBoot ---------------------------
(* Instances of SchemaBoot for TLC: an api and a worker of the current     *)
(* release and an api of the previous one, which embeds one file less.     *)
EXTENDS SchemaBoot, TLC

CONSTANTS api, worker, oldApi

ThreeProcesses == {api, worker, oldApi}
Rolling        == (api :> 3) @@ (worker :> 3) @@ (oldApi :> 2)
=============================================================================
