---------------------------- MODULE EngineDocsMC ----------------------------
(***************************************************************************)
(* The shape of workflows/pr-babysitter.yaml: a check, a step conditional  *)
(* on it that is retried until it is told to stop, a notification.         *)
(***************************************************************************)
EXTENDS EngineDocs, TLC

CONSTANTS check, watch, report

MCDependsOn   == check :> {} @@ watch :> {check} @@ report :> {watch}
MCCondition   == check :> Always @@ watch :> check @@ report :> Always
MCOnFailure   == check :> "stop" @@ watch :> "notify" @@ report :> "stop"
MCMaxAttempts == check :> 1 @@ watch :> 3 @@ report :> 1
MCUntil       == check :> Never @@ watch :> watch @@ report :> Never
=============================================================================
