------------------------- MODULE MCInterceptorPipeline -------------------------
(***************************************************************************)
(* Configurations of InterceptorPipeline for TLC.                          *)
(***************************************************************************)
EXTENDS InterceptorPipeline

\* Interceptors for both outcomes, under a condition, and for one of them.
SomeHandlers ==
  {[fulfilled |-> TRUE, rejected |-> TRUE, runWhen |-> TRUE],
   [fulfilled |-> TRUE, rejected |-> FALSE, runWhen |-> FALSE],
   [fulfilled |-> FALSE, rejected |-> TRUE, runWhen |-> FALSE]}
=============================================================================
