------------------------- MODULE MCDispatcherLifecycle -------------------------
(***************************************************************************)
(* Configurations of DispatcherLifecycle for TLC.                          *)
(***************************************************************************)
EXTENDS DispatcherLifecycle

CONSTANTS g1, p1

\* Nothing configured; a module-built dispatcher; one for a module socketPath; an
\* explicit dispatcher, alone and next to a module socketPath.
AllSetups ==
  {[dispatcher |-> None, path |-> NoPath],
   [dispatcher |-> Built, path |-> NoPath],
   [dispatcher |-> Built, path |-> p1],
   [dispatcher |-> g1, path |-> NoPath],
   [dispatcher |-> g1, path |-> p1]}
=============================================================================
