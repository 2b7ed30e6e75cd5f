-------------------------- MODULE MCRequestLifecycle --------------------------
(***************************************************************************)
(* Configurations of RequestLifecycle for TLC.                             *)
(***************************************************************************)
EXTENDS RequestLifecycle

CONSTANTS s1

\* Every way through a dispatched request, for one request alone.
AllDispatched ==
  [entry: {"dispatch"}, signal: Signals \cup {NoSignal},
   token: {"none", "live", "cancelled"}, timeout: BOOLEAN,
   maxRedirects: 0..MaxRedirectCap, stream: BOOLEAN]

\* The early returns as well.
AllEntries ==
  AllDispatched \cup
  [entry: {"refused", "local", "rejected", "throws"},
   signal: Signals \cup {NoSignal}, token: {"none", "live", "cancelled"},
   timeout: BOOLEAN, maxRedirects: {0}, stream: {FALSE}]
=============================================================================
