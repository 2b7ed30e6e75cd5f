---------------------------- MODULE MCResponseBody ----------------------------
(***************************************************************************)
(* Configurations of ResponseBody for TLC. A chunk decompresses to two, so *)
(* a limit of three is crossed by a compressed body of two chunks only.    *)
(***************************************************************************)
EXTENDS ResponseBody

CONSTANT Sizes

\* Limits under and over the size, and none; a meter for progress or for maxRate.
SomeConfs ==
  {c \in [type: {"buffered", "stream"}, encoded: BOOLEAN, corrupt: BOOLEAN,
          limit: {0, 1, 2, 3}, size: Sizes, known: BOOLEAN, progress: BOOLEAN,
          paced: BOOLEAN, cancellable: BOOLEAN] :
     /\ c.corrupt => c.encoded
     /\ c.limit # 0 => IF c.encoded THEN c.limit = 3 ELSE c.limit < 3
     /\ c.type = "buffered" \/ c.encoded => ~c.cancellable
     /\ c.progress => ~c.paced /\ ~c.encoded /\ c.limit = 0
     /\ c.known => c.progress \/ c.paced
     /\ c.known => c.type = "buffered" \/ ~c.encoded}
=============================================================================
