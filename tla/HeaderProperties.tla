--------------------------- MODULE HeaderProperties ---------------------------
(***************************************************************************)
(* The calls of the AxiosHeaders of axios, after which the class here is   *)
(* made: headers are ordinary properties of an object, under the name each *)
(* was first set with. set() and delete() find them whatever the case of   *)
(* the name asked for, brackets only under that very name. Each call is    *)
(* said of an object that has one property per header, in no order. Lists  *)
(* are values like any other.                                              *)
(***************************************************************************)
EXTENDS Naturals, SequencesExt

CONSTANTS
  Objects, Key(_), Titled(_),
  Undefined,  \* no value at all, which a property may have
  Off,        \* null and false
  False

VARIABLES
  props,   \* headers object -> its properties, records of a name and a value
  plain,   \* an object literal, as the sequence of its properties
  answer   \* what the last call returned, TRUE if nothing in particular

Find(P, name) == {p \in P : Key(p.name) = Key(name)}

\* Whether set() gives property p another value, for what rewrite is.
Yields(p, rewrite) ==
  p.value = Undefined \/ rewrite = "true" \/ (rewrite = "undefined" /\ p.value # False)

\* setHeader: a header that is there keeps its name.
Put(P, entry, rewrite) ==
  LET p == CHOOSE p \in Find(P, entry.name) : TRUE
  IN  IF Find(P, entry.name) = {} THEN P \cup {entry}
      ELSE IF Yields(p, rewrite) THEN (P \ {p}) \cup {[p EXCEPT !.value = entry.value]}
      ELSE P

PutEach(P, entries, rewrite) ==
  LET upTo[k \in 0 .. Len(entries)] ==
        IF k = 0 THEN P ELSE Put(upTo[k - 1], entries[k], rewrite)
  IN  upTo[Len(entries)]

EntriesOf(source) == IF source \in Objects THEN SetToSeq(props[source]) ELSE plain

\* Object o is left with these properties.
Becomes(o, P) == props' = [props EXCEPT ![o] = P] /\ UNCHANGED plain

\* headers[name] = value, and delete headers[name].
Assign(o, name, value) ==
  /\ Becomes(o, {p \in props[o] : p.name # name} \cup {[name |-> name, value |-> value]})
  /\ answer' = TRUE
DeleteProperty(o, name) ==
  Becomes(o, {p \in props[o] : p.name # name}) /\ answer' = TRUE

\* The answer is whether anything was removed.
Delete(o, P) == Becomes(o, props[o] \ P) /\ answer' = (P # {})

Normalize(o) ==
  Becomes(o, {[p EXCEPT !.name = Titled(p.name)] : p \in props[o]}) /\ answer' = TRUE

\* A literal is written, or made of what an object does not withhold.
Write(literal) == plain' = literal /\ answer' = TRUE /\ UNCHANGED props
ToJSON(o) ==
  \E order \in SetToSeqs({p \in props[o] : p.value \notin Off \cup {Undefined}}) : Write(order)

Init ==
  /\ props = [o \in Objects |-> {}]
  /\ plain = <<>> /\ answer = TRUE
=============================================================================
