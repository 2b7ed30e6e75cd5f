-------------------------- MODULE ResponseBody_proofs --------------------------
(***************************************************************************)
(* Proofs about ResponseBody: its safety invariants, for any set of        *)
(* responses, any buffer size and any rate of decompression.               *)
(***************************************************************************)
EXTENDS ResponseBody, TLAPS

USE ConfAssumption, SizeAssumption

(***************************************************************************)
(* Which stream follows which.                                             *)
(***************************************************************************)

Link(s, t) == <<s, t>> \in LinksOf[conf]

LEMMA InOrder ==
  Before = {<<"body", "meter">>, <<"body", "inflate">>, <<"body", "guard">>, <<"body", "wrapper">>,
            <<"meter", "inflate">>, <<"meter", "guard">>, <<"meter", "wrapper">>,
            <<"inflate", "guard">>, <<"inflate", "wrapper">>, <<"guard", "wrapper">>}
<1>1. /\ Order[1] = "body" /\ Order[2] = "meter" /\ Order[3] = "inflate"
      /\ Order[4] = "guard" /\ Order[5] = "wrapper"
  BY DEF Order
<1>2. \A i \in 1 .. 5 : i = 1 \/ i = 2 \/ i = 3 \/ i = 4 \/ i = 5
  OBVIOUS
<1>3. \A i, j \in 1 .. 5 : i < j => <<Order[i], Order[j]>> \in Before
  <2>1. ASSUME NEW i \in 1 .. 5, NEW j \in 1 .. 5, i < j
        PROVE  <<Order[i], Order[j]>> \in Before
    <3>1. <<i, j>> \in {q \in (1 .. 5) \X (1 .. 5) : q[1] < q[2]}
      BY <2>1
    <3> QED BY <3>1 DEF Before
  <2> QED BY <2>1
<1>4. \A l \in Before : \E i, j \in 1 .. 5 : i < j /\ l = <<Order[i], Order[j]>>
  BY DEF Before
<1>5. \A l \in Before :
        l \in {<<"body", "meter">>, <<"body", "inflate">>, <<"body", "guard">>, <<"body", "wrapper">>,
               <<"meter", "inflate">>, <<"meter", "guard">>, <<"meter", "wrapper">>,
               <<"inflate", "guard">>, <<"inflate", "wrapper">>, <<"guard", "wrapper">>}
  <2>1. ASSUME NEW i \in 1 .. 5, NEW j \in 1 .. 5, i < j
        PROVE  <<Order[i], Order[j]>> \in
                 {<<"body", "meter">>, <<"body", "inflate">>, <<"body", "guard">>, <<"body", "wrapper">>,
                  <<"meter", "inflate">>, <<"meter", "guard">>, <<"meter", "wrapper">>,
                  <<"inflate", "guard">>, <<"inflate", "wrapper">>, <<"guard", "wrapper">>}
    BY <1>1, <1>2, <2>1
  <2> QED BY <1>4, <2>1
<1>6. 1 \in 1 .. 5 /\ 2 \in 1 .. 5 /\ 3 \in 1 .. 5 /\ 4 \in 1 .. 5 /\ 5 \in 1 .. 5
  OBVIOUS
<1>7. /\ <<Order[1], Order[2]>> \in Before /\ <<Order[1], Order[3]>> \in Before
      /\ <<Order[1], Order[4]>> \in Before /\ <<Order[1], Order[5]>> \in Before
      /\ <<Order[2], Order[3]>> \in Before /\ <<Order[2], Order[4]>> \in Before
      /\ <<Order[2], Order[5]>> \in Before /\ <<Order[3], Order[4]>> \in Before
      /\ <<Order[3], Order[5]>> \in Before /\ <<Order[4], Order[5]>> \in Before
  BY <1>3, <1>6
<1> QED BY <1>1, <1>5, <1>7

LEMMA LinkWhen ==
  ASSUME conf \in Confs, NEW s \in Stages, NEW t \in Stages
  PROVE  Link(s, t) <=>
           /\ <<s, t>> \in Before /\ Used(s) /\ Used(t)
           /\ \A u \in Stages : <<s, u>> \in Before /\ <<u, t>> \in Before => ~Used(u)
BY DEF Link, LinksOf, Used

LEMMA LinkPair ==
  ASSUME conf \in Confs, NEW l \in LinksOf[conf]
  PROVE  /\ l = <<l[1], l[2]>> /\ Link(l[1], l[2])
         /\ l[1] \in Stages /\ l[2] \in Stages \ {"body"}
<1>1. l \in Before
  BY DEF LinksOf
<1> QED BY <1>1, InOrder DEF Link, Stages

LEMMA UsedWhen ==
  ASSUME conf \in Confs
  PROVE  /\ Used("body")
         /\ Used("meter") <=> Metered
         /\ Used("inflate") <=> conf.encoded /\ (Streaming \/ Limited)
         /\ Used("guard") <=> Streaming /\ Limited
         /\ Used("wrapper") <=> Streaming /\ (conf.cancellable \/ conf.encoded)
BY DEF Used, UsedBy, Metered, Streaming, Limited

\* All there is to know of the order: the links of every configuration.
LEMMA Links ==
  ASSUME conf \in Confs
  PROVE  /\ \A s \in Stages : ~Link(s, "body") /\ ~Link("wrapper", s) /\ ~Link(s, s)
         /\ \A s, t \in Stages : Link(s, t) => Used(s) /\ Used(t)
         /\ Link("body", "meter") <=> Used("meter")
         /\ Link("body", "inflate") <=> Used("inflate") /\ ~Used("meter")
         /\ Link("body", "guard") <=> Used("guard") /\ ~Used("meter") /\ ~Used("inflate")
         /\ Link("body", "wrapper") <=>
              Used("wrapper") /\ ~Used("meter") /\ ~Used("inflate") /\ ~Used("guard")
         /\ Link("meter", "inflate") <=> Used("meter") /\ Used("inflate")
         /\ Link("meter", "guard") <=> Used("meter") /\ Used("guard") /\ ~Used("inflate")
         /\ Link("meter", "wrapper") <=>
              Used("meter") /\ Used("wrapper") /\ ~Used("inflate") /\ ~Used("guard")
         /\ Link("inflate", "guard") <=> Used("inflate") /\ Used("guard")
         /\ Link("inflate", "wrapper") <=> Used("inflate") /\ Used("wrapper") /\ ~Used("guard")
         /\ Link("guard", "wrapper") <=> Used("guard") /\ Used("wrapper")
         /\ ~Link("inflate", "meter") /\ ~Link("guard", "meter") /\ ~Link("guard", "inflate")
<1>1. Used("body")
  BY UsedWhen
<1>2. "body" \in Stages /\ "meter" \in Stages /\ "inflate" \in Stages /\ "guard" \in Stages
      /\ "wrapper" \in Stages
  BY DEF Stages
<1>3. \A s \in Stages : ~Link(s, "body") /\ ~Link("wrapper", s) /\ ~Link(s, s)
  BY <1>2, LinkWhen, InOrder DEF Stages
<1>4. \A s, t \in Stages : Link(s, t) => Used(s) /\ Used(t)
  BY LinkWhen
<1>5. /\ Link("body", "meter") <=> Used("meter")
      /\ Link("body", "inflate") <=> Used("inflate") /\ ~Used("meter")
      /\ Link("meter", "inflate") <=> Used("meter") /\ Used("inflate")
      /\ Link("inflate", "guard") <=> Used("inflate") /\ Used("guard")
      /\ Link("guard", "wrapper") <=> Used("guard") /\ Used("wrapper")
  BY <1>1, <1>2, LinkWhen, InOrder DEF Stages
<1>6. /\ Link("body", "guard") <=> Used("guard") /\ ~Used("meter") /\ ~Used("inflate")
      /\ Link("meter", "guard") <=> Used("meter") /\ Used("guard") /\ ~Used("inflate")
      /\ Link("inflate", "wrapper") <=> Used("inflate") /\ Used("wrapper") /\ ~Used("guard")
  BY <1>1, <1>2, LinkWhen, InOrder DEF Stages
<1>7. Link("body", "wrapper") <=>
        Used("wrapper") /\ ~Used("meter") /\ ~Used("inflate") /\ ~Used("guard")
  BY <1>1, <1>2, LinkWhen, InOrder DEF Stages
<1>8. Link("meter", "wrapper") <=>
        Used("meter") /\ Used("wrapper") /\ ~Used("inflate") /\ ~Used("guard")
  BY <1>1, <1>2, LinkWhen, InOrder DEF Stages
<1>9. ~Link("inflate", "meter") /\ ~Link("guard", "meter") /\ ~Link("guard", "inflate")
  BY <1>2, LinkWhen, InOrder
<1> QED BY <1>3, <1>4, <1>5, <1>6, <1>7, <1>8, <1>9

\* The stream that is read.
LEMMA Out ==
  ASSUME conf \in Confs
  PROVE  /\ OutOf \in Stages /\ Used(OutOf)
         /\ \A t \in Stages : ~Link(OutOf, t)
         /\ OutOf = IF Used("wrapper") THEN "wrapper" ELSE IF Used("guard") THEN "guard"
                    ELSE IF Used("inflate") THEN "inflate" ELSE IF Used("meter") THEN "meter"
                    ELSE "body"
<1> DEFINE P(s) == s \in Stages /\ Used(s) /\ \A t \in Stages : <<s, t>> \in Before => ~Used(t)
           out == IF Used("wrapper") THEN "wrapper" ELSE IF Used("guard") THEN "guard"
                  ELSE IF Used("inflate") THEN "inflate" ELSE IF Used("meter") THEN "meter"
                  ELSE "body"
<1>1. P(out)
  BY UsedWhen, InOrder DEF Stages
<1>2. \A s : P(s) => s = out
  BY UsedWhen, InOrder DEF Stages
<1>3. OutOf = CHOOSE s \in Stages : Used(s) /\ \A t \in Stages : <<s, t>> \in Before => ~Used(t)
  BY DEF OutOf, LastOf, Used
<1>4. OutOf = out
  <2> HIDE DEF out
  <2> QED BY <1>1, <1>2, <1>3
<1>5. \A t \in Stages : ~Link(out, t)
  BY <1>1, LinkWhen
<1> HIDE DEF out
<1>6. OutOf \in Stages /\ Used(OutOf) /\ \A t \in Stages : ~Link(OutOf, t)
  BY <1>1, <1>4, <1>5
<1> QED BY <1>4, <1>6 DEF out

\* A stream that others pipe into has one source.
LEMMA Source ==
  ASSUME conf \in Confs, NEW s \in Stages, NEW t \in Stages, Link(s, t)
  PROVE  SourceOf(t) = s
<1>1. ASSUME NEW u \in Stages, Link(u, t) PROVE u = s
  BY <1>1, Links DEF Stages
<1>2. SourceOf(t) = CHOOSE u \in Stages : Link(u, t)
  BY DEF SourceOf, Link
<1> QED BY <1>1, <1>2

LEMMA HasSource ==
  ASSUME conf \in Confs, NEW t \in Stages \ {"body"}, Used(t)
  PROVE  SourceOf(t) \in Stages /\ Link(SourceOf(t), t) /\ Used(SourceOf(t)) /\ SourceOf(t) # t
<1>1. \E s \in Stages : Link(s, t)
  BY Links DEF Stages
<1> QED BY <1>1, Source, Links

(***************************************************************************)
(* Types, without the sizes that TypeOK gives for the counters.            *)
(***************************************************************************)

StageRecs ==
  [is: {"open", "ended", "failed", "closed", "closing"}, why: {"none"} \cup Causes, due: BOOLEAN]

\* What the parts of a stream's record have to do with each other.
Sound(r) ==
  /\ r \in StageRecs
  /\ r.is \in {"open", "ended", "closing"} => r.why = "none" /\ ~r.due
  /\ r.is = "closed" => r.why = "none"
  /\ r.is = "failed" => r.why # "none"

Typed ==
  /\ conf \in Confs
  /\ server \in {"sending", "done", "broke"} /\ sent \in 0 .. conf.size
  /\ stage = [s \in Stages |-> stage[s]] /\ \A s \in Stages : Sound(stage[s])
  /\ queue \in [Stages -> Nat] /\ ready \in [Stages -> Nat]
  /\ ended \subseteq Stages
  /\ gen \in {"unstarted", "pulling", "paused", "finished"}
  /\ bodyErroredFirst \in BOOLEAN /\ tagged \in BOOLEAN
  /\ seen \in Nat /\ told \in Nat /\ waiting \in Nat /\ got \in Nat
  /\ aborted \in {"none"} \cup Aborts /\ outcome \in Outcomes

\* A stream that a response does without is never touched.
Idle ==
  /\ \A s \in Stages :
       ~Used(s) => stage[s] = Open /\ queue[s] = 0 /\ ready[s] = 0 /\ s \notin ended
  /\ \A s \in Stages \ {"meter", "inflate"} : queue[s] = 0
  /\ gen # "unstarted" => Used("guard")

(***************************************************************************)
(* Destruction: what becomes of each stream.                               *)
(***************************************************************************)

Gone == [is |-> "closed", why |-> "none", due |-> TRUE]
Hit(why) == [is |-> "failed", why |-> why, due |-> TRUE]
Closing == [Open EXCEPT !.is = "closing"]

\* st is a state of all streams.
Streams(st) == st = [s \in Stages |-> st[s]] /\ \A s \in Stages : Sound(st[s])

LEMMA SoundForms ==
  /\ Sound(Open) /\ Sound(Gone) /\ Sound(Closing)
  /\ \A why \in Causes : Sound(Hit(why))
  /\ \A r : Sound(r) /\ r.is = "open" => r = Open
<1>1. "none" \notin Causes
  BY DEF Causes, Aborts
<1>2. Sound(Open) /\ Sound(Gone) /\ Sound(Closing)
  BY DEF Sound, Open, Gone, Closing, StageRecs
<1>3. \A why \in Causes : Sound(Hit(why))
  BY <1>1 DEF Sound, Hit, StageRecs
<1>4. \A r : Sound(r) /\ r.is = "open" => r = Open
  BY DEF Sound, Open, StageRecs
<1> QED BY <1>2, <1>3, <1>4

LEMMA DestroyEffect ==
  ASSUME NEW st, Streams(st), NEW s \in Stages, NEW why \in Causes \cup {"none"}
  PROVE  /\ Streams(Destroy(st, s, why))
         /\ \A t \in Stages \ {s} : Destroy(st, s, why)[t] = st[t]
         /\ Destroy(st, s, why)[s] =
              IF st[s].is # "open" THEN st[s] ELSE IF why = "none" THEN Gone ELSE Hit(why)
<1> DEFINE r == IF st[s].is # "open" THEN st[s] ELSE IF why = "none" THEN Gone ELSE Hit(why)
<1>1. Destroy(st, s, why) = [st EXCEPT ![s] = r]
  BY DEF Destroy, Streams, Gone, Hit
<1>2. Sound(r)
  BY SoundForms DEF Streams
<1> HIDE DEF r
<1>3. Destroy(st, s, why)[s] = r /\ \A t \in Stages \ {s} : Destroy(st, s, why)[t] = st[t]
  BY <1>1 DEF Streams
<1>4. Streams(Destroy(st, s, why))
  BY <1>1, <1>2 DEF Streams
<1> QED BY <1>3, <1>4 DEF r

LEMMA DestroyGuardEffect ==
  ASSUME conf \in Confs, Used("guard"), NEW st, Streams(st)
  PROVE  /\ Streams(DestroyGuard(st))
         /\ st["guard"].is # "open" => DestroyGuard(st) = st
         /\ \A t \in Stages \ {"guard"} :
              \/ DestroyGuard(st)[t] = st[t]
              \/ t = SourceOf("guard") /\ st[t].is = "open" /\ DestroyGuard(st)[t] = Gone
         /\ st["guard"].is = "open" =>
              DestroyGuard(st)["guard"] = IF gen = "pulling" THEN Closing ELSE Gone
<1> DEFINE src == SourceOf("guard")
<1>1. src \in Stages /\ src # "guard" /\ "guard" \in Stages
  BY HasSource DEF Stages
<1>2. CASE st["guard"].is # "open"
  <2>1. DestroyGuard(st) = st
    BY <1>2 DEF DestroyGuard
  <2> QED BY <1>2, <2>1
<1>3. CASE st["guard"].is = "open" /\ gen = "pulling"
  <2>1. DestroyGuard(st) = [st EXCEPT !["guard"].is = "closing"]
    BY <1>3 DEF DestroyGuard
  <2>2. st["guard"] = Open
    BY <1>1, <1>3, SoundForms DEF Streams
  <2>3. DestroyGuard(st)["guard"] = Closing
    <3> DEFINE r == [st["guard"] EXCEPT !.is = "closing"]
    <3>3. DestroyGuard(st) = [st EXCEPT !["guard"] = r]
      BY <2>1, Zenon
    <3> HIDE DEF r
    <3>4. DestroyGuard(st)["guard"] = r
      BY <1>1, <3>3 DEF Streams
    <3>1. DestroyGuard(st)["guard"] = [st["guard"] EXCEPT !.is = "closing"]
      BY <3>4 DEF r
    <3> QED BY <2>2, <3>1 DEF Closing
  <2>4. \A t \in Stages \ {"guard"} : DestroyGuard(st)[t] = st[t]
    BY <2>1 DEF Streams
  <2>5. DestroyGuard(st) = [t \in Stages |-> DestroyGuard(st)[t]]
    BY <2>1 DEF Streams
  <2>6. Streams(DestroyGuard(st))
    BY <2>3, <2>4, <2>5, SoundForms DEF Streams
  <2> QED BY <1>3, <2>3, <2>4, <2>6
<1>4. CASE st["guard"].is = "open" /\ gen = "paused"
  <2> DEFINE mid == Destroy(st, "guard", "none")
  <2>1. DestroyGuard(st) = Destroy(mid, src, "none")
    BY <1>4 DEF DestroyGuard
  <2>2. Streams(mid) /\ mid["guard"] = Gone /\ \A t \in Stages \ {"guard"} : mid[t] = st[t]
    BY <1>1, <1>4, DestroyEffect
  <2> HIDE DEF mid
  <2>3. /\ Streams(Destroy(mid, src, "none"))
        /\ \A t \in Stages \ {src} : Destroy(mid, src, "none")[t] = mid[t]
        /\ Destroy(mid, src, "none")[src] = IF mid[src].is # "open" THEN mid[src] ELSE Gone
    BY <1>1, <2>2, DestroyEffect
  <2> QED BY <1>1, <1>4, <2>1, <2>2, <2>3
<1>5. CASE st["guard"].is = "open" /\ gen \notin {"pulling", "paused"}
  <2>1. DestroyGuard(st) = Destroy(st, "guard", "none")
    BY <1>5 DEF DestroyGuard
  <2> QED BY <1>1, <1>5, <2>1, DestroyEffect
<1> QED BY <1>2, <1>3, <1>4, <1>5

\* Destroying any stream without an error.
LEMMA DestroyAnyEffect ==
  ASSUME conf \in Confs, NEW s \in Stages, Used(s), NEW st, Streams(st)
  PROVE  /\ Streams(DestroyAny(st, s))
         /\ \A t \in Stages :
              \/ DestroyAny(st, s)[t] = st[t]
              \/ /\ Used(t) /\ st[t].is = "open"
                 /\ t = s \/ (s = "guard" /\ t = SourceOf("guard"))
                 /\ \/ DestroyAny(st, s)[t] = Gone /\ (t = "guard" => gen # "pulling")
                    \/ t = "guard" /\ gen = "pulling" /\ DestroyAny(st, s)[t] = Closing
         /\ DestroyAny(st, s)[s].is # "open"
<1>1. CASE s = "guard"
  <2>1. SourceOf("guard") \in Stages \ {"guard"} /\ Used(SourceOf("guard"))
    BY <1>1, HasSource
  <2>2. DestroyAny(st, s) = DestroyGuard(st)
    BY <1>1 DEF DestroyAny
  <2>3. Closing.is # "open" /\ Gone.is # "open"
    BY DEF Open, Closing, Gone
  <2>4. DestroyGuard(st)["guard"].is # "open"
    BY <1>1, <2>3, DestroyGuardEffect
  <2>5. ASSUME NEW t \in Stages \ {"guard"}
        PROVE  \/ DestroyAny(st, s)[t] = st[t]
               \/ /\ Used(t) /\ st[t].is = "open" /\ t = SourceOf("guard")
                  /\ DestroyAny(st, s)[t] = Gone
    <3>1. \/ DestroyGuard(st)[t] = st[t]
          \/ t = SourceOf("guard") /\ st[t].is = "open" /\ DestroyGuard(st)[t] = Gone
      BY <1>1, DestroyGuardEffect
    <3> QED BY <2>1, <2>2, <3>1
  <2>6. \/ DestroyAny(st, s)["guard"] = st["guard"]
        \/ /\ st["guard"].is = "open"
           /\ \/ DestroyAny(st, s)["guard"] = Gone /\ gen # "pulling"
              \/ gen = "pulling" /\ DestroyAny(st, s)["guard"] = Closing
    BY <1>1, <2>2, DestroyGuardEffect
  <2>7. Streams(DestroyAny(st, s))
    BY <1>1, <2>2, DestroyGuardEffect
  <2> QED BY <1>1, <2>2, <2>4, <2>5, <2>6, <2>7
<1>2. CASE s # "guard"
  <2>1. DestroyAny(st, s) = Destroy(st, s, "none")
    BY <1>2 DEF DestroyAny
  <2>2. Gone.is # "open"
    BY DEF Gone
  <2> QED BY <1>2, <2>1, <2>2, DestroyEffect
<1> QED BY <1>1, <1>2

LEMMA Causing ==
  ASSUME NEW r, Sound(r), r.is = "failed", NEW tag
  PROVE  r.why \in Causes /\ Translated(r.why, tag) \in Causes
BY DEF Sound, StageRecs, Translated, Causes, Aborts

\* How the next stream fails because s did.
Follows(st, s, tag, t, r) ==
  /\ st[s].is = "failed" /\ st[t].is = "open" /\ Link(s, t)
  /\ \/ t \in {"meter", "inflate"} /\ r = Hit(st[s].why)
     \/ t = "wrapper" /\ r = Hit(Translated(st[s].why, tag))

LEMMA ToSinkEffect ==
  ASSUME conf \in Confs, NEW s \in Stages, NEW st, Streams(st), NEW tag
  PROVE  /\ Streams(ToSink(st, s, tag))
         /\ \A t \in Stages :
              \/ ToSink(st, s, tag)[t] = st[t]
              \/ Follows(st, s, tag, t, ToSink(st, s, tag)[t])
         /\ st[s].is = "failed" /\ Link(s, "inflate") => ToSink(st, s, tag)["inflate"].is # "open"
         /\ ToSink(st, s, tag)[s] = st[s]
<1> DEFINE next == {l[2] : l \in {m \in LinksOf[conf] : m[1] = s}}
           new == ToSink(st, s, tag)
<1>1. \A t \in Stages : t \in next <=> Link(s, t)
  <2>1. ASSUME NEW t \in Stages, Link(s, t) PROVE t \in next
    BY <2>1 DEF Link
  <2>2. ASSUME NEW t \in next PROVE Link(s, t)
    <3>1. PICK l \in LinksOf[conf] : l[1] = s /\ l[2] = t
      OBVIOUS
    <3> QED BY <3>1, LinkPair
  <2> QED BY <2>1, <2>2
<1>2. "meter" \in Stages /\ "inflate" \in Stages /\ "wrapper" \in Stages
  BY DEF Stages
<1>3. new =
        IF st[s].is # "failed" THEN st
        ELSE CASE Link(s, "meter") /\ ~FalseAlarm -> Destroy(st, "meter", st[s].why)
               [] Link(s, "inflate") -> Destroy(st, "inflate", st[s].why)
               [] Link(s, "wrapper") -> Destroy(st, "wrapper", Translated(st[s].why, tag))
               [] OTHER -> st
  <2> HIDE DEF next
  <2>1. /\ "meter" \in next <=> Link(s, "meter")
        /\ "inflate" \in next <=> Link(s, "inflate")
        /\ "wrapper" \in next <=> Link(s, "wrapper")
    BY <1>1, <1>2
  <2> QED BY <2>1 DEF ToSink, next
<1>4. /\ ~(Link(s, "meter") /\ Link(s, "inflate"))
      /\ ~(Link(s, "meter") /\ Link(s, "wrapper"))
      /\ ~(Link(s, "inflate") /\ Link(s, "wrapper"))
      /\ ~Link(s, s)
  BY Links DEF Stages
<1>5. Sound(st[s])
  BY DEF Streams
<1> HIDE DEF new
<1>6. CASE st[s].is # "failed"
  BY <1>3, <1>6 DEF new
<1>7. CASE st[s].is = "failed" /\ Link(s, "meter") /\ ~FalseAlarm
  <2>1. new = Destroy(st, "meter", st[s].why)
    BY <1>3, <1>4, <1>7
  <2>2. st[s].why \in Causes /\ st[s].why # "none"
    BY <1>5, <1>7, Causing DEF Causes, Aborts
  <2>3. Streams(new) /\ \A t \in Stages \ {"meter"} : new[t] = st[t]
    BY <1>2, <2>1, <2>2, DestroyEffect
  <2>4. new["meter"] = IF st["meter"].is # "open" THEN st["meter"] ELSE Hit(st[s].why)
    BY <1>2, <2>1, <2>2, DestroyEffect
  <2> QED BY <1>4, <1>7, <2>3, <2>4 DEF Follows, new
<1>8. CASE st[s].is = "failed" /\ Link(s, "inflate")
  <2>1. new = Destroy(st, "inflate", st[s].why)
    BY <1>3, <1>4, <1>8
  <2>2. st[s].why \in Causes /\ st[s].why # "none"
    BY <1>5, <1>8, Causing DEF Causes, Aborts
  <2>3. Streams(new) /\ \A t \in Stages \ {"inflate"} : new[t] = st[t]
    BY <1>2, <2>1, <2>2, DestroyEffect
  <2>4. new["inflate"] = IF st["inflate"].is # "open" THEN st["inflate"] ELSE Hit(st[s].why)
    BY <1>2, <2>1, <2>2, DestroyEffect
  <2>5. Hit(st[s].why).is # "open"
    BY DEF Hit
  <2> QED BY <1>4, <1>8, <2>3, <2>4, <2>5 DEF Follows, new
<1>9. CASE st[s].is = "failed" /\ Link(s, "wrapper")
  <2> DEFINE why == Translated(st[s].why, tag)
  <2>1. new = Destroy(st, "wrapper", why)
    BY <1>3, <1>4, <1>9
  <2>2. why \in Causes /\ why # "none"
    BY <1>5, <1>9, Causing DEF Causes, Aborts
  <2> HIDE DEF why
  <2>3. Streams(new) /\ \A t \in Stages \ {"wrapper"} : new[t] = st[t]
    BY SMTT(30), <1>2, <2>1, <2>2, DestroyEffect
  <2>4. new["wrapper"] = IF st["wrapper"].is # "open" THEN st["wrapper"] ELSE Hit(why)
    BY <1>2, <2>1, <2>2, DestroyEffect
  <2> QED BY <1>4, <1>9, <2>3, <2>4 DEF Follows, new, why
<1>10. CASE /\ st[s].is = "failed" /\ ~(Link(s, "meter") /\ ~FalseAlarm)
            /\ ~Link(s, "inflate") /\ ~Link(s, "wrapper")
  BY <1>3, <1>10 DEF new
<1> QED BY <1>6, <1>7, <1>8, <1>9, <1>10 DEF new

\* How a source is destroyed because s was.
Recedes(st, s, t, r) ==
  /\ Used(t) /\ st[t].is = "open" /\ t # s
  /\ Link(t, s) \/ (s = "wrapper" /\ Link("guard", s) /\ Link(t, "guard"))
  /\ \/ r = Gone /\ (t = "guard" => gen # "pulling")
     \/ t = "guard" /\ gen = "pulling" /\ r = Closing
     \/ s = "inflate" /\ Link(t, s) /\ st[s].is = "failed" /\ r = Hit(st[s].why)

LEMMA ToSourceEffect ==
  ASSUME conf \in Confs, NEW s \in Stages, Used(s), NEW st, Streams(st),
         st[s].is \in {"failed", "closed"}
  PROVE  /\ Streams(ToSource(st, s))
         /\ \A t \in Stages :
              ToSource(st, s)[t] = st[t] \/ Recedes(st, s, t, ToSource(st, s)[t])
         /\ ToSource(st, s)[s] = st[s]
         /\ s = "inflate" => ToSource(st, s)[SourceOf(s)].is # "open"
<1> DEFINE new == ToSource(st, s)
<1>1. Sound(st[s])
  BY DEF Streams
<1>2. CASE s = "meter"
  <2>1. new = Destroy(st, "body", "none")
    BY <1>2 DEF ToSource
  <2>2. "body" \in Stages /\ Used("body") /\ Link("body", s)
    BY <1>2, UsedWhen, Links DEF Stages
  <2> HIDE DEF new
  <2>3. Streams(new) /\ \A t \in Stages \ {"body"} : new[t] = st[t]
    BY <2>1, <2>2, DestroyEffect
  <2>4. new["body"] = IF st["body"].is # "open" THEN st["body"] ELSE Gone
    BY <2>1, <2>2, DestroyEffect
  <2> QED BY <1>2, <2>2, <2>3, <2>4 DEF Recedes, new
<1>3. CASE s = "inflate"
  <2> DEFINE src == SourceOf(s)
  <2>1. new = Destroy(st, src, st[s].why)
    BY <1>3 DEF ToSource
  <2>2. src \in Stages /\ Link(src, s) /\ Used(src) /\ src # s
    BY <1>3, HasSource
  <2>3. st[s].why \in Causes \cup {"none"} /\ (st[s].why = "none" <=> st[s].is = "closed")
    BY <1>1 DEF Sound, StageRecs
  <2> HIDE DEF new, src
  <2>4. Streams(new) /\ \A t \in Stages \ {src} : new[t] = st[t]
    BY <2>1, <2>2, <2>3, DestroyEffect
  <2>5. new[src] = IF st[src].is # "open" THEN st[src]
                   ELSE IF st[s].why = "none" THEN Gone ELSE Hit(st[s].why)
    BY <2>1, <2>2, <2>3, DestroyEffect
  <2>6. src # "guard"
    BY <1>3, <2>2, Links DEF Stages
  <2>7. new[src].is # "open"
    BY <2>5 DEF Hit, Gone
  <2> QED BY <1>3, <2>2, <2>3, <2>4, <2>5, <2>6, <2>7 DEF Recedes, new, src
<1>4. CASE s = "wrapper"
  <2> DEFINE src == SourceOf(s)
  <2>1. new = DestroyAny(st, src)
    BY <1>4 DEF ToSource
  <2>2. src \in Stages /\ Link(src, s) /\ Used(src) /\ src # s
    BY <1>4, HasSource
  <2>3. src = "guard" => SourceOf("guard") # s /\ Link(SourceOf("guard"), "guard")
    BY <1>4, <2>2, HasSource, Links
  <2> HIDE DEF new, src
  <2>4. /\ Streams(new)
        /\ \A t \in Stages :
             \/ new[t] = st[t]
             \/ /\ Used(t) /\ st[t].is = "open"
                /\ t = src \/ (src = "guard" /\ t = SourceOf("guard"))
                /\ \/ new[t] = Gone /\ (t = "guard" => gen # "pulling")
                   \/ t = "guard" /\ gen = "pulling" /\ new[t] = Closing
    BY <2>1, <2>2, DestroyAnyEffect
  <2>5. \A t \in Stages : new[t] = st[t] \/ Recedes(st, s, t, new[t])
    BY <1>4, <2>2, <2>3, <2>4 DEF Recedes
  <2>6. new[s] = st[s]
    BY <1>4, <2>2, <2>3, <2>4
  <2> QED BY <1>4, <2>4, <2>5, <2>6 DEF new
<1>5. CASE s \notin {"meter", "inflate", "wrapper"}
  <2>1. new = st
    BY <1>5 DEF ToSource
  <2> QED BY <1>5, <2>1
<1> QED BY <1>2, <1>3, <1>4, <1>5

\* What a notification does to the others.
NotifyEffects(s) ==
  /\ Streams(stage)'
  /\ stage'[s] = [stage[s] EXCEPT !.due = FALSE]
  /\ \A t \in Stages \ {s} :
       \/ stage'[t] = stage[t]
       \/ Follows(stage, s, TaggedBy(s), t, stage'[t])
       \/ Recedes(stage, s, t, stage'[t])
  /\ stage[s].is = "failed" /\ Link(s, "inflate") => stage'["inflate"].is # "open"
  /\ s = "inflate" => stage'[SourceOf("inflate")].is # "open"

LEMMA NotifyEffect ==
  ASSUME Typed, Idle, NEW s \in Stages, Notify(s)
  PROVE  NotifyEffects(s) /\ Used(s) /\ stage[s].is \in {"failed", "closed"}
<1> DEFINE heard == [stage EXCEPT ![s].due = FALSE]
           mid == ToSink(heard, s, TaggedBy(s))
           r == [stage[s] EXCEPT !.due = FALSE]
<1>1. conf \in Confs /\ Sound(stage[s]) /\ stage[s].due
  BY DEF Typed, Notify
<1>2. Used(s)
  BY <1>1 DEF Idle, Open
<1>3. stage[s].is \in {"failed", "closed"}
  BY <1>1 DEF Sound, StageRecs
<1>4. heard = [stage EXCEPT ![s] = r]
  BY Zenon
<1>5. r.is = stage[s].is /\ r.why = stage[s].why /\ Sound(r)
  BY <1>1, <1>3 DEF Sound, StageRecs
<1> HIDE DEF r, heard
<1>6. heard[s] = r /\ \A t \in Stages \ {s} : heard[t] = stage[t]
  BY <1>4 DEF Typed
<1>7. Streams(heard)
  BY <1>4, <1>5, <1>6 DEF Typed, Streams
<1>8. /\ Streams(mid) /\ mid[s] = r
      /\ \A t \in Stages \ {s} : mid[t] = stage[t] \/ Follows(stage, s, TaggedBy(s), t, mid[t])
      /\ stage[s].is = "failed" /\ Link(s, "inflate") => mid["inflate"].is # "open"
  <2>1. /\ Streams(mid) /\ mid[s] = heard[s]
        /\ \A t \in Stages : mid[t] = heard[t] \/ Follows(heard, s, TaggedBy(s), t, mid[t])
        /\ heard[s].is = "failed" /\ Link(s, "inflate") => mid["inflate"].is # "open"
    BY <1>1, <1>7, ToSinkEffect
  <2> HIDE DEF mid
  <2>2. \A t \in Stages \ {s} : Follows(heard, s, TaggedBy(s), t, mid[t])
                                 => Follows(stage, s, TaggedBy(s), t, mid[t])
    BY <1>5, <1>6 DEF Follows
  <2> QED BY <1>5, <1>6, <2>1, <2>2
<1>9. stage' = ToSource(mid, s)
  BY DEF Notify, heard
<1> HIDE DEF mid
<1>10. /\ Streams(stage') /\ stage'[s] = r
       /\ \A t \in Stages \ {s} : stage'[t] = mid[t] \/ Recedes(mid, s, t, stage'[t])
       /\ s = "inflate" => stage'[SourceOf("inflate")].is # "open"
  <2>1. mid[s].is \in {"failed", "closed"}
    BY <1>3, <1>5, <1>8
  <2>2. /\ Streams(ToSource(mid, s)) /\ ToSource(mid, s)[s] = mid[s]
        /\ s = "inflate" => ToSource(mid, s)[SourceOf(s)].is # "open"
        /\ \A t \in Stages : ToSource(mid, s)[t] = mid[t]
                             \/ Recedes(mid, s, t, ToSource(mid, s)[t])
    BY <1>1, <1>2, <1>8, <2>1, ToSourceEffect
  <2> QED BY <1>8, <1>9, <2>2
<1>11. ASSUME NEW t \in Stages \ {s}, Recedes(mid, s, t, stage'[t])
       PROVE  Recedes(stage, s, t, stage'[t])
  <2>1. mid[t].is = "open"
    BY <1>11 DEF Recedes
  <2>2. mid[t] = stage[t]
    BY <1>8, <2>1 DEF Follows, Hit
  <2> QED BY <1>5, <1>8, <1>11, <2>2 DEF Recedes
<1>12. stage[s].is = "failed" /\ Link(s, "inflate") => stage'["inflate"].is # "open"
  <2>1. ASSUME stage[s].is = "failed", Link(s, "inflate") PROVE stage'["inflate"].is # "open"
    <3>1. "inflate" \in Stages \ {s}
      BY <1>1, <2>1, Links DEF Stages
    <3> QED BY <1>8, <1>10, <2>1, <3>1 DEF Recedes
  <2> QED BY <2>1
<1> QED BY <1>2, <1>3, <1>8, <1>10, <1>11, <1>12 DEF NotifyEffects, r, Streams

(***************************************************************************)
(* What the other actions do to the streams.                               *)
(***************************************************************************)

Closed == [Closing EXCEPT !.is = "closed"]
Ended == [Open EXCEPT !.is = "ended"]

\* Only the streams in T change.
Touches(T) == Streams(stage)' /\ \A t \in Stages \ T : stage'[t] = stage[t]

LEMMA Forms ==
  /\ Open.is = "open" /\ Open.why = "none" /\ ~Open.due
  /\ Gone.is = "closed" /\ Gone.why = "none" /\ Gone.due
  /\ Closing.is = "closing" /\ Closing.why = "none" /\ ~Closing.due
  /\ Closed.is = "closed" /\ Closed.why = "none" /\ ~Closed.due
  /\ Ended.is = "ended" /\ Ended.why = "none" /\ ~Ended.due
  /\ \A why : Hit(why).is = "failed" /\ Hit(why).why = why /\ Hit(why).due
  /\ Sound(Closed) /\ Sound(Ended)
<1>1. /\ Closing.is = "closing" /\ Closing.why = "none" /\ ~Closing.due
      /\ Closed.is = "closed" /\ Closed.why = "none" /\ ~Closed.due
      /\ Ended.is = "ended" /\ Ended.why = "none" /\ ~Ended.due
  BY DEF Open, Closing, Closed, Ended
<1>2. Sound(Closed) /\ Sound(Ended)
  BY DEF Open, Closing, Closed, Ended, Sound, StageRecs
<1>3. /\ Open.is = "open" /\ Open.why = "none" /\ ~Open.due
      /\ Gone.is = "closed" /\ Gone.why = "none" /\ Gone.due
      /\ \A why : Hit(why).is = "failed" /\ Hit(why).why = why /\ Hit(why).due
  BY DEF Open, Gone, Hit
<1> QED BY <1>1, <1>2, <1>3

LEMMA SameFields ==
  \A r, q \in StageRecs : r.is = q.is /\ r.why = q.why /\ r.due = q.due => r = q
BY DEF StageRecs

LEMMA ClosingForm ==
  ASSUME Typed, NEW s \in Stages, stage[s].is = "closing"
  PROVE  [stage[s] EXCEPT !.is = "closed"] = Closed
<1>1. stage[s] \in StageRecs /\ stage[s].why = "none" /\ stage[s].due = FALSE
  BY DEF Typed, Sound, StageRecs
<1>2. Closing \in StageRecs /\ Closing.is = "closing" /\ Closing.why = "none" /\ Closing.due = FALSE
  BY DEF Closing, Open, StageRecs
<1>3. stage[s] = Closing
  BY <1>1, <1>2, SameFields
<1> QED BY <1>3 DEF Closed

LEMMA BreakEffect ==
  ASSUME Typed, ServerBreaks
  PROVE  Touches({"body"}) /\ stage["body"].is = "open" /\ stage'["body"] = Hit("socket")
<1>1. Streams(stage) /\ "body" \in Stages
  BY DEF Typed, Streams, Stages
<1>2. stage' = Destroy(stage, "body", "socket") /\ "socket" \in Causes /\ stage["body"].is = "open"
  BY DEF ServerBreaks, Causes
<1> QED BY <1>1, <1>2, DestroyEffect DEF Touches, Streams

LEMMA AbortEffect ==
  ASSUME Typed, NEW why \in Aborts, Abort(why)
  PROVE  /\ Touches({"body", "meter"})
         /\ \A t \in {"body", "meter"} :
              stage'[t] = stage[t] \/ (Used(t) /\ stage[t].is = "open" /\ stage'[t] = Hit(why))
<1> DEFINE mid == Destroy(stage, "body", why)
<1>1. Streams(stage) /\ "body" \in Stages /\ "meter" \in Stages /\ why \in Causes /\ why # "none"
  BY DEF Typed, Streams, Stages, Causes, Aborts
<1>2. stage' = IF Metered THEN Destroy(mid, "meter", why) ELSE mid
  BY DEF Abort, AbortedStages
<1>3. /\ Streams(mid) /\ \A t \in Stages \ {"body"} : mid[t] = stage[t]
      /\ mid["body"] = stage["body"] \/ (stage["body"].is = "open" /\ mid["body"] = Hit(why))
  BY <1>1, DestroyEffect
<1> HIDE DEF mid
<1>4. Used("body") /\ (Used("meter") <=> Metered)
  BY UsedWhen DEF Typed
<1>5. CASE Metered
  <2>1. stage' = Destroy(mid, "meter", why)
    BY <1>2, <1>5
  <2>2. /\ Streams(stage') /\ \A t \in Stages \ {"meter"} : stage'[t] = mid[t]
        /\ stage'["meter"] = IF mid["meter"].is # "open" THEN mid["meter"] ELSE Hit(why)
    BY <1>1, <1>3, <2>1, DestroyEffect
  <2> QED BY <1>1, <1>3, <1>4, <1>5, <2>2 DEF Touches, Streams
<1>6. CASE ~Metered
  BY <1>1, <1>2, <1>3, <1>4, <1>6 DEF Touches, Streams
<1> QED BY <1>5, <1>6

LEMMA InflateEffect ==
  ASSUME Typed, Idle, InflateTransforms
  PROVE  /\ Used("inflate") /\ stage["inflate"].is = "open"
         /\ IF conf.corrupt THEN Touches({"inflate"}) /\ stage'["inflate"] = Hit("decode")
            ELSE stage' = stage
<1>1. Streams(stage) /\ "inflate" \in Stages /\ "decode" \in Causes /\ "decode" # "none"
  BY DEF Typed, Streams, Stages, Causes
<1>2. Used("inflate")
  BY <1>1 DEF InflateTransforms, Idle
<1>3. CASE conf.corrupt
  <2>1. stage' = Destroy(stage, "inflate", "decode") /\ stage["inflate"].is = "open"
    BY <1>3 DEF InflateTransforms
  <2> QED BY <1>1, <1>2, <1>3, <2>1, DestroyEffect DEF Touches, Streams
<1>4. CASE ~conf.corrupt
  BY <1>2, <1>4 DEF InflateTransforms
<1> QED BY <1>3, <1>4

LEMMA EndsEffect ==
  ASSUME Typed, Idle, NEW s \in Stages, Ends(s)
  PROVE  Touches({s}) /\ Used(s) /\ stage[s].is = "open" /\ stage'[s] = Ended
<1>1. Used(s) /\ stage[s].is = "open"
  BY DEF Ends, Idle
<1>2. stage[s] = Open
  BY <1>1, SoundForms DEF Typed
<1> DEFINE r == [stage[s] EXCEPT !.is = "ended"]
<1>3. stage' = [stage EXCEPT ![s].is = "ended"]
  BY DEF Ends
<1>4. stage' = [stage EXCEPT ![s] = r]
  BY <1>3, Zenon
<1>5. r = Ended
  BY <1>2 DEF Ended
<1> HIDE DEF r
<1>6. stage'[s] = Ended /\ \A t \in Stages \ {s} : stage'[t] = stage[t]
  BY <1>4, <1>5 DEF Typed
<1>7. stage' = [t \in Stages |-> stage'[t]]
  BY <1>4 DEF Typed
<1>8. Streams(stage)'
  BY <1>6, <1>7, Forms DEF Typed, Streams
<1> QED BY <1>1, <1>6, <1>8 DEF Touches

LEMMA LimitEffect ==
  ASSUME Typed, ReaderTakes, ~Streaming, Limited, got + 1 > conf.limit
  PROVE  /\ outcome' = "limit" /\ Touches({OutOf, SourceOf("inflate")})
         /\ OutOf = "inflate" \/ Touches({OutOf})
         /\ stage'[OutOf] = IF OutOf = "inflate" THEN Hit("limit") ELSE Gone
         /\ OutOf = "inflate" =>
              LET s == SourceOf("inflate") IN
              /\ s \in Stages /\ Used(s)
              /\ stage'[s] = stage[s] \/ (stage[s].is = "open" /\ stage'[s] = Hit("limit"))
<1>1. /\ conf \in Confs /\ Streams(stage) /\ "limit" \in Causes /\ "limit" # "none"
      /\ OutOf \in Stages /\ Used(OutOf) /\ stage[OutOf].is = "open"
  BY Out DEF Typed, Streams, Causes, ReaderTakes
<1>2. outcome' = "limit" /\ stage' = LimitDestroys
  BY DEF ReaderTakes
<1>3. CASE OutOf = "inflate"
  <2> DEFINE src == SourceOf("inflate")
             mid == Destroy(stage, "inflate", "limit")
  <2>1. src \in Stages /\ src # "inflate" /\ Used(src)
    BY <1>1, <1>3, HasSource
  <2>2. stage' = Destroy(mid, src, "limit")
    BY <1>2, <1>3 DEF LimitDestroys
  <2>3. /\ Streams(mid) /\ \A t \in Stages \ {"inflate"} : mid[t] = stage[t]
        /\ mid["inflate"] = Hit("limit")
    BY <1>1, <1>3, DestroyEffect
  <2> HIDE DEF mid, src
  <2>4. /\ Streams(stage') /\ \A t \in Stages \ {src} : stage'[t] = mid[t]
        /\ stage'[src] = IF mid[src].is # "open" THEN mid[src] ELSE Hit("limit")
    BY <1>1, <2>1, <2>2, <2>3, DestroyEffect
  <2> QED BY <1>1, <1>2, <1>3, <2>1, <2>3, <2>4 DEF Touches, Streams, src
<1>4. CASE OutOf # "inflate"
  <2>1. stage' = Destroy(stage, OutOf, "none")
    BY <1>2, <1>4 DEF LimitDestroys
  <2>2. /\ Streams(stage') /\ \A t \in Stages \ {OutOf} : stage'[t] = stage[t]
        /\ stage'[OutOf] = Gone
    BY <1>1, <2>1, DestroyEffect
  <2>3. Touches({OutOf}) /\ Touches({OutOf, SourceOf("inflate")})
    BY <2>2 DEF Touches, Streams
  <2> QED BY <1>2, <1>4, <2>2, <2>3
<1> QED BY <1>3, <1>4

LEMMA LeaveEffect ==
  ASSUME Typed, CallerLeaves
  PROVE  /\ Streams(stage)' /\ stage'[OutOf].is # "open" /\ OutOf \in Stages
         /\ \A t \in Stages :
              \/ stage'[t] = stage[t]
              \/ /\ Used(t) /\ stage[t].is = "open"
                 /\ t = OutOf \/ (OutOf = "guard" /\ t = SourceOf("guard"))
                 /\ \/ stage'[t] = Gone /\ (t = "guard" => gen # "pulling")
                    \/ t = "guard" /\ gen = "pulling" /\ stage'[t] = Closing
<1>1. conf \in Confs /\ Streams(stage) /\ OutOf \in Stages /\ Used(OutOf)
  BY Out DEF Typed, Streams
<1>2. stage' = DestroyAny(stage, OutOf)
  BY DEF CallerLeaves
<1> QED BY <1>1, <1>2, DestroyAnyEffect DEF Streams

(***************************************************************************)
(* The guard's generator pulls while the guard is open or waits to close,  *)
(* and no more comes out of it than the limit.                             *)
(***************************************************************************)

Guarded ==
  /\ gen = "pulling" => stage["guard"].is \in {"open", "closing"}
  /\ "guard" \in ended => gen = "finished"
  /\ Streaming /\ Limited => GuardPassed <= conf.limit
  /\ Limited => got <= conf.limit

LEMMA GuardSource ==
  ASSUME Typed, Idle, Guarded, gen = "pulling"
  PROVE  /\ conf \in Confs /\ Used("guard") /\ "guard" \in Stages
         /\ SourceOf("guard") \in {"body", "meter", "inflate"}
         /\ Link(SourceOf("guard"), "guard") /\ Used(SourceOf("guard"))
         /\ stage["guard"].is \in {"open", "closing"}
<1>1. conf \in Confs /\ Used("guard") /\ "guard" \in Stages \ {"body"}
  BY DEF Typed, Idle, Stages
<1>2. SourceOf("guard") \in Stages /\ Link(SourceOf("guard"), "guard") /\ Used(SourceOf("guard"))
  BY <1>1, HasSource
<1>3. SourceOf("guard") \in {"body", "meter", "inflate"}
  BY <1>1, <1>2, Links DEF Stages
<1> QED BY <1>1, <1>2, <1>3 DEF Guarded

\* The streams when the generator has been through, if that is all.
GuardLet ==
  [stage EXCEPT !["guard"].is =
     IF stage["guard"].is = "closing" THEN "closed" ELSE stage["guard"].is]

LEMMA Unclosed ==
  ASSUME Typed, stage["guard"].is \in {"open", "closing"}
  PROVE  /\ Streams(GuardLet) /\ \A t \in Stages \ {"guard"} : GuardLet[t] = stage[t]
         /\ GuardLet["guard"] = IF stage["guard"].is = "closing" THEN Closed ELSE Open
<1> DEFINE is == IF stage["guard"].is = "closing" THEN "closed" ELSE stage["guard"].is
           st == GuardLet
           r == [stage["guard"] EXCEPT !.is = is]
<1>1. st = [stage EXCEPT !["guard"] = r]
  BY Zenon DEF GuardLet
<1>2. "guard" \in Stages /\ Sound(stage["guard"])
  BY DEF Stages, Typed
<1>3. r = IF stage["guard"].is = "closing" THEN Closed ELSE Open
  <2>1. CASE stage["guard"].is = "closing"
    BY <1>2, <2>1, ClosingForm
  <2>2. CASE stage["guard"].is = "open"
    <3>1. r = [Open EXCEPT !.is = "open"]
      BY <1>2, <2>2, SoundForms
    <3>2. [Open EXCEPT !.is = "open"] = Open
      BY DEF Open
    <3> QED BY <2>2, <3>1, <3>2
  <2> QED BY <2>1, <2>2
<1> HIDE DEF r
<1>4. Sound(r)
  BY <1>3, SoundForms, Forms
<1>5. st["guard"] = r /\ \A t \in Stages \ {"guard"} : st[t] = stage[t]
  BY <1>1, <1>2 DEF Typed
<1>6. Streams(st)
  <2> HIDE DEF st
  <2> QED BY <1>1, <1>4, <1>5 DEF Typed, Streams
<1> QED BY <1>3, <1>5, <1>6

LEMMA GuardTakesEffect ==
  ASSUME Typed, Idle, Guarded, GuardTakes
  PROVE  LET s == SourceOf("guard") IN
         /\ stage[s].is = "open" /\ ready[s] > 0
         /\ \/ /\ stage' = stage /\ gen' = "paused" /\ GuardPassed + 1 <= conf.limit
               /\ ready' = [ready EXCEPT ![s] = @ - 1, !["guard"] = @ + 1]
            \/ /\ Touches({"guard", s}) /\ stage'[s] = Gone
               /\ stage'["guard"] = IF stage["guard"].is = "closing" THEN Closed ELSE Hit("limit")
               /\ stage["guard"].is = "open" => GuardPassed + 1 > conf.limit
               /\ gen' = "finished" /\ ready' = [ready EXCEPT ![s] = @ - 1]
<1> DEFINE s == SourceOf("guard")
           st == GuardLet
           hit == Destroy(st, "guard", "limit")
<1>1. gen = "pulling"
  BY DEF GuardTakes
<1>2. /\ s \in Stages \ {"guard"} /\ "guard" \in Stages /\ stage["guard"].is \in {"open", "closing"}
      /\ conf \in Confs /\ "limit" \in Causes /\ "limit" # "none"
  BY <1>1, GuardSource DEF Stages, Causes
<1>3. stage[s].is = "open" /\ ready[s] > 0
  BY DEF GuardTakes
<1>4. GuardPassed \in Nat /\ conf.limit \in Nat
  BY <1>2 DEF GuardPassed, Typed, Stages, ConfType
<1>5. CASE GuardPassed + 1 > conf.limit
  <2>1. /\ stage' = Destroy(Destroy([stage EXCEPT !["guard"].is =
                        IF @ = "closing" THEN "closed" ELSE @], "guard", "limit"), s, "none")
        /\ gen' = "finished" /\ ready' = [ready EXCEPT ![s] = @ - 1]
    BY <1>5 DEF GuardTakes
  <2>2. stage' = Destroy(hit, s, "none")
    BY <2>1 DEF GuardLet
  <2>3. /\ Streams(st) /\ \A t \in Stages \ {"guard"} : st[t] = stage[t]
        /\ st["guard"] = IF stage["guard"].is = "closing" THEN Closed ELSE Open
    BY <1>2, Unclosed
  <2> HIDE DEF st
  <2>4. /\ Streams(hit) /\ \A t \in Stages \ {"guard"} : hit[t] = st[t]
        /\ hit["guard"] = IF stage["guard"].is = "closing" THEN Closed ELSE Hit("limit")
    BY <1>2, <2>3, DestroyEffect, Forms
  <2> HIDE DEF hit, s
  <2>5. /\ Streams(stage') /\ \A t \in Stages \ {s} : stage'[t] = hit[t]
        /\ stage'[s] = Gone
    BY <1>2, <1>3, <2>2, <2>3, <2>4, DestroyEffect
  <2>6. Touches({"guard", s})
    BY <2>3, <2>4, <2>5 DEF Touches, Streams
  <2> QED BY <1>2, <1>3, <1>5, <2>1, <2>4, <2>5, <2>6 DEF s
<1>6. CASE ~(GuardPassed + 1 > conf.limit) /\ stage["guard"].is = "closing"
  <2>1. /\ stage' = Destroy([stage EXCEPT !["guard"].is = "closed"], s, "none")
        /\ gen' = "finished" /\ ready' = [ready EXCEPT ![s] = @ - 1]
    BY <1>6 DEF GuardTakes
  <2>2. stage' = Destroy(st, s, "none")
    BY <1>6, <2>1 DEF GuardLet
  <2>3. /\ Streams(st) /\ \A t \in Stages \ {"guard"} : st[t] = stage[t]
        /\ st["guard"] = Closed
    BY <1>2, <1>6, Unclosed
  <2> HIDE DEF st, s
  <2>4. /\ Streams(stage') /\ \A t \in Stages \ {s} : stage'[t] = st[t] /\ stage'[s] = Gone
    BY SMTT(30), <1>2, <1>3, <2>2, <2>3, DestroyEffect
  <2>5. stage'["guard"] = Closed /\ Touches({"guard", s}) /\ stage'[s] = Gone
    BY <1>2, <1>3, <2>2, <2>3, <2>4, DestroyEffect DEF Touches, Streams
  <2> QED BY <1>2, <1>3, <1>6, <2>1, <2>5 DEF s
<1>7. CASE ~(GuardPassed + 1 > conf.limit) /\ stage["guard"].is # "closing"
  BY <1>3, <1>4, <1>7 DEF GuardTakes
<1> QED BY <1>5, <1>6, <1>7

LEMMA GuardStopsEffect ==
  ASSUME Typed, Idle, Guarded, GuardStops
  PROVE  LET s == SourceOf("guard") IN
         /\ Touches({"guard"}) /\ gen' = "finished"
         /\ \/ /\ stage[s].is = "ended" /\ ended' = ended \cup {"guard"}
               /\ stage'["guard"] = IF stage["guard"].is = "closing" THEN Closed ELSE Open
            \/ /\ stage[s].is = "failed" /\ ~stage[s].due /\ ended' = ended
               /\ stage'["guard"] = IF stage["guard"].is = "closing" THEN Closed
                                    ELSE Hit(stage[s].why)
<1> DEFINE s == SourceOf("guard")
           st == GuardLet
<1>1. gen = "pulling" /\ gen' = "finished"
  BY DEF GuardStops
<1>2. /\ s \in Stages \ {"guard"} /\ "guard" \in Stages /\ stage["guard"].is \in {"open", "closing"}
  BY <1>1, GuardSource DEF Stages
<1>3. /\ Streams(st) /\ \A t \in Stages \ {"guard"} : st[t] = stage[t]
      /\ st["guard"] = IF stage["guard"].is = "closing" THEN Closed ELSE Open
  BY <1>2, Unclosed
<1>4. CASE stage[s].is = "ended" /\ ended' = ended \cup {"guard"}
           /\ stage' = [stage EXCEPT !["guard"].is = IF @ = "closing" THEN "closed" ELSE @]
  <2>1. stage' = st
    BY <1>4 DEF GuardLet
  <2> HIDE DEF st
  <2>2. Touches({"guard"})
    BY <1>3, <2>1 DEF Touches, Streams
  <2> QED BY <1>1, <1>3, <1>4, <2>1, <2>2
<1>5. CASE /\ stage[s].is = "failed" /\ ~stage[s].due /\ ended' = ended
           /\ stage' = IF stage["guard"].is = "closing"
                       THEN [stage EXCEPT !["guard"].is = "closed"]
                       ELSE Destroy(stage, "guard", stage[s].why)
  <2>1. CASE stage["guard"].is = "closing"
    <3>1. stage' = st
      BY <1>5, <2>1 DEF GuardLet
    <3> HIDE DEF st
    <3>2. Touches({"guard"})
      BY <1>3, <3>1 DEF Touches, Streams
    <3> QED BY <1>1, <1>3, <1>5, <2>1, <3>1, <3>2
  <2>2. CASE stage["guard"].is = "open"
    <3>1. stage' = Destroy(stage, "guard", stage[s].why)
      BY <1>5, <2>2
    <3>2. stage[s].why \in Causes /\ stage[s].why # "none" /\ Streams(stage)
      BY <1>2, <1>5, Causing DEF Typed, Streams, Causes, Aborts
    <3>3. /\ Streams(stage') /\ \A t \in Stages \ {"guard"} : stage'[t] = stage[t]
          /\ stage'["guard"] = Hit(stage[s].why)
      BY <1>2, <2>2, <3>1, <3>2, DestroyEffect
    <3>4. Touches({"guard"})
      BY <3>3 DEF Touches, Streams
    <3> QED BY <1>1, <1>5, <2>2, <3>3, <3>4
  <2> QED BY <1>2, <2>1, <2>2
<1> QED BY <1>4, <1>5 DEF GuardStops

(***************************************************************************)
(* Steps.                                                                  *)
(***************************************************************************)

\* One way to take a step, with what the streams have to do with it.
LEMMA NextCases ==
  ASSUME Typed, Next
  PROVE  \/ ServerSends \/ ServerEnds \/ ServerBreaks
         \/ \E why \in Aborts : Abort(why)
         \/ CallerLeaves
         \/ \E s, t \in Stages : Link(s, t) /\ t \notin {"body", "guard"} /\ Pass(s, t)
         \/ MeterTransforms \/ InflateTransforms
         \/ \E s \in Stages : Ends(s)
         \/ GuardTakes \/ GuardStops
         \/ \E s \in Stages : Notify(s)
         \/ GuardAsks \/ TimerFires
         \/ ReaderTakes \/ ReaderEnds \/ ReaderHears
<1>1. ASSUME NEW l \in LinksOf[conf], l[2] # "guard", Pass(l[1], l[2])
      PROVE  \E s, t \in Stages : Link(s, t) /\ t \notin {"body", "guard"} /\ Pass(s, t)
  BY <1>1, LinkPair DEF Typed
<1> QED BY <1>1 DEF Next, Outside, Flow, Heard

\* Where a stream can go: open ones anywhere, others nowhere but that the
\* listeners run and that a guard that waits to close is closed.
Moves(t) ==
  \/ stage'[t] = stage[t]
  \/ stage[t].due /\ stage'[t] = [stage[t] EXCEPT !.due = FALSE]
  \/ /\ Used(t) /\ stage[t].is = "open"
     /\ \/ stage'[t].is \in {"failed", "closed"}
        \/ t = "guard" /\ stage'[t] = Closing
        \/ stage'[t] = Ended /\ Ends(t)
  \/ t = "guard" /\ stage[t].is = "closing" /\ stage'[t] = Closed

Pre == Typed /\ Idle /\ Guarded

LEMMA StageStep ==
  ASSUME Pre, Next
  PROVE  Streams(stage)' /\ \A t \in Stages : Moves(t)
<1> USE DEF Pre
<1>0. Streams(stage) /\ conf \in Confs /\ \A t \in Stages : Sound(stage[t])
  BY DEF Typed, Streams
<1>1. CASE stage' = stage
  BY <1>0, <1>1 DEF Moves, Streams
<1>2. CASE ServerBreaks
  <2>1. Used("body") /\ Hit("socket").is = "failed"
    BY <1>0, UsedWhen, Forms
  <2> QED BY <1>2, <2>1, BreakEffect DEF Touches, Moves
<1>3. ASSUME NEW why \in Aborts, Abort(why) PROVE Streams(stage)' /\ \A t \in Stages : Moves(t)
  <2>1. Hit(why).is = "failed"
    BY Forms
  <2> QED BY <1>3, <2>1, AbortEffect DEF Touches, Moves
<1>4. CASE CallerLeaves
  <2>1. Gone.is = "closed"
    BY Forms
  <2> QED BY <1>4, <2>1, LeaveEffect DEF Moves
<1>5. CASE InflateTransforms
  <2>1. Hit("decode").is = "failed"
    BY Forms
  <2> QED BY <1>0, <1>1, <1>5, <2>1, InflateEffect DEF Touches, Moves
<1>6. ASSUME NEW s \in Stages, Ends(s) PROVE Streams(stage)' /\ \A t \in Stages : Moves(t)
  <2> QED BY <1>6, EndsEffect DEF Touches, Moves
<1>7. CASE GuardTakes
  <2> DEFINE s == SourceOf("guard")
  <2>1. /\ s \in Stages /\ s # "guard" /\ Used(s) /\ Used("guard")
        /\ stage["guard"].is \in {"open", "closing"}
    BY <1>7, GuardSource DEF GuardTakes, Stages
  <2>2. Gone.is = "closed" /\ Hit("limit").is = "failed" /\ Closed.is = "closed"
    BY Forms
  <2>3. \/ stage' = stage
        \/ /\ stage[s].is = "open" /\ Touches({"guard", s}) /\ stage'[s] = Gone
           /\ stage'["guard"] = IF stage["guard"].is = "closing" THEN Closed ELSE Hit("limit")
    BY <1>7, GuardTakesEffect
  <2> HIDE DEF s
  <2> QED BY <1>1, <2>1, <2>2, <2>3 DEF Touches, Moves
<1>8. CASE GuardStops
  <2>1. Used("guard") /\ stage["guard"].is \in {"open", "closing"} /\ "guard" \in Stages
    BY <1>8, GuardSource DEF GuardStops
  <2>2. stage["guard"].is = "open" => stage["guard"] = Open
    BY <1>0, <2>1, SoundForms
  <2>3. \A why : Hit(why).is = "failed"
    BY Forms
  <2>4. /\ Touches({"guard"})
        /\ \/ stage'["guard"] = IF stage["guard"].is = "closing" THEN Closed ELSE Open
           \/ stage'["guard"] = IF stage["guard"].is = "closing" THEN Closed
                                ELSE Hit(stage[SourceOf("guard")].why)
    BY <1>8, GuardStopsEffect
  <2> QED BY <2>1, <2>2, <2>3, <2>4 DEF Touches, Moves
<1>9. ASSUME NEW s \in Stages, Notify(s) PROVE Streams(stage)' /\ \A t \in Stages : Moves(t)
  <2>1. NotifyEffects(s) /\ stage[s].due
    BY <1>9, NotifyEffect DEF Notify
  <2>2. ASSUME NEW t \in Stages \ {s} PROVE Moves(t)
    <3>1. CASE Follows(stage, s, TaggedBy(s), t, stage'[t])
      <4>1. Used(t)
        BY <1>0, <3>1, Links DEF Follows
      <4> QED BY <3>1, <4>1, Forms DEF Follows, Moves
    <3>2. CASE Recedes(stage, s, t, stage'[t])
      BY <3>2, Forms DEF Recedes, Moves
    <3> QED BY <2>1, <3>1, <3>2 DEF NotifyEffects, Moves
  <2> QED BY <2>1, <2>2 DEF NotifyEffects, Moves
<1>10. CASE ReaderTakes
  <2>1. CASE ~Streaming /\ Limited /\ got + 1 > conf.limit
    <3>1. \A why : Hit(why).is = "failed" /\ Gone.is = "closed"
      BY Forms
    <3>2. OutOf \in Stages /\ Used(OutOf) /\ stage[OutOf].is = "open"
      BY <1>0, <1>10, Out DEF ReaderTakes
    <3>3. CASE OutOf = "inflate"
      BY <1>10, <2>1, <3>1, <3>2, <3>3, LimitEffect DEF Touches, Moves
    <3>4. CASE OutOf # "inflate"
      BY <1>10, <2>1, <3>1, <3>2, <3>4, LimitEffect DEF Touches, Moves
    <3> QED BY <3>3, <3>4
  <2>2. CASE ~(~Streaming /\ Limited /\ got + 1 > conf.limit)
    BY <1>1, <1>10, <2>2 DEF ReaderTakes
  <2> QED BY <2>1, <2>2
<1>11. CASE \/ ServerSends \/ ServerEnds \/ MeterTransforms \/ GuardAsks
            \/ TimerFires \/ ReaderEnds \/ ReaderHears
            \/ \E s, t \in Stages : Link(s, t) /\ t \notin {"body", "guard"} /\ Pass(s, t)
  BY <1>1, <1>11 DEF ServerSends, ServerEnds, MeterTransforms, GuardAsks, TimerFires, ReaderEnds,
     ReaderHears, Pass
<1> QED BY <1>2, <1>3, <1>4, <1>5, <1>6, <1>7, <1>8, <1>9, <1>10, <1>11, NextCases

\* A stream that is through stays as it is.
LEMMA Settled ==
  ASSUME Pre, Next, NEW t \in Stages, stage[t].is \notin {"open", "closing"}
  PROVE  /\ stage'[t].is = stage[t].is /\ stage'[t].why = stage[t].why
         /\ stage'[t].due => stage[t].due
<1>1. Moves(t) /\ Sound(stage[t])
  BY StageStep DEF Pre, Typed
<1> QED BY <1>1 DEF Moves, Sound, StageRecs

LEMMA FixedStep ==
  ASSUME Next
  PROVE  /\ conf' = conf /\ OutOf' = OutOf
         /\ \A s : Used(s)' = Used(s) /\ SourceOf(s)' = SourceOf(s)
         /\ \A s, t : Link(s, t)' = Link(s, t)
<1>1. conf' = conf
  BY DEF Next, Outside, Flow, Heard, ServerSends, ServerEnds, ServerBreaks, Abort, CallerLeaves,
     Pass, MeterTransforms, InflateTransforms, Ends, GuardTakes, GuardStops, Notify, GuardAsks,
     TimerFires, ReaderTakes, ReaderEnds, ReaderHears
<1> QED BY <1>1 DEF OutOf, Used, SourceOf, Link

LEMMA Names ==
  /\ "body" \in Stages /\ "meter" \in Stages /\ "inflate" \in Stages
  /\ "guard" \in Stages /\ "wrapper" \in Stages
BY DEF Stages

LEMMA ConfTypes ==
  ASSUME conf \in Confs
  PROVE  /\ conf.size \in Nat \ {0} /\ conf.limit \in Nat /\ Inflation \in Nat \ {0}
         /\ conf.encoded \in BOOLEAN /\ conf.corrupt \in BOOLEAN
BY DEF ConfType, MaxSize

\* Counters, and which of them an action leaves alone.
Counters ==
  /\ server \in {"sending", "done", "broke"} /\ sent \in 0 .. conf.size
  /\ queue \in [Stages -> Nat] /\ ready \in [Stages -> Nat]
  /\ seen \in Nat /\ told \in Nat /\ waiting \in Nat /\ got \in Nat

LEMMA CountersStep ==
  ASSUME Pre, Next
  PROVE  Counters'
<1>1. Counters /\ conf' = conf /\ conf \in Confs /\ conf.size \in Nat /\ Inflation \in Nat
  BY FixedStep, ConfTypes DEF Counters, Pre, Typed
<1>2. CASE ServerSends \/ ServerEnds \/ ServerBreaks
  BY <1>1, <1>2, Names DEF Counters, ServerSends, ServerEnds, ServerBreaks, progressVars
<1>3. CASE \E why \in Aborts : Abort(why)
  BY <1>1, <1>3 DEF Counters, Abort, progressVars
<1>4. ASSUME NEW s \in Stages, NEW t \in Stages, Pass(s, t) PROVE Counters'
  <2> DEFINE into == IF t = "wrapper" THEN ready ELSE queue
             taken == IF stage[t].is = "open" THEN [into EXCEPT ![t] = @ + 1] ELSE into
  <2>1. taken \in [Stages -> Nat]
    BY <1>1 DEF Counters
  <2>2. /\ ready[s] > 0
        /\ queue' = IF t = "wrapper" THEN queue ELSE taken
        /\ ready' = [IF t = "wrapper" THEN taken ELSE ready EXCEPT ![s] = @ - 1]
        /\ UNCHANGED <<server, sent, seen, told, waiting, got>>
    BY <1>4 DEF Pass, progressVars
  <2>3. t = "wrapper" => taken[s] > 0
    BY <1>1, <2>2 DEF Counters
  <2> HIDE DEF taken
  <2>4. ready' \in [Stages -> Nat] /\ queue' \in [Stages -> Nat]
    BY <1>1, <2>1, <2>2, <2>3 DEF Counters
  <2> QED BY <1>1, <2>2, <2>4 DEF Counters
<1>5. CASE MeterTransforms
  <2>1. queue["meter"] > 0 /\ UNCHANGED <<server, sent, got>> /\ seen' = seen + 1
    BY <1>5 DEF MeterTransforms
  <2>2. queue' \in [Stages -> Nat] /\ ready' \in [Stages -> Nat]
    <3>1. CASE queue' = Remainder /\ ready' = [ready EXCEPT !["meter"] = @ + 1]
      BY <1>1, <2>1, <3>1, Names DEF Counters, Remainder
    <3>2. CASE queue' = [queue EXCEPT !["meter"] = 0] /\ UNCHANGED ready
      BY <1>1, <3>2 DEF Counters
    <3> QED BY <1>5, <3>1, <3>2 DEF MeterTransforms
  <2>3. told' \in Nat /\ waiting' \in Nat
    BY <1>1, <1>5 DEF Counters, MeterTransforms, Report, progressVars
  <2> QED BY <1>1, <2>1, <2>2, <2>3 DEF Counters
<1>6. CASE InflateTransforms
  <2>1. /\ queue["inflate"] > 0 /\ UNCHANGED <<server, sent, seen, told, waiting, got>>
        /\ \/ UNCHANGED <<queue, ready>>
           \/ /\ queue' = [queue EXCEPT !["inflate"] = @ - 1]
              /\ ready' = [ready EXCEPT !["inflate"] = @ + Inflation]
    BY <1>6 DEF InflateTransforms, progressVars
  <2>2. queue["inflate"] - 1 \in Nat /\ ready["inflate"] + Inflation \in Nat
    BY <1>1, <2>1, Names DEF Counters
  <2> QED BY <1>1, <2>1, <2>2 DEF Counters
<1>7. ASSUME NEW s \in Stages, Ends(s) PROVE Counters'
  BY <1>1, <1>7 DEF Counters, Ends, Flush, progressVars
<1>8. CASE GuardTakes
  <2>1. UNCHANGED <<server, sent, queue, seen, told, waiting, got>>
    BY <1>8 DEF GuardTakes, progressVars
  <2>2. SourceOf("guard") \in Stages /\ SourceOf("guard") # "guard" /\ ready[SourceOf("guard")] > 0
    BY <1>8, GuardSource, GuardTakesEffect DEF Pre, Stages, GuardTakes
  <2>3. \/ ready' = [ready EXCEPT ![SourceOf("guard")] = @ - 1, !["guard"] = @ + 1]
        \/ ready' = [ready EXCEPT ![SourceOf("guard")] = @ - 1]
    BY <1>8, GuardTakesEffect DEF Pre
  <2>4. ready' \in [Stages -> Nat]
    BY <1>1, <2>2, <2>3, Names DEF Counters
  <2> QED BY <1>1, <2>1, <2>4 DEF Counters
<1>9. CASE GuardStops \/ GuardAsks
  BY <1>1, <1>9 DEF Counters, GuardStops, GuardAsks, progressVars
<1>10. ASSUME NEW s \in Stages, Notify(s) PROVE Counters'
  BY <1>1, <1>10 DEF Counters, Notify, Flush, progressVars
<1>11. CASE TimerFires \/ ReaderEnds \/ ReaderHears \/ CallerLeaves
  <2>1. CASE TimerFires
    BY <1>1, <2>1 DEF Counters, TimerFires, Flush
  <2>2. CASE ReaderEnds \/ ReaderHears
    BY <1>1, <2>2 DEF Counters, ReaderEnds, ReaderHears, progressVars
  <2>3. CASE CallerLeaves
    BY <1>1, <2>3 DEF Counters, CallerLeaves, progressVars
  <2> QED BY <1>11, <2>1, <2>2, <2>3
<1>12. CASE ReaderTakes
  <2>1. /\ ready[OutOf] > 0 /\ ready' = [ready EXCEPT ![OutOf] = @ - 1]
        /\ UNCHANGED <<server, sent, queue, seen, told, waiting>>
        /\ got' = got \/ got' = got + 1
    BY <1>12 DEF ReaderTakes, progressVars
  <2>2. OutOf \in Stages
    BY <1>1, Out
  <2> QED BY <1>1, <2>1, <2>2 DEF Counters
<1> QED BY <1>2, <1>3, <1>4, <1>5, <1>6, <1>7, <1>8, <1>9, <1>10, <1>11, <1>12, NextCases DEF Pre

LEMMA TypedStep ==
  ASSUME Pre, Next
  PROVE  Typed'
<1>1. /\ Typed /\ conf' = conf /\ conf \in Confs
  BY FixedStep DEF Pre, Typed
<1>2. stage' = [s \in Stages |-> stage'[s]] /\ \A s \in Stages : Sound(stage'[s])
  BY StageStep DEF Streams
<1>3. gen' \in {"unstarted", "pulling", "paused", "finished"}
  BY <1>1 DEF Typed, Next, Outside, Flow, Heard, ServerSends, ServerEnds, ServerBreaks, Abort,
     CallerLeaves, Pass, MeterTransforms, InflateTransforms, Ends, GuardTakes, GuardStops, Notify,
     GuardAsks, TimerFires, ReaderTakes, ReaderEnds, ReaderHears, GenAfter
<1>4. bodyErroredFirst' \in BOOLEAN /\ tagged' \in BOOLEAN
  BY <1>1 DEF Typed, Next, Outside, Flow, Heard, ServerSends, ServerEnds, ServerBreaks, Abort,
     CallerLeaves, Pass, MeterTransforms, InflateTransforms, Ends, GuardTakes, GuardStops, Notify,
     GuardAsks, TimerFires, ReaderTakes, ReaderEnds, ReaderHears, TaggedBy
<1>5. aborted' \in {"none"} \cup Aborts
  BY <1>1 DEF Typed, Next, Outside, Flow, Heard, ServerSends, ServerEnds, ServerBreaks, Abort,
     CallerLeaves, Pass, MeterTransforms, InflateTransforms, Ends, GuardTakes, GuardStops, Notify,
     GuardAsks, TimerFires, ReaderTakes, ReaderEnds, ReaderHears
<1>6. ended' \subseteq Stages
  <2>1. ASSUME NEW s \in Stages, Ends(s) PROVE ended' \subseteq Stages
    <3>1. \A l \in LinksOf[conf] : l[2] \in Stages
      BY <1>1, LinkPair
    <3>2. ended' = ended \cup {l[2] : l \in {m \in LinksOf[conf] : m[1] = s /\ m[2] # "guard"}}
      BY <2>1 DEF Ends
    <3> QED BY <1>1, <3>1, <3>2 DEF Typed
  <2>2. CASE UNCHANGED ended
    BY <1>1, <2>2 DEF Typed
  <2>3. CASE ServerEnds \/ GuardStops \/ \E s \in Stages : Notify(s)
    BY <1>1, <2>3, Names DEF Typed, ServerEnds, GuardStops, Notify
  <2> QED BY <2>1, <2>2, <2>3 DEF Next, Outside, Flow, Heard, ServerSends, ServerBreaks, Abort,
     CallerLeaves, Pass, MeterTransforms, InflateTransforms, GuardTakes,
     GuardAsks, TimerFires, ReaderTakes, ReaderEnds, ReaderHears
<1>7. outcome' \in Outcomes
  <2>1. CASE UNCHANGED outcome
    BY <1>1, <2>1 DEF Typed
  <2>2. CASE ReaderTakes \/ CallerLeaves
    BY <1>1, <2>2 DEF Typed, ReaderTakes, CallerLeaves, Outcomes, Causes
  <2>3. CASE ReaderEnds
    BY <2>3 DEF ReaderEnds, Outcomes, Caught, Causes
  <2>4. CASE ReaderHears
    <3>1. OutOf \in Stages /\ stage[OutOf].is = "failed"
      BY <1>1, <2>4, Out DEF ReaderHears
    <3>2. stage[OutOf].why \in Causes
      BY <1>1, <3>1, Causing DEF Typed
    <3>3. outcome' \in Causes \cup {"ok"}
      BY <2>4, <3>2 DEF ReaderHears, Caught, Causes
    <3> QED BY <3>3 DEF Outcomes
  <2> QED BY <2>1, <2>2, <2>3, <2>4 DEF Next, Outside, Flow, Heard, ServerSends, ServerEnds,
     ServerBreaks, Abort, Pass, MeterTransforms, InflateTransforms, Ends, GuardTakes, GuardStops,
     Notify, GuardAsks, TimerFires
<1> QED BY <1>1, <1>2, <1>3, <1>4, <1>5, <1>6, <1>7, CountersStep DEF Typed, Counters

\* The chunks of a stream come from its source and go to the next.
LEMMA QueueMoves ==
  ASSUME Pre, Next, NEW u \in Stages
  PROVE  /\ queue'[u] > queue[u] => u \in {"meter", "inflate"} /\ Used(u) /\ stage[u].is = "open"
         /\ ready'[u] > ready[u] => /\ Used(u)
                                    /\ stage[u].is \in {"open", "closing"}
                                    /\ u = "body" => server = "sending"
<1>0. /\ conf \in Confs /\ queue \in [Stages -> Nat] /\ ready \in [Stages -> Nat]
      /\ Inflation \in Nat
  BY ConfTypes DEF Pre, Typed
<1>1. CASE UNCHANGED <<queue, ready>>
  BY <1>0, <1>1
<1>2. CASE ServerSends
  <2>1. /\ UNCHANGED queue /\ ready' = [ready EXCEPT !["body"] = @ + 1]
        /\ stage["body"].is = "open" /\ server = "sending"
    BY <1>2 DEF ServerSends
  <2> QED BY <1>0, <2>1, UsedWhen
<1>3. ASSUME NEW s \in Stages, NEW t \in Stages, Link(s, t), t \notin {"body", "guard"}, Pass(s, t)
      PROVE  /\ queue'[u] > queue[u] => u \in {"meter", "inflate"} /\ Used(u) /\ stage[u].is = "open"
             /\ ready'[u] > ready[u] => Used(u) /\ stage[u].is \in {"open", "closing"} /\ u # "body"
  <2>1. Used(t) /\ s # t /\ t \in {"meter", "inflate", "wrapper"}
    BY <1>0, <1>3, Links DEF Stages
  <2>2. CASE t = "wrapper"
    <3>1. /\ queue' = queue
          /\ ready' = [(IF stage[t].is = "open" THEN [ready EXCEPT ![t] = @ + 1] ELSE ready)
                       EXCEPT ![s] = @ - 1]
      BY <1>3, <2>2 DEF Pass
    <3> QED BY <1>0, <2>1, <2>2, <3>1
  <2>3. CASE t # "wrapper"
    <3>1. /\ queue' = IF stage[t].is = "open" THEN [queue EXCEPT ![t] = @ + 1] ELSE queue
          /\ ready' = [ready EXCEPT ![s] = @ - 1]
      BY <1>3, <2>3 DEF Pass
    <3> QED BY <1>0, <2>1, <2>3, <3>1
  <2> QED BY <2>2, <2>3
<1>4. CASE MeterTransforms
  <2>1. queue["meter"] > 0
    BY <1>4 DEF MeterTransforms
  <2>2. Used("meter")
    BY <2>1, Names DEF Pre, Idle
  <2>3. \/ /\ stage["meter"].is = "open" /\ queue' = [queue EXCEPT !["meter"] = @ - 1]
           /\ ready' = [ready EXCEPT !["meter"] = @ + 1]
        \/ queue' = [queue EXCEPT !["meter"] = 0] /\ ready' = ready
    BY <1>4 DEF MeterTransforms, Remainder
  <2> QED BY <1>0, <2>2, <2>3, Names
<1>5. CASE InflateTransforms
  <2>1. Used("inflate") /\ stage["inflate"].is = "open"
    BY <1>5, InflateEffect DEF Pre
  <2>2. \/ UNCHANGED <<queue, ready>>
        \/ /\ queue' = [queue EXCEPT !["inflate"] = @ - 1]
           /\ ready' = [ready EXCEPT !["inflate"] = @ + Inflation]
    BY <1>5 DEF InflateTransforms
  <2> QED BY <1>0, <2>1, <2>2, Names
<1>6. CASE GuardTakes
  <2>1. /\ SourceOf("guard") \in Stages /\ SourceOf("guard") # "guard" /\ Used("guard")
        /\ stage["guard"].is \in {"open", "closing"}
    BY <1>6, GuardSource DEF Pre, Stages, GuardTakes
  <2>2. \/ ready' = [ready EXCEPT ![SourceOf("guard")] = @ - 1, !["guard"] = @ + 1]
        \/ ready' = [ready EXCEPT ![SourceOf("guard")] = @ - 1]
    BY <1>6, GuardTakesEffect DEF Pre
  <2>3. UNCHANGED queue
    BY <1>6 DEF GuardTakes
  <2> QED BY <1>0, <2>1, <2>2, <2>3, Names
<1>7. CASE ReaderTakes
  <2>1. OutOf \in Stages /\ UNCHANGED queue /\ ready' = [ready EXCEPT ![OutOf] = @ - 1]
    BY <1>0, <1>7, Out DEF ReaderTakes
  <2> QED BY <1>0, <2>1
<1>8. CASE \/ ServerEnds \/ ServerBreaks \/ (\E why \in Aborts : Abort(why)) \/ CallerLeaves
           \/ (\E s \in Stages : Ends(s)) \/ GuardStops \/ (\E s \in Stages : Notify(s))
           \/ GuardAsks \/ TimerFires \/ ReaderEnds \/ ReaderHears
  BY <1>1, <1>8 DEF ServerEnds, ServerBreaks, Abort, CallerLeaves, Ends, GuardStops, Notify,
     GuardAsks, TimerFires, ReaderEnds, ReaderHears
<1> QED BY <1>2, <1>3, <1>4, <1>5, <1>6, <1>7, <1>8, NextCases DEF Pre

\* What ends: the body by the server's word, the others by their source, or
\* the meter because nothing is missing.
LEMMA EndedMoves ==
  ASSUME Pre, Next, NEW t \in Stages, t \in ended', t \notin ended
  PROVE  /\ Used(t)
         /\ t = "body" => sent = conf.size /\ server = "sending" /\ server' = "done"
         /\ t # "body" =>
              \/ Link(SourceOf(t), t) /\ stage'[SourceOf(t)].is = "ended"
                 /\ SourceOf(t) \in Stages
              \/ /\ t = "meter" /\ stage["body"].is = "failed" /\ seen >= conf.size
                 /\ stage["body"].why = "socket"
         /\ t = "guard" => gen' = "finished"
<1>0. conf \in Confs
  BY DEF Pre, Typed
<1>1. CASE ServerEnds
  BY <1>0, <1>1, UsedWhen DEF ServerEnds
<1>2. ASSUME NEW s \in Stages, Ends(s)
      PROVE  Link(s, t) /\ t # "guard" /\ SourceOf(t) = s /\ stage'[s].is = "ended" /\ Used(t) /\ t # "body"
  <2>1. PICK l \in LinksOf[conf] : l[1] = s /\ l[2] = t /\ l[2] # "guard"
    BY <1>2 DEF Ends
  <2>2. Link(s, t)
    BY <1>0, <2>1, LinkPair
  <2>3. stage'[s].is = "ended"
    BY <1>2, EndsEffect, Forms DEF Pre
  <2> QED BY <1>0, <2>1, <2>2, <2>3, Source, Links
<1>3. CASE GuardStops
  <2>1. t = "guard" /\ Used(t) /\ stage[SourceOf(t)].is = "ended" /\ gen' = "finished"
    BY <1>3, GuardStopsEffect, GuardSource DEF Pre, GuardStops
  <2>2. SourceOf(t) \in Stages /\ Link(SourceOf(t), t)
    BY <1>0, <2>1, HasSource
  <2>3. stage'[SourceOf(t)].is = "ended"
    BY <2>1, <2>2, Settled
  <2> QED BY <2>1, <2>2, <2>3
<1>4. ASSUME NEW s \in Stages, Notify(s)
      PROVE  t = "meter" /\ Used(t) /\ stage["body"].is = "failed" /\ seen >= conf.size
             /\ stage["body"].why = "socket"
  <2>1. t = "meter" /\ Metered /\ FalseAlarm
    BY <1>4 DEF Notify
  <2>2. Sound(stage["body"])
    BY Names DEF Pre, Typed
  <2>3. stage["body"].is = "failed"
    BY <2>1, <2>2 DEF FalseAlarm, Sound, StageRecs
  <2> QED BY <1>0, <2>1, <2>3, UsedWhen DEF FalseAlarm
<1>5. CASE UNCHANGED ended
  BY <1>5
<1> QED BY <1>1, <1>2, <1>3, <1>4, <1>5, NextCases DEF Pre, ServerSends, ServerBreaks, Abort,
   CallerLeaves, Pass, MeterTransforms, InflateTransforms, GuardTakes,
   GuardAsks, TimerFires, ReaderTakes, ReaderEnds, ReaderHears

LEMMA IdleStep ==
  ASSUME Pre, Next
  PROVE  Idle'
<1>1. \A s : Used(s)' = Used(s)
  BY FixedStep
<1>2. Counters /\ Counters'
  BY CountersStep DEF Pre, Typed, Counters
<1>3. ASSUME NEW s \in Stages, ~Used(s)
      PROVE  stage'[s] = Open /\ queue'[s] = 0 /\ ready'[s] = 0 /\ s \notin ended'
  <2>1. stage[s] = Open /\ queue[s] = 0 /\ ready[s] = 0 /\ s \notin ended
    BY <1>3 DEF Pre, Idle
  <2>2. stage'[s] = Open
    BY <1>3, <2>1, StageStep, Forms DEF Moves
  <2>3. ~(queue'[s] > queue[s]) /\ ~(ready'[s] > ready[s])
    BY <1>3, QueueMoves
  <2>4. queue'[s] = 0 /\ ready'[s] = 0
    BY <1>2, <2>1, <2>3 DEF Counters
  <2>5. s \notin ended'
    BY <1>3, <2>1, EndedMoves
  <2> QED BY <2>2, <2>4, <2>5
<1>4. ASSUME NEW s \in Stages \ {"meter", "inflate"} PROVE queue'[s] = 0
  <2>1. queue[s] = 0 /\ ~(queue'[s] > queue[s])
    BY QueueMoves DEF Pre, Idle
  <2> QED BY <1>2, <2>1 DEF Counters
<1>5. gen' # "unstarted" => Used("guard")
  <2>1. CASE GuardAsks \/ GuardTakes \/ GuardStops
    BY <2>1, GuardSource DEF GuardAsks, GuardTakes, GuardStops, Pre
  <2>2. CASE CallerLeaves
    <3>1. stage'["guard"] = stage["guard"] \/ Used("guard")
      BY <2>2, LeaveEffect, Names DEF Pre
    <3>2. stage["guard"] = Open \/ Used("guard")
      BY Names DEF Pre, Idle
    <3> QED BY <2>2, <3>1, <3>2, Forms DEF CallerLeaves, GenAfter, Pre, Idle
  <2>3. ASSUME NEW s \in Stages, Notify(s) PROVE gen' # "unstarted" => Used("guard")
    <3>1. ~Used("guard") => stage'["guard"] = Open
      BY <1>3, Names
    <3> QED BY <2>3, <3>1, Forms DEF Notify, GenAfter, Pre, Idle
  <2>4. CASE UNCHANGED gen
    BY <2>4 DEF Pre, Idle
  <2> QED BY <2>1, <2>2, <2>3, <2>4, NextCases DEF Pre, ServerSends, ServerEnds, ServerBreaks,
     Abort, Pass, MeterTransforms, InflateTransforms, Ends, TimerFires,
     ReaderTakes, ReaderEnds, ReaderHears
<1> QED BY <1>1, <1>3, <1>4, <1>5 DEF Idle

LEMMA GuardedStep ==
  ASSUME Pre, Next
  PROVE  Guarded'
<1>0. /\ conf' = conf /\ conf \in Confs /\ Counters /\ Counters' /\ conf.limit \in Nat
      /\ Sound(stage["guard"])
  BY FixedStep, CountersStep, ConfTypes, Names DEF Pre, Typed, Counters
<1>1. gen' = "pulling" => stage'["guard"].is \in {"open", "closing"}
  <2>1. CASE UNCHANGED <<stage, gen>>
    BY <2>1 DEF Pre, Guarded
  <2>2. CASE GuardAsks
    BY <2>2 DEF GuardAsks
  <2>3. CASE GuardTakes \/ GuardStops
    BY <2>3, GuardTakesEffect, GuardStopsEffect DEF Pre
  <2>4. CASE CallerLeaves
    BY <2>4, LeaveEffect, Names, Forms DEF Pre, Guarded, CallerLeaves, GenAfter
  <2>5. ASSUME NEW s \in Stages, Notify(s), gen' = "pulling"
        PROVE  stage'["guard"].is \in {"open", "closing"}
    <3>1. gen = "pulling" /\ NotifyEffects(s) /\ stage[s].due
      BY <2>5, NotifyEffect DEF Notify, GenAfter, Pre
    <3>2. stage["guard"].is \in {"open", "closing"} /\ s # "guard"
      BY <1>0, <3>1 DEF Pre, Guarded, Sound
    <3>3. ~Follows(stage, s, TaggedBy(s), "guard", stage'["guard"])
      BY DEF Follows
    <3>4. ASSUME Recedes(stage, s, "guard", stage'["guard"]) PROVE stage'["guard"] = Closing
      BY <1>0, <3>1, <3>4, Links DEF Recedes
    <3> QED BY <3>1, <3>2, <3>3, <3>4, Names, Forms DEF NotifyEffects
  <2>6. ASSUME gen' = gen, gen = "pulling", stage'["guard"] = stage["guard"]
        PROVE  stage'["guard"].is \in {"open", "closing"}
    BY <2>6 DEF Pre, Guarded
  <2>7. CASE ServerBreaks \/ (\E why \in Aborts : Abort(why)) \/ InflateTransforms
    <3>1. stage'["guard"] = stage["guard"]
      BY <2>7, BreakEffect, AbortEffect, InflateEffect, Names DEF Touches, Pre
    <3>2. gen' = gen
      BY <2>7 DEF ServerBreaks, Abort, InflateTransforms
    <3> QED BY <2>6, <3>1, <3>2
  <2>8. ASSUME NEW s \in Stages, Ends(s), gen' = "pulling"
        PROVE  stage'["guard"].is \in {"open", "closing"}
    <3>1. gen' = gen /\ s # "guard"
      BY <2>8 DEF Ends, Pre, Guarded
    <3>2. stage'["guard"] = stage["guard"]
      BY <2>8, <3>1, EndsEffect, Names DEF Touches, Pre
    <3> QED BY <2>6, <2>8, <3>1, <3>2
  <2>9. ASSUME ReaderTakes, gen' = "pulling" PROVE stage'["guard"].is \in {"open", "closing"}
    <3>1. gen = "pulling"
      BY <2>9 DEF ReaderTakes
    <3>2. Streaming
      BY <1>0, <3>1, GuardSource, UsedWhen DEF Pre
    <3>3. UNCHANGED <<stage, gen>>
      BY <2>9, <3>2 DEF ReaderTakes
    <3> QED BY <2>1, <2>9, <3>3
  <2> QED BY <2>1, <2>2, <2>3, <2>4, <2>5, <2>7, <2>8, <2>9, NextCases DEF Pre, ServerSends,
     ServerEnds, Pass, MeterTransforms, TimerFires, ReaderEnds, ReaderHears
<1>2. "guard" \in ended' => gen' = "finished"
  <2>1. ASSUME "guard" \in ended PROVE gen' = "finished"
    <3>1. gen = "finished"
      BY <2>1 DEF Pre, Guarded
    <3> QED BY <3>1, NextCases DEF Pre, ServerSends, ServerEnds, ServerBreaks, Abort, CallerLeaves,
         Pass, MeterTransforms, InflateTransforms, Ends, GuardTakes, GuardStops, Notify, GuardAsks,
         TimerFires, ReaderTakes, ReaderEnds, ReaderHears, GenAfter
  <2> QED BY <2>1, EndedMoves, Names
<1>3. ASSUME Streaming, Limited PROVE GuardPassed' <= conf.limit
  <2>0. GuardPassed <= conf.limit /\ Used("guard") /\ OutOf \in {"guard", "wrapper"}
    BY <1>0, <1>3, UsedWhen, Out DEF Pre, Guarded
  <2>1. ASSUME ready'["guard"] <= ready["guard"], ready'["wrapper"] <= ready["wrapper"], got' = got
        PROVE  GuardPassed' <= conf.limit
    BY <1>0, <2>0, <2>1, Names DEF GuardPassed, Counters
  <2>2. ASSUME NEW s \in Stages, NEW t \in Stages, Link(s, t), t \notin {"body", "guard"}, Pass(s, t)
        PROVE  GuardPassed' <= conf.limit
    <3>1. t = "wrapper" => s = "guard" /\ Used("wrapper")
      BY <1>0, <2>0, <2>2, Links DEF Stages
    <3>2. CASE t = "wrapper"
      <4>1. stage[t].is = "open" /\ ready[s] > 0 /\ got' = got
            /\ ready' = [[ready EXCEPT !["wrapper"] = @ + 1] EXCEPT !["guard"] = @ - 1]
        BY <2>2, <3>1, <3>2 DEF Pass
      <4> QED BY <1>0, <2>0, <4>1, Names DEF GuardPassed, Counters
    <3>3. CASE t # "wrapper"
      <4>1. ready[s] > 0 /\ ready' = [ready EXCEPT ![s] = @ - 1] /\ got' = got
        BY <2>2, <3>3 DEF Pass
      <4> QED BY <1>0, <2>1, <4>1, Names DEF Counters
    <3> QED BY <3>2, <3>3
  <2>3. CASE ReaderTakes
    <3>1. ready[OutOf] > 0 /\ ready' = [ready EXCEPT ![OutOf] = @ - 1] /\ got' = got + 1
      BY <1>3, <2>3 DEF ReaderTakes
    <3> QED BY <1>0, <2>0, <3>1, Names DEF GuardPassed, Counters
  <2>4. CASE GuardTakes
    <3> DEFINE s == SourceOf("guard")
    <3>1. s \in {"body", "meter", "inflate"} /\ s \in Stages /\ got' = got
      BY <2>4, GuardSource DEF Pre, GuardTakes, Stages
    <3>2. /\ ready[s] > 0
          /\ \/ /\ GuardPassed + 1 <= conf.limit
                /\ ready' = [ready EXCEPT ![s] = @ - 1, !["guard"] = @ + 1]
             \/ ready' = [ready EXCEPT ![s] = @ - 1]
      BY <2>4, GuardTakesEffect DEF Pre
    <3> HIDE DEF s
    <3> QED BY <1>0, <2>0, <3>1, <3>2, Names DEF GuardPassed, Counters
  <2>5. CASE ServerSends
    BY <1>0, <2>1, <2>5, Names DEF Counters, ServerSends
  <2>6. CASE MeterTransforms
    <3>1. \/ ready' = [ready EXCEPT !["meter"] = @ + 1]
          \/ ready' = ready
      BY <2>6 DEF MeterTransforms
    <3>2. got' = got
      BY <2>6 DEF MeterTransforms
    <3> QED BY <1>0, <2>1, <3>1, <3>2, Names DEF Counters
  <2>7. CASE InflateTransforms
    <3>1. \/ ready' = [ready EXCEPT !["inflate"] = @ + Inflation]
          \/ ready' = ready
      BY <2>7 DEF InflateTransforms
    <3>2. got' = got
      BY <2>7 DEF InflateTransforms
    <3> QED BY <1>0, <2>1, <3>1, <3>2, Names DEF Counters
  <2>8. CASE UNCHANGED <<ready, got>>
    BY <1>0, <2>1, <2>8, Names DEF Counters
  <2> QED BY <2>2, <2>3, <2>4, <2>5, <2>6, <2>7, <2>8, NextCases DEF Pre, ServerEnds, ServerBreaks,
     Abort, CallerLeaves, Ends, GuardStops, Notify, GuardAsks, TimerFires, ReaderEnds, ReaderHears
<1>4. ASSUME Limited PROVE got' <= conf.limit
  <2>1. CASE Streaming
    <3>1. GuardPassed' <= conf.limit
      BY <1>3, <1>4, <2>1
    <3> QED BY <1>0, <3>1, Names DEF GuardPassed, Counters
  <2>2. CASE ~Streaming /\ ReaderTakes
    BY <1>0, <1>4, <2>2 DEF ReaderTakes, Pre, Guarded, Counters
  <2>3. CASE got' = got
    BY <1>4, <2>3 DEF Pre, Guarded
  <2> QED BY <2>1, <2>2, <2>3, NextCases DEF Pre, ServerSends, ServerEnds, ServerBreaks, Abort,
     CallerLeaves, Pass, MeterTransforms, InflateTransforms, Ends, GuardTakes, GuardStops, Notify,
     GuardAsks, TimerFires, ReaderEnds, ReaderHears
<1> QED BY <1>0, <1>1, <1>2, <1>3, <1>4 DEF Guarded, Streaming, Limited

LEMMA PreInit == Init => Pre
<1> SUFFICES ASSUME Init PROVE Pre
  OBVIOUS
<1>1. conf \in Confs /\ conf.size \in Nat /\ conf.limit \in Nat
  BY ConfTypes DEF Init
<1>2. Typed
  <2>1. stage = [s \in Stages |-> stage[s]] /\ \A s \in Stages : Sound(stage[s])
    BY SoundForms DEF Init
  <2>2. queue \in [Stages -> Nat] /\ ready \in [Stages -> Nat] /\ sent \in 0 .. conf.size
    BY <1>1 DEF Init
  <2> QED BY <1>1, <2>1, <2>2 DEF Init, Typed, Outcomes
<1>3. Idle
  BY DEF Init, Idle
<1>4. Guarded
  BY <1>1, Names DEF Init, Guarded, GuardPassed
<1> QED BY <1>2, <1>3, <1>4 DEF Pre

LEMMA PreStep ==
  ASSUME Pre, [Next]_vars
  PROVE  Pre'
<1>1. CASE Next
  BY <1>1, TypedStep, IdleStep, GuardedStep DEF Pre
<1>2. CASE UNCHANGED vars
  <2>1. /\ UNCHANGED <<conf, server, sent, stage, queue, ready, ended, gen, bodyErroredFirst>>
        /\ UNCHANGED <<tagged, seen, told, waiting, got, aborted, outcome>>
    BY <1>2 DEF vars
  <2>2. Typed'
    BY <2>1 DEF Pre, Typed, Sound
  <2>3. Idle'
    BY <2>1 DEF Pre, Idle, Used
  <2>4. Guarded'
    BY <2>1 DEF Pre, Guarded, Streaming, Limited, GuardPassed
  <2> QED BY <2>2, <2>3, <2>4 DEF Pre
<1> QED BY <1>1, <1>2

(***************************************************************************)
(* The caller is given no more than maxContentLength decompressed chunks.  *)
(***************************************************************************)
THEOREM NoMoreThanTheLimit == Spec => []WithinLimit
<1>1. Pre => WithinLimit
  BY DEF Pre, Guarded, WithinLimit
<1> QED BY <1>1, PreInit, PreStep, PTL DEF Spec

(***************************************************************************)
(* What has ended: a stream ends when its source has, the first one when   *)
(* the server has, and then nothing is left in it.                         *)
(***************************************************************************)

Chained ==
  /\ "body" \in ended => server = "done" /\ sent = conf.size
  /\ \A t \in ended \ {"body"} :
       \/ SourceOf(t) \in Stages /\ stage[SourceOf(t)].is = "ended"
       \/ /\ t = "meter" /\ stage["body"].is = "failed" /\ stage["body"].why = "socket"
          /\ seen >= conf.size
  /\ \A s \in Stages : stage[s].is = "ended" => s \in ended /\ queue[s] = 0 /\ ready[s] = 0
  /\ \A s \in Stages \ {"guard"} : stage[s].is # "closing"

LEMMA ChainedStep ==
  ASSUME Pre, Chained, Next
  PROVE  Chained'
<1>0. /\ conf' = conf /\ conf \in Confs /\ Counters /\ Counters' /\ ended \subseteq Stages
      /\ ended' \subseteq Stages /\ conf.size \in Nat
      /\ \A t : SourceOf(t)' = SourceOf(t)
  BY FixedStep, CountersStep, TypedStep, ConfTypes DEF Pre, Typed, Counters
<1>1. ASSUME "body" \in ended' PROVE server' = "done" /\ sent' = conf.size
  <2>1. CASE "body" \notin ended
    <3>1. sent = conf.size /\ server = "sending" /\ server' = "done"
      BY <1>1, <2>1, EndedMoves, Names
    <3>2. sent' = sent
      BY <1>0, <3>1, NextCases DEF Pre, ServerSends, ServerEnds, ServerBreaks, Abort, CallerLeaves,
         Pass, MeterTransforms, InflateTransforms, Ends, GuardTakes, GuardStops, Notify,
         GuardAsks, TimerFires, ReaderTakes, ReaderEnds, ReaderHears
    <3> QED BY <3>1, <3>2
  <2>2. CASE "body" \in ended
    <3>1. server = "done" /\ sent = conf.size
      BY <2>2 DEF Chained
    <3> QED BY <3>1, NextCases DEF Pre, ServerSends, ServerEnds, ServerBreaks, Abort, CallerLeaves,
         Pass, MeterTransforms, InflateTransforms, Ends, GuardTakes, GuardStops, Notify,
         GuardAsks, TimerFires, ReaderTakes, ReaderEnds, ReaderHears
  <2> QED BY <2>1, <2>2
<1>2. seen' = seen \/ seen' = seen + 1
  BY NextCases DEF Pre, ServerSends, ServerEnds, ServerBreaks, Abort, CallerLeaves,
     Pass, MeterTransforms, InflateTransforms, Ends, GuardTakes, GuardStops, Notify,
     GuardAsks, TimerFires, ReaderTakes, ReaderEnds, ReaderHears
<1>3. ASSUME NEW t \in ended' \ {"body"}
      PROVE  \/ SourceOf(t) \in Stages /\ stage'[SourceOf(t)].is = "ended"
             \/ /\ t = "meter" /\ stage'["body"].is = "failed" /\ stage'["body"].why = "socket"
                /\ seen' >= conf.size
  <2>1. \/ SourceOf(t) \in Stages /\ stage'[SourceOf(t)].is = "ended"
        \/ SourceOf(t) \in Stages /\ stage[SourceOf(t)].is = "ended"
        \/ /\ t = "meter" /\ stage["body"].is = "failed" /\ stage["body"].why = "socket"
           /\ seen >= conf.size
    <3>1. CASE t \in ended
      BY <3>1 DEF Chained
    <3>2. CASE t \notin ended
      BY <1>0, <3>2, EndedMoves
    <3> QED BY <3>1, <3>2
  <2> QED BY <1>0, <1>2, <2>1, Settled, Names DEF Counters
<1>4. ASSUME NEW s \in Stages, stage'[s].is = "ended"
      PROVE  s \in ended' /\ queue'[s] = 0 /\ ready'[s] = 0
  <2>1. CASE stage[s].is = "ended"
    <3>1. s \in ended /\ queue[s] = 0 /\ ready[s] = 0
      BY <2>1 DEF Chained
    <3>2. ~(queue'[s] > queue[s]) /\ ~(ready'[s] > ready[s])
      BY <2>1, QueueMoves
    <3>3. ended \subseteq ended'
      BY NextCases DEF Pre, ServerSends, ServerEnds, ServerBreaks, Abort, CallerLeaves,
         Pass, MeterTransforms, InflateTransforms, Ends, GuardTakes, GuardStops, Notify,
         GuardAsks, TimerFires, ReaderTakes, ReaderEnds, ReaderHears
    <3> QED BY <1>0, <3>1, <3>2, <3>3 DEF Counters
  <2>2. CASE stage[s].is # "ended"
    <3>0. Moves(s) /\ Sound(stage[s])
      BY StageStep DEF Pre, Typed
    <3>1. Ends(s)
      BY <1>4, <2>2, <3>0, Forms DEF Moves, Sound, StageRecs
    <3> QED BY <3>1 DEF Ends
  <2> QED BY <2>1, <2>2
<1>5. ASSUME NEW s \in Stages \ {"guard"} PROVE stage'[s].is # "closing"
  <2>1. Moves(s) /\ Sound(stage[s]) /\ stage[s].is # "closing"
    BY StageStep DEF Pre, Typed, Chained
  <2> QED BY <2>1, Forms DEF Moves, Sound, StageRecs
<1> QED BY <1>0, <1>1, <1>3, <1>4, <1>5 DEF Chained

(***************************************************************************)
(* Volumes. What the server has sent is in one of the streams or has been  *)
(* given to the reader, unless something was lost, and there is never more *)
(* of it: before the decompressor it is counted Unit times.                *)
(***************************************************************************)

Unit == IF Used("inflate") THEN Inflation ELSE 1
Squeezed == ready["body"] + queue["meter"] + ready["meter"] + queue["inflate"]
Loose == ready["inflate"] + ready["guard"] + ready["wrapper"] + got

\* How chunks get lost: destroyed streams drop what comes, limits what is too much.
Lost ==
  \/ stage["meter"].is \in {"failed", "closed"}
  \/ stage["guard"].is \in {"failed", "closed"}
  \/ outcome = "limit"

LEMMA LostStep ==
  ASSUME Pre, Next, Lost
  PROVE  Lost'
<1>1. outcome # "reading" => outcome' = outcome
  BY NextCases DEF Pre, ServerSends, ServerEnds, ServerBreaks, Abort, CallerLeaves,
     Pass, MeterTransforms, InflateTransforms, Ends, GuardTakes, GuardStops, Notify,
     GuardAsks, TimerFires, ReaderTakes, ReaderEnds, ReaderHears
<1> QED BY <1>1, Settled, Names DEF Lost

\* What a step does to the volumes.
VolumeMoves ==
  \/ sent' = sent + 1 /\ Squeezed' = Squeezed + 1 /\ Loose' = Loose
  \/ sent' = sent /\ Squeezed' = Squeezed /\ Loose' = Loose
  \/ /\ sent' = sent /\ Squeezed = Squeezed' + 1 /\ Loose' = Loose + Unit
     /\ Used("inflate") => ~conf.corrupt
  \/ sent' = sent /\ Squeezed' <= Squeezed /\ Loose' <= Loose /\ Lost'

LEMMA VolumeTypes ==
  /\ Counters => Squeezed \in Nat /\ Loose \in Nat
  /\ conf \in Confs => Unit \in Nat \ {0}
BY Names, ConfTypes DEF Counters, Squeezed, Loose, Unit

LEMMA PassVolume ==
  ASSUME Pre, Chained, NEW s \in Stages, NEW t \in Stages, Link(s, t),
         t \notin {"body", "guard"}, Pass(s, t), Next
  PROVE  VolumeMoves
<1> USE DEF VolumeMoves
<1>0. /\ conf \in Confs /\ Counters /\ Counters' /\ Sound(stage[t]) /\ Inflation \in Nat
  BY CountersStep, ConfTypes DEF Pre, Typed, Counters
<1>1. /\ t = "meter" => s = "body" /\ Used("meter")
      /\ t = "inflate" => s \in {"body", "meter"} /\ (s = "body" => ~Used("meter"))
      /\ t = "wrapper" => Used("wrapper") /\ (s \in {"body", "meter"} => ~Used("inflate"))
      /\ s # "wrapper" /\ t \in {"meter", "inflate", "wrapper"} /\ s # t
  BY <1>0, Links DEF Stages
<1>2. t # "meter" => ~(s = "body" /\ Drains)
  BY <1>0, <1>1, UsedWhen DEF Drains
<1>3. ready[s] > 0 /\ UNCHANGED <<sent, got, stage, outcome>> /\ stage[s].is = "open"
  BY DEF Pass
<1>4. CASE t = "wrapper"
  <2>1. ready' = [[ready EXCEPT !["wrapper"] = @ + 1] EXCEPT ![s] = @ - 1] /\ queue' = queue
    BY <1>2, <1>4 DEF Pass
  <2>2. s \in {"body", "meter"} => Unit = 1 /\ ~Used("inflate")
    BY <1>1, <1>4 DEF Unit
  <2>3. /\ ready'["wrapper"] = ready["wrapper"] + 1 /\ ready'[s] = ready[s] - 1
        /\ \A u \in Stages \ {s, "wrapper"} : ready'[u] = ready[u]
    BY <1>0, <1>1, <1>4, <2>1, Names DEF Counters
  <2>4. CASE s \in {"body", "meter"}
    BY <1>0, <1>3, <2>1, <2>2, <2>3, <2>4, Names DEF Counters, Squeezed, Loose
  <2>5. CASE s = "inflate"
    BY <1>0, <1>3, <2>1, <2>3, <2>5, Names DEF Counters, Squeezed, Loose
  <2>6. CASE s = "guard"
    BY <1>0, <1>3, <2>1, <2>3, <2>6, Names DEF Counters, Squeezed, Loose
  <2> QED BY <1>1, <2>4, <2>5, <2>6 DEF Stages
<1>5. CASE t = "inflate"
  <2>1. /\ queue' = [queue EXCEPT !["inflate"] = @ + 1] /\ ready' = [ready EXCEPT ![s] = @ - 1]
    BY <1>2, <1>5 DEF Pass
  <2> QED BY <1>0, <1>1, <1>3, <1>5, <2>1, Names DEF Counters, Squeezed, Loose
<1>6. CASE t = "meter" /\ stage[t].is = "open"
  <2>1. /\ queue' = [queue EXCEPT !["meter"] = @ + 1] /\ ready' = [ready EXCEPT !["body"] = @ - 1]
    BY <1>1, <1>6 DEF Pass
  <2> QED BY <1>0, <1>1, <1>3, <1>6, <2>1, Names DEF Counters, Squeezed, Loose
<1>7. CASE t = "meter" /\ stage[t].is # "open"
  <2>1. queue' = queue /\ ready' = [ready EXCEPT !["body"] = @ - 1]
    BY <1>1, <1>7 DEF Pass
  <2>2. stage[t].is \notin {"ended", "closing"}
    <3>1. stage["meter"].is # "closing"
      BY Names DEF Chained
    <3>2. ASSUME stage["meter"].is = "ended" PROVE FALSE
      <4>1. "meter" \in ended \ {"body"}
        BY <3>2, Names DEF Chained
      <4>2. SourceOf("meter") = "body"
        BY <1>0, <1>1, <1>7, Source, Names
      <4>3. stage["body"].is \in {"ended", "failed"}
        BY <4>1, <4>2 DEF Chained
      <4> QED BY <1>1, <1>3, <1>7, <4>3
    <3> QED BY <1>7, <3>1, <3>2
  <2>3. Lost'
    BY <1>0, <1>3, <1>7, <2>2 DEF Lost, Sound, StageRecs
  <2> QED BY <1>0, <1>1, <1>3, <2>1, <2>3, Names DEF Counters, Squeezed, Loose
<1> QED BY <1>1, <1>4, <1>5, <1>6, <1>7

LEMMA VolumeStep ==
  ASSUME Pre, Chained, Next
  PROVE  VolumeMoves
<1> USE DEF VolumeMoves
<1>0. /\ conf \in Confs /\ Counters /\ Counters' /\ Inflation \in Nat /\ Inflation > 0
      /\ Squeezed \in Nat /\ Loose \in Nat
  BY CountersStep, ConfTypes, VolumeTypes DEF Pre, Typed, Counters
<1>1. CASE UNCHANGED <<sent, queue, ready, got>>
  BY <1>1 DEF Squeezed, Loose
<1>2. CASE ServerSends
  <2>1. sent' = sent + 1 /\ ready' = [ready EXCEPT !["body"] = @ + 1] /\ UNCHANGED <<queue, got>>
    BY <1>2 DEF ServerSends
  <2> QED BY <1>0, <2>1, Names DEF Counters, Squeezed, Loose
<1>3. CASE MeterTransforms
  <2>1. queue["meter"] > 0 /\ UNCHANGED <<sent, got, stage, outcome>>
    BY <1>3 DEF MeterTransforms
  <2>2. CASE queue' = Remainder /\ ready' = [ready EXCEPT !["meter"] = @ + 1]
    BY <1>0, <2>1, <2>2, Names DEF Counters, Squeezed, Loose, Remainder
  <2>3. CASE /\ stage["meter"].is = "failed" /\ queue' = [queue EXCEPT !["meter"] = 0]
             /\ ready' = ready
    <3>1. Lost'
      BY <2>1, <2>3 DEF Lost
    <3> QED BY <1>0, <2>1, <2>3, <3>1, Names DEF Counters, Squeezed, Loose
  <2> QED BY <1>3, <2>2, <2>3 DEF MeterTransforms
<1>4. CASE InflateTransforms
  <2>1. queue["inflate"] > 0 /\ UNCHANGED <<sent, got>>
    BY <1>4 DEF InflateTransforms
  <2>2. Unit = Inflation
    BY <1>4, InflateEffect DEF Pre, Unit
  <2>3. CASE UNCHANGED <<queue, ready>>
    BY <1>1, <2>1, <2>3
  <2>4. CASE /\ queue' = [queue EXCEPT !["inflate"] = @ - 1] /\ ~conf.corrupt
             /\ ready' = [ready EXCEPT !["inflate"] = @ + Inflation]
    BY <1>0, <2>1, <2>2, <2>4, Names DEF Counters, Squeezed, Loose
  <2> QED BY <1>4, <2>3, <2>4 DEF InflateTransforms
<1>5. CASE GuardTakes
  <2> DEFINE s == SourceOf("guard")
  <2>1. /\ s \in {"body", "meter", "inflate"} /\ s \in Stages /\ UNCHANGED <<sent, queue, got>>
        /\ Link(s, "guard")
    BY <1>5, GuardSource DEF Pre, GuardTakes, Stages
  <2>2. s \in {"body", "meter"} => Unit = 1 /\ ~Used("inflate")
    BY <1>0, <2>1, Links DEF Unit
  <2>3. /\ ready[s] > 0
        /\ \/ ready' = [ready EXCEPT ![s] = @ - 1, !["guard"] = @ + 1]
           \/ /\ ready' = [ready EXCEPT ![s] = @ - 1]
              /\ stage'["guard"].is \in {"closed", "failed"}
    BY <1>5, GuardTakesEffect, Forms DEF Pre
  <2> HIDE DEF s
  <2>4. CASE ready' = [ready EXCEPT ![s] = @ - 1, !["guard"] = @ + 1]
    <3>1. /\ ready'["guard"] = ready["guard"] + 1 /\ ready'[s] = ready[s] - 1
          /\ \A u \in Stages \ {s, "guard"} : ready'[u] = ready[u]
      BY <1>0, <2>1, <2>4, Names DEF Counters
    <3>2. CASE s \in {"body", "meter"}
      BY <1>0, <2>1, <2>2, <2>3, <3>1, <3>2, Names DEF Counters, Squeezed, Loose
    <3>3. CASE s = "inflate"
      BY <1>0, <2>1, <2>3, <3>1, <3>3, Names DEF Counters, Squeezed, Loose
    <3> QED BY <2>1, <3>2, <3>3
  <2>5. CASE ready' = [ready EXCEPT ![s] = @ - 1] /\ stage'["guard"].is \in {"closed", "failed"}
    <3>1. Lost'
      BY <2>5 DEF Lost
    <3> QED BY <1>0, <2>1, <2>3, <2>5, <3>1, Names DEF Counters, Squeezed, Loose
  <2> QED BY <2>3, <2>4, <2>5
<1>6. CASE ReaderTakes
  <2>1. /\ ready[OutOf] > 0 /\ ready' = [ready EXCEPT ![OutOf] = @ - 1] /\ UNCHANGED <<sent, queue>>
        /\ OutOf \in Stages
        /\ OutOf \in {"body", "meter"} => Unit = 1 /\ ~Used("inflate")
    BY <1>0, <1>6, Out DEF ReaderTakes, Unit
  <2>2. CASE got' = got + 1
    <3>1. CASE OutOf \in {"body", "meter"}
      BY <1>0, <2>1, <2>2, <3>1, Names DEF Counters, Squeezed, Loose
    <3>2. CASE OutOf \in {"inflate", "guard", "wrapper"}
      BY <1>0, <2>1, <2>2, <3>2, Names DEF Counters, Squeezed, Loose
    <3> QED BY <2>1, <3>1, <3>2 DEF Stages
  <2>3. CASE got' = got /\ outcome' = "limit"
    <3>1. Lost'
      BY <2>3 DEF Lost
    <3> QED BY <1>0, <2>1, <2>3, <3>1, Names DEF Counters, Squeezed, Loose
  <2> QED BY <1>6, <2>2, <2>3 DEF ReaderTakes
<1> QED BY <1>1, <1>2, <1>3, <1>4, <1>5, <1>6, PassVolume, NextCases DEF Pre, ServerEnds,
   ServerBreaks, Abort, CallerLeaves, Ends, GuardStops, Notify, GuardAsks, TimerFires,
   ReaderEnds, ReaderHears

\* Multiplication, as far as it is needed.
LEMMA Times ==
  /\ \A m, n \in Nat : m * n \in Nat
  /\ \A m, n \in Nat : m * (n + 1) = m * n + m
  /\ \A m, n, k \in Nat : n <= k => m * n <= m * k
  /\ \A m \in Nat \ {0}, n \in Nat : n <= m * n
  /\ \A n \in Nat : 1 * n = n
  /\ \A m \in Nat : m * 0 = 0
OBVIOUS

Volumes ==
  /\ Unit * Squeezed + Loose <= Unit * sent
  /\ Lost \/ Unit * Squeezed + Loose = Unit * sent
  /\ seen + queue["meter"] + ready["body"] <= sent
  /\ told <= seen /\ waiting <= seen

LEMMA SeenStep ==
  ASSUME Pre, Chained, Volumes, Next
  PROVE  /\ seen' + queue'["meter"] + ready'["body"] <= sent'
         /\ told' <= seen' /\ waiting' <= seen'
<1> DEFINE Count == seen + queue["meter"] + ready["body"] <= sent
<1>0. /\ conf \in Confs /\ Counters /\ Counters' /\ Inflation \in Nat
      /\ Count /\ told <= seen /\ waiting <= seen
  BY CountersStep, ConfTypes DEF Pre, Typed, Counters, Volumes
<1>1. Count'
  <2>1. CASE /\ UNCHANGED <<sent, seen>> /\ queue'["meter"] = queue["meter"]
             /\ ready'["body"] <= ready["body"]
    BY <1>0, <2>1, Names DEF Counters
  <2>2. CASE ServerSends
    <3>1. sent' = sent + 1 /\ ready' = [ready EXCEPT !["body"] = @ + 1] /\ UNCHANGED <<queue, seen>>
      BY <2>2 DEF ServerSends
    <3> QED BY <1>0, <3>1, Names DEF Counters
  <2>3. CASE MeterTransforms
    <3>1. queue["meter"] > 0 /\ seen' = seen + 1 /\ sent' = sent
      BY <2>3 DEF MeterTransforms
    <3>2. \/ queue' = Remainder /\ ready' = [ready EXCEPT !["meter"] = @ + 1]
          \/ queue' = [queue EXCEPT !["meter"] = 0] /\ ready' = ready
      BY <2>3 DEF MeterTransforms
    <3> QED BY <1>0, <3>1, <3>2, Names DEF Counters, Remainder
  <2>4. CASE InflateTransforms
    <3>1. UNCHANGED <<sent, seen>>
      BY <2>4 DEF InflateTransforms
    <3>2. \/ UNCHANGED <<queue, ready>>
          \/ /\ queue' = [queue EXCEPT !["inflate"] = @ - 1]
             /\ ready' = [ready EXCEPT !["inflate"] = @ + Inflation]
      BY <2>4 DEF InflateTransforms
    <3> QED BY <1>0, <2>1, <3>1, <3>2, Names DEF Counters
  <2>5. CASE GuardTakes
    <3>1. SourceOf("guard") \in Stages /\ SourceOf("guard") # "guard" /\ UNCHANGED <<sent, seen, queue>>
      BY <2>5, GuardSource DEF Pre, GuardTakes, Stages
    <3>2. \/ ready' = [ready EXCEPT ![SourceOf("guard")] = @ - 1, !["guard"] = @ + 1]
          \/ ready' = [ready EXCEPT ![SourceOf("guard")] = @ - 1]
      BY <2>5, GuardTakesEffect DEF Pre
    <3>3. ready'["body"] <= ready["body"]
      BY <1>0, <3>1, <3>2, Names DEF Counters
    <3> QED BY <2>1, <3>1, <3>3
  <2>6. CASE ReaderTakes
    <3>1. /\ OutOf \in Stages /\ ready' = [ready EXCEPT ![OutOf] = @ - 1]
          /\ UNCHANGED <<sent, seen, queue>>
      BY <1>0, <2>6, Out DEF ReaderTakes
    <3> QED BY <1>0, <2>1, <3>1, Names DEF Counters
  <2>7. ASSUME NEW s \in Stages, NEW t \in Stages, Link(s, t), t \notin {"body", "guard"}, Pass(s, t)
        PROVE  Count'
    <3>1. /\ t = "meter" => s = "body"
          /\ s # t /\ t \in {"meter", "inflate", "wrapper"}
      BY <1>0, <2>7, Links DEF Stages
    <3>4. UNCHANGED <<sent, seen>> /\ ready[s] > 0
      BY <2>7 DEF Pass
    <3>2. CASE t = "meter"
      <4>1. /\ ready' = [ready EXCEPT !["body"] = @ - 1]
            /\ queue' = queue \/ queue' = [queue EXCEPT !["meter"] = @ + 1]
        BY <2>7, <3>1, <3>2 DEF Pass
      <4> QED BY <1>0, <3>1, <3>4, <4>1, Names DEF Counters
    <3>3. CASE t # "meter"
      <4>1. /\ queue'["meter"] = queue["meter"]
            /\ ready'["body"] <= ready["body"]
        <5>1. CASE t = "wrapper"
          <6>1. queue' = queue /\ \/ ready' = [ready EXCEPT ![s] = @ - 1]
                                  \/ ready' = [[ready EXCEPT !["wrapper"] = @ + 1] EXCEPT ![s] = @ - 1]
            BY <2>7, <5>1 DEF Pass
          <6> QED BY <1>0, <3>1, <3>4, <5>1, <6>1, Names DEF Counters
        <5>2. CASE t # "wrapper"
          <6>1. /\ ready' = [ready EXCEPT ![s] = @ - 1]
                /\ queue' = queue \/ queue' = [queue EXCEPT ![t] = @ + 1]
            BY <2>7, <5>2 DEF Pass
          <6> QED BY <1>0, <3>1, <3>3, <3>4, <6>1, Names DEF Counters
        <5> QED BY <5>1, <5>2
      <4> QED BY <2>1, <3>4, <4>1
    <3> QED BY <3>2, <3>3
  <2>8. CASE UNCHANGED <<sent, seen, queue, ready>>
    BY <1>0, <2>8
  <2> HIDE DEF Count
  <2> QED BY <2>2, <2>3, <2>4, <2>5, <2>6, <2>7, <2>8, NextCases DEF Pre, ServerEnds,
     ServerBreaks, Abort, CallerLeaves, Ends, GuardStops, Notify, GuardAsks, TimerFires,
     ReaderEnds, ReaderHears
<1>2. told' <= seen' /\ waiting' <= seen'
  <2>1. CASE UNCHANGED <<seen, told, waiting>>
    BY <1>0, <2>1
  <2>2. CASE Flush /\ seen' = seen
    BY <1>0, <2>2 DEF Flush, Counters
  <2>3. CASE MeterTransforms
    <3>1. /\ seen' = seen + 1
          /\ told' \in {told, seen + 1} /\ waiting' \in {waiting, seen + 1, 0}
      BY <2>3 DEF MeterTransforms, Report, progressVars
    <3> QED BY <1>0, <3>1 DEF Counters
  <2>4. ASSUME NEW s \in Stages, Ends(s) \/ Notify(s)
        PROVE  told' <= seen' /\ waiting' <= seen'
    BY <2>1, <2>2, <2>4 DEF Ends, Notify, progressVars
  <2> QED BY <2>1, <2>2, <2>3, <2>4, NextCases DEF Pre, ServerSends, ServerEnds,
     ServerBreaks, Abort, CallerLeaves, Pass, InflateTransforms, GuardTakes, GuardStops,
     GuardAsks, TimerFires, ReaderTakes, ReaderEnds, ReaderHears, progressVars
<1> QED BY <1>1, <1>2

\* The arithmetic of VolumeMoves.
LEMMA Ledger ==
  ASSUME NEW u \in Nat \ {0}, NEW s \in Nat, NEW l \in Nat, NEW t \in Nat,
         NEW s1 \in Nat, NEW l1 \in Nat, NEW t1 \in Nat,
         u * s + l <= u * t
  PROVE  /\ \/ t1 = t + 1 /\ s1 = s + 1 /\ l1 = l
            \/ t1 = t /\ s1 = s /\ l1 = l
            \/ t1 = t /\ s = s1 + 1 /\ l1 = l + u
            => u * s1 + l1 <= u * t1 /\ (u * s + l = u * t => u * s1 + l1 = u * t1)
         /\ t1 = t /\ s1 <= s /\ l1 <= l => u * s1 + l1 <= u * t1
<1> DEFINE S == u * s
           S1 == u * s1
           T == u * t
           T1 == u * t1
<1>0. S \in Nat /\ S1 \in Nat /\ T \in Nat /\ T1 \in Nat /\ S + l <= T
  BY Times
<1>1. ASSUME t1 = t + 1, s1 = s + 1, l1 = l
      PROVE  S1 + l1 <= T1 /\ (S + l = T => S1 + l1 = T1)
  <2>1. S1 = S + u /\ T1 = T + u
    BY <1>1, Times
  <2> HIDE DEF S, S1, T, T1
  <2> QED BY <1>0, <1>1, <2>1
<1>2. ASSUME t1 = t, s = s1 + 1, l1 = l + u
      PROVE  S1 + l1 <= T1 /\ (S + l = T => S1 + l1 = T1)
  <2>1. S = S1 + u /\ T1 = T
    BY <1>2, Times
  <2> HIDE DEF S, S1, T, T1
  <2> QED BY <1>0, <1>2, <2>1
<1>3. ASSUME t1 = t, s1 <= s, l1 <= l PROVE S1 + l1 <= T1
  <2>1. S1 <= S /\ T1 = T
    BY <1>3, Times
  <2> HIDE DEF S, S1, T, T1
  <2> QED BY <1>0, <1>3, <2>1
<1> QED BY <1>0, <1>1, <1>2, <1>3

LEMMA VolumesStep ==
  ASSUME Pre, Chained, Volumes, Next
  PROVE  Volumes'
<1>0. /\ Unit' = Unit /\ Unit \in Nat \ {0} /\ Squeezed \in Nat /\ Loose \in Nat
      /\ Squeezed' \in Nat /\ Loose' \in Nat /\ sent \in Nat /\ sent' \in Nat
  <2>1. Unit' = Unit
    BY FixedStep DEF Unit
  <2>2. Counters /\ Counters' /\ conf \in Confs /\ conf' \in Confs
    BY CountersStep, FixedStep DEF Counters, Pre, Typed
  <2>3. Squeezed' \in Nat /\ Loose' \in Nat
    BY <2>2, Names DEF Counters, Squeezed, Loose
  <2> QED BY <2>1, <2>2, <2>3, VolumeTypes, ConfTypes DEF Counters
<1>1. PICK u \in Nat \ {0} : u = Unit
  BY <1>0
<1>2. PICK s \in Nat, l \in Nat, t \in Nat, s1 \in Nat, l1 \in Nat, t1 \in Nat :
        s = Squeezed /\ l = Loose /\ t = sent /\ s1 = Squeezed' /\ l1 = Loose' /\ t1 = sent'
  BY <1>0
<1>3. u * s + l <= u * t /\ (Lost \/ u * s + l = u * t)
  BY <1>1, <1>2 DEF Volumes
<1>4. \/ t1 = t + 1 /\ s1 = s + 1 /\ l1 = l
      \/ t1 = t /\ s1 = s /\ l1 = l
      \/ t1 = t /\ s = s1 + 1 /\ l1 = l + u
      \/ t1 = t /\ s1 <= s /\ l1 <= l /\ Lost'
  BY <1>1, <1>2, VolumeStep DEF VolumeMoves
<1>5. u * s1 + l1 <= u * t1 /\ (Lost' \/ u * s1 + l1 = u * t1)
  BY <1>3, <1>4, Ledger, LostStep
<1>6. Unit' * Squeezed' + Loose' <= Unit' * sent'
      /\ (Lost' \/ Unit' * Squeezed' + Loose' = Unit' * sent')
  BY <1>0, <1>1, <1>2, <1>5
<1> QED BY <1>6, SeenStep DEF Volumes

(***************************************************************************)
(* Progress: what is held back is the newest, and else all has been told.  *)
(***************************************************************************)

Progressed ==
  conf.progress =>
    /\ IF waiting = 0 THEN told = seen ELSE waiting = seen
    /\ stage["meter"].is = "ended" => waiting = 0

LEMMA ProgressedStep ==
  ASSUME Pre, Chained, Volumes, Progressed, Next
  PROVE  Progressed'
<1>0. conf' = conf /\ Counters
  BY FixedStep DEF Pre, Typed, Counters
<1> SUFFICES ASSUME conf.progress
             PROVE  /\ IF waiting' = 0 THEN told' = seen' ELSE waiting' = seen'
                    /\ stage'["meter"].is = "ended" => waiting' = 0
  BY <1>0 DEF Progressed
<1>1. /\ IF waiting = 0 THEN told = seen ELSE waiting = seen
      /\ stage["meter"].is = "ended" => waiting = 0
  BY DEF Progressed
<1>2. IF waiting' = 0 THEN told' = seen' ELSE waiting' = seen'
  <2>1. CASE UNCHANGED <<seen, told, waiting>>
    BY <1>1, <2>1
  <2>2. CASE Flush /\ seen' = seen
    BY <1>1, <2>2 DEF Flush
  <2>3. CASE MeterTransforms
    <3>1. /\ seen' = seen + 1
          /\ \/ told' = seen + 1 /\ waiting' = 0
             \/ waiting' = seen + 1
      BY <2>3 DEF MeterTransforms, Report
    <3> QED BY <1>0, <3>1 DEF Counters
  <2>4. ASSUME NEW s \in Stages, Ends(s) \/ Notify(s)
        PROVE  IF waiting' = 0 THEN told' = seen' ELSE waiting' = seen'
    BY <2>1, <2>2, <2>4 DEF Ends, Notify, progressVars
  <2> QED BY <2>1, <2>2, <2>3, <2>4, NextCases DEF Pre, ServerSends, ServerEnds,
     ServerBreaks, Abort, CallerLeaves, Pass, InflateTransforms, GuardTakes, GuardStops,
     GuardAsks, TimerFires, ReaderTakes, ReaderEnds, ReaderHears, progressVars
<1>3. ASSUME stage'["meter"].is = "ended" PROVE waiting' = 0
  <2>1. CASE stage["meter"].is = "ended"
    <3>1. waiting = 0 /\ queue["meter"] = 0
      BY <1>1, <2>1, Names DEF Chained
    <3>2. CASE UNCHANGED waiting
      BY <3>1, <3>2
    <3>3. CASE Flush
      BY <3>3 DEF Flush
    <3>4. ASSUME NEW s \in Stages, Ends(s) \/ Notify(s) PROVE waiting' = 0
      BY <3>2, <3>3, <3>4 DEF Ends, Notify, progressVars
    <3>5. ~MeterTransforms
      BY <1>0, <3>1 DEF MeterTransforms
    <3> QED BY <3>2, <3>3, <3>4, <3>5, NextCases DEF Pre, ServerSends, ServerEnds,
       ServerBreaks, Abort, CallerLeaves, Pass, InflateTransforms, GuardTakes, GuardStops,
       GuardAsks, TimerFires, ReaderTakes, ReaderEnds, ReaderHears, progressVars
  <2>2. CASE stage["meter"].is # "ended"
    <3>0. Moves("meter") /\ Sound(stage["meter"])
      BY StageStep, Names DEF Pre, Typed
    <3>1. Ends("meter")
      BY <1>3, <2>2, <3>0, Forms DEF Moves, Sound, StageRecs
    <3> QED BY <3>1 DEF Ends, Flush
  <2> QED BY <2>1, <2>2
<1> QED BY <1>2, <1>3

(***************************************************************************)
(* The inductive invariant.                                                *)
(***************************************************************************)

IInv == Pre /\ Chained /\ Volumes /\ Progressed

LEMMA IInvInit == Init => IInv
<1> SUFFICES ASSUME Init PROVE IInv
  OBVIOUS
<1>1. Pre /\ conf \in Confs /\ Unit \in Nat
  BY PreInit, VolumeTypes DEF Init
<1>2. Chained
  BY Forms DEF Init, Chained
<1>3. Squeezed = 0 /\ Loose = 0 /\ sent = 0
  BY Names DEF Init, Squeezed, Loose
<1>4. Volumes
  <2>1. Unit * 0 = 0
    BY <1>1, Times
  <2>2. Unit * Squeezed + Loose = 0 /\ Unit * sent = 0
    BY <1>3, <2>1
  <2> QED BY <2>2, Names DEF Init, Volumes
<1>5. Progressed
  BY Names, Forms DEF Init, Progressed
<1> QED BY <1>1, <1>2, <1>4, <1>5 DEF IInv

LEMMA IInvStep ==
  ASSUME IInv, [Next]_vars
  PROVE  IInv'
<1> USE DEF IInv
<1>1. CASE Next
  BY <1>1, PreStep, ChainedStep, VolumesStep, ProgressedStep
<1>2. CASE UNCHANGED vars
  <2>1. /\ UNCHANGED <<conf, server, sent, stage, queue, ready, ended>>
        /\ UNCHANGED <<seen, told, waiting, got, outcome>>
    BY <1>2 DEF vars
  <2>2. Chained' /\ Progressed'
    BY <2>1 DEF Chained, Progressed, SourceOf
  <2>3. Volumes'
    <3>1. Unit' = Unit /\ Squeezed' = Squeezed /\ Loose' = Loose /\ Lost' = Lost
      BY <2>1 DEF Unit, Used, Squeezed, Loose, Lost
    <3> QED BY <2>1, <3>1 DEF Volumes
  <2> QED BY <1>2, <2>2, <2>3, PreStep
<1> QED BY <1>1, <1>2

LEMMA Bounds ==
  ASSUME IInv
  PROVE  /\ \A s \in Stages : /\ queue[s] <= Inflation * conf.size
                              /\ ready[s] <= Inflation * conf.size
         /\ Squeezed + Loose <= Units(conf.size)
         /\ got <= Units(conf.size)
         /\ seen <= conf.size /\ told <= conf.size /\ waiting <= conf.size
<1>0. /\ conf \in Confs /\ Counters /\ conf.size \in Nat /\ Unit \in Nat \ {0} /\ Inflation \in Nat \ {0}
      /\ Squeezed \in Nat /\ Loose \in Nat /\ sent \in Nat /\ sent <= conf.size
  BY ConfTypes, VolumeTypes DEF IInv, Pre, Typed, Counters
<1>1. Units(conf.size) = Unit * conf.size
  BY <1>0, Times DEF Units, Unit
<1>2. PICK u \in Nat \ {0}, s \in Nat, l \in Nat, t \in Nat, z \in Nat, i \in Nat \ {0} :
        u = Unit /\ s = Squeezed /\ l = Loose /\ t = sent /\ z = conf.size /\ i = Inflation
  BY <1>0
<1>3. s <= u * z /\ l <= u * z /\ u * z <= i * z /\ s + l <= u * z
  <2>1. u * s + l <= u * t
    BY <1>2 DEF IInv, Volumes
  <2>2. u * t <= u * z /\ s <= u * s /\ u * s \in Nat /\ u * t \in Nat /\ u * z \in Nat
    BY <1>0, <1>2, Times
  <2>3. u = i \/ u = 1
    BY <1>2 DEF Unit
  <2>4. 1 * z = z /\ z <= i * z
    BY Times
  <2>5. u * z <= i * z
    BY <2>3, <2>4
  <2> QED BY <2>1, <2>2, <2>5
<1>4. /\ Squeezed <= Inflation * conf.size /\ Loose <= Inflation * conf.size
      /\ Loose <= Unit * conf.size /\ Squeezed + Loose <= Unit * conf.size
  <2>1. u * z \in Nat /\ i * z \in Nat
    BY Times
  <2> QED BY <1>2, <1>3, <2>1
<1>5. Inflation * conf.size \in Nat /\ Unit * conf.size \in Nat
  BY <1>0, Times
<1>6. \A s1 \in Stages : queue[s1] <= Squeezed /\ ready[s1] <= Squeezed + Loose
  BY <1>0 DEF IInv, Pre, Idle, Counters, Squeezed, Loose, Stages
<1>7. \A s1 \in {"body", "meter"} : ready[s1] <= Squeezed
  BY <1>0, Names DEF Counters, Squeezed
<1>8. \A s1 \in {"inflate", "guard", "wrapper"} : ready[s1] <= Loose
  BY <1>0, Names DEF Counters, Loose
<1>9. got <= Loose
  BY <1>0, Names DEF Counters, Loose
<1>10. \A s1 \in Stages : queue[s1] <= Inflation * conf.size /\ ready[s1] <= Inflation * conf.size
  <2> TAKE s1 \in Stages
  <2>1. queue[s1] \in Nat /\ ready[s1] \in Nat
    BY <1>0 DEF Counters
  <2>2. ready[s1] <= Squeezed \/ ready[s1] <= Loose
    BY <1>7, <1>8 DEF Stages
  <2> QED BY <1>0, <1>4, <1>5, <1>6, <2>1, <2>2
<1>11. got <= Units(conf.size)
  BY <1>0, <1>1, <1>4, <1>5, <1>9 DEF Counters
<1>12. seen <= conf.size /\ told <= conf.size /\ waiting <= conf.size
  BY <1>0, Names DEF IInv, Volumes, Counters
<1> QED BY <1>1, <1>4, <1>10, <1>11, <1>12

(***************************************************************************)
(* Types: in particular no stream ever holds, and no reader is given, more *)
(* than what the server sends comes to.                                    *)
(***************************************************************************)
THEOREM NothingIsAdded == Spec => []TypeOK
<1>1. ASSUME IInv PROVE TypeOK
  <2>1. Typed /\ Sound(stage["body"])
    BY <1>1, Names DEF IInv, Pre, Typed
  <2>2. stage \in [Stages -> StageRecs]
    BY <2>1 DEF Typed, Sound
  <2>3. Inflation * conf.size \in Nat /\ Units(conf.size) \in Nat /\ conf.size \in Nat
    BY <2>1, ConfTypes, Times DEF Typed, Units
  <2>4. queue \in [Stages -> 0 .. (Inflation * conf.size)]
    BY <1>1, <2>1, <2>3, Bounds DEF Typed
  <2>5. ready \in [Stages -> 0 .. (Inflation * conf.size)]
    BY <1>1, <2>1, <2>3, Bounds DEF Typed
  <2>6. /\ seen \in 0 .. conf.size /\ told \in 0 .. conf.size /\ waiting \in 0 .. conf.size
        /\ got \in 0 .. Units(conf.size)
    BY <1>1, <2>1, <2>3, Bounds DEF Typed
  <2> QED BY <2>1, <2>2, <2>4, <2>5, <2>6 DEF Typed, TypeOK, StageRecs
<1> QED BY <1>1, IInvInit, IInvStep, PTL DEF Spec

(***************************************************************************)
(* When the meter has ended, the last progress event has told everything.  *)
(***************************************************************************)
THEOREM AllIsTold == Spec => []LastProgressTold
<1>1. IInv => LastProgressTold
  BY DEF IInv, Progressed, LastProgressTold
<1> QED BY <1>1, IInvInit, IInvStep, PTL DEF Spec

(***************************************************************************)
(* How streams fail.                                                       *)
(***************************************************************************)

\* The ways in which t has failed in a step.
Fails(t) ==
  \/ ServerBreaks /\ t = "body" /\ stage'[t] = Hit("socket")
  \/ \E why \in Aborts : Abort(why) /\ t \in {"body", "meter"} /\ stage'[t] = Hit(why)
  \/ /\ InflateTransforms /\ t = "inflate" /\ stage'[t] = Hit("decode")
     /\ Used("inflate") /\ conf.corrupt
  \/ GuardTakes /\ t = "guard" /\ stage'[t] = Hit("limit") /\ GuardPassed + 1 > conf.limit
  \/ /\ GuardStops /\ t = "guard"
     /\ LET s == SourceOf("guard") IN
        stage[s].is = "failed" /\ ~stage[s].due /\ stage'[t] = Hit(stage[s].why)
  \/ /\ ReaderTakes /\ ~Streaming /\ Limited /\ got + 1 > conf.limit
     /\ OutOf = "inflate" /\ t \in {"inflate", SourceOf("inflate")}
     /\ stage'[t] = Hit("limit") /\ stage'["inflate"] = Hit("limit") /\ outcome' = "limit"
  \/ \E s \in Stages : Notify(s) /\ Follows(stage, s, TaggedBy(s), t, stage'[t])
  \/ /\ Notify("inflate") /\ Link(t, "inflate") /\ stage["inflate"].is = "failed"
     /\ stage'[t] = Hit(stage["inflate"].why)

LEMMA Failures ==
  ASSUME Pre, Next, NEW t \in Stages, stage'[t].is = "failed", stage[t].is # "failed"
  PROVE  Fails(t)
<1>0. conf \in Confs /\ stage'[t] # stage[t]
  BY DEF Pre, Typed
<1>1. CASE ServerBreaks
  BY <1>0, <1>1, BreakEffect DEF Pre, Touches, Fails
<1>2. ASSUME NEW why \in Aborts, Abort(why) PROVE Fails(t)
  BY <1>0, <1>2, AbortEffect DEF Pre, Touches, Fails
<1>3. CASE CallerLeaves
  BY <1>0, <1>3, LeaveEffect, Forms DEF Pre
<1>4. CASE InflateTransforms
  BY <1>0, <1>4, InflateEffect DEF Pre, Touches, Fails
<1>5. ASSUME NEW s \in Stages, Ends(s) PROVE Fails(t)
  BY <1>0, <1>5, EndsEffect, Forms DEF Pre, Touches
<1>6. CASE GuardTakes
  <2>1. t = "guard" \/ t = SourceOf("guard")
    BY <1>0, <1>6, GuardTakesEffect DEF Pre, Touches
  <2>2. t # SourceOf("guard") /\ stage'["guard"] = Hit("limit") /\ GuardPassed + 1 > conf.limit
    BY <1>0, <1>6, <2>1, GuardTakesEffect, GuardSource, Forms DEF Pre, GuardTakes
  <2> QED BY <1>6, <2>1, <2>2 DEF Fails
<1>7. CASE GuardStops
  <2>1. t = "guard"
    BY <1>0, <1>7, GuardStopsEffect DEF Pre, Touches
  <2> QED BY <1>7, <2>1, GuardStopsEffect, Forms DEF Pre, Fails
<1>8. ASSUME NEW s \in Stages, Notify(s) PROVE Fails(t)
  <2>1. NotifyEffects(s) /\ stage[s].is \in {"failed", "closed"}
    BY <1>8, NotifyEffect DEF Pre
  <2>2. t # s
    <3>1. stage'[s].is = stage[s].is
      BY <2>1, Names DEF NotifyEffects, Pre, Typed, Sound, StageRecs
    <3> QED BY <3>1
  <2>3. CASE Follows(stage, s, TaggedBy(s), t, stage'[t])
    BY <1>8, <2>3 DEF Fails
  <2>4. CASE Recedes(stage, s, t, stage'[t])
    <3>1. s = "inflate" /\ Link(t, s) /\ stage[s].is = "failed" /\ stage'[t] = Hit(stage[s].why)
      BY <2>4, Forms DEF Recedes
    <3> QED BY <1>8, <3>1 DEF Fails
  <2> QED BY <1>0, <2>1, <2>2, <2>3, <2>4 DEF NotifyEffects
<1>9. CASE ReaderTakes
  <2>1. ~Streaming /\ Limited /\ got + 1 > conf.limit
    BY <1>0, <1>9 DEF ReaderTakes
  <2>2. OutOf = "inflate"
    <3>1. ASSUME OutOf # "inflate" PROVE FALSE
      <4>1. t = OutOf /\ stage'[OutOf] = Gone
        BY <1>0, <1>9, <2>1, <3>1, LimitEffect DEF Pre, Touches
      <4> QED BY <4>1, Forms
    <3> QED BY <3>1
  <2>3. /\ outcome' = "limit" /\ t \in {"inflate", SourceOf("inflate")}
        /\ stage'["inflate"] = Hit("limit") /\ stage'[t] = Hit("limit")
    BY <1>0, <1>9, <2>1, <2>2, LimitEffect DEF Pre, Touches
  <2> QED BY <1>9, <2>1, <2>2, <2>3 DEF Fails
<1> QED BY <1>0, <1>1, <1>2, <1>3, <1>4, <1>5, <1>6, <1>7, <1>8, <1>9, NextCases DEF Pre, ServerSends,
   ServerEnds, Pass, MeterTransforms, GuardAsks, TimerFires, ReaderEnds, ReaderHears

\* What stays once it is so.
LEMMA Kept ==
  ASSUME Pre, Next
  PROVE  /\ aborted # "none" => aborted' # "none"
         /\ server = "broke" => server' = "broke"
         /\ tagged => tagged'
         /\ bodyErroredFirst => bodyErroredFirst'
         /\ outcome # "reading" => outcome' = outcome
<1>1. aborted # "none" => aborted' # "none"
  BY NextCases DEF Pre, ServerSends, ServerEnds, ServerBreaks, Abort, CallerLeaves,
     Pass, MeterTransforms, InflateTransforms, Ends, GuardTakes, GuardStops, Notify,
     GuardAsks, TimerFires, ReaderTakes, ReaderEnds, ReaderHears
<1>2. server = "broke" => server' = "broke"
  BY NextCases DEF Pre, ServerSends, ServerEnds, ServerBreaks, Abort, CallerLeaves,
     Pass, MeterTransforms, InflateTransforms, Ends, GuardTakes, GuardStops, Notify,
     GuardAsks, TimerFires, ReaderTakes, ReaderEnds, ReaderHears
<1>3. outcome # "reading" => outcome' = outcome
  BY NextCases DEF Pre, ServerSends, ServerEnds, ServerBreaks, Abort, CallerLeaves,
     Pass, MeterTransforms, InflateTransforms, Ends, GuardTakes, GuardStops, Notify,
     GuardAsks, TimerFires, ReaderTakes, ReaderEnds, ReaderHears
<1>4. tagged => tagged'
  BY NextCases DEF Pre, ServerSends, ServerEnds, ServerBreaks, Abort, CallerLeaves,
     Pass, MeterTransforms, InflateTransforms, Ends, GuardTakes, GuardStops, Notify, TaggedBy,
     GuardAsks, TimerFires, ReaderTakes, ReaderEnds, ReaderHears
<1>5. bodyErroredFirst => bodyErroredFirst'
  BY NextCases DEF Pre, ServerSends, ServerEnds, ServerBreaks, Abort, CallerLeaves,
     Pass, MeterTransforms, InflateTransforms, Ends, GuardTakes, GuardStops, Notify,
     GuardAsks, TimerFires, ReaderTakes, ReaderEnds, ReaderHears
<1> QED BY <1>1, <1>2, <1>3, <1>4, <1>5

LEMMA UnitsType ==
  ASSUME conf \in Confs
  PROVE  Units(conf.size) \in Nat /\ conf.limit \in Nat
BY ConfTypes, Times DEF Units

\* A chunk that is there counts.
LEMMA Room ==
  ASSUME IInv, NEW s \in {"body", "meter", "inflate"}, ready[s] > 0
  PROVE  GuardPassed + 1 <= Units(conf.size) /\ got + 1 <= Units(conf.size)
<1>1. Counters /\ conf \in Confs /\ Units(conf.size) \in Nat
  BY ConfTypes, Times DEF IInv, Pre, Typed, Counters, Units
<1>2. GuardPassed + 1 <= Squeezed + Loose
  BY <1>1, Names DEF Counters, GuardPassed, Squeezed, Loose
<1>3. Squeezed + Loose <= Units(conf.size)
  BY Bounds
<1>4. GuardPassed \in Nat /\ got <= GuardPassed /\ Squeezed \in Nat /\ Loose \in Nat
  BY <1>1, Names, VolumeTypes DEF Counters, GuardPassed
<1> QED BY <1>1, <1>2, <1>3, <1>4 DEF Counters

(***************************************************************************)
(* What a stream has failed from has happened.                             *)
(***************************************************************************)

Named ==
  \A t \in Stages :
    /\ stage[t].why \in Aborts \cup {"canceled"} => aborted # "none"
    /\ stage[t].why = "socket" => server = "broke"
    /\ stage[t].why = "limit" => Units(conf.size) > conf.limit
    /\ stage[t].why \in {"decode", "decodeError"} => conf.encoded /\ conf.corrupt
    /\ stage[t].why = "decode" => Used("inflate")

\* A decode error is tagged before the wrapper hears of it, and only then.
Tagging ==
  /\ bodyErroredFirst => stage["inflate"].is # "open"
  /\ \A s \in {"body", "meter"} :
       stage[s].why \in {"decode", "limit"} => stage["inflate"].is = "failed"
  /\ stage["inflate"].why \notin {"none", "decode", "limit"} => bodyErroredFirst
  /\ stage["inflate"].why = "limit" => ~Streaming /\ outcome = "limit"
  /\ stage["inflate"].why = "decode" =>
       IF stage["inflate"].due THEN ~bodyErroredFirst /\ ~stage["meter"].due ELSE tagged
  /\ stage["guard"].why = "decode" => tagged
  /\ stage["wrapper"].why \notin {"decode", "abort"}
  /\ tagged => (conf.encoded /\ conf.corrupt) \/ (~Streaming /\ outcome = "limit")

LEMMA WhyMoves ==
  ASSUME Pre, Next, NEW t \in Stages
  PROVE  \/ stage'[t].why = stage[t].why
         \/ /\ stage[t] = Open /\ stage'[t].is = "failed" /\ Fails(t)
<1>1. Moves(t) /\ Sound(stage[t]) /\ Sound(stage'[t])
  BY StageStep DEF Pre, Typed, Streams
<1>2. CASE stage[t].is = "open" /\ stage'[t].is = "failed"
  BY <1>1, <1>2, Failures, SoundForms
<1>3. CASE ~(stage[t].is = "open" /\ stage'[t].is = "failed")
  BY <1>1, <1>3, Forms DEF Moves, Sound, StageRecs
<1> QED BY <1>2, <1>3

\* Who is closed without an error.
LEMMA Closures ==
  ASSUME Pre, Next, NEW t \in Stages, stage[t].is = "open", stage'[t].is = "closed"
  PROVE  \/ CallerLeaves /\ (t = OutOf \/ (OutOf = "guard" /\ t = SourceOf("guard")))
         \/ GuardTakes /\ t \in {"guard", SourceOf("guard")}
         \/ GuardStops /\ t = "guard"
         \/ ReaderTakes /\ ~Streaming /\ t = OutOf
         \/ \E s \in Stages : Notify(s) /\ Recedes(stage, s, t, stage'[t])
<1>0. conf \in Confs /\ stage'[t] # stage[t]
  BY DEF Pre, Typed
<1>1. ~ServerBreaks
  BY <1>0, BreakEffect, Forms DEF Pre, Touches
<1>2. ASSUME NEW why \in Aborts, Abort(why) PROVE FALSE
  BY <1>0, <1>2, AbortEffect, Forms DEF Pre, Touches
<1>3. CASE CallerLeaves
  BY <1>0, <1>3, LeaveEffect DEF Pre
<1>4. ~InflateTransforms
  BY <1>0, InflateEffect, Forms DEF Pre, Touches
<1>5. ASSUME NEW s \in Stages, Ends(s) PROVE FALSE
  BY <1>0, <1>5, EndsEffect, Forms DEF Pre, Touches
<1>6. CASE GuardTakes
  BY <1>0, <1>6, GuardTakesEffect DEF Pre, Touches
<1>7. CASE GuardStops
  BY <1>0, <1>7, GuardStopsEffect DEF Pre, Touches
<1>8. ASSUME NEW s \in Stages, Notify(s)
      PROVE  Recedes(stage, s, t, stage'[t])
  <2>1. NotifyEffects(s) /\ stage[s].is \in {"failed", "closed"}
    BY <1>8, NotifyEffect DEF Pre
  <2>2. ~Follows(stage, s, TaggedBy(s), t, stage'[t])
    BY Forms DEF Follows
  <2> QED BY <1>0, <2>1, <2>2 DEF NotifyEffects
<1>9. CASE ReaderTakes
  <2>1. ~Streaming /\ Limited /\ got + 1 > conf.limit
    BY <1>0, <1>9 DEF ReaderTakes
  <2>2. t = OutOf
    <3>1. CASE OutOf = "inflate"
      BY <1>0, <1>9, <2>1, <3>1, LimitEffect, Forms DEF Pre, Touches
    <3>2. CASE OutOf # "inflate"
      BY <1>0, <1>9, <2>1, <3>2, LimitEffect DEF Pre, Touches
    <3> QED BY <3>1, <3>2
  <2> QED BY <1>9, <2>1, <2>2
<1> QED BY <1>0, <1>1, <1>2, <1>3, <1>4, <1>5, <1>6, <1>7, <1>8, <1>9, NextCases DEF Pre, ServerSends,
   ServerEnds, Pass, MeterTransforms, GuardAsks, TimerFires, ReaderEnds, ReaderHears

\* Only a notification runs listeners.
LEMMA Hearings ==
  ASSUME Pre, Next, NEW t \in Stages, stage[t].due, ~stage'[t].due
  PROVE  Notify(t)
<1>0. /\ conf \in Confs /\ stage'[t] # stage[t]
      /\ stage[t].is \notin {"open", "ended", "closing"}
  BY DEF Pre, Typed, Sound
<1>1. ~ServerBreaks
  BY <1>0, BreakEffect DEF Pre, Touches
<1>2. ASSUME NEW why \in Aborts, Abort(why) PROVE FALSE
  BY <1>0, <1>2, AbortEffect DEF Pre, Touches
<1>3. ~CallerLeaves
  BY <1>0, LeaveEffect DEF Pre
<1>4. ~InflateTransforms
  BY <1>0, InflateEffect DEF Pre, Touches
<1>5. ASSUME NEW s \in Stages, Ends(s) PROVE FALSE
  BY <1>0, <1>5, EndsEffect DEF Pre, Touches
<1>6. ~GuardTakes
  BY <1>0, GuardTakesEffect, GuardSource DEF Pre, Touches, GuardTakes
<1>7. ~GuardStops
  BY <1>0, GuardStopsEffect, GuardSource DEF Pre, Touches, GuardStops
<1>8. ASSUME NEW s \in Stages, Notify(s) PROVE s = t
  <2>1. NotifyEffects(s)
    BY <1>8, NotifyEffect DEF Pre
  <2> QED BY <1>0, <2>1 DEF NotifyEffects, Follows, Recedes
<1>9. ~ReaderTakes
  <2>1. ASSUME ReaderTakes PROVE FALSE
    <3>1. ~Streaming /\ Limited /\ got + 1 > conf.limit /\ stage[OutOf].is = "open"
      BY <1>0, <2>1 DEF ReaderTakes
    <3>2. CASE OutOf = "inflate"
      BY <1>0, <2>1, <3>1, <3>2, LimitEffect DEF Pre, Touches
    <3>3. CASE OutOf # "inflate"
      BY <1>0, <2>1, <3>1, <3>3, LimitEffect DEF Pre, Touches
    <3> QED BY <3>2, <3>3
  <2> QED BY <2>1
<1> QED BY <1>0, <1>1, <1>2, <1>3, <1>4, <1>5, <1>6, <1>7, <1>8, <1>9, NextCases DEF Pre, ServerSends,
   ServerEnds, Pass, MeterTransforms, GuardAsks, TimerFires, ReaderEnds, ReaderHears

\* What the tag says where a stream is handed out.
LEMMA TagIsTrue ==
  ASSUME IInv, Named, Tagging, Streaming, NEW s \in Stages, TaggedBy(s)
  PROVE  conf.encoded /\ conf.corrupt
<1>1. CASE tagged
  BY <1>1 DEF Tagging
<1>2. CASE stage["inflate"].is = "failed" /\ ~bodyErroredFirst
  <2>1. stage["inflate"].why # "none"
    BY <1>2, Names DEF IInv, Pre, Typed, Sound
  <2>2. stage["inflate"].why = "decode"
    BY <1>2, <2>1 DEF Tagging
  <2> QED BY <2>2, Names DEF Named
<1> QED BY <1>1, <1>2 DEF TaggedBy

LEMMA NamedStep ==
  ASSUME IInv, Named, Tagging, Next
  PROVE  Named'
<1> USE DEF IInv
<1>0. conf' = conf /\ conf \in Confs /\ Used("inflate")' = Used("inflate")
      /\ Units(conf.size)' = Units(conf.size)
  BY FixedStep DEF Pre, Typed, Units
<1> DEFINE Fine(w) ==
             /\ w \in Aborts \cup {"canceled"} => aborted' # "none"
             /\ w = "socket" => server' = "broke"
             /\ w = "limit" => Units(conf.size) > conf.limit
             /\ w \in {"decode", "decodeError"} => conf.encoded /\ conf.corrupt
             /\ w = "decode" => Used("inflate")
<1>1. \A s \in Stages : Fine(stage[s].why)
  BY Kept DEF Named
<1>2. ASSUME NEW t \in Stages PROVE Fine(stage'[t].why)
  <2>1. CASE stage'[t].why = stage[t].why
    <3> HIDE DEF Fine
    <3> QED BY <1>1, <2>1
  <2>2. CASE ServerBreaks /\ stage'[t] = Hit("socket")
    BY <2>2, Forms DEF ServerBreaks, Aborts
  <2>3. ASSUME NEW why \in Aborts, Abort(why), stage'[t] = Hit(why) PROVE Fine(stage'[t].why)
    BY <2>3, Forms DEF Abort, Aborts
  <2>4. CASE Used("inflate") /\ conf.corrupt /\ stage'[t] = Hit("decode")
    BY <1>0, <2>4, Forms, UsedWhen DEF Aborts
  <2>5. CASE GuardTakes /\ stage'[t] = Hit("limit") /\ GuardPassed + 1 > conf.limit
    <3>1. GuardPassed + 1 <= Units(conf.size)
      <4>1. gen = "pulling"
        BY <2>5 DEF GuardTakes
      <4>2. SourceOf("guard") \in {"body", "meter", "inflate"}
        BY <4>1, GuardSource DEF Pre
      <4>3. ready[SourceOf("guard")] > 0
        BY <2>5, GuardTakesEffect DEF Pre
      <4> QED BY <4>2, <4>3, Room
    <3>2. GuardPassed \in Nat /\ Units(conf.size) \in Nat /\ conf.limit \in Nat
      <4>1. GuardPassed \in Nat
        BY Names DEF GuardPassed, Pre, Typed
      <4> QED BY <1>0, <4>1, UnitsType
    <3>3. Units(conf.size) > conf.limit
      BY <2>5, <3>1, <3>2
    <3> QED BY <2>5, <3>3, Forms DEF Aborts
  <2>6. CASE /\ GuardStops /\ t = "guard"
             /\ stage'[t] = Hit(stage[SourceOf("guard")].why)
    <3>1. SourceOf("guard") \in Stages
      BY <2>6, GuardSource DEF Pre, GuardStops, Stages
    <3>2. stage'[t].why = stage[SourceOf("guard")].why
      BY <2>6, Forms
    <3> HIDE DEF Fine
    <3> QED BY <1>1, <3>1, <3>2
  <2>7. CASE /\ ReaderTakes /\ got + 1 > conf.limit /\ OutOf = "inflate" /\ stage'[t] = Hit("limit")
    <3>1. got + 1 <= Units(conf.size)
      <4>1. ready["inflate"] > 0
        BY <2>7 DEF ReaderTakes
      <4> QED BY <4>1, Room
    <3>2. got \in Nat /\ Units(conf.size) \in Nat /\ conf.limit \in Nat
      <4>1. got \in Nat
        BY DEF Pre, Typed
      <4> QED BY <1>0, <4>1, UnitsType
    <3>3. Units(conf.size) > conf.limit
      BY <2>7, <3>1, <3>2
    <3> QED BY <2>7, <3>3, Forms DEF Aborts
  <2>8. ASSUME NEW s \in Stages, Notify(s), Follows(stage, s, TaggedBy(s), t, stage'[t])
        PROVE  Fine(stage'[t].why)
    <3>1. CASE stage'[t] = Hit(stage[s].why)
      <4>1. stage'[t].why = stage[s].why
        BY <3>1, Forms
      <4> HIDE DEF Fine
      <4> QED BY <1>1, <4>1
    <3>2. CASE t = "wrapper" /\ stage'[t] = Hit(Translated(stage[s].why, TaggedBy(s)))
      <4>1. Link(s, t)
        BY <2>8 DEF Follows
      <4>2. Streaming
        BY <1>0, <3>2, <4>1, Links, UsedWhen, Names
      <4>3. stage'[t].why = Translated(stage[s].why, TaggedBy(s))
        BY <3>2, Forms
      <4>4. CASE stage[s].why = "abort"
        BY <1>1, <4>3, <4>4 DEF Translated, Aborts
      <4>5. CASE stage[s].why \notin {"abort", "limit"} /\ TaggedBy(s)
        <5>1. conf.encoded /\ conf.corrupt
          BY <4>2, <4>5, TagIsTrue
        <5> QED BY <4>3, <4>5, <5>1 DEF Translated, Aborts
      <4>6. CASE stage[s].why = "limit" \/ (stage[s].why # "abort" /\ ~TaggedBy(s))
        <5>1. stage'[t].why = stage[s].why
          BY <4>3, <4>6 DEF Translated
        <5> HIDE DEF Fine
        <5> QED BY <1>1, <5>1
      <4> QED BY <4>4, <4>5, <4>6
    <3> QED BY <2>8, <3>1, <3>2 DEF Follows
  <2>9. CASE stage'[t] = Hit(stage["inflate"].why)
    <3>1. stage'[t].why = stage["inflate"].why
      BY <2>9, Forms
    <3> HIDE DEF Fine
    <3> QED BY <1>1, <3>1, Names
  <2> HIDE DEF Fine
  <2> QED BY <2>1, <2>2, <2>3, <2>4, <2>5, <2>6, <2>7, <2>8, <2>9, WhyMoves DEF Fails
<1> QED BY <1>0, <1>2 DEF Named

LEMMA TaggingStep ==
  ASSUME IInv, Named, Tagging, Next
  PROVE  Tagging'
<1> USE DEF IInv
<1>0. /\ conf' = conf /\ conf \in Confs /\ Used("inflate")' = Used("inflate")
      /\ (Streaming)' = Streaming
      /\ \A t \in Stages : Sound(stage[t]) /\ Sound(stage'[t])
  BY FixedStep, StageStep DEF Pre, Typed, Streams, Streaming
<1>1. \A t \in Stages : stage[t].is = "failed" => stage'[t].is = "failed"
  BY Settled DEF Pre
<1>2. ASSUME bodyErroredFirst' PROVE stage'["inflate"].is # "open"
  <2>1. CASE bodyErroredFirst
    <3>1. stage["inflate"].is # "open" /\ Moves("inflate") /\ Sound(stage["inflate"])
      BY <1>0, <2>1, StageStep, Names DEF Tagging
    <3> QED BY <3>1, Forms DEF Moves, Sound, StageRecs
  <2>2. CASE ~bodyErroredFirst
    <3>1. PICK s \in Stages : Notify(s) /\ stage[s].is = "failed" /\ Link(s, "inflate")
      BY <1>2, <2>2, NextCases DEF Pre, ServerSends, ServerEnds, ServerBreaks, Abort, CallerLeaves,
         Pass, MeterTransforms, InflateTransforms, Ends, GuardTakes, GuardStops, Notify,
         GuardAsks, TimerFires, ReaderTakes, ReaderEnds, ReaderHears, Link
    <3> QED BY <3>1, NotifyEffect DEF Pre, NotifyEffects
  <2> QED BY <2>1, <2>2
<1>3. ASSUME NEW t \in {"body", "meter"}, stage'[t].why \in {"decode", "limit"}
      PROVE  stage'["inflate"].is = "failed"
  <2>1. CASE stage["inflate"].is = "failed"
    BY <1>1, <2>1, Names
  <2>2. CASE stage["inflate"].is # "failed"
    <3>1. stage[t].why \notin {"decode", "limit"}
      BY <2>2 DEF Tagging
    <3>2. Fails(t)
      BY <1>3, <3>1, WhyMoves DEF Stages
    <3>3. ~\E why \in Aborts : stage'[t] = Hit(why)
      BY <1>3, Forms DEF Aborts
    <3>4. stage'[t] # Hit("socket")
      BY <1>3, Forms
    <3>5. ASSUME NEW s \in Stages, Notify(s), Follows(stage, s, TaggedBy(s), t, stage'[t])
          PROVE  FALSE
      <4>1. stage'[t] = Hit(stage[s].why) /\ Link(s, t)
        BY <3>5 DEF Follows
      <4>2. s = "body"
        BY <1>0, <4>1, Links DEF Stages
      <4>3. stage["body"].why \in {"decode", "limit"}
        BY <1>3, <4>1, <4>2, Forms
      <4> QED BY <2>2, <4>3 DEF Tagging
    <3> QED BY <2>2, <3>2, <3>3, <3>4, <3>5, Forms DEF Fails
  <2> QED BY <2>1, <2>2
\* How the decompressor fails.
<1>4. ASSUME stage'["inflate"].why # stage["inflate"].why
      PROVE  /\ stage["inflate"] = Open /\ stage'["inflate"].is = "failed"
             /\ \/ InflateTransforms /\ stage'["inflate"] = Hit("decode")
                \/ ReaderTakes /\ ~Streaming /\ outcome' = "limit" /\ stage'["inflate"] = Hit("limit")
                \/ /\ stage'["inflate"].why \notin {"decode", "limit"} /\ bodyErroredFirst'
  <2>1. stage["inflate"] = Open /\ stage'["inflate"].is = "failed" /\ Fails("inflate")
    BY <1>4, WhyMoves, Names
  <2>2. ASSUME NEW s \in Stages, Notify(s),
               Follows(stage, s, TaggedBy(s), "inflate", stage'["inflate"])
        PROVE  stage'["inflate"].why \notin {"decode", "limit"} /\ bodyErroredFirst'
    <3>1. /\ stage'["inflate"] = Hit(stage[s].why) /\ Link(s, "inflate")
          /\ stage[s].is = "failed"
      BY <2>2 DEF Follows
    <3>2. s \in {"body", "meter"}
      BY <1>0, <3>1, Links DEF Stages
    <3>3. stage[s].why \notin {"decode", "limit"}
      BY <2>1, <3>2, Forms DEF Tagging
    <3>4. bodyErroredFirst'
      BY <2>2, <3>1 DEF Notify, Link
    <3> QED BY <3>1, <3>3, <3>4, Forms
  <2>3. ~Link("inflate", "inflate")
    BY <1>0, Links, Names
  <2> QED BY <2>1, <2>2, <2>3 DEF Fails
<1>5. stage'["inflate"].why \notin {"none", "decode", "limit"} => bodyErroredFirst'
  <2>1. CASE stage'["inflate"].why = stage["inflate"].why
    BY <2>1, Kept DEF Tagging
  <2>2. CASE stage'["inflate"].why # stage["inflate"].why
    BY <1>4, <2>2, Forms
  <2> QED BY <2>1, <2>2
<1>6. ASSUME stage'["inflate"].why = "limit" PROVE ~Streaming /\ outcome' = "limit"
  <2>1. CASE stage'["inflate"].why = stage["inflate"].why
    BY <1>6, <2>1, Kept DEF Tagging
  <2>2. CASE stage'["inflate"].why # stage["inflate"].why
    BY <1>4, <1>6, <2>2, Forms
  <2> QED BY <2>1, <2>2
\* While the decompressor's own error waits to be told, nothing else is.
<1>7. ASSUME stage["inflate"].why = "decode", stage["inflate"].due, stage'["inflate"].due
      PROVE  ~bodyErroredFirst' /\ ~stage'["meter"].due
  <2>1. ~bodyErroredFirst /\ ~stage["meter"].due /\ stage["inflate"].is = "failed" /\ Used("inflate")
    BY <1>0, <1>7, Names DEF Tagging, Named, Sound, StageRecs
  <2>2. ~Quiet
    BY <1>7, Names DEF Quiet
  <2>3. ~Notify("inflate") /\ ~Notify("body") /\ ~Notify("meter")
    <3>1. ASSUME Notify("inflate") PROVE FALSE
      <4>1. stage'["inflate"] = [stage["inflate"] EXCEPT !.due = FALSE]
        BY <3>1, NotifyEffect, Names DEF Pre, NotifyEffects
      <4>2. stage["inflate"] \in StageRecs
        BY <1>0, Names DEF Sound
      <4>3. ~stage'["inflate"].due
        BY <4>1, <4>2 DEF StageRecs
      <4> QED BY <1>7, <4>3
    <3> QED BY <2>1, <2>2, <3>1 DEF Notify
  <2>4. ~bodyErroredFirst'
    <3>1. ASSUME NEW s \in Stages, Notify(s), Link(s, "inflate") PROVE FALSE
      BY <1>0, <2>3, <3>1, Links DEF Stages
    <3> QED BY <2>1, <3>1, NextCases DEF Pre, ServerSends, ServerEnds, ServerBreaks, Abort,
         CallerLeaves, Pass, MeterTransforms, InflateTransforms, Ends, GuardTakes, GuardStops, Notify,
         GuardAsks, TimerFires, ReaderTakes, ReaderEnds, ReaderHears, Link
  <2>5. ASSUME stage'["meter"].due PROVE FALSE
    <3>1. /\ stage["meter"].is = "open" /\ stage'["meter"].is \in {"failed", "closed"}
      <4>1. Moves("meter") /\ Sound(stage["meter"])
        BY <1>0, StageStep, Names
      <4> QED BY <2>1, <2>5, <4>1, Forms, Names DEF Moves, Sound, StageRecs
    <3>3. OutOf # "meter" /\ (Used("guard") => SourceOf("guard") # "meter")
      BY <1>0, <2>1, Out, HasSource, Links, Names
    <3>4. CASE stage'["meter"].is = "failed"
      <4>1. Fails("meter")
        BY <3>1, <3>4, Failures, Names
      <4>2. ~(\E why \in Aborts : Abort(why))
        BY <2>2 DEF Abort
      <4>3. OutOf = "inflate" => ~ReaderTakes
        BY <2>1 DEF ReaderTakes
      <4>4. ASSUME NEW s \in Stages, Notify(s), Follows(stage, s, TaggedBy(s), "meter", stage'["meter"])
            PROVE  FALSE
        <5>1. s = "body"
          BY <1>0, <4>4, Links DEF Follows, Stages
        <5> QED BY <2>3, <4>4, <5>1
      <4> QED BY <2>3, <4>1, <4>2, <4>3, <4>4 DEF Fails
    <3>5. CASE stage'["meter"].is = "closed"
      <4>1. ASSUME NEW s \in Stages, Notify(s), Recedes(stage, s, "meter", stage'["meter"]) PROVE FALSE
        <5>1. Link("meter", s) \/ Link("meter", "guard")
          BY <4>1 DEF Recedes
        <5>2. s = "inflate"
          BY <1>0, <2>1, <5>1, Links DEF Stages
        <5> QED BY <2>3, <4>1, <5>2
      <4>2. OutOf = "guard" => Used("guard")
        BY <1>0, Out
      <4>3. GuardTakes => Used("guard")
        BY GuardSource DEF Pre, GuardTakes
      <4> QED BY <3>1, <3>3, <3>5, <4>1, <4>2, <4>3, Closures, Names
    <3> QED BY <3>1, <3>4, <3>5
  <2> QED BY <2>4, <2>5
<1>8. ASSUME stage'["inflate"].why = "decode"
      PROVE  IF stage'["inflate"].due THEN ~bodyErroredFirst' /\ ~stage'["meter"].due ELSE tagged'
  <2>1. CASE stage'["inflate"].why # stage["inflate"].why
    <3>1. InflateTransforms /\ stage'["inflate"] = Hit("decode") /\ stage["inflate"] = Open
      BY <1>4, <1>8, <2>1, Forms
    <3>2. ~bodyErroredFirst /\ bodyErroredFirst' = bodyErroredFirst /\ ~stage["meter"].due
      BY <3>1, Forms, Names DEF InflateTransforms, Quiet, Tagging
    <3>3. stage'["meter"] = stage["meter"]
      BY <3>1, InflateEffect, Names DEF Pre, Touches
    <3> QED BY <3>1, <3>2, <3>3, Forms
  <2>2. CASE stage["inflate"].why = "decode"
    <3>1. CASE stage["inflate"].due /\ stage'["inflate"].due
      BY <1>7, <2>2, <3>1
    <3>2. CASE stage["inflate"].due /\ ~stage'["inflate"].due
      <4>1. Notify("inflate") /\ ~bodyErroredFirst /\ stage["inflate"].is = "failed"
        BY <1>0, <2>2, <3>2, Hearings, Names DEF Pre, Tagging, Sound, StageRecs
      <4> QED BY <3>2, <4>1 DEF Notify, TaggedBy
    <3>3. CASE ~stage["inflate"].due
      <4>1. tagged /\ stage["inflate"].is = "failed"
        BY <1>0, <2>2, <3>3, Names DEF Tagging, Sound, StageRecs
      <4>2. ~stage'["inflate"].due /\ tagged'
        BY <3>3, <4>1, Settled, Kept, Names DEF Pre
      <4> QED BY <4>2
    <3> QED BY <3>1, <3>2, <3>3
  <2> QED BY <1>8, <2>1, <2>2
<1>9. ASSUME stage'["guard"].why = "decode" PROVE tagged'
  <2>1. CASE stage'["guard"].why = stage["guard"].why
    BY <1>9, <2>1, Kept DEF Tagging
  <2>2. CASE stage'["guard"].why # stage["guard"].why
    <3>1. Fails("guard")
      BY <2>2, WhyMoves, Names
    <3>2. ASSUME NEW s \in Stages PROVE ~Follows(stage, s, TaggedBy(s), "guard", stage'["guard"])
      BY DEF Follows
    <3>3. ~Link("guard", "inflate") /\ (OutOf = "inflate" => SourceOf("inflate") # "guard")
      BY <1>0, Links, Out, HasSource, Names
    <3>4. stage'["guard"] # Hit("limit")
      BY <1>9, Forms
    <3>5. LET s == SourceOf("guard") IN
          GuardStops /\ stage[s].is = "failed" /\ ~stage[s].due /\ stage'["guard"] = Hit(stage[s].why)
      BY <3>1, <3>2, <3>3, <3>4 DEF Fails
    <3>6. SourceOf("guard") \in Stages /\ Link(SourceOf("guard"), "guard")
      BY <3>5, GuardSource DEF Pre, GuardStops, Stages
    <3>7. stage[SourceOf("guard")].why = "decode"
      BY <1>9, <3>5, Forms
    <3>8. SourceOf("guard") = "inflate"
      BY <1>0, <3>6, <3>7, Links DEF Named, Stages
    <3>9. tagged
      BY <3>5, <3>7, <3>8 DEF Tagging
    <3> QED BY <3>9, Kept
  <2> QED BY <2>1, <2>2
<1>10. stage'["wrapper"].why \notin {"decode", "abort"}
  <2>1. CASE stage'["wrapper"].why = stage["wrapper"].why
    BY <2>1 DEF Tagging
  <2>2. CASE stage'["wrapper"].why # stage["wrapper"].why
    <3>1. Fails("wrapper")
      BY <2>2, WhyMoves, Names
    <3>2. ~Link("wrapper", "inflate") /\ (OutOf = "inflate" => SourceOf("inflate") # "wrapper")
      BY <1>0, Links, Out, HasSource, Names
    <3>3. PICK s \in Stages : Notify(s) /\ Follows(stage, s, TaggedBy(s), "wrapper", stage'["wrapper"])
      BY <3>1, <3>2 DEF Fails
    <3>4. /\ Link(s, "wrapper") /\ stage[s].is = "failed"
          /\ stage'["wrapper"].why = Translated(stage[s].why, TaggedBy(s))
      BY <3>3, Forms DEF Follows
    <3>5. Translated(stage[s].why, TaggedBy(s)) # "abort"
      BY DEF Translated
    <3>6. ASSUME Translated(stage[s].why, TaggedBy(s)) = "decode" PROVE FALSE
      <4>1. stage[s].why = "decode" /\ ~TaggedBy(s)
        BY <3>6 DEF Translated
      <4>2. s \in {"inflate", "guard"}
        BY <1>0, <3>4, <4>1, Links DEF Named, Stages
      <4>3. CASE s = "guard"
        BY <4>1, <4>3 DEF Tagging, TaggedBy
      <4>4. CASE s = "inflate"
        <5>1. stage[s].due
          BY <3>3 DEF Notify
        <5> QED BY <3>4, <4>1, <4>4, <5>1 DEF Tagging, TaggedBy
      <4> QED BY <4>2, <4>3, <4>4
    <3> QED BY <3>4, <3>5, <3>6
  <2> QED BY <2>1, <2>2
<1>11. ASSUME tagged' PROVE (conf.encoded /\ conf.corrupt) \/ (~Streaming /\ outcome' = "limit")
  <2>1. CASE tagged
    BY <2>1, Kept DEF Tagging
  <2>2. CASE ~tagged
    <3>1. Notify("inflate") /\ stage["inflate"].is = "failed" /\ ~bodyErroredFirst
      BY <1>11, <2>2, NextCases DEF Pre, ServerSends, ServerEnds, ServerBreaks, Abort, CallerLeaves,
         Pass, MeterTransforms, InflateTransforms, Ends, GuardTakes, GuardStops, Notify, TaggedBy,
         GuardAsks, TimerFires, ReaderTakes, ReaderEnds, ReaderHears
    <3>2. stage["inflate"].why \in {"decode", "limit"}
      BY <1>0, <3>1, Names DEF Tagging, Sound
    <3>3. outcome' = outcome
      BY <3>1 DEF Notify
    <3> QED BY <3>2, <3>3, Names DEF Tagging, Named
  <2> QED BY <2>1, <2>2
<1> QED BY <1>0, <1>2, <1>3, <1>5, <1>6, <1>8, <1>9, <1>10, <1>11 DEF Tagging

(***************************************************************************)
(* How the read ends.                                                      *)
(***************************************************************************)

\* Corrupt data comes out of no decompressor.
Dry == Used("inflate") /\ conf.corrupt => Loose = 0

\* When the decompressor's error is heard, its source has been let go.
SourceGone ==
  stage["inflate"].is = "failed" /\ ~stage["inflate"].due
    => stage[SourceOf("inflate")].is # "open"

LEMMA DryStep ==
  ASSUME IInv, Dry, Next
  PROVE  Dry'
<1>1. Used("inflate")' = Used("inflate") /\ conf' = conf
  BY FixedStep
<1>2. Counters'
  BY CountersStep DEF IInv
<1>3. Loose' \in Nat
  BY <1>2, Names DEF Counters, Loose
<1>4. VolumeMoves
  BY VolumeStep DEF IInv
<1> QED BY <1>1, <1>3, <1>4 DEF Dry, VolumeMoves

LEMMA SourceGoneStep ==
  ASSUME IInv, SourceGone, Next
  PROVE  SourceGone'
<1> USE DEF IInv
<1>1. /\ SourceOf("inflate")' = SourceOf("inflate") /\ conf \in Confs
      /\ \A t \in Stages : Sound(stage[t])
  BY FixedStep DEF Pre, Typed
<1> SUFFICES ASSUME stage'["inflate"].is = "failed", ~stage'["inflate"].due
             PROVE  stage'[SourceOf("inflate")].is # "open"
  BY <1>1 DEF SourceGone
<1>2. Moves("inflate")
  BY StageStep, Names
<1>3. stage["inflate"].is = "failed"
  <2>1. CASE stage["inflate"].is = "open"
    <3>1. Fails("inflate")
      BY <2>1, Failures, Names
    <3>2. \A why : stage'["inflate"] # Hit(why)
      BY Forms
    <3>3. ASSUME NEW s \in Stages
          PROVE  ~Follows(stage, s, TaggedBy(s), "inflate", stage'["inflate"])
      BY <3>2 DEF Follows
    <3> QED BY <3>1, <3>2, <3>3 DEF Fails
  <2>2. CASE stage["inflate"].is # "open"
    BY <1>1, <1>2, <2>2, Names DEF Moves, Sound, StageRecs
  <2> QED BY <2>1, <2>2
<1>4. Used("inflate")
  BY <1>3, Names, Forms DEF Pre, Idle
<1>5. SourceOf("inflate") \in Stages
  BY <1>1, <1>4, HasSource, Names
<1>6. CASE stage["inflate"].due
  <2>1. Notify("inflate")
    BY <1>6, Hearings, Names
  <2> QED BY <2>1, NotifyEffect, Names DEF Pre, NotifyEffects
<1>7. CASE ~stage["inflate"].due
  <2>1. stage[SourceOf("inflate")].is # "open" /\ Moves(SourceOf("inflate"))
        /\ Sound(stage[SourceOf("inflate")])
    BY <1>1, <1>3, <1>5, <1>7, StageStep DEF SourceGone
  <2> QED BY <2>1, Forms DEF Moves, Sound, StageRecs
<1> QED BY <1>6, <1>7

\* When what is read has ended, everything before it has, and all has come out.
LEMMA AllEnded ==
  ASSUME IInv, outcome = "reading", stage[OutOf].is = "ended"
  PROVE  got = Units(conf.size) /\ Loose = got /\ got > 0
<1> USE DEF IInv
<1>0. Counters /\ conf \in Confs /\ conf.size \in Nat \ {0} /\ Inflation \in Nat \ {0}
  BY ConfTypes DEF Pre, Typed, Counters
<1>1. ASSUME NEW s \in Stages, NEW t \in Stages, Link(s, t), stage[t].is = "ended"
      PROVE  stage[s].is = "ended" \/ (t = "meter" /\ seen >= conf.size)
  <2>1. t \in ended \ {"body"}
    BY <1>0, <1>1, Links DEF Chained
  <2>2. SourceOf(t) = s
    BY <1>0, <1>1, Source
  <2> QED BY <2>1, <2>2 DEF Chained
<1>2. Used("wrapper") => stage["wrapper"].is = "ended"
  BY <1>0, Out
<1>3. Used("guard") => stage["guard"].is = "ended"
  BY <1>0, <1>1, <1>2, Out, Links, Names
<1>4. Used("inflate") => stage["inflate"].is = "ended"
  BY <1>0, <1>1, <1>2, <1>3, Out, Links, Names
<1>5. Used("meter") => stage["meter"].is = "ended"
  BY <1>0, <1>1, <1>2, <1>3, <1>4, Out, Links, Names
<1>6. stage["body"].is = "ended" \/ seen >= conf.size
  BY <1>0, <1>1, <1>2, <1>3, <1>4, <1>5, Out, Links, Names
<1>7. /\ queue["meter"] = 0 /\ ready["meter"] = 0 /\ queue["inflate"] = 0 /\ ready["inflate"] = 0
      /\ ready["guard"] = 0 /\ ready["wrapper"] = 0
  BY <1>2, <1>3, <1>4, <1>5, Names DEF Pre, Idle, Chained
<1>8. ready["body"] = 0 /\ sent = conf.size
  <2>1. CASE stage["body"].is = "ended"
    BY <2>1, Names DEF Chained
  <2>2. CASE seen >= conf.size
    <3>1. seen + queue["meter"] + ready["body"] <= sent
      BY DEF Volumes
    <3> QED BY <1>0, <1>7, <2>2, <3>1, Names DEF Counters
  <2> QED BY <1>6, <2>1, <2>2
<1>9. ~Lost
  <2>1. stage["meter"].is \in {"open", "ended"}
    BY <1>5, Names, Forms DEF Pre, Idle
  <2>2. stage["guard"].is \in {"open", "ended"}
    BY <1>3, Names, Forms DEF Pre, Idle
  <2> QED BY <2>1, <2>2 DEF Lost
<1>10. Squeezed = 0 /\ Loose = got
  BY <1>0, <1>7, <1>8 DEF Counters, Squeezed, Loose
<1>11. Unit * Squeezed + Loose = Unit * sent
  BY <1>9 DEF Volumes
<1>12. Unit * 0 = 0 /\ Unit * conf.size \in Nat /\ conf.size <= Unit * conf.size
  BY <1>0, VolumeTypes, Times
<1>13. got = Unit * conf.size
  BY <1>0, <1>8, <1>10, <1>11, <1>12 DEF Counters
<1>14. Units(conf.size) = Unit * conf.size
  BY <1>0, Times DEF Units, Unit
<1> QED BY <1>0, <1>10, <1>12, <1>13, <1>14

LEMMA WholeStep ==
  ASSUME IInv, Dry, SourceGone, AnswerIsWhole, Next
  PROVE  AnswerIsWhole'
<1> USE DEF IInv
<1>0. conf' = conf /\ conf \in Confs /\ Units(conf.size)' = Units(conf.size) /\ Limited' = Limited
  BY FixedStep DEF Pre, Typed, Units, Limited
<1> SUFFICES ASSUME outcome' = "ok"
             PROVE  /\ got' = Units(conf.size)
                    /\ ~(conf.encoded /\ conf.corrupt)
                    /\ Limited => got' <= conf.limit
  BY <1>0 DEF AnswerIsWhole
<1>1. Limited => got' <= conf.limit
  BY <1>0, GuardedStep DEF Guarded
<1>2. CASE outcome = "ok"
  <2>1. got' = got
    BY <1>2, NextCases DEF Pre, ServerSends, ServerEnds, ServerBreaks, Abort, CallerLeaves,
       Pass, MeterTransforms, InflateTransforms, Ends, GuardTakes, GuardStops, Notify,
       GuardAsks, TimerFires, ReaderTakes, ReaderEnds, ReaderHears
  <2> QED BY <1>1, <1>2, <2>1 DEF AnswerIsWhole
<1>3. CASE outcome # "ok" /\ ReaderEnds
  <2>1. /\ outcome = "reading" /\ stage[OutOf].is = "ended" /\ got' = got
        /\ ~(~Streaming /\ conf.encoded /\ ~Limited /\ conf.corrupt)
    BY <1>3 DEF ReaderEnds, Caught
  <2>2. got = Units(conf.size) /\ Loose = got /\ got > 0
    BY <2>1, AllEnded
  <2>3. ASSUME conf.encoded, conf.corrupt PROVE FALSE
    <3>1. Used("inflate")
      BY <1>0, <2>1, <2>3, UsedWhen
    <3> QED BY <2>2, <2>3, <3>1 DEF Dry
  <2> QED BY <1>1, <2>1, <2>2, <2>3
<1>4. ASSUME outcome # "ok", ReaderHears PROVE FALSE
  <2>1. /\ stage[OutOf].is = "failed" /\ ~stage[OutOf].due
        /\ IF Streaming THEN stage[OutOf].why = "ok" ELSE Caught(stage[OutOf].why, tagged) = "ok"
    BY <1>4 DEF ReaderHears
  <2>2. OutOf \in Stages /\ stage[OutOf].why \in Causes
    BY <1>0, <2>1, Out, Causing DEF Pre, Typed
  <2>3. stage[OutOf].why # "ok"
    BY <2>2 DEF Causes, Aborts
  <2>4. ~Streaming /\ ~Metered /\ ~BodyUsed
    BY <2>1, <2>3 DEF Caught
  <2>5. OutOf \in {"body", "inflate"}
    BY <1>0, <2>4, Out, UsedWhen
  <2>6. stage["body"].is # "failed" /\ stage["body"].is # "closed" /\ ~(sent > ready["body"])
    BY <2>4 DEF BodyUsed
  <2>7. OutOf = "inflate" /\ SourceOf("inflate") = "body"
    BY <1>0, <2>1, <2>4, <2>5, <2>6, Out, UsedWhen, Links, Source, Names
  <2>8. stage["body"].is = "ended"
    <3>1. stage["body"].is # "open" /\ stage["body"].is # "closing" /\ Sound(stage["body"])
      BY <2>1, <2>7, Names DEF SourceGone, Chained, Pre, Typed
    <3> QED BY <2>6, <3>1 DEF Sound, StageRecs
  <2>9. ready["body"] = 0 /\ sent = conf.size
    BY <2>8, Names DEF Chained
  <2> QED BY <1>0, <2>6, <2>9, ConfTypes
<1> QED BY <1>2, <1>3, <1>4, NextCases DEF Pre, ServerSends, ServerEnds, ServerBreaks, Abort,
   CallerLeaves, Pass, MeterTransforms, InflateTransforms, Ends, GuardTakes, GuardStops, Notify,
   GuardAsks, TimerFires, ReaderTakes

LEMMA CauseStep ==
  ASSUME IInv, Named, Tagging, CauseIsNamed, Next
  PROVE  CauseIsNamed'
<1> USE DEF IInv
<1>0. /\ conf' = conf /\ conf \in Confs /\ Units(conf.size)' = Units(conf.size)
      /\ Streaming' = Streaming
  BY FixedStep DEF Pre, Typed, Units, Streaming
<1> DEFINE Fine(w) ==
             /\ w # "decode"
             /\ w = "decodeError" => conf.encoded /\ conf.corrupt
             /\ w = "socket" => server' = "broke"
             /\ w \in {"canceled", "abort", "reason"} => aborted' # "none"
             /\ w = "abort" => Streaming /\ ~conf.cancellable
             /\ w = "limit" => Units(conf.size) > conf.limit
<1>1. CASE outcome' = outcome
  BY <1>0, <1>1, Kept DEF CauseIsNamed
<1>2. CASE ReaderTakes
  <2>1. CASE ~Streaming /\ Limited /\ got + 1 > conf.limit
    <3>1. OutOf \in {"body", "meter", "inflate"} /\ ready[OutOf] > 0 /\ outcome' = "limit"
      BY <1>0, <1>2, <2>1, Out, UsedWhen DEF ReaderTakes
    <3>2. got + 1 <= Units(conf.size) /\ got \in Nat
      BY <3>1, Room DEF Pre, Typed
    <3>3. Units(conf.size) > conf.limit
      BY <1>0, <2>1, <3>2, UnitsType
    <3> QED BY <1>0, <3>1, <3>3 DEF CauseIsNamed
  <2>2. CASE ~(~Streaming /\ Limited /\ got + 1 > conf.limit)
    BY <1>1, <1>2, <2>2 DEF ReaderTakes
  <2> QED BY <2>1, <2>2
<1>3. CASE CallerLeaves
  BY <1>3 DEF CallerLeaves, CauseIsNamed
<1>4. CASE ReaderEnds
  <2>1. \/ outcome' = "decodeError" /\ conf.encoded /\ conf.corrupt
        \/ outcome' \in {"ok", "refused"}
    BY <1>4 DEF ReaderEnds, Caught
  <2> QED BY <1>0, <2>1 DEF CauseIsNamed
<1>5. CASE ReaderHears
  <2>1. /\ stage[OutOf].is = "failed" /\ ~stage[OutOf].due /\ outcome = "reading"
        /\ outcome' = IF Streaming THEN stage[OutOf].why ELSE Caught(stage[OutOf].why, tagged)
    BY <1>5 DEF ReaderHears
  <2>2. OutOf \in Stages /\ stage[OutOf].why \in Causes
    BY <1>0, <2>1, Out, Causing DEF Pre, Typed
  <2> DEFINE w == stage[OutOf].why
  <2>3. /\ w \in {"abort", "reason", "canceled"} => aborted' # "none"
        /\ w = "socket" => server' = "broke"
        /\ w = "limit" => Units(conf.size) > conf.limit
        /\ w \in {"decode", "decodeError"} => conf.encoded /\ conf.corrupt
        /\ w = "decode" => Used("inflate")
    BY <2>2, Kept DEF Named, Aborts
  <2>4. Fine(outcome')
    <3>1. CASE Streaming
      <4>1. outcome' = w
        BY <2>1, <3>1
      <4>2. w # "decode"
        <5>1. ASSUME w = "decode" PROVE FALSE
          <6>1. OutOf = "wrapper"
            BY <1>0, <2>3, <3>1, <5>1, UsedWhen, Out
          <6> QED BY <5>1, <6>1 DEF Tagging
        <5> QED BY <5>1
      <4>3. w = "abort" => ~conf.cancellable
        <5>1. ASSUME w = "abort", conf.cancellable PROVE FALSE
          <6>1. OutOf = "wrapper"
            BY <1>0, <3>1, <5>1, UsedWhen, Out
          <6> QED BY <5>1, <6>1 DEF Tagging
        <5> QED BY <5>1
      <4> QED BY <2>3, <3>1, <4>1, <4>2, <4>3
    <3>2. CASE ~Streaming
      <4>1. outcome' = Caught(w, tagged)
        BY <2>1, <3>2
      <4>2. tagged => conf.encoded /\ conf.corrupt
        BY <2>1 DEF Tagging
      <4>3. w = "decode" => tagged
        <5>1. ASSUME w = "decode" PROVE tagged
          <6>1. OutOf = "inflate"
            BY <1>0, <2>3, <3>2, <5>1, Out, UsedWhen
          <6> QED BY <2>1, <5>1, <6>1 DEF Tagging
        <5> QED BY <5>1
      <4> HIDE DEF w
      <4>4. \/ outcome' = "limit" /\ w = "limit"
            \/ outcome' = "decodeError" /\ tagged
            \/ outcome' = "ok"
            \/ outcome' = "canceled" /\ w = "abort"
            \/ outcome' = w /\ w # "abort" /\ w # "decode"
        BY <4>1, <4>3 DEF Caught
      <4> QED BY <2>3, <4>2, <4>4
    <3> QED BY <3>1, <3>2
  <2> QED BY <1>0, <2>4 DEF CauseIsNamed
<1> QED BY <1>1, <1>2, <1>3, <1>4, <1>5, NextCases DEF Pre, ServerSends, ServerEnds, ServerBreaks,
   Abort, Pass, MeterTransforms, InflateTransforms, Ends, GuardTakes, GuardStops, Notify,
   GuardAsks, TimerFires

FullInv == /\ IInv /\ Named /\ Tagging /\ Dry /\ SourceGone
           /\ AnswerIsWhole /\ CauseIsNamed

LEMMA FullInit == Init => FullInv
<1> SUFFICES ASSUME Init PROVE FullInv
  OBVIOUS
<1>1. Named /\ Tagging /\ SourceGone
  BY Names, Forms DEF Init, Named, Tagging, SourceGone, Aborts
<1>2. Dry
  BY Names DEF Init, Dry, Loose
<1>3. AnswerIsWhole /\ CauseIsNamed
  BY DEF Init, AnswerIsWhole, CauseIsNamed
<1> QED BY <1>1, <1>2, <1>3, IInvInit DEF FullInv

LEMMA FullStep ==
  ASSUME FullInv, [Next]_vars
  PROVE  FullInv'
<1> USE DEF FullInv
<1>1. CASE Next
  BY <1>1, IInvStep, NamedStep, TaggingStep, DryStep, SourceGoneStep, WholeStep, CauseStep
<1>2. CASE UNCHANGED vars
  <2>1. /\ UNCHANGED <<conf, server, stage, ready>>
        /\ UNCHANGED <<bodyErroredFirst, tagged, got, aborted, outcome>>
    BY <1>2 DEF vars
  <2>2. Named' /\ Tagging'
    BY <2>1 DEF Named, Tagging, Used, Units, Streaming
  <2>3. Dry' /\ SourceGone'
    BY <2>1 DEF Dry, SourceGone, Used, Loose, SourceOf
  <2>4. AnswerIsWhole' /\ CauseIsNamed'
    BY <2>1 DEF AnswerIsWhole, CauseIsNamed, Used, Units, Streaming, Limited
  <2> QED BY <1>2, <2>2, <2>3, <2>4, IInvStep
<1> QED BY <1>1, <1>2

(***************************************************************************)
(* A read that ends well has all that the server was to send, and no       *)
(* broken socket, failed decompressor or crossed limit passes for its end. *)
(***************************************************************************)
THEOREM NothingIsMissing == Spec => []AnswerIsWhole
BY FullInit, FullStep, PTL DEF Spec, FullInv

(***************************************************************************)
(* An error is named after what has happened.                              *)
(***************************************************************************)
THEOREM ErrorsAreTrue == Spec => []CauseIsNamed
BY FullInit, FullStep, PTL DEF Spec, FullInv
=============================================================================
