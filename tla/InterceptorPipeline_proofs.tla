---------------------- MODULE InterceptorPipeline_proofs ----------------------
(***************************************************************************)
(* What holds of the interceptors for any number of instances,             *)
(* subscriptions and registrations: ids, the cached handler, leaving, and  *)
(* what a chain of links runs, each link once and in axios' order.         *)
(***************************************************************************)
EXTENDS InterceptorPipeline, SequenceTheorems, WellFoundedInduction, TLAPS

CallFields == DOMAIN Cold

\* The stores are sequences, and no longer than there were registrations.
RegistryOK ==
  /\ entries \in [Instances -> [Sides -> Seq(Entries \cup {Ejected})]]
  /\ uses \in 0..MaxUses
  /\ \A i \in Instances, side \in Sides : Len(entries[i][side]) <= uses

\* The cached handler is never ahead of the interceptors, and if it is not
\* behind them it has them all: version only grows.
CacheOK ==
  /\ version \in Nat
  /\ cached.version \in Int
  /\ cached.version <= version
  /\ cached.version = version => cached.natives = interceptors

\* subscribe() has returned when a promise is awaited; one who left earlier is
\* still within it, and told nothing.
LeaveOK(x) ==
  /\ x.sync \in BOOLEAN /\ x.left \in BOOLEAN
  /\ x.phase = "cold" => ~x.left
  /\ x.pending => ~x.sync
  /\ x.left => x.closed \/ (x.sync /\ ~x.pending)
  /\ x.told # "none" => x.closed

\* Subscriptions are records, whatever else is in them.
CallsOK ==
  /\ call = [c \in Calls |-> call[c]]
  /\ \A c \in Calls : DOMAIN call[c] = CallFields /\ LeaveOK(call[c])

-----------------------------------------------------------------------------
(***************************************************************************)
(* Registration.                                                           *)
(***************************************************************************)

\* Whatever is not registration leaves the stores alone.
LEMMA RegistryFrame ==
  ASSUME Next
  PROVE  \/ UNCHANGED <<entries, uses>>
         \/ \E i \in Instances, side \in Sides :
              \/ \E on \in Handlers : Use(i, side, on)
              \/ \E id \in 1..MaxUses : Eject(i, side, id)
              \/ Clear(i, side)
  BY ZenonT(60) DEF Next, AddInterceptor, Subscribe, SubscribeFails, Step, Dispatch,
         DispatchNothing, Returned, Answer, AnswerLost, PassOn, RunLink, Settle, Tell, Unsubscribe, Becomes, DispatchUndici, Respond

\* Stores stay stores, and ids stay places in them.
LEMMA RegistryStep ==
  ASSUME RegistryOK, IdsStayStable, [Next]_vars
  PROVE  RegistryOK' /\ IdsStayStable'
<1>1. CASE UNCHANGED <<entries, uses>>
  BY <1>1 DEF RegistryOK, IdsStayStable
<1>2. ASSUME NEW i \in Instances, NEW side \in Sides, NEW on \in Handlers, Use(i, side, on)
      PROVE  RegistryOK' /\ IdsStayStable'
  <2> DEFINE store == entries[i][side]
  <2> DEFINE new == [nr |-> uses + 1, id |-> Len(store) + 1, side |-> side, on |-> on]
  <2> DEFINE longer == Append(store, new)
  <2>1. store \in Seq(Entries \cup {Ejected}) /\ Len(store) \in Nat /\ Len(store) <= uses
    BY DEF RegistryOK
  <2>2. uses < MaxUses /\ uses \in Nat /\ MaxUses \in Nat /\ uses' = uses + 1
    BY <1>2, BoundsAssumption DEF Use, RegistryOK
  <2>3. new \in Entries /\ new.id = Len(store) + 1
    BY <2>1, <2>2 DEF Entries
  <2>4. entries' = [entries EXCEPT ![i][side] = longer]
    BY <1>2 DEF Use
  <2> HIDE DEF store, new
  <2>5. longer \in Seq(Entries \cup {Ejected}) /\ Len(longer) = Len(store) + 1
    BY <2>1, <2>3
  <2>6. DOMAIN longer = 1..(Len(store) + 1)
    BY <2>1, <2>5
  <2>7. \A k \in 1..(Len(store) + 1) :
          longer[k] = IF k = Len(store) + 1 THEN new ELSE store[k]
    BY <2>1
  <2> HIDE DEF longer
  <2>8. \A j \in Instances, s \in Sides :
          entries'[j][s] = IF j = i /\ s = side THEN longer ELSE entries[j][s]
    BY <2>4 DEF RegistryOK
  <2>9. RegistryOK'
    <3>1. entries' \in [Instances -> [Sides -> Seq(Entries \cup {Ejected})]]
      BY <2>4, <2>5 DEF RegistryOK
    <3>2. Len(longer) <= uses'
      BY <2>1, <2>2, <2>5
    <3>3. ASSUME NEW j \in Instances, NEW s \in Sides
          PROVE  Len(entries[j][s]) <= uses'
      <4>1. Len(entries[j][s]) <= uses /\ Len(entries[j][s]) \in Nat
        BY DEF RegistryOK
      <4>2. QED
        BY <4>1, <2>2
    <3>4. uses' \in 0..MaxUses
      BY <2>2
    <3>5. QED
      BY <3>1, <3>2, <3>3, <3>4, <2>8 DEF RegistryOK
  <2>10. \A k \in DOMAIN longer : longer[k] # Ejected => longer[k].id = k
    <3> SUFFICES ASSUME NEW k \in DOMAIN longer, longer[k] # Ejected
                 PROVE  longer[k].id = k
      OBVIOUS
    <3>1. CASE k = Len(store) + 1
      BY <3>1, <2>3, <2>6, <2>7
    <3>2. CASE k # Len(store) + 1
      <4>1. k \in DOMAIN store /\ longer[k] = store[k]
        BY <3>2, <2>1, <2>6, <2>7
      <4>2. QED
        BY <4>1 DEF IdsStayStable, store
    <3>3. QED
      BY <3>1, <3>2
  <2>11. IdsStayStable'
    BY <2>8, <2>10 DEF IdsStayStable
  <2>12. QED
    BY <2>9, <2>11
<1>3. ASSUME NEW i \in Instances, NEW side \in Sides, NEW id \in 1..MaxUses, Eject(i, side, id)
      PROVE  RegistryOK' /\ IdsStayStable'
  <2> DEFINE store == entries[i][side]
  <2> DEFINE emptied == [store EXCEPT ![id] = Ejected]
  <2>1. store \in Seq(Entries \cup {Ejected}) /\ id \in 1..Len(store)
    BY <1>3 DEF RegistryOK, Eject
  <2>2. /\ emptied \in Seq(Entries \cup {Ejected})
        /\ Len(emptied) = Len(store)
        /\ \A k \in 1..Len(store) : emptied[k] = IF k = id THEN Ejected ELSE store[k]
    <3> HIDE DEF store
    <3>1. Ejected \in Entries \cup {Ejected}
      OBVIOUS
    <3>2. QED
      BY <2>1, <3>1, ExceptSeq
  <2>3. entries' = [entries EXCEPT ![i][side] = emptied] /\ uses' = uses
    BY <1>3 DEF Eject
  <2>4. \A k \in DOMAIN emptied : k \in DOMAIN store /\ emptied[k] \in {store[k], Ejected}
    BY <2>1, <2>2
  <2> HIDE DEF emptied
  <2>5. \A j \in Instances, s \in Sides :
          entries'[j][s] = IF j = i /\ s = side THEN emptied ELSE entries[j][s]
    BY <2>3 DEF RegistryOK
  <2>6. entries' \in [Instances -> [Sides -> Seq(Entries \cup {Ejected})]]
    BY <2>2, <2>3 DEF RegistryOK
  <2>7. RegistryOK'
    BY <2>2, <2>3, <2>5, <2>6 DEF RegistryOK
  <2>8. IdsStayStable'
    BY <2>4, <2>5 DEF IdsStayStable
  <2>9. QED
    BY <2>7, <2>8
<1>4. ASSUME NEW i \in Instances, NEW side \in Sides, Clear(i, side)
      PROVE  RegistryOK' /\ IdsStayStable'
  <2>1. entries' = [entries EXCEPT ![i][side] = <<>>] /\ uses' = uses
    BY <1>4 DEF Clear
  <2>2. \A j \in Instances, s \in Sides :
          entries'[j][s] = IF j = i /\ s = side THEN <<>> ELSE entries[j][s]
    BY <2>1 DEF RegistryOK
  <2>3. uses \in Nat
    BY BoundsAssumption DEF RegistryOK
  <2>4. RegistryOK'
    BY <2>1, <2>2, <2>3 DEF RegistryOK
  <2>5. IdsStayStable'
    BY <2>2 DEF IdsStayStable
  <2>6. QED
    BY <2>4, <2>5
<1>5. QED
  BY <1>1, <1>2, <1>3, <1>4, RegistryFrame DEF vars

\* An id that use() returned ejects that interceptor and no other, for any
\* number of registrations and in any order of ejecting them.
THEOREM IdsStable == Spec => []IdsStayStable
<1>1. Init => RegistryOK /\ IdsStayStable
  <2> SUFFICES ASSUME Init PROVE RegistryOK /\ IdsStayStable
    OBVIOUS
  <2>1. RegistryOK
    BY BoundsAssumption DEF Init, RegistryOK
  <2>2. IdsStayStable
    BY DEF Init, IdsStayStable
  <2>3. QED
    BY <2>1, <2>2
<1>2. RegistryOK /\ IdsStayStable /\ [Next]_vars => (RegistryOK /\ IdsStayStable)'
  BY RegistryStep
<1>3. QED
  BY <1>1, <1>2, PTL DEF Spec

-----------------------------------------------------------------------------
(***************************************************************************)
(* Subscriptions.                                                          *)
(***************************************************************************)

\* A step of one subscription makes it what it says, and no other.
LEMMA OneBecomes ==
  ASSUME CallsOK, NEW c \in Calls, NEW next, DOMAIN next = CallFields, LeaveOK(next),
         call' = [call EXCEPT ![c] = next]
  PROVE  /\ CallsOK'
         /\ \A d \in Calls : call'[d] = IF d = c THEN next ELSE call[d]
<1>1. \A d \in Calls : call'[d] = IF d = c THEN next ELSE call[d]
  BY DEF CallsOK
<1>2. call' = [d \in Calls |-> call'[d]]
  BY DEF CallsOK
<1>3. QED
  BY <1>1, <1>2 DEF CallsOK

\* What a step may do to a subscription: nothing; begin it, if it is not under
\* way; or, unless it is closed, carry it on - by undici's dispatch through the
\* current handler, or otherwise. A closed one at most sees a promise settle; one
\* left within subscribe() goes on, but to nothing that is told, nor to a dispatch
\* unless there is a response link.
Kept(d) == call'[d] = call[d]
Begun(d) == Idle(d) /\ call'[d].ran = <<>>
Dispatched(d) == call'[d].phase = "flying" /\ call'[d].natives = CurrentHandler.natives
CarriedOn(d) == ~call[d].closed
Awaited(d) ==
  /\ call'[d].phase = call[d].phase
  /\ call'[d].ran = call[d].ran
  /\ call'[d].closed = call[d].closed

GoesOn(d) ==
  call[d].left /\ ~call[d].closed =>
    /\ call'[d].left /\ call'[d].told = "none"
    /\ call[d].phase = "request" /\ ~Stepped(d) => call'[d].phase = "request"

StepOf(d) ==
  /\ GoesOn(d)
  /\ Kept(d) \/ Begun(d) \/ CarriedOn(d) \/ Awaited(d)
  /\ Dispatched(d) \/ call'[d].phase # "flying" \/ call'[d].phase = call[d].phase

\* Steps that are not a subscription's leave them all alone.
LEMMA CallFrame ==
  ASSUME Next
  PROVE  \/ UNCHANGED call
         \/ \E c \in Calls :
              \/ \E i \in Instances, shaped \in BOOLEAN :
                   \E skipped \in SUBSET Conditional(i) : Subscribe(c, i, shaped, skipped)
              \/ SubscribeFails(c) \/ Step(c) \/ Unsubscribe(c)
  BY DEF Next, Use, Eject, Clear, AddInterceptor

\* Each action does one of these.
LEMMA CallStep ==
  ASSUME CallsOK, [Next]_vars
  PROVE  CallsOK' /\ \A d \in Calls : StepOf(d)
<1> USE DEF CallFields, Cold
<1>1. CASE UNCHANGED call
  BY <1>1 DEF CallsOK, StepOf, Kept, GoesOn, LeaveOK
<1>2. ASSUME NEW c \in Calls, NEW next, DOMAIN next = CallFields, LeaveOK(next),
             call[c].left /\ ~call[c].closed =>
               /\ next.left /\ next.told = "none"
               /\ call[c].phase = "request" /\ ~Stepped(c) => next.phase = "request",
             call' = [call EXCEPT ![c] = next],
             \/ Idle(c) /\ next.ran = <<>>
             \/ ~call[c].closed
             \/ next.phase = call[c].phase /\ next.ran = call[c].ran /\ next.closed = call[c].closed,
             \/ next.phase = "flying" /\ next.natives = CurrentHandler.natives
             \/ next.phase # "flying"
             \/ next.phase = call[c].phase
      PROVE  CallsOK' /\ \A d \in Calls : StepOf(d)
  <2>1. CallsOK' /\ \A d \in Calls : call'[d] = IF d = c THEN next ELSE call[d]
    <3> HIDE DEF CallFields, Cold
    <3> QED BY <1>2, OneBecomes
  <2>2. ASSUME NEW d \in Calls PROVE StepOf(d)
    <3>1. CASE d = c
      BY <1>2, <2>1, <3>1 DEF StepOf, GoesOn, Begun, CarriedOn, Awaited, Dispatched
    <3>2. CASE d # c
      BY <2>1, <3>2 DEF StepOf, GoesOn, Kept, CallsOK, LeaveOK
    <3>3. QED
      BY <3>1, <3>2
  <2>3. QED
    BY <2>1, <2>2
<1>3. \A c \in Calls : LeaveOK(call[c])
  BY DEF CallsOK
<1>4. ASSUME NEW c \in Calls, NEW next, DOMAIN next = CallFields,
             call' = [call EXCEPT ![c] = next],
             ~call[c].closed, ~call[c].pending, call[c].phase # "cold",
             next.sync = call[c].sync, next.left = call[c].left,
             next.closed = call[c].closed, next.told = call[c].told, ~next.pending,
             next.phase # "cold",
             call[c].left /\ call[c].phase = "request" /\ ~Stepped(c) => next.phase = "request",
             \/ next.phase = "flying" /\ next.natives = CurrentHandler.natives
             \/ next.phase # "flying"
             \/ next.phase = call[c].phase
      PROVE  CallsOK' /\ \A d \in Calls : StepOf(d)
  <2>1. LeaveOK(next) /\ call[c].told = "none"
    BY <1>3, <1>4 DEF LeaveOK
  <2> QED BY <1>2, <1>4, <2>1
<1>5. ASSUME NEW c \in Calls, NEW i \in Instances, NEW shaped \in BOOLEAN, NEW skipped,
             Subscribe(c, i, shaped, skipped)
      PROVE  CallsOK' /\ \A d \in Calls : StepOf(d)
  <2> DEFINE started == [Cold EXCEPT !.due =
               (UNION {ToSet(Live(entries[i][side])) : side \in Sides}) \ skipped]
  <2> DEFINE chained == [started EXCEPT
               !.phase = "request",
               !.sync = TRUE,
               !.links = ActiveAxiosInterceptors(i, "request", skipped),
               !.later = ActiveAxiosInterceptors(i, "response", skipped)]
  <2> DEFINE sent == [started EXCEPT !.phase = "flying", !.natives = CurrentHandler.natives]
  <2>1. Idle(c) /\ (call' = [call EXCEPT ![c] = chained] \/ call' = [call EXCEPT ![c] = sent])
    BY <1>5 DEF Subscribe, Becomes, DispatchUndici
  <2>2. /\ DOMAIN chained = CallFields /\ chained.ran = <<>> /\ chained.phase = "request"
        /\ LeaveOK(chained) /\ chained.told = "none"
    BY DEF LeaveOK
  <2>3. /\ DOMAIN sent = CallFields /\ sent.ran = <<>> /\ sent.phase = "flying"
        /\ sent.natives = CurrentHandler.natives /\ LeaveOK(sent) /\ sent.told = "none"
    BY DEF LeaveOK
  <2> HIDE DEF started, chained, sent
  <2>4. ~(call[c].left /\ ~call[c].closed)
    BY <1>3, <2>1 DEF Idle, LeaveOK
  <2>5. QED
    BY <1>2, <2>1, <2>2, <2>3, <2>4
<1>6. ASSUME NEW c \in Calls, SubscribeFails(c)
      PROVE  CallsOK' /\ \A d \in Calls : StepOf(d)
  <2> DEFINE next == [Cold EXCEPT !.phase = "response", !.told = "error", !.closed = TRUE]
  <2>1. Idle(c) /\ call' = [call EXCEPT ![c] = next]
    BY <1>6 DEF SubscribeFails, Becomes
  <2>2. DOMAIN next = CallFields /\ next.ran = <<>> /\ next.phase = "response" /\ LeaveOK(next)
    BY DEF LeaveOK
  <2> HIDE DEF next
  <2>3. ~(call[c].left /\ ~call[c].closed)
    BY <1>3, <2>1 DEF Idle, LeaveOK
  <2> QED BY <1>2, <2>1, <2>2, <2>3
<1>7. ASSUME NEW c \in Calls, NEW value, Respond(c, value),
             call[c].phase \in {"request", "flying", "adapting"}, ~call[c].closed, ~call[c].pending,
             call[c].phase = "request" => ~call[c].left \/ Stepped(c)
      PROVE  CallsOK' /\ \A d \in Calls : StepOf(d)
  <2> DEFINE next == [call[c] EXCEPT !.phase = "response", !.links = call[c].later, !.value = value]
  <2>1. call' = [call EXCEPT ![c] = next]
    BY <1>7 DEF Respond, Becomes
  <2>2. /\ DOMAIN next = CallFields /\ next.phase = "response" /\ next.pending = call[c].pending
        /\ next.sync = call[c].sync /\ next.left = call[c].left
        /\ next.closed = call[c].closed /\ next.told = call[c].told
    BY DEF CallsOK
  <2> HIDE DEF next
  <2> QED BY <1>4, <1>7, <2>1, <2>2
<1>8. ASSUME NEW c \in Calls, Dispatch(c)
      PROVE  CallsOK' /\ \A d \in Calls : StepOf(d)
  <2> DEFINE adapted == [call[c] EXCEPT !.phase = "adapting"]
             sent == [call[c] EXCEPT !.phase = "flying", !.natives = CurrentHandler.natives]
  <2>1. /\ call[c].phase = "request" /\ ~call[c].closed /\ ~call[c].pending
        /\ ~call[c].left \/ Stepped(c)
        /\ \/ Respond(c, "error")
           \/ call' = [call EXCEPT ![c] = adapted] \/ call' = [call EXCEPT ![c] = sent]
    BY <1>8 DEF Dispatch, Ready, Becomes, DispatchUndici
  <2>2. /\ DOMAIN adapted = CallFields /\ adapted.phase = "adapting"
        /\ adapted.pending = call[c].pending
        /\ adapted.sync = call[c].sync /\ adapted.left = call[c].left
        /\ adapted.closed = call[c].closed /\ adapted.told = call[c].told
    BY DEF CallsOK
  <2>3. /\ DOMAIN sent = CallFields /\ sent.phase = "flying"
        /\ sent.pending = call[c].pending /\ sent.natives = CurrentHandler.natives
        /\ sent.sync = call[c].sync /\ sent.left = call[c].left
        /\ sent.closed = call[c].closed /\ sent.told = call[c].told
    BY DEF CallsOK
  <2> HIDE DEF adapted, sent
  <2>4. CASE call' = [call EXCEPT ![c] = adapted]
    BY <1>4, <2>1, <2>2, <2>4
  <2>5. CASE call' = [call EXCEPT ![c] = sent]
    BY <1>4, <2>1, <2>3, <2>5
  <2> QED BY <1>7, <2>1, <2>4, <2>5
<1>9. ASSUME NEW c \in Calls, Answer(c)
      PROVE  CallsOK' /\ \A d \in Calls : StepOf(d)
  BY <1>7, <1>9 DEF Answer, Ready
<1>10. ASSUME NEW c \in Calls, AnswerLost(c)
       PROVE  CallsOK' /\ \A d \in Calls : StepOf(d)
  <2> DEFINE next == [call[c] EXCEPT !.phase = "lost"]
  <2>1. /\ call[c].phase = "adapting" /\ ~call[c].closed /\ ~call[c].pending
        /\ call' = [call EXCEPT ![c] = next]
    BY <1>10 DEF AnswerLost, Ready, Becomes
  <2>2. /\ DOMAIN next = CallFields /\ next.phase = "lost" /\ next.pending = call[c].pending
        /\ next.sync = call[c].sync /\ next.left = call[c].left
        /\ next.closed = call[c].closed /\ next.told = call[c].told
    BY DEF CallsOK
  <2> HIDE DEF next
  <2> QED BY <1>4, <2>1, <2>2
<1>11. ASSUME NEW c \in Calls, DispatchNothing(c) \/ Returned(c)
       PROVE  CallsOK' /\ \A d \in Calls : StepOf(d)
  <2> DEFINE ended(closed) == [call[c] EXCEPT !.sync = FALSE, !.closed = closed]
  <2>1. ~call[c].closed /\ ~call[c].pending /\ call[c].phase # "cold"
    BY <1>11 DEF DispatchNothing, Returned, Ready
  <2>2. PICK closed \in BOOLEAN : call' = [call EXCEPT ![c] = ended(closed)] /\ closed = call[c].left
    <3>1. call[c].left \in BOOLEAN
      BY <1>3 DEF LeaveOK
    <3>2. CASE DispatchNothing(c)
      BY <3>1, <3>2 DEF DispatchNothing, Becomes
    <3>3. CASE Returned(c)
      BY <3>1, <3>3 DEF Returned, Becomes
    <3> QED BY <1>11, <3>2, <3>3
  <2> DEFINE next == ended(closed)
  <2>3. /\ DOMAIN next = CallFields /\ next.phase = call[c].phase /\ next.pending = call[c].pending
        /\ next.sync = FALSE /\ next.left = call[c].left
        /\ next.closed = closed /\ next.told = call[c].told
    BY DEF CallsOK
  <2>4. call' = [call EXCEPT ![c] = next]
    BY <2>2
  <2> HIDE DEF next
  <2>5. LeaveOK(next) /\ call[c].told = "none"
    BY <1>3, <2>1, <2>2, <2>3 DEF LeaveOK
  <2> QED BY <1>2, <2>1, <2>3, <2>4, <2>5
<1>12. ASSUME NEW c \in Calls, PassOn(c)
       PROVE  CallsOK' /\ \A d \in Calls : StepOf(d)
  <2> DEFINE next == [call[c] EXCEPT !.links = Tail(@)]
  <2>1. /\ call[c].phase \in {"request", "response"} /\ ~call[c].closed /\ ~call[c].pending
        /\ call' = [call EXCEPT ![c] = next]
    BY <1>12 DEF PassOn, InChain, Ready, Becomes
  <2>2. /\ DOMAIN next = CallFields /\ next.phase = call[c].phase /\ next.pending = call[c].pending
        /\ next.sync = call[c].sync /\ next.left = call[c].left
        /\ next.closed = call[c].closed /\ next.told = call[c].told
    BY DEF CallsOK
  <2> HIDE DEF next
  <2> QED BY <1>4, <2>1, <2>2
<1>13. ASSUME NEW c \in Calls, RunLink(c)
       PROVE  CallsOK' /\ \A d \in Calls : StepOf(d)
  <2> DEFINE now == [call[c] EXCEPT !.links = Tail(@), !.ran = Append(@, Head(call[c].links))]
             settled(value) == [now EXCEPT !.value = value]
             waiting == [now EXCEPT !.pending = TRUE, !.sync = FALSE, !.closed = now.left]
  <2>1. /\ call[c].phase \in {"request", "response"} /\ ~call[c].closed /\ ~call[c].pending
        /\ \/ \E value \in {"ok", "error"} : call' = [call EXCEPT ![c] = settled(value)]
           \/ call' = [call EXCEPT ![c] = waiting]
    BY <1>13 DEF RunLink, Throws, Awaits, InChain, Ready, Becomes
  <2>2. ASSUME NEW value \in {"ok", "error"}, call' = [call EXCEPT ![c] = settled(value)]
        PROVE  CallsOK' /\ \A d \in Calls : StepOf(d)
    <3> DEFINE next == settled(value)
    <3>1. /\ DOMAIN next = CallFields /\ next.phase = call[c].phase
          /\ next.pending = call[c].pending
          /\ next.sync = call[c].sync /\ next.left = call[c].left
          /\ next.closed = call[c].closed /\ next.told = call[c].told
      BY DEF CallsOK
    <3>2. call' = [call EXCEPT ![c] = next]
      BY <2>2
    <3> HIDE DEF next
    <3> QED BY <1>4, <2>1, <3>1, <3>2
  <2>3. ASSUME call' = [call EXCEPT ![c] = waiting]
        PROVE  CallsOK' /\ \A d \in Calls : StepOf(d)
    <3>1. /\ DOMAIN waiting = CallFields /\ waiting.phase = call[c].phase
          /\ waiting.sync = FALSE /\ waiting.left = call[c].left
          /\ waiting.closed = call[c].left /\ waiting.told = call[c].told
      BY DEF CallsOK
    <3> HIDE DEF waiting
    <3>2. LeaveOK(waiting) /\ call[c].told = "none"
      BY <1>3, <2>1, <3>1 DEF LeaveOK
    <3> QED BY <1>2, <2>1, <2>3, <3>1, <3>2
  <2> QED BY <2>1, <2>2, <2>3
<1>14. ASSUME NEW c \in Calls, Settle(c)
       PROVE  CallsOK' /\ \A d \in Calls : StepOf(d)
  <2> DEFINE settled(value) == [call[c] EXCEPT !.pending = FALSE, !.value = value]
  <2>1. call[c].pending /\ \E value : call' = [call EXCEPT ![c] = settled(value)]
    BY <1>14 DEF Settle, Becomes
  <2>2. PICK value : call' = [call EXCEPT ![c] = settled(value)]
    BY <2>1
  <2> DEFINE next == settled(value)
  <2>3. /\ DOMAIN next = CallFields /\ next.phase = call[c].phase /\ next.pending = FALSE
        /\ next.sync = call[c].sync /\ next.left = call[c].left /\ next.ran = call[c].ran
        /\ next.closed = call[c].closed /\ next.told = call[c].told
    BY DEF CallsOK
  <2>4. call' = [call EXCEPT ![c] = next]
    BY <2>2
  <2> HIDE DEF next
  <2>5. LeaveOK(next) /\ (call[c].left => call[c].closed)
    BY <1>3, <2>1, <2>3 DEF LeaveOK
  <2> QED BY <1>2, <2>3, <2>4, <2>5
<1>15. ASSUME NEW c \in Calls, Tell(c)
       PROVE  CallsOK' /\ \A d \in Calls : StepOf(d)
  <2> DEFINE next == [call[c] EXCEPT !.told = IF call[c].left THEN "none" ELSE call[c].value,
                                     !.sync = FALSE, !.closed = TRUE]
  <2>1. /\ call[c].phase = "response" /\ ~call[c].closed /\ ~call[c].pending
        /\ call' = [call EXCEPT ![c] = next]
    BY <1>15 DEF Tell, Ready, Becomes
  <2>2. /\ DOMAIN next = CallFields /\ next.phase = call[c].phase /\ next.pending = call[c].pending
        /\ next.sync = FALSE /\ next.left = call[c].left /\ next.closed = TRUE
        /\ call[c].left => next.told = "none"
    BY DEF CallsOK
  <2> HIDE DEF next
  <2>3. LeaveOK(next)
    BY <1>3, <2>1, <2>2 DEF LeaveOK
  <2> QED BY <1>2, <2>1, <2>2, <2>3
<1>16. ASSUME NEW c \in Calls, Unsubscribe(c)
       PROVE  CallsOK' /\ \A d \in Calls : StepOf(d)
  <2> DEFINE next == [call[c] EXCEPT !.left = call[c].sync, !.closed = ~call[c].sync]
  <2>1. /\ call[c].phase # "cold" /\ ~call[c].closed /\ ~call[c].left
        /\ call' = [call EXCEPT ![c] = next]
    BY <1>16 DEF Unsubscribe, Becomes
  <2>2. /\ DOMAIN next = CallFields /\ next.phase = call[c].phase /\ next.pending = call[c].pending
        /\ next.sync = call[c].sync /\ next.left = call[c].sync
        /\ next.closed <=> ~call[c].sync
        /\ next.told = call[c].told
    BY DEF CallsOK
  <2> HIDE DEF next
  <2>3. LeaveOK(next)
    BY <1>3, <2>1, <2>2 DEF LeaveOK
  <2> QED BY <1>2, <2>1, <2>2, <2>3
<1>17. QED
  BY <1>1, <1>5, <1>6, <1>8, <1>9, <1>10, <1>11, <1>12, <1>13, <1>14, <1>15, <1>16, CallFrame
     DEF Step, vars

\* The cached handler stays no further than the interceptors.
LEMMA CacheStep ==
  ASSUME CacheOK, [Next]_vars
  PROVE  CacheOK'
<1>1. CASE UNCHANGED <<interceptors, version, cached>>
  BY <1>1 DEF CacheOK
<1>2. CASE AddInterceptor
  BY <1>2 DEF CacheOK, AddInterceptor
<1>3. CASE cached' = CurrentHandler /\ UNCHANGED <<interceptors, version>>
  BY <1>3 DEF CacheOK, CurrentHandler
<1>4. QED
  BY ZenonT(60), <1>1, <1>2, <1>3 DEF Next, Use, Eject, Clear, Subscribe, SubscribeFails, Step, Dispatch,
       DispatchNothing, Returned, Answer, AnswerLost, PassOn, RunLink, Settle, Tell, Unsubscribe, Becomes, DispatchUndici, Respond, vars

\* Both are there from the start.
LEMMA PipelineInit == Init => CacheOK /\ CallsOK
<1> SUFFICES ASSUME Init PROVE CacheOK /\ CallsOK
  OBVIOUS
<1>1. CacheOK
  BY DEF Init, CacheOK
<1>2. CallsOK
  BY DEF Init, CallsOK, CallFields, Cold, LeaveOK
<1>3. QED
  BY <1>1, <1>2

\* Every dispatch goes through the native interceptors there are at that moment,
\* however often interceptors are added and the handler is reused.
THEOREM CurrentInterceptors == Spec => DispatchedThroughCurrent
<1> DEFINE Current == \A c \in Calls :
             call[c].phase # "flying" /\ call'[c].phase = "flying"
               => call'[c].natives = interceptors
<1>1. CacheOK /\ CallsOK /\ [Next]_vars => CacheOK' /\ CallsOK'
  BY CacheStep, CallStep
<1>2. CacheOK /\ CallsOK /\ [Next]_vars => [Current]_vars
  <2> SUFFICES ASSUME CacheOK, CallsOK, [Next]_vars, NEW c \in Calls,
                      call[c].phase # "flying", call'[c].phase = "flying"
               PROVE  call'[c].natives = interceptors
    OBVIOUS
  <2>1. Dispatched(c)
    BY CallStep DEF StepOf
  <2>2. CurrentHandler.natives = interceptors
    BY DEF CacheOK, CurrentHandler
  <2>3. QED
    BY <2>1, <2>2 DEF Dispatched
<1>3. QED
  BY <1>1, <1>2, PipelineInit, PTL DEF Spec, DispatchedThroughCurrent

\* Once its subscriber has left no interceptor of a subscription runs and nothing
\* is dispatched for it, unless it is subscribed to again; the run within which it
\* left is stopped where it first waits, and tells nothing.
THEOREM LeavingStopsChain == Spec => NothingRunsAfterLeaving
<1> DEFINE Within == \A c \in Calls :
             call[c].left => call[c].closed \/ (call[c].sync /\ ~call[c].pending)
           Stopped == \A c \in Calls :
             /\ call[c].closed =>
                  \/ /\ call'[c].closed /\ call'[c].ran = call[c].ran
                     /\ call'[c].phase = call[c].phase
                  \/ Idle(c) /\ call'[c].ran = <<>>
             /\ call[c].left /\ ~call[c].closed =>
                  /\ call'[c].left /\ call'[c].told = "none"
                  /\ call[c].phase = "request" /\ ~Stepped(c) => call'[c].phase = "request"
<1>1. CallsOK /\ [Next]_vars => CallsOK'
  BY CallStep
<1>2. CallsOK => Within
  BY DEF CallsOK, LeaveOK
<1>3. CallsOK /\ [Next]_vars => [Stopped]_vars
  <2> SUFFICES ASSUME CallsOK, [Next]_vars PROVE Stopped
    OBVIOUS
  <2>1. ASSUME NEW c \in Calls, call[c].closed
        PROVE  \/ call'[c].closed /\ call'[c].ran = call[c].ran /\ call'[c].phase = call[c].phase
               \/ Idle(c) /\ call'[c].ran = <<>>
    <3>1. Kept(c) \/ Begun(c) \/ CarriedOn(c) \/ Awaited(c)
      BY CallStep DEF StepOf
    <3>2. QED
      BY <2>1, <3>1 DEF Kept, Begun, CarriedOn, Awaited
  <2>2. \A c \in Calls : GoesOn(c)
    BY CallStep DEF StepOf
  <2>3. QED
    BY <2>1, <2>2 DEF GoesOn
<1>4. QED
  BY <1>1, <1>2, <1>3, PipelineInit, PTL DEF Spec, NothingRunsAfterLeaving

-----------------------------------------------------------------------------
(***************************************************************************)
(* What is taken from a store: what is not gone, in the same order.        *)
(***************************************************************************)

LEMMA Smallest ==
  ASSUME NEW T, T \subseteq Nat, T # {}
  PROVE  \E x \in T : \A y \in T : x <= y
<1>1. PICK x \in T : \A y \in T : <<y, x>> \notin OpToRel(<, Nat)
  BY NatLessThanWellFounded, WFMin
<1>2. ASSUME NEW y \in T PROVE x <= y
  <2>1. ~(y < x)
    BY <1>1 DEF OpToRel
  <2> QED BY <2>1
<1> QED BY <1>2

\* The set of the places up to which something holds is all of them, if one can
\* go on from each.
LEMMA UpTo ==
  ASSUME NEW n \in Nat, NEW T, 0 \in T, \A m \in 1 .. n : m - 1 \in T => m \in T
  PROVE  \A m \in 0 .. n : m \in T
<1> DEFINE F == {m \in 0 .. n : m \notin T}
<1>1. ASSUME F # {} PROVE FALSE
  <2>1. F \subseteq Nat
    OBVIOUS
  <2>2. PICK x \in F : \A y \in F : x <= y
    BY <1>1, <2>1, Smallest
  <2>3. x \in 0 .. n /\ x \notin T /\ x # 0
    BY <2>2
  <2>4. x - 1 \notin F
    BY <2>2, <2>3
  <2>5. x - 1 \in T
    BY <2>3, <2>4
  <2> QED BY <2>3, <2>5
<1> QED BY <1>1

\* One place further in what is kept.
Further(kept, e, gone) == IF e \in gone THEN kept ELSE Append(kept, e)

\* The recursive function in Without exists.
LEMMA KeptExists ==
  ASSUME NEW S, NEW s \in Seq(S), NEW gone
  PROVE  \E h : /\ h = [k \in 0 .. Len(s) |->
                          IF k = 0 THEN <<>>
                          ELSE IF s[k] \in gone THEN h[k - 1] ELSE Append(h[k - 1], s[k])]
                /\ Without(s, gone) = h[Len(s)]
<1> DEFINE n == Len(s)
           Is(h, m) == /\ h[0] = <<>>
                       /\ \A k \in 1 .. m : h[k] = Further(h[k - 1], s[k], gone)
           Has(m) == \E h \in [0 .. m -> Seq(S)] : Is(h, m)
           T == {m \in 0 .. n : Has(m)}
           F(h) == [k \in 0 .. n |->
                      IF k = 0 THEN <<>>
                      ELSE IF s[k] \in gone THEN h[k - 1] ELSE Append(h[k - 1], s[k])]
<1>1. n \in Nat
  OBVIOUS
<1>2. 0 \in T
  <2>1. [k \in 0 .. 0 |-> <<>>] \in [0 .. 0 -> Seq(S)] /\ Is([k \in 0 .. 0 |-> <<>>], 0)
    OBVIOUS
  <2>2. Has(0)
    BY <2>1
  <2> HIDE DEF Has
  <2> QED BY <1>1, <2>2
<1>3. ASSUME NEW m \in 1 .. n, m - 1 \in T PROVE m \in T
  <2>1. PICK g \in [0 .. (m - 1) -> Seq(S)] : Is(g, m - 1)
    BY <1>3
  <2> DEFINE last == Further(g[m - 1], s[m], gone)
             h == [k \in 0 .. m |-> IF k = m THEN last ELSE g[k]]
  <2>2. s[m] \in S /\ g[m - 1] \in Seq(S)
    BY <1>1, <2>1, ElementOfSeq
  <2>3. last \in Seq(S)
    BY <2>2 DEF Further
  <2> HIDE DEF last
  <2>4. h \in [0 .. m -> Seq(S)]
    BY <2>1, <2>3
  <2>5. h[0] = <<>>
    BY <2>1
  <2>6. ASSUME NEW k \in 1 .. m PROVE h[k] = Further(h[k - 1], s[k], gone)
    <3>1. h[k - 1] = g[k - 1]
      OBVIOUS
    <3>2. CASE k = m
      BY <3>1, <3>2 DEF last
    <3>3. CASE k # m
      BY <2>1, <3>1, <3>3
    <3> QED BY <3>2, <3>3
  <2>7. Is(h, m)
    BY <2>5, <2>6
  <2> HIDE DEF h, Is
  <2> QED BY <2>4, <2>7
<1>4. n \in T
  <2> HIDE DEF T, n
  <2>1. \A m \in 0 .. n : m \in T
    BY <1>1, <1>2, <1>3, UpTo
  <2> QED BY <1>1, <2>1
<1>5. PICK h \in [0 .. n -> Seq(S)] : Is(h, n)
  BY <1>4
<1>6. h = F(h)
  <2>1. \A k \in 0 .. n : k # 0 => h[k] = Further(h[k - 1], s[k], gone)
    BY <1>1, <1>5
  <2>2. h[0] = <<>> /\ h = [k \in 0 .. n |-> h[k]]
    BY <1>5
  <2> QED BY <2>1, <2>2, Zenon DEF Further
<1> DEFINE kept == CHOOSE f : f = F(f)
<1>7. kept = F(kept)
  <2> HIDE DEF F
  <2> QED BY <1>6
<1>8. Without(s, gone) = kept[Len(s)]
  BY DEF Without
<1> HIDE DEF kept
<1> QED BY <1>7, <1>8

\* What is kept is a sequence of what is not gone, ordered as it was.
LEMMA WithoutIs ==
  ASSUME NEW S, NEW s \in Seq(S), NEW gone, NEW R,
         \A j, k \in DOMAIN s : j < k /\ s[j] \notin gone /\ s[k] \notin gone => <<s[j], s[k]>> \in R
  PROVE  LET t == Without(s, gone)
         IN  /\ t \in Seq(S \ gone)
             /\ ToSet(t) = ToSet(s) \ gone
             /\ \A j, k \in DOMAIN t : j < k => <<t[j], t[k]>> \in R
<1> DEFINE n == Len(s)
<1>1. PICK h : /\ h = [k \in 0 .. n |->
                         IF k = 0 THEN <<>>
                         ELSE IF s[k] \in gone THEN h[k - 1] ELSE Append(h[k - 1], s[k])]
               /\ Without(s, gone) = h[n]
  BY KeptExists
<1> DEFINE Settled(m) == /\ h[m] \in Seq(S \ gone)
                         /\ \A e : (\E k \in DOMAIN h[m] : h[m][k] = e)
                                     <=> (\E k \in 1 .. m : s[k] = e) /\ e \notin gone
                         /\ \A j, k \in DOMAIN h[m] : j < k => <<h[m][j], h[m][k]>> \in R
           T == {m \in 0 .. n : Settled(m)}
<1>2. n \in Nat /\ DOMAIN s = 1 .. n
  OBVIOUS
<1>3. h[0] = <<>> /\ \A k \in 1 .. n : h[k] = Further(h[k - 1], s[k], gone)
  <2>1. \A k \in 0 .. n :
          h[k] = IF k = 0 THEN <<>>
                 ELSE IF s[k] \in gone THEN h[k - 1] ELSE Append(h[k - 1], s[k])
    BY <1>1, Zenon
  <2> HIDE DEF n
  <2>2. 0 \in 0 .. n /\ \A k \in 1 .. n : k \in 0 .. n /\ k # 0
    BY <1>2
  <2> QED BY <2>1, <2>2, Zenon DEF Further
<1>4. 0 \in T
  <2>1. h[0] \in Seq(S \ gone) /\ DOMAIN h[0] = {} /\ 1 .. 0 = {}
    BY <1>3
  <2>2. Settled(0)
    BY <2>1
  <2> HIDE DEF Settled
  <2> QED BY <1>2, <2>2
<1>5. ASSUME NEW m \in 1 .. n, m - 1 \in T PROVE m \in T
  <2> DEFINE before == h[m - 1]
  <2>1. Settled(m - 1) /\ s[m] \in S /\ h[m] = Further(before, s[m], gone)
    BY <1>2, <1>3, <1>5, ElementOfSeq
  <2>2. \A e : (\E k \in 1 .. m : s[k] = e) <=> (\E k \in 1 .. (m - 1) : s[k] = e) \/ e = s[m]
    OBVIOUS
  <2>3. CASE s[m] \in gone
    <3>1. h[m] = before
      BY <2>1, <2>3 DEF Further
    <3> QED BY SMTT(30), <2>1, <2>2, <2>3, <3>1
  <2>4. CASE s[m] \notin gone
    <3>1. h[m] = Append(before, s[m]) /\ before \in Seq(S \ gone) /\ s[m] \in S \ gone
      BY <2>1, <2>4 DEF Further
    <3> DEFINE p == Len(before)
    <3>2. /\ p \in Nat /\ DOMAIN before = 1 .. p /\ DOMAIN h[m] = 1 .. (p + 1)
          /\ h[m] \in Seq(S \ gone)
          /\ \A k \in 1 .. (p + 1) : h[m][k] = IF k = p + 1 THEN s[m] ELSE before[k]
      BY <3>1, AppendProperties
    <3> HIDE DEF p
    <3>3. \A e : (\E k \in DOMAIN h[m] : h[m][k] = e)
                   <=> (\E k \in DOMAIN before : before[k] = e) \/ e = s[m]
      <4>1. ASSUME NEW k \in DOMAIN before PROVE k \in DOMAIN h[m] /\ h[m][k] = before[k]
        BY <3>2
      <4>2. p + 1 \in DOMAIN h[m] /\ h[m][p + 1] = s[m]
        BY <3>2
      <4>3. ASSUME NEW k \in DOMAIN h[m]
            PROVE  h[m][k] = s[m] \/ (k \in DOMAIN before /\ h[m][k] = before[k])
        BY <3>2
      <4> QED BY <4>1, <4>2, <4>3
    <3>4. ASSUME NEW j \in DOMAIN h[m], NEW k \in DOMAIN h[m], j < k
          PROVE  <<h[m][j], h[m][k]>> \in R
      <4>1. j \in DOMAIN before /\ h[m][j] = before[j]
        BY <3>2, <3>4
      <4>2. CASE k = p + 1
        <5>1. PICK i \in 1 .. (m - 1) : s[i] = before[j] /\ before[j] \notin gone
          BY <2>1, <4>1
        <5>2. <<s[i], s[m]>> \in R
          BY <1>2, <2>4, <5>1
        <5> QED BY <3>2, <4>1, <4>2, <5>1, <5>2
      <4>3. CASE k # p + 1
        BY SMTT(30), <2>1, <3>2, <3>4, <4>1, <4>3
      <4> QED BY <4>2, <4>3
    <3>5. \A e : (\E k \in DOMAIN h[m] : h[m][k] = e) <=> (\E k \in 1 .. m : s[k] = e) /\ e \notin gone
      BY <2>1, <2>2, <2>4, <3>3
    <3> HIDE DEF T
    <3>6. Settled(m)
      BY <3>2, <3>4, <3>5
    <3> USE DEF T
    <3> HIDE DEF Settled
    <3> QED BY <3>6
  <2> QED BY <2>3, <2>4
<1>6. n \in T
  <2> HIDE DEF T, n
  <2>1. \A m \in 0 .. n : m \in T
    BY <1>2, <1>4, <1>5, UpTo
  <2> QED BY <1>2, <2>1
<1>7. Settled(n)
  BY <1>6
<1>8. ToSet(h[n]) = ToSet(s) \ gone
  BY <1>2, <1>7 DEF ToSet
<1> QED BY <1>1, <1>7, <1>8

-----------------------------------------------------------------------------
(***************************************************************************)
(* The stores are in the order of registration.                            *)
(***************************************************************************)

\* Later in a store means registered later, and a store has its own side only.
StoresOK ==
  \A i \in Instances, side \in Sides :
    /\ \A k \in DOMAIN entries[i][side] :
         entries[i][side][k] # Ejected =>
           entries[i][side][k].side = side /\ entries[i][side][k].nr <= uses
    /\ \A j, k \in DOMAIN entries[i][side] :
         j < k /\ entries[i][side][j] # Ejected /\ entries[i][side][k] # Ejected
           => entries[i][side][j].nr < entries[i][side][k].nr

Registry == RegistryOK /\ IdsStayStable /\ StoresOK

LEMMA EjectedIsNone == Ejected \notin Entries /\ \A e \in Entries : e.nr \in Nat
  BY BoundsAssumption DEF Entries, Ejected

LEMMA StoresStep ==
  ASSUME Registry, [Next]_vars
  PROVE  Registry'
<1>1. RegistryOK' /\ IdsStayStable'
  BY RegistryStep DEF Registry
<1>2. CASE UNCHANGED <<entries, uses>>
  BY <1>1, <1>2 DEF Registry, StoresOK
<1>3. ASSUME NEW i \in Instances, NEW side \in Sides, NEW on \in Handlers, Use(i, side, on)
      PROVE  StoresOK'
  <2> DEFINE store == entries[i][side]
             new == [nr |-> uses + 1, id |-> Len(store) + 1, side |-> side, on |-> on]
             longer == Append(store, new)
  <2>1. store \in Seq(Entries \cup {Ejected}) /\ uses \in Nat /\ uses' = uses + 1
    BY <1>3, BoundsAssumption DEF Registry, RegistryOK, Use
  <2>2. new.nr = uses + 1 /\ new.side = side
    OBVIOUS
  <2>3. entries' = [entries EXCEPT ![i][side] = longer]
    BY <1>3 DEF Use
  <2>4. /\ \A k \in DOMAIN store : store[k] # Ejected =>
             store[k] \in Entries /\ store[k].side = side /\ store[k].nr <= uses
        /\ \A j, k \in DOMAIN store :
             j < k /\ store[j] # Ejected /\ store[k] # Ejected => store[j].nr < store[k].nr
    <3>1. \A k \in DOMAIN store : store[k] \in Entries \cup {Ejected}
      <4> HIDE DEF store
      <4> QED BY <2>1
    <3> QED BY <3>1 DEF Registry, StoresOK
  <2> HIDE DEF store, new
  <2>5. /\ DOMAIN longer = 1 .. (Len(store) + 1) /\ DOMAIN store = 1 .. Len(store)
        /\ Len(store) \in Nat
        /\ \A k \in 1 .. (Len(store) + 1) :
             longer[k] = IF k = Len(store) + 1 THEN new ELSE store[k]
    BY <2>1
  <2> HIDE DEF longer
  <2>6. \A j \in Instances, s \in Sides :
          entries'[j][s] = IF j = i /\ s = side THEN longer ELSE entries[j][s]
    BY <2>3 DEF Registry, RegistryOK
  <2>7. /\ \A k \in DOMAIN longer : longer[k] # Ejected => longer[k].side = side /\ longer[k].nr <= uses'
        /\ \A j, k \in DOMAIN longer :
             j < k /\ longer[j] # Ejected /\ longer[k] # Ejected => longer[j].nr < longer[k].nr
    <3>1. ASSUME NEW k \in DOMAIN longer, longer[k] # Ejected
          PROVE  longer[k].side = side /\ longer[k].nr <= uses'
      BY <2>1, <2>2, <2>4, <2>5, <3>1, EjectedIsNone
    <3>2. ASSUME NEW j \in DOMAIN longer, NEW k \in DOMAIN longer,
                 j < k, longer[j] # Ejected, longer[k] # Ejected
          PROVE  longer[j].nr < longer[k].nr
      BY <2>1, <2>2, <2>4, <2>5, <3>2, EjectedIsNone
    <3> QED BY <3>1, <3>2
  <2>8. ASSUME NEW j \in Instances, NEW s \in Sides, NEW k \in DOMAIN entries[j][s],
               entries[j][s][k] # Ejected
        PROVE  entries[j][s][k].nr <= uses'
    <3>1. entries[j][s] \in Seq(Entries \cup {Ejected}) /\ entries[j][s][k].nr <= uses
      BY <2>8 DEF Registry, RegistryOK, StoresOK
    <3>2. entries[j][s][k] \in Entries \cup {Ejected}
      BY <3>1
    <3> QED BY <2>1, <2>8, <3>1, <3>2, EjectedIsNone
  <2> QED BY <2>6, <2>7, <2>8 DEF Registry, StoresOK
<1>4. ASSUME NEW i \in Instances, NEW side \in Sides, NEW id \in 1..MaxUses, Eject(i, side, id)
      PROVE  StoresOK'
  <2>1. entries' = [entries EXCEPT ![i][side][id] = Ejected] /\ uses' = uses
    BY <1>4 DEF Eject
  <2>2. \A j \in Instances, s \in Sides :
          /\ DOMAIN entries'[j][s] = DOMAIN entries[j][s]
          /\ \A k \in DOMAIN entries[j][s] :
               entries'[j][s][k] \in {entries[j][s][k], Ejected}
    <3>1. ASSUME NEW j \in Instances, NEW s \in Sides
          PROVE  entries'[j][s] = IF j = i /\ s = side THEN [entries[i][side] EXCEPT ![id] = Ejected]
                                  ELSE entries[j][s]
      BY <2>1 DEF Registry, RegistryOK
    <3> QED BY <3>1
  <2> QED BY <2>1, <2>2 DEF Registry, StoresOK
<1>5. ASSUME NEW i \in Instances, NEW side \in Sides, Clear(i, side)
      PROVE  StoresOK'
  <2>1. \A j \in Instances, s \in Sides :
          entries'[j][s] = IF j = i /\ s = side THEN <<>> ELSE entries[j][s]
    BY <1>5 DEF Clear, Registry, RegistryOK
  <2>2. uses' = uses
    BY <1>5 DEF Clear
  <2> QED BY <2>1, <2>2 DEF Registry, StoresOK
<1> QED BY <1>1, <1>2, <1>3, <1>4, <1>5, RegistryFrame DEF vars, Registry

LEMMA RegistryInit == Init => Registry
<1> SUFFICES ASSUME Init PROVE Registry
  OBVIOUS
<1>1. RegistryOK
  BY BoundsAssumption DEF Init, RegistryOK
<1> QED BY <1>1 DEF Init, Registry, IdsStayStable, StoresOK

-----------------------------------------------------------------------------
(***************************************************************************)
(* The chain of a subscription.                                            *)
(***************************************************************************)

\* a runs before b.
Precedes(a, b) ==
  IF a.side = "request" THEN b.side = "request" => a.nr > b.nr
  ELSE b.side = "response" /\ a.nr < b.nr

Ordered(s) == \A j, k \in DOMAIN s : j < k => Precedes(s[j], s[k])
AllBefore(A, B) == \A a \in A, b \in B : Precedes(a, b)

\* What is still to come of a subscription x, and the interceptors that see
\* whatever comes in.
Coming(x) == ToSet(x.links) \cup (IF x.phase = "response" THEN {} ELSE ToSet(x.later))
Unconditional(E) == {e \in E : e.on.fulfilled /\ e.on.rejected}

\* What has run is before what will; the two are what was in force, and what is
\* missing handles one outcome only. Whoever was told had nothing left to run.
ChainOK(x) ==
  /\ x \in CallType
  /\ x.phase \in {"cold", "flying", "adapting", "lost"} => x.links = <<>>
  /\ Ordered(x.ran) /\ Ordered(x.links) /\ AllBefore(ToSet(x.ran), ToSet(x.links))
  /\ x.phase # "response" =>
       /\ Ordered(x.later)
       /\ AllBefore(ToSet(x.ran), ToSet(x.later)) /\ AllBefore(ToSet(x.links), ToSet(x.later))
  /\ ToSet(x.ran) \subseteq x.due /\ Coming(x) \subseteq x.due
  /\ Unconditional(x.due) \subseteq ToSet(x.ran) \cup Coming(x)
  /\ x.told # "none" => x.closed /\ x.links = <<>> /\ x.phase = "response"

LEMMA TailIs ==
  ASSUME NEW s \in Seq(Entries), s # <<>>, Ordered(s)
  PROVE  /\ Tail(s) \in Seq(Entries) /\ Head(s) \in Entries
         /\ ToSet(s) = ToSet(Tail(s)) \cup {Head(s)}
         /\ Ordered(Tail(s)) /\ AllBefore({Head(s)}, ToSet(Tail(s)))
<1>1. /\ Tail(s) \in Seq(Entries) /\ Head(s) \in Entries /\ Head(s) = s[1]
      /\ Len(s) \in Nat /\ Len(s) # 0 /\ DOMAIN s = 1 .. Len(s)
      /\ DOMAIN Tail(s) = 1 .. (Len(s) - 1)
      /\ \A k \in 1 .. (Len(s) - 1) : Tail(s)[k] = s[k + 1]
  OBVIOUS
<1> DEFINE t == Tail(s)
<1> HIDE DEF t
<1>2. \A k \in DOMAIN t : k + 1 \in DOMAIN s /\ t[k] = s[k + 1] /\ 1 \in DOMAIN s /\ 1 < k + 1
  BY <1>1 DEF t
<1>3. \A k \in DOMAIN s : k = 1 \/ (k - 1 \in DOMAIN t /\ t[k - 1] = s[k])
  BY <1>1 DEF t
<1>4. 1 \in DOMAIN s
  BY <1>1
<1>5. ToSet(s) = ToSet(t) \cup {s[1]}
  BY <1>2, <1>3, <1>4 DEF ToSet
<1>6. Ordered(t)
  <2> SUFFICES ASSUME NEW j \in DOMAIN t, NEW k \in DOMAIN t, j < k PROVE Precedes(t[j], t[k])
    BY DEF Ordered
  <2>1. j + 1 < k + 1
    BY <1>1 DEF t
  <2> QED BY <1>2, <2>1 DEF Ordered
<1>7. AllBefore({s[1]}, ToSet(t))
  BY <1>2 DEF Ordered, AllBefore, ToSet
<1> QED BY <1>1, <1>5, <1>6, <1>7 DEF t

LEMMA AppendIs ==
  ASSUME NEW s \in Seq(Entries), NEW e \in Entries, Ordered(s), AllBefore(ToSet(s), {e})
  PROVE  /\ Append(s, e) \in Seq(Entries)
         /\ ToSet(Append(s, e)) = ToSet(s) \cup {e}
         /\ Ordered(Append(s, e))
<1> DEFINE t == Append(s, e)
           n == Len(s)
<1>1. /\ n \in Nat /\ DOMAIN s = 1 .. n /\ DOMAIN t = 1 .. (n + 1) /\ t \in Seq(Entries)
      /\ \A k \in 1 .. (n + 1) : t[k] = IF k = n + 1 THEN e ELSE s[k]
  BY AppendProperties
<1> HIDE DEF n, t
<1>2. /\ \A k \in DOMAIN s : k \in DOMAIN t /\ t[k] = s[k]
      /\ n + 1 \in DOMAIN t /\ t[n + 1] = e
      /\ \A k \in DOMAIN t : (k = n + 1 /\ t[k] = e) \/ (k \in DOMAIN s /\ t[k] = s[k])
  BY <1>1
<1>3. ToSet(t) = ToSet(s) \cup {e}
  BY <1>2 DEF ToSet
<1>4. ASSUME NEW j \in DOMAIN t, NEW k \in DOMAIN t, j < k PROVE Precedes(t[j], t[k])
  <2>1. j \in DOMAIN s /\ t[j] = s[j]
    BY <1>1, <1>4
  <2>2. s[j] \in ToSet(s)
    BY <2>1 DEF ToSet
  <2> QED BY <1>2, <1>4, <2>1, <2>2 DEF Ordered, AllBefore
<1> QED BY <1>1, <1>3, <1>4 DEF Ordered, t

LEMMA ReverseIs ==
  ASSUME NEW s \in Seq(Entries)
  PROVE  /\ Reverse(s) \in Seq(Entries) /\ ToSet(Reverse(s)) = ToSet(s)
         /\ \A j, k \in DOMAIN Reverse(s) : j < k =>
              \E a, b \in DOMAIN s : a < b /\ Reverse(s)[j] = s[b] /\ Reverse(s)[k] = s[a]
<1> DEFINE t == Reverse(s)
           n == Len(s)
<1>1. n \in Nat /\ DOMAIN s = 1 .. n /\ t = [k \in 1 .. n |-> s[n - k + 1]]
  BY DEF Reverse
<1>2. \A k \in 1 .. n : s[k] \in Entries /\ n - k + 1 \in 1 .. n /\ n - (n - k + 1) + 1 = k
  BY <1>1
<1>3. t \in Seq(Entries)
  BY <1>1, <1>2, IsASeq
<1> HIDE DEF n, t
<1>4. DOMAIN t = 1 .. n /\ \A k \in 1 .. n : t[k] = s[n - k + 1] /\ s[k] = t[n - k + 1]
  BY <1>1, <1>2
<1>5. ToSet(t) = ToSet(s)
  BY SMTT(30), <1>1, <1>2, <1>4 DEF ToSet
<1>6. ASSUME NEW j \in 1 .. n, NEW k \in 1 .. n, j < k PROVE n - k + 1 < n - j + 1
  BY <1>1, <1>6
<1> QED BY <1>1, <1>2, <1>3, <1>4, <1>5, <1>6 DEF t

\* The chain a subscription begins with: the interceptors in force, in order.
LEMMA TakenIs ==
  ASSUME Registry, NEW i \in Instances, NEW skipped \in SUBSET Conditional(i)
  PROVE  LET request == ActiveAxiosInterceptors(i, "request", skipped)
             response == ActiveAxiosInterceptors(i, "response", skipped)
             due == (UNION {ToSet(Live(entries[i][side])) : side \in Sides}) \ skipped
         IN  /\ request \in Seq(Entries) /\ response \in Seq(Entries)
             /\ Ordered(request) /\ Ordered(response)
             /\ AllBefore(ToSet(request), ToSet(response))
             /\ ToSet(request) \cup ToSet(response) = due
             /\ due \subseteq Entries
<1> DEFINE Rising == {p \in Entries \X Entries : p[1].nr < p[2].nr}
<1>1. ASSUME NEW side \in Sides
      PROVE  /\ Live(entries[i][side]) \in Seq(Entries)
             /\ \A e \in ToSet(Live(entries[i][side])) : e \in Entries /\ e.side = side
             /\ \A j, k \in DOMAIN Live(entries[i][side]) :
                  j < k => <<Live(entries[i][side])[j], Live(entries[i][side])[k]>> \in Rising
  <2> DEFINE store == entries[i][side]
             t == Without(store, {Ejected})
  <2>1. store \in Seq(Entries \cup {Ejected})
    BY DEF Registry, RegistryOK
  <2>2. /\ \A k \in DOMAIN store : store[k] # Ejected => store[k].side = side
        /\ \A j, k \in DOMAIN store :
             j < k /\ store[j] # Ejected /\ store[k] # Ejected => store[j].nr < store[k].nr
    BY DEF Registry, StoresOK
  <2> HIDE DEF store
  <2>3. \A k \in DOMAIN store : store[k] \in Entries \cup {Ejected}
    BY <2>1
  <2>4. \A j, k \in DOMAIN store :
          j < k /\ store[j] \notin {Ejected} /\ store[k] \notin {Ejected}
            => <<store[j], store[k]>> \in Rising
    BY <2>2, <2>3
  <2> HIDE DEF Rising
  <2>5. /\ t \in Seq((Entries \cup {Ejected}) \ {Ejected})
        /\ ToSet(t) = ToSet(store) \ {Ejected}
        /\ \A j, k \in DOMAIN t : j < k => <<t[j], t[k]>> \in Rising
    BY <2>1, <2>4, WithoutIs
  <2>6. (Entries \cup {Ejected}) \ {Ejected} = Entries
    BY EjectedIsNone
  <2>7. \A e \in ToSet(t) : e \in Entries /\ e.side = side
    BY <2>2, <2>3, <2>5 DEF ToSet
  <2>8. t = Live(entries[i][side])
    BY DEF Live, store
  <2> QED BY <2>5, <2>6, <2>7, <2>8
<1>2. "request" \in Sides /\ "response" \in Sides /\ Sides = {"request", "response"}
  BY DEF Sides
<1> DEFINE asked == Live(entries[i]["request"])
           kept == Without(asked, skipped)
           response == Live(entries[i]["response"])
<1>3. /\ asked \in Seq(Entries)
      /\ \A e \in ToSet(asked) : e \in Entries /\ e.side = "request"
      /\ \A j, k \in DOMAIN asked : j < k => <<asked[j], asked[k]>> \in Rising
  BY <1>1, <1>2
<1>4. /\ response \in Seq(Entries)
      /\ \A e \in ToSet(response) : e \in Entries /\ e.side = "response"
      /\ \A j, k \in DOMAIN response : j < k => <<response[j], response[k]>> \in Rising
  BY <1>1, <1>2
<1>5. skipped \subseteq ToSet(asked)
  BY DEF Conditional
<1>6. /\ ActiveAxiosInterceptors(i, "request", skipped) = Reverse(kept)
      /\ ActiveAxiosInterceptors(i, "response", skipped) = response
  BY DEF ActiveAxiosInterceptors
<1>7. UNION {ToSet(Live(entries[i][side])) : side \in Sides} = ToSet(asked) \cup ToSet(response)
  BY <1>2
<1> HIDE DEF asked, response, Rising
<1>8. /\ kept \in Seq(Entries \ skipped) /\ ToSet(kept) = ToSet(asked) \ skipped
      /\ \A j, k \in DOMAIN kept : j < k => <<kept[j], kept[k]>> \in Rising
  BY <1>3, WithoutIs
<1> HIDE DEF kept
<1>9. kept \in Seq(Entries)
  BY <1>8, SeqDef
<1> DEFINE request == Reverse(kept)
<1>10. /\ request \in Seq(Entries) /\ ToSet(request) = ToSet(kept)
       /\ \A j, k \in DOMAIN request : j < k =>
            \E a, b \in DOMAIN kept : a < b /\ request[j] = kept[b] /\ request[k] = kept[a]
  BY <1>9, ReverseIs
<1> HIDE DEF request
<1>11. \A e \in ToSet(request) : e \in Entries /\ e.side = "request"
  BY <1>3, <1>8, <1>10
<1>12. Ordered(request)
  <2> SUFFICES ASSUME NEW j \in DOMAIN request, NEW k \in DOMAIN request, j < k
               PROVE  Precedes(request[j], request[k])
    BY DEF Ordered
  <2>1. PICK a \in DOMAIN kept, b \in DOMAIN kept :
          a < b /\ request[j] = kept[b] /\ request[k] = kept[a]
    BY <1>10
  <2>2. <<request[k], request[j]>> \in Rising
    BY <1>8, <2>1
  <2>3. request[j] \in ToSet(request) /\ request[k] \in ToSet(request)
    BY DEF ToSet
  <2> QED BY <1>11, <2>2, <2>3, EjectedIsNone DEF Rising, Precedes
<1>13. Ordered(response)
  <2> SUFFICES ASSUME NEW j \in DOMAIN response, NEW k \in DOMAIN response, j < k
               PROVE  Precedes(response[j], response[k])
    BY DEF Ordered
  <2>1. response[j] \in ToSet(response) /\ response[k] \in ToSet(response)
    BY DEF ToSet
  <2> QED BY <1>4, <2>1 DEF Rising, Precedes
<1>14. AllBefore(ToSet(request), ToSet(response))
  BY <1>4, <1>11 DEF AllBefore, Precedes
<1>15. ToSet(request) \cup ToSet(response) = (ToSet(asked) \cup ToSet(response)) \ skipped
  <2>1. ToSet(response) \cap skipped = {}
    BY <1>3, <1>4, <1>5
  <2> QED BY <1>8, <1>10, <2>1
<1> QED BY <1>4, <1>6, <1>7, <1>10, <1>11, <1>12, <1>13, <1>14, <1>15 DEF request

\* Types of the rest: versions count the interceptors added, so there are no more.
RestOK ==
  /\ interceptors \in 0 .. MaxNatives
  /\ version \in 0 .. interceptors
  /\ cached \in [natives : 0 .. MaxNatives, version : -1 .. MaxNatives]

LEMMA RestStep ==
  ASSUME RestOK, [Next]_vars
  PROVE  RestOK' /\ CurrentHandler.natives \in 0 .. MaxNatives
<1> USE BoundsAssumption
<1>1. CurrentHandler \in [natives : 0 .. MaxNatives, version : -1 .. MaxNatives]
  BY DEF RestOK, CurrentHandler
<1>2. CASE UNCHANGED <<interceptors, version, cached>>
  BY <1>1, <1>2 DEF RestOK
<1>3. CASE AddInterceptor
  BY <1>1, <1>3 DEF RestOK, AddInterceptor
<1>4. CASE cached' = CurrentHandler /\ UNCHANGED <<interceptors, version>>
  BY <1>1, <1>4 DEF RestOK
<1> QED
  BY ZenonT(60), <1>2, <1>3, <1>4, <1>1 DEF Next, Use, Eject, Clear, Subscribe, SubscribeFails, Step, Dispatch,
     DispatchNothing, Returned, Answer, AnswerLost, PassOn, RunLink, Settle, Tell, Unsubscribe, Becomes, DispatchUndici, Respond, vars

\* The empty sequence is in any order with anything.
LEMMA NoLinks ==
  /\ <<>> \in Seq(Entries) /\ ToSet(<<>>) = {} /\ Ordered(<<>>)
  /\ \A A : AllBefore({}, A) /\ AllBefore(A, {})
BY DEF ToSet, Ordered, AllBefore

LEMMA ColdIs ==
  /\ Cold \in CallType
  /\ Cold.links = <<>> /\ Cold.later = <<>> /\ Cold.ran = <<>> /\ Cold.due = {}
  /\ Cold.told = "none" /\ Cold.phase = "cold"
<1>1. <<>> \in Seq(Entries) /\ {} \in SUBSET Entries /\ 0 \in 0 .. MaxNatives
  BY BoundsAssumption
<1> QED BY <1>1 DEF Cold, CallType

\* A handler ran, or a link was passed over that does not handle both outcomes.
LEMMA LinkDone ==
  ASSUME NEW x, ChainOK(x), NEW y \in CallType, x.links # <<>>, x.told = "none",
         x.phase \in {"request", "response"},
         y.phase = x.phase, y.later = x.later, y.due = x.due, y.told = x.told,
         y.links = Tail(x.links),
         \/ y.ran = Append(x.ran, Head(x.links))
         \/ y.ran = x.ran /\ ~(Head(x.links).on.fulfilled /\ Head(x.links).on.rejected)
  PROVE  ChainOK(y)
<1> DEFINE link == Head(x.links)
<1>1. x \in CallType /\ x.links \in Seq(Entries) /\ x.ran \in Seq(Entries) /\ x.later \in Seq(Entries)
  BY DEF ChainOK, CallType
<1>2. /\ link \in Entries /\ ToSet(x.links) = ToSet(y.links) \cup {link}
      /\ Ordered(y.links) /\ AllBefore({link}, ToSet(y.links))
  BY <1>1, TailIs DEF ChainOK
<1> HIDE DEF link
<1>3. /\ Ordered(x.ran) /\ AllBefore(ToSet(x.ran), ToSet(y.links) \cup {link})
      /\ ToSet(x.ran) \subseteq x.due /\ Coming(x) \subseteq x.due
      /\ Unconditional(x.due) \subseteq ToSet(x.ran) \cup Coming(x)
      /\ x.phase # "response" =>
           /\ Ordered(x.later)
           /\ AllBefore(ToSet(x.ran), ToSet(x.later))
           /\ AllBefore(ToSet(y.links) \cup {link}, ToSet(x.later))
  BY <1>2 DEF ChainOK
<1>4. Coming(x) = Coming(y) \cup {link}
  BY <1>2 DEF Coming
<1>5. CASE y.ran = Append(x.ran, link)
  <2>1. AllBefore(ToSet(x.ran), {link})
    BY <1>3 DEF AllBefore
  <2>2. Ordered(y.ran) /\ ToSet(y.ran) = ToSet(x.ran) \cup {link}
    BY <1>1, <1>2, <1>3, <1>5, <2>1, AppendIs
  <2>3. AllBefore(ToSet(y.ran), ToSet(y.links))
    BY <1>2, <1>3, <2>2 DEF AllBefore
  <2>4. y.phase # "response" =>
          AllBefore(ToSet(y.ran), ToSet(y.later)) /\ AllBefore(ToSet(y.links), ToSet(y.later))
    BY <1>3, <2>2 DEF AllBefore
  <2> QED BY <1>2, <1>3, <1>4, <2>2, <2>3, <2>4 DEF ChainOK
<1>6. CASE y.ran = x.ran /\ ~(link.on.fulfilled /\ link.on.rejected)
  <2>1. link \notin Unconditional(x.due)
    BY <1>6 DEF Unconditional
  <2>2. AllBefore(ToSet(y.ran), ToSet(y.links))
    BY <1>3, <1>6 DEF AllBefore
  <2>3. y.phase # "response" =>
          AllBefore(ToSet(y.ran), ToSet(y.later)) /\ AllBefore(ToSet(y.links), ToSet(y.later))
    BY <1>3, <1>6 DEF AllBefore
  <2> QED BY <1>2, <1>3, <1>4, <1>6, <2>1, <2>2, <2>3 DEF ChainOK
<1> QED BY <1>5, <1>6 DEF link

\* The response links come next, or undici or an adapter first.
LEMMA PhaseDone ==
  ASSUME NEW x, ChainOK(x), NEW y \in CallType, x.links = <<>>, x.told = "none",
         x.phase \in {"request", "flying", "adapting"},
         y.later = x.later, y.due = x.due, y.told = x.told, y.ran = x.ran,
         \/ y.phase = "response" /\ y.links = x.later
         \/ y.phase \in {"flying", "adapting", "lost"} /\ y.links = <<>>
  PROVE  ChainOK(y)
<1>1. /\ Ordered(x.ran) /\ Ordered(x.later) /\ AllBefore(ToSet(x.ran), ToSet(x.later))
      /\ ToSet(x.ran) \subseteq x.due /\ Coming(x) \subseteq x.due
      /\ Unconditional(x.due) \subseteq ToSet(x.ran) \cup Coming(x)
  BY DEF ChainOK
<1>2. Coming(x) = ToSet(x.later) /\ Coming(y) = ToSet(x.later)
  BY NoLinks DEF Coming
<1> QED BY <1>1, <1>2, NoLinks DEF ChainOK

\* Nothing of a chain changes.
LEMMA ChainKept ==
  ASSUME NEW x, ChainOK(x), NEW y \in CallType,
         y.phase = x.phase, y.links = x.links, y.later = x.later, y.due = x.due, y.ran = x.ran,
         y.told # "none" => y.closed /\ y.links = <<>> /\ y.phase = "response"
  PROVE  ChainOK(y)
BY DEF ChainOK, Coming

ChainsOK == CallsOK /\ \A c \in Calls : ChainOK(call[c])

LEMMA ChainsStep ==
  ASSUME Registry, RestOK, ChainsOK, [Next]_vars
  PROVE  ChainsOK'
<1>1. CallsOK' /\ CallsOK
  BY CallStep DEF ChainsOK
<1>2. CASE UNCHANGED call
  BY <1>2 DEF ChainsOK, CallsOK
<1>3. ASSUME NEW c \in Calls, NEW next, ChainOK(next), call' = [call EXCEPT ![c] = next]
      PROVE  ChainsOK'
  <2>1. \A d \in Calls : call'[d] = IF d = c THEN next ELSE call[d]
    BY <1>1, <1>3 DEF CallsOK
  <2> QED BY <1>1, <1>3, <2>1 DEF ChainsOK
<1>4. \A c \in Calls : ChainOK(call[c]) /\ call[c] \in CallType
  BY DEF ChainsOK, ChainOK
<1>5. CurrentHandler.natives \in 0 .. MaxNatives
  BY RestStep
<1>6. ASSUME NEW c \in Calls, NEW i \in Instances, NEW shaped \in BOOLEAN,
             NEW skipped \in SUBSET Conditional(i), Subscribe(c, i, shaped, skipped)
      PROVE  ChainsOK'
  <2> DEFINE request == ActiveAxiosInterceptors(i, "request", skipped)
             response == ActiveAxiosInterceptors(i, "response", skipped)
             due == (UNION {ToSet(Live(entries[i][side])) : side \in Sides}) \ skipped
             started == [Cold EXCEPT !.due = due]
             chained == [started EXCEPT !.phase = "request", !.sync = TRUE,
                                         !.links = request, !.later = response]
             sent == [started EXCEPT !.phase = "flying", !.natives = CurrentHandler.natives]
  <2>1. /\ request \in Seq(Entries) /\ response \in Seq(Entries)
        /\ Ordered(request) /\ Ordered(response) /\ AllBefore(ToSet(request), ToSet(response))
        /\ ToSet(request) \cup ToSet(response) = due /\ due \subseteq Entries
    BY TakenIs
  <2>2. \/ call' = [call EXCEPT ![c] = chained]
        \/ ~HasAxiosPipeline(i, shaped) /\ call' = [call EXCEPT ![c] = sent]
    BY <1>6 DEF Subscribe, Becomes, DispatchUndici
  <2>3. ~HasAxiosPipeline(i, shaped) => due = {}
    BY NoLinks DEF HasAxiosPipeline
  <2> HIDE DEF request, response, due
  <2>4. chained \in CallType /\ sent \in CallType
    BY <1>5, <2>1, ColdIs DEF CallType
  <2>5. /\ chained.phase = "request" /\ chained.links = request /\ chained.later = response
        /\ chained.ran = <<>> /\ chained.due = due /\ chained.told = "none"
        /\ sent.phase = "flying" /\ sent.links = <<>> /\ sent.later = <<>>
        /\ sent.ran = <<>> /\ sent.due = due /\ sent.told = "none"
    BY DEF Cold
  <2> HIDE DEF chained, sent
  <2>6. ChainOK(chained)
    <3>1. Coming(chained) = due
      BY <2>1, <2>5 DEF Coming
    <3> QED BY <2>1, <2>4, <2>5, <3>1, NoLinks DEF ChainOK, Unconditional
  <2>7. ~HasAxiosPipeline(i, shaped) => ChainOK(sent)
    BY <2>3, <2>4, <2>5, NoLinks DEF ChainOK, Coming, Unconditional
  <2> QED BY <1>3, <2>2, <2>6, <2>7
<1>7. ASSUME NEW c \in Calls, SubscribeFails(c)
      PROVE  ChainsOK'
  <2> DEFINE next == [Cold EXCEPT !.phase = "response", !.told = "error", !.closed = TRUE]
  <2>1. next \in CallType
    BY ColdIs DEF CallType
  <2>2. /\ next.phase = "response" /\ next.links = <<>> /\ next.later = <<>> /\ next.ran = <<>>
        /\ next.due = {} /\ next.closed
    BY DEF Cold
  <2>3. call' = [call EXCEPT ![c] = next]
    BY <1>7 DEF SubscribeFails, Becomes
  <2> HIDE DEF next
  <2>4. ChainOK(next)
    BY <2>1, <2>2, NoLinks DEF ChainOK, Coming, Unconditional
  <2> QED BY <1>3, <2>3, <2>4
<1>8. ASSUME NEW c \in Calls, NEW value \in {"ok", "error"}, Respond(c, value),
             call[c].phase \in {"request", "flying", "adapting"}, call[c].links = <<>>, ~call[c].closed
      PROVE  ChainsOK'
  <2> DEFINE next == [call[c] EXCEPT !.phase = "response", !.links = call[c].later, !.value = value]
  <2>1. next \in CallType /\ call' = [call EXCEPT ![c] = next]
    BY ZenonT(60), <1>4, <1>8 DEF Respond, Becomes, CallType
  <2>2. ChainOK(next)
    <3>1. call[c].told = "none"
      BY <1>4, <1>8 DEF ChainOK
    <3>2. /\ next.later = call[c].later /\ next.due = call[c].due /\ next.told = call[c].told
          /\ next.ran = call[c].ran /\ next.phase = "response" /\ next.links = call[c].later
      BY <1>4 DEF CallType
    <3> HIDE DEF next
    <3> QED BY <1>4, <1>8, <2>1, <3>1, <3>2, PhaseDone
  <2> QED BY <1>3, <2>1, <2>2
<1>9. ASSUME NEW c \in Calls, Dispatch(c)
      PROVE  ChainsOK'
  <2> DEFINE adapted == [call[c] EXCEPT !.phase = "adapting"]
             sent == [call[c] EXCEPT !.phase = "flying", !.natives = CurrentHandler.natives]
  <2>1. call[c].phase = "request" /\ ~call[c].closed /\ call[c].links = <<>> /\ call[c].told = "none"
    BY <1>4, <1>9 DEF Dispatch, Ready, ChainOK
  <2>2. \/ Respond(c, "error")
        \/ call' = [call EXCEPT ![c] = adapted] \/ call' = [call EXCEPT ![c] = sent]
    BY <1>9 DEF Dispatch, Becomes, DispatchUndici
  <2>3. adapted \in CallType /\ sent \in CallType
    BY <1>4, <1>5 DEF CallType
  <2>4. /\ adapted.later = call[c].later /\ adapted.due = call[c].due /\ adapted.told = call[c].told
        /\ adapted.ran = call[c].ran /\ adapted.phase = "adapting" /\ adapted.links = <<>>
        /\ sent.later = call[c].later /\ sent.due = call[c].due /\ sent.told = call[c].told
        /\ sent.ran = call[c].ran /\ sent.phase = "flying" /\ sent.links = <<>>
    BY <1>4, <2>1 DEF CallType
  <2> HIDE DEF adapted, sent
  <2>5. ChainOK(adapted) /\ ChainOK(sent)
    BY <1>4, <2>1, <2>3, <2>4, PhaseDone
  <2> QED BY <1>3, <1>8, <2>1, <2>2, <2>5
<1>10. ASSUME NEW c \in Calls, Answer(c)
       PROVE  ChainsOK'
  <2>1. call[c].phase \in {"flying", "adapting"} /\ ~call[c].closed /\ call[c].links = <<>>
    BY <1>4, <1>10 DEF Answer, Ready, ChainOK
  <2> QED BY <1>8, <1>10, <2>1 DEF Answer
<1>11. ASSUME NEW c \in Calls, InChain(c)
       PROVE  /\ call[c].links # <<>> /\ call[c].told = "none"
              /\ call[c].phase \in {"request", "response"}
              /\ Tail(call[c].links) \in Seq(Entries) /\ Head(call[c].links) \in Entries
              /\ Append(call[c].ran, Head(call[c].links)) \in Seq(Entries)
  <2>1. call[c].links # <<>> /\ call[c].told = "none" /\ call[c].phase \in {"request", "response"}
    BY <1>4, <1>11 DEF InChain, Ready, ChainOK
  <2>2. call[c].links \in Seq(Entries) /\ call[c].ran \in Seq(Entries)
    BY <1>4 DEF CallType
  <2> QED BY <2>1, <2>2
<1>12. ASSUME NEW c \in Calls, PassOn(c)
       PROVE  ChainsOK'
  <2> DEFINE next == [call[c] EXCEPT !.links = Tail(@)]
  <2>1. InChain(c) /\ call' = [call EXCEPT ![c] = next]
    BY <1>12 DEF PassOn, Becomes
  <2>2. ~(Head(call[c].links).on.fulfilled /\ Head(call[c].links).on.rejected)
    BY <1>12 DEF PassOn, Handles
  <2>3. next \in CallType
    BY <1>4, <1>11, <2>1 DEF CallType
  <2>4. /\ next.phase = call[c].phase /\ next.later = call[c].later /\ next.due = call[c].due
        /\ next.told = call[c].told /\ next.links = Tail(call[c].links) /\ next.ran = call[c].ran
    BY <1>4 DEF CallType
  <2> HIDE DEF next
  <2>5. ChainOK(next)
    BY <1>4, <1>11, <2>1, <2>2, <2>3, <2>4, LinkDone
  <2> QED BY <1>3, <2>1, <2>5
<1>13. ASSUME NEW c \in Calls, RunLink(c)
       PROVE  ChainsOK'
  <2> DEFINE now == [call[c] EXCEPT !.links = Tail(@), !.ran = Append(@, Head(call[c].links))]
             Next1 == [now EXCEPT !.value = "ok"]
             Next2 == [now EXCEPT !.value = "error"]
             Next3 == [now EXCEPT !.pending = TRUE, !.sync = FALSE, !.closed = now.left]
  <2>1. /\ InChain(c)
        /\ \/ call' = [call EXCEPT ![c] = Next1] \/ call' = [call EXCEPT ![c] = Next2]
           \/ call' = [call EXCEPT ![c] = Next3]
    BY <1>13 DEF RunLink, Becomes, Throws, Awaits
  <2>2. now \in CallType
    BY ZenonT(60), <1>4, <1>11, <2>1 DEF CallType
  <2>3. /\ now.phase = call[c].phase /\ now.later = call[c].later /\ now.due = call[c].due
        /\ now.told = call[c].told /\ now.links = Tail(call[c].links)
        /\ now.ran = Append(call[c].ran, Head(call[c].links))
    BY <1>4 DEF CallType
  <2> HIDE DEF now
  <2>4. Next1 \in CallType /\ Next2 \in CallType /\ Next3 \in CallType
    BY <2>2 DEF CallType
  <2>5. ASSUME NEW next \in {Next1, Next2, Next3}
        PROVE  /\ next.phase = now.phase /\ next.later = now.later /\ next.due = now.due
               /\ next.told = now.told /\ next.links = now.links /\ next.ran = now.ran
    BY <2>2 DEF CallType
  <2>6. ASSUME NEW next \in {Next1, Next2, Next3} PROVE ChainOK(next)
    <3>1. next \in CallType
      BY <2>4
    <3> HIDE DEF Next1, Next2, Next3
    <3> QED BY SMTT(30), <1>4, <1>11, <2>1, <2>3, <2>5, <3>1, LinkDone
  <2> HIDE DEF Next1, Next2, Next3
  <2> QED BY <1>3, <2>1, <2>6
<1>14. ASSUME NEW c \in Calls, Settle(c)
       PROVE  ChainsOK'
  <2>1. PICK value \in {"ok", "error"} :
          call' = [call EXCEPT ![c] = [call[c] EXCEPT !.pending = FALSE, !.value = value]]
    <3>1. PICK v \in {"ok", "error"} :
            call' = [call EXCEPT ![c] = [call[c] EXCEPT !.pending = FALSE,
                       !.value = IF call[c].closed THEN @ ELSE v]]
      BY <1>14 DEF Settle, Becomes
    <3>2. call[c].value \in {"ok", "error"}
      BY <1>4 DEF CallType
    <3> QED BY <3>1, <3>2
  <2> DEFINE next == [call[c] EXCEPT !.pending = FALSE, !.value = value]
  <2>2. next \in CallType
    BY <1>4 DEF CallType
  <2>3. /\ next.phase = call[c].phase /\ next.links = call[c].links /\ next.later = call[c].later
        /\ next.due = call[c].due /\ next.ran = call[c].ran
        /\ next.told = call[c].told /\ next.closed = call[c].closed
    BY <1>4 DEF CallType
  <2> HIDE DEF next
  <2>4. ChainOK(next)
    <3>1. next.told # "none" => next.closed /\ next.links = <<>> /\ next.phase = "response"
      BY <1>4, <2>3 DEF ChainOK
    <3> QED BY <1>4, <2>2, <2>3, <3>1, ChainKept
  <2> QED BY <1>3, <2>1, <2>4 DEF next
<1>15. ASSUME NEW c \in Calls, Tell(c)
       PROVE  ChainsOK'
  <2> DEFINE told == IF call[c].left THEN "none" ELSE call[c].value
             next == [call[c] EXCEPT !.told = told, !.sync = FALSE, !.closed = TRUE]
  <2>1. /\ call' = [call EXCEPT ![c] = next] /\ call[c].phase = "response" /\ call[c].links = <<>>
    BY <1>15 DEF Tell, Ready, Becomes
  <2>2. next \in CallType
    <3>1. told \in {"none", "ok", "error"}
      BY <1>4 DEF CallType
    <3> HIDE DEF told
    <3> QED BY <1>4, <3>1 DEF CallType
  <2>3. /\ next.phase = call[c].phase /\ next.links = call[c].links /\ next.later = call[c].later
        /\ next.due = call[c].due /\ next.ran = call[c].ran /\ next.closed
    BY <1>4 DEF CallType
  <2> HIDE DEF next
  <2> QED BY <1>3, <1>4, <2>1, <2>2, <2>3, ChainKept
<1>16. ASSUME NEW c \in Calls, Unsubscribe(c)
       PROVE  ChainsOK'
  <2> DEFINE returned == ~call[c].sync
             next == [call[c] EXCEPT !.left = call[c].sync, !.closed = returned]
  <2>1. call' = [call EXCEPT ![c] = next] /\ call[c].told = "none"
    BY <1>4, <1>16 DEF Unsubscribe, Becomes, ChainOK
  <2>2. next \in CallType
    <3>1. returned \in BOOLEAN
      OBVIOUS
    <3> HIDE DEF returned
    <3> QED BY <1>4, <3>1 DEF CallType
  <2>3. /\ next.phase = call[c].phase /\ next.links = call[c].links /\ next.later = call[c].later
        /\ next.due = call[c].due /\ next.ran = call[c].ran /\ next.told = call[c].told
    BY <1>4 DEF CallType
  <2> HIDE DEF next
  <2> QED BY <1>3, <1>4, <2>1, <2>2, <2>3, ChainKept
<1>17. ASSUME NEW c \in Calls, AnswerLost(c)
       PROVE  ChainsOK'
  <2> DEFINE next == [call[c] EXCEPT !.phase = "lost"]
  <2>1. /\ call' = [call EXCEPT ![c] = next] /\ call[c].phase = "adapting"
        /\ call[c].links = <<>> /\ call[c].told = "none"
    BY <1>4, <1>17 DEF AnswerLost, Ready, Becomes, ChainOK
  <2>2. next \in CallType
    BY <1>4 DEF CallType
  <2>3. /\ next.later = call[c].later /\ next.due = call[c].due /\ next.told = call[c].told
        /\ next.ran = call[c].ran /\ next.phase = "lost" /\ next.links = <<>>
    BY <1>4, <2>1 DEF CallType
  <2> HIDE DEF next
  <2>4. ChainOK(next)
    BY <1>4, <2>1, <2>2, <2>3, PhaseDone
  <2> QED BY <1>3, <2>1, <2>4
<1>18. ASSUME NEW c \in Calls, DispatchNothing(c) \/ Returned(c)
       PROVE  ChainsOK'
  <2>1. /\ call[c].told = "none"
        /\ \E closed \in BOOLEAN :
             call' = [call EXCEPT ![c] = [call[c] EXCEPT !.sync = FALSE, !.closed = closed]]
    <3>1. call[c].left \in BOOLEAN /\ call[c].told = "none"
      BY <1>4, <1>18 DEF DispatchNothing, Returned, Ready, ChainOK, CallType
    <3> QED BY <1>18, <3>1 DEF DispatchNothing, Returned, Becomes
  <2>2. PICK closed \in BOOLEAN :
          call' = [call EXCEPT ![c] = [call[c] EXCEPT !.sync = FALSE, !.closed = closed]]
    BY <2>1
  <2> DEFINE next == [call[c] EXCEPT !.sync = FALSE, !.closed = closed]
  <2>3. next \in CallType
    BY <1>4 DEF CallType
  <2>4. /\ next.phase = call[c].phase /\ next.links = call[c].links /\ next.later = call[c].later
        /\ next.due = call[c].due /\ next.ran = call[c].ran /\ next.told = call[c].told
    BY <1>4 DEF CallType
  <2> HIDE DEF next
  <2>5. ChainOK(next)
    BY <1>4, <2>1, <2>3, <2>4, ChainKept
  <2> QED BY <1>3, <2>2, <2>5 DEF next
<1> QED BY <1>2, <1>6, <1>7, <1>9, <1>10, <1>12, <1>13, <1>14, <1>15, <1>16, <1>17, <1>18, CallFrame
        DEF Step, vars

\* All of it.
PipelineInv == Registry /\ RestOK /\ ChainsOK

LEMMA PipelineAlways == Spec => []PipelineInv
<1>1. Init => PipelineInv
  <2> SUFFICES ASSUME Init PROVE PipelineInv
    OBVIOUS
  <2>1. RestOK
    BY BoundsAssumption DEF Init, RestOK
  <2>2. ASSUME NEW c \in Calls PROVE ChainOK(call[c])
    <3>1. call[c] = Cold
      BY DEF Init
    <3> QED BY <3>1, ColdIs, NoLinks DEF ChainOK, Coming, Unconditional
  <2> QED BY <2>1, <2>2, RegistryInit, PipelineInit DEF PipelineInv, ChainsOK
<1>2. PipelineInv /\ [Next]_vars => PipelineInv'
  BY StoresStep, RestStep, ChainsStep DEF PipelineInv
<1> QED BY <1>1, <1>2, PTL DEF Spec

\* Stores, versions and chains keep their types, for any number of
\* registrations, subscriptions and instances.
THEOREM PipelineTyped == Spec => []TypeOK
<1>1. PipelineInv => TypeOK
  <2> SUFFICES ASSUME PipelineInv PROVE TypeOK
    OBVIOUS
  <2>1. call \in [Calls -> CallType]
    BY DEF PipelineInv, ChainsOK, CallsOK, ChainOK
  <2>2. version \in 0 .. MaxNatives
    BY BoundsAssumption DEF PipelineInv, RestOK
  <2> QED BY <2>1, <2>2 DEF PipelineInv, Registry, RegistryOK, RestOK, TypeOK
<1> QED BY <1>1, PipelineAlways, PTL

\* Interceptors run in axios' order, each once, whatever is registered, ejected
\* or cleared while the chain is under way (activeAxiosInterceptors, chainStep).
THEOREM AlwaysInOrder == Spec => []RunsInAxiosOrder
<1>1. PipelineInv => RunsInAxiosOrder
  <2> SUFFICES ASSUME PipelineInv, NEW c \in Calls, NEW j \in DOMAIN call[c].ran,
                      NEW k \in DOMAIN call[c].ran, j < k
               PROVE  LET ran == call[c].ran IN
                      CASE ran[j].side = "request" /\ ran[k].side = "request" -> ran[j].nr > ran[k].nr
                        [] ran[j].side = "response" /\ ran[k].side = "response" -> ran[j].nr < ran[k].nr
                        [] OTHER -> ran[j].side = "request"
    BY DEF RunsInAxiosOrder
  <2> DEFINE ran == call[c].ran
  <2>1. ran \in Seq(Entries) /\ Ordered(ran)
    BY DEF PipelineInv, ChainsOK, ChainOK, CallType
  <2>2. Precedes(ran[j], ran[k])
    BY <2>1 DEF Ordered
  <2>3. ran[j].side \in Sides /\ ran[k].side \in Sides
    <3>1. j \in DOMAIN ran /\ k \in DOMAIN ran
      OBVIOUS
    <3>2. ran[j] \in Entries /\ ran[k] \in Entries
      <4> HIDE DEF ran
      <4> QED BY <2>1, <3>1, ElementOfSeq
    <3> QED BY <3>2 DEF Entries
  <2> HIDE DEF ran
  <2>4. CASE ran[j].side = "request" /\ ran[k].side = "request"
    BY <2>2, <2>4 DEF Precedes, ran
  <2>5. CASE ran[j].side = "response" /\ ran[k].side = "response"
    BY <2>2, <2>5 DEF Precedes, ran
  <2>6. CASE ran[j].side # ran[k].side
    BY <2>2, <2>3, <2>6 DEF Precedes, Sides, ran
  <2> QED BY <2>3, <2>4, <2>5, <2>6 DEF Sides
<1> QED BY <1>1, PipelineAlways, PTL

\* A request that was answered ran all the interceptors that were in force when
\* it was subscribed to, unless they handle one outcome only, and no others.
THEOREM AlwaysInForce == Spec => []RunsWhatWasInForce
<1>1. PipelineInv => RunsWhatWasInForce
  <2> SUFFICES ASSUME PipelineInv, NEW c \in Calls
               PROVE  /\ ToSet(call[c].ran) \subseteq call[c].due
                      /\ call[c].told # "none" =>
                           {e \in call[c].due : e.on.fulfilled /\ e.on.rejected} \subseteq ToSet(call[c].ran)
    BY DEF RunsWhatWasInForce
  <2>1. ChainOK(call[c])
    BY DEF PipelineInv, ChainsOK
  <2>2. call[c].told # "none" => Coming(call[c]) = {}
    BY <2>1, NoLinks DEF ChainOK, Coming
  <2> QED BY <2>1, <2>2 DEF ChainOK, Unconditional
<1> QED BY <1>1, PipelineAlways, PTL
=============================================================================
