------------------------ MODULE RequestLifecycle_proofs ------------------------
(***************************************************************************)
(* Safety of RequestLifecycle for any number of requests, signals and      *)
(* redirects: the inductive invariant IInv, and the properties it implies. *)
(***************************************************************************)
EXTENDS RequestLifecycle, TLAPS

\* The type of a request's options, which no step changes.
LEMMA ConfType ==
  ASSUME TypeOK, NEW r \in Requests
  PROVE  /\ conf[r] \in ConfigType
         /\ conf[r].maxRedirects \in Nat
         /\ conf[r].stream \in BOOLEAN /\ conf[r].timeout \in BOOLEAN
BY ConfigAssumption, CapAssumption DEF TypeOK, ConfigType

LEMMA TypeInit == Init => TypeOK
BY DEF Init, TypeOK, Stages, Settlements, Reasons, Outcomes

LEMMA TypeStep == TypeOK /\ [Next]_vars => TypeOK'
<1> SUFFICES ASSUME TypeOK, [Next]_vars PROVE TypeOK'
  OBVIOUS
<1> USE DEF TypeOK, Stages, Settlements, Reasons, Outcomes
<1>1. ASSUME NEW r \in Requests, Begin(r, "refused") \/ Begin(r, "local")
             \/ Begin(r, "rejected") \/ Begin(r, "throws") \/ Begin(r, "dispatch")
      PROVE  /\ bridge' \in [Requests -> BOOLEAN]
             /\ UNCHANGED <<conf, onDumped, redirects, aborted, body, openStream, tracked, received>>
  BY ZenonT(60), <1>1 DEF Begin
<1>2. ASSUME NEW r \in Requests, Hook(r)
      PROVE  /\ listener' \in [Requests -> {"none", "on", "fired"}]
             /\ abort' \in [Requests -> Reasons]
  BY <1>2 DEF Hook
<1>3. ASSUME NEW r \in Requests, NEW kind \in {"canceled", "timeout", "error"},
             Fail(r, kind)
      PROVE  /\ stage' \in [Requests -> Stages]
             /\ promise' \in [Requests -> Settlements]
             /\ settled' \in [Requests -> BOOLEAN]
             /\ timer' \in [Requests -> BOOLEAN]
             /\ sub' \in [Requests -> {"cold", "open", "told", "left"}]
             /\ outcome' \in [Requests -> Outcomes]
             /\ listener' \in [Requests -> {"none", "on", "fired"}]
             /\ bridge' \in [Requests -> BOOLEAN]
  BY <1>3 DEF Fail, Over, Tell, FailKind, Detach
<1>4. ASSUME NEW r \in Requests PROVE ErrorKind(promise[r]) \in {"canceled", "timeout", "error"}
  BY DEF ErrorKind
<1>5. ASSUME NEW r \in Requests, SubscribeRefused(r) PROVE TypeOK'
  BY <1>5, <1>1 DEF SubscribeRefused, Over
<1>6. ASSUME NEW r \in Requests, SubscribeLocal(r) PROVE TypeOK'
  BY <1>6, <1>1 DEF SubscribeLocal
<1>7. ASSUME NEW r \in Requests, SubscribeRejected(r) PROVE TypeOK'
  BY <1>7, <1>1, <1>2 DEF SubscribeRejected, Over
<1>8. ASSUME NEW r \in Requests, SubscribeThrows(r) PROVE TypeOK'
  BY <1>8, <1>1, <1>2, ConfType DEF SubscribeThrows, Over
<1>9. ASSUME NEW r \in Requests, SubscribeDispatch(r) PROVE TypeOK'
  BY <1>9, <1>1, <1>2, ConfType DEF SubscribeDispatch
<1>10. ASSUME NEW r \in Requests, NEW from, NEW how \in Settlements, Settle(r, from, how)
       PROVE TypeOK'
  BY <1>10 DEF Settle
<1>11. ASSUME NEW r \in Requests,
              \/ HeadersArrive(r) \/ NetworkFails(r) \/ DumpEnds(r) \/ BodyEnds(r)
              \/ DataUrlEnds(r) \/ AbortSettles(r)
       PROVE TypeOK'
  BY <1>11, <1>10 DEF HeadersArrive, NetworkFails, DumpEnds, BodyEnds,
                      DataUrlEnds, AbortSettles
<1>12. ASSUME NEW r \in Requests, OnRedirect(r) PROVE TypeOK'
  BY <1>12 DEF OnRedirect
<1>13. ASSUME NEW r \in Requests, OnFinalResponse(r) PROVE TypeOK'
  BY <1>13 DEF OnFinalResponse
<1>14. ASSUME NEW r \in Requests, OnRequestRejected(r) PROVE TypeOK'
  BY <1>14, <1>3, <1>4 DEF OnRequestRejected
<1>15. ASSUME NEW r \in Requests, AfterDumpFails(r) PROVE TypeOK'
  BY <1>15, <1>3 DEF AfterDumpFails
<1>16. ASSUME NEW r \in Requests, AfterDumpHops(r) PROVE TypeOK'
  BY <1>16 DEF AfterDumpHops, Send
<1>17. ASSUME NEW r \in Requests, OnReadRejected(r) PROVE TypeOK'
  BY <1>17, <1>3, <1>4 DEF OnReadRejected
<1>18. ASSUME NEW r \in Requests, OnReadResolved(r) PROVE TypeOK'
  <2> DEFINE keeps == conf[r].stream /\ listener[r] # "none"
  <2>1. keeps \in BOOLEAN
    BY ConfType
  <2>2. listener' \in [Requests -> {"none", "on", "fired"}] /\ bridge' \in [Requests -> BOOLEAN]
    <3>1. CASE keeps
      BY <1>18, <3>1 DEF OnReadResolved
    <3>2. CASE ~keeps
      BY ZenonT(60), <1>18, <3>2 DEF OnReadResolved, Detach
    <3>3. QED BY <3>1, <3>2
  <2>3. openStream' = [openStream EXCEPT ![r] = keeps]
    BY <1>18 DEF OnReadResolved
  <2>4. openStream' \in [Requests -> BOOLEAN]
    <3> HIDE DEF keeps
    <3> QED BY <2>1, <2>3
  <2>5. sub' \in [Requests -> {"cold", "open", "told", "left"}] /\ outcome' \in [Requests -> Outcomes]
    BY SMTT(30), <1>18 DEF OnReadResolved, Tell
  <2>6. QED
    BY <1>18, <2>2, <2>4, <2>5, ConfType DEF OnReadResolved, Over
<1>19. ASSUME NEW r \in Requests, OnDataUrl(r) PROVE TypeOK'
  BY <1>19 DEF OnDataUrl, Over, Tell
<1>20. ASSUME NEW r \in Requests, Deadline(r) PROVE TypeOK'
  BY <1>20 DEF Deadline, AbortedWith
<1>21. ASSUME NEW r \in Requests, TokenCancel(r) PROVE TypeOK'
  BY <1>21 DEF TokenCancel, AbortedWith
<1>22. ASSUME NEW r \in Requests, Unsubscribe(r) PROVE TypeOK'
  <2>1. CASE stage[r] = "local"
    BY <1>22, <2>1 DEF Unsubscribe
  <2>2. CASE stage[r] # "local"
    <3>1. /\ timer' = [timer EXCEPT ![r] = FALSE]
          /\ abort' = [abort EXCEPT ![r] = IF settled[r] THEN @ ELSE AbortedWith(r, "unsubscribe")]
          /\ listener' = [listener EXCEPT ![r] = "none"]
          /\ bridge' = [bridge EXCEPT ![r] = FALSE]
      BY <1>22, <2>2 DEF Unsubscribe, Detach
    <3>2. abort' \in [Requests -> Reasons]
      BY <3>1 DEF AbortedWith
    <3>3. QED BY <1>22, <3>1, <3>2 DEF Unsubscribe
  <2>3. QED BY <2>1, <2>2
<1>23. ASSUME NEW r \in Requests, BodyConsumed(r) \/ BodyAborted(r) PROVE TypeOK'
  <2>1. CloseBody(r)
    BY <1>23 DEF BodyConsumed, BodyAborted
  <2>2. listener' \in [Requests -> {"none", "on", "fired"}] /\ bridge' \in [Requests -> BOOLEAN]
    <3>1. Detach(r) \/ UNCHANGED <<listener, bridge>>
      BY <2>1, Zenon DEF CloseBody
    <3>2. CASE Detach(r)
      BY <3>2 DEF Detach
    <3>3. CASE UNCHANGED <<listener, bridge>>
      BY <3>3
    <3>4. QED BY <3>1, <3>2, <3>3
  <2>3. QED BY <2>1, <2>2 DEF CloseBody
<1>24. ASSUME NEW r \in Requests, BodyReceived(r) PROVE TypeOK'
  BY <1>24 DEF BodyReceived
<1>25. ASSUME NEW s \in Signals, UserAbort(s) PROVE TypeOK'
  BY <1>25 DEF UserAbort, AbortedWith
<1>26. CASE GraceElapses
  BY <1>26 DEF GraceElapses, AbortedWith
<1>27. CASE UNCHANGED vars
  BY <1>27 DEF vars
<1>28. QED
  BY <1>5, <1>6, <1>7, <1>8, <1>9, <1>11, <1>12, <1>13, <1>14, <1>15, <1>16,
     <1>17, <1>18, <1>19, <1>20, <1>21, <1>22, <1>23, <1>24, <1>25, <1>26,
     <1>27 DEF Next, Handlers

\* Every variable keeps its type, for any number of requests and signals.
THEOREM TypeCorrect == Spec => []TypeOK
BY TypeInit, TypeStep, PTL DEF Spec

-----------------------------------------------------------------------------
(***************************************************************************)
(* The inductive invariant. A step of request r leaves every other request *)
(* as it was (FrameStep), and such a request keeps its invariant (Frame);  *)
(* what remains is r itself, action by action. Only UserAbort and          *)
(* GraceElapses touch several requests.                                    *)
(***************************************************************************)

\* Nothing the invariant speaks of changes for request q, nor the set of fired
\* signals.
Same(q) ==
  /\ conf'[q] = conf[q] /\ stage'[q] = stage[q] /\ promise'[q] = promise[q]
  /\ onDumped'[q] = onDumped[q] /\ redirects'[q] = redirects[q]
  /\ wire'[q] = wire[q] /\ settled'[q] = settled[q] /\ abort'[q] = abort[q]
  /\ timer'[q] = timer[q] /\ listener'[q] = listener[q]
  /\ bridge'[q] = bridge[q] /\ sub'[q] = sub[q] /\ outcome'[q] = outcome[q]
  /\ body'[q] = body[q] /\ openStream'[q] = openStream[q]
  /\ tracked'[q] = tracked[q] /\ aborted' = aborted

LEMMA Frame ==
  ASSUME NEW q \in Requests, ReqInv(q), Same(q)
  PROVE  ReqInv(q)'
BY DEF ReqInv, StageShape, SubShape, BodyShape, HoldShape, AbortShape, HopShape,
       CauseShape, ReachShape, Active, Same

\* The actions of one request r; all but UserAbort and GraceElapses.
StepOf(r) ==
  \/ SubscribeRefused(r) \/ SubscribeLocal(r) \/ SubscribeRejected(r)
  \/ SubscribeThrows(r) \/ SubscribeDispatch(r)
  \/ HeadersArrive(r) \/ NetworkFails(r) \/ DumpEnds(r) \/ BodyEnds(r)
  \/ DataUrlEnds(r) \/ AbortSettles(r)
  \/ Handlers(r)
  \/ Deadline(r) \/ TokenCancel(r) \/ Unsubscribe(r)
  \/ BodyConsumed(r) \/ BodyReceived(r) \/ BodyAborted(r)

\* That the body has come in whole concerns what may end it, nothing else.
LEMMA ReceivedSame ==
  ASSUME NEW r \in Requests, BodyReceived(r), NEW q \in Requests
  PROVE  Same(q)
BY DEF BodyReceived, Same

LEMMA FrameStep ==
  ASSUME TypeOK, NEW r \in Requests, StepOf(r), NEW q \in Requests, q # r
  PROVE  Same(q)
<1> USE DEF TypeOK, Same
<1>1. CASE \/ SubscribeRefused(r) \/ SubscribeLocal(r)
  BY <1>1 DEF SubscribeRefused, SubscribeLocal, Begin, Over
<1>2. CASE \/ SubscribeRejected(r) \/ SubscribeThrows(r) \/ SubscribeDispatch(r)
  BY <1>2 DEF SubscribeRejected, SubscribeThrows, SubscribeDispatch, Begin, Hook, Over
<1>3. CASE \/ HeadersArrive(r) \/ NetworkFails(r) \/ DumpEnds(r) \/ BodyEnds(r)
           \/ DataUrlEnds(r) \/ AbortSettles(r)
  BY <1>3 DEF HeadersArrive, NetworkFails, DumpEnds, BodyEnds, DataUrlEnds,
              AbortSettles, Settle
<1>4. CASE OnRedirect(r) \/ OnFinalResponse(r) \/ AfterDumpHops(r)
  BY <1>4 DEF OnRedirect, OnFinalResponse, AfterDumpHops, Send
<1>5. CASE OnRequestRejected(r) \/ AfterDumpFails(r) \/ OnReadRejected(r)
  <2>1. ASSUME NEW kind, Fail(r, kind)
        PROVE  /\ stage'[q] = stage[q] /\ promise'[q] = promise[q]
               /\ settled'[q] = settled[q] /\ timer'[q] = timer[q]
               /\ sub'[q] = sub[q] /\ outcome'[q] = outcome[q]
               /\ listener'[q] = listener[q] /\ bridge'[q] = bridge[q]
    BY <2>1 DEF Fail, Over, Tell, Detach
  <2>2. QED
    BY <1>5, <2>1 DEF OnRequestRejected, AfterDumpFails, OnReadRejected
<1>6. CASE OnReadResolved(r)
  <2>1. listener'[q] = listener[q] /\ bridge'[q] = bridge[q]
    <3>1. Detach(r) \/ UNCHANGED <<listener, bridge>>
      BY <1>6 DEF OnReadResolved
    <3>2. QED BY <3>1 DEF Detach
  <2>2. QED
    BY <1>6, <2>1 DEF OnReadResolved, Over, Tell
<1>7. CASE OnDataUrl(r)
  BY <1>7 DEF OnDataUrl, Over, Tell
<1>8. CASE Deadline(r) \/ TokenCancel(r)
  BY <1>8 DEF Deadline, TokenCancel
<1>9. CASE Unsubscribe(r)
  <2>1. \/ UNCHANGED <<timer, abort, listener, bridge>>
        \/ /\ timer' = [timer EXCEPT ![r] = FALSE]
           /\ abort' = [abort EXCEPT ![r] = IF settled[r] THEN @ ELSE AbortedWith(r, "unsubscribe")]
           /\ Detach(r)
    BY <1>9 DEF Unsubscribe
  <2>2. abort'[q] = abort[q] /\ timer'[q] = timer[q] /\ listener'[q] = listener[q]
        /\ bridge'[q] = bridge[q]
    BY <2>1 DEF Detach
  <2>3. QED BY <1>9, <2>2 DEF Unsubscribe
<1>10. CASE BodyConsumed(r) \/ BodyAborted(r)
  <2>1. CloseBody(r)
    BY <1>10 DEF BodyConsumed, BodyAborted
  <2>2. Detach(r) \/ UNCHANGED <<listener, bridge>>
    BY <2>1, Zenon DEF CloseBody
  <2>3. listener'[q] = listener[q] /\ bridge'[q] = bridge[q]
    BY <2>2 DEF Detach
  <2>4. QED BY <2>1, <2>3 DEF CloseBody
<1>11. CASE BodyReceived(r)
  BY <1>11, ReceivedSame
<1>12. QED
  BY <1>1, <1>2, <1>3, <1>4, <1>5, <1>6, <1>7, <1>8, <1>9, <1>10, <1>11 DEF StepOf, Handlers

-----------------------------------------------------------------------------
LEMMA InvInit == Init => IInv
<1> SUFFICES ASSUME Init, NEW r \in Requests PROVE ReqInv(r)
  BY DEF IInv
<1>1. conf[r].maxRedirects \in Nat
  BY ConfigAssumption, CapAssumption DEF Init, ConfigType
<1>2. QED
  BY <1>1 DEF Init, ReqInv, StageShape, SubShape, BodyShape, HoldShape,
       AbortShape, HopShape, CauseShape, ReachShape, Active

LEMMA OwnSubscribe ==
  ASSUME TypeOK, NEW r \in Requests, ReqInv(r),
         \/ SubscribeRefused(r) \/ SubscribeLocal(r) \/ SubscribeRejected(r)
         \/ SubscribeThrows(r) \/ SubscribeDispatch(r)
  PROVE  ReqInv(r)'
<1> USE ConfType DEF TypeOK, ReqInv, StageShape, SubShape, BodyShape, HoldShape,
        AbortShape, HopShape, CauseShape, ReachShape, Active
<1>1. CASE SubscribeRefused(r)
  BY <1>1 DEF SubscribeRefused, Begin, Over
<1>2. CASE SubscribeLocal(r)
  BY <1>2 DEF SubscribeLocal, Begin
<1>3. CASE SubscribeRejected(r)
  BY <1>3 DEF SubscribeRejected, Begin, Hook, Over
<1>4. CASE SubscribeThrows(r)
  BY <1>4 DEF SubscribeThrows, Begin, Hook, Over
<1>5. CASE SubscribeDispatch(r)
  <2>1. /\ conf' = conf /\ aborted' = aborted /\ redirects' = redirects
        /\ settled' = settled /\ outcome' = outcome /\ promise' = promise
        /\ body' = body /\ openStream' = openStream /\ tracked' = tracked
        /\ stage[r] = "idle" /\ conf[r].entry = "dispatch"
        /\ stage'[r] = "sent" /\ sub'[r] = "open"
        /\ wire'[r] \in {0, 1}
    BY <1>5 DEF SubscribeDispatch, Begin, Hook
  <2>2. /\ abort'[r] = IF PreAborted(conf[r]) THEN "user" ELSE "none"
        /\ listener'[r] = IF HasUserSignal(conf[r]) /\ ~PreAborted(conf[r])
                            THEN "on" ELSE "none"
        /\ bridge'[r] = (conf[r].token # "none" /\ conf[r].signal # NoSignal
                         /\ conf[r].signal \notin aborted)
    BY <1>5 DEF SubscribeDispatch, Begin, Hook
  <2>3. StageShape(r)' /\ SubShape(r)' /\ BodyShape(r)' /\ HoldShape(r)'
    BY <2>1
  <2>4. AbortShape(r)' /\ HopShape(r)' /\ CauseShape(r)'
    BY <2>1, <2>2
  <2>5. ReachShape(r)'
    BY <2>1, <2>2 DEF HasUserSignal, PreAborted
  <2>6. QED BY <2>3, <2>4, <2>5
<1>6. QED BY <1>1, <1>2, <1>3, <1>4, <1>5

LEMMA OwnSettle ==
  ASSUME TypeOK, NEW r \in Requests, ReqInv(r),
         \/ HeadersArrive(r) \/ NetworkFails(r) \/ DumpEnds(r) \/ BodyEnds(r)
         \/ DataUrlEnds(r) \/ AbortSettles(r)
  PROVE  ReqInv(r)'
BY ConfType DEF TypeOK, ReqInv, StageShape, SubShape, BodyShape, HoldShape,
        AbortShape, HopShape, CauseShape, ReachShape, Active,
        HeadersArrive, NetworkFails, DumpEnds, BodyEnds, DataUrlEnds,
        AbortSettles, Settle

LEMMA OwnResponse ==
  ASSUME TypeOK, NEW r \in Requests, ReqInv(r),
         OnRedirect(r) \/ OnFinalResponse(r) \/ AfterDumpHops(r)
  PROVE  ReqInv(r)'
<1> USE ConfType DEF TypeOK, ReqInv, StageShape, SubShape, BodyShape, HoldShape,
        AbortShape, HopShape, CauseShape, ReachShape, Active
<1>1. CASE OnRedirect(r)
  BY <1>1 DEF OnRedirect
<1>2. CASE OnFinalResponse(r)
  BY <1>2 DEF OnFinalResponse
<1>3. CASE AfterDumpHops(r)
  BY <1>3 DEF AfterDumpHops, Send
<1>4. QED BY <1>1, <1>2, <1>3

\* fail() leaves an over request that tells the truth and holds nothing.
LEMMA OwnFail ==
  ASSUME TypeOK, NEW r \in Requests, ReqInv(r), Active(r),
         NEW kind \in {"canceled", "timeout", "error"},
         kind = "canceled" => abort[r] # "none",
         Fail(r, kind),
         UNCHANGED <<conf, onDumped, redirects, wire, abort, aborted, openStream, tracked, received>>,
         \/ body'[r] = body[r]
         \/ stage[r] = "read" /\ conf[r].stream /\ body'[r] = "open"
  PROVE  ReqInv(r)'
<1> USE ConfType DEF TypeOK, ReqInv, StageShape, SubShape, BodyShape, HoldShape,
        AbortShape, HopShape, CauseShape, ReachShape, Active
<1>1. /\ stage'[r] = "over" /\ promise'[r] = "pending" /\ settled'[r] = TRUE
      /\ timer'[r] = FALSE /\ listener'[r] = "none" /\ bridge'[r] = FALSE
      /\ \/ sub[r] = "open" /\ sub'[r] = "told" /\ outcome'[r] = FailKind(r, kind)
         \/ sub[r] = "left" /\ sub'[r] = "left" /\ outcome'[r] = outcome[r]
  BY DEF Fail, Over, Tell, Detach
<1>2. /\ conf'[r] = conf[r] /\ onDumped'[r] = onDumped[r]
      /\ redirects'[r] = redirects[r] /\ wire'[r] = wire[r] /\ abort'[r] = abort[r]
      /\ openStream'[r] = openStream[r] /\ tracked'[r] = tracked[r]
  OBVIOUS
<1>3. ~openStream[r] /\ ~tracked[r] /\ body[r] = "none"
  OBVIOUS
<1>4. CauseShape(r)'
  <2>1. CASE sub[r] = "open"
    BY <1>1, <1>2, <2>1 DEF FailKind, Reasons
  <2>2. CASE sub[r] = "left"
    BY <1>1, <1>2, <2>2
  <2>3. QED BY <1>1, <2>1, <2>2
<1>5. StageShape(r)' /\ SubShape(r)' /\ BodyShape(r)' /\ HoldShape(r)'
  BY <1>1, <1>2, <1>3 DEF FailKind
<1>6. AbortShape(r)' /\ HopShape(r)' /\ ReachShape(r)'
  BY <1>1, <1>2, <1>3 DEF FailKind
<1>7. QED BY <1>4, <1>5, <1>6

LEMMA OwnFailures ==
  ASSUME TypeOK, NEW r \in Requests, ReqInv(r),
         OnRequestRejected(r) \/ AfterDumpFails(r) \/ OnReadRejected(r)
  PROVE  ReqInv(r)'
<1>1. CASE OnRequestRejected(r)
  <2>1. Active(r) /\ ErrorKind(promise[r]) \in {"canceled", "timeout", "error"}
    BY <1>1 DEF OnRequestRejected, Active, ErrorKind
  <2>2. ErrorKind(promise[r]) = "canceled" => abort[r] # "none"
    BY DEF ErrorKind, ReqInv, AbortShape
  <2>3. QED
    BY <1>1, <2>1, <2>2, OwnFail DEF OnRequestRejected
<1>2. CASE AfterDumpFails(r)
  <2>1. Active(r)
    BY <1>2 DEF AfterDumpFails, Active
  <2>2. QED
    BY <1>2, <2>1, OwnFail DEF AfterDumpFails
<1>3. CASE OnReadRejected(r)
  <2>1. Active(r) /\ ErrorKind(promise[r]) \in {"canceled", "timeout", "error"}
    BY <1>3 DEF OnReadRejected, Active, ErrorKind
  <2>2. ErrorKind(promise[r]) = "canceled" => abort[r] # "none"
    BY DEF ErrorKind, ReqInv, AbortShape
  <2>3. body'[r] = IF conf[r].stream THEN "open" ELSE body[r]
    BY <1>3 DEF OnReadRejected, TypeOK
  <2>4. QED
    BY <1>3, <2>1, <2>2, <2>3, OwnFail DEF OnReadRejected
<1>4. QED BY <1>1, <1>2, <1>3

\* The response is delivered: either everything goes, or a stream keeps its path.
LEMMA OwnResolved ==
  ASSUME TypeOK, NEW r \in Requests, ReqInv(r), OnReadResolved(r)
  PROVE  ReqInv(r)'
<1> USE ConfType DEF TypeOK, ReqInv, StageShape, SubShape, BodyShape, HoldShape,
        AbortShape, HopShape, CauseShape, ReachShape, Active
<1>1. /\ stage[r] = "read" /\ conf[r].entry = "dispatch"
      /\ stage'[r] = "over" /\ promise'[r] = "pending" /\ settled'[r] = TRUE
      /\ timer'[r] = FALSE /\ tracked'[r] = conf[r].stream
      /\ body'[r] = (IF conf[r].stream THEN "open" ELSE body[r])
      /\ \/ sub[r] = "open" /\ sub'[r] = "told" /\ outcome'[r] = "response"
         \/ sub[r] = "left" /\ sub'[r] = "left" /\ outcome'[r] = outcome[r]
      /\ conf' = conf /\ redirects' = redirects /\ wire' = wire /\ abort' = abort
      /\ aborted' = aborted
  BY DEF OnReadResolved, Over, Tell
<1>2. CASE conf[r].stream /\ listener[r] # "none"
  <2>1. listener'[r] = listener[r] /\ bridge'[r] = bridge[r] /\ openStream'[r] = TRUE
    BY <1>2 DEF OnReadResolved
  <2>2. QED BY <1>1, <1>2, <2>1
<1>3. CASE ~(conf[r].stream /\ listener[r] # "none")
  <2>1. listener'[r] = "none" /\ bridge'[r] = FALSE /\ openStream'[r] = FALSE
    BY <1>3 DEF OnReadResolved, Detach
  <2>2. QED BY <1>1, <1>3, <2>1
<1>4. QED BY <1>2, <1>3

LEMMA OwnDataUrl ==
  ASSUME TypeOK, NEW r \in Requests, ReqInv(r), OnDataUrl(r)
  PROVE  ReqInv(r)'
BY ConfType DEF TypeOK, ReqInv, StageShape, SubShape, BodyShape, HoldShape,
        AbortShape, HopShape, CauseShape, ReachShape, Active, OnDataUrl, Over, Tell

LEMMA OwnAborts ==
  ASSUME TypeOK, NEW r \in Requests, ReqInv(r),
         Deadline(r) \/ TokenCancel(r) \/ Unsubscribe(r)
  PROVE  ReqInv(r)'
<1> USE ConfType DEF TypeOK, ReqInv, StageShape, SubShape, BodyShape, HoldShape,
        AbortShape, HopShape, CauseShape, ReachShape, Active, AbortedWith
<1>1. CASE Deadline(r)
  <2>1. /\ conf' = conf /\ stage' = stage /\ promise' = promise /\ onDumped' = onDumped
        /\ redirects' = redirects /\ wire' = wire /\ settled' = settled
        /\ listener' = listener /\ bridge' = bridge /\ aborted' = aborted
        /\ sub' = sub /\ outcome' = outcome /\ body' = body
        /\ openStream' = openStream /\ tracked' = tracked
        /\ timer[r] /\ timer'[r] = FALSE
        /\ promise[r] = "pending" /\ ~(stage[r] = "read" /\ conf[r].stream)
        /\ abort'[r] = IF settled[r] THEN abort[r]
                       ELSE IF abort[r] = "none" THEN "deadline" ELSE abort[r]
    BY <1>1 DEF Deadline, MicrotaskDue
  <2>2. abort[r] # "none" => abort'[r] = abort[r]
    BY <2>1
  <2>3. abort'[r] # abort[r] => abort'[r] = "deadline" /\ ~settled[r]
    BY <2>1
  <2>4. StageShape(r)' /\ SubShape(r)' /\ BodyShape(r)' /\ HoldShape(r)'
    BY <2>1, <2>2, <2>3
  <2>5. AbortShape(r)' /\ HopShape(r)' /\ ReachShape(r)'
    BY <2>1, <2>2, <2>3
  <2>6. CauseShape(r)'
    <3>1. CASE abort'[r] = abort[r]
      BY <2>1, <3>1
    <3>2. CASE abort'[r] # abort[r]
      <4>1. abort'[r] = "deadline" /\ abort[r] = "none" /\ ~settled[r]
        BY <2>1, <3>2
      <4>2. conf[r].entry = "dispatch" => Active(r)
        BY <2>1, <4>1 DEF Stages
      <4>3. conf[r].entry = "dispatch" => outcome[r] = "none"
        BY <4>2
      <4>4. outcome[r] # "canceled"
        BY <4>1
      <4>5. QED BY <2>1, <4>1, <4>3, <4>4
    <3>3. QED BY <3>1, <3>2
  <2>7. QED BY <2>4, <2>5, <2>6
<1>2. CASE TokenCancel(r)
  BY <1>2 DEF TokenCancel
<1>3. CASE Unsubscribe(r)
  <2>1. CASE stage[r] = "local"
    BY <1>3, <2>1 DEF Unsubscribe
  <2>2. CASE stage[r] # "local"
    <3>1. /\ conf' = conf /\ stage' = stage /\ promise' = promise /\ onDumped' = onDumped
          /\ redirects' = redirects /\ wire' = wire /\ settled' = settled
          /\ aborted' = aborted /\ outcome' = outcome /\ body' = body
          /\ openStream' = openStream /\ tracked' = tracked
          /\ sub[r] = "open" /\ sub'[r] = "left"
      BY <1>3 DEF Unsubscribe
    <3>2. /\ timer'[r] = FALSE /\ listener'[r] = "none" /\ bridge'[r] = FALSE
          /\ abort'[r] = IF settled[r] THEN abort[r]
                         ELSE IF abort[r] = "none" THEN "unsubscribe" ELSE abort[r]
      BY <1>3, <2>2 DEF Unsubscribe, Detach
    <3>3. ~settled[r] /\ Active(r)
      BY <3>1, <2>2 DEF Stages
    <3>4. QED BY <3>1, <3>2, <3>3
  <2>3. QED BY <2>1, <2>2
<1>4. QED BY <1>1, <1>2, <1>3

LEMMA OwnClose ==
  ASSUME TypeOK, NEW r \in Requests, ReqInv(r), BodyConsumed(r) \/ BodyAborted(r)
  PROVE  ReqInv(r)'
<1> USE ConfType DEF TypeOK, ReqInv, StageShape, SubShape, BodyShape, HoldShape,
        AbortShape, HopShape, CauseShape, ReachShape, Active
<1>1. CloseBody(r)
  BY DEF BodyConsumed, BodyAborted
<1>2. CASE openStream[r]
  BY <1>1, <1>2 DEF CloseBody, Detach
<1>3. CASE ~openStream[r]
  BY <1>1, <1>3 DEF CloseBody
<1>4. QED BY <1>2, <1>3

-----------------------------------------------------------------------------
\* A caller's signal: the requests it reaches are aborted, the others only learn
\* that it has fired.
LEMMA SignalStep ==
  ASSUME TypeOK, NEW s \in Signals, UserAbort(s), NEW q \in Requests, ReqInv(q)
  PROVE  ReqInv(q)'
<1> USE ConfType DEF TypeOK, ReqInv, StageShape, SubShape, BodyShape, HoldShape,
        AbortShape, HopShape, CauseShape, ReachShape, Active, AbortedWith
<1> DEFINE reached == /\ conf[q].signal = s
                      /\ conf[q].token = "none" \/ bridge[q]
                      /\ listener[q] = "on"
<1>1. /\ conf' = conf /\ stage' = stage /\ promise' = promise /\ onDumped' = onDumped
      /\ redirects' = redirects /\ wire' = wire /\ settled' = settled
      /\ timer' = timer /\ sub' = sub /\ outcome' = outcome /\ body' = body
      /\ openStream' = openStream /\ tracked' = tracked
      /\ aborted' = aborted \cup {s}
  BY DEF UserAbort
<1>2. bridge'[q] = (bridge[q] /\ conf[q].signal # s)
  BY DEF UserAbort
<1>3. CASE reached
  <2>1. /\ listener'[q] = "fired"
        /\ abort'[q] = IF abort[q] = "none" THEN "user" ELSE abort[q]
    BY <1>3 DEF UserAbort
  <2>2. StageShape(q)' /\ SubShape(q)' /\ BodyShape(q)' /\ HoldShape(q)'
    BY <1>1, <1>2, <1>3, <2>1
  <2>3. AbortShape(q)' /\ HopShape(q)' /\ CauseShape(q)' /\ ReachShape(q)'
    BY <1>1, <1>2, <1>3, <2>1
  <2>4. QED BY <2>2, <2>3
<1>4. CASE ~reached
  <2>1. listener'[q] = listener[q] /\ abort'[q] = abort[q]
    BY <1>4 DEF UserAbort
  <2>2. StageShape(q)' /\ SubShape(q)' /\ BodyShape(q)' /\ HoldShape(q)'
    BY <1>1, <1>2, <2>1
  <2>3. AbortShape(q)' /\ HopShape(q)' /\ CauseShape(q)'
    BY <1>1, <1>2, <2>1
  <2>4. ReachShape(q)'
    BY <1>1, <1>2, <1>4, <2>1
  <2>5. QED BY <2>2, <2>3, <2>4
<1>5. QED BY <1>3, <1>4

\* Shutdown aborts open streams only.
LEMMA GraceStep ==
  ASSUME TypeOK, GraceElapses, NEW q \in Requests, ReqInv(q)
  PROVE  ReqInv(q)'
<1> USE ConfType DEF TypeOK, ReqInv, StageShape, SubShape, BodyShape, HoldShape,
        AbortShape, HopShape, CauseShape, ReachShape, Active, AbortedWith
<1>1. /\ conf' = conf /\ stage' = stage /\ promise' = promise /\ onDumped' = onDumped
      /\ redirects' = redirects /\ wire' = wire /\ settled' = settled
      /\ timer' = timer /\ sub' = sub /\ outcome' = outcome /\ body' = body
      /\ openStream' = openStream /\ tracked' = tracked /\ aborted' = aborted
      /\ listener' = listener /\ bridge' = bridge
      /\ abort'[q] = IF tracked[q] /\ abort[q] = "none" THEN "shutdown" ELSE abort[q]
  BY DEF GraceElapses
<1>2. StageShape(q)' /\ SubShape(q)' /\ BodyShape(q)' /\ HoldShape(q)'
  BY <1>1
<1>3. AbortShape(q)' /\ HopShape(q)' /\ CauseShape(q)' /\ ReachShape(q)'
  BY <1>1
<1>4. QED BY <1>2, <1>3

LEMMA InvStep == TypeOK /\ IInv /\ [Next]_vars => IInv'
<1> SUFFICES ASSUME TypeOK, IInv, [Next]_vars, NEW q \in Requests PROVE ReqInv(q)'
  BY DEF IInv
<1>1. ReqInv(q)
  BY DEF IInv
<1>2. ASSUME NEW r \in Requests, StepOf(r) PROVE ReqInv(q)'
  <2>1. CASE q = r
    BY <1>1, <1>2, <2>1, OwnSubscribe, OwnSettle, OwnResponse, OwnFailures,
       OwnResolved, OwnDataUrl, OwnAborts, OwnClose, ReceivedSame, Frame DEF StepOf, Handlers
  <2>2. CASE q # r
    BY <1>1, <1>2, <2>2, FrameStep, Frame
  <2>3. QED BY <2>1, <2>2
<1>3. ASSUME NEW s \in Signals, UserAbort(s) PROVE ReqInv(q)'
  BY <1>1, <1>3, SignalStep
<1>4. CASE GraceElapses
  BY <1>1, <1>4, GraceStep
<1>5. CASE UNCHANGED vars
  BY <1>1, <1>5, Frame DEF vars, Same
<1>6. QED
  BY <1>2, <1>3, <1>4, <1>5 DEF Next, StepOf

\* The inductive invariant holds, for any number of requests, of callers'
\* signals and of redirects.
THEOREM Invariant == Spec => []IInv
BY TypeInit, TypeStep, InvInit, InvStep, PTL DEF Spec

-----------------------------------------------------------------------------
(***************************************************************************)
(* What the invariant implies.                                             *)
(***************************************************************************)

\* executeRequest cleans up after every dispatched request: no listener on the
\* caller's signal, no timer, no entry in the shutdown table.
THEOREM NothingOutlives == Spec => []NothingOutlivesRequest
<1>1. TypeOK /\ IInv => NothingOutlivesRequest
  BY DEF IInv, ReqInv, NothingOutlivesRequest, Dispatched, HoldShape, BodyShape, TypeOK
<1>2. QED
  BY <1>1, TypeCorrect, Invariant, PTL

\* The teardown RxJS runs on unsubscribe lets go of everything at once.
THEOREM LeaversFree == Spec => []LeaversLetGo
<1>1. IInv => LeaversLetGo
  BY DEF IInv, ReqInv, LeaversLetGo, Dispatched, HoldShape
<1>2. QED
  BY <1>1, Invariant, PTL

\* A stream delivered as the response stays within the caller's signal's reach.
THEOREM StreamCancellable == Spec => []DeliveredStreamCancellable
<1>1. IInv => DeliveredStreamCancellable
  BY DEF IInv, ReqInv, DeliveredStreamCancellable, ReachShape
<1>2. QED
  BY <1>1, Invariant, PTL

\* Neither the deadline nor the teardown of a completed request aborts the
\* stream it delivered.
THEOREM StreamUndisturbed == Spec => []DeliveredStreamUndisturbed
<1>1. IInv => DeliveredStreamUndisturbed
  BY DEF IInv, ReqInv, DeliveredStreamUndisturbed, AbortShape, SubShape
<1>2. QED
  BY <1>1, Invariant, PTL

\* The error a subscriber gets names the cause that ended the request.
THEOREM CauseTold == Spec => []CauseIsTold
<1>1. IInv => CauseIsTold
  BY DEF IInv, ReqInv, CauseIsTold, Dispatched, CauseShape
<1>2. QED
  BY <1>1, Invariant, PTL

\* A redirect loop sends at most maxRedirects + 1 hops.
THEOREM HopsBounded == Spec => []HopBound
<1>1. IInv => HopBound
  BY DEF IInv, ReqInv, HopBound, HopShape
<1>2. QED
  BY <1>1, Invariant, PTL

\* Once a request is aborted, or its subscriber has left, undici gets no further
\* hop of it - also in the middle of a redirect chain.
THEOREM NothingSent == Spec => NothingSentAfterAbort
<1> DEFINE Quiet == \A r \in Requests :
                      sub[r] = "left" \/ abort[r] # "none" => wire'[r] = wire[r]
<1>1. TypeOK /\ IInv /\ [Next]_vars => Quiet
  <2> SUFFICES ASSUME TypeOK, IInv, [Next]_vars, NEW q \in Requests,
                      sub[q] = "left" \/ abort[q] # "none"
               PROVE  wire'[q] = wire[q]
    OBVIOUS
  <2>1. ReqInv(q)
    BY DEF IInv
  <2>2. ASSUME NEW r \in Requests, StepOf(r) PROVE wire'[q] = wire[q]
    <3>1. CASE q # r
      BY <2>2, <3>1, FrameStep DEF Same
    <3>2. CASE q = r
      <4>1. CASE SubscribeDispatch(r)
        BY <2>1, <3>2, <4>1 DEF SubscribeDispatch, Begin, ReqInv, SubShape
      <4>2. CASE AfterDumpHops(r)
        <5>1. abort[r] # "none"
          BY <2>1, <3>2, <4>2 DEF AfterDumpHops, ReqInv, StageShape, HoldShape, Active
        <5>2. QED BY <3>2, <4>2, <5>1 DEF AfterDumpHops, Send, TypeOK
      <4>3. CASE wire' = wire
        BY <4>3
      <4>4. QED
        BY <2>2, <4>1, <4>2, <4>3
           DEF StepOf, Handlers, SubscribeRefused, SubscribeLocal, SubscribeRejected,
               SubscribeThrows, HeadersArrive, NetworkFails, DumpEnds, BodyEnds,
               DataUrlEnds, AbortSettles, Settle, OnRedirect, OnFinalResponse,
               OnRequestRejected, AfterDumpFails, OnReadRejected, OnReadResolved,
               OnDataUrl, Deadline, TokenCancel, Unsubscribe, BodyConsumed,
               BodyReceived, BodyAborted, CloseBody
    <3>3. QED BY <3>1, <3>2
  <2>3. QED
    BY <2>2 DEF Next, StepOf, UserAbort, GraceElapses, vars
<1>2. [](TypeOK /\ IInv) /\ [][Next]_vars => [][Quiet]_vars
  BY <1>1, PTL
<1>3. QED
  BY <1>2, TypeCorrect, Invariant, PTL DEF Spec, NothingSentAfterAbort
-----------------------------------------------------------------------------
(***************************************************************************)
(* RequestLifecycle implements CancellableCall, but for what its fairness  *)
(* adds. To the subscriber a step of request r is one of the call's, or    *)
(* nothing, and the other calls do not move.                               *)
(***************************************************************************)

StateOf(r) == IF sub[r] = "open" THEN "live" ELSE sub[r]
WhyOf(r) == IF sub[r] = "left" /\ abort[r] = "none" THEN "unsubscribe" ELSE abort[r]
HandedOf(r) == IF outcome[r] = "none" THEN "none" ELSE body[r]

\* A data: URL has nothing that could abort it; nobody leaves a request that
\* was refused in the subscriber function.
LocalShape(r) ==
  /\ conf[r].entry = "local" =>
       abort[r] = "none" /\ listener[r] = "none" /\ ~timer[r]
  /\ sub[r] \in {"open", "left"} => conf[r].entry \in {"dispatch", "local"}

\* What the refinement needs of every request.
CallInv == TypeOK /\ IInv /\ \A r \in Requests : LocalShape(r)

\* A request that its subscriber left has a reason for that: its own abort, or,
\* for a data: URL, that it was left; one that can be aborted is under way.
LEMMA CallFacts ==
  ASSUME CallInv, NEW r \in Requests
  PROVE  /\ abort[r] = "none" /\ (timer[r] \/ listener[r] = "on" \/ tracked[r]) =>
              WhyOf(r) = "none" /\ StateOf(r) # "cold"
         /\ body[r] # "none" => sub[r] # "open"
         /\ sub[r] = "open" => outcome[r] = "none" /\ abort[r] \notin {"unsubscribe", "shutdown"}
         /\ sub[r] = "left" => outcome[r] = "none"
BY DEF CallInv, IInv, ReqInv, LocalShape, SubShape, BodyShape, HoldShape, AbortShape,
       Active, TypeOK, Stages, StateOf, WhyOf

\* What the call shows of a request that does not move.
Still(q) ==
  /\ StateOf(q)' = StateOf(q) /\ WhyOf(q)' = WhyOf(q) /\ wire'[q] = wire[q]
  /\ outcome'[q] = outcome[q] /\ HandedOf(q)' = HandedOf(q)

\* Only request r moves, if any, and nothing that is fixed.
Alone(r) ==
  /\ TypeOK /\ TypeOK' /\ conf' = conf
  /\ \A q \in Requests : q # r => Still(q)

\* What CancellableCall's variables stand for, as functions.
States == [r \in Requests |-> StateOf(r)]
Whys == [r \in Requests |-> WhyOf(r)]
HandedOut == [r \in Requests |-> HandedOf(r)]

LEMMA OneMoved ==
  ASSUME NEW r \in Requests, Alone(r)
  PROVE  /\ States' = [States EXCEPT ![r] = StateOf(r)']
         /\ Whys' = [Whys EXCEPT ![r] = WhyOf(r)']
         /\ wire' = [wire EXCEPT ![r] = wire'[r]]
         /\ outcome' = [outcome EXCEPT ![r] = outcome'[r]]
         /\ HandedOut' = [HandedOut EXCEPT ![r] = HandedOf(r)']
         /\ StateOf(r)' = StateOf(r) => States' = States
         /\ WhyOf(r)' = WhyOf(r) => Whys' = Whys
         /\ wire'[r] = wire[r] => wire' = wire
         /\ outcome'[r] = outcome[r] => outcome' = outcome
         /\ HandedOf(r)' = HandedOf(r) => HandedOut' = HandedOut
         /\ conf' = conf
<1>1. \A q \in Requests : q # r => Still(q)
  BY DEF Alone
<1>2. States' = [q \in Requests |-> StateOf(q)']
  BY DEF States
<1>3. \A q \in Requests : q # r => StateOf(q)' = StateOf(q)
  BY <1>1 DEF Still
<1>4. Whys' = [q \in Requests |-> WhyOf(q)']
  BY DEF Whys
<1>5. \A q \in Requests : q # r => WhyOf(q)' = WhyOf(q)
  BY <1>1 DEF Still
<1>6. HandedOut' = [q \in Requests |-> HandedOf(q)']
  BY DEF HandedOut
<1>7. \A q \in Requests : q # r => HandedOf(q)' = HandedOf(q)
  BY <1>1 DEF Still
<1>8. States' = [States EXCEPT ![r] = StateOf(r)']
  BY <1>2, <1>3 DEF States
<1>9. Whys' = [Whys EXCEPT ![r] = WhyOf(r)']
  BY <1>4, <1>5 DEF Whys
<1>10. HandedOut' = [HandedOut EXCEPT ![r] = HandedOf(r)']
  BY <1>6, <1>7 DEF HandedOut
<1>11. wire' = [wire EXCEPT ![r] = wire'[r]] /\ outcome' = [outcome EXCEPT ![r] = outcome'[r]]
  BY <1>1 DEF Still, Alone, TypeOK
<1>12. /\ wire'[r] = wire[r] => wire' = wire
       /\ outcome'[r] = outcome[r] => outcome' = outcome
  <2>1. TypeOK
    BY DEF Alone
  <2>2. wire = [wire EXCEPT ![r] = wire[r]] /\ outcome = [outcome EXCEPT ![r] = outcome[r]]
    BY <2>1 DEF TypeOK
  <2>3. QED BY <1>11, <2>2
<1>13. /\ StateOf(r)' = StateOf(r) => States' = States
       /\ WhyOf(r)' = WhyOf(r) => Whys' = Whys
       /\ HandedOf(r)' = HandedOf(r) => HandedOut' = HandedOut
  BY <1>8, <1>9, <1>10 DEF States, Whys, HandedOut
<1>14. QED BY <1>8, <1>9, <1>10, <1>11, <1>12, <1>13 DEF Alone

LEMMA ViewStutters ==
  ASSUME NEW r \in Requests, Alone(r), Still(r)
  PROVE  UNCHANGED Call!vars
<1>1. States' = States /\ Whys' = Whys /\ wire' = wire /\ outcome' = outcome
      /\ HandedOut' = HandedOut /\ conf' = conf
  BY OneMoved DEF Still
<1>2. QED BY <1>1, Zenon DEF Call!vars, States, Whys, HandedOut, StateOf, WhyOf, HandedOf

LEMMA ViewStarts ==
  ASSUME NEW r \in Requests, Alone(r),
         StateOf(r) = "cold", StateOf(r)' = "live",
         \/ wire'[r] = 1 /\ WhyOf(r)' = WhyOf(r)
         \/ wire'[r] = wire[r] /\ WhyOf(r)' \in {WhyOf(r), "user"},
         outcome'[r] = outcome[r], HandedOf(r)' = HandedOf(r)
  PROVE  Call!Start(r)
<1>1. States[r] = "cold" /\ States' = [States EXCEPT ![r] = "live"]
  BY OneMoved DEF States
<1>2. \/ wire' = [wire EXCEPT ![r] = 1] /\ Whys' = Whys
      \/ wire' = wire /\ Whys' \in {Whys, [Whys EXCEPT ![r] = "user"]}
  BY OneMoved
<1>3. outcome' = outcome /\ HandedOut' = HandedOut /\ conf' = conf
  BY OneMoved
<1>4. QED BY <1>1, <1>2, <1>3, Zenon
  DEF Call!Start, States, Whys, HandedOut, StateOf, WhyOf, HandedOf

LEMMA ViewRefuses ==
  ASSUME NEW r \in Requests, Alone(r),
         StateOf(r) = "cold", StateOf(r)' = "told",
         wire'[r] = wire[r], WhyOf(r)' \in {WhyOf(r), "user"},
         outcome'[r] = "error", HandedOf(r)' = HandedOf(r)
  PROVE  Call!Refuse(r)
<1>1. States[r] = "cold" /\ States' = [States EXCEPT ![r] = "told"]
  BY OneMoved DEF States
<1>2. wire' = wire /\ Whys' \in {Whys, [Whys EXCEPT ![r] = "user"]}
  BY OneMoved
<1>3. outcome' = [outcome EXCEPT ![r] = "error"] /\ HandedOut' = HandedOut /\ conf' = conf
  BY OneMoved
<1>4. QED BY <1>1, <1>2, <1>3, Zenon
  DEF Call!Refuse, States, Whys, HandedOut, StateOf, WhyOf, HandedOf

LEMMA ViewSends ==
  ASSUME NEW r \in Requests, Alone(r),
         StateOf(r) = "live", WhyOf(r) = "none",
         wire[r] < conf[r].maxRedirects + 1, wire'[r] = wire[r] + 1,
         StateOf(r)' = StateOf(r), WhyOf(r)' = WhyOf(r),
         outcome'[r] = outcome[r], HandedOf(r)' = HandedOf(r)
  PROVE  Call!SendAgain(r)
<1>1. States[r] = "live" /\ Whys[r] = "none"
  BY DEF States, Whys
<1>2. wire[r] < [q \in Requests |-> conf[q].maxRedirects + 1][r]
  OBVIOUS
<1>3. wire' = [wire EXCEPT ![r] = @ + 1]
  BY OneMoved
<1>4. States' = States /\ Whys' = Whys /\ outcome' = outcome /\ HandedOut' = HandedOut
      /\ conf' = conf
  BY OneMoved
<1>5. QED BY <1>1, <1>2, <1>3, <1>4, Zenon
  DEF Call!SendAgain, States, Whys, HandedOut, StateOf, WhyOf, HandedOf

LEMMA ViewAnswers ==
  ASSUME NEW r \in Requests, Alone(r),
         StateOf(r) = "live", StateOf(r)' = "told",
         WhyOf(r)' = WhyOf(r), wire'[r] = wire[r],
         outcome'[r] \in Call!Honest(WhyOf(r)), HandedOf(r)' \in {"none", "open"}
  PROVE  Call!Answer(r)
<1>1. States[r] = "live" /\ States' = [States EXCEPT ![r] = "told"]
  BY OneMoved DEF States
<1>2. Whys' = Whys /\ wire' = wire /\ conf' = conf
  BY OneMoved
<1>3. \E a \in Call!Honest(Whys[r]) : outcome' = [outcome EXCEPT ![r] = a]
  <2>1. Whys[r] = WhyOf(r)
    BY DEF Whys
  <2>2. QED BY <2>1, OneMoved
<1>4. \E h \in {"none", "open"} : HandedOut' = [HandedOut EXCEPT ![r] = h]
  BY OneMoved
<1>5. QED BY <1>1, <1>2, <1>3, <1>4, Zenon
  DEF Call!Answer, States, Whys, HandedOut, StateOf, WhyOf, HandedOf

LEMMA ViewLeaves ==
  ASSUME NEW r \in Requests, Alone(r),
         StateOf(r) = "live", StateOf(r)' = "left",
         WhyOf(r)' = (IF WhyOf(r) = "none" THEN "unsubscribe" ELSE WhyOf(r)),
         wire'[r] = wire[r], outcome'[r] = outcome[r], HandedOf(r)' = HandedOf(r)
  PROVE  Call!Leave(r)
<1>1. States[r] = "live" /\ States' = [States EXCEPT ![r] = "left"]
  BY OneMoved DEF States
<1>2. Whys' = [Whys EXCEPT ![r] = IF @ = "none" THEN "unsubscribe" ELSE @]
  <2>1. Whys[r] = WhyOf(r)
    BY DEF Whys
  <2>2. QED BY <2>1, OneMoved
<1>3. wire' = wire /\ outcome' = outcome /\ HandedOut' = HandedOut /\ conf' = conf
  BY OneMoved
<1>4. QED BY <1>1, <1>2, <1>3, Zenon
  DEF Call!Leave, States, Whys, HandedOut, StateOf, WhyOf, HandedOf

LEMMA ViewCloses ==
  ASSUME NEW r \in Requests, Alone(r),
         HandedOf(r) = "open", HandedOf(r)' = "closed",
         StateOf(r)' = StateOf(r), WhyOf(r)' = WhyOf(r),
         wire'[r] = wire[r], outcome'[r] = outcome[r]
  PROVE  Call!Close(r)
<1>1. HandedOut[r] = "open" /\ HandedOut' = [HandedOut EXCEPT ![r] = "closed"]
  BY OneMoved DEF HandedOut
<1>2. States' = States /\ Whys' = Whys /\ wire' = wire /\ outcome' = outcome /\ conf' = conf
  BY OneMoved
<1>3. QED BY <1>1, <1>2, Zenon
  DEF Call!Close, States, Whys, HandedOut, StateOf, WhyOf, HandedOf

\* Requests S are aborted for the same reason, and nothing else changes.
LEMMA ViewStops ==
  ASSUME TypeOK, NEW S, S \subseteq Requests, NEW reason, reason # "none",
         \A q \in S : StateOf(q) # "cold" /\ WhyOf(q) = "none",
         abort' = [q \in Requests |-> IF q \in S THEN reason ELSE abort[q]],
         UNCHANGED <<conf, wire, sub, outcome, body>>
  PROVE  Call!Stop(reason)
<1>1. S \in SUBSET {q \in Requests : States[q] # "cold" /\ Whys[q] = "none"}
  BY DEF States, Whys
<1>2. ASSUME NEW q \in Requests
      PROVE  WhyOf(q)' = IF q \in S THEN reason ELSE WhyOf(q)
  BY DEF WhyOf, TypeOK
<1>3. Whys' = [q \in Requests |-> IF q \in S THEN reason ELSE Whys[q]]
  BY <1>2 DEF Whys
<1>4. States' = States /\ HandedOut' = HandedOut
  BY DEF States, StateOf, HandedOut, HandedOf
<1>5. QED BY <1>1, <1>3, <1>4, Zenon
  DEF Call!Stop, States, Whys, HandedOut, StateOf, WhyOf, HandedOf

-----------------------------------------------------------------------------
LEMMA LocalInit == Init => \A r \in Requests : LocalShape(r)
<1> SUFFICES ASSUME Init, NEW r \in Requests PROVE LocalShape(r)
  OBVIOUS
<1>1. abort[r] = "none" /\ listener[r] = "none" /\ ~timer[r] /\ sub[r] = "cold"
  BY DEF Init
<1>2. QED BY <1>1 DEF LocalShape

LEMMA LocalStep ==
  ASSUME CallInv, [Next]_vars, NEW q \in Requests
  PROVE  LocalShape(q)'
<1>1. TypeOK /\ ReqInv(q) /\ LocalShape(q)
  BY DEF CallInv, IInv
<1>2. ASSUME NEW r \in Requests, StepOf(r) PROVE LocalShape(q)'
  <2>1. CASE q # r
    BY <1>1, <1>2, <2>1, FrameStep DEF Same, LocalShape
  <2>2. CASE q = r
    <3> USE <1>1, <2>2 DEF LocalShape, TypeOK, ReqInv, StageShape, SubShape, Active
    <3>1. CASE SubscribeRefused(r) \/ SubscribeLocal(r)
      BY <3>1 DEF SubscribeRefused, SubscribeLocal, Begin, Over
    <3>2. CASE SubscribeRejected(r) \/ SubscribeThrows(r)
      BY <3>2 DEF SubscribeRejected, SubscribeThrows, Begin, Hook, Over
    <3>3. CASE SubscribeDispatch(r)
      BY <3>3 DEF SubscribeDispatch, Begin, Hook
    <3>4. CASE \/ HeadersArrive(r) \/ NetworkFails(r) \/ DumpEnds(r) \/ BodyEnds(r)
               \/ DataUrlEnds(r) \/ AbortSettles(r)
      BY <3>4 DEF HeadersArrive, NetworkFails, DumpEnds, BodyEnds, DataUrlEnds,
                  AbortSettles, Settle
    <3>5. CASE OnRedirect(r) \/ OnFinalResponse(r) \/ AfterDumpHops(r)
      BY <3>5 DEF OnRedirect, OnFinalResponse, AfterDumpHops, Send
    <3>6. CASE OnRequestRejected(r) \/ AfterDumpFails(r) \/ OnReadRejected(r)
      BY <3>6 DEF OnRequestRejected, AfterDumpFails, OnReadRejected, Fail, Over, Tell, Detach
    <3>7. CASE OnReadResolved(r)
      <4>1. /\ conf'[r] = conf[r] /\ conf[r].entry = "dispatch"
            /\ sub'[r] \in {sub[r], "told"}
        BY <3>7 DEF OnReadResolved, Tell
      <4>2. QED BY <4>1
    <3>8. CASE OnDataUrl(r)
      BY <3>8 DEF OnDataUrl, Over, Tell
    <3>9. CASE Deadline(r) \/ TokenCancel(r)
      BY <3>9 DEF Deadline, TokenCancel
    <3>10. CASE Unsubscribe(r)
      <4>1. CASE stage[r] = "local"
        BY <3>10, <4>1 DEF Unsubscribe
      <4>2. CASE stage[r] # "local"
        <5>1. Active(r) /\ conf[r].entry = "dispatch"
          BY <3>10, <4>2 DEF Unsubscribe, Stages
        <5>2. conf' = conf
          BY <3>10 DEF Unsubscribe
        <5>3. QED BY <5>1, <5>2
      <4>3. QED BY <4>1, <4>2
    <3>11. CASE BodyConsumed(r) \/ BodyAborted(r)
      <4>1. CloseBody(r)
        BY <3>11 DEF BodyConsumed, BodyAborted
      <4>2. conf' = conf /\ abort' = abort /\ timer' = timer /\ sub' = sub
        BY <4>1 DEF CloseBody
      <4>3. listener'[r] \in {listener[r], "none"}
        BY <4>1 DEF CloseBody, Detach
      <4>4. QED BY <4>2, <4>3
    <3>12. CASE BodyReceived(r)
      BY <3>12, ReceivedSame DEF Same
    <3>13. QED
      BY <1>2, <3>1, <3>2, <3>3, <3>4, <3>5, <3>6, <3>7, <3>8, <3>9, <3>10, <3>11, <3>12
         DEF StepOf, Handlers
  <2>3. QED BY <2>1, <2>2
<1>3. ASSUME NEW s \in Signals, UserAbort(s) PROVE LocalShape(q)'
  BY <1>1, <1>3 DEF UserAbort, LocalShape
<1>4. CASE GraceElapses
  BY <1>1, <1>4 DEF GraceElapses, LocalShape, ReqInv, BodyShape
<1>5. CASE UNCHANGED vars
  BY <1>1, <1>5 DEF vars, LocalShape
<1>6. QED
  BY <1>2, <1>3, <1>4, <1>5 DEF Next, StepOf

-----------------------------------------------------------------------------
\* A step of one request, seen from the call. Each lemma takes the actions that
\* come to the same.

LEMMA SeenAlone ==
  ASSUME TypeOK, TypeOK', NEW r \in Requests, StepOf(r)
  PROVE  Alone(r)
<1>1. conf' = conf
  BY DEF StepOf, Handlers, SubscribeRefused, SubscribeLocal, SubscribeRejected,
         SubscribeThrows, SubscribeDispatch, Begin, HeadersArrive, NetworkFails,
         DumpEnds, BodyEnds, DataUrlEnds, AbortSettles, Settle, OnRedirect,
         OnFinalResponse, OnRequestRejected, AfterDumpFails, AfterDumpHops,
         OnReadRejected, OnReadResolved, OnDataUrl, Deadline, TokenCancel,
         Unsubscribe, BodyConsumed, BodyReceived, BodyAborted, CloseBody
<1>2. \A q \in Requests : q # r => Still(q)
  BY FrameStep DEF Same, Still, StateOf, WhyOf, HandedOf
<1>3. QED BY <1>1, <1>2 DEF Alone

LEMMA SeenSubscribe ==
  ASSUME CallInv, NEW r \in Requests, Alone(r),
         \/ SubscribeRefused(r) \/ SubscribeLocal(r) \/ SubscribeRejected(r)
         \/ SubscribeThrows(r) \/ SubscribeDispatch(r)
  PROVE  Call!Start(r) \/ Call!Refuse(r)
<1>1. TypeOK /\ ReqInv(r)
  BY DEF CallInv, IInv
<1>2. /\ stage[r] = "idle" /\ sub[r] = "cold" /\ abort[r] = "none" /\ wire[r] = 0
      /\ outcome[r] = "none" /\ body'[r] = "none" /\ body[r] = "none"
  BY <1>1 DEF SubscribeRefused, SubscribeLocal, SubscribeRejected, SubscribeThrows,
     SubscribeDispatch, Begin, ReqInv, SubShape, BodyShape
<1>3. HandedOf(r)' = HandedOf(r) /\ StateOf(r) = "cold" /\ WhyOf(r) = "none"
  BY <1>2 DEF HandedOf, StateOf, WhyOf
<1>4. CASE SubscribeRefused(r)
  <2>1. sub'[r] = "told" /\ outcome'[r] = "error" /\ abort' = abort /\ wire' = wire
    BY <1>1, <1>4 DEF SubscribeRefused, TypeOK
  <2>2. StateOf(r)' = "told" /\ WhyOf(r)' = WhyOf(r)
    BY <1>2, <2>1 DEF StateOf, WhyOf
  <2>3. QED BY <1>3, <2>1, <2>2, ViewRefuses
<1>5. CASE SubscribeLocal(r)
  <2>1. sub'[r] = "open" /\ outcome' = outcome /\ abort' = abort /\ wire' = wire
    BY <1>1, <1>5 DEF SubscribeLocal, TypeOK
  <2>2. StateOf(r)' = "live" /\ WhyOf(r)' = WhyOf(r)
    BY <1>2, <2>1 DEF StateOf, WhyOf
  <2>3. QED BY <1>3, <2>1, <2>2, ViewStarts
<1>6. CASE SubscribeRejected(r) \/ SubscribeThrows(r)
  <2>1. /\ sub'[r] = "told" /\ outcome'[r] = "error" /\ abort'[r] \in {"none", "user"}
        /\ wire' = wire
    BY <1>1, <1>2, <1>6 DEF SubscribeRejected, SubscribeThrows, Hook, TypeOK
  <2>2. StateOf(r)' = "told" /\ WhyOf(r)' \in {WhyOf(r), "user"}
    BY <1>2, <2>1 DEF StateOf, WhyOf
  <2>3. QED BY <1>3, <2>1, <2>2, ViewRefuses
<1>7. CASE SubscribeDispatch(r)
  <2>1. /\ sub'[r] = "open" /\ outcome' = outcome
        /\ \/ wire'[r] = 1 /\ abort'[r] = "none"
           \/ wire'[r] = wire[r] /\ abort'[r] = "user"
    BY <1>1, <1>2, <1>7 DEF SubscribeDispatch, Hook, TypeOK
  <2>2. /\ StateOf(r)' = "live"
        /\ \/ wire'[r] = 1 /\ WhyOf(r)' = WhyOf(r)
           \/ wire'[r] = wire[r] /\ WhyOf(r)' \in {WhyOf(r), "user"}
    BY <1>2, <2>1 DEF StateOf, WhyOf
  <2>3. QED BY <1>3, <2>1, <2>2, ViewStarts
<1>8. QED BY <1>4, <1>5, <1>6, <1>7

\* Promises settle, and redirects are dumped, out of the subscriber's sight.
LEMMA SeenNothing ==
  ASSUME NEW r \in Requests, Alone(r),
         \/ HeadersArrive(r) \/ NetworkFails(r) \/ DumpEnds(r) \/ BodyEnds(r)
         \/ DataUrlEnds(r) \/ AbortSettles(r) \/ OnRedirect(r) \/ OnFinalResponse(r)
  PROVE  UNCHANGED Call!vars
<1>1. UNCHANGED <<sub, abort, wire, outcome, body>>
  BY DEF HeadersArrive, NetworkFails, DumpEnds, BodyEnds, DataUrlEnds, AbortSettles,
         Settle, OnRedirect, OnFinalResponse
<1>2. Still(r)
  BY <1>1 DEF Still, StateOf, WhyOf, HandedOf
<1>3. QED BY <1>2, ViewStutters

\* Told something, a subscriber that is there has its answer, and one that has
\* left hears nothing.
LEMMA SeenTold ==
  ASSUME CallInv, NEW r \in Requests, Alone(r), sub[r] \in {"open", "left"},
         NEW what, Tell(r, what), what \in Call!Honest(abort[r]),
         abort' = abort, wire' = wire, body'[r] \in {"none", "open"}
  PROVE  Call!Answer(r) \/ UNCHANGED Call!vars
<1>1. TypeOK
  BY DEF CallInv
<1>2. CASE sub[r] = "open"
  <2>1. sub'[r] = "told" /\ outcome'[r] = what
    BY <1>1, <1>2 DEF Tell, TypeOK
  <2>2. StateOf(r) = "live" /\ StateOf(r)' = "told" /\ WhyOf(r) = abort[r]
    BY <1>2, <2>1 DEF StateOf, WhyOf
  <2>3. WhyOf(r)' = WhyOf(r)
    BY <1>2, <2>1 DEF WhyOf
  <2>4. HandedOf(r)' \in {"none", "open"}
    BY DEF HandedOf
  <2>5. QED BY <2>1, <2>2, <2>3, <2>4, ViewAnswers
<1>3. CASE sub[r] = "left"
  <2>1. sub' = sub /\ outcome' = outcome /\ outcome[r] = "none"
    BY <1>3, CallFacts DEF Tell
  <2>2. Still(r)
    BY <2>1 DEF Still, StateOf, WhyOf, HandedOf
  <2>3. QED BY <2>2, ViewStutters
<1>4. QED BY <1>2, <1>3

\* fail() is honest: it has the deadline for a reason, or says canceled only
\* of what was aborted.
LEMMA FailIsHonest ==
  ASSUME CallInv, NEW r \in Requests, Active(r), sub[r] = "open",
         NEW kind \in {"canceled", "timeout", "error"},
         kind = "canceled" => abort[r] # "none"
  PROVE  FailKind(r, kind) \in Call!Honest(abort[r])
<1>1. abort[r] \in {"none", "user", "deadline"}
  BY CallFacts DEF CallInv, TypeOK, Reasons
<1>2. CASE abort[r] = "user"
  BY <1>2 DEF FailKind, Call!Honest, Call!Answers
<1>3. CASE abort[r] = "deadline"
  BY <1>3 DEF FailKind, Call!Honest, Call!Answers
<1>4. CASE abort[r] = "none"
  BY <1>4 DEF FailKind, Call!Honest, Call!Answers
<1>5. QED BY <1>1, <1>2, <1>3, <1>4

LEMMA SeenFailure ==
  ASSUME CallInv, NEW r \in Requests, Alone(r),
         OnRequestRejected(r) \/ AfterDumpFails(r) \/ OnReadRejected(r)
  PROVE  Call!Answer(r) \/ UNCHANGED Call!vars
<1>1. TypeOK /\ ReqInv(r)
  BY DEF CallInv, IInv
<1>2. /\ Active(r) /\ sub[r] \in {"open", "left"} /\ body[r] = "none"
      /\ abort' = abort /\ wire' = wire
  BY <1>1 DEF OnRequestRejected, AfterDumpFails, OnReadRejected, ReqInv, SubShape,
     BodyShape, Active
<1>3. body'[r] \in {"none", "open"}
  BY <1>1, <1>2 DEF OnRequestRejected, AfterDumpFails, OnReadRejected, TypeOK
<1>4. PICK kind \in {"canceled", "timeout", "error"} :
        Fail(r, kind) /\ (kind = "canceled" => abort[r] # "none")
  <2>1. CASE OnRequestRejected(r) \/ OnReadRejected(r)
    <3>1. Fail(r, ErrorKind(promise[r]))
      BY <2>1 DEF OnRequestRejected, OnReadRejected
    <3>2. /\ ErrorKind(promise[r]) \in {"canceled", "timeout", "error"}
          /\ ErrorKind(promise[r]) = "canceled" => promise[r] = "aborted"
      BY DEF ErrorKind
    <3>3. QED BY <1>1, <3>1, <3>2 DEF ReqInv, AbortShape
  <2>2. CASE AfterDumpFails(r)
    <3>1. Fail(r, "error") \/ Fail(r, "timeout")
      BY <2>2 DEF AfterDumpFails
    <3>2. QED BY <3>1
  <2>3. QED BY <2>1, <2>2
<1>5. Tell(r, FailKind(r, kind))
  BY <1>4 DEF Fail
<1>6. CASE sub[r] = "open"
  <2>1. FailKind(r, kind) \in Call!Honest(abort[r])
    BY <1>2, <1>4, <1>6, FailIsHonest
  <2>2. QED BY <1>2, <1>3, <1>5, <2>1, SeenTold
<1>7. CASE sub[r] = "left"
  <2>1. sub' = sub /\ outcome' = outcome /\ outcome[r] = "none"
    BY <1>5, <1>7, CallFacts DEF Tell
  <2>2. Still(r)
    BY <1>2, <2>1 DEF Still, StateOf, WhyOf, HandedOf
  <2>3. QED BY <2>2, ViewStutters
<1>8. QED BY <1>2, <1>6, <1>7

\* A response is an honest answer, whatever was on its way meanwhile.
LEMMA SeenResponse ==
  ASSUME CallInv, NEW r \in Requests, Alone(r), OnReadResolved(r) \/ OnDataUrl(r)
  PROVE  Call!Answer(r) \/ UNCHANGED Call!vars
<1>1. TypeOK /\ ReqInv(r) /\ LocalShape(r)
  BY DEF CallInv, IInv
<1>2. sub[r] \in {"open", "left"} /\ body[r] = "none"
  BY <1>1 DEF OnReadResolved, OnDataUrl, ReqInv, SubShape, BodyShape, Active
<1>3. PICK what : /\ Tell(r, what)
                  /\ what = "response" \/ (what = "error" /\ abort[r] = "none")
  BY <1>1 DEF OnReadResolved, OnDataUrl, ReqInv, StageShape, LocalShape
<1>4. abort' = abort /\ wire' = wire /\ body'[r] \in {"none", "open"}
  BY <1>1, <1>2 DEF OnReadResolved, OnDataUrl, TypeOK
<1>5. CASE sub[r] = "open"
  <2>1. abort[r] \in {"none", "user", "deadline"}
    BY <1>1, <1>5, CallFacts DEF TypeOK, Reasons
  <2>2. what \in Call!Honest(abort[r])
    BY <1>3, <2>1 DEF Call!Honest, Call!Answers
  <2>3. QED BY <1>2, <1>3, <1>4, <2>2, SeenTold
<1>6. CASE sub[r] = "left"
  <2>1. sub' = sub /\ outcome' = outcome /\ outcome[r] = "none"
    BY <1>3, <1>6, CallFacts DEF Tell
  <2>2. Still(r)
    BY <1>4, <2>1 DEF Still, StateOf, WhyOf, HandedOf
  <2>3. QED BY <2>2, ViewStutters
<1>7. QED BY <1>2, <1>5, <1>6

\* The next hop is sent again, unless the signal it is sent with has fired.
LEMMA SeenHop ==
  ASSUME CallInv, NEW r \in Requests, Alone(r), AfterDumpHops(r)
  PROVE  Call!SendAgain(r) \/ UNCHANGED Call!vars
<1>1. TypeOK /\ ReqInv(r)
  BY DEF CallInv, IInv
<1>2. UNCHANGED <<abort, sub, outcome, body>> /\ Active(r) /\ conf[r].entry = "dispatch"
  BY <1>1 DEF AfterDumpHops, ReqInv, StageShape, Active
<1>3. StateOf(r)' = StateOf(r) /\ WhyOf(r)' = WhyOf(r) /\ HandedOf(r)' = HandedOf(r)
  BY <1>2 DEF StateOf, WhyOf, HandedOf
<1>4. CASE abort[r] = "none"
  <2>1. wire'[r] = wire[r] + 1
    BY <1>1, <1>4 DEF AfterDumpHops, Send, TypeOK
  <2>2. sub[r] = "open"
    BY <1>1, <1>2, <1>4 DEF ReqInv, SubShape, HoldShape
  <2>3. wire[r] < conf[r].maxRedirects + 1
    BY <1>1, ConfType DEF AfterDumpHops, ReqInv, HopShape, TypeOK
  <2>4. StateOf(r) = "live" /\ WhyOf(r) = "none"
    BY <1>4, <2>2 DEF StateOf, WhyOf
  <2>5. QED BY <1>2, <1>3, <2>1, <2>3, <2>4, ViewSends
<1>5. CASE abort[r] # "none"
  <2>1. wire'[r] = wire[r]
    BY <1>1, <1>5 DEF AfterDumpHops, Send, TypeOK
  <2>2. Still(r)
    BY <1>2, <1>3, <2>1 DEF Still
  <2>3. QED BY <2>2, ViewStutters
<1>6. QED BY <1>4, <1>5

LEMMA SeenLeave ==
  ASSUME CallInv, NEW r \in Requests, Alone(r), Unsubscribe(r)
  PROVE  Call!Leave(r)
<1>1. TypeOK /\ ReqInv(r) /\ LocalShape(r)
  BY DEF CallInv, IInv
<1>2. sub[r] = "open" /\ sub'[r] = "left" /\ UNCHANGED <<wire, outcome, body>>
  BY <1>1 DEF Unsubscribe, TypeOK
<1>3. abort'[r] = IF abort[r] = "none" /\ stage[r] # "local" THEN "unsubscribe" ELSE abort[r]
  <2>1. CASE stage[r] = "local"
    BY <2>1 DEF Unsubscribe
  <2>2. CASE stage[r] # "local"
    <3>1. ~settled[r]
      BY <1>1, <1>2, <2>2 DEF ReqInv, SubShape, HoldShape, Active, TypeOK, Stages
    <3>2. abort' = [abort EXCEPT ![r] = IF settled[r] THEN @ ELSE AbortedWith(r, "unsubscribe")]
      BY <2>2 DEF Unsubscribe
    <3>3. QED BY <1>1, <2>2, <3>1, <3>2 DEF AbortedWith, TypeOK
  <2>3. QED BY <2>1, <2>2
<1>4. StateOf(r) = "live" /\ StateOf(r)' = "left" /\ WhyOf(r) = abort[r]
  BY <1>2 DEF StateOf, WhyOf
<1>5. WhyOf(r)' = IF WhyOf(r) = "none" THEN "unsubscribe" ELSE WhyOf(r)
  BY <1>2, <1>3, <1>4 DEF WhyOf
<1>6. HandedOf(r)' = HandedOf(r)
  BY <1>2 DEF HandedOf
<1>7. QED BY <1>2, <1>4, <1>5, <1>6, ViewLeaves

LEMMA SeenClose ==
  ASSUME CallInv, NEW r \in Requests, Alone(r), BodyConsumed(r) \/ BodyAborted(r)
  PROVE  Call!Close(r) \/ UNCHANGED Call!vars
<1>1. TypeOK
  BY DEF CallInv
<1>2. CloseBody(r)
  BY DEF BodyConsumed, BodyAborted
<1>3. /\ body[r] = "open" /\ body'[r] = "closed" /\ UNCHANGED <<abort, sub, wire, outcome>>
  BY <1>1, <1>2 DEF CloseBody, TypeOK
<1>4. StateOf(r)' = StateOf(r) /\ WhyOf(r)' = WhyOf(r)
  BY <1>3 DEF StateOf, WhyOf
<1>5. CASE outcome[r] = "none"
  <2>1. Still(r)
    BY <1>3, <1>4, <1>5 DEF Still, HandedOf
  <2>2. QED BY <2>1, ViewStutters
<1>6. CASE outcome[r] # "none"
  <2>1. HandedOf(r) = "open" /\ HandedOf(r)' = "closed"
    BY <1>3, <1>6 DEF HandedOf
  <2>2. QED BY <1>3, <1>4, <2>1, ViewCloses
<1>7. QED BY <1>5, <1>6

LEMMA SeenReceived ==
  ASSUME CallInv, NEW r \in Requests, Alone(r), BodyReceived(r)
  PROVE  UNCHANGED Call!vars
<1>1. Still(r)
  BY ReceivedSame DEF Same, Still, StateOf, WhyOf, HandedOf
<1>2. QED BY <1>1, ViewStutters

\* Whatever fires, fires for requests that had not been stopped before, or has
\* no effect.
LEMMA SeenDeadline ==
  ASSUME CallInv, NEW r \in Requests, Alone(r), Deadline(r)
  PROVE  Call!Stop("deadline") \/ UNCHANGED Call!vars
<1>1. TypeOK
  BY DEF CallInv
<1>2. UNCHANGED <<conf, wire, sub, outcome, body>> /\ timer[r]
  BY DEF Deadline
<1>3. CASE abort[r] = "none" /\ ~settled[r]
  <2> DEFINE S == {r}
  <2>1. abort' = [q \in Requests |-> IF q \in S THEN "deadline" ELSE abort[q]]
    BY <1>1, <1>3 DEF Deadline, AbortedWith, TypeOK
  <2>2. S \subseteq Requests /\ \A q \in S : StateOf(q) # "cold" /\ WhyOf(q) = "none"
    BY <1>2, <1>3, CallFacts
  <2> HIDE DEF S
  <2>3. QED BY <1>1, <1>2, <2>1, <2>2, ViewStops
<1>4. CASE ~(abort[r] = "none" /\ ~settled[r])
  <2>1. abort' = abort
    BY <1>1, <1>4 DEF Deadline, AbortedWith, TypeOK
  <2>2. Still(r)
    BY <1>2, <2>1 DEF Still, StateOf, WhyOf, HandedOf
  <2>3. QED BY <2>2, ViewStutters
<1>5. QED BY <1>3, <1>4

LEMMA SeenToken ==
  ASSUME CallInv, NEW r \in Requests, Alone(r), TokenCancel(r)
  PROVE  Call!Stop("user") \/ UNCHANGED Call!vars
<1>1. TypeOK
  BY DEF CallInv
<1>2. UNCHANGED <<conf, wire, sub, outcome, body>> /\ listener[r] = "on"
  BY DEF TokenCancel
<1>3. CASE abort[r] = "none"
  <2> DEFINE S == {r}
  <2>1. abort' = [q \in Requests |-> IF q \in S THEN "user" ELSE abort[q]]
    BY <1>1, <1>3 DEF TokenCancel, AbortedWith, TypeOK
  <2>2. S \subseteq Requests /\ \A q \in S : StateOf(q) # "cold" /\ WhyOf(q) = "none"
    BY <1>2, <1>3, CallFacts
  <2> HIDE DEF S
  <2>3. QED BY <1>1, <1>2, <2>1, <2>2, ViewStops
<1>4. CASE abort[r] # "none"
  <2>1. abort' = abort
    BY <1>1, <1>4 DEF TokenCancel, AbortedWith, TypeOK
  <2>2. Still(r)
    BY <1>2, <2>1 DEF Still, StateOf, WhyOf, HandedOf
  <2>3. QED BY <2>2, ViewStutters
<1>5. QED BY <1>3, <1>4

LEMMA SeenSignal ==
  ASSUME CallInv, NEW s \in Signals, UserAbort(s)
  PROVE  Call!Stop("user")
<1> DEFINE S == {r \in Requests : /\ conf[r].signal = s
                                  /\ conf[r].token = "none" \/ bridge[r]
                                  /\ listener[r] = "on" /\ abort[r] = "none"}
<1>1. TypeOK
  BY DEF CallInv
<1>2. abort' = [q \in Requests |-> IF q \in S THEN "user" ELSE abort[q]]
  BY <1>1 DEF UserAbort, AbortedWith, TypeOK
<1>3. \A q \in S : StateOf(q) # "cold" /\ WhyOf(q) = "none"
  BY CallFacts
<1>4. UNCHANGED <<conf, wire, sub, outcome, body>>
  BY DEF UserAbort
<1>5. S \subseteq Requests
  OBVIOUS
<1> HIDE DEF S
<1>6. QED BY <1>1, <1>2, <1>3, <1>4, <1>5, ViewStops

LEMMA SeenGrace ==
  ASSUME CallInv, GraceElapses
  PROVE  Call!Stop("shutdown")
<1> DEFINE S == {r \in Requests : tracked[r] /\ abort[r] = "none"}
<1>1. TypeOK
  BY DEF CallInv
<1>2. abort' = [q \in Requests |-> IF q \in S THEN "shutdown" ELSE abort[q]]
  BY <1>1 DEF GraceElapses, AbortedWith, TypeOK
<1>3. \A q \in S : StateOf(q) # "cold" /\ WhyOf(q) = "none"
  BY CallFacts
<1>4. UNCHANGED <<conf, wire, sub, outcome, body>>
  BY DEF GraceElapses
<1>5. S \subseteq Requests
  OBVIOUS
<1> HIDE DEF S
<1>6. QED BY <1>1, <1>2, <1>3, <1>4, <1>5, ViewStops

-----------------------------------------------------------------------------
LEMMA CallInit == Init => Call!Init
<1> SUFFICES ASSUME Init PROVE Call!Init
  OBVIOUS
<1>1. ASSUME NEW r \in Requests PROVE conf[r].maxRedirects + 1 \in Nat \ {0}
  BY TypeInit, ConfType
<1>2. [r \in Requests |-> conf[r].maxRedirects + 1] \in [Requests -> Nat \ {0}]
  BY <1>1
<1>3. /\ States = [r \in Requests |-> "cold"]
      /\ Whys = [r \in Requests |-> "none"]
      /\ HandedOut = [r \in Requests |-> "none"]
  BY DEF Init, States, StateOf, Whys, WhyOf, HandedOut, HandedOf
<1>4. {r \in Requests : conf[r].entry = "dispatch" /\ conf[r].timeout} \in SUBSET Requests
  OBVIOUS
<1>5. wire = [r \in Requests |-> 0] /\ outcome = [r \in Requests |-> "none"]
  BY DEF Init
<1>6. QED BY <1>2, <1>3, <1>4, <1>5, Zenon
  DEF Call!Init, States, StateOf, Whys, WhyOf, HandedOut, HandedOf

\* Every step of executeRequest is a step of the call, or the call stutters.
LEMMA CallStep ==
  ASSUME CallInv, TypeOK', [Next]_vars
  PROVE  Call!Next \/ UNCHANGED Call!vars
<1>1. TypeOK
  BY DEF CallInv
<1>2. ASSUME NEW r \in Requests, StepOf(r)
      PROVE  Call!Next \/ UNCHANGED Call!vars
  <2>1. Alone(r)
    BY <1>1, <1>2, SeenAlone
  <2>2. \/ Call!Start(r) \/ Call!Refuse(r) \/ Call!SendAgain(r) \/ Call!Answer(r)
        \/ Call!Leave(r) \/ Call!Close(r)
        \/ Call!Stop("deadline") \/ Call!Stop("user")
        \/ UNCHANGED Call!vars
    BY <1>2, <2>1, SeenSubscribe, SeenNothing, SeenFailure, SeenResponse, SeenHop,
       SeenLeave, SeenClose, SeenReceived, SeenDeadline, SeenToken, Zenon DEF StepOf, Handlers
  <2>3. QED BY <2>2, Zenon DEF Call!Next
<1>3. ASSUME NEW s \in Signals, UserAbort(s)
      PROVE  Call!Next
  BY <1>3, SeenSignal, Zenon DEF Call!Next
<1>4. CASE GraceElapses
  BY <1>4, SeenGrace, Zenon DEF Call!Next
<1>5. CASE UNCHANGED vars
  BY <1>5, Zenon DEF vars, Call!vars
<1>6. QED
  BY <1>2, <1>3, <1>4, <1>5 DEF Next, StepOf

\* executeRequest keeps what CancellableCall promises a subscriber, but for the
\* promise that an answer comes: it is told at most once and honestly, nothing
\* is sent after a stop, and a stream is handed out with its answer only.
THEOREM CallImplemented == Spec => Call!Spec
<1>1. Init => Call!Init
  BY CallInit
<1>2. Init => \A r \in Requests : LocalShape(r)
  BY LocalInit
<1>3. CallInv /\ [Next]_vars => (\A r \in Requests : LocalShape(r))'
  BY LocalStep
<1>4. TypeOK /\ IInv /\ (\A r \in Requests : LocalShape(r)) => CallInv
  BY DEF CallInv
<1>5. CallInv /\ TypeOK' /\ [Next]_vars => [Call!Next]_(Call!vars)
  BY CallStep
<1>6. QED BY <1>1, <1>2, <1>3, <1>4, <1>5, TypeCorrect, Invariant, PTL DEF Spec, Call!Spec
=============================================================================
