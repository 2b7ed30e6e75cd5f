---------------------------- MODULE CancellableCall ----------------------------
(***************************************************************************)
(* What a subscriber may rely on, whatever transport is underneath: a call *)
(* that can be stopped. It is answered at most once, says why it was       *)
(* stopped, sends nothing after that, and is certain to be answered if it  *)
(* was stopped or has a deadline. A stream it hands out outlives it.       *)
(***************************************************************************)
EXTENDS Naturals

CONSTANT Calls

VARIABLES
  limit,   \* how often the call may be sent (fixed)
  timed,   \* the calls that have a deadline (fixed)
  state,   \* "cold", "live", "told" (answered) or "left" (abandoned)
  why,     \* why the call was stopped, or "none"
  sent,    \* how often the call was sent
  answer,  \* what the subscriber was told
  handed   \* the stream handed out: "none", "open" or "closed"

vars == <<limit, timed, state, why, sent, answer, handed>>

Reasons == {"user", "deadline", "unsubscribe", "shutdown"}
Answers == {"response", "canceled", "timeout", "error"}

\* The answers that do not misreport the reason the call was stopped for.
Honest(reason) ==
  CASE reason = "user" -> Answers
    [] reason = "deadline" -> {"timeout", "response"}
    [] OTHER -> Answers \ {"canceled"}

Init ==
  /\ limit \in [Calls -> Nat \ {0}]
  /\ timed \in SUBSET Calls
  /\ state = [c \in Calls |-> "cold"]
  /\ why = [c \in Calls |-> "none"]
  /\ sent = [c \in Calls |-> 0]
  /\ answer = [c \in Calls |-> "none"]
  /\ handed = [c \in Calls |-> "none"]

\* Subscribed: sent, unless it had been cancelled beforehand or needs no sending.
Start(c) ==
  /\ state[c] = "cold"
  /\ state' = [state EXCEPT ![c] = "live"]
  /\ \/ sent' = [sent EXCEPT ![c] = 1] /\ UNCHANGED why
     \/ sent' = sent /\ why' \in {why, [why EXCEPT ![c] = "user"]}
  /\ UNCHANGED <<limit, timed, answer, handed>>

\* Refused on the spot.
Refuse(c) ==
  /\ state[c] = "cold"
  /\ state' = [state EXCEPT ![c] = "told"]
  /\ answer' = [answer EXCEPT ![c] = "error"]
  /\ why' \in {why, [why EXCEPT ![c] = "user"]}
  /\ UNCHANGED <<limit, timed, sent, handed>>

SendAgain(c) ==
  /\ state[c] = "live"
  /\ why[c] = "none"
  /\ sent[c] < limit[c]
  /\ sent' = [sent EXCEPT ![c] = @ + 1]
  /\ UNCHANGED <<limit, timed, state, why, answer, handed>>

Answer(c) ==
  /\ state[c] = "live"
  /\ state' = [state EXCEPT ![c] = "told"]
  /\ \E a \in Honest(why[c]) : answer' = [answer EXCEPT ![c] = a]
  /\ \E h \in {"none", "open"} : handed' = [handed EXCEPT ![c] = h]
  /\ UNCHANGED <<limit, timed, why, sent>>

\* Any number of calls stopped at once: one signal may be behind many of them.
\* A call that has been given up on may still have its deadline run out.
Stop(reason) ==
  /\ \E S \in SUBSET {c \in Calls : state[c] # "cold" /\ why[c] = "none"} :
       why' = [c \in Calls |-> IF c \in S THEN reason ELSE why[c]]
  /\ UNCHANGED <<limit, timed, state, sent, answer, handed>>

Leave(c) ==
  /\ state[c] = "live"
  /\ state' = [state EXCEPT ![c] = "left"]
  /\ why' = [why EXCEPT ![c] = IF @ = "none" THEN "unsubscribe" ELSE @]
  /\ UNCHANGED <<limit, timed, sent, answer, handed>>

Close(c) ==
  /\ handed[c] = "open"
  /\ handed' = [handed EXCEPT ![c] = "closed"]
  /\ UNCHANGED <<limit, timed, state, why, sent, answer>>

Next ==
  \/ \E c \in Calls :
       Start(c) \/ Refuse(c) \/ SendAgain(c) \/ Answer(c) \/ Leave(c) \/ Close(c)
  \/ \E reason \in {"user", "deadline", "shutdown"} : Stop(reason)

Spec == Init /\ [][Next]_vars

\* A call with a deadline, or one that was stopped, does not stay unanswered.
Fairness ==
  \A c \in Calls :
    WF_vars((c \in timed \/ why[c] # "none") /\ (Answer(c) \/ Leave(c)))

FairSpec == Spec /\ Fairness
=============================================================================
