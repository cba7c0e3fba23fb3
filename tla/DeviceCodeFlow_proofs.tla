----------------------- MODULE DeviceCodeFlow_proofs -----------------------
(***************************************************************************)
(* Proofs about DeviceCodeFlow, for every interval, lifetime, timeout and  *)
(* delay.  Each property needs to know what the clock can have done since  *)
(* the step before: the parts of IInv follow the program around its loop.  *)
(***************************************************************************)
EXTENDS DeviceCodeFlow, TLAPS

Polling == pc \in {"check", "sleep", "post"}

\* What the clock has done since the program came to where it stands.
Clock ==
    /\ pc = "request" => since <= now /\ now <= since + Timeout
    /\ pc = "sleep" => now <= until + Lag /\ until <= now + interval /\ until < deadline + interval
    /\ pc = "post" => since <= now /\ now <= since + Timeout /\ since <= until + Lag
                      /\ until < deadline + interval

\* The sleep in front of a poll starts no earlier than the poll before.
Paced ==
    /\ Polling => interval >= 1
    /\ pc = "check" => polledAt <= now
    /\ pc = "sleep" => polledAt + interval <= until
    /\ pc = "post" => polledAt <= now
    /\ pc = "post" /\ answer = "none" => polledAt + interval <= now

\* The time that the requests which never arrived have cost.
Lateness == missed * Round

\* How far an approval that has not been answered to can lie back.
Pending ==
    approval = "yes" /\ ~granted =>
        \/ expiry <= approvedAt + Lateness + Round + Timeout
        \/ pc = "check" /\ now <= approvedAt + Lateness + Timeout
        \/ pc = "sleep" /\ until <= approvedAt + Lateness + Timeout + interval
        \/ pc = "post" /\ answer = "none" /\ since <= approvedAt + Lateness + Round
        \/ pc = "post" /\ answer = "pending" /\ since <= approvedAt
        \/ pc = "done" /\ status = "ok"

\* ApprovalIsNoticed in terms of that time.
Noticed ==
    status = "failed" /\ approval = "yes" =>
        granted \/ expiry <= approvedAt + Lateness + Round + Timeout

\* What the program and the server agree on.
Agreed ==
    /\ pc \in {"start", "request"} => approval = "no" /\ ~granted /\ status = "unknown"
    /\ Polling => expiry <= deadline
    /\ Polling => status = "unknown"
    /\ approval = "yes" => approvedAt <= now
    /\ pc = "post" /\ answer = "error" => granted \/ expiry <= now \/ approval = "denied"
    /\ pc = "post" /\ answer = "token" => granted

IInv ==
    /\ TypeOK
    /\ Clock
    /\ Paced
    /\ Pending
    /\ Agreed
    /\ EndsByDeadline
    /\ NeverTooFast
    /\ Noticed

USE DEF Polling, loop, user

LEMMA InitIInv == Init => IInv
<1> SUFFICES ASSUME Init PROVE IInv
  OBVIOUS
<1>1. TypeOK
  <2>1. interval \in Nat /\ polledAt \in Int
    BY DeviceTiming DEF Init
  <2>2. granted \in BOOLEAN
    BY DEF Init
  <2>3. {now, interval, deadline, until, since, expiry, approvedAt, missed} \subseteq Nat
    BY <2>1 DEF Init
  <2> QED
    BY <2>1, <2>2, <2>3 DEF Init, TypeOK
<1>2. Clock /\ Paced /\ EndsByDeadline /\ NeverTooFast
  BY DEF Init, Clock, Paced, EndsByDeadline, NeverTooFast
<1>3. Pending /\ Agreed /\ Noticed
  BY DEF Init, Pending, Agreed, Noticed
<1> QED
  BY <1>1, <1>2, <1>3 DEF IInv

\* What the requests that never arrived have cost is a product; these are the
\* facts about it that the steps need.
LEMMA LatenessGrows ==
    ASSUME TypeOK
    PROVE  /\ Lateness \in Nat
           /\ (missed + 1) * Round = Lateness + Round
           /\ missed' = missed + 1 /\ interval' = interval => Lateness' = Lateness + Round
           /\ missed' = missed /\ interval' = interval => Lateness' = Lateness
<1>1. missed \in Nat /\ Round \in Nat
  BY DeviceTiming DEF TypeOK, Round
<1>2. \A m, r \in Nat : m * r \in Nat /\ (m + 1) * r = m * r + r
  OBVIOUS
<1>3. missed * Round \in Nat /\ (missed + 1) * Round = missed * Round + Round
  BY <1>1, <1>2
<1>4. interval' = interval => Round' = Round
  BY DEF Round
<1> QED
  BY <1>1, <1>3, <1>4 DEF Lateness

LEMMA NextIInv == IInv /\ [Next]_vars => IInv'
<1> SUFFICES ASSUME IInv, [Next]_vars PROVE IInv'
  OBVIOUS
<1>0. /\ Lateness \in Nat
      /\ missed' = missed + 1 /\ interval' = interval => Lateness' = Lateness + Round
      /\ missed' = missed /\ interval' = interval => Lateness' = Lateness
  BY LatenessGrows DEF IInv
<1> USE DeviceTiming, <1>0 DEF IInv, TypeOK, Clock, Paced, Pending, Agreed,
            EndsByDeadline, NeverTooFast, Noticed, Round, server
<1>1. CASE Refuse
  BY <1>1 DEF Refuse, Return
<1>2. CASE RequestCode
  BY <1>2 DEF RequestCode
<1>3. CASE GotCode
  BY <1>3 DEF GotCode
<1>4. CASE NoCode
  BY <1>4 DEF NoCode, Return
<1>5. CASE Check
  BY <1>5 DEF Check, Return
<1>6. CASE Post
  BY <1>6 DEF Post
<1>7. CASE Serve
  <2>1. ServerAnswer # "slow_down"
    BY <1>7 DEF Serve, ServerAnswer
  <2>2. TypeOK' /\ Clock' /\ Paced' /\ EndsByDeadline' /\ NeverTooFast'
    BY <1>7, <2>1 DEF Serve, ServerAnswer
  <2>3. Agreed' /\ Noticed'
    BY <1>7 DEF Serve, ServerAnswer
  <2>4. Pending'
    <3>1. SUFFICES ASSUME approval = "yes", ~granted, ServerAnswer # "token"
                   PROVE  expiry <= approvedAt + Lateness + Round + Timeout
      BY <1>7 DEF Serve
    <3>2. expiry <= now /\ pc = "post" /\ answer = "none"
      BY <1>7, <2>1, <3>1 DEF Serve, ServerAnswer
    <3> QED
      BY <3>1, <3>2
  <2> QED
    BY <2>2, <2>3, <2>4
<1>8. CASE Receive
  BY <1>8 DEF Receive, Return
<1>9. CASE Lost
  <2>1. CASE answer = "none" /\ approval = "yes" /\ approvedAt <= since
    BY <1>9, <2>1 DEF Lost
  <2>2. CASE ~(answer = "none" /\ approval = "yes" /\ approvedAt <= since)
    BY <1>9, <2>2 DEF Lost
  <2> QED
    BY <2>1, <2>2
<1>10. CASE Tick
  BY <1>10 DEF Tick
<1>11. CASE Decide
  BY <1>11 DEF Decide
<1>12. CASE UNCHANGED vars
  BY <1>12 DEF vars
<1> QED
  BY <1>1, <1>2, <1>3, <1>4, <1>5, <1>6, <1>7, <1>8, <1>9, <1>10, <1>11, <1>12
     DEF Next, Program

LEMMA AlwaysIInv == Spec => []IInv
BY InitIInv, NextIInv, PTL DEF Spec

\* The program keeps to the shapes its variables are declared with, whatever the
\* intervals, lifetimes and delays.
THEOREM DeviceTypeOK == Spec => []TypeOK
<1>1. IInv => TypeOK
  BY DEF IInv
<1> QED
  BY <1>1, AlwaysIInv, PTL

\* AuthenticateForToken never polls the server faster than it asked for.
THEOREM DeviceNeverTooFast == Spec => []NeverTooFast
<1>1. IInv => NeverTooFast
  BY DEF IInv
<1> QED
  BY <1>1, AlwaysIInv, PTL

\* The polling loop is over one round after its deadline.
THEOREM DeviceEndsByDeadline == Spec => []EndsByDeadline
<1>1. IInv => EndsByDeadline
  BY DEF IInv
<1> QED
  BY <1>1, AlwaysIInv, PTL

\* A sign-in that was approved while there was time for the requests that never
\* arrived and for one more round fails only when the token was given away and its
\* answer lost.
THEOREM DeviceApprovalIsNoticed == Spec => []ApprovalIsNoticed
<1>1. IInv => ApprovalIsNoticed
  <2> SUFFICES ASSUME IInv PROVE ApprovalIsNoticed
    OBVIOUS
  <2>1. (missed + 1) * Round = Lateness + Round
    BY LatenessGrows DEF IInv
  <2>2. approvedAt \in Nat /\ Lateness \in Nat /\ Round \in Nat
    BY LatenessGrows, DeviceTiming DEF IInv, TypeOK, Round
  <2>3. Noticed
    BY DEF IInv
  <2> QED
    BY <2>1, <2>2, <2>3, DeviceTiming DEF Noticed, ApprovalIsNoticed
<1> QED
  BY <1>1, AlwaysIInv, PTL
=============================================================================
