--------------------------- MODULE DeviceCodeFlow ---------------------------
(***************************************************************************)
(* Signing in with a device code (AuthenticateForToken): the program gets  *)
(* a code from the server, shows it to the user, and polls the server for  *)
(* a token until one arrives, the server refuses, or the code's lifetime   *)
(* is over.  Time passes only while the program sleeps or waits for an     *)
(* answer.  The server and the user are external: a server hands out one   *)
(* token per code, after the user has approved and before the code         *)
(* expires, and complains about a client that polls faster than it said.   *)
(* A request reaches the server while the program waits for the answer, or *)
(* never; an answer reaches the program, or not.                           *)
(***************************************************************************)
EXTENDS Integers

CONSTANTS
    Intervals,          \* what the server may ask for, in units of time
    Lifetimes,
    DefaultInterval,    \* 5 s and 900 s in the code
    DefaultLifetime,
    Timeout,            \* CURLOPT_TIMEOUT, 30 s in the code
    Lag                 \* how much longer than asked a sleep may take

ASSUME DeviceTiming ==
    /\ Intervals \subseteq Nat \ {0} /\ DefaultInterval \in Nat \ {0}
    /\ Lifetimes \subseteq Nat /\ DefaultLifetime \in Nat
    /\ Timeout \in Nat /\ Lag \in Nat

VARIABLES
    now,
    pc,         \* where AuthenticateForToken stands
    interval,
    deadline,   \* of the program
    until,      \* the end of the current sleep
    since,      \* the start of the current request
    answer,     \* what the server answers to it, "none" until it has got it
    status,
    expiry,     \* of the code, by the server's clock
    polledAt,   \* when the server was last asked for the token
    approval, approvedAt,
    granted,    \* the server has given the token away
    missed      \* requests sent since the approval that never reached the server

vars == <<now, pc, interval, deadline, until, since, answer, status,
          expiry, polledAt, approval, approvedAt, granted, missed>>
loop == <<interval, deadline, expiry>>
user == <<approval, approvedAt>>
server == <<answer, polledAt, granted>>

TypeOK ==
    /\ {now, interval, deadline, until, since, expiry, approvedAt, missed} \subseteq Nat
    /\ polledAt \in Int
    /\ pc \in {"start", "request", "check", "sleep", "post", "done"}
    /\ answer \in {"none", "pending", "token", "slow_down", "error"}
    /\ status \in {"unknown", "ok", "failed"}
    /\ approval \in {"no", "yes", "denied"}
    /\ granted \in BOOLEAN

Init ==
    /\ now = 0 /\ pc = "start" /\ status = "unknown"
    /\ interval = DefaultInterval /\ deadline = 0 /\ expiry = 0
    /\ until = 0 /\ since = 0 /\ answer = "none"
    /\ polledAt = 0 - DefaultInterval
    /\ approval = "no" /\ approvedAt = 0 /\ granted = FALSE /\ missed = 0

Return(s) == pc' = "done" /\ status' = s

\* Silent mode, or no information to authenticate with.
Refuse ==
    /\ pc = "start"
    /\ Return("failed")
    /\ UNCHANGED <<now, loop, until, since, server, user, missed>>

RequestCode ==
    /\ pc = "start"
    /\ pc' = "request" /\ since' = now
    /\ UNCHANGED <<now, loop, until, server, status, user, missed>>

\* The lifetime starts for the server when it makes the code, some time during
\* the request, for the program when it has read the answer.
GotCode ==
    /\ pc = "request"
    /\ \E i \in Intervals \cup {DefaultInterval}, l \in Lifetimes \cup {DefaultLifetime} :
          /\ interval' = i
          /\ deadline' = now + l
          /\ \E made \in since .. now : expiry' = made + l
          /\ polledAt' = since - i
    /\ pc' = "check"
    /\ UNCHANGED <<now, until, since, answer, status, user, granted, missed>>

NoCode ==
    /\ pc = "request"
    /\ Return("failed")
    /\ UNCHANGED <<now, loop, until, since, server, user, missed>>

Check_Bug ==    \* the first poll of a round is not preceded by a sleep
    /\ pc = "check"
    /\ IF now < deadline
       THEN pc' = "sleep" /\ until' = now /\ UNCHANGED status
       ELSE Return("failed") /\ UNCHANGED until
    /\ UNCHANGED <<now, loop, since, server, user, missed>>

Check_Bug2 ==   \* the deadline is not looked at
    /\ pc = "check"
    /\ pc' = "sleep" /\ until' = now + interval
    /\ UNCHANGED <<now, loop, since, server, status, user, missed>>

Check ==
    /\ pc = "check"
    /\ IF now < deadline
       THEN pc' = "sleep" /\ until' = now + interval /\ UNCHANGED status
       ELSE Return("failed") /\ UNCHANGED until
    /\ UNCHANGED <<now, loop, since, server, user, missed>>

Post_Bug ==     \* misses the end of a sleep that took longer
    /\ pc = "sleep" /\ until = now
    /\ pc' = "post" /\ since' = now /\ answer' = "none"
    /\ UNCHANGED <<now, loop, until, status, polledAt, user, granted, missed>>

\* The request for the token is sent.
Post ==
    /\ pc = "sleep" /\ until <= now
    /\ pc' = "post" /\ since' = now /\ answer' = "none"
    /\ UNCHANGED <<now, loop, until, status, polledAt, user, granted, missed>>

ServerAnswer ==
    IF granted \/ expiry <= now \/ approval = "denied" THEN "error"
    ELSE IF now < polledAt + interval THEN "slow_down"
    ELSE IF approval = "yes" THEN "token" ELSE "pending"

\* It reaches the server, which answers as things stand by then.
Serve ==
    /\ pc = "post" /\ answer = "none"
    /\ answer' = ServerAnswer
    /\ granted' = (granted \/ ServerAnswer = "token")
    /\ polledAt' = now
    /\ UNCHANGED <<now, pc, loop, until, since, status, user, missed>>

Receive_Bug ==      \* anything but a token ends the loop
    /\ pc = "post" /\ answer # "none"
    /\ IF answer = "token" THEN Return("ok") ELSE Return("failed")
    /\ UNCHANGED <<now, loop, until, since, server, user, missed>>

Receive ==
    /\ pc = "post" /\ answer # "none"
    /\ IF answer = "token" THEN Return("ok")
       ELSE IF answer = "pending" THEN pc' = "check" /\ UNCHANGED status
       ELSE Return("failed")
    /\ UNCHANGED <<now, loop, until, since, server, user, missed>>

\* A timeout, an error of the connection, or text that is not JSON: HttpPostForm
\* returns the same whether the request or the answer got lost.
Lost ==
    /\ pc = "post"
    /\ pc' = "check"
    /\ missed' = IF answer = "none" /\ approval = "yes" /\ approvedAt <= since
                 THEN missed + 1 ELSE missed
    /\ UNCHANGED <<now, loop, until, since, server, status, user>>

Tick ==
    /\ \/ pc = "sleep" /\ now < until + Lag
       \/ pc \in {"request", "post"} /\ now < since + Timeout
    /\ now' = now + 1
    /\ UNCHANGED <<pc, loop, until, since, server, status, user, missed>>

Decide ==
    /\ approval = "no" /\ pc \notin {"start", "request", "done"}
    /\ approval' \in {"yes", "denied"} /\ approvedAt' = now
    /\ UNCHANGED <<now, pc, loop, until, since, server, status, missed>>

Program == RequestCode \/ GotCode \/ NoCode \/ Check \/ Post \/ Receive \/ Lost
Next == Refuse \/ Program \/ Serve \/ Tick \/ Decide

Spec == Init /\ [][Next]_vars

\* The program is scheduled, time passes, and curl gives up at its timeout.
\* Nothing makes the server answer.
Fairness == WF_vars(Program) /\ WF_vars(Tick)

-----------------------------------------------------------------------------
(* Properties *)

\* The server is never polled faster than it asked for, whatever was lost in
\* between: a slow_down would end the loop as if it were a refusal (the sleep
\* comes before every poll).
NeverTooFast == answer # "slow_down"

\* The loop is over at the latest one interval and one request after the
\* deadline, however late its sleeps end.
EndsByDeadline ==
    pc \in {"check", "sleep", "post"} => now < deadline + interval + Lag + Timeout

\* A request that was sent in vain costs at most one round: the wait for its
\* answer, and the sleep that follows.
Round == Timeout + interval + Lag

\* An approval that leaves time for the rounds of the requests that never reached
\* the server, and for one more, is noticed, whatever answers were lost before: a
\* sign-in fails after it only if the server gave the token away and that very
\* answer did not arrive.
ApprovalIsNoticed ==
    status = "failed" /\ approval = "yes" =>
        granted \/ expiry <= approvedAt + (missed + 1) * Round + Timeout

\* The sign-in ends.
SignInEnds == (pc # "start") ~> (pc = "done")
=============================================================================
