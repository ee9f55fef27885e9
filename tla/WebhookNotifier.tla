-------------------------- MODULE WebhookNotifier ---------------------------
(***************************************************************************)
(* SendNotification (src/pkg/notification/webhook_site.go): the calls of   *)
(* the processor's goroutines, which share one rate limiter, each with its *)
(* tries, their backoff and the receiver's answers.  A request that the    *)
(* client gives up may still be on its way and reach the receiver later.   *)
(*                                                                         *)
(* Time is not modelled: the limiter gains a token, a backoff ends and a   *)
(* request times out whenever they may.  The order in which the limiter    *)
(* serves its waiters is left open.                                        *)
(***************************************************************************)
EXTENDS Integers

CONSTANTS
    Calls,
    ConfiguredRetries,   \* MAX_RETRIES
    RateLimitPerSecond,  \* only whether it is zero matters
    RateLimitBurst,
    HttpTimeoutSeconds   \* only whether it is zero, that is none, matters

ASSUME NotifierAssumption ==
    /\ ConfiguredRetries \in Int
    /\ RateLimitPerSecond \in Nat
    /\ RateLimitBurst \in Nat
    /\ HttpTimeoutSeconds \in Nat

\* A negative number of retries is none.
MaxRetries == IF ConfiguredRetries < 0 THEN 0 ELSE ConfiguredRetries

Tries   == 0..MaxRetries
Answers == {"accepted",     \* 2xx with the acknowledgement
            "undecodable",  \* 2xx with anything else, or cut short
            "busy",         \* 408, 429 or 5xx
            "refused"}      \* any other status

VARIABLES
    pc,         \* of each call: at the limiter to "wait", in "do", in "backoff", or ended
    attempt,    \* of each call
    post,       \* of each try: "none", on the "wire", or the receiver's answer
    tokens,     \* of the limiter
    cancelled,  \* the context of the processor's run
    \* The history, for the properties only:
    gaveUp,     \* the tries of each call whose answer the client did not wait for
    requests,   \* how many requests have been sent
    refills     \* how many tokens the limiter has gained

vars == <<pc, attempt, post, tokens, cancelled, gaveUp, requests, refills>>

Ended == {"ok", "error"}

TypeOK ==
    /\ pc \in [Calls -> {"wait", "do", "backoff"} \cup Ended]
    /\ attempt \in [Calls -> Tries]
    /\ post \in [Calls -> [Tries -> Answers \cup {"none", "wire"}]]
    /\ tokens \in 0..RateLimitBurst
    /\ cancelled \in BOOLEAN
    /\ gaveUp \in [Calls -> SUBSET Tries]
    /\ requests \in Nat
    /\ refills \in Nat

Init ==
    /\ pc = [c \in Calls |-> "wait"]
    /\ attempt = [c \in Calls |-> 0]
    /\ post = [c \in Calls |-> [n \in Tries |-> "none"]]
    /\ tokens = RateLimitBurst
    /\ cancelled = FALSE
    /\ gaveUp = [c \in Calls |-> {}]
    /\ requests = 0
    /\ refills = 0

-----------------------------------------------------------------------------
Goto(c, s) == pc' = [pc EXCEPT ![c] = s]

\* A slip for a mutation run: only the first try asks the limiter.
PostUnpaced(c) ==
    /\ pc[c] = "wait"
    /\ attempt[c] > 0 \/ (~cancelled /\ tokens > 0)
    /\ tokens' = IF attempt[c] > 0 THEN tokens ELSE tokens - 1
    /\ post' = [post EXCEPT ![c][attempt[c]] = "wire"]
    /\ requests' = requests + 1
    /\ Goto(c, "do")
    /\ UNCHANGED <<attempt, cancelled, gaveUp, refills>>

\* The limiter grants a token and the request is sent.
Post(c) ==
    /\ pc[c] = "wait"
    /\ ~cancelled
    /\ tokens > 0
    /\ tokens' = tokens - 1
    /\ post' = [post EXCEPT ![c][attempt[c]] = "wire"]
    /\ requests' = requests + 1
    /\ Goto(c, "do")
    /\ UNCHANGED <<attempt, cancelled, gaveUp, refills>>

\* A slip for a mutation run: the wait goes on though the run is stopped.
WaitGoesOn(c) ==
    /\ pc[c] = "wait"
    /\ RateLimitBurst = 0
    /\ Goto(c, "error")
    /\ UNCHANGED <<attempt, post, tokens, cancelled, gaveUp, requests, refills>>

\* The limiter's Wait fails for a cancelled context or without a burst.
WaitFails(c) ==
    /\ pc[c] = "wait"
    /\ cancelled \/ RateLimitBurst = 0
    /\ Goto(c, "error")
    /\ UNCHANGED <<attempt, post, tokens, cancelled, gaveUp, requests, refills>>

\* The answer to the last try, when the client still waits for it.
Answer(c) == IF pc[c] = "do" THEN post[c][attempt[c]] ELSE "none"

\* Slips for mutation runs: a request without an answer, or none at all, is
\* taken for accepted.
AcceptedUnseen(c) ==
    /\ Answer(c) \in {"accepted", "wire"}
    /\ Goto(c, "ok")
    /\ UNCHANGED <<attempt, post, tokens, cancelled, gaveUp, requests, refills>>

AcceptedDropped(c) ==
    /\ Answer(c) = "accepted"
    /\ Goto(c, "error")
    /\ UNCHANGED <<attempt, post, tokens, cancelled, gaveUp, requests, refills>>

Accepted(c) ==
    /\ Answer(c) = "accepted"
    /\ Goto(c, "ok")
    /\ UNCHANGED <<attempt, post, tokens, cancelled, gaveUp, requests, refills>>

\* An answer that is not repeated is an error, and so is a 2xx whose body is
\* not the acknowledgement.
Refused(c) ==
    /\ Answer(c) \in {"refused", "undecodable"}
    /\ Goto(c, "error")
    /\ UNCHANGED <<attempt, post, tokens, cancelled, gaveUp, requests, refills>>

\* To the next iteration of the loop, or out of it.
Retry(c) ==
    \/ /\ attempt[c] < MaxRetries
       /\ attempt' = [attempt EXCEPT ![c] = @ + 1]
       /\ Goto(c, "backoff")
    \/ /\ attempt[c] = MaxRetries
       /\ Goto(c, "error")
       /\ UNCHANGED attempt

\* A slip for a mutation run: every status is retried.
RetryAnyStatus(c) ==
    /\ Answer(c) \in {"busy", "refused"}
    /\ Retry(c)
    /\ UNCHANGED <<post, tokens, cancelled, gaveUp, requests, refills>>

RetryStatus(c) ==
    /\ Answer(c) = "busy"
    /\ Retry(c)
    /\ UNCHANGED <<post, tokens, cancelled, gaveUp, requests, refills>>

\* Do returns an error: no connection, a timeout, or the context cancelled.
\* Every one of them is retried, and the request may be on its way for good.
RequestFails(c) ==
    /\ pc[c] = "do"
    /\ Retry(c)
    /\ gaveUp' = [gaveUp EXCEPT ![c] = @ \cup {attempt[c]}]
    /\ UNCHANGED <<post, tokens, cancelled, requests, refills>>

\* The select between the timer and the context, which may take either when
\* both are ready.
Backoff(c) ==
    /\ pc[c] = "backoff"
    /\ \/ Goto(c, "wait")
       \/ (cancelled /\ Goto(c, "error"))
    /\ UNCHANGED <<attempt, post, tokens, cancelled, gaveUp, requests, refills>>

Step(c) ==
    \/ Post(c) \/ WaitFails(c)
    \/ Accepted(c) \/ Refused(c) \/ RetryStatus(c)
    \/ Backoff(c)

-----------------------------------------------------------------------------
\* The receiver gets a request and answers it.
Receive(c, n) ==
    /\ post[c][n] = "wire"
    /\ \E a \in Answers : post' = [post EXCEPT ![c][n] = a]
    /\ UNCHANGED <<pc, attempt, tokens, cancelled, gaveUp, requests, refills>>

Refill ==
    /\ RateLimitPerSecond > 0
    /\ tokens < RateLimitBurst
    /\ tokens' = tokens + 1
    /\ refills' = refills + 1
    /\ UNCHANGED <<pc, attempt, post, cancelled, gaveUp, requests>>

\* The processor's run is stopped.
Cancel ==
    /\ ~cancelled
    /\ cancelled' = TRUE
    /\ UNCHANGED <<pc, attempt, post, tokens, gaveUp, requests, refills>>

AllEnded == \A c \in Calls : pc[c] \in Ended

Next ==
    \/ \E c \in Calls :
          \/ Step(c) \/ RequestFails(c)
          \/ \E n \in Tries : Receive(c, n)
    \/ Refill
    \/ Cancel
    \/ AllEnded /\ UNCHANGED vars

Spec == Init /\ [][Next]_vars

\* The receiver need not answer: the client's timeout ends its wait.  Each
\* call needs finitely many tokens, so that every one gets its share.
Fairness ==
    /\ WF_vars(Refill)
    /\ \A c \in Calls : WF_vars(Step(c))
    /\ HttpTimeoutSeconds > 0 => \A c \in Calls : WF_vars(RequestFails(c))

FairSpec == Spec /\ Fairness

-----------------------------------------------------------------------------
\* A message is posted again only when the receiver has asked for it or its
\* answer was not waited for: never after a final answer that was read
\* (webhook_site.go:77-89).
RepeatedOnlyWhenUnanswered ==
    \A c \in Calls, n \in Tries :
        n < attempt[c] => post[c][n] = "busy" \/ n \in gaveUp[c]

\* A call whose message was accepted succeeds, unless the client had given up
\* the try that was (webhook_site.go:77-83).
AcceptanceCounts ==
    \A c \in Calls, n \in Tries :
        post[c][n] = "accepted" /\ pc[c] # "ok"
            => n \in gaveUp[c] \/ (pc[c] = "do" /\ n = attempt[c])

\* The requests of all the calls, repeated ones included, are paced by the one
\* limiter (webhook_site.go:53-55).
Paced == requests <= RateLimitBurst + refills

\* Every call ends: answers may be missing, but tries, backoffs and waits are
\* bounded (webhook_site.go:40-92).
EveryCallEnds == \A c \in Calls : pc[c] = "wait" ~> pc[c] \in Ended

Outcome == [c \in Calls |-> IF pc[c] \in Ended THEN pc[c] ELSE "open"]
Seen    == [c \in Calls |-> {n \in Tries : post[c][n] \in Answers}]

Promise == INSTANCE Notification
             WITH Call <- Calls, Try <- Tries, outcome <- Outcome, seen <- Seen

\* The notifier implements the promise of Notification, which is what Delivery
\* assumes of the call.
ImplementsNotification == Promise!Spec

-----------------------------------------------------------------------------
(***************************************************************************)
(* What makes the invariants inductive.                                    *)
(***************************************************************************)

\* The tries that have been sent are those up to the current one.
SentSoFar ==
    \A c \in Calls, n \in Tries :
        /\ n > attempt[c] => post[c][n] = "none"
        /\ pc[c] \in {"wait", "backoff"} /\ n = attempt[c] => post[c][n] = "none"
        /\ n = attempt[c] /\ n \in gaveUp[c] => pc[c] = "error"
        /\ n \in gaveUp[c] => n <= attempt[c]

\* A request without an answer is waited for or has been given up.
WaitedOrGivenUp ==
    \A c \in Calls, n \in Tries :
        post[c][n] = "wire" => n \in gaveUp[c] \/ (pc[c] = "do" /\ n = attempt[c])

\* A call that has ended well has been accepted.
OkIsAccepted ==
    \A c \in Calls : pc[c] = "ok" => post[c][attempt[c]] = "accepted"

\* A token is spent for each request.
TokensSpent == requests + tokens = RateLimitBurst + refills

NInv ==
    /\ TypeOK
    /\ SentSoFar
    /\ WaitedOrGivenUp
    /\ OkIsAccepted
    /\ RepeatedOnlyWhenUnanswered
    /\ AcceptanceCounts
    /\ TokensSpent
=============================================================================
