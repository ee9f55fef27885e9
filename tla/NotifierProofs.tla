--------------------------- MODULE NotifierProofs ---------------------------
(***************************************************************************)
(* Proofs about WebhookNotifier, for any calls, number of retries, rate    *)
(* and burst: when a message is posted again, what an accepted one counts  *)
(* for, the pace of the requests, and the promise of Notification.         *)
(***************************************************************************)
EXTENDS WebhookNotifier, TLAPS

LEMMA RetriesNat == MaxRetries \in Nat
  BY NotifierAssumption DEF MaxRetries

LEMMA InitNInv == Init => NInv
<1> SUFFICES ASSUME Init PROVE NInv
  OBVIOUS
<1> USE RetriesNat, NotifierAssumption DEF Init, Tries
<1>1. TypeOK
  <2>1. post \in [Calls -> [Tries -> Answers \cup {"none", "wire"}]]
    OBVIOUS
  <2>2. /\ attempt \in [Calls -> Tries]
        /\ pc \in [Calls -> {"wait", "do", "backoff"} \cup Ended]
        /\ gaveUp \in [Calls -> SUBSET Tries]
    OBVIOUS
  <2>3. tokens \in 0..RateLimitBurst
    <3>1. RateLimitBurst \in Nat /\ tokens = RateLimitBurst
      OBVIOUS
    <3> QED
      BY <3>1
  <2>4. requests \in Nat /\ refills \in Nat /\ cancelled \in BOOLEAN
    OBVIOUS
  <2> QED
    BY <2>1, <2>2, <2>3, <2>4 DEF TypeOK
<1>2. SentSoFar /\ WaitedOrGivenUp /\ OkIsAccepted
  BY DEF SentSoFar, WaitedOrGivenUp, OkIsAccepted
<1>3. RepeatedOnlyWhenUnanswered /\ AcceptanceCounts
  BY DEF RepeatedOnlyWhenUnanswered, AcceptanceCounts
<1>4. TokensSpent
  BY DEF TokensSpent
<1> QED
  BY <1>1, <1>2, <1>3, <1>4 DEF NInv

LEMMA PostNInv ==
  ASSUME NInv, NEW c \in Calls, Post(c)
  PROVE  NInv'
<1> USE RetriesNat, NotifierAssumption DEF NInv, Post, Goto, Tries
<1>1. TypeOK'
  BY DEF TypeOK, Ended, Answers
<1>2. SentSoFar' /\ WaitedOrGivenUp'
  BY DEF TypeOK, SentSoFar, WaitedOrGivenUp
<1>3. OkIsAccepted'
  BY DEF TypeOK, OkIsAccepted
<1>4. RepeatedOnlyWhenUnanswered'
  BY DEF TypeOK, RepeatedOnlyWhenUnanswered
<1>5. AcceptanceCounts'
  BY DEF TypeOK, AcceptanceCounts
<1>6. TokensSpent'
  BY DEF TypeOK, TokensSpent
<1> QED
  BY <1>1, <1>2, <1>3, <1>4, <1>5, <1>6

LEMMA WaitFailsNInv ==
  ASSUME NInv, NEW c \in Calls, WaitFails(c)
  PROVE  NInv'
<1> USE RetriesNat DEF NInv, WaitFails, Goto, Tries
<1>1. TypeOK'
  BY DEF TypeOK, Ended
<1>2. SentSoFar' /\ WaitedOrGivenUp' /\ OkIsAccepted'
  BY DEF TypeOK, SentSoFar, WaitedOrGivenUp, OkIsAccepted
<1>3. RepeatedOnlyWhenUnanswered' /\ AcceptanceCounts'
  BY DEF TypeOK, RepeatedOnlyWhenUnanswered, AcceptanceCounts
<1>4. TokensSpent'
  BY DEF TokensSpent
<1> QED
  BY <1>1, <1>2, <1>3, <1>4

LEMMA AnsweredNInv ==
  ASSUME NInv, NEW c \in Calls, Accepted(c) \/ Refused(c)
  PROVE  NInv'
<1> USE RetriesNat DEF NInv, Accepted, Refused, Answer, Goto, Tries
<1>1. TypeOK'
  BY DEF TypeOK, Ended
<1>2. SentSoFar' /\ WaitedOrGivenUp' /\ OkIsAccepted'
  BY DEF TypeOK, SentSoFar, WaitedOrGivenUp, OkIsAccepted
<1>3. RepeatedOnlyWhenUnanswered' /\ AcceptanceCounts'
  BY DEF TypeOK, RepeatedOnlyWhenUnanswered, AcceptanceCounts
<1>4. TokensSpent'
  BY DEF TokensSpent
<1> QED
  BY <1>1, <1>2, <1>3, <1>4

\* A retry, whether the answer asked for it or the client gave the try up.
LEMMA RetryNInv ==
  ASSUME NInv, NEW c \in Calls, RetryStatus(c) \/ RequestFails(c)
  PROVE  NInv'
<1> USE RetriesNat DEF NInv, Tries
<1>0. /\ pc[c] = "do" /\ Retry(c)
      /\ attempt[c] \in Tries
      /\ UNCHANGED <<post, tokens, cancelled, requests, refills>>
  BY DEF RetryStatus, RequestFails, Answer, TypeOK
<1>1. /\ gaveUp' \in [Calls -> SUBSET Tries]
      /\ \A d \in Calls : d # c => gaveUp'[d] = gaveUp[d]
      /\ gaveUp[c] \subseteq gaveUp'[c]
      /\ gaveUp'[c] \subseteq gaveUp[c] \cup {attempt[c]}
      /\ post[c][attempt[c]] = "busy" \/ attempt[c] \in gaveUp'[c]
  <2>1. CASE RetryStatus(c)
    BY <1>0, <2>1 DEF RetryStatus, Answer, TypeOK
  <2>2. CASE RequestFails(c)
    BY <1>0, <2>2 DEF RequestFails, TypeOK
  <2> QED
    BY <2>1, <2>2
<1>2. /\ pc' \in [Calls -> {"wait", "do", "backoff"} \cup Ended]
      /\ attempt' \in [Calls -> Tries]
      /\ \A d \in Calls : d # c => pc'[d] = pc[d] /\ attempt'[d] = attempt[d]
      /\ \/ pc'[c] = "backoff" /\ attempt'[c] = attempt[c] + 1
         \/ pc'[c] = "error" /\ attempt'[c] = attempt[c]
  <2>1. /\ pc \in [Calls -> {"wait", "do", "backoff"} \cup Ended]
        /\ attempt \in [Calls -> Tries]
    BY DEF TypeOK
  <2>2. CASE attempt[c] < MaxRetries /\ attempt' = [attempt EXCEPT ![c] = @ + 1] /\ pc' = [pc EXCEPT ![c] = "backoff"]
    <3>1. attempt[c] + 1 \in Tries
      BY <1>0, <2>2
    <3> QED
      BY <2>1, <2>2, <3>1
  <2>3. CASE attempt' = attempt /\ pc' = [pc EXCEPT ![c] = "error"]
    BY <2>1, <2>3 DEF Ended
  <2> QED
    BY <1>0, <2>2, <2>3 DEF Retry, Goto
<1> HIDE DEF NInv
<1> HIDE DEF Tries
<1>a. /\ \A d \in Calls : attempt[d] \in Nat /\ attempt'[d] \in Nat
      /\ \A n \in Tries : n \in Nat
      /\ \A d \in Calls : gaveUp[d] \subseteq Tries
  BY <1>2 DEF NInv, TypeOK, Tries
<1>3. TypeOK'
  BY <1>0, <1>1, <1>2 DEF NInv, TypeOK
<1>4. SentSoFar'
  BY <1>0, <1>1, <1>2, <1>a DEF NInv, SentSoFar
<1>5. WaitedOrGivenUp' /\ OkIsAccepted'
  <2>1. WaitedOrGivenUp'
    BY <1>0, <1>1, <1>2, <1>a DEF NInv, WaitedOrGivenUp
  <2>2. OkIsAccepted'
    BY <1>0, <1>2 DEF NInv, OkIsAccepted
  <2> QED
    BY <2>1, <2>2
<1>6. RepeatedOnlyWhenUnanswered'
  <2> SUFFICES ASSUME NEW d \in Calls, NEW n \in Tries, n < attempt'[d]
               PROVE  post[d][n] = "busy" \/ n \in gaveUp'[d]
    BY <1>0 DEF RepeatedOnlyWhenUnanswered
  <2>1. CASE n < attempt[d]
    BY <1>1, <2>1 DEF NInv, RepeatedOnlyWhenUnanswered
  <2>2. CASE ~(n < attempt[d])
    <3>1. d = c /\ n = attempt[c]
      BY <1>2, <1>a, <2>2
    <3> QED
      BY <1>1, <3>1
  <2> QED
    BY <2>1, <2>2
<1>7. AcceptanceCounts'
  BY <1>0, <1>1, <1>2, <1>a DEF NInv, AcceptanceCounts
<1>8. TokensSpent'
  BY <1>0 DEF NInv, TokensSpent
<1> QED
  BY <1>3, <1>4, <1>5, <1>6, <1>7, <1>8 DEF NInv

LEMMA BackoffNInv ==
  ASSUME NInv, NEW c \in Calls, Backoff(c)
  PROVE  NInv'
<1> USE RetriesNat DEF NInv, Backoff, Goto, Tries
<1>1. TypeOK'
  BY DEF TypeOK, Ended
<1>2. SentSoFar' /\ WaitedOrGivenUp' /\ OkIsAccepted'
  BY DEF TypeOK, SentSoFar, WaitedOrGivenUp, OkIsAccepted
<1>3. RepeatedOnlyWhenUnanswered' /\ AcceptanceCounts'
  BY DEF TypeOK, RepeatedOnlyWhenUnanswered, AcceptanceCounts
<1>4. TokensSpent'
  BY DEF TokensSpent
<1> QED
  BY <1>1, <1>2, <1>3, <1>4

LEMMA ReceiveNInv ==
  ASSUME NInv, NEW c \in Calls, NEW n \in Tries, Receive(c, n)
  PROVE  NInv'
<1> USE RetriesNat DEF NInv, Receive, Tries
<1> PICK a \in Answers : post' = [post EXCEPT ![c][n] = a]
  OBVIOUS
<1>1. TypeOK'
  BY DEF TypeOK
<1>2. SentSoFar' /\ WaitedOrGivenUp'
  BY DEF TypeOK, SentSoFar, WaitedOrGivenUp
<1>3. OkIsAccepted'
  BY DEF TypeOK, OkIsAccepted
<1>4. RepeatedOnlyWhenUnanswered'
  BY DEF TypeOK, RepeatedOnlyWhenUnanswered
<1>5. AcceptanceCounts'
  BY DEF TypeOK, WaitedOrGivenUp, AcceptanceCounts
<1>6. TokensSpent'
  BY DEF TokensSpent
<1> QED
  BY <1>1, <1>2, <1>3, <1>4, <1>5, <1>6

LEMMA RefillNInv ==
  ASSUME NInv, Refill \/ Cancel
  PROVE  NInv'
<1> USE RetriesNat, NotifierAssumption DEF NInv, Refill, Cancel, Tries
<1>0. /\ \/ /\ tokens < RateLimitBurst
            /\ tokens' = tokens + 1 /\ refills' = refills + 1
            /\ cancelled' = cancelled
         \/ cancelled' = TRUE /\ UNCHANGED <<tokens, refills>>
      /\ UNCHANGED <<pc, attempt, post, gaveUp, requests>>
      /\ tokens \in 0..RateLimitBurst /\ requests \in Nat /\ refills \in Nat
  BY DEF TypeOK
<1>1. TypeOK'
  <2>1. tokens' \in 0..RateLimitBurst /\ refills' \in Nat
    BY <1>0
  <2> QED
    BY <1>0, <2>1 DEF TypeOK
<1>2. SentSoFar' /\ WaitedOrGivenUp' /\ OkIsAccepted'
  BY DEF SentSoFar, WaitedOrGivenUp, OkIsAccepted
<1>3. RepeatedOnlyWhenUnanswered' /\ AcceptanceCounts'
  BY DEF RepeatedOnlyWhenUnanswered, AcceptanceCounts
<1>4. TokensSpent'
  <2>1. requests + tokens = RateLimitBurst + refills
    BY DEF TokensSpent
  <2>2. requests' + tokens' = RateLimitBurst + refills'
    BY <1>0, <2>1
  <2> QED
    BY <2>2 DEF TokensSpent
<1> QED
  BY <1>1, <1>2, <1>3, <1>4

LEMMA NextNInv == NInv /\ [Next]_vars => NInv'
<1> SUFFICES ASSUME NInv, [Next]_vars PROVE NInv'
  OBVIOUS
<1>1. CASE UNCHANGED vars
  BY <1>1 DEF vars, NInv, TypeOK, SentSoFar, WaitedOrGivenUp, OkIsAccepted,
              RepeatedOnlyWhenUnanswered, AcceptanceCounts, TokensSpent
<1>2. CASE \E c \in Calls : Step(c)
  BY <1>2, PostNInv, WaitFailsNInv, AnsweredNInv, RetryNInv, BackoffNInv DEF Step
<1>3. CASE \E c \in Calls : RequestFails(c)
  BY <1>3, RetryNInv
<1>4. CASE \E c \in Calls, n \in Tries : Receive(c, n)
  BY <1>4, ReceiveNInv
<1>5. CASE Refill \/ Cancel
  BY <1>5, RefillNInv
<1> QED
  BY <1>1, <1>2, <1>3, <1>4, <1>5 DEF Next

\* The invariant of the notifier: which tries have been sent, answered and
\* given up, and what an answer leads to (webhook_site.go:40-92).
THEOREM NotifierInvariant == Spec => []NInv
  BY InitNInv, NextNInv, PTL DEF Spec

\* A message is posted again only after an answer that asks for it or without
\* an answer (webhook_site.go:65-89).
THEOREM NoNeedlessRepeat == Spec => []RepeatedOnlyWhenUnanswered
<1>1. NInv => RepeatedOnlyWhenUnanswered
  BY DEF NInv
<1> QED
  BY <1>1, NotifierInvariant, PTL

\* An accepted message makes its call succeed, unless the try that was
\* accepted had been given up (webhook_site.go:77-83).
THEOREM AcceptedSucceeds == Spec => []AcceptanceCounts
<1>1. NInv => AcceptanceCounts
  BY DEF NInv
<1> QED
  BY <1>1, NotifierInvariant, PTL

\* There are never more requests than the burst and the tokens gained since,
\* whatever is retried (webhook_site.go:53-55).
THEOREM RequestsPaced == Spec => []Paced
<1>1. NInv => Paced
  BY NotifierAssumption DEF NInv, TypeOK, TokensSpent, Paced
<1> QED
  BY <1>1, NotifierInvariant, PTL

-----------------------------------------------------------------------------
LEMMA InitPromise == Init => Promise!Init
  BY DEF Init, Promise!Init, Outcome, Seen, Ended, Answers

LEMMA StepPromise ==
  ASSUME NInv, NEW c \in Calls, Step(c) \/ RequestFails(c)
  PROVE  Promise!Next \/ UNCHANGED <<Outcome, Seen>>
<1> USE RetriesNat DEF NInv, TypeOK
<1>1. /\ pc[c] \notin Ended
      /\ pc' = [pc EXCEPT ![c] = pc'[c]]
  BY DEF Step, RequestFails, Post, WaitFails, Accepted, Refused, RetryStatus,
         Backoff, Answer, Retry, Goto, Ended
<1>2. Seen' = Seen
  <2>1. CASE Post(c)
    <3>1. post[c][attempt[c]] = "none"
      BY <2>1 DEF Post, SentSoFar
    <3> QED
      BY <2>1, <3>1 DEF Post, Seen, Answers
  <2>2. CASE UNCHANGED post
    BY <2>2 DEF Seen
  <2> QED
    BY <2>1, <2>2 DEF Step, RequestFails, WaitFails, Accepted, Refused,
                      RetryStatus, Backoff
<1>3. CASE pc'[c] \notin Ended
  BY <1>1, <1>2, <1>3 DEF Outcome
<1>4. CASE pc'[c] = "error"
  <2>1. Promise!Fail(c)
    BY <1>1, <1>2, <1>4 DEF Promise!Fail, Outcome, Ended
  <2> QED
    BY <2>1 DEF Promise!Next
<1>5. CASE pc'[c] = "ok"
  <2>1. Accepted(c)
    BY <1>1, <1>5 DEF Step, RequestFails, Post, WaitFails, Refused, RetryStatus,
                      Backoff, Retry, Goto, Ended
  <2>2. attempt[c] \in Seen[c]
    BY <2>1 DEF Accepted, Answer, Seen, Answers
  <2>3. Promise!Succeed(c)
    BY <1>1, <1>2, <1>5, <2>2 DEF Promise!Succeed, Outcome, Ended
  <2> QED
    BY <2>3 DEF Promise!Next
<1> QED
  BY <1>3, <1>4, <1>5 DEF Ended

LEMMA ReceivePromise ==
  ASSUME NInv, NEW c \in Calls, NEW n \in Tries, Receive(c, n)
  PROVE  Promise!Next
<1> USE DEF NInv, TypeOK
<1> PICK a \in Answers : post' = [post EXCEPT ![c][n] = a]
  BY DEF Receive
<1>1. n \notin Seen[c]
  BY DEF Receive, Seen, Answers
<1>2. Seen' = [Seen EXCEPT ![c] = Seen[c] \cup {n}]
  <2>1. \A d \in Calls : {k \in Tries : post'[d][k] \in Answers}
                          = IF d = c THEN Seen[c] \cup {n} ELSE Seen[d]
    BY DEF Seen
  <2> QED
    BY <2>1 DEF Seen
<1>3. Outcome' = Outcome
  BY DEF Receive, Outcome
<1>4. Promise!Deliver(c)
  BY <1>1, <1>2, <1>3 DEF Promise!Deliver
<1> QED
  BY <1>4 DEF Promise!Next

LEMMA NextPromise == NInv /\ [Next]_vars => [Promise!Next]_<<Outcome, Seen>>
<1> SUFFICES ASSUME NInv, [Next]_vars PROVE Promise!Next \/ UNCHANGED <<Outcome, Seen>>
  OBVIOUS
<1>1. CASE UNCHANGED vars \/ Refill \/ Cancel
  BY <1>1 DEF vars, Refill, Cancel, Outcome, Seen
<1>2. CASE \E c \in Calls : Step(c) \/ RequestFails(c)
  BY <1>2, StepPromise
<1>3. CASE \E c \in Calls, n \in Tries : Receive(c, n)
  BY <1>3, ReceivePromise
<1> QED
  BY <1>1, <1>2, <1>3 DEF Next

\* The notifier implements what Notification promises of a call
\* (webhook_site.go:32-93).
THEOREM NotifierImplementsPromise == Spec => ImplementsNotification
<1>1. NInv /\ [Next]_vars => [Promise!Next]_Promise!vars
  BY NextPromise DEF Promise!vars
<1> QED
  BY <1>1, InitPromise, NotifierInvariant, PTL
     DEF Spec, ImplementsNotification, Promise!Spec
=============================================================================
