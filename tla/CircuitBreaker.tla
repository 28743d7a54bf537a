--------------------------- MODULE CircuitBreaker ---------------------------
(***************************************************************************)
(* The remote RAG client (application/ai/rag_client.go): concurrent        *)
(* searches call the RAG service through one circuit breaker and degrade   *)
(* to the local search when the breaker refuses or the call fails.         *)
(*                                                                         *)
(* Each method of the breaker runs under its mutex and is one step; the    *)
(* HTTP call between allow and recordSuccess or recordFailure is not.  A   *)
(* refused search and the local search change none of this state.          *)
(***************************************************************************)
EXTENDS Naturals

CONSTANTS
    Searches,          \* the searches that may be in progress at one time
    FailureThreshold,  \* consecutive failures that open the breaker
    OpenDuration       \* clock ticks the breaker stays open

ASSUME BreakerAssumption ==
    /\ FailureThreshold \in Nat \ {0}
    /\ OpenDuration \in Nat \ {0}

VARIABLES
    state,      \* closed, open or half-open
    failures,   \* consecutive failures; counted up to the threshold only, the
                \* sole value it is compared with
    cooling,    \* ticks until openDuration has passed since openedAt
    calls,      \* calls[s]: the HTTP call of search s: none, sent, or doomed
                \* when the service was down at some time since it was sent
    up          \* whether the RAG service answers

vars == <<state, failures, cooling, calls, up>>

States == {"closed", "open", "half-open"}

\* Type invariant of the breaker and its calls.
TypeOK ==
    /\ state \in States
    /\ failures \in 0..FailureThreshold
    /\ cooling \in 0..OpenDuration
    /\ calls \in [Searches -> {"none", "sent", "doomed"}]
    /\ up \in BOOLEAN

Init ==
    /\ state = "closed"
    /\ failures = 0
    /\ cooling = 0
    /\ calls = [s \in Searches |-> "none"]
    /\ up \in BOOLEAN

\* Seeded fault: the time the breaker was opened is not looked at.
allowEager == state' = IF state = "open" THEN "half-open" ELSE state

\* allow: a closed breaker lets every search through, and so does a half-open
\* one; an open one turns half-open once its time has passed.
allow ==
    \/ state # "open" /\ state' = state
    \/ state = "open" /\ cooling = 0 /\ state' = "half-open"

\* Seeded faults: a success leaves the count of failures; it closes nothing.
recordSuccessKeepsCount == state' = "closed" /\ UNCHANGED <<failures, cooling>>
recordSuccessOnlyResets == failures' = 0 /\ UNCHANGED <<state, cooling>>

\* recordSuccess closes the breaker, whichever state it is in by now.
recordSuccess == failures' = 0 /\ state' = "closed" /\ UNCHANGED cooling

\* Seeded fault: only a failed probe opens the breaker.
recordFailureProbesOnly ==
    /\ failures' = IF failures < FailureThreshold THEN failures + 1 ELSE failures
    /\ IF state = "half-open"
       THEN state' = "open" /\ cooling' = OpenDuration
       ELSE UNCHANGED <<state, cooling>>

\* recordFailure opens the breaker in half-open state or from the threshold
\* on; a failure that arrives when it is open already starts its time anew.
recordFailure ==
    LET count == IF failures < FailureThreshold THEN failures + 1 ELSE failures
    IN  /\ failures' = count
        /\ IF state = "half-open" \/ count = FailureThreshold
           THEN state' = "open" /\ cooling' = OpenDuration
           ELSE UNCHANGED <<state, cooling>>

\* Search, up to the HTTP call.
Send(s) ==
    /\ calls[s] = "none"
    /\ allow
    /\ calls' = [calls EXCEPT ![s] = IF up THEN "sent" ELSE "doomed"]
    /\ UNCHANGED <<failures, cooling, up>>

Succeed(s) ==
    /\ calls[s] # "none" /\ up
    /\ recordSuccess
    /\ calls' = [calls EXCEPT ![s] = "none"]
    /\ UNCHANGED up

\* Every way a call can fail (connection, status, body, business code, client
\* timeout) records a failure and goes on with the local search.
Fail(s) ==
    /\ calls[s] = "doomed"
    /\ recordFailure
    /\ calls' = [calls EXCEPT ![s] = "none"]
    /\ UNCHANGED up

Answer(s) == Succeed(s) \/ Fail(s)

Tick ==
    /\ cooling > 0
    /\ cooling' = cooling - 1
    /\ UNCHANGED <<state, failures, calls, up>>

\* The service goes down, and the calls in progress with it, or comes back.
GoDown ==
    /\ up
    /\ up' = FALSE
    /\ calls' = [s \in Searches |-> IF calls[s] = "sent" THEN "doomed" ELSE calls[s]]
    /\ UNCHANGED <<state, failures, cooling>>

ComeUp == ~up /\ up' = TRUE /\ UNCHANGED <<state, failures, cooling, calls>>

Next ==
    \/ \E s \in Searches : Send(s) \/ Succeed(s) \/ Fail(s)
    \/ Tick
    \/ GoDown
    \/ ComeUp

Spec == Init /\ [][Next]_vars

\* Time passes, a call ends (the HTTP client has a timeout), and users keep
\* searching; nothing is assumed of the service.
FairSpec ==
    /\ Spec
    /\ WF_vars(Tick)
    /\ \A s \in Searches : WF_vars(Answer(s)) /\ WF_vars(Send(s))

-----------------------------------------------------------------------------

\* A closed breaker has seen fewer failures in a row than the threshold: no
\* interleaving of late answers leaves it closed with a full count.
ClosedBelowThreshold == state = "closed" => failures < FailureThreshold

\* Before its time is over the breaker leaves the open state only when a call
\* sent before it opened succeeds after all; no new call gets it out.
StaysOpen ==
    [][state = "open" /\ cooling > 0 /\ state' # "open" =>
           \E s \in Searches : calls[s] # "none" /\ calls'[s] = "none"]_vars

\* A service that stays up is used again: after every outage the breaker ends
\* up closed for good.
Recovers == <>[]up => <>[](state = "closed")

\* A service that stays down is spared: the breaker does not stay closed.
Trips == <>[](~up) => <>[](state # "closed")

\* One probe at a time while half-open ("lets one probe request through",
\* the comment of circuitBreaker).
OneProbe ==
    [][state = "half-open" /\ state' = "half-open" =>
           \A s \in Searches : calls[s] = "none" => calls'[s] = "none"]_vars

=============================================================================
