------------------------ MODULE CircuitBreakerProofs ------------------------
(***************************************************************************)
(* Proofs about CircuitBreaker, for any set of searches, any threshold and *)
(* any open duration.                                                      *)
(***************************************************************************)
EXTENDS CircuitBreaker, TLAPS

\* Every step of the breaker and of its environment keeps the types.
LEMMA TypeStep == TypeOK /\ [Next]_vars => TypeOK'
<1> SUFFICES ASSUME TypeOK, [Next]_vars PROVE TypeOK'
  OBVIOUS
<1> USE BreakerAssumption DEF TypeOK, States
<1>1. ASSUME NEW s \in Searches, Send(s) PROVE TypeOK'
  BY <1>1 DEF Send, allow
<1>2. ASSUME NEW s \in Searches, Succeed(s) PROVE TypeOK'
  BY <1>2 DEF Succeed, recordSuccess
<1>3. ASSUME NEW s \in Searches, Fail(s) PROVE TypeOK'
  BY <1>3 DEF Fail, recordFailure
<1>4. CASE Tick
  BY <1>4 DEF Tick
<1>5. CASE GoDown
  BY <1>5 DEF GoDown
<1>6. CASE ComeUp
  BY <1>6 DEF ComeUp
<1>7. CASE UNCHANGED vars
  BY <1>7 DEF vars
<1>8. QED
  BY <1>1, <1>2, <1>3, <1>4, <1>5, <1>6, <1>7 DEF Next

\* The breaker's state, counter and clock keep their types.
THEOREM BreakerTypes == Spec => []TypeOK
<1>1. Init => TypeOK
  BY BreakerAssumption DEF Init, TypeOK, States
<1>2. QED
  BY <1>1, TypeStep, PTL DEF Spec

\* The type invariant is all that the step argument needs: every action that
\* closes the breaker resets the counter, and every action that fills the
\* counter opens the breaker.
LEMMA ClosedStep == TypeOK /\ ClosedBelowThreshold /\ [Next]_vars => ClosedBelowThreshold'
<1> SUFFICES ASSUME TypeOK, ClosedBelowThreshold, [Next]_vars PROVE ClosedBelowThreshold'
  OBVIOUS
<1> USE BreakerAssumption DEF TypeOK, ClosedBelowThreshold
<1>1. ASSUME NEW s \in Searches, Send(s) PROVE ClosedBelowThreshold'
  BY <1>1 DEF Send, allow
<1>2. ASSUME NEW s \in Searches, Succeed(s) PROVE ClosedBelowThreshold'
  BY <1>2 DEF Succeed, recordSuccess
<1>3. ASSUME NEW s \in Searches, Fail(s) PROVE ClosedBelowThreshold'
  <2>1. CASE state = "half-open" \/ failures' = FailureThreshold
    BY <1>3, <2>1 DEF Fail, recordFailure
  <2>2. CASE state # "half-open" /\ failures' # FailureThreshold
    BY <1>3, <2>2 DEF Fail, recordFailure
  <2>3. QED
    BY <2>1, <2>2
<1>4. CASE Tick \/ GoDown \/ ComeUp \/ UNCHANGED vars
  BY <1>4 DEF Tick, GoDown, ComeUp, vars
<1>5. QED
  BY <1>1, <1>2, <1>3, <1>4 DEF Next

\* A closed breaker has never seen a full run of failures, for any number of
\* concurrent searches and any threshold.
THEOREM BreakerClosedBelowThreshold == Spec => []ClosedBelowThreshold
<1>1. Init => ClosedBelowThreshold
  BY BreakerAssumption DEF Init, ClosedBelowThreshold
<1>2. QED
  BY <1>1, BreakerTypes, ClosedStep, PTL DEF Spec

\* While the breaker cools down, only the answer to a call that was sent
\* before can take it out of the open state.
THEOREM BreakerStaysOpen == Spec => StaysOpen
<1> DEFINE Leaves == state = "open" /\ cooling > 0 /\ state' # "open"
           Ends == \E s \in Searches : calls[s] # "none" /\ calls'[s] = "none"
<1>1. ASSUME TypeOK, [Next]_vars, Leaves PROVE Ends
  <2>1. ASSUME NEW s \in Searches, Send(s) PROVE FALSE
    BY <1>1, <2>1 DEF Send, allow, TypeOK
  <2>2. ASSUME NEW s \in Searches, Succeed(s) \/ Fail(s) PROVE Ends
    <3>1. calls[s] # "none" /\ calls' = [calls EXCEPT ![s] = "none"]
      BY <2>2 DEF Succeed, Fail
    <3>2. QED
      BY <1>1, <3>1 DEF TypeOK
  <2>3. CASE Tick \/ GoDown \/ ComeUp \/ UNCHANGED vars
    BY <1>1, <2>3 DEF Tick, GoDown, ComeUp, vars
  <2>4. QED
    BY <1>1, <2>1, <2>2, <2>3 DEF Next
<1>2. TypeOK /\ [Next]_vars => [Leaves => Ends]_vars
  BY <1>1
<1>3. QED
  BY <1>2, BreakerTypes, PTL DEF Spec, StaysOpen

=============================================================================
