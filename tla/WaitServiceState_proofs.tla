---------------------- MODULE WaitServiceState_proofs ----------------------
(***************************************************************************)
(* For any services, any number of updates and of reconnects, and both     *)
(* kinds of replay: serviceStates is explained by what the streams said,   *)
(* the first real failure ends the wait and nothing else fails it, and the *)
(* wait implements DeployWatch.                                            *)
(***************************************************************************)
EXTENDS WaitServiceState, TLAPS

\* The inductive invariant is the conjunction of the checked ones: what may be
\* said of the next update is known from the history only because serviceStates
\* is explained by it, and a wait that has not returned has met no failure.
IInv ==
  /\ TypeOK
  /\ StatesExplained
  /\ FailFast
  /\ FailureIsReal
  /\ CompletedMeansAll
  /\ StillWaiting

ReadVars == <<services, delivered, states>>

\* serviceStates[s] is the target state exactly when the target was said of s.
LEMMA TargetWasSaid ==
  ASSUME TypeOK, StatesExplained, NEW s \in services
  PROVE  (states[s] = Target) <=> \E i \in Said(s) : delivered[i].state = Target
<1>1. CASE Said(s) = {}
  BY <1>1, StatesAssumption DEF StatesExplained
<1>2. CASE Said(s) # {}
  BY <1>2 DEF StatesExplained
<1> QED BY <1>1, <1>2

\* What one more delivered update adds to what was said of each service.
LEMMA SaidAfter ==
  ASSUME TypeOK, NEW u \in Updates, delivered' = Append(delivered, u)
  PROVE  /\ Len(delivered') = Len(delivered) + 1
         /\ Len(delivered) \in Nat
         /\ DOMAIN delivered' = 1..(Len(delivered) + 1)
         /\ DOMAIN delivered = 1..Len(delivered)
         /\ \A i \in 1..Len(delivered) : delivered'[i] = delivered[i]
         /\ delivered'[Len(delivered) + 1] = u
         /\ \A s : Said(s)' = Said(s) \union
              {i \in {Len(delivered) + 1} : u.name = s /\ u.state # NotSpecified}
<1>1. delivered \in Seq(Updates)
  BY DEF TypeOK
<1>2. /\ Len(delivered') = Len(delivered) + 1
      /\ Len(delivered) \in Nat
      /\ DOMAIN delivered' = 1..(Len(delivered) + 1)
      /\ DOMAIN delivered = 1..Len(delivered)
  BY <1>1
<1>3. \A i \in 1..Len(delivered) : delivered'[i] = delivered[i]
  BY <1>1
<1>4. delivered'[Len(delivered) + 1] = u
  BY <1>1
<1>5. ASSUME NEW s
      PROVE  Said(s)' = Said(s) \union
               {i \in {Len(delivered) + 1} : u.name = s /\ u.state # NotSpecified}
  BY <1>2, <1>3, <1>4 DEF Said
<1> QED BY <1>2, <1>3, <1>4, <1>5

LEMMA InitIInv == Init => IInv
<1> SUFFICES ASSUME Init PROVE IInv
  OBVIOUS
<1>a. history \in Seq(Updates) /\ delivered \in Seq(Updates) /\ cursor \in 0..Len(history)
  BY DEF Init
<1>b. states \in [services -> States] /\ services \subseteq Names
  BY StatesAssumption DEF Init
<1>c. result \in Results /\ pc = "subscribe" /\ result.why = "pending"
  BY DEF Init, Because, Results, Reasons
<1>d. drops = 0 /\ ctxDone = FALSE /\ etags = {}
  BY DEF Init
<1>e. drops \in 0..MaxDrops
  BY <1>d, BoundsAssumption
<1>1. TypeOK
  BY <1>a, <1>b, <1>c, <1>d, <1>e DEF TypeOK
<1>2. \A s : Said(s) = {}
  BY DEF Init, Said
<1>3. StatesExplained
  BY <1>2 DEF Init, StatesExplained
<1>4. FailFast /\ FailureIsReal /\ CompletedMeansAll
  BY DEF Init, FailFast, FailureIsReal, CompletedMeansAll, Because
<1>5. StillWaiting
  BY StatesAssumption DEF Init, StillWaiting
<1> QED BY <1>1, <1>3, <1>4, <1>5 DEF IInv

\* Steps that read nothing keep every fact about what was read, as long as
\* they return, if they do, for another reason.
LEMMA QuietStep ==
  ASSUME IInv, TypeOK', UNCHANGED ReadVars, pc = "returned" => pc' = "returned",
         result' = result \/ (result.why = "pending"
                              /\ result'.why \notin {"failed", "allInState"})
  PROVE  IInv'
<1>1. /\ services' = services /\ delivered' = delivered /\ states' = states
  BY DEF ReadVars
<1>2. \A s : Said(s)' = Said(s)
  BY <1>1 DEF Said
<1>3. \A i : UnmaskedFailure(i)' <=> UnmaskedFailure(i)
  BY <1>1, <1>2 DEF UnmaskedFailure
<1>4. StatesExplained'
  BY <1>1, <1>2 DEF IInv, StatesExplained
<1>5. FailFast'
  <2>1. CASE result' = result
    BY <2>1, <1>1, <1>3 DEF IInv, FailFast
  <2>2. CASE result.why = "pending"
    <3>1. \A i \in DOMAIN delivered : ~UnmaskedFailure(i)
      BY <2>2 DEF IInv, FailFast
    <3> QED BY <3>1, <1>1, <1>3 DEF FailFast
  <2> QED BY <2>1, <2>2
<1>6. FailureIsReal'
  BY <1>1, <1>3 DEF IInv, FailureIsReal
<1>7. CompletedMeansAll'
  BY <1>1, <1>2 DEF IInv, CompletedMeansAll
<1>8. StillWaiting'
  BY <1>1 DEF IInv, StillWaiting, Running
<1> QED BY <1>4, <1>5, <1>6, <1>7, <1>8 DEF IInv

LEMMA ReceiveTypeOK ==
  ASSUME TypeOK, Receive
  PROVE  /\ TypeOK'
         /\ history[cursor + 1] \in Updates
<1> DEFINE u == history[cursor + 1]
<1>1. u \in Updates
  BY DEF TypeOK, Receive
<1>2. delivered' \in Seq(Updates)
  BY <1>1 DEF TypeOK, Receive
<1>3. states' \in [services' -> States]
  BY <1>1 DEF TypeOK, Receive, Updated, Ignored, provider, Updates
<1>4. result' \in Results /\ pc' \in {"next", "returned"}
      /\ ((pc' = "returned") <=> (result'.why # "pending"))
  BY <1>1 DEF TypeOK, Receive, Return, Because, Results, Reasons, Updates, FailsNow, Ignored
<1>5. cursor' \in 0..Len(history')
  BY DEF TypeOK, Receive, provider
<1>6. etags' \subseteq Names
  BY <1>1 DEF TypeOK, Receive, Learned, Updates
<1> QED BY <1>1, <1>2, <1>3, <1>4, <1>5, <1>6 DEF TypeOK, Receive, provider

LEMMA ReceiveExplained ==
  ASSUME IInv, Receive
  PROVE  StatesExplained'
<1> DEFINE u == history[cursor + 1]
           n == Len(delivered) + 1
<1>0. TypeOK /\ u \in Updates /\ delivered' = Append(delivered, u)
      /\ states' = Updated(u) /\ services' = services /\ states \in [services -> States]
  BY ReceiveTypeOK DEF IInv, Receive, provider, TypeOK
<1>a. u.name \in Names /\ u.state \in States
  BY <1>0 DEF Updates
<1>1. /\ Len(delivered) \in Nat
      /\ DOMAIN delivered = 1..Len(delivered)
      /\ \A i \in 1..Len(delivered) : delivered'[i] = delivered[i]
      /\ delivered'[n] = u
      /\ \A s : Said(s)' = Said(s) \union
           {i \in {n} : u.name = s /\ u.state # NotSpecified}
  BY <1>0, SaidAfter
<1> SUFFICES ASSUME NEW s \in services
             PROVE  (/\ Said(s) = {} => states[s] = NotSpecified
                     /\ Said(s) # {} =>
                          \/ /\ states[s] = Target
                             /\ \E i \in Said(s) : delivered[i].state = Target
                          \/ /\ \A i \in Said(s) : delivered[i].state # Target
                             /\ \E i \in Said(s) : /\ states[s] = delivered[i].state
                                                   /\ \A j \in Said(s) : j <= i)'
  BY <1>0 DEF StatesExplained
<1>2. \A i \in Said(s) : i \in 1..Len(delivered) /\ delivered'[i] = delivered[i]
  BY <1>1 DEF Said
<1>3. CASE u.name # s \/ u.state = NotSpecified
  <2>1. Said(s)' = Said(s)
    BY <1>1, <1>3
  <2>2. states'[s] = states[s]
    BY <1>0, <1>3 DEF Updated, Ignored
  <2> QED BY <2>1, <2>2, <1>2 DEF IInv, StatesExplained
<1>4. CASE u.name = s /\ u.state # NotSpecified
  <2>1. Said(s)' = Said(s) \union {n} /\ Said(s)' # {}
    BY <1>1, <1>4
  <2>2. states'[s] = IF states[s] = Target THEN Target ELSE u.state
    BY <1>0, <1>4 DEF Updated, Ignored
  <2>3. CASE states[s] = Target
    <3>1. \E i \in Said(s) : delivered[i].state = Target
      BY <1>0, <2>3, TargetWasSaid DEF IInv
    <3>2. \E i \in Said(s)' : delivered'[i].state = Target
      BY <3>1, <2>1, <1>2
    <3> QED BY <3>2, <2>1, <2>2, <2>3
  <2>4. CASE states[s] # Target
    <3>1. \A i \in Said(s) : delivered[i].state # Target
      BY <1>0, <2>4, TargetWasSaid DEF IInv
    <3>2. states'[s] = u.state /\ n \in Said(s)' /\ delivered'[n].state = u.state
      BY <2>1, <2>2, <2>4, <1>1
    <3>3. \A j \in Said(s)' : j <= n
      BY <2>1, <1>1, <1>2
    <3>4. CASE u.state = Target
      BY <3>2, <3>4, <2>1
    <3>5. CASE u.state # Target
      <4>1. \A i \in Said(s)' : delivered'[i].state # Target
        BY <3>1, <3>2, <3>5, <2>1, <1>2
      <4> QED BY <4>1, <3>2, <3>3, <2>1
    <3> QED BY <3>4, <3>5
  <2> QED BY <2>3, <2>4
<1> QED BY <1>3, <1>4

\* The update just read is a failure of a service that was not complete exactly
\* when the loop returns on it; no earlier update was one.
LEMMA ReceiveFailures ==
  ASSUME IInv, Receive,
         NEW u, u = history[cursor + 1],
         NEW n, n = Len(delivered) + 1
  PROVE  /\ Len(delivered') = n /\ delivered' # <<>>
         /\ delivered'[n] = u
         /\ DOMAIN delivered' = 1..n
         /\ UnmaskedFailure(n)' <=> FailsNow(u)
         /\ \A i \in 1..Len(delivered) : ~UnmaskedFailure(i)'
<1>0. TypeOK /\ u \in Updates /\ delivered' = Append(delivered, u) /\ services' = services
      /\ result.why = "pending"
  BY ReceiveTypeOK DEF IInv, Receive, provider, TypeOK
<1>1. /\ Len(delivered') = n
      /\ Len(delivered) \in Nat
      /\ DOMAIN delivered' = 1..n
      /\ DOMAIN delivered = 1..Len(delivered)
      /\ \A i \in 1..Len(delivered) : delivered'[i] = delivered[i]
      /\ delivered'[n] = u
      /\ \A s : Said(s)' = Said(s) \union
           {i \in {n} : u.name = s /\ u.state # NotSpecified}
  BY <1>0, SaidAfter
<1>2. \A s : \A i \in Said(s) : i \in 1..Len(delivered) /\ delivered'[i] = delivered[i]
  BY <1>1 DEF Said
<1>3. UnmaskedFailure(n)' <=>
         /\ u.name \in services
         /\ u.state \in Failures
         /\ \A j \in Said(u.name) : delivered[j].state # Target
  <2>1. UnmaskedFailure(n)' <=>
         /\ u.name \in services
         /\ u.state \in Failures
         /\ \A j \in Said(u.name)' : j < n => delivered'[j].state # Target
    BY <1>0, <1>1 DEF UnmaskedFailure
  <2>2. Said(u.name)' \ {n} = Said(u.name)
    BY <1>1, <1>2
  <2>3. \A j \in Said(u.name)' : j < n <=> j \in Said(u.name)
    BY <1>1, <1>2
  <2> QED BY <2>1, <2>2, <2>3, <1>2
<1>4. UnmaskedFailure(n)' <=> FailsNow(u)
  <2>1. CASE u.name \in services
    <3>1. (states[u.name] = Target) <=> \E i \in Said(u.name) : delivered[i].state = Target
      BY <2>1, <1>0, TargetWasSaid DEF IInv
    <3>2. u.state \in Failures => u.state # NotSpecified
      BY StatesAssumption
    <3> QED BY <3>1, <3>2, <2>1, <1>3 DEF FailsNow, Ignored
  <2>2. CASE u.name \notin services
    BY <2>2, <1>3 DEF FailsNow, Ignored
  <2> QED BY <2>1, <2>2
<1>5. ASSUME NEW i \in 1..Len(delivered)
      PROVE  ~UnmaskedFailure(i)'
  <2>1. ~UnmaskedFailure(i)
    BY <1>0, <1>1 DEF IInv, FailFast
  <2>2. delivered'[i] = delivered[i] /\ n \in Nat /\ i < n
    BY <1>1
  <2>3. \A j \in Said(delivered[i].name)' : j < i => j \in Said(delivered[i].name)
    BY <1>1, <2>2
  <2>4. \A j \in Said(delivered[i].name) : j \in Said(delivered[i].name)'
                                           /\ delivered'[j] = delivered[j]
    BY <1>1, <1>2
  <2> QED BY <2>1, <2>2, <2>3, <2>4, <1>0 DEF UnmaskedFailure
<1>6. delivered' # <<>>
  BY <1>0, <1>1
<1> QED BY <1>1, <1>4, <1>5, <1>6

LEMMA ReceiveIInv == ASSUME IInv, Receive PROVE IInv'
<1> PICK u : u = history[cursor + 1]
  OBVIOUS
<1> PICK n : n = Len(delivered) + 1
  OBVIOUS
<1>1. TypeOK' /\ u \in Updates
  BY ReceiveTypeOK DEF IInv
<1>2. StatesExplained'
  BY ReceiveExplained
<1>3. /\ Len(delivered') = n /\ delivered' # <<>>
      /\ delivered'[n] = u
      /\ DOMAIN delivered' = 1..n
      /\ UnmaskedFailure(n)' <=> FailsNow(u)
      /\ \A i \in 1..Len(delivered) : ~UnmaskedFailure(i)'
  BY ReceiveFailures
<1>4. result.why = "pending" /\ Len(delivered) \in Nat
  BY DEF Receive, IInv, TypeOK
<1>5. FailsNow(u) => result' = [why |-> "failed", service |-> u.name]
  BY DEF Receive
<1>6. result'.why = "failed" => FailsNow(u) /\ result'.service = u.name
  BY <1>4 DEF Receive, Return, Because
<1>7. FailFast'
  BY <1>3, <1>4, <1>5 DEF FailFast
<1>8. FailureIsReal'
  BY <1>3, <1>6 DEF FailureIsReal
<1>9. CompletedMeansAll'
  <2> SUFFICES ASSUME result'.why = "allInState", NEW s \in services'
               PROVE  (\E i \in Said(s) : delivered[i].state = Target)'
    BY DEF CompletedMeansAll
  <2>1. AllInState(Updated(u)) /\ states' = Updated(u) /\ services' = services
    BY <1>4 DEF Receive, Return, Because, provider
  <2>2. states'[s] = Target
    BY <2>1, <1>1 DEF AllInState, TypeOK
  <2>3. Said(s)' # {}
    BY <2>2, <1>2, StatesAssumption DEF StatesExplained
  <2> QED BY <2>2, <2>3, <1>2 DEF StatesExplained
<1>10. StillWaiting'
  <2> SUFFICES ASSUME Running', services # {}
               PROVE  \E s \in services : states'[s] # Target
    BY DEF StillWaiting, Receive, provider
  <2>1. states' = Updated(u) /\ (Ignored(u) \/ ~AllInState(Updated(u))) /\ Running
    BY <1>4 DEF Receive, Return, Because, Running
  <2>2. CASE Ignored(u)
    BY <2>1, <2>2 DEF Updated, IInv, StillWaiting
  <2>3. CASE ~AllInState(Updated(u))
    <3>1. DOMAIN states' = services
      BY <1>1 DEF TypeOK, Receive, provider
    <3> QED BY <3>1, <2>1, <2>3 DEF AllInState
  <2> QED BY <2>1, <2>2, <2>3
<1> QED BY <1>1, <1>2, <1>7, <1>8, <1>9, <1>10 DEF IInv

LEMMA NextIInv == IInv /\ [Next]_vars => IInv'
<1> SUFFICES ASSUME IInv, [Next]_vars PROVE IInv'
  OBVIOUS
<1> USE BoundsAssumption
<1>t. TypeOK
  BY DEF IInv
<1>1. CASE Record
  <2>1. TypeOK'
    BY <1>1, <1>t DEF Record, TypeOK
  <2> QED BY <2>1, <1>1, QuietStep DEF Record, ReadVars
<1>2. CASE CtxDone
  <2>1. TypeOK'
    BY <1>2, <1>t DEF CtxDone, TypeOK
  <2> QED BY <2>1, <1>2, QuietStep DEF CtxDone, ReadVars
<1>3. CASE Subscribe
  <2>1. TypeOK' /\ result.why = "pending"
    BY <1>3, <1>t DEF Subscribe, TypeOK, Return, Because, Results, Reasons, provider, OpenAt
  <2> QED BY <2>1, <1>3, QuietStep DEF Subscribe, Return, Because, ReadVars
<1>4. CASE Receive
  BY <1>4, ReceiveIInv
<1>5. CASE DelayBeforeRetry
  <2>1. TypeOK' /\ result.why = "pending"
    BY <1>5, <1>t DEF DelayBeforeRetry, TypeOK, Return, Because, Results, Reasons, provider
  <2> QED BY <2>1, <1>5, QuietStep DEF DelayBeforeRetry, Return, Because, ReadVars
<1>6. CASE Resubscribe
  <2>1. TypeOK' /\ result.why = "pending"
    BY <1>6, <1>t DEF Resubscribe, TypeOK, Return, Because, Results, Reasons, provider, OpenAt
  <2> QED BY <2>1, <1>6, QuietStep DEF Resubscribe, Return, Because, ReadVars
<1>7. CASE TransientError
  <2>1. TypeOK'
    BY <1>7, <1>t DEF TransientError, TypeOK
  <2> QED BY <2>1, <1>7, QuietStep DEF TransientError, ReadVars
<1>8. CASE StreamOver
  <2>1. TypeOK' /\ result.why = "pending"
    BY <1>8, <1>t DEF StreamOver, TypeOK, Return, Because, Results, Reasons, provider
  <2> QED BY <2>1, <1>8, QuietStep DEF StreamOver, Return, Because, ReadVars
<1>9. CASE StreamCanceled
  <2>1. TypeOK' /\ result.why = "pending"
    BY <1>9, <1>t DEF StreamCanceled, TypeOK, Return, Because, Results, Reasons, provider
  <2> QED BY <2>1, <1>9, QuietStep DEF StreamCanceled, Return, Because, ReadVars
<1>10. CASE UNCHANGED vars
  <2>1. TypeOK'
    BY <1>10, <1>t DEF vars, TypeOK
  <2> QED BY <2>1, <1>10, QuietStep DEF vars, ReadVars
<1>11. CASE Skip
  <2>1. TypeOK'
    BY <1>11, <1>t DEF Skip, TypeOK, provider
  <2> QED BY <2>1, <1>11, QuietStep DEF Skip, ReadVars
<1> QED BY <1>1, <1>2, <1>3, <1>4, <1>5, <1>6, <1>7, <1>8, <1>9, <1>10, <1>11 DEF Next, Client

\* Every conjunct of the inductive invariant holds in every reachable state.
THEOREM IInvHolds == Spec => []IInv
BY InitIInv, NextIInv, PTL DEF Spec

\* The variables keep their types (subscribe.go:43-47).
THEOREM TypeCorrect == Spec => []TypeOK
BY IInvHolds, PTL DEF IInv

\* serviceStates is what the streams said, over any number of reconnects.
THEOREM Explained == Spec => []StatesExplained
BY IInvHolds, PTL DEF IInv

\* The first failure of a service that is not complete ends the wait, and only
\* such a failure fails it (subscribe.go:105-109).
THEOREM FailuresAreExact == Spec => []FailsExactly
BY IInvHolds, PTL DEF IInv, FailsExactly

\* A wait that ends well has read the target state of every service.
THEOREM Completed == Spec => []CompletedMeansAll
BY IInvHolds, PTL DEF IInv
-----------------------------------------------------------------------------
\* Refinement: what the abstract variables are.
Reached == {s \in services : states[s] = Target}
Verdict == CASE result.why = "pending" -> "watching"
             [] result.why = "allInState" -> "completed"
             [] result.why = "failed" -> "failed"
             [] OTHER -> "detached"

LEMMA VerdictOf ==
  /\ result.why = "pending" => Verdict = "watching"
  /\ result.why = "allInState" => Verdict = "completed"
  /\ result.why = "failed" => Verdict = "failed"
  /\ result.why \notin {"pending", "allInState", "failed"} => Verdict = "detached"
BY DEF Verdict

\* A step that reads nothing detaches or stutters.
LEMMA QuietRefines ==
  ASSUME UNCHANGED <<services, states>>,
         result' = result \/ (result.why = "pending"
                              /\ result'.why \notin {"pending", "failed", "allInState"})
  PROVE  [Watch!WatchNext]_(Watch!watchVars)
<1>1. Reached' = Reached
  BY DEF Reached
<1>2. CASE result' = result
  BY <1>1, <1>2 DEF Watch!watchVars, Reached
<1>3. CASE result.why = "pending" /\ result'.why \notin {"pending", "failed", "allInState"}
  <2>1. Verdict = "watching" /\ Verdict' = "detached"
    BY <1>3, VerdictOf DEF Verdict
  <2> QED BY <2>1, <1>1 DEF Watch!WatchNext, Watch!Detach, Verdict, Reached
<1> QED BY <1>2, <1>3

\* Reading an update is a Reach, a Fail or a stutter of the watch.
LEMMA ReceiveRefines ==
  ASSUME TypeOK, StillWaiting, Receive
  PROVE  [Watch!WatchNext]_(Watch!watchVars)
<1> PICK u : u = history[cursor + 1]
  OBVIOUS
<1>1. /\ u \in Updates /\ services' = services /\ states' = Updated(u)
      /\ states \in [services -> States] /\ services \subseteq Names
      /\ result.why = "pending"
  BY ReceiveTypeOK DEF TypeOK, Receive, provider
<1>2. Verdict = "watching"
  BY <1>1, VerdictOf
<1>3. CASE FailsNow(u)
  <2>1. result'.why = "failed" /\ u.name \in services /\ states[u.name] # Target
        /\ u.state # Target
    BY <1>3, StatesAssumption DEF Receive, FailsNow, Ignored
  <2>2. Verdict' = "failed"
    BY <2>1 DEF Verdict
  <2>3. Reached' = Reached
    BY <1>1, <2>1 DEF Reached, Updated, Ignored
  <2>4. Watch!Fail(u.name)
    BY <1>2, <2>1, <2>2, <2>3 DEF Watch!Fail, Verdict, Reached
  <2>5. u.name \in Names
    BY <1>1, <2>1
  <2> QED BY <2>4, <2>5 DEF Watch!WatchNext
<1>4. CASE ~FailsNow(u)
  <2>1. \/ result'.why = "allInState" /\ AllInState(Updated(u)) /\ ~Ignored(u)
        \/ result' = result
    BY <1>4, <1>1 DEF Receive, Return, Because
  <2>2. Verdict' \in {"watching", "completed"} /\ (result' = result => Verdict' = "watching")
    BY <2>1, <1>1 DEF Verdict
  <2>3. CASE ~Ignored(u) /\ states[u.name] # Target /\ u.state = Target
    <3>1. u.name \in services /\ Reached' = Reached \union {u.name}
      BY <1>1, <2>3 DEF Reached, Updated, Ignored
    <3>2. Watch!Reach(u.name)
      BY <1>2, <2>2, <2>3, <3>1 DEF Watch!Reach, Verdict, Reached
    <3>3. u.name \in Names
      BY <1>1, <3>1
    <3> QED BY <3>2, <3>3 DEF Watch!WatchNext
  <2>4. CASE Ignored(u) \/ states[u.name] = Target \/ u.state # Target
    <3>1. Reached' = Reached
      BY <1>1, <2>4 DEF Reached, Updated, Ignored
    <3>2. CASE result' = result
      BY <3>1, <3>2 DEF Watch!watchVars, Reached
    <3>3. CASE result'.why = "allInState" /\ AllInState(Updated(u)) /\ ~Ignored(u)
      <4>1. u.name \in services /\ DOMAIN Updated(u) = services
        BY <1>1, <3>3 DEF Updated, Ignored
      <4>2. Updated(u) = states
        BY <1>1, <2>4, <3>3, <4>1 DEF Updated, AllInState
      <4> QED BY <4>1, <4>2, <3>3 DEF AllInState, StillWaiting, Running, Receive
    <3> QED BY <3>2, <3>3, <2>1
  <2> QED BY <2>3, <2>4
<1> QED BY <1>3, <1>4
LEMMA NextRefines == IInv /\ [Next]_vars => [Watch!WatchNext]_(Watch!watchVars)
<1> SUFFICES ASSUME IInv, [Next]_vars PROVE [Watch!WatchNext]_(Watch!watchVars)
  OBVIOUS
<1>0. TypeOK /\ StillWaiting
  BY DEF IInv
<1>1. CASE Receive
  BY <1>0, <1>1, ReceiveRefines
<1>2. CASE Subscribe \/ DelayBeforeRetry \/ Resubscribe \/ StreamOver \/ StreamCanceled
  <2>1. result.why = "pending"
    BY <1>0, <1>2 DEF TypeOK, Subscribe, DelayBeforeRetry, Resubscribe, StreamOver, StreamCanceled
  <2> QED BY <2>1, <1>2, QuietRefines
          DEF Subscribe, DelayBeforeRetry, Resubscribe, StreamOver, StreamCanceled, Return, Because
<1>3. CASE Record \/ CtxDone \/ TransientError \/ Skip \/ UNCHANGED vars
  BY <1>3, QuietRefines DEF Record, CtxDone, TransientError, Skip, vars
<1> QED BY <1>1, <1>2, <1>3 DEF Next, Client

LEMMA InitRefines == Init => Watch!WatchInit
BY StatesAssumption, VerdictOf DEF Init, Because, Watch!WatchInit, Verdict, Reached

\* The wait implements DeployWatch: one verdict, services that reached the
\* target stay there, and only a service that did not can fail the deployment.
THEOREM Refines == Spec => WatchSpec
<1>1. Init => Watch!WatchInit
  BY InitRefines
<1>2. IInv /\ [Next]_vars => [Watch!WatchNext]_(Watch!watchVars)
  BY NextRefines
<1> QED BY <1>1, <1>2, IInvHolds, PTL DEF Spec, WatchSpec, Watch!WatchSpec
=============================================================================
