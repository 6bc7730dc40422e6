----------------------- MODULE AzureSubscribe_proofs -----------------------
(***************************************************************************)
(* What the stream of the Azure provider guarantees for any number of      *)
(* services and runs of builds: no service is left without a poller before *)
(* the wait knows it to be complete, the verdict of the wait is real, and  *)
(* the wait implements the deployment watch of DeployWatch.                *)
(***************************************************************************)
EXTENDS AzureSubscribe, TLAPS

\* subscribe cancels its context when the wait has a verdict, and only then;
\* the builds are polled until a context is over.
Stopped ==
  /\ canceled <=> ~Waiting
  /\ buildPc = "done" => Over

\* What is said, or about to be said, of a service is or was so.
SaidIsReal ==
  \A s \in Services :
    /\ "up" \in {revision[s], last[s]} \/ states[s] = Target => s \in wasUp
    /\ last[s] = "down" => revision[s] = "down"
    /\ pc[s] = "send" => last[s] # "none"

RunsAreReal ==
  \A info \in infos : info.status = "Failed" => run[info.id] = "Failed"

\* A failure that was heard of has ended the wait.
NoFailureHeard == Waiting => \A s \in Services : states[s] \notin Failures

IInv ==
  /\ TypeOK
  /\ Stopped /\ EndedPollerTold
  /\ SaidIsReal /\ RunsAreReal /\ NoFailureHeard /\ VerdictIsReal

SomethingFailed ==
  (\E s \in Services : revision[s] = "down") \/ (\E i \in RunIds : run[i] = "Failed")

ServiceStates ==
  {"NOT_SPECIFIED", "UPDATE_QUEUED", "DEPLOYMENT_PENDING"}
    \union {RunState[x] : x \in DOMAIN RunState} \union Failures \union {Target}

-----------------------------------------------------------------------------
LEMMA InitIInv == Init => IInv
<1> SUFFICES ASSUME Init PROVE IInv
  OBVIOUS
<1>1. TypeOK
  BY DEF Init, TypeOK, Revisions, Statuses
<1>2. Stopped /\ EndedPollerTold /\ SaidIsReal
  BY DEF Init, Stopped, EndedPollerTold, SaidIsReal, Waiting, Over, Target
<1>3. RunsAreReal /\ NoFailureHeard /\ VerdictIsReal
  BY DEF Init, RunsAreReal, NoFailureHeard, VerdictIsReal, Waiting, Failures
<1> QED
  BY <1>1, <1>2, <1>3 DEF IInv

\* The cloud: a revision that is down stays down and a run that failed stays so.
LEMMA CloudStep ==
  ASSUME IInv,
         \/ \E s \in Services, r \in Revisions : Becomes(s, r)
         \/ \E i \in RunIds, status \in Statuses : RunBecomes(i, status)
         \/ CtxDone
  PROVE  IInv'
<1> USE DEF IInv, cloud, pollers, builder, wait
<1>1. CASE \E s \in Services, r \in Revisions : Becomes(s, r)
  <2> PICK s \in Services, r \in Revisions : Becomes(s, r)
    BY <1>1
  <2> USE DEF Becomes
  <2>1. TypeOK'
    BY DEF TypeOK
  <2>2. Stopped' /\ EndedPollerTold' /\ RunsAreReal' /\ NoFailureHeard'
    BY DEF Stopped, EndedPollerTold, RunsAreReal, NoFailureHeard, Waiting, Over
  <2>3. SaidIsReal'
    BY DEF TypeOK, SaidIsReal
  <2>4. VerdictIsReal'
    BY DEF VerdictIsReal, Waiting
  <2> QED
    BY <2>1, <2>2, <2>3, <2>4
<1>2. CASE \E i \in RunIds, status \in Statuses : RunBecomes(i, status)
  <2> PICK i \in RunIds, status \in Statuses : RunBecomes(i, status)
    BY <1>2
  <2> USE DEF RunBecomes
  <2>1. TypeOK'
    BY DEF TypeOK
  <2>2. Stopped' /\ EndedPollerTold' /\ SaidIsReal' /\ NoFailureHeard'
    BY DEF Stopped, EndedPollerTold, SaidIsReal, NoFailureHeard, Waiting, Over
  <2>3. RunsAreReal'
    BY DEF TypeOK, RunsAreReal
  <2>4. VerdictIsReal'
    BY DEF VerdictIsReal, Waiting
  <2> QED
    BY <2>1, <2>2, <2>3, <2>4
<1>3. CASE CtxDone
  <2> USE <1>3 DEF CtxDone
  <2>1. TypeOK' /\ Stopped' /\ EndedPollerTold'
    BY DEF TypeOK, Stopped, EndedPollerTold, Waiting, Over
  <2>2. SaidIsReal' /\ RunsAreReal' /\ NoFailureHeard' /\ VerdictIsReal'
    BY DEF SaidIsReal, RunsAreReal, NoFailureHeard, VerdictIsReal, Waiting
  <2> QED
    BY <2>1, <2>2
<1> QED
  BY <1>1, <1>2, <1>3

\* What the wait makes of one update that is real.
LEMMA Receiving ==
  ASSUME IInv, NEW s \in Services, NEW state \in ServiceStates, Receive(s, state),
         state = Target => s \in wasUp,
         state \in Failures => SomethingFailed,
         UNCHANGED <<cloud, ctxDone>>
  PROVE  /\ states' \in [Services -> ServiceStates]
         /\ result' \in {"waiting", "completed", "failed"}
         /\ canceled' \in BOOLEAN /\ (canceled' <=> ~Waiting')
         /\ \A x \in Services : states[x] = Target => states'[x] = Target
         /\ \A x \in Services : states'[x] = Target => x \in wasUp
         /\ state = Target => states'[s] = Target
         /\ state \in Failures => ~Waiting' \/ states'[s] = Target
         /\ NoFailureHeard' /\ VerdictIsReal'
<1> USE DEF IInv
<1>1. states' = Heard(s, state) /\ states \in [Services -> ServiceStates]
  BY DEF Receive, TypeOK, ServiceStates
<1>2. states' \in [Services -> ServiceStates]
  BY <1>1 DEF Heard
<1>3. \A x \in Services : states[x] = Target => states'[x] = Target
  BY <1>1 DEF Heard
<1>4. \A x \in Services : states'[x] = Target => x \in wasUp
  BY <1>1 DEF Heard, SaidIsReal
<1>5. states[s] = Target \/ states'[s] = state
  BY <1>1 DEF Heard
<1>6. result' = Verdict(states') /\ canceled' = (Verdict(states') # "waiting")
  BY <1>1 DEF Receive
<1>7. Waiting /\ \A x \in Services : states[x] \notin Failures
  BY DEF Receive, NoFailureHeard
<1>8. (\E x \in Services : states'[x] \in Failures) => SomethingFailed
  BY <1>1, <1>7 DEF Heard
<1>9. NoFailureHeard'
  BY <1>6 DEF NoFailureHeard, Verdict, Waiting
<1>10. VerdictIsReal'
  <2>1. SomethingFailed' <=> SomethingFailed
    BY DEF SomethingFailed, cloud
  <2> QED
    BY <1>4, <1>6, <1>8, <2>1 DEF VerdictIsReal, Verdict, SomethingFailed, TypeOK, cloud
<1>11. state \in Failures => ~Waiting' \/ states'[s] = Target
  BY <1>3, <1>5, <1>6 DEF Verdict, Waiting
<1> QED
  BY <1>2, <1>3, <1>4, <1>5, <1>6, <1>9, <1>10, <1>11 DEF Verdict, Waiting

LEMMA PollStep ==
  ASSUME IInv, NEW s \in Services, Poll(s)
  PROVE  IInv'
<1> USE DEF IInv, Poll, cloud, builder, wait
<1>1. TypeOK'
  BY DEF TypeOK
<1>2. Stopped' /\ RunsAreReal' /\ NoFailureHeard' /\ VerdictIsReal'
  BY DEF Stopped, RunsAreReal, NoFailureHeard, VerdictIsReal, Waiting, Over
<1>3. EndedPollerTold'
  BY DEF TypeOK, EndedPollerTold, Waiting
<1>4. SaidIsReal'
  BY DEF TypeOK, SaidIsReal, Revisions
<1> QED
  BY <1>1, <1>2, <1>3, <1>4

\* A poller that ends has told an outcome: the service is complete or the wait
\* is over.
LEMMA SendStep ==
  ASSUME IInv, NEW s \in Services, Send(s)
  PROVE  IInv'
<1> USE DEF IInv
<1> DEFINE state == RevisionState[last[s]]
<1>1. last[s] \in Revisions /\ Receive(s, state) /\ UNCHANGED <<last, cloud, ctxDone, builder, closed>>
  BY DEF Send, SaidIsReal, TypeOK
<1>2. /\ state \in ServiceStates
      /\ state = Target <=> last[s] = "up"
      /\ state \in Failures <=> last[s] = "down"
  BY <1>1 DEF RevisionState, Revisions, ServiceStates, Target, Failures
<1>3. /\ state = Target => s \in wasUp
      /\ state \in Failures => SomethingFailed
  BY <1>2 DEF SaidIsReal, SomethingFailed
<1> HIDE DEF state
<1>4. /\ states' \in [Services -> ServiceStates]
      /\ result' \in {"waiting", "completed", "failed"}
      /\ canceled' \in BOOLEAN /\ (canceled' <=> ~Waiting')
      /\ \A x \in Services : states[x] = Target => states'[x] = Target
      /\ \A x \in Services : states'[x] = Target => x \in wasUp
      /\ state = Target => states'[s] = Target
      /\ state \in Failures => ~Waiting' \/ states'[s] = Target
      /\ NoFailureHeard' /\ VerdictIsReal'
  BY <1>1, <1>2, <1>3, Receiving
<1>5. /\ pc' \in [Services -> {"poll", "send", "done"}]
      /\ pc'[s] = "done" => last[s] \in {"up", "down"}
      /\ pc'[s] # "send"
      /\ \A x \in Services \ {s} : pc'[x] = pc[x]
  BY DEF Send, TypeOK, Terminal
<1>6. TypeOK'
  BY <1>1, <1>4, <1>5 DEF TypeOK, ServiceStates, cloud, builder
<1>7. Waiting /\ (Stopped' <=> (buildPc = "done" => Over'))
  BY <1>1, <1>4 DEF Receive, Stopped, builder
<1>8. Stopped'
  BY <1>1, <1>7 DEF Stopped, Over, Waiting
<1>9. EndedPollerTold'
  BY <1>1, <1>2, <1>4, <1>5, <1>7 DEF EndedPollerTold
<1>10. SaidIsReal'
  BY <1>1, <1>4, <1>5 DEF SaidIsReal, cloud
<1>11. RunsAreReal'
  BY <1>1 DEF RunsAreReal, builder, cloud
<1> QED
  BY <1>4, <1>6, <1>8, <1>9, <1>10, <1>11

LEMMA SendBuildStep ==
  ASSUME IInv, NEW info \in infos, SendBuild(info)
  PROVE  IInv'
<1> USE DEF IInv
<1> DEFINE s == TaskOf[info.id]
           state == RunState[info.status]
<1>1. info.id \in RunIds /\ info.status \in {"Running", "Succeeded", "Failed"} /\ s \in Services
  BY RunsAssumption DEF TypeOK, Statuses
<1>2. Receive(s, state) /\ UNCHANGED <<buildPc, cloud, ctxDone, pollers, closed>>
  BY DEF SendBuild
<1>3. /\ state \in ServiceStates
      /\ state # Target
      /\ state \in Failures <=> info.status = "Failed"
  BY <1>1 DEF RunState, ServiceStates, Target, Failures
<1>4. state \in Failures => SomethingFailed
  BY <1>1, <1>3 DEF RunsAreReal, SomethingFailed
<1>5. infos' = infos \ {info} /\ lastStatus' = [lastStatus EXCEPT ![info.id] = info.status]
  BY DEF SendBuild
<1> HIDE DEF s, state
<1>6. /\ states' \in [Services -> ServiceStates]
      /\ result' \in {"waiting", "completed", "failed"}
      /\ canceled' \in BOOLEAN /\ (canceled' <=> ~Waiting')
      /\ \A x \in Services : states[x] = Target => states'[x] = Target
      /\ \A x \in Services : states'[x] = Target => x \in wasUp
      /\ NoFailureHeard' /\ VerdictIsReal'
  BY <1>1, <1>2, <1>3, <1>4, Receiving
<1>7. infos' \subseteq [id : RunIds, status : Statuses \ {"none"}] /\ lastStatus' \in [RunIds -> Statuses]
  BY <1>1, <1>5 DEF TypeOK, Statuses
<1>8. TypeOK'
  BY <1>2, <1>6, <1>7 DEF TypeOK, ServiceStates, cloud, pollers
<1>9. Waiting /\ buildPc = "poll"
  BY <1>2 DEF Receive, SendBuild
<1>10. Stopped'
  BY <1>2, <1>6, <1>9 DEF Stopped
<1>11. EndedPollerTold'
  BY <1>2, <1>6, <1>9 DEF EndedPollerTold, pollers
<1>12. SaidIsReal'
  BY <1>2, <1>6 DEF SaidIsReal, pollers, cloud
<1>13. RunsAreReal'
  BY <1>2, <1>5 DEF RunsAreReal, cloud
<1> QED
  BY <1>6, <1>8, <1>10, <1>11, <1>12, <1>13

LEMMA PollBuildsStep ==
  ASSUME IInv, PollBuilds
  PROVE  IInv'
<1> USE DEF IInv, PollBuilds, cloud, pollers, wait
<1>1. TypeOK'
  BY DEF TypeOK, News
<1>2. Stopped' /\ EndedPollerTold' /\ SaidIsReal' /\ NoFailureHeard' /\ VerdictIsReal'
  BY DEF Stopped, EndedPollerTold, SaidIsReal, NoFailureHeard, VerdictIsReal, Waiting, Over
<1>3. RunsAreReal'
  BY DEF RunsAreReal
<1> QED
  BY <1>1, <1>2, <1>3

\* A goroutine quits only when a context is over, and the channel is closed
\* only after that.
LEMMA EndStep ==
  ASSUME IInv, (\E s \in Services : Quit(s)) \/ QuitBuilds \/ Close \/ StreamEnds
  PROVE  IInv'
<1> USE DEF IInv, Quit, QuitBuilds, Close, StreamEnds, cloud, pollers, builder, wait
<1>1. TypeOK'
  BY DEF TypeOK
<1>2. Stopped' /\ SaidIsReal' /\ RunsAreReal' /\ NoFailureHeard'
  <2>1. Stopped' /\ NoFailureHeard' /\ RunsAreReal'
    BY DEF Stopped, RunsAreReal, NoFailureHeard, Waiting, Over
  <2>2. SaidIsReal'
    BY DEF TypeOK, SaidIsReal
  <2> QED
    BY <2>1, <2>2
<1>3. EndedPollerTold'
  BY DEF EndedPollerTold, Stopped, Waiting, Over
<1>4. VerdictIsReal'
  BY DEF VerdictIsReal, EndedPollerTold, Waiting
<1> QED
  BY <1>1, <1>2, <1>3, <1>4

LEMMA NextIInv == IInv /\ [Next]_vars => IInv'
<1> SUFFICES ASSUME IInv, [Next]_vars PROVE IInv'
  OBVIOUS
<1>1. CASE Goroutines
  BY <1>1, PollStep, SendStep, PollBuildsStep, SendBuildStep, EndStep DEF Goroutines
<1>2. CASE UNCHANGED vars
  <2> USE <1>2 DEF vars, cloud, pollers, builder, wait
  <2>1. TypeOK' /\ Stopped' /\ EndedPollerTold'
    BY DEF IInv, TypeOK, Stopped, EndedPollerTold, Waiting, Over
  <2>2. SaidIsReal' /\ RunsAreReal' /\ NoFailureHeard' /\ VerdictIsReal'
    BY DEF IInv, SaidIsReal, RunsAreReal, NoFailureHeard, VerdictIsReal, Waiting
  <2> QED
    BY <2>1, <2>2 DEF IInv
<1> QED
  BY <1>1, <1>2, CloudStep DEF Next

LEMMA Invariance == Spec => []IInv
  BY InitIInv, NextIInv, PTL DEF Spec

\* Every variable keeps its type.
THEOREM TypeCorrect == Spec => []TypeOK
<1>1. IInv => TypeOK
  BY DEF IInv
<1> QED
  BY <1>1, Invariance, PTL

\* While the wait and its context last, a poller is gone only when the wait
\* knows its service to be complete, and the channel stays open.
THEOREM PollersTell == Spec => []EndedPollerTold
<1>1. IInv => EndedPollerTold
  BY DEF IInv
<1> QED
  BY <1>1, Invariance, PTL

\* The wait completes, fails and ends early only for a reason in the cloud.
THEOREM RealVerdict == Spec => []VerdictIsReal
<1>1. IInv => VerdictIsReal
  BY DEF IInv
<1> QED
  BY <1>1, Invariance, PTL

-----------------------------------------------------------------------------
\* The wait is over with the last service that reaches the target.
StillWaiting == Waiting /\ Services # {} => \E s \in Services : states[s] # Target

LEMMA InitStillWaiting == Init => StillWaiting
BY DEF Init, StillWaiting, Target

LEMMA NextStillWaiting == StillWaiting /\ [Next]_vars => StillWaiting'
<1> SUFFICES ASSUME StillWaiting, [Next]_vars PROVE StillWaiting'
  OBVIOUS
<1>1. CASE result' = Verdict(states')
  BY <1>1 DEF StillWaiting, Waiting, Verdict
<1>2. CASE UNCHANGED <<states, result>>
  BY <1>2 DEF StillWaiting, Waiting
<1>3. CASE StreamEnds
  BY <1>3 DEF StreamEnds, StillWaiting, Waiting
<1>4. CASE \E s \in Services : Send(s)
  BY <1>1, <1>4 DEF Send, Receive
<1>5. CASE \E info \in infos : SendBuild(info)
  BY <1>1, <1>5 DEF SendBuild, Receive
<1> QED
  BY <1>2, <1>3, <1>4, <1>5
  DEF Next, Goroutines, Becomes, RunBecomes, CtxDone, Poll, Quit, PollBuilds, QuitBuilds, Close, vars, wait

\* The refinement mapping.
Reached == {s \in Services : states[s] = Target}
WatchVerdict == CASE result = "waiting" -> "watching"
                  [] result = "streamEnd" -> "detached"
                  [] OTHER -> result

LEMMA WatchVerdictOf ==
  /\ result = "waiting" => WatchVerdict = "watching"
  /\ result = "completed" => WatchVerdict = "completed"
  /\ result = "failed" => WatchVerdict = "failed"
  /\ result = "streamEnd" => WatchVerdict = "detached"
BY DEF WatchVerdict

\* What a goroutine sends is a Reach, a Fail or a stutter of the watch.
LEMMA ReceiveRefines ==
  ASSUME TypeOK, NoFailureHeard, StillWaiting, NEW s \in Services, NEW state, Receive(s, state)
  PROVE  [Watch!WatchNext]_(Watch!watchVars)
<1>1. /\ result = "waiting" /\ states' = Heard(s, state) /\ result' = Verdict(states')
      /\ \A x \in Services : states[x] \notin Failures
      /\ states = [x \in Services |-> states[x]]
  BY DEF Receive, Waiting, NoFailureHeard, TypeOK
<1>2. WatchVerdict = "watching"
  BY <1>1, WatchVerdictOf
<1>3. CASE states[s] = Target
  <2>1. states' = states
    BY <1>1, <1>3 DEF Heard
  <2>2. result' = "waiting"
    BY <1>1, <2>1 DEF Verdict, StillWaiting, Waiting
  <2> QED
    BY <1>1, <2>1, <2>2 DEF Watch!watchVars
<1>4. CASE states[s] # Target /\ state = Target
  <2>1. states' = [states EXCEPT ![s] = Target]
    BY <1>1, <1>4 DEF Heard
  <2>2. Reached' = Reached \union {s} /\ s \notin Reached
    BY <1>1, <1>4, <2>1 DEF Reached
  <2>3. \A x \in Services : states'[x] \notin Failures
    BY <1>1, <2>1 DEF Target, Failures
  <2>4. result' \in {"waiting", "completed"}
    BY <1>1, <2>3 DEF Verdict
  <2>5. WatchVerdict' \in {"watching", "completed"}
    BY <2>4 DEF WatchVerdict
  <2> QED
    BY <1>2, <2>2, <2>5 DEF Watch!WatchNext, Watch!Reach, Reached, WatchVerdict
<1>5. CASE states[s] # Target /\ state # Target
  <2>1. states' = [states EXCEPT ![s] = state]
    BY <1>1, <1>5 DEF Heard
  <2>2. Reached' = Reached /\ s \notin Reached
    BY <1>1, <1>5, <2>1 DEF Reached
  <2>3. result' \in {"waiting", "failed"}
    BY <1>1, <1>5, <2>1 DEF Verdict
  <2>4. CASE result' = "waiting"
    BY <1>1, <2>2, <2>4 DEF Watch!watchVars, Reached
  <2>5. CASE result' = "failed"
    <3>1. WatchVerdict' = "failed"
      BY <2>5 DEF WatchVerdict
    <3> QED
      BY <1>2, <2>2, <3>1 DEF Watch!WatchNext, Watch!Fail, Reached, WatchVerdict
  <2> QED
    BY <2>3, <2>4, <2>5
<1> QED
  BY <1>3, <1>4, <1>5

LEMMA NextRefines == IInv /\ StillWaiting /\ [Next]_vars => [Watch!WatchNext]_(Watch!watchVars)
<1> SUFFICES ASSUME IInv, StillWaiting, [Next]_vars PROVE [Watch!WatchNext]_(Watch!watchVars)
  OBVIOUS
<1>1. TypeOK /\ NoFailureHeard
  BY DEF IInv
<1>2. CASE UNCHANGED <<states, result>>
  BY <1>2 DEF Watch!watchVars
<1>3. CASE StreamEnds
  <2>1. result = "waiting" /\ result' = "streamEnd" /\ states' = states
    BY <1>3 DEF StreamEnds, Waiting
  <2>2. WatchVerdict = "watching" /\ WatchVerdict' = "detached" /\ Reached' = Reached
    BY <2>1 DEF WatchVerdict, Reached
  <2> QED
    BY <2>2 DEF Watch!WatchNext, Watch!Detach, WatchVerdict, Reached
<1>4. CASE \E s \in Services : Send(s)
  <2>1. PICK s \in Services : Receive(s, RevisionState[last[s]])
    BY <1>4 DEF Send
  <2> QED
    BY <1>1, <2>1, ReceiveRefines
<1>5. CASE \E info \in infos : SendBuild(info)
  <2>1. PICK info \in infos : Receive(TaskOf[info.id], RunState[info.status])
    BY <1>5 DEF SendBuild
  <2>2. TaskOf[info.id] \in Services
    BY <1>1, RunsAssumption DEF TypeOK, RunsAssumption
  <2> QED
    BY <1>1, <2>1, <2>2, ReceiveRefines
<1> QED
  BY <1>2, <1>3, <1>4, <1>5
  DEF Next, Goroutines, Becomes, RunBecomes, CtxDone, Poll, Quit, PollBuilds, QuitBuilds, Close, vars, wait

LEMMA InitRefines == Init => Watch!WatchInit
<1> SUFFICES ASSUME Init PROVE Watch!WatchInit
  OBVIOUS
<1>1. WatchVerdict = "watching"
  BY WatchVerdictOf DEF Init
<1>2. Reached = {}
  BY DEF Init, Reached, Target
<1> QED
  BY <1>1, <1>2 DEF Watch!WatchInit, Reached, WatchVerdict

\* The wait implements DeployWatch: one verdict, a service that has reached the
\* target stays there whatever its build or its revision says later, and only a
\* service that has not can fail the deployment.
THEOREM Refines == Spec => WatchSpec
<1>1. Init => Watch!WatchInit
  BY InitRefines
<1>2. IInv /\ StillWaiting /\ [Next]_vars => [Watch!WatchNext]_(Watch!watchVars)
  BY NextRefines
<1>3. Spec => []StillWaiting
  BY InitStillWaiting, NextStillWaiting, PTL DEF Spec
<1> QED
  BY <1>1, <1>2, <1>3, Invariance, PTL DEF Spec, WatchSpec, Watch!WatchSpec
=============================================================================
