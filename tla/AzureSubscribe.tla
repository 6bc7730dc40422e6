--------------------------- MODULE AzureSubscribe ---------------------------
(***************************************************************************)
(* The stream of service updates of the Azure provider                     *)
(* (byoc/azure/subscribe.go), read by WaitServiceState with target         *)
(* DEPLOYMENT_COMPLETED.  One goroutine per service polls its Container    *)
(* Apps revision until that has an outcome, one polls the runs of the      *)
(* image builds for ever; all of them send on one unbuffered channel, and  *)
(* a last one closes it when they are gone.                                *)
(***************************************************************************)
CONSTANTS
  Services,   \* the services waited for
  RunIds,     \* the runs of their image builds since the deployment started
  TaskOf      \* the service a run builds the image of

ASSUME RunsAssumption == TaskOf \in [RunIds -> Services]

VARIABLES
  revision,   \* what GetRevisionState says of the revision of a service
  run,        \* the status ListRunsSince gives of a run
  wasUp,      \* services whose revision has been up
  ctxDone,    \* the caller's context is over
  canceled,   \* subscribe has returned, and its context is canceled
  pc,         \* of pollRevision: "poll", "send" or "done"
  last,       \* lastState and lastStatus of pollRevision, one value for both
  buildPc,    \* of pollBuilds: "poll" or "done"
  infos,      \* the runs of its last list still to be looked at, with their status
  lastStatus, \* of pollBuilds
  closed,     \* eventCh is closed
  states,     \* serviceStates of WaitServiceState
  result      \* of WaitServiceState

cloud == <<revision, run, wasUp>>
pollers == <<pc, last>>
builder == <<buildPc, infos, lastStatus>>
wait == <<canceled, states, result>>
vars == <<cloud, ctxDone, pollers, builder, closed, wait>>

(***************************************************************************)
(* mapRevisionState tells four kinds of revisions apart: not there yet;    *)
(* being provisioned, started, or running but unhealthy; running and not   *)
(* unhealthy; and failed, degraded, stopped or deprovisioned.              *)
(***************************************************************************)
Revisions == {"absent", "pending", "up", "down"}

\* Fault of RevisionState: a service is complete before it is healthy.
HastyState == [absent |-> "UPDATE_QUEUED", pending |-> "DEPLOYMENT_COMPLETED",
               up |-> "DEPLOYMENT_COMPLETED", down |-> "DEPLOYMENT_FAILED"]

RevisionState == [absent |-> "UPDATE_QUEUED", pending |-> "DEPLOYMENT_PENDING",
                  up |-> "DEPLOYMENT_COMPLETED", down |-> "DEPLOYMENT_FAILED"]

\* Fault of Terminal: the polling also ends at a revision that is pending.
TerminalEarly(r) == r # "absent"

Terminal(r) == r \in {"up", "down"}

\* mapRunStatus: a run that is queued or started counts as running, one with
\* an error, a timeout or a cancellation as failed.
Statuses == {"none", "Running", "Succeeded", "Failed"}
RunState == [Running |-> "BUILD_RUNNING", Succeeded |-> "BUILD_STOPPING", Failed |-> "BUILD_FAILED"]

Target == "DEPLOYMENT_COMPLETED"
Failures == {"BUILD_FAILED", "DEPLOYMENT_FAILED"}

Waiting == result = "waiting"

Init ==
  /\ revision = [s \in Services |-> "absent"]
  /\ run = [i \in RunIds |-> "none"]
  /\ wasUp = {}
  /\ ctxDone = FALSE /\ canceled = FALSE
  /\ pc = [s \in Services |-> "poll"]
  /\ last = [s \in Services |-> "none"]
  /\ buildPc = "poll" /\ infos = {} /\ lastStatus = [i \in RunIds |-> "none"]
  /\ closed = FALSE
  /\ states = [s \in Services |-> "NOT_SPECIFIED"]
  /\ result = "waiting"

(***************************************************************************)
(* The cloud.                                                              *)
(***************************************************************************)
\* A revision that is up may be found unhealthy later, and it may fail for good.
Becomes(s, r) ==
  /\ Waiting
  /\ revision[s] # "down" /\ r # "absent" /\ r # revision[s]
  /\ revision' = [revision EXCEPT ![s] = r]
  /\ wasUp' = IF r = "up" THEN wasUp \union {s} ELSE wasUp
  /\ UNCHANGED <<run, ctxDone, pollers, builder, closed, wait>>

RunBecomes(i, status) ==
  /\ Waiting
  /\ run[i] \notin {"Succeeded", "Failed"} /\ status \notin {"none", run[i]}
  /\ run' = [run EXCEPT ![i] = status]
  /\ UNCHANGED <<revision, wasUp, ctxDone, pollers, builder, closed, wait>>

CtxDone ==
  /\ ~ctxDone
  /\ ctxDone' = TRUE
  /\ UNCHANGED <<cloud, pollers, builder, closed, wait>>

(***************************************************************************)
(* WaitServiceState, and the range of subscribe over the channel.  A wait  *)
(* that ends stops the iterator: subscribe returns and cancels.            *)
(***************************************************************************)
\* Fault of Heard: the target state is left again.
HeardAlways(s, state) == [states EXCEPT ![s] = state]

Heard(s, state) ==
  IF states[s] = Target THEN states ELSE [states EXCEPT ![s] = state]

Verdict(f) ==
  IF \E s \in Services : f[s] \in Failures THEN "failed"
  ELSE IF \A s \in Services : f[s] = Target THEN "completed" ELSE "waiting"

\* The consumer receives what a goroutine sends: it is always ready to while it waits.
Receive(s, state) ==
  /\ Waiting
  /\ states' = Heard(s, state)
  /\ result' = Verdict(Heard(s, state))
  /\ canceled' = (Verdict(Heard(s, state)) # "waiting")

\* The channel is closed: the iterator and the wait end, without an error.
StreamEnds ==
  /\ Waiting /\ closed
  /\ result' = "streamEnd" /\ canceled' = TRUE
  /\ UNCHANGED <<states, cloud, ctxDone, pollers, builder, closed>>

(***************************************************************************)
(* The goroutines.                                                         *)
(***************************************************************************)
\* Fault of Over: they only watch the context of the caller.
OverOutside == ctxDone

\* <-ctx.Done() of the context that subscribe made.
Over == ctxDone \/ canceled

\* GetRevisionState.  A poll that fails, or finds what was said last, changes
\* nothing; the next tick polls again.
Poll(s) ==
  /\ pc[s] = "poll" /\ revision[s] # last[s]
  /\ pc' = [pc EXCEPT ![s] = "send"]
  /\ last' = [last EXCEPT ![s] = revision[s]]
  /\ UNCHANGED <<cloud, ctxDone, builder, closed, wait>>

\* The select of emit, and the end of a poller that had an outcome to tell.
Send(s) ==
  /\ pc[s] = "send"
  /\ Receive(s, RevisionState[last[s]])
  /\ pc' = [pc EXCEPT ![s] = IF Terminal(last[s]) THEN "done" ELSE "poll"]
  /\ UNCHANGED <<last, cloud, ctxDone, builder, closed>>

\* A poll that fails, or either select, when the context is over.
Quit(s) ==
  /\ pc[s] # "done" /\ Over
  /\ pc' = [pc EXCEPT ![s] = "done"]
  /\ UNCHANGED <<last, cloud, ctxDone, builder, closed, wait>>

\* Runs whose status has changed since it was last sent.
News == {i \in RunIds : run[i] \notin {"none", lastStatus[i]}}

\* ListRunsSince; it returns what it has when a page cannot be read.
PollBuilds ==
  /\ buildPc = "poll" /\ infos = {}
  /\ \E listed \in SUBSET News \ {{}} :
       infos' = {[id |-> i, status |-> run[i]] : i \in listed}
  /\ UNCHANGED <<buildPc, lastStatus, cloud, ctxDone, pollers, closed, wait>>

\* The next run of the list is sent.
SendBuild(info) ==
  /\ buildPc = "poll" /\ info \in infos
  /\ infos' = infos \ {info}
  /\ lastStatus' = [lastStatus EXCEPT ![info.id] = info.status]
  /\ Receive(TaskOf[info.id], RunState[info.status])
  /\ UNCHANGED <<buildPc, cloud, ctxDone, pollers, closed>>

QuitBuilds ==
  /\ buildPc = "poll" /\ Over
  /\ buildPc' = "done" /\ infos' = {}
  /\ UNCHANGED <<lastStatus, cloud, ctxDone, pollers, closed, wait>>

\* wg.Wait, and the close.
Close ==
  /\ ~closed
  /\ buildPc = "done" /\ \A s \in Services : pc[s] = "done"
  /\ closed' = TRUE
  /\ UNCHANGED <<cloud, ctxDone, pollers, builder, wait>>

Goroutines ==
  \/ \E s \in Services : Poll(s) \/ Send(s) \/ Quit(s)
  \/ PollBuilds \/ QuitBuilds \/ \E info \in infos : SendBuild(info)
  \/ Close \/ StreamEnds

Next ==
  \/ \E s \in Services, r \in Revisions : Becomes(s, r)
  \/ \E i \in RunIds, status \in Statuses : RunBecomes(i, status)
  \/ CtxDone
  \/ Goroutines

Spec == Init /\ [][Next]_vars

\* Some goroutine moves as long as one can: polls do not fail for ever, and a
\* select whose context is over does not wait for ever.  That is enough, since
\* without a change in the cloud they can only make finitely many steps.
FairSpec == Spec /\ WF_vars(Goroutines)

-----------------------------------------------------------------------------
\* Types of the variables.
TypeOK ==
  /\ revision \in [Services -> Revisions]
  /\ run \in [RunIds -> Statuses]
  /\ wasUp \subseteq Services
  /\ ctxDone \in BOOLEAN /\ canceled \in BOOLEAN /\ closed \in BOOLEAN
  /\ pc \in [Services -> {"poll", "send", "done"}]
  /\ last \in [Services -> Revisions \union {"none"}]
  /\ buildPc \in {"poll", "done"}
  /\ infos \subseteq [id : RunIds, status : Statuses \ {"none"}]
  /\ lastStatus \in [RunIds -> Statuses]
  /\ states \in [Services -> {"NOT_SPECIFIED", "UPDATE_QUEUED", "DEPLOYMENT_PENDING"}
                               \union {RunState[x] : x \in DOMAIN RunState} \union Failures \union {Target}]
  /\ result \in {"waiting", "completed", "failed", "streamEnd"}

\* No service is left with nobody watching it: while the wait and its context
\* last, a poller is gone only when the wait knows the service to be complete
\* (subscribe.go:158), and the channel stays open (subscribe.go:109).
EndedPollerTold ==
  Waiting /\ ~ctxDone =>
    /\ ~closed
    /\ \A s \in Services : pc[s] = "done" => states[s] = Target

\* The wait completes only if every revision was up at some time, and fails
\* only for a run or a revision that failed; a channel that is closed early
\* ends it only with its context.
VerdictIsReal ==
  /\ result = "completed" => wasUp = Services
  /\ result = "failed" =>
       (\E s \in Services : revision[s] = "down") \/ (\E i \in RunIds : run[i] = "Failed")
  /\ result = "streamEnd" => ctxDone

\* With goroutines that tell of a service independently, builds of it after its
\* revision included, the wait still implements the deployment watch of DeployWatch.
Watch == INSTANCE DeployWatch WITH
  Names <- Services,
  reached <- {s \in Services : states[s] = Target},
  verdict <- CASE result = "waiting" -> "watching"
               [] result = "streamEnd" -> "detached"
               [] OTHER -> result
WatchSpec == Watch!WatchSpec

\* Every service ends up: the wait comes to an end, although no goroutine
\* would end the stream ("the aggregator only exits when the consumer
\* cancels", subscribe.go:50).
CompletionNoticed ==
  <>[](\A s \in Services : revision[s] = "up") => <>~Waiting

\* When the wait or its context is over, every goroutine ends, also one that
\* has something to send to a consumer that is gone, and the channel is closed.
GoroutinesEnd == (ctxDone \/ ~Waiting) ~> closed
=============================================================================
