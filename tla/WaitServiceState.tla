-------------------------- MODULE WaitServiceState --------------------------
(***************************************************************************)
(* WaitServiceState (pkg/cli/subscribe.go): follow a provider's stream of  *)
(* service updates until every service is in the target state, one fails,  *)
(* the stream is over, or the context is done; reconnect on transient      *)
(* errors.  The provider keeps the history of updates; a stream delivers   *)
(* it in order from where the provider opens it.  AWS and Azure open every *)
(* stream at the start of the deployment (b.cdStart), GCP opens it "now".  *)
(* On AWS the updates are made from events of ECS, and the state of an ECS *)
(* deployment is of use only after an event of a task that the deployment  *)
(* started, which names the etag it belongs to (ecs/event.go).             *)
(***************************************************************************)
EXTENDS Integers, Sequences

CONSTANTS
  Names,          \* service names updates may carry
  States,         \* values of defangv1.ServiceState
  NotSpecified,   \* ServiceState_NOT_SPECIFIED
  Target,         \* the targetState argument
  Failures,       \* BUILD_FAILED and DEPLOYMENT_FAILED
  Says,           \* the states that each kind of event may report
  Replay,         \* where Subscribe opens a stream: "history" or "live"
  MaxEvents,      \* bound: updates the provider ever records
  MaxDrops        \* bound: transient stream errors

\* "task", "deployment": events of ECS; "update": what needs no other event, the
\* messages of AWS builds and all that the other providers report.
Kinds == {"update", "task", "deployment"}

ASSUME StatesAssumption ==
  /\ NotSpecified \in States
  /\ Target \in States \ {NotSpecified}
  /\ Failures \subseteq States \ {NotSpecified, Target}
  /\ Says \in [Kinds -> SUBSET States]

ASSUME BoundsAssumption ==
  /\ MaxEvents \in Nat
  /\ MaxDrops \in Nat
  /\ Replay \in {"history", "live"}

VARIABLES
  services,    \* the services argument, as a set
  history,     \* every update the provider has recorded, oldest first
  cursor,      \* how many of them the open stream is past
  drops,       \* transient errors so far
  ctxDone,     \* the caller's context is canceled or past its deadline
  pc,          \* "subscribe", "next", "delay", "resubscribe" or "returned"
  etags,       \* services whose ECS deployment is in DeploymentEtags, which outlives a stream
  states,      \* serviceStates
  delivered,   \* updates next() has returned, over all streams
  result       \* why the call returned, and for which service

provider == <<history, drops, ctxDone>>
vars == <<services, history, cursor, drops, ctxDone, pc, etags, states, delivered, result>>

Updates == {u \in [name : Names, state : States, by : Kinds] : u.state \in Says[u.by]}

Reasons == {"pending", "nothing", "allInState", "streamEnd", "failed",
            "context", "subscribe", "stream"}
NoService == "none"
Results == [why : Reasons, service : Names \union {NoService}]
Because(why) == [why |-> why, service |-> NoService]

\* next() or Subscribe may still be called; the call has not returned.
Running == pc # "returned"

Init ==
  /\ services \in SUBSET Names
  /\ history = <<>>
  /\ cursor = 0
  /\ drops = 0
  /\ ctxDone = FALSE
  /\ pc = "subscribe"
  /\ etags = {}
  /\ states = [s \in services |-> NotSpecified]
  /\ delivered = <<>>
  /\ result = Because("pending")

Return(why) ==
  /\ pc' = "returned"
  /\ result' = Because(why)

(***************************************************************************)
(* The environment: the provider records updates once a stream was opened, *)
(* and the caller's context may end at any time.                           *)
(***************************************************************************)
Record ==
  /\ pc # "subscribe"
  /\ Len(history) < MaxEvents
  /\ \E u \in Updates : history' = Append(history, u)
  /\ UNCHANGED <<services, cursor, drops, ctxDone, pc, etags, states, delivered, result>>

CtxDone ==
  /\ ~ctxDone
  /\ ctxDone' = TRUE
  /\ UNCHANGED <<services, history, cursor, drops, pc, etags, states, delivered, result>>

\* Position of a stream the provider opens now.
OpenAt == IF Replay = "history" THEN 0 ELSE Len(history)

\* Subscribe before the loop; without services there is nothing to monitor.
Subscribe ==
  /\ pc = "subscribe"
  /\ \/ services = {} /\ Return("nothing") /\ UNCHANGED cursor
     \/ services # {} /\ Return("subscribe") /\ UNCHANGED cursor
     \/ services # {} /\ pc' = "next" /\ cursor' = OpenAt /\ UNCHANGED result
  /\ UNCHANGED <<services, etags, states, delivered, provider>>

\* An ECS deployment is nobody's as long as no task of it has been read.
Unattributed(u) == u.by = "deployment" /\ u.name \notin etags

\* Fault of Learned: what a task says of its deployment is not kept.
Forgotten(u) == etags

\* ParseECSEvent remembers whose deployment started a task.
Learned(u) == IF u.by = "task" THEN etags \union {u.name} ELSE etags

\* parseSubscribeEvents drops what it cannot attribute.
Skip ==
  /\ pc = "next"
  /\ cursor < Len(history)
  /\ Unattributed(history[cursor + 1])
  /\ cursor' = cursor + 1
  /\ UNCHANGED <<services, pc, etags, states, delivered, result, provider>>

\* The first half of an iteration: an update the loop ignores, because its
\* service is not waited for or its state does not map to a ServiceState.
Ignored(u) == u.name \notin services \/ u.state = NotSpecified

\* Fault of Updated: the target state is left again.
UpdatedAlways(u) ==
  IF Ignored(u) THEN states ELSE [states EXCEPT ![u.name] = u.state]

\* serviceStates after update u: the target state is never left again.
Updated(u) ==
  IF Ignored(u) \/ states[u.name] = Target
  THEN states
  ELSE [states EXCEPT ![u.name] = u.state]

\* Fault of FailsNow: a failure counts when it is repeated.
FailsOnRepeat(u) ==
  ~Ignored(u) /\ u.state \in Failures /\ states[u.name] = u.state

\* A failure ends the wait unless the service was already in the target state.
FailsNow(u) ==
  /\ ~Ignored(u)
  /\ states[u.name] # Target
  /\ u.state \in Failures

AllInState(f) == \A s \in DOMAIN f : f[s] = Target

\* One iteration of the loop on an update.
Receive ==
  /\ pc = "next"
  /\ cursor < Len(history)
  /\ LET u == history[cursor + 1] IN
       /\ ~Unattributed(u)
       /\ cursor' = cursor + 1
       /\ etags' = Learned(u)
       /\ delivered' = Append(delivered, u)
       /\ states' = Updated(u)
       /\ \/ FailsNow(u) /\ pc' = "returned"
             /\ result' = [why |-> "failed", service |-> u.name]
          \/ ~FailsNow(u) /\ ~Ignored(u) /\ AllInState(Updated(u)) /\ Return("allInState")
          \/ ~FailsNow(u) /\ (Ignored(u) \/ ~AllInState(Updated(u)))
             /\ UNCHANGED <<pc, result>>
  /\ UNCHANGED <<services, provider>>

\* next() returns a transient error: back off, then reconnect.
TransientError ==
  /\ pc = "next"
  /\ drops < MaxDrops
  /\ drops' = drops + 1
  /\ pc' = "delay"
  /\ UNCHANGED <<services, history, cursor, ctxDone, etags, states, delivered, result>>

\* DelayBeforeRetry sleeps, or returns the context's error.
DelayBeforeRetry ==
  /\ pc = "delay"
  /\ \/ ctxDone /\ Return("context")
     \/ pc' = "resubscribe" /\ UNCHANGED result
  /\ UNCHANGED <<services, cursor, etags, states, delivered, provider>>

Resubscribe ==
  /\ pc = "resubscribe"
  /\ \/ Return("subscribe") /\ UNCHANGED cursor
     \/ pc' = "next" /\ cursor' = OpenAt /\ UNCHANGED result
  /\ UNCHANGED <<services, etags, states, delivered, provider>>

\* The stream is over: its iterator ends, or yields an error that is not transient.
StreamOver ==
  /\ pc = "next"
  /\ Return("streamEnd") \/ Return("stream")
  /\ UNCHANGED <<services, cursor, etags, states, delivered, provider>>

\* A stream ends with the context it was opened with.
StreamCanceled ==
  /\ pc = "next"
  /\ ctxDone
  /\ Return("context")
  /\ UNCHANGED <<services, cursor, etags, states, delivered, provider>>

Client == Subscribe \/ Receive \/ Skip \/ DelayBeforeRetry \/ Resubscribe

Next ==
  \/ Record \/ CtxDone
  \/ Client
  \/ TransientError \/ StreamOver \/ StreamCanceled

Spec == Init /\ [][Next]_vars

\* The code is never idle while it can run, and a stream notices its context.
FairSpec == Spec /\ WF_vars(Client) /\ WF_vars(StreamCanceled)

-----------------------------------------------------------------------------
\* Types of the variables, and the shape of a result.
TypeOK ==
  /\ services \subseteq Names
  /\ history \in Seq(Updates)
  /\ cursor \in 0..Len(history)
  /\ drops \in 0..MaxDrops
  /\ ctxDone \in BOOLEAN
  /\ pc \in {"subscribe", "next", "delay", "resubscribe", "returned"}
  /\ etags \subseteq Names
  /\ states \in [services -> States]
  /\ delivered \in Seq(Updates)
  /\ result \in Results
  /\ (pc = "returned") <=> (result.why # "pending")

\* The positions of the updates of service s that say something.
Said(s) == {i \in DOMAIN delivered :
              delivered[i].name = s /\ delivered[i].state # NotSpecified}

\* serviceStates is explained by the updates delivered over all streams,
\* replays after a reconnect included: the target if it was ever said of the
\* service, otherwise the last thing said (subscribe.go:93-110).
StatesExplained ==
  \A s \in services :
    /\ Said(s) = {} => states[s] = NotSpecified
    /\ Said(s) # {} =>
         \/ /\ states[s] = Target
            /\ \E i \in Said(s) : delivered[i].state = Target
         \/ /\ \A i \in Said(s) : delivered[i].state # Target
            /\ \E i \in Said(s) : /\ states[s] = delivered[i].state
                                  /\ \A j \in Said(s) : j <= i

\* An update that reports the failure of a service not yet in the target state.
UnmaskedFailure(i) ==
  /\ delivered[i].name \in services
  /\ delivered[i].state \in Failures
  /\ \A j \in Said(delivered[i].name) : j < i => delivered[j].state # Target

\* Fail fast: the first failure delivered of a service that was not complete
\* ends the wait with an error naming that service, and nothing else is read
\* after it (subscribe.go:105-109).
FailFast ==
  \A i \in DOMAIN delivered :
    UnmaskedFailure(i) =>
      /\ i = Len(delivered)
      /\ result = [why |-> "failed", service |-> delivered[i].name]

\* ErrDeploymentFailed is only ever returned for a failure the provider
\* reported of a service that had not completed before.
FailureIsReal ==
  result.why = "failed" =>
    /\ delivered # <<>>
    /\ UnmaskedFailure(Len(delivered))
    /\ delivered[Len(delivered)].name = result.service

\* The wait fails for the first failure that counts, and for no other.
FailsExactly == FailFast /\ FailureIsReal

\* A wait that ends well has read the target state of every service it was
\* asked for, in whichever stream (subscribe.go:112-114).
CompletedMeansAll ==
  result.why = "allInState" =>
    \A s \in services : \E i \in Said(s) : delivered[i].state = Target

\* The loop never asks for another update once every service is in the target
\* state: a stream that stays open without one would keep the caller waiting.
StillWaiting ==
  Running /\ services # {} => \E s \in services : states[s] # Target

\* The wait implements the deployment watch of DeployWatch.
Watch == INSTANCE DeployWatch WITH
  reached <- {s \in services : states[s] = Target},
  verdict <- CASE result.why = "pending" -> "watching"
               [] result.why = "allInState" -> "completed"
               [] result.why = "failed" -> "failed"
               [] OTHER -> "detached"
WatchSpec == Watch!WatchSpec

\* The log says that s is in the target state, by an event that can be attributed
\* where it stands.
Told(s) ==
  \E i \in DOMAIN history :
    /\ history[i].name = s /\ history[i].state = Target
    /\ history[i].by = "deployment" =>
         \E j \in 1..(i - 1) : history[j].name = s /\ history[j].by = "task"

\* The wait does not outlast its context nor what it waits for: once the provider
\* has recorded the target state of every service, the call returns (subscribe.go:49,
\* "Monitor for when all services are completed to end this command").  An ECS
\* deployment that completes before the events of its tasks is not promised to be
\* noticed: only a reconnect would read it again (ecs/event.go:120, 314).
WaitEnds ==
  ctxDone \/ (pc # "subscribe" /\ \A s \in services : Told(s)) ~> ~Running
=============================================================================
