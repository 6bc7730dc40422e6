--------------------------- MODULE TailAndMonitor ---------------------------
(***************************************************************************)
(* TailAndMonitor (pkg/cli/tailAndMonitor.go): `compose up` shows the logs *)
(* of a deployment while one goroutine waits for the services              *)
(* (WaitServiceState, module WaitServiceState), one polls the CD task      *)
(* (WaitForCdTaskExit), and a third cancels the tail when both are done.   *)
(* The three result variables are shared without a lock; each load and     *)
(* each store is a step of its own.  The loads come in any order, so the   *)
(* main goroutine may see either store without the other.                  *)
(***************************************************************************)
CONSTANTS
  Drivers,    \* how the CD task is asked for: a set of "http" (AWS, Azure,
              \* DigitalOcean), "grpc" (GCP) and "playground" (not at all)
  Timeouts,   \* whether --wait-timeout is given: a set of Booleans
  Monitoreds  \* whether the project has compute services: a set of Booleans

ASSUME OptionsAssumption ==
  /\ Drivers \subseteq {"http", "grpc", "playground"}
  /\ Timeouts \subseteq BOOLEAN
  /\ Monitoreds \subseteq BOOLEAN

VARIABLES
  driver,         \* the provider's GetDeploymentStatus
  timeout,        \* waitTimeout > 0: ctx has a deadline
  monitored,      \* there are compute services to wait for
  cdTask,         \* the CD task: "running", which includes one that is not there yet,
                  \* "succeeded", "failed" (or stopped, timed out, canceled), "superseded"
  svcs,           \* what the services come to: "pending", "completed", "failed"
  ctx,            \* "live", "canceled" by the user, past its "deadline", "released"
  svcCanceled,    \* cancelSvcStatus was called
  tailCause,      \* cause of tailCtx: "none", "monitoringDone" or "released"
  svc, svcOut,    \* the services goroutine, and what WaitServiceState returned
  serviceStates, svcErr, cdErr,   \* shared with the main goroutine
  cd,             \* the CD goroutine
  eof,            \* a request for the CD task's status ended with an EOF
  closer,         \* the goroutine that waits for both
  main, tailOut, tailErr, warned, \* the main goroutine, and what Tail returned
  result          \* the values main loaded, "unread" until then

world == <<driver, timeout, monitored, cdTask, svcs>>
contexts == <<ctx, svcCanceled, tailCause>>
svcVars == <<svc, svcOut, serviceStates, svcErr>>
cdVars == <<cd, eof, cdErr>>
mainVars == <<main, tailOut, tailErr, warned, result>>
vars == <<world, contexts, svcVars, cdVars, closer, mainVars>>

Outcome(s, e) == [states |-> s, err |-> e]
Outcomes == {Outcome("none", "nil"), Outcome("none", "nothing"),
             Outcome("completed", "nil"), Outcome("failed", "serviceFailed"),
             Outcome("partial", "context"), Outcome("partial", "nil"),
             Outcome("partial", "stream")}

Unread == [states |-> "unread", cdErr |-> "unread", svcErr |-> "unread"]

Init ==
  /\ driver \in Drivers /\ timeout \in Timeouts /\ monitored \in Monitoreds
  /\ cdTask = "running" /\ svcs = "pending"
  /\ ctx = "live" /\ svcCanceled = FALSE /\ tailCause = "none"
  /\ svc = "waiting" /\ svcOut = Outcome("none", "nil")
  /\ serviceStates = "none" /\ svcErr = "nil" /\ cdErr = "nil"
  /\ cd = "polling" /\ eof = FALSE /\ closer = "waiting"
  /\ main = "tail" /\ tailOut = "none" /\ tailErr = "nil" /\ warned = {}
  /\ result = Unread

(***************************************************************************)
(* The world: the CD task exits, with a failure if it logged "Update       *)
(* failed"; services come up or fail; the user may interrupt and the       *)
(* deadline may pass.                                                      *)
(***************************************************************************)
\* How it exits only matters to who still polls it.  On DigitalOcean a newer
\* deployment may supersede this one.
CdExits ==
  /\ cdTask = "running" /\ cd = "polling"
  /\ \/ cdTask' = "failed"
     \/ tailOut # "updateFailed" /\ cdTask' = "succeeded"
     \/ driver = "http" /\ cdTask' = "superseded"
  /\ UNCHANGED <<driver, timeout, monitored, svcs, contexts, svcVars, cdVars, closer, mainVars>>

\* What they come to only matters to who still waits for them.
ServicesSettle ==
  /\ svcs = "pending" /\ svc = "waiting"
  /\ svcs' \in {"completed", "failed"}
  /\ UNCHANGED <<driver, timeout, monitored, cdTask, contexts, svcVars, cdVars, closer, mainVars>>

\* Nobody interrupts a command that has returned.
CtxEnds ==
  /\ ctx = "live" /\ main # "returned"
  /\ ctx' \in (IF timeout THEN {"canceled", "deadline"} ELSE {"canceled"})
  /\ UNCHANGED <<world, svcCanceled, tailCause, svcVars, cdVars, closer, mainVars>>

World == CdExits \/ ServicesSettle \/ CtxEnds

-----------------------------------------------------------------------------
CtxOver == ctx # "live"

\* WaitServiceState returns: DeployWatch says with which outcomes.
SvcReturn(out) ==
  /\ svc = "waiting"
  /\ svc' = "storing"
  /\ svcOut' = out
  /\ UNCHANGED <<serviceStates, svcErr, world, contexts, cdVars, closer, mainVars>>

SvcSettled ==
  \/ ~monitored /\ SvcReturn(Outcome("none", "nothing"))
  \/ monitored /\ svcs = "completed" /\ SvcReturn(Outcome("completed", "nil"))
  \/ monitored /\ svcs = "failed" /\ SvcReturn(Outcome("failed", "serviceFailed"))
  \/ monitored /\ (svcCanceled \/ CtxOver) /\ SvcReturn(Outcome("partial", "context"))

SvcStreamOver ==
  monitored /\ \E e \in {"nil", "stream"} : SvcReturn(Outcome("partial", e))

\* serviceStates, svcErr = ...: two stores, then wg.Done().
SvcStore ==
  /\ \/ svc = "storing" /\ svc' = "stored"
        /\ serviceStates' = svcOut.states /\ UNCHANGED svcErr
     \/ svc = "stored" /\ svc' = "done"
        /\ svcErr' = svcOut.err /\ UNCHANGED serviceStates
  /\ UNCHANGED <<svcOut, world, contexts, cdVars, closer, mainVars>>

-----------------------------------------------------------------------------
\* Fault of CdFails: the error is kept in a variable of the goroutine.
CdFailsShadowed(e) == cd' = "canceling" /\ UNCHANGED <<cdErr, eof>>

\* WaitForCdTaskExit returns an error: store it, then cancelSvcStatus(cdErr).
CdFails(e) ==
  /\ cd' = "canceling"
  /\ cdErr' = e
  /\ UNCHANGED eof

\* Fault of SaysSucceeded: a deployment that was replaced counts as a success.
SaysEnded == driver = "playground" \/ cdTask \in {"succeeded", "superseded"}

\* GetDeploymentStatus answers that the task is done; the playground does not ask.
SaysSucceeded == driver = "playground" \/ cdTask = "succeeded"
SaysFailed == driver # "playground" /\ cdTask = "failed"

\* One poll that ends the loop; a running task or a transient error does not, nor
\* does one that was superseded.
CdPoll ==
  /\ cd = "polling"
  /\ \/ SaysSucceeded /\ cd' = "done" /\ UNCHANGED <<cdErr, eof>>
     \/ SaysFailed /\ CdFails("cdFailed")
     \/ CtxOver /\ CdFails(ctx)
  /\ UNCHANGED <<world, contexts, svcVars, closer, mainVars>>

CdStatusError ==
  /\ cd = "polling" /\ driver # "playground"
  /\ CdFails("status")
  /\ UNCHANGED <<world, contexts, svcVars, closer, mainVars>>

\* Over HTTP a connection that is closed before the answer gives an EOF, which is
\* what the providers return for a task that succeeded.
CdConnectionClosed ==
  /\ cd = "polling" /\ driver = "http"
  /\ cd' = "done"
  /\ eof' = TRUE
  /\ UNCHANGED <<cdErr, world, contexts, svcVars, closer, mainVars>>

\* Fault of CdCancel: the wait for the services is left alone.
CdLeavesServices ==
  /\ cd = "canceling"
  /\ cd' = "done"
  /\ UNCHANGED <<eof, cdErr, world, contexts, svcVars, closer, mainVars>>

CdCancel ==
  /\ cd = "canceling"
  /\ cd' = "done"
  /\ svcCanceled' = TRUE
  /\ UNCHANGED <<eof, cdErr, world, ctx, tailCause, svcVars, closer, mainVars>>

-----------------------------------------------------------------------------
\* Fault of BothDone: one of the two is enough.
OneDone == svc = "done" \/ cd = "done"

BothDone == svc = "done" /\ cd = "done"

\* wg.Wait()
CloserWakes ==
  /\ closer = "waiting"
  /\ BothDone
  /\ closer' = "sleeping"
  /\ UNCHANGED <<world, contexts, svcVars, cdVars, mainVars>>

\* The first call of cancelTail decides the cause.
CauseAfter(cause) == IF tailCause = "none" THEN cause ELSE tailCause

\* After the sleep, or at once when ctx is done: cancelTail(errMonitoringDone).
CloserCancels ==
  /\ closer = "sleeping"
  /\ closer' = "done"
  /\ tailCause' = CauseAfter("monitoringDone")
  /\ UNCHANGED <<world, ctx, svcCanceled, svcVars, cdVars, mainVars>>

-----------------------------------------------------------------------------
TailReturns(out) ==
  /\ main = "tail"
  /\ main' = IF out = "nil" THEN "join" ELSE "switch"
  /\ tailOut' = out
  /\ UNCHANGED <<tailErr, warned, result, world, contexts, svcVars, cdVars, closer>>

\* Tail ends by itself: the stream is over or broken, or EndEventDetectFunc
\* saw "Update succeeded in" (io.EOF) or "Update failed in".  The CD task logs
\* these lines before it exits, and may still fail after the first.
TailOver ==
  \/ TailReturns("nil")
  \/ TailReturns("error")
  \/ TailReturns("EOF")
  \/ cdTask # "succeeded" /\ TailReturns("updateFailed")

\* No permission to read the logs: wait for <-tailCtx.Done() instead.
TailDenied ==
  /\ main = "tail"
  /\ main' = "denied"
  /\ warned' = warned \union {"denied"}
  /\ UNCHANGED <<tailOut, tailErr, result, world, contexts, svcVars, cdVars, closer>>

TailCanceled ==
  \/ tailCause # "none" /\ TailReturns("canceled")
  \/ /\ main = "denied" /\ tailCause # "none"
     /\ main' = "switch" /\ tailOut' = tailCause
     /\ UNCHANGED <<tailErr, warned, result, world, contexts, svcVars, cdVars, closer>>

\* The switch on the tail's error, in the order of its cases.
Switch ==
  /\ main = "switch"
  /\ main' = "join"
  /\ \/ tailOut = "EOF" /\ UNCHANGED <<tailErr, warned>>
     \/ tailOut # "EOF" /\ ctx = "canceled"
        /\ warned' = warned \union {"detached"} /\ UNCHANGED tailErr
     \/ tailOut # "EOF" /\ ctx # "canceled" /\ tailCause = "monitoringDone"
        /\ UNCHANGED <<tailErr, warned>>
     \/ tailOut # "EOF" /\ ctx = "deadline" /\ tailCause # "monitoringDone"
        /\ warned' = warned \union {"timeout"} /\ tailErr' = tailOut
     \/ tailOut # "EOF" /\ ctx = "live" /\ tailCause # "monitoringDone"
        /\ tailErr' = tailOut /\ UNCHANGED warned
  /\ UNCHANGED <<tailOut, result, world, contexts, svcVars, cdVars, closer>>

\* return serviceStates, errors.Join(cdErr, svcErr, tailErr): three loads.
Load ==
  /\ main = "join"
  /\ \/ result.states = "unread" /\ result' = [result EXCEPT !.states = serviceStates]
     \/ result.cdErr = "unread" /\ result' = [result EXCEPT !.cdErr = cdErr]
     \/ result.svcErr = "unread" /\ result' = [result EXCEPT !.svcErr = svcErr]
  /\ UNCHANGED <<main, tailOut, tailErr, warned, world, contexts, svcVars, cdVars, closer>>

\* The deferred calls release the contexts; only a timeout has ctx released.
Return ==
  /\ main = "join"
  /\ "unread" \notin {result.states, result.cdErr, result.svcErr}
  /\ main' = "returned"
  /\ svcCanceled' = TRUE
  /\ tailCause' = CauseAfter("released")
  /\ ctx' = IF timeout /\ ctx = "live" THEN "released" ELSE ctx
  /\ UNCHANGED <<tailOut, tailErr, warned, result, world, svcVars, cdVars, closer>>

Program ==
  \/ SvcSettled \/ SvcStreamOver \/ SvcStore
  \/ CdPoll \/ CdStatusError \/ CdConnectionClosed \/ CdCancel
  \/ CloserWakes \/ CloserCancels
  \/ TailOver \/ TailDenied \/ TailCanceled \/ Switch \/ Load \/ Return

Next == World \/ Program

Spec == Init /\ [][Next]_vars

\* Goroutines run; nobody promises that a stream or a log line ends anything.
Fairness ==
  /\ WF_vars(SvcSettled \/ SvcStore)
  /\ WF_vars(CdPoll \/ CdCancel)
  /\ WF_vars(CloserWakes \/ CloserCancels)
  /\ WF_vars(TailCanceled \/ Switch \/ Load \/ Return)

FairSpec == Spec /\ Fairness

-----------------------------------------------------------------------------
CdErrs == {"nil", "cdFailed", "status", "canceled", "deadline", "released"}
SvcErrs == {out.err : out \in Outcomes}
SvcStates == {out.states : out \in Outcomes}
TailOuts == {"none", "nil", "error", "EOF", "updateFailed", "canceled", "monitoringDone", "released"}

\* Types of the variables.
TypeOK ==
  /\ driver \in Drivers /\ timeout \in BOOLEAN /\ monitored \in BOOLEAN
  /\ cdTask \in {"running", "succeeded", "failed", "superseded"}
  /\ svcs \in {"pending", "completed", "failed"}
  /\ ctx \in {"live", "canceled", "deadline", "released"}
  /\ svcCanceled \in BOOLEAN
  /\ tailCause \in {"none", "monitoringDone", "released"}
  /\ svc \in {"waiting", "storing", "stored", "done"}
  /\ svcOut \in Outcomes
  /\ serviceStates \in SvcStates
  /\ svcErr \in SvcErrs
  /\ cdErr \in CdErrs
  /\ cd \in {"polling", "canceling", "done"} /\ eof \in BOOLEAN
  /\ closer \in {"waiting", "sleeping", "done"}
  /\ main \in {"tail", "denied", "switch", "join", "returned"}
  /\ tailOut \in TailOuts
  /\ tailErr \in TailOuts
  /\ warned \subseteq {"denied", "detached", "timeout"}
  /\ result \in [states : SvcStates \union {"unread"},
                 cdErr : CdErrs \union {"unread"}, svcErr : SvcErrs \union {"unread"}]

NoError == result.cdErr = "nil" /\ result.svcErr = "nil" /\ tailErr = "nil"

\* The tail was stopped because both goroutines were done.
StoppedByMonitor == tailOut \in {"canceled", "monitoringDone"}

\* When the monitoring stopped the tail, the three values returned are the ones
\* the goroutines left behind, and neither will write again: the unlocked reads
\* are ordered after the writes by wg and tailCtx (tailAndMonitor.go:67-71).
ResultIsFinal ==
  main = "returned" /\ StoppedByMonitor =>
    /\ svc = "done" /\ cd = "done"
    /\ result = [states |-> serviceStates, cdErr |-> cdErr, svcErr |-> svcErr]

\* No error means that the CD task succeeded, or that an EOF was taken for that
\* (waitForCdTaskExit.go:25), and that every service completed, or its stream was
\* over, unless the tail itself ended the wait or the user was told that the
\* deployment is not finished.
SuccessExplained ==
  main = "returned" /\ NoError /\ tailOut \notin {"nil", "EOF"} /\ "detached" \notin warned =>
    /\ cdTask = "succeeded" \/ eof \/ driver = "playground"
    /\ svcOut \in {Outcome("completed", "nil"), Outcome("partial", "nil")}

\* A failed CD task is never hidden behind the wait it cancels: when the
\* services' wait was cut short the error of the CD task, or the end of ctx,
\* is there to explain it (tailAndMonitor.go:56-59).
CanceledWaitExplained ==
  main = "returned" /\ StoppedByMonitor /\ result.svcErr = "context" =>
    result.cdErr # "nil" \/ ctx \in {"canceled", "deadline"}

\* Nobody asks for the CD task (any more): the playground, and after an EOF.
NotAsked == eof \/ driver = "playground"

\* What ends the command: the end of ctx, although the tail has a context of its
\* own; a CD task that failed, whatever the services do; one that succeeded or
\* is not asked for, once the services have settled.
ServicesOver == svcs # "pending" \/ ~monitored
Over ==
  \/ ctx # "live"
  \/ cdTask = "failed" /\ ~NotAsked
  \/ (cdTask = "succeeded" \/ NotAsked) /\ ServicesOver

\* Each of these ends the command, unless an EOF hides the failure of the task
\* from it while the services are pending; and with a timeout no goroutine outlives
\* the command for ever (tailAndMonitor.go:26-38, 56-71).
AllEnd ==
  (Over \/ main = "returned") ~>
    \/ /\ main = "returned"
       /\ timeout => svc = "done" /\ cd = "done" /\ closer = "done"
    \/ eof /\ ctx = "live" /\ ~ServicesOver
=============================================================================
