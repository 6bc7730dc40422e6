----------------------------- MODULE ComposeDown -----------------------------
(***************************************************************************)
(* `compose down` (cmd/cli/command/compose.go, pkg/cli/cd.go): start the   *)
(* CD task that destroys a project, delete its delegated subdomain, record *)
(* the deployment as DOWN, wait for the task while its logs are shown      *)
(* (TailAndWaitForCD), and with --remove delete the project's configs and  *)
(* its stack.  Every remote call may fail, and does when ctx is done.      *)
(***************************************************************************)
CONSTANTS
  Modes,      \* the flags given: a subset of {"plain", "detach", "remove"}
  Delegates   \* what provider.HasDelegatedSubdomain() may be

ASSUME DownAssumption ==
  /\ Modes \subseteq {"plain", "detach", "remove"}
  /\ Delegates \subseteq BOOLEAN

VARIABLES
  mode, delegates,
  ctx,       \* the command's context: "live" or "canceled"
  cdTask,    \* "none", "running", "succeeded" or "failed"
  zone,      \* the delegated subdomain zone exists
  record,    \* the deployment is recorded as DOWN
  configs,   \* the stack has stored configs
  names,     \* configNames is not empty
  stack,     \* the stack: record and file, "file" only, or "gone"
  pc,        \* what the command does next, until it has "returned"
  result,    \* what it returned, "pending" until then
  waiter,    \* the goroutine: "none", "polling", "sleeping" or "done"
  cdErr,     \* written by the goroutine, read by the command
  eof,       \* history: a poll of the task's status was answered with an EOF
  tailDone,  \* cancelTail was called
  tailErr    \* what streamLogs returned, "none" until then

remote == <<cdTask, zone, record, configs, stack>>
options == <<mode, delegates, ctx>>
waiting == <<waiter, cdErr, eof>>
tailing == <<tailDone, tailErr>>
vars == <<options, remote, names, pc, result, waiting, tailing>>

Init ==
  /\ mode \in Modes /\ delegates \in Delegates
  /\ ctx = "live"
  /\ cdTask = "none" /\ record = FALSE /\ stack = "both"
  /\ zone = delegates
  /\ configs \in BOOLEAN /\ names = FALSE
  /\ pc = "urls" /\ result = "pending"
  /\ waiter = "none" /\ cdErr = "nil" /\ eof = FALSE
  /\ tailDone = FALSE /\ tailErr = "none"

CdExits ==
  /\ cdTask = "running"
  /\ cdTask' \in {"succeeded", "failed"}
  /\ UNCHANGED <<options, zone, record, configs, stack, names, pc, result, waiting, tailing>>

Interrupt ==
  /\ ctx = "live"
  /\ ctx' = "canceled"
  /\ UNCHANGED <<mode, delegates, remote, names, pc, result, waiting, tailing>>

-----------------------------------------------------------------------------
\* A remote call can only succeed while the context lives.
Succeeds == ctx = "live"

Goto(where) == pc' = where /\ UNCHANGED result
Return(what) == pc' = "returned" /\ result' = what

\* GetStatesAndEventsUploadUrls
UploadUrls ==
  /\ pc = "urls"
  /\ (Succeeds /\ Goto("cd")) \/ Return("error")
  /\ UNCHANGED <<options, remote, names, waiting, tailing>>

\* provider.CdCommand; without an ETag nothing more is recorded, and an error
\* "not found" is only a warning.
StartCd ==
  /\ pc = "cd"
  /\ \/ Succeeds /\ cdTask' = "running" /\ (Goto("zone") \/ Goto("list"))
     \/ UNCHANGED cdTask /\ (Return("error") \/ Return("notFound"))
  /\ UNCHANGED <<options, zone, record, configs, stack, names, waiting, tailing>>

\* Fault of AfterZone: the record is made whether or not the zone is gone.
AfterZoneAnyway(deleted) == "record"

\* The break in the switch skips the record.
AfterZone(deleted) == IF deleted THEN "record" ELSE "list"

DeleteZone ==
  /\ pc = "zone"
  /\ \/ ~delegates /\ Goto("record") /\ UNCHANGED zone
     \/ delegates /\ Succeeds /\ zone' = FALSE /\ Goto(AfterZone(TRUE))
     \/ delegates /\ Goto(AfterZone(FALSE)) /\ UNCHANGED zone
  /\ UNCHANGED <<options, cdTask, record, configs, stack, names, waiting, tailing>>

\* putDeploymentAndStack; a failure is only a warning.
PutRecord ==
  /\ pc = "record"
  /\ Goto("list")
  /\ \/ Succeeds /\ record' = TRUE
     \/ UNCHANGED record
  /\ UNCHANGED <<options, cdTask, zone, configs, stack, names, waiting, tailing>>

\* ListConfig; a failure is only logged.  Then TailAndWaitForCD, unless detached.
ListConfig ==
  /\ pc = "list"
  /\ \/ Succeeds /\ names' = configs
     \/ UNCHANGED names
  /\ IF mode = "detach" THEN Return("detached") /\ UNCHANGED waiter
                        ELSE Goto("tail") /\ waiter' = "polling"
  /\ UNCHANGED <<options, remote, cdErr, eof, tailing>>

-----------------------------------------------------------------------------
TailCtxDone == tailDone \/ ctx = "canceled"

\* Fault of Stored: the goroutine's error stays in a variable of its own.
StoredNowhere(err) == UNCHANGED cdErr

\* cdErr = WaitForCdTaskExit(...)
Stored(err) == cdErr' = err

WaiterSees(err) == waiter' = "sleeping" /\ Stored(err)

\* WaitForCdTaskExit ends: the task did, or the context.
Poll ==
  /\ waiter = "polling"
  /\ \/ cdTask = "succeeded" /\ WaiterSees("nil")
     \/ cdTask = "failed" /\ WaiterSees("failed")
     \/ TailCtxDone /\ WaiterSees("context")
  /\ UNCHANGED <<eof, options, remote, names, pc, result, tailing>>

\* A poll fails for good: with a connect error that carries a code, "denied" for
\* PermissionDenied, or with another error.
PollError ==
  /\ waiter = "polling"
  /\ \E err \in {"status", "coded", "denied"} : WaiterSees(err)
  /\ UNCHANGED <<eof, options, remote, names, pc, result, tailing>>

\* An EOF is no error of the wait, whatever the task does: a connection that is
\* closed before its answer, and always in the playground.
PollEOF ==
  /\ waiter = "polling"
  /\ eof' = TRUE
  /\ WaiterSees("nil")
  /\ UNCHANGED <<options, remote, names, pc, result, tailing>>

\* Fault of CancelTail: the goroutine leaves the tail running.
LeaveTail ==
  /\ waiter = "sleeping"
  /\ waiter' = "done"
  /\ UNCHANGED <<cdErr, eof, options, remote, names, pc, result, tailing>>

\* After the delay, or at once when the context is done: cancelTail(cdErr).
CancelTail ==
  /\ waiter = "sleeping"
  /\ waiter' = "done"
  /\ tailDone' = TRUE
  /\ UNCHANGED <<cdErr, eof, tailErr, options, remote, names, pc, result>>

-----------------------------------------------------------------------------
TailReturns(err) ==
  /\ pc = "tail"
  /\ Goto("join")
  /\ tailErr' = err
  /\ UNCHANGED <<tailDone, options, remote, names, waiting>>

\* The tail ends by itself: the stream is over or fails, or the log says that
\* Pulumi is done; it says so before the task exits.
TailOver ==
  \/ TailReturns("nil") \/ TailReturns("EOF") \/ TailReturns("error") \/ TailReturns("denied")

TailCanceled == TailCtxDone /\ TailReturns("canceled")

\* A canceled tail is no error, and io.EOF anywhere in the join counts as none.
NoErrors == cdErr = "nil" /\ tailErr \in {"nil", "canceled"}
CountsAsDone == NoErrors \/ tailErr = "EOF"

\* The code of the join is that of its first connect error, cdErr's if it is one.
CodeIsDenied == cdErr = "denied" \/ (cdErr # "coded" /\ tailErr = "denied")

\* errors.Join(cdErr, tailErr): one load of cdErr; the deferred cancelTail.
Join ==
  /\ pc = "join"
  /\ tailDone' = TRUE
  /\ \/ CountsAsDone /\ Goto("configs")
     \/ ~CountsAsDone /\ CodeIsDenied /\ Return("detached")
     \/ ~CountsAsDone /\ ~CodeIsDenied /\ Return("error")
  /\ UNCHANGED <<tailErr, options, remote, names, waiting>>

\* "Done."; the names are deleted first, with --remove.
DeleteConfigs ==
  /\ pc = "configs"
  /\ \/ mode # "remove" /\ Return("nil") /\ UNCHANGED configs
     \/ mode = "remove" /\ ~names /\ Goto("stack") /\ UNCHANGED configs
     \/ mode = "remove" /\ names /\ Succeeds /\ Goto("stack") /\ configs' = FALSE
     \/ mode = "remove" /\ names /\ Return("error") /\ UNCHANGED configs
  /\ UNCHANGED <<options, cdTask, zone, record, stack, names, waiting, tailing>>

\* RemoveStack: the remote record, then the local file.
DeleteStack ==
  /\ pc = "stack"
  /\ \/ Succeeds /\ Goto("file") /\ stack' = "file"
     \/ Return("error") /\ UNCHANGED stack
  /\ UNCHANGED <<options, cdTask, zone, record, configs, names, waiting, tailing>>

RemoveFile ==
  /\ pc = "file"
  /\ \/ Return("nil") /\ stack' = "gone"
     \/ Return("error") /\ UNCHANGED stack
  /\ UNCHANGED <<options, cdTask, zone, record, configs, names, waiting, tailing>>

Start == UploadUrls \/ StartCd \/ DeleteZone \/ PutRecord \/ ListConfig
Finish == TailCanceled \/ Join \/ DeleteConfigs \/ DeleteStack \/ RemoveFile

Next ==
  \/ CdExits \/ Interrupt
  \/ Poll \/ PollError \/ PollEOF \/ CancelTail
  \/ Start \/ TailOver \/ Finish

Spec == Init /\ [][Next]_vars

\* Calls return and a done context is noticed; the log need not end.
FairSpec ==
  Spec /\ WF_vars(Start) /\ WF_vars(Finish) /\ WF_vars(Poll \/ CancelTail)

-----------------------------------------------------------------------------
\* Types of the variables.
TypeOK ==
  /\ mode \in Modes /\ delegates \in Delegates
  /\ ctx \in {"live", "canceled"}
  /\ cdTask \in {"none", "running", "succeeded", "failed"}
  /\ zone \in BOOLEAN /\ record \in BOOLEAN /\ configs \in BOOLEAN /\ names \in BOOLEAN
  /\ stack \in {"both", "file", "gone"}
  /\ pc \in {"urls", "cd", "zone", "record", "list", "tail", "join", "configs", "stack",
             "file", "returned"}
  /\ result \in {"pending", "nil", "notFound", "detached", "error"}
  /\ waiter \in {"none", "polling", "sleeping", "done"}
  /\ cdErr \in {"nil", "failed", "context", "status", "coded", "denied"} /\ eof \in BOOLEAN
  /\ tailDone \in BOOLEAN
  /\ tailErr \in {"none", "nil", "EOF", "error", "denied", "canceled"}

\* cd.go:56: the deployment is recorded as destroyed only after its subdomain
\* was deleted, and only once the CD task was started.
RecordAfterZone == record => cdTask # "none" /\ (delegates => ~zone)

\* No error of the goroutine is lost: it stores cdErr before it cancels the tail,
\* so when it was the goroutine that stopped the tail, what lets the removal go on
\* is a CD task that succeeded, or a poll answered with an EOF, which counts as
\* one (waitForCdTaskExit.go:25, cd.go:117-131, compose.go:559).
RemovalExplained ==
  tailErr = "canceled" /\ ctx = "live" /\ pc \in {"configs", "stack", "file"}
    => cdTask = "succeeded" \/ eof

\* A CD task that exits, or an interrupt, ends the command, and the goroutine
\* ends with it, however it ends (cd.go:111-131).
AllEnd ==
  (cdTask \in {"succeeded", "failed"} \/ ctx = "canceled" \/ pc = "returned") ~>
    (pc = "returned" /\ waiter \in {"none", "done"})

\* compose.go:560: "The down succeeded, so there is no active deployment left
\* to confirm": a stack is only removed when its CD task has succeeded.
RemovedMeansDestroyed == stack # "both" => cdTask = "succeeded"
=============================================================================
