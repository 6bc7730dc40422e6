------------------------- MODULE ComposeDown_proofs -------------------------
(***************************************************************************)
(* Type correctness of ComposeDown, when a deployment is recorded as DOWN, *)
(* and what the removal of a stack may rely on, for any flags.             *)
(***************************************************************************)
EXTENDS ComposeDown, TLAPS

BeforeTail == {"urls", "cd", "zone", "record", "list"}
Removal == {"configs", "stack", "file"}

\* The record follows the zone already when it is about to be made.
AboutToRecord ==
  /\ pc = "zone" => cdTask # "none"
  /\ record \/ pc = "record" => cdTask # "none" /\ (delegates => ~zone)

\* The goroutine only exists once the tail does.
WaiterStarted == pc \in BeforeTail => waiter = "none"

\* A goroutine that keeps no error has seen the task succeed, or an EOF.
NoErrorExplained ==
  waiter \in {"sleeping", "done"} /\ cdErr = "nil" => cdTask = "succeeded" \/ eof

\* Until the tail has returned only the goroutine cancels it, as its last step.
CanceledByWaiter ==
  /\ tailDone /\ pc \in BeforeTail \union {"tail", "join"} => waiter = "done"
  /\ tailErr = "canceled" /\ ctx = "live" => waiter = "done"

IInv ==
  /\ TypeOK
  /\ AboutToRecord
  /\ WaiterStarted /\ NoErrorExplained /\ CanceledByWaiter
  /\ RemovalExplained

-----------------------------------------------------------------------------
LEMMA InitIInv == Init => IInv
<1> SUFFICES ASSUME Init PROVE IInv
  OBVIOUS
<1>1. TypeOK
  BY DownAssumption DEF Init, TypeOK
<1>2. AboutToRecord /\ WaiterStarted
  BY DEF Init, AboutToRecord, WaiterStarted
<1>3. NoErrorExplained /\ CanceledByWaiter /\ RemovalExplained
  BY DEF Init, NoErrorExplained, CanceledByWaiter, RemovalExplained, BeforeTail
<1> QED
  BY <1>1, <1>2, <1>3 DEF IInv

\* The task exits, or the user interrupts: what held of a live context or of a
\* task that had ended is not disturbed.
LEMMA WorldStep ==
  ASSUME IInv, CdExits \/ Interrupt
  PROVE  IInv'
<1> USE DEF IInv, CdExits, Interrupt, options, remote, waiting, tailing
<1>1. TypeOK'
  BY DEF TypeOK
<1>2. AboutToRecord' /\ WaiterStarted'
  BY DEF AboutToRecord, WaiterStarted
<1>3. NoErrorExplained' /\ CanceledByWaiter' /\ RemovalExplained'
  BY DEF NoErrorExplained, CanceledByWaiter, RemovalExplained
<1> QED
  BY <1>1, <1>2, <1>3

\* Up to the tail: the zone is deleted before the record is made, and there is
\* no goroutine yet.
LEMMA StartStep ==
  ASSUME IInv, Start
  PROVE  IInv'
<1> USE DEF IInv, Start, UploadUrls, StartCd, DeleteZone, PutRecord, ListConfig,
            Goto, Return, Succeeds, AfterZone, options, remote, waiting, tailing
<1>1. TypeOK'
  BY DEF TypeOK
<1>2. AboutToRecord'
  BY DEF TypeOK, AboutToRecord
<1>3. WaiterStarted'
  BY DEF WaiterStarted, BeforeTail
<1>4. waiter = "none" /\ waiter' \in {"none", "polling"} /\ UNCHANGED <<cdErr, eof, tailDone, tailErr, ctx>>
  BY DEF WaiterStarted, BeforeTail
<1>5. pc \in BeforeTail /\ pc' \in BeforeTail \union {"tail", "returned"}
  BY DEF BeforeTail
<1>6. NoErrorExplained'
  BY <1>4 DEF NoErrorExplained
<1>7. CanceledByWaiter'
  BY <1>4, <1>5 DEF CanceledByWaiter, BeforeTail
<1>8. RemovalExplained'
  BY <1>5 DEF RemovalExplained, BeforeTail
<1> QED
  BY <1>1, <1>2, <1>3, <1>6, <1>7, <1>8

\* The goroutine keeps the error it saw before it cancels the tail.
LEMMA WaiterStep ==
  ASSUME IInv, Poll \/ PollError \/ PollEOF \/ CancelTail
  PROVE  IInv'
<1> USE DEF IInv, Poll, PollError, PollEOF, CancelTail, WaiterSees, Stored,
            options, remote, waiting, tailing
<1>1. TypeOK'
  BY DEF TypeOK
<1>2. AboutToRecord' /\ WaiterStarted'
  BY DEF AboutToRecord, WaiterStarted
<1>3. NoErrorExplained' /\ CanceledByWaiter'
  BY DEF NoErrorExplained, CanceledByWaiter
<1>4. RemovalExplained'
  BY DEF RemovalExplained
<1> QED
  BY <1>1, <1>2, <1>3, <1>4

\* The tail returns: canceled, in a live context, only by the goroutine.
LEMMA TailStep ==
  ASSUME IInv, TailOver \/ TailCanceled
  PROVE  IInv'
<1> USE DEF IInv, TailOver, TailCanceled, TailReturns, TailCtxDone, Goto,
            options, remote, waiting, tailing
<1>1. TypeOK'
  BY DEF TypeOK
<1>2. AboutToRecord' /\ WaiterStarted' /\ NoErrorExplained'
  BY DEF AboutToRecord, WaiterStarted, NoErrorExplained, BeforeTail
<1>3. CanceledByWaiter'
  BY DEF TypeOK, CanceledByWaiter, BeforeTail
<1>4. RemovalExplained'
  BY DEF RemovalExplained
<1> QED
  BY <1>1, <1>2, <1>3, <1>4

\* The errors are joined: a canceled tail goes on to the removal only without an
\* error of the goroutine, which is done.
LEMMA JoinStep ==
  ASSUME IInv, Join
  PROVE  IInv'
<1> USE DEF IInv, Join, CountsAsDone, NoErrors, Goto, Return, options, remote, waiting
<1>1. TypeOK'
  BY DEF TypeOK
<1>2. AboutToRecord' /\ WaiterStarted' /\ NoErrorExplained' /\ CanceledByWaiter'
  BY DEF AboutToRecord, WaiterStarted, NoErrorExplained, CanceledByWaiter, BeforeTail
<1>3. RemovalExplained'
  <2>1. SUFFICES ASSUME tailErr = "canceled", ctx = "live", pc' \in Removal
                 PROVE  cdTask = "succeeded" \/ eof
    BY DEF RemovalExplained, Removal
  <2>2. cdErr = "nil"
    BY <2>1 DEF Removal
  <2>3. waiter = "done"
    BY <2>1 DEF CanceledByWaiter
  <2> QED
    BY <2>2, <2>3 DEF NoErrorExplained
<1> QED
  BY <1>1, <1>2, <1>3

\* The removal goes from one of its steps to the next, or returns.
LEMMA RemovalStep ==
  ASSUME IInv, DeleteConfigs \/ DeleteStack \/ RemoveFile
  PROVE  IInv'
<1> USE DEF IInv, DeleteConfigs, DeleteStack, RemoveFile, Goto, Return, Succeeds,
            options, waiting, tailing
<1>1. TypeOK'
  BY DEF TypeOK
<1>2. pc \in Removal /\ pc' \in Removal \union {"returned"}
  BY DEF Removal
<1>3. UNCHANGED <<ctx, delegates, cdTask, zone, record, waiter, cdErr, eof, tailDone, tailErr>>
  OBVIOUS
<1>4. AboutToRecord' /\ WaiterStarted' /\ NoErrorExplained' /\ CanceledByWaiter'
  BY <1>2, <1>3 DEF AboutToRecord, WaiterStarted, NoErrorExplained, CanceledByWaiter,
                    BeforeTail, Removal
<1>5. RemovalExplained'
  BY <1>2, <1>3 DEF RemovalExplained, Removal
<1> QED
  BY <1>1, <1>4, <1>5

LEMMA StepIInv == IInv /\ [Next]_vars => IInv'
<1> SUFFICES ASSUME IInv, [Next]_vars PROVE IInv'
  OBVIOUS
<1>1. CASE CdExits \/ Interrupt
  BY <1>1, WorldStep
<1>2. CASE Start
  BY <1>2, StartStep
<1>3. CASE Poll \/ PollError \/ PollEOF \/ CancelTail
  BY <1>3, WaiterStep
<1>4. CASE TailOver \/ TailCanceled
  BY <1>4, TailStep
<1>5. CASE Join
  BY <1>5, JoinStep
<1>6. CASE DeleteConfigs \/ DeleteStack \/ RemoveFile
  BY <1>6, RemovalStep
<1>7. CASE UNCHANGED vars
  BY <1>7 DEF IInv, TypeOK, AboutToRecord, WaiterStarted, NoErrorExplained, CanceledByWaiter,
              RemovalExplained, vars, options, remote, waiting, tailing
<1> QED
  BY <1>1, <1>2, <1>3, <1>4, <1>5, <1>6, <1>7 DEF Next, Finish

-----------------------------------------------------------------------------
\* The inductive invariant of `compose down`.
THEOREM IInvHolds == Spec => []IInv
<1> QED
  BY InitIInv, StepIInv, PTL DEF Spec

\* Every variable of `compose down` keeps its type, for any flags.
THEOREM TypeCorrect == Spec => []TypeOK
<1>1. IInv => TypeOK
  BY DEF IInv
<1> QED
  BY <1>1, IInvHolds, PTL

\* A deployment is only recorded as DOWN after its CD task was started and its
\* subdomain deleted, whatever fails on the way (cd.go:56).
THEOREM RecordFollowsZone == Spec => []RecordAfterZone
<1>1. IInv => RecordAfterZone
  BY DEF IInv, AboutToRecord, RecordAfterZone
<1> QED
  BY <1>1, IInvHolds, PTL

\* When the goroutine stopped the tail, a stack is only removed after its CD task
\* has succeeded or a poll of its status was answered with an EOF: a failed task,
\* a failed poll or a canceled wait never leads there (cd.go:117-131).
THEOREM RemovalIsExplained == Spec => []RemovalExplained
<1>1. IInv => RemovalExplained
  BY DEF IInv
<1> QED
  BY <1>1, IInvHolds, PTL
=============================================================================
