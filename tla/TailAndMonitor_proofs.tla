------------------------ MODULE TailAndMonitor_proofs ------------------------
(***************************************************************************)
(* Type correctness of TailAndMonitor, and what its result says: that the  *)
(* unlocked variables are final when they are read after the monitoring    *)
(* has stopped the tail, and what explains a success and a canceled wait.  *)
(* Then the same for LogTail, the tail that this command runs: its type    *)
(* correctness, and what its reconnects may lose, repeat or reorder.       *)
(***************************************************************************)
EXTENDS TailAndMonitor, LogTail, SequenceTheorems, TLAPS

\* What the services goroutine stored is what WaitServiceState returned.
Stored ==
  /\ svc \in {"stored", "done"} => serviceStates = svcOut.states
  /\ svc = "done" => svcErr = svcOut.err
  /\ svc # "waiting" => svcOut # Outcome("none", "nil")

\* A CD goroutine that cancels the other one keeps the reason; one that ended
\* without an error has seen the task succeed.
CdExplained ==
  /\ cd = "canceling" => cdErr # "nil"
  /\ cd = "done" /\ cdErr = "nil" => cdTask = "succeeded" \/ eof \/ driver = "playground"

\* Until the command returns only the closer cancels the tail, after both.
CloserLast ==
  /\ closer # "waiting" => BothDone
  /\ main # "returned" /\ tailCause # "none" => closer = "done"

\* What can have cut the wait for the services short.
CutExplained ==
  /\ main # "returned" => ctx # "released"
  /\ main # "returned" /\ svcCanceled => cdErr # "nil"
  /\ svcOut.err = "context" /\ (main # "returned" \/ StoppedByMonitor)
       => cdErr # "nil" \/ ctx \in {"canceled", "deadline"}

\* The monitoring decides what the command returns: it stopped the tail, or the
\* switch dropped the tail's error because the monitoring was done.
Decided ==
  \/ StoppedByMonitor
  \/ /\ main \in {"join", "returned"}
     /\ tailErr = "nil" /\ tailOut \notin {"nil", "EOF"} /\ "detached" \notin warned

DecidedWhenDone == Decided => BothDone

\* What was loaded after that decision is what there is to load.
Loaded ==
  /\ main = "switch" => tailOut # "nil"
  /\ main \notin {"join", "returned"} => result = Unread
  /\ main = "returned" => "unread" \notin {result.states, result.cdErr, result.svcErr}
  /\ Decided =>
       /\ result.states \in {"unread", serviceStates}
       /\ result.cdErr \in {"unread", cdErr}
       /\ result.svcErr \in {"unread", svcErr}

IInv ==
  /\ TypeOK
  /\ Stored /\ CdExplained /\ CloserLast /\ CutExplained
  /\ DecidedWhenDone /\ Loaded

-----------------------------------------------------------------------------
LEMMA OutcomeFields ==
  /\ \A o \in Outcomes : o.states \in SvcStates /\ o.err \in SvcErrs
  /\ "none" \in SvcStates /\ "nil" \in SvcErrs
<1>1. Outcome("none", "nil") \in Outcomes
  BY DEF Outcomes
<1>2. Outcome("none", "nil").states = "none" /\ Outcome("none", "nil").err = "nil"
  BY DEF Outcome
<1> QED
  BY <1>1, <1>2 DEF SvcStates, SvcErrs

LEMMA InitIInv == Init => IInv
<1> SUFFICES ASSUME Init PROVE IInv
  OBVIOUS
<1> USE DEF Init
<1>1. TypeOK
  <2>1. svcOut \in Outcomes
    BY DEF Outcomes
  <2>2. result \in [states : SvcStates \union {"unread"},
                    cdErr : CdErrs \union {"unread"}, svcErr : SvcErrs \union {"unread"}]
    BY DEF Unread
  <2>3. driver \in Drivers /\ timeout \in BOOLEAN /\ monitored \in BOOLEAN
    BY OptionsAssumption
  <2> QED
    BY <2>1, <2>2, <2>3, OutcomeFields DEF TypeOK, CdErrs, TailOuts
<1>2. svcOut.err # "context"
  BY DEF Outcome
<1>3. Stored /\ CdExplained /\ CloserLast /\ CutExplained
  BY <1>2 DEF Stored, CdExplained, CloserLast, CutExplained
<1>4. ~Decided
  BY DEF Decided, StoppedByMonitor
<1>5. DecidedWhenDone /\ Loaded
  BY <1>4 DEF DecidedWhenDone, Loaded
<1> QED
  BY <1>1, <1>3, <1>5 DEF IInv

\* The world: a task only exits while it is polled, and a context only ends
\* before the command returns.
LEMMA WorldStep ==
  ASSUME IInv, World
  PROVE  IInv'
<1> USE DEF World, CdExits, ServicesSettle, CtxEnds, world, contexts, svcVars, cdVars, mainVars
<1>1. TypeOK'
  <2>1. /\ cdTask' \in {"running", "succeeded", "failed", "superseded"}
        /\ svcs' \in {"pending", "completed", "failed"}
        /\ ctx' \in {"live", "canceled", "deadline", "released"}
    BY DEF IInv, TypeOK
  <2>2. UNCHANGED <<driver, timeout, monitored, svcCanceled, tailCause, svcVars, cdVars, closer, mainVars>>
    OBVIOUS
  <2> HIDE DEF World, CdExits, ServicesSettle, CtxEnds
  <2> QED
    BY <2>1, <2>2 DEF IInv, TypeOK
<1>2. Stored' /\ CloserLast'
  BY DEF IInv, Stored, CloserLast, BothDone
<1>3. CdExplained'
  BY DEF IInv, CdExplained
<1>4. CutExplained'
  BY DEF IInv, CutExplained, StoppedByMonitor
<1>5. Decided' <=> Decided
  BY DEF Decided, StoppedByMonitor
<1>6. DecidedWhenDone' /\ Loaded'
  BY <1>5 DEF IInv, DecidedWhenDone, Loaded, BothDone
<1> QED
  BY <1>1, <1>2, <1>3, <1>4, <1>6 DEF IInv

\* WaitServiceState returns: with the end of a context only if one has ended.
LEMMA SvcReturnStep ==
  ASSUME IInv, NEW out \in Outcomes, SvcReturn(out), out # Outcome("none", "nil"),
         out.err = "context" => svcCanceled \/ CtxOver
  PROVE  IInv'
<1> USE DEF SvcReturn, world, contexts, cdVars, mainVars
<1>1. TypeOK'
  BY DEF IInv, TypeOK
<1>2. Stored' /\ CdExplained' /\ CloserLast'
  BY DEF IInv, Stored, CdExplained, CloserLast, BothDone
<1>3. Decided' <=> Decided
  BY DEF Decided, StoppedByMonitor
<1>4. ~Decided
  BY DEF IInv, DecidedWhenDone, BothDone
<1>5. CutExplained'
  <2>1. ctx # "live" /\ main # "returned" => ctx \in {"canceled", "deadline"}
    BY DEF IInv, TypeOK, CutExplained
  <2>2. ~StoppedByMonitor /\ (StoppedByMonitor' <=> StoppedByMonitor)
    BY <1>4 DEF Decided, StoppedByMonitor
  <2> QED
    BY <2>1, <2>2 DEF IInv, CutExplained, CtxOver
<1>6. DecidedWhenDone' /\ Loaded'
  BY <1>3, <1>4 DEF IInv, DecidedWhenDone, Loaded
<1> QED
  BY <1>1, <1>2, <1>5, <1>6 DEF IInv

LEMMA SvcStep ==
  ASSUME IInv, SvcSettled \/ SvcStreamOver
  PROVE  IInv'
<1>1. PICK out \in Outcomes :
        /\ SvcReturn(out)
        /\ out # Outcome("none", "nil")
        /\ out.err = "context" => svcCanceled \/ CtxOver
  BY DEF SvcSettled, SvcStreamOver, Outcomes, Outcome
<1> QED
  BY <1>1, SvcReturnStep

LEMMA SvcStoreStep ==
  ASSUME IInv, SvcStore
  PROVE  IInv'
<1> USE DEF SvcStore, world, contexts, cdVars, mainVars
<1>1. TypeOK'
  BY OutcomeFields DEF IInv, TypeOK
<1>2. Stored' /\ CdExplained' /\ CloserLast'
  BY DEF IInv, Stored, CdExplained, CloserLast, BothDone
<1>3. Decided' <=> Decided
  BY DEF Decided, StoppedByMonitor
<1>4. ~Decided
  BY DEF IInv, DecidedWhenDone, BothDone
<1>5. CutExplained'
  BY DEF IInv, CutExplained, StoppedByMonitor
<1>6. DecidedWhenDone' /\ Loaded'
  BY <1>3, <1>4 DEF IInv, DecidedWhenDone, Loaded
<1> QED
  BY <1>1, <1>2, <1>5, <1>6 DEF IInv

\* The CD goroutine: an error is kept before the other wait is canceled.
LEMMA CdStep ==
  ASSUME IInv, CdPoll \/ CdStatusError \/ CdConnectionClosed \/ CdCancel
  PROVE  IInv'
<1> USE DEF CdPoll, CdStatusError, CdConnectionClosed, CdCancel, CdFails, CtxOver,
            world, contexts, svcVars, mainVars
<1>1. TypeOK'
  <2>1. /\ cd' \in {"polling", "canceling", "done"} /\ cdErr' \in CdErrs
        /\ svcCanceled' \in BOOLEAN /\ eof' \in BOOLEAN
    BY DEF IInv, TypeOK, CdErrs
  <2>2. UNCHANGED <<world, ctx, tailCause, svcVars, closer, mainVars>>
    OBVIOUS
  <2> HIDE DEF CdPoll, CdStatusError, CdConnectionClosed, CdCancel
  <2> QED
    BY <2>1, <2>2 DEF IInv, TypeOK
<1>2. Stored' /\ CloserLast'
  BY DEF IInv, Stored, CloserLast, BothDone
<1>3. CdExplained' /\ (cdErr # "nil" => cdErr' # "nil")
  <2>1. ctx # "nil"
    BY DEF IInv, TypeOK
  <2>2. CASE CdPoll
    BY <2>1, <2>2 DEF IInv, CdExplained, SaysSucceeded
  <2>3. CASE CdStatusError \/ CdConnectionClosed \/ CdCancel
    BY <2>3 DEF IInv, CdExplained
  <2> QED
    BY <2>2, <2>3
<1>4. Decided' <=> Decided
  BY DEF Decided, StoppedByMonitor
<1>5. ~Decided
  BY DEF IInv, DecidedWhenDone, BothDone
<1>6. CutExplained'
  BY <1>3 DEF IInv, CutExplained, CdExplained, StoppedByMonitor
<1>7. DecidedWhenDone' /\ Loaded'
  BY <1>4, <1>5 DEF IInv, DecidedWhenDone, Loaded
<1> QED
  BY <1>1, <1>2, <1>3, <1>6, <1>7 DEF IInv

LEMMA CloserStep ==
  ASSUME IInv, CloserWakes \/ CloserCancels
  PROVE  IInv'
<1> USE DEF CloserWakes, CloserCancels, CauseAfter, world, contexts, svcVars, cdVars, mainVars
<1>1. TypeOK'
  <2>1. closer' \in {"waiting", "sleeping", "done"}
        /\ tailCause' \in {"none", "monitoringDone", "released"}
    BY DEF IInv, TypeOK
  <2>2. UNCHANGED <<world, ctx, svcCanceled, svcVars, cdVars, mainVars>>
    OBVIOUS
  <2> HIDE DEF CloserWakes, CloserCancels
  <2> QED
    BY <2>1, <2>2 DEF IInv, TypeOK
<1>2. Stored' /\ CdExplained' /\ CloserLast'
  BY DEF IInv, Stored, CdExplained, CloserLast, BothDone
<1>3. Decided' <=> Decided
  BY DEF Decided, StoppedByMonitor
<1>4. CutExplained'
  BY DEF IInv, CutExplained, StoppedByMonitor
<1>5. DecidedWhenDone' /\ Loaded'
  BY <1>3 DEF IInv, DecidedWhenDone, Loaded, BothDone
<1> QED
  BY <1>1, <1>2, <1>4, <1>5 DEF IInv

-----------------------------------------------------------------------------
\* The tail returns: it is canceled before the command returns only by the
\* closer, which has waited for both goroutines.
LEMMA TailStep ==
  ASSUME IInv, TailOver \/ TailDenied \/ TailCanceled
  PROVE  IInv'
<1> USE DEF TailOver, TailDenied, TailCanceled, TailReturns,
            world, contexts, svcVars, cdVars
<1>1. TypeOK'
  <2>1. /\ main' \in {"tail", "denied", "switch", "join", "returned"}
        /\ tailOut' \in TailOuts
        /\ warned' \subseteq {"denied", "detached", "timeout"}
    BY DEF IInv, TypeOK, TailOuts
  <2>2. UNCHANGED <<tailErr, result, world, contexts, svcVars, cdVars, closer>>
    OBVIOUS
  <2> HIDE DEF TailOver, TailDenied, TailCanceled
  <2> QED
    BY <2>1, <2>2 DEF IInv, TypeOK
<1>2. Stored' /\ CdExplained'
  BY DEF IInv, Stored, CdExplained
<1>3. CloserLast'
  BY DEF IInv, CloserLast, BothDone
<1>4. CutExplained'
  BY DEF IInv, CutExplained
<1>5. main \in {"tail", "denied"} /\ result' = Unread /\ main' \in {"denied", "switch", "join"}
  BY DEF IInv, Loaded
<1>6. StoppedByMonitor' => tailCause # "none" \/ StoppedByMonitor
  BY DEF StoppedByMonitor
<1>7. Decided' => BothDone
  <2>1. Decided' => StoppedByMonitor'
    BY <1>5 DEF Decided, StoppedByMonitor
  <2>2. tailCause # "none" => BothDone
    BY <1>5 DEF IInv, CloserLast
  <2>3. StoppedByMonitor => BothDone
    BY DEF IInv, Decided, DecidedWhenDone
  <2> QED
    BY <1>6, <2>1, <2>2, <2>3
<1>8. DecidedWhenDone'
  BY <1>7 DEF DecidedWhenDone, BothDone
<1>9. Loaded'
  BY <1>5 DEF IInv, TypeOK, Loaded, Unread
<1> QED
  BY <1>1, <1>2, <1>3, <1>4, <1>8, <1>9 DEF IInv

\* The switch drops an error of the tail, without a word to the user, only when
\* the closer has canceled it.
LEMMA SwitchStep ==
  ASSUME IInv, Switch
  PROVE  IInv'
<1> USE DEF Switch, world, contexts, svcVars, cdVars
<1>1. TypeOK'
  <2>1. /\ main' \in {"tail", "denied", "switch", "join", "returned"}
        /\ tailErr' \in TailOuts
        /\ warned' \subseteq {"denied", "detached", "timeout"}
    BY DEF IInv, TypeOK
  <2>2. UNCHANGED <<tailOut, result, world, contexts, svcVars, cdVars, closer>>
    OBVIOUS
  <2> HIDE DEF Switch
  <2> QED
    BY <2>1, <2>2 DEF IInv, TypeOK
<1>2. Stored' /\ CdExplained' /\ CloserLast'
  BY DEF IInv, Stored, CdExplained, CloserLast, BothDone
<1>3. CutExplained'
  BY DEF IInv, CutExplained, StoppedByMonitor
<1>4. Decided' => Decided \/ tailCause = "monitoringDone"
  BY DEF IInv, Loaded, Decided, StoppedByMonitor
<1>5. DecidedWhenDone'
  BY <1>4 DEF IInv, CloserLast, DecidedWhenDone, BothDone
<1>6. Loaded'
  BY DEF IInv, Loaded, Unread
<1> QED
  BY <1>1, <1>2, <1>3, <1>5, <1>6 DEF IInv

LEMMA LoadStep ==
  ASSUME IInv, Load
  PROVE  IInv'
<1> USE DEF Load, world, contexts, svcVars, cdVars
<1>1. TypeOK'
  BY DEF IInv, TypeOK
<1>2. Stored' /\ CdExplained' /\ CloserLast'
  BY DEF IInv, Stored, CdExplained, CloserLast, BothDone
<1>3. CutExplained'
  BY DEF IInv, CutExplained, StoppedByMonitor
<1>4. Decided' <=> Decided
  BY DEF Decided, StoppedByMonitor
<1>5. DecidedWhenDone'
  BY <1>4 DEF IInv, DecidedWhenDone, BothDone
<1>6. Loaded'
  BY <1>4 DEF IInv, TypeOK, Loaded
<1> QED
  BY <1>1, <1>2, <1>3, <1>5, <1>6 DEF IInv

\* The command returns and releases the contexts.
LEMMA ReturnStep ==
  ASSUME IInv, Return
  PROVE  IInv'
<1> USE DEF Return, CauseAfter, world, svcVars, cdVars
<1>1. TypeOK'
  BY DEF IInv, TypeOK
<1>2. Stored' /\ CdExplained' /\ CloserLast'
  BY DEF IInv, Stored, CdExplained, CloserLast, BothDone
<1>3. CutExplained'
  BY DEF IInv, CutExplained, StoppedByMonitor
<1>4. Decided' <=> Decided
  BY DEF Decided, StoppedByMonitor
<1>5. DecidedWhenDone' /\ Loaded'
  BY <1>4 DEF IInv, DecidedWhenDone, Loaded, BothDone
<1> QED
  BY <1>1, <1>2, <1>3, <1>5 DEF IInv

LEMMA StepIInv == IInv /\ [Next]_vars => IInv'
<1> SUFFICES ASSUME IInv, [Next]_vars PROVE IInv'
  OBVIOUS
<1>1. CASE World
  BY <1>1, WorldStep
<1>2. CASE SvcSettled \/ SvcStreamOver
  BY <1>2, SvcStep
<1>3. CASE SvcStore
  BY <1>3, SvcStoreStep
<1>4. CASE CdPoll \/ CdStatusError \/ CdConnectionClosed \/ CdCancel
  BY <1>4, CdStep
<1>5. CASE CloserWakes \/ CloserCancels
  BY <1>5, CloserStep
<1>6. CASE TailOver \/ TailDenied \/ TailCanceled
  BY <1>6, TailStep
<1>7. CASE Switch
  BY <1>7, SwitchStep
<1>8. CASE Load
  BY <1>8, LoadStep
<1>9. CASE Return
  BY <1>9, ReturnStep
<1>10. CASE UNCHANGED vars
  <2> USE <1>10 DEF vars, world, contexts, svcVars, cdVars, mainVars
  <2>1. TypeOK' /\ Stored' /\ CdExplained' /\ CloserLast' /\ CutExplained'
    BY DEF IInv, TypeOK, Stored, CdExplained, CloserLast, CutExplained, BothDone, StoppedByMonitor
  <2>2. DecidedWhenDone' /\ Loaded'
    BY DEF IInv, DecidedWhenDone, Loaded, Decided, BothDone, StoppedByMonitor
  <2> QED
    BY <2>1, <2>2 DEF IInv
<1> QED
  BY <1>1, <1>2, <1>3, <1>4, <1>5, <1>6, <1>7, <1>8, <1>9, <1>10 DEF Next, Program

-----------------------------------------------------------------------------
\* Once the monitoring has decided and the command has returned, the result is
\* what the goroutines left.
LEMMA DecidedResult ==
  ASSUME IInv, Decided, main = "returned"
  PROVE  /\ svc = "done" /\ cd = "done"
         /\ result = [states |-> serviceStates, cdErr |-> cdErr, svcErr |-> svcErr]
<1>1. svc = "done" /\ cd = "done"
  BY DEF IInv, DecidedWhenDone, BothDone
<1>2. result.states = serviceStates /\ result.cdErr = cdErr /\ result.svcErr = svcErr
  BY DEF IInv, Loaded
<1>3. result = [states |-> result.states, cdErr |-> result.cdErr, svcErr |-> result.svcErr]
  BY DEF IInv, TypeOK
<1> QED
  BY <1>1, <1>2, <1>3

\* The inductive invariant of TailAndMonitor.
THEOREM IInvHolds == Spec => []IInv
<1> QED
  BY InitIInv, StepIInv, PTL DEF Spec

\* Every variable of TailAndMonitor keeps its type, for any options.
THEOREM TypeCorrect == Spec => []TypeOK
<1>1. IInv => TypeOK
  BY DEF IInv
<1> QED
  BY <1>1, IInvHolds, PTL

\* The values returned after the monitoring stopped the tail are final, although
\* no lock guards them (tailAndMonitor.go:67-71).
THEOREM FinalResult == Spec => []ResultIsFinal
<1>1. IInv => ResultIsFinal
  BY DecidedResult DEF ResultIsFinal, Decided
<1> QED
  BY <1>1, IInvHolds, PTL

\* A command that returns no error was stopped by the monitoring, after the task
\* and the services came to a good end, or its tail ended by itself, or the user
\* detached.
THEOREM SuccessIsExplained == Spec => []SuccessExplained
<1>1. ASSUME IInv, main = "returned", NoError, tailOut \notin {"nil", "EOF"},
             "detached" \notin warned
      PROVE  (cdTask = "succeeded" \/ eof \/ driver = "playground")
             /\ svcOut \in {Outcome("completed", "nil"), Outcome("partial", "nil")}
  <2>1. Decided
    BY <1>1 DEF Decided, NoError
  <2>2. svc = "done" /\ cd = "done" /\ cdErr = "nil" /\ svcErr = "nil"
    BY <1>1, <2>1, DecidedResult DEF NoError
  <2>3. cdTask = "succeeded" \/ eof \/ driver = "playground"
    BY <1>1, <2>2 DEF IInv, CdExplained
  <2>4. svcOut \in Outcomes /\ svcOut.err = "nil" /\ svcOut # Outcome("none", "nil")
    BY <1>1, <2>2 DEF IInv, TypeOK, Stored
  <2>5. svcOut \in {Outcome("completed", "nil"), Outcome("partial", "nil")}
    BY <2>4 DEF Outcomes, Outcome
  <2> QED
    BY <2>3, <2>5
<1>2. IInv => SuccessExplained
  BY <1>1 DEF SuccessExplained
<1> QED
  BY <1>2, IInvHolds, PTL

\* A wait for the services that was cut short is explained by the error of the
\* CD task or by the end of the command's context (tailAndMonitor.go:56-59).
THEOREM CutIsExplained == Spec => []CanceledWaitExplained
<1>1. ASSUME IInv, main = "returned", StoppedByMonitor, result.svcErr = "context"
      PROVE  result.cdErr # "nil" \/ ctx \in {"canceled", "deadline"}
  <2>1. svc = "done" /\ result.cdErr = cdErr /\ svcErr = "context"
    BY <1>1, DecidedResult DEF Decided
  <2>2. svcOut.err = "context"
    BY <1>1, <2>1 DEF IInv, Stored
  <2> QED
    BY <1>1, <2>1, <2>2 DEF IInv, CutExplained
<1>2. IInv => CanceledWaitExplained
  BY <1>1 DEF CanceledWaitExplained
<1> QED
  BY <1>2, IInvHolds, PTL

-----------------------------------------------------------------------------
(***************************************************************************)
(* LogTail: what the tail prints, over any number of streams.              *)
(***************************************************************************)
\* The provider records entries in the order of their time stamps.
Sorted == \A i, j \in 1..Len(log) : i <= j => log[i].ts <= log[j].ts

\* Before the first query nothing was printed.
NotYet == pc = "query" => printed = <<>> /\ cursor = 0 /\ left = 0

\* Since is where the tail started, or the time of an entry that was printed;
\* nothing printed is later.
SinceIsPrinted ==
  /\ \A j \in DOMAIN printed : log[printed[j]].ts <= since
  /\ since = Since0 \/ \E j \in DOMAIN printed : log[printed[j]].ts = since

\* What is still to come in the stream is not older than what was printed.
Ahead ==
  \A j \in DOMAIN printed : \A k \in (cursor + 1)..Len(log) : log[printed[j]].ts <= log[k].ts

\* The entry at position p is the next one, and will be taken for the last one
\* printed, which it is.
Again(p) ==
  /\ skipDuplicate /\ (pc = "entries" => skip)
  /\ p = cursor + 1 /\ log[p].ts = since

\* Without ties the stream is past everything printed, or about to skip the last.
PastPrinted == NoTies => \A j \in DOMAIN printed : printed[j] <= cursor \/ Again(printed[j])

InOrder == NoTies => \A i, j \in DOMAIN printed : i < j => printed[i] < printed[j]

\* Something with the time stamp of the entry at k was printed, or the tail starts there.
Accounted(k) ==
  log[k].ts = Since0 \/ \E i \in DOMAIN printed : log[printed[i]].ts = log[k].ts

\* What the stream is past, and what is older than an entry printed, is accounted for.
AllAccounted ==
  from = "since" =>
    \A k \in 1..Len(log) :
      /\ log[k].kind # "dot" /\ log[k].ts >= Since0
      /\ k <= cursor \/ \E j \in DOMAIN printed : k <= printed[j]
      => Accounted(k)

LogInv ==
  /\ LogTypeOK /\ Sorted /\ NotYet
  /\ SinceIsPrinted /\ Ahead /\ TimeNeverGoesBack
  /\ PastPrinted /\ InOrder /\ AllAccounted

-----------------------------------------------------------------------------
LEMMA LogInitInv == LogInit => LogInv
<1> SUFFICES ASSUME LogInit PROVE LogInv
  OBVIOUS
<1> USE TailAssumption DEF LogInit
<1>1. log \in Seq(Entries) /\ Len(log) \in {0, 1}
  <2>1. CASE log = <<>>
    BY <2>1
  <2>2. CASE log # <<>>
    <3>1. PICK e \in [ts : 0..(Since0 - 1), kind : {"line"}] : log = <<e>>
      BY <2>2
    <3>2. e \in Entries
      BY DEF Entries, Kinds
    <3> QED
      BY <3>1, <3>2
  <2> QED
    BY <2>1, <2>2
<1>2. LogTypeOK
  <2>1. printed \in Seq(1..Len(log)) /\ drops \in 0..MaxDrops /\ since \in Since0..MaxTs
    OBVIOUS
  <2>2. cursor + left <= Len(log)
    BY <1>1
  <2> QED
    BY <1>1, <2>1, <2>2 DEF LogTypeOK
<1>3. Sorted
  <2>1. \A i \in 1..Len(log) : log[i].ts \in Int
    BY <1>1, ElementOfSeq DEF Entries
  <2> QED
    BY <1>1, <2>1 DEF Sorted
<1>4. DOMAIN printed = {} /\ cursor = 0
  OBVIOUS
<1>5. NotYet /\ SinceIsPrinted /\ Ahead /\ TimeNeverGoesBack /\ PastPrinted /\ InOrder
  BY <1>4 DEF NotYet, SinceIsPrinted, Ahead, TimeNeverGoesBack, PastPrinted, InOrder
<1>6. AllAccounted
  BY <1>1, <1>4 DEF AllAccounted
<1> QED
  BY <1>2, <1>3, <1>5, <1>6 DEF LogInv

\* What the types say of the two sequences, for the provers.
LEMMA LogShapes ==
  ASSUME LogTypeOK
  PROVE  /\ Len(log) \in Nat /\ \A i \in 1..Len(log) : log[i] \in Entries /\ log[i].ts \in Nat
         /\ Len(printed) \in Nat /\ DOMAIN printed = 1..Len(printed)
         /\ \A j \in 1..Len(printed) : printed[j] \in 1..Len(log)
         /\ since \in Nat /\ cursor \in Nat /\ cursor + left <= Len(log)
<1>1. Len(log) \in Nat /\ \A i \in 1..Len(log) : log[i] \in Entries
  BY ElementOfSeq, LenProperties DEF LogTypeOK
<1>2. \A i \in 1..Len(log) : log[i].ts \in Nat
  BY <1>1 DEF Entries
<1>3. /\ Len(printed) \in Nat /\ DOMAIN printed = 1..Len(printed)
      /\ \A j \in 1..Len(printed) : printed[j] \in 1..Len(log)
  BY ElementOfSeq, LenProperties DEF LogTypeOK
<1> QED
  BY <1>1, <1>2, <1>3, TailAssumption DEF LogTypeOK

\* A step that neither records, moves nor prints keeps the invariant.
LEMMA LogQuiet ==
  ASSUME LogInv, UNCHANGED <<from, log, cursor, since, printed>>, LogTypeOK', NotYet',
         \A p \in 1..Len(log) : Again(p) => Again(p)'
  PROVE  LogInv'
<1> USE DEF LogInv
<1>1. \A j \in DOMAIN printed : printed[j] \in 1..Len(log)
  BY LogShapes
<1>2. Sorted' /\ SinceIsPrinted' /\ Ahead' /\ TimeNeverGoesBack'
  BY DEF Sorted, SinceIsPrinted, Ahead, TimeNeverGoesBack
<1>3. NoTies' <=> NoTies
  BY DEF NoTies, Fresh
<1>4. PastPrinted' /\ InOrder'
  BY <1>1, <1>3 DEF PastPrinted, InOrder
<1>5. AllAccounted'
  BY DEF AllAccounted, Accounted
<1> QED
  BY <1>2, <1>4, <1>5

LEMMA QuietSteps ==
  ASSUME LogInv,
         \/ CtxDone \/ CtrlC \/ Message \/ Delay
         \/ TransientError \/ StreamOver \/ StreamCanceled
  PROVE  LogInv'
<1> USE TailAssumption DEF LogInv, provider, shown, ctxs, Leave
<1>1. CASE CtxDone
  <2>1. LogTypeOK' /\ NotYet'
    BY <1>1 DEF CtxDone, LogTypeOK, NotYet
  <2> QED
    BY <1>1, <2>1, LogQuiet DEF CtxDone, Again
<1>2. CASE CtrlC
  <2>1. LogTypeOK' /\ NotYet'
    BY <1>2 DEF CtrlC, LogTypeOK, NotYet
  <2> QED
    BY <1>2, <2>1, LogQuiet DEF CtrlC, Again
<1>3. CASE Message
  <2>1. LogTypeOK' /\ NotYet'
    BY <1>3 DEF Message, LogTypeOK, NotYet
  <2> QED
    BY <1>3, <2>1, LogQuiet DEF Message, Again
<1>4. CASE Delay
  <2>1. LogTypeOK' /\ NotYet'
    BY <1>4 DEF Delay, LogTypeOK, NotYet
  <2> QED
    BY <1>4, <2>1, LogQuiet DEF Delay, Again
<1>5. CASE TransientError
  <2>1. LogTypeOK' /\ NotYet'
    BY <1>5 DEF TransientError, LogTypeOK, NotYet
  <2> QED
    BY <1>5, <2>1, LogQuiet DEF TransientError, Again
<1>6. CASE StreamOver
  <2>1. LogTypeOK' /\ NotYet'
    BY <1>6 DEF StreamOver, LogTypeOK, NotYet
  <2> QED
    BY <1>6, <2>1, LogQuiet DEF StreamOver, Again
<1>7. CASE StreamCanceled
  <2>1. LogTypeOK' /\ NotYet'
    BY <1>7 DEF StreamCanceled, LogTypeOK, NotYet
  <2> QED
    BY <1>7, <2>1, LogQuiet DEF StreamCanceled, Again
<1> QED
  BY <1>1, <1>2, <1>3, <1>4, <1>5, <1>6, <1>7

\* The provider records an entry: it is the last one, and nothing that was said of
\* the entries before it changes.
LEMMA RecordStep ==
  ASSUME LogInv, Record
  PROVE  LogInv'
<1> USE DEF LogInv
<1> DEFINE n == Len(log)
<1>1. PICK ts \in LastTs..MaxTs, k \in Kinds : log' = Append(log, [ts |-> ts, kind |-> k])
  BY DEF Record
<1>2. UNCHANGED <<from, cursor, drops, ctxs, pc, left, skip, skipDuplicate, shown, outcome>>
  BY DEF Record
<1>3. n \in Nat /\ \A i \in 1..n : log[i] \in Entries /\ log[i].ts \in Nat
  BY LogShapes
<1>4. LastTs \in Nat /\ \A i \in 1..n : log[i].ts <= LastTs
  <2>1. \A i \in 1..n : log[i].ts <= log[n].ts
    BY <1>3 DEF Sorted
  <2>2. log = <<>> => n = 0
    OBVIOUS
  <2>3. log # <<>> => n \in 1..n
    BY EmptySeq, <1>3 DEF LogTypeOK
  <2> QED
    BY <1>3, <2>1, <2>2, <2>3, TailAssumption DEF LastTs
<1>5. [ts |-> ts, kind |-> k] \in Entries /\ ts \in Nat /\ \A i \in 1..n : log[i].ts <= ts
  BY <1>3, <1>4, TailAssumption DEF Entries
<1>6. /\ log' \in Seq(Entries) /\ Len(log') = n + 1
      /\ \A i \in 1..n : log'[i] = log[i]
      /\ log'[n + 1] = [ts |-> ts, kind |-> k]
  BY <1>1, <1>3, <1>5 DEF LogTypeOK
<1>7. /\ printed' = printed /\ since' = since /\ cursor' = cursor /\ from' = from
      /\ Len(printed) \in Nat /\ DOMAIN printed = 1..Len(printed)
      /\ \A j \in DOMAIN printed : printed[j] \in 1..n /\ log'[printed[j]] = log[printed[j]]
  BY <1>2, <1>6, LogShapes DEF shown
<1>8. LogTypeOK'
  <2>1. printed' \in Seq(1..Len(log'))
    <3>1. 1..n \subseteq 1..Len(log')
      BY <1>3, <1>6
    <3> QED
      BY <1>7, <3>1, SeqMonotonic DEF LogTypeOK
  <2>2. (cursor + left)' <= Len(log')
    BY <1>2, <1>3, <1>6 DEF LogTypeOK
  <2> QED
    BY <1>2, <1>6, <2>1, <2>2 DEF LogTypeOK, shown, ctxs
<1>9. Sorted'
  BY <1>3, <1>5, <1>6 DEF Sorted
<1>10. NotYet' /\ SinceIsPrinted' /\ TimeNeverGoesBack'
  BY <1>2, <1>7 DEF NotYet, SinceIsPrinted, TimeNeverGoesBack
<1>11. Ahead'
  <2>1. ASSUME NEW j \in DOMAIN printed, NEW m \in (cursor + 1)..(n + 1)
        PROVE  log'[printed[j]].ts <= log'[m].ts
    <3>1. CASE m = n + 1
      BY <3>1, <1>5, <1>6, <1>7
    <3>2. CASE m # n + 1
      <4>1. m \in (cursor + 1)..n /\ m \in 1..n
        BY <3>2, <1>3 DEF LogTypeOK
      <4> QED
        BY <4>1, <1>6, <1>7 DEF Ahead
    <3> QED
      BY <3>1, <3>2
  <2> QED
    BY <2>1, <1>6, <1>7 DEF Ahead
<1>12. NoTies' => NoTies
  <2>1. ASSUME NEW i \in 1..n, Fresh(i)'
        PROVE  Fresh(i)
    <3>1. \A j \in 1..(i - 1) : j \in 1..n /\ log'[j] = log[j]
      BY <1>3, <1>6
    <3> QED
      BY <2>1, <3>1, <1>6 DEF Fresh
  <2> QED
    BY <2>1, <1>3, <1>6 DEF NoTies
<1>13. PastPrinted' /\ InOrder'
  <2>1. \A p \in 1..n : Again(p) => Again(p)'
    BY <1>2, <1>6, <1>7 DEF Again
  <2> QED
    BY <2>1, <1>7, <1>12 DEF PastPrinted, InOrder
<1>14. AllAccounted'
  <2>1. ASSUME from = "since", NEW m \in 1..(n + 1),
               log'[m].kind # "dot" /\ log'[m].ts >= Since0,
               m <= cursor \/ \E j \in DOMAIN printed : m <= printed[j]
        PROVE  Accounted(m)'
    <3>1. m \in 1..n
      BY <2>1, <1>3, <1>7 DEF LogTypeOK
    <3>2. Accounted(m)
      BY <2>1, <3>1, <1>6 DEF AllAccounted
    <3> QED
      BY <3>1, <3>2, <1>6, <1>7 DEF Accounted
  <2> QED
    BY <2>1, <1>6, <1>7 DEF AllAccounted
<1> QED
  BY <1>8, <1>9, <1>10, <1>11, <1>13, <1>14

\* The loop goes past an entry that it does not print.
LEMMA PassStep ==
  ASSUME LogInv, SkipDot \/ SkipEntry
  PROVE  LogInv'
<1> USE DEF LogInv
<1> DEFINE n == Len(log)
<1>1. /\ pc = "entries" /\ cursor' = cursor + 1 /\ left' = left - 1 /\ skip' \in BOOLEAN
      /\ pc' = IF left = 1 THEN "next" ELSE "entries"
      /\ UNCHANGED <<from, log, drops, ctxDone, canceled, skipDuplicate, since, printed, outcome>>
      /\ log[cursor + 1].kind = "dot" \/ log[cursor + 1].ts = since
  BY DEF SkipDot, SkipEntry, Handled, NextEntry, IsDuplicate, provider, ctxs, shown, LogTypeOK
<1>2. n \in Nat /\ cursor \in Nat /\ left \in Nat /\ left > 0 /\ cursor + left <= n
  BY <1>1, LogShapes DEF LogTypeOK
<1>3. cursor + 1 \in 1..n
  BY <1>2
<1>4. LogTypeOK' /\ NotYet'
  BY <1>1, <1>2 DEF LogTypeOK, NotYet
<1>5. Sorted' /\ SinceIsPrinted' /\ TimeNeverGoesBack' /\ Ahead'
  BY <1>1, <1>2 DEF Sorted, SinceIsPrinted, TimeNeverGoesBack, Ahead
<1>6. NoTies' <=> NoTies
  BY <1>1 DEF NoTies, Fresh
<1>7. PastPrinted'
  <2>1. ASSUME NoTies, NEW j \in DOMAIN printed
        PROVE  printed[j] <= cursor'
    <3>1. printed[j] \in 1..n
      BY LogShapes
    <3>2. printed[j] <= cursor \/ printed[j] = cursor + 1
      BY <2>1 DEF PastPrinted, Again
    <3> QED
      BY <3>1, <3>2, <1>1, <1>2
  <2> QED
    BY <2>1, <1>1, <1>6 DEF PastPrinted
<1>8. InOrder'
  BY <1>1, <1>6 DEF InOrder
<1>9. AllAccounted'
  <2>1. ASSUME from = "since", NEW k \in 1..n, log[k].kind # "dot" /\ log[k].ts >= Since0,
               k <= cursor + 1 \/ \E j \in DOMAIN printed : k <= printed[j]
        PROVE  Accounted(k)
    <3>1. CASE k = cursor + 1
      BY <2>1, <3>1, <1>1 DEF SinceIsPrinted, Accounted
    <3>2. CASE k # cursor + 1
      BY <2>1, <3>2, <1>2 DEF AllAccounted
    <3> QED
      BY <3>1, <3>2
  <2> QED
    BY <2>1, <1>1 DEF AllAccounted, Accounted
<1> QED
  BY <1>4, <1>5, <1>7, <1>8, <1>9

LEMMA BeforeLast ==
  ASSUME NEW m \in Nat, NEW j \in 1..(m + 1), j # m + 1
  PROVE  j \in 1..m /\ \A i \in 1..(m + 1) : i <= j => i \in 1..m
OBVIOUS

\* The loop prints an entry: it is not older than what was printed, and without
\* ties it comes after that.
LEMMA PrintStep ==
  ASSUME LogInv, PrintEntry
  PROVE  LogInv'
<1> USE DEF LogInv
<1> DEFINE n == Len(log)
           m == Len(printed)
           c == cursor + 1
<1>1. /\ pc = "entries" /\ cursor' = c /\ left' = left - 1
      /\ ~IsDuplicate(log[c]) /\ log[c].kind # "dot"
      /\ since' = NewSince(log[c]) /\ printed' = Append(printed, c)
      /\ UNCHANGED <<from, log, drops, ctxDone, canceled, skip, skipDuplicate>>
  BY DEF PrintEntry, Handled, provider, ctxs
<1>2. \/ pc' = (IF left = 1 THEN "next" ELSE "entries") /\ outcome' = outcome
      \/ pc' = "returned" /\ outcome' = "EOF"
  BY DEF PrintEntry, NextEntry, Leave
<1>3. n \in Nat /\ cursor \in Nat /\ left \in Nat /\ left > 0 /\ cursor + left <= n
  BY <1>1, LogShapes DEF LogTypeOK
<1>4. c \in 1..n /\ log[c].ts \in Nat /\ log[c].ts <= MaxTs /\ since \in Nat
  BY <1>3, LogShapes, TailAssumption DEF Entries
<1>5. /\ m \in Nat /\ DOMAIN printed = 1..m /\ \A j \in 1..m : printed[j] \in 1..n
      /\ \A i \in 1..n : log[i].ts \in Nat
  BY LogShapes
<1>6. /\ printed' \in Seq(1..n) /\ Len(printed') = m + 1 /\ DOMAIN printed' = 1..(m + 1)
      /\ \A j \in 1..m : printed'[j] = printed[j]
      /\ printed'[m + 1] = c
  BY <1>1, <1>4, <1>5 DEF LogTypeOK
<1>7. LogTypeOK' /\ NotYet'
  <2>1. since' \in Since0..MaxTs
    BY <1>1, <1>4, TailAssumption DEF NewSince, LogTypeOK
  <2> QED
    BY <1>1, <1>2, <1>3, <1>6, <2>1 DEF LogTypeOK, NotYet
<1>8. \A j \in 1..m : log[printed[j]].ts <= log[c].ts
  BY <1>3, <1>4, <1>5 DEF Ahead
<1>9. TimeNeverGoesBack'
  <2>1. ASSUME NEW i \in 1..(m + 1), NEW j \in 1..(m + 1), i <= j
        PROVE  log[printed'[i]].ts <= log[printed'[j]].ts
    <3>1. CASE j = m + 1
      BY <2>1, <3>1, <1>4, <1>5, <1>6, <1>8
    <3>2. CASE j # m + 1
      <4>1. i \in 1..m /\ j \in 1..m
        BY <2>1, <3>2, <1>5, BeforeLast
      <4> QED
        BY <2>1, <4>1, <1>5, <1>6 DEF TimeNeverGoesBack
    <3> QED
      BY <3>1, <3>2
  <2> QED
    BY <2>1, <1>1, <1>6 DEF TimeNeverGoesBack
<1>10. SinceIsPrinted'
  <2>1. \A j \in 1..(m + 1) : log[printed'[j]].ts <= since'
    <3>1. since <= since' /\ log[c].ts <= since' /\ since' \in Nat
      BY <1>1, <1>4 DEF NewSince
    <3>2. \A j \in 1..m : log[printed[j]].ts <= since'
      BY <3>1, <1>4, <1>5 DEF SinceIsPrinted
    <3>3. ASSUME NEW j \in 1..(m + 1), j # m + 1
          PROVE  log[printed'[j]].ts <= since'
      <4>1. j \in 1..m
        BY <3>3, <1>5, BeforeLast
      <4> QED
        BY <4>1, <3>2, <1>6
    <3> QED
      BY <3>1, <3>3, <1>6
  <2>2. since' = Since0 \/ \E j \in 1..(m + 1) : log[printed'[j]].ts = since'
    <3>1. CASE log[c].ts > since
      BY <3>1, <1>1, <1>5, <1>6 DEF NewSince
    <3>2. CASE ~(log[c].ts > since)
      <4>1. since' = since
        BY <3>2, <1>1 DEF NewSince
      <4>2. CASE since = Since0
        BY <4>1, <4>2
      <4>3. CASE \E j \in 1..m : log[printed[j]].ts = since
        BY <4>1, <4>3, <1>5, <1>6
      <4> QED
        BY <4>2, <4>3, <1>5 DEF SinceIsPrinted
    <3> QED
      BY <3>1, <3>2
  <2> QED
    BY <2>1, <2>2, <1>1, <1>6 DEF SinceIsPrinted
<1>11. Sorted'
  BY <1>1 DEF Sorted
<1>12. Ahead'
  <2>1. ASSUME NEW j \in 1..(m + 1), NEW k \in (c + 1)..n
        PROVE  log[printed'[j]].ts <= log[k].ts
    <3>1. k \in 1..n /\ log[c].ts <= log[k].ts
      BY <1>3, <1>4 DEF Sorted
    <3>2. log[printed'[j]].ts <= log[c].ts /\ log[printed'[j]].ts \in Nat
      BY <1>4, <1>5, <1>6, <1>8
    <3> QED
      BY <3>1, <3>2, <1>4, <1>5
  <2> QED
    BY <2>1, <1>1, <1>6 DEF Ahead
<1>13. NoTies' <=> NoTies
  BY <1>1 DEF NoTies, Fresh
<1>14. NoTies => \A j \in 1..m : printed[j] <= cursor
  <2>1. \A j \in 1..m : ~Again(printed[j])
    BY <1>1 DEF Again, IsDuplicate
  <2> QED
    BY <2>1, <1>5 DEF PastPrinted
<1>15. PastPrinted' /\ InOrder'
  <2>1. NoTies => \A j \in 1..(m + 1) : printed'[j] <= c
    BY <1>3, <1>5, <1>6, <1>14
  <2>2. ASSUME NoTies, NEW i \in 1..(m + 1), NEW j \in 1..(m + 1), i < j
        PROVE  printed'[i] < printed'[j]
    <3>1. CASE j = m + 1
      <4>1. i \in 1..m
        BY <2>2, <3>1, <1>5
      <4>2. printed[i] \in Nat /\ printed[i] <= cursor
        BY <2>2, <4>1, <1>3, <1>5, <1>14
      <4>3. printed'[i] = printed[i] /\ printed'[j] = c
        BY <3>1, <4>1, <1>6
      <4> QED
        BY <4>2, <4>3, <1>3
    <3>2. CASE j # m + 1
      <4>1. i <= j
        BY <2>2, <1>5
      <4>2. i \in 1..m /\ j \in 1..m
        BY <2>2, <3>2, <4>1, <1>5, BeforeLast
      <4> QED
        BY <2>2, <4>2, <1>5, <1>6 DEF InOrder
    <3> QED
      BY <3>1, <3>2
  <2> QED
    BY <2>1, <2>2, <1>1, <1>6, <1>13 DEF PastPrinted, InOrder
<1>16. AllAccounted'
  <2>1. ASSUME from = "since", NEW k \in 1..n, log[k].kind # "dot" /\ log[k].ts >= Since0,
               k <= c \/ \E j \in 1..(m + 1) : k <= printed'[j]
        PROVE  log[k].ts = Since0 \/ \E i \in 1..(m + 1) : log[printed'[i]].ts = log[k].ts
    <3>1. CASE k = c
      BY <3>1, <1>5, <1>6
    <3>2. CASE k # c
      <4>1. k <= cursor \/ \E j \in 1..m : k <= printed[j]
        <5>1. CASE k <= c
          BY <3>2, <5>1, <1>3
        <5>2. ASSUME NEW j \in 1..(m + 1), k <= printed'[j], ~(k <= c)
              PROVE  \E i \in 1..m : k <= printed[i]
          <6>1. j \in 1..m
            BY <5>2, <1>5, <1>6
          <6> QED
            BY <5>2, <6>1, <1>6
        <5> QED
          BY <2>1, <5>1, <5>2
      <4>2. Accounted(k)
        BY <2>1, <4>1, <1>5 DEF AllAccounted
      <4>3. CASE log[k].ts = Since0
        BY <4>3
      <4>4. CASE \E i \in 1..m : log[printed[i]].ts = log[k].ts
        BY <4>4, <1>5, <1>6
      <4> QED
        BY <4>2, <4>3, <4>4, <1>5 DEF Accounted
    <3> QED
      BY <3>1, <3>2
  <2> QED
    BY <2>1, <1>1, <1>6 DEF AllAccounted, Accounted
<1> QED
  BY <1>7, <1>9, <1>10, <1>11, <1>12, <1>15, <1>16

LEMMA AfterFirst ==
  ASSUME NEW m \in Nat, NEW c \in Nat
  PROVE  /\ \A k \in (c + 1)..m : k \in 1..m /\ ~(k <= c)
         /\ \A k \in 1..m : ~(k <= c) => c + 1 \in 1..m /\ c + 1 <= k
OBVIOUS

\* A stream is opened: from Since it starts at the first entry that is not older.
LEMMA QueryStep ==
  ASSUME LogInv, Query \/ Requery
  PROVE  LogInv'
<1> USE DEF LogInv
<1> DEFINE n == Len(log)
<1>1. /\ pc \in {"query", "requery"} /\ QueryLogs
      /\ UNCHANGED <<from, log, drops, ctxDone, canceled, left, skip, since, printed>>
      /\ skipDuplicate' = (skipDuplicate \/ (pc = "requery" /\ pc' = "next"))
  BY DEF Query, Requery, provider, shown, ctxs, LogTypeOK
<1>2. /\ n \in Nat /\ DOMAIN printed = 1..Len(printed) /\ cursor \in Nat /\ since \in Nat
      /\ \A i \in 1..n : log[i].ts \in Nat
      /\ \A j \in DOMAIN printed : printed[j] \in 1..n
  BY LogShapes
<1>3. CASE Leave("query") /\ UNCHANGED cursor
  <2>1. /\ pc' = "returned" /\ outcome' = "query" /\ cursor' = cursor
        /\ skipDuplicate' = skipDuplicate
    BY <1>1, <1>3 DEF Leave, LogTypeOK
  <2>2. LogTypeOK' /\ NotYet'
    BY <1>1, <2>1 DEF LogTypeOK, NotYet
  <2> QED
    BY <1>1, <2>1, <2>2, LogQuiet DEF Again
<1>4. CASE pc' = "next" /\ cursor' \in 0..n /\ UNCHANGED outcome
           /\ (from = "now" => cursor' = n)
           /\ (from = "since" \/ (from = "anywhere" /\ pc = "requery") =>
                 \A i \in 1..n : i <= cursor' <=> IsBefore(i))
  <2>1. left = 0 /\ cursor' \in Nat /\ cursor' <= n
    BY <1>1, <1>2, <1>4 DEF LogTypeOK, NotYet
  <2>2. LogTypeOK' /\ NotYet'
    BY <1>1, <1>2, <1>4, <2>1 DEF LogTypeOK, NotYet
  <2>3. Sorted' /\ SinceIsPrinted' /\ TimeNeverGoesBack'
    BY <1>1 DEF Sorted, SinceIsPrinted, TimeNeverGoesBack
  <2>4. NoTies' <=> NoTies
    BY <1>1 DEF NoTies, Fresh
  <2>5. InOrder'
    BY <1>1, <2>4 DEF InOrder
  \* Where the stream starts, if anything was printed.
  <2>6. \/ DOMAIN printed = {}
        \/ cursor' = n
        \/ skipDuplicate' /\ \A i \in 1..n : i <= cursor' <=> log[i].ts < since
    <3>1. CASE pc = "query"
      BY <3>1 DEF NotYet
    <3>2. CASE pc # "query"
      <4>1. from \in {"since", "anywhere", "now"}
        BY TailAssumption DEF LogTypeOK
      <4> QED
        BY <1>1, <1>4, <3>2, <4>1 DEF IsBefore
    <3> QED
      BY <3>1, <3>2
  <2>7. /\ \A k \in (cursor' + 1)..n : k \in 1..n /\ ~(k <= cursor')
        /\ \A k \in 1..n : ~(k <= cursor') => cursor' + 1 \in 1..n /\ cursor' + 1 <= k
    BY <1>2, <2>1, AfterFirst
  <2>8. Ahead'
    <3>1. ASSUME NEW j \in DOMAIN printed, NEW k \in (cursor' + 1)..n
          PROVE  log[printed[j]].ts <= log[k].ts
      <4>1. k \in 1..n /\ ~(k <= cursor')
        BY <3>1, <2>7
      <4>2. ~(log[k].ts < since)
        BY <2>6, <4>1, <1>2
      <4> QED
        BY <4>1, <4>2, <1>2 DEF SinceIsPrinted
    <3> QED
      BY <3>1, <1>1 DEF Ahead
  <2>9. PastPrinted'
    <3>1. ASSUME NoTies, NEW j \in DOMAIN printed, ~(printed[j] <= cursor')
          PROVE  Again(printed[j])'
      <4> DEFINE p == printed[j]
                 q == cursor' + 1
      <4>1. p \in 1..n /\ skipDuplicate' /\ \A i \in 1..n : i <= cursor' <=> log[i].ts < since
        BY <3>1, <2>6, <1>2, <1>4
      <4>2. q \in 1..n /\ q <= p
        BY <3>1, <4>1, <2>7
      <4>3. log[p].ts = since
        BY <3>1, <4>1, <1>2 DEF SinceIsPrinted
      <4>4. log[q].ts = since
        <5>1. log[q].ts <= log[p].ts
          BY <4>1, <4>2 DEF Sorted
        <5>2. ~(log[q].ts < since)
          BY <4>1, <4>2, <1>4
        <5> QED
          BY <4>2, <4>3, <5>1, <5>2, <1>2
      <4>5. q = p
        <5>1. Fresh(p)
          BY <3>1, <4>1 DEF NoTies
        <5>2. q < p => log[q].ts < log[p].ts
          BY <4>1, <4>2, <5>1, <1>4 DEF Fresh
        <5> QED
          BY <4>1, <4>2, <4>3, <4>4, <5>2, <1>2
      <4> QED
        BY <4>1, <4>3, <4>5, <1>1, <1>4 DEF Again
    <3> QED
      BY <3>1, <1>1, <2>4 DEF PastPrinted
  <2>10. AllAccounted'
    <3>1. ASSUME from = "since", NEW k \in 1..n, log[k].kind # "dot" /\ log[k].ts >= Since0,
                 k <= cursor'
          PROVE  Accounted(k)
      <4>1. log[k].ts < since
        BY <3>1, <1>4 DEF IsBefore
      <4>2. PICK j \in DOMAIN printed : log[printed[j]].ts = since
        BY <3>1, <4>1, <1>2, TailAssumption DEF SinceIsPrinted
      <4>3. k <= printed[j]
        BY <4>1, <4>2, <1>2 DEF Sorted
      <4> QED
        BY <3>1, <4>3 DEF AllAccounted
    <3> QED
      BY <3>1, <1>1 DEF AllAccounted, Accounted
  <2> QED
    BY <2>2, <2>3, <2>5, <2>8, <2>9, <2>10
<1> QED
  BY <1>1, <1>3, <1>4 DEF QueryLogs

LEMMA LogNextInv == LogInv /\ [LogNext]_logVars => LogInv'
<1> SUFFICES ASSUME LogInv, [LogNext]_logVars PROVE LogInv'
  OBVIOUS
<1>1. CASE UNCHANGED logVars
  <2> USE <1>1 DEF logVars, provider, shown, ctxs, LogInv
  <2>1. LogTypeOK' /\ NotYet'
    BY DEF LogTypeOK, NotYet
  <2> QED
    BY <2>1, LogQuiet DEF Again
<1>2. CASE LogNext
  BY <1>2, RecordStep, QuietSteps, PassStep, PrintStep, QueryStep DEF LogNext, Client
<1> QED
  BY <1>1, <1>2

\* The inductive invariant of the tail holds in every reachable state.
THEOREM LogInvHolds == LogSpec => []LogInv
BY LogInitInv, LogNextInv, PTL DEF LogSpec

\* Every variable keeps its type, and the cursor stays within the log, for any
\* bounds on the log, its time stamps and the errors.
THEOREM LogTypeCorrect == LogSpec => []LogTypeOK
<1>1. LogInv => LogTypeOK
  BY DEF LogInv
<1> QED
  BY <1>1, LogInvHolds, PTL

\* The printed time never goes back, over any number of reconnects and wherever
\* the provider starts its streams.
THEOREM TimeKept == LogSpec => []TimeNeverGoesBack
<1>1. LogInv => TimeNeverGoesBack
  BY DEF LogInv
<1> QED
  BY <1>1, LogInvHolds, PTL

\* A stream that starts at Since loses only an entry whose time stamp another one
\* has that was printed, or the tail's own start.
THEOREM LostAreTies == LogSpec => []OnlyTiesLost
<1>1. ASSUME LogInv, from = "since", NEW k \in ShownOf(cursor)
      PROVE  Accounted(k)
  <2>1. k \in 1..cursor /\ cursor \in Nat /\ Len(log) \in Nat /\ cursor + left <= Len(log) /\ left \in Nat
    BY <1>1, LogShapes DEF LogInv, ShownOf, LogTypeOK
  <2>2. k \in 1..Len(log) /\ k <= cursor /\ log[k].kind # "dot" /\ log[k].ts >= Since0
    BY <1>1, <2>1 DEF ShownOf
  <2> QED
    BY <1>1, <2>2 DEF LogInv, AllAccounted
<1>2. LogInv => OnlyTiesLost
  BY <1>1 DEF OnlyTiesLost, Accounted
<1> QED
  BY <1>2, LogInvHolds, PTL

\* Without ties the entries are printed in their order and none twice, and a stream
\* that starts at Since leaves none out, whatever the reconnects.
THEOREM PrintedOnce == LogSpec => []ExactlyOnce
<1>1. ASSUME LogInv, OnlyTiesLost, NoTies, from = "since", NEW k \in ShownOf(cursor)
      PROVE  \E j \in DOMAIN printed : printed[j] = k
  <2>1. /\ cursor \in Nat /\ left \in Nat /\ cursor + left <= Len(log) /\ Len(log) \in Nat
        /\ \A j \in DOMAIN printed : printed[j] \in 1..Len(log)
        /\ \A i \in 1..Len(log) : log[i].ts \in Nat
    BY <1>1, LogShapes DEF LogInv, LogTypeOK
  <2>2. k \in 1..Len(log)
    BY <1>1, <2>1 DEF ShownOf
  <2>3. Fresh(k)
    BY <1>1, <2>2 DEF NoTies
  <2>4. PICK j \in DOMAIN printed : log[printed[j]].ts = log[k].ts
    BY <1>1, <2>3 DEF OnlyTiesLost, Fresh
  <2>5. Fresh(printed[j])
    BY <1>1, <2>1 DEF NoTies
  <2> QED
    BY <2>1, <2>2, <2>3, <2>4, <2>5 DEF Fresh
<1>2. LogInv /\ OnlyTiesLost => ExactlyOnce
  BY <1>1 DEF LogInv, InOrder, ExactlyOnce
<1> QED
  BY <1>2, LogInvHolds, LostAreTies, PTL
=============================================================================
