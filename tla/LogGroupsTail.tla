---------------------------- MODULE LogGroupsTail ----------------------------
(***************************************************************************)
(* QueryAndTailLogGroups (pkg/clouds/aws/cw/stream.go): one goroutine per  *)
(* CloudWatch log group opens a live tail, reads the history of the group, *)
(* then the live events, and hands every batch to the one consumer over an *)
(* unbuffered channel.  The first error ends the whole.  A group that does *)
(* not exist yet is polled until it does.  The consumer is the loop of     *)
(* receiveLogs (pkg/cli/tail.go), which after a transient error asks for   *)
(* all groups again from the newest time stamp that it has printed,        *)
(* whichever group that was of.  LogTail has what one log and ties bring,  *)
(* AwsLogs the queries that do not follow the log.                         *)
(***************************************************************************)
EXTENDS Integers, Sequences, FiniteSets

CONSTANTS
  Groups,   \* log groups
  Since,    \* whether a start time is given: history is read first
  MaxLog,   \* bound: entries that are ever recorded
  MaxDrops  \* bound: transient errors

ASSUME GroupsAssumption ==
  Groups # {} /\ Since \in BOOLEAN /\ MaxLog \in Nat /\ MaxDrops \in Nat

VARIABLES
  exists,    \* the log group exists
  log,       \* the entries of a group: their time stamps, which are all different and
             \* even, so that there is a "now" between any two
  ctxDone,   \* the caller's context is over
  drops,     \* transient errors so far
  canceled,  \* cancel() of the inner context was called
  phase,     \* per group: "setup", "poll", "history", "query", "live", "send",
             \* "done", or "failed" when it never got a goroutine
  opened,    \* entries recorded when the group's live tail was opened
  histEnd,   \* entries recorded when its history query was made
  at,        \* entries of the phase it is in that the group is past
  hold,      \* the result being sent: entries lo..hi and an error
  back,      \* where the goroutine goes on after sending
  got,       \* entries printed since the groups were asked for, per group
  earlier,   \* entries printed before that
  start,     \* the time stamp they were asked from, 0 the first time
  since,     \* options.Since: the newest time stamp printed
  skipDuplicate,  \* of receiveLogs: there was a reconnect
  consumer,  \* "setup", "range", "yield", "delay", "stop", or over: "failed",
             \* "stopped", "error", "end"
  last       \* the error of the last result received

provider == <<exists, log, ctxDone>>
progress == <<opened, histEnd, at>>
asked == <<drops, earlier, start>>
printed == <<got, since, skipDuplicate>>
tailVars == <<provider, asked, canceled, phase, progress, hold, back, printed, consumer, last>>

Errors == {"nil", "notFound", "context", "stream"}
Result(lo, hi, err) == [lo |-> lo, hi |-> hi, err |-> err]
Empty == Result(1, 0, "nil")

TailInit ==
  /\ exists \in [Groups -> BOOLEAN]
  /\ log = [g \in Groups |-> <<>>]
  /\ ctxDone = FALSE /\ canceled = FALSE
  /\ drops = 0 /\ earlier = [g \in Groups |-> {}] /\ start = 0
  /\ since = 0 /\ skipDuplicate = FALSE
  /\ phase = [g \in Groups |-> "setup"]
  /\ opened = [g \in Groups |-> 0] /\ histEnd = [g \in Groups |-> 0]
  /\ at = [g \in Groups |-> 0]
  /\ hold = [g \in Groups |-> Empty] /\ back = [g \in Groups |-> "live"]
  /\ got = [g \in Groups |-> <<>>]
  /\ consumer = "setup" /\ last = "nil"

\* The inner context is derived from the caller's.
Over == ctxDone \/ canceled

Times == UNION {{log[g][k] : k \in DOMAIN log[g]} : g \in Groups}

Record(g) ==
  /\ Cardinality(Times) < MaxLog
  /\ log' = [log EXCEPT ![g] = Append(@, 2 * (Cardinality(Times) + 1))]
  /\ exists' = [exists EXCEPT ![g] = TRUE]
  /\ UNCHANGED <<ctxDone, canceled, phase, progress, hold, back, printed, asked, consumer, last>>

CtxDone ==
  /\ ~ctxDone
  /\ ctxDone' = TRUE
  /\ UNCHANGED <<exists, log, canceled, phase, progress, hold, back, printed, asked, consumer, last>>

World == CtxDone \/ \E g \in Groups : Record(g)

-----------------------------------------------------------------------------
Enter(g, where) == phase' = [phase EXCEPT ![g] = where]

\* yield(events, err) in the goroutine of g: the loop body sends the result.
Yield(g, res, then) ==
  /\ Enter(g, "send")
  /\ hold' = [hold EXCEPT ![g] = res]
  /\ back' = [back EXCEPT ![g] = then]

Opened(g) ==
  /\ Enter(g, IF Since \/ start > 0 THEN "history" ELSE "live")
  /\ opened' = [opened EXCEPT ![g] = Len(log[g])]
  /\ at' = [at EXCEPT ![g] = Len(log[g])]
  /\ UNCHANGED histEnd

\* The first StartLiveTail, in the loop that starts the goroutines.
SetUp(g) ==
  /\ consumer = "setup"
  /\ phase[g] = "setup"
  /\ \/ exists[g] /\ Opened(g)
     \/ ~exists[g] /\ Enter(g, "poll") /\ UNCHANGED progress
     \/ Enter(g, "failed") /\ UNCHANGED progress
  /\ UNCHANGED <<provider, canceled, hold, back, printed, asked, consumer, last>>

\* After the loop: any error cancels what was started.
SetUpOver ==
  /\ consumer = "setup"
  /\ \A g \in Groups : phase[g] # "setup"
  /\ LET failed == \E g \in Groups : phase[g] = "failed" IN
       /\ consumer' = (IF failed THEN "failed" ELSE "range")
       /\ canceled' = failed
  /\ UNCHANGED <<provider, phase, progress, hold, back, printed, asked, last>>

\* pollTailLogGroup: a group that is still missing is tried again.
Poll(g) ==
  /\ phase[g] = "poll"
  /\ \/ exists[g] /\ Opened(g) /\ UNCHANGED <<hold, back>>
     \/ Yield(g, Result(1, 0, "stream"), "live") /\ UNCHANGED progress
  /\ UNCHANGED <<provider, canceled, printed, asked, consumer, last>>

\* Faults of EndsNow: the history ends before the live tail begins, or runs on
\* into the future.
EndsLater(g) == Len(log[g]) + 1
EndsBefore(g) == IF opened[g] > 0 THEN opened[g] - 1 ELSE 0

\* end = time.Now(), after the live tail was opened.
EndsNow(g) == Len(log[g])

\* The first n entries of g are older than what was asked for.
Before(g, n) ==
  /\ n \in 0..Len(log[g])
  /\ \A k \in DOMAIN log[g] : k <= n <=> log[g][k] < start

QueryHistory(g) ==
  /\ phase[g] = "history"
  /\ Enter(g, "query")
  /\ histEnd' = [histEnd EXCEPT ![g] = EndsNow(g)]
  /\ \E n \in 0..Len(log[g]) : Before(g, n) /\ at' = [at EXCEPT ![g] = n]
  /\ UNCHANGED <<opened, provider, canceled, hold, back, printed, asked, consumer, last>>

\* A live tail delivers what is recorded after it was opened.
LiveFrom(g) == opened[g]

\* One page of the history, or the end of it; FilterLogEvents may fail.
HistoryPage(g) ==
  /\ phase[g] = "query"
  /\ \/ \E hi \in (at[g] + 1)..histEnd[g] :
          Yield(g, Result(at[g] + 1, hi, "nil"), "query") /\ at' = [at EXCEPT ![g] = hi]
     \/ \E err \in {"stream", "notFound"} :
          Yield(g, Result(1, 0, err), "live") /\ UNCHANGED at
     \/ /\ at[g] >= histEnd[g]
        /\ Enter(g, "live") /\ at' = [at EXCEPT ![g] = LiveFrom(g)]
        /\ UNCHANGED <<hold, back>>
  /\ UNCHANGED <<opened, histEnd, provider, canceled, printed, asked, consumer, last>>

\* The live tail of TailLogGroup: a batch, or an error; io.EOF when it closes.
LiveEvents(g) ==
  /\ phase[g] = "live"
  /\ \/ \E hi \in (at[g] + 1)..Len(log[g]) :
          Yield(g, Result(at[g] + 1, hi, "nil"), "live") /\ at' = [at EXCEPT ![g] = hi]
     \/ Yield(g, Result(1, 0, "stream"), "live") /\ UNCHANGED at
  /\ UNCHANGED <<opened, histEnd, provider, canceled, printed, asked, consumer, last>>

\* ctx.Done() in the poll and the live tail, an error of the canceled request
\* in the query: each yields the error of the context.
CtxError(g) ==
  /\ Over
  /\ phase[g] \in {"poll", "query", "live"}
  /\ Yield(g, Result(1, 0, "context"), "live")
  /\ UNCHANGED <<progress, provider, canceled, printed, asked, consumer, last>>

\* The other branch of the select around the send: <-ctx.Done().
GiveUp(g) ==
  /\ phase[g] = "send"
  /\ Over
  /\ Enter(g, "done")
  /\ hold' = [hold EXCEPT ![g] = Empty]
  /\ UNCHANGED <<progress, provider, canceled, back, printed, asked, consumer, last>>

-----------------------------------------------------------------------------
\* Fault of IsDuplicate: the flag of the loop that reconnects is not passed on.
NeverDuplicate(g, k) == FALSE

\* The entry looks like the last one printed before the reconnect.
IsDuplicate(g, k) == skipDuplicate /\ log[g][k] = since

Run(lo, hi) == [i \in 1..(hi - lo + 1) |-> lo + i - 1]

\* handleLogEntryMsgs prints the batch but for the first duplicate, which resets
\* its copy of skipDuplicate; no entry before that one can move Since.
Show(g, lo, hi) ==
  /\ \/ /\ \A k \in lo..hi : ~IsDuplicate(g, k)
        /\ got' = [got EXCEPT ![g] = @ \o Run(lo, hi)]
     \/ \E k \in lo..hi :
          /\ IsDuplicate(g, k) /\ \A i \in lo..(k - 1) : ~IsDuplicate(g, i)
          /\ got' = [got EXCEPT ![g] = (@ \o Run(lo, k - 1)) \o Run(k + 1, hi)]
  /\ since' = IF lo <= hi /\ log[g][hi] > since THEN log[g][hi] ELSE since

\* The send meets the range over the channel; an error ends the goroutine.
Deliver(g) ==
  /\ phase[g] = "send" /\ consumer = "range"
  /\ Show(g, hold[g].lo, hold[g].hi)
  /\ last' = hold[g].err
  /\ Enter(g, IF hold[g].err = "nil" THEN back[g] ELSE "done")
  /\ hold' = [hold EXCEPT ![g] = Empty]
  /\ consumer' = "yield"
  /\ UNCHANGED <<progress, provider, asked, canceled, back, skipDuplicate>>

\* Fault of CancelOnExit: no deferred cancel.
KeepsRunning == UNCHANGED canceled

\* The deferred cancel of the iterator, which stop() brings about.  `defer stop()`
\* in receiveLogs is the stop of the first iterator only: what ends a later one is
\* the deferred cancel of streamLogs, whose context it has (tail.go:279, 383).
CancelOnExit == canceled' = TRUE

\* Fault of EndsAt: the range goes on after an error.
GoesOnAt(err) == FALSE

EndsAt(err) == err # "nil"

\* QueryLogs skips the error of a log stream that is not there: to receiveLogs the
\* iteration has come to its end.
SeenAs(err) == IF err = "notFound" THEN "end" ELSE "error"

\* The entries of g that were printed.
GotOf(g) == {got[g][i] : i \in DOMAIN got[g]}

\* No goroutine is left.
Gone == phase \in [Groups -> {"setup", "done", "failed"}]

\* yield(r.events, r.err): whoever ranges may stop; an error ends it anyway.  A
\* stream error may be transient: the iterator is left where it is for a delay.
Consume ==
  /\ consumer = "yield"
  /\ \/ ~EndsAt(last) /\ consumer' = "range" /\ UNCHANGED <<canceled, drops>>
     \/ EndsAt(last) /\ consumer' = SeenAs(last) /\ CancelOnExit /\ UNCHANGED drops
     \/ last = "nil" /\ consumer' = "stopped" /\ CancelOnExit /\ UNCHANGED drops
     \/ /\ last = "stream" /\ drops < MaxDrops
        /\ consumer' = "delay" /\ drops' = drops + 1 /\ UNCHANGED canceled
  /\ UNCHANGED <<provider, earlier, start, phase, progress, hold, back, printed, last>>

\* DelayBeforeRetry, then stop() of the old iterator.
Delay ==
  /\ consumer = "delay"
  /\ \/ consumer' = "stop"
     \/ ctxDone /\ consumer' = "error"
  /\ CancelOnExit
  /\ UNCHANGED <<provider, asked, phase, progress, hold, back, printed, last>>

\* QueryLogs from options.Since.  The goroutines of the old call share nothing
\* with the new ones and have all to end anyway: that they do is AllEnd.
Reopen ==
  /\ consumer = "stop"
  /\ Gone
  /\ consumer' = "setup" /\ canceled' = FALSE
  /\ phase' = [g \in Groups |-> "setup"]
  /\ opened' = [g \in Groups |-> 0] /\ histEnd' = [g \in Groups |-> 0]
  /\ at' = [g \in Groups |-> 0]
  /\ back' = [g \in Groups |-> "live"]
  /\ earlier' = [g \in Groups |-> earlier[g] \union GotOf(g)]
  /\ got' = [g \in Groups |-> <<>>]
  /\ start' = since /\ skipDuplicate' = TRUE /\ last' = "nil"
  /\ UNCHANGED <<provider, drops, since, hold>>

\* wg.Wait(), close(ch), and the range ends.
ChannelClosed ==
  /\ consumer = "range"
  /\ \A g \in Groups : phase[g] \in {"done", "failed"}
  /\ consumer' = "end" /\ CancelOnExit
  /\ UNCHANGED <<provider, phase, progress, hold, back, printed, asked, last>>

\* What waits for an answer of CloudWatch, which a live tail may never give.
Waits(g) == Poll(g) \/ HistoryPage(g) \/ LiveEvents(g)
Notice(g) == CtxError(g) \/ GiveUp(g)
Main == SetUpOver \/ Consume \/ Delay \/ Reopen \/ ChannelClosed
Program == Main \/ \E g \in Groups : SetUp(g) \/ QueryHistory(g) \/ Notice(g) \/ Deliver(g)

TailNext == World \/ Program \/ \E g \in Groups : Waits(g)

TailSpec == TailInit /\ [][TailNext]_tailVars

-----------------------------------------------------------------------------
Overs == {"failed", "stopped", "error", "end"}
ConsumerOver == consumer \in Overs

\* Types of the variables, and the entries a goroutine may hold.
TailTypeOK ==
  /\ exists \in [Groups -> BOOLEAN] /\ log \in [Groups -> Seq(1..(2 * MaxLog))]
  /\ ctxDone \in BOOLEAN /\ canceled \in BOOLEAN /\ drops \in 0..MaxDrops
  /\ phase \in [Groups -> {"setup", "poll", "history", "query", "live", "send", "done", "failed"}]
  /\ opened \in [Groups -> 0..MaxLog] /\ histEnd \in [Groups -> 0..MaxLog]
  /\ at \in [Groups -> 0..MaxLog]
  /\ \A g \in Groups : /\ opened[g] <= Len(log[g]) /\ histEnd[g] <= Len(log[g])
                       /\ at[g] <= Len(log[g]) /\ hold[g].hi <= at[g]
                       /\ earlier[g] \union GotOf(g) \subseteq DOMAIN log[g]
  /\ got \in [Groups -> Seq(1..MaxLog)] /\ earlier \in [Groups -> SUBSET (1..MaxLog)]
  /\ hold \in [Groups -> [lo : 1..(MaxLog + 1), hi : 0..MaxLog, err : Errors]]
  /\ back \in [Groups -> {"query", "live"}]
  /\ start \in 0..(2 * MaxLog + 1) /\ since \in start..(2 * MaxLog + 1) /\ skipDuplicate \in BOOLEAN
  /\ consumer \in {"setup", "range", "yield", "delay", "stop"} \union Overs
  /\ last \in Errors

\* Before the last reconnect another group had printed something newer.
Overtaken(g, k) ==
  \E h \in Groups \ {g} : \E m \in earlier[h] : log[h][m] > log[g][k]

\* The hand-over from history to the live tail leaves no gap, whatever is
\* recorded between the two requests (stream.go:36-60), and a reconnect loses
\* only what another group had overtaken, as the groups are "interleaved (not
\* merge-sorted)" (stream.go:85) and share one Since (tail.go:415): an entry is
\* only printed after every other older one of its group.
NoGap ==
  Since => \A g \in Groups : \A i \in DOMAIN got[g] : \A k \in 1..got[g][i] :
             \/ k \in earlier[g] \union {got[g][j] : j \in 1..i}
             \/ Overtaken(g, k)

\* An entry is printed twice only if it was recorded in the overlap, after the
\* live tail was opened and before the history was queried; or if it was the last
\* before a reconnect and another group has moved Since on before it came again
\* (tail.go:459).
OnlyOverlapTwice ==
  \A g \in Groups : \A j \in DOMAIN got[g] :
    /\ \A i \in 1..(j - 1) :
         got[g][i] = got[g][j] => got[g][i] > opened[g] /\ got[g][i] <= histEnd[g]
    /\ got[g][j] \in earlier[g] =>
         /\ log[g][got[g][j]] = start
         /\ \E h \in Groups \ {g} : \E k \in GotOf(h) : log[h][k] > start

\* A tail ends without an error only with its context, or for a log stream that is
\* not there: any other end of a group is reported before the channel is closed
\* (stream.go:106-115, 131-138; byoc.go:785).
EndsOnlyCanceled == consumer = "end" => ctxDone \/ last = "notFound"

\* The end of the caller's context ends the iteration, also while groups are
\* being polled or a send is waiting; and whoever stops ranging, or gets an
\* error, or is refused the iterator because one group failed, leaves no
\* goroutine behind (stream.go:87-139).
AllEnd == (ctxDone \/ ConsumerOver) ~> (ConsumerOver /\ Gone)
=============================================================================
