------------------------------- MODULE AwsLogs -------------------------------
(***************************************************************************)
(* QueryLogs of the AWS provider (byoc/aws/byoc.go), read by receiveLogs.  *)
(* A command that follows the log has the tail of LogGroupsTail.  Any      *)
(* other one gets what there is: QueryLogGroups pulls the entries of every *)
(* group page by page, merges them by time and stops at the limit;         *)
(* QueryBuildID is the query of one group alone.  A query without --since  *)
(* asks for the last entries, which are known when all have been read.     *)
(* The command may be one that another command printed: "To view more      *)
(* recent logs, run `defang logs --since=<time stamp of the last entry>`". *)
(* An entry stands for one that parseEvent does not filter out.            *)
(***************************************************************************)
EXTENDS LogGroupsTail

CONSTANTS
  Build,    \* the group that a build logs to
  Limits    \* the values of --limit that are tried

ASSUME LimitsAssumption == Build \in Groups /\ Limits \subseteq Nat

VARIABLES
  kind,     \* "none" before the command, then "follow", "groups" or "build"
  newest,   \* there is no --since
  limit,    \* req.Limit, 0 for none, also for a tail, which ignores it
  left,     \* the limit of QueryLogGroup, which it counts down, per group
  merged,   \* entries of a group that the merge is past
  yielded   \* entries that TakeFirstN has let through

options == <<kind, newest, limit>>
query == <<options, left, merged, yielded>>
awsVars == <<tailVars, query>>

AwsInit ==
  /\ TailInit
  /\ kind = "none" /\ newest = FALSE /\ limit = 0
  /\ left = [g \in Groups |-> 0] /\ merged = [g \in Groups |-> 0] /\ yielded = 0

\* A time stamp that no entry has.
Now == 2 * Cardinality(Times) + 1

\* streamLogs: without --since the time to continue from is now, which QueryLogs
\* is not told (tail.go:247).
Command ==
  /\ kind = "none"
  /\ kind' \in {"follow", "groups", "build"}
  /\ newest' \in BOOLEAN /\ (kind' = "follow" => ~newest')
  /\ limit' \in (IF kind' = "follow" THEN {0} ELSE Limits)
  /\ start' \in (IF newest' \/ kind' = "follow" THEN {0} ELSE {0} \union Times)
  /\ since' = IF newest' THEN Now ELSE start'
  /\ UNCHANGED <<left, merged, yielded, provider, drops, earlier, canceled, phase, progress,
                 hold, back, got, skipDuplicate, consumer, last>>

Querying == kind \in {"groups", "build"}
Queried == IF kind = "build" THEN {Build} ELSE Groups

\* Without a start time QueryLogGroup goes back an hour and forgets the limit,
\* which TakeLastN applies to the groups together.
FromTheEnd == newest /\ start = 0
TakesLast == FromTheEnd /\ kind = "groups" /\ limit > 0

-----------------------------------------------------------------------------
\* QueryLogGroup: "now" is asked for each group.
Ask(g) ==
  /\ Querying /\ consumer = "setup" /\ phase[g] = "setup"
  /\ Enter(g, IF g \in Queried THEN "query" ELSE "done")
  /\ histEnd' = [histEnd EXCEPT ![g] = EndsNow(g)]
  /\ \E n \in 0..Len(log[g]) :
       /\ Before(g, n)
       /\ at' = [at EXCEPT ![g] = n] /\ merged' = [merged EXCEPT ![g] = n]
  /\ left' = [left EXCEPT ![g] = IF FromTheEnd THEN 0 ELSE limit]
  /\ UNCHANGED <<options, yielded, opened, provider, asked, canceled, hold, back, printed,
                 consumer, last>>

Asked ==
  /\ Querying /\ consumer = "setup"
  /\ \A g \in Groups : phase[g] # "setup"
  /\ consumer' = "range" /\ yielded' = 0
  /\ UNCHANGED <<options, left, merged, provider, asked, canceled, phase, progress, hold, back,
                 printed, last>>

\* "Arbitrary small number to make some progress" (logs.go:213).
Extra == 10

\* Fault of LimitAfter: a full page is the last one.
LimitSpent(g, n) ==
  CASE left[g] = 0 -> 0
    [] n < left[g] -> left[g] - n
    [] OTHER -> -1

\* What is left of the limit after a page of n entries, -1 if no other page is
\* asked for: a full page may be full of what was asked for the last time.
LimitAfter(g, n) ==
  IF left[g] = 0 THEN 0
  ELSE CASE n < left[g] -> left[g] - n
         [] n = left[g] /\ log[g][at[g] + n] = start -> Extra
         [] OTHER -> -1

\* TakeFirstN ends with the entry that reaches the limit.  QueryBuildID has none.
TakenAll == kind = "groups" /\ limit > 0 /\ yielded >= limit

\* TakeLastN reads all there is, the merge one page ahead of what it is past.
Pulls(g) ==
  /\ Querying /\ consumer = "range" /\ phase[g] = "query" /\ ~TakenAll
  /\ TakesLast \/ merged[g] = at[g]

\* A page has no more entries than the limit, and may have fewer; only the last
\* one need not name a next one.
Page(g) ==
  /\ Pulls(g)
  /\ \E n \in 0..(histEnd[g] - at[g]) :
       /\ left[g] = 0 \/ n <= left[g]
       /\ at' = [at EXCEPT ![g] = at[g] + n]
       /\ \/ LimitAfter(g, n) >= 0
             /\ left' = [left EXCEPT ![g] = LimitAfter(g, n)] /\ UNCHANGED phase
          \/ /\ LimitAfter(g, n) < 0 \/ at[g] + n >= histEnd[g]
             /\ Enter(g, "done") /\ UNCHANGED left
  /\ UNCHANGED <<options, merged, yielded, opened, histEnd, provider, asked, canceled, hold,
                 back, printed, consumer, last>>

\* A page fails.  The merge yields the error before any entry it holds; QueryLogs
\* skips a log stream that is not there.
PageFails(g) ==
  /\ Pulls(g)
  /\ \/ Enter(g, "failed") /\ UNCHANGED <<consumer, last>>
     \/ /\ last' \in {"stream"} \union (IF ctxDone THEN {"context"} ELSE {})
        /\ Enter(g, "done") /\ consumer' = "yield"
  /\ UNCHANGED <<options, left, merged, yielded, progress, provider, asked, canceled, hold,
                 back, printed>>

\* Groups with an entry that was read and not yet merged, and their next ones.
Ready == {g \in Groups : merged[g] < at[g]}
NextTime(g) == log[g][merged[g] + 1]

\* Fault of Earliest: the groups one after the other.
AnyReady(g) == g \in Ready

\* MergeLogEvents: the entry with the smaller time stamp.
Earliest(g) == g \in Ready /\ \A h \in Ready : NextTime(g) <= NextTime(h)

\* The merge holds the next entry of every group that has one.
MergesNow ==
  /\ Querying /\ consumer = "range"
  /\ \A g \in Groups : ~Pulls(g)
  /\ TakesLast => \A g \in Groups : phase[g] # "query"

\* The entries that TakeLastN holds when it has read everything.
Unmerged == UNION {{log[g][k] : k \in (merged[g] + 1)..at[g]} : g \in Groups}

\* buffer = buffer[1:]
TooOld == TakesLast /\ Cardinality(Unmerged) > limit - yielded

Drop(g) ==
  /\ MergesNow /\ TooOld /\ Earliest(g)
  /\ merged' = [merged EXCEPT ![g] = @ + 1]
  /\ UNCHANGED <<options, left, yielded, tailVars>>

\* One entry goes through all of the iterators to receiveLogs.
Merge(g) ==
  /\ MergesNow /\ ~TooOld /\ ~TakenAll /\ Earliest(g)
  /\ merged' = [merged EXCEPT ![g] = @ + 1]
  /\ yielded' = yielded + 1
  /\ Show(g, merged[g] + 1, merged[g] + 1)
  /\ last' = "nil" /\ consumer' = "yield"
  /\ UNCHANGED <<options, left, provider, asked, canceled, phase, progress, hold, back, skipDuplicate>>

\* The iteration ends; receiveLogs prints how to see more.
QueryEnds ==
  /\ Querying /\ consumer = "range"
  /\ TakenAll \/ (MergesNow /\ Ready = {})
  /\ consumer' = "end" /\ CancelOnExit
  /\ UNCHANGED <<query, provider, asked, phase, progress, hold, back, printed, last>>

\* The deferred stops of the merge, which the stop of receiveLogs brings about.
StopPulls ==
  /\ Querying /\ consumer \in {"stop"} \union Overs
  /\ \E g \in Groups : phase[g] = "query"
  /\ phase' = [g \in Groups |-> IF phase[g] = "query" THEN "done" ELSE phase[g]]
  /\ UNCHANGED <<query, provider, asked, canceled, progress, hold, back, printed, consumer, last>>

\* What receiveLogs does is the same for every command.
Receives == Querying /\ (Consume \/ Delay \/ Reopen) /\ UNCHANGED query

Query ==
  \/ Asked \/ QueryEnds \/ StopPulls \/ Receives
  \/ \E g \in Groups : Ask(g) \/ Page(g) \/ PageFails(g) \/ Drop(g) \/ Merge(g)

-----------------------------------------------------------------------------
Tails(A) == kind = "follow" /\ A /\ UNCHANGED query

AwsNext ==
  \/ World /\ UNCHANGED query
  \/ Command \/ Query
  \/ Tails(Program)
  \/ \E g \in Groups : Tails(Waits(g))

AwsSpec == AwsInit /\ [][AwsNext]_awsVars

\* The program runs, and a done context is noticed.  A live tail may stay silent; the
\* pages of a query are answered, and those without an entry come to an end.
FairAwsSpec == AwsSpec /\ WF_awsVars(Command \/ Query \/ Tails(Program))

-----------------------------------------------------------------------------
\* Types of the variables.
AwsTypeOK ==
  /\ TailTypeOK
  /\ kind \in {"none", "follow", "groups", "build"}
  /\ newest \in BOOLEAN /\ limit \in Limits \union {0}
  /\ left \in [Groups -> UNION {0..n : n \in Limits \union {Extra}}]
  /\ merged \in [Groups -> 0..MaxLog]
  /\ Querying /\ consumer # "setup" => \A g \in Groups : merged[g] <= at[g]
  /\ yielded \in 0..MaxLog

\* NoGap and EndsOnlyCanceled are about commands that follow the log.
FollowedWithoutGap == kind = "follow" => NoGap
FollowedEndExplained == kind = "follow" => EndsOnlyCanceled

\* The entries that the query is to find in group g: those that were there when the
\* group was asked, from the start time on; after a reconnect, the one that has the
\* start time itself is taken for the last one printed.
Found(g) ==
  {k \in 1..histEnd[g] :
     /\ g \in Queried /\ phase[g] # "failed"
     /\ log[g][k] > start \/ (log[g][k] = start /\ ~skipDuplicate)}

\* Within a query nothing is left out: when an entry is shown, every older one that
\* the query was to find has been shown, in whichever group and on whichever page it
\* was; or, when the last ones were asked for, it was older than all that are shown
\* (logs.go:130, "Merge sort the log events", merge.go:7, tail.go:459).
QueryWithoutGap ==
  Querying =>
    \A g, h \in Groups : \A k \in Found(g) \ GotOf(g) : \A m \in GotOf(h) :
      \/ log[g][k] > log[h][m]
      \/ TakesLast /\ \A f \in Groups : \A j \in GotOf(f) : log[g][k] < log[f][j]

\* How many entries are shown.
ShownEntries ==
  Cardinality(UNION {{log[g][k] : k \in GotOf(g)} : g \in Groups})

\* A query that comes to its end has shown as much as was asked for, although pages
\* may be short and one entry is taken for a duplicate: everything, or as many
\* entries as the limit allows.  The query of a build has moved on from the start
\* time even if that fills the limit, as "we risk getting stuck in a loop"
\* (logs.go:210).
QueryShowsEnough ==
  Querying /\ consumer = "end" =>
    \/ \A g \in Groups : Found(g) \subseteq GotOf(g)
    \/ /\ limit > 0 /\ ShownEntries + (IF skipDuplicate THEN 1 ELSE 0) >= limit
       /\ kind = "groups" => ShownEntries <= limit
       /\ kind = "build" => \E k \in GotOf(Build) : log[Build][k] > start
=============================================================================
