------------------------------ MODULE LogTail ------------------------------
(***************************************************************************)
(* streamLogs, receiveLogs and handleLogEntryMsgs (pkg/cli/tail.go): print *)
(* the entries of a provider's log stream, and on a transient error open a *)
(* new stream from the time stamp of the last entry printed.  The provider *)
(* answers a query with the entries whose time stamp is not before Since,  *)
(* oldest first, in messages of one or more entries; without a Since where *)
(* it likes; and the live tail of a CD build always from now (AWS,         *)
(* codebuild/tail.go).  The first query has the caller's context, a later  *)
(* one a context that the keyboard goroutine cancels.                      *)
(***************************************************************************)
EXTENDS Integers, Sequences

CONSTANTS
  Froms,      \* where queries start: a set of "since", "anywhere" and "now"
  Since0,     \* options.Since when the tail starts
  MaxTs,      \* bound: time stamps
  MaxLog,     \* bound: entries the provider ever records
  MaxBatch,   \* bound: entries in a message
  MaxDrops    \* bound: transient errors

ASSUME TailAssumption ==
  /\ Froms \subseteq {"since", "anywhere", "now"}
  /\ Since0 \in 0..MaxTs
  /\ MaxTs \in Nat /\ MaxLog \in Nat /\ MaxBatch \in Nat /\ MaxDrops \in Nat

VARIABLES
  from,      \* where a query starts; "anywhere" only without options.Since
  log,       \* every entry the provider has recorded, by time stamp
  cursor,    \* how many of them the open stream is past
  drops,     \* transient errors so far
  ctxDone,   \* the caller's context is canceled, or past options.Until
  canceled,  \* the context made by streamLogs is canceled
  pc,        \* "query", "next", "entries", "delay", "requery" or "returned"
  left,      \* entries of the current message still to handle
  skip,      \* skipDuplicate of handleLogEntryMsgs
  skipDuplicate,  \* skipDuplicate of receiveLogs
  since,     \* options.Since
  printed,   \* positions in log of the entries printed, in the order printed
  outcome    \* why streamLogs returned, "pending" until then

ctxs == <<ctxDone, canceled>>
provider == <<from, log, drops, ctxs>>
shown == <<since, printed>>
logVars == <<provider, cursor, pc, left, skip, skipDuplicate, shown, outcome>>

Kinds == {"line", "dot", "end"}   \* a progress dot; the line that ends a deployment
Entries == [ts : 0..MaxTs, kind : Kinds]

\* The log may have an entry that is older than the tail.
LogInit ==
  /\ from \in Froms
  /\ log \in {<<>>} \union {<<e>> : e \in [ts : 0..(Since0 - 1), kind : {"line"}]}
  /\ cursor = 0 /\ drops = 0 /\ ctxDone = FALSE /\ canceled = FALSE
  /\ pc = "query" /\ left = 0 /\ skip = FALSE /\ skipDuplicate = FALSE
  /\ since = Since0 /\ printed = <<>> /\ outcome = "pending"

LastTs == IF log = <<>> \/ log[Len(log)].ts < Since0 THEN Since0 ELSE log[Len(log)].ts

Record ==
  /\ Len(log) < MaxLog
  /\ \E ts \in LastTs..MaxTs, k \in Kinds :
       log' = Append(log, [ts |-> ts, kind |-> k])
  /\ UNCHANGED <<from, cursor, drops, ctxs, pc, left, skip, skipDuplicate, shown, outcome>>

CtxDone ==
  /\ ~ctxDone
  /\ ctxDone' = TRUE
  /\ UNCHANGED <<from, log, canceled, cursor, drops, pc, left, skip, skipDuplicate, shown, outcome>>

\* The keyboard goroutine, started after the first query, reads Ctrl-C; where
\* the terminal makes a signal of it, that is CtxDone instead.
CtrlC ==
  /\ pc \notin {"query", "returned"} /\ ~canceled
  /\ canceled' = TRUE
  /\ UNCHANGED <<from, log, ctxDone, cursor, drops, pc, left, skip, skipDuplicate, shown, outcome>>

\* A stream that was opened again has the context of streamLogs, the first one
\* that of its caller.
StreamCtxDone == ctxDone \/ (canceled /\ skipDuplicate)

Leave(why) ==
  /\ pc' = "returned"
  /\ outcome' = why

\* next() returns a message of n entries; handleLogEntryMsgs gets its own copy
\* of skipDuplicate.
Message ==
  /\ pc = "next"
  /\ \E n \in 1..MaxBatch :
       /\ cursor + n <= Len(log)
       /\ left' = n
  /\ pc' = "entries"
  /\ skip' = skipDuplicate
  /\ UNCHANGED <<cursor, skipDuplicate, provider, shown, outcome>>

\* Fault of IsDuplicate: whatever comes first is a duplicate.
IsFirst(e) == skip

\* The entry looks like the last one printed before the stream was reopened.
IsDuplicate(e) == skip /\ e.ts = since

NewSince(e) == IF e.ts > since THEN e.ts ELSE since

\* What the loop of handleLogEntryMsgs leaves to the rest of receiveLogs.
Handled ==
  /\ cursor' = cursor + 1
  /\ left' = left - 1
  /\ UNCHANGED <<skipDuplicate, provider>>

NextEntry == pc' = (IF left = 1 THEN "next" ELSE "entries") /\ UNCHANGED outcome

\* Progress dots are replaced by the spinner.
SkipDot ==
  /\ pc = "entries"
  /\ log[cursor + 1].kind = "dot"
  /\ Handled /\ NextEntry
  /\ UNCHANGED <<skip, shown>>

SkipEntry ==
  /\ pc = "entries"
  /\ LET e == log[cursor + 1] IN e.kind # "dot" /\ IsDuplicate(e)
  /\ Handled /\ NextEntry
  /\ skip' = FALSE
  /\ UNCHANGED shown

\* Print the entry; EndEventDetectFunc ends the tail on the end line.
PrintEntry ==
  /\ pc = "entries"
  /\ LET e == log[cursor + 1] IN
       /\ e.kind # "dot" /\ ~IsDuplicate(e)
       /\ since' = NewSince(e)
       /\ printed' = Append(printed, cursor + 1)
       /\ IF e.kind = "end" THEN Leave("EOF") ELSE NextEntry
  /\ Handled
  /\ UNCHANGED skip

\* Transient error from next(): DelayBeforeRetry, then a query from options.Since.
TransientError ==
  /\ pc = "next"
  /\ drops < MaxDrops
  /\ drops' = drops + 1
  /\ pc' = "delay"
  /\ UNCHANGED <<from, log, cursor, ctxs, left, skip, skipDuplicate, shown, outcome>>

Delay ==
  /\ pc = "delay"
  /\ \/ pc' = "requery" /\ UNCHANGED outcome
     \/ (ctxDone \/ canceled) /\ Leave("context")
  /\ UNCHANGED <<cursor, left, skip, skipDuplicate, provider, shown>>

\* Faults of IsBefore: the request keeps its first Since, or starts from now.
IsBeforeFirstSince(i) == log[i].ts < Since0
IsRecorded(i) == i <= Len(log)

IsBefore(i) == log[i].ts < since

\* QueryLogs fails, or gives a stream that starts where it should.
QueryLogs ==
  \/ /\ cursor' \in 0..Len(log)
     /\ from = "now" => cursor' = Len(log)
     /\ from = "since" \/ (from = "anywhere" /\ pc = "requery") =>
          \A i \in 1..Len(log) : i <= cursor' <=> IsBefore(i)
     /\ pc' = "next"
     /\ UNCHANGED outcome
  \/ Leave("query") /\ UNCHANGED cursor

Query ==
  /\ pc = "query"
  /\ QueryLogs
  /\ UNCHANGED <<left, skip, skipDuplicate, provider, shown>>

Requery ==
  /\ pc = "requery"
  /\ QueryLogs
  /\ skipDuplicate' = (skipDuplicate \/ pc' = "next")
  /\ UNCHANGED <<left, skip, provider, shown>>

\* The iterator ends, always so at the limit, or yields a permanent error.
StreamOver ==
  /\ pc = "next"
  /\ Leave("end") \/ Leave("error")
  /\ UNCHANGED <<cursor, left, skip, skipDuplicate, provider, shown>>

\* Fault of StreamCanceled: only the caller's context is looked at.
CanceledByCaller ==
  /\ pc = "next"
  /\ ctxDone
  /\ Leave("context")
  /\ UNCHANGED <<cursor, left, skip, skipDuplicate, provider, shown>>

StreamCanceled ==
  /\ pc = "next"
  /\ StreamCtxDone
  /\ Leave("context")
  /\ UNCHANGED <<cursor, left, skip, skipDuplicate, provider, shown>>

Client == Query \/ Message \/ SkipDot \/ SkipEntry \/ PrintEntry \/ Delay \/ Requery

LogNext ==
  \/ Record \/ CtxDone \/ CtrlC
  \/ Client
  \/ TransientError \/ StreamOver \/ StreamCanceled

LogSpec == LogInit /\ [][LogNext]_logVars

FairLogSpec == LogSpec /\ WF_logVars(Client) /\ WF_logVars(StreamCanceled)

-----------------------------------------------------------------------------
\* Types of the variables, and where the cursor may be.
LogTypeOK ==
  /\ from \in Froms
  /\ log \in Seq(Entries)
  /\ cursor \in Nat /\ left \in Nat
  /\ cursor + left <= Len(log)
  /\ drops \in 0..MaxDrops
  /\ ctxDone \in BOOLEAN /\ canceled \in BOOLEAN /\ skip \in BOOLEAN /\ skipDuplicate \in BOOLEAN
  /\ pc \in {"query", "next", "entries", "delay", "requery", "returned"}
  /\ pc = "entries" => left > 0
  /\ pc \in {"next", "delay", "requery"} => left = 0
  /\ since \in Since0..MaxTs
  /\ printed \in Seq(1..Len(log))
  /\ outcome \in {"pending", "context", "query", "end", "error", "EOF"}

\* The time stamps a user sees never go back, over any number of reconnects
\* and with entries that share one (tail.go:415, 468).
TimeNeverGoesBack ==
  \A i, j \in DOMAIN printed : i <= j => log[printed[i]].ts <= log[printed[j]].ts

\* What a user should have seen once the stream was past the first n entries.
ShownOf(n) == {i \in 1..n : log[i].kind # "dot" /\ log[i].ts >= Since0}

\* The entry at i is the first with its time stamp.
Fresh(i) == log[i].ts # Since0 /\ \A j \in 1..(i - 1) : log[j].ts < log[i].ts

\* No two entries share a time stamp, and none has the one the tail starts at.
NoTies == \A i \in 1..Len(log) : Fresh(i)

\* Without ties no entry is printed twice or out of order, and if queries start at
\* Since every one is printed, whatever the reconnects.
ExactlyOnce ==
  NoTies =>
  /\ \A i, j \in DOMAIN printed : i < j => printed[i] < printed[j]
  /\ from = "since" => \A k \in ShownOf(cursor) : \E j \in DOMAIN printed : printed[j] = k

\* With ties an entry is lost only if it is taken for another one: one with its
\* time stamp was printed, or the tail starts at that time (tail.go:415, 459).
OnlyTiesLost ==
  from = "since" =>
    \A k \in ShownOf(cursor) :
      log[k].ts = Since0 \/ \E i \in DOMAIN printed : log[printed[i]].ts = log[k].ts

\* What ends a tail: its caller's context; Ctrl-C at the keyboard, once a stream was
\* opened with the context that it cancels (tail.go:279, 421); and, for queries
\* that start at Since, the line that ends a deployment once it is in the log, if
\* it is the first with its time stamp: otherwise it may be taken for a duplicate.
EndLine(i) == log[i].kind = "end" /\ log[i].ts > Since0 /\ Fresh(i)
TailEnds ==
  (ctxDone \/ (canceled /\ skipDuplicate) \/ (from = "since" /\ \E i \in 1..Len(log) : EndLine(i)))
    ~> pc = "returned"
=============================================================================
