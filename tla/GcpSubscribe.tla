---------------------------- MODULE GcpSubscribe ----------------------------
(***************************************************************************)
(* The stream of service updates of the GCP provider (byoc/gcp/stream.go), *)
(* read by WaitServiceState with target DEPLOYMENT_COMPLETED.  It is made  *)
(* from the audit log: the log of everything that happens is listed and    *)
(* then tailed by Follow, and getActivityParser, which has a memory of its *)
(* own, turns an entry into updates.  The entries of different resources   *)
(* arrive in any order.  A stream sees no entry made before it was opened, *)
(* none made between its list and its tail, and starts with a new memory.  *)
(***************************************************************************)
EXTENDS Naturals

CONSTANTS
  Services,   \* the services waited for
  Runs,       \* those that are Cloud Run services; the others are instance groups
  Built,      \* those whose image is built
  Cd,         \* the CD build
  MaxDrops    \* bound: transient stream errors

ASSUME ServicesAssumption ==
  /\ Runs \subseteq Services
  /\ Built \subseteq Services
  /\ Cd \notin Services
ASSUME MaxDropsAssumption == MaxDrops \in Nat

VARIABLES
  logged,      \* the audit-log entries made since the deployment started
  unread,      \* those among them that the open stream has still to yield
  parsed,      \* those that the parser of the open stream has taken in
  phase,       \* of the stream: "closed", "list", "gap" or "tail"
  drops,       \* transient errors so far
  cdSuccess, readyServices, triggers,   \* the memory of the parser
  states,      \* serviceStates of WaitServiceState
  result       \* of WaitServiceState

log == <<logged, drops>>
parser == <<cdSuccess, readyServices, triggers>>
wait == <<states, result>>
vars == <<logged, unread, parsed, phase, drops, parser, wait>>

Entry(type, of, stage) == [type |-> type, of |-> of, stage |-> stage]

\* The query of Subscribe: builds of images and of the CD, requests and status
\* of Cloud Run services, changes of instance groups by their managers.  A build
\* is one of Cloud Build or a Cloud Run job; all states of one that goes on or has
\* ended well are "progress".
Entries ==
  {Entry("build", s, g) : s \in Built, g \in {"progress", "failed"}}
    \union {Entry("build", Cd, g) : g \in {"progress", "ok", "failed"}}
    \union {Entry("revision", s, g) : s \in Runs, g \in {"progress", "ok", "failed", "unclear"}}
    \union {Entry("manager", s, "progress") : s \in Services \ Runs}
    \union {Entry("group", s, g) : s \in Services \ Runs, g \in {"progress", "ok", "failed"}}

Ready(s) == IF s \in Runs THEN Entry("revision", s, "ok") ELSE Entry("group", s, "ok")
CdOk == Entry("build", Cd, "ok")

Init ==
  /\ logged = {} /\ unread = {} /\ parsed = {}
  /\ phase = "closed"
  /\ drops = 0
  /\ cdSuccess = FALSE /\ readyServices = {} /\ triggers = {}
  /\ states = [s \in Services |-> "NOT_SPECIFIED"]
  /\ result = "waiting"

Waiting == result = "waiting"

\* The stream sees what is logged now.
Open == phase \in {"list", "tail"}

(***************************************************************************)
(* The deployment.  An image is built before its service is requested, and *)
(* a request comes before its outcome; the CD build, which waits for them, *)
(* has the last outcome, a failure at any time.                            *)
(***************************************************************************)
Outcomes == {"ok", "failed", "unclear"}
Over(type, of) == \E g \in Outcomes : Entry(type, of, g) \in logged
Asked(type, of) == Entry(type, of, "progress") \in logged /\ ~Over(type, of)

MayHappen(e) ==
  /\ ~Over(e.type, e.of) /\ ~Over("build", Cd)
  /\ e.stage \in Outcomes => Asked(e.type, e.of)
  /\ e.type = "revision" /\ e.of \in Built => Asked("build", e.of)
  /\ e.type = "group" => Entry("manager", e.of, "progress") \in logged
  /\ e = CdOk => \A s \in Runs : Ready(s) \in logged

Log(e) ==
  /\ Waiting /\ e \notin logged /\ MayHappen(e)
  /\ logged' = logged \union {e}
  /\ unread' = IF Open THEN unread \union {e} ELSE unread
  /\ UNCHANGED <<parsed, phase, drops, parser, wait>>

(***************************************************************************)
(* WaitServiceState on the updates of one entry, in any order: the target  *)
(* state is never left, and the first failure ends the wait.               *)
(***************************************************************************)
Update(s, state) == [x \in {s} |-> state]
Nothing == [x \in {} |-> "NOT_SPECIFIED"]

Heard(u) ==
  [s \in Services |-> IF s \in DOMAIN u /\ states[s] # "COMPLETED" THEN u[s] ELSE states[s]]

Hear(u) ==
  /\ states' = Heard(u)
  /\ result' = IF \E s \in Services : Heard(u)[s] = "FAILED" THEN "failed"
               ELSE IF \A s \in Services : Heard(u)[s] = "COMPLETED" THEN "completed"
               ELSE "waiting"

\* The stream yields an error that is not transient, or ends: the wait returns it.
Break(why) == result' = why /\ UNCHANGED states

(***************************************************************************)
(* getActivityParser: what one entry makes of the memory and of the wait.  *)
(***************************************************************************)
\* Faults of NowComplete: the CD is not waited for, or waited for always.
NowCompleteAnyway == TRUE
NowCompleteNever == FALSE

\* A Cloud Run service is reported complete only once the CD is.
NowComplete == cdSuccess

ParseRevision(e) ==
  /\ e.type = "revision"
  /\ \/ e.stage = "progress" /\ Hear(Update(e.of, "PENDING")) /\ UNCHANGED parser
     \/ /\ e.stage = "ok"
        /\ IF NowComplete
           THEN Hear(Update(e.of, "COMPLETED")) /\ UNCHANGED readyServices
           ELSE Hear(Update(e.of, "PENDING")) /\ readyServices' = readyServices \union {e.of}
        /\ UNCHANGED <<cdSuccess, triggers>>
     \/ e.stage = "failed" /\ Hear(Update(e.of, "FAILED")) /\ UNCHANGED parser
     \/ e.stage = "unclear" /\ Break("error") /\ UNCHANGED parser

\* The entry may not say what the change triggers.
ParseManager(e) ==
  /\ e.type = "manager"
  /\ triggers' \in {triggers, triggers \union {e.of}}
  /\ Hear(Update(e.of, "PENDING"))
  /\ UNCHANGED <<cdSuccess, readyServices>>

GroupState == [progress |-> "PENDING", ok |-> "COMPLETED", failed |-> "FAILED"]

ParseGroup(e) ==
  /\ e.type = "group" /\ e.of \in triggers
  /\ Hear(Update(e.of, GroupState[e.stage]))
  /\ UNCHANGED parser

\* Fault of ReadyUpdates: the services that were ready first are not reported.
NoUpdates == Nothing

\* The services that were ready before the CD was are reported with it.
ReadyUpdates == [s \in readyServices |-> "COMPLETED"]

ParseBuild(e) ==
  /\ e.type = "build"
  /\ \/ e.of # Cd /\ e.stage = "progress" /\ Hear(Update(e.of, "BUILDING")) /\ UNCHANGED parser
     \/ e.of # Cd /\ e.stage = "failed" /\ Hear(Update(e.of, "FAILED")) /\ UNCHANGED parser
     \/ e.of = Cd /\ e.stage = "progress" /\ Hear(Nothing) /\ UNCHANGED parser
     \/ e.of = Cd /\ e.stage = "failed" /\ Break("failed") /\ UNCHANGED parser
     \/ /\ e.of = Cd /\ e.stage = "ok"
        /\ cdSuccess' = TRUE
        /\ Hear(ReadyUpdates)
        /\ UNCHANGED <<readyServices, triggers>>

\* The stream yields an entry.
Yield(e) ==
  /\ Waiting /\ Open /\ e \in unread
  /\ ParseRevision(e) \/ ParseManager(e) \/ ParseGroup(e) \/ ParseBuild(e)
  /\ unread' = unread \ {e}
  /\ parsed' = parsed \union {e}
  /\ UNCHANGED <<phase, log>>

\* The parser has no use for an entry of a group it knows no manager of.
Orphan(e) == e.type = "group" /\ e.of \notin triggers

\* Nor for one whose build or manager it cannot look up; it is not retried.
LookedUp(e) == e.type \in {"build", "manager"}

Drop(e) ==
  /\ Waiting /\ Open /\ e \in unread
  /\ Orphan(e) \/ LookedUp(e)
  /\ unread' = unread \ {e}
  /\ UNCHANGED <<parsed, phase, log, parser, wait>>

(***************************************************************************)
(* Subscribe and Follow.                                                   *)
(***************************************************************************)
\* Subscribe asks for what is logged from now on; Follow lists it only if it
\* took more than 10ms to get ready, before it tails.
Subscribe ==
  /\ Waiting /\ phase = "closed"
  /\ phase' \in {"list", "gap"}
  /\ UNCHANGED <<unread, parsed, parser, log, wait>>

SubscribeFails ==
  /\ Waiting /\ phase = "closed"
  /\ Break("error")
  /\ UNCHANGED <<unread, parsed, phase, log, parser>>

ListEnds ==
  /\ Waiting /\ phase = "list" /\ unread = {}
  /\ phase' = "gap"
  /\ UNCHANGED <<unread, parsed, log, parser, wait>>

\* The tail starts with the entries made after it.
StartTail ==
  /\ Waiting /\ phase = "gap"
  /\ phase' = "tail"
  /\ UNCHANGED <<unread, parsed, log, parser, wait>>

\* The stream is gone, and with it its parser.
Close ==
  /\ phase' = "closed"
  /\ unread' = {} /\ parsed' = {}
  /\ cdSuccess' = FALSE /\ readyServices' = {} /\ triggers' = {}

\* The list or the tail fails with a transient error: another stream is opened
\* after a while.
StreamDrops ==
  /\ Waiting /\ phase # "closed" /\ drops < MaxDrops
  /\ drops' = drops + 1
  /\ Close
  /\ UNCHANGED <<logged, wait>>

StreamBreaks ==
  /\ Waiting /\ phase # "closed"
  /\ Break("error") /\ Close
  /\ UNCHANGED log

\* The tail ends, at which the wait returns the states it has and no error.
StreamEnds ==
  /\ Waiting /\ phase = "tail"
  /\ Break("ended") /\ Close
  /\ UNCHANGED log

Stream ==
  \/ \E e \in Entries : Yield(e) \/ Drop(e)
  \/ Subscribe \/ ListEnds \/ StartTail

Next ==
  \/ \E e \in Entries : Log(e)
  \/ Stream
  \/ SubscribeFails \/ StreamDrops \/ StreamBreaks \/ StreamEnds

Spec == Init /\ [][Next]_vars

\* The stream is read and opened as long as the wait runs.
FairSpec == Spec /\ WF_vars(Stream)

-----------------------------------------------------------------------------
\* Types of the variables, and what the memory of the parser can hold.
TypeOK ==
  /\ logged \subseteq Entries
  /\ unread \subseteq logged /\ parsed \subseteq logged /\ unread \intersect parsed = {}
  /\ phase \in {"closed", "list", "gap", "tail"}
  /\ drops \in 0..MaxDrops
  /\ cdSuccess \in BOOLEAN /\ readyServices \subseteq Runs /\ triggers \subseteq Services \ Runs
  /\ states \in [Services -> {"NOT_SPECIFIED", "BUILDING", "PENDING", "COMPLETED", "FAILED"}]
  /\ result \in {"waiting", "completed", "failed", "error", "ended"}

\* The readiness of a Cloud Run service and the success of the CD are told by
\* two entries that arrive in either order, with anything in between: once one
\* stream has read both, the service is complete (stream.go:466, 516).
ReadyReported ==
  Waiting => \A s \in Runs : {Ready(s), CdOk} \subseteq parsed => states[s] = "COMPLETED"

\* Whatever was missed, a service is complete only if it is ready, a Cloud Run
\* service only if the CD has succeeded too ("prevents cli deploy stop before
\* cd is done"), and a wait that fails has a failure in the log.
VerdictIsReal ==
  /\ \A s \in Services : states[s] = "COMPLETED" =>
       Ready(s) \in logged /\ (s \in Runs => CdOk \in logged)
  /\ result = "completed" => \A s \in Services : Ready(s) \in logged
  /\ result = "failed" => \E e \in logged : e.stage = "failed"

\* Entries that no open stream will use.
Missed == logged \ (unread \union parsed)

\* When every service is ready and the CD has succeeded the wait ends, unless
\* one of the entries that say so was missed: made before the stream was opened
\* or between its list and its tail, not looked up, or known to a parser that
\* is gone.  The wait has no other way to hear of it.
Told == {Ready(s) : s \in Services} \union {CdOk}
EndsUnlessMissed ==
  Told \subseteq logged ~>
    ~Waiting \/ Missed \intersect (Told \union {Entry("manager", s, "progress") : s \in Services}) # {}
=============================================================================
