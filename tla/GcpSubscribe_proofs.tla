------------------------ MODULE GcpSubscribe_proofs ------------------------
(***************************************************************************)
(* What the stream of the GCP provider guarantees for any services and any *)
(* order of the entries of the audit log: the memory of the parser brings  *)
(* the readiness of a service and the success of the CD together, and the  *)
(* verdict of the wait is real.                                            *)
(***************************************************************************)
EXTENDS GcpSubscribe, TLAPS

ServiceStates == {"NOT_SPECIFIED", "BUILDING", "PENDING", "COMPLETED", "FAILED"}

\* The log says that a service is complete, and that something failed.
Genuine(s) == Ready(s) \in logged /\ (s \in Runs => CdOk \in logged)
SomethingFailed == \E e \in logged : e.stage = "failed"

\* The parser remembers what it has parsed, as far as it is of use later.
Remembers ==
  /\ cdSuccess <=> CdOk \in parsed
  /\ \A s \in readyServices : Ready(s) \in parsed
  /\ Waiting => \A s \in Runs :
       Ready(s) \in parsed => s \in readyServices \/ states[s] = "COMPLETED"

\* What the wait has heard is in the log.
HeardIsReal ==
  /\ \A s \in Services : states[s] = "COMPLETED" => Genuine(s)
  /\ Waiting => \A s \in Services : states[s] # "FAILED"

IInv == TypeOK /\ Remembers /\ HeardIsReal /\ ReadyReported /\ VerdictIsReal

-----------------------------------------------------------------------------
\* What an entry of the query is of.
LEMMA Shape ==
  ASSUME NEW e \in Entries
  PROVE  /\ e = Entry(e.type, e.of, e.stage)
         /\ e.type \in {"build", "revision", "manager", "group"}
         /\ e.type = "revision" => e.of \in Runs
         /\ e.type \in {"manager", "group"} => e.of \in Services \ Runs
         /\ e.type = "build" /\ e.of # Cd => e.of \in Services
         /\ e.type = "group" => e.stage \in {"progress", "ok", "failed"}
  BY ServicesAssumption DEF Entries, Entry

LEMMA InitIInv == Init => IInv
<1> SUFFICES ASSUME Init PROVE IInv
  OBVIOUS
<1>1. TypeOK
  <2>1. drops \in 0..MaxDrops
    BY MaxDropsAssumption DEF MaxDropsAssumption, Init
  <2>2. cdSuccess \in BOOLEAN
    BY DEF Init
  <2>3. states \in [Services -> ServiceStates]
    BY DEF Init, ServiceStates
  <2> QED
    BY <2>1, <2>2, <2>3 DEF Init, TypeOK, ServiceStates
<1>2. Remembers /\ HeardIsReal /\ ReadyReported /\ VerdictIsReal
  BY DEF Init, Remembers, HeardIsReal, ReadyReported, VerdictIsReal
<1> QED
  BY <1>1, <1>2 DEF IInv

\* What the wait makes of updates that are real.
LEMMA Hearing ==
  ASSUME IInv, Waiting, NEW u, Hear(u), UNCHANGED logged,
         \A s \in Services \intersect DOMAIN u :
           /\ u[s] \in ServiceStates
           /\ u[s] = "COMPLETED" => Genuine(s)
           /\ u[s] = "FAILED" => SomethingFailed
  PROVE  /\ states' \in [Services -> ServiceStates]
         /\ result' \in {"waiting", "completed", "failed"}
         /\ \A s \in Services : states[s] = "COMPLETED" => states'[s] = "COMPLETED"
         /\ \A s \in Services \intersect DOMAIN u : u[s] = "COMPLETED" => states'[s] = "COMPLETED"
         /\ HeardIsReal' /\ VerdictIsReal'
<1> USE DEF IInv
<1>1. states' = Heard(u) /\ states \in [Services -> ServiceStates]
  BY DEF Hear, TypeOK, ServiceStates
<1>2. states' \in [Services -> ServiceStates]
  BY <1>1 DEF Heard
<1>3. \A s \in Services :
        /\ states[s] = "COMPLETED" => states'[s] = "COMPLETED"
        /\ s \in DOMAIN u /\ u[s] = "COMPLETED" => states'[s] = "COMPLETED"
  BY <1>1 DEF Heard
<1>4. \A s \in Services :
        /\ states'[s] = "COMPLETED" => Genuine(s)
        /\ states'[s] = "FAILED" => SomethingFailed
  BY <1>1 DEF Heard, HeardIsReal
<1>5. result' = IF \E s \in Services : states'[s] = "FAILED" THEN "failed"
               ELSE IF \A s \in Services : states'[s] = "COMPLETED" THEN "completed"
               ELSE "waiting"
  BY <1>1 DEF Hear
<1>6. (\A s \in Services : Genuine(s)' <=> Genuine(s)) /\ (SomethingFailed' <=> SomethingFailed)
  BY DEF Genuine, SomethingFailed, Ready, CdOk
<1>7. HeardIsReal'
  BY <1>4, <1>5, <1>6 DEF HeardIsReal, Waiting
<1>8. VerdictIsReal'
  <2>1. \A s \in Services : states'[s] = "COMPLETED" =>
          Ready(s) \in logged /\ (s \in Runs => CdOk \in logged)
    BY <1>4 DEF Genuine
  <2>2. result' = "completed" => \A s \in Services : Ready(s) \in logged
    BY <1>5, <2>1
  <2>3. result' = "failed" => \E e \in logged : e.stage = "failed"
    BY <1>4, <1>5 DEF SomethingFailed
  <2> QED
    BY <2>1, <2>2, <2>3 DEF VerdictIsReal, Ready, CdOk
<1> QED
  BY <1>2, <1>3, <1>5, <1>7, <1>8

\* One update of one service.
LEMMA HearingOne ==
  ASSUME IInv, Waiting, NEW s \in Services, NEW state \in ServiceStates,
         Hear(Update(s, state)), UNCHANGED logged,
         state = "COMPLETED" => Genuine(s), state = "FAILED" => SomethingFailed
  PROVE  /\ states' \in [Services -> ServiceStates]
         /\ result' \in {"waiting", "completed", "failed"}
         /\ \A x \in Services : states[x] = "COMPLETED" => states'[x] = "COMPLETED"
         /\ state = "COMPLETED" => states'[s] = "COMPLETED"
         /\ HeardIsReal' /\ VerdictIsReal'
<1>1. DOMAIN Update(s, state) = {s} /\ Update(s, state)[s] = state
  BY DEF Update
<1> QED
  BY <1>1, Hearing

-----------------------------------------------------------------------------
\* An entry that is neither the readiness of a Cloud Run service nor the end of
\* the CD, and that is heard of as it is, keeps the invariant.
LEMMA OtherEntry ==
  ASSUME IInv, Waiting, NEW e \in unread,
         unread' = unread \ {e}, parsed' = parsed \union {e},
         UNCHANGED <<phase, log, cdSuccess, readyServices>>,
         triggers' \subseteq Services \ Runs,
         e # CdOk, \A s \in Runs : e # Ready(s),
         states' \in [Services -> ServiceStates],
         result' \in {"waiting", "completed", "failed", "error"},
         \A s \in Services : states[s] = "COMPLETED" => states'[s] = "COMPLETED",
         HeardIsReal', VerdictIsReal'
  PROVE  IInv'
<1> USE DEF IInv, log
<1>1. TypeOK'
  BY DEF TypeOK, ServiceStates
<1>2. (CdOk \in parsed)' <=> CdOk \in parsed
  BY DEF CdOk
<1>3. \A s \in Runs : (Ready(s) \in parsed)' <=> Ready(s) \in parsed
  BY DEF Ready
<1>4. \A s \in Runs : s \in Services
  BY ServicesAssumption DEF ServicesAssumption
<1>5. Remembers'
  <2>1. \A s \in readyServices : s \in Runs
    BY DEF TypeOK
  <2> QED
    BY <1>2, <1>3, <1>4, <2>1 DEF Remembers, Waiting
<1>6. ReadyReported'
  <2>1. (Waiting' => Waiting) /\ (CdOk \in parsed' <=> CdOk \in parsed)
    BY DEF Waiting
  <2>2. \A s \in Runs : (Ready(s) \in parsed' <=> Ready(s) \in parsed) /\ s \in Services
    BY <1>4
  <2>3. ReadyReported' <=>
          (Waiting' => \A s \in Runs : {Ready(s), CdOk} \subseteq parsed' => states'[s] = "COMPLETED")
    BY DEF ReadyReported, Ready, CdOk
  <2> QED
    BY <2>1, <2>2, <2>3 DEF ReadyReported
<1> QED
  BY <1>1, <1>5, <1>6

\* Both readiness and the end of the CD keep it, whichever comes last.
LEMMA ReadyEntry ==
  ASSUME IInv, NEW e \in unread, Yield(e), e.type = "revision", e.stage = "ok"
  PROVE  IInv'
<1> USE DEF IInv
<1>1. e \in Entries /\ e \in logged /\ e.of \in Runs /\ e.of \in Services /\ e = Ready(e.of)
  <2>1. e \in Entries /\ e \in logged
    BY DEF TypeOK
  <2> QED
    BY <2>1, Shape, ServicesAssumption DEF ServicesAssumption, Ready
<1> DEFINE s == e.of
           complete == NowComplete
           state == IF complete THEN "COMPLETED" ELSE "PENDING"
<1>2. /\ Waiting /\ Hear(Update(s, state))
      /\ readyServices' = IF complete THEN readyServices ELSE readyServices \union {s}
      /\ UNCHANGED <<cdSuccess, triggers, phase, log>>
      /\ unread' = unread \ {e} /\ parsed' = parsed \union {e}
  BY <1>1 DEF Yield, ParseRevision, ParseManager, ParseGroup, ParseBuild
<1>3. state = "COMPLETED" => Genuine(s)
  BY <1>1 DEF Genuine, NowComplete, Remembers, TypeOK
<1>4. state \in ServiceStates /\ state # "FAILED"
  BY DEF ServiceStates
<1> HIDE DEF state
<1>5. /\ states' \in [Services -> ServiceStates]
      /\ result' \in {"waiting", "completed", "failed"}
      /\ \A x \in Services : states[x] = "COMPLETED" => states'[x] = "COMPLETED"
      /\ state = "COMPLETED" => states'[s] = "COMPLETED"
      /\ HeardIsReal' /\ VerdictIsReal'
  <2>1. UNCHANGED logged
    BY <1>2 DEF log
  <2> QED
    BY <1>1, <1>2, <1>3, <1>4, <2>1, HearingOne
<1>6. TypeOK'
  BY <1>1, <1>2, <1>5 DEF TypeOK, ServiceStates, log
<1>7. CdOk \in parsed' <=> CdOk \in parsed
  BY <1>1, <1>2 DEF CdOk, Entry
<1>8. \A x \in Runs : x \in Services /\ (Ready(x) \in parsed' => Ready(x) \in parsed \/ x = s)
  BY <1>1, <1>2, ServicesAssumption DEF ServicesAssumption, Ready, Entry
<1>9. Ready(s) \in parsed' /\ parsed \subseteq parsed'
  BY <1>1, <1>2
<1>10. complete => states'[s] = "COMPLETED"
  BY <1>5 DEF state
<1>11. ~complete => s \in readyServices'
  BY <1>2
<1>12. Remembers'
  <2>1. cdSuccess' <=> CdOk \in parsed'
    BY <1>2, <1>7 DEF Remembers
  <2>2. \A x \in readyServices' : Ready(x) \in parsed'
    BY <1>2, <1>9 DEF Remembers
  <2>3. \A x \in Runs : Ready(x) \in parsed' => x \in readyServices' \/ states'[x] = "COMPLETED"
    BY <1>2, <1>5, <1>8, <1>10, <1>11 DEF Remembers
  <2> QED
    BY <2>1, <2>2, <2>3 DEF Remembers, CdOk, Ready
<1>13. ReadyReported'
  <2>1. \A x \in Runs : Ready(x) \in parsed' /\ CdOk \in parsed' => states'[x] = "COMPLETED"
    BY <1>2, <1>5, <1>7, <1>8, <1>10 DEF ReadyReported, Remembers, NowComplete
  <2> QED
    BY <2>1 DEF ReadyReported, CdOk, Ready
<1> QED
  BY <1>5, <1>6, <1>12, <1>13

LEMMA CdEntry ==
  ASSUME IInv, NEW e \in unread, Yield(e), e = CdOk
  PROVE  IInv'
<1> USE DEF IInv
<1>1. e.type = "build" /\ e.of = Cd /\ e.stage = "ok" /\ e \in logged
  BY DEF CdOk, Entry, TypeOK
<1>2. /\ Waiting /\ Hear(ReadyUpdates)
      /\ cdSuccess' = TRUE
      /\ UNCHANGED <<readyServices, triggers, phase, log>>
      /\ unread' = unread \ {e} /\ parsed' = parsed \union {e}
  BY <1>1 DEF Yield, ParseRevision, ParseManager, ParseGroup, ParseBuild
<1>3. DOMAIN ReadyUpdates = readyServices /\ \A s \in readyServices : ReadyUpdates[s] = "COMPLETED"
  BY DEF ReadyUpdates
<1>4. \A s \in readyServices : s \in Services /\ s \in Runs /\ Genuine(s)
  BY <1>1, ServicesAssumption DEF ServicesAssumption, Remembers, Genuine, TypeOK
<1>5. /\ states' \in [Services -> ServiceStates]
      /\ result' \in {"waiting", "completed", "failed"}
      /\ \A x \in Services : states[x] = "COMPLETED" => states'[x] = "COMPLETED"
      /\ \A x \in readyServices : states'[x] = "COMPLETED"
      /\ HeardIsReal' /\ VerdictIsReal'
  <2> DEFINE u == ReadyUpdates
  <2>1. UNCHANGED logged
    BY <1>2 DEF log
  <2>2. \A s \in Services \intersect DOMAIN u :
           /\ u[s] \in ServiceStates
           /\ u[s] = "COMPLETED" => Genuine(s)
           /\ u[s] = "FAILED" => SomethingFailed
    BY <1>3, <1>4 DEF ServiceStates
  <2>3. Waiting /\ Hear(u)
    BY <1>2
  <2> HIDE DEF u
  <2>4. /\ states' \in [Services -> ServiceStates]
        /\ result' \in {"waiting", "completed", "failed"}
        /\ \A s \in Services : states[s] = "COMPLETED" => states'[s] = "COMPLETED"
        /\ \A s \in Services \intersect DOMAIN u : u[s] = "COMPLETED" => states'[s] = "COMPLETED"
        /\ HeardIsReal' /\ VerdictIsReal'
    BY <2>1, <2>2, <2>3, Hearing
  <2>5. DOMAIN u = readyServices /\ \A s \in readyServices : u[s] = "COMPLETED"
    BY <1>3 DEF u
  <2> QED
    BY <1>4, <2>4, <2>5
<1>6. TypeOK'
  BY <1>1, <1>2, <1>5 DEF TypeOK, ServiceStates, log
<1>7. \A x \in Runs : x \in Services /\ (Ready(x) \in parsed' <=> Ready(x) \in parsed)
  BY <1>1, <1>2, ServicesAssumption DEF ServicesAssumption, Ready, Entry
<1>8. CdOk \in parsed'
  BY <1>2
<1>9. \A x \in Runs : Ready(x) \in parsed' => states'[x] = "COMPLETED"
  BY <1>2, <1>5, <1>7 DEF Remembers
<1>10. Remembers'
  <2>1. \A x \in readyServices' : Ready(x) \in parsed'
    BY <1>2 DEF Remembers
  <2> QED
    BY <1>2, <1>8, <1>9, <2>1 DEF Remembers, CdOk, Ready
<1>11. ReadyReported'
  BY <1>9 DEF ReadyReported, CdOk, Ready
<1> QED
  BY <1>5, <1>6, <1>10, <1>11

\* Every other entry.
LEMMA YieldStep ==
  ASSUME IInv, NEW e \in unread, Yield(e)
  PROVE  IInv'
<1> USE DEF IInv
<1>1. e \in Entries /\ e \in logged
  BY DEF TypeOK
<1>2. CASE e = CdOk
  BY <1>2, CdEntry
<1>3. CASE e.type = "revision" /\ e.stage = "ok"
  BY <1>3, ReadyEntry
<1>4. CASE e # CdOk /\ ~(e.type = "revision" /\ e.stage = "ok")
  <2>1. \A s \in Runs : e # Ready(s)
    BY <1>4 DEF Ready, Entry
  <2>2. /\ Waiting /\ unread' = unread \ {e} /\ parsed' = parsed \union {e}
        /\ UNCHANGED <<phase, log>> /\ UNCHANGED logged
        /\ ParseRevision(e) \/ ParseManager(e) \/ ParseGroup(e) \/ ParseBuild(e)
    BY DEF Yield, log
  <2>3. e.stage = "failed" => SomethingFailed
    BY <1>1 DEF SomethingFailed
  <2>4. ~(e.type = "build" /\ e.of = Cd /\ e.stage = "ok")
    BY <1>1, <1>4, Shape DEF CdOk
  <2>5. /\ UNCHANGED <<cdSuccess, readyServices>>
        /\ triggers' \subseteq Services \ Runs
    BY <1>1, <1>4, <2>2, <2>4, Shape
    DEF ParseRevision, ParseManager, ParseGroup, ParseBuild, TypeOK, parser
  <2>6. \/ \E s \in Services, state \in ServiceStates :
             /\ Hear(Update(s, state))
             /\ state = "COMPLETED" => Genuine(s)
             /\ state = "FAILED" => SomethingFailed
        \/ Hear(Nothing)
        \/ \E why \in {"error", "failed"} : Break(why) /\ (why = "failed" => SomethingFailed)
    <3>1. CASE ParseRevision(e)
      <4>1. e.of \in Services
        BY <1>1, <3>1, Shape, ServicesAssumption DEF ServicesAssumption, ParseRevision
      <4> QED
        BY <1>4, <2>3, <3>1, <4>1 DEF ParseRevision, ServiceStates
    <3>2. CASE ParseManager(e)
      BY <1>1, <3>2, Shape DEF ParseManager, ServiceStates
    <3>3. CASE ParseGroup(e)
      <4>1. e.of \in Services \ Runs /\ e.stage \in {"progress", "ok", "failed"}
        BY <1>1, <3>3, Shape DEF ParseGroup
      <4>2. e.stage = "ok" => Genuine(e.of)
        BY <1>1, <3>3, <4>1, Shape DEF ParseGroup, Genuine, Ready
      <4>3. /\ GroupState[e.stage] \in ServiceStates
            /\ GroupState[e.stage] = "COMPLETED" => e.stage = "ok"
            /\ GroupState[e.stage] = "FAILED" => e.stage = "failed"
        BY <4>1 DEF GroupState, ServiceStates
      <4> QED
        BY <2>3, <3>3, <4>1, <4>2, <4>3 DEF ParseGroup
    <3>4. CASE ParseBuild(e)
      BY <1>1, <2>3, <2>4, <3>4, Shape DEF ParseBuild, ServiceStates
    <3> QED
      BY <2>2, <3>1, <3>2, <3>3, <3>4
  <2>7. /\ states' \in [Services -> ServiceStates]
        /\ result' \in {"waiting", "completed", "failed", "error"}
        /\ \A s \in Services : states[s] = "COMPLETED" => states'[s] = "COMPLETED"
        /\ HeardIsReal' /\ VerdictIsReal'
    <3>1. CASE \E s \in Services, state \in ServiceStates :
             /\ Hear(Update(s, state))
             /\ state = "COMPLETED" => Genuine(s)
             /\ state = "FAILED" => SomethingFailed
      BY <2>2, <3>1, HearingOne
    <3>2. CASE Hear(Nothing)
      <4>1. DOMAIN Nothing = {}
        BY DEF Nothing
      <4> DEFINE u == Nothing
      <4>2. Hear(u) /\ DOMAIN u = {}
        BY <3>2, <4>1
      <4> HIDE DEF u
      <4> QED
        BY <2>2, <4>2, Hearing
    <3>3. CASE \E why \in {"error", "failed"} : Break(why) /\ (why = "failed" => SomethingFailed)
      <4> PICK why \in {"error", "failed"} : Break(why) /\ (why = "failed" => SomethingFailed)
        BY <3>3
      <4>1. result' = why /\ states' = states
        BY DEF Break
      <4>2. HeardIsReal'
        BY <2>2, <4>1 DEF HeardIsReal, Genuine, Waiting, Ready, CdOk
      <4>3. VerdictIsReal'
        BY <2>2, <4>1 DEF VerdictIsReal, SomethingFailed, Ready, CdOk
      <4> QED
        BY <4>1, <4>2, <4>3 DEF TypeOK, ServiceStates
    <3> QED
      BY <2>6, <3>1, <3>2, <3>3
  <2> QED
    BY <1>4, <2>1, <2>2, <2>5, <2>7, OtherEntry
<1> QED
  BY <1>2, <1>3, <1>4

\* What is logged, overlooked, or lost with a stream takes nothing from what the
\* wait has heard.
LEMMA OtherStep ==
  ASSUME IInv,
         \/ \E e \in Entries : Log(e) \/ Drop(e)
         \/ Subscribe \/ SubscribeFails \/ ListEnds \/ StartTail \/ StreamDrops \/ StreamBreaks \/ StreamEnds
         \/ UNCHANGED vars
  PROVE  IInv'
<1> USE DEF IInv
<1>1. /\ logged \subseteq logged' /\ states' = states
      /\ result' # result => Waiting /\ result' \in {"error", "ended"}
      /\ \/ UNCHANGED <<parsed, cdSuccess, readyServices>>
         \/ parsed' = {} /\ cdSuccess' = FALSE /\ readyServices' = {}
  BY DEF Log, Drop, Subscribe, SubscribeFails, ListEnds, StartTail, StreamDrops, StreamBreaks,
         StreamEnds, Close, Break, Waiting, vars, log, parser, wait
<1>2. TypeOK'
  <2>1. CASE \E e \in Entries : Log(e) \/ Drop(e)
    BY <2>1 DEF TypeOK, Log, Drop, log, parser, wait
  <2>2. CASE StreamDrops \/ StreamBreaks \/ StreamEnds
    <3>1. drops' \in 0..MaxDrops
      BY <2>2, MaxDropsAssumption
      DEF MaxDropsAssumption, TypeOK, StreamDrops, StreamBreaks, StreamEnds, log
    <3>2. Close /\ logged' = logged /\ states' = states /\ result' \in {result, "error", "ended"}
      BY <2>2 DEF StreamDrops, StreamBreaks, StreamEnds, Break, log, wait
    <3>3. cdSuccess' \in BOOLEAN
      BY <3>2 DEF Close
    <3> QED
      BY <3>1, <3>2, <3>3 DEF TypeOK, Close
  <2>3. CASE Subscribe \/ SubscribeFails \/ ListEnds \/ StartTail \/ UNCHANGED vars
    BY <2>3 DEF TypeOK, Subscribe, SubscribeFails, ListEnds, StartTail, Break,
                vars, log, parser, wait
  <2> QED
    BY <2>1, <2>2, <2>3
<1>3. Remembers'
  BY <1>1 DEF Remembers, Waiting, Ready, CdOk
<1>4. HeardIsReal'
  BY <1>1 DEF HeardIsReal, Genuine, Waiting, Ready, CdOk
<1>5. ReadyReported'
  BY <1>1 DEF ReadyReported, Waiting, Ready, CdOk
<1>6. VerdictIsReal'
  BY <1>1 DEF VerdictIsReal, Ready, CdOk
<1> QED
  BY <1>2, <1>3, <1>4, <1>5, <1>6

LEMMA Invariance == Spec => []IInv
<1>1. IInv /\ [Next]_vars => IInv'
  <2> SUFFICES ASSUME IInv, [Next]_vars PROVE IInv'
    OBVIOUS
  <2>1. CASE \E e \in Entries : Yield(e)
    BY <2>1, YieldStep DEF Yield
  <2> QED
    BY <2>1, OtherStep DEF Next, Stream
<1> QED
  BY <1>1, InitIInv, PTL DEF Spec

\* Every variable keeps its type.
THEOREM TypeCorrect == Spec => []TypeOK
<1>1. IInv => TypeOK
  BY DEF IInv
<1> QED
  BY <1>1, Invariance, PTL

\* Whatever the order in which one stream reads that a Cloud Run service is
\* ready and that the CD has succeeded, the service is then complete.
THEOREM ReadinessReported == Spec => []ReadyReported
<1>1. IInv => ReadyReported
  BY DEF IInv
<1> QED
  BY <1>1, Invariance, PTL

\* A Cloud Run service is never complete before the CD is, no service before it
\* is ready, and a wait only fails for an entry that says so.
THEOREM RealVerdict == Spec => []VerdictIsReal
<1>1. IInv => VerdictIsReal
  BY DEF IInv
<1> QED
  BY <1>1, Invariance, PTL
=============================================================================
