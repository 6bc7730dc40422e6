----------------------------- MODULE Aws_proofs -----------------------------
(***************************************************************************)
(* What the parts of the AWS provider guarantee.  Delegation: what the     *)
(* delegation of a domain does to a deployment that no other one overlaps, *)
(* for any number of deployments, stacks, sets and name servers, whatever  *)
(* earlier deployments that overlapped, failed or died left behind.        *)
(* AwsLogs, with the tail of LogGroupsTail: what the readings of a log     *)
(* show, for any log groups and entries, limits and reconnects.            *)
(***************************************************************************)
EXTENDS Delegation, AwsLogs, SequenceTheorems, FiniteSetTheorems, TLAPS

Labels == Working \union {"idle", "done", "failed", "refused"}

Alone(d) == alone[d] /\ pc[d] \in Working

\* A deployment that is alone is the only one at work.
OneAtATime ==
  \A d \in Deployments : Alone(d) => \A e \in Deployments : pc[e] \in Working => e = d

\* What a deployment that is alone knows at each step is still so.
Knows(d) ==
  /\ pc[d] = "zones" => found[d] = zones
  /\ pc[d] \in {"find", "create", "verify"} => OwnZones(d) = {}
  /\ pc[d] = "verify" => chosen[d] \notin full \union deleted
  /\ pc[d] \in {"delegate", "cd"} =>
       \/ OnChosen(d)
       \/ OwnZones(d) = {} /\ ~Refused(d)
  /\ pc[d] = "cd" => parent = sets[chosen[d]]

KnowsTheWorld == \A d \in Deployments : Alone(d) => Knows(d)

IInv == TypeOK /\ OneAtATime /\ KnowsTheWorld /\ UndisturbedNotRefused

-----------------------------------------------------------------------------
LEMMA InitIInv == Init => IInv
<1> SUFFICES ASSUME Init PROVE IInv
  OBVIOUS
<1> USE DelegationAssumption DEF DelegationAssumption
<1>1. PICK ids \in {{}} \union {{id} : id \in SetIds} : sets \in [ids -> NameServers]
  BY DEF Init
<1>2. DOMAIN sets \subseteq SetIds /\ sets \in [DOMAIN sets -> NameServers]
  BY <1>1
<1>3. /\ zones \subseteq Zone
      /\ \A z \in zones : z.set # NoSet => z.set \in DOMAIN sets /\ z.ns = sets[z.set]
  BY DEF Init, Ids
<1>4. parent \in {{}} \union NameServers
  <2>1. CASE zones = {}
    <3>1. {z.ns : z \in zones} = {}
      BY <2>1
    <3> QED
      BY <3>1 DEF Init
  <2>2. CASE \E z \in Zone : zones = {z}
    <3> PICK z \in Zone : zones = {z}
      BY <2>2
    <3>1. UNION {y.ns : y \in zones} = z.ns
      OBVIOUS
    <3>2. z.ns \in NameServers
      BY DEF Zone
    <3> QED
      BY <3>1, <3>2 DEF Init
  <2> QED
    BY <2>1, <2>2 DEF Init
<1>5. \A d \in Deployments : pc[d] = "idle"
  BY DEF Init
<1>6. /\ tries \in [Deployments -> 0..MaxTries]
      /\ alone \in [Deployments -> BOOLEAN]
  BY DEF Init
<1>7. TypeOK
  BY <1>2, <1>3, <1>4, <1>6 DEF Init, TypeOK, Working
<1>8. OneAtATime /\ KnowsTheWorld /\ UndisturbedNotRefused
  BY <1>5 DEF OneAtATime, KnowsTheWorld, UndisturbedNotRefused, Alone, Working
<1> QED
  BY <1>7, <1>8 DEF IInv

\* A step of a deployment that keeps its types and its knowledge keeps the rest:
\* while one is alone, no other one is at work.
LEMMA OwnStep ==
  ASSUME IInv, NEW d \in Deployments, pc[d] \in Working, TypeOK',
         UNCHANGED <<stackOf, full, foreign, alone>>,
         \A e \in Deployments \ {d} : pc'[e] = pc[e],
         Alone(d) /\ pc'[d] \in Working => Knows(d)',
         alone[d] => pc'[d] # "refused"
  PROVE  IInv'
<1> USE DEF IInv
<1>1. OneAtATime'
  BY DEF OneAtATime, Alone
<1>2. KnowsTheWorld'
  <2> SUFFICES ASSUME NEW e \in Deployments, Alone(e)' PROVE Knows(e)'
    BY DEF KnowsTheWorld
  <2>1. e = d
    BY DEF OneAtATime, Alone
  <2> QED
    BY <2>1 DEF Alone
<1>3. UndisturbedNotRefused'
  BY DEF UndisturbedNotRefused
<1> QED
  BY <1>1, <1>2, <1>3

LEMMA StartStep ==
  ASSUME IInv, NEW d \in Deployments, Start(d)
  PROVE  IInv'
<1> USE DEF IInv, Start, inputs, dns, local, Goto
<1>1. /\ alone' \in [Deployments -> BOOLEAN]
      /\ \A e \in Deployments : alone'[e] => IF e = d THEN Active = {} ELSE alone[e] /\ e \notin Active
      /\ pc' = [pc EXCEPT ![d] = "zones"] /\ pc[d] = "idle"
  <2>1. \A e \in Deployments : (IF e = d THEN Active = {} ELSE alone[e] /\ e \notin Active) \in BOOLEAN
    BY DEF TypeOK
  <2> QED
    BY <2>1
<1>2. TypeOK'
  BY <1>1 DEF TypeOK, Working
<1>3. \A e \in Deployments : Alone(e)' => e = d /\ Active = {}
  BY <1>1 DEF TypeOK, Alone, Active
<1>4. OneAtATime'
  BY <1>1, <1>3 DEF TypeOK, OneAtATime, Active
<1>5. KnowsTheWorld'
  <2> SUFFICES ASSUME NEW e \in Deployments, Alone(e)' PROVE Knows(e)'
    BY DEF KnowsTheWorld
  <2>1. e = d
    BY <1>3
  <2>2. pc'[d] = "zones" /\ found'[d] = zones /\ zones' = zones
    BY <1>1 DEF TypeOK
  <2> QED
    BY <2>1, <2>2 DEF Knows
<1>6. UndisturbedNotRefused'
  BY <1>1 DEF TypeOK, UndisturbedNotRefused
<1> QED
  BY <1>2, <1>4, <1>5, <1>6

-----------------------------------------------------------------------------
\* The set of its own zone serves that zone.
LEMMA ZoneSetStep ==
  ASSUME IInv, NEW d \in Deployments, ZoneSet(d)
  PROVE  IInv'
<1> USE DEF IInv
<1>1. PICK z \in zones :
        /\ z.stack = stackOf[d]
        /\ \/ z.set # NoSet /\ Choose(d, z.set) /\ UNCHANGED <<sets, zones>>
           \/ z.set = NoSet /\ \E id \in SetIds \ DOMAIN sets :
                /\ AddSet(id, z.ns)
                /\ zones' = (zones \ {z}) \union {[z EXCEPT !.set = id]}
                /\ Choose(d, id)
  BY DEF ZoneSet, IsOwn, Current
<1>2. /\ pc[d] = "zones" /\ pc' = [pc EXCEPT ![d] = "delegate"]
      /\ UNCHANGED <<stackOf, foreign, full, deleted, parent, found, listed, tries, alone>>
  BY DEF ZoneSet, Goto, inputs
<1>3. z \in Zone /\ z.ns \in NameServers
  BY DEF TypeOK, Zone
<1>4. CASE z.set # NoSet /\ Choose(d, z.set) /\ UNCHANGED <<sets, zones>>
  <2>1. z.set \in DOMAIN sets /\ z.set \in SetIds
    BY <1>4 DEF TypeOK
  <2>2. chosen' = [chosen EXCEPT ![d] = z.set]
    BY <1>4 DEF Choose
  <2>3. TypeOK'
    BY <1>2, <1>4, <2>1, <2>2 DEF TypeOK, Working
  <2>4. pc'[d] = "delegate" /\ chosen'[d] = z.set /\ zones' = zones /\ stackOf' = stackOf
    BY <1>2, <1>4, <2>2 DEF TypeOK
  <2>5. OnChosen(d)'
    BY <1>1, <2>4 DEF OnChosen, OwnZones
  <2>6. Knows(d)'
    BY <2>4, <2>5 DEF Knows
  <2> QED
    BY <1>2, <2>3, <2>4, <2>6, OwnStep DEF TypeOK, Working
<1>5. CASE z.set = NoSet /\ \E id \in SetIds \ DOMAIN sets :
             /\ AddSet(id, z.ns)
             /\ zones' = (zones \ {z}) \union {[z EXCEPT !.set = id]}
             /\ Choose(d, id)
  <2> PICK id \in SetIds \ DOMAIN sets :
             /\ AddSet(id, z.ns)
             /\ zones' = (zones \ {z}) \union {[z EXCEPT !.set = id]}
             /\ Choose(d, id)
    BY <1>5
  <2> DEFINE y == [z EXCEPT !.set = id]
  <2>1. y \in Zone /\ y.stack = z.stack /\ y.set = id /\ y.ns = z.ns
    BY <1>3 DEF Zone
  <2>2. /\ DOMAIN sets' = DOMAIN sets \union {id}
        /\ sets'[id] = z.ns /\ \A i \in DOMAIN sets : sets'[i] = sets[i]
        /\ sets' \in [DOMAIN sets \union {id} -> NameServers]
    BY <1>3 DEF AddSet, TypeOK
  <2>3. chosen' = [chosen EXCEPT ![d] = id] /\ id # NoSet
    BY DelegationAssumption DEF DelegationAssumption, Choose, NoSet
  <2> HIDE DEF y
  <2>4. zones' = (zones \ {z}) \union {y}
    BY DEF y
  <2>5. zones' \subseteq Zone
    BY <2>1, <2>4 DEF TypeOK
  <2>6. \A x \in zones' : x.set # NoSet => x.set \in DOMAIN sets' /\ x.ns = sets'[x.set]
    BY <2>1, <2>2, <2>4 DEF TypeOK
  <2>7. TypeOK'
    BY <1>2, <2>2, <2>3, <2>5, <2>6 DEF TypeOK, Working
  <2>8. pc'[d] = "delegate" /\ chosen'[d] = id
    BY <1>2, <2>3 DEF TypeOK
  <2>9. OnChosen(d)'
    BY <1>1, <1>2, <2>1, <2>4, <2>8 DEF OnChosen, OwnZones
  <2>10. Knows(d)'
    BY <2>8, <2>9 DEF Knows
  <2> QED
    BY <1>2, <2>7, <2>8, <2>10, OwnStep DEF TypeOK, Working
<1> QED
  BY <1>1, <1>4, <1>5

LEMMA ListSetsStep ==
  ASSUME IInv, NEW d \in Deployments, ListSets(d)
  PROVE  IInv'
<1> USE DEF IInv, ListSets, inputs, dns, Goto
<1>1. /\ pc[d] = "zones" /\ pc'[d] \in {"find", "create"}
      /\ \A e \in Deployments \ {d} : pc'[e] = pc[e]
  BY DEF TypeOK
<1>2. TypeOK'
  BY DEF TypeOK, Working, Ids
<1>3. Alone(d) => OwnZones(d)' = {}
  BY <1>1 DEF KnowsTheWorld, Knows, OwnZones, IsOwn
<1>4. Alone(d) => Knows(d)'
  BY <1>1, <1>3 DEF Knows
<1> QED
  BY <1>1, <1>2, <1>4, OwnStep DEF Working

\* A set that was looked at serves the new zone.
LEMMA LookAtSetStep ==
  ASSUME IInv, NEW d \in Deployments, NEW id \in SetIds, LookAtSet(d, id)
  PROVE  IInv'
<1> USE DEF IInv, LookAtSet, inputs, dns
<1>1. pc[d] = "find" /\ id \in DOMAIN sets \ deleted /\ id # NoSet
  BY DelegationAssumption DEF DelegationAssumption, Ids, NoSet
<1>2. CASE UNCHANGED <<chosen, pc>>
  <2>1. TypeOK'
    BY <1>2 DEF TypeOK
  <2>2. Alone(d) => Knows(d)'
    BY <1>1, <1>2 DEF KnowsTheWorld, Knows, OwnZones
  <2> QED
    BY <1>1, <1>2, <2>1, <2>2, OwnStep DEF Working
<1>3. CASE ~Conflict(sets[id]) /\ id \notin full /\ Choose(d, id) /\ Goto(d, "delegate")
  <2>1. /\ pc'[d] = "delegate" /\ chosen'[d] = id
        /\ \A e \in Deployments \ {d} : pc'[e] = pc[e]
    BY <1>3 DEF TypeOK, Choose, Goto
  <2>2. TypeOK'
    BY <1>1, <1>3 DEF TypeOK, Choose, Goto, Working
  <2>3. ~Refused(d)'
    BY <1>1, <1>3, <2>1 DEF Refused, Conflict
  <2>4. Alone(d) => OwnZones(d)' = {}
    BY <1>1 DEF KnowsTheWorld, Knows, OwnZones
  <2>5. Alone(d) => Knows(d)'
    BY <2>1, <2>3, <2>4 DEF Knows
  <2> QED
    BY <1>1, <2>1, <2>2, <2>5, OwnStep DEF Working
<1> QED
  BY <1>2, <1>3

LEMMA NoneFoundStep ==
  ASSUME IInv, NEW d \in Deployments, NoneFound(d)
  PROVE  IInv'
<1> USE DEF IInv, NoneFound, inputs, dns, local, Goto
<1>1. /\ pc[d] = "find" /\ pc'[d] = "create"
      /\ \A e \in Deployments \ {d} : pc'[e] = pc[e]
  BY DEF TypeOK
<1>2. TypeOK'
  BY DEF TypeOK, Working
<1>3. Alone(d) => Knows(d)'
  BY <1>1 DEF KnowsTheWorld, Knows, OwnZones
<1> QED
  BY <1>1, <1>2, <1>3, OwnStep DEF Working

\* A new set is neither full nor deleted.
LEMMA CreateSetStep ==
  ASSUME IInv, NEW d \in Deployments, NEW id \in SetIds, NEW ns \in NameServers,
         CreateSet(d, id, ns)
  PROVE  IInv'
<1> USE DEF IInv, CreateSet, inputs
<1>1. id # NoSet /\ MaxTries \in Nat
  BY DelegationAssumption DEF DelegationAssumption, NoSet
<1>2. /\ DOMAIN sets' = DOMAIN sets \union {id}
      /\ \A i \in DOMAIN sets : sets'[i] = sets[i]
      /\ sets' \in [DOMAIN sets \union {id} -> NameServers]
  BY DEF AddSet, TypeOK
<1>3. /\ pc[d] = "create" /\ pc' = [pc EXCEPT ![d] = "verify"]
      /\ chosen' = [chosen EXCEPT ![d] = id]
  BY DEF Goto, Choose
<1>4. tries' \in [Deployments -> 0..MaxTries]
  BY <1>1 DEF TypeOK
<1>5. \A z \in zones' : z.set # NoSet => z.set \in DOMAIN sets' /\ z.ns = sets'[z.set]
  BY <1>2 DEF TypeOK
<1>6. TypeOK'
  BY <1>1, <1>2, <1>3, <1>4, <1>5 DEF TypeOK, Working
<1>7. /\ pc'[d] = "verify" /\ chosen'[d] = id
      /\ \A e \in Deployments \ {d} : pc'[e] = pc[e]
  BY <1>3 DEF TypeOK
<1>8. id \notin full' \union deleted'
  BY DEF TypeOK
<1>9. Alone(d) => OwnZones(d)' = {}
  BY <1>3 DEF KnowsTheWorld, Knows, OwnZones
<1>10. Alone(d) => Knows(d)'
  BY <1>7, <1>8, <1>9 DEF Knows
<1> QED
  BY <1>3, <1>6, <1>7, <1>10, OwnStep DEF Working

\* A new set that was looked at serves the new zone.
LEMMA KeepSetStep ==
  ASSUME IInv, NEW d \in Deployments, KeepSet(d)
  PROVE  IInv'
<1> USE DEF IInv, KeepSet, inputs, dns, local, Goto
<1>1. /\ pc[d] = "verify" /\ pc'[d] = "delegate"
      /\ \A e \in Deployments \ {d} : pc'[e] = pc[e]
  BY DEF TypeOK
<1>2. TypeOK'
  BY DEF TypeOK, Working
<1>3. Alone(d) => OwnZones(d)' = {} /\ ~Refused(d)'
  BY <1>1 DEF KnowsTheWorld, Knows, OwnZones, Usable, Conflict, Refused
<1>4. Alone(d) => Knows(d)'
  BY <1>1, <1>3 DEF Knows
<1> QED
  BY <1>1, <1>2, <1>4, OwnStep DEF Working

LEMMA DropSetStep ==
  ASSUME IInv, NEW d \in Deployments, DropSet(d)
  PROVE  IInv'
<1> USE DEF IInv, DropSet, inputs, Goto, Choose
<1>1. /\ pc[d] = "verify" /\ pc'[d] = "create"
      /\ \A e \in Deployments \ {d} : pc'[e] = pc[e]
  BY DEF TypeOK
<1>2. deleted' \subseteq DOMAIN sets
  BY <1>1 DEF TypeOK
<1>3. TypeOK'
  BY <1>2 DEF TypeOK, Working
<1>4. Alone(d) => Knows(d)'
  BY <1>1 DEF KnowsTheWorld, Knows, OwnZones
<1> QED
  BY <1>1, <1>3, <1>4, OwnStep DEF Working

LEMMA DelegateStep ==
  ASSUME IInv, NEW d \in Deployments, Delegate(d)
  PROVE  IInv'
<1> USE DEF IInv, Delegate, inputs, local, Goto
<1>1. /\ pc[d] = "delegate" /\ pc'[d] = "cd"
      /\ \A e \in Deployments \ {d} : pc'[e] = pc[e]
  BY DEF TypeOK
<1>2. sets[chosen[d]] \in NameServers
  BY <1>1 DEF TypeOK
<1>3. TypeOK'
  BY <1>2 DEF TypeOK, Working
<1>4. Alone(d) => OnChosen(d)' \/ (OwnZones(d)' = {} /\ ~Refused(d)')
  BY <1>1 DEF KnowsTheWorld, Knows, OwnZones, OnChosen, Refused
<1>5. Alone(d) => Knows(d)'
  BY <1>1, <1>4 DEF Knows
<1> QED
  BY <1>1, <1>3, <1>5, OwnStep DEF Working

\* The last steps of a command leave its types alone.
LEMMA FinishTypes ==
  ASSUME TypeOK, NEW d \in Deployments, NEW label \in {"done", "failed", "refused"},
         Finish(d, label)
  PROVE  /\ pc' \in [Deployments -> Working \union {"idle", "done", "failed", "refused"}]
         /\ found' \in [Deployments -> SUBSET Zone] /\ listed' \in [Deployments -> SUBSET SetIds]
         /\ tries' \in [Deployments -> 0..MaxTries]
         /\ chosen' \in [Deployments -> SetIds \union {NoSet}]
         /\ pc'[d] = label
         /\ \A e \in Deployments \ {d} : pc'[e] = pc[e] /\ chosen'[e] = chosen[e]
         /\ chosen'[d] = NoSet
<1>1. tries' \in [Deployments -> 0..MaxTries]
  BY DelegationAssumption DEF DelegationAssumption, TypeOK, Finish
<1> QED
  BY <1>1 DEF TypeOK, Finish, Goto

LEMMA CdSucceedsStep ==
  ASSUME IInv, NEW d \in Deployments, CdSucceeds(d)
  PROVE  IInv'
<1> USE DEF IInv
<1>1. /\ pc[d] = "cd" /\ Finish(d, "done")
      /\ UNCHANGED <<stackOf, foreign, full, sets, deleted, parent, alone>>
  BY DEF CdSucceeds, inputs
<1>2. chosen[d] \in DOMAIN sets /\ sets[chosen[d]] \in NameServers /\ stackOf[d] \in Stacks
  BY <1>1 DEF TypeOK
<1>3. /\ zones' \subseteq Zone
      /\ \A z \in zones' : z.set # NoSet => z.set \in DOMAIN sets' /\ z.ns = sets'[z.set]
  <2>1. CASE UNCHANGED zones
    BY <1>1, <2>1 DEF TypeOK
  <2>2. CASE zones' = (zones \ OwnZones(d)) \union {NewZone(d)}
    <3>1. NewZone(d) \in Zone
      BY <1>2 DEF NewZone, Zone, TypeOK
    <3>2. NewZone(d).set = chosen[d] /\ NewZone(d).ns = sets[chosen[d]]
      BY DEF NewZone
    <3> QED
      BY <1>1, <1>2, <2>2, <3>1, <3>2 DEF TypeOK
  <2> QED
    BY <2>1, <2>2 DEF CdSucceeds
<1>4. TypeOK'
  BY <1>1, <1>3, FinishTypes DEF TypeOK, Working
<1> QED
  BY <1>1, <1>4, FinishTypes, OwnStep DEF Working

\* Only a deployment that another one overlapped is refused.
LEMMA CdRefusedStep ==
  ASSUME IInv, NEW d \in Deployments, CdRefused(d)
  PROVE  IInv'
<1> USE DEF IInv, CdRefused, inputs, dns
<1>1. TypeOK'
  BY FinishTypes DEF TypeOK, Working
<1>2. ~Alone(d)
  BY DEF KnowsTheWorld, Knows
<1>3. ~alone[d]
  BY <1>2 DEF Alone, Working
<1> QED
  BY <1>1, <1>3, FinishTypes, OwnStep DEF Working

LEMMA FailsStep ==
  ASSUME IInv, NEW d \in Deployments, Fails(d)
  PROVE  IInv'
<1> USE DEF IInv, Fails, inputs, dns
<1>1. TypeOK'
  BY FinishTypes DEF TypeOK, Working
<1> QED
  BY <1>1, FinishTypes, OwnStep DEF Working

-----------------------------------------------------------------------------
LEMMA Invariance == Spec => []IInv
<1>1. Init => IInv
  BY InitIInv
<1>2. IInv /\ [Next]_vars => IInv'
  <2> SUFFICES ASSUME IInv, [Next]_vars PROVE IInv'
    OBVIOUS
  <2>1. CASE UNCHANGED vars
    BY <2>1 DEF IInv, TypeOK, OneAtATime, KnowsTheWorld, UndisturbedNotRefused, Alone, Knows,
      OwnZones, OnChosen, Refused, vars, inputs, dns, local
  <2>2. CASE Next
    <3> PICK d \in Deployments :
          Start(d) \/ Prepare(d) \/ Delegate(d) \/ CdSucceeds(d) \/ CdRefused(d) \/ Fails(d)
      BY <2>2 DEF Next
    <3>1. CASE Prepare(d)
      BY <3>1, ZoneSetStep, ListSetsStep, LookAtSetStep, NoneFoundStep, CreateSetStep,
        KeepSetStep, DropSetStep DEF Prepare
    <3> QED
      BY <3>1, StartStep, DelegateStep, CdSucceedsStep, CdRefusedStep, FailsStep
  <2> QED
    BY <2>1, <2>2
<1> QED
  BY <1>1, <1>2, PTL DEF Spec

\* The variables keep their types, and a zone in a delegation set has its servers.
THEOREM TypeCorrect == Spec => []TypeOK
<1>1. IInv => TypeOK
  BY DEF IInv
<1> QED
  BY <1>1, Invariance, PTL

\* A deployment that no other one overlaps is never refused its zone, whatever
\* earlier ones left behind (domain.go:73, 107).
THEOREM UndisturbedIsNotRefused == Spec => []UndisturbedNotRefused
<1>1. IInv => UndisturbedNotRefused
  BY DEF IInv
<1> QED
  BY <1>1, Invariance, PTL

\* After a deployment that no other one overlaps the parent domain points to the
\* servers of the zone of its stack (domain.go:42-43).
THEOREM Heals == Spec => NextTimeHeals
<1>1. IInv /\ [Next]_vars =>
        [\A d \in Deployments : pc[d] = "cd" /\ pc'[d] = "done" /\ alone[d] =>
           \E z \in OwnZones(d)' : parent' = z.ns]_vars
  <2> SUFFICES ASSUME IInv, [Next]_vars, NEW d \in Deployments,
                      pc[d] = "cd", pc'[d] = "done", alone[d]
               PROVE  \E z \in OwnZones(d)' : parent' = z.ns
    OBVIOUS
  <2> USE DEF IInv
  <2>1. PICK e \in Deployments :
          Start(e) \/ Prepare(e) \/ Delegate(e) \/ CdSucceeds(e) \/ CdRefused(e) \/ Fails(e)
    BY DEF Next, vars
  <2>2. CdSucceeds(d)
    <3>1. CASE Start(e)
      BY <3>1 DEF TypeOK, Start, Goto
    <3>2. CASE Prepare(e)
      BY <3>2 DEF TypeOK, Prepare, ZoneSet, ListSets, NoneFound, KeepSet, DropSet, LookAtSet,
        CreateSet, Goto
    <3>3. CASE Delegate(e)
      BY <3>3 DEF TypeOK, Delegate, Goto
    <3>4. CASE CdRefused(e) \/ Fails(e)
      BY <3>4 DEF TypeOK, CdRefused, Fails, Finish, Goto
    <3>5. CASE CdSucceeds(e)
      BY <3>5 DEF TypeOK, CdSucceeds, Finish, Goto
    <3> QED
      BY <2>1, <3>1, <3>2, <3>3, <3>4, <3>5
  <2>3. parent' = sets[chosen[d]] /\ stackOf' = stackOf
    BY <2>2 DEF KnowsTheWorld, Knows, Alone, Working, CdSucceeds, inputs
  <2>4. chosen[d] \in DOMAIN sets /\ chosen[d] # NoSet
    BY DEF TypeOK
  <2>5. CASE OnChosen(d)
    <3> PICK z \in zones : z.stack = stackOf[d] /\ z.set = chosen[d]
      BY <2>5 DEF OnChosen, OwnZones
    <3>1. z.ns = sets[chosen[d]]
      BY <2>4 DEF TypeOK
    <3>2. z \in OwnZones(d)'
      BY <2>2, <2>3, <2>5 DEF CdSucceeds, OwnZones
    <3> QED
      BY <2>3, <3>1, <3>2
  <2>6. CASE ~OnChosen(d)
    <3>1. OwnZones(d) = {}
      BY <2>6 DEF KnowsTheWorld, Knows, Alone, Working
    <3>2. NewZone(d) \in zones'
      BY <2>2, <3>1 DEF CdSucceeds
    <3>3. NewZone(d).ns = sets[chosen[d]] /\ NewZone(d).stack = stackOf[d]
      BY DEF NewZone
    <3>4. NewZone(d) \in OwnZones(d)'
      <4> DEFINE y == NewZone(d)
      <4>1. y \in zones' /\ y.stack = stackOf'[d]
        BY <2>3, <3>2, <3>3
      <4> HIDE DEF y
      <4>2. y \in OwnZones(d)'
        BY <4>1 DEF OwnZones
      <4> QED
        BY <4>2 DEF y
    <3> QED
      BY <2>3, <3>3, <3>4
  <2> QED
    BY <2>5, <2>6
<1> QED
  BY <1>1, Invariance, PTL DEF Spec, NextTimeHeals

-----------------------------------------------------------------------------
\* AwsLogs.

\* The time stamps of a group rise, no two entries share one, and Since is not
\* later than now.
Clock ==
  /\ IsFiniteSet(Times) /\ Cardinality(Times) <= MaxLog
  /\ \A g \in Groups : \A k \in DOMAIN log[g] :
       /\ 2 * k <= log[g][k] /\ log[g][k] <= 2 * Cardinality(Times)
       /\ \A h \in Groups : \A m \in DOMAIN log[h] : log[g][k] = log[h][m] => g = h /\ k = m
  /\ \A g \in Groups : \A i, j \in DOMAIN log[g] : i < j => log[g][i] < log[g][j]
  /\ start <= since /\ since <= 2 * Cardinality(Times) + 1

\* Before the command runs.
NotYet ==
  kind = "none" =>
    /\ consumer = "setup" /\ start = 0 /\ since = 0 /\ ~skipDuplicate
    /\ \A g \in Groups : phase[g] = "setup" /\ opened[g] = 0 /\ at[g] = 0 /\ got[g] = <<>>

\* What was printed is not newer than Since, and after a reconnect Since is where it
\* was then, or the time of an entry printed since.
Printed ==
  /\ \A g \in Groups : \A m \in earlier[g] : log[g][m] <= start
  /\ \A g \in Groups : \A m \in GotOf(g) : log[g][m] <= since
  /\ skipDuplicate => since = start \/ \E g \in Groups : \E m \in GotOf(g) : log[g][m] = since
  /\ ~skipDuplicate => \A g \in Groups : earlier[g] = {}

\* An entry that comes again after a reconnect is the one it was made from, and is
\* only printed if another group moved Since on.
Again ==
  \A g \in Groups : \A m \in GotOf(g) \cap earlier[g] :
    log[g][m] = start /\ \E h \in Groups \ {g} : \E k \in GotOf(h) : log[h][k] > start

\* A goroutine holds a result only while it is sending one.
HoldsAt(g) ==
  /\ hold[g].lo <= hold[g].hi + 1
  /\ hold[g].err # "nil" => hold[g].hi = 0
  /\ phase[g] # "send" => hold[g] = Empty

\* A goroutine that reads the history, one that reads the live tail, and the first
\* entry that it has not handed over.
Sends(g, then) == phase[g] = "send" /\ hold[g].err = "nil" /\ back[g] = then
InHistory(g) == phase[g] = "query" \/ Sends(g, "query")
InLive(g) == phase[g] = "live" \/ Sends(g, "live")
HeadOf(g) == IF phase[g] = "send" THEN hold[g].lo ELSE at[g] + 1

\* Where a group that is followed has come to.
FollowingAt(g) ==
  /\ phase[g] \in {"setup", "poll", "history"} => got[g] = <<>>
  /\ phase[g] \in {"setup", "poll"} => at[g] = 0
  /\ InHistory(g) =>
       /\ opened[g] <= histEnd[g] /\ at[g] <= histEnd[g]
       /\ \A k \in DOMAIN log[g] : k >= HeadOf(g) => log[g][k] >= start
       /\ \A m \in GotOf(g) : m < HeadOf(g)
  /\ InLive(g) =>
       /\ opened[g] < HeadOf(g)
       /\ \A m \in GotOf(g) : m < HeadOf(g) \/ m <= histEnd[g]
  /\ phase[g] = "history" \/ InHistory(g) \/ InLive(g) =>
       \A k \in DOMAIN log[g] : k > opened[g] => log[g][k] > start

\* The entries of a group come in order, but that the live tail starts over where
\* it was opened.
RisingAt(g) ==
  \A i, j \in DOMAIN got[g] :
    i < j => \/ got[g][i] < got[g][j]
             \/ kind = "follow" /\ got[g][i] <= histEnd[g] /\ opened[g] < got[g][j]

\* What can have happened to an entry that is not printed: it was printed before, or
\* lost.
Seen(g, k) == k \in earlier[g] \/ Overtaken(g, k)

\* What is older than where the groups were asked from was seen.
SeenBefore ==
  /\ since = 0 \/ \E g \in Groups : \E m \in earlier[g] \union GotOf(g) : log[g][m] = since
  /\ \A g \in Groups : \A k \in DOMAIN log[g] :
       log[g][k] < start \/ (\E m \in earlier[g] : k <= m) => Seen(g, k)

\* Up to where it is, a goroutine has handed over everything that was not seen.
CoveredAt(g) ==
  /\ InHistory(g) \/ InLive(g) =>
       \A k \in 1..(HeadOf(g) - 1) : k \in GotOf(g) \/ Seen(g, k)
  /\ Sends(g, "query") \/ Sends(g, "live") => hold[g].hi = at[g]
  /\ \A i \in DOMAIN got[g] : \A k \in 1..got[g][i] :
       k \in {got[g][j] : j \in 1..i} \/ Seen(g, k)

\* What can have ended a group, and the whole.
Ended ==
  /\ consumer \in {"setup", "range", "yield", "delay"} => ~canceled
  /\ kind = "follow" =>
       /\ consumer \in {"range", "yield"} => \A g \in Groups : phase[g] # "failed"
       /\ consumer \in {"setup", "range"} \/ (consumer = "yield" /\ last = "nil") =>
            \A g \in Groups : phase[g] = "done" => ctxDone
       /\ EndsOnlyCanceled

\* The time stamps that the merge is past.
PastTimes == UNION {{log[g][k] : k \in 1..merged[g]} : g \in Groups}

\* Where a group that is queried has come to.
AskedAt(g) ==
  /\ phase[g] \in {"setup", "query", "done", "failed"} /\ opened[g] = 0
  /\ IF consumer = "setup" THEN got[g] = <<>> ELSE phase[g] # "setup"
  /\ phase[g] # "setup" =>
       /\ merged[g] <= at[g] /\ at[g] <= histEnd[g]
       /\ \A k \in DOMAIN log[g] : k > merged[g] => log[g][k] >= start
  /\ \A m \in GotOf(g) : m <= merged[g]

AwsInv ==
  /\ AwsTypeOK /\ Clock /\ NotYet /\ Printed /\ Again /\ Ended
  /\ \A g \in Groups : HoldsAt(g) /\ RisingAt(g)
  /\ kind = "follow" => \A g \in Groups : FollowingAt(g)
  /\ Since /\ kind = "follow" => SeenBefore /\ \A g \in Groups : CoveredAt(g)
  /\ Querying => \A g \in Groups : AskedAt(g)
  /\ Querying /\ consumer # "setup" => yielded <= Cardinality(PastTimes)

-----------------------------------------------------------------------------
\* What the types say of a group, for the provers.
LEMMA GroupShapes ==
  ASSUME AwsTypeOK, Clock, NEW g \in Groups
  PROVE  /\ Len(log[g]) \in Nat /\ Len(log[g]) <= MaxLog /\ DOMAIN log[g] = 1..Len(log[g])
         /\ \A k \in 1..Len(log[g]) : log[g][k] \in Nat
         /\ \A i, j \in 1..Len(log[g]) : i < j => log[g][i] < log[g][j]
         /\ got[g] \in Seq(Nat) /\ Len(got[g]) \in Nat /\ DOMAIN got[g] = 1..Len(got[g])
         /\ \A i \in 1..Len(got[g]) : got[g][i] \in Nat /\ got[g][i] \in 1..Len(log[g])
         /\ \A m \in GotOf(g) : m \in Nat /\ m \in 1..Len(log[g])
         /\ earlier[g] \subseteq 1..Len(log[g])
         /\ opened[g] \in Nat /\ histEnd[g] \in Nat /\ at[g] \in Nat
         /\ opened[g] <= Len(log[g]) /\ histEnd[g] <= Len(log[g]) /\ at[g] <= Len(log[g])
         /\ hold[g].lo \in Nat /\ hold[g].lo >= 1 /\ hold[g].hi \in Nat /\ hold[g].hi <= at[g]
         /\ hold[g].err \in Errors /\ back[g] \in {"query", "live"}
         /\ start \in Nat /\ since \in Nat /\ start <= since
<1>1. /\ log[g] \in Seq(1..(2 * MaxLog)) /\ got[g] \in Seq(1..MaxLog) /\ MaxLog \in Nat
      /\ opened[g] \in 0..MaxLog /\ histEnd[g] \in 0..MaxLog /\ at[g] \in 0..MaxLog
      /\ opened[g] <= Len(log[g]) /\ histEnd[g] <= Len(log[g])
      /\ at[g] <= Len(log[g]) /\ hold[g].hi <= at[g]
      /\ earlier[g] \union GotOf(g) \subseteq DOMAIN log[g]
      /\ hold[g] \in [lo : 1..(MaxLog + 1), hi : 0..MaxLog, err : Errors]
      /\ back[g] \in {"query", "live"}
      /\ start \in 0..(2 * MaxLog + 1) /\ since \in start..(2 * MaxLog + 1)
  BY GroupsAssumption DEF AwsTypeOK, TailTypeOK
<1>2. /\ Len(log[g]) \in Nat /\ DOMAIN log[g] = 1..Len(log[g])
      /\ \A k \in 1..Len(log[g]) : log[g][k] \in 1..(2 * MaxLog)
  BY <1>1, ElementOfSeq, LenProperties
<1>3. /\ Len(got[g]) \in Nat /\ DOMAIN got[g] = 1..Len(got[g])
      /\ \A i \in 1..Len(got[g]) : got[g][i] \in 1..MaxLog
      /\ got[g] \in Seq(Nat)
  <2>1. 1..MaxLog \subseteq Nat
    OBVIOUS
  <2> QED
    BY <1>1, <2>1, ElementOfSeq, LenProperties, SeqMonotonic
<1>4. Len(log[g]) <= MaxLog
  <2>1. CASE Len(log[g]) = 0
    BY <1>1, <2>1
  <2>2. CASE Len(log[g]) # 0
    <3>1. Len(log[g]) \in DOMAIN log[g]
      BY <1>2, <2>2
    <3>2. 2 * Len(log[g]) <= log[g][Len(log[g])] /\ log[g][Len(log[g])] \in 1..(2 * MaxLog)
      BY <1>2, <3>1 DEF Clock
    <3> QED
      BY <1>1, <1>2, <3>2
  <2> QED
    BY <2>1, <2>2
<1>5. \A m \in GotOf(g) : m \in 1..Len(log[g])
  BY <1>1, <1>2
<1>6. \A i \in 1..Len(got[g]) : got[g][i] \in 1..Len(log[g])
  BY <1>3, <1>5 DEF GotOf
<1>7. \A i, j \in 1..Len(log[g]) : i < j => log[g][i] < log[g][j]
  BY <1>2 DEF Clock
<1>8. \A k \in 1..Len(log[g]) : log[g][k] \in Nat
  <2>1. \A x \in 1..(2 * MaxLog) : x \in Nat
    OBVIOUS
  <2> QED
    BY <1>2, <2>1
<1>9. /\ \A i \in 1..Len(got[g]) : got[g][i] \in Nat /\ got[g][i] \in 1..Len(log[g])
      /\ \A m \in GotOf(g) : m \in Nat /\ m \in 1..Len(log[g])
  BY <1>2, <1>5, <1>6
<1>10. /\ earlier[g] \subseteq 1..Len(log[g])
       /\ opened[g] \in Nat /\ histEnd[g] \in Nat /\ at[g] \in Nat
       /\ hold[g].lo \in Nat /\ hold[g].lo >= 1 /\ hold[g].hi \in Nat
       /\ hold[g].err \in Errors
       /\ start \in Nat /\ since \in Nat /\ start <= since
  <2>1. hold[g].lo \in 1..(MaxLog + 1) /\ hold[g].hi \in 0..MaxLog /\ hold[g].err \in Errors
    BY <1>1
  <2> QED
    BY <1>1, <1>2, <2>1
<1> QED
  BY <1>1, <1>2, <1>3, <1>4, <1>7, <1>8, <1>9, <1>10

\* A run of entries, and one added to what was printed.
LEMMA RunFacts ==
  ASSUME NEW lo \in Nat, NEW hi \in Nat, lo <= hi + 1
  PROVE  /\ Run(lo, hi) \in Seq(Nat) /\ Len(Run(lo, hi)) = hi - lo + 1
         /\ \A i \in 1..(hi - lo + 1) : Run(lo, hi)[i] = lo + i - 1
<1>1. hi - lo + 1 \in Nat
  OBVIOUS
<1>2. \A i \in 1..(hi - lo + 1) : lo + i - 1 \in Nat
  OBVIOUS
<1>3. Run(lo, hi) \in [1..(hi - lo + 1) -> Nat]
  BY <1>2 DEF Run
<1>4. Run(lo, hi) \in Seq(Nat)
  BY <1>1, <1>3, IsASeq DEF Run
<1>5. DOMAIN Run(lo, hi) = 1..(hi - lo + 1)
  BY DEF Run
<1>6. Len(Run(lo, hi)) = hi - lo + 1
  BY <1>1, <1>4, <1>5, LenProperties
<1> QED
  BY <1>4, <1>6 DEF Run

\* t is s with the entries lo..hi added in order, but for those of D.
Added(s, t, lo, hi, D) ==
  /\ t \in Seq(Nat) /\ Len(t) \in Nat /\ Len(s) \in Nat /\ Len(s) <= Len(t)
  /\ \A i \in 1..Len(s) : t[i] = s[i]
  /\ \A i \in (Len(s) + 1)..Len(t) : t[i] \in lo..hi /\ t[i] \notin D
  /\ \A i, j \in (Len(s) + 1)..Len(t) : i < j => t[i] < t[j]
  /\ \A k \in (lo..hi) \ D : \E i \in (Len(s) + 1)..Len(t) : t[i] = k

LEMMA AllAdded ==
  ASSUME NEW s \in Seq(Nat), NEW lo \in Nat, NEW hi \in Nat, lo <= hi + 1
  PROVE  Added(s, s \o Run(lo, hi), lo, hi, {})
<1> DEFINE r == Run(lo, hi)
           t == s \o r
           n == Len(s)
           m == Len(t)
<1>1. /\ r \in Seq(Nat) /\ Len(r) = hi - lo + 1 /\ n \in Nat
      /\ \A i \in 1..(hi - lo + 1) : r[i] = lo + i - 1
  BY RunFacts, LenProperties
<1> HIDE DEF r
<1>2. /\ t \in Seq(Nat) /\ Len(t) = Len(s) + Len(r)
      /\ \A i \in 1..(Len(s) + Len(r)) : t[i] = IF i <= Len(s) THEN s[i] ELSE r[i - Len(s)]
  BY <1>1, ConcatProperties
<1> HIDE DEF t
<1>3. /\ n \in Nat /\ m \in Nat /\ m = n + (hi - lo + 1) /\ n <= m
      /\ \A i \in 1..m : t[i] = IF i <= n THEN s[i] ELSE r[i - n]
  BY <1>1, <1>2
<1> HIDE DEF n, m
<1>4. \A i \in 1..n : t[i] = s[i]
  BY <1>3
<1>5. ASSUME NEW i \in (n + 1)..m PROVE t[i] = lo + (i - n) - 1
  <2>1. i \in 1..m /\ ~(i <= n) /\ i - n \in 1..(hi - lo + 1)
    BY <1>3
  <2>2. t[i] = r[i - n]
    BY <2>1, <1>3
  <2> QED
    BY <2>1, <2>2, <1>1
<1>6. ASSUME NEW i \in (n + 1)..m PROVE t[i] \in lo..hi
  <2>1. lo + (i - n) - 1 \in lo..hi
    BY <1>3
  <2> QED
    BY <2>1, <1>5
<1>7. ASSUME NEW i \in (n + 1)..m, NEW j \in (n + 1)..m, i < j PROVE t[i] < t[j]
  <2>1. t[i] = lo + (i - n) - 1 /\ t[j] = lo + (j - n) - 1
    BY <1>5
  <2> QED
    BY <1>3, <1>7, <2>1
<1>8. ASSUME NEW k \in lo..hi PROVE \E i \in (n + 1)..m : t[i] = k
  <2>1. n + (k - lo + 1) \in (n + 1)..m /\ lo + ((n + (k - lo + 1)) - n) - 1 = k
    BY <1>3
  <2>2. t[n + (k - lo + 1)] = lo + ((n + (k - lo + 1)) - n) - 1
    BY <2>1, <1>5
  <2> QED
    BY <2>1, <2>2
<1>9. Added(s, t, lo, hi, {})
  BY <1>2, <1>3, <1>4, <1>6, <1>7, <1>8 DEF n, m, Added
<1> QED
  BY <1>9 DEF t, r

LEMMA AllButOneAdded ==
  ASSUME NEW s \in Seq(Nat), NEW lo \in Nat, NEW hi \in Nat, NEW d \in lo..hi, lo >= 1
  PROVE  Added(s, (s \o Run(lo, d - 1)) \o Run(d + 1, hi), lo, hi, {d})
<1> DEFINE u == s \o Run(lo, d - 1)
           t == u \o Run(d + 1, hi)
           n == Len(s)
           c == Len(u)
           m == Len(t)
<1>1. d \in Nat /\ d - 1 \in Nat /\ d + 1 \in Nat /\ lo <= (d - 1) + 1 /\ d + 1 <= hi + 1 /\ d <= hi /\ lo <= d
  OBVIOUS
<1>2. Added(s, u, lo, d - 1, {}) /\ u \in Seq(Nat)
  <2>1. Added(s, u, lo, d - 1, {})
    BY <1>1, AllAdded
  <2> QED
    BY <2>1 DEF Added
<1> HIDE DEF u
<1>3. Added(u, t, d + 1, hi, {})
  BY <1>1, <1>2, AllAdded
<1> HIDE DEF t
<1>4. /\ n \in Nat /\ c \in Nat /\ n <= c
      /\ \A i \in 1..n : u[i] = s[i]
      /\ \A i \in (n + 1)..c : u[i] \in lo..(d - 1)
      /\ \A i, j \in (n + 1)..c : i < j => u[i] < u[j]
      /\ \A k \in lo..(d - 1) : \E i \in (n + 1)..c : u[i] = k
  BY <1>2 DEF Added
<1>5. /\ t \in Seq(Nat) /\ m \in Nat /\ c <= m
      /\ \A i \in 1..c : t[i] = u[i]
      /\ \A i \in (c + 1)..m : t[i] \in (d + 1)..hi
      /\ \A i, j \in (c + 1)..m : i < j => t[i] < t[j]
      /\ \A k \in (d + 1)..hi : \E i \in (c + 1)..m : t[i] = k
  BY <1>3 DEF Added
<1> HIDE DEF n, c, m
<1>6. ASSUME NEW i \in 1..n PROVE t[i] = s[i]
  <2>1. i \in 1..c
    BY <1>4
  <2> QED
    BY <2>1, <1>4, <1>5
<1>7. ASSUME NEW i \in (n + 1)..m
      PROVE  \/ i \in (n + 1)..c /\ t[i] \in lo..(d - 1) /\ t[i] = u[i]
             \/ i \in (c + 1)..m /\ t[i] \in (d + 1)..hi
  <2>1. CASE i <= c
    <3>1. i \in (n + 1)..c /\ i \in 1..c
      BY <2>1, <1>4, <1>5
    <3> QED
      BY <3>1, <1>4, <1>5
  <2>2. CASE ~(i <= c)
    <3>1. i \in (c + 1)..m
      BY <2>2, <1>4, <1>5
    <3> QED
      BY <3>1, <1>5
  <2> QED
    BY <2>1, <2>2
<1>8. ASSUME NEW i \in (n + 1)..m PROVE t[i] \in lo..hi /\ t[i] # d
  <2>1. t[i] \in lo..(d - 1) \/ t[i] \in (d + 1)..hi
    BY <1>7
  <2>2. \A x : x \in lo..(d - 1) \/ x \in (d + 1)..hi => x \in lo..hi /\ x # d
    BY <1>1
  <2> QED
    BY <2>1, <2>2
<1>9. ASSUME NEW i \in (n + 1)..m, NEW j \in (n + 1)..m, i < j PROVE t[i] < t[j]
  <2>1. CASE j \in (n + 1)..c /\ t[j] = u[j]
    <3>1. i \in (n + 1)..c /\ i \notin (c + 1)..m
      BY <2>1, <1>4, <1>5, <1>9
    <3>2. t[i] = u[i]
      BY <3>1, <1>7
    <3> QED
      BY <2>1, <3>1, <3>2, <1>4, <1>9
  <2>2. CASE j \in (c + 1)..m /\ t[j] \in (d + 1)..hi
    <3>1. CASE i \in (c + 1)..m
      BY <2>2, <3>1, <1>5, <1>9
    <3>2. CASE t[i] \in lo..(d - 1)
      <4>1. \A x \in lo..(d - 1) : \A y \in (d + 1)..hi : x < y
        BY <1>1
      <4> QED
        BY <2>2, <3>2, <4>1
    <3> QED
      BY <3>1, <3>2, <1>7
  <2> QED
    BY <2>1, <2>2, <1>7
<1>10. ASSUME NEW k \in lo..hi, k # d PROVE \E i \in (n + 1)..m : t[i] = k
  <2>1. CASE k \in lo..(d - 1)
    <3>1. PICK i \in (n + 1)..c : u[i] = k
      BY <2>1, <1>4
    <3>2. i \in 1..c /\ i \in (n + 1)..m
      BY <1>4, <1>5
    <3> QED
      BY <3>1, <3>2, <1>5
  <2>2. CASE k \in (d + 1)..hi
    <3>1. PICK i \in (c + 1)..m : t[i] = k
      BY <2>2, <1>5
    <3>2. i \in (n + 1)..m
      BY <1>4, <1>5
    <3> QED
      BY <3>1, <3>2
  <2>3. k \in lo..(d - 1) \/ k \in (d + 1)..hi
    BY <1>1, <1>10
  <2> QED
    BY <2>1, <2>2, <2>3
<1>11. n <= m
  BY <1>4, <1>5
<1>12. Added(s, t, lo, hi, {d})
  BY <1>4, <1>5, <1>6, <1>8, <1>9, <1>10, <1>11 DEF n, m, Added
<1> QED
  BY <1>12 DEF t, u

\* The print adds the entries of the batch but for a duplicate, in order.
LEMMA ShowFacts ==
  ASSUME AwsTypeOK, Clock, NEW g \in Groups, NEW lo \in Nat, NEW hi \in Nat,
         lo >= 1, lo <= hi + 1, hi <= Len(log[g]), Show(g, lo, hi)
  PROVE  /\ got' = [got EXCEPT ![g] = got'[g]]
         /\ Added(got[g], got'[g], lo, hi, {k \in lo..hi : IsDuplicate(g, k)})
<1> DEFINE dups == {k \in lo..hi : IsDuplicate(g, k)}
<1>1. /\ got[g] \in Seq(Nat) /\ Len(log[g]) \in Nat
      /\ \A i, j \in 1..Len(log[g]) : i < j => log[g][i] < log[g][j]
      /\ \A i \in 1..Len(log[g]) : log[g][i] \in Nat
  BY GroupShapes
<1>2. got \in [Groups -> Seq(1..MaxLog)]
  BY DEF AwsTypeOK, TailTypeOK
<1>3. CASE /\ \A k \in lo..hi : ~IsDuplicate(g, k)
           /\ got' = [got EXCEPT ![g] = @ \o Run(lo, hi)]
  <2>1. /\ got'[g] = got[g] \o Run(lo, hi)
        /\ got' = [got EXCEPT ![g] = got'[g]]
    BY <1>2, <1>3
  <2>2. dups = {}
    BY <1>3
  <2>3. Added(got[g], got[g] \o Run(lo, hi), lo, hi, {})
    BY <1>1, AllAdded
  <2> QED
    BY <2>1, <2>2, <2>3
\* There is only one duplicate.
<1>4. ASSUME NEW d \in lo..hi, NEW k \in lo..hi, IsDuplicate(g, d), IsDuplicate(g, k) PROVE d = k
  <2>1. log[g][d] = log[g][k] /\ d \in 1..Len(log[g]) /\ k \in 1..Len(log[g])
    BY <1>4, <1>1 DEF IsDuplicate
  <2>2. log[g][d] \in Nat
    BY <2>1, <1>1
  <2>3. ~(d < k)
    BY <2>1, <2>2, <1>1
  <2>4. ~(k < d)
    BY <2>1, <2>2, <1>1
  <2> QED
    BY <2>3, <2>4
<1>5. ASSUME NEW d \in lo..hi, IsDuplicate(g, d),
             got' = [got EXCEPT ![g] = (@ \o Run(lo, d - 1)) \o Run(d + 1, hi)]
      PROVE  /\ got' = [got EXCEPT ![g] = got'[g]]
             /\ Added(got[g], got'[g], lo, hi, dups)
  <2>1. /\ got'[g] = (got[g] \o Run(lo, d - 1)) \o Run(d + 1, hi)
        /\ got' = [got EXCEPT ![g] = got'[g]]
    BY <1>2, <1>5
  <2>2. dups = {d}
    BY <1>4, <1>5
  <2>3. Added(got[g], (got[g] \o Run(lo, d - 1)) \o Run(d + 1, hi), lo, hi, {d})
    BY <1>1, <1>5, AllButOneAdded
  <2> QED
    BY <2>1, <2>2, <2>3
<1>6. CASE \E d \in lo..hi : /\ IsDuplicate(g, d)
                             /\ got' = [got EXCEPT ![g] = (@ \o Run(lo, d - 1)) \o Run(d + 1, hi)]
  BY <1>5, <1>6
<1> QED
  BY <1>3, <1>6 DEF Show

-----------------------------------------------------------------------------
\* What a step of one goroutine writes.
GoroutineTypes ==
  /\ phase \in [Groups -> {"setup", "poll", "history", "query", "live", "send", "done", "failed"}]
  /\ opened \in [Groups -> 0..MaxLog] /\ histEnd \in [Groups -> 0..MaxLog]
  /\ at \in [Groups -> 0..MaxLog]
  /\ hold \in [Groups -> [lo : 1..(MaxLog + 1), hi : 0..MaxLog, err : Errors]]
  /\ back \in [Groups -> {"query", "live"}]

InLog(g) ==
  opened[g] <= Len(log[g]) /\ histEnd[g] <= Len(log[g]) /\ at[g] <= Len(log[g]) /\ hold[g].hi <= at[g]

Elsewhere(g) ==
  \A h \in Groups \ {g} :
    /\ phase'[h] = phase[h] /\ opened'[h] = opened[h] /\ histEnd'[h] = histEnd[h]
    /\ at'[h] = at[h] /\ hold'[h] = hold[h] /\ back'[h] = back[h]

\* A step of the goroutine of g changes nothing for the other groups.
LEMMA GoroutineStep ==
  ASSUME AwsInv, kind = "follow", NEW g \in Groups,
         UNCHANGED <<provider, asked, canceled, printed, consumer, last, query>>,
         GoroutineTypes', Elsewhere(g), InLog(g)',
         HoldsAt(g)', RisingAt(g)', FollowingAt(g)', Since => CoveredAt(g)',
         phase'[g] = "failed" => consumer = "setup",
         phase'[g] = "done" => Over
  PROVE  AwsInv'
<1> USE DEF provider, asked, printed, query, options
<1>1. AwsTypeOK'
  <2>1. \A h \in Groups : InLog(h)'
    <3>1. ASSUME NEW h \in Groups \ {g} PROVE InLog(h)'
      BY DEF AwsInv, AwsTypeOK, TailTypeOK, Elsewhere, InLog
    <3> QED
      BY <3>1
  <2>2. \A h \in Groups : (earlier[h] \union GotOf(h) \subseteq DOMAIN log[h])'
    BY DEF AwsInv, AwsTypeOK, TailTypeOK, GotOf
  <2>3. TailTypeOK'
    BY <2>1, <2>2 DEF AwsInv, AwsTypeOK, TailTypeOK, GoroutineTypes, InLog
  <2> QED
    BY <2>3 DEF AwsInv, AwsTypeOK, Querying
<1>2. Clock' /\ NotYet' /\ Printed' /\ Again'
  <2>1. Clock'
    <3>1. Times' = Times
      BY DEF Times
    <3> HIDE DEF Times
    <3> QED
      BY <3>1 DEF AwsInv, Clock
  <2>2. NotYet'
    BY DEF NotYet
  <2>3. Printed' /\ Again'
    BY DEF AwsInv, Printed, Again, GotOf
  <2> QED
    BY <2>1, <2>2, <2>3
<1>3. Ended'
  <2>1. \A h \in Groups \ {g} : phase'[h] = phase[h]
    BY DEF Elsewhere
  <2> QED
    BY <2>1 DEF AwsInv, Ended, Over, EndsOnlyCanceled
<1>4. ASSUME NEW h \in Groups
      PROVE  HoldsAt(h)' /\ RisingAt(h)' /\ FollowingAt(h)' /\ (Since => CoveredAt(h)')
  <2>1. CASE h = g
    BY <2>1
  <2>2. CASE h # g
    <3>1. /\ phase'[h] = phase[h] /\ opened'[h] = opened[h] /\ histEnd'[h] = histEnd[h]
          /\ at'[h] = at[h] /\ hold'[h] = hold[h] /\ back'[h] = back[h]
      BY <2>2 DEF Elsewhere
    <3>2. HoldsAt(h)' /\ RisingAt(h)'
      BY <3>1 DEF AwsInv, HoldsAt, RisingAt
    <3>3. FollowingAt(h)'
      BY <3>1 DEF AwsInv, FollowingAt, InHistory, InLive, Sends, HeadOf, GotOf
    <3>4. Since => CoveredAt(h)'
      BY <3>1 DEF AwsInv, CoveredAt, InHistory, InLive, Sends, HeadOf, GotOf, Seen, Overtaken
    <3> QED
      BY <3>2, <3>3, <3>4
  <2> QED
    BY <2>1, <2>2
<1>5. Since => SeenBefore'
  BY DEF AwsInv, SeenBefore, Seen, Overtaken, GotOf
<1> QED
  BY <1>1, <1>2, <1>3, <1>4, <1>5 DEF AwsInv, Querying

\* The live tail is open: history follows, or the live events.
LEMMA OpenedFacts ==
  ASSUME AwsInv, kind = "follow", NEW g \in Groups, phase[g] \in {"setup", "poll"}, Opened(g),
         UNCHANGED <<provider, asked, canceled, printed, consumer, last, hold, back, query>>
  PROVE  AwsInv'
<1> USE DEF provider, asked, printed, query, options
<1>1. /\ GoroutineTypes /\ AwsTypeOK /\ Clock /\ got[g] = <<>> /\ FollowingAt(g) /\ HoldsAt(g)
      /\ hold[g] = Empty
  BY DEF AwsInv, AwsTypeOK, TailTypeOK, GoroutineTypes, FollowingAt, HoldsAt
<1>2. /\ Len(log[g]) \in Nat /\ Len(log[g]) \in 0..MaxLog /\ DOMAIN log[g] = 1..Len(log[g])
      /\ histEnd[g] <= Len(log[g]) /\ start \in Nat
  <2>1. /\ Len(log[g]) \in Nat /\ Len(log[g]) <= MaxLog /\ DOMAIN log[g] = 1..Len(log[g])
        /\ histEnd[g] <= Len(log[g]) /\ start \in Nat
    BY <1>1, GroupShapes
  <2> QED
    BY <2>1, GroupsAssumption
<1>3. /\ phase' = [phase EXCEPT ![g] = IF Since \/ start > 0 THEN "history" ELSE "live"]
      /\ opened' = [opened EXCEPT ![g] = Len(log[g])]
      /\ at' = [at EXCEPT ![g] = Len(log[g])]
      /\ histEnd' = histEnd
  BY DEF Opened, Enter
<1>4. /\ phase'[g] = IF Since \/ start > 0 THEN "history" ELSE "live"
      /\ opened'[g] = Len(log[g]) /\ at'[g] = Len(log[g]) /\ histEnd'[g] = histEnd[g]
      /\ hold'[g] = Empty
  BY <1>1, <1>3 DEF GoroutineTypes
<1>5. GoroutineTypes' /\ Elsewhere(g)
  BY <1>1, <1>2, <1>3 DEF GoroutineTypes, Elsewhere
<1>6. InLog(g)' /\ HoldsAt(g)'
  BY <1>1, <1>2, <1>4 DEF InLog, HoldsAt, Empty, Result
<1>7. got'[g] = <<>> /\ DOMAIN got'[g] = {} /\ GotOf(g)' = {}
  BY <1>1 DEF GotOf
<1>8. RisingAt(g)' /\ FollowingAt(g)'
  <2>1. RisingAt(g)'
    BY <1>7 DEF RisingAt
  <2>2. FollowingAt(g)'
    BY <1>2, <1>4, <1>7 DEF FollowingAt, InHistory, InLive, Sends, HeadOf
  <2> QED
    BY <2>1, <2>2
<1>9. Since => CoveredAt(g)'
  BY <1>4, <1>7 DEF CoveredAt, InHistory, InLive, Sends
<1> QED
  BY <1>4, <1>5, <1>6, <1>8, <1>9, GoroutineStep

LEMMA SetUpKeeps ==
  ASSUME AwsInv, kind = "follow", NEW g \in Groups, SetUp(g), UNCHANGED query
  PROVE  AwsInv'
<1> USE DEF provider, asked, printed, query, options, progress
<1>1. CASE Opened(g) /\ UNCHANGED <<provider, canceled, hold, back, printed, asked, consumer, last>>
  BY <1>1, OpenedFacts DEF SetUp
<1>2. CASE /\ \/ Enter(g, "poll") /\ UNCHANGED progress
              \/ Enter(g, "failed") /\ UNCHANGED progress
           /\ UNCHANGED <<provider, canceled, hold, back, printed, asked, consumer, last>>
  <2>1. /\ GoroutineTypes /\ AwsTypeOK /\ Clock /\ got[g] = <<>> /\ at[g] = 0 /\ FollowingAt(g)
        /\ HoldsAt(g) /\ hold[g] = Empty /\ InLog(g)
    BY DEF AwsInv, AwsTypeOK, TailTypeOK, GoroutineTypes, FollowingAt, HoldsAt, SetUp, InLog
  <2>2. /\ phase'[g] \in {"poll", "failed"} /\ GoroutineTypes' /\ Elsewhere(g)
        /\ at'[g] = 0 /\ hold'[g] = Empty
    BY <1>2, <2>1 DEF GoroutineTypes, Elsewhere, Enter
  <2>3. InLog(g)' /\ HoldsAt(g)'
    BY <1>2, <2>1, <2>2 DEF InLog, HoldsAt, Empty, Result
  <2>4. got'[g] = <<>> /\ DOMAIN got'[g] = {} /\ GotOf(g)' = {}
    BY <1>2, <2>1 DEF GotOf
  <2>5. RisingAt(g)' /\ FollowingAt(g)' /\ CoveredAt(g)'
    BY <2>2, <2>4 DEF RisingAt, FollowingAt, CoveredAt, InHistory, InLive, Sends
  <2> QED
    BY <1>2, <2>2, <2>3, <2>5, GoroutineStep DEF SetUp
<1> QED
  BY <1>1, <1>2 DEF SetUp

\* A goroutine that has an error to send, or has given up, has no place any more.
LEMMA ErrorKeeps ==
  ASSUME AwsInv, kind = "follow", NEW g \in Groups, phase[g] # "setup",
         UNCHANGED <<provider, asked, canceled, printed, consumer, last, query, progress>>,
         \/ \E err \in Errors \ {"nil"} : Yield(g, Result(1, 0, err), "live")
         \/ Over /\ Enter(g, "done") /\ hold' = [hold EXCEPT ![g] = Empty] /\ UNCHANGED back
  PROVE  AwsInv'
<1> USE DEF provider, asked, printed, query, options, progress
<1>1. GoroutineTypes /\ AwsTypeOK /\ FollowingAt(g) /\ HoldsAt(g) /\ InLog(g) /\ RisingAt(g)
  BY DEF AwsInv, AwsTypeOK, TailTypeOK, GoroutineTypes, InLog
<1>2. \/ /\ phase' = [phase EXCEPT ![g] = "send"]
         /\ \E err \in Errors \ {"nil"} : hold' = [hold EXCEPT ![g] = Result(1, 0, err)]
         /\ back' = [back EXCEPT ![g] = "live"]
      \/ /\ phase' = [phase EXCEPT ![g] = "done"] /\ hold' = [hold EXCEPT ![g] = Result(1, 0, "nil")]
         /\ back' = back /\ Over
  BY DEF Yield, Enter, Empty
<1>3. \A err \in Errors : Result(1, 0, err) \in [lo : 1..(MaxLog + 1), hi : 0..MaxLog, err : Errors]
  BY GroupsAssumption DEF Result
<1>4. GoroutineTypes' /\ Elsewhere(g)
  <2>1. \E p \in {"send", "done"} : \E b \in {"live", back[g]} : \E err \in Errors :
          /\ phase' = [phase EXCEPT ![g] = p] /\ back' = [back EXCEPT ![g] = b]
          /\ hold' = [hold EXCEPT ![g] = Result(1, 0, err)]
    BY <1>1, <1>2 DEF GoroutineTypes, Errors
  <2>2. PICK p \in {"send", "done"}, b \in {"live", back[g]}, err \in Errors :
          /\ phase' = [phase EXCEPT ![g] = p] /\ back' = [back EXCEPT ![g] = b]
          /\ hold' = [hold EXCEPT ![g] = Result(1, 0, err)]
    BY <2>1
  <2>3. Result(1, 0, err) \in [lo : 1..(MaxLog + 1), hi : 0..MaxLog, err : Errors]
    BY <1>3
  <2>4. back[g] \in {"query", "live"}
    BY <1>1 DEF GoroutineTypes
  <2> HIDE DEF Result
  <2>5. GoroutineTypes'
    BY <1>1, <2>2, <2>3, <2>4 DEF GoroutineTypes
  <2>6. Elsewhere(g)
    BY <1>1, <2>2 DEF GoroutineTypes, Elsewhere
  <2> QED
    BY <2>5, <2>6
<1>5. /\ \/ phase'[g] = "send" /\ hold'[g].err # "nil"
         \/ phase'[g] = "done" /\ hold'[g] = Empty /\ Over
      /\ hold'[g].lo = 1 /\ hold'[g].hi = 0
  BY <1>1, <1>2 DEF GoroutineTypes, Result, Empty
<1>6. InLog(g)' /\ HoldsAt(g)'
  <2>1. at[g] \in Nat
    BY <1>1, GroupsAssumption DEF GoroutineTypes
  <2> QED
    BY <1>1, <1>5, <2>1 DEF InLog, HoldsAt
<1>7. RisingAt(g)' /\ FollowingAt(g)'
  BY <1>1, <1>5 DEF RisingAt, FollowingAt, InHistory, InLive, Sends
<1>8. Since => CoveredAt(g)'
  <2>1. Since => \A i \in DOMAIN got[g] : \A k \in 1..got[g][i] :
                   k \in {got[g][j] : j \in 1..i} \/ Seen(g, k)
    BY DEF AwsInv, CoveredAt
  <2> QED
    BY <1>5, <2>1 DEF CoveredAt, InHistory, InLive, Sends, Seen, Overtaken
<1> QED
  BY <1>4, <1>5, <1>6, <1>7, <1>8, GoroutineStep

LEMMA PollKeeps ==
  ASSUME AwsInv, kind = "follow", NEW g \in Groups, Poll(g), UNCHANGED query
  PROVE  AwsInv'
<1>1. CASE Opened(g) /\ UNCHANGED <<hold, back>>
  BY <1>1, OpenedFacts DEF Poll, provider, asked, printed
<1>2. CASE Yield(g, Result(1, 0, "stream"), "live") /\ UNCHANGED progress
  BY <1>2, ErrorKeeps DEF Poll, provider, asked, printed, Errors
<1> QED
  BY <1>1, <1>2 DEF Poll

LEMMA CtxErrorKeeps ==
  ASSUME AwsInv, kind = "follow", NEW g \in Groups, CtxError(g), UNCHANGED query
  PROVE  AwsInv'
BY ErrorKeeps DEF CtxError, provider, asked, printed, Errors

LEMMA GiveUpKeeps ==
  ASSUME AwsInv, kind = "follow", NEW g \in Groups, GiveUp(g), UNCHANGED query
  PROVE  AwsInv'
BY ErrorKeeps DEF GiveUp, provider, asked, printed

LEMMA QueryHistoryKeeps ==
  ASSUME AwsInv, kind = "follow", NEW g \in Groups, QueryHistory(g), UNCHANGED query
  PROVE  AwsInv'
<1> USE DEF provider, asked, printed, query, options
<1>1. /\ GoroutineTypes /\ AwsTypeOK /\ Clock /\ FollowingAt(g) /\ HoldsAt(g) /\ InLog(g)
      /\ phase[g] = "history" /\ got[g] = <<>> /\ hold[g] = Empty
  BY DEF AwsInv, AwsTypeOK, TailTypeOK, GoroutineTypes, InLog, FollowingAt, HoldsAt, QueryHistory
<1>2. /\ Len(log[g]) \in Nat /\ Len(log[g]) \in 0..MaxLog /\ DOMAIN log[g] = 1..Len(log[g])
      /\ start \in Nat /\ \A k \in 1..Len(log[g]) : log[g][k] \in Nat
      /\ opened[g] \in Nat /\ opened[g] <= Len(log[g])
  <2>1. /\ Len(log[g]) \in Nat /\ Len(log[g]) <= MaxLog /\ DOMAIN log[g] = 1..Len(log[g])
        /\ \A k \in 1..Len(log[g]) : log[g][k] \in Nat /\ start \in Nat
        /\ opened[g] \in Nat /\ opened[g] <= Len(log[g]) /\ start \in Nat
    BY <1>1, GroupShapes
  <2> QED
    BY <2>1, GroupsAssumption
<1>3. PICK n \in 0..Len(log[g]) : Before(g, n) /\ at' = [at EXCEPT ![g] = n]
  BY DEF QueryHistory
<1>4. n \in Nat /\ n \in 0..MaxLog /\ n <= Len(log[g]) /\ \A k \in 1..Len(log[g]) : k <= n <=> log[g][k] < start
  BY <1>2, <1>3, GroupsAssumption DEF Before
<1>5. /\ phase' = [phase EXCEPT ![g] = "query"] /\ histEnd' = [histEnd EXCEPT ![g] = Len(log[g])]
      /\ UNCHANGED <<opened, provider, canceled, hold, back, printed, asked, consumer, last>>
  BY DEF QueryHistory, Enter, EndsNow
<1>6. /\ phase'[g] = "query" /\ histEnd'[g] = Len(log[g]) /\ at'[g] = n /\ opened'[g] = opened[g]
      /\ hold'[g] = Empty
  BY <1>1, <1>3, <1>5 DEF GoroutineTypes
<1>7. GoroutineTypes' /\ Elsewhere(g)
  BY <1>1, <1>2, <1>3, <1>4, <1>5 DEF GoroutineTypes, Elsewhere
<1>8. InLog(g)' /\ HoldsAt(g)'
  BY <1>1, <1>2, <1>4, <1>5, <1>6 DEF InLog, HoldsAt, Empty, Result
<1>9. got'[g] = <<>> /\ DOMAIN got'[g] = {} /\ GotOf(g)' = {}
  BY <1>1, <1>5 DEF GotOf
<1>10. RisingAt(g)'
  BY <1>9 DEF RisingAt
<1>11. FollowingAt(g)'
  <2>1. \A k \in DOMAIN log[g] : k > opened[g] => log[g][k] > start
    BY <1>1 DEF FollowingAt
  <2>2. \A k \in DOMAIN log[g] : k >= n + 1 => log[g][k] >= start
    BY <1>2, <1>4
  <2> QED
    BY <1>2, <1>4, <1>5, <1>6, <1>9, <2>1, <2>2 DEF FollowingAt, InHistory, InLive, Sends, HeadOf
<1>12. Since => CoveredAt(g)'
  <2>1. ASSUME Since, NEW k \in 1..n PROVE Seen(g, k)
    BY <1>2, <1>4, <2>1 DEF AwsInv, SeenBefore
  <2>2. ASSUME Since, NEW k \in 1..((n + 1) - 1) PROVE Seen(g, k)'
    <3>1. k \in 1..n
      BY <1>4
    <3> QED
      BY <1>5, <2>1, <2>2, <3>1 DEF Seen, Overtaken
  <2> QED
    BY <1>6, <1>9, <2>2 DEF CoveredAt, InHistory, InLive, Sends, HeadOf
<1> QED
  BY <1>5, <1>6, <1>7, <1>8, <1>10, <1>11, <1>12, GoroutineStep

\* A batch is on its way from where the goroutine was.
LEMMA BatchKeeps ==
  ASSUME AwsInv, kind = "follow", NEW g \in Groups, NEW where \in {"query", "live"}, phase[g] = where,
         NEW hi \in (at[g] + 1)..Len(log[g]), where = "query" => hi <= histEnd[g],
         Yield(g, Result(at[g] + 1, hi, "nil"), where), at' = [at EXCEPT ![g] = hi],
         UNCHANGED <<opened, histEnd, provider, canceled, printed, asked, consumer, last, query>>
  PROVE  AwsInv'
<1> USE DEF provider, asked, printed, query, options
<1>1. /\ GoroutineTypes /\ AwsTypeOK /\ Clock /\ FollowingAt(g) /\ RisingAt(g) /\ InLog(g)
  BY DEF AwsInv, AwsTypeOK, TailTypeOK, GoroutineTypes, InLog
<1>2. /\ Len(log[g]) \in Nat /\ Len(log[g]) <= MaxLog /\ at[g] \in Nat /\ at[g] <= Len(log[g])
      /\ opened[g] \in Nat /\ histEnd[g] \in Nat
  BY <1>1, GroupShapes
<1>3. hi \in Nat /\ hi \in 0..MaxLog /\ at[g] + 1 \in 1..(MaxLog + 1) /\ hi <= Len(log[g]) /\ at[g] + 1 <= hi
  BY <1>2, GroupsAssumption
<1>4. /\ phase' = [phase EXCEPT ![g] = "send"] /\ back' = [back EXCEPT ![g] = where]
      /\ hold' = [hold EXCEPT ![g] = Result(at[g] + 1, hi, "nil")]
  BY DEF Yield, Enter
<1>5. /\ phase'[g] = "send" /\ at'[g] = hi /\ back'[g] = where
      /\ hold'[g].lo = at[g] + 1 /\ hold'[g].hi = hi /\ hold'[g].err = "nil"
  BY <1>1, <1>4 DEF GoroutineTypes, Result
<1>6. Result(at[g] + 1, hi, "nil") \in [lo : 1..(MaxLog + 1), hi : 0..MaxLog, err : Errors]
  BY <1>3 DEF Result, Errors
<1>7. GoroutineTypes'
  BY <1>1, <1>3, <1>4, <1>6 DEF GoroutineTypes
<1>8. Elsewhere(g)
  BY <1>1, <1>4 DEF GoroutineTypes, Elsewhere
<1>9. InLog(g)' /\ HoldsAt(g)'
  BY <1>1, <1>2, <1>3, <1>5 DEF InLog, HoldsAt
<1>10. RisingAt(g)'
  BY <1>1 DEF RisingAt
<1>11. /\ InHistory(g)' => InHistory(g)
       /\ InLive(g)' => InLive(g)
       /\ HeadOf(g)' = at[g] + 1 /\ HeadOf(g) = at[g] + 1
       /\ phase'[g] = "history" \/ InHistory(g)' \/ InLive(g)' => InHistory(g) \/ InLive(g)
       /\ InHistory(g)' => hi <= histEnd[g]
  BY <1>5 DEF InHistory, InLive, Sends, HeadOf
<1>12. FollowingAt(g)'
  BY <1>1, <1>2, <1>3, <1>5, <1>11 DEF FollowingAt, GotOf
<1>13. Since => CoveredAt(g)'
  <2>1. Since => CoveredAt(g)
    BY DEF AwsInv
  <2> QED
    BY <1>5, <1>11, <2>1 DEF CoveredAt, Seen, Overtaken, GotOf
<1> QED
  BY <1>5, <1>7, <1>8, <1>9, <1>10, <1>12, <1>13, GoroutineStep

LEMMA HistoryPageKeeps ==
  ASSUME AwsInv, kind = "follow", NEW g \in Groups, HistoryPage(g), UNCHANGED query
  PROVE  AwsInv'
<1> USE DEF provider, asked, printed, query, options
<1>1. /\ GoroutineTypes /\ AwsTypeOK /\ Clock /\ FollowingAt(g) /\ RisingAt(g) /\ HoldsAt(g) /\ InLog(g)
      /\ phase[g] = "query"
  BY DEF AwsInv, AwsTypeOK, TailTypeOK, GoroutineTypes, InLog, HistoryPage
<1>2. /\ Len(log[g]) \in Nat /\ Len(log[g]) <= MaxLog /\ at[g] \in Nat /\ at[g] <= Len(log[g])
      /\ opened[g] \in Nat /\ histEnd[g] \in Nat /\ histEnd[g] <= Len(log[g]) /\ opened[g] <= Len(log[g])
  BY <1>1, GroupShapes
<1>3. CASE \E hi \in (at[g] + 1)..histEnd[g] :
             Yield(g, Result(at[g] + 1, hi, "nil"), "query") /\ at' = [at EXCEPT ![g] = hi]
  <2>1. PICK hi \in (at[g] + 1)..histEnd[g] :
               Yield(g, Result(at[g] + 1, hi, "nil"), "query") /\ at' = [at EXCEPT ![g] = hi]
    BY <1>3
  <2>2. hi \in (at[g] + 1)..Len(log[g]) /\ hi <= histEnd[g]
    BY <1>2, <2>1
  <2> QED
    BY <1>1, <2>1, <2>2, BatchKeeps DEF HistoryPage
<1>4. CASE \E err \in {"stream", "notFound"} : Yield(g, Result(1, 0, err), "live") /\ UNCHANGED at
  BY <1>1, <1>4, ErrorKeeps DEF HistoryPage, progress, Errors
<1>5. CASE /\ at[g] >= histEnd[g]
           /\ Enter(g, "live") /\ at' = [at EXCEPT ![g] = LiveFrom(g)]
           /\ UNCHANGED <<hold, back>>
  <2>1. UNCHANGED <<opened, histEnd, provider, canceled, hold, back, printed, asked, consumer, last>>
    BY <1>5 DEF HistoryPage
  <2>2. phase' = [phase EXCEPT ![g] = "live"] /\ at' = [at EXCEPT ![g] = opened[g]]
    BY <1>5 DEF Enter, LiveFrom
  <2>3. phase'[g] = "live" /\ at'[g] = opened[g] /\ hold'[g] = Empty /\ HeadOf(g)' = opened[g] + 1
        /\ opened'[g] = opened[g] /\ histEnd'[g] = histEnd[g] /\ HeadOf(g) = at[g] + 1
    BY <1>1, <2>1, <2>2 DEF GoroutineTypes, HoldsAt, HeadOf
  <2>4. GoroutineTypes' /\ Elsewhere(g)
    BY <1>1, <2>1, <2>2 DEF GoroutineTypes, Elsewhere
  <2>5. InLog(g)' /\ HoldsAt(g)' /\ RisingAt(g)'
    BY <1>1, <1>2, <2>1, <2>3 DEF InLog, HoldsAt, RisingAt, Empty, Result
  <2>6. /\ opened[g] <= histEnd[g] /\ at[g] <= histEnd[g]
        /\ \A m \in GotOf(g) : m < at[g] + 1
        /\ \A k \in DOMAIN log[g] : k > opened[g] => log[g][k] > start
    BY <1>1, <2>3 DEF FollowingAt, InHistory
  <2>7. \A m \in GotOf(g) : m <= histEnd[g]
    <3>1. \A m \in GotOf(g) : m \in Nat
      BY <1>1, GroupShapes
    <3> QED
      BY <1>2, <2>6, <3>1
  <2>8. ~InHistory(g)' /\ opened[g] < opened[g] + 1
    BY <1>2, <2>3 DEF InHistory, Sends
  <2>9. FollowingAt(g)'
    BY <2>1, <2>3, <2>6, <2>7, <2>8 DEF FollowingAt, GotOf
  <2>10. Since => CoveredAt(g)'
    <3>1. ASSUME Since PROVE CoveredAt(g) /\ InHistory(g)
      BY <1>1, <3>1 DEF AwsInv, InHistory
    <3>2. ASSUME Since, NEW k \in 1..((opened[g] + 1) - 1) PROVE k \in GotOf(g) \/ Seen(g, k)
      <4>1. k \in 1..((at[g] + 1) - 1)
        BY <1>2, <1>5, <2>6
      <4> QED
        BY <2>3, <3>1, <3>2, <4>1 DEF CoveredAt
    <3>3. ~Sends(g, "query")' /\ ~Sends(g, "live")'
      BY <2>3 DEF Sends
    <3>4. GotOf(g)' = GotOf(g) /\ \A k : Seen(g, k)' = Seen(g, k)
      BY <2>1 DEF GotOf, Seen, Overtaken
    <3> QED
      BY <2>1, <2>3, <3>1, <3>2, <3>3, <3>4 DEF CoveredAt
  <2> QED
    BY <2>1, <2>3, <2>4, <2>5, <2>9, <2>10, GoroutineStep
<1> QED
  BY <1>3, <1>4, <1>5 DEF HistoryPage

LEMMA LiveEventsKeeps ==
  ASSUME AwsInv, kind = "follow", NEW g \in Groups, LiveEvents(g), UNCHANGED query
  PROVE  AwsInv'
<1> USE DEF provider, asked, printed, query, options
<1>1. CASE \E hi \in (at[g] + 1)..Len(log[g]) :
             Yield(g, Result(at[g] + 1, hi, "nil"), "live") /\ at' = [at EXCEPT ![g] = hi]
  BY <1>1, BatchKeeps DEF LiveEvents
<1>2. CASE Yield(g, Result(1, 0, "stream"), "live") /\ UNCHANGED at
  BY <1>2, ErrorKeeps DEF LiveEvents, progress, Errors
<1> QED
  BY <1>1, <1>2 DEF LiveEvents

-----------------------------------------------------------------------------
\* A step of the one consumer, or the end of the caller's context.
LEMMA ControlStep ==
  ASSUME AwsInv,
         UNCHANGED <<exists, log, earlier, start, progress, hold, back, printed, options, left, merged>>,
         phase' \in [Groups -> {"setup", "poll", "history", "query", "live", "send", "done", "failed"}],
         \A g \in Groups : phase'[g] = phase[g] \/ (Querying /\ consumer # "setup" /\ phase'[g] = "done"),
         ctxDone' \in BOOLEAN, canceled' \in BOOLEAN, drops' \in 0..MaxDrops, last' \in Errors,
         consumer' \in {"setup", "range", "yield", "delay", "stop"} \union Overs,
         kind = "none" => consumer' = consumer,
         consumer' = "setup" => consumer = "setup",
         Querying /\ consumer = "setup" /\ consumer' # "setup" =>
           yielded' = 0 /\ \A g \in Groups : phase[g] # "setup",
         ~Querying \/ consumer # "setup" \/ consumer' = "setup" => UNCHANGED yielded,
         Ended'
  PROVE  AwsInv'
<1> USE DEF progress, printed, options
<1>1. AwsTypeOK /\ Clock
  BY DEF AwsInv
<1>2. TailTypeOK'
  <2>1. \A g \in Groups : (earlier[g] \union GotOf(g) \subseteq DOMAIN log[g])'
    BY <1>1 DEF AwsTypeOK, TailTypeOK, GotOf
  <2> QED
    BY <1>1, <2>1 DEF AwsTypeOK, TailTypeOK, Overs
<1>3. ASSUME NEW g \in Groups, Querying PROVE AskedAt(g)'
  <2>1. AskedAt(g)
    BY <1>3 DEF AwsInv
  <2> QED
    BY <1>3, <2>1 DEF AskedAt, GotOf
<1>4. MaxLog \in Nat /\ (kind = "none" \/ Querying \/ kind = "follow")
  BY <1>1, GroupsAssumption DEF AwsTypeOK, Querying
<1>5. AwsTypeOK'
  <2>1. ASSUME Querying, consumer' # "setup", NEW g \in Groups PROVE merged[g] <= at[g]
    <3>1. CASE consumer = "setup"
      BY <2>1, <3>1 DEF AwsInv, AskedAt
    <3>2. CASE consumer # "setup"
      BY <2>1, <3>2, <1>1 DEF AwsTypeOK
    <3> QED
      BY <3>1, <3>2
  <2>2. yielded' \in 0..MaxLog
    BY <1>1, <1>4 DEF AwsTypeOK
  <2> QED
    BY <1>1, <1>2, <2>1, <2>2 DEF AwsTypeOK, Querying
<1>6. Clock'
  <2>1. Times' = Times
    BY DEF Times
  <2> HIDE DEF Times
  <2> QED
    BY <1>1, <2>1 DEF Clock
<1>7. NotYet'
  BY DEF AwsInv, NotYet, Querying
<1>8. Printed' /\ Again'
  BY DEF AwsInv, Printed, Again, GotOf
<1>9. ASSUME NEW g \in Groups PROVE HoldsAt(g)' /\ RisingAt(g)'
  <2>1. HoldsAt(g) /\ RisingAt(g) /\ (Querying => AskedAt(g))
    BY DEF AwsInv
  <2>2. HoldsAt(g)'
    BY <2>1 DEF HoldsAt, AskedAt
  <2>3. RisingAt(g)'
    BY <2>1 DEF RisingAt
  <2> QED
    BY <2>2, <2>3
<1>10. ASSUME kind = "follow", NEW g \in Groups PROVE FollowingAt(g)' /\ (Since => CoveredAt(g)')
  <2>1. /\ phase'[g] = phase[g] /\ FollowingAt(g) /\ (Since => CoveredAt(g))
        /\ UNCHANGED <<log, at, got, hold, back, opened, histEnd, start, earlier>>
    BY <1>10 DEF AwsInv, Querying
  <2>2. FollowingAt(g)'
    BY <2>1 DEF FollowingAt, InHistory, InLive, Sends, HeadOf, GotOf
  <2>3. Since => CoveredAt(g)'
    BY <2>1 DEF CoveredAt, InHistory, InLive, Sends, HeadOf, GotOf, Seen, Overtaken
  <2> QED
    BY <2>2, <2>3
<1>11. Since /\ kind = "follow" => SeenBefore'
  BY DEF AwsInv, SeenBefore, Seen, Overtaken, GotOf
<1>12. Querying /\ consumer' # "setup" => (yielded <= Cardinality(PastTimes))'
  <2>1. PastTimes' = PastTimes
    BY DEF PastTimes
  <2>2. ASSUME Querying, \A g \in Groups : merged[g] <= at[g] PROVE Cardinality(PastTimes) \in Nat
    <3>1. PastTimes \subseteq Times
      <4>1. ASSUME NEW g \in Groups, NEW k \in 1..merged[g] PROVE k \in DOMAIN log[g]
        <5>1. /\ DOMAIN log[g] = 1..Len(log[g]) /\ at[g] \in Nat /\ at[g] <= Len(log[g]) /\ Len(log[g]) \in Nat
          BY <1>1, GroupShapes
        <5>2. merged[g] \in 0..MaxLog
          BY <1>1 DEF AwsTypeOK
        <5> QED
          BY <2>2, <5>1, <5>2, <1>4
      <4> QED
        BY <4>1 DEF PastTimes, Times
    <3>2. IsFiniteSet(Times)
      BY <1>1 DEF Clock
    <3> QED
      BY <3>1, <3>2, FS_Subset, FS_CardinalityType
  <2>3. CASE Querying /\ consumer = "setup" /\ consumer' # "setup"
    <3>1. yielded' = 0 /\ \A g \in Groups : merged[g] <= at[g]
      BY <2>3 DEF AwsInv, AskedAt
    <3>2. Cardinality(PastTimes) \in Nat
      BY <2>2, <2>3, <3>1
    <3> HIDE DEF PastTimes
    <3> QED
      BY <3>1, <3>2, <2>1
  <2>4. CASE Querying /\ consumer # "setup"
    <3>1. yielded' = yielded /\ yielded <= Cardinality(PastTimes)
      BY <2>4 DEF AwsInv
    <3> HIDE DEF PastTimes
    <3> QED
      BY <3>1, <2>1
  <2> QED
    BY <2>3, <2>4
<1> HIDE DEF PastTimes
<1>13. kind' = kind /\ Querying' = Querying
  BY DEF Querying
<1> QED
  BY <1>3, <1>5, <1>6, <1>7, <1>8, <1>9, <1>10, <1>11, <1>12, <1>13 DEF AwsInv

LEMMA CtxDoneKeeps ==
  ASSUME AwsInv, CtxDone, UNCHANGED query
  PROVE  AwsInv'
<1> USE DEF progress, printed, options, query, provider, asked
<1>1. AwsTypeOK /\ Ended
  BY DEF AwsInv
<1>2. Ended'
  BY <1>1 DEF CtxDone, Ended, EndsOnlyCanceled
<1> QED
  BY <1>1, <1>2, ControlStep DEF CtxDone, AwsTypeOK, TailTypeOK

LEMMA SetUpOverKeeps ==
  ASSUME AwsInv, kind = "follow", SetUpOver, UNCHANGED query
  PROVE  AwsInv'
<1> USE DEF progress, printed, options, query, provider, asked
<1>1. AwsTypeOK /\ Ended
  BY DEF AwsInv
<1>2. consumer' \in {"failed", "range"} /\ canceled' \in BOOLEAN
  BY DEF SetUpOver
<1>3. Ended'
  BY <1>1 DEF SetUpOver, Ended, EndsOnlyCanceled
<1> QED
  BY <1>1, <1>2, <1>3, ControlStep DEF SetUpOver, AwsTypeOK, TailTypeOK, Overs, Querying

LEMMA ConsumeKeeps ==
  ASSUME AwsInv, kind # "none", Consume, UNCHANGED query
  PROVE  AwsInv'
<1> USE DEF progress, printed, options, query, provider, asked
<1>1. AwsTypeOK /\ Ended
  BY DEF AwsInv
<1>2. /\ consumer' \in {"range", "end", "error", "stopped", "delay"}
      /\ canceled' \in BOOLEAN /\ drops' \in 0..MaxDrops /\ consumer = "yield"
  <2>1. drops \in 0..MaxDrops /\ canceled \in BOOLEAN /\ MaxDrops \in Nat
    BY <1>1, GroupsAssumption DEF AwsTypeOK, TailTypeOK
  <2>2. drops' = drops \/ (drops < MaxDrops /\ drops' = drops + 1)
    BY DEF Consume
  <2>3. drops' \in 0..MaxDrops
    BY <2>1, <2>2
  <2>4. consumer' \in {"range", "end", "error", "stopped", "delay"} /\ consumer = "yield"
    BY DEF Consume, SeenAs
  <2>5. canceled' = canceled \/ canceled' = TRUE
    BY DEF Consume, CancelOnExit
  <2> QED
    BY <2>1, <2>3, <2>4, <2>5
<1>3. Ended'
  BY <1>1 DEF Consume, Ended, EndsOnlyCanceled, SeenAs, EndsAt, CancelOnExit
<1> QED
  BY <1>1, <1>2, <1>3, ControlStep DEF Consume, AwsTypeOK, TailTypeOK, Overs

LEMMA DelayKeeps ==
  ASSUME AwsInv, kind # "none", Delay, UNCHANGED query
  PROVE  AwsInv'
<1> USE DEF progress, printed, options, query, provider, asked
<1>1. AwsTypeOK /\ Ended
  BY DEF AwsInv
<1>2. consumer' \in {"stop", "error"} /\ canceled' = TRUE /\ consumer = "delay"
  BY DEF Delay, CancelOnExit
<1>3. Ended'
  BY <1>1, <1>2 DEF Delay, Ended, EndsOnlyCanceled
<1> QED
  BY <1>1, <1>2, <1>3, ControlStep DEF Delay, AwsTypeOK, TailTypeOK, Overs

LEMMA ChannelClosedKeeps ==
  ASSUME AwsInv, kind = "follow", ChannelClosed, UNCHANGED query
  PROVE  AwsInv'
<1> USE DEF progress, printed, options, query, provider, asked
<1>1. AwsTypeOK /\ Ended
  BY DEF AwsInv
<1>2. consumer' = "end" /\ canceled' = TRUE /\ consumer = "range"
  BY DEF ChannelClosed, CancelOnExit
<1>3. ctxDone
  <2>1. PICK g \in Groups : TRUE
    BY GroupsAssumption
  <2>2. phase[g] = "done"
    BY <1>1, <1>2 DEF ChannelClosed, Ended
  <2> QED
    BY <1>1, <1>2, <2>2 DEF Ended
<1>4. Ended'
  BY <1>1, <1>2, <1>3 DEF ChannelClosed, Ended, EndsOnlyCanceled
<1> QED
  BY <1>1, <1>2, <1>4, ControlStep DEF ChannelClosed, AwsTypeOK, TailTypeOK, Overs, Querying

LEMMA AskedKeeps ==
  ASSUME AwsInv, Asked
  PROVE  AwsInv'
<1> USE DEF progress, printed, options, query, provider, asked
<1>1. AwsTypeOK /\ Ended
  BY DEF AwsInv
<1>2. consumer' = "range" /\ yielded' = 0 /\ Querying /\ kind # "follow" /\ kind # "none"
  BY DEF Asked, Querying
<1>3. Ended'
  BY <1>1, <1>2 DEF Asked, Ended, EndsOnlyCanceled
<1> QED
  BY <1>1, <1>2, <1>3, ControlStep DEF Asked, AwsTypeOK, TailTypeOK, Overs

LEMMA QueryEndsKeeps ==
  ASSUME AwsInv, QueryEnds
  PROVE  AwsInv'
<1> USE DEF progress, printed, options, query, provider, asked
<1>1. AwsTypeOK /\ Ended
  BY DEF AwsInv
<1>2. consumer' = "end" /\ canceled' = TRUE /\ consumer = "range" /\ Querying /\ kind # "follow" /\ kind # "none"
  BY DEF QueryEnds, CancelOnExit, Querying
<1>3. Ended'
  BY <1>1, <1>2 DEF QueryEnds, Ended
<1> QED
  BY <1>1, <1>2, <1>3, ControlStep DEF QueryEnds, AwsTypeOK, TailTypeOK, Overs

LEMMA StopPullsKeeps ==
  ASSUME AwsInv, StopPulls
  PROVE  AwsInv'
<1> USE DEF progress, printed, options, query, provider, asked
<1>1. AwsTypeOK /\ Ended
  BY DEF AwsInv
<1>2. Querying /\ kind # "follow" /\ kind # "none" /\ consumer # "setup"
  BY DEF StopPulls, Querying, Overs
<1>3. /\ phase' \in [Groups -> {"setup", "poll", "history", "query", "live", "send", "done", "failed"}]
      /\ \A g \in Groups : phase'[g] = phase[g] \/ phase'[g] = "done"
  BY <1>1 DEF StopPulls, AwsTypeOK, TailTypeOK
<1>4. Ended'
  BY <1>1, <1>2 DEF StopPulls, Ended
<1>5. /\ UNCHANGED <<exists, log, earlier, start, progress, hold, back, printed, options, left, merged,
                     ctxDone, canceled, drops, last, consumer, yielded>>
  BY DEF StopPulls
<1>6. /\ ctxDone \in BOOLEAN /\ canceled \in BOOLEAN /\ drops \in 0..MaxDrops /\ last \in Errors
      /\ consumer \in {"setup", "range", "yield", "delay", "stop"} \union Overs
  BY <1>1 DEF AwsTypeOK, TailTypeOK
<1> QED
  BY <1>2, <1>3, <1>4, <1>5, <1>6, ControlStep

\* The command comes: nothing has been printed or asked for yet.
LEMMA CommandKeeps ==
  ASSUME AwsInv, Command
  PROVE  AwsInv'
<1> USE DEF progress, provider
<1>1. /\ AwsTypeOK /\ Clock /\ Printed /\ ~canceled /\ kind = "none"
      /\ consumer = "setup" /\ start = 0 /\ since = 0 /\ ~skipDuplicate
      /\ \A g \in Groups : phase[g] = "setup" /\ opened[g] = 0 /\ at[g] = 0 /\ got[g] = <<>>
  BY DEF AwsInv, Command, NotYet, Ended
<1>2. /\ kind' \in {"follow", "groups", "build"} /\ newest' \in BOOLEAN
      /\ kind' = "follow" => start' = 0 /\ since' = 0
      /\ UNCHANGED <<left, merged, yielded, provider, drops, earlier, canceled, phase, progress,
                     hold, back, got, skipDuplicate, consumer, last>>
  BY DEF Command
<1> DEFINE N == Cardinality(Times)
<1>3. N \in Nat /\ N <= MaxLog /\ MaxLog \in Nat /\ \A x \in Times : x \in Nat /\ x <= 2 * N
  <2>1. N \in Nat
    BY <1>1, FS_CardinalityType DEF Clock
  <2>2. \A x \in Times : x \in Nat /\ x <= 2 * N
    <3>1. ASSUME NEW g \in Groups, NEW k \in DOMAIN log[g] PROVE log[g][k] \in Nat /\ log[g][k] <= 2 * N
      BY <1>1, GroupShapes DEF Clock
    <3> QED
      BY <3>1 DEF Times
  <2> QED
    BY <1>1, <2>1, <2>2, GroupsAssumption DEF Clock
<1>4. /\ start' \in Nat /\ start' <= 2 * N /\ (newest' => start' = 0)
      /\ since' = start' \/ (newest' /\ since' = 2 * N + 1)
  <2>1. start' \in {0} \union Times /\ (newest' => start' = 0)
    BY DEF Command
  <2>2. since' = IF newest' THEN 2 * N + 1 ELSE start'
    BY DEF Command, Now
  <2> HIDE DEF N
  <2> QED
    BY <1>2, <1>3, <2>1, <2>2
<1>5. Times' = Times
  BY <1>2 DEF Times
<1>6. start' <= since' /\ since' <= 2 * N + 1 /\ since' \in start'..(2 * MaxLog + 1) /\ start' \in 0..(2 * MaxLog + 1)
  <2> HIDE DEF N
  <2> QED
    BY <1>3, <1>4
<1>7. Clock'
  <2> HIDE DEF Times
  <2> QED
    BY <1>1, <1>2, <1>5, <1>6 DEF Clock
<1>8. \A g \in Groups : DOMAIN got[g] = {} /\ GotOf(g) = {} /\ got'[g] = got[g] /\ GotOf(g)' = {}
  BY <1>1, <1>2 DEF GotOf
<1>9. AwsTypeOK'
  <2>1. TailTypeOK'
    <3>1. \A g \in Groups : (earlier[g] \union GotOf(g) \subseteq DOMAIN log[g])'
      BY <1>1, <1>2, <1>8 DEF AwsTypeOK, TailTypeOK
    <3> QED
      BY <1>1, <1>2, <1>6, <3>1 DEF AwsTypeOK, TailTypeOK
  <2>2. limit' \in Limits \union {0}
    BY DEF Command
  <2> QED
    BY <1>1, <1>2, <2>1, <2>2 DEF AwsTypeOK
<1>10. NotYet' /\ Printed' /\ Again'
  <2>1. \A g \in Groups : earlier[g] = {}
    BY <1>1 DEF Printed
  <2> QED
    BY <1>1, <1>2, <1>8, <2>1 DEF NotYet, Printed, Again
<1>11. Ended'
  BY <1>1, <1>2 DEF Ended, EndsOnlyCanceled
<1>12. ASSUME NEW g \in Groups
       PROVE  HoldsAt(g)' /\ RisingAt(g)' /\ FollowingAt(g)' /\ CoveredAt(g)'
              /\ (Querying' => AskedAt(g)')
  <2>1. HoldsAt(g) /\ phase'[g] = "setup"
    BY <1>1, <1>2 DEF AwsInv
  <2>2. HoldsAt(g)'
    BY <1>2, <2>1 DEF HoldsAt
  <2>3. RisingAt(g)'
    BY <1>8 DEF RisingAt
  <2>4. FollowingAt(g)' /\ CoveredAt(g)'
    BY <1>1, <1>2, <1>8, <2>1 DEF FollowingAt, CoveredAt, InHistory, InLive, Sends
  <2>5. AskedAt(g)'
    BY <1>1, <1>2, <1>8, <2>1 DEF AskedAt
  <2> QED
    BY <2>2, <2>3, <2>4, <2>5
<1>13. kind' = "follow" => SeenBefore'
  <2>1. ASSUME kind' = "follow", NEW g \in Groups, NEW k \in DOMAIN log'[g] PROVE ~(log'[g][k] < start')
    <3>1. log[g][k] \in Nat /\ start' = 0 /\ log' = log
      BY <1>1, <1>2, <2>1, GroupShapes
    <3> QED
      BY <3>1
  <2>2. \A g \in Groups : earlier'[g] = {}
    BY <1>1, <1>2 DEF Printed
  <2> QED
    BY <1>2, <2>1, <2>2 DEF SeenBefore
<1>14. consumer' = "setup"
  BY <1>1, <1>2
<1> QED
  BY <1>7, <1>9, <1>10, <1>11, <1>12, <1>13, <1>14 DEF AwsInv

\* All groups are asked again.
LEMMA ReopenKeeps ==
  ASSUME AwsInv, kind # "none", Reopen, UNCHANGED query
  PROVE  AwsInv'
<1> USE DEF provider, query, options
<1>1. AwsTypeOK /\ Clock /\ Printed /\ Ended
  BY DEF AwsInv
<1>2. /\ consumer' = "setup" /\ canceled' = FALSE
      /\ phase' = [g \in Groups |-> "setup"]
      /\ opened' = [g \in Groups |-> 0] /\ histEnd' = [g \in Groups |-> 0]
      /\ at' = [g \in Groups |-> 0]
      /\ back' = [g \in Groups |-> "live"]
      /\ earlier' = [g \in Groups |-> earlier[g] \union GotOf(g)]
      /\ got' = [g \in Groups |-> <<>>]
      /\ start' = since /\ skipDuplicate' = TRUE /\ last' = "nil"
      /\ UNCHANGED <<exists, log, ctxDone, drops, since, hold, kind, newest, limit, left, merged, yielded>>
  BY DEF Reopen
<1>3. \A g \in Groups : hold[g] = Empty
  <2>1. \A g \in Groups : phase[g] # "send"
    BY DEF Reopen, Gone
  <2> QED
    BY <2>1 DEF AwsInv, HoldsAt
<1>4. \A g \in Groups : DOMAIN got'[g] = {} /\ GotOf(g)' = {} /\ phase'[g] = "setup"
  BY <1>2 DEF GotOf
<1>5. ASSUME NEW g \in Groups
      PROVE  /\ Len(log[g]) \in Nat /\ Len(log[g]) <= MaxLog /\ DOMAIN log[g] = 1..Len(log[g])
             /\ \A k \in 1..Len(log[g]) : log[g][k] \in Nat
             /\ \A i, j \in 1..Len(log[g]) : i < j => log[g][i] < log[g][j]
             /\ earlier[g] \union GotOf(g) \subseteq 1..Len(log[g])
             /\ earlier'[g] = earlier[g] \union GotOf(g)
             /\ start \in Nat /\ since \in Nat /\ start <= since
  BY <1>1, <1>2, GroupShapes
<1>6. /\ MaxLog \in Nat /\ since \in 0..(2 * MaxLog + 1) /\ start \in Nat /\ since \in Nat /\ start <= since
  BY <1>1, GroupsAssumption DEF AwsTypeOK, TailTypeOK
<1>7. AwsTypeOK'
  <2>1. earlier' \in [Groups -> SUBSET (1..MaxLog)]
    <3>1. ASSUME NEW g \in Groups PROVE earlier[g] \union GotOf(g) \subseteq 1..MaxLog
      BY <1>5, <1>6
    <3> QED
      BY <1>2, <3>1
  <2>2. got' \in [Groups -> Seq(1..MaxLog)]
    BY <1>2
  <2>3. \A g \in Groups : (earlier[g] \union GotOf(g) \subseteq DOMAIN log[g])'
    BY <1>2, <1>4, <1>5
  <2>4. \A g \in Groups : opened'[g] = 0 /\ histEnd'[g] = 0 /\ at'[g] = 0 /\ hold'[g].hi = 0
    BY <1>2, <1>3 DEF Empty, Result
  <2>5. \A g \in Groups : /\ opened'[g] <= Len(log'[g]) /\ histEnd'[g] <= Len(log'[g])
                          /\ at'[g] <= Len(log'[g]) /\ hold'[g].hi <= at'[g]
    BY <1>2, <1>5, <2>4
  <2>6. /\ phase' \in [Groups -> {"setup", "poll", "history", "query", "live", "send", "done", "failed"}]
        /\ opened' \in [Groups -> 0..MaxLog] /\ histEnd' \in [Groups -> 0..MaxLog]
        /\ at' \in [Groups -> 0..MaxLog] /\ back' \in [Groups -> {"query", "live"}]
    BY <1>2, <1>6
  <2>7. start' \in 0..(2 * MaxLog + 1) /\ since' \in start'..(2 * MaxLog + 1)
    BY <1>2, <1>6
  <2>8. TailTypeOK'
    BY <1>1, <1>2, <2>1, <2>2, <2>3, <2>5, <2>6, <2>7 DEF AwsTypeOK, TailTypeOK, Errors
  <2> QED
    BY <1>1, <1>2, <2>8 DEF AwsTypeOK
<1>8. Clock'
  <2>1. Times' = Times
    BY <1>2 DEF Times
  <2> HIDE DEF Times
  <2> QED
    BY <1>1, <1>2, <1>6, <2>1 DEF Clock
<1>9. NotYet' /\ Again' /\ Ended'
  BY <1>2, <1>4 DEF NotYet, Again, Ended, EndsOnlyCanceled
<1>10. Printed'
  <2>1. ASSUME NEW g \in Groups, NEW m \in earlier'[g] PROVE log[g][m] <= since
    <3>1. m \in 1..Len(log[g]) /\ log[g][m] \in Nat
      BY <1>5
    <3>2. CASE m \in earlier[g]
      BY <1>1, <1>6, <3>1, <3>2 DEF Printed
    <3>3. CASE m \in GotOf(g)
      BY <1>1, <3>3 DEF Printed
    <3> QED
      BY <1>5, <3>2, <3>3
  <2> QED
    BY <1>2, <1>4, <2>1 DEF Printed
<1>11. ASSUME NEW g \in Groups
       PROVE  /\ HoldsAt(g)' /\ RisingAt(g)' /\ FollowingAt(g)' /\ CoveredAt(g)' /\ AskedAt(g)'
  <2>1. HoldsAt(g)'
    BY <1>2, <1>3 DEF HoldsAt, Empty, Result
  <2>2. RisingAt(g)' /\ FollowingAt(g)' /\ CoveredAt(g)' /\ AskedAt(g)'
    BY <1>2, <1>4 DEF RisingAt, FollowingAt, CoveredAt, InHistory, InLive, Sends, AskedAt
  <2> QED
    BY <2>1, <2>2
\* What is older than Since was printed, or another group has overtaken it.
<1>12. ASSUME Since, kind = "follow" PROVE SeenBefore'
  <2>1. SeenBefore /\ \A g \in Groups : CoveredAt(g)
    BY <1>12 DEF AwsInv
  <2>2. ASSUME NEW g \in Groups, NEW k \in DOMAIN log[g], Seen(g, k) PROVE Seen(g, k)'
    <3>1. CASE k \in earlier[g]
      BY <1>5, <3>1 DEF Seen
    <3>2. CASE Overtaken(g, k)
      BY <1>2, <1>5, <3>2 DEF Seen, Overtaken
    <3> QED
      BY <2>2, <3>1, <3>2 DEF Seen
  <2>3. ASSUME NEW g \in Groups, NEW m \in earlier[g] \union GotOf(g), NEW k \in DOMAIN log[g], k <= m
        PROVE  Seen(g, k)'
    <3>1. CASE m \in earlier[g]
      BY <2>1, <2>2, <2>3, <3>1 DEF SeenBefore
    <3>2. CASE m \in GotOf(g)
      <4>1. PICK i \in DOMAIN got[g] : got[g][i] = m
        BY <3>2 DEF GotOf
      <4>2. k \in 1..got[g][i] /\ DOMAIN got[g] = 1..Len(got[g]) /\ Len(got[g]) \in Nat
        BY <1>1, <1>5, <2>3, <4>1, GroupShapes
      <4>3. k \in {got[g][j] : j \in 1..i} \/ Seen(g, k)
        BY <2>1, <4>2 DEF CoveredAt
      <4>4. {got[g][j] : j \in 1..i} \subseteq GotOf(g)
        BY <4>2 DEF GotOf
      <4>5. k \in GotOf(g) => Seen(g, k)'
        BY <1>5 DEF Seen
      <4> QED
        BY <2>2, <4>3, <4>4, <4>5
    <3> QED
      BY <2>3, <3>1, <3>2
  <2>4. ASSUME NEW g \in Groups, NEW k \in DOMAIN log[g], log[g][k] < since PROVE Seen(g, k)'
    <3>1. log[g][k] \in Nat /\ k \in 1..Len(log[g]) /\ since # 0
      BY <1>5, <2>4
    <3>2. PICK h \in Groups : \E m \in earlier[h] \union GotOf(h) : log[h][m] = since
      BY <2>1, <3>1 DEF SeenBefore
    <3>3. PICK m \in earlier[h] \union GotOf(h) : log[h][m] = since
      BY <3>2
    <3>4. CASE h # g
      <4>1. m \in earlier'[h] /\ log'[h][m] > log'[g][k]
        BY <1>2, <1>5, <1>6, <2>4, <3>1, <3>3
      <4> QED
        BY <3>4, <4>1 DEF Seen, Overtaken
    <3>5. CASE h = g
      <4>1. m \in 1..Len(log[g]) /\ m \in Nat /\ k \in Nat
        BY <1>5, <3>1, <3>3, <3>5
      <4>2. ~(m < k)
        BY <1>5, <2>4, <3>1, <3>3, <3>5, <4>1
      <4>3. m # k
        BY <2>4, <3>1, <3>3, <3>5
      <4> QED
        BY <2>3, <3>1, <3>3, <3>5, <4>1, <4>2, <4>3
    <3> QED
      BY <3>4, <3>5
  <2>5. since = 0 \/ \E g \in Groups : \E m \in earlier'[g] : log[g][m] = since
    BY <1>5, <2>1 DEF SeenBefore
  <2>6. ASSUME NEW g \in Groups, NEW k \in DOMAIN log[g], \E m \in earlier'[g] : k <= m PROVE Seen(g, k)'
    BY <1>5, <2>3, <2>6
  <2> QED
    BY <1>2, <2>4, <2>5, <2>6 DEF SeenBefore
<1>13. consumer' = "setup" /\ kind' = kind
  BY <1>2
<1> QED
  BY <1>7, <1>8, <1>9, <1>10, <1>11, <1>12, <1>13 DEF AwsInv

-----------------------------------------------------------------------------
\* An entry is recorded: its time stamp is later than all others.
LEMMA RecordKeeps ==
  ASSUME AwsInv, NEW g \in Groups, Record(g), UNCHANGED query
  PROVE  AwsInv'
<1> USE DEF query, options, progress, printed, asked
<1> DEFINE N == Cardinality(Times)
           t == 2 * (N + 1)
           c == Len(log[g])
<1>1. AwsTypeOK /\ Clock
  BY DEF AwsInv
<1>2. /\ log' = [log EXCEPT ![g] = Append(@, t)]
      /\ exists' = [exists EXCEPT ![g] = TRUE]
      /\ UNCHANGED <<ctxDone, canceled, phase, opened, histEnd, at, hold, back, got, since, skipDuplicate,
                     drops, earlier, start, consumer, last, kind, newest, limit, left, merged, yielded>>
      /\ N < MaxLog
  BY DEF Record
<1>3. N \in Nat /\ t \in Nat /\ t > 2 * N + 1 /\ MaxLog \in Nat /\ t \in 1..(2 * MaxLog) /\ N + 1 <= MaxLog
  <2>1. N \in Nat
    BY <1>1, FS_CardinalityType DEF Clock
  <2> HIDE DEF N
  <2> QED
    BY <1>2, <2>1, GroupsAssumption
<1>4. \A h \in Groups : /\ Len(log[h]) \in Nat /\ Len(log[h]) <= MaxLog /\ DOMAIN log[h] = 1..Len(log[h])
                        /\ \A k \in DOMAIN log[h] : log[h][k] \in Nat /\ k \in Nat
                        /\ log[h] \in Seq(1..(2 * MaxLog))
  <2>1. ASSUME NEW h \in Groups
        PROVE  /\ Len(log[h]) \in Nat /\ Len(log[h]) <= MaxLog /\ DOMAIN log[h] = 1..Len(log[h])
               /\ \A k \in 1..Len(log[h]) : log[h][k] \in Nat
    BY <1>1, GroupShapes
  <2>2. \A h \in Groups : \A k \in 1..Len(log[h]) : k \in Nat
    OBVIOUS
  <2>3. \A h \in Groups : log[h] \in Seq(1..(2 * MaxLog))
    BY <1>1 DEF AwsTypeOK, TailTypeOK
  <2> QED
    BY <2>1, <2>2, <2>3
<1>5. /\ \A h \in Groups \ {g} : log'[h] = log[h]
      /\ log'[g] = Append(log[g], t)
  BY <1>1, <1>2 DEF AwsTypeOK, TailTypeOK
<1> HIDE DEF N, t, c
<1>6. /\ Len(log'[g]) = c + 1 /\ log'[g][c + 1] = t /\ \A k \in 1..c : log'[g][k] = log[g][k]
      /\ log'[g] \in Seq(1..(2 * MaxLog))
  BY <1>3, <1>4, <1>5, AppendProperties DEF c
<1>7. DOMAIN log'[g] = 1..(c + 1) /\ DOMAIN log[g] = 1..c /\ c \in Nat
  BY <1>4, <1>6, LenProperties DEF c
\* The entries there were are still there.
<1>8. ASSUME NEW h \in Groups, NEW k \in DOMAIN log[h]
      PROVE  k \in DOMAIN log'[h] /\ log'[h][k] = log[h][k] /\ log[h][k] <= 2 * N /\ log[h][k] < t
             /\ log[h][k] \in Nat
  <2>1. log[h][k] <= 2 * N /\ log[h][k] \in Nat
    BY <1>1, <1>4 DEF Clock, N
  <2>2. log[h][k] < t
    BY <1>3, <2>1
  <2>3. CASE h = g
    <3>1. k \in 1..c /\ k \in 1..(c + 1)
      BY <1>7, <2>3
    <3>2. k \in DOMAIN log'[g] /\ log'[g][k] = log[g][k]
      BY <1>6, <1>7, <3>1
    <3> QED
      BY <2>1, <2>2, <2>3, <3>2
  <2>4. CASE h # g
    BY <1>5, <2>1, <2>2, <2>4
  <2> QED
    BY <2>3, <2>4
<1>9. ASSUME NEW h \in Groups, NEW k \in DOMAIN log'[h], k \notin DOMAIN log[h]
      PROVE  h = g /\ k = c + 1 /\ log'[h][k] = t
  BY <1>5, <1>6, <1>7, <1>9
<1>10. Times' = Times \union {t}
  <2>1. ASSUME NEW h \in Groups, NEW k \in DOMAIN log'[h] PROVE log'[h][k] \in Times \union {t}
    <3>1. CASE k \in DOMAIN log[h]
      BY <1>8, <3>1 DEF Times
    <3>2. CASE k \notin DOMAIN log[h]
      BY <1>9, <3>2
    <3> QED
      BY <3>1, <3>2
  <2>2. ASSUME NEW h \in Groups, NEW k \in DOMAIN log[h] PROVE log[h][k] \in Times'
    BY <1>8 DEF Times
  <2>3. t \in Times'
    <3>1. c + 1 \in DOMAIN log'[g]
      BY <1>7
    <3> QED
      BY <1>6, <3>1 DEF Times
  <2>4. Times' \subseteq Times \union {t}
    BY <2>1 DEF Times
  <2>5. Times \subseteq Times'
    BY <2>2 DEF Times
  <2> QED
    BY <2>3, <2>4, <2>5
<1>11. t \notin Times
  BY <1>3, <1>8 DEF Times
<1>12. IsFiniteSet(Times') /\ Cardinality(Times') = N + 1
  <2>1. IsFiniteSet(Times)
    BY <1>1 DEF Clock
  <2> QED
    BY <1>10, <1>11, <2>1, FS_AddElement DEF N
<1>13. Clock'
  <2>1. 2 * (c + 1) <= t
    <3>1. c <= N
      <4>1. CASE c = 0
        BY <1>3, <4>1
      <4>2. CASE c # 0
        <5>1. c \in DOMAIN log[g]
          BY <1>7, <4>2
        <5>2. 2 * c <= log[g][c] /\ log[g][c] <= 2 * N
          BY <1>1, <5>1 DEF Clock, N
        <5> QED
          BY <1>3, <1>7, <1>8, <5>1, <5>2
      <4> QED
        BY <4>1, <4>2
    <3> QED
      BY <1>3, <1>7, <3>1 DEF t
  <2>2. ASSUME NEW h \in Groups, NEW k \in DOMAIN log'[h]
        PROVE  2 * k <= log'[h][k] /\ log'[h][k] <= 2 * (N + 1)
    <3>1. CASE k \in DOMAIN log[h]
      <4>1. 2 * k <= log[h][k]
        BY <1>1, <3>1 DEF Clock
      <4> QED
        BY <1>3, <1>8, <3>1, <4>1
    <3>2. CASE k \notin DOMAIN log[h]
      BY <1>3, <1>9, <2>1, <3>2 DEF t
    <3> QED
      BY <3>1, <3>2
  <2>3. ASSUME NEW h \in Groups, NEW k \in DOMAIN log'[h], NEW j \in Groups, NEW m \in DOMAIN log'[j],
               log'[h][k] = log'[j][m]
        PROVE  h = j /\ k = m
    <3>1. CASE k \in DOMAIN log[h] /\ m \in DOMAIN log[j]
      <4>1. log[h][k] = log[j][m]
        BY <1>8, <2>3, <3>1
      <4> QED
        BY <1>1, <3>1, <4>1 DEF Clock
    <3>2. CASE k \in DOMAIN log[h] /\ m \notin DOMAIN log[j]
      BY <1>3, <1>8, <1>9, <2>3, <3>2
    <3>3. CASE k \notin DOMAIN log[h] /\ m \in DOMAIN log[j]
      BY <1>3, <1>8, <1>9, <2>3, <3>3
    <3>4. CASE k \notin DOMAIN log[h] /\ m \notin DOMAIN log[j]
      BY <1>9, <3>4
    <3> QED
      BY <3>1, <3>2, <3>3, <3>4
  <2>4. ASSUME NEW h \in Groups, NEW i \in DOMAIN log'[h], NEW j \in DOMAIN log'[h], i < j
        PROVE  log'[h][i] < log'[h][j]
    <3>1. CASE j \in DOMAIN log[h]
      <4>1. i \in DOMAIN log[h]
        BY <1>5, <1>7, <2>4, <3>1
      <4> QED
        BY <1>1, <1>8, <2>4, <3>1, <4>1 DEF Clock
    <3>2. CASE j \notin DOMAIN log[h]
      <4>1. i \in DOMAIN log[h]
        BY <1>7, <1>9, <2>4, <3>2
      <4> QED
        BY <1>8, <1>9, <3>2, <4>1
    <3> QED
      BY <3>1, <3>2
  <2>5. start' <= since' /\ since' <= 2 * (N + 1) + 1
    <3>1. start <= since /\ since <= 2 * N + 1 /\ since \in Nat
      BY <1>1, GroupShapes DEF Clock, N
    <3> QED
      BY <1>2, <1>3, <3>1
  <2> HIDE DEF Times
  <2> QED
    BY <1>3, <1>12, <2>2, <2>3, <2>4, <2>5 DEF Clock
<1>14. /\ start \in Nat /\ start < t
       /\ \A h \in Groups : /\ earlier[h] \subseteq DOMAIN log[h] /\ GotOf(h) \subseteq DOMAIN log[h]
                            /\ at[h] \in Nat /\ at[h] <= Len(log[h])
                            /\ hold[h].hi <= at[h] /\ hold[h].lo \in Nat /\ hold[h].hi \in Nat
                            /\ GotOf(h)' = GotOf(h)
  <2>1. start \in Nat /\ start < t
    <3>1. start <= since /\ since <= 2 * N + 1 /\ since \in Nat /\ start \in Nat
      BY <1>1, GroupShapes DEF Clock, N
    <3> QED
      BY <1>3, <3>1
  <2>2. \A h \in Groups : /\ earlier[h] \subseteq DOMAIN log[h] /\ GotOf(h) \subseteq DOMAIN log[h]
                          /\ at[h] \in Nat /\ at[h] <= Len(log[h])
                          /\ hold[h].hi <= at[h] /\ hold[h].lo \in Nat /\ hold[h].hi \in Nat
    BY <1>1, GroupShapes
  <2>3. \A h \in Groups : GotOf(h)' = GotOf(h)
    BY <1>2 DEF GotOf
  <2> QED
    BY <2>1, <2>2, <2>3
<1>15. AwsTypeOK'
  <2>1. ASSUME NEW h \in Groups
        PROVE  /\ opened'[h] <= Len(log'[h]) /\ histEnd'[h] <= Len(log'[h])
               /\ at'[h] <= Len(log'[h]) /\ hold'[h].hi <= at'[h]
               /\ earlier'[h] \union GotOf(h)' \subseteq DOMAIN log'[h]
    <3>1. Len(log[h]) <= Len(log'[h])
      BY <1>4, <1>5, <1>6 DEF c
    <3>2. /\ opened[h] \in Nat /\ histEnd[h] \in Nat /\ opened[h] <= Len(log[h]) /\ histEnd[h] <= Len(log[h])
      BY <1>1, GroupShapes
    <3>3. Len(log'[h]) \in Nat
      BY <1>4, <1>5, <1>6, <1>7
    <3> QED
      BY <1>2, <1>4, <1>8, <1>14, <3>1, <3>2, <3>3
  <2>2. log' \in [Groups -> Seq(1..(2 * MaxLog))] /\ exists' \in [Groups -> BOOLEAN]
    BY <1>1, <1>2, <1>5, <1>6 DEF AwsTypeOK, TailTypeOK
  <2>3. TailTypeOK'
    BY <1>1, <1>2, <2>1, <2>2 DEF AwsTypeOK, TailTypeOK
  <2> QED
    BY <1>1, <1>2, <2>3 DEF AwsTypeOK, Querying
<1>16. ASSUME NEW h \in Groups, NEW k \in DOMAIN log[h], Seen(h, k) PROVE Seen(h, k)'
  <2>1. CASE k \in earlier[h]
    BY <1>2, <2>1 DEF Seen
  <2>2. CASE Overtaken(h, k)
    <3>1. PICK j \in Groups \ {h} : \E m \in earlier[j] : log[j][m] > log[h][k]
      BY <2>2 DEF Overtaken
    <3>2. PICK m \in earlier[j] : log[j][m] > log[h][k]
      BY <3>1
    <3>3. m \in earlier'[j] /\ log'[j][m] > log'[h][k]
      BY <1>2, <1>8, <1>14, <3>2
    <3> QED
      BY <3>3 DEF Seen, Overtaken
  <2> QED
    BY <1>16, <2>1, <2>2 DEF Seen
<1>17. NotYet' /\ Ended'
  BY <1>2 DEF AwsInv, NotYet, Ended, EndsOnlyCanceled
<1>18. Printed'
  <2>1. Printed
    BY DEF AwsInv
  <2>2. \A h \in Groups : \A m \in earlier'[h] : log'[h][m] <= start'
    BY <1>2, <1>8, <1>14, <2>1 DEF Printed
  <2>3. \A h \in Groups : \A m \in GotOf(h)' : log'[h][m] <= since'
    BY <1>2, <1>8, <1>14, <2>1 DEF Printed
  <2>4. skipDuplicate' => since' = start' \/ \E h \in Groups : \E m \in GotOf(h)' : log'[h][m] = since'
    BY <1>2, <1>8, <1>14, <2>1 DEF Printed
  <2> QED
    BY <1>2, <2>1, <2>2, <2>3, <2>4 DEF Printed
<1>19. Again'
  <2>1. ASSUME NEW h \in Groups, NEW m \in GotOf(h) \cap earlier[h]
        PROVE  log'[h][m] = start' /\ \E j \in Groups \ {h} : \E k \in GotOf(j)' : log'[j][k] > start'
    <3>1. log[h][m] = start /\ \E j \in Groups \ {h} : \E k \in GotOf(j) : log[j][k] > start
      BY DEF AwsInv, Again
    <3> QED
      BY <1>2, <1>8, <1>14, <3>1
  <2> QED
    BY <1>2, <1>14, <2>1 DEF Again
<1>20. ASSUME NEW h \in Groups PROVE HoldsAt(h)' /\ RisingAt(h)'
  BY <1>2 DEF AwsInv, HoldsAt, RisingAt
<1>21. ASSUME kind = "follow", NEW h \in Groups PROVE FollowingAt(h)'
  <2>1. FollowingAt(h)
    BY <1>21 DEF AwsInv
  <2>2. /\ InHistory(h)' <=> InHistory(h)
        /\ InLive(h)' <=> InLive(h)
        /\ HeadOf(h)' = HeadOf(h)
    BY <1>2 DEF InHistory, InLive, Sends, HeadOf
  <2>3. InHistory(h) => \A k \in DOMAIN log'[h] : k >= HeadOf(h) => log'[h][k] >= start
    <3>1. ASSUME InHistory(h), NEW k \in DOMAIN log'[h], k >= HeadOf(h) PROVE log'[h][k] >= start
      <4>1. CASE k \in DOMAIN log[h]
        BY <1>8, <2>1, <3>1, <4>1 DEF FollowingAt
      <4>2. CASE k \notin DOMAIN log[h]
        BY <1>3, <1>9, <1>14, <4>2
      <4> QED
        BY <4>1, <4>2
    <3> QED
      BY <3>1
  <2>4. phase[h] = "history" \/ InHistory(h) \/ InLive(h) =>
          \A k \in DOMAIN log'[h] : k > opened[h] => log'[h][k] > start
    <3>1. ASSUME phase[h] = "history" \/ InHistory(h) \/ InLive(h), NEW k \in DOMAIN log'[h], k > opened[h]
          PROVE  log'[h][k] > start
      <4>1. CASE k \in DOMAIN log[h]
        BY <1>8, <2>1, <3>1, <4>1 DEF FollowingAt
      <4>2. CASE k \notin DOMAIN log[h]
        BY <1>3, <1>9, <1>14, <4>2
      <4> QED
        BY <4>1, <4>2
    <3> QED
      BY <3>1
  <2> QED
    BY <1>2, <1>14, <2>1, <2>2, <2>3, <2>4 DEF FollowingAt
<1>22. ASSUME Since, kind = "follow" PROVE SeenBefore' /\ \A h \in Groups : CoveredAt(h)'
  <2>1. SeenBefore /\ \A h \in Groups : CoveredAt(h)
    BY <1>22 DEF AwsInv
  <2>2. since' = 0 \/ \E h \in Groups : \E m \in earlier'[h] \union GotOf(h)' : log'[h][m] = since'
    BY <1>2, <1>8, <1>14, <2>1 DEF SeenBefore
  <2>3. ASSUME NEW h \in Groups, NEW k \in DOMAIN log'[h],
               log'[h][k] < start \/ \E m \in earlier[h] : k <= m
        PROVE  Seen(h, k)'
    <3>1. CASE k \in DOMAIN log[h]
      BY <1>8, <1>16, <2>1, <2>3, <3>1 DEF SeenBefore
    <3>2. CASE k \notin DOMAIN log[h]
      <4>1. h = g /\ k = c + 1 /\ log'[h][k] = t
        BY <1>9, <3>2
      <4>2. ~(log'[h][k] < start)
        BY <1>3, <1>14, <4>1
      <4>3. \A m \in earlier[h] : m \in 1..c
        BY <1>7, <1>14, <4>1
      <4> QED
        BY <1>7, <2>3, <4>1, <4>2, <4>3
    <3> QED
      BY <3>1, <3>2
  <2>4. SeenBefore'
    BY <1>2, <2>2, <2>3 DEF SeenBefore
  <2>5. ASSUME NEW h \in Groups PROVE CoveredAt(h)'
    <3>1. /\ InHistory(h)' <=> InHistory(h)
          /\ InLive(h)' <=> InLive(h)
          /\ Sends(h, "query")' <=> Sends(h, "query")
          /\ Sends(h, "live")' <=> Sends(h, "live")
          /\ HeadOf(h)' = HeadOf(h)
      BY <1>2 DEF InHistory, InLive, Sends, HeadOf
    <3>2. HeadOf(h) \in Nat /\ HeadOf(h) <= Len(log[h]) + 1
      <4>1. HoldsAt(h)
        BY DEF AwsInv
      <4> QED
        BY <1>4, <1>14, <4>1 DEF HeadOf, HoldsAt
    <3>3. ASSUME InHistory(h) \/ InLive(h), NEW k \in 1..(HeadOf(h) - 1) PROVE k \in GotOf(h) \/ Seen(h, k)'
      <4>1. k \in DOMAIN log[h]
        BY <1>4, <3>2
      <4> QED
        BY <1>16, <2>1, <3>3, <4>1 DEF CoveredAt
    <3>4. ASSUME NEW i \in DOMAIN got[h], NEW k \in 1..got[h][i]
          PROVE  k \in {got[h][j] : j \in 1..i} \/ Seen(h, k)'
      <4>1. got[h][i] \in DOMAIN log[h]
        BY <1>14 DEF GotOf
      <4>2. k \in DOMAIN log[h]
        BY <1>4, <4>1
      <4> QED
        BY <1>16, <2>1, <4>2 DEF CoveredAt
    <3> QED
      BY <1>2, <1>14, <2>1, <3>1, <3>3, <3>4 DEF CoveredAt
  <2> QED
    BY <2>4, <2>5
<1>23. ASSUME Querying, NEW h \in Groups PROVE AskedAt(h)'
  <2>1. AskedAt(h)
    BY <1>23 DEF AwsInv
  <2>2. phase[h] # "setup" => \A k \in DOMAIN log'[h] : k > merged[h] => log'[h][k] >= start
    <3>1. ASSUME phase[h] # "setup", NEW k \in DOMAIN log'[h], k > merged[h] PROVE log'[h][k] >= start
      <4>1. CASE k \in DOMAIN log[h]
        BY <1>8, <2>1, <3>1, <4>1 DEF AskedAt
      <4>2. CASE k \notin DOMAIN log[h]
        BY <1>3, <1>9, <1>14, <4>2
      <4> QED
        BY <4>1, <4>2
    <3> QED
      BY <3>1
  <2> QED
    BY <1>2, <1>14, <2>1, <2>2 DEF AskedAt
<1>24. Querying /\ consumer # "setup" => (yielded <= Cardinality(PastTimes))'
  <2>1. ASSUME Querying, consumer # "setup" PROVE PastTimes' = PastTimes
    <3>1. ASSUME NEW h \in Groups, NEW k \in 1..merged[h] PROVE log'[h][k] = log[h][k]
      <4>1. merged[h] <= at[h] /\ merged[h] \in Nat
        BY <1>1, <1>3, <2>1 DEF AwsTypeOK
      <4>2. k \in DOMAIN log[h]
        BY <1>4, <1>14, <4>1
      <4> QED
        BY <1>8, <4>2
    <3>2. \A x : x \in PastTimes <=> \E h \in Groups : \E k \in 1..merged[h] : x = log[h][k]
      BY DEF PastTimes
    <3>3. \A x : x \in PastTimes' <=> \E h \in Groups : \E k \in 1..merged'[h] : x = log'[h][k]
      BY DEF PastTimes
    <3>4. merged' = merged
      BY <1>2
    <3>5. \A x : x \in PastTimes' <=> x \in PastTimes
      BY <3>1, <3>2, <3>3, <3>4
    <3> QED
      BY <3>5
  <2> HIDE DEF PastTimes
  <2> QED
    BY <1>2, <2>1 DEF AwsInv
<1> HIDE DEF PastTimes
<1>25. kind' = kind /\ (Querying' <=> Querying) /\ consumer' = consumer
  BY <1>2 DEF Querying
<1> QED
  BY <1>13, <1>15, <1>17, <1>18, <1>19, <1>20, <1>21, <1>22, <1>23, <1>24, <1>25 DEF AwsInv

-----------------------------------------------------------------------------
\* The entries lo..hi of g come to the consumer, the first ones that have not yet.
\* What both ways of reading the log have in common.
Batch(g, lo, hi) ==
  /\ lo \in Nat /\ hi \in Nat /\ lo >= 1 /\ lo <= hi + 1 /\ hi <= at[g]
  /\ Show(g, lo, hi)
  /\ \A m \in lo..hi : m \in earlier[g] =>
       log[g][m] >= start /\ \A k \in GotOf(g) : log[g][k] = since => k < m

LEMMA BatchFacts ==
  ASSUME AwsInv, NEW g \in Groups, NEW lo, NEW hi, Batch(g, lo, hi),
         UNCHANGED <<log, earlier, start, skipDuplicate>>
  PROVE  /\ Added(got[g], got'[g], lo, hi, {k \in lo..hi : IsDuplicate(g, k)})
         /\ got' = [got EXCEPT ![g] = got'[g]]
         /\ \A h \in Groups \ {g} : got'[h] = got[h] /\ GotOf(h)' = GotOf(h)
         /\ GotOf(g) \subseteq GotOf(g)'
         /\ \A m \in GotOf(g)' \ GotOf(g) : m \in lo..hi /\ ~IsDuplicate(g, m)
         /\ \A k \in lo..hi : IsDuplicate(g, k) \/ k \in GotOf(g)'
         /\ since' \in Nat /\ since <= since'
         /\ since' = since \/ (hi \in lo..hi /\ since' = log[g][hi] /\ hi \in GotOf(g)')
         /\ \A k \in lo..hi : log[g][k] <= since'
         /\ \A h \in Groups : (earlier[h] \union GotOf(h) \subseteq DOMAIN log[h])'
         /\ got' \in [Groups -> Seq(1..MaxLog)] /\ since' <= 2 * Cardinality(Times) + 1
         /\ Printed' /\ Again'
<1>1. AwsTypeOK /\ Clock /\ Printed /\ Again
  BY DEF AwsInv
<1>2. /\ Len(log[g]) \in Nat /\ DOMAIN log[g] = 1..Len(log[g]) /\ Len(log[g]) <= MaxLog
      /\ \A k \in 1..Len(log[g]) : log[g][k] \in Nat
      /\ \A i, j \in 1..Len(log[g]) : i < j => log[g][i] < log[g][j]
      /\ got[g] \in Seq(Nat) /\ Len(got[g]) \in Nat /\ DOMAIN got[g] = 1..Len(got[g])
      /\ at[g] \in Nat /\ at[g] <= Len(log[g])
      /\ start \in Nat /\ since \in Nat /\ start <= since
  BY <1>1, GroupShapes
<1>3. /\ lo \in Nat /\ hi \in Nat /\ lo >= 1 /\ lo <= hi + 1 /\ hi <= Len(log[g]) /\ Show(g, lo, hi)
      /\ hi <= at[g]
  BY <1>2 DEF Batch
<1>4. /\ got' = [got EXCEPT ![g] = got'[g]]
      /\ Added(got[g], got'[g], lo, hi, {k \in lo..hi : IsDuplicate(g, k)})
  BY <1>1, <1>3, ShowFacts
<1>5. \A h \in Groups \ {g} : got'[h] = got[h] /\ GotOf(h)' = GotOf(h)
  <2>1. got \in [Groups -> Seq(1..MaxLog)]
    BY <1>1 DEF AwsTypeOK, TailTypeOK
  <2> QED
    BY <1>4, <2>1 DEF GotOf
<1>6. /\ got'[g] \in Seq(Nat) /\ Len(got'[g]) \in Nat /\ Len(got[g]) <= Len(got'[g])
      /\ \A i \in 1..Len(got[g]) : got'[g][i] = got[g][i]
      /\ \A i \in (Len(got[g]) + 1)..Len(got'[g]) : got'[g][i] \in lo..hi /\ ~IsDuplicate(g, got'[g][i])
      /\ \A k \in lo..hi : IsDuplicate(g, k) \/ \E i \in (Len(got[g]) + 1)..Len(got'[g]) : got'[g][i] = k
  BY <1>4 DEF Added
<1>7. DOMAIN got'[g] = 1..Len(got'[g])
  BY <1>6, LenProperties
<1>8. /\ GotOf(g) \subseteq GotOf(g)'
      /\ \A m \in GotOf(g)' \ GotOf(g) : m \in lo..hi /\ ~IsDuplicate(g, m)
      /\ \A k \in lo..hi : IsDuplicate(g, k) \/ k \in GotOf(g)'
  <2>1. ASSUME NEW i \in 1..Len(got'[g])
        PROVE  \/ i \in 1..Len(got[g]) /\ got'[g][i] = got[g][i]
               \/ i \in (Len(got[g]) + 1)..Len(got'[g])
    BY <1>2, <1>6
  <2>2. \A i \in 1..Len(got[g]) : i \in 1..Len(got'[g])
    BY <1>2, <1>6
  <2>3. \A i \in (Len(got[g]) + 1)..Len(got'[g]) : i \in 1..Len(got'[g])
    BY <1>2, <1>6
  <2>4. GotOf(g) = {got[g][i] : i \in 1..Len(got[g])} /\ GotOf(g)' = {got'[g][i] : i \in 1..Len(got'[g])}
    BY <1>2, <1>7 DEF GotOf
  <2>5. GotOf(g) \subseteq GotOf(g)'
    BY <1>6, <2>2, <2>4
  <2>6. \A m \in GotOf(g)' \ GotOf(g) : m \in lo..hi /\ ~IsDuplicate(g, m)
    BY <1>6, <2>1, <2>4
  <2>7. \A k \in lo..hi : IsDuplicate(g, k) \/ k \in GotOf(g)'
    BY <1>6, <2>3, <2>4
  <2> QED
    BY <2>5, <2>6, <2>7
<1>9. \A k \in lo..hi : k \in 1..Len(log[g]) /\ log[g][k] \in Nat /\ (k = hi \/ log[g][k] < log[g][hi])
  <2>1. ASSUME NEW k \in lo..hi PROVE k \in 1..Len(log[g]) /\ hi \in 1..Len(log[g]) /\ (k = hi \/ k < hi)
    BY <1>2, <1>3
  <2> QED
    BY <1>2, <2>1
<1>10. since' = IF lo <= hi /\ log[g][hi] > since THEN log[g][hi] ELSE since
  BY <1>3 DEF Show
<1>11. hi \in lo..hi \/ ~(lo <= hi)
  BY <1>3
<1>12. /\ since' \in Nat /\ since <= since'
       /\ \A k \in lo..hi : log[g][k] <= since'
  <2>1. CASE lo <= hi /\ log[g][hi] > since
    <3>1. since' = log[g][hi] /\ log[g][hi] \in Nat
      BY <1>9, <1>10, <1>11, <2>1
    <3>2. \A k \in lo..hi : log[g][k] <= log[g][hi]
      BY <1>9, <3>1
    <3> QED
      BY <1>2, <2>1, <3>1, <3>2
  <2>2. CASE ~(lo <= hi)
    <3>1. \A k \in lo..hi : FALSE
      BY <1>3, <2>2
    <3>2. since' = since
      BY <1>10, <2>2
    <3> QED
      BY <1>2, <3>1, <3>2
  <2>3. CASE lo <= hi /\ ~(log[g][hi] > since)
    <3>1. since' = since /\ log[g][hi] \in Nat /\ log[g][hi] <= since
      BY <1>2, <1>9, <1>10, <1>11, <2>3
    <3>2. \A k \in lo..hi : log[g][k] <= since
      BY <1>2, <1>9, <3>1
    <3> QED
      BY <1>2, <3>1, <3>2
  <2> QED
    BY <2>1, <2>2, <2>3
<1>13. since' = since \/ (hi \in lo..hi /\ since' = log[g][hi] /\ hi \in GotOf(g)')
  <2>1. ASSUME lo <= hi, log[g][hi] > since PROVE hi \in GotOf(g)'
    <3>1. hi \in lo..hi /\ log[g][hi] \in Nat
      BY <1>9, <1>11, <2>1
    <3>2. ~IsDuplicate(g, hi)
      BY <1>2, <2>1, <3>1 DEF IsDuplicate
    <3> QED
      BY <1>8, <3>1, <3>2
  <2> QED
    BY <1>10, <1>11, <2>1
<1>14. \A h \in Groups : (earlier[h] \union GotOf(h) \subseteq DOMAIN log[h])'
  <2>1. \A h \in Groups : earlier[h] \union GotOf(h) \subseteq DOMAIN log[h]
    BY <1>1 DEF AwsTypeOK, TailTypeOK
  <2>2. \A m \in GotOf(g)' : m \in DOMAIN log[g]
    BY <1>2, <1>8, <1>9, <2>1
  <2> QED
    BY <1>5, <2>1, <2>2
<1>15. got' \in [Groups -> Seq(1..MaxLog)]
  <2>1. \A i \in 1..Len(got'[g]) : got'[g][i] \in 1..MaxLog
    <3>1. \A i \in 1..Len(got'[g]) : got'[g][i] \in 1..Len(log[g])
      BY <1>2, <1>7, <1>14 DEF GotOf
    <3>2. \A x \in 1..Len(log[g]) : x \in 1..MaxLog
      BY <1>2, GroupsAssumption
    <3> QED
      BY <3>1, <3>2
  <2>2. got'[g] \in Seq(1..MaxLog)
    <3>1. got'[g] \in [1..Len(got'[g]) -> Nat]
      BY <1>6, LenProperties
    <3>2. got'[g] \in [1..Len(got'[g]) -> 1..MaxLog]
      BY <2>1, <3>1
    <3>3. \E n \in Nat : got'[g] \in [1..n -> 1..MaxLog]
      BY <1>6, <3>2
    <3>4. Seq(1..MaxLog) = UNION {[1..n -> 1..MaxLog] : n \in Nat}
      BY SeqDef
    <3> QED
      BY <3>3, <3>4
  <2>3. got \in [Groups -> Seq(1..MaxLog)]
    BY <1>1 DEF AwsTypeOK, TailTypeOK
  <2> QED
    BY <1>4, <2>2, <2>3
<1>16. since' <= 2 * Cardinality(Times) + 1
  <2>1. since <= 2 * Cardinality(Times) + 1 /\ Cardinality(Times) \in Nat
    BY <1>1, FS_CardinalityType DEF Clock
  <2>2. ASSUME hi \in lo..hi PROVE log[g][hi] <= 2 * Cardinality(Times)
    BY <1>1, <1>2, <1>9, <2>2 DEF Clock
  <2> QED
    BY <1>9, <1>13, <2>1, <2>2
<1>17. Printed'
  <2>1. \A h \in Groups : \A m \in earlier[h] : log[h][m] <= start
    BY <1>1 DEF Printed
  <2>2. ASSUME NEW h \in Groups, NEW m \in GotOf(h)' PROVE log[h][m] <= since'
    <3>1. CASE m \in GotOf(h)
      <4>1. log[h][m] <= since /\ log[h][m] \in Nat
        BY <1>1, <3>1, GroupShapes DEF Printed
      <4> QED
        BY <1>2, <1>12, <4>1
    <3>2. CASE m \notin GotOf(h)
      BY <1>5, <1>8, <1>12, <2>2, <3>2
    <3> QED
      BY <3>1, <3>2
  <2>3. skipDuplicate => since' = start \/ \E h \in Groups : \E m \in GotOf(h)' : log[h][m] = since'
    <3>1. CASE since' = since
      BY <1>1, <1>5, <1>8, <3>1 DEF Printed
    <3>2. CASE hi \in GotOf(g)' /\ since' = log[g][hi]
      BY <3>2
    <3> QED
      BY <1>13, <3>1, <3>2
  <2>4. ~skipDuplicate => \A h \in Groups : earlier[h] = {}
    BY <1>1 DEF Printed
  <2> QED
    BY <2>1, <2>2, <2>3, <2>4 DEF Printed
<1>18. Again'
  <2>1. ASSUME NEW h \in Groups, NEW m \in GotOf(h) \cap earlier[h]
        PROVE  log[h][m] = start /\ \E j \in Groups \ {h} : \E k \in GotOf(j)' : log[j][k] > start
    <3>1. PICK j \in Groups \ {h} : \E k \in GotOf(j) : log[j][k] > start
      BY <1>1 DEF Again
    <3>2. GotOf(j) \subseteq GotOf(j)'
      BY <1>5, <1>8
    <3> QED
      BY <1>1, <3>1, <3>2 DEF Again
  <2>2. ASSUME NEW m \in GotOf(g)' \cap earlier[g], m \notin GotOf(g)
        PROVE  log[g][m] = start /\ \E j \in Groups \ {g} : \E k \in GotOf(j)' : log[j][k] > start
    <3>1. m \in lo..hi /\ ~IsDuplicate(g, m) /\ log[g][m] \in Nat
      BY <1>8, <1>9, <2>2
    <3>2. log[g][m] >= start /\ log[g][m] <= start /\ skipDuplicate
      BY <1>1, <2>2, <3>1 DEF Printed, Batch
    <3>3. log[g][m] = start /\ since # start /\ since > start
      BY <1>2, <3>1, <3>2 DEF IsDuplicate
    <3>4. PICK j \in Groups : \E k \in GotOf(j) : log[j][k] = since
      BY <1>1, <3>2, <3>3 DEF Printed
    <3>5. PICK k \in GotOf(j) : log[j][k] = since
      BY <3>4
    <3>6. j # g
      <4>1. ASSUME j = g PROVE FALSE
        <5>1. k < m
          BY <2>2, <3>1, <3>5, <4>1 DEF Batch
        <5>2. k \in 1..Len(log[g]) /\ m \in 1..Len(log[g])
          BY <1>1, <1>9, <3>1, <3>5, <4>1, GroupShapes
        <5>3. log[g][k] < log[g][m]
          BY <1>2, <5>1, <5>2
        <5> QED
          BY <1>2, <3>3, <3>5, <4>1, <5>3
      <4> QED
        BY <4>1
    <3>7. k \in GotOf(j)'
      BY <1>5, <3>5, <3>6
    <3> QED
      BY <3>3, <3>5, <3>6, <3>7
  <2>3. ASSUME NEW h \in Groups, NEW m \in GotOf(h)' \cap earlier[h]
        PROVE  log[h][m] = start /\ \E j \in Groups \ {h} : \E k \in GotOf(j)' : log[j][k] > start
    <3>1. CASE m \in GotOf(h)
      BY <2>1, <2>3, <3>1
    <3>2. CASE m \notin GotOf(h)
      <4>1. h = g
        BY <1>5, <2>3, <3>2
      <4> QED
        BY <2>2, <2>3, <3>2, <4>1
    <3> QED
      BY <3>1, <3>2
  <2> QED
    BY <2>3 DEF Again
<1> QED
  BY <1>4, <1>5, <1>8, <1>12, <1>13, <1>14, <1>15, <1>16, <1>17, <1>18

LEMMA BatchRises ==
  ASSUME AwsInv, NEW g \in Groups, NEW lo, NEW hi, Batch(g, lo, hi),
         UNCHANGED <<log, earlier, start, skipDuplicate, kind, histEnd, opened>>,
         \A m \in GotOf(g) : \A k \in lo..hi :
           m < k \/ (kind = "follow" /\ m <= histEnd[g] /\ opened[g] < k)
  PROVE  RisingAt(g)'
<1>1. /\ got[g] \in Seq(Nat) /\ Len(got[g]) \in Nat /\ DOMAIN got[g] = 1..Len(got[g]) /\ RisingAt(g)
  BY GroupShapes DEF AwsInv
<1>2. Added(got[g], got'[g], lo, hi, {k \in lo..hi : IsDuplicate(g, k)})
  BY BatchFacts
<1>3. /\ got'[g] \in Seq(Nat) /\ Len(got'[g]) \in Nat /\ Len(got[g]) <= Len(got'[g])
      /\ \A i \in 1..Len(got[g]) : got'[g][i] = got[g][i]
      /\ \A i \in (Len(got[g]) + 1)..Len(got'[g]) : got'[g][i] \in lo..hi
      /\ \A i, j \in (Len(got[g]) + 1)..Len(got'[g]) : i < j => got'[g][i] < got'[g][j]
  BY <1>2 DEF Added
<1>4. DOMAIN got'[g] = 1..Len(got'[g])
  BY <1>3, LenProperties
<1>5. ASSUME NEW i \in 1..Len(got'[g]), NEW j \in 1..Len(got'[g]), i < j
      PROVE  \/ got'[g][i] < got'[g][j]
             \/ kind = "follow" /\ got'[g][i] <= histEnd[g] /\ opened[g] < got'[g][j]
  <2>1. CASE j <= Len(got[g])
    <3>1. i \in 1..Len(got[g]) /\ j \in 1..Len(got[g])
      BY <1>1, <1>5, <2>1
    <3> QED
      BY <1>1, <1>3, <1>5, <3>1 DEF RisingAt
  <2>2. CASE i <= Len(got[g]) /\ ~(j <= Len(got[g]))
    <3>1. i \in 1..Len(got[g]) /\ j \in (Len(got[g]) + 1)..Len(got'[g])
      BY <1>1, <1>3, <2>2
    <3>2. got'[g][i] \in GotOf(g) /\ got'[g][j] \in lo..hi
      BY <1>1, <1>3, <3>1 DEF GotOf
    <3> QED
      BY <3>2
  <2>3. CASE ~(i <= Len(got[g]))
    <3>1. i \in (Len(got[g]) + 1)..Len(got'[g]) /\ j \in (Len(got[g]) + 1)..Len(got'[g])
      BY <1>1, <1>3, <1>5, <2>3
    <3> QED
      BY <1>3, <1>5, <3>1
  <2> QED
    BY <2>1, <2>2, <2>3
<1> QED
  BY <1>4, <1>5 DEF RisingAt

\* The result that the goroutine of g sends meets the range.
LEMMA DeliverKeeps ==
  ASSUME AwsInv, kind = "follow", NEW g \in Groups, Deliver(g), UNCHANGED query
  PROVE  AwsInv'
<1> USE DEF provider, asked, query, options, progress
<1> DEFINE lo == hold[g].lo
           hi == hold[g].hi
           p == IF hold[g].err = "nil" THEN back[g] ELSE "done"
<1>1. /\ AwsTypeOK /\ Clock /\ Ended /\ Printed /\ FollowingAt(g) /\ HoldsAt(g)
      /\ phase[g] = "send" /\ consumer = "range"
  BY DEF AwsInv, Deliver
<1>2. /\ Show(g, lo, hi) /\ last' = hold[g].err
      /\ phase' = [phase EXCEPT ![g] = p]
      /\ hold' = [hold EXCEPT ![g] = Empty]
      /\ consumer' = "yield"
      /\ UNCHANGED <<exists, log, ctxDone, drops, earlier, start, opened, histEnd, at, canceled, back,
                     skipDuplicate, kind, newest, limit, left, merged, yielded>>
  BY DEF Deliver, Enter
<1>3. /\ Len(log[g]) \in Nat /\ DOMAIN log[g] = 1..Len(log[g])
      /\ \A k \in 1..Len(log[g]) : log[g][k] \in Nat
      /\ \A i, j \in 1..Len(log[g]) : i < j => log[g][i] < log[g][j]
      /\ \A m \in GotOf(g) : m \in Nat /\ m \in 1..Len(log[g])
      /\ opened[g] \in Nat /\ histEnd[g] \in Nat /\ at[g] \in Nat
      /\ opened[g] <= Len(log[g]) /\ histEnd[g] <= Len(log[g]) /\ at[g] <= Len(log[g])
      /\ lo \in Nat /\ lo >= 1 /\ hi \in Nat /\ hi <= at[g]
      /\ hold[g].err \in Errors /\ back[g] \in {"query", "live"}
      /\ start \in Nat /\ since \in Nat /\ start <= since
  BY <1>1, GroupShapes
<1>4. lo <= hi + 1 /\ (hold[g].err # "nil" => hi = 0)
  BY <1>1 DEF HoldsAt
\* Where the batch comes from.
<1>5. /\ hold[g].err = "nil" => InHistory(g) \/ InLive(g)
      /\ HeadOf(g) = lo
      /\ \A k \in lo..hi : hold[g].err = "nil" /\ k \in 1..Len(log[g])
      /\ InHistory(g) <=> hold[g].err = "nil" /\ back[g] = "query"
      /\ InLive(g) <=> hold[g].err = "nil" /\ back[g] = "live"
  BY <1>1, <1>3, <1>4 DEF InHistory, InLive, Sends, HeadOf
<1>6. /\ InHistory(g) => \A k \in lo..hi : log[g][k] >= start
      /\ InHistory(g) => \A m \in GotOf(g) : \A k \in lo..hi : m < k
      /\ InLive(g) => opened[g] < lo /\ \A m \in GotOf(g) : m < lo \/ m <= histEnd[g]
      /\ InLive(g) => \A k \in lo..hi : opened[g] < k /\ log[g][k] > start
  <2>1. \A k \in lo..hi : k \in DOMAIN log[g] /\ k >= lo /\ k \in Nat
    BY <1>3, <1>5
  <2>2. /\ InHistory(g) => /\ \A k \in DOMAIN log[g] : k >= lo => log[g][k] >= start
                           /\ \A m \in GotOf(g) : m < lo
        /\ InLive(g) => opened[g] < lo /\ \A m \in GotOf(g) : m < lo \/ m <= histEnd[g]
        /\ InLive(g) => \A k \in DOMAIN log[g] : k > opened[g] => log[g][k] > start
    BY <1>1, <1>5 DEF FollowingAt
  <2>3. \A m \in GotOf(g) : \A k \in lo..hi : m < lo => m < k
    BY <1>3, <2>1
  <2>4. \A k \in lo..hi : opened[g] < lo => opened[g] < k
    BY <1>3, <2>1
  <2> HIDE DEF lo, hi
  <2> QED
    BY <2>1, <2>2, <2>3, <2>4
<1>7. Batch(g, lo, hi)
  <2>1. ASSUME NEW m \in lo..hi, m \in earlier[g]
        PROVE  log[g][m] >= start /\ \A k \in GotOf(g) : log[g][k] = since => k < m
    <3>1. CASE InHistory(g)
      BY <1>6, <3>1
    <3>2. CASE InLive(g)
      <4>1. log[g][m] > start /\ log[g][m] <= start /\ log[g][m] \in Nat
        BY <1>1, <1>3, <1>5, <1>6, <2>1, <3>2 DEF Printed
      <4> QED
        BY <1>3, <4>1
    <3> QED
      BY <1>5, <3>1, <3>2
  <2> QED
    BY <1>2, <1>3, <1>4, <2>1 DEF Batch
<1>8. /\ Added(got[g], got'[g], lo, hi, {k \in lo..hi : IsDuplicate(g, k)})
      /\ got' = [got EXCEPT ![g] = got'[g]]
      /\ \A h \in Groups \ {g} : got'[h] = got[h] /\ GotOf(h)' = GotOf(h)
      /\ GotOf(g) \subseteq GotOf(g)'
      /\ \A m \in GotOf(g)' \ GotOf(g) : m \in lo..hi /\ ~IsDuplicate(g, m)
      /\ \A k \in lo..hi : IsDuplicate(g, k) \/ k \in GotOf(g)'
      /\ since' \in Nat /\ since <= since'
      /\ since' = since \/ (hi \in lo..hi /\ since' = log[g][hi] /\ hi \in GotOf(g)')
      /\ \A h \in Groups : (earlier[h] \union GotOf(h) \subseteq DOMAIN log[h])'
      /\ got' \in [Groups -> Seq(1..MaxLog)] /\ since' <= 2 * Cardinality(Times) + 1
      /\ Printed' /\ Again'
  <2>1. UNCHANGED <<log, earlier, start, skipDuplicate>>
    BY <1>2
  <2> HIDE DEF lo, hi
  <2> QED
    BY <1>7, <2>1, BatchFacts
<1>9. /\ phase'[g] = p /\ hold'[g] = Empty
      /\ \A h \in Groups \ {g} : phase'[h] = phase[h] /\ hold'[h] = hold[h]
      /\ phase' \in [Groups -> {"setup", "poll", "history", "query", "live", "send", "done", "failed"}]
      /\ hold' \in [Groups -> [lo : 1..(MaxLog + 1), hi : 0..MaxLog, err : Errors]]
  <2>1. Empty \in [lo : 1..(MaxLog + 1), hi : 0..MaxLog, err : Errors]
    BY GroupsAssumption DEF Empty, Result, Errors
  <2>2. p \in {"query", "live", "done"}
    BY <1>3
  <2> HIDE DEF p
  <2> QED
    BY <1>1, <1>2, <2>1, <2>2 DEF AwsTypeOK, TailTypeOK
<1> HIDE DEF lo, hi
<1>10. AwsTypeOK' /\ Clock'
  <2>1. MaxLog \in Nat /\ Cardinality(Times) \in Nat /\ Cardinality(Times) <= MaxLog
    BY <1>1, GroupsAssumption, FS_CardinalityType DEF Clock
  <2>2. since' \in start'..(2 * MaxLog + 1)
    BY <1>2, <1>3, <1>8, <2>1
  <2>3. ASSUME NEW h \in Groups
        PROVE  (opened[h] <= Len(log[h]) /\ histEnd[h] <= Len(log[h])
                /\ at[h] <= Len(log[h]) /\ hold[h].hi <= at[h])'
    <3>1. opened[h] <= Len(log[h]) /\ histEnd[h] <= Len(log[h]) /\ at[h] <= Len(log[h]) /\ hold[h].hi <= at[h]
      BY <1>1 DEF AwsTypeOK, TailTypeOK
    <3>2. hold'[g].hi <= at[g]
      BY <1>3, <1>9 DEF Empty, Result
    <3> QED
      BY <1>2, <1>9, <3>1, <3>2
  <2>4. TailTypeOK'
    BY <1>1, <1>2, <1>3, <1>8, <1>9, <2>2, <2>3 DEF AwsTypeOK, TailTypeOK
  <2>5. AwsTypeOK'
    BY <1>1, <1>2, <2>4 DEF AwsTypeOK, Querying
  <2>6. Times' = Times
    BY <1>2 DEF Times
  <2>7. Clock'
    <3> HIDE DEF Times
    <3>1. start' <= since'
      BY <1>2, <1>3, <1>8
    <3> QED
      BY <1>1, <1>2, <1>8, <2>6, <3>1 DEF Clock
  <2> QED
    BY <2>5, <2>7
<1>11. NotYet' /\ Ended'
  <2>1. NotYet'
    BY <1>2 DEF NotYet
  <2>2. phase'[g] # "failed" /\ (last' = "nil" => phase'[g] # "done")
    BY <1>2, <1>3, <1>9
  <2>3. /\ ~canceled /\ \A h \in Groups : phase[h] # "failed"
        /\ \A h \in Groups : phase[h] = "done" => ctxDone
    BY <1>1 DEF Ended
  <2>4. /\ \A h \in Groups : phase'[h] # "failed"
        /\ last' = "nil" => \A h \in Groups : phase'[h] = "done" => ctxDone
    BY <1>9, <2>2, <2>3
  <2>5. Ended'
    BY <1>2, <2>3, <2>4 DEF Ended, EndsOnlyCanceled
  <2> QED
    BY <2>1, <2>5
<1>12. ASSUME NEW h \in Groups PROVE HoldsAt(h)'
  <2>1. CASE h = g
    BY <1>9, <2>1 DEF HoldsAt, Empty, Result
  <2>2. CASE h # g
    BY <1>9, <2>2 DEF AwsInv, HoldsAt
  <2> QED
    BY <2>1, <2>2
<1>13. ASSUME NEW h \in Groups PROVE RisingAt(h)'
  <2>1. CASE h = g
    <3>1. ASSUME NEW m \in GotOf(g), NEW k \in lo..hi
          PROVE  m < k \/ (kind = "follow" /\ m <= histEnd[g] /\ opened[g] < k)
      <4>1. CASE InHistory(g)
        BY <1>6, <4>1
      <4>2. CASE InLive(g)
        <5>1. m < lo => m < k
          BY <1>3
        <5> QED
          BY <1>6, <4>2, <5>1
      <4> QED
        BY <1>5, <4>1, <4>2
    <3> QED
      BY <1>2, <1>7, <2>1, <3>1, BatchRises
  <2>2. CASE h # g
    BY <1>2, <1>8, <2>2 DEF AwsInv, RisingAt
  <2> QED
    BY <2>1, <2>2
\* After the batch the goroutine goes on where it was.
<1>14. /\ InHistory(g)' => InHistory(g)
       /\ InLive(g)' => InLive(g)
       /\ HeadOf(g)' = at[g] + 1 /\ lo <= at[g] + 1
       /\ phase'[g] \notin {"setup", "poll", "history"} /\ ~Sends(g, "query")' /\ ~Sends(g, "live")'
  BY <1>2, <1>3, <1>4, <1>5, <1>9 DEF InHistory, InLive, Sends, HeadOf
<1>15. FollowingAt(g)'
  <2>1. /\ InHistory(g) => /\ opened[g] <= histEnd[g] /\ at[g] <= histEnd[g]
                           /\ \A k \in DOMAIN log[g] : k >= lo => log[g][k] >= start
                           /\ \A m \in GotOf(g) : m < lo
        /\ InLive(g) => opened[g] < lo /\ \A m \in GotOf(g) : m < lo \/ m <= histEnd[g]
        /\ InHistory(g) \/ InLive(g) => \A k \in DOMAIN log[g] : k > opened[g] => log[g][k] > start
    BY <1>1, <1>5 DEF FollowingAt
  <2>2. \A k \in DOMAIN log[g] : k >= at[g] + 1 => k >= lo
    BY <1>3, <1>14
  <2>3. InHistory(g) => \A m \in GotOf(g)' : m < at[g] + 1
    <3>1. ASSUME InHistory(g), NEW m \in GotOf(g)' PROVE m < at[g] + 1
      <4>1. CASE m \in GotOf(g)
        BY <1>3, <1>14, <2>1, <3>1, <4>1
      <4>2. CASE m \in lo..hi
        BY <1>3, <4>2
      <4> QED
        BY <1>8, <4>1, <4>2
    <3> QED
      BY <3>1
  <2>4. InLive(g) => \A m \in GotOf(g)' : m < at[g] + 1 \/ m <= histEnd[g]
    <3>1. ASSUME InLive(g), NEW m \in GotOf(g)' PROVE m < at[g] + 1 \/ m <= histEnd[g]
      <4>1. CASE m \in GotOf(g)
        BY <1>3, <1>14, <2>1, <3>1, <4>1
      <4>2. CASE m \in lo..hi
        BY <1>3, <4>2
      <4> QED
        BY <1>8, <4>1, <4>2
    <3> QED
      BY <3>1
  <2>5. InLive(g) => opened[g] < at[g] + 1
    BY <1>3, <1>14, <2>1
  <2> QED
    BY <1>2, <1>14, <2>1, <2>2, <2>3, <2>4, <2>5 DEF FollowingAt
<1>16. ASSUME NEW h \in Groups \ {g} PROVE FollowingAt(h)' /\ (Since => CoveredAt(h)')
  <2>1. /\ phase'[h] = phase[h] /\ hold'[h] = hold[h] /\ got'[h] = got[h] /\ GotOf(h)' = GotOf(h)
        /\ UNCHANGED <<log, start, earlier, opened, histEnd, at, back>>
        /\ FollowingAt(h) /\ (Since => CoveredAt(h))
    BY <1>2, <1>8, <1>9 DEF AwsInv
  <2>2. FollowingAt(h)'
    BY <2>1 DEF FollowingAt, InHistory, InLive, Sends, HeadOf
  <2>3. Since => CoveredAt(h)'
    BY <2>1 DEF CoveredAt, InHistory, InLive, Sends, HeadOf, Seen, Overtaken
  <2> QED
    BY <2>2, <2>3
<1>17. ASSUME Since PROVE SeenBefore' /\ CoveredAt(g)'
  <2>1. SeenBefore /\ CoveredAt(g)
    BY <1>17 DEF AwsInv
  <2>2. \A h \in Groups : \A k : Seen(h, k)' <=> Seen(h, k)
    BY <1>2 DEF Seen, Overtaken
  <2>3. SeenBefore'
    <3>1. since' = 0 \/ \E h \in Groups : \E m \in earlier[h] \union GotOf(h)' : log[h][m] = since'
      <4>1. CASE since' = since
        BY <1>8, <2>1, <4>1 DEF SeenBefore
      <4>2. CASE since' = log[g][hi] /\ hi \in GotOf(g)'
        BY <4>2
      <4> QED
        BY <1>8, <4>1, <4>2
    <3> QED
      BY <1>2, <2>1, <2>2, <3>1 DEF SeenBefore
  \* A duplicate that is left out was printed.
  <2>4. ASSUME NEW k \in lo..hi, IsDuplicate(g, k) PROVE k \in GotOf(g) \/ Seen(g, k)
    <3>1. log[g][k] = since /\ k \in DOMAIN log[g]
      BY <1>3, <1>5, <2>4 DEF IsDuplicate
    <3>2. since # 0
      <4>1. 2 * k <= log[g][k] /\ k \in Nat /\ k >= 1
        BY <1>1, <1>3, <3>1 DEF Clock
      <4> QED
        BY <3>1, <4>1
    <3>3. PICK h \in Groups : \E m \in earlier[h] \union GotOf(h) : log[h][m] = since
      BY <2>1, <3>2 DEF SeenBefore
    <3>4. PICK m \in earlier[h] \union GotOf(h) : log[h][m] = since
      BY <3>3
    <3>5. m \in DOMAIN log[h]
      BY <1>1, <3>4 DEF AwsTypeOK, TailTypeOK
    <3>6. h = g /\ m = k
      BY <1>1, <3>1, <3>4, <3>5 DEF Clock
    <3> QED
      BY <3>4, <3>6 DEF Seen
  <2>5. ASSUME NEW k \in 1..(lo - 1), InHistory(g) \/ InLive(g) PROVE k \in GotOf(g) \/ Seen(g, k)
    BY <1>5, <2>1, <2>5 DEF CoveredAt
  <2>6. hold[g].err = "nil" => hi = at[g]
    BY <1>1, <1>3, <2>1 DEF CoveredAt, Sends, hi
  <2>7. InHistory(g)' \/ InLive(g)' => \A k \in 1..((at[g] + 1) - 1) : k \in GotOf(g)' \/ Seen(g, k)
    <3>1. ASSUME InHistory(g)' \/ InLive(g)', NEW k \in 1..((at[g] + 1) - 1) PROVE k \in GotOf(g)' \/ Seen(g, k)
      <4>1. hi = at[g] /\ (InHistory(g) \/ InLive(g))
        BY <1>5, <1>14, <2>6, <3>1
      <4>2. k \in 1..(lo - 1) \/ k \in lo..hi
        BY <1>3, <4>1
      <4> QED
        BY <1>8, <2>4, <2>5, <4>1, <4>2
    <3> QED
      BY <3>1
  <2>8. ASSUME NEW i \in DOMAIN got'[g], NEW k \in 1..got'[g][i]
        PROVE  k \in {got'[g][j] : j \in 1..i} \/ Seen(g, k)
    <3>1. /\ got[g] \in Seq(Nat) /\ Len(got[g]) \in Nat /\ DOMAIN got[g] = 1..Len(got[g])
      BY <1>1, GroupShapes
    <3>2. /\ got'[g] \in Seq(Nat) /\ Len(got'[g]) \in Nat /\ Len(got[g]) <= Len(got'[g])
          /\ \A j \in 1..Len(got[g]) : got'[g][j] = got[g][j]
          /\ \A j \in (Len(got[g]) + 1)..Len(got'[g]) : got'[g][j] \in lo..hi
          /\ \A a, b \in (Len(got[g]) + 1)..Len(got'[g]) : a < b => got'[g][a] < got'[g][b]
          /\ \A m \in lo..hi : IsDuplicate(g, m) \/ \E j \in (Len(got[g]) + 1)..Len(got'[g]) : got'[g][j] = m
      BY <1>8 DEF Added
    <3>3. DOMAIN got'[g] = 1..Len(got'[g])
      BY <3>2, LenProperties
    <3>4. CASE i \in 1..Len(got[g])
      <4>1. got'[g][i] = got[g][i] /\ \A j \in 1..i : got'[g][j] = got[g][j]
        BY <3>1, <3>2, <3>4
      <4>2. k \in {got[g][j] : j \in 1..i} \/ Seen(g, k)
        BY <2>1, <2>8, <3>1, <3>4, <4>1 DEF CoveredAt
      <4> QED
        BY <4>1, <4>2
    <3>5. CASE i \notin 1..Len(got[g])
      <4>1. i \in (Len(got[g]) + 1)..Len(got'[g])
        BY <2>8, <3>1, <3>2, <3>3, <3>5
      <4>2. got'[g][i] \in lo..hi /\ (InHistory(g) \/ InLive(g))
        BY <1>5, <3>2, <4>1
      <4>3. \A m \in GotOf(g) : m \in {got'[g][j] : j \in 1..i}
        <5>1. \A j \in 1..Len(got[g]) : j \in 1..i
          BY <3>1, <4>1
        <5> QED
          BY <3>1, <3>2, <5>1 DEF GotOf
      <4>4. CASE k \in 1..(lo - 1)
        BY <2>5, <4>2, <4>3, <4>4
      <4>5. CASE k \in lo..hi /\ IsDuplicate(g, k)
        BY <2>4, <4>3, <4>5
      <4>6. CASE k \in lo..hi /\ ~IsDuplicate(g, k)
        <5>1. PICK j \in (Len(got[g]) + 1)..Len(got'[g]) : got'[g][j] = k
          BY <3>2, <4>6
        <5>2. ~(i < j)
          <6>1. ASSUME i < j PROVE FALSE
            <7>1. got'[g][i] < k
              BY <3>2, <4>1, <5>1, <6>1
            <7> QED
              BY <1>3, <2>8, <4>2, <7>1
          <6> QED
            BY <6>1
        <5>3. j \in 1..i
          BY <3>1, <4>1, <5>1, <5>2
        <5> QED
          BY <5>1, <5>3
      <4>7. k \in 1..(lo - 1) \/ k \in lo..hi
        BY <1>3, <2>8, <4>2
      <4> QED
        BY <4>4, <4>5, <4>6, <4>7
    <3> QED
      BY <3>4, <3>5
  <2>9. CoveredAt(g)'
    BY <1>2, <1>14, <2>2, <2>7, <2>8 DEF CoveredAt
  <2> QED
    BY <2>3, <2>9
<1>18. kind' = kind /\ ~Querying'
  BY <1>2 DEF Querying
<1> QED
  BY <1>8, <1>10, <1>11, <1>12, <1>13, <1>15, <1>16, <1>17, <1>18 DEF AwsInv

-----------------------------------------------------------------------------
\* The merge only goes on.
LEMMA PastGrows ==
  ASSUME log' = log,
         \A h \in Groups : merged[h] \in Nat /\ merged'[h] \in Nat /\ merged[h] <= merged'[h],
         \A h \in Groups : \A k \in 1..merged'[h] : log[h][k] \in Times
  PROVE  PastTimes \subseteq PastTimes' /\ PastTimes' \subseteq Times
<1>1. \A x : x \in PastTimes <=> \E h \in Groups : \E k \in 1..merged[h] : x = log[h][k]
  BY DEF PastTimes
<1>2. \A x : x \in PastTimes' <=> \E h \in Groups : \E k \in 1..merged'[h] : x = log[h][k]
  BY DEF PastTimes
<1>3. \A h \in Groups : \A k \in 1..merged[h] : k \in 1..merged'[h]
  OBVIOUS
<1>4. \A x \in PastTimes : x \in PastTimes'
  BY <1>1, <1>2, <1>3
<1>5. \A x \in PastTimes' : x \in Times
  BY <1>2
<1> QED
  BY <1>4, <1>5

\* A step of a query that asks for something, or leaves an entry out.
LEMMA QueryStep ==
  ASSUME AwsInv, Querying, NEW g \in Groups,
         UNCHANGED <<options, exists, log, ctxDone, canceled, drops, earlier, start, opened, hold, back,
                     got, since, skipDuplicate, yielded>>,
         phase' \in [Groups -> {"setup", "query", "done", "failed"}],
         histEnd' \in [Groups -> 0..MaxLog], at' \in [Groups -> 0..MaxLog],
         merged' \in [Groups -> 0..MaxLog],
         left' \in [Groups -> UNION {0..n : n \in Limits \union {Extra}}],
         \A h \in Groups \ {g} : /\ phase'[h] = phase[h] /\ histEnd'[h] = histEnd[h]
                                 /\ at'[h] = at[h] /\ merged'[h] = merged[h],
         histEnd'[g] <= Len(log[g]) /\ at'[g] <= histEnd'[g] /\ merged'[g] <= at'[g],
         merged[g] <= merged'[g] \/ consumer = "setup",
         phase'[g] # "setup", phase[g] # "send",
         \A k \in DOMAIN log[g] : k > merged'[g] => log[g][k] >= start,
         consumer' \in {"setup", "range", "yield"}, consumer' # consumer => consumer = "range" /\ consumer' = "yield",
         last' \in Errors
  PROVE  AwsInv'
<1> USE DEF options
<1>1. AwsTypeOK /\ Clock /\ Ended /\ AskedAt(g) /\ kind # "none" /\ kind # "follow"
  BY DEF AwsInv, Querying
<1>2. Querying'
  BY DEF Querying
<1>3. /\ Len(log[g]) \in Nat /\ DOMAIN log[g] = 1..Len(log[g]) /\ at[g] \in Nat /\ MaxLog \in Nat
      /\ at'[g] \in Nat /\ histEnd'[g] \in Nat /\ merged'[g] \in Nat /\ merged[g] \in Nat
      /\ hold[g] = Empty
  <2>1. Len(log[g]) \in Nat /\ DOMAIN log[g] = 1..Len(log[g]) /\ at[g] \in Nat
    BY <1>1, GroupShapes
  <2>2. hold[g] = Empty
    BY DEF AwsInv, HoldsAt
  <2>3. at'[g] \in 0..MaxLog /\ histEnd'[g] \in 0..MaxLog /\ merged'[g] \in 0..MaxLog /\ merged[g] \in 0..MaxLog
    BY <1>1 DEF AwsTypeOK
  <2> QED
    BY <2>1, <2>2, <2>3, GroupsAssumption
<1>4. AwsTypeOK'
  <2>1. ASSUME NEW h \in Groups
        PROVE  (/\ opened[h] <= Len(log[h]) /\ histEnd[h] <= Len(log[h])
                /\ at[h] <= Len(log[h]) /\ hold[h].hi <= at[h])'
    <3>1. opened[h] <= Len(log[h]) /\ histEnd[h] <= Len(log[h]) /\ at[h] <= Len(log[h]) /\ hold[h].hi <= at[h]
      BY <1>1 DEF AwsTypeOK, TailTypeOK
    <3>2. CASE h = g
      BY <1>3, <3>1, <3>2 DEF Empty, Result
    <3>3. CASE h # g
      BY <3>1, <3>3
    <3> QED
      BY <3>2, <3>3
  <2>2. \A h \in Groups : (earlier[h] \union GotOf(h) \subseteq DOMAIN log[h])'
    BY <1>1 DEF AwsTypeOK, TailTypeOK, GotOf
  <2>3. phase' \in [Groups -> {"setup", "poll", "history", "query", "live", "send", "done", "failed"}]
    OBVIOUS
  <2>4. TailTypeOK'
    BY <1>1, <2>1, <2>2, <2>3 DEF AwsTypeOK, TailTypeOK
  <2>5. ASSUME consumer' # "setup", NEW h \in Groups PROVE merged'[h] <= at'[h]
    BY <1>1, <2>5 DEF AwsTypeOK
  <2> QED
    BY <1>1, <2>4, <2>5 DEF AwsTypeOK
<1>5. Clock'
  <2>1. Times' = Times
    BY DEF Times
  <2> HIDE DEF Times
  <2> QED
    BY <1>1, <2>1 DEF Clock
<1>6. NotYet' /\ Printed' /\ Again' /\ Ended'
  <2>1. NotYet'
    BY <1>1 DEF NotYet
  <2>2. \A h \in Groups : GotOf(h)' = GotOf(h)
    BY DEF GotOf
  <2>4. Printed'
    BY <2>2 DEF AwsInv, Printed
  <2>5. Again'
    BY <2>2 DEF AwsInv, Again
  <2>3. Ended'
    BY <1>1 DEF Ended
  <2> QED
    BY <2>1, <2>3, <2>4, <2>5
<1>7. ASSUME NEW h \in Groups PROVE HoldsAt(h)' /\ RisingAt(h)' /\ AskedAt(h)'
  <2>1. HoldsAt(h) /\ RisingAt(h) /\ AskedAt(h)
    BY DEF AwsInv
  <2>2. HoldsAt(h)'
    BY <1>3, <2>1 DEF HoldsAt
  <2>3. RisingAt(h)'
    BY <1>1, <2>1 DEF RisingAt
  <2>4. AskedAt(h)'
    <3>1. CASE h # g
      BY <2>1, <3>1 DEF AskedAt, GotOf
    <3>2. CASE h = g
      <4>1. phase'[g] \in {"setup", "query", "done", "failed"}
        OBVIOUS
      <4>2. consumer' = "setup" => got[g] = <<>>
        BY <1>1 DEF AskedAt
      <4>3. \A m \in GotOf(g) : m <= merged'[g]
        <5>1. CASE consumer = "setup"
          BY <1>1, <5>1 DEF AskedAt, GotOf
        <5>2. CASE merged[g] <= merged'[g]
          <6>1. \A m \in GotOf(g) : m \in Nat /\ m <= merged[g]
            BY <1>1, GroupShapes DEF AskedAt
          <6> QED
            BY <1>3, <5>2, <6>1
        <5> QED
          BY <5>1, <5>2
      <4> QED
        BY <1>1, <3>2, <4>1, <4>2, <4>3 DEF AskedAt, GotOf
    <3> QED
      BY <3>1, <3>2
  <2> QED
    BY <2>2, <2>3, <2>4
<1>8. consumer' # "setup" => yielded' <= Cardinality(PastTimes')
  <2>1. ASSUME consumer' # "setup" PROVE PastTimes \subseteq PastTimes' /\ PastTimes' \subseteq Times
    <3>1. consumer # "setup" /\ merged[g] <= merged'[g]
      BY <2>1
    <3>2. \A h \in Groups : merged[h] \in Nat /\ merged'[h] \in Nat /\ merged[h] <= merged'[h]
      <4>1. \A h \in Groups : merged[h] \in 0..MaxLog /\ merged'[h] \in 0..MaxLog
        BY <1>1 DEF AwsTypeOK
      <4>2. \A h \in Groups : merged[h] \in Nat /\ merged'[h] \in Nat
        BY <1>3, <4>1
      <4>3. ASSUME NEW h \in Groups, h # g PROVE merged[h] <= merged'[h]
        BY <4>2, <4>3
      <4> QED
        BY <3>1, <4>2, <4>3
    <3>6. ASSUME NEW h \in Groups, NEW k \in 1..merged'[h] PROVE log[h][k] \in Times
      <4>1. merged'[h] <= Len(log[h]) /\ Len(log[h]) \in Nat /\ DOMAIN log[h] = 1..Len(log[h])
        <5>1. Len(log[h]) \in Nat /\ DOMAIN log[h] = 1..Len(log[h]) /\ at[h] <= Len(log[h]) /\ at[h] \in Nat
          BY <1>1, GroupShapes
        <5>2. CASE h = g
          BY <1>3, <5>1, <5>2
        <5>3. CASE h # g
          BY <1>1, <3>1, <3>2, <5>1, <5>3 DEF AwsTypeOK
        <5> QED
          BY <5>1, <5>2, <5>3
      <4>2. k \in DOMAIN log[h]
        BY <3>2, <4>1
      <4> QED
        BY <4>2 DEF Times
    <3> QED
      BY <3>2, <3>6, PastGrows
  <2> HIDE DEF PastTimes
  <2>2. ASSUME consumer' # "setup" PROVE yielded <= Cardinality(PastTimes) /\ yielded \in Nat
    <3>1. yielded \in 0..MaxLog
      BY <1>1 DEF AwsTypeOK
    <3> QED
      BY <1>3, <2>2, <3>1 DEF AwsInv
  <2>3. ASSUME consumer' # "setup" PROVE Cardinality(PastTimes) <= Cardinality(PastTimes')
                                       /\ Cardinality(PastTimes) \in Nat /\ Cardinality(PastTimes') \in Nat
    <3>1. IsFiniteSet(PastTimes')
      BY <1>1, <2>1, <2>3, FS_Subset DEF Clock
    <3>2. IsFiniteSet(PastTimes) /\ Cardinality(PastTimes) <= Cardinality(PastTimes')
      BY <2>1, <2>3, <3>1, FS_Subset
    <3> QED
      BY <3>1, <3>2, FS_CardinalityType
  <2> QED
    BY <2>2, <2>3
<1> HIDE DEF PastTimes
<1> QED
  BY <1>1, <1>2, <1>4, <1>5, <1>6, <1>7, <1>8 DEF AwsInv, Querying

LEMMA QueriedFacts ==
  ASSUME AwsInv, Querying, NEW g \in Groups
  PROVE  /\ AskedAt(g) /\ phase \in [Groups -> {"setup", "query", "done", "failed"}]
         /\ histEnd \in [Groups -> 0..MaxLog] /\ at \in [Groups -> 0..MaxLog]
         /\ merged \in [Groups -> 0..MaxLog]
         /\ left \in [Groups -> UNION {0..n : n \in Limits \union {Extra}}]
         /\ Len(log[g]) \in Nat /\ DOMAIN log[g] = 1..Len(log[g]) /\ Len(log[g]) <= MaxLog /\ MaxLog \in Nat
         /\ at[g] \in Nat /\ histEnd[g] \in Nat /\ merged[g] \in Nat
         /\ at[g] <= Len(log[g]) /\ histEnd[g] <= Len(log[g])
         /\ last \in Errors /\ yielded \in Nat
         /\ \A k \in 1..Len(log[g]) : log[g][k] \in Nat
<1>1. AwsTypeOK /\ Clock /\ AskedAt(g)
  BY DEF AwsInv
<1>2. phase \in [Groups -> {"setup", "query", "done", "failed"}]
  <2>1. \A h \in Groups : phase[h] \in {"setup", "query", "done", "failed"}
    BY DEF AwsInv, AskedAt
  <2>2. phase = [h \in Groups |-> phase[h]]
    BY <1>1 DEF AwsTypeOK, TailTypeOK
  <2> QED
    BY <2>1, <2>2
<1>3. /\ Len(log[g]) \in Nat /\ DOMAIN log[g] = 1..Len(log[g]) /\ Len(log[g]) <= MaxLog
      /\ at[g] \in Nat /\ histEnd[g] \in Nat /\ at[g] <= Len(log[g]) /\ histEnd[g] <= Len(log[g])
      /\ \A k \in 1..Len(log[g]) : log[g][k] \in Nat
  BY <1>1, GroupShapes
<1>4. merged[g] \in 0..MaxLog /\ yielded \in 0..MaxLog
  BY <1>1 DEF AwsTypeOK
<1>5. merged[g] \in Nat /\ yielded \in Nat
  BY <1>4, GroupsAssumption
<1> QED
  BY <1>1, <1>2, <1>3, <1>5, GroupsAssumption DEF AwsTypeOK, TailTypeOK

LEMMA AskKeeps ==
  ASSUME AwsInv, NEW g \in Groups, Ask(g)
  PROVE  AwsInv'
<1> USE DEF provider, asked, printed
<1>1. Querying /\ consumer = "setup" /\ phase[g] = "setup"
  BY DEF Ask
<1>2. /\ AskedAt(g) /\ phase \in [Groups -> {"setup", "query", "done", "failed"}]
      /\ histEnd \in [Groups -> 0..MaxLog] /\ at \in [Groups -> 0..MaxLog]
      /\ merged \in [Groups -> 0..MaxLog]
      /\ left \in [Groups -> UNION {0..n : n \in Limits \union {Extra}}]
      /\ Len(log[g]) \in Nat /\ DOMAIN log[g] = 1..Len(log[g]) /\ Len(log[g]) <= MaxLog /\ MaxLog \in Nat
      /\ last \in Errors /\ \A k \in 1..Len(log[g]) : log[g][k] \in Nat
  BY <1>1, QueriedFacts
<1>3. PICK n \in 0..Len(log[g]) :
        /\ Before(g, n)
        /\ at' = [at EXCEPT ![g] = n] /\ merged' = [merged EXCEPT ![g] = n]
  BY DEF Ask
<1>4. n \in 0..MaxLog /\ n <= Len(log[g]) /\ Len(log[g]) \in 0..MaxLog
  BY <1>2
<1>5. \E p \in {"query", "done"} : phase' = [phase EXCEPT ![g] = p]
  BY DEF Ask, Enter
<1>6. histEnd' = [histEnd EXCEPT ![g] = Len(log[g])]
  BY DEF Ask, EndsNow
<1>7. /\ UNCHANGED <<options, exists, log, ctxDone, canceled, drops, earlier, start, opened, hold, back,
                     got, since, skipDuplicate, yielded, consumer, last>>
  BY DEF Ask
<1>8. left' \in [Groups -> UNION {0..n_1 : n_1 \in Limits \union {Extra}}]
  <2>1. 0 \in 0..Extra /\ Extra \in Limits \union {Extra}
    BY DEF Extra
  <2>2. limit \in Limits \union {0}
    BY DEF AwsInv, AwsTypeOK
  <2>3. limit \in Limits => limit \in Nat /\ limit \in 0..limit
    BY LimitsAssumption
  <2>4. 0 \in UNION {0..n_1 : n_1 \in Limits \union {Extra}} /\ limit \in UNION {0..n_1 : n_1 \in Limits \union {Extra}}
    BY <2>1, <2>2, <2>3
  <2>5. left' = [left EXCEPT ![g] = IF FromTheEnd THEN 0 ELSE limit]
    BY DEF Ask
  <2> QED
    BY <1>2, <2>4, <2>5
<1>9. \A k \in DOMAIN log[g] : k > n => log[g][k] >= start
  <2>1. \A k \in DOMAIN log[g] : k <= n <=> log[g][k] < start
    BY <1>3 DEF Before
  <2>2. start \in Nat
    BY GroupShapes DEF AwsInv
  <2> QED
    BY <1>2, <2>1, <2>2
<1>10. /\ phase' \in [Groups -> {"setup", "query", "done", "failed"}]
       /\ histEnd' \in [Groups -> 0..MaxLog] /\ at' \in [Groups -> 0..MaxLog]
       /\ merged' \in [Groups -> 0..MaxLog]
       /\ \A h \in Groups \ {g} : /\ phase'[h] = phase[h] /\ histEnd'[h] = histEnd[h]
                                  /\ at'[h] = at[h] /\ merged'[h] = merged[h]
       /\ phase'[g] # "setup" /\ histEnd'[g] = Len(log[g]) /\ at'[g] = n /\ merged'[g] = n
  BY <1>2, <1>3, <1>4, <1>5, <1>6
<1>11. histEnd'[g] <= Len(log[g]) /\ at'[g] <= histEnd'[g] /\ merged'[g] <= at'[g]
  BY <1>2, <1>4, <1>10
<1> QED
  BY <1>1, <1>2, <1>7, <1>8, <1>9, <1>10, <1>11, QueryStep

LEMMA PageKeeps ==
  ASSUME AwsInv, NEW g \in Groups, Page(g)
  PROVE  AwsInv'
<1> USE DEF provider, asked, printed
<1>1. Querying /\ consumer = "range" /\ phase[g] = "query"
  BY DEF Page, Pulls
<1>2. /\ AskedAt(g) /\ phase \in [Groups -> {"setup", "query", "done", "failed"}]
      /\ histEnd \in [Groups -> 0..MaxLog] /\ at \in [Groups -> 0..MaxLog]
      /\ merged \in [Groups -> 0..MaxLog]
      /\ left \in [Groups -> UNION {0..n : n \in Limits \union {Extra}}]
      /\ Len(log[g]) \in Nat /\ DOMAIN log[g] = 1..Len(log[g]) /\ Len(log[g]) <= MaxLog /\ MaxLog \in Nat
      /\ at[g] \in Nat /\ histEnd[g] \in Nat /\ merged[g] \in Nat
      /\ at[g] <= Len(log[g]) /\ histEnd[g] <= Len(log[g])
      /\ last \in Errors
  BY <1>1, QueriedFacts
<1>3. PICK n \in 0..(histEnd[g] - at[g]) :
        /\ left[g] = 0 \/ n <= left[g]
        /\ at' = [at EXCEPT ![g] = at[g] + n]
        /\ \/ LimitAfter(g, n) >= 0
              /\ left' = [left EXCEPT ![g] = LimitAfter(g, n)] /\ UNCHANGED phase
           \/ /\ LimitAfter(g, n) < 0 \/ at[g] + n >= histEnd[g]
              /\ Enter(g, "done") /\ UNCHANGED left
  BY DEF Page
<1>4. at[g] <= histEnd[g] /\ merged[g] <= at[g] /\ \A k \in DOMAIN log[g] : k > merged[g] => log[g][k] >= start
  BY <1>1, <1>2 DEF AskedAt
<1>5. n \in Nat /\ at[g] + n \in 0..MaxLog /\ at[g] + n <= histEnd[g] /\ merged[g] <= at[g] + n
  BY <1>2, <1>4
<1>6. /\ UNCHANGED <<options, exists, log, ctxDone, canceled, drops, earlier, start, opened, hold, back,
                     got, since, skipDuplicate, yielded, consumer, last, merged, histEnd>>
  BY DEF Page
<1>7. left' \in [Groups -> UNION {0..m : m \in Limits \union {Extra}}]
  <2>1. PICK m \in Limits \union {Extra} : left[g] \in 0..m
    BY <1>2
  <2>2. m \in Nat /\ left[g] \in Nat
    BY <2>1, LimitsAssumption DEF Extra
  <2>3. ASSUME LimitAfter(g, n) >= 0 PROVE LimitAfter(g, n) \in 0..m \/ LimitAfter(g, n) \in 0..Extra
    <3>1. CASE left[g] = 0
      <4>1. LimitAfter(g, n) = 0
        BY <3>1 DEF LimitAfter
      <4> QED
        BY <2>2, <4>1
    <3>2. CASE left[g] # 0 /\ n < left[g]
      <4>1. LimitAfter(g, n) = left[g] - n
        BY <3>2 DEF LimitAfter
      <4> QED
        BY <1>5, <2>1, <2>2, <3>2, <4>1
    <3>3. CASE left[g] # 0 /\ ~(n < left[g])
      <4>1. LimitAfter(g, n) \in {Extra, -1}
        BY <3>3 DEF LimitAfter
      <4>2. LimitAfter(g, n) = Extra
        BY <2>3, <4>1
      <4> QED
        BY <4>2 DEF Extra
    <3> QED
      BY <3>1, <3>2, <3>3
  <2>4. LimitAfter(g, n) >= 0 => LimitAfter(g, n) \in UNION {0..x : x \in Limits \union {Extra}}
    BY <2>1, <2>3
  <2> QED
    BY <1>2, <1>3, <2>4
<1>8. phase' = phase \/ phase' = [phase EXCEPT ![g] = "done"]
  BY <1>3 DEF Enter
<1>9. /\ phase' \in [Groups -> {"setup", "query", "done", "failed"}]
      /\ at' \in [Groups -> 0..MaxLog]
      /\ \A h \in Groups \ {g} : phase'[h] = phase[h] /\ at'[h] = at[h]
      /\ phase'[g] # "setup" /\ at'[g] = at[g] + n
  BY <1>1, <1>2, <1>3, <1>5, <1>8
<1>10. histEnd'[g] <= Len(log[g]) /\ at'[g] <= histEnd'[g] /\ merged'[g] <= at'[g] /\ merged[g] <= merged'[g]
  BY <1>2, <1>5, <1>6, <1>9
<1> QED
  BY <1>1, <1>2, <1>4, <1>6, <1>7, <1>9, <1>10, QueryStep

LEMMA PageFailsKeeps ==
  ASSUME AwsInv, NEW g \in Groups, PageFails(g)
  PROVE  AwsInv'
<1> USE DEF provider, asked, printed, progress
<1>1. Querying /\ consumer = "range" /\ phase[g] = "query"
  BY DEF PageFails, Pulls
<1>2. /\ AskedAt(g) /\ phase \in [Groups -> {"setup", "query", "done", "failed"}]
      /\ histEnd \in [Groups -> 0..MaxLog] /\ at \in [Groups -> 0..MaxLog]
      /\ merged \in [Groups -> 0..MaxLog]
      /\ left \in [Groups -> UNION {0..n : n \in Limits \union {Extra}}]
      /\ Len(log[g]) \in Nat /\ DOMAIN log[g] = 1..Len(log[g])
      /\ merged[g] \in Nat /\ histEnd[g] <= Len(log[g])
      /\ last \in Errors
  BY <1>1, QueriedFacts
<1>3. at[g] <= histEnd[g] /\ merged[g] <= at[g] /\ \A k \in DOMAIN log[g] : k > merged[g] => log[g][k] >= start
  BY <1>1, <1>2 DEF AskedAt
<1>4. /\ UNCHANGED <<options, exists, log, ctxDone, canceled, drops, earlier, start, opened, hold, back,
                     got, since, skipDuplicate, yielded, merged, histEnd, at, left>>
  BY DEF PageFails
<1>5. /\ phase' = [phase EXCEPT ![g] = "failed"] \/ phase' = [phase EXCEPT ![g] = "done"]
      /\ consumer' \in {"range", "yield"} /\ last' \in Errors
  BY <1>1, <1>2 DEF PageFails, Enter, Errors
<1>6. /\ phase' \in [Groups -> {"setup", "query", "done", "failed"}]
      /\ \A h \in Groups \ {g} : phase'[h] = phase[h]
      /\ phase'[g] # "setup"
  BY <1>2, <1>5
<1>7. merged[g] <= merged'[g]
  BY <1>2, <1>4
<1> QED
  BY <1>1, <1>2, <1>3, <1>4, <1>5, <1>6, <1>7, QueryStep

LEMMA DropKeeps ==
  ASSUME AwsInv, NEW g \in Groups, Drop(g)
  PROVE  AwsInv'
<1> USE DEF provider, asked, printed, progress, tailVars
<1>1. Querying /\ consumer = "range" /\ merged[g] < at[g]
  BY DEF Drop, MergesNow, Earliest, Ready
<1>2. /\ AskedAt(g) /\ phase \in [Groups -> {"setup", "query", "done", "failed"}]
      /\ histEnd \in [Groups -> 0..MaxLog] /\ at \in [Groups -> 0..MaxLog]
      /\ merged \in [Groups -> 0..MaxLog]
      /\ left \in [Groups -> UNION {0..n : n \in Limits \union {Extra}}]
      /\ Len(log[g]) \in Nat /\ DOMAIN log[g] = 1..Len(log[g]) /\ Len(log[g]) <= MaxLog /\ MaxLog \in Nat
      /\ merged[g] \in Nat /\ histEnd[g] <= Len(log[g]) /\ at[g] \in Nat /\ at[g] <= Len(log[g])
      /\ last \in Errors
  BY <1>1, QueriedFacts
<1>3. /\ phase[g] # "setup" /\ at[g] <= histEnd[g]
      /\ \A k \in DOMAIN log[g] : k > merged[g] => log[g][k] >= start
  BY <1>1, <1>2 DEF AskedAt
<1>4. /\ UNCHANGED <<options, exists, log, ctxDone, canceled, drops, earlier, start, opened, hold, back,
                     got, since, skipDuplicate, yielded, histEnd, at, left, phase, consumer, last>>
      /\ merged' = [merged EXCEPT ![g] = merged[g] + 1]
  BY DEF Drop
<1>5. merged[g] + 1 <= at[g] /\ merged[g] + 1 \in 0..MaxLog
  BY <1>1, <1>2
<1>6. /\ merged' \in [Groups -> 0..MaxLog] /\ merged'[g] = merged[g] + 1
      /\ \A h \in Groups \ {g} : merged'[h] = merged[h]
  BY <1>2, <1>4, <1>5
<1>7. \A k \in DOMAIN log[g] : k > merged'[g] => log[g][k] >= start
  BY <1>2, <1>3, <1>6
<1>8. phase[g] # "send"
  BY <1>2
<1>9. histEnd'[g] <= Len(log[g]) /\ at'[g] <= histEnd'[g] /\ merged'[g] <= at'[g] /\ merged[g] <= merged'[g]
  BY <1>2, <1>3, <1>4, <1>5, <1>6
<1> QED
  BY <1>1, <1>2, <1>3, <1>4, <1>6, <1>7, <1>8, <1>9, QueryStep

\* The merge is past one entry more, whose time no other entry has.
LEMMA PastAdds ==
  ASSUME AwsInv, Querying, consumer # "setup", NEW g \in Groups, merged[g] < at[g], log' = log,
         merged' = [merged EXCEPT ![g] = merged[g] + 1]
  PROVE  /\ Cardinality(PastTimes) \in Nat /\ Cardinality(PastTimes') = Cardinality(PastTimes) + 1
         /\ Cardinality(PastTimes') <= MaxLog
<1> DEFINE t == log[g][merged[g] + 1]
<1>1. AwsTypeOK /\ Clock
  BY DEF AwsInv
<1>2. ASSUME NEW h \in Groups
      PROVE  /\ merged[h] \in Nat /\ merged[h] <= Len(log[h])
             /\ DOMAIN log[h] = 1..Len(log[h]) /\ Len(log[h]) \in Nat
             /\ \A k \in DOMAIN log[h] : log[h][k] \in Times
  <2>1. /\ merged[h] \in Nat /\ at[h] \in Nat /\ at[h] <= Len(log[h])
        /\ DOMAIN log[h] = 1..Len(log[h]) /\ Len(log[h]) \in Nat
    BY QueriedFacts
  <2>2. merged[h] <= at[h]
    BY <1>1 DEF AwsTypeOK
  <2>3. \A k \in DOMAIN log[h] : log[h][k] \in Times
    BY DEF Times
  <2> QED
    BY <2>1, <2>2, <2>3
<1>3. at[g] \in Nat /\ at[g] <= Len(log[g]) /\ merged[g] + 1 \in DOMAIN log[g] /\ merged[g] \in Nat
  <2>1. at[g] \in Nat /\ at[g] <= Len(log[g])
    BY QueriedFacts
  <2> QED
    BY <1>2, <2>1
<1>4. merged'[g] = merged[g] + 1 /\ \A h \in Groups \ {g} : merged'[h] = merged[h]
  BY <1>1 DEF AwsTypeOK
<1>5. /\ \A h \in Groups : merged[h] \in Nat /\ merged'[h] \in Nat /\ merged[h] <= merged'[h]
      /\ \A h \in Groups : \A k \in 1..merged'[h] : log[h][k] \in Times
  <2>1. ASSUME NEW h \in Groups
        PROVE  /\ merged[h] \in Nat /\ merged'[h] \in Nat /\ merged[h] <= merged'[h] /\ merged'[h] <= Len(log[h])
    <3>1. CASE h = g
      BY <1>2, <1>3, <1>4, <3>1
    <3>2. CASE h # g
      BY <1>2, <1>4, <3>2
    <3> QED
      BY <3>1, <3>2
  <2>2. \A h \in Groups : \A k \in 1..merged'[h] : k \in DOMAIN log[h]
    BY <1>2, <2>1
  <2> QED
    BY <1>2, <2>1, <2>2
<1>6. PastTimes \subseteq PastTimes' /\ PastTimes' \subseteq Times
  BY <1>5, PastGrows
<1>7. \A x : x \in PastTimes <=> \E h \in Groups : \E k \in 1..merged[h] : x = log[h][k]
  BY DEF PastTimes
<1>8. \A x : x \in PastTimes' <=> \E h \in Groups : \E k \in 1..merged'[h] : x = log[h][k]
  BY DEF PastTimes
<1>9. t \notin PastTimes
  <2>1. ASSUME t \in PastTimes PROVE FALSE
    <3>1. PICK h \in Groups : \E k \in 1..merged[h] : t = log[h][k]
      BY <1>7, <2>1
    <3>2. PICK k \in 1..merged[h] : t = log[h][k]
      BY <3>1
    <3>3. k \in DOMAIN log[h]
      BY <1>2
    <3>4. g = h /\ merged[g] + 1 = k
      BY <1>1, <1>3, <3>2, <3>3 DEF Clock
    <3> QED
      BY <1>3, <3>4
  <2> QED
    BY <2>1
<1>10. ASSUME NEW x \in PastTimes' PROVE x \in PastTimes \union {t}
  <2>1. PICK h \in Groups : \E k \in 1..merged'[h] : x = log[h][k]
    BY <1>8, <1>10
  <2>2. PICK k \in 1..merged'[h] : x = log[h][k]
    BY <2>1
  <2>3. k \in 1..merged[h] \/ (h = g /\ k = merged[g] + 1)
    BY <1>2, <1>4
  <2> QED
    BY <1>7, <2>2, <2>3
<1>11. t \in PastTimes'
  <2>1. merged[g] + 1 \in 1..merged'[g]
    BY <1>3, <1>4
  <2> QED
    BY <1>8, <2>1
<1> HIDE DEF t, PastTimes
<1>12. PastTimes' = PastTimes \union {t}
  BY <1>6, <1>10, <1>11
<1>13. IsFiniteSet(Times) /\ Cardinality(Times) <= MaxLog /\ Cardinality(Times) \in Nat /\ MaxLog \in Nat
  BY <1>1, FS_CardinalityType, GroupsAssumption DEF Clock
<1>14. /\ IsFiniteSet(PastTimes) /\ IsFiniteSet(PastTimes') /\ Cardinality(PastTimes') <= Cardinality(Times)
  <2>1. IsFiniteSet(PastTimes') /\ Cardinality(PastTimes') <= Cardinality(Times)
    BY <1>6, <1>13, FS_Subset
  <2>2. IsFiniteSet(PastTimes)
    BY <1>6, <2>1, FS_Subset
  <2> QED
    BY <2>1, <2>2
<1>15. Cardinality(PastTimes) \in Nat /\ Cardinality(PastTimes') \in Nat
  BY <1>14, FS_CardinalityType
<1>16. Cardinality(PastTimes') = Cardinality(PastTimes) + 1
  <2>1. Cardinality(PastTimes \union {t}) = Cardinality(PastTimes) + 1
    BY <1>9, <1>14, FS_AddElement
  <2> QED
    BY <1>12, <2>1
<1> QED
  BY <1>13, <1>14, <1>15, <1>16

\* The next entry of the merge comes to the consumer.
LEMMA MergeKeeps ==
  ASSUME AwsInv, NEW g \in Groups, Merge(g)
  PROVE  AwsInv'
<1> USE DEF provider, asked, progress, options
<1> DEFINE m == merged[g] + 1
<1>1. Querying /\ consumer = "range" /\ merged[g] < at[g]
  BY DEF Merge, MergesNow, Earliest, Ready
<1>2. /\ AskedAt(g) /\ phase \in [Groups -> {"setup", "query", "done", "failed"}]
      /\ histEnd \in [Groups -> 0..MaxLog] /\ at \in [Groups -> 0..MaxLog]
      /\ merged \in [Groups -> 0..MaxLog]
      /\ left \in [Groups -> UNION {0..n : n \in Limits \union {Extra}}]
      /\ Len(log[g]) \in Nat /\ DOMAIN log[g] = 1..Len(log[g]) /\ Len(log[g]) <= MaxLog /\ MaxLog \in Nat
      /\ merged[g] \in Nat /\ histEnd[g] <= Len(log[g]) /\ at[g] \in Nat /\ at[g] <= Len(log[g])
      /\ yielded \in Nat
      /\ \A k \in 1..Len(log[g]) : log[g][k] \in Nat
  BY <1>1, QueriedFacts
<1>3. /\ Show(g, m, m) /\ merged' = [merged EXCEPT ![g] = merged[g] + 1] /\ yielded' = yielded + 1
      /\ last' = "nil" /\ consumer' = "yield"
      /\ UNCHANGED <<kind, newest, limit, left, exists, log, ctxDone, drops, earlier, start, canceled, phase,
                     opened, histEnd, at, hold, back, skipDuplicate>>
  BY DEF Merge
<1>4. AwsTypeOK /\ Clock /\ Ended /\ kind # "follow" /\ kind # "none"
  BY <1>1 DEF AwsInv, Querying
<1>5. /\ m \in Nat /\ m >= 1 /\ m <= m + 1 /\ m <= at[g] /\ m \in 0..MaxLog /\ m \in DOMAIN log[g] /\ m > merged[g]
      /\ \A k \in m..m : k = m
      /\ \A k \in GotOf(g) : k \in Nat /\ k <= merged[g]
  <2>1. \A k \in GotOf(g) : k \in Nat
    BY <1>4, GroupShapes
  <2> QED
    BY <1>1, <1>2, <2>1 DEF AskedAt
<1>6. \A k \in GotOf(g) : k < m
  BY <1>2, <1>5
<1>7. log[g][m] >= start
  <2>1. phase[g] # "setup"
    BY <1>1, <1>2 DEF AskedAt
  <2>2. \A k \in DOMAIN log[g] : k > merged[g] => log[g][k] >= start
    BY <1>2, <2>1 DEF AskedAt
  <2> QED
    BY <1>5, <2>2
<1> HIDE DEF m
<1>8. Batch(g, m, m)
  BY <1>3, <1>5, <1>6, <1>7 DEF Batch
<1>9. /\ got' = [got EXCEPT ![g] = got'[g]]
      /\ \A h \in Groups \ {g} : got'[h] = got[h] /\ GotOf(h)' = GotOf(h)
      /\ \A k \in GotOf(g)' \ GotOf(g) : k \in m..m
      /\ since' \in Nat /\ since <= since'
      /\ \A h \in Groups : (earlier[h] \union GotOf(h) \subseteq DOMAIN log[h])'
      /\ got' \in [Groups -> Seq(1..MaxLog)] /\ since' <= 2 * Cardinality(Times) + 1
      /\ Printed' /\ Again'
  <2>1. UNCHANGED <<log, earlier, start, skipDuplicate>>
    BY <1>3
  <2> QED
    BY <1>8, <2>1, BatchFacts
<1>10. /\ merged'[g] = m /\ \A h \in Groups \ {g} : merged'[h] = merged[h]
       /\ merged' \in [Groups -> 0..MaxLog]
  BY <1>2, <1>3, <1>5 DEF m
<1>11. /\ yielded' <= Cardinality(PastTimes') /\ yielded' \in 0..MaxLog
  <2>1. /\ Cardinality(PastTimes) \in Nat /\ Cardinality(PastTimes') = Cardinality(PastTimes) + 1
        /\ Cardinality(PastTimes') <= MaxLog
    BY <1>1, <1>3, PastAdds
  <2>2. yielded <= Cardinality(PastTimes)
    BY <1>1 DEF AwsInv
  <2> HIDE DEF PastTimes
  <2> QED
    BY <1>2, <1>3, <2>1, <2>2
<1>12. AwsTypeOK' /\ Clock'
  <2>1. MaxLog \in Nat /\ Cardinality(Times) \in Nat /\ Cardinality(Times) <= MaxLog /\ start \in Nat /\ start <= since
        /\ since \in Nat
    BY <1>4, GroupsAssumption, FS_CardinalityType, GroupShapes DEF Clock
  <2>2. since' \in start'..(2 * MaxLog + 1)
    BY <1>3, <1>9, <2>1
  <2>3. TailTypeOK'
    <3>1. ASSUME NEW h \in Groups
          PROVE  (opened[h] <= Len(log[h]) /\ histEnd[h] <= Len(log[h])
                  /\ at[h] <= Len(log[h]) /\ hold[h].hi <= at[h])'
      BY <1>3, <1>4 DEF AwsTypeOK, TailTypeOK
    <3>2. "nil" \in Errors
      BY DEF Errors
    <3> QED
      BY <1>3, <1>4, <1>9, <2>2, <3>1, <3>2 DEF AwsTypeOK, TailTypeOK
  <2>4. ASSUME NEW h \in Groups PROVE merged'[h] <= at'[h]
    <3>1. CASE h = g
      BY <1>3, <1>5, <1>10, <3>1
    <3>2. CASE h # g
      BY <1>1, <1>3, <1>4, <1>10, <3>2 DEF AwsTypeOK
    <3> QED
      BY <3>1, <3>2
  <2>5. AwsTypeOK'
    BY <1>3, <1>4, <1>10, <1>11, <2>3, <2>4 DEF AwsTypeOK, Querying
  <2>6. Times' = Times
    BY <1>3 DEF Times
  <2>7. Clock'
    <3> HIDE DEF Times
    <3>1. start' <= since'
      BY <1>3, <1>9, <2>1
    <3> QED
      BY <1>3, <1>4, <1>9, <2>6, <3>1 DEF Clock
  <2> QED
    BY <2>5, <2>7
<1>13. NotYet' /\ Ended'
  <2>1. NotYet'
    BY <1>3, <1>4 DEF NotYet
  <2>2. Ended'
    BY <1>1, <1>3, <1>4 DEF Ended
  <2> QED
    BY <2>1, <2>2
<1>14. ASSUME NEW h \in Groups PROVE HoldsAt(h)' /\ RisingAt(h)' /\ AskedAt(h)'
  <2>1. HoldsAt(h) /\ RisingAt(h) /\ AskedAt(h)
    BY <1>1 DEF AwsInv
  <2>2. HoldsAt(h)'
    BY <1>3, <2>1 DEF HoldsAt
  <2>3. RisingAt(h)'
    <3>1. CASE h = g
      <4>1. \A i \in GotOf(g) : \A k \in m..m : i < k \/ (kind = "follow" /\ i <= histEnd[g] /\ opened[g] < k)
        BY <1>5, <1>6
      <4>2. UNCHANGED <<log, earlier, start, skipDuplicate, kind, histEnd, opened>>
        BY <1>3
      <4> QED
        BY <1>8, <3>1, <4>1, <4>2, BatchRises
    <3>2. CASE h # g
      BY <1>3, <1>9, <2>1, <3>2 DEF RisingAt
    <3> QED
      BY <3>1, <3>2
  <2>4. AskedAt(h)'
    <3>1. CASE h = g
      <4>1. phase[g] # "setup" /\ at[g] <= histEnd[g] /\ opened[g] = 0
        BY <1>1, <1>2 DEF AskedAt
      <4>2. \A k \in DOMAIN log[g] : k > m => log[g][k] >= start
        <5>1. \A k \in DOMAIN log[g] : k > merged[g] => log[g][k] >= start
          BY <1>2, <4>1 DEF AskedAt
        <5>2. \A k \in DOMAIN log[g] : k > m => k > merged[g]
          BY <1>2, <1>5
        <5> QED
          BY <5>1, <5>2
      <4>3. \A k \in GotOf(g)' : k <= m
        <5>1. \A k \in GotOf(g) : k <= m
          BY <1>5, <1>6
        <5>2. m <= m
          BY <1>5
        <5> QED
          BY <1>5, <1>9, <5>1, <5>2
      <4> QED
        BY <1>2, <1>3, <1>5, <1>10, <3>1, <4>1, <4>2, <4>3 DEF AskedAt
    <3>2. CASE h # g
      BY <1>1, <1>3, <1>9, <1>10, <2>1, <3>2 DEF AskedAt
    <3> QED
      BY <3>1, <3>2
  <2> QED
    BY <2>2, <2>3, <2>4
<1>15. Querying' /\ kind' = kind
  BY <1>1, <1>3 DEF Querying
<1> HIDE DEF PastTimes
<1> QED
  BY <1>4, <1>9, <1>11, <1>12, <1>13, <1>14, <1>15 DEF AwsInv

-----------------------------------------------------------------------------
LEMMA AwsInitHolds == AwsInit => AwsInv
<1> SUFFICES ASSUME AwsInit PROVE AwsInv
  OBVIOUS
<1>1. /\ exists \in [Groups -> BOOLEAN] /\ log = [g \in Groups |-> <<>>]
      /\ ctxDone = FALSE /\ canceled = FALSE /\ drops = 0 /\ earlier = [g \in Groups |-> {}] /\ start = 0
      /\ since = 0 /\ skipDuplicate = FALSE /\ phase = [g \in Groups |-> "setup"]
      /\ opened = [g \in Groups |-> 0] /\ histEnd = [g \in Groups |-> 0] /\ at = [g \in Groups |-> 0]
      /\ hold = [g \in Groups |-> Empty] /\ back = [g \in Groups |-> "live"]
      /\ got = [g \in Groups |-> <<>>] /\ consumer = "setup" /\ last = "nil"
      /\ kind = "none" /\ newest = FALSE /\ limit = 0
      /\ left = [g \in Groups |-> 0] /\ merged = [g \in Groups |-> 0] /\ yielded = 0
  BY DEF AwsInit, TailInit
<1>2. MaxLog \in Nat /\ MaxDrops \in Nat
  BY GroupsAssumption
<1>3. \A g \in Groups : DOMAIN log[g] = {} /\ Len(log[g]) = 0 /\ DOMAIN got[g] = {}
  <2>1. \A g \in Groups : log[g] = <<>> /\ got[g] = <<>>
    BY <1>1
  <2>2. DOMAIN <<>> = {} /\ Len(<<>>) = 0
    OBVIOUS
  <2> QED
    BY <2>1, <2>2
<1>4. Times = {}
  BY <1>3 DEF Times
<1>5. IsFiniteSet(Times) /\ Cardinality(Times) = 0
  BY <1>4, FS_EmptySet
<1>6. \A g \in Groups : GotOf(g) = {} /\ earlier[g] = {}
  BY <1>1, <1>3 DEF GotOf
<1>7. ~Querying /\ kind # "follow"
  BY <1>1 DEF Querying
<1>8. AwsTypeOK
  <2>1. log \in [Groups -> Seq(1..(2 * MaxLog))] /\ got \in [Groups -> Seq(1..MaxLog)]
    <3>1. \A S : <<>> \in Seq(S)
      OBVIOUS
    <3> QED
      BY <1>1, <3>1
  <2>2. ASSUME NEW g \in Groups
        PROVE  /\ opened[g] <= Len(log[g]) /\ histEnd[g] <= Len(log[g])
               /\ at[g] <= Len(log[g]) /\ hold[g].hi <= at[g]
               /\ earlier[g] \union GotOf(g) \subseteq DOMAIN log[g]
    BY <1>1, <1>3, <1>6 DEF Empty, Result
  <2>3. hold \in [Groups -> [lo : 1..(MaxLog + 1), hi : 0..MaxLog, err : Errors]]
    <3>1. Empty \in [lo : 1..(MaxLog + 1), hi : 0..MaxLog, err : Errors]
      BY <1>2 DEF Empty, Result, Errors
    <3> QED
      BY <1>1, <3>1
  <2>4. earlier \in [Groups -> SUBSET (1..MaxLog)] /\ last \in Errors
    BY <1>1 DEF Errors
  <2>5. /\ opened \in [Groups -> 0..MaxLog] /\ histEnd \in [Groups -> 0..MaxLog] /\ at \in [Groups -> 0..MaxLog]
        /\ merged \in [Groups -> 0..MaxLog] /\ drops \in 0..MaxDrops /\ yielded \in 0..MaxLog
        /\ start \in 0..(2 * MaxLog + 1) /\ since \in start..(2 * MaxLog + 1)
    BY <1>1, <1>2
  <2>6. TailTypeOK
    BY <1>1, <2>1, <2>2, <2>3, <2>4, <2>5 DEF TailTypeOK
  <2>7. left \in [Groups -> UNION {0..n : n \in Limits \union {Extra}}]
    <3>1. 0 \in 0..Extra
      BY DEF Extra
    <3>2. 0 \in UNION {0..n : n \in Limits \union {Extra}}
      BY <3>1
    <3> QED
      BY <1>1, <3>2
  <2> QED
    BY <1>1, <1>7, <2>5, <2>6, <2>7 DEF AwsTypeOK
<1>9. Clock
  <2>1. 0 <= MaxLog /\ start <= since /\ since <= 2 * 0 + 1
    BY <1>1, <1>2
  <2> QED
    BY <1>3, <1>5, <2>1 DEF Clock
<1>10. NotYet
  BY <1>1 DEF NotYet
<1>11. Printed /\ Again
  BY <1>1, <1>6 DEF Printed, Again
<1>12. Ended
  BY <1>1 DEF Ended
<1>13. ASSUME NEW g \in Groups PROVE HoldsAt(g) /\ RisingAt(g)
  BY <1>1, <1>3 DEF HoldsAt, RisingAt, Empty, Result
<1> QED
  BY <1>7, <1>8, <1>9, <1>10, <1>11, <1>12, <1>13 DEF AwsInv

LEMMA StutterKeeps ==
  ASSUME AwsInv, UNCHANGED awsVars
  PROVE  AwsInv'
<1>1. /\ UNCHANGED <<exists, log, ctxDone, drops, earlier, start, canceled, phase, opened, histEnd, at, hold,
                     back, got, since, skipDuplicate, consumer, last>>
      /\ UNCHANGED <<kind, newest, limit, left, merged, yielded>>
  BY DEF awsVars, tailVars, provider, asked, progress, printed, query, options
<1>2. \A g \in Groups : GotOf(g)' = GotOf(g)
  BY <1>1 DEF GotOf
<1>3. AwsTypeOK'
  <2>1. TailTypeOK'
    BY <1>1, <1>2 DEF AwsInv, AwsTypeOK, TailTypeOK
  <2> QED
    BY <1>1, <2>1 DEF AwsInv, AwsTypeOK, Querying
<1>4. Clock'
  <2>1. Times' = Times
    BY <1>1 DEF Times
  <2> HIDE DEF Times
  <2> QED
    BY <1>1, <2>1 DEF AwsInv, Clock
<1>5. NotYet' /\ Ended'
  BY <1>1 DEF AwsInv, NotYet, Ended, EndsOnlyCanceled
<1>6. Printed'
  BY <1>1, <1>2 DEF AwsInv, Printed
<1>7. Again'
  BY <1>1, <1>2 DEF AwsInv, Again
<1>8. ASSUME NEW g \in Groups PROVE HoldsAt(g)' /\ RisingAt(g)'
  BY <1>1 DEF AwsInv, HoldsAt, RisingAt
<1>9. ASSUME kind = "follow", NEW g \in Groups PROVE FollowingAt(g)'
  BY <1>1, <1>2, <1>9 DEF AwsInv, FollowingAt, InHistory, InLive, Sends, HeadOf
<1>10. ASSUME Since, kind = "follow" PROVE SeenBefore' /\ \A g \in Groups : CoveredAt(g)'
  <2>1. \A g \in Groups : \A k : Seen(g, k)' <=> Seen(g, k)
    BY <1>1 DEF Seen, Overtaken
  <2>2. SeenBefore'
    BY <1>1, <1>2, <1>10, <2>1 DEF AwsInv, SeenBefore
  <2>3. ASSUME NEW g \in Groups PROVE CoveredAt(g)'
    BY <1>1, <1>2, <1>10, <2>1 DEF AwsInv, CoveredAt, InHistory, InLive, Sends, HeadOf
  <2> QED
    BY <2>2, <2>3
<1>11. ASSUME Querying, NEW g \in Groups PROVE AskedAt(g)'
  BY <1>1, <1>2, <1>11 DEF AwsInv, AskedAt
<1>12. PastTimes' = PastTimes /\ Querying' = Querying
  BY <1>1 DEF PastTimes, Querying
<1> HIDE DEF PastTimes
<1> QED
  BY <1>1, <1>3, <1>4, <1>5, <1>6, <1>7, <1>8, <1>9, <1>10, <1>11, <1>12 DEF AwsInv

LEMMA AwsStep == AwsInv /\ [AwsNext]_awsVars => AwsInv'
<1> SUFFICES ASSUME AwsInv, [AwsNext]_awsVars PROVE AwsInv'
  OBVIOUS
<1>1. CASE World /\ UNCHANGED query
  BY <1>1, CtxDoneKeeps, RecordKeeps DEF World
<1>2. CASE Command
  BY <1>2, CommandKeeps
<1>3. CASE Query
  <2>1. CASE Asked \/ QueryEnds \/ StopPulls
    BY <2>1, AskedKeeps, QueryEndsKeeps, StopPullsKeeps
  <2>2. CASE Receives
    <3>1. kind # "none" /\ UNCHANGED query /\ (Consume \/ Delay \/ Reopen)
      BY <2>2 DEF Receives, Querying
    <3> QED
      BY <3>1, ConsumeKeeps, DelayKeeps, ReopenKeeps
  <2>3. CASE \E g \in Groups : Ask(g) \/ Page(g) \/ PageFails(g) \/ Drop(g) \/ Merge(g)
    BY <2>3, AskKeeps, PageKeeps, PageFailsKeeps, DropKeeps, MergeKeeps
  <2> QED
    BY <1>3, <2>1, <2>2, <2>3 DEF Query
<1>4. CASE Tails(Program)
  <2>1. kind = "follow" /\ kind # "none" /\ Program /\ UNCHANGED query
    BY <1>4 DEF Tails
  <2>2. CASE Main
    BY <2>1, <2>2, SetUpOverKeeps, ConsumeKeeps, DelayKeeps, ReopenKeeps, ChannelClosedKeeps DEF Main
  <2>3. CASE \E g \in Groups : SetUp(g) \/ QueryHistory(g) \/ Notice(g) \/ Deliver(g)
    BY <2>1, <2>3, SetUpKeeps, QueryHistoryKeeps, CtxErrorKeeps, GiveUpKeeps, DeliverKeeps DEF Notice
  <2> QED
    BY <2>1, <2>2, <2>3 DEF Program
<1>5. CASE \E g \in Groups : Tails(Waits(g))
  <2>1. PICK g \in Groups : Tails(Waits(g))
    BY <1>5
  <2>2. kind = "follow" /\ (Poll(g) \/ HistoryPage(g) \/ LiveEvents(g)) /\ UNCHANGED query
    BY <2>1 DEF Tails, Waits
  <2> QED
    BY <2>2, PollKeeps, HistoryPageKeeps, LiveEventsKeeps
<1>6. CASE UNCHANGED awsVars
  BY <1>6, StutterKeeps
<1> QED
  BY <1>1, <1>2, <1>3, <1>4, <1>5, <1>6 DEF AwsNext

\* All that the invariant says of the readings of a CloudWatch log, whatever the
\* command (QueryLogs of byoc/aws, read by receiveLogs).
THEOREM AwsInvHolds == AwsSpec => []AwsInv
<1>1. AwsInit => AwsInv
  BY AwsInitHolds
<1>2. AwsInv /\ [AwsNext]_awsVars => AwsInv'
  BY AwsStep
<1> QED
  BY <1>1, <1>2, PTL DEF AwsSpec

\* Every variable of the readings keeps to its type; the entries that a goroutine or
\* the merge may hold are entries of the log.
THEOREM AwsTypeCorrect == AwsSpec => []AwsTypeOK
<1>1. AwsInv => AwsTypeOK
  BY DEF AwsInv
<1> QED
  BY <1>1, AwsInvHolds, PTL

\* A tail that follows the log leaves no gap where the history hands over to the live
\* events, and a reconnect loses only what another group had overtaken.
THEOREM NoGapFollowing == AwsSpec => []FollowedWithoutGap
<1>1. AwsInv => FollowedWithoutGap
  <2> SUFFICES ASSUME AwsInv, kind = "follow", Since, NEW g \in Groups, NEW i \in DOMAIN got[g],
                      NEW k \in 1..got[g][i]
               PROVE  k \in earlier[g] \union {got[g][j] : j \in 1..i} \/ Overtaken(g, k)
    BY DEF FollowedWithoutGap, NoGap
  <2>1. CoveredAt(g)
    BY DEF AwsInv
  <2>2. k \in {got[g][j] : j \in 1..i} \/ Seen(g, k)
    BY <2>1 DEF CoveredAt
  <2> QED
    BY <2>2 DEF Seen
<1> QED
  BY <1>1, AwsInvHolds, PTL

\* An entry is printed twice only from the overlap of history and live tail, or when
\* another group has moved Since on before it came again.
THEOREM TwiceExplained == AwsSpec => []OnlyOverlapTwice
<1>1. AwsInv => OnlyOverlapTwice
  <2> SUFFICES ASSUME AwsInv, NEW g \in Groups, NEW j \in DOMAIN got[g]
               PROVE  /\ \A i \in 1..(j - 1) :
                           got[g][i] = got[g][j] => got[g][i] > opened[g] /\ got[g][i] <= histEnd[g]
                      /\ got[g][j] \in earlier[g] =>
                           /\ log[g][got[g][j]] = start
                           /\ \E h \in Groups \ {g} : \E k \in GotOf(h) : log[h][k] > start
    BY DEF OnlyOverlapTwice
  <2>1. /\ AwsTypeOK /\ Clock /\ Again /\ RisingAt(g)
    BY DEF AwsInv
  <2>2. /\ Len(got[g]) \in Nat /\ DOMAIN got[g] = 1..Len(got[g])
        /\ \A i \in 1..Len(got[g]) : got[g][i] \in Nat
        /\ opened[g] \in Nat /\ histEnd[g] \in Nat
    BY <2>1, GroupShapes
  <2>3. ASSUME NEW i \in 1..(j - 1), got[g][i] = got[g][j]
        PROVE  got[g][i] > opened[g] /\ got[g][i] <= histEnd[g]
    <3>1. i \in DOMAIN got[g] /\ i < j /\ got[g][i] \in Nat
      BY <2>2
    <3>2. ~(got[g][i] < got[g][j])
      BY <2>3, <3>1
    <3>3. got[g][i] <= histEnd[g] /\ opened[g] < got[g][j]
      BY <2>1, <3>1, <3>2 DEF RisingAt
    <3> QED
      BY <2>2, <2>3, <3>1, <3>3
  <2>4. ASSUME got[g][j] \in earlier[g]
        PROVE  /\ log[g][got[g][j]] = start
               /\ \E h \in Groups \ {g} : \E k \in GotOf(h) : log[h][k] > start
    <3>1. got[g][j] \in GotOf(g) \cap earlier[g]
      BY <2>4 DEF GotOf
    <3> QED
      BY <2>1, <3>1 DEF Again
  <2> QED
    BY <2>3, <2>4
<1> QED
  BY <1>1, AwsInvHolds, PTL

\* A tail that follows the log ends without an error only with its context, or for a
\* log stream that is not there.
THEOREM FollowedEnds == AwsSpec => []FollowedEndExplained
<1>1. AwsInv => FollowedEndExplained
  BY DEF AwsInv, Ended, FollowedEndExplained
<1> QED
  BY <1>1, AwsInvHolds, PTL

-----------------------------------------------------------------------------
\* The range goes on, or the next result of it is not an error.
GoesOn == consumer = "range" \/ (consumer = "yield" /\ last = "nil")

\* Entries of a group that were asked for: at least so many of the first n, and at
\* most so many that are merged.
HasRead(g, n, most) == \E b \in 0..Len(log[g]) : Before(g, b) /\ n - b >= most
HasMerged(g, n) == \A b \in 0..Len(log[g]) : Before(g, b) => merged[g] - b <= n

\* A group that is asked, before anything is read.
FreshAt(g) ==
  phase[g] # "setup" =>
    /\ merged[g] <= Len(log[g]) /\ Before(g, merged[g]) /\ at[g] = merged[g]
    /\ g \in Queried => phase[g] = "query"

\* What is left of the limit, and why a group is done before its end.
LeftAt(g) ==
  /\ phase[g] = "query" =>
       IF FromTheEnd \/ limit = 0 THEN left[g] = 0
       ELSE left[g] > 0 /\ HasRead(g, at[g] + left[g], limit)
  /\ GoesOn /\ phase[g] = "done" /\ g \in Queried /\ at[g] < histEnd[g] =>
       /\ ~FromTheEnd /\ limit > 0 /\ HasRead(g, at[g], limit)
       /\ at[g] >= 1 /\ log[g][at[g]] > start
  /\ g \notin Queried /\ phase[g] # "setup" => merged[g] = at[g] /\ phase[g] = "done"

\* The merge is past the older entries of all groups, those of pages to come included.
EndOf(g) == IF phase[g] = "failed" THEN at[g] ELSE histEnd[g]

InOrder ==
  \A g \in Queried, h \in Groups : \A k \in (merged[g] + 1)..EndOf(g) : \A m \in 1..merged[h] :
    log[h][m] < log[g][k]

\* What the merge was to show and left out.
LeftOut(g) ==
  {k \in 1..merged[g] :
     /\ k \notin GotOf(g)
     /\ log[g][k] > start \/ (log[g][k] = start /\ ~skipDuplicate)}
NoneLeftOut == \A g \in Groups : LeftOut(g) = {}

\* Only the last entries are shown, of what is then known to be all.
OnlyTheLast ==
  /\ ~TakesLast => NoneLeftOut
  /\ \A g, h \in Groups : \A k \in LeftOut(g) : \A m \in GotOf(h) : log[g][k] < log[h][m]
  /\ yielded = 0 => \A g \in Groups : GotOf(g) = {}
  /\ TakesLast /\ (yielded > 0 \/ ~NoneLeftOut) => \A g \in Groups : phase[g] # "query"
  /\ TakesLast /\ yielded > 0 => Cardinality(Unmerged) <= limit - yielded
  /\ TakesLast /\ ~NoneLeftOut => Cardinality(Unmerged) >= limit - yielded

\* What was counted was shown, but for one duplicate.
ShownTimes == UNION {{log[g][k] : k \in GotOf(g)} : g \in Groups}

Counted ==
  /\ Cardinality(ShownTimes) <= yielded
  /\ yielded <= Cardinality(ShownTimes) + (IF skipDuplicate /\ start \in PastTimes THEN 1 ELSE 0)
  /\ kind = "groups" /\ limit > 0 => yielded <= limit
  /\ ~TakesLast => \A g \in Groups : HasMerged(g, yielded)

\* How far a query has come.
QueryAt ==
  /\ newest => since >= 1 /\ (skipDuplicate => start >= 1)
  /\ \A g \in Groups : LeftAt(g)
  /\ consumer = "setup" => \A g \in Groups : FreshAt(g)
  /\ consumer # "setup" => InOrder /\ OnlyTheLast /\ Counted
  /\ QueryShowsEnough

QueryInv ==
  /\ AwsInv
  /\ kind # "follow" => last # "notFound"
  /\ Querying => QueryAt

\* What a query that comes to its end is to have shown.
Enough ==
  \/ \A g \in Groups : Found(g) \subseteq GotOf(g)
  \/ /\ limit > 0 /\ ShownEntries + (IF skipDuplicate THEN 1 ELSE 0) >= limit
     /\ kind = "groups" => ShownEntries <= limit
     /\ kind = "build" => \E k \in GotOf(Build) : log[Build][k] > start

LEMMA EnoughAtTheEnd == QueryShowsEnough <=> (Querying /\ consumer = "end" => Enough)
BY DEF QueryShowsEnough, Enough

\* There is one first entry that was asked for.
LEMMA OneFirst ==
  ASSUME NEW g \in Groups, Len(log[g]) \in Nat, DOMAIN log[g] = 1..Len(log[g]),
         NEW a \in 0..Len(log[g]), NEW b \in 0..Len(log[g]), Before(g, a), Before(g, b)
  PROVE  a = b
<1>1. \A k \in 1..Len(log[g]) : k <= a <=> k <= b
  BY DEF Before
<1>2. ~(a < b)
  BY <1>1
<1>3. ~(b < a)
  BY <1>1
<1> QED
  BY <1>2, <1>3

\* Where the groups are during the query, for the provers.
LEMMA PlaceFacts ==
  ASSUME AwsInv, Querying, NEW g \in Groups
  PROVE  /\ Len(log[g]) \in Nat /\ DOMAIN log[g] = 1..Len(log[g])
         /\ at[g] \in Nat /\ histEnd[g] \in Nat /\ merged[g] \in Nat /\ yielded \in Nat /\ limit \in Nat
         /\ start \in Nat /\ since \in Nat
         /\ at[g] <= Len(log[g]) /\ histEnd[g] <= Len(log[g])
         /\ phase[g] \in {"setup", "query", "done", "failed"}
         /\ phase[g] # "setup" => merged[g] <= at[g] /\ at[g] <= histEnd[g]
         /\ consumer # "setup" => phase[g] # "setup"
         /\ \A k \in 1..Len(log[g]) : log[g][k] \in Nat
         /\ \A m \in GotOf(g) : m \in 1..Len(log[g]) /\ m <= merged[g]
<1>1. /\ AskedAt(g) /\ phase \in [Groups -> {"setup", "query", "done", "failed"}]
      /\ Len(log[g]) \in Nat /\ DOMAIN log[g] = 1..Len(log[g])
      /\ at[g] \in Nat /\ histEnd[g] \in Nat /\ merged[g] \in Nat
      /\ at[g] <= Len(log[g]) /\ histEnd[g] <= Len(log[g])
      /\ yielded \in Nat
      /\ \A k \in 1..Len(log[g]) : log[g][k] \in Nat
  BY QueriedFacts
<1>2. AwsTypeOK /\ Clock
  BY DEF AwsInv
<1>3. limit \in Nat
  <2>1. limit \in Limits \union {0}
    BY <1>2 DEF AwsTypeOK
  <2> QED
    BY <2>1, LimitsAssumption DEF LimitsAssumption
<1>4. start \in Nat /\ since \in Nat /\ \A m \in GotOf(g) : m \in 1..Len(log[g])
  BY <1>2, GroupShapes
<1> QED
  BY <1>1, <1>3, <1>4 DEF AskedAt

\* Entries that are recorded later change nothing of what was asked for.
Grown ==
  \A h \in Groups :
    /\ DOMAIN log[h] \subseteq DOMAIN log'[h]
    /\ \A k \in DOMAIN log[h] : log'[h][k] = log[h][k]
    /\ \A k \in DOMAIN log'[h] \ DOMAIN log[h] : log'[h][k] > start

LEMMA GrownFacts ==
  ASSUME AwsInv, AwsInv', Querying, UNCHANGED <<start, skipDuplicate, merged, at, got>>, Grown
  PROVE  /\ \A h \in Groups : GotOf(h)' = GotOf(h)
         /\ \A h \in Groups : \A b \in 0..Len(log'[h]) : Before(h, b)' => b \in 0..Len(log[h]) /\ Before(h, b)
         /\ \A h \in Groups : \A b \in 0..Len(log[h]) : Before(h, b) => Before(h, b)'
         /\ consumer # "setup" =>
              /\ \A h \in Groups : LeftOut(h)' = LeftOut(h)
              /\ PastTimes' = PastTimes /\ Unmerged' = Unmerged
         /\ ShownTimes' = ShownTimes
<1>1. ASSUME NEW h \in Groups
      PROVE  /\ Len(log[h]) \in Nat /\ DOMAIN log[h] = 1..Len(log[h])
             /\ Len(log'[h]) \in Nat /\ DOMAIN log'[h] = 1..Len(log'[h]) /\ Len(log[h]) <= Len(log'[h])
             /\ at[h] \in Nat /\ merged[h] \in Nat /\ at[h] <= Len(log[h])
             /\ consumer # "setup" => merged[h] <= at[h]
             /\ start \in Nat /\ \A k \in DOMAIN log'[h] : log'[h][k] \in Nat
  <2>1. /\ Len(log[h]) \in Nat /\ DOMAIN log[h] = 1..Len(log[h])
        /\ at[h] \in Nat /\ merged[h] \in Nat /\ at[h] <= Len(log[h])
        /\ consumer # "setup" => merged[h] <= at[h]
        /\ start \in Nat
    BY PlaceFacts
  <2>2. log'[h] \in Seq(1..(2 * MaxLog))
    BY DEF AwsInv, AwsTypeOK, TailTypeOK
  <2>3. Len(log'[h]) \in Nat /\ DOMAIN log'[h] = 1..Len(log'[h])
    BY <2>2, LenProperties
  <2>4. \A k \in DOMAIN log'[h] : log'[h][k] \in 1..(2 * MaxLog)
    BY <2>2, <2>3, ElementOfSeq
  <2>5. \A x \in 1..(2 * MaxLog) : x \in Nat
    OBVIOUS
  <2>6. Len(log[h]) <= Len(log'[h])
    <3>1. CASE Len(log[h]) = 0
      BY <2>3, <3>1
    <3>2. CASE Len(log[h]) # 0
      <4>1. Len(log[h]) \in DOMAIN log'[h]
        BY <2>1, <3>2 DEF Grown
      <4> QED
        BY <2>3, <4>1
    <3> QED
      BY <3>1, <3>2
  <2> QED
    BY <2>1, <2>3, <2>4, <2>5, <2>6
<1>2. \A h \in Groups : GotOf(h)' = GotOf(h)
  BY DEF GotOf
<1>3. ASSUME NEW h \in Groups, NEW b \in 0..Len(log'[h]), Before(h, b)'
      PROVE  b \in 0..Len(log[h]) /\ Before(h, b)
  <2>1. \A k \in DOMAIN log'[h] : k <= b <=> log'[h][k] < start
    BY <1>3 DEF Before
  <2>2. b <= Len(log[h])
    <3>1. ASSUME b > Len(log[h]) PROVE FALSE
      <4>1. b \in DOMAIN log'[h] \ DOMAIN log[h] /\ b <= b
        BY <1>1, <3>1
      <4>2. log'[h][b] > start /\ log'[h][b] < start
        BY <2>1, <4>1 DEF Grown
      <4> QED
        BY <1>1, <4>1, <4>2
    <3> QED
      BY <1>1, <3>1
  <2>3. \A k \in DOMAIN log[h] : k <= b <=> log[h][k] < start
    BY <2>1 DEF Grown
  <2> QED
    BY <1>1, <2>2, <2>3 DEF Before
<1>4. ASSUME NEW h \in Groups, NEW b \in 0..Len(log[h]), Before(h, b)
      PROVE  Before(h, b)'
  <2>1. \A k \in DOMAIN log[h] : k <= b <=> log[h][k] < start
    BY <1>4 DEF Before
  <2>2. ASSUME NEW k \in DOMAIN log'[h] PROVE k <= b <=> log'[h][k] < start
    <3>1. CASE k \in DOMAIN log[h]
      BY <2>1, <3>1 DEF Grown
    <3>2. CASE k \notin DOMAIN log[h]
      <4>1. log'[h][k] > start /\ log'[h][k] \in Nat
        BY <1>1, <2>2, <3>2 DEF Grown
      <4>2. ~(k <= b)
        BY <1>1, <3>2
      <4> QED
        BY <1>1, <4>1, <4>2
    <3> QED
      BY <3>1, <3>2
  <2>3. b \in 0..Len(log'[h])
    BY <1>1
  <2> QED
    BY <2>2, <2>3 DEF Before
<1>5. ASSUME consumer # "setup"
      PROVE  /\ \A h \in Groups : LeftOut(h)' = LeftOut(h)
             /\ PastTimes' = PastTimes /\ Unmerged' = Unmerged
  <2>1. \A h \in Groups : \A k \in 1..at[h] : log'[h][k] = log[h][k]
    BY <1>1 DEF Grown
  <2>2. \A h \in Groups : \A k \in 1..merged[h] : k \in 1..at[h]
    BY <1>1, <1>5
  <2>3. \A h \in Groups : \A k \in (merged[h] + 1)..at[h] : k \in 1..at[h]
    BY <1>1
  <2>4. ASSUME NEW h \in Groups PROVE LeftOut(h)' = LeftOut(h)
    BY <1>2, <2>1, <2>2 DEF LeftOut
  <2>5. PastTimes' = PastTimes
    <3>1. \A x : x \in PastTimes <=> \E h \in Groups : \E k \in 1..merged[h] : x = log[h][k]
      BY DEF PastTimes
    <3>2. \A x : x \in PastTimes' <=> \E h \in Groups : \E k \in 1..merged[h] : x = log'[h][k]
      BY DEF PastTimes
    <3>3. \A x : x \in PastTimes' <=> x \in PastTimes
      BY <2>1, <2>2, <3>1, <3>2
    <3> QED
      BY <3>3
  <2>6. Unmerged' = Unmerged
    <3>1. \A x : x \in Unmerged <=> \E h \in Groups : \E k \in (merged[h] + 1)..at[h] : x = log[h][k]
      BY DEF Unmerged
    <3>2. \A x : x \in Unmerged' <=> \E h \in Groups : \E k \in (merged[h] + 1)..at[h] : x = log'[h][k]
      BY DEF Unmerged
    <3>3. \A x : x \in Unmerged' <=> x \in Unmerged
      BY <2>1, <2>3, <3>1, <3>2
    <3> QED
      BY <3>3
  <2> QED
    BY <2>4, <2>5, <2>6
<1>6. ShownTimes' = ShownTimes
  <2>1. \A h \in Groups : \A k \in GotOf(h) : log'[h][k] = log[h][k]
    <3>1. \A h \in Groups : \A k \in GotOf(h) : k \in DOMAIN log[h]
      BY PlaceFacts
    <3> QED
      BY <3>1 DEF Grown
  <2>2. \A x : x \in ShownTimes <=> \E h \in Groups : \E k \in GotOf(h) : x = log[h][k]
    BY DEF ShownTimes
  <2>3. \A x : x \in ShownTimes' <=> \E h \in Groups : \E k \in GotOf(h) : x = log'[h][k]
    BY <1>2 DEF ShownTimes
  <2>4. \A x : x \in ShownTimes' <=> x \in ShownTimes
    BY <2>1, <2>2, <2>3
  <2> QED
    BY <2>4
<1> QED
  BY <1>2, <1>3, <1>4, <1>5, <1>6

\* A step after which the merge is where it was.
LEMMA QuietKeeps ==
  ASSUME QueryInv, AwsInv', Querying, Grown,
         UNCHANGED <<options, start, since, skipDuplicate, got, at, histEnd, left, merged, yielded>>,
         consumer' = "setup" <=> consumer = "setup",
         \A h \in Groups :
           phase'[h] = phase[h] \/ /\ phase[h] = "query" /\ consumer # "setup"
                                   /\ phase'[h] = "failed" \/ (phase'[h] = "done" /\ ~GoesOn'),
         GoesOn' => GoesOn, last' # "notFound",
         consumer' = "end" => consumer = "end" \/ Enough
  PROVE  QueryInv'
<1>1. AwsInv /\ QueryAt
  BY DEF QueryInv
<1>2. /\ \A h \in Groups : GotOf(h)' = GotOf(h)
      /\ \A h \in Groups : \A b \in 0..Len(log'[h]) : Before(h, b)' => b \in 0..Len(log[h]) /\ Before(h, b)
      /\ \A h \in Groups : \A b \in 0..Len(log[h]) : Before(h, b) => Before(h, b)'
      /\ consumer # "setup" =>
           /\ \A h \in Groups : LeftOut(h)' = LeftOut(h)
           /\ PastTimes' = PastTimes /\ Unmerged' = Unmerged
      /\ ShownTimes' = ShownTimes
  BY <1>1, GrownFacts
<1>3. /\ kind' = kind /\ newest' = newest /\ limit' = limit /\ Querying' /\ Queried' = Queried
      /\ FromTheEnd' = FromTheEnd /\ TakesLast' = TakesLast
  BY DEF options, Querying, Queried, FromTheEnd, TakesLast
<1>4. ASSUME NEW h \in Groups
      PROVE  /\ Len(log[h]) \in Nat /\ DOMAIN log[h] = 1..Len(log[h])
             /\ Len(log'[h]) \in Nat /\ DOMAIN log'[h] = 1..Len(log'[h]) /\ Len(log[h]) <= Len(log'[h])
             /\ at[h] \in Nat /\ histEnd[h] \in Nat /\ merged[h] \in Nat /\ at[h] <= Len(log[h]) /\ histEnd[h] <= Len(log[h])
             /\ consumer # "setup" => merged[h] <= at[h] /\ at[h] <= histEnd[h] /\ phase[h] # "setup"
             /\ \A k \in 1..Len(log[h]) : log'[h][k] = log[h][k]
  <2>1. /\ Len(log[h]) \in Nat /\ DOMAIN log[h] = 1..Len(log[h])
        /\ at[h] \in Nat /\ histEnd[h] \in Nat /\ merged[h] \in Nat /\ at[h] <= Len(log[h]) /\ histEnd[h] <= Len(log[h])
        /\ consumer # "setup" => merged[h] <= at[h] /\ at[h] <= histEnd[h] /\ phase[h] # "setup"
    BY <1>1, PlaceFacts
  <2>2. log'[h] \in Seq(1..(2 * MaxLog))
    BY DEF AwsInv, AwsTypeOK, TailTypeOK
  <2>3. Len(log'[h]) \in Nat /\ DOMAIN log'[h] = 1..Len(log'[h])
    BY <2>2, LenProperties
  <2>4. Len(log[h]) <= Len(log'[h])
    <3>1. CASE Len(log[h]) = 0
      BY <2>3, <3>1
    <3>2. CASE Len(log[h]) # 0
      <4>1. Len(log[h]) \in DOMAIN log'[h]
        BY <2>1, <3>2 DEF Grown
      <4> QED
        BY <2>3, <4>1
    <3> QED
      BY <3>1, <3>2
  <2> QED
    BY <2>1, <2>3, <2>4 DEF Grown
<1>5. \A h \in Groups : \A n, most : HasRead(h, n, most) => HasRead(h, n, most)'
  <2>1. \A h \in Groups : \A b \in 0..Len(log[h]) : b \in 0..Len(log'[h])
    BY <1>4
  <2> QED
    BY <1>2, <2>1 DEF HasRead
<1>6. \A h \in Groups : HasMerged(h, yielded) => HasMerged(h, yielded)'
  BY <1>2 DEF HasMerged
<1>7. ASSUME NEW h \in Groups PROVE LeftAt(h)'
  <2>1. LeftAt(h)
    BY <1>1 DEF QueryAt
  <2>2. left'[h] = left[h] /\ at'[h] = at[h] /\ histEnd'[h] = histEnd[h] /\ merged'[h] = merged[h] /\ start' = start
    OBVIOUS
  <2>3. ASSUME phase'[h] = "query"
        PROVE  IF FromTheEnd' \/ limit' = 0 THEN left'[h] = 0
               ELSE left'[h] > 0 /\ HasRead(h, at[h] + left[h], limit)'
    <3>1. phase[h] = "query"
      BY <2>3
    <3> QED
      BY <1>3, <1>5, <2>1, <2>2, <3>1 DEF LeftAt
  <2>4. ASSUME GoesOn', phase'[h] = "done", h \in Queried', at'[h] < histEnd'[h]
        PROVE  /\ ~FromTheEnd' /\ limit' > 0 /\ HasRead(h, at[h], limit)'
               /\ at'[h] >= 1 /\ log'[h][at'[h]] > start'
    <3>1. GoesOn /\ phase[h] = "done" /\ h \in Queried /\ at[h] < histEnd[h]
      BY <1>3, <2>2, <2>4
    <3>2. /\ ~FromTheEnd /\ limit > 0 /\ HasRead(h, at[h], limit)
          /\ at[h] >= 1 /\ log[h][at[h]] > start
      BY <2>1, <3>1 DEF LeftAt
    <3>3. at[h] \in 1..Len(log[h])
      BY <1>4, <3>2
    <3> QED
      BY <1>3, <1>4, <1>5, <2>2, <3>2, <3>3
  <2>5. ASSUME h \notin Queried', phase'[h] # "setup" PROVE merged'[h] = at'[h] /\ phase'[h] = "done"
    <3>1. h \notin Queried
      BY <1>3, <2>5
    <3>2. phase[h] # "setup"
      BY <2>5
    <3>3. merged[h] = at[h] /\ phase[h] = "done"
      BY <2>1, <3>1, <3>2 DEF LeftAt
    <3> QED
      BY <2>2, <3>3
  <2> QED
    BY <2>2, <2>3, <2>4, <2>5, <1>3 DEF LeftAt, HasRead
<1>8. ASSUME consumer' = "setup", NEW h \in Groups PROVE FreshAt(h)'
  <2>1. consumer = "setup" /\ FreshAt(h) /\ phase'[h] = phase[h]
    BY <1>1, <1>8 DEF QueryAt
  <2>2. ASSUME phase[h] # "setup" PROVE merged[h] <= Len(log'[h]) /\ Before(h, merged[h])'
    <3>1. merged[h] <= Len(log[h]) /\ Before(h, merged[h])
      BY <2>1, <2>2 DEF FreshAt
    <3>2. merged[h] \in 0..Len(log[h])
      BY <1>4, <3>1
    <3>3. Before(h, merged[h])'
      BY <1>2, <3>1, <3>2
    <3> QED
      BY <1>4, <3>1, <3>3
  <2> QED
    BY <1>3, <2>1, <2>2 DEF FreshAt, Before
<1>9. ASSUME consumer' # "setup" PROVE InOrder' /\ OnlyTheLast' /\ Counted'
  <2>1. consumer # "setup" /\ InOrder /\ OnlyTheLast /\ Counted
    BY <1>1, <1>9 DEF QueryAt
  <2>2. InOrder'
    <3>1. ASSUME NEW g \in Queried, NEW h \in Groups, g \in Groups,
                 NEW k \in (merged[g] + 1)..EndOf(g)', NEW m \in 1..merged[h]
          PROVE  log'[h][m] < log'[g][k]
      <4>1. k \in (merged[g] + 1)..EndOf(g) /\ k \in 1..Len(log[g])
        <5>1. EndOf(g)' \in Nat /\ EndOf(g) \in Nat /\ EndOf(g)' <= EndOf(g) /\ EndOf(g) <= Len(log[g])
          BY <1>4, <2>1, <3>1 DEF EndOf
        <5> QED
          BY <1>4, <3>1, <5>1
      <4>2. m \in 1..Len(log[h])
        BY <1>4, <2>1
      <4>3. log[h][m] < log[g][k]
        BY <2>1, <4>1 DEF InOrder
      <4> QED
        BY <1>4, <3>1, <4>1, <4>2, <4>3
    <3>2. Queried \subseteq Groups
      BY LimitsAssumption DEF Queried
    <3> QED
      BY <1>3, <3>1, <3>2 DEF InOrder
  <2>3. OnlyTheLast'
    <3>1. NoneLeftOut' <=> NoneLeftOut
      BY <1>2, <2>1 DEF NoneLeftOut
    <3>2. Unmerged' = Unmerged
      BY <1>2, <2>1
    <3>3. ASSUME NEW g \in Groups, NEW h \in Groups, NEW k \in LeftOut(g), NEW m \in GotOf(h)
          PROVE  log'[g][k] < log'[h][m]
      <4>1. k \in 1..Len(log[g]) /\ m \in 1..Len(log[h])
        <5>1. k \in 1..merged[g]
          BY DEF LeftOut
        <5>2. m \in 1..Len(log[h])
          BY <1>1, PlaceFacts
        <5> QED
          BY <1>4, <2>1, <5>1, <5>2
      <4>2. log[g][k] < log[h][m]
        BY <2>1 DEF OnlyTheLast
      <4> QED
        BY <1>4, <4>1, <4>2
    <3>4. \A g, h \in Groups : \A k \in LeftOut(g)' : \A m \in GotOf(h)' : log'[g][k] < log'[h][m]
      BY <1>2, <2>1, <3>3
    <3>5. TakesLast' /\ (yielded' > 0 \/ ~NoneLeftOut') => \A g \in Groups : phase'[g] # "query"
      BY <1>3, <2>1, <3>1 DEF OnlyTheLast
    <3> HIDE DEF Unmerged
    <3>6. /\ ~TakesLast' => NoneLeftOut'
          /\ yielded' = 0 => \A g \in Groups : GotOf(g)' = {}
          /\ TakesLast' /\ yielded' > 0 => Cardinality(Unmerged') <= limit' - yielded'
          /\ TakesLast' /\ ~NoneLeftOut' => Cardinality(Unmerged') >= limit' - yielded'
      BY <1>2, <1>3, <2>1, <3>1, <3>2 DEF OnlyTheLast
    <3> QED
      BY <3>4, <3>5, <3>6 DEF OnlyTheLast
  <2>4. Counted'
    BY <1>2, <1>3, <1>6, <2>1 DEF Counted, HasMerged
  <2> QED
    BY <2>2, <2>3, <2>4
<1>10. QueryShowsEnough'
  <2>1. ASSUME consumer' = "end" PROVE Enough'
    <3>1. Enough /\ consumer # "setup"
      BY <1>1, <2>1, EnoughAtTheEnd DEF QueryAt
    <3>2. CASE \A g \in Groups : Found(g) \subseteq GotOf(g)
      <4>1. ASSUME NEW g \in Groups, NEW k \in Found(g)' PROVE k \in Found(g)
        <5>1. k \in 1..histEnd[g] /\ g \in Queried /\ phase'[g] # "failed"
          BY <1>3, <4>1 DEF Found
        <5>2. log'[g][k] = log[g][k]
          BY <1>4, <5>1
        <5>3. phase[g] # "failed"
          BY <5>1
        <5> QED
          BY <4>1, <5>1, <5>2, <5>3 DEF Found
      <4>2. \A g \in Groups : Found(g)' \subseteq GotOf(g)'
        BY <1>2, <3>2, <4>1
      <4> QED
        BY <4>2 DEF Enough
    <3>3. CASE /\ limit > 0 /\ ShownEntries + (IF skipDuplicate THEN 1 ELSE 0) >= limit
               /\ kind = "groups" => ShownEntries <= limit
               /\ kind = "build" => \E k \in GotOf(Build) : log[Build][k] > start
      <4>1. ShownEntries' = ShownEntries
        <5>1. ShownEntries = Cardinality(ShownTimes) /\ ShownEntries' = Cardinality(ShownTimes')
          BY DEF ShownEntries, ShownTimes
        <5> QED
          BY <1>2, <5>1
      <4>2. ASSUME kind = "build" PROVE \E k \in GotOf(Build)' : log'[Build][k] > start
        <5>1. PICK k \in GotOf(Build) : log[Build][k] > start
          BY <3>3, <4>2
        <5>2. Build \in Groups
          BY LimitsAssumption
        <5>3. k \in 1..Len(log[Build])
          BY <1>1, <5>1, <5>2, PlaceFacts
        <5> QED
          BY <1>2, <1>4, <5>1, <5>2, <5>3
      <4> QED
        BY <1>3, <3>3, <4>1, <4>2 DEF Enough
    <3> QED
      BY <3>1, <3>2, <3>3 DEF Enough
  <2>2. QueryShowsEnough' <=> (Querying' /\ consumer' = "end" => Enough')
    BY DEF QueryShowsEnough, Enough
  <2> QED
    BY <2>1, <2>2
<1>11. newest' => since' >= 1 /\ (skipDuplicate' => start' >= 1)
  BY <1>1, <1>3 DEF QueryAt
<1> QED
  BY <1>3, <1>7, <1>8, <1>9, <1>10, <1>11 DEF QueryInv, QueryAt

LEMMA CtxDoneQ ==
  ASSUME QueryInv, AwsInv', Querying, CtxDone, UNCHANGED query
  PROVE  QueryInv'
<1>1. last # "notFound" /\ QueryAt
  BY DEF QueryInv, Querying
<1>2. /\ UNCHANGED <<options, start, since, skipDuplicate, got, at, histEnd, left, merged, yielded, log, phase,
                     consumer, last>>
  BY DEF CtxDone, progress, printed, asked, query, options
<1>3. Grown
  BY <1>2 DEF Grown
<1>4. consumer = "end" => Enough
  BY <1>1, EnoughAtTheEnd DEF QueryAt
<1> QED
  BY <1>1, <1>2, <1>3, <1>4, QuietKeeps DEF GoesOn

LEMMA RecordQ ==
  ASSUME QueryInv, AwsInv', Querying, NEW g \in Groups, Record(g), UNCHANGED query
  PROVE  QueryInv'
<1> DEFINE N == Cardinality(Times)
<1>1. last # "notFound" /\ QueryAt /\ AwsInv
  BY DEF QueryInv, Querying
<1>2. /\ UNCHANGED <<options, start, since, skipDuplicate, got, at, histEnd, left, merged, yielded, phase,
                     consumer, last>>
      /\ log' = [log EXCEPT ![g] = Append(log[g], 2 * (N + 1))]
  BY DEF Record, progress, printed, asked, query, options
<1>3. 2 * (N + 1) \in Nat /\ 2 * (N + 1) > start
  <2>1. N \in Nat /\ start <= since /\ since <= 2 * N + 1
    BY <1>1, FS_CardinalityType DEF AwsInv, Clock
  <2>2. start \in Nat /\ since \in Nat
    BY <1>1, PlaceFacts
  <2> HIDE DEF N
  <2> QED
    BY <2>1, <2>2
<1> HIDE DEF N
<1>4. Grown
  <2>1. log \in [Groups -> Seq(Nat)]
    <3>1. \A h \in Groups : log[h] \in Seq(1..(2 * MaxLog))
      BY <1>1 DEF AwsInv, AwsTypeOK, TailTypeOK
    <3>2. 1..(2 * MaxLog) \subseteq Nat
      OBVIOUS
    <3>3. \A h \in Groups : log[h] \in Seq(Nat)
      BY <3>1, <3>2, SeqMonotonic
    <3>4. log = [h \in Groups |-> log[h]]
      BY <1>1 DEF AwsInv, AwsTypeOK, TailTypeOK
    <3> QED
      BY <3>3, <3>4
  <2>2. ASSUME NEW h \in Groups
        PROVE  /\ DOMAIN log[h] \subseteq DOMAIN log'[h]
               /\ \A k \in DOMAIN log[h] : log'[h][k] = log[h][k]
               /\ \A k \in DOMAIN log'[h] \ DOMAIN log[h] : log'[h][k] > start
    <3>1. CASE h = g
      <4>1. log'[h] = Append(log[h], 2 * (N + 1))
        BY <1>2, <2>1, <3>1
      <4>2. log[h] \in Seq(Nat)
        BY <2>1
      <4>3. /\ log'[h] \in Seq(Nat) /\ Len(log'[h]) = Len(log[h]) + 1
            /\ \A i \in 1..(Len(log[h]) + 1) : log'[h][i] = IF i <= Len(log[h]) THEN log[h][i] ELSE 2 * (N + 1)
        BY <1>3, <4>1, <4>2, AppendProperties
      <4>4. DOMAIN log[h] = 1..Len(log[h]) /\ DOMAIN log'[h] = 1..(Len(log[h]) + 1) /\ Len(log[h]) \in Nat
        BY <4>2, <4>3, LenProperties
      <4>5. \A k \in DOMAIN log[h] : k \in DOMAIN log'[h] /\ k <= Len(log[h])
        BY <4>4
      <4>6. \A k \in DOMAIN log'[h] \ DOMAIN log[h] : k \in 1..(Len(log[h]) + 1) /\ ~(k <= Len(log[h]))
        BY <4>4
      <4>7. \A k \in DOMAIN log[h] : log'[h][k] = log[h][k]
        BY <4>3, <4>4, <4>5
      <4>8. \A k \in DOMAIN log'[h] \ DOMAIN log[h] : log'[h][k] > start
        BY <1>3, <4>3, <4>6
      <4> QED
        BY <4>5, <4>7, <4>8
    <3>2. CASE h # g
      <4>1. log'[h] = log[h]
        BY <1>2, <2>1, <3>2
      <4> QED
        BY <4>1
    <3> QED
      BY <3>1, <3>2
  <2> QED
    BY <2>2 DEF Grown
<1>5. consumer = "end" => Enough
  BY <1>1, EnoughAtTheEnd DEF QueryAt
<1> QED
  BY <1>1, <1>2, <1>4, <1>5, QuietKeeps DEF GoesOn

LEMMA ReceivesQ ==
  ASSUME QueryInv, AwsInv', Querying, Consume \/ Delay, UNCHANGED query
  PROVE  QueryInv'
<1>1. last # "notFound" /\ QueryAt
  BY DEF QueryInv, Querying
<1>2. /\ UNCHANGED <<options, start, since, skipDuplicate, got, at, histEnd, left, merged, yielded, log, phase, last>>
  BY DEF Consume, Delay, provider, progress, printed, asked, query, options
<1>3. Grown
  BY <1>2 DEF Grown
<1>4. /\ consumer \in {"yield", "delay"} /\ consumer' \in {"range", "error", "stopped", "delay", "stop"}
      /\ consumer' = "range" => last = "nil" /\ consumer = "yield"
  BY <1>1 DEF Consume, Delay, EndsAt, SeenAs
<1>5. GoesOn' => GoesOn
  BY <1>4 DEF GoesOn
<1> QED
  BY <1>1, <1>2, <1>3, <1>4, <1>5, QuietKeeps

LEMMA StopPullsQ ==
  ASSUME QueryInv, AwsInv', StopPulls
  PROVE  QueryInv'
<1>1. Querying /\ last # "notFound" /\ QueryAt
  BY DEF QueryInv, Querying, StopPulls
<1>2. /\ UNCHANGED <<options, start, since, skipDuplicate, got, at, histEnd, left, merged, yielded, log, consumer, last>>
      /\ consumer \in {"stop", "failed", "stopped", "error", "end"}
      /\ phase' = [h \in Groups |-> IF phase[h] = "query" THEN "done" ELSE phase[h]]
  BY DEF StopPulls, provider, progress, printed, asked, query, options, Overs
<1>3. Grown
  BY <1>2 DEF Grown
<1>4. consumer = "end" => Enough
  BY <1>1, EnoughAtTheEnd DEF QueryAt
<1>5. ~GoesOn' /\ consumer # "setup"
  BY <1>2 DEF GoesOn
<1>6. \A h \in Groups : phase'[h] = phase[h] \/ (phase[h] = "query" /\ phase'[h] = "done")
  BY <1>2
<1> QED
  BY <1>1, <1>2, <1>3, <1>4, <1>5, <1>6, QuietKeeps

LEMMA PageFailsQ ==
  ASSUME QueryInv, AwsInv', NEW g \in Groups, PageFails(g)
  PROVE  QueryInv'
<1>1. Querying /\ consumer = "range" /\ phase[g] = "query" /\ last # "notFound" /\ phase \in [Groups -> {"setup", "query", "done", "failed"}]
  <2>1. Querying /\ consumer = "range" /\ phase[g] = "query"
    BY DEF PageFails, Pulls
  <2> QED
    BY <2>1, QueriedFacts DEF QueryInv, Querying
<1>2. UNCHANGED <<options, start, since, skipDuplicate, got, at, histEnd, left, merged, yielded, log>>
  BY DEF PageFails, provider, progress, printed, asked, query, options
<1>3. \/ phase' = [phase EXCEPT ![g] = "failed"] /\ UNCHANGED <<consumer, last>>
      \/ phase' = [phase EXCEPT ![g] = "done"] /\ consumer' = "yield" /\ last' \in {"stream", "context"}
  BY DEF PageFails, Enter
<1>4. Grown
  BY <1>2 DEF Grown
<1>5. /\ consumer' \in {"range", "yield"} /\ last' # "notFound" /\ GoesOn
      /\ \A h \in Groups : \/ phase'[h] = phase[h]
                           \/ phase[h] = "query" /\ phase'[h] = "failed"
                           \/ phase[h] = "query" /\ phase'[h] = "done" /\ ~GoesOn'
  BY <1>1, <1>3 DEF GoesOn
<1> QED
  BY <1>1, <1>2, <1>4, <1>5, QuietKeeps

\* All times that were shown, merged or read are times of the log.
LEMMA TimesFacts ==
  ASSUME AwsInv, Querying, consumer # "setup"
  PROVE  /\ IsFiniteSet(ShownTimes) /\ Cardinality(ShownTimes) \in Nat
         /\ IsFiniteSet(Unmerged) /\ Cardinality(Unmerged) \in Nat
<1>1. IsFiniteSet(Times)
  BY DEF AwsInv, Clock
<1>2. \A h \in Groups : \A k \in 1..Len(log[h]) : log[h][k] \in Times
  <2>1. \A h \in Groups : DOMAIN log[h] = 1..Len(log[h])
    BY PlaceFacts
  <2> QED
    BY <2>1 DEF Times
<1>3. ShownTimes \subseteq Times
  <2>1. \A h \in Groups : \A k \in GotOf(h) : k \in 1..Len(log[h])
    BY PlaceFacts
  <2> QED
    BY <1>2, <2>1 DEF ShownTimes
<1>4. Unmerged \subseteq Times
  <2>1. ASSUME NEW h \in Groups, NEW k \in (merged[h] + 1)..at[h] PROVE k \in 1..Len(log[h])
    BY PlaceFacts
  <2> QED
    BY <1>2, <2>1 DEF Unmerged
<1> QED
  BY <1>1, <1>3, <1>4, FS_Subset, FS_CardinalityType

\* A query that comes to its end has shown enough.
LEMMA EndsWithEnough ==
  ASSUME QueryInv, QueryEnds
  PROVE  Enough
<1>1. /\ Querying /\ consumer = "range" /\ QueryAt /\ AwsInv /\ OnlyTheLast /\ Counted
      /\ TakenAll \/ (MergesNow /\ Ready = {})
      /\ \A g \in Groups : LeftAt(g)
  BY DEF QueryInv, QueryEnds, QueryAt
<1>2. /\ Cardinality(ShownTimes) \in Nat /\ yielded \in Nat /\ limit \in Nat
      /\ ShownEntries = Cardinality(ShownTimes)
  <2>1. yielded \in Nat /\ limit \in Nat
    BY <1>1, PlaceFacts, GroupsAssumption
  <2> QED
    BY <1>1, <2>1, TimesFacts DEF ShownEntries, ShownTimes
<1> HIDE DEF ShownTimes
<1>3. /\ ShownEntries <= yielded /\ yielded <= ShownEntries + (IF skipDuplicate THEN 1 ELSE 0)
  BY <1>1, <1>2 DEF Counted
<1>4. CASE TakenAll
  <2>1. kind = "groups" /\ limit > 0 /\ yielded >= limit /\ yielded <= limit
    BY <1>1, <1>4 DEF TakenAll, Counted
  <2>2. ShownEntries + (IF skipDuplicate THEN 1 ELSE 0) >= limit /\ ShownEntries <= limit
    BY <1>2, <1>3, <2>1
  <2> QED
    BY <2>1, <2>2 DEF Enough
<1>5. CASE ~TakenAll
  <2>1. ASSUME NEW g \in Groups
        PROVE  /\ merged[g] = at[g] /\ phase[g] \in {"done", "failed"} /\ at[g] <= histEnd[g]
               /\ at[g] \in Nat /\ histEnd[g] \in Nat
    <3>1. /\ merged[g] <= at[g] /\ merged[g] \in Nat /\ at[g] \in Nat /\ histEnd[g] \in Nat /\ at[g] <= histEnd[g]
          /\ phase[g] \in {"query", "done", "failed"}
      BY <1>1, PlaceFacts
    <3>2. ~(merged[g] < at[g])
      BY <1>1, <1>5 DEF Ready
    <3>3. ~Pulls(g)
      BY <1>1, <1>5 DEF MergesNow
    <3> QED
      BY <1>1, <1>5, <3>1, <3>2, <3>3 DEF Pulls
  <2>2. NoneLeftOut
    <3>1. ASSUME ~NoneLeftOut PROVE FALSE
      <4>1. TakesLast /\ Cardinality(Unmerged) >= limit - yielded
        BY <1>1, <3>1 DEF OnlyTheLast
      <4>2. Unmerged = {}
        <5>1. \A g \in Groups : (merged[g] + 1)..at[g] = {}
          BY <2>1
        <5> QED
          BY <5>1 DEF Unmerged
      <4>3. Cardinality(Unmerged) = 0
        BY <4>2, FS_EmptySet
      <4>4. yielded >= limit
        BY <1>2, <4>1, <4>3
      <4> QED
        BY <1>5, <4>1, <4>4 DEF TakesLast, TakenAll
    <3> QED
      BY <3>1
  <2>3. CASE \A g \in Queried : phase[g] = "done" => at[g] = histEnd[g]
    <3>1. ASSUME NEW g \in Groups, NEW k \in Found(g) PROVE k \in GotOf(g)
      <4>1. /\ k \in 1..histEnd[g] /\ g \in Queried /\ phase[g] # "failed"
            /\ log[g][k] > start \/ (log[g][k] = start /\ ~skipDuplicate)
        BY <3>1 DEF Found
      <4>2. k \in 1..merged[g]
        BY <2>1, <2>3, <4>1
      <4> QED
        BY <2>2, <4>1, <4>2 DEF NoneLeftOut, LeftOut
    <3> QED
      BY <3>1 DEF Enough
  <2>4. CASE ~ \A g \in Queried : phase[g] = "done" => at[g] = histEnd[g]
    <3>1. Queried \subseteq Groups
      BY LimitsAssumption DEF Queried
    <3>2. PICK g \in Queried : phase[g] = "done" /\ at[g] # histEnd[g]
      BY <2>4
    <3>3. g \in Groups /\ at[g] < histEnd[g] /\ GoesOn /\ merged[g] = at[g]
      BY <1>1, <2>1, <3>1, <3>2 DEF GoesOn
    <3>4. ~FromTheEnd /\ limit > 0 /\ HasRead(g, at[g], limit) /\ at[g] >= 1 /\ log[g][at[g]] > start
      BY <1>1, <3>2, <3>3 DEF LeftAt
    <3>5. ~TakesLast /\ HasMerged(g, yielded)
      BY <1>1, <3>3, <3>4 DEF TakesLast, Counted
    <3>6. yielded >= limit
      <4>1. PICK b \in 0..Len(log[g]) : Before(g, b) /\ at[g] - b >= limit
        BY <3>4 DEF HasRead
      <4>2. at[g] - b <= yielded
        BY <3>3, <3>5, <4>1 DEF HasMerged
      <4>3. at[g] \in Nat /\ b \in Int
        BY <2>1, <3>3
      <4> QED
        BY <1>2, <4>1, <4>2, <4>3
    <3>7. kind = "build" /\ g = Build
      BY <1>1, <1>5, <3>2, <3>4, <3>6 DEF TakenAll, Querying, Queried
    <3>8. ShownEntries + (IF skipDuplicate THEN 1 ELSE 0) >= limit
      BY <1>2, <1>3, <3>6
    <3>9. at[g] \in 1..merged[g]
      BY <2>1, <3>3, <3>4
    <3>10. at[g] \in GotOf(g)
      BY <2>2, <3>3, <3>4, <3>9 DEF NoneLeftOut, LeftOut
    <3> QED
      BY <3>4, <3>7, <3>8, <3>10 DEF Enough
  <2> QED
    BY <2>3, <2>4
<1> QED
  BY <1>4, <1>5

LEMMA QueryEndsQ ==
  ASSUME QueryInv, AwsInv', QueryEnds
  PROVE  QueryInv'
<1>1. Querying /\ last # "notFound"
  BY DEF QueryInv, Querying, QueryEnds
<1>2. /\ UNCHANGED <<options, start, since, skipDuplicate, got, at, histEnd, left, merged, yielded, log, phase, last>>
      /\ consumer = "range" /\ consumer' = "end"
  BY DEF QueryEnds, provider, progress, printed, asked, query, options
<1>3. Grown
  BY <1>2 DEF Grown
<1>4. Enough
  BY EndsWithEnough
<1>5. GoesOn /\ ~GoesOn'
  BY <1>2 DEF GoesOn
<1> QED
  BY <1>1, <1>2, <1>3, <1>4, <1>5, QuietKeeps

\* All groups are asked: nothing older than what was asked for counts.
LEMMA AskedQ ==
  ASSUME QueryInv, AwsInv', Asked
  PROVE  QueryInv'
<1>1. /\ Querying /\ QueryAt /\ AwsInv /\ last # "notFound" /\ consumer = "setup" /\ \A g \in Groups : phase[g] # "setup"
      /\ \A g \in Groups : LeftAt(g) /\ FreshAt(g)
  BY DEF QueryInv, Querying, Asked, QueryAt
<1>2. /\ UNCHANGED <<kind, newest, limit, start, since, skipDuplicate, got, at, histEnd, left, merged, log, phase, last>>
      /\ consumer' = "range" /\ yielded' = 0
  BY DEF Asked, provider, progress, printed, asked, options
<1>3. /\ Querying' /\ Queried' = Queried /\ FromTheEnd' = FromTheEnd /\ TakesLast' = TakesLast
  BY <1>1, <1>2 DEF Querying, Queried, FromTheEnd, TakesLast
<1>4. ASSUME NEW g \in Groups
      PROVE  /\ Len(log[g]) \in Nat /\ DOMAIN log[g] = 1..Len(log[g])
             /\ merged[g] \in Nat /\ merged[g] <= Len(log[g]) /\ Before(g, merged[g]) /\ at[g] = merged[g]
             /\ histEnd[g] \in Nat /\ histEnd[g] <= Len(log[g])
             /\ g \in Queried => phase[g] = "query"
             /\ GotOf(g) = {} /\ start \in Nat
             /\ \A k \in 1..Len(log[g]) : log[g][k] \in Nat
  <2>1. got[g] = <<>>
    BY <1>1 DEF AwsInv, AskedAt
  <2>2. GotOf(g) = {}
    BY <2>1 DEF GotOf
  <2> QED
    BY <1>1, <2>2, PlaceFacts DEF FreshAt
<1>5. ASSUME NEW g \in Groups PROVE LeftAt(g)'
  <2>1. ~(phase[g] = "done" /\ g \in Queried)
    BY <1>4
  <2>2. HasRead(g, at[g] + left[g], limit)' <=> HasRead(g, at[g] + left[g], limit)
    BY <1>2 DEF HasRead, Before
  <2> QED
    BY <1>1, <1>2, <1>3, <2>1, <2>2 DEF LeftAt
<1>6. InOrder'
  <2>1. ASSUME NEW g \in Queried, NEW h \in Groups, NEW k \in (merged[g] + 1)..EndOf(g), NEW m \in 1..merged[h]
        PROVE  log[h][m] < log[g][k]
    <3>1. g \in Groups
      BY LimitsAssumption DEF Queried
    <3>2. k \in 1..Len(log[g]) /\ ~(k <= merged[g]) /\ k \in DOMAIN log[g]
      BY <1>4, <3>1 DEF EndOf
    <3>3. m \in 1..Len(log[h]) /\ m <= merged[h] /\ m \in DOMAIN log[h]
      BY <1>4
    <3>4. ~(log[g][k] < start)
      BY <1>4, <3>1, <3>2 DEF Before
    <3>5. log[h][m] < start
      BY <1>4, <3>3 DEF Before
    <3>6. log[g][k] \in Nat /\ log[h][m] \in Nat /\ start \in Nat
      BY <1>4, <3>1, <3>2, <3>3
    <3> QED
      BY <3>4, <3>5, <3>6
  <2>2. \A g : EndOf(g)' = EndOf(g)
    BY <1>2 DEF EndOf
  <2> QED
    BY <1>2, <1>3, <2>1, <2>2 DEF InOrder
<1>7. \A g \in Groups : GotOf(g)' = {} /\ LeftOut(g)' = {}
  <2>1. ASSUME NEW g \in Groups PROVE GotOf(g)' = {}
    BY <1>2, <1>4 DEF GotOf
  <2>2. ASSUME NEW g \in Groups, NEW k \in 1..merged[g]
        PROVE  ~(log[g][k] > start) /\ log[g][k] # start
    <3>1. k \in DOMAIN log[g] /\ k <= merged[g] /\ k \in 1..Len(log[g])
      BY <1>4
    <3>2. log[g][k] < start /\ log[g][k] \in Nat /\ start \in Nat
      BY <1>4, <3>1 DEF Before
    <3> QED
      BY <3>2
  <2>3. ASSUME NEW g \in Groups PROVE LeftOut(g)' = {}
    BY <1>2, <2>2 DEF LeftOut
  <2> QED
    BY <2>1, <2>3
<1>8. OnlyTheLast'
  <2>1. NoneLeftOut' /\ ~(yielded' > 0)
    BY <1>2, <1>7 DEF NoneLeftOut
  <2> HIDE DEF Unmerged
  <2> QED
    BY <1>7, <2>1 DEF OnlyTheLast
<1>9. Counted'
  <2>1. ShownTimes' = {}
    BY <1>7 DEF ShownTimes
  <2>2. Cardinality(ShownTimes') = 0
    BY <2>1, FS_EmptySet
  <2>3. \A g \in Groups : HasMerged(g, 0)'
    <3>1. ASSUME NEW g \in Groups, NEW b \in 0..Len(log[g]), Before(g, b) PROVE merged[g] - b <= 0
      <4>1. merged[g] \in 0..Len(log[g])
        BY <1>4
      <4>2. b = merged[g]
        BY <1>4, <3>1, <4>1, OneFirst
      <4> QED
        BY <1>4, <4>2
    <3> QED
      BY <1>2, <3>1 DEF HasMerged, Before
  <2>4. limit \in Nat
    BY <1>1, PlaceFacts, GroupsAssumption
  <2>5. \A g \in Groups : HasMerged(g, yielded)'
    BY <1>2, <2>3 DEF HasMerged
  <2>6. yielded' <= Cardinality(ShownTimes') + (IF skipDuplicate' /\ start' \in PastTimes' THEN 1 ELSE 0)
    BY <1>2, <2>2
  <2> QED
    BY <1>2, <2>2, <2>4, <2>5, <2>6 DEF Counted
<1>10. QueryShowsEnough'
  BY <1>2 DEF QueryShowsEnough
<1> QED
  BY <1>1, <1>2, <1>3, <1>5, <1>6, <1>8, <1>9, <1>10 DEF QueryInv, QueryAt

LEMMA AskQ ==
  ASSUME QueryInv, AwsInv', NEW g \in Groups, Ask(g)
  PROVE  QueryInv'
<1>1. /\ Querying /\ QueryAt /\ AwsInv /\ last # "notFound" /\ consumer = "setup" /\ phase[g] = "setup"
      /\ \A h \in Groups : LeftAt(h) /\ FreshAt(h)
  BY DEF QueryInv, Querying, Ask, QueryAt
<1>2. /\ AskedAt(g) /\ phase \in [Groups -> {"setup", "query", "done", "failed"}]
      /\ histEnd \in [Groups -> 0..MaxLog] /\ at \in [Groups -> 0..MaxLog]
      /\ merged \in [Groups -> 0..MaxLog]
      /\ left \in [Groups -> UNION {0..n : n \in Limits \union {Extra}}]
      /\ Len(log[g]) \in Nat /\ DOMAIN log[g] = 1..Len(log[g])
  BY <1>1, QueriedFacts
<1>3. PICK n \in 0..Len(log[g]) :
        /\ Before(g, n)
        /\ at' = [at EXCEPT ![g] = n] /\ merged' = [merged EXCEPT ![g] = n]
  BY DEF Ask
<1>4. /\ UNCHANGED <<kind, newest, limit, start, since, skipDuplicate, got, log, last, consumer, yielded>>
      /\ phase' = [phase EXCEPT ![g] = IF g \in Queried THEN "query" ELSE "done"]
      /\ left' = [left EXCEPT ![g] = IF FromTheEnd THEN 0 ELSE limit]
      /\ histEnd' = [histEnd EXCEPT ![g] = Len(log[g])]
  BY DEF Ask, Enter, EndsNow, provider, printed, asked, options
<1>5. /\ Querying' /\ Queried' = Queried /\ FromTheEnd' = FromTheEnd
  BY <1>1, <1>4 DEF Querying, Queried, FromTheEnd
<1>6. limit \in Nat
  BY <1>1, PlaceFacts
<1>7. ASSUME NEW h \in Groups PROVE LeftAt(h)' /\ FreshAt(h)'
  <2>1. CASE h = g
    <3>1. /\ at'[g] = n /\ merged'[g] = n /\ left'[g] = IF FromTheEnd THEN 0 ELSE limit
          /\ phase'[g] = IF g \in Queried THEN "query" ELSE "done"
      BY <1>2, <1>3, <1>4
    <3>2. ~GoesOn'
      BY <1>1, <1>4 DEF GoesOn
    <3>3. ASSUME ~FromTheEnd, limit # 0 PROVE left'[g] > 0 /\ HasRead(g, n + limit, limit)'
      <4>1. left'[g] = limit /\ limit > 0
        BY <1>6, <3>1, <3>3
      <4>2. (n + limit) - n >= limit
        BY <1>6
      <4>3. Before(g, n)'
        BY <1>3, <1>4 DEF Before
      <4>4. n \in 0..Len(log'[g])
        BY <1>4
      <4>5. HasRead(g, n + limit, limit)'
        BY <1>4, <4>2, <4>3, <4>4 DEF HasRead
      <4> QED
        BY <4>1, <4>5
    <3>4. IF FromTheEnd' \/ limit' = 0 THEN left'[g] = 0
          ELSE left'[g] > 0 /\ HasRead(g, at[g] + left[g], limit)'
      <4>1. CASE FromTheEnd \/ limit = 0
        BY <1>4, <1>5, <3>1, <4>1
      <4>2. CASE ~(FromTheEnd \/ limit = 0)
        <5>1. at'[g] + left'[g] = n + limit /\ limit' = limit
          BY <1>4, <3>1, <4>2
        <5>2. HasRead(g, n + limit, limit)' => HasRead(g, at[g] + left[g], limit)'
          BY <5>1 DEF HasRead
        <5> QED
          BY <1>4, <1>5, <3>3, <4>2, <5>2
      <4> QED
        BY <4>1, <4>2
    <3>5. LeftAt(g)'
      BY <1>5, <3>1, <3>2, <3>4 DEF LeftAt
    <3>6. FreshAt(g)'
      <4>1. n <= Len(log[g]) /\ log' = log /\ start' = start
        BY <1>2, <1>4
      <4>2. Before(g, n)'
        BY <1>3, <4>1 DEF Before
      <4>3. Before(g, merged[g])'
        BY <3>1, <4>2 DEF Before
      <4> QED
        BY <1>5, <3>1, <4>1, <4>3 DEF FreshAt
    <3> QED
      BY <2>1, <3>5, <3>6
  <2>2. CASE h # g
    <3>1. /\ at'[h] = at[h] /\ merged'[h] = merged[h] /\ left'[h] = left[h] /\ phase'[h] = phase[h] /\ histEnd'[h] = histEnd[h]
      BY <1>2, <1>3, <1>4, <2>2
    <3>2. LeftAt(h) /\ FreshAt(h) /\ (GoesOn' <=> GoesOn)
      BY <1>1, <1>4 DEF GoesOn
    <3>3. LeftAt(h)'
      BY <1>4, <1>5, <3>1, <3>2 DEF LeftAt, HasRead, Before
    <3>4. FreshAt(h)'
      BY <1>4, <1>5, <3>1, <3>2 DEF FreshAt, Before
    <3> QED
      BY <3>3, <3>4
  <2> QED
    BY <2>1, <2>2
<1>8. QueryShowsEnough' /\ (newest' => since' >= 1 /\ (skipDuplicate' => start' >= 1))
  BY <1>1, <1>4 DEF QueryShowsEnough, QueryAt
<1> QED
  BY <1>1, <1>4, <1>5, <1>7, <1>8 DEF QueryInv, QueryAt

\* A page only moves the group on that it is of.
LEMMA PageQ ==
  ASSUME QueryInv, AwsInv', NEW g \in Groups, Page(g)
  PROVE  QueryInv'
<1>1. /\ Querying /\ QueryAt /\ AwsInv /\ last # "notFound" /\ consumer = "range" /\ phase[g] = "query"
      /\ \A h \in Groups : LeftAt(h)
      /\ InOrder /\ OnlyTheLast /\ Counted
  BY DEF QueryInv, Querying, Page, Pulls, QueryAt
<1>2. /\ AskedAt(g) /\ phase \in [Groups -> {"setup", "query", "done", "failed"}]
      /\ at \in [Groups -> 0..MaxLog]
      /\ left \in [Groups -> UNION {0..n : n \in Limits \union {Extra}}]
  BY <1>1, QueriedFacts
<1>3. PICK n \in 0..(histEnd[g] - at[g]) :
        /\ left[g] = 0 \/ n <= left[g]
        /\ at' = [at EXCEPT ![g] = at[g] + n]
        /\ \/ LimitAfter(g, n) >= 0
              /\ left' = [left EXCEPT ![g] = LimitAfter(g, n)] /\ UNCHANGED phase
           \/ /\ LimitAfter(g, n) < 0 \/ at[g] + n >= histEnd[g]
              /\ Enter(g, "done") /\ UNCHANGED left
  BY DEF Page
<1>4. /\ UNCHANGED <<kind, newest, limit, start, since, skipDuplicate, got, log, last, consumer, yielded, merged, histEnd>>
  BY DEF Page, provider, printed, asked, options
<1>5. /\ Querying' /\ Queried' = Queried /\ FromTheEnd' = FromTheEnd /\ TakesLast' = TakesLast /\ g \in Queried
  <2>1. g \in Queried
    BY <1>1 DEF LeftAt
  <2> QED
    BY <1>1, <1>4, <2>1 DEF Querying, Queried, FromTheEnd, TakesLast
<1>6. /\ Len(log[g]) \in Nat /\ DOMAIN log[g] = 1..Len(log[g]) /\ limit \in Nat /\ at[g] \in Nat /\ histEnd[g] \in Nat
      /\ at[g] <= histEnd[g] /\ histEnd[g] <= Len(log[g]) /\ merged[g] \in Nat /\ merged[g] <= at[g]
      /\ start \in Nat /\ \A k \in 1..Len(log[g]) : log[g][k] \in Nat
      /\ yielded \in Nat
  BY <1>1, PlaceFacts
<1>7. n \in Nat /\ at[g] + n <= histEnd[g]
  BY <1>6
<1>8. left[g] \in Nat
  <2>1. PICK m \in Limits \union {Extra} : left[g] \in 0..m
    BY <1>2
  <2>2. m \in Nat
    BY LimitsAssumption DEF Extra
  <2> QED
    BY <2>1, <2>2
<1>9. /\ at'[g] = at[g] + n /\ phase'[g] \in {"query", "done"}
      /\ \A h \in Groups \ {g} : at'[h] = at[h] /\ phase'[h] = phase[h] /\ left'[h] = left[h]
      /\ phase'[g] = "query" => left'[g] = LimitAfter(g, n) /\ LimitAfter(g, n) >= 0
      /\ phase'[g] = "done" => LimitAfter(g, n) < 0 \/ at[g] + n >= histEnd[g]
  BY <1>1, <1>2, <1>3 DEF Enter
<1>10. \A h \in Groups : \A a, c : HasRead(h, a, c)' <=> HasRead(h, a, c)
  BY <1>4 DEF HasRead, Before
<1>11. LeftAt(g)'
  <2>1. LeftAt(g)
    BY <1>1
  <2>2. CASE FromTheEnd \/ limit = 0
    <3>1. left[g] = 0
      BY <1>1, <2>1, <2>2 DEF LeftAt
    <3>2. LimitAfter(g, n) = 0
      BY <3>1 DEF LimitAfter
    <3>3. phase'[g] = "query" => left'[g] = 0
      BY <1>9, <3>2
    <3>4. phase'[g] = "done" => ~(at'[g] < histEnd'[g])
      BY <1>4, <1>6, <1>7, <1>9, <3>2
    <3>5. FromTheEnd' \/ limit' = 0
      BY <1>4, <1>5, <2>2
    <3> QED
      BY <1>4, <1>5, <1>9, <3>3, <3>4, <3>5 DEF LeftAt
  <2>3. CASE ~(FromTheEnd \/ limit = 0)
    <3>1. left[g] > 0 /\ HasRead(g, at[g] + left[g], limit) /\ n <= left[g]
      BY <1>1, <1>3, <1>8, <2>1, <2>3 DEF LeftAt
    <3>2. PICK b \in 0..Len(log[g]) : Before(g, b) /\ (at[g] + left[g]) - b >= limit
      BY <3>1 DEF HasRead
    <3>3. b \in Nat
      BY <1>6
    <3>4. ASSUME phase'[g] = "query" PROVE left'[g] > 0 /\ HasRead(g, at'[g] + left'[g], limit)
      <4>1. CASE n < left[g]
        <5>1. left'[g] = left[g] - n
          BY <1>8, <1>9, <3>1, <3>4, <4>1 DEF LimitAfter
        <5>2. left'[g] > 0 /\ (at'[g] + left'[g]) - b >= limit
          BY <1>6, <1>7, <1>8, <1>9, <3>2, <3>3, <4>1, <5>1
        <5> QED
          BY <3>2, <5>2 DEF HasRead
      <4>2. CASE n = left[g]
        <5>1. LimitAfter(g, n) \in {Extra, -1}
          BY <1>8, <3>1, <4>2 DEF LimitAfter
        <5>2. left'[g] = 10
          BY <1>9, <3>4, <5>1 DEF Extra
        <5>3. left'[g] > 0 /\ (at'[g] + left'[g]) - b >= limit
          BY <1>6, <1>7, <1>9, <3>2, <3>3, <4>2, <5>2
        <5> QED
          BY <3>2, <5>3 DEF HasRead
      <4> QED
        BY <1>7, <1>8, <3>1, <4>1, <4>2
    <3>5. ASSUME phase'[g] = "done", at'[g] < histEnd'[g]
          PROVE  limit > 0 /\ HasRead(g, at'[g], limit) /\ at'[g] >= 1 /\ log[g][at'[g]] > start
      <4>1. LimitAfter(g, n) < 0
        BY <1>4, <1>6, <1>7, <1>9, <3>5
      <4>2. ~(n < left[g])
        <5>1. ASSUME n < left[g] PROVE FALSE
          <6>1. LimitAfter(g, n) = left[g] - n
            BY <1>8, <3>1, <5>1 DEF LimitAfter
          <6> QED
            BY <1>7, <1>8, <4>1, <5>1, <6>1
        <5> QED
          BY <5>1
      <4>3. n = left[g]
        BY <1>7, <1>8, <3>1, <4>2
      <4>4. log[g][at[g] + n] # start
        <5>1. ASSUME log[g][at[g] + n] = start PROVE FALSE
          <6>1. LimitAfter(g, n) = Extra
            BY <1>8, <3>1, <4>2, <4>3, <5>1 DEF LimitAfter
          <6> QED
            BY <4>1, <6>1 DEF Extra
        <5> QED
          BY <5>1
      <4>5. at[g] + n \in 1..Len(log[g]) /\ at[g] + n > merged[g] /\ at[g] + n >= 1
        BY <1>6, <1>7, <1>8, <3>1, <4>3
      <4>6. log[g][at[g] + n] >= start
        <5>1. phase[g] # "setup" /\ at[g] + n \in DOMAIN log[g]
          BY <1>1, <1>6, <4>5
        <5> QED
          BY <1>2, <4>5, <5>1 DEF AskedAt
      <4>7. log[g][at[g] + n] > start
        BY <1>6, <4>4, <4>5, <4>6
      <4>8. (at[g] + n) - b >= limit
        BY <3>2, <4>3
      <4>9. HasRead(g, at[g] + n, limit)
        BY <3>2, <4>8 DEF HasRead
      <4>10. limit > 0
        BY <1>6, <2>3
      <4> QED
        BY <1>9, <4>5, <4>7, <4>9, <4>10
    <3>6. ~(FromTheEnd' \/ limit' = 0)
      BY <1>4, <1>5, <2>3
    <3>7. phase'[g] = "query" => left'[g] > 0 /\ HasRead(g, at[g] + left[g], limit)'
      BY <1>4, <3>4 DEF HasRead, Before
    <3>8. phase'[g] = "done" /\ at'[g] < histEnd'[g] =>
            limit' > 0 /\ HasRead(g, at[g], limit)' /\ at'[g] >= 1 /\ log'[g][at'[g]] > start'
      BY <1>4, <3>5 DEF HasRead, Before
    <3> QED
      BY <1>5, <1>9, <3>6, <3>7, <3>8 DEF LeftAt
  <2> QED
    BY <2>2, <2>3
<1>12. ASSUME NEW h \in Groups PROVE LeftAt(h)'
  <2>1. CASE h = g
    BY <1>11, <2>1
  <2>2. CASE h # g
    <3>1. /\ LeftAt(h) /\ at'[h] = at[h] /\ phase'[h] = phase[h] /\ left'[h] = left[h] /\ (GoesOn' <=> GoesOn)
      BY <1>1, <1>4, <1>9, <2>2 DEF GoesOn
    <3> QED
      BY <1>4, <1>5, <3>1 DEF LeftAt, HasRead, Before
  <2> QED
    BY <2>1, <2>2
<1>13. /\ \A h \in Groups : GotOf(h)' = GotOf(h) /\ LeftOut(h)' = LeftOut(h) /\ EndOf(h)' = EndOf(h)
       /\ PastTimes' = PastTimes /\ ShownTimes' = ShownTimes
  <2>1. \A h \in Groups : GotOf(h)' = GotOf(h)
    BY <1>4 DEF GotOf
  <2>2. \A h \in Groups : LeftOut(h)' = LeftOut(h)
    BY <1>4, <2>1 DEF LeftOut
  <2>3. \A h \in Groups : EndOf(h)' = EndOf(h)
    <3>1. \A h \in Groups : (phase'[h] = "failed") <=> (phase[h] = "failed")
      BY <1>1, <1>9
    <3>2. \A h \in Groups : phase[h] = "failed" => at'[h] = at[h]
      BY <1>1, <1>9
    <3> QED
      BY <1>4, <3>1, <3>2 DEF EndOf
  <2>4. PastTimes' = PastTimes
    <3>1. log' = log /\ merged' = merged
      BY <1>4
    <3> QED
      BY <3>1 DEF PastTimes
  <2>5. ShownTimes' = ShownTimes
    <3>1. log' = log /\ got' = got
      BY <1>4
    <3> QED
      BY <3>1 DEF ShownTimes, GotOf
  <2> QED
    BY <2>1, <2>2, <2>3, <2>4, <2>5
<1>14. InOrder'
  <2>1. \A h \in Queried : h \in Groups
    BY LimitsAssumption DEF Queried
  <2> QED
    BY <1>1, <1>4, <1>5, <1>13, <2>1 DEF InOrder
<1>15. OnlyTheLast'
  <2>1. NoneLeftOut' <=> NoneLeftOut
    BY <1>13 DEF NoneLeftOut
  <2>2. TakesLast => ~(yielded > 0) /\ NoneLeftOut
    BY <1>1 DEF OnlyTheLast
  <2> HIDE DEF Unmerged
  <2> QED
    BY <1>1, <1>4, <1>5, <1>13, <2>1, <2>2 DEF OnlyTheLast
<1>16. Counted'
  <2>1. \A h \in Groups : HasMerged(h, yielded)' <=> HasMerged(h, yielded)
    BY <1>4 DEF HasMerged, Before
  <2> QED
    BY <1>1, <1>4, <1>5, <1>13, <2>1 DEF Counted
<1>17. QueryShowsEnough' /\ (newest' => since' >= 1 /\ (skipDuplicate' => start' >= 1))
  BY <1>1, <1>4 DEF QueryShowsEnough, QueryAt
<1> QED
  BY <1>1, <1>4, <1>5, <1>12, <1>14, <1>15, <1>16, <1>17 DEF QueryInv, QueryAt

\* The earliest entry that was read is older than all that are to come.
LEMMA NextInOrder ==
  ASSUME QueryInv, NEW g \in Groups, MergesNow, Earliest(g), ~TakenAll \/ TakesLast
  PROVE  /\ g \in Queried /\ merged[g] < at[g] /\ phase[g] # "setup"
         /\ \A h \in Queried : \A k \in (merged[h] + 1)..EndOf(h) :
              (h # g \/ k # merged[g] + 1) => log[g][merged[g] + 1] < log[h][k]
<1> DEFINE m == merged[g] + 1
<1>1. /\ Querying /\ QueryAt /\ AwsInv /\ consumer = "range" /\ \A h \in Groups : LeftAt(h)
      /\ InOrder /\ OnlyTheLast /\ Counted /\ Clock
      /\ g \in Ready /\ \A h \in Ready : NextTime(g) <= NextTime(h)
      /\ \A h \in Groups : ~Pulls(h)
      /\ TakesLast => \A h \in Groups : phase[h] # "query"
  BY DEF QueryInv, QueryAt, MergesNow, Earliest, AwsInv
<1>2. ASSUME NEW h \in Groups
      PROVE  /\ Len(log[h]) \in Nat /\ DOMAIN log[h] = 1..Len(log[h])
             /\ at[h] \in Nat /\ histEnd[h] \in Nat /\ merged[h] \in Nat /\ at[h] <= Len(log[h]) /\ histEnd[h] <= Len(log[h])
             /\ phase[h] \in {"query", "done", "failed"} /\ merged[h] <= at[h] /\ at[h] <= histEnd[h]
             /\ \A k \in 1..Len(log[h]) : log[h][k] \in Nat
  BY <1>1, PlaceFacts
<1>3. yielded \in Nat /\ limit \in Nat
  BY <1>1, PlaceFacts, GroupsAssumption
<1>4. merged[g] < at[g] /\ NextTime(g) = log[g][m]
  BY <1>1 DEF Ready, NextTime
<1>5. g \in Queried /\ phase[g] # "setup"
  <2>1. phase[g] # "setup" /\ merged[g] # at[g]
    BY <1>2, <1>4
  <2> QED
    BY <1>1, <2>1 DEF LeftAt
<1>6. ASSUME NEW h \in Queried, NEW k \in (merged[h] + 1)..EndOf(h), h # g \/ k # m
      PROVE  log[g][m] < log[h][k]
  <2>1. h \in Groups
    BY LimitsAssumption DEF Queried
  <2>2. k \in 1..Len(log[h]) /\ k > merged[h] /\ k \in Nat
    BY <1>2, <2>1 DEF EndOf
  <2>3. m \in 1..Len(log[g])
    BY <1>2, <1>4
  <2>4. log[g][m] # log[h][k]
    BY <1>1, <1>2, <1>6, <2>1, <2>2, <2>3 DEF Clock
  <2>5. log[g][m] \in Nat /\ log[h][k] \in Nat
    BY <1>2, <2>1, <2>2, <2>3
  <2>6. CASE h \in Ready
    <3>1. log[g][m] <= log[h][merged[h] + 1]
      BY <1>1, <1>4, <2>6 DEF NextTime
    <3>2. merged[h] + 1 \in 1..Len(log[h]) /\ log[h][merged[h] + 1] \in Nat
      BY <1>2, <2>1, <2>2
    <3>3. CASE k = merged[h] + 1
      BY <2>4, <2>5, <3>1, <3>3
    <3>4. CASE k # merged[h] + 1
      <4>1. merged[h] + 1 < k
        BY <1>2, <2>1, <2>2, <3>4
      <4>2. log[h][merged[h] + 1] < log[h][k]
        BY <1>1, <1>2, <2>1, <2>2, <3>2, <4>1 DEF Clock
      <4> QED
        BY <2>5, <3>1, <3>2, <4>2
    <3> QED
      BY <3>3, <3>4
  <2>7. CASE h \notin Ready
    <3>1. merged[h] = at[h]
      BY <1>2, <2>1, <2>7 DEF Ready
    <3>2. phase[h] # "query"
      <4>1. CASE TakesLast
        BY <1>1, <2>1, <4>1
      <4>2. CASE ~TakenAll
        BY <1>1, <2>1, <3>1, <4>2 DEF Pulls
      <4> QED
        BY <4>1, <4>2
    <3>3. phase[h] # "failed"
      BY <1>2, <2>1, <2>2, <3>1 DEF EndOf
    <3>4. phase[h] = "done" /\ at[h] < histEnd[h] /\ GoesOn
      BY <1>1, <1>2, <2>1, <2>2, <3>1, <3>2, <3>3 DEF EndOf, GoesOn
    <3>5. ~FromTheEnd /\ limit > 0 /\ HasRead(h, at[h], limit)
      BY <1>1, <2>1, <3>4 DEF LeftAt
    <3>6. ~TakesLast /\ ~TakenAll /\ HasMerged(h, yielded)
      BY <1>1, <2>1, <3>5 DEF TakesLast, Counted
    <3>7. yielded >= limit
      <4>1. PICK b \in 0..Len(log[h]) : Before(h, b) /\ at[h] - b >= limit
        BY <3>5 DEF HasRead
      <4>2. at[h] - b <= yielded
        BY <3>1, <3>6, <4>1 DEF HasMerged
      <4>3. at[h] \in Nat /\ b \in Int
        BY <1>2, <2>1
      <4> QED
        BY <1>3, <4>1, <4>2, <4>3
    <3>8. kind = "build"
      BY <1>1, <3>5, <3>6, <3>7 DEF TakenAll, Querying
    <3>9. g = h
      BY <1>5, <3>8 DEF Queried
    <3> QED
      BY <1>2, <1>4, <2>1, <3>1, <3>9
  <2> QED
    BY <2>6, <2>7
<1> QED
  BY <1>4, <1>5, <1>6

\* Once it is past that one the merge is still in order.
LEMMA MergeInOrder ==
  ASSUME QueryInv, NEW g \in Groups, MergesNow, Earliest(g), ~TakenAll \/ TakesLast,
         UNCHANGED <<options, log, at, histEnd, phase>>, merged' = [merged EXCEPT ![g] = merged[g] + 1]
  PROVE  InOrder'
<1> DEFINE m == merged[g] + 1
<1>1. Querying /\ AwsInv /\ consumer = "range" /\ InOrder
  BY DEF QueryInv, QueryAt, MergesNow
<1>2. /\ g \in Queried /\ merged[g] < at[g]
      /\ \A h \in Queried : \A k \in (merged[h] + 1)..EndOf(h) : (h # g \/ k # m) => log[g][m] < log[h][k]
  BY NextInOrder
<1>3. merged'[g] = m /\ \A h \in Groups \ {g} : merged'[h] = merged[h]
  BY <1>1 DEF AwsInv, AwsTypeOK
<1>4. \A h \in Groups : merged[h] \in Nat
  BY <1>1, PlaceFacts
<1>5. Queried' = Queried /\ \A h : EndOf(h)' = EndOf(h)
  BY DEF options, Queried, EndOf
<1>6. ASSUME NEW h \in Queried, NEW f \in Groups, NEW k \in (merged'[h] + 1)..EndOf(h), NEW j \in 1..merged'[f]
      PROVE  log[f][j] < log[h][k]
  <2>1. h \in Groups
    BY LimitsAssumption DEF Queried
  <2>2. EndOf(h) \in Nat
    BY <1>1, <2>1, PlaceFacts DEF EndOf
  <2>3. k \in (merged[h] + 1)..EndOf(h) /\ (h # g \/ k # m)
    <3>1. CASE h = g
      BY <1>3, <1>4, <2>1, <2>2, <3>1
    <3>2. CASE h # g
      BY <1>3, <2>1, <3>2
    <3> QED
      BY <3>1, <3>2
  <2>4. j \in 1..merged[f] \/ (f = g /\ j = m)
    <3>1. CASE f = g
      BY <1>3, <1>4, <3>1
    <3>2. CASE f # g
      BY <1>3, <3>2
    <3> QED
      BY <3>1, <3>2
  <2> QED
    BY <1>1, <1>2, <2>3, <2>4 DEF InOrder
<1> QED
  BY <1>5, <1>6 DEF InOrder

\* One less is unmerged.
LEMMA OneLessUnmerged ==
  ASSUME AwsInv, Querying, consumer # "setup", NEW g \in Groups, merged[g] < at[g],
         UNCHANGED <<log, at>>, merged' = [merged EXCEPT ![g] = merged[g] + 1]
  PROVE  Cardinality(Unmerged) \in Nat /\ Cardinality(Unmerged') = Cardinality(Unmerged) - 1
<1> DEFINE m == merged[g] + 1
           t == log[g][m]
<1>1. IsFiniteSet(Unmerged) /\ Cardinality(Unmerged) \in Nat
  BY TimesFacts
<1>2. merged'[g] = m /\ \A h \in Groups \ {g} : merged'[h] = merged[h]
  BY DEF AwsInv, AwsTypeOK
<1>3. ASSUME NEW h \in Groups
      PROVE  merged[h] \in Nat /\ at[h] \in Nat /\ at[h] <= Len(log[h]) /\ Len(log[h]) \in Nat /\ DOMAIN log[h] = 1..Len(log[h])
  BY PlaceFacts
<1>4. \A x : x \in Unmerged <=> \E h \in Groups : \E k \in (merged[h] + 1)..at[h] : x = log[h][k]
  BY DEF Unmerged
<1>5. \A x : x \in Unmerged' <=> \E h \in Groups : \E k \in (merged'[h] + 1)..at[h] : x = log[h][k]
  <2>1. log' = log /\ at' = at
    OBVIOUS
  <2>2. \A x : x \in Unmerged' <=> \E h \in Groups : \E k \in (merged'[h] + 1)..at'[h] : x = log'[h][k]
    BY DEF Unmerged
  <2> QED
    BY <2>1, <2>2
<1>6. m \in (merged[g] + 1)..at[g] /\ t \in Unmerged
  <2>1. m \in (merged[g] + 1)..at[g]
    BY <1>3
  <2> QED
    BY <1>4, <2>1
<1>7. ASSUME NEW h \in Groups, NEW k \in (merged[h] + 1)..at[h]
      PROVE  k \in (merged'[h] + 1)..at[h] <=> log[h][k] # t
  <2>1. k \in DOMAIN log[h] /\ m \in DOMAIN log[g]
    BY <1>3
  <2>2. log[h][k] = t <=> h = g /\ k = m
    BY <2>1 DEF AwsInv, Clock
  <2>3. CASE h = g
    BY <1>2, <1>3, <2>2, <2>3
  <2>4. CASE h # g
    BY <1>2, <2>2, <2>4
  <2> QED
    BY <2>3, <2>4
<1>8. ASSUME NEW h \in Groups, NEW k \in (merged'[h] + 1)..at[h] PROVE k \in (merged[h] + 1)..at[h]
  <2>1. CASE h = g
    BY <1>2, <1>3, <2>1
  <2>2. CASE h # g
    BY <1>2, <2>2
  <2> QED
    BY <2>1, <2>2
<1> HIDE DEF t, m
<1>9. \A x : x \in Unmerged' <=> x \in Unmerged \ {t}
  <2>1. ASSUME NEW x \in Unmerged' PROVE x \in Unmerged \ {t}
    <3>1. PICK h \in Groups : \E k \in (merged'[h] + 1)..at[h] : x = log[h][k]
      BY <1>5, <2>1
    <3>2. PICK k \in (merged'[h] + 1)..at[h] : x = log[h][k]
      BY <3>1
    <3>3. k \in (merged[h] + 1)..at[h]
      BY <1>8
    <3> QED
      BY <1>4, <1>7, <3>2, <3>3
  <2>2. ASSUME NEW x \in Unmerged \ {t} PROVE x \in Unmerged'
    <3>1. PICK h \in Groups : \E k \in (merged[h] + 1)..at[h] : x = log[h][k]
      BY <1>4, <2>2
    <3>2. PICK k \in (merged[h] + 1)..at[h] : x = log[h][k]
      BY <3>1
    <3> QED
      BY <1>5, <1>7, <2>2, <3>2
  <2> QED
    BY <2>1, <2>2
<1>10. Unmerged' = Unmerged \ {t}
  BY <1>9
<1> HIDE DEF Unmerged
<1>11. Cardinality(Unmerged \ {t}) = Cardinality(Unmerged) - 1
  BY <1>1, <1>6, FS_RemoveElement
<1> QED
  BY <1>1, <1>10, <1>11

\* An entry too old to be among the last ones is left out: none has been shown yet.
LEMMA DropQ ==
  ASSUME QueryInv, AwsInv', NEW g \in Groups, Drop(g)
  PROVE  QueryInv'
<1>1. /\ Querying /\ QueryAt /\ AwsInv /\ last # "notFound" /\ consumer = "range" /\ MergesNow /\ Earliest(g)
      /\ TakesLast /\ Cardinality(Unmerged) > limit - yielded
      /\ InOrder /\ OnlyTheLast /\ Counted /\ \A h \in Groups : LeftAt(h)
      /\ \A h \in Groups : phase[h] # "query"
  BY DEF QueryInv, QueryAt, Drop, MergesNow, TooOld, Querying
<1>2. /\ UNCHANGED <<kind, newest, limit, left, yielded, log, start, since, skipDuplicate, got, at, histEnd,
                     phase, consumer, last, options>>
      /\ merged' = [merged EXCEPT ![g] = merged[g] + 1]
  BY DEF Drop, tailVars, provider, asked, progress, printed, options
<1>3. /\ Querying' /\ Queried' = Queried /\ TakesLast' /\ FromTheEnd' = FromTheEnd /\ (GoesOn' <=> GoesOn)
  BY <1>1, <1>2 DEF Querying, Queried, TakesLast, FromTheEnd, GoesOn
<1>4. /\ g \in Queried /\ merged[g] < at[g]
  BY <1>1, NextInOrder
<1>5. /\ limit \in Nat /\ yielded \in Nat
      /\ Cardinality(Unmerged) \in Nat /\ Cardinality(Unmerged') = Cardinality(Unmerged) - 1
  <2>1. limit \in Nat /\ yielded \in Nat
    BY <1>1, PlaceFacts
  <2>2. Cardinality(Unmerged) \in Nat /\ Cardinality(Unmerged') = Cardinality(Unmerged) - 1
    BY <1>1, <1>2, <1>4, OneLessUnmerged
  <2> QED
    BY <2>1, <2>2
<1> HIDE DEF Unmerged
<1>6. yielded = 0 /\ \A h \in Groups : GotOf(h) = {} /\ GotOf(h)' = {}
  <2>1. ~(yielded > 0)
    BY <1>1, <1>5 DEF OnlyTheLast
  <2>2. yielded = 0
    BY <1>5, <2>1
  <2>3. \A h \in Groups : GotOf(h) = {}
    BY <1>1, <2>2 DEF OnlyTheLast
  <2>4. \A h \in Groups : GotOf(h)' = GotOf(h)
    BY <1>2 DEF GotOf
  <2> QED
    BY <2>2, <2>3, <2>4
<1>7. InOrder'
  BY <1>1, <1>2, MergeInOrder
<1>8. OnlyTheLast'
  <2>1. Cardinality(Unmerged') >= limit' - yielded'
    BY <1>1, <1>2, <1>5
  <2>2. ~(yielded' > 0)
    BY <1>2, <1>6
  <2> QED
    BY <1>1, <1>2, <1>3, <1>6, <2>1, <2>2 DEF OnlyTheLast
<1>9. Counted'
  <2>1. ShownTimes' = {}
    BY <1>6 DEF ShownTimes
  <2>2. Cardinality(ShownTimes') = 0
    BY <2>1, FS_EmptySet
  <2> HIDE DEF ShownTimes
  <2>3. yielded' = 0 /\ limit' \in Nat
    BY <1>2, <1>5, <1>6
  <2> QED
    BY <1>3, <2>2, <2>3 DEF Counted
<1>10. ASSUME NEW h \in Groups PROVE LeftAt(h)'
  <2>1. h \in Queried \/ merged'[h] = merged[h]
    BY <1>1, <1>2, <1>4 DEF AwsInv, AwsTypeOK
  <2> QED
    BY <1>1, <1>2, <1>3, <2>1 DEF LeftAt, HasRead, Before
<1>11. consumer' # "setup" /\ QueryShowsEnough' /\ (newest' => since' >= 1 /\ (skipDuplicate' => start' >= 1))
  BY <1>1, <1>2 DEF QueryShowsEnough, QueryAt
<1> QED
  BY <1>1, <1>2, <1>7, <1>8, <1>9, <1>10, <1>11 DEF QueryInv, QueryAt

\* The entry that the merge comes to is shown, unless it is the one that the query was
\* continued from.
ComesTo(g, m) ==
  /\ \A h \in Groups \ {g} : GotOf(h)' = GotOf(h)
  /\ \/ GotOf(g)' = GotOf(g) \union {m}
     \/ GotOf(g)' = GotOf(g) /\ skipDuplicate /\ log[g][m] = start

LEMMA MergeShows ==
  ASSUME AwsInv, NEW g \in Groups, Merge(g)
  PROVE  ComesTo(g, merged[g] + 1)
<1> DEFINE m == merged[g] + 1
<1>1. Querying /\ consumer = "range" /\ merged[g] < at[g] /\ Printed /\ Clock
  BY DEF Merge, MergesNow, Earliest, Ready, AwsInv
<1>2. /\ AskedAt(g) /\ Len(log[g]) \in Nat /\ DOMAIN log[g] = 1..Len(log[g])
      /\ merged[g] \in Nat /\ at[g] \in Nat /\ at[g] <= Len(log[g])
  BY <1>1, QueriedFacts
<1>3. /\ Show(g, m, m) /\ UNCHANGED <<log, earlier, start, skipDuplicate>>
  BY DEF Merge, provider, asked
<1>4. /\ m \in Nat /\ m >= 1 /\ m <= m + 1 /\ m <= at[g] /\ m \in DOMAIN log[g] /\ m > merged[g]
      /\ \A k \in m..m : k = m
      /\ m \in m..m
  BY <1>1, <1>2
<1>5. \A h \in Groups : \A k \in GotOf(h) : k \in 1..Len(log[h]) /\ k <= merged[h]
  BY <1>1, PlaceFacts
<1>6. \A k \in GotOf(g) : k < m
  BY <1>2, <1>5
<1>7. log[g][m] >= start
  BY <1>1, <1>2, <1>4 DEF AskedAt
<1> HIDE DEF m
<1>8. Batch(g, m, m)
  BY <1>3, <1>4, <1>6, <1>7 DEF Batch
<1>9. /\ \A h \in Groups \ {g} : GotOf(h)' = GotOf(h)
      /\ GotOf(g) \subseteq GotOf(g)'
      /\ \A k \in GotOf(g)' \ GotOf(g) : k \in m..m /\ ~IsDuplicate(g, k)
      /\ \A k \in m..m : IsDuplicate(g, k) \/ k \in GotOf(g)'
  BY <1>3, <1>8, BatchFacts
<1>10. CASE m \in GotOf(g)'
  <2>1. GotOf(g)' = GotOf(g) \union {m}
    BY <1>4, <1>9, <1>10
  <2> QED
    BY <1>9, <2>1 DEF ComesTo, m
<1>11. CASE m \notin GotOf(g)'
  <2>1. GotOf(g)' = GotOf(g)
    BY <1>4, <1>9, <1>11
  <2>2. skipDuplicate /\ log[g][m] = since
    BY <1>4, <1>9, <1>11 DEF IsDuplicate
  <2>3. since = start
    <3>1. ASSUME NEW h \in Groups, NEW k \in GotOf(h), log[h][k] = since PROVE FALSE
      <4>1. k \in DOMAIN log[h]
        BY <1>1, <1>5, PlaceFacts
      <4>2. g = h /\ m = k
        BY <1>1, <1>4, <2>2, <3>1, <4>1 DEF Clock
      <4> QED
        BY <1>4, <1>6, <3>1, <4>2
    <3> QED
      BY <1>1, <2>2, <3>1 DEF Printed
  <2> QED
    BY <1>9, <2>1, <2>2, <2>3 DEF ComesTo, m
<1> QED
  BY <1>10, <1>11

\* The times that were shown and those that the merge is past after it.
LEMMA MergeTimes ==
  ASSUME AwsInv, NEW g \in Groups, Merge(g)
  PROVE  LET t == log[g][merged[g] + 1] IN
         /\ t \notin PastTimes /\ t \in PastTimes' /\ PastTimes \subseteq PastTimes'
         /\ Cardinality(ShownTimes') =
              Cardinality(ShownTimes) + (IF GotOf(g)' = GotOf(g) THEN 0 ELSE 1)
<1> DEFINE m == merged[g] + 1
           t == log[g][m]
<1>1. Querying /\ consumer = "range" /\ merged[g] < at[g] /\ Clock /\ ComesTo(g, m)
  BY MergeShows DEF Merge, MergesNow, Earliest, Ready, AwsInv
<1>2. log' = log /\ merged'[g] = m /\ \A h \in Groups \ {g} : merged'[h] = merged[h]
  BY DEF Merge, provider, AwsInv, AwsTypeOK
<1>3. ASSUME NEW h \in Groups
      PROVE  /\ Len(log[h]) \in Nat /\ DOMAIN log[h] = 1..Len(log[h]) /\ merged[h] \in Nat
             /\ merged[h] <= Len(log[h]) /\ at[h] \in Nat /\ at[h] <= Len(log[h])
             /\ \A k \in GotOf(h) : k \in 1..Len(log[h]) /\ k <= merged[h]
  BY <1>1, PlaceFacts
<1>4. m \in DOMAIN log[g] /\ m > merged[g] /\ m \in 1..merged'[g]
  BY <1>1, <1>2, <1>3
<1>5. \A x : x \in PastTimes <=> \E h \in Groups : \E k \in 1..merged[h] : x = log[h][k]
  BY DEF PastTimes
<1>6. \A x : x \in PastTimes' <=> \E h \in Groups : \E k \in 1..merged'[h] : x = log'[h][k]
  BY DEF PastTimes
<1>7. ASSUME NEW h \in Groups, NEW k \in 1..Len(log[h]), k <= merged[h] PROVE log[h][k] # t
  <2>1. k \in DOMAIN log[h]
    BY <1>3
  <2>2. h # g \/ k # m
    BY <1>3, <1>4, <1>7
  <2> QED
    BY <1>1, <1>4, <2>1, <2>2 DEF Clock
<1>8. t \notin PastTimes
  <2>1. \A h \in Groups : \A k \in 1..merged[h] : k \in 1..Len(log[h]) /\ k <= merged[h]
    BY <1>3
  <2> QED
    BY <1>5, <1>7, <2>1
<1>9. t \in PastTimes'
  BY <1>2, <1>4, <1>6
<1>10. PastTimes \subseteq PastTimes'
  <2>1. ASSUME NEW h \in Groups, NEW k \in 1..merged[h] PROVE k \in 1..merged'[h]
    <3>1. CASE h = g
      BY <1>2, <1>3, <3>1
    <3>2. CASE h # g
      BY <1>2, <3>2
    <3> QED
      BY <3>1, <3>2
  <2>2. \A x \in PastTimes : x \in PastTimes'
    BY <1>2, <1>5, <1>6, <2>1
  <2> QED
    BY <2>2
<1>11. \A x : x \in ShownTimes <=> \E h \in Groups : \E k \in GotOf(h) : x = log[h][k]
  BY DEF ShownTimes
<1>12. \A x : x \in ShownTimes' <=> \E h \in Groups : \E k \in GotOf(h)' : x = log[h][k]
  <2>1. \A x : x \in ShownTimes' <=> \E h \in Groups : \E k \in GotOf(h)' : x = log'[h][k]
    BY DEF ShownTimes
  <2> QED
    BY <1>2, <2>1
<1>13. t \notin ShownTimes
  BY <1>3, <1>7, <1>11
<1>14. IsFiniteSet(ShownTimes) /\ Cardinality(ShownTimes) \in Nat
  BY <1>1, TimesFacts
<1>15. m \notin GotOf(g)
  BY <1>3, <1>4
<1> HIDE DEF t, m
<1>16. CASE GotOf(g)' = GotOf(g)
  <2>1. \A h \in Groups : GotOf(h)' = GotOf(h)
    BY <1>1, <1>16 DEF ComesTo
  <2>2. \A x : x \in ShownTimes' <=> x \in ShownTimes
    BY <1>11, <1>12, <2>1
  <2> HIDE DEF ShownTimes
  <2>3. ShownTimes' = ShownTimes
    BY <2>2
  <2>4. Cardinality(ShownTimes') = Cardinality(ShownTimes) + 0
    BY <1>14, <2>3
  <2> QED
    BY <1>8, <1>9, <1>10, <1>16, <2>4 DEF t, m
<1>17. CASE GotOf(g)' # GotOf(g)
  <2>1. GotOf(g)' = GotOf(g) \union {m} /\ \A h \in Groups \ {g} : GotOf(h)' = GotOf(h)
    BY <1>1, <1>17 DEF ComesTo
  <2>2. ASSUME NEW x PROVE x \in ShownTimes' <=> x \in ShownTimes \union {t}
    <3>1. ASSUME x \in ShownTimes' PROVE x \in ShownTimes \union {t}
      <4>1. PICK h \in Groups : \E k \in GotOf(h)' : x = log[h][k]
        BY <1>12, <3>1
      <4>2. PICK k \in GotOf(h)' : x = log[h][k]
        BY <4>1
      <4>3. k \in GotOf(h) \/ (h = g /\ k = m)
        BY <2>1, <4>2
      <4> QED
        BY <1>11, <4>2, <4>3 DEF t
    <3>2. ASSUME x \in ShownTimes PROVE x \in ShownTimes'
      <4>1. PICK h \in Groups : \E k \in GotOf(h) : x = log[h][k]
        BY <1>11, <3>2
      <4>2. PICK k \in GotOf(h) : x = log[h][k]
        BY <4>1
      <4>3. k \in GotOf(h)'
        BY <2>1, <4>2
      <4> QED
        BY <1>12, <4>2, <4>3
    <3>3. t \in ShownTimes'
      BY <1>12, <2>1 DEF t
    <3> QED
      BY <3>1, <3>2, <3>3
  <2> HIDE DEF ShownTimes
  <2>3. ShownTimes' = ShownTimes \union {t}
    BY <2>2
  <2>4. Cardinality(ShownTimes \union {t}) = Cardinality(ShownTimes) + 1
    BY <1>13, <1>14, FS_AddElement
  <2> QED
    BY <1>8, <1>9, <1>10, <1>17, <2>3, <2>4 DEF t, m
<1> QED
  BY <1>16, <1>17

LEMMA MergeQ ==
  ASSUME QueryInv, AwsInv', NEW g \in Groups, Merge(g)
  PROVE  QueryInv'
<1> DEFINE m == merged[g] + 1
           t == log[g][m]
<1>1. /\ Querying /\ QueryAt /\ AwsInv /\ consumer = "range" /\ MergesNow /\ Earliest(g)
      /\ ~TooOld /\ ~TakenAll
      /\ InOrder /\ OnlyTheLast /\ Counted /\ \A h \in Groups : LeftAt(h)
      /\ TakesLast => \A h \in Groups : phase[h] # "query"
  BY DEF QueryInv, QueryAt, Merge, MergesNow
<1>2. /\ UNCHANGED <<kind, newest, limit, left, log, start, skipDuplicate, at, histEnd, phase, options>>
      /\ merged' = [merged EXCEPT ![g] = merged[g] + 1] /\ yielded' = yielded + 1
      /\ consumer' = "yield" /\ last' = "nil"
  BY DEF Merge, provider, asked, progress, options
<1>3. /\ Querying' /\ Queried' = Queried /\ TakesLast' = TakesLast /\ FromTheEnd' = FromTheEnd /\ GoesOn /\ GoesOn'
  BY <1>1, <1>2 DEF Querying, Queried, TakesLast, FromTheEnd, GoesOn
<1>4. /\ g \in Queried /\ merged[g] < at[g]
  BY <1>1, NextInOrder
<1>5. ASSUME NEW h \in Groups
      PROVE  /\ Len(log[h]) \in Nat /\ DOMAIN log[h] = 1..Len(log[h]) /\ merged[h] \in Nat
             /\ at[h] \in Nat /\ histEnd[h] \in Nat /\ at[h] <= histEnd[h]
             /\ limit \in Nat /\ yielded \in Nat /\ start \in Nat /\ since \in Nat
             /\ \A k \in GotOf(h) : k <= merged[h]
  BY <1>1, PlaceFacts
<1>6. ComesTo(g, m)
  BY <1>1, MergeShows
<1>7. /\ t \notin PastTimes /\ t \in PastTimes' /\ PastTimes \subseteq PastTimes'
      /\ Cardinality(ShownTimes') = Cardinality(ShownTimes) + (IF GotOf(g)' = GotOf(g) THEN 0 ELSE 1)
  BY <1>1, MergeTimes
<1>8. /\ Cardinality(Unmerged) \in Nat /\ Cardinality(Unmerged') = Cardinality(Unmerged) - 1
  BY <1>1, <1>2, <1>4, OneLessUnmerged
<1>9. Cardinality(ShownTimes) \in Nat
  BY <1>1, TimesFacts
<1> HIDE DEF Unmerged, ShownTimes, PastTimes
<1>10. merged'[g] = m /\ \A h \in Groups \ {g} : merged'[h] = merged[h]
  BY <1>1, <1>2 DEF AwsInv, AwsTypeOK
<1>11. \A h \in Groups : GotOf(h) \subseteq GotOf(h)'
  BY <1>6 DEF ComesTo
<1>12. ASSUME NEW h \in Groups, NEW k \in LeftOut(h)' PROVE k \in LeftOut(h)
  <2>1. k \in 1..merged'[h] /\ k \notin GotOf(h)' /\ (log[h][k] > start \/ (log[h][k] = start /\ ~skipDuplicate))
    BY <1>2, <1>12 DEF LeftOut
  <2>2. k \in 1..merged[h]
    <3>1. CASE h = g
      <4>1. k # m
        <5>1. ASSUME k = m PROVE FALSE
          <6>1. skipDuplicate /\ log[g][m] = start
            BY <1>6, <2>1, <3>1, <5>1 DEF ComesTo
          <6> QED
            BY <1>5, <2>1, <3>1, <5>1, <6>1
        <5> QED
          BY <5>1
      <4> QED
        BY <1>5, <1>10, <2>1, <3>1, <4>1
    <3>2. CASE h # g
      BY <1>10, <2>1, <3>2
    <3> QED
      BY <3>1, <3>2
  <2> QED
    BY <1>11, <2>1, <2>2 DEF LeftOut
<1>13. InOrder'
  BY <1>1, <1>2, MergeInOrder
<1>14. ASSUME NEW h \in Groups, NEW k \in LeftOut(h) PROVE log[h][k] < t
  <2>1. k \in 1..merged[h]
    BY <1>14 DEF LeftOut
  <2>2. m \in (merged[g] + 1)..EndOf(g)
    BY <1>4, <1>5 DEF EndOf
  <2> QED
    BY <1>1, <1>4, <2>1, <2>2 DEF InOrder
<1> HIDE DEF t, m
<1>15. OnlyTheLast'
  <2>1. NoneLeftOut => NoneLeftOut'
    BY <1>12 DEF NoneLeftOut
  <2>2. ASSUME NEW h \in Groups, NEW f \in Groups, NEW k \in LeftOut(h)', NEW j \in GotOf(f)'
        PROVE  log'[h][k] < log'[f][j]
    <3>1. k \in LeftOut(h)
      BY <1>12
    <3>2. j \in GotOf(f) \/ (f = g /\ j = m)
      BY <1>6 DEF ComesTo
    <3>3. CASE j \in GotOf(f)
      BY <1>1, <1>2, <3>1, <3>3 DEF OnlyTheLast
    <3>4. CASE f = g /\ j = m
      BY <1>2, <1>14, <3>1, <3>4 DEF t
    <3> QED
      BY <3>2, <3>3, <3>4
  <2>3. yielded' # 0
    BY <1>2, <1>5
  <2>4. TakesLast => Cardinality(Unmerged') <= limit' - yielded'
    <3>1. TakesLast => Cardinality(Unmerged) <= limit - yielded
      BY <1>1, <1>5, <1>8 DEF TooOld
    <3> QED
      BY <1>2, <1>5, <1>8, <3>1
  <2>5. TakesLast /\ ~NoneLeftOut' => Cardinality(Unmerged') >= limit' - yielded'
    <3>1. TakesLast /\ ~NoneLeftOut' => Cardinality(Unmerged) >= limit - yielded
      BY <1>1, <2>1 DEF OnlyTheLast
    <3> QED
      BY <1>2, <1>5, <1>8, <3>1
  <2>6. ~TakesLast => NoneLeftOut'
    BY <1>1, <2>1 DEF OnlyTheLast
  <2> HIDE DEF NoneLeftOut
  <2>7. TakesLast' => \A h \in Groups : phase'[h] # "query"
    BY <1>1, <1>2, <1>3
  <2> QED
    BY <1>3, <2>2, <2>3, <2>4, <2>5, <2>6, <2>7 DEF OnlyTheLast
<1>16. Counted'
  <2> DEFINE c == Cardinality(ShownTimes)
             d == Cardinality(ShownTimes')
  <2>1. c \in Nat /\ c <= yielded /\ yielded <= c + (IF skipDuplicate /\ start \in PastTimes THEN 1 ELSE 0)
    BY <1>1, <1>9 DEF Counted
  <2>2. yielded \in Nat /\ yielded' = yielded + 1 /\ limit \in Nat
    BY <1>2, <1>5
  <2>3. d <= yielded' /\ yielded' <= d + (IF skipDuplicate' /\ start' \in PastTimes' THEN 1 ELSE 0)
    <3>1. CASE GotOf(g)' = GotOf(g)
      <4>1. skipDuplicate /\ t = start
        <5>1. m \notin GotOf(g)
          BY <1>5 DEF m
        <5> QED
          BY <1>6, <3>1, <5>1 DEF ComesTo, t
      <4>2. start \notin PastTimes /\ start' \in PastTimes' /\ skipDuplicate'
        BY <1>2, <1>7, <4>1
      <4>3. d = c + 0
        BY <1>7, <3>1
      <4> HIDE DEF c, d
      <4> QED
        BY <2>1, <2>2, <4>2, <4>3
    <3>2. CASE GotOf(g)' # GotOf(g)
      <4>1. d = c + 1
        BY <1>7, <3>2
      <4>2. skipDuplicate /\ start \in PastTimes => skipDuplicate' /\ start' \in PastTimes'
        BY <1>2, <1>7
      <4> HIDE DEF c, d
      <4> QED
        BY <2>1, <2>2, <4>1, <4>2
    <3> QED
      BY <3>1, <3>2
  <2>4. kind' = "groups" /\ limit' > 0 => yielded' <= limit'
    <3>1. kind = "groups" /\ limit > 0 => ~(yielded >= limit)
      BY <1>1 DEF TakenAll
    <3> QED
      BY <1>2, <2>2, <3>1
  <2>5. ~TakesLast' => \A h \in Groups : HasMerged(h, yielded)'
    <3>1. ASSUME ~TakesLast, NEW h \in Groups, NEW b \in 0..Len(log[h]), Before(h, b)
          PROVE  merged'[h] - b <= yielded'
      <4>1. merged[h] - b <= yielded
        BY <1>1, <3>1 DEF Counted, HasMerged
      <4>2. merged'[h] \in {merged[h], merged[h] + 1} /\ merged[h] \in Nat /\ b \in Nat
        <5>1. merged'[h] \in {merged[h], merged[h] + 1}
          BY <1>10 DEF m
        <5> QED
          BY <1>5, <5>1
      <4> QED
        BY <2>2, <4>1, <4>2
    <3> QED
      BY <1>2, <1>3, <3>1 DEF HasMerged, Before
  <2> QED
    BY <2>3, <2>4, <2>5 DEF Counted
<1>17. ASSUME NEW h \in Groups PROVE LeftAt(h)'
  <2>1. h \in Queried \/ merged'[h] = merged[h]
    BY <1>4, <1>10
  <2> QED
    BY <1>1, <1>2, <1>3, <2>1 DEF LeftAt, HasRead, Before
<1>18. consumer' # "setup" /\ QueryShowsEnough'
  BY <1>2 DEF QueryShowsEnough
<1>19. newest' => since' >= 1 /\ (skipDuplicate' => start' >= 1)
  <2>1. newest => since >= 1 /\ (skipDuplicate => start >= 1)
    BY <1>1 DEF QueryAt
  <2>2. since' = IF m <= m /\ log[g][m] > since THEN log[g][m] ELSE since
    BY DEF Merge, Show, m
  <2>3. since' = since \/ since' = log[g][m]
    BY <2>2
  <2>4. log[g][m] \in Nat
    <3>1. m \in 1..Len(log[g]) /\ \A k \in 1..Len(log[g]) : log[g][k] \in Nat
      BY <1>1, <1>4, PlaceFacts DEF m
    <3> QED
      BY <3>1
  <2>5. since' >= since
    BY <1>5, <2>2, <2>4
  <2>6. since' \in Nat
    BY <1>5, <2>3, <2>4
  <2> QED
    BY <1>2, <1>5, <2>1, <2>5, <2>6
<1> QED
  BY <1>3, <1>13, <1>15, <1>16, <1>17, <1>18, <1>19, <1>2 DEF QueryInv, QueryAt

\* A query that is repeated after an error starts over.
LEMMA ReopenQ ==
  ASSUME QueryInv, AwsInv', Querying, Reopen, UNCHANGED query
  PROVE  QueryInv'
<1>1. QueryAt /\ AwsInv
  BY DEF QueryInv
<1>2. /\ consumer' = "setup" /\ \A g \in Groups : phase'[g] = "setup"
      /\ start' = since /\ since' = since /\ last' = "nil" /\ newest' = newest
      /\ kind' = kind
  BY DEF Reopen, query, options
<1>3. \A g \in Groups : FreshAt(g)' /\ LeftAt(g)'
  BY <1>2 DEF FreshAt, LeftAt
<1>4. newest' => since' >= 1 /\ (skipDuplicate' => start' >= 1)
  BY <1>1, <1>2 DEF QueryAt
<1>5. QueryShowsEnough'
  BY <1>2 DEF QueryShowsEnough
<1> QED
  BY <1>2, <1>3, <1>4, <1>5 DEF QueryInv, QueryAt

LEMMA CommandQ ==
  ASSUME QueryInv, AwsInv', Command
  PROVE  QueryInv'
<1>1. AwsInv /\ last # "notFound" /\ kind = "none"
  BY DEF QueryInv, Command
<1>2. consumer = "setup" /\ ~skipDuplicate /\ \A g \in Groups : phase[g] = "setup"
  BY <1>1 DEF AwsInv, NotYet
<1>3. /\ UNCHANGED <<phase, consumer, skipDuplicate, last>>
      /\ newest' => since' = Now
  BY DEF Command
<1>4. Now >= 1
  <2>1. Cardinality(Times) \in Nat
    BY <1>1, FS_CardinalityType DEF AwsInv, Clock
  <2> HIDE DEF Times
  <2> QED
    BY <2>1 DEF Now
<1>5. \A g \in Groups : FreshAt(g)' /\ LeftAt(g)'
  BY <1>2, <1>3 DEF FreshAt, LeftAt
<1>6. QueryShowsEnough'
  BY <1>2, <1>3 DEF QueryShowsEnough
<1>7. newest' => since' >= 1 /\ (skipDuplicate' => start' >= 1)
  BY <1>2, <1>3, <1>4
<1> QED
  BY <1>1, <1>2, <1>3, <1>5, <1>6, <1>7 DEF QueryInv, QueryAt

-----------------------------------------------------------------------------
LEMMA QueryInitHolds == AwsInit => QueryInv
<1> SUFFICES ASSUME AwsInit PROVE QueryInv
  OBVIOUS
<1>1. AwsInv
  BY AwsInitHolds
<1>2. kind = "none" /\ last = "nil"
  BY DEF AwsInit, TailInit
<1> QED
  BY <1>1, <1>2 DEF QueryInv, Querying

LEMMA QueryStepKeeps == QueryInv /\ [AwsNext]_awsVars => QueryInv'
<1> SUFFICES ASSUME QueryInv, [AwsNext]_awsVars PROVE QueryInv'
  OBVIOUS
<1>1. AwsInv /\ AwsInv'
  BY AwsStep DEF QueryInv
<1>2. CASE World /\ UNCHANGED query
  <2>1. CASE Querying
    BY <1>1, <1>2, <2>1, CtxDoneQ, RecordQ DEF World
  <2>2. CASE ~Querying
    <3>1. kind' = kind /\ last' = last
      BY <1>2 DEF World, CtxDone, Record, query, options
    <3> QED
      BY <1>1, <2>2, <3>1 DEF QueryInv, Querying
  <2> QED
    BY <2>1, <2>2
<1>3. CASE Command
  BY <1>1, <1>3, CommandQ
<1>4. CASE Query
  <2>1. CASE Asked \/ QueryEnds \/ StopPulls
    BY <1>1, <2>1, AskedQ, QueryEndsQ, StopPullsQ
  <2>2. CASE Receives
    <3>1. Querying /\ UNCHANGED query /\ (Consume \/ Delay \/ Reopen)
      BY <2>2 DEF Receives
    <3> QED
      BY <1>1, <3>1, ReceivesQ, ReopenQ
  <2>3. CASE \E g \in Groups : Ask(g) \/ Page(g) \/ PageFails(g) \/ Drop(g) \/ Merge(g)
    BY <1>1, <2>3, AskQ, PageQ, PageFailsQ, DropQ, MergeQ
  <2> QED
    BY <1>4, <2>1, <2>2, <2>3 DEF Query
<1>5. CASE kind = "follow" /\ kind' = kind
  BY <1>1, <1>5 DEF QueryInv, Querying
<1>6. CASE Tails(Program) \/ \E g \in Groups : Tails(Waits(g))
  <2>1. kind = "follow" /\ kind' = kind
    BY <1>6 DEF Tails, query, options
  <2> QED
    BY <1>5, <2>1
<1>7. CASE UNCHANGED awsVars
  <2>1. UNCHANGED <<options, start, since, skipDuplicate, got, at, histEnd, left, merged, yielded, log, phase,
                    consumer, last, kind>>
    BY <1>7 DEF awsVars, tailVars, provider, asked, progress, printed, query, options
  <2>2. CASE Querying
    <3>1. Grown
      BY <2>1 DEF Grown
    <3>2. last' # "notFound" /\ (consumer = "end" => Enough)
      BY <2>1, <2>2, EnoughAtTheEnd DEF QueryInv, QueryAt, Querying
    <3> QED
      BY <1>1, <2>1, <2>2, <3>1, <3>2, QuietKeeps DEF GoesOn
  <2>3. CASE ~Querying
    BY <1>1, <2>1, <2>3 DEF QueryInv, Querying
  <2> QED
    BY <2>2, <2>3
<1> QED
  BY <1>2, <1>3, <1>4, <1>6, <1>7 DEF AwsNext

\* All that the invariant says of a query: how far each group has been read and
\* merged, and what of it was counted and shown (QueryLogGroups of byoc/aws).
THEOREM QueryInvHolds == AwsSpec => []QueryInv
<1>1. AwsInit => QueryInv
  BY QueryInitHolds
<1>2. QueryInv /\ [AwsNext]_awsVars => QueryInv'
  BY QueryStepKeeps
<1> QED
  BY <1>1, <1>2, PTL DEF AwsSpec

\* Within a query nothing is left out: every older entry that was to be found has
\* been shown, or, when the last ones were asked for, is older than all that are.
THEOREM QueryLeavesNoGap == AwsSpec => []QueryWithoutGap
<1>1. QueryInv => QueryWithoutGap
  <2> SUFFICES ASSUME QueryInv, Querying, NEW g \in Groups, NEW h \in Groups,
                      NEW k \in Found(g) \ GotOf(g), NEW m \in GotOf(h)
               PROVE  \/ log[g][k] > log[h][m]
                      \/ TakesLast /\ \A f \in Groups : \A j \in GotOf(f) : log[g][k] < log[f][j]
    BY DEF QueryWithoutGap
  <2>1. AwsInv /\ QueryAt
    BY DEF QueryInv
  <2>2. consumer # "setup"
    <3>1. ASSUME consumer = "setup" PROVE FALSE
      <4>1. got[h] = <<>>
        BY <2>1, <3>1 DEF AwsInv, AskedAt
      <4>2. GotOf(h) = {}
        BY <4>1 DEF GotOf
      <4> QED
        BY <4>2
    <3> QED
      BY <3>1
  <2>3. InOrder /\ OnlyTheLast
    BY <2>1, <2>2 DEF QueryAt
  <2>4. /\ k \in 1..histEnd[g] /\ g \in Queried /\ phase[g] # "failed"
        /\ log[g][k] > start \/ (log[g][k] = start /\ ~skipDuplicate)
        /\ k \notin GotOf(g)
    BY DEF Found
  <2>5. /\ merged[g] \in Nat /\ histEnd[g] \in Nat /\ histEnd[g] <= Len(log[g]) /\ Len(log[g]) \in Nat
        /\ \A i \in 1..Len(log[g]) : log[g][i] \in Nat
    BY <2>1, PlaceFacts
  <2>6. /\ m \in 1..Len(log[h]) /\ m <= merged[h] /\ merged[h] \in Nat
        /\ \A i \in 1..Len(log[h]) : log[h][i] \in Nat
    BY <2>1, PlaceFacts
  <2>7. CASE k > merged[g]
    <3>1. k \in (merged[g] + 1)..EndOf(g) /\ m \in 1..merged[h]
      BY <2>4, <2>5, <2>6, <2>7 DEF EndOf
    <3>2. log[h][m] < log[g][k]
      BY <2>3, <2>4, <3>1 DEF InOrder
    <3>3. log[h][m] \in Nat /\ log[g][k] \in Nat
      BY <2>4, <2>5, <2>6
    <3> QED
      BY <3>2, <3>3
  <2>8. CASE ~(k > merged[g])
    <3>1. k \in 1..merged[g]
      BY <2>4, <2>5, <2>8
    <3>2. k \in LeftOut(g)
      BY <2>4, <3>1 DEF LeftOut
    <3>3. TakesLast
      BY <2>3, <3>2 DEF OnlyTheLast, NoneLeftOut
    <3> QED
      BY <2>3, <3>2, <3>3 DEF OnlyTheLast
  <2> QED
    BY <2>7, <2>8
<1> QED
  BY <1>1, QueryInvHolds, PTL

\* A query that comes to its end has shown everything, or as many entries as the
\* limit allows.
THEOREM QueryEndsWithEnough == AwsSpec => []QueryShowsEnough
<1>1. QueryInv => QueryShowsEnough
  BY DEF QueryInv, QueryAt, QueryShowsEnough
<1> QED
  BY <1>1, QueryInvHolds, PTL

=============================================================================
