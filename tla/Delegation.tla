------------------------------ MODULE Delegation ------------------------------
(***************************************************************************)
(* How a deployment to AWS gets its domain (prepareDomainDelegation,       *)
(* byoc/aws/domain.go): it picks a delegation set of Route 53, four name   *)
(* servers that may serve a zone, has the parent domain point to them, and *)
(* leaves it to the CD task to create the hosted zone on them.  A name     *)
(* server serves at most one zone of a domain.  Deployments may overlap:   *)
(* "There's a race condition here [...] but this is acceptable because the *)
(* next time the zone is deployed, we'll get the existing delegation set   *)
(* from the zone" (domain.go:42).                                          *)
(***************************************************************************)
EXTENDS Naturals

CONSTANTS
  Deployments,
  Stacks,       \* stacks that are deployed to the one domain of this model
  SetIds,       \* delegation sets that the account may have
  Servers,      \* name servers
  NameServers,  \* the sets of name servers that Route 53 hands out
  MaxTries      \* "range 5" in createUsableDelegationSet

ASSUME DelegationAssumption ==
  /\ NameServers \subseteq SUBSET Servers \ {{}}
  /\ MaxTries \in Nat \ {0}
  /\ "other" \notin Stacks /\ "none" \notin SetIds

NoSet == "none"
Zone == [stack : Stacks \union {"other"}, set : SetIds \union {NoSet}, ns : NameServers]

VARIABLES
  stackOf,    \* the stack that a deployment is for
  foreign,    \* servers with this domain, or defang.app, in an account not ours
  full,       \* sets with 100 zones or more
  sets,       \* the reusable delegation sets and their servers
  deleted,    \* those that are deleted again
  zones,      \* the hosted zones of the domain
  parent,     \* the servers that the parent domain points to
  pc,
  found,      \* zones a deployment has listed
  listed,     \* sets a deployment has listed and not looked at
  tries,
  chosen,     \* the delegation set of a deployment
  alone       \* history: no other deployment ran at the same time

inputs == <<stackOf, foreign, full>>
dns == <<sets, deleted, zones, parent>>
local == <<found, listed, tries, chosen>>
vars == <<inputs, dns, pc, local, alone>>

Ids == DOMAIN sets \ deleted
Working == {"zones", "find", "create", "verify", "delegate", "cd"}
Active == {d \in Deployments : pc[d] \in Working}

Init ==
  /\ stackOf \in [Deployments -> Stacks]
  /\ foreign \in SUBSET Servers /\ full \in {{}} \union {{id} : id \in SetIds}
  /\ deleted = {}
  \* At most one set and one zone to begin with, of a stack or not.
  /\ \E ids \in {{}} \union {{id} : id \in SetIds} : sets \in [ids -> NameServers]
  /\ zones \in {{}} \union {{z} : z \in {y \in Zone :
       y.set = NoSet \/ (y.set \in Ids /\ y.ns = sets[y.set])}}
  /\ parent = UNION {z.ns : z \in zones}
  /\ pc = [d \in Deployments |-> "idle"]
  /\ found = [d \in Deployments |-> {}] /\ listed = [d \in Deployments |-> {}]
  /\ tries = [d \in Deployments |-> 0] /\ chosen = [d \in Deployments |-> NoSet]
  /\ alone = [d \in Deployments |-> TRUE]

Goto(d, label) == pc' = [pc EXCEPT ![d] = label]
\* The command ends, and with it its local variables.
Finish(d, label) ==
  /\ Goto(d, label)
  /\ found' = [found EXCEPT ![d] = {}] /\ listed' = [listed EXCEPT ![d] = {}]
  /\ tries' = [tries EXCEPT ![d] = 0] /\ chosen' = [chosen EXCEPT ![d] = NoSet]
Choose(d, id) == chosen' = [chosen EXCEPT ![d] = id]
AddSet(id, ns) == sets' = [i \in DOMAIN sets \union {id} |-> IF i = id THEN ns ELSE sets[i]]

\* LookupNS at each of the servers.
Conflict(ns) == ns \cap (foreign \union UNION {z.ns : z \in zones}) # {}

-----------------------------------------------------------------------------
\* GetHostedZonesByName
Start(d) ==
  /\ pc[d] = "idle"
  /\ found' = [found EXCEPT ![d] = zones]
  /\ alone' = [e \in Deployments |->
       IF e = d THEN Active = {} ELSE alone[e] /\ e \notin Active]
  /\ Goto(d, "zones")
  /\ UNCHANGED <<inputs, dns, listed, tries, chosen>>

\* Fault of IsOwn: the zone of any stack will do.
IsAny(d, z) == z.stack \in Stacks
IsOwn(d, z) == z.stack = stackOf[d]

\* A listed zone as it is now: another deployment may have made its set reusable.
Current(z) == {y \in zones : y.stack = z.stack /\ y.ns = z.ns /\ z.set \in {NoSet, y.set}}

\* getOrCreateDelegationSetByZones: the set of our zone, made reusable if need be.
ZoneSet(d) ==
  /\ pc[d] = "zones"
  /\ \E x \in found[d], z \in zones :
       /\ IsOwn(d, x) /\ z \in Current(x)
       /\ IF z.set # NoSet THEN Choose(d, z.set) /\ UNCHANGED <<sets, zones>>
          ELSE \E id \in SetIds \ DOMAIN sets :
            /\ AddSet(id, z.ns)
            /\ zones' = (zones \ {z}) \union {[z EXCEPT !.set = id]}
            /\ Choose(d, id)
  /\ Goto(d, "delegate")
  /\ UNCHANGED <<inputs, deleted, parent, found, listed, tries, alone>>

\* findUsableDelegationSet lists the sets and looks at one after the other; when a
\* call fails a new one is created.
ListSets(d) ==
  /\ pc[d] = "zones" /\ \A z \in found[d] : ~IsOwn(d, z)
  /\ \/ listed' = [listed EXCEPT ![d] = Ids] /\ Goto(d, "find")
     \/ listed' = listed /\ Goto(d, "create")
  /\ UNCHANGED <<inputs, dns, found, tries, chosen, alone>>

LookAtSet(d, id) ==
  /\ pc[d] = "find" /\ id \in listed[d] \cap Ids
  /\ listed' = [listed EXCEPT ![d] = @ \ {id}]
  /\ IF Conflict(sets[id]) \/ id \in full THEN UNCHANGED <<chosen, pc>>
     ELSE Choose(d, id) /\ Goto(d, "delegate")
  /\ UNCHANGED <<inputs, dns, found, tries, alone>>

NoneFound(d) ==
  /\ pc[d] = "find"
  /\ Goto(d, "create")
  /\ UNCHANGED <<inputs, dns, local, alone>>

\* createUsableDelegationSet
CreateSet(d, id, ns) ==
  /\ pc[d] = "create" /\ tries[d] < MaxTries /\ id \notin DOMAIN sets \union full
  /\ AddSet(id, ns)
  /\ Choose(d, id)
  /\ tries' = [tries EXCEPT ![d] = @ + 1]
  /\ Goto(d, "verify")
  /\ UNCHANGED <<inputs, deleted, zones, parent, found, listed, alone>>

\* Fault of Usable: a new set is not looked at.
UsableAnyway(d) == TRUE
Usable(d) == ~Conflict(sets[chosen[d]])

KeepSet(d) ==
  /\ pc[d] = "verify" /\ Usable(d)
  /\ Goto(d, "delegate")
  /\ UNCHANGED <<inputs, dns, local, alone>>

\* The set is deleted, unless that fails, as it does when a zone uses the set.
DropSet(d) ==
  /\ pc[d] = "verify" /\ ~Usable(d)
  /\ \/ deleted' = deleted
     \/ (\A z \in zones : z.set # chosen[d]) /\ deleted' = deleted \union {chosen[d]}
  /\ Choose(d, NoSet)
  /\ Goto(d, "create")
  /\ UNCHANGED <<inputs, sets, zones, parent, found, listed, tries, alone>>

\* CreateDelegateSubdomainZone, before the CD task is started.
Delegate(d) ==
  /\ pc[d] = "delegate"
  /\ parent' = sets[chosen[d]]
  /\ Goto(d, "cd")
  /\ UNCHANGED <<inputs, sets, deleted, zones, local, alone>>

\* A call fails, or the name servers cannot be asked, or no set was usable.
Fails(d) ==
  /\ pc[d] \in {"zones", "create", "verify", "delegate"}
  /\ Finish(d, "failed")
  /\ UNCHANGED <<inputs, dns, alone>>

-----------------------------------------------------------------------------
\* The CD task creates the zone of its stack, unless there is one: then it keeps
\* it, or moves it to the delegation set that it was given.
OwnZones(d) == {z \in zones : z.stack = stackOf[d]}
NewZone(d) == [stack |-> stackOf[d], set |-> chosen[d], ns |-> sets[chosen[d]]]
OnChosen(d) == \E z \in OwnZones(d) : z.set = chosen[d]

\* Route 53 has no second zone of a domain on a server, no 101st in a set, and none
\* in a set that is deleted.
Refused(d) ==
  \/ chosen[d] \in full \union deleted
  \/ sets[chosen[d]] \cap (foreign \union UNION {z.ns : z \in zones}) # {}

CdSucceeds(d) ==
  /\ pc[d] = "cd"
  /\ \/ OwnZones(d) # {} /\ UNCHANGED zones
     \/ ~OnChosen(d) /\ ~Refused(d) /\ zones' = (zones \ OwnZones(d)) \union {NewZone(d)}
  /\ Finish(d, "done")
  /\ UNCHANGED <<inputs, sets, deleted, parent, alone>>

CdRefused(d) ==
  /\ pc[d] = "cd" /\ ~OnChosen(d) /\ Refused(d)
  /\ Finish(d, "refused")
  /\ UNCHANGED <<inputs, dns, alone>>

Prepare(d) ==
  \/ ZoneSet(d) \/ ListSets(d) \/ NoneFound(d) \/ KeepSet(d) \/ DropSet(d)
  \/ \E id \in SetIds : LookAtSet(d, id) \/ \E ns \in NameServers : CreateSet(d, id, ns)

Next == \E d \in Deployments :
  Start(d) \/ Prepare(d) \/ Delegate(d) \/ CdSucceeds(d) \/ CdRefused(d) \/ Fails(d)

Spec == Init /\ [][Next]_vars

-----------------------------------------------------------------------------
\* Types of the variables; a zone in a delegation set has its servers.
TypeOK ==
  /\ stackOf \in [Deployments -> Stacks]
  /\ DOMAIN sets \subseteq SetIds /\ sets \in [DOMAIN sets -> NameServers]
  /\ deleted \subseteq DOMAIN sets
  /\ zones \subseteq Zone /\ parent \in {{}} \union NameServers
  /\ \A z \in zones : z.set # NoSet => z.set \in DOMAIN sets /\ z.ns = sets[z.set]
  /\ pc \in [Deployments -> Working \union {"idle", "done", "failed", "refused"}]
  /\ found \in [Deployments -> SUBSET Zone] /\ listed \in [Deployments -> SUBSET SetIds]
  /\ tries \in [Deployments -> 0..MaxTries]
  /\ chosen \in [Deployments -> SetIds \union {NoSet}]
  /\ alone \in [Deployments -> BOOLEAN]
  /\ \A d \in Deployments :
       /\ chosen[d] \in DOMAIN sets \union {NoSet}
       /\ pc[d] \in {"verify", "delegate", "cd"} => chosen[d] # NoSet

\* After a deployment that no other overlaps the parent domain points to the
\* servers of the zone of its stack, whatever earlier ones left behind
\* (domain.go:42-43).
NextTimeHeals ==
  [][\A d \in Deployments : pc[d] = "cd" /\ pc'[d] = "done" /\ alone[d] =>
       \E z \in OwnZones(d)' : parent' = z.ns]_vars

\* A deployment that no other overlaps is never refused its zone: the servers it
\* has chosen were asked, or are those of its zone (domain.go:73, 107, 144).
UndisturbedNotRefused ==
  \A d \in Deployments : alone[d] => pc[d] # "refused"
===============================================================================
