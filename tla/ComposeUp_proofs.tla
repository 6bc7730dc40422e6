-------------------------- MODULE ComposeUp_proofs --------------------------
(***************************************************************************)
(* Type correctness of ComposeUp, what a deployment that no other one      *)
(* overlaps does to the recipe, and that a zone and a history are kept for *)
(* what is running, for any number of commands.  Then what ComposeFixup    *)
(* does to the project before, for any services, gateways and models.      *)
(***************************************************************************)
EXTENDS ComposeUp, ComposeFixup, WellFoundedInduction, TLAPS

\* What command `c` will have deployed when its task succeeds.
Target(c) == [recipe |-> recipe[c], mode |-> ModeOf(recipe[c])]

\* It has resolved its recipe, and its task is still to end.
Pending(c) == kind[c] = "up" /\ (pc[c] \in {"zone", "start"} \/ task[c] = "running")

\* While the update a command read is the current one, the command may still
\* replace it by what it resolved.
PendingAllowed ==
  \A c \in Commands : Pending(c) /\ at[c] = version => Allowed(update, asked[c], Target(c))

ReadBefore == \A c \in Commands : at[c] <= version

\* How far a command is, and what it has done by then: a task is started before
\* the zone is deleted, the stack stored or the deployment recorded.
DoneSoFar ==
  \A c \in Commands :
    /\ pc[c] = "start" => kind[c] # "down"
    /\ pc[c] = "stack" => kind[c] = "up"
    /\ pc[c] \in {"stack", "record"} => task[c] # "none"
    /\ pc[c] = "zone" /\ kind[c] = "down" => task[c] # "none"
    /\ pc[c] = "record" /\ kind[c] = "down" /\ Delegates => zoneDone[c]
    /\ pc[c] = "record" /\ kind[c] = "up" => stack # none

\* An up has its zone created before its task starts, and only a down deletes it.
ZoneFirst ==
  \A c \in Commands : kind[c] = "up" =>
    /\ Delegates /\ (pc[c] = "start" \/ task[c] = "running") => zoneDone[c]
    /\ zoneDone[c] => zone \/ \E d \in Commands : kind[d] = "down" /\ zoneDone[d]

Progress == DoneSoFar /\ HistoryIsTrue /\ ZoneFirst

IInv == TypeOK /\ Consistent(update) /\ ReadBefore /\ PendingAllowed

-----------------------------------------------------------------------------
\* A record is never the value for "nothing deployed".
LEMMA NoneIsNoRecord ==
  ASSUME NEW r \in Recipes, NEW m \in Modes
  PROVE  [recipe |-> r, mode |-> m] # none
BY UpAssumption

\* The recipe resolved against a deployment is allowed to follow it.
LEMMA ResolvedAllowed ==
  ASSUME NEW u \in [recipe : Recipes, mode : Modes], NEW r \in Recipes,
         Consistent(u), ~Refused(u.mode, ModeOf(r))
  PROVE  /\ Resolved(u, r) \in Recipes
         /\ Allowed(u, r, [recipe |-> Resolved(u, r), mode |-> ModeOf(Resolved(u, r))])
<1>1. u.recipe \in Recipes /\ u.mode \in Modes
  OBVIOUS
<1>2. u # none
  BY <1>1, UpAssumption
<1> DEFINE rr == Resolved(u, r)
<1>3. rr \in Recipes
  BY <1>1 DEF Resolved, NewMode, ModeOf, FromMode, Recipes, Modes
<1>4. ASSUME u.mode = "ha"
      PROVE  ModeOf(rr) # "affordable"
  BY <1>1, <1>2, <1>4 DEF Resolved, NewMode, ModeOf, FromMode, Recipes, Modes, Refused, Consistent
<1>5. ASSUME r = "unspecified", u.recipe # "unspecified"
      PROVE  rr = u.recipe
  BY <1>5 DEF Resolved
<1>6. ASSUME r = "unspecified", u.recipe = "unspecified", u.mode # "unspecified"
      PROVE  ModeOf(rr) = u.mode
  BY <1>1, <1>6 DEF Resolved, NewMode, ModeOf, FromMode, Modes
<1> HIDE DEF rr
<1>7. Allowed(u, r, [recipe |-> rr, mode |-> ModeOf(rr)])
  BY <1>4, <1>5, <1>6 DEF Allowed
<1> QED
  BY <1>3, <1>7 DEF rr

LEMMA InitTypes == Init => TypeOK
<1> SUFFICES ASSUME Init PROVE TypeOK
  OBVIOUS
<1> USE DEF Init
<1>1. update \in Update /\ (update # none => update.recipe \in Recipes)
  BY UpAssumption DEF Update
<1>2. stack \in Recipes \cup {none}
  BY <1>1
<1>3. zone \in BOOLEAN
  BY UpAssumption
<1>4. recipe \in [Commands -> Recipes]
  BY DEF Recipes, Modes
<1>5. pc \in [Commands -> {"read", "zone", "start", "stack", "record", "over"}]
  OBVIOUS
<1>6. task \in [Commands -> {"none", "running", "succeeded", "failed"}]
  OBVIOUS
<1>7. at \in [Commands -> Nat] /\ zoneDone \in [Commands -> BOOLEAN] /\ version \in Nat
  OBVIOUS
<1> QED
  BY <1>1, <1>2, <1>3, <1>4, <1>5, <1>6, <1>7 DEF TypeOK

LEMMA InitIInv == Init => IInv
<1> SUFFICES ASSUME Init PROVE IInv
  OBVIOUS
<1>1. TypeOK
  BY InitTypes
<1>2. Consistent(update)
  BY UpAssumption DEF Init
<1>3. ReadBefore
  <2>1. version = 0 /\ \A c \in Commands : at[c] = 0
    BY DEF Init
  <2> QED
    BY <2>1, 0 <= 0 DEF ReadBefore
<1>4. \A c \in Commands : ~Pending(c)
  BY DEF Init, Pending
<1> QED
  BY <1>1, <1>2, <1>3, <1>4 DEF IInv, PendingAllowed

\* A step that leaves a command pending only if it was, and leaves what it read,
\* what it resolved and what is deployed alone, keeps the invariant.
LEMMA Quiet ==
  ASSUME IInv, UNCHANGED <<command, local, remote>>, TypeOK',
         \A c \in Commands : Pending(c)' => Pending(c)
  PROVE  IInv'
<1>1. Consistent(update)' /\ ReadBefore'
  BY DEF IInv, Consistent, ReadBefore, local, remote
<1>2. PendingAllowed'
  BY DEF IInv, PendingAllowed, Allowed, Target, command, local, remote
<1> QED
  BY <1>1, <1>2 DEF IInv

-----------------------------------------------------------------------------
LEMMA ReadStep ==
  ASSUME IInv, NEW c \in Commands, ReadUpdate(c)
  PROVE  IInv'
<1> USE DEF IInv
<1>1. update # none => update \in [recipe : Recipes, mode : Modes]
  BY DEF TypeOK, Update
<1>2. asked[c] \in Recipes
  BY UpAssumption DEF TypeOK
<1> DEFINE rr == IF update = none THEN asked[c] ELSE Resolved(update, asked[c])
<1>3. rr \in Recipes /\ Allowed(update, asked[c], [recipe |-> rr, mode |-> ModeOf(rr)])
  <2>1. CASE update = none
    BY <2>1, <1>2 DEF Allowed
  <2>2. CASE update # none
    <3>1. ~Refused(update.mode, ModeOf(asked[c])) /\ Consistent(update)
      BY <2>2 DEF ReadUpdate
    <3> QED
      BY <2>2, <3>1, <1>1, <1>2, ResolvedAllowed
  <2> QED
    BY <2>1, <2>2
<1>4. /\ recipe' = [recipe EXCEPT ![c] = rr]
      /\ at' = [at EXCEPT ![c] = version]
      /\ UNCHANGED <<kind, asked, update, version, task>>
  BY DEF ReadUpdate, command, remote
<1> HIDE DEF rr
<1>5. pc' \in [Commands -> {"read", "zone", "start", "stack", "record", "over"}]
      /\ \A d \in Commands \ {c} : pc'[d] = pc[d]
  BY DEF ReadUpdate, Goto, TypeOK
<1>6. TypeOK'
  <2>1. recipe' \in [Commands -> Recipes] /\ at' \in [Commands -> Nat]
    BY <1>3, <1>4 DEF TypeOK
  <2> QED
    BY <2>1, <1>4, <1>5 DEF TypeOK, ReadUpdate
<1>7. Consistent(update)' /\ ReadBefore'
  <2>1. \A d \in Commands : at'[d] <= version'
    BY <1>4 DEF ReadBefore, TypeOK
  <2> QED
    BY <2>1, <1>4 DEF ReadBefore, Consistent
<1>8. ASSUME NEW d \in Commands, Pending(d)', at'[d] = version'
      PROVE  Allowed(update, asked[d], [recipe |-> recipe'[d], mode |-> ModeOf(recipe'[d])])
  <2>1. CASE d = c
    <3>1. recipe'[d] = rr
      BY <2>1, <1>4 DEF TypeOK
    <3> QED
      BY <2>1, <3>1, <1>3
  <2>2. CASE d # c
    <3>1. recipe'[d] = recipe[d] /\ at'[d] = at[d] /\ pc'[d] = pc[d]
      BY <2>2, <1>4, <1>5 DEF TypeOK
    <3>2. Pending(d) /\ at[d] = version
      BY <3>1, <1>4, <1>8 DEF Pending
    <3> QED
      BY <3>1, <3>2 DEF PendingAllowed, Target
  <2> QED
    BY <2>1, <2>2
<1>9. PendingAllowed'
  BY <1>8, <1>4 DEF PendingAllowed, Target, Allowed
<1> QED
  BY <1>6, <1>7, <1>9

LEMMA TaskStep ==
  ASSUME IInv, NEW c \in Commands, TaskSucceeds(c)
  PROVE  IInv'
<1> USE DEF IInv
<1>1. task' = [task EXCEPT ![c] = "succeeded"] /\ task[c] = "running"
      /\ UNCHANGED <<kind, asked, pc, at, recipe, zoneDone, zone, stack, history>>
  BY DEF TaskSucceeds, command, local
<1>2. task' \in [Commands -> {"none", "running", "succeeded", "failed"}]
      /\ \A d \in Commands : task'[d] = "running" => task[d] = "running"
  BY <1>1 DEF TypeOK
<1>3. \A d \in Commands : Pending(d)' => Pending(d)
  BY <1>1, <1>2 DEF Pending
<1>4. CASE UNCHANGED remote
  <2>1. TypeOK'
    BY <1>1, <1>2, <1>4 DEF TypeOK, remote
  <2> QED
    BY <1>1, <1>3, <1>4, <2>1, Quiet DEF command, local
<1>5. CASE version' = version + 1 /\ update' \in {Target(c), none}
  <2>1. recipe[c] \in Recipes /\ ModeOf(recipe[c]) \in Modes
    BY DEF TypeOK, ModeOf, Recipes, Modes
  <2>2. update' \in Update /\ Consistent(update)'
    BY <1>5, <2>1 DEF Update, Target, Consistent
  <2>3. version' \in Nat /\ \A d \in Commands : at'[d] < version'
    BY <1>1, <1>5 DEF TypeOK, ReadBefore
  <2>4. TypeOK'
    BY <1>1, <1>2, <2>2, <2>3 DEF TypeOK
  <2>5. ReadBefore' /\ PendingAllowed'
    BY <2>3, <1>1 DEF ReadBefore, PendingAllowed, TypeOK
  <2> QED
    BY <2>2, <2>4, <2>5
<1> QED
  BY <1>4, <1>5 DEF TaskSucceeds, Target

\* The other steps deploy nothing and resolve nothing.
LEMMA QuietSteps ==
  ASSUME IInv, NEW c \in Commands,
         \/ CreateZone(c) \/ StartTask(c) \/ StartCommand(c) \/ DeleteZone(c)
         \/ PutStack(c) \/ PutDeployment(c) \/ TaskFails(c) \/ Abort(c)
  PROVE  IInv'
<1> USE DEF IInv, Goto, command, local, remote
<1>1. CASE CreateZone(c)
  <2>1. TypeOK'
    BY <1>1 DEF CreateZone, TypeOK
  <2>2. \A d \in Commands : Pending(d)' => Pending(d)
    BY <1>1 DEF CreateZone, TypeOK, Pending
  <2> QED
    BY <1>1, <2>1, <2>2, Quiet DEF CreateZone
<1>2. CASE StartTask(c)
  <2>1. TypeOK'
    BY <1>2 DEF StartTask, TypeOK
  <2>2. \A d \in Commands : Pending(d)' => Pending(d)
    BY <1>2 DEF StartTask, TypeOK, Pending
  <2> QED
    BY <1>2, <2>1, <2>2, Quiet DEF StartTask
<1>3. CASE StartCommand(c)
  <2>1. TypeOK'
    BY <1>3 DEF StartCommand, TypeOK
  <2>2. \A d \in Commands : Pending(d)' => Pending(d)
    BY <1>3 DEF StartCommand, TypeOK, Pending
  <2> QED
    BY <1>3, <2>1, <2>2, Quiet DEF StartCommand
<1>4. CASE DeleteZone(c)
  <2>1. TypeOK'
    BY <1>4 DEF DeleteZone, TypeOK
  <2>2. \A d \in Commands : Pending(d)' => Pending(d)
    BY <1>4 DEF DeleteZone, TypeOK, Pending
  <2> QED
    BY <1>4, <2>1, <2>2, Quiet DEF DeleteZone
<1>5. CASE PutStack(c)
  <2>1. TypeOK'
    BY <1>5 DEF PutStack, TypeOK
  <2>2. \A d \in Commands : Pending(d)' => Pending(d)
    BY <1>5 DEF PutStack, TypeOK, Pending
  <2> QED
    BY <1>5, <2>1, <2>2, Quiet DEF PutStack
<1>6. CASE PutDeployment(c)
  <2>1. TypeOK'
    BY <1>6 DEF PutDeployment, TypeOK
  <2>2. \A d \in Commands : Pending(d)' => Pending(d)
    BY <1>6 DEF PutDeployment, TypeOK, Pending
  <2> QED
    BY <1>6, <2>1, <2>2, Quiet DEF PutDeployment
<1>7. CASE TaskFails(c)
  <2>1. TypeOK'
    BY <1>7 DEF TaskFails, TypeOK
  <2>2. \A d \in Commands : Pending(d)' => Pending(d)
    BY <1>7 DEF TaskFails, TypeOK, Pending
  <2> QED
    BY <1>7, <2>1, <2>2, Quiet DEF TaskFails
<1>8. CASE Abort(c)
  <2>1. TypeOK'
    BY <1>8 DEF Abort, TypeOK
  <2>2. \A d \in Commands : Pending(d)' => Pending(d)
    BY <1>8 DEF Abort, TypeOK, Pending
  <2> QED
    BY <1>8, <2>1, <2>2, Quiet DEF Abort
<1> QED
  BY <1>1, <1>2, <1>3, <1>4, <1>5, <1>6, <1>7, <1>8

LEMMA NextIInv == IInv /\ [Next]_vars => IInv'
<1> SUFFICES ASSUME IInv, [Next]_vars PROVE IInv'
  OBVIOUS
<1>1. CASE UNCHANGED vars
  <2>1. UNCHANGED <<command, local, remote>> /\ TypeOK'
    BY <1>1 DEF vars, command, local, remote, IInv, TypeOK
  <2>2. \A c \in Commands : Pending(c)' => Pending(c)
    BY <1>1 DEF vars, command, Pending
  <2> QED
    BY <2>1, <2>2, Quiet
<1>2. CASE Next
  BY <1>2, ReadStep, TaskStep, QuietSteps DEF Next
<1> QED
  BY <1>1, <1>2

\* The inductive invariant holds in every reachable state.
THEOREM IInvHolds == Spec => []IInv
BY InitIInv, NextIInv, PTL DEF Spec

\* Every variable keeps its type, whatever the commands are.
THEOREM TypeCorrect == Spec => []TypeOK
<1>1. IInv => TypeOK
  BY DEF IInv
<1> QED
  BY <1>1, IInvHolds, PTL

\* A deployment that no other one overlaps neither downgrades high availability
\* to affordable nor forgets the recipe, for any number of commands.
THEOREM Undisturbed == Spec => UndisturbedAllowed
<1>1. ASSUME IInv, [Next]_vars, NEW c \in Commands,
             kind[c] = "up", task[c] = "running", task'[c] = "succeeded", at[c] = version
      PROVE  Allowed(update, asked[c], update')
  <2>1. Pending(c)
    BY <1>1 DEF Pending
  <2>2. Allowed(update, asked[c], Target(c))
    BY <1>1, <2>1 DEF IInv, PendingAllowed
  <2>3. update' = Target(c)
    <3>1. \A d \in Commands : TaskSucceeds(d) => task' = [task EXCEPT ![d] = "succeeded"]
      BY DEF TaskSucceeds
    <3>2. \A d \in Commands : TaskFails(d) => task' = [task EXCEPT ![d] = "failed"]
      BY DEF TaskFails
    <3>3. \A d \in Commands :
            StartTask(d) \/ StartCommand(d) => task' = [task EXCEPT ![d] = "running"]
      BY DEF StartTask, StartCommand
    <3>4. \A d \in Commands :
            ReadUpdate(d) \/ CreateZone(d) \/ DeleteZone(d)
              \/ PutStack(d) \/ PutDeployment(d) \/ Abort(d) => task' = task
      BY DEF ReadUpdate, CreateZone, DeleteZone, PutStack, PutDeployment, Abort
    <3>5. task \in [Commands -> {"none", "running", "succeeded", "failed"}]
      BY <1>1 DEF IInv, TypeOK
    <3>6. task' # task
      BY <1>1
    <3>7. Next
      BY <1>1, <3>6 DEF vars
    <3>8. PICK d \in Commands : TaskSucceeds(d) \/ TaskFails(d) \/ StartTask(d) \/ StartCommand(d)
      BY <3>4, <3>6, <3>7 DEF Next
    <3>9. TaskSucceeds(d) /\ d = c
      BY <1>1, <3>1, <3>2, <3>3, <3>5, <3>8
    <3> QED
      BY <1>1, <3>9 DEF TaskSucceeds, Target
  <2> QED
    BY <2>2, <2>3
<1>2. IInv /\ [Next]_vars =>
        [\A c \in Commands :
           kind[c] = "up" /\ task[c] = "running" /\ task'[c] = "succeeded" /\ at[c] = version
             => Allowed(update, asked[c], update')]_vars
  BY <1>1
<1> QED
  BY <1>2, IInvHolds, PTL DEF Spec, UndisturbedAllowed
-----------------------------------------------------------------------------
LEMMA ProgressStep ==
  ASSUME TypeOK, Progress, NEW c \in Commands,
         \/ ReadUpdate(c) \/ CreateZone(c) \/ StartTask(c) \/ StartCommand(c) \/ DeleteZone(c)
         \/ PutStack(c) \/ PutDeployment(c) \/ TaskSucceeds(c) \/ TaskFails(c) \/ Abort(c)
  PROVE  Progress'
<1> USE UpAssumption DEF TypeOK, Progress, Goto, command, local, remote
<1>1. CASE ReadUpdate(c)
  <2> USE <1>1 DEF ReadUpdate
  <2>1. DoneSoFar'
    BY DEF DoneSoFar
  <2>2. HistoryIsTrue'
    BY DEF HistoryIsTrue, DoneSoFar
  <2>3. ZoneFirst'
    BY DEF ZoneFirst, DoneSoFar
  <2> QED
    BY <2>1, <2>2, <2>3
<1>2. CASE CreateZone(c)
  <2> USE <1>2 DEF CreateZone
  <2>1. DoneSoFar'
    BY DEF DoneSoFar
  <2>2. HistoryIsTrue'
    BY DEF HistoryIsTrue, DoneSoFar
  <2>3. ZoneFirst'
    BY DEF ZoneFirst, DoneSoFar
  <2> QED
    BY <2>1, <2>2, <2>3
<1>3. CASE StartTask(c)
  <2> USE <1>3 DEF StartTask
  <2>1. DoneSoFar'
    BY DEF DoneSoFar
  <2>2. HistoryIsTrue'
    BY DEF HistoryIsTrue, DoneSoFar
  <2>3. ZoneFirst'
    BY DEF ZoneFirst, DoneSoFar
  <2> QED
    BY <2>1, <2>2, <2>3
<1>4. CASE StartCommand(c)
  <2> USE <1>4 DEF StartCommand
  <2>1. DoneSoFar'
    BY DEF DoneSoFar
  <2>2. HistoryIsTrue'
    BY DEF HistoryIsTrue, DoneSoFar
  <2>3. ZoneFirst'
    BY DEF ZoneFirst, DoneSoFar
  <2> QED
    BY <2>1, <2>2, <2>3
<1>5. CASE DeleteZone(c)
  <2> USE <1>5 DEF DeleteZone
  <2>1. DoneSoFar'
    BY DEF DoneSoFar
  <2>2. HistoryIsTrue'
    BY DEF HistoryIsTrue, DoneSoFar
  <2>3. ZoneFirst'
    BY DEF ZoneFirst, DoneSoFar
  <2> QED
    BY <2>1, <2>2, <2>3
<1>6. CASE PutStack(c)
  <2> USE <1>6 DEF PutStack
  <2>1. DoneSoFar'
    BY DEF DoneSoFar
  <2>2. HistoryIsTrue'
    BY DEF HistoryIsTrue, DoneSoFar
  <2>3. ZoneFirst'
    BY DEF ZoneFirst, DoneSoFar
  <2> QED
    BY <2>1, <2>2, <2>3
<1>7. CASE PutDeployment(c)
  <2> USE <1>7 DEF PutDeployment
  <2>1. DoneSoFar'
    BY DEF DoneSoFar
  <2>2. HistoryIsTrue'
    BY DEF HistoryIsTrue, DoneSoFar
  <2>3. ZoneFirst'
    BY DEF ZoneFirst, DoneSoFar
  <2> QED
    BY <2>1, <2>2, <2>3
<1>8. CASE TaskSucceeds(c)
  <2> USE <1>8 DEF TaskSucceeds
  <2>1. DoneSoFar'
    BY DEF DoneSoFar
  <2>2. HistoryIsTrue'
    BY DEF HistoryIsTrue, DoneSoFar
  <2>3. ZoneFirst'
    BY DEF ZoneFirst, DoneSoFar
  <2> QED
    BY <2>1, <2>2, <2>3
<1>9. CASE TaskFails(c)
  <2> USE <1>9 DEF TaskFails
  <2>1. DoneSoFar'
    BY DEF DoneSoFar
  <2>2. HistoryIsTrue'
    BY DEF HistoryIsTrue, DoneSoFar
  <2>3. ZoneFirst'
    BY DEF ZoneFirst, DoneSoFar
  <2> QED
    BY <2>1, <2>2, <2>3
<1>10. CASE Abort(c)
  <2> USE <1>10 DEF Abort
  <2>1. DoneSoFar'
    BY DEF DoneSoFar
  <2>2. HistoryIsTrue'
    BY DEF HistoryIsTrue, DoneSoFar
  <2>3. ZoneFirst'
    BY DEF ZoneFirst, DoneSoFar
  <2> QED
    BY <2>1, <2>2, <2>3
<1> QED
  BY <1>1, <1>2, <1>3, <1>4, <1>5, <1>6, <1>7, <1>8, <1>9, <1>10

\* What each command has done so far holds in every reachable state.
THEOREM ProgressHolds == Spec => []Progress
<1>1. Init => Progress
  BY DEF Init, Progress, DoneSoFar, HistoryIsTrue, ZoneFirst
<1>2. TypeOK /\ Progress /\ [Next]_vars => Progress'
  <2> SUFFICES ASSUME TypeOK, Progress, [Next]_vars PROVE Progress'
    OBVIOUS
  <2>1. CASE UNCHANGED vars
    BY <2>1 DEF vars, command, Progress, DoneSoFar, HistoryIsTrue, ZoneFirst
  <2>2. CASE Next
    BY <2>2, ProgressStep DEF Next
  <2> QED
    BY <2>1, <2>2
<1> QED
  BY <1>1, <1>2, TypeCorrect, PTL DEF Spec

\* The history names deployments that were started, a down with its zone deleted
\* and an up with its stack on record, for any number of commands.
THEOREM TrueHistory == Spec => []HistoryIsTrue
<1>1. Progress => HistoryIsTrue
  BY DEF Progress
<1> QED
  BY <1>1, ProgressHolds, PTL

\* While an up's task runs the subdomain is delegated, or a down has deleted the
\* zone, for any number of commands.
THEOREM ZoneKept == Spec => []ZoneWhileRunning
<1>1. TypeOK /\ Progress => ZoneWhileRunning
  BY DEF TypeOK, Progress, ZoneFirst, ZoneWhileRunning
<1> QED
  BY <1>1, ProgressHolds, TypeCorrect, PTL

-----------------------------------------------------------------------------
(***************************************************************************)
(* ComposeFixup: the project that is deployed.                             *)
(***************************************************************************)
\* The values are being gone over, or have been.
Late == stage \in {"values", "validate", "done"}

\* The types, and what a range may still come to.
FixupTypeOK ==
  /\ given \in Projects /\ config \subseteq Configs /\ kept \in BOOLEAN /\ estimate \in BOOLEAN
  /\ stage \in {"check", "config", "services", "models", "replacer", "values",
                "validate", "done", "failed", "panic"}
  /\ Services \subseteq DOMAIN project /\ DOMAIN project \subseteq Names
  /\ project \in [DOMAIN project -> Service]
  /\ todo \subseteq CASE stage = "services" -> Services
                      [] stage = "models" -> Models
                      [] stage = "values" -> DOMAIN project
                      [] OTHER -> {}

AsGiven == stage \in {"check", "config"} => project = given /\ kept

\* The ranges that make gateways have been past n.
Passed(n) ==
  \/ stage = "replacer" \/ Late
  \/ stage = "models" /\ n \notin todo
  \/ stage = "services" /\ n \in Services \ todo

\* What becomes private has a host port as soon as the ranges are past it.
Hosts ==
  \A n \in DOMAIN project :
    n \in Models \/ (n \in Stores \union Gateways /\ Passed(n)) => project[n].ports = "host"

\* A service comes to depend on the models it uses and on nothing else, and on
\* each when its gateway is made.
DepsKept ==
  /\ \A s \in Services :
       /\ given[s].deps \subseteq project[s].deps
       /\ project[s].deps \subseteq given[s].deps \union given[s].uses
       /\ project[s].uses = given[s].uses /\ project[s].endpoint = given[s].endpoint
       /\ \A g \in Gateways \union Models :
            ~Passed(g) /\ g \in project[s].deps => g \in given[s].deps
  /\ \A m \in Models \cap DOMAIN project : project[m].deps = {} /\ project[m].uses = {}

WiredSoFar ==
  \A s \in Services : \A g \in Wanted(s) : Passed(g) =>
    /\ g \in project[s].deps \cap DOMAIN project
    /\ \A v \in AskedIn(given[s], g) : project[s].env[v] # Unset
    /\ NoKeys => project[s].key = "private" /\ project[g].master = "private"

\* A variable is as it was, or holds an address that was asked for in it.
VarsExplained ==
  \A s \in Services, v \in Vars :
    \/ given[s].env[v] = Unset /\ project[s].env[v] = Unset
    \/ KeptFrom(s, v)
    \/ AddressOfAsked(s, v)

\* Where nobody gave a key there is only the one that is made up.
KeysPlain ==
  NoKeys => \A s \in DOMAIN project :
    /\ project[s].key \in {"unset", "private"} /\ project[s].master \in {"unset", "private"}
    /\ ~project[s].secret

\* Where a value that is left to a config comes from.
RefGiven == \E s \in Services : "ref" \in {given[s].key, given[s].master}
Origins ==
  \A s \in DOMAIN project :
    /\ project[s].master = "nil" =>
         \/ s \in Services /\ given[s].master = "nil"
         \/ Late /\ "LITELLM_MASTER_KEY" \in config
    /\ project[s].key = "nil" =>
         \/ s \in Services /\ (given[s].key = "nil" \/ KeyOfGateway(s) \/ given[s].secret)
         \/ Late /\ "OPENAI_API_KEY" \in config
    /\ project[s].secret => s \in Services /\ given[s].secret
    /\ "ref" \in {project[s].key, project[s].master} => RefGiven
    /\ \A v \in Vars : project[s].env[v] = Nil =>
         \/ s \in Services /\ given[s].env[v] = Nil
         \/ Late /\ v \in config

\* Once the values were checked, no config that they need is missing unless it
\* was removed since.
NoneMissing ==
  stage # "check" /\ ~estimate /\ kept => Missing = {}

\* Before a private name that is left bare there is one that is not.
FirstReplaced(t) ==
  \A i \in Bare(t, private) : \E j \in DOMAIN t : j < i /\ t[j].dns /\ t[j].of \in private

\* The replacer knows every host port, and has replaced the first private name of
\* each text it was through.
PrivateKnown ==
  Late =>
    /\ private = {n \in DOMAIN project : project[n].ports = "host"}
    /\ ~estimate => \A s \in DOMAIN project \ todo, v \in Vars : FirstReplaced(project[s].env[v].text)

FixupInv ==
  /\ FixupTypeOK
  /\ stage \notin {"failed", "panic"} =>
       /\ AsGiven /\ Hosts /\ DepsKept /\ WiredSoFar /\ VarsExplained
       /\ KeysPlain /\ Origins /\ NoneMissing /\ PrivateKnown

-----------------------------------------------------------------------------
\* A set of positions that is not empty has a leftmost one.
LEMMA LeftmostExists ==
  ASSUME NEW I \in SUBSET Nat, I # {}
  PROVE  \E i \in Leftmost(I) : i \in I
<1> DEFINE less == OpToRel(<, Nat)
<1>1. IsWellFoundedOn(less, Nat)
  BY NatLessThanWellFounded
<1>2. \A x, y \in Nat : x < y => <<x, y>> \in less
  BY DEF OpToRel
<1> HIDE DEF less
<1>3. PICK i \in I : \A j \in I : <<j, i>> \notin less
  BY <1>1, WFMin
<1>4. ASSUME NEW j \in I PROVE i <= j
  <2>1. i \in Nat /\ j \in Nat
    OBVIOUS
  <2>2. ~(j < i)
    BY <2>1, <1>2, <1>3
  <2> QED
    BY <2>1, <2>2
<1> QED
  BY <1>3, <1>4 DEF Leftmost

\* Replacing keeps the names of a text, and gives the first private one its DNS name.
LEMMA ReplacedFacts ==
  ASSUME NEW t \in Seq(Mention)
  PROVE  /\ Replaced(t) \in Seq(Mention)
         /\ NamesIn(Replaced(t)) = NamesIn(t)
         /\ FirstReplaced(Replaced(t))
<1> DEFINE r == Replaced(t)
<1>1. /\ DOMAIN t = 1..Len(t) /\ Len(t) \in Nat
      /\ \A i \in 1..Len(t) : t[i] \in Mention
  OBVIOUS
<1>2. DOMAIN r = DOMAIN t
  BY DEF Replaced
<1>3. \A i \in DOMAIN t : /\ r[i] \in Mention /\ r[i].of = t[i].of
                          /\ r[i].dns = (t[i].dns \/ i \in Found(t))
  BY <1>1 DEF Replaced, Mention
<1>4. r \in Seq(Mention)
  <2>1. r = [i \in 1..Len(t) |-> r[i]]
    BY <1>1 DEF Replaced
  <2>2. \A i \in 1..Len(t) : r[i] \in Mention
    BY <1>1, <1>3
  <2> HIDE DEF r
  <2> QED
    BY <1>1, <2>1, <2>2
<1>5. NamesIn(r) = NamesIn(t)
  <2> HIDE DEF r
  <2> QED BY <1>2, <1>3 DEF NamesIn
<1>6. FirstReplaced(r)
  <2>1. ASSUME NEW i \in Bare(r, private)
        PROVE  \E j \in DOMAIN r : j < i /\ r[j].dns /\ r[j].of \in private
    <3>1. i \in Bare(t, private) /\ i \notin Found(t)
      <4> HIDE DEF r
      <4> QED BY <2>1, <1>2, <1>3 DEF Bare
    <3>2. Bare(t, private) \subseteq DOMAIN t /\ Bare(t, private) \in SUBSET Nat
      BY <1>1 DEF Bare
    <3>3. Found(t) = Leftmost(Bare(t, private))
      BY <3>1 DEF Found
    <3>4. PICK j \in Leftmost(Bare(t, private)) : j \in Bare(t, private)
      BY <3>1, <3>2, LeftmostExists
    <3>5. j <= i /\ j # i /\ i \in Nat /\ j \in Nat
      BY <3>1, <3>2, <3>3, <3>4 DEF Leftmost
    <3>6. t[j].of \in private /\ j \in DOMAIN t
      BY <3>4 DEF Bare
    <3> HIDE DEF r
    <3>7. j \in DOMAIN r /\ r[j].of \in private
      BY <3>6, <1>2, <1>3
    <3>8. r[j].dns
      BY <3>3, <3>4, <3>6, <1>3
    <3>9. j < i
      BY <3>5
    <3> QED
      BY <3>7, <3>8, <3>9
  <2> QED
    BY <2>1 DEF FirstReplaced
<1> QED
  BY <1>4, <1>5, <1>6

\* What an entry of the environment may be.
LEMMA VariableFacts ==
  /\ Unset \in Variable /\ Nil \in Variable /\ Unset # Nil
  /\ \A var \in Variable :
       /\ var = Unset \/ var = Nil \/ (var.is = "text" /\ var.text \in Seq(Mention))
       /\ var.is = "text" => var # Unset /\ var # Nil
       /\ var.is # "text" => var.text = <<>>
  /\ \A t \in Seq(Mention) : Text(t) \in Variable /\ Text(t).is = "text" /\ Text(t).text = t
BY DEF Unset, Nil, Variable, Text

\* The address of a gateway is a text with its name and nothing else.
LEMMA AddressFacts ==
  ASSUME NEW g \in Names
  PROVE  /\ Address(g) \in Variable /\ Address(g).is = "text" /\ Address(g) # Unset
         /\ NamesIn(Address(g).text) = <<g>>
<1> DEFINE t == <<[of |-> g, dns |-> FALSE]>>
<1>1. t \in Seq(Mention)
  BY DEF Mention
<1>2. NamesIn(t) = <<g>>
  BY DEF NamesIn
<1>3. Address(g) = Text(t)
  BY DEF Address
<1> HIDE DEF t
<1> QED
  BY <1>1, <1>2, <1>3, VariableFacts

\* As long as the project is as it was given, so are its variables.
LEMMA VarsAsGiven ==
  ASSUME given \in [Services -> Service], project = given
  PROVE  VarsExplained
<1> SUFFICES ASSUME NEW s \in Services, NEW v \in Vars
             PROVE  (given[s].env[v] = Unset /\ project[s].env[v] = Unset) \/ KeptFrom(s, v)
  BY DEF VarsExplained
<1>1. given[s].env[v] \in Variable
  BY DEF Service
<1> QED
  BY <1>1, VariableFacts DEF KeptFrom

\* What is said of the variables depends on the project they are compared with.
LEMMA VarsKept ==
  ASSUME VarsExplained, UNCHANGED <<given, config>>,
         \A s \in Services : \A v \in Vars : project'[s].env[v] = project[s].env[v]
  PROVE  VarsExplained'
BY DEF VarsExplained, KeptFrom, AddressOfAsked, Wanted

LEMMA FixupInitInv == FixupInit => FixupInv
<1> SUFFICES ASSUME FixupInit PROVE FixupInv
  OBVIOUS
<1> USE DEF FixupInit
<1>1. given \in [Services -> Service] /\ project = given /\ DOMAIN project = Services
  BY FixupAssumption
<1>2. FixupTypeOK
  BY <1>1, FixupAssumption DEF FixupTypeOK, Names
<1>3. AsGiven /\ NoneMissing /\ PrivateKnown
  BY DEF AsGiven, NoneMissing, PrivateKnown, Late
<1>4. \A n : ~Passed(n)
  BY DEF Passed, Late
<1>5. \A n \in Services : n \notin Models
  BY FixupAssumption
<1>6. Hosts /\ DepsKept /\ WiredSoFar
  BY <1>1, <1>4, <1>5 DEF Hosts, DepsKept, WiredSoFar
<1>7. KeysPlain /\ Origins
  BY <1>1 DEF KeysPlain, NoKeys, Origins, RefGiven
<1>8. VarsExplained
  BY <1>1, VarsAsGiven
<1> QED
  BY <1>2, <1>3, <1>6, <1>7, <1>8 DEF FixupInv

LEMMA FixupFailStep ==
  ASSUME FixupInv, Fail("failed") \/ Fail("panic")
  PROVE  FixupInv'
<1>1. FixupTypeOK'
  BY DEF FixupInv, FixupTypeOK, Fail, inputs, replacer
<1>2. stage' \in {"failed", "panic"}
  BY DEF Fail
<1> QED
  BY <1>1, <1>2 DEF FixupInv

\* What the invariant says of a run that has not failed.
LEMMA FixupFacts ==
  ASSUME FixupInv, stage \notin {"failed", "panic"}
  PROVE  /\ FixupTypeOK /\ AsGiven /\ Hosts /\ DepsKept /\ WiredSoFar /\ VarsExplained
         /\ KeysPlain /\ Origins /\ NoneMissing /\ PrivateKnown
         /\ \A n \in DOMAIN project : project[n] \in Service
         /\ given \in [Services -> Service]
         /\ \A s \in Services : given[s].deps \subseteq Services \ {s}
BY FixupAssumption DEF FixupInv, FixupTypeOK

LEMMA CheckStep ==
  ASSUME FixupInv, Check
  PROVE  FixupInv'
<1>1. CASE Fail("failed")
  BY <1>1, FixupFailStep
<1>2. CASE ~Fail("failed")
  <2>1. /\ stage = "check" /\ stage' = "config" /\ todo' = {}
        /\ estimate \/ Missing = {}
        /\ UNCHANGED <<given, config, kept, estimate, project, private, public, skipPublic>>
    BY <1>2 DEF Check, Proceed, inputs, replacer
  <2>2. FixupTypeOK' /\ AsGiven'
    BY <2>1, FixupFacts DEF FixupTypeOK, AsGiven
  <2>3. NoneMissing' /\ PrivateKnown'
    BY <2>1 DEF NoneMissing, PrivateKnown, Late, Missing
  <2>4. \A n : ~Passed(n)'
    BY <2>1 DEF Passed, Late
  <2>5. Hosts' /\ WiredSoFar' /\ VarsExplained'
    BY <2>1, <2>4, FixupFacts, VarsKept DEF Hosts, WiredSoFar
  <2>6. KeysPlain' /\ Origins'
    BY <2>1, FixupFacts DEF KeysPlain, NoKeys, Origins, RefGiven, KeyOfGateway, Wanted, Late
  <2>7. DepsKept'
    BY <2>1, FixupFacts DEF DepsKept, AsGiven
  <2> QED
    BY <2>2, <2>3, <2>5, <2>6, <2>7 DEF FixupInv
<1> QED
  BY <1>1, <1>2

LEMMA ListConfigStep ==
  ASSUME FixupInv, ListConfig
  PROVE  FixupInv'
<1>1. CASE Fail("failed")
  BY <1>1, FixupFailStep
<1>2. CASE ~Fail("failed")
  <2>1. /\ stage = "config" /\ stage' = "services" /\ todo' = Services
        /\ config' \subseteq Configs /\ kept' = (config \subseteq config')
        /\ UNCHANGED <<given, estimate, project, private, public, skipPublic>>
    BY <1>2, FixupAssumption DEF ListConfig, Proceed, replacer
  <2>2. project = given /\ DOMAIN project = Services
    BY <2>1, FixupFacts DEF AsGiven
  <2>3. FixupTypeOK' /\ AsGiven' /\ DepsKept'
    BY <2>1, <2>2, FixupFacts, FixupAssumption DEF FixupTypeOK, AsGiven, DepsKept
  <2>4. NoneMissing' /\ PrivateKnown'
    <3>1. config \subseteq config' /\ Missing = {} => Missing' = {}
      BY <2>1 DEF Missing
    <3>2. kept
      BY <2>1, FixupFacts DEF AsGiven
    <3> QED
      BY <2>1, <3>1, <3>2, FixupFacts DEF NoneMissing, PrivateKnown, Late
  <2>5. \A n : ~Passed(n)'
    BY <2>1 DEF Passed, Late
  <2>6. Hosts' /\ WiredSoFar'
    BY <2>1, <2>2, <2>5, FixupAssumption DEF Hosts, WiredSoFar
  <2>7. KeysPlain' /\ Origins'
    BY <2>1, <2>2 DEF KeysPlain, NoKeys, Origins, RefGiven
  <2>8. VarsExplained'
    <3> SUFFICES ASSUME NEW s \in Services, NEW v \in Vars
                 PROVE  (given[s].env[v] = Unset) \/ KeptFrom(s, v)'
      BY <2>1, <2>2 DEF VarsExplained
    <3>1. given[s].env[v] \in Variable
      BY FixupFacts, <2>1 DEF Service
    <3> QED
      BY <3>1, <2>1, <2>2, VariableFacts DEF KeptFrom
  <2> QED
    BY <2>3, <2>4, <2>6, <2>7, <2>8 DEF FixupInv
<1> QED
  BY <1>1, <1>2

\* A visit is all that a range has been past in the meantime.
LEMMA VisitFacts ==
  ASSUME NEW n, FixupTypeOK, n \in todo,
         \/ stage = "services" /\ Visit(n, AfterServices, Models)
         \/ stage = "models" /\ Visit(n, "replacer", {})
  PROVE  /\ \/ stage' = "services" /\ todo' \subseteq Services
            \/ stage' = "models" /\ todo' \subseteq Models
            \/ stage' = "replacer" /\ todo' = {}
         /\ \A x \in Names : Passed(x)' <=> Passed(x) \/ x = n
<1>0. \A x \in Services : x \notin Models
  BY FixupAssumption
<1>1. CASE stage = "services" /\ Visit(n, AfterServices, Models)
  <2>1. todo \subseteq Services /\ n \in Services
    BY <1>1 DEF FixupTypeOK
  <2>2. CASE todo # {n}
    BY <1>0, <1>1, <2>1, <2>2 DEF Visit, Passed, Late, Names
  <2>3. CASE todo = {n}
    BY <1>0, <1>1, <2>1, <2>3 DEF Visit, AfterServices, Passed, Late, Names
  <2> QED
    BY <2>2, <2>3
<1>2. CASE stage = "models" /\ Visit(n, "replacer", {})
  <2>1. todo \subseteq Models /\ n \in Models
    BY <1>2 DEF FixupTypeOK
  <2>2. CASE todo # {n}
    BY <1>0, <1>2, <2>1, <2>2 DEF Visit, Passed, Late, Names
  <2>3. CASE todo = {n}
    BY <1>0, <1>2, <2>1, <2>3 DEF Visit, Passed, Late, Names
  <2> QED
    BY <2>2, <2>3
<1> QED
  BY <1>1, <1>2

\* A step of the ranges keeps what is said of the inputs.
LEMMA InputsKept ==
  ASSUME FixupInv, stage \in {"services", "models"}, UNCHANGED <<inputs, replacer>>,
         stage' \in {"services", "models", "replacer"}
  PROVE  AsGiven' /\ NoneMissing' /\ PrivateKnown' /\ (NoKeys' <=> NoKeys) /\ (RefGiven' <=> RefGiven)
         /\ UNCHANGED <<given, config, kept, estimate>> /\ ~Late /\ ~Late'
         /\ \A s : Wanted(s)' = Wanted(s) /\ (KeyOfGateway(s)' <=> KeyOfGateway(s))
<1>1. UNCHANGED <<given, config, kept, estimate>>
  BY DEF inputs
<1>2. AsGiven' /\ PrivateKnown' /\ ~Late /\ ~Late'
  BY DEF AsGiven, PrivateKnown, Late
<1>3. NoneMissing'
  BY <1>1, FixupFacts DEF NoneMissing, Missing
<1> QED
  BY <1>1, <1>2, <1>3 DEF NoKeys, RefGiven, Wanted, KeyOfGateway

LEMMA FixServiceStep ==
  ASSUME FixupInv, NEW s \in Services, FixService(s)
  PROVE  FixupInv'
<1>1. /\ stage = "services" /\ s \in todo /\ s \notin Gateways
      /\ project' = [project EXCEPT ![s].ports = FixedPorts(s)]
      /\ Visit(s, AfterServices, Models) /\ UNCHANGED <<inputs, replacer>>
  BY DEF FixService
<1>2. /\ FixupTypeOK /\ Hosts /\ DepsKept /\ WiredSoFar /\ VarsExplained
      /\ KeysPlain /\ Origins
      /\ \A n \in DOMAIN project : project[n] \in Service
      /\ Services \subseteq DOMAIN project /\ DOMAIN project \subseteq Names
  BY <1>1, FixupFacts DEF FixupTypeOK
<1>3. /\ \/ stage' = "services" /\ todo' \subseteq Services
         \/ stage' = "models" /\ todo' \subseteq Models
         \/ stage' = "replacer" /\ todo' = {}
      /\ \A x \in Names : Passed(x)' <=> Passed(x) \/ x = s
  BY <1>1, <1>2, VisitFacts
<1>4. /\ AsGiven' /\ NoneMissing' /\ PrivateKnown' /\ (NoKeys' <=> NoKeys) /\ (RefGiven' <=> RefGiven)
      /\ UNCHANGED <<given, config, kept, estimate>> /\ ~Late /\ ~Late'
      /\ \A x : Wanted(x)' = Wanted(x) /\ (KeyOfGateway(x)' <=> KeyOfGateway(x))
  BY <1>1, <1>3, InputsKept
<1>5. /\ DOMAIN project' = DOMAIN project
      /\ \A n \in DOMAIN project :
           /\ project'[n] = [project[n] EXCEPT !.ports = IF n = s THEN FixedPorts(s) ELSE @]
  BY <1>1, <1>2 DEF Service
<1>6. \A n \in DOMAIN project :
        /\ project'[n] \in Service
        /\ project'[n].deps = project[n].deps /\ project'[n].uses = project[n].uses
        /\ project'[n].endpoint = project[n].endpoint /\ project'[n].env = project[n].env
        /\ project'[n].key = project[n].key /\ project'[n].master = project[n].master
        /\ project'[n].secret = project[n].secret
        /\ n # s => project'[n].ports = project[n].ports
  <2>1. FixedPorts(s) \in Ports
    BY <1>2 DEF FixedPorts, Service, Ports
  <2> QED
    BY <1>2, <1>5, <2>1 DEF Service
<1>7. FixupTypeOK'
  <2>1. project' \in [DOMAIN project' -> Service]
    <3>1. project' = [n \in DOMAIN project |-> project'[n]]
      BY <1>1, <1>2 DEF FixupTypeOK
    <3> QED
      BY <3>1, <1>5, <1>6
  <2> QED
    BY <1>2, <1>3, <1>4, <1>5, <2>1 DEF FixupTypeOK
<1>8. Hosts'
  <2>1. s \in Stores => project'[s].ports = "host"
    BY <1>2, <1>5 DEF FixedPorts, Service
  <2>2. s \notin Models
    BY FixupAssumption
  <2> QED
    BY <1>1, <1>2, <1>3, <1>5, <1>6, <2>1, <2>2 DEF Hosts
<1>9. DepsKept' /\ VarsExplained'
  <2>1. \A g \in Gateways \union Models : Passed(g) => Passed(g)'
    BY <1>3, FixupAssumption DEF Names
  <2>2. DepsKept'
    BY <2>1, <1>2, <1>4, <1>5, <1>6 DEF DepsKept
  <2>3. \A x \in Services : \A v \in Vars : project'[x].env[v] = project[x].env[v]
    BY <1>2, <1>6
  <2> QED
    BY <2>2, <2>3, <1>2, <1>4, VarsKept
<1>10. WiredSoFar'
  <2>1. ASSUME NEW x \in Services, NEW g \in Wanted(x), Passed(g)'
        PROVE  Passed(g) /\ g \in DOMAIN project
    <3>1. g \in Gateways \union Models /\ g \in Names
      BY <1>2, <1>4, FixupAssumption DEF Wanted, FixupTypeOK, Service, Names
    <3> QED
      BY <3>1, <2>1, <1>1, <1>2, <1>3, FixupAssumption DEF WiredSoFar
  <2> QED
    BY <2>1, <1>2, <1>4, <1>5, <1>6 DEF WiredSoFar
<1>11. KeysPlain' /\ Origins'
  BY <1>2, <1>4, <1>5, <1>6 DEF KeysPlain, Origins
<1> QED
  BY <1>4, <1>7, <1>8, <1>9, <1>10, <1>11 DEF FixupInv

\* Wiring adds the dependency, the key where there is none, and the address where
\* it is asked for and there is none.
LEMMA WiredFields ==
  ASSUME NEW s, project[s] \in Service, NEW g \in Names, NEW master \in Values
  PROVE  /\ Wired(g, s, master) \in Service
         /\ Wired(g, s, master).deps = project[s].deps \union {g}
         /\ Wired(g, s, master).key = IF project[s].key = "unset" THEN master ELSE project[s].key
         /\ \A v \in Vars : Wired(g, s, master).env[v] =
              IF v \in AskedIn(project[s], g) /\ project[s].env[v] = Unset
              THEN Address(g) ELSE project[s].env[v]
         /\ \A f \in {"ports", "uses", "endpoint", "master", "secret"} :
              Wired(g, s, master)[f] = project[s][f]
<1> DEFINE env == [v \in Vars |-> IF v \in AskedIn(project[s], g) /\ project[s].env[v] = Unset
                                  THEN Address(g) ELSE project[s].env[v]]
<1>1. Address(g) \in Variable
  BY AddressFacts
<1>2. env \in [Vars -> Variable]
  BY <1>1 DEF Service
<1> DEFINE key == IF project[s].key = "unset" THEN master ELSE project[s].key
<1>3. Wired(g, s, master) = [project[s] EXCEPT !.deps = @ \union {g}, !.key = key, !.env = env]
  BY DEF Wired
<1>4. key \in Values
  BY DEF Service
<1>5. \A v \in Vars : env[v] = IF v \in AskedIn(project[s], g) /\ project[s].env[v] = Unset
                                THEN Address(g) ELSE project[s].env[v]
  OBVIOUS
<1> HIDE DEF env, key
<1>6. /\ Wired(g, s, master) \in Service
      /\ Wired(g, s, master).deps = project[s].deps \union {g}
      /\ Wired(g, s, master).key = key /\ Wired(g, s, master).env = env
      /\ Wired(g, s, master).ports = project[s].ports /\ Wired(g, s, master).uses = project[s].uses
      /\ Wired(g, s, master).endpoint = project[s].endpoint
      /\ Wired(g, s, master).master = project[s].master
      /\ Wired(g, s, master).secret = project[s].secret
  <2> DEFINE w == [project[s] EXCEPT !.deps = @ \union {g}, !.key = key, !.env = env]
  <2>1. /\ w \in Service
        /\ w.deps = project[s].deps \union {g} /\ w.key = key /\ w.env = env
        /\ w.ports = project[s].ports /\ w.uses = project[s].uses /\ w.endpoint = project[s].endpoint
        /\ w.master = project[s].master /\ w.secret = project[s].secret
    BY <1>2, <1>4 DEF Service
  <2>2. Wired(g, s, master) = w
    BY <1>3
  <2> HIDE DEF w
  <2> QED
    BY <2>1, <2>2
<1> QED
  BY <1>5, <1>6 DEF key

\* Making a gateway: its dependents are wired to it, with the key that it accepts,
\* which is its own, one that a dependent had, or one that is made up.
LEMMA MakeGatewayStep ==
  ASSUME FixupInv, NEW g \in todo, NEW svc \in Service, MakeGateway(g, svc),
         UNCHANGED <<inputs, replacer>>,
         \/ /\ stage = "services" /\ g \in Gateways /\ svc = project[g]
            /\ Visit(g, AfterServices, Models)
         \/ /\ stage = "models" /\ g \in Models /\ svc = NoService
            /\ Visit(g, "replacer", {})
  PROVE  FixupInv'
<1> DEFINE D == DOMAIN project
<1>1. stage \in {"services", "models"}
  OBVIOUS
<1>2. /\ FixupTypeOK /\ Hosts /\ DepsKept /\ WiredSoFar /\ VarsExplained /\ KeysPlain /\ Origins
      /\ \A n \in D : project[n] \in Service
      /\ Services \subseteq D /\ D \subseteq Names
      /\ given \in [Services -> Service]
      /\ \A s \in Services : given[s].deps \subseteq Services \ {s}
  BY <1>1, FixupFacts DEF FixupTypeOK
<1>3. /\ \/ stage' = "services" /\ todo' \subseteq Services
         \/ stage' = "models" /\ todo' \subseteq Models
         \/ stage' = "replacer" /\ todo' = {}
      /\ \A x \in Names : Passed(x)' <=> Passed(x) \/ x = g
  BY <1>2, VisitFacts
<1>4. /\ AsGiven' /\ NoneMissing' /\ PrivateKnown' /\ (NoKeys' <=> NoKeys) /\ (RefGiven' <=> RefGiven)
      /\ UNCHANGED <<given, config, kept, estimate>> /\ ~Late /\ ~Late'
      /\ \A x : Wanted(x)' = Wanted(x) /\ (KeyOfGateway(x)' <=> KeyOfGateway(x))
  BY <1>1, <1>3, InputsKept
<1>5. g \in Names /\ (g \in Models <=> g \notin Services)
  BY FixupAssumption DEF Names
<1>6. PICK master \in MasterKeys(g, svc.master) :
        project' = [s \in D \union {g} |->
          IF s = g THEN [svc EXCEPT !.ports = "host", !.networks = TRUE, !.master = master]
          ELSE IF s \in Consumers(g) THEN Wired(g, s, master)
          ELSE project[s]]
  BY DEF MakeGateway
\* What the key of the gateway may be.
<1>7. /\ \/ svc.master # "unset" /\ master = svc.master
         \/ svc.master = "unset" /\ master = "private"
         \/ /\ svc.master = "unset" /\ master # "nil"
            /\ \E t \in D : g \in project[t].deps /\ master = project[t].key /\ master # "unset"
      /\ master \in Values /\ master # "unset"
  <2>1. svc.master \in Values
    BY DEF Service
  <2>2. \A k \in Literals(g) :
          /\ k \in Values /\ k \notin {"unset", "nil"}
          /\ \E t \in D : g \in project[t].deps /\ k = project[t].key
    BY <1>2 DEF Literals, KeysSeen, Service
  <2>3. "private" \in Values
    BY DEF Values
  <2> QED
    BY <1>6, <2>1, <2>2, <2>3 DEF MasterKeys
<1>8. /\ DOMAIN project' = D \union {g}
      /\ project'[g] = [svc EXCEPT !.ports = "host", !.networks = TRUE, !.master = master]
      /\ \A s \in D \ {g} : project'[s] = IF s \in Consumers(g) THEN Wired(g, s, master) ELSE project[s]
  BY <1>6
\* The fields of the others.
<1>9. \A s \in D \ {g} :
        /\ project'[s] \in Service
        /\ project'[s].ports = project[s].ports /\ project'[s].uses = project[s].uses
        /\ project'[s].master = project[s].master /\ project'[s].secret = project[s].secret
        /\ project'[s].endpoint = project[s].endpoint
        /\ s \in Consumers(g) =>
             /\ project'[s].deps = project[s].deps \union {g}
             /\ \A v \in Vars : project'[s].env[v] =
                  IF v \in AskedIn(project[s], g) /\ project[s].env[v] = Unset
                  THEN Address(g) ELSE project[s].env[v]
             /\ project'[s].key = IF project[s].key = "unset" THEN master ELSE project[s].key
        /\ s \notin Consumers(g) => project'[s] = project[s]
  <2>1. TAKE s \in D \ {g}
  <2>2. project[s] \in Service
    BY <1>2
  <2>3. CASE s \in Consumers(g)
    <3>1. project'[s] = Wired(g, s, master)
      BY <2>3, <1>8
    <3>2. /\ Wired(g, s, master) \in Service
          /\ Wired(g, s, master).deps = project[s].deps \union {g}
          /\ Wired(g, s, master).key = IF project[s].key = "unset" THEN master ELSE project[s].key
          /\ \A v \in Vars : Wired(g, s, master).env[v] =
               IF v \in AskedIn(project[s], g) /\ project[s].env[v] = Unset
               THEN Address(g) ELSE project[s].env[v]
          /\ \A f \in {"ports", "uses", "endpoint", "master", "secret"} :
               Wired(g, s, master)[f] = project[s][f]
      BY <2>2, <1>5, <1>7, WiredFields
    <3> QED
      BY <2>3, <3>1, <3>2
  <2>4. CASE s \notin Consumers(g)
    BY <2>1, <2>2, <2>4, <1>8
  <2> QED
    BY <2>3, <2>4
\* The fields of the gateway.
<1>10. /\ project'[g] \in Service
       /\ project'[g].ports = "host" /\ project'[g].master = master
       /\ project'[g].deps = svc.deps /\ project'[g].uses = svc.uses
       /\ project'[g].endpoint = svc.endpoint /\ project'[g].env = svc.env
       /\ project'[g].key = svc.key /\ project'[g].secret = svc.secret
  BY <1>7, <1>8 DEF Service, Ports
<1>11. /\ g \in Models => /\ svc.deps = {} /\ svc.uses = {} /\ svc.key = "unset"
                          /\ svc.master = "unset" /\ ~svc.secret
                          /\ \A v \in Vars : svc.env[v] = Unset
       /\ g \notin Models => g \in D /\ svc = project[g]
  BY <1>2, <1>5, FixupAssumption DEF NoService
<1>12. FixupTypeOK'
  <2>1. project' \in [DOMAIN project' -> Service]
    <3>1. \A s \in D \union {g} : project'[s] \in Service
      BY <1>9, <1>10
    <3>2. project' = [s \in D \union {g} |-> project'[s]]
      BY <1>6
    <3> QED
      BY <1>8, <3>1, <3>2
  <2> QED
    BY <1>2, <1>3, <1>4, <1>5, <1>8, <2>1 DEF FixupTypeOK
<1>13. Hosts'
  <2>1. ASSUME NEW n \in D \ {g}, n \in Models \/ (n \in Stores \union Gateways /\ Passed(n)')
        PROVE  project'[n].ports = "host"
    <3>1. n \in Models \/ (n \in Stores \union Gateways /\ Passed(n))
      BY <2>1, <1>2, <1>3
    <3> QED
      BY <2>1, <3>1, <1>2, <1>9 DEF Hosts
  <2> QED
    BY <2>1, <1>8, <1>10 DEF Hosts
<1>14. DepsKept'
  <2>1. ASSUME NEW s \in Services
        PROVE  /\ given[s].deps \subseteq project'[s].deps
               /\ project'[s].deps \subseteq given[s].deps \union given[s].uses
               /\ project'[s].uses = given[s].uses /\ project'[s].endpoint = given[s].endpoint
               /\ \A h \in Gateways \union Models :
                    ~Passed(h)' /\ h \in project'[s].deps => h \in given[s].deps
    <3>0. \A h \in Gateways \union Models : ~Passed(h)' => ~Passed(h) /\ h # g
      BY <1>3, FixupAssumption DEF Names
    <3>1. CASE s = g
      BY <2>1, <3>0, <3>1, <1>2, <1>5, <1>10, <1>11 DEF DepsKept
    <3>2. CASE s # g
      <4>1. s \in Consumers(g) => g \in given[s].deps \union given[s].uses
        BY <2>1, <1>2 DEF Consumers, DepsKept
      <4>2. s \in D \ {g}
        BY <2>1, <3>2, <1>2
      <4> QED
        BY <2>1, <3>0, <4>1, <4>2, <1>2, <1>9 DEF DepsKept
    <3> QED
      BY <3>1, <3>2
  <2>2. ASSUME NEW m \in Models \cap (D \union {g})
        PROVE  project'[m].deps = {} /\ project'[m].uses = {}
    <3>1. CASE m = g
      BY <2>2, <3>1, <1>10, <1>11
    <3>2. CASE m # g
      <4>1. m \in D \ {g} /\ m \notin Consumers(g)
        BY <2>2, <3>2, <1>2 DEF Consumers, DepsKept
      <4> QED
        BY <2>2, <4>1, <1>2, <1>9 DEF DepsKept
    <3> QED
      BY <3>1, <3>2
  <2> QED
    BY <2>1, <2>2, <1>4, <1>8 DEF DepsKept
\* Without keys there is only the one that is made up, and who waits for the gateway gets it.
<1>15. NoKeys => master = "private" /\ \A s \in Consumers(g) \ {g} : project'[s].key = "private"
  <2>1. ASSUME NoKeys PROVE master = "private"
    <3>1. svc.master \in {"unset", "private"}
      BY <2>1, <1>2, <1>11 DEF KeysPlain
    <3>2. \A t \in D : project[t].key \in {"unset", "private"}
      BY <2>1, <1>2 DEF KeysPlain
    <3> QED
      BY <3>1, <3>2, <1>7
  <2>2. ASSUME NoKeys, NEW s \in Consumers(g) \ {g}
        PROVE  project'[s].key = "private"
    <3>1. s \in D \ {g} /\ project[s].key \in {"unset", "private"}
      BY <2>2, <1>2 DEF KeysPlain, Consumers
    <3> QED
      BY <2>1, <2>2, <3>1, <1>9
  <2> QED
    BY <2>1, <2>2
\* g was not a dependency that it had not been given, so the variables in which it
\* is asked for are those of the Compose file; only what was not there is set.
<1>16. ~Passed(g)
  BY <1>2, FixupAssumption DEF Passed, Late, FixupTypeOK
<1>17. \A s \in Services : AskedIn(project[s], g) = AskedIn(given[s], g)
  <2>1. g \in Gateways \union Models
    OBVIOUS
  <2>2. ASSUME NEW s \in Services
        PROVE  /\ (g \in project[s].deps) <=> (g \in given[s].deps)
               /\ project[s].uses = given[s].uses /\ project[s].endpoint = given[s].endpoint
    <3>1. /\ given[s].deps \subseteq project[s].deps
          /\ ~Passed(g) /\ g \in project[s].deps => g \in given[s].deps
          /\ project[s].uses = given[s].uses /\ project[s].endpoint = given[s].endpoint
      BY <2>1, <2>2, <1>2 DEF DepsKept
    <3> QED
      BY <3>1, <1>16
  <2> QED
    BY <2>2 DEF AskedIn
<1>18. \A s \in D \ {g} : \A v \in Vars :
         \/ project'[s].env[v] = project[s].env[v]
         \/ /\ project[s].env[v] = Unset /\ project'[s].env[v] = Address(g)
            /\ s \in Consumers(g) /\ v \in AskedIn(project[s], g)
  BY <1>9
<1>19. Address(g).is = "text" /\ Address(g) # Unset /\ Address(g) # Nil
       /\ NamesIn(Address(g).text) = <<g>>
  BY <1>5, AddressFacts, VariableFacts
<1>20. \A s \in Services : \A v \in Vars :
         project[s].env[v] # Unset => project'[s].env[v] = project[s].env[v]
  BY <1>2, <1>5, <1>10, <1>11, <1>18
<1>21. WiredSoFar'
  <2>1. ASSUME NEW s \in Services, NEW h \in Wanted(s), Passed(h)'
        PROVE  /\ h \in project'[s].deps \cap (D \union {g})
               /\ \A v \in AskedIn(given[s], h) : project'[s].env[v] # Unset
               /\ NoKeys => project'[s].key = "private" /\ project'[h].master = "private"
    <3>1. h \in Names /\ h # s /\ (h \in given[s].deps \/ h \in given[s].uses)
      BY <2>1, <1>2, FixupAssumption DEF Wanted, Service, Names
    <3>2. CASE h = g
      <4>1. s \in Consumers(g) \ {g} /\ s \in D \ {g}
        BY <2>1, <3>1, <3>2, <1>2 DEF Consumers, DepsKept
      <4>2. \A v \in AskedIn(given[s], g) : project'[s].env[v] # Unset
        BY <2>1, <4>1, <1>9, <1>17, <1>19 DEF AskedIn
      <4> QED
        BY <3>2, <4>1, <4>2, <1>9, <1>10, <1>15
    <3>3. CASE h # g
      <4>1. /\ h \in project[s].deps \cap D
            /\ \A v \in AskedIn(given[s], h) : project[s].env[v] # Unset
            /\ NoKeys => project[s].key = "private" /\ project[h].master = "private"
        BY <2>1, <3>1, <3>3, <1>2, <1>3 DEF WiredSoFar
      <4>2. project'[h].master = project[h].master
        BY <3>3, <4>1, <1>9
      <4>3. \A v \in AskedIn(given[s], h) : project'[s].env[v] # Unset
        BY <2>1, <4>1, <1>20 DEF AskedIn
      <4>4. CASE s = g
        <5>1. project'[s].deps = project[s].deps /\ project'[s].key = project[s].key
          BY <2>1, <4>4, <1>2, <1>5, <1>8, <1>11 DEF Service
        <5> QED
          BY <4>1, <4>2, <4>3, <5>1
      <4>5. CASE s # g
        <5>1. /\ project[s].deps \subseteq project'[s].deps
              /\ project[s].key = "private" => project'[s].key = "private"
          BY <2>1, <4>5, <1>2, <1>9
        <5> QED
          BY <4>1, <4>2, <4>3, <5>1
      <4> QED
        BY <4>4, <4>5
    <3> QED
      BY <3>2, <3>3
  <2> QED
    BY <2>1, <1>4, <1>8 DEF WiredSoFar
\* A variable that was not there has come to hold an address that was asked for in it.
<1>22. VarsExplained'
  <2>1. ASSUME NEW s \in Services, NEW v \in Vars
        PROVE  \/ given[s].env[v] = Unset /\ project'[s].env[v] = Unset
               \/ KeptFrom(s, v)'
               \/ AddressOfAsked(s, v)'
    <3>1. CASE project'[s].env[v] = project[s].env[v]
      BY <2>1, <3>1, <1>2, <1>4 DEF VarsExplained, KeptFrom, AddressOfAsked
    <3>2. CASE project'[s].env[v] # project[s].env[v]
      <4>1. /\ s \in D \ {g} /\ project[s].env[v] = Unset /\ project'[s].env[v] = Address(g)
            /\ s \in Consumers(g) /\ v \in AskedIn(given[s], g)
        BY <2>1, <3>2, <1>2, <1>5, <1>10, <1>11, <1>17, <1>18
      <4>2. given[s].env[v] = Unset
        <5>1. ~KeptFrom(s, v) /\ ~AddressOfAsked(s, v)
          BY <4>1, VariableFacts DEF KeptFrom, AddressOfAsked, Unset, Nil
        <5> QED
          BY <2>1, <5>1, <1>2 DEF VarsExplained
      <4>3. g \in Wanted(s)
        <5>1. g \in given[s].deps \/ g \in given[s].uses
          BY <4>1 DEF AskedIn
        <5>2. given[s].deps \subseteq Services
          BY <2>1, <1>2
        <5> QED
          BY <5>1, <5>2, FixupAssumption DEF Wanted
      <4> QED
        BY <4>1, <4>2, <4>3, <1>4, <1>19 DEF AddressOfAsked
    <3> QED
      BY <3>1, <3>2
  <2> QED
    BY <2>1, <1>4 DEF VarsExplained
<1>23. KeysPlain'
  <2>1. ASSUME NoKeys, NEW s \in D \union {g}
        PROVE  /\ project'[s].key \in {"unset", "private"} /\ project'[s].master \in {"unset", "private"}
               /\ ~project'[s].secret
    <3>1. CASE s = g
      BY <2>1, <3>1, <1>2, <1>10, <1>11, <1>15 DEF KeysPlain
    <3>2. CASE s # g
      BY <2>1, <3>2, <1>2, <1>9, <1>15 DEF KeysPlain
    <3> QED
      BY <3>1, <3>2
  <2> QED
    BY <2>1, <1>4, <1>8 DEF KeysPlain
<1>24. Origins'
  <2>1. master = "nil" => g \in Services /\ given[g].master = "nil"
    BY <1>2, <1>4, <1>7, <1>11 DEF Origins
  <2>2. master = "ref" => RefGiven
    BY <1>2, <1>7, <1>11 DEF Origins
  <2>3. ASSUME NEW s \in D \union {g}
        PROVE  /\ project'[s].master = "nil" => s \in Services /\ given[s].master = "nil"
               /\ project'[s].key = "nil" =>
                    s \in Services /\ (given[s].key = "nil" \/ KeyOfGateway(s) \/ given[s].secret)
               /\ project'[s].secret => s \in Services /\ given[s].secret
               /\ "ref" \in {project'[s].key, project'[s].master} => RefGiven
               /\ \A v \in Vars : project'[s].env[v] = Nil => s \in Services /\ given[s].env[v] = Nil
    <3>1. CASE s = g
      BY <2>1, <2>2, <3>1, <1>2, <1>4, <1>10, <1>11, VariableFacts DEF Origins
    <3>2. CASE s # g /\ s \notin Consumers(g)
      BY <2>3, <3>2, <1>2, <1>4, <1>9 DEF Origins
    <3>3. CASE s # g /\ s \in Consumers(g)
      <4>1. master = "nil" => KeyOfGateway(s) /\ s \in Services
        <5>1. s \in Services => (g \in Gateways => g \in Wanted(s))
          BY <3>3, <1>2, FixupAssumption DEF Consumers, DepsKept, Wanted, Service
        <5>2. s \in Models => s \notin Consumers(g)
          BY <2>3, <3>3, <1>2 DEF Consumers, DepsKept
        <5>3. g \in Services => g \in Gateways
          BY FixupAssumption
        <5> QED
          BY <2>1, <2>3, <3>3, <5>1, <5>2, <5>3, <1>2 DEF KeyOfGateway, Names
      <4> QED
        BY <2>2, <2>3, <3>3, <4>1, <1>2, <1>4, <1>9, <1>19 DEF Origins
    <3> QED
      BY <3>1, <3>2, <3>3
  <2> QED
    BY <2>3, <1>4, <1>8 DEF Origins
<1> QED
  BY <1>4, <1>12, <1>13, <1>14, <1>21, <1>23, <1>24, <1>22 DEF FixupInv

LEMMA GatewayIsService ==
  /\ NoService \in Service
  /\ FixupInv /\ stage = "services" => \A g \in todo : project[g] \in Service
<1>1. NoService \in Service
  BY FixupAssumption, VariableFacts DEF NoService, Service, Ports, Values
<1>2. FixupInv /\ stage = "services" => \A g \in todo : project[g] \in Service
  BY DEF FixupInv, FixupTypeOK
<1> QED
  BY <1>1, <1>2

\* The replacer takes the services with a host port: all ranges are over.
LEMMA MakeReplacerStep ==
  ASSUME FixupInv, MakeReplacer
  PROVE  FixupInv'
<1>1. /\ stage = "replacer" /\ stage' = "values" /\ todo' = DOMAIN project
      /\ private' = {s \in DOMAIN project : project[s].ports = "host"}
      /\ UNCHANGED <<given, config, kept, estimate, project>>
  BY DEF MakeReplacer, HasHostPort, inputs
<1>2. FixupTypeOK' /\ AsGiven' /\ KeysPlain' /\ VarsExplained'
  BY <1>1, FixupFacts, VarsKept DEF FixupTypeOK, AsGiven, KeysPlain, NoKeys
<1>3. NoneMissing' /\ PrivateKnown'
  BY <1>1, FixupFacts DEF NoneMissing, Missing, PrivateKnown
<1>4. Hosts' /\ WiredSoFar' /\ DepsKept'
  <2>1. \A n : Passed(n) /\ Passed(n)'
    BY <1>1 DEF Passed, Late
  <2> QED
    BY <1>1, <2>1, FixupFacts DEF Hosts, WiredSoFar, DepsKept, Wanted, NoKeys
<1>5. Origins'
  BY <1>1, FixupFacts DEF Origins, RefGiven, KeyOfGateway, Wanted, Late
<1> QED
  BY <1>1, <1>2, <1>3, <1>4, <1>5 DEF FixupInv

\* A value gives way to a config only if that config is stored.
LEMMA OverriddenFacts ==
  ASSUME NEW name \in Configs, NEW value \in Values
  PROVE  /\ Overridden(name, value) \in {value, "nil"} \cap Values
         /\ Overridden(name, value) = value \/ name \in config
BY DEF Overridden, Values

\* What becomes of a variable: it stays, or is left to its config, or has its first
\* private name replaced.
LEMMA FixedVarFacts ==
  ASSUME NEW v \in Vars, NEW var \in Variable
  PROVE  LET fixed == FixedVar(v, var) IN
    /\ fixed \in Variable
    /\ fixed = var \/ (var.is = "text" /\ fixed = Nil /\ v \in config)
       \/ (var.is = "text" /\ fixed.is = "text" /\ NamesIn(fixed.text) = NamesIn(var.text))
    /\ ~estimate => FirstReplaced(fixed.text)
<1> DEFINE fixed == FixedVar(v, var)
<1>1. CASE var.is # "text"
  <2>1. fixed = var /\ var.text = <<>>
    BY <1>1, VariableFacts DEF FixedVar
  <2>2. FirstReplaced(<<>>)
    BY DEF FirstReplaced, Bare
  <2> QED
    BY <2>1, <2>2
<1>2. CASE var.is = "text" /\ v \in config
  <2>1. fixed = Nil /\ Nil.text = <<>>
    BY <1>2 DEF FixedVar, Nil
  <2>2. FirstReplaced(<<>>)
    BY DEF FirstReplaced, Bare
  <2> QED
    BY <1>2, <2>1, <2>2, VariableFacts
<1>3. CASE var.is = "text" /\ v \notin config /\ estimate
  BY <1>3 DEF FixedVar
<1>4. CASE var.is = "text" /\ v \notin config /\ ~estimate
  <2>1. var.text \in Seq(Mention)
    BY <1>4, VariableFacts DEF Unset, Nil
  <2>2. fixed = Text(Replaced(var.text))
    BY <1>4 DEF FixedVar
  <2> HIDE DEF fixed
  <2>3. fixed \in Variable /\ fixed.is = "text" /\ fixed.text = Replaced(var.text)
    BY <2>1, <2>2, ReplacedFacts, VariableFacts
  <2> QED
    BY <1>4, <2>1, <2>3, ReplacedFacts DEF fixed
<1> QED
  BY <1>1, <1>2, <1>3, <1>4

LEMMA FixValuesFields ==
  ASSUME FixupTypeOK, NEW s \in todo, stage = "values", FixValues(s)
  PROVE  /\ DOMAIN project' = DOMAIN project /\ project' \in [DOMAIN project -> Service]
         /\ \A n \in DOMAIN project \ {s} : project'[n] = project[n]
         /\ project'[s].ports = project[s].ports /\ project'[s].uses = project[s].uses
         /\ project'[s].deps = project[s].deps /\ project'[s].endpoint = project[s].endpoint
         /\ project'[s].secret = FALSE
         /\ \A v \in Vars : project'[s].env[v] = FixedVar(v, project[s].env[v])
         /\ project'[s].master = Overridden("LITELLM_MASTER_KEY", project[s].master)
         /\ project'[s].key = IF project[s].secret THEN "nil"
                              ELSE Overridden("OPENAI_API_KEY", project[s].key)
<1> DEFINE D == DOMAIN project
           key == IF project[s].secret THEN "nil" ELSE Overridden("OPENAI_API_KEY", project[s].key)
           master == Overridden("LITELLM_MASTER_KEY", project[s].master)
           env == [v \in Vars |-> FixedVar(v, project[s].env[v])]
           fixed == [project[s] EXCEPT !.key = key, !.secret = FALSE, !.master = master, !.env = env]
<1>1. s \in D /\ project \in [D -> Service] /\ project[s] \in Service
  BY DEF FixupTypeOK
<1>2. project' = [project EXCEPT ![s] = fixed]
  BY <1>1 DEF FixValues, Service
<1>3. key \in Values /\ master \in Values
  BY <1>1, OverriddenFacts DEF Service, Values, Configs
<1>4. env \in [Vars -> Variable]
  <2>1. \A v \in Vars : project[s].env[v] \in Variable
    BY <1>1 DEF Service
  <2> QED
    BY <2>1, FixedVarFacts
<1>5. \A v \in Vars : env[v] = FixedVar(v, project[s].env[v])
  OBVIOUS
<1> HIDE DEF env, key, master
<1>6. /\ fixed \in Service
      /\ fixed.ports = project[s].ports /\ fixed.uses = project[s].uses
      /\ fixed.deps = project[s].deps /\ fixed.endpoint = project[s].endpoint
      /\ fixed.secret = FALSE /\ fixed.env = env
      /\ fixed.master = master /\ fixed.key = key
  BY <1>1, <1>3, <1>4 DEF Service
<1> HIDE DEF fixed
<1>7. /\ DOMAIN project' = D /\ project' \in [D -> Service]
      /\ \A n \in D \ {s} : project'[n] = project[n]
      /\ project'[s] = fixed
  BY <1>1, <1>2, <1>6
<1> QED
  BY <1>6, <1>7, <1>5 DEF key, master

\* Going over the values of a service: its first private names are replaced, and a value
\* that is newly left to a config has that config.
LEMMA FixValuesStep ==
  ASSUME FixupInv, NEW s \in Names, FixValues(s)
  PROVE  FixupInv'
<1> DEFINE D == DOMAIN project
<1>1. /\ stage = "values" /\ s \in todo /\ UNCHANGED <<inputs, replacer>>
      /\ stage' \in {"values", "validate"} /\ todo' = todo \ {s}
      /\ stage' = "validate" => todo' = {}
      /\ Late /\ Late'
  BY DEF FixValues, Visit, Late
<1>2. /\ FixupTypeOK /\ Hosts /\ DepsKept /\ WiredSoFar /\ VarsExplained /\ KeysPlain /\ Origins
      /\ NoneMissing /\ PrivateKnown
      /\ \A n \in D : project[n] \in Service
      /\ Services \subseteq D /\ D \subseteq Names /\ s \in D /\ todo \subseteq D
  BY <1>1, FixupFacts DEF FixupTypeOK
<1>3. UNCHANGED <<given, config, kept, estimate, private, public, skipPublic>>
  BY <1>1 DEF inputs, replacer
<1>4. /\ DOMAIN project' = D /\ project' \in [D -> Service]
      /\ \A n \in D \ {s} : project'[n] = project[n]
      /\ project'[s].ports = project[s].ports /\ project'[s].uses = project[s].uses
      /\ project'[s].deps = project[s].deps /\ project'[s].endpoint = project[s].endpoint
      /\ project'[s].secret = FALSE
      /\ \A v \in Vars : project'[s].env[v] = FixedVar(v, project[s].env[v])
      /\ project'[s].master = Overridden("LITELLM_MASTER_KEY", project[s].master)
      /\ project'[s].key = IF project[s].secret THEN "nil"
                           ELSE Overridden("OPENAI_API_KEY", project[s].key)
  BY <1>1, <1>2, FixValuesFields
<1>5. /\ \/ project'[s].master = project[s].master
         \/ project'[s].master = "nil" /\ "LITELLM_MASTER_KEY" \in config
      /\ \/ project[s].secret /\ project'[s].key = "nil"
         \/ ~project[s].secret /\ project'[s].key = project[s].key
         \/ project'[s].key = "nil" /\ "OPENAI_API_KEY" \in config
  <2>1. project[s].key \in Values /\ project[s].master \in Values /\ project[s].secret \in BOOLEAN
    BY <1>2 DEF Service
  <2>2. /\ Overridden("LITELLM_MASTER_KEY", project[s].master) \in {project[s].master, "nil"}
        /\ \/ Overridden("LITELLM_MASTER_KEY", project[s].master) = project[s].master
           \/ "LITELLM_MASTER_KEY" \in config
    BY <2>1, OverriddenFacts DEF Configs
  <2>3. /\ Overridden("OPENAI_API_KEY", project[s].key) \in {project[s].key, "nil"}
        /\ \/ Overridden("OPENAI_API_KEY", project[s].key) = project[s].key
           \/ "OPENAI_API_KEY" \in config
    BY <2>1, OverriddenFacts DEF Configs
  <2> QED
    BY <2>1, <2>2, <2>3, <1>4
<1>6. \A n \in D : /\ project'[n].ports = project[n].ports /\ project'[n].uses = project[n].uses
                   /\ project'[n].deps = project[n].deps /\ project'[n].endpoint = project[n].endpoint
  BY <1>4
<1>7. FixupTypeOK'
  BY <1>1, <1>2, <1>3, <1>4 DEF FixupTypeOK
<1>8. AsGiven' /\ NoneMissing'
  BY <1>1, <1>2, <1>3 DEF AsGiven, NoneMissing, Missing
<1>9. \A n : Passed(n) /\ Passed(n)'
  BY <1>1 DEF Passed
<1>10. Hosts' /\ DepsKept'
  BY <1>2, <1>3, <1>4, <1>6, <1>9 DEF Hosts, DepsKept
<1>11. NoKeys => /\ ~project[s].secret /\ project'[s].key = project[s].key
                 /\ project'[s].master = project[s].master
  BY <1>2, <1>5 DEF NoKeys, KeysPlain
\* What becomes of the variables of s.
<1>12. \A v \in Vars :
         /\ project[s].env[v] \in Variable
         /\ \/ project'[s].env[v] = project[s].env[v]
            \/ project[s].env[v].is = "text" /\ project'[s].env[v] = Nil /\ v \in config
            \/ project[s].env[v].is = "text" /\ project'[s].env[v].is = "text"
               /\ NamesIn(project'[s].env[v].text) = NamesIn(project[s].env[v].text)
         /\ ~estimate => FirstReplaced(project'[s].env[v].text)
  <2>1. \A v \in Vars : project[s].env[v] \in Variable
    BY <1>2 DEF Service
  <2> QED
    BY <2>1, <1>4, FixedVarFacts
<1>13. \A v \in Vars : project[s].env[v] # Unset => project'[s].env[v] # Unset
  BY <1>12 DEF Unset, Nil
<1>14. WiredSoFar'
  <2>2. ASSUME NEW x \in Services, NEW g \in Wanted(x)
        PROVE  /\ g \in project'[x].deps \cap D
               /\ \A v \in AskedIn(given[x], g) : project'[x].env[v] # Unset
               /\ NoKeys => project'[x].key = "private" /\ project'[g].master = "private"
    <3>1. /\ g \in project[x].deps \cap D /\ x \in D
          /\ \A v \in AskedIn(given[x], g) : project[x].env[v] # Unset
          /\ NoKeys => project[x].key = "private" /\ project[g].master = "private"
      BY <2>2, <1>2, <1>9 DEF WiredSoFar
    <3>2. g \in project'[x].deps \cap D
      BY <3>1, <1>6
    <3>3. \A v \in AskedIn(given[x], g) : project'[x].env[v] # Unset
      BY <3>1, <1>4, <1>13 DEF AskedIn
    <3>4. NoKeys => project'[x].key = "private" /\ project'[g].master = "private"
      BY <3>1, <1>4, <1>11
    <3> QED
      BY <3>2, <3>3, <3>4
  <2> QED
    BY <2>2, <1>3, <1>4 DEF WiredSoFar, Wanted, NoKeys
<1>15. VarsExplained'
  <2>1. ASSUME NEW x \in Services, NEW v \in Vars
        PROVE  \/ given[x].env[v] = Unset /\ project'[x].env[v] = Unset
               \/ KeptFrom(x, v)'
               \/ AddressOfAsked(x, v)'
    <3>1. CASE project'[x].env[v] = project[x].env[v]
      BY <2>1, <3>1, <1>2, <1>3 DEF VarsExplained, KeptFrom, AddressOfAsked, Wanted
    <3>2. CASE project'[x].env[v] = Nil /\ v \in config
      BY <3>2, <1>3 DEF KeptFrom
    <3>3. CASE /\ project[x].env[v].is = "text" /\ project'[x].env[v].is = "text"
               /\ NamesIn(project'[x].env[v].text) = NamesIn(project[x].env[v].text)
      <4>1. KeptFrom(x, v) \/ AddressOfAsked(x, v)
        BY <2>1, <3>3, <1>2 DEF VarsExplained, Unset
      <4>2. project[x].env[v] # Nil /\ project'[x].env[v] # Nil
        BY <3>3 DEF Nil
      <4> QED
        BY <3>3, <4>1, <4>2, <1>3 DEF KeptFrom, AddressOfAsked, Wanted
    <3> QED
      BY <2>1, <3>1, <3>2, <3>3, <1>2, <1>4, <1>12
  <2> QED
    BY <2>1, <1>3 DEF VarsExplained
<1>16. KeysPlain'
  BY <1>2, <1>3, <1>4, <1>11 DEF KeysPlain, NoKeys
<1>17. Origins'
  <2>1. ASSUME NEW n \in D
        PROVE  /\ project'[n].master = "nil" =>
                    \/ n \in Services /\ given[n].master = "nil"
                    \/ "LITELLM_MASTER_KEY" \in config
               /\ project'[n].key = "nil" =>
                    \/ n \in Services /\ (given[n].key = "nil" \/ KeyOfGateway(n) \/ given[n].secret)
                    \/ "OPENAI_API_KEY" \in config
               /\ project'[n].secret => n \in Services /\ given[n].secret
               /\ "ref" \in {project'[n].key, project'[n].master} => RefGiven
               /\ \A v \in Vars : project'[n].env[v] = Nil =>
                    \/ n \in Services /\ given[n].env[v] = Nil
                    \/ v \in config
    <3>1. CASE n = s
      <4>1. \A v \in Vars : project'[s].env[v] = Nil => project[s].env[v] = Nil \/ v \in config
        BY <1>12 DEF Nil
      <4> QED
        BY <3>1, <4>1, <1>2, <1>4, <1>5 DEF Origins
    <3>2. CASE n # s
      BY <2>1, <3>2, <1>2, <1>4 DEF Origins
    <3> QED
      BY <3>1, <3>2
  <2> QED
    BY <2>1, <1>1, <1>3, <1>4 DEF Origins, RefGiven, KeyOfGateway, Wanted
<1>18. PrivateKnown'
  <2>1. private = {n \in D : project'[n].ports = "host"}
    BY <1>1, <1>2, <1>6 DEF PrivateKnown
  <2>2. ASSUME ~estimate, NEW n \in D \ todo', NEW v \in Vars
        PROVE  FirstReplaced(project'[n].env[v].text)
    <3>1. CASE n = s
      BY <2>2, <3>1, <1>12
    <3>2. CASE n # s
      BY <2>2, <3>2, <1>1, <1>2, <1>4 DEF PrivateKnown
    <3> QED
      BY <3>1, <3>2
  <2>3. \A n, v : FirstReplaced(project'[n].env[v].text) <=> FirstReplaced(project[n].env[v].text)'
    BY <1>3 DEF FirstReplaced, Bare
  <2> QED
    BY <2>1, <2>2, <2>3, <1>3, <1>4 DEF PrivateKnown
<1> QED
  BY <1>7, <1>8, <1>10, <1>14, <1>16, <1>17, <1>18, <1>15 DEF FixupInv

LEMMA ValidateStep ==
  ASSUME FixupInv, Validate
  PROVE  FixupInv'
<1>1. CASE Fail("failed")
  BY <1>1, FixupFailStep
<1>2. CASE ~Fail("failed")
  <2>1. /\ stage = "validate" /\ stage' = "done" /\ todo' = {}
        /\ UNCHANGED <<given, config, kept, estimate, project, private, public, skipPublic>>
    BY <1>2 DEF Validate, Proceed, inputs, replacer
  <2>2. todo = {}
    BY <2>1, FixupFacts DEF FixupTypeOK
  <2>3. FixupTypeOK' /\ AsGiven' /\ KeysPlain' /\ VarsExplained'
    BY <2>1, FixupFacts, VarsKept DEF FixupTypeOK, AsGiven, KeysPlain, NoKeys
  <2>4. NoneMissing' /\ PrivateKnown'
    BY <2>1, <2>2, FixupFacts DEF NoneMissing, Missing, PrivateKnown, FirstReplaced, Bare, Late
  <2>5. \A n : Passed(n) /\ Passed(n)'
    BY <2>1 DEF Passed, Late
  <2>6. Hosts' /\ WiredSoFar' /\ DepsKept'
    BY <2>1, <2>5, FixupFacts DEF Hosts, WiredSoFar, DepsKept, Wanted, NoKeys
  <2>7. Origins'
    BY <2>1, FixupFacts DEF Origins, RefGiven, KeyOfGateway, Wanted, Late
  <2> QED
    BY <2>3, <2>4, <2>6, <2>7 DEF FixupInv
<1> QED
  BY <1>1, <1>2

LEMMA FixupNextInv == FixupInv /\ [FixupNext]_fixupVars => FixupInv'
<1> SUFFICES ASSUME FixupInv, [FixupNext]_fixupVars PROVE FixupInv'
  OBVIOUS
<1>1. CASE UNCHANGED fixupVars
  BY <1>1 DEF fixupVars, inputs, replacer, FixupInv, FixupTypeOK, AsGiven, Hosts, Passed, Late,
     DepsKept, WiredSoFar, Wanted, NoKeys, KeysPlain, Origins, RefGiven, KeyOfGateway,
     NoneMissing, Missing, PrivateKnown, FirstReplaced, Bare, VarsExplained, KeptFrom, AddressOfAsked
<1>2. CASE Check \/ ListConfig \/ Validate \/ MakeReplacer
  BY <1>2, CheckStep, ListConfigStep, ValidateStep, MakeReplacerStep
<1>3. ASSUME NEW s \in Services, FixService(s) \/ FixPanics(s) \/ FixFails(s)
      PROVE  FixupInv'
  BY <1>3, FixServiceStep, FixupFailStep DEF FixPanics, FixFails
<1>4. ASSUME NEW s \in Services, FixGateway(s)
      PROVE  FixupInv'
  <2>1. /\ stage = "services" /\ s \in todo /\ s \in Gateways /\ MakeGateway(s, project[s])
        /\ Visit(s, AfterServices, Models) /\ UNCHANGED <<inputs, replacer>>
    BY <1>4 DEF FixGateway
  <2> QED
    BY <2>1, MakeGatewayStep, GatewayIsService
<1>5. ASSUME NEW m \in Models, FixModel(m)
      PROVE  FixupInv'
  <2>1. /\ stage = "models" /\ m \in todo /\ MakeGateway(m, NoService)
        /\ Visit(m, "replacer", {}) /\ UNCHANGED <<inputs, replacer>>
    BY <1>5 DEF FixModel
  <2> QED
    BY <2>1, MakeGatewayStep, GatewayIsService
<1>6. ASSUME NEW n \in Names, PanicAt(n) \/ FixValues(n) \/ BuildFails
      PROVE  FixupInv'
  BY <1>6, FixValuesStep, FixupFailStep DEF PanicAt, BuildFails
<1>7. CASE BuildFails
  BY <1>7, FixupFailStep DEF BuildFails
<1> QED
  BY <1>1, <1>2, <1>3, <1>4, <1>5, <1>6, <1>7 DEF FixupNext

\* The inductive invariant of the fix-up holds in every reachable state.
THEOREM FixupInvHolds == FixupSpec => []FixupInv
BY FixupInitInv, FixupNextInv, PTL DEF FixupSpec

\* Whatever the order of the ranges and however many services, gateways and models
\* there are, everything that wants a model is wired to its gateway, and finds its
\* address where it asks for it, unless it gave something else itself.
THEOREM GatewaysAreWired == FixupSpec => []GatewaysWired
<1>1. ASSUME FixupInv, stage = "done"
      PROVE  GatewaysWired
  <2>1. \A g : Passed(g)
    BY <1>1 DEF Passed, Late
  <2>2. \A s \in Services : \A g \in Wanted(s) :
          /\ g \in project[s].deps \cap DOMAIN project
          /\ NoKeys => project[s].key = project[g].master
          /\ \A v \in AskedIn(given[s], g) : project[s].env[v] # Unset
    BY <1>1, <2>1, FixupFacts DEF WiredSoFar
  <2>3. \A s \in Services, v \in Vars :
          project[s].env[v] # Unset => KeptFrom(s, v) \/ AddressOfAsked(s, v)
    BY <1>1, FixupFacts DEF VarsExplained
  <2>4. \A s \in Services : \A g : AskedIn(given[s], g) \subseteq Vars
    BY DEF AskedIn
  <2> QED
    BY <2>2, <2>3, <2>4 DEF GatewaysWired
<1>2. FixupInv => GatewaysWired
  BY <1>1 DEF GatewaysWired
<1> QED
  BY <1>2, FixupInvHolds, PTL

\* The first private name of every variable of every service, made or given, is
\* replaced, whatever the order of the ranges and wherever it stands.
THEOREM FirstPrivateNamesGone == FixupSpec => []PrivateNamesReplaced
<1>1. ASSUME FixupInv, stage = "done", ~estimate, NEW s \in DOMAIN project, NEW v \in Vars
      PROVE  LET t == project[s].env[v].text IN
             \A i \in Bare(t, OnlyPrivate) :
               \E j \in DOMAIN t : j < i /\ t[j].dns /\ t[j].of \in OnlyPrivate
  <2>1. \A n : Passed(n)
    BY <1>1 DEF Passed, Late
  <2>2. private = OnlyPrivate
    BY <1>1, <2>1, FixupFacts DEF Hosts, PrivateKnown, Late, OnlyPrivate
  <2>3. FirstReplaced(project[s].env[v].text)
    BY <1>1, FixupFacts DEF PrivateKnown, Late, FixupTypeOK
  <2> QED
    BY <2>2, <2>3 DEF FirstReplaced
<1>2. FixupInv => PrivateNamesReplaced
  BY <1>1 DEF PrivateNamesReplaced
<1> QED
  BY <1>2, FixupInvHolds, PTL

\* What is deployed leaves no value to a config that is not stored.
THEOREM ConfigsAreStored == FixupSpec => []ConfigsStored
<1>1. ASSUME FixupInv, stage = "done", ~estimate, kept, NEW s \in DOMAIN project
      PROVE  /\ project[s].master = "nil" => "LITELLM_MASTER_KEY" \in config
             /\ project[s].key = "nil" =>
                  \/ "OPENAI_API_KEY" \in config
                  \/ s \in Services /\ (given[s].secret \/ KeyOfGateway(s))
             /\ "ref" \in {project[s].key, project[s].master} => "OPENAI_API_KEY" \in config
             /\ \A v \in Vars : project[s].env[v] = Nil => v \in config
  <2>1. Missing = {} /\ Origins
    BY <1>1, FixupFacts DEF NoneMissing
  <2>2. /\ RefGiven => "OPENAI_API_KEY" \in config
        /\ \A t \in Services : /\ given[t].key = "nil" => "OPENAI_API_KEY" \in config
                               /\ given[t].master = "nil" => "LITELLM_MASTER_KEY" \in config
                               /\ \A v \in Vars : given[t].env[v] = Nil => v \in config
    BY <2>1 DEF Missing, RefGiven, Configs
  <2> QED
    BY <1>1, <2>1, <2>2 DEF Origins
<1>2. FixupInv => ConfigsStored
  BY <1>1 DEF ConfigsStored
<1> QED
  BY <1>2, FixupInvHolds, PTL
==============================================================================
