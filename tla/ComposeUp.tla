------------------------------ MODULE ComposeUp ------------------------------
(***************************************************************************)
(* Commands run on one stack, from the same or from different machines:    *)
(* `compose up` and `preview` (pkg/cli/composeUp.go), `down` and `refresh` *)
(* (pkg/cli/cd.go).  They share no lock.  Each reads what is deployed (the *)
(* project update the last CD task wrote), resolves the recipe against it, *)
(* delegates or deletes the subdomain zone, starts a CD task and records   *)
(* the deployment.                                                         *)
(***************************************************************************)
EXTENDS Naturals

CONSTANTS
  Commands,  \* the commands that are run
  Kinds,     \* what they may be: a subset of {"up", "preview", "down", "refresh"}
  Asked,     \* the recipes that may be asked for
  Deployed,  \* what may be deployed at first: none, or a recipe and a mode
  Delegates, \* provider.HasDelegatedSubdomain()
  none       \* nothing is deployed

Modes == {"unspecified", "affordable", "balanced", "ha"}
Recipes == Modes \cup {"custom"}
Update == [recipe : Recipes, mode : Modes] \cup {none}

\* Recipe.Mode: a custom recipe has no mode.
ModeOf(r) == IF r = "custom" THEN "unspecified" ELSE r

\* A deployment's mode is its recipe's; one made before there were recipes has a
\* mode only.
Consistent(u) == u # none => u.recipe = "unspecified" \/ u.mode = ModeOf(u.recipe)

ASSUME UpAssumption ==
  /\ Kinds \subseteq {"up", "preview", "down", "refresh"}
  /\ Asked \subseteq Recipes /\ Deployed \subseteq Update
  /\ \A u \in Deployed : Consistent(u)
  /\ Delegates \in BOOLEAN
  /\ none \notin [recipe : Recipes, mode : Modes] /\ none \notin Recipes

VARIABLES
  kind, asked,  \* what each command is, and the recipe it was given
  pc,           \* where each command is, "over" when it has returned or died
  at,           \* which project update it read
  recipe,       \* the recipe it resolved
  task,         \* its CD task: "none", "running", "succeeded" or "failed"
  zoneDone,     \* it created or deleted the zone
  update,       \* the project update in the provider's bucket
  version,      \* how often it was written
  zone,         \* the fabric has a subdomain zone for the stack
  stack,        \* the recipe in the fabric's record of the stack, or none
  history       \* the commands with a deployment record

command == <<kind, asked>>
local == <<at, recipe>>
remote == <<update, version>>
vars == <<command, pc, local, task, zoneDone, remote, zone, stack, history>>

Init ==
  /\ kind \in [Commands -> Kinds] /\ asked \in [Commands -> Asked]
  /\ pc = [c \in Commands |-> "read"]
  /\ at = [c \in Commands |-> 0]
  /\ recipe = [c \in Commands |-> "unspecified"]
  /\ task = [c \in Commands |-> "none"] /\ zoneDone = [c \in Commands |-> FALSE]
  /\ update \in Deployed /\ version = 0
  /\ zone = (Delegates /\ update # none)
  /\ stack = IF update = none THEN none ELSE update.recipe
  /\ history = {}

-----------------------------------------------------------------------------
\* FromMode: its inverse, on the recipes that have one.
FromMode(m) == m

\* Fault of Refused: the modes are swapped.
RefusedSwapped(prev, m) == m = "ha" /\ prev = "affordable"

\* checkDeploymentMode: what is refused, and what is returned.
Refused(prev, m) == m = "affordable" /\ prev = "ha"
NewMode(prev, m) == IF m = "unspecified" THEN prev ELSE m

\* The recipe that is deployed: an unspecified one is inherited.
Resolved(prev, r) ==
  LET m == NewMode(prev.mode, ModeOf(r))
  IN CASE r = "unspecified" /\ prev.recipe # "unspecified" -> prev.recipe
       [] ~(r = "unspecified" /\ prev.recipe # "unspecified") /\ m # "unspecified" -> FromMode(m)
       [] OTHER -> r

Goto(c, where) == pc' = [pc EXCEPT ![c] = where]

\* Any call may fail and the process may die: the command is over, and what it
\* did remotely stays.
Abort(c) ==
  /\ pc[c] # "over"
  /\ Goto(c, "over")
  /\ UNCHANGED <<command, local, task, zoneDone, remote, zone, stack, history>>

\* GetProjectUpdate, the mode check, the recipe and PrepareDomainDelegation.
ReadUpdate(c) ==
  /\ pc[c] = "read" /\ kind[c] \in {"up", "preview"}
  /\ update # none => ~Refused(update.mode, ModeOf(asked[c]))
  /\ at' = [at EXCEPT ![c] = version]
  /\ recipe' = [recipe EXCEPT ![c] =
       IF update = none THEN asked[c] ELSE Resolved(update, asked[c])]
  /\ Goto(c, IF kind[c] = "up" /\ Delegates THEN "zone" ELSE "start")
  /\ UNCHANGED <<command, task, zoneDone, remote, zone, stack, history>>

\* Fault of CreateZone: when it fails the command goes on.
CreateZoneMaybe(c) ==
  /\ pc[c] = "zone" /\ kind[c] = "up"
  /\ zone' \in {zone, TRUE}
  /\ zoneDone' = [zoneDone EXCEPT ![c] = TRUE]
  /\ Goto(c, "start")
  /\ UNCHANGED <<command, local, task, remote, stack, history>>

\* CreateDelegateSubdomainZone, before anything is deployed.
CreateZone(c) ==
  /\ pc[c] = "zone" /\ kind[c] = "up"
  /\ zone' = TRUE
  /\ zoneDone' = [zoneDone EXCEPT ![c] = TRUE]
  /\ Goto(c, "start")
  /\ UNCHANGED <<command, local, task, remote, stack, history>>

\* The upload URLs, then Deploy or Preview.
StartTask(c) ==
  /\ pc[c] = "start"
  /\ task' = [task EXCEPT ![c] = "running"]
  /\ Goto(c, IF kind[c] = "up" THEN "stack" ELSE "record")
  /\ UNCHANGED <<command, local, zoneDone, remote, zone, stack, history>>

\* CdCommand: the upload URLs, then provider.CdCommand.
StartCommand(c) ==
  /\ pc[c] = "read" /\ kind[c] \in {"down", "refresh"}
  /\ task' = [task EXCEPT ![c] = "running"]
  /\ Goto(c, IF kind[c] = "down" /\ Delegates THEN "zone" ELSE "record")
  /\ UNCHANGED <<command, local, zoneDone, remote, zone, stack, history>>

\* Fault of DeleteZone: when it fails the deployment is recorded all the same.
DeleteZoneMaybe(c) ==
  /\ pc[c] = "zone" /\ kind[c] = "down"
  /\ zone' \in {zone, FALSE}
  /\ zoneDone' = [zoneDone EXCEPT ![c] = ~zone']
  /\ Goto(c, "record")
  /\ UNCHANGED <<command, local, task, remote, stack, history>>

\* DeleteSubdomainZone; when it fails the break in the switch skips the record,
\* and the command goes on: Abort says no less.
DeleteZone(c) ==
  /\ pc[c] = "zone" /\ kind[c] = "down"
  /\ zone' = FALSE
  /\ zoneDone' = [zoneDone EXCEPT ![c] = TRUE]
  /\ Goto(c, "record")
  /\ UNCHANGED <<command, local, task, remote, stack, history>>

\* putDeploymentAndStack, for up only: PutStack, or the fabric has the stack.
PutStack(c) ==
  /\ pc[c] = "stack"
  /\ stack' \in {recipe[c]} \cup ({stack} \ {none})
  /\ Goto(c, "record")
  /\ UNCHANGED <<command, local, task, zoneDone, remote, zone, history>>

\* putDeploymentAndStack: PutDeployment.
PutDeployment(c) ==
  /\ pc[c] = "record"
  /\ history' = history \cup {c}
  /\ Goto(c, "over")
  /\ UNCHANGED <<command, local, task, zoneDone, remote, zone, stack>>

\* The CD task ends; one that deployed or destroyed has written the update.
TaskSucceeds(c) ==
  /\ task[c] = "running"
  /\ task' = [task EXCEPT ![c] = "succeeded"]
  /\ CASE kind[c] = "up" ->
            update' = [recipe |-> recipe[c], mode |-> ModeOf(recipe[c])] /\ version' = version + 1
       [] kind[c] = "down" -> update' = none /\ version' = version + 1
       [] OTHER -> UNCHANGED remote
  /\ UNCHANGED <<command, pc, local, zoneDone, zone, stack, history>>

TaskFails(c) ==
  /\ task[c] = "running"
  /\ task' = [task EXCEPT ![c] = "failed"]
  /\ UNCHANGED <<command, pc, local, zoneDone, remote, zone, stack, history>>

Next ==
  \E c \in Commands :
    \/ ReadUpdate(c) \/ CreateZone(c) \/ StartTask(c)
    \/ StartCommand(c) \/ DeleteZone(c)
    \/ PutStack(c) \/ PutDeployment(c)
    \/ TaskSucceeds(c) \/ TaskFails(c) \/ Abort(c)

Spec == Init /\ [][Next]_vars

-----------------------------------------------------------------------------
\* Types of the variables.
TypeOK ==
  /\ kind \in [Commands -> Kinds] /\ asked \in [Commands -> Asked]
  /\ pc \in [Commands -> {"read", "zone", "start", "stack", "record", "over"}]
  /\ at \in [Commands -> Nat]
  /\ recipe \in [Commands -> Recipes]
  /\ task \in [Commands -> {"none", "running", "succeeded", "failed"}]
  /\ zoneDone \in [Commands -> BOOLEAN]
  /\ update \in Update /\ version \in Nat
  /\ zone \in BOOLEAN
  /\ stack \in Recipes \cup {none}
  /\ history \subseteq Commands

\* composeUp.go:231, cd.go:56: whatever fails and whoever else runs, the
\* history names deployments that were started: a down with its zone deleted, an
\* up with its stack on record.
HistoryIsTrue ==
  \A c \in history :
    /\ task[c] # "none"
    /\ kind[c] = "down" /\ Delegates => zoneDone[c]
    /\ kind[c] = "up" => stack # none

\* An up's task runs with the subdomain delegated, unless another command has
\* taken the zone away meanwhile (composeUp.go:196-207).
ZoneWhileRunning ==
  \A c \in Commands :
    kind[c] = "up" /\ task[c] = "running" /\ Delegates /\ ~zone
      => \E d \in Commands \ {c} : kind[d] = "down" /\ zoneDone[d]

\* What one update may become by a deployment with recipe `r` asked for: no
\* downgrade from high availability to affordable, and an unspecified recipe
\* keeps the recipe and the mode that are deployed (composeUp.go:34-67, 130-147).
Allowed(prev, r, next) ==
  prev # none =>
    /\ prev.mode = "ha" => next.mode # "affordable"
    /\ r = "unspecified" =>
         /\ prev.recipe # "unspecified" => next.recipe = prev.recipe
         /\ prev.recipe = "unspecified" /\ prev.mode # "unspecified" => next.mode = prev.mode

\* A deployment that overlaps no other one on the stack (the update it read is
\* still the current one when its task writes its own) follows these rules.
UndisturbedAllowed ==
  [][\A c \in Commands :
       kind[c] = "up" /\ task[c] = "running" /\ task'[c] = "succeeded" /\ at[c] = version
         => Allowed(update, asked[c], update')]_vars
=============================================================================
