# TLA+ models of the Defang CLI

The Defang CLI deploys a Compose project to a cloud account (AWS, GCP, Azure,
DigitalOcean) or to the Defang playground. It keeps next to no state of its own:
what it does is call remote services in the right order, follow what they report
over streams that break and are reopened, and end at the right moment with the
right answer. That is what is modelled here. Paths below are relative to
`src/src/`, where the Go module lives.

## Inventory

| Part | Where | State it keeps | Operations | What makes it correct |
|---|---|---|---|---|
| Waiting for services | `pkg/cli/subscribe.go`, `pkg/cli/client/provider.go` | `serviceStates`, the stream | subscribe, receive an update, reconnect after a transient error, return | fails at the first real failure and only then; completes exactly when every service did; ends |
| Tail and monitor | `pkg/cli/tailAndMonitor.go`, `waitForCdTaskExit.go` | three result variables without a lock, two contexts | four goroutines: tail, services, CD task, closer | the results are final when read; success is explained; every way of ending ends all of them |
| Log tail | `pkg/cli/tail.go` | `options.Since`, `skipDuplicate` | receive, print, skip, reconnect | nothing lost, nothing twice, time never goes back |
| CloudWatch log groups | `pkg/clouds/aws/cw` | goroutine per group, one channel; iterators with a page each | open live tail, read history, poll a missing group, send, stop; page, merge, limit | no gap between history and live tail; no goroutine left; errors are reported; a query leaves nothing out and uses up its limit |
| compose up | `pkg/cli/composeUp.go`, `common.go`, `pkg/modes` | none; shares the project update, the zone, the fabric's records | check mode, resolve recipe, delegate, deploy, record | rules for modes and recipes; history is true; zone before deployment |
| compose down, stacks | `pkg/cli/cd.go`, `composeDown.go`, `stacks.go`, `cmd/cli/command/compose.go` | `cdErr` without a lock, remote records | destroy, delete zone, record, wait, delete configs, remove stack | nothing removed that is still needed |
| Compose files | `pkg/cli/compose` | the project | load, check configs, fix up, validate, upload contexts | the result does not depend on the order of Go's maps; no service is left half wired |
| AWS, GCP, Azure, DO providers | `pkg/cli/client/byoc` | CD task ids, streams | deploy, query logs, subscribe, delegate domains | streams that tell every outcome and end with their reader; a domain that points to the servers of its zone |
| Playground, fabric client | `pkg/cli/client` | tokens, tenant | RPC wrappers, retry | retries only what is safe |
| Stacks and sessions | `pkg/stacks`, `pkg/session` | stack files, remote stacks, the default stack | list and merge, load, create, select | a file is never overwritten and an unfinished one not believed |
| Certificates and DNS | `pkg/cli/cert.go`, `pkg/dns` | none | poll DNS, trigger and await certificates | ends, follows CNAMEs without loops |
| Login and tokens | `pkg/auth`, `pkg/login`, `pkg/tokenstore` | the token | callback server, polling, store | one token, of the right tenant |
| Cloud drivers | `pkg/clouds` | none | API calls, policies, jobs | policy updates do not undo one another |
| Agent, debugger, MCP | `pkg/agent`, `pkg/debug`, `pkg/mcp` | the conversation | generate, call tools, stop | bounded loops, no tool called twice in vain |
| Terminal, tracking, helpers | `pkg/term`, `pkg/track`, ... | none | print | presentation only |

How they interact: a command finds its stack (`StackFiles`), makes the Compose
project ready (`ComposeFixup`) and runs ComposeUp, which has the provider delegate
the domain (`Delegation`) and start a CD task, and then TailAndMonitor, whose
goroutines run WaitServiceState and WaitForCdTaskExit while the main one runs
Tail. WaitServiceState reads the provider's stream of updates: `GcpSubscribe` and
`AzureSubscribe` are two of these streams together with their reader. Tail runs
receiveLogs on the provider's log iterator, for AWS that of `AwsLogs`.
`compose down` runs CdCommand, then TailAndWaitForCD (again Tail and
WaitForCdTaskExit), then the removal of configs and stack. The commands of several
users meet in the stack files, in the cloud account and in the fabric: the only
lock is the exclusive creation of a stack file.

What is hard to test, and so worth a model: the interleavings of these goroutines,
what a stream says again or not at all when it is reopened, commands that die or
fail between two remote calls, commands that overlap, and the order in which events
arrive and maps are visited. `PROJECT.json` lists the
hazards line by line with the properties aimed at them, and those no property
covers yet.

## Modules

| Module | Models | Notes |
|---|---|---|
| `DeployWatch` | what a wait for services promises | abstract: services reach the target state or one fails, then a verdict that never changes; implemented by `WaitServiceState` and by the wait of `AzureSubscribe` |
| `WaitServiceState` | `WaitServiceState`, and for AWS the attribution of ECS events (`byoc/aws/subscribe.go`, `clouds/aws/ecs/event.go`) | one action per branch of the loop; a stream is a cursor in the provider's event log; `Replay` says where a new stream starts; `etags` is `DeploymentEtags`, `Skip` drops an event that has no etag yet; implements `DeployWatch` |
| `MCWaitServiceState` | | two services, four states, what each kind of event may say |
| `TailAndMonitor` | `TailAndMonitor`, `WaitForCdTaskExit`, each provider's `GetDeploymentStatus` | a program counter per goroutine; each load and store of an unlocked variable is its own step; `WaitServiceState` appears through the outcomes `DeployWatch` allows |
| `LogTail` | `streamLogs`, `receiveLogs`, `handleLogEntryMsgs` | a log of entries with time stamps, messages, reconnects from `Since`, two contexts and Ctrl-C |
| `LogGroupsTail` | `QueryAndTailLogGroups`, `QueryAndTailLogGroup` | a goroutine per group, the unbuffered channel, and as its consumer `receiveLogs`, which after a transient error asks for all groups again from the newest time stamp it has printed |
| `AwsLogs` | `QueryLogs` of AWS: the tail of `LogGroupsTail`, or `QueryLogGroups` and `QueryBuildID` (`cw/logs.go`, `cw/merge.go`) | extends `LogGroupsTail`, whose `receiveLogs` reads all of them; a group is how far it has been fetched and merged; `LimitAfter` is what a page leaves of the limit |
| `GcpSubscribe` | `Subscribe`, `Follow`, `getActivityParser` (`byoc/gcp`) with the wait that reads them | entries of the audit log arrive in any order; list, gap and tail of a stream; the memory of its parser |
| `AzureSubscribe` | `Subscribe`, `pollRevision`, `pollBuilds` (`byoc/azure/subscribe.go`) with the wait that reads them | a goroutine per service and one for the builds, the unbuffered channel, the goroutine that closes it; implements `DeployWatch` |
| `MCAzureSubscribe` | | which service the build run is of |
| `ComposeFixup` | `FixupServices` (`compose/fixup.go`), the config checks before and the validation after it | a service is its dependencies, models, ports, two keys and its other variables, each the sequence of service names in its text; each pass visits the services in any order |
| `MCComposeFixup` | | every project of four services and a model that the run starts from |
| `ComposeUp` | `ComposeUp`, `CdCommand`, `putDeploymentAndStack`, `checkDeploymentMode` | any number of commands on one stack, each of which may die at any step |
| `MCComposeUp` | | every deployment a command can find |
| `ComposeDown` | `compose down`, `TailAndWaitForCD`, `RemoveStack` | one command step by step, every remote call of which may fail |
| `Delegation` | `prepareDomainDelegation` (`byoc/aws/domain.go`), the Route 53 calls it makes, what the CD task does with the set | any number of deployments of several stacks to one domain |
| `MCDelegation` | | the name servers of a set, symmetry |
| `StackFiles` | `pkg/stacks`, the loading of a session, `stack new`, `default`, `rm` | any number of commands on one stack file; opening, writing and removing a file are steps of their own |
| `MCStackFiles` | | symmetry of the commands |
| `*_proofs` | | theorems on the module they are named after; those on `LogTail` are in `TailAndMonitor_proofs`, on `ComposeFixup` in `ComposeUp_proofs`, on `Delegation` and on `AwsLogs` with `LogGroupsTail` in `Aws_proofs` |

Definitions named as the fault of another one ("Fault of X") are small mistakes
used to see that a property can fail; nothing else refers to them.

### What is abstracted

* A service state is a model value; the provider's event log is a sequence of
  updates that only grows. `DEPLOYMENT_FAILED` stands for the failure states.
* A log entry is its time stamp and its kind (line, progress dot, end line). In
  `LogGroupsTail` every entry is a line and time stamps are all different, as
  `LogTail` has what ties bring; in `GcpSubscribe` an entry is what the parser tells
  apart: the type of resource, whose it is, and its stage.
* An ECS service has one deployment: events of older ones carry another etag, which
  the provider filters out.
* A call to a remote service is one step that succeeds or fails. A call that fails
  is taken to have done nothing, except that a command of `ComposeUp`, `StackFiles`
  or `Delegation` may die right after any call. The tail is one step in
  `TailAndMonitor` and `ComposeDown`, which may end as `LogTail` says it may.
* Back-off delays are steps without a duration. The doubling of the delay
  (`provider.go:138`) is not modelled.
* Recipes are the three built-in ones, one custom one and "unspecified". Whether a
  recipe is active only matters as a failure, which `Abort` covers.
* In `ComposeUp` validation and fix-up of Compose files are failures only. In
  `ComposeFixup` a service keeps the two keys of gateways and its other variables.
  The text of one is the names of services in it, in order, where the regular
  expression of `makeServiceNameRegex` would find them, each bare or made a DNS name.
  Build arguments, which have names replaced in the same way, and the variables for
  the name of a model are left out; `ValidateProject` is one step that may refuse the
  project.
* In `GcpSubscribe` an image is built by Cloud Build or by a Cloud Run job, and so is
  the CD: the states of a build that goes on or has ended well are one. What a manager
  triggers is known from its entry or, if the entry does not say, never. A job needs
  no look-up, a build does; the model may drop either.
* A stack file's content is one value; a name server is a model value that serves
  at most one zone of the domain; a delegation set may be full, and how full is
  not counted.
* The revision of an Azure service is one of the four kinds that
  `mapRevisionState` tells apart.

## Runs

Bounds are the smallest at which every branch is taken and every property has a
mutant of the code that breaks it; a larger bound repeats the same interleavings.

| Run | Bounds | Shows |
|---|---|---|
| `wait_for_services` | 2 services, 3 updates (build messages, ECS tasks, ECS deployments), 1 reconnect, a stream that replays | the state of every service is explained by the updates; fails at the first real failure and only for one; implements `DeployWatch`; ends with its context, and when all is reached unless an ECS deployment completed before the events of its tasks |
| `tail_and_monitor` | 3 ways to ask for the CD task, with and without timeout and services | results are final when the monitoring stopped the tail; success is explained; the error of a failed CD task survives; every end ends the command and, with a timeout, its goroutines |
| `log_tail` | 3 entries, time stamps to 4, ties allowed, messages of up to 2, 2 reconnects, queries that start at `Since`, anywhere or now | without ties every entry is printed exactly once, in order; with ties only entries that share a time stamp are lost; printed time never goes back; the end line, the context and Ctrl-C in a stream opened again end the tail |
| `aws_logs` | 2 groups, 3 entries in all, limits 1 and 2, 1 reconnect | followed: no gap at the hand-over, and after a reconnect only of what another group had overtaken; repeats only of the overlap, or of the last entry before a reconnect when another group has moved `Since` on; a silent end only with the context or for a missing log stream. Queried: nothing left out between entries that are shown; the limit is used up; the query of a build moves on from its start time. Either way no goroutine stays |
| `gcp_subscribe` | a Cloud Run service whose image is built, an instance group, 1 reconnect | what one stream reads is reported, in whatever order it arrives; verdicts are real; the wait ends unless an entry was missed |
| `azure_subscribe` | 2 services, 1 build run | no poller ends before the wait knows the outcome; verdicts are real; healthy services end the wait; its end ends every goroutine; implements `DeployWatch`, whatever the builds say after the revisions |
| `compose_fixup` | a service, a job, a store, a model provider, a top-level model, one literal key and one reference to a config, three variables with up to two names each, five lists of configs | no value is left to a config that is not stored; consumers are wired to their gateways, by an address unless they brought one; the first private name in a value is replaced; in every order |
| `compose_up` | 2 commands of any kind, any recipe, any first deployment | history is true; an up runs with its zone; an undisturbed deployment follows the rules for modes |
| `compose_down` | all flags, with and without a delegated subdomain | the DOWN record follows the deletion of the zone; nothing is removed after a failed destroy that stopped the tail, unless an EOF was taken for its success; the command and its goroutine end |
| `delegation` | 3 deployments of 2 stacks, 2 delegation sets, 2 name servers, 2 attempts to create a set | a deployment alone is never refused its zone, and always repairs what overlapping ones left |
| `stack_files` | 3 commands of any kind, 2 parameters | an unfinished file is believed by nobody who did not read it just then; a written one never changes |
| `removed_means_destroyed` (violation) | as `compose_down` | see findings |

One run per component checks its invariants and its temporal properties together,
under the fairness below. Why the bounds suffice: in `aws_logs` a limit
of 1 fills a page with the entry at the start time, one of 2 cuts a merge short, and
the third entry is the one that is overtaken or left over; `stack_files` needs a third
command only for a reader that meets a writer after a removal, `delegation` one for
a deployment that comes after two that overlapped, and two sets because the second
is what makes the choice wrong. In `compose_fixup` the job does what the service
does not: it is not reached over TCP, has a mode that there is not, or a secret. Two
names in a value show that only one is replaced, two gateways asked for in one variable
that only the first sets it; each kind of config overrides a key, or a variable that
the service declares or that a gateway sets.
In `gcp_subscribe` and `azure_subscribe` one service of each kind is enough, as
services only meet in the wait, which `wait_for_services` checks with two alike.
Symmetry is used only in runs without liveness properties.

Type invariants are proved for every module. Only that of `AwsLogs` is checked by a
run too, as the other properties of that run are about what its types can hold.

Deadlock is not checked where the system may stop: every one of these programs
returns. The stream of `GcpSubscribe` never has to, so its run checks deadlock.

### Fairness

Weak fairness of the program's own steps: a goroutine that can run does run, a
call returns, a stream notices that its context is done (all of them pass their
context to the client library). In `GcpSubscribe` that is the stream with its
reader, in `AzureSubscribe` every goroutine, in `LogTail` the client and the notice
that its own context was canceled, in `AwsLogs` everything but what waits for a live
tail, a page of history or a missing group. It is never assumed that a user interrupts, that
a service comes up, that a CD task ends, that a stream ends by itself or that a
line appears in a log: the properties name these as their causes.

### Findings

The violation run checks one sentence that the repository says of itself; it
shows a behaviour of the code that contradicts it.

* A stack is removed although its CD task still runs or failed, when the log
  stream ends first (`removed_means_destroyed`).

Noticed while modelling; the models have these behaviours unless said otherwise,
but no run is kept for them.

Monitoring and tail:

* Success of a CD task is told by `io.EOF` (`waitForCdTaskExit.go:25`), which is
  also the error of a request whose connection was closed before the answer: a
  running or failed task is then taken for one that succeeded. The playground
  provider always answers so (`playground.go:52`). `compose down --remove` then
  removes the stack too: `SuccessExplained` and `RemovalExplained` name an EOF as the
  one other explanation (`eof` in both models). A DigitalOcean deployment that was
  superseded is polled for ever; an Azure execution that is not listed yet is a
  permanent error.
* The warning for `--wait-timeout` is skipped when the monitoring ends first.
* The end line of the CD log ends the wait for healthy services
  (`tailAndMonitor.go`): success of the command does not mean healthy services,
  which is why `SuccessExplained` does not speak of a tail that ended by itself.
* A project without compute services ends with "nothing to monitor" after a
  successful deployment.
* After a reconnect, an entry with the time stamp of the last one printed is
  dropped although it was not printed (`tail.go:459`). For the same reason
  `TailEnds` speaks only of an end line whose time stamp no earlier entry has:
  another one may itself be dropped, and the tail goes on.
* Ctrl-C that is read from the terminal as a byte does not end a first stream, only
  one that was opened again. On Unix it is a signal, which ends the caller's context.
* A reconnect asks for the whole limit again (`tail.go:415`). `LogTail` has no
  limit: a stream may end after any entry. The live tail of a CD build on AWS
  ignores `Since` (`codebuild/tail.go:43`), which is the kind of query called
  "now"; only `TimeNeverGoesBack` and the end by contexts are claimed for it.
* The groups of CloudWatch share one `Since` and are not merged by time: what a
  slower group had not delivered before a reconnect is never asked for again, and
  printed time goes back across groups. `FollowedWithoutGap` names the first.
* A log stream that is not there ends the tail of every CloudWatch group as if it had
  been read to its end (`byoc/aws/byoc.go:785`), and the end of a context may look
  the same: the channel closes and no error is yielded. `FollowedEndExplained` says that
  these are the only silent ends.
* `defer stop()` in `receiveLogs` (`tail.go:383`) is the stop of the first iterator.
  A later one is ended by the deferred cancel of `streamLogs`.

Queries of AWS logs:

* `QueryLogGroups` cuts what `QueryLogGroup` fetched beyond the limit to make progress
  (`logs.go:213`): with `--limit=1`, or as many entries at one time stamp as the limit,
  the command that is printed to see more recent logs shows the same ones again. Only
  the query of a build moves on, and `QueryShowsEnough` claims it of that one alone.
* Without `--since` the time to continue from is now (`tail.go:247`), which only suits a
  tail: a query that is reconnected asks for what comes after it, shows nothing more
  and ends without an error. The query of a build ignores the limit then.
* After a reconnect the first entry is skipped if it has the time of `--since`, although
  it was not shown; every group has its own "now" as its end; the limit counts entries
  that are filtered out afterwards. `Found` excepts the first two.

Provider streams:

* AWS: the etag of an ECS deployment is learned from the events of its tasks. When the
  deployment's completion is read first it is dropped, and only a stream that is
  opened again brings it back.
* GCP streams start now, not at the start of the deployment: an entry made before
  the stream opened, between its list and its tail, or between two streams is never
  seen, and a new stream starts with an empty parser. `EndsUnlessMissed` names all
  of these; a failed lookup of the CD build's last event is another.
* GCP: a tail that ends with `io.EOF` ends the wait without an error, whatever the
  services have reached (`stream.go:97`, `subscribe.go:52`): result "ended", which
  is no verdict.
* GCP: an instance group completes before the CD build has succeeded; the entry of
  a group that comes before its manager's is ignored for good; an answer about a
  revision that has no status ends the wait with an error.
* Azure: a wait whose context ends returns no error; the failure of one of two
  build runs fails the wait even if the other is for the same service; a revision
  without a health state counts as complete; a failure after that is not noticed.

Compose files:

* `ValidateProject` runs after `FixupServices`: a port whose mode there is not
  makes `fixupPort` panic ("should have been validated"), and the check of secrets
  in `validateService` never finds any, as the fix-up has removed them. Their
  configs are never compared with the stored ones, nor is the key of a consumer
  whose gateway's `LITELLM_MASTER_KEY` has no value: `ConfigsStored` excepts both.
* `OPENAI_API_KEY` without a value, on a service that depends on a model provider,
  is a nil pointer in `configureAccessGateway`; a service without a network map
  panics there too. The key that a consumer of `models:` has is not looked at.
* `replaceServiceNameWithDNS` replaces one name of a value (`serviceNameReplacer.go:59`):
  `kafka1:9092,kafka2:9092` keeps the bare name of the second, and a public name stays
  bare where there is a private one. `PrivateNamesReplaced` speaks of the first.
* The address of a gateway goes to a variable only where the service has none
  (`fixup.go:532`, `557`), so two gateways with one variable, by `endpoint_var` or by
  name, share the address of whichever was visited first, an order that Go leaves
  open. `GatewaysWired` allows either.

Stacks, domains, records:

* A reader between the creation and the write of a stack file sees a stack without
  parameters, which means the playground. A second import fails with "already
  exists"; a writer that fails removes whatever file has the name by then. The list
  of stacks prefers the remote one, loading prefers the local one.
* Overlapping deployments may use a delegation set that the other has just found
  unusable, or leave the parent domain with servers that lack the zone. A set
  leaks when its verification fails with an error. A preview delegates, too.
* `stack new` without questions does not ask the server whether the name is taken
  (`stack.go:84`); with questions it does, and refuses.
* When ListConfig fails before `--remove`, `names` stays empty, so DeleteConfigs
  has nothing to delete and DeleteStack goes on: the configs outlive the stack.
* A custom recipe that was asked for is replaced by the recipe of the previous
  deployment's mode. Overlapping deployments may lower the mode: both read the same
  project update, and the one that writes last wins. This is why
  `UndisturbedAllowed` speaks of a deployment whose read is still current.

## Proofs

Every invariant and action property of the passing runs, and the refinement of
`DeployWatch` by `WaitServiceState` and by `AzureSubscribe`, is proved for any values of
the constants that satisfy the named assumptions. These are what the code guarantees or
what the bounds of the model are: a log has a bound, the value for "nothing deployed" is
no recipe (`UpAssumption`), a run builds the image of one of the services
(`RunsAssumption`), `--since` is within the time stamps (`TailAssumption`), a service of
a Compose project does not depend on itself, which loading refuses (`FixupAssumption`).

`WaitServiceState_proofs`, for any services, states, bounds and replays, also for a
stream that starts at its opening, which no run has, and for any kinds of events. The
inductive invariant is the conjunction of type correctness, `StatesExplained`,
`FailsExactly` (its two halves), `CompletedMeansAll` and `StillWaiting`. It needs all of
them: what the next update may do is known from the history only because `serviceStates`
is explained by it, and a wait that still runs has met no unmasked failure. `Refines`
shows that every step is a step of `DeployWatch` or a stutter.

`TailAndMonitor_proofs`, whatever the options. The key is `DecidedWhenDone`: when the
monitoring has decided what the command returns (it stopped the tail, or the switch
dropped the tail's error without a word to the user), both goroutines are done. It holds
because only the closer cancels the tail before the command returns, and it waited for
both (`CloserLast`). From then on nobody writes the shared variables, so what was loaded
is what they hold (`Loaded`), whatever the order of the loads; what they hold is
explained by `Stored`, `CdExplained` and `CutExplained`.

`LogTail`, in the same module, for any log, bounds and kinds of query. `LogInv` says how
the position of the stream, what was printed and `Since` hang together. Nothing printed
is newer than `Since`, which is where the tail started or the time of a printed entry
(`SinceIsPrinted`), and nothing still to come is older than anything printed (`Ahead`):
hence `TimeNeverGoesBack`. Of everything the stream is past, an entry with the same time
stamp was printed (`AllAccounted`): hence `OnlyTiesLost`, and half of `ExactlyOnce`. The
other half is that without ties the stream is past everything printed, or is about to
skip the last of it (`PastPrinted`, `InOrder`).

`ComposeUp_proofs`, for any number of commands. `UndisturbedAllowed` is a property of
the moment a task writes the project update; the invariant behind it is
`PendingAllowed`: while the update that a command read is still the current one, the
command may replace it by what it resolved. It is established when the update is read
(`ResolvedAllowed`), lost by nobody else's steps because every write of the update moves
the version past what anyone has read (`ReadBefore`), and used when the task succeeds.
`Consistent` (the mode is that of the recipe) is needed because a recipe is inherited by
name. `HistoryIsTrue` and `ZoneWhileRunning` are `Progress`: what a command has done by
the step it is at (`DoneSoFar`) makes what it records true; and whichever of the other
commands ran in between, the zone was delegated before a task was started, or a down
deleted it since (`ZoneFirst`).

`ComposeFixup`, in the same module, for any projects, gateways, models and keys, and any
order of the maps. Each pass ranges over a set, and `FixupInv` says what holds of the
members that it is past: stores and gateways have a host port (`Hosts`) and consumers
are wired to their gateways (`WiredSoFar`), whatever the later passes do, as nobody
takes a dependency away (`DepsKept`) and no other key comes up where none was given
(`KeysPlain`); the replacer knows every host port when it starts, and what it was
through has none of them as its first private name (`PrivateKnown`, `FirstReplaced`,
from what the leftmost match is: `LeftmostExists`, `ReplacedFacts`). A variable is what
the Compose file gave, a config, or the address of a gateway asked for there
(`VarsExplained`), as nothing overwrites one that is set. A value without a config was there when the
configs were checked or has its config (`Origins`, `NoneMissing`), which is
`ConfigsStored`.

`ComposeDown_proofs`, for any flags. `RecordAfterZone` needs only that the order of the
calls leads there (`AboutToRecord`). `RemovalExplained` needs that a tail canceled in
a live context was canceled by the goroutine (`CanceledByWaiter`), and that the
goroutine kept what it saw of the task before: it has no error only if the task
succeeded or a poll was answered with an EOF (`NoErrorExplained`).

`StackFiles_proofs`, for any number of commands. `EmptyExplained` is inductive with two
facts: the file that a command has open is empty until that command has written it, and
an empty file belongs to a command (`OpenIsEmpty`); and a stack that was made up for
want of one is never stored (`MadeUp`). `FileKept` follows step by step: only the
command that created a file writes it.

`Aws_proofs`, on `Delegation`: for any deployments, stacks, sets and servers. A
deployment that no other overlaps is the only one at work (`OneAtATime`), so what it has
learned at each step is still so (`Knows`): the zones it listed, that the set it chose
is neither full nor deleted, that the servers it verified serve no other zone of the
domain. From that follow `UndisturbedNotRefused` and, for the last step,
`NextTimeHeals`, whatever earlier deployments left behind.

`Aws_proofs`, on `AwsLogs`: for any log groups, entries, limits and reconnects. `AwsInv`
is about all readings: time stamps are distinct and rise, and `Since` is not later than
now (`Clock`); what was printed is not newer than `Since` (`Printed`); what is printed
again is the entry that the new query starts from, and another group has printed
something newer (`Again`). For a tail it knows what each goroutine has handed over
(`FollowingAt`) and what became of the rest: printed before the reconnect, or overtaken
by another group (`Seen`, `CoveredAt`, `SeenBefore`). `FollowedWithoutGap` needs that
the position in a page and the position at which the live tail was opened overlap
(`opened[g] <= histEnd[g]` in the history), `OnlyOverlapTwice` that each group rises but
there (`RisingAt`), and `FollowedEndExplained` that while the range goes on no group is
done before the context (`Ended`). For a query, `QueryInv` adds that the merge has
passed everything older, also on pages still to come (`InOrder`), that entries are left
out only by a query that shows the last ones, and then only older ones (`OnlyTheLast`),
and that what counts against the limit was shown, but for one duplicate (`Counted`).
`QueryShowsEnough` then needs what is left of the limit for each group (`LeftAt`): a
group that stopped before its end has read as many entries as the limit. The proof of it
found that two cases of `LimitAfter` overlapped when nothing is left of the limit; the
model was made determinate as `logs.go` is.

`GcpSubscribe_proofs`, for any services and any order of the entries. The memory of the
parser is exactly what it has parsed (`Remembers`), and what the wait heard is in the
log (`HeardIsReal`). `ReadyReported` needs the first: whichever of the two entries is
read second finds the other one in memory. `VerdictIsReal` needs the second.

`AzureSubscribe_proofs`, for any services and build runs. What a poller is about to say
was so when it looked (`SaidIsReal`, `RunsAreReal`), although the revision may have
moved on; a failure that was heard of has ended the wait (`NoFailureHeard`); and only
the wait's verdict cancels its context (`Stopped`), which is why a poller that is gone
has told its outcome (`EndedPollerTold`). `Refines` takes one more fact, `StillWaiting`
(while the wait runs some service is not complete), and shows that what a goroutine
sends is a `Reach`, a `Fail` or a stutter of `DeployWatch`. The wait of `GcpSubscribe`
is not shown to implement it: one entry of the log may complete several services, which
that model takes as one step.

Only model-checked: liveness (`WaitEnds`, `AllEnd`, `TailEnds`, `EndsUnlessMissed`,
`CompletionNoticed`, `GoroutinesEnd`), which the provers cannot do under fairness. The
inductive invariants were checked by TLC on the bounds of the runs, or on smaller ones,
before they were proved; the runs do not repeat them.

## Not modelled, and the plan

In this order:

1. The messages of AWS builds, of which `WaitServiceState` has only that they need no
   other event; the DigitalOcean socket.
2. Retries and delays: `provider.go` and `retrier.go`.
3. Certificates and DNS; login and tokens; the agent's generate loop; the
   read-modify-write of IAM and key vault policies.
4. Compose loading and the packing of build contexts: sequential transformations of
   data, for which tests are the better tool.

Out of reach or out of interest: generated protocol code, terminal and telemetry,
edits of editor settings for MCP, and thin wrappers of one API call, which are most
of the cloud drivers and of the providers' deployment code.
