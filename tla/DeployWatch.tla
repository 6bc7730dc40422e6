---------------------------- MODULE DeployWatch ----------------------------
(***************************************************************************)
(* What waiting for a deployment promises its caller: services reach the   *)
(* target state one at a time and never fall back, a service that has not  *)
(* reached it may fail the deployment, and there is exactly one verdict.   *)
(* WaitServiceState (pkg/cli/subscribe.go) implements this specification,  *)
(* whatever its event stream repeats, drops or reorders between services.  *)
(* So does the wait of AzureSubscribe, to which one goroutine per service  *)
(* and one for all builds send.                                            *)
(***************************************************************************)
VARIABLES
  reached,   \* the services known to have reached the target state
  verdict    \* "watching" until the wait is over

CONSTANT Names   \* every service name

watchVars == <<reached, verdict>>

Verdicts == {"watching", "completed", "failed", "detached"}

WatchTypeOK ==
  /\ reached \subseteq Names
  /\ verdict \in Verdicts

WatchInit ==
  /\ reached = {}
  /\ verdict = "watching"

\* A service reaches the target; the wait may be over with it.
Reach(s) ==
  /\ verdict = "watching"
  /\ s \notin reached
  /\ reached' = reached \union {s}
  /\ verdict' \in {"watching", "completed"}

\* Only a service that has not reached the target can fail the deployment.
Fail(s) ==
  /\ verdict = "watching"
  /\ s \notin reached
  /\ verdict' = "failed"
  /\ UNCHANGED reached

\* Context done, stream over or broken, or nothing to wait for.
Detach ==
  /\ verdict = "watching"
  /\ verdict' = "detached"
  /\ UNCHANGED reached

WatchNext ==
  \/ \E s \in Names : Reach(s) \/ Fail(s)
  \/ Detach

WatchSpec == WatchInit /\ [][WatchNext]_watchVars
=============================================================================
