------------------------ MODULE MCWaitServiceState ------------------------
(* Two services, one state of each kind, and every interleaving of the     *)
(* updates with transient errors and the end of the context.  Of an ECS    *)
(* deployment the completion matters, of its tasks that they are read.     *)
EXTENDS WaitServiceState
CONSTANTS web, db, NOT_SPECIFIED, PENDING, COMPLETED, DEPLOYMENT_FAILED
MCNames == {web, db}
MCStates == {NOT_SPECIFIED, PENDING, COMPLETED, DEPLOYMENT_FAILED}
MCSays == [update |-> MCStates, task |-> {NOT_SPECIFIED, DEPLOYMENT_FAILED}, deployment |-> {COMPLETED}]
MCFailures == {DEPLOYMENT_FAILED}
=============================================================================
