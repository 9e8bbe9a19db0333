----------------------------- MODULE Conditions -----------------------------
(***************************************************************************)
(* The two status conditions every controller of kube-applier writes, as   *)
(* functions of the error one sync attempt ended with                      *)
(* (pkg/controllers/conditions/conditions.go and classifyAsDegraded of the *)
(* apply and delete controllers).  An error is abstracted to its class:    *)
(*   "none"      the attempt succeeded                                     *)
(*   "precheck"  a PreCheckError: the spec cannot be turned into a request *)
(*   "client"    the apiserver answered with a 4xx StatusError             *)
(*   "server"    a 5xx answer, or no answer (the connection was lost)      *)
(* The message is left out: two errors of a class have one message here.   *)
(***************************************************************************)

Errors == {"none", "precheck", "client", "server"}

Reasons == {"NoErrors", "PreCheckFailed", "KubeAPIError", "WaitingForDeletion"}

\* classifyAsDegraded: precheck and 4xx errors are the user's, not the controller's.
ClassifyAsDegraded(err) == err = "server"

SuccessfulReason(err) ==
    IF err = "none" THEN "NoErrors"
    ELSE IF err = "precheck" THEN "PreCheckFailed"
    ELSE "KubeAPIError"

\* SetSuccessful followed by SetDegraded(classifyAsDegraded(err)).
SetConditions(err) ==
    [successful |-> err = "none",
     reason     |-> SuccessfulReason(err),
     degraded   |-> ClassifyAsDegraded(err)]

\* SetSuccessfulWaitingForDeletion followed by SetDegraded(nil).
WaitingForDeletion ==
    [successful |-> FALSE, reason |-> "WaitingForDeletion", degraded |-> FALSE]

Conditions == [successful: BOOLEAN, reason: Reasons, degraded: BOOLEAN]
=============================================================================
