----------------------------- MODULE MCCloudRun -----------------------------
(* CloudRun for TLC, with a history of what the shutdown found running. *)
EXTENDS CloudRun, TLC

VARIABLES found   \* history: the processes that ran when stopAll did

ShutdownInit == Init /\ found = {}

ShutdownNext ==
    /\ Next
    /\ found' = IF stopped = stopped' THEN found ELSE {k \in DOMAIN procs : procs[k].alive}

ShutdownSpec == ShutdownInit /\ [][ShutdownNext]_<<vars, found>>

(* runner.go:116: "stopAll terminates every running child", and README.md:290 *)
(* of a child: "terminated on resource delete / shutdown": of the processes   *)
(* that ran when stopAll did, none runs when the calls in progress are over.  *)
StopEndsEveryChild == stopped /\ Quiet => \A k \in found : ~procs[k].alive
=============================================================================
