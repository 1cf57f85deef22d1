---------------------------- MODULE ReportPromise ----------------------------
(***************************************************************************)
(* What the report engine promises: an execution is completed at most      *)
(* once, by publishing one file, and the file stays readable until the     *)
(* execution is withdrawn.  An execution that failed or was withdrawn is   *)
(* never run again.                                                        *)
(***************************************************************************)
CONSTANTS Artifact, None
VARIABLES
  status,    \* of the execution
  readable   \* the file its requester can download, or None

Init == status = "pending" /\ readable = None

Start == status = "pending" /\ status' = "running" /\ UNCHANGED readable
PutBack == status = "running" /\ status' = "pending" /\ UNCHANGED readable
Publish == /\ status = "running"
           /\ status' = "completed"
           /\ readable' \in Artifact
GiveUp == status \in {"pending", "running"} /\ status' = "failed" /\ UNCHANGED readable
Withdraw == status # "cancelled" /\ status' = "cancelled" /\ readable' = None

Next == Start \/ PutBack \/ Publish \/ GiveUp \/ Withdraw

Spec == Init /\ [][Next]_<<status, readable>>
=============================================================================
