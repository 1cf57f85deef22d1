---------------------------- MODULE LinkPromise ----------------------------
(***************************************************************************)
(* What a secure link promises to the one who issues it: it serves its     *)
(* file at most MaxUses times, and from the moment it is dead, be it used  *)
(* up, revoked or over, it serves nobody and never comes back to life.     *)
(***************************************************************************)
EXTENDS Naturals

CONSTANTS Link, MaxUses

VARIABLES
  phase,     \* of every link: "absent", "live" or "dead"
  given      \* how often it has served its file

Init ==
  /\ phase = [l \in Link |-> "absent"]
  /\ given = [l \in Link |-> 0]

Issue(l) ==
  /\ phase[l] = "absent"
  /\ phase' = [phase EXCEPT ![l] = "live"]
  /\ UNCHANGED given

\* The last use kills the link.
Serve(l) ==
  /\ phase[l] = "live" /\ given[l] < MaxUses
  /\ given' = [given EXCEPT ![l] = @ + 1]
  /\ phase' = IF given'[l] = MaxUses THEN [phase EXCEPT ![l] = "dead"] ELSE phase

Kill(l) ==
  /\ phase[l] = "live"
  /\ phase' = [phase EXCEPT ![l] = "dead"]
  /\ UNCHANGED given

Next == \E l \in Link : Issue(l) \/ Serve(l) \/ Kill(l)

Spec == Init /\ [][Next]_<<phase, given>>
=============================================================================
