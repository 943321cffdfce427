------------------------------ MODULE MCSidecars ------------------------------
(* Sidecars with the values TLC checks it for.  The two sidecars share the   *)
(* server's restarts and nothing else, so each is explored beside an idle    *)
(* other: a behaviour has requests for one of them only.                     *)
EXTENDS Sidecars, TLC

CONSTANTS r1, r2, k1, k2

VARIABLE focus \* the file that this behaviour's requests render

MCInit == Init /\ focus \in Files

MCNext ==
  /\ Next
  /\ \A k \in Workers : job'[k] # Idle => File(job'[k].handler) = focus
  /\ UNCHANGED focus

MCSpec == MCInit /\ [][MCNext]_<<vars, focus>> /\ Fairness
===============================================================================
