----------------------------- MODULE MCFleetTasks -----------------------------
(* FleetTasks with the values TLC checks it for; every .cfg of a fleet_* run  *)
(* instantiates this module.                                                 *)
EXTENDS FleetTasks, TLC

CONSTANTS a1, a2, s1, s2, p1

\* Slots are interchangeable; so are machines, but not an Ubuntu with a Windows one.
Symmetry == Permutations(Slots)
===============================================================================
