---------------------------- MODULE MCProvisioning ----------------------------
(* Provisioning with the values TLC checks it for; every .cfg of a pxe_* run  *)
(* instantiates this module.                                                 *)
EXTENDS Provisioning, TLC

CONSTANTS m1, m2, iu, iw, k1, k2, o1

\* Machines and images are interchangeable.
Symmetry == Permutations(Macs) \cup Permutations(Images)
===============================================================================
