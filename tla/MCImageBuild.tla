----------------------------- MODULE MCImageBuild -----------------------------
(* ImageBuild with the values TLC checks it for; every .cfg of a build_* run  *)
(* instantiates this module.                                                 *)
EXTENDS ImageBuild

CONSTANTS u1, w1, w2, x, y, c1, c2
===============================================================================
