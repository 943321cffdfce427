------------------------------ MODULE MCAccounts ------------------------------
(* Accounts with the values TLC checks it for: a provider whose user is in    *)
(* no group or in both, and two configurations that give the groups roles.    *)
EXTENDS Accounts, TLC

CONSTANTS root, ann, b1, b2, staff, ops

BothOrNone == {{}, {staff, ops}}

TwoConfigs == {[admin |-> ops, operator |-> staff, default |-> "viewer"],
               [admin |-> Unset, operator |-> staff, default |-> "admin"]}

\* Browsers are interchangeable.
Symmetry == Permutations(Browsers)
===============================================================================
