------------------------------- MODULE Sidecars -------------------------------
(***************************************************************************)
(* The server beside the two sidecars it drives through files: DhcpMode    *)
(* and RepoSync in one process, with its restarts and its start-up, which  *)
(* renders dnsmasq.conf and then mirror.list (main.py).                    *)
(***************************************************************************)
EXTENDS DhcpMode, RepoSync

vars == <<process, dhcp, repo>>

\* What a thread may be doing: what it has read follows from where it is.
Handlers == {"save", "edit", "sync", "start"}
Job ==
  [handler : Handlers, at : {"resolve"}, read : Settings]
    \cup [handler : Handlers, at : {"render"}, read : Confs]
    \cup [handler : Handlers, at : {"write"}, read : 0 .. MaxEdits]
    \cup [handler : Handlers, at : {"load", "restart", "select", "trigger"}, read : {Idle}]

ASSUME JobAssumption == Idle \notin Job

TypeOK ==
  /\ job \in [Threads -> Job \cup {Idle}]
  /\ \A k \in Threads : At(k, "write") => job[k].read <= edits
  /\ alone \in [Files -> BOOLEAN]
  /\ setting \in Settings /\ conf \in Confs /\ dnsmasq \in Confs
  /\ applied \in BOOLEAN
  /\ edits \in 0 .. MaxEdits /\ list \in (0 .. edits) \cup {Unwritten}
  /\ trigger \in BOOLEAN /\ unserved \in BOOLEAN /\ cut \in BOOLEAN
  /\ loop \in {"poll", "check", "begin", "run"}
  /\ status \in {"never-run", "running", "done", "failed"}

Init == ProcessInit /\ DhcpInit /\ RepoInit

ServerRestart ==
  /\ ProcessRestart
  /\ applied' = FALSE
  /\ UNCHANGED <<setting, conf, dnsmasq, repo>>

Next ==
  \/ DhcpNext /\ UNCHANGED repo
  \/ RepoNext /\ UNCHANGED dhcp
  \/ ServerRestart

Spec == Init /\ [][Next]_vars

\* sync.sh goes on and an apt-mirror run ends; the container is not stopped over
\* and over just when it has taken a request (strong fairness).
Fairness ==
  /\ WF_vars(Poll /\ UNCHANGED dhcp) /\ WF_vars(SyncEnd /\ UNCHANGED dhcp)
  /\ SF_vars(Check /\ UNCHANGED dhcp) /\ SF_vars(SyncBegin /\ UNCHANGED dhcp)

FairSpec == Spec /\ Fairness
===============================================================================
