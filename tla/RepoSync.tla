------------------------------- MODULE RepoSync -------------------------------
(***************************************************************************)
(* The apt mirror: the pages that change the mirrors and ask for a sync    *)
(* (routers/repos.py, renderer.py), and the loop of the sidecar that does  *)
(* it (reposync/sync.sh).  They share mirror.list, sync.trigger and        *)
(* status.json.                                                            *)
(***************************************************************************)
EXTENDS ServerProcess

CONSTANTS
  MaxEdits, \* bound: changes of the mirrors
  Unwritten \* mirror.list opened for writing and not yet written

ASSUME RepoAssumption == MaxEdits \in Nat /\ Unwritten \notin Nat

VARIABLES
  edits,    \* the repo_mirrors table: how often it was changed
  list,     \* mirror.list: the change it was rendered after, or Unwritten
  trigger,  \* sync.trigger exists
  loop,     \* what sync.sh does
  status,   \* status.json
  unserved, \* history: a sync was asked for and neither begun nor refused since
  cut       \* history: the container stopped during the run status.json tells of

repo == <<edits, list, trigger, loop, status, unserved, cut>>

RepoInit ==
  /\ edits = 0 /\ list = 0 /\ trigger = FALSE
  /\ loop = "poll" /\ status = "never-run"
  /\ unserved = FALSE /\ cut = FALSE

-------------------------------------------------------------------------------
(* The pages.                                                                *)

\* mirror_new, mirror_toggle, mirror_delete: the commit.
MirrorEdit(k) ==
  /\ edits < MaxEdits
  /\ Begin(k, "edit", "select", Idle)
  /\ edits' = edits + 1
  /\ UNCHANGED <<list, trigger, loop, status, unserved, cut>>

SyncNow(k) ==
  /\ Begin(k, "sync", "select", Idle)
  /\ UNCHANGED repo

\* render_mirror_list: the enabled mirrors are read, the file opened, then
\* written.
ListSelect(k) ==
  /\ At(k, "select") /\ Goto(k, "write", edits)
  /\ list' = Unwritten
  /\ UNCHANGED <<edits, trigger, loop, status, unserved, cut>>

ListWrite(k) ==
  /\ At(k, "write")
  /\ list' = job[k].read
  /\ IF job[k].handler = "sync" THEN Goto(k, "trigger", Idle) ELSE Finish(k)
  /\ UNCHANGED <<edits, trigger, loop, status, unserved, cut>>

\* trigger_repo_sync.
Trigger(k) ==
  /\ At(k, "trigger") /\ Finish(k)
  /\ trigger' = TRUE /\ unserved' = TRUE
  /\ UNCHANGED <<edits, list, loop, status, cut>>

-------------------------------------------------------------------------------
(* sync.sh.                                                                  *)

\* The step at which the trigger is removed.
Removed_Afterwards(step) == step = "end"
Removed(step) == step = "poll"

Poll ==
  /\ loop = "poll" /\ trigger
  /\ trigger' = ~Removed("poll")
  /\ loop' = "check"
  /\ UNCHANGED <<process, edits, list, status, unserved, cut>>

\* "[ ! -s mirror.list ]" holds while a handler writes the file: the request is
\* refused.
Check ==
  /\ loop = "check"
  /\ IF list = Unwritten
     THEN loop' = "poll" /\ status' = "failed" /\ unserved' = FALSE
     ELSE loop' = "begin" /\ status' = "running" /\ UNCHANGED unserved
  /\ cut' = FALSE
  /\ UNCHANGED <<process, edits, list, trigger>>

\* apt-mirror reads the list and runs.
SyncBegin ==
  /\ loop = "begin" /\ loop' = "run" /\ unserved' = FALSE
  /\ UNCHANGED <<process, edits, list, trigger, status, cut>>

\* The status of a run that has ended.
Outcome_IfGood == {"done", status}
Outcome == {"done", "failed"}

SyncEnd ==
  /\ loop = "run" /\ loop' = "poll"
  /\ status' \in Outcome
  /\ trigger' = (trigger /\ ~Removed("end"))
  /\ UNCHANGED <<process, edits, list, unserved, cut>>

\* The container stops and starts again; the request it had taken is gone.
SyncRestart ==
  /\ loop # "poll" /\ loop' = "poll"
  /\ unserved' = trigger
  /\ cut' = (status = "running")
  /\ UNCHANGED <<process, edits, list, trigger, status>>

RepoNext ==
  \/ \E k \in Workers : MirrorEdit(k) \/ SyncNow(k) \/ Trigger(k)
  \/ \E k \in Threads : ListSelect(k) \/ ListWrite(k)
  \/ Poll \/ Check \/ SyncBegin \/ SyncEnd \/ SyncRestart
-------------------------------------------------------------------------------
(* Properties.                                                               *)

\* When nothing is under way and the last request that rendered the list was not
\* overlapped by another, mirror.list is what the table says, through restarts
\* of the server at any point.
ListCurrent == Quiet /\ alone["list"] => list = edits

\* A sync that is asked for is followed by a run that begins after it, also when
\* it is asked for during a run, unless the list is being written at that moment
\* or the container stops with the request in its hands: "apt-mirror trigger
\* loop" (sync.sh:2).
RequestServed == unserved ~> ~unserved

\* status.json says "running" only during a run, or after one that a stop of the
\* container cut short.
StatusTrue == status = "running" => loop \in {"begin", "run"} \/ cut
===============================================================================
