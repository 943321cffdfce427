---------------------------- MODULE AgentInventory ----------------------------
(***************************************************************************)
(* How the server's copy of a machine's packages follows the machine: the  *)
(* loop of agent.py sends a full inventory every InventoryEvery turns and  *)
(* after package tasks, a short one otherwise; the check-in handler copies *)
(* what it is sent into the host row (routers/agent.py).  One machine; the *)
(* tasks matter only for whether they reset the loop's counter.            *)
(***************************************************************************)
EXTENDS Integers, Sequences

CONSTANTS
  InventoryEvery, \* INVENTORY_EVERY, 30 in the code
  MaxChanges,     \* bound: changes of the machine's packages
  MaxPending,     \* bound: tasks waiting for one check-in
  Nothing         \* no request, no answer, no packages in a message or a row

ASSUME InventoryAssumption ==
  /\ InventoryEvery \in Nat \ {0} /\ MaxChanges \in Nat /\ MaxPending \in Nat
  /\ Nothing \notin Nat

VARIABLES
  version,  \* the machine's packages: how often they have changed
  reported, \* host.packages in the row: a version, or Nothing
  pending,  \* the kinds of the tasks queued for the host
  n,        \* the loop's counter, modulo InventoryEvery, or -1
  pc,       \* what the agent does
  request,  \* the check-in it has sent, not yet handled
  answer,   \* the tasks in the answer on its way
  late,     \* a check-in given up by the agent that the server still handles
  batch,    \* the tasks of the turn that are not finished
  owed,     \* history: a package task was reported and no full inventory sent since
  short     \* history: turns since the last full inventory was sent

server == <<reported, pending>>
wire   == <<request, answer, late>>
vars   == <<version, server, n, pc, wire, batch, owed, short>>

\* Kinds of tasks: those that make the next inventory full, and the others,
\* a script for instance, that may change packages all the same.
Kinds == {"package", "other"}

Request == [packages : (0 .. MaxChanges) \cup {Nothing}]

TypeOK ==
  /\ version \in 0 .. MaxChanges
  /\ reported \in (0 .. version) \cup {Nothing}
  /\ pending \in Seq(Kinds) /\ Len(pending) <= MaxPending
  /\ n \in -1 .. InventoryEvery - 1
  /\ pc \in {"asleep", "waiting", "batch", "posting"}
  /\ request \in Request \cup {Nothing} /\ late \in Request \cup {Nothing}
  /\ answer # Nothing => answer \in Seq(Kinds)
  /\ batch \in Seq(Kinds) /\ Len(batch) <= MaxPending
  /\ owed \in BOOLEAN /\ short \in Nat

\* A row that enroll has just made, and an agent that has just started.
Init ==
  /\ version = 0 /\ reported = Nothing /\ pending = <<>>
  /\ n = 0 /\ pc = "asleep"
  /\ request = Nothing /\ answer = Nothing /\ late = Nothing
  /\ batch = <<>> /\ owed = FALSE /\ short = 0

-------------------------------------------------------------------------------
(* The operators and the machine itself.                                     *)

Queue(kind) ==
  /\ Len(pending) < MaxPending
  /\ pending' = Append(pending, kind)
  /\ UNCHANGED <<version, reported, n, pc, wire, batch, owed, short>>

\* Somebody at the machine installs or removes a package.
Change ==
  /\ version < MaxChanges /\ version' = version + 1
  /\ UNCHANGED <<server, n, pc, wire, batch, owed, short>>

-------------------------------------------------------------------------------
(* The agent.                                                                *)

\* Whether this turn's inventory is full.
Full == n % InventoryEvery = 0

\* inventory() and the POST of the check-in.
Checkin ==
  /\ pc = "asleep" /\ pc' = "waiting"
  /\ request' = [packages |-> IF Full THEN version ELSE Nothing]
  /\ owed' = (owed /\ ~Full)
  /\ short' = IF Full THEN 0 ELSE short
  /\ UNCHANGED <<version, server, n, answer, late, batch>>

\* The end of a turn, also of one that an exception ends.
TurnEnds ==
  /\ pc' = "asleep" /\ batch' = <<>>
  /\ n' = (n + 1) % InventoryEvery
  /\ short' = short + 1

Receive ==
  /\ answer # Nothing
  /\ batch' = answer /\ answer' = Nothing /\ pc' = "batch"
  /\ UNCHANGED <<version, server, n, request, late, owed, short>>

\* The POST fails: the request or its answer was lost, or 30 s have passed, in
\* which case the server may go on with it.
GiveUp ==
  /\ pc = "waiting" /\ TurnEnds
  /\ request' = Nothing /\ answer' = Nothing
  /\ late' \in {late, IF late = Nothing THEN request ELSE late}
  /\ UNCHANGED <<version, server, owed>>

\* run_task, which may change packages, and may raise after it has: harden writes
\* files after it has installed packages.
Run ==
  /\ pc = "batch" /\ batch # <<>>
  /\ version' \in {version, version + 1} \cap (0 .. MaxChanges)
  /\ \/ pc' = "posting" /\ UNCHANGED <<n, batch, short>>
     \/ TurnEnds
  /\ UNCHANGED <<server, wire, owed>>

\* The counter after a task of this kind has been reported.
Counter_Zero(kind) == IF kind = "package" THEN 0 ELSE n
Counter_Decremented(kind) == IF kind = "package" THEN n - 1 ELSE n
Counter(kind) == IF kind = "package" THEN -1 ELSE n

\* The POST of the result succeeds.
Reported ==
  /\ pc = "posting" /\ pc' = "batch"
  /\ n' = Counter(Head(batch))
  /\ owed' = (owed \/ Head(batch) = "package")
  /\ batch' = Tail(batch)
  /\ UNCHANGED <<version, server, wire, short>>

\* It fails: the exception skips the reset and the rest of the batch.
Unreported ==
  /\ pc = "posting" /\ TurnEnds
  /\ UNCHANGED <<version, server, wire, owed>>

Sleep ==
  /\ pc = "batch" /\ batch = <<>> /\ TurnEnds
  /\ UNCHANGED <<version, server, wire, owed>>

\* The machine or the agent stops, at any point, and the agent starts again.
Restart ==
  /\ n' = 0 /\ pc' = "asleep" /\ batch' = <<>>
  /\ request' = Nothing /\ answer' = Nothing
  /\ late' \in {late, IF late = Nothing THEN request ELSE late}
  /\ UNCHANGED <<version, server, owed, short>>

-------------------------------------------------------------------------------
(* The server.                                                               *)

\* What checkin makes of host.packages: a field that was not sent stays.
Stored_Erased(r) == r.packages
Stored(r) == IF r.packages = Nothing THEN reported ELSE r.packages

Handle ==
  /\ request # Nothing
  /\ reported' = Stored(request)
  /\ answer' = pending /\ pending' = <<>>
  /\ request' = Nothing
  /\ UNCHANGED <<version, n, pc, late, batch, owed, short>>

\* The tasks it hands out reach nobody.
HandleLate ==
  /\ late # Nothing
  /\ reported' = Stored(late)
  /\ pending' = <<>>
  /\ late' = Nothing
  /\ UNCHANGED <<version, n, pc, request, answer, batch, owed, short>>

-------------------------------------------------------------------------------
Agent == Checkin \/ Receive \/ GiveUp \/ Run \/ Reported \/ Unreported \/ Sleep

Next ==
  \/ \E kind \in Kinds : Queue(kind)
  \/ Change \/ Agent \/ Restart
  \/ Handle \/ HandleLate

Spec == Init /\ [][Next]_vars

\* The agent's loop and the server go on, and not every full inventory is lost.
Fairness ==
  /\ WF_vars(Agent)
  /\ WF_vars(HandleLate)
  /\ SF_vars(Handle /\ request.packages # Nothing)

FairSpec == Spec /\ Fairness
-------------------------------------------------------------------------------
(* Properties.                                                               *)

\* After a package task has been reported, the next inventory that is sent is a
\* full one, whatever else the batch held, whether the turn ended in an exception
\* and however often the agent restarts: "force fresh inventory next checkin"
\* (agent.py:334).
FreshAfterTask ==
  [][request' # request /\ request' # Nothing /\ owed
       => request'.packages = version]_vars

\* Between two full inventories there are fewer than InventoryEvery turns:
\* "full inventory every N checkins" (agent.py:25).  Resets bring the next one
\* forward and never put it off.
AtLeastEvery == request # Nothing \/ answer # Nothing => short < InventoryEvery

\* When the machine's packages stop changing, the row comes to hold them and
\* keeps holding them: through short check-ins, which do not touch them, lost
\* ones, restarts, and late handlers with an older inventory.
RowCatchesUp == <>[](reported = version)
===============================================================================
