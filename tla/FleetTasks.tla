------------------------------ MODULE FleetTasks ------------------------------
(***************************************************************************)
(* The task channel between the server and the managed machines: the       *)
(* tables hosts, tasks, compliance_profiles and compliance_results, the    *)
(* operator pages that write them, the agent API                           *)
(* (server/app/routers/agent.py) and the agents' loop (agent/agent.py,     *)
(* agent/windows/agent.ps1).  Requests live in slots: the agent that sent  *)
(* one waits for the answer, the server handles it in the steps the        *)
(* database sees, and an answer may come too late for anyone to read.      *)
(***************************************************************************)
EXTENDS Naturals, FiniteSets

CONSTANTS
  Agents,      \* machines; each has a machine id of its own
  Windows,     \* those that run agent.ps1, a new process every check-in
  Slots,       \* requests the network and the server hold at one time
  MaxTasks,    \* bound: task rows ever inserted
  MaxRows,     \* bound: host rows ever inserted
  Profiles,    \* compliance profiles
  Builtin,     \* those profile_delete refuses to delete
  NoProfile,   \* the profile of a task that is not a compliance scan
  NoSlot,      \* an agent that waits for no answer
  Faults       \* what may go wrong, see FaultKinds

FaultKinds == {"loss",       \* a request or its answer is lost
               "straggler",  \* the server still works on a request its
                             \* sender has given up (30 s, agent.py:47)
               "crash",      \* a machine stops and comes back
               "raise"}      \* run_task raises instead of returning a verdict

ASSUME FleetAssumption ==
  /\ Windows \subseteq Agents
  /\ Builtin \subseteq Profiles
  /\ NoProfile \notin Profiles
  /\ NoSlot \notin Slots
  /\ MaxTasks \in Nat /\ MaxRows \in Nat
  /\ Faults \subseteq FaultKinds

Tasks == 1 .. MaxTasks
Rows  == 1 .. MaxRows
NoRow == 0

VARIABLES
  machine,   \* machine[r]: Host.machine_id of row r, kept after its deletion
  live,      \* the host rows that exist
  lastRow,   \* the last host id the database gave out
  status,    \* status[t]: Task.status, "none" before and "gone" after the row
  owner,     \* owner[t]: Task.host_id
  profile,   \* profile[t]: profile_id in the payload of a compliance scan
  lastTask,  \* the last task id the database gave out
  profiles,  \* the compliance_profiles rows that exist
  latest,    \* latest[r, p]: task whose result is the newest ComplianceResult
             \* of host r and profile p, 0 when there is none
  pc,        \* what the agent is doing
  conf,      \* host id in the agent's conf file, NoRow before enrollment
  mem,       \* host id the running agent uses
  batch,     \* tasks of the last check-in the agent has yet to run
  cur,       \* slot of the request whose answer the agent waits for
  rq,        \* the requests
  runs       \* history: how often t has been executed

dbHosts  == <<machine, live, lastRow>>
dbTasks  == <<status, owner, profile, lastTask>>
dbScans  == <<profiles, latest>>
agents   == <<pc, conf, mem, batch, cur>>
vars     == <<dbHosts, dbTasks, dbScans, agents, rq, runs>>

Statuses == {"none", "pending", "sent", "done", "failed", "gone"}

Request == [st : {"free", "new", "read", "ok", "err"}, kind : {"checkin", "result"},
            row : Rows \cup {NoRow}, tasks : SUBSET Tasks,
            verdict : {"done", "failed", "garbled"}]

FreeSlot == [st |-> "free", kind |-> "checkin", row |-> NoRow, tasks |-> {},
             verdict |-> "done"]

TypeOK ==
  /\ machine \in [1 .. lastRow -> Agents]
  /\ live \subseteq 1 .. lastRow
  /\ lastRow \in 0 .. MaxRows
  /\ status \in [Tasks -> Statuses]
  /\ owner \in [Tasks -> 0 .. lastRow]
  /\ profile \in [Tasks -> Profiles \cup {NoProfile}]
  /\ lastTask \in 0 .. MaxTasks
  /\ profiles \subseteq Profiles
  /\ latest \in [Rows \X Profiles -> 0 .. MaxTasks]
  /\ pc \in [Agents -> {"down", "idle", "checkin", "work", "result"}]
  /\ conf \in [Agents -> 0 .. lastRow]
  /\ mem \in [Agents -> 0 .. lastRow]
  /\ batch \in [Agents -> SUBSET Tasks]
  /\ cur \in [Agents -> Slots \cup {NoSlot}]
  /\ rq \in [Slots -> Request]
  /\ runs \in [Tasks -> Nat]

Init ==
  /\ machine = << >> /\ live = {} /\ lastRow = 0
  /\ status = [t \in Tasks |-> "none"]
  /\ owner = [t \in Tasks |-> NoRow]
  /\ profile = [t \in Tasks |-> NoProfile]
  /\ lastTask = 0
  /\ profiles = Profiles
  /\ latest = [rp \in Rows \X Profiles |-> 0]
  /\ pc = [a \in Agents |-> "down"]
  /\ conf = [a \in Agents |-> NoRow]
  /\ mem = [a \in Agents |-> NoRow]
  /\ batch = [a \in Agents |-> {}]
  /\ cur = [a \in Agents |-> NoSlot]
  /\ rq = [s \in Slots |-> FreeSlot]
  /\ runs = [t \in Tasks |-> 0]

-------------------------------------------------------------------------------
(* Operators: the pages that queue tasks and delete hosts and profiles.      *)

\* One commit inserts a pending task for every row of R.  The ids are the next
\* ones (inserts of two operators do not overlap here); which row gets which
\* follows the order of an unordered query.
InsertTasks(R, p) ==
  LET new == lastTask + 1 .. lastTask + Cardinality(R) IN
  /\ R # {} /\ new \subseteq Tasks
  /\ \E f \in [new -> R] :
       /\ \A t, u \in new : f[t] = f[u] => t = u
       /\ owner' = [t \in Tasks |-> IF t \in new THEN f[t] ELSE owner[t]]
  /\ status' = [t \in Tasks |-> IF t \in new THEN "pending" ELSE status[t]]
  /\ profile' = [t \in Tasks |-> IF t \in new THEN p ELSE profile[t]]
  /\ lastTask' = lastTask + Cardinality(R)
  /\ UNCHANGED <<dbHosts, dbScans, agents, rq, runs>>

\* _new_task: one host, one commit; host_action does this once, hosts_bulk and
\* software_action once per host of the form.
NewTask(r, p) == r \in live /\ InsertTasks({r}, p)

Ubuntu(r) == machine[r] \notin Windows

\* scan_all: every host of the profile's os_family in one commit.
ScanAll(ubuntu, p) == /\ p \in profiles
                      /\ InsertTasks({r \in live : Ubuntu(r) = ubuntu}, p)

\* push_sources: every Ubuntu host in one commit.
PushSources == InsertTasks({r \in live : Ubuntu(r)}, NoProfile)

\* host_action "delete": tasks and results go with the row (ON DELETE CASCADE).
HostDelete(r) ==
  /\ r \in live
  /\ live' = live \ {r}
  /\ status' = [t \in Tasks |-> IF owner[t] = r THEN "gone" ELSE status[t]]
  /\ latest' = [rp \in Rows \X Profiles |-> IF rp[1] = r THEN 0 ELSE latest[rp]]
  /\ UNCHANGED <<machine, lastRow, owner, profile, lastTask, profiles, agents, rq, runs>>

\* profile_delete: its results go with it, queued scans keep its id.
ProfileDelete(p) ==
  /\ p \in profiles \ Builtin
  /\ profiles' = profiles \ {p}
  /\ latest' = [rp \in Rows \X Profiles |-> IF rp[2] = p THEN 0 ELSE latest[rp]]
  /\ UNCHANGED <<dbHosts, dbTasks, agents, rq, runs>>
-------------------------------------------------------------------------------
(* Enrollment and the agents' loop.                                          *)

\* enroll, with an active token: a known machine id finds its row, a new one
\* inserts it.
EnrollRow(a, r) ==
  \/ /\ r \in live /\ machine[r] = a
     /\ UNCHANGED dbHosts
  \/ /\ \A q \in live : machine[q] # a
     /\ r = lastRow + 1
     /\ lastRow' = r
     /\ live' = live \cup {r}
     /\ machine' = [q \in 1 .. r |-> IF q = r THEN a ELSE machine[q]]

\* The rest of install.sh: "systemctl enable --now" starts an agent that is not
\* running and leaves a running one, and the credentials it has read, alone.
Install(a, r) ==
  /\ conf' = [conf EXCEPT ![a] = r]
  /\ IF pc[a] = "down"
     THEN /\ pc' = [pc EXCEPT ![a] = "idle"]
          /\ mem' = [mem EXCEPT ![a] = r]
     ELSE UNCHANGED <<pc, mem>>

\* agent.py --enroll or install.ps1.  The answer may be lost before the conf file
\* is written.
Enroll(a) ==
  /\ \E r \in Rows : /\ EnrollRow(a, r)
                     /\ \/ Install(a, r)
                        \/ "loss" \in Faults /\ UNCHANGED <<conf, pc, mem>>
  /\ UNCHANGED <<batch, cur, dbTasks, dbScans, rq, runs>>

Waiting(a) == pc[a] \in {"checkin", "result"}

\* The host the agent speaks for: agent.ps1 reads its conf file at every
\* check-in, agent.py only when it starts.
Me(a) == IF a \in Windows THEN conf[a] ELSE mem[a]

\* Agent a sends request q and waits in slot s.
Send(a, s, q, phase) ==
  /\ rq[s].st = "free"
  /\ rq' = [rq EXCEPT ![s] = q]
  /\ cur' = [cur EXCEPT ![a] = s]
  /\ pc' = [pc EXCEPT ![a] = phase]

\* The check-in of one turn of the loop.
Checkin(a, s) ==
  /\ pc[a] = "idle"
  /\ mem' = [mem EXCEPT ![a] = Me(a)]
  /\ Send(a, s, [st |-> "new", kind |-> "checkin", row |-> Me(a),
                 tasks |-> {}, verdict |-> "done"], "checkin")
  /\ UNCHANGED <<dbHosts, dbTasks, dbScans, conf, batch, runs>>

\* The loop takes the tasks in the order of the answer, which is that of the ids.
Next_Any(a, t) == t \in batch[a]
NextTask(a, t) == t \in batch[a] /\ \A u \in batch[a] : t <= u

\* run_task ends "done" or "failed", a scan always "done"; but what a scan prints
\* may not be the list the server expects ("garbled").
Verdicts(t) == {"done", IF profile[t] = NoProfile THEN "failed" ELSE "garbled"}

\* run_task on the next task of the batch and the POST of its verdict.
Exec(a, s) ==
  /\ pc[a] = "work"
  /\ \E t \in batch[a] : \E v \in Verdicts(t) :
       /\ NextTask(a, t)
       /\ runs' = [runs EXCEPT ![t] = @ + 1]
       /\ batch' = [batch EXCEPT ![a] = @ \ {t}]
       /\ Send(a, s, [st |-> "new", kind |-> "result", row |-> mem[a],
                      tasks |-> {t}, verdict |-> v], "result")
  /\ UNCHANGED <<dbHosts, dbTasks, dbScans, conf, mem>>

\* Any exception ends the turn: the rest of the batch is forgotten.
GiveUp(a) ==
  /\ pc' = [pc EXCEPT ![a] = "idle"]
  /\ batch' = [batch EXCEPT ![a] = {}]
  /\ cur' = [cur EXCEPT ![a] = NoSlot]
  /\ UNCHANGED <<conf, mem>>

\* run_task raises, after it may have done its work.
ExecRaises(a) ==
  /\ "raise" \in Faults
  /\ pc[a] = "work"
  /\ \E t \in batch[a] : /\ NextTask(a, t)
                         /\ runs' = [runs EXCEPT ![t] = @ + 1]
  /\ GiveUp(a)
  /\ UNCHANGED <<dbHosts, dbTasks, dbScans, rq>>

\* The answer arrives.  An HTTP error is an exception in the loop.
Receive(a) ==
  /\ Waiting(a)
  /\ LET s == cur[a] IN
     /\ rq[s].st \in {"ok", "err"}
     /\ rq' = [rq EXCEPT ![s] = FreeSlot]
     /\ IF rq[s].st = "err" THEN GiveUp(a)
        ELSE LET todo == IF pc[a] = "checkin" THEN rq[s].tasks ELSE batch[a] IN
             /\ batch' = [batch EXCEPT ![a] = todo]
             /\ pc' = [pc EXCEPT ![a] = IF todo = {} THEN "idle" ELSE "work"]
             /\ cur' = [cur EXCEPT ![a] = NoSlot]
             /\ UNCHANGED <<conf, mem>>
  /\ UNCHANGED <<dbHosts, dbTasks, dbScans, runs>>

\* The request of a, or its answer, is lost on the way.
Lose(a) == rq' = [rq EXCEPT ![cur[a]] = FreeSlot]

\* The server goes on with the request of a, for nobody.
Outlive(a) == /\ "straggler" \in Faults
              /\ rq[cur[a]].st \in {"new", "read"}
              /\ UNCHANGED rq

\* Connection error, lost answer or the 30 s timeout of api().
Timeout(a) ==
  /\ Waiting(a)
  /\ ("loss" \in Faults /\ Lose(a)) \/ Outlive(a)
  /\ GiveUp(a)
  /\ UNCHANGED <<dbHosts, dbTasks, dbScans, runs>>

\* The machine stops: power loss, a reboot, systemctl stop.
Crash(a) ==
  /\ "crash" \in Faults
  /\ pc[a] # "down"
  /\ IF Waiting(a) THEN Lose(a) \/ Outlive(a) ELSE UNCHANGED rq
  /\ pc' = [pc EXCEPT ![a] = "down"]
  /\ batch' = [batch EXCEPT ![a] = {}]
  /\ cur' = [cur EXCEPT ![a] = NoSlot]
  /\ UNCHANGED <<conf, mem, dbHosts, dbTasks, dbScans, runs>>

\* main(): a new process reads the conf file, and exits without one.
Restart(a) ==
  /\ pc[a] = "down"
  /\ conf[a] # NoRow
  /\ pc' = [pc EXCEPT ![a] = "idle"]
  /\ mem' = [mem EXCEPT ![a] = conf[a]]
  /\ UNCHANGED <<conf, batch, cur, dbHosts, dbTasks, dbScans, rq, runs>>

-------------------------------------------------------------------------------
(* The agent API, in the steps other requests can see.                       *)

Answer(s, st) == rq' = [rq EXCEPT ![s].st = st]

\* The pending tasks of host r.
Due_Resends(r) == {t \in Tasks : status[t] \in {"pending", "sent"} /\ owner[t] = r}
Due_AnyHost(r) == {t \in Tasks : status[t] = "pending"}
Due_OneAtATime(r) ==
  {t \in Tasks : /\ status[t] = "pending" /\ owner[t] = r
                 /\ \A u \in Tasks : owner[u] = r => status[u] # "sent"}
Due(r) == {t \in Tasks : status[t] = "pending" /\ owner[t] = r}

\* checkin: authenticate and read the pending tasks of the host.
CheckinRead(s) ==
  /\ rq[s].st = "new" /\ rq[s].kind = "checkin"
  /\ rq' = [rq EXCEPT ![s] =
              IF @.row \in live
              THEN [@ EXCEPT !.st = "read", !.tasks = Due(rq[s].row)]
              ELSE [@ EXCEPT !.st = "err"]]
  /\ UNCHANGED <<dbHosts, dbTasks, dbScans, agents, runs>>

\* checkin: mark what was read as sent, whatever it has become, and answer with
\* it.  The UPDATE of a row deleted since fails and rolls back.
CheckinCommit(s) ==
  /\ rq[s].st = "read"
  /\ IF rq[s].row \in live
     THEN /\ status' = [t \in Tasks |-> IF t \in rq[s].tasks THEN "sent" ELSE status[t]]
          /\ Answer(s, "ok")
     ELSE /\ Answer(s, "err")
          /\ UNCHANGED status
  /\ UNCHANGED <<owner, profile, lastTask, dbHosts, dbScans, agents, runs>>

\* The status that verdict q becomes: "done", and for a scan only if its output
\* parses, else "failed".
Recorded_Raw(q) == q.verdict
Recorded_Unparsed(q) == IF q.verdict = "failed" THEN "failed" ELSE "done"
Recorded_Retry(q) == IF q.verdict = "done" THEN "done" ELSE "pending"
Recorded(q) == IF q.verdict = "done" THEN "done" ELSE "failed"

\* Does verdict q on task t come with a ComplianceResult?
WithResult(q, t) == q.verdict = "done" /\ profile[t] # NoProfile

\* Is the verdict of request q on task t stored?  The commit is one: a result
\* row for a profile deleted since fails it as a whole.
Storable(q, t) ==
  /\ q.row \in live
  /\ owner[t] = q.row
  /\ WithResult(q, t) => profile[t] \in profiles

\* The reports take the ComplianceResult with the highest id.
Newest_First(old, new) == IF old = 0 THEN new ELSE old
Newest(old, new) == new

\* result: the verdict and the ComplianceResult of a scan.
ResultCommit(s) ==
  LET q == rq[s] IN
  /\ q.st = "new" /\ q.kind = "result"
  /\ \E t \in q.tasks :
       IF Storable(q, t)
       THEN /\ status' = [status EXCEPT ![t] = Recorded(q)]
            /\ latest' = IF WithResult(q, t)
                         THEN [latest EXCEPT ![<<q.row, profile[t]>>] = Newest(@, t)]
                         ELSE latest
            /\ Answer(s, "ok")
       ELSE /\ Answer(s, "err")
            /\ UNCHANGED <<status, latest>>
  /\ UNCHANGED <<owner, profile, lastTask, profiles, dbHosts, agents, runs>>

\* An answer nobody waits for is dropped.
Reap(s) ==
  /\ rq[s].st \in {"ok", "err"}
  /\ \A a \in Agents : cur[a] # s
  /\ rq' = [rq EXCEPT ![s] = FreeSlot]
  /\ UNCHANGED <<dbHosts, dbTasks, dbScans, agents, runs>>

-------------------------------------------------------------------------------
Operator ==
  \/ \E r \in Rows, p \in profiles \cup {NoProfile} : NewTask(r, p)
  \/ \E ubuntu \in BOOLEAN, p \in Profiles : ScanAll(ubuntu, p)
  \/ PushSources
  \/ \E r \in Rows : HostDelete(r)
  \/ \E p \in Profiles : ProfileDelete(p)

Agent(a) ==
  \/ Enroll(a)
  \/ \E s \in Slots : Checkin(a, s) \/ Exec(a, s)
  \/ ExecRaises(a)
  \/ Receive(a)
  \/ Timeout(a)
  \/ Crash(a)
  \/ Restart(a)

Handler(s) == CheckinRead(s) \/ CheckinCommit(s) \/ ResultCommit(s) \/ Reap(s)

Next == \/ Operator
        \/ \E a \in Agents : Agent(a)
        \/ \E s \in Slots : Handler(s)

Spec == Init /\ [][Next]_vars

\* The loop of an agent and the handlers keep going; a request repeated for
\* ever is some day served.  No operator, no crash and no enrollment is forced.
Fairness ==
  /\ \A a \in Agents : /\ SF_vars(\E s \in Slots : Checkin(a, s))
                       /\ SF_vars(\E s \in Slots : Exec(a, s))
                       /\ WF_vars(Receive(a))
                       /\ WF_vars(Restart(a))
  /\ \A s \in Slots : /\ SF_vars(CheckinRead(s))
                      /\ SF_vars(CheckinCommit(s))
                      /\ WF_vars(ResultCommit(s))
                      /\ WF_vars(Reap(s))

FairSpec == Spec /\ Fairness
-------------------------------------------------------------------------------
(* Properties.                                                               *)

\* No task is executed twice, whatever is lost, retried, overlapped or
\* restarted: "pending" is read by check-ins that may overlap (agent.py:95-101)
\* and no retry re-queues a task.
AtMostOnce == \A t \in Tasks : runs[t] <= 1

\* A machine only ever holds tasks queued for it, across deletion of its host
\* row and enrollment under a new one (auth_host and the WHERE of checkin).
OwnTasksOnly == \A a \in Agents : \A t \in batch[a] : machine[owner[t]] = a

\* A scan shown as done has its result row, unless its host or profile is gone:
\* verdict and result commit together (agent.py:120-137).
ScanRecorded ==
  \A t \in Tasks : status[t] = "done" /\ profile[t] \in profiles
                     => latest[<<owner[t], profile[t]>>] # 0

\* The report shows, for each host and profile, a result no older than any scan
\* shown as done: "latest result per host+profile" (ui.py:258).
LatestScanWins ==
  \A t \in Tasks : status[t] = "done" /\ profile[t] \in profiles
                     => latest[<<owner[t], profile[t]>>] >= t

\* A host executes its tasks in the order in which operators queued them, that
\* of the ids: a task never starts after one queued behind it, across lost and
\* late answers, crashes and overlapping check-ins (order_by in checkin, the for
\* of loop).
InOrder ==
  [][\A t \in Tasks : runs'[t] > runs[t] =>
       \A u \in Tasks : u > t /\ owner[u] = owner[t] => runs[u] = 0]_vars

\* Task.status only moves forward: "pending -> sent -> done | failed"
\* (models.py:86).
StatusForward ==
  [][\A t \in Tasks : status'[t] # status[t] =>
       \/ status'[t] = "gone"
       \/ <<status[t], status'[t]>> \in
            {<<"none", "pending">>, <<"pending", "sent">>,
             <<"sent", "done">>, <<"sent", "failed">>}]_vars

\* A task queued for a machine whose agent runs with that host's credentials is
\* handed out (or deleted): losing check-ins delays it only.
PendingDelivered ==
  \A t \in Tasks, a \in Agents :
    (status[t] = "pending" /\ pc[a] # "down" /\ Me(a) = owner[t])
      ~> (status[t] # "pending" \/ Me(a) # owner[t])

\* A task handed out gets a verdict or is deleted.
SentResolved ==
  \A t \in Tasks : status[t] = "sent" ~> status[t] \in {"done", "failed", "gone"}

\* Between operators and agents lies the life cycle of TaskLifecycle.
Lifecycle == INSTANCE TaskLifecycle WITH Tasks <- Tasks
LifecycleSpec == Lifecycle!LSpec
===============================================================================
