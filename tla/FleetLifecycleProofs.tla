------------------------- MODULE FleetLifecycleProofs -------------------------
(***************************************************************************)
(* Theorems about FleetTasks as long as no request outlives the agent that *)
(* sent it (Faults without "straggler"; losses, crashes and raising tasks  *)
(* remain): the channel implements TaskLifecycle, and the newest scan is   *)
(* the one shown.  With abandoned requests neither holds.                  *)
(***************************************************************************)
EXTENDS FleetOrderProofs

NoStraggler == "straggler" \notin Faults

\* Every request under way has its sender waiting for it.
Served == \A s \in Slots : rq[s].st # "free" => \E a \in Agents : cur[a] = s

\* Tasks are deleted with their host, which never comes back.
Removed == \A t \in Tasks : status[t] = "gone" => owner[t] \notin live

\* The tasks of a request are as far as the request is, or deleted.
Handed ==
  \A a \in Agents :
    /\ \A t \in batch[a] : status[t] \in {"sent", "gone"}
    /\ Waiting(a) => \A t \in rq[cur[a]].tasks :
         /\ rq[cur[a]].st = "read" => status[t] \in {"pending", "gone"}
         /\ pc[a] = "checkin" /\ rq[cur[a]].st = "ok" => status[t] \in {"sent", "gone"}
         /\ pc[a] = "result" /\ rq[cur[a]].st = "new" => status[t] \in {"sent", "gone"}

SInv == Served /\ Removed /\ Handed

\* No request is under way at first.
LEMMA SInit == Init => SInv
BY FleetAssumption DEF Init, SInv, Served, Removed, Handed, Waiting, FreeSlot, Rows, Tasks,
   NoRow

\* The request a handler works on is the one its sender waits for.
LEMMA Sender ==
  ASSUME IInv, SInv, NEW s \in Slots, rq[s].st # "free"
  PROVE  \E a \in Agents : cur[a] = s /\ Waiting(a)
BY FleetAssumption DEF IInv, Awaited, SInv, Served, Waiting

\* What two agents have, in their batches or requests, belongs to different hosts.
LEMMA Apart ==
  ASSUME IInv, OInv, NEW a \in Agents, NEW b \in Agents, a # b,
         NEW t \in Tasks, owner[t] = mem[a], status[t] # "none"
  PROVE  t \notin batch[b] /\ (Waiting(b) => t \notin rq[cur[b]].tasks)
BY OwnHost DEF IInv, Todo, OInv, Ahead

\* Steps that leave the tasks alone: every agent has what it had, or less, or the
\* answer it waited for, or what is pending for its host.
LEMMA SSame ==
  ASSUME IInv, OInv, SInv, UNCHANGED status,
         \A t \in Tasks : owner'[t] = owner[t] /\ (owner[t] \in live' => owner[t] \in live),
         \A s \in Slots : rq'[s].st # "free" => \E a \in Agents : cur'[a] = s,
         \A a \in Agents : \A t \in batch'[a] :
            \/ t \in batch[a]
            \/ /\ Waiting(a) /\ pc[a] = "checkin" /\ rq[cur[a]].st = "ok"
               /\ t \in rq[cur[a]].tasks,
         \A a \in Agents : Waiting(a)' =>
            \A t \in rq'[cur'[a]].tasks :
               \/ rq'[cur'[a]].st = "err"
               \/ rq'[cur'[a]].st = "read" /\ status[t] = "pending"
               \/ pc'[a] = "result" /\ rq'[cur'[a]].st = "new" /\ t \in batch[a]
               \/ Waiting(a) /\ pc'[a] = pc[a] /\ rq'[cur'[a]] = rq[cur[a]]
  PROVE  SInv'
<1>1. Served'
  BY DEF Served
<1>2. Removed'
  BY DEF SInv, Removed
<1>3. ASSUME NEW a \in Agents, NEW t \in batch'[a]
      PROVE  status'[t] \in {"sent", "gone"}
  BY DEF SInv, Handed
<1>4. ASSUME NEW a \in Agents, Waiting(a)', NEW t \in rq'[cur'[a]].tasks
      PROVE  /\ rq'[cur'[a]].st = "read" => status'[t] \in {"pending", "gone"}
             /\ pc'[a] = "checkin" /\ rq'[cur'[a]].st = "ok" => status'[t] \in {"sent", "gone"}
             /\ pc'[a] = "result" /\ rq'[cur'[a]].st = "new" => status'[t] \in {"sent", "gone"}
  BY <1>4 DEF SInv, Handed
<1> QED BY <1>1, <1>2, <1>3, <1>4 DEF SInv, Handed

-------------------------------------------------------------------------------
\* A new task is in no batch and no request.
LEMMA SInsert ==
  ASSUME IInv, OInv, SInv, NEW R \in SUBSET live, NEW p \in Profiles \cup {NoProfile},
         InsertTasks(R, p)
  PROVE  SInv'
<1> DEFINE new == lastTask + 1 .. lastTask + Cardinality(R)
<1> USE FleetAssumption DEF Rows, Tasks, NoRow
<1>1. Cardinality(R) \in Nat \ {0}
  BY RowsCount DEF IInv, InsertTasks
<1>2. PICK f \in [new -> R] :
        owner' = [t \in Tasks |-> IF t \in new THEN f[t] ELSE owner[t]]
  BY DEF InsertTasks
<1>3. /\ new \subseteq Tasks
      /\ status' = [t \in Tasks |-> IF t \in new THEN "pending" ELSE status[t]]
      /\ UNCHANGED <<live, pc, batch, cur, rq>>
  BY DEF InsertTasks, dbHosts, dbScans, agents
<1>4. \A t \in new : t \in Tasks /\ status[t] = "none"
  BY <1>1, <1>3 DEF IInv, TypeOK, Known
<1>5. \A t \in Tasks : status[t] # "none" => status'[t] = status[t] /\ owner'[t] = owner[t]
  BY <1>2, <1>3, <1>4
<1>6. Served'
  BY <1>3 DEF SInv, Served
<1>7. Removed'
  <2>1. \A t \in Tasks : status'[t] = "gone" => status[t] = "gone"
    BY <1>3
  <2> QED BY <1>3, <1>5, <2>1 DEF SInv, Removed
<1>8. ASSUME NEW a \in Agents, NEW t \in batch[a]
      PROVE  status'[t] \in {"sent", "gone"}
  BY <1>5 DEF SInv, Handed, IInv, TypeOK, Todo
<1>9. ASSUME NEW a \in Agents, Waiting(a), NEW t \in rq[cur[a]].tasks
      PROVE  status'[t] = status[t]
  <2>1. t \in Tasks /\ status[t] # "none"
    BY <1>9, OwnRequest DEF Request, OInv, Ahead
  <2> QED BY <1>5, <2>1
<1>10. Handed'
  BY <1>3, <1>8, <1>9 DEF SInv, Handed, Waiting
<1> QED BY <1>6, <1>7, <1>10 DEF SInv

\* The tasks of a deleted host are gone, wherever they are held.
LEMMA SHostDelete ==
  ASSUME IInv, OInv, SInv, NEW r \in Rows, HostDelete(r)
  PROVE  SInv'
<1>1. /\ status' = [t \in Tasks |-> IF owner[t] = r THEN "gone" ELSE status[t]]
      /\ live' = live \ {r}
      /\ UNCHANGED <<owner, pc, batch, cur, rq>>
  BY DEF HostDelete, agents
<1>2. /\ \A a \in Agents : batch[a] \subseteq Tasks
      /\ \A a \in Agents : Waiting(a) => rq[cur[a]].tasks \subseteq Tasks
  BY OwnRequest DEF IInv, TypeOK, Request
<1>3. \A t \in Tasks : status'[t] = "gone" \/ status'[t] = status[t]
  BY <1>1
<1>4. Served' /\ Removed'
  BY <1>1 DEF SInv, Served, Removed
<1>5. Handed'
  BY <1>1, <1>2, <1>3 DEF SInv, Handed, Waiting
<1> QED BY <1>4, <1>5 DEF SInv

\* What operators do leaves every request with its sender.
LEMMA SOperator == IInv /\ OInv /\ SInv /\ Operator => SInv'
<1> SUFFICES ASSUME IInv, OInv, SInv, Operator PROVE SInv'
  OBVIOUS
<1>1. ASSUME NEW r \in Rows, NEW p \in profiles \cup {NoProfile}, NewTask(r, p)
      PROVE  SInv'
  BY <1>1, SInsert DEF NewTask, IInv, TypeOK
<1>2. ASSUME NEW ubuntu \in BOOLEAN, NEW p \in Profiles, ScanAll(ubuntu, p)
      PROVE  SInv'
  <2>1. {r \in live : Ubuntu(r) = ubuntu} \in SUBSET live
    OBVIOUS
  <2> QED BY <1>2, <2>1, SInsert DEF ScanAll
<1>3. CASE PushSources
  <2>1. {r \in live : Ubuntu(r)} \in SUBSET live
    OBVIOUS
  <2> QED BY <1>3, <2>1, SInsert DEF PushSources
<1>4. ASSUME NEW p \in Profiles, ProfileDelete(p) PROVE SInv'
  BY <1>4 DEF ProfileDelete, dbHosts, dbTasks, agents, SInv, Served, Removed, Handed, Waiting
<1> QED BY <1>1, <1>2, <1>3, <1>4, SHostDelete DEF Operator

-------------------------------------------------------------------------------
\* Enrolling takes a row that was never live.
LEMMA SEnroll ==
  ASSUME IInv, OInv, SInv, NEW a \in Agents, Enroll(a)
  PROVE  SInv'
<1>1. /\ UNCHANGED <<batch, cur, status, owner, rq>>
      /\ \A b \in Agents : Waiting(b)' => Waiting(b) /\ pc'[b] = pc[b]
  BY DEF Enroll, Install, dbTasks, IInv, TypeOK, Waiting
<1>2. live' = live \/ live' = live \cup {lastRow + 1}
  BY DEF Enroll, EnrollRow, dbHosts
<1>3. \A t \in Tasks : owner[t] \in live' => owner[t] \in live
  BY <1>2, FleetAssumption DEF IInv, TypeOK, Rows
<1> QED BY <1>1, <1>3 DEF SInv, Served, Removed, Handed

\* A check-in has a sender that waits for it.
LEMMA SCheckin ==
  ASSUME IInv, OInv, SInv, NEW a \in Agents, NEW s \in Slots, Checkin(a, s)
  PROVE  SInv'
<1>1. /\ pc[a] = "idle" /\ rq[s].st = "free"
      /\ rq' = [rq EXCEPT ![s] = [st |-> "new", kind |-> "checkin", row |-> Me(a),
                                  tasks |-> {}, verdict |-> "done"]]
      /\ cur' = [cur EXCEPT ![a] = s]
      /\ pc' = [pc EXCEPT ![a] = "checkin"]
      /\ UNCHANGED <<status, owner, live, batch>>
  BY DEF Checkin, Send, dbTasks, dbHosts
<1>2. cur[a] = NoSlot /\ NoSlot \notin Slots
  BY <1>1, AtRest, FleetAssumption
<1>3. \A r \in Slots : (r = s /\ rq'[r].tasks = {}) \/ (r # s /\ rq'[r] = rq[r])
  BY <1>1 DEF IInv, TypeOK
<1>4. ASSUME NEW r \in Slots, rq'[r].st # "free"
      PROVE  \E b \in Agents : cur'[b] = r
  <2>1. CASE r = s
    BY <1>1, <2>1 DEF IInv, TypeOK
  <2>2. CASE r # s
    <3>1. PICK b \in Agents : cur[b] = r
      BY <1>3, <1>4, <2>2 DEF SInv, Served
    <3>2. b # a /\ cur'[b] = cur[b]
      BY <1>1, <1>2, <3>1 DEF IInv, TypeOK
    <3> QED BY <3>1, <3>2
  <2> QED BY <2>1, <2>2
<1>5. ASSUME NEW b \in Agents, Waiting(b)', NEW t \in rq'[cur'[b]].tasks
      PROVE  Waiting(b) /\ pc'[b] = pc[b] /\ rq'[cur'[b]] = rq[cur[b]]
  <2>1. b # a
    BY <1>1, <1>5 DEF IInv, TypeOK
  <2>2. Waiting(b) /\ pc'[b] = pc[b] /\ cur'[b] = cur[b] /\ cur[b] \in Slots
    BY <1>1, <1>5, <2>1 DEF IInv, TypeOK, Awaited, Waiting
  <2> QED BY <1>3, <1>5, <2>2
<1> QED BY <1>1, <1>4, <1>5, SSame

\* A task that is executed leaves the batch; its verdict finds it sent, or gone.
LEMMA SExec ==
  ASSUME IInv, OInv, SInv, NEW a \in Agents, NEW s \in Slots, Exec(a, s)
  PROVE  SInv'
<1>1. PICK t \in batch[a], v \in {"done", "failed", "garbled"} :
        /\ batch' = [batch EXCEPT ![a] = @ \ {t}]
        /\ rq[s].st = "free"
        /\ rq' = [rq EXCEPT ![s] = [st |-> "new", kind |-> "result", row |-> mem[a],
                                    tasks |-> {t}, verdict |-> v]]
        /\ cur' = [cur EXCEPT ![a] = s]
        /\ pc' = [pc EXCEPT ![a] = "result"]
  BY DEF Exec, Send, Verdicts
<1>2. pc[a] = "work" /\ UNCHANGED <<status, owner, live>>
  BY DEF Exec, dbTasks, dbHosts
<1>3. cur[a] = NoSlot /\ NoSlot \notin Slots
  BY <1>2, FleetAssumption DEF IInv, Awaited
<1>4. \A r \in Slots : \/ r # s /\ rq'[r] = rq[r]
                       \/ r = s /\ rq'[r].tasks = {t} /\ rq'[r].st = "new"
  BY <1>1 DEF IInv, TypeOK
<1>5. ASSUME NEW r \in Slots, rq'[r].st # "free"
      PROVE  \E b \in Agents : cur'[b] = r
  <2>1. CASE r = s
    BY <1>1, <2>1 DEF IInv, TypeOK
  <2>2. CASE r # s
    <3>1. PICK b \in Agents : cur[b] = r
      BY <1>4, <1>5, <2>2 DEF SInv, Served
    <3>2. b # a /\ cur'[b] = cur[b]
      BY <1>1, <1>3, <3>1 DEF IInv, TypeOK
    <3> QED BY <3>1, <3>2
  <2> QED BY <2>1, <2>2
<1>6. ASSUME NEW b \in Agents, Waiting(b)', NEW u \in rq'[cur'[b]].tasks
      PROVE  \/ pc'[b] = "result" /\ rq'[cur'[b]].st = "new" /\ u \in batch[b]
             \/ Waiting(b) /\ pc'[b] = pc[b] /\ rq'[cur'[b]] = rq[cur[b]]
  <2>1. CASE b = a
    BY <1>1, <1>4, <1>6, <2>1 DEF IInv, TypeOK
  <2>2. CASE b # a
    <3>1. /\ Waiting(b) /\ pc'[b] = pc[b] /\ cur'[b] = cur[b]
          /\ cur[b] \in Slots /\ cur[b] # s
      BY <1>1, <1>6, <2>2 DEF IInv, TypeOK, Awaited, Waiting
    <3> QED BY <1>4, <3>1
  <2> QED BY <2>1, <2>2
<1>7. \A b \in Agents : \A u \in batch'[b] : u \in batch[b]
  BY <1>1 DEF IInv, TypeOK
<1> QED BY <1>2, <1>5, <1>6, <1>7, SSame

\* An agent forgets its batch, and the request it waited for is gone.
LEMMA SForget ==
  ASSUME IInv, OInv, SInv, NEW a \in Agents, NEW to \in {"idle", "down"},
         pc' = [pc EXCEPT ![a] = to],
         batch' = [batch EXCEPT ![a] = {}],
         cur' = [cur EXCEPT ![a] = NoSlot],
         rq' = IF Waiting(a) THEN [rq EXCEPT ![cur[a]] = FreeSlot] ELSE rq,
         UNCHANGED <<status, owner, live>>
  PROVE  SInv'
<1>1. Waiting(a) \/ cur[a] = NoSlot
  BY DEF IInv, Awaited, Waiting
<1>2. \A s \in Slots : \/ s = cur[a] /\ rq'[s].st = "free"
                       \/ s # cur[a] /\ rq'[s] = rq[s]
  BY <1>1, FleetAssumption DEF IInv, TypeOK, FreeSlot
<1>3. ASSUME NEW s \in Slots, rq'[s].st # "free"
      PROVE  \E b \in Agents : cur'[b] = s
  <2>1. PICK b \in Agents : cur[b] = s
    BY <1>2, <1>3 DEF SInv, Served
  <2>2. b # a /\ cur'[b] = cur[b]
    BY <1>2, <1>3, <2>1 DEF IInv, TypeOK
  <2> QED BY <2>1, <2>2
<1>4. ASSUME NEW b \in Agents, Waiting(b)'
      PROVE  Waiting(b) /\ pc'[b] = pc[b] /\ rq'[cur'[b]] = rq[cur[b]]
  <2>1. b # a /\ Waiting(b) /\ pc'[b] = pc[b] /\ cur'[b] = cur[b]
    BY <1>4 DEF IInv, TypeOK, Waiting
  <2>2. cur[b] \in Slots /\ cur[b] # cur[a]
    BY <2>1, <1>1, OwnRequest, FleetAssumption
  <2> QED BY <1>2, <2>1, <2>2
<1>5. \A b \in Agents : \A t \in batch'[b] : t \in batch[b]
  BY DEF IInv, TypeOK
<1> QED BY <1>3, <1>4, <1>5, SSame

\* The batch of an answer is sent or gone.
LEMMA SReceive ==
  ASSUME IInv, OInv, SInv, NEW a \in Agents, Receive(a)
  PROVE  SInv'
<1> DEFINE s == cur[a]
           todo == IF pc[a] = "checkin" THEN rq[s].tasks ELSE batch[a]
<1>1. /\ Waiting(a) /\ s \in Slots /\ rq[s].st \in {"ok", "err"}
      /\ rq' = [rq EXCEPT ![s] = FreeSlot]
      /\ UNCHANGED <<status, owner, live>>
  BY OwnRequest DEF Receive, GiveUp, dbTasks, dbHosts
<1>2. CASE rq[s].st = "err"
  BY <1>1, <1>2, SForget DEF Receive, GiveUp
<1>3. CASE rq[s].st = "ok"
  <2>1. /\ batch' = [batch EXCEPT ![a] = todo]
        /\ pc' = [pc EXCEPT ![a] = IF todo = {} THEN "idle" ELSE "work"]
        /\ cur' = [cur EXCEPT ![a] = NoSlot]
    BY <1>1, <1>3 DEF Receive
  <2>2. \A r \in Slots : (r = s /\ rq'[r].st = "free") \/ (r # s /\ rq'[r] = rq[r])
    BY <1>1 DEF IInv, TypeOK, FreeSlot
  <2>3. \A b \in Agents : \A t \in batch'[b] :
            \/ t \in batch[b]
            \/ /\ Waiting(b) /\ pc[b] = "checkin" /\ rq[cur[b]].st = "ok"
               /\ t \in rq[cur[b]].tasks
    BY <1>1, <1>3, <2>1 DEF IInv, TypeOK
  <2>4. ASSUME NEW r \in Slots, rq'[r].st # "free"
        PROVE  \E b \in Agents : cur'[b] = r
    <3>1. PICK b \in Agents : cur[b] = r
      BY <2>2, <2>4 DEF SInv, Served
    <3>2. b # a /\ cur'[b] = cur[b]
      BY <2>1, <2>2, <2>4, <3>1 DEF IInv, TypeOK
    <3> QED BY <3>1, <3>2
  <2>5. ASSUME NEW b \in Agents, Waiting(b)'
        PROVE  Waiting(b) /\ pc'[b] = pc[b] /\ rq'[cur'[b]] = rq[cur[b]]
    <3>1. b # a /\ Waiting(b) /\ pc'[b] = pc[b] /\ cur'[b] = cur[b]
      BY <2>1, <2>5 DEF IInv, TypeOK, Waiting
    <3>2. cur[b] \in Slots /\ cur[b] # s
      BY <1>1, <3>1, OwnRequest
    <3> QED BY <2>2, <3>1, <3>2
  <2> QED BY <1>1, <2>3, <2>4, <2>5, SSame
<1> QED BY <1>1, <1>2, <1>3

\* A machine that comes back holds no task.
LEMMA SRestart ==
  ASSUME IInv, OInv, SInv, NEW a \in Agents, Restart(a)
  PROVE  SInv'
<1>1. /\ UNCHANGED <<batch, cur, status, owner, live, rq>>
      /\ \A b \in Agents : Waiting(b)' => Waiting(b) /\ pc'[b] = pc[b]
  BY DEF Restart, dbTasks, dbHosts, IInv, TypeOK, Waiting
<1> QED BY <1>1 DEF SInv, Served, Removed, Handed

\* The only steps in which the assumption matters: an agent that gives up, or
\* stops, takes its request with it.
LEMMA SAgent ==
  ASSUME NoStraggler, IInv, OInv, SInv, NEW a \in Agents, Agent(a)
  PROVE  SInv'
<1>1. CASE ExecRaises(a)
  BY <1>1, SForget DEF ExecRaises, GiveUp, Waiting, dbTasks, dbHosts
<1>2. CASE Timeout(a)
  BY <1>2, SForget DEF Timeout, GiveUp, Lose, Outlive, NoStraggler, dbTasks, dbHosts
<1>3. CASE Crash(a)
  BY <1>3, SForget DEF Crash, Lose, Outlive, NoStraggler, dbTasks, dbHosts
<1> QED BY <1>1, <1>2, <1>3, SEnroll, SCheckin, SExec, SReceive, SRestart DEF Agent

-------------------------------------------------------------------------------
\* What a check-in reads is pending.
LEMMA SCheckinRead ==
  ASSUME IInv, OInv, SInv, NEW s \in Slots, CheckinRead(s)
  PROVE  SInv'
<1>1. /\ rq[s].st = "new" /\ rq[s] \in Request
      /\ UNCHANGED <<status, owner, live, pc, batch, cur>>
  BY DEF CheckinRead, dbTasks, dbHosts, agents, IInv, TypeOK
<1>2. /\ \/ rq'[s].tasks = Due(rq[s].row) /\ rq'[s].st = "read"
         \/ rq'[s].st = "err"
      /\ \A r \in Slots : r # s => rq'[r] = rq[r]
  <2>1. CASE rq[s].row \in live
    BY <1>1, <2>1 DEF CheckinRead, IInv, TypeOK, Request
  <2>2. CASE rq[s].row \notin live
    BY <1>1, <2>2 DEF CheckinRead, IInv, TypeOK, Request
  <2> QED BY <2>1, <2>2
<1>3. \A r \in Slots : rq'[r].st # "free" => rq[r].st # "free"
  BY <1>1, <1>2
<1>4. ASSUME NEW a \in Agents, Waiting(a)', NEW t \in rq'[cur'[a]].tasks
      PROVE  \/ rq'[cur'[a]].st = "err"
             \/ rq'[cur'[a]].st = "read" /\ status[t] = "pending"
             \/ Waiting(a) /\ pc'[a] = pc[a] /\ rq'[cur'[a]] = rq[cur[a]]
  <2>1. Waiting(a) /\ cur[a] \in Slots /\ cur'[a] = cur[a] /\ pc'[a] = pc[a]
    BY <1>1, <1>4, OwnRequest DEF Waiting
  <2> QED BY <1>2, <1>4, <2>1 DEF Due
<1> QED BY <1>1, <1>3, <1>4, SSame DEF SInv, Served

\* The other handlers answer the request of agent a and give tasks of it, which a
\* does not hold in its batch, another status.
LEMMA SAnswer ==
  ASSUME IInv, OInv, SInv, NEW s \in Slots, NEW a \in Agents, cur[a] = s, Waiting(a),
         rq[s].st # "free", NEW st \in {"ok", "err"}, rq' = [rq EXCEPT ![s].st = st],
         NEW T \in SUBSET Tasks, \A t \in T : t \in rq[s].tasks /\ t \notin batch[a],
         NEW v \in {"sent", "done", "failed"},
         status' = [t \in Tasks |-> IF t \in T THEN v ELSE status[t]],
         pc[a] = "checkin" /\ st = "ok" =>
            \A t \in rq[s].tasks : t \in T /\ v = "sent",
         UNCHANGED <<owner, live, pc, batch, cur>>
  PROVE  SInv'
<1>1. \A r \in Slots : \/ r # s /\ rq'[r] = rq[r]
                       \/ r = s /\ rq'[r].st = st /\ rq'[r].tasks = rq[r].tasks
  BY DEF IInv, TypeOK, Request
<1>2. Served'
  BY <1>1 DEF SInv, Served
<1>3. Removed'
  BY DEF SInv, Removed
<1>4. \A t \in T : t \in Tasks /\ owner[t] = mem[a] /\ status[t] # "none"
  BY DEF OInv, Ahead
<1>5. /\ \A b \in Agents : batch[b] \subseteq Tasks
      /\ \A b \in Agents : Waiting(b) => /\ cur[b] \in Slots
                                         /\ rq[cur[b]].tasks \subseteq Tasks
                                         /\ b # a => cur[b] # s
  BY OwnRequest DEF IInv, TypeOK, Request
<1>6. ASSUME NEW b \in Agents, NEW t \in batch[b]
      PROVE  status'[t] \in {"sent", "gone"}
  <2>1. t \notin T
    BY <1>4, <1>6, Apart
  <2> QED BY <1>5, <2>1 DEF SInv, Handed
<1>7. ASSUME NEW b \in Agents, Waiting(b), NEW t \in rq[cur[b]].tasks
      PROVE  /\ rq'[cur[b]].st = "read" => status'[t] \in {"pending", "gone"}
             /\ pc[b] = "checkin" /\ rq'[cur[b]].st = "ok" => status'[t] \in {"sent", "gone"}
             /\ pc[b] = "result" /\ rq'[cur[b]].st = "new" => status'[t] \in {"sent", "gone"}
  <2>1. CASE b = a
    BY <1>1, <1>5, <1>7, <2>1
  <2>2. CASE b # a
    <3>1. t \notin T /\ status'[t] = status[t]
      BY <1>4, <1>5, <1>7, <2>2, Apart
    <3>2. rq'[cur[b]] = rq[cur[b]]
      BY <1>1, <1>5, <1>7, <2>2
    <3> QED BY <1>7, <3>1, <3>2 DEF SInv, Handed
  <2> QED BY <2>1, <2>2
<1>8. Handed'
  <2>1. \A b \in Agents : \A t \in batch[b] : t \in Tasks
    BY <1>5
  <2>2. \A b \in Agents : Waiting(b)' <=> Waiting(b)
    BY DEF Waiting
  <2>3. \A b \in Agents : \A t \in rq'[cur[b]].tasks : Waiting(b) => t \in rq[cur[b]].tasks
    BY <1>1, <1>5
  <2> QED BY <1>6, <1>7, <2>2, <2>3 DEF Handed
<1> QED BY <1>2, <1>3, <1>8 DEF SInv

\* The tasks of a check-in about to commit are still pending, unless it fails.
LEMMA SentPending ==
  ASSUME IInv, OInv, SInv, NEW s \in Slots, CheckinCommit(s), rq[s].row \in live
  PROVE  \A t \in rq[s].tasks : t \in Tasks /\ status[t] = "pending"
<1>1. rq[s].st = "read" /\ rq[s].tasks \subseteq Tasks
  BY DEF CheckinCommit, IInv, TypeOK, Request
<1>2. PICK a \in Agents : cur[a] = s /\ Waiting(a)
  BY <1>1, Sender
<1>3. \A t \in rq[s].tasks : /\ status[t] \in {"pending", "gone"}
                             /\ owner[t] = mem[a] /\ mem[a] = rq[s].row
  BY <1>1, <1>2, OwnRequest DEF SInv, Handed, OInv, Ahead
<1> QED BY <1>1, <1>3 DEF SInv, Removed

\* The commit finds what it read pending still, or deleted, and sends it.
LEMMA SCheckinCommit ==
  ASSUME IInv, OInv, SInv, NEW s \in Slots, CheckinCommit(s)
  PROVE  SInv'
<1>1. /\ rq[s].st = "read" /\ rq[s].kind = "checkin" /\ rq[s].tasks \in SUBSET Tasks
      /\ UNCHANGED <<owner, live, pc, batch, cur>>
      /\ status \in [Tasks -> Statuses]
  BY DEF CheckinCommit, dbHosts, agents, IInv, TypeOK, Request, Carried
<1>2. PICK a \in Agents : cur[a] = s /\ Waiting(a)
  BY <1>1, Sender
<1>3. pc[a] = "checkin" /\ batch[a] = {}
  BY <1>1, <1>2, OwnRequest DEF IInv, Todo
<1>4. CASE rq[s].row \in live
  <2>1. /\ status' = [t \in Tasks |-> IF t \in rq[s].tasks THEN "sent" ELSE status[t]]
        /\ rq' = [rq EXCEPT ![s].st = "ok"]
    BY <1>4 DEF CheckinCommit, Answer
  <2>2. \A t \in rq[s].tasks : t \in rq[s].tasks /\ t \notin batch[a]
    BY <1>3
  <2> QED BY <1>1, <1>2, <2>1, <2>2, SAnswer
<1>5. CASE rq[s].row \notin live
  <2>1. /\ status' = [t \in Tasks |-> IF t \in {} THEN "sent" ELSE status[t]]
        /\ rq' = [rq EXCEPT ![s].st = "err"]
    BY <1>1, <1>5 DEF CheckinCommit, Answer
  <2>2. {} \in SUBSET Tasks /\ \A t \in {} : t \in rq[s].tasks /\ t \notin batch[a]
    OBVIOUS
  <2> QED BY <1>1, <1>2, <2>1, <2>2, SAnswer
<1> QED BY <1>4, <1>5

\* A verdict finds its task sent, or deleted.
LEMMA SResultCommit ==
  ASSUME IInv, OInv, SInv, NEW s \in Slots, ResultCommit(s)
  PROVE  SInv'
<1>1. PICK t \in rq[s].tasks :
         /\ t \in Tasks /\ runs[t] = 1
         /\ \/ /\ status' = [u \in Tasks |-> IF u \in {t} THEN Recorded(rq[s]) ELSE status[u]]
               /\ rq' = [rq EXCEPT ![s].st = "ok"]
            \/ status' = status /\ rq' = [rq EXCEPT ![s].st = "err"]
  BY ResultEffect
<1>2. /\ rq[s].st = "new" /\ rq[s].kind = "result" /\ rq[s] \in Request
      /\ UNCHANGED <<owner, live, pc, batch, cur>>
      /\ Recorded(rq[s]) \in {"done", "failed"}
  BY ResultEffect DEF Recorded
<1>3. PICK a \in Agents : cur[a] = s /\ Waiting(a)
  BY <1>2, Sender
<1>4. pc[a] = "result" /\ {t} \cap batch[a] = {}
  BY <1>1, <1>2, <1>3, OwnRequest DEF IInv, Todo
<1>5. CASE /\ status' = [u \in Tasks |-> IF u \in {t} THEN Recorded(rq[s]) ELSE status[u]]
           /\ rq' = [rq EXCEPT ![s].st = "ok"]
  <2>1. {t} \in SUBSET Tasks /\ pc[a] # "checkin" /\ (\A u \in {t} : u \in rq[s].tasks /\ u \notin batch[a])
        /\ rq[s].st # "free"
    BY <1>1, <1>2, <1>4
  <2> QED BY <1>2, <1>3, <1>4, <1>5, <2>1, SAnswer
<1>6. CASE status' = status /\ rq' = [rq EXCEPT ![s].st = "err"]
  <2>1. status' = [u \in Tasks |-> IF u \in {} THEN "sent" ELSE status[u]]
    BY <1>6 DEF IInv, TypeOK
  <2>2. {} \in SUBSET Tasks /\ \A u \in {} : u \in rq[s].tasks /\ u \notin batch[a]
        /\ rq[s].st # "free"
    BY <1>2
  <2> QED BY <1>2, <1>3, <1>6, <2>1, <2>2, SAnswer
<1> QED BY <1>1, <1>5, <1>6

\* No slot is left to free: every request has its sender.
LEMMA SReap ==
  ASSUME IInv, OInv, SInv, NEW s \in Slots, Reap(s)
  PROVE  SInv'
<1>1. \A a \in Agents : cur[a] # s
  BY DEF Reap
<1>2. rq[s].st # "free"
  BY DEF Reap
<1> QED BY <1>1, <1>2, Sender

\* Every step keeps the invariant, if no request can be abandoned.
LEMMA SStep == NoStraggler /\ IInv /\ OInv /\ SInv /\ [Next]_vars => SInv'
<1> SUFFICES ASSUME NoStraggler, IInv, OInv, SInv, [Next]_vars PROVE SInv'
  OBVIOUS
<1>1. CASE UNCHANGED vars
  BY <1>1 DEF vars, dbHosts, dbTasks, agents, SInv, Served, Removed, Handed, Waiting
<1>2. ASSUME NEW s \in Slots, Handler(s) PROVE SInv'
  BY <1>2, SCheckinRead, SCheckinCommit, SResultCommit, SReap DEF Handler
<1> QED BY <1>1, <1>2, SOperator, SAgent DEF Next

\* The three invariants hold in every reachable state.
LEMMA SInvariance == ASSUME NoStraggler PROVE Spec => [](IInv /\ OInv /\ SInv)
BY InitInv, StepInv, OInit, OStep, SInit, SStep, PTL DEF Spec

-------------------------------------------------------------------------------
\* As long as no request outlives its agent, the result the reports show of a host
\* and profile is no older than any scan shown as done: results are stored in the
\* order in which the tasks were queued.
THEOREM NewestScanWins ==
  ASSUME "straggler" \notin Faults PROVE Spec => []LatestScanWins
<1>1. Init => LatestScanWins
  BY DEF Init, LatestScanWins
<1>2. IInv /\ OInv /\ SInv /\ LatestScanWins /\ [Next]_vars => LatestScanWins'
  <2> SUFFICES ASSUME IInv, OInv, SInv, LatestScanWins, [Next]_vars, NEW u \in Tasks,
                      status'[u] = "done", profile'[u] \in profiles'
               PROVE  latest'[<<owner'[u], profile'[u]>>] >= u
    BY DEF LatestScanWins
  <2>1. owner'[u] = owner[u] /\ profile'[u] = profile[u] /\ profile[u] \in profiles
    BY ScanStep
  <2>2. CASE /\ status[u] = "done"
             /\ latest'[<<owner[u], profile[u]>>] = latest[<<owner[u], profile[u]>>]
    BY <2>1, <2>2 DEF LatestScanWins
  <2>3. ASSUME NEW s \in Slots, NEW t \in rq[s].tasks, rq[s].st = "new",
               t \in Tasks, owner[t] = owner[u], status[u] = "done" \/ u = t,
               latest'[<<owner[u], profile[u]>>] = t
        PROVE  latest'[<<owner[u], profile[u]>>] >= u
    <3>1. PICK a \in Agents : cur[a] = s /\ Waiting(a)
      BY <2>3, Sender
    <3>2. Behind(t)
      BY <3>1 DEF OInv, Ahead
    <3>3. ~(u > t)
      BY <2>3, <3>2, FleetAssumption DEF Behind, OInv, Executed, Tasks
    <3> QED BY <2>1, <2>3, <3>3, FleetAssumption DEF Tasks
  <2> QED BY <2>2, <2>3, ScanStep
<1>3. NoStraggler
  BY DEF NoStraggler
<1> QED BY <1>1, <1>2, <1>3, SInvariance, PTL DEF Spec

\* Every step of the channel is a step of the life cycle, or changes neither
\* statuses nor executions.
LEMMA LifecycleStep ==
  IInv /\ OInv /\ SInv /\ [Next]_vars => [Lifecycle!LNext]_(Lifecycle!lvars)
<1> SUFFICES ASSUME IInv, OInv, SInv, [Next]_vars
             PROVE  Lifecycle!LNext \/ UNCHANGED <<status, runs>>
  BY DEF Lifecycle!lvars
<1> USE DEF Lifecycle!LNext, Lifecycle!Move
<1>1. ASSUME NEW R \in SUBSET live, NEW p, InsertTasks(R, p) PROVE Lifecycle!LNext
  <2> DEFINE new == lastTask + 1 .. lastTask + Cardinality(R)
  <2>1. /\ new \subseteq Tasks
        /\ status' = [t \in Tasks |-> IF t \in new THEN "pending" ELSE status[t]]
        /\ UNCHANGED runs /\ R # {}
    BY <1>1 DEF InsertTasks
  <2>2. Cardinality(R) \in Nat
    BY <2>1, RowsCount DEF IInv
  <2>3. \A t \in new : status[t] = "none"
    <3>1. \A t \in new : t > lastTask
      BY <2>2, FleetAssumption DEF IInv, TypeOK
    <3> QED BY <2>1, <3>1 DEF IInv, Known
  <2>4. Lifecycle!Queue(new)
    BY <2>1, <2>3 DEF Lifecycle!Queue
  <2> QED BY <2>1, <2>4
<1>2. ASSUME NEW r \in Rows, HostDelete(r) PROVE Lifecycle!LNext
  <2> DEFINE T == {t \in Tasks : owner[t] = r}
  <2>1. \A t \in T : status[t] # "none"
    BY FleetAssumption DEF IInv, Known, Rows, NoRow
  <2>2. status' = [t \in Tasks |-> IF t \in T THEN "gone" ELSE status[t]] /\ UNCHANGED runs
    BY <1>2 DEF HostDelete
  <2>3. Lifecycle!Purge(T)
    BY <2>1, <2>2 DEF Lifecycle!Purge
  <2> QED BY <2>3
<1>3. ASSUME NEW a \in Agents, NEW t \in batch[a], runs' = [runs EXCEPT ![t] = @ + 1],
             UNCHANGED status
      PROVE  Lifecycle!LNext
  <2>1. t \in Tasks /\ runs[t] = 0 /\ status[t] \in {"sent", "gone"}
    BY DEF IInv, TypeOK, Todo, SInv, Handed
  <2>2. Lifecycle!Run(t)
    BY <1>3, <2>1 DEF Lifecycle!Run
  <2> QED BY <2>1, <2>2
<1>4. ASSUME NEW s \in Slots, CheckinCommit(s)
      PROVE  Lifecycle!LNext \/ UNCHANGED <<status, runs>>
  <2>1. UNCHANGED runs
    BY <1>4 DEF CheckinCommit
  <2>2. CASE rq[s].row \in live
    <3>1. \A t \in rq[s].tasks : t \in Tasks /\ status[t] = "pending"
      BY <1>4, <2>2, SentPending
    <3>2. Lifecycle!Send(rq[s].tasks)
      BY <1>4, <2>1, <2>2, <3>1 DEF CheckinCommit, Lifecycle!Send
    <3> QED BY <3>1, <3>2
  <2>3. CASE rq[s].row \notin live
    BY <1>4, <2>1, <2>3 DEF CheckinCommit
  <2> QED BY <2>2, <2>3
<1>5. ASSUME NEW s \in Slots, ResultCommit(s)
      PROVE  Lifecycle!LNext \/ UNCHANGED <<status, runs>>
  <2>1. PICK t \in rq[s].tasks :
          /\ t \in Tasks /\ owner[t] = rq[s].row /\ runs[t] = 1
          /\ \/ /\ Storable(rq[s], t)
                /\ status' = [u \in Tasks |-> IF u \in {t} THEN Recorded(rq[s]) ELSE status[u]]
             \/ status' = status
    BY <1>5, ResultEffect
  <2>2. rq[s].st = "new" /\ rq[s].kind = "result" /\ UNCHANGED runs
    BY <1>5, ResultEffect
  <2>3. CASE status' = status
    BY <2>2, <2>3
  <2>4. CASE /\ Storable(rq[s], t)
             /\ status' = [u \in Tasks |-> IF u \in {t} THEN Recorded(rq[s]) ELSE status[u]]
    <3>1. PICK a \in Agents : cur[a] = s /\ Waiting(a)
      BY <2>2, Sender
    <3>2. status[t] \in {"sent", "gone"}
      BY <2>2, <3>1, OwnRequest DEF SInv, Handed
    <3>3. status[t] = "sent"
      BY <2>1, <2>4, <3>2 DEF Storable, SInv, Removed
    <3>4. Recorded(rq[s]) \in {"done", "failed"}
      BY DEF Recorded
    <3>5. Lifecycle!Report(t)
      BY <2>1, <2>2, <2>4, <3>3, <3>4 DEF Lifecycle!Report
    <3> QED BY <2>1, <3>5
  <2> QED BY <2>1, <2>3, <2>4
<1> HIDE DEF Lifecycle!LNext
<1>6. CASE Operator
  <2>1. \A ubuntu : {r \in live : Ubuntu(r) = ubuntu} \in SUBSET live
    OBVIOUS
  <2>2. {r \in live : Ubuntu(r)} \in SUBSET live
    OBVIOUS
  <2>3. ASSUME NEW p \in Profiles, ProfileDelete(p) PROVE UNCHANGED <<status, runs>>
    BY <2>3 DEF ProfileDelete, dbTasks
  <2> QED BY <1>1, <1>2, <1>6, <2>1, <2>2, <2>3 DEF Operator, NewTask, ScanAll, PushSources
<1>7. ASSUME NEW a \in Agents, Agent(a)
      PROVE  Lifecycle!LNext \/ UNCHANGED <<status, runs>>
  <2>1. CASE ExecRaises(a) \/ \E s \in Slots : Exec(a, s)
    BY <1>3, <2>1 DEF Exec, ExecRaises, dbTasks
  <2>2. CASE \/ Enroll(a) \/ Receive(a) \/ Timeout(a) \/ Crash(a) \/ Restart(a)
             \/ \E s \in Slots : Checkin(a, s)
    BY <2>2 DEF Enroll, Receive, Timeout, Crash, Restart, Checkin, dbTasks
  <2> QED BY <1>7, <2>1, <2>2 DEF Agent
<1>8. ASSUME NEW s \in Slots, CheckinRead(s) \/ Reap(s) PROVE UNCHANGED <<status, runs>>
  BY <1>8 DEF CheckinRead, Reap, dbTasks
<1>9. CASE UNCHANGED vars
  BY <1>9 DEF vars, dbTasks
<1> QED BY <1>4, <1>5, <1>6, <1>7, <1>8, <1>9 DEF Next, Handler

\* As long as no request outlives its agent, the channel implements the abstract
\* life cycle of a task: handed out only when pending, executed once, a verdict
\* only on what was handed out and executed.
THEOREM ImplementsLifecycle ==
  ASSUME "straggler" \notin Faults PROVE Spec => LifecycleSpec
<1>1. Init => Lifecycle!LInit
  BY DEF Init, Lifecycle!LInit
<1>2. NoStraggler
  BY DEF NoStraggler
<1> QED BY <1>1, <1>2, LifecycleStep, SInvariance, PTL DEF Spec, LifecycleSpec, Lifecycle!LSpec

\* So a status only moves forward, "pending -> sent -> done | failed": it is the
\* abandoned check-ins alone that break it.
THEOREM StatusMovesForward ==
  ASSUME "straggler" \notin Faults PROVE Spec => StatusForward
<1> DEFINE Step == \A t \in Tasks : status'[t] # status[t] =>
                     \/ status'[t] = "gone"
                     \/ <<status[t], status'[t]>> \in
                          {<<"none", "pending">>, <<"pending", "sent">>,
                           <<"sent", "done">>, <<"sent", "failed">>}
<1>1. IInv /\ OInv /\ SInv /\ [Next]_vars => [Step]_vars
  <2> SUFFICES ASSUME IInv, OInv, SInv, [Next]_vars, NEW t \in Tasks, status'[t] # status[t]
               PROVE  \/ status'[t] = "gone"
                      \/ <<status[t], status'[t]>> \in
                           {<<"none", "pending">>, <<"pending", "sent">>,
                            <<"sent", "done">>, <<"sent", "failed">>}
    OBVIOUS
  <2>1. Lifecycle!LNext
    BY LifecycleStep DEF Lifecycle!lvars
  <2>2. ASSUME NEW T \in SUBSET Tasks,
               Lifecycle!Queue(T) \/ Lifecycle!Send(T) \/ Lifecycle!Purge(T)
        PROVE  \/ status'[t] = "gone"
               \/ status[t] = "none" /\ status'[t] = "pending"
               \/ status[t] = "pending" /\ status'[t] = "sent"
    BY <2>2 DEF Lifecycle!Queue, Lifecycle!Send, Lifecycle!Purge, Lifecycle!Move
  <2>3. ASSUME NEW u \in Tasks, Lifecycle!Run(u) \/ Lifecycle!Report(u)
        PROVE  status[t] = "sent" /\ status'[t] \in {"done", "failed"}
    BY <2>3 DEF Lifecycle!Run, Lifecycle!Report, Lifecycle!Move
  <2> QED BY <2>1, <2>2, <2>3 DEF Lifecycle!LNext
<1>2. [][Step]_vars => StatusForward
  BY DEF StatusForward
<1>3. NoStraggler
  BY DEF NoStraggler
<1> QED BY <1>1, <1>2, <1>3, SInvariance, PTL DEF Spec
===============================================================================
