--------------------------- MODULE FleetOrderProofs ---------------------------
(***************************************************************************)
(* More theorems about FleetTasks, with any faults: in which order tasks   *)
(* are executed, and that a finished scan has its result.  They rest on    *)
(* IInv and on what is said here of tasks queued one behind the other.     *)
(***************************************************************************)
EXTENDS FleetTasksProofs

\* No task queued behind t for the same host has been executed.
Behind(t) == \A u \in Tasks : u > t /\ owner[u] = owner[t] => runs[u] = 0

\* A verdict is about a task of the host that reports it, which it has executed.
Reported ==
  \A s \in Slots : rq[s].kind = "result" =>
    \A t \in rq[s].tasks : /\ owner[t] = rq[s].row
                           /\ runs[t] # 0
                           /\ status[t] \notin {"none", "pending"}

\* Only what has been executed has a verdict.
Executed == \A t \in Tasks : status[t] \in {"done", "failed"} => runs[t] # 0

\* What is queued behind a pending task of the same host is pending.
Queued ==
  \A t, u \in Tasks :
    t < u /\ owner[t] = owner[u] /\ status[t] = "pending" => status[u] = "pending"

\* A check-in that has read a task has read what is pending in front of it.
ReadAll ==
  \A s \in Slots : rq[s].st = "read" =>
    \A u \in rq[s].tasks : \A t \in Tasks :
      t < u /\ owner[t] = owner[u] /\ status[t] = "pending" => t \in rq[s].tasks

\* Nothing behind what an agent has left to do, or waits for, has been executed.
Ahead ==
  \A a \in Agents :
    /\ \A t \in batch[a] : Behind(t)
    /\ Waiting(a) => \A t \in rq[cur[a]].tasks :
                       owner[t] = mem[a] /\ status[t] # "none" /\ Behind(t)

OInv == Reported /\ Executed /\ Queued /\ ReadAll /\ Ahead

\* Nothing is queued, read or executed at first.
LEMMA OInit == Init => OInv
BY FleetAssumption DEF Init, OInv, Reported, Executed, Queued, ReadAll, Ahead, Waiting,
   FreeSlot, Rows, Tasks, NoRow

-------------------------------------------------------------------------------
\* Queueing tasks: they are behind all others, and nobody has executed them.
LEMMA OInsert ==
  ASSUME IInv, OInv, NEW R \in SUBSET live, NEW p \in Profiles \cup {NoProfile},
         InsertTasks(R, p)
  PROVE  OInv'
<1> DEFINE new == lastTask + 1 .. lastTask + Cardinality(R)
<1> USE FleetAssumption DEF Rows, Tasks, NoRow
<1>1. Cardinality(R) \in Nat \ {0}
  BY RowsCount DEF IInv, InsertTasks
<1>2. PICK f \in [new -> R] :
        owner' = [t \in Tasks |-> IF t \in new THEN f[t] ELSE owner[t]]
  BY DEF InsertTasks
<1>3. /\ new \subseteq Tasks
      /\ status' = [t \in Tasks |-> IF t \in new THEN "pending" ELSE status[t]]
      /\ UNCHANGED <<live, lastRow, pc, mem, batch, cur, rq, runs>>
  BY DEF InsertTasks, dbHosts, dbScans, agents
<1>4. \A t \in new : t > lastTask /\ f[t] \in 1 .. lastRow
  <2>1. \A t \in new : t > lastTask
    BY <1>1, <1>3 DEF IInv, TypeOK
  <2>2. \A t \in new : f[t] \in 1 .. lastRow
    BY DEF IInv, TypeOK
  <2> QED BY <2>1, <2>2
<1>5. \A t \in Tasks : t > lastTask => status[t] = "none" /\ owner[t] = NoRow /\ runs[t] = 0
  BY DEF IInv, TypeOK, Known, RunOnce
<1>6. \A t, u \in Tasks : t \in new /\ u > t => u \in new \/ owner'[u] = NoRow
  BY <1>1, <1>2, <1>4, <1>5 DEF IInv, TypeOK
<1>7. \A t \in Tasks : status[t] # "none" =>
        t \notin new /\ owner'[t] = owner[t] /\ status'[t] = status[t]
  BY <1>2, <1>3, <1>4, <1>5
<1>8. \A t \in Tasks : status[t] # "none" /\ Behind(t) => Behind(t)'
  BY <1>2, <1>3, <1>4, <1>5, <1>7 DEF Behind
<1>9. /\ \A s \in Slots : rq[s].tasks \subseteq Tasks
      /\ \A a \in Agents : batch[a] \subseteq Tasks
      /\ \A a \in Agents : Waiting(a) => cur[a] \in Slots
  BY DEF IInv, TypeOK, Request, Awaited, Waiting
<1>10. Reported'
  BY <1>3, <1>7, <1>9 DEF OInv, Reported
<1>11. Executed'
  BY <1>3 DEF OInv, Executed
<1>12. Queued'
  <2> SUFFICES ASSUME NEW t \in Tasks, NEW u \in Tasks, t < u,
                      owner'[t] = owner'[u], status'[t] = "pending"
               PROVE  status'[u] = "pending"
    BY DEF Queued
  <2>1. CASE t \in new
    <3>1. owner'[t] \in 1 .. lastRow
      BY <1>2, <1>4, <2>1
    <3>2. u \in new
      BY <1>6, <2>1, <3>1
    <3> QED BY <1>3, <3>2
  <2>2. CASE t \notin new
    BY <1>2, <1>3, <2>2 DEF OInv, Queued
  <2> QED BY <2>1, <2>2
<1>13. ReadAll'
  <2> SUFFICES ASSUME NEW s \in Slots, rq[s].st = "read", NEW u \in rq[s].tasks,
                      NEW t \in Tasks, t < u, owner'[t] = owner'[u], status'[t] = "pending"
               PROVE  t \in rq[s].tasks
    BY <1>3 DEF ReadAll
  <2>1. u \in Tasks /\ status[u] # "none"
    BY <1>9 DEF IInv, Carried
  <2>2. u \notin new /\ ~(u > lastTask) /\ owner'[u] = owner[u]
    BY <1>5, <1>7, <2>1
  <2>3. t \notin new
    BY <1>4, <2>1, <2>2 DEF IInv, TypeOK
  <2>4. owner[t] = owner[u] /\ status[t] = "pending"
    BY <1>2, <1>3, <2>2, <2>3
  <2> QED BY <2>4 DEF OInv, ReadAll
<1>14. Ahead'
  <2>1. ASSUME NEW a \in Agents, NEW t \in batch[a] PROVE Behind(t)'
    BY <1>8, <1>9 DEF IInv, Todo, OInv, Ahead
  <2>2. ASSUME NEW a \in Agents, Waiting(a), NEW t \in rq[cur[a]].tasks
        PROVE  owner'[t] = mem[a] /\ status'[t] # "none" /\ Behind(t)'
    BY <1>7, <1>8, <1>9, <2>2 DEF OInv, Ahead
  <2> QED BY <1>3, <2>1, <2>2 DEF Ahead, Waiting
<1> QED BY <1>10, <1>11, <1>12, <1>13, <1>14 DEF OInv

\* Deleted tasks are neither pending nor in anyone's way.
LEMMA OHostDelete ==
  ASSUME IInv, OInv, NEW r \in Rows, HostDelete(r)
  PROVE  OInv'
<1> USE FleetAssumption DEF Rows, Tasks, NoRow
<1>1. /\ status' = [t \in Tasks |-> IF owner[t] = r THEN "gone" ELSE status[t]]
      /\ UNCHANGED <<owner, pc, mem, batch, cur, rq, runs>>
  BY DEF HostDelete, agents
<1>2. /\ \A s \in Slots : rq[s].tasks \subseteq Tasks
      /\ \A a \in Agents : Waiting(a) => cur[a] \in Slots
  BY DEF IInv, TypeOK, Request, Awaited, Waiting
<1>3. Reported' /\ Executed'
  BY <1>1, <1>2 DEF OInv, Reported, Executed
<1>4. Queued' /\ ReadAll'
  BY <1>1 DEF OInv, Queued, ReadAll
<1>5. Ahead'
  BY <1>1, <1>2 DEF OInv, Ahead, Waiting, Behind
<1> QED BY <1>3, <1>4, <1>5 DEF OInv

\* Steps that leave tasks and executions alone: what a request carries is what
\* it carried, nothing, or all that is pending for its host.
LEMMA OSame ==
  ASSUME IInv, OInv, UNCHANGED <<status, owner, runs>>,
         \A s \in Slots : \/ rq'[s].tasks = {}
                          \/ /\ rq'[s].kind = rq[s].kind /\ rq'[s].row = rq[s].row
                             /\ rq'[s].tasks = rq[s].tasks
                             /\ rq'[s].st = "read" => rq[s].st = "read"
                          \/ rq'[s].kind = "checkin" /\ rq'[s].tasks = Due(rq'[s].row),
         \A a \in Agents : \A t \in batch'[a] :
            t \in batch[a] \/ (Waiting(a) /\ t \in rq[cur[a]].tasks),
         \A a \in Agents : Waiting(a)' =>
            /\ cur'[a] \in Slots /\ mem'[a] = rq'[cur'[a]].row
            /\ \/ rq'[cur'[a]].tasks = {}
               \/ rq'[cur'[a]].tasks = Due(rq'[cur'[a]].row)
               \/ /\ Waiting(a) /\ rq'[cur'[a]].tasks = rq[cur[a]].tasks
                  /\ mem'[a] = mem[a]
  PROVE  OInv'
<1> USE FleetAssumption DEF Rows, Tasks, NoRow
<1>1. \A r : \A t \in Due(r) : t \in Tasks /\ status[t] = "pending" /\ owner[t] = r
  BY DEF Due
<1>2. \A r : \A t \in Due(r) : Behind(t)
  BY <1>1 DEF IInv, TypeOK, RunOnce, OInv, Queued, Behind
<1>3. Reported'
  BY DEF OInv, Reported
<1>4. Executed' /\ Queued'
  BY DEF OInv, Executed, Queued
<1>5. ReadAll'
  BY DEF OInv, ReadAll, Due
<1>6. \A t : Behind(t)' <=> Behind(t)
  BY DEF Behind
<1>7. Ahead'
  <2>1. ASSUME NEW a \in Agents, NEW t \in batch'[a] PROVE Behind(t)'
    BY <1>6 DEF OInv, Ahead
  <2>2. ASSUME NEW a \in Agents, Waiting(a)', NEW t \in rq'[cur'[a]].tasks
        PROVE  owner'[t] = mem'[a] /\ status'[t] # "none" /\ Behind(t)'
    BY <1>1, <1>2, <1>6, <2>2 DEF OInv, Ahead
  <2> QED BY <2>1, <2>2 DEF Ahead
<1> QED BY <1>3, <1>4, <1>5, <1>7 DEF OInv

\* What operators do keeps the order.
LEMMA OOperator == IInv /\ OInv /\ Operator => OInv'
<1> SUFFICES ASSUME IInv, OInv, Operator PROVE OInv'
  OBVIOUS
<1>1. ASSUME NEW r \in Rows, NEW p \in profiles \cup {NoProfile}, NewTask(r, p)
      PROVE  OInv'
  BY <1>1, OInsert DEF NewTask, IInv, TypeOK
<1>2. ASSUME NEW ubuntu \in BOOLEAN, NEW p \in Profiles, ScanAll(ubuntu, p)
      PROVE  OInv'
  <2>1. {r \in live : Ubuntu(r) = ubuntu} \in SUBSET live
    OBVIOUS
  <2> QED BY <1>2, <2>1, OInsert DEF ScanAll
<1>3. CASE PushSources
  <2>1. {r \in live : Ubuntu(r)} \in SUBSET live
    OBVIOUS
  <2> QED BY <1>3, <2>1, OInsert DEF PushSources
<1>4. ASSUME NEW p \in Profiles, ProfileDelete(p) PROVE OInv'
  BY <1>4 DEF ProfileDelete, dbHosts, dbTasks, agents, OInv, Reported, Executed,
              Queued, ReadAll, Ahead, Behind, Waiting
<1> QED BY <1>1, <1>2, <1>3, <1>4, OHostDelete DEF Operator

-------------------------------------------------------------------------------
\* Of an agent that waits, only the agent itself has the request.
LEMMA OwnRequest ==
  ASSUME IInv, NEW a \in Agents, Waiting(a)
  PROVE  /\ cur[a] \in Slots /\ rq[cur[a]] \in Request
         /\ rq[cur[a]].kind = pc[a] /\ rq[cur[a]].row = mem[a]
         /\ \A b \in Agents : b # a => cur[b] # cur[a]
BY DEF IInv, TypeOK, Awaited, Waiting

\* A new row has no tasks, and an agent that enrolls has none left to do.
LEMMA OEnroll ==
  ASSUME IInv, OInv, NEW a \in Agents, Enroll(a)
  PROVE  OInv'
<1>1. /\ UNCHANGED <<batch, cur, status, owner, rq, runs>>
      /\ \A b \in Agents : Waiting(b)' => Waiting(b) /\ mem'[b] = mem[b]
  BY DEF Enroll, Install, dbTasks, IInv, TypeOK, Waiting
<1> QED BY <1>1 DEF OInv, Reported, Executed, Queued, ReadAll, Ahead, Behind

\* A check-in that has read nothing promises nothing.
LEMMA OCheckin ==
  ASSUME IInv, OInv, NEW a \in Agents, NEW s \in Slots, Checkin(a, s)
  PROVE  OInv'
<1>1. /\ pc[a] = "idle" /\ rq[s].st = "free"
      /\ rq' = [rq EXCEPT ![s] = [st |-> "new", kind |-> "checkin", row |-> Me(a),
                                  tasks |-> {}, verdict |-> "done"]]
      /\ cur' = [cur EXCEPT ![a] = s]
      /\ pc' = [pc EXCEPT ![a] = "checkin"]
      /\ mem' = [mem EXCEPT ![a] = Me(a)]
      /\ UNCHANGED <<status, owner, batch, runs>>
  BY DEF Checkin, Send, dbTasks
<1>2. \A r \in Slots : (r = s /\ rq'[r].tasks = {}) \/ (r # s /\ rq'[r] = rq[r])
  BY <1>1 DEF IInv, TypeOK
<1>3. ASSUME NEW b \in Agents, Waiting(b)'
      PROVE  /\ cur'[b] \in Slots /\ mem'[b] = rq'[cur'[b]].row
             /\ \/ rq'[cur'[b]].tasks = {}
                \/ /\ Waiting(b) /\ rq'[cur'[b]].tasks = rq[cur[b]].tasks
                   /\ mem'[b] = mem[b]
  <2>1. CASE b = a
    BY <1>1, <2>1 DEF IInv, TypeOK
  <2>2. CASE b # a
    BY <1>1, <1>3, <2>2 DEF IInv, TypeOK, Awaited, Waiting
  <2> QED BY <2>1, <2>2
<1>4. \A b \in Agents : \A t \in batch'[b] : t \in batch[b]
  BY <1>1
<1> QED BY <1>1, <1>2, <1>3, <1>4, OSame

\* An execution: the agent takes the first task of its batch, and all the others
\* it has left are queued behind.
LEMMA OExec ==
  ASSUME IInv, OInv, NEW a \in Agents, NEW s \in Slots, Exec(a, s)
  PROVE  OInv'
<1> USE FleetAssumption DEF Rows, Tasks, NoRow
<1>1. PICK t \in batch[a], v \in {"done", "failed", "garbled"} :
        /\ \A u \in batch[a] : t <= u
        /\ runs' = [runs EXCEPT ![t] = @ + 1]
        /\ batch' = [batch EXCEPT ![a] = @ \ {t}]
        /\ rq[s].st = "free"
        /\ rq' = [rq EXCEPT ![s] = [st |-> "new", kind |-> "result", row |-> mem[a],
                                    tasks |-> {t}, verdict |-> v]]
        /\ cur' = [cur EXCEPT ![a] = s]
        /\ pc' = [pc EXCEPT ![a] = "result"]
  BY DEF Exec, Send, Verdicts, NextTask
<1>2. pc[a] = "work" /\ UNCHANGED <<status, owner, mem>>
  BY DEF Exec, dbTasks
<1>3. /\ t \in Tasks /\ owner[t] = mem[a] /\ runs[t] = 0
      /\ status[t] \notin {"none", "pending"} /\ Behind(t)
  BY DEF IInv, TypeOK, Todo, OInv, Ahead
<1>4. \A u \in Tasks : runs'[u] = IF u = t THEN 1 ELSE runs[u]
  BY <1>1, <1>3 DEF IInv, TypeOK
<1>5. ASSUME NEW u \in Tasks, Behind(u), owner[u] = owner[t] => ~(t > u)
      PROVE  Behind(u)'
  BY <1>2, <1>4, <1>5 DEF Behind
<1>6. \A r \in Slots : \/ r # s /\ rq'[r] = rq[r]
                       \/ /\ r = s /\ rq'[r].tasks = {t} /\ rq'[r].row = mem[a]
                          /\ rq'[r].st = "new"
  BY <1>1 DEF IInv, TypeOK
<1>7. /\ \A r \in Slots : rq[r].tasks \subseteq Tasks
      /\ \A b \in Agents : batch[b] \subseteq Tasks
  BY DEF IInv, TypeOK, Request
<1>8. Reported'
  BY <1>2, <1>3, <1>4, <1>6, <1>7 DEF OInv, Reported
<1>9. Executed'
  BY <1>2, <1>4 DEF OInv, Executed
<1>10. Queued' /\ ReadAll'
  BY <1>2, <1>6 DEF OInv, Queued, ReadAll
<1>11. ASSUME NEW b \in Agents, NEW u \in batch'[b] PROVE Behind(u)'
  <2>1. u \in batch[b] /\ u \in Tasks /\ Behind(u)
    BY <1>1, <1>7 DEF IInv, TypeOK, OInv, Ahead
  <2>2. CASE b = a
    BY <1>1, <1>3, <1>5, <2>1, <2>2
  <2>3. CASE b # a
    <3>1. owner[u] = mem[b] /\ status[u] # "none"
      BY <2>1 DEF IInv, Todo
    <3>2. owner[u] # owner[t]
      BY <1>3, <2>1, <2>3, <3>1, OwnHost
    <3> QED BY <1>5, <2>1, <3>2
  <2> QED BY <2>2, <2>3
<1>12. ASSUME NEW b \in Agents, Waiting(b)', NEW u \in rq'[cur'[b]].tasks
       PROVE  owner'[u] = mem'[b] /\ status'[u] # "none" /\ Behind(u)'
  <2>1. CASE b = a
    <3>1. u = t
      BY <1>1, <2>1, <1>12 DEF IInv, TypeOK
    <3> QED BY <1>2, <1>3, <1>5, <2>1, <3>1
  <2>2. CASE b # a
    <3>1. Waiting(b) /\ cur'[b] = cur[b] /\ cur[b] \in Slots /\ cur[b] # s
      BY <1>1, <1>12, <2>2 DEF IInv, TypeOK, Awaited, Waiting
    <3>2. u \in rq[cur[b]].tasks /\ u \in Tasks
      BY <1>6, <1>7, <1>12, <3>1
    <3>3. owner[u] = mem[b] /\ status[u] # "none" /\ Behind(u)
      BY <3>1, <3>2 DEF OInv, Ahead
    <3>4. owner[u] # owner[t]
      BY <1>3, <2>2, <3>2, <3>3, OwnHost
    <3> QED BY <1>2, <1>5, <3>2, <3>3, <3>4
  <2> QED BY <2>1, <2>2
<1> QED BY <1>8, <1>9, <1>10, <1>11, <1>12 DEF OInv, Ahead

\* An agent forgets its batch and the request it waited for; it may have executed
\* the first task of the batch.
LEMMA OForget ==
  ASSUME IInv, OInv, NEW a \in Agents, NEW to \in {"idle", "down"},
         pc' = [pc EXCEPT ![a] = to],
         batch' = [batch EXCEPT ![a] = {}],
         cur' = [cur EXCEPT ![a] = NoSlot],
         rq' = rq \/ (Waiting(a) /\ rq' = [rq EXCEPT ![cur[a]] = FreeSlot]),
         UNCHANGED <<status, owner, mem>>,
         runs' = runs \/ \E t \in batch[a] : runs' = [runs EXCEPT ![t] = @ + 1]
  PROVE  OInv'
<1> USE FleetAssumption DEF Rows, Tasks, NoRow
<1>1. \A s \in Slots : rq'[s] = rq[s] \/ (cur[a] = s /\ rq'[s] = FreeSlot)
  BY DEF IInv, TypeOK
<1>2. \A t \in Tasks : \/ runs'[t] = runs[t]
                       \/ runs'[t] = 1 /\ owner[t] = mem[a] /\ status[t] # "none"
  <2>1. \A t \in batch[a] : /\ t \in Tasks /\ runs[t] = 0 /\ owner[t] = mem[a]
                            /\ status[t] # "none"
    BY DEF IInv, TypeOK, Todo
  <2> QED BY <2>1 DEF IInv, TypeOK
<1>3. /\ \A r \in Slots : rq[r].tasks \subseteq Tasks
      /\ \A b \in Agents : batch[b] \subseteq Tasks
  BY DEF IInv, TypeOK, Request
<1>4. Reported'
  BY <1>1, <1>2, <1>3 DEF OInv, Reported, FreeSlot
<1>5. Executed'
  BY <1>2 DEF OInv, Executed
<1>6. Queued' /\ ReadAll'
  BY <1>1 DEF OInv, Queued, ReadAll, FreeSlot
<1>7. ASSUME NEW b \in Agents, b # a, NEW u \in Tasks, owner[u] = mem[b],
             status[u] # "none", Behind(u)
      PROVE  Behind(u)'
  <2>1. \A t \in Tasks : owner[t] = owner[u] => runs'[t] = runs[t]
    BY <1>2, <1>7, OwnHost
  <2> QED BY <1>7, <2>1 DEF Behind
<1>8. ASSUME NEW b \in Agents, NEW u \in batch'[b] PROVE Behind(u)'
  <2>1. b # a /\ u \in batch[b] /\ u \in Tasks
    BY <1>3 DEF IInv, TypeOK
  <2> QED BY <1>7, <2>1 DEF IInv, Todo, OInv, Ahead
<1>9. ASSUME NEW b \in Agents, Waiting(b)', NEW u \in rq'[cur'[b]].tasks
      PROVE  owner'[u] = mem'[b] /\ status'[u] # "none" /\ Behind(u)'
  <2>1. b # a /\ Waiting(b) /\ cur'[b] = cur[b]
    BY <1>9 DEF IInv, TypeOK, Waiting
  <2>2. cur[b] \in Slots /\ cur[b] # cur[a] /\ rq'[cur[b]] = rq[cur[b]]
    BY <1>1, <2>1, OwnRequest
  <2> QED BY <1>3, <1>7, <1>9, <2>1, <2>2 DEF OInv, Ahead
<1> QED BY <1>4, <1>5, <1>6, <1>8, <1>9 DEF OInv, Ahead
\* The batch of an answer has nothing executed behind it.
LEMMA OReceive ==
  ASSUME IInv, OInv, NEW a \in Agents, Receive(a)
  PROVE  OInv'
<1> DEFINE s == cur[a]
           todo == IF pc[a] = "checkin" THEN rq[s].tasks ELSE batch[a]
<1>1. /\ Waiting(a) /\ s \in Slots /\ rq[s].st \in {"ok", "err"}
      /\ rq' = [rq EXCEPT ![s] = FreeSlot]
      /\ UNCHANGED <<status, owner, mem, runs>>
  BY OwnRequest DEF Receive, GiveUp, dbTasks
<1>2. CASE rq[s].st = "err"
  BY <1>1, <1>2, OForget DEF Receive, GiveUp
<1>3. CASE rq[s].st = "ok"
  <2>1. /\ batch' = [batch EXCEPT ![a] = todo]
        /\ pc' = [pc EXCEPT ![a] = IF todo = {} THEN "idle" ELSE "work"]
        /\ cur' = [cur EXCEPT ![a] = NoSlot]
    BY <1>1, <1>3 DEF Receive
  <2>2. \A r \in Slots : rq'[r].tasks = {} \/ rq'[r] = rq[r]
    BY <1>1 DEF IInv, TypeOK, FreeSlot
  <2>3. \A b \in Agents : \A t \in batch'[b] :
          t \in batch[b] \/ (Waiting(b) /\ t \in rq[cur[b]].tasks)
    BY <1>1, <2>1 DEF IInv, TypeOK
  <2>4. ASSUME NEW b \in Agents, Waiting(b)'
        PROVE  /\ cur'[b] \in Slots /\ mem'[b] = rq'[cur'[b]].row
               /\ Waiting(b) /\ rq'[cur'[b]].tasks = rq[cur[b]].tasks
               /\ mem'[b] = mem[b]
    <3>1. b # a /\ Waiting(b) /\ cur'[b] = cur[b]
      BY <2>1, <2>4 DEF IInv, TypeOK, Waiting
    <3>2. cur[b] # s /\ cur[b] \in Slots /\ rq[cur[b]].row = mem[b]
      BY <1>1, <3>1, OwnRequest
    <3>3. rq'[cur[b]] = rq[cur[b]]
      BY <1>1, <3>2 DEF IInv, TypeOK
    <3> QED BY <1>1, <3>1, <3>2, <3>3
  <2> QED BY <1>1, <2>2, <2>3, <2>4, OSame
<1> QED BY <1>1, <1>2, <1>3

\* A machine that comes back has nothing left to do.
LEMMA ORestart ==
  ASSUME IInv, OInv, NEW a \in Agents, Restart(a)
  PROVE  OInv'
<1>1. /\ UNCHANGED <<batch, cur, status, owner, rq, runs>>
      /\ \A b \in Agents : Waiting(b)' => Waiting(b) /\ mem'[b] = mem[b]
  BY DEF Restart, dbTasks, IInv, TypeOK, Waiting
<1> QED BY <1>1 DEF OInv, Reported, Executed, Queued, ReadAll, Ahead, Behind

\* What agents do keeps the order.
LEMMA OAgent ==
  ASSUME IInv, OInv, NEW a \in Agents, Agent(a)
  PROVE  OInv'
<1>1. CASE ExecRaises(a)
  BY <1>1, OForget DEF ExecRaises, GiveUp, dbTasks
<1>2. CASE Timeout(a)
  BY <1>2, OForget DEF Timeout, GiveUp, Lose, Outlive, dbTasks
<1>3. CASE Crash(a)
  BY <1>3, OForget DEF Crash, Lose, Outlive, dbTasks
<1> QED BY <1>1, <1>2, <1>3, OEnroll, OCheckin, OExec, OReceive, ORestart DEF Agent

-------------------------------------------------------------------------------
\* A check-in reads all that is pending for its host: nothing queued behind any
\* of it has been executed.
LEMMA OCheckinRead ==
  ASSUME IInv, OInv, NEW s \in Slots, CheckinRead(s)
  PROVE  OInv'
<1>1. UNCHANGED <<status, owner, pc, mem, batch, cur, runs>>
  BY DEF CheckinRead, dbTasks, agents
<1>2. rq[s] \in Request
  BY DEF IInv, TypeOK
<1>3. /\ rq'[s].kind = rq[s].kind /\ rq'[s].row = rq[s].row
      /\ \/ rq'[s].tasks = Due(rq[s].row) /\ rq'[s].kind = "checkin"
         \/ rq'[s].tasks = rq[s].tasks /\ rq'[s].st = "err"
      /\ \A r \in Slots : r # s => rq'[r] = rq[r]
  <2>1. CASE rq[s].row \in live
    BY <1>2, <2>1 DEF CheckinRead, IInv, TypeOK, Request
  <2>2. CASE rq[s].row \notin live
    BY <1>2, <2>2 DEF CheckinRead, IInv, TypeOK, Request
  <2> QED BY <2>1, <2>2
<1>4. \A b \in Agents : Waiting(b)' =>
        /\ Waiting(b) /\ cur[b] \in Slots /\ rq[cur[b]].row = mem[b]
  BY <1>1, OwnRequest DEF Waiting
<1> QED BY <1>1, <1>3, <1>4, OSame

\* The other handlers: the tasks T have been read by a check-in with all that is
\* pending in front of them, or have been executed.
LEMMA OAnswer ==
  ASSUME IInv, OInv, NEW s \in Slots, NEW st \in {"ok", "err"}, NEW T \in SUBSET Tasks,
         rq' = [rq EXCEPT ![s].st = st],
         \A u \in T, t \in Tasks :
           t < u /\ owner[t] = owner[u] /\ status[t] = "pending" => t \in T,
         NEW v \in {"sent", "done", "failed"},
         v = "sent" \/ \A t \in T : runs[t] # 0,
         status' = [t \in Tasks |-> IF t \in T THEN v ELSE status[t]],
         UNCHANGED <<owner, pc, mem, batch, cur, runs>>
  PROVE  OInv'
<1> USE FleetAssumption DEF Rows, Tasks, NoRow
<1>1. \A r \in Slots : /\ rq'[r].kind = rq[r].kind /\ rq'[r].row = rq[r].row
                       /\ rq'[r].tasks = rq[r].tasks
                       /\ rq'[r].st = "read" => rq[r].st = "read"
                       /\ rq[r].tasks \subseteq Tasks
  BY DEF IInv, TypeOK, Request
<1>2. \A t \in Tasks : /\ status[t] # "none" => status'[t] # "none"
                       /\ status'[t] = "pending" => status[t] = "pending" /\ t \notin T
                       /\ status[t] \notin {"none", "pending"} =>
                            status'[t] \notin {"none", "pending"}
  OBVIOUS
<1>3. Reported'
  BY <1>1, <1>2 DEF OInv, Reported
<1>4. Executed'
  BY DEF OInv, Executed
<1>5. Queued'
  BY <1>2 DEF OInv, Queued
<1>6. ReadAll'
  BY <1>1, <1>2 DEF OInv, ReadAll
<1>7. Ahead'
  <2>1. \A a \in Agents : Waiting(a) => cur[a] \in Slots
    BY OwnRequest
  <2> QED BY <1>1, <1>2, <2>1 DEF OInv, Ahead, Waiting, Behind
<1> QED BY <1>3, <1>4, <1>5, <1>6, <1>7 DEF OInv

\* What is sent goes with everything pending in front of it.
LEMMA OCheckinCommit ==
  ASSUME IInv, OInv, NEW s \in Slots, CheckinCommit(s)
  PROVE  OInv'
<1>1. /\ rq[s].st = "read" /\ rq[s].tasks \in SUBSET Tasks
      /\ UNCHANGED <<owner, pc, mem, batch, cur, runs>>
      /\ status \in [Tasks -> Statuses]
  BY DEF CheckinCommit, agents, IInv, TypeOK, Request
<1>2. \A u \in rq[s].tasks, t \in Tasks :
        t < u /\ owner[t] = owner[u] /\ status[t] = "pending" => t \in rq[s].tasks
  BY <1>1 DEF OInv, ReadAll
<1>3. CASE rq[s].row \in live
  BY <1>1, <1>2, <1>3, OAnswer DEF CheckinCommit, Answer
<1>4. CASE rq[s].row \notin live
  <2>1. status' = [t \in Tasks |-> IF t \in {} THEN "sent" ELSE status[t]]
        /\ rq' = [rq EXCEPT ![s].st = "err"]
    BY <1>1, <1>4 DEF CheckinCommit, Answer
  <2>2. {} \in SUBSET Tasks /\ \A u \in {}, t \in Tasks : t \in {}
    OBVIOUS
  <2> QED BY <1>1, <2>1, <2>2, OAnswer
<1> QED BY <1>3, <1>4

\* What ResultCommit does, one way or the other.
LEMMA ResultEffect ==
  ASSUME IInv, OInv, NEW s \in Slots, ResultCommit(s)
  PROVE  /\ rq[s] \in Request /\ rq[s].st = "new" /\ rq[s].kind = "result"
         /\ UNCHANGED <<owner, profile, profiles, live, lastRow, pc, mem, batch, cur, runs>>
         /\ \E t \in rq[s].tasks :
              /\ t \in Tasks /\ owner[t] = rq[s].row /\ runs[t] = 1
              /\ status[t] \notin {"none", "pending"}
              /\ \/ /\ Storable(rq[s], t)
                    /\ status' = [u \in Tasks |-> IF u \in {t} THEN Recorded(rq[s]) ELSE status[u]]
                    /\ latest' = IF WithResult(rq[s], t)
                                 THEN [latest EXCEPT ![<<rq[s].row, profile[t]>>] = t]
                                 ELSE latest
                    /\ rq' = [rq EXCEPT ![s].st = "ok"]
                 \/ status' = status /\ latest' = latest /\ rq' = [rq EXCEPT ![s].st = "err"]
<1>1. /\ rq[s].st = "new" /\ rq[s].kind = "result"
      /\ UNCHANGED <<owner, profile, profiles, live, lastRow, pc, mem, batch, cur, runs>>
  BY DEF ResultCommit, dbHosts, agents
<1>2. rq[s] \in Request /\ status \in [Tasks -> Statuses]
  BY DEF IInv, TypeOK
<1>3. PICK t \in rq[s].tasks :
        IF Storable(rq[s], t)
        THEN /\ status' = [status EXCEPT ![t] = Recorded(rq[s])]
             /\ latest' = IF WithResult(rq[s], t)
                          THEN [latest EXCEPT ![<<rq[s].row, profile[t]>>] = t] ELSE latest
             /\ rq' = [rq EXCEPT ![s].st = "ok"]
        ELSE /\ rq' = [rq EXCEPT ![s].st = "err"]
             /\ UNCHANGED <<status, latest>>
  BY DEF ResultCommit, Answer, Newest
<1>4. t \in Tasks
  BY <1>2 DEF Request
<1>5. owner[t] = rq[s].row /\ runs[t] = 1 /\ status[t] \notin {"none", "pending"}
  BY <1>1, <1>4 DEF OInv, Reported, IInv, RunOnce
<1>6. CASE Storable(rq[s], t)
  <2>1. status' = [u \in Tasks |-> IF u \in {t} THEN Recorded(rq[s]) ELSE status[u]]
    BY <1>2, <1>3, <1>6
  <2> QED BY <1>1, <1>2, <1>3, <1>4, <1>5, <1>6, <2>1
<1>7. CASE ~Storable(rq[s], t)
  BY <1>1, <1>2, <1>3, <1>4, <1>5, <1>7
<1> QED BY <1>6, <1>7

\* A verdict is about a task that was executed and is not pending.
LEMMA OResultCommit ==
  ASSUME IInv, OInv, NEW s \in Slots, ResultCommit(s)
  PROVE  OInv'
<1>1. PICK t \in rq[s].tasks :
              /\ t \in Tasks /\ runs[t] = 1
              /\ status[t] \notin {"none", "pending"}
              /\ \/ /\ status' = [u \in Tasks |-> IF u \in {t} THEN Recorded(rq[s]) ELSE status[u]]
                    /\ rq' = [rq EXCEPT ![s].st = "ok"]
                 \/ status' = status /\ rq' = [rq EXCEPT ![s].st = "err"]
  BY ResultEffect
<1>2. UNCHANGED <<owner, pc, mem, batch, cur, runs>> /\ Recorded(rq[s]) \in {"done", "failed"}
  BY ResultEffect DEF Recorded
<1>3. CASE rq' = [rq EXCEPT ![s].st = "ok"] /\
           status' = [u \in Tasks |-> IF u \in {t} THEN Recorded(rq[s]) ELSE status[u]]
  <2>1. \A u \in {t}, r \in Tasks :
          r < u /\ owner[r] = owner[u] /\ status[r] = "pending" => r \in {t}
    BY <1>1 DEF OInv, Queued
  <2>2. {t} \in SUBSET Tasks /\ \A u \in {t} : runs[u] # 0
    BY <1>1
  <2> QED BY <1>2, <1>3, <2>1, <2>2, OAnswer
<1>4. CASE status' = status /\ rq' = [rq EXCEPT ![s].st = "err"]
  <2>1. status' = [u \in Tasks |-> IF u \in {} THEN "sent" ELSE status[u]]
    BY <1>4 DEF IInv, TypeOK
  <2>2. {} \in SUBSET Tasks /\ \A u \in {}, r \in Tasks : r \in {}
    OBVIOUS
  <2> QED BY <1>2, <1>4, <2>1, <2>2, OAnswer
<1> QED BY <1>1, <1>3, <1>4

\* A closed connection frees a slot and changes no task.
LEMMA OReap ==
  ASSUME IInv, OInv, NEW s \in Slots, Reap(s)
  PROVE  OInv'
<1>1. /\ rq' = [rq EXCEPT ![s] = FreeSlot]
      /\ \A a \in Agents : cur[a] # s
      /\ UNCHANGED <<status, owner, pc, mem, batch, cur, runs>>
  BY DEF Reap, dbTasks, agents
<1>2. \A r \in Slots : rq'[r].tasks = {} \/ rq'[r] = rq[r]
  BY <1>1 DEF IInv, TypeOK, FreeSlot
<1>3. \A a \in Agents : Waiting(a)' =>
         /\ Waiting(a) /\ cur[a] \in Slots /\ rq'[cur[a]] = rq[cur[a]]
         /\ rq[cur[a]].row = mem[a]
  BY <1>1, OwnRequest DEF Waiting, IInv, TypeOK
<1> QED BY <1>1, <1>2, <1>3, OSame

\* Every step keeps the order.
LEMMA OStep == IInv /\ OInv /\ [Next]_vars => OInv'
<1> SUFFICES ASSUME IInv, OInv, [Next]_vars PROVE OInv'
  OBVIOUS
<1>1. CASE UNCHANGED vars
  BY <1>1 DEF vars, dbTasks, agents, OInv, Reported, Executed, Queued, ReadAll, Ahead,
              Behind, Waiting
<1>2. ASSUME NEW s \in Slots, Handler(s) PROVE OInv'
  BY <1>2, OCheckinRead, OCheckinCommit, OResultCommit, OReap DEF Handler
<1> QED BY <1>1, <1>2, OOperator, OAgent DEF Next

\* The order holds in every reachable state.
LEMMA OInvariance == Spec => [](IInv /\ OInv)
BY InitInv, StepInv, OInit, OStep, PTL DEF Spec

-------------------------------------------------------------------------------
\* A host executes its tasks in the order in which they were queued: a step that
\* executes one finds none executed that was queued behind it, whatever requests
\* were lost, overlapped or answered late.
THEOREM ExecutedInOrder == Spec => InOrder
<1> DEFINE Step == \A t \in Tasks : runs'[t] > runs[t] =>
                     \A u \in Tasks : u > t /\ owner[u] = owner[t] => runs[u] = 0
<1>1. IInv /\ OInv /\ [Next]_vars => [Step]_vars
  <2> SUFFICES ASSUME IInv, OInv, Next, NEW t \in Tasks, runs'[t] > runs[t]
               PROVE  Behind(t)
    BY DEF Behind
  <2>1. runs \in [Tasks -> Nat]
    BY DEF IInv, TypeOK
  <2>2. runs' # runs
    BY <2>1
  <2>3. PICK a \in Agents : ExecRaises(a) \/ \E s \in Slots : Exec(a, s)
    BY <2>2 DEF Next, Operator, Agent, Handler, NewTask, ScanAll, PushSources,
       InsertTasks, HostDelete, ProfileDelete, Enroll, Checkin, Receive, Timeout,
       Crash, Restart, CheckinRead, CheckinCommit, ResultCommit, Reap
  <2>4. PICK u \in batch[a] : runs' = [runs EXCEPT ![u] = @ + 1]
    BY <2>3 DEF Exec, ExecRaises
  <2>5. u = t
    BY <2>1, <2>4
  <2> QED BY <2>5 DEF OInv, Ahead
<1>2. [][Step]_vars => InOrder
  BY DEF InOrder
<1> QED BY <1>1, <1>2, OInvariance, PTL DEF Spec

-------------------------------------------------------------------------------
\* A step after which a scan is shown as done found it so and kept its result row,
\* or stored the result of a scan of the same host and profile: of that scan, if
\* it was not shown as done before.
LEMMA ScanStep ==
  ASSUME IInv, OInv, [Next]_vars, NEW u \in Tasks,
         status'[u] = "done", profile'[u] \in profiles'
  PROVE  /\ owner'[u] = owner[u] /\ profile'[u] = profile[u] /\ profile[u] \in profiles
         /\ \/ /\ status[u] = "done"
               /\ latest'[<<owner[u], profile[u]>>] = latest[<<owner[u], profile[u]>>]
            \/ \E s \in Slots : \E t \in rq[s].tasks :
                 /\ ResultCommit(s) /\ rq[s].st = "new" /\ rq[s].kind = "result"
                 /\ t \in Tasks /\ owner[t] = owner[u]
                 /\ status[u] = "done" \/ u = t
                 /\ latest'[<<owner[u], profile[u]>>] = t
<1> USE FleetAssumption DEF Rows, Tasks, NoRow
<1> DEFINE Kept == UNCHANGED <<status, owner, profile, profiles, latest>>
           Same == /\ owner'[u] = owner[u] /\ profile'[u] = profile[u]
                   /\ profile[u] \in profiles /\ status[u] = "done"
                   /\ latest'[<<owner[u], profile[u]>>] = latest[<<owner[u], profile[u]>>]
<1>1. ASSUME NEW R, InsertTasks(R, profile'[u]) \/ InsertTasks(R, NoProfile)
             \/ \E p : InsertTasks(R, p)
      PROVE  Same
  <2>1. PICK p : InsertTasks(R, p)
    BY <1>1
  <2> DEFINE new == lastTask + 1 .. lastTask + Cardinality(R)
  <2>2. /\ status' = [t \in Tasks |-> IF t \in new THEN "pending" ELSE status[t]]
        /\ profile' = [t \in Tasks |-> IF t \in new THEN p ELSE profile[t]]
        /\ \E f : owner' = [t \in Tasks |-> IF t \in new THEN f[t] ELSE owner[t]]
        /\ UNCHANGED <<profiles, latest>>
    BY <2>1 DEF InsertTasks, dbScans
  <2> HIDE DEF new
  <2>3. u \notin new
    BY <2>2
  <2> QED BY <2>2, <2>3
<1>2. ASSUME NEW r \in Rows, HostDelete(r) PROVE Same
  <2>1. /\ status' = [t \in Tasks |-> IF owner[t] = r THEN "gone" ELSE status[t]]
        /\ latest' = [rp \in Rows \X Profiles |-> IF rp[1] = r THEN 0 ELSE latest[rp]]
        /\ UNCHANGED <<owner, profile, profiles>>
    BY <1>2 DEF HostDelete
  <2>2. owner[u] # r /\ status[u] = "done"
    BY <2>1
  <2>3. <<owner[u], profile[u]>> \in Rows \X Profiles
    BY <2>1, <2>2 DEF IInv, TypeOK, Known
  <2> QED BY <2>1, <2>2, <2>3
<1>3. ASSUME NEW p \in Profiles, ProfileDelete(p) PROVE Same
  <2>1. /\ latest' = [rp \in Rows \X Profiles |-> IF rp[2] = p THEN 0 ELSE latest[rp]]
        /\ profiles' = profiles \ {p}
        /\ UNCHANGED <<status, owner, profile>>
    BY <1>3 DEF ProfileDelete, dbTasks
  <2>2. profile[u] \in profiles /\ profile[u] # p /\ status[u] = "done"
    BY <2>1
  <2>3. <<owner[u], profile[u]>> \in Rows \X Profiles
    BY <2>2 DEF IInv, TypeOK, Known
  <2> QED BY <2>1, <2>2, <2>3
<1>4. CASE Kept
  BY <1>4
<1>5. ASSUME NEW s \in Slots, CheckinCommit(s) PROVE Same
  BY <1>5 DEF CheckinCommit, dbScans
<1>6. ASSUME NEW s \in Slots, ResultCommit(s)
      PROVE  Same \/ \E t \in rq[s].tasks :
                 /\ rq[s].st = "new" /\ rq[s].kind = "result"
                 /\ t \in Tasks /\ owner[t] = owner[u]
                 /\ status[u] = "done" \/ u = t
                 /\ latest'[<<owner[u], profile[u]>>] = t
  <2>1. /\ rq[s] \in Request /\ rq[s].st = "new" /\ rq[s].kind = "result"
        /\ UNCHANGED <<owner, profile, profiles>>
    BY <1>6, ResultEffect
  <2>2. PICK t \in rq[s].tasks :
          /\ t \in Tasks /\ owner[t] = rq[s].row
          /\ \/ /\ Storable(rq[s], t)
                /\ status' = [v \in Tasks |-> IF v \in {t} THEN Recorded(rq[s]) ELSE status[v]]
                /\ latest' = IF WithResult(rq[s], t)
                             THEN [latest EXCEPT ![<<rq[s].row, profile[t]>>] = t]
                             ELSE latest
             \/ status' = status /\ latest' = latest
    BY <1>6, ResultEffect
  <2>3. CASE status' = status /\ latest' = latest
    BY <2>1, <2>3
  <2>4. CASE /\ Storable(rq[s], t)
             /\ status' = [v \in Tasks |-> IF v \in {t} THEN Recorded(rq[s]) ELSE status[v]]
             /\ latest' = IF WithResult(rq[s], t)
                          THEN [latest EXCEPT ![<<rq[s].row, profile[t]>>] = t]
                          ELSE latest
    <3>1. status[u] = "done" \/ (u = t /\ WithResult(rq[s], t))
      BY <2>1, <2>4 DEF Recorded, WithResult, IInv, TypeOK
    <3>2. <<owner[u], profile[u]>> \in Rows \X Profiles
      <4>1. owner[u] \in 1 .. lastRow
        <5>1. owner[u] \in 0 .. lastRow /\ lastRow \in Nat /\ live \subseteq 1 .. lastRow
          BY DEF IInv, TypeOK
        <5>2. status[u] = "done" => owner[u] # 0
          BY DEF IInv, Known
        <5>3. u = t => owner[u] \in live
          BY <2>2, <2>4 DEF Storable
        <5> QED BY <3>1, <5>1, <5>2, <5>3
      <4> QED BY <2>1, <4>1 DEF IInv, TypeOK
    <3>3. CASE WithResult(rq[s], t) /\ owner[u] = rq[s].row /\ profile[u] = profile[t]
      <4>1. latest'[<<owner[u], profile[u]>>] = t
        BY <2>4, <3>2, <3>3 DEF IInv, TypeOK
      <4> QED BY <2>1, <2>2, <3>1, <3>3, <4>1
    <3>4. CASE ~(WithResult(rq[s], t) /\ owner[u] = rq[s].row /\ profile[u] = profile[t])
      <4>1. status[u] = "done"
        BY <2>2, <3>1, <3>4
      <4>2. latest'[<<owner[u], profile[u]>>] = latest[<<owner[u], profile[u]>>]
        <5>1. \A x \in Rows \X Profiles : x = <<rq[s].row, profile[t]>> \/ latest'[x] = latest[x]
          BY <2>4 DEF IInv, TypeOK
        <5>2. WithResult(rq[s], t) => <<owner[u], profile[u]>> # <<rq[s].row, profile[t]>>
          BY <3>4
        <5> QED BY <2>4, <3>2, <5>1, <5>2
      <4> QED BY <2>1, <4>1, <4>2
    <3> QED BY <3>3, <3>4
  <2> QED BY <2>2, <2>3, <2>4
<1>7. CASE Operator
  BY <1>1, <1>2, <1>3, <1>7 DEF Operator, NewTask, ScanAll, PushSources
<1>8. ASSUME NEW a \in Agents, Agent(a) PROVE Kept
  BY <1>8 DEF Agent, Enroll, Checkin, Exec, ExecRaises, Receive, Timeout, Crash, Restart,
     dbTasks, dbScans
<1>9. ASSUME NEW s \in Slots, CheckinRead(s) \/ Reap(s) PROVE Kept
  BY <1>9 DEF CheckinRead, Reap, dbTasks, dbScans
<1>10. CASE UNCHANGED vars
  BY <1>10 DEF vars, dbTasks, dbScans
<1>11. CASE Kept \/ Same
  BY <1>4, <1>11
<1> HIDE DEF Kept, Same
<1>12. CASE \E s \in Slots : ResultCommit(s)
  BY <1>6, <1>12, <1>11, ResultEffect
<1> QED BY <1>5, <1>7, <1>8, <1>9, <1>10, <1>11, <1>12 DEF Next, Handler

\* A scan shown as done has its result row, for any order in which results,
\* deletions of hosts and profiles and late answers come.
THEOREM ScanHasResult == Spec => []ScanRecorded
<1>1. Init => ScanRecorded
  BY DEF Init, ScanRecorded
<1>2. IInv /\ OInv /\ ScanRecorded /\ [Next]_vars => ScanRecorded'
  <2> SUFFICES ASSUME IInv, OInv, ScanRecorded, [Next]_vars, NEW u \in Tasks,
                      status'[u] = "done", profile'[u] \in profiles'
               PROVE  latest'[<<owner'[u], profile'[u]>>] # 0
    BY DEF ScanRecorded
  <2>1. \A t \in Tasks : t # 0
    BY FleetAssumption DEF Tasks
  <2>2. owner'[u] = owner[u] /\ profile'[u] = profile[u] /\ profile[u] \in profiles
    BY ScanStep
  <2>3. CASE /\ status[u] = "done"
             /\ latest'[<<owner[u], profile[u]>>] = latest[<<owner[u], profile[u]>>]
    BY <2>2, <2>3 DEF ScanRecorded
  <2>4. CASE \E t \in Tasks : latest'[<<owner[u], profile[u]>>] = t
    BY <2>1, <2>2, <2>4
  <2> QED BY <2>3, <2>4, ScanStep
<1> QED BY <1>1, <1>2, OInvariance, PTL DEF Spec
===============================================================================
