--------------------------- MODULE FleetTasksProofs ---------------------------
(***************************************************************************)
(* Theorems about FleetTasks, for every fleet, every number of request     *)
(* slots and every set of faults.  AtMostOnce is not inductive: that a     *)
(* second, overlapping check-in never makes a machine execute a task again *)
(* rests on which requests are still awaited and by whom.  IInv says it.   *)
(***************************************************************************)
EXTENDS FleetTasks, FiniteSetTheorems, TLAPS

\* The next id splits the tasks into those with a row (or that had one) and
\* those without.
Known ==
  \A t \in Tasks : /\ status[t] = "none" <=> owner[t] = NoRow
                   /\ t > lastTask => status[t] = "none"

\* Nothing waiting to be handed out has been executed.
RunOnce ==
  \A t \in Tasks : runs[t] # 0 => runs[t] = 1 /\ status[t] \notin {"none", "pending"}

\* Credentials are the machine's own.
Creds ==
  \A a \in Agents : /\ conf[a] # NoRow => machine[conf[a]] = a
                    /\ mem[a] # NoRow => machine[mem[a]] = a

\* Only a waiting agent has a request of its own, and it is the agent's alone.
Awaited ==
  \A a \in Agents :
    /\ cur[a] # NoSlot => pc[a] \in {"checkin", "result"}
    /\ pc[a] \in {"checkin", "result"} =>
         /\ cur[a] \in Slots
         /\ rq[cur[a]].st # "free"
         /\ rq[cur[a]].kind = pc[a]
         /\ rq[cur[a]].row = mem[a]
         /\ \A b \in Agents : cur[b] = cur[a] => b = a

\* What a request carries belongs to the host it names.
Carried ==
  \A s \in Slots :
    /\ rq[s].st = "read" => rq[s].kind = "checkin"
    /\ rq[s].kind = "checkin" /\ rq[s].st \in {"read", "ok"} =>
         \A t \in rq[s].tasks : /\ owner[t] = rq[s].row
                                /\ status[t] # "none"
                                /\ rq[s].st = "ok" => status[t] # "pending"

\* What an awaited check-in will hand over has not been executed.
Undone ==
  \A a \in Agents :
    pc[a] = "checkin" /\ rq[cur[a]].st \in {"read", "ok"} =>
      \A t \in rq[cur[a]].tasks : runs[t] = 0

\* Neither has what an agent has left to do.
Todo ==
  \A a \in Agents :
    /\ batch[a] # {} => pc[a] \in {"work", "result"}
    /\ \A t \in batch[a] : /\ owner[t] = mem[a]
                           /\ runs[t] = 0
                           /\ status[t] \notin {"none", "pending"}

IInv == /\ TypeOK /\ Known /\ RunOnce /\ Creds
        /\ Awaited /\ Carried /\ Undone /\ Todo

-------------------------------------------------------------------------------
\* A set of host rows is finite, and a non-empty one has at least one member.
LEMMA RowsCount ==
  ASSUME TypeOK, NEW R \in SUBSET live, R # {}
  PROVE  Cardinality(R) \in Nat \ {0}
<1>1. IsFiniteSet(1 .. lastRow)
  BY FS_Interval, FleetAssumption DEF TypeOK
<1>2. R \subseteq 1 .. lastRow
  BY DEF TypeOK
<1>3. IsFiniteSet(R)
  BY <1>1, <1>2, FS_Subset
<1> QED BY <1>3, FS_CardinalityType, FS_EmptySet

\* Init establishes the invariant.
LEMMA InitInv == Init => IInv
<1> SUFFICES ASSUME Init PROVE IInv
  OBVIOUS
<1> USE FleetAssumption DEF Init, Rows, Tasks, NoRow, FreeSlot
<1>1. TypeOK
  BY DEF TypeOK, Statuses, Request
<1>2. Known /\ RunOnce /\ Creds
  BY DEF Known, RunOnce, Creds
<1>3. Awaited /\ Carried /\ Undone /\ Todo
  BY DEF Awaited, Carried, Undone, Todo
<1> QED BY <1>1, <1>2, <1>3 DEF IInv

\* Queueing tasks for a set of hosts.
LEMMA InsertStep ==
  ASSUME IInv, NEW R \in SUBSET live, NEW p \in Profiles \cup {NoProfile},
         InsertTasks(R, p)
  PROVE  IInv'
<1> DEFINE new == lastTask + 1 .. lastTask + Cardinality(R)
<1> USE FleetAssumption DEF Rows, Tasks, NoRow
<1>1. Cardinality(R) \in Nat \ {0}
  BY RowsCount DEF IInv, InsertTasks
<1>2. PICK f \in [new -> R] :
        owner' = [t \in Tasks |-> IF t \in new THEN f[t] ELSE owner[t]]
  BY DEF InsertTasks
<1>3. /\ new \subseteq Tasks
      /\ status' = [t \in Tasks |-> IF t \in new THEN "pending" ELSE status[t]]
      /\ profile' = [t \in Tasks |-> IF t \in new THEN p ELSE profile[t]]
      /\ lastTask' = lastTask + Cardinality(R)
      /\ UNCHANGED <<machine, live, lastRow, profiles, latest, pc, conf, mem,
                     batch, cur, rq, runs>>
  BY DEF InsertTasks, dbHosts, dbScans, agents
<1>4. \A t \in new : f[t] \in 1 .. lastRow
  BY DEF IInv, TypeOK
<1>5. lastTask' \in new
  BY <1>1, <1>3 DEF IInv, TypeOK
<1>6. \A t \in new : status[t] = "none" /\ owner[t] = NoRow /\ runs[t] = 0
  <2>1. \A t \in new : t \in Tasks /\ t > lastTask
    BY <1>1, <1>3 DEF IInv, TypeOK
  <2> QED BY <2>1 DEF IInv, TypeOK, Known, RunOnce
<1>7. TypeOK'
  <2>1. lastTask' \in 0 .. MaxTasks
    BY <1>3, <1>5
  <2>2. lastRow \in Nat /\ owner \in [Tasks -> 0 .. lastRow]
    BY DEF IInv, TypeOK
  <2>3. \A t \in Tasks : (IF t \in new THEN f[t] ELSE owner[t]) \in 0 .. lastRow
    BY <1>4, <2>2
  <2>4. owner' \in [Tasks -> 0 .. lastRow]
    BY <1>2, <2>3
  <2>5. status' \in [Tasks -> Statuses]
    BY <1>3 DEF IInv, TypeOK, Statuses
  <2>6. profile' \in [Tasks -> Profiles \cup {NoProfile}]
    BY <1>3 DEF IInv, TypeOK
  <2> QED BY <1>3, <2>1, <2>4, <2>5, <2>6 DEF IInv, TypeOK
<1>8. Known'
  BY <1>1, <1>2, <1>3, <1>4 DEF IInv, TypeOK, Known
<1>9. RunOnce' /\ Creds' /\ Awaited'
  BY <1>3, <1>6 DEF IInv, TypeOK, RunOnce, Creds, Awaited
<1>10. Carried' /\ Undone' /\ Todo'
  BY <1>2, <1>3, <1>6 DEF IInv, TypeOK, Carried, Undone, Todo, Request
<1> QED BY <1>7, <1>8, <1>9, <1>10 DEF IInv

\* Deleting a host.
LEMMA HostDeleteStep ==
  ASSUME IInv, NEW r \in Rows, HostDelete(r)
  PROVE  IInv'
<1> USE FleetAssumption DEF Rows, Tasks, NoRow, HostDelete, agents
<1>1. TypeOK'
  <2>1. status' \in [Tasks -> Statuses]
    BY DEF IInv, TypeOK, Statuses
  <2>2. latest' \in [Rows \X Profiles -> 0 .. MaxTasks]
    BY DEF IInv, TypeOK
  <2> QED BY <2>1, <2>2 DEF IInv, TypeOK
<1>2. Known'
  <2>1. /\ \A t \in Tasks : status'[t] = IF owner[t] = r THEN "gone" ELSE status[t]
        /\ r # NoRow /\ UNCHANGED <<machine, lastRow, owner, lastTask>>
    OBVIOUS
  <2> QED BY <2>1 DEF IInv, TypeOK, Known
<1>3. RunOnce' /\ Creds' /\ Awaited'
  BY DEF IInv, TypeOK, RunOnce, Creds, Awaited
<1>4. Carried' /\ Undone' /\ Todo'
  BY DEF IInv, TypeOK, Known, Carried, Undone, Todo, Request
<1> QED BY <1>1, <1>2, <1>3, <1>4 DEF IInv

\* Deleting a profile.
LEMMA ProfileDeleteStep ==
  ASSUME IInv, NEW p \in Profiles, ProfileDelete(p)
  PROVE  IInv'
<1>1. UNCHANGED <<machine, live, lastRow, status, owner, profile, lastTask,
                  pc, conf, mem, batch, cur, rq, runs>>
  BY DEF ProfileDelete, dbHosts, dbTasks, agents
<1>2. TypeOK'
  <2>1. profiles' \subseteq Profiles
    BY DEF IInv, TypeOK, ProfileDelete
  <2>2. latest' \in [Rows \X Profiles -> 0 .. MaxTasks]
    BY FleetAssumption DEF IInv, TypeOK, ProfileDelete
  <2> QED BY <1>1, <2>1, <2>2 DEF IInv, TypeOK
<1>3. Known' /\ RunOnce'
  BY <1>1 DEF IInv, Known, RunOnce
<1>4. Creds' /\ Awaited'
  BY <1>1 DEF IInv, Creds, Awaited
<1>5. Carried' /\ Undone'
  BY <1>1 DEF IInv, Carried, Undone
<1>6. Todo'
  BY <1>1 DEF IInv, Todo
<1> QED BY <1>2, <1>3, <1>4, <1>5, <1>6 DEF IInv

\* What operators do.
LEMMA OperatorStep == IInv /\ Operator => IInv'
<1> SUFFICES ASSUME IInv, Operator PROVE IInv'
  OBVIOUS
<1>1. ASSUME NEW r \in Rows, NEW p \in profiles \cup {NoProfile}, NewTask(r, p)
      PROVE  IInv'
  BY <1>1, InsertStep DEF NewTask, IInv, TypeOK
<1>2. ASSUME NEW ubuntu \in BOOLEAN, NEW p \in Profiles, ScanAll(ubuntu, p)
      PROVE  IInv'
  <2>1. {r \in live : Ubuntu(r) = ubuntu} \in SUBSET live
    OBVIOUS
  <2> QED BY <1>2, <2>1, InsertStep DEF ScanAll
<1>3. CASE PushSources
  <2>1. {r \in live : Ubuntu(r)} \in SUBSET live
    OBVIOUS
  <2> QED BY <1>3, <2>1, InsertStep DEF PushSources
<1> QED BY <1>1, <1>2, <1>3, HostDeleteStep, ProfileDeleteStep DEF Operator

-------------------------------------------------------------------------------
\* An agent that is down or idle has no request and nothing to do.
LEMMA AtRest ==
  ASSUME IInv, NEW a \in Agents, pc[a] \in {"down", "idle"}
  PROVE  batch[a] = {} /\ cur[a] = NoSlot
BY FleetAssumption DEF IInv, TypeOK, Todo, Awaited

\* Two agents never hold credentials of the same host, so neither tasks of it.
LEMMA OwnHost ==
  ASSUME IInv, NEW a \in Agents, NEW b \in Agents, NEW t \in Tasks,
         owner[t] = mem[a], owner[t] = mem[b], status[t] # "none"
  PROVE  a = b
BY FleetAssumption DEF IInv, TypeOK, Known, Creds

\* Enrolling gives a machine a row of its own.
LEMMA EnrollStep ==
  ASSUME IInv, NEW a \in Agents, Enroll(a)
  PROVE  IInv'
<1> USE FleetAssumption DEF Rows, Tasks, NoRow
<1>1. PICK r \in Rows :
        /\ \/ r \in live /\ machine[r] = a /\ UNCHANGED dbHosts
           \/ /\ r = lastRow + 1 /\ lastRow' = r /\ live' = live \cup {r}
              /\ machine' = [q \in 1 .. r |-> IF q = r THEN a ELSE machine[q]]
        /\ \/ /\ conf' = [conf EXCEPT ![a] = r]
              /\ IF pc[a] = "down"
                 THEN /\ pc' = [pc EXCEPT ![a] = "idle"]
                      /\ mem' = [mem EXCEPT ![a] = r]
                 ELSE UNCHANGED <<pc, mem>>
           \/ UNCHANGED <<conf, pc, mem>>
  BY DEF Enroll, EnrollRow, Install
<1>2. UNCHANGED <<batch, cur, status, owner, profile, lastTask, profiles, latest, rq, runs>>
  BY DEF Enroll, dbTasks, dbScans
<1>3. /\ lastRow' \in 0 .. MaxRows /\ lastRow <= lastRow' /\ r \in 1 .. lastRow'
      /\ machine' \in [1 .. lastRow' -> Agents] /\ machine'[r] = a
      /\ live' \subseteq 1 .. lastRow'
      /\ \A q \in 1 .. lastRow : machine'[q] = machine[q]
  <2>1. CASE r \in live /\ machine[r] = a /\ UNCHANGED dbHosts
    BY <2>1 DEF IInv, TypeOK, dbHosts
  <2>2. CASE /\ r = lastRow + 1 /\ lastRow' = r /\ live' = live \cup {r}
             /\ machine' = [q \in 1 .. r |-> IF q = r THEN a ELSE machine[q]]
    <3>1. lastRow' \in 0 .. MaxRows /\ lastRow <= lastRow' /\ r \in 1 .. lastRow'
      BY <2>2 DEF IInv, TypeOK
    <3>2. live' \subseteq 1 .. lastRow'
      BY <2>2 DEF IInv, TypeOK
    <3>3. \A q \in 1 .. lastRow : q \in 1 .. r /\ q # r /\ machine[q] \in Agents
      BY <2>2 DEF IInv, TypeOK
    <3>4. \A q \in 1 .. r : q = r \/ q \in 1 .. lastRow
      BY <2>2 DEF IInv, TypeOK
    <3> QED BY <2>2, <3>1, <3>2, <3>3, <3>4
  <2> QED BY <1>1, <2>1, <2>2
<1>4. /\ conf' \in [Agents -> 0 .. lastRow']
      /\ \A b \in Agents : conf'[b] = conf[b] \/ (b = a /\ conf'[b] = r)
  <2>1. conf' = conf \/ conf' = [conf EXCEPT ![a] = r]
    BY <1>1
  <2>2. conf \in [Agents -> 0 .. lastRow'] /\ r \in 0 .. lastRow'
    BY <1>3 DEF IInv, TypeOK
  <2> QED BY <2>1, <2>2
<1>5. /\ mem' \in [Agents -> 0 .. lastRow']
      /\ pc' \in [Agents -> {"down", "idle", "checkin", "work", "result"}]
      /\ \A b \in Agents : \/ mem'[b] = mem[b] /\ pc'[b] = pc[b]
                           \/ b = a /\ mem'[b] = r /\ pc[b] = "down" /\ pc'[b] = "idle"
  <2>1. \/ mem' = mem /\ pc' = pc
        \/ /\ mem' = [mem EXCEPT ![a] = r] /\ pc' = [pc EXCEPT ![a] = "idle"]
           /\ pc[a] = "down"
    BY <1>1
  <2>2. mem \in [Agents -> 0 .. lastRow'] /\ r \in 0 .. lastRow'
    BY <1>3 DEF IInv, TypeOK
  <2>3. pc \in [Agents -> {"down", "idle", "checkin", "work", "result"}]
    BY DEF IInv, TypeOK
  <2> QED BY <2>1, <2>2, <2>3
<1>6. TypeOK'
  <2>1. owner' \in [Tasks -> 0 .. lastRow']
    BY <1>2, <1>3 DEF IInv, TypeOK
  <2> QED BY <1>2, <1>3, <1>4, <1>5, <2>1 DEF IInv, TypeOK
<1>7. Creds'
  <2>1. \A b \in Agents : /\ conf[b] \in 0 .. lastRow /\ mem[b] \in 0 .. lastRow
                          /\ conf[b] # NoRow => conf[b] \in 1 .. lastRow
                          /\ mem[b] # NoRow => mem[b] \in 1 .. lastRow
    BY DEF IInv, TypeOK
  <2>2. ASSUME NEW b \in Agents, conf'[b] # NoRow
        PROVE  machine'[conf'[b]] = b
    BY <1>3, <1>4, <2>1, <2>2 DEF IInv, Creds
  <2>3. ASSUME NEW b \in Agents, mem'[b] # NoRow
        PROVE  machine'[mem'[b]] = b
    BY <1>3, <1>5, <2>1, <2>3 DEF IInv, Creds
  <2> QED BY <2>2, <2>3 DEF Creds
<1>8. Known' /\ RunOnce' /\ Carried'
  BY <1>2 DEF IInv, Known, RunOnce, Carried
<1>9. pc[a] = "down" => batch[a] = {} /\ cur[a] = NoSlot
  BY AtRest
<1>10. Awaited' /\ Undone'
  BY <1>2, <1>5, <1>9 DEF IInv, Awaited, Undone
<1>11. Todo'
  BY <1>2, <1>5, <1>9 DEF IInv, Todo
<1> QED BY <1>6, <1>7, <1>8, <1>10, <1>11 DEF IInv

\* A check-in is sent in a free slot and names a row of its machine.
LEMMA CheckinStep ==
  ASSUME IInv, NEW a \in Agents, NEW s \in Slots, Checkin(a, s)
  PROVE  IInv'
<1> USE FleetAssumption DEF Rows, Tasks, NoRow
<1> DEFINE me == Me(a)
<1>1. /\ pc[a] = "idle" /\ batch[a] = {} /\ cur[a] = NoSlot
      /\ rq[s].st = "free"
      /\ \A b \in Agents : cur[b] # s
  <2>1. pc[a] = "idle" /\ rq[s].st = "free"
    BY DEF Checkin, Send
  <2>2. batch[a] = {} /\ cur[a] = NoSlot
    BY <2>1, AtRest
  <2>3. \A b \in Agents : cur[b] # s
    BY <2>1 DEF IInv, Awaited
  <2> QED BY <2>1, <2>2, <2>3
<1>2. /\ rq' = [rq EXCEPT ![s] = [st |-> "new", kind |-> "checkin", row |-> me,
                                  tasks |-> {}, verdict |-> "done"]]
      /\ cur' = [cur EXCEPT ![a] = s]
      /\ pc' = [pc EXCEPT ![a] = "checkin"]
      /\ mem' = [mem EXCEPT ![a] = me]
      /\ UNCHANGED <<machine, live, lastRow, status, owner, profile, lastTask,
                     profiles, latest, conf, batch, runs>>
  BY DEF Checkin, Send, dbHosts, dbTasks, dbScans
<1>3. /\ me \in 0 .. lastRow /\ me \in Rows \cup {NoRow}
      /\ me # NoRow => machine[me] = a
  BY DEF Me, IInv, TypeOK, Creds
<1> HIDE DEF me
<1>4. TypeOK'
  BY <1>2, <1>3 DEF IInv, TypeOK, Request
<1>5. Known' /\ RunOnce' /\ Creds'
  BY <1>2, <1>3 DEF IInv, TypeOK, Known, RunOnce, Creds
<1>6. Awaited'
  BY <1>1, <1>2 DEF IInv, TypeOK, Awaited
<1>7. Carried' /\ Undone' /\ Todo'
  BY <1>1, <1>2 DEF IInv, TypeOK, Awaited, Carried, Undone, Todo
<1> QED BY <1>4, <1>5, <1>6, <1>7 DEF IInv

\* An execution concerns a task no other agent and no awaited answer has.
LEMMA ExecStep ==
  ASSUME IInv, NEW a \in Agents, NEW s \in Slots, Exec(a, s)
  PROVE  IInv'
<1> USE FleetAssumption DEF Rows, Tasks, NoRow
<1>1. PICK t \in batch[a], v \in {"done", "failed", "garbled"} :
        /\ runs' = [runs EXCEPT ![t] = @ + 1]
        /\ batch' = [batch EXCEPT ![a] = @ \ {t}]
        /\ rq[s].st = "free"
        /\ rq' = [rq EXCEPT ![s] = [st |-> "new", kind |-> "result", row |-> mem[a],
                                    tasks |-> {t}, verdict |-> v]]
        /\ cur' = [cur EXCEPT ![a] = s]
        /\ pc' = [pc EXCEPT ![a] = "result"]
  BY DEF Exec, Send, Verdicts
<1>2. /\ pc[a] = "work"
      /\ UNCHANGED <<machine, live, lastRow, status, owner, profile, lastTask,
                     profiles, latest, conf, mem>>
  BY DEF Exec, dbHosts, dbTasks, dbScans
<1>3. /\ t \in Tasks /\ owner[t] = mem[a] /\ runs[t] = 0
      /\ status[t] \notin {"none", "pending"}
  BY DEF IInv, TypeOK, Todo
<1>4. \A b \in Agents : cur[b] # s
  BY <1>1 DEF IInv, TypeOK, Awaited
<1>5. \A b \in Agents : b # a => t \notin batch[b]
  BY <1>3, OwnHost DEF IInv, Todo
<1>6. \A b \in Agents : pc[b] = "checkin" /\ rq[cur[b]].st \in {"read", "ok"}
                          => t \notin rq[cur[b]].tasks
  BY <1>2, <1>3, OwnHost DEF IInv, Awaited, Carried
<1>7. TypeOK'
  <2> DEFINE q == [st |-> "new", kind |-> "result", row |-> mem[a],
                   tasks |-> {t}, verdict |-> v]
  <2>1. mem[a] \in Rows \cup {NoRow}
    BY DEF IInv, TypeOK
  <2>2. q \in Request
    BY <1>3, <2>1 DEF Request
  <2>3. rq' \in [Slots -> Request]
    BY <1>1, <2>2 DEF IInv, TypeOK
  <2>4. runs \in [Tasks -> Nat] /\ batch \in [Agents -> SUBSET Tasks]
    BY DEF IInv, TypeOK
  <2>5. runs' \in [Tasks -> Nat]
    BY <1>1, <2>4
  <2>6. batch' \in [Agents -> SUBSET Tasks]
    BY <1>1, <2>4
  <2>7. /\ cur' \in [Agents -> Slots \cup {NoSlot}]
        /\ pc' \in [Agents -> {"down", "idle", "checkin", "work", "result"}]
    BY <1>1 DEF IInv, TypeOK
  <2> QED BY <1>2, <2>3, <2>5, <2>6, <2>7 DEF IInv, TypeOK
<1>8. Known' /\ RunOnce' /\ Creds'
  BY <1>1, <1>2, <1>3 DEF IInv, TypeOK, Known, RunOnce, Creds
<1>9. Awaited'
  BY <1>1, <1>2, <1>4 DEF IInv, TypeOK, Awaited
<1>10. Carried'
  BY <1>1, <1>2 DEF IInv, TypeOK, Carried
<1>11. Undone'
  BY <1>1, <1>2, <1>3, <1>4, <1>6 DEF IInv, TypeOK, Undone, Awaited
<1>12. Todo'
  BY <1>1, <1>2, <1>3, <1>5 DEF IInv, TypeOK, Todo
<1> QED BY <1>7, <1>8, <1>9, <1>10, <1>11, <1>12 DEF IInv

\* GiveUp and a crash: the agent forgets its batch and stops waiting; nobody
\* waits for its request, which stays as it was or is freed.
LEMMA ForgetStep ==
  ASSUME IInv, NEW a \in Agents, NEW to \in {"idle", "down"},
         pc' = [pc EXCEPT ![a] = to],
         batch' = [batch EXCEPT ![a] = {}],
         cur' = [cur EXCEPT ![a] = NoSlot],
         rq' = rq \/ (Waiting(a) /\ rq' = [rq EXCEPT ![cur[a]] = FreeSlot]),
         UNCHANGED <<machine, live, lastRow, status, owner, profile, lastTask,
                     profiles, latest, conf, mem>>,
         runs' = runs \/ \E t \in batch[a] : runs' = [runs EXCEPT ![t] = @ + 1]
  PROVE  IInv'
<1> USE FleetAssumption DEF Rows, Tasks, NoRow
<1>1. /\ rq' \in [Slots -> Request]
      /\ \A s \in Slots : rq'[s] = rq[s] \/ (cur[a] = s /\ rq'[s] = FreeSlot)
  <2>1. FreeSlot \in Request
    BY DEF FreeSlot, Request
  <2>2. Waiting(a) => cur[a] \in Slots
    BY DEF IInv, Awaited, Waiting
  <2>3. CASE rq' = rq
    BY <2>3 DEF IInv, TypeOK
  <2>4. CASE Waiting(a) /\ rq' = [rq EXCEPT ![cur[a]] = FreeSlot]
    BY <2>1, <2>2, <2>4 DEF IInv, TypeOK
  <2> QED BY <2>3, <2>4
<1>2. /\ runs' \in [Tasks -> Nat]
      /\ \A t \in Tasks : \/ runs'[t] = runs[t]
                          \/ /\ t \in batch[a] /\ runs'[t] = 1 /\ owner[t] = mem[a]
                             /\ status[t] \notin {"none", "pending"}
  <2>1. runs \in [Tasks -> Nat]
    BY DEF IInv, TypeOK
  <2>2. \A t \in batch[a] : /\ t \in Tasks /\ runs[t] = 0 /\ owner[t] = mem[a]
                             /\ status[t] \notin {"none", "pending"}
    BY DEF IInv, TypeOK, Todo
  <2>3. CASE runs' = runs
    BY <2>1, <2>3
  <2>4. ASSUME NEW t \in batch[a], runs' = [runs EXCEPT ![t] = @ + 1]
        PROVE  <1>2
    BY <2>1, <2>2, <2>4
  <2> QED BY <2>3, <2>4
<1>3. TypeOK'
  <2>1. pc' \in [Agents -> {"down", "idle", "checkin", "work", "result"}]
    BY DEF IInv, TypeOK
  <2>2. batch' \in [Agents -> SUBSET Tasks]
    BY DEF IInv, TypeOK
  <2>3. cur' \in [Agents -> Slots \cup {NoSlot}]
    BY DEF IInv, TypeOK
  <2> QED BY <1>1, <1>2, <2>1, <2>2, <2>3 DEF IInv, TypeOK
<1>4. Known' /\ RunOnce' /\ Creds'
  BY <1>2 DEF IInv, TypeOK, Known, RunOnce, Creds
<1>5. \A b \in Agents : Waiting(b) /\ b # a => rq'[cur[b]] = rq[cur[b]]
  BY <1>1 DEF IInv, Awaited, Waiting
<1>6. Awaited'
  BY <1>5 DEF IInv, TypeOK, Awaited, Waiting
<1>7. Carried'
  BY <1>1 DEF IInv, TypeOK, Carried, FreeSlot
<1>8. Undone'
  <2> SUFFICES ASSUME NEW b \in Agents, pc'[b] = "checkin",
                      rq'[cur'[b]].st \in {"read", "ok"},
                      NEW t \in rq'[cur'[b]].tasks
               PROVE  runs'[t] = 0
    BY DEF Undone
  <2>1. b # a /\ pc[b] = "checkin" /\ cur'[b] = cur[b] /\ rq'[cur[b]] = rq[cur[b]]
    BY <1>5 DEF IInv, TypeOK, Waiting
  <2>2. t \in Tasks /\ owner[t] = mem[b] /\ status[t] # "none" /\ runs[t] = 0
    BY <2>1 DEF IInv, TypeOK, Request, Awaited, Carried, Undone
  <2> QED BY <1>2, <2>1, <2>2, OwnHost
<1>9. Todo'
  <2> SUFFICES ASSUME NEW b \in Agents, b # a, NEW t \in batch[b]
               PROVE  runs'[t] = 0
    BY DEF IInv, TypeOK, Todo
  <2>1. t \in Tasks /\ owner[t] = mem[b] /\ status[t] # "none" /\ runs[t] = 0
    BY DEF IInv, TypeOK, Todo
  <2> QED BY <1>2, <2>1, OwnHost
<1> QED BY <1>3, <1>4, <1>6, <1>7, <1>8, <1>9 DEF IInv

\* What an agent receives becomes its batch: it waited for it, so it is Undone.
LEMMA ReceiveStep ==
  ASSUME IInv, NEW a \in Agents, Receive(a)
  PROVE  IInv'
<1> USE FleetAssumption DEF Rows, Tasks, NoRow
<1> DEFINE s == cur[a]
           todo == IF pc[a] = "checkin" THEN rq[s].tasks ELSE batch[a]
<1>1. /\ Waiting(a) /\ s \in Slots /\ rq[s].kind = pc[a] /\ rq[s].row = mem[a]
      /\ rq[s].st \in {"ok", "err"}
      /\ rq' = [rq EXCEPT ![s] = FreeSlot]
      /\ UNCHANGED <<machine, live, lastRow, status, owner, profile, lastTask,
                     profiles, latest, conf, mem, runs>>
  BY DEF Receive, GiveUp, IInv, Awaited, Waiting, dbHosts, dbTasks, dbScans
<1>2. CASE rq[s].st = "err"
  BY <1>1, <1>2, ForgetStep DEF Receive, GiveUp
<1>3. CASE rq[s].st = "ok"
  <2>1. /\ batch' = [batch EXCEPT ![a] = todo]
        /\ pc' = [pc EXCEPT ![a] = IF todo = {} THEN "idle" ELSE "work"]
        /\ cur' = [cur EXCEPT ![a] = NoSlot]
    BY <1>1, <1>3 DEF Receive
  <2>2. \A t \in todo : /\ t \in Tasks /\ owner[t] = mem[a] /\ runs[t] = 0
                        /\ status[t] \notin {"none", "pending"}
    BY <1>1, <1>3 DEF Waiting, IInv, TypeOK, Request, Carried, Undone, Todo
  <2>3. TypeOK'
    <3>1. rq' \in [Slots -> Request]
      BY <1>1 DEF IInv, TypeOK, Request, FreeSlot
    <3> QED BY <1>1, <2>1, <2>2, <3>1 DEF IInv, TypeOK
  <2>4. Known' /\ RunOnce' /\ Creds'
    BY <1>1 DEF IInv, TypeOK, Known, RunOnce, Creds
  <2>5. \A b \in Agents : pc[b] \in {"checkin", "result"} /\ b # a
                            => cur[b] # s /\ rq'[cur[b]] = rq[cur[b]]
    BY <1>1 DEF IInv, TypeOK, Awaited
  <2>6. Awaited'
    BY <1>1, <2>1, <2>5 DEF IInv, TypeOK, Awaited
  <2>7. Carried'
    BY <1>1 DEF IInv, TypeOK, Carried, FreeSlot
  <2>8. Undone'
    BY <1>1, <2>1, <2>5 DEF IInv, TypeOK, Undone
  <2>9. Todo'
    BY <1>1, <2>1, <2>2 DEF IInv, TypeOK, Todo
  <2> QED BY <2>3, <2>4, <2>6, <2>7, <2>8, <2>9 DEF IInv
<1> QED BY <1>1, <1>2, <1>3

\* A machine that comes back has an empty batch and its conf file's row.
LEMMA RestartStep ==
  ASSUME IInv, NEW a \in Agents, Restart(a)
  PROVE  IInv'
<1> USE FleetAssumption DEF Rows, Tasks, NoRow, Restart, dbHosts, dbTasks, dbScans
<1>1. TypeOK'
  BY DEF IInv, TypeOK
<1>2. Known' /\ RunOnce' /\ Creds' /\ Carried'
  BY DEF IInv, TypeOK, Known, RunOnce, Creds, Carried
<1>3. batch[a] = {} /\ cur[a] = NoSlot
  BY AtRest
<1>4. \A b \in Agents : \/ b = a /\ pc'[b] = "idle"
                        \/ b # a /\ pc'[b] = pc[b] /\ mem'[b] = mem[b]
  BY DEF IInv, TypeOK
<1>5. Awaited' /\ Undone' /\ Todo'
  BY <1>3, <1>4 DEF IInv, Awaited, Undone, Todo
<1> QED BY <1>1, <1>2, <1>5 DEF IInv

\* What agents do, and what is done to them.
LEMMA AgentStep ==
  ASSUME IInv, NEW a \in Agents, Agent(a)
  PROVE  IInv'
<1>1. CASE ExecRaises(a)
  BY <1>1, ForgetStep DEF ExecRaises, GiveUp, dbHosts, dbTasks, dbScans
<1>2. CASE Timeout(a)
  BY <1>2, ForgetStep DEF Timeout, GiveUp, Lose, Outlive, dbHosts, dbTasks, dbScans
<1>3. CASE Crash(a)
  BY <1>3, ForgetStep DEF Crash, Lose, Outlive, dbHosts, dbTasks, dbScans
<1> QED BY <1>1, <1>2, <1>3, EnrollStep, CheckinStep, ExecStep, ReceiveStep,
           RestartStep DEF Agent

-------------------------------------------------------------------------------
\* A check-in reads pending tasks of its host, which have not run.
LEMMA CheckinReadStep ==
  ASSUME IInv, NEW s \in Slots, CheckinRead(s)
  PROVE  IInv'
<1> USE FleetAssumption DEF Rows, Tasks, NoRow
<1>1. /\ rq[s].st = "new" /\ rq[s].kind = "checkin"
      /\ UNCHANGED <<machine, live, lastRow, status, owner, profile, lastTask,
                     profiles, latest, pc, conf, mem, batch, cur, runs>>
  BY DEF CheckinRead, dbHosts, dbTasks, dbScans, agents
<1>2. PICK q \in Request :
        /\ rq' = [rq EXCEPT ![s] = q]
        /\ q.kind = "checkin" /\ q.row = rq[s].row /\ q.st \in {"read", "err"}
        /\ q.st = "read" => q.tasks = Due(rq[s].row)
  <2> DEFINE pending == Due(rq[s].row)
             q == IF rq[s].row \in live
                  THEN [rq[s] EXCEPT !.st = "read", !.tasks = pending]
                  ELSE [rq[s] EXCEPT !.st = "err"]
  <2>1. rq[s] \in Request
    BY DEF IInv, TypeOK
  <2>2. q \in Request /\ q.kind = "checkin" /\ q.row = rq[s].row
        /\ q.st \in {"read", "err"} /\ (q.st = "read" => q.tasks = pending)
    BY <1>1, <2>1 DEF Request, Due
  <2>3. rq' = [rq EXCEPT ![s] = q]
    BY DEF CheckinRead, IInv, TypeOK
  <2> QED BY <2>2, <2>3
<1>3. TypeOK'
  BY <1>1, <1>2 DEF IInv, TypeOK
<1>4. Known' /\ RunOnce' /\ Creds' /\ Todo'
  BY <1>1 DEF IInv, Known, RunOnce, Creds, Todo
<1>5. Awaited'
  BY <1>1, <1>2 DEF IInv, TypeOK, Awaited
<1>6. Carried'
  BY <1>1, <1>2 DEF IInv, TypeOK, Carried, Due
<1>7. Undone'
  BY <1>1, <1>2 DEF IInv, TypeOK, Undone, RunOnce, Awaited, Due
<1> QED BY <1>3, <1>4, <1>5, <1>6, <1>7 DEF IInv

\* The other handlers change the state and the answer of a request, and give the
\* tasks T, all with a row, a status past "pending".
LEMMA AnswerStep ==
  ASSUME IInv, NEW s \in Slots, NEW st \in {"ok", "err"}, NEW T \in SUBSET Tasks,
         rq[s].st = "read" \/ (rq[s].st = "new" /\ rq[s].kind = "result"),
         rq' = [rq EXCEPT ![s].st = st],
         \A t \in T : status[t] # "none",
         NEW v \in {"sent", "done", "failed"},
         status' = [t \in Tasks |-> IF t \in T THEN v ELSE status[t]],
         rq[s].kind = "checkin" /\ st = "ok" => rq[s].tasks \subseteq T,
         latest' \in [Rows \X Profiles -> 0 .. MaxTasks],
         UNCHANGED <<machine, live, lastRow, owner, profile, lastTask,
                     profiles, pc, conf, mem, batch, cur, runs>>
  PROVE  IInv'
<1> USE FleetAssumption DEF Rows, Tasks, NoRow
<1>1. /\ rq' \in [Slots -> Request]
      /\ rq'[s].st = st /\ rq'[s].kind = rq[s].kind /\ rq'[s].row = rq[s].row
      /\ rq'[s].tasks = rq[s].tasks
      /\ \A r \in Slots : r # s => rq'[r] = rq[r]
  <2>1. rq \in [Slots -> Request]
    BY DEF IInv, TypeOK
  <2>2. [rq[s] EXCEPT !.st = st] \in Request
    BY <2>1 DEF Request
  <2>3. /\ rq'[s] = [rq[s] EXCEPT !.st = st]
        /\ \A r \in Slots : r # s => rq'[r] = rq[r]
    BY <2>1
  <2>4. rq' \in [Slots -> Request]
    BY <2>1, <2>2
  <2>5. rq[s] \in Request
    BY <2>1
  <2>6. /\ rq'[s].st = st /\ rq'[s].kind = rq[s].kind /\ rq'[s].row = rq[s].row
        /\ rq'[s].tasks = rq[s].tasks
    BY <2>3, <2>5 DEF Request
  <2> QED BY <2>3, <2>4, <2>6
<1>2. TypeOK'
  BY <1>1 DEF IInv, TypeOK, Statuses
<1>3. Known' /\ RunOnce' /\ Creds' /\ Todo'
  BY DEF IInv, TypeOK, Known, RunOnce, Creds, Todo
<1>4. Awaited'
  BY <1>1 DEF IInv, TypeOK, Awaited
<1>5. Carried'
  <2>1. \A r \in Slots : rq[r].tasks \subseteq Tasks
    BY DEF IInv, TypeOK, Request
  <2>2. \A t \in Tasks : /\ status[t] # "none" => status'[t] # "none"
                         /\ status[t] \notin {"none", "pending"} =>
                              status'[t] \notin {"none", "pending"}
                         /\ t \in T => status'[t] \notin {"none", "pending"}
    BY DEF IInv, TypeOK
  <2> QED BY <1>1, <2>1, <2>2 DEF IInv, Carried
<1>6. Undone'
  <2> SUFFICES ASSUME NEW a \in Agents, pc[a] = "checkin",
                      rq'[cur[a]].st \in {"read", "ok"}, NEW t \in rq'[cur[a]].tasks
               PROVE  runs[t] = 0
    BY DEF Undone
  <2>1. cur[a] \in Slots /\ rq[cur[a]].kind = "checkin"
    BY DEF IInv, Awaited
  <2> QED BY <1>1, <2>1 DEF IInv, Undone
<1> QED BY <1>2, <1>3, <1>4, <1>5, <1>6 DEF IInv

\* The commit sends what was read; other answers keep tasks that have not run.
LEMMA CheckinCommitStep ==
  ASSUME IInv, NEW s \in Slots, CheckinCommit(s)
  PROVE  IInv'
<1>1. /\ rq[s].st = "read" /\ rq[s].kind = "checkin" /\ rq[s].tasks \in SUBSET Tasks
      /\ \A t \in rq[s].tasks : status[t] # "none"
  BY DEF CheckinCommit, IInv, TypeOK, Request, Carried
<1>2. /\ latest' \in [Rows \X Profiles -> 0 .. MaxTasks]
      /\ UNCHANGED <<machine, live, lastRow, owner, profile, lastTask,
                     profiles, pc, conf, mem, batch, cur, runs>>
  BY DEF CheckinCommit, dbHosts, dbScans, agents, IInv, TypeOK
<1>3. CASE rq[s].row \in live
  BY <1>1, <1>2, <1>3, AnswerStep DEF CheckinCommit, Answer
<1>4. CASE rq[s].row \notin live
  <2>1. status' = [t \in Tasks |-> IF t \in {} THEN "sent" ELSE status[t]]
    BY <1>4 DEF CheckinCommit, IInv, TypeOK
  <2>2. rq' = [rq EXCEPT ![s].st = "err"]
    BY <1>4 DEF CheckinCommit, Answer
  <2>3. {} \in SUBSET Tasks /\ \A t \in {} : status[t] # "none"
    OBVIOUS
  <2> QED BY <1>1, <1>2, <2>1, <2>2, <2>3, AnswerStep
<1> QED BY <1>3, <1>4

\* A verdict or a dropped result moves no task into a batch or an answer.
LEMMA ResultCommitStep ==
  ASSUME IInv, NEW s \in Slots, ResultCommit(s)
  PROVE  IInv'
<1> USE FleetAssumption DEF Rows, Tasks, NoRow
<1> DEFINE q == rq[s]
<1>1. /\ q.st = "new" /\ q.kind = "result" /\ q.tasks \subseteq Tasks
      /\ q.row \in Rows \cup {NoRow} /\ Recorded(q) \in {"done", "failed"}
      /\ UNCHANGED <<machine, live, lastRow, owner, profile, lastTask,
                     profiles, pc, conf, mem, batch, cur, runs>>
  BY DEF ResultCommit, dbHosts, agents, IInv, TypeOK, Request, Recorded
<1>2. PICK t \in q.tasks :
        IF Storable(q, t)
        THEN /\ status' = [status EXCEPT ![t] = Recorded(q)]
             /\ latest' = IF WithResult(q, t)
                          THEN [latest EXCEPT ![<<q.row, profile[t]>>] = t] ELSE latest
             /\ rq' = [rq EXCEPT ![s].st = "ok"]
        ELSE /\ rq' = [rq EXCEPT ![s].st = "err"]
             /\ UNCHANGED <<status, latest>>
  BY DEF ResultCommit, Answer, Newest
<1>3. t \in Tasks
  BY <1>1
<1>4. CASE Storable(q, t)
  <2>1. status[t] # "none"
    BY <1>3, <1>4 DEF Storable, IInv, TypeOK, Known
  <2>2. status' = [u \in Tasks |-> IF u \in {t} THEN Recorded(q) ELSE status[u]]
    BY <1>2, <1>4 DEF IInv, TypeOK
  <2>3. latest' \in [Rows \X Profiles -> 0 .. MaxTasks]
    <3>1. latest \in [Rows \X Profiles -> 0 .. MaxTasks] /\ t \in 0 .. MaxTasks
      BY <1>3 DEF IInv, TypeOK
    <3> QED BY <1>2, <1>4, <3>1
  <2>4. rq' = [rq EXCEPT ![s].st = "ok"] /\ {t} \in SUBSET Tasks
        /\ \A u \in {t} : status[u] # "none"
    BY <1>2, <1>3, <1>4, <2>1
  <2> HIDE DEF q, Tasks, Rows, NoRow
  <2> QED BY <1>1, <2>2, <2>3, <2>4, AnswerStep DEF q
<1>5. CASE ~Storable(q, t)
  <2>1. status' = [u \in Tasks |-> IF u \in {} THEN "sent" ELSE status[u]]
    BY <1>2, <1>5 DEF IInv, TypeOK
  <2>2. latest' \in [Rows \X Profiles -> 0 .. MaxTasks]
    BY <1>2, <1>5 DEF IInv, TypeOK
  <2>3. rq' = [rq EXCEPT ![s].st = "err"] /\ {} \in SUBSET Tasks
        /\ \A u \in {} : status[u] # "none"
    BY <1>2, <1>5
  <2> HIDE DEF q, Tasks, Rows, NoRow
  <2> QED BY <1>1, <2>1, <2>2, <2>3, AnswerStep DEF q
<1> QED BY <1>4, <1>5

\* A closed connection frees a slot for which no agent waits.
LEMMA ReapStep ==
  ASSUME IInv, NEW s \in Slots, Reap(s)
  PROVE  IInv'
<1> USE FleetAssumption DEF Rows, Tasks, NoRow
<1>1. /\ rq' = [rq EXCEPT ![s] = FreeSlot]
      /\ \A a \in Agents : cur[a] # s
      /\ UNCHANGED <<machine, live, lastRow, status, owner, profile, lastTask,
                     profiles, latest, pc, conf, mem, batch, cur, runs>>
  BY DEF Reap, dbHosts, dbTasks, dbScans, agents
<1>2. TypeOK'
  <2>1. FreeSlot \in Request
    BY DEF FreeSlot, Request
  <2> QED BY <1>1, <2>1 DEF IInv, TypeOK
<1>3. Known' /\ RunOnce' /\ Creds' /\ Todo'
  BY <1>1 DEF IInv, Known, RunOnce, Creds, Todo
<1>4. \A a \in Agents : cur[a] \in Slots => rq'[cur[a]] = rq[cur[a]]
  BY <1>1 DEF IInv, TypeOK
<1>5. Awaited' /\ Undone'
  BY <1>1, <1>4 DEF IInv, Awaited, Undone
<1>6. Carried'
  BY <1>1 DEF IInv, TypeOK, Carried, FreeSlot
<1> QED BY <1>2, <1>3, <1>5, <1>6 DEF IInv

-------------------------------------------------------------------------------
\* Every step preserves the invariant.
LEMMA StepInv == IInv /\ [Next]_vars => IInv'
<1> SUFFICES ASSUME IInv, [Next]_vars PROVE IInv'
  OBVIOUS
<1>1. CASE UNCHANGED vars
  BY <1>1 DEF vars, dbHosts, dbTasks, dbScans, agents, IInv, TypeOK, Known, RunOnce,
              Creds, Awaited, Carried, Undone, Todo
<1>2. ASSUME NEW s \in Slots, Handler(s) PROVE IInv'
  BY <1>2, CheckinReadStep, CheckinCommitStep, ResultCommitStep, ReapStep DEF Handler
<1> QED BY <1>1, <1>2, OperatorStep, AgentStep DEF Next

\* The invariant holds in every reachable state.
LEMMA Invariance == Spec => []IInv
BY InitInv, StepInv, PTL DEF Spec

\* The tables, the agents and the requests stay what they are declared to be:
\* in particular no credentials name a host row the database never gave out.
THEOREM TypeCorrect == Spec => []TypeOK
<1>1. IInv => TypeOK
  BY DEF IInv
<1> QED BY <1>1, Invariance, PTL

\* No task is executed twice, for any fleet, any number of overlapping requests
\* and every combination of losses, stragglers, crashes and raising tasks.
THEOREM ExecutedAtMostOnce == Spec => []AtMostOnce
<1>1. IInv => AtMostOnce
  <2> SUFFICES ASSUME IInv, NEW t \in Tasks PROVE runs[t] <= 1
    BY DEF AtMostOnce
  <2>1. runs[t] \in {0, 1}
    BY DEF IInv, RunOnce
  <2> QED BY <2>1
<1> QED BY <1>1, Invariance, PTL

\* A machine holds only tasks queued for it, whatever host rows it has had.
THEOREM HoldsOwnTasksOnly == Spec => []OwnTasksOnly
<1>1. IInv => OwnTasksOnly
  BY FleetAssumption DEF IInv, TypeOK, Known, Creds, Todo, OwnTasksOnly, Tasks, NoRow
<1> QED BY <1>1, Invariance, PTL
===============================================================================
