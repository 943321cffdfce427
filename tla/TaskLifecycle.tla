---------------------------- MODULE TaskLifecycle ----------------------------
(***************************************************************************)
(* What the task table promises an operator, without hosts, agents or the  *)
(* network: "pending -> sent -> done | failed" (server/app/models.py:86),  *)
(* each task executed at most once, a verdict only after an execution, and *)
(* removal with its host at any time.  FleetTasks implements it as long as *)
(* no request outlives the agent that sent it.                             *)
(***************************************************************************)
EXTENDS Naturals

CONSTANT Tasks              \* the task ids

VARIABLES status,           \* status[t]: the column Task.status; "none" before
                            \* the row exists, "gone" once it is deleted
          runs              \* runs[t]: how often a managed host executed t

lvars == <<status, runs>>

Statuses == {"none", "pending", "sent", "done", "failed", "gone"}

LTypeOK == /\ status \in [Tasks -> Statuses]
           /\ runs \in [Tasks -> Nat]

LInit == /\ status = [t \in Tasks |-> "none"]
         /\ runs = [t \in Tasks |-> 0]

\* Tasks in T move to status st.
Move(T, st) == status' = [t \in Tasks |-> IF t \in T THEN st ELSE status[t]]

\* Operators queue the tasks T.
Queue(T) == /\ \A t \in T : status[t] = "none"
            /\ Move(T, "pending")
            /\ UNCHANGED runs

\* One check-in hands out the tasks T.
Send(T) == /\ \A t \in T : status[t] = "pending"
           /\ Move(T, "sent")
           /\ UNCHANGED runs

\* A host executes t.  Deleting the host does not call back a task already
\* handed out, so a deleted task may still be executed.
Run(t) == /\ status[t] \in {"sent", "gone"}
          /\ runs[t] = 0
          /\ runs' = [runs EXCEPT ![t] = 1]
          /\ UNCHANGED status

\* The verdict on t is recorded.
Report(t) == /\ status[t] = "sent"
             /\ runs[t] = 1
             /\ \E st \in {"done", "failed"} : Move({t}, st)
             /\ UNCHANGED runs

\* The rows T disappear with their host.
Purge(T) == /\ \A t \in T : status[t] # "none"
            /\ Move(T, "gone")
            /\ UNCHANGED runs

LNext == \/ \E T \in SUBSET Tasks : Queue(T) \/ Send(T) \/ Purge(T)
         \/ \E t \in Tasks : Run(t) \/ Report(t)

LSpec == LInit /\ [][LNext]_lvars
==============================================================================
