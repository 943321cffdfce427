------------------------- MODULE AgentInventoryProofs -------------------------
(***************************************************************************)
(* Theorems about AgentInventory, for every period of the inventory and    *)
(* every number of tasks and changes: a reported package task is followed  *)
(* by a full inventory, and one is never put off beyond the period.        *)
(***************************************************************************)
EXTENDS AgentInventory, TLAPS

\* A request or an answer is under way only while the agent waits, and a result
\* is posted only for a task of the batch.
Phases ==
  /\ pc # "waiting" => request = Nothing /\ answer = Nothing
  /\ request = Nothing \/ answer = Nothing
  /\ pc = "posting" => batch # <<>>
  /\ answer # Nothing => answer \in Seq(Kinds) /\ Len(answer) <= MaxPending

\* No check-in holds packages the machine has never had.
Known ==
  /\ request # Nothing => request.packages \in (0 .. version) \cup {Nothing}
  /\ late # Nothing => late.packages \in (0 .. version) \cup {Nothing}

\* The counter is -1 only in a turn that has reported a package task, and it has
\* counted the turns since the last full inventory unless the next one is full.
Counted ==
  /\ n = -1 => pc \in {"batch", "posting"}
  /\ \/ pc = "asleep" /\ n = 0
     \/ n = -1
     \/ short <= n

\* A package task reported without a full inventory since: the next one is full.
Owed == owed => \/ pc = "asleep" /\ n = 0
                \/ pc \in {"batch", "posting"} /\ n = -1

IInv == TypeOK /\ Phases /\ Known /\ Counted /\ Owed

-------------------------------------------------------------------------------
\* A counter below the period is its own remainder; at the period it starts anew.
LEMMA Remainder ==
  ASSUME NEW x \in 0 .. InventoryEvery
  PROVE  x % InventoryEvery = IF x = InventoryEvery THEN 0 ELSE x
BY InventoryAssumption

\* The agent starts with a full inventory due.
LEMMA InitInv == Init => IInv
<1> SUFFICES ASSUME Init PROVE IInv
  OBVIOUS
<1>1. TypeOK
  <2>1. pending \in Seq(Kinds) /\ batch \in Seq(Kinds) /\ Len(pending) = 0 /\ Len(batch) = 0
    BY DEF Init
  <2>2. version \in 0 .. MaxChanges /\ n \in -1 .. InventoryEvery - 1
    BY InventoryAssumption DEF Init
  <2>3. /\ reported = Nothing /\ pc = "asleep" /\ request = Nothing /\ late = Nothing
        /\ answer = Nothing /\ owed \in BOOLEAN /\ short \in Nat
    BY DEF Init
  <2> QED BY <2>1, <2>2, <2>3, InventoryAssumption DEF TypeOK
<1>2. Phases /\ Known /\ Counted /\ Owed
  BY DEF Init, Phases, Known, Counted, Owed
<1> QED BY <1>1, <1>2 DEF IInv

\* The end of a turn, which leaves version, row, queue and wire to the step it ends.
LEMMA TurnEndsStep ==
  ASSUME IInv, TurnEnds, pc # "asleep"
  PROVE  /\ n' \in 0 .. InventoryEvery - 1 /\ short' \in Nat
         /\ pc' = "asleep" /\ batch' = <<>>
         /\ n' = 0 \/ short' <= n'
         /\ n = -1 => n' = 0
<1>1. n + 1 \in 0 .. InventoryEvery
  BY InventoryAssumption DEF IInv, TypeOK
<1>2. n \in -1 .. InventoryEvery - 1 /\ n' = IF n + 1 = InventoryEvery THEN 0 ELSE n + 1
  BY <1>1, Remainder DEF TurnEnds, IInv, TypeOK
<1>3. short' = short + 1 /\ short \in Nat /\ InventoryEvery \in Nat \ {0}
  BY InventoryAssumption DEF TurnEnds, IInv, TypeOK
<1>4. n = -1 \/ short <= n
  BY DEF IInv, Counted
<1>5. n' \in 0 .. InventoryEvery - 1 /\ (n' = 0 \/ n' = n + 1)
  BY <1>2, InventoryAssumption
<1> QED BY <1>2, <1>3, <1>4, <1>5 DEF TurnEnds

\* The operators and the machine.
LEMMA OutsideStep ==
  ASSUME IInv, Change \/ \E kind \in Kinds : Queue(kind)
  PROVE  IInv'
<1>1. CASE Change
  <2>1. /\ version' \in 0 .. MaxChanges /\ version' = version + 1
        /\ UNCHANGED <<reported, pending, n, pc, request, answer, late, batch, owed, short>>
    BY <1>1, InventoryAssumption DEF Change, server, wire, IInv, TypeOK
  <2>2. TypeOK'
    BY <2>1, InventoryAssumption DEF IInv, TypeOK
  <2>3. Phases' /\ Counted' /\ Owed'
    BY <2>1 DEF IInv, Phases, Counted, Owed
  <2>4. Known'
    BY <2>1, InventoryAssumption DEF IInv, TypeOK, Known
  <2> QED BY <2>2, <2>3, <2>4 DEF IInv
<1>2. ASSUME NEW kind \in Kinds, Queue(kind)
      PROVE  IInv'
  <2>1. UNCHANGED <<version, reported, n, pc, request, answer, late, batch, owed, short>>
    BY <1>2 DEF Queue, wire
  <2>2. pending' \in Seq(Kinds) /\ Len(pending') <= MaxPending
    BY <1>2, InventoryAssumption DEF Queue, IInv, TypeOK
  <2>3. TypeOK'
    BY <2>1, <2>2 DEF IInv, TypeOK
  <2> QED BY <2>1, <2>3 DEF IInv, Phases, Known, Counted, Owed
<1> QED BY <1>1, <1>2

\* A check-in sends a full inventory exactly when the counter is 0.
LEMMA CheckinFull ==
  ASSUME IInv, Checkin
  PROVE  Full <=> n = 0
<1>1. pc = "asleep" /\ n \in 0 .. InventoryEvery - 1
  BY InventoryAssumption DEF Checkin, IInv, TypeOK, Counted
<1>2. n % InventoryEvery = n
  BY <1>1, Remainder, InventoryAssumption
<1> QED BY <1>2 DEF Full

\* A check-in is full when the counter says so, and counts what is short.
LEMMA CheckinStep ==
  ASSUME IInv, Checkin
  PROVE  IInv'
<1>1. /\ pc = "asleep" /\ pc' = "waiting"
      /\ request' = [packages |-> IF n = 0 THEN version ELSE Nothing]
      /\ owed' = (owed /\ n # 0)
      /\ short' = IF n = 0 THEN 0 ELSE short
      /\ UNCHANGED <<version, reported, pending, n, answer, late, batch>>
  BY CheckinFull DEF Checkin, server
<1>2. TypeOK'
  <2>1. request' \in Request
    BY <1>1 DEF Request, IInv, TypeOK
  <2>2. owed' \in BOOLEAN
    BY <1>1 DEF IInv, TypeOK
  <2>3. short' \in Nat
    BY <1>1 DEF IInv, TypeOK
  <2> QED BY <1>1, <2>1, <2>2, <2>3 DEF IInv, TypeOK
<1>3. Phases'
  BY <1>1 DEF IInv, Phases
<1>4. Known'
  BY <1>1 DEF IInv, TypeOK, Known
<1>5. Counted'
  <2>1. n \in Int /\ n # -1 /\ (n = 0 \/ short <= n)
    BY <1>1, InventoryAssumption DEF IInv, TypeOK, Counted
  <2> QED BY <1>1, <2>1 DEF Counted
<1>6. Owed'
  <2>1. owed => n = 0
    BY <1>1 DEF IInv, Owed
  <2>2. ~owed'
    BY <1>1, <2>1
  <2> QED BY <2>2 DEF Owed
<1> QED BY <1>2, <1>3, <1>4, <1>5, <1>6 DEF IInv

\* An answer becomes the batch and leaves the counter alone.
LEMMA ReceiveStep ==
  ASSUME IInv, Receive
  PROVE  IInv'
<1>1. /\ answer \in Seq(Kinds) /\ Len(answer) <= MaxPending /\ pc = "waiting"
      /\ batch' = answer /\ answer' = Nothing /\ pc' = "batch"
      /\ UNCHANGED <<version, reported, pending, n, request, late, owed, short>>
  BY DEF Receive, server, IInv, Phases
<1>2. request = Nothing
  BY DEF Receive, IInv, Phases
<1> QED BY <1>1, <1>2 DEF IInv, TypeOK, Phases, Known, Counted, Owed

\* A turn that ends, and takes no request with it or its request and answer.
LEMMA EndedStep ==
  ASSUME IInv, TurnEnds, pc # "asleep",
         UNCHANGED <<reported, pending, owed>>,
         version' \in version .. MaxChanges,
         late' = late \/ late' = request,
         request' = Nothing, answer' = Nothing,
         pc = "waiting" \/ n = -1 \/ ~owed
  PROVE  IInv'
<1>1. /\ n' \in 0 .. InventoryEvery - 1 /\ short' \in Nat
      /\ pc' = "asleep" /\ batch' = <<>>
      /\ n' = 0 \/ short' <= n'
      /\ n = -1 => n' = 0
  BY TurnEndsStep
<1>2. TypeOK'
  <2>1. batch' \in Seq(Kinds) /\ Len(batch') <= MaxPending
    BY <1>1, InventoryAssumption
  <2>2. version' \in 0 .. MaxChanges /\ reported' \in (0 .. version') \cup {Nothing}
    BY InventoryAssumption DEF IInv, TypeOK
  <2>3. n' \in -1 .. InventoryEvery - 1
    BY <1>1, InventoryAssumption
  <2> QED BY <1>1, <2>1, <2>2, <2>3 DEF IInv, TypeOK
<1>3. Phases'
  BY <1>1 DEF Phases
<1>4. Known'
  BY InventoryAssumption DEF IInv, TypeOK, Known
<1>5. Counted'
  <2>1. n' # -1
    BY <1>1, InventoryAssumption
  <2> QED BY <1>1, <2>1 DEF Counted
<1>6. Owed'
  BY <1>1 DEF IInv, Owed
<1> QED BY <1>2, <1>3, <1>4, <1>5, <1>6 DEF IInv

\* Running a task may change packages, or end the turn with an exception.
LEMMA RunStep ==
  ASSUME IInv, Run
  PROVE  IInv'
<1>1. /\ pc = "batch" /\ batch # <<>> /\ version' \in version .. MaxChanges
      /\ UNCHANGED <<reported, pending, request, answer, late, owed>>
      /\ request = Nothing /\ answer = Nothing
  BY InventoryAssumption DEF Run, server, wire, IInv, TypeOK, Phases
<1>2. CASE pc' = "posting" /\ UNCHANGED <<n, batch, short>>
  <2>1. TypeOK'
    <3>1. version' \in 0 .. MaxChanges /\ reported' \in (0 .. version') \cup {Nothing}
      BY <1>1, InventoryAssumption DEF IInv, TypeOK
    <3> QED BY <1>1, <1>2, <3>1 DEF IInv, TypeOK
  <2>2. Phases' /\ Counted'
    BY <1>1, <1>2 DEF IInv, Phases, Counted
  <2>3. Known'
    BY <1>1, <1>2, InventoryAssumption DEF IInv, TypeOK, Known
  <2>4. Owed'
    BY <1>1, <1>2 DEF IInv, Owed
  <2> QED BY <2>1, <2>2, <2>3, <2>4 DEF IInv
<1>3. CASE TurnEnds
  <2>1. n = -1 \/ ~owed
    BY <1>1 DEF IInv, Owed
  <2> QED BY <1>1, <1>3, <2>1, EndedStep
<1> QED BY <1>2, <1>3 DEF Run

\* A reported package task sets the counter to -1, for the rest of its turn.
LEMMA ReportedStep ==
  ASSUME IInv, Reported
  PROVE  IInv'
<1>1. /\ pc = "posting" /\ pc' = "batch" /\ batch # <<>>
      /\ n' = IF Head(batch) = "package" THEN -1 ELSE n
      /\ owed' = (owed \/ Head(batch) = "package")
      /\ batch' = Tail(batch)
      /\ UNCHANGED <<version, reported, pending, request, answer, late, short>>
  BY DEF Reported, Counter, server, wire, IInv, Phases
<1>2. TypeOK'
  <2>1. batch' \in Seq(Kinds) /\ Len(batch') <= MaxPending
    BY <1>1, InventoryAssumption DEF IInv, TypeOK
  <2>2. n' \in -1 .. InventoryEvery - 1
    BY <1>1, InventoryAssumption DEF IInv, TypeOK
  <2>3. owed' \in BOOLEAN
    BY <1>1
  <2> QED BY <1>1, <2>1, <2>2, <2>3 DEF IInv, TypeOK
<1>3. Phases' /\ Known'
  BY <1>1 DEF IInv, Phases, Known
<1>4. Counted'
  BY <1>1 DEF IInv, Counted
<1>5. Owed'
  BY <1>1 DEF IInv, Owed
<1> QED BY <1>2, <1>3, <1>4, <1>5 DEF IInv

\* An agent that starts again sends a full inventory first.
LEMMA RestartStep ==
  ASSUME IInv, Restart
  PROVE  IInv'
<1>1. /\ n' = 0 /\ pc' = "asleep" /\ batch' = <<>> /\ request' = Nothing /\ answer' = Nothing
      /\ late' = late \/ late' = request
      /\ UNCHANGED <<version, reported, pending, owed, short>>
  BY DEF Restart, server
<1>2. batch' \in Seq(Kinds) /\ Len(batch') <= MaxPending
  BY <1>1, InventoryAssumption
<1>3. n' \in -1 .. InventoryEvery - 1 /\ n' # -1
  BY <1>1, InventoryAssumption
<1>4. TypeOK'
  BY <1>1, <1>2, <1>3 DEF IInv, TypeOK
<1> QED BY <1>1, <1>3, <1>4 DEF IInv, Phases, Known, Counted, Owed

\* The loop.
LEMMA AgentStep ==
  ASSUME IInv, Agent
  PROVE  IInv'
<1>1. CASE GiveUp
  BY <1>1, EndedStep, InventoryAssumption DEF GiveUp, server, IInv, TypeOK
<1>2. CASE Unreported \/ Sleep
  <2>1. /\ TurnEnds /\ pc \in {"batch", "posting"}
        /\ UNCHANGED <<version, reported, pending, request, answer, late, owed>>
    BY <1>2 DEF Unreported, Sleep, server, wire
  <2>2. request = Nothing /\ answer = Nothing /\ (n = -1 \/ ~owed)
    BY <2>1 DEF IInv, Phases, Owed
  <2>3. version' \in version .. MaxChanges
    BY <2>1, InventoryAssumption DEF IInv, TypeOK
  <2> QED BY <2>1, <2>2, <2>3, EndedStep
<1> QED BY <1>1, <1>2, CheckinStep, ReceiveStep, RunStep, ReportedStep DEF Agent

\* The server's two handlers.
LEMMA ServerStep ==
  ASSUME IInv, Handle \/ HandleLate
  PROVE  IInv'
<1>1. CASE Handle
  <2>1. /\ request # Nothing /\ request \in Request /\ pc = "waiting"
        /\ reported' = IF request.packages = Nothing THEN reported ELSE request.packages
        /\ answer' = pending /\ pending' = <<>> /\ request' = Nothing
        /\ UNCHANGED <<version, n, pc, late, batch, owed, short>>
    BY <1>1 DEF Handle, Stored, IInv, TypeOK, Phases
  <2>2. reported' \in (0 .. version) \cup {Nothing}
    BY <2>1 DEF IInv, TypeOK, Known
  <2>3. pending' \in Seq(Kinds) /\ Len(pending') <= MaxPending
    BY <2>1, InventoryAssumption
  <2>4. TypeOK'
    BY <2>1, <2>2, <2>3 DEF IInv, TypeOK
  <2> QED BY <2>1, <2>4 DEF IInv, TypeOK, Phases, Known, Counted, Owed
<1>2. CASE HandleLate
  <2>1. /\ late # Nothing
        /\ reported' = IF late.packages = Nothing THEN reported ELSE late.packages
        /\ pending' = <<>> /\ late' = Nothing
        /\ UNCHANGED <<version, n, pc, request, answer, batch, owed, short>>
    BY <1>2 DEF HandleLate, Stored
  <2>2. reported' \in (0 .. version) \cup {Nothing}
    BY <2>1 DEF IInv, TypeOK, Known
  <2>3. pending' \in Seq(Kinds) /\ Len(pending') <= MaxPending
    BY <2>1, InventoryAssumption
  <2>4. TypeOK'
    BY <2>1, <2>2, <2>3 DEF IInv, TypeOK
  <2> QED BY <2>1, <2>4 DEF IInv, Phases, Known, Counted, Owed
<1> QED BY <1>1, <1>2

\* Every step keeps the invariant.
LEMMA StepInv == IInv /\ [Next]_vars => IInv'
<1> SUFFICES ASSUME IInv, [Next]_vars PROVE IInv'
  OBVIOUS
<1>1. CASE UNCHANGED vars
  BY <1>1 DEF vars, server, wire, IInv, TypeOK, Phases, Known, Counted, Owed
<1> QED BY <1>1, OutsideStep, AgentStep, RestartStep, ServerStep DEF Next

\* The invariant holds in every reachable state.
LEMMA Invariance == Spec => []IInv
BY InitInv, StepInv, PTL DEF Spec

-------------------------------------------------------------------------------
\* Counter, queue, messages and row stay what they are declared to be; the row
\* never shows packages the machine has not had.
THEOREM TypeCorrect == Spec => []TypeOK
<1>1. IInv => TypeOK
  BY DEF IInv
<1> QED BY <1>1, Invariance, PTL

\* A full inventory is never put off beyond the period: while a check-in is under
\* way, fewer than InventoryEvery turns have passed since the last full one,
\* however resets, exceptions, lost check-ins and restarts follow each other.
THEOREM FullAtLeastEvery == Spec => []AtLeastEvery
<1>1. IInv => AtLeastEvery
  <2> SUFFICES ASSUME IInv, request # Nothing \/ answer # Nothing
               PROVE  short < InventoryEvery
    BY DEF AtLeastEvery
  <2>1. pc = "waiting"
    BY DEF IInv, Phases
  <2>2. short <= n
    BY <2>1 DEF IInv, Counted
  <2> QED BY <2>2, InventoryAssumption DEF IInv, TypeOK
<1> QED BY <1>1, Invariance, PTL

\* The first check-in sent after a package task was reported holds the machine's
\* packages of that moment, whatever came in between.
THEOREM FullAfterTask == Spec => FreshAfterTask
<1> DEFINE Step == request' # request /\ request' # Nothing /\ owed
                     => request'.packages = version
<1>1. IInv /\ [Next]_vars => [Step]_vars
  <2> SUFFICES ASSUME IInv, Next, request' # request, request' # Nothing, owed
               PROVE  request'.packages = version
    OBVIOUS
  <2>1. Checkin
    BY DEF Next, Queue, Change, Agent, Receive, GiveUp, Run, Reported, Unreported, Sleep,
       Restart, Handle, HandleLate, wire
  <2>2. n = 0
    BY <2>1 DEF Checkin, IInv, Owed
  <2> QED BY <2>1, <2>2, CheckinFull DEF Checkin
<1>2. [][Step]_vars => FreshAfterTask
  BY DEF FreshAfterTask
<1> QED BY <1>1, <1>2, Invariance, PTL DEF Spec
===============================================================================
