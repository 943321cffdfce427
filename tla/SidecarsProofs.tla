---------------------------- MODULE SidecarsProofs ----------------------------
(***************************************************************************)
(* Proofs about Sidecars, for any number of worker threads, ranges and     *)
(* changes of the mirrors: what the two rendered files, the running        *)
(* dnsmasq and the mirror's status say is true.  The run "sidecars" checks *)
(* the same with two workers, each file in behaviours of its own.          *)
(***************************************************************************)
EXTENDS Sidecars, TLAPS

-------------------------------------------------------------------------------
(* The inductive invariant.                                                  *)

\* Where a thread is depends on what it handles, and what it has read on where
\* it is; start-up runs alone, and restarts nothing.
Placed(k) ==
  /\ k = Main <=> job[k].handler = "start"
  /\ job[k].handler = "start" =>
       job[k].at \in {"load", "resolve", "render", "select", "write"}
  /\ job[k].handler = "save" => job[k].at \in {"load", "resolve", "render", "restart"}
  /\ job[k].handler = "edit" => job[k].at \in {"select", "write"}
  /\ job[k].handler = "sync" => job[k].at \in {"select", "write", "trigger"}
  /\ job[k].at = "render" => job[k].read # Empty
  /\ job[k].at = "write" => job[k].read <= edits

Jobs ==
  /\ job \in [Threads -> Job \cup {Idle}]
  /\ \A k \in Threads : job[k] # Idle => Placed(k)
  /\ alone \in [Files -> BOOLEAN]
  /\ job[Main] # Idle => ~applied /\ \A k \in Workers : job[k] = Idle

Values ==
  /\ setting \in Settings /\ conf \in Confs /\ dnsmasq \in Confs
  /\ applied \in BOOLEAN
  /\ edits \in 0 .. MaxEdits /\ list \in (0 .. edits) \cup {Unwritten}
  /\ trigger \in BOOLEAN /\ unserved \in BOOLEAN /\ cut \in BOOLEAN
  /\ loop \in {"poll", "check", "begin", "run"}
  /\ status \in {"never-run", "running", "done", "failed"}

\* Thread k handles the request h.
Handles(k, h) == job[k] # Idle /\ job[k].handler = h

\* c is a configuration that render_dnsmasq makes of the setting s.
Matches(s, c) ==
  /\ c \in {Proxy, s.range} \ {NoRange}
  /\ s.mode = "proxy" => c = Proxy
  /\ s.mode = "server" /\ s.range # NoRange => c = s.range

\* While no two saves overlap, the one thread that renders dnsmasq.conf holds the
\* setting stored last, or what it makes; the file is right when none does.
ConfRight ==
  alone["conf"] =>
    /\ \A j, k \in Workers : Handles(j, "save") /\ Handles(k, "save") => j = k
    /\ \A k \in Threads : At(k, "resolve") => job[k].read = setting
    /\ \A k \in Threads : At(k, "render") => Matches(setting, job[k].read)
    /\ \/ \E k \in Threads : At(k, "load") \/ At(k, "resolve") \/ At(k, "render")
       \/ Matches(setting, conf)

\* Every save ends with a restart of dnsmasq.
Restarted ==
  applied => \/ \E k \in Workers : Handles(k, "save")
             \/ dnsmasq = conf

\* The same of mirror.list, which start-up renders last.
ListRight ==
  alone["list"] =>
    /\ \A j, k \in Workers :
         /\ Handles(j, "edit") \/ Handles(j, "sync")
         /\ Handles(k, "edit") \/ Handles(k, "sync")
         => j = k
    /\ \A k \in Threads : At(k, "write") => job[k].read = edits
    /\ \/ job[Main] # Idle
       \/ \E k \in Threads : At(k, "select") \/ At(k, "write")
       \/ list = edits

IInv == Jobs /\ Values /\ ConfRight /\ Restarted /\ ListRight /\ StatusTrue

\* The type invariant of the runs is a part of it.
LEMMA TypeFollows == IInv => TypeOK
BY DEF IInv, Jobs, Values, Placed, TypeOK, At

-------------------------------------------------------------------------------
(* What the steps of ServerProcess do to the threads.                        *)

\* A job is what its three fields say.
LEMMA JobFields ==
  ASSUME NEW j \in Job
  PROVE  /\ j = [handler |-> j.handler, at |-> j.at, read |-> j.read]
         /\ j.handler \in Handlers
         /\ j.at \in {"load", "resolve", "render", "restart", "select", "write", "trigger"}
         /\ j.at = "resolve" => j.read \in Settings
         /\ j.at = "render" => j.read \in Confs
         /\ j.at = "write" => j.read \in 0 .. MaxEdits
BY DEF Job

\* A job with a handler, a step and what it read is a Job.
LEMMA JobMade ==
  ASSUME NEW h \in Handlers, NEW s, NEW r,
         \/ s = "resolve" /\ r \in Settings
         \/ s = "render" /\ r \in Confs
         \/ s = "write" /\ r \in 0 .. MaxEdits
         \/ s \in {"load", "restart", "select", "trigger"} /\ r = Idle
  PROVE  [handler |-> h, at |-> s, read |-> r] \in Job
BY DEF Job

\* A thread begins with a request: the others do what they did.
LEMMA BeginEffect ==
  ASSUME Jobs, NEW k \in Workers, NEW h \in Handlers, NEW s, NEW r, Begin(k, h, s, r),
         [handler |-> h, at |-> s, read |-> r] \in Job
  PROVE  /\ job' \in [Threads -> Job \cup {Idle}]
         /\ job[Main] = Idle /\ job[k] = Idle /\ job'[k] # Idle
         /\ job'[k].handler = h /\ job'[k].at = s /\ job'[k].read = r
         /\ \A j \in Threads : j # k => job'[j] = job[j]
         /\ alone' \in [Files -> BOOLEAN]
         /\ \A f \in Files : f # File(h) => alone'[f] = alone[f]
         /\ alone'[File(h)] =>
              \A j \in Workers : job[j] # Idle => File(job[j].handler) # File(h)
<1> USE ServerAssumption, JobAssumption
<1>1. k \in Threads /\ k # Main /\ File(h) \in Files
  BY DEF Threads, File, Files
<1>2. /\ job' = [job EXCEPT ![k] = [handler |-> h, at |-> s, read |-> r]]
      /\ job[Main] = Idle /\ job[k] = Idle
  BY DEF Begin
<1>3. /\ job' \in [Threads -> Job \cup {Idle}]
      /\ job'[k] = [handler |-> h, at |-> s, read |-> r]
      /\ \A j \in Threads : j # k => job'[j] = job[j]
  BY <1>1, <1>2 DEF Jobs
<1>4. job'[k] # Idle /\ job'[k].handler = h /\ job'[k].at = s /\ job'[k].read = r
  BY <1>3
<1>5. /\ alone' \in [Files -> BOOLEAN]
      /\ \A f \in Files : f # File(h) => alone'[f] = alone[f]
      /\ alone'[File(h)] =>
           \A j \in Workers : job[j] # Idle => File(job[j].handler) # File(h)
  <2> DEFINE free == \A j \in Workers : job[j] # Idle => File(job[j].handler) # File(h)
  <2>1. alone' = [alone EXCEPT ![File(h)] = free] /\ free \in BOOLEAN
    BY DEF Begin
  <2>2. (free = TRUE) <=> free
    OBVIOUS
  <2> HIDE DEF free
  <2>3. /\ alone' \in [Files -> BOOLEAN]
        /\ \A f \in Files : f # File(h) => alone'[f] = alone[f]
        /\ alone'[File(h)] = free
    BY <1>1, <2>1 DEF Jobs
  <2> QED BY <2>3 DEF free
<1> QED BY <1>2, <1>3, <1>4, <1>5

\* A thread takes a step.
LEMMA GotoEffect ==
  ASSUME Jobs, NEW k \in Threads, job[k] # Idle, NEW s, NEW r, Goto(k, s, r),
         [handler |-> job[k].handler, at |-> s, read |-> r] \in Job
  PROVE  /\ job' \in [Threads -> Job \cup {Idle}] /\ job'[k] # Idle
         /\ job'[k].handler = job[k].handler /\ job'[k].at = s /\ job'[k].read = r
         /\ \A j \in Threads : j # k => job'[j] = job[j]
         /\ alone' = alone
<1> USE JobAssumption
<1>1. job[k] = [handler |-> job[k].handler, at |-> job[k].at, read |-> job[k].read]
  BY JobFields DEF Jobs
<1>2. job' = [job EXCEPT ![k].at = s, ![k].read = r] /\ alone' = alone
  BY DEF Goto
<1>3. job'[k] = [handler |-> job[k].handler, at |-> s, read |-> r]
  BY <1>1, <1>2 DEF Jobs
<1>4. \A j \in Threads : j # k => job'[j] = job[j]
  BY <1>2 DEF Jobs
<1>5. job' \in [Threads -> Job \cup {Idle}]
  <2>1. job' = [j \in Threads |-> job'[j]]
    BY <1>2 DEF Jobs
  <2>2. \A j \in Threads : job'[j] \in Job \cup {Idle}
    BY <1>3, <1>4 DEF Jobs
  <2> QED BY <2>1, <2>2
<1> QED BY <1>2, <1>3, <1>4, <1>5

\* A thread ends its request.
LEMMA FinishEffect ==
  ASSUME Jobs, NEW k \in Threads, Finish(k)
  PROVE  /\ job' \in [Threads -> Job \cup {Idle}] /\ job'[k] = Idle
         /\ \A j \in Threads : j # k => job'[j] = job[j]
         /\ alone' = alone
BY DEF Finish, Jobs

-------------------------------------------------------------------------------
(* What a step leaves true of the file it does not render.                   *)

\* A thread's step that is none of dnsmasq.conf's.
LEMMA ConfFrame ==
  ASSUME IInv, UNCHANGED dhcp, alone'["conf"] = alone["conf"], NEW k \in Threads,
         \A j \in Threads : j # k => job'[j] = job[j],
         ~Handles(k, "save"), ~Handles(k, "save")',
         ~At(k, "load"), ~At(k, "load")', ~At(k, "resolve"), ~At(k, "resolve")',
         ~At(k, "render"), ~At(k, "render")'
  PROVE  ConfRight' /\ Restarted'
<1>1. \A j \in Threads : (Handles(j, "save")' <=> Handles(j, "save"))
  BY DEF Handles
<1>2. \A j \in Threads : /\ At(j, "load")' <=> At(j, "load")
                         /\ At(j, "resolve")' <=> At(j, "resolve")
                         /\ At(j, "render")' <=> At(j, "render")
  BY DEF At
<1>3. \A j \in Threads : At(j, "resolve") \/ At(j, "render") => job'[j] = job[j]
  OBVIOUS
<1>4. ConfRight'
  BY <1>1, <1>2, <1>3 DEF IInv, ConfRight, Matches, dhcp, Threads
<1>5. Restarted'
  BY <1>1 DEF IInv, Restarted, dhcp, Threads
<1> QED BY <1>4, <1>5

\* A thread's step that is none of mirror.list's.
LEMMA ListFrame ==
  ASSUME IInv, UNCHANGED repo, alone'["list"] = alone["list"], NEW k \in Threads,
         \A j \in Threads : j # k => job'[j] = job[j],
         job'[Main] # Idle <=> job[Main] # Idle,
         ~Handles(k, "edit"), ~Handles(k, "edit")', ~Handles(k, "sync"), ~Handles(k, "sync")',
         ~At(k, "select"), ~At(k, "write"), ~At(k, "write")'
  PROVE  ListRight' /\ StatusTrue'
<1>1. \A j \in Threads : /\ Handles(j, "edit")' <=> Handles(j, "edit")
                         /\ Handles(j, "sync")' <=> Handles(j, "sync")
  BY DEF Handles
<1>2. \A j \in Threads : /\ At(j, "select") => At(j, "select")'
                         /\ At(j, "write")' <=> At(j, "write")
                         /\ At(j, "write") => job'[j] = job[j]
  BY DEF At
<1>3. ListRight'
  BY <1>1, <1>2 DEF IInv, ListRight, repo, Threads
<1>4. StatusTrue'
  BY DEF IInv, StatusTrue, repo
<1> QED BY <1>3, <1>4

\* The threads stay what they may be, when one of them moves and is placed well.
LEMMA JobsFrame ==
  ASSUME IInv, NEW k \in Threads, job' \in [Threads -> Job \cup {Idle}],
         \A j \in Threads : j # k => job'[j] = job[j],
         alone' \in [Files -> BOOLEAN],
         edits \in Nat, edits' \in Nat, edits <= edits',
         job'[k] # Idle => Placed(k)',
         job'[Main] # Idle => ~applied' /\ job[Main] # Idle /\ k = Main
  PROVE  Jobs'
<1>1. ASSUME NEW j \in Threads, j # k, job'[j] # Idle PROVE Placed(j)'
  <2>1. job'[j] = job[j] /\ job[j] # Idle /\ job[j] \in Job /\ Placed(j)
    BY <1>1 DEF IInv, Jobs
  <2>2. job[j].at = "write" => job[j].read \in Nat
    BY <2>1, JobFields
  <2> QED BY <2>1, <2>2 DEF Placed
<1>2. job'[Main] # Idle => ~applied' /\ \A j \in Workers : job'[j] = Idle
  BY ServerAssumption DEF IInv, Jobs, Threads
<1> QED BY <1>1, <1>2 DEF Jobs

-------------------------------------------------------------------------------
(* The invariant holds.                                                      *)

\* The process begins with its start-up, on files that are right.
LEMMA InitInv == Init => IInv
<1> SUFFICES ASSUME Init PROVE IInv
  OBVIOUS
<1> USE ServerAssumption, DhcpAssumption, RepoAssumption, JobAssumption
    DEF Init, ProcessInit, DhcpInit, RepoInit
<1> DEFINE start == [handler |-> "start", at |-> "load", read |-> Idle]
<1>1. start \in Job /\ start # Idle
  BY DEF Job, Handlers
<1>2. /\ job \in [Threads -> Job \cup {Idle}]
      /\ job[Main] = start /\ \A k \in Workers : job[k] = Idle
  BY <1>1 DEF Threads
<1>3. \A k \in Threads : job[k] # Idle => k = Main
  BY <1>2 DEF Threads
<1>4. start.handler = "start" /\ start.at = "load" /\ start.read = Idle
  OBVIOUS
<1> HIDE DEF start
<1>5. Jobs
  BY <1>1, <1>2, <1>3, <1>4 DEF Jobs, Placed
<1>6. Values
  <2>1. setting \in Settings
    BY DEF Settings
  <2>2. conf \in Confs /\ dnsmasq \in Confs
    BY DEF Confs
  <2>3. edits \in 0 .. MaxEdits /\ list \in 0 .. edits
    OBVIOUS
  <2> QED BY <2>1, <2>2, <2>3 DEF Values
<1>7. ConfRight
  BY <1>1, <1>2, <1>3, <1>4 DEF ConfRight, Handles, At, Threads
<1>8. Restarted /\ StatusTrue
  BY DEF Restarted, StatusTrue
<1>9. ListRight
  BY <1>1, <1>2, <1>3, <1>4 DEF ListRight, Handles, At, Threads
<1> QED BY <1>5, <1>6, <1>7, <1>8, <1>9 DEF IInv

\* What render_dnsmasq makes of a setting is right for it, whatever the probe says.
LEMMA EffectiveMatches ==
  ASSUME NEW s \in Settings, NEW found \in BOOLEAN
  PROVE  /\ Effective(s, found) \in Confs \ {Empty}
         /\ Matches(s, Effective(s, found))
BY DhcpAssumption DEF Settings, Confs, Effective, Matches

-------------------------------------------------------------------------------
(* The steps of the PXE / DHCP page and of dnsmasq.                          *)

\* A save begins by storing its setting.
LEMMA SaveStep ==
  ASSUME IInv, UNCHANGED repo, NEW k \in Workers, NEW s \in Settings, DhcpSave(k, s)
  PROVE  IInv'
<1> USE ServerAssumption DEF IInv
<1>1. [handler |-> "save", at |-> "load", read |-> Idle] \in Job /\ "save" \in Handlers
  BY JobMade DEF Handlers
<1>2. /\ setting' = s /\ UNCHANGED <<conf, dnsmasq, applied>>
      /\ Begin(k, "save", "load", Idle)
  BY DEF DhcpSave
<1>3. /\ k \in Threads /\ k # Main /\ Main \in Threads
      /\ File("save") = "conf" /\ "conf" \in Files /\ "list" \in Files
  BY DEF Threads, File, Files
<1>4. /\ job' \in [Threads -> Job \cup {Idle}]
      /\ job[Main] = Idle /\ job[k] = Idle /\ job'[k] # Idle
      /\ job'[k].handler = "save" /\ job'[k].at = "load"
      /\ \A j \in Threads : j # k => job'[j] = job[j]
      /\ alone' \in [Files -> BOOLEAN] /\ alone'["list"] = alone["list"]
      /\ alone'["conf"] =>
           \A j \in Workers : job[j] # Idle => File(job[j].handler) # "conf"
  BY <1>1, <1>2, <1>3, BeginEffect
<1>5. job'[Main] = Idle /\ job'[k] = job'[k]
  BY <1>3, <1>4
<1>6. Jobs'
  BY <1>3, <1>4, <1>5, JobsFrame DEF Values, Placed, repo
<1>7. Values'
  BY <1>2 DEF Values, repo
<1>8. ConfRight'
  <2>1. SUFFICES ASSUME alone'["conf"] PROVE ConfRight'
    BY DEF ConfRight
  <2>2. ASSUME NEW j \in Threads, j # k, job'[j] # Idle
        PROVE  ~Handles(j, "save")' /\ ~At(j, "resolve")' /\ ~At(j, "render")'
    <3>1. j \in Workers /\ job[j] # Idle /\ Placed(j) /\ job'[j] = job[j]
      BY <1>4, <2>2 DEF Threads, Jobs
    <3>2. job[j].handler # "save" /\ j # Main
      BY <1>4, <2>1, <3>1 DEF File
    <3>3. job[j].handler \in Handlers
      BY <3>1, JobFields DEF Jobs, Threads
    <3> QED BY <3>1, <3>2, <3>3 DEF Placed, Handles, At, Handlers
  <2>3. \A j \in Threads : Handles(j, "save")' \/ At(j, "resolve")' \/ At(j, "render")' => j = k
    BY <2>2 DEF Handles, At
  <2>4. At(k, "load")' /\ ~At(k, "resolve")' /\ ~At(k, "render")'
    BY <1>4 DEF At
  <2> QED BY <1>3, <2>3, <2>4 DEF ConfRight, Threads
<1>9. Restarted'
  BY <1>4 DEF Restarted, Handles
<1>10. ListRight' /\ StatusTrue'
  BY <1>3, <1>4, <1>5, ListFrame DEF Handles, At
<1> QED BY <1>6, <1>7, <1>8, <1>9, <1>10

\* A thread on its way to dnsmasq.conf handles a save, or is the start-up's.
LEMMA Rendering ==
  ASSUME Jobs, NEW k \in Threads,
         At(k, "load") \/ At(k, "resolve") \/ At(k, "render") \/ At(k, "restart")
  PROVE  /\ job[k] # Idle /\ job[k] \in Job /\ job[k].handler \in {"save", "start"}
         /\ At(k, "restart") => k \in Workers
         /\ job[k].handler = "start" <=> k = Main
         /\ ~At(k, "select") /\ ~At(k, "write")
<1>1. job[k] # Idle /\ job[k] \in Job /\ Placed(k)
  BY DEF At, Jobs
<1>2. job[k].handler \in Handlers
  BY <1>1, JobFields
<1> QED BY <1>1, <1>2 DEF Placed, At, Handlers, Threads

\* A thread that reads the setting holds the one stored last.
LEMMA LoadStep ==
  ASSUME IInv, UNCHANGED repo, NEW k \in Threads, DhcpLoad(k)
  PROVE  IInv'
<1> USE ServerAssumption DEF IInv
<1>1. At(k, "load") /\ Goto(k, "resolve", setting) /\ UNCHANGED dhcp
  BY DEF DhcpLoad
<1>2. /\ job[k] # Idle /\ job[k] \in Job /\ job[k].handler \in {"save", "start"}
      /\ job[k].handler = "start" <=> k = Main
      /\ ~At(k, "select") /\ ~At(k, "write")
  BY <1>1, Rendering
<1>3. [handler |-> job[k].handler, at |-> "resolve", read |-> setting] \in Job
  BY <1>2, JobMade DEF Values, Handlers
<1>4. /\ job' \in [Threads -> Job \cup {Idle}] /\ job'[k] # Idle
      /\ job'[k].handler = job[k].handler /\ job'[k].at = "resolve"
      /\ job'[k].read = setting
      /\ \A j \in Threads : j # k => job'[j] = job[j]
      /\ alone' = alone
  BY <1>1, <1>2, <1>3, GotoEffect
<1>5. job'[Main] # Idle <=> job[Main] # Idle
  BY <1>2, <1>4 DEF Threads
<1>6. job'[Main] # Idle => ~applied' /\ job[Main] # Idle /\ k = Main
  BY <1>1, <1>2, <1>5 DEF Jobs, Threads, dhcp
<1>7. Jobs'
  BY <1>2, <1>4, <1>6, JobsFrame DEF Jobs, Values, Placed, repo
<1>8. Values'
  BY <1>1 DEF Values, repo, dhcp
<1>9. ConfRight'
  <2>1. SUFFICES ASSUME alone["conf"] PROVE ConfRight'
    BY <1>4 DEF ConfRight
  <2>2. \A j \in Threads : /\ Handles(j, "save")' <=> Handles(j, "save")
                           /\ j # k => (At(j, "resolve")' <=> At(j, "resolve"))
                           /\ At(j, "render")' => j # k /\ At(j, "render")
    BY <1>2, <1>4 DEF Handles, At
  <2>3. At(k, "resolve")' /\ job'[k].read = setting'
    BY <1>1, <1>4 DEF At, dhcp
  <2> QED BY <1>1, <1>4, <2>1, <2>2, <2>3 DEF ConfRight, Matches, Threads, dhcp
<1>10. Restarted'
  BY <1>1, <1>2, <1>4 DEF Restarted, Handles, Threads, dhcp
<1>11. ListRight' /\ StatusTrue'
  BY <1>2, <1>4, <1>5, ListFrame DEF Handles, At
<1> QED BY <1>7, <1>8, <1>9, <1>10, <1>11

\* A thread that has resolved its setting holds a configuration made of it.
LEMMA ResolveStep ==
  ASSUME IInv, UNCHANGED repo, NEW k \in Threads, DhcpResolve(k)
  PROVE  IInv'
<1> USE ServerAssumption DEF IInv
<1>1. PICK found \in BOOLEAN : Goto(k, "render", Effective(job[k].read, found))
  BY DEF DhcpResolve
<1> DEFINE c == Effective(job[k].read, found)
<1>2. /\ At(k, "resolve") /\ conf' = Empty
      /\ UNCHANGED <<setting, dnsmasq, applied>>
  BY DEF DhcpResolve
<1>3. /\ job[k] # Idle /\ job[k] \in Job /\ job[k].handler \in {"save", "start"}
      /\ job[k].handler = "start" <=> k = Main
      /\ ~At(k, "select") /\ ~At(k, "write")
  BY <1>2, Rendering
<1>4. job[k].read \in Settings
  BY <1>2, <1>3, JobFields DEF At
<1>5. c \in Confs \ {Empty} /\ Matches(job[k].read, c)
  BY <1>4, EffectiveMatches
<1> HIDE DEF c
<1>6. [handler |-> job[k].handler, at |-> "render", read |-> c] \in Job
  BY <1>3, <1>5, JobMade DEF Handlers
<1>7. /\ job' \in [Threads -> Job \cup {Idle}] /\ job'[k] # Idle
      /\ job'[k].handler = job[k].handler /\ job'[k].at = "render" /\ job'[k].read = c
      /\ \A j \in Threads : j # k => job'[j] = job[j]
      /\ alone' = alone
  BY <1>1, <1>3, <1>6, GotoEffect DEF c
<1>8. job'[Main] # Idle <=> job[Main] # Idle
  BY <1>3, <1>7 DEF Threads
<1>9. job'[Main] # Idle => ~applied' /\ job[Main] # Idle /\ k = Main
  BY <1>2, <1>3, <1>8 DEF Jobs, Threads
<1>10. Jobs'
  BY <1>3, <1>5, <1>7, <1>9, JobsFrame DEF Jobs, Values, Placed, repo
<1>11. Values'
  BY <1>2 DEF Values, repo, Confs
<1>12. ConfRight'
  <2>1. SUFFICES ASSUME alone["conf"] PROVE ConfRight'
    BY <1>7 DEF ConfRight
  <2>2. job[k].read = setting
    BY <1>2, <2>1 DEF ConfRight
  <2>3. Matches(setting, job'[k].read)
    BY <1>5, <1>7, <2>2
  <2>4. \A j \in Threads : /\ Handles(j, "save")' <=> Handles(j, "save")
                           /\ j # k => (At(j, "resolve")' <=> At(j, "resolve"))
                           /\ j # k => (At(j, "render")' <=> At(j, "render"))
    BY <1>3, <1>7 DEF Handles, At
  <2>5. At(k, "render")' /\ ~At(k, "resolve")'
    BY <1>7 DEF At
  <2> QED BY <1>2, <1>7, <2>1, <2>3, <2>4, <2>5 DEF ConfRight, Matches, Threads
<1>13. Restarted'
  <2>1. CASE k = Main
    BY <1>2, <1>3, <2>1 DEF Restarted, Jobs
  <2>2. CASE k \in Workers
    BY <1>3, <1>7, <2>2 DEF Restarted, Handles
  <2> QED BY <2>1, <2>2 DEF Threads
<1>14. ListRight' /\ StatusTrue'
  BY <1>3, <1>7, <1>8, ListFrame DEF Handles, At
<1> QED BY <1>10, <1>11, <1>12, <1>13, <1>14

\* A thread writes the configuration it holds.
LEMMA RenderStep ==
  ASSUME IInv, UNCHANGED repo, NEW k \in Threads, DhcpRender(k)
  PROVE  IInv'
<1> USE ServerAssumption DEF IInv
<1> DEFINE s == IF k = Main THEN "select" ELSE "restart"
<1>1. /\ At(k, "render") /\ conf' = job[k].read
      /\ UNCHANGED <<setting, dnsmasq, applied>> /\ Goto(k, s, Idle)
  BY DEF DhcpRender, Then
<1>2. /\ job[k] # Idle /\ job[k] \in Job /\ job[k].handler \in {"save", "start"}
      /\ job[k].handler = "start" <=> k = Main
      /\ ~At(k, "select") /\ ~At(k, "write")
  BY <1>1, Rendering
<1>3. job[k].read \in Confs
  BY <1>1, <1>2, JobFields DEF At
<1>4. s = "select" <=> k = Main
  OBVIOUS
<1>5. s \in {"select", "restart"}
  OBVIOUS
<1> HIDE DEF s
<1>6. [handler |-> job[k].handler, at |-> s, read |-> Idle] \in Job
  BY <1>2, <1>5, JobMade DEF Handlers
<1>7. /\ job' \in [Threads -> Job \cup {Idle}] /\ job'[k] # Idle
      /\ job'[k].handler = job[k].handler /\ job'[k].at = s
      /\ \A j \in Threads : j # k => job'[j] = job[j]
      /\ alone' = alone
  BY <1>1, <1>2, <1>6, GotoEffect
<1>8. job'[Main] # Idle <=> job[Main] # Idle
  BY <1>2, <1>7 DEF Threads
<1>9. job'[Main] # Idle => ~applied' /\ job[Main] # Idle /\ k = Main
  BY <1>1, <1>2, <1>8 DEF Jobs, Threads
<1>10. Jobs'
  BY <1>2, <1>4, <1>5, <1>7, <1>9, JobsFrame DEF Jobs, Values, Placed, repo
<1>11. Values'
  BY <1>1, <1>3 DEF Values, repo
<1>12. ConfRight'
  <2>1. SUFFICES ASSUME alone["conf"] PROVE ConfRight'
    BY <1>7 DEF ConfRight
  <2>2. Matches(setting', conf')
    BY <1>1, <2>1 DEF ConfRight
  <2>3. \A j \in Threads : /\ Handles(j, "save")' <=> Handles(j, "save")
                           /\ At(j, "resolve")' => j # k /\ At(j, "resolve")
                           /\ At(j, "render")' => j # k /\ At(j, "render")
    BY <1>2, <1>5, <1>7 DEF Handles, At
  <2>4. Matches(setting, conf)'
    BY <2>2 DEF Matches
  <2> QED BY <1>1, <1>7, <2>1, <2>3, <2>4 DEF ConfRight, Matches, Threads
<1>13. Restarted'
  <2>1. CASE k = Main
    BY <1>1, <1>2, <2>1 DEF Restarted, Jobs
  <2>2. CASE k \in Workers
    BY <1>2, <1>7, <2>2 DEF Restarted, Handles
  <2> QED BY <2>1, <2>2 DEF Threads
<1>14. ListRight' /\ StatusTrue'
  BY <1>2, <1>5, <1>7, <1>8, ListFrame DEF Handles, At
<1> QED BY <1>10, <1>11, <1>12, <1>13, <1>14

\* After a restart told to have succeeded dnsmasq runs what the file says.
LEMMA DnsmasqRestartStep ==
  ASSUME IInv, UNCHANGED repo, NEW k \in Workers, DnsmasqRestart(k)
  PROVE  IInv'
<1> USE ServerAssumption DEF IInv
<1>1. /\ At(k, "restart") /\ Finish(k) /\ UNCHANGED <<setting, conf>>
      /\ dnsmasq' \in {conf, dnsmasq} /\ applied' \in BOOLEAN
      /\ applied' => dnsmasq' = conf'
      /\ k \in Threads /\ k # Main
  BY DEF DnsmasqRestart, Told, Threads
<1>2. /\ job[k] # Idle /\ job[k].handler \in {"save", "start"}
      /\ job[k].handler = "start" <=> k = Main
      /\ ~At(k, "select") /\ ~At(k, "write")
  BY <1>1, Rendering
<1>3. /\ job' \in [Threads -> Job \cup {Idle}] /\ job'[k] = Idle
      /\ \A j \in Threads : j # k => job'[j] = job[j]
      /\ alone' = alone
  BY <1>1, FinishEffect
<1>4. job'[Main] = Idle /\ job[Main] = Idle
  BY <1>1, <1>2, <1>3 DEF Jobs, Threads
<1>5. Jobs'
  BY <1>1, <1>3, <1>4, JobsFrame DEF Jobs, Values, repo
<1>6. Values'
  BY <1>1 DEF Values, repo
<1>7. ConfRight'
  <2>1. \A j \in Threads : /\ Handles(j, "save")' => Handles(j, "save")
                           /\ At(j, "resolve")' <=> At(j, "resolve")
                           /\ At(j, "render")' <=> At(j, "render")
                           /\ At(j, "load")' <=> At(j, "load")
                           /\ At(j, "resolve")' \/ At(j, "render")' => job'[j] = job[j]
    BY <1>1, <1>3 DEF Handles, At
  <2> QED BY <1>1, <1>3, <2>1 DEF ConfRight, Matches, Threads
<1>8. Restarted'
  BY <1>1 DEF Restarted
<1>9. ListRight' /\ StatusTrue'
  BY <1>1, <1>2, <1>3, <1>4, ListFrame DEF Handles, At
<1> QED BY <1>5, <1>6, <1>7, <1>8, <1>9

\* A container that restarts on its own reads the file too.
LEMMA CrashStep ==
  ASSUME IInv, UNCHANGED repo, DnsmasqCrash
  PROVE  IInv'
<1> USE DEF IInv, DnsmasqCrash, process
<1>1. Jobs'
  BY DEF Jobs, Placed, repo
<1>2. Values'
  BY DEF Values, repo
<1>3. ConfRight'
  BY DEF ConfRight, Matches, Handles, At
<1>4. Restarted'
  BY DEF Restarted
<1>5. ListRight' /\ StatusTrue'
  BY DEF ListRight, StatusTrue, Handles, At, repo
<1> QED BY <1>1, <1>2, <1>3, <1>4, <1>5

-------------------------------------------------------------------------------
(* The steps of the Repos page.                                              *)

\* A change of the mirrors and a request for a sync begin alike.
LEMMA ListBegin ==
  ASSUME IInv, UNCHANGED dhcp, UNCHANGED <<list, trigger, loop, status, unserved, cut>>,
         edits' \in 0 .. MaxEdits, edits <= edits',
         NEW k \in Workers, NEW h \in {"edit", "sync"}, Begin(k, h, "select", Idle)
  PROVE  IInv'
<1> USE ServerAssumption, RepoAssumption DEF IInv
<1>1. [handler |-> h, at |-> "select", read |-> Idle] \in Job /\ h \in Handlers
  BY JobMade DEF Handlers
<1>2. /\ k \in Threads /\ k # Main /\ Main \in Threads
      /\ File(h) = "list" /\ "conf" \in Files /\ "list" \in Files
  BY DEF Threads, File, Files
<1>3. /\ job' \in [Threads -> Job \cup {Idle}]
      /\ job[Main] = Idle /\ job[k] = Idle /\ job'[k] # Idle
      /\ job'[k].handler = h /\ job'[k].at = "select"
      /\ \A j \in Threads : j # k => job'[j] = job[j]
      /\ alone' \in [Files -> BOOLEAN] /\ alone'["conf"] = alone["conf"]
      /\ alone'["list"] =>
           \A j \in Workers : job[j] # Idle => File(job[j].handler) # "list"
  BY <1>1, <1>2, BeginEffect
<1>4. job'[Main] = Idle
  BY <1>2, <1>3
<1>5. Jobs'
  BY <1>2, <1>3, <1>4, JobsFrame DEF Values, Placed
<1>6. Values'
  BY DEF Values, dhcp
<1>7. ConfRight' /\ Restarted'
  BY <1>2, <1>3, ConfFrame DEF Handles, At
<1>8. ListRight'
  <2>1. SUFFICES ASSUME alone'["list"] PROVE ListRight'
    BY DEF ListRight
  <2>2. ASSUME NEW j \in Threads, j # k, job'[j] # Idle
        PROVE  ~Handles(j, "edit")' /\ ~Handles(j, "sync")' /\ ~At(j, "write")'
    <3>1. j \in Workers /\ job[j] # Idle /\ Placed(j) /\ job'[j] = job[j]
      BY <1>3, <2>2 DEF Threads, Jobs
    <3>2. job[j].handler = "save" /\ j # Main
      BY <1>3, <2>1, <3>1 DEF File
    <3> QED BY <3>1, <3>2 DEF Placed, Handles, At
  <2>3. \A j \in Threads : Handles(j, "edit")' \/ Handles(j, "sync")' \/ At(j, "write")' => j = k
    BY <2>2 DEF Handles, At
  <2>4. At(k, "select")' /\ ~At(k, "write")'
    BY <1>3 DEF At
  <2> QED BY <1>2, <2>3, <2>4 DEF ListRight, Threads
<1>9. StatusTrue'
  BY DEF StatusTrue
<1> QED BY <1>5, <1>6, <1>7, <1>8, <1>9

\* A thread on its way to mirror.list handles a change or a sync, or is the
\* start-up's.
LEMMA Listing ==
  ASSUME Jobs, NEW k \in Threads, At(k, "select") \/ At(k, "write") \/ At(k, "trigger")
  PROVE  /\ job[k] # Idle /\ job[k] \in Job /\ job[k].handler \in {"edit", "sync", "start"}
         /\ At(k, "trigger") => k \in Workers
         /\ job[k].handler = "start" <=> k = Main
         /\ ~At(k, "load") /\ ~At(k, "resolve") /\ ~At(k, "render")
<1>1. job[k] # Idle /\ job[k] \in Job /\ Placed(k)
  BY DEF At, Jobs
<1>2. job[k].handler \in Handlers
  BY <1>1, JobFields
<1> QED BY <1>1, <1>2 DEF Placed, At, Handlers, Threads

\* A thread that reads the mirrors holds the last change.
LEMMA SelectStep ==
  ASSUME IInv, UNCHANGED dhcp, NEW k \in Threads, ListSelect(k)
  PROVE  IInv'
<1> USE ServerAssumption, RepoAssumption DEF IInv
<1>1. /\ At(k, "select") /\ Goto(k, "write", edits) /\ list' = Unwritten
      /\ UNCHANGED <<edits, trigger, loop, status, unserved, cut>>
  BY DEF ListSelect
<1>2. /\ job[k] # Idle /\ job[k] \in Job /\ job[k].handler \in {"edit", "sync", "start"}
      /\ job[k].handler = "start" <=> k = Main
      /\ ~At(k, "load") /\ ~At(k, "resolve") /\ ~At(k, "render")
  BY <1>1, Listing
<1>3. [handler |-> job[k].handler, at |-> "write", read |-> edits] \in Job
  BY <1>2, JobMade DEF Values, Handlers
<1>4. /\ job' \in [Threads -> Job \cup {Idle}] /\ job'[k] # Idle
      /\ job'[k].handler = job[k].handler /\ job'[k].at = "write" /\ job'[k].read = edits
      /\ \A j \in Threads : j # k => job'[j] = job[j]
      /\ alone' = alone
  BY <1>1, <1>2, <1>3, GotoEffect
<1>5. job'[Main] # Idle <=> job[Main] # Idle
  BY <1>2, <1>4 DEF Threads
<1>6. job'[Main] # Idle => ~applied' /\ job[Main] # Idle /\ k = Main
  BY <1>2, <1>5 DEF Jobs, Threads, dhcp
<1>7. Jobs'
  BY <1>1, <1>2, <1>4, <1>6, JobsFrame DEF Jobs, Values, Placed
<1>8. Values'
  BY <1>1 DEF Values, dhcp
<1>9. ConfRight' /\ Restarted'
  BY <1>2, <1>4, ConfFrame DEF Handles, At
<1>10. ListRight'
  <2>1. \A j \in Threads : /\ Handles(j, "edit")' <=> Handles(j, "edit")
                           /\ Handles(j, "sync")' <=> Handles(j, "sync")
                           /\ j # k => (At(j, "write")' <=> At(j, "write"))
    BY <1>2, <1>4 DEF Handles, At
  <2>2. At(k, "write")' /\ job'[k].read = edits'
    BY <1>1, <1>4 DEF At
  <2> QED BY <1>1, <1>4, <2>1, <2>2 DEF ListRight, Threads
<1>11. StatusTrue'
  BY <1>1 DEF StatusTrue
<1> QED BY <1>7, <1>8, <1>9, <1>10, <1>11

\* A thread writes the list it holds.
LEMMA WriteStep ==
  ASSUME IInv, UNCHANGED dhcp, NEW k \in Threads, ListWrite(k)
  PROVE  IInv'
<1> USE ServerAssumption, RepoAssumption DEF IInv
<1>1. /\ At(k, "write") /\ list' = job[k].read
      /\ UNCHANGED <<edits, trigger, loop, status, unserved, cut>>
      /\ \/ Finish(k)
         \/ job[k].handler = "sync" /\ Goto(k, "trigger", Idle)
  BY DEF ListWrite
<1>2. /\ job[k] # Idle /\ job[k] \in Job /\ job[k].handler \in {"edit", "sync", "start"}
      /\ job[k].handler = "start" <=> k = Main
      /\ ~At(k, "load") /\ ~At(k, "resolve") /\ ~At(k, "render")
  BY <1>1, Listing
<1>3. job[k].read \in 0 .. edits /\ edits \in 0 .. MaxEdits
  BY <1>1, <1>2, JobFields DEF At, Jobs, Placed, Values
<1>4. [handler |-> job[k].handler, at |-> "trigger", read |-> Idle] \in Job
  BY <1>2, JobMade DEF Handlers
<1>5. /\ job' \in [Threads -> Job \cup {Idle}]
      /\ \A j \in Threads : j # k => job'[j] = job[j]
      /\ alone' = alone
      /\ \/ job'[k] = Idle
         \/ /\ job'[k] # Idle /\ job[k].handler = "sync"
            /\ job'[k].handler = "sync" /\ job'[k].at = "trigger"
  BY <1>1, <1>2, <1>4, GotoEffect, FinishEffect
<1>6. job'[Main] = Idle
  <2>1. CASE k = Main
    BY <1>2, <1>5, <2>1
  <2>2. CASE k \in Workers
    BY <1>2, <1>5, <2>2 DEF Jobs, Threads
  <2> QED BY <2>1, <2>2 DEF Threads
<1>7. Jobs'
  BY <1>1, <1>2, <1>3, <1>5, <1>6, JobsFrame DEF Jobs, Placed
<1>8. Values'
  BY <1>1, <1>3 DEF Values, dhcp
<1>9. ConfRight' /\ Restarted'
  BY <1>2, <1>5, ConfFrame DEF Handles, At
<1>10. ListRight'
  <2>1. SUFFICES ASSUME alone["list"] PROVE ListRight'
    BY <1>5 DEF ListRight
  <2>2. list' = edits'
    BY <1>1, <2>1 DEF ListRight
  <2>3. \A j \in Threads : /\ Handles(j, "edit")' => Handles(j, "edit")
                           /\ Handles(j, "sync")' => Handles(j, "sync")
                           /\ At(j, "write")' => j # k /\ At(j, "write")
    BY <1>2, <1>5 DEF Handles, At
  <2> QED BY <1>1, <1>5, <2>1, <2>2, <2>3 DEF ListRight, Threads
<1>11. StatusTrue'
  BY <1>1 DEF StatusTrue
<1> QED BY <1>7, <1>8, <1>9, <1>10, <1>11

\* The trigger is no file that is rendered.
LEMMA TriggerStep ==
  ASSUME IInv, UNCHANGED dhcp, NEW k \in Workers, Trigger(k)
  PROVE  IInv'
<1> USE ServerAssumption, RepoAssumption DEF IInv
<1>1. /\ At(k, "trigger") /\ Finish(k) /\ trigger' = TRUE /\ unserved' = TRUE
      /\ UNCHANGED <<edits, list, loop, status, cut>>
      /\ k \in Threads /\ k # Main
  BY DEF Trigger, Threads
<1>2. /\ job[k] # Idle /\ job[k].handler \in {"edit", "sync", "start"}
      /\ job[k].handler = "start" <=> k = Main
      /\ ~At(k, "load") /\ ~At(k, "resolve") /\ ~At(k, "render")
  BY <1>1, Listing
<1>3. /\ job' \in [Threads -> Job \cup {Idle}] /\ job'[k] = Idle
      /\ \A j \in Threads : j # k => job'[j] = job[j]
      /\ alone' = alone
  BY <1>1, FinishEffect
<1>4. job'[Main] = Idle /\ job[Main] = Idle
  BY <1>1, <1>2, <1>3 DEF Jobs, Threads
<1>5. Jobs'
  BY <1>1, <1>3, <1>4, JobsFrame DEF Jobs, Values
<1>6. Values'
  BY <1>1 DEF Values, dhcp
<1>7. ConfRight' /\ Restarted'
  BY <1>1, <1>2, <1>3, ConfFrame DEF Handles, At
<1>8. ListRight'
  <2>1. \A j \in Threads : /\ Handles(j, "edit")' => Handles(j, "edit")
                           /\ Handles(j, "sync")' => Handles(j, "sync")
                           /\ At(j, "write")' <=> At(j, "write")
                           /\ At(j, "select")' <=> At(j, "select")
                           /\ At(j, "write")' => job'[j] = job[j]
    BY <1>1, <1>3 DEF Handles, At
  <2> QED BY <1>1, <1>3, <1>4, <2>1 DEF ListRight, Threads
<1>9. StatusTrue'
  BY <1>1 DEF StatusTrue
<1> QED BY <1>5, <1>6, <1>7, <1>8, <1>9

-------------------------------------------------------------------------------
(* sync.sh and the server's restart.                                         *)

\* The loop of sync.sh sets the status of the run it begins or ends.
LEMMA LoopStep ==
  ASSUME IInv, UNCHANGED dhcp, Poll \/ Check \/ SyncBegin \/ SyncEnd \/ SyncRestart
  PROVE  IInv'
<1> USE DEF IInv
<1>1. UNCHANGED <<process, dhcp, edits, list>>
  BY DEF Poll, Check, SyncBegin, SyncEnd, SyncRestart
<1>2. Jobs' /\ ConfRight' /\ Restarted' /\ ListRight'
  BY <1>1 DEF Jobs, Placed, ConfRight, Matches, Restarted, ListRight, Handles, At, process, dhcp
<1>3. /\ trigger' \in BOOLEAN /\ unserved' \in BOOLEAN /\ cut' \in BOOLEAN
      /\ loop' \in {"poll", "check", "begin", "run"}
      /\ status' \in {"never-run", "running", "done", "failed"}
  BY DEF Values, Poll, Check, SyncBegin, SyncEnd, SyncRestart, Removed, Outcome
<1>4. Values'
  BY <1>1, <1>3 DEF Values, dhcp
<1>5. StatusTrue'
  BY DEF Values, StatusTrue, Poll, Check, SyncBegin, SyncEnd, SyncRestart, Outcome
<1> QED BY <1>2, <1>4, <1>5

\* After a stop of the server, start-up alone handles the files.
LEMMA ServerRestartStep ==
  ASSUME IInv, ServerRestart
  PROVE  IInv'
<1> USE ServerAssumption, JobAssumption DEF IInv
<1> DEFINE start == [handler |-> "start", at |-> "load", read |-> Idle]
<1>1. start \in Job /\ start # Idle
  BY DEF Job, Handlers
<1>2. /\ job' \in [Threads -> Job \cup {Idle}]
      /\ job'[Main] = start /\ \A k \in Workers : job'[k] = Idle
      /\ alone' \in [Files -> BOOLEAN]
  BY <1>1 DEF ServerRestart, ProcessRestart, Threads
<1>3. \A k \in Threads : job'[k] # Idle => k = Main
  BY <1>2 DEF Threads
<1>4. start.handler = "start" /\ start.at = "load" /\ start.read = Idle
  OBVIOUS
<1>5. applied' = FALSE /\ UNCHANGED <<setting, conf, dnsmasq, repo>>
  BY DEF ServerRestart
<1> HIDE DEF start
<1>6. Jobs'
  BY <1>1, <1>2, <1>3, <1>4, <1>5 DEF Jobs, Placed
<1>7. Values'
  BY <1>5 DEF Values, repo
<1>8. ConfRight'
  BY <1>1, <1>2, <1>3, <1>4 DEF ConfRight, Handles, At, Threads
<1>9. Restarted' /\ StatusTrue'
  BY <1>5 DEF Restarted, StatusTrue, repo
<1>10. ListRight'
  BY <1>1, <1>2, <1>3, <1>4 DEF ListRight, Handles, At, Threads
<1> QED BY <1>6, <1>7, <1>8, <1>9, <1>10

\* Every step keeps the invariant.
LEMMA StepInv == IInv /\ [Next]_vars => IInv'
<1> SUFFICES ASSUME IInv, [Next]_vars PROVE IInv'
  OBVIOUS
<1>1. CASE UNCHANGED vars
  BY <1>1 DEF vars, process, dhcp, repo, IInv, Jobs, Placed, Values, ConfRight, Matches,
     Restarted, ListRight, StatusTrue, Handles, At
<1>2. CASE DhcpNext /\ UNCHANGED repo
  BY <1>2, SaveStep, DnsmasqRestartStep, LoadStep, ResolveStep, RenderStep, CrashStep
  DEF DhcpNext
<1>3. CASE RepoNext /\ UNCHANGED dhcp
  <2>1. ASSUME NEW k \in Workers, MirrorEdit(k) PROVE IInv'
    <3>1. edits' \in 0 .. MaxEdits /\ edits <= edits'
      BY <2>1, RepoAssumption DEF MirrorEdit, IInv, Values
    <3> QED BY <1>3, <2>1, <3>1, ListBegin DEF MirrorEdit
  <2>2. ASSUME NEW k \in Workers, SyncNow(k) PROVE IInv'
    <3>1. edits' \in 0 .. MaxEdits /\ edits <= edits'
      BY <2>2, RepoAssumption DEF SyncNow, IInv, Values, repo
    <3> QED BY <1>3, <2>2, <3>1, ListBegin DEF SyncNow, repo
  <2> QED BY <1>3, <2>1, <2>2, SelectStep, WriteStep, TriggerStep, LoopStep DEF RepoNext
<1>4. CASE ServerRestart
  BY <1>4, ServerRestartStep
<1> QED BY <1>1, <1>2, <1>3, <1>4 DEF Next

\* The invariant holds in every reachable state.
LEMMA Invariance == Spec => []IInv
BY InitInv, StepInv, PTL DEF Spec

-------------------------------------------------------------------------------

\* The threads of the server, the two files and the mirror's status stay what they
\* are declared to be.
THEOREM TypeCorrect == Spec => []TypeOK
BY Invariance, TypeFollows, PTL

\* When nothing is under way and the last save was not overlapped by another,
\* dnsmasq.conf is what the stored setting says, for any number of requests at one
\* time and restarts of the server at any point.
THEOREM ConfigurationCurrent == Spec => []ConfCurrent
<1>1. IInv => ConfCurrent
  BY DEF IInv, ConfRight, ConfCurrent, Matches, Quiet, At, Values, Settings
<1> QED BY <1>1, Invariance, PTL

\* When nothing is under way dnsmasq runs with what is in the file, however saves
\* overlapped, unless its last restart failed or the server was restarted since.
THEOREM DnsmasqCurrent == Spec => []RunningCurrent
<1>1. IInv => RunningCurrent
  BY DEF IInv, Restarted, RunningCurrent, Handles, Quiet, Threads
<1> QED BY <1>1, Invariance, PTL

\* When nothing is under way and the last request for mirror.list was not overlapped
\* by another, the list is what the table says.
THEOREM MirrorListCurrent == Spec => []ListCurrent
<1>1. IInv => ListCurrent
  BY DEF IInv, ListRight, ListCurrent, Quiet, At, Threads
<1> QED BY <1>1, Invariance, PTL

\* status.json says "running" only during a run, or after one that was cut short.
THEOREM StatusIsTrue == Spec => []StatusTrue
<1>1. IInv => StatusTrue
  BY DEF IInv
<1> QED BY <1>1, Invariance, PTL
===============================================================================
