---------------------------- MODULE ServerProcess ----------------------------
(***************************************************************************)
(* The server's process as the modules of its sidecars see it: requests in *)
(* a pool of worker threads, the start-up in a thread of its own, and      *)
(* restarts that end them all (main.py, db.py).  What a thread does next   *)
(* is data here; DhcpMode and RepoSync say what it means.                  *)
(***************************************************************************)
EXTENDS Naturals

CONSTANTS
  Workers, \* requests handled at one time
  Main,    \* the thread of the start-up
  Idle     \* the job of a thread without one

ASSUME ServerAssumption == Main \notin Workers

VARIABLES
  job,  \* job[k]: the handler thread k executes, its next step, and what it
        \* has read so far; or Idle
  alone \* history: alone[f]: no two requests that render f overlapped since the
        \* last one that began with no other under way

process == <<job, alone>>

Threads == Workers \cup {Main}

\* The file a handler renders: dnsmasq.conf or mirror.list.
Files == {"conf", "list"}
File(handler) == IF handler = "save" THEN "conf" ELSE "list"

ProcessInit ==
  /\ job = [k \in Threads |->
              IF k = Main THEN [handler |-> "start", at |-> "load", read |-> Idle] ELSE Idle]
  /\ alone = [f \in Files |-> TRUE]

\* Thread k begins to handle a request; none is handled before start-up is over.
Begin(k, handler, at, read) ==
  /\ k \in Workers /\ job[k] = Idle /\ job[Main] = Idle
  /\ job' = [job EXCEPT ![k] = [handler |-> handler, at |-> at, read |-> read]]
  /\ alone' = [alone EXCEPT ![File(handler)] =
                 \A j \in Workers : job[j] # Idle => File(job[j].handler) # File(handler)]

At(k, step) == job[k] # Idle /\ job[k].at = step

Goto(k, step, read) ==
  /\ job' = [job EXCEPT ![k].at = step, ![k].read = read]
  /\ UNCHANGED alone

Finish(k) == job' = [job EXCEPT ![k] = Idle] /\ UNCHANGED alone

\* The process ends, whatever its threads do, and begins again with start-up.
ProcessRestart ==
  /\ job' = [k \in Threads |->
               IF k = Main THEN [handler |-> "start", at |-> "load", read |-> Idle] ELSE Idle]
  /\ alone' = [f \in Files |-> TRUE]

Quiet == \A k \in Threads : job[k] = Idle
===============================================================================
