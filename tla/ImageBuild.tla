------------------------------ MODULE ImageBuild ------------------------------
(***************************************************************************)
(* Building OS images from ISOs: the image pages (routers/provision.py)    *)
(* start background threads (builder.py) that write the tree of a slug     *)
(* under http/ and smb/, all of them through one staging directory         *)
(* /tmp/wimstage, and record their fate in the jobs table.                 *)
(***************************************************************************)
EXTENDS Naturals, FiniteSets

CONSTANTS
  Slugs,     \* Image.slug: where an image's assets live, unique among the rows
  Windows,   \* the slugs of Windows images
  Isos,      \* files of the ISO library
  Admins,    \* build requests the server handles at one time
  MaxJobs,   \* bound: jobs ever started
  MaxIds,    \* bound: image rows ever inserted under one slug
  None,      \* no ISO, no slug
  Torn,      \* a file being written, or left so
  Faults     \* subset of {"crash", "tool"}: the server stops; 7z, a copy or
             \* wimupdate fails (a missing or unsuitable ISO, a full disk)

ASSUME BuildAssumption ==
  /\ Windows \subseteq Slugs
  /\ None \notin Slugs \cup Isos /\ Torn \notin Isos /\ None # Torn
  /\ MaxJobs \in Nat /\ MaxIds \in Nat
  /\ Faults \subseteq {"crash", "tool"}

Jobs == 1 .. MaxJobs

VARIABLES
  row,       \* row[s]: the image row with slug s, numbered among those that
             \* ever had it, 0 when there is none
  path,      \* path[s]: its iso_path
  lastId,    \* lastId[s]: how many image rows had slug s
  lastJob,   \* the last job id
  job,       \* job[j]: the row of jobs, its ref_id and the ISO of the build
  step,      \* step[j]: what the thread of job j does next, "none" without one
  seen,      \* seen[j]: iso_path as the thread's session read it
  boot,      \* boot[s]: ISO the kernel and initrd, or boot.wim, came from
  media,     \* media[s]: ISO that image.iso, or the SMB tree, is a copy of
  net,       \* net[s]: slug startnet.cmd inside boot.wim mounts
  stage,     \* slug in the startnet.cmd staged in /tmp/wimstage
  req,       \* req[c]: a build request between its check and its insert
  cut        \* history: the jobs whose thread a stop of the server ended

rows    == <<row, path, lastId>>
assets  == <<boot, media, net>>
vars    == <<rows, lastJob, job, step, seen, assets, stage, req, cut>>

NoJob == [status |-> "none", slug |-> None, id |-> 0, iso |-> None]
NoReq == [slug |-> None, id |-> 0, iso |-> None]

Steps == {"none", "load", "boot", "boot2", "media", "media2",
          "clear", "write", "patch", "finish"}

TypeOK ==
  /\ row \in [Slugs -> 0 .. MaxIds] /\ lastId \in [Slugs -> 0 .. MaxIds]
  /\ path \in [Slugs -> Isos \cup {None}]
  /\ lastJob \in 0 .. MaxJobs
  /\ job \in [Jobs -> [status : {"none", "running", "done", "failed"},
                       slug : Slugs \cup {None}, id : 0 .. MaxIds,
                       iso : Isos \cup {None}]]
  /\ step \in [Jobs -> Steps]
  /\ seen \in [Jobs -> Isos \cup {None}]
  /\ boot \in [Slugs -> Isos \cup {None, Torn}]
  /\ media \in [Slugs -> Isos \cup {None, Torn}]
  /\ net \in [Slugs -> Slugs \cup {None}]
  /\ stage \in Slugs \cup {None}
  /\ req \in [Admins -> [slug : Slugs \cup {None}, id : 0 .. MaxIds,
                         iso : Isos \cup {None}]]
  /\ cut \subseteq Jobs

Init ==
  /\ row = [s \in Slugs |-> 0] /\ lastId = [s \in Slugs |-> 0]
  /\ path = [s \in Slugs |-> None]
  /\ lastJob = 0
  /\ job = [j \in Jobs |-> NoJob]
  /\ step = [j \in Jobs |-> "none"]
  /\ seen = [j \in Jobs |-> None]
  /\ boot = [s \in Slugs |-> None]
  /\ media = [s \in Slugs |-> None]
  /\ net = [s \in Slugs |-> None]
  /\ stage = None
  /\ req = [c \in Admins |-> NoReq]
  /\ cut = {}

-------------------------------------------------------------------------------
(* The image pages.                                                          *)

\* image_new, and seed() for a default image whose slug is gone.
ImageNew(s) ==
  /\ row[s] = 0 /\ lastId[s] < MaxIds
  /\ lastId' = [lastId EXCEPT ![s] = @ + 1]
  /\ row' = [row EXCEPT ![s] = lastId[s] + 1]
  /\ path' = [path EXCEPT ![s] = None]
  /\ UNCHANGED <<lastJob, job, step, seen, assets, stage, req, cut>>

\* image_delete: the row goes, its assets, jobs and threads stay.
ImageDelete(s) ==
  /\ row[s] # 0
  /\ row' = [row EXCEPT ![s] = 0]
  /\ UNCHANGED <<path, lastId, lastJob, job, step, seen, assets, stage, req, cut>>

\* build_running.
BuildRunning_LastJob(s) == /\ lastJob # 0 /\ job[lastJob].slug = s
                           /\ job[lastJob].status = "running"
BuildRunning(s) == \E j \in Jobs : /\ job[j].slug = s /\ job[j].id = row[s]
                                  /\ job[j].status = "running"

\* image_build, first half: the image exists and no job of it is running.
BuildCheck(c, s, iso) ==
  /\ req[c] = NoReq
  /\ row[s] # 0 /\ ~BuildRunning(s)
  /\ req' = [req EXCEPT ![c] = [slug |-> s, id |-> row[s], iso |-> iso]]
  /\ UNCHANGED <<rows, lastJob, job, step, seen, assets, stage, cut>>

\* image_build, second half: start_build inserts the job and starts its thread.
BuildStart(c) ==
  /\ req[c] # NoReq /\ lastJob < MaxJobs
  /\ lastJob' = lastJob + 1
  /\ job' = [job EXCEPT ![lastJob + 1] =
               [status |-> "running", slug |-> req[c].slug,
                id |-> req[c].id, iso |-> req[c].iso]]
  /\ step' = [step EXCEPT ![lastJob + 1] = "load"]
  /\ req' = [req EXCEPT ![c] = NoReq]
  /\ UNCHANGED <<rows, seen, assets, stage, cut>>

-------------------------------------------------------------------------------
(* The thread of job j.                                                      *)

Goto(j, st) == step' = [step EXCEPT ![j] = st]

\* The except clause of _build.
Failed_Error(j) == job' = [job EXCEPT ![j].status = "error"] /\ Goto(j, "none")
Failed_Silent(j) == UNCHANGED job /\ Goto(j, "none")
Failed(j) == /\ job' = [job EXCEPT ![j].status = "failed"]
             /\ Goto(j, "none")

\* _build reads the image; one deleted in between is an AttributeError.
Load(j) ==
  LET s == job[j].slug IN
  /\ step[j] = "load"
  /\ IF row[s] = job[j].id
     THEN /\ seen' = [seen EXCEPT ![j] = path[s]]
          /\ Goto(j, "boot")
          /\ UNCHANGED job
     ELSE Failed(j) /\ UNCHANGED seen
  /\ UNCHANGED <<rows, lastJob, assets, stage, req, cut>>

\* Extract the kernel and initrd, or boot files and an unpatched boot.wim, over
\* what is there.
Boot(j) ==
  LET s == job[j].slug IN
  /\ \/ /\ step[j] = "boot" /\ Goto(j, "boot2")
        /\ boot' = [boot EXCEPT ![s] = Torn]
     \/ /\ step[j] = "boot2" /\ Goto(j, "media")
        /\ boot' = [boot EXCEPT ![s] = job[j].iso]
  /\ net' = [net EXCEPT ![s] = None]
  /\ UNCHANGED <<rows, lastJob, job, seen, media, stage, req, cut>>

\* Windows media get their boot.wim patched.
AfterMedia_Unpatched(s) == "finish"
AfterMedia(s) == IF s \in Windows THEN "clear" ELSE "finish"

\* Copy the ISO, or unpack it to the SMB share.
Media(j) ==
  LET s == job[j].slug IN
  /\ \/ /\ step[j] = "media" /\ Goto(j, "media2")
        /\ media' = [media EXCEPT ![s] = Torn]
     \/ /\ step[j] = "media2"
        /\ Goto(j, AfterMedia(s))
        /\ media' = [media EXCEPT ![s] = job[j].iso]
  /\ UNCHANGED <<rows, lastJob, job, seen, boot, net, stage, req, cut>>

\* rmtree(/tmp/wimstage).
StageClear(j) ==
  /\ step[j] = "clear" /\ Goto(j, "write")
  /\ stage' = None
  /\ UNCHANGED <<rows, lastJob, job, seen, assets, req, cut>>

\* mkdir, which fails on a directory, and the write of startnet.cmd.
StageWrite(j) ==
  /\ step[j] = "write"
  /\ IF stage = None
     THEN /\ stage' = job[j].slug
          /\ Goto(j, "patch")
          /\ UNCHANGED job
     ELSE Failed(j) /\ UNCHANGED stage
  /\ UNCHANGED <<rows, lastJob, seen, assets, req, cut>>

\* wimupdate adds the staged files to boot.wim; then rmtree again.
Patch(j) ==
  LET s == job[j].slug IN
  /\ step[j] = "patch"
  /\ IF stage # None /\ boot[s] # Torn
     THEN /\ net' = [net EXCEPT ![s] = stage]
          /\ stage' = None
          /\ Goto(j, "finish")
          /\ UNCHANGED job
     ELSE Failed(j) /\ UNCHANGED <<net, stage>>
  /\ UNCHANGED <<rows, lastJob, seen, boot, media, req, cut>>

\* One commit sets iso_path and "done".  With the image row gone the UPDATE of
\* a changed iso_path fails, and so does every later use of the session: the
\* thread ends with the job as it was.
Finish(j) ==
  LET s == job[j].slug
      exists == row[s] = job[j].id IN
  /\ step[j] = "finish" /\ Goto(j, "none")
  /\ job' = IF exists \/ seen[j] = job[j].iso
            THEN [job EXCEPT ![j].status = "done"] ELSE job
  /\ path' = IF exists /\ seen[j] # job[j].iso
             THEN [path EXCEPT ![s] = job[j].iso] ELSE path
  /\ UNCHANGED <<row, lastId, lastJob, seen, assets, stage, req, cut>>

\* A tool fails, or the ISO is missing or unsuitable.
ToolFails(j) ==
  /\ "tool" \in Faults
  /\ step[j] \notin {"none", "finish"}
  /\ Failed(j)
  /\ UNCHANGED <<rows, lastJob, seen, assets, stage, req, cut>>

\* The server stops and starts again: threads and requests are gone, the jobs
\* table is as it was.  A container that is recreated loses /tmp.
Crash ==
  /\ "crash" \in Faults
  /\ step' = [j \in Jobs |-> "none"]
  /\ req' = [c \in Admins |-> NoReq]
  /\ stage' \in {stage, None}
  /\ cut' = cut \cup {j \in Jobs : step[j] # "none"}
  /\ UNCHANGED <<rows, lastJob, job, seen, assets>>

-------------------------------------------------------------------------------
Thread(j) == \/ Load(j) \/ Boot(j) \/ Media(j)
             \/ StageClear(j) \/ StageWrite(j) \/ Patch(j)
             \/ Finish(j)

Next ==
  \/ \E s \in Slugs : ImageNew(s) \/ ImageDelete(s)
  \/ \E c \in Admins : \/ \E s \in Slugs, iso \in Isos : BuildCheck(c, s, iso)
                       \/ BuildStart(c)
  \/ \E j \in Jobs : Thread(j) \/ ToolFails(j)
  \/ Crash

Spec == Init /\ [][Next]_vars

\* Threads run.
FairSpec == Spec /\ \A j \in Jobs : WF_vars(Thread(j))
-------------------------------------------------------------------------------
(* Properties.                                                               *)

\* No two threads write the tree of one slug: what build_running is for
\* (provision.py:130), through crashes, failures and deletions.
OneBuilder ==
  \A j, k \in Jobs :
    step[j] # "none" /\ step[k] # "none" /\ job[j].slug = job[k].slug => j = k

Builds(s) == {j \in Jobs : job[j].slug = s}

\* When the last build of an image succeeded, its kernel and its medium come
\* from one and the same ISO, that of the build, and WinPE mounts its own share:
\* "patch boot.wim so WinPE mounts the share" (README.md:48).
DoneIsWhole ==
  \A s \in Slugs : \A j \in Builds(s) :
    job[j].status = "done" /\ (\A k \in Builds(s) : k <= j)
      => /\ boot[s] = job[j].iso /\ media[s] = job[j].iso
         /\ s \in Windows => net[s] = s

\* An image is not locked for ever by a build: a job of an image that is not
\* deleted reaches a verdict ("running/done/failed", models.py:163), and the image
\* can be built again, whatever tools fail, unless the server stops during it:
\* nothing at start-up settles the jobs it leaves.
BuildEnds ==
  \A j \in Jobs :
    job[j].status = "running"
      ~> \/ job[j].status \in {"done", "failed"} \/ j \in cut
         \/ \E s \in Slugs : job[j].slug = s /\ row[s] # job[j].id
===============================================================================
