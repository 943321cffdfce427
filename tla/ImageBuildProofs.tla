--------------------------- MODULE ImageBuildProofs ---------------------------
(***************************************************************************)
(* Proofs about ImageBuild, for any number of slugs, ISOs and jobs and     *)
(* with every fault.  What the check of build_running gives is proved      *)
(* where build requests do not overlap; what a finished build leaves, also *)
(* where no slug is used again and one Windows image shares the staging    *)
(* directory with nobody.  The hypotheses are those of the run             *)
(* build_serial, and stand in the theorems.                                *)
(***************************************************************************)
EXTENDS ImageBuild, TLAPS

OneAdmin == \A c, d \in Admins : c = d
OneRow == MaxIds = 1
OneWindows == \A s, t \in Windows : s = t

-------------------------------------------------------------------------------
(* The inductive invariant.                                                  *)

Active(j) == step[j] # "none"

\* A job that has a thread is running, and one that exists has an image's name.
Started ==
  \A j \in Jobs :
    /\ Active(j) => job[j].status = "running"
    /\ job[j].status # "none" => job[j].slug \in Slugs /\ job[j].id # 0
    /\ job[j].status = "none" <=> lastJob < j
    /\ lastJob < j => job[j] = NoJob

Named == \A c \in Admins : req[c] # NoReq => req[c].slug \in Slugs /\ req[c].id # 0

TInv == TypeOK /\ Started /\ Named

\* A request that was checked is for an image none of whose jobs is running.
Requested ==
  \A c \in Admins : req[c] # NoReq =>
    \A j \in Jobs : ~(/\ job[j].status = "running"
                      /\ job[j].slug = req[c].slug /\ job[j].id = req[c].id)

\* One row of an image is built by one thread.
OneOfRow ==
  \A j, k \in Jobs :
    /\ Active(j) /\ Active(k)
    /\ job[j].slug = job[k].slug /\ job[j].id = job[k].id
    => j = k

BInv == TInv /\ Requested /\ OneOfRow

\* A thread is that of the last build of its image.
Last ==
  \A j \in Jobs : Active(j) => \A k \in Builds(job[j].slug) : k <= j

\* What the thread has written when it gets to a step.
Progress ==
  \A j \in Jobs :
    LET s == job[j].slug IN
    /\ step[j] \in {"media", "media2", "clear", "write", "patch", "finish"} =>
         boot[s] = job[j].iso
    /\ step[j] \in {"clear", "write", "patch"} => s \in Windows
    /\ step[j] \in {"clear", "write", "patch", "finish"} => media[s] = job[j].iso
    /\ step[j] = "finish" /\ s \in Windows => net[s] = s

\* Only builds of Windows images use the staging directory.
Staged == stage \in Windows \cup {None}

IInv == BInv /\ Last /\ Progress /\ Staged /\ DoneIsWhole


-------------------------------------------------------------------------------
(* Types, and what a thread's step does to the jobs.                         *)

JobRow == [status : {"none", "running", "done", "failed"}, slug : Slugs \cup {None},
           id : 0 .. MaxIds, iso : Isos \cup {None}]
ReqRow == [slug : Slugs \cup {None}, id : 0 .. MaxIds, iso : Isos \cup {None}]

\* Job j of the state before the step gets status st and its thread goes to sp.
Moved(j, st, sp) ==
  /\ job' \in [Jobs -> JobRow] /\ step' \in [Jobs -> Steps]
  /\ job'[j].slug = job[j].slug /\ job'[j].id = job[j].id /\ job'[j].iso = job[j].iso
  /\ job'[j].status = st /\ step'[j] = sp
  /\ \A k \in Jobs : k # j => job'[k] = job[k] /\ step'[k] = step[k]

\* The verdict of a job changes nothing else of it, and no other job.
LEMMA Verdict ==
  ASSUME job \in [Jobs -> JobRow], NEW j \in Jobs, NEW st \in {"done", "failed"},
         job' = [job EXCEPT ![j].status = st]
  PROVE  /\ job' \in [Jobs -> JobRow]
         /\ job'[j].slug = job[j].slug /\ job'[j].id = job[j].id /\ job'[j].iso = job[j].iso
         /\ job'[j].status = st
         /\ \A k \in Jobs : k # j => job'[k] = job[k]
<1>1. job[j] \in JobRow
  OBVIOUS
<1>2. job[j] = [status |-> job[j].status, slug |-> job[j].slug, id |-> job[j].id,
                iso |-> job[j].iso]
  BY <1>1 DEF JobRow
<1>3. job'[j] = [status |-> st, slug |-> job[j].slug, id |-> job[j].id, iso |-> job[j].iso]
  BY <1>2
<1>4. job'[j] \in JobRow
  BY <1>1, <1>3 DEF JobRow
<1>5. \A k \in Jobs : k # j => job'[k] = job[k]
  OBVIOUS
<1>6. job' = [k \in Jobs |-> job'[k]]
  OBVIOUS
<1>7. \A k \in Jobs : job'[k] \in JobRow
  BY <1>4, <1>5
<1> QED BY <1>3, <1>5, <1>6, <1>7

\* A thread that goes on changes its own step only.
LEMMA GotoMoves ==
  ASSUME TypeOK, NEW j \in Jobs, NEW sp \in Steps, Goto(j, sp), UNCHANGED job
  PROVE  Moved(j, job[j].status, sp)
BY DEF TypeOK, Goto, Moved, JobRow

\* A thread that fails ends, and its job is failed.
LEMMA FailedMoves ==
  ASSUME TypeOK, NEW j \in Jobs, Failed(j)
  PROVE  Moved(j, "failed", "none")
<1>1. job \in [Jobs -> JobRow] /\ step \in [Jobs -> Steps]
  BY DEF TypeOK, JobRow
<1>2. job' = [job EXCEPT ![j].status = "failed"] /\ step' = [step EXCEPT ![j] = "none"]
  BY DEF Failed, Goto
<1> QED BY <1>1, <1>2, Verdict DEF Moved, Steps

\* A thread's step, and a tool's failure, move one job that has a thread.
LEMMA ThreadEffect ==
  ASSUME TInv, NEW j \in Jobs, Thread(j) \/ ToolFails(j)
  PROVE  /\ Active(j) /\ job[j].slug \in Slugs /\ UNCHANGED <<lastJob, req, row, lastId, cut>>
         /\ \/ \E sp \in Steps \ {"none"} : Moved(j, "running", sp)
            \/ \E st \in {"running", "done", "failed"} : Moved(j, st, "none")
<1> USE DEF TInv, Active, rows
<1>1. \A sp \in Steps : Active(j) /\ Goto(j, sp) /\ UNCHANGED job => Moved(j, "running", sp)
  BY GotoMoves DEF Started
<1>2. Failed(j) => Moved(j, "failed", "none")
  BY FailedMoves
<1>3. Active(j) => job[j].slug \in Slugs
  BY DEF Started
<1>4. CASE Load(j)
  BY <1>1, <1>2, <1>3, <1>4 DEF Load, Steps
<1>5. CASE Boot(j)
  BY <1>1, <1>3, <1>5 DEF Boot, Steps
<1>6. CASE Media(j)
  BY <1>1, <1>3, <1>6 DEF Media, Steps, AfterMedia
<1>7. CASE StageClear(j) \/ StageWrite(j) \/ Patch(j)
  BY <1>1, <1>2, <1>3, <1>7 DEF StageClear, StageWrite, Patch, Steps
<1>8. CASE Finish(j)
  <2>1. step[j] = "finish" /\ Goto(j, "none") /\ UNCHANGED <<lastJob, req, row, lastId, cut>>
    BY <1>8 DEF Finish
  <2>2. CASE UNCHANGED job
    BY <1>1, <1>3, <2>1, <2>2 DEF Steps
  <2>3. CASE job' = [job EXCEPT ![j].status = "done"]
    <3>1. job \in [Jobs -> JobRow] /\ step \in [Jobs -> Steps]
      BY DEF TypeOK, JobRow
    <3>2. Moved(j, "done", "none")
      BY <2>1, <2>3, <3>1, Verdict DEF Moved, Goto, Steps
    <3> QED BY <1>3, <2>1, <3>2
  <2> QED BY <1>8, <2>2, <2>3 DEF Finish
<1>9. CASE ToolFails(j)
  BY <1>2, <1>3, <1>9 DEF ToolFails
<1> QED BY <1>4, <1>5, <1>6, <1>7, <1>8, <1>9 DEF Thread

\* The other variables, in the steps of a thread.
LEMMA ThreadTypes ==
  ASSUME TInv, NEW j \in Jobs, Thread(j) \/ ToolFails(j)
  PROVE  TypeOK'
<1> USE BuildAssumption DEF TInv, rows, assets
<1>1. job[j].slug \in Slugs /\ job[j].iso \in Isos \cup {None}
  BY ThreadEffect DEF TypeOK
<1>2. /\ job' \in [Jobs -> JobRow] /\ step' \in [Jobs -> Steps]
      /\ UNCHANGED <<lastJob, req, row, lastId, cut>>
  BY ThreadEffect DEF Moved
<1>3. seen' \in [Jobs -> Isos \cup {None}]
  BY <1>1 DEF TypeOK, Thread, Load, Boot, Media, StageClear, StageWrite, Patch, Finish,
     ToolFails
<1>4. path' \in [Slugs -> Isos \cup {None}]
  BY <1>1 DEF TypeOK, Thread, Load, Boot, Media, StageClear, StageWrite, Patch, Finish,
     ToolFails
<1>5. boot' \in [Slugs -> Isos \cup {None, Torn}]
  BY <1>1 DEF TypeOK, Thread, Load, Boot, Media, StageClear, StageWrite, Patch, Finish,
     ToolFails
<1>6. media' \in [Slugs -> Isos \cup {None, Torn}]
  BY <1>1 DEF TypeOK, Thread, Load, Boot, Media, StageClear, StageWrite, Patch, Finish,
     ToolFails
<1>7. net' \in [Slugs -> Slugs \cup {None}] /\ stage' \in Slugs \cup {None}
  BY <1>1 DEF TypeOK, Thread, Load, Boot, Media, StageClear, StageWrite, Patch, Finish,
     ToolFails
<1> QED BY <1>2, <1>3, <1>4, <1>5, <1>6, <1>7 DEF TypeOK, JobRow

\* What an insert of start_build makes of the tables.
LEMMA StartEffect ==
  ASSUME TInv, NEW c \in Admins, BuildStart(c)
  PROVE  /\ lastJob + 1 \in Jobs /\ lastJob \in Nat /\ lastJob' = lastJob + 1
         /\ req[c] # NoReq /\ req[c].slug \in Slugs /\ req[c].id # 0
         /\ job' \in [Jobs -> JobRow] /\ step' \in [Jobs -> Steps]
         /\ job'[lastJob + 1].status = "running"
         /\ job'[lastJob + 1].slug = req[c].slug /\ job'[lastJob + 1].id = req[c].id
         /\ step'[lastJob + 1] = "load" /\ step[lastJob + 1] = "none"
         /\ \A k \in Jobs : k # lastJob + 1 => job'[k] = job[k] /\ step'[k] = step[k]
         /\ req' \in [Admins -> ReqRow] /\ req'[c] = NoReq
         /\ \A d \in Admins : d # c => req'[d] = req[d]
         /\ UNCHANGED <<rows, seen, assets, stage, cut>>
<1> USE BuildAssumption DEF TInv
<1> DEFINE new == [status |-> "running", slug |-> req[c].slug, id |-> req[c].id,
                   iso |-> req[c].iso]
<1>1. /\ req[c] # NoReq /\ lastJob < MaxJobs /\ lastJob' = lastJob + 1
      /\ job' = [job EXCEPT ![lastJob + 1] = new]
      /\ step' = [step EXCEPT ![lastJob + 1] = "load"]
      /\ req' = [req EXCEPT ![c] = NoReq]
      /\ UNCHANGED <<rows, seen, assets, stage, cut>>
  BY DEF BuildStart
<1>2. lastJob + 1 \in Jobs /\ lastJob \in Nat
  BY <1>1 DEF TypeOK, Jobs
<1>3. req[c].slug \in Slugs /\ req[c].id # 0 /\ req[c] \in ReqRow
  BY <1>1 DEF TypeOK, Named, ReqRow
<1>4. new \in JobRow
  BY <1>3 DEF JobRow, ReqRow
<1>5. new.status = "running" /\ new.slug = req[c].slug /\ new.id = req[c].id
  OBVIOUS
<1> HIDE DEF new
<1>6. /\ job' \in [Jobs -> JobRow] /\ job'[lastJob + 1] = new
      /\ \A k \in Jobs : k # lastJob + 1 => job'[k] = job[k]
  <2>1. job \in [Jobs -> JobRow]
    BY DEF TypeOK, JobRow
  <2> QED BY <1>1, <1>2, <1>4, <2>1
<1>7. /\ step' \in [Jobs -> Steps] /\ step'[lastJob + 1] = "load"
      /\ \A k \in Jobs : k # lastJob + 1 => step'[k] = step[k]
  <2>1. step \in [Jobs -> Steps] /\ "load" \in Steps
    BY DEF TypeOK, Steps
  <2> QED BY <1>1, <1>2, <2>1
<1>8. step[lastJob + 1] = "none"
  <2>1. job[lastJob + 1] = NoJob
    BY <1>2 DEF Started
  <2>2. job[lastJob + 1].status # "running"
    BY <2>1 DEF NoJob
  <2> QED BY <1>2, <2>2 DEF Started, Active
<1>9. /\ req' \in [Admins -> ReqRow] /\ req'[c] = NoReq
      /\ \A d \in Admins : d # c => req'[d] = req[d]
  <2>1. req \in [Admins -> ReqRow] /\ NoReq \in ReqRow
    BY DEF TypeOK, ReqRow, NoReq
  <2> QED BY <1>1, <2>1
<1> QED BY <1>1, <1>2, <1>3, <1>5, <1>6, <1>7, <1>8, <1>9

\* What the check of image_build makes of the request.
LEMMA CheckEffect ==
  ASSUME TInv, NEW c \in Admins, NEW s \in Slugs, NEW iso \in Isos, BuildCheck(c, s, iso)
  PROVE  /\ req' \in [Admins -> ReqRow] /\ row[s] # 0
         /\ req'[c].slug = s /\ req'[c].id = row[s]
         /\ \A d \in Admins : d # c => req'[d] = req[d]
         /\ \A j \in Jobs : ~(/\ job[j].status = "running"
                              /\ job[j].slug = s /\ job[j].id = row[s])
         /\ UNCHANGED <<rows, lastJob, job, step, seen, assets, stage, cut>>
<1> DEFINE new == [slug |-> s, id |-> row[s], iso |-> iso]
<1>1. /\ row[s] # 0 /\ ~BuildRunning(s) /\ req' = [req EXCEPT ![c] = new]
      /\ UNCHANGED <<rows, lastJob, job, step, seen, assets, stage, cut>>
  BY DEF BuildCheck
<1>2. req \in [Admins -> ReqRow] /\ new \in ReqRow
  BY DEF TInv, TypeOK, ReqRow
<1>3. new.slug = s /\ new.id = row[s]
  OBVIOUS
<1> HIDE DEF new
<1>4. /\ req' \in [Admins -> ReqRow] /\ req'[c] = new
      /\ \A d \in Admins : d # c => req'[d] = req[d]
  BY <1>1, <1>2
<1> QED BY <1>1, <1>3, <1>4 DEF BuildRunning

\* No job exists at first.
LEMMA TInit == Init => TInv
<1> SUFFICES ASSUME Init PROVE TInv
  OBVIOUS
<1>1. TypeOK
  BY BuildAssumption DEF Init, TypeOK, NoJob, NoReq, Steps
<1>2. \A j \in Jobs : 0 < j /\ NoJob.status = "none"
  BY DEF Jobs, NoJob
<1>3. Started
  BY <1>2 DEF Init, Started, Active
<1> QED BY <1>1, <1>3 DEF Init, TInv, Named

\* Every step keeps the types, with any number of administrators.
LEMMA TStep == TInv /\ [Next]_vars => TInv'
<1> SUFFICES ASSUME TInv, [Next]_vars PROVE TInv'
  OBVIOUS
<1> USE BuildAssumption DEF rows, assets
<1>1. ASSUME NEW s \in Slugs, ImageNew(s) PROVE TInv'
  <2>1. lastId[s] + 1 \in 0 .. MaxIds
    BY <1>1 DEF ImageNew, TInv, TypeOK
  <2>2. TypeOK'
    BY <1>1, <2>1 DEF ImageNew, TInv, TypeOK
  <2> QED BY <1>1, <2>2 DEF ImageNew, TInv, Started, Named, Active
<1>2. ASSUME NEW s \in Slugs, ImageDelete(s) PROVE TInv'
  <2>1. TypeOK'
    BY <1>2 DEF ImageDelete, TInv, TypeOK
  <2> QED BY <1>2, <2>1 DEF ImageDelete, TInv, Started, Named, Active
<1>3. ASSUME NEW c \in Admins, NEW s \in Slugs, NEW iso \in Isos, BuildCheck(c, s, iso)
      PROVE  TInv'
  <2>1. TypeOK'
    BY <1>3, CheckEffect DEF TInv, TypeOK, ReqRow
  <2>2. Started'
    BY <1>3, CheckEffect DEF TInv, Started, Active
  <2>3. Named'
    BY <1>3, CheckEffect DEF TInv, Named
  <2> QED BY <2>1, <2>2, <2>3 DEF TInv
<1>4. ASSUME NEW c \in Admins, BuildStart(c) PROVE TInv'
  <2>1. TypeOK'
    <3>1. lastJob' \in 0 .. MaxJobs
      BY <1>4, StartEffect DEF Jobs
    <3>2. /\ job' \in [Jobs -> JobRow] /\ step' \in [Jobs -> Steps]
          /\ req' \in [Admins -> ReqRow]
          /\ UNCHANGED <<row, path, lastId, seen, boot, media, net, stage, cut>>
      BY <1>4, StartEffect
    <3> QED BY <3>1, <3>2 DEF TInv, TypeOK, ReqRow, JobRow
  <2>2. Started'
    <3> SUFFICES ASSUME NEW k \in Jobs
                 PROVE  /\ Active(k)' => job'[k].status = "running"
                        /\ job'[k].status # "none" => job'[k].slug \in Slugs /\ job'[k].id # 0
                        /\ job'[k].status = "none" <=> lastJob' < k
                        /\ lastJob' < k => job'[k] = NoJob
      BY DEF Started
    <3>1. CASE k = lastJob + 1
      BY <1>4, <3>1, StartEffect
    <3>2. CASE k # lastJob + 1
      <4>1. job'[k] = job[k] /\ step'[k] = step[k] /\ lastJob' = lastJob + 1 /\ lastJob \in Nat
        BY <1>4, <3>2, StartEffect
      <4>2. lastJob' < k <=> lastJob < k
        BY <3>2, <4>1 DEF Jobs
      <4> QED BY <4>1, <4>2 DEF TInv, Started, Active
    <3> QED BY <3>1, <3>2
  <2>3. Named'
    BY <1>4, StartEffect DEF TInv, Named
  <2> QED BY <2>1, <2>2, <2>3 DEF TInv
<1>5. ASSUME NEW j \in Jobs, Thread(j) \/ ToolFails(j) PROVE TInv'
  <2>1. TypeOK'
    BY <1>5, ThreadTypes
  <2>2. Named'
    BY <1>5, ThreadEffect DEF TInv, Named
  <2>3. job[j].status = "running" /\ ~(lastJob < j) /\ job[j].id # 0
    BY <1>5, ThreadEffect DEF TInv, Started
  <2>4. Started'
    BY <1>5, <2>3, ThreadEffect DEF TInv, Started, Active, Moved
  <2> QED BY <2>1, <2>2, <2>4 DEF TInv
<1>6. CASE Crash
  <2>1. NoReq \in ReqRow
    BY DEF NoReq, ReqRow
  <2>2. TypeOK'
    BY <1>6, <2>1 DEF Crash, TInv, TypeOK, Steps, ReqRow
  <2>3. Started' /\ Named'
    BY <1>6 DEF Crash, TInv, Started, Named, Active
  <2> QED BY <2>2, <2>3 DEF TInv
<1>7. CASE UNCHANGED vars
  BY <1>7 DEF vars, TInv, TypeOK, Started, Named, Active
<1> QED BY <1>1, <1>2, <1>3, <1>4, <1>5, <1>6, <1>7 DEF Next

\* Rows, jobs, assets and requests stay what they are declared to be, whatever the
\* administrators, the tools and the server do.
THEOREM TypeCorrect == Spec => []TypeOK
<1>1. TInv => TypeOK
  BY DEF TInv
<1> QED BY <1>1, TInit, TStep, PTL DEF Spec

-------------------------------------------------------------------------------
(* One thread of an image.                                                   *)

\* Every step keeps one thread per row, if requests do not overlap.
LEMMA BStep == OneAdmin /\ BInv /\ [Next]_vars => BInv'
<1> SUFFICES ASSUME OneAdmin, BInv, [Next]_vars PROVE Requested' /\ OneOfRow'
  BY TStep DEF BInv
<1> USE DEF BInv, rows, assets
<1>1. ASSUME UNCHANGED <<job, step, req>> PROVE Requested' /\ OneOfRow'
  BY <1>1 DEF Requested, OneOfRow, Active
<1>2. ASSUME NEW c \in Admins, NEW s \in Slugs, NEW iso \in Isos, BuildCheck(c, s, iso)
      PROVE  Requested' /\ OneOfRow'
  <2>1. Requested'
    BY <1>2, CheckEffect DEF Requested
  <2>2. OneOfRow'
    BY <1>2, CheckEffect DEF OneOfRow, Active
  <2> QED BY <2>1, <2>2
<1>3. ASSUME NEW c \in Admins, BuildStart(c) PROVE Requested' /\ OneOfRow'
  <2>1. \A d \in Admins : req'[d] = NoReq
    BY <1>3, StartEffect DEF OneAdmin
  <2>2. Requested'
    BY <2>1 DEF Requested
  <2>3. \A k \in Jobs : k # lastJob + 1 /\ Active(k)' => Active(k) /\ job'[k] = job[k]
    BY <1>3, StartEffect DEF Active
  <2>4. \A k \in Jobs : k # lastJob + 1 /\ Active(k)' =>
          ~(job'[k].slug = req[c].slug /\ job'[k].id = req[c].id)
    BY <1>3, <2>3, StartEffect DEF Requested, TInv, Started
  <2>5. job'[lastJob + 1].slug = req[c].slug /\ job'[lastJob + 1].id = req[c].id
    BY <1>3, StartEffect
  <2>6. OneOfRow'
    BY <2>3, <2>4, <2>5 DEF OneOfRow
  <2> QED BY <2>2, <2>6
<1>4. ASSUME NEW j \in Jobs, Thread(j) \/ ToolFails(j) PROVE Requested' /\ OneOfRow'
  <2>1. /\ job'[j].slug = job[j].slug /\ job'[j].id = job[j].id
        /\ \A k \in Jobs : k # j => job'[k] = job[k] /\ step'[k] = step[k]
        /\ Active(j) /\ req' = req
    BY <1>4, ThreadEffect DEF Moved
  <2>2. Active(j) => job[j].status = "running"
    BY DEF TInv, Started
  <2>3. Requested'
    BY <2>1, <2>2 DEF Requested
  <2>4. OneOfRow'
    BY <2>1 DEF OneOfRow, Active
  <2> QED BY <2>3, <2>4
<1>5. CASE Crash
  BY <1>5 DEF Crash, Requested, OneOfRow, Active
<1>6. CASE UNCHANGED vars
  BY <1>1, <1>6 DEF vars
<1> QED BY <1>1, <1>2, <1>3, <1>4, <1>5, <1>6 DEF Next, ImageNew, ImageDelete

\* One thread per row holds in every reachable state.
LEMMA BInvariance == ASSUME OneAdmin PROVE Spec => []BInv
<1>1. Init => BInv
  <2>1. ASSUME Init PROVE Requested /\ OneOfRow
    BY <2>1 DEF Init, Requested, OneOfRow, Active
  <2> QED BY <2>1, TInit DEF BInv
<1> QED BY <1>1, BStep, PTL DEF Spec

\* When build requests do not overlap, one row of an image is never built by two
\* threads at once, whatever crashes, fails or is deleted and made again meanwhile.
THEOREM OneBuilderOfRow == ASSUME OneAdmin PROVE Spec => []OneOfRow
<1>1. BInv => OneOfRow
  BY DEF BInv
<1> QED BY <1>1, BInvariance, PTL

\* In a state of the invariant rows of an image of one row are one.
LEMMA RowsAreOne == OneRow /\ BInv => OneBuilder
BY DEF OneRow, BInv, TInv, TypeOK, Started, OneOfRow, OneBuilder, Active

\* When besides no slug is used again, no two threads write the tree of one slug.
THEOREM BuilderIsOne == ASSUME OneAdmin, OneRow PROVE Spec => []OneBuilder
BY RowsAreOne, BInvariance, PTL

-------------------------------------------------------------------------------
(* What a finished build leaves.                                             *)

\* What a step of j's thread does to the assets of its image and of the others.
LEMMA AssetEffect ==
  ASSUME IInv, OneWindows, NEW j \in Jobs, Thread(j) \/ ToolFails(j)
  PROVE  LET s == job[j].slug IN
         /\ \A t \in Slugs : t # s => /\ boot'[t] = boot[t] /\ media'[t] = media[t]
                                      /\ net'[t] = net[t]
         /\ step'[j] \in {"media", "media2", "clear", "write", "patch", "finish"} =>
              boot'[s] = job[j].iso
         /\ step'[j] \in {"clear", "write", "patch"} => s \in Windows
         /\ step'[j] \in {"clear", "write", "patch", "finish"} => media'[s] = job[j].iso
         /\ step'[j] = "finish" /\ s \in Windows => net'[s] = s
         /\ job'[j].status = "done" => step[j] = "finish" /\ UNCHANGED assets
         /\ stage' \in Windows \cup {None}
<1> USE DEF rows, assets
<1> DEFINE s == job[j].slug
<1>1. /\ s \in Slugs /\ step[j] \in Steps /\ job[j].status = "running"
      /\ boot \in [Slugs -> Isos \cup {None, Torn}]
      /\ media \in [Slugs -> Isos \cup {None, Torn}]
      /\ net \in [Slugs -> Slugs \cup {None}]
      /\ job \in [Jobs -> JobRow] /\ step \in [Jobs -> Steps]
  BY ThreadEffect DEF IInv, BInv, TInv, TypeOK, Started, JobRow
<1>2. /\ step[j] \in {"media", "media2", "clear", "write", "patch", "finish"} =>
           boot[s] = job[j].iso
      /\ step[j] \in {"clear", "write", "patch"} => s \in Windows
      /\ step[j] \in {"clear", "write", "patch", "finish"} => media[s] = job[j].iso
      /\ step[j] = "finish" /\ s \in Windows => net[s] = s
  BY DEF IInv, Progress
<1>3. stage \in Windows \cup {None} /\ None \notin Slugs /\ Windows \subseteq Slugs
  BY BuildAssumption DEF IInv, Staged
<1>4. Failed(j) => step'[j] = "none" /\ job'[j].status = "failed"
  BY FailedMoves DEF IInv, BInv, TInv, Moved
<1> HIDE DEF s
<1>5. CASE Load(j)
  BY <1>1, <1>3, <1>4, <1>5 DEF Load, Goto, s
<1>6. CASE Boot(j)
  BY <1>1, <1>2, <1>3, <1>6 DEF Boot, Goto, s
<1>7. CASE Media(j)
  BY <1>1, <1>2, <1>3, <1>7 DEF Media, Goto, AfterMedia, s
<1>8. CASE StageClear(j)
  BY <1>1, <1>2, <1>3, <1>8 DEF StageClear, Goto, s
<1>9. CASE StageWrite(j)
  BY <1>1, <1>2, <1>3, <1>4, <1>9 DEF StageWrite, Goto, s
<1>10. CASE Patch(j)
  <2>1. stage # None => stage = s
    BY <1>2, <1>3, <1>10 DEF Patch, OneWindows
  <2> QED BY <1>1, <1>2, <1>3, <1>4, <1>10, <2>1 DEF Patch, Goto, s
<1>11. CASE Finish(j)
  BY <1>1, <1>2, <1>3, <1>11 DEF Finish, Goto, s
<1>12. CASE ToolFails(j)
  BY <1>1, <1>2, <1>3, <1>4, <1>12 DEF ToolFails, s
<1> QED BY <1>5, <1>6, <1>7, <1>8, <1>9, <1>10, <1>11, <1>12 DEF Thread, s

\* Every step keeps the whole invariant, under all three hypotheses.
LEMMA IStep ==
  ASSUME OneAdmin, OneRow, OneWindows, IInv, [Next]_vars
  PROVE  IInv'
<1> USE DEF rows, assets
<1>1. BInv' /\ OneBuilder
  BY BStep, RowsAreOne DEF IInv
<1> SUFFICES Last' /\ Progress' /\ Staged' /\ DoneIsWhole'
  BY <1>1 DEF IInv
<1>2. CASE UNCHANGED <<job, step, assets, stage>>
  BY <1>2 DEF IInv, Last, Progress, Staged, DoneIsWhole, Active, Builds
<1>3. ASSUME NEW c \in Admins, BuildStart(c)
      PROVE  Last' /\ Progress' /\ Staged' /\ DoneIsWhole'
  <2> DEFINE n == lastJob + 1
  <2>1. /\ n \in Jobs /\ job'[n].slug = req[c].slug /\ job'[n].status = "running"
        /\ step'[n] = "load"
        /\ \A k \in Jobs : k # n => job'[k] = job[k] /\ step'[k] = step[k]
        /\ UNCHANGED <<assets, stage>>
    BY <1>3, StartEffect DEF IInv, BInv
  <2>2. \A k \in Jobs : k # n /\ job'[k].slug = req[c].slug => ~Active(k)' /\ k <= n
    <3>1. ASSUME NEW k \in Jobs, k # n, job[k].slug = req[c].slug, Active(k) PROVE FALSE
      <4>1. job[k].status = "running" /\ job[k].id # 0 /\ job[k].id \in 0 .. MaxIds
        BY <3>1 DEF IInv, BInv, TInv, Started, TypeOK
      <4>2. req[c] # NoReq /\ req[c].id # 0 /\ req[c].id \in 0 .. MaxIds
        BY <1>3, StartEffect DEF IInv, BInv, TInv, TypeOK
      <4>3. job[k].id = req[c].id
        BY <4>1, <4>2 DEF OneRow
      <4> QED BY <3>1, <4>1, <4>2, <4>3 DEF IInv, BInv, Requested
    <3>2. ASSUME NEW k \in Jobs, job[k].slug = req[c].slug PROVE k <= lastJob
      <4>1. req[c].slug \in Slugs /\ lastJob \in Nat
        BY <1>3, StartEffect DEF IInv, BInv
      <4>2. job[k] # NoJob
        BY <3>2, <4>1, BuildAssumption DEF NoJob
      <4> QED BY <4>1, <4>2 DEF IInv, BInv, TInv, Started, Jobs
    <3>3. lastJob \in Nat
      BY <1>3, StartEffect DEF IInv, BInv
    <3> QED BY <2>1, <3>1, <3>2, <3>3 DEF Active, Jobs
  <2>3. n <= n
    BY <2>1 DEF Jobs
  <2> HIDE DEF n
  <2>4. Last'
    BY <2>1, <2>2, <2>3 DEF IInv, Last, Active, Builds
  <2>5. Progress' /\ Staged'
    BY <2>1 DEF IInv, Progress, Staged
  <2>6. DoneIsWhole'
    <3> SUFFICES ASSUME NEW s \in Slugs, NEW j \in Jobs, job'[j].slug = s,
                        job'[j].status = "done", \A k \in Builds(s)' : k <= j
                 PROVE  /\ boot'[s] = job'[j].iso /\ media'[s] = job'[j].iso
                        /\ s \in Windows => net'[s] = s
      BY DEF DoneIsWhole, Builds
    <3>1. j # n /\ job'[j] = job[j]
      BY <2>1
    <3>2. \A k \in Builds(s) : k \in Builds(s)' \/ k = n
      BY <2>1 DEF Builds
    <3>3. \A k \in Builds(s) : k <= j
      <4>1. n \notin Builds(s)
        <5>1. job[n] = NoJob
          BY <1>3, <2>1, StartEffect DEF IInv, BInv, TInv, Started, n, Jobs
        <5> QED BY <5>1, BuildAssumption DEF Builds, NoJob
      <4> QED BY <3>2, <4>1
    <3>4. j \in Builds(s)
      BY <3>1 DEF Builds
    <3> QED BY <2>1, <3>1, <3>3, <3>4 DEF IInv, DoneIsWhole
  <2> QED BY <2>4, <2>5, <2>6
<1>4. ASSUME NEW j \in Jobs, Thread(j) \/ ToolFails(j)
      PROVE  Last' /\ Progress' /\ Staged' /\ DoneIsWhole'
  <2> DEFINE s == job[j].slug
  <2>1. /\ Active(j) /\ s \in Slugs
        /\ job'[j].slug = s /\ job'[j].iso = job[j].iso
        /\ \A k \in Jobs : k # j => job'[k] = job[k] /\ step'[k] = step[k]
    BY <1>4, ThreadEffect DEF IInv, BInv, Moved
  <2>2. \A t : Builds(t)' = Builds(t)
    BY <2>1 DEF Builds
  <2>3. /\ \A t \in Slugs : t # s => /\ boot'[t] = boot[t] /\ media'[t] = media[t]
                                     /\ net'[t] = net[t]
        /\ step'[j] \in {"media", "media2", "clear", "write", "patch", "finish"} =>
             boot'[s] = job[j].iso
        /\ step'[j] \in {"clear", "write", "patch"} => s \in Windows
        /\ step'[j] \in {"clear", "write", "patch", "finish"} => media'[s] = job[j].iso
        /\ step'[j] = "finish" /\ s \in Windows => net'[s] = s
        /\ job'[j].status = "done" => step[j] = "finish" /\ UNCHANGED assets
        /\ Staged'
    BY <1>4, AssetEffect DEF Staged
  <2> HIDE DEF s
  <2>4. ASSUME NEW k \in Jobs, k # j, Active(k) PROVE job[k].slug \in Slugs \ {s}
    BY <1>1, <2>1, <2>4 DEF IInv, BInv, TInv, Started, OneBuilder, Active, s
  <2>5. Last'
    <3>1. \A k \in Jobs : Active(k)' => Active(k) /\ job'[k].slug = job[k].slug
      BY <2>1 DEF Active, s
    <3> QED BY <2>2, <3>1 DEF IInv, Last
  <2>6. Progress'
    <3> SUFFICES ASSUME NEW k \in Jobs
          PROVE LET t == job'[k].slug IN
            /\ step'[k] \in {"media", "media2", "clear", "write", "patch", "finish"} =>
                 boot'[t] = job'[k].iso
            /\ step'[k] \in {"clear", "write", "patch"} => t \in Windows
            /\ step'[k] \in {"clear", "write", "patch", "finish"} => media'[t] = job'[k].iso
            /\ step'[k] = "finish" /\ t \in Windows => net'[t] = t
      BY DEF Progress
    <3>1. CASE k = j
      BY <2>1, <2>3, <3>1
    <3>2. CASE k # j /\ Active(k)
      BY <2>1, <2>3, <2>4, <3>2 DEF IInv, Progress
    <3>3. CASE k # j /\ ~Active(k)
      BY <2>1, <3>3 DEF Active
    <3> QED BY <3>1, <3>2, <3>3
  <2>7. DoneIsWhole'
    <3> SUFFICES ASSUME NEW t \in Slugs, NEW k \in Builds(t)',
                        job'[k].status = "done", \A i \in Builds(t)' : i <= k
                 PROVE  /\ boot'[t] = job'[k].iso /\ media'[t] = job'[k].iso
                        /\ t \in Windows => net'[t] = t
      BY DEF DoneIsWhole
    <3>1. k \in Builds(t) /\ k \in Jobs /\ (\A i \in Builds(t) : i <= k) /\ job'[k].slug = t
      BY <2>2 DEF Builds
    <3>2. CASE k = j
      <4>1. step[j] = "finish" /\ UNCHANGED assets /\ t = s
        BY <2>1, <2>3, <3>1, <3>2
      <4>2. /\ boot[s] = job[j].iso /\ media[s] = job[j].iso
            /\ s \in Windows => net[s] = s
        BY <4>1 DEF IInv, Progress, s
      <4> QED BY <2>1, <3>2, <4>1, <4>2
    <3>3. CASE k # j
      <4>1. t # s
        <5> SUFFICES ASSUME t = s PROVE FALSE
          OBVIOUS
        <5>1. j \in Builds(t)
          BY DEF Builds, s
        <5>2. k <= j /\ j <= k
          BY <2>1, <3>1, <5>1 DEF IInv, Last, s
        <5> QED BY <3>3, <5>2, <3>1 DEF Jobs
      <4>2. job'[k] = job[k]
        BY <2>1, <3>1, <3>3
      <4>3. /\ boot[t] = job[k].iso /\ media[t] = job[k].iso
            /\ t \in Windows => net[t] = t
        BY <3>1, <4>2 DEF IInv, DoneIsWhole
      <4> QED BY <2>3, <4>1, <4>2, <4>3
    <3> QED BY <3>2, <3>3
  <2> QED BY <2>3, <2>5, <2>6, <2>7
<1>5. CASE Crash
  BY <1>5 DEF Crash, IInv, Last, Progress, Staged, DoneIsWhole, Active, Builds
<1> QED BY <1>2, <1>3, <1>4, <1>5 DEF Next, vars, ImageNew, ImageDelete, BuildCheck

\* The whole invariant holds in every reachable state.
LEMMA IInvariance == ASSUME OneAdmin, OneRow, OneWindows PROVE Spec => []IInv
<1>1. Init => IInv
  <2> SUFFICES ASSUME Init PROVE IInv
    OBVIOUS
  <2>1. BInv
    BY TInit DEF Init, BInv, Requested, OneOfRow, Active
  <2>2. \A j \in Jobs : job[j].status = "none" /\ step[j] = "none"
    BY DEF Init, NoJob
  <2> QED BY <2>1, <2>2 DEF Init, IInv, Last, Progress, Staged, DoneIsWhole, Active, Builds
<1>2. IInv /\ [Next]_vars => IInv'
  BY IStep
<1> QED BY <1>1, <1>2, PTL DEF Spec

\* When build requests do not overlap, no slug is used again and one image is a
\* Windows image, the kernel and the medium of an image whose last build succeeded
\* come from the ISO of that build, and WinPE mounts its own share: after any
\* number of builds, failures and stops of the server at any point.
THEOREM DoneBuildIsWhole ==
  ASSUME OneAdmin, OneRow, OneWindows
  PROVE  Spec => []DoneIsWhole
<1>1. IInv => DoneIsWhole
  BY DEF IInv
<1> QED BY <1>1, IInvariance, PTL
===============================================================================
