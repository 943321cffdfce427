# Verification of Landscape-pxe

TLA+ models, TLC runs and TLAPS proofs for the provisioning and management
server in this repository. Paths below are relative to the repository root;
`routers/` stands for `server/app/routers/`.

## 1. Inventory of the system

One FastAPI process (`server/app`) serves the operator pages and the agent API
over a PostgreSQL database. Synchronous handlers run in a thread pool, so any
two requests interleave between their database statements; each opens a session
of its own (`db.py`: no autoflush, objects not expired at commit) under the
default READ COMMITTED isolation. Beside it run dnsmasq, nginx (`http/`), Samba
(`smb/`), a DHCP probe and the apt-mirror loop. Managed machines run an agent
that polls the server.

| Component | State | Operations | What is hard | What makes it correct |
|---|---|---|---|---|
| Task channel: `routers/agent.py`, `agent/` | `hosts`, `tasks`, `compliance_results`; the agent's conf file, memory and batch; requests under way | enroll, check-in, result; the loop, restart | a check-in reads, then commits, then answers; answers get lost; the agent gives up after 30 s while the server goes on; machines crash; hosts are deleted and come back | no task twice, only one's own, in order, status only forward, every task gets a verdict |
| Operator task pages: `routers/ui.py`, `compliance.py`, `repos.py` | the same tables, `compliance_profiles` | queue one task, scan a profile, push sources, delete host or profile, latest-result report | deletions race the agents | a scan shown as done has its result, the newest scan is the one shown |
| Image builder: `builder.py`, `routers/provision.py` | `images`, `jobs`, trees under `http/` and `smb/`, `/tmp/wimstage` | image new and delete, build request, one thread per build | check-then-insert; a shared staging directory; failing tools; restarts | one builder per tree, a finished build is one whole ISO, every job ends |
| Provisioning and rendering: `routers/provision.py`, `renderer.py`, `main.py` | `machines`, `images`, `enroll_tokens`, files under `http/` | machine new, save, delete; image save, delete; re-render; start-up; token toggle | files are written after the commit from what the session read; several requests render the same machine | what a machine boots is what the records say, unknown machines boot nothing |
| DHCP: `renderer.py`, `routers/provision.py`, `probe/` | setting, `dnsmasq.conf`, running dnsmasq | save, start-up, probe, restart | the probe or the restart fails; saves overlap; the server stops with the file half written | the file is in the mode that was saved, `restart=ok` is true |
| apt mirror: `reposync/`, `routers/repos.py` | `mirror.list`, `sync.trigger`, `status.json` | toggle, sync, the loop | the trigger is removed before the run; the list is rewritten under it; the container restarts | a requested sync happens, the list and the status are true |
| Accounts: `auth.py`, `routers/authn.py`, `settings_ui.py` | `users`, session cookie, settings | login, OIDC callback, user new and delete | a sign-in waits for the provider while the configuration changes; roles change under a session; two admins delete each other; seeding makes the administrator again | local accounts stay, roles follow the groups, an administrator remains |
| Agent inventory: `agent/agent.py` | the counter `n` | full or short inventory | the counter is reset in the middle of a turn that may end in an exception; check-ins are lost or late | a fresh inventory follows package tasks, the server's copy catches up |

They interact through the database (no component calls another's code except
`routers/* -> renderer.py`, `builder.py`), through files (`renderer.py` writes
what nginx and dnsmasq read, `repos.py` writes what `sync.sh` reads) and through
HTTP (agents). `enroll` is where two components meet: it inserts a host and sets
the machine record with the same MAC to `installed`; `FleetTasks` models the
first half, `Provisioning` the second.

## 2. Modules

| Module | Models | State of the work |
|---|---|---|
| `TaskLifecycle` | abstract: what the task table promises | done |
| `FleetTasks` | task channel and operator task pages; implements `TaskLifecycle` | done |
| `FleetTasksProofs` | theorems about `FleetTasks`: types, at most once, own tasks | proved |
| `FleetOrderProofs` | the order of a host's tasks, and the result of a finished scan; EXTENDS `FleetTasksProofs` | proved |
| `FleetLifecycleProofs` | without abandoned requests: `FleetTasks` implements `TaskLifecycle`, the newest scan is shown; EXTENDS `FleetOrderProofs` | proved |
| `ImageBuild` | image pages and build threads | done |
| `ImageBuildProofs` | theorems about it | proved |
| `Provisioning` | machine pages, rendering, start-up, network boot | done |
| `ProvisioningProofs` | theorems about it | proved |
| `ServerProcess` | the server's threads, start-up and restarts, as its sidecars see them | done |
| `DhcpMode` | the DHCP page: setting, file and running dnsmasq; EXTENDS `ServerProcess` | done |
| `RepoSync` | the mirror pages, `mirror.list`, the trigger and the loop of `sync.sh`; EXTENDS `ServerProcess` | done |
| `Sidecars` | `DhcpMode` and `RepoSync` in one process with its restarts | done |
| `SidecarsProofs` | theorems about it, those of `DhcpMode` and `RepoSync` included | proved |
| `AgentInventory` | the counter of `agent.py`'s loop and what the server keeps of a machine's packages | done |
| `AgentInventoryProofs` | theorems about it | proved |
| `Accounts` | users, sessions, sign-on, the settings page, seeding | done |
| `AccountsProofs` | theorems about it | proved |
| `MCFleetTasks`, `MCImageBuild`, `MCProvisioning`, `MCSidecars`, `MCAccounts` | values for TLC | done |

Every safety property that a passing run checks is also proved for every value of
the constants, some under the hypothesis their run makes (section 4). Left: what
can be said of two builds of one slug with different ids, and of several
workers in `Provisioning`, where the properties of today fail.

### FleetTasks

`machine`, `live`, `lastRow` are the `hosts` rows; `status`, `owner`, `profile`,
`lastTask` the `tasks`; `profiles` the profiles; `latest` the newest
`ComplianceResult` per host and profile, which is all the reports read.
`pc`, `conf`, `mem`, `batch`, `cur` are an agent: what it does, the host id in
its conf file, the one it uses, the tasks left of the last answer, the request
it waits for. `rq` holds requests in slots. `runs` is history.

A check-in is three steps: sent (`Checkin`), tasks read (`CheckinRead`),
statuses committed and answered (`CheckinCommit`), because another request can
come between the `SELECT` and the `COMMIT` (`routers/agent.py:95-101`). A result
is one commit. `Receive` is the agent's side; an HTTP error is an exception
that ends the turn (`GiveUp`). Faults are switched on by the constant `Faults`:

- `loss`: a request or an answer disappears, and the agent times out.
- `straggler`: the agent times out, the server goes on with the request.
- `crash`: a machine stops at any point and comes back from its conf file.
- `raise`: `run_task` raises after having done something. It stands for
  `agent.ps1` too, where an error inside `Invoke-AgentTask` ends the run.

Abstractions: a payload is a profile or `NoProfile`; a verdict is `done`,
`failed`, or `garbled` (a scan whose output the server cannot parse); the agent
key is the host row itself, since a new row has a new key; the token of
`enroll` is valid (the token's life is in `Provisioning`); the inserts of two
operators do not overlap, so ids are visible in their order.

### TaskLifecycle

`none -> pending -> sent -> done | failed`, each task executed at most once and
before its verdict, and rows that disappear at any time. `FleetTasks` instantiates
it with its own `status` and `runs`.

### ImageBuild

`row`, `path`, `lastId` are the image rows per slug, `job` the job rows, `step`
and `seen` the threads, `boot`, `media`, `net` the files of a slug (kernel and
initrd, or boot.wim; the ISO copy or SMB tree; the share that startnet.cmd in
boot.wim mounts), `stage` the staged startnet.cmd, `req` a build request between
`build_running` and the insert. A file that is being written is `Torn`. One
thread walks `Load`, `Boot`, `Media`, and for Windows `StageClear`, `StageWrite`,
`Patch`, then `Finish`; every one of them may fail into the `except` clause
(`Failed`, `ToolFails`), and `Crash` drops all threads and keeps all tables.
The number of files an ISO has, and the log, are abstracted.

A job ends in `BuildEnds` unless a stop of the server ended its thread; the
history variable `cut` remembers those.

### Provisioning

`row`, `img`, `own`, `status` are the machine rows, `images`, `config` the images
and one option of their configuration, `lastToken`, `active` the provisioning
tokens, `ipxe`, `answers`, `menu` the rendered files. A worker is a request: `todo`
and `know` are the machines and image configurations in its session, `doing` its
next step, `half` the machine whose script it has written and whose answers it
has not. A session keeps what it has read, which is why a render can be stale.
Machine handlers commit and then render the machine and the menu; `machine_delete`
reads the row, unlinks the script of its MAC, deletes the row it has read and renders
the menu, each a step of its own, so that the MAC may have another row by the time of
the unlink (`routers/provision.py:244-249`); `image_save`, `rerender` and start-up
go through `render_all`. Start-up holds off handlers (`starting`). `target` is a
machine that has booted its installer and will enroll with the token it was given.

`Effective` is `effective_config` for one option: the machine's own value, else the
image's, else the default. The image's value is the number of saves, so that every
save can be told from every other; 0 is unset.

Abstractions: MAC addresses are normalised; passwords, package lists and the text
of the answers are left out. `RenderMenu` reads the machines and writes the menu in one
step (`renderer.py:108-112`); no property of a run with two workers looks at the menu.

### ServerProcess, DhcpMode, RepoSync, Sidecars

A thread's `job` is the handler it executes, its next step and what it has read:
`load`, `resolve` and `render` for `render_dnsmasq`, `select` and `write` for
`render_mirror_list`, `restart`, `trigger`. The thread `Main` is the start-up, which
renders `dnsmasq.conf` and then `mirror.list` and restarts nothing;
no request is handled before it is over. `render_dnsmasq` reads the setting itself
(`load`, `renderer.py:180`), so a save may render what a later one has stored. `write_text` opens a file, which empties it,
and then writes: `conf` and `list` are `Empty` and `Unwritten` in between, and a stop
of the process (`ServerRestart`) may leave them so. `alone` is history: whether the
requests that render a file have overlapped since one that began alone.

`setting`, `conf`, `dnsmasq` are the three states of the DHCP page. The probe answers
truly or not; one that fails has found nothing (`renderer.py:175`). A restart may be
reported as failed although docker does it later than the 30 s (`Told`), and the
container may restart on its own (`DnsmasqCrash`). A configuration is its mode and,
in server mode, its lease range.

`edits` counts the changes of `repo_mirrors` and `list` is the count the file was
rendered at. `loop` is where `sync.sh` is: before the trigger, before the test of the
list, before and in the run of apt-mirror. `SyncRestart` stops its container at any
point; `unserved` and `cut` are history.

### AgentInventory

`version` numbers the states of the machine's packages, `reported` is
`host.packages`. A turn is `Checkin` (inventory and POST, with the packages of the moment of the POST:
the code has collected them a little before), `Receive`, then `Run` and
`Reported` or `Unreported` per task, then `Sleep`; an exception anywhere ends the turn
(`GiveUp`, `Run`, `Unreported`), all ending with `n += 1`. `n` is kept modulo
`InventoryEvery`, which is all the code looks at, except for the -1 between a
package task and the end of its turn. Tasks are of two kinds, those that reset the
counter and the others, and either may change packages. `late` is a check-in the
agent gave up and the server handles all the same. The Windows agent has no counter
and sends everything each time. Tasks here are only what the counter sees of them;
`FleetTasks` models the channel.

### Accounts

`user` are the rows by id, `groups` what the provider says of its users, `session` the
uid in a browser's cookie, `request` what its request has been authorised for, or
the configuration that `oidc_callback` has read before it waits for the provider.
Administrators' requests have two steps, authorisation (`require_role`) and effect,
because another request may come between them. `Restart` seeds the administrator
again when nobody has the name. `fresh` is history: OIDC users whose groups, and
whose configuration, are those of their last sign-in. Passwords are right, cookies
are signed, and the handlers' last `SELECT` and `COMMIT` are one step: the unique
username and the row locks give the same rows as the step does. A sign-on takes the
groups the provider has at that step; the code's claims were issued during the await
before it, and a change at the provider in between waits for the next sign-on.

## 3. Runs

All of them finish within four minutes on two cores. Bounds are constants of the modules:
`MaxTasks`, `MaxRows`, `MaxJobs`, `MaxIds`, `MaxVersion`, `MaxToken`, `MaxEdits`,
`MaxChanges`, `MaxPending`, `MaxUsers`, the number of slots, workers, browsers and
administrators.

### Passing

| Run | Checks | Bounds, and why they suffice |
|---|---|---|
| `fleet_safety` | `TypeOK`, `AtMostOnce`, `OwnTasksOnly`, `ScanRecorded`, `InOrder` | an Ubuntu and a Windows machine; two slots: an abandoned request beside a live one is the shortest overlap; two rows, so that a machine's row is deleted and its next one exists beside the tasks of the old; two tasks, for a batch of two or an early and a late one; loss and abandoned requests |
| `fleet_lifecycle` | `LatestScanWins`, `LifecycleSpec`, `PendingDelivered` | one machine, hence one request at a time without `straggler`, the assumption under which the first two hold; three tasks, two rows; loss, crashes and raising tasks |
| `build_serial` | `TypeOK`, `OneBuilder`, `DoneIsWhole`, `BuildEnds` | one administrator, one Ubuntu and one Windows image, three jobs (a build over a failed one over a finished one), two ISOs, failures, crashes, images deleted during their build |
| `pxe_serial` | `TypeOK`, `UnknownGetMenu`, `Current`, `MenuCurrent` | two machines (a render of all stopped between them), two images, a machine's own option or its image's, one worker; restarts at every step, one change of a configuration, image deletions, a token that is disabled and enabled |
| `pxe_boots` | `RegisteredBoots` | two workers on one MAC registered twice (the fewest for a deletion that meets the next row of its MAC), two images, image deletions |
| `sidecars` | `TypeOK`, `ConfCurrent`, `RunningCurrent`, `ListCurrent`, `StatusTrue`, `RequestServed` | two workers, so that two saves overlap and a third follows; two ranges, all three modes; three changes of the mirrors; restarts of server, dnsmasq and sync container at every step |
| `agent_inventory` | `TypeOK`, `AtLeastEvery`, `FreshAfterTask`, `RowCatchesUp` | `InventoryEvery` 3 (30 in the code; 3 is the least with a turn that is neither full nor next to one), two changes, batches of two tasks |
| `accounts` | `TypeOK`, `RoleFollowsGroups`, `LocalKept`, `AdministratorRemains` | two browsers, hence every pair of requests that overlap; two names, one of them the seeded administrator's, either of which a local and an OIDC user may want; a user in no group or in both; a configuration with both groups and one with the operators' only; four rows |

`MCSidecars` lets a behaviour have requests for one of the two sidecars only (`focus`):
they share the server's restarts and nothing else. The product of both was checked
without it as well, once, with one range and two changes of the mirrors: the
invariants with two workers (2.6 million states), all properties with one worker.

`CHECK_DEADLOCK FALSE` appears where a bound on rows or jobs can be used up with
nothing left to do (a machine without an enrolled row does nothing); the system
itself would insert another row.

Read with their limits: `build_serial` and `pxe_serial` serialise the requests,
since their properties fail otherwise (next table), and `build_serial` lets each
slug be registered once: `build_running` looks for the image id, so an image that
is deleted during its build and registered again under the same slug is built by
two threads. `BuildEnds` excepts the jobs whose thread a stop of the server ended.
`RegisteredBoots` excepts a MAC whose script a deletion of its earlier row is about to
unlink (`Outdated`): that machine stays without a script until some request renders it
again (below). Whatever else two requests do to one MAC, the script comes or the row goes.
In `pxe_serial` and `pxe_boots` there is one token, so a render that needs a token
while it is disabled waits until it is enabled again; the code would make another.
`ConfCurrent` and `ListCurrent` speak of the last request that rendered the file
without another beside it, `RequestServed` excepts a container that stops with the
request in its hands and a list that is being written when `sync.sh` tests it.

### Violations: where the code and its own words disagree

| Run | Property | What happens |
|---|---|---|
| `fleet_late_commit` | `StatusForward` | a late check-in sets a finished task back to `sent` |
| `fleet_profile_gone` | `SentResolved` | the verdict of a scan is lost with its deleted profile |
| `build_two_windows` | `DoneIsWhole` | two Windows builds share `/tmp/wimstage` |
| `pxe_stray_script` | `UnknownGetMenu` | a render re-creates the script of a deleted machine |

The quoted comment, document line and code line of each are in `PROJECT.json`
under `findings`. The same constants with another value show relatives of these
that have no run of their own: with `loss`, a check-in answer lost after its
commit leaves tasks `sent` for ever (`SentResolved`); with `straggler`, a late
result hides a newer scan (`LatestScanWins`); with two administrators, two
requests pass `build_running` together (`OneBuilder`, `DoneIsWhole`); with two workers
and image saves, a registration that has read the image before it is saved writes its
answers after `image_save` has rendered everything (`Current`; the comment at
`routers/provision.py:121` says that existing machines pick up new image defaults).
`pxe_boots` without the premise of `RegisteredBoots` shows a deletion that has read a
row of a MAC and unlinks the script of the next row, which another request has
registered and rendered meanwhile (`routers/provision.py:244-247`): a registered machine
without a script, though `README.md:70` says that registered MACs install unattended. Deleting an image during its build leaves
its job `running`, as the commit of a row that is gone fails.

Met while modelling, without a run:

- A stop of the server during a build leaves its job `running` for ever, and
  `build_running` refuses every later build of the image (`builder.py:196`).
- `install.sh` does not restart a running agent (`systemctl enable --now`), so a
  machine enrolled again after its host was deleted goes on with the old
  credentials until the next restart (`agent/install.sh:44`).
- A stop of the reposync container during a run leaves `status.json` at `running`
  and loses the request (`reposync/sync.sh:30`); `mirror.list` may be emptied
  between its test and apt-mirror's reading of it.
- Mode `auto` with a probe that fails becomes `server` (`renderer.py:185`).
- Two saves of the DHCP page that overlap may leave the file of the older one,
  until the next save or start.
- A start does not seed the administrator when another user, an OIDC user too,
  has the name (`seed.py:69`); two administrators who delete each other at the
  same time both succeed (`settings_ui.py:84`).
- `render_all` sets machines that are installed back to `rendered`, and the boot
  scripts of a deleted image's machines stay.

### Fairness

`FleetTasks!Fairness`: the agent's loop and the server's handlers keep going
(weak), and an agent that again and again could send, or a handler that again
and again could serve, does so once (strong): the loop repeats for ever with a
60 s pause and each try is a new request, so a network that loses every single
one is excluded. Nothing forces an operator, an enrollment, a crash or a fault.
`ImageBuild!FairSpec`: threads run. `Provisioning!FairSpec`: a request that has
begun is carried on; none has to begin. `Sidecars!Fairness`: `sync.sh` goes on and a
run of apt-mirror ends (weak); its container is not stopped each time it has just
taken a request (strong, on the two steps up to the start of the run). Nothing is
assumed of the server. `AgentInventory!Fairness`: the agent's loop and the abandoned
handlers go on (weak), and not every full inventory is lost (strong): one is sent
every `InventoryEvery` turns for ever. `Accounts` has no liveness property.

## 4. Proofs

The theorems hold for every value of the constants that satisfies the named
assumptions of the modules: any sets of agents, machines, images, browsers or
threads, any bounds on rows, tasks, jobs, tokens and changes. The assumptions say
that special values (`NoSlot`, `NoImage`, `Idle`, ...) are not ordinary ones and that
bounds are numbers; `NoUserAssumption`, `JobAssumption` and `NoFileAssumption` say it
of records. TLC evaluates all of them in the runs.

A theorem that needs more says so after its own ASSUME, and the run that shows why
is in the last column.

| Theorem | Property | Hypothesis | Without it |
|---|---|---|---|
| `FleetTasksProofs!TypeCorrect` | `TypeOK` | | |
| `ExecutedAtMostOnce` | `AtMostOnce` | | |
| `HoldsOwnTasksOnly` | `OwnTasksOnly` | | |
| `FleetOrderProofs!ExecutedInOrder` | `InOrder` | | |
| `ScanHasResult` | `ScanRecorded` | | |
| `FleetLifecycleProofs!NewestScanWins` | `LatestScanWins` | no `straggler` in `Faults` | a late result hides a newer scan |
| `ImplementsLifecycle` | `LifecycleSpec` | no `straggler` | as the next |
| `StatusMovesForward` | `StatusForward` | no `straggler` | `fleet_late_commit` |
| `AgentInventoryProofs!TypeCorrect` | `TypeOK` | | |
| `FullAtLeastEvery` | `AtLeastEvery` | | |
| `FullAfterTask` | `FreshAfterTask` | | |
| `AccountsProofs!TypeCorrect` | `TypeOK` | | |
| `RolesFollowGroups` | `RoleFollowsGroups` | | |
| `LocalAccountsKept` | `LocalKept` | | |
| `LastAdministrator` | `AdministratorRemains` | | |
| `SidecarsProofs!TypeCorrect` | `TypeOK` | | |
| `ConfigurationCurrent` | `ConfCurrent` | | |
| `DnsmasqCurrent` | `RunningCurrent` | | |
| `MirrorListCurrent` | `ListCurrent` | | |
| `StatusIsTrue` | `StatusTrue` | | |
| `ImageBuildProofs!TypeCorrect` | `TypeOK` | | |
| `OneBuilderOfRow` | `OneOfRow` | one administrator | two requests pass `build_running` |
| `BuilderIsOne` | `OneBuilder` | and each slug registered once | a slug deleted during its build and made again |
| `DoneBuildIsWhole` | `DoneIsWhole` | and one Windows image | `build_two_windows` |
| `ProvisioningProofs!TypeCorrect` | `TypeOK` | | |
| `StrayScripts` | `UnknownGetMenu` | one worker | `pxe_stray_script` |
| `MenuIsCurrent` | `MenuCurrent` | one worker | not refuted by the model, see below |
| `FilesCurrent` | `Current` | one worker | renders that finish in the wrong order |

The hypotheses are those of the passing run that checks the property, so run and
theorem speak of the same behaviours; every other fault of the module remains in them.
`StatusForward` and `OneOfRow` are in no passing run: the first is part of
`LifecycleSpec`, the second of the invariant checked on `build_serial`.
Each proof is laid out alike: an invariant, a lemma per action that it is kept,
one that combines them over `Next` (`StepInv`, `OStep`, `SStep`, `BStep`, `IStep`), and theorems that follow with PTL.

### Task channel

Neither `AtMostOnce` nor `OwnTasksOnly` is inductive: that a task in a batch has not
run depends on who else may hold it. `FleetTasksProofs!IInv` conjoins `TypeOK` with

- `Known`: a task row exists exactly when its id has been given out, and has an owner;
- `RunOnce`: a task that ran once did not run more, and one still `none` or
  `pending` has not run;
- `Creds`: the conf file and the memory of an agent name rows of its machine;
- `Awaited`: an agent waits for a request of its own, of the kind its state says,
  and no two agents for the same;
- `Carried`: what a check-in has read belongs to its host;
- `Undone`: the tasks in an answer an agent still waits for have not run;
- `Todo`: the tasks in a batch are owned by the agent's host, have been handed
  out and have not run.

The point is that `Undone` survives overlapping check-ins: two may read the same
pending tasks, but an agent waits for one only, an abandoned one answers nobody, and
a task that ran is not pending for any later one.

`FleetOrderProofs!OInv` adds what keeps the order: a host's pending tasks are the last
of its queue (`Queued`), a check-in that has read one has read the pending ones in
front of it (`ReadAll`), and nothing behind what an agent holds or waits for has run
(`Ahead`). `ReadAll` is where an insert between the `SELECT` and the `COMMIT` is dealt
with: the new task has the highest id. `Reported` and `Executed` say that verdicts
are about tasks that ran.

`FleetLifecycleProofs!SInv` holds without abandoned requests only: every request has
its sender waiting (`Served`), so a host has at most one under way and its tasks are
as far as the request is (`Handed`): what was read is pending still or deleted when
the check-in commits, what a result is about is sent or deleted. From it follow the
step simulation of `TaskLifecycle` (`LifecycleStep`), hence `StatusForward`, and that
results of a host are stored in the order of its queue, hence `LatestScanWins`.
An abandoned check-in has no such sender, and
`fleet_late_commit` commits one after its tasks went on: `Served` and `Handed` fail.

### Agent inventory

`Counted` relates the counter to history: -1 only between a reported package task and
the end of its turn, and otherwise the turns since the last full inventory, unless
the next one is full. `Owed` says a reported package task leaves the counter at -1 in
its turn and at 0 after it. The exceptions of the loop, all of which pass the
increment at its end, are why both name the phase of the turn.

### Accounts

`Unique` (one row per name) and `Mapped` (fresh users have the role of their groups
under the configuration of now) make up the invariant. `LocalKept` and
`AdministratorRemains` are about steps: `RowStep` says what any step does to a row,
which `Unique` makes the row of one user: a sign-on by name cannot hit a local one.

### Sidecars

For any number of threads. `Placed` says what a thread may be doing and has read.
`ConfRight`: as long as no two saves have overlapped, at most one thread renders
`dnsmasq.conf`, it holds the setting stored last or a configuration made of it, and
without such a thread the file is right. `ListRight` says the same of `mirror.list`.
`Restarted` needs no such condition: every save ends with a restart of its own, so
the last to end leaves dnsmasq on what is in the file, whoever wrote it. `StatusTrue`
is inductive. A stop of the process leaves start-up alone, which renders both files.

### Image builder

`Started` ties threads to running jobs. With requests that do not overlap, a request
that was checked is for an image none of whose jobs runs (`Requested`), hence
`OneOfRow`. When moreover the rows of a slug are one, a thread is that of the slug's
last build (`Last`), and `Progress` says which of the slug's files are from its ISO at
each step; `Staged` and one Windows image make the staging directory its own. A
build that fails leaves torn files, and a job that is not `done`.

### Provisioning

With one worker, its session is current but for images deleted since it read them
(`SessionsCurrent`: `image_delete` is a step of its own and needs no worker); every
registered machine's files are right, or the worker will come to it (`FilesRight`),
or it has written the script and goes on to the right answers (`HalfRight`); the menu
is right, or will be written (`MenuRight`). A restart at any point leaves a worker
that renders everything, which is why the stray file of a stopped `machine_delete`
does not matter: the script is gone before the row.

`MenuIsCurrent` keeps the hypothesis for the code's sake: `RenderMenu` reads the table
and writes the menu in one step, which with one worker changes nothing but with two
leaves out that `render_boot_menu` may write an older list over a newer one
(`renderer.py:108`).

### What TLC checked of it

Each inductive invariant was checked as an invariant before it was proved, on the
bounds of the run of its module: those of the task channel on `fleet_safety` and
`fleet_lifecycle` (`SInv` on the latter), the others on `agent_inventory`,
`accounts`, `sidecars` (also without `focus`, with one range and one change),
`build_serial` and `pxe_serial`.

### What stays with TLC

Liveness under fairness, which needs `ENABLED`: `PendingDelivered`, `BuildEnds`,
`RegisteredBoots`, `RequestServed`, `RowCatchesUp`. Induction over data and recursive
operators are out of the prover's reach too; the modules need neither. The
properties of the violation runs do not hold without the hypotheses of the table;
`SentResolved` is a liveness property that the code does not have.

## 5. Not modelled

Pages and exports, which change nothing; profile edits and tags, which nothing else
reads at the same time; the seeded profiles, images and mirrors, the added columns
and the configuration, which come before anything else; containers and `prepare.sh`,
which are deployment. Inside the modelled parts: overlapping inserts of two operators;
two machines cloned with one machine id, which share a host row; passwords and the
text of rendered answers; the collection of inventories and the rules of a
compliance scan, which read a machine; the frames of the DHCP probe; the work of
apt-mirror. `PROJECT.json` lists under `hazards` what no property covers, with the
reason.
