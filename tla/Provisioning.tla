----------------------------- MODULE Provisioning -----------------------------
(***************************************************************************)
(* Bare-metal provisioning: the tables machines, images and enroll_tokens, *)
(* the handlers that change them (routers/provision.py) and the files they *)
(* render under http/ for the network boot (renderer.py).  A worker is a   *)
(* request being handled: it commits, then writes files from what its      *)
(* session read, while other workers do the same.                          *)
(***************************************************************************)
EXTENDS Naturals, FiniteSets

CONSTANTS
  Macs,       \* network cards of the targets
  Images,     \* images; a deleted one does not come back
  Overrides,  \* values of an option that a machine may set for itself
  Workers,    \* requests handled at one time
  MaxRows,    \* bound: machine rows ever inserted for one MAC
  MaxVersion, \* bound: saves of one image's configuration
  MaxToken,   \* bound: provisioning tokens ever made
  NoImage, NoFile, Nobody,
  Inherit,    \* an option a machine leaves to its image
  Unread,     \* a configuration the session has not read
  May         \* what may happen beside registrations, see Optional

Optional == {"image save", "image delete", "token toggle", "restart"}

ASSUME ProvisioningAssumption ==
  /\ NoImage \notin Images /\ Nobody \notin Workers /\ Unread \notin Nat
  /\ Inherit \notin Overrides /\ Overrides \cap Nat = {}
  /\ MaxRows \in Nat /\ MaxVersion \in Nat /\ MaxToken \in Nat \ {0}
  /\ May \subseteq Optional

VARIABLES
  row,        \* row[m]: the row with MAC m, numbered among those that ever had
              \* it, 0 when there is none
  lastRow,    \* lastRow[m]: how many rows had MAC m
  img,        \* img[m]: Machine.image_id
  own,        \* own[m]: Machine.overrides, one option of it
  status,     \* status[m]: Machine.status
  images,     \* the image rows that exist
  config,     \* config[i]: the option in Image.config, as the number of saves; 0 is
              \* unset, and then DEFAULT_CFG holds
  lastToken,  \* the provisioning tokens made so far are 1 .. lastToken
  active,     \* those that are active
  ipxe,       \* ipxe[m]: image that clients/<mac>.ipxe boots, or NoFile
  answers,    \* answers[m]: the user-data or autounattend.xml next to it: the image,
              \* the option and the token in it
  menu,       \* machines listed in boot.ipxe
  target,     \* target[m]: token the machine installing itself will enroll with, 0
  todo,       \* todo[w]: machines worker w has yet to render, as its session read
              \* them
  know,       \* know[w]: configurations in its session, which reads each image once
  doing,      \* doing[w]: what worker w does next
  half,       \* half[w]: the machine whose script w has written, and the answers
              \* it writes next, or NoFile
  starting    \* the worker that renders at server start, or Nobody

db      == <<row, lastRow, img, own, status, images, config>>
tokens  == <<lastToken, active>>
files   == <<ipxe, answers, menu>>
work    == <<todo, know, doing, half, starting>>
vars    == <<db, tokens, files, target, work>>

Snapshot == [mac : Macs, row : 1 .. MaxRows, img : Images \cup {NoImage},
             own : Overrides \cup {Inherit}, status : {"new", "rendered", "installed"}]

Nothing == [i \in Images |-> Unread]

Answers == [img : Images, option : Overrides \cup 0 .. MaxVersion,
            token : 1 .. MaxToken]

Rendering == [of : Snapshot, answers : Answers \cup {NoFile}]

ASSUME NoFileAssumption ==
  NoFile \notin Images \cup {NoImage} /\ NoFile \notin Answers /\ NoFile \notin Rendering

TypeOK ==
  /\ row \in [Macs -> 0 .. MaxRows] /\ lastRow \in [Macs -> 0 .. MaxRows]
  /\ img \in [Macs -> Images \cup {NoImage}]
  /\ own \in [Macs -> Overrides \cup {Inherit}]
  /\ status \in [Macs -> {"new", "rendered", "installed"}]
  /\ images \subseteq Images /\ config \in [Images -> 0 .. MaxVersion]
  /\ lastToken \in 0 .. MaxToken /\ active \subseteq 1 .. lastToken
  /\ ipxe \in [Macs -> Images \cup {NoImage, NoFile}]
  /\ answers \in [Macs -> Answers \cup {NoFile}]
  /\ menu \subseteq Macs
  /\ target \in [Macs -> 0 .. MaxToken]
  /\ todo \in [Workers -> SUBSET Snapshot]
  /\ know \in [Workers -> [Images -> {Unread} \cup 0 .. MaxVersion]]
  /\ doing \in [Workers -> {"nothing", "list", "select", "one", "all", "menu", "unlink",
                         "delete"}]
  /\ half \in [Workers -> Rendering \cup {NoFile}]
  /\ starting \in Workers \cup {Nobody}

Init ==
  /\ row = [m \in Macs |-> 0] /\ lastRow = [m \in Macs |-> 0]
  /\ img = [m \in Macs |-> NoImage]
  /\ own = [m \in Macs |-> Inherit]
  /\ status = [m \in Macs |-> "new"]
  /\ images = Images /\ config = [i \in Images |-> 0]
  /\ lastToken = 0 /\ active = {}
  /\ ipxe = [m \in Macs |-> NoFile]
  /\ answers = [m \in Macs |-> NoFile]
  /\ menu = {}
  /\ target = [m \in Macs |-> 0]
  /\ todo = [w \in Workers |-> {}]
  /\ know = [w \in Workers |-> Nothing]
  /\ doing = [w \in Workers |-> "nothing"]
  /\ half = [w \in Workers |-> NoFile]
  /\ starting = Nobody

Registered == {m \in Macs : row[m] # 0}

\* What a session that reads row r of m, with image i and options o, goes on with.
Read(m, r, i, o, st) == [mac |-> m, row |-> r, img |-> i, own |-> o, status |-> st]

\* A session reads an image when it first needs it, and keeps what it read.
Knows(w, i) ==
  know' = IF i \in images /\ know[w][i] = Unread
          THEN [know EXCEPT ![w][i] = config[i]] ELSE know

Free(w) == doing[w] = "nothing" /\ starting = Nobody

Goto(w, what) == doing' = [doing EXCEPT ![w] = what]
-------------------------------------------------------------------------------
(* First steps of the handlers: what they commit before they render.         *)

\* machine_new, which then renders the new machine and the menu.
MachineNew(w, m, i) ==
  /\ Free(w) /\ row[m] = 0 /\ lastRow[m] < MaxRows /\ i \in images
  /\ row' = [row EXCEPT ![m] = lastRow[m] + 1]
  /\ lastRow' = [lastRow EXCEPT ![m] = @ + 1]
  /\ img' = [img EXCEPT ![m] = i]
  /\ own' = [own EXCEPT ![m] = Inherit]
  /\ status' = [status EXCEPT ![m] = "new"]
  /\ todo' = [todo EXCEPT ![w] = {Read(m, lastRow[m] + 1, i, Inherit, "new")}]
  /\ Knows(w, i)
  /\ Goto(w, "one")
  /\ UNCHANGED <<images, config, tokens, files, target, half, starting>>

\* machine_save, which replaces all of the overrides; an empty field inherits.
MachineSave(w, m, i, o) ==
  /\ Free(w) /\ row[m] # 0 /\ i \in images
  /\ img' = [img EXCEPT ![m] = i]
  /\ own' = [own EXCEPT ![m] = o]
  /\ UNCHANGED <<row, lastRow, status, images, config>>
  /\ todo' = [todo EXCEPT ![w] = {Read(m, row[m], i, o, status[m])}]
  /\ Knows(w, i)
  /\ Goto(w, "one")
  /\ UNCHANGED <<tokens, files, target, half, starting>>

\* The two effects of machine_delete: the boot script is unlinked, the row that
\* the session read is deleted.
Unlinked_Kept(m) == ipxe
Unlinked(m) == [ipxe EXCEPT ![m] = NoFile]
Deleted_UnlessInstalled(s) ==
  [row EXCEPT ![s.mac] = IF @ = s.row /\ s.status # "installed" THEN 0 ELSE @]
Deleted(s) == [row EXCEPT ![s.mac] = IF @ = s.row THEN 0 ELSE @]

\* machine_delete: the session reads the row; then the boot script of its MAC is
\* unlinked, whoever has that MAC by now; then the row goes, then the menu.
DeleteRead(w, m) ==
  /\ Free(w) /\ row[m] # 0
  /\ todo' = [todo EXCEPT ![w] = {Read(m, row[m], img[m], own[m], status[m])}]
  /\ Goto(w, "unlink")
  /\ UNCHANGED <<db, tokens, files, target, know, half, starting>>

DeleteUnlink(w) ==
  /\ doing[w] = "unlink"
  /\ \E s \in todo[w] : ipxe' = Unlinked(s.mac)
  /\ Goto(w, "delete")
  /\ UNCHANGED <<db, tokens, answers, menu, target, todo, know, half, starting>>

\* A row that is gone already is no error: the session warns and goes on.
DeleteCommit(w) ==
  /\ doing[w] = "delete"
  /\ \E s \in todo[w] : row' = Deleted(s)
  /\ todo' = [todo EXCEPT ![w] = {}]
  /\ Goto(w, "menu")
  /\ UNCHANGED <<lastRow, img, own, status, images, config, tokens, files, target,
                 know, half, starting>>

\* image_save: "existing machines pick up new image defaults".  Its session holds
\* the image as it is after the commit.
ImageSave(w, i) ==
  /\ "image save" \in May
  /\ Free(w) /\ i \in images /\ config[i] < MaxVersion
  /\ config' = [config EXCEPT ![i] = @ + 1]
  /\ know' = [know EXCEPT ![w][i] = config[i] + 1]
  /\ Goto(w, "list")
  /\ UNCHANGED <<row, lastRow, img, own, status, images, tokens, files, target,
                 todo, half, starting>>

\* rerender.
Rerender(w) ==
  /\ Free(w) /\ Goto(w, "list")
  /\ UNCHANGED <<db, tokens, files, target, todo, know, half, starting>>

\* image_delete: machines keep their row (ON DELETE SET NULL); nothing is
\* rendered.
ImageDelete(i) ==
  /\ "image delete" \in May
  /\ i \in images /\ starting = Nobody
  /\ images' = images \ {i}
  /\ img' = [m \in Macs |-> IF img[m] = i THEN NoImage ELSE img[m]]
  /\ UNCHANGED <<row, lastRow, own, status, config, tokens, files, target, work>>

\* token_toggle on the settings page.
TokenToggle(t) ==
  /\ "token toggle" \in May
  /\ t \in 1 .. lastToken /\ starting = Nobody
  /\ active' = IF t \in active THEN active \ {t} ELSE active \cup {t}
  /\ UNCHANGED <<db, lastToken, files, target, work>>

-------------------------------------------------------------------------------
(* Rendering.                                                                *)

\* The worker is done; at server start the handlers may begin.
Finished(w) == /\ Goto(w, "nothing")
               /\ know' = [know EXCEPT ![w] = Nothing]
               /\ starting' = IF starting = w THEN Nobody ELSE starting

\* What render_boot_menu lists.
Listed_ToInstall == {m \in Registered : status[m] # "installed"}
Listed == Registered

\* provisioning_token: an active one, or a new one when there is none.
Token_Uncommitted(t) ==
  IF active # {} THEN t \in active /\ UNCHANGED tokens
  ELSE /\ t = lastToken + 1 /\ t <= MaxToken
       /\ active' = {t} /\ UNCHANGED lastToken
Token(t) ==
  IF active # {} THEN t \in active /\ UNCHANGED tokens
  ELSE /\ t = lastToken + 1 /\ t <= MaxToken
       /\ lastToken' = t /\ active' = {t}

\* render_boot_menu: the first half of render_all, and the end of the machine
\* handlers.
RenderMenu(w) ==
  /\ doing[w] \in {"list", "menu"}
  /\ \E t \in 1 .. MaxToken : Token(t)
  /\ menu' = Listed
  /\ IF doing[w] = "list" THEN Goto(w, "select") /\ UNCHANGED <<know, starting>>
     ELSE Finished(w)
  /\ UNCHANGED <<db, ipxe, answers, target, todo, half>>

\* render_all goes through the machines that exist now.
SelectAll(w) ==
  /\ doing[w] = "select"
  /\ todo' = [todo EXCEPT ![w] =
                {Read(m, row[m], img[m], own[m], status[m]) : m \in Registered}]
  /\ IF Registered = {} THEN Finished(w) ELSE Goto(w, "all") /\ UNCHANGED <<know, starting>>
  /\ UNCHANGED <<db, tokens, files, target, half>>

\* The option of image i as the session reads it; an image deleted before that is
\* no image.
Version(w, i) == IF know[w][i] # Unread THEN know[w][i] ELSE config[i]

\* effective_config: the machine's own option, else that of the image, which is
\* the default when it is unset.
Effective_ImageFirst(version, o) == IF version = 0 /\ o # Inherit THEN o ELSE version
Effective(version, o) == IF o # Inherit THEN o ELSE version

\* render_machine, first half: the boot script, from what the session knows.
RenderScript(w) ==
  /\ doing[w] \in {"one", "all"} /\ half[w] = NoFile
  /\ \E s \in todo[w], t \in 1 .. MaxToken :
       LET found == s.img \in Images /\ (s.img \in images \/ know[w][s.img] # Unread) IN
       /\ Token(t)
       /\ ipxe' = [ipxe EXCEPT ![s.mac] = IF found THEN s.img ELSE NoImage]
       /\ half' = [half EXCEPT ![w] =
                     [of |-> s,
                      answers |-> IF found
                                  THEN [img |-> s.img, token |-> t,
                                        option |-> Effective(Version(w, s.img), s.own)]
                                  ELSE NoFile]]
       /\ todo' = [todo EXCEPT ![w] = @ \ {s}]
       /\ Knows(w, s.img)
  /\ UNCHANGED <<db, answers, menu, target, doing, starting>>

\* Second half: the answers, and the status.  Setting what the session read is no
\* UPDATE; an UPDATE of a row deleted since is an error that ends the request.
RenderAnswers(w) ==
  /\ half[w] # NoFile
  /\ LET s == half[w].of
         lost == s.status # "rendered" /\ row[s.mac] # s.row IN
     /\ answers' = IF half[w].answers = NoFile THEN answers
                   ELSE [answers EXCEPT ![s.mac] = half[w].answers]
     /\ status' = IF s.status # "rendered" /\ ~lost
                  THEN [status EXCEPT ![s.mac] = "rendered"] ELSE status
     /\ todo' = IF lost THEN [todo EXCEPT ![w] = {}] ELSE todo
     /\ half' = [half EXCEPT ![w] = NoFile]
     /\ IF lost \/ (doing[w] = "all" /\ todo[w] = {}) THEN Finished(w)
        ELSE /\ IF doing[w] = "one" THEN Goto(w, "menu") ELSE UNCHANGED doing
             /\ UNCHANGED <<know, starting>>
  /\ UNCHANGED <<row, lastRow, img, own, images, config, tokens, ipxe, menu, target>>

\* The server stops, whatever its workers do, and renders everything before it
\* handles requests again (main.py startup).
Restart(w) ==
  /\ "restart" \in May
  /\ starting' = w
  /\ doing' = [v \in Workers |-> IF v = w THEN "list" ELSE "nothing"]
  /\ todo' = [v \in Workers |-> {}]
  /\ know' = [v \in Workers |-> Nothing]
  /\ half' = [v \in Workers |-> NoFile]
  /\ UNCHANGED <<db, tokens, files, target>>

-------------------------------------------------------------------------------
(* The machines; external to the server but for the enroll handler.          *)

\* A machine boots from the network: its script installs the image with the
\* answers next to it.  Without a script it gets the menu, and without answers
\* the installer waits for somebody.
NetBoot(m) ==
  /\ ipxe[m] \in Images /\ answers[m] # NoFile
  /\ target' = [target EXCEPT ![m] = answers[m].token]
  /\ UNCHANGED <<db, tokens, files, work>>

\* enroll, from the installed machine: an active token is needed; the machine
\* record with the host's MAC becomes "installed".
FirstBoot(m) ==
  /\ target[m] # 0 /\ starting = Nobody
  /\ target' = [target EXCEPT ![m] = 0]
  /\ status' = IF target[m] \in active /\ row[m] # 0
               THEN [status EXCEPT ![m] = "installed"] ELSE status
  /\ UNCHANGED <<row, lastRow, img, own, images, config, tokens, files, work>>

-------------------------------------------------------------------------------
Handler(w) ==
  \/ \E m \in Macs, i \in Images :
       \/ MachineNew(w, m, i)
       \/ \E o \in Overrides \cup {Inherit} : MachineSave(w, m, i, o)
  \/ \E m \in Macs : DeleteRead(w, m)
  \/ DeleteUnlink(w)
  \/ DeleteCommit(w)
  \/ \E i \in Images : ImageSave(w, i)
  \/ Rerender(w)
  \/ RenderMenu(w)
  \/ SelectAll(w)
  \/ RenderScript(w)
  \/ RenderAnswers(w)

Next ==
  \/ \E w \in Workers : Handler(w) \/ Restart(w)
  \/ \E i \in Images : ImageDelete(i)
  \/ \E t \in 1 .. MaxToken : TokenToggle(t)
  \/ \E m \in Macs : NetBoot(m) \/ FirstBoot(m)

Spec == Init /\ [][Next]_vars

\* A request that has begun is carried on.
Continue(w) == DeleteUnlink(w) \/ DeleteCommit(w) \/ RenderMenu(w) \/ SelectAll(w)
               \/ RenderScript(w) \/ RenderAnswers(w)

FairSpec == Spec /\ \A w \in Workers : WF_vars(Continue(w))
-------------------------------------------------------------------------------
(* Properties.                                                               *)

Quiet == \A w \in Workers : doing[w] = "nothing"

\* Only registered machines are installed by the network boot: "Registered MACs
\* install unattended; unknown MACs get an interactive iPXE menu"
\* (README.md:70).  A stray script would wipe a machine taken off the list.
UnknownGetMenu == \A m \in Macs : ipxe[m] # NoFile => row[m] # 0

\* When no request is under way, what a registered machine with an image boots
\* is what its record says, and its answers hold its own option where it has one
\* ("per-machine overrides take precedence", models.py:147) and otherwise that of
\* its image as it is now ("existing machines pick up new image defaults",
\* provision.py:121): also after a stop between the two files of a render.
Current ==
  Quiet => \A m \in Registered : img[m] \in Images =>
             /\ ipxe[m] = img[m]
             /\ answers[m] # NoFile /\ answers[m].img = img[m]
             /\ own[m] \in Overrides => answers[m].option = own[m]
             /\ own[m] = Inherit => answers[m].option = config[img[m]]

\* The menu lists the registered machines when no request is under way, also
\* after a restart in the middle of one (boot.ipxe.j2).
MenuCurrent == Quiet => menu = Registered

\* A deletion that read an earlier row of m is about to unlink the script of the
\* one there is now.
Outdated(m) ==
  \E w \in Workers : /\ doing[w] = "unlink"
                     /\ \E s \in todo[w] : s.mac = m /\ row[m] \notin {0, s.row}

\* A registered machine gets its boot script, unless it is deleted first, whatever
\* other workers render and delete meanwhile, its MAC's earlier row included: all
\* but a deletion so late that it unlinks the script of the next row.
RegisteredBoots ==
  \A m \in Macs :
    []~Outdated(m) => (row[m] # 0 ~> (ipxe[m] # NoFile \/ row[m] = 0))
===============================================================================
