-------------------------- MODULE ProvisioningProofs --------------------------
(***************************************************************************)
(* Proofs about Provisioning, for any number of machines, images and       *)
(* options and with everything that may happen.  The types hold for any    *)
(* number of workers; that the files under http/ say what the tables say   *)
(* is proved where one request is handled at a time, the hypothesis of the *)
(* run pxe_serial: with two, the run pxe_stray_script refutes it.          *)
(***************************************************************************)
EXTENDS Provisioning, TLAPS

OneWorker == \A v, w \in Workers : v = w

-------------------------------------------------------------------------------
(* The inductive invariant.                                                  *)

\* What a worker holds follows from what it does.
Holds ==
  \A w \in Workers :
    /\ doing[w] \notin {"one", "all", "unlink", "delete"} => todo[w] = {} /\ half[w] = NoFile
    /\ doing[w] = "one" =>
         IF half[w] = NoFile THEN \E s \in Snapshot : todo[w] = {s} ELSE todo[w] = {}
    /\ doing[w] \in {"unlink", "delete"} =>
         /\ half[w] = NoFile
         /\ \E s \in Snapshot :
              /\ todo[w] = {s}
              /\ doing[w] = "delete" => ipxe[s.mac] = NoFile

\* A machine as a session read it is the machine as it is, but for an image that
\* was deleted since.
AsRead(s) ==
  /\ row[s.mac] = s.row /\ own[s.mac] = s.own
  /\ img[s.mac] \in {s.img, NoImage}

SessionsCurrent ==
  /\ \A m \in Macs : img[m] \in images \cup {NoImage}
  /\ \A w \in Workers :
       /\ \A s \in todo[w] : AsRead(s)
       /\ half[w] # NoFile => AsRead(half[w].of)
       /\ \A i \in Images : know[w][i] # Unread => know[w][i] = config[i]

\* The answers a are what the tables say of machine m, whose image is there.
Fits(m, a) ==
  /\ a # NoFile /\ a.img = img[m]
  /\ a.option = Effective(config[img[m]], own[m])

\* The machine whose script worker w has written has that script, and gets these
\* answers.
HalfRight ==
  \A w \in Workers : half[w] # NoFile =>
    LET m == half[w].of.mac IN
    img[m] \in Images => ipxe[m] = img[m] /\ Fits(m, half[w].answers)

\* Worker w will render machine m before it is done.
Pending(w, m) ==
  \/ doing[w] \in {"list", "select"}
  \/ \E s \in todo[w] : s.mac = m
  \/ half[w] # NoFile /\ half[w].of.mac = m

FilesRight ==
  \A m \in Registered :
    \/ \E w \in Workers : Pending(w, m)
    \/ img[m] \in Images => ipxe[m] = img[m] /\ Fits(m, answers[m])

MenuRight ==
  \/ \E w \in Workers : doing[w] \in {"list", "menu", "one", "unlink", "delete"}
  \/ menu = Registered

OInv == Holds /\ SessionsCurrent /\ HalfRight /\ FilesRight /\ MenuRight /\ UnknownGetMenu

IInv == TypeOK /\ OInv

-------------------------------------------------------------------------------
(* Types.                                                                    *)

\* Nothing is registered or rendered at first.
LEMMA TypeInit == Init => TypeOK
BY ProvisioningAssumption DEF Init, TypeOK, Nothing

\* A session's reading of a row is a snapshot of it.
LEMMA ReadType ==
  ASSUME NEW m \in Macs, NEW r \in 1 .. MaxRows, NEW i \in Images \cup {NoImage},
         NEW o \in Overrides \cup {Inherit}, NEW st \in {"new", "rendered", "installed"}
  PROVE  /\ Read(m, r, i, o, st) \in Snapshot
         /\ Read(m, r, i, o, st).mac = m /\ Read(m, r, i, o, st).row = r
         /\ Read(m, r, i, o, st).img = i /\ Read(m, r, i, o, st).own = o
         /\ Read(m, r, i, o, st).status = st
BY DEF Read, Snapshot

\* A session that has used image i knows what it knew, and i.
LEMMA KnowsEffect ==
  ASSUME TypeOK, NEW w \in Workers, NEW i, Knows(w, i)
  PROVE  /\ know' \in [Workers -> [Images -> {Unread} \cup 0 .. MaxVersion]]
         /\ \A v \in Workers, j \in Images :
              know'[v][j] \in {know[v][j]} \cup (IF v = w /\ i = j THEN {config[j]} ELSE {})
         /\ \A v \in Workers : v # w => know'[v] = know[v]
<1> USE ProvisioningAssumption DEF TypeOK
<1>1. CASE i \in images /\ know[w][i] = Unread
  <2>1. know' = [know EXCEPT ![w][i] = config[i]] /\ i \in Images
    BY <1>1 DEF Knows
  <2> QED BY <2>1
<1>2. CASE ~(i \in images /\ know[w][i] = Unread)
  BY <1>2 DEF Knows
<1> QED BY <1>1, <1>2

\* A worker that is finished does nothing and has read nothing.
LEMMA FinishedEffect ==
  ASSUME TypeOK, NEW w \in Workers, Finished(w)
  PROVE  /\ doing' \in [Workers -> {"nothing", "list", "select", "one", "all", "menu", "unlink", "delete"}]
         /\ doing'[w] = "nothing" /\ know'[w] = Nothing
         /\ \A v \in Workers : v # w => doing'[v] = doing[v] /\ know'[v] = know[v]
         /\ know' \in [Workers -> [Images -> {Unread} \cup 0 .. MaxVersion]]
         /\ starting' \in Workers \cup {Nobody}
<1>1. Nothing \in [Images -> {Unread} \cup 0 .. MaxVersion]
  BY DEF Nothing
<1>2. /\ doing' = [doing EXCEPT ![w] = "nothing"]
      /\ know' = [know EXCEPT ![w] = Nothing]
      /\ starting' = IF starting = w THEN Nobody ELSE starting
  BY DEF Finished, Goto
<1>3. /\ doing' \in [Workers -> {"nothing", "list", "select", "one", "all", "menu", "unlink", "delete"}]
      /\ doing'[w] = "nothing"
      /\ \A v \in Workers : v # w => doing'[v] = doing[v]
  BY <1>2 DEF TypeOK
<1> HIDE DEF Nothing
<1>4. /\ know' \in [Workers -> [Images -> {Unread} \cup 0 .. MaxVersion]]
      /\ know'[w] = Nothing
      /\ \A v \in Workers : v # w => know'[v] = know[v]
  BY <1>1, <1>2 DEF TypeOK
<1> QED BY <1>2, <1>3, <1>4 DEF TypeOK

\* A render makes one more token, or none.
LEMMA TokenType ==
  ASSUME TypeOK, NEW t \in 1 .. MaxToken, Token(t)
  PROVE  lastToken' \in 0 .. MaxToken /\ active' \subseteq 1 .. lastToken'
<1>1. MaxToken \in Nat /\ lastToken \in 0 .. MaxToken /\ active \subseteq 1 .. lastToken
  BY ProvisioningAssumption DEF TypeOK
<1>2. CASE active # {}
  BY <1>1, <1>2 DEF Token, tokens
<1>3. CASE active = {}
  <2>1. t \in 0 .. MaxToken /\ t \in 1 .. t
    BY <1>1
  <2> QED BY <1>3, <2>1 DEF Token
<1> QED BY <1>2, <1>3

\* What a render writes of a snapshot.
LEMMA ScriptEffect ==
  ASSUME TypeOK, NEW w \in Workers, RenderScript(w)
  PROVE  \E s \in todo[w], t \in 1 .. MaxToken, a \in Answers \cup {NoFile} :
           LET found == s.img \in Images /\ (s.img \in images \/ know[w][s.img] # Unread) IN
           /\ s \in Snapshot /\ Token(t)
           /\ doing[w] \in {"one", "all"} /\ half[w] = NoFile
           /\ ipxe' = [ipxe EXCEPT ![s.mac] = IF found THEN s.img ELSE NoImage]
           /\ half' \in [Workers -> Rendering \cup {NoFile}]
           /\ half'[w] # NoFile /\ half'[w].of = s /\ half'[w].answers = a
           /\ \A v \in Workers : v # w => half'[v] = half[v]
           /\ found => /\ a # NoFile /\ a.img = s.img
                       /\ a.option = Effective(Version(w, s.img), s.own)
           /\ ~found => a = NoFile
           /\ todo' = [todo EXCEPT ![w] = @ \ {s}]
           /\ Knows(w, s.img)
           /\ UNCHANGED <<db, answers, menu, target, doing, starting>>
<1> USE ProvisioningAssumption, NoFileAssumption DEF TypeOK
<1>1. PICK s \in todo[w], t \in 1 .. MaxToken :
        LET found == s.img \in Images /\ (s.img \in images \/ know[w][s.img] # Unread) IN
        /\ Token(t)
        /\ ipxe' = [ipxe EXCEPT ![s.mac] = IF found THEN s.img ELSE NoImage]
        /\ half' = [half EXCEPT ![w] =
                      [of |-> s,
                       answers |-> IF found
                                   THEN [img |-> s.img, token |-> t,
                                         option |-> Effective(Version(w, s.img), s.own)]
                                   ELSE NoFile]]
        /\ todo' = [todo EXCEPT ![w] = @ \ {s}]
        /\ Knows(w, s.img)
  BY DEF RenderScript
<1> DEFINE found == s.img \in Images /\ (s.img \in images \/ know[w][s.img] # Unread)
           a == IF found THEN [img |-> s.img, token |-> t,
                               option |-> Effective(Version(w, s.img), s.own)]
                ELSE NoFile
<1>2. s \in Snapshot
  OBVIOUS
<1>3. found => Effective(Version(w, s.img), s.own) \in Overrides \cup 0 .. MaxVersion
  <2>1. s.own \in Overrides \cup {Inherit}
    BY <1>2 DEF Snapshot
  <2>2. found => Version(w, s.img) \in 0 .. MaxVersion
    BY DEF Version
  <2> QED BY <2>1, <2>2 DEF Effective
<1>4. a \in Answers \cup {NoFile}
  BY <1>3 DEF Answers
<1>5. [of |-> s, answers |-> a] \in Rendering
  BY <1>2, <1>4 DEF Rendering
<1>6. found => /\ a # NoFile /\ a.img = s.img
               /\ a.option = Effective(Version(w, s.img), s.own)
  BY <1>4, <1>3 DEF Answers
<1>7. ~found => a = NoFile
  OBVIOUS
<1>8. /\ half' = [half EXCEPT ![w] = [of |-> s, answers |-> a]]
      /\ ipxe' = [ipxe EXCEPT ![s.mac] = IF found THEN s.img ELSE NoImage]
  BY <1>1
<1> HIDE DEF a, found
<1>9. /\ half' \in [Workers -> Rendering \cup {NoFile}]
      /\ half'[w] = [of |-> s, answers |-> a]
      /\ \A v \in Workers : v # w => half'[v] = half[v]
  BY <1>5, <1>8
<1>10. half'[w] # NoFile /\ half'[w].of = s /\ half'[w].answers = a
  BY <1>5, <1>9
<1>11. doing[w] \in {"one", "all"} /\ half[w] = NoFile
       /\ UNCHANGED <<db, answers, menu, target, doing, starting>>
  BY DEF RenderScript
<1> QED BY <1>1, <1>2, <1>4, <1>6, <1>7, <1>8, <1>9, <1>10, <1>11 DEF found

\* Every step keeps the types, with any number of workers.
LEMMA TypeStep == TypeOK /\ [Next]_vars => TypeOK'
<1> SUFFICES ASSUME TypeOK, [Next]_vars PROVE TypeOK'
  OBVIOUS
<1> USE ProvisioningAssumption, NoFileAssumption DEF db, tokens, files, work
<1>1. ASSUME NEW w \in Workers, NEW m \in Macs, NEW i \in Images, MachineNew(w, m, i)
      PROVE  TypeOK'
  <2>1. lastRow[m] + 1 \in 1 .. MaxRows
    BY <1>1 DEF TypeOK, MachineNew
  <2>2. Read(m, lastRow[m] + 1, i, Inherit, "new") \in Snapshot
    BY <2>1, ReadType
  <2>3. know' \in [Workers -> [Images -> {Unread} \cup 0 .. MaxVersion]]
    BY <1>1, KnowsEffect DEF MachineNew
  <2>4. todo' \in [Workers -> SUBSET Snapshot]
    BY <1>1, <2>2 DEF TypeOK, MachineNew
  <2>5. /\ row' \in [Macs -> 0 .. MaxRows] /\ lastRow' \in [Macs -> 0 .. MaxRows]
        /\ img' \in [Macs -> Images \cup {NoImage}]
        /\ own' \in [Macs -> Overrides \cup {Inherit}]
        /\ status' \in [Macs -> {"new", "rendered", "installed"}]
        /\ doing' \in [Workers -> {"nothing", "list", "select", "one", "all", "menu", "unlink", "delete"}]
    BY <1>1, <2>1 DEF TypeOK, MachineNew, Goto
  <2> QED BY <1>1, <2>3, <2>4, <2>5 DEF TypeOK, MachineNew
<1>2. ASSUME NEW w \in Workers, NEW m \in Macs, NEW i \in Images,
             NEW o \in Overrides \cup {Inherit}, MachineSave(w, m, i, o)
      PROVE  TypeOK'
  <2>1. row[m] \in 1 .. MaxRows /\ status[m] \in {"new", "rendered", "installed"}
    BY <1>2 DEF TypeOK, MachineSave
  <2>2. Read(m, row[m], i, o, status[m]) \in Snapshot
    BY <2>1, ReadType
  <2>3. know' \in [Workers -> [Images -> {Unread} \cup 0 .. MaxVersion]]
    BY <1>2, KnowsEffect DEF MachineSave
  <2>4. todo' \in [Workers -> SUBSET Snapshot]
    BY <1>2, <2>2 DEF TypeOK, MachineSave
  <2>5. /\ img' \in [Macs -> Images \cup {NoImage}]
        /\ own' \in [Macs -> Overrides \cup {Inherit}]
        /\ doing' \in [Workers -> {"nothing", "list", "select", "one", "all", "menu", "unlink", "delete"}]
    BY <1>2 DEF TypeOK, MachineSave, Goto
  <2> QED BY <1>2, <2>3, <2>4, <2>5 DEF TypeOK, MachineSave
<1>3. ASSUME NEW w \in Workers, NEW m \in Macs, DeleteRead(w, m) PROVE TypeOK'
  <2>1. /\ row[m] \in 1 .. MaxRows /\ status[m] \in {"new", "rendered", "installed"}
        /\ img[m] \in Images \cup {NoImage} /\ own[m] \in Overrides \cup {Inherit}
    BY <1>3 DEF TypeOK, DeleteRead
  <2>2. Read(m, row[m], img[m], own[m], status[m]) \in Snapshot
    BY <2>1, ReadType
  <2>3. /\ todo' \in [Workers -> SUBSET Snapshot]
        /\ doing' \in [Workers -> {"nothing", "list", "select", "one", "all", "menu", "unlink", "delete"}]
    BY <1>3, <2>2 DEF TypeOK, DeleteRead, Goto
  <2> QED BY <1>3, <2>3 DEF TypeOK, DeleteRead
<1>4. ASSUME NEW w \in Workers, DeleteCommit(w) PROVE TypeOK'
  <2>1. \A s \in todo[w] : Deleted(s) \in [Macs -> 0 .. MaxRows]
    <3>1. row \in [Macs -> 0 .. MaxRows] /\ 0 \in 0 .. MaxRows
      BY DEF TypeOK
    <3> QED BY <3>1 DEF Deleted
  <2>2. /\ todo' \in [Workers -> SUBSET Snapshot]
        /\ doing' \in [Workers -> {"nothing", "list", "select", "one", "all", "menu", "unlink", "delete"}]
    BY <1>4 DEF TypeOK, DeleteCommit, Goto
  <2> QED BY <1>4, <2>1, <2>2 DEF TypeOK, DeleteCommit
<1>5. ASSUME NEW w \in Workers, NEW i \in Images, ImageSave(w, i) PROVE TypeOK'
  <2>1. config[i] + 1 \in 0 .. MaxVersion
    <3>1. config[i] \in 0 .. MaxVersion /\ config[i] < MaxVersion
      BY <1>5 DEF TypeOK, ImageSave
    <3> QED BY <3>1
  <2>2. /\ know' \in [Workers -> [Images -> {Unread} \cup 0 .. MaxVersion]]
        /\ config' \in [Images -> 0 .. MaxVersion]
        /\ doing' \in [Workers -> {"nothing", "list", "select", "one", "all", "menu", "unlink", "delete"}]
    BY <1>5, <2>1 DEF TypeOK, ImageSave, Goto
  <2> QED BY <1>5, <2>2 DEF TypeOK, ImageSave
<1>6. ASSUME NEW w \in Workers, Rerender(w) PROVE TypeOK'
  BY <1>6 DEF TypeOK, Rerender, Goto
<1>7. ASSUME NEW w \in Workers, RenderMenu(w) PROVE TypeOK'
  <2>1. lastToken' \in 0 .. MaxToken /\ active' \subseteq 1 .. lastToken'
    BY <1>7, TokenType DEF RenderMenu
  <2>2. menu' \subseteq Macs
    BY <1>7 DEF RenderMenu, Listed, Registered
  <2>3. /\ doing' \in [Workers -> {"nothing", "list", "select", "one", "all", "menu", "unlink", "delete"}]
        /\ know' \in [Workers -> [Images -> {Unread} \cup 0 .. MaxVersion]]
        /\ starting' \in Workers \cup {Nobody}
    <3>1. CASE doing[w] = "list"
      BY <1>7, <3>1 DEF TypeOK, RenderMenu, Goto
    <3>2. CASE doing[w] # "list"
      BY <1>7, <3>2, FinishedEffect DEF RenderMenu
    <3> QED BY <3>1, <3>2
  <2> QED BY <1>7, <2>1, <2>2, <2>3 DEF TypeOK, RenderMenu
<1>8. ASSUME NEW w \in Workers, SelectAll(w) PROVE TypeOK'
  <2>1. \A m \in Registered : Read(m, row[m], img[m], own[m], status[m]) \in Snapshot
    <3> SUFFICES ASSUME NEW m \in Registered
                 PROVE  Read(m, row[m], img[m], own[m], status[m]) \in Snapshot
      OBVIOUS
    <3>1. m \in Macs /\ row[m] \in 0 .. MaxRows /\ row[m] # 0
      BY DEF TypeOK, Registered
    <3>2. row[m] \in 1 .. MaxRows
      BY <3>1
    <3>3. /\ img[m] \in Images \cup {NoImage} /\ own[m] \in Overrides \cup {Inherit}
          /\ status[m] \in {"new", "rendered", "installed"}
      BY <3>1 DEF TypeOK
    <3> QED BY <3>1, <3>2, <3>3, ReadType
  <2>2. todo' \in [Workers -> SUBSET Snapshot]
    BY <1>8, <2>1 DEF TypeOK, SelectAll
  <2>3. /\ doing' \in [Workers -> {"nothing", "list", "select", "one", "all", "menu", "unlink", "delete"}]
        /\ know' \in [Workers -> [Images -> {Unread} \cup 0 .. MaxVersion]]
        /\ starting' \in Workers \cup {Nobody}
    <3>1. CASE Registered = {}
      BY <1>8, <3>1, FinishedEffect DEF SelectAll
    <3>2. CASE Registered # {}
      BY <1>8, <3>2 DEF TypeOK, SelectAll, Goto
    <3> QED BY <3>1, <3>2
  <2> QED BY <1>8, <2>2, <2>3 DEF TypeOK, SelectAll
<1>9. ASSUME NEW w \in Workers, RenderScript(w) PROVE TypeOK'
  <2>1. PICK s \in todo[w], t \in 1 .. MaxToken :
          /\ s \in Snapshot /\ Token(t)
          /\ ipxe' \in {[ipxe EXCEPT ![s.mac] = s.img], [ipxe EXCEPT ![s.mac] = NoImage]}
          /\ half' \in [Workers -> Rendering \cup {NoFile}]
          /\ todo' = [todo EXCEPT ![w] = @ \ {s}]
          /\ Knows(w, s.img)
          /\ UNCHANGED <<db, answers, menu, target, doing, starting>>
    BY <1>9, ScriptEffect
  <2>2. lastToken' \in 0 .. MaxToken /\ active' \subseteq 1 .. lastToken'
    BY <2>1, TokenType
  <2>3. know' \in [Workers -> [Images -> {Unread} \cup 0 .. MaxVersion]]
    BY <2>1, KnowsEffect
  <2>4. ipxe' \in [Macs -> Images \cup {NoImage, NoFile}]
    <3>1. s.img \in Images \cup {NoImage}
      BY <2>1 DEF Snapshot
    <3> QED BY <2>1, <3>1 DEF TypeOK
  <2>5. todo' \in [Workers -> SUBSET Snapshot]
    BY <2>1 DEF TypeOK
  <2> QED BY <2>1, <2>2, <2>3, <2>4, <2>5 DEF TypeOK
<1>10. ASSUME NEW w \in Workers, RenderAnswers(w) PROVE TypeOK'
  <2>1. /\ half[w] \in Rendering /\ half[w].of \in Snapshot
        /\ half[w].answers \in Answers \cup {NoFile} /\ half[w].of.mac \in Macs
    BY <1>10 DEF TypeOK, RenderAnswers, Rendering, Snapshot
  <2>2. answers' \in [Macs -> Answers \cup {NoFile}]
    BY <1>10, <2>1 DEF TypeOK, RenderAnswers
  <2>3. status' \in [Macs -> {"new", "rendered", "installed"}]
    BY <1>10, <2>1 DEF TypeOK, RenderAnswers
  <2>4. todo' \in [Workers -> SUBSET Snapshot] /\ half' \in [Workers -> Rendering \cup {NoFile}]
    BY <1>10 DEF TypeOK, RenderAnswers
  <2>5. /\ doing' \in [Workers -> {"nothing", "list", "select", "one", "all", "menu", "unlink", "delete"}]
        /\ know' \in [Workers -> [Images -> {Unread} \cup 0 .. MaxVersion]]
        /\ starting' \in Workers \cup {Nobody}
    <3>1. CASE Finished(w)
      BY <3>1, FinishedEffect
    <3>2. CASE ~Finished(w)
      BY <1>10, <3>2 DEF TypeOK, RenderAnswers, Goto
    <3> QED BY <3>1, <3>2
  <2> QED BY <1>10, <2>2, <2>3, <2>4, <2>5 DEF TypeOK, RenderAnswers
<1>11. ASSUME NEW w \in Workers, Restart(w) PROVE TypeOK'
  <2>1. Nothing \in [Images -> {Unread} \cup 0 .. MaxVersion]
    BY DEF Nothing
  <2> HIDE DEF Nothing
  <2> QED BY <1>11, <2>1 DEF TypeOK, Restart
<1>12. ASSUME NEW i \in Images, ImageDelete(i) PROVE TypeOK'
  BY <1>12 DEF TypeOK, ImageDelete
<1>13. ASSUME NEW t \in 1 .. MaxToken, TokenToggle(t) PROVE TypeOK'
  BY <1>13 DEF TypeOK, TokenToggle
<1>14. ASSUME NEW m \in Macs, NetBoot(m) PROVE TypeOK'
  <2>1. answers[m].token \in 0 .. MaxToken
    BY <1>14 DEF TypeOK, NetBoot, Answers
  <2> QED BY <1>14, <2>1 DEF TypeOK, NetBoot
<1>15. ASSUME NEW m \in Macs, FirstBoot(m) PROVE TypeOK'
  BY <1>15 DEF TypeOK, FirstBoot
<1>16. CASE UNCHANGED vars
  BY <1>16 DEF TypeOK, vars
<1>17. ASSUME NEW w \in Workers, DeleteUnlink(w) PROVE TypeOK'
  <2>1. \A s \in todo[w] : Unlinked(s.mac) \in [Macs -> Images \cup {NoImage, NoFile}]
    BY DEF TypeOK, Unlinked
  <2>2. doing' \in [Workers -> {"nothing", "list", "select", "one", "all", "menu", "unlink", "delete"}]
    BY <1>17 DEF TypeOK, DeleteUnlink, Goto
  <2> QED BY <1>17, <2>1, <2>2 DEF TypeOK, DeleteUnlink
<1> QED BY <1>1, <1>2, <1>3, <1>4, <1>5, <1>6, <1>7, <1>8, <1>9, <1>10, <1>11, <1>12, <1>13,
     <1>14, <1>15, <1>16, <1>17 DEF Next, Handler

\* The tables, the files and what every worker holds stay what they are declared to
\* be, for any number of requests at one time.
THEOREM TypeCorrect == Spec => []TypeOK
BY TypeInit, TypeStep, PTL DEF Spec

-------------------------------------------------------------------------------
(* The files say what the tables say, when requests are handled one by one.  *)

\* An idle worker leaves nothing to be rendered.
LEMMA IdleWorker ==
  ASSUME OneWorker, IInv, NEW w \in Workers, doing[w] = "nothing"
  PROVE  /\ todo[w] = {} /\ half[w] = NoFile /\ menu = Registered
         /\ \A n \in Registered : ~Pending(w, n)
         /\ \A n \in Registered :
              img[n] \in Images => ipxe[n] = img[n] /\ Fits(n, answers[n])
<1>1. todo[w] = {} /\ half[w] = NoFile
  BY DEF IInv, OInv, Holds
<1>2. \A n : ~Pending(w, n)
  BY <1>1 DEF Pending
<1>3. \A v \in Workers : v = w
  BY DEF OneWorker
<1>4. menu = Registered
  BY <1>3 DEF IInv, OInv, MenuRight
<1> QED BY <1>1, <1>2, <1>3, <1>4 DEF IInv, OInv, FilesRight

\* A session keeps what it knows, and what it adds is true.
LEMMA KnowsRight ==
  ASSUME IInv, NEW w \in Workers, NEW i, Knows(w, i), UNCHANGED config
  PROVE  \A v \in Workers, j \in Images : know'[v][j] # Unread => know'[v][j] = config'[j]
BY KnowsEffect DEF IInv, OInv, SessionsCurrent

\* A machine just registered is the one its request will render.
LEMMA NewStep ==
  ASSUME OneWorker, IInv, NEW w \in Workers, NEW m \in Macs, NEW i \in Images,
         MachineNew(w, m, i)
  PROVE  OInv'
<1> USE ProvisioningAssumption, NoFileAssumption
<1>0. \A v \in Workers : v = w
  BY DEF OneWorker
<1>1. doing[w] = "nothing" /\ row[m] = 0 /\ i \in images
  BY DEF MachineNew, Free
<1>2. lastRow[m] + 1 \in 1 .. MaxRows
  BY DEF IInv, TypeOK, MachineNew
<1>3. PICK rd \in Snapshot :
        /\ todo' = [todo EXCEPT ![w] = {rd}]
        /\ rd.mac = m /\ rd.row = lastRow[m] + 1 /\ rd.img = i /\ rd.own = Inherit
  <2> DEFINE read == Read(m, lastRow[m] + 1, i, Inherit, "new")
  <2>1. todo' = [todo EXCEPT ![w] = {read}]
    BY DEF MachineNew
  <2>2. read \in Snapshot /\ read.mac = m /\ read.row = lastRow[m] + 1 /\ read.img = i /\ read.own = Inherit
    BY <1>2, ReadType
  <2> HIDE DEF read
  <2> QED BY <2>1, <2>2
<1>4. /\ row' = [row EXCEPT ![m] = lastRow[m] + 1]
      /\ img' = [img EXCEPT ![m] = i] /\ own' = [own EXCEPT ![m] = Inherit]
      /\ doing' = [doing EXCEPT ![w] = "one"]
      /\ Knows(w, i)
      /\ UNCHANGED <<images, config, files, half>>
  BY DEF MachineNew, Goto, db, tokens, files
<1>5. /\ row'[m] = lastRow[m] + 1 /\ img'[m] = i /\ own'[m] = Inherit
      /\ todo'[w] = {rd} /\ doing'[w] = "one" /\ half'[w] = NoFile
      /\ \A n \in Macs : n # m => row'[n] = row[n] /\ img'[n] = img[n] /\ own'[n] = own[n]
  BY <1>1, <1>3, <1>4, IdleWorker DEF IInv, TypeOK
<1>6. Holds'
  BY <1>0, <1>3, <1>5 DEF Holds
<1>7. SessionsCurrent'
  <2>1. \A n \in Macs : img'[n] \in images' \cup {NoImage}
    BY <1>1, <1>4, <1>5 DEF IInv, OInv, SessionsCurrent
  <2>2. AsRead(rd)'
    BY <1>3, <1>5 DEF AsRead
  <2>3. \A j \in Images : know'[w][j] # Unread => know'[w][j] = config'[j]
    BY <1>4, KnowsRight
  <2> QED BY <1>0, <1>5, <2>1, <2>2, <2>3 DEF SessionsCurrent
<1>8. HalfRight'
  BY <1>0, <1>5 DEF HalfRight
<1>9. FilesRight'
  <2> SUFFICES ASSUME NEW n \in Registered'
               PROVE  \/ Pending(w, n)'
                      \/ (img[n] \in Images => ipxe[n] = img[n] /\ Fits(n, answers[n]))'
    BY DEF FilesRight
  <2>1. CASE n = m
    BY <1>3, <1>5, <2>1 DEF Pending
  <2>2. CASE n # m
    <3>1. n \in Macs /\ n \in Registered
      BY <1>5, <2>2 DEF Registered
    <3> QED BY <1>1, <1>4, <1>5, <2>2, <3>1, IdleWorker DEF Fits, files
  <2> QED BY <2>1, <2>2
<1>10. MenuRight'
  BY <1>5 DEF MenuRight
<1>11. UnknownGetMenu'
  BY <1>2, <1>4, <1>5 DEF IInv, OInv, UnknownGetMenu, files
<1> QED BY <1>6, <1>7, <1>8, <1>9, <1>10, <1>11 DEF OInv

\* A machine just saved is the one its request will render.
LEMMA EditStep ==
  ASSUME OneWorker, IInv, NEW w \in Workers, NEW m \in Macs, NEW i \in Images,
         NEW o \in Overrides \cup {Inherit}, MachineSave(w, m, i, o)
  PROVE  OInv'
<1> USE ProvisioningAssumption, NoFileAssumption
<1>0. \A v \in Workers : v = w
  BY DEF OneWorker
<1>1. doing[w] = "nothing" /\ row[m] # 0 /\ i \in images
  BY DEF MachineSave, Free
<1>2. row[m] \in 1 .. MaxRows /\ status[m] \in {"new", "rendered", "installed"}
  BY <1>1 DEF IInv, TypeOK
<1>3. PICK rd \in Snapshot :
        /\ todo' = [todo EXCEPT ![w] = {rd}]
        /\ rd.mac = m /\ rd.row = row[m] /\ rd.img = i /\ rd.own = o
  <2> DEFINE read == Read(m, row[m], i, o, status[m])
  <2>1. todo' = [todo EXCEPT ![w] = {read}]
    BY DEF MachineSave
  <2>2. read \in Snapshot /\ read.mac = m /\ read.row = row[m] /\ read.img = i /\ read.own = o
    BY <1>2, ReadType
  <2> HIDE DEF read
  <2> QED BY <2>1, <2>2
<1>4. /\ img' = [img EXCEPT ![m] = i] /\ own' = [own EXCEPT ![m] = o]
      /\ doing' = [doing EXCEPT ![w] = "one"]
      /\ Knows(w, i)
      /\ UNCHANGED <<row, images, config, files, half>>
  BY DEF MachineSave, Goto, tokens, files
<1>5. /\ img'[m] = i /\ own'[m] = o
      /\ todo'[w] = {rd} /\ doing'[w] = "one" /\ half'[w] = NoFile
      /\ \A n \in Macs : n # m => img'[n] = img[n] /\ own'[n] = own[n]
  BY <1>1, <1>3, <1>4, IdleWorker DEF IInv, TypeOK
<1>6. Holds'
  BY <1>0, <1>3, <1>5 DEF Holds
<1>7. SessionsCurrent'
  <2>1. \A n \in Macs : img'[n] \in images' \cup {NoImage}
    BY <1>1, <1>4, <1>5 DEF IInv, OInv, SessionsCurrent
  <2>2. AsRead(rd)'
    BY <1>3, <1>4, <1>5 DEF AsRead
  <2>3. \A j \in Images : know'[w][j] # Unread => know'[w][j] = config'[j]
    BY <1>4, KnowsRight
  <2> QED BY <1>0, <1>5, <2>1, <2>2, <2>3 DEF SessionsCurrent
<1>8. HalfRight'
  BY <1>0, <1>5 DEF HalfRight
<1>9. FilesRight'
  <2> SUFFICES ASSUME NEW n \in Registered'
               PROVE  \/ Pending(w, n)'
                      \/ (img[n] \in Images => ipxe[n] = img[n] /\ Fits(n, answers[n]))'
    BY DEF FilesRight
  <2>1. CASE n = m
    BY <1>3, <1>5, <2>1 DEF Pending
  <2>2. CASE n # m
    <3>1. n \in Macs /\ n \in Registered
      BY <1>4 DEF Registered
    <3> QED BY <1>1, <1>4, <1>5, <2>2, <3>1, IdleWorker DEF Fits, files
  <2> QED BY <2>1, <2>2
<1>10. MenuRight'
  BY <1>5 DEF MenuRight
<1>11. UnknownGetMenu'
  BY <1>4 DEF IInv, OInv, UnknownGetMenu, files
<1> QED BY <1>6, <1>7, <1>8, <1>9, <1>10, <1>11 DEF OInv

\* A machine that is to be deleted is the one its request will come to.
LEMMA DeleteReadStep ==
  ASSUME OneWorker, IInv, NEW w \in Workers, NEW m \in Macs, DeleteRead(w, m)
  PROVE  OInv'
<1> USE ProvisioningAssumption, NoFileAssumption
<1>0. \A v \in Workers : v = w
  BY DEF OneWorker
<1>1. doing[w] = "nothing" /\ row[m] # 0
  BY DEF DeleteRead, Free
<1>2. /\ row[m] \in 1 .. MaxRows /\ status[m] \in {"new", "rendered", "installed"}
      /\ img[m] \in Images \cup {NoImage} /\ own[m] \in Overrides \cup {Inherit}
  BY <1>1 DEF IInv, TypeOK
<1>3. PICK rd \in Snapshot :
        /\ todo' = [todo EXCEPT ![w] = {rd}]
        /\ rd.mac = m /\ rd.row = row[m] /\ rd.img = img[m] /\ rd.own = own[m]
  <2> DEFINE read == Read(m, row[m], img[m], own[m], status[m])
  <2>1. todo' = [todo EXCEPT ![w] = {read}]
    BY DEF DeleteRead
  <2>2. read \in Snapshot /\ read.mac = m /\ read.row = row[m] /\ read.img = img[m] /\ read.own = own[m]
    BY <1>2, ReadType
  <2> HIDE DEF read
  <2> QED BY <2>1, <2>2
<1>4. /\ doing' = [doing EXCEPT ![w] = "unlink"]
      /\ UNCHANGED <<row, img, own, images, config, files, know, half>>
  BY DEF DeleteRead, Goto, db
<1>5. todo'[w] = {rd} /\ doing'[w] = "unlink" /\ half'[w] = NoFile
  BY <1>1, <1>3, <1>4, IdleWorker DEF IInv, TypeOK
<1>6. Holds'
  BY <1>0, <1>3, <1>5 DEF Holds
<1>7. SessionsCurrent'
  <2>1. AsRead(rd)'
    BY <1>3, <1>4 DEF AsRead
  <2> QED BY <1>0, <1>4, <1>5, <2>1 DEF IInv, OInv, SessionsCurrent
<1>8. HalfRight'
  BY <1>0, <1>5 DEF HalfRight
<1>9. FilesRight'
  <2> SUFFICES ASSUME NEW n \in Registered'
               PROVE  \/ Pending(w, n)'
                      \/ (img[n] \in Images => ipxe[n] = img[n] /\ Fits(n, answers[n]))'
    BY DEF FilesRight
  <2>1. CASE n = m
    BY <1>3, <1>5, <2>1 DEF Pending
  <2>2. CASE n # m
    <3>1. n \in Macs /\ n \in Registered
      BY <1>4 DEF Registered
    <3> QED BY <1>1, <1>4, <1>5, <2>2, <3>1, IdleWorker DEF Fits, files
  <2> QED BY <2>1, <2>2
<1>10. MenuRight'
  BY <1>5 DEF MenuRight
<1>11. UnknownGetMenu'
  BY <1>4 DEF IInv, OInv, UnknownGetMenu, files
<1> QED BY <1>6, <1>7, <1>8, <1>9, <1>10, <1>11 DEF OInv

\* A machine to be deleted loses its script first.
LEMMA UnlinkStep ==
  ASSUME OneWorker, IInv, NEW w \in Workers, DeleteUnlink(w)
  PROVE  OInv'
<1> USE ProvisioningAssumption, NoFileAssumption
<1>0. \A v \in Workers : v = w
  BY DEF OneWorker
<1>1. doing[w] = "unlink"
  BY DEF DeleteUnlink
<1>2. PICK s \in Snapshot : todo[w] = {s}
  BY <1>1 DEF IInv, OInv, Holds
<1>3. half[w] = NoFile /\ row[s.mac] = s.row /\ s.mac \in Macs
  BY <1>1, <1>2 DEF IInv, OInv, Holds, SessionsCurrent, AsRead, Snapshot
<1>4. /\ ipxe' = [ipxe EXCEPT ![s.mac] = NoFile]
      /\ doing' = [doing EXCEPT ![w] = "delete"]
      /\ UNCHANGED <<row, img, own, images, config, answers, todo, know, half>>
  BY <1>2 DEF DeleteUnlink, Unlinked, Goto, db
<1>5. /\ ipxe'[s.mac] = NoFile /\ doing'[w] = "delete"
      /\ \A n \in Macs : n # s.mac => ipxe'[n] = ipxe[n]
  BY <1>3, <1>4 DEF IInv, TypeOK
<1>6. Holds' /\ HalfRight' /\ MenuRight'
  BY <1>0, <1>2, <1>3, <1>4, <1>5 DEF Holds, HalfRight, MenuRight
<1>7. SessionsCurrent'
  BY <1>4 DEF IInv, OInv, SessionsCurrent, AsRead
<1>8. FilesRight'
  <2> SUFFICES ASSUME NEW n \in Registered'
               PROVE  \/ Pending(w, n)'
                      \/ (img[n] \in Images => ipxe[n] = img[n] /\ Fits(n, answers[n]))'
    BY DEF FilesRight
  <2>1. CASE n = s.mac
    BY <1>2, <1>4, <2>1 DEF Pending
  <2>2. CASE n # s.mac
    <3>1. n \in Macs /\ n \in Registered /\ ~Pending(w, n)
      BY <1>1, <1>2, <1>3, <1>4, <2>2 DEF Registered, Pending
    <3> QED BY <1>0, <1>4, <1>5, <2>2, <3>1 DEF IInv, OInv, FilesRight, Fits
  <2> QED BY <2>1, <2>2
<1>9. UnknownGetMenu'
  BY <1>4, <1>5 DEF IInv, OInv, UnknownGetMenu
<1> QED BY <1>6, <1>7, <1>8, <1>9 DEF OInv

\* A machine is deleted when it has no script.
LEMMA CommitStep ==
  ASSUME OneWorker, IInv, NEW w \in Workers, DeleteCommit(w)
  PROVE  OInv'
<1> USE ProvisioningAssumption, NoFileAssumption
<1>0. \A v \in Workers : v = w
  BY DEF OneWorker
<1>1. PICK s \in Snapshot : todo[w] = {s} /\ ipxe[s.mac] = NoFile
  BY DEF DeleteCommit, IInv, OInv, Holds
<1>2. doing[w] = "delete" /\ half[w] = NoFile /\ row[s.mac] = s.row /\ s.mac \in Macs
  BY <1>1 DEF DeleteCommit, IInv, OInv, Holds, SessionsCurrent, AsRead, Snapshot
<1>3. /\ row' = Deleted(s)
      /\ todo' = [todo EXCEPT ![w] = {}] /\ doing' = [doing EXCEPT ![w] = "menu"]
      /\ UNCHANGED <<img, own, images, config, files, know, half>>
  BY <1>1 DEF DeleteCommit, Goto
<1>4. /\ row'[s.mac] = 0 /\ todo'[w] = {} /\ doing'[w] = "menu" /\ half'[w] = NoFile
      /\ \A n \in Macs : n # s.mac => row'[n] = row[n]
  BY <1>2, <1>3 DEF IInv, TypeOK, Deleted
<1>5. Holds' /\ HalfRight' /\ MenuRight'
  BY <1>0, <1>4 DEF Holds, HalfRight, MenuRight
<1>6. SessionsCurrent'
  BY <1>0, <1>3, <1>4 DEF IInv, OInv, SessionsCurrent
<1>7. FilesRight'
  <2> SUFFICES ASSUME NEW n \in Registered'
               PROVE  (img[n] \in Images => ipxe[n] = img[n] /\ Fits(n, answers[n]))'
    BY DEF FilesRight
  <2>1. n \in Registered /\ n # s.mac
    BY <1>4 DEF Registered
  <2>2. ~Pending(w, n)
    BY <1>1, <1>2, <2>1 DEF Pending
  <2> QED BY <1>0, <1>3, <2>1, <2>2 DEF IInv, OInv, FilesRight, Fits, files
<1>8. UnknownGetMenu'
  BY <1>1, <1>3, <1>4 DEF IInv, OInv, UnknownGetMenu, files
<1> QED BY <1>5, <1>6, <1>7, <1>8 DEF OInv

\* A worker that begins to render everything has nothing else to do.
LEMMA ListStep ==
  ASSUME OneWorker, IInv, NEW w \in Workers,
         doing'[w] = "list", todo'[w] = {}, half'[w] = NoFile,
         UNCHANGED <<row, img, own, images, files>>,
         \A j \in Images : know'[w][j] # Unread => know'[w][j] = config'[j]
  PROVE  OInv'
<1>0. \A v \in Workers : v = w
  BY DEF OneWorker
<1>1. Holds' /\ HalfRight' /\ MenuRight'
  BY <1>0 DEF Holds, HalfRight, MenuRight
<1>2. SessionsCurrent'
  BY <1>0 DEF IInv, OInv, SessionsCurrent
<1>3. FilesRight'
  BY DEF FilesRight, Pending
<1>4. UnknownGetMenu'
  BY DEF IInv, OInv, UnknownGetMenu, files
<1> QED BY <1>1, <1>2, <1>3, <1>4 DEF OInv

\* A render of all, whoever asks for it, will come to every machine.
LEMMA RenderAllStep ==
  ASSUME OneWorker, IInv, NEW w \in Workers,
         Rerender(w) \/ Restart(w) \/ \E i \in Images : ImageSave(w, i)
  PROVE  OInv'
<1> USE ProvisioningAssumption
<1>1. CASE Rerender(w)
  <2>1. doing[w] = "nothing" /\ doing' = [doing EXCEPT ![w] = "list"]
        /\ UNCHANGED <<todo, half, row, img, own, images, files, know, config>>
    BY <1>1 DEF Rerender, Free, Goto, db
  <2>2. doing'[w] = "list" /\ todo'[w] = {} /\ half'[w] = NoFile
    BY <2>1, IdleWorker DEF IInv, TypeOK
  <2> QED BY <2>1, <2>2, ListStep DEF IInv, OInv, SessionsCurrent
<1>2. CASE Restart(w)
  <2>1. /\ doing'[w] = "list" /\ todo'[w] = {} /\ half'[w] = NoFile
        /\ know'[w] = Nothing
        /\ UNCHANGED <<row, img, own, images, files>>
    BY <1>2 DEF Restart, db
  <2>2. \A j \in Images : know'[w][j] = Unread
    BY <2>1 DEF Nothing
  <2> QED BY <2>1, <2>2, ListStep
<1>3. ASSUME NEW i \in Images, ImageSave(w, i) PROVE OInv'
  <2>1. /\ doing[w] = "nothing" /\ doing' = [doing EXCEPT ![w] = "list"]
        /\ config' = [config EXCEPT ![i] = @ + 1]
        /\ know' = [know EXCEPT ![w][i] = config[i] + 1]
        /\ UNCHANGED <<todo, half, row, img, own, images, files>>
    BY <1>3 DEF ImageSave, Free, Goto
  <2>2. doing'[w] = "list" /\ todo'[w] = {} /\ half'[w] = NoFile
    BY <2>1, IdleWorker DEF IInv, TypeOK
  <2>3. \A j \in Images : know'[w][j] # Unread => know'[w][j] = config'[j]
    BY <2>1 DEF IInv, TypeOK, OInv, SessionsCurrent
  <2> QED BY <2>1, <2>2, <2>3, ListStep
<1> QED BY <1>1, <1>2, <1>3

\* The menu is written with the machines of the tables.
LEMMA MenuStep ==
  ASSUME OneWorker, IInv, NEW w \in Workers, RenderMenu(w)
  PROVE  OInv'
<1>0. \A v \in Workers : v = w
  BY DEF OneWorker
<1>1. /\ doing[w] \in {"list", "menu"} /\ menu' = Registered
      /\ UNCHANGED <<row, img, own, images, config, ipxe, answers, todo, half>>
  BY DEF RenderMenu, Listed, db
<1>2. todo[w] = {} /\ half[w] = NoFile
  BY <1>1 DEF IInv, OInv, Holds
<1>3. Registered' = Registered
  BY <1>1 DEF Registered
<1>4. MenuRight' /\ HalfRight' /\ UnknownGetMenu'
  BY <1>0, <1>1, <1>2, <1>3
  DEF MenuRight, HalfRight, UnknownGetMenu, IInv, OInv
<1>5. CASE doing[w] = "list"
  <2>1. doing'[w] = "select" /\ UNCHANGED know
    BY <1>5 DEF RenderMenu, Goto, IInv, TypeOK
  <2>2. Holds'
    BY <1>0, <1>1, <1>2, <2>1 DEF Holds
  <2>3. SessionsCurrent'
    BY <1>0, <1>1, <1>2, <2>1 DEF IInv, OInv, SessionsCurrent
  <2>4. FilesRight'
    BY <2>1 DEF FilesRight, Pending
  <2> QED BY <1>4, <2>2, <2>3, <2>4 DEF OInv
<1>6. CASE doing[w] = "menu"
  <2>1. doing'[w] = "nothing" /\ know'[w] = Nothing
    BY <1>6, FinishedEffect DEF RenderMenu, IInv
  <2>2. Holds'
    BY <1>0, <1>1, <1>2, <2>1 DEF Holds
  <2>3. \A j \in Images : know'[w][j] = Unread
    BY <2>1 DEF Nothing
  <2>4. SessionsCurrent'
    BY <1>0, <1>1, <1>2, <2>3 DEF IInv, OInv, SessionsCurrent
  <2>5. \A n \in Registered : img[n] \in Images => ipxe[n] = img[n] /\ Fits(n, answers[n])
    BY <1>0, <1>2, <1>6 DEF IInv, OInv, FilesRight, Pending
  <2>6. FilesRight'
    BY <1>1, <1>3, <2>5 DEF FilesRight, Fits
  <2> QED BY <1>4, <2>2, <2>4, <2>6 DEF OInv
<1> QED BY <1>1, <1>5, <1>6

\* The session of a render of all reads every machine.
LEMMA SelectStep ==
  ASSUME OneWorker, IInv, NEW w \in Workers, SelectAll(w)
  PROVE  OInv'
<1>0. \A v \in Workers : v = w
  BY DEF OneWorker
<1> DEFINE reads == {Read(m, row[m], img[m], own[m], status[m]) : m \in Registered}
<1>1. /\ doing[w] = "select" /\ todo' = [todo EXCEPT ![w] = reads]
      /\ UNCHANGED <<row, img, own, images, config, ipxe, answers, menu, half>>
  BY DEF SelectAll, db, files
<1>2. half[w] = NoFile /\ menu = Registered
  BY <1>0, <1>1 DEF IInv, OInv, Holds, MenuRight
<1>3. ASSUME NEW m \in Registered
      PROVE  LET s == Read(m, row[m], img[m], own[m], status[m]) IN
             AsRead(s) /\ s.mac = m
  <2>1. m \in Macs /\ img[m] \in Images \cup {NoImage}
    BY DEF Registered, IInv, TypeOK
  <2> QED BY <2>1 DEF Read, AsRead
<1>4. todo'[w] = reads
  BY <1>1 DEF IInv, TypeOK
<1>5. /\ \A s \in todo'[w] : AsRead(s)
      /\ \A m \in Registered : \E s \in todo'[w] : s.mac = m
  BY <1>3, <1>4
<1> HIDE DEF reads
<1>6. Registered' = Registered
  BY <1>1 DEF Registered
<1>7. \A s \in todo'[w] : AsRead(s)'
  BY <1>1, <1>5 DEF AsRead
<1>8. HalfRight' /\ UnknownGetMenu'
  BY <1>0, <1>1, <1>2 DEF HalfRight, UnknownGetMenu, IInv, OInv
<1>9. FilesRight'
  BY <1>5, <1>6 DEF FilesRight, Pending
<1>10. MenuRight'
  BY <1>1, <1>2, <1>6 DEF MenuRight
<1>11. CASE Registered = {}
  <2>1. doing'[w] = "nothing" /\ know'[w] = Nothing
    BY <1>11, FinishedEffect DEF SelectAll, IInv
  <2>2. todo'[w] = {}
    BY <1>4, <1>11 DEF reads
  <2>3. Holds'
    BY <1>0, <1>1, <1>2, <2>1, <2>2 DEF Holds
  <2>4. \A j \in Images : know'[w][j] = Unread
    BY <2>1 DEF Nothing
  <2>5. SessionsCurrent'
    BY <1>0, <1>1, <1>2, <1>7, <2>4 DEF IInv, OInv, SessionsCurrent
  <2> QED BY <1>8, <1>9, <1>10, <2>3, <2>5 DEF OInv
<1>12. CASE Registered # {}
  <2>1. doing'[w] = "all" /\ UNCHANGED know
    BY <1>12 DEF SelectAll, Goto, IInv, TypeOK
  <2>2. Holds'
    BY <1>0, <2>1 DEF Holds
  <2>3. SessionsCurrent'
    BY <1>0, <1>1, <1>2, <1>7, <2>1 DEF IInv, OInv, SessionsCurrent
  <2> QED BY <1>8, <1>9, <1>10, <2>2, <2>3 DEF OInv
<1> QED BY <1>11, <1>12

\* The script that is written is that of the machine's image.
LEMMA ScriptStep ==
  ASSUME OneWorker, IInv, NEW w \in Workers, RenderScript(w)
  PROVE  OInv'
<1> USE ProvisioningAssumption
<1>0. \A v \in Workers : v = w
  BY DEF OneWorker
<1>1. PICK s \in todo[w], a \in Answers \cup {NoFile} :
        LET found == s.img \in Images /\ (s.img \in images \/ know[w][s.img] # Unread) IN
        /\ s \in Snapshot
        /\ doing[w] \in {"one", "all"} /\ half[w] = NoFile
        /\ ipxe' = [ipxe EXCEPT ![s.mac] = IF found THEN s.img ELSE NoImage]
        /\ half'[w] # NoFile /\ half'[w].of = s /\ half'[w].answers = a
        /\ found => /\ a # NoFile /\ a.img = s.img
                    /\ a.option = Effective(Version(w, s.img), s.own)
        /\ todo' = [todo EXCEPT ![w] = @ \ {s}]
        /\ Knows(w, s.img)
        /\ UNCHANGED <<db, answers, menu, target, doing, starting>>
  BY ScriptEffect DEF IInv
<1>2. UNCHANGED <<row, img, own, images, config, answers, menu, doing>>
  BY <1>1 DEF db
<1>3. todo'[w] = todo[w] \ {s}
  BY <1>1 DEF IInv, TypeOK
<1>4. AsRead(s) /\ s.mac \in Macs /\ s.row # 0
  BY <1>1 DEF IInv, OInv, SessionsCurrent, Snapshot
<1>5. img[s.mac] \in Images =>
        /\ s.img = img[s.mac]
        /\ s.img \in Images /\ (s.img \in images \/ know[w][s.img] # Unread)
  BY <1>4 DEF AsRead, IInv, OInv, SessionsCurrent
<1>6. s.img \in Images => Version(w, s.img) = config[s.img]
  BY DEF Version, IInv, OInv, SessionsCurrent
<1>7. Holds'
  BY <1>0, <1>1, <1>2, <1>3 DEF IInv, OInv, Holds
<1>8. SessionsCurrent'
  <2>1. \A r : AsRead(r)' <=> AsRead(r)
    BY <1>2 DEF AsRead
  <2>2. \A j \in Images : know'[w][j] # Unread => know'[w][j] = config'[j]
    BY <1>1, <1>2, KnowsRight
  <2> QED BY <1>0, <1>1, <1>2, <1>3, <1>4, <2>1, <2>2 DEF IInv, OInv, SessionsCurrent
<1>9. HalfRight'
  <2> SUFFICES ASSUME img[s.mac] \in Images
               PROVE  ipxe'[s.mac] = img[s.mac] /\ Fits(s.mac, a)'
    BY <1>0, <1>1, <1>2 DEF HalfRight
  <2>1. ipxe'[s.mac] = img[s.mac]
    BY <1>1, <1>4, <1>5 DEF IInv, TypeOK
  <2>2. a # NoFile /\ a.img = img[s.mac]
    BY <1>1, <1>5
  <2>3. a.option = Effective(config[img[s.mac]], own[s.mac])
    BY <1>1, <1>4, <1>5, <1>6 DEF AsRead
  <2> QED BY <1>2, <2>1, <2>2, <2>3 DEF Fits, Effective
<1>10. FilesRight'
  <2> SUFFICES ASSUME NEW n \in Registered'
               PROVE  \/ Pending(w, n)'
                      \/ (img[n] \in Images => ipxe[n] = img[n] /\ Fits(n, answers[n]))'
    BY DEF FilesRight
  <2>1. n \in Registered
    BY <1>2 DEF Registered
  <2>2. CASE n = s.mac
    BY <1>1, <2>2 DEF Pending
  <2>3. CASE n # s.mac
    <3>1. CASE Pending(w, n)
      BY <1>1, <1>2, <1>3, <2>3, <3>1 DEF Pending
    <3>2. CASE ~Pending(w, n)
      <4>1. img[n] \in Images => ipxe[n] = img[n] /\ Fits(n, answers[n])
        BY <1>0, <2>1, <3>2 DEF IInv, OInv, FilesRight
      <4>2. ipxe'[n] = ipxe[n]
        BY <1>1, <2>1, <2>3 DEF IInv, TypeOK, Registered
      <4> QED BY <1>2, <4>1, <4>2 DEF Fits, Effective
    <3> QED BY <3>1, <3>2
  <2> QED BY <2>2, <2>3
<1>11. MenuRight'
  BY <1>2 DEF IInv, OInv, MenuRight, Registered
<1>12. UnknownGetMenu'
  BY <1>1, <1>2, <1>4 DEF IInv, OInv, UnknownGetMenu, AsRead, TypeOK
<1> QED BY <1>7, <1>8, <1>9, <1>10, <1>11, <1>12 DEF OInv

\* The answers that are written go with the script written before.
LEMMA AnswersStep ==
  ASSUME OneWorker, IInv, NEW w \in Workers, RenderAnswers(w)
  PROVE  OInv'
<1> USE NoFileAssumption
<1>0. \A v \in Workers : v = w
  BY DEF OneWorker
<1>1. PICK s \in Snapshot : half[w] # NoFile /\ half[w].of = s /\ AsRead(s)
  BY DEF RenderAnswers, IInv, OInv, SessionsCurrent, TypeOK, Rendering
<1>2. row[s.mac] = s.row /\ s.mac \in Macs
  BY <1>1 DEF AsRead, Snapshot
<1>3. doing[w] \in {"one", "all"}
  BY <1>0, <1>1 DEF IInv, OInv, Holds
<1>4. /\ answers' = IF half[w].answers = NoFile THEN answers
                    ELSE [answers EXCEPT ![s.mac] = half[w].answers]
      /\ todo' = todo /\ half' = [half EXCEPT ![w] = NoFile]
      /\ IF doing[w] = "all" /\ todo[w] = {} THEN Finished(w)
         ELSE /\ IF doing[w] = "one" THEN Goto(w, "menu") ELSE UNCHANGED doing
              /\ UNCHANGED <<know, starting>>
      /\ UNCHANGED <<row, img, own, images, config, ipxe, menu>>
  BY <1>1, <1>2 DEF RenderAnswers
<1>5. half'[w] = NoFile
  BY <1>4 DEF IInv, TypeOK
<1>6. /\ \A j \in Images : know'[w][j] # Unread => know'[w][j] = config'[j]
      /\ \/ doing[w] = "all" /\ todo[w] = {} /\ doing'[w] = "nothing"
         \/ doing[w] = "one" /\ doing'[w] = "menu"
         \/ doing[w] = "all" /\ doing'[w] = "all"
  <2>1. CASE doing[w] = "all" /\ todo[w] = {}
    <3>1. doing'[w] = "nothing" /\ know'[w] = Nothing
      BY <1>4, <2>1, FinishedEffect DEF IInv
    <3> QED BY <2>1, <3>1 DEF Nothing
  <2>2. CASE ~(doing[w] = "all" /\ todo[w] = {})
    BY <1>3, <1>4, <2>2 DEF IInv, OInv, SessionsCurrent, TypeOK, Goto
  <2> QED BY <2>1, <2>2
<1>7. doing[w] = "one" => todo[w] = {}
  BY <1>1 DEF IInv, OInv, Holds
<1>8. Holds'
  BY <1>0, <1>4, <1>5, <1>6, <1>7 DEF Holds
<1>9. SessionsCurrent'
  <2>1. \A r : AsRead(r)' <=> AsRead(r)
    BY <1>4 DEF AsRead
  <2> QED BY <1>0, <1>4, <1>5, <1>6, <2>1 DEF IInv, OInv, SessionsCurrent
<1>10. HalfRight'
  BY <1>0, <1>5 DEF HalfRight
<1>11. FilesRight'
  <2> SUFFICES ASSUME NEW n \in Registered'
               PROVE  \/ Pending(w, n)'
                      \/ (img[n] \in Images => ipxe[n] = img[n] /\ Fits(n, answers[n]))'
    BY DEF FilesRight
  <2>1. n \in Registered /\ n \in Macs
    BY <1>4 DEF Registered
  <2>2. CASE n = s.mac
    <3>1. img[n] \in Images => ipxe[n] = img[n] /\ Fits(n, half[w].answers)
      BY <1>1, <2>2 DEF IInv, OInv, HalfRight
    <3>2. img[n] \in Images => answers'[n] = half[w].answers
      BY <1>4, <2>1, <2>2, <3>1 DEF IInv, TypeOK, Fits
    <3> QED BY <1>4, <3>1, <3>2 DEF Fits, Effective
  <2>3. CASE n # s.mac
    <3>1. CASE \E r \in todo[w] : r.mac = n
      BY <1>4, <3>1 DEF Pending
    <3>2. CASE ~\E r \in todo[w] : r.mac = n
      <4>1. ~Pending(w, n)
        BY <1>1, <1>3, <2>3, <3>2 DEF Pending
      <4>2. img[n] \in Images => ipxe[n] = img[n] /\ Fits(n, answers[n])
        BY <1>0, <2>1, <4>1 DEF IInv, OInv, FilesRight
      <4>3. answers'[n] = answers[n]
        BY <1>4, <2>1, <2>3 DEF IInv, TypeOK
      <4> QED BY <1>4, <4>2, <4>3 DEF Fits, Effective
    <3> QED BY <3>1, <3>2
  <2> QED BY <2>2, <2>3
<1>12. MenuRight'
  BY <1>0, <1>4, <1>6 DEF IInv, OInv, MenuRight, Registered
<1>13. UnknownGetMenu'
  BY <1>4 DEF IInv, OInv, UnknownGetMenu
<1> QED BY <1>8, <1>9, <1>10, <1>11, <1>12, <1>13 DEF OInv

\* Machines of a deleted image are left out of what is claimed.
LEMMA ImageDeleteStep ==
  ASSUME IInv, NEW i \in Images, ImageDelete(i)
  PROVE  OInv'
<1> USE ProvisioningAssumption
<1>1. /\ images' = images \ {i}
      /\ \A m \in Macs : img'[m] = IF img[m] = i THEN NoImage ELSE img[m]
      /\ UNCHANGED <<row, own, config, ipxe, answers, menu, todo, know, doing, half>>
  BY DEF ImageDelete, files, work
<1>2. \A m \in Macs : img'[m] \in Images => img'[m] = img[m]
  BY <1>1
<1>3. \A s \in Snapshot : AsRead(s) => AsRead(s)'
  BY <1>1 DEF AsRead, Snapshot
<1>4. Holds' /\ MenuRight' /\ UnknownGetMenu'
  BY <1>1 DEF IInv, OInv, Holds, MenuRight, UnknownGetMenu, Registered
<1>5. \A w \in Workers : (\A s \in todo[w] : s \in Snapshot)
                         /\ (half[w] # NoFile => half[w].of \in Snapshot)
  BY DEF IInv, TypeOK, Rendering
<1>6. SessionsCurrent'
  <2>1. \A m \in Macs : img'[m] \in images' \cup {NoImage}
    BY <1>1 DEF IInv, OInv, SessionsCurrent
  <2> QED BY <1>1, <1>3, <1>5, <2>1 DEF IInv, OInv, SessionsCurrent
<1>7. HalfRight'
  <2> SUFFICES ASSUME NEW w \in Workers, half[w] # NoFile, NEW m, m = half[w].of.mac,
                      img'[m] \in Images
               PROVE  ipxe'[m] = img'[m] /\ Fits(m, half[w].answers)'
    BY <1>1 DEF HalfRight
  <2>1. m \in Macs /\ img'[m] = img[m]
    BY <1>2, <1>5 DEF Snapshot
  <2>2. ipxe[m] = img[m] /\ Fits(m, half[w].answers)
    BY <2>1 DEF IInv, OInv, HalfRight
  <2> QED BY <1>1, <2>1, <2>2 DEF Fits, Effective
<1>8. FilesRight'
  <2> SUFFICES ASSUME NEW n \in Registered', img'[n] \in Images,
                      \A w \in Workers : ~Pending(w, n)'
               PROVE  ipxe'[n] = img'[n] /\ Fits(n, answers[n])'
    BY DEF FilesRight
  <2>1. n \in Registered /\ n \in Macs /\ \A w \in Workers : ~Pending(w, n)
    BY <1>1 DEF Registered, Pending
  <2>2. img'[n] = img[n]
    BY <1>2, <2>1
  <2>3. ipxe[n] = img[n] /\ Fits(n, answers[n])
    BY <2>1, <2>2 DEF IInv, OInv, FilesRight
  <2> QED BY <1>1, <2>2, <2>3 DEF Fits, Effective
<1> QED BY <1>4, <1>6, <1>7, <1>8 DEF OInv

\* Tokens, boots and enrollments change nothing that is rendered, but for the tokens.
LEMMA OtherStep ==
  ASSUME IInv, UNCHANGED <<row, img, own, images, config, files, todo, know, doing, half>>
  PROVE  OInv'
BY DEF IInv, OInv, Holds, SessionsCurrent, AsRead, HalfRight, Fits, Effective, FilesRight,
   Pending, MenuRight, UnknownGetMenu, Registered, files

\* Every step keeps the invariant, if one request is handled at a time.
LEMMA StepInv == OneWorker /\ IInv /\ [Next]_vars => IInv'
<1> SUFFICES ASSUME OneWorker, IInv, [Next]_vars PROVE OInv'
  BY TypeStep DEF IInv
<1>1. ASSUME NEW w \in Workers, Handler(w) \/ Restart(w) PROVE OInv'
  BY <1>1, NewStep, EditStep, DeleteReadStep, UnlinkStep, CommitStep, RenderAllStep, MenuStep, SelectStep,
     ScriptStep, AnswersStep DEF Handler
<1>2. ASSUME NEW t \in 1 .. MaxToken, TokenToggle(t) PROVE OInv'
  BY <1>2, OtherStep DEF TokenToggle, db, files, work
<1>3. ASSUME NEW m \in Macs, NetBoot(m) \/ FirstBoot(m) PROVE OInv'
  BY <1>3, OtherStep DEF NetBoot, FirstBoot, db, files, work
<1>4. CASE UNCHANGED vars
  BY <1>4, OtherStep DEF vars, db, files, work
<1> QED BY <1>1, <1>2, <1>3, <1>4, ImageDeleteStep DEF Next

\* The invariant holds in every reachable state.
LEMMA Invariance == ASSUME OneWorker PROVE Spec => []IInv
<1>1. Init => OInv
  BY ProvisioningAssumption DEF Init, OInv, Holds, SessionsCurrent, HalfRight, FilesRight,
     MenuRight, UnknownGetMenu, Registered, Nothing
<1>2. Init => IInv
  BY <1>1, TypeInit DEF IInv
<1> QED BY <1>2, StepInv, PTL DEF Spec

-------------------------------------------------------------------------------

\* When requests are handled one at a time, only registered machines are installed
\* by the network boot.
THEOREM StrayScripts == ASSUME OneWorker PROVE Spec => []UnknownGetMenu
<1>1. IInv => UnknownGetMenu
  BY DEF IInv, OInv
<1> QED BY <1>1, Invariance, PTL

\* When requests are handled one at a time and none is under way, the menu lists the
\* registered machines: also after a stop of the server in the middle of one.
THEOREM MenuIsCurrent == ASSUME OneWorker PROVE Spec => []MenuCurrent
<1>1. IInv => MenuCurrent
  BY DEF IInv, OInv, MenuRight, MenuCurrent, Quiet
<1> QED BY <1>1, Invariance, PTL

\* When requests are handled one at a time and none is under way, every registered
\* machine boots and installs what the tables say now.
THEOREM FilesCurrent == ASSUME OneWorker PROVE Spec => []Current
<1>1. ASSUME IInv, Quiet, NEW m \in Registered, img[m] \in Images
      PROVE  ipxe[m] = img[m] /\ Fits(m, answers[m])
  <2>1. \A w \in Workers : ~Pending(w, m)
    BY <1>1 DEF IInv, OInv, Holds, Quiet, Pending
  <2> QED BY <1>1, <2>1 DEF IInv, OInv, FilesRight
<1>2. IInv => Current
  BY <1>1, ProvisioningAssumption DEF Current, Fits, Effective
<1> QED BY <1>2, Invariance, PTL
===============================================================================
