---------------------------- MODULE AccountsProofs ----------------------------
(***************************************************************************)
(* Theorems about Accounts, for any users, browsers, groups and            *)
(* configurations: local accounts are never touched by the provider, roles *)
(* follow the groups, and how the last administrator can be lost.          *)
(***************************************************************************)
EXTENDS Accounts, FiniteSetTheorems, TLAPS

\* The tables have a row for every id and every browser.
Shape ==
  /\ user \in [Ids -> User \cup {NoUser}]
  /\ request \in [Browsers -> Request \cup {Idle}]

\* No two rows have one username.
Unique == \A i, j \in Rows : user[i].name = user[j].name => i = j

\* A fresh user has the role that the configuration gives its groups.
Mapped ==
  config # Off =>
    \A i \in fresh : user[i].role = MappedRole(config, groups[user[i].name])

\* TypeOK without the counting of names, which follows from Unique.
Typed ==
  /\ lastId \in 0 .. MaxUsers
  /\ \A i \in Rows : i <= lastId
  /\ config \in Configs \cup {Off}
  /\ groups \in [Names -> Claims]
  /\ session \in [Browsers -> 0 .. lastId]
  /\ fresh \subseteq {i \in Rows : user[i].source = "oidc"}

IInv == Shape /\ Typed /\ Unique /\ Mapped

-------------------------------------------------------------------------------
\* The invariant gives the declared types, one row at most per name included.
LEMMA TypeFollows == IInv => TypeOK
<1> SUFFICES ASSUME IInv PROVE TypeOK
  OBVIOUS
<1>1. ASSUME NEW x \in Names PROVE Cardinality(Named(x)) <= 1
  <2>1. CASE Named(x) = {}
    <3>1. Cardinality({}) = 0
      BY FS_EmptySet
    <3> QED BY <2>1, <3>1
  <2>2. ASSUME NEW i \in Named(x) PROVE Cardinality(Named(x)) <= 1
    <3>1. Named(x) = {i}
      BY DEF Named, IInv, Unique
    <3>2. Cardinality({i}) = 1
      BY FS_Singleton
    <3> QED BY <3>1, <3>2
  <2> QED BY <2>1, <2>2
<1>2. /\ \A i \in Ids : user[i] # NoUser => user[i] \in User /\ i <= lastId
      /\ \A b \in Browsers : request[b] # Idle => request[b] \in Request
  BY DEF IInv, Shape, Typed, Rows
<1> QED BY <1>1, <1>2 DEF IInv, Typed, TypeOK

\* The seeded administrator is the only row at first.
LEMMA InitInv == Init => IInv
<1> SUFFICES ASSUME Init PROVE IInv
  OBVIOUS
<1> USE AccountsAssumption, NoUserAssumption
<1>1. Local(Seeded, "admin") \in User /\ 1 \in Ids
  BY DEF Local, User, Roles, Ids
<1>2. Rows = {1} /\ Shape
  BY <1>1 DEF Init, Rows, Shape
<1>3. Typed /\ Unique /\ Mapped
  BY <1>2 DEF Init, Typed, Unique, Mapped
<1> QED BY <1>2, <1>3 DEF IInv

\* What an INSERT does to the rows: nothing, or a row with an id and a name that
\* no row has.
LEMMA InsertEffect ==
  ASSUME IInv, NEW row \in User, Insert(row)
  PROVE  \/ user' = user /\ lastId' = lastId /\ Named(row.name) # {}
         \/ /\ lastId' = lastId + 1 /\ lastId' \in Ids /\ lastId' \notin Rows
            /\ Named(row.name) = {}
            /\ user' \in [Ids -> User \cup {NoUser}]
            /\ user'[lastId'] = row
            /\ \A i \in Ids : i # lastId' => user'[i] = user[i]
            /\ Rows' = Rows \cup {lastId'}
<1> USE AccountsAssumption, NoUserAssumption
<1>1. CASE Named(row.name) = {}
  <2>1. /\ lastId' = lastId + 1 /\ lastId' \in Ids
        /\ user' = [user EXCEPT ![lastId'] = row]
    BY <1>1 DEF Insert, IInv, Typed, Ids
  <2>2. lastId' \notin Rows
    BY <2>1 DEF IInv, Typed
  <2>3. user \in [Ids -> User \cup {NoUser}]
    BY DEF IInv, Shape
  <2>4. /\ user' \in [Ids -> User \cup {NoUser}]
        /\ user'[lastId'] = row
        /\ \A i \in Ids : i # lastId' => user'[i] = user[i]
    BY <2>1, <2>3
  <2>5. Rows' = Rows \cup {lastId'}
    BY <2>1, <2>4 DEF Rows
  <2> QED BY <1>1, <2>1, <2>2, <2>4, <2>5
<1>2. CASE Named(row.name) # {}
  BY <1>2 DEF Insert
<1> QED BY <1>1, <1>2

\* After an INSERT, ids are still in range and names unique.
LEMMA InsertRows ==
  ASSUME IInv, NEW row \in User, Insert(row)
  PROVE  /\ user' \in [Ids -> User \cup {NoUser}]
         /\ lastId' \in 0 .. MaxUsers /\ lastId <= lastId'
         /\ \A i \in Rows' : i <= lastId'
         /\ Unique'
         /\ \A i \in Rows : i \in Rows' /\ user'[i] = user[i]
<1> USE AccountsAssumption
<1>1. CASE user' = user /\ lastId' = lastId
  BY <1>1 DEF IInv, Shape, Typed, Rows, Unique
<1>2. CASE /\ lastId' = lastId + 1 /\ lastId' \in Ids /\ lastId' \notin Rows
           /\ Named(row.name) = {}
           /\ user' \in [Ids -> User \cup {NoUser}]
           /\ user'[lastId'] = row
           /\ \A i \in Ids : i # lastId' => user'[i] = user[i]
           /\ Rows' = Rows \cup {lastId'}
  <2>1. lastId' \in 0 .. MaxUsers /\ lastId <= lastId'
    BY <1>2 DEF IInv, Typed, Ids
  <2>2. \A i \in Rows : i \in Ids /\ i # lastId' /\ i <= lastId /\ user'[i] = user[i]
                        /\ user[i].name # row.name
    BY <1>2 DEF Rows, Named, IInv, Typed
  <2>3. \A i \in Rows' : i <= lastId'
    <3>1. lastId \in Nat /\ \A i \in Rows : i \in Nat
      BY DEF IInv, Typed, Rows, Ids
    <3> QED BY <1>2, <2>2, <3>1
  <2>4. Unique'
    BY <1>2, <2>2 DEF IInv, Unique
  <2> QED BY <1>2, <2>1, <2>2, <2>3, <2>4
<1> QED BY <1>1, <1>2, InsertEffect

-------------------------------------------------------------------------------
\* Steps that leave the users alone, and the sign-ons counted as fresh.
LEMMA SameUsers ==
  ASSUME IInv, UNCHANGED <<user, lastId, config, groups, fresh>>,
         session' \in [Browsers -> 0 .. lastId],
         request' \in [Browsers -> Request \cup {Idle}]
  PROVE  IInv'
BY DEF IInv, Shape, Typed, Unique, Mapped, Rows

\* Requests that begin, and those that change nothing.
LEMMA SessionStep ==
  ASSUME IInv, NEW b \in Browsers,
         \/ \E i \in Ids : Login(b, i) \/ AskDelete(b, i)
         \/ Logout(b) \/ Callback(b) \/ Fail(b)
         \/ \E x \in Names : \E role \in NewRoles : AskNew(b, x, role)
         \/ \E c \in Configs \cup {Off} : AskSave(b, c)
  PROVE  IInv'
<1> USE AccountsAssumption
<1>1. /\ session \in [Browsers -> 0 .. lastId] /\ request \in [Browsers -> Request \cup {Idle}]
      /\ config \in Configs \cup {Off}
  BY DEF IInv, Shape, Typed
<1>2. ASSUME NEW i \in Ids, Login(b, i) PROVE IInv'
  <2>1. i \in 0 .. lastId
    BY <1>2 DEF Login, IInv, Typed, Ids
  <2>2. session' \in [Browsers -> 0 .. lastId]
    BY <1>1, <1>2, <2>1 DEF Login
  <2> QED BY <1>1, <1>2, <2>2, SameUsers DEF Login
<1>3. CASE Logout(b)
  <2>1. session' \in [Browsers -> 0 .. lastId]
    BY <1>1, <1>3 DEF Logout, IInv, Typed
  <2> QED BY <1>1, <1>3, <2>1, SameUsers DEF Logout
<1>4. CASE Fail(b)
  <2>1. request' \in [Browsers -> Request \cup {Idle}]
    BY <1>1, <1>4 DEF Fail, Respond
  <2> QED BY <1>1, <1>4, <2>1, SameUsers DEF Fail
<1>5. ASSUME NEW what \in Request, request' = [request EXCEPT ![b] = what],
             UNCHANGED <<user, lastId, config, groups, session, fresh>>
      PROVE  IInv'
  <2>1. request' \in [Browsers -> Request \cup {Idle}]
    BY <1>1, <1>5
  <2> QED BY <1>1, <1>5, <2>1, SameUsers
<1>6. CASE Callback(b)
  <2>1. [act |-> "callback", config |-> config] \in Request
    BY <1>1, <1>6 DEF Callback, Request
  <2> QED BY <1>5, <1>6, <2>1 DEF Callback
<1>7. ASSUME NEW i \in Ids, AskDelete(b, i) PROVE IInv'
  <2>1. session[b] \in Ids
    BY <1>7 DEF AskDelete, Ask, Authorised, Administrators, Rows
  <2>2. [act |-> "delete", actor |-> session[b], target |-> i] \in Request
    BY <2>1 DEF Request
  <2> QED BY <1>5, <1>7, <2>2 DEF AskDelete, Ask
<1>8. ASSUME NEW x \in Names, NEW role \in NewRoles, AskNew(b, x, role) PROVE IInv'
  <2>1. [act |-> "new", name |-> x, role |-> role] \in Request
    BY DEF Request
  <2> QED BY <1>5, <1>8, <2>1 DEF AskNew, Ask
<1>9. ASSUME NEW c \in Configs \cup {Off}, AskSave(b, c) PROVE IInv'
  <2>1. [act |-> "save", config |-> c] \in Request
    BY DEF Request
  <2> QED BY <1>5, <1>9, <2>1 DEF AskSave, Ask
<1> QED BY <1>2, <1>3, <1>4, <1>6, <1>7, <1>8, <1>9

-------------------------------------------------------------------------------
\* Where a fresh user keeps its name and groups, it keeps its place.
LEMMA FreshKept ==
  ASSUME IInv, \A i \in fresh' : i \in fresh /\ i \in Rows' /\ user'[i] = user[i],
         UNCHANGED <<config, groups>>
  PROVE  fresh' \subseteq {i \in Rows' : user'[i].source = "oidc"} /\ Mapped'
BY DEF IInv, Typed, Mapped, MappedRole

\* A row is inserted by an administrator or by a start.
LEMMA InsertStep ==
  ASSUME IInv, NEW row \in User, Insert(row),
         request' \in [Browsers -> Request \cup {Idle}],
         UNCHANGED <<config, groups, session, fresh>>
  PROVE  IInv'
<1> USE AccountsAssumption
<1>1. /\ user' \in [Ids -> User \cup {NoUser}]
      /\ lastId' \in 0 .. MaxUsers /\ lastId <= lastId'
      /\ \A i \in Rows' : i <= lastId'
      /\ Unique'
      /\ \A i \in Rows : i \in Rows' /\ user'[i] = user[i]
  BY InsertRows
<1>2. session' \in [Browsers -> 0 .. lastId']
  <2>1. session \in [Browsers -> 0 .. lastId] /\ lastId \in Nat
    BY DEF IInv, Typed
  <2> QED BY <1>1, <2>1
<1>3. fresh' \subseteq {i \in Rows' : user'[i].source = "oidc"} /\ Mapped'
  <2>1. \A i \in fresh' : i \in fresh /\ i \in Rows' /\ user'[i] = user[i]
    BY <1>1 DEF IInv, Typed
  <2> QED BY <2>1, FreshKept
<1>4. Shape' /\ Typed'
  BY <1>1, <1>2, <1>3 DEF IInv, Shape, Typed
<1> QED BY <1>1, <1>3, <1>4 DEF IInv

\* A new local user has a name that nobody has, or is an error.
LEMMA UserNewStep ==
  ASSUME IInv, NEW b \in Browsers, UserNew(b)
  PROVE  IInv'
<1>1. request[b] \in Request /\ request[b].act = "new"
  BY DEF UserNew, Asked, IInv, Shape
<1>2. Local(request[b].name, request[b].role) \in User
  BY <1>1, AccountsAssumption DEF Request, Local, User, Roles
<1>3. request' \in [Browsers -> Request \cup {Idle}]
  BY DEF UserNew, Respond, IInv, Shape
<1> QED BY <1>2, <1>3, InsertStep DEF UserNew

\* The administrator is seeded only when nobody has the name.
LEMMA RestartStep ==
  ASSUME IInv, Restart
  PROVE  IInv'
<1>1. Local(Seeded, "admin") \in User
  BY AccountsAssumption DEF Local, User, Roles
<1>2. request' \in [Browsers -> Request \cup {Idle}]
  BY DEF Restart
<1> QED BY <1>1, <1>2, InsertStep DEF Restart

\* A deleted user leaves fresh with its row.
LEMMA UserDeleteStep ==
  ASSUME IInv, NEW b \in Browsers, UserDelete(b)
  PROVE  IInv'
<1> DEFINE D == Deletable(request[b])
<1>1. /\ user' = [i \in Ids |-> IF i \in D THEN NoUser ELSE user[i]]
      /\ fresh' = fresh \ D
      /\ UNCHANGED <<lastId, config, groups, session>>
      /\ request' \in [Browsers -> Request \cup {Idle}]
  BY DEF UserDelete, Respond, IInv, Shape
<1> HIDE DEF D
<1>2. \A i \in Ids : i \in Rows' <=> i \in Rows /\ i \notin D
  BY <1>1 DEF Rows
<1>3. \A i \in Rows' : i \in Rows /\ i \in Ids /\ user'[i] = user[i]
  BY <1>1, <1>2 DEF Rows
<1>4. Shape' /\ Unique'
  BY <1>1, <1>3 DEF IInv, Shape, Unique
<1>5. fresh' \subseteq {i \in Rows' : user'[i].source = "oidc"} /\ Mapped'
  <2>1. \A i \in fresh' : i \in fresh /\ i \in Rows' /\ user'[i] = user[i]
    BY <1>1, <1>2, <1>3 DEF IInv, Typed, Rows
  <2> QED BY <1>1, <2>1, FreshKept
<1>6. Typed'
  BY <1>1, <1>3, <1>5 DEF IInv, Typed
<1> QED BY <1>4, <1>5, <1>6 DEF IInv

\* A configuration that changes leaves nobody fresh.
LEMMA SaveStep ==
  ASSUME IInv, NEW b \in Browsers, SaveOidc(b)
  PROVE  IInv'
<1>1. request[b] \in Request /\ request[b].act = "save"
  BY DEF SaveOidc, Asked, IInv, Shape
<1>2. request[b].config \in Configs \cup {Off}
  BY <1>1 DEF Request
<1>3. /\ config' \in Configs \cup {Off} /\ fresh' = (IF config' = config THEN fresh ELSE {})
      /\ UNCHANGED <<user, lastId, groups, session>>
      /\ request' \in [Browsers -> Request \cup {Idle}]
  BY <1>2 DEF SaveOidc, Respond, IInv, Shape
<1>4. Shape' /\ Unique'
  BY <1>3 DEF IInv, Shape, Unique, Rows
<1>5. fresh' \subseteq fresh
  BY <1>3
<1>6. Typed'
  BY <1>3, <1>5 DEF IInv, Typed, Rows
<1>7. Mapped'
  BY <1>3 DEF IInv, Mapped
<1> QED BY <1>4, <1>6, <1>7 DEF IInv

\* A user whose groups change at the provider is not fresh any more.
LEMMA GroupsStep ==
  ASSUME IInv, NEW x \in Names, NEW gs \in Claims, GroupsChange(x, gs)
  PROVE  IInv'
<1>1. /\ groups' = [groups EXCEPT ![x] = gs] /\ fresh' = fresh \ Named(x)
      /\ UNCHANGED <<user, lastId, config, session, request>>
  BY DEF GroupsChange
<1>2. Shape' /\ Unique'
  BY <1>1 DEF IInv, Shape, Unique, Rows
<1>3. groups' \in [Names -> Claims] /\ fresh' \subseteq fresh
  BY <1>1 DEF IInv, Typed
<1>4. Typed'
  BY <1>1, <1>3 DEF IInv, Typed, Rows
<1>5. Mapped'
  <2>1. \A i \in fresh' : user[i].name # x
    BY <1>1 DEF Named, IInv, Typed
  <2>2. \A i \in fresh' : groups'[user[i].name] = groups[user[i].name]
    BY <1>1, <2>1 DEF IInv, Typed
  <2> QED BY <1>1, <1>3, <2>2 DEF IInv, Mapped, MappedRole
<1> QED BY <1>2, <1>4, <1>5 DEF IInv

-------------------------------------------------------------------------------
\* What a sign-on of the provider's user x does to the rows: nothing, when a local
\* user has the name; else the one row of that name, found or made, has the role
\* of the groups, and the session is its.
LEMMA SignInEffect ==
  ASSUME IInv, NEW b \in Browsers, NEW x \in Names, SignIn(b, x)
  PROVE  /\ request' = [request EXCEPT ![b] = Idle] /\ Asked(b, "callback")
         /\ UNCHANGED <<config, groups>>
         /\ \/ UNCHANGED <<user, lastId, session, fresh>>
            \/ \E k \in Ids :
                 /\ user' \in [Ids -> User \cup {NoUser}]
                 /\ user'[k] = [name |-> x, source |-> "oidc",
                                role |-> MappedRole(request[b].config, groups[x])]
                 /\ user'[k] \in User
                 /\ \A i \in Ids : i # k => user'[i] = user[i]
                 /\ \/ k \in Rows /\ Named(x) = {k} /\ user[k].source = "oidc"
                    \/ k \notin Rows /\ Named(x) = {}
                 /\ lastId' \in 0 .. MaxUsers /\ lastId <= lastId'
                 /\ \A i \in Rows' : i <= lastId'
                 /\ session' = [session EXCEPT ![b] = k]
                 /\ fresh' = IF request[b].config = config THEN fresh \cup {k} ELSE fresh \ {k}
<1> USE AccountsAssumption, NoUserAssumption
<1> DEFINE c == request[b].config
           row == [name |-> x, source |-> "oidc", role |-> MappedRole(c, groups[x])]
           mine == {i \in Ids : user'[i] # NoUser /\ user'[i].name = x}
<1>1. /\ request' = [request EXCEPT ![b] = Idle] /\ Asked(b, "callback")
      /\ UNCHANGED <<config, groups>>
  BY DEF SignIn, Respond, Asked
<1>2. c \in Configs
  BY <1>1 DEF Asked, IInv, Shape, Request
<1>3. row \in User
  <2>1. MappedRole(c, groups[x]) \in Roles
    BY <1>2 DEF MappedRole, Roles
  <2> HIDE DEF c
  <2> QED BY <2>1 DEF User
<1> HIDE DEF c
<1>4. ASSUME NEW k \in Ids, user'[k] = row,
             \A i \in Ids : i # k => user'[i] = user[i],
             Named(x) \subseteq {k}
      PROVE  mine = {k} /\ (CHOOSE i \in mine : TRUE) = k
  <2>1. \A i \in Ids : i # k => i \notin mine
    BY <1>4 DEF Named, Rows
  <2>2. k \in mine
    BY <1>3, <1>4
  <2>3. mine = {k}
    BY <2>1, <2>2
  <2> HIDE DEF mine
  <2> QED BY <2>3
<1>5. ASSUME Account(x) # {} \/ Named(x) = {}
      PROVE  /\ session' = [session EXCEPT ![b] = CHOOSE i \in mine : TRUE]
             /\ fresh' = IF c = config THEN fresh \cup mine ELSE fresh \ mine
  BY <1>5 DEF SignIn, c
<1>6. user \in [Ids -> User \cup {NoUser}]
  BY DEF IInv, Shape
<1> HIDE DEF row, mine
<1>7. ASSUME NEW k \in Account(x)
      PROVE  /\ k \in Rows /\ Named(x) = {k} /\ user[k].source = "oidc"
             /\ UNCHANGED lastId /\ user'[k] = row
             /\ user' \in [Ids -> User \cup {NoUser}]
             /\ \A i \in Ids : i # k => user'[i] = user[i]
             /\ \A i \in Rows' : i <= lastId'
  <2>1. k \in Rows /\ k \in Ids /\ user[k].name = x /\ user[k].source = "oidc"
        /\ user[k] \in User
    BY <1>6 DEF Account, Named, Rows
  <2>2. Named(x) = {k}
    BY <2>1 DEF Named, IInv, Unique
  <2>3. Account(x) = {k}
    BY <2>1, <2>2 DEF Account
  <2>4. /\ user' = [i \in Ids |-> IF i = k THEN [user[i] EXCEPT !.role = MappedRole(c, groups[x])]
                                 ELSE user[i]]
        /\ UNCHANGED lastId
    BY <2>3 DEF SignIn, c
  <2>5. user'[k] = row
    BY <2>1, <2>4 DEF row, User
  <2>6. user' \in [Ids -> User \cup {NoUser}] /\ \A i \in Ids : i # k => user'[i] = user[i]
    BY <1>3, <1>6, <2>1, <2>4, <2>5
  <2>7. \A i \in Rows' : i <= lastId'
    BY <2>1, <2>4, <2>6 DEF Rows, IInv, Typed
  <2> QED BY <2>1, <2>2, <2>4, <2>5, <2>6, <2>7
<1>8. CASE Account(x) # {}
  <2>1. PICK k : k \in Account(x)
    BY <1>8
  <2>2. k \in Ids /\ lastId \in 0 .. MaxUsers /\ lastId \in Nat
    BY <1>7, <2>1 DEF Rows, IInv, Typed
  <2>3. mine = {k} /\ (CHOOSE i \in mine : TRUE) = k
    BY <1>4, <1>7, <2>1, <2>2
  <2>4. /\ session' = [session EXCEPT ![b] = k]
        /\ fresh' = IF c = config THEN fresh \cup {k} ELSE fresh \ {k}
    BY <1>5, <1>8, <2>3
  <2>5. /\ k \in Rows /\ Named(x) = {k} /\ user[k].source = "oidc"
        /\ user'[k] = row /\ user' \in [Ids -> User \cup {NoUser}]
        /\ \A i \in Ids : i # k => user'[i] = user[i]
        /\ \A i \in Rows' : i <= lastId'
        /\ lastId' \in 0 .. MaxUsers /\ lastId <= lastId'
    BY <1>7, <2>1, <2>2
  <2>6. user'[k] \in User
    BY <1>3, <2>5
  <2> QED BY <1>1, <2>2, <2>4, <2>5, <2>6 DEF row, c
<1>9. CASE Account(x) = {}
  <2>1. Insert(row) /\ row.name = x
    BY <1>9 DEF SignIn, row, c
  <2>2. CASE Named(x) # {}
    <3>1. UNCHANGED <<user, lastId, session, fresh>>
      BY <1>9, <2>1, <2>2 DEF SignIn, Insert
    <3> QED BY <1>1, <3>1
  <2>3. CASE Named(x) = {}
    <3>1. /\ lastId' \in Ids /\ lastId' \notin Rows
          /\ user' \in [Ids -> User \cup {NoUser}]
          /\ user'[lastId'] = row
          /\ \A i \in Ids : i # lastId' => user'[i] = user[i]
      BY <1>3, <2>1, <2>3, InsertEffect
    <3>2. /\ lastId' \in 0 .. MaxUsers /\ lastId <= lastId'
          /\ \A i \in Rows' : i <= lastId'
      BY <1>3, <2>1, InsertRows
    <3>3. mine = {lastId'} /\ (CHOOSE i \in mine : TRUE) = lastId'
      BY <1>4, <2>3, <3>1
    <3>4. /\ session' = [session EXCEPT ![b] = lastId']
          /\ fresh' = IF c = config THEN fresh \cup {lastId'} ELSE fresh \ {lastId'}
      BY <1>5, <2>3, <3>3
    <3> QED BY <1>1, <1>3, <2>3, <3>1, <3>2, <3>4 DEF row, c
  <2> QED BY <2>2, <2>3
<1> QED BY <1>8, <1>9

\* A sign-in writes the row of an OIDC user, a new one's too, or none.
LEMMA SignInStep ==
  ASSUME IInv, NEW b \in Browsers, NEW x \in Names, SignIn(b, x)
  PROVE  IInv'
<1> USE AccountsAssumption, NoUserAssumption
<1>1. /\ request' \in [Browsers -> Request \cup {Idle}]
      /\ UNCHANGED <<config, groups>>
  BY SignInEffect DEF IInv, Shape
<1>2. CASE UNCHANGED <<user, lastId, session, fresh>>
  BY <1>1, <1>2, SameUsers DEF IInv, Typed
<1>3. ASSUME NEW k \in Ids,
             user' \in [Ids -> User \cup {NoUser}],
             user'[k] = [name |-> x, source |-> "oidc",
                         role |-> MappedRole(request[b].config, groups[x])],
             user'[k] \in User,
             \A i \in Ids : i # k => user'[i] = user[i],
             \/ k \in Rows /\ Named(x) = {k} /\ user[k].source = "oidc"
             \/ k \notin Rows /\ Named(x) = {},
             lastId' \in 0 .. MaxUsers, lastId <= lastId',
             \A i \in Rows' : i <= lastId',
             session' = [session EXCEPT ![b] = k],
             fresh' = IF request[b].config = config THEN fresh \cup {k} ELSE fresh \ {k}
      PROVE  IInv'
  <2>1. k \in Rows' /\ \A i \in Ids : i # k => (i \in Rows' <=> i \in Rows)
    BY <1>3 DEF Rows
  <2>2. \A i \in Rows' : i # k => i \in Ids /\ i \in Rows /\ user'[i] = user[i]
                                  /\ user[i].name # x
    BY <1>3, <2>1 DEF Rows, Named
  <2>3. Unique'
    BY <1>3, <2>1, <2>2 DEF IInv, Unique
  <2>4. Shape'
    BY <1>1, <1>3 DEF Shape
  <2>5. session' \in [Browsers -> 0 .. lastId']
    <3>1. session \in [Browsers -> 0 .. lastId] /\ lastId \in Nat
      BY DEF IInv, Typed
    <3>2. k \in 0 .. lastId'
      BY <1>3, <2>1 DEF Ids
    <3>3. \A a \in Browsers : session'[a] \in 0 .. lastId'
      BY <1>3, <3>1, <3>2
    <3> QED BY <1>3, <3>1, <3>3
  <2>6. \A i \in fresh' : i = k \/ (i \in fresh /\ i \in Rows' /\ user'[i] = user[i])
    BY <1>3, <2>1 DEF IInv, Typed, Rows
  <2>7. Typed'
    <3>1. fresh' \subseteq {i \in Rows' : user'[i].source = "oidc"}
      BY <1>3, <2>1, <2>6 DEF IInv, Typed
    <3> QED BY <1>1, <1>3, <2>5, <3>1 DEF IInv, Typed
  <2>8. Mapped'
    <3> SUFFICES ASSUME config # Off, NEW i \in fresh'
                 PROVE  user'[i].role = MappedRole(config, groups[user'[i].name])
      BY <1>1 DEF Mapped, MappedRole
    <3>1. CASE i = k
      <4>1. request[b].config = config
        BY <1>3, <3>1
      <4> QED BY <1>3, <3>1, <4>1
    <3>2. CASE i # k
      BY <2>6, <3>2 DEF IInv, Mapped
    <3> QED BY <3>1, <3>2
  <2> QED BY <2>3, <2>4, <2>7, <2>8 DEF IInv
<1> QED BY <1>2, <1>3, SignInEffect

-------------------------------------------------------------------------------
\* Every step keeps the invariant.
LEMMA StepInv == IInv /\ [Next]_vars => IInv'
<1> SUFFICES ASSUME IInv, [Next]_vars PROVE IInv'
  OBVIOUS
<1>1. CASE UNCHANGED vars
  BY <1>1, SameUsers DEF vars, IInv, Shape, Typed
<1>2. ASSUME NEW b \in Browsers, Browser(b) PROVE IInv'
  BY <1>2, SessionStep, SignInStep, UserNewStep, UserDeleteStep, SaveStep DEF Browser
<1> QED BY <1>1, <1>2, RestartStep, GroupsStep DEF Next

\* The invariant holds in every reachable state.
LEMMA Invariance == Spec => []IInv
BY InitInv, StepInv, PTL DEF Spec

\* Rows, sessions and requests stay what they are declared to be: no two rows of
\* one name, no session of an id that was never given out.
THEOREM TypeCorrect == Spec => []TypeOK
BY Invariance, TypeFollows, PTL

\* A user whose groups and configuration are those of its last sign-on has the
\* role they give, whatever sign-ons, saves and deletions overlap.
THEOREM RolesFollowGroups == Spec => []RoleFollowsGroups
<1>1. IInv => RoleFollowsGroups
  BY DEF IInv, Mapped, MappedRole, RoleFollowsGroups
<1> QED BY <1>1, Invariance, PTL

\* What a step does to a row: it stays, or a sign-on of its OIDC user gives it a
\* role, or an administrator's request deletes it.
LEMMA RowStep ==
  ASSUME IInv, Next, NEW i \in Rows
  PROVE  \/ user'[i] = user[i]
         \/ \E b \in Browsers : /\ Asked(b, "callback") /\ request'[b] = Idle
                                /\ user[i].source = "oidc"
         \/ \E b \in Browsers : /\ Asked(b, "delete") /\ request'[b] = Idle
                                /\ UserDelete(b) /\ request[b].target = i
                                /\ request[b].actor # i
<1> USE AccountsAssumption
<1>1. i \in Ids /\ request \in [Browsers -> Request \cup {Idle}]
  BY DEF Rows, IInv, Shape
<1>2. CASE UNCHANGED user
  BY <1>2
<1>3. ASSUME NEW row \in User, Insert(row) PROVE user'[i] = user[i]
  BY <1>3, InsertRows
<1>4. ASSUME NEW b \in Browsers, UserNew(b) PROVE user'[i] = user[i]
  <2>1. request[b] \in Request /\ request[b].act = "new"
    BY <1>1, <1>4 DEF UserNew, Asked
  <2>2. Local(request[b].name, request[b].role) \in User
    BY <2>1 DEF Request, Local, User, Roles
  <2> QED BY <1>3, <1>4, <2>2 DEF UserNew
<1>5. CASE Restart
  <2>1. Local(Seeded, "admin") \in User
    BY DEF Local, User, Roles
  <2> QED BY <1>3, <1>5, <2>1 DEF Restart
<1>6. ASSUME NEW b \in Browsers, NEW x \in Names, SignIn(b, x)
      PROVE  \/ user'[i] = user[i]
             \/ /\ Asked(b, "callback") /\ request'[b] = Idle /\ user[i].source = "oidc"
  <2> DEFINE Effect(k) ==
        /\ \A j \in Ids : j # k => user'[j] = user[j]
        /\ \/ k \in Rows /\ Named(x) = {k} /\ user[k].source = "oidc"
           \/ k \notin Rows /\ Named(x) = {}
  <2>0. /\ request' = [request EXCEPT ![b] = Idle] /\ Asked(b, "callback")
        /\ UNCHANGED user \/ \E k \in Ids : Effect(k)
    BY <1>6, SignInEffect
  <2>1. request'[b] = Idle /\ Asked(b, "callback")
    BY <1>1, <2>0
  <2>3. ASSUME NEW k \in Ids, Effect(k)
        PROVE  user'[i] = user[i] \/ user[i].source = "oidc"
    BY <1>1, <2>3
  <2> QED BY <2>0, <2>1, <2>3
<1>7. ASSUME NEW b \in Browsers, UserDelete(b)
      PROVE  \/ user'[i] = user[i]
             \/ /\ Asked(b, "delete") /\ request'[b] = Idle
                /\ request[b].target = i /\ request[b].actor # i
  BY <1>1, <1>7 DEF UserDelete, Respond, Deletable
<1>8. ASSUME NEW b \in Browsers, Browser(b)
      PROVE  \/ UNCHANGED user \/ UserNew(b) \/ UserDelete(b)
             \/ \E x \in Names : SignIn(b, x)
  BY <1>8 DEF Browser, Login, Logout, Callback, Fail, AskNew, AskDelete, AskSave, Ask, SaveOidc
<1>9. UNCHANGED user \/ Restart \/ \E b \in Browsers : Browser(b)
  BY DEF Next, GroupsChange
<1> QED BY <1>2, <1>4, <1>5, <1>6, <1>7, <1>8, <1>9

\* A local account stays as it is until an administrator's request deletes it, and
\* a sign-on at the provider never opens a session of it.
THEOREM LocalAccountsKept == Spec => LocalKept
<1> DEFINE Step == \A i \in Rows : user[i].source = "local" =>
              /\ \/ user'[i] = user[i]
                 \/ \E b \in Browsers : Asked(b, "delete") /\ request[b].target = i
              /\ \A b \in Browsers :
                   session[b] # i /\ session'[b] = i => ~Asked(b, "callback")
<1>1. IInv /\ [Next]_vars => [Step]_vars
  <2> SUFFICES ASSUME IInv, Next, NEW i \in Rows, user[i].source = "local"
               PROVE  /\ \/ user'[i] = user[i]
                         \/ \E b \in Browsers : Asked(b, "delete") /\ request[b].target = i
                      /\ \A b \in Browsers :
                           session[b] # i /\ session'[b] = i => ~Asked(b, "callback")
    OBVIOUS
  <2>1. \/ user'[i] = user[i]
        \/ \E b \in Browsers : Asked(b, "delete") /\ request[b].target = i
    BY RowStep
  <2>2. ASSUME NEW b \in Browsers, session[b] # i, session'[b] = i, Asked(b, "callback")
        PROVE  FALSE
    <3>1. session \in [Browsers -> 0 .. lastId]
      BY DEF IInv, Typed
    <3>2. ASSUME NEW a \in Browsers, Browser(a), session' # session
          PROVE  \/ \E j \in Ids : Login(a, j)
                 \/ Logout(a) \/ \E x \in Names : SignIn(a, x)
      BY <3>2 DEF Browser, Callback, Fail, AskNew, AskDelete, AskSave, Ask, UserNew,
         UserDelete, SaveOidc
    <3>3. PICK a \in Browsers : \/ \E j \in Ids : Login(a, j)
                                \/ Logout(a) \/ \E x \in Names : SignIn(a, x)
      BY <2>2, <3>2 DEF Next, Restart, GroupsChange
    <3>4. ASSUME NEW j \in Ids, Login(a, j) \/ Logout(a) PROVE FALSE
      BY <2>2, <3>1, <3>4 DEF Login, Logout, Asked
    <3>5. ASSUME NEW x \in Names, SignIn(a, x) PROVE FALSE
      <4>1. PICK k \in Ids : /\ session' = [session EXCEPT ![a] = k]
                             /\ \/ k \in Rows /\ user[k].source = "oidc"
                                \/ k \notin Rows
        BY <2>2, <3>5, SignInEffect
      <4>2. k # i
        BY <4>1
      <4> QED BY <2>2, <3>1, <4>1, <4>2
    <3>6. CASE Logout(a)
      BY <2>2, <3>1, <3>6 DEF Logout, Asked, Rows, Ids
    <3> QED BY <3>3, <3>4, <3>5, <3>6
  <2> QED BY <2>1, <2>2
<1>2. [][Step]_vars => LocalKept
  BY DEF LocalKept
<1> QED BY <1>1, <1>2, Invariance, PTL DEF Spec

\* The last administrator is lost only to the provider, or to a deletion whose
\* author is no administrator any more.
THEOREM LastAdministrator == Spec => AdministratorRemains
<1> DEFINE Step == Administrators # {} /\ Administrators' = {} =>
              \E b \in Browsers :
                /\ request'[b] = Idle
                /\ \/ Asked(b, "callback")
                   \/ Asked(b, "delete") /\ request[b].actor \notin Administrators
<1>1. IInv /\ [Next]_vars => [Step]_vars
  <2> SUFFICES ASSUME IInv, Next, NEW i \in Administrators, Administrators' = {}
               PROVE  \E b \in Browsers :
                        /\ request'[b] = Idle
                        /\ \/ Asked(b, "callback")
                           \/ Asked(b, "delete") /\ request[b].actor \notin Administrators
    OBVIOUS
  <2>1. ASSUME NEW j \in Administrators PROVE user'[j] # user[j]
    BY <2>1 DEF Administrators, Rows
  <2>2. i \in Rows /\ Administrators \subseteq Rows
    BY DEF Administrators
  <2>3. CASE \E b \in Browsers : Asked(b, "callback") /\ request'[b] = Idle
    BY <2>3
  <2>4. ASSUME NEW b \in Browsers, Asked(b, "delete"), request'[b] = Idle, UserDelete(b)
        PROVE  request[b].actor \notin Administrators
    <3> SUFFICES ASSUME request[b].actor \in Administrators PROVE FALSE
      OBVIOUS
    <3>1. request[b].actor \in Ids
      BY DEF Administrators, Rows
    <3>2. user'[request[b].actor] = user[request[b].actor]
      BY <2>4, <3>1 DEF UserDelete, Deletable
    <3> QED BY <2>1, <3>2
  <2> QED BY <2>1, <2>2, <2>3, <2>4, RowStep
<1>2. [][Step]_vars => AdministratorRemains
  BY DEF AdministratorRemains
<1> QED BY <1>1, <1>2, Invariance, PTL DEF Spec
===============================================================================
