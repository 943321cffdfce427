------------------------------- MODULE Accounts -------------------------------
(***************************************************************************)
(* Accounts: local users and those of an OIDC provider, the sessions that  *)
(* name them, and the pages of the administrators (auth.py,                *)
(* routers/authn.py, routers/settings_ui.py, seed.py).  A request is first *)
(* authorised, or reads the OIDC configuration, and has its effect later,  *)
(* when other requests may have changed what it read.                      *)
(***************************************************************************)
EXTENDS Naturals, FiniteSets

CONSTANTS
  Names,    \* User.username
  Seeded,   \* ADMIN_USERNAME
  Browsers, \* each with a session cookie and at most one request under way
  Groups,   \* groups at the provider
  Claims,   \* the sets of groups a user may have there
  NewRoles, \* roles given to new local users
  Unset,    \* a group field left empty
  Configs,  \* OIDC configurations an administrator may save
  Off,      \* no OIDC configuration
  MaxUsers, \* bound: rows ever inserted into users
  NoUser, Idle

ASSUME AccountsAssumption ==
  /\ Seeded \in Names /\ Unset \notin Groups
  /\ Configs \subseteq [admin : Groups \cup {Unset}, operator : Groups \cup {Unset},
                        default : {"viewer", "operator", "admin"}]
  /\ Claims \subseteq SUBSET Groups
  /\ NewRoles \subseteq {"viewer", "operator", "admin"}
  /\ MaxUsers \in Nat \ {0}

Roles == {"viewer", "operator", "admin"}
Ids   == 1 .. MaxUsers
User  == [name : Names, source : {"local", "oidc"}, role : Roles]

ASSUME NoUserAssumption == NoUser \notin User

VARIABLES
  user,    \* user[i]: the row with id i, or NoUser
  lastId,  \* the ids given out are 1 .. lastId
  config,  \* Setting "oidc"
  groups,  \* groups[x]: groups of the provider's user x
  session, \* session[b]: uid in the cookie of b, 0 without one
  request, \* request[b]: what b's request will do and has read, or Idle
  fresh    \* history: the OIDC users whose groups and whose configuration have
           \* not changed since they signed in

vars == <<user, lastId, config, groups, session, request, fresh>>

Rows == {i \in Ids : user[i] # NoUser}
Named(x) == {i \in Rows : user[i].name = x}
Administrators == {i \in Rows : user[i].role = "admin"}

Request ==
  [act : {"new"}, name : Names, role : NewRoles]
    \cup [act : {"delete"}, actor : Ids, target : Ids]
    \cup [act : {"save"}, config : Configs \cup {Off}]
    \cup [act : {"callback"}, config : Configs]

TypeOK ==
  /\ lastId \in 0 .. MaxUsers
  /\ \A i \in Ids : user[i] # NoUser => user[i] \in User /\ i <= lastId
  /\ \A x \in Names : Cardinality(Named(x)) <= 1
  /\ config \in Configs \cup {Off}
  /\ groups \in [Names -> Claims]
  /\ session \in [Browsers -> 0 .. lastId]
  /\ \A b \in Browsers : request[b] # Idle => request[b] \in Request
  /\ fresh \subseteq {i \in Rows : user[i].source = "oidc"}

Local(x, role) == [name |-> x, source |-> "local", role |-> role]

\* The first start: seed() has made the administrator.
Init ==
  /\ user = [i \in Ids |-> IF i = 1 THEN Local(Seeded, "admin") ELSE NoUser]
  /\ lastId = 1
  /\ config = Off
  /\ groups \in [Names -> Claims]
  /\ session = [b \in Browsers |-> 0]
  /\ request = [b \in Browsers |-> Idle]
  /\ fresh = {}

\* INSERT; usernames are unique, so a name that is taken is an error.
Insert_NotUnique(row) ==
  /\ lastId < MaxUsers /\ lastId' = lastId + 1
  /\ user' = [user EXCEPT ![lastId + 1] = row]
Insert(row) ==
  IF Named(row.name) = {}
  THEN /\ lastId < MaxUsers /\ lastId' = lastId + 1
       /\ user' = [user EXCEPT ![lastId + 1] = row]
  ELSE UNCHANGED <<user, lastId>>

Respond(b) == request' = [request EXCEPT ![b] = Idle]

-------------------------------------------------------------------------------
(* Sessions.                                                                 *)

\* login with the right password.
Login(b, i) ==
  /\ request[b] = Idle /\ i \in Rows /\ user[i].source = "local"
  /\ session' = [session EXCEPT ![b] = i]
  /\ UNCHANGED <<user, lastId, config, groups, request, fresh>>

\* logout, and current_user for a session whose user is gone.
Logout(b) ==
  /\ request[b] = Idle /\ session[b] # 0
  /\ session' = [session EXCEPT ![b] = 0]
  /\ UNCHANGED <<user, lastId, config, groups, request, fresh>>

\* oidc_callback up to its await: it has read the configuration.
Callback(b) ==
  /\ request[b] = Idle /\ config # Off
  /\ request' = [request EXCEPT ![b] = [act |-> "callback", config |-> config]]
  /\ UNCHANGED <<user, lastId, config, groups, session, fresh>>

\* map_oidc_role.
MappedRole_OperatorFirst(c, claims) ==
  IF c.operator \in claims THEN "operator"
  ELSE IF c.admin \in claims THEN "admin" ELSE c.default
MappedRole(c, claims) ==
  IF c.admin \in claims THEN "admin"
  ELSE IF c.operator \in claims THEN "operator" ELSE c.default

\* The rows that oidc_callback looks for.
Account_ByName(x) == Named(x)
Account(x) == {i \in Named(x) : user[i].source = "oidc"}

\* The rest of it, when the provider has named user x: its row gets the role of
\* its groups, or is made, which fails when a local user has the name.
SignIn(b, x) ==
  LET c == request[b].config
      role == MappedRole(c, groups[x]) IN
  /\ request[b] # Idle /\ request[b].act = "callback"
  /\ IF Account(x) # {}
     THEN user' = [i \in Ids |-> IF i \in Account(x) THEN [user[i] EXCEPT !.role = role]
                                 ELSE user[i]] /\ UNCHANGED lastId
     ELSE Insert([name |-> x, source |-> "oidc", role |-> role])
  /\ LET mine == {i \in Ids : user'[i] # NoUser /\ user'[i].name = x}
         done == Account(x) # {} \/ Named(x) = {} IN
     /\ session' = IF done THEN [session EXCEPT ![b] = CHOOSE i \in mine : TRUE] ELSE session
     /\ fresh' = IF ~done THEN fresh
                 ELSE IF c = config THEN fresh \cup mine ELSE fresh \ mine
  /\ Respond(b)
  /\ UNCHANGED <<config, groups>>

\* The request ends without an effect: the provider refuses or fails, an id in
\* the address names nobody.
Fail(b) ==
  /\ request[b] # Idle /\ Respond(b)
  /\ UNCHANGED <<user, lastId, config, groups, session, fresh>>

-------------------------------------------------------------------------------
(* The settings page.                                                        *)

\* require_role("admin"): the session's user is an administrator now.
Authorised(b) == request[b] = Idle /\ session[b] \in Administrators

Ask(b, what) ==
  /\ Authorised(b)
  /\ request' = [request EXCEPT ![b] = what]
  /\ UNCHANGED <<user, lastId, config, groups, session, fresh>>

AskNew(b, x, role) == Ask(b, [act |-> "new", name |-> x, role |-> role])
AskDelete(b, i) == Ask(b, [act |-> "delete", actor |-> session[b], target |-> i])
AskSave(b, c) == Ask(b, [act |-> "save", config |-> c])

Asked(b, act) == request[b] # Idle /\ request[b].act = act

\* user_new.
UserNew(b) ==
  /\ Asked(b, "new") /\ Respond(b)
  /\ Insert(Local(request[b].name, request[b].role))
  /\ UNCHANGED <<config, groups, session, fresh>>

\* The rows user_delete may delete.
Deletable_Any(r) == {r.target} \cap Rows
Deletable(r) == ({r.target} \cap Rows) \ {r.actor}

UserDelete(b) ==
  /\ Asked(b, "delete") /\ Respond(b)
  /\ user' = [i \in Ids |-> IF i \in Deletable(request[b]) THEN NoUser ELSE user[i]]
  /\ fresh' = fresh \ Deletable(request[b])
  /\ UNCHANGED <<lastId, config, groups, session>>

\* save_oidc.
SaveOidc(b) ==
  /\ Asked(b, "save") /\ Respond(b)
  /\ config' = request[b].config
  /\ fresh' = IF config' = config THEN fresh ELSE {}
  /\ UNCHANGED <<user, lastId, groups, session>>

-------------------------------------------------------------------------------
\* The server stops and starts: seed() makes the administrator again when no user
\* has the name.  Cookies outlive it.
Restart ==
  /\ request' = [b \in Browsers |-> Idle]
  /\ Insert(Local(Seeded, "admin"))
  /\ UNCHANGED <<config, groups, session, fresh>>

\* Somebody changes the groups of a user at the provider.
GroupsChange(x, gs) ==
  /\ gs # groups[x]
  /\ groups' = [groups EXCEPT ![x] = gs]
  /\ fresh' = fresh \ Named(x)
  /\ UNCHANGED <<user, lastId, config, session, request>>

Browser(b) ==
  \/ \E i \in Ids : Login(b, i) \/ AskDelete(b, i)
  \/ Logout(b) \/ Callback(b) \/ Fail(b)
  \/ \E x \in Names : SignIn(b, x) \/ \E role \in NewRoles : AskNew(b, x, role)
  \/ \E c \in Configs \cup {Off} : AskSave(b, c)
  \/ UserNew(b) \/ UserDelete(b) \/ SaveOidc(b)

Next ==
  \/ \E b \in Browsers : Browser(b)
  \/ Restart
  \/ \E x \in Names, gs \in Claims : GroupsChange(x, gs)

Spec == Init /\ [][Next]_vars
-------------------------------------------------------------------------------
(* Properties.                                                               *)

\* "local accounts remain as break-glass fallback" (auth.py:5): a local account
\* stays as it is until an administrator's request deletes it, and no session of
\* it comes from the provider, whatever names the provider's users have.
LocalKept ==
  [][\A i \in Rows : user[i].source = "local" =>
       /\ \/ user'[i] = user[i]
          \/ \E b \in Browsers : Asked(b, "delete") /\ request[b].target = i
       /\ \A b \in Browsers :
            session[b] # i /\ session'[b] = i => ~Asked(b, "callback")]_vars

\* The server loses its last administrator only to the provider, who takes the
\* role away, or to a deletion whose author has itself been deleted or demoted
\* since it was authorised, as two administrators who delete each other.
AdministratorRemains ==
  [][Administrators # {} /\ Administrators' = {} =>
       \E b \in Browsers :
         /\ request'[b] = Idle
         /\ \/ Asked(b, "callback")
            \/ Asked(b, "delete") /\ request[b].actor \notin Administrators]_vars

\* An OIDC user whose groups and configuration are those of its last sign-in has
\* the highest role they give, and the default without any: "groups claim is
\* authoritative on every login" (authn.py:81).
RoleFollowsGroups ==
  config # Off =>
    \A i \in fresh :
      LET gs == groups[user[i].name] IN
      /\ config.admin \in gs => user[i].role = "admin"
      /\ config.admin \notin gs /\ config.operator \in gs => user[i].role = "operator"
      /\ {config.admin, config.operator} \cap gs = {} => user[i].role = config.default
===============================================================================
