------------------------------ MODULE Accounts ------------------------------
(***************************************************************************)
(* Accounts (store/users.go, store/areas.go, internal/auth/bootstrap.go    *)
(* and their handlers): the first admin is the main admin, who alone makes *)
(* admins, decides what they reach and hands the position over. A request  *)
(* reads who asks when it begins, reads the account it is about, checks,   *)
(* and writes later; a process can end between any two steps.              *)
(*                                                                         *)
(* An account is its number. Names, passwords, a kid's rules and the       *)
(* reader's own preferences are left out: no property is about them.       *)
(***************************************************************************)
EXTENDS Naturals, FiniteSets

CONSTANTS
    Req,       \* requests at one time
    MaxUser,   \* bound: accounts ever made
    Area,      \* what an admin can be given
    Default    \* the areas a new admin starts with

ASSUME AccountsAssumption == MaxUser \in Nat /\ Default \subseteq Area

User == 1..MaxUser

VARIABLES
    role,      \* users.role; "none": no such account
    owner,     \* the accounts with owner = 1
    areas,     \* users.admin_areas
    made,      \* how many accounts were ever made
    phase,     \* the process: off, migrated, bootstrapping, or on
    req,       \* each request: its handler, its next step and what it has read
    first,     \* history: the accounts that setup or the environment made
    overtaken  \* history: a hand-over to somebody whom a request had found not to be the main admin

db   == <<role, owner, areas, made>>
history == <<first, overtaken>>
vars == <<db, phase, req, history>>

Role == {"admin", "editor", "restricted"}

Admins == {u \in User : role[u] = "admin"}
Users  == {u \in User : role[u] # "none"}

\* actor and target are what the request read of them.
Quiet   == [role |-> "none", owner |-> FALSE, areas |-> {}]
Account == [role : Role \cup {"none"}, owner : BOOLEAN, areas : SUBSET Area]
Row(u)  == [role |-> role[u], owner |-> u \in owner, areas |-> areas[u]]

Idle == [op |-> "idle", at |-> "end", by |-> 0, actor |-> Quiet, on |-> 0, target |-> Quiet, to |-> "none"]

Request ==
    [op : {"idle", "setup", "create", "update", "delete", "access", "hand"},
     at : {"begin", "write", "areas", "owner", "end"},
     by : 0..MaxUser, actor : Account, on : 0..MaxUser, target : Account, to : Role \cup {"none"}]

TypeOK ==
    /\ role \in [User -> Role \cup {"none"}]
    /\ owner \subseteq User
    /\ areas \in [User -> SUBSET Area]
    /\ made \in 0..MaxUser
    /\ phase \in {"off", "migrated", "bootstrap", "on"}
    /\ req \in [Req -> Request]
    /\ first \subseteq User /\ overtaken \in BOOLEAN

Init ==
    /\ role = [u \in User |-> "none"] /\ owner = {} /\ areas = [u \in User |-> {}]
    /\ made = 0 /\ phase = "off" /\ first = {} /\ overtaken = FALSE
    /\ req = [r \in Req |-> Idle]

-----------------------------------------------------------------------------
(* The store.                                                              *)

CanReach(a, area) == a.role = "admin" /\ (a.owner \/ area \in a.areas)

Insert(u, ro) ==
    /\ u = made + 1 /\ u \in User
    /\ made' = u
    /\ role' = [role EXCEPT ![u] = ro]

Earliest == CHOOSE u \in Admins : \A v \in Admins : u <= v

EnsureOwner ==
    IF owner = {} /\ Admins # {}
    THEN owner' = {Earliest} /\ areas' = [areas EXCEPT ![Earliest] = {}]
    ELSE UNCHANGED <<owner, areas>>

SetAdminAreas(u, s) ==
    areas' = IF u \in owner THEN areas ELSE [areas EXCEPT ![u] = s]

-----------------------------------------------------------------------------
(* A start: firstOwner, then Bootstrap, which makes an admin if there is   *)
(* no account and the environment has a password.                          *)

FirstOwner ==
    /\ phase = "off" /\ phase' = "migrated"
    /\ IF owner = {} /\ Admins # {}
       THEN /\ owner' = {Earliest}
            /\ areas' = [u \in User |-> IF u \in Admins \ {Earliest} THEN Area ELSE areas[u]]
       ELSE UNCHANGED <<owner, areas>>
    /\ UNCHANGED <<role, made, req, history>>

Bootstrap ==
    /\ phase = "migrated"
    /\ \/ phase' = "on" /\ UNCHANGED <<db, history>>
       \/ /\ Users = {}
          /\ \E u \in User : Insert(u, "admin") /\ first' = first \cup {u}
          /\ phase' = "bootstrap"
          /\ UNCHANGED <<owner, areas, overtaken>>
    /\ UNCHANGED req

BootstrapOwner ==
    /\ phase = "bootstrap" /\ phase' = "on"
    /\ EnsureOwner
    /\ UNCHANGED <<role, made, req, history>>

Crash ==
    /\ phase # "off" /\ phase' = "off"
    /\ req' = [r \in Req |-> Idle]
    /\ UNCHANGED <<db, history>>

-----------------------------------------------------------------------------
(* handleSetup: the first visit.                                           *)

Goes(r, op, at) == phase = "on" /\ req[r].op = op /\ req[r].at = at
Then(r, at)     == req' = [req EXCEPT ![r].at = at]
Done(r)         == req' = [req EXCEPT ![r] = Idle]

\* CreateFirstAdmin inserts in one statement where no account exists.
Setup(r) ==
    /\ Goes(r, "idle", "end")
    /\ Users = {}
    /\ \E u \in User : Insert(u, "admin") /\ first' = first \cup {u}
    /\ req' = [req EXCEPT ![r].op = "setup", ![r].at = "owner"]
    /\ UNCHANGED <<owner, areas, phase, overtaken>>

SetupOwner(r) ==
    /\ Goes(r, "setup", "owner")
    /\ EnsureOwner
    /\ Done(r)
    /\ UNCHANGED <<role, made, phase, history>>

-----------------------------------------------------------------------------
(* The admins' handlers. RequireUser reads the person who asks.            *)

Begin(r, op, u, v, ro) ==
    /\ Goes(r, "idle", "end")
    /\ role[u] \in {"admin", "editor"}
    /\ req' = [req EXCEPT ![r] = [op |-> op, at |-> "begin", by |-> u, actor |-> Row(u),
                                  on |-> v, target |-> Quiet, to |-> ro]]
    /\ UNCHANGED <<db, phase, history>>

Actor(r) == req[r].actor

\* targetUser and canManageUser.
Manages(a, t) ==
    \/ a.owner
    \/ CanReach(a, "users") /\ t.role # "admin"
    \/ t.role = "restricted"

Read(r, op) ==
    /\ Goes(r, op, "begin")
    /\ req[r].on \in Users

Accept(r) == req' = [req EXCEPT ![r].at = "write", ![r].target = Row(req[r].on)]

CreateUser(r) ==
    LET a == Actor(r)  ro == req[r].to IN
    /\ Goes(r, "create", "begin")
    /\ ro = "admin" => a.owner
    /\ ro = "editor" => CanReach(a, "users")
    /\ \E u \in User :
         /\ Insert(u, ro)
         /\ req' = [req EXCEPT ![r] = IF ro = "admin" THEN [@ EXCEPT !.at = "areas", !.on = u] ELSE Idle]
    /\ UNCHANGED <<owner, areas, phase, history>>

DefaultAreas(r) ==
    /\ \E op \in {"create", "update"} : Goes(r, op, "areas")
    /\ SetAdminAreas(req[r].on, Default)
    /\ Done(r)
    /\ UNCHANGED <<role, owner, made, phase, history>>

LastAdmin == Cardinality(Admins) <= 1

\* Mutant: the main admin is not looked for before a demotion.
CheckUpdateOfAnyone(r) ==
    LET a == Actor(r)  t == Row(req[r].on)  ro == req[r].to IN
    /\ Read(r, "update") /\ Manages(a, t)
    /\ ro # t.role /\ "admin" \in {ro, t.role} => a.owner
    /\ ro # "restricted" => CanReach(a, "users")
    /\ t.role = "admin" /\ ro # "admin" => ~LastAdmin
    /\ Accept(r)
    /\ UNCHANGED <<db, phase, history>>

CheckUpdate(r) ==
    LET a == Actor(r)  t == Row(req[r].on)  ro == req[r].to IN
    /\ Read(r, "update") /\ Manages(a, t)
    /\ ro # t.role /\ "admin" \in {ro, t.role} => a.owner
    /\ ro # "restricted" => CanReach(a, "users")
    /\ t.owner => ro = "admin"
    /\ t.role = "admin" /\ ro # "admin" => ~LastAdmin
    /\ Accept(r)
    /\ UNCHANGED <<db, phase, history>>

\* UpdateUserProfile: an account deleted meanwhile stays deleted.
UpdateUser(r) ==
    /\ Goes(r, "update", "write")
    /\ role' = [role EXCEPT ![req[r].on] = IF @ = "none" THEN @ ELSE req[r].to]
    /\ IF req[r].to = "admin" /\ req[r].target.role # "admin" THEN Then(r, "areas") ELSE Done(r)
    /\ UNCHANGED <<owner, areas, made, phase, history>>

CheckDelete(r) ==
    LET a == Actor(r)  t == Row(req[r].on) IN
    /\ Read(r, "delete") /\ Manages(a, t)
    /\ req[r].on # req[r].by
    /\ ~t.owner
    /\ t.role = "admin" => ~LastAdmin
    /\ Accept(r)
    /\ UNCHANGED <<db, phase, history>>

DeleteUser(r) ==
    /\ Goes(r, "delete", "write")
    /\ role' = [role EXCEPT ![req[r].on] = "none"]
    /\ owner' = owner \ {req[r].on}
    /\ areas' = [areas EXCEPT ![req[r].on] = {}]
    /\ Done(r)
    /\ UNCHANGED <<made, phase, history>>

CheckAccess(r) ==
    LET t == Row(req[r].on) IN
    /\ Read(r, "access") /\ Actor(r).owner
    /\ t.role = "admin" /\ ~t.owner
    /\ Accept(r)
    /\ UNCHANGED <<db, phase, history>>

UserAccess(r) ==
    /\ Goes(r, "access", "write")
    /\ \E s \in SUBSET Area :
         IF req[r].on \in Users THEN SetAdminAreas(req[r].on, s) ELSE areas' = areas
    /\ Done(r)
    /\ UNCHANGED <<role, owner, made, phase, history>>

Found(r) == \E q \in Req : req[q].at = "write" /\ req[q].on = req[r].on

\* One transaction, and its target has to be an admin.
MakeOwner(r) ==
    /\ Goes(r, "hand", "begin") /\ Actor(r).owner
    /\ req[r].on \in Admins
    /\ owner' = {req[r].on}
    /\ areas' = [u \in User |-> IF u = req[r].on THEN {} ELSE IF u \in owner THEN Area ELSE areas[u]]
    /\ Done(r)
    /\ overtaken' = (overtaken \/ Found(r))
    /\ UNCHANGED <<role, made, phase, first>>

\* A check that fails is answered, and nothing was changed.
Refuse(r) ==
    /\ phase = "on" /\ req[r].at = "begin"
    /\ Done(r)
    /\ UNCHANGED <<db, phase, history>>

Next ==
    \/ FirstOwner \/ Bootstrap \/ BootstrapOwner \/ Crash
    \/ \E r \in Req :
         \/ Setup(r) \/ SetupOwner(r)
         \/ \E u, v \in User : \E ro \in Role :
              \/ Begin(r, "create", u, u, ro) \/ Begin(r, "update", u, v, ro)
              \/ \E op \in {"delete", "access", "hand"} : Begin(r, op, u, v, "none")
         \/ CreateUser(r) \/ DefaultAreas(r) \/ CheckUpdate(r) \/ UpdateUser(r)
         \/ CheckDelete(r) \/ DeleteUser(r) \/ CheckAccess(r) \/ UserAccess(r)
         \/ MakeOwner(r) \/ Refuse(r)

Spec == Init /\ [][Next]_vars

-----------------------------------------------------------------------------

\* However setups, starts that end early, promotions and hand-overs interleave, there are
\* never two main admins.
AtMostOneOwner ==
    \A u, v \in owner : u = v

\* Two browsers on the first visit, or a start with a password in the environment and a
\* visit after it, make one admin between them, unless a hand-over overtook a request that
\* demotes or deletes the new main admin: then everybody may go.
SetupOnce ==
    ~overtaken => \A u, v \in first : u = v

Settled == phase = "on" /\ \A r \in Req : req[r].op # "setup"

\* "The main admin can't be deleted or demoted until it's handed over": once there is an
\* account there is a main admin, and it is an admin, but for the same overtaking.
MainAdminStands ==
    Settled /\ Users # {} /\ ~overtaken => \E u \in owner : u \in Admins

\* The accounts: their types, and the three together.
MainAdminSafe == TypeOK /\ AtMostOneOwner /\ SetupOnce /\ MainAdminStands
=============================================================================
