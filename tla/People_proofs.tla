---------------------------- MODULE People_proofs ----------------------------
(***************************************************************************)
(* The program's people, for any number of accounts, requests, sign-ins,   *)
(* devices, files and books.                                               *)
(*                                                                         *)
(* Accounts. One main admin at most, one who stands, and one setup. What   *)
(* makes it inductive is what the requests on their way know. Until there  *)
(* is a main admin nobody has an area, so nobody can have been found fit   *)
(* to make, to demote or to remove an admin; once there is one, the        *)
(* requests about to write to that very account leave its role alone. Only *)
(* a hand-over to somebody whom such a request is about breaks that, and   *)
(* then nothing more is claimed.                                           *)
(*                                                                         *)
(* The other parts share no state with the accounts or with each other:    *)
(* each has an invariant of its own, kept by its steps, and MCPeople's     *)
(* composition takes only those while it runs.                             *)
(***************************************************************************)
EXTENDS MCPeople, FiniteSetTheorems, TLAPS

\* What a request knows before there is a main admin.
Powerless(q) ==
    /\ ~q.actor.owner /\ q.actor.areas = {}
    /\ q.at # "areas"
    /\ q.at = "write" => /\ q.op \in {"update", "delete"} /\ role[q.on] # "admin"
                         /\ q.op = "update" => q.to = "restricted"
    /\ q.op # "idle" => Admins # {}

\* A request about to write to the main admin's account leaves its role alone.
Respects(q) ==
    q.at = "write" /\ q.on \in owner => q.op = "access" \/ (q.op = "update" /\ q.to = "admin")

Fits(q) ==
    /\ q.op = "setup" => q.at = "owner"
    /\ q.op = "create" => q.to \in Role
    /\ q.at = "write" => q.on \in User /\ q.on <= made
    /\ ~overtaken => Respects(q)
    /\ ~overtaken /\ owner = {} => Powerless(q)

\* The accounts, while no request was overtaken.
Founded ==
    /\ owner \subseteq Admins
    /\ owner = {} => \A u \in User : areas[u] = {}
    /\ owner = {} /\ (Users # {} \/ first # {}) => Admins # {}
    /\ phase = "migrated" /\ Users # {} => owner # {}
    /\ phase = "on" /\ owner = {} /\ Users # {} => \E r \in Req : req[r].op = "setup"
    /\ \A u, v \in first : u = v

\* A process that does not serve has no requests.
Stopped == phase # "on" => \A r \in Req : req[r] = Idle

IInv ==
    /\ TypeOK /\ AtMostOneOwner /\ Stopped
    /\ \A u \in Users : u <= made
    /\ \A r \in Req : Fits(req[r])
    /\ ~overtaken => Founded

-----------------------------------------------------------------------------
(* Facts about the operators.                                              *)

\* Among admins there is an earliest.
LEMMA EarliestIsAdmin ==
    ASSUME Admins # {}
    PROVE  Earliest \in Admins
<1>1. Admins \subseteq Nat
  BY AccountsAssumption DEF Admins, User
<1>2. PICK u \in Admins : \A v \in Admins : <<v, u>> \notin OpToRel(<, Nat)
  BY <1>1, NatLessThanWellFounded, WFMin
<1>3. ASSUME NEW v \in Admins
      PROVE  u <= v
  <2>1. u \in Nat /\ v \in Nat
    BY <1>1
  <2>2. ~(v < u)
    BY <1>2, <2>1 DEF OpToRel
  <2>3. QED
    BY <2>1, <2>2
<1>4. QED
  BY <1>3 DEF Earliest

LEMMA RowIsAccount ==
    ASSUME TypeOK, NEW u \in User
    PROVE  Row(u) \in Account
<1>1. (u \in owner) \in BOOLEAN
  OBVIOUS
<1>2. role[u] \in Role \cup {"none"} /\ areas[u] \in SUBSET Area
  BY DEF TypeOK
<1>3. QED
  BY <1>1, <1>2, Zenon DEF Row, Account

LEMMA IdleIsRequest == Idle \in Request
<1>1. Quiet \in Account
  BY Zenon DEF Quiet, Account, Role
<1>2. 0 \in 0..MaxUser
  BY AccountsAssumption
<1>3. QED
  BY <1>1, <1>2, Zenon DEF Idle, Request, Role

\* An idle request is fit for any accounts.
LEMMA IdleFits == Fits(Idle) /\ Idle.op = "idle" /\ Idle.at = "end"
  BY DEF Idle, Fits, Powerless, Respects, Quiet

\* What a handler does with its request, field by field.
LEMMA Fields ==
    ASSUME TypeOK, NEW r \in Req
    PROVE  /\ Done(r) => /\ req' \in [Req -> Request] /\ req'[r] = Idle
                         /\ \A p \in Req \ {r} : req'[p] = req[p]
           /\ Then(r, "areas") => /\ req' \in [Req -> Request]
                                  /\ req'[r].op = req[r].op /\ req'[r].at = "areas"
                                  /\ req'[r].actor = req[r].actor /\ req'[r].on = req[r].on
                                  /\ \A p \in Req \ {r} : req'[p] = req[p]
           /\ Accept(r) /\ req[r].on \in User =>
                 /\ req' \in [Req -> Request]
                 /\ req'[r].op = req[r].op /\ req'[r].at = "write" /\ req'[r].to = req[r].to
                 /\ req'[r].actor = req[r].actor /\ req'[r].on = req[r].on
                 /\ \A p \in Req \ {r} : req'[p] = req[p]
<1>1. req \in [Req -> Request] /\ req[r] \in Request
  BY DEF TypeOK
<1>2. ASSUME Done(r)
      PROVE  /\ req' \in [Req -> Request] /\ req'[r] = Idle
             /\ \A p \in Req \ {r} : req'[p] = req[p]
  <2>1. req' = [req EXCEPT ![r] = Idle]
    BY <1>2 DEF Done
  <2>2. QED
    BY <1>1, <2>1, IdleIsRequest
<1>3. ASSUME Then(r, "areas")
      PROVE  /\ req' \in [Req -> Request]
             /\ req'[r].op = req[r].op /\ req'[r].at = "areas"
             /\ req'[r].actor = req[r].actor /\ req'[r].on = req[r].on
             /\ \A p \in Req \ {r} : req'[p] = req[p]
  <2>1. req' = [req EXCEPT ![r].at = "areas"]
    BY <1>3 DEF Then
  <2>2. QED
    BY <1>1, <2>1 DEF Request
<1>4. ASSUME Accept(r), req[r].on \in User
      PROVE  /\ req' \in [Req -> Request]
             /\ req'[r].op = req[r].op /\ req'[r].at = "write" /\ req'[r].to = req[r].to
             /\ req'[r].actor = req[r].actor /\ req'[r].on = req[r].on
             /\ \A p \in Req \ {r} : req'[p] = req[p]
  <2> DEFINE fresh == Row(req[r].on)
  <2>1. req' = [req EXCEPT ![r].at = "write", ![r].target = fresh]
    BY <1>4 DEF Accept
  <2>2. fresh \in Account
    BY <1>4, RowIsAccount
  <2> HIDE DEF fresh
  <2>3. QED
    BY <1>1, <2>1, <2>2 DEF Request
<1>5. QED
  BY <1>2, <1>3, <1>4

-----------------------------------------------------------------------------
(* Steps that change requests only.                                        *)

LEMMA MoveKeeps ==
    ASSUME IInv, UNCHANGED <<db, phase, history>>, phase = "on",
           NEW r \in Req, req[r].op # "setup",
           req' \in [Req -> Request], \A p \in Req \ {r} : req'[p] = req[p],
           Fits(req'[r])
    PROVE  IInv'
<1>1. UNCHANGED <<role, owner, areas, made, phase, first, overtaken>>
  BY DEF db, history
<1>2. \A p \in Req : Fits(req'[p])
  BY DEF IInv
<1>3. \A p \in Req : Fits(req[p])'
  BY <1>1, <1>2 DEF Fits, Powerless, Respects, Admins
<1>4. TypeOK' /\ AtMostOneOwner' /\ Stopped' /\ \A u \in Users' : u <= made'
  BY <1>1 DEF IInv, TypeOK, AtMostOneOwner, Stopped, Users
<1>5. ASSUME ~overtaken'
      PROVE  Founded'
  <2>1. Founded
    BY <1>1, <1>5 DEF IInv
  <2>2. (\E p \in Req : req[p].op = "setup") => \E p \in Req : req'[p].op = "setup"
    OBVIOUS
  <2>3. QED
    BY <1>1, <2>1, <2>2 DEF Founded, Users, Admins
<1>6. QED
  BY <1>3, <1>4, <1>5 DEF IInv

LEMMA BeginKeeps ==
    ASSUME IInv, NEW r \in Req, NEW op \in {"create", "update", "delete", "access", "hand"},
           NEW u \in User, NEW v \in User, NEW ro \in Role \cup {"none"}, op = "create" => ro \in Role,
           Begin(r, op, u, v, ro)
    PROVE  IInv'
<1> DEFINE q == [op |-> op, at |-> "begin", by |-> u, actor |-> Row(u), on |-> v, target |-> Quiet, to |-> ro]
<1>1. phase = "on" /\ req[r].op = "idle" /\ UNCHANGED <<db, phase, history>> /\ u \in Users
  BY DEF Begin, Goes, Users, Role
<1>2. Row(u) \in Account /\ Quiet \in Account
  <2>1. Quiet \in Account
    BY Zenon DEF Quiet, Account, Role
  <2>2. QED
    BY <2>1, RowIsAccount DEF IInv
<1>3. u \in 0..MaxUser /\ v \in 0..MaxUser
  BY AccountsAssumption DEF User
<1>4. q \in Request
  BY <1>2, <1>3 DEF Request
<1>5. req' = [req EXCEPT ![r] = q]
  BY DEF Begin
<1>6. req' \in [Req -> Request] /\ req'[r] = q /\ \A p \in Req \ {r} : req'[p] = req[p]
  BY <1>4, <1>5 DEF IInv, TypeOK
<1>7. Fits(q)
  <2>1. ASSUME ~overtaken, owner = {}
        PROVE  ~Row(u).owner /\ Row(u).areas = {} /\ Admins # {}
    <3>1. u \notin owner /\ areas[u] = {} /\ Admins # {}
      BY <1>1, <2>1 DEF IInv, Founded
    <3>2. QED
      BY <3>1 DEF Row
  <2>2. q.op = op /\ q.at = "begin" /\ q.actor = Row(u) /\ q.to = ro
    OBVIOUS
  <2> HIDE DEF q
  <2>3. QED
    BY <2>1, <2>2 DEF Fits, Powerless, Respects
<1>8. QED
  BY <1>1, <1>6, <1>7, MoveKeeps

\* Who manages somebody before there is a main admin manages a kid.
LEMMA ManagesKids ==
    ASSUME NEW a, NEW t, ~a.owner, a.areas = {}
    PROVE  ~CanReach(a, "users") /\ (Manages(a, t) => t.role = "restricted")
  BY DEF CanReach, Manages

\* A check that is passed: what the request knows is what the accounts are.
LEMMA CheckKeeps ==
    ASSUME IInv, NEW r \in Req, phase = "on", req[r].at = "begin", req[r].on \in Users,
           Accept(r), UNCHANGED <<db, phase, history>>,
           req[r].op \in {"update", "delete", "access"},
           req[r].op = "access" => Actor(r).owner,
           req[r].op # "access" => Manages(Actor(r), Row(req[r].on)),
           req[r].op = "update" /\ req[r].to # "restricted" => CanReach(Actor(r), "users"),
           req[r].on \in owner => req[r].op = "update" /\ req[r].to = "admin"
    PROVE  IInv'
<1> DEFINE q == req'[r]
<1>1. req[r].on \in User
  BY DEF Users
<1>2. /\ req' \in [Req -> Request] /\ \A p \in Req \ {r} : req'[p] = req[p]
      /\ q.op = req[r].op /\ q.at = "write" /\ q.to = req[r].to
      /\ q.actor = req[r].actor /\ q.on = req[r].on
  BY <1>1, Fields DEF IInv
<1>3. q.on \in User /\ q.on <= made
  BY <1>1, <1>2 DEF IInv
<1>4. Respects(q)
  BY <1>2 DEF Respects
<1>5. ASSUME ~overtaken, owner = {}
      PROVE  Powerless(q)
  <2>1. Powerless(req[r])
    BY <1>5 DEF IInv, Fits
  <2>2. ~req[r].actor.owner /\ req[r].actor.areas = {} /\ Admins # {}
    BY <2>1 DEF Powerless
  <2>3. req[r].op # "access" /\ (req[r].op = "update" => req[r].to = "restricted")
    BY <2>2, ManagesKids DEF Actor
  <2>4. Row(req[r].on).role = "restricted"
    BY <2>2, <2>3, ManagesKids DEF Actor
  <2>5. role[q.on] = "restricted"
    BY <1>2, <2>4 DEF Row
  <2>6. QED
    BY <1>2, <2>2, <2>3, <2>5 DEF Powerless
<1>6. Fits(q)
  BY <1>2, <1>3, <1>4, <1>5 DEF Fits
<1>7. QED
  BY <1>2, <1>6, MoveKeeps

LEMMA ChecksKeep ==
    ASSUME IInv, NEW r \in Req, CheckUpdate(r) \/ CheckDelete(r) \/ CheckAccess(r)
    PROVE  IInv'
<1>1. /\ Row(req[r].on).owner <=> req[r].on \in owner
      /\ Row(req[r].on).role = role[req[r].on]
  BY DEF Row
<1>2. CASE CheckUpdate(r)
  <2>1. /\ phase = "on" /\ req[r].op = "update" /\ req[r].at = "begin" /\ req[r].on \in Users
        /\ Manages(Actor(r), Row(req[r].on))
        /\ req[r].to # "restricted" => CanReach(Actor(r), "users")
        /\ Row(req[r].on).owner => req[r].to = "admin"
        /\ Accept(r) /\ UNCHANGED <<db, phase, history>>
    BY <1>2 DEF CheckUpdate, Read, Goes
  <2>2. QED
    BY <1>1, <2>1, CheckKeeps
<1>3. CASE CheckDelete(r)
  <2>1. /\ phase = "on" /\ req[r].op = "delete" /\ req[r].at = "begin" /\ req[r].on \in Users
        /\ Manages(Actor(r), Row(req[r].on)) /\ ~Row(req[r].on).owner
        /\ Accept(r) /\ UNCHANGED <<db, phase, history>>
    BY <1>3 DEF CheckDelete, Read, Goes
  <2>2. QED
    BY <1>1, <2>1, CheckKeeps
<1>4. CASE CheckAccess(r)
  <2>1. /\ phase = "on" /\ req[r].op = "access" /\ req[r].at = "begin" /\ req[r].on \in Users
        /\ Actor(r).owner /\ ~Row(req[r].on).owner
        /\ Accept(r) /\ UNCHANGED <<db, phase, history>>
    BY <1>4 DEF CheckAccess, Read, Goes
  <2>2. QED
    BY <1>1, <2>1, CheckKeeps
<1>5. QED
  BY <1>2, <1>3, <1>4

LEMMA RefuseKeeps ==
    ASSUME IInv, NEW r \in Req, Refuse(r)
    PROVE  IInv'
<1>1. phase = "on" /\ req[r].at = "begin" /\ Done(r) /\ UNCHANGED <<db, phase, history>>
  BY DEF Refuse
<1>2. req[r].op # "setup"
  BY <1>1 DEF IInv, Fits
<1>3. /\ req' \in [Req -> Request] /\ req'[r] = Idle
      /\ \A p \in Req \ {r} : req'[p] = req[p]
  BY <1>1, Fields DEF IInv
<1>4. QED
  BY <1>1, <1>2, <1>3, IdleFits, MoveKeeps

-----------------------------------------------------------------------------
(* Starts, and the end of a process.                                       *)

LEMMA InitIInv == Init => IInv
<1> SUFFICES ASSUME Init PROVE IInv
  OBVIOUS
<1>1. /\ role = [u \in User |-> "none"] /\ owner = {} /\ areas = [u \in User |-> {}]
      /\ made = 0 /\ phase = "off" /\ first = {} /\ req = [r \in Req |-> Idle]
  BY DEF Init
<1>2. overtaken \in BOOLEAN
  BY Zenon DEF Init
<1>3. TypeOK
  BY <1>1, <1>2, IdleIsRequest, AccountsAssumption DEF TypeOK
<1>4. Users = {} /\ Admins = {}
  BY <1>1 DEF Users, Admins
<1>5. Founded
  BY <1>1, <1>4 DEF Founded
<1>6. QED
  BY <1>1, <1>3, <1>4, <1>5, IdleFits DEF IInv, AtMostOneOwner, Stopped

\* While the process does not serve, no request is on its way: only the accounts matter.
LEMMA StartKeeps ==
    ASSUME IInv, TypeOK', AtMostOneOwner', req' = [r \in Req |-> Idle],
           \A u \in Users' : u <= made',
           ~overtaken' => Founded'
    PROVE  IInv'
<1>1. \A r \in Req : req'[r] = Idle
  OBVIOUS
<1>2. \A r \in Req : Fits(req[r])'
  <2>1. \A r \in Req : /\ req'[r].op = "idle" /\ req'[r].at = "end" /\ ~req'[r].actor.owner
                       /\ req'[r].actor.areas = {}
    BY <1>1, IdleFits DEF Idle, Quiet
  <2>2. QED
    BY <2>1 DEF Fits, Powerless, Respects
<1>3. Stopped'
  BY <1>1 DEF Stopped, Idle, Quiet
<1>4. QED
  BY <1>2, <1>3 DEF IInv

\* EnsureOwner and firstOwner give the position to the earliest admin, if there is nobody.
LEMMA GivenOnce ==
    ASSUME IInv, ~overtaken, owner = {}
    PROVE  /\ Users # {} => Admins # {}
           /\ Admins # {} => Earliest \in Admins
  BY EarliestIsAdmin DEF IInv, Founded

LEMMA FirstOwnerKeeps ==
    ASSUME IInv, FirstOwner
    PROVE  IInv'
<1>1. /\ phase = "off" /\ phase' = "migrated" /\ UNCHANGED <<role, made, req, first, overtaken>>
      /\ \/ /\ owner = {} /\ Admins # {} /\ owner' = {Earliest}
            /\ areas' = [u \in User |-> IF u \in Admins \ {Earliest} THEN Area ELSE areas[u]]
         \/ ~(owner = {} /\ Admins # {}) /\ UNCHANGED <<owner, areas>>
  BY DEF FirstOwner, history
<1>2. overtaken' \in BOOLEAN
  BY <1>1 DEF IInv, TypeOK
<1>3. Admins # {} => Earliest \in Admins /\ Earliest \in User
  BY EarliestIsAdmin DEF Admins
<1>4. TypeOK'
  BY <1>1, <1>2, <1>3 DEF IInv, TypeOK
<1>5. AtMostOneOwner'
  BY <1>1 DEF IInv, AtMostOneOwner
<1>6. req' = [r \in Req |-> Idle]
  BY <1>1 DEF IInv, Stopped, TypeOK
<1>7. Users' = Users /\ Admins' = Admins /\ \A u \in Users' : u <= made'
  BY <1>1 DEF IInv, Users, Admins
<1>8. ASSUME ~overtaken'
      PROVE  Founded'
  <2>1. Founded
    BY <1>1, <1>8 DEF IInv
  <2>2. QED
    BY <1>1, <1>3, <1>7, <2>1 DEF Founded
<1>9. QED
  BY <1>4, <1>5, <1>6, <1>7, <1>8, StartKeeps

LEMMA InsertIsFresh ==
    ASSUME IInv, NEW u \in User, NEW ro \in Role, Insert(u, ro)
    PROVE  /\ role' \in [User -> Role \cup {"none"}] /\ made' \in 0..MaxUser
           /\ u = made + 1 /\ made' = u /\ u \notin Users
           /\ Users' = Users \cup {u}
           /\ Admins' = IF ro = "admin" THEN Admins \cup {u} ELSE Admins
           /\ \A v \in User \ {u} : role'[v] = role[v]
           /\ \A v \in Users' : v <= made'
<1>1. role' = [role EXCEPT ![u] = ro] /\ role \in [User -> Role \cup {"none"}] /\ u = made + 1 /\ made' = u
  BY DEF Insert, IInv, TypeOK
<1>2. made \in Nat /\ made \in 0..MaxUser /\ MaxUser \in Nat
  BY AccountsAssumption DEF IInv, TypeOK
<1>3. u \in 0..MaxUser /\ User \subseteq Nat
  BY <1>2 DEF User
<1>4. u \notin Users
  BY <1>1, <1>2 DEF IInv
<1>5. Users' = Users \cup {u}
  BY <1>1 DEF Users, Role
<1>6. Admins' = IF ro = "admin" THEN Admins \cup {u} ELSE Admins
  BY <1>1, <1>4 DEF Users, Admins
<1>7. \A v \in Users' : v <= made'
  <2>1. \A v \in Users : v \in Nat /\ v <= made
    BY <1>3 DEF IInv, Users
  <2>2. QED
    BY <1>1, <1>2, <1>5, <2>1
<1>8. QED
  BY <1>1, <1>3, <1>4, <1>5, <1>6, <1>7

\* The first account is made where there is none: it is alone, and no other was first.
LEMMA FirstIsAlone ==
    ASSUME IInv, ~overtaken, Users = {}
    PROVE  owner = {} /\ first = {} /\ Admins = {}
  BY DEF IInv, Founded, Users, Admins

LEMMA BootstrapKeeps ==
    ASSUME IInv, Bootstrap
    PROVE  IInv'
<1>1. phase = "migrated" /\ UNCHANGED req /\ req' = [r \in Req |-> Idle]
  BY DEF Bootstrap, IInv, Stopped, TypeOK
<1>2. CASE phase' = "on" /\ UNCHANGED <<db, history>>
  <2>1. UNCHANGED <<role, owner, areas, made, first, overtaken>>
    BY <1>2 DEF db, history
  <2>2. TypeOK' /\ AtMostOneOwner' /\ \A u \in Users' : u <= made'
    BY <1>1, <1>2, <2>1 DEF IInv, TypeOK, AtMostOneOwner, Users
  <2>3. ASSUME ~overtaken'
        PROVE  Founded'
    <3>1. Founded
      BY <2>1, <2>3 DEF IInv
    <3>2. QED
      BY <1>1, <1>2, <2>1, <3>1 DEF Founded, Users, Admins
  <2>4. QED
    BY <1>1, <2>2, <2>3, StartKeeps
<1>3. CASE /\ Users = {} /\ phase' = "bootstrap" /\ UNCHANGED <<owner, areas, overtaken>>
           /\ \E u \in User : Insert(u, "admin") /\ first' = first \cup {u}
  <2>1. PICK u \in User : Insert(u, "admin") /\ first' = first \cup {u}
    BY <1>3
  <2>2. "admin" \in Role
    BY DEF Role
  <2>3. /\ role' \in [User -> Role \cup {"none"}] /\ made' \in 0..MaxUser
        /\ Users' = Users \cup {u} /\ Admins' = Admins \cup {u}
        /\ \A v \in Users' : v <= made'
    BY <2>1, <2>2, InsertIsFresh
  <2>4. TypeOK' /\ AtMostOneOwner'
    BY <1>1, <1>3, <2>1, <2>3 DEF IInv, TypeOK, AtMostOneOwner
  <2>5. ASSUME ~overtaken'
        PROVE  Founded'
    <3>1. Founded /\ owner = {} /\ first = {}
      BY <1>3, <2>5, FirstIsAlone DEF IInv
    <3>2. QED
      BY <1>3, <2>1, <2>3, <3>1 DEF Founded
  <2>6. QED
    BY <1>1, <2>3, <2>4, <2>5, StartKeeps
<1>4. QED
  BY <1>2, <1>3 DEF Bootstrap

LEMMA EnsureOwnerTypes ==
    ASSUME IInv, EnsureOwner
    PROVE  /\ owner' \subseteq User /\ areas' \in [User -> SUBSET Area] /\ AtMostOneOwner'
           /\ \/ owner = {} /\ Admins # {} /\ owner' = {Earliest} /\ Earliest \in Admins
              \/ ~(owner = {} /\ Admins # {}) /\ UNCHANGED <<owner, areas>>
<1>1. Admins # {} => Earliest \in Admins /\ Earliest \in User
  BY EarliestIsAdmin DEF Admins
<1>2. CASE owner = {} /\ Admins # {}
  BY <1>1, <1>2 DEF EnsureOwner, IInv, TypeOK, AtMostOneOwner
<1>3. CASE ~(owner = {} /\ Admins # {})
  BY <1>3 DEF EnsureOwner, IInv, TypeOK, AtMostOneOwner
<1>4. QED
  BY <1>2, <1>3

LEMMA BootstrapOwnerKeeps ==
    ASSUME IInv, BootstrapOwner
    PROVE  IInv'
<1>1. phase = "bootstrap" /\ phase' = "on" /\ EnsureOwner /\ UNCHANGED <<role, made, req, first, overtaken>>
  BY DEF BootstrapOwner, history
<1>2. req' = [r \in Req |-> Idle]
  BY <1>1 DEF IInv, Stopped, TypeOK
<1>3. TypeOK' /\ AtMostOneOwner'
  BY <1>1, EnsureOwnerTypes DEF IInv, TypeOK
<1>4. Users' = Users /\ Admins' = Admins /\ \A u \in Users' : u <= made'
  BY <1>1 DEF IInv, Users, Admins
<1>5. ASSUME ~overtaken'
      PROVE  Founded'
  <2>1. Founded
    BY <1>1, <1>5 DEF IInv
  <2>2. QED
    BY <1>1, <1>4, <2>1, EnsureOwnerTypes DEF Founded
<1>6. QED
  BY <1>2, <1>3, <1>4, <1>5, StartKeeps

LEMMA CrashKeeps ==
    ASSUME IInv, Crash
    PROVE  IInv'
<1>1. /\ phase' = "off" /\ UNCHANGED <<role, owner, areas, made, first, overtaken>>
      /\ req' = [r \in Req |-> Idle]
  BY DEF Crash, db, history
<1>2. req' \in [Req -> Request]
  BY <1>1, IdleIsRequest
<1>3. TypeOK' /\ AtMostOneOwner' /\ \A u \in Users' : u <= made'
  BY <1>1, <1>2 DEF IInv, TypeOK, AtMostOneOwner, Users
<1>4. ASSUME ~overtaken'
      PROVE  Founded'
  <2>1. Founded
    BY <1>1, <1>4 DEF IInv
  <2>2. QED
    BY <1>1, <2>1 DEF Founded, Users, Admins
<1>5. QED
  BY <1>1, <1>3, <1>4, StartKeeps

-----------------------------------------------------------------------------
(* Requests that write.                                                    *)

\* A new account does not change what the requests know: they are about older ones.
LEMMA InsertFits ==
    ASSUME IInv, NEW u \in User, NEW ro \in Role, Insert(u, ro), UNCHANGED <<owner, overtaken>>,
           NEW q, Fits(q)
    PROVE  Fits(q)'
<1>1. /\ u = made + 1 /\ made' = u /\ made \in Nat
      /\ \A v \in User \ {u} : role'[v] = role[v]
      /\ Admins # {} => Admins' # {}
  BY InsertIsFresh, AccountsAssumption DEF IInv, TypeOK
<1>2. q.at = "write" => q.on \in User /\ q.on <= made
  BY DEF Fits
<1>3. q.at = "write" => q.on \in Nat /\ q.on <= made' /\ q.on # u
  BY <1>1, <1>2, AccountsAssumption DEF User
<1>4. q.at = "write" => role'[q.on] = role[q.on]
  BY <1>1, <1>2, <1>3
<1>5. QED
  BY <1>1, <1>2, <1>3, <1>4 DEF Fits, Powerless, Respects

LEMMA SetupKeeps ==
    ASSUME IInv, NEW r \in Req, Setup(r)
    PROVE  IInv'
<1>1. PICK u \in User : Insert(u, "admin") /\ first' = first \cup {u}
  BY DEF Setup
<1>2. /\ phase = "on" /\ req[r].op = "idle" /\ req[r].at = "end" /\ Users = {}
      /\ req' = [req EXCEPT ![r].op = "setup", ![r].at = "owner"]
      /\ UNCHANGED <<owner, areas, phase, overtaken>>
  BY DEF Setup, Goes
<1>3. "admin" \in Role
  BY DEF Role
<1>4. /\ role' \in [User -> Role \cup {"none"}] /\ made' \in 0..MaxUser
      /\ Users' = Users \cup {u} /\ Admins' = Admins \cup {u}
      /\ \A v \in Users' : v <= made'
  BY <1>1, <1>3, InsertIsFresh
<1>5. req \in [Req -> Request] /\ req[r] \in Request
  BY DEF IInv, TypeOK
<1>6. /\ req' \in [Req -> Request] /\ req'[r].op = "setup" /\ req'[r].at = "owner"
      /\ req'[r].actor = req[r].actor
      /\ \A p \in Req \ {r} : req'[p] = req[p]
  BY <1>2, <1>5 DEF Request
<1>7. TypeOK' /\ AtMostOneOwner' /\ Stopped'
  BY <1>1, <1>2, <1>4, <1>6 DEF IInv, TypeOK, AtMostOneOwner, Stopped
<1>8. \A p \in Req : Fits(req[p])'
  <2>1. Fits(req[r])'
    <3>1. ~overtaken /\ owner = {} => ~req[r].actor.owner /\ req[r].actor.areas = {}
      BY DEF IInv, Fits, Powerless
    <3>2. QED
      BY <1>2, <1>4, <1>6, <3>1 DEF Fits, Powerless, Respects
  <2>2. ASSUME NEW p \in Req \ {r}
        PROVE  Fits(req[p])'
    <3>1. Fits(req'[p])
      BY <1>6 DEF IInv
    <3>2. QED
      BY <1>1, <1>2, <1>3, <3>1, InsertFits
  <2>3. QED
    BY <2>1, <2>2
<1>9. ASSUME ~overtaken'
      PROVE  Founded'
  <2>1. Founded /\ owner = {} /\ first = {}
    BY <1>2, <1>9, FirstIsAlone DEF IInv
  <2>2. QED
    BY <1>1, <1>2, <1>4, <1>6, <2>1 DEF Founded
<1>10. QED
  BY <1>4, <1>7, <1>8, <1>9 DEF IInv

\* What a request knows is about roles, numbers and the main admin.
LEMMA SameFits ==
    ASSUME UNCHANGED <<role, owner, made, overtaken>>, NEW q, Fits(q)
    PROVE  Fits(q)'
  BY DEF Fits, Powerless, Respects, Admins

LEMMA IdleStaysFit == Fits(Idle)'
<1>1. Idle.op = "idle" /\ Idle.at = "end" /\ ~Idle.actor.owner /\ Idle.actor.areas = {}
  BY IdleFits DEF Idle, Quiet
<1>2. Idle' = Idle
  BY DEF Idle, Quiet
<1>3. QED
  BY <1>1, <1>2 DEF Fits, Powerless, Respects

\* Areas change, and only where there is a main admin.
LEMMA AreasKeep ==
    ASSUME IInv, NEW r \in Req, phase = "on", Done(r), req[r].op # "setup",
           UNCHANGED <<role, owner, made, phase, history>>, areas' \in [User -> SUBSET Area],
           ~overtaken => owner # {}
    PROVE  IInv'
<1>1. UNCHANGED <<role, owner, made, phase, first, overtaken>>
  BY DEF history
<1>2. req' \in [Req -> Request] /\ req'[r] = Idle /\ \A p \in Req \ {r} : req'[p] = req[p]
  BY Fields DEF IInv
<1>3. \A p \in Req : Fits(req'[p])
  BY <1>2, IdleFits DEF IInv
<1>4. \A p \in Req : Fits(req[p])'
  BY <1>1, <1>3, SameFits
<1>5. TypeOK' /\ AtMostOneOwner' /\ Stopped' /\ \A u \in Users' : u <= made'
  BY <1>1, <1>2 DEF IInv, TypeOK, AtMostOneOwner, Stopped, Users
<1>6. ASSUME ~overtaken'
      PROVE  Founded'
  <2>1. Founded /\ owner # {}
    BY <1>1, <1>6 DEF IInv
  <2>2. QED
    BY <1>1, <2>1 DEF Founded, Users, Admins
<1>7. QED
  BY <1>4, <1>5, <1>6 DEF IInv

LEMMA DefaultAreasKeep ==
    ASSUME IInv, NEW r \in Req, DefaultAreas(r)
    PROVE  IInv'
<1>1. /\ phase = "on" /\ req[r].op \in {"create", "update"} /\ req[r].at = "areas" /\ Done(r)
      /\ SetAdminAreas(req[r].on, Default)
      /\ UNCHANGED <<role, owner, made, phase, history>>
  BY DEF DefaultAreas, Goes
<1>2. areas' \in [User -> SUBSET Area]
  BY <1>1, AccountsAssumption DEF SetAdminAreas, IInv, TypeOK
<1>3. ~overtaken => owner # {}
  BY <1>1 DEF IInv, Fits, Powerless
<1>4. QED
  BY <1>1, <1>2, <1>3, AreasKeep

LEMMA UserAccessKeeps ==
    ASSUME IInv, NEW r \in Req, UserAccess(r)
    PROVE  IInv'
<1>1. /\ phase = "on" /\ req[r].op = "access" /\ req[r].at = "write" /\ Done(r)
      /\ UNCHANGED <<role, owner, made, phase, history>>
      /\ \E s \in SUBSET Area : areas' = areas \/ SetAdminAreas(req[r].on, s)
  BY DEF UserAccess, Goes
<1>2. areas' \in [User -> SUBSET Area]
  BY <1>1 DEF SetAdminAreas, IInv, TypeOK
<1>3. ~overtaken => owner # {}
  BY <1>1 DEF IInv, Fits, Powerless
<1>4. QED
  BY <1>1, <1>2, <1>3, AreasKeep

LEMMA SetupOwnerKeeps ==
    ASSUME IInv, NEW r \in Req, SetupOwner(r)
    PROVE  IInv'
<1>1. phase = "on" /\ EnsureOwner /\ Done(r) /\ UNCHANGED <<role, made, phase, first, overtaken>>
  BY DEF SetupOwner, Goes, history
<1>2. req' \in [Req -> Request] /\ req'[r] = Idle /\ \A p \in Req \ {r} : req'[p] = req[p]
  BY <1>1, Fields DEF IInv
<1>3. Users' = Users /\ Admins' = Admins
  BY <1>1 DEF Users, Admins
<1>4. TypeOK' /\ AtMostOneOwner' /\ Stopped' /\ \A u \in Users' : u <= made'
  BY <1>1, <1>2, <1>3, EnsureOwnerTypes DEF IInv, TypeOK, Stopped
<1>5. ASSUME NEW q, Fits(q)
      PROVE  Fits(q)'
  <2>1. CASE owner = {} /\ Admins # {} /\ owner' = {Earliest} /\ Earliest \in Admins
    <3>1. ASSUME ~overtaken
          PROVE  q.at = "write" => q.on # Earliest
      BY <1>5, <2>1, <3>1 DEF Fits, Powerless, Admins
    <3>2. QED
      BY <1>1, <1>5, <2>1, <3>1 DEF Fits, Respects
  <2>2. CASE UNCHANGED owner
    BY <1>1, <1>5, <2>2, SameFits
  <2>3. QED
    BY <1>1, <2>1, <2>2, EnsureOwnerTypes
<1>6. \A p \in Req : Fits(req'[p])
  BY <1>2, IdleFits DEF IInv
<1>7. \A p \in Req : Fits(req[p])'
  BY <1>5, <1>6
<1>8. ASSUME ~overtaken'
      PROVE  Founded'
  <2>1. Founded
    BY <1>1, <1>8 DEF IInv
  <2>2. Users # {} => owner' # {}
    BY <1>1, <2>1, EnsureOwnerTypes DEF Founded
  <2>3. owner' \subseteq Admins /\ (owner' = {} => UNCHANGED <<owner, areas>>)
    BY <1>1, <2>1, EnsureOwnerTypes DEF Founded
  <2>4. QED
    BY <1>1, <1>3, <2>1, <2>2, <2>3 DEF Founded
<1>9. QED
  BY <1>4, <1>7, <1>8 DEF IInv

LEMMA CreateUserKeeps ==
    ASSUME IInv, NEW r \in Req, CreateUser(r)
    PROVE  IInv'
<1> DEFINE ro == req[r].to
           new(u) == IF ro = "admin" THEN [req[r] EXCEPT !.at = "areas", !.on = u] ELSE Idle
<1>1. PICK u \in User : Insert(u, ro) /\ req' = [req EXCEPT ![r] = new(u)]
  BY DEF CreateUser
<1>2. /\ phase = "on" /\ req[r].op = "create" /\ req[r].at = "begin"
      /\ ro = "admin" => req[r].actor.owner
      /\ ro = "editor" => CanReach(req[r].actor, "users")
      /\ UNCHANGED <<owner, areas, phase, first, overtaken>>
  BY DEF CreateUser, Goes, Actor, history
<1>3. req[r] \in Request /\ req \in [Req -> Request] /\ Fits(req[r]) /\ ro \in Role
  BY <1>2 DEF IInv, TypeOK, Fits
<1>4. /\ role' \in [User -> Role \cup {"none"}] /\ made' \in 0..MaxUser
      /\ Users' = Users \cup {u}
      /\ Admins' = IF ro = "admin" THEN Admins \cup {u} ELSE Admins
      /\ \A v \in Users' : v <= made'
  BY <1>1, <1>3, InsertIsFresh
<1>5. u \in 0..MaxUser
  BY AccountsAssumption DEF User
<1>6. ASSUME ~overtaken, owner = {}
      PROVE  ro = "restricted" /\ Admins # {}
  <2>1. ~req[r].actor.owner /\ req[r].actor.areas = {} /\ Admins # {}
    BY <1>2, <1>3, <1>6 DEF Fits, Powerless
  <2>2. ro # "admin" /\ ro # "editor"
    BY <1>2, <2>1, ManagesKids
  <2>3. QED
    BY <1>3, <2>1, <2>2 DEF Role
<1>7. new(u) \in Request /\ Fits(new(u)) /\ (ro = "restricted" => new(u) = Idle) /\ new(u).op # "setup"
  <2>1. CASE ro = "admin"
    <3>1. /\ new(u) \in Request /\ new(u).at = "areas" /\ new(u).op = "create" /\ new(u).to = ro
      BY <1>2, <1>3, <1>5, <2>1 DEF Request
    <3>2. ~overtaken => owner # {}
      BY <1>6, <2>1
    <3>3. QED
      BY <1>3, <2>1, <3>1, <3>2 DEF Fits, Respects
  <2>2. CASE ro # "admin"
    BY <2>2, IdleIsRequest, IdleFits
  <2>3. QED
    BY <2>1, <2>2
<1> HIDE DEF ro, new
<1>8. /\ req' \in [Req -> Request] /\ req'[r] = new(u)
      /\ \A p \in Req \ {r} : req'[p] = req[p]
  BY <1>1, <1>3, <1>7
<1>9. TypeOK' /\ AtMostOneOwner' /\ Stopped'
  BY <1>2, <1>4, <1>8 DEF IInv, TypeOK, AtMostOneOwner, Stopped
<1>10. \A p \in Req : Fits(req'[p])
  BY <1>7, <1>8 DEF IInv
<1>11. \A p \in Req : Fits(req[p])'
  BY <1>1, <1>2, <1>3, <1>10, InsertFits
<1>12. ASSUME ~overtaken'
       PROVE  Founded'
  <2>1. Founded
    BY <1>2, <1>12 DEF IInv
  <2>2. CASE owner # {}
    BY <1>2, <1>4, <2>1, <2>2 DEF Founded
  <2>3. CASE owner = {}
    <3>1. Admins' = Admins /\ Admins # {}
      BY <1>2, <1>4, <1>6, <1>12, <2>3
    <3>2. Users # {}
      BY <3>1 DEF Users, Admins
    <3>3. PICK p \in Req : req[p].op = "setup"
      BY <1>2, <2>1, <2>3, <3>2 DEF Founded
    <3>4. req'[p].op = "setup"
      BY <1>2, <1>8, <3>3
    <3>5. QED
      BY <1>2, <2>1, <2>3, <3>1, <3>4 DEF Founded
  <2>4. QED
    BY <2>2, <2>3
<1>13. QED
  BY <1>4, <1>9, <1>11, <1>12 DEF IInv

LEMMA UpdateUserKeeps ==
    ASSUME IInv, NEW r \in Req, UpdateUser(r)
    PROVE  IInv'
<1> DEFINE u == req[r].on
           to == req[r].to
<1>1. /\ phase = "on" /\ req[r].op = "update" /\ req[r].at = "write"
      /\ role' = [role EXCEPT ![u] = IF role[u] = "none" THEN "none" ELSE to]
      /\ \/ to = "admin" /\ Then(r, "areas")
         \/ Done(r)
      /\ UNCHANGED <<owner, areas, made, phase, first, overtaken>>
  BY DEF UpdateUser, Goes, history
<1>2. /\ req[r] \in Request /\ Fits(req[r]) /\ role \in [User -> Role \cup {"none"}]
      /\ u \in User
  BY <1>1 DEF IInv, TypeOK, Fits
<1>3. to \in Role \cup {"none"}
  BY <1>2 DEF Request
<1>4. /\ role' \in [User -> Role \cup {"none"}]
      /\ \A v \in User \ {u} : role'[v] = role[v]
      /\ role'[u] = IF role[u] = "none" THEN "none" ELSE to
  BY <1>1, <1>2, <1>3
<1>5. Users' \subseteq Users
  BY <1>4 DEF Users
<1>6. ASSUME ~overtaken, owner = {}
      PROVE  role[u] # "admin" /\ to = "restricted"
  BY <1>1, <1>2, <1>6 DEF Fits, Powerless
<1>7. ASSUME ~overtaken, u \in owner
      PROVE  to = "admin"
  BY <1>1, <1>2, <1>7 DEF Fits, Respects
<1>8. /\ req' \in [Req -> Request] /\ \A p \in Req \ {r} : req'[p] = req[p]
      /\ req'[r].op # "setup" /\ Fits(req'[r])
  <2>1. CASE Done(r)
    BY <2>1, IdleFits, Fields DEF IInv
  <2>2. CASE to = "admin" /\ Then(r, "areas")
    <3>1. /\ req' \in [Req -> Request] /\ req'[r].op = "update" /\ req'[r].at = "areas"
          /\ \A p \in Req \ {r} : req'[p] = req[p]
      BY <1>1, <2>2, Fields DEF IInv
    <3>2. ~overtaken => owner # {}
      BY <1>6, <2>2
    <3>3. QED
      BY <3>1, <3>2 DEF Fits, Respects
  <2>3. QED
    BY <1>1, <2>1, <2>2
<1> HIDE DEF u, to
<1>9. TypeOK' /\ AtMostOneOwner' /\ Stopped'
  BY <1>1, <1>4, <1>8 DEF IInv, TypeOK, AtMostOneOwner, Stopped
<1>10. \A v \in Users' : v <= made'
  BY <1>1, <1>5 DEF IInv
<1>11. ASSUME ~overtaken, owner = {}
       PROVE  Admins' = Admins /\ \A v \in User : role'[v] = "admin" <=> role[v] = "admin"
  BY <1>4, <1>6, <1>11 DEF Admins
<1>12. ASSUME NEW q, Fits(q)
       PROVE  Fits(q)'
  <2>1. ASSUME ~overtaken, owner = {}, q.at = "write"
        PROVE  role'[q.on] # "admin"
    BY <1>11, <1>12, <2>1 DEF Fits, Powerless
  <2>2. QED
    BY <1>1, <1>11, <1>12, <2>1 DEF Fits, Powerless, Respects
<1>13. \A p \in Req : Fits(req'[p])
  BY <1>8 DEF IInv
<1>14. \A p \in Req : Fits(req[p])'
  BY <1>12, <1>13
<1>15. ASSUME ~overtaken'
       PROVE  Founded'
  <2>1. Founded /\ ~overtaken
    BY <1>1, <1>15 DEF IInv
  <2>2. owner \subseteq Admins'
    BY <1>4, <1>7, <2>1 DEF Founded, Admins
  <2>3. (\E p \in Req : req[p].op = "setup") => \E p \in Req : req'[p].op = "setup"
    BY <1>1, <1>8
  <2>4. QED
    BY <1>1, <1>5, <1>11, <2>1, <2>2, <2>3 DEF Founded
<1>16. QED
  BY <1>9, <1>10, <1>14, <1>15 DEF IInv

LEMMA DeleteUserKeeps ==
    ASSUME IInv, NEW r \in Req, DeleteUser(r)
    PROVE  IInv'
<1> DEFINE u == req[r].on
<1>1. /\ phase = "on" /\ req[r].op = "delete" /\ req[r].at = "write"
      /\ role' = [role EXCEPT ![u] = "none"] /\ owner' = owner \ {u} /\ areas' = [areas EXCEPT ![u] = {}]
      /\ Done(r) /\ UNCHANGED <<made, phase, first, overtaken>>
  BY DEF DeleteUser, Goes, history
<1>2. Fits(req[r]) /\ role \in [User -> Role \cup {"none"}] /\ areas \in [User -> SUBSET Area] /\ u \in User
  BY <1>1 DEF IInv, TypeOK, Fits
<1>3. /\ role' \in [User -> Role \cup {"none"}] /\ areas' \in [User -> SUBSET Area]
      /\ \A v \in User \ {u} : role'[v] = role[v] /\ areas'[v] = areas[v]
      /\ role'[u] = "none" /\ areas'[u] = {}
  BY <1>1, <1>2
<1>4. ~overtaken => u \notin owner
  BY <1>1, <1>2 DEF Fits, Respects
<1>5. ~overtaken /\ owner = {} => role[u] # "admin"
  BY <1>1, <1>2 DEF Fits, Powerless
<1>6. req' \in [Req -> Request] /\ req'[r] = Idle /\ \A p \in Req \ {r} : req'[p] = req[p]
  BY <1>1, Fields DEF IInv
<1> HIDE DEF u
<1>7. TypeOK' /\ AtMostOneOwner' /\ Stopped'
  BY <1>1, <1>3, <1>6 DEF IInv, TypeOK, AtMostOneOwner, Stopped
<1>8. Users' \subseteq Users /\ \A v \in Users' : v <= made'
  BY <1>1, <1>3 DEF IInv, Users
<1>9. ASSUME ~overtaken, owner = {}
      PROVE  Admins' = Admins /\ \A v \in User : role'[v] = "admin" <=> role[v] = "admin"
  BY <1>3, <1>5, <1>9 DEF Admins
<1>10. ASSUME NEW q, Fits(q)
       PROVE  Fits(q)'
  <2>1. ASSUME ~overtaken
        PROVE  owner' = owner
    BY <1>1, <1>4, <2>1
  <2>2. ASSUME ~overtaken, owner = {}, q.at = "write"
        PROVE  role'[q.on] # "admin"
    BY <1>9, <1>10, <2>2 DEF Fits, Powerless
  <2>3. QED
    BY <1>1, <1>9, <1>10, <2>1, <2>2 DEF Fits, Powerless, Respects
<1>11. \A p \in Req : Fits(req'[p])
  BY <1>6, IdleFits DEF IInv
<1>12. \A p \in Req : Fits(req[p])'
  BY <1>10, <1>11
<1>13. ASSUME ~overtaken'
       PROVE  Founded'
  <2>1. Founded /\ ~overtaken /\ owner' = owner
    BY <1>1, <1>4, <1>13 DEF IInv
  <2>2. owner \subseteq Admins'
    BY <1>3, <1>4, <2>1 DEF Founded, Admins
  <2>3. owner = {} => \A v \in User : areas'[v] = {}
    BY <1>3, <2>1 DEF Founded
  <2>4. (\E p \in Req : req[p].op = "setup") => \E p \in Req : req'[p].op = "setup"
    BY <1>1, <1>6
  <2>5. QED
    BY <1>1, <1>8, <1>9, <2>1, <2>2, <2>3, <2>4 DEF Founded
<1>14. QED
  BY <1>7, <1>8, <1>12, <1>13 DEF IInv

\* A hand-over: nobody's request is about the new main admin, or it is overtaken.
LEMMA MakeOwnerKeeps ==
    ASSUME IInv, NEW r \in Req, MakeOwner(r)
    PROVE  IInv'
<1> DEFINE u == req[r].on
<1>1. /\ phase = "on" /\ req[r].op = "hand" /\ u \in Admins /\ owner' = {u}
      /\ areas' = [v \in User |-> IF v = u THEN {} ELSE IF v \in owner THEN Area ELSE areas[v]]
      /\ Done(r) /\ UNCHANGED <<role, made, phase, first>>
  BY DEF MakeOwner, Goes
<1>2. overtaken' = (overtaken \/ Found(r))
  BY DEF MakeOwner
<1>3. overtaken' \in BOOLEAN /\ (~overtaken' => ~overtaken /\ ~Found(r))
  BY <1>2
<1>4. req' \in [Req -> Request] /\ req'[r] = Idle /\ \A p \in Req \ {r} : req'[p] = req[p]
  BY <1>1, Fields DEF IInv
<1>5. areas' \in [User -> SUBSET Area] /\ u \in User
  BY <1>1 DEF IInv, TypeOK, Admins
<1> HIDE DEF u
<1>6. Users' = Users /\ Admins' = Admins
  BY <1>1 DEF Users, Admins
<1>7. TypeOK' /\ AtMostOneOwner' /\ Stopped' /\ \A v \in Users' : v <= made'
  BY <1>1, <1>3, <1>4, <1>5, <1>6 DEF IInv, TypeOK, AtMostOneOwner, Stopped
<1>8. ASSUME NEW p \in Req
      PROVE  Fits(req[p])'
  <2>1. CASE p = r
    <3>1. req'[p].op = "idle" /\ req'[p].at = "end"
      BY <1>4, <2>1, IdleFits
    <3>2. QED
      BY <1>1, <3>1 DEF Fits, Respects
  <2>2. CASE p # r
    <3>1. req'[p] = req[p] /\ Fits(req[p])
      BY <1>4, <2>2 DEF IInv
    <3>2. ~overtaken' => ~(req[p].at = "write" /\ req[p].on = u)
      BY <1>3 DEF Found, u
    <3>3. QED
      BY <1>1, <3>1, <3>2 DEF Fits, Respects
  <2>3. QED
    BY <2>1, <2>2
<1>9. ASSUME ~overtaken'
      PROVE  Founded'
  <2>1. Founded
    BY <1>3, <1>9 DEF IInv
  <2>2. QED
    BY <1>1, <1>6, <2>1 DEF Founded
<1>10. QED
  BY <1>7, <1>8, <1>9 DEF IInv

-----------------------------------------------------------------------------

LEMMA NextIInv ==
    ASSUME IInv, [Next]_vars
    PROVE  IInv'
<1>1. CASE UNCHANGED vars
  <2>1. UNCHANGED <<role, owner, areas, made, phase, req, first, overtaken>>
    BY <1>1 DEF vars, db, history
  <2>2. QED
    BY <2>1 DEF IInv, TypeOK, AtMostOneOwner, Stopped, Users, Admins, Fits, Powerless, Respects, Founded
<1>2. ASSUME NEW r \in Req, NEW u \in User, NEW v \in User, NEW ro \in Role,
             \/ Begin(r, "create", u, u, ro) \/ Begin(r, "update", u, v, ro)
             \/ \E op \in {"delete", "access", "hand"} : Begin(r, op, u, v, "none")
      PROVE  IInv'
  BY <1>2, BeginKeeps
<1>3. ASSUME NEW r \in Req,
             \/ Setup(r) \/ SetupOwner(r) \/ CreateUser(r) \/ DefaultAreas(r)
             \/ CheckUpdate(r) \/ UpdateUser(r) \/ CheckDelete(r) \/ DeleteUser(r) \/ CheckAccess(r)
             \/ UserAccess(r) \/ MakeOwner(r) \/ Refuse(r)
      PROVE  IInv'
  BY <1>3, SetupKeeps, SetupOwnerKeeps, CreateUserKeeps, DefaultAreasKeep, ChecksKeep, UpdateUserKeeps,
     DeleteUserKeeps, UserAccessKeeps, MakeOwnerKeeps, RefuseKeeps
<1>4. QED
  BY <1>1, <1>2, <1>3, FirstOwnerKeeps, BootstrapKeeps, BootstrapOwnerKeeps, CrashKeeps DEF Next

THEOREM AccountsInvariant == Spec => []IInv
  BY InitIInv, NextIInv, PTL DEF Spec

\* However setups, starts that end early, promotions and hand-overs interleave, there are
\* never two main admins (areas.go: MakeOwner clears the others in its transaction, EnsureOwner
\* acts only when there is none); and but for a hand-over that overtakes another request, one
\* account is made by setup or from the environment, and once there is an account and no setup
\* is under way there is a main admin who is an admin (areas_test.go: "The main admin can't be
\* demoted or deleted; it's handed over instead").
THEOREM MainAdminIsSafe == Spec => []MainAdminSafe
<1>1. IInv => TypeOK /\ AtMostOneOwner
  BY DEF IInv
<1>2. IInv => SetupOnce
  BY DEF IInv, SetupOnce, Founded
<1>3. IInv => MainAdminStands
  <2>1. SUFFICES ASSUME IInv, Settled, Users # {}, ~overtaken
                 PROVE  \E u \in owner : u \in Admins
    BY DEF MainAdminStands
  <2>2. Founded /\ phase = "on" /\ \A r \in Req : req[r].op # "setup"
    BY <2>1 DEF IInv, Settled
  <2>3. owner # {} /\ owner \subseteq Admins
    BY <2>1, <2>2 DEF Founded
  <2>4. QED
    BY <2>3
<1>4. QED
  BY <1>1, <1>2, <1>3, AccountsInvariant, PTL DEF MainAdminSafe

-----------------------------------------------------------------------------
(* Sign-ins. The end of a sign-in that was used is past the part of its    *)
(* life in which it is not moved.                                          *)

Slack(l) == S!Least(RenewAfter, l \div 2)

\* Its row is there just while it is signed in, and ends no earlier than the slack allows.
Lasts(s) ==
    /\ held[s] # S!NoUse => /\ held[s].at <= today
                            /\ session[s].end >= held[s].at + held[s].life - Slack(held[s].life)
    /\ held[s] = S!NoUse <=> session[s].end = 0

SignsFit == S!TypeOK /\ \A s \in Sign : Lasts(s)

LEMMA SlackFits ==
    ASSUME NEW l \in Nat
    PROVE  Slack(l) \in Nat /\ Slack(l) <= l
<1>1. l \div 2 \in Nat /\ l \div 2 <= l
  OBVIOUS
<1>. QED
  BY <1>1, SignAssumption DEF Slack, S!Least

\* The longest of the lives is one.
LEMMA LongestFits ==
    /\ S!MaxLife \in Nat
    /\ Short \in 1..S!MaxLife /\ Remembered \subseteq 1..S!MaxLife
<1> DEFINE Lives == Remembered \cup {Short}
<1>1. S!MaxLife \in Lives /\ \A y \in Lives : y <= S!MaxLife
  BY SignAssumption DEF S!MaxLife, S!Latest
<1>2. Lives \subseteq Nat \ {0}
  BY SignAssumption
<1>. QED
  BY <1>1, <1>2

LEMMA SignsFitInitially == S!Init => SignsFit
<1>. SUFFICES ASSUME S!Init
              PROVE  SignsFit
  OBVIOUS
<1>1. S!TypeOK
  BY SignAssumption, LongestFits DEF S!Init, S!TypeOK, S!NoRow, S!NoUse
<1>2. \A s \in Sign : Lasts(s)
  BY DEF S!Init, Lasts, S!NoRow, S!NoUse
<1>. QED
  BY <1>1, <1>2 DEF SignsFit

\* Whoever writes the row and its use of one sign-in and leaves the others has to fit it alone.
LEMMA OneSignFits ==
    ASSUME SignsFit, NEW s \in Sign, UNCHANGED <<today, life>>,
           NEW r \in [end : 0..(MaxClock + S!MaxLife), remember : BOOLEAN],
           NEW u \in 0..S!MaxLife, NEW h \in [at : 0..MaxClock, life : 0..S!MaxLife],
           session' = [session EXCEPT ![s] = r], using' = [using EXCEPT ![s] = u], held' = [held EXCEPT ![s] = h],
           h # S!NoUse => h.at <= today /\ r.end >= h.at + h.life - Slack(h.life),
           h = S!NoUse <=> r.end = 0
    PROVE  SignsFit'
<1>1. S!TypeOK'
  BY DEF SignsFit, S!TypeOK
<1>2. ASSUME NEW t \in Sign
      PROVE  Lasts(t)'
  <2>1. CASE t = s
    <3>1. session'[t] = r /\ held'[t] = h /\ UNCHANGED today
      BY <2>1 DEF SignsFit, S!TypeOK
    <3>. QED
      BY <3>1 DEF Lasts, Slack, S!Least, S!NoUse
  <2>2. CASE t # s
    <3>1. session'[t] = session[t] /\ held'[t] = held[t] /\ Lasts(t)
      BY <2>2 DEF SignsFit, S!TypeOK
    <3>. QED
      BY <3>1 DEF Lasts, Slack, S!Least, S!NoUse
  <2>. QED
    BY <2>1, <2>2
<1>. QED
  BY <1>1, <1>2 DEF SignsFit

LEMMA SignsKeep ==
    ASSUME SignsFit, [S!Next]_sessionVars
    PROVE  SignsFit'
<1>. USE LongestFits, SignAssumption
<1>0. /\ today \in 1..MaxClock /\ life \in Remembered /\ life \in 1..S!MaxLife /\ MaxClock \in Nat
      /\ session \in [Sign -> [end : 0..(MaxClock + S!MaxLife), remember : BOOLEAN]]
      /\ using \in [Sign -> 0..S!MaxLife]
      /\ held \in [Sign -> [at : 0..MaxClock, life : 0..S!MaxLife]]
      /\ \A b \in BOOLEAN : S!Life(b) \in 1..S!MaxLife
  BY DEF SignsFit, S!TypeOK, S!Life
<1>1. CASE S!Tick
  BY <1>0, <1>1 DEF S!Tick, SignsFit, S!TypeOK, Lasts, Slack, S!Least, S!NoUse
<1>2. CASE S!SetDays
  BY <1>0, <1>2 DEF S!SetDays, SignsFit, S!TypeOK, Lasts, Slack, S!Least, S!NoUse
<1>3. CASE S!DeleteUserSessions
  BY <1>0, <1>3 DEF S!DeleteUserSessions, SignsFit, S!TypeOK, Lasts, Slack, S!Least, S!NoUse, S!NoRow
<1>4. CASE S!PurgeExpired
  BY <1>0, <1>4 DEF S!PurgeExpired, SignsFit, S!TypeOK, Lasts, Slack, S!Least, S!NoUse, S!NoRow, S!Valid
<1>5. ASSUME NEW s \in Sign, NEW b \in BOOLEAN, S!Login(s, b)
      PROVE  SignsFit'
  <2> DEFINE r == [end |-> today + S!Life(b), remember |-> b]
             h == [at |-> today, life |-> S!Life(b)]
  <2>1. S!Life(b) \in 1..S!MaxLife /\ Slack(S!Life(b)) \in Nat
    BY <1>0, SlackFits
  <2>2. /\ r \in [end : 0..(MaxClock + S!MaxLife), remember : BOOLEAN]
        /\ h \in [at : 0..MaxClock, life : 0..S!MaxLife]
    BY <1>0, <2>1
  <2>3. using' = [using EXCEPT ![s] = using[s]] /\ using[s] \in 0..S!MaxLife
    BY <1>0, <1>5 DEF S!Login
  <2>4. h # S!NoUse /\ r.end # 0 /\ h.at <= today /\ r.end >= h.at + h.life - Slack(h.life)
    BY <1>0, <2>1 DEF S!NoUse
  <2>. QED
    BY <1>5, <2>2, <2>3, <2>4, OneSignFits DEF S!Login, S!startSession
<1>6. ASSUME NEW s \in Sign, S!Use(s)
      PROVE  SignsFit'
  <2> DEFINE l == S!Life(session[s].remember)
             h == [at |-> today, life |-> l]
  <2>0. Lasts(s) /\ session[s] \in [end : 0..(MaxClock + S!MaxLife), remember : BOOLEAN]
    BY <1>0 DEF SignsFit
  <2>1. l \in 1..S!MaxLife /\ session[s].end \in Nat /\ held[s] # S!NoUse /\ Slack(l) \in Nat
    BY <1>0, <1>6, <2>0, SlackFits DEF Lasts, S!Use, S!Valid
  <2>2. CASE S!Due(s, l)
    <3>1. /\ using' = [using EXCEPT ![s] = l]
          /\ held' = [held EXCEPT ![s] = held[s]] /\ session' = [session EXCEPT ![s] = session[s]]
      BY <1>0, <1>6, <2>2 DEF S!Use
    <3>2. /\ UNCHANGED <<today, life>>
          /\ l \in 0..S!MaxLife /\ held[s] \in [at : 0..MaxClock, life : 0..S!MaxLife]
      BY <1>0, <1>6, <2>1 DEF S!Use
    <3>3. /\ held[s] # S!NoUse => held[s].at <= today /\ session[s].end >= held[s].at + held[s].life - Slack(held[s].life)
          /\ held[s] = S!NoUse <=> session[s].end = 0
      BY <2>0 DEF Lasts
    <3>. QED
      BY <2>0, <3>1, <3>2, <3>3, OneSignFits
  <2>3. CASE ~S!Due(s, l)
    <3>1. /\ using' = [using EXCEPT ![s] = using[s]]
          /\ held' = [held EXCEPT ![s] = h] /\ session' = [session EXCEPT ![s] = session[s]]
      BY <1>0, <1>6, <2>1, <2>3 DEF S!Use, S!Served
    <3>2. session[s].end >= h.at + h.life - Slack(h.life)
      BY <1>0, <2>1, <2>3 DEF S!Due, Slack
    <3>3. h \in [at : 0..MaxClock, life : 0..S!MaxLife] /\ h # S!NoUse /\ h.at <= today
      BY <1>0, <2>1 DEF S!NoUse
    <3>4. session[s].end # 0 /\ using[s] \in 0..S!MaxLife
      BY <1>0, <2>0, <2>1 DEF Lasts
    <3>. QED
      BY <1>6, <2>0, <3>1, <3>2, <3>3, <3>4, OneSignFits DEF S!Use
  <2>. QED
    BY <2>2, <2>3
<1>7. ASSUME NEW s \in Sign, S!Extend(s)
      PROVE  SignsFit'
  <2> DEFINE l == using[s]
             r == IF session[s].end = 0 THEN session[s] ELSE [session[s] EXCEPT !.end = today + l]
             h == IF held[s] = S!NoUse THEN held[s] ELSE [at |-> today, life |-> l]
  <2>0. /\ Lasts(s) /\ session[s] \in [end : 0..(MaxClock + S!MaxLife), remember : BOOLEAN]
        /\ l \in 1..S!MaxLife /\ held[s] \in [at : 0..MaxClock, life : 0..S!MaxLife]
    BY <1>0, <1>7 DEF SignsFit, S!Extend
  <2>1. /\ using' = [using EXCEPT ![s] = 0]
        /\ session' = [session EXCEPT ![s] = r]
        /\ held' = [held EXCEPT ![s] = h]
    BY <1>0, <1>7 DEF S!Extend, S!Served
  <2>2. r \in [end : 0..(MaxClock + S!MaxLife), remember : BOOLEAN] /\ h \in [at : 0..MaxClock, life : 0..S!MaxLife]
    BY <1>0, <2>0
  <2>3. h = S!NoUse <=> r.end = 0
    BY <1>0, <2>0 DEF Lasts, S!NoUse
  <2>4. h # S!NoUse => h.at <= today /\ r.end >= h.at + h.life - Slack(h.life)
    BY <1>0, <2>0, SlackFits DEF Lasts, S!NoUse
  <2>5. UNCHANGED <<today, life>> /\ 0 \in 0..S!MaxLife
    BY <1>0, <1>7 DEF S!Extend
  <2> HIDE DEF r, h
  <2>. QED
    BY <2>1, <2>2, <2>3, <2>4, <2>5, OneSignFits
<1>8. ASSUME NEW s \in Sign, S!Logout(s)
      PROVE  SignsFit'
  <2>1. using' = [using EXCEPT ![s] = using[s]] /\ using[s] \in 0..S!MaxLife
    BY <1>0, <1>8 DEF S!Logout
  <2>2. /\ S!NoRow \in [end : 0..(MaxClock + S!MaxLife), remember : BOOLEAN] /\ S!NoRow.end = 0
        /\ S!NoUse \in [at : 0..MaxClock, life : 0..S!MaxLife]
    BY <1>0 DEF S!NoRow, S!NoUse
  <2>. QED
    BY <1>8, <2>1, <2>2, OneSignFits DEF S!Logout
<1>9. CASE UNCHANGED sessionVars
  BY <1>9 DEF sessionVars, SignsFit, S!TypeOK, Lasts, Slack, S!Least, S!NoUse
<1>. QED
  BY <1>1, <1>2, <1>3, <1>4, <1>5, <1>6, <1>7, <1>8, <1>9 DEF S!Next

\* Whoever comes back within half of a sign-in's length is signed in, and what was ended
\* stays ended (auth.go: current extends a session that is half used; users.go: ExtendSession
\* updates the row it still finds).
THEOREM SignInsAreKept == MCSpec => []SignInsLast
<1> DEFINE Fit == running = "sessions" => SignsFit
<1>1. MCInit => Fit
  BY SignsFitInitially DEF MCInit
<1>2. Fit /\ [MCNext]_allVars => Fit'
  <2>1. ASSUME [MCNext]_allVars, running' = "sessions"
        PROVE  running = "sessions" /\ [S!Next]_sessionVars
    BY <2>1 DEF MCNext, allVars
  <2>. QED
    BY <2>1, SignsKeep
<1>3. Fit => SignInsLast
  <2>1. SUFFICES ASSUME SignsFit
                 PROVE  S!TypeOK /\ S!StaysSignedIn /\ S!EndedStaysEnded
    BY DEF SignInsLast
  <2>2. ASSUME NEW s \in Sign, held[s] # S!NoUse, today - held[s].at < held[s].life - Slack(held[s].life)
        PROVE  session[s].end > today
    <3>1. /\ today \in Nat /\ held[s].at \in Nat /\ held[s].life \in Nat /\ session[s].end \in Nat
          /\ Slack(held[s].life) \in Nat
      BY <2>1, LongestFits, SlackFits, SignAssumption DEF SignsFit, S!TypeOK
    <3>. QED
      BY <2>1, <2>2, <3>1 DEF SignsFit, Lasts
  <2>. QED
    BY <2>1, <2>2 DEF SignsFit, Lasts, S!StaysSignedIn, S!EndedStaysEnded, S!Valid, Slack
<1>. QED
  BY <1>1, <1>2, <1>3, PTL DEF MCSpec

-----------------------------------------------------------------------------
(* The PIN. The lock comes with the wrong answer that is one too many; till *)
(* it is over each wrong answer takes one of the requests that were past   *)
(* it, and no other gets there.                                            *)

Asked == {v \in Visit : visit[v] = "asked"}

LockFits ==
    /\ F!TypeOK
    /\ fails = wrong /\ lockedAt <= clock
    /\ wrong >= Tries => until >= lockedAt + 1
    /\ wrong >= Tries /\ clock < lockedAt + 1 => wrong + Cardinality(Asked) <= Tries + Cardinality(Visit) - 1

LEMMA LockHasLength ==
    ASSUME NEW n \in Nat, n >= Tries
    PROVE  F!Lock(n) \in 1..MaxLock
<1>1. F!Least(n - Tries, MaxShift) \in 0..MaxShift
  BY LockAssumption DEF F!Least
<1>2. 2 ^ F!Least(n - Tries, MaxShift) \in Nat \ {0}
  BY <1>1, LockAssumption
<1>. QED
  BY <1>2, LockAssumption DEF F!Lock, F!Least

\* The parts count as this module does.
LEMMA SameCount == \A s : F!Cardinality(s) = Cardinality(s) /\ E!Cardinality(s) = Cardinality(s) /\ R!Cardinality(s) = Cardinality(s)
  BY DEF F!Cardinality, E!Cardinality, R!Cardinality, Cardinality

LEMMA AskedCounts ==
    /\ IsFiniteSet(Asked) /\ Cardinality(Asked) \in Nat /\ Cardinality(Asked) <= Cardinality(Visit)
    /\ Cardinality(Visit) \in Nat
  BY LockAssumption, FS_Subset, FS_CardinalityType DEF Asked

LEMMA LockFitsInitially == F!Init => LockFits
<1>. SUFFICES ASSUME F!Init
              PROVE  LockFits
  OBVIOUS
<1>1. {device, parent, pin} \subseteq BOOLEAN
  BY DEF F!Init
<1>2. clock = 0 /\ fails = 0 /\ wrong = 0 /\ until = 0 /\ lockedAt = 0 /\ visit = [v \in Visit |-> "idle"]
  BY DEF F!Init
<1>3. F!TypeOK
  BY <1>1, <1>2, LockAssumption, SignAssumption DEF F!TypeOK
<1>. QED
  BY <1>2, <1>3, LockAssumption DEF LockFits

LEMMA LockKeeps ==
    ASSUME LockFits, [F!Next]_familyVars
    PROVE  LockFits'
<1>. USE LockAssumption
<1>0. /\ clock \in 0..MaxClock /\ {device, parent, pin} \subseteq BOOLEAN /\ MaxClock \in Nat
      /\ fails \in 0..MaxWrong /\ wrong \in 0..MaxWrong
      /\ until \in 0..(MaxClock + MaxLock) /\ lockedAt \in 0..MaxClock
      /\ visit \in [Visit -> {"idle", "asked"}]
      /\ fails = wrong /\ lockedAt <= clock
      /\ wrong >= Tries => until >= lockedAt + 1
      /\ wrong >= Tries /\ clock < lockedAt + 1 => wrong + Cardinality(Asked) <= Tries + Cardinality(Visit) - 1
  BY SignAssumption DEF LockFits, F!TypeOK
\* Nothing is counted of no wrong answers.
<1>a. ASSUME F!TypeOK', wrong' = 0, fails' = 0, UNCHANGED <<clock, lockedAt>>
      PROVE  LockFits'
  BY <1>0, <1>a DEF LockFits
\* What neither counts nor asks.
<1>b. ASSUME UNCHANGED <<fails, until, visit, wrong, lockedAt>>, clock' \in 0..MaxClock, clock <= clock',
             {device', parent', pin'} \subseteq BOOLEAN
      PROVE  LockFits'
  <2>1. F!TypeOK'
    BY <1>0, <1>b DEF F!TypeOK
  <2>2. Asked' = Asked
    BY <1>b DEF Asked
  <2>3. Cardinality(Asked') = Cardinality(Asked)
    BY <2>2
  <2>. QED
    BY <1>0, <1>b, <2>1, <2>3 DEF LockFits
<1>1. CASE F!Tick
  BY <1>0, <1>1, <1>b DEF F!Tick
<1>2. CASE F!Restart
  BY <1>0, <1>2, <1>a DEF F!Restart, F!Forgotten, F!TypeOK
<1>3. CASE F!MakeFamilyDevice
  BY <1>0, <1>3, <1>b DEF F!MakeFamilyDevice
<1>4. CASE F!RemoveFamilyDevice
  <2>1. /\ device' = FALSE /\ fails' = 0 /\ until' = 0 /\ wrong' = 0
        /\ UNCHANGED <<clock, parent, pin, visit, lockedAt>>
    BY <1>4 DEF F!RemoveFamilyDevice, F!Forgotten
  <2>2. {device', parent', pin'} \subseteq BOOLEAN
    BY <1>0, <2>1
  <2>3. F!TypeOK'
    BY <1>0, <2>1, <2>2 DEF F!TypeOK
  <2>. QED
    BY <2>1, <2>3, <1>a
<1>5. CASE F!SetPIN
  BY <1>0, <1>5, <1>b DEF F!SetPIN
<1>6. ASSUME NEW v \in Visit, F!Ask(v)
      PROVE  LockFits'
  <2>1. F!TypeOK'
    BY <1>0, <1>6 DEF F!Ask, F!TypeOK
  <2>2. UNCHANGED <<clock, fails, wrong, until, lockedAt>> /\ until <= clock
    BY <1>6 DEF F!Ask
  <2>. QED
    BY <1>0, <2>1, <2>2 DEF LockFits
<1>7. ASSUME NEW v \in Visit, F!Failed(v)
      PROVE  LockFits'
  <2>1. /\ visit[v] = "asked" /\ wrong' = wrong + 1 /\ fails' = wrong' /\ wrong' \in 0..MaxWrong
        /\ visit' = [visit EXCEPT ![v] = "idle"]
        /\ until' = IF wrong' >= Tries THEN clock + F!Lock(wrong') ELSE until
        /\ lockedAt' = IF wrong' = Tries THEN clock ELSE lockedAt
        /\ UNCHANGED <<clock, device, parent, pin>>
    BY <1>0, <1>7 DEF F!Failed
  <2>2. wrong' >= Tries => F!Lock(wrong') \in 1..MaxLock
    BY <1>0, <2>1, LockHasLength
  <2>3. F!TypeOK'
    BY <1>0, <2>1, <2>2 DEF F!TypeOK
  <2>4. lockedAt' <= clock' /\ (wrong' >= Tries => until' >= lockedAt' + 1)
    BY <1>0, <2>1, <2>2
  <2>5. Asked' = Asked \ {v} /\ v \in Asked
    BY <1>0, <2>1 DEF Asked
  <2>6. Cardinality(Asked \ {v}) = Cardinality(Asked) - 1
    BY <2>5, AskedCounts, FS_RemoveElement
  <2>7. Cardinality(Asked') = Cardinality(Asked) - 1
    BY <2>5, <2>6
  <2>8. ASSUME wrong' >= Tries, clock' < lockedAt' + 1
        PROVE  wrong' + Cardinality(Asked') <= Tries + Cardinality(Visit) - 1
    BY <1>0, <2>1, <2>7, <2>8, AskedCounts
  <2>. QED
    BY <2>1, <2>3, <2>4, <2>8 DEF LockFits
<1>8. ASSUME NEW v \in Visit, F!Passed(v)
      PROVE  LockFits'
  BY <1>0, <1>8, <1>a DEF F!Passed, F!Forgotten, F!TypeOK
<1>9. CASE UNCHANGED familyVars
  BY <1>0, <1>9, <1>b DEF familyVars
<1>. QED
  BY <1>1, <1>2, <1>3, <1>4, <1>5, <1>6, <1>7, <1>8, <1>9 DEF F!Next

\* Wrong answers beyond the allowed ones are at most one of each request that was past the
\* lock as it came (family_handlers.go: wait, the check, failed; family.go: locks for longer
\* and longer).
THEOREM LockIsKept == MCSpec => []LockHolds
<1> DEFINE Fit == running = "family" => LockFits
<1>1. MCInit => Fit
  BY LockFitsInitially DEF MCInit
<1>2. Fit /\ [MCNext]_allVars => Fit'
  <2>1. ASSUME [MCNext]_allVars, running' = "family"
        PROVE  running = "family" /\ [F!Next]_familyVars
    BY <2>1 DEF MCNext, allVars
  <2>. QED
    BY <2>1, LockKeeps
<1>3. Fit => LockHolds
  <2>1. ASSUME LockFits, wrong >= Tries, clock < lockedAt + 1
        PROVE  wrong <= Tries + Cardinality(Visit) - 1
    <3>1. wrong \in Nat /\ Tries \in Nat
      BY <2>1, LockAssumption DEF LockFits, F!TypeOK
    <3>. QED
      BY <2>1, <3>1, AskedCounts DEF LockFits
  <2>2. LockFits => F!TypeOK /\ F!LockHolds
    BY <2>1, SameCount DEF LockFits, F!LockHolds
  <2>. QED
    BY <2>2 DEF LockHolds
<1>. QED
  BY <1>1, <1>2, <1>3, PTL DEF MCSpec

-----------------------------------------------------------------------------
(* The files of an e-reader. A job that found a file's book before the     *)
(* person chose knows that it did (old); of the other files on its list it *)
(* found what the person said, or has listed them because no book was said, *)
(* or it asks the person once more.                                         *)

JobState == [at : {"idle", "look", "files", "doc", "add"}, of : SUBSET Doc, left : SUBSET Doc, seen : [Doc -> E!Row],
             old : SUBSET Doc]

\* Who asks the person once more may have a file listed that the person chose a book for.
AsksAgain(j, q) == j = "rematch" /\ q.at = "files"

\* A row says what the person chose.
Tells(r, c) == c # E!NoRow => r.ignored = c.ignored /\ (c.book # NoBook => r = c)

JobFits(j, q, c) ==
    /\ j \in {"import", "report"} /\ q.at = "look" => \A d \in (q.of \ q.left) \ q.old : Tells(q.seen[d], c[d])
    /\ j \in {"rematch", "resolve"} /\ ~AsksAgain(j, q) => \A d \in q.left \ q.old : c[d].book = NoBook

RowsTell(k, w, l, c) == \A t \in E!Table : \A d \in k[t] \ l[t] : Tells(w[t][d], c[d])

ReaderFits ==
    /\ E!TypeOK
    /\ job \in [E!Job -> JobState]
    /\ \A j \in E!Job : JobFits(j, job[j], choice)
    /\ RowsTell(known, row, late, choice)

LEMMA ReaderTypes ==
    ASSUME ReaderFits
    PROVE  /\ fits \in [Doc -> SUBSET ReaderBook]
           /\ docs \in [Doc -> ReaderBook \cup {NoBook}]
           /\ known \in [E!Table -> SUBSET Doc] /\ row \in [E!Table -> [Doc -> E!Row]]
           /\ choice \in [Doc -> E!Row]
           /\ shelf \subseteq ReaderBook
           /\ job \in [E!Job -> JobState]
           /\ late \in [E!Table -> SUBSET Doc]
           /\ RowsTell(known, row, late, choice)
  BY DEF ReaderFits, E!TypeOK

LEMMA IdleJob ==
    /\ E!NoRow \in E!Row
    /\ E!Idle \in JobState /\ E!Idle.at = "idle" /\ E!Idle.left = {} /\ E!Idle.of = {} /\ E!Idle.old = {}
    /\ E!Idle.seen \in [Doc -> E!Row]
    /\ \A j, c : JobFits(j, E!Idle, c)
<1>1. E!NoRow \in E!Row
  BY DEF E!NoRow, E!Row
<1>. QED
  BY <1>1 DEF E!Idle, JobState, JobFits

\* A step that leaves the choices and writes one job has to fit that job and the rows.
LEMMA OneJobFits ==
    ASSUME ReaderFits, NEW j \in E!Job, NEW q \in JobState, JobFits(j, q, choice),
           job' = [job EXCEPT ![j] = q], choice' = choice,
           fits' \in [Doc -> SUBSET ReaderBook], docs' \in [Doc -> ReaderBook \cup {NoBook}],
           known' \in [E!Table -> SUBSET Doc], row' \in [E!Table -> [Doc -> E!Row]],
           shelf' \subseteq ReaderBook, late' \in [E!Table -> SUBSET Doc],
           RowsTell(known', row', late', choice)
    PROVE  ReaderFits'
<1>1. job' \in [E!Job -> JobState]
  BY ReaderTypes
<1>2. E!TypeOK'
  BY <1>1, ReaderTypes DEF E!TypeOK, JobState
<1>3. \A i \in E!Job : JobFits(i, job'[i], choice)
  BY DEF ReaderFits
<1>. QED
  BY <1>1, <1>2, <1>3 DEF ReaderFits

LEMMA FindFits ==
    ASSUME ReaderFits, NEW d \in Doc
    PROVE  /\ E!MatchBook(d) \in ReaderBook \cup {NoBook} /\ E!DocBook(d) \in ReaderBook \cup {NoBook}
           /\ E!Find(d) \in E!Row /\ Tells(E!Find(d), choice[d])
<1>1. E!MatchBook(d) \in ReaderBook \cup {NoBook}
  <2>1. CASE E!Cardinality(fits[d]) = 1
    <3>1. fits[d] # {}
      BY <2>1, SameCount, FS_EmptySet
    <3>2. fits[d] \subseteq ReaderBook
      BY ReaderTypes
    <3>. QED
      BY <2>1, <3>1, <3>2 DEF E!MatchBook, E!Only
  <2>. QED
    BY <2>1 DEF E!MatchBook, E!Only
<1>2. E!DocBook(d) \in ReaderBook \cup {NoBook}
  BY <1>1, ReaderTypes DEF E!DocBook
<1>3. E!Find(d) \in E!Row /\ Tells(E!Find(d), choice[d])
  BY <1>2, ReaderTypes DEF E!Find, E!Override, E!Row, Tells
<1>. QED
  BY <1>1, <1>2, <1>3

\* A list of files that have no book knows which of its files have a late row.
LEMMA TakeFits ==
    ASSUME ReaderFits, NEW j \in {"rematch", "resolve"}, NEW at \in {"look", "files"}, NEW t \in E!Table,
           NEW s \in SUBSET Doc, NEW rest \in SUBSET Doc,
           (j = "rematch" /\ at = "files") \/ s \subseteq {d \in known[t] : row[t][d].book = NoBook},
           E!Take(j, at, t, s, rest), UNCHANGED <<fits, docs, known, row, choice, shelf, late>>
    PROVE  ReaderFits'
<1> DEFINE q == [E!Idle EXCEPT !.at = at, !.left = s, !.of = rest, !.old = s \cap late[t]]
<1>1. (s \cap late[t]) \in SUBSET Doc
  BY ReaderTypes
<1>2. q.at = at /\ q.left = s /\ q.old = s \cap late[t]
  BY IdleJob DEF JobState
<1>3. q \in JobState
  BY <1>1, IdleJob DEF JobState
<1>4. ASSUME ~(j = "rematch" /\ at = "files"), NEW d \in s \ (s \cap late[t])
      PROVE  choice[d].book = NoBook
  <2>1. Tells(row[t][d], choice[d]) /\ row[t][d].book = NoBook
    BY <1>4, ReaderTypes DEF RowsTell
  <2>. QED
    BY <2>1 DEF Tells, E!NoRow
<1>5. JobFits(j, q, choice)
  BY <1>2, <1>4 DEF JobFits, AsksAgain
<1>6. job' = [job EXCEPT ![j] = q] /\ j \in E!Job
  BY DEF E!Take, E!Job
<1> HIDE DEF q
<1>. QED
  BY <1>3, <1>5, <1>6, ReaderTypes, OneJobFits

\* Writing a book in the row of a file on its list.
LEMMA LinkFits ==
    ASSUME ReaderFits, NEW j \in {"rematch", "resolve"}, NEW t \in E!Table, NEW d \in job[j].left,
           NEW b \in ReaderBook \cup {NoBook}, E!Link(t, j, d, b),
           d \notin job[j].old => choice[d].book \in {NoBook, b}
    PROVE  /\ row' \in [E!Table -> [Doc -> E!Row]] /\ late' \in [E!Table -> SUBSET Doc]
           /\ RowsTell(known, row', late', choice)
<1>1. d \in Doc /\ job[j].old \subseteq Doc /\ j \in E!Job
  BY ReaderTypes DEF JobState, E!Job
<1> DEFINE r == [row[t][d] EXCEPT !.book = IF d \in known[t] THEN b ELSE row[t][d].book]
           l == IF d \in known[t] /\ d \in job[j].old THEN late[t] \cup {d} ELSE late[t]
<1>2. row[t] \in [Doc -> E!Row] /\ row[t][d] \in E!Row
  BY <1>1, ReaderTypes
<1>3. r \in E!Row /\ r.ignored = row[t][d].ignored
  BY <1>2 DEF E!Row
<1>4. row' = [row EXCEPT ![t] = [row[t] EXCEPT ![d] = r]] /\ late' = [late EXCEPT ![t] = l]
  BY DEF E!Link
<1>5. /\ row' \in [E!Table -> [Doc -> E!Row]]
      /\ row'[t][d] = r /\ \A u \in E!Table, e \in Doc : <<u, e>> # <<t, d>> => row'[u][e] = row[u][e]
  <2> HIDE DEF r
  <2>. QED
    BY <1>1, <1>2, <1>3, <1>4, ReaderTypes
<1>6. l \in SUBSET Doc /\ late' \in [E!Table -> SUBSET Doc]
  BY <1>1, <1>4, ReaderTypes
<1>7. ASSUME NEW u \in E!Table, NEW e \in known[u] \ late'[u]
      PROVE  Tells(row'[u][e], choice[e])
  <2>0. e \in Doc /\ e \notin late[u] /\ Tells(row[u][e], choice[e])
    BY <1>4, <1>7, ReaderTypes DEF RowsTell
  <2>1. CASE <<u, e>> = <<t, d>>
    <3>1. d \notin job[j].old
      BY <1>4, <1>7, <2>1, ReaderTypes
    <3>2. choice[d].book = NoBook \/ choice[d].book = b
      BY <3>1
    <3>3. CASE choice[d].book = NoBook
      BY <1>3, <1>5, <2>0, <2>1, <3>3 DEF Tells
    <3>4. CASE choice[d].book = b /\ choice[d].book # NoBook
      <4>1. choice[d] # E!NoRow
        BY <3>4 DEF E!NoRow
      <4>2. row[t][d] = choice[d]
        BY <2>0, <2>1, <3>4, <4>1 DEF Tells
      <4>3. r = row[t][d]
        BY <1>2, <3>4, <4>2 DEF E!Row
      <4>. QED
        BY <1>5, <2>1, <4>2, <4>3 DEF Tells
    <3>. QED
      BY <3>2, <3>3, <3>4
  <2>2. CASE <<u, e>> # <<t, d>>
    BY <1>5, <2>0, <2>2
  <2>. QED
    BY <2>1, <2>2
<1>. QED
  BY <1>5, <1>6, <1>7 DEF RowsTell


LEMMA ReaderFitsInitially == E!Init => ReaderFits
<1>. SUFFICES ASSUME E!Init
              PROVE  ReaderFits
  OBVIOUS
<1>1. job \in [E!Job -> JobState] /\ \A j \in E!Job : JobFits(j, job[j], choice)
  BY IdleJob DEF E!Init
<1>2. E!TypeOK
  BY <1>1, IdleJob DEF E!Init, E!TypeOK, JobState
<1>3. RowsTell(known, row, late, choice)
  BY DEF E!Init, RowsTell
<1>. QED
  BY <1>1, <1>2, <1>3 DEF ReaderFits

\* The person chooses: what was looked up before is old for every job.
LEMMA ApplyMatchFits ==
    ASSUME ReaderFits, NEW d \in Doc, NEW c \in E!Row, E!ApplyMatch(d, c)
    PROVE  ReaderFits'
<1> DEFINE m == IF c.book # NoBook THEN [E!Idle EXCEPT !.at = "doc", !.left = {d}, !.seen[d] = c] ELSE E!Idle
           o(j) == IF E!Looked(j, d) THEN job[j].old \cup {d} ELSE job[j].old
           q(j) == IF j = "match" THEN m ELSE [job[j] EXCEPT !.old = o(j)]
           w(t) == [row[t] EXCEPT ![d] = IF d \in known[t] THEN c ELSE row[t][d]]
<1>1. /\ choice' = [choice EXCEPT ![d] = c]
      /\ row' = [t \in E!Table |-> w(t)]
      /\ late' = [t \in E!Table |-> late[t] \ {d}]
      /\ job' = [j \in E!Job |-> q(j)]
      /\ UNCHANGED <<fits, docs, known, shelf>>
  BY DEF E!ApplyMatch
<1>2. m \in JobState
  BY IdleJob DEF JobState
<1>3. ASSUME NEW j \in E!Job, j # "match"
      PROVE  /\ q(j) \in JobState /\ q(j).at = job[j].at /\ q(j).of = job[j].of /\ q(j).left = job[j].left
             /\ q(j).seen = job[j].seen /\ q(j).old = o(j) /\ o(j) \subseteq Doc
  BY <1>3, ReaderTypes DEF JobState
<1>4. ASSUME NEW t \in E!Table
      PROVE  /\ w(t) \in [Doc -> E!Row] /\ w(t)[d] = (IF d \in known[t] THEN c ELSE row[t][d])
             /\ \A e \in Doc \ {d} : w(t)[e] = row[t][e]
  BY ReaderTypes
<1>5. choice' \in [Doc -> E!Row] /\ choice'[d] = c /\ \A e \in Doc \ {d} : choice'[e] = choice[e]
  BY <1>1, ReaderTypes
<1>6. ASSUME NEW j \in E!Job
      PROVE  q(j) \in JobState /\ JobFits(j, q(j), choice')
  <2>1. CASE j = "match"
    BY <1>2, <2>1 DEF JobFits
  <2>2. CASE j \in {"import", "report"}
    <3>1. ASSUME q(j).at = "look", NEW e \in (q(j).of \ q(j).left) \ q(j).old
          PROVE  Tells(q(j).seen[e], choice'[e])
      <4>1. e \in Doc /\ job[j].at = "look" /\ e \in (job[j].of \ job[j].left) \ job[j].old
        BY <1>3, <2>2, <3>1, ReaderTypes DEF JobState
      <4>2. e # d
        BY <1>3, <2>2, <3>1, <4>1 DEF E!Looked
      <4>3. q(j).seen = job[j].seen /\ Tells(job[j].seen[e], choice[e])
        BY <1>3, <2>2, <4>1 DEF ReaderFits, JobFits
      <4>. QED
        BY <1>5, <4>1, <4>2, <4>3
    <3>2. q(j) \in JobState
      BY <1>3, <2>2
    <3> HIDE DEF q
    <3>. QED
      BY <2>2, <3>1, <3>2 DEF JobFits
  <2>3. CASE j \in {"rematch", "resolve"}
    <3>1. ASSUME ~AsksAgain(j, q(j)), NEW e \in q(j).left \ q(j).old
          PROVE  choice'[e].book = NoBook
      <4>1. e \in Doc /\ e \in job[j].left \ job[j].old /\ ~AsksAgain(j, job[j])
        BY <1>3, <2>3, <3>1, ReaderTypes DEF JobState, AsksAgain
      <4>2. e # d
        BY <1>3, <2>3, <3>1, <4>1 DEF E!Looked
      <4>3. choice[e].book = NoBook
        BY <2>3, <4>1 DEF ReaderFits, JobFits
      <4>. QED
        BY <1>5, <4>1, <4>2, <4>3
    <3>2. q(j) \in JobState
      BY <1>3, <2>3
    <3> HIDE DEF q
    <3>. QED
      BY <2>3, <3>1, <3>2 DEF JobFits
  <2>. QED
    BY <2>1, <2>2, <2>3 DEF E!Job
<1>7. ASSUME NEW t \in E!Table, NEW e \in known[t] \ (late[t] \ {d})
      PROVE  Tells(w(t)[e], choice'[e])
  <2>1. e \in Doc
    BY ReaderTypes
  <2>2. CASE e = d
    BY <1>4, <1>5, <1>7, <2>2 DEF Tells
  <2>3. CASE e # d
    <3>1. Tells(row[t][e], choice[e])
      BY <1>7, <2>3, ReaderTypes DEF RowsTell
    <3>. QED
      BY <1>4, <1>5, <2>1, <2>3, <3>1
  <2>. QED
    BY <2>2, <2>3
<1> HIDE DEF q, w
<1>8. RowsTell(known', row', late', choice')
  BY <1>1, <1>7 DEF RowsTell
<1>9. job' \in [E!Job -> JobState] /\ \A j \in E!Job : JobFits(j, job'[j], choice')
  BY <1>1, <1>6
<1>10. row' \in [E!Table -> [Doc -> E!Row]] /\ late' \in [E!Table -> SUBSET Doc]
  BY <1>1, <1>4, ReaderTypes
<1>11. E!TypeOK'
  BY <1>1, <1>5, <1>9, <1>10, ReaderTypes DEF E!TypeOK, JobState
<1>. QED
  BY <1>8, <1>9, <1>11 DEF ReaderFits

\* The steps of the jobs that write nothing, or only their own job.
LEMMA QuietJobFits ==
    ASSUME ReaderFits, NEW j \in E!Job, NEW q \in JobState, JobFits(j, q, choice),
           job' = [job EXCEPT ![j] = q], UNCHANGED <<fits, docs, known, row, choice, late>>, shelf' \subseteq ReaderBook
    PROVE  ReaderFits'
  BY ReaderTypes, OneJobFits

LEMMA ReaderStepFits ==
    ASSUME ReaderFits, UNCHANGED <<known, row, choice, late, job>>,
           fits' \in [Doc -> SUBSET ReaderBook], docs' \in [Doc -> ReaderBook \cup {NoBook}], shelf' \subseteq ReaderBook
    PROVE  ReaderFits'
  BY DEF ReaderFits, E!TypeOK

\* A report or a statistics file takes the table's place.
LEMMA ReplaceFits ==
    ASSUME ReaderFits, NEW t \in E!Table, NEW j \in {"import", "report"}, NEW q \in JobState,
           q.at # "look", E!Replace(t, j), job' = [job EXCEPT ![j] = q], UNCHANGED <<fits, docs, choice, shelf>>
    PROVE  ReaderFits'
<1>1. j \in E!Job /\ job[j] \in JobState /\ JobFits(j, job[j], choice)
  BY DEF ReaderFits, E!Job
<1>2. JobFits(j, q, choice)
  BY DEF JobFits
<1>3. /\ known' = [known EXCEPT ![t] = job[j].of] /\ row' = [row EXCEPT ![t] = job[j].seen]
      /\ late' = [late EXCEPT ![t] = job[j].old]
      /\ \A d \in job[j].of \ job[j].old : Tells(job[j].seen[d], choice[d])
  BY <1>1 DEF E!Replace, JobFits
<1>4. /\ known' \in [E!Table -> SUBSET Doc] /\ row' \in [E!Table -> [Doc -> E!Row]]
      /\ late' \in [E!Table -> SUBSET Doc]
      /\ known'[t] = job[j].of /\ row'[t] = job[j].seen /\ late'[t] = job[j].old
      /\ \A u \in E!Table \ {t} : known'[u] = known[u] /\ row'[u] = row[u] /\ late'[u] = late[u]
  BY <1>1, <1>3, ReaderTypes DEF JobState
<1>5. RowsTell(known', row', late', choice)
  BY <1>3, <1>4, ReaderTypes DEF RowsTell
<1>. QED
  BY <1>1, <1>2, <1>4, <1>5, ReaderTypes, OneJobFits

LEMMA LookFits ==
    ASSUME ReaderFits, NEW j \in E!Job, NEW d \in Doc, E!Look(j, d)
    PROVE  ReaderFits'
<1> DEFINE q == [job[j] EXCEPT !.left = job[j].left \ {d}, !.seen = [job[j].seen EXCEPT ![d] = E!Find(d)]]
<1>1. /\ j \in {"import", "report"} /\ job[j].at = "look" /\ job' = [job EXCEPT ![j] = q]
      /\ UNCHANGED <<fits, docs, known, row, choice, shelf, late>>
  BY DEF E!Look
<1>2. job[j] \in JobState /\ JobFits(j, job[j], choice)
  BY DEF ReaderFits
<1>3. /\ q \in JobState /\ q.at = "look" /\ q.of = job[j].of /\ q.left = job[j].left \ {d} /\ q.old = job[j].old
      /\ q.seen = [job[j].seen EXCEPT ![d] = E!Find(d)]
  BY <1>1, <1>2, FindFits DEF JobState
<1>4. q.seen[d] = E!Find(d) /\ \A e \in Doc \ {d} : q.seen[e] = job[j].seen[e]
  BY <1>2, <1>3 DEF JobState
<1> HIDE DEF q
<1>5. ASSUME NEW e \in (q.of \ q.left) \ q.old
      PROVE  Tells(q.seen[e], choice[e])
  <2>1. CASE e = d
    BY <1>4, <2>1, FindFits
  <2>2. CASE e # d
    BY <1>1, <1>2, <1>3, <1>4, <2>2 DEF JobFits, JobState
  <2>. QED
    BY <2>1, <2>2
<1>6. JobFits(j, q, choice)
  BY <1>1, <1>5 DEF JobFits
<1>. QED
  BY <1>1, <1>3, <1>6, ReaderTypes, QuietJobFits

\* Rematching and resolving a file: its row gets a book or stays.
LEMMA FileDoneFits ==
    ASSUME ReaderFits, NEW j \in {"rematch", "resolve"}, NEW t \in E!Table, NEW d \in job[j].left,
           job' = [job EXCEPT ![j].left = @ \ {d}, ![j].old = @ \ {d}],
           UNCHANGED <<row, late>> \/ \E b \in ReaderBook \cup {NoBook} : E!Link(t, j, d, b) /\ (d \notin job[j].old => choice[d].book \in {NoBook, b}),
           fits' \in [Doc -> SUBSET ReaderBook], docs' \in [Doc -> ReaderBook \cup {NoBook}],
           UNCHANGED <<known, choice, shelf>>
    PROVE  ReaderFits'
<1> DEFINE q == [job[j] EXCEPT !.left = job[j].left \ {d}, !.old = job[j].old \ {d}]
<1>1. j \in E!Job /\ job[j] \in JobState /\ JobFits(j, job[j], choice)
  BY DEF ReaderFits, E!Job
<1>2. q \in JobState /\ q.at = job[j].at /\ q.left = job[j].left \ {d} /\ q.old = job[j].old \ {d}
  BY <1>1 DEF JobState
<1>3. job' = [job EXCEPT ![j] = q]
  BY <1>1, ReaderTypes
<1> HIDE DEF q
<1>4. JobFits(j, q, choice)
  BY <1>1, <1>2 DEF JobFits, AsksAgain
<1>5. /\ row' \in [E!Table -> [Doc -> E!Row]] /\ late' \in [E!Table -> SUBSET Doc]
      /\ RowsTell(known, row', late', choice)
  BY LinkFits, ReaderTypes
<1>. QED
  BY <1>1, <1>2, <1>3, <1>4, <1>5, ReaderTypes, OneJobFits

LEMMA ReaderKeeps ==
    ASSUME ReaderFits, [E!Next]_ereaderVars
    PROVE  ReaderFits'
<1>1. CASE UNCHANGED ereaderVars
  BY <1>1, ReaderTypes, ReaderStepFits DEF ereaderVars
<1>2. ASSUME NEW d \in Doc, NEW b \in ReaderBook, E!AddBook(d, b)
      PROVE  ReaderFits'
  <2>1. fits' \in [Doc -> SUBSET ReaderBook]
    BY <1>2, ReaderTypes DEF E!AddBook
  <2>. QED
    BY <1>2, <2>1, ReaderTypes, ReaderStepFits DEF E!AddBook
<1>3. ASSUME NEW d \in Doc, E!IndexFingerprints(d)
      PROVE  ReaderFits'
  <2>1. docs' \in [Doc -> ReaderBook \cup {NoBook}]
    BY <1>3, ReaderTypes, ReaderAssumption DEF E!IndexFingerprints
  <2>. QED
    BY <1>3, <2>1, ReaderTypes, ReaderStepFits DEF E!IndexFingerprints
<1>4. ASSUME NEW d \in Doc, E!KosyncPut(d)
      PROVE  ReaderFits'
  <2>1. E!KosyncBook(d) \in ReaderBook
    BY <1>4, ReaderTypes, ReaderAssumption DEF E!KosyncPut, E!KosyncBook
  <2>2. docs' \in [Doc -> ReaderBook \cup {NoBook}] /\ shelf' \subseteq ReaderBook
    BY <1>4, <2>1, ReaderTypes DEF E!KosyncPut
  <2>. QED
    BY <1>4, <2>2, ReaderTypes, ReaderStepFits DEF E!KosyncPut
<1>5. ASSUME NEW b \in ReaderBook, E!RemoveFromQueue(b)
      PROVE  ReaderFits'
  BY <1>5, ReaderTypes, ReaderStepFits DEF E!RemoveFromQueue
<1>6. ASSUME NEW d \in Doc, E!RematchOne(d)
      PROVE  ReaderFits'
  <2> DEFINE j == "rematch"
             t == IF job[j].at = "look" THEN "stats" ELSE "files"
             b == IF t = "stats" THEN E!DocBook(d) ELSE E!Find(d).book
  <2>1. t \in E!Table /\ b \in ReaderBook \cup {NoBook}
    BY FindFits DEF E!Table, E!Row
  <2>2. UNCHANGED <<row, late>> \/ E!Link(t, j, d, b)
    BY <1>6 DEF E!RematchOne
  <2>3. /\ d \in job[j].left /\ job' = [job EXCEPT ![j].left = @ \ {d}, ![j].old = @ \ {d}]
        /\ UNCHANGED <<fits, docs, known, choice, shelf>>
    BY <1>6 DEF E!RematchOne
  <2>4. d \notin job[j].old => choice[d].book \in {NoBook, b}
    <3>1. CASE job[j].at = "look"
      BY <2>3, <3>1 DEF ReaderFits, JobFits, AsksAgain, E!Job
    <3>2. CASE job[j].at # "look"
      BY <3>2 DEF E!Find, E!Override, E!NoRow
    <3>. QED
      BY <3>1, <3>2
  <2> HIDE DEF t, b
  <2>. QED
    BY <2>1, <2>2, <2>3, <2>4, ReaderTypes, FileDoneFits
<1>7. ASSUME NEW d \in Doc, E!ResolveOne(d)
      PROVE  ReaderFits'
  <2> DEFINE j == "resolve"
             t == IF job[j].at = "look" THEN "stats" ELSE "files"
  <2>1. t \in E!Table
    BY DEF E!Table
  <2>2. /\ d \in job[j].left /\ job' = [job EXCEPT ![j].left = @ \ {d}, ![j].old = @ \ {d}]
        /\ UNCHANGED <<known, choice, shelf>>
    BY <1>7 DEF E!ResolveOne
  <2>3. \/ UNCHANGED <<fits, docs, row, late>>
        \/ \E b \in ReaderBook : /\ fits' = [fits EXCEPT ![d] = fits[d] \cup {b}]
                                 /\ docs' = [docs EXCEPT ![d] = b]
                                 /\ E!Link(t, j, d, b)
    BY <1>7 DEF E!ResolveOne
  <2>4. /\ fits' \in [Doc -> SUBSET ReaderBook] /\ docs' \in [Doc -> ReaderBook \cup {NoBook}]
        /\ UNCHANGED <<row, late>> \/ \E b \in ReaderBook \cup {NoBook} : E!Link(t, j, d, b) /\ (d \notin job[j].old => choice[d].book \in {NoBook, b})
    <3>1. d \notin job[j].old => choice[d].book = NoBook
      BY <2>2 DEF ReaderFits, JobFits, AsksAgain, E!Job
    <3>. QED
      BY <2>3, <3>1, ReaderTypes
  <2> HIDE DEF t
  <2>. QED
    BY <2>1, <2>2, <2>4, FileDoneFits
<1>8. ASSUME NEW d \in Doc, E!SetDocBook(d)
      PROVE  ReaderFits'
  <2> DEFINE q == [E!Idle EXCEPT !.at = "add"]
  <2>1. /\ q \in JobState /\ JobFits("match", q, choice) /\ "match" \in E!Job
    BY IdleJob DEF JobState, JobFits, E!Job
  <2>2. job["match"].seen[d] \in E!Row
    BY <2>1, ReaderTypes DEF JobState
  <2>3. docs' \in [Doc -> ReaderBook \cup {NoBook}]
    BY <1>8, <2>2, ReaderTypes DEF E!SetDocBook, E!Row
  <2>. QED
    BY <1>8, <2>1, <2>3, ReaderTypes, OneJobFits DEF E!SetDocBook
<1>9. ASSUME NEW j \in {"import", "report"}, E!Receive(j)
      PROVE  ReaderFits'
  <2>1. PICK s \in SUBSET Doc : E!Work(j, "look", s)
    BY <1>9 DEF E!Receive
  <2> DEFINE q == [E!Idle EXCEPT !.at = "look", !.of = s, !.left = s]
  <2>2. q \in JobState /\ q.of = s /\ q.left = s
    BY IdleJob DEF JobState
  <2>3. job' = [job EXCEPT ![j] = q] /\ j \in E!Job
    BY <1>9, <2>1 DEF E!Work, E!Job
  <2> HIDE DEF q
  <2>4. JobFits(j, q, choice)
    BY <2>2, <2>3 DEF JobFits
  <2>. QED
    BY <1>9, <2>2, <2>3, <2>4, ReaderTypes, QuietJobFits DEF E!Receive
<1>0. /\ E!Unmatched("files") \subseteq {d \in known["files"] : row["files"][d].book = NoBook}
      /\ E!Unmatched("stats") \subseteq {d \in known["stats"] : row["stats"][d].book = NoBook}
      /\ E!UnmatchedKOReader \subseteq {d \in known["stats"] : row["stats"][d].book = NoBook}
      /\ E!Unmatched("files") \in SUBSET Doc /\ E!Unmatched("stats") \in SUBSET Doc /\ E!UnmatchedKOReader \in SUBSET Doc
      /\ {} \in SUBSET Doc /\ job["rematch"].of \in SUBSET Doc
      /\ "files" \in E!Table /\ "stats" \in E!Table
  BY ReaderTypes DEF E!Unmatched, E!UnmatchedKOReader, E!Table, E!Job, JobState
<1>10. CASE E!ResolveFiles
  BY <1>0, <1>10, TakeFits DEF E!ResolveFiles
<1>18. CASE E!RematchFiles
  BY <1>0, <1>18, TakeFits DEF E!RematchFiles
<1>11. ASSUME NEW j \in E!Job, E!Finish(j) \/ E!AutoAdd(j)
       PROVE  ReaderFits'
  <2>1. /\ job' = [job EXCEPT ![j] = E!Idle] /\ UNCHANGED <<fits, docs, known, row, choice, late>>
    BY <1>11 DEF E!Finish, E!AutoAdd
  <2>2. shelf' \subseteq ReaderBook
    <3>1. CASE E!Finish(j)
      BY <3>1, ReaderTypes DEF E!Finish
    <3>2. CASE E!AutoAdd(j)
      <4>1. PICK s \in SUBSET {row["files"][d].book : d \in known["files"]} : shelf' = shelf \cup (s \ {NoBook})
        BY <3>2 DEF E!AutoAdd
      <4>2. \A d \in known["files"] : row["files"][d].book \in ReaderBook \cup {NoBook}
        BY ReaderTypes DEF E!Row, E!Table
      <4>. QED
        BY <4>1, <4>2, ReaderTypes
    <3>. QED
      BY <1>11, <3>1, <3>2
  <2>. QED
    BY <2>1, <2>2, IdleJob, QuietJobFits
<1>12. CASE E!SaveKOReaderBooks
  BY <1>12, IdleJob, ReplaceFits DEF E!SaveKOReaderBooks, E!Table
<1>13. CASE E!SaveDeviceBooks
  <2>1. [E!Idle EXCEPT !.at = "add"] \in JobState /\ [E!Idle EXCEPT !.at = "add"].at = "add"
    BY IdleJob DEF JobState
  <2>. QED
    BY <1>13, <2>1, ReplaceFits DEF E!SaveDeviceBooks, E!Table
<1>14. CASE E!Rematch
  BY <1>0, <1>14, TakeFits DEF E!Rematch
<1>15. CASE E!Resolve
  BY <1>0, <1>15, TakeFits DEF E!Resolve
<1>16. ASSUME NEW c \in E!Row, NEW d \in Doc, E!ApplyMatch(d, c)
       PROVE  ReaderFits'
  BY <1>16, ApplyMatchFits
<1>17. ASSUME NEW j \in E!Job, NEW d \in Doc, E!Look(j, d)
       PROVE  ReaderFits'
  BY <1>17, LookFits
<1>. QED
  BY <1>1, <1>2, <1>3, <1>4, <1>5, <1>6, <1>7, <1>8, <1>9, <1>10, <1>11, <1>12, <1>13, <1>14, <1>15, <1>16, <1>17, <1>18
  DEF E!Next, E!DAV, E!PluginDevice

\* "The choice survives every later report and sync" (devices.go): whatever report, look-up or
\* statistics file began before the person chose, no row that was written by one who looked
\* afterwards says otherwise.
THEOREM ChoiceIsKept == MCSpec => []ChoiceSurvives
<1> DEFINE Fit == running = "ereader" => ReaderFits
<1>1. MCInit => Fit
  BY ReaderFitsInitially DEF MCInit
<1>2. Fit /\ [MCNext]_allVars => Fit'
  <2>1. ASSUME [MCNext]_allVars, running' = "ereader"
        PROVE  running = "ereader" /\ [E!Next]_ereaderVars
    BY <2>1 DEF MCNext, allVars
  <2>. QED
    BY <2>1, ReaderKeeps
<1>3. Fit => ChoiceSurvives
  BY DEF ChoiceSurvives, ReaderFits, E!ChoiceSurvives, RowsTell, Tells, E!Override
<1>. QED
  BY <1>1, <1>2, <1>3, PTL DEF MCSpec

-----------------------------------------------------------------------------
(* The Nightstand. A book that is there was written when the person last    *)
(* touched it, or later, and one without a status is not there.            *)

ItemFits(i, t, n) ==
    /\ i.status = N!None => i = N!NoItem
    /\ i # N!NoItem => t <= i.at
    /\ i.at <= n /\ t <= n

NightstandFits == N!TypeOK /\ \A b \in QueueBook : ItemFits(item[b], touched[b], minute)

LEMMA NightstandTypes ==
    ASSUME NightstandFits
    PROVE  /\ MaxMinute \in Nat /\ minute \in 0..MaxMinute
           /\ item \in [QueueBook -> N!Item] /\ touched \in [QueueBook -> 0..MaxMinute]
           /\ place \in [Shelf -> [QueueBook -> N!Word]]
           /\ report \in [Shelf -> [on : BOOLEAN, says : [QueueBook -> N!Word]]]
           /\ saved \in [N!Source -> [QueueBook -> N!Word]]
           /\ starting \subseteq QueueBook
           /\ adding \in [QueueBook -> {N!None, "queued", "reading"}]
           /\ \A b \in QueueBook : ItemFits(item[b], touched[b], minute)
  BY ShelfAssumption DEF NightstandFits, N!TypeOK

LEMMA NothingFits ==
    /\ N!NoItem \in N!Item /\ N!Nothing \in [QueueBook -> N!Word]
    /\ N!NoItem.at = 0 /\ N!NoItem.status = N!None /\ N!NoItem.hidden = FALSE
  BY ShelfAssumption DEF N!NoItem, N!Item, N!Nothing, N!Word, N!Silent, N!Far, N!Status, N!None

\* What is written now, touched or not, fits.
LEMMA WrittenFits ==
    ASSUME NEW n \in 0..MaxMinute, NEW t \in 0..n, NEW st \in N!Status, NEW h \in BOOLEAN
    PROVE  [status |-> st, hidden |-> h, at |-> n] \in N!Item /\ ItemFits([status |-> st, hidden |-> h, at |-> n], t, n)
  BY ShelfAssumption DEF N!Item, N!Status, N!None, ItemFits

\* A step that leaves the clock has to fit the books it writes and touches.
LEMMA ItemsFit ==
    ASSUME NightstandFits, UNCHANGED minute,
           item' \in [QueueBook -> N!Item], touched' \in [QueueBook -> 0..MaxMinute],
           \A b \in QueueBook : ItemFits(item'[b], touched'[b], minute),
           place' \in [Shelf -> [QueueBook -> N!Word]],
           report' \in [Shelf -> [on : BOOLEAN, says : [QueueBook -> N!Word]]],
           saved' \in [N!Source -> [QueueBook -> N!Word]],
           starting' \subseteq QueueBook, adding' \in [QueueBook -> {N!None, "queued", "reading"}]
    PROVE  NightstandFits'
  BY NightstandTypes DEF NightstandFits, N!TypeOK

\* One book is written, and touched or not.
LEMMA OneItemFits ==
    ASSUME NightstandFits, NEW b \in QueueBook, NEW i \in N!Item, NEW t \in 0..MaxMinute, ItemFits(i, t, minute),
           item' = [item EXCEPT ![b] = i], touched' = [touched EXCEPT ![b] = t],
           UNCHANGED <<minute, place, report>>, saved' \in [N!Source -> [QueueBook -> N!Word]],
           starting' \subseteq QueueBook, adding' \in [QueueBook -> {N!None, "queued", "reading"}]
    PROVE  NightstandFits'
<1>1. item' \in [QueueBook -> N!Item] /\ touched' \in [QueueBook -> 0..MaxMinute]
  BY NightstandTypes
<1>2. \A c \in QueueBook : ItemFits(item'[c], touched'[c], minute)
  BY NightstandTypes
<1>. QED
  BY <1>1, <1>2, NightstandTypes, ItemsFit

\* The person writes a book.
LEMMA PutFits ==
    ASSUME NightstandFits, NEW b \in QueueBook, NEW st \in N!Status, NEW h \in BOOLEAN,
           N!Put(b, st, h), N!Touch(b), UNCHANGED <<minute, place, report, saved, adding>>, starting' \subseteq QueueBook
    PROVE  NightstandFits'
<1> DEFINE i == [status |-> st, hidden |-> h, at |-> minute]
<1>1. minute \in 0..minute
  BY NightstandTypes
<1>2. i \in N!Item /\ ItemFits(i, minute, minute)
  BY <1>1, NightstandTypes, WrittenFits
<1>3. item' = [item EXCEPT ![b] = i] /\ touched' = [touched EXCEPT ![b] = minute]
  BY DEF N!Put, N!Touch
<1> HIDE DEF i
<1>. QED
  BY <1>2, <1>3, NightstandTypes, OneItemFits

\* The books are left as they are.
LEMMA BooksStayFit ==
    ASSUME NightstandFits, UNCHANGED <<minute, item, touched>>,
           place' \in [Shelf -> [QueueBook -> N!Word]],
           report' \in [Shelf -> [on : BOOLEAN, says : [QueueBook -> N!Word]]],
           saved' \in [N!Source -> [QueueBook -> N!Word]],
           starting' \subseteq QueueBook, adding' \in [QueueBook -> {N!None, "queued", "reading"}]
    PROVE  NightstandFits'
  BY NightstandTypes, ItemsFit

LEMMA NightstandFitsInitially == N!Init => NightstandFits
  BY NothingFits, ShelfAssumption DEF N!Init, NightstandFits, N!TypeOK, ItemFits

\* What a snapshot or a word of KOReader leaves of a book.
LEMMA MovedFits ==
    ASSUME NightstandFits, NEW b \in QueueBook, NEW w \in N!Word
    PROVE  LET i == [status |-> N!Says(w), hidden |-> item[b].hidden, at |-> minute]
           IN  i \in N!Item /\ ItemFits(i, touched[b], minute)
<1>1. N!Says(w) \in N!Status /\ item[b].hidden \in BOOLEAN
  BY NightstandTypes DEF N!Says, N!Status, N!Item
<1>2. touched[b] \in 0..minute
  BY NightstandTypes DEF ItemFits
<1>. QED
  BY <1>1, <1>2, NightstandTypes, WrittenFits

LEMMA NightstandKeeps ==
    ASSUME NightstandFits, [N!Next]_nightstandVars
    PROVE  NightstandFits'
<1>. USE NightstandTypes
<1>1. CASE N!Tick
  <2>1. minute' = minute + 1 /\ minute' \in 0..MaxMinute /\ UNCHANGED <<item, place, report, saved, starting, adding, touched>>
    BY <1>1 DEF N!Tick
  <2>2. \A b \in QueueBook : item[b].at \in Nat /\ touched[b] \in Nat
    BY DEF N!Item
  <2>3. \A b \in QueueBook : ItemFits(item[b], touched[b], minute')
    BY <2>1, <2>2 DEF ItemFits
  <2>. QED
    BY <2>1, <2>3 DEF NightstandFits, N!TypeOK
<1>2. ASSUME NEW b \in QueueBook, N!HandleEnqueue(b)
      PROVE  NightstandFits'
  <2> DEFINE st == IF item[b].status \in {N!None, "finished"} THEN "queued" ELSE item[b].status
  <2>1. st \in N!Status
    BY DEF N!Item, N!Status, N!None
  <2>2. N!Put(b, st, FALSE) /\ N!Touch(b) /\ UNCHANGED <<minute, place, report, saved, starting, adding>>
    BY <1>2 DEF N!HandleEnqueue, N!Enqueue
  <2> HIDE DEF st
  <2>. QED
    BY <2>1, <2>2, PutFits
<1>3. ASSUME NEW b \in QueueBook, N!HandleDequeue(b)
      PROVE  NightstandFits'
  <2>1. ItemFits(N!NoItem, minute, minute)
    BY NothingFits DEF ItemFits
  <2>. QED
    BY <1>3, <2>1, NothingFits, OneItemFits DEF N!HandleDequeue, N!RemoveFromQueue, N!Touch
<1>4. ASSUME NEW b \in QueueBook, N!StartReading(b) \/ N!Consider(b)
      PROVE  NightstandFits'
  <2>1. /\ UNCHANGED <<minute, item, place, report, saved, touched>>
        /\ starting' \subseteq QueueBook /\ adding' \in [QueueBook -> {N!None, "queued", "reading"}]
    BY <1>4 DEF N!StartReading, N!Consider
  <2>. QED
    BY <2>1, BooksStayFit
<1>5. ASSUME NEW b \in QueueBook, N!Deliver(b)
      PROVE  NightstandFits'
  <2>1. starting' \subseteq QueueBook /\ UNCHANGED <<minute, place, report, saved, adding>>
    BY <1>5 DEF N!Deliver
  <2>2. CASE UNCHANGED <<item, touched>>
    BY <2>1, <2>2, BooksStayFit
  <2>3. CASE N!There(b) /\ N!Put(b, "reading", item[b].hidden) /\ N!Touch(b)
    <3>1. item[b].hidden \in BOOLEAN /\ "reading" \in N!Status
      BY DEF N!Item, N!Status
    <3>. QED
      BY <2>1, <2>3, <3>1, PutFits
  <2>4. CASE ~N!There(b) /\ item' = item /\ N!Touch(b)
    <3>1. ItemFits(item[b], minute, minute)
      BY <2>4 DEF N!There, ItemFits
    <3>2. item' = [item EXCEPT ![b] = item[b]] /\ item[b] \in N!Item
      BY <2>4
    <3>. QED
      BY <2>1, <2>4, <3>1, <3>2, OneItemFits DEF N!Touch
  <2>. QED
    BY <1>5, <2>2, <2>3, <2>4 DEF N!Deliver
<1>6. ASSUME NEW b \in QueueBook, N!FinishReading(b)
      PROVE  NightstandFits'
  <2>1. item[b].hidden \in BOOLEAN /\ "finished" \in N!Status
    BY DEF N!Item, N!Status
  <2>2. N!Put(b, "finished", item[b].hidden) /\ N!Touch(b) /\ UNCHANGED <<minute, place, report, saved, starting, adding>>
    BY <1>6 DEF N!FinishReading
  <2>. QED
    BY <2>1, <2>2, PutFits
<1>7. ASSUME NEW b \in QueueBook, NEW hid \in BOOLEAN, N!HandleHideQueueItem(b, hid)
      PROVE  NightstandFits'
  <2> DEFINE i == [item[b] EXCEPT !.hidden = hid]
  <2>0. item[b] \in N!Item
    OBVIOUS
  <2>1. i \in N!Item /\ i.at = item[b].at /\ i.status = item[b].status
    BY <2>0 DEF N!Item
  <2>3. /\ item' = [item EXCEPT ![b] = i] /\ item[b] # N!NoItem
        /\ UNCHANGED <<minute, place, report, saved, starting, adding, touched>>
    BY <1>7 DEF N!HandleHideQueueItem, N!SetQueueHidden, N!There
  <2>4. touched' = [touched EXCEPT ![b] = touched[b]] /\ touched[b] \in 0..MaxMinute
    BY <2>3
  <2> HIDE DEF i
  <2>2. ItemFits(i, touched[b], minute)
    BY <2>1, <2>3 DEF ItemFits
  <2>. QED
    BY <2>1, <2>2, <2>3, <2>4, OneItemFits
<1>8. ASSUME NEW s \in Shelf, NEW b \in QueueBook, NEW f \in N!Far, N!Read(s, b, f)
      PROVE  NightstandFits'
  <2>1. [far |-> f, at |-> minute] \in N!Word
    BY DEF N!Word
  <2>2. place' \in [Shelf -> [QueueBook -> N!Word]] /\ UNCHANGED <<minute, item, report, saved, starting, adding, touched>>
    BY <1>8, <2>1 DEF N!Read
  <2>. QED
    BY <2>2, BooksStayFit
<1>9. ASSUME NEW s \in SUBSET QueueBook, N!HandleReorderQueue(s)
      PROVE  NightstandFits'
  <2> DEFINE i(b) == [item[b] EXCEPT !.at = minute]
  <2>1. ASSUME NEW b \in QueueBook
        PROVE  /\ i(b) \in N!Item /\ i(b).at = minute /\ i(b).status = item[b].status
               /\ b \in s => item[b] # N!NoItem
    BY <1>9 DEF N!Item, N!HandleReorderQueue, N!ReorderQueue, N!There
  <2>2. /\ item' = [b \in QueueBook |-> IF b \in s THEN i(b) ELSE item[b]]
        /\ touched' = [b \in QueueBook |-> IF b \in s THEN minute ELSE touched[b]]
        /\ UNCHANGED <<minute, place, report, saved, starting, adding>>
    BY <1>9 DEF N!HandleReorderQueue, N!ReorderQueue
  <2> HIDE DEF i
  <2>3. item' \in [QueueBook -> N!Item] /\ touched' \in [QueueBook -> 0..MaxMinute]
    BY <2>1, <2>2
  <2>4. ASSUME NEW b \in QueueBook
        PROVE  ItemFits(item'[b], touched'[b], minute)
    <3>1. CASE b \in s
      <4>1. item'[b] = i(b) /\ touched'[b] = minute
        BY <2>2, <3>1
      <4>2. item[b].status # N!None
        BY <2>1, <3>1 DEF ItemFits
      <4>. QED
        BY <2>1, <4>1, <4>2 DEF ItemFits
    <3>2. CASE b \notin s
      BY <2>2, <3>2
    <3>. QED
      BY <3>1, <3>2
  <2>. QED
    BY <2>2, <2>3, <2>4, ItemsFit
<1>10. ASSUME NEW s \in Shelf, N!Send(s)
       PROVE  NightstandFits'
  <2>1. report' \in [Shelf -> [on : BOOLEAN, says : [QueueBook -> N!Word]]]
    BY <1>10 DEF N!Send
  <2>. QED
    BY <1>10, <2>1, BooksStayFit DEF N!Send
<1>11. ASSUME NEW s \in Shelf, N!SaveBooks(s)
       PROVE  NightstandFits'
  <2> DEFINE i(b) == [status |-> N!Says(report[s].says[b]), hidden |-> item[b].hidden, at |-> minute]
  <2>1. \A b \in QueueBook : report[s].says[b] \in N!Word
    OBVIOUS
  <2>2. \A b \in QueueBook : i(b) \in N!Item /\ ItemFits(i(b), touched[b], minute)
    BY <2>1, MovedFits
  <2>3. /\ item' = [b \in QueueBook |-> IF N!Moves(b, report[s].says[b]) THEN i(b) ELSE item[b]]
        /\ UNCHANGED <<minute, place, starting, adding, touched>>
    BY <1>11 DEF N!SaveBooks
  <2>4. /\ saved' \in [N!Source -> [QueueBook -> N!Word]]
        /\ report' \in [Shelf -> [on : BOOLEAN, says : [QueueBook -> N!Word]]]
    BY <1>11, NothingFits DEF N!SaveBooks, N!Source
  <2> HIDE DEF i
  <2>. QED
    BY <2>2, <2>3, <2>4, ItemsFit
<1>12. ASSUME NEW b \in QueueBook, N!KosyncPut(b)
       PROVE  NightstandFits'
  <2> DEFINE w == place["koreader"][b]
             i == [status |-> N!Says(w), hidden |-> item[b].hidden, at |-> minute]
  <2>1. w \in N!Word
    BY ShelfAssumption
  <2>2. i \in N!Item /\ ItemFits(i, touched[b], minute)
    BY <2>1, MovedFits
  <2>3. item' = [item EXCEPT ![b] = item[b]] \/ item' = [item EXCEPT ![b] = i]
    BY <1>12 DEF N!KosyncPut, N!SyncReading
  <2>4. [w EXCEPT !.at = minute] \in N!Word
    BY <2>1 DEF N!Word
  <2>5. saved' \in [N!Source -> [QueueBook -> N!Word]]
    BY <1>12, <2>4 DEF N!KosyncPut, N!Source
  <2>6. UNCHANGED <<minute, place, report, starting, adding, touched>> /\ touched' = [touched EXCEPT ![b] = touched[b]]
    BY <1>12 DEF N!KosyncPut
  <2> HIDE DEF w, i
  <2>. QED
    BY <2>2, <2>3, <2>5, <2>6, OneItemFits
<1>13. ASSUME NEW b \in QueueBook, N!EnqueueAuto(b)
       PROVE  NightstandFits'
  <2> DEFINE i == [status |-> adding[b], hidden |-> FALSE, at |-> minute]
  <2>1. adding[b] \in N!Status /\ touched[b] \in 0..minute
    BY <1>13 DEF N!EnqueueAuto, N!Status, N!None, ItemFits
  <2>2. i \in N!Item /\ ItemFits(i, touched[b], minute)
    BY <2>1, WrittenFits
  <2>3. item' = [item EXCEPT ![b] = item[b]] \/ item' = [item EXCEPT ![b] = i]
    BY <1>13 DEF N!EnqueueAuto, N!Put
  <2>4. /\ adding' \in [QueueBook -> {N!None, "queued", "reading"}] /\ touched' = [touched EXCEPT ![b] = touched[b]]
        /\ UNCHANGED <<minute, place, report, saved, starting>>
    BY <1>13 DEF N!EnqueueAuto
  <2> HIDE DEF i
  <2>. QED
    BY <2>2, <2>3, <2>4, OneItemFits
<1>14. CASE UNCHANGED nightstandVars
  BY <1>14, BooksStayFit DEF nightstandVars
<1>. QED
  BY <1>1, <1>2, <1>3, <1>4, <1>5, <1>6, <1>7, <1>8, <1>9, <1>10, <1>11, <1>12, <1>13, <1>14 DEF N!Next, N!Machine

LEMMA RankFits ==
    /\ N!Rank(N!None) = 0 /\ N!Rank("queued") = 1 /\ N!Rank("reading") = 2 /\ N!Rank("finished") = 3
    /\ \A i \in N!Item : N!Rank(i.status) \in 0..3 /\ (i.status = N!None => N!Rank(i.status) = 0)
<1>1. N!Rank(N!None) = 0 /\ N!Rank("queued") = 1 /\ N!Rank("reading") = 2 /\ N!Rank("finished") = 3
  BY DEF N!Rank, N!None
<1>2. ASSUME NEW i \in N!Item
      PROVE  i.status = N!None \/ i.status = "queued" \/ i.status = "reading" \/ i.status = "finished"
  BY DEF N!Item, N!Status
<1>. QED
  BY <1>1, <1>2

\* A book that moves on is further than it was.
LEMMA FurtherFits ==
    ASSUME NEW i \in N!Item, NEW w \in N!Word, i.status = N!None \/ N!Further(i.status, N!Says(w))
    PROVE  N!Rank(N!Says(w)) >= N!Rank(i.status)
<1>1. N!Says(w) \in {"reading", "finished"}
  BY DEF N!Says
<1>. QED
  BY <1>1, RankFits DEF N!Further

LEMMA SaveMovesOn ==
    ASSUME NightstandFits, NEW s \in Shelf, N!SaveBooks(s), NEW b \in QueueBook
    PROVE  /\ N!Rank(item'[b].status) >= N!Rank(item[b].status) /\ item'[b].hidden = item[b].hidden
           /\ report[s].says[b].at <= touched[b] => item'[b] = item[b]
           /\ N!There(b) /\ report[s].says[b].at > item[b].at
              => N!Rank(item'[b].status) >= N!Rank(N!Says(report[s].says[b]))
<1> DEFINE w == report[s].says[b]
           i == [status |-> N!Says(w), hidden |-> item[b].hidden, at |-> minute]
<1>1. item'[b] = IF N!Moves(b, w) THEN i ELSE item[b]
  BY NightstandTypes DEF N!SaveBooks
<1>2. w \in N!Word /\ item[b] \in N!Item /\ w.at \in Nat /\ item[b].at \in Nat /\ touched[b] \in Nat
      /\ ItemFits(item[b], touched[b], minute)
  BY NightstandTypes DEF N!Word, N!Item
<1>3. N!Moves(b, w) => N!Further(item[b].status, N!Says(w)) /\ N!There(b) /\ item[b].at < w.at
  BY DEF N!Moves
<1>4. N!Rank(item'[b].status) >= N!Rank(item[b].status) /\ item'[b].hidden = item[b].hidden
  <2>1. CASE N!Moves(b, w)
    BY <1>1, <1>2, <1>3, <2>1, FurtherFits
  <2>2. CASE ~N!Moves(b, w)
    BY <1>1, <1>2, <2>2, RankFits
  <2>. QED
    BY <2>1, <2>2
<1>5. w.at <= touched[b] => item'[b] = item[b]
  BY <1>1, <1>2, <1>3 DEF ItemFits, N!There
<1>6. ASSUME N!There(b), w.at > item[b].at
      PROVE  N!Rank(item'[b].status) >= N!Rank(N!Says(w))
  <2>1. N!Says(w) \in {"reading", "finished"} /\ item[b].status # N!None
    BY <1>2, <1>6 DEF N!Says, ItemFits, N!There
  <2>2. CASE N!Further(item[b].status, N!Says(w))
    <3>1. item'[b].status = N!Says(w)
      BY <1>1, <1>2, <1>6, <2>2 DEF N!Moves
    <3>. QED
      BY <2>1, <3>1, RankFits
  <2>3. CASE ~N!Further(item[b].status, N!Says(w))
    <3>1. item[b].status = "finished" \/ (item[b].status = "reading" /\ N!Says(w) = "reading")
      BY <1>2, <2>1, <2>3 DEF N!Further, N!Item, N!Status
    <3>2. item'[b] = item[b]
      BY <1>1, <1>3, <2>3
    <3>. QED
      BY <2>1, <3>1, <3>2, RankFits
  <2>. QED
    BY <2>2, <2>3
<1>. QED
  BY <1>4, <1>5, <1>6

LEMMA KosyncMovesOn ==
    ASSUME NightstandFits, NEW c \in QueueBook, N!KosyncPut(c), NEW b \in QueueBook
    PROVE  N!Rank(item'[b].status) >= N!Rank(item[b].status) /\ item'[b].hidden = item[b].hidden
<1> DEFINE w == place["koreader"][c]
           i == [status |-> N!Says(w), hidden |-> item[c].hidden, at |-> minute]
<1>1. w \in N!Word /\ item[b] \in N!Item /\ item[c] \in N!Item /\ ItemFits(item[c], touched[c], minute)
  BY NightstandTypes, ShelfAssumption
<1>2. CASE item' = item
  BY <1>1, <1>2, RankFits
<1>3. CASE item' = [item EXCEPT ![c] = i] /\ (~N!There(c) \/ N!Further(item[c].status, N!Says(w)))
  <2>1. CASE b = c
    <3>1. item'[b] = i /\ (item[c].status = N!None \/ N!Further(item[c].status, N!Says(w)))
      BY <1>3, <2>1, NightstandTypes, NothingFits DEF N!There
    <3>. QED
      BY <1>1, <2>1, <3>1, FurtherFits
  <2>2. CASE b # c
    BY <1>1, <1>3, <2>2, NightstandTypes, RankFits
  <2>. QED
    BY <2>1, <2>2
<1>4. item' = item \/ (item' = [item EXCEPT ![c] = i] /\ (~N!There(c) \/ N!Further(item[c].status, N!Says(w))))
  BY NightstandTypes DEF N!KosyncPut, N!SyncReading
<1>. QED
  BY <1>2, <1>3, <1>4

\* What is added on its own was not there.
LEMMA AddedMovesOn ==
    ASSUME NightstandFits, NEW c \in QueueBook, N!EnqueueAuto(c), NEW b \in QueueBook
    PROVE  N!Rank(item'[b].status) >= N!Rank(item[b].status) /\ (N!There(b) => item'[b].hidden = item[b].hidden)
<1> DEFINE i == [status |-> adding[c], hidden |-> FALSE, at |-> minute]
<1>0. item[b] \in N!Item /\ N!Rank(item[b].status) \in 0..3
  BY NightstandTypes, RankFits
<1>1. CASE item' = item
  BY <1>0, <1>1
<1>2. CASE item' = [item EXCEPT ![c] = i] /\ ~N!There(c)
  <2>1. CASE b = c
    <3>1. item'[b].status = adding[c] /\ N!Rank(item[b].status) = 0
      BY <1>0, <1>2, <2>1, NightstandTypes, NothingFits, RankFits DEF N!There
    <3>2. N!Rank(adding[c]) \in 0..3
      BY NightstandTypes, RankFits
    <3>3. ~N!There(b) /\ N!Rank(item'[b].status) = N!Rank(adding[c])
      BY <1>2, <2>1, <3>1
    <3>. QED
      BY <3>1, <3>2, <3>3
  <2>2. CASE b # c
    BY <1>0, <1>2, <2>2, NightstandTypes
  <2>. QED
    BY <2>1, <2>2
<1>3. item' = item \/ (item' = [item EXCEPT ![c] = i] /\ ~N!There(c))
  BY DEF N!EnqueueAuto, N!Put
<1>. QED
  BY <1>1, <1>2, <1>3

\* "Books already in their Nightstand move along" and never back (queue.go, kosync.go): nothing
\* a device or Hardcover reports, late or out of order, moves a book back, takes it off or shows
\* one that was hidden; reading from before the person's last word moves nothing; and after a
\* sync no book opened since waits any more.
THEOREM ReportsAreHeeded == MCSpec => ReportsMoveOn
<1> DEFINE Fit == running = "nightstand" => NightstandFits
           Heeded == running = "nightstand" => N!NeverBack /\ N!OldReadingMovesNothing /\ N!OpenedMovesAlong
           Typed == running = "nightstand" => N!TypeOK
<1>1. MCInit => Fit
  BY NightstandFitsInitially DEF MCInit
<1>2. Fit /\ [MCNext]_allVars => Fit'
  <2>1. ASSUME [MCNext]_allVars, running' = "nightstand"
        PROVE  running = "nightstand" /\ [N!Next]_nightstandVars
    BY <2>1 DEF MCNext, allVars
  <2>. QED
    BY <2>1, NightstandKeeps
<1>3. Fit => Typed
  BY DEF NightstandFits
<1>4. Fit => Heeded
  <2>1. SUFFICES ASSUME NightstandFits
                 PROVE  N!NeverBack /\ N!OldReadingMovesNothing /\ N!OpenedMovesAlong
    OBVIOUS
  <2>2. N!NeverBack
    BY <2>1, SaveMovesOn, KosyncMovesOn, AddedMovesOn DEF N!NeverBack, N!Machine
  <2>3. N!OldReadingMovesNothing
    BY <2>1, SaveMovesOn DEF N!OldReadingMovesNothing
  <2>4. N!OpenedMovesAlong
    BY <2>1, SaveMovesOn DEF N!OpenedMovesAlong
  <2>. QED
    BY <2>2, <2>3, <2>4
<1>5. Fit => [Heeded]_allVars
  BY <1>4
<1>. QED
  BY <1>1, <1>2, <1>3, <1>5, PTL DEF MCSpec, ReportsMoveOn

-----------------------------------------------------------------------------
(* Requests. They are numbered in turn, what is open was never closed, and  *)
(* while one waits whoever would clear the notice was overtaken. A notice   *)
(* that is unread has no more before it than were written since.            *)

IsOpen(r)    == r.status \in R!Open
Waits(r)     == IsOpen(r) /\ r.status # "approved" /\ r.told
WaitsIn(s)   == \E r \in s : Waits(r)
OnTheWay(as) == \E p \in Person : as[p].at = "notify"
Clearing(ds) == \E a \in Parent : ds[a] = "resolve"

Numbered(s) ==
    /\ IsFiniteSet(s) /\ Cardinality(s) <= MaxRows
    /\ \A r \in s : r.n <= Cardinality(s)
    /\ \A r, q \in s : r.n = q.n => r = q

\* What was closed is a row that is closed.
ClosedFit(s, dec) == \A n \in 1..MaxRows : dec[n] # "open" => \E r \in s : r.n = n /\ ~IsOpen(r)

\* How far the notice is pushed down.
Counted == ahead < MaxNotices => silent \/ ahead <= since

\* The notice, while a request waits.
BellFits ==
    /\ Counted
    /\ WaitsIn(rows) => R!Told \/ OnTheWay(asking)
    /\ WaitsIn(rows) /\ Clearing(deciding) => silent \/ OnTheWay(asking)

RequestsFit == R!TypeOK /\ Numbered(rows) /\ ClosedFit(rows, decided) /\ BellFits

LEMMA RequestTypes ==
    ASSUME RequestsFit
    PROVE  /\ list \in R!List /\ owned \subseteq WishBook /\ rows \subseteq R!Row
           /\ asking \in [Person -> R!Asked] /\ deciding \in [Parent -> R!Answer]
           /\ DOMAIN decided = 1..MaxRows /\ \A n \in 1..MaxRows : decided[n] \in R!Closed \cup {"open"}
           /\ R!BellOK
           /\ Numbered(rows) /\ ClosedFit(rows, decided) /\ BellFits
           /\ MaxRows \in Nat
  BY RequestAssumption DEF RequestsFit, R!TypeOK

LEMMA WaitingMeans == (\E r \in R!Waiting : r.told) <=> WaitsIn(rows)
  BY DEF R!Waiting, R!OpenRows, WaitsIn, Waits, IsOpen

-----------------------------------------------------------------------------
(* The bell.                                                               *)

LEMMA BellTypes ==
    ASSUME R!BellOK
    PROVE  MaxNotices \in Nat \ {0} /\ ahead \in 0..MaxNotices /\ since \in 0..MaxNotices
  BY RequestAssumption DEF R!BellOK

\* A notice that is written is the newest.
LEMMA WrittenIs ==
    ASSUME NEW crossed \in BOOLEAN, R!Written(crossed)
    PROVE  R!BellOK' /\ Counted' /\ R!Told' /\ (crossed => silent')
<1>1. ahead' = 0 /\ since' = 0 /\ MaxNotices \in Nat \ {0}
  BY RequestAssumption DEF R!Written
<1>2. silent' = crossed
  BY Zenon DEF R!Written
<1>3. silent' \in BOOLEAN /\ (crossed => silent')
  BY <1>2, Zenon
<1>4. ahead' < MaxNotices /\ ahead' <= since' /\ ahead' \in 0..MaxNotices /\ since' \in 0..MaxNotices
  BY <1>1
<1>5. R!BellOK'
  BY <1>3, <1>4, Zenon DEF R!BellOK
<1>. QED
  BY <1>3, <1>4, <1>5, Zenon DEF Counted, R!Told, R!Unread

LEMMA NotWrittenIs ==
    ASSUME R!BellOK, R!NotWritten
    PROVE  R!BellOK' /\ Counted' /\ R!Told' /\ silent'
<1>1. silent' = TRUE /\ ahead' = ahead /\ since' = 0
  BY Zenon DEF R!NotWritten
<1>2. ahead' \in 0..MaxNotices /\ since' \in 0..MaxNotices
  BY <1>1, BellTypes
<1>3. silent' \in BOOLEAN /\ silent'
  BY <1>1, Zenon
<1>. QED
  BY <1>2, <1>3, Zenon DEF R!BellOK, Counted, R!Told

LEMMA ResolveIs ==
    ASSUME R!BellOK, R!Resolve
    PROVE  R!BellOK' /\ Counted' /\ (silent => silent' /\ R!Told')
<1>1. ahead' = MaxNotices /\ since' = since /\ silent' = silent
  BY Zenon DEF R!Resolve
<1>2. ahead' \in 0..MaxNotices /\ since' \in 0..MaxNotices /\ ~(ahead' < MaxNotices)
  BY <1>1, BellTypes
<1>3. silent' \in BOOLEAN /\ (silent => silent')
  BY <1>1, Zenon DEF R!BellOK
<1>. QED
  BY <1>2, <1>3, Zenon DEF R!BellOK, Counted, R!Told

\* Whatever others do, the notice is there, was seen, or was pushed out by as many as are kept.
LEMMA OthersTell ==
    ASSUME R!BellOK, Counted, R!BellNext
    PROVE  R!BellOK' /\ Counted' /\ (R!Told => R!Told') /\ (silent => silent')
<1>. USE BellTypes
<1>1. CASE R!MarkNotificationsRead
  <2>1. silent' = TRUE /\ ahead' = MaxNotices /\ since' = 0
    BY <1>1, Zenon DEF R!MarkNotificationsRead
  <2>2. ahead' \in 0..MaxNotices /\ since' \in 0..MaxNotices
    BY <2>1
  <2>3. silent' \in BOOLEAN /\ silent'
    BY <2>1, Zenon
  <2>. QED
    BY <2>2, <2>3, Zenon DEF R!BellOK, Counted, R!Told
<1>2. ASSUME NEW j \in 0..MaxNotices, R!OtherNotice(j)
      PROVE  R!BellOK' /\ Counted' /\ (R!Told => R!Told') /\ (silent => silent')
  <2>1. silent' = silent
    BY <1>2, Zenon DEF R!OtherNotice
  <2>2. silent' \in BOOLEAN /\ (silent' <=> silent)
    BY <2>1, Zenon DEF R!BellOK
  <2>3. /\ ahead < MaxNotices /\ ahead' = (IF ahead < j THEN ahead + 1 ELSE ahead)
        /\ silent => since' = since
        /\ ~silent => since' = (IF since = MaxNotices THEN since ELSE since + 1)
    BY <1>2 DEF R!OtherNotice, R!Unread
  <2>4. ahead' \in 0..MaxNotices /\ since' \in 0..MaxNotices
    <3>1. CASE silent
      BY <2>3, <3>1
    <3>2. CASE ~silent
      BY <2>3, <3>2
    <3>. QED
      BY <3>1, <3>2
  <2>5. ~silent => ahead' <= since'
    <3>1. SUFFICES ASSUME ~silent PROVE ahead' <= since'
      OBVIOUS
    <3>2. ahead <= since
      BY <2>3, <3>1 DEF Counted
    <3>. QED
      BY <2>3, <3>1, <3>2
  <2>6. ~silent => ahead' < MaxNotices \/ since' = MaxNotices
    <3>1. SUFFICES ASSUME ~silent, ~(ahead' < MaxNotices) PROVE since' = MaxNotices
      OBVIOUS
    <3>. QED
      BY <2>4, <2>5, <3>1
  <2>. QED
    BY <2>2, <2>4, <2>5, <2>6, Zenon DEF R!BellOK, Counted, R!Told, R!Unread
<1>3. ASSUME NEW j \in 0..MaxNotices, j < ahead, R!Unread, ahead' = ahead - 1, UNCHANGED <<since, silent>>
      PROVE  R!BellOK' /\ Counted' /\ (R!Told => R!Told') /\ (silent => silent')
  <2>1. silent' = silent
    BY <1>3, Zenon
  <2>2. silent' \in BOOLEAN /\ (silent' <=> silent)
    BY <2>1, Zenon DEF R!BellOK
  <2>3. ahead' \in 0..MaxNotices /\ since' \in 0..MaxNotices /\ ahead' < MaxNotices /\ since' = since
    BY <1>3 DEF R!Unread
  <2>4. ~silent => ahead' <= since'
    <3>1. SUFFICES ASSUME ~silent PROVE ahead' <= since'
      OBVIOUS
    <3>2. ahead <= since
      BY <1>3, <3>1 DEF Counted, R!Unread
    <3>. QED
      BY <1>3, <2>3, <3>2
  <2>. QED
    BY <2>2, <2>3, <2>4, Zenon DEF R!BellOK, Counted, R!Told, R!Unread
<1>. QED
  BY <1>1, <1>2, <1>3 DEF R!BellNext, R!DismissNotifications

LEMMA RequestsFitInitially == R!Init => RequestsFit
<1>. SUFFICES ASSUME R!Init
              PROVE  RequestsFit
  OBVIOUS
<1>1. /\ list \in R!List /\ rows = {} /\ owned = {} /\ decided = [n \in 1..MaxRows |-> "open"]
      /\ ahead = MaxNotices /\ since = 0 /\ silent = FALSE
  BY DEF R!Init, R!Empty
<1>2. asking \in [Person -> R!Asked] /\ deciding \in [Parent -> R!Answer]
  <2>1. (CHOOSE b \in WishBook : TRUE) \in WishBook
    BY RequestAssumption
  <2>. QED
    BY <2>1 DEF R!Init, R!Asked, R!Answer
<1>3. ahead \in 0..MaxNotices /\ since \in 0..MaxNotices /\ ~(ahead < MaxNotices)
  BY <1>1, RequestAssumption
<1>4. silent \in BOOLEAN
  BY <1>1, Zenon
<1>5. R!BellOK /\ Counted
  BY <1>3, <1>4, Zenon DEF R!BellOK, Counted
<1>6. R!TypeOK
  BY <1>1, <1>2, <1>5 DEF R!TypeOK
<1>7. Numbered(rows)
  BY <1>1, RequestAssumption, FS_EmptySet DEF Numbered
<1>8. ClosedFit(rows, decided) /\ BellFits
  BY <1>1, <1>5 DEF ClosedFit, BellFits, WaitsIn
<1>. QED
  BY <1>6, <1>7, <1>8 DEF RequestsFit

-----------------------------------------------------------------------------

\* A new request has a number of its own, and was never closed.
LEMMA NewRowFits ==
    ASSUME RequestsFit, R!Cardinality(rows) < MaxRows, NEW r \in R!Row, r.n = R!Cardinality(rows) + 1
    PROVE  /\ rows \cup {r} \subseteq R!Row /\ Numbered(rows \cup {r}) /\ ClosedFit(rows \cup {r}, decided)
<1> DEFINE k == Cardinality(rows)
<1>1. k \in Nat /\ r.n = k + 1 /\ k < MaxRows /\ IsFiniteSet(rows) /\ \A q \in rows : q.n <= k /\ q.n \in Nat
  BY RequestTypes, SameCount, FS_CardinalityType DEF Numbered, R!Row
<1>2. r \notin rows
  BY <1>1
<1>3. IsFiniteSet(rows \cup {r}) /\ Cardinality(rows \cup {r}) = k + 1
  BY <1>1, <1>2, FS_AddElement
<1>4. \A q, p \in rows \cup {r} : q.n = p.n => q = p
  BY <1>1, RequestTypes DEF Numbered
<1>5. Numbered(rows \cup {r})
  <2>1. k + 1 <= MaxRows
    BY <1>1, RequestTypes
  <2>2. \A q \in rows \cup {r} : q.n <= k + 1
    BY <1>1
  <2> HIDE DEF k
  <2>. QED
    BY <1>3, <1>4, <2>1, <2>2 DEF Numbered
<1>6. ClosedFit(rows \cup {r}, decided)
  BY RequestTypes DEF ClosedFit
<1>. QED
  BY <1>5, <1>6, RequestTypes

\* Closing, or approving, some that are open: they keep their numbers, none comes to wait,
\* and what was closed stays closed as it was.
LEMMA CloseFits ==
    ASSUME RequestsFit, NEW s \in SUBSET rows, \A r \in s : IsOpen(r),
           NEW st \in R!Closed \cup {"approved"}, R!Close(s, st)
    PROVE  /\ rows' \subseteq R!Row /\ Numbered(rows') /\ ClosedFit(rows', decided')
           /\ DOMAIN decided' = 1..MaxRows /\ \A n \in 1..MaxRows : decided'[n] \in R!Closed \cup {"open"}
           /\ WaitsIn(rows') => WaitsIn(rows)
           /\ \A n \in 1..MaxRows : decided[n] # "open" => decided'[n] = decided[n]
<1> DEFINE f(r) == IF r \in s THEN [r EXCEPT !.status = st] ELSE r
<1>1. ASSUME NEW r \in rows
      PROVE  /\ f(r) \in R!Row /\ f(r).n = r.n /\ f(r).told = r.told
             /\ f(r).status = IF r \in s THEN st ELSE r.status
  BY RequestTypes DEF R!Row, R!Closed, R!Open
<1>2. /\ rows' = {f(r) : r \in rows}
      /\ decided' = [n \in 1..MaxRows |-> IF st \in R!Closed /\ (\E r \in s : r.n = n) THEN st ELSE decided[n]]
  BY DEF R!Close
<1> HIDE DEF f
<1>3. \A r, q \in rows : f(r) = f(q) => r = q
  BY <1>1, RequestTypes DEF Numbered
<1>4. ExistsBijection(rows, rows')
  <2>1. [r \in rows |-> f(r)] \in Bijection(rows, rows')
    BY <1>2, <1>3 DEF Bijection, Injection, Surjection, IsInjective
  <2>. QED
    BY <2>1 DEF ExistsBijection
<1>5. IsFiniteSet(rows') /\ Cardinality(rows') = Cardinality(rows)
  BY <1>4, FS_Bijection, RequestTypes DEF Numbered
<1>6. Numbered(rows')
  <2>1. \A q \in rows' : \E r \in rows : q = f(r)
    BY <1>2
  <2>2. \A q, p \in rows' : q.n = p.n => q = p
    BY <1>1, <2>1, RequestTypes DEF Numbered
  <2>3. \A q \in rows' : q.n <= Cardinality(rows')
    BY <1>1, <1>5, <2>1, RequestTypes DEF Numbered
  <2>. QED
    BY <1>5, <2>2, <2>3, RequestTypes DEF Numbered
<1>7. \A n \in 1..MaxRows : decided[n] # "open" => ~\E r \in s : r.n = n
  BY RequestTypes DEF ClosedFit, Numbered
<1>8. ASSUME NEW n \in 1..MaxRows, decided'[n] # "open"
      PROVE  \E q \in rows' : q.n = n /\ ~IsOpen(q)
  <2>1. CASE st \in R!Closed /\ \E r \in s : r.n = n
    <3>1. PICK r \in s : r.n = n
      BY <2>1
    <3>2. f(r) \in rows' /\ f(r).n = n /\ f(r).status = st
      BY <1>1, <1>2, <3>1
    <3>. QED
      BY <2>1, <3>2 DEF IsOpen, R!Closed, R!Open
  <2>2. CASE ~(st \in R!Closed /\ \E r \in s : r.n = n)
    <3>1. PICK r \in rows : r.n = n /\ ~IsOpen(r)
      BY <1>2, <1>8, <2>2, RequestTypes DEF ClosedFit
    <3>2. f(r) \in rows' /\ f(r).n = n /\ f(r).status = r.status
      BY <1>1, <1>2, <3>1
    <3>. QED
      BY <3>1, <3>2 DEF IsOpen
  <2>. QED
    BY <2>1, <2>2
<1>9. ASSUME WaitsIn(rows')
      PROVE  WaitsIn(rows)
  <2>1. PICK r \in rows : Waits(f(r))
    BY <1>2, <1>9 DEF WaitsIn
  <2>2. r \notin s
    BY <1>1, <2>1 DEF Waits, IsOpen, R!Closed, R!Open
  <2>3. Waits(r)
    BY <2>1, <2>2 DEF f
  <2>. QED
    BY <2>3 DEF WaitsIn
<1>10. \A n \in 1..MaxRows : decided'[n] \in R!Closed \cup {"open"}
  BY <1>2, RequestTypes
<1>11. \A n \in 1..MaxRows : decided[n] # "open" => decided'[n] = decided[n]
  BY <1>2, <1>7
<1>12. rows' \subseteq R!Row /\ DOMAIN decided' = 1..MaxRows
  BY <1>1, <1>2
<1>. QED
  BY <1>6, <1>8, <1>9, <1>10, <1>11, <1>12 DEF ClosedFit

-----------------------------------------------------------------------------

\* The bell stays as it is.
LEMMA SameBell ==
    ASSUME R!BellOK
    PROVE  UNCHANGED <<ahead, since, silent>> =>
               R!BellOK' /\ (Counted => Counted') /\ (R!Told => R!Told') /\ (silent => silent')
<1>0. SUFFICES ASSUME UNCHANGED <<ahead, since, silent>>
               PROVE  R!BellOK' /\ (Counted => Counted') /\ (R!Told => R!Told') /\ (silent => silent')
  OBVIOUS
<1>1. ahead' = ahead /\ since' = since /\ silent' = silent
  BY <1>0, Zenon
<1>2. silent' = silent
  BY <1>1, Zenon
<1>3. silent' \in BOOLEAN /\ (silent' <=> silent)
  BY <1>2, Zenon DEF R!BellOK
<1>4. (ahead' < MaxNotices <=> ahead < MaxNotices) /\ (ahead' <= since' <=> ahead <= since)
      /\ (since' = MaxNotices <=> since = MaxNotices)
  BY <1>1
<1>5. ahead' \in 0..MaxNotices /\ since' \in 0..MaxNotices
  BY <1>1, BellTypes
<1>6. R!BellOK'
  BY <1>3, <1>5, Zenon DEF R!BellOK
<1>7. (Counted => Counted') /\ (R!Told => R!Told')
  BY <1>3, <1>4, Zenon DEF Counted, R!Told, R!Unread
<1>. QED
  BY <1>3, <1>6, <1>7, Zenon

\* A decision: some rows are closed, and perhaps counting begins.
LEMMA DecisionFits ==
    ASSUME RequestsFit, NEW s \in SUBSET rows, \A r \in s : IsOpen(r),
           NEW st \in R!Closed \cup {"approved"}, R!Close(s, st), UNCHANGED <<list, owned, asking, ahead, since, silent>>,
           \/ UNCHANGED deciding
           \/ \E a \in Parent : deciding' = [deciding EXCEPT ![a] = "count"]
    PROVE  RequestsFit'
<1>1. deciding' \in [Parent -> R!Answer] /\ (Clearing(deciding') => Clearing(deciding))
  <2>1. CASE UNCHANGED deciding
    BY <2>1, RequestTypes
  <2>2. ASSUME NEW a \in Parent, deciding' = [deciding EXCEPT ![a] = "count"]
        PROVE  deciding' \in [Parent -> R!Answer] /\ (Clearing(deciding') => Clearing(deciding))
    BY <2>2, RequestTypes DEF Clearing, R!Answer
  <2>. QED
    BY <2>1, <2>2
<1>2. asking' = asking /\ list' = list /\ owned' = owned
  OBVIOUS
<1>3. R!BellOK' /\ Counted' /\ (R!Told => R!Told') /\ (silent => silent')
  BY SameBell, RequestTypes DEF BellFits
<1>4. R!TypeOK'
  BY <1>1, <1>2, <1>3, CloseFits, RequestTypes DEF R!TypeOK
<1>5. BellFits'
  <2>1. BellFits /\ (WaitsIn(rows') => WaitsIn(rows))
    BY CloseFits, RequestTypes
  <2>. QED
    BY <1>1, <1>2, <1>3, <2>1 DEF BellFits
<1>. QED
  BY <1>4, <1>5, CloseFits DEF RequestsFit

\* The rows and what was decided stay.
LEMMA BellKeeps ==
    ASSUME RequestsFit, UNCHANGED <<list, rows, decided>>, owned' \subseteq WishBook, R!BellOK',
           asking' \in [Person -> R!Asked], deciding' \in [Parent -> R!Answer], BellFits'
    PROVE  RequestsFit'
  BY RequestTypes DEF RequestsFit, R!TypeOK

\* A person steps on, with or without a notice to write.
LEMMA AskingMoves ==
    ASSUME RequestsFit, NEW p \in Person, NEW q \in R!Asked, asking' = [asking EXCEPT ![p] = q]
    PROVE  /\ asking' \in [Person -> R!Asked]
           /\ q.at = "notify" => OnTheWay(asking')
           /\ OnTheWay(asking) /\ asking[p].at # "notify" => OnTheWay(asking')
<1>1. asking \in [Person -> R!Asked]
  BY RequestTypes
<1>. QED
  BY <1>1 DEF OnTheWay

LEMMA RequestsKeep ==
    ASSUME RequestsFit, [R!Next]_requestVars
    PROVE  RequestsFit'
<1>. USE RequestTypes
<1>1. CASE UNCHANGED requestVars
  <2>1. UNCHANGED <<list, owned, rows, asking, deciding, decided>> /\ UNCHANGED <<ahead, since, silent>>
    BY <1>1 DEF requestVars
  <2>2. R!BellOK' /\ Counted' /\ (R!Told => R!Told') /\ (silent => silent')
    BY <2>1, SameBell DEF BellFits
  <2>3. BellFits'
    BY <2>1, <2>2 DEF BellFits
  <2>. QED
    BY <2>1, <2>2, <2>3, BellKeeps
<1>2. ASSUME NEW p \in Person, NEW b \in WishBook, R!WishSuggestion(p, b)
      PROVE  RequestsFit'
  <2> DEFINE r == R!New(p, b, FALSE)
  <2>1. R!Cardinality(rows) < MaxRows /\ rows' = rows \cup {r}
        /\ UNCHANGED <<list, owned, asking, deciding, decided>> /\ UNCHANGED <<ahead, since, silent>>
    BY <1>2 DEF R!WishSuggestion, R!bellVars
  <2>2. R!Cardinality(rows) \in Nat
    BY SameCount, FS_CardinalityType DEF Numbered
  <2>3. r \in R!Row /\ r.n = R!Cardinality(rows) + 1 /\ r.told = FALSE
    BY <2>1, <2>2 DEF R!Row, R!Open, R!New
  <2> HIDE DEF r
  <2>4. rows' \subseteq R!Row /\ Numbered(rows') /\ ClosedFit(rows', decided)
    BY <2>1, <2>3, NewRowFits
  <2>5. WaitsIn(rows') => WaitsIn(rows)
    BY <2>1, <2>3 DEF WaitsIn, Waits
  <2>6. R!BellOK' /\ Counted' /\ (R!Told => R!Told') /\ (silent => silent')
    BY <2>1, SameBell DEF BellFits
  <2>7. BellFits'
    BY <2>1, <2>5, <2>6 DEF BellFits
  <2>8. R!TypeOK'
    BY <2>1, <2>4, <2>6 DEF R!TypeOK
  <2>. QED
    BY <2>1, <2>4, <2>7, <2>8 DEF RequestsFit
<1>3. ASSUME NEW p \in Person, NEW b \in WishBook, NEW l \in R!List, R!Ask(p, l, b)
      PROVE  RequestsFit'
  <2> DEFINE q == [at |-> "insert", book |-> b]
  <2>1. q \in R!Asked /\ asking[p].at = "idle"
    BY <1>3 DEF R!Asked, R!Ask
  <2>2. asking' = [asking EXCEPT ![p] = q] /\ UNCHANGED <<list, owned, rows, deciding, decided>> /\ UNCHANGED <<ahead, since, silent>>
    BY <1>3 DEF R!Ask, R!bellVars
  <2> HIDE DEF q
  <2>3. R!BellOK' /\ Counted' /\ (R!Told => R!Told') /\ (silent => silent')
    BY <2>2, SameBell DEF BellFits
  <2>4. asking' \in [Person -> R!Asked] /\ (OnTheWay(asking) => OnTheWay(asking'))
    BY <2>1, <2>2, AskingMoves
  <2>5. BellFits'
    BY <2>2, <2>3, <2>4 DEF BellFits
  <2>. QED
    BY <2>2, <2>3, <2>4, <2>5, BellKeeps
<1>4. ASSUME NEW p \in Person, R!Insert(p)
      PROVE  RequestsFit'
  <2> DEFINE again == R!Again(p)
             q == [asking[p] EXCEPT !.at = IF again /\ list = "wishlist" THEN "idle" ELSE "notify"]
             r == R!New(p, asking[p].book, TRUE)
  <2>0. asking[p] \in R!Asked /\ asking[p].at = "insert"
    BY <1>4 DEF R!Insert
  <2>1. q \in R!Asked /\ (~again => q.at = "notify")
    BY <2>0 DEF R!Asked
  <2>2. /\ asking' = [asking EXCEPT ![p] = q] /\ UNCHANGED <<list, owned, deciding, decided>> /\ UNCHANGED <<ahead, since, silent>>
        /\ \/ rows' = rows
           \/ ~again /\ R!Cardinality(rows) < MaxRows /\ rows' = rows \cup {r}
    BY <1>4 DEF R!Insert, R!bellVars
  <2>3. R!BellOK' /\ Counted' /\ (R!Told => R!Told') /\ (silent => silent')
    BY <2>2, SameBell DEF BellFits
  <2> HIDE DEF q, again, r
  <2>4. asking' \in [Person -> R!Asked] /\ (OnTheWay(asking) => OnTheWay(asking')) /\ (~again => OnTheWay(asking'))
    BY <2>0, <2>1, <2>2, AskingMoves
  <2>5. CASE rows' = rows
    <3>1. BellFits'
      BY <2>2, <2>3, <2>4, <2>5 DEF BellFits
    <3>. QED
      BY <2>2, <2>3, <2>4, <2>5, <3>1, BellKeeps
  <2>6. CASE ~again /\ R!Cardinality(rows) < MaxRows /\ rows' = rows \cup {r}
    <3>1. R!Cardinality(rows) \in Nat
      BY SameCount, FS_CardinalityType DEF Numbered
    <3>2. r \in R!Row /\ r.n = R!Cardinality(rows) + 1
      BY <2>0, <2>6, <3>1 DEF r, R!New, R!Row, R!Open, R!Asked
    <3>3. rows' \subseteq R!Row /\ Numbered(rows') /\ ClosedFit(rows', decided)
      BY <2>6, <3>2, NewRowFits
    <3>4. BellFits'
      BY <2>3, <2>4, <2>6 DEF BellFits
    <3>5. R!TypeOK'
      BY <2>2, <2>3, <2>4, <3>3 DEF R!TypeOK
    <3>. QED
      BY <2>2, <3>3, <3>4, <3>5 DEF RequestsFit
  <2>. QED
    BY <2>2, <2>5, <2>6
<1>5. ASSUME NEW p \in Person, R!Notify(p)
      PROVE  RequestsFit'
  <2> DEFINE q == [asking[p] EXCEPT !.at = "idle"]
             crossed == \E a \in Parent : deciding[a] = "resolve"
  <2>1. q \in R!Asked
    BY DEF R!Asked
  <2>2. asking' = [asking EXCEPT ![p] = q] /\ UNCHANGED <<list, owned, rows, deciding, decided>>
    BY <1>5 DEF R!Notify
  <2>3. R!Written(crossed) \/ R!NotWritten
    BY <1>5, Zenon DEF R!Notify
  <2>4. crossed \in BOOLEAN /\ (crossed <=> Clearing(deciding))
    BY Zenon DEF Clearing
  <2> HIDE DEF q, crossed
  <2>5. R!BellOK' /\ Counted' /\ R!Told' /\ (Clearing(deciding) => silent')
    <3>1. CASE R!Written(crossed)
      <4>1. R!BellOK' /\ Counted' /\ R!Told' /\ (crossed => silent')
        BY <2>4, <3>1, WrittenIs, Zenon
      <4>. QED
        BY <2>4, <4>1, Zenon
    <3>2. CASE R!NotWritten
      BY <3>2, NotWrittenIs, Zenon
    <3>. QED
      BY <2>3, <3>1, <3>2
  <2>6. BellFits'
    BY <2>2, <2>5 DEF BellFits
  <2>. QED
    BY <2>1, <2>2, <2>5, <2>6, AskingMoves, BellKeeps
<1>6. ASSUME NEW p \in Person, NEW b \in WishBook, R!RemoveWish(p, b)
      PROVE  RequestsFit'
  BY <1>6, DecisionFits DEF R!RemoveWish, R!Mine, R!OpenRows, IsOpen, R!Closed, R!bellVars
<1>7. CASE R!Wishes
  BY <1>7, DecisionFits DEF R!Wishes, R!OpenRows, IsOpen, R!Closed, R!bellVars
<1>8. ASSUME NEW a \in Parent, NEW r \in rows, R!DecideWish(a, r) \/ R!CloseProblemReport(a, r)
      PROVE  RequestsFit'
  <2>1. /\ \E st \in R!Closed \cup {"approved"} : IsOpen(r) /\ R!Close({r}, st)
        /\ deciding' = [deciding EXCEPT ![a] = "count"]
        /\ UNCHANGED <<list, owned, asking, ahead, since, silent>>
    BY <1>8 DEF R!DecideWish, R!CloseProblemReport, R!SetOpen, R!Begin, R!Closed, IsOpen, R!bellVars
  <2>. QED
    BY <2>1, DecisionFits
<1>9. ASSUME NEW a \in Parent, NEW r \in rows, R!CloseCoverReports(a, r)
      PROVE  RequestsFit'
  <2>1. /\ \E s \in SUBSET rows : (\A x \in s : IsOpen(x)) /\ R!Close(s, "done")
        /\ deciding' = [deciding EXCEPT ![a] = "count"]
        /\ UNCHANGED <<list, owned, asking, ahead, since, silent>>
    BY <1>9 DEF R!CloseCoverReports, R!OpenRows, R!Begin, IsOpen, R!bellVars
  <2>2. "done" \in R!Closed \cup {"approved"}
    BY DEF R!Closed
  <2>. QED
    BY <2>1, <2>2, DecisionFits
<1>10. ASSUME NEW a \in Parent, R!Count(a)
       PROVE  RequestsFit'
  <2>1. /\ deciding' = [deciding EXCEPT ![a] = IF R!Waiting = {} THEN "resolve" ELSE "idle"]
        /\ UNCHANGED <<list, owned, rows, asking, decided>> /\ UNCHANGED <<ahead, since, silent>>
    BY <1>10 DEF R!Count, R!bellVars
  <2>2. deciding' \in [Parent -> R!Answer] /\ (Clearing(deciding') => Clearing(deciding) \/ R!Waiting = {})
    BY <2>1 DEF R!Answer, Clearing
  <2>3. R!Waiting = {} => ~WaitsIn(rows)
    BY WaitingMeans
  <2>4. R!BellOK' /\ Counted' /\ (R!Told => R!Told') /\ (silent => silent')
    BY <2>1, SameBell DEF BellFits
  <2>5. BellFits'
    BY <2>1, <2>2, <2>3, <2>4 DEF BellFits
  <2>. QED
    BY <2>1, <2>2, <2>4, <2>5, BellKeeps
<1>11. ASSUME NEW a \in Parent, R!ResolveNotice(a)
       PROVE  RequestsFit'
  <2>1. /\ deciding[a] = "resolve" /\ deciding' = [deciding EXCEPT ![a] = "idle"] /\ R!Resolve
        /\ UNCHANGED <<list, owned, rows, asking, decided>>
    BY <1>11 DEF R!ResolveNotice
  <2>2. deciding' \in [Parent -> R!Answer] /\ Clearing(deciding)
    BY <2>1 DEF R!Answer, Clearing
  <2>3. R!BellOK' /\ Counted' /\ (silent => silent' /\ R!Told')
    BY <2>1, ResolveIs
  <2>4. BellFits'
    BY <2>1, <2>2, <2>3 DEF BellFits
  <2>. QED
    BY <2>1, <2>2, <2>3, <2>4, BellKeeps
<1>12. ASSUME NEW b \in WishBook, R!Arrive(b)
       PROVE  RequestsFit'
  <2>1. owned' \subseteq WishBook /\ UNCHANGED <<list, rows, asking, deciding, decided>> /\ UNCHANGED <<ahead, since, silent>>
    BY <1>12 DEF R!Arrive, R!bellVars
  <2>2. R!BellOK' /\ Counted' /\ (R!Told => R!Told') /\ (silent => silent')
    BY <2>1, SameBell DEF BellFits
  <2>3. BellFits'
    BY <2>1, <2>2 DEF BellFits
  <2>. QED
    BY <2>1, <2>2, <2>3, BellKeeps
<1>13. CASE R!Others
  <2>1. R!BellNext /\ UNCHANGED <<list, owned, rows, asking, deciding, decided>>
    BY <1>13 DEF R!Others
  <2>2. R!BellOK' /\ Counted' /\ (R!Told => R!Told') /\ (silent => silent')
    BY <2>1, OthersTell DEF BellFits
  <2>3. BellFits'
    BY <2>1, <2>2 DEF BellFits
  <2>. QED
    BY <2>1, <2>2, <2>3, BellKeeps
<1>14. CASE R!Stop
  <2>1. /\ asking' = [p \in Person |-> [asking[p] EXCEPT !.at = "idle"]] /\ deciding' = [a \in Parent |-> "idle"]
        /\ OnTheWay(asking) => R!NotWritten
        /\ ~OnTheWay(asking) => UNCHANGED <<ahead, since, silent>>
        /\ UNCHANGED <<list, owned, rows, decided>>
    BY <1>14 DEF R!Stop, R!bellVars, OnTheWay
  <2>2. asking' \in [Person -> R!Asked] /\ deciding' \in [Parent -> R!Answer] /\ ~Clearing(deciding')
    BY <2>1 DEF R!Answer, R!Asked, Clearing
  <2>3. R!BellOK' /\ Counted' /\ (R!Told \/ OnTheWay(asking) => R!Told')
    <3>1. CASE OnTheWay(asking)
      BY <2>1, <3>1, NotWrittenIs
    <3>2. CASE ~OnTheWay(asking)
      BY <2>1, <3>2, SameBell DEF BellFits
    <3>. QED
      BY <3>1, <3>2
  <2>4. BellFits'
    BY <2>1, <2>2, <2>3 DEF BellFits
  <2>. QED
    BY <2>1, <2>2, <2>3, <2>4, BellKeeps
<1>. QED
  BY <1>1, <1>2, <1>3, <1>4, <1>5, <1>6, <1>7, <1>8, <1>9, <1>10, <1>11, <1>12, <1>13, <1>14
  DEF R!Next, R!AddWish, R!ReportCover, R!ReportProblem, R!List

\* Whatever step is taken, what was closed stays as it was closed.
LEMMA DecidedStays ==
    ASSUME RequestsFit, [R!Next]_requestVars
    PROVE  R!DecidedStands
<1>. SUFFICES ASSUME decided' # decided
              PROVE  R!DecidedStands
  BY DEF R!DecidedStands
<1>1. PICK s \in SUBSET rows, st \in R!Closed \cup {"approved"} : (\A r \in s : IsOpen(r)) /\ R!Close(s, st)
  <2>1. CASE \E p \in Person, b \in WishBook : R!RemoveWish(p, b)
    BY <2>1 DEF R!RemoveWish, R!Mine, R!OpenRows, IsOpen, R!Closed
  <2>2. CASE R!Wishes
    BY <2>2 DEF R!Wishes, R!OpenRows, IsOpen, R!Closed
  <2>3. CASE \E a \in Parent : \E r \in rows : R!DecideWish(a, r) \/ R!CloseProblemReport(a, r)
    BY <2>3 DEF R!DecideWish, R!CloseProblemReport, R!SetOpen, R!Closed, IsOpen
  <2>4. CASE \E a \in Parent : \E r \in rows : R!CloseCoverReports(a, r)
    BY <2>4 DEF R!CloseCoverReports, R!OpenRows, IsOpen, R!Closed
  <2>. QED
    BY <2>1, <2>2, <2>3, <2>4 DEF R!Next, requestVars, R!Ask, R!AddWish, R!ReportCover, R!ReportProblem, R!Insert, R!WishSuggestion, R!Notify, R!Count, R!ResolveNotice,
       R!Arrive, R!Others, R!Stop
<1>. QED
  BY <1>1, CloseFits DEF R!DecidedStands

\* A request is closed once and stays closed as it was, from pages of any age (wishlist.go and
\* problems.go close what is still open); and for any number of people, parents and notices kept,
\* whoever asked and had a notice to write is in the bell until nothing of the list waits, somebody
\* saw it, it could not be written, or as many others were written since as are kept.
THEOREM RequestsAreHeard == MCSpec => RequestsAreKept
<1> DEFINE Fit == running = "requests" => RequestsFit
           Stands == running = "requests" => R!DecidedStands
           Told == running = "requests" => R!TypeOK /\ R!WaitingIsTold
<1>1. MCInit => Fit
  BY RequestsFitInitially DEF MCInit
<1>2. Fit /\ [MCNext]_allVars => Fit' /\ (running' = running) /\ Stands
  <2>1. ASSUME [MCNext]_allVars, running' = "requests" \/ running = "requests"
        PROVE  running = "requests" /\ [R!Next]_requestVars
    BY <2>1 DEF MCNext, allVars
  <2>2. ASSUME [MCNext]_allVars
        PROVE  running' = running
    BY <2>2 DEF MCNext, allVars
  <2>. QED
    BY <2>1, <2>2, RequestsKeep, DecidedStays
<1>3. Fit => Told
  <2>1. RequestsFit => R!TypeOK /\ R!WaitingIsTold
    BY WaitingMeans DEF RequestsFit, BellFits, OnTheWay, R!WaitingIsTold
  <2>. QED
    BY <2>1
<1>4. Fit /\ [MCNext]_allVars => [Stands]_allVars
  BY <1>2
<1>. QED
  BY <1>1, <1>2, <1>3, <1>4, PTL DEF MCSpec, RequestsAreKept

-----------------------------------------------------------------------------
(* Phones. One key is made at a time, and only while there is none; whoever *)
(* has a key, a browser or a subscription, has the saved one.              *)

AskerState == [at : {"idle", "key", "make", "subscribe", "register"}, key : 0..MaxKeys]

\* A device's request, k the saved key, lo who is inside signingKey, n its last subscription.
AskerFits(q, d, k, lo, n) ==
    /\ q.at \in {"subscribe", "register"} => q.key = k /\ k # 0
    /\ q.at = "register" => n # 0
    /\ q.at = "make" => k = 0 /\ lo = {d} /\ q.key # 0

KeysFit ==
    /\ P!TypeOK /\ P!OneKey
    /\ sending = [n \in Notice |-> sending[n]]
    /\ memory \in {0, key}
    /\ \A d \in Device : AskerFits(asker[d], d, key, locked, last[d])

LEMMA PushTypes ==
    ASSUME KeysFit
    PROVE  /\ MaxKeys \in Nat /\ MaxGen \in Nat
           /\ key \in 0..MaxKeys /\ memory \in {0, key} /\ keys \in 0..MaxKeys
           /\ locked \subseteq Device
           /\ asker \in [Device -> AskerState]
           /\ gen \in [Device -> 0..MaxGen] /\ last \in [Device -> 0..MaxGen]
           /\ subs \subseteq P!Sub
           /\ \A s \in subs : s.key = key /\ s.key \in 1..MaxKeys /\ s.dev \in Device
           /\ sending = [n \in Notice |-> sending[n]]
           /\ \A n \in Notice : sending[n].on \in BOOLEAN /\ sending[n].left \subseteq P!Sub
           /\ \A d \in Device : AskerFits(asker[d], d, key, locked, last[d])
  BY PushAssumption DEF KeysFit, P!TypeOK, AskerState, P!OneKey, P!Sub

\* Without a key nobody subscribed with one.
LEMMA NoKeyNoSubs ==
    ASSUME KeysFit, key = 0
    PROVE  subs = {}
  BY PushTypes

LEMMA KeysFitInitially == P!Init => KeysFit
<1>. SUFFICES ASSUME P!Init
              PROVE  KeysFit
  OBVIOUS
<1>0. /\ key = 0 /\ memory = 0 /\ locked = {} /\ keys = 0 /\ subs = {} /\ asker = [d \in Device |-> P!Idle]
      /\ gen = [d \in Device |-> 0] /\ last = [d \in Device |-> 0] /\ sending = [n \in Notice |-> P!Off]
  BY DEF P!Init
<1>b. P!Idle \in AskerState
  BY PushAssumption DEF AskerState, P!Idle
<1>c. P!Off.on \in BOOLEAN /\ P!Off.left \subseteq P!Sub
  BY DEF P!Off
<1>a. asker \in [Device -> AskerState] /\ \A n \in Notice : sending[n].on \in BOOLEAN /\ sending[n].left \subseteq P!Sub
  BY <1>0, <1>b, <1>c
<1>1. P!TypeOK /\ P!OneKey
  BY <1>0, <1>a, PushAssumption DEF P!TypeOK, AskerState, P!OneKey
<1>2. sending = [n \in Notice |-> sending[n]]
  BY DEF P!Init
<1>3. memory \in {0, key} /\ \A d \in Device : AskerFits(asker[d], d, key, locked, last[d])
  BY DEF P!Init, P!Idle, AskerFits
<1>. QED
  BY <1>1, <1>2, <1>3 DEF KeysFit

\* A step of one device's request.
LEMMA OneAskerFits ==
    ASSUME KeysFit, NEW d \in Device, NEW at \in {"idle", "key", "make", "subscribe", "register"}, NEW k \in 0..MaxKeys,
           P!Step(d, at, k), UNCHANGED <<subs, sending>>,
           key' \in 0..MaxKeys, memory' \in {0, key'}, keys' \in 0..MaxKeys, locked' \subseteq Device,
           gen' \in [Device -> 0..MaxGen], last' \in [Device -> 0..MaxGen],
           key' = key \/ subs = {},
           \A e \in Device \ {d} : AskerFits(asker[e], e, key', locked', last'[e]),
           AskerFits([at |-> at, key |-> k], d, key', locked', last'[d])
    PROVE  KeysFit'
<1>1. [at |-> at, key |-> k] \in AskerState
  BY DEF AskerState
<1>2. /\ asker' \in [Device -> AskerState] /\ asker'[d] = [at |-> at, key |-> k]
      /\ \A e \in Device \ {d} : asker'[e] = asker[e]
  BY <1>1, PushTypes DEF P!Step
<1>3. P!TypeOK'
  BY <1>2, PushTypes DEF P!TypeOK, AskerState
<1>4. P!OneKey'
  BY PushTypes DEF P!OneKey
<1>5. \A e \in Device : AskerFits(asker'[e], e, key', locked', last'[e])
  BY <1>2
<1>6. sending' = [n \in Notice |-> sending'[n]]
  BY PushTypes
<1>. QED
  BY <1>3, <1>4, <1>5, <1>6 DEF KeysFit

\* Steps that leave the key and the requests.
LEMMA SubsFit ==
    ASSUME KeysFit, UNCHANGED <<key, memory, locked, keys, last>>,
           asker' \in [Device -> AskerState], \A d \in Device : AskerFits(asker'[d], d, key, locked, last[d]),
           gen' \in [Device -> 0..MaxGen],
           subs' \subseteq P!Sub, \A s \in subs' : s.key = key,
           sending' = [n \in Notice |-> sending'[n]],
           \A n \in Notice : sending'[n].on \in BOOLEAN /\ sending'[n].left \subseteq P!Sub
    PROVE  KeysFit'
<1>0. memory \in 0..MaxKeys
  BY PushTypes
<1>1. P!TypeOK'
  BY <1>0, PushTypes DEF P!TypeOK, AskerState
<1>. QED
  BY <1>1, PushTypes DEF KeysFit, P!OneKey

LEMMA KeysKeep ==
    ASSUME KeysFit, [P!Next]_pushVars
    PROVE  KeysFit'
<1>. USE PushTypes
<1>1. CASE UNCHANGED pushVars
  BY <1>1, SubsFit DEF pushVars
<1>2. ASSUME NEW d \in Device, P!Status(d)
      PROVE  KeysFit'
  <2>1. AskerFits([at |-> "key", key |-> 0], d, key, locked, last[d])
    BY DEF AskerFits
  <2>2. P!Step(d, "key", 0) /\ UNCHANGED <<key, memory, locked, keys, gen, last, subs, sending>> /\ 0 \in 0..MaxKeys
    BY <1>2 DEF P!Status
  <2>. QED
    BY <2>1, <2>2, OneAskerFits
<1>3. ASSUME NEW d \in Device, P!SigningKey(d)
      PROVE  KeysFit'
  <2>0. locked = {} /\ UNCHANGED <<key, gen, last, subs, sending>> /\ \A e \in Device : asker[e].at # "make"
    BY <1>3 DEF P!SigningKey, P!Lock, AskerFits
  <2>1. CASE memory # 0 /\ P!Step(d, "subscribe", memory) /\ UNCHANGED <<memory, locked, keys>>
    <3>1. memory = key /\ AskerFits([at |-> "subscribe", key |-> memory], d, key, locked, last[d])
      BY <2>1 DEF AskerFits
    <3>. QED
      BY <2>0, <2>1, <3>1, OneAskerFits
  <2>2. CASE key # 0 /\ P!Step(d, "subscribe", key) /\ memory' = key /\ UNCHANGED <<locked, keys>>
    <3>1. AskerFits([at |-> "subscribe", key |-> key], d, key, locked, last[d])
      BY <2>2 DEF AskerFits
    <3>. QED
      BY <2>0, <2>2, <3>1, OneAskerFits
  <2>3. CASE /\ memory = 0 /\ key = 0 /\ keys < MaxKeys /\ keys' = keys + 1 /\ P!Step(d, "make", keys + 1)
             /\ locked' = locked \cup {d} /\ memory' = memory
    <3>1. locked' = {d} /\ keys + 1 \in 1..MaxKeys
      BY <2>0, <2>3
    <3>2. AskerFits([at |-> "make", key |-> keys + 1], d, key, locked', last[d])
      BY <2>3, <3>1 DEF AskerFits
    <3>3. \A e \in Device \ {d} : AskerFits(asker[e], e, key, locked', last[e])
      BY <2>0 DEF AskerFits
    <3>4. keys + 1 \in 0..MaxKeys /\ keys' \in 0..MaxKeys /\ memory' \in {0, key'} /\ locked' \subseteq Device
      BY <2>0, <2>3, <3>1
    <3>. QED
      BY <2>0, <2>3, <3>2, <3>3, <3>4, OneAskerFits
  <2>. QED
    BY <1>3, <2>1, <2>2, <2>3 DEF P!SigningKey
<1>4. ASSUME NEW d \in Device, P!SaveKey(d)
      PROVE  KeysFit'
  <2>a. asker[d].at = "make" /\ locked' = locked \ {d} /\ UNCHANGED <<keys, gen, last, subs, sending>>
    BY <1>4 DEF P!SaveKey
  <2>b. key = 0 /\ locked = {d} /\ asker[d].key \in 1..MaxKeys
    BY <2>a DEF AskerFits, AskerState
  <2>c. \A e \in Device \ {d} : asker[e].at \notin {"make", "subscribe", "register"}
    BY <2>b DEF AskerFits
  <2>0. /\ key = 0 /\ locked = {d} /\ asker[d].key \in 1..MaxKeys /\ subs = {}
        /\ locked' = {} /\ UNCHANGED <<keys, gen, last, subs, sending>>
        /\ \A e \in Device \ {d} : asker[e].at \notin {"make", "subscribe", "register"}
    BY <2>a, <2>b, <2>c, NoKeyNoSubs
  <2>1. CASE key' = asker[d].key /\ memory' = asker[d].key /\ P!Step(d, "subscribe", asker[d].key)
    <3>1. AskerFits([at |-> "subscribe", key |-> asker[d].key], d, key', locked', last[d])
      BY <2>0, <2>1 DEF AskerFits
    <3>2. \A e \in Device \ {d} : AskerFits(asker[e], e, key', locked', last[e])
      BY <2>0 DEF AskerFits
    <3>. QED
      BY <2>0, <2>1, <3>1, <3>2, OneAskerFits
  <2>2. CASE UNCHANGED <<key, memory>> /\ P!Step(d, "idle", 0)
    <3>1. AskerFits([at |-> "idle", key |-> 0], d, key, locked', last[d])
      BY DEF AskerFits
    <3>2. \A e \in Device \ {d} : AskerFits(asker[e], e, key, locked', last[e])
      BY <2>0 DEF AskerFits
    <3>. QED
      BY <2>0, <2>2, <3>1, <3>2, OneAskerFits
  <2>. QED
    BY <1>4, <2>1, <2>2 DEF P!SaveKey
<1>5. ASSUME NEW d \in Device, P!Subscribe(d)
      PROVE  KeysFit'
  <2>0. /\ asker[d].at = "subscribe" /\ last[d] < MaxGen /\ last' = [last EXCEPT ![d] = last[d] + 1]
        /\ gen' = [gen EXCEPT ![d] = last[d] + 1] /\ P!Step(d, "register", asker[d].key)
        /\ UNCHANGED <<key, memory, locked, keys, subs, sending>>
    BY <1>5 DEF P!Subscribe
  <2>1. last[d] \in 0..MaxGen /\ last[d] + 1 \in 1..MaxGen
    BY <2>0
  <2>2. /\ last' \in [Device -> 0..MaxGen] /\ gen' \in [Device -> 0..MaxGen]
        /\ last'[d] = last[d] + 1 /\ \A e \in Device \ {d} : last'[e] = last[e]
    BY <2>0, <2>1
  <2>3. AskerFits([at |-> "register", key |-> asker[d].key], d, key, locked, last'[d])
    BY <2>0, <2>1, <2>2 DEF AskerFits
  <2>4. \A e \in Device \ {d} : AskerFits(asker[e], e, key, locked, last'[e])
    BY <2>2
  <2>5. asker[d].key \in 0..MaxKeys
    BY DEF AskerState
  <2>. QED
    BY <2>0, <2>2, <2>3, <2>4, <2>5, OneAskerFits
<1>6. ASSUME NEW d \in Device, P!Gone(d)
      PROVE  KeysFit'
  <2>1. gen' \in [Device -> 0..MaxGen]
    BY <1>6 DEF P!Gone
  <2>. QED
    BY <1>6, <2>1, SubsFit DEF P!Gone
<1>7. ASSUME NEW d \in Device, NEW u \in Reader, P!Register(d, u)
      PROVE  KeysFit'
  <2> DEFINE sub == [dev |-> d, gen |-> last[d], user |-> u, key |-> asker[d].key]
  <2>1. /\ asker[d].at = "register" /\ subs' = {s \in subs : ~(s.dev = d /\ s.gen = last[d])} \cup {sub}
        /\ P!Step(d, "idle", 0) \/ asker' = asker
        /\ UNCHANGED <<key, memory, locked, keys, gen, last, sending>>
    BY <1>7 DEF P!Register, P!SavePushSub
  <2>2. asker[d].key = key /\ key \in 1..MaxKeys /\ last[d] \in 1..MaxGen
    BY <2>1 DEF AskerFits
  <2>3. sub \in P!Sub /\ sub.key = key
    BY <2>2 DEF P!Sub
  <2> HIDE DEF sub
  <2>4. asker' \in [Device -> AskerState] /\ \A e \in Device : AskerFits(asker'[e], e, key, locked, last[e])
    <3>1. [at |-> "idle", key |-> 0] \in AskerState /\ AskerFits([at |-> "idle", key |-> 0], d, key, locked, last[d])
      BY DEF AskerState, AskerFits
    <3>. QED
      BY <2>1, <3>1 DEF P!Step
  <2>. QED
    BY <2>1, <2>3, <2>4, SubsFit
<1>8. ASSUME NEW s \in subs, P!Unsubscribe(s)
      PROVE  KeysFit'
  BY <1>8, SubsFit DEF P!Unsubscribe, P!DeletePushSub
<1>9. ASSUME NEW n \in Notice, P!Background(n) \/ P!Sent(n) \/ \E u \in Reader : P!Test(n, u)
      PROVE  KeysFit'
  <2>1. /\ \E q \in [on : BOOLEAN, left : SUBSET P!Sub] : sending' = [sending EXCEPT ![n] = q]
        /\ UNCHANGED <<key, memory, locked, keys, asker, gen, last, subs>>
    BY <1>9 DEF P!Background, P!Asked, P!Test, P!Own, P!Begin, P!Sent, P!Off
  <2>2. PICK q \in [on : BOOLEAN, left : SUBSET P!Sub] : sending' = [sending EXCEPT ![n] = q]
    BY <2>1
  <2>3. \A m \in Notice : sending'[m] = IF m = n THEN q ELSE sending[m]
    BY <2>2
  <2>4. sending' = [m \in Notice |-> sending'[m]]
    BY <2>2
  <2>5. \A m \in Notice : sending'[m].on \in BOOLEAN /\ sending'[m].left \subseteq P!Sub
    BY <2>2, <2>3
  <2>. QED
    BY <2>1, <2>4, <2>5, SubsFit
<1>10. ASSUME NEW n \in Notice, NEW s \in sending[n].left, P!Send(n, s)
       PROVE  KeysFit'
  <2>1. /\ sending' = [sending EXCEPT ![n].left = sending[n].left \ {s}] /\ subs' \subseteq subs
        /\ UNCHANGED <<key, memory, locked, keys, asker, gen, last>>
    BY <1>10 DEF P!Send, P!DropPushEndpoint
  <2> DEFINE q == [sending[n] EXCEPT !.left = sending[n].left \ {s}]
  <2>2. sending' = [sending EXCEPT ![n] = q]
    BY <2>1
  <2>3. \A m \in Notice : sending'[m] = IF m = n THEN q ELSE sending[m]
    BY <2>2
  <2>4. sending' = [m \in Notice |-> sending'[m]]
    BY <2>2
  <2>5. q.on \in BOOLEAN /\ q.left \subseteq P!Sub
    BY <1>10 DEF P!Send
  <2> HIDE DEF q
  <2>6. \A m \in Notice : sending'[m].on \in BOOLEAN /\ sending'[m].left \subseteq P!Sub
    BY <2>3, <2>5
  <2>. QED
    BY <2>1, <2>4, <2>6, SubsFit
<1>11. CASE P!Crash
  <2>1. /\ memory' = 0 /\ locked' = {}
        /\ asker' = [d \in Device |-> IF asker[d].at \in {"key", "make"} THEN P!Idle ELSE asker[d]]
        /\ sending' = [n \in Notice |-> P!Off]
        /\ UNCHANGED <<key, keys, gen, last, subs>>
    BY <1>11 DEF P!Crash
  <2>2. asker' \in [Device -> AskerState] /\ \A d \in Device : AskerFits(asker'[d], d, key, {}, last[d])
    BY <2>1 DEF AskerState, AskerFits, P!Idle
  <2>3. sending' = [n \in Notice |-> sending'[n]] /\ \A n \in Notice : sending'[n].on \in BOOLEAN /\ sending'[n].left \subseteq P!Sub
    BY <2>1 DEF P!Off
  <2>4. P!TypeOK'
    BY <2>1, <2>2, <2>3 DEF P!TypeOK, AskerState
  <2>. QED
    BY <2>1, <2>2, <2>3, <2>4 DEF KeysFit, P!OneKey
<1>. QED
  BY <1>1, <1>2, <1>3, <1>4, <1>5, <1>6, <1>7, <1>8, <1>9, <1>10, <1>11 DEF P!Next

LEMMA SubsLeaveRightly ==
    ASSUME KeysFit, [P!Next]_pushVars
    PROVE  P!LiveStays
<1>. SUFFICES ASSUME NEW s \in subs, P!Live(s), s \notin subs'
              PROVE  \/ P!Unsubscribe(s)
                     \/ \E d \in Device, u \in Reader : P!Register(d, u)
  BY DEF P!LiveStays
<1>1. ASSUME NEW t \in subs, P!Unsubscribe(t)
      PROVE  P!Unsubscribe(s)
  <2>1. t = s
    BY <1>1 DEF P!Unsubscribe, P!DeletePushSub
  <2>. QED
    BY <1>1, <2>1
<1>2. ASSUME NEW n \in Notice, NEW t, P!Send(n, t)
      PROVE  FALSE
  BY <1>2 DEF P!Send, P!SaysGone, P!Live, P!DropPushEndpoint
<1>. QED
  BY <1>1, <1>2 DEF P!Next, pushVars, P!Status, P!SigningKey, P!SaveKey, P!Subscribe, P!Gone, P!Background,
     P!Test, P!Begin, P!Sent, P!Crash

\* A browser's key is the one that is saved, whatever restarts and whoever asks at once
\* (service.go: signingKey under its mutex), and a device loses its notifications only by its
\* push service or its person, however late an old message fails (push.go: DropPushEndpoint).
THEOREM PhonesAreReached == MCSpec => PhonesAreServed
<1> DEFINE Fit == running = "push" => KeysFit
           Stays == running = "push" => P!LiveStays
           Typed == running = "push" => P!TypeOK /\ P!OneKey
<1>1. MCInit => Fit
  BY KeysFitInitially DEF MCInit
<1>2. Fit /\ [MCNext]_allVars => Fit' /\ Stays
  <2>1. ASSUME [MCNext]_allVars, running' = "push" \/ running = "push"
        PROVE  running = "push" /\ [P!Next]_pushVars
    BY <2>1 DEF MCNext, allVars
  <2>. QED
    BY <2>1, KeysKeep, SubsLeaveRightly
<1>3. Fit => Typed
  BY DEF KeysFit
<1>4. Fit /\ [MCNext]_allVars => [Stays]_allVars
  BY <1>2
<1>. QED
  BY <1>1, <1>2, <1>3, <1>4, PTL DEF MCSpec, PhonesAreServed
=============================================================================
