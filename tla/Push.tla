-------------------------------- MODULE Push --------------------------------
(***************************************************************************)
(* Notices on phones (push/service.go, store/push.go,                      *)
(* api/push_handlers.go). A browser asks for the server's key, subscribes  *)
(* with it at its push service, and registers what it got; a notice is     *)
(* sent in the background to the devices listed as the sending begins. The *)
(* key is made when it is first asked for.                                 *)
(***************************************************************************)
EXTENDS Naturals, FiniteSets

CONSTANTS
    User, Device,
    Notice,      \* messages on their way at one time: notices and tests
    MaxKeys,     \* bound: keys generated
    MaxGen       \* bound: times a device subscribes at its push service

VARIABLES
    saved,       \* the setting push_vapid_private_key: 0, or the key
    memory,      \* Service.key
    locked,      \* Service.mu: the askers inside signingKey
    keys,        \* keys generated so far
    asker,       \* each device's request: its step and the key it was given
    gen,         \* the device's subscription at its push service; 0: none, or taken back
    last,        \* the last one it had
    subs,        \* push_subscriptions
    sending      \* each notice: whether it is being sent, and the devices still to be tried

vars == <<saved, memory, locked, keys, asker, gen, last, subs, sending>>

Sub  == [dev : Device, gen : 1..MaxGen, user : User, key : 1..MaxKeys]
Idle == [at |-> "idle", key |-> 0]
Off  == [on |-> FALSE, left |-> {}]

TypeOK ==
    /\ saved \in 0..MaxKeys /\ memory \in 0..MaxKeys /\ keys \in 0..MaxKeys
    /\ locked \subseteq Device
    /\ asker \in [Device -> [at : {"idle", "key", "make", "subscribe", "register"}, key : 0..MaxKeys]]
    /\ gen \in [Device -> 0..MaxGen] /\ last \in [Device -> 0..MaxGen]
    /\ subs \subseteq Sub
    /\ \A n \in Notice : sending[n].on \in BOOLEAN /\ sending[n].left \subseteq Sub

Init ==
    /\ saved = 0 /\ memory = 0 /\ locked = {} /\ keys = 0
    /\ asker = [d \in Device |-> Idle]
    /\ gen = [d \in Device |-> 0] /\ last = [d \in Device |-> 0]
    /\ subs = {}
    /\ sending = [n \in Notice |-> Off]

-----------------------------------------------------------------------------
(* The key.                                                                *)

Step(d, at, k) == asker' = [asker EXCEPT ![d] = [at |-> at, key |-> k]]

Status(d) ==
    /\ asker[d].at = "idle"
    /\ Step(d, "key", 0)
    /\ UNCHANGED <<saved, memory, locked, keys, gen, last, subs, sending>>

\* Mutant: signingKey without its mutex.
Unlocked == TRUE

Lock == locked = {}

\* signingKey: the key in memory, the saved one, or a new one, under the mutex.
SigningKey(d) ==
    /\ asker[d].at = "key" /\ Lock
    /\ IF memory # 0 THEN Step(d, "subscribe", memory) /\ UNCHANGED <<memory, locked, keys>>
       ELSE IF saved # 0 THEN Step(d, "subscribe", saved) /\ memory' = saved /\ UNCHANGED <<locked, keys>>
       ELSE /\ keys < MaxKeys /\ keys' = keys + 1
            /\ Step(d, "make", keys + 1)
            /\ locked' = locked \cup {d}
            /\ memory' = memory
    /\ UNCHANGED <<saved, gen, last, subs, sending>>

\* SetSetting may fail: the page shows the error, and nothing is kept.
SaveKey(d) ==
    /\ asker[d].at = "make"
    /\ \/ saved' = asker[d].key /\ memory' = asker[d].key /\ Step(d, "subscribe", asker[d].key)
       \/ UNCHANGED <<saved, memory>> /\ Step(d, "idle", 0)
    /\ locked' = locked \ {d}
    /\ UNCHANGED <<keys, gen, last, subs, sending>>

-----------------------------------------------------------------------------
(* Devices.                                                                *)

\* The browser subscribes at its push service with the key it was given.
Subscribe(d) ==
    /\ asker[d].at = "subscribe"
    /\ last[d] < MaxGen
    /\ last' = [last EXCEPT ![d] = @ + 1] /\ gen' = [gen EXCEPT ![d] = last[d] + 1]
    /\ Step(d, "register", asker[d].key)
    /\ UNCHANGED <<saved, memory, locked, keys, subs, sending>>

\* SavePushSub: an endpoint belongs to whoever registered it last.
SavePushSub(d, u) ==
    LET sub == [dev |-> d, gen |-> last[d], user |-> u, key |-> asker[d].key] IN
    subs' = {s \in subs : ~(s.dev = d /\ s.gen = last[d])} \cup {sub}

\* The page may send it twice.
Register(d, u) ==
    /\ asker[d].at = "register"
    /\ SavePushSub(d, u)
    /\ \/ Step(d, "idle", 0) \/ asker' = asker
    /\ UNCHANGED <<saved, memory, locked, keys, gen, last, sending>>

\* DeletePushSub: only one's own.
DeletePushSub(s) == subs' = subs \ {s}

Unsubscribe(s) ==
    /\ s \in subs
    /\ DeletePushSub(s)
    /\ UNCHANGED <<saved, memory, locked, keys, asker, gen, last, sending>>

\* The person turns notifications off in the browser, or the app is removed.
Gone(d) ==
    /\ gen[d] # 0
    /\ gen' = [gen EXCEPT ![d] = 0]
    /\ UNCHANGED <<saved, memory, locked, keys, asker, last, subs, sending>>

-----------------------------------------------------------------------------
(* Sending.                                                                *)

\* ManagerPushSubs asks for the managers that want notices of a level, UserPushSubs for one
\* person's devices: for any of those there are.
Asked == {s \in SUBSET subs : s # {}}
Own(u) == {s \in subs : s.user = u}

\* The list is read when the sending begins, not when the notice was written.
Begin(n, s) ==
    /\ ~sending[n].on /\ s # {}
    /\ sending' = [sending EXCEPT ![n] = [on |-> TRUE, left |-> s]]
    /\ UNCHANGED <<saved, memory, locked, keys, asker, gen, last, subs>>

Background(n) == \E s \in Asked : Begin(n, s)

\* A person tries their own devices.
Test(n, u) == Begin(n, Own(u))

Live(s) == gen[s.dev] = s.gen

\* The push service answers 404 or 410 only for a subscription it does not have.
SaysGone(s) == ~Live(s)

DropPushEndpoint(s) == subs' = {x \in subs : ~(x.dev = s.dev /\ x.gen = s.gen)}

\* SendTo: delivered, failed for now, or gone for good.
Send(n, s) ==
    /\ sending[n].on /\ s \in sending[n].left
    /\ subs' = subs \/ (SaysGone(s) /\ DropPushEndpoint(s))
    /\ sending' = [sending EXCEPT ![n].left = @ \ {s}]
    /\ UNCHANGED <<saved, memory, locked, keys, asker, gen, last>>

\* All were tried, or the minute is over.
Sent(n) ==
    /\ sending[n].on
    /\ sending' = [sending EXCEPT ![n] = Off]
    /\ UNCHANGED <<saved, memory, locked, keys, asker, gen, last, subs>>

\* A restart loses what is in memory; the browser's request fails.
Crash ==
    /\ memory' = 0 /\ locked' = {}
    /\ asker' = [d \in Device |-> IF asker[d].at \in {"key", "make"} THEN Idle ELSE asker[d]]
    /\ sending' = [n \in Notice |-> Off]
    /\ UNCHANGED <<saved, keys, gen, last, subs>>

Next ==
    \/ \E d \in Device :
         \/ Status(d) \/ SigningKey(d) \/ SaveKey(d) \/ Subscribe(d) \/ Gone(d)
         \/ \E u \in User : Register(d, u)
    \/ \E s \in subs : Unsubscribe(s)
    \/ \E n \in Notice :
         \/ Background(n) \/ Sent(n)
         \/ \E u \in User : Test(n, u)
         \/ \E s \in sending[n].left : Send(n, s)
    \/ Crash

Spec == Init /\ [][Next]_vars

-----------------------------------------------------------------------------

\* What a browser subscribed with is the key that is saved, after restarts too: with another
\* key its push service refuses every message.
OneKey == \A s \in subs : s.key = saved

\* Only a device's own push service, or its person, ends its notifications: a device that
\* registered again while an old message was sent is kept.
LiveStays ==
    \A s \in subs : Live(s) /\ s \notin subs' =>
      \/ Unsubscribe(s)
      \/ \E d \in Device, u \in User : Register(d, u)
=============================================================================
