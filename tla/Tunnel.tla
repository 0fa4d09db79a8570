------------------------------- MODULE Tunnel -------------------------------
(***************************************************************************)
(* The built-in Cloudflare Tunnel (internal/tunnel and its handler): a     *)
(* save stops the connector that runs and may start another, whose         *)
(* supervisor starts cloudflared again whenever it ends.                   *)
(*                                                                         *)
(* How long a supervisor waits before it tries again is left out: any wait *)
(* is allowed.                                                             *)
(***************************************************************************)
EXTENDS Naturals, FiniteSets

CONSTANTS
    Saver,          \* requests that save the tunnel's settings
    MaxConnectors   \* bound: supervisors at one time

Connector == 1..MaxConnectors

VARIABLES
    enabled, token,   \* the settings: TRUE, a token is saved
    owner,            \* whose cancel and done the manager holds; 0, none
    state,            \* Manager.state
    sup,              \* each supervisor
    saving,           \* each request: where it is, what it asked for and stops
    notice,           \* the notice that remote access lost its connection is open
    overlapped        \* history: two saves were under way at once since the last start

vars == <<enabled, token, owner, state, sup, saving, notice, overlapped>>

Gone    == [at |-> "gone", cancelled |-> FALSE, call |-> "none"]
Between == [Gone EXCEPT !.at = "between"]
Idle    == [at |-> "idle", on |-> FALSE, stops |-> 0]

TypeOK ==
    /\ enabled \in BOOLEAN /\ token \in BOOLEAN /\ notice \in BOOLEAN /\ overlapped \in BOOLEAN
    /\ owner \in 0..MaxConnectors
    /\ state \in {"off", "starting", "connected", "retrying"}
    /\ sup \in [Connector -> [at : {"gone", "made", "between", "run", "ended"}, cancelled : BOOLEAN,
                              call : {"none", "connected", "retrying"}]]
    /\ saving \in [Saver -> [at : {"idle", "apply", "wait", "off", "register", "start"},
                             on : BOOLEAN, stops : 0..MaxConnectors]]

Live(c) == sup[c].at # "gone"

Init ==
    /\ enabled = FALSE /\ token = FALSE /\ notice = FALSE /\ overlapped = FALSE
    /\ owner = 0 /\ state = "off"
    /\ sup = [c \in Connector |-> Gone]
    /\ saving = [r \in Saver |-> Idle]

\* The process ends, and main applies the saved settings before it serves requests.
Restart ==
    LET on == enabled /\ token IN
    /\ owner' = IF on THEN 1 ELSE 0
    /\ state' = IF on THEN "starting" ELSE "off"
    /\ sup' = [c \in Connector |-> IF c = 1 /\ on THEN Between ELSE Gone]
    /\ saving' = [r \in Saver |-> Idle] /\ overlapped' = FALSE
    /\ UNCHANGED <<enabled, token, notice>>

-----------------------------------------------------------------------------
(* The supervisor, and set, whose callback runs after the lock is given up. *)

Set(c, s) == [sup EXCEPT ![c].call = IF state = s THEN "none" ELSE s]

Ready(c, at) == sup[c].at = at /\ sup[c].call = "none"

\* cloudflared's log: it registered, or its token was rejected.
Line(c, s) ==
    /\ Ready(c, "run")
    /\ state' = s
    /\ sup' = Set(c, s)
    /\ UNCHANGED <<enabled, token, owner, saving, notice, overlapped>>

OnChange(c) ==
    /\ sup[c].call # "none"
    /\ notice' = (sup[c].call = "retrying")
    /\ sup' = [sup EXCEPT ![c].call = "none"]
    /\ UNCHANGED <<enabled, token, owner, state, saving, overlapped>>

\* cloudflared ends, or could not start; a cancelled context kills it.
Exit(c) ==
    /\ Ready(c, "run")
    /\ sup' = [sup EXCEPT ![c].at = "ended"]
    /\ UNCHANGED <<enabled, token, owner, state, saving, notice, overlapped>>

Retry(c) ==
    /\ Ready(c, "ended") /\ ~sup[c].cancelled
    /\ state' = "retrying"
    /\ sup' = [Set(c, "retrying") EXCEPT ![c].at = "between"]
    /\ UNCHANGED <<enabled, token, owner, saving, notice, overlapped>>

Run(c) ==
    /\ Ready(c, "between") /\ ~sup[c].cancelled
    /\ sup' = [sup EXCEPT ![c].at = "run"]
    /\ UNCHANGED <<enabled, token, owner, state, saving, notice, overlapped>>

\* Mutant: done is closed after a run, not when the wait is cut short.
ReturnUnclosed(c) ==
    /\ Ready(c, "ended") /\ sup[c].cancelled
    /\ sup' = [sup EXCEPT ![c] = Gone]
    /\ UNCHANGED <<enabled, token, owner, state, saving, notice, overlapped>>

\* close(done).
Return(c) ==
    /\ sup[c].at \in {"between", "ended"} /\ sup[c].call = "none" /\ sup[c].cancelled
    /\ sup' = [sup EXCEPT ![c] = Gone]
    /\ UNCHANGED <<enabled, token, owner, state, saving, notice, overlapped>>

-----------------------------------------------------------------------------
(* handleTunnelSave and Apply.                                             *)

Move(r, at) == saving' = [saving EXCEPT ![r].at = at]

\* An empty token keeps the saved one.
Save(r, on, tok) ==
    /\ saving[r].at = "idle"
    /\ enabled' = on /\ token' = (token \/ tok)
    /\ saving' = [saving EXCEPT ![r] = [at |-> "apply", on |-> on, stops |-> 0]]
    /\ overlapped' = (overlapped \/ \E q \in Saver : saving[q].at # "idle")
    /\ UNCHANGED <<owner, state, sup, notice>>

Cancel == [c \in Connector |-> IF c = owner THEN [sup[c] EXCEPT !.cancelled = TRUE] ELSE sup[c]]

\* Mutant: Stop does not wait for the end of what it cancelled.
StopUnwaited(r) ==
    /\ saving[r].at = "apply"
    /\ owner' = 0
    /\ sup' = Cancel
    /\ saving' = [saving EXCEPT ![r].at = "wait"]
    /\ UNCHANGED <<enabled, token, state, notice, overlapped>>

Stop(r) ==
    /\ saving[r].at = "apply"
    /\ owner' = 0
    /\ sup' = Cancel
    /\ saving' = [saving EXCEPT ![r].at = "wait", ![r].stops = owner]
    /\ UNCHANGED <<enabled, token, state, notice, overlapped>>

\* <-done, then set(StateOff).
Stopped(r) ==
    /\ saving[r].at = "wait"
    /\ saving[r].stops # 0 => ~Live(saving[r].stops)
    /\ state' = "off"
    /\ Move(r, IF saving[r].on /\ token THEN "register" ELSE "idle")
    /\ UNCHANGED <<enabled, token, owner, sup, notice, overlapped>>

\* cloudflared may not be installed.
NotInstalled(r) ==
    /\ saving[r].at = "register"
    /\ Move(r, "idle")
    /\ UNCHANGED <<enabled, token, owner, state, sup, notice, overlapped>>

\* A done channel is new: nobody waits for it yet.
Fresh(c) == ~Live(c) /\ \A q \in Saver : saving[q].at = "wait" => saving[q].stops # c

Register(r, c) ==
    /\ saving[r].at = "register" /\ Fresh(c)
    /\ owner' = c
    /\ sup' = [sup EXCEPT ![c] = [Gone EXCEPT !.at = "made"]]
    /\ saving' = [saving EXCEPT ![r].at = "start", ![r].stops = c]
    /\ UNCHANGED <<enabled, token, state, notice, overlapped>>

Start(r) ==
    /\ saving[r].at = "start"
    /\ state' = "starting"
    /\ sup' = [sup EXCEPT ![saving[r].stops].at = "between"]
    /\ Move(r, "idle")
    /\ UNCHANGED <<enabled, token, owner, notice, overlapped>>

Supervise(c) == OnChange(c) \/ Exit(c) \/ Retry(c) \/ Run(c) \/ Return(c)

Apply(r) == Stop(r) \/ Stopped(r) \/ NotInstalled(r) \/ (\E c \in Connector : Register(r, c)) \/ Start(r)

Next ==
    \/ Restart
    \/ \E c \in Connector : Supervise(c) \/ \E s \in {"connected", "retrying"} : Line(c, s)
    \/ \E r \in Saver : Apply(r) \/ \E on, tok \in BOOLEAN : Save(r, on, tok)

\* Goroutines run; a cancelled cloudflared is killed: what it still wrote is finite, so it ends.
Fairness ==
    /\ \A c \in Connector :
         /\ WF_vars(OnChange(c)) /\ WF_vars(Retry(c)) /\ WF_vars(Run(c)) /\ WF_vars(Return(c))
         /\ SF_vars(Exit(c) /\ sup[c].cancelled)
    /\ \A r \in Saver : WF_vars(Apply(r))

Spec     == Init /\ [][Next]_vars
LiveSpec == Spec /\ Fairness

-----------------------------------------------------------------------------

\* "Manager supervises one cloudflared process": through saves, retries, late lines and
\* restarts one supervisor lives, unless two saves overlapped.
OneConnector ==
    ~overlapped => Cardinality({c \in Connector : Live(c)}) <= 1

\* While nobody saves, the admin page's "off" means that no connector is left, and every
\* other state that one is, unless two saves overlapped.
StateIsTrue ==
    ~overlapped /\ (\A r \in Saver : saving[r].at = "idle") => (state = "off" <=> \A c \in Connector : ~Live(c))

\* A save of the settings is answered, also one of two at once: the connector it stops does end.
SaveEnds ==
    \A r \in Saver : saving[r].at = "apply" ~> saving[r].at = "idle"
=============================================================================
