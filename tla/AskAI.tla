------------------------------- MODULE AskAI -------------------------------
(***************************************************************************)
(* Asking an AI (store/ai.go, settings.go, api/settings_handlers.go,       *)
(* ollama_handlers.go, analyzer/ai.go, llm/chain.go, client.go): the AIs   *)
(* that are set up are read, setting by setting, while an admin may be     *)
(* saving them one by one; then the models of the main AI are asked in     *)
(* order, and those of the backup.                                         *)
(***************************************************************************)
EXTENDS Naturals, Sequences, FiniteSets

CONSTANTS
    Asker,          \* the worker, a parent's "rate now", a page with suggestions
    Start,          \* the settings there are
    Saves,          \* bound: what may be saved, each some settings and their values
    MaxSaves        \* bound: saves

Key == DOMAIN Start
Order == <<"base", "model", "fallback", "on", "backupBase", "backupModels">>

VARIABLES
    setting,    \* settings
    save,       \* the save under way: what is left of it, and what it ends at
    ask,        \* each asker
    notice,     \* "llm-backup" is open
    whole,      \* history: what the last save that was not cut off, and all before it, said
    cut,        \* history: a save was cut off
    saves       \* history: how many there were

vars == <<setting, save, ask, notice, whole, cut, saves>>

NoSave == [left |-> {}, to |-> Start]
Unread == [k \in Key |-> Start[k]]
Idle   == [at |-> "idle", rates |-> FALSE, step |-> 0, ai |-> 0, model |-> 0, tries |-> 0, config |-> Unread, said |-> Start,
           raced |-> FALSE, stop |-> FALSE, tried |-> {}, down |-> {}]

TypeOK ==
    /\ DOMAIN setting = Key /\ save.left \subseteq Key /\ DOMAIN save.to = Key
    /\ \A a \in Asker :
         /\ ask[a].at \in {"idle", "read", "ask", "answered", "failed", "stopped"}
         /\ ask[a].step \in 0..Len(Order) /\ ask[a].ai \in 0..3 /\ ask[a].tries \in 0..3
         /\ ask[a].rates \in BOOLEAN /\ ask[a].raced \in BOOLEAN /\ ask[a].stop \in BOOLEAN /\ ask[a].down \subseteq ask[a].tried
    /\ notice \in BOOLEAN /\ cut \in BOOLEAN /\ saves \in 0..MaxSaves

Init ==
    /\ setting = Start /\ save = NoSave
    /\ ask = [a \in Asker |-> Idle] /\ notice = FALSE
    /\ whole = Start /\ cut = FALSE /\ saves = 0

Saving == save.left # {}

-----------------------------------------------------------------------------
(* The settings.                                                           *)

\* Everything is checked, then saved one setting after the other, in no order.
PutSettings(new) ==
    /\ ~Saving /\ saves < MaxSaves
    /\ save' = [left |-> DOMAIN new, to |-> [k \in Key |-> IF k \in DOMAIN new THEN new[k] ELSE setting[k]]]
    /\ saves' = saves + 1
    /\ ask' = [a \in Asker |-> IF ask[a].at = "read" THEN [ask[a] EXCEPT !.raced = TRUE] ELSE ask[a]]
    /\ UNCHANGED <<setting, notice, whole, cut>>

Written(k) == save.to[k]

SetSetting(k) ==
    /\ k \in save.left
    /\ setting' = [setting EXCEPT ![k] = Written(k)]
    /\ save' = IF save.left = {k} THEN NoSave ELSE [save EXCEPT !.left = @ \ {k}]
    /\ whole' = IF save.left = {k} /\ ~cut THEN save.to ELSE whole
    /\ UNCHANGED <<ask, notice, cut, saves>>

\* One setting cannot be saved, or the process ends: the others stay as they were.
CutOff ==
    /\ Saving
    /\ save' = NoSave /\ cut' = TRUE
    /\ UNCHANGED <<setting, ask, notice, whole, saves>>

-----------------------------------------------------------------------------
(* An asker reads the settings, one query each.                            *)

AIConfigs(a, rates) ==
    /\ ask[a].at = "idle"
    /\ ask' = [ask EXCEPT ![a] = [Idle EXCEPT !.at = "read", !.rates = rates, !.raced = Saving, !.said = whole]]
    /\ UNCHANGED <<setting, save, notice, whole, cut, saves>>

\* The backup's settings are not read if it is off.
Setting(a) ==
    LET i == ask[a].step + 1
        k == Order[i]
        last == i = Len(Order) \/ (k = "on" /\ ~setting.on) IN
    /\ ask[a].at = "read"
    /\ ask' = [ask EXCEPT ![a].config[k] = setting[k], ![a].step = IF last THEN 0 ELSE i,
                          ![a].at = IF last THEN "ask" ELSE "read",
                          ![a].ai = IF last THEN 1 ELSE 0, ![a].model = IF last THEN 1 ELSE 0]
    /\ UNCHANGED <<setting, save, notice, whole, cut, saves>>

\* LLMModels: the main model, then the fallbacks, none twice.
MainModels(c) ==
    LET all == c.model \o c.fallback
        new == {i \in 1..Len(all) : \A j \in 1..(i - 1) : all[j] # all[i]}
        nth(n) == CHOOSE i \in new : Cardinality({j \in new : j <= i}) = n
    IN [n \in 1..Cardinality(new) |-> all[nth(n)]]

\* The backup counts if it is on and has an address and a model.
Models(c, ai) ==
    CASE ai = 1 -> MainModels(c)
      [] ai = 2 /\ c.on /\ c.backupBase # "" -> c.backupModels
      [] OTHER -> <<>>

-----------------------------------------------------------------------------
(* The models are asked in order.                                          *)

\* Mutant: a server that is down ends the whole question.
GiveUp(s, down) ==
    IF down THEN [s EXCEPT !.ai = 3, !.model = 1, !.tries = 0] ELSE [s EXCEPT !.model = @ + 1, !.tries = 0]

\* The next model; after a server that is down, the next AI if it is a rating's question.
MoveOn(s, down) ==
    IF down THEN [s EXCEPT !.ai = @ + 1, !.model = 1, !.tries = 0] ELSE [s EXCEPT !.model = @ + 1, !.tries = 0]

\* No model is left of this AI: the backup's are next, and after them there is no answer.
NextAI(a) ==
    LET s == ask[a] IN
    /\ s.at = "ask" /\ s.model > Len(Models(s.config, s.ai))
    /\ ask' = [ask EXCEPT ![a] = IF s.ai < 2 THEN [s EXCEPT !.ai = s.ai + 1, !.model = 1]
                                             ELSE [s EXCEPT !.at = "failed", !.ai = 0, !.model = 0]]
    /\ UNCHANGED <<setting, save, notice, whole, cut, saves>>

\* send: a server that is busy is asked four times; a stop ends the question.
Complete(a, result) ==
    LET s == ask[a]
        this == <<s.ai, s.model>>
        tried == [s EXCEPT !.tried = @ \cup {this}, !.down = IF result = "down" THEN @ \cup {this} ELSE @] IN
    /\ s.at = "ask" /\ s.model <= Len(Models(s.config, s.ai))
    /\ s.stop => result \in {"ok", "bad"}
    /\ ask' = [ask EXCEPT ![a] =
                 CASE result = "ok" -> [tried EXCEPT !.at = "answered", !.ai = 0, !.model = 0, !.tries = 0]
                   [] result # "ok" /\ s.stop -> [tried EXCEPT !.at = "stopped", !.ai = 0, !.model = 0, !.tries = 0]
                   [] result = "busy" /\ s.tries < 3 /\ ~s.stop -> [s EXCEPT !.tries = s.tries + 1]
                   [] OTHER -> MoveOn(tried, result = "down" /\ s.rates)]
    /\ notice' = IF result = "ok" /\ s.rates THEN s.ai = 2 ELSE notice
    /\ UNCHANGED <<setting, save, whole, cut, saves>>

\* The asker takes the answer, or the error, and is done.
Done(a) ==
    /\ ask[a].at \in {"answered", "failed", "stopped"}
    /\ ask' = [ask EXCEPT ![a] = Idle]
    /\ UNCHANGED <<setting, save, notice, whole, cut, saves>>

\* The request is gone, or the worker is told to stop.
Stop(a) ==
    /\ ask[a].at = "ask" /\ ~ask[a].stop
    /\ ask' = [ask EXCEPT ![a].stop = TRUE]
    /\ UNCHANGED <<setting, save, notice, whole, cut, saves>>

Next ==
    \/ \E new \in Saves : PutSettings(new)
    \/ \E k \in Key : SetSetting(k)
    \/ CutOff
    \/ \E a \in Asker :
         \/ \E rates \in BOOLEAN : AIConfigs(a, rates)
         \/ Setting(a) \/ NextAI(a) \/ Done(a) \/ Stop(a)
         \/ \E r \in {"ok", "bad", "busy", "down"} : Complete(a, r)

Spec == Init /\ [][Next]_vars

-----------------------------------------------------------------------------

\* A question fails only when every model that is set up was asked, or stands
\* behind one whose server was down, the backup's included.
FailedMeansAllTried ==
    \A a \in Asker : ask[a].at = "failed" =>
        \A ai \in 1..2 : \A m \in 1..Len(Models(ask[a].config, ai)) :
            <<ai, m>> \in ask[a].tried \/ (ask[a].rates /\ \E n \in 1..m : <<ai, n>> \in ask[a].down)

\* Who read the settings while nobody saved, and when no save before was cut
\* off, asks what the saves said together.
AsksWhatWasSaved ==
    \A a \in Asker : ask[a].at = "ask" /\ ~ask[a].raced /\ ~cut =>
        /\ ask[a].config.base = ask[a].said.base
        /\ \A ai \in 1..2 : Models(ask[a].config, ai) = Models(ask[a].said, ai)
=============================================================================
