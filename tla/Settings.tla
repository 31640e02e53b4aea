------------------------------ MODULE Settings ------------------------------
\* The settings of an instance and the provider that is configured from them: saves of
\* the assistant's settings, saves of rows whose errors are dropped, an import that
\* replaces them, a restart, and a conversation that uses what is live (ai/settings.go,
\* ai/registry.go, handlers/settings.go, ai_settings.go, backup.go).
\*
\* A save loads, merges, stores and applies, one statement after the other and without
\* a lock. Of a provider's configuration there are a secret and a plain field.
EXTENDS Naturals, FiniteSets

CONSTANTS Procs,        \* requests, each served once
          Values,       \* of a field
          MaxFaults     \* statements that fail, in all

VARIABLES store,    \* the rows: "config" of the provider, "active", and a plain one
          live,     \* what the process uses: the provider's fields, and whether it is active
          proc,
          faults,
          mixed     \* two requests were under way at once, or one could not be read back

vars == <<store, live, proc, faults, mixed>>

Mask  == "***"
Unset == "unset"    \* the empty string
Keep  == "keep"     \* a field the request does not have

NoConfig == [secret |-> Unset, plain |-> Unset]
Stored   == [config : [secret : Values \cup {Unset}, plain : Values \cup {Unset}], active : {"on", "off"}, row : Values \cup {Unset}]
Nothing  == [config |-> NoConfig, active |-> "off", row |-> Unset]

Idle == [pc |-> "idle", ask |-> [secret |-> Keep, plain |-> Keep, active |-> Keep, row |-> Keep], to |-> NoConfig,
         had |-> NoConfig, says |-> "nothing", true |-> TRUE]

Init == /\ store = Nothing /\ live = [config |-> NoConfig, active |-> "off"]
        /\ proc = [p \in Procs |-> Idle] /\ faults = 0 /\ mixed = FALSE

Running(p) == proc[p].pc \notin {"idle", "talk", "done"}
Others(p)  == \E q \in Procs \ {p} : Running(q)
Goto(p, pc) == proc' = [proc EXCEPT ![p].pc = pc]
CanFail == faults < MaxFaults
Fault   == CanFail /\ faults' = faults + 1
Calm    == UNCHANGED faults

Begin(p, pc, ask) == /\ proc[p].pc = "idle"
                     /\ proc' = [proc EXCEPT ![p] = [Idle EXCEPT !.pc = pc, !.ask = ask, !.had = store.config]]
                     /\ mixed' = (mixed \/ Others(p))
                     /\ UNCHANGED <<store, live, faults>>

\* What a request leaves alone, a secret sent back as its mask too, is as it was when it
\* began (had); what it asks for is there.
Spares(r, config) ==
    /\ r.ask.secret \in {Keep, Mask} => config.secret = r.had.secret
    /\ r.ask.plain = Keep => config.plain = r.had.plain
Holds(ask, s) ==
    /\ ask.secret \in {Keep, Mask, s.config.secret} /\ ask.plain \in {Keep, s.config.plain}
    /\ ask.active \in {Keep, s.active} /\ ask.row \in {Keep, Unset, s.row}

\* The answer. Noted (true) is whether what it says is saved is in the store, unless it
\* was mixed with another request, or it is a row and the error of a statement was
\* dropped; and whether it spared the rest, whatever it says.
Excused(ask) == mixed \/ (ask.row # Keep /\ faults > 0)
Answer(p, says) ==
    proc' = [proc EXCEPT ![p] = [Idle EXCEPT !.pc = "done", !.says = says,
                 !.true = /\ says = "ok" => (Holds(proc[p].ask, store) \/ Excused(proc[p].ask))
                          /\ mixed \/ Spares(proc[p], store.config)]]

-----------------------------------------------------------------------------
\* UpdateAISettings: the provider's configuration, then which provider is active.

UpdateAISettings(p) ==
    \E secret \in Values \cup {Keep, Mask, Unset}, plain \in Values \cup {Keep}, active \in {Keep, "on", "off"} :
        Begin(p, IF secret = Keep /\ plain = Keep THEN "active" ELSE "load",
              [secret |-> secret, plain |-> plain, active |-> active, row |-> Keep])

\* A merge that takes the mask for a secret.
BadMerged(ask, was) ==
    [secret |-> IF ask.secret = Keep THEN was.secret ELSE ask.secret,
     plain  |-> IF ask.plain = Keep THEN was.plain ELSE ask.plain]

\* A merge that starts from nothing instead of what is stored.
BadEmptied(ask, was) ==
    [secret |-> IF ask.secret \in {Keep, Mask} THEN Unset ELSE ask.secret,
     plain  |-> IF ask.plain = Keep THEN Unset ELSE ask.plain]

\* A secret that comes back as it was shown is not one.
Merged(ask, was) ==
    [secret |-> IF ask.secret \in {Keep, Mask} THEN was.secret ELSE ask.secret,
     plain  |-> IF ask.plain = Keep THEN was.plain ELSE ask.plain]

LoadConfig(p) ==
    /\ proc[p].pc = "load"
    /\ proc' = [proc EXCEPT ![p] = [@ EXCEPT !.pc = "save", !.to = Merged(proc[p].ask, store.config)]]
    /\ UNCHANGED <<store, live, faults, mixed>>

SaveConfig(p) ==
    /\ proc[p].pc = "save"
    /\ store' = [store EXCEPT !.config = proc[p].to] /\ Goto(p, "secret")
    /\ UNCHANGED <<live, faults, mixed>>

\* Configure sets one field after the other, under a lock that only keeps out changes
\* to the list of providers.
ConfigureSecret(p) ==
    /\ proc[p].pc = "secret"
    /\ live' = [live EXCEPT !.config.secret = proc[p].to.secret] /\ Goto(p, "plain")
    /\ UNCHANGED <<store, faults, mixed>>

ConfigurePlain(p) ==
    /\ proc[p].pc = "plain"
    /\ live' = [live EXCEPT !.config.plain = proc[p].to.plain] /\ Goto(p, "active")
    /\ UNCHANGED <<store, faults, mixed>>

SaveActive(p) ==
    /\ proc[p].pc = "active"
    /\ IF proc[p].ask.active = Keep THEN Answer(p, "ok") /\ UNCHANGED store
       ELSE store' = [store EXCEPT !.active = proc[p].ask.active] /\ Goto(p, "activate")
    /\ UNCHANGED <<live, faults, mixed>>

SetActive(p) ==
    /\ proc[p].pc = "activate"
    /\ live' = [live EXCEPT !.active = proc[p].ask.active] /\ Answer(p, "ok")
    /\ UNCHANGED <<store, faults, mixed>>

\* A statement that fails ends the request; what was saved before it stays.
FailSave(p) ==
    /\ proc[p].pc \in {"load", "save", "active"} /\ Fault /\ Answer(p, "failed")
    /\ UNCHANGED <<store, live, mixed>>

-----------------------------------------------------------------------------
\* Rows whose errors are dropped (UpdateEnrichmentSettings, UpdateStockSettings,
\* UpdateDatasheetSettings): an empty secret is not stored, a value that is refused ends
\* the request after the rows before it.

UpdateRow(p) ==
    \E row \in Values \cup {Unset} : Begin(p, "row", [Idle.ask EXCEPT !.row = row])

SaveRow(p) ==
    /\ proc[p].pc = "row"
    /\ \/ store' = [store EXCEPT !.row = IF proc[p].ask.row = Unset THEN @ ELSE proc[p].ask.row] /\ Calm
       \/ Fault /\ UNCHANGED store
    /\ Goto(p, "answer")
    /\ UNCHANGED <<live, mixed>>

\* The page is read back from the store whatever was stored, or a row is refused.
AnswerRow(p) ==
    /\ proc[p].pc = "answer" /\ \E says \in {"ok", "failed"} : Answer(p, says)
    /\ UNCHANGED <<store, live, faults, mixed>>

-----------------------------------------------------------------------------
\* An import in the mode that replaces, and a restart: the rows, then Load. A row that
\* cannot be read ends it, and leaves what comes after it as it was.

ImportData(p) == Begin(p, "import", Idle.ask)

Replace(p) ==
    /\ proc[p].pc = "import"
    /\ \E s \in Stored :
           /\ s.row = Unset /\ s.config.secret = s.config.plain /\ store' = s
           /\ proc' = [proc EXCEPT ![p] = [@ EXCEPT !.pc = "reload", !.had = s.config]]
    /\ UNCHANGED <<live, faults, mixed>>

Loaded == [config |-> store.config, active |-> store.active]

Load(p) == live' = Loaded

Reload(p) ==
    /\ proc[p].pc = "reload"
    /\ \/ Load(p) /\ Calm /\ UNCHANGED mixed
       \/ Fault /\ (UNCHANGED live \/ live' = [live EXCEPT !.config = store.config]) /\ mixed' = TRUE
    /\ Answer(p, "ok") /\ UNCHANGED store

Restart ==
    /\ Loaded # live \/ mixed \/ \E p \in Procs : Running(p)
    /\ live' = Loaded /\ mixed' = FALSE
    /\ proc' = [p \in Procs |-> IF Running(p) THEN [Idle EXCEPT !.pc = "done"] ELSE proc[p]]
    /\ UNCHANGED <<store, faults>>

-----------------------------------------------------------------------------
\* A turn of a conversation: the secret and the plain field are read on their own.

Converse(p) ==
    /\ proc[p].pc = "idle" /\ live.active = "on" /\ live.config.secret # Unset
    /\ proc' = [proc EXCEPT ![p] = [Idle EXCEPT !.pc = "talk", !.to.secret = live.config.secret]]
    /\ UNCHANGED <<store, live, faults, mixed>>

Talk(p) ==
    /\ proc[p].pc = "talk"
    /\ proc' = [proc EXCEPT ![p] = [Idle EXCEPT !.pc = "done", !.says = "talked"]]
    /\ UNCHANGED <<store, live, faults, mixed>>

Next == \/ \E p \in Procs :
               \/ UpdateAISettings(p) \/ LoadConfig(p) \/ SaveConfig(p) \/ ConfigureSecret(p) \/ ConfigurePlain(p)
               \/ SaveActive(p) \/ SetActive(p) \/ FailSave(p)
               \/ UpdateRow(p) \/ SaveRow(p) \/ AnswerRow(p)
               \/ ImportData(p) \/ Replace(p) \/ Reload(p)
               \/ Converse(p) \/ Talk(p)
        \/ Restart

Spec == Init /\ [][Next]_vars

-----------------------------------------------------------------------------
Saving == \E p \in Procs : proc[p].pc \in {"secret", "plain", "activate", "reload"}

\* The process uses what is stored once no save or import is between the two ("the
\* settings page shows the URL from the backup while every request goes to the old one",
\* ImportData), unless two were under way at once or the rows could not be read. A saved
\* secret is never the mask it is shown as (Configure). A request that says it saved has
\* saved, except a row whose error was dropped; and whatever it says, a field it does not
\* have, and a secret it has as the mask, are as they were when it began, unless two were
\* under way at once ("Configure merges new config over what is stored").
SettingsLive ==
    /\ ~mixed /\ ~Saving => live = Loaded
    /\ store.config.secret # Mask /\ live.config.secret # Mask
    /\ \A p \in Procs : proc[p].true

\* The same when two saves overlap. It does not hold: the one that stores last need not
\* apply last, and what the other stored between is lost.
LiveIsStored == ~Saving => live = Loaded

\* A turn uses one configuration. It does not hold: fields change one by one while turns
\* read them, though the registry is "safe for concurrent use: chat requests read it
\* while an admin saving settings writes to it" (ai/registry.go).
TurnsUseOneConfig ==
    [][\A p \in Procs : proc[p].pc = "talk" /\ proc'[p].pc = "done" /\ proc'[p].says = "talked" =>
          live.config.secret = proc[p].to.secret]_vars
=============================================================================
