---------------------------- MODULE CopilotAdapter ----------------------------
(***************************************************************************)
(* install, upgrade, enable, disable and uninstall of the new runtime over *)
(* whatever an old one left: the plugin and its marketplace as the host    *)
(* registers them, the adapter state file, the host setting the adapter    *)
(* borrows, the runtime locator and, through CanonicalRestore, the         *)
(* database, whose schema an upgrade migrates and may have to give back.   *)
(*                                                                         *)
(* One command runs at a time (the adapter-state lease) and is a sequence  *)
(* of host commands and file writes: each may fail, and the command may    *)
(* die between any two of them.  Processes that hold a database lease are  *)
(* drained before the first step here (KnowledgeProjection); a process of  *)
(* an older runtime knows nothing of maintenance and may keep the store    *)
(* open.  Marketplace sources are the version-pinned ones.                 *)
(***************************************************************************)
EXTENDS CanonicalRestore, ExtensionSessions

CONSTANTS
    Kinds,     \* the commands a user gives
    ByHand,    \* whether somebody calls recoverInterruptedRestore
    MaxFaults  \* bound on failed steps and deaths

VARIABLES
    market,   \* version of the registered marketplace source, or None
    plugin,   \* version of the installed plugin, or None
    manifest, \* version in the plugin.json of its directory, or None
    enabled,  \* the host loads the plugin
    state,    \* copilot-adapter-state: [installed, caps, notice, tracked]
    setting,  \* settings.json: experimental
    locator,  \* version in the runtime locator, or None
    index,    \* knowledge index: "current", "marked" dirty, or "stale"
    cmd,      \* the command under way, or None
    legacy,   \* generation at which an older process opened the store, or None
    wish,     \* what the user had set in settings.json
    unowned,  \* a command died after the setting and before it was recorded
    faults

host == <<market, plugin, manifest, enabled>>
kept == <<state, setting, locator, index>>
ghosts == <<wish, unowned>>
vars == <<storage, sessions, host, kept, cmd, legacy, ghosts, faults>>

Capabilities == {"capture", "worker"}
Registration == [market |-> market, plugin |-> plugin, enabled |-> enabled]
Nothing == [installed |-> FALSE, caps |-> {}, notice |-> "none", tracked |-> None]

Versions == {"old", "new", None}
Registrations == [market : Versions, plugin : Versions, enabled : BOOLEAN]
Tracking == [managed : BOOLEAN, previous : BOOLEAN]
States ==
    [installed : BOOLEAN, caps : SUBSET Capabilities,
     notice : {"none", "review", "incomplete"}, tracked : Tracking \cup {None}]
\* The steps of a command; "cancel" and "end" are the last ones.
Places ==
    {"drain", "shutdown", "wait", "retire", "inspect", "open", "mark", "digest",
     "refreshMarket", "replace", "unsell", "register", "plug", "verify", "enable",
     "check", "save", "locate", "refreshFiles", "refreshConfig", "refreshSettings",
     "catch", "unrefresh", "compare", "lock", "guard", "announce", "copy", "unlock",
     "unplug", "unsellNew", "sellOld", "plugOld", "disableOld", "restate", "unrestored",
     "probe", "flag", "saveFlag", "failed", "unflag", "disable", "saveDisabled",
     "remove", "removeMarket", "unset", "forget", "unlocate", "cancel", "end"}
Commands ==
    [kind : {"install", "upgrade", "enable", "disable", "uninstall"}, pc : Places,
     reg : Registrations, before : States,
     snapshot : Contents \cup {None}, migrated : Contents \cup {None},
     replaced : BOOLEAN, refreshed : BOOLEAN, follow : BOOLEAN,
     outcome : {"none", "changed", "review", "restored", "broken"}]

ASSUME NoneIsNoCommand == None \notin Commands \cup Tracking \cup {"old", "new"}

\* The locals of a command: the registration and state it found, the snapshot
\* it took, the content right after the migration, and how far it went.
Command(kind, pc) ==
    [kind |-> kind, pc |-> pc, reg |-> Registration, before |-> state,
     snapshot |-> None, migrated |-> None, replaced |-> FALSE,
     refreshed |-> FALSE, follow |-> FALSE, outcome |-> "none"]

At(pc) == cmd # None /\ cmd.pc = pc
Go(pc) == cmd' = [cmd EXCEPT !.pc = pc]
Fault == faults < MaxFaults /\ faults' = faults + 1

\* A step of the command that succeeds, or that throws and goes to `handler`.
Step(here, does, next) == At(here) /\ does /\ Go(next) /\ UNCHANGED faults
Throw(here, handler) == At(here) /\ Fault /\ Go(handler)

\* Where an error of the current step is caught.
Handler ==
    CASE cmd.kind = "upgrade" -> "catch"
      [] cmd.kind \in {"install", "enable"} -> "failed"
      [] OTHER -> "end"
-------------------------------------------------------------------------------
(* Choosing the command *)

NeedsMigration == db # None /\ db.schema = "old"

Mismatched ==
    /\ state.installed /\ market # None /\ plugin # None
    /\ \/ market # "new"
       \/ plugin # "new"
       \/ state.notice = "incomplete"

\* #install turns into an upgrade when there is something to migrate or to
\* replace, and #upgrade into an install when there is nothing at all.
Begin(kind) ==
    /\ cmd = None
    /\ cmd' =
        CASE kind = "upgrade" /\ db = None /\ ~ state.installed -> Command("install", "open")
          [] kind = "upgrade" -> Command("upgrade", "drain")
          [] kind = "install" /\ NeedsMigration ->
                [Command("upgrade", "drain") EXCEPT !.follow = ~ state.installed]
          [] kind = "install" /\ Mismatched -> Command("upgrade", "drain")
          [] kind = "install" -> Command("install", "open")
          [] kind = "enable" -> Command("enable", "flag")
          [] kind = "disable" -> Command("disable", "unflag")
          [] OTHER -> Command("uninstall", "remove")
    /\ kind = "enable" => state.installed
    /\ UNCHANGED <<storage, sessions, host, kept, legacy, ghosts, faults>>

End ==
    /\ At("end")
    /\ cmd' = None
    /\ UNCHANGED <<storage, sessions, host, kept, legacy, ghosts, faults>>

\* The lease of the registry dies with the process; a journal, a request and
\* whatever else was written stay.
Crash ==
    /\ cmd # None
    /\ Fault
    /\ cmd' = None
    /\ AbandonShutdown
    /\ unowned' = (unowned \/ (/\ At("saveFlag") /\ state.tracked = None
                              /\ cmd.before.tracked.managed))
    /\ UNCHANGED <<storage, host, kept, legacy, wish>>
-------------------------------------------------------------------------------
(* Upgrade: quiet the installation *)

Drain ==
    /\ \/ Step("drain", TRUE, "shutdown")
       \/ Throw("drain", "end")
    /\ UNCHANGED <<storage, sessions, host, kept, legacy, ghosts>>

Shutdown ==
    /\ Step("shutdown", BeginShutdown, "wait")
    /\ UNCHANGED <<storage, host, kept, legacy, ghosts>>

\* Mutant: at the deadline the upgrade goes on.
WaitForSessionsNoLonger ==
    /\ At("wait") /\ PruneMarkers
    /\ \/ Go("retire") /\ UNCHANGED faults
       \/ Fault /\ Go("cancel")
    /\ UNCHANGED <<storage, host, kept, legacy, ghosts>>

WaitForSessions ==
    /\ At("wait") /\ PruneMarkers
    /\ \/ Active = {} /\ Go("retire") /\ UNCHANGED faults
       \/ Active # {} /\ Fault /\ Go("cancel")
    /\ UNCHANGED <<storage, host, kept, legacy, ghosts>>

\* stopOwnedPluginProcesses ends the helpers it can prove to be its own.
RetireHelpers ==
    /\ \/ Step("retire", TRUE, "inspect")
       \/ Throw("retire", "cancel")
    /\ legacy' \in {legacy, None}
    /\ UNCHANGED <<storage, sessions, host, kept, ghosts>>

CancelMaintenance ==
    /\ At("cancel")
    /\ CancelShutdown
    /\ cmd' = IF cmd.follow /\ cmd.outcome = "changed"
              THEN [Command("enable", "flag") EXCEPT !.follow = TRUE]
              ELSE [cmd EXCEPT !.pc = "end"]
    /\ UNCHANGED <<storage, host, kept, legacy, ghosts, faults>>
-------------------------------------------------------------------------------
(* Upgrade: snapshot and migrate *)

\* The host is probed; an old schema is backed up with its manifest.
Inspect ==
    /\ \/ /\ At("inspect")
          /\ cmd' = [cmd EXCEPT !.pc = "open", !.reg = Registration, !.before = state,
                                !.snapshot = IF NeedsMigration THEN db ELSE None]
          /\ UNCHANGED faults
       \/ Throw("inspect", "cancel")
    /\ UNCHANGED <<storage, sessions, host, kept, legacy, ghosts>>

\* #initializeCoreStorage: only an upgrade may migrate, and only when no
\* journal stands.  An install also writes the locator here.
OpenStore ==
    /\ At("open")
    /\ IF ~ MayOpen
       THEN /\ Go(IF cmd.kind = "upgrade" THEN "cancel" ELSE "end")
            /\ UNCHANGED <<db, locator, index>>
       ELSE /\ db' = Opened
            /\ index' = IF db # None /\ db # Opened THEN "stale" ELSE index
            /\ locator' = IF cmd.kind = "upgrade" THEN locator ELSE "new"
            /\ Go(IF cmd.kind = "upgrade" THEN "mark" ELSE "probe")
    /\ UNCHANGED <<lock, generation, sessions, host, state, setting, legacy, ghosts, faults>>

\* #markProjectionDirty and the fingerprint come before the try: an error
\* there is not rolled back.
Mark ==
    /\ \/ /\ Step("mark", TRUE, "digest")
          /\ index' = IF cmd.snapshot = None THEN index ELSE "marked"
       \/ Throw("mark", "cancel") /\ UNCHANGED index
    /\ UNCHANGED <<storage, sessions, host, state, setting, locator, legacy, ghosts>>

Digest ==
    /\ At("digest")
    /\ cmd' = [cmd EXCEPT !.pc = "refreshMarket", !.migrated = db]
    /\ UNCHANGED <<storage, sessions, host, kept, legacy, ghosts, faults>>
-------------------------------------------------------------------------------
(* Host commands *)

Unplug == plugin' = None /\ manifest' = None /\ enabled' = FALSE /\ UNCHANGED market
Unsell == market' = None /\ UNCHANGED <<plugin, manifest, enabled>>
Sell(v) == market' = v /\ UNCHANGED <<plugin, manifest, enabled>>
Plug == plugin' = market /\ manifest' = market /\ enabled' = TRUE /\ UNCHANGED market
Enable(b) == enabled' = b /\ UNCHANGED <<market, plugin, manifest>>

\* A host command, when it is needed; it may fail and change nothing.
HostStep(here, needed, does, next, handler) ==
    /\ \/ Step(here, IF needed THEN does ELSE UNCHANGED host, next)
       \/ Throw(here, handler) /\ needed /\ UNCHANGED host
    /\ UNCHANGED <<storage, sessions, kept, legacy, ghosts>>

\* marketplace update, when the source is already the new one.
RefreshMarket == HostStep("refreshMarket", market = "new", UNCHANGED host, "replace", "catch")

\* The plugin is uninstalled; a directory somebody holds open (os error 5 or
\* 32) is refreshed in place instead, and then nothing counts as replaced.
ReplacePlugin ==
    /\ At("replace")
    /\ \/ /\ IF plugin = None THEN UNCHANGED host ELSE Unplug
          /\ cmd' = [cmd EXCEPT !.pc = "unsell", !.replaced = TRUE]
          /\ UNCHANGED faults
       \/ /\ plugin # None /\ Fault /\ UNCHANGED host
          /\ \/ cmd' = [cmd EXCEPT !.pc = "catch", !.replaced = TRUE]
             \/ Go("refreshFiles")
    /\ UNCHANGED <<storage, sessions, kept, legacy, ghosts>>

UnsellOld == HostStep("unsell", market # None, Unsell, "register", "catch")

\* #ensureMarketplaceRegistered: one host command after the other until the
\* source is the new one.
RegisterMarket ==
    /\ At("register")
    /\ \/ /\ market = "new" /\ UNCHANGED <<host, faults>> /\ Go("plug")
       \/ /\ market # "new" /\ UNCHANGED <<cmd, faults>>
          /\ IF plugin # None THEN Unplug ELSE IF market # None THEN Unsell ELSE Sell("new")
       \/ /\ market # "new" /\ UNCHANGED host
          /\ Throw("register", Handler)
    /\ UNCHANGED <<storage, sessions, kept, legacy, ghosts>>

InstallPlugin == HostStep("plug", plugin = None, Plug, "verify", Handler)

VerifyVersion ==
    /\ At("verify")
    /\ Go(IF plugin = "new" THEN "enable" ELSE Handler)
    /\ UNCHANGED <<storage, sessions, host, kept, legacy, ghosts, faults>>

EnablePlugin ==
    HostStep("enable", ~ enabled, Enable(TRUE),
             IF cmd.kind = "upgrade" THEN "check" ELSE "save", Handler)

\* The registration is read back and the database opened for quick_check.
CheckUpgrade ==
    /\ \/ Step("check", market = "new" /\ enabled /\ MayOpen, "save")
       \/ Throw("check", "catch")
    /\ UNCHANGED <<storage, sessions, host, kept, legacy, ghosts>>
-------------------------------------------------------------------------------
(* refreshPluginFiles: the manifest, then config.json, then settings.json *)

\* config.json and plugin.json must agree, and settings.json with both.  The
\* backups are made before the first write.
MayRefresh == manifest = plugin /\ market = plugin

\* An error rolls back what was written, in reverse.
Unwritten ==
    /\ market' = cmd.reg.market
    /\ plugin' = cmd.reg.plugin
    /\ manifest' = cmd.reg.plugin
    /\ UNCHANGED enabled

RefreshFails(here) == Throw(here, "catch") /\ Unwritten

RefreshFiles ==
    /\ \/ At("refreshFiles") /\ ~ MayRefresh /\ Go("catch") /\ UNCHANGED <<host, faults>>
       \/ /\ MayRefresh
          /\ Step("refreshFiles", manifest' = "new" /\ UNCHANGED <<market, plugin, enabled>>,
                  "refreshConfig")
    /\ UNCHANGED <<storage, sessions, kept, legacy, ghosts>>

RefreshConfig ==
    /\ \/ Step("refreshConfig", plugin' = "new" /\ UNCHANGED <<market, manifest, enabled>>,
               "refreshSettings")
       \/ RefreshFails("refreshConfig")
    /\ UNCHANGED <<storage, sessions, kept, legacy, ghosts>>

RefreshSettings ==
    /\ \/ /\ At("refreshSettings") /\ Sell("new") /\ UNCHANGED faults
          /\ cmd' = [cmd EXCEPT !.pc = "verify", !.refreshed = TRUE]
       \/ RefreshFails("refreshSettings")
    /\ UNCHANGED <<storage, sessions, kept, legacy, ghosts>>
-------------------------------------------------------------------------------
(* What a successful command writes *)

Saved ==
    CASE cmd.kind = "upgrade" ->
            [state EXCEPT !.installed = TRUE,
                          !.notice = IF @ = "incomplete" THEN "none" ELSE @]
      [] cmd.kind = "install" ->
            [state EXCEPT !.caps = IF state.installed THEN @ ELSE Capabilities,
                          !.notice = IF state.installed THEN @ ELSE "none",
                          !.installed = TRUE]
      [] cmd.follow -> [state EXCEPT !.caps = Capabilities, !.notice = "none"]
      [] OTHER -> [state EXCEPT !.caps = @ \cup {"capture"}]

Save ==
    /\ Step("save", state' = Saved, IF cmd.kind = "upgrade" THEN "locate" ELSE "end")
    /\ UNCHANGED <<storage, sessions, host, setting, locator, index, legacy, ghosts>>

Locate ==
    /\ \/ /\ At("locate") /\ locator' = "new" /\ UNCHANGED faults
          /\ cmd' = [cmd EXCEPT !.pc = "cancel", !.outcome = "changed"]
       \/ Throw("locate", "catch") /\ UNCHANGED locator
    /\ UNCHANGED <<storage, sessions, host, state, setting, index, legacy, ghosts>>
-------------------------------------------------------------------------------
(* Upgrade: undo *)

Catch ==
    /\ At("catch")
    /\ Go(IF cmd.refreshed THEN "unrefresh"
          ELSE IF cmd.replaced \/ cmd.snapshot # None THEN "compare" ELSE "cancel")
    /\ UNCHANGED <<storage, sessions, host, kept, legacy, ghosts, faults>>

\* The rollback of a refresh restores every file but those somebody changed
\* since, as the host does with config.json when it enables the plugin.
Unrefresh ==
    /\ At("unrefresh")
    /\ IF enabled = cmd.reg.enabled
       THEN Go("compare") /\ Unwritten
       ELSE /\ Go("unrestored")
            /\ market' = cmd.reg.market
            /\ manifest' = cmd.reg.plugin
            /\ UNCHANGED <<plugin, enabled>>
    /\ UNCHANGED faults
    /\ UNCHANGED <<storage, sessions, kept, legacy, ghosts>>

\* The registration is restored only when it was taken apart.
Reregister == IF cmd.replaced THEN "unplug" ELSE "restate"

Paused(notice) == [cmd.before EXCEPT !.caps = {}, !.notice = notice]

\* Writes made since the migration are kept, and the capabilities paused.
Compare ==
    /\ At("compare")
    /\ IF cmd.snapshot # None /\ db # cmd.migrated
       THEN /\ state' = Paused("review")
            /\ cmd' = [cmd EXCEPT !.pc = "cancel", !.outcome = "review"]
       ELSE /\ Go(IF cmd.snapshot = None THEN Reregister ELSE "lock")
            /\ UNCHANGED state
    /\ UNCHANGED <<storage, sessions, host, setting, locator, index, legacy, ghosts, faults>>

\* The steps of restoreFromBackup, with the snapshot of this upgrade.
RestoreStep(here, does, next) ==
    /\ Step(here, does, next)
    /\ UNCHANGED <<sessions, host, kept, legacy, ghosts>>

StartRestore == RestoreStep("lock", TakeLock, "guard")

GuardRestore ==
    /\ At("guard")
    /\ IF Restorable(cmd.snapshot, cmd.migrated)
       THEN RestoreStep("guard", KeepPrevious, "announce")
       ELSE RestoreStep("guard", DropLock, "unrestored")

\* Before it installs, an error only ends the restore.
AnnounceRestore ==
    \/ RestoreStep("announce", Announce(cmd.snapshot), "copy")
    \/ /\ Throw("announce", "unrestored") /\ DropLock
       /\ UNCHANGED <<sessions, host, kept, legacy, ghosts>>

\* An error while installing rolls the target back to the previous content.
CopyRestore ==
    \/ RestoreStep("copy", CopyIn, "unlock")
    \/ /\ Throw("copy", "unrestored") /\ RollBack
       /\ UNCHANGED <<sessions, host, kept, legacy, ghosts>>

FinishRestore ==
    \/ /\ At("unlock")
       /\ RestoreStep("unlock", DropLock, Reregister)
    \/ /\ Throw("unlock", "unrestored") /\ RollBack
       /\ UNCHANGED <<sessions, host, kept, legacy, ghosts>>

\* #restoreRegistration
UnplugNew == HostStep("unplug", plugin # None, Unplug, "unsellNew", "unrestored")
UnsellNew == HostStep("unsellNew", market # None, Unsell, "sellOld", "unrestored")
SellOld == HostStep("sellOld", cmd.reg.market # None, Sell(cmd.reg.market), "plugOld", "unrestored")

\* Mutant: a plugin that had been disabled comes back enabled.
PlugOldEnabled == HostStep("plugOld", cmd.reg.plugin # None, Plug, "restate", "unrestored")

PlugOld == HostStep("plugOld", cmd.reg.plugin # None, Plug, "disableOld", "unrestored")
DisableOld ==
    HostStep("disableOld", enabled /\ ~ cmd.reg.enabled, Enable(FALSE), "restate", "unrestored")

Restate ==
    /\ At("restate")
    /\ state' = cmd.before
    /\ cmd' = [cmd EXCEPT !.pc = "cancel", !.outcome = "restored"]
    /\ UNCHANGED <<storage, sessions, host, setting, locator, index, legacy, ghosts, faults>>

Unrestored ==
    /\ At("unrestored")
    /\ state' = IF cmd.snapshot = None THEN state ELSE Paused("incomplete")
    /\ cmd' = [cmd EXCEPT !.pc = "cancel", !.outcome = "broken"]
    /\ UNCHANGED <<storage, sessions, host, setting, locator, index, legacy, ghosts, faults>>
-------------------------------------------------------------------------------
(* install and enable; disable and uninstall *)

ProbeHost ==
    /\ \/ Step("probe", UNCHANGED state, "flag")
       \/ Throw("probe", "end") /\ state' = [state EXCEPT !.caps = @ \ {"capture"}]
    /\ UNCHANGED <<storage, sessions, host, setting, locator, index, legacy, ghosts>>

\* ensureExperimentalSetting: what is tracked already stays tracked.
BorrowSetting ==
    /\ At("flag")
    /\ setting' = TRUE
    /\ cmd' = [cmd EXCEPT !.pc = "saveFlag",
                          !.before.tracked = IF state.tracked # None THEN state.tracked
                                      ELSE [managed |-> ~ setting, previous |-> setting]]
    /\ UNCHANGED <<storage, sessions, host, state, locator, index, legacy, ghosts, faults>>

RecordSetting ==
    /\ Step("saveFlag", state' = [state EXCEPT !.tracked = cmd.before.tracked], "register")
    /\ locator' = "new"
    /\ UNCHANGED <<storage, sessions, host, setting, index, legacy, ghosts>>

Failed ==
    /\ Step("failed", state' = [state EXCEPT !.caps = @ \ {"capture"}], "end")
    /\ UNCHANGED <<storage, sessions, host, setting, locator, index, legacy, ghosts>>

\* Mutant: the setting is put back whoever set it.
GivenBackAlways == IF state.tracked # None THEN state.tracked.previous ELSE FALSE

\* restoreExperimentalSetting
GivenBack ==
    IF state.tracked # None /\ state.tracked.managed THEN state.tracked.previous ELSE setting

UnflagAndDisable ==
    /\ Step("unflag", setting' = GivenBack, "disable")
    /\ UNCHANGED <<storage, sessions, host, state, locator, index, legacy, ghosts>>

DisablePlugin == HostStep("disable", enabled, Enable(FALSE), "saveDisabled", "end")

SaveDisabled ==
    /\ Step("saveDisabled",
            state' = [state EXCEPT !.caps = @ \ {"capture"}, !.tracked = None], "end")
    /\ UNCHANGED <<storage, sessions, host, setting, locator, index, legacy, ghosts>>

RemovePlugin == HostStep("remove", plugin # None, Unplug, "removeMarket", "end")
RemoveMarket == HostStep("removeMarket", market # None, Unsell, "unset", "end")

GiveSettingBack ==
    /\ Step("unset", setting' = GivenBack, "forget")
    /\ UNCHANGED <<storage, sessions, host, state, locator, index, legacy, ghosts>>

Forget ==
    /\ Step("forget", state' = Nothing, "unlocate")
    /\ UNCHANGED <<storage, sessions, host, setting, locator, index, legacy, ghosts>>

RemoveLocator ==
    /\ Step("unlocate", locator' = None, "end")
    /\ UNCHANGED <<storage, sessions, host, state, setting, index, legacy, ghosts>>
-------------------------------------------------------------------------------
(* The rest of the installation *)

adapter == <<host, kept, cmd, legacy, ghosts>>

\* The host starts the extension of an enabled plugin.
SessionStarts(s) ==
    /\ enabled /\ state.installed /\ state.caps # {}
    /\ Register(s)
    /\ UNCHANGED <<storage, adapter, faults>>

\* A session ends when its user does, when it sees the request, or with its
\* process; its marker goes before its lease.
SessionEnds(s) ==
    /\ UnmarkSession(s) \/ EndSession(s)
    /\ UNCHANGED <<storage, adapter, faults>>

SessionIsKilled(s) ==
    /\ SessionDies(s)
    /\ Fault
    /\ UNCHANGED <<storage, adapter>>

\* A process of the older runtime: it opens only the schema it knows, and
\* every write of it is checked as the new one's are.
LegacyOpens ==
    /\ legacy = None
    /\ NeedsMigration /\ MayOpen
    /\ legacy' = generation
    /\ UNCHANGED <<storage, sessions, host, kept, cmd, ghosts, faults>>

LegacyWrites(r) ==
    /\ legacy # None /\ MayWrite(legacy)
    /\ r \notin db.rows
    /\ db' = [db EXCEPT !.rows = @ \cup {r}]
    /\ UNCHANGED <<lock, generation, sessions, adapter, faults>>

RestoreSteps == {"lock", "guard", "announce", "copy", "unlock"}

\* recoverInterruptedRestore refuses while the process in the journal lives.
RecoverByHand ==
    /\ ByHand
    /\ \A pc \in RestoreSteps : ~ At(pc)
    /\ Recover
    /\ UNCHANGED <<sessions, adapter, faults>>
-------------------------------------------------------------------------------
UpgradeStep ==
    \/ Drain \/ Shutdown \/ WaitForSessions \/ RetireHelpers \/ CancelMaintenance
    \/ Inspect \/ Mark \/ Digest \/ RefreshMarket \/ ReplacePlugin \/ UnsellOld
    \/ CheckUpgrade \/ RefreshFiles \/ RefreshConfig \/ RefreshSettings \/ Locate

UndoStep ==
    \/ Catch \/ Unrefresh \/ Compare \/ StartRestore \/ GuardRestore
    \/ AnnounceRestore \/ CopyRestore \/ FinishRestore \/ UnplugNew \/ UnsellNew
    \/ SellOld \/ PlugOld \/ DisableOld \/ Restate \/ Unrestored

OtherStep ==
    \/ OpenStore \/ RegisterMarket \/ InstallPlugin \/ VerifyVersion \/ EnablePlugin
    \/ Save \/ ProbeHost \/ BorrowSetting \/ RecordSetting \/ Failed
    \/ UnflagAndDisable \/ DisablePlugin \/ SaveDisabled \/ RemovePlugin
    \/ RemoveMarket \/ GiveSettingBack \/ Forget \/ RemoveLocator \/ End

CommandStep == UpgradeStep \/ UndoStep \/ OtherStep

Next ==
    \/ \E kind \in Kinds : Begin(kind)
    \/ CommandStep
    \/ Crash
    \/ \E s \in Sessions : SessionStarts(s) \/ SessionEnds(s) \/ SessionIsKilled(s)
    \/ LegacyOpens
    \/ \E r \in Rows : LegacyWrites(r)
    \/ RecoverByHand

\* An old installation that works, with what the user had in settings.json
\* before it, or none at all.
Init ==
    /\ wish \in BOOLEAN
    /\ generation = 0 /\ lock = None
    /\ live = {} /\ markers = {} /\ request = FALSE /\ registry = FALSE
    /\ \/ /\ db = [schema |-> "old", rows |-> {}]
          /\ market = "old" /\ plugin = "old" /\ manifest = "old" /\ enabled = TRUE
          /\ state = [installed |-> TRUE, caps |-> Capabilities, notice |-> "none",
                      tracked |-> [managed |-> ~ wish, previous |-> wish]]
          /\ setting = TRUE /\ locator = "old"
       \/ /\ db = None
          /\ market = None /\ plugin = None /\ manifest = None /\ enabled = FALSE
          /\ state = Nothing
          /\ setting = wish /\ locator = None
    /\ index = "current"
    /\ cmd = None /\ legacy = None /\ unowned = FALSE /\ faults = 0

Spec == Init /\ [][Next]_vars

\* A command is code that runs; the user of an installation that does not work
\* tries again.
FairSpec == Spec /\ WF_vars(CommandStep) /\ WF_vars(Begin("upgrade"))
-------------------------------------------------------------------------------
(* Safety *)

\* From the look at the registry until maintenance is cancelled no registered
\* session runs: nothing is migrated, replaced or restored under it.
NobodyIsInside ==
    /\ cmd # None /\ cmd.kind = "upgrade"
    /\ cmd.pc \notin {"drain", "shutdown", "wait", "cancel", "end"}
    => Active = {}

\* An upgrade that fails and says that it restored what was there has: the
\* marketplace, the plugin and whether it is enabled, the adapter state, and
\* the schema.  (A plugin whose version was not its marketplace's comes back
\* in its marketplace's.)
FailureIsUndone ==
    At("cancel") /\ cmd.outcome = "restored"
    => /\ market = cmd.reg.market /\ enabled = cmd.reg.enabled
       /\ plugin = cmd.reg.plugin \/ cmd.reg.plugin # cmd.reg.market
       /\ state = cmd.before
       /\ cmd.snapshot # None => db.schema = "old"

\* A row that is there stays, unless it was in the content that was migrated and
\* fingerprinted and is none of the user's decisions.
RowsStay ==
    db # None =>
        \A r \in db.rows :
            \/ r \in db'.rows
            \/ cmd # None /\ cmd.migrated # None /\ r \in cmd.migrated.rows \ Controls

\* A restore takes away no row that was written after the migration was
\* fingerprinted, and never anything the user decided, whatever crashes,
\* failures and rollbacks it took.
WritesAreKept == [][RowsStay]_vars

\* When no command is under way and the adapter no longer says that it holds
\* the setting, the setting is what the user had; except when a command died
\* between writing it and recording it.
SettingIsReturned ==
    cmd = None /\ state.tracked = None /\ ~ unowned => setting = wish

===============================================================================
