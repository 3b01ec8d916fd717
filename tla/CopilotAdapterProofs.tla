------------------------ MODULE CopilotAdapterProofs ------------------------
(***************************************************************************)
(* What is proved of CopilotAdapter, for every set of sessions, rows and   *)
(* commands and every number of faults: nobody is inside while an upgrade  *)
(* works, a failed upgrade that says that it restored has restored, the    *)
(* borrowed setting goes back to the user, and no rollback loses a row     *)
(* that it may not lose.                                                   *)
(*                                                                         *)
(* The invariant has a part for each.  Quiet: an upgrade has the registry  *)
(* from its shutdown to its cancel.  Owned: what is tracked of the setting *)
(* is what the user wanted.  Course: how far, at each place of a command,  *)
(* the registration is from the one the command found.  Restoring and      *)
(* JournalIsSafe: the snapshot is part of the migrated content, and what a *)
(* journal may bring back has every row of what it would replace.          *)
(***************************************************************************)
EXTENDS CopilotAdapter, TLAPS

\* What the proofs need of the types
Typed ==
    /\ db \in Contents \cup {None} /\ lock \in Journals \cup {None}
    /\ market \in Versions /\ plugin \in Versions /\ enabled \in BOOLEAN
    /\ state \in States /\ setting \in BOOLEAN
    /\ wish \in BOOLEAN /\ unowned \in BOOLEAN
    /\ cmd \in Commands \cup {None}

\* An upgrade holds the registry until it cancels, and from its look at the
\* registry on nobody is inside.
Quiet ==
    cmd # None /\ cmd.kind = "upgrade" =>
        /\ cmd.pc \notin {"drain", "shutdown", "end"} => registry
        /\ cmd.pc \notin {"drain", "shutdown", "wait", "cancel", "end"} => Active = {}

\* What was tracked when the setting was borrowed is what the user wanted.
Holds(t) == t # None => IF t.managed THEN t.previous = wish ELSE setting /\ wish

Owned ==
    /\ state.tracked = None /\ ~ At("saveFlag") => setting = wish
    /\ Holds(state.tracked)
    /\ At("saveFlag") =>
          /\ cmd.before.tracked # None /\ Holds(cmd.before.tracked)
          /\ setting
          /\ state.tracked \in {None, cmd.before.tracked}
    /\ cmd # None /\ cmd.pc \notin {"saveFlag", "end", "unlocate"} =>
          cmd.before.tracked = state.tracked
    /\ cmd # None /\ cmd.pc \in {"disable", "saveDisabled", "forget", "unlocate"} => setting = wish

\* The host's registration hangs together, and so does the one a command found.
Registered(m, p, e) == (p = None => ~ e) /\ (p # None => m # None)

Untouched == market = cmd.reg.market /\ plugin = cmd.reg.plugin /\ enabled = cmd.reg.enabled

Looking == {"drain", "shutdown", "wait", "retire", "inspect"}
Before == {"open", "mark", "digest", "refreshMarket", "replace", "refreshFiles"}
Refreshing == {"refreshConfig", "refreshSettings"}
Replacing == {"unsell", "register", "plug", "verify", "enable", "check", "save", "locate"}
Undoing == {"compare", "lock", "guard", "announce", "copy", "unlock"}

\* How far the registration is from the one the command found
Course ==
    /\ cmd.pc \in Looking => ~ cmd.replaced /\ ~ cmd.refreshed
    /\ cmd.pc \in Before => Untouched /\ ~ cmd.replaced /\ ~ cmd.refreshed
    /\ cmd.pc = "refreshFiles" => plugin # None
    /\ cmd.pc \in Refreshing =>
          enabled = cmd.reg.enabled /\ market = cmd.reg.market /\ ~ cmd.replaced /\ ~ cmd.refreshed
    /\ cmd.pc \in Refreshing \/ cmd.refreshed => cmd.reg.market # None
    /\ cmd.pc \in {"unsell", "check", "locate"} \/ (cmd.kind = "upgrade" /\ cmd.pc \in Replacing) =>
          cmd.replaced \/ cmd.refreshed
    /\ cmd.pc \in {"unsell", "removeMarket", "unsellNew", "sellOld", "plugOld"} => plugin = None
    /\ cmd.pc \in {"probe", "flag", "saveFlag"} => cmd.kind # "upgrade"
    /\ cmd.pc = "plug" => market = "new"
    /\ cmd.pc = "enable" => plugin = "new"
    /\ cmd.pc = "catch" => Untouched \/ cmd.replaced \/ cmd.refreshed
    /\ cmd.pc = "unrefresh" => cmd.refreshed
    /\ cmd.pc \in Undoing => Untouched \/ cmd.replaced
    /\ cmd.pc = "sellOld" => market = None
    /\ cmd.pc \in {"plugOld", "disableOld", "restate"} => market = cmd.reg.market
    /\ cmd.pc \in {"disableOld", "restate"} =>
          plugin = cmd.reg.plugin \/ cmd.reg.plugin # cmd.reg.market
    /\ cmd.pc = "disableOld" => (cmd.reg.enabled => enabled)
    /\ cmd.pc = "restate" => enabled = cmd.reg.enabled
    /\ cmd.outcome = "restored" => cmd.pc \in {"cancel", "end"}
    /\ cmd.outcome = "restored" /\ cmd.pc = "cancel" =>
          /\ market = cmd.reg.market /\ enabled = cmd.reg.enabled
          /\ plugin = cmd.reg.plugin \/ cmd.reg.plugin # cmd.reg.market
          /\ state = cmd.before

HostKept ==
    /\ Registered(market, plugin, enabled)
    /\ cmd # None => Registered(cmd.reg.market, cmd.reg.plugin, cmd.reg.enabled) /\ Course

\* What an installing journal may bring back has every row of what it would replace.
JournalIsSafe ==
    lock # None /\ lock.phase = "installing" =>
        lock.previous # None /\ lock.replacement.rows \subseteq lock.previous.rows

Early == {"drain", "shutdown", "wait", "retire", "inspect", "open", "mark", "digest", "cancel", "end"}
Restored == {"unplug", "unsellNew", "sellOld", "plugOld", "disableOld", "restate"}

Restoring ==
    /\ cmd.pc \in Looking => cmd.kind = "upgrade"
    /\ cmd.kind # "upgrade" => cmd.snapshot = None
    /\ cmd.snapshot # None => cmd.snapshot.schema = "old"
    /\ cmd.snapshot # None /\ cmd.pc \in {"open", "mark", "digest"} =>
          db # None /\ cmd.snapshot.rows \subseteq db.rows
    /\ cmd.snapshot # None /\ cmd.pc \notin Early =>
          cmd.migrated # None /\ cmd.snapshot.rows \subseteq cmd.migrated.rows
    /\ cmd.pc \in RestoreSteps => cmd.snapshot # None
    /\ cmd.pc \in RestoreSteps \ {"lock"} => lock # None
    /\ cmd.pc \in {"guard", "announce"} => lock.phase = "preparing"
    /\ cmd.pc \in {"announce", "copy"} =>
          /\ db = cmd.migrated /\ lock.previous = db
          /\ db.rows \cap Controls \subseteq cmd.snapshot.rows
    /\ cmd.pc = "copy" => lock.replacement = cmd.snapshot
    /\ cmd.pc = "unlock" =>
          /\ db = cmd.snapshot /\ lock.previous = cmd.migrated
    /\ cmd.snapshot # None
          /\ (cmd.pc \in Restored \/ (cmd.pc = "cancel" /\ cmd.outcome = "restored")) =>
          db.schema = "old" /\ lock = None

StoreKept == JournalIsSafe /\ (cmd # None => Restoring)

IInv == Typed /\ Quiet /\ (unowned \/ Owned) /\ HostKept /\ StoreKept
-------------------------------------------------------------------------------
(* The command's locals *)

\* d is c with another place, and what else a step changes.
Goes(c, d, q, a, b, o) ==
    /\ d \in Commands /\ d.pc = q /\ d.kind = c.kind /\ d.reg = c.reg /\ d.before = c.before
    /\ d.snapshot = c.snapshot /\ d.migrated = c.migrated /\ d.follow = c.follow
    /\ d.replaced = a /\ d.refreshed = b /\ d.outcome = o

Outcomes == {"none", "changed", "review", "restored", "broken"}

LEMMA Going ==
    ASSUME NEW c \in Commands, NEW q \in Places, NEW d, d = [c EXCEPT !.pc = q]
    PROVE  Goes(c, d, q, c.replaced, c.refreshed, c.outcome)
BY DEF Commands, Goes

LEMMA GoingReplaced ==
    ASSUME NEW c \in Commands, NEW q \in Places, NEW a \in BOOLEAN, NEW d,
           d = [c EXCEPT !.pc = q, !.replaced = a]
    PROVE  Goes(c, d, q, a, c.refreshed, c.outcome)
BY DEF Commands, Goes

LEMMA GoingRefreshed ==
    ASSUME NEW c \in Commands, NEW q \in Places, NEW a \in BOOLEAN, NEW d,
           d = [c EXCEPT !.pc = q, !.refreshed = a]
    PROVE  Goes(c, d, q, c.replaced, a, c.outcome)
BY DEF Commands, Goes

LEMMA Ending ==
    ASSUME NEW c \in Commands, NEW q \in Places, NEW o \in Outcomes, NEW d,
           d = [c EXCEPT !.pc = q, !.outcome = o]
    PROVE  Goes(c, d, q, c.replaced, c.refreshed, o)
BY DEF Commands, Goes, Outcomes

LEMMA Gone ==
    ASSUME Typed, cmd # None, NEW q \in Places
    PROVE  cmd \in Commands /\ (Go(q) => Goes(cmd, cmd', q, cmd.replaced, cmd.refreshed, cmd.outcome))
<1>1. cmd \in Commands
  BY DEF Typed
<1> QED BY <1>1, Going DEF Go

LEMMA Handled ==
    /\ cmd.kind = "upgrade" => Handler = "catch"
    /\ cmd.kind # "upgrade" => Handler = "failed" \/ Handler = "end"
<1>1. CASE cmd.kind = "upgrade"
  BY <1>1 DEF Handler
<1>2. CASE cmd.kind \in {"install", "enable"}
  BY <1>2 DEF Handler
<1>3. CASE cmd.kind \notin {"upgrade", "install", "enable"}
  BY <1>3 DEF Handler
<1> QED BY <1>1, <1>2, <1>3

\* What a place changes for each part of the invariant
Calmly(p, q) ==
    /\ p \notin {"drain", "shutdown", "wait", "cancel", "end", "saveFlag", "unlocate"}
    /\ q # "saveFlag"
    /\ q \in {"disable", "saveDisabled", "forget", "unlocate"} =>
          p \in {"disable", "saveDisabled", "forget", "unlocate"}
    /\ q \notin RestoreSteps
    /\ q \in {"open", "mark", "digest"} => p \in {"open", "mark", "digest"}
    /\ q \notin Early => p \notin Early
    /\ q \in Restored => p \in Restored
    /\ q \in Looking => p \in Looking

\* A step of the command that leaves alone all but the host
LEMMA CalmStepsKeep ==
    ASSUME IInv, cmd \in Commands, NEW q,
           Goes(cmd, cmd', q, cmd'.replaced, cmd'.refreshed, cmd'.outcome), Calmly(cmd.pc, q),
           UNCHANGED <<storage, sessions, state, setting, ghosts>>,
           market' \in Versions, plugin' \in Versions, enabled' \in BOOLEAN,
           cmd'.outcome = cmd.outcome \/ cmd'.outcome # "restored",
           Registered(market', plugin', enabled'), Course'
    PROVE  IInv'
<1>1. /\ UNCHANGED <<db, lock, state, setting, wish, unowned, registry, Active>>
      /\ cmd' \in Commands /\ cmd'.pc = q /\ cmd'.kind = cmd.kind
      /\ cmd'.reg = cmd.reg /\ cmd'.before = cmd.before
      /\ cmd'.snapshot = cmd.snapshot /\ cmd'.migrated = cmd.migrated
      /\ cmd # None /\ cmd' # None
  BY NoneIsNoCommand DEF Goes, storage, sessions, ghosts, Active
<1>2. Typed'
  BY <1>1 DEF IInv, Typed
<1>3. Quiet'
  BY <1>1 DEF IInv, Quiet, Calmly
<1>4. (unowned \/ Owned)'
  BY <1>1 DEF IInv, Owned, Calmly, Holds, At
<1>5. HostKept'
  BY <1>1 DEF IInv, HostKept, Registered
<1>6. StoreKept'
  <2>1. JournalIsSafe'
    BY <1>1 DEF IInv, StoreKept, JournalIsSafe
  <2>2. cmd'.outcome = "restored" =>
           /\ q \in {"cancel", "end"} /\ cmd.outcome = "restored"
           /\ cmd.pc \in {"cancel", "end"}
    BY <1>1 DEF Course, IInv, HostKept
  <2>3. Restoring'
    BY <1>1, <2>2
       DEF IInv, StoreKept, Restoring, Calmly, Early, Looking, Restored, RestoreSteps
  <2> QED BY <2>1, <2>3 DEF StoreKept
<1> QED BY <1>2, <1>3, <1>4, <1>5, <1>6 DEF IInv

LEMMA NewIsSomething == "new" # None /\ "new" \in Versions /\ None \in Versions
BY NoneIsNoCommand DEF Versions

LEMMA HostIsTyped ==
    ASSUME IInv, cmd \in Commands
    PROVE  /\ market \in Versions /\ plugin \in Versions /\ enabled \in BOOLEAN
           /\ cmd.reg.market \in Versions /\ cmd.reg.plugin \in Versions /\ cmd.reg.enabled \in BOOLEAN
           /\ cmd.replaced \in BOOLEAN /\ cmd.refreshed \in BOOLEAN
           /\ Registered(market, plugin, enabled)
           /\ Registered(cmd.reg.market, cmd.reg.plugin, cmd.reg.enabled)
           /\ Course
<1>1. cmd # None
  BY NoneIsNoCommand
<1>2. cmd.reg \in Registrations /\ cmd.replaced \in BOOLEAN /\ cmd.refreshed \in BOOLEAN
  BY DEF Commands
<1> QED BY <1>1, <1>2 DEF IInv, Typed, HostKept, Registrations

\* A host command that fails, or is not needed to go on: the registration stays.
LEMMA GivingUpKeeps ==
    ASSUME IInv, cmd # None, NEW q \in {"catch", "failed", "end", "cancel", "unrestored"}, Go(q),
           cmd.pc \notin {"drain", "shutdown", "wait", "cancel", "end", "saveFlag", "unlocate"},
           q \in {"cancel", "end"} \/ cmd.pc \notin Early,
           UNCHANGED <<storage, sessions, host, state, setting, ghosts>>,
           q = "catch" => Untouched \/ cmd.replaced \/ cmd.refreshed
    PROVE  IInv'
<1>1. cmd \in Commands /\ Course /\ cmd.pc \notin {"cancel", "end"}
  BY HostIsTyped DEF IInv, Typed
<1>2. q \in Places
  BY DEF Places
<1>3. Goes(cmd, cmd', q, cmd.replaced, cmd.refreshed, cmd.outcome)
  BY <1>2, Gone DEF IInv
<1>4. /\ market' \in Versions /\ plugin' \in Versions /\ enabled' \in BOOLEAN
      /\ Registered(market', plugin', enabled')
  BY <1>1, HostIsTyped DEF host
<1>5. Course'
  BY <1>1, <1>3
     DEF Course, Goes, Untouched, Looking, Before, Refreshing, Replacing, Undoing, host
<1>6. Calmly(cmd.pc, q)
  BY <1>1 DEF Calmly, RestoreSteps, Early, Looking, Restored
<1> QED BY <1>1, <1>3, <1>4, <1>5, <1>6, CalmStepsKeep DEF Goes

-------------------------------------------------------------------------------
(* The steps that change the registration.  Here and below, lemma XKeeps says *)
(* of the action X that it keeps the invariant.                               *)

LEMMA RefreshMarketKeeps == ASSUME IInv, RefreshMarket PROVE IInv'
<1>1. cmd # None /\ cmd.pc = "refreshMarket" /\ cmd \in Commands
  BY DEF RefreshMarket, HostStep, Step, Throw, At, IInv, Typed
<1>2. UNCHANGED <<storage, sessions, state, setting, ghosts>>
  BY DEF RefreshMarket, HostStep, kept
<1>3. Course /\ Untouched /\ ~ cmd.replaced /\ ~ cmd.refreshed
  BY <1>1, HostIsTyped DEF Course, Registered, Before, Undoing
<1>4. CASE Go("replace") /\ UNCHANGED host
  <2>1. Goes(cmd, cmd', "replace", cmd.replaced, cmd.refreshed, cmd.outcome)
    <3>1. "replace" \in Places
      BY DEF Places
    <3> QED BY <1>1, <1>4, <3>1, Gone, Zenon DEF IInv
  <2>2. UNCHANGED <<market, plugin, enabled>>
    BY <1>1, <1>3, <1>4, HostIsTyped DEF host
  <2>3. /\ market' \in Versions /\ plugin' \in Versions /\ enabled' \in BOOLEAN
        /\ Registered(market', plugin', enabled')
    BY <1>1, <1>3, <2>2, HostIsTyped DEF Registered, Versions
  <2>4. Course'
    BY <1>1, <1>2, <1>3, <2>1, <2>2, HostIsTyped
       DEF Course, Goes, Untouched, Looking, Before, Refreshing, Replacing, Undoing, Registered
  <2>5. Calmly(cmd.pc, "replace")
    BY <1>1 DEF Calmly, RestoreSteps, Early, Looking, Restored
  <2> QED BY <1>1, <1>2, <2>1, <2>3, <2>4, <2>5, CalmStepsKeep DEF Goes
<1>5. CASE Go("catch") /\ UNCHANGED host
  BY <1>1, <1>2, <1>3, <1>5, GivingUpKeeps DEF Early
<1> QED BY <1>4, <1>5 DEF RefreshMarket, HostStep, Step, Throw

LEMMA UnsellOldKeeps == ASSUME IInv, UnsellOld PROVE IInv'
<1>1. cmd # None /\ cmd.pc = "unsell" /\ cmd \in Commands
  BY DEF UnsellOld, HostStep, Step, Throw, At, IInv, Typed
<1>2. UNCHANGED <<storage, sessions, state, setting, ghosts>>
  BY DEF UnsellOld, HostStep, kept
<1>3. Course /\ plugin = None /\ ~ enabled /\ (cmd.replaced \/ cmd.refreshed)
  BY <1>1, HostIsTyped DEF Course, Registered, Before, Undoing
<1>4. CASE Go("register") /\ IF market # None THEN Unsell ELSE UNCHANGED host
  <2>1. Goes(cmd, cmd', "register", cmd.replaced, cmd.refreshed, cmd.outcome)
    <3>1. "register" \in Places
      BY DEF Places
    <3> QED BY <1>1, <1>4, <3>1, Gone, Zenon DEF IInv
  <2>2. market' = None /\ UNCHANGED <<plugin, enabled>>
    BY <1>1, <1>3, <1>4, HostIsTyped DEF Unsell, host
  <2>3. /\ market' \in Versions /\ plugin' \in Versions /\ enabled' \in BOOLEAN
        /\ Registered(market', plugin', enabled')
    BY <1>1, <1>3, <2>2, HostIsTyped DEF Registered, Versions
  <2>4. Course'
    BY <1>1, <1>2, <1>3, <2>1, <2>2, HostIsTyped
       DEF Course, Goes, Untouched, Looking, Before, Refreshing, Replacing, Undoing, Registered
  <2>5. Calmly(cmd.pc, "register")
    BY <1>1 DEF Calmly, RestoreSteps, Early, Looking, Restored
  <2> QED BY <1>1, <1>2, <2>1, <2>3, <2>4, <2>5, CalmStepsKeep DEF Goes
<1>5. CASE Go("catch") /\ UNCHANGED host
  BY <1>1, <1>2, <1>3, <1>5, GivingUpKeeps DEF Early
<1> QED BY <1>4, <1>5 DEF UnsellOld, HostStep, Step, Throw

LEMMA UnplugNewKeeps == ASSUME IInv, UnplugNew PROVE IInv'
<1>1. cmd # None /\ cmd.pc = "unplug" /\ cmd \in Commands
  BY DEF UnplugNew, HostStep, Step, Throw, At, IInv, Typed
<1>2. UNCHANGED <<storage, sessions, state, setting, ghosts>>
  BY DEF UnplugNew, HostStep, kept
<1>3. Course /\ (plugin = None => ~ enabled)
  BY <1>1, HostIsTyped DEF Course, Registered, Before, Undoing
<1>4. CASE Go("unsellNew") /\ IF plugin # None THEN Unplug ELSE UNCHANGED host
  <2>1. Goes(cmd, cmd', "unsellNew", cmd.replaced, cmd.refreshed, cmd.outcome)
    <3>1. "unsellNew" \in Places
      BY DEF Places
    <3> QED BY <1>1, <1>4, <3>1, Gone, Zenon DEF IInv
  <2>2. plugin' = None /\ enabled' = FALSE /\ UNCHANGED market
    BY <1>1, <1>3, <1>4, HostIsTyped DEF Unplug, host
  <2>3. /\ market' \in Versions /\ plugin' \in Versions /\ enabled' \in BOOLEAN
        /\ Registered(market', plugin', enabled')
    BY <1>1, <1>3, <2>2, HostIsTyped DEF Registered, Versions
  <2>4. Course'
    BY <1>1, <1>2, <1>3, <2>1, <2>2, HostIsTyped
       DEF Course, Goes, Untouched, Looking, Before, Refreshing, Replacing, Undoing, Registered
  <2>5. Calmly(cmd.pc, "unsellNew")
    BY <1>1 DEF Calmly, RestoreSteps, Early, Looking, Restored
  <2> QED BY <1>1, <1>2, <2>1, <2>3, <2>4, <2>5, CalmStepsKeep DEF Goes
<1>5. CASE Go("unrestored") /\ UNCHANGED host
  BY <1>1, <1>2, <1>3, <1>5, GivingUpKeeps DEF Early
<1> QED BY <1>4, <1>5 DEF UnplugNew, HostStep, Step, Throw

LEMMA UnsellNewKeeps == ASSUME IInv, UnsellNew PROVE IInv'
<1>1. cmd # None /\ cmd.pc = "unsellNew" /\ cmd \in Commands
  BY DEF UnsellNew, HostStep, Step, Throw, At, IInv, Typed
<1>2. UNCHANGED <<storage, sessions, state, setting, ghosts>>
  BY DEF UnsellNew, HostStep, kept
<1>3. Course /\ plugin = None /\ ~ enabled
  BY <1>1, HostIsTyped DEF Course, Registered, Before, Undoing
<1>4. CASE Go("sellOld") /\ IF market # None THEN Unsell ELSE UNCHANGED host
  <2>1. Goes(cmd, cmd', "sellOld", cmd.replaced, cmd.refreshed, cmd.outcome)
    <3>1. "sellOld" \in Places
      BY DEF Places
    <3> QED BY <1>1, <1>4, <3>1, Gone, Zenon DEF IInv
  <2>2. market' = None /\ UNCHANGED <<plugin, enabled>>
    BY <1>1, <1>3, <1>4, HostIsTyped DEF Unsell, host
  <2>3. /\ market' \in Versions /\ plugin' \in Versions /\ enabled' \in BOOLEAN
        /\ Registered(market', plugin', enabled')
    BY <1>1, <1>3, <2>2, HostIsTyped DEF Registered, Versions
  <2>4. Course'
    BY <1>1, <1>2, <1>3, <2>1, <2>2, HostIsTyped
       DEF Course, Goes, Untouched, Looking, Before, Refreshing, Replacing, Undoing, Registered
  <2>5. Calmly(cmd.pc, "sellOld")
    BY <1>1 DEF Calmly, RestoreSteps, Early, Looking, Restored
  <2> QED BY <1>1, <1>2, <2>1, <2>3, <2>4, <2>5, CalmStepsKeep DEF Goes
<1>5. CASE Go("unrestored") /\ UNCHANGED host
  BY <1>1, <1>2, <1>3, <1>5, GivingUpKeeps DEF Early
<1> QED BY <1>4, <1>5 DEF UnsellNew, HostStep, Step, Throw

LEMMA SellOldKeeps == ASSUME IInv, SellOld PROVE IInv'
<1>1. cmd # None /\ cmd.pc = "sellOld" /\ cmd \in Commands
  BY DEF SellOld, HostStep, Step, Throw, At, IInv, Typed
<1>2. UNCHANGED <<storage, sessions, state, setting, ghosts>>
  BY DEF SellOld, HostStep, kept
<1>3. Course /\ plugin = None /\ ~ enabled /\ market = None
  BY <1>1, HostIsTyped DEF Course, Registered, Before, Undoing
<1>4. CASE Go("plugOld") /\ IF cmd.reg.market # None THEN Sell(cmd.reg.market) ELSE UNCHANGED host
  <2>1. Goes(cmd, cmd', "plugOld", cmd.replaced, cmd.refreshed, cmd.outcome)
    <3>1. "plugOld" \in Places
      BY DEF Places
    <3> QED BY <1>1, <1>4, <3>1, Gone, Zenon DEF IInv
  <2>2. market' = cmd.reg.market /\ UNCHANGED <<plugin, enabled>>
    BY <1>1, <1>3, <1>4, HostIsTyped DEF Sell, host
  <2>3. /\ market' \in Versions /\ plugin' \in Versions /\ enabled' \in BOOLEAN
        /\ Registered(market', plugin', enabled')
    BY <1>1, <1>3, <2>2, HostIsTyped DEF Registered, Versions
  <2>4. Course'
    BY <1>1, <1>2, <1>3, <2>1, <2>2, HostIsTyped
       DEF Course, Goes, Untouched, Looking, Before, Refreshing, Replacing, Undoing, Registered
  <2>5. Calmly(cmd.pc, "plugOld")
    BY <1>1 DEF Calmly, RestoreSteps, Early, Looking, Restored
  <2> QED BY <1>1, <1>2, <2>1, <2>3, <2>4, <2>5, CalmStepsKeep DEF Goes
<1>5. CASE Go("unrestored") /\ UNCHANGED host
  BY <1>1, <1>2, <1>3, <1>5, GivingUpKeeps DEF Early
<1> QED BY <1>4, <1>5 DEF SellOld, HostStep, Step, Throw

LEMMA PlugOldKeeps == ASSUME IInv, PlugOld PROVE IInv'
<1>1. cmd # None /\ cmd.pc = "plugOld" /\ cmd \in Commands
  BY DEF PlugOld, HostStep, Step, Throw, At, IInv, Typed
<1>2. UNCHANGED <<storage, sessions, state, setting, ghosts>>
  BY DEF PlugOld, HostStep, kept
<1>3. Course /\ plugin = None /\ ~ enabled /\ market = cmd.reg.market
  BY <1>1, HostIsTyped DEF Course, Registered, Before, Undoing
<1>4. CASE Go("disableOld") /\ IF cmd.reg.plugin # None THEN Plug ELSE UNCHANGED host
  <2>1. Goes(cmd, cmd', "disableOld", cmd.replaced, cmd.refreshed, cmd.outcome)
    <3>1. "disableOld" \in Places
      BY DEF Places
    <3> QED BY <1>1, <1>4, <3>1, Gone, Zenon DEF IInv
  <2>2. /\ UNCHANGED market
        /\ IF cmd.reg.plugin = None THEN UNCHANGED <<plugin, enabled>>
                                    ELSE plugin' = market /\ enabled' = TRUE
    BY <1>1, <1>3, <1>4, HostIsTyped DEF Plug, host
  <2>3. /\ market' \in Versions /\ plugin' \in Versions /\ enabled' \in BOOLEAN
        /\ Registered(market', plugin', enabled')
    BY <1>1, <1>3, <2>2, HostIsTyped DEF Registered, Versions
  <2>4. Course'
    BY <1>1, <1>2, <1>3, <2>1, <2>2, HostIsTyped
       DEF Course, Goes, Untouched, Looking, Before, Refreshing, Replacing, Undoing, Registered
  <2>5. Calmly(cmd.pc, "disableOld")
    BY <1>1 DEF Calmly, RestoreSteps, Early, Looking, Restored
  <2> QED BY <1>1, <1>2, <2>1, <2>3, <2>4, <2>5, CalmStepsKeep DEF Goes
<1>5. CASE Go("unrestored") /\ UNCHANGED host
  BY <1>1, <1>2, <1>3, <1>5, GivingUpKeeps DEF Early
<1> QED BY <1>4, <1>5 DEF PlugOld, HostStep, Step, Throw

LEMMA DisableOldKeeps == ASSUME IInv, DisableOld PROVE IInv'
<1>1. cmd # None /\ cmd.pc = "disableOld" /\ cmd \in Commands
  BY DEF DisableOld, HostStep, Step, Throw, At, IInv, Typed
<1>2. UNCHANGED <<storage, sessions, state, setting, ghosts>>
  BY DEF DisableOld, HostStep, kept
<1>3. /\ Course /\ market = cmd.reg.market /\ (cmd.reg.enabled => enabled)
      /\ plugin = cmd.reg.plugin \/ cmd.reg.plugin # cmd.reg.market
  BY <1>1, HostIsTyped DEF Course, Registered, Before, Undoing
<1>4. CASE Go("restate") /\ IF enabled /\ ~ cmd.reg.enabled THEN Enable(FALSE) ELSE UNCHANGED host
  <2>1. Goes(cmd, cmd', "restate", cmd.replaced, cmd.refreshed, cmd.outcome)
    <3>1. "restate" \in Places
      BY DEF Places
    <3> QED BY <1>1, <1>4, <3>1, Gone, Zenon DEF IInv
  <2>2. enabled' = cmd.reg.enabled /\ UNCHANGED <<market, plugin>>
    BY <1>1, <1>3, <1>4, HostIsTyped DEF Enable, host
  <2>3. /\ market' \in Versions /\ plugin' \in Versions /\ enabled' \in BOOLEAN
        /\ Registered(market', plugin', enabled')
    BY <1>1, <1>3, <2>2, HostIsTyped DEF Registered, Versions
  <2>4. Course'
    BY <1>1, <1>2, <1>3, <2>1, <2>2, HostIsTyped
       DEF Course, Goes, Untouched, Looking, Before, Refreshing, Replacing, Undoing, Registered
  <2>5. Calmly(cmd.pc, "restate")
    BY <1>1 DEF Calmly, RestoreSteps, Early, Looking, Restored
  <2> QED BY <1>1, <1>2, <2>1, <2>3, <2>4, <2>5, CalmStepsKeep DEF Goes
<1>5. CASE Go("unrestored") /\ UNCHANGED host
  BY <1>1, <1>2, <1>3, <1>5, GivingUpKeeps DEF Early
<1> QED BY <1>4, <1>5 DEF DisableOld, HostStep, Step, Throw

LEMMA DisablePluginKeeps == ASSUME IInv, DisablePlugin PROVE IInv'
<1>1. cmd # None /\ cmd.pc = "disable" /\ cmd \in Commands
  BY DEF DisablePlugin, HostStep, Step, Throw, At, IInv, Typed
<1>2. UNCHANGED <<storage, sessions, state, setting, ghosts>>
  BY DEF DisablePlugin, HostStep, kept
<1>3. Course /\ TRUE
  BY <1>1, HostIsTyped DEF Course, Registered, Before, Undoing
<1>4. CASE Go("saveDisabled") /\ IF enabled THEN Enable(FALSE) ELSE UNCHANGED host
  <2>1. Goes(cmd, cmd', "saveDisabled", cmd.replaced, cmd.refreshed, cmd.outcome)
    <3>1. "saveDisabled" \in Places
      BY DEF Places
    <3> QED BY <1>1, <1>4, <3>1, Gone, Zenon DEF IInv
  <2>2. enabled' = FALSE /\ UNCHANGED <<market, plugin>>
    BY <1>1, <1>3, <1>4, HostIsTyped DEF Enable, host
  <2>3. /\ market' \in Versions /\ plugin' \in Versions /\ enabled' \in BOOLEAN
        /\ Registered(market', plugin', enabled')
    BY <1>1, <1>3, <2>2, HostIsTyped DEF Registered, Versions
  <2>4. Course'
    BY <1>1, <1>2, <1>3, <2>1, <2>2, HostIsTyped
       DEF Course, Goes, Untouched, Looking, Before, Refreshing, Replacing, Undoing, Registered
  <2>5. Calmly(cmd.pc, "saveDisabled")
    BY <1>1 DEF Calmly, RestoreSteps, Early, Looking, Restored
  <2> QED BY <1>1, <1>2, <2>1, <2>3, <2>4, <2>5, CalmStepsKeep DEF Goes
<1>5. CASE Go("end") /\ UNCHANGED host
  BY <1>1, <1>2, <1>3, <1>5, GivingUpKeeps DEF Early
<1> QED BY <1>4, <1>5 DEF DisablePlugin, HostStep, Step, Throw

LEMMA RemovePluginKeeps == ASSUME IInv, RemovePlugin PROVE IInv'
<1>1. cmd # None /\ cmd.pc = "remove" /\ cmd \in Commands
  BY DEF RemovePlugin, HostStep, Step, Throw, At, IInv, Typed
<1>2. UNCHANGED <<storage, sessions, state, setting, ghosts>>
  BY DEF RemovePlugin, HostStep, kept
<1>3. Course /\ (plugin = None => ~ enabled)
  BY <1>1, HostIsTyped DEF Course, Registered, Before, Undoing
<1>4. CASE Go("removeMarket") /\ IF plugin # None THEN Unplug ELSE UNCHANGED host
  <2>1. Goes(cmd, cmd', "removeMarket", cmd.replaced, cmd.refreshed, cmd.outcome)
    <3>1. "removeMarket" \in Places
      BY DEF Places
    <3> QED BY <1>1, <1>4, <3>1, Gone, Zenon DEF IInv
  <2>2. plugin' = None /\ enabled' = FALSE /\ UNCHANGED market
    BY <1>1, <1>3, <1>4, HostIsTyped DEF Unplug, host
  <2>3. /\ market' \in Versions /\ plugin' \in Versions /\ enabled' \in BOOLEAN
        /\ Registered(market', plugin', enabled')
    BY <1>1, <1>3, <2>2, HostIsTyped DEF Registered, Versions
  <2>4. Course'
    BY <1>1, <1>2, <1>3, <2>1, <2>2, HostIsTyped
       DEF Course, Goes, Untouched, Looking, Before, Refreshing, Replacing, Undoing, Registered
  <2>5. Calmly(cmd.pc, "removeMarket")
    BY <1>1 DEF Calmly, RestoreSteps, Early, Looking, Restored
  <2> QED BY <1>1, <1>2, <2>1, <2>3, <2>4, <2>5, CalmStepsKeep DEF Goes
<1>5. CASE Go("end") /\ UNCHANGED host
  BY <1>1, <1>2, <1>3, <1>5, GivingUpKeeps DEF Early
<1> QED BY <1>4, <1>5 DEF RemovePlugin, HostStep, Step, Throw

LEMMA RemoveMarketKeeps == ASSUME IInv, RemoveMarket PROVE IInv'
<1>1. cmd # None /\ cmd.pc = "removeMarket" /\ cmd \in Commands
  BY DEF RemoveMarket, HostStep, Step, Throw, At, IInv, Typed
<1>2. UNCHANGED <<storage, sessions, state, setting, ghosts>>
  BY DEF RemoveMarket, HostStep, kept
<1>3. Course /\ plugin = None /\ ~ enabled
  BY <1>1, HostIsTyped DEF Course, Registered, Before, Undoing
<1>4. CASE Go("unset") /\ IF market # None THEN Unsell ELSE UNCHANGED host
  <2>1. Goes(cmd, cmd', "unset", cmd.replaced, cmd.refreshed, cmd.outcome)
    <3>1. "unset" \in Places
      BY DEF Places
    <3> QED BY <1>1, <1>4, <3>1, Gone, Zenon DEF IInv
  <2>2. market' = None /\ UNCHANGED <<plugin, enabled>>
    BY <1>1, <1>3, <1>4, HostIsTyped DEF Unsell, host
  <2>3. /\ market' \in Versions /\ plugin' \in Versions /\ enabled' \in BOOLEAN
        /\ Registered(market', plugin', enabled')
    BY <1>1, <1>3, <2>2, HostIsTyped DEF Registered, Versions
  <2>4. Course'
    BY <1>1, <1>2, <1>3, <2>1, <2>2, HostIsTyped
       DEF Course, Goes, Untouched, Looking, Before, Refreshing, Replacing, Undoing, Registered
  <2>5. Calmly(cmd.pc, "unset")
    BY <1>1 DEF Calmly, RestoreSteps, Early, Looking, Restored
  <2> QED BY <1>1, <1>2, <2>1, <2>3, <2>4, <2>5, CalmStepsKeep DEF Goes
<1>5. CASE Go("end") /\ UNCHANGED host
  BY <1>1, <1>2, <1>3, <1>5, GivingUpKeeps DEF Early
<1> QED BY <1>4, <1>5 DEF RemoveMarket, HostStep, Step, Throw

LEMMA CheckUpgradeKeeps == ASSUME IInv, CheckUpgrade PROVE IInv'
<1>1. cmd # None /\ cmd.pc = "check" /\ cmd \in Commands
  BY DEF CheckUpgrade, Step, Throw, At, IInv, Typed
<1>2. UNCHANGED <<storage, sessions, state, setting, ghosts>>
  BY DEF CheckUpgrade, kept
<1>3. Course /\ (cmd.replaced \/ cmd.refreshed)
  BY <1>1, HostIsTyped DEF Course, Registered, Before, Undoing
<1>4. CASE Go("save") /\ UNCHANGED host
  <2>1. Goes(cmd, cmd', "save", cmd.replaced, cmd.refreshed, cmd.outcome)
    <3>1. "save" \in Places
      BY DEF Places
    <3> QED BY <1>1, <1>4, <3>1, Gone, Zenon DEF IInv
  <2>2. UNCHANGED <<market, plugin, enabled>>
    BY <1>1, <1>3, <1>4, HostIsTyped DEF host
  <2>3. /\ market' \in Versions /\ plugin' \in Versions /\ enabled' \in BOOLEAN
        /\ Registered(market', plugin', enabled')
    BY <1>1, <1>3, <2>2, HostIsTyped DEF Registered, Versions
  <2>4. Course'
    BY <1>1, <1>2, <1>3, <2>1, <2>2, HostIsTyped
       DEF Course, Goes, Untouched, Looking, Before, Refreshing, Replacing, Undoing, Registered
  <2>5. Calmly(cmd.pc, "save")
    BY <1>1 DEF Calmly, RestoreSteps, Early, Looking, Restored
  <2> QED BY <1>1, <1>2, <2>1, <2>3, <2>4, <2>5, CalmStepsKeep DEF Goes
<1>5. CASE Go("catch") /\ UNCHANGED host
  BY <1>1, <1>2, <1>3, <1>5, GivingUpKeeps DEF Early
<1> QED BY <1>4, <1>5 DEF CheckUpgrade, Step, Throw

LEMMA RetireHelpersKeeps == ASSUME IInv, RetireHelpers PROVE IInv'
<1>1. cmd # None /\ cmd.pc = "retire" /\ cmd \in Commands
  BY DEF RetireHelpers, Step, Throw, At, IInv, Typed
<1>2. UNCHANGED <<storage, sessions, state, setting, ghosts>>
  BY DEF RetireHelpers, kept
<1>3. Course /\ TRUE
  BY <1>1, HostIsTyped DEF Course, Registered, Before, Undoing
<1>4. CASE Go("inspect") /\ UNCHANGED host
  <2>1. Goes(cmd, cmd', "inspect", cmd.replaced, cmd.refreshed, cmd.outcome)
    <3>1. "inspect" \in Places
      BY DEF Places
    <3> QED BY <1>1, <1>4, <3>1, Gone, Zenon DEF IInv
  <2>2. UNCHANGED <<market, plugin, enabled>>
    BY <1>1, <1>3, <1>4, HostIsTyped DEF host
  <2>3. /\ market' \in Versions /\ plugin' \in Versions /\ enabled' \in BOOLEAN
        /\ Registered(market', plugin', enabled')
    BY <1>1, <1>3, <2>2, HostIsTyped DEF Registered, Versions
  <2>4. Course'
    BY <1>1, <1>2, <1>3, <2>1, <2>2, HostIsTyped
       DEF Course, Goes, Untouched, Looking, Before, Refreshing, Replacing, Undoing, Registered
  <2>5. Calmly(cmd.pc, "inspect")
    BY <1>1 DEF Calmly, RestoreSteps, Early, Looking, Restored
  <2> QED BY <1>1, <1>2, <2>1, <2>3, <2>4, <2>5, CalmStepsKeep DEF Goes
<1>5. CASE Go("cancel") /\ UNCHANGED host
  BY <1>1, <1>2, <1>3, <1>5, GivingUpKeeps DEF Early
<1> QED BY <1>4, <1>5 DEF RetireHelpers, Step, Throw

LEMMA MarkKeeps == ASSUME IInv, Mark PROVE IInv'
<1>1. cmd # None /\ cmd.pc = "mark" /\ cmd \in Commands
  BY DEF Mark, Step, Throw, At, IInv, Typed
<1>2. UNCHANGED <<storage, sessions, state, setting, ghosts>>
  BY DEF Mark, kept
<1>3. Course /\ Untouched /\ ~ cmd.replaced /\ ~ cmd.refreshed
  BY <1>1, HostIsTyped DEF Course, Registered, Before, Undoing
<1>4. CASE Go("digest") /\ UNCHANGED host
  <2>1. Goes(cmd, cmd', "digest", cmd.replaced, cmd.refreshed, cmd.outcome)
    <3>1. "digest" \in Places
      BY DEF Places
    <3> QED BY <1>1, <1>4, <3>1, Gone, Zenon DEF IInv
  <2>2. UNCHANGED <<market, plugin, enabled>>
    BY <1>1, <1>3, <1>4, HostIsTyped DEF host
  <2>3. /\ market' \in Versions /\ plugin' \in Versions /\ enabled' \in BOOLEAN
        /\ Registered(market', plugin', enabled')
    BY <1>1, <1>3, <2>2, HostIsTyped DEF Registered, Versions
  <2>4. Course'
    BY <1>1, <1>2, <1>3, <2>1, <2>2, HostIsTyped
       DEF Course, Goes, Untouched, Looking, Before, Refreshing, Replacing, Undoing, Registered
  <2>5. Calmly(cmd.pc, "digest")
    BY <1>1 DEF Calmly, RestoreSteps, Early, Looking, Restored
  <2> QED BY <1>1, <1>2, <2>1, <2>3, <2>4, <2>5, CalmStepsKeep DEF Goes
<1>5. CASE Go("cancel") /\ UNCHANGED host
  BY <1>1, <1>2, <1>3, <1>5, GivingUpKeeps DEF Early
<1> QED BY <1>4, <1>5 DEF Mark, Step, Throw

LEMMA InstallPluginKeeps == ASSUME IInv, InstallPlugin PROVE IInv'
<1>1. cmd # None /\ cmd.pc = "plug" /\ cmd \in Commands
  BY DEF InstallPlugin, HostStep, Step, Throw, At, IInv, Typed
<1>2. UNCHANGED <<storage, sessions, state, setting, ghosts>>
  BY DEF InstallPlugin, HostStep, kept
<1>3. Course /\ market = "new" /\ (cmd.kind = "upgrade" => cmd.replaced \/ cmd.refreshed)
  BY <1>1, HostIsTyped DEF Course, Registered, Before, Undoing, Replacing, Refreshing
<1>4. CASE Go("verify") /\ IF plugin = None THEN Plug ELSE UNCHANGED host
  <2>1. Goes(cmd, cmd', "verify", cmd.replaced, cmd.refreshed, cmd.outcome)
    <3>1. "verify" \in Places
      BY DEF Places
    <3> QED BY <1>1, <1>4, <3>1, Gone, Zenon DEF IInv
  <2>2. market' = "new" /\ ((plugin' = "new" /\ enabled' = TRUE) \/ UNCHANGED <<plugin, enabled>>)
    <3>1. CASE plugin = None
      BY <1>3, <1>4, <3>1 DEF Plug
    <3>2. CASE plugin # None
      BY <1>3, <1>4, <3>2 DEF host
    <3> QED BY <3>1, <3>2
  <2>3. /\ market' \in Versions /\ plugin' \in Versions /\ enabled' \in BOOLEAN
        /\ Registered(market', plugin', enabled')
    <3>1. market' \in Versions
      BY <1>1, <1>3, <2>2, HostIsTyped, NewIsSomething DEF Registered
    <3>2. plugin' \in Versions
      BY <1>1, <1>3, <2>2, HostIsTyped, NewIsSomething DEF Registered
    <3>3. enabled' \in BOOLEAN
      BY <1>1, <1>3, <2>2, HostIsTyped, NewIsSomething DEF Registered
    <3>4. plugin' = None => ~ enabled'
      BY <1>1, <1>3, <2>2, HostIsTyped, NewIsSomething DEF Registered
    <3>5. plugin' # None => market' # None
      BY <1>1, <1>3, <2>2, HostIsTyped, NewIsSomething DEF Registered
    <3> QED BY <3>1, <3>2, <3>3, <3>4, <3>5 DEF Registered
  <2>4. Course'
    BY <1>1, <1>2, <1>3, <2>1, <2>2, HostIsTyped
       DEF Course, Goes, Untouched, Looking, Before, Refreshing, Replacing, Undoing, Registered
  <2>5. Calmly(cmd.pc, "verify")
    BY <1>1 DEF Calmly, RestoreSteps, Early, Looking, Restored
  <2> QED BY <1>1, <1>2, <2>1, <2>3, <2>4, <2>5, CalmStepsKeep DEF Goes
<1>5. CASE Go(Handler) /\ UNCHANGED host
  BY <1>1, <1>2, <1>3, <1>5, Handled, GivingUpKeeps DEF Early
<1> QED BY <1>4, <1>5 DEF InstallPlugin, HostStep, Step, Throw

LEMMA EnablePluginKeeps == ASSUME IInv, EnablePlugin PROVE IInv'
<1>1. cmd # None /\ cmd.pc = "enable" /\ cmd \in Commands
  BY DEF EnablePlugin, HostStep, Step, Throw, At, IInv, Typed
<1>2. UNCHANGED <<storage, sessions, state, setting, ghosts>>
  BY DEF EnablePlugin, HostStep, kept
<1>3. Course /\ plugin = "new" /\ (cmd.kind = "upgrade" => cmd.replaced \/ cmd.refreshed)
  BY <1>1, HostIsTyped DEF Course, Registered, Before, Undoing, Replacing, Refreshing
<1>4. ASSUME NEW q \in {"check", "save"}, Go(q), cmd.kind = "upgrade" <=> q = "check",
             IF ~ enabled THEN Enable(TRUE) ELSE UNCHANGED host
      PROVE  IInv'
  <2>1. Goes(cmd, cmd', q, cmd.replaced, cmd.refreshed, cmd.outcome)
    <3>1. q \in Places
      BY DEF Places
    <3> QED BY <1>1, <1>4, <3>1, Gone, Zenon DEF IInv
  <2>2. enabled' = TRUE /\ UNCHANGED <<market, plugin>>
    BY <1>1, <1>4, HostIsTyped DEF Enable, host
  <2>3. /\ market' \in Versions /\ plugin' \in Versions /\ enabled' \in BOOLEAN
        /\ Registered(market', plugin', enabled')
    BY <1>1, <1>3, <2>2, HostIsTyped, NewIsSomething DEF Registered
  <2>4. Course'
    BY <1>1, <1>2, <1>3, <1>4, <2>1, <2>2, HostIsTyped
       DEF Course, Goes, Untouched, Looking, Before, Refreshing, Replacing, Undoing, Registered
  <2>5. Calmly(cmd.pc, q)
    BY <1>1 DEF Calmly, RestoreSteps, Early, Looking, Restored
  <2> QED BY <1>1, <1>2, <2>1, <2>3, <2>4, <2>5, CalmStepsKeep DEF Goes
<1>5. CASE Go(Handler) /\ UNCHANGED host
  BY <1>1, <1>2, <1>3, <1>5, Handled, GivingUpKeeps DEF Early
<1>6. \/ /\ Go(IF cmd.kind = "upgrade" THEN "check" ELSE "save")
         /\ IF ~ enabled THEN Enable(TRUE) ELSE UNCHANGED host
      \/ Go(Handler) /\ UNCHANGED host
  BY DEF EnablePlugin, HostStep, Step, Throw
<1>7. CASE cmd.kind = "upgrade"
  BY <1>4, <1>5, <1>6, <1>7
<1>8. CASE cmd.kind # "upgrade"
  BY <1>4, <1>5, <1>6, <1>8
<1> QED BY <1>7, <1>8

LEMMA VerifyVersionKeeps == ASSUME IInv, VerifyVersion PROVE IInv'
<1>1. cmd # None /\ cmd.pc = "verify" /\ cmd \in Commands
  BY DEF VerifyVersion, Step, At, IInv, Typed
<1>2. UNCHANGED <<storage, sessions, state, setting, ghosts>>
  BY DEF VerifyVersion, kept
<1>3. Course /\ (cmd.kind = "upgrade" => cmd.replaced \/ cmd.refreshed)
  BY <1>1, HostIsTyped DEF Course, Registered, Before, Undoing, Replacing, Refreshing
<1>4. CASE Go("enable") /\ UNCHANGED host /\ plugin = "new"
  <2>1. Goes(cmd, cmd', "enable", cmd.replaced, cmd.refreshed, cmd.outcome)
    <3>1. "enable" \in Places
      BY DEF Places
    <3> QED BY <1>1, <1>4, <3>1, Gone, Zenon DEF IInv
  <2>2. UNCHANGED <<market, plugin, enabled>>
    BY <1>4 DEF host
  <2>3. /\ market' \in Versions /\ plugin' \in Versions /\ enabled' \in BOOLEAN
        /\ Registered(market', plugin', enabled')
    BY <1>1, <1>3, <2>2, HostIsTyped DEF Registered, Versions
  <2>4. Course'
    BY <1>1, <1>2, <1>3, <1>4, <2>1, <2>2, HostIsTyped
       DEF Course, Goes, Untouched, Looking, Before, Refreshing, Replacing, Undoing, Registered
  <2>5. Calmly(cmd.pc, "enable")
    BY <1>1 DEF Calmly, RestoreSteps, Early, Looking, Restored
  <2> QED BY <1>1, <1>2, <2>1, <2>3, <2>4, <2>5, CalmStepsKeep DEF Goes
<1>5. CASE Go(Handler) /\ UNCHANGED host
  BY <1>1, <1>2, <1>3, <1>5, Handled, GivingUpKeeps DEF Early
<1> QED BY <1>4, <1>5 DEF VerifyVersion

LEMMA RegisterMarketKeeps == ASSUME IInv, RegisterMarket PROVE IInv'
<1>1. cmd # None /\ cmd.pc = "register" /\ cmd \in Commands
  BY DEF RegisterMarket, Throw, At, IInv, Typed
<1>2. UNCHANGED <<storage, sessions, state, setting, ghosts>>
  BY DEF RegisterMarket, kept
<1>3. Course /\ (cmd.kind = "upgrade" => cmd.replaced \/ cmd.refreshed)
  BY <1>1, HostIsTyped DEF Course, Registered, Before, Undoing, Replacing, Refreshing
<1>4. CASE Go("plug") /\ UNCHANGED host /\ market = "new"
  <2>1. Goes(cmd, cmd', "plug", cmd.replaced, cmd.refreshed, cmd.outcome)
    <3>1. "plug" \in Places
      BY DEF Places
    <3> QED BY <1>1, <1>4, <3>1, Gone, Zenon DEF IInv
  <2>2. UNCHANGED <<market, plugin, enabled>>
    BY <1>4 DEF host
  <2>3. /\ market' \in Versions /\ plugin' \in Versions /\ enabled' \in BOOLEAN
        /\ Registered(market', plugin', enabled')
    BY <1>1, <1>3, <2>2, HostIsTyped, NewIsSomething DEF Registered
  <2>4. Course'
    BY <1>1, <1>2, <1>3, <1>4, <2>1, <2>2, HostIsTyped
       DEF Course, Goes, Untouched, Looking, Before, Refreshing, Replacing, Undoing, Registered
  <2>5. Calmly(cmd.pc, "plug")
    BY <1>1 DEF Calmly, RestoreSteps, Early, Looking, Restored
  <2> QED BY <1>1, <1>2, <2>1, <2>3, <2>4, <2>5, CalmStepsKeep DEF Goes
<1>5. CASE /\ UNCHANGED cmd
           /\ IF plugin # None THEN Unplug ELSE IF market # None THEN Unsell ELSE Sell("new")
  <2>1. Goes(cmd, cmd', "register", cmd.replaced, cmd.refreshed, cmd.outcome)
    BY <1>1, <1>5 DEF Goes
  <2>2. \/ plugin' = None /\ enabled' = FALSE /\ UNCHANGED market
        \/ plugin = None /\ market' \in {None, "new"} /\ UNCHANGED <<plugin, enabled>>
    <3>1. CASE plugin # None
      BY <1>5, <3>1 DEF Unplug
    <3>2. CASE plugin = None /\ market # None
      BY <1>5, <3>2 DEF Unsell
    <3>3. CASE plugin = None /\ market = None
      BY <1>5, <3>3 DEF Sell
    <3> QED BY <3>1, <3>2, <3>3
  <2>3. /\ market' \in Versions /\ plugin' \in Versions /\ enabled' \in BOOLEAN
        /\ Registered(market', plugin', enabled')
    <3>1. market' \in Versions
      BY <1>1, <1>3, <2>2, HostIsTyped, NewIsSomething DEF Registered
    <3>2. plugin' \in Versions
      BY <1>1, <1>3, <2>2, HostIsTyped, NewIsSomething DEF Registered
    <3>3. enabled' \in BOOLEAN
      BY <1>1, <1>3, <2>2, HostIsTyped, NewIsSomething DEF Registered
    <3>4. plugin' = None => ~ enabled'
      BY <1>1, <1>3, <2>2, HostIsTyped, NewIsSomething DEF Registered
    <3>5. plugin' # None => market' # None
      BY <1>1, <1>3, <2>2, HostIsTyped, NewIsSomething DEF Registered
    <3> QED BY <3>1, <3>2, <3>3, <3>4, <3>5 DEF Registered
  <2>4. Course'
    BY <1>1, <1>2, <1>3, <2>1, <2>2, HostIsTyped
       DEF Course, Goes, Untouched, Looking, Before, Refreshing, Replacing, Undoing, Registered
  <2>5. Calmly(cmd.pc, "register")
    BY <1>1 DEF Calmly, RestoreSteps, Early, Looking, Restored
  <2> QED BY <1>1, <1>2, <2>1, <2>3, <2>4, <2>5, CalmStepsKeep DEF Goes
<1>6. CASE Go(Handler) /\ UNCHANGED host
  BY <1>1, <1>2, <1>3, <1>6, Handled, GivingUpKeeps DEF Early
<1> QED BY <1>4, <1>5, <1>6 DEF RegisterMarket, Throw

LEMMA RefreshFilesKeeps == ASSUME IInv, RefreshFiles PROVE IInv'
<1>1. cmd # None /\ cmd.pc = "refreshFiles" /\ cmd \in Commands
  BY DEF RefreshFiles, Step, At, IInv, Typed
<1>2. UNCHANGED <<storage, sessions, state, setting, ghosts>>
  BY DEF RefreshFiles, kept
<1>3. Course /\ Untouched /\ plugin # None /\ ~ cmd.replaced /\ ~ cmd.refreshed
  BY <1>1, HostIsTyped DEF Course, Registered, Before, Undoing, Replacing, Refreshing
<1>4. CASE Go("refreshConfig") /\ UNCHANGED <<market, plugin, enabled>>
  <2>1. Goes(cmd, cmd', "refreshConfig", cmd.replaced, cmd.refreshed, cmd.outcome)
    <3>1. "refreshConfig" \in Places
      BY DEF Places
    <3> QED BY <1>1, <1>4, <3>1, Gone, Zenon DEF IInv
  <2>2. UNCHANGED <<market, plugin, enabled>>
    BY <1>4
  <2>3. /\ market' \in Versions /\ plugin' \in Versions /\ enabled' \in BOOLEAN
        /\ Registered(market', plugin', enabled')
    BY <1>1, <1>3, <2>2, HostIsTyped, NewIsSomething DEF Registered
  <2>4. Course'
    BY <1>1, <1>2, <1>3, <2>1, <2>2, HostIsTyped
       DEF Course, Goes, Untouched, Looking, Before, Refreshing, Replacing, Undoing, Registered
  <2>5. Calmly(cmd.pc, "refreshConfig")
    BY <1>1 DEF Calmly, RestoreSteps, Early, Looking, Restored
  <2> QED BY <1>1, <1>2, <2>1, <2>3, <2>4, <2>5, CalmStepsKeep DEF Goes
<1>5. CASE Go("catch") /\ UNCHANGED host
  BY <1>1, <1>2, <1>3, <1>5, GivingUpKeeps DEF Early
<1> QED BY <1>4, <1>5 DEF RefreshFiles, Step

\* The files are written back: the registration is what the command found.
LEMMA RefreshFailsKeeps ==
    ASSUME IInv, cmd # None, cmd.pc \in Refreshing, Go("catch"), Unwritten,
           UNCHANGED <<storage, sessions, state, setting, ghosts>>
    PROVE  IInv'
<1>1. cmd # None /\ cmd \in Commands
  BY DEF IInv, Typed
<1>2. UNCHANGED <<storage, sessions, state, setting, ghosts>>
  OBVIOUS
<1>3. Course /\ enabled = cmd.reg.enabled
  BY <1>1, HostIsTyped DEF Course
<1>4. Goes(cmd, cmd', "catch", cmd.replaced, cmd.refreshed, cmd.outcome)
  <2>1. "catch" \in Places
    BY DEF Places
  <2> QED BY <1>1, <1>2, <2>1, Gone, Zenon DEF IInv
<1>5. market' = cmd.reg.market /\ plugin' = cmd.reg.plugin /\ UNCHANGED enabled
  BY DEF Unwritten
<1>6. /\ market' \in Versions /\ plugin' \in Versions /\ enabled' \in BOOLEAN
      /\ Registered(market', plugin', enabled')
  BY <1>1, <1>3, <1>5, HostIsTyped DEF Registered
<1>7. Course'
  BY <1>1, <1>2, <1>3, <1>4, <1>5, HostIsTyped
     DEF Course, Goes, Untouched, Looking, Before, Refreshing, Replacing, Undoing
<1>8. Calmly(cmd.pc, "catch")
  BY DEF Refreshing, Calmly, RestoreSteps, Early, Looking, Restored
<1> QED BY <1>1, <1>2, <1>4, <1>6, <1>7, <1>8, CalmStepsKeep DEF Goes

LEMMA RefreshConfigKeeps == ASSUME IInv, RefreshConfig PROVE IInv'
<1>1. cmd # None /\ cmd.pc = "refreshConfig" /\ cmd \in Commands
  BY DEF RefreshConfig, Step, RefreshFails, Throw, At, IInv, Typed
<1>2. UNCHANGED <<storage, sessions, state, setting, ghosts>>
  BY DEF RefreshConfig, kept
<1>3. /\ Course /\ enabled = cmd.reg.enabled /\ market = cmd.reg.market
      /\ ~ cmd.replaced /\ ~ cmd.refreshed /\ cmd.reg.market # None
  BY <1>1, HostIsTyped DEF Course, Registered, Before, Undoing, Replacing, Refreshing
<1>4. CASE Go("refreshSettings") /\ plugin' = "new" /\ UNCHANGED <<market, enabled>>
  <2>1. Goes(cmd, cmd', "refreshSettings", cmd.replaced, cmd.refreshed, cmd.outcome)
    <3>1. "refreshSettings" \in Places
      BY DEF Places
    <3> QED BY <1>1, <1>4, <3>1, Gone, Zenon DEF IInv
  <2>2. plugin' = "new" /\ UNCHANGED <<market, enabled>>
    BY <1>4
  <2>3. /\ market' \in Versions /\ plugin' \in Versions /\ enabled' \in BOOLEAN
        /\ Registered(market', plugin', enabled')
    BY <1>1, <1>3, <2>2, HostIsTyped, NewIsSomething DEF Registered
  <2>4. Course'
    BY <1>1, <1>2, <1>3, <2>1, <2>2, HostIsTyped
       DEF Course, Goes, Untouched, Looking, Before, Refreshing, Replacing, Undoing, Registered
  <2>5. Calmly(cmd.pc, "refreshSettings")
    BY <1>1 DEF Calmly, RestoreSteps, Early, Looking, Restored
  <2> QED BY <1>1, <1>2, <2>1, <2>3, <2>4, <2>5, CalmStepsKeep DEF Goes
<1>5. CASE Go("catch") /\ Unwritten
  BY <1>1, <1>2, <1>5, RefreshFailsKeeps DEF Refreshing
<1> QED BY <1>4, <1>5 DEF RefreshConfig, Step, RefreshFails, Throw

LEMMA RefreshSettingsKeeps == ASSUME IInv, RefreshSettings PROVE IInv'
<1>1. cmd # None /\ cmd.pc = "refreshSettings" /\ cmd \in Commands
  BY DEF RefreshSettings, Step, RefreshFails, Throw, At, IInv, Typed
<1>2. UNCHANGED <<storage, sessions, state, setting, ghosts>>
  BY DEF RefreshSettings, kept
<1>3. Course /\ enabled = cmd.reg.enabled /\ ~ cmd.replaced /\ cmd.reg.market # None
  BY <1>1, HostIsTyped DEF Course, Registered, Before, Undoing, Replacing, Refreshing
<1>4. CASE cmd' = [cmd EXCEPT !.pc = "verify", !.refreshed = TRUE] /\ Sell("new")
  <2>1. Goes(cmd, cmd', "verify", cmd.replaced, TRUE, cmd.outcome)
    <3>1. \A q \in Places, a \in BOOLEAN : cmd' = [cmd EXCEPT !.pc = q, !.refreshed = a] =>
             Goes(cmd, cmd', q, cmd.replaced, a, cmd.outcome)
      BY <1>1, GoingRefreshed
    <3>2. "verify" \in Places /\ TRUE \in BOOLEAN
      BY DEF Places
    <3> QED BY <1>4, <3>1, <3>2, Zenon
  <2>2. market' = "new" /\ UNCHANGED <<plugin, enabled>>
    BY <1>4 DEF Sell
  <2>3. /\ market' \in Versions /\ plugin' \in Versions /\ enabled' \in BOOLEAN
        /\ Registered(market', plugin', enabled')
    BY <1>1, <1>3, <2>2, HostIsTyped, NewIsSomething DEF Registered
  <2>4. Course'
    BY <1>1, <1>2, <1>3, <2>1, <2>2, HostIsTyped
       DEF Course, Goes, Untouched, Looking, Before, Refreshing, Replacing, Undoing, Registered
  <2>5. Calmly(cmd.pc, "verify")
    BY <1>1 DEF Calmly, RestoreSteps, Early, Looking, Restored
  <2> QED BY <1>1, <1>2, <2>1, <2>3, <2>4, <2>5, CalmStepsKeep DEF Goes
<1>5. CASE Go("catch") /\ Unwritten
  BY <1>1, <1>2, <1>5, RefreshFailsKeeps DEF Refreshing
<1> QED BY <1>4, <1>5 DEF RefreshSettings, RefreshFails, Throw

LEMMA ReplacePluginKeeps == ASSUME IInv, ReplacePlugin PROVE IInv'
<1>1. cmd # None /\ cmd.pc = "replace" /\ cmd \in Commands
  BY DEF ReplacePlugin, Step, At, IInv, Typed
<1>2. UNCHANGED <<storage, sessions, state, setting, ghosts>>
  BY DEF ReplacePlugin, kept
<1>3. Course /\ Untouched /\ ~ cmd.replaced /\ ~ cmd.refreshed /\ (plugin = None => ~ enabled)
  BY <1>1, HostIsTyped DEF Course, Registered, Before, Undoing, Replacing, Refreshing
<1>4. CASE cmd' = [cmd EXCEPT !.pc = "unsell", !.replaced = TRUE]
             /\ IF plugin = None THEN UNCHANGED host ELSE Unplug
  <2>1. Goes(cmd, cmd', "unsell", TRUE, cmd.refreshed, cmd.outcome)
    <3>1. \A q \in Places, a \in BOOLEAN : cmd' = [cmd EXCEPT !.pc = q, !.replaced = a] =>
             Goes(cmd, cmd', q, a, cmd.refreshed, cmd.outcome)
      BY <1>1, GoingReplaced
    <3>2. "unsell" \in Places /\ TRUE \in BOOLEAN
      BY DEF Places
    <3> QED BY <1>4, <3>1, <3>2, Zenon
  <2>2. plugin' = None /\ ~ enabled' /\ enabled' \in BOOLEAN /\ UNCHANGED market
    BY <1>1, <1>3, <1>4, HostIsTyped DEF Unplug, host
  <2>3. /\ market' \in Versions /\ plugin' \in Versions /\ enabled' \in BOOLEAN
        /\ Registered(market', plugin', enabled')
    BY <1>1, <1>3, <2>2, HostIsTyped, NewIsSomething DEF Registered
  <2>4. Course'
    BY <1>1, <1>2, <1>3, <2>1, <2>2, HostIsTyped
       DEF Course, Goes, Untouched, Looking, Before, Refreshing, Replacing, Undoing, Registered
  <2>5. Calmly(cmd.pc, "unsell")
    BY <1>1 DEF Calmly, RestoreSteps, Early, Looking, Restored
  <2> QED BY <1>1, <1>2, <2>1, <2>3, <2>4, <2>5, CalmStepsKeep DEF Goes
<1>5. CASE cmd' = [cmd EXCEPT !.pc = "catch", !.replaced = TRUE] /\ UNCHANGED host
  <2>1. Goes(cmd, cmd', "catch", TRUE, cmd.refreshed, cmd.outcome)
    <3>1. \A q \in Places, a \in BOOLEAN : cmd' = [cmd EXCEPT !.pc = q, !.replaced = a] =>
             Goes(cmd, cmd', q, a, cmd.refreshed, cmd.outcome)
      BY <1>1, GoingReplaced
    <3>2. "catch" \in Places /\ TRUE \in BOOLEAN
      BY DEF Places
    <3> QED BY <1>5, <3>1, <3>2, Zenon
  <2>2. UNCHANGED <<market, plugin, enabled>>
    BY <1>5 DEF host
  <2>3. /\ market' \in Versions /\ plugin' \in Versions /\ enabled' \in BOOLEAN
        /\ Registered(market', plugin', enabled')
    BY <1>1, <1>3, <2>2, HostIsTyped, NewIsSomething DEF Registered
  <2>4. Course'
    BY <1>1, <1>2, <1>3, <2>1, <2>2, HostIsTyped
       DEF Course, Goes, Untouched, Looking, Before, Refreshing, Replacing, Undoing, Registered
  <2>5. Calmly(cmd.pc, "catch")
    BY <1>1 DEF Calmly, RestoreSteps, Early, Looking, Restored
  <2> QED BY <1>1, <1>2, <2>1, <2>3, <2>4, <2>5, CalmStepsKeep DEF Goes
<1>6. CASE Go("refreshFiles") /\ UNCHANGED host /\ plugin # None
  <2>1. Goes(cmd, cmd', "refreshFiles", cmd.replaced, cmd.refreshed, cmd.outcome)
    <3>1. "refreshFiles" \in Places
      BY DEF Places
    <3> QED BY <1>1, <1>6, <3>1, Gone, Zenon DEF IInv
  <2>2. UNCHANGED <<market, plugin, enabled>> /\ plugin # None
    BY <1>6 DEF host
  <2>3. /\ market' \in Versions /\ plugin' \in Versions /\ enabled' \in BOOLEAN
        /\ Registered(market', plugin', enabled')
    BY <1>1, <1>3, <2>2, HostIsTyped, NewIsSomething DEF Registered
  <2>4. Course'
    BY <1>1, <1>2, <1>3, <2>1, <2>2, HostIsTyped
       DEF Course, Goes, Untouched, Looking, Before, Refreshing, Replacing, Undoing, Registered
  <2>5. Calmly(cmd.pc, "refreshFiles")
    BY <1>1 DEF Calmly, RestoreSteps, Early, Looking, Restored
  <2> QED BY <1>1, <1>2, <2>1, <2>3, <2>4, <2>5, CalmStepsKeep DEF Goes
<1> QED BY <1>4, <1>5, <1>6 DEF ReplacePlugin

LEMMA CatchKeeps == ASSUME IInv, Catch PROVE IInv'
<1>1. cmd # None /\ cmd.pc = "catch" /\ cmd \in Commands
  BY DEF Catch, Step, At, IInv, Typed
<1>2. UNCHANGED <<storage, sessions, state, setting, ghosts>>
  BY DEF Catch, kept
<1>3. Course /\ (Untouched \/ cmd.replaced \/ cmd.refreshed)
  BY <1>1, HostIsTyped DEF Course, Registered, Before, Undoing, Replacing, Refreshing
<1>4. CASE Go("unrefresh") /\ cmd.refreshed /\ UNCHANGED host
  <2>1. Goes(cmd, cmd', "unrefresh", cmd.replaced, cmd.refreshed, cmd.outcome)
    <3>1. "unrefresh" \in Places
      BY DEF Places
    <3> QED BY <1>1, <1>4, <3>1, Gone, Zenon DEF IInv
  <2>2. UNCHANGED <<market, plugin, enabled>> /\ cmd.refreshed
    BY <1>4 DEF host
  <2>3. /\ market' \in Versions /\ plugin' \in Versions /\ enabled' \in BOOLEAN
        /\ Registered(market', plugin', enabled')
    BY <1>1, <1>3, <2>2, HostIsTyped, NewIsSomething DEF Registered
  <2>4. Course'
    BY <1>1, <1>2, <1>3, <2>1, <2>2, HostIsTyped
       DEF Course, Goes, Untouched, Looking, Before, Refreshing, Replacing, Undoing, Registered
  <2>5. Calmly(cmd.pc, "unrefresh")
    BY <1>1 DEF Calmly, RestoreSteps, Early, Looking, Restored
  <2> QED BY <1>1, <1>2, <2>1, <2>3, <2>4, <2>5, CalmStepsKeep DEF Goes
<1>5. CASE Go("compare") /\ ~ cmd.refreshed /\ UNCHANGED host
  <2>1. Goes(cmd, cmd', "compare", cmd.replaced, cmd.refreshed, cmd.outcome)
    <3>1. "compare" \in Places
      BY DEF Places
    <3> QED BY <1>1, <1>5, <3>1, Gone, Zenon DEF IInv
  <2>2. UNCHANGED <<market, plugin, enabled>> /\ ~ cmd.refreshed
    BY <1>5 DEF host
  <2>3. /\ market' \in Versions /\ plugin' \in Versions /\ enabled' \in BOOLEAN
        /\ Registered(market', plugin', enabled')
    BY <1>1, <1>3, <2>2, HostIsTyped, NewIsSomething DEF Registered
  <2>4. Course'
    BY <1>1, <1>2, <1>3, <2>1, <2>2, HostIsTyped
       DEF Course, Goes, Untouched, Looking, Before, Refreshing, Replacing, Undoing, Registered
  <2>5. Calmly(cmd.pc, "compare")
    BY <1>1 DEF Calmly, RestoreSteps, Early, Looking, Restored
  <2> QED BY <1>1, <1>2, <2>1, <2>3, <2>4, <2>5, CalmStepsKeep DEF Goes
<1>6. CASE Go("cancel") /\ UNCHANGED host
  BY <1>1, <1>2, <1>3, <1>6, GivingUpKeeps DEF Early
<1> QED BY <1>4, <1>5, <1>6 DEF Catch

LEMMA UnrefreshKeeps == ASSUME IInv, Unrefresh PROVE IInv'
<1>1. cmd # None /\ cmd.pc = "unrefresh" /\ cmd \in Commands
  BY DEF Unrefresh, At, IInv, Typed
<1>2. UNCHANGED <<storage, sessions, state, setting, ghosts>>
  BY DEF Unrefresh, kept
<1>3. Course /\ cmd.reg.market # None
  BY <1>1, HostIsTyped DEF Course
<1>4. CASE Go("compare") /\ Unwritten /\ enabled = cmd.reg.enabled
  <2>1. Goes(cmd, cmd', "compare", cmd.replaced, cmd.refreshed, cmd.outcome)
    <3>1. "compare" \in Places
      BY DEF Places
    <3> QED BY <1>1, <1>4, <3>1, Gone, Zenon DEF IInv
  <2>2. market' = cmd.reg.market /\ plugin' = cmd.reg.plugin /\ enabled' = cmd.reg.enabled
    BY <1>4 DEF Unwritten
  <2>3. /\ market' \in Versions /\ plugin' \in Versions /\ enabled' \in BOOLEAN
        /\ Registered(market', plugin', enabled')
    BY <1>1, <2>2, HostIsTyped
  <2>4. Course'
    BY <1>1, <1>2, <1>3, <2>1, <2>2, HostIsTyped
       DEF Course, Goes, Untouched, Looking, Before, Refreshing, Replacing, Undoing
  <2>5. Calmly(cmd.pc, "compare")
    BY <1>1 DEF Calmly, RestoreSteps, Early, Looking, Restored
  <2> QED BY <1>1, <1>2, <2>1, <2>3, <2>4, <2>5, CalmStepsKeep DEF Goes
<1>5. CASE Go("unrestored") /\ market' = cmd.reg.market /\ UNCHANGED <<plugin, enabled>>
  <2>1. Goes(cmd, cmd', "unrestored", cmd.replaced, cmd.refreshed, cmd.outcome)
    <3>1. "unrestored" \in Places
      BY DEF Places
    <3> QED BY <1>1, <1>5, <3>1, Gone, Zenon DEF IInv
  <2>3. /\ market' \in Versions /\ plugin' \in Versions /\ enabled' \in BOOLEAN
        /\ Registered(market', plugin', enabled')
    BY <1>1, <1>3, <1>5, HostIsTyped DEF Registered
  <2>4. Course'
    BY <1>1, <1>2, <1>3, <1>5, <2>1, HostIsTyped
       DEF Course, Goes, Untouched, Looking, Before, Refreshing, Replacing, Undoing
  <2>5. Calmly(cmd.pc, "unrestored")
    BY <1>1 DEF Calmly, RestoreSteps, Early, Looking, Restored
  <2> QED BY <1>1, <1>2, <2>1, <2>3, <2>4, <2>5, CalmStepsKeep DEF Goes
<1> QED BY <1>4, <1>5 DEF Unrefresh
-------------------------------------------------------------------------------
(* What the other steps leave alone of each part *)

LEMMA QuietStays ==
    ASSUME Quiet, cmd # None, cmd'.kind = cmd.kind, UNCHANGED sessions,
           \/ cmd'.pc \in {"drain", "shutdown", "end"}
           \/ cmd'.pc \in {"wait", "cancel"} /\ cmd.pc \notin {"drain", "shutdown", "end"}
           \/ cmd.pc \notin {"drain", "shutdown", "wait", "cancel", "end"}
    PROVE  Quiet'
BY DEF Quiet, sessions, Active

LEMMA OwnedStays ==
    ASSUME unowned \/ Owned, cmd # None, cmd' # None, cmd'.before.tracked = cmd.before.tracked,
           state'.tracked = state.tracked, UNCHANGED <<setting, ghosts>>,
           cmd.pc \notin {"saveFlag", "end", "unlocate"}, cmd'.pc # "saveFlag",
           cmd'.pc \in {"disable", "saveDisabled", "forget", "unlocate"} =>
                cmd.pc \in {"disable", "saveDisabled", "forget", "unlocate"}
    PROVE  (unowned \/ Owned)'
BY DEF Owned, Holds, At, ghosts

LEMMA StoreStays ==
    ASSUME StoreKept, cmd # None, UNCHANGED storage,
           cmd'.snapshot = cmd.snapshot, cmd'.migrated = cmd.migrated,
           cmd'.kind = cmd.kind, cmd'.pc \in Looking => cmd.pc \in Looking,
           cmd'.pc \notin RestoreSteps,
           cmd'.pc \in {"open", "mark", "digest"} => cmd.pc \in {"open", "mark", "digest"},
           cmd'.pc \notin Early => cmd.pc \notin Early,
           cmd'.pc \in Restored \/ (cmd'.pc = "cancel" /\ cmd'.outcome = "restored") =>
                cmd.snapshot = None \/ cmd.pc \in Restored
    PROVE  StoreKept'
<1>1. JournalIsSafe'
  BY DEF StoreKept, JournalIsSafe, storage
<1>2. Restoring'
  BY DEF StoreKept, Restoring, Early, Looking, Restored, RestoreSteps, storage
<1> QED BY <1>1, <1>2 DEF StoreKept

LEMMA HostStays ==
    ASSUME IInv, cmd \in Commands, UNCHANGED host, cmd'.reg = cmd.reg, Course'
    PROVE  HostKept'
BY HostIsTyped DEF HostKept, Registered, host

LEMMA TypesStay ==
    ASSUME Typed, UNCHANGED <<host, ghosts>>, cmd' \in Commands \cup {None},
           db' \in Contents \cup {None}, lock' \in Journals \cup {None},
           state' \in States, setting' \in BOOLEAN
    PROVE  Typed'
BY DEF Typed, host, ghosts

\* Before the upgrade looked, and after its end
LEMMA DrainKeeps == ASSUME IInv, Drain PROVE IInv'
<1>1. cmd # None /\ cmd.pc = "drain" /\ cmd \in Commands
  BY DEF Drain, Step, Throw, At, IInv, Typed
<1>2. UNCHANGED <<storage, sessions, host, state, setting, ghosts>>
  BY DEF Drain, kept
<1>3. PICK q \in {"shutdown", "end"} : Go(q)
  BY DEF Drain, Step, Throw
<1>4. q \in Places
  BY DEF Places
<1>5. Goes(cmd, cmd', q, cmd.replaced, cmd.refreshed, cmd.outcome)
  BY <1>1, <1>3, <1>4, Gone DEF IInv
<1>6. cmd' # None
  BY <1>5, NoneIsNoCommand DEF Goes
<1>7. Typed'
  BY <1>2, <1>5, TypesStay DEF IInv, Typed, Goes, storage
<1>8. Quiet'
  BY <1>1, <1>2, <1>5, QuietStays DEF IInv, Goes
<1>9. (unowned \/ Owned)'
  BY <1>1, <1>2, <1>5, <1>6, OwnedStays DEF IInv, Goes
<1>10. HostKept'
  <2>1. Course'
    BY <1>1, <1>2, <1>5, HostIsTyped
       DEF Course, Goes, Looking, Before, Refreshing, Replacing, Undoing
  <2> QED BY <1>1, <1>2, <1>5, <2>1, HostStays DEF Goes
<1>11. StoreKept'
  BY <1>1, <1>2, <1>5, StoreStays DEF IInv, Goes, Early, Looking, Restored, RestoreSteps
<1> QED BY <1>7, <1>8, <1>9, <1>10, <1>11 DEF IInv

LEMMA ShutdownKeeps == ASSUME IInv, Shutdown PROVE IInv'
<1>1. cmd # None /\ cmd.pc = "shutdown" /\ cmd \in Commands
  BY DEF Shutdown, Step, At, IInv, Typed
<1>2. UNCHANGED <<storage, host, state, setting, ghosts>>
  BY DEF Shutdown, kept
<1>3. Go("wait")
  BY DEF Shutdown, Step
<1>4. "wait" \in Places
  BY DEF Places
<1>5. Goes(cmd, cmd', "wait", cmd.replaced, cmd.refreshed, cmd.outcome)
  BY <1>1, <1>3, <1>4, Gone, Zenon DEF IInv
<1>6. cmd' # None
  BY <1>5, NoneIsNoCommand DEF Goes
<1>7. Typed'
  BY <1>1, <1>2, <1>5, TypesStay DEF IInv, Typed, Goes, storage
<1>8. Quiet'
  <2>1. registry'
    BY DEF Shutdown, Step, BeginShutdown
  <2> QED BY <1>5, <2>1 DEF Quiet, Goes
<1>9. (unowned \/ Owned)'
  BY <1>1, <1>2, <1>5, <1>6, OwnedStays DEF IInv, Goes
<1>10. HostKept'
  <2>1. Course'
    BY <1>1, <1>2, <1>5, HostIsTyped
       DEF Course, Goes, Untouched, Looking, Before, Refreshing, Replacing, Undoing, host
  <2> QED BY <1>1, <1>2, <1>5, <2>1, HostStays DEF Goes
<1>11. StoreKept'
  BY <1>1, <1>2, <1>5, StoreStays, HostIsTyped
     DEF IInv, Goes, Early, Looking, Restored, RestoreSteps, Course
<1> QED BY <1>7, <1>8, <1>9, <1>10, <1>11 DEF IInv

LEMMA WaitForSessionsKeeps == ASSUME IInv, WaitForSessions PROVE IInv'
<1>1. cmd # None /\ cmd.pc = "wait" /\ cmd \in Commands
  BY DEF WaitForSessions, Go, At, IInv, Typed
<1>2. UNCHANGED <<storage, host, state, setting, ghosts>>
  BY DEF WaitForSessions, kept
<1>3. PICK q \in {"retire", "cancel"} : Go(q) /\ (q = "retire" => Active = {})
  BY DEF WaitForSessions, Go
<1>4. q \in Places
  BY DEF Places
<1>5. Goes(cmd, cmd', q, cmd.replaced, cmd.refreshed, cmd.outcome)
  BY <1>1, <1>3, <1>4, Gone DEF IInv
<1>6. cmd' # None
  BY <1>5, NoneIsNoCommand DEF Goes
<1>7. Typed'
  BY <1>1, <1>2, <1>3, <1>5, TypesStay DEF IInv, Typed, Goes, storage
<1>8. Quiet'
  <2>1. UNCHANGED registry /\ Active' = Active
    BY DEF WaitForSessions, PruneMarkers, Active
  <2>2. cmd.kind = "upgrade" => registry
    BY <1>1 DEF IInv, Quiet
  <2> QED BY <1>3, <1>5, <2>1, <2>2 DEF Quiet, Goes
<1>9. (unowned \/ Owned)'
  BY <1>1, <1>2, <1>3, <1>5, <1>6, OwnedStays DEF IInv, Goes
<1>10. HostKept'
  <2>1. Course'
    BY <1>1, <1>2, <1>3, <1>5, HostIsTyped
       DEF Course, Goes, Untouched, Looking, Before, Refreshing, Replacing, Undoing, host
  <2> QED BY <1>1, <1>2, <1>3, <1>5, <2>1, HostStays DEF Goes
<1>11. StoreKept'
  BY <1>1, <1>2, <1>3, <1>5, StoreStays, HostIsTyped
     DEF IInv, Goes, Early, Looking, Restored, RestoreSteps, Course
<1> QED BY <1>7, <1>8, <1>9, <1>10, <1>11 DEF IInv

LEMMA FailedKeeps == ASSUME IInv, Failed PROVE IInv'
<1>1. cmd # None /\ cmd.pc = "failed" /\ cmd \in Commands
  BY DEF Failed, Step, At, IInv, Typed
<1>2. UNCHANGED <<storage, sessions, host, setting, ghosts>>
  BY DEF Failed, Step
<1>3. Go("end")
  BY DEF Failed, Step
<1>4. "end" \in Places
  BY DEF Places
<1>5. Goes(cmd, cmd', "end", cmd.replaced, cmd.refreshed, cmd.outcome)
  BY <1>1, <1>3, <1>4, Gone, Zenon DEF IInv
<1>12. state' \in States /\ state'.tracked = state.tracked
  BY <1>1 DEF Failed, Step, IInv, Typed, States
<1>6. cmd' # None
  BY <1>5, NoneIsNoCommand DEF Goes
<1>7. Typed'
  BY <1>1, <1>2, <1>5, <1>12, TypesStay DEF IInv, Typed, Goes, storage
<1>8. Quiet'
  BY <1>1, <1>2, <1>5, QuietStays DEF IInv, Goes
<1>9. (unowned \/ Owned)'
  BY <1>1, <1>2, <1>5, <1>6, <1>12, OwnedStays DEF IInv, Goes
<1>10. HostKept'
  <2>1. Course'
    BY <1>1, <1>2, <1>5, HostIsTyped
       DEF Course, Goes, Untouched, Looking, Before, Refreshing, Replacing, Undoing, host
  <2> QED BY <1>1, <1>2, <1>5, <2>1, HostStays DEF Goes
<1>11. StoreKept'
  BY <1>1, <1>2, <1>5, StoreStays, HostIsTyped
     DEF IInv, Goes, Early, Looking, Restored, RestoreSteps, Course
<1> QED BY <1>7, <1>8, <1>9, <1>10, <1>11 DEF IInv

LEMMA ProbeHostKeeps == ASSUME IInv, ProbeHost PROVE IInv'
<1>1. cmd # None /\ cmd.pc = "probe" /\ cmd \in Commands
  BY DEF ProbeHost, Step, Throw, At, IInv, Typed
<1>2. UNCHANGED <<storage, sessions, host, setting, ghosts>>
  BY DEF ProbeHost, Step
<1>3. PICK q \in {"flag", "end"} : Go(q)
  BY DEF ProbeHost, Step, Throw
<1>4. q \in Places
  BY DEF Places
<1>5. Goes(cmd, cmd', q, cmd.replaced, cmd.refreshed, cmd.outcome)
  BY <1>1, <1>3, <1>4, Gone DEF IInv
<1>12. state' \in States /\ state'.tracked = state.tracked
  BY <1>1 DEF ProbeHost, Step, Throw, IInv, Typed, States
<1>6. cmd' # None
  BY <1>5, NoneIsNoCommand DEF Goes
<1>7. Typed'
  BY <1>1, <1>2, <1>5, <1>12, TypesStay DEF IInv, Typed, Goes, storage
<1>8. Quiet'
  BY <1>1, <1>2, <1>3, <1>5, QuietStays DEF IInv, Goes
<1>9. (unowned \/ Owned)'
  BY <1>1, <1>2, <1>5, <1>6, <1>12, OwnedStays DEF IInv, Goes
<1>10. HostKept'
  <2>1. Course'
    BY <1>1, <1>2, <1>3, <1>5, HostIsTyped
       DEF Course, Goes, Untouched, Looking, Before, Refreshing, Replacing, Undoing, host
  <2> QED BY <1>1, <1>2, <1>3, <1>5, <2>1, HostStays DEF Goes
<1>11. StoreKept'
  BY <1>1, <1>2, <1>3, <1>5, StoreStays, HostIsTyped
     DEF IInv, Goes, Early, Looking, Restored, RestoreSteps, Course
<1> QED BY <1>7, <1>8, <1>9, <1>10, <1>11 DEF IInv
-------------------------------------------------------------------------------
(* A command begins or ends *)

\* A command that was just given
Fresh(c, k, q) ==
    /\ c \in Commands /\ c.kind = k /\ c.pc = q /\ c.reg = Registration /\ c.before = state
    /\ c.snapshot = None /\ ~ c.replaced /\ ~ c.refreshed /\ c.outcome = "none"

LEMMA Begun ==
    ASSUME Typed, NEW k \in {"install", "upgrade", "enable", "disable", "uninstall"},
           NEW q \in Places
    PROVE  Fresh(Command(k, q), k, q)
<1> DEFINE no == FALSE
           none == "none"
<1>1. Registration \in Registrations /\ state \in States /\ no \in BOOLEAN /\ none \in Outcomes
  BY DEF Typed, Registration, Registrations, Outcomes
<1>2. Command(k, q) = [kind |-> k, pc |-> q, reg |-> Registration, before |-> state,
                       snapshot |-> None, migrated |-> None, replaced |-> no,
                       refreshed |-> no, follow |-> no, outcome |-> none]
  BY DEF Command
<1> HIDE DEF no, none
<1>3. ASSUME NEW d, d = [kind |-> k, pc |-> q, reg |-> Registration, before |-> state,
                         snapshot |-> None, migrated |-> None, replaced |-> no,
                         refreshed |-> no, follow |-> no, outcome |-> none]
      PROVE  /\ d \in Commands /\ d.kind = k /\ d.pc = q /\ d.reg = Registration /\ d.before = state
             /\ d.snapshot = None /\ d.replaced = no /\ d.refreshed = no /\ d.outcome = none
  BY <1>1, <1>3 DEF Commands, Outcomes
<1>4. /\ Command(k, q) \in Commands /\ Command(k, q).kind = k /\ Command(k, q).pc = q
      /\ Command(k, q).reg = Registration /\ Command(k, q).before = state
      /\ Command(k, q).snapshot = None /\ Command(k, q).replaced = no
      /\ Command(k, q).refreshed = no /\ Command(k, q).outcome = none
  BY <1>2, <1>3, Zenon
<1> QED BY <1>4 DEF Fresh, no, none

LEMMA Followed ==
    ASSUME NEW c, NEW k, NEW q, Fresh(c, k, q), NEW f \in BOOLEAN, NEW d, d = [c EXCEPT !.follow = f]
    PROVE  Fresh(d, k, q)
BY DEF Fresh, Commands

LEMMA NewCommandKeeps ==
    ASSUME IInv, ~ At("saveFlag"), NEW k, NEW q \in {"open", "drain", "flag", "unflag", "remove"},
           Fresh(cmd', k, q), k = "upgrade" <=> q = "drain",
           UNCHANGED <<storage, host, state, setting, ghosts>>
    PROVE  IInv'
<1>1. /\ cmd' \in Commands /\ cmd' # None /\ cmd'.pc = q /\ cmd'.kind = k
      /\ cmd'.reg = Registration /\ cmd'.before = state /\ cmd'.snapshot = None
      /\ ~ cmd'.replaced /\ ~ cmd'.refreshed /\ cmd'.outcome = "none"
  BY NoneIsNoCommand DEF Fresh
<1>2. Typed'
  BY <1>1, TypesStay DEF IInv, Typed, storage
<1>3. Quiet'
  BY <1>1 DEF Quiet
<1>4. (unowned \/ Owned)'
  BY <1>1 DEF IInv, Owned, Holds, At, ghosts
<1>5. Registration = [market |-> market, plugin |-> plugin, enabled |-> enabled]
  BY DEF Registration
<1>6. HostKept'
  <2>1. UNCHANGED <<market, plugin, enabled>> /\ Registered(market, plugin, enabled)
    BY DEF host, IInv, HostKept
  <2>2. cmd'.reg.market = market /\ cmd'.reg.plugin = plugin /\ cmd'.reg.enabled = enabled
    BY <1>1, <1>5
  <2>3. Course'
    BY <1>1, <2>1, <2>2 DEF Course, Untouched, Looking, Before, Refreshing, Replacing, Undoing
  <2> QED BY <2>1, <2>2, <2>3 DEF HostKept
<1>7. StoreKept'
  <2>1. JournalIsSafe'
    BY DEF IInv, StoreKept, JournalIsSafe, storage
  <2>2. Restoring'
    BY <1>1 DEF Restoring, Looking, Early, Restored, RestoreSteps
  <2> QED BY <2>1, <2>2 DEF StoreKept
<1> QED BY <1>2, <1>3, <1>4, <1>6, <1>7 DEF IInv

LEMMA NoCommandKeeps ==
    ASSUME IInv, cmd' = None, UNCHANGED <<storage, host, state, setting, wish>>,
           unowned' \in BOOLEAN, unowned => unowned',
           unowned' \/ ~ (At("saveFlag") /\ state.tracked = None /\ cmd.before.tracked.managed)
    PROVE  IInv'
<1>1. Typed'
  BY DEF IInv, Typed, storage, host
<1>2. Quiet'
  BY DEF Quiet
<1>3. (unowned \/ Owned)'
  <2>1. CASE unowned'
    BY <2>1
  <2>2. ASSUME ~ unowned' PROVE Owned'
    <3>1. Owned /\ ~ (At("saveFlag") /\ state.tracked = None /\ cmd.before.tracked.managed)
      BY <2>2 DEF IInv
    <3>2. setting \in BOOLEAN /\ wish \in BOOLEAN
      BY DEF IInv, Typed
    <3>3. state.tracked = None => setting = wish
      BY <3>1, <3>2 DEF Owned, Holds
    <3>4. Holds(state.tracked)'
      BY <3>1 DEF Owned, Holds
    <3> QED BY <3>3, <3>4 DEF Owned, At
  <2> QED BY <2>1, <2>2
<1>4. HostKept'
  BY DEF IInv, HostKept, Registered, host
<1>5. StoreKept'
  BY DEF IInv, StoreKept, JournalIsSafe, storage
<1> QED BY <1>1, <1>2, <1>3, <1>4, <1>5 DEF IInv

LEMMA EndKeeps == ASSUME IInv, End PROVE IInv'
<1>1. cmd' = None /\ UNCHANGED <<storage, host, state, setting, wish, unowned>> /\ cmd.pc = "end"
  BY DEF End, At, kept, ghosts
<1>2. ~ At("saveFlag")
  BY <1>1 DEF At
<1> QED BY <1>1, <1>2, NoCommandKeeps DEF IInv, Typed

LEMMA CrashKeeps == ASSUME IInv, Crash PROVE IInv'
<1>1. /\ cmd' = None /\ UNCHANGED <<storage, host, state, setting, wish>>
      /\ unowned' = (unowned \/ (At("saveFlag") /\ state.tracked = None /\ cmd.before.tracked.managed))
  BY DEF Crash, kept
<1>2. unowned' \in BOOLEAN
  BY <1>1 DEF IInv, Typed
<1> QED BY <1>1, <1>2, NoCommandKeeps

LEMMA BeginKeeps == ASSUME IInv, NEW kind \in Kinds, Begin(kind) PROVE IInv'
<1>1. cmd = None /\ UNCHANGED <<storage, host, state, setting, ghosts>>
  BY DEF Begin, kept
<1>2. ~ At("saveFlag")
  BY <1>1 DEF At
<1>3. \E k \in {"install", "upgrade", "enable", "disable", "uninstall"},
         q \in {"open", "drain", "flag", "unflag", "remove"} :
         /\ k = "upgrade" <=> q = "drain"
         /\ cmd' = Command(k, q) \/ \E f \in BOOLEAN : cmd' = [Command(k, q) EXCEPT !.follow = f]
  BY DEF Begin
<1>4. PICK k \in {"install", "upgrade", "enable", "disable", "uninstall"},
           q \in {"open", "drain", "flag", "unflag", "remove"} :
         /\ k = "upgrade" <=> q = "drain"
         /\ cmd' = Command(k, q) \/ \E f \in BOOLEAN : cmd' = [Command(k, q) EXCEPT !.follow = f]
  BY <1>3, Zenon
<1>5. q \in Places
  BY <1>4 DEF Places
<1>6. Fresh(Command(k, q), k, q)
  BY <1>4, <1>5, Begun DEF IInv
<1>7. Fresh(cmd', k, q)
  BY <1>4, <1>6, Followed, Zenon
<1> QED BY <1>1, <1>2, <1>4, <1>7, NewCommandKeeps

LEMMA CancelMaintenanceKeeps == ASSUME IInv, CancelMaintenance PROVE IInv'
<1>1. cmd # None /\ cmd.pc = "cancel" /\ cmd \in Commands
  BY DEF CancelMaintenance, At, IInv, Typed
<1>2. UNCHANGED <<storage, host, state, setting, ghosts>>
  BY DEF CancelMaintenance, kept
<1>3. CASE cmd' = [Command("enable", "flag") EXCEPT !.follow = TRUE]
  <2>1. PICK k, q, f : k = "enable" /\ q = "flag" /\ f = TRUE /\ cmd' = [Command(k, q) EXCEPT !.follow = f]
    BY <1>3, Zenon
  <2>2. q \in Places /\ f \in BOOLEAN
    BY <2>1 DEF Places
  <2>3. Fresh(Command(k, q), k, q)
    BY <2>1, <2>2, Begun DEF IInv
  <2>4. Fresh(cmd', k, q)
    BY <2>1, <2>2, <2>3, Followed, Zenon
  <2>5. ~ At("saveFlag")
    BY <1>1 DEF At
  <2> QED BY <1>2, <2>1, <2>4, <2>5, NewCommandKeeps
<1>4. CASE cmd' = [cmd EXCEPT !.pc = "end"]
  <2>1. Goes(cmd, cmd', "end", cmd.replaced, cmd.refreshed, cmd.outcome)
    <3>1. "end" \in Places
      BY DEF Places
    <3> QED BY <1>1, <1>4, <3>1, Going, Zenon
  <2>2. cmd' # None
    BY <2>1, NoneIsNoCommand DEF Goes
  <2>3. Typed'
    BY <1>1, <1>2, <2>1, TypesStay DEF IInv, Typed, Goes, storage
  <2>4. Quiet'
    BY <2>1 DEF Quiet, Goes
  <2>5. (unowned \/ Owned)'
    BY <1>1, <1>2, <2>1, <2>2, OwnedStays DEF IInv, Goes
  <2>6. HostKept'
    <3>1. Course'
      BY <1>1, <1>2, <2>1, HostIsTyped
         DEF Course, Goes, Untouched, Looking, Before, Refreshing, Replacing, Undoing,
             host
    <3> QED BY <1>1, <1>2, <2>1, <3>1, HostStays DEF Goes
  <2>7. StoreKept'
    BY <1>1, <1>2, <2>1, StoreStays, HostIsTyped
       DEF IInv, Goes, Early, Looking, Restored, RestoreSteps, Course
  <2> QED BY <2>3, <2>4, <2>5, <2>6, <2>7 DEF IInv
<1> QED BY <1>3, <1>4 DEF CancelMaintenance
-------------------------------------------------------------------------------
(* Snapshot, migration and restore *)

LEMMA InspectKeeps == ASSUME IInv, Inspect PROVE IInv'
<1>1. cmd # None /\ cmd.pc = "inspect" /\ cmd \in Commands
  BY DEF Inspect, Throw, At, IInv, Typed
<1>2. UNCHANGED <<storage, sessions, host, state, setting, ghosts>>
  BY DEF Inspect, kept
<1>3. CASE cmd' = [cmd EXCEPT !.pc = "open", !.reg = Registration, !.before = state,
                              !.snapshot = IF NeedsMigration THEN db ELSE None]
  <2>1. PICK q, reg, snapshot :
           /\ q = "open" /\ reg = Registration /\ snapshot = IF NeedsMigration THEN db ELSE None
           /\ cmd' = [cmd EXCEPT !.pc = q, !.reg = reg, !.before = state, !.snapshot = snapshot]
    BY <1>3, Zenon
  <2>2. /\ q \in Places /\ reg \in Registrations /\ snapshot \in Contents \cup {None}
        /\ state \in States
    BY <2>1 DEF Places, Registration, Registrations, IInv, Typed
  <2>3. ASSUME NEW d, d = [cmd EXCEPT !.pc = q, !.reg = reg, !.before = state, !.snapshot = snapshot]
        PROVE  /\ d \in Commands /\ d.pc = q /\ d.kind = cmd.kind /\ d.reg = reg /\ d.before = state
               /\ d.snapshot = snapshot /\ d.replaced = cmd.replaced
               /\ d.refreshed = cmd.refreshed /\ d.outcome = cmd.outcome
    BY <1>1, <2>2, <2>3 DEF Commands
  <2>4. /\ cmd' \in Commands /\ cmd'.pc = "open" /\ cmd'.kind = cmd.kind
        /\ cmd'.reg = Registration /\ cmd'.before = state /\ cmd'.snapshot = snapshot
        /\ cmd'.replaced = cmd.replaced /\ cmd'.refreshed = cmd.refreshed
        /\ cmd'.outcome = cmd.outcome
    BY <2>1, <2>3, Zenon
  <2>5. cmd' # None
    BY <2>4, NoneIsNoCommand
  <2>6. Typed'
    BY <1>2, <2>4, TypesStay DEF IInv, Typed, storage
  <2>7. Quiet'
    BY <1>1, <1>2, <2>4, QuietStays DEF IInv
  <2>8. (unowned \/ Owned)'
    BY <1>1, <1>2, <2>4 DEF IInv, Owned, Holds, At, ghosts
  <2>9. HostKept'
    <3>1. UNCHANGED <<market, plugin, enabled>> /\ Registered(market, plugin, enabled)
      BY <1>2 DEF host, IInv, HostKept
    <3>2. cmd'.reg.market = market /\ cmd'.reg.plugin = plugin /\ cmd'.reg.enabled = enabled
      BY <2>4 DEF Registration
    <3>3. Course /\ ~ cmd.replaced /\ ~ cmd.refreshed
      BY <1>1, HostIsTyped DEF Course, Looking
    <3>4. Course'
      BY <1>1, <2>4, <3>1, <3>2, <3>3
         DEF Course, Untouched, Looking, Before, Refreshing, Replacing, Undoing
    <3> QED BY <3>1, <3>2, <3>4 DEF HostKept
  <2>10. StoreKept'
    <3>1. JournalIsSafe'
      BY <1>2 DEF IInv, StoreKept, JournalIsSafe, storage
    <3>2. cmd.kind = "upgrade" /\ cmd.outcome # "restored"
      BY <1>1, HostIsTyped DEF IInv, StoreKept, Restoring, Looking, Course
    <3>3. UNCHANGED db /\ (snapshot # None => db = snapshot /\ snapshot.schema = "old")
      BY <1>2, <2>1 DEF NeedsMigration, storage
    <3>4. Restoring'
      BY <2>4, <3>2, <3>3 DEF Restoring, Looking, Early, Restored, RestoreSteps
    <3> QED BY <3>1, <3>4 DEF StoreKept
  <2> QED BY <2>6, <2>7, <2>8, <2>9, <2>10 DEF IInv
<1>4. CASE Go("cancel")
  BY <1>1, <1>2, <1>4, GivingUpKeeps DEF Early
<1> QED BY <1>3, <1>4 DEF Inspect, Throw

LEMMA OpenStoreKeeps == ASSUME IInv, OpenStore PROVE IInv'
<1>1. cmd # None /\ cmd.pc = "open" /\ cmd \in Commands
  BY DEF OpenStore, At, IInv, Typed
<1>2. UNCHANGED <<lock, generation, sessions, host, state, setting, ghosts>>
  BY DEF OpenStore
<1>3. CASE UNCHANGED db /\ Go(IF cmd.kind = "upgrade" THEN "cancel" ELSE "end")
  <2>1. CASE Go("cancel")
    BY <1>1, <1>2, <1>3, <2>1, GivingUpKeeps DEF Early, storage
  <2>2. CASE Go("end")
    BY <1>1, <1>2, <1>3, <2>2, GivingUpKeeps DEF Early, storage
  <2> QED BY <1>3, <2>1, <2>2
<1>4. ASSUME MayOpen, db' = Opened, NEW q \in {"mark", "probe"}, Go(q), cmd.kind = "upgrade" <=> q = "mark"
      PROVE  IInv'
  <2>1. q \in Places
    BY DEF Places
  <2>2. Goes(cmd, cmd', q, cmd.replaced, cmd.refreshed, cmd.outcome)
    BY <1>1, <1>4, <2>1, Gone DEF IInv
  <2>3. cmd' # None
    BY <2>2, NoneIsNoCommand DEF Goes
  <2>4. /\ lock = None /\ db' \in Contents
        /\ db # None => db'.rows = db.rows
    BY <1>4 DEF MayOpen, NoJournal, Opened, Contents, IInv, Typed
  <2>5. Typed'
    BY <1>2, <2>2, <2>4, TypesStay DEF IInv, Typed, Goes
  <2>6. Quiet'
    BY <1>1, <1>2, <2>2, QuietStays DEF IInv, Goes
  <2>7. (unowned \/ Owned)'
    BY <1>1, <1>2, <2>2, <2>3, OwnedStays DEF IInv, Goes
  <2>8. HostKept'
    <3>1. Course'
      BY <1>1, <1>2, <1>4, <2>2, HostIsTyped
         DEF Course, Goes, Untouched, Looking, Before, Refreshing, Replacing, Undoing, host
    <3> QED BY <1>1, <1>2, <2>2, <3>1, HostStays DEF Goes
  <2>9. StoreKept'
    <3>1. JournalIsSafe'
      BY <1>2, <2>4 DEF JournalIsSafe
    <3>2. Restoring /\ cmd.outcome # "restored"
      BY <1>1, HostIsTyped DEF IInv, StoreKept, Course
    <3>3. db' # None
      BY <2>4, NoneIsNoJournal
    <3>4. Restoring'
      BY <1>1, <1>2, <1>4, <2>2, <2>4, <3>2, <3>3
         DEF Restoring, Goes, Looking, Early, Restored, RestoreSteps
    <3> QED BY <3>1, <3>4 DEF StoreKept
  <2> QED BY <2>5, <2>6, <2>7, <2>8, <2>9 DEF IInv
<1>5. CASE cmd.kind = "upgrade"
  BY <1>3, <1>4, <1>5 DEF OpenStore
<1>6. CASE cmd.kind # "upgrade"
  BY <1>3, <1>4, <1>6 DEF OpenStore
<1> QED BY <1>5, <1>6

LEMMA DigestKeeps == ASSUME IInv, Digest PROVE IInv'
<1>1. cmd # None /\ cmd.pc = "digest" /\ cmd \in Commands
  BY DEF Digest, At, IInv, Typed
<1>2. UNCHANGED <<storage, sessions, host, state, setting, ghosts>>
  BY DEF Digest, kept
<1>3. PICK q : q = "refreshMarket" /\ cmd' = [cmd EXCEPT !.pc = q, !.migrated = db]
  BY DEF Digest
<1>4. q \in Places /\ db \in Contents \cup {None}
  BY <1>3 DEF Places, IInv, Typed
<1>5. ASSUME NEW d, d = [cmd EXCEPT !.pc = q, !.migrated = db]
      PROVE  /\ d \in Commands /\ d.pc = q /\ d.kind = cmd.kind /\ d.reg = cmd.reg
             /\ d.before = cmd.before /\ d.snapshot = cmd.snapshot /\ d.migrated = db
             /\ d.replaced = cmd.replaced /\ d.refreshed = cmd.refreshed /\ d.outcome = cmd.outcome
  BY <1>1, <1>4, <1>5 DEF Commands
<1>6. /\ cmd' \in Commands /\ cmd'.pc = "refreshMarket" /\ cmd'.kind = cmd.kind
      /\ cmd'.reg = cmd.reg /\ cmd'.before = cmd.before /\ cmd'.snapshot = cmd.snapshot
      /\ cmd'.migrated = db /\ cmd'.replaced = cmd.replaced
      /\ cmd'.refreshed = cmd.refreshed /\ cmd'.outcome = cmd.outcome
  BY <1>3, <1>5, Zenon
<1>7. cmd' # None
  BY <1>6, NoneIsNoCommand
<1>8. Typed'
  BY <1>2, <1>6, TypesStay DEF IInv, Typed, storage
<1>9. Quiet'
  BY <1>1, <1>2, <1>6, QuietStays DEF IInv
<1>10. (unowned \/ Owned)'
  BY <1>1, <1>2, <1>6, <1>7, OwnedStays DEF IInv
<1>11. HostKept'
  <2>1. Course'
    BY <1>1, <1>2, <1>6, HostIsTyped
       DEF Course, Untouched, Looking, Before, Refreshing, Replacing, Undoing, host
  <2> QED BY <1>1, <1>2, <1>6, <2>1, HostStays
<1>12. StoreKept'
  <2>1. JournalIsSafe'
    BY <1>2 DEF IInv, StoreKept, JournalIsSafe, storage
  <2>2. Restoring /\ cmd.outcome # "restored"
    BY <1>1, HostIsTyped DEF IInv, StoreKept, Course
  <2>3. Restoring'
    BY <1>1, <1>2, <1>6, <2>2
       DEF Restoring, Looking, Early, Restored, RestoreSteps, storage
  <2> QED BY <2>1, <2>3 DEF StoreKept
<1> QED BY <1>8, <1>9, <1>10, <1>11, <1>12 DEF IInv
-------------------------------------------------------------------------------
(* The end of an upgrade *)

\* Every end of an upgrade leaves the setting's ownership as it is; one that
\* says that it restored comes out of Restate.
LEMMA FinishingKeeps ==
    ASSUME IInv, cmd # None, NEW o \in Outcomes,
           cmd' = [cmd EXCEPT !.pc = "cancel", !.outcome = o],
           cmd.pc \in {"locate", "compare", "unrestored", "restate"},
           o = "restored" <=> cmd.pc = "restate", o = "restored" => state' = cmd.before,
           UNCHANGED <<storage, sessions, host, setting, ghosts>>, state' \in States,
           unowned \/ state'.tracked = state.tracked
    PROVE  IInv'
<1>1. cmd \in Commands /\ Course
  BY HostIsTyped DEF IInv, Typed
<1>2. Goes(cmd, cmd', "cancel", cmd.replaced, cmd.refreshed, o)
  <2>1. "cancel" \in Places
    BY DEF Places
  <2> QED BY <1>1, <2>1, Ending, Zenon
<1>3. cmd' # None
  BY <1>2, NoneIsNoCommand DEF Goes
<1>4. Typed'
  BY <1>2, TypesStay DEF IInv, Typed, Goes, storage
<1>5. Quiet'
  BY <1>2, QuietStays DEF IInv, Goes
<1>6. (unowned \/ Owned)'
  <2>1. CASE unowned
    BY <2>1 DEF ghosts
  <2>2. CASE ~ unowned
    BY <1>2, <1>3, <2>2, OwnedStays DEF IInv, Goes
  <2> QED BY <2>1, <2>2
<1>7. HostKept'
  <2>1. Course'
    BY <1>1, <1>2, HostIsTyped
       DEF Course, Goes, Untouched, Looking, Before, Refreshing, Replacing, Undoing, host
  <2> QED BY <1>1, <1>2, <2>1, HostStays DEF Goes
<1>8. StoreKept'
  BY <1>2, StoreStays DEF IInv, Goes, Early, Looking, Restored, RestoreSteps
<1> QED BY <1>4, <1>5, <1>6, <1>7, <1>8 DEF IInv

\* The adapter state with the capabilities paused tracks what it tracked.
LEMMA PausedIsAState ==
    ASSUME IInv, cmd # None, cmd.pc \notin {"saveFlag", "end", "unlocate"},
           NEW n \in {"review", "incomplete"}
    PROVE  Paused(n) \in States /\ (unowned \/ Paused(n).tracked = state.tracked)
<1>1. cmd \in Commands
  BY DEF IInv, Typed
<1>2. cmd.before \in States
  BY <1>1 DEF Commands
<1>3. Paused(n) \in States /\ Paused(n).tracked = cmd.before.tracked
  BY <1>2 DEF Paused, States
<1>4. unowned \/ cmd.before.tracked = state.tracked
  BY DEF IInv, Owned
<1> QED BY <1>3, <1>4

LEMMA LocateKeeps == ASSUME IInv, Locate PROVE IInv'
<1>1. cmd # None /\ cmd.pc = "locate"
  BY DEF Locate, Throw, At
<1>2. UNCHANGED <<storage, sessions, host, state, setting, ghosts>> /\ state \in States
  BY DEF Locate, IInv, Typed
<1>3. CASE cmd' = [cmd EXCEPT !.pc = "cancel", !.outcome = "changed"]
  <2>1. PICK o : o = "changed" /\ cmd' = [cmd EXCEPT !.pc = "cancel", !.outcome = o]
    BY <1>3, Zenon
  <2>2. o \in Outcomes /\ o # "restored"
    BY <2>1 DEF Outcomes
  <2> QED BY <1>1, <1>2, <2>1, <2>2, FinishingKeeps
<1>4. CASE Go("catch")
  <2>1. cmd.replaced \/ cmd.refreshed
    BY <1>1, HostIsTyped DEF IInv, Typed, Course
  <2> QED BY <1>1, <1>2, <1>4, <2>1, GivingUpKeeps DEF Early
<1> QED BY <1>3, <1>4 DEF Locate, Throw

LEMMA UnrestoredKeeps == ASSUME IInv, Unrestored PROVE IInv'
<1>1. cmd # None /\ cmd.pc = "unrestored"
  BY DEF Unrestored, At
<1>2. UNCHANGED <<storage, sessions, host, setting, ghosts>>
  BY DEF Unrestored
<1>3. state' \in States /\ (unowned \/ state'.tracked = state.tracked)
  <2>1. CASE cmd.snapshot = None
    BY <2>1 DEF Unrestored, IInv, Typed
  <2>2. CASE cmd.snapshot # None
    BY <1>1, <2>2, PausedIsAState DEF Unrestored
  <2> QED BY <2>1, <2>2
<1>4. PICK o : o = "broken" /\ cmd' = [cmd EXCEPT !.pc = "cancel", !.outcome = o]
  BY DEF Unrestored
<1>5. o \in Outcomes /\ o # "restored"
  BY <1>4 DEF Outcomes
<1> QED BY <1>1, <1>2, <1>3, <1>4, <1>5, FinishingKeeps

LEMMA RestateKeeps == ASSUME IInv, Restate PROVE IInv'
<1>1. cmd # None /\ cmd.pc = "restate" /\ cmd \in Commands
  BY DEF Restate, At, IInv, Typed
<1>2. UNCHANGED <<storage, sessions, host, setting, ghosts>> /\ state' = cmd.before
  BY DEF Restate
<1>3. state' \in States /\ (unowned \/ state'.tracked = state.tracked)
  BY <1>1, <1>2 DEF Commands, IInv, Owned
<1>4. PICK o : o = "restored" /\ cmd' = [cmd EXCEPT !.pc = "cancel", !.outcome = o]
  BY DEF Restate
<1>5. o \in Outcomes
  BY <1>4 DEF Outcomes
<1> QED BY <1>1, <1>2, <1>3, <1>4, <1>5, FinishingKeeps

LEMMA SaveKeeps == ASSUME IInv, Save PROVE IInv'
<1>1. cmd # None /\ cmd.pc = "save" /\ cmd \in Commands
  BY DEF Save, Step, At, IInv, Typed
<1>2. UNCHANGED <<storage, sessions, host, setting, ghosts>>
  BY DEF Save, Step
<1>3. PICK q \in {"locate", "end"} : Go(q) /\ (q = "locate" => cmd.kind = "upgrade")
  <2>1. CASE cmd.kind = "upgrade"
    BY <2>1 DEF Save, Step
  <2>2. CASE cmd.kind # "upgrade"
    BY <2>2 DEF Save, Step
  <2> QED BY <2>1, <2>2
<1>4. q \in Places
  BY DEF Places
<1>5. Goes(cmd, cmd', q, cmd.replaced, cmd.refreshed, cmd.outcome)
  BY <1>1, <1>3, <1>4, Gone DEF IInv
<1>12. state' \in States /\ state'.tracked = state.tracked
  <2>1. state \in States /\ state' = Saved
    BY DEF Save, Step, IInv, Typed
  <2>2. CASE cmd.kind = "upgrade"
    BY <2>1, <2>2 DEF Saved, States
  <2>3. CASE cmd.kind = "install"
    BY <2>1, <2>3 DEF Saved, States
  <2>4. CASE cmd.kind \notin {"upgrade", "install"} /\ cmd.follow
    BY <2>1, <2>4 DEF Saved, States
  <2>5. CASE cmd.kind \notin {"upgrade", "install"} /\ ~ cmd.follow
    BY <2>1, <2>5 DEF Saved, States, Capabilities
  <2> QED BY <2>2, <2>3, <2>4, <2>5
<1>6. cmd' # None
  BY <1>5, NoneIsNoCommand DEF Goes
<1>7. Typed'
  BY <1>1, <1>2, <1>5, <1>12, TypesStay DEF IInv, Typed, Goes, storage
<1>8. Quiet'
  BY <1>1, <1>2, <1>3, <1>5, QuietStays DEF IInv, Goes
<1>9. (unowned \/ Owned)'
  BY <1>1, <1>2, <1>5, <1>6, <1>12, OwnedStays DEF IInv, Goes
<1>10. HostKept'
  <2>1. Course'
    BY <1>1, <1>2, <1>3, <1>5, HostIsTyped
       DEF Course, Goes, Untouched, Looking, Before, Refreshing, Replacing, Undoing, host
  <2> QED BY <1>1, <1>2, <1>3, <1>5, <2>1, HostStays DEF Goes
<1>11. StoreKept'
  BY <1>1, <1>2, <1>3, <1>5, StoreStays, HostIsTyped
     DEF IInv, Goes, Early, Looking, Restored, RestoreSteps, Course
<1> QED BY <1>7, <1>8, <1>9, <1>10, <1>11 DEF IInv
-------------------------------------------------------------------------------
(* The restore of the snapshot *)

\* A step of the undoing that leaves alone all but the database and its journal
LEMMA UndoingKeeps ==
    ASSUME IInv, cmd \in Commands, NEW q \in Undoing \cup {"unplug", "restate", "unrestored"},
           Goes(cmd, cmd', q, cmd.replaced, cmd.refreshed, cmd.outcome),
           cmd.pc \in Undoing, q = "restate" => ~ cmd.replaced,
           UNCHANGED <<sessions, host, state, setting, ghosts>>,
           db' \in Contents \cup {None}, lock' \in Journals \cup {None},
           JournalIsSafe', Restoring'
    PROVE  IInv'
<1>1. cmd # None /\ cmd' # None /\ Course
  BY HostIsTyped, NoneIsNoCommand DEF Goes
<1>2. Typed'
  BY TypesStay DEF IInv, Typed, Goes
<1>3. Quiet'
  BY <1>1, QuietStays DEF IInv, Goes, Undoing
<1>4. (unowned \/ Owned)'
  BY <1>1, OwnedStays DEF IInv, Goes, Undoing
<1>5. HostKept'
  <2>1. Course'
    BY <1>1, HostIsTyped
       DEF Course, Goes, Untouched, Looking, Before, Refreshing, Replacing, Undoing, host
  <2> QED BY <2>1, HostStays DEF Goes
<1> QED BY <1>1, <1>2, <1>3, <1>4, <1>5 DEF IInv, StoreKept

\* What is known while a restore is under way
LEMMA RestoreIsKnown ==
    ASSUME IInv, cmd \in Commands, cmd.pc \in Undoing
    PROVE  /\ cmd # None /\ Restoring /\ JournalIsSafe /\ cmd.outcome # "restored"
           /\ db \in Contents \cup {None} /\ lock \in Journals \cup {None}
           /\ cmd.snapshot \in Contents \cup {None}
<1>1. cmd # None
  BY NoneIsNoCommand
<1>2. cmd.snapshot \in Contents \cup {None}
  BY DEF Commands
<1> QED BY <1>1, <1>2 DEF IInv, StoreKept, HostKept, Course, Typed, Undoing

LEMMA CompareKeeps == ASSUME IInv, Compare PROVE IInv'
<1>1. cmd # None /\ cmd.pc = "compare" /\ cmd \in Commands /\ cmd.pc \in Undoing
  BY DEF Compare, At, IInv, Typed, Undoing
<1>2. UNCHANGED <<storage, sessions, host, setting, ghosts>>
  BY DEF Compare
<1>3. CASE cmd.snapshot # None /\ db # cmd.migrated
  <2>1. state' = Paused("review")
    BY <1>3 DEF Compare
  <2>2. state' \in States /\ (unowned \/ state'.tracked = state.tracked)
    BY <1>1, <2>1, PausedIsAState
  <2>3. PICK o : o = "review" /\ cmd' = [cmd EXCEPT !.pc = "cancel", !.outcome = o]
    BY <1>3 DEF Compare
  <2>4. o \in Outcomes /\ o # "restored"
    BY <2>3 DEF Outcomes
  <2> QED BY <1>1, <1>2, <2>2, <2>3, <2>4, FinishingKeeps
<1>4. CASE ~ (cmd.snapshot # None /\ db # cmd.migrated)
  <2>1. PICK q \in {"lock", "unplug", "restate"} :
           /\ Go(q) /\ UNCHANGED state
           /\ q = "lock" <=> cmd.snapshot # None
           /\ q = "restate" => ~ cmd.replaced
    <3>1. CASE cmd.snapshot = None
      BY <1>4, <3>1 DEF Compare, Reregister
    <3>2. CASE cmd.snapshot # None
      BY <1>4, <3>2 DEF Compare
    <3> QED BY <3>1, <3>2
  <2>2. q \in Places /\ q \in Undoing \cup {"unplug", "restate", "unrestored"}
    BY DEF Places, Undoing
  <2>3. Goes(cmd, cmd', q, cmd.replaced, cmd.refreshed, cmd.outcome)
    BY <1>1, <2>1, <2>2, Gone DEF IInv
  <2>4. JournalIsSafe' /\ db' \in Contents \cup {None} /\ lock' \in Journals \cup {None}
    BY <1>1, <1>2, RestoreIsKnown DEF JournalIsSafe, storage
  <2>5. Restoring'
    BY <1>1, <1>2, <2>1, <2>3, RestoreIsKnown
       DEF Restoring, Goes, Looking, Early, Restored, RestoreSteps, storage
  <2> QED BY <1>1, <1>2, <2>1, <2>2, <2>3, <2>4, <2>5, UndoingKeeps
<1> QED BY <1>3, <1>4

LEMMA StartRestoreKeeps == ASSUME IInv, StartRestore PROVE IInv'
<1>1. cmd # None /\ cmd.pc = "lock" /\ cmd \in Commands /\ cmd.pc \in Undoing
  BY DEF StartRestore, RestoreStep, Step, Throw, At, IInv, Typed, Undoing
<1>2. UNCHANGED <<sessions, host, state, setting, ghosts>>
  BY DEF StartRestore, RestoreStep, kept
<1>3. cmd.snapshot # None /\ cmd.snapshot \in Contents
  BY <1>1, RestoreIsKnown DEF Restoring, RestoreSteps
<1>4. ASSUME NEW q \in {"guard"}, Go(q), q = "restate" => ~ cmd.replaced,
             TakeLock
      PROVE  IInv'
  <2>1. q \in Places /\ q \in Undoing \cup {"unplug", "restate", "unrestored"}
    BY DEF Places, Undoing
  <2>2. Goes(cmd, cmd', q, cmd.replaced, cmd.refreshed, cmd.outcome)
    BY <1>1, <1>4, <2>1, Gone DEF IInv
  <2>3. /\ lock' \in Journals /\ lock' # None /\ lock'.phase = "preparing"
        /\ UNCHANGED db
    BY <1>1, <1>3, <1>4, RestoreIsKnown, NoneIsNoJournal DEF TakeLock, Journals
  <2>4. JournalIsSafe'
    BY <1>1, <1>3, <2>3, RestoreIsKnown DEF JournalIsSafe
  <2>5. Restoring'
    BY <1>1, <1>3, <2>2, <2>3, RestoreIsKnown
       DEF Restoring, Goes, Looking, Early, Restored, RestoreSteps
  <2> QED BY <1>1, <1>2, <1>4, <2>1, <2>2, <2>3, <2>4, <2>5, RestoreIsKnown, UndoingKeeps
<1> QED BY <1>4 DEF StartRestore, RestoreStep, Step, Throw

LEMMA GuardRestoreKeeps == ASSUME IInv, GuardRestore PROVE IInv'
<1>1. cmd # None /\ cmd.pc = "guard" /\ cmd \in Commands /\ cmd.pc \in Undoing
  BY DEF GuardRestore, RestoreStep, Step, Throw, At, IInv, Typed, Undoing
<1>2. UNCHANGED <<sessions, host, state, setting, ghosts>>
  BY DEF GuardRestore, RestoreStep, kept
<1>3. cmd.snapshot # None /\ cmd.snapshot \in Contents
  BY <1>1, RestoreIsKnown DEF Restoring, RestoreSteps
<1>4. ASSUME NEW q \in {"announce"}, Go(q), q = "restate" => ~ cmd.replaced,
             Restorable(cmd.snapshot, cmd.migrated), KeepPrevious
      PROVE  IInv'
  <2>1. q \in Places /\ q \in Undoing \cup {"unplug", "restate", "unrestored"}
    BY DEF Places, Undoing
  <2>2. Goes(cmd, cmd', q, cmd.replaced, cmd.refreshed, cmd.outcome)
    BY <1>1, <1>4, <2>1, Gone DEF IInv
  <2>3. /\ lock' \in Journals /\ lock' # None /\ lock'.phase = "preparing"
        /\ lock'.previous = db /\ UNCHANGED db /\ db = cmd.migrated
        /\ db.rows \cap Controls \subseteq cmd.snapshot.rows
    BY <1>1, <1>3, <1>4, RestoreIsKnown, NoneIsNoJournal
       DEF KeepPrevious, Restorable, Restoring, RestoreSteps, Journals
  <2>4. JournalIsSafe'
    BY <1>1, <1>3, <2>3, RestoreIsKnown DEF JournalIsSafe
  <2>5. Restoring'
    BY <1>1, <1>3, <2>2, <2>3, RestoreIsKnown
       DEF Restoring, Goes, Looking, Early, Restored, RestoreSteps
  <2> QED BY <1>1, <1>2, <1>4, <2>1, <2>2, <2>3, <2>4, <2>5, RestoreIsKnown, UndoingKeeps
<1>5. ASSUME NEW q \in {"unrestored"}, Go(q), q = "restate" => ~ cmd.replaced,
             DropLock
      PROVE  IInv'
  <2>1. q \in Places /\ q \in Undoing \cup {"unplug", "restate", "unrestored"}
    BY DEF Places, Undoing
  <2>2. Goes(cmd, cmd', q, cmd.replaced, cmd.refreshed, cmd.outcome)
    BY <1>1, <1>5, <2>1, Gone DEF IInv
  <2>3. lock' = None /\ UNCHANGED db
    BY <1>1, <1>3, <1>5, RestoreIsKnown, NoneIsNoJournal DEF DropLock
  <2>4. JournalIsSafe'
    BY <1>1, <1>3, <2>3, RestoreIsKnown DEF JournalIsSafe
  <2>5. Restoring'
    BY <1>1, <1>3, <2>2, <2>3, RestoreIsKnown
       DEF Restoring, Goes, Looking, Early, Restored, RestoreSteps
  <2> QED BY <1>1, <1>2, <1>5, <2>1, <2>2, <2>3, <2>4, <2>5, RestoreIsKnown, UndoingKeeps
<1> QED BY <1>4, <1>5 DEF GuardRestore, RestoreStep, Step, Throw

LEMMA AnnounceRestoreKeeps == ASSUME IInv, AnnounceRestore PROVE IInv'
<1>1. cmd # None /\ cmd.pc = "announce" /\ cmd \in Commands /\ cmd.pc \in Undoing
  BY DEF AnnounceRestore, RestoreStep, Step, Throw, At, IInv, Typed, Undoing
<1>2. UNCHANGED <<sessions, host, state, setting, ghosts>>
  BY DEF AnnounceRestore, RestoreStep, kept
<1>3. cmd.snapshot # None /\ cmd.snapshot \in Contents
  BY <1>1, RestoreIsKnown DEF Restoring, RestoreSteps
<1>4. ASSUME NEW q \in {"copy"}, Go(q), q = "restate" => ~ cmd.replaced,
             Announce(cmd.snapshot)
      PROVE  IInv'
  <2>1. q \in Places /\ q \in Undoing \cup {"unplug", "restate", "unrestored"}
    BY DEF Places, Undoing
  <2>2. Goes(cmd, cmd', q, cmd.replaced, cmd.refreshed, cmd.outcome)
    BY <1>1, <1>4, <2>1, Gone DEF IInv
  <2>3. /\ lock' \in Journals /\ lock' # None /\ lock'.previous = db
        /\ lock'.replacement = cmd.snapshot /\ UNCHANGED db /\ db = cmd.migrated
        /\ db # None /\ cmd.snapshot.rows \subseteq db.rows
        /\ db.rows \cap Controls \subseteq cmd.snapshot.rows
    BY <1>1, <1>3, <1>4, RestoreIsKnown, NoneIsNoJournal
       DEF Announce, Restoring, RestoreSteps, Early, Journals
  <2>4. JournalIsSafe'
    BY <1>1, <1>3, <2>3, RestoreIsKnown DEF JournalIsSafe
  <2>5. Restoring'
    BY <1>1, <1>3, <2>2, <2>3, RestoreIsKnown
       DEF Restoring, Goes, Looking, Early, Restored, RestoreSteps
  <2> QED BY <1>1, <1>2, <1>4, <2>1, <2>2, <2>3, <2>4, <2>5, RestoreIsKnown, UndoingKeeps
<1>5. ASSUME NEW q \in {"unrestored"}, Go(q), q = "restate" => ~ cmd.replaced,
             DropLock
      PROVE  IInv'
  <2>1. q \in Places /\ q \in Undoing \cup {"unplug", "restate", "unrestored"}
    BY DEF Places, Undoing
  <2>2. Goes(cmd, cmd', q, cmd.replaced, cmd.refreshed, cmd.outcome)
    BY <1>1, <1>5, <2>1, Gone DEF IInv
  <2>3. lock' = None /\ UNCHANGED db
    BY <1>1, <1>3, <1>5, RestoreIsKnown, NoneIsNoJournal DEF DropLock
  <2>4. JournalIsSafe'
    BY <1>1, <1>3, <2>3, RestoreIsKnown DEF JournalIsSafe
  <2>5. Restoring'
    BY <1>1, <1>3, <2>2, <2>3, RestoreIsKnown
       DEF Restoring, Goes, Looking, Early, Restored, RestoreSteps
  <2> QED BY <1>1, <1>2, <1>5, <2>1, <2>2, <2>3, <2>4, <2>5, RestoreIsKnown, UndoingKeeps
<1> QED BY <1>4, <1>5 DEF AnnounceRestore, RestoreStep, Step, Throw

LEMMA CopyRestoreKeeps == ASSUME IInv, CopyRestore PROVE IInv'
<1>1. cmd # None /\ cmd.pc = "copy" /\ cmd \in Commands /\ cmd.pc \in Undoing
  BY DEF CopyRestore, RestoreStep, Step, Throw, At, IInv, Typed, Undoing
<1>2. UNCHANGED <<sessions, host, state, setting, ghosts>>
  BY DEF CopyRestore, RestoreStep, kept
<1>3. cmd.snapshot # None /\ cmd.snapshot \in Contents
  BY <1>1, RestoreIsKnown DEF Restoring, RestoreSteps
<1>4. ASSUME NEW q \in {"unlock"}, Go(q), q = "restate" => ~ cmd.replaced,
             CopyIn
      PROVE  IInv'
  <2>1. q \in Places /\ q \in Undoing \cup {"unplug", "restate", "unrestored"}
    BY DEF Places, Undoing
  <2>2. Goes(cmd, cmd', q, cmd.replaced, cmd.refreshed, cmd.outcome)
    BY <1>1, <1>4, <2>1, Gone DEF IInv
  <2>3. /\ UNCHANGED lock /\ lock # None /\ db' = cmd.snapshot
        /\ lock.previous = cmd.migrated
    BY <1>1, <1>3, <1>4, RestoreIsKnown, NoneIsNoJournal DEF CopyIn, Restoring, RestoreSteps
  <2>4. JournalIsSafe'
    BY <1>1, <1>3, <2>3, RestoreIsKnown DEF JournalIsSafe
  <2>5. Restoring'
    BY <1>1, <1>3, <2>2, <2>3, RestoreIsKnown
       DEF Restoring, Goes, Looking, Early, Restored, RestoreSteps
  <2> QED BY <1>1, <1>2, <1>4, <2>1, <2>2, <2>3, <2>4, <2>5, RestoreIsKnown, UndoingKeeps
<1>5. ASSUME NEW q \in {"unrestored"}, Go(q), q = "restate" => ~ cmd.replaced,
             RollBack
      PROVE  IInv'
  <2>1. q \in Places /\ q \in Undoing \cup {"unplug", "restate", "unrestored"}
    BY DEF Places, Undoing
  <2>2. Goes(cmd, cmd', q, cmd.replaced, cmd.refreshed, cmd.outcome)
    BY <1>1, <1>5, <2>1, Gone DEF IInv
  <2>3. /\ lock' = None /\ db' = lock.previous
        /\ lock' \in Journals \cup {None} /\ db' \in Contents \cup {None}
    BY <1>1, <1>3, <1>5, RestoreIsKnown, NoneIsNoJournal
       DEF RollBack, Restoring, RestoreSteps, Journals
  <2>4. JournalIsSafe'
    BY <1>1, <1>3, <2>3, RestoreIsKnown DEF JournalIsSafe
  <2>5. Restoring'
    BY <1>1, <1>3, <2>2, <2>3, RestoreIsKnown
       DEF Restoring, Goes, Looking, Early, Restored, RestoreSteps
  <2> QED BY <1>1, <1>2, <1>5, <2>1, <2>2, <2>3, <2>4, <2>5, RestoreIsKnown, UndoingKeeps
<1> QED BY <1>4, <1>5 DEF CopyRestore, RestoreStep, Step, Throw

LEMMA FinishRestoreKeeps == ASSUME IInv, FinishRestore PROVE IInv'
<1>1. cmd # None /\ cmd.pc = "unlock" /\ cmd \in Commands /\ cmd.pc \in Undoing
  BY DEF FinishRestore, RestoreStep, Step, Throw, At, IInv, Typed, Undoing
<1>2. UNCHANGED <<sessions, host, state, setting, ghosts>>
  BY DEF FinishRestore, RestoreStep, kept
<1>3. cmd.snapshot # None /\ cmd.snapshot \in Contents
  BY <1>1, RestoreIsKnown DEF Restoring, RestoreSteps
<1>4. ASSUME NEW q \in {"unplug", "restate"}, Go(q), q = "restate" => ~ cmd.replaced,
             DropLock
      PROVE  IInv'
  <2>1. q \in Places /\ q \in Undoing \cup {"unplug", "restate", "unrestored"}
    BY DEF Places, Undoing
  <2>2. Goes(cmd, cmd', q, cmd.replaced, cmd.refreshed, cmd.outcome)
    BY <1>1, <1>4, <2>1, Gone DEF IInv
  <2>3. /\ lock' = None /\ UNCHANGED db /\ db = cmd.snapshot /\ db.schema = "old" 
    BY <1>1, <1>3, <1>4, RestoreIsKnown, NoneIsNoJournal DEF DropLock, Restoring
  <2>4. JournalIsSafe'
    BY <1>1, <1>3, <2>3, RestoreIsKnown DEF JournalIsSafe
  <2>5. Restoring'
    BY <1>1, <1>3, <2>2, <2>3, RestoreIsKnown
       DEF Restoring, Goes, Looking, Early, Restored, RestoreSteps
  <2> QED BY <1>1, <1>2, <1>4, <2>1, <2>2, <2>3, <2>4, <2>5, RestoreIsKnown, UndoingKeeps
<1>5. ASSUME NEW q \in {"unrestored"}, Go(q), q = "restate" => ~ cmd.replaced,
             RollBack
      PROVE  IInv'
  <2>1. q \in Places /\ q \in Undoing \cup {"unplug", "restate", "unrestored"}
    BY DEF Places, Undoing
  <2>2. Goes(cmd, cmd', q, cmd.replaced, cmd.refreshed, cmd.outcome)
    BY <1>1, <1>5, <2>1, Gone DEF IInv
  <2>3. /\ lock' = None /\ db' = lock.previous
        /\ lock' \in Journals \cup {None} /\ db' \in Contents \cup {None}
    BY <1>1, <1>3, <1>5, RestoreIsKnown, NoneIsNoJournal
       DEF RollBack, Restoring, RestoreSteps, Journals
  <2>4. JournalIsSafe'
    BY <1>1, <1>3, <2>3, RestoreIsKnown DEF JournalIsSafe
  <2>5. Restoring'
    BY <1>1, <1>3, <2>2, <2>3, RestoreIsKnown
       DEF Restoring, Goes, Looking, Early, Restored, RestoreSteps
  <2> QED BY <1>1, <1>2, <1>5, <2>1, <2>2, <2>3, <2>4, <2>5, RestoreIsKnown, UndoingKeeps
<1> QED BY <1>4, <1>5 DEF FinishRestore, RestoreStep, Step, Throw, Reregister
-------------------------------------------------------------------------------
(* The setting of the host *)

\* A step of another command that leaves the host and the database alone
LEMMA SettingStepsKeep ==
    ASSUME IInv, cmd # None,
           cmd.pc \in {"saveFlag", "unflag", "saveDisabled", "unset", "forget", "unlocate"},
           NEW q \in {"register", "disable", "forget", "unlocate", "end"}, Go(q),
           q = "register" => cmd.pc = "saveFlag",
           UNCHANGED <<storage, sessions, host, ghosts>>,
           state' \in States, setting' \in BOOLEAN,
           Goes(cmd, cmd', q, cmd.replaced, cmd.refreshed, cmd.outcome) => (unowned \/ Owned)'
    PROVE  IInv'
<1>1. cmd \in Commands /\ Course
  BY HostIsTyped DEF IInv, Typed
<1>2. q \in Places
  BY DEF Places
<1>3. Goes(cmd, cmd', q, cmd.replaced, cmd.refreshed, cmd.outcome)
  BY <1>1, <1>2, Gone DEF IInv
<1>4. Typed'
  BY <1>3, TypesStay DEF IInv, Typed, Goes, storage
<1>5. Quiet'
  BY <1>3, QuietStays DEF IInv, Goes
<1>6. HostKept'
  <2>1. Course'
    BY <1>1, <1>3, HostIsTyped
       DEF Course, Goes, Untouched, Looking, Before, Refreshing, Replacing, Undoing, host
  <2> QED BY <1>1, <1>3, <2>1, HostStays DEF Goes
<1>7. StoreKept'
  BY <1>1, <1>3, StoreStays DEF IInv, Goes, Early, Looking, Restored, RestoreSteps, Course
<1> QED BY <1>3, <1>4, <1>5, <1>6, <1>7 DEF IInv

\* Giving the setting back gives back what the user wanted.
LEMMA GivenBackIsWished ==
    ASSUME IInv, cmd # None, cmd.pc \in {"unflag", "unset"}
    PROVE  GivenBack \in BOOLEAN /\ (unowned \/ GivenBack = wish)
<1>1. state.tracked \in Tracking \cup {None} /\ setting \in BOOLEAN /\ wish \in BOOLEAN
  BY DEF IInv, Typed, States
<1>2. GivenBack \in BOOLEAN
  BY <1>1 DEF GivenBack, Tracking
<1>3. ASSUME Owned PROVE GivenBack = wish
  <2>1. (state.tracked = None => setting = wish) /\ Holds(state.tracked)
    BY <1>3 DEF Owned, At
  <2> QED BY <1>1, <2>1 DEF Holds, GivenBack
<1> QED BY <1>2, <1>3 DEF IInv

LEMMA BorrowSettingKeeps == ASSUME IInv, BorrowSetting PROVE IInv'
<1>1. cmd # None /\ cmd.pc = "flag" /\ cmd \in Commands /\ Course /\ cmd.outcome # "restored"
  BY HostIsTyped DEF BorrowSetting, At, IInv, Typed, Course
<1>2. UNCHANGED <<storage, sessions, host, state, ghosts>> /\ setting' = TRUE
  BY DEF BorrowSetting
<1>3. PICK q, t : /\ q = "saveFlag"
                  /\ t = IF state.tracked # None THEN state.tracked
                         ELSE [managed |-> ~ setting, previous |-> setting]
                  /\ cmd' = [cmd EXCEPT !.pc = q, !.before.tracked = t]
  BY DEF BorrowSetting
<1>4. q \in Places
  BY <1>3 DEF Places
<1>5. t \in Tracking /\ t # None
  <2>1. state.tracked \in Tracking \cup {None} /\ setting \in BOOLEAN
    BY DEF IInv, Typed, States
  <2>2. t \in Tracking
    BY <1>3, <2>1 DEF Tracking
  <2> QED BY <2>2, NoneIsNoCommand
<1>6. cmd.before \in States
  BY <1>1 DEF Commands
<1>7. ASSUME NEW b, b = [cmd.before EXCEPT !.tracked = t]
      PROVE  b \in States /\ b.tracked = t
  BY <1>5, <1>6, <1>7 DEF States
<1>8. ASSUME NEW b \in States, NEW d, d = [cmd EXCEPT !.pc = q, !.before = b]
      PROVE  /\ d \in Commands /\ d.pc = q /\ d.kind = cmd.kind /\ d.reg = cmd.reg /\ d.before = b
             /\ d.snapshot = cmd.snapshot /\ d.migrated = cmd.migrated
             /\ d.replaced = cmd.replaced /\ d.refreshed = cmd.refreshed /\ d.outcome = cmd.outcome
  BY <1>1, <1>4, <1>8 DEF Commands
<1>9. PICK b \in States :
         /\ b.tracked = t /\ cmd' = [cmd EXCEPT !.pc = q, !.before = b]
  BY <1>1, <1>3, <1>7 DEF Commands
<1>17. /\ cmd' \in Commands /\ cmd'.pc = q /\ cmd'.kind = cmd.kind /\ cmd'.reg = cmd.reg
       /\ cmd'.before = b /\ cmd'.snapshot = cmd.snapshot /\ cmd'.migrated = cmd.migrated
       /\ cmd'.replaced = cmd.replaced /\ cmd'.refreshed = cmd.refreshed
       /\ cmd'.outcome = cmd.outcome
  BY <1>8, <1>9, Zenon
<1>10. /\ cmd' \in Commands /\ cmd'.pc = "saveFlag" /\ cmd'.kind = cmd.kind /\ cmd'.reg = cmd.reg
       /\ cmd'.before.tracked = t /\ cmd'.snapshot = cmd.snapshot /\ cmd'.migrated = cmd.migrated
       /\ cmd'.replaced = cmd.replaced /\ cmd'.refreshed = cmd.refreshed
       /\ cmd'.outcome = cmd.outcome
  BY <1>3, <1>9, <1>17
<1>11. cmd' # None
  BY <1>10, NoneIsNoCommand
<1>12. Typed'
  BY <1>2, <1>10, TypesStay DEF IInv, Typed, storage
<1>13. Quiet'
  BY <1>1, <1>2, <1>10, QuietStays DEF IInv
<1>14. (unowned \/ Owned)'
  <2>1. CASE unowned
    BY <1>2, <2>1 DEF ghosts
  <2>2. CASE Owned
    <3>1. (state.tracked = None => setting = wish) /\ Holds(state.tracked)
      BY <1>1, <2>2 DEF Owned, At
    <3>2. state.tracked \in Tracking \cup {None} /\ setting \in BOOLEAN /\ wish \in BOOLEAN
      BY DEF IInv, Typed, States
    <3>3. UNCHANGED <<wish, state>>
      BY <1>2 DEF ghosts
    <3>4. Holds(t)'
      <4>1. CASE state.tracked # None
        BY <1>2, <1>3, <3>1, <3>2, <3>3, <4>1 DEF Holds, Tracking
      <4>2. CASE state.tracked = None
        <5>1. t.managed = ~ setting /\ t.previous = setting
          BY <1>3, <4>2
        <5> QED BY <1>2, <3>1, <3>2, <3>3, <4>2, <5>1 DEF Holds
      <4> QED BY <4>1, <4>2
    <3>5. Holds(state.tracked)'
      BY <1>2, <3>1, <3>2, <3>3 DEF Holds, Tracking
    <3>6. state.tracked \in {None, t}
      BY <1>3
    <3>7. Holds(cmd.before.tracked)'
      BY <1>10, <3>4 DEF Holds
    <3>8. cmd'.pc = "saveFlag" /\ At("saveFlag")'
      BY <1>10, <1>11 DEF At
    <3>9. setting' /\ cmd'.before.tracked # None /\ state'.tracked \in {None, cmd'.before.tracked}
      BY <1>2, <1>5, <1>10, <3>3, <3>6
    <3>10. cmd'.pc \notin {"disable", "saveDisabled", "forget", "unlocate"}
      BY <3>8
    <3> QED BY <3>5, <3>7, <3>8, <3>9, <3>10 DEF Owned
  <2> QED BY <2>1, <2>2 DEF IInv
<1>15. HostKept'
  <2>1. Course'
    BY <1>1, <1>2, <1>10
       DEF Course, Looking, Before, Refreshing, Replacing, Undoing
  <2> QED BY <1>1, <1>2, <1>10, <2>1, HostStays
<1>16. StoreKept'
  BY <1>1, <1>2, <1>10, StoreStays DEF IInv, Early, Looking, Restored, RestoreSteps
<1> QED BY <1>12, <1>13, <1>14, <1>15, <1>16 DEF IInv

LEMMA RecordSettingKeeps == ASSUME IInv, RecordSetting PROVE IInv'
<1>1. cmd # None /\ cmd.pc = "saveFlag" /\ cmd \in Commands /\ Go("register")
  BY DEF RecordSetting, Step, At, IInv, Typed
<1>2. UNCHANGED <<storage, sessions, host, setting, ghosts>>
  BY DEF RecordSetting
<1>3. PICK t : t = cmd.before.tracked /\ state' = [state EXCEPT !.tracked = t]
  BY DEF RecordSetting, Step
<1>4. t \in Tracking \cup {None}
  BY <1>1, <1>3 DEF Commands, States
<1>5. state' \in States /\ state'.tracked = t
  BY <1>3, <1>4 DEF IInv, Typed, States
<1>6. ASSUME Goes(cmd, cmd', "register", cmd.replaced, cmd.refreshed, cmd.outcome)
      PROVE  (unowned \/ Owned)'
  <2>1. CASE unowned
    BY <1>2, <2>1 DEF ghosts
  <2>2. CASE Owned
    BY <1>1, <1>2, <1>3, <1>5, <1>6, <2>2 DEF Owned, Holds, At, Goes, ghosts
  <2> QED BY <2>1, <2>2 DEF IInv
<1>7. setting' \in BOOLEAN
  BY <1>2 DEF IInv, Typed
<1> QED BY <1>1, <1>2, <1>5, <1>6, <1>7, SettingStepsKeep

LEMMA UnflagAndDisableKeeps == ASSUME IInv, UnflagAndDisable PROVE IInv'
<1>1. cmd # None /\ cmd.pc = "unflag" /\ Go("disable") /\ setting' = GivenBack
  BY DEF UnflagAndDisable, Step, At
<1>2. UNCHANGED <<storage, sessions, host, state, ghosts>> /\ state \in States
  BY DEF UnflagAndDisable, IInv, Typed
<1>3. ASSUME Goes(cmd, cmd', "disable", cmd.replaced, cmd.refreshed, cmd.outcome)
      PROVE  (unowned \/ Owned)'
  BY <1>1, <1>2, <1>3, GivenBackIsWished DEF IInv, Owned, Holds, At, Goes, GivenBack, ghosts
<1> QED BY <1>1, <1>2, <1>3, GivenBackIsWished, SettingStepsKeep

LEMMA GiveSettingBackKeeps == ASSUME IInv, GiveSettingBack PROVE IInv'
<1>1. cmd # None /\ cmd.pc = "unset" /\ Go("forget") /\ setting' = GivenBack
  BY DEF GiveSettingBack, Step, At
<1>2. UNCHANGED <<storage, sessions, host, state, ghosts>> /\ state \in States
  BY DEF GiveSettingBack, IInv, Typed
<1>3. ASSUME Goes(cmd, cmd', "forget", cmd.replaced, cmd.refreshed, cmd.outcome)
      PROVE  (unowned \/ Owned)'
  BY <1>1, <1>2, <1>3, GivenBackIsWished DEF IInv, Owned, Holds, At, Goes, GivenBack, ghosts
<1> QED BY <1>1, <1>2, <1>3, GivenBackIsWished, SettingStepsKeep

LEMMA SaveDisabledKeeps == ASSUME IInv, SaveDisabled PROVE IInv'
<1>1. cmd # None /\ cmd.pc = "saveDisabled" /\ Go("end")
  BY DEF SaveDisabled, Step, At
<1>2. UNCHANGED <<storage, sessions, host, setting, ghosts>> /\ setting' \in BOOLEAN
  BY DEF SaveDisabled, IInv, Typed
<1>3. state' \in States /\ state'.tracked = None
  BY DEF SaveDisabled, Step, IInv, Typed, States
<1>4. ASSUME Goes(cmd, cmd', "end", cmd.replaced, cmd.refreshed, cmd.outcome)
      PROVE  (unowned \/ Owned)'
  BY <1>1, <1>2, <1>3, <1>4 DEF IInv, Owned, Holds, At, Goes, ghosts
<1> QED BY <1>1, <1>2, <1>3, <1>4, SettingStepsKeep

LEMMA ForgetKeeps == ASSUME IInv, Forget PROVE IInv'
<1>1. cmd # None /\ cmd.pc = "forget" /\ Go("unlocate") /\ state' = Nothing
  BY DEF Forget, Step, At
<1>2. UNCHANGED <<storage, sessions, host, setting, ghosts>> /\ setting' \in BOOLEAN
  BY DEF Forget, IInv, Typed
<1>3. state' \in States /\ state'.tracked = None
  BY <1>1 DEF Nothing, States
<1>4. ASSUME Goes(cmd, cmd', "unlocate", cmd.replaced, cmd.refreshed, cmd.outcome)
      PROVE  (unowned \/ Owned)'
  BY <1>1, <1>2, <1>3, <1>4 DEF IInv, Owned, Holds, At, Goes, ghosts
<1> QED BY <1>1, <1>2, <1>3, <1>4, SettingStepsKeep

LEMMA RemoveLocatorKeeps == ASSUME IInv, RemoveLocator PROVE IInv'
<1>1. cmd # None /\ cmd.pc = "unlocate" /\ Go("end")
  BY DEF RemoveLocator, Step, At
<1>2. /\ UNCHANGED <<storage, sessions, host, state, setting, ghosts>>
      /\ state' \in States /\ setting' \in BOOLEAN
  BY DEF RemoveLocator, IInv, Typed
<1>3. ASSUME Goes(cmd, cmd', "end", cmd.replaced, cmd.refreshed, cmd.outcome)
      PROVE  (unowned \/ Owned)'
  BY <1>1, <1>2, <1>3 DEF IInv, Owned, Holds, At, Goes, ghosts
<1> QED BY <1>1, <1>2, <1>3, SettingStepsKeep
-------------------------------------------------------------------------------
(* The rest of the installation *)

\* What a step of somebody else keeps: the command is where it was, and so are
\* the registration, the state and the setting.
LEMMA OthersKeep ==
    ASSUME IInv, UNCHANGED <<host, state, setting, cmd, ghosts>>,
           db' \in Contents \cup {None}, lock' \in Journals \cup {None}, Quiet', StoreKept'
    PROVE  IInv'
<1>1. Typed'
  BY DEF IInv, Typed, host, ghosts
<1>2. (unowned \/ Owned)'
  BY DEF IInv, Owned, Holds, At, ghosts
<1>3. HostKept'
  BY DEF IInv, HostKept, Registered, Course, Untouched, host
<1> QED BY <1>1, <1>2, <1>3 DEF IInv

LEMMA SessionsKeep ==
    ASSUME IInv, NEW s \in Sessions, SessionStarts(s) \/ SessionEnds(s) \/ SessionIsKilled(s)
    PROVE  IInv'
<1>1. UNCHANGED <<storage, host, state, setting, cmd, ghosts>>
  BY DEF SessionStarts, SessionEnds, SessionIsKilled, adapter, kept
<1>2. UNCHANGED registry /\ (~ registry \/ Active' \subseteq Active)
  BY DEF SessionStarts, SessionEnds, SessionIsKilled, Register, UnmarkSession, EndSession,
         SessionDies, Active
<1>3. Quiet'
  BY <1>1, <1>2 DEF IInv, Quiet
<1>4. StoreKept'
  BY <1>1 DEF IInv, StoreKept, JournalIsSafe, Restoring, storage
<1>5. db' \in Contents \cup {None} /\ lock' \in Journals \cup {None}
  BY <1>1 DEF IInv, Typed, storage
<1> QED BY <1>1, <1>3, <1>4, <1>5, OthersKeep

LEMMA LegacyOpensKeeps == ASSUME IInv, LegacyOpens PROVE IInv'
<1>1. UNCHANGED <<storage, sessions, host, state, setting, cmd, ghosts>>
  BY DEF LegacyOpens, kept
<1>2. Quiet'
  BY <1>1 DEF IInv, Quiet, Active, sessions
<1>3. StoreKept'
  BY <1>1 DEF IInv, StoreKept, JournalIsSafe, Restoring, storage
<1>4. db' \in Contents \cup {None} /\ lock' \in Journals \cup {None}
  BY <1>1 DEF IInv, Typed, storage
<1> QED BY <1>1, <1>2, <1>3, <1>4, OthersKeep

LEMMA LegacyWritesKeeps == ASSUME IInv, NEW r \in Rows, LegacyWrites(r) PROVE IInv'
<1>1. UNCHANGED <<lock, sessions, host, state, setting, cmd, ghosts>>
  BY DEF LegacyWrites, adapter, kept
<1>2. lock = None /\ db # None /\ db \in Contents /\ db' = [db EXCEPT !.rows = @ \cup {r}]
  BY DEF LegacyWrites, MayWrite, NoJournal, IInv, Typed
<1>3. db' \in Contents /\ db'.schema = db.schema /\ db.rows \subseteq db'.rows
  BY <1>2 DEF Contents
<1>4. Quiet'
  BY <1>1 DEF IInv, Quiet, Active, sessions
<1>5. StoreKept'
  <2>1. JournalIsSafe'
    BY <1>1, <1>2 DEF JournalIsSafe
  <2>2. db' # None
    BY <1>3, NoneIsNoJournal
  <2>3. cmd # None => Restoring'
    BY <1>1, <1>2, <1>3, <2>2
       DEF IInv, StoreKept, Restoring, Early, Looking, Restored, RestoreSteps
  <2> QED BY <1>1, <2>1, <2>3 DEF StoreKept
<1>6. db' \in Contents \cup {None} /\ lock' \in Journals \cup {None}
  BY <1>1, <1>3 DEF IInv, Typed
<1> QED BY <1>1, <1>4, <1>5, <1>6, OthersKeep

\* A recovery takes the journal away, and what it brings back has every row
\* that was there.
LEMMA Recovered ==
    ASSUME IInv, Recover
    PROVE  /\ lock # None /\ lock' = None /\ db' \in Contents \cup {None}
           /\ db # None => db' # None /\ db.rows \subseteq db'.rows
<1>1. lock \in Journals /\ lock # None /\ JournalIsSafe /\ db \in Contents \cup {None}
  BY DEF Recover, IInv, Typed, StoreKept
<1>2. CASE lock.phase = "installing"
  <2>1. /\ db \in {lock.previous, lock.replacement} /\ db' = lock.previous /\ lock' = None
    BY <1>2 DEF Recover, RollBack
  <2>2. /\ lock.previous \in Contents \cup {None} /\ lock.previous # None
        /\ lock.replacement.rows \subseteq lock.previous.rows
    BY <1>1, <1>2 DEF JournalIsSafe, Journals
  <2> QED BY <1>1, <2>1, <2>2
<1>3. CASE lock.phase # "installing"
  BY <1>1, <1>3 DEF Recover, DropLock
<1> QED BY <1>2, <1>3

LEMMA RecoverByHandKeeps == ASSUME IInv, RecoverByHand PROVE IInv'
<1>1. /\ UNCHANGED <<sessions, host, state, setting, cmd, ghosts>>
      /\ Recover /\ (cmd # None => cmd.pc \notin RestoreSteps)
  BY DEF RecoverByHand, adapter, kept, At
<1>2. Quiet'
  BY <1>1 DEF IInv, Quiet, Active, sessions
<1>3. StoreKept'
  <2>1. JournalIsSafe'
    BY <1>1, Recovered DEF JournalIsSafe
  <2>2. cmd # None => Restoring'
    BY <1>1, Recovered
       DEF IInv, StoreKept, Restoring, Early, Looking, Restored, RestoreSteps
  <2> QED BY <1>1, <2>1, <2>2 DEF StoreKept
<1>4. db' \in Contents \cup {None} /\ lock' \in Journals \cup {None}
  BY <1>1, Recovered
<1> QED BY <1>1, <1>2, <1>3, <1>4, OthersKeep
-------------------------------------------------------------------------------
(* The invariant *)

LEMMA InitHolds == ASSUME Init PROVE IInv
<1>1. /\ wish \in BOOLEAN /\ lock = None /\ cmd = None /\ unowned = FALSE
      /\ \/ /\ db = [schema |-> "old", rows |-> {}]
            /\ market = "old" /\ plugin = "old" /\ enabled = TRUE
            /\ state = [installed |-> TRUE, caps |-> Capabilities, notice |-> "none",
                        tracked |-> [managed |-> ~ wish, previous |-> wish]]
            /\ setting = TRUE
         \/ /\ db = None /\ market = None /\ plugin = None /\ enabled = FALSE
            /\ state = Nothing /\ setting = wish
  BY DEF Init
<1>2. Typed
  <2>1. db \in Contents \cup {None}
    BY <1>1 DEF Contents
  <2>2. market \in Versions /\ plugin \in Versions /\ enabled \in BOOLEAN /\ setting \in BOOLEAN
    BY <1>1 DEF Versions
  <2>3. state \in States
    <3>1. PICK m \in BOOLEAN : m = ~ wish
      BY <1>1
    <3>2. [managed |-> m, previous |-> wish] \in Tracking
      BY <1>1 DEF Tracking
    <3>3. CASE state = Nothing
      BY <3>3 DEF States, Nothing
    <3>4. CASE state # Nothing
      <4>1. PICK t \in Tracking : state = [installed |-> TRUE, caps |-> Capabilities,
                                           notice |-> "none", tracked |-> t]
        BY <1>1, <3>1, <3>2, <3>4
      <4> QED BY <4>1 DEF States
    <3> QED BY <3>3, <3>4
  <2> QED BY <1>1, <2>1, <2>2, <2>3 DEF Typed
<1>3. Quiet
  BY <1>1 DEF Quiet
<1>4. Owned
  <2>1. \/ state.tracked = None /\ setting = wish
        \/ /\ state.tracked # None /\ state.tracked.managed = ~ wish /\ setting
           /\ state.tracked.previous = wish
    <3>1. PICK m \in BOOLEAN : m = ~ wish
      BY <1>1
    <3>2. [managed |-> m, previous |-> wish] \in Tracking
      BY <1>1 DEF Tracking
    <3> QED BY <1>1, <3>1, <3>2, NoneIsNoCommand DEF Nothing
  <2> QED BY <1>1, <2>1 DEF Owned, Holds, At
<1>5. HostKept
  BY <1>1, NoneIsNoCommand DEF HostKept, Registered
<1>6. StoreKept
  BY <1>1 DEF StoreKept, JournalIsSafe
<1> QED BY <1>2, <1>3, <1>4, <1>5, <1>6 DEF IInv

LEMMA NextKeeps == ASSUME IInv, [Next]_vars PROVE IInv'
<1>1. CASE UpgradeStep
  BY <1>1, DrainKeeps, ShutdownKeeps, WaitForSessionsKeeps, RetireHelpersKeeps,
     CancelMaintenanceKeeps, InspectKeeps, MarkKeeps, DigestKeeps,
     RefreshMarketKeeps, ReplacePluginKeeps, UnsellOldKeeps,
     CheckUpgradeKeeps, RefreshFilesKeeps, RefreshConfigKeeps,
     RefreshSettingsKeeps, LocateKeeps
     DEF UpgradeStep
<1>2. CASE UndoStep
  BY <1>2, CatchKeeps, UnrefreshKeeps, CompareKeeps, StartRestoreKeeps,
     GuardRestoreKeeps, AnnounceRestoreKeeps, CopyRestoreKeeps,
     FinishRestoreKeeps, UnplugNewKeeps, UnsellNewKeeps, SellOldKeeps,
     PlugOldKeeps, DisableOldKeeps, RestateKeeps, UnrestoredKeeps
     DEF UndoStep
<1>3. CASE OtherStep
  BY <1>3, OpenStoreKeeps, RegisterMarketKeeps, InstallPluginKeeps,
     VerifyVersionKeeps, EnablePluginKeeps, SaveKeeps, ProbeHostKeeps,
     BorrowSettingKeeps, RecordSettingKeeps, FailedKeeps,
     UnflagAndDisableKeeps, DisablePluginKeeps, SaveDisabledKeeps,
     RemovePluginKeeps, RemoveMarketKeeps, GiveSettingBackKeeps,
     ForgetKeeps, RemoveLocatorKeeps, EndKeeps
     DEF OtherStep
<1>4. CASE Crash \/ \E kind \in Kinds : Begin(kind)
  BY <1>4, CrashKeeps, BeginKeeps
<1>5. CASE \E s \in Sessions : SessionStarts(s) \/ SessionEnds(s) \/ SessionIsKilled(s)
  BY <1>5, SessionsKeep
<1>6. CASE LegacyOpens \/ RecoverByHand \/ \E r \in Rows : LegacyWrites(r)
  BY <1>6, LegacyOpensKeeps, RecoverByHandKeeps, LegacyWritesKeeps
<1>7. CASE UNCHANGED vars
  <2>1. UNCHANGED <<storage, sessions, host, state, setting, cmd, ghosts>>
    BY <1>7 DEF vars, kept
  <2>2. Quiet'
    BY <2>1 DEF IInv, Quiet, Active, sessions
  <2>3. StoreKept'
    BY <2>1 DEF IInv, StoreKept, JournalIsSafe, Restoring, storage
  <2>4. db' \in Contents \cup {None} /\ lock' \in Journals \cup {None}
    BY <2>1 DEF IInv, Typed, storage
  <2> QED BY <2>1, <2>2, <2>3, <2>4, OthersKeep
<1> QED BY <1>1, <1>2, <1>3, <1>4, <1>5, <1>6, <1>7 DEF Next, CommandStep

\* The invariant holds of every behaviour, whatever the user orders, whatever
\* fails or dies, and however many sessions and rows there are.
THEOREM InvariantHolds == Spec => []IInv
<1>1. Init => IInv
  BY InitHolds
<1>2. IInv /\ [Next]_vars => IInv'
  BY NextKeeps
<1> QED BY <1>1, <1>2, PTL DEF Spec

\* Nothing is migrated, replaced or restored under a registered session.
THEOREM NobodyIsEverInside == Spec => []NobodyIsInside
<1>1. IInv => NobodyIsInside
  BY DEF IInv, Quiet, NobodyIsInside
<1> QED BY <1>1, InvariantHolds, PTL

\* An upgrade that says that it restored what was there has restored it.
THEOREM FailureIsAlwaysUndone == Spec => []FailureIsUndone
<1>1. IInv => FailureIsUndone
  BY DEF IInv, HostKept, StoreKept, Restoring, Course, At, FailureIsUndone
<1> QED BY <1>1, InvariantHolds, PTL

\* When the adapter no longer says that it holds the setting, it is the user's.
THEOREM SettingIsAlwaysReturned == Spec => []SettingIsReturned
<1>1. IInv => SettingIsReturned
  BY DEF IInv, Owned, At, SettingIsReturned
<1> QED BY <1>1, InvariantHolds, PTL
-------------------------------------------------------------------------------
(* What is written stays *)

\* The steps that touch the content of the database
LEMMA OnlyTheseWrite ==
    ASSUME Next
    PROVE  \/ db' = db \/ OpenStore \/ CopyRestore \/ FinishRestore \/ RecoverByHand
           \/ \E r \in Rows : LegacyWrites(r)
<1>1. CASE UpgradeStep
  BY <1>1
     DEF UpgradeStep, storage, HostStep, Step, Throw, Drain, Shutdown, WaitForSessions,
         RetireHelpers,
              CancelMaintenance, Inspect, Mark, Digest, RefreshMarket,
              ReplacePlugin, UnsellOld, CheckUpgrade, RefreshFiles,
              RefreshConfig, RefreshSettings, Locate, kept
<1>2. CASE UndoStep
  BY <1>2 DEF UndoStep, storage, HostStep, RestoreStep, Step, Throw, TakeLock, KeepPrevious,
              DropLock, Announce, Catch, Unrefresh, Compare, StartRestore, GuardRestore,
              AnnounceRestore, UnplugNew, UnsellNew, SellOld, PlugOld,
              DisableOld, Restate, Unrestored
<1>3. CASE OtherStep
  BY <1>3
     DEF OtherStep, storage, HostStep, Step, Throw, RegisterMarket, InstallPlugin,
         VerifyVersion, EnablePlugin,
              Save, ProbeHost, BorrowSetting, RecordSetting, Failed,
              UnflagAndDisable, DisablePlugin, SaveDisabled, RemovePlugin,
              RemoveMarket, GiveSettingBack, Forget, RemoveLocator, End
<1>4. CASE Crash \/ LegacyOpens \/ \E kind \in Kinds : Begin(kind)
  BY <1>4 DEF Crash, LegacyOpens, Begin, storage
<1>5. CASE \E s \in Sessions : SessionStarts(s) \/ SessionEnds(s) \/ SessionIsKilled(s)
  BY <1>5 DEF SessionStarts, SessionEnds, SessionIsKilled, storage
<1> QED BY <1>1, <1>2, <1>3, <1>4, <1>5 DEF Next, CommandStep

LEMMA StepsKeepTheRows == ASSUME IInv, Next PROVE RowsStay
<1>1. CASE db' = db
  BY <1>1 DEF RowsStay
<1>2. CASE OpenStore
  BY <1>2 DEF OpenStore, Opened, RowsStay
<1>3. CASE CopyRestore
  <2>1. /\ cmd # None /\ cmd.pc = "copy" /\ db = cmd.migrated /\ lock.previous = db
        /\ lock.replacement = cmd.snapshot /\ db.rows \cap Controls \subseteq cmd.snapshot.rows
    BY <1>3 DEF CopyRestore, RestoreStep, Step, Throw, At, IInv, StoreKept, Restoring
  <2>2. db' = cmd.snapshot \/ db' = db
    BY <1>3, <2>1 DEF CopyRestore, RestoreStep, Step, CopyIn, RollBack
  <2> QED BY <2>1, <2>2 DEF RowsStay
<1>4. CASE FinishRestore
  <2>1. /\ cmd # None /\ cmd.pc = "unlock" /\ db = cmd.snapshot /\ lock.previous = cmd.migrated
        /\ cmd.snapshot.rows \subseteq cmd.migrated.rows
    BY <1>4 DEF FinishRestore, RestoreStep, Step, Throw, At, IInv, StoreKept, Restoring,
                RestoreSteps, Early
  <2>2. db' = cmd.migrated \/ db' = db
    BY <1>4, <2>1 DEF FinishRestore, RestoreStep, Step, DropLock, RollBack
  <2> QED BY <2>1, <2>2 DEF RowsStay
<1>5. CASE RecoverByHand
  <2>1. Recover
    BY <1>5 DEF RecoverByHand
  <2> QED BY <2>1, Recovered DEF RowsStay
<1>6. CASE \E x \in Rows : LegacyWrites(x)
  <2>1. PICK x \in Rows : LegacyWrites(x)
    BY <1>6
  <2>2. db \in Contents /\ db' = [db EXCEPT !.rows = @ \cup {x}]
    BY <2>1 DEF LegacyWrites, MayWrite, IInv, Typed
  <2>3. db.rows \subseteq db'.rows
    BY <2>2 DEF Contents
  <2> QED BY <2>3 DEF RowsStay
<1> QED BY <1>1, <1>2, <1>3, <1>4, <1>5, <1>6, OnlyTheseWrite

\* No restore takes away a row written after the migration was fingerprinted,
\* and never anything the user decided.
THEOREM WritesAreAlwaysKept == Spec => WritesAreKept
<1>1. IInv /\ [Next]_vars => [RowsStay]_vars
  BY StepsKeepTheRows
<1> QED BY <1>1, InvariantHolds, PTL DEF Spec, WritesAreKept
===============================================================================
