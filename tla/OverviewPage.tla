----------------------------- MODULE OverviewPage -----------------------------
(***************************************************************************)
(* The Overview page of the settings application (apps/gui/OverviewPage):  *)
(* it asks the daemon for the report of its health, fixes what can be      *)
(* fixed without a decision and starts the daemon again, over a connection *)
(* that comes and goes (DaemonClient) and with settings that are pushed a  *)
(* moment after they change (Settings).                                    *)
(*                                                                         *)
(* The application has one thread: an action is one callback of it, a      *)
(* click, or a step of a daemon. A daemon handles its calls in their order.*)
(* A callback that runs into others is an operator that takes and gives    *)
(* `o`, every variable in a record.                                        *)
(***************************************************************************)
EXTENDS Health, Integers, Sequences, FiniteSets, SequencesExt

CONSTANTS
  Machines,   \* what may be found at first: [found, cfg], f of Health and the settings
                \* [paused, ocr, accessibility, translation]
  MaxDaemons,   \* bound: daemons started
  MaxCalls,     \* bound: calls, and times one timer waits
  MaxEvents     \* bound: what the user does, ends, hangs and silences of daemons, failing downloads

ASSUME MachinesAssumption == \A b \in Machines : Findable(b.found)

VARIABLES
  machine,   \* what there is to be found: f of Health
  saved,     \* the settings in their file
  daemon,    \* the daemon that has the lock: [pid, cfg, runtime, hung], pid 0 for none
  coming,    \* daemons with --replace on their way: [pid, cfg, runtime, read]
  started,   \* how many daemons were started
  link,      \* DaemonClient: [to, calls, answers, pending], to: the daemon's pid, 0 unconnected
  edits,     \* Settings: [cfg, pending, loaded]
  view,      \* the page: [visible, stale, checks, from, checking, fixing, restarting, replaced,
             \*            checkOn, fixAllOn, restartOn, then, administrator], then: what follows the
             \*            download of models that runs
  timers,    \* how often each timer, download and program that answers later was started
  events     \* what the bound counts

overviewVars ==
  <<machine, saved, daemon, coming, started, link, edits, view, timers, events>>

Timers ==
  {"health",   \* health_timer_, 1.2 s after something changed
   "recheck",  \* 0.8 s after a restart, 2 s after a fix
   "quiet",    \* 1.5 s after the connection was made
   "gone",     \* 2.5 s after it ended
   "restart",  \* restart_timer_, every 0.3 s for 15 s
   "push",     \* Settings::timer_, 0.35 s after an edit
   "runtime", "models",      \* downloads
   "redist", "modelRedist",  \* Microsoft's installer, for the page and for the models
   "administrator"}          \* what Windows asks permission for

NoDaemon == [pid |-> 0, cfg |-> (CHOOSE b \in Machines : TRUE).cfg, runtime |-> FALSE, hung |-> FALSE]
Unlinked == [to |-> 0, calls |-> <<>>, answers |-> <<>>, pending |-> {}]

OverviewInit ==
  /\ \E b \in Machines : machine = b.found /\ saved = b.cfg
  /\ \/ started = 0 /\ daemon = NoDaemon
     \/ /\ started = 1
        /\ daemon = [pid |-> 1, cfg |-> saved, runtime |-> machine.runtime, hung |-> FALSE]
  /\ coming = {} /\ link = Unlinked
  /\ edits = [cfg |-> NoDaemon.cfg, pending |-> FALSE, loaded |-> FALSE]
  /\ view = [visible |-> TRUE, stale |-> FALSE, checks |-> {}, from |-> 0, checking |-> FALSE,
             fixing |-> FALSE, restarting |-> FALSE, replaced |-> 0, checkOn |-> TRUE,
             fixAllOn |-> TRUE, restartOn |-> TRUE, then |-> "none", administrator |-> FALSE]
  /\ timers = [t \in Timers |-> 0]
  /\ events = 0

AsOverview ==
  [m |-> machine, s |-> saved, d |-> daemon, c |-> coming, n |-> started, l |-> link,
   e |-> edits, v |-> view, t |-> timers]

OverviewBecomes(o) ==
  /\ machine' = o.m /\ saved' = o.s /\ daemon' = o.d /\ coming' = o.c /\ started' = o.n
  /\ link' = o.l /\ edits' = o.e /\ view' = o.v /\ timers' = o.t
  /\ started' <= MaxDaemons /\ Len(link'.calls) <= MaxCalls /\ Cardinality(link'.pending) <= MaxCalls
  /\ \A t \in Timers : timers'[t] <= MaxCalls

Counted(happens) ==
  events' = events + (IF happens THEN 1 ELSE 0) /\ events' <= MaxEvents

\* A timer of its own for each time, and the one timer that starts over.
After(o, timer) == [o EXCEPT !.t[timer] = @ + 1]
Restarted(o, timer) == [o EXCEPT !.t[timer] = 1]
Fired(timer) == [AsOverview EXCEPT !.t[timer] = @ - 1]

-----------------------------------------------------------------------------
(* The connection.                                                         *)

Linked(o) == o.l.to # 0

\* A call that is answered, or whose answer nobody waits for.
Numbers(messages) == {messages[i].id : i \in DOMAIN messages}
Ask(o, what, arg, waits) ==
  LET used == Numbers(o.l.calls) \cup Numbers(o.l.answers) \cup {p.id : p \in o.l.pending}
      id   == CHOOSE n \in 1 .. Cardinality(used) + 1 : n \notin used
  IN IF ~Linked(o) THEN o
     ELSE [o EXCEPT !.l.calls = Append(@, [id |-> id, what |-> what, arg |-> arg]),
                    !.l.pending = IF waits THEN @ \cup {[id |-> id, what |-> what]} ELSE @]

\* startDaemon( true ): it begins with the settings of the file, whatever is edited here.
StartDaemon(o) ==
  [o EXCEPT !.n = @ + 1,
            !.c = @ \cup {[pid |-> o.n + 1, cfg |-> NoDaemon.cfg, runtime |-> o.m.runtime,
                           read |-> FALSE]}]

\* Settings::load(), commit() and push().
LoadSettings(o) == Ask(o, "config.get", NoDaemon.cfg, TRUE)
SettingsLoaded(o, cfg) ==
  LET loaded == [o EXCEPT !.e.loaded = TRUE, !.e.cfg = IF o.e.pending THEN @ ELSE cfg]
  IN IF o.e.pending THEN Restarted(loaded, "push") ELSE loaded
CommitSettings(o) ==
  LET edited == [o EXCEPT !.e.pending = TRUE]
  IN IF o.e.loaded THEN Restarted(edited, "push") ELSE edited

PushTimer ==
  LET o == Fired("push")
  IN /\ timers["push"] > 0
     /\ OverviewBecomes(IF Linked(o) THEN Ask([o EXCEPT !.e.pending = FALSE],
                                              "config.set", o.e.cfg, FALSE)
                                     ELSE o)
     /\ UNCHANGED events

-----------------------------------------------------------------------------
(* The health report.                                                      *)

Automatic(checks) ==
  {c.fix : c \in {d \in Ailing(checks) :
     d.fix \in {"restart", "resume", "enable-ocr", "enable-accessibility", "install-vcredist",
                "download-translation"}}}

ShowChecks(o, checks, from) ==
  [o EXCEPT !.v.checks = checks, !.v.from = from, !.v.fixAllOn = ~o.v.fixing]

\* What can be told without the daemon: it is not running, or does not answer. What the page adds
\* here and to a report about itself, which nothing fixes, is left out.
LocalChecks(o) ==
  {Of("daemon", "error", "restart")} \cup Where(o.m.log # "quiet", Of("log", "info", "none"))
ShowLocal(o) == ShowChecks(o, LocalChecks(o), 0)

CheckHealth(o, interactive) ==
  IF o.v.checking \/ o.v.fixing THEN o
  ELSE IF ~Linked(o) THEN ShowLocal(o)
  ELSE Ask([o EXCEPT !.v.checking = TRUE, !.v.checkOn = FALSE], "health", interactive, TRUE)

Checked(o) == [o EXCEPT !.v.checking = FALSE, !.v.checkOn = TRUE]
ReportComes(o, report, from) == ShowChecks(Checked(o), report, from)
NoReport(o) == ShowChecks(Checked(o), LocalChecks(o) \cup {Of("health", "error", "restart")}, 0)

\* What the daemon says: it found Microsoft's runtime when it started, or not, and a daemon that is
\* on its way is another one.
ReportOf(o, interactive) ==
  HealthReport([o.m EXCEPT !.runtime = o.d.runtime, !.others = @ \/ o.c # {}], o.d.cfg, interactive)

-----------------------------------------------------------------------------
(* Starting the daemon again.                                              *)

FinishRestart(o, ok) ==
  LET ended == [o EXCEPT !.v.restarting = FALSE, !.v.restartOn = TRUE, !.t["restart"] = 0]
  IN IF ok THEN After(ended, "recheck") ELSE ShowLocal(ended)

\* The program may not be there.
Restart(o, there) ==
  IF o.v.restarting THEN o
  ELSE LET begun == [o EXCEPT !.v.restarting = TRUE, !.v.replaced = o.l.to, !.v.restartOn = FALSE]
       IN IF there THEN Restarted(StartDaemon(begun), "restart") ELSE FinishRestart(begun, FALSE)

\* Only a new one counts, when there was one.
StatusPolled(o, pid) ==
  IF o.v.restarting /\ pid # o.v.replaced THEN FinishRestart(o, TRUE) ELSE o

RestartTimer ==
  /\ timers["restart"] > 0
  /\ \/ OverviewBecomes(FinishRestart(AsOverview, FALSE)) /\ Counted(TRUE)
     \/ /\ Linked(AsOverview) /\ \A p \in link.pending : p.what # "status"
        /\ UNCHANGED events
        /\ OverviewBecomes(Ask(AsOverview, "status", NoDaemon.cfg, TRUE))

-----------------------------------------------------------------------------
(* Fixes.                                                                  *)

Fixing(o) == [o EXCEPT !.v.fixing = TRUE, !.v.fixAllOn = FALSE]
Fixed(o) == [o EXCEPT !.v.fixing = FALSE]

\* Microsoft's runtime: downloaded, installed, and the daemon started on it.
InstallRuntime(o, there) ==
  IF o.m.runtime THEN Restart(Fixed(o), there)
  ELSE After([Fixing(o) EXCEPT !.v.checkOn = FALSE], "runtime")
\* A mistake: only the check button is turned on again.
RuntimeFailedOn(o) == [Fixed(o) EXCEPT !.v.checkOn = TRUE]

RuntimeFailed(o) == [Fixed(o) EXCEPT !.v.checkOn = TRUE, !.v.fixAllOn = TRUE]

\* The end of a download of models; `then` is what is done after one that went well.
ModelsEnd(o, ok, then) ==
  LET ended == [Fixed(o) EXCEPT !.v.fixAllOn = TRUE]
  IN IF ~ok THEN ended
     ELSE IF then = "restart" THEN Restart(ended, TRUE) ELSE After(ended, "recheck")

\* Installer::install(): the files that are not there, one install at a time. Without any file
\* it is done at once.
DownloadTranslation(o, then) ==
  IF o.v.then # "none" THEN ModelsEnd(Fixing(o), FALSE, then)
  ELSE IF "missing" \notin o.m.models /\ o.m.runtime
  THEN ModelsEnd(Ask(Fixing(o), "translation.reload", NoDaemon.cfg, FALSE), TRUE, then)
  ELSE After([Fixing(o) EXCEPT !.v.then = then], "models")

EnableSettings(o, fixes) ==
  IF fixes \cap {"enable-ocr", "enable-accessibility"} = {} THEN o
  ELSE CommitSettings([o EXCEPT !.e.cfg.ocr = @ \/ "enable-ocr" \in fixes,
                                !.e.cfg.accessibility = @ \/ "enable-accessibility" \in fixes])

\* The fix of one row. Opening a page and running as administrator are decisions.
FixOne(o, action, there) ==
  CASE action = "restart" -> Restart(o, there)
    [] action = "resume" -> IF Linked(o) THEN Ask(o, "scan.pause", FALSE, TRUE) ELSE After(o, "recheck")
    [] action \in {"enable-ocr", "enable-accessibility"} ->
         After(EnableSettings(o, {action}), "recheck")
    [] action = "install-vcredist" -> InstallRuntime(o, there)
    [] action = "download-translation" -> DownloadTranslation(o, "recheck")

\* "Settings first: they are what a daemon started further down reads."
FixAll(o, there) ==
  LET fixes   == Automatic(o.v.checks)
      set     == EnableSettings(Fixing(o), fixes)
      resumed == IF "resume" \in fixes THEN Ask(set, "scan.pause", FALSE, FALSE) ELSE set
  IN IF o.v.fixing \/ o.v.restarting \/ fixes = {} THEN o
     ELSE IF "install-vcredist" \in fixes THEN InstallRuntime(resumed, there)
     ELSE IF "download-translation" \in fixes
     THEN DownloadTranslation(resumed, IF "restart" \in fixes THEN "restart" ELSE "recheck")
     ELSE IF "restart" \in fixes THEN Restart(Fixed(resumed), there)
     ELSE After(Fixed(resumed), "recheck")

-----------------------------------------------------------------------------
(* What waited comes.                                                      *)
\* A mistake: what changed while the page was busy is not checked again.
HealthTimerOnce ==
  LET busy == view.checking \/ view.restarting \/ view.fixing
  IN /\ timers["health"] > 0
     /\ OverviewBecomes(IF busy THEN Fired("health") ELSE CheckHealth(Fired("health"), FALSE))
     /\ UNCHANGED events


HealthTimer ==
  LET busy == view.checking \/ view.restarting \/ view.fixing
  IN /\ timers["health"] > 0
     /\ OverviewBecomes(IF busy THEN AsOverview ELSE CheckHealth(Fired("health"), FALSE))
     /\ UNCHANGED events

Recheck ==
  /\ timers["recheck"] > 0
  /\ OverviewBecomes(CheckHealth(Fired("recheck"), TRUE)) /\ UNCHANGED events

\* A first check, so problems show without asking.
Quiet ==
  LET o == Fired("quiet")
  IN /\ timers["quiet"] > 0
     /\ OverviewBecomes(IF view.checks = {} THEN CheckHealth(o, FALSE) ELSE o)
     /\ UNCHANGED events

StillGone ==
  LET o == Fired("gone")
  IN /\ timers["gone"] > 0
     /\ OverviewBecomes(IF Linked(o) \/ view.restarting THEN o ELSE ShowLocal(o))
     /\ UNCHANGED events

RuntimeDownloaded ==
  /\ timers["runtime"] > 0
  /\ \/ OverviewBecomes(After(Fired("runtime"), "redist")) /\ Counted(FALSE)
     \/ OverviewBecomes(RuntimeFailed(Fired("runtime"))) /\ Counted(TRUE)

\* Windows lets a program find the new libraries only as it starts.
Redistributable ==
  LET o == [Fired("redist") EXCEPT !.m.runtime = TRUE]
  IN /\ timers["redist"] > 0
     /\ \/ OverviewBecomes(Restart([Fixed(o) EXCEPT !.v.checkOn = TRUE], TRUE)) /\ Counted(FALSE)
        \/ OverviewBecomes(RuntimeFailed(Fired("redist"))) /\ Counted(TRUE)

\* With them comes Microsoft's runtime, where it is missing.
ModelsDownloaded ==
  LET end == [Fired("models") EXCEPT !.v.then = "none"]
      got == [end EXCEPT !.m.models = (@ \ {"missing"}) \cup {"works"}]
  IN /\ timers["models"] > 0
     /\ \/ OverviewBecomes(ModelsEnd(end, FALSE, view.then)) /\ Counted(TRUE)
        \/ /\ Counted(FALSE)
           /\ OverviewBecomes(
                IF machine.runtime
                THEN ModelsEnd(Ask(got, "translation.reload", NoDaemon.cfg, FALSE), TRUE, view.then)
                ELSE After([got EXCEPT !.v.then = view.then], "modelRedist"))

ModelRedistributable ==
  LET end == [Fired("modelRedist") EXCEPT !.v.then = "none"]
  IN /\ timers["modelRedist"] > 0
     /\ \/ /\ OverviewBecomes(ModelsEnd(StartDaemon([end EXCEPT !.m.runtime = TRUE]),
                                        TRUE, view.then))
           /\ Counted(FALSE)
        \/ OverviewBecomes(ModelsEnd(end, FALSE, view.then)) /\ Counted(TRUE)

\* The daemon that takes over starts as was set up.
AdministratorSet ==
  LET o == [Fired("administrator") EXCEPT !.v.administrator = FALSE]
  IN /\ timers["administrator"] > 0
     /\ \/ OverviewBecomes(Restart(o, TRUE)) /\ Counted(FALSE)
        \/ OverviewBecomes(o) /\ Counted(TRUE)

-----------------------------------------------------------------------------
(* The connection comes, speaks and goes.                                  *)

Connected ==
  LET linked == LoadSettings([AsOverview EXCEPT !.l.to = daemon.pid])
  IN /\ link.to = 0 /\ daemon.pid # 0 /\ ~daemon.hung
     /\ OverviewBecomes(IF view.restarting THEN linked ELSE After(linked, "quiet"))
     /\ UNCHANGED events

\* failPending(), then the page is told.
Disconnected ==
  LET o      == [AsOverview EXCEPT !.l = Unlinked]
      Waited(what) == \E p \in link.pending : p.what = what
      failed == IF Waited("health") THEN NoReport(o) ELSE o
      again  == IF Waited("scan.pause") THEN After(failed, "recheck") ELSE failed
  IN /\ link.to # 0 /\ link.to # daemon.pid
     /\ OverviewBecomes(IF view.restarting THEN again ELSE After(again, "gone"))
     /\ UNCHANGED events

\* An answer nobody waits for any more is dropped.
Reply(o, message) ==
  CASE message.what = "health"     -> ReportComes(o, message.arg, o.l.to)
    [] message.what = "status"     -> StatusPolled(o, o.l.to)
    [] message.what = "config.get" -> SettingsLoaded(o, message.arg)
    [] message.what = "scan.pause" -> After(o, "recheck")

\* What the health depends on changed: checked again, or when the page is shown.
Noticed(o) == IF o.v.visible THEN Restarted(o, "health") ELSE [o EXCEPT !.v.stale = TRUE]

\* Settings read again what another client changed; their own pushes come back too.
Event(o, message) ==
  IF message.what = "status.changed" THEN {Noticed([o EXCEPT !.e.cfg.paused = message.arg])}
  ELSE {Noticed(o), Noticed(LoadSettings(o))}

ReadMessage ==
  LET message == Head(link.answers)
      o       == [AsOverview EXCEPT !.l.answers = Tail(@)]
      waits   == {p \in link.pending : p.id = message.id}
  IN /\ link.answers # <<>>
     /\ IF message.id = 0 THEN \E then \in Event(o, message) : OverviewBecomes(then)
        ELSE OverviewBecomes(IF waits = {} THEN o
                             ELSE Reply([o EXCEPT !.l.pending = @ \ waits], message))
     /\ UNCHANGED events

CallTimesOut ==
  \E p \in link.pending :
    LET o == [AsOverview EXCEPT !.l.pending = @ \ {p}]
    IN /\ Counted(TRUE)
       /\ OverviewBecomes(CASE p.what = "health"     -> NoReport(o)
                            [] p.what = "scan.pause" -> After(o, "recheck")
                            [] OTHER                 -> o)

-----------------------------------------------------------------------------
(* Daemons.                                                                *)

Told(o, id, what, arg) ==
  IF o.l.to # o.d.pid THEN o
  ELSE [o EXCEPT !.l.answers = Append(@, [id |-> id, what |-> what, arg |-> arg])]
Configured(o, cfg) == Told([o EXCEPT !.d.cfg = cfg, !.s = cfg], 0, "config.changed", FALSE)
Paused(o, paused) ==
  Told(Configured(o, [o.d.cfg EXCEPT !.paused = paused]), 0, "status.changed", paused)

DaemonHandles ==
  LET call == Head(link.calls)
      o    == [AsOverview EXCEPT !.l.calls = Tail(@)]
      Answer(then, arg) == Told(then, call.id, call.what, arg)
  IN /\ link.calls # <<>> /\ link.to = daemon.pid /\ ~daemon.hung
     /\ OverviewBecomes(
          CASE call.what = "config.set" -> Answer(Configured(o, call.arg), FALSE)
            [] call.what = "scan.pause" -> Answer(Paused(o, call.arg), FALSE)
            [] call.what = "config.get" -> Answer(o, daemon.cfg)
            [] call.what = "status"     -> Answer(o, FALSE)
            [] call.what = "health"     -> Answer(o, ReportOf(o, call.arg))
            [] call.what = "translation.reload" -> Answer(o, FALSE))
     /\ UNCHANGED events

\* lexiglancectl, or the tray.
PausedByOthers ==
  /\ daemon.pid # 0 /\ ~daemon.hung /\ Counted(TRUE)
  /\ OverviewBecomes(Paused(AsOverview, ~daemon.cfg.paused))

\* The settings are read before the daemon that runs is asked to end.
ReadsSettings ==
  \E c \in coming :
    /\ ~c.read
    /\ OverviewBecomes([AsOverview EXCEPT !.c = (@ \ {c}) \cup {[c EXCEPT !.read = TRUE, !.cfg = saved]}])
    /\ UNCHANGED events

\* It ended the others, asked or not.
TakesOver ==
  \E c \in coming :
    /\ c.read
    /\ OverviewBecomes([AsOverview EXCEPT
         !.c = @ \ {c}, !.m.others = FALSE, !.m.replaced = FALSE,
         !.d = [pid |-> c.pid, cfg |-> c.cfg, runtime |-> c.runtime, hung |-> FALSE]])
    /\ UNCHANGED events

Hangs ==
  /\ daemon.pid # 0 /\ ~daemon.hung /\ Counted(TRUE)
  /\ OverviewBecomes([AsOverview EXCEPT !.d.hung = TRUE])

DaemonGoes ==
  /\ daemon.pid # 0 /\ Counted(TRUE)
  /\ OverviewBecomes([AsOverview EXCEPT !.d = NoDaemon])

-----------------------------------------------------------------------------
(* Clicks.                                                                 *)

RowFixes == {c.fix : c \in Ailing(view.checks)}

ClickCheck == view.checkOn /\ Counted(TRUE) /\ OverviewBecomes(CheckHealth(AsOverview, TRUE))
ClickPause == \E paused \in BOOLEAN :
  /\ Linked(AsOverview) /\ Counted(TRUE)
  /\ OverviewBecomes(Ask(AsOverview, "scan.pause", paused, FALSE))
ClickRestart == \E there \in BOOLEAN :
  view.restartOn /\ Counted(TRUE) /\ OverviewBecomes(Restart(AsOverview, there))
ClickFixAll == \E there \in BOOLEAN :
  view.fixAllOn /\ Counted(TRUE) /\ OverviewBecomes(FixAll(AsOverview, there))
ClickFix == \E there \in BOOLEAN, action \in RowFixes \cap Automatic(view.checks) :
  Counted(TRUE) /\ OverviewBecomes(FixOne(AsOverview, action, there))

ShowPage ==
  LET o == [AsOverview EXCEPT !.v.visible = ~@, !.v.stale = @ /\ view.visible]
  IN /\ Counted(TRUE)
     /\ OverviewBecomes(IF view.stale /\ ~view.visible THEN Restarted(o, "health") ELSE o)

\* Windows asks. Off while it is being set up or removed.
ClickAdministrator ==
  /\ machine.windows /\ ~view.administrator /\ Counted(TRUE)
  /\ OverviewBecomes(After([AsOverview EXCEPT !.v.administrator = TRUE], "administrator"))

OverviewNext ==
  \/ ClickCheck \/ ClickPause \/ ClickRestart \/ ClickFixAll \/ ClickFix \/ ShowPage \/ ClickAdministrator
  \/ HealthTimer \/ Recheck \/ Quiet \/ StillGone \/ RestartTimer \/ PushTimer
  \/ RuntimeDownloaded \/ Redistributable \/ ModelsDownloaded \/ ModelRedistributable
  \/ AdministratorSet
  \/ Connected \/ Disconnected \/ ReadMessage \/ CallTimesOut
  \/ DaemonHandles \/ PausedByOthers \/ ReadsSettings \/ TakesOver \/ Hangs \/ DaemonGoes

OverviewSpec == OverviewInit /\ [][OverviewNext]_overviewVars

-----------------------------------------------------------------------------
\* Whatever was begun ends: a button is off, and a check, a fix or a restart under way, only while
\* something is on its way that ends it, in whatever order answers, time-outs, ends of the daemon
\* and further clicks come.
ButtonsComeBack ==
  /\ view.checking => \E p \in link.pending : p.what = "health"
  /\ view.restarting => timers["restart"] > 0
  /\ view.fixing => \E t \in {"runtime", "redist", "models", "modelRedist"} : timers[t] > 0
  /\ ~view.checkOn => view.checking \/ timers["runtime"] + timers["redist"] > 0
  /\ ~view.restartOn => view.restarting
  /\ ~view.fixAllOn =>
       view.checking \/ view.fixing \/ view.restarting \/ timers["recheck"] > 0
  /\ view.administrator => timers["administrator"] > 0

\* Once nothing is on its way any more, the page offers to fix the settings that keep the daemon
\* from looking up, and no others: what changed while it checked, fixed or was hidden is checked
\* again.
AtRest ==
  /\ view.visible /\ link.to = daemon.pid /\ link.calls = <<>> /\ link.answers = <<>>
  /\ link.pending = {} /\ \A t \in Timers : timers[t] = 0
SettingFixes == {"resume", "enable-ocr", "enable-accessibility"}
OfferIsCurrent ==
  AtRest /\ view.from # 0 /\ view.from = daemon.pid =>
    SettingFixes \cap Automatic(view.checks)
      = SettingFixes \cap Automatic(ReportOf(AsOverview, FALSE))
=============================================================================
