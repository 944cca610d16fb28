------------------------------ MODULE Uninstall ------------------------------
(***************************************************************************)
(* Taking Lexiglance off a computer: the settings application's Uninstall  *)
(* (apps/gui/UninstallOverlay), `lexiglancectl uninstall`, Windows' own    *)
(* uninstaller and the script of a portable copy, with what they share     *)
(* (core/Uninstall), the services that bring the daemon back, and Run as   *)
(* administrator's scheduled task (Elevation, RunAsAdministrator).         *)
(*                                                                         *)
(* An action is what one program does until it waits: for the root         *)
(* password, for the daemon's answer, for a program it started. The other  *)
(* programs go on meanwhile, and between the steps of stopPrograms().      *)
(***************************************************************************)
EXTENDS Integers, FiniteSets

CONSTANTS
  Installations,   \* [windows, built, uninstaller, appimage, deb, rpm, root, keeper, task]: what
                   \* is found, whether its folder takes root, the service and the task it has
  MaxTroubles      \* bound: what fails, hangs, is refused, or is done again by the user

ASSUME InstallationsAssumption ==
  /\ Installations \subseteq
       [windows : BOOLEAN, built : BOOLEAN, uninstaller : BOOLEAN, appimage : BOOLEAN,
        deb : BOOLEAN, rpm : BOOLEAN, root : BOOLEAN,
        keeper : {"none", "systemd", "dinit", "OpenRC", "runit", "s6"}, task : {"none", "ours", "byHand"}]
  /\ \A i \in Installations :
       IF i.windows THEN i.keeper = "none" /\ ~i.root ELSE i.task = "none"

VARIABLES
  installation,
  files,      \* what there is of {"programs", "shared", "entries", "data"}
  keeper,     \* the service that starts the daemon again, "told" for runit that did not read yet,
              \* "left" for one that was not taken down as its command or its pipe failed
  works,      \* the daemon: [runs, hung, elevated, quits]
  scheduled,  \* the task: "none", "ours", or "byHand" that its user may not delete
  card,       \* [open, busy, finished, erase]; an application that ended has none
  removal,    \* of the card and of the terminal: [at, plan, failed]
  external,   \* Windows' uninstaller or the script: [runs, erase]
  elevation,  \* Run as administrator being changed: [runs, waits], what runs and if it is waited for
  troubles

uninstallVars ==
  <<installation, files, keeper, works, scheduled, card, removal, external, elevation, troubles>>

Everything == {"programs", "shared", "entries", "data"}
NoPlan   == [programs |-> {}, package |-> FALSE, integration |-> {}, data |-> {}]
Idle     == [at |-> "idle", plan |-> NoPlan, failed |-> {}]
NoCard   == [open |-> FALSE, busy |-> FALSE, finished |-> FALSE, erase |-> TRUE]
Ended    == [runs |-> FALSE, hung |-> FALSE, elevated |-> FALSE, quits |-> FALSE]

UninstallInit ==
  /\ installation \in Installations
  /\ files = Everything /\ keeper = installation.keeper
  /\ works = [Ended EXCEPT !.runs = TRUE, !.elevated = installation.task # "none"]
  /\ scheduled = installation.task
  /\ card = NoCard
  /\ removal = [who \in {"card", "terminal"} |-> Idle]
  /\ external = [runs |-> "none", erase |-> FALSE]
  /\ elevation = [runs |-> "none", waits |-> FALSE]
  /\ troubles = 0

Trouble(happens) ==
  /\ troubles' = troubles + (IF happens THEN 1 ELSE 0)
  /\ troubles' <= MaxTroubles

-----------------------------------------------------------------------------
(* plan()                                                                  *)

\* A build first, then what the system says of this copy; a prefix is what is left.
Kind ==
  CASE installation.built                                -> "BuildTree"
    [] installation.windows /\ installation.uninstaller  -> "WindowsSetup"
    [] installation.windows                              -> "WindowsPortable"
    [] installation.appimage                             -> "AppImage"
    [] installation.deb                                  -> "Deb"
    [] installation.rpm                                  -> "Rpm"
    [] OTHER                                             -> "Prefix"

\* Only what is there is planned. The programs of a package are the package manager's, those of a
\* build stay.
Plan(erase) ==
  [programs    |-> CASE Kind \in {"WindowsPortable", "Prefix"} -> files \cap {"programs", "shared"}
                     [] Kind = "AppImage"                      -> files \cap {"programs"}
                     [] OTHER                                  -> {},
   package     |-> Kind \in {"Deb", "Rpm"},
   integration |-> IF installation.windows THEN {} ELSE files \cap {"entries"},
   data        |-> IF erase THEN files \cap {"data"} ELSE {}]

\* The command run as root, and what is left to remove without it.
TakesRoot(plan) == plan.package \/ (installation.root /\ plan.programs # {})
Own(plan) == IF TakesRoot(plan) THEN {} ELSE plan.programs

Begun(at, plan) == [at |-> at, plan |-> plan, failed |-> {}]

\* Where it begins once it is wanted.
Goes(who, at) == removal' = [removal EXCEPT ![who].at = at]

\* fail(): the card as before; the terminal says why and ends.
Fails(who, why) ==
  /\ Goes(who, why)
  /\ card' = IF who = "card" THEN [card EXCEPT !.busy = FALSE] ELSE card
  /\ Trouble(TRUE)

\* finish(): the card only closes after this.
Finishes(who) ==
  card' = IF who = "card" THEN [card EXCEPT !.busy = FALSE, !.finished = TRUE] ELSE card

-----------------------------------------------------------------------------
(* The card and the terminal.                                              *)

OpenCard ==
  /\ ~card.open
  /\ card' = [NoCard EXCEPT !.open = TRUE]
  /\ UNCHANGED <<installation, files, keeper, works, scheduled, removal, external, elevation, troubles>>

ToggleErase ==
  /\ card.open /\ ~card.busy /\ ~card.finished
  /\ card' = [card EXCEPT !.erase = ~@]
  /\ UNCHANGED <<installation, files, keeper, works, scheduled, removal, external, elevation, troubles>>

\* removeNow(): its user may delete the task; it is not waited for longer than ten seconds.
Unscheduled == {scheduled} \cup (IF scheduled = "ours" THEN {"none"} ELSE {})
RemoveNow ==
  /\ scheduled' \in IF installation.windows THEN Unscheduled ELSE {scheduled}
  /\ Trouble(scheduled' = "ours")

\* The application ends: its card and what it waited for go with it.
Quits ==
  /\ card' = NoCard
  /\ elevation' = [elevation EXCEPT !.waits = FALSE]

\* start(): what takes root first, as it can be refused with nothing changed yet.
ClickUninstall ==
  LET plan == Plan(card.erase)
  IN /\ card.open /\ ~card.busy /\ ~card.finished
     /\ RemoveNow
     /\ CASE Kind = "WindowsSetup" ->
               \/ /\ external' = [runs |-> "setup", erase |-> card.erase]
                  /\ Quits /\ removal' = [removal EXCEPT !["card"] = Begun("idle", plan)]
                  /\ UNCHANGED files
               \/ /\ card' = card /\ removal' = [removal EXCEPT !["card"] = Begun("failed", plan)]
                  /\ UNCHANGED <<external, elevation, files>>
          [] Kind = "WindowsPortable" ->
               /\ card' = [card EXCEPT !.busy = TRUE]
               /\ removal' = [removal EXCEPT !["card"] = Begun("ask", plan)]
               /\ files' = files \ {"entries"}
               /\ UNCHANGED <<external, elevation>>
          [] OTHER ->
               /\ card' = [card EXCEPT !.busy = TRUE]
               /\ removal' = [removal EXCEPT !["card"] =
                                Begun(IF TakesRoot(plan) THEN "root" ELSE "ask", plan)]
               /\ UNCHANGED <<external, elevation, files>>
     /\ UNCHANGED <<installation, keeper, works>>

\* Its own uninstaller does all of it; a portable copy is not uninstalled from here.
CtlUninstall ==
  \E erase \in BOOLEAN :
    LET plan == Plan(erase)
    IN /\ removal["terminal"].at \in {"idle", "refused", "failed"} /\ "programs" \in files
       /\ Kind # "WindowsPortable"
       /\ IF Kind = "WindowsSetup"
          THEN /\ external.runs = "none" /\ external' = [runs |-> "setup", erase |-> erase]
               /\ UNCHANGED removal
          ELSE /\ removal' = [removal EXCEPT !["terminal"] =
                                Begun(IF TakesRoot(plan) THEN "root" ELSE "services", plan)]
               /\ UNCHANGED external
       /\ Trouble(TRUE)
       /\ UNCHANGED <<installation, files, keeper, works, scheduled, card, elevation>>

\* pkexec or sudo: refused, not there, done; or the command itself fails, whatever it did by then.
RootAnswers(who) ==
  LET taken == IF removal[who].plan.package THEN {"programs", "shared"} ELSE removal[who].plan.programs
  IN /\ removal[who].at = "root"
     /\ \/ /\ files' = files \ taken
           /\ Goes(who, IF who = "card" THEN "ask" ELSE "services")
           /\ UNCHANGED <<card, troubles>>
        \/ Fails(who, "refused") /\ UNCHANGED files
        \/ \E some \in SUBSET taken : files' = files \ some /\ Fails(who, "failed")
     /\ UNCHANGED <<installation, keeper, works, scheduled, external, elevation>>

-----------------------------------------------------------------------------
(* stopPrograms()                                                          *)

\* The card asks the daemon over its pipe first: it answers, and ends; or no answer comes.
AsksDaemon ==
  /\ removal["card"].at = "ask"
  /\ \/ works.runs /\ ~works.hung /\ works' = [works EXCEPT !.quits = TRUE]
     \/ (~works.runs \/ works.hung) /\ UNCHANGED works
  /\ Goes("card", "services")
  /\ UNCHANGED <<installation, files, keeper, scheduled, card, external, elevation, troubles>>

\* Where the service is: a package and a prefix bring systemd's, others are copied by their user.
Service ==
  IF installation.keeper = "systemd" /\ Kind \in {"Deb", "Rpm", "Prefix"} THEN "shared" ELSE "entries"

\* systemctl is always run; of the others only what is where the documentation has it is told. What
\* becomes of s6 is up to its user.
Seen ==
  /\ keeper \notin {"none", "s6"}
  /\ installation.keeper = "systemd" \/ Service \in files

\* What the command fails for, a service that is gone among it, is not looked at.
StaysUp ==
  /\ keeper' = IF keeper = "told" THEN "told" ELSE "left"
  /\ Trouble(Service \in files) /\ UNCHANGED works

\* A mistake: only what systemd keeps is taken down.
ServicesStay(who) ==
  /\ removal[who].at = "services"
  /\ \/ ~Seen /\ UNCHANGED <<keeper, works, troubles>>
     \/ /\ Seen /\ Service \in files /\ UNCHANGED troubles
        /\ IF installation.keeper = "systemd" THEN keeper' = "none" /\ works' = Ended
           ELSE UNCHANGED <<keeper, works>>
     \/ Seen /\ StaysUp
  /\ Goes(who, "end")
  /\ UNCHANGED <<installation, files, scheduled, card, external, elevation>>

\* First whatever would bring the daemon back. systemd, dinit and OpenRC end the daemon as they take
\* the service down, and are waited for; runit is told in its pipe. Whether it helped is not asked.
ServicesDown(who) ==
  /\ removal[who].at = "services"
  /\ \/ ~Seen /\ UNCHANGED <<keeper, works, troubles>>
     \/ /\ Seen /\ Service \in files /\ UNCHANGED troubles
        /\ IF installation.keeper = "runit" THEN keeper' = "told" /\ UNCHANGED works
           ELSE keeper' = "none" /\ works' = Ended
     \/ Seen /\ StaysUp
  /\ Goes(who, "end")
  /\ UNCHANGED <<installation, files, scheduled, card, external, elevation>>

\* Asked to end, killed after three seconds. On Windows one with administrator rights is not seen.
Killed(daemon) == IF daemon.runs /\ installation.windows /\ daemon.elevated THEN daemon ELSE Ended

\* Every daemon there is now, and the settings application unless it is the one that does this.
EndPrograms(who) ==
  /\ removal[who].at = "end"
  /\ works' = Killed(works)
  /\ IF who = "terminal"
     THEN /\ Quits
          /\ removal' = [removal EXCEPT !["terminal"].at = "remove", !["card"] = Idle]
     ELSE /\ Goes("card", IF Kind = "WindowsPortable" THEN "script" ELSE "remove")
          /\ UNCHANGED <<card, elevation>>
  /\ UNCHANGED <<installation, files, keeper, scheduled, external, troubles>>

-----------------------------------------------------------------------------
(* Removing.                                                               *)

\* remove(): what cannot be deleted is told.
RemoveRest(who) ==
  LET plan == removal[who].plan
      rest == Own(plan) \cup plan.integration \cup plan.data
  IN /\ removal[who].at = "remove"
     /\ \E failed \in SUBSET (rest \cap files) :
          /\ files' = files \ (rest \ failed)
          /\ removal' = [removal EXCEPT ![who].at = "done", ![who].failed = failed]
          /\ Trouble(failed # {})
     /\ Finishes(who)
     /\ UNCHANGED <<installation, keeper, works, scheduled, external, elevation>>

\* The page behind the card makes the folder of the cache when it finds the daemon gone.
LooksLocally ==
  /\ card.open /\ ~works.runs /\ removal["card"].at \notin {"services", "end", "remove", "script"}
  /\ files' = files \cup {"data"}
  /\ UNCHANGED <<installation, keeper, works, scheduled, card, removal, external, elevation, troubles>>

\* A portable copy is removed once this program has ended.
StartScript ==
  /\ removal["card"].at = "script"
  /\ \/ /\ external' = [runs |-> "script", erase |-> removal["card"].plan.data # {}]
        /\ Quits /\ Goes("card", "idle") /\ UNCHANGED troubles
     \/ Fails("card", "failed") /\ UNCHANGED <<external, elevation>>
  /\ UNCHANGED <<installation, files, keeper, works, scheduled>>

CloseCard ==
  /\ card.open /\ ~card.busy
  /\ IF card.finished THEN Quits ELSE card' = NoCard /\ UNCHANGED elevation
  /\ UNCHANGED <<installation, files, keeper, works, scheduled, removal, external, troubles>>

\* The setup's uninstaller asks the daemon to quit, ends what it may, deletes the task and then the
\* rest; the script ends what it may and deletes. What still runs keeps its file.
ExternalRemoves ==
  LET asked  == external.runs = "setup" /\ ~works.hung
      ended  == IF asked \/ ~works.elevated THEN Ended ELSE works
      inUse  == IF ended.runs THEN {"programs"} ELSE {}
      gone   == {"programs", "shared"} \cup (IF external.erase THEN {"data"} ELSE {})
                  \cup (IF external.runs = "setup" THEN {"entries"} ELSE {})
  IN /\ external.runs # "none"
     /\ works' = ended /\ files' = files \ (gone \ inUse)
     /\ scheduled' \in IF external.runs = "setup" THEN Unscheduled ELSE {scheduled}
     /\ Trouble(external.runs = "setup" /\ scheduled' = "ours")
     /\ external' = [runs |-> "none", erase |-> FALSE]
     /\ Quits /\ removal' = [removal EXCEPT !["card"] = Idle]
     /\ UNCHANGED <<installation, keeper>>

-----------------------------------------------------------------------------
(* The daemon and the service that keeps it.                               *)

\* It makes its folders and its log.
KeeperStarts ==
  /\ keeper # "none" /\ ~works.runs /\ "programs" \in files
  /\ works' = [Ended EXCEPT !.runs = TRUE]
  /\ files' = files \cup {"data"}
  /\ UNCHANGED <<installation, keeper, scheduled, card, removal, external, elevation, troubles>>

\* It writes what it counted.
DaemonEnds ==
  /\ works.runs /\ works.quits /\ ~works.hung
  /\ works' = Ended /\ files' = files \cup {"data"}
  /\ UNCHANGED <<installation, keeper, scheduled, card, removal, external, elevation, troubles>>

\* "dx": the service down, and its supervisor.
RunitReads ==
  /\ keeper = "told" /\ keeper' = "none"
  /\ works' = Ended
  /\ UNCHANGED <<installation, files, scheduled, card, removal, external, elevation, troubles>>

DaemonHangs ==
  /\ works.runs /\ ~works.hung /\ Trouble(TRUE)
  /\ works' = [works EXCEPT !.hung = TRUE]
  /\ UNCHANGED <<installation, files, keeper, scheduled, card, removal, external, elevation>>

-----------------------------------------------------------------------------
(* Run as administrator.                                                   *)

\* On: Windows asks, then the daemon program sets it up with those rights. Off: the daemon program
\* as it is.
SetAdministrator ==
  /\ installation.windows /\ ~card.open /\ ~elevation.waits /\ elevation.runs = "none"
  /\ "programs" \in files /\ Trouble(TRUE)
  /\ elevation' \in {[runs |-> IF scheduled = "none" THEN "on" ELSE "off", waits |-> TRUE], elevation}
  /\ UNCHANGED <<installation, files, keeper, works, scheduled, card, removal, external>>

\* install(), unless the rights are another account's or were refused.
AdministratorOn ==
  /\ elevation.runs = "on" /\ scheduled' \in {"ours", scheduled}
  /\ elevation' = [runs |-> "none", waits |-> FALSE]
  /\ UNCHANGED <<installation, files, keeper, works, card, removal, external, troubles>>

\* remove() as its user, then as administrator, if it is still waited for.
AdministratorOff ==
  /\ elevation.runs = "off" /\ scheduled' \in Unscheduled
  /\ LET again == scheduled' # "none" /\ elevation.waits
     IN elevation' = [runs |-> IF again THEN "offElevated" ELSE "none", waits |-> again]
  /\ UNCHANGED <<installation, files, keeper, works, card, removal, external, troubles>>

AdministratorOffElevated ==
  /\ elevation.runs = "offElevated" /\ scheduled' \in {"none", scheduled}
  /\ elevation' = [runs |-> "none", waits |-> FALSE]
  /\ UNCHANGED <<installation, files, keeper, works, card, removal, external, troubles>>

\* A minute passes: it is not waited for any longer.
AdministratorExpires ==
  /\ elevation.waits /\ elevation.runs # "off" /\ Trouble(TRUE)
  /\ elevation' = [elevation EXCEPT !.waits = FALSE]
  /\ UNCHANGED <<installation, files, keeper, works, scheduled, card, removal, external>>

UninstallNext ==
  \/ OpenCard \/ ToggleErase \/ ClickUninstall \/ CtlUninstall \/ CloseCard
  \/ LooksLocally \/ AsksDaemon \/ StartScript \/ ExternalRemoves
  \/ \E who \in {"card", "terminal"} :
       RootAnswers(who) \/ ServicesDown(who) \/ EndPrograms(who) \/ RemoveRest(who)
  \/ KeeperStarts \/ DaemonEnds \/ RunitReads \/ DaemonHangs
  \/ SetAdministrator \/ AdministratorOn \/ AdministratorOff \/ AdministratorOffElevated
  \/ AdministratorExpires

UninstallSpec == UninstallInit /\ [][UninstallNext]_uninstallVars

-----------------------------------------------------------------------------
\* Services past taking them down, and those of them that may start the daemon yet.
Settled   == {"none", "told", "left", "s6"}
StillUp   == {"told", "left", "s6"}

\* Once it is said that Lexiglance was uninstalled, no program or entry of it is left that is not
\* told, every service that can be told was told to end, and no daemon runs, in whatever order the
\* daemon, its service and both ways to uninstall took their steps. What may bring the daemon back yet:
\* runit that did not read that it is to end; a service whose command or pipe failed, as this is not
\* looked at; s6, which nobody tells; and a daemon with administrator rights that does not answer
\* cannot be ended, by a build's own copy.
NothingBringsItBack ==
  \A who \in DOMAIN removal :
    LET r        == removal[who]
        programs == IF r.plan.package THEN {"programs", "shared"} ELSE r.plan.programs
    IN r.at = "done" =>
         /\ (programs \cup r.plan.integration) \cap files \subseteq r.failed
         /\ keeper \in Settled
         /\ works.runs => \/ keeper \in StillUp
                          \/ installation.windows /\ works.elevated
=============================================================================
