---------------------------- MODULE MCApplication ----------------------------
(***************************************************************************)
(* The settings application, explored one part at a time: the pages and    *)
(* the settings they share, the updates of the application itself, the     *)
(* Overview page with the health report, and what takes it all off the     *)
(* computer again. The parts share no state here: `part` says which takes  *)
(* steps.                                                                  *)
(***************************************************************************)
EXTENDS SettingsPages, UpdateGroup, OverviewPage, Uninstall

VARIABLE part

applicationVars == <<part, pageVars, updateVars, overviewVars, uninstallVars>>

\* Every way of installing, and dev builds that put a release in their place.
Way(kind, dev, builds) == [kind |-> kind, dev |-> dev, builds |-> builds]
SomeCopies ==
  {Way(k, FALSE, "AppImage") :
     k \in {"WindowsSetup", "WindowsPortable", "AppImage", "Deb", "Other", "Source"}}
    \cup {Way("Source", TRUE, k) : k \in {"AppImage", "WindowsSetup"}}

\* OCR is off and one model of two missing on Linux; on Windows Microsoft's runtime is missing too.
Found(found, ocr) ==
  [found |-> found,
   cfg   |-> [paused |-> FALSE, ocr |-> ocr, accessibility |-> TRUE, translation |-> TRUE]]
SomeMachines ==
  {Found([Healthy EXCEPT !.models = {"missing", "works"}], FALSE),
   Found([Healthy EXCEPT !.windows = TRUE, !.runtime = FALSE, !.models = {"missing"},
                         !.others = TRUE], TRUE)}

\* Every way to remove it, with root's help and without, the services that keep the daemon, and Run
\* as administrator's task, also one that was set up by hand.
Here ==
  [windows |-> FALSE, built |-> FALSE, uninstaller |-> FALSE, appimage |-> FALSE, deb |-> FALSE,
   rpm |-> FALSE, root |-> FALSE, keeper |-> "none", task |-> "none"]
SomeInstallations ==
  {[Here EXCEPT !.keeper = "systemd"], [Here EXCEPT !.keeper = "dinit", !.root = TRUE],
   [Here EXCEPT !.built = TRUE, !.keeper = "runit"], [Here EXCEPT !.built = TRUE, !.keeper = "systemd"],
   [Here EXCEPT !.keeper = "s6"],
   [Here EXCEPT !.appimage = TRUE, !.root = TRUE], [Here EXCEPT !.deb = TRUE, !.keeper = "systemd"],
   [Here EXCEPT !.rpm = TRUE], [Here EXCEPT !.windows = TRUE, !.uninstaller = TRUE, !.task = "ours"],
   [Here EXCEPT !.windows = TRUE, !.task = "byHand"], [Here EXCEPT !.windows = TRUE],
   [Here EXCEPT !.windows = TRUE, !.built = TRUE, !.task = "ours"], Here}

-----------------------------------------------------------------------------
ApplicationInit ==
  /\ part \in {"pages", "update", "overview", "uninstall"}
  /\ PageInit /\ UpdateInit /\ OverviewInit /\ UninstallInit
  /\ part # "update" => program.kind = "Deb" /\ memory.installing = 0 /\ memory.automatic
  /\ part # "overview" => machine.windows /\ started = 0
  /\ part # "uninstall" => installation = Here

OfPages ==
  part = "pages" /\ PageNext /\ UNCHANGED <<part, updateVars, overviewVars, uninstallVars>>
OfUpdate ==
  part = "update" /\ UpdateNext /\ UNCHANGED <<part, pageVars, overviewVars, uninstallVars>>
OfOverview ==
  part = "overview" /\ OverviewNext /\ UNCHANGED <<part, pageVars, updateVars, uninstallVars>>
OfUninstall ==
  part = "uninstall" /\ UninstallNext /\ UNCHANGED <<part, pageVars, updateVars, overviewVars>>

ApplicationNext == OfPages \/ OfUpdate \/ OfOverview \/ OfUninstall
ApplicationSpec == ApplicationInit /\ [][ApplicationNext]_applicationVars
=============================================================================
