----------------------------- MODULE UpdateGroup -----------------------------
(***************************************************************************)
(* How a copy of Lexiglance updates itself (apps/gui/UpdateGroup): the     *)
(* settings window, when asked or by a timer, and a program without a      *)
(* window that the daemon starts now and then, look for the newest         *)
(* release, get its file and its checksum, put it in place of this copy    *)
(* and start again.                                                        *)
(*                                                                         *)
(* Each program has one thread: an action is one callback of it, an answer *)
(* of the network, or what Windows' setup, a script or a package manager   *)
(* does once it was started.                                               *)
(***************************************************************************)
EXTENDS Integers, FiniteSets

CONSTANTS
  Copies,          \* how copies were installed: [kind, dev, builds], a dev build can put the
                   \* build a release makes for this system in its place
  MaxVersion,      \* bound: releases made
  MaxWaiting,      \* bound: callbacks that wait
  MaxMishaps       \* bound: answers that fail, programs ended by the user

\* What copies are, as they were installed.
Kinds == {"WindowsSetup", "WindowsPortable", "AppImage", "Deb", "Rpm", "Source", "Other"}

ASSUME CopiesAssumption == Copies \subseteq [kind : Kinds, dev : BOOLEAN, builds : Kinds]

VARIABLES
  release,      \* the newest release
  program,      \* what is installed: [kind, dev, builds, version]
  memory,       \* applicationMemory(): [automatic, installing, recent, changes]
  folder,       \* the folder of updates: [lock, file], which program wrote the lock and the version
                \* of the file downloaded, 0 for none
  groups,       \* the two programs: [runs, version, busy, latest, locked]
  waiting,      \* the callbacks that wait: [id, by, step, then, kind, version]
  mishaps

updateVars == <<release, program, memory, folder, groups, waiting, mishaps>>

Gone == [runs |-> FALSE, version |-> 0, busy |-> FALSE, latest |-> 0, locked |-> FALSE]

UpdateInit ==
  /\ release = 1
  /\ \E c \in Copies : program = [kind |-> c.kind, dev |-> c.dev, builds |-> c.builds, version |-> 1]
  /\ memory \in [automatic : BOOLEAN, installing : {0, 1}, recent : {TRUE}, changes : {0}]
  /\ folder = [lock |-> "none", file |-> 0]
  /\ groups = [p \in {"window", "background"} |-> Gone]
  /\ waiting = {}
  /\ mishaps = 0

\* What the bound counts.
Mishap(happens) ==
  /\ mishaps' = mishaps + IF happens THEN 1 ELSE 0
  /\ mishaps' <= MaxMishaps

OnWindows == program.kind \in {"WindowsSetup", "WindowsPortable"} \/ program.builds = "WindowsSetup"

\* assetName(): these cannot replace themselves.
NoAsset == {"Source", "Other"}

\* installsAutomatically(): the packages ask for a password.
InstallsAutomatically(kind) == kind \in {"WindowsSetup", "WindowsPortable", "AppImage"}

-----------------------------------------------------------------------------
(* Callbacks run into each other: each takes and gives [g, w, f, m, c], the programs, what  *)
(* waits, the folder, what is remembered and what is installed.                            *)

AsItIs == [g |-> groups, w |-> waiting, f |-> folder, m |-> memory, c |-> program]

Waits(o, by, step, then, kind, version) ==
  [o EXCEPT !.w = @ \cup {[id |-> CHOOSE n \in 1 .. MaxWaiting + 1 : \A s \in o.w : s.id # n,
                            by |-> by, step |-> step, then |-> then, kind |-> kind,
                            version |-> version]}]

\* lock_.reset(): the file goes by its name.
Unlocked(o, p) ==
  [o EXCEPT !.g[p].locked = FALSE, !.f.lock = IF o.g[p].locked THEN "none" ELSE @]

\* The program ends, and what waited in it; a lock of a program that is gone is nobody's.
Quit(o, p) ==
  [o EXCEPT !.g[p] = Gone, !.w = {s \in @ : s.by # p},
            !.f.lock = IF @ = p THEN "none" ELSE @]

\* done(): the end of an update in the background.
Finished(o, p) == IF p = "background" THEN Quit(o, p) ELSE o

\* A mistake: the button stays off.
FailBusy(o, p) == Finished(Unlocked(o, p), p)

Fail(o, p) == Finished(Unlocked([o EXCEPT !.g[p].busy = FALSE], p), p)

\* check(): what is answered is a release made by then.
Check(o, p, then, kind) == Waits(o, p, "resolve", then, kind, release)

Update(o, p, automatic) ==
  LET kind == IF o.c.kind = "Source" /\ o.c.dev /\ p = "window" THEN o.c.builds ELSE o.c.kind
      free == Unlocked(o, p)
  IN IF kind \in NoAsset \/ o.g[p].busy THEN Finished(o, p)
     ELSE IF free.f.lock # "none" THEN Finished(free, p)
     ELSE Check([free EXCEPT !.g[p].busy = TRUE, !.g[p].locked = TRUE, !.f.lock = p],
                p, IF automatic THEN "automatic" ELSE "asked", kind)

\* The newest release is known. An automatic update that did not take is not tried again for a day.
Take(o, s, tag) ==
  LET known       == [o EXCEPT !.g[s.by].latest = tag]
      triedBefore == o.m.installing = tag /\ o.m.recent
  IN IF s.then = "none" THEN known
     ELSE IF s.then = "automatic" /\ (o.g[s.by].version >= tag \/ triedBefore)
     THEN Finished(Unlocked([known EXCEPT !.g[s.by].busy = FALSE], s.by), s.by)
     ELSE Waits(known, s.by, "sums", s.then, s.kind, tag)

\* The file that was downloaded takes the place of this copy.
InPlace(o, kind, version) ==
  [o EXCEPT !.c.kind = kind, !.c.dev = o.c.dev /\ kind = o.c.kind, !.c.version = version]

\* install(): what it records is the version last seen. A setup and a script go on without this
\* program, a package manager under it.
Noted(o, p) == [o EXCEPT !.m.installing = o.g[p].latest, !.m.recent = TRUE]

Install(o, s) ==
  LET noted == Noted(o, s.by)
  IN CASE s.kind = "WindowsSetup" ->
            Waits(Quit(noted, s.by), "system", "setup", s.then, s.kind, s.version)
       [] s.kind = "WindowsPortable" ->
            Waits(Quit(noted, s.by), "system", "script", s.then, s.kind, 0)
       [] s.kind = "AppImage" ->
            Quit(InPlace([noted EXCEPT !.f.file = 0], s.kind, o.f.file), s.by)
       [] s.kind \in {"Deb", "Rpm"} -> Waits(noted, s.by, "pkexec", s.then, s.kind, 0)

\* It cannot be started or written, or the AppImage not be replaced: then the file goes.
NotInstalled(o, s) ==
  Fail([Noted(o, s.by) EXCEPT !.f.file = IF s.kind = "AppImage" THEN 0 ELSE @], s.by)

Becomes(o) ==
  /\ groups' = o.g /\ waiting' = o.w /\ folder' = o.f /\ memory' = o.m /\ program' = o.c
  /\ Cardinality(waiting') <= MaxWaiting
  /\ UNCHANGED release

-----------------------------------------------------------------------------
(* The programs.                                                           *)

\* The window opens. After an update it says so, and the folder goes; a file Windows has open stays.
StartWindow ==
  LET open == [AsItIs EXCEPT
                 !.g["window"] = [Gone EXCEPT !.runs = TRUE, !.version = program.version]]
      took == [open EXCEPT
                 !.m.installing = 0, !.m.changes = program.version,
                 !.f.lock = IF OnWindows THEN @ ELSE "none",
                 !.f.file = IF program.kind = "AppImage" THEN @ ELSE 0]
  IN /\ ~groups["window"].runs
     /\ IF memory.installing # program.version THEN Becomes(open)
        ELSE \/ Becomes(took)
             \/ /\ OnWindows
                /\ Becomes(Waits([took EXCEPT !.g["window"].busy = TRUE],
                                 "window", "redist", "none", "WindowsSetup", 0))
     /\ UNCHANGED mishaps

\* Started by the daemon; a window that is open updates by itself.
StartBackground ==
  LET runs == [AsItIs EXCEPT !.g["background"] =
                 [Gone EXCEPT !.runs = TRUE, !.version = program.version]]
  IN /\ ~groups["window"].runs /\ ~groups["background"].runs
     /\ memory.automatic /\ InstallsAutomatically(program.kind)
     /\ Becomes(Update(runs, "background", TRUE))
     /\ UNCHANGED mishaps

\* runAutomatically(): when the window opened, every six hours, and when it was ticked.
RunAutomatically ==
  \E ticked \in BOOLEAN :
    LET o == [AsItIs EXCEPT !.m.automatic = IF ticked THEN ~@ ELSE @]
    IN /\ groups["window"].runs
       /\ IF ~o.m.automatic \/ groups["window"].busy THEN Becomes(o)
          ELSE IF InstallsAutomatically(program.kind) THEN Becomes(Update(o, "window", TRUE))
          ELSE Becomes(Check(o, "window", "none", program.kind))
       /\ UNCHANGED mishaps

\* The button: hidden in a build that is not a dev build, off while an update is made.
ClickUpdate ==
  /\ groups["window"].runs /\ ~groups["window"].busy
  /\ program.kind # "Source" \/ program.dev
  /\ Becomes(Update(AsItIs, "window", FALSE))
  /\ UNCHANGED mishaps

Ends ==
  \E p \in DOMAIN groups :
    groups[p].runs /\ Mishap(TRUE) /\ Becomes(Quit(AsItIs, p))

-----------------------------------------------------------------------------
(* What comes back.                                                        *)

\* What answers, without the callback that waited for it.
Answered(s) == [AsItIs EXCEPT !.w = @ \ {s}]

\* The page of the newest release, else GitHub's API.
Resolved(s) ==
  /\ s.step = "resolve"
  /\ \/ \E tag \in s.version .. release : Becomes(Take(Answered(s), s, tag)) /\ Mishap(FALSE)
     \/ /\ Becomes(Waits(Answered(s), s.by, "api", s.then, s.kind, s.version))
        /\ Mishap(TRUE)

ApiAnswers(s) ==
  /\ s.step = "api"
  /\ \/ \E tag \in s.version .. release : Becomes(Take(Answered(s), s, tag)) /\ Mishap(FALSE)
     \/ Becomes(Fail(Answered(s), s.by)) /\ Mishap(TRUE)

\* SHA256SUMS is there, then the file; a damaged one is removed.
ChecksumComes(s) ==
  /\ s.step = "sums"
  /\ \/ Becomes(Waits(Answered(s), s.by, "file", s.then, s.kind, s.version)) /\ Mishap(FALSE)
     \/ Becomes(Fail(Answered(s), s.by)) /\ Mishap(TRUE)
\* A file whose checksum does not match goes.
Downloaded(s) ==
  LET came == [Answered(s) EXCEPT !.f.file = s.version]
  IN /\ s.step = "file"
     /\ \/ Becomes(Fail(Answered(s), s.by)) /\ Mishap(TRUE)
        \/ Becomes(Fail([came EXCEPT !.f.file = 0], s.by)) /\ Mishap(TRUE)
        \/ Becomes(NotInstalled(came, s)) /\ Mishap(TRUE)
        \/ Becomes(Install(came, s)) /\ Mishap(FALSE)

\* The runtime for OCR was downloaded; its own installer changes nothing here.
RedistDownloaded(s) ==
  /\ s.step = "redist"
  /\ Becomes([Answered(s) EXCEPT !.g["window"].busy = FALSE])
  /\ UNCHANGED mishaps

\* apt-get or rpm, as root: what is in the file by now.
PackageInstalled(s) ==
  /\ s.step = "pkexec"
  /\ \/ /\ folder.file # 0 /\ Mishap(FALSE)
        /\ Becomes(Quit(InPlace(Answered(s), s.kind, folder.file), s.by))
     \/ Becomes(Fail(Answered(s), s.by)) /\ Mishap(TRUE)

\* Windows' setup, or the script of the portable copy: both end the programs first; the old
\* ones come back when it fails.
SystemInstalls(s) ==
  LET ended   == Quit(Quit(Answered(s), "window"), "background")
      version == IF s.step = "setup" THEN s.version ELSE folder.file
  IN /\ s.step \in {"setup", "script"}
     /\ \/ /\ version # 0 /\ Mishap(FALSE)
           /\ Becomes(InPlace(ended, s.kind, version))
        \/ Becomes(ended) /\ Mishap(TRUE)

-----------------------------------------------------------------------------
Releases ==
  /\ release < MaxVersion /\ release' = release + 1
  /\ UNCHANGED <<program, memory, folder, groups, waiting, mishaps>>

DayPasses ==
  /\ memory.recent /\ memory' = [memory EXCEPT !.recent = FALSE]
  /\ UNCHANGED <<release, program, folder, groups, waiting, mishaps>>

UpdateNext ==
  \/ StartWindow \/ StartBackground \/ RunAutomatically \/ ClickUpdate \/ Ends
  \/ Releases \/ DayPasses
  \/ \E s \in waiting :
       \/ Resolved(s) \/ ApiAnswers(s) \/ ChecksumComes(s) \/ Downloaded(s)
       \/ RedistDownloaded(s) \/ PackageInstalled(s) \/ SystemInstalls(s)

UpdateSpec == UpdateInit /\ [][UpdateNext]_updateVars

-----------------------------------------------------------------------------
\* While the button is off something comes that turns it on, and the program without a window
\* does not stay: whatever fails in between, an answer is on its way.
UpdateIsWaitedFor ==
  /\ \A p \in DOMAIN groups :
       groups[p].busy =>
         \E s \in waiting : s.by = p /\ (s.then # "none" \/ s.step = "redist")
  /\ groups["background"].runs => \E s \in waiting : s.by = "background"
=============================================================================
