----------------------------- MODULE SetupInstall -----------------------------
(***************************************************************************)
(* What the settings application installs (apps/gui): the setup wizard     *)
(* downloads dictionaries, which the daemon imports one after the other,   *)
(* the models of OCR and translation and the runtime they need; the OCR    *)
(* group of a page and the installer of translation models bring the same  *)
(* runtime; the dictionaries page has a queue of its own. Downloads come   *)
(* side by side; the daemon answers, tells of its imports, ends, starts.   *)
(*                                                                         *)
(* The application has one thread: an action is one callback of it, or a   *)
(* step of the network, of an installer or of the daemon.                  *)
(***************************************************************************)
EXTENDS Integers, FiniteSets, Sequences

CONSTANTS
  Wanted,       \* the dictionaries the wizard offers
  PageWants,    \* what is downloaded on the dictionaries page
  Beginnings,   \* what is on the disk at first: sets of files
  MaxTroubles   \* bound: a download or an import fails, the daemon stops by itself, a call is given
                \* up after 15 seconds, something else is installed or imported

ASSUME WantedAssumption ==
  /\ IsFiniteSet(Wanted)
  /\ (Wanted \cup PageWants)
       \cap {"ocr", "translation", "archive", "redist", "library", "vcruntime"} = {}

VARIABLES
  disk,       \* the files there are, the dictionaries installed
  flights,    \* downloads under way: for whom, and what
  wizard,     \* SetupWizard and its InstallBatch
  installs,   \* OcrGroup::fetchAll and translation_install::Installer
  offers,     \* DictionariesPage: its queue
  daemon,     \* [state, jobs, next, starting]: imports are done in their order
  link,       \* the connection: what is on the way, and the calls without an answer
  troubles

setupVars == <<disk, flights, wizard, installs, offers, daemon, link, troubles>>

\* What the bound counts.
Trouble(happens) ==
  /\ troubles' = troubles + IF happens THEN 1 ELSE 0
  /\ troubles' <= MaxTroubles

Idle == [busy |-> FALSE, left |-> 0, failed |-> FALSE, unpack |-> FALSE, redist |-> FALSE,
         stage |-> "none"]

SetupInit ==
  /\ \E files \in Beginnings, done \in SUBSET Wanted :
       disk = [files |-> files, installed |-> done]
  /\ flights = {}
  /\ wizard \in [page : {"languages"}, reinstall : BOOLEAN, installing : {FALSE}, queue : {<<>>},
                 importing : {FALSE}, job : {0}, downloads : {0}, imports : {0}, others : {0},
                 failed : {FALSE}, unpack : {FALSE}, redist : {FALSE}, finishing : {FALSE},
                 stage : {"none"}]
  /\ installs = [who \in {"ocr", "translation"} |-> Idle]
  /\ offers = [queue |-> <<>>, downloading |-> FALSE, asked |-> {}]
  /\ daemon = [state |-> "up", jobs |-> <<>>, next |-> 1, starting |-> FALSE]
  /\ link = [state |-> "up", requests |-> <<>>, answers |-> <<>>, calls |-> {}]
  /\ troubles = 0

-----------------------------------------------------------------------------
(* Calls.                                                                  *)

Connected(l) == l.state # "down"
Call(by, method, of) == [by |-> by, method |-> method, of |-> of]

\* DaemonClient::call(): what is written to a connection that ended meanwhile is lost.
Called(l, call) ==
  [l EXCEPT !.calls = @ \cup {call},
            !.requests = IF l.state = "up" THEN Append(@, call) ELSE @]

-----------------------------------------------------------------------------
(* The runtime: an archive that is unpacked into a library.                *)

\* toDownload(): models that are all there are got again.
ToDownload(files) == IF files \subseteq disk.files THEN files ELSE files \ disk.files

\* appendRuntime(): the archive if the library is not there, and Microsoft's installer.
Runtime(force) ==
  (IF force \/ "library" \notin disk.files THEN {"archive"} ELSE {}) \cup
  (IF "vcruntime" \notin disk.files THEN {"redist"} ELSE {})

\* unpackRuntime(): the archive goes either way; one the daemon has loaded stays on Windows, and
\* the one removed may have no successor.
Unpacked(files) ==
  IF "archive" \notin files THEN {[files |-> files, ok |-> FALSE]}
  ELSE {[files |-> files \ {"archive"}, ok |-> FALSE],
        [files |-> files \ {"archive", "library"}, ok |-> FALSE],
        [files |-> (files \ {"archive"}) \cup {"library"}, ok |-> TRUE]}

\* What another install brought meanwhile is not unpacked again.
UnpackedOnce(files) ==
  IF "library" \in files THEN {[files |-> files \ {"archive"}, ok |-> TRUE]} ELSE Unpacked(files)

-----------------------------------------------------------------------------
(* OCR and translation: files side by side, then what follows.             *)

\* downloadPaddle() and Installer::install(); a button is off, an installer busy, meanwhile.
Install(who) ==
  /\ ~installs[who].busy /\ Trouble(TRUE)
  /\ \E again, redist \in BOOLEAN :
       LET runtime == Runtime(FALSE) \ (IF who = "ocr" /\ ~redist THEN {"redist"} ELSE {})
           files   == runtime \cup (IF who = "ocr" THEN ToDownload({"ocr"})
                                    ELSE {who} \ (IF again THEN {} ELSE disk.files))
       IN /\ installs' = [installs EXCEPT ![who] =
               IF files = {} THEN Idle
               ELSE [Idle EXCEPT !.busy = TRUE, !.left = Cardinality(files),
                                 !.unpack = "library" \notin disk.files,
                                 !.redist = "redist" \in files]]
          /\ flights' = flights \cup {[for |-> who, file |-> f] : f \in files}
  /\ UNCHANGED <<disk, wizard, offers, daemon, link>>

\* A download of theirs ended: [job, files] after it.
Counted(job, files, ok) ==
  LET counted == [job EXCEPT !.left = @ - 1, !.failed = @ \/ ~ok]
      After(r) ==
        IF counted.failed \/ ~r.ok
        THEN [job |-> Idle, files |-> r.files \ (IF job.redist THEN {"redist"} ELSE {})]
        ELSE [job |-> IF job.redist THEN [counted EXCEPT !.stage = "redist"] ELSE Idle,
              files |-> r.files]
  IN IF counted.left > 0 THEN {[job |-> counted, files |-> files]}
     ELSE {After(r) : r \in IF counted.failed \/ ~job.unpack THEN {[files |-> files, ok |-> TRUE]}
                            ELSE UnpackedOnce(files)}

-----------------------------------------------------------------------------
(* The wizard. Its callbacks run into each other: each takes and gives     *)
(* [w, l, f, d], the wizard, the connection, the files and the daemon.     *)

Now == [w |-> wizard, l |-> link, f |-> disk.files, d |-> daemon]

FinishInstall(o, failed) ==
  [o EXCEPT !.w.installing = FALSE, !.w.stage = "none",
            !.w.page = IF failed THEN "failed" ELSE "done"]

AfterRuntime(o, failed) ==
  IF failed
  THEN FinishInstall([o EXCEPT !.f = @ \ (IF o.w.redist THEN {"redist"} ELSE {})], TRUE)
  ELSE IF o.w.redist THEN [o EXCEPT !.w.stage = "redist"]
  ELSE IF ~Connected(o.l) THEN FinishInstall([o EXCEPT !.d.starting = TRUE], FALSE)
  ELSE [o EXCEPT !.w.stage = "reset", !.l = Called(o.l, Call("wizard", "capture.reset", "none"))]

\* The library already there does for an install that is made again.
UnpackRuntime(o) ==
  {AfterRuntime([o EXCEPT !.f = r.files], ~r.ok /\ ~(o.w.reinstall /\ "library" \in r.files)) :
     r \in Unpacked(o.f)}

\* A daemon that is not connected is ended by its name, if it runs.
Terminated(d) == {d, [d EXCEPT !.state = "down", !.jobs = <<>>]}

\* What a batch still waits for.
Waiting(w) == w.downloads > 0 \/ w.imports > 0 \/ w.others > 0 \/ w.importing

TryFinishBatch(o) ==
  LET p == [o EXCEPT !.w.finishing = TRUE]
  IN IF o.w.finishing \/ Waiting(o.w) THEN {o}
     ELSE IF o.w.failed \/ ~o.w.unpack THEN {AfterRuntime(p, o.w.failed)}
     ELSE IF "library" \notin o.f THEN UnpackRuntime(p)
     ELSE IF Connected(o.l)
     THEN {[p EXCEPT !.w.stage = "shutdown", !.l = Called(o.l, Call("wizard", "shutdown", "none"))]}
     ELSE {[p EXCEPT !.w.stage = "wait", !.d = d] : d \in Terminated(o.d)}

\* pumpImports(): without a connection each import fails at once, and the next is tried.
PumpImports(o) ==
  IF o.w.importing \/ o.w.queue = <<>> THEN o
  ELSE IF Connected(o.l)
  THEN [o EXCEPT !.w.importing = TRUE, !.w.queue = Tail(@),
                 !.l = Called(o.l, Call("wizard", "dictionaries.import", Head(o.w.queue)))]
  ELSE [o EXCEPT !.w.imports = @ - Len(o.w.queue), !.w.queue = <<>>, !.w.failed = TRUE]

ImportDone(o, failed) ==
  TryFinishBatch(PumpImports([o EXCEPT !.w.importing = FALSE, !.w.job = 0, !.w.imports = @ - 1,
                                       !.w.failed = @ \/ failed]))

DictDownloaded(o, title, ok) ==
  TryFinishBatch(PumpImports(
    IF ok THEN [o EXCEPT !.w.downloads = @ - 1, !.w.queue = Append(@, title)]
    ELSE [o EXCEPT !.w.downloads = @ - 1, !.w.imports = @ - 1, !.w.failed = TRUE]))

OtherDownloaded(o, ok) == TryFinishBatch([o EXCEPT !.w.others = @ - 1, !.w.failed = @ \/ ~ok])

\* What there is to get, when the daemon said which dictionaries it has; made again, all of it.
BatchDicts(w, titles) == Wanted \ (IF w.reinstall THEN {} ELSE titles)
BatchFiles(w, translate) ==
  (IF w.reinstall THEN ToDownload({"ocr"}) ELSE {"ocr"} \ disk.files) \cup
  (IF translate THEN {"translation"} \ (IF w.reinstall THEN {} ELSE disk.files) ELSE {}) \cup
  Runtime(w.reinstall)

BeginBatch(o, dicts, files) ==
  IF dicts \cup files = {} THEN FinishInstall(o, FALSE)
  ELSE [o EXCEPT !.w.stage = "none", !.w.downloads = Cardinality(dicts),
                 !.w.imports = Cardinality(dicts), !.w.others = Cardinality(files),
                 !.w.unpack = "archive" \in files, !.w.redist = "redist" \in files]

\* A callback of the wizard was run.
Becomes(o) ==
  /\ wizard' = o.w /\ link' = o.l /\ daemon' = o.d
  /\ disk' = [disk EXCEPT !.files = o.f]

\* A batch begins, with what else begins to come.
Begins(o, titles, others) ==
  \E translate \in BOOLEAN :
    LET dicts == BatchDicts(o.w, titles)
        files == BatchFiles(o.w, translate)
    IN /\ Becomes(BeginBatch(o, dicts, files))
       /\ flights' = flights \cup others
                       \cup {[for |-> "wizard", file |-> f] : f \in dicts \cup files}

StartInstall ==
  /\ wizard.page = "languages"
  /\ LET o == [Now EXCEPT !.w.page = "install", !.w.installing = TRUE, !.w.stage = "list"]
     IN IF Connected(link)
        THEN /\ Becomes([o EXCEPT !.l = Called(link, Call("wizard", "dictionaries.list", "none"))])
             /\ UNCHANGED flights
        ELSE Begins(o, {}, {})
  /\ UNCHANGED <<installs, offers, troubles>>

\* 900 milliseconds after the daemon was told to end, 500 after it was ended.
Unpack ==
  /\ wizard.stage = "wait"
  /\ \E o \in UnpackRuntime([Now EXCEPT !.w.stage = "none"]) : Becomes(o)
  /\ UNCHANGED <<flights, installs, offers, troubles>>

\* vcredist::install() ended: its file goes; the daemon starts again to find the libraries.
Redistributed(files, ok) == (files \ {"redist"}) \cup (IF ok THEN {"vcruntime"} ELSE {})
RedistRuns ==
  /\ \E ok \in BOOLEAN :
       /\ ok => "redist" \in disk.files
       /\ LET o == [Now EXCEPT !.f = Redistributed(@, ok), !.d.starting = @ \/ ok]
          IN \/ /\ wizard.stage = "redist"
                /\ Becomes(FinishInstall(o, ~ok))
                /\ UNCHANGED installs
             \/ \E who \in DOMAIN installs :
                  /\ installs[who].stage = "redist"
                  /\ installs' = [installs EXCEPT ![who] = Idle]
                  /\ Becomes(o)
  /\ UNCHANGED <<flights, offers, troubles>>

-----------------------------------------------------------------------------
(* The dictionaries page.                                                  *)

\* startNextDownload(), n times over.
NextDownloads(p, n) ==
  [p EXCEPT !.downloading = IF n = 0 THEN @ ELSE Len(p.queue) >= n,
            !.queue = SubSeq(@, (IF n < Len(@) THEN n ELSE Len(@)) + 1, Len(@))]
Started(p, n) ==
  {[for |-> "page", file |-> p.queue[i]] : i \in 1 .. IF n < Len(p.queue) THEN n ELSE Len(p.queue)}

EnqueueDownload ==
  /\ Trouble(TRUE)
  /\ \E d \in PageWants \ offers.asked :
       LET p == [offers EXCEPT !.queue = Append(@, d), !.asked = @ \cup {d}]
           n == IF offers.downloading THEN 0 ELSE 1
       IN offers' = NextDownloads(p, n) /\ flights' = flights \cup Started(p, n)
  /\ UNCHANGED <<disk, wizard, installs, daemon, link>>

-----------------------------------------------------------------------------
(* What downloads, the daemon and the connection do.                       *)

\* A download ended, and who asked for it hears of it.
DownloadEnds ==
  /\ \E x \in flights, ok \in BOOLEAN :
       /\ Trouble(~ok)
       /\ LET o    == [Now EXCEPT !.f = IF ok THEN @ \cup {x.file} ELSE @]
              rest == flights \ {x}
          IN \/ /\ x.for = "wizard"
                /\ \E r \in IF x.file \in Wanted THEN DictDownloaded(o, x.file, ok)
                            ELSE OtherDownloaded(o, ok) : Becomes(r)
                /\ flights' = rest /\ UNCHANGED <<installs, offers>>
             \/ /\ x.for \in DOMAIN installs
                /\ \E r \in Counted(installs[x.for], o.f, ok) :
                     /\ installs' = [installs EXCEPT ![x.for] = r.job]
                     /\ disk' = [disk EXCEPT !.files = r.files]
                /\ flights' = rest /\ UNCHANGED <<wizard, link, daemon, offers>>
             \/ /\ x.for = "page"
                /\ disk' = [disk EXCEPT !.files = o.f]
                /\ IF ok /\ Connected(link)
                   THEN /\ link' = Called(link, Call("page", "dictionaries.import", x.file))
                        /\ flights' = rest /\ UNCHANGED offers
                   ELSE /\ offers' = NextDownloads(offers, 1)
                        /\ flights' = rest \cup Started(offers, 1)
                        /\ UNCHANGED link
                /\ UNCHANGED <<wizard, daemon, installs>>

Running == daemon.state # "down"
Told(l, message) == IF l.state = "up" THEN [l EXCEPT !.answers = Append(@, message)] ELSE l

\* An answer carries the dictionaries there are, or the number of the import.
DaemonAnswers ==
  /\ Running /\ link.state = "up" /\ link.requests # <<>>
  /\ LET call   == Head(link.requests)
         import == call.method = "dictionaries.import"
         answer == [call |-> call, job |-> IF import THEN daemon.next ELSE 0,
                    titles |-> disk.installed, ok |-> TRUE]
     IN /\ link' = Told([link EXCEPT !.requests = Tail(@)], answer)
        /\ daemon' =
             IF import
             THEN [daemon EXCEPT !.next = @ + 1,
                                 !.jobs = Append(@, [id |-> daemon.next, file |-> call.of])]
             ELSE IF call.method = "shutdown" THEN [daemon EXCEPT !.state = "ending"] ELSE daemon
  /\ UNCHANGED <<disk, flights, wizard, installs, offers, troubles>>

\* runImport() with delete_source: the file goes, and everyone hears of the end.
DaemonImports ==
  /\ Running /\ daemon.jobs # <<>>
  /\ \E ok \in BOOLEAN :
       LET job == Head(daemon.jobs)
           found == job.file \in disk.files
       IN /\ ok => found
          /\ Trouble(found /\ ~ok)
          /\ disk' = [files |-> disk.files \ {job.file},
                      installed |-> disk.installed \cup (IF ok THEN {job.file} ELSE {})]
          /\ link' = Told(link, [call |-> Call("daemon", "import.finished", "none"), job |-> job.id,
                                 titles |-> {}, ok |-> ok])
          /\ daemon' = [daemon EXCEPT !.jobs = Tail(@)]
  /\ UNCHANGED <<flights, wizard, installs, offers>>

\* It ends: by itself, as it was told to, or for the one that takes over.
DaemonEnds ==
  /\ Running
  /\ \/ daemon.state = "ending" /\ UNCHANGED troubles
     \/ daemon.starting /\ UNCHANGED troubles
     \/ Trouble(TRUE)
  /\ daemon' = [daemon EXCEPT !.state = "down", !.jobs = <<>>]
  /\ link' = IF link.state = "up" THEN [link EXCEPT !.state = "closed", !.requests = <<>>] ELSE link
  /\ UNCHANGED <<disk, flights, wizard, installs, offers>>

DaemonStarts ==
  /\ ~Running /\ daemon.starting
  /\ daemon' = [state |-> "up", jobs |-> <<>>, next |-> 1, starting |-> FALSE]
  /\ UNCHANGED <<disk, flights, wizard, installs, offers, link, troubles>>

LinkUp ==
  /\ link.state = "down" /\ daemon.state = "up"
  /\ link' = [link EXCEPT !.state = "up"]
  /\ UNCHANGED <<disk, flights, wizard, installs, offers, daemon, troubles>>

\* What the wizard does with an answer, or without one; `others` begins to come as well.
Replied(o, call, ok, answer, others) ==
  \/ call.method = "dictionaries.list" /\ Begins(o, answer.titles, others)
  \/ /\ call.method # "dictionaries.list"
     /\ flights' = flights \cup others
     /\ \E r \in CASE call.method = "dictionaries.import" ->
                        IF ok THEN {[o EXCEPT !.w.job = answer.job]} ELSE ImportDone(o, TRUE)
                   [] call.method = "shutdown" -> {[o EXCEPT !.w.stage = "wait"]}
                   [] call.method = "capture.reset" -> {FinishInstall(o, FALSE)} :
          Becomes(r)

NoReply == [titles |-> {}, job |-> 0]
Pending(by) == {c \in link.calls : c.by = by}

\* The wizard's handler compares the import with its own; the page's takes any.
\* Mutant: the end of any import is taken for its own.
AnyonesImport(w, answer) == w.job # 0
TheWizards(w, answer) == w.job # 0 /\ answer.job = w.job
ImportFinished(o, answer) ==
  /\ IF TheWizards(o.w, answer) THEN \E r \in ImportDone(o, ~answer.ok) : Becomes(r)
     ELSE Becomes(o)
  /\ offers' = NextDownloads(offers, 1) /\ flights' = flights \cup Started(offers, 1)

\* DaemonClient::read(): one message after the other; an answer nobody waits for is dropped.
ReadAnswer ==
  /\ Connected(link) /\ link.answers # <<>>
  /\ LET answer == Head(link.answers)
         call   == answer.call
         o      == [Now EXCEPT !.l.answers = Tail(@), !.l.calls = @ \ {call}]
     IN \/ call.method = "import.finished" /\ ImportFinished(o, answer)
        \/ call \in Pending("wizard") /\ Replied(o, call, TRUE, answer, {}) /\ UNCHANGED offers
        \/ /\ call.method # "import.finished" /\ call \notin Pending("wizard")
           /\ Becomes(o) /\ UNCHANGED <<offers, flights>>
  /\ UNCHANGED <<installs, troubles>>

\* A call is given up after 15 seconds; the daemon may still do what it asks for.
CallTimesOut ==
  /\ Trouble(TRUE)
  /\ \E call \in Pending("wizard") \cup Pending("page") :
       LET o == [Now EXCEPT !.l.calls = @ \ {call}]
       IN IF call.by = "wizard" THEN Replied(o, call, FALSE, NoReply, {}) /\ UNCHANGED offers
          ELSE /\ offers' = NextDownloads(offers, 1) /\ flights' = flights \cup Started(offers, 1)
               /\ Becomes(o)
  /\ UNCHANGED installs

\* Mutant: nobody is told of it.
IgnoreDisconnected(o, others) == flights' = flights \cup others /\ Becomes(o)

\* The end of a connection: its calls fail, then the import the wizard waits for is over.
HandleDisconnected(o, others) ==
  IF o.w.job # 0 THEN flights' = flights \cup others /\ \E r \in ImportDone(o, TRUE) : Becomes(r)
  ELSE flights' = flights \cup others /\ Becomes(o)

Disconnected ==
  /\ link.state = "closed" /\ link.answers = <<>>
  /\ LET o == [Now EXCEPT !.l.state = "down", !.l.calls = {}]
         n == Cardinality(Pending("page"))
     IN /\ offers' = NextDownloads(offers, n)
        /\ IF Pending("wizard") # {}
           THEN \E call \in Pending("wizard") : Replied(o, call, FALSE, NoReply, Started(offers, n))
           ELSE HandleDisconnected(o, Started(offers, n))
  /\ UNCHANGED <<installs, troubles>>

SetupNext ==
  \/ \E who \in DOMAIN installs : Install(who)
  \/ StartInstall \/ Unpack \/ RedistRuns \/ EnqueueDownload \/ DownloadEnds
  \/ DaemonAnswers \/ DaemonImports \/ DaemonEnds \/ DaemonStarts
  \/ LinkUp \/ ReadAnswer \/ CallTimesOut \/ Disconnected

SetupSpec == SetupInit /\ [][SetupNext]_setupVars

-----------------------------------------------------------------------------
(* What should hold.                                                       *)

\* The wizard that installs still waits for something that comes: a download, the answer to a
\* call, an import the daemon has or has told the end of (or the end of a connection that is
\* over), an installer or a timer (SetupWizard: its window cannot be closed meanwhile).
SetupNeverStuck ==
  wizard.installing =>
    \/ \E x \in flights : x.for = "wizard"
    \/ Pending("wizard") # {}
    \/ wizard.stage \in {"wait", "redist"}
    \/ /\ wizard.job # 0
       /\ \/ link.state = "closed"
          \/ \E i \in DOMAIN daemon.jobs : daemon.jobs[i].id = wizard.job
          \/ \E i \in DOMAIN link.answers : /\ link.answers[i].call.method = "import.finished"
                                            /\ link.answers[i].job = wizard.job

\* The wizard says it is done only when the dictionaries it offers are installed, the models
\* of OCR there and the runtime unpacked, whatever else was imported or installed meanwhile.
DoneIsInstalled ==
  [][wizard'.page = "done" /\ wizard.page # "done" =>
       Wanted \subseteq disk'.installed /\ {"ocr", "library"} \subseteq disk'.files]_setupVars
=============================================================================
