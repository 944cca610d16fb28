------------------------------ MODULE Settings ------------------------------
(***************************************************************************)
(* The daemon's configuration and its dictionaries: what clients set, what *)
(* imports and removals change on the disk, and how the two meet           *)
(* (Daemon::applyConfig, Daemon::reloadDictionaries, Daemon::runImport,    *)
(* the handlers around them, DictionaryStore, and lexiglancectl, which     *)
(* changes the same directory and then asks for a reload).                 *)
(*                                                                         *)
(* Two threads of the daemon write: the IPC thread, which serves one call  *)
(* at a time, and the import thread. Both end their work with              *)
(* reloadDictionaries(). A configuration is abstracted to one setting and  *)
(* the priority list; a dictionary file to the number of the import that   *)
(* made it, so that an old one still mapped can be told from its           *)
(* replacement.                                                            *)
(***************************************************************************)
EXTENDS DictionaryOrder, FiniteSetsExt

CONSTANTS Titles,       \* titles of dictionaries, as numbers in their alphabetical order
          ProfileOf,    \* what each dictionary is
          AtomicReplace,\* a mapped file is replaced in one step (POSIX), or moved aside first (Windows)
          SavesFail,    \* writing the configuration may fail
          Preinstalled, \* what is installed when the daemon starts
          MaxCalls,     \* bound: calls of clients that change something
          MaxImports,   \* bound: dictionary files made
          MaxMishaps    \* bound: times the daemon is killed, or a reload cannot read what is there

ASSUME TitlesAssumption == Titles \subseteq Nat /\ IsFiniteSet(Titles)
ASSUME ProfileAssumption == ProfileOf \in [Titles -> Profile]
ASSUME AtomicAssumption == AtomicReplace \in BOOLEAN

VARIABLES
  disk,          \* the dictionary files: for each title the import that made it, or 0
  file,          \* the configuration on the disk
  config,        \* config_
  installed,     \* installed_, in the order of titles
  dictionaries,  \* dictionaries_: the enabled ones, in order of priority
  reloadMutex,   \* who holds reload_mutex_
  ipc,           \* the IPC thread: what it is at and the configuration it applies
  importer,      \* the import thread: what it is at and its job
  imports,       \* imports_
  ctl,           \* lexiglancectl: what it is at and the title it works on
  seen,          \* what each thread's loadAll() found
  unread,        \* what the last of them left out, and how many left something out
  next,          \* and the configuration it reconciled with that
  copy,          \* the configuration a client got and will send back changed
  calls, made, crashes,  \* what happened so far, for the bounds
  disabled,      \* titles a client disabled, and nobody removed or found unreadable since
  smart          \* the list was put in its smart order and not set by a client since

vars == <<disk, file, config, installed, dictionaries, reloadMutex, ipc, importer,
          imports, ctl, seen, unread, next, copy, calls, made, crashes, disabled, smart>>

Threads == {"ipc", "importer"}
Nobody  == "nobody"

NoCtl == [at |-> "idle", title |-> 0]
NoJob == [title |-> 0, replace |-> FALSE, replaces |-> 0]

Pref(t, on)      == [title |-> t, enabled |-> on]
TitlesOf(prefs)  == {prefs[i].title : i \in DOMAIN prefs}
Present(files)   == {t \in Titles : files[t] # 0}
NoFiles          == [t \in Titles |-> 0]

\* A newly installed dictionary goes where it belongs.
Placed(prefs, files, t) ==
  LET profiles == [i \in DOMAIN prefs |-> IF files[prefs[i].title] # 0
                                          THEN ProfileOf[prefs[i].title] ELSE UnknownProfile]
  IN  InsertAt(prefs, InsertionPoint(profiles, ProfileOf[t]), Pref(t, TRUE))

\* The preferences of dictionaries that are there, in their order.
Kept(prefs, files) ==
  FoldLeft(LAMBDA kept, p : IF files[p.title] # 0 THEN Append(kept, p) ELSE kept, <<>>, prefs)

\* They, with what is newly installed, in the order of titles.
Reconciled(prefs, files) ==
  LET kept == Kept(prefs, files)
  IN  MapThenFoldSet(LAMBDA t, placed : Placed(placed, files, t), kept, LAMBDA t : t,
                     LAMBDA S : Max(S), Present(files) \ TitlesOf(kept))

\* What lookups go through: the enabled ones, in the order of the list.
Enabled(prefs, files) ==
  LET on == SelectSeq(prefs, LAMBDA p : p.enabled /\ files[p.title] # 0)
  IN  [i \in DOMAIN on |-> [title |-> on[i].title, made |-> files[on[i].title]]]

NoConfig == [setting |-> FALSE, dictionaries |-> <<>>]

\* A daemon that has started: its list holds what is installed.
Init ==
  /\ disk = [t \in Titles |-> IF t \in Preinstalled THEN 1 ELSE 0]
  /\ config = [setting |-> FALSE, dictionaries |-> Reconciled(<<>>, disk)]
  /\ file = config
  /\ installed = disk /\ dictionaries = Enabled(config.dictionaries, disk)
  /\ reloadMutex = Nobody
  /\ ipc = [at |-> "idle", sends |-> NoConfig, call |-> "none"]
  /\ importer = [at |-> "idle", job |-> NoJob]
  /\ imports = <<>>
  /\ ctl = NoCtl
  /\ seen = [th \in Threads |-> NoFiles]
  /\ unread = [titles |-> {}, times |-> 0]
  /\ next = [th \in Threads |-> NoConfig]
  /\ copy = config
  /\ calls = 0 /\ made = 1 /\ crashes = 0
  /\ disabled = {} /\ smart = TRUE

-----------------------------------------------------------------------------
(* Clients. Those that change the configuration got a copy of it before.   *)

GetConfig ==
  /\ copy # config
  /\ copy' = config
  /\ UNCHANGED <<disk, file, config, installed, dictionaries, reloadMutex, ipc, importer,
                 imports, ctl, seen, unread, next, calls, made, crashes, disabled, smart>>

Flipped(prefs, i) == [prefs EXCEPT ![i].enabled = ~@]

\* What the settings application may send: its copy with one thing changed.
Edits(c) ==
  {[c EXCEPT !.setting = ~@]} \cup
  {[c EXCEPT !.dictionaries = Flipped(@, i)] : i \in DOMAIN c.dictionaries}

Serve == ipc.at = "idle" /\ calls < MaxCalls /\ calls' = calls + 1

\* config.set, scan.pause (which changes the configuration of that moment).
SetConfig ==
  /\ Serve
  /\ \E edit \in Edits(copy) : ipc' = [at |-> "save", sends |-> edit, call |-> "set"]
  /\ UNCHANGED <<disk, file, config, installed, dictionaries, reloadMutex, importer, imports,
                 ctl, seen, unread, next, copy, made, crashes, disabled, smart>>

Pause ==
  /\ Serve
  /\ ipc' = [at |-> "save", sends |-> [config EXCEPT !.setting = ~@], call |-> "pause"]
  /\ UNCHANGED <<disk, file, config, installed, dictionaries, reloadMutex, importer, imports,
                 ctl, seen, unread, next, copy, made, crashes, disabled, smart>>

\* dictionaries.sort: profilesOf() knows nothing of a title installed_ does not hold.
Profiled(prefs) ==
  [i \in DOMAIN prefs |-> IF installed[prefs[i].title] # 0
                          THEN ProfileOf[prefs[i].title] ELSE UnknownProfile]

Sort ==
  /\ Serve
  /\ LET order == SmartOrder(Profiled(config.dictionaries))
     IN  ipc' = [at    |-> "save",
                 sends |-> [config EXCEPT !.dictionaries = [i \in DOMAIN order |-> @[order[i]]]],
                 call  |-> IF TitlesOf(config.dictionaries) \subseteq Present(installed)
                           THEN "sort" ELSE "set"]
  /\ UNCHANGED <<disk, file, config, installed, dictionaries, reloadMutex, importer, imports,
                 ctl, seen, unread, next, copy, made, crashes, disabled, smart>>

\* dictionaries.import
QueueImport ==
  /\ Serve
  /\ \E t \in Titles, replace \in BOOLEAN, old \in {0} \cup Titles :
       /\ old # t
       /\ imports' = Append(imports, [title |-> t, replace |-> replace, replaces |-> old])
  /\ UNCHANGED <<disk, file, config, installed, dictionaries, reloadMutex, ipc, importer, ctl,
                 seen, unread, next, copy, made, crashes, disabled, smart>>

\* DictionaryStore::remove() of a title that is installed.
Deleted(t) ==
  /\ disk[t] # 0
  /\ disk' = [disk EXCEPT ![t] = 0]
  /\ disabled' = disabled \ {t}

\* dictionaries.remove
RemoveDictionary ==
  /\ Serve
  /\ \E t \in Titles : Deleted(t)
  /\ ipc' = [ipc EXCEPT !.at = "list", !.call = "remove"]
  /\ UNCHANGED <<file, config, installed, dictionaries, reloadMutex, importer, imports, ctl,
                 seen, unread, next, copy, made, crashes, smart>>

\* dictionaries.reload, which lexiglancectl calls when it is done
\* (notifyReload(); nothing is called when no daemon runs).
Reload ==
  /\ ipc.at = "idle" /\ ctl.at = "call"
  /\ ipc' = [ipc EXCEPT !.at = "list", !.call = "reload"]
  /\ ctl' = NoCtl
  /\ UNCHANGED <<disk, file, config, installed, dictionaries, reloadMutex, importer, imports,
                 seen, unread, next, copy, calls, made, crashes, disabled, smart>>

-----------------------------------------------------------------------------
(* applyConfig(): under reload_mutex_ the configuration is saved and stored. *)

\* A mistake: the configuration is saved and stored without the mutex.
SaveUnlocked ==
  /\ ipc.at = "save"
  /\ file' = ipc.sends
  /\ ipc' = [ipc EXCEPT !.at = "store"]
  /\ UNCHANGED <<disk, config, installed, dictionaries, reloadMutex, importer, imports, ctl,
                 seen, unread, next, copy, calls, made, crashes, disabled, smart>>

Save ==
  /\ ipc.at = "save" /\ reloadMutex = Nobody
  /\ file' = ipc.sends
  /\ reloadMutex' = "ipc"
  /\ ipc' = [ipc EXCEPT !.at = "store"]
  /\ UNCHANGED <<disk, config, installed, dictionaries, importer, imports, ctl, seen, unread,
                 next, copy, calls, made, crashes, disabled, smart>>

\* The call is answered with the error, and nothing changes.
SaveFails ==
  /\ SavesFail
  /\ ipc.at = "save" /\ reloadMutex = Nobody
  /\ ipc' = [ipc EXCEPT !.at = "idle", !.sends = NoConfig]
  /\ UNCHANGED <<disk, file, config, installed, dictionaries, reloadMutex, importer, imports,
                 ctl, seen, unread, next, copy, calls, made, crashes, disabled, smart>>

OffIn(prefs) == {prefs[i].title : i \in {j \in DOMAIN prefs : ~prefs[j].enabled}}

\* A mistake: the mutex is still held when reloadDictionaries() takes it.
StoreStillLocked ==
  /\ ipc.at = "store"
  /\ config' = ipc.sends
  /\ ipc' = [ipc EXCEPT !.at = "list", !.sends = NoConfig]
  /\ UNCHANGED <<disk, file, installed, dictionaries, reloadMutex, importer, imports, ctl, seen,
                 unread, next, copy, calls, made, crashes, disabled, smart>>

Store ==
  /\ ipc.at = "store"
  /\ config' = ipc.sends
  /\ reloadMutex' = Nobody
  /\ ipc' = [ipc EXCEPT !.at = "list", !.sends = NoConfig]
  /\ IF ipc.call = "set"
     THEN disabled' = OffIn(ipc.sends.dictionaries) \cap Present(disk)
     ELSE UNCHANGED disabled
  /\ smart' = (ipc.call = "sort" \/ (smart /\ ipc.call = "pause"))
  /\ UNCHANGED <<disk, file, installed, dictionaries, importer, imports, ctl, seen, unread, next,
                 copy, calls, made, crashes>>

-----------------------------------------------------------------------------
(* reloadDictionaries(), by either thread.                                 *)

At(th)     == IF th = "ipc" THEN ipc.at ELSE importer.at
Goes(th, place) ==
  IF th = "ipc"
  THEN ipc' = [ipc EXCEPT !.at = place] /\ UNCHANGED importer
  ELSE importer' = [at |-> place, job |-> NoJob] /\ UNCHANGED ipc

\* Dictionary::open(): of all there is, each is as it was imported, or it cannot be opened (it is not
\* readable, of another version, or damaged) and there is nothing of it.
Opened(left) == [t \in Titles |-> IF t \in left THEN 0 ELSE disk[t]]

\* loadAll(): a file that cannot be opened is left out and told in load_errors_, and so is
\* everything, untold, when the directory cannot be listed.
LoadAll(th) ==
  \E left \in SUBSET Present(disk) :
    /\ left # {} => crashes + unread.times < MaxMishaps
    /\ unread' = [titles |-> left, times |-> unread.times + (IF left = {} THEN 0 ELSE 1)]
    /\ seen' = [seen EXCEPT ![th] = Opened(left)]

\* A mistake: the directory is read before the mutex is taken.
ListUnlocked(th) ==
  /\ At(th) = "list"
  /\ LoadAll(th)
  /\ Goes(th, "reconcile")
  /\ UNCHANGED <<disk, file, config, installed, dictionaries, reloadMutex, imports, ctl, next,
                 copy, calls, made, crashes, disabled, smart>>

List(th) ==
  /\ At(th) = "list" /\ reloadMutex = Nobody
  /\ reloadMutex' = th
  /\ LoadAll(th)
  /\ Goes(th, "reconcile")
  /\ UNCHANGED <<disk, file, config, installed, dictionaries, imports, ctl, next, copy, calls,
                 made, crashes, disabled, smart>>

\* The list is reconciled with what is installed, and saved when that changed it; a
\* save that fails is only warned about.
Reconcile(th) ==
  /\ At(th) = "reconcile"
  /\ LET reconciled == [config EXCEPT !.dictionaries = Reconciled(@, seen[th])]
     IN  /\ next' = [next EXCEPT ![th] = reconciled]
         /\ \/ file' = IF reconciled = config THEN file ELSE reconciled
            \/ SavesFail /\ UNCHANGED file
         /\ Goes(th, IF reconciled = config THEN "publish" ELSE "restore")
  /\ UNCHANGED <<disk, config, installed, dictionaries, reloadMutex, imports, ctl, seen, unread,
                 copy, calls, made, crashes, disabled, smart>>

\* What was left out is forgotten, as what was removed is.
StoreReconciled(th) ==
  /\ At(th) = "restore"
  /\ config' = next[th]
  /\ disabled' = disabled \ unread.titles
  /\ Goes(th, "publish")
  /\ UNCHANGED <<disk, file, installed, dictionaries, reloadMutex, imports, ctl, seen, unread,
                 next, copy, calls, made, crashes, smart>>

Publish(th) ==
  /\ At(th) = "publish"
  /\ installed' = seen[th]
  /\ dictionaries' = Enabled(next[th].dictionaries, seen[th])
  /\ reloadMutex' = IF reloadMutex = th THEN Nobody ELSE reloadMutex
  /\ seen' = [seen EXCEPT ![th] = NoFiles]
  /\ next' = [next EXCEPT ![th] = NoConfig]
  /\ Goes(th, "idle")
  /\ UNCHANGED <<disk, file, config, imports, ctl, unread, copy, calls, made, crashes, disabled,
                 smart>>

-----------------------------------------------------------------------------
(* Imports: of the daemon's import thread, and of lexiglancectl.           *)

\* Whether somebody imports this title, and holds the lock beside its file.
Importing(t) ==
  \/ importer.at \in {"compile", "swap"} /\ importer.job.title = t
  \/ ctl.at \in {"compile", "swap"} /\ ctl.title = t

\* store_.install() up to the compilation: a title installed already or being
\* imported is refused.
Starts(t, replace) == (replace \/ disk[t] = 0) /\ ~Importing(t)

TakeImport ==
  /\ importer.at = "idle" /\ imports # <<>>
  /\ imports' = Tail(imports)
  /\ LET job == Head(imports)
     IN  importer' = IF Starts(job.title, job.replace)
                     THEN [at |-> "compile", job |-> job]
                     ELSE [at |-> "list", job |-> NoJob]
  /\ UNCHANGED <<disk, file, config, installed, dictionaries, reloadMutex, ipc, ctl, seen,
                 unread, next, copy, calls, made, crashes, disabled, smart>>

\* A bad archive, a full disk, or a file that cannot be moved into place.
ImportFails ==
  /\ importer.at = "compile"
  /\ importer' = [importer EXCEPT !.at = "list"]
  /\ UNCHANGED <<disk, file, config, installed, dictionaries, reloadMutex, ipc, imports, ctl,
                 seen, unread, next, copy, calls, made, crashes, disabled, smart>>

\* What follows an install that succeeded: the dictionary it replaces goes.
AfterInstall(job) ==
  IF job.replaces \notin {0, job.title} THEN "replaces" ELSE "list"

Install(t) ==
  /\ made < MaxImports
  /\ made' = made + 1
  /\ disk' = [disk EXCEPT ![t] = made + 1]

\* A mistake: the file replaced is deleted before the new one is moved to its place.
ReplaceByDeleting ==
  /\ importer.at = "compile" /\ made < MaxImports
  /\ disk[importer.job.title] # 0
  /\ disk' = [disk EXCEPT ![importer.job.title] = 0]
  /\ importer' = [importer EXCEPT !.at = "swap"]
  /\ UNCHANGED <<file, config, installed, dictionaries, reloadMutex, ipc, imports, ctl, seen,
                 unread, next, copy, calls, made, crashes, disabled, smart>>

\* replaceMapped() on Windows, of a dictionary the daemon has mapped: the old file
\* is moved aside, and the new one takes its name afterwards.
MoveAside ==
  /\ ~AtomicReplace
  /\ importer.at = "compile" /\ made < MaxImports
  /\ disk[importer.job.title] # 0
  /\ disk' = [disk EXCEPT ![importer.job.title] = 0]
  /\ importer' = [importer EXCEPT !.at = "swap"]
  /\ UNCHANGED <<file, config, installed, dictionaries, reloadMutex, ipc, imports, ctl, seen,
                 unread, next, copy, calls, made, crashes, disabled, smart>>

ImportDone ==
  /\ \/ importer.at = "compile" /\ (AtomicReplace \/ disk[importer.job.title] = 0)
     \/ importer.at = "swap"
  /\ Install(importer.job.title)
  /\ importer' = [importer EXCEPT !.at = AfterInstall(importer.job)]
  /\ UNCHANGED <<file, config, installed, dictionaries, reloadMutex, ipc, imports, ctl, seen,
                 unread, next, copy, calls, crashes, disabled, smart>>

RemoveReplaced ==
  /\ importer.at = "replaces"
  /\ \/ Deleted(importer.job.replaces)
     \/ disk[importer.job.replaces] = 0 /\ UNCHANGED <<disk, disabled>>
  /\ importer' = [importer EXCEPT !.at = "list"]
  /\ UNCHANGED <<file, config, installed, dictionaries, reloadMutex, ipc, imports, ctl, seen,
                 unread, next, copy, calls, made, crashes, smart>>

\* lexiglancectl import and remove: the same on the files, then a reload is asked for.
CtlStarts ==
  /\ ctl.at = "idle" /\ calls < MaxCalls /\ calls' = calls + 1
  /\ \E t \in Titles, replace \in BOOLEAN :
       /\ Starts(t, replace)
       /\ ctl' = [at |-> "compile", title |-> t]
  /\ UNCHANGED <<disk, file, config, installed, dictionaries, reloadMutex, ipc, importer,
                 imports, seen, unread, next, copy, made, crashes, disabled, smart>>

CtlInstalls ==
  /\ ctl.at = "compile"
  /\ Install(ctl.title)
  /\ ctl' = [NoCtl EXCEPT !.at = "call"]
  /\ UNCHANGED <<file, config, installed, dictionaries, reloadMutex, ipc, importer, imports,
                 seen, unread, next, copy, calls, crashes, disabled, smart>>

CtlFails ==
  /\ ctl.at = "compile"
  /\ ctl' = [NoCtl EXCEPT !.at = "call"]
  /\ UNCHANGED <<disk, file, config, installed, dictionaries, reloadMutex, ipc, importer,
                 imports, seen, unread, next, copy, calls, made, crashes, disabled, smart>>

CtlRemoves ==
  /\ ctl.at = "idle" /\ calls < MaxCalls /\ calls' = calls + 1
  /\ \E t \in Titles : Deleted(t) /\ ctl' = [NoCtl EXCEPT !.at = "call"]
  /\ UNCHANGED <<file, config, installed, dictionaries, reloadMutex, ipc, importer, imports,
                 seen, unread, next, copy, made, crashes, smart>>

-----------------------------------------------------------------------------
\* The daemon is killed and started again: it reads the configuration on the disk
\* and loads the dictionaries before it serves anybody.
Crash ==
  /\ crashes + unread.times < MaxMishaps
  /\ crashes' = crashes + 1
  /\ config' = file
  /\ installed' = NoFiles /\ dictionaries' = <<>>
  /\ reloadMutex' = Nobody
  /\ ipc' = [ipc EXCEPT !.at = "list", !.sends = NoConfig, !.call = "start"]
  /\ importer' = [at |-> "idle", job |-> NoJob]
  /\ imports' = <<>>
  /\ disabled' = disabled \cap OffIn(file.dictionaries)
  /\ smart' = FALSE
  /\ seen' = [th \in Threads |-> NoFiles]
  /\ unread' = [unread EXCEPT !.titles = {}]
  /\ next' = [th \in Threads |-> NoConfig]
  /\ UNCHANGED <<disk, file, ctl, copy, calls, made>>

Clients == GetConfig \/ SetConfig \/ Pause \/ Sort \/ QueueImport \/ RemoveDictionary
Ctl     == CtlStarts \/ CtlInstalls \/ CtlFails \/ CtlRemoves
Reloads(th) == List(th) \/ Reconcile(th) \/ StoreReconciled(th) \/ Publish(th)
IpcThread    == Reload \/ Save \/ SaveFails \/ Store \/ Reloads("ipc")
ImportThread == TakeImport \/ ImportFails \/ MoveAside \/ ImportDone \/ RemoveReplaced
                  \/ Reloads("importer")

Next == Clients \/ Ctl \/ IpcThread \/ ImportThread \/ Crash

Spec == Init /\ [][Next]_vars /\ WF_vars(IpcThread) /\ WF_vars(ImportThread)

-----------------------------------------------------------------------------
Config == [setting : BOOLEAN, dictionaries : Seq([title : Titles, enabled : BOOLEAN])]

TypeOK ==
  /\ disk \in [Titles -> Nat] /\ installed \in [Titles -> Nat]
  /\ {file, config, copy, ipc.sends} \subseteq Config
  /\ reloadMutex \in Threads \cup {Nobody}
  /\ disabled \subseteq Titles /\ smart \in BOOLEAN
  /\ unread \in [titles : SUBSET Titles, times : Nat]

\* The dictionaries there are, but for those the last reload could not read.
Readable == Opened(unread.titles)

\* Nothing is being done, and nothing is left to do.
AtRest ==
  /\ ipc.at = "idle" /\ importer.at = "idle" /\ imports = <<>>
  /\ ctl.at \notin {"call"}

\* Whatever clients, imports and lexiglancectl did in whatever order, in the end the
\* daemon looks up in the enabled ones of the dictionaries there are, each in its
\* newest version, and its list holds each of them once; but for those the last reload
\* could not read.
DictionariesUpToDate ==
  AtRest =>
    /\ installed = Readable
    /\ TitlesOf(config.dictionaries) = Present(Readable)
    /\ Len(config.dictionaries) = Cardinality(Present(Readable))
    /\ dictionaries = Enabled(config.dictionaries, Readable)

\* A reload never stores an older copy of the configuration over what a client set:
\* the setting only changes when a client's call is stored, or with a restart.
SettingKept ==
  [][config'.setting # config.setting => ipc.at = "store" \/ crashes' # crashes]_vars

\* A dictionary a client disabled stays disabled while it is installed and each reload can
\* read it, also when it is updated.
DisabledStays ==
  \A i \in DOMAIN config.dictionaries :
    config.dictionaries[i].title \in disabled => ~config.dictionaries[i].enabled

\* "uninstalled ones are forgotten": what the configuration lists, with what the user set for it,
\* leaves it only as its file is gone, or as a client sends a list without it.
OnlyUninstalledForgotten ==
  [][\A t \in TitlesOf(config.dictionaries) \ TitlesOf(config'.dictionaries) :
       disk[t] = 0 \/ ipc.at = "store" \/ crashes' # crashes]_vars

\* Imports keep a list in its smart order once it was put into it.
SmartOrderKept ==
  smart => Sorted([i \in DOMAIN config.dictionaries |-> ProfileOf[config.dictionaries[i].title]])

\* Every call that changes something is answered, every import queued is made or
\* refused, unless the daemon is killed.
WorkFinished ==
  /\ ipc.at # "idle" ~> ipc.at = "idle"
  /\ imports # <<>> ~> imports = <<>> /\ importer.at = "idle"
=============================================================================
