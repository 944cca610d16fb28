# Lexiglance in TLA+

Lexiglance shows a dictionary popup for the text under the pointer. A daemon
(`lexiglanced`) watches the pointer and its keys, reads the text there, looks it
up and draws the popup; a settings application and a command line talk to it over
a local socket. This directory holds TLA+ specifications of these programs, the TLC
configurations that check them on small instances, and proofs that TLAPS checks.

Line numbers below refer to this repository at the commit the specifications were
written from. `PROJECT.json` maps every definition to the lines it models.

## 1. The system

### 1.1 Components

| Component | Where | State it keeps | Operations |
|---|---|---|---|
| Lookup pipeline | `apps/daemon/Daemon.cpp`, `Daemon.h` | generation, shown, latest and cancelled keys (atomics); two single-slot mailboxes; the popup on screen and the wheel's state (UI thread); last text and posted key (capture thread); the popup waiting for a translation | scan, selection, click outside, trigger released, wheel, popup buttons; capture, look up, post; draw, post; translate, redraw; ask Anki, redraw; `popup.show`, `popup.hide`, `scan.pause` |
| X11 and Windows backends | `src/platform/linux/X11Backend.cpp`, `src/platform/windows/WindowsBackend.cpp` | queue of posted tasks, keys and buttons held, trigger, grab or hook of the wheel, the popup's window and page | input events, tasks, scan, show and hide the popup, record a chord |
| Translation service | `apps/daemon/Translation.cpp` | one waiting request, jobs, loaded models, kept translations, precisions | request, translate now, warm, reload, change precisions, diagnose |
| Statistics | `apps/daemon/Stats.cpp` | tally, whether it changed, its file | load, record, save, reset |
| Configuration and dictionaries | `Daemon::applyConfig`, `Daemon::reloadDictionaries`, `src/dictionary/DictionaryStore.cpp` | the configuration and its file; the directory of dictionaries, the set looked up in | set, pause, reload, install, remove, reorder |
| Imports | `Daemon::runImport`, `src/dictionary/Importer.cpp` | queue of jobs; lock and temporary file of each dictionary | import, cancel, progress events, compile |
| IPC server, clients | `apps/daemon/IpcServer.cpp`, `src/ipc`, `apps/gui/DaemonClient.cpp` | connections, partial lines, queued events, pending calls | accept, request, answer, broadcast, hang up |
| Instance lock, takeover, self update | `apps/daemon/main.cpp`, `src/core/Process.cpp`, `src/ipc/Socket.cpp`, `Daemon::updateLoop` | lock file, socket, scheduled task | acquire, ask the other daemon to quit, take over, restart as the replaced program |
| Audio, Anki, health | `Audio.cpp`, `Anki.cpp`, `Health.cpp` | sound cache, one player | play; add a note; report |
| Text capture | `src/platform/linux`, `src/platform/windows`, `src/platform/ocr` | cache of recognised regions | capture, refresh |
| Lookup | `src/lookup`, `src/language` | scratch buffers | deinflect, search, group, rank |
| Dictionary files | `src/dictionary` | mapped files | find, order |
| Renderer | `src/render` | fonts, caches | draw |
| Thread helpers | `core/Thread.h` | mailbox slot, pool queue | post, take; submit |
| JSON | `core/Json.cpp` | - | read, write |
| Configuration as text | `src/config` | - | read a file, write it, name and parse keys |
| Settings application | `apps/gui` | working copy of the settings, widgets, downloads, connection; the lock of its updates and what it remembers of them; the checks on the Overview page | pages, setup wizard, installers, updates, health report with its fixes, restart, uninstall |
| Removal | `src/core/Uninstall.cpp`, `apps/gui/UninstallOverlay.cpp`, `apps/daemon/Elevation.cpp` | files, services and tasks of an installation | plan, stop, remove |
| Command line | `apps/ctl` | - | one call each |

### 1.2 How they interact

    UI thread --onScan, onSelection, wheel--> [capture mailbox] --> capture thread
    capture thread --found--> [render mailbox] --> render thread
    capture thread --sentence--> translation service --done--> [render mailbox]
    render thread --post--> [UI tasks] --> UI thread shows the popup
    UI thread --checkNotes, addToAnki--> worker pool --> [render mailbox], [UI tasks]
    IPC thread --popup.show--> [render mailbox];  popup.hide, scan.pause--> [UI tasks]
    every thread reads and some write: generation_, cancelled_, shown_key_, latest_key_
    IPC thread --dictionaries.import--> import thread; both --> reloadDictionaries()
    every thread --broadcast--> [outbox] --> IPC thread --> connections
    settings application, lexiglancectl <--lines--> IPC thread

A mailbox holds one item; posting replaces what is there. UI tasks run in the
order they were posted. Everything else that is shared is an atomic, or under one
of `translating_mutex_`, `config_mutex_`, `reload_mutex_`, `import_mutex_`,
`save_mutex_`, or the service's own. Between processes there are lock files and
the socket; on Windows a named pipe and a scheduled task.

### 1.3 What is hard

* Each popup passes four threads. A user who moves on, lets go of the trigger, or
  clicks outside is racing a popup on its way; nothing may bring back what was closed
  (`current()`, Daemon.cpp:961-971).
* A lookup that finds what is on screen, or what is taken to be on its way, posts
  nothing (`showing()`, 973-977): whether that popup really comes depends on three
  other threads.
* The UI thread checks that a popup still counts and only then shows it (1686-1714);
  the capture thread reads what is on screen in between.
* Redraws (a translation, Anki's check marks, the fuller image) are made from a copy of
  a popup taken earlier, and go into the mailbox that new popups go into.
* Refreshes, probes and scans share the capture mailbox.
* Work is asked of other services that may answer late or not at all: Anki, a model
  that takes seconds to load, a pointer position asked of the UI thread with a limit of
  two seconds.
* Two threads and another process change the configuration and the directory of
  dictionaries, each from a copy read earlier; any of it may be cut short.
* Several processes start, replace and end each other; several import one title.
* Events of the X server and raw input of Windows get lost, and the backend asks for
  the state of the keyboard meanwhile.
* Pages of the settings application store all they show, while answers, pushes and
  changes elsewhere arrive.
* Buttons are off while something is under way, and come back only if an answer, a timer or a
  program that ends turns them on again, whichever step in between failed.
* A window and a program without one update one copy; two programs may uninstall at once while a
  service starts the daemon again.

### 1.4 What makes each part correct

* Pipeline: what is on screen was asked for since popups were last closed and is what
  the other threads are told it is; the newest posted popup is the one that is up in
  the end; a pause or a hide takes effect; a translation lands in its own popup; turns of
  the wheel go to the popup they were meant for.
* Translation service: a model used was chosen with the precisions asked for; the models
  held stay within their bound; a request not replaced is answered.
* Statistics: what was counted reaches the file; an older tally is never written over a
  newer one; what was emptied does not come back.
* Configuration and dictionaries: no change of a client is lost to a reload; in the end
  lookups go through what is installed and enabled; a disabled dictionary that can be read stays so.
* Imports: readers see one whole archive, whichever process compiled it.
* IPC: no answer and no event is lost, in whatever pieces they travel.
* Takeover: no two daemons work side by side.
* Input: the trigger is what the user holds; the wheel is given back; a popup goes with
  the window it is over.
* Popup: a click meets the entry drawn where it goes, what is marked is what was looked
  up, and what a popup covered is read again.
* Lookup: each word keeps its best match. JSON: what was written is read.
* Configuration as text: what is written is read again, by another program or after a restart.
* Settings application: only what the user changed changes; the wizard is never stuck, no button
  stays off; what the Overview page offers to fix is what the daemon lacks; what was
  uninstalled does not come back.

## 2. Modules

| Module | What it is |
|---|---|
| `PopupPromise` | Abstract specification: three numbers, asked, closed and shown. A popup shown was asked for after the last closing. |
| `LookupPipeline` | The pipeline of the daemon: every handler, every thread, one action per step that other threads can see. |
| `MCLookupPipeline` | Gives the wheel's turns for TLC. |
| `NewestWins` | Abstract specification: requests are numbered, one is at work, one waits, and a new one takes the place of the one waiting. |
| `TranslationService` | The translation service: its waiting request, its jobs, its thread, the models it loads, holds and lets go of, and the translations it keeps. |
| `MCTranslationService` | Languages, texts and models for TLC. |
| `MCAnswers` | `LookupPipeline` and `TranslationService` side by side, with the fairness of their threads. |
| `Settings` | The configuration and the dictionaries: clients, the IPC and import threads, lexiglancectl, their reloads. |
| `DictionaryOrder` | The smart order of dictionaries and the place of a new one, as operators. |
| `Statistics` | The tally of the statistics page and its file. |
| `Translator` | A text looked up, with the scratch buffers of a translator. |
| `LookupExamples` | A small instance of `Translator`: two languages, some of their rules, two dictionaries. |
| `JsonText` | JSON read and written. |
| `ConfigText` | The configuration as JSON and as a file, with the names of keys; what the pages make of the trigger. |
| `MCSettings` | `Settings`, `Statistics`, `LookupExamples`, `JsonText` and `ConfigText` side by side. |
| `Takeover` | The instance lock, `--replace`, updates, handing over to the administrator's task. |
| `IpcConnections` | The loop of the IPC thread, broadcasts, the connections of both kinds of clients. |
| `DictionaryImport` | Archives compiled into one file by several processes, and what lookups find in it. |
| `X11Input` | The trigger, the grab, recording, scans and the popup's window on X11. |
| `MCDaemon` | `Takeover`, `IpcConnections`, `DictionaryImport` and `X11Input` side by side. |
| `WindowsInput` | The same on Windows: raw input, the hook, the clipboard. |
| `PopupPage` | The page of a popup, and what is clicked, scrolled and selected in it. |
| `ScreenReading` | A region of the screen read by OCR while a popup comes and goes over it. |
| `OcrLines` | Lines of text joined to a sentence, and the boxes of its characters. |
| `SetupInstall` | What the settings application installs, with its downloads and the daemon's imports. |
| `MCDesktop` | `PopupPage`, `WindowsInput`, `ScreenReading`, `OcrLines` and `SetupInstall` side by side. |
| `SettingsPages` | The working copy of the settings and the pages that show and change it. |
| `UpdateGroup` | The application's own updates: a window, and a program without one that the daemon starts. |
| `Health` | The report of the daemon's health, as operators: each check, how well it is, what fixes it. |
| `OverviewPage` | The Overview page: checks, fixes and restarts of daemons that hang and go. |
| `Uninstall` | Lexiglance taken off the computer, by the application and by `lexiglancectl`. |
| `MCApplication` | `SettingsPages`, `UpdateGroup`, `OverviewPage` and `Uninstall` side by side. |
| `LookupPipelineProofs`, `TranslationServiceProofs`, `SettingsProofs`, `DaemonProofs`, `IpcConnectionsProofs`, `InputProofs`, `SettingsPagesProofs`, `ApplicationProofs` | Theorems and their proofs. `SettingsProofs` is about `Settings` and `Statistics`, `DaemonProofs` about `Takeover` and `DictionaryImport`, `InputProofs` about `X11Input`, `WindowsInput` and `ScreenReading`, `SettingsPagesProofs` about `SettingsPages` and `SetupInstall`, `ApplicationProofs` about `Uninstall`, `UpdateGroup` and `OverviewPage`. |

`LookupPipeline` has its own, smaller picture of the service (`pending`, `running`: what the
pipeline can see of it); `NewestWins` is what that picture and `TranslationService` have in
common. `Translator`, `OcrLines` and `JsonText` are instances
in their MC modules; the others are extended, so that a property checked is the one proved.

### 2.1 LookupPipeline: state and code

| Variable | Code |
|---|---|
| `generation`, `cancelled`, `shownKey`, `latestKey` | `generation_`, `cancelled_`, `shown_key_`, `latest_key_` |
| `captureRequest`, `renderRequest` | `capture_requests_`, `render_requests_` (`Mailbox`, one slot; `NoRequest`, `NoPopup` when empty) |
| `tasks` | the backend's queue of posted tasks |
| `paused` | `config_->paused` |
| `visible`, `current` | whether the backend shows a popup; `current_` |
| `forcedLength`, `pendingWheel`, `translationOff` | `forced_length_`, `pending_wheel_`, `translation_off_` |
| `showing` | a show task between its check (1686) and what follows |
| `capturing`, `found`, `lastText`, `postedKey`, `postedGen` | locals of `captureLoop`: the request, the popup found and not posted yet, `state`, `posted_key`, `posted_generation` |
| `drawing`, `completing`, `rest` | locals of `renderLoop`: the request drawn, whether it is the fuller image, the one to be completed |
| `translating`, `ticket` | `translating_`, `translating_ticket_` |
| `pending`, `running` | the service's waiting request and the one at work |
| `checks`, `adding` | jobs of the worker pool: `checkNotes`, `addToAnki` |
| `client` | where the IPC thread is in `popup.show` or `scan.pause` |
| `answer` | history: how the latest lookup was answered (not in the code) |

A popup is a record: the generation it was asked for with, the text, the length chosen
(0: none), whether it is from the screen, whether it was asked for with the sentence
key, what translation it shows and of what, and whether its notes are known. The key of
a popup (`popupKey`, a hash of text, length, place and translation) is the tuple of what
it is computed from, so different popups have different keys; 0 is `NoKey`.

The actions, by thread, and the functions they model:

| Thread | Actions | Code |
|---|---|---|
| UI | `Scan`, `Selection`, `TriggerReleased`, `ClickOutside`, `Wheel`, `AddNote` | `onScan`, `onSelection`, `events.trigger_released`, `onClickOutside`, `onAdjustLength`, `onPopupAction` |
| UI tasks | `ShowBegin`/`ShowEnd`, `RunNothing`, `RunDismissal`, `RunNoteAdded`, `RunPointer` | the lambdas given to `backend_->post` |
| capture | `CaptureTake`, `CaptureFinds`, `CaptureFindsNothing`, `CapturePosts` | `captureLoop`, `translationFor`, `nothingFound` |
| render | `RenderTake`, `RenderRest`, `RenderPost` | `renderLoop` |
| translation | `TranslatorTake`, `TranslationDone` | `TranslationService::run`, `translationDone` |
| workers | `NotesAsk`, `NotesAnswered`, `NotesPost`, `NoteAdded` | `checkNotes`, `addToAnki` |
| IPC | `ClientShow`, `ClientGivesUp`, `ClientNumbers`, `ClientPosts`, `ClientHide`, `SetPaused`, `ClientReloads`, `PostAside` | handlers `popup.show`, `popup.hide`, `scan.pause`, `capture.reset`, `debug.capture` |

A handler is one action as long as nothing it reads can change under it in a way that
shows. It is split where it can: the show task (check, then show), the capture (answer
or number its popup, then post), `checkNotes` (check, ask, check, post), `popup.show`
(ask, take a number, post), `scan.pause` (configuration and its tasks, then the reload).
`translationDone` is one step: it runs under `translating_mutex_`, as does what it races.

### 2.2 What is abstracted

* Texts are model values; `Sentences` are those worth translating; an entry covers one
  character (`Matched`), so a choice of two is longer than the entry.
* What a capture reads at a place is any text, or nothing (`Blank`). A redraw with a
  length reads what was last read (`lastText`), or nothing if that is gone. Text further
  on, read when the wheel asks for more than was captured, is not told apart from it.
* Whether a translation is known already is a choice: the service's kept translations
  are a component of their own.
* A press of the sentence key is let be for five seconds after the last one at the spot of
  one that is being translated (`sentenceComing`, 925-930): in the model a press may always
  come, which contains it. `sentence_asked_` is therefore left out.
* Each request taken up, refresh and probe may renew the capture, which forgets the last reading
  (`Refreshed`): the settings it depends on may have changed at any time.
* The renderer always returns an image; whether that is the whole popup is a choice. That a
  popup without one is dropped (1669) is left out.
* The workers may run in any order and at once; the pool has two. Events may be handled
  between any two tasks.
* Badges, highlights, sounds and counting for the statistics do not feed back into any
  of this and are left out.

Bounds of `LookupPipeline`, all in guards: `MaxGeneration` requests, `MaxTasks` tasks waiting, turns kept
within `-MaxTurns .. MaxTurns`, `MaxLength` the longest choice.

### 2.3 TranslationService: state and code

| Variable | Code |
|---|---|
| `pending`, `jobs`, `reload`, `warming`, `precisions`, `cache` | `pending_`, `jobs_`, `reload_`, `warming_`, `precisions_` and `others_`, `cache_`; all under `mutex_` |
| `work`, `step`, `chosen` | locals of `run`, `model` and the jobs: what was taken up and for which languages it still needs a model, how far it is, the model chosen for it |
| `models` | `models_`, the least recently used first |
| `asked`, `missed` | `translating_ticket_`; a text `cached()` did not know, on the capture thread |
| `calls`, `caller` | calls of `translateNow` and `diagnose`, and the one whose caller still waits |
| `onDisk` | the weights downloaded for each directory |
| `answered`, `changes` | history: the last request answered, and how often models were to be let go of |

| Thread | Actions | Code |
|---|---|---|
| capture | `Cached`, `RequestTranslation`, `NotAsked` | `cached`, `request`, and `Daemon::captureLoop` posting nothing |
| IPC | `TranslateNow`, `Diagnose`, `GiveUp` | `translateNow`, `diagnose`, their time limits |
| UI, IPC | `Warm`, `SetPrecisions`, `Reload`, `Stop` | `warm`, `setPrecisions`, `reload`, the destructor |
| translation | `Take`, `Unload`, `StartWarming`, `ChooseWeights`, `LoadModel`, `Translate` | `run`, the job of `warm`, `model` up to and from `Model::load`, what follows `translate` |
| settings application | `Download` (external) | weights downloaded and removed |

A request and the jobs of `translateNow`, `diagnose` and `warm` run through the same steps
(which weights, load, translate, remember, answer) and differ in `kind`; a health report goes
through them once per language. The steps are separate because loading and translating
take seconds outside the mutex, and settings, downloads and callers change in between.

Abstracted: texts are model values, translations are known by what they were made of and
with which weights asked for. Clocks are choices: a kept translation may expire at any time
(`Expire`), and unused models may go whenever nothing waits (`Unload`). That a model fails to
load or to translate is a choice. `models` is a sequence in order of use instead of a map
with times. The model being loaded takes up memory besides the `most_models` held: `model()`
makes room only after `Model::load` (222-233), so that a model that does not load costs no
other one its place.

Bounds: `MaxRequests`, `MaxCalls`, `MaxChanges`. `MostModels` and `CacheSize` are the code's 2
and 256, smaller in the runs so that they are reached.

### 2.4 Settings and Statistics

| Variable of `Settings` | Code |
|---|---|
| `disk`, `file` | the directory of dictionaries (for each title the import that made the file); `config.json` |
| `config`, `installed`, `dictionaries` | `config_`, `installed_`, `dictionaries_` |
| `reloadMutex` | who holds `reload_mutex_` |
| `ipc`, `importer`, `imports` | where the IPC thread and the import thread are; `imports_` |
| `seen`, `next` | locals of `reloadDictionaries`: what `loadAll()` found, the configuration reconciled with it |
| `unread` | what the last `loadAll()` left out: a file it could not open (`load_errors_`), or all when it could not list the folder; how often it did |
| `ctl` | lexiglancectl, which changes the same directory and then asks for a reload |
| `copy` | the configuration a client got and sends back changed |
| `disabled`, `smart` | history: what clients disabled, whether the list is in its smart order |

The actions follow `applyConfig` (save, store), `reloadDictionaries` (take the mutex and list,
reconcile, restore, publish), `runImport` (compile, swap) and the handlers `config.set`,
`scan.pause`, `dictionaries.remove`, `dictionaries.reload`, `dictionaries.import`. A reload is
four steps because the other thread, lexiglancectl and clients may come between any two of
them. On Windows (`AtomicReplace = FALSE`) a file that is mapped is moved aside first. A reload
may leave out any of the files there are (`LoadAll`). `Crash`
kills the daemon and starts it again from what the disk holds.

| Variable of `Statistics` | Code |
|---|---|
| `tally`, `dirty`, `enabled` | `tally_`, `dirty_`, `enabled_` |
| `tallyFile`, `saveMutex`, `saver` | `statistics.json`, `save_mutex_`, the text each thread is about to write |
| `unsaved`, `day` | `unsaved_stats_` of the capture thread; the date |
| `wanted`, `lost` | history: what was counted; whether a write failed since the last good one |

### 2.5 Takeover, IpcConnections, DictionaryImport

* `Takeover`: each process is at one step of `main()` (`lock`, `write`, `ask`, `wait`, `end`, `again`,
  `list`, `strays`, `hand`, `listen`, `serve`, `run`, `teardown`, ...); `holder` is who has
  the lock, `pidFile` and `socketFile` what the two files say, `task` the scheduled task, `program` how
  often the program was replaced. Processes from before there was a lock are part of the initial
  states. A killed process lets go of its lock.
* `IpcConnections`: a line travels in two pieces, `head` and `tail`. `loop` is what `poll()` found and
  what of it is handled, `wake` and `outbox` the way broadcasts come in, `pushing` a broadcast
  queued whose wake-up is still to come, `settings` the settings application's buffer and pending calls.
  Named pipes (`Piped`) accept one client at a time and fail instead of blocking.
* `DictionaryImport`: `import` is where each importer is in `compile()` (lock, temporary file, banks
  through the pool, index, move into place, clean up), `guard` the lock file, `temp` and
  `output` the files, with what they hold. `Probe` is how a reader finds a text in the index:
  open addressing over a hash, so that collisions and homographs count.
  `RightFiles` are the files that tell of every text what its archive says.

### 2.6 X11Input and WindowsInput

Both have what the user really holds (`held`, `pressed`), what the backend believes (`down`, `keys`),
what is on the way (`queue`, `messages`), the trigger (`trigger`, `armed`), the wheel (`grabbed`,
`hook`), a chord being recorded, and the popup's window. The actions are what users and
applications do, and the handlers: on X11 raw events, `updateTrigger`, `diagnose`, recording,
`watchSource`, focus changes; on Windows raw input, `resyncKeyboard`, `checkInput`, the hook,
recording, the clipboard. Losing an event (`missed`, `unseen`), another desktop in front and
input that is no longer registered are actions.

### 2.7 PopupPage, ScreenReading, OcrLines

* `PopupPage`: a page is the sequence of rows `layout()` makes of a result in one of three
  designs; from it come the regions, buttons and glyphs. `popup`, `scroll`, `selecting`, `anchor`, `focus` and
  `copied` are the backend's; clicking, scrolling, selecting and a new image of the same
  popup are the actions.
* `ScreenReading`: a region is a few cells. The UI thread moves and hides the popup, the server and
  the applications paint, the capture thread grabs pixels, asks what is covered, and
  recognises or serves from its cache (`regions`). An application has painted what the popup
  left within the 150 ms an area counts as vacated.
* `OcrLines`: boxes of lines in the order the detector found them; the sentence around a
  place joins lines, and each character gets a box.

### 2.8 Translator, DictionaryOrder, JsonText, ConfigText

* `Translator`: spellings (`Variants`), rules (`Deinflect`), `Search`, form-of entries (`Follow`),
  `Group`, limits, order (`Ordered`), and the readings (`Furigana`). `held`, `searched` and `followed` outlive a lookup, as the scratch buffers do.
* `DictionaryOrder`: `Classify`, `SortKey`, `SmartOrder`, and `InsertionPoint` for a new one.
* `JsonText`: bytes; the writer's state machine, the recursive descent of the parser with its
  depth limit, and the two forms of text.
* `ConfigText`: `configFile` is `config.json`, `daemonConfig` the daemon's `config_`, `pageConfig` the
  application's copy. `FromJson` and `ToJson` go over every field of `Config.cpp` with its default
  and range; `Keys.cpp`'s names, aliases and display names are there too. The daemon starts with
  what somebody wrote into the file (`Documents`), saves, restarts; the pages choose
  a key from the list, record one, or choose a sentence key, and send all of it back.

### 2.9 The settings application

* `SetupInstall`: `wizard` is the stage of the setup wizard and its batch of dictionaries, `installs` the
  OCR group and the installer of translation models, `offers` the queue of the dictionaries
  page; `flights` are downloads under way, `link` the connection with the calls on the way and
  unanswered, `daemon` its imports. Callbacks of the application, steps of the network, of an
  installer and of the daemon are the actions; calls are given up after 15 seconds.
* `SettingsPages`: `copy` is `Settings::config_`, `push` the debounce and the 1.5 seconds after
  a push in which changes heard of are taken to be the own one, `shown` and `rows` what the
  pages show, `asked` what Anki has not answered, `line` the connection. One setting stands
  for those of its kind. `touched` is what the user's step was meant to change, `behind` what was
  written into the copy without the pages being shown it.

* `UpdateGroup`: `program` is what is installed and in which way (Windows' setup, a portable copy, an
  AppImage, packages, a build), `memory` the application's settings about updates, `folder` the
  folder of updates with its lock and the file downloaded, `groups` the two programs. Callbacks
  that wait for the network, a package manager, a timer or a program are the set `waiting`, each
  with the step it continues at; a callback that runs into others is an operator on a record
  of all of these, as the code's function calls its `std::function` at once or later.
* `OverviewPage`: `machine` is what there is to be found (the record `f` of `Health`), `saved` the
  settings in their file, `daemon`, `coming` and `started` the daemons, `link` the connection with its calls,
  answers and pending calls, `edits` the copy of the settings with its debounce, `view` the page, `timers` how
  often each timer or download was started. The callbacks are the actions, and what they call
  are operators on a record of every variable. Calls are given up after 30 seconds, as
  `DaemonClient` does.
* `Uninstall`: `removal` is the step of the application's card and of `lexiglancectl`'s removal,
  each with its plan; `keeper` the service that starts the daemon again (`told`: runit, until it reads
  its pipe; `left`: the command or the pipe failed, which is not looked at), `works` the daemon, `files` what is
  there, `scheduled` the task with administrator rights, `elevation` that setting being changed meanwhile. Ending the
  services, ending the programs and removing are separate steps, as the other removal, the service
  and the daemon go on in between.

## 3. What is checked

Deadlock checking is off in every run: the user may do nothing more for ever, and
every kind of step ends at its bound.

| Run | What varies | Properties |
|---|---|---|
| `lookups` | scans, releases, clicks; popups that stay when nothing is found; clients that hide, pause, refresh and probe; 4 requests | `PostedPopupIsShown`, `PausedIsQuiet`, `PromiseKept` |
| `reading` | sentence key, selections, wheel up and down; 3 requests | `TypeOK`, `WheelKeptForNextPopup`, `TranslationOfItsOwn` |
| `clients` | `popup.show`; Anki's late answers and added notes; 2 requests | `OnScreen` |
| `coming_popup` | scans; expects a violation (3.1) | `ComingPopupComes` |
| `translations` | two languages, room for one model, weights coming and going; 2 requests, a call or a health report over both, warm-ups, a change | `NeverBothPrecisions`, `NewestKept` |
| `answers` | liveness: a hiding client and 3 requests; a request, a call or a health report over two languages, warm-ups, a change | `PostedPopupComesUp`, `HideTakesEffect`, `RequestAnswered`, `CallAnswered` |
| `settings` | two dictionaries, two calls, three imports, one crash or reload that cannot read everything; three days, four threads and a failing write of the statistics; lookups of a small grammar; texts of JSON; files with unreadable members, one change on the pages | `DictionariesUpToDate`, `SettingKept`, `DisabledStays`, `SmartOrderKept`, `WorkFinished`, `SavedIsKept`, `BestMatchKept`, `JsonIsKept`, `ConfigurationIsKept` |
| `windows_update` | the same on Windows; expects a violation (3.1) | `DisabledStays` |
| `unreadable_dictionary` | the same on Linux; expects a violation (3.1) | `OnlyUninstalledForgotten` |
| `daemon` | three processes; two links with three pieces of room, two broadcasts, sockets and pipes; two importers, two threads, three imports, one kill and one fault; two keys, a button, two windows | `OneAtWork`, `NoAnswerLost`, `NoEventForgotten`, `TriggerFollowsKeys`, `PopupFollowsItsWindow`, `DictionaryIsWhole` |
| `desktop` | pages of three designs, partial and whole; a region of a few cells under a popup; lines of two scripts; two keys, a button and two windows on Windows; the wizard, a page and two installers with one trouble | `ClickMeetsEntry`, `HiddenIsReadAgain`, `MarkedIsLookedUp`, `LostInputIsNoticed`, `WheelIsGivenBack`, `SetupNeverStuck`, `DoneIsInstalled` |
| `application` | every page, Anki, pushes, a change elsewhere, the daemon gone, two of these; every kind of copy updating, two releases, two mishaps; two machines with two daemons, calls and events on the Overview page; thirteen installations removed with two troubles, failing commands of services among them | `OnlyEditsChange`, `UpdateIsWaitedFor`, `ButtonsComeBack`, `OfferIsCurrent`, `NothingBringsItBack` |

The runs `settings`, `answers`, `daemon`, `desktop` and `application` explore parts that share no state side by side, one
at a time: the variable `part` says which one takes steps, the others stay at their
initial states. A property of a part then holds trivially of the other parts' behaviours, and
the run costs the sum of the parts and not their product.

Of the pipeline:

* `OnScreen`: `shown_key_` is the key of what is on screen, what is on screen was asked for
  after the last closing, and so was what the UI thread is about to show. This is why the
  UI task may check and act in two steps: everything that closes runs on its own thread.
* `PostedPopupIsShown`: at rest, when the latest lookup posted a popup and nothing was
  closed since, it is on screen. It fails as soon as any redraw, fuller image or older
  popup gets past it; refreshes and probes do not disturb it.
* `PausedIsQuiet`: after the UI thread took the pause in, no popup from the screen or a
  selection is up: every lookup on its way was asked for before the closing.
* `WheelKeptForNextPopup`: turns are kept only while no popup is up: the next one uses them up,
  whichever that is.
* `TranslationOfItsOwn`: a popup shows the translation of its own text.
* `PromiseKept`: refinement of `PopupPromise`.
* `PostedPopupComesUp`, `HideTakesEffect`: liveness.

Of the translation service:

* `NeverBothPrecisions`: a directory's model is in memory once, counting the one being loaded.
* `NewestKept`: refinement of `NewestWins`.
* `RequestAnswered`: the newest request is answered if jobs stop coming; jobs go first, so
  a key held down and pressed again could put it off. `CallAnswered`: a call is answered
  unconditionally, since jobs are done in order.

Of settings, statistics, lookups and texts:

* `DictionariesUpToDate`: at rest the daemon looks up in the newest versions of what is
  installed, enabled and was readable at the last reload, and its list holds each of them once.
* `SettingKept`: a reload, which takes seconds, never puts its older copy of the settings over
  what a client set meanwhile. `DisabledStays`, `SmartOrderKept`: nor does it forget what was
  disabled as long as it can read the dictionary, or put a new one at a place that breaks the smart order.
* `WorkFinished`: every call is answered and every import made or refused.
* `SavedIsKept`: four threads count and save; the text to write is made
  under one mutex and written under another.
* `BestMatchKept`: of the words a text leads to, each is kept with a longest match, by whichever rule,
  form-of entry or dictionary it was reached, within the limits. Of words that several
  spellings of the text reach it says less, see 3.1.
* `JsonIsKept`: writer and parser against the grammar, texts cut off included.
* `ConfigurationIsKept`: the configuration read out of whatever file is the same once written and read again, so
  neither a restart nor a page that changes one thing changes another, and what the pages make
  of the trigger is taken.

Of the daemon's other parts:

* `OneAtWork`: no two daemons work side by side but one from before the lock, until a
  daemon started with `--replace` ended it.
* `NoAnswerLost`, `NoEventForgotten`: with slow readers, hang-ups and restarts, over
  sockets and pipes.
* `DictionaryIsWhole`: whatever is at the dictionary's name finds every text of one
  archive, and nothing else.
* `TriggerFollowsKeys`, `PopupFollowsItsWindow` (X11), `LostInputIsNoticed`,
  `WheelIsGivenBack` (Windows): see the comments at their definitions for what the
  backends cannot know.

Of the screen and the settings application:

* `ClickMeetsEntry`: below the top of the first entry each row belongs to the entry drawn
  there, as `popup_action` counts them; a button is for the entry it stands beside.
* `HiddenIsReadAgain`: what a popup covered is read again once it left, and not served from
  what was read before.
* `MarkedIsLookedUp`: the boxes marked are those of the characters looked up.
* `SetupNeverStuck`: the wizard that installs waits for something that comes: a download, an
  answer, an import, an installer, a timer. `DoneIsInstalled`: it says it is done only when the
  dictionaries it offers, the models of OCR and the runtime are there (models of translation are no part of
  `SetupInstall`).
* `OnlyEditsChange`: a setting of the copy changes only when the user changed it, what
  follows from it, or with the daemon's configuration.
* `UpdateIsWaitedFor`: while the update button is off, something comes that turns it on, and the
  program without a window does not stay, whatever fails in between. That an unrelated check ends
  the busy state of an update under way is not excluded by it.
* `ButtonsComeBack`: a button of the Overview page is off, and a check, fix or restart under way,
  only while something is on its way that ends it.
* `OfferIsCurrent`: once nothing is on its way any more, the page offers to fix the settings that
  keep the daemon from looking up, and no others.
* `NothingBringsItBack`: once it is said that Lexiglance was uninstalled, no program or entry of it is left
  that is not told, every service that can be told was, and no daemon runs but one that such a service
  starts whose command or pipe failed, or that cannot be ended (3.1).

Some properties are proved and have no run of their own: `ChosenSinceChange` (after a change of
precision or a download no model chosen before it is used for work taken up after it),
`WarmOnce` (`warming_` is true exactly while a warm-up is still to start), `FileNeverGoesBack` (no older
tally over a newer one) and `TemporaryIsMine` (who works on the temporary file of an import works on its own).

Why small bounds are enough. In the pipeline the races are between a popup, the next one,
and a closing. Two requests give an older and a newer popup; a closing takes a number of
its own; a fourth lets an older popup be replaced and asked for again. Late answers from Anki
race one closing, so two requests do. Two texts give "the same again" and "something else",
two tasks one at work behind another. In the service, two requests are one at work and one
waiting, two languages (requests and calls in one, reports and warm-ups in both) and room for one
model make every load let go of another, and one change comes at every point of the work. In `Settings` two dictionaries are one that changes
and one that stays, and three imports install, replace and install again around two calls; in
`Statistics` three days with two kept let one go. Three processes are one running, one that
replaces it and one started beside them. Room for three pieces lets a connection be full
in the middle of a line. Two importers, one kill and one fault meet in every order. One trouble
in `SetupInstall` (two were checked as well, 3.4 million states) and two steps in `SettingsPages`
come at every point of what is under way. In `UpdateGroup` two releases make what was looked up
old, two mishaps meet the window and the program without one. In `OverviewPage` two daemons are the
one asked and the one that replaces it, two calls an answered and a late one. In `Uninstall` two
troubles let both removals fail, or one of them twice. In `ConfigText` a
document names more colours than are kept. `JsonText` types texts of six bytes (seven were
checked as well) out of those the parser tells apart, and nests two deep. Beyond these
bounds stand the theorems of section 4. Every action fires in these runs.

Other bounds: `MaxTasks`, `MaxTurns`, `MaxLength` (pipeline); `MaxEvents`, `MaxWrites`
(`Takeover`: starts and kills, replaced programs); `MaxCalls`, `MaxBroadcasts`, `MaxStops`
(`IpcConnections`; none of the daemon's ends for pipes); `MaxImports`, `MaxKills`, `MaxFaults`, `Budget`
(the bytes of banks in the pool's queue); `MaxQueue`, `MaxInputs`, `MaxPopups`, `MaxLost` (`X11Input`);
`MaxMessages`, `MaxSteps`, `MaxShown` (`WindowsInput`); `MaxShows`, `MaxMoves`, `MaxContent`,
`MaxHeight` (`PopupPage`); `MaxMishaps` (`Settings`: crashes, and reloads that leave something out); `MaxCounts`, `MaxFailures` (`Statistics`); `MaxLookups` (`Translator`); `MaxVersion`, `MaxWaiting`,
`MaxMishaps` (`UpdateGroup`); `MaxDaemons`, `MaxCalls`, `MaxEvents` (`OverviewPage`); `MaxTroubles`
(`Uninstall`); `MaxChanges`, and `MostNamed` for the code's 64 (`ConfigText`).
The last states of a bounded behaviour differ from the code in that nothing more is asked;
no property checked speaks of that.

Fairness: weak fairness for each thread, which the operating system gives a thread that is
ready to run; all threads' loops run until the daemon ends. None for the user and for
what clients begin; a client's call once begun is carried on (`ClientPosts`,
`ClientReloads`). The pool's jobs are one thread for this purpose. In the service, weak
fairness for its thread only; that a call gives up is not assumed. In `Settings`, weak fairness
for the IPC thread and the import thread; none for clients, lexiglancectl and crashes.

### 3.1 Disagreements between comments and code

Three are runs whose single property TLC violates:

1. `coming_popup`. `showing()` takes a popup to be on its way as long as nothing was
   dismissed after it was posted (976). With A on screen the pointer goes to B, back to A
   (suppressed, it is on screen, but it is the latest lookup now), and to B again: the
   first popup of B is dropped by the render thread as overtaken (its generation is not
   the latest, and its key is not while A is the latest), and the second lookup of B is
   answered "on its way". B never comes. Likewise the UI task checks that its popup
   counts (1686) and stores what is shown at 1703: a lookup in between that finds the text of
   the popup being replaced is answered "on screen" and stays away.
2. `windows_update`. On Windows a dictionary that is mapped is moved aside before the new
   file takes its name. A reload in between forgets it, with what the user set for it, and
   the next adds it as new: enabled, at its default place (`MappedFile.cpp:196`).
3. `unreadable_dictionary`. On every system a reload leaves out a dictionary it cannot open, and finds
   none when it cannot list the folder (`DictionaryStore.cpp:44-69`). Each title that is missing is
   taken for uninstalled and its preference erased (`Daemon.cpp:694-698`), also when the same
   reload has just listed it in `load_errors_`; once it can be read again it is added as new and
   enabled (707-712). `DisabledStays` and `DisabledRemains` therefore speak of dictionaries that each reload
   can read.

The others were met while modelling; the models do what the code does.

The pipeline and the daemon:

* `checkNotes` (1068) and the task of `addToAnki` (1107) post redraws of older popups into the
  render mailbox after their checks: a newer popup waiting there is replaced, and when the
  redraw is then dropped as not current, nothing is shown at all. When the translation arrived
  in between, the redraw puts the popup that waits for it back for good (against `Daemon.h:340`). So
  `PostedPopupIsShown` and `PostedPopupComesUp` are checked without Anki's button.
* A popup a client numbered earlier may be posted over that of a newer lookup.
* A press of the sentence key is let be while a sentence is being translated
  (`sentenceComing`, 929). Letting go of the trigger closes everything but does not reset
  `translating_`: a press at the same spot is let be for a translation nobody will see.
* The wheel over a client's popup looks text up while scanning is paused (`onAdjustLength`, 979).
* `setPrecisions` forgets the translations kept (`Translation.cpp:150`); one being made at that
  moment is remembered after it (304) and comes back from then on.
* Counts made after the final save of the statistics are lost (`Daemon.cpp:400`), and a failed
  write is only tried again with the next change.
* Two daemons started with `--replace` at once may end each other.
* Sorting dictionaries (`Daemon.cpp:2053`) stores a list made from an older one.
* "Newly installed dictionaries go to the end" (`Daemon.cpp:691`): since `insertionPoint()` is asked (699-712)
  they go where their kind belongs.
* When the next instance of the pipe cannot be made (`IpcServer.cpp:352`), no client is
  accepted any more.
* The importer looks whether a dictionary is installed before it takes the lock.

Input and screen:

* On Windows a recorded mouse button is stored by the name it is shown with ("Middle click"),
  which `parseKey` does not know; the daemon then refuses the configuration and every later
  push (`ScanningPage.cpp:308-329`, against the comment at 350).
* On X11 recording swallows key events, so the trigger and the grab may stay until the next
  key; `diagnose()` compares keys but not buttons, nor a release lost while the keyboard was
  read again; a source window closed before `watchSource` is never heard of. On Windows
  `resyncKeyboard()` compares the keys with the keyboard and not the trigger with its chord.
* Areas the popup has just left are read as they are and not compared later
  (`OcrCapture.cpp:2511-2532`), and what is covered is asked twice; `HiddenIsReadAgain` leaves
  both out (`doubt`).
* Showing the fuller or translated image of the same popup resets its scroll and selection; the row
  between a translation and kanji belongs to no region.
* Over several spellings of a text the first that reaches a word wins, not the longest match
  (`Translator.cpp`, `collect()`, against its comment). Numbers beyond a double are read as 0
  (`Json.cpp:316`).

The settings application:

* A daemon that ends after it answered `dictionaries.import` leaves the queue of the
  dictionaries page stuck (`DictionariesPage.cpp:615-660`); the end of another import starts the next
  download while one is under way (against 624).
* The wizard unpacks the runtime without looking whether another installer brought and
  removed the archive; wizard and page that download one dictionary share a file the
  first import deletes; three installers share the path of the redistributable.
* After `shutdown` the wizard waits 900 ms; a daemon still connected gets `capture.reset`, then
  ends, and nobody starts it. The other installers do not repeat `capture.reset` or
  `translation.reload` when there is no connection.
* An answer of `config.get` asked before a push but handled after it overwrites the edit; a
  change elsewhere within 1.5 s of an own push is never loaded, and overwritten by the next; a
  push may carry an older `paused` (against `Settings.cpp:22`); a push lost with the
  connection, or refused, is lost silently.
* The overview's fixes and the wizard write into the copy without showing the pages; a sentence
  key that is the trigger's is shown as none, and a later store drops it; a deck
  that AnkiConnect does not list is replaced by its first; a wizard that commits before the first
  load pushes defaults (against `MainWindow.cpp:219`). `OnlyEditsChange` names these exceptions.

Updates, removal, health and the configuration as text:

* Two copies may update at once, against the comment in `UpdateGroup.h`: a window that opens after an
  update removes the folder of updates (`UpdateGroup.cpp:278-285`) with the lock of an update
  the program without a window has under way; and `fail()` of an automatic check lets go of `lock_` while an
  update that was clicked meanwhile holds it.
* "Settings first" (`OverviewPage.cpp:944`): `Settings::commit()` pushes 350 ms later, a daemon that is started
  reads its file at once. "Download the model again" (`Translation.cpp:408`) keeps files that are
  there, damaged or not. A diagnosis of the translation waits up to 90 s, the page's call for 30 s. The list of checks of a failed
  call stays after a reconnect; `restart_from_` is 0 when not connected, so that any daemon counts as the
  new one. A second click on a row with a download ends `fixing_` while the first runs; when the
  redistributable fails after models were downloaded, nothing is checked again.
* "Nothing was removed" (`UninstallOverlay`) is also said after a part was. A daemon that ends during
  the removal, or the card's own look at the machine, makes the cache folder again. The elevated helper may outlive the
  program it starts, against `Elevation.h`, when `removeNow` fails or takes too long. A build on Windows
  says it is done with an elevated daemon still running that hangs, or that `lexiglancectl` did not ask. runit
  is told to keep the daemon down and reads that later.
* What `systemctl`, `dinitctl`, `rc-service` and runit's pipe make of being told is not looked at
  (`quietly()` and `downRunit`, `Uninstall.cpp:121-139`), and the removal goes on. Without a bus of the user's, or
  when the root step has just removed the package's or the prefix's unit, `systemctl --user` fails and the
  service stays, with its restart; still "Lexiglance was uninstalled." is said (`UninstallOverlay.cpp:279`,
  `apps/ctl/main.cpp:603`), against `Uninstall.h:68`: "Stops the services that would start the daemon again".
  The service of s6 that `docs/autostart.md:84-87` has its user make is never taken down.
  `NothingBringsItBack` names these (`StillUp`) and the two above.
* With `Windows = TRUE` TLC finds `ConfigurationIsKept` violated: a recorded mouse button, as told above
  (`WindowsBackend.cpp:1129`). On X11 the rows show a button by a display name, so `storeTrigger` refuses any
  change of another row while the trigger has one. A file with one unreadable key name makes the daemon
  start with defaults, which the next save writes over it.

## 4. What is proved

TLAPS checks these theorems for all values of the constants, so for any number of texts,
requests, processes, clients, banks, keys, windows, days and so on. They assume the named
assumptions of their modules (TLC evaluates each in a run) and the hypotheses the table names.

| Module | Theorem | Statement |
|---|---|---|
| `LookupPipelineProofs` | `TypeCorrect` | `Spec => []TypeOK` |
| | `ScreenIsCurrent` | `Spec => []OnScreen` |
| | `PipelineKeepsPromise` | `Spec => PromiseKept` |
| | `TranslationsInPlace` | `Spec => []TranslationOfItsOwn` |
| | `TurnsGoToNextPopup` | `Spec => []WheelKeptForNextPopup` |
| | `QuietWhilePaused` | `Spec => []PausedIsQuiet`, if the wheel is not turned or clients ask for no popups |
| | `LatestStaysOnScreen` | `Spec => []PostedPopupIsShown`, without Anki and popups of clients |
| `TranslationServiceProofs` | `StateAlwaysOK` | `Spec => []StateOK` |
| | `NeverBothPrecisionsHeld` | `Spec => []NeverBothPrecisions` |
| | `AlwaysChosenSinceChange` | `Spec => []ChosenSinceChange` |
| | `AlwaysWarmOnce` | `Spec => []WarmOnce` |
| | `NewestRequestKept` | `Spec => NewestKept` |
| `SettingsProofs` | `SettingIsKept` | `Spec => SettingKept` |
| | `EndsUpToDate` | `Spec => []DictionariesUpToDate` |
| | `DisabledRemains` | `Spec => []DisabledStays`, if `AtomicReplace` |
| | `SmartOrderRemains` | `Spec => []SmartOrderKept` |
| | `ReconciledList` | a reload makes of a list that names each dictionary once another such list: what is there, those off still off, in order if it was |
| | `SmartOrderSorts` | `SmartOrder` holds each place once, and no entry sorts before an earlier one |
| | `CountsAreSaved` | `StatSpec => []SavedIsKept`, if days are numbers |
| | `FileOnlyGrows` | `StatSpec => FileNeverGoesBack`, if days are numbers |
| `DaemonProofs` | `OneDaemonWorks` | `TakeoverSpec => []OneAtWork` |
| | `TemporaryIsOwn` | `ImportSpec => []TemporaryIsMine` |
| | `OneWholeArchive` | the dictionary has all banks of one archive, in their order |
| | `DictionaryStaysWhole` | `ImportSpec => []DictionaryIsWhole`, if a file compiled in order tells what its archive says |
| `IpcConnectionsProofs` | `IpcInvariant` | `IpcSpec => []IpcInv` |
| | `EventsAreTold` | `IpcSpec => []NoEventForgotten` |
| | `AnswersArrive` | `IpcSpec => []NoAnswerLost` |
| `InputProofs` | `TriggerIsHeld` | `XSpec => []TriggerFollowsKeys`, for constants as `InputConstants` says |
| | `PopupGoesWithWindow` | `XSpec => []PopupFollowsItsWindow`, likewise |
| | `InputIsNoticed` | `WinSpec => []LostInputIsNoticed` |
| | `WheelGivenBack` | `WinSpec => []WheelIsGivenBack` |
| | `HiddenComesBack` | `ReadingSpec => []HiddenIsReadAgain` |
| `SettingsPagesProofs` | `OnlyEditsAreStored` | `PageSpec => OnlyEditsChange` |
| | `SetupGoesOn` | `SetupSpec => []SetupNeverStuck` |
| | `DoneMeansInstalled` | `SetupSpec => DoneIsInstalled` |
| `ApplicationProofs` | `UninstallIsOrderly` | `UninstallSpec => []UninstallInv` |
| | `RemovedIsGone` | `UninstallSpec => []NothingBringsItBack` |
| | `UpdateGoesOn` | `UpdateSpec => []UpdateInv` |
| | `UpdateAnswers` | `UpdateSpec => []UpdateIsWaitedFor` |
| | `OverviewGoesOn` | `OverviewSpec => []OverviewInv` |
| | `ButtonsReturn` | `OverviewSpec => []ButtonsComeBack` |
| | `OfferStaysCurrent` | `OverviewSpec => []OfferIsCurrent` |

The arguments. Each rests on an invariant that is inductive, which the property alone is not.

* `TypeCorrect`: `TypeOK` is inductive; one step per action (`TypeStep`).
* `ScreenIsCurrent`: a popup whose number is beyond `generation` could be shown, so `ScreenInv`
  adds `NothingFromTheFuture`: no popup, request or task carries a number not given out
  yet. Three lemmas classify what any step does: `NumberingStep` (numbers only grow, by
  one), `ScreenStep` (the screen is kept, closed up to the new number, or changed by the two
  halves of the show task), `OriginStep` (every popup after a step was there before, or was
  made from the request captured, or is a redraw of one that was there). The invariants
  follow from these rather than from thirty actions each.
* `PipelineKeepsPromise`: the classification maps each step to a `Show`, `Close` or
  `AskOnly` of `PopupPromise`, or a stutter.
* `TranslationsInPlace`: `TranslationInv` adds `TicketsMatch`: a job that carries the
  current ticket is for the text of the popup waiting.
* `QuietWhilePaused`: `QuietInv` follows the pause through the UI thread's tasks
  (`LastConfigure`): while it is in force nothing that was looked up has a number after the
  closing. Its hypothesis is needed: the wheel over a client's popup looks text up (3.1).
* `LatestStaysOnScreen`: `DeliveryInv` follows the latest popup stage by stage. Unless
  a closing or another lookup came after it, it waits in the render mailbox, or is drawn, or
  completed, or is in the last show task, or on screen; and what comes after it (fuller
  image, translation) is itself. Anki's redraws and clients' popups may overtake it (3.1),
  hence the hypotheses.
* The translation service's invariant is types, what kinds and numbers say of each other
  (`Numbered`), that a model is chosen only between choosing its weights and the end of the
  work (`Choosing`), and `NeverBothPrecisions`, because making room, letting go and marking as
  used keep the models apart only if they were. `StateOK` is `TypeOK` without the translations kept.
* `SettingIsKept`, `EndsUpToDate`: `ReloadInv` says who stores or reloads holds
  `reload_mutex_`; what a reload is about to store is the configuration but for its list;
  at the configuration's place stands a list that was reconciled with the files seen; and a
  reload that saw an older directory is followed by another (`Due`). `ListsOK` adds that every
  list there is, stored, sent or about to be, names each dictionary once.
* `DisabledRemains`: `StaysOff` says that what is disabled is off in the list there is, and but for
  what the last reload could not read, installed and off in each list a reload is about to store. What a thread
  has seen is what it could read (`Loading`), and only the holder of the mutex has seen
  anything, so that what it leaves out is what is forgotten. It needs `AtomicReplace`: where a file is
  moved aside first, a reload may see a moment without it and forget (run `windows_update`).
  `SmartOrderRemains`: `StaysSorted`, the same of a list in its order; a new entry goes before
  the first one that sorts after it, which keeps the order since comparing is a strict weak
  order (`BeforeOrders`).
* What these say of lists is about folds (`Kept`, `Reconciled`, `SmartOrder`), of which the
  library proves nothing. Induction over numbers is had from the well-founded order of `Nat`:
  a set of numbers has a least one (`LeastNumber`), so what is kept by the next number holds of
  all (`AllNumbers`); then a fold over a finite set of numbers exists (`FoldExists`) and keeps
  what each step keeps (`FoldKeeps`). `KeptIsPart`, `PlacedList` and `ReconciledEntries` rest on that.
* `CountsAreSaved`, `FileOnlyGrows`: who writes holds `save_mutex_`; what is written lies between
  the file and the tally, by how often it was emptied and by the total; a tally marked as
  saved is in the file, being written, or its write failed.
* `OneDaemonWorks`: whoever works and is not from before the lock holds it; one started with
  `--replace` that works has listed and ended those from before; handing over to the
  administrator's task comes after that, so what it starts need not list again.
* `IpcInvariant`: what travels to the settings application is whole lines until it is hung up
  on, so the head in its buffer is completed by its own tail; each pending call is asked,
  handled or answered; an event waits only for who has woken the loop or is about to.
* `TemporaryIsOwn`, `OneWholeArchive`: who works on the temporary file holds the lock; what is
  written and then what waits in the pool's queue are the first banks of the archive in
  their order. That a file compiled in this order tells of every text what its archive says is a
  computation over the archive (folds over its rows): a hypothesis of `DictionaryStaysWhole`,
  which TLC evaluates for the archives of the run (`MCDaemon!InOrderIsRight`).
* `TriggerIsHeld`: the last event queued about a key says whether it is held, and without one
  what is `down` does; the trigger is what `down` makes it unless keys were swallowed.
  `PopupGoesWithWindow`: the window of a popup is in front, or an event of another is queued.
  `InputConstants`: key codes are no buttons, windows have names, chords are of existing keys.
* `InputIsNoticed`: the trigger is what the keys make it unless a change was `unseen`; after a look
  the keys are those pressed and no message of a key waits. `WheelGivenBack`: the hook follows
  trigger, popup and settings in every handler that changes one of them.
* `HiddenComesBack`: what is seen of the popup's is where the popup is, was a moment ago, or
  moved from while pixels were read (`ScreenOK`, `GrabOK`); what a cached region has of the
  popup's is in doubt or noted as cut (`RegionOK`), and of a region that serves an answer
  only those cuts are left that the popup still covers (`StillCut`, after `Uncut`).
* `OnlyEditsAreStored`: a page stores all it shows, so `PageInv` says the pages show what the
  copy holds but for what was written behind them; Anki is asked only once the settings
  were loaded, and a configuration received has all settings.
* `SetupGoesOn`: `SetupInv` says where an install is (`Resting`, `Listing`, `Loading`, `Ending`).
  While it loads, what the wizard counts is what flies, waits or is imported for it, so one
  count at zero means that the batch goes on; the end waits for a call, an installer or a timer.
  An import it knows the number of is with the daemon, told, or the connection is over; and the
  answer that brings a number lies before the end of that import (`LinkOK`). Each callback
  keeps this for the wizard it is given, those it runs into included (`Result`).
* `DoneMeansInstalled`: `DoneInv` says what is accounted for while nothing failed (`Accounted`):
  each dictionary offered is installed, flies, waits in the queue, or is the one that the
  wizard's import is of; the models of OCR are there or fly, and the runtime is there or is yet to be
  unpacked. That the import is of it takes one more part (`Numbered`): the daemon gives each
  import a number of its own, and a connection brings no number of a daemon that ended. Imports
  of the page and other installs take away nothing of this, as a title is no name of a model or of
  the runtime (`WantedAssumption`).
* `UninstallIsOrderly`, `RemovedIsGone`: `UninstallInv` says of each removal what is done at each
  step (`StepOf`): past ending the services each was taken down, or told, or its command failed, or nobody
  tells it (`Settled`); past ending the programs one runs only where such a service may start it (`StillUp`) or
  it cannot be ended; at the end what is left of the plan is what failed. That holds whatever the other
  removal does, as it only removes too; `KeeperIsSeen`: a service that was not told, other than
  systemd's, is known by its entries, which are there as long as it is. Nothing is assumed of the commands.
* `UpdateGoesOn`, `UpdateAnswers`: `Ready` says of both programs that one that is busy has a callback
  waiting that ends it. Callbacks run into others, so each operator is shown to lead from
  `Ready` but for the program it acts for (`ReadyBut`) back to `Ready`; callbacks that
  wait are told apart by numbers.
* `OverviewGoesOn`, `ButtonsReturn`, `OfferStaysCurrent`: `OverviewInv` has three parts. `But` is
  what the buttons wait for, but for the gaps a callback of several steps leaves until it ends. `Pids`:
  daemons are told apart, and one on its way is none that was met. `Current`: what is shown
  of the daemon connected to is what it lacks now, or something will have the page
  look again: a report that is asked for or was answered since, a change told after it, the timer
  that checks again, or the page is hidden and knows it is stale.

Checked on small instances only:

* Liveness (`PostedPopupComesUp`, `HideTakesEffect`, `RequestAnswered`, `CallAnswered`,
  `WorkFinished`): out of the prover's reach.
* `ClickMeetsEntry`, `MarkedIsLookedUp`, `BestMatchKept`, `JsonIsKept`, `ConfigurationIsKept`, which speak of what recursive
  operators or folds over the members of a document compute: the prover cannot be given a module that
  declares a recursive operator, and an induction theorem of the library takes an operator, which no
  backend can be given.
* The bound of the translations kept (`SelectSeq`).

## 5. Plan

Done: the modules above, with their runs and proofs. Left, in this order:

1. `StructuredContent`: definitions turned into text; the archive's directory (`Zip.cpp`).
2. `Audio`: its cache and one player at a time.
3. More of `OcrCapture` (when the screen is read again), of the backends' windows, and of
   the renderer's text layout.

## 6. What is not modelled

Of the handlers modelled: the stale time of `QLockFile` (`UpdateGroup.cpp:377`), after which the lock of a
program that lives is broken; `restart` of the Overview page takes `client().daemonPid()`
(`OverviewPage.cpp:1083`), known from a status reply only, where the model remembers the process connected to.
No property depends on either.

Audio, archives and structured content, badges and highlights (candidates of the plan); image
processing, recognisers and translation models (numeric code); drawing, fonts, themes and widgets; HTTP,
hashes, logs, accessibility services and other calls of the operating system, of which only outcomes
are choices; tables of rules of a language (data); vendored headers.
