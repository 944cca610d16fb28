------------------------------ MODULE X11Input ------------------------------
(***************************************************************************)
(* The input side of the X11 backend, on the UI thread: the trigger and    *)
(* the keys held as raw events tell of them, the wheel's grab, when the    *)
(* pointer is scanned, chords being recorded, and the window a popup       *)
(* follows (src/src/platform/linux/X11Backend.cpp).                        *)
(*                                                                         *)
(* The X server is ahead of the backend: what it knows (held, pointer,     *)
(* front, open) has changed when an event about it is still in the queue,  *)
(* and the backend asks it for some of that in between. A key code stands  *)
(* for the key the layout gives it. Clocks are choices: a scan that waits  *)
(* may come due at any time.                                               *)
(***************************************************************************)
EXTENDS Naturals, Sequences, FiniteSets, SequencesExt

CONSTANTS KeyCodes,  \* keys of the keyboard
          Buttons,   \* mouse buttons but the wheel
          Named,     \* keys and buttons that can be recorded
          Toplevels,   \* windows of applications
          Configs,   \* settings: chord (sets of keys, one of each held), sentence, wheel
          Places,    \* spots of the screen; the popup covers "popup" while it is up
          MaxQueue, MaxInputs, MaxPopups, MaxLost \* bounds

None == "none"
Codes == KeyCodes \cup Buttons

VARIABLES
  held, pointer, front, open, watched, subscribed, \* the X server; watched: windows we hear of
  queue,       \* events not handled yet
  down,        \* keys_down_, buttons_down_
  config,
  trigger,     \* trigger_active_, sentence_held_
  grabbed,     \* wheel_grabbed_
  scanPending, lastPoint, fast, \* fast: probe_speed_ is that of a pointer flying
  recording, recorded,
  mapped, source, active,       \* popup_mapped_, source_, active_
  swallowed,   \* down changed and updateTrigger() did not look since: a chord is recorded,
               \* or the keyboard was read again
  missed,      \* events got lost and diagnose() did not look since
  inputs, popups, lost          \* for the bounds

server  == <<held, pointer, front, open, watched, subscribed>>
trig    == <<down, trigger, grabbed, swallowed>>
scans   == <<scanPending, lastPoint, fast>>
records == <<recording, recorded>>
popup   == <<mapped, source, active>>
bounds  == <<inputs, popups, lost, missed>>
xvars   == <<server, queue, config, trig, scans, records, popup, bounds>>

Released == [active |-> FALSE, sentence |-> FALSE]

XInit ==
  /\ held = {} /\ pointer = "text" /\ front = (CHOOSE w \in Toplevels : TRUE) /\ open = Toplevels
  /\ watched = {} /\ subscribed = TRUE
  /\ queue = <<>> /\ down = {} /\ config \in Configs
  /\ trigger = Released /\ grabbed = FALSE
  /\ swallowed = FALSE /\ missed = FALSE
  /\ scanPending = FALSE /\ lastPoint = None /\ fast = FALSE
  /\ recording = FALSE /\ recorded = {}
  /\ mapped = FALSE /\ source = None /\ active = None
  /\ inputs = 0 /\ popups = 0 /\ lost = 0

ChordHeld(keys, c)    == c.chord # {} /\ \A group \in c.chord : group \cap keys # {}
SentenceHeld(keys, c) == c.sentence \cap keys # {}

\* syncKeyboard(): the keyboard as it is now; buttons stay as events told of them.
Synced == (held \cap KeyCodes) \cup (down \cap Buttons)

-----------------------------------------------------------------------------
(* The user, the applications.                                             *)

Event(type, what) == [type |-> type, what |-> what]

\* Raw events come as long as they are selected, and one may get lost.
Told(e) ==
  \/ subscribed /\ queue' = Append(queue, e) /\ UNCHANGED <<lost, missed>>
  \/ ~subscribed /\ missed' = TRUE /\ UNCHANGED <<queue, lost>>
  \/ /\ subscribed /\ lost < MaxLost /\ e.type \in {"press", "release"} /\ e.what \in KeyCodes
     /\ lost' = lost + 1 /\ missed' = TRUE
     /\ UNCHANGED queue

Input == inputs < MaxInputs /\ Len(queue) < MaxQueue /\ inputs' = inputs + 1

Key(k) ==
  /\ Input
  /\ held' = (held \ {k}) \cup ({k} \ held)
  /\ Told(Event(IF k \in held THEN "release" ELSE "press", k))
  /\ UNCHANGED <<pointer, front, open, watched, subscribed, config, trig, scans, records,
                 popup, popups>>

Turn ==
  /\ Input /\ Told(Event("wheel", None))
  /\ UNCHANGED <<server, config, trig, scans, records, popup, popups>>

Move(to) ==
  /\ Input /\ to # pointer
  /\ pointer' = to
  /\ Told(Event("motion", None))
  /\ UNCHANGED <<held, front, open, watched, subscribed, config, trig, scans, records,
                 popup, popups>>

\* Another window gets the keyboard; the window manager says so on the root window.
Focus(w) ==
  /\ Input /\ w \in open \ {front}
  /\ front' = w
  /\ queue' = Append(queue, Event("focus", None))
  /\ UNCHANGED <<held, pointer, open, watched, subscribed, config, trig, scans, records,
                 popup, popups, lost, missed>>

\* A window is closed or minimised. Only of the one watched we are told.
Close(w) ==
  /\ Input /\ w \in open \ {front}
  /\ open' = open \ {w}
  /\ watched' = watched \ {w}
  /\ queue' = IF w \in watched THEN Append(queue, Event("gone", w)) ELSE queue
  /\ UNCHANGED <<held, pointer, front, subscribed, config, trig, scans, records, popup,
                 popups, lost, missed>>

\* Another client changed what is selected on the root window.
Unsubscribe ==
  /\ subscribed /\ lost < MaxLost /\ lost' = lost + 1
  /\ subscribed' = FALSE
  /\ UNCHANGED <<held, pointer, front, open, watched, queue, config, trig, scans, records,
                 popup, inputs, popups, missed>>

-----------------------------------------------------------------------------
(* The popup and the window it follows.                                    *)

\* A mistake: the window with the keyboard is only looked at when the source changes.
WatchSourceOnce(w, shown) ==
  IF w = source THEN UNCHANGED <<active, source, watched>>
  ELSE /\ active' = IF shown THEN front ELSE None
       /\ source' = w
       /\ watched' = (watched \ {source}) \cup ({w} \cap open)

\* watchSource(). A window that is closed already is selected for nothing.
WatchSource(w, shown) ==
  /\ active' = IF shown THEN front ELSE None
  /\ source' = w
  /\ watched' = IF w = source THEN watched ELSE (watched \ {source}) \cup ({w} \cap open)

\* dismiss() of the daemon, as source_closed, click_outside and trigger_released call it.
Hide == mapped' = FALSE /\ WatchSource(None, FALSE)

ShowPopup ==
  /\ popups < MaxPopups /\ popups' = popups + 1
  /\ \E w \in Toplevels \cup {None} : WatchSource(w, TRUE)
  /\ mapped' = TRUE
  /\ UNCHANGED <<held, pointer, front, open, subscribed, queue, config, trig, scans,
                 records, inputs, lost, missed>>

HidePopup ==
  /\ mapped /\ Hide
  /\ UNCHANGED <<held, pointer, front, open, subscribed, queue, config, trig, scans,
                 records, bounds>>

\* sourceClosed(): forgets it, then tells the daemon, which closes what is up; by then
\* there is no window left to listen to no more.
SourceClosed == mapped' = FALSE /\ source' = None /\ active' = None /\ UNCHANGED watched

OnPopup == mapped /\ pointer = "popup"

-----------------------------------------------------------------------------
(* Scanning and the trigger.                                               *)

\* A mistake: a spot flown past is not looked at again.
ScanOnce(force) ==
  \/ /\ ~force /\ pointer = lastPoint
     /\ scanPending' = FALSE /\ UNCHANGED <<lastPoint, fast>>
  \/ /\ force \/ pointer # lastPoint
     /\ fast' \in BOOLEAN
     /\ scanPending' = FALSE
     /\ lastPoint' = IF ~force /\ (fast \/ fast') THEN lastPoint ELSE pointer

\* scan(): forced, or when the pointer is far enough from the spot last read. One that
\* flies past, or did a moment ago, is looked at again once it had time to settle.
Scan(force) ==
  \/ /\ ~force /\ pointer = lastPoint
     /\ scanPending' = FALSE /\ UNCHANGED <<lastPoint, fast>>
  \/ /\ ~force /\ pointer # lastPoint
     /\ fast' \in BOOLEAN /\ (fast \/ fast')
     /\ scanPending' = TRUE /\ UNCHANGED lastPoint
  \/ /\ force \/ pointer # lastPoint
     /\ fast' \in BOOLEAN /\ (force \/ ~(fast \/ fast'))
     /\ scanPending' = FALSE /\ lastPoint' = pointer

\* updateTrigger(), with what is down and the settings as they are now. The keyboard is
\* read again when the trigger goes down; the wheel is grabbed as long as it is. A popup
\* goes with the trigger unless the pointer is on it, or was closed before (closing).
UpdateTrigger(keys, c, closing) ==
  LET chord    == ChordHeld(keys, c)
      sentence == chord /\ SentenceHeld(keys, c)
      pressed  == chord /\ ~trigger.active
      released == ~chord /\ trigger.active
  IN  /\ trigger' = [active |-> chord, sentence |-> sentence]
      /\ grabbed' = (c.wheel /\ chord)
      /\ down' = IF pressed THEN (held \cap KeyCodes) \cup (keys \cap Buttons) ELSE keys
      /\ \/ /\ pressed \/ (sentence /\ ~trigger.sentence)
            /\ Scan(TRUE)
         \/ released /\ scanPending' = FALSE /\ UNCHANGED <<lastPoint, fast>>
         \/ /\ chord = trigger.active /\ ~(sentence /\ ~trigger.sentence)
            /\ UNCHANGED scans
      /\ IF closing \/ (released /\ ~OnPopup) THEN Hide ELSE UNCHANGED <<popup, watched>>
      /\ swallowed' = (down' # keys)

ScanDue ==
  /\ scanPending /\ Scan(FALSE)
  /\ UNCHANGED <<server, queue, config, trig, records, popup, bounds>>

-----------------------------------------------------------------------------
(* What the daemon has the UI thread do.                                   *)

\* configure(): new settings against the keys held now; while a chord is recorded the
\* trigger is left alone.
Configure(c) ==
  /\ config' = c
  /\ IF recording
     THEN /\ down' = Synced /\ swallowed' = TRUE
          /\ grabbed' = (c.wheel /\ trigger.active)
          /\ UNCHANGED <<trigger, scans, popup, watched>>
     ELSE UpdateTrigger(Synced, c, FALSE)
  /\ UNCHANGED <<held, pointer, front, open, subscribed, queue, records, bounds>>

RecordChord ==
  /\ ~recording /\ inputs < MaxInputs
  /\ recording' = TRUE /\ recorded' = {}
  /\ down' = Synced
  /\ swallowed' = (swallowed \/ down' # down)
  /\ UNCHANGED <<server, queue, config, trigger, grabbed, scans, popup, bounds>>

CancelRecording ==
  /\ recording
  /\ recording' = FALSE /\ recorded' = {}
  /\ UNCHANGED <<server, queue, config, trig, scans, popup, bounds>>

\* A mistake: the keys are put right, and what follows from them is not.
DiagnoseKeysOnly ==
  /\ queue = <<>> /\ missed
  /\ down' = Synced
  /\ subscribed' = TRUE
  /\ missed' = ~subscribed
  /\ UNCHANGED <<held, pointer, front, open, watched, queue, config, trigger, grabbed,
                 swallowed, scans, popup, records, inputs, popups, lost>>

\* diagnose(), once every event sent is handled: the keys the server says are held, and
\* then raw events selected again, if they are not.
Diagnose ==
  /\ queue = <<>> /\ missed
  /\ IF Synced # down
     THEN UpdateTrigger(Synced, config, FALSE)
     ELSE UNCHANGED <<trig, scans, popup, watched>>
  /\ subscribed' = TRUE
  /\ missed' = ~subscribed
  /\ UNCHANGED <<held, pointer, front, open, queue, config, records, inputs, popups, lost>>

-----------------------------------------------------------------------------
(* Events.                                                                 *)

Take(type) == queue # <<>> /\ Head(queue).type \in type /\ queue' = Tail(queue)

KeysAfter(e) == IF e.type = "press" THEN down \cup {e.what} ELSE down \ {e.what}

\* While a chord is recorded keys and buttons are only written down; it is complete once
\* nothing recorded is held any more.
Record(e) ==
  LET keys == KeysAfter(e)
      done == e.type = "release" /\ recorded # {} /\ keys \cap (recorded \cup (Named \cap Buttons)) = {}
  IN  /\ down' = keys /\ swallowed' = TRUE
      /\ recording' = ~done
      /\ recorded' = CASE done                          -> {}
                       [] ~done /\ e.type = "press"     -> recorded \cup ({e.what} \cap Named)
                       [] ~done /\ e.type = "release"   -> recorded

Recorded ==
  /\ recording /\ Take({"press", "release"})
  /\ Record(Head(queue))
  /\ UNCHANGED <<server, config, trigger, grabbed, scans, popup, bounds>>

\* A press beside the popup closes it before the trigger is looked at.
HandleKey ==
  /\ ~recording /\ Take({"press", "release"})
  /\ LET e == Head(queue)
     IN  UpdateTrigger(KeysAfter(e), config,
                       e.what \in Buttons /\ e.type = "press" /\ mapped /\ ~OnPopup)
  /\ UNCHANGED <<held, pointer, front, open, subscribed, config, records, bounds>>

\* The wheel chooses the length while the trigger is held; else it scrolls the page, and
\* leaves the text of the popup behind.
HandleWheel ==
  /\ Take({"wheel"})
  /\ IF recording
     THEN UNCHANGED <<trig, scans, popup, watched>>
     ELSE UpdateTrigger(down, config,
                        ~(trigger.active /\ config.wheel) /\ mapped /\ ~OnPopup)
  /\ UNCHANGED <<held, pointer, front, open, subscribed, config, records, bounds>>

HandleMotion ==
  /\ Take({"motion"})
  /\ scanPending' = (scanPending \/ trigger.active)
  /\ UNCHANGED <<server, config, trig, lastPoint, fast, records, popup, bounds>>

\* Another window took the keyboard while a popup was up.
HandleFocus ==
  /\ Take({"focus"})
  /\ IF active # None /\ front # active THEN SourceClosed ELSE UNCHANGED <<popup, watched>>
  /\ UNCHANGED <<held, pointer, front, open, subscribed, config, trig, scans, records, bounds>>

HandleGone ==
  /\ Take({"gone"})
  /\ IF source = Head(queue).what THEN SourceClosed ELSE UNCHANGED <<popup, watched>>
  /\ UNCHANGED <<held, pointer, front, open, subscribed, config, trig, scans, records, bounds>>

-----------------------------------------------------------------------------
Environment ==
  \/ \E k \in Codes : Key(k)
  \/ \E p \in Places : Move(p)
  \/ \E w \in Toplevels : Focus(w) \/ Close(w)
  \/ Turn \/ Unsubscribe

Tasks ==
  \/ ShowPopup \/ HidePopup \/ RecordChord \/ CancelRecording \/ Diagnose
  \/ \E c \in Configs \ {config} : Configure(c)

Handle ==
  HandleKey \/ Recorded \/ HandleWheel \/ HandleMotion \/ HandleFocus \/ HandleGone

XNext == Environment \/ Tasks \/ Handle \/ ScanDue

XSpec == XInit /\ [][XNext]_xvars

-----------------------------------------------------------------------------
Queued(types) == \E i \in DOMAIN queue : queue[i].type \in types

\* The trigger is what the user holds, also when settings, another chord being recorded
\* and lost events come in between: once the events are handled, it is down exactly when
\* the chord is held, and the wheel is taken from the applications exactly that long.
\* Of buttons the backend only knows what events told it.
TriggerFollowsKeys ==
  /\ grabbed <=> config.wheel /\ trigger.active
  /\ (~Queued({"press", "release"}) /\ ~swallowed /\ ~missed
      /\ held \cap Buttons = down \cap Buttons) =>
       /\ trigger.active = ChordHeld(held, config)
       /\ trigger.sentence = (trigger.active /\ SentenceHeld(held, config))

\* Wherever the pointer comes to rest with the trigger held is read: it was scanned
\* there, will be, or an event that makes it so is in the queue.
RestIsRead ==
  trigger.active /\ lost = 0 => pointer = lastPoint \/ scanPending \/ Queued({"motion"})

\* A popup goes with what it belongs to: while one is up, the window with the keyboard
\* is the one it came up over, or an event says it changed, and we hear of the window
\* the text is from.
PopupFollowsItsWindow ==
  mapped => /\ front = active \/ Queued({"focus"})
            /\ source \in open => source \in watched
=============================================================================
