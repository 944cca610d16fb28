----------------------------- MODULE WindowsInput -----------------------------
(***************************************************************************)
(* The input side of the Windows backend, on the UI thread: the trigger    *)
(* and the keys held as raw input tells of them, the hook that takes the   *)
(* wheel from the applications, chords being recorded, the window a popup  *)
(* goes with, and the clipboard that stands in for a selection             *)
(* (src/src/platform/windows/WindowsBackend.cpp).                          *)
(*                                                                         *)
(* Unlike on X11 nothing is told of windows: they are looked at every so   *)
(* often, and so is the keyboard, for input that went missing while        *)
(* another desktop was in front or raw input was no longer registered.     *)
(***************************************************************************)
EXTENDS Naturals, Sequences, FiniteSets

CONSTANTS WinKeys,    \* keys and mouse buttons, but the left and right ones
          WinButtons, \* those that are mouse buttons
          WinWindows, \* windows of applications
          WinConfigs, \* settings: chord, sentence, wheel, lock, selection, plain
          MaxMessages, MaxSteps, MaxShown \* bounds

NoWindow == "none"
OurText  == "ours"

VARIABLES
  pressed, away, atFront, exist, registered, over, clipboard, \* the system
  messages,                          \* not handled yet
  keys,                              \* down_
  settings, armed, hook,             \* armed: trigger_active_, sentence_held_
  pending,                           \* scan_pending_
  chord, chordKeys,                  \* recording_, recorded_
  shown, textOf, foreground,         \* popup_shown_, source_, foreground_
  ownCopy, lookedUp,                 \* own_clipboard_; the text last told to the daemon
  unseen,     \* keys changed and updateTrigger() did not look since
  checked,    \* checkInput() had a look, and nothing happened since
  steps, showings

winSystem == <<pressed, away, atFront, exist, registered, over, clipboard>>
winKeys   == <<keys, armed, hook, unseen>>
winChord  == <<chord, chordKeys>>
winPopup  == <<shown, textOf, foreground>>
winClip   == <<ownCopy, lookedUp>>
winVars   == <<winSystem, messages, winKeys, settings, pending, winChord, winPopup, winClip,
               checked, steps, showings>>

WinInit ==
  /\ pressed = {} /\ away = FALSE /\ registered = TRUE /\ over = FALSE
  /\ atFront = (CHOOSE w \in WinWindows : TRUE) /\ exist = WinWindows
  /\ clipboard = [number |-> 0, text |-> NoWindow]
  /\ messages = <<>> /\ keys = {} /\ settings \in WinConfigs
  /\ armed = [active |-> FALSE, sentence |-> FALSE] /\ hook = FALSE
  /\ pending = FALSE /\ chord = FALSE /\ chordKeys = {}
  /\ shown = FALSE /\ textOf = NoWindow /\ foreground = NoWindow
  /\ ownCopy = 0 /\ lookedUp = NoWindow
  /\ unseen = FALSE /\ checked = FALSE /\ steps = 0 /\ showings = 0

-----------------------------------------------------------------------------
(* The user and the system.                                                *)

Step == steps < MaxSteps /\ Len(messages) < MaxMessages /\ steps' = steps + 1 /\ checked' = FALSE

\* Raw input comes while it is registered and our desktop is in front.
Message(type, what) == [type |-> type, what |-> what]
Sent(m) == messages' = IF registered /\ ~away THEN Append(messages, m) ELSE messages

PressOrRelease(k) ==
  /\ Step
  /\ pressed' = (pressed \ {k}) \cup ({k} \ pressed)
  /\ Sent(Message(IF k \in pressed THEN "up" ELSE "down", k))
  /\ UNCHANGED <<away, atFront, exist, registered, over, clipboard, winKeys, settings, pending,
                 winChord, winPopup, winClip, showings>>
TurnWheel ==
  /\ Step /\ Sent(Message("wheel", NoWindow))
  /\ UNCHANGED <<winSystem, winKeys, settings, pending, winChord, winPopup, winClip, showings>>
MovePointer ==
  /\ Step /\ over' = ~over /\ Sent(Message("moved", NoWindow))
  /\ UNCHANGED <<pressed, away, atFront, exist, registered, clipboard, winKeys, settings,
                 pending, winChord, winPopup, winClip, showings>>
\* A UAC prompt or the lock screen comes and goes; another program takes raw input from us.
OtherDesktop ==
  /\ Step /\ away' = ~away
  /\ UNCHANGED <<pressed, atFront, exist, registered, over, clipboard, messages, winKeys,
                 settings, pending, winChord, winPopup, winClip, showings>>
LoseInput ==
  /\ Step /\ registered /\ registered' = FALSE
  /\ UNCHANGED <<pressed, away, atFront, exist, over, clipboard, messages, winKeys, settings,
                 pending, winChord, winPopup, winClip, showings>>
BringToFront(w) ==
  /\ Step /\ w \in exist \ {atFront} /\ atFront' = w
  /\ UNCHANGED <<pressed, away, exist, registered, over, clipboard, messages, winKeys, settings,
                 pending, winChord, winPopup, winClip, showings>>
CloseWindow(w) ==
  /\ Step /\ w \in exist \ {atFront} /\ exist' = exist \ {w}
  /\ UNCHANGED <<pressed, away, atFront, registered, over, clipboard, messages, winKeys, settings,
                 pending, winChord, winPopup, winClip, showings>>
CopyElsewhere ==
  /\ Step
  /\ clipboard' = [number |-> clipboard.number + 1, text |-> "theirs"]
  /\ messages' = Append(messages, Message("copied", NoWindow))
  /\ UNCHANGED <<pressed, away, atFront, exist, registered, over, winKeys, settings, pending,
                 winChord, winPopup, winClip, showings>>

-----------------------------------------------------------------------------
(* The popup.                                                              *)

\* watchSource(): whatever is in front now counts as where the user is.
Watch(w, up) ==
  /\ textOf' = w
  /\ foreground' = IF up \/ w # NoWindow THEN atFront ELSE NoWindow
Watching == textOf # NoWindow \/ foreground # NoWindow

\* updateWheelLock(): the hook is there as long as the trigger is held over a popup.
LockWheel(c) == hook' = (c.wheel /\ c.lock /\ armed'.active /\ shown')

\* A mistake: the hook is left to the trigger, which may stay down.
HideHooked(c) == Watch(NoWindow, FALSE) /\ shown' = FALSE /\ hook' = (hook /\ armed'.active)

\* hidePopup()
CloseShown(c) ==
  /\ Watch(NoWindow, FALSE)
  /\ shown' = FALSE
  /\ IF shown \/ armed' # armed \/ c # settings THEN LockWheel(c) ELSE UNCHANGED hook

ShowWindowsPopup ==
  /\ showings < MaxShown /\ showings' = showings + 1
  /\ \E w \in WinWindows \cup {NoWindow} : Watch(w, TRUE)
  /\ shown' = TRUE /\ UNCHANGED armed /\ LockWheel(settings)
  /\ UNCHANGED <<winSystem, messages, keys, unseen, settings, pending, winChord, winClip,
                 checked, steps>>
HideWindowsPopup ==
  /\ shown /\ UNCHANGED armed /\ CloseShown(settings)
  /\ UNCHANGED <<winSystem, messages, keys, unseen, settings, pending, winChord, winClip,
                 checked, steps, showings>>

\* What checkSource() finds: left for another window, but not while the trigger is held, or
\* the text's window is closed.
Gone(active) ==
  \/ foreground # NoWindow /\ atFront # foreground /\ ~active
  \/ textOf # NoWindow /\ textOf \notin exist

-----------------------------------------------------------------------------
(* The trigger.                                                            *)

ChordDown(down, c) == c.chord # {} /\ \A group \in c.chord : group \cap down # {}
SentenceDown(down, c) == c.sentence \cap down # {}
OnThePopup == shown /\ over

\* updateTrigger(), with the keys down as given. `closing`: the daemon has closed the popup
\* for a click beside it before. A forced scan leaves none pending. With the trigger let go
\* the popup goes too, unless the pointer is on it and its window is still there.
UpdateArmed(down, c, closing) ==
  LET held     == ChordDown(down, c)
      sentence == held /\ SentenceDown(down, c)
      released == armed.active /\ ~held
  IN  /\ keys' = down /\ unseen' = FALSE
      /\ armed' = [active |-> held, sentence |-> sentence]
      /\ pending' = (pending /\ ~released /\ ~(held /\ ~armed.active) /\ ~(sentence /\ ~armed.sentence))
      /\ IF closing \/ (released /\ (~OnThePopup \/ Gone(FALSE)))
         THEN CloseShown(c)
         ELSE /\ UNCHANGED winPopup
              /\ IF held # armed.active \/ c # settings THEN LockWheel(c) ELSE UNCHANGED hook

Due ==
  /\ pending /\ pending' \in BOOLEAN
  /\ UNCHANGED <<winSystem, messages, winKeys, settings, winChord, winPopup, winClip, checked,
                 steps, showings>>

-----------------------------------------------------------------------------
(* What the daemon has the UI thread do.                                   *)

\* configure(): plain overlays or not closes what is up; while a chord is recorded the keys
\* are read again, and nothing follows from them.
ConfigureWindows(c) ==
  /\ settings' = c /\ checked' = FALSE
  /\ LET closing == c.plain # settings.plain
     IN  IF chord
         THEN /\ keys' = pressed /\ unseen' = TRUE /\ UNCHANGED <<armed, pending>>
              /\ IF closing THEN CloseShown(c) ELSE UNCHANGED winPopup /\ LockWheel(c)
         ELSE UpdateArmed(pressed, c, closing)
  /\ UNCHANGED <<winSystem, messages, winChord, winClip, steps, showings>>

RecordWindowsChord ==
  /\ ~chord /\ Step
  /\ chord' = TRUE /\ chordKeys' = {}
  /\ keys' = pressed /\ unseen' = (unseen \/ keys # pressed)
  /\ UNCHANGED <<winSystem, messages, armed, hook, settings, pending, winPopup, winClip,
                 showings>>
CancelWindowsRecording ==
  /\ chord /\ chord' = FALSE /\ chordKeys' = {}
  /\ UNCHANGED <<winSystem, messages, winKeys, settings, pending, winPopup, winClip, checked,
                 steps, showings>>

\* A text copied from the popup: the number of our own copy is asked for after the clipboard
\* is closed again, when another program may have written it.
CopyFromPopup ==
  /\ shown /\ Step
  /\ \E late \in BOOLEAN :
       LET ours == [number |-> clipboard.number + 1, text |-> OurText]
           last == IF late THEN [number |-> clipboard.number + 2, text |-> "theirs"] ELSE ours
       IN  /\ clipboard' = last /\ ownCopy' = last.number
           /\ messages' = Append(messages, Message("copied", NoWindow))
  /\ UNCHANGED <<pressed, away, atFront, exist, registered, over, winKeys, settings, pending,
                 winChord, winPopup, lookedUp, showings>>

\* diagnose() handles the raw input that came first; then as checkInput(), and the trigger
\* is looked at while a chord is recorded too.
DiagnoseWindows ==
  /\ \A n \in DOMAIN messages : messages[n].type = "copied"
  /\ IF keys # pressed THEN UpdateArmed(pressed, settings, FALSE)
     ELSE UNCHANGED <<winKeys, pending, winPopup>>
  /\ registered' \in {TRUE, registered}
  /\ UNCHANGED <<pressed, away, atFront, exist, over, clipboard, messages, settings, winChord,
                 winClip, checked, steps, showings>>

-----------------------------------------------------------------------------
(* The loop: messages, and what it looks at every so often.                *)

TakeMessage(types) == messages # <<>> /\ Head(messages).type \in types /\ messages' = Tail(messages)
DownAfter(m) == IF m.type = "down" THEN keys \cup {m.what} ELSE keys \ {m.what}

RecordKey ==
  /\ chord /\ TakeMessage({"down", "up"})
  /\ LET m    == Head(messages)
         down == DownAfter(m)
         done == m.type = "up" /\ chordKeys # {} /\ chordKeys \cap down = {}
     IN  /\ keys' = down /\ unseen' = TRUE
         /\ chord' = ~done
         /\ chordKeys' = IF done THEN {} ELSE IF m.type = "down" THEN chordKeys \cup {m.what} ELSE chordKeys
  /\ UNCHANGED <<winSystem, armed, hook, settings, pending, winPopup, winClip, checked, steps,
                 showings>>

HandleRawKey ==
  /\ ~chord /\ TakeMessage({"down", "up"})
  /\ LET m == Head(messages)
     IN  UpdateArmed(DownAfter(m), settings,
                     m.what \in WinButtons /\ m.type = "down" /\ shown /\ ~OnThePopup)
  /\ UNCHANGED <<winSystem, settings, winChord, winClip, checked, steps, showings>>

\* A turn of the wheel over a page closes the popup, unless it chooses the length.
HandleRawWheel ==
  /\ TakeMessage({"wheel"}) /\ UNCHANGED armed
  /\ IF ~chord /\ ~(armed.active /\ settings.wheel) /\ shown /\ ~OnThePopup
     THEN CloseShown(settings)
     ELSE UNCHANGED <<winPopup, hook>>
  /\ UNCHANGED <<winSystem, keys, unseen, settings, pending, winChord, winClip, checked, steps,
                 showings>>
HandleRawMove ==
  /\ TakeMessage({"moved"}) /\ pending' = (pending \/ armed.active)
  /\ UNCHANGED <<winSystem, winKeys, settings, winChord, winPopup, winClip, checked, steps,
                 showings>>

\* clipboardChanged(): our own copy is not looked up.
HandleCopied ==
  /\ TakeMessage({"copied"})
  /\ IF clipboard.number = ownCopy \/ settings.selection = "off"
          \/ (settings.selection = "withTrigger" /\ ~armed.active)
     THEN UNCHANGED lookedUp ELSE lookedUp' = clipboard.text
  /\ UNCHANGED <<winSystem, winKeys, settings, pending, winChord, winPopup, ownCopy, checked,
                 steps, showings>>

\* A mistake: with nothing registered the keyboard is not looked at, nor when it is again.
CheckRegistration ==
  /\ ~chord /\ checked' = \A n \in DOMAIN messages : messages[n].type \notin {"down", "up"}
  /\ registered' = TRUE
  /\ UNCHANGED <<pressed, away, atFront, exist, over, clipboard, messages, winKeys, settings,
                 pending, winChord, winPopup, winClip, steps, showings>>

\* checkInput(): raw input is asked for again if it was lost, which may fail; then the keyboard
\* has the last word.
CheckInput ==
  /\ ~chord
  /\ \/ /\ ~registered /\ checked' = FALSE
        /\ UNCHANGED <<registered, winKeys, pending, winPopup>>
     \/ /\ registered' = TRUE
        /\ checked' = \A n \in DOMAIN messages : messages[n].type \notin {"down", "up"}
        /\ IF keys # pressed THEN UpdateArmed(pressed, settings, FALSE)
           ELSE UNCHANGED <<winKeys, pending, winPopup>>
  /\ UNCHANGED <<pressed, away, atFront, exist, over, clipboard, messages, settings, winChord,
                 winClip, steps, showings>>

\* checkSource(), and source_closed: the daemon closes what is up.
CheckSource ==
  /\ Watching /\ Gone(armed.active)
  /\ UNCHANGED armed /\ CloseShown(settings)
  /\ UNCHANGED <<winSystem, messages, keys, unseen, settings, pending, winChord, winClip, checked,
                 steps, showings>>

-----------------------------------------------------------------------------
WinNext ==
  \/ \E k \in WinKeys : PressOrRelease(k)
  \/ \E w \in WinWindows : BringToFront(w) \/ CloseWindow(w)
  \/ TurnWheel \/ MovePointer \/ OtherDesktop \/ LoseInput \/ CopyElsewhere
  \/ ShowWindowsPopup \/ HideWindowsPopup \/ CopyFromPopup
  \/ \E c \in WinConfigs \ {settings} : ConfigureWindows(c)
  \/ RecordWindowsChord \/ CancelWindowsRecording \/ DiagnoseWindows
  \/ RecordKey \/ HandleRawKey \/ HandleRawWheel \/ HandleRawMove \/ HandleCopied
  \/ Due \/ CheckInput \/ CheckSource
WinSpec == WinInit /\ [][WinNext]_winVars

-----------------------------------------------------------------------------
\* Whatever releases and presses went missing, after the next look at the keyboard the trigger
\* is down exactly when its chord is held, and what follows from it is done: the scan that
\* waited, the popup, the sentence (checkInput(), resyncKeyboard()). Keys read while a chord was
\* recorded are the exception: nothing is compared with the trigger itself.
LostInputIsNoticed ==
  checked /\ ~unseen =>
    /\ armed.active = ChordDown(pressed, settings)
    /\ armed.sentence = (armed.active /\ SentenceDown(pressed, settings))
    /\ pending => armed.active

\* The wheel is taken from the applications only while the trigger is held over a popup and
\* the settings say so, whichever way the trigger, the popup or the settings went
\* (updateWheelLock(), "the one place Lexiglance takes input away").
WheelIsGivenBack == hook <=> settings.wheel /\ settings.lock /\ armed.active /\ shown
=============================================================================
