--------------------------- MODULE LookupPipeline ---------------------------
(***************************************************************************)
(* The daemon's lookup pipeline (apps/daemon/Daemon.cpp): how the text     *)
(* under the pointer becomes a popup on screen.                            *)
(*                                                                         *)
(*   UI thread ----> capture thread ----> render thread ----> UI thread    *)
(*                        |  ^                  ^                          *)
(*                        v  |                  |                          *)
(*                  translation thread    workers asking Anki,             *)
(*                                        IPC thread (popup.show)          *)
(*                                                                         *)
(* The threads share four atomics (generation_, shown_key_, latest_key_,   *)
(* cancelled_), two single-slot mailboxes and the queue of tasks posted to *)
(* the UI thread; what else a thread keeps is its own.  An action is one   *)
(* step of one thread; a handler is split where another thread can come    *)
(* between a read of the shared state and what is done about it.           *)
(*                                                                         *)
(* A text stands for what a capture reads at one place (its characters and *)
(* where they are); the dictionaries' entry for it covers Matched          *)
(* characters.  A press of the sentence key that is let be, at the spot of *)
(* one whose translation is coming (sentenceComing), only makes onScan     *)
(* return early, so this is left out: a press may always come.             *)
(***************************************************************************)
EXTENDS Integers, Sequences, FiniteSets

CONSTANTS
  Texts,          \* what the screen, or a selection, may hold
  Sentences,      \* the texts that are more than one word: what is translated
  Nothing,        \* no text
  Blank,          \* whether the pointer may be where there is nothing to read
  HideOnNoResult, \* scan.hide_on_no_result
  SentenceKey,    \* whether a sentence key is configured
  Selecting,      \* whether selections are looked up
  Anki,           \* whether popups have the Anki button
  ClientPopups,   \* whether a client calls popup.show
  ClientHides,    \* whether a client calls popup.hide
  Pausing,        \* whether a client pauses and resumes scanning
  Asides,         \* whether refreshes and probes are sent to the capture thread
  Turns,          \* by how much one turn of the wheel changes the length
  MaxLength,      \* the longest choice the wheel can make
  MaxTurns,       \* bound: turns kept for a popup on its way
  MaxTasks,       \* bound: tasks waiting for the UI thread
  MaxGeneration   \* bound: requests made

Matched == 1

ASSUME PipelineAssumption ==
  /\ Nothing \notin Texts
  /\ Sentences \subseteq Texts
  /\ MaxLength \in Nat \ {0}
  /\ MaxTurns \in Nat
  /\ MaxTasks \in Nat
  /\ MaxGeneration \in Nat
  /\ Turns \subseteq Int
  /\ {Blank, HideOnNoResult, SentenceKey, Selecting, Anki} \subseteq BOOLEAN
  /\ {ClientPopups, ClientHides, Pausing, Asides} \subseteq BOOLEAN

VARIABLES
  \* shared by the threads
  generation, cancelled, shownKey, latestKey,
  captureRequest, renderRequest, tasks, paused,
  \* the UI thread
  visible, current, forcedLength, pendingWheel, translationOff, showing,
  \* the capture thread
  capturing, found, lastText, postedKey, postedGen,
  \* the render thread
  drawing, completing, rest,
  \* translations: the popup waiting, its ticket, and the service's two slots
  translating, ticket, pending, running,
  \* the workers asking Anki, and the IPC thread's popup.show
  checks, adding, client,
  \* history: what became of the latest lookup
  answer

shared      == <<generation, cancelled, shownKey, latestKey>>
screen      == <<visible, current>>
wheel       == <<forcedLength, pendingWheel>>
uiOwn       == <<visible, current, forcedLength, pendingWheel, translationOff>>
captureOwn  == <<capturing, found, lastText, postedKey, postedGen, answer>>
renderOwn   == <<drawing, completing, rest>>
service     == <<pending, running>>
translation == <<translating, ticket, pending, running>>
workers     == <<checks, adding>>
vars == <<generation, cancelled, shownKey, latestKey, captureRequest,
          renderRequest, tasks, paused, visible, current, forcedLength,
          pendingWheel, translationOff, showing, capturing, found, lastText,
          postedKey, postedGen, drawing, completing, rest, translating, ticket,
          pending, running, checks, adding, client, answer>>

-----------------------------------------------------------------------------
(* What is passed from thread to thread.                                   *)

Lengths == 0 .. MaxLength

AnyText == Texts \cup {Nothing}

\* Whose translation: a text, or the length of it chosen with the wheel.
Sources  == AnyText \X Lengths
NoSource == <<>>

\* What a popup from the screen shows; NoKey for nothing and other popups.
Keys  == AnyText \X Lengths \X BOOLEAN
NoKey == <<>>

Popup ==
  [gen    : Nat,
   text   : AnyText,
   length : Lengths,
   screen : BOOLEAN,                     \* read from the screen
   keeps  : BOOLEAN,                     \* asked for with the sentence key
   tr     : {"none", "waiting", "done"}, \* the translation it shows
   trOf   : Sources \cup {NoSource},     \* what that is a translation of
   marked : BOOLEAN]                     \* its notes are known

NoPopup == [gen |-> 0, text |-> Nothing, length |-> 0, screen |-> FALSE,
            keeps |-> FALSE, tr |-> "none", trOf |-> NoSource, marked |-> FALSE]

Key(p)    == IF p.screen THEN <<p.text, p.length, p.tr # "none">> ELSE NoKey
Source(p) == <<p.text, p.length>>
Chosen(p) == p.keeps \/ p.length > 0

Request ==
  [gen : Nat, text : AnyText, length : Lengths,
   sentence : BOOLEAN, aside : BOOLEAN]

NoRequest == [gen |-> 0, text |-> Nothing, length |-> 0, sentence |-> FALSE,
              aside |-> FALSE]
Aside     == [NoRequest EXCEPT !.aside = TRUE]

Job   == [ticket : Nat, of : Sources \cup {NoSource}]
NoJob == [ticket |-> 0, of |-> NoSource]

\* A task posted to the UI thread: a popup to show, a popup a client asked for
\* that needs the pointer, nothing found, a dismissal, a configuration, a note
\* added to Anki.  `flag` is `whole`, `hide` and `paused`.
Task ==
  [type : {"none", "show", "pointer", "nothing", "dismiss", "configure", "added"},
   gen : Nat, popup : Popup, flag : BOOLEAN]

NoTask == [type |-> "none", gen |-> 0, popup |-> NoPopup, flag |-> FALSE]

ShowTask(p, whole)       == [type |-> "show", gen |-> p.gen, popup |-> p, flag |-> whole]
PlainTask(kind, g, flag) == [type |-> kind, gen |-> g, popup |-> NoPopup, flag |-> flag]

\* backend_->post: the UI thread runs its tasks in the order they were posted.
Post(task) == /\ Len(tasks) < MaxTasks
              /\ tasks' = Append(tasks, task)

-----------------------------------------------------------------------------
Init ==
  /\ generation = 0 /\ cancelled = 0 /\ shownKey = NoKey /\ latestKey = NoKey
  /\ captureRequest = NoRequest /\ renderRequest = NoPopup
  /\ tasks = <<>> /\ paused = FALSE
  /\ visible = FALSE /\ current = NoPopup /\ showing = NoTask
  /\ forcedLength = 0 /\ pendingWheel = 0 /\ translationOff = FALSE
  /\ capturing = NoRequest /\ found = NoPopup /\ lastText = Nothing
  /\ postedKey = NoKey /\ postedGen = 0
  /\ drawing = NoPopup /\ completing = FALSE /\ rest = NoPopup
  /\ translating = NoPopup /\ ticket = 0 /\ pending = NoJob /\ running = NoJob
  /\ checks = {} /\ adding = {} /\ client = [step |-> "idle", gen |-> 0]
  /\ answer = [gen |-> 0, key |-> NoKey, how |-> "none"]

-----------------------------------------------------------------------------
(* What the handlers share.                                                *)

\* Mistakes: what was closed is not looked at, or one request too many is taken
\* to be closed.
CurrentThoughClosed(p) ==
  p.gen = generation \/ (Key(p) # NoKey /\ Key(p) = latestKey)
CurrentButNotTheNext(p) ==
  /\ p.gen > cancelled + 1
  /\ p.gen = generation \/ (Key(p) # NoKey /\ Key(p) = latestKey)

\* A popup belongs to the latest request, or shows exactly what the latest
\* lookup found, and nothing was dismissed since it was asked for.
IsCurrent(p) ==
  /\ p.gen > cancelled
  /\ \/ p.gen = generation
     \/ Key(p) # NoKey /\ Key(p) = latestKey

\* How a lookup that found `key` is answered without a new popup.
Suppressed(key) ==
  /\ key # NoKey
  /\ \/ key = shownKey
     \/ key = postedKey /\ postedGen > cancelled

\* Mistakes: what is on its way is left to come, or the popup is left up.
DismissShownOnly(upTo) ==
  visible' = FALSE /\ current' = NoPopup /\ shownKey' = NoKey /\ UNCHANGED cancelled
DismissComingOnly(upTo) ==
  cancelled' = upTo /\ UNCHANGED <<visible, current, shownKey>>

\* Everything on screen goes, and whatever was asked for up to `upTo` with it.
Dismiss(upTo) ==
  /\ visible' = FALSE
  /\ current' = NoPopup
  /\ shownKey' = NoKey
  /\ cancelled' = upTo

NewRequest == /\ generation < MaxGeneration
              /\ generation' = generation + 1

\* The UI thread runs one handler at a time.
UiFree == showing = NoTask

-----------------------------------------------------------------------------
(* The UI thread: what the user does.                                      *)

\* onScan, the pointer elsewhere than on text asked for with the sentence key,
\* or a press of the key deciding for this spot.  `over`: on the text chosen.
Scan ==
  /\ UiFree /\ ~paused
  /\ \E sentence, pressed, over \in BOOLEAN :
       /\ sentence => SentenceKey
       /\ pressed => sentence
       /\ over => visible /\ Chosen(current)
       /\ over /\ current.keeps => pressed
       /\ IF over /\ current.keeps
          THEN \* turned off: what the wheel chose stays chosen
               /\ translationOff' = TRUE
               /\ translating' = NoPopup
               /\ captureRequest' = [NoRequest EXCEPT !.gen = generation + 1,
                                                      !.length = forcedLength]
               /\ UNCHANGED forcedLength
          ELSE /\ translationOff' = (translationOff /\ ~pressed)
               /\ LET translate == sentence /\ ~translationOff'
                      again     == over /\ translate /\ forcedLength > 0
                  IN /\ forcedLength' = IF again THEN forcedLength ELSE 0
                     /\ captureRequest' = [NoRequest EXCEPT !.gen = generation + 1,
                                                            !.length = forcedLength',
                                                            !.sentence = translate]
               /\ UNCHANGED translating
  /\ NewRequest
  /\ UNCHANGED <<cancelled, shownKey, latestKey, renderRequest, tasks, paused,
                 screen, pendingWheel, showing, captureOwn, renderOwn, ticket,
                 service, workers, client>>

\* onSelection
Selection ==
  /\ UiFree /\ ~paused /\ Selecting
  /\ \E t \in Texts : captureRequest' = [NoRequest EXCEPT !.gen = generation + 1, !.text = t]
  /\ NewRequest
  /\ UNCHANGED <<cancelled, shownKey, latestKey, renderRequest, tasks, paused,
                 uiOwn, showing, captureOwn, renderOwn, translation, workers,
                 client>>

\* events.trigger_released: the popup goes, unless the pointer is on it.
TriggerReleased ==
  /\ UiFree
  /\ pendingWheel' = 0
  /\ translationOff' = FALSE
  /\ \/ /\ visible
        /\ UNCHANGED <<shared, screen>>
     \/ /\ NewRequest
        /\ Dismiss(generation')
        /\ UNCHANGED latestKey
  /\ UNCHANGED <<captureRequest, renderRequest, tasks, paused, forcedLength,
                 showing, captureOwn, renderOwn, translation, workers, client>>

\* onClickOutside, and the window the text came from closing
ClickOutside ==
  /\ UiFree /\ visible
  /\ NewRequest
  /\ Dismiss(generation')
  /\ UNCHANGED <<latestKey, captureRequest, renderRequest, tasks, paused, wheel,
                 translationOff, showing, captureOwn, renderOwn, translation,
                 workers, client>>

\* A mistake: a choice longer than the text.
AdjustedUnbounded(p, delta) ==
  LET now == IF forcedLength > 0 THEN forcedLength ELSE Matched
  IN IF now + delta < 1 THEN 1 ELSE now + delta

\* The length chosen after a turn of the wheel over popup p.
AdjustedLength(p, delta) ==
  LET now    == IF forcedLength > 0 THEN forcedLength ELSE Matched
      longer == IF now + delta > MaxLength THEN MaxLength ELSE now + delta
  IN IF longer < 1 THEN 1 ELSE longer

\* onAdjustLength with popup p up: it is looked up again, with that length.
Lengthen(p, delta) ==
  /\ forcedLength' = AdjustedLength(p, delta)
  /\ captureRequest' = [NoRequest EXCEPT !.gen = generation + 1,
                                         !.length = AdjustedLength(p, delta),
                                         !.sentence = p.keeps]
  /\ NewRequest

\* A mistake: the turn is kept whether or not a popup is up.
WheelKeptAlways ==
  /\ UiFree
  /\ \E delta \in Turns :
       /\ pendingWheel + delta \in -MaxTurns .. MaxTurns
       /\ pendingWheel' = pendingWheel + delta
  /\ UNCHANGED <<shared, captureRequest, renderRequest, tasks, paused, screen,
                 forcedLength, translationOff, showing, captureOwn, renderOwn,
                 translation, workers, client>>

\* onAdjustLength: without a popup the turn is kept for the one on its way.
Wheel ==
  /\ UiFree
  /\ \E delta \in Turns :
       \/ /\ ~visible
          /\ pendingWheel + delta \in -MaxTurns .. MaxTurns
          /\ pendingWheel' = pendingWheel + delta
          /\ UNCHANGED <<forcedLength, captureRequest, generation>>
       \/ /\ visible
          /\ Lengthen(current, delta)
          /\ UNCHANGED pendingWheel
  /\ UNCHANGED <<cancelled, shownKey, latestKey, renderRequest, tasks, paused,
                 screen, translationOff, showing, captureOwn, renderOwn,
                 translation, workers, client>>

\* onPopupAction, the Anki button: addToAnki hands the work to a worker.
AddNote ==
  /\ UiFree /\ Anki /\ visible
  /\ adding' = adding \cup {current.gen}
  /\ UNCHANGED <<shared, captureRequest, renderRequest, tasks, paused, uiOwn,
                 showing, captureOwn, renderOwn, translation, checks, client>>

-----------------------------------------------------------------------------
(* The UI thread: the tasks posted to it, in order.                        *)

NextTask(type) == UiFree /\ tasks # <<>> /\ Head(tasks).type = type

\* renderLoop's task, up to its check ...
ShowBegin ==
  /\ NextTask("show")
  /\ tasks' = Tail(tasks)
  /\ showing' = IF IsCurrent(Head(tasks).popup) THEN Head(tasks) ELSE NoTask
  /\ UNCHANGED <<shared, captureRequest, renderRequest, paused, uiOwn,
                 captureOwn, renderOwn, translation, workers, client>>

\* ... and from it on: the popup is shown, turns of the wheel that came before
\* it are applied, and its final image has Anki asked about the notes.
ShowEnd ==
  /\ ~UiFree
  /\ LET p == showing.popup IN
     /\ visible' = TRUE
     /\ current' = p
     /\ shownKey' = Key(p)
     /\ pendingWheel' = 0
     /\ IF pendingWheel # 0
        THEN Lengthen(p, pendingWheel)
        ELSE UNCHANGED <<forcedLength, captureRequest, generation>>
     /\ checks' = IF showing.flag /\ Anki /\ ~p.marked
                  THEN checks \cup {[popup |-> p, step |-> "queued"]}
                  ELSE checks
  /\ showing' = NoTask
  /\ UNCHANGED <<cancelled, latestKey, renderRequest, tasks, paused,
                 translationOff, captureOwn, renderOwn, translation, adding,
                 client>>

\* nothingFound's task: only the latest request's counts.
RunNothing ==
  /\ NextTask("nothing")
  /\ tasks' = Tail(tasks)
  /\ IF Head(tasks).gen # generation
     THEN UNCHANGED <<shared, screen, pendingWheel>>
     ELSE /\ pendingWheel' = 0
          /\ IF Head(tasks).flag
             THEN Dismiss(generation) /\ UNCHANGED <<generation, latestKey>>
             ELSE UNCHANGED <<shared, screen>>
  /\ UNCHANGED <<captureRequest, renderRequest, paused, forcedLength,
                 translationOff, showing, captureOwn, renderOwn, translation,
                 workers, client>>

\* A mistake: the popup that was up when scanning was paused stays.
RunDismissalOnHideOnly ==
  /\ UiFree /\ tasks # <<>>
  /\ Head(tasks).type \in {"dismiss", "configure"}
  /\ tasks' = Tail(tasks)
  /\ IF Head(tasks).type = "dismiss"
     THEN Dismiss(generation) /\ UNCHANGED <<generation, latestKey>>
     ELSE UNCHANGED <<shared, screen>>
  /\ UNCHANGED <<captureRequest, renderRequest, paused, wheel, translationOff,
                 showing, captureOwn, renderOwn, translation, workers, client>>

\* popup.hide's task, and applyConfig's when scanning was paused
RunDismissal ==
  /\ UiFree /\ tasks # <<>>
  /\ Head(tasks).type \in {"dismiss", "configure"}
  /\ tasks' = Tail(tasks)
  /\ IF Head(tasks).type = "dismiss" \/ Head(tasks).flag
     THEN Dismiss(generation) /\ UNCHANGED <<generation, latestKey>>
     ELSE UNCHANGED <<shared, screen>>
  /\ UNCHANGED <<captureRequest, renderRequest, paused, wheel, translationOff,
                 showing, captureOwn, renderOwn, translation, workers, client>>

\* addToAnki's task: the button of the popup still up turns into a check mark.
RunNoteAdded ==
  /\ NextTask("added")
  /\ tasks' = Tail(tasks)
  /\ renderRequest' = IF Head(tasks).flag /\ visible /\ current.gen = Head(tasks).gen
                      THEN [current EXCEPT !.marked = TRUE]
                      ELSE renderRequest
  /\ UNCHANGED <<shared, captureRequest, paused, uiOwn, showing, captureOwn,
                 renderOwn, translation, workers, client>>

\* popup.show's task: where the pointer is, for the call still waiting for it.
RunPointer ==
  /\ NextTask("pointer")
  /\ tasks' = Tail(tasks)
  /\ client' = IF /\ client.step = "asking"
                  /\ \A i \in DOMAIN tasks : i > 1 => tasks[i].type # "pointer"
               THEN [client EXCEPT !.step = "answered"]
               ELSE client
  /\ UNCHANGED <<shared, captureRequest, renderRequest, paused, uiOwn, showing,
                 captureOwn, renderOwn, translation, workers>>

-----------------------------------------------------------------------------
(* The capture thread.                                                     *)

\* refreshCapture(): for other settings of what is read, other languages or a
\* capture.reset the capture is made anew, which forgets the last reading.
Refreshed == {lastText, Nothing}

\* The newest request is taken up; an older one, overtaken meanwhile, is not.
CaptureTake ==
  /\ capturing = NoRequest /\ captureRequest # NoRequest
  /\ captureRequest' = NoRequest
  /\ IF captureRequest.aside
     THEN lastText' \in Refreshed /\ UNCHANGED capturing
     ELSE IF captureRequest.gen = generation
     THEN lastText' \in Refreshed /\ capturing' = captureRequest
     ELSE UNCHANGED <<lastText, capturing>>
  /\ UNCHANGED <<shared, renderRequest, tasks, paused, uiOwn, showing, found,
                 postedKey, postedGen, answer, renderOwn, translation, workers,
                 client>>

\* What a request may read, when there is something to find.
Readings(r) ==
  IF r.length > 0 THEN {lastText} \ {Nothing}
  ELSE IF r.text # Nothing THEN {r.text}
  ELSE Texts

\* Whether a lookup of text t is translated: a sentence asked for with the
\* sentence key, or a selection, of more than a word.
Translates(r, t) ==
  IF r.length > 0 THEN r.sentence /\ r.length > Matched
  ELSE t \in Sentences /\ (r.sentence \/ r.text # Nothing)

\* The popup a lookup of text t gives, its translation known or still to come.
FoundPopup(r, t, known) ==
  LET tr == IF ~Translates(r, t) THEN "none" ELSE IF known THEN "done" ELSE "waiting"
  IN [gen |-> r.gen, text |-> t, length |-> r.length,
      screen |-> r.text = Nothing,
      keeps |-> r.sentence /\ tr # "none",
      tr |-> tr, trOf |-> IF tr = "none" THEN NoSource ELSE <<t, r.length>>,
      marked |-> FALSE]

FromScreen(r) == r.text = Nothing /\ r.length = 0

\* Read and looked up: the latest key is what it shows.  A popup on screen
\* already, or taken to be on its way there, is left; else it gets its own.
CaptureFinds ==
  /\ capturing # NoRequest /\ found = NoPopup
  /\ \E t \in Readings(capturing), known \in BOOLEAN :
       LET p == FoundPopup(capturing, t, known) IN
       /\ lastText' = IF FromScreen(capturing) THEN t ELSE lastText
       /\ latestKey' = Key(p)
       /\ IF Suppressed(Key(p))
          THEN /\ capturing' = NoRequest
               /\ answer' = [gen |-> p.gen, key |-> Key(p),
                             how |-> IF Key(p) = shownKey THEN "shown" ELSE "coming"]
               /\ UNCHANGED <<found, postedKey, postedGen>>
          ELSE /\ found' = p
               /\ postedKey' = Key(p) /\ postedGen' = p.gen
               /\ UNCHANGED <<capturing, answer>>
  /\ UNCHANGED <<generation, cancelled, shownKey, captureRequest, renderRequest,
                 tasks, paused, uiOwn, showing, renderOwn, translation, workers,
                 client>>

\* Nothing there (or text no dictionary has, which the wheel could still choose
\* from): nothingFound.
CaptureFindsNothing ==
  /\ capturing # NoRequest /\ found = NoPopup
  /\ Blank \/ Readings(capturing) = {}
  /\ lastText' \in IF FromScreen(capturing) THEN AnyText ELSE {lastText}
  /\ latestKey' = NoKey
  /\ Post(PlainTask("nothing", capturing.gen, HideOnNoResult))
  /\ capturing' = NoRequest
  /\ answer' = [gen |-> capturing.gen, key |-> NoKey, how |-> "nothing"]
  /\ UNCHANGED <<generation, cancelled, shownKey, captureRequest, renderRequest,
                 paused, uiOwn, showing, found, postedKey, postedGen, renderOwn,
                 translation, workers, client>>

\* A mistake: a popup still in the mailbox is not replaced.
CapturePostsIfFree ==
  /\ found # NoPopup
  /\ translating' = NoPopup
  /\ renderRequest' = IF renderRequest = NoPopup THEN found ELSE renderRequest
  /\ answer' = [gen |-> found.gen, key |-> Key(found), how |-> "posted"]
  /\ capturing' = NoRequest /\ found' = NoPopup
  /\ UNCHANGED <<shared, captureRequest, tasks, paused, uiOwn, showing,
                 lastText, postedKey, postedGen, renderOwn,
                 ticket, service, workers, client>>

\* A popup of its own, posted under the lock translations are posted under.
CapturePosts ==
  /\ found # NoPopup
  /\ IF found.tr = "waiting"
     THEN /\ translating' = found
          /\ ticket' = ticket + 1
          /\ pending' = [ticket |-> ticket + 1, of |-> Source(found)]
     ELSE /\ translating' = NoPopup
          /\ UNCHANGED <<ticket, pending>>
  /\ renderRequest' = found
  /\ answer' = [gen |-> found.gen, key |-> Key(found), how |-> "posted"]
  /\ capturing' = NoRequest /\ found' = NoPopup
  /\ UNCHANGED <<shared, captureRequest, tasks, paused, uiOwn, showing,
                 lastText, postedKey, postedGen, renderOwn,
                 running, workers, client>>

-----------------------------------------------------------------------------
(* The render thread.                                                      *)

RenderTake ==
  /\ drawing = NoPopup /\ renderRequest # NoPopup
  /\ renderRequest' = NoPopup
  /\ rest' = NoPopup
  /\ drawing' = IF IsCurrent(renderRequest) THEN renderRequest ELSE NoPopup
  /\ completing' = FALSE
  /\ UNCHANGED <<shared, captureRequest, tasks, paused, uiOwn, showing,
                 captureOwn, translation, workers, client>>

\* No newer request came for a moment: the whole of the popup follows.
RenderRest ==
  /\ drawing = NoPopup /\ renderRequest = NoPopup /\ rest # NoPopup
  /\ rest' = NoPopup
  /\ drawing' = IF IsCurrent(rest) THEN rest ELSE NoPopup
  /\ completing' = (drawing' # NoPopup)
  /\ UNCHANGED <<shared, captureRequest, renderRequest, tasks, paused, uiOwn,
                 showing, captureOwn, translation, workers, client>>

\* The image is drawn: all of it, or what fits on screen.
RenderPost ==
  /\ drawing # NoPopup
  /\ \E whole \in BOOLEAN :
       /\ completing => whole
       /\ Post(ShowTask(drawing, whole))
       /\ rest' = IF whole THEN NoPopup ELSE drawing
  /\ drawing' = NoPopup
  /\ completing' = FALSE
  /\ UNCHANGED <<shared, captureRequest, renderRequest, paused, uiOwn, showing,
                 captureOwn, translation, workers, client>>

-----------------------------------------------------------------------------
(* The translation thread: TranslationService keeps the newest request only. *)

TranslatorTake ==
  /\ running = NoJob /\ pending # NoJob
  /\ running' = pending
  /\ pending' = NoJob
  /\ UNCHANGED <<shared, captureRequest, renderRequest, tasks, paused, uiOwn,
                 showing, captureOwn, renderOwn, translating, ticket, workers,
                 client>>

\* A mistake: any translation is put into the popup waiting.
OvertakenUnlessWaiting == translating = NoPopup

\* By now another translation is waited for, or none.
Overtaken == running.ticket # ticket \/ translating = NoPopup

\* translationDone: the popup waiting is drawn again.
TranslationDone ==
  /\ running # NoJob
  /\ running' = NoJob
  /\ IF Overtaken
     THEN UNCHANGED <<translating, renderRequest>>
     ELSE /\ translating' = NoPopup
          /\ renderRequest' = IF IsCurrent(translating)
                              THEN [translating EXCEPT !.tr = "done", !.trOf = running.of]
                              ELSE renderRequest
  /\ UNCHANGED <<shared, captureRequest, tasks, paused, uiOwn, showing,
                 captureOwn, renderOwn, ticket, pending, workers, client>>

-----------------------------------------------------------------------------
(* The workers.                                                            *)

\* checkNotes, up to asking Anki: only for a popup that still counts.
NotesAsk(c) ==
  /\ c.step = "queued"
  /\ checks' = (checks \ {c}) \cup (IF IsCurrent(c.popup) THEN {[c EXCEPT !.step = "asked"]} ELSE {})
  /\ UNCHANGED <<shared, captureRequest, renderRequest, tasks, paused, uiOwn,
                 showing, captureOwn, renderOwn, translation, adding, client>>

\* Anki's answer: there is something to mark, in a popup that still counts.
NotesAnswered(c) ==
  /\ c.step = "asked"
  /\ \E mark \in BOOLEAN :
       checks' = (checks \ {c}) \cup (IF mark /\ IsCurrent(c.popup) THEN {[c EXCEPT !.step = "marking"]} ELSE {})
  /\ UNCHANGED <<shared, captureRequest, renderRequest, tasks, paused, uiOwn,
                 showing, captureOwn, renderOwn, translation, adding, client>>

NotesPost(c) ==
  /\ c.step = "marking"
  /\ checks' = checks \ {c}
  /\ renderRequest' = [c.popup EXCEPT !.marked = TRUE]
  /\ UNCHANGED <<shared, captureRequest, tasks, paused, uiOwn, showing,
                 captureOwn, renderOwn, translation, adding, client>>

\* addToAnki's job: Anki has the note now, or it failed.
NoteAdded(g) ==
  /\ adding' = adding \ {g}
  /\ \E present \in BOOLEAN : Post(PlainTask("added", g, present))
  /\ UNCHANGED <<shared, captureRequest, renderRequest, paused, uiOwn, showing,
                 captureOwn, renderOwn, translation, checks, client>>

-----------------------------------------------------------------------------
(* The IPC thread, one call at a time.                                     *)

ClientFree == client.step = "idle"

\* popup.show: asks the UI thread for the pointer ...
ClientShow ==
  /\ ClientFree /\ ClientPopups
  /\ Post(PlainTask("pointer", 0, FALSE))
  /\ client' = [client EXCEPT !.step = "asking"]
  /\ UNCHANGED <<shared, captureRequest, renderRequest, paused, uiOwn, showing,
                 captureOwn, renderOwn, translation, workers>>

\* ... gives up after two seconds ...
ClientGivesUp ==
  /\ client.step = "asking"
  /\ client' = [client EXCEPT !.step = "idle"]
  /\ UNCHANGED <<shared, captureRequest, renderRequest, tasks, paused, uiOwn,
                 showing, captureOwn, renderOwn, translation, workers>>

\* ... or takes a generation, and posts its popup.
ClientNumbers ==
  /\ client.step = "answered"
  /\ NewRequest
  /\ client' = [step |-> "numbered", gen |-> generation']
  /\ UNCHANGED <<cancelled, shownKey, latestKey, captureRequest, renderRequest,
                 tasks, paused, uiOwn, showing, captureOwn, renderOwn,
                 translation, workers>>

ClientPosts ==
  /\ client.step = "numbered"
  /\ renderRequest' = [NoPopup EXCEPT !.gen = client.gen]
  /\ client' = [step |-> "idle", gen |-> 0]
  /\ UNCHANGED <<shared, captureRequest, tasks, paused, uiOwn, showing,
                 captureOwn, renderOwn, translation, workers>>

\* popup.hide
ClientHide ==
  /\ ClientFree /\ ClientHides
  /\ NewRequest
  /\ Post(PlainTask("dismiss", 0, FALSE))
  /\ UNCHANGED <<cancelled, shownKey, latestKey, captureRequest, renderRequest,
                 paused, uiOwn, showing, captureOwn, renderOwn, translation,
                 workers, client>>

\* scan.pause: applyConfig stores the configuration and has the capture and the
\* UI thread take it in ...
SetPaused ==
  /\ ClientFree /\ Pausing
  /\ paused' = ~paused
  /\ captureRequest' = Aside
  /\ Post(PlainTask("configure", 0, paused'))
  /\ client' = [client EXCEPT !.step = "reloading"]
  /\ UNCHANGED <<shared, renderRequest, uiOwn, showing, captureOwn, renderOwn,
                 translation, workers>>

\* ... and reloads the dictionaries, which the capture follows again.
ClientReloads ==
  /\ client.step = "reloading"
  /\ captureRequest' = Aside
  /\ client' = [client EXCEPT !.step = "idle"]
  /\ UNCHANGED <<shared, renderRequest, tasks, paused, uiOwn, showing,
                 captureOwn, renderOwn, translation, workers>>

\* Refreshes and probes: capture.reset, an import's reload, debug.capture.
PostAside ==
  /\ Asides
  /\ captureRequest' = Aside
  /\ UNCHANGED <<shared, renderRequest, tasks, paused, uiOwn, showing,
                 captureOwn, renderOwn, translation, workers, client>>

-----------------------------------------------------------------------------
User == Scan \/ Selection \/ TriggerReleased \/ ClickOutside \/ Wheel \/ AddNote

UiTask == ShowBegin \/ ShowEnd \/ RunNothing \/ RunDismissal \/ RunNoteAdded \/ RunPointer

CaptureThread ==
  CaptureTake \/ CaptureFinds \/ CaptureFindsNothing \/ CapturePosts

RenderThread == RenderTake \/ RenderRest \/ RenderPost

TranslationThread == TranslatorTake \/ TranslationDone

Workers ==
  \/ \E c \in checks : NotesAsk(c) \/ NotesAnswered(c) \/ NotesPost(c)
  \/ \E g \in adding : NoteAdded(g)

IpcThread ==
  \/ ClientShow \/ ClientGivesUp \/ ClientNumbers \/ ClientPosts
  \/ ClientHide \/ SetPaused \/ ClientReloads \/ PostAside

Next == \/ User \/ UiTask \/ CaptureThread \/ RenderThread \/ TranslationThread
        \/ Workers \/ IpcThread

\* The threads keep working; what the user and the clients do is up to them.
Fairness ==
  /\ WF_vars(UiTask) /\ WF_vars(CaptureThread) /\ WF_vars(RenderThread)
  /\ WF_vars(TranslationThread) /\ WF_vars(Workers)
  /\ WF_vars(ClientPosts \/ ClientReloads)

Spec == Init /\ [][Next]_vars /\ Fairness

-----------------------------------------------------------------------------
(* Properties.                                                             *)

TypeOK ==
  /\ generation \in Nat /\ cancelled \in Nat
  /\ shownKey \in Keys \cup {NoKey} /\ latestKey \in Keys \cup {NoKey}
  /\ captureRequest \in Request /\ renderRequest \in Popup
  /\ tasks \in Seq(Task) /\ paused \in BOOLEAN
  /\ visible \in BOOLEAN /\ current \in Popup /\ showing \in Task
  /\ forcedLength \in Lengths /\ pendingWheel \in Int /\ translationOff \in BOOLEAN
  /\ capturing \in Request /\ found \in Popup /\ lastText \in AnyText
  /\ postedKey \in Keys \cup {NoKey} /\ postedGen \in Nat
  /\ drawing \in Popup /\ completing \in BOOLEAN /\ rest \in Popup
  /\ translating \in Popup /\ ticket \in Nat /\ pending \in Job /\ running \in Job
  /\ checks \subseteq [popup : Popup, step : {"queued", "asked", "marking"}]
  /\ adding \subseteq Nat
  /\ client \in [step : {"idle", "asking", "answered", "numbered", "reloading"}, gen : Nat]
  /\ answer \in [gen : Nat, key : Keys \cup {NoKey},
                 how : {"none", "nothing", "shown", "coming", "posted"}]

\* What the other threads are told about the screen is what is on it, and it was
\* asked for after popups were last closed: shown_key_ follows current_, and
\* nothing that was on its way when dismiss() ran is shown later.
OnScreen ==
  /\ visible <=> current # NoPopup
  /\ shownKey = Key(current)
  /\ visible => cancelled < current.gen /\ current.gen <= generation
  /\ ~UiFree => cancelled < showing.popup.gen

\* Turns of the wheel are kept only for a popup on its way: once one is up none
\* is left for a later popup to be surprised by.
WheelKeptForNextPopup == visible => pendingWheel = 0

\* Every popup there is, on screen or anywhere on its way.
Popups ==
  {current, showing.popup, renderRequest, found, drawing, rest, translating}
    \cup {tasks[i].popup : i \in DOMAIN tasks} \cup {c.popup : c \in checks}

\* A popup shows the translation of its own text: one made for another popup,
\* overtaken while the model was at work, is never put into it (translationDone's
\* ticket, and translating_ replaced under translating_mutex_).
TranslationOfItsOwn ==
  \A p \in Popups : p.tr # "none" => p.trOf = Source(p)

\* Nothing is left to do.
Quiescent ==
  /\ captureRequest = NoRequest /\ capturing = NoRequest
  /\ renderRequest = NoPopup /\ drawing = NoPopup /\ rest = NoPopup
  /\ tasks = <<>> /\ UiFree
  /\ pending = NoJob /\ running = NoJob /\ checks = {} /\ adding = {}
  /\ client.step = "idle"

\* The latest request was looked up with outcome `how`, and nothing was closed since.
LatestAnswered(how) ==
  answer.how = how /\ answer.gen = generation /\ answer.gen > cancelled

\* When everything has come to rest, the popup of the latest lookup is the one on
\* screen, whatever was drawn, translated or dropped in between: no older popup
\* takes its place in the render mailbox or after it.
PostedPopupIsShown ==
  Quiescent /\ LatestAnswered("posted") =>
    visible /\ current.gen = answer.gen /\ Key(current) = answer.key

\* As a client was promised by scan.pause: once the UI thread took the pause in,
\* no popup is on screen, and no lookup on its way then brings one up.
PausedIsQuiet ==
  paused /\ (\A i \in DOMAIN tasks : tasks[i].type # "configure") =>
    ~visible \/ current.text = Nothing

\* What the pipeline does is what PopupPromise allows.
Promise == INSTANCE PopupPromise
             WITH asked <- generation, closed <- cancelled, shown <- current.gen
PromiseKept == Promise!Spec

\* A popup the capture thread posted for the latest request comes up, unless it is
\* closed or something newer is asked for first.
PostedPopupComesUp ==
  \A g \in 1 .. MaxGeneration :
    (postedGen = g /\ generation = g) ~>
      (generation # g \/ cancelled >= g \/ (visible /\ current.gen = g))

\* popup.hide closes what is on screen.
HideTakesEffect ==
  (\E i \in DOMAIN tasks : tasks[i].type = "dismiss") ~> ~visible

-----------------------------------------------------------------------------
(* What the code's comments say and the code does not do.                  *)

\* "Whether what a capture found is already on screen, or on its way there"
\* (showing()), and "the popup on screen, or the one on its way, stays": a lookup
\* that posts nothing because its popup is there or on its way has it on screen
\* once everything came to rest.
ComingPopupComes ==
  Quiescent /\ (LatestAnswered("coming") \/ LatestAnswered("shown")) =>
    visible /\ Key(current) = answer.key
=============================================================================
