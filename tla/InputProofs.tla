----------------------------- MODULE InputProofs -----------------------------
(***************************************************************************)
(* Theorems about X11Input, that the trigger is what the user holds once   *)
(* the events are handled and a popup goes with the window it belongs to,  *)
(* about WindowsInput, that what went missing is noticed by the next look  *)
(* at the keyboard and the wheel is given back, and about ScreenReading,   *)
(* that what the popup hid is read again.                                  *)
(***************************************************************************)
EXTENDS X11Input, WindowsInput, ScreenReading, SequenceTheorems, NaturalsInduction,
        WellFoundedInduction, TLAPS

-----------------------------------------------------------------------------
(* X11.                                                                    *)

\* What the theorems assume of the constants: a key code is no button, windows have names of
\* their own, and a configuration names keys and buttons there are.
InputConstants ==
  /\ KeyCodes \cap Buttons = {}
  /\ Toplevels # {} /\ None \notin Toplevels
  /\ Configs \subseteq [chord : SUBSET SUBSET Codes, sentence : SUBSET Codes, wheel : BOOLEAN]

Presses == {"press", "release"}
Events ==
  [type : Presses, what : Codes] \cup
  [type : {"wheel", "motion", "focus"}, what : {None}] \cup
  [type : {"gone"}, what : Toplevels]

InputTypeOK ==
  /\ {held, down} \subseteq SUBSET Codes
  /\ queue \in Seq(Events)
  /\ config \in Configs
  /\ trigger \in [active : BOOLEAN, sentence : BOOLEAN]
  /\ {grabbed, swallowed, missed, subscribed, mapped, recording} \subseteq BOOLEAN

\* The trigger was made from what is down, with the settings there are.
TriggerMade ==
  /\ grabbed <=> config.wheel /\ trigger.active
  /\ ~swallowed => /\ trigger.active = ChordHeld(down, config)
                   /\ trigger.sentence = (trigger.active /\ SentenceHeld(down, config))

\* The last event about a key in the queue q says whether it is held (h); without one what is
\* down (d) does.
About(e, k) == e.type \in Presses /\ e.what = k
LastSays(q, k, h, d) ==
  /\ (\A i \in DOMAIN q : ~About(q[i], k)) => (h <=> d)
  /\ \A i \in DOMAIN q :
       About(q[i], k) /\ (\A j \in DOMAIN q : j > i => ~About(q[j], k)) =>
         (h <=> q[i].type = "press")

KeysKnown == ~missed => \A k \in KeyCodes : LastSays(queue, k, k \in held, k \in down)

PopupFollows ==
  /\ open \subseteq Toplevels /\ front \in open
  /\ source \in open => source \in watched
  /\ mapped => active # None /\ (front = active \/ Queued({"focus"}))

InputInv == InputTypeOK /\ TriggerMade /\ KeysKnown /\ PopupFollows

-----------------------------------------------------------------------------
(* The queue.                                                              *)

\* An event that is no press and no release of a key changes nothing about it.
LEMMA AppendedOther ==
  ASSUME NEW q \in Seq(Events), NEW e \in Events, NEW k, ~About(e, k), NEW h, NEW d,
         LastSays(q, k, h, d)
  PROVE  LastSays(Append(q, e), k, h, d)
<1>1. /\ DOMAIN Append(q, e) = 1 .. Len(q) + 1 /\ DOMAIN q = 1 .. Len(q) /\ Len(q) \in Nat
      /\ Append(q, e)[Len(q) + 1] = e /\ \A i \in 1 .. Len(q) : Append(q, e)[i] = q[i]
  BY AppendProperties, LenProperties
<1> QED BY <1>1 DEF LastSays

\* Of an event about the key itself: what it says is the last word.
LEMMA AppendedOwn ==
  ASSUME NEW q \in Seq(Events), NEW e \in Events, NEW k, About(e, k), NEW d
  PROVE  LastSays(Append(q, e), k, e.type = "press", d)
<1>1. /\ DOMAIN Append(q, e) = 1 .. Len(q) + 1 /\ DOMAIN q = 1 .. Len(q) /\ Len(q) \in Nat
      /\ Append(q, e)[Len(q) + 1] = e /\ \A i \in 1 .. Len(q) : Append(q, e)[i] = q[i]
  BY AppendProperties, LenProperties
<1> QED BY <1>1 DEF LastSays

\* The event at the head is taken.
LEMMA TailIs ==
  ASSUME NEW q \in Seq(Events), q # <<>>
  PROVE  /\ Tail(q) \in Seq(Events) /\ Head(q) = q[1] /\ Head(q) \in Events
         /\ Len(q) \in Nat \ {0} /\ DOMAIN q = 1 .. Len(q) /\ DOMAIN Tail(q) = 1 .. Len(q) - 1
         /\ \A i \in DOMAIN Tail(q) : Tail(q)[i] = q[i + 1]
BY HeadTailProperties, LenProperties, EmptySeq

\* One about another key is taken.
LEMMA TakenOther ==
  ASSUME NEW q \in Seq(Events), q # <<>>, NEW k, ~About(Head(q), k), NEW h, NEW d,
         LastSays(q, k, h, d)
  PROVE  LastSays(Tail(q), k, h, d)
<1>1. (\A i \in DOMAIN Tail(q) : ~About(Tail(q)[i], k)) => \A i \in DOMAIN q : ~About(q[i], k)
  <2> SUFFICES ASSUME \A i \in DOMAIN Tail(q) : ~About(Tail(q)[i], k),
                      NEW i \in DOMAIN q, About(q[i], k)
               PROVE  FALSE
    OBVIOUS
  <2>1. i # 1 /\ i - 1 \in DOMAIN Tail(q)
    BY TailIs
  <2> QED BY <2>1, TailIs
<1>2. ASSUME NEW i \in DOMAIN Tail(q), About(Tail(q)[i], k),
             \A j \in DOMAIN Tail(q) : j > i => ~About(Tail(q)[j], k)
      PROVE  h <=> Tail(q)[i].type = "press"
  <2>1. i + 1 \in DOMAIN q /\ About(q[i + 1], k) /\ i \in Nat
    BY <1>2, TailIs
  <2>2. ASSUME NEW j \in DOMAIN q, j > i + 1 PROVE ~About(q[j], k)
    <3>1. j - 1 \in DOMAIN Tail(q) /\ j - 1 > i /\ Tail(q)[j - 1] = q[j]
      BY <2>1, <2>2, TailIs
    <3> QED BY <1>2, <3>1
  <2> QED BY <1>2, <2>1, <2>2, TailIs DEF LastSays
<1> QED BY <1>1, <1>2 DEF LastSays

\* One about the key is taken, and noted in what is down.
LEMMA TakenOwn ==
  ASSUME NEW q \in Seq(Events), q # <<>>, NEW k, About(Head(q), k), NEW h, NEW d,
         LastSays(q, k, h, d)
  PROVE  LastSays(Tail(q), k, h, Head(q).type = "press")
<1>1. (\A i \in DOMAIN Tail(q) : ~About(Tail(q)[i], k)) => (h <=> Head(q).type = "press")
  <2> SUFFICES ASSUME \A i \in DOMAIN Tail(q) : ~About(Tail(q)[i], k)
               PROVE  h <=> Head(q).type = "press"
    OBVIOUS
  <2>1. \A j \in DOMAIN q : j > 1 => ~About(q[j], k)
    <3> SUFFICES ASSUME NEW j \in DOMAIN q, j > 1 PROVE ~About(q[j], k)
      OBVIOUS
    <3>1. j - 1 \in DOMAIN Tail(q) /\ Tail(q)[j - 1] = q[j]
      BY TailIs
    <3> QED BY <3>1
  <2> QED BY <2>1, TailIs DEF LastSays
<1>2. ASSUME NEW i \in DOMAIN Tail(q), About(Tail(q)[i], k),
             \A j \in DOMAIN Tail(q) : j > i => ~About(Tail(q)[j], k)
      PROVE  h <=> Tail(q)[i].type = "press"
  <2>1. i + 1 \in DOMAIN q /\ About(q[i + 1], k) /\ i \in Nat
    BY <1>2, TailIs
  <2>2. ASSUME NEW j \in DOMAIN q, j > i + 1 PROVE ~About(q[j], k)
    <3>1. j - 1 \in DOMAIN Tail(q) /\ j - 1 > i /\ Tail(q)[j - 1] = q[j]
      BY <2>1, <2>2, TailIs
    <3> QED BY <1>2, <3>1
  <2> QED BY <1>2, <2>1, <2>2, TailIs DEF LastSays
<1> QED BY <1>1, <1>2 DEF LastSays

\* When the keyboard is read again, what is down says the same.
LEMMA ReadAgain ==
  ASSUME NEW q, NEW k, NEW h, NEW d, LastSays(q, k, h, d)
  PROVE  LastSays(q, k, h, h)
BY DEF LastSays

\* Whether a change of the window with the keyboard is still to be heard of.
FocusIn(q) == \E i \in DOMAIN q : q[i].type \in {"focus"}

\* A change of focus that is under way stays so.
LEMMA FocusAppended ==
  ASSUME NEW q \in Seq(Events), NEW e \in Events, FocusIn(q) \/ e.type = "focus"
  PROVE  FocusIn(Append(q, e))
<1>1. /\ DOMAIN Append(q, e) = 1 .. Len(q) + 1 /\ DOMAIN q = 1 .. Len(q) /\ Len(q) \in Nat
      /\ Append(q, e)[Len(q) + 1] = e /\ \A i \in 1 .. Len(q) : Append(q, e)[i] = q[i]
  BY AppendProperties, LenProperties
<1> QED BY <1>1 DEF FocusIn

\* Unless it is the event that is taken.
LEMMA FocusTaken ==
  ASSUME NEW q \in Seq(Events), q # <<>>, FocusIn(q), Head(q).type # "focus"
  PROVE  FocusIn(Tail(q))
<1>1. PICK i \in DOMAIN q : q[i].type = "focus"
  BY DEF FocusIn
<1>2. i - 1 \in DOMAIN Tail(q) /\ Tail(q)[i - 1] = q[i]
  BY <1>1, TailIs
<1> QED BY <1>1, <1>2 DEF FocusIn

-----------------------------------------------------------------------------
(* What the steps do, in a few words each.                                 *)

\* The popup, the window it belongs to and the windows listened to stay, or it goes.
PopupStays == UNCHANGED <<mapped, source, active, watched>>
PopupGoes  == mapped' = FALSE /\ source' = None

\* What is down for a key is kept, or made what is held.
DownFrom(codes) ==
  /\ down' \subseteq Codes
  /\ down' = codes \/ \A k \in KeyCodes : k \in down' <=> k \in held

\* What is down after the keyboard was read.
LEMMA SyncedType ==
  ASSUME InputConstants, NEW codes \in SUBSET Codes, held \in SUBSET Codes
  PROVE  LET new == (held \cap KeyCodes) \cup (codes \cap Buttons)
         IN  new \in SUBSET Codes /\ \A k \in KeyCodes : k \in new <=> k \in held
BY DEF InputConstants, Codes

\* updateTrigger()
LEMMA TriggerUpdated ==
  ASSUME InputConstants, held \in SUBSET Codes, NEW codes \in SUBSET Codes, NEW c \in Configs,
         NEW closing \in BOOLEAN, config' = c, UpdateTrigger(codes, c, closing)
  PROVE  /\ TriggerMade' /\ DownFrom(codes)
         /\ trigger' \in [active : BOOLEAN, sentence : BOOLEAN]
         /\ grabbed' \in BOOLEAN /\ swallowed' \in BOOLEAN
         /\ PopupStays \/ PopupGoes
<1> DEFINE complete == ChordHeld(codes, c)
           sentence == complete /\ SentenceHeld(codes, c)
<1>1. /\ trigger' = [active |-> complete, sentence |-> sentence]
      /\ grabbed' = (c.wheel /\ complete)
      /\ \/ down' = (held \cap KeyCodes) \cup (codes \cap Buttons)
         \/ down' = codes
      /\ swallowed' = (down' # codes)
  BY Zenon DEF UpdateTrigger
<1>2. PopupStays \/ PopupGoes
  BY DEF UpdateTrigger, Hide, WatchSource, popup, PopupStays, PopupGoes
<1>3. DownFrom(codes)
  BY <1>1, SyncedType DEF DownFrom
<1>4. complete \in BOOLEAN /\ sentence \in BOOLEAN /\ c.wheel \in BOOLEAN
  BY DEF ChordHeld, SentenceHeld, InputConstants
<1>5. /\ trigger' \in [active : BOOLEAN, sentence : BOOLEAN]
      /\ trigger'.active = complete /\ trigger'.sentence = sentence
      /\ grabbed' \in BOOLEAN /\ swallowed' \in BOOLEAN
  BY <1>1, <1>4
<1>6. ~swallowed' => down' = codes
  BY <1>1
<1>7. TriggerMade'
  <2>1. grabbed' <=> config'.wheel /\ trigger'.active
    BY <1>1, <1>4, <1>5
  <2>2. ASSUME ~swallowed'
        PROVE  /\ trigger'.active = ChordHeld(down, config)'
               /\ trigger'.sentence = (trigger'.active /\ SentenceHeld(down, config)')
    BY <1>5, <1>6, <2>2 DEF ChordHeld, SentenceHeld
  <2> QED BY <2>1, <2>2 DEF TriggerMade
<1> QED BY <1>2, <1>3, <1>5, <1>7

-----------------------------------------------------------------------------
(* The parts of the invariant, over steps of a kind.                       *)

\* The popup stays with its window.
LEMMA PopupKept ==
  ASSUME InputConstants, PopupFollows, UNCHANGED <<front, open>>,
         (PopupStays /\ (FocusIn(queue) => FocusIn(queue'))) \/ PopupGoes
  PROVE  PopupFollows'
BY DEF InputConstants, PopupFollows, PopupStays, PopupGoes, Queued, FocusIn

\* Nothing new about keys.
LEMMA KnownKept ==
  ASSUME KeysKnown, UNCHANGED <<held, queue, missed>>, DownFrom(down)
  PROVE  KeysKnown'
<1> SUFFICES ASSUME ~missed, NEW k \in KeyCodes
             PROVE  LastSays(queue, k, k \in held, k \in down')
  BY DEF KeysKnown
<1>1. LastSays(queue, k, k \in held, k \in down)
  BY DEF KeysKnown
<1>2. CASE down' = down
  BY <1>1, <1>2
<1>3. CASE k \in down' <=> k \in held
  BY <1>1, <1>3 DEF LastSays
<1> QED BY <1>2, <1>3 DEF DownFrom

\* Something else comes into the queue.
LEMMA KnownAppended ==
  ASSUME KeysKnown, queue \in Seq(Events), NEW e \in Events, e.type \notin Presses,
         queue' = Append(queue, e), UNCHANGED <<held, down, missed>>
  PROVE  KeysKnown'
<1> SUFFICES ASSUME ~missed, NEW k \in KeyCodes
             PROVE  LastSays(queue', k, k \in held, k \in down)
  BY DEF KeysKnown
<1>1. ~About(e, k) /\ LastSays(queue, k, k \in held, k \in down)
  BY DEF About, KeysKnown
<1> QED BY <1>1, AppendedOther

\* An event is taken, which makes keys what is down.
LEMMA KnownTaken ==
  ASSUME KeysKnown, queue \in Seq(Events), queue # <<>>, queue' = Tail(queue),
         UNCHANGED <<held, missed>>, NEW codes, DownFrom(codes),
         \A k \in KeyCodes : k \in codes <=> IF About(Head(queue), k)
                                            THEN Head(queue).type = "press" ELSE k \in down
  PROVE  KeysKnown'
<1> SUFFICES ASSUME ~missed, NEW k \in KeyCodes
             PROVE  LastSays(Tail(queue), k, k \in held, k \in down')
  BY DEF KeysKnown
<1>1. LastSays(queue, k, k \in held, k \in down)
  BY DEF KeysKnown
<1>2. LastSays(Tail(queue), k, k \in held, k \in codes)
  <2>1. CASE About(Head(queue), k)
    <3>1. LastSays(Tail(queue), k, k \in held, Head(queue).type = "press")
      BY <1>1, <2>1, TakenOwn
    <3> QED BY <2>1, <3>1 DEF LastSays
  <2>2. CASE ~About(Head(queue), k)
    <3>1. LastSays(Tail(queue), k, k \in held, k \in down)
      BY <1>1, <2>2, TakenOther
    <3> QED BY <2>2, <3>1 DEF LastSays
  <2> QED BY <2>1, <2>2
<1>3. CASE down' = codes
  BY <1>2, <1>3
<1>4. CASE k \in down' <=> k \in held
  BY <1>2, <1>4 DEF LastSays
<1> QED BY <1>3, <1>4 DEF DownFrom

\* What leaves trigger and settings alone leaves them made as they were.
LEMMA SameTrigger ==
  ASSUME TriggerMade, UNCHANGED <<trigger, grabbed, config>>,
         (down' = down /\ swallowed' = swallowed) \/ swallowed'
  PROVE  TriggerMade'
BY DEF TriggerMade, ChordHeld, SentenceHeld

\* A queue that is kept or gets one more event.
LEMMA QueueGrown ==
  ASSUME NEW q \in Seq(Events), NEW e \in Events, NEW r \in {q, Append(q, e)}
  PROVE  r \in Seq(Events) /\ (FocusIn(q) => FocusIn(r))
<1>1. Append(q, e) \in Seq(Events)
  BY AppendProperties
<1>2. FocusIn(q) => FocusIn(Append(q, e))
  BY FocusAppended
<1> QED BY <1>1, <1>2

-----------------------------------------------------------------------------
(* The steps.                                                              *)

\* A step that leaves keys, trigger and popup alone.
LEMMA Passive ==
  ASSUME InputConstants, InputInv, NEW e \in Events, e.type \notin Presses,
         UNCHANGED <<held, down, config, trigger, grabbed, swallowed, front, open, mapped,
                     source, active, watched>>,
         \/ queue' = Append(queue, e) /\ missed' = missed
         \/ queue' = queue /\ missed' \in {missed, TRUE},
         subscribed' \in BOOLEAN, recording' \in BOOLEAN
  PROVE  InputInv'
<1>1. queue' \in Seq(Events) /\ (FocusIn(queue) => FocusIn(queue'))
  <2>1. queue \in Seq(Events) /\ queue' \in {queue, Append(queue, e)}
    BY DEF InputInv, InputTypeOK
  <2> QED BY <2>1, QueueGrown
<1>2. KeysKnown'
  <2>1. CASE queue' = Append(queue, e) /\ missed' = missed
    BY <2>1, KnownAppended DEF InputInv, InputTypeOK
  <2>2. CASE queue' = queue /\ missed' \in {missed, TRUE}
    BY <2>2 DEF InputInv, KeysKnown
  <2> QED BY <2>1, <2>2
<1>3. TriggerMade' /\ PopupFollows'
  BY <1>1, SameTrigger, PopupKept DEF InputInv, PopupStays
<1>4. InputTypeOK'
  BY <1>1 DEF InputInv, InputTypeOK
<1> QED BY <1>2, <1>3, <1>4 DEF InputInv

\* Every step.
LEMMA InputInvStep == ASSUME InputConstants PROVE InputInv /\ [XNext]_xvars => InputInv'
<1> SUFFICES ASSUME InputInv, [XNext]_xvars PROVE InputInv'
  OBVIOUS
<1>0. /\ held \in SUBSET Codes /\ down \in SUBSET Codes /\ queue \in Seq(Events)
      /\ config \in Configs /\ trigger \in [active : BOOLEAN, sentence : BOOLEAN]
      /\ {grabbed, swallowed, missed, subscribed, mapped, recording} \subseteq BOOLEAN
      /\ TriggerMade /\ KeysKnown /\ PopupFollows
  BY DEF InputInv, InputTypeOK
<1>d. DownFrom(down) \/ down' # down
  BY <1>0 DEF DownFrom
<1>1. ASSUME NEW k \in Codes, Key(k) PROVE InputInv'
  <2> DEFINE e == Event(IF k \in held THEN "release" ELSE "press", k)
  <2>1. /\ held' = (held \ {k}) \cup ({k} \ held) /\ Told(e)
        /\ UNCHANGED <<front, open, config, down, trigger, grabbed, swallowed, mapped, source,
                       active, watched, subscribed, recording>>
    BY <1>1 DEF Key, trig, popup, records
  <2>2. e \in Events /\ About(e, k) /\ (e.type = "press" <=> k \in held') /\ e.type # "focus"
        /\ \A c \in KeyCodes : c # k => ~About(e, c)
    BY <1>0, <2>1 DEF Event, Events, About, Presses
  <2> HIDE DEF e
  <2>3. /\ queue' = Append(queue, e) \/ queue' = queue
        /\ (missed' = missed /\ queue' = Append(queue, e)) \/ missed' = TRUE
    BY <2>1 DEF Told
  <2>4. queue' \in Seq(Events) /\ (FocusIn(queue) => FocusIn(queue'))
    <3>1. queue \in Seq(Events) /\ e \in Events /\ queue' \in {queue, Append(queue, e)}
      BY <1>0, <2>2, <2>3
    <3> QED BY <3>1, QueueGrown
  <2>5. KeysKnown'
    <3> SUFFICES ASSUME ~missed', NEW c \in KeyCodes
                 PROVE  LastSays(queue', c, c \in held', c \in down)
      BY <2>1 DEF KeysKnown
    <3>1. queue' = Append(queue, e) /\ ~missed
      BY <2>3
    <3>2. CASE c = k
      BY <1>0, <2>2, <3>1, <3>2, AppendedOwn DEF LastSays
    <3>3. CASE c # k
      <4>1. LastSays(Append(queue, e), c, c \in held, c \in down)
        BY <1>0, <2>2, <3>1, <3>3, AppendedOther DEF KeysKnown
      <4>2. c \in held' <=> c \in held
        BY <2>1, <3>3
      <4> QED BY <3>1, <4>1, <4>2 DEF LastSays
    <3> QED BY <3>2, <3>3
  <2>6. TriggerMade' /\ PopupFollows'
    BY <1>0, <2>1, <2>4, SameTrigger, PopupKept DEF PopupStays
  <2>7. InputTypeOK'
    BY <1>0, <2>1, <2>3, <2>4 DEF InputTypeOK
  <2> QED BY <2>5, <2>6, <2>7 DEF InputInv
<1>2. CASE Turn \/ (\E to \in Places : Move(to)) \/ Unsubscribe \/ CancelRecording \/ ScanDue
           \/ UNCHANGED xvars
  <2>1. /\ UNCHANGED <<held, down, config, trigger, grabbed, swallowed, front, open, mapped,
                       source, active, watched>>
        /\ subscribed' \in {subscribed, FALSE} /\ recording' \in {recording, FALSE}
    BY <1>2 DEF Turn, Move, Unsubscribe, CancelRecording, ScanDue, xvars, server, trig, records,
                popup
  <2>2. \E e \in {Event("wheel", None), Event("motion", None)} :
          \/ queue' = Append(queue, e) /\ missed' = missed
          \/ queue' = queue /\ missed' \in {missed, TRUE}
    BY <1>2 DEF Turn, Move, Unsubscribe, CancelRecording, ScanDue, xvars, bounds, Told, Event
  <2>3. \A e \in {Event("wheel", None), Event("motion", None)} :
          e \in Events /\ e.type \notin Presses
    BY DEF Event, Events, Presses
  <2> QED BY <1>0, <2>1, <2>2, <2>3, Passive
<1>3. ASSUME NEW w \in Toplevels, Focus(w) PROVE InputInv'
  <2> DEFINE e == Event("focus", None)
  <2>1. /\ queue' = Append(queue, e) /\ front' = w /\ w \in open
        /\ UNCHANGED <<held, down, config, trigger, grabbed, swallowed, open, mapped, source,
                       active, watched, missed, subscribed, recording>>
    BY <1>3 DEF Focus, trig, records, popup
  <2>2. e \in Events /\ e.type \notin Presses /\ e.type = "focus"
    BY DEF Event, Events, Presses
  <2> HIDE DEF e
  <2>3. queue' \in Seq(Events) /\ FocusIn(queue') /\ KeysKnown' /\ TriggerMade'
    BY <1>0, <2>1, <2>2, AppendProperties, FocusAppended, KnownAppended, SameTrigger
  <2>4. PopupFollows'
    BY <1>0, <2>1, <2>3 DEF PopupFollows, Queued, FocusIn
  <2>5. InputTypeOK'
    BY <1>0, <2>1, <2>3 DEF InputTypeOK
  <2> QED BY <2>3, <2>4, <2>5 DEF InputInv
<1>4. ASSUME NEW w \in Toplevels, Close(w) PROVE InputInv'
  <2> DEFINE e == Event("gone", w)
  <2>1. /\ queue' \in {queue, Append(queue, e)} /\ open' = open \ {w} /\ watched' = watched \ {w}
        /\ w # front
        /\ UNCHANGED <<held, down, config, trigger, grabbed, swallowed, front, mapped, source,
                       active, missed, subscribed, recording>>
    BY <1>4 DEF Close, trig, records, popup
  <2>2. e \in Events /\ e.type \notin Presses
    BY DEF Event, Events, Presses
  <2> HIDE DEF e
  <2>3. queue' \in Seq(Events) /\ (FocusIn(queue) => FocusIn(queue')) /\ TriggerMade'
    <3>1. queue \in Seq(Events) /\ e \in Events /\ queue' \in {queue, Append(queue, e)}
      BY <1>0, <2>1, <2>2
    <3>2. queue' \in Seq(Events) /\ (FocusIn(queue) => FocusIn(queue'))
      BY <3>1, QueueGrown
    <3>3. TriggerMade'
      BY <1>0, <2>1, SameTrigger
    <3> QED BY <3>2, <3>3
  <2>4. KeysKnown'
    <3>1. CASE queue' = queue
      BY <1>0, <2>1, <3>1 DEF KeysKnown
    <3>2. CASE queue' = Append(queue, e)
      BY <1>0, <2>1, <2>2, <3>2, KnownAppended
    <3> QED BY <2>1, <3>1, <3>2
  <2>5. PopupFollows'
    BY <1>0, <2>1, <2>3 DEF PopupFollows, Queued, FocusIn
  <2>6. InputTypeOK'
    BY <1>0, <2>1, <2>3 DEF InputTypeOK
  <2> QED BY <2>3, <2>4, <2>5, <2>6 DEF InputInv
<1>5. CASE ShowPopup
  <2>1. /\ mapped' = TRUE /\ active' = front
        /\ \E w \in Toplevels \cup {None} :
             /\ source' = w
             /\ watched' = IF w = source THEN watched
                           ELSE (watched \ {source}) \cup ({w} \cap open)
        /\ UNCHANGED <<held, down, config, trigger, grabbed, swallowed, front, open, queue,
                       missed, subscribed, recording>>
    BY <1>5 DEF ShowPopup, WatchSource, trig, records
  <2>2. PopupFollows'
    BY <1>0, <2>1 DEF PopupFollows, InputConstants
  <2>3. TriggerMade' /\ KeysKnown' /\ InputTypeOK'
    BY <1>0, <2>1, SameTrigger DEF KeysKnown, InputTypeOK
  <2> QED BY <2>2, <2>3 DEF InputInv
<1>6. CASE HidePopup
  <2>1. /\ PopupGoes
        /\ UNCHANGED <<held, down, config, trigger, grabbed, swallowed, front, open, queue,
                       missed, subscribed, recording>>
    BY <1>6 DEF HidePopup, Hide, WatchSource, PopupGoes, trig, records, bounds
  <2>2. PopupFollows'
    BY <1>0, <2>1, PopupKept
  <2>3. TriggerMade' /\ KeysKnown' /\ InputTypeOK'
    BY <1>0, <2>1, SameTrigger DEF KeysKnown, InputTypeOK, PopupGoes
  <2> QED BY <2>2, <2>3 DEF InputInv
<1>7. Synced \in SUBSET Codes /\ \A k \in KeyCodes : k \in Synced <=> k \in held
  BY <1>0, SyncedType DEF Synced
<1>8. CASE RecordChord
  <2>1. /\ recording' = TRUE /\ down' = Synced /\ swallowed' = (swallowed \/ down' # down)
        /\ UNCHANGED <<held, config, trigger, grabbed, front, open, queue, missed, subscribed,
                       mapped, source, active, watched>>
    BY <1>8 DEF RecordChord, server, popup, bounds
  <2>2. DownFrom(down)
    BY <1>7, <2>1 DEF DownFrom
  <2>3. PopupFollows' /\ TriggerMade' /\ KeysKnown'
    BY <1>0, <2>1, <2>2, PopupKept, SameTrigger, KnownKept DEF PopupStays
  <2>4. InputTypeOK'
    BY <1>0, <1>7, <2>1 DEF InputTypeOK
  <2> QED BY <2>3, <2>4 DEF InputInv
<1>9. CASE Diagnose
  <2>1. /\ queue = <<>> /\ subscribed' = TRUE /\ missed' = ~subscribed
        /\ UNCHANGED <<held, config, front, open, queue, recording>>
        /\ \/ UpdateTrigger(Synced, config, FALSE)
           \/ Synced = down /\ UNCHANGED <<trigger, grabbed, down, swallowed, mapped, source,
                                           active, watched>>
    BY <1>9 DEF Diagnose, trig, popup, records
  <2>2. /\ TriggerMade' /\ DownFrom(Synced)
        /\ trigger' \in [active : BOOLEAN, sentence : BOOLEAN]
        /\ grabbed' \in BOOLEAN /\ swallowed' \in BOOLEAN
        /\ PopupStays \/ PopupGoes
    <3>1. CASE UpdateTrigger(Synced, config, FALSE)
      BY <1>0, <1>7, <2>1, <3>1, TriggerUpdated
    <3>2. CASE Synced = down /\ UNCHANGED <<trigger, grabbed, down, swallowed, mapped, source,
                                           active, watched>>
      BY <1>0, <2>1, <3>2, SameTrigger DEF DownFrom, PopupStays
    <3> QED BY <2>1, <3>1, <3>2
  <2>3. \A k \in KeyCodes : k \in down' <=> k \in held
    BY <1>7, <2>2 DEF DownFrom
  <2>4. KeysKnown'
    BY <2>1, <2>3 DEF KeysKnown, LastSays
  <2>5. PopupFollows'
    BY <1>0, <2>1, <2>2, PopupKept
  <2>6. InputTypeOK'
    BY <1>0, <2>1, <2>2 DEF InputTypeOK, DownFrom, PopupStays, PopupGoes
  <2> QED BY <2>2, <2>4, <2>5, <2>6 DEF InputInv
<1>10. ASSUME NEW c \in Configs, Configure(c) PROVE InputInv'
  <2>1. /\ config' = c /\ UNCHANGED <<held, front, open, queue, missed, subscribed, recording>>
        /\ \/ /\ down' = Synced /\ swallowed' = TRUE /\ grabbed' = (c.wheel /\ trigger.active)
              /\ UNCHANGED <<trigger, mapped, source, active, watched>>
           \/ UpdateTrigger(Synced, c, FALSE)
    BY <1>10 DEF Configure, popup, records, bounds
  <2>2. /\ TriggerMade' /\ DownFrom(Synced)
        /\ trigger' \in [active : BOOLEAN, sentence : BOOLEAN]
        /\ grabbed' \in BOOLEAN /\ swallowed' \in BOOLEAN
        /\ PopupStays \/ PopupGoes
    <3>1. CASE UpdateTrigger(Synced, c, FALSE)
      BY <1>0, <1>7, <2>1, <3>1, TriggerUpdated
    <3>2. CASE /\ down' = Synced /\ swallowed' = TRUE /\ grabbed' = (c.wheel /\ trigger.active)
               /\ UNCHANGED <<trigger, mapped, source, active, watched>>
      <4>1. c.wheel \in BOOLEAN /\ trigger.active \in BOOLEAN
        BY <1>0 DEF InputConstants
      <4> QED BY <1>0, <1>7, <2>1, <3>2, <4>1 DEF DownFrom, PopupStays, TriggerMade
    <3> QED BY <2>1, <3>1, <3>2
  <2>3. DownFrom(down)
    BY <1>7, <2>2 DEF DownFrom
  <2>4. KeysKnown' /\ PopupFollows'
    BY <1>0, <2>1, <2>2, <2>3, KnownKept, PopupKept
  <2>5. InputTypeOK'
    BY <1>0, <2>1, <2>2 DEF InputTypeOK, DownFrom, PopupStays, PopupGoes
  <2> QED BY <2>2, <2>4, <2>5 DEF InputInv
<1>11. ASSUME queue # <<>>, Head(queue).type \in Presses
       PROVE  /\ KeysAfter(Head(queue)) \in SUBSET Codes /\ Head(queue).type # "focus"
              /\ \A k \in KeyCodes : k \in KeysAfter(Head(queue)) <=>
                   IF About(Head(queue), k) THEN Head(queue).type = "press" ELSE k \in down
  <2>1. Head(queue) \in Events
    BY <1>0, <1>11, TailIs
  <2>2. Head(queue).what \in Codes
    BY <1>11, <2>1 DEF Events, Presses
  <2> QED BY <1>0, <1>11, <2>2 DEF KeysAfter, About, Presses
<1>12. ASSUME queue # <<>>, queue' = Tail(queue)
       PROVE  /\ queue' \in Seq(Events)
              /\ Head(queue).type # "focus" /\ FocusIn(queue) => FocusIn(queue')
  BY <1>0, <1>12, TailIs, FocusTaken
<1>13. CASE HandleKey
  <2> DEFINE e == Head(queue)
             codes == KeysAfter(e)
             closing == e.what \in Buttons /\ e.type = "press" /\ mapped /\ ~OnPopup
  <2>1. /\ queue # <<>> /\ e.type \in Presses /\ queue' = Tail(queue)
        /\ UpdateTrigger(codes, config, closing)
        /\ UNCHANGED <<held, config, front, open, missed, subscribed, recording>>
    BY <1>13 DEF HandleKey, Take, Presses, records, bounds
  <2>2. closing \in BOOLEAN
    BY <1>0 DEF OnPopup
  <2> HIDE DEF closing
  <2>3. /\ TriggerMade' /\ DownFrom(codes)
        /\ trigger' \in [active : BOOLEAN, sentence : BOOLEAN]
        /\ grabbed' \in BOOLEAN /\ swallowed' \in BOOLEAN
        /\ PopupStays \/ PopupGoes
    BY <1>0, <1>11, <2>1, <2>2, TriggerUpdated
  <2>4. KeysKnown' /\ PopupFollows'
    BY <1>0, <1>11, <1>12, <2>1, <2>3, KnownTaken, PopupKept
  <2>5. InputTypeOK'
    BY <1>0, <1>12, <2>1, <2>3 DEF InputTypeOK, DownFrom, PopupStays, PopupGoes
  <2> QED BY <2>3, <2>4, <2>5 DEF InputInv
<1>14. CASE Recorded
  <2> DEFINE e == Head(queue)
             codes == KeysAfter(e)
  <2>1. /\ queue # <<>> /\ e.type \in Presses /\ queue' = Tail(queue)
        /\ down' = codes /\ swallowed' = TRUE /\ recording' \in BOOLEAN
        /\ UNCHANGED <<held, config, front, open, missed, subscribed, trigger, grabbed, mapped,
                       source, active, watched>>
    BY <1>14 DEF Recorded, Record, Take, Presses, server, popup, bounds
  <2>2. DownFrom(codes)
    BY <1>11, <2>1 DEF DownFrom
  <2>3. KeysKnown' /\ PopupFollows' /\ TriggerMade'
    BY <1>0, <1>11, <1>12, <2>1, <2>2, KnownTaken, PopupKept, SameTrigger DEF PopupStays
  <2>4. InputTypeOK'
    BY <1>0, <1>12, <2>1, <2>2 DEF InputTypeOK, DownFrom
  <2> QED BY <2>3, <2>4 DEF InputInv
<1>15. CASE HandleWheel
  <2> DEFINE closing == ~(trigger.active /\ config.wheel) /\ mapped /\ ~OnPopup
  <2>1. /\ queue # <<>> /\ Head(queue).type = "wheel" /\ queue' = Tail(queue)
        /\ \/ UpdateTrigger(down, config, closing)
           \/ UNCHANGED <<down, trigger, grabbed, swallowed, mapped, source, active, watched>>
        /\ UNCHANGED <<held, config, front, open, missed, subscribed, recording>>
    BY <1>15 DEF HandleWheel, Take, trig, popup, records, bounds
  <2>2. closing \in BOOLEAN
    BY <1>0 DEF OnPopup
  <2> HIDE DEF closing
  <2>3. /\ TriggerMade' /\ DownFrom(down)
        /\ trigger' \in [active : BOOLEAN, sentence : BOOLEAN]
        /\ grabbed' \in BOOLEAN /\ swallowed' \in BOOLEAN
        /\ PopupStays \/ PopupGoes
    <3>1. CASE UpdateTrigger(down, config, closing)
      BY <1>0, <2>1, <2>2, <3>1, TriggerUpdated
    <3>2. CASE UNCHANGED <<down, trigger, grabbed, swallowed, mapped, source, active, watched>>
      BY <1>0, <2>1, <3>2, SameTrigger DEF DownFrom, PopupStays
    <3> QED BY <2>1, <3>1, <3>2
  <2>4. \A k \in KeyCodes : ~About(Head(queue), k)
    BY <2>1 DEF About, Presses
  <2>5. KeysKnown' /\ PopupFollows'
    BY <1>0, <1>12, <2>1, <2>3, <2>4, KnownTaken, PopupKept
  <2>6. InputTypeOK'
    BY <1>0, <1>12, <2>1, <2>3 DEF InputTypeOK, DownFrom, PopupStays, PopupGoes
  <2> QED BY <2>3, <2>5, <2>6 DEF InputInv
<1>16. CASE HandleMotion \/ HandleFocus \/ HandleGone
  <2>1. /\ queue # <<>> /\ Head(queue).type \in {"motion", "focus", "gone"}
        /\ queue' = Tail(queue)
        /\ UNCHANGED <<held, down, config, trigger, grabbed, swallowed, front, open, missed,
                       subscribed, recording>>
    BY <1>16 DEF HandleMotion, HandleFocus, HandleGone, Take, trig, server, records, bounds
  <2>2. \/ PopupStays /\ Head(queue).type # "focus"
        \/ PopupStays /\ (active = None \/ front = active)
        \/ PopupGoes
    BY <1>16 DEF HandleMotion, HandleFocus, HandleGone, Take, SourceClosed, server, popup,
                 PopupStays, PopupGoes
  <2>3. PopupFollows'
    <3>1. CASE (PopupStays /\ Head(queue).type # "focus") \/ PopupGoes
      BY <1>0, <1>12, <2>1, <3>1, PopupKept
    <3>2. CASE PopupStays /\ (active = None \/ front = active)
      BY <1>0, <2>1, <3>2 DEF PopupFollows, PopupStays
    <3> QED BY <2>2, <3>1, <3>2
  <2>4. (\A k \in KeyCodes : ~About(Head(queue), k)) /\ DownFrom(down)
    BY <1>0, <2>1 DEF About, Presses, DownFrom
  <2>5. KeysKnown' /\ TriggerMade'
    BY <1>0, <2>1, <2>4, KnownTaken, SameTrigger
  <2>6. InputTypeOK'
    BY <1>0, <1>12, <2>1, <2>2 DEF InputTypeOK, PopupStays, PopupGoes
  <2> QED BY <2>3, <2>5, <2>6 DEF InputInv
<1> QED BY <1>1, <1>2, <1>3, <1>4, <1>5, <1>6, <1>8, <1>9, <1>10, <1>13, <1>14, <1>15, <1>16
        DEF XNext, Environment, Tasks, Handle

\* The beginning.
LEMMA InputInvInit == ASSUME InputConstants PROVE XInit => InputInv
<1> SUFFICES ASSUME XInit PROVE InputInv
  OBVIOUS
<1>1. queue = <<>> /\ queue \in Seq(Events)
  BY DEF XInit
<1>2. InputTypeOK
  BY <1>1 DEF XInit, InputTypeOK, Released
<1>3. TriggerMade
  <2>1. /\ config \in Configs /\ down = {} /\ trigger.active = FALSE
        /\ trigger.sentence = FALSE /\ grabbed = FALSE
    BY DEF XInit, Released
  <2>2. ~ChordHeld(down, config)
    BY <2>1 DEF ChordHeld, InputConstants
  <2>3. trigger.active = ChordHeld(down, config)
    BY <2>1, <2>2 DEF ChordHeld
  <2>4. trigger.sentence = (trigger.active /\ SentenceHeld(down, config))
    BY <2>1
  <2>5. grabbed <=> config.wheel /\ trigger.active
    BY <2>1
  <2> QED BY <2>3, <2>4, <2>5 DEF TriggerMade
<1>4. KeysKnown /\ PopupFollows
  BY <1>1 DEF XInit, KeysKnown, LastSays, PopupFollows, InputConstants
<1> QED BY <1>2, <1>3, <1>4 DEF InputInv

\* What follows from the invariant.
LEMMA InputInvMeans ==
  ASSUME InputConstants PROVE InputInv => TriggerFollowsKeys /\ PopupFollowsItsWindow
<1> SUFFICES ASSUME InputInv PROVE TriggerFollowsKeys /\ PopupFollowsItsWindow
  OBVIOUS
<1>1. PopupFollowsItsWindow
  BY DEF InputInv, PopupFollows, PopupFollowsItsWindow
<1>2. ASSUME ~Queued({"press", "release"}), ~missed, held \cap Buttons = down \cap Buttons
      PROVE  held = down
  <2>1. \A k : \A i \in DOMAIN queue : ~About(queue[i], k)
    BY <1>2 DEF Queued, About, Presses
  <2>2. \A k \in KeyCodes : k \in held <=> k \in down
    BY <1>2, <2>1 DEF InputInv, KeysKnown, LastSays
  <2> QED BY <1>2, <2>2 DEF InputInv, InputTypeOK, Codes
<1>3. TriggerFollowsKeys
  BY <1>2 DEF InputInv, TriggerMade, TriggerFollowsKeys
<1> QED BY <1>1, <1>3

\* Once the events are handled the trigger is what the user holds, whatever settings, chords
\* being recorded and lost events came in between.
THEOREM TriggerIsHeld == ASSUME InputConstants PROVE XSpec => []TriggerFollowsKeys
<1>1. XInit => InputInv
  BY InputInvInit
<1>2. InputInv /\ [XNext]_xvars => InputInv'
  BY InputInvStep
<1>3. InputInv => TriggerFollowsKeys
  BY InputInvMeans
<1> QED BY <1>1, <1>2, <1>3, PTL DEF XSpec

\* A popup goes with its window: while one is up, the window with the keyboard is the one it
\* came up over, or we are about to hear otherwise, and we hear of the window its text is from.
THEOREM PopupGoesWithWindow == ASSUME InputConstants PROVE XSpec => []PopupFollowsItsWindow
<1>1. XInit => InputInv
  BY InputInvInit
<1>2. InputInv /\ [XNext]_xvars => InputInv'
  BY InputInvStep
<1>3. InputInv => PopupFollowsItsWindow
  BY InputInvMeans
<1> QED BY <1>1, <1>2, <1>3, PTL DEF XSpec

-----------------------------------------------------------------------------
(* Windows.                                                                *)

Messages == [type : {"down", "up", "wheel", "moved", "copied"}, what : WinKeys \cup {NoWindow}]

WinTypeOK ==
  /\ messages \in Seq(Messages)
  /\ armed \in [active : BOOLEAN, sentence : BOOLEAN]
  /\ {shown, hook, pending, unseen, checked, chord} \subseteq BOOLEAN

\* The trigger was made from the keys there are, and a scan waits for a held trigger only.
ArmedMade ==
  /\ pending => armed.active
  /\ ~unseen => /\ armed.active = ChordDown(keys, settings)
                /\ armed.sentence = (armed.active /\ SentenceDown(keys, settings))

\* Nothing about keys is under way after a look at the keyboard.
Quiet(q) == \A n \in DOMAIN q : q[n].type \notin {"down", "up"}
LookedAt == checked => keys = pressed /\ Quiet(messages)

WinInv == WinTypeOK /\ ArmedMade /\ LookedAt /\ WheelIsGivenBack

-----------------------------------------------------------------------------
(* What the parts of a step do.                                            *)

\* The message at the head is taken.
LEMMA MessageTaken ==
  ASSUME NEW q \in Seq(Messages), q # <<>>
  PROVE  Tail(q) \in Seq(Messages) /\ Head(q) \in Messages /\ (Quiet(q) => Quiet(Tail(q)))
         /\ (Quiet(q) => Head(q).type \notin {"down", "up"})
<1>1. /\ Tail(q) \in Seq(Messages) /\ Head(q) = q[1] /\ Head(q) \in Messages
      /\ Len(q) \in Nat \ {0} /\ DOMAIN q = 1 .. Len(q) /\ DOMAIN Tail(q) = 1 .. Len(q) - 1
      /\ \A i \in DOMAIN Tail(q) : Tail(q)[i] = q[i + 1]
  BY HeadTailProperties, LenProperties, EmptySeq
<1>2. Quiet(q) => Quiet(Tail(q))
  <2> SUFFICES ASSUME Quiet(q), NEW i \in DOMAIN Tail(q)
               PROVE  Tail(q)[i].type \notin {"down", "up"}
    BY DEF Quiet
  <2>1. i + 1 \in DOMAIN q /\ Tail(q)[i] = q[i + 1]
    BY <1>1
  <2> QED BY <2>1 DEF Quiet
<1>3. Quiet(q) => Head(q).type \notin {"down", "up"}
  BY <1>1 DEF Quiet
<1> QED BY <1>1, <1>2, <1>3

\* What is hidden takes no wheel.
LEMMA HiddenLocks ==
  ASSUME NEW c, CloseShown(c), WinTypeOK, WheelIsGivenBack, settings' = c
  PROVE  shown' = FALSE /\ hook' \in BOOLEAN /\ WheelIsGivenBack'
<1>1. shown' = FALSE
  BY DEF CloseShown
<1>2. hook' = FALSE
  <2> DEFINE changed == shown \/ armed' # armed \/ c # settings
  <2>1. IF changed THEN LockWheel(c) ELSE UNCHANGED hook
    BY DEF CloseShown
  <2>2. ~changed => ~shown
    OBVIOUS
  <2>3. LockWheel(c) => hook' = FALSE
    BY <1>1 DEF LockWheel
  <2>4. ~shown => hook = FALSE
    BY DEF WheelIsGivenBack, WinTypeOK
  <2> HIDE DEF changed
  <2> QED BY <2>1, <2>2, <2>3, <2>4
<1> QED BY <1>1, <1>2 DEF WheelIsGivenBack

\* Nor does updateWheelLock() take it without a trigger over a popup.
LEMMA Locked ==
  ASSUME NEW c, LockWheel(c), settings' = c
  PROVE  hook' \in BOOLEAN /\ WheelIsGivenBack'
BY DEF LockWheel, WheelIsGivenBack

\* updateTrigger() makes the trigger from the keys, and gives the wheel back with it.
LEMMA Updated ==
  ASSUME NEW pushed, NEW c, NEW closing \in BOOLEAN, UpdateArmed(pushed, c, closing),
         WinTypeOK, ArmedMade, WheelIsGivenBack, settings' = c
  PROVE  /\ keys' = pushed /\ unseen' = FALSE
         /\ armed' \in [active : BOOLEAN, sentence : BOOLEAN]
         /\ {shown', hook', pending'} \subseteq BOOLEAN
         /\ ArmedMade' /\ WheelIsGivenBack'
<1> DEFINE complete     == ChordDown(pushed, c)
           sentence == complete /\ SentenceDown(pushed, c)
           released == armed.active /\ ~complete
           closes   == closing \/ (released /\ (~OnThePopup \/ Gone(FALSE)))
<1>1. /\ keys' = pushed /\ unseen' = FALSE
      /\ armed' = [active |-> complete, sentence |-> sentence]
      /\ pending' = (pending /\ ~released /\ ~(complete /\ ~armed.active)
                       /\ ~(sentence /\ ~armed.sentence))
      /\ IF closes THEN CloseShown(c)
         ELSE /\ UNCHANGED winPopup
              /\ IF complete # armed.active \/ c # settings THEN LockWheel(c) ELSE UNCHANGED hook
  BY DEF UpdateArmed
<1>2. complete \in BOOLEAN /\ sentence \in BOOLEAN
  BY DEF ChordDown, SentenceDown
<1> HIDE DEF closes
<1>3. armed' \in [active : BOOLEAN, sentence : BOOLEAN] /\ armed'.active = complete
      /\ armed'.sentence = sentence
  BY <1>1, <1>2
<1>4. ArmedMade' /\ pending' \in BOOLEAN
  BY <1>1, <1>2, <1>3 DEF ArmedMade, WinTypeOK
<1>5. shown' \in BOOLEAN /\ hook' \in BOOLEAN /\ WheelIsGivenBack'
  <2>1. CASE closes
    BY <1>1, <2>1, HiddenLocks
  <2>2. CASE ~closes /\ (complete # armed.active \/ c # settings)
    BY <1>1, <2>2, Locked DEF winPopup, WinTypeOK
  <2>3. CASE ~closes /\ complete = armed.active /\ c = settings
    <3>1. hook' = hook /\ shown' = shown /\ armed'.active = armed.active /\ settings' = settings
      BY <1>1, <1>3, <2>3 DEF winPopup
    <3> QED BY <3>1 DEF WheelIsGivenBack, WinTypeOK
  <2> QED BY <2>1, <2>2, <2>3
<1> QED BY <1>1, <1>3, <1>4, <1>5

\* A step that leaves keys, trigger and popup alone.
LEMMA OnlyMessages ==
  ASSUME WinInv, UNCHANGED <<keys, armed, hook, unseen, settings, shown, chord>>,
         messages' \in Seq(Messages), pending' \in BOOLEAN, pending' => armed.active,
         \/ checked' = FALSE
         \/ checked' = checked /\ pressed' = pressed /\ (Quiet(messages) => Quiet(messages'))
  PROVE  WinInv'
<1>1. WinTypeOK'
  BY DEF WinInv, WinTypeOK
<1>2. ArmedMade'
  BY DEF WinInv, ArmedMade, ChordDown, SentenceDown
<1>3. LookedAt'
  BY DEF WinInv, LookedAt
<1>4. WheelIsGivenBack'
  BY DEF WinInv, WheelIsGivenBack
<1> QED BY <1>1, <1>2, <1>3, <1>4 DEF WinInv

\* An event is told, or lost.
LEMMA MessageAdded ==
  ASSUME NEW q \in Seq(Messages), NEW m \in Messages
  PROVE  Append(q, m) \in Seq(Messages)
BY AppendProperties

\* The popup is hidden, and nothing about the trigger changes.
LEMMA Hidden ==
  ASSUME WinInv, CloseShown(settings),
         UNCHANGED <<keys, armed, unseen, settings, pending, chord>>,
         messages' \in Seq(Messages),
         \/ checked' = FALSE
         \/ checked' = checked /\ pressed' = pressed /\ (Quiet(messages) => Quiet(messages'))
  PROVE  WinInv'
<1>1. WheelIsGivenBack' /\ shown' = FALSE /\ hook' \in BOOLEAN
  BY HiddenLocks DEF WinInv
<1>2. WinTypeOK'
  BY <1>1 DEF WinInv, WinTypeOK
<1>3. ArmedMade'
  BY DEF WinInv, ArmedMade, ChordDown, SentenceDown
<1>4. LookedAt'
  BY DEF WinInv, LookedAt
<1> QED BY <1>1, <1>2, <1>3, <1>4 DEF WinInv

-----------------------------------------------------------------------------
(* The steps.                                                              *)

\* The user and the system: each step is one after the last look.
LEMMA SystemStep ==
  ASSUME WinInv,
         \/ \E k \in WinKeys : PressOrRelease(k)
         \/ \E w \in WinWindows : BringToFront(w) \/ CloseWindow(w)
         \/ TurnWheel \/ MovePointer \/ OtherDesktop \/ LoseInput \/ CopyElsewhere \/ CopyFromPopup
  PROVE  WinInv'
<1>1. messages \in Seq(Messages)
  BY DEF WinInv, WinTypeOK
<1>2. /\ UNCHANGED <<keys, armed, hook, unseen, settings, shown, chord, pending>>
      /\ checked' = FALSE
      /\ \/ messages' = messages
         \/ \E m \in Messages : messages' = Append(messages, m)
  <2>1. CASE \E k \in WinKeys : PressOrRelease(k)
    BY <2>1 DEF PressOrRelease, Step, Sent, Message, Messages, winKeys, winChord, winPopup
  <2>2. CASE TurnWheel \/ MovePointer
    BY <2>2 DEF TurnWheel, MovePointer, Step, Sent, Message, Messages, winKeys, winChord, winPopup
  <2>3. CASE OtherDesktop \/ LoseInput \/ \E w \in WinWindows : BringToFront(w) \/ CloseWindow(w)
    BY <2>3 DEF OtherDesktop, LoseInput, BringToFront, CloseWindow, Step, winKeys, winChord,
       winPopup
  <2>4. CASE CopyElsewhere \/ CopyFromPopup
    BY <2>4 DEF CopyElsewhere, CopyFromPopup, Step, Message, Messages, winKeys, winChord, winPopup
  <2> QED BY <2>1, <2>2, <2>3, <2>4
<1>3. messages' \in Seq(Messages)
  BY <1>1, <1>2, MessageAdded
<1> QED BY <1>2, <1>3, OnlyMessages DEF WinInv, WinTypeOK, ArmedMade

\* The trigger is looked at, with the keys as the keyboard has them or as one message says.
LEMMA LookStep ==
  ASSUME WinInv, NEW pushed, NEW c, NEW closing \in BOOLEAN, UpdateArmed(pushed, c, closing),
         settings' = c, UNCHANGED <<chord, pressed>>, messages' \in Seq(Messages),
         \/ checked' = FALSE
         \/ checked' = checked /\ ~checked
         \/ /\ checked' \in BOOLEAN /\ pushed = pressed
            /\ checked' => Quiet(messages')
  PROVE  WinInv'
<1>1. /\ keys' = pushed /\ unseen' = FALSE
      /\ armed' \in [active : BOOLEAN, sentence : BOOLEAN]
      /\ {shown', hook', pending'} \subseteq BOOLEAN
      /\ ArmedMade' /\ WheelIsGivenBack'
  BY Updated DEF WinInv
<1>2. checked' \in BOOLEAN /\ chord' \in BOOLEAN
  BY DEF WinInv, WinTypeOK
<1>3. WinTypeOK'
  BY <1>1, <1>2 DEF WinTypeOK
<1>4. LookedAt'
  BY <1>1, <1>2 DEF LookedAt
<1> QED BY <1>1, <1>3, <1>4 DEF WinInv

\* What the daemon has the UI thread do.
LEMMA DaemonStep ==
  ASSUME WinInv,
         \/ ShowWindowsPopup \/ HideWindowsPopup \/ \E c \in WinConfigs : ConfigureWindows(c)
         \/ RecordWindowsChord \/ CancelWindowsRecording \/ DiagnoseWindows
  PROVE  WinInv'
<1>0. WinTypeOK /\ ArmedMade /\ LookedAt /\ WheelIsGivenBack
  BY DEF WinInv
<1>1. CASE ShowWindowsPopup
  <2>1. /\ shown' = TRUE /\ LockWheel(settings)
        /\ UNCHANGED <<keys, armed, unseen, settings, pending, chord, checked, pressed, messages>>
    BY <1>1 DEF ShowWindowsPopup, winSystem, winChord
  <2>2. WheelIsGivenBack' /\ hook' \in BOOLEAN
    BY <2>1, Locked
  <2>3. WinTypeOK' /\ ArmedMade' /\ LookedAt'
    BY <1>0, <2>1, <2>2 DEF WinTypeOK, ArmedMade, LookedAt, ChordDown, SentenceDown, Quiet
  <2> QED BY <2>2, <2>3 DEF WinInv
<1>2. CASE HideWindowsPopup
  BY <1>0, <1>2, Hidden DEF HideWindowsPopup, winSystem, winChord, WinTypeOK
<1>3. ASSUME NEW c \in WinConfigs, ConfigureWindows(c) PROVE WinInv'
  <2> DEFINE closing == c.plain # settings.plain
  <2>1. /\ settings' = c /\ checked' = FALSE
        /\ UNCHANGED <<chord, pressed, messages>>
        /\ IF chord
           THEN /\ keys' = pressed /\ unseen' = TRUE /\ UNCHANGED <<armed, pending>>
                /\ IF closing THEN CloseShown(c) ELSE UNCHANGED winPopup /\ LockWheel(c)
           ELSE UpdateArmed(pressed, c, closing)
    BY <1>3 DEF ConfigureWindows, winSystem, winChord
  <2>2. closing \in BOOLEAN /\ messages' \in Seq(Messages)
    BY <1>0, <2>1 DEF WinTypeOK
  <2> HIDE DEF closing
  <2>3. CASE ~chord
    BY <2>1, <2>2, <2>3, LookStep
  <2>4. CASE chord
    <3>1. WheelIsGivenBack' /\ shown' \in BOOLEAN /\ hook' \in BOOLEAN
      <4>1. CASE closing
        BY <1>0, <2>1, <2>4, <4>1, HiddenLocks
      <4>2. CASE ~closing
        BY <1>0, <2>1, <2>4, <4>2, Locked DEF winPopup, WinTypeOK
      <4> QED BY <4>1, <4>2
    <3>2. WinTypeOK' /\ ArmedMade' /\ LookedAt'
      BY <1>0, <2>1, <2>4, <3>1 DEF WinTypeOK, ArmedMade, LookedAt
    <3> QED BY <3>1, <3>2 DEF WinInv
  <2> QED BY <1>0, <2>3, <2>4 DEF WinTypeOK
<1>4. CASE RecordWindowsChord
  <2>1. /\ chord' = TRUE /\ keys' = pressed /\ checked' = FALSE
        /\ unseen' = (unseen \/ keys # pressed)
        /\ UNCHANGED <<armed, hook, settings, pending, shown, messages>>
    BY <1>4 DEF RecordWindowsChord, Step, winSystem, winPopup
  <2>2. WinTypeOK' /\ LookedAt' /\ WheelIsGivenBack'
    BY <1>0, <2>1 DEF WinTypeOK, LookedAt, WheelIsGivenBack
  <2>3. ArmedMade'
    BY <1>0, <2>1 DEF ArmedMade, ChordDown, SentenceDown
  <2> QED BY <2>2, <2>3 DEF WinInv
<1>5. CASE CancelWindowsRecording
  <2>1. /\ chord' = FALSE
        /\ UNCHANGED <<keys, unseen, armed, hook, settings, pending, shown, messages, checked,
                       pressed>>
    BY <1>5 DEF CancelWindowsRecording, winSystem, winPopup, winKeys
  <2>2. WinTypeOK' /\ LookedAt' /\ WheelIsGivenBack'
    BY <1>0, <2>1 DEF WinTypeOK, LookedAt, WheelIsGivenBack, Quiet
  <2>3. ArmedMade'
    BY <1>0, <2>1 DEF ArmedMade, ChordDown, SentenceDown
  <2> QED BY <2>2, <2>3 DEF WinInv
<1>6. CASE DiagnoseWindows
  <2>1. /\ \A n \in DOMAIN messages : messages[n].type = "copied"
        /\ UNCHANGED <<chord, pressed, messages, settings, checked>>
        /\ IF keys # pressed THEN UpdateArmed(pressed, settings, FALSE)
           ELSE UNCHANGED <<winKeys, pending, winPopup>>
    BY <1>6 DEF DiagnoseWindows, winChord
  <2>2. CASE keys # pressed
    BY <1>0, <2>1, <2>2, LookStep DEF WinTypeOK, Quiet
  <2>3. CASE keys = pressed
    BY <1>0, <2>1, <2>3, OnlyMessages DEF winKeys, winPopup, WinTypeOK, ArmedMade, Quiet
  <2> QED BY <2>2, <2>3
<1> QED BY <1>1, <1>2, <1>3, <1>4, <1>5, <1>6

\* The loop.
LEMMA LoopStep ==
  ASSUME WinInv,
         RecordKey \/ HandleRawKey \/ HandleRawWheel \/ HandleRawMove \/ HandleCopied
         \/ Due \/ CheckInput \/ CheckSource
  PROVE  WinInv'
<1>0. WinTypeOK /\ ArmedMade /\ LookedAt /\ WheelIsGivenBack
  BY DEF WinInv
<1>a. messages # <<>> =>
        /\ Tail(messages) \in Seq(Messages) /\ Head(messages) \in Messages
        /\ Quiet(messages) => Quiet(Tail(messages)) /\ Head(messages).type \notin {"down", "up"}
  BY <1>0, MessageTaken DEF WinTypeOK
<1>1. CASE RecordKey
  <2>1. /\ messages # <<>> /\ Head(messages).type \in {"down", "up"} /\ messages' = Tail(messages)
        /\ unseen' = TRUE /\ chord' \in BOOLEAN
        /\ UNCHANGED <<armed, hook, settings, pending, shown, checked, pressed>>
    BY <1>1 DEF RecordKey, TakeMessage, winSystem, winPopup
  <2>2. ~checked
    BY <1>0, <1>a, <2>1 DEF LookedAt
  <2>3. WinTypeOK' /\ LookedAt' /\ WheelIsGivenBack' /\ ArmedMade'
    BY <1>0, <1>a, <2>1, <2>2 DEF WinTypeOK, LookedAt, WheelIsGivenBack, ArmedMade
  <2> QED BY <2>3 DEF WinInv
<1>2. CASE HandleRawKey
  <2> DEFINE m       == Head(messages)
             closing == m.what \in WinButtons /\ m.type = "down" /\ shown /\ ~OnThePopup
  <2>1. /\ messages # <<>> /\ Head(messages).type \in {"down", "up"} /\ messages' = Tail(messages)
        /\ UpdateArmed(DownAfter(m), settings, closing)
        /\ UNCHANGED <<settings, checked, pressed, chord>>
    BY <1>2 DEF HandleRawKey, TakeMessage, winSystem, winChord
  <2>2. ~checked /\ messages' \in Seq(Messages)
    BY <1>0, <1>a, <2>1 DEF LookedAt
  <2>3. closing \in BOOLEAN
    OBVIOUS
  <2> HIDE DEF closing, m
  <2> QED BY <2>1, <2>2, <2>3, LookStep
<1>3. CASE HandleRawWheel
  <2>1. /\ messages # <<>> /\ messages' = Tail(messages)
        /\ UNCHANGED <<keys, armed, unseen, settings, pending, chord, checked, pressed>>
        /\ CloseShown(settings) \/ UNCHANGED <<shown, hook>>
    BY <1>3 DEF HandleRawWheel, TakeMessage, winSystem, winChord, winPopup
  <2>2. CASE CloseShown(settings)
    BY <1>a, <2>1, <2>2, Hidden
  <2>3. CASE UNCHANGED <<shown, hook>>
    BY <1>0, <1>a, <2>1, <2>3, OnlyMessages DEF WinTypeOK, ArmedMade
  <2> QED BY <2>1, <2>2, <2>3
<1>4. CASE HandleRawMove \/ HandleCopied
  <2>1. /\ messages # <<>> /\ messages' = Tail(messages)
        /\ UNCHANGED <<keys, armed, hook, unseen, settings, shown, chord, checked, pressed>>
        /\ pending' = pending \/ pending' = (pending \/ armed.active)
    BY <1>4 DEF HandleRawMove, HandleCopied, TakeMessage, winSystem, winChord, winPopup, winKeys
  <2>2. pending' \in BOOLEAN /\ (pending' => armed.active)
    BY <1>0, <2>1 DEF WinTypeOK, ArmedMade
  <2> QED BY <1>a, <2>1, <2>2, OnlyMessages
<1>5. CASE Due
  <2>1. /\ pending /\ pending' \in BOOLEAN
        /\ UNCHANGED <<keys, armed, hook, unseen, settings, shown, chord, checked, pressed,
                       messages>>
    BY <1>5 DEF Due, winSystem, winChord, winPopup, winKeys
  <2> QED BY <1>0, <2>1, OnlyMessages DEF WinTypeOK, ArmedMade, Quiet
<1>6. CASE CheckInput
  <2>1. UNCHANGED <<settings, chord, pressed, messages>>
    BY <1>6 DEF CheckInput, winChord
  <2> DEFINE kept == UNCHANGED <<keys, armed, hook, unseen, pending, shown>>
             told == checked' = Quiet(messages)
             looks == UpdateArmed(pressed, settings, FALSE)
  <2>2. \/ checked' = FALSE /\ kept
        \/ told /\ looks
        \/ told /\ keys = pressed /\ kept
    BY <1>6 DEF CheckInput, winKeys, winPopup, Quiet
  <2>3. CASE checked' = FALSE /\ kept
    BY <1>0, <2>1, <2>3, OnlyMessages DEF WinTypeOK, ArmedMade
  <2>4. CASE told /\ looks
    BY <1>0, <2>1, <2>4, LookStep DEF WinTypeOK, Quiet
  <2>5. CASE told /\ keys = pressed /\ kept
    BY <1>0, <2>1, <2>5 DEF WinInv, WinTypeOK, ArmedMade, LookedAt, WheelIsGivenBack, Quiet,
                            ChordDown, SentenceDown
  <2> HIDE DEF kept, told, looks
  <2> QED BY <2>2, <2>3, <2>4, <2>5, Zenon
<1>7. CASE CheckSource
  BY <1>0, <1>7, Hidden DEF CheckSource, winSystem, winChord, WinTypeOK
<1> QED BY <1>1, <1>2, <1>3, <1>4, <1>5, <1>6, <1>7

\* Every step.
LEMMA WinInvStep == WinInv /\ [WinNext]_winVars => WinInv'
<1> SUFFICES ASSUME WinInv, [WinNext]_winVars PROVE WinInv'
  OBVIOUS
<1>1. CASE UNCHANGED winVars
  BY <1>1, OnlyMessages DEF winVars, winSystem, winKeys, winChord, winPopup, WinInv, WinTypeOK,
                            ArmedMade, Quiet
<1> QED BY <1>1, SystemStep, DaemonStep, LoopStep DEF WinNext

\* The beginning.
LEMMA WinInvInit == WinInit => WinInv
<1> SUFFICES ASSUME WinInit PROVE WinInv
  OBVIOUS
<1>1. /\ messages = <<>> /\ messages \in Seq(Messages) /\ checked = FALSE /\ keys = {}
      /\ armed = [active |-> FALSE, sentence |-> FALSE]
      /\ pending = FALSE /\ hook = FALSE /\ shown = FALSE /\ chord = FALSE /\ unseen = FALSE
  BY DEF WinInit
<1>2. ~ChordDown(keys, settings)
  BY <1>1 DEF ChordDown
<1>3. ArmedMade
  BY <1>1, <1>2 DEF ArmedMade, ChordDown
<1> QED BY <1>1, <1>3 DEF WinInv, WinTypeOK, LookedAt, WheelIsGivenBack

\* Whatever releases and presses went missing, the trigger is what the user holds after the next
\* look at the keyboard.
THEOREM InputIsNoticed == WinSpec => []LostInputIsNoticed
<1>1. WinInit => WinInv
  BY WinInvInit
<1>2. WinInv /\ [WinNext]_winVars => WinInv'
  BY WinInvStep
<1>3. WinInv => LostInputIsNoticed
  BY DEF WinInv, ArmedMade, LookedAt, LostInputIsNoticed
<1> QED BY <1>1, <1>2, <1>3, PTL DEF WinSpec

\* The wheel is taken from the applications exactly while the trigger is held over a popup and
\* the settings say so.
THEOREM WheelGivenBack == WinSpec => []WheelIsGivenBack
<1>1. WinInit => WinInv
  BY WinInvInit
<1>2. WinInv /\ [WinNext]_winVars => WinInv'
  BY WinInvStep
<1>3. WinInv => WheelIsGivenBack
  BY DEF WinInv
<1> QED BY <1>1, <1>2, <1>3, PTL DEF WinSpec
-----------------------------------------------------------------------------
(* Reading the screen.                                                     *)

\* A set of numbers that is not empty has a least one.
LEMMA LeastNumber ==
  ASSUME NEW T \in SUBSET Nat, T # {}
  PROVE  \E n \in T : \A m \in T : n <= m
<1> DEFINE R == {p \in Nat \X Nat : p[1] < p[2]}
<1>1. IsWellFoundedOn(R, Nat)
  BY NatLessThanWellFounded DEF OpToRel
<1>2. PICK n \in T : \A m \in T : ~(<<m, n>> \in R)
  <2> HIDE DEF R
  <2> QED BY <1>1, WFMin
<1>3. ASSUME NEW m \in T PROVE n <= m
  <2>1. m \in Nat /\ n \in Nat /\ ~(<<m, n>> \in R)
    BY <1>2
  <2> QED BY <2>1
<1> QED BY <1>3

\* A set of places of a sequence that is not empty has a first and a last one.
LEMMA FirstAndLast ==
  ASSUME NEW n \in Nat, NEW T \in SUBSET (1 .. n), T # {}
  PROVE  /\ \E i \in T : \A j \in T : i <= j
         /\ \E i \in T : \A j \in T : j <= i
<1>1. \E i \in T : \A j \in T : i <= j
  <2>1. T \in SUBSET Nat
    OBVIOUS
  <2> QED BY <2>1, LeastNumber
<1>2. \E i \in T : \A j \in T : j <= i
  <2> DEFINE U == {n - i : i \in T}
  <2>1. U \in SUBSET Nat /\ U # {}
    <3>1. \A i \in T : n - i \in Nat
      OBVIOUS
    <3>2. PICK i \in T : TRUE
      OBVIOUS
    <3>3. n - i \in U
      OBVIOUS
    <3> QED BY <3>1, <3>3
  <2>2. PICK u \in U : \A v \in U : u <= v
    <3> HIDE DEF U
    <3> QED BY <2>1, LeastNumber
  <2>3. PICK i \in T : u = n - i
    BY <2>2
  <2>4. ASSUME NEW j \in T PROVE j <= i
    <3>1. n - j \in U
      OBVIOUS
    <3>2. n - i <= n - j
      BY <2>2, <2>3, <3>1
    <3> QED BY <3>2
  <2> QED BY <2>4
<1> QED BY <1>1, <1>2

-----------------------------------------------------------------------------
Ours == {Fill, Own}

\* What was seen of the popup's is where the popup is, was a moment ago, or moved from meanwhile.
GrabOK ==
  /\ \/ grab = NoGrab
     \/ /\ grab.at \in {"read", "masked"}
        /\ grab = [at |-> grab.at, pointer |-> grab.pointer, moved |-> grab.moved,
                   image |-> grab.image]
        /\ grab.image = [c \in Cells |-> grab.image[c]]
     \/ /\ grab.at = "covered"
        /\ grab = [at |-> grab.at, pointer |-> grab.pointer, image |-> grab.image,
                   all |-> grab.all, blank |-> grab.blank, doubt |-> grab.doubt,
                   moved |-> grab.moved]
  /\ \A c \in Cells :
       /\ grab.at \in {"read", "masked"} /\ grab.image[c] = Own =>
            c \in covering \cup (UNION vacated) \cup grab.moved
       /\ grab.at = "read" => grab.image[c] # Fill
       /\ grab.at = "masked" /\ grab.image[c] = Fill => c \in covering \cup grab.moved
       /\ grab.at = "covered" /\ grab.image[c] \in Ours => c \in grab.blank \cup grab.doubt
  /\ grab.at = "covered" => grab.blank \subseteq grab.all

ScreenOK ==
  /\ pixels \in [Cells -> Texts]
  /\ onScreen \cup leftover \subseteq covering \cup (UNION vacated)

\* A region as read: what it has of the popup's is in doubt, or noted as cut.
RegionOK(r) ==
  /\ r = [hash |-> r.hash, pixels |-> r.pixels, hidden |-> r.hidden, blank |-> r.blank,
          lines |-> r.lines, cut |-> r.cut, fresh |-> r.fresh]
  /\ r.lines = [b \in DOMAIN r.lines |-> r.lines[b]]
  /\ DOMAIN r.lines \subseteq (SUBSET Cells) \ {{}}
  /\ \A b \in DOMAIN r.lines :
       DOMAIN r.lines[b].text = b =>
         \A c \in b : r.lines[b].text[c] \in Ours =>
           c \in r.lines[b].doubt \/ \E x \in r.cut : x.line = b /\ c \in x.part

RegionsOK == \E S : regions \in Seq(S) /\ \A r \in S : RegionOK(r)

ReadingInv == GrabOK /\ ScreenOK /\ RegionsOK /\ HiddenIsReadAgain

-----------------------------------------------------------------------------
\* What is read again: what is left was cut where the popup still is.
StillCut(r, g) == \A x \in r.cut : x.part \subseteq g.blank

\* What was not read has no text.
LEMMA UnreadIsUnread == \A b : DOMAIN Unread.text = b => b = {}
BY DEF Unread

RegionShape(r) ==
  r = [hash |-> r.hash, pixels |-> r.pixels, hidden |-> r.hidden, blank |-> r.blank,
       lines |-> r.lines, cut |-> r.cut, fresh |-> r.fresh]

Again(r, blank) == {x.line : x \in {y \in r.cut : ~(y.part \subseteq blank)}}

\* What uncut() makes of a region: the lines read where the popup no longer is are to be read again.
LEMMA UncutIs ==
  ASSUME NEW r, RegionOK(r), NEW blank, NEW u, u = Uncut(r, blank)
  PROVE  /\ RegionShape(u)
         /\ u.lines = [b \in DOMAIN r.lines |->
                         IF b \in Again(r, blank) THEN Unread ELSE r.lines[b]]
         /\ u.cut = {x \in r.cut : x.line \notin Again(r, blank)}
<1>b. PICK again : again = Again(r, blank)
  OBVIOUS
<1>1. u = [r EXCEPT !.lines = [b \in DOMAIN @ |-> IF b \in again THEN Unread ELSE @[b]],
                    !.cut = {x \in @ : x.line \notin again}]
  BY <1>b DEF Uncut, Again
<1>2. r = [hash |-> r.hash, pixels |-> r.pixels, hidden |-> r.hidden, blank |-> r.blank,
           lines |-> r.lines, cut |-> r.cut, fresh |-> r.fresh]
  BY DEF RegionOK
<1>3. /\ RegionShape(u)
      /\ u.lines = [b \in DOMAIN r.lines |-> IF b \in again THEN Unread ELSE r.lines[b]]
      /\ u.cut = {x \in r.cut : x.line \notin again}
  BY ONLY <1>1, <1>2 DEF RegionShape
<1> QED BY <1>3, <1>b

\* uncut() keeps what holds of a region, and what was read of the popup's is still under it.
LEMMA UncutOK ==
  ASSUME NEW r, RegionOK(r), NEW blank
  PROVE  /\ RegionOK(Uncut(r, blank))
         /\ \A x \in Uncut(r, blank).cut : x.part \subseteq blank
<1>a. PICK u : u = Uncut(r, blank)
  OBVIOUS
<1>b. PICK again : again = Again(r, blank)
  OBVIOUS
<1>1. /\ RegionShape(u)
      /\ u.lines = [b \in DOMAIN r.lines |-> IF b \in again THEN Unread ELSE r.lines[b]]
      /\ u.cut = {x \in r.cut : x.line \notin again}
  BY <1>a, <1>b, UncutIs
<1>2. \A x \in u.cut : x.part \subseteq blank
  <2>1. \A x \in r.cut : ~(x.part \subseteq blank) => x.line \in again
    BY <1>b DEF Again
  <2> QED BY ONLY <2>1, <1>1
<1>5. DOMAIN u.lines = DOMAIN r.lines /\ u.lines = [b \in DOMAIN u.lines |-> u.lines[b]]
  BY ONLY <1>1
<1>6. DOMAIN u.lines \subseteq (SUBSET Cells) \ {{}}
  BY <1>5 DEF RegionOK
<1>4. ASSUME NEW b \in DOMAIN u.lines, DOMAIN u.lines[b].text = b,
             NEW c \in b, u.lines[b].text[c] \in Ours
      PROVE  c \in u.lines[b].doubt \/ \E x \in u.cut : x.line = b /\ c \in x.part
  <2>1. b \in DOMAIN r.lines /\ b # {}
    BY <1>5, <1>6
  <2>2. b \notin again /\ u.lines[b] = r.lines[b]
    <3>1. u.lines[b] = IF b \in again THEN Unread ELSE r.lines[b]
      BY ONLY <1>1, <2>1
    <3>2. b \notin again
      BY <3>1, <2>1, <1>4, UnreadIsUnread
    <3> QED BY <3>1, <3>2
  <2>3. c \in r.lines[b].doubt \/ \E x \in r.cut : x.line = b /\ c \in x.part
    BY <2>1, <2>2, <1>4 DEF RegionOK
  <2>4. \A x \in r.cut : x.line = b => x \in u.cut
    BY ONLY <2>2, <1>1
  <2> QED BY <2>2, <2>3, <2>4
<1>7. RegionOK(u)
  BY <1>1, <1>4, <1>5, <1>6 DEF RegionOK, RegionShape
<1> QED BY <1>a, <1>2, <1>7

\* A region none of whose lines is read.
LEMMA NothingRead ==
  ASSUME NEW r, NEW boxes \in SUBSET ((SUBSET Cells) \ {{}}),
         r = [hash |-> r.hash, pixels |-> r.pixels, hidden |-> r.hidden, blank |-> r.blank,
              lines |-> [b \in boxes |-> Unread], cut |-> {}, fresh |-> r.fresh]
  PROVE  RegionOK(r) /\ r.cut = {}
<1>1. r.lines = [b \in boxes |-> Unread] /\ r.cut = {}
  OBVIOUS
<1>2. \A b \in DOMAIN r.lines : b # {} /\ r.lines[b] = Unread
  BY <1>1
<1>3. \A b \in DOMAIN r.lines : DOMAIN r.lines[b].text # b
  BY <1>2, UnreadIsUnread
<1>4. r = [hash |-> r.hash, pixels |-> r.pixels, hidden |-> r.hidden, blank |-> r.blank,
           lines |-> r.lines, cut |-> r.cut, fresh |-> r.fresh]
  OBVIOUS
<1>5. r.lines = [b \in DOMAIN r.lines |-> r.lines[b]] /\ DOMAIN r.lines = boxes
  BY <1>1
<1> QED BY <1>1, <1>3, <1>4, <1>5 DEF RegionOK

New(r, used) == {b \in used : DOMAIN r.lines[b].text # b}

\* What reading boxes makes of a region.
LEMMA RecognisedIs ==
  ASSUME NEW r, RegionOK(r), NEW used, NEW g, NEW read, read = Recognised(r, used, g),
         NEW new, new = New(r, used)
  PROVE  /\ RegionShape(read)
         /\ read.lines = [b \in DOMAIN r.lines |->
                            IF b \in new
                            THEN [text |-> [c \in b |-> g.image[c]], doubt |-> b \cap g.doubt]
                            ELSE r.lines[b]]
         /\ read.cut = r.cut \cup {[line |-> b, part |-> b \cap g.blank] :
                                     b \in {x \in new : x \cap g.blank # {}}}
<1>1. read = [r EXCEPT
         !.lines = [b \in DOMAIN @ |->
                      IF b \in new
                      THEN [text |-> [c \in b |-> g.image[c]], doubt |-> b \cap g.doubt]
                      ELSE @[b]],
         !.cut = @ \cup {[line |-> b, part |-> b \cap g.blank] :
                           b \in {x \in new : x \cap g.blank # {}}}]
  BY DEF Recognised, New
<1>2. r = [hash |-> r.hash, pixels |-> r.pixels, hidden |-> r.hidden, blank |-> r.blank,
           lines |-> r.lines, cut |-> r.cut, fresh |-> r.fresh]
  BY DEF RegionOK
<1> QED BY ONLY <1>1, <1>2 DEF RegionShape

\* Boxes that are read keep what holds of a region: of the popup's they have only what is noted.
LEMMA RecognisedOK ==
  ASSUME NEW r, RegionOK(r), NEW g, StillCut(r, g), NEW used \in SUBSET DOMAIN r.lines,
         \A c \in Cells : g.image[c] \in Ours => c \in g.blank \cup g.doubt,
         NEW read, read = Recognised(r, used, g)
  PROVE  /\ RegionOK(read) /\ StillCut(read, g)
         /\ \A b \in used : DOMAIN read.lines[b].text = b
         /\ DOMAIN read.lines = DOMAIN r.lines
<1>a. PICK new : new = New(r, used)
  OBVIOUS
<1>1. /\ RegionShape(read)
      /\ read.lines = [b \in DOMAIN r.lines |->
                         IF b \in new
                         THEN [text |-> [c \in b |-> g.image[c]], doubt |-> b \cap g.doubt]
                         ELSE r.lines[b]]
      /\ read.cut = r.cut \cup {[line |-> b, part |-> b \cap g.blank] :
                                  b \in {x \in new : x \cap g.blank # {}}}
  BY <1>a, RecognisedIs
<1>3. /\ DOMAIN read.lines = DOMAIN r.lines
      /\ read.lines = [b \in DOMAIN read.lines |-> read.lines[b]]
  BY ONLY <1>1
<1>4. DOMAIN read.lines \subseteq (SUBSET Cells) \ {{}}
  BY <1>3 DEF RegionOK
<1>5. \A b \in new : b \in DOMAIN r.lines
        /\ read.lines[b] = [text |-> [c \in b |-> g.image[c]], doubt |-> b \cap g.doubt]
  BY <1>1, <1>a DEF New
<1>t. ASSUME NEW b \in new
      PROVE  /\ read.lines[b].text = [c \in b |-> g.image[c]]
             /\ read.lines[b].doubt = b \cap g.doubt
  <2>1. read.lines[b] = [text |-> [c \in b |-> g.image[c]], doubt |-> b \cap g.doubt]
    BY <1>5
  <2> QED BY ONLY <2>1
<1>6. \A b \in DOMAIN r.lines \ new : read.lines[b] = r.lines[b]
  BY ONLY <1>1
<1>c. /\ r.cut \subseteq read.cut
      /\ \A b \in new : b \cap g.blank # {} =>
           [line |-> b, part |-> b \cap g.blank] \in read.cut
      /\ \A x \in read.cut : x \in r.cut \/ \E b \in new : x.part = b \cap g.blank
  <2>1. ASSUME NEW b \in new, b \cap g.blank # {}
        PROVE  [line |-> b, part |-> b \cap g.blank] \in read.cut
    BY ONLY <2>1, <1>1
  <2>2. ASSUME NEW x \in read.cut, x \notin r.cut
        PROVE  \E b \in new : x.part = b \cap g.blank
    <3>1. PICK b \in {y \in new : y \cap g.blank # {}} :
            x = [line |-> b, part |-> b \cap g.blank]
      BY ONLY <2>2, <1>1
    <3> QED BY <3>1
  <2>3. r.cut \subseteq read.cut
    BY ONLY <1>1
  <2> QED BY <2>1, <2>2, <2>3
<1>7. ASSUME NEW b \in DOMAIN read.lines, DOMAIN read.lines[b].text = b,
             NEW c \in b, read.lines[b].text[c] \in Ours
      PROVE  c \in read.lines[b].doubt \/ \E x \in read.cut : x.line = b /\ c \in x.part
  <2>0. b \in DOMAIN r.lines /\ b \subseteq Cells
    BY <1>3, <1>4
  <2>1. CASE b \in new
    <3>1. read.lines[b].text[c] = g.image[c] /\ read.lines[b].doubt = b \cap g.doubt
      <4>1. /\ read.lines[b].text = [y \in b |-> g.image[y]]
            /\ read.lines[b].doubt = b \cap g.doubt
        BY <2>1, <1>t
      <4>2. c \in b
        OBVIOUS
      <4> QED BY ONLY <4>1, <4>2
    <3>2. c \in g.blank \cup g.doubt
      BY <3>1, <2>0, <1>7
    <3>3. CASE c \in g.doubt
      BY <3>1, <3>3
    <3>4. CASE c \in g.blank
      <4>1. [line |-> b, part |-> b \cap g.blank] \in read.cut
        BY <1>c, <2>1, <3>4
      <4> QED BY <4>1, <3>4
    <3> QED BY <3>2, <3>3, <3>4
  <2>2. CASE b \notin new
    <3>1. read.lines[b] = r.lines[b]
      BY <2>0, <2>2, <1>6
    <3>2. c \in r.lines[b].doubt \/ \E x \in r.cut : x.line = b /\ c \in x.part
      BY <3>1, <2>0, <1>7 DEF RegionOK
    <3> QED BY <3>1, <3>2, <1>c
  <2> QED BY <2>1, <2>2
<1>8. StillCut(read, g)
  BY <1>c DEF StillCut
<1>9. ASSUME NEW b \in used PROVE DOMAIN read.lines[b].text = b
  <2>1. CASE b \in new
    <3>1. read.lines[b].text = [c \in b |-> g.image[c]]
      BY <2>1, <1>t
    <3> QED BY ONLY <3>1
  <2>2. CASE b \notin new
    BY <2>2, <1>6, <1>a DEF New
  <2> QED BY <2>1, <2>2
<1>10. RegionOK(read)
  BY <1>1, <1>3, <1>4, <1>7 DEF RegionOK, RegionShape
<1> QED BY <1>3, <1>8, <1>9, <1>10

\* The region used for an answer is one of those kept, as said, and its cuts are where the popup is.
LEMMA ReadyOK ==
  ASSUME NEW g, RegionsOK
  PROVE  LET ready == Ready(g)
         IN  /\ ready.at \in DOMAIN ready.all
             /\ \E S : ready.all \in Seq(S) /\ \A r \in S : RegionOK(r)
             /\ RegionOK(ready.all[ready.at]) /\ StillCut(ready.all[ready.at], g)
<1>1. PICK S : regions \in Seq(S) /\ \A r \in S : RegionOK(r)
  BY DEF RegionsOK
<1>2. Len(regions) \in Nat /\ DOMAIN regions = 1 .. Len(regions)
      /\ \A i \in DOMAIN regions : regions[i] \in S
  BY <1>1
<1> DEFINE same   == {i \in DOMAIN regions : Same(regions[i], g)}
           recent == {i \in DOMAIN regions : regions[i].fresh /\ g.pointer \notin regions[i].blank}
           first  == CHOOSE i \in same : \A j \in same : i <= j
           last   == CHOOSE i \in recent : \A j \in recent : j <= i
           ready  == Ready(g)
<1>3. CASE same # {}
  <2> DEFINE n == Uncut([regions[first] EXCEPT !.hash = Hash(g)], g.blank)
  <2>1. first \in DOMAIN regions
    <3>1. \E i \in same : \A j \in same : i <= j
      <4>1. same \in SUBSET (1 .. Len(regions))
        BY <1>2
      <4> HIDE DEF same
      <4> QED BY <4>1, <1>2, <1>3, FirstAndLast
    <3>2. first \in same
      <4> HIDE DEF same
      <4> QED BY <3>1
    <3> QED BY <3>2
  <2>2. ready = [at |-> first, all |-> [regions EXCEPT ![first] = n]]
    BY <1>3 DEF Ready
  <2> HIDE DEF first, same, recent, last
  <2>3. RegionOK([regions[first] EXCEPT !.hash = Hash(g)])
    <3>1. RegionOK(regions[first])
      BY <1>1, <1>2, <2>1
    <3> QED BY <3>1 DEF RegionOK
  <2>4. RegionOK(n) /\ StillCut(n, g)
    BY <2>3, UncutOK DEF StillCut
  <2> HIDE DEF n
  <2>5. [regions EXCEPT ![first] = n] \in Seq(S \cup {n})
    <3>1. regions \in Seq(S \cup {n})
      BY <1>1
    <3> QED BY <3>1, <2>1, ExceptSeq
  <2>6. ready.at \in DOMAIN ready.all /\ ready.all[ready.at] = n
    BY <2>1, <2>2
  <2> HIDE DEF ready
  <2>7. ready.all \in Seq(S \cup {n}) /\ \A r \in S \cup {n} : RegionOK(r)
    BY <2>2, <2>4, <2>5, <1>1
  <2> QED BY <2>4, <2>6, <2>7 DEF ready
<1>4. CASE same = {} /\ recent # {}
  <2> DEFINE n == Reused(regions[last], g)
  <2>1. last \in DOMAIN regions
    <3>1. \E i \in recent : \A j \in recent : j <= i
      <4>1. recent \in SUBSET (1 .. Len(regions))
        BY <1>2
      <4> HIDE DEF recent
      <4> QED BY <4>1, <1>2, <1>4, FirstAndLast
    <3>2. last \in recent
      <4> HIDE DEF recent
      <4> QED BY <3>1
    <3> QED BY <3>2
  <2>2. ready = [at |-> last, all |-> [regions EXCEPT ![last] = n]]
    BY <1>4 DEF Ready
  <2> HIDE DEF first, same, recent, last
  <2>4. RegionOK(n) /\ StillCut(n, g)
    <3>1. RegionOK(regions[last])
      BY <1>1, <1>2, <2>1
    <3> DEFINE boxes == DOMAIN regions[last].lines
    <3>2. boxes \in SUBSET ((SUBSET Cells) \ {{}})
      BY <3>1 DEF RegionOK
    <3>3. n = [hash |-> n.hash, pixels |-> n.pixels, hidden |-> n.hidden, blank |-> n.blank,
               lines |-> [b \in boxes |-> Unread], cut |-> {}, fresh |-> n.fresh]
      <4>1. PICK q : q = regions[last]
        OBVIOUS
      <4>2. q = [hash |-> q.hash, pixels |-> q.pixels, hidden |-> q.hidden, blank |-> q.blank,
                 lines |-> q.lines, cut |-> q.cut, fresh |-> q.fresh]
        BY <4>1, <3>1 DEF RegionOK
      <4>3. n = [q EXCEPT !.hash = Hash(g), !.pixels = g.image, !.hidden = g.all,
                          !.blank = @ \cup g.blank, !.cut = {},
                          !.lines = [b \in DOMAIN @ |-> Unread]]
        BY <4>1 DEF Reused
      <4> HIDE DEF n
      <4> QED BY <4>1, <4>2, <4>3
    <3> HIDE DEF n, boxes
    <3>4. RegionOK(n) /\ n.cut = {}
      BY <3>2, <3>3, NothingRead
    <3> QED BY <3>4 DEF StillCut
  <2> HIDE DEF n
  <2>5. [regions EXCEPT ![last] = n] \in Seq(S \cup {n})
    <3>1. regions \in Seq(S \cup {n})
      BY <1>1
    <3> QED BY <3>1, <2>1, ExceptSeq
  <2>6. ready.at \in DOMAIN ready.all /\ ready.all[ready.at] = n
    BY <2>1, <2>2
  <2> HIDE DEF ready
  <2>7. ready.all \in Seq(S \cup {n}) /\ \A r \in S \cup {n} : RegionOK(r)
    BY <2>2, <2>4, <2>5, <1>1
  <2> QED BY <2>4, <2>6, <2>7 DEF ready
<1>5. CASE same = {} /\ recent = {}
  <2> DEFINE n    == Detected(g)
             kept == IF Len(regions) >= CacheSize THEN Tail(regions) ELSE regions
  <2>2. ready = [at |-> Len(kept) + 1, all |-> Append(kept, n)]
    BY <1>5 DEF Ready
  <2> HIDE DEF first, same, recent, last
  <2>3. kept \in Seq(S)
    <3>1. CASE Len(regions) >= CacheSize
      <4>1. regions # <<>>
        BY <3>1, <1>1, ReadingAssumption
      <4> QED BY <3>1, <4>1, <1>1
    <3> QED BY <3>1, <1>1
  <2>4. RegionOK(n) /\ StillCut(n, g)
    <3> DEFINE boxes == Found(g)
    <3>2. boxes \in SUBSET ((SUBSET Cells) \ {{}})
      BY DEF Found, Cells
    <3>3. n = [hash |-> n.hash, pixels |-> n.pixels, hidden |-> n.hidden, blank |-> n.blank,
               lines |-> [b \in boxes |-> Unread], cut |-> {}, fresh |-> n.fresh]
      BY DEF Detected
    <3> HIDE DEF n, boxes
    <3>4. RegionOK(n) /\ n.cut = {}
      BY <3>2, <3>3, NothingRead
    <3> QED BY <3>4 DEF StillCut
  <2> HIDE DEF n, kept
  <2>5. /\ Append(kept, n) \in Seq(S \cup {n})
        /\ Len(kept) + 1 \in DOMAIN Append(kept, n) /\ Append(kept, n)[Len(kept) + 1] = n
    <3>1. kept \in Seq(S \cup {n})
      BY <2>3
    <3> QED BY <3>1
  <2>6. ready.at \in DOMAIN ready.all /\ ready.all[ready.at] = n
    BY <2>5, <2>2
  <2> HIDE DEF ready
  <2>7. ready.all \in Seq(S \cup {n}) /\ \A r \in S \cup {n} : RegionOK(r)
    BY <2>2, <2>4, <2>5, <1>1
  <2> QED BY <2>4, <2>6, <2>7 DEF ready
<1> QED BY <1>3, <1>4, <1>5

-----------------------------------------------------------------------------
\* It holds at first,
LEMMA ReadingInvInit == ReadingInit => ReadingInv
<1> SUFFICES ASSUME ReadingInit PROVE ReadingInv
  OBVIOUS
<1>1. GrabOK
  BY DEF ReadingInit, GrabOK, NoGrab
<1>2. ScreenOK
  BY DEF ReadingInit, ScreenOK
<1>3. RegionsOK
  BY DEF ReadingInit, RegionsOK
<1>4. HiddenIsReadAgain
  <2>1. answer.text = <<>>
    BY DEF ReadingInit, NoAnswer
  <2> QED BY <2>1 DEF HiddenIsReadAgain
<1> QED BY <1>1, <1>2, <1>3, <1>4 DEF ReadingInv

\* The popup moves, is drawn elsewhere, or what it left is read again: what a capture under way
\* has seen is still where the popup is or moved from.
LEMMA Moved ==
  ASSUME GrabOK, NEW cells, Moving(cells),
         covering \subseteq covering' \cup cells,
         (UNION vacated) \subseteq (UNION vacated') \cup cells
  PROVE  GrabOK'
<1>1. CASE grab.at = "none"
  <2>1. grab' = grab /\ grab = NoGrab
    BY <1>1 DEF Moving, GrabOK
  <2> QED BY <2>1 DEF GrabOK, NoGrab
<1>2. CASE grab.at # "none"
  <2>0. grab' = [grab EXCEPT !.moved = @ \cup cells]
    BY <1>2 DEF Moving
  <2>1. CASE grab.at \in {"read", "masked"}
    <3>1. grab = [at |-> grab.at, pointer |-> grab.pointer, moved |-> grab.moved,
                  image |-> grab.image]
      BY <2>1 DEF GrabOK, NoGrab
    <3>2. /\ grab' = [at |-> grab.at, pointer |-> grab.pointer, moved |-> grab.moved \cup cells,
                      image |-> grab.image]
      BY <3>1, <2>0
    <3>3. /\ grab'.at = grab.at /\ grab'.image = grab.image
          /\ grab'.moved = grab.moved \cup cells /\ grab'.pointer = grab.pointer
      BY <3>2
    <3>4. grab' = [at |-> grab'.at, pointer |-> grab'.pointer, moved |-> grab'.moved,
                   image |-> grab'.image]
      BY <3>2, <3>3
    <3>5. grab.image = [c \in Cells |-> grab.image[c]]
      BY <2>1, <1>2 DEF GrabOK, NoGrab
    <3> QED BY <3>3, <3>4, <3>5, <2>1 DEF GrabOK
  <2>2. CASE grab.at \notin {"read", "masked"}
    <3>1. /\ grab.at = "covered"
          /\ grab = [at |-> grab.at, pointer |-> grab.pointer, image |-> grab.image,
                     all |-> grab.all, blank |-> grab.blank, doubt |-> grab.doubt,
                     moved |-> grab.moved]
      BY <2>2, <1>2 DEF GrabOK, NoGrab
    <3>2. grab' = [at |-> grab.at, pointer |-> grab.pointer, image |-> grab.image,
                   all |-> grab.all, blank |-> grab.blank, doubt |-> grab.doubt,
                   moved |-> grab.moved \cup cells]
      BY <3>1, <2>0
    <3>3. /\ grab'.at = "covered" /\ grab'.image = grab.image /\ grab'.pointer = grab.pointer
          /\ grab'.all = grab.all /\ grab'.blank = grab.blank /\ grab'.doubt = grab.doubt
          /\ grab'.moved = grab.moved \cup cells
      BY <3>2, <3>1
    <3>4. grab' = [at |-> grab'.at, pointer |-> grab'.pointer, image |-> grab'.image,
                   all |-> grab'.all, blank |-> grab'.blank, doubt |-> grab'.doubt,
                   moved |-> grab'.moved]
      BY <3>2, <3>3, <3>1
    <3> QED BY <3>3, <3>4, <3>1 DEF GrabOK
  <2> QED BY <2>1, <2>2
<1> QED BY <1>1, <1>2

\* The popup, the server and the applications.
LEMMA ScreenSteps ==
  ASSUME ReadingInv,
         \/ \E a \in (Areas \cup {{}}) \ {covering} : PopupTo(a)
         \/ \E a \in vacated : Expire(a)
         \/ \E c \in Cells, t \in Texts : ShowsElse(c, t)
         \/ Repaint \/ Flush
  PROVE  ReadingInv'
<1>1. regions' = regions /\ answer' = answer
  BY DEF PopupTo, Expire, ShowsElse, Repaint, Flush, reads
<1>2. RegionsOK' /\ HiddenIsReadAgain'
  BY <1>1 DEF ReadingInv, RegionsOK, HiddenIsReadAgain
<1>3. GrabOK' /\ ScreenOK'
  <2>1. ASSUME NEW a, PopupTo(a) PROVE GrabOK' /\ ScreenOK'
    <3>1. /\ covering' = a /\ UNCHANGED <<pixels, onScreen, leftover>>
          /\ vacated' = IF covering = {} THEN vacated ELSE vacated \cup {covering}
          /\ Moving(covering \cup a)
      BY <2>1 DEF PopupTo, sees
    <3>2. covering \cup (UNION vacated) = (UNION vacated')
      BY <3>1
    <3>3. GrabOK'
      BY <3>1, <3>2, Moved DEF ReadingInv
    <3> QED BY <3>1, <3>2, <3>3 DEF ReadingInv, ScreenOK
  <2>2. ASSUME NEW a \in vacated, Expire(a) PROVE GrabOK' /\ ScreenOK'
    <3>1. /\ vacated' = vacated \ {a} /\ UNCHANGED <<covering, pixels, onScreen, leftover>>
          /\ a \cap (leftover \cup (onScreen \ covering)) = {}
          /\ Moving(a)
      BY <2>2 DEF Expire, sees
    <3>2. (UNION vacated) \subseteq (UNION vacated') \cup a
      BY <3>1
    <3>3. GrabOK'
      BY <3>1, <3>2, Moved DEF ReadingInv
    <3> QED BY <3>1, <3>2, <3>3 DEF ReadingInv, ScreenOK
  <2>3. ASSUME NEW c \in Cells, NEW t \in Texts, ShowsElse(c, t) PROVE GrabOK' /\ ScreenOK'
    <3>1. /\ pixels' = [pixels EXCEPT ![c] = t] /\ leftover' = leftover \ {c}
          /\ UNCHANGED <<covering, vacated, onScreen, grab>>
      BY <2>3 DEF ShowsElse, ui, reads
    <3> QED BY <3>1 DEF ReadingInv, GrabOK, ScreenOK
  <2>4. ASSUME Repaint PROVE GrabOK' /\ ScreenOK'
    <3>1. leftover' = {} /\ UNCHANGED <<covering, vacated, pixels, onScreen, grab>>
      BY <2>4 DEF Repaint, ui, reads
    <3> QED BY <3>1 DEF ReadingInv, GrabOK, ScreenOK
  <2>5. ASSUME Flush PROVE GrabOK' /\ ScreenOK'
    <3>1. /\ onScreen' = covering /\ leftover' = (leftover \cup onScreen) \ covering
          /\ UNCHANGED <<covering, vacated, pixels>> /\ Moving(onScreen \cup covering)
      BY <2>5 DEF Flush, ui
    <3>2. GrabOK'
      BY <3>1, Moved DEF ReadingInv
    <3> QED BY <3>1, <3>2 DEF ReadingInv, ScreenOK
  <2> QED BY <2>1, <2>2, <2>3, <2>4, <2>5
<1> QED BY <1>2, <1>3 DEF ReadingInv

\* The pixels are read, the popup painted over, and what is covered asked for.
LEMMA CaptureSteps ==
  ASSUME ReadingInv, (\E c \in Cells : Grab(c)) \/ Mask \/ Cover
  PROVE  ReadingInv'
<1>1. regions' = regions /\ ScreenOK'
  BY DEF ReadingInv, ScreenOK, Grab, Mask, Cover, ui, sees
<1>2. RegionsOK'
  BY <1>1 DEF ReadingInv, RegionsOK
<1>3. HiddenIsReadAgain'
  <2>1. CASE answer' = answer
    BY <2>1 DEF ReadingInv, HiddenIsReadAgain
  <2>2. CASE answer' = NoAnswer
    <3>1. answer'.text = <<>>
      BY <2>2 DEF NoAnswer
    <3> QED BY <3>1 DEF HiddenIsReadAgain
  <2> QED BY <2>1, <2>2 DEF Grab, Mask, Cover
<1>4. ASSUME NEW p \in Cells, Grab(p) PROVE GrabOK'
  <2> DEFINE im == [x \in Cells |-> IF x \in onScreen \cup leftover THEN Own ELSE pixels[x]]
  <2>1. /\ grab' = [at |-> "read", pointer |-> p, moved |-> {}, image |-> im]
        /\ covering' = covering /\ vacated' = vacated
    BY <1>4 DEF Grab, ui
  <2>2. \A c \in Cells :
          /\ im[c] = Own => c \in covering \cup (UNION vacated)
          /\ im[c] # Fill
    <3>1. \A c \in Cells : pixels[c] \in Texts
      BY DEF ReadingInv, ScreenOK
    <3>2. Own \notin Texts /\ Fill \notin Texts /\ Own # Fill
      BY ReadingAssumption DEF Own, Fill
    <3> QED BY <3>1, <3>2 DEF ReadingInv, ScreenOK
  <2>3. im = [c \in Cells |-> im[c]]
    OBVIOUS
  <2> HIDE DEF im
  <2>4. grab'.at = "read" /\ grab'.image = im /\ grab'.pointer = p /\ grab'.moved = {}
    BY <2>1
  <2> QED BY <2>1, <2>2, <2>3, <2>4 DEF GrabOK
<1>5. ASSUME Mask PROVE GrabOK'
  <2>a. PICK im : im = [x \in Cells |-> IF x \in covering THEN Fill ELSE grab.image[x]]
    OBVIOUS
  <2>1. /\ grab.at = "read" /\ grab' = [grab EXCEPT !.at = "masked", !.image = im]
        /\ covering' = covering /\ vacated' = vacated
    <3>1. grab' = [grab EXCEPT !.at = "masked",
                     !.image = [x \in Cells |-> IF x \in covering THEN Fill
                                                ELSE grab.image[x]]]
      BY <1>5 DEF Mask
    <3>2. grab' = [grab EXCEPT !.at = "masked", !.image = im]
      BY ONLY <3>1, <2>a
    <3> QED BY <3>2, <1>5 DEF Mask, ui
  <2>2. \A c \in Cells :
          /\ im[c] = Own => c \in covering \cup (UNION vacated) \cup grab.moved
          /\ im[c] = Fill => c \in covering
    BY <2>1, <2>a DEF ReadingInv, GrabOK, Own, Fill
  <2>3. im = [c \in Cells |-> im[c]]
    BY <2>a
  <2>4. grab = [at |-> grab.at, pointer |-> grab.pointer, moved |-> grab.moved,
                image |-> grab.image]
    BY <2>1 DEF ReadingInv, GrabOK, NoGrab
  <2>5. grab' = [at |-> "masked", pointer |-> grab.pointer, moved |-> grab.moved, image |-> im]
    BY <2>1, <2>4
  <2>6. /\ grab'.at = "masked" /\ grab'.image = im /\ grab'.pointer = grab.pointer
        /\ grab'.moved = grab.moved
    BY <2>5
  <2>7. grab' = [at |-> grab'.at, pointer |-> grab'.pointer, moved |-> grab'.moved,
                 image |-> grab'.image]
    BY <2>5, <2>6
  <2>8. grab'.image = [c \in Cells |-> grab'.image[c]]
    BY <2>3, <2>6
  <2>9. \A c \in Cells :
          /\ grab'.image[c] = Own => c \in covering' \cup (UNION vacated') \cup grab'.moved
          /\ grab'.image[c] = Fill => c \in covering' \cup grab'.moved
    BY <2>1, <2>2, <2>6
  <2> QED BY <2>6, <2>7, <2>8, <2>9 DEF GrabOK
<1>6. ASSUME Cover PROVE GrabOK'
  <2>1. /\ grab.at = "masked"
        /\ grab' = [at |-> "covered", pointer |-> grab.pointer, image |-> grab.image,
                    all |-> covering \cup (UNION vacated), blank |-> covering,
                    doubt |-> grab.moved \cup (UNION vacated), moved |-> {}]
    BY <1>6 DEF Cover
  <2>2. /\ grab'.at = "covered" /\ grab'.pointer = grab.pointer /\ grab'.image = grab.image
        /\ grab'.all = covering \cup (UNION vacated) /\ grab'.blank = covering
        /\ grab'.doubt = grab.moved \cup (UNION vacated) /\ grab'.moved = {}
    BY <2>1
  <2>3. \A c \in Cells : grab.image[c] \in Ours =>
          c \in covering \cup grab.moved \cup (UNION vacated)
    BY <2>1 DEF ReadingInv, GrabOK, Ours
  <2> QED BY <2>1, <2>2, <2>3 DEF GrabOK
<1> QED BY <1>1, <1>2, <1>3, <1>4, <1>5, <1>6 DEF ReadingInv

\* What is answered is what was read, and what was read of the popup's was cut, or is in doubt.
LEMMA AnswerStep ==
  ASSUME ReadingInv, Answer
  PROVE  ReadingInv'
<1>1. /\ grab.at = "covered" /\ grab' = NoGrab
      /\ UNCHANGED <<covering, vacated, pixels, onScreen, leftover>>
  <2>1. grab.at = "covered" /\ grab' = NoGrab /\ UNCHANGED <<ui, sees, captures>>
    BY Zenon DEF Answer
  <2> QED BY <2>1 DEF ui, sees
<1>2. GrabOK' /\ ScreenOK'
  BY <1>1 DEF GrabOK, NoGrab, ReadingInv, ScreenOK
<1>3. PICK ready : ready = Ready(grab)
  OBVIOUS
<1>4. PICK r : r = ready.all[ready.at]
  OBVIOUS
<1>5. /\ ready.at \in DOMAIN ready.all
      /\ \E S : ready.all \in Seq(S) /\ \A q \in S : RegionOK(q)
      /\ RegionOK(r) /\ StillCut(r, grab)
  BY <1>3, <1>4, ReadyOK DEF ReadingInv
<1>6. PICK under : under = {b \in DOMAIN r.lines : grab.pointer \in b}
  OBVIOUS
<1>7. \/ regions' = ready.all /\ answer' = NoAnswer
      \/ \E more \in SUBSET (DOMAIN r.lines \ under) :
           /\ regions' = [ready.all EXCEPT ![ready.at] = Recognised(r, under \cup more, grab)]
           /\ answer' = Reply(Recognised(r, under \cup more, grab), under \cup more, grab)
  <2>1. AnswersFrom(r, ready.at, ready.all)
    BY <1>3, <1>4, Zenon DEF Answer
  <2> QED BY <2>1, <1>6, Zenon DEF AnswersFrom
<1>8. CASE regions' = ready.all /\ answer' = NoAnswer
  <2>1. RegionsOK'
    BY <1>5, <1>8 DEF RegionsOK
  <2>2. answer'.text = <<>>
    BY <1>8 DEF NoAnswer
  <2>3. HiddenIsReadAgain'
    BY <2>2 DEF HiddenIsReadAgain
  <2> QED BY <1>2, <2>1, <2>3 DEF ReadingInv
<1>9. ASSUME NEW more \in SUBSET (DOMAIN r.lines \ under), NEW used, used = under \cup more,
             NEW read, read = Recognised(r, used, grab),
             regions' = [ready.all EXCEPT ![ready.at] = read],
             answer' = Reply(read, used, grab)
      PROVE  ReadingInv'
  <2>1. used \in SUBSET DOMAIN r.lines
    BY <1>6, <1>9
  <2>2. /\ \A c \in Cells : grab.image[c] \in Ours => c \in grab.blank \cup grab.doubt
        /\ grab.blank \subseteq grab.all
    BY <1>1 DEF ReadingInv, GrabOK
  <2>3. /\ RegionOK(read) /\ StillCut(read, grab)
        /\ \A b \in used : DOMAIN read.lines[b].text = b
        /\ DOMAIN read.lines = DOMAIN r.lines
    BY <1>5, <1>9, <2>1, <2>2, RecognisedOK
  <2>4. RegionsOK'
    <3>1. PICK S : ready.all \in Seq(S) /\ \A q \in S : RegionOK(q)
      BY <1>5
    <3>2. ready.all \in Seq(S \cup {read})
      BY <3>1
    <3>3. regions' \in Seq(S \cup {read})
      BY <3>2, <1>5, <1>9, ExceptSeq
    <3>4. \A q \in S \cup {read} : RegionOK(q)
      BY <3>1, <2>3
    <3> QED BY <3>3, <3>4 DEF RegionsOK
  <2>5. ASSUME NEW c \in DOMAIN answer'.text \ (answer'.covered \cup answer'.doubt)
        PROVE  answer'.text[c] \notin Ours
    <3>a. PICK line : line = [y \in UNION used |-> read.lines[CHOOSE z \in used : y \in z]]
      OBVIOUS
    <3>b. answer' = [text    |-> [y \in UNION used |-> line[y].text[y]],
                     covered |-> grab.all,
                     doubt   |-> {y \in UNION used : y \in line[y].doubt}]
      BY <1>9, <3>a DEF Reply
    <3>1. /\ answer'.text = [y \in UNION used |-> line[y].text[y]]
          /\ answer'.covered = grab.all
          /\ answer'.doubt = {y \in UNION used : y \in line[y].doubt}
      BY ONLY <3>b
    <3>2. c \in UNION used /\ c \notin grab.all /\ c \notin line[c].doubt
      BY <3>1, <2>5
    <3>3. PICK b : b = CHOOSE z \in used : c \in z
      OBVIOUS
    <3>4. b \in used /\ c \in b
      BY <3>2, <3>3
    <3>5. line[c] = read.lines[b]
      BY <3>2, <3>3, <3>a
    <3>6. answer'.text[c] = read.lines[b].text[c]
      BY <3>1, <3>2, <3>5
    <3>7. c \notin grab.all /\ c \notin read.lines[b].doubt
      BY <3>2, <3>5
    <3>8. b \in DOMAIN read.lines /\ DOMAIN read.lines[b].text = b
      BY <3>4, <2>1, <2>3
    <3>9. ~\E x \in read.cut : c \in x.part
      BY <2>2, <2>3, <3>7 DEF StillCut
    <3> QED BY <2>3, <3>4, <3>6, <3>7, <3>8, <3>9 DEF RegionOK
  <2>6. HiddenIsReadAgain'
    BY <2>5 DEF HiddenIsReadAgain, Ours
  <2> QED BY <1>2, <2>4, <2>6 DEF ReadingInv
<1>10. ASSUME NEW more \in SUBSET (DOMAIN r.lines \ under),
              regions' = [ready.all EXCEPT ![ready.at] = Recognised(r, under \cup more, grab)],
              answer' = Reply(Recognised(r, under \cup more, grab), under \cup more, grab)
       PROVE  ReadingInv'
  <2>1. PICK used : used = under \cup more
    OBVIOUS
  <2>2. PICK read : read = Recognised(r, used, grab)
    OBVIOUS
  <2>3. regions' = [ready.all EXCEPT ![ready.at] = read] /\ answer' = Reply(read, used, grab)
    BY <1>10, <2>1, <2>2
  <2> QED BY <2>1, <2>2, <2>3, <1>9, Zenon
<1> QED BY <1>7, <1>8, <1>10, Zenon

\* A region that ages keeps the invariant.
LEMMA AgeStep ==
  ASSUME ReadingInv, NEW i \in DOMAIN regions, Age(i)
  PROVE  ReadingInv'
<1>1. /\ regions' = [regions EXCEPT ![i].fresh = FALSE]
      /\ UNCHANGED <<covering, vacated, pixels, onScreen, leftover, grab, answer>>
  BY DEF Age, ui, sees
<1>2. GrabOK' /\ ScreenOK' /\ HiddenIsReadAgain'
  BY <1>1 DEF ReadingInv, GrabOK, ScreenOK, HiddenIsReadAgain
<1>3. PICK S : regions \in Seq(S) /\ \A r \in S : RegionOK(r)
  BY DEF ReadingInv, RegionsOK
<1>4. PICK q : q = [regions[i] EXCEPT !.fresh = FALSE]
  OBVIOUS
<1>5. RegionOK(q)
  <2>1. PICK r : r = regions[i]
    OBVIOUS
  <2>2. RegionOK(r)
    BY <2>1, <1>3
  <2>3. q = [r EXCEPT !.fresh = FALSE]
    BY <2>1, <1>4
  <2>4. r = [hash |-> r.hash, pixels |-> r.pixels, hidden |-> r.hidden, blank |-> r.blank,
             lines |-> r.lines, cut |-> r.cut, fresh |-> r.fresh]
    BY <2>2 DEF RegionOK
  <2>5. /\ q = [hash |-> q.hash, pixels |-> q.pixels, hidden |-> q.hidden, blank |-> q.blank,
                lines |-> q.lines, cut |-> q.cut, fresh |-> q.fresh]
        /\ q.lines = r.lines /\ q.cut = r.cut
    BY ONLY <2>3, <2>4
  <2> QED BY <2>2, <2>5 DEF RegionOK
<1>6. regions' = [regions EXCEPT ![i] = q]
  BY <1>1, <1>4
<1>7. regions' \in Seq(S \cup {q})
  <2>1. regions \in Seq(S \cup {q})
    BY <1>3
  <2> QED BY <2>1, <1>6, ExceptSeq
<1>8. RegionsOK'
  <2>1. \A r \in S \cup {q} : RegionOK(r)
    BY <1>3, <1>5
  <2> QED BY <1>7, <2>1 DEF RegionsOK
<1> QED BY <1>2, <1>8 DEF ReadingInv

\* and after every step.
LEMMA ReadingInvStep == ReadingInv /\ [ReadingNext]_svars => ReadingInv'
<1> SUFFICES ASSUME ReadingInv, [ReadingNext]_svars PROVE ReadingInv'
  OBVIOUS
<1>1. CASE UNCHANGED svars
  BY <1>1 DEF svars, ui, sees, reads, ReadingInv, GrabOK, ScreenOK, RegionsOK, HiddenIsReadAgain
<1>2. CASE ReadingNext
  BY <1>2, ScreenSteps, CaptureSteps, AnswerStep, AgeStep DEF ReadingNext
<1> QED BY <1>1, <1>2

\* Of what a capture answers, no cell that shows is what was painted over the popup, or the
\* popup's own, but where it left a moment before or moved meanwhile: what the popup hid when a line
\* was read is noted, and read again by the first capture that finds it uncovered.
THEOREM HiddenComesBack == ReadingSpec => []HiddenIsReadAgain
<1>1. ReadingInv => HiddenIsReadAgain
  BY DEF ReadingInv
<1> QED BY <1>1, ReadingInvInit, ReadingInvStep, PTL DEF ReadingSpec
=============================================================================
