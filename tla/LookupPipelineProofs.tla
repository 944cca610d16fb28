------------------------ MODULE LookupPipelineProofs ------------------------
(***************************************************************************)
(* Theorems about LookupPipeline for every value of its constants: what is *)
(* on screen was asked for since popups were last closed, the pipeline     *)
(* implements PopupPromise, a popup only ever shows the translation of its *)
(* own text, turns of the wheel are kept for the popup on its way only,    *)
(* nothing is looked up once scanning was paused, and the popup of the     *)
(* latest lookup is the one that stays on screen.                          *)
(***************************************************************************)
EXTENDS LookupPipeline, SequenceTheorems, TLAPS

\* Nothing on its way is newer than the latest request.
NothingFromTheFuture ==
  /\ cancelled <= generation
  /\ \A p \in Popups : p.gen <= generation
  /\ captureRequest.gen <= generation /\ capturing.gen <= generation
  /\ client.gen <= generation

\* A job with the latest ticket translates what the popup waiting shows.
TicketsMatch ==
  /\ pending.ticket <= ticket /\ running.ticket <= ticket
  /\ \A job \in {pending, running} :
       job # NoJob /\ job.ticket = ticket /\ translating # NoPopup
         => job.of = Source(translating)

-----------------------------------------------------------------------------
(* The values passed around have their types.                              *)

LEMMA EmptyValues ==
  /\ NoPopup \in Popup /\ NoRequest \in Request /\ Aside \in Request
  /\ NoJob \in Job /\ NoTask \in Task
  /\ NoPopup.gen = 0 /\ NoRequest.gen = 0 /\ Aside.gen = 0 /\ NoJob.ticket = 0
  /\ NoTask.popup = NoPopup /\ Key(NoPopup) = NoKey
<1>1. 0 \in Lengths /\ Nothing \in AnyText
  BY PipelineAssumption DEF Lengths, AnyText
<1>2. NoPopup \in Popup /\ NoPopup.gen = 0
  BY <1>1 DEF NoPopup, Popup
<1>3. NoRequest \in Request /\ NoRequest.gen = 0
  BY <1>1 DEF NoRequest, Request
<1>4. Aside \in Request /\ Aside.gen = 0
  BY <1>1 DEF Aside, NoRequest, Request
<1>5. NoJob \in Job /\ NoJob.ticket = 0
  BY DEF NoJob, Job
<1>6. NoTask \in Task /\ NoTask.popup = NoPopup
  BY <1>2 DEF NoTask, Task
<1>7. Key(NoPopup) = NoKey
  BY DEF Key, NoPopup
<1> QED BY <1>2, <1>3, <1>4, <1>5, <1>6, <1>7

LEMMA Fields ==
  /\ \A p \in Popup : p.gen \in Nat /\ p.length \in Lengths /\ p.text \in AnyText
  /\ \A r \in Request : r.gen \in Nat /\ r.length \in Lengths /\ r.text \in AnyText
  /\ \A t \in Task : t.popup \in Popup /\ t.gen \in Nat /\ t.flag \in BOOLEAN
BY DEF Popup, Request, Task

LEMMA TextsRead == \A t \in Texts : t \in AnyText /\ t # Nothing
BY PipelineAssumption DEF AnyText

LEMMA KeyType ==
  ASSUME NEW p \in Popup
  PROVE  Key(p) \in Keys \cup {NoKey}
BY DEF Key, Keys, Popup

LEMMA SourceType ==
  ASSUME NEW p \in Popup
  PROVE  Source(p) \in Sources
BY DEF Source, Sources, Popup

LEMMA MarkedType ==
  ASSUME NEW p \in Popup
  PROVE  /\ [p EXCEPT !.marked = TRUE] \in Popup
         /\ [p EXCEPT !.marked = TRUE].gen = p.gen
BY DEF Popup

LEMMA TranslatedType ==
  ASSUME NEW p \in Popup, NEW job \in Job
  PROVE  LET q == [p EXCEPT !.tr = "done", !.trOf = job.of]
         IN  q \in Popup /\ q.gen = p.gen /\ Source(q) = Source(p) /\ q.trOf = job.of
BY DEF Popup, Job, Source

LEMMA TaskTypes ==
  /\ \A p \in Popup, whole \in BOOLEAN :
       ShowTask(p, whole) \in Task /\ ShowTask(p, whole).popup = p
  /\ \A kind \in {"pointer", "nothing", "dismiss", "configure", "added"}, g \in Nat, flag \in BOOLEAN :
       PlainTask(kind, g, flag) \in Task /\ PlainTask(kind, g, flag).popup = NoPopup
BY EmptyValues DEF ShowTask, PlainTask, Task, Popup

LEMMA FoundType ==
  ASSUME NEW r \in Request, NEW t \in AnyText, NEW known \in BOOLEAN
  PROVE  LET p == FoundPopup(r, t, known)
         IN  p \in Popup /\ p.gen = r.gen /\ (p.tr # "none" => p.trOf = Source(p))
BY DEF FoundPopup, Popup, Request, Sources, Source

LEMMA LengthType ==
  ASSUME forcedLength \in Lengths, NEW delta \in Int, NEW p
  PROVE  AdjustedLength(p, delta) \in Lengths
BY PipelineAssumption DEF AdjustedLength, Lengths, Matched

LEMMA RequestTypes ==
  ASSUME generation \in Nat
  PROVE  /\ \A len \in Lengths, sentence \in BOOLEAN :
              LET r == [NoRequest EXCEPT !.gen = generation + 1, !.length = len, !.sentence = sentence]
              IN  r \in Request /\ r.gen = generation + 1
         /\ \A len \in Lengths :
              LET r == [NoRequest EXCEPT !.gen = generation + 1, !.length = len]
              IN  r \in Request /\ r.gen = generation + 1
         /\ \A t \in Texts :
              LET r == [NoRequest EXCEPT !.gen = generation + 1, !.text = t]
              IN  r \in Request /\ r.gen = generation + 1
<1>1. 0 \in Lengths /\ Nothing \in AnyText /\ Texts \subseteq AnyText
  BY PipelineAssumption DEF Lengths, AnyText
<1>2. generation + 1 \in Nat
  OBVIOUS
<1>3. ASSUME NEW len \in Lengths, NEW sentence \in BOOLEAN
      PROVE  /\ [NoRequest EXCEPT !.gen = generation + 1, !.length = len, !.sentence = sentence] \in Request
             /\ [NoRequest EXCEPT !.gen = generation + 1, !.length = len] \in Request
  BY <1>1, <1>2 DEF NoRequest, Request
<1>4. ASSUME NEW t \in Texts
      PROVE  [NoRequest EXCEPT !.gen = generation + 1, !.text = t] \in Request
  BY <1>1, <1>2 DEF NoRequest, Request
<1>5. ASSUME NEW len, NEW sentence
      PROVE  /\ [NoRequest EXCEPT !.gen = generation + 1, !.length = len,
                                  !.sentence = sentence].gen = generation + 1
             /\ [NoRequest EXCEPT !.gen = generation + 1, !.length = len].gen = generation + 1
             /\ [NoRequest EXCEPT !.gen = generation + 1, !.text = len].gen = generation + 1
  BY DEF NoRequest
<1> QED BY <1>3, <1>4, <1>5

LEMMA Dismissed ==
  ASSUME NEW upTo \in Nat, Dismiss(upTo)
  PROVE  /\ visible' \in BOOLEAN /\ current' \in Popup
         /\ shownKey' \in Keys \cup {NoKey} /\ cancelled' \in Nat
<1>1. visible' \in BOOLEAN
  BY DEF Dismiss
<1>2. current' \in Popup /\ shownKey' \in Keys \cup {NoKey} /\ cancelled' \in Nat
  BY EmptyValues DEF Dismiss
<1> QED BY <1>1, <1>2

LEMMA Lengthened ==
  ASSUME generation \in Nat, forcedLength \in Lengths,
         NEW p \in Popup, NEW delta \in Int, Lengthen(p, delta)
  PROVE  /\ generation' = generation + 1 /\ generation' \in Nat /\ forcedLength' \in Lengths
         /\ captureRequest' \in Request /\ captureRequest'.gen = generation'
<1>1. AdjustedLength(p, delta) \in Lengths /\ p.keeps \in BOOLEAN
  BY LengthType DEF Popup
<1>2. generation' = generation + 1 /\ generation' \in Nat /\ forcedLength' \in Lengths
  BY <1>1 DEF Lengthen, NewRequest
<1>3. captureRequest' \in Request /\ captureRequest'.gen = generation + 1
  BY <1>1, RequestTypes DEF Lengthen
<1> QED BY <1>2, <1>3

LEMMA ClientPopupType ==
  ASSUME NEW g \in Nat
  PROVE  [NoPopup EXCEPT !.gen = g] \in Popup /\ [NoPopup EXCEPT !.gen = g].gen = g
<1>1. 0 \in Lengths
  BY PipelineAssumption DEF Lengths
<1> QED BY <1>1 DEF NoPopup, Popup, AnyText

LEMMA Ends ==
  ASSUME tasks \in Seq(Task), tasks # <<>>
  PROVE  /\ Head(tasks) \in Task /\ Tail(tasks) \in Seq(Task)
         /\ 1 \in DOMAIN tasks /\ Head(tasks) = tasks[1]
         /\ \A i \in DOMAIN Tail(tasks) : \E j \in DOMAIN tasks : Tail(tasks)[i] = tasks[j]
<1>1. Head(tasks) \in Task /\ Tail(tasks) \in Seq(Task)
  BY HeadTailProperties
<1>2. 1 \in DOMAIN tasks /\ Head(tasks) = tasks[1]
  BY HeadTailProperties, EmptySeq
<1>3. ASSUME NEW i \in DOMAIN Tail(tasks)
      PROVE  \E j \in DOMAIN tasks : Tail(tasks)[i] = tasks[j]
  <2>1. i \in 1 .. Len(Tail(tasks)) /\ Len(Tail(tasks)) = Len(tasks) - 1 /\ Len(tasks) \in Nat
    BY <1>1, <1>3, HeadTailProperties
  <2>2. i + 1 \in DOMAIN tasks /\ Tail(tasks)[i] = tasks[i + 1]
    BY <2>1, HeadTailProperties
  <2> QED BY <2>2
<1> QED BY <1>1, <1>2, <1>3

LEMMA Posted ==
  ASSUME tasks \in Seq(Task), NEW task \in Task, Post(task)
  PROVE  /\ tasks' \in Seq(Task)
         /\ \A i \in DOMAIN tasks' : tasks'[i] = task \/ \E j \in DOMAIN tasks : tasks'[i] = tasks[j]
<1>1. tasks' \in Seq(Task) /\ Len(tasks') = Len(tasks) + 1 /\ Len(tasks) \in Nat
  BY AppendProperties DEF Post
<1>2. ASSUME NEW i \in DOMAIN tasks'
      PROVE  tasks'[i] = task \/ \E j \in DOMAIN tasks : tasks'[i] = tasks[j]
  <2>1. i \in 1 .. Len(tasks) + 1
    BY <1>1, <1>2
  <2>2. CASE i = Len(tasks) + 1
    BY <2>2, AppendProperties DEF Post
  <2>3. CASE i # Len(tasks) + 1
    BY <1>1, <2>1, <2>3, AppendProperties DEF Post
  <2> QED BY <2>2, <2>3
<1> QED BY <1>1, <1>2

-----------------------------------------------------------------------------
(* Type correctness.                                                       *)

LEMMA TypeInit == Init => TypeOK
<1> SUFFICES ASSUME Init PROVE TypeOK
  OBVIOUS
<1>1. 0 \in Lengths /\ Nothing \in AnyText /\ <<>> \in Seq(Task)
  BY PipelineAssumption, EmptySeq DEF Lengths, AnyText
<1>2. checks \subseteq [popup : Popup, step : {"queued", "asked", "marking"}] /\ adding \subseteq Nat
  BY DEF Init
<1>3. /\ client \in [step : {"idle", "asking", "answered", "numbered", "reloading"}, gen : Nat]
      /\ answer \in [gen : Nat, key : Keys \cup {NoKey},
                     how : {"none", "nothing", "shown", "coming", "posted"}]
  BY DEF Init
<1>4. paused \in BOOLEAN /\ visible \in BOOLEAN /\ translationOff \in BOOLEAN /\ completing \in BOOLEAN
  BY DEF Init
<1>5. /\ generation \in Nat /\ cancelled \in Nat
  /\ shownKey \in Keys \cup {NoKey} /\ latestKey \in Keys \cup {NoKey}
  /\ captureRequest \in Request /\ renderRequest \in Popup
  /\ tasks \in Seq(Task)
  BY <1>1, EmptyValues DEF Init
<1>6. /\ current \in Popup /\ showing \in Task
  /\ forcedLength \in Lengths /\ pendingWheel \in Int
  /\ capturing \in Request /\ found \in Popup /\ lastText \in AnyText
  BY <1>1, EmptyValues DEF Init
<1>7. /\ postedKey \in Keys \cup {NoKey} /\ postedGen \in Nat
  /\ drawing \in Popup /\ rest \in Popup
  /\ translating \in Popup /\ ticket \in Nat /\ pending \in Job /\ running \in Job
  BY <1>1, EmptyValues DEF Init
<1> QED BY <1>2, <1>3, <1>4, <1>5, <1>6, <1>7 DEF TypeOK

LEMMA Scanned ==
  ASSUME TypeOK, Scan
  PROVE  /\ generation' = generation + 1 /\ generation' \in Nat
         /\ translationOff' \in BOOLEAN /\ translating' \in {translating, NoPopup}
         /\ forcedLength' \in Lengths
         /\ captureRequest' \in Request /\ captureRequest'.gen = generation'
<1>1. generation' = generation + 1 /\ generation' \in Nat
  BY DEF TypeOK, Scan, NewRequest
<1> PICK sentence \in BOOLEAN, pressed \in BOOLEAN, over \in BOOLEAN :
      IF over /\ current.keeps
      THEN /\ translationOff' = TRUE
           /\ translating' = NoPopup
           /\ captureRequest' = [NoRequest EXCEPT !.gen = generation + 1, !.length = forcedLength]
           /\ UNCHANGED forcedLength
      ELSE /\ translationOff' = (translationOff /\ ~pressed)
           /\ LET translate == sentence /\ ~translationOff'
                  again     == over /\ translate /\ forcedLength > 0
              IN /\ forcedLength' = IF again THEN forcedLength ELSE 0
                 /\ captureRequest' = [NoRequest EXCEPT !.gen = generation + 1,
                                                        !.length = forcedLength',
                                                        !.sentence = translate]
           /\ UNCHANGED translating
  BY DEF Scan
<1>2. CASE over /\ current.keeps
  BY <1>1, <1>2, RequestTypes DEF TypeOK
<1>3. CASE ~(over /\ current.keeps)
  <2>1. translationOff' \in BOOLEAN /\ translating' \in {translating, NoPopup}
    BY <1>3 DEF TypeOK
  <2>2. 0 \in Lengths
    BY PipelineAssumption DEF Lengths
  <2>3. forcedLength' \in Lengths
    BY <1>3, <2>2 DEF TypeOK
  <2>4. PICK translate \in BOOLEAN : translate = (sentence /\ ~translationOff')
    OBVIOUS
  <2>5. captureRequest' = [NoRequest EXCEPT !.gen = generation + 1, !.length = forcedLength',
                                            !.sentence = translate]
    BY <1>3, <2>4
  <2>6. translate \in BOOLEAN
    BY <2>4
  <2>7. captureRequest' \in Request /\ captureRequest'.gen = generation'
    BY <1>1, <2>3, <2>5, <2>6, RequestTypes DEF TypeOK
  <2> QED BY <1>1, <2>1, <2>3, <2>7
<1> QED BY <1>1, <1>2, <1>3

LEMMA TypeStep == TypeOK /\ [Next]_vars => TypeOK'
<1> SUFFICES ASSUME TypeOK, [Next]_vars PROVE TypeOK'
  OBVIOUS
<1> USE EmptyValues
<1>1. CASE Scan
  <2>1. /\ generation' \in Nat /\ translationOff' \in BOOLEAN /\ forcedLength' \in Lengths
        /\ captureRequest' \in Request
    BY <1>1, Scanned
  <2>2. translating' \in Popup
    BY <1>1, Scanned DEF TypeOK
  <2> QED BY <1>1, <2>1, <2>2 DEF TypeOK, Scan,
         shared, screen, wheel, uiOwn, captureOwn, renderOwn, service, translation, workers
<1>2. CASE Selection
  <2>1. generation' \in Nat
    BY <1>2 DEF TypeOK, Selection, NewRequest
  <2>2. captureRequest' \in Request
    BY <1>2, RequestTypes DEF TypeOK, Selection
  <2> QED BY <1>2, <2>1, <2>2 DEF TypeOK, Selection,
         shared, screen, wheel, uiOwn, captureOwn, renderOwn, service, translation, workers
<1>3. CASE TriggerReleased
  <2>1. generation' \in Nat
    BY <1>3 DEF TypeOK, TriggerReleased, NewRequest, shared
  <2>2. /\ visible' \in BOOLEAN /\ current' \in Popup
        /\ shownKey' \in Keys \cup {NoKey} /\ cancelled' \in Nat
    <3>1. CASE UNCHANGED <<shared, screen>>
      BY <3>1 DEF TypeOK, shared, screen
    <3>2. CASE Dismiss(generation')
      BY <3>2, <2>1, Dismissed
    <3> QED BY <1>3, <3>1, <3>2 DEF TriggerReleased
  <2>3. latestKey' = latestKey
    BY <1>3 DEF TriggerReleased, shared
  <2>4. translationOff' \in BOOLEAN
    BY <1>3 DEF TriggerReleased
  <2> QED BY <1>3, <2>1, <2>2, <2>3, <2>4 DEF TypeOK, TriggerReleased,
         shared, screen, wheel, uiOwn, captureOwn, renderOwn, service, translation, workers
<1>4. CASE ClickOutside
  <2>1. generation' \in Nat
    BY <1>4 DEF TypeOK, ClickOutside, NewRequest
  <2>2. /\ visible' \in BOOLEAN /\ current' \in Popup
        /\ shownKey' \in Keys \cup {NoKey} /\ cancelled' \in Nat
    BY <1>4, <2>1, Dismissed DEF ClickOutside
  <2> QED BY <1>4, <2>1, <2>2 DEF TypeOK, ClickOutside,
         shared, screen, wheel, uiOwn, captureOwn, renderOwn, service, translation, workers
<1>5. CASE Wheel
  <2>1. PICK delta \in Turns :
          \/ /\ ~visible
             /\ pendingWheel + delta \in -MaxTurns .. MaxTurns
             /\ pendingWheel' = pendingWheel + delta
             /\ UNCHANGED <<forcedLength, captureRequest, generation>>
          \/ /\ visible
             /\ Lengthen(current, delta)
             /\ UNCHANGED pendingWheel
    BY <1>5 DEF Wheel
  <2>2. delta \in Int
    BY PipelineAssumption
  <2>3. /\ generation' \in Nat /\ forcedLength' \in Lengths /\ captureRequest' \in Request
        /\ pendingWheel' \in Int
    <3>1. CASE visible
      BY <2>1, <2>2, <3>1, Lengthened DEF TypeOK
    <3>2. CASE ~visible
      BY <2>1, <2>2, <3>2 DEF TypeOK
    <3> QED BY <3>1, <3>2
  <2> QED BY <1>5, <2>3 DEF TypeOK, Wheel,
         shared, screen, wheel, uiOwn, captureOwn, renderOwn, service, translation, workers
<1>6. CASE AddNote
  <2>1. adding' \subseteq Nat
    BY <1>6, Fields DEF TypeOK, AddNote
  <2> QED BY <1>6, <2>1 DEF TypeOK, AddNote,
         shared, screen, wheel, uiOwn, captureOwn, renderOwn, service, translation, workers
<1>7. CASE ShowBegin
  BY <1>7, Ends
     DEF TypeOK, ShowBegin, NextTask,
         shared, screen, wheel, uiOwn, captureOwn, renderOwn, service, translation, workers
<1>8. CASE ShowEnd
  <2>1. showing.popup \in Popup
    BY Fields DEF TypeOK
  <2>2. generation' \in Nat /\ forcedLength' \in Lengths /\ captureRequest' \in Request
    <3>1. CASE pendingWheel # 0
      BY <1>8, <2>1, <3>1, Lengthened DEF TypeOK, ShowEnd
    <3>2. CASE pendingWheel = 0
      BY <1>8, <3>2 DEF TypeOK, ShowEnd
    <3> QED BY <3>1, <3>2
  <2>3. checks' \subseteq [popup : Popup, step : {"queued", "asked", "marking"}]
    BY <1>8, <2>1 DEF TypeOK, ShowEnd
  <2>4. shownKey' \in Keys \cup {NoKey} /\ current' \in Popup /\ pendingWheel' \in Int
    BY <1>8, <2>1, KeyType DEF ShowEnd
  <2>5. visible' \in BOOLEAN
    BY <1>8 DEF ShowEnd
  <2> QED BY <1>8, <2>2, <2>3, <2>4, <2>5 DEF TypeOK, ShowEnd,
         shared, screen, wheel, uiOwn, captureOwn, renderOwn, service, translation, workers
<1>9. CASE RunNothing
  <2>1. tasks' \in Seq(Task)
    BY <1>9, Ends DEF TypeOK, RunNothing, NextTask
  <2>2. /\ generation' \in Nat /\ latestKey' \in Keys \cup {NoKey} /\ pendingWheel' \in Int
    BY <1>9 DEF TypeOK, RunNothing, shared
  <2>3. /\ visible' \in BOOLEAN /\ current' \in Popup
        /\ shownKey' \in Keys \cup {NoKey} /\ cancelled' \in Nat
    <3>1. CASE UNCHANGED <<shared, screen>>
      BY <3>1 DEF TypeOK, shared, screen
    <3>2. CASE Dismiss(generation)
      BY <3>2, Dismissed DEF TypeOK
    <3> QED BY <1>9, <3>1, <3>2 DEF RunNothing
  <2> QED BY <1>9, <2>1, <2>2, <2>3 DEF TypeOK, RunNothing,
         shared, screen, wheel, uiOwn, captureOwn, renderOwn, service, translation, workers
<1>10. CASE RunDismissal
  <2>1. tasks' \in Seq(Task)
    BY <1>10, Ends DEF TypeOK, RunDismissal
  <2>2. /\ generation' \in Nat /\ latestKey' \in Keys \cup {NoKey}
    BY <1>10 DEF TypeOK, RunDismissal, shared
  <2>3. /\ visible' \in BOOLEAN /\ current' \in Popup
        /\ shownKey' \in Keys \cup {NoKey} /\ cancelled' \in Nat
    <3>1. CASE UNCHANGED <<shared, screen>>
      BY <3>1 DEF TypeOK, shared, screen
    <3>2. CASE Dismiss(generation)
      BY <3>2, Dismissed DEF TypeOK
    <3> QED BY <1>10, <3>1, <3>2 DEF RunDismissal
  <2> QED BY <1>10, <2>1, <2>2, <2>3 DEF TypeOK, RunDismissal,
         shared, screen, wheel, uiOwn, captureOwn, renderOwn, service, translation, workers
<1>11. CASE RunNoteAdded
  BY <1>11, Ends, MarkedType
     DEF TypeOK, RunNoteAdded, NextTask,
         shared, screen, wheel, uiOwn, captureOwn, renderOwn, service, translation, workers
<1>12. CASE RunPointer
  BY <1>12, Ends
     DEF TypeOK, RunPointer, NextTask,
         shared, screen, wheel, uiOwn, captureOwn, renderOwn, service, translation, workers
<1>13. CASE CaptureTake
  BY <1>13
     DEF TypeOK, CaptureTake, Refreshed, AnyText,
         shared, screen, wheel, uiOwn, captureOwn, renderOwn, service, translation, workers
<1>14. CASE CaptureFinds
  <2>1. PICK t \in Readings(capturing), known \in BOOLEAN :
          LET p == FoundPopup(capturing, t, known) IN
          /\ lastText' = IF FromScreen(capturing) THEN t ELSE lastText
          /\ latestKey' = Key(p)
          /\ IF Suppressed(Key(p))
             THEN /\ capturing' = NoRequest
                  /\ answer' = [gen |-> p.gen, key |-> Key(p),
                                how |-> IF Key(p) = shownKey THEN "shown" ELSE "coming"]
                  /\ UNCHANGED <<found, postedKey, postedGen>>
             ELSE /\ found' = p
                  /\ postedKey' = Key(p) /\ postedGen' = p.gen
                  /\ UNCHANGED <<capturing, answer>>
    BY <1>14 DEF CaptureFinds
  <2> DEFINE p == FoundPopup(capturing, t, known)
  <2>2. t \in AnyText
    BY <2>1 DEF Readings, TypeOK, AnyText, Request
  <2>3. p \in Popup /\ Key(p) \in Keys \cup {NoKey} /\ p.gen \in Nat
    BY <2>1, <2>2, FoundType, KeyType, Fields DEF TypeOK
  <2> HIDE DEF p
  <2>4. lastText' \in AnyText /\ latestKey' \in Keys \cup {NoKey}
    BY <2>1, <2>2, <2>3 DEF p, TypeOK
  <2>5. /\ capturing' \in Request /\ found' \in Popup
        /\ postedKey' \in Keys \cup {NoKey} /\ postedGen' \in Nat
    BY <2>1, <2>3 DEF p, TypeOK
  <2>6. answer' \in [gen : Nat, key : Keys \cup {NoKey},
                     how : {"none", "nothing", "shown", "coming", "posted"}]
    BY <2>1, <2>3 DEF p, TypeOK
  <2> QED BY <1>14, <2>4, <2>5, <2>6 DEF TypeOK, CaptureFinds,
         shared, screen, wheel, uiOwn, captureOwn, renderOwn, service, translation, workers
<1>15. CASE CaptureFindsNothing
  <2>1. PICK task \in Task : Post(task)
    BY <1>15, TaskTypes, Fields, PipelineAssumption DEF TypeOK, CaptureFindsNothing
  <2>2. tasks' \in Seq(Task)
    BY <2>1, Posted DEF TypeOK
  <2> QED BY <1>15, <2>2, Fields DEF TypeOK, CaptureFindsNothing, AnyText, 
         shared, screen, wheel, uiOwn, captureOwn, renderOwn, service, translation, workers
<1>16. CASE CapturePosts
  BY <1>16, KeyType, SourceType
     DEF TypeOK, CapturePosts, Popup, Job,
         shared, screen, wheel, uiOwn, captureOwn, renderOwn, service, translation, workers
<1>17. CASE RenderTake
  <2>1. drawing' \in Popup /\ renderRequest' \in Popup /\ rest' \in Popup
    BY <1>17 DEF TypeOK, RenderTake
  <2>2. completing' \in BOOLEAN
    BY <1>17 DEF RenderTake
  <2> QED BY <1>17, <2>1, <2>2 DEF TypeOK, RenderTake,
         shared, screen, wheel, uiOwn, captureOwn, renderOwn, service, translation, workers
<1>18. CASE RenderRest
  BY <1>18
     DEF TypeOK, RenderRest,
         shared, screen, wheel, uiOwn, captureOwn, renderOwn, service, translation, workers
<1>19. CASE RenderPost
  <2>1. PICK task \in Task : Post(task)
    BY <1>19, TaskTypes, Fields DEF TypeOK, RenderPost
  <2>2. tasks' \in Seq(Task)
    BY <2>1, Posted DEF TypeOK
  <2>3. completing' \in BOOLEAN
    BY <1>19 DEF RenderPost
  <2>4. drawing' \in Popup /\ rest' \in Popup
    BY <1>19 DEF TypeOK, RenderPost
  <2> QED BY <1>19, <2>2, <2>3, <2>4 DEF TypeOK, RenderPost,
         shared, screen, wheel, uiOwn, captureOwn, renderOwn, service, translation, workers
<1>20. CASE TranslatorTake
  BY <1>20
     DEF TypeOK, TranslatorTake,
         shared, screen, wheel, uiOwn, captureOwn, renderOwn, service, translation, workers
<1>21. CASE TranslationDone
  <2>1. [translating EXCEPT !.tr = "done", !.trOf = running.of] \in Popup
    BY TranslatedType DEF TypeOK
  <2>2. translating' \in Popup /\ renderRequest' \in Popup
    BY <1>21, <2>1 DEF TypeOK, TranslationDone
  <2>3. running' \in Job
    BY <1>21 DEF TranslationDone
  <2> QED BY <1>21, <2>2, <2>3 DEF TypeOK, TranslationDone,
         shared, screen, wheel, uiOwn, captureOwn, renderOwn, service, translation, workers
<1>22. CASE \E c \in checks : NotesAsk(c)
  BY <1>22
     DEF TypeOK, NotesAsk,
         shared, screen, wheel, uiOwn, captureOwn, renderOwn, service, translation, workers
<1>23. CASE \E c \in checks : NotesAnswered(c)
  BY <1>23
     DEF TypeOK, NotesAnswered,
         shared, screen, wheel, uiOwn, captureOwn, renderOwn, service, translation, workers
<1>24. CASE \E c \in checks : NotesPost(c)
  BY <1>24, MarkedType
     DEF TypeOK, NotesPost,
         shared, screen, wheel, uiOwn, captureOwn, renderOwn, service, translation, workers
<1>25. CASE \E g \in adding : NoteAdded(g)
  <2>1. PICK task \in Task : Post(task)
    BY <1>25, TaskTypes, Fields DEF TypeOK, NoteAdded
  <2>2. tasks' \in Seq(Task)
    BY <2>1, Posted DEF TypeOK
  <2>3. adding' \subseteq Nat
    BY <1>25 DEF TypeOK, NoteAdded
  <2> QED BY <1>25, <2>2, <2>3 DEF TypeOK, NoteAdded,
         shared, screen, wheel, uiOwn, captureOwn, renderOwn, service, translation, workers
<1>26. CASE ClientShow
  <2>1. PICK task \in Task : Post(task)
    BY <1>26, TaskTypes, Fields DEF TypeOK, ClientShow
  <2>2. tasks' \in Seq(Task)
    BY <2>1, Posted DEF TypeOK
  <2>3. client' \in [step : {"idle", "asking", "answered", "numbered", "reloading"}, gen : Nat]
    BY <1>26 DEF TypeOK, ClientShow
  <2> QED BY <1>26, <2>2, <2>3 DEF TypeOK, ClientShow,
         shared, screen, wheel, uiOwn, captureOwn, renderOwn, service, translation, workers
<1>27. CASE ClientGivesUp
  BY <1>27
     DEF TypeOK, ClientGivesUp,
         shared, screen, wheel, uiOwn, captureOwn, renderOwn, service, translation, workers
<1>28. CASE ClientNumbers
  BY <1>28
     DEF TypeOK, ClientNumbers, NewRequest,
         shared, screen, wheel, uiOwn, captureOwn, renderOwn, service, translation, workers
<1>29. CASE ClientPosts
  BY <1>29, ClientPopupType
     DEF TypeOK, ClientPosts,
         shared, screen, wheel, uiOwn, captureOwn, renderOwn, service, translation, workers
<1>30. CASE ClientHide
  <2>1. PICK task \in Task : Post(task)
    BY <1>30, TaskTypes, Fields DEF TypeOK, ClientHide
  <2>2. tasks' \in Seq(Task)
    BY <2>1, Posted DEF TypeOK
  <2> QED BY <1>30, <2>2, Fields DEF TypeOK, ClientHide, NewRequest, 
         shared, screen, wheel, uiOwn, captureOwn, renderOwn, service, translation, workers
<1>31. CASE SetPaused
  <2>1. PICK task \in Task : Post(task)
    BY <1>31, TaskTypes, Fields DEF TypeOK, SetPaused
  <2>2. tasks' \in Seq(Task)
    BY <2>1, Posted DEF TypeOK
  <2>3. client' \in [step : {"idle", "asking", "answered", "numbered", "reloading"}, gen : Nat] /\ paused' \in BOOLEAN
    BY <1>31 DEF TypeOK, SetPaused
  <2> QED BY <1>31, <2>2, <2>3 DEF TypeOK, SetPaused,
         shared, screen, wheel, uiOwn, captureOwn, renderOwn, service, translation, workers
<1>32. CASE ClientReloads
  BY <1>32
     DEF TypeOK, ClientReloads,
         shared, screen, wheel, uiOwn, captureOwn, renderOwn, service, translation, workers
<1>33. CASE PostAside
  BY <1>33
     DEF TypeOK, PostAside,
         shared, screen, wheel, uiOwn, captureOwn, renderOwn, service, translation, workers
<1>34. CASE UNCHANGED vars
  BY <1>34 DEF TypeOK, vars
<1> QED
  BY <1>1, <1>2, <1>3, <1>4, <1>5, <1>6, <1>7, <1>8, <1>9, <1>10, <1>11, <1>12,
     <1>13, <1>14, <1>15, <1>16, <1>17, <1>18, <1>19, <1>20, <1>21, <1>22,
     <1>23, <1>24, <1>25, <1>26, <1>27, <1>28, <1>29, <1>30, <1>31, <1>32,
     <1>33, <1>34
  DEF Next, User, UiTask, CaptureThread, RenderThread, TranslationThread, Workers,
      IpcThread




\* Every state the pipeline comes to has the types declared: no hand-over passes
\* something of another kind, and the length the wheel chose stays within bounds.
THEOREM TypeCorrect == Spec => []TypeOK
<1>1. Init => TypeOK
  BY TypeInit
<1>2. TypeOK /\ [Next]_vars => TypeOK'
  BY TypeStep
<1> QED BY <1>1, <1>2, PTL DEF Spec

-----------------------------------------------------------------------------
(* What a step may do to the generations, the screen and the translations. *)

Numbering ==
  /\ generation' \in {generation, generation + 1}
  /\ captureRequest'.gen \in {captureRequest.gen, 0, generation'}
  /\ capturing'.gen \in {capturing.gen, captureRequest.gen, 0}
  /\ client'.gen \in {client.gen, 0, generation'}

ScreenKept == UNCHANGED <<visible, current, shownKey, cancelled, showing>>

Closing == UiFree /\ UNCHANGED showing /\ Dismiss(generation')

LEMMA NumberingStep == TypeOK /\ [Next]_vars => Numbering
<1> SUFFICES ASSUME TypeOK, [Next]_vars PROVE Numbering
  OBVIOUS
<1> USE EmptyValues DEF Numbering
<1>1. CASE Scan
  BY <1>1, Scanned
  DEF Scan,
      shared, screen, wheel, uiOwn, captureOwn, renderOwn, service, translation, workers
<1>2. CASE Selection
  BY <1>2, RequestTypes
  DEF TypeOK, NewRequest, Selection,
      shared, screen, wheel, uiOwn, captureOwn, renderOwn, service, translation, workers
<1>3. CASE TriggerReleased
  BY <1>3
  DEF NewRequest, TriggerReleased,
      shared, screen, wheel, uiOwn, captureOwn, renderOwn, service, translation, workers
<1>4. CASE ClickOutside
  BY <1>4
  DEF NewRequest, ClickOutside,
      shared, screen, wheel, uiOwn, captureOwn, renderOwn, service, translation, workers
<1>5. CASE Wheel
  <2>1. CASE \E delta \in Turns : Lengthen(current, delta)
    BY <1>5, <2>1, PipelineAssumption, Lengthened DEF TypeOK, Wheel, shared,
       screen, wheel, uiOwn, captureOwn, renderOwn, service, translation,
       workers
  <2>2. CASE UNCHANGED <<captureRequest, generation>>
    BY <1>5, <2>2 DEF Wheel, shared, screen, wheel, uiOwn, captureOwn,
       renderOwn, service, translation, workers
  <2> QED BY <1>5, <2>1, <2>2 DEF Wheel
<1>6. CASE AddNote
  BY <1>6
  DEF AddNote,
      shared, screen, wheel, uiOwn, captureOwn, renderOwn, service, translation, workers
<1>7. CASE ShowBegin
  BY <1>7
  DEF ShowBegin,
      shared, screen, wheel, uiOwn, captureOwn, renderOwn, service, translation, workers
<1>8. CASE ShowEnd
  <2>1. CASE Lengthen(showing.popup, pendingWheel)
    BY <1>8, <2>1, Fields, Lengthened DEF TypeOK, ShowEnd, shared, screen,
       wheel, uiOwn, captureOwn, renderOwn, service, translation, workers
  <2>2. CASE UNCHANGED <<captureRequest, generation>>
    BY <1>8, <2>2 DEF ShowEnd, shared, screen, wheel, uiOwn, captureOwn,
       renderOwn, service, translation, workers
  <2> QED BY <1>8, <2>1, <2>2 DEF ShowEnd
<1>9. CASE RunNothing
  BY <1>9
  DEF RunNothing,
      shared, screen, wheel, uiOwn, captureOwn, renderOwn, service, translation, workers
<1>10. CASE RunDismissal
  BY <1>10
  DEF RunDismissal,
      shared, screen, wheel, uiOwn, captureOwn, renderOwn, service, translation, workers
<1>11. CASE RunNoteAdded
  BY <1>11
  DEF RunNoteAdded,
      shared, screen, wheel, uiOwn, captureOwn, renderOwn, service, translation, workers
<1>12. CASE RunPointer
  BY <1>12
  DEF TypeOK, RunPointer,
      shared, screen, wheel, uiOwn, captureOwn, renderOwn, service, translation, workers
<1>13. CASE CaptureTake
  BY <1>13
  DEF CaptureTake,
      shared, screen, wheel, uiOwn, captureOwn, renderOwn, service, translation, workers
<1>14. CASE CaptureFinds
  BY <1>14
  DEF CaptureFinds,
      shared, screen, wheel, uiOwn, captureOwn, renderOwn, service, translation, workers
<1>15. CASE CaptureFindsNothing
  BY <1>15
  DEF CaptureFindsNothing,
      shared, screen, wheel, uiOwn, captureOwn, renderOwn, service, translation, workers
<1>16. CASE CapturePosts
  BY <1>16
  DEF CapturePosts,
      shared, screen, wheel, uiOwn, captureOwn, renderOwn, service, translation, workers
<1>17. CASE RenderTake
  BY <1>17
  DEF RenderTake,
      shared, screen, wheel, uiOwn, captureOwn, renderOwn, service, translation, workers
<1>18. CASE RenderRest
  BY <1>18
  DEF RenderRest,
      shared, screen, wheel, uiOwn, captureOwn, renderOwn, service, translation, workers
<1>19. CASE RenderPost
  BY <1>19
  DEF RenderPost,
      shared, screen, wheel, uiOwn, captureOwn, renderOwn, service, translation, workers
<1>20. CASE TranslatorTake
  BY <1>20
  DEF TranslatorTake,
      shared, screen, wheel, uiOwn, captureOwn, renderOwn, service, translation, workers
<1>21. CASE TranslationDone
  BY <1>21
  DEF TranslationDone,
      shared, screen, wheel, uiOwn, captureOwn, renderOwn, service, translation, workers
<1>22. CASE \E c \in checks : NotesAsk(c)
  BY <1>22
  DEF NotesAsk,
      shared, screen, wheel, uiOwn, captureOwn, renderOwn, service, translation, workers
<1>23. CASE \E c \in checks : NotesAnswered(c)
  BY <1>23
  DEF NotesAnswered,
      shared, screen, wheel, uiOwn, captureOwn, renderOwn, service, translation, workers
<1>24. CASE \E c \in checks : NotesPost(c)
  BY <1>24
  DEF NotesPost,
      shared, screen, wheel, uiOwn, captureOwn, renderOwn, service, translation, workers
<1>25. CASE \E g \in adding : NoteAdded(g)
  BY <1>25
  DEF NoteAdded,
      shared, screen, wheel, uiOwn, captureOwn, renderOwn, service, translation, workers
<1>26. CASE ClientShow
  BY <1>26
  DEF TypeOK, ClientShow,
      shared, screen, wheel, uiOwn, captureOwn, renderOwn, service, translation, workers
<1>27. CASE ClientGivesUp
  BY <1>27
  DEF TypeOK, ClientGivesUp,
      shared, screen, wheel, uiOwn, captureOwn, renderOwn, service, translation, workers
<1>28. CASE ClientNumbers
  BY <1>28
  DEF NewRequest, ClientNumbers,
      shared, screen, wheel, uiOwn, captureOwn, renderOwn, service, translation, workers
<1>29. CASE ClientPosts
  BY <1>29
  DEF ClientPosts,
      shared, screen, wheel, uiOwn, captureOwn, renderOwn, service, translation, workers
<1>30. CASE ClientHide
  BY <1>30
  DEF NewRequest, ClientHide,
      shared, screen, wheel, uiOwn, captureOwn, renderOwn, service, translation, workers
<1>31. CASE SetPaused
  BY <1>31
  DEF TypeOK, SetPaused,
      shared, screen, wheel, uiOwn, captureOwn, renderOwn, service, translation, workers
<1>32. CASE ClientReloads
  BY <1>32
  DEF TypeOK, ClientReloads,
      shared, screen, wheel, uiOwn, captureOwn, renderOwn, service, translation, workers
<1>33. CASE PostAside
  BY <1>33
  DEF PostAside,
      shared, screen, wheel, uiOwn, captureOwn, renderOwn, service, translation, workers
<1>34. CASE UNCHANGED vars
  BY <1>34 DEF vars
<1> QED
  BY <1>1, <1>2, <1>3, <1>4, <1>5, <1>6, <1>7, <1>8, <1>9, <1>10, <1>11, <1>12,
     <1>13, <1>14, <1>15, <1>16, <1>17, <1>18, <1>19, <1>20, <1>21, <1>22,
     <1>23, <1>24, <1>25, <1>26, <1>27, <1>28, <1>29, <1>30, <1>31, <1>32,
     <1>33, <1>34
  DEF Next, User, UiTask, CaptureThread, RenderThread, TranslationThread, Workers,
      IpcThread

LEMMA ScreenStep == TypeOK /\ [Next]_vars => ScreenKept \/ Closing \/ ShowBegin \/ ShowEnd
<1> SUFFICES ASSUME TypeOK, [Next]_vars PROVE ScreenKept \/ Closing \/ ShowBegin \/ ShowEnd
  OBVIOUS
<1> USE DEF ScreenKept, Closing
<1>1. CASE Scan
  BY <1>1
  DEF Scan,
      shared, screen, wheel, uiOwn, captureOwn, renderOwn, service, translation, workers
<1>2. CASE Selection
  BY <1>2
  DEF Selection,
      shared, screen, wheel, uiOwn, captureOwn, renderOwn, service, translation, workers
<1>3. CASE TriggerReleased
  BY <1>3
  DEF TriggerReleased,
      shared, screen, wheel, uiOwn, captureOwn, renderOwn, service, translation, workers
<1>4. CASE ClickOutside
  BY <1>4
  DEF ClickOutside,
      shared, screen, wheel, uiOwn, captureOwn, renderOwn, service, translation, workers
<1>5. CASE Wheel
  BY <1>5
  DEF Wheel,
      shared, screen, wheel, uiOwn, captureOwn, renderOwn, service, translation, workers
<1>6. CASE AddNote
  BY <1>6
  DEF AddNote,
      shared, screen, wheel, uiOwn, captureOwn, renderOwn, service, translation, workers
<1>7. CASE ShowBegin
  BY <1>7
<1>8. CASE ShowEnd
  BY <1>8
<1>9. CASE RunNothing
  BY <1>9
  DEF NextTask, RunNothing,
      shared, screen, wheel, uiOwn, captureOwn, renderOwn, service, translation, workers
<1>10. CASE RunDismissal
  BY <1>10
  DEF RunDismissal,
      shared, screen, wheel, uiOwn, captureOwn, renderOwn, service, translation, workers
<1>11. CASE RunNoteAdded
  BY <1>11
  DEF RunNoteAdded,
      shared, screen, wheel, uiOwn, captureOwn, renderOwn, service, translation, workers
<1>12. CASE RunPointer
  BY <1>12
  DEF RunPointer,
      shared, screen, wheel, uiOwn, captureOwn, renderOwn, service, translation, workers
<1>13. CASE CaptureTake
  BY <1>13
  DEF CaptureTake,
      shared, screen, wheel, uiOwn, captureOwn, renderOwn, service, translation, workers
<1>14. CASE CaptureFinds
  BY <1>14
  DEF CaptureFinds,
      shared, screen, wheel, uiOwn, captureOwn, renderOwn, service, translation, workers
<1>15. CASE CaptureFindsNothing
  BY <1>15
  DEF CaptureFindsNothing,
      shared, screen, wheel, uiOwn, captureOwn, renderOwn, service, translation, workers
<1>16. CASE CapturePosts
  BY <1>16
  DEF CapturePosts,
      shared, screen, wheel, uiOwn, captureOwn, renderOwn, service, translation, workers
<1>17. CASE RenderTake
  BY <1>17
  DEF RenderTake,
      shared, screen, wheel, uiOwn, captureOwn, renderOwn, service, translation, workers
<1>18. CASE RenderRest
  BY <1>18
  DEF RenderRest,
      shared, screen, wheel, uiOwn, captureOwn, renderOwn, service, translation, workers
<1>19. CASE RenderPost
  BY <1>19
  DEF RenderPost,
      shared, screen, wheel, uiOwn, captureOwn, renderOwn, service, translation, workers
<1>20. CASE TranslatorTake
  BY <1>20
  DEF TranslatorTake,
      shared, screen, wheel, uiOwn, captureOwn, renderOwn, service, translation, workers
<1>21. CASE TranslationDone
  BY <1>21
  DEF TranslationDone,
      shared, screen, wheel, uiOwn, captureOwn, renderOwn, service, translation, workers
<1>22. CASE \E c \in checks : NotesAsk(c)
  BY <1>22
  DEF NotesAsk,
      shared, screen, wheel, uiOwn, captureOwn, renderOwn, service, translation, workers
<1>23. CASE \E c \in checks : NotesAnswered(c)
  BY <1>23
  DEF NotesAnswered,
      shared, screen, wheel, uiOwn, captureOwn, renderOwn, service, translation, workers
<1>24. CASE \E c \in checks : NotesPost(c)
  BY <1>24
  DEF NotesPost,
      shared, screen, wheel, uiOwn, captureOwn, renderOwn, service, translation, workers
<1>25. CASE \E g \in adding : NoteAdded(g)
  BY <1>25
  DEF NoteAdded,
      shared, screen, wheel, uiOwn, captureOwn, renderOwn, service, translation, workers
<1>26. CASE ClientShow
  BY <1>26
  DEF ClientShow,
      shared, screen, wheel, uiOwn, captureOwn, renderOwn, service, translation, workers
<1>27. CASE ClientGivesUp
  BY <1>27
  DEF ClientGivesUp,
      shared, screen, wheel, uiOwn, captureOwn, renderOwn, service, translation, workers
<1>28. CASE ClientNumbers
  BY <1>28
  DEF ClientNumbers,
      shared, screen, wheel, uiOwn, captureOwn, renderOwn, service, translation, workers
<1>29. CASE ClientPosts
  BY <1>29
  DEF ClientPosts,
      shared, screen, wheel, uiOwn, captureOwn, renderOwn, service, translation, workers
<1>30. CASE ClientHide
  BY <1>30
  DEF ClientHide,
      shared, screen, wheel, uiOwn, captureOwn, renderOwn, service, translation, workers
<1>31. CASE SetPaused
  BY <1>31
  DEF SetPaused,
      shared, screen, wheel, uiOwn, captureOwn, renderOwn, service, translation, workers
<1>32. CASE ClientReloads
  BY <1>32
  DEF ClientReloads,
      shared, screen, wheel, uiOwn, captureOwn, renderOwn, service, translation, workers
<1>33. CASE PostAside
  BY <1>33
  DEF PostAside,
      shared, screen, wheel, uiOwn, captureOwn, renderOwn, service, translation, workers
<1>34. CASE UNCHANGED vars
  BY <1>34 DEF vars
<1> QED
  BY <1>1, <1>2, <1>3, <1>4, <1>5, <1>6, <1>7, <1>8, <1>9, <1>10, <1>11, <1>12,
     <1>13, <1>14, <1>15, <1>16, <1>17, <1>18, <1>19, <1>20, <1>21, <1>22,
     <1>23, <1>24, <1>25, <1>26, <1>27, <1>28, <1>29, <1>30, <1>31, <1>32,
     <1>33, <1>34
  DEF Next, User, UiTask, CaptureThread, RenderThread, TranslationThread, Workers,
      IpcThread

-----------------------------------------------------------------------------
(* Where popups come from.                                                 *)

\* After a step a popup is one there was, its check marks or its translation put
\* in, one the capture found, or one a client asked for.
Origin(p) ==
  \/ p \in Popups \cup {NoPopup}
  \/ \E q \in Popups : p = [q EXCEPT !.marked = TRUE]
  \/ /\ capturing # NoRequest
     /\ \E t \in Texts, known \in BOOLEAN : p = FoundPopup(capturing, t, known)
  \/ p = [NoPopup EXCEPT !.gen = client.gen]
  \/ /\ running # NoJob /\ running.ticket = ticket /\ translating # NoPopup
     /\ p = [translating EXCEPT !.tr = "done", !.trOf = running.of]

Origins ==
  /\ Origin(current') /\ Origin(showing'.popup) /\ Origin(renderRequest')
  /\ Origin(found') /\ Origin(drawing') /\ Origin(rest') /\ Origin(translating')
  /\ \A i \in DOMAIN tasks' : Origin(tasks'[i].popup)
  /\ \A c \in checks' : Origin(c.popup)

LEMMA Known ==
  /\ Origin(NoPopup)
  /\ Origin(current) /\ Origin(showing.popup) /\ Origin(renderRequest)
  /\ Origin(found) /\ Origin(drawing) /\ Origin(rest) /\ Origin(translating)
  /\ \A i \in DOMAIN tasks : Origin(tasks[i].popup)
  /\ \A c \in checks : Origin(c.popup)
  /\ Origin([current EXCEPT !.marked = TRUE])
  /\ \A c \in checks : Origin([c.popup EXCEPT !.marked = TRUE])
<1>1. /\ {current, showing.popup, renderRequest, found, drawing, rest, translating} \subseteq Popups
      /\ \A i \in DOMAIN tasks : tasks[i].popup \in Popups
      /\ \A c \in checks : c.popup \in Popups
  BY DEF Popups
<1>2. \A p \in Popups : Origin(p) /\ Origin([p EXCEPT !.marked = TRUE])
  BY DEF Origin
<1>3. Origin(NoPopup)
  BY DEF Origin
<1> QED BY <1>1, <1>2, <1>3

LEMMA OriginStep == TypeOK /\ [Next]_vars => Origins
<1> SUFFICES ASSUME TypeOK, [Next]_vars PROVE Origins
  OBVIOUS
<1> USE EmptyValues, Known DEF Origins
<1>1. CASE Scan
  BY <1>1
  DEF Scan,
      shared, screen, wheel, uiOwn, captureOwn, renderOwn, service, translation, workers
<1>2. CASE Selection
  BY <1>2
  DEF Selection,
      shared, screen, wheel, uiOwn, captureOwn, renderOwn, service, translation, workers
<1>3. CASE TriggerReleased
  BY <1>3
  DEF Dismiss, TriggerReleased,
      shared, screen, wheel, uiOwn, captureOwn, renderOwn, service, translation, workers
<1>4. CASE ClickOutside
  BY <1>4
  DEF Dismiss, ClickOutside,
      shared, screen, wheel, uiOwn, captureOwn, renderOwn, service, translation, workers
<1>5. CASE Wheel
  BY <1>5
  DEF Wheel,
      shared, screen, wheel, uiOwn, captureOwn, renderOwn, service, translation, workers
<1>6. CASE AddNote
  BY <1>6
  DEF AddNote,
      shared, screen, wheel, uiOwn, captureOwn, renderOwn, service, translation, workers
<1>7. CASE ShowBegin
  BY <1>7, Ends
  DEF TypeOK, NextTask, ShowBegin,
      shared, screen, wheel, uiOwn, captureOwn, renderOwn, service, translation, workers
<1>8. CASE ShowEnd
  BY <1>8
  DEF ShowEnd,
      shared, screen, wheel, uiOwn, captureOwn, renderOwn, service, translation, workers
<1>9. CASE RunNothing
  <2>1. \A i \in DOMAIN tasks' : Origin(tasks'[i].popup)
    BY <1>9, Ends DEF TypeOK, RunNothing, NextTask
  <2>2. Origin(current')
    BY <1>9 DEF RunNothing, Dismiss, screen
  <2> QED BY <1>9, <2>1, <2>2 DEF RunNothing,
      shared, screen, wheel, uiOwn, captureOwn, renderOwn, service, translation, workers
<1>10. CASE RunDismissal
  <2>1. \A i \in DOMAIN tasks' : Origin(tasks'[i].popup)
    BY <1>10, Ends DEF TypeOK, RunDismissal
  <2>2. Origin(current')
    BY <1>10 DEF RunDismissal, Dismiss, screen
  <2> QED BY <1>10, <2>1, <2>2 DEF RunDismissal,
      shared, screen, wheel, uiOwn, captureOwn, renderOwn, service, translation, workers
<1>11. CASE RunNoteAdded
  <2>1. \A i \in DOMAIN tasks' : Origin(tasks'[i].popup)
    BY <1>11, Ends DEF TypeOK, RunNoteAdded, NextTask
  <2> QED BY <1>11, <2>1 DEF RunNoteAdded,
      shared, screen, wheel, uiOwn, captureOwn, renderOwn, service, translation, workers
<1>12. CASE RunPointer
  <2>1. \A i \in DOMAIN tasks' : Origin(tasks'[i].popup)
    BY <1>12, Ends DEF TypeOK, RunPointer, NextTask
  <2> QED BY <1>12, <2>1 DEF RunPointer,
      shared, screen, wheel, uiOwn, captureOwn, renderOwn, service, translation, workers
<1>13. CASE CaptureTake
  BY <1>13
  DEF CaptureTake,
      shared, screen, wheel, uiOwn, captureOwn, renderOwn, service, translation, workers
<1>14. CASE CaptureFinds
  <2>1. Origin(found')
    <3>1. PICK t \in Readings(capturing), known \in BOOLEAN :
            found' = found \/ found' = FoundPopup(capturing, t, known)
      BY <1>14 DEF CaptureFinds
    <3>2. t \in Texts
      BY <3>1 DEF Readings, TypeOK, AnyText, Request
    <3> QED BY <1>14, <3>1, <3>2 DEF Origin, CaptureFinds
  <2> QED BY <1>14, <2>1 DEF CaptureFinds,
      shared, screen, wheel, uiOwn, captureOwn, renderOwn, service, translation, workers
<1>15. CASE CaptureFindsNothing
  <2>1. PICK task \in Task : Post(task) /\ task.popup = NoPopup
    BY <1>15, TaskTypes, Fields, PipelineAssumption DEF TypeOK, CaptureFindsNothing
  <2>2. \A i \in DOMAIN tasks' : Origin(tasks'[i].popup)
    BY <2>1, Posted DEF TypeOK
  <2> QED BY <1>15, <2>2 DEF CaptureFindsNothing,
      shared, screen, wheel, uiOwn, captureOwn, renderOwn, service, translation, workers
<1>16. CASE CapturePosts
  BY <1>16
  DEF CapturePosts,
      shared, screen, wheel, uiOwn, captureOwn, renderOwn, service, translation, workers
<1>17. CASE RenderTake
  BY <1>17
  DEF RenderTake,
      shared, screen, wheel, uiOwn, captureOwn, renderOwn, service, translation, workers
<1>18. CASE RenderRest
  BY <1>18
  DEF RenderRest,
      shared, screen, wheel, uiOwn, captureOwn, renderOwn, service, translation, workers
<1>19. CASE RenderPost
  <2>1. PICK task \in Task : Post(task) /\ task.popup = drawing
    BY <1>19, TaskTypes, Fields, PipelineAssumption DEF TypeOK, RenderPost
  <2>2. \A i \in DOMAIN tasks' : Origin(tasks'[i].popup)
    BY <2>1, Posted DEF TypeOK
  <2> QED BY <1>19, <2>2 DEF RenderPost,
      shared, screen, wheel, uiOwn, captureOwn, renderOwn, service, translation, workers
<1>20. CASE TranslatorTake
  BY <1>20
  DEF TranslatorTake,
      shared, screen, wheel, uiOwn, captureOwn, renderOwn, service, translation, workers
<1>21. CASE TranslationDone
  <2>1. Origin(renderRequest')
    BY <1>21 DEF TranslationDone, Overtaken, Origin
  <2> QED BY <1>21, <2>1 DEF TranslationDone,
      shared, screen, wheel, uiOwn, captureOwn, renderOwn, service, translation, workers
<1>22. CASE \E c \in checks : NotesAsk(c)
  <2>1. PICK c \in checks : NotesAsk(c)
    BY <1>22
  <2>2. [c EXCEPT !.step = "asked"].popup = c.popup
    BY DEF TypeOK
  <2>3. \A d \in checks' : Origin(d.popup)
    BY <2>1, <2>2 DEF NotesAsk
  <2> QED BY <2>1, <2>3 DEF NotesAsk,
      shared, screen, wheel, uiOwn, captureOwn, renderOwn, service, translation, workers
<1>23. CASE \E c \in checks : NotesAnswered(c)
  <2>1. PICK c \in checks : NotesAnswered(c)
    BY <1>23
  <2>2. [c EXCEPT !.step = "marking"].popup = c.popup
    BY DEF TypeOK
  <2>3. \A d \in checks' : Origin(d.popup)
    BY <2>1, <2>2 DEF NotesAnswered
  <2> QED BY <2>1, <2>3 DEF NotesAnswered,
      shared, screen, wheel, uiOwn, captureOwn, renderOwn, service, translation, workers
<1>24. CASE \E c \in checks : NotesPost(c)
  BY <1>24
  DEF NotesPost,
      shared, screen, wheel, uiOwn, captureOwn, renderOwn, service, translation, workers
<1>25. CASE \E g \in adding : NoteAdded(g)
  <2>1. PICK task \in Task : Post(task) /\ task.popup = NoPopup
    BY <1>25, TaskTypes, Fields, PipelineAssumption DEF TypeOK, NoteAdded
  <2>2. \A i \in DOMAIN tasks' : Origin(tasks'[i].popup)
    BY <2>1, Posted DEF TypeOK
  <2> QED BY <1>25, <2>2 DEF NoteAdded,
      shared, screen, wheel, uiOwn, captureOwn, renderOwn, service, translation, workers
<1>26. CASE ClientShow
  <2>1. PICK task \in Task : Post(task) /\ task.popup = NoPopup
    BY <1>26, TaskTypes, Fields, PipelineAssumption DEF TypeOK, ClientShow
  <2>2. \A i \in DOMAIN tasks' : Origin(tasks'[i].popup)
    BY <2>1, Posted DEF TypeOK
  <2> QED BY <1>26, <2>2 DEF ClientShow,
      shared, screen, wheel, uiOwn, captureOwn, renderOwn, service, translation, workers
<1>27. CASE ClientGivesUp
  BY <1>27
  DEF ClientGivesUp,
      shared, screen, wheel, uiOwn, captureOwn, renderOwn, service, translation, workers
<1>28. CASE ClientNumbers
  BY <1>28
  DEF ClientNumbers,
      shared, screen, wheel, uiOwn, captureOwn, renderOwn, service, translation, workers
<1>29. CASE ClientPosts
  <2>1. Origin(renderRequest')
    BY <1>29 DEF ClientPosts, Origin
  <2> QED BY <1>29, <2>1 DEF ClientPosts,
      shared, screen, wheel, uiOwn, captureOwn, renderOwn, service, translation, workers
<1>30. CASE ClientHide
  <2>1. PICK task \in Task : Post(task) /\ task.popup = NoPopup
    BY <1>30, TaskTypes, Fields, PipelineAssumption DEF TypeOK, ClientHide
  <2>2. \A i \in DOMAIN tasks' : Origin(tasks'[i].popup)
    BY <2>1, Posted DEF TypeOK
  <2> QED BY <1>30, <2>2 DEF ClientHide,
      shared, screen, wheel, uiOwn, captureOwn, renderOwn, service, translation, workers
<1>31. CASE SetPaused
  <2>1. PICK task \in Task : Post(task) /\ task.popup = NoPopup
    BY <1>31, TaskTypes, Fields, PipelineAssumption DEF TypeOK, SetPaused
  <2>2. \A i \in DOMAIN tasks' : Origin(tasks'[i].popup)
    BY <2>1, Posted DEF TypeOK
  <2> QED BY <1>31, <2>2 DEF SetPaused,
      shared, screen, wheel, uiOwn, captureOwn, renderOwn, service, translation, workers
<1>32. CASE ClientReloads
  BY <1>32
  DEF ClientReloads,
      shared, screen, wheel, uiOwn, captureOwn, renderOwn, service, translation, workers
<1>33. CASE PostAside
  BY <1>33
  DEF PostAside,
      shared, screen, wheel, uiOwn, captureOwn, renderOwn, service, translation, workers
<1>34. CASE UNCHANGED vars
  BY <1>34 DEF vars
<1> QED
  BY <1>1, <1>2, <1>3, <1>4, <1>5, <1>6, <1>7, <1>8, <1>9, <1>10, <1>11, <1>12,
     <1>13, <1>14, <1>15, <1>16, <1>17, <1>18, <1>19, <1>20, <1>21, <1>22,
     <1>23, <1>24, <1>25, <1>26, <1>27, <1>28, <1>29, <1>30, <1>31, <1>32,
     <1>33, <1>34
  DEF Next, User, UiTask, CaptureThread, RenderThread, TranslationThread, Workers,
      IpcThread

LEMMA PopupOrigin ==
  ASSUME TypeOK, [Next]_vars, NEW p \in Popups'
  PROVE  Origin(p)
<1>1. Origins
  BY OriginStep
<1> QED BY <1>1 DEF Origins, Popups

-----------------------------------------------------------------------------
(* What is on screen.                                                      *)

\* The strengthening of OnScreen: a popup shown is no newer than the requests
\* made, because none on its way is.
ScreenInv == TypeOK /\ NothingFromTheFuture /\ OnScreen

LEMMA ScreenInit == Init => ScreenInv
<1> SUFFICES ASSUME Init PROVE ScreenInv
  OBVIOUS
<1> USE EmptyValues
<1>1. TypeOK
  BY TypeInit
<1>2. Popups = {NoPopup}
  <2>1. DOMAIN tasks = {} /\ checks = {}
    BY DEF Init
  <2> QED BY <2>1 DEF Init, Popups
<1>3. NothingFromTheFuture
  BY <1>2 DEF Init, NothingFromTheFuture
<1>4. OnScreen
  BY DEF Init, OnScreen, UiFree
<1> QED BY <1>1, <1>3, <1>4 DEF ScreenInv

LEMMA OriginGeneration ==
  ASSUME TypeOK, NothingFromTheFuture, NEW p, Origin(p)
  PROVE  p.gen <= generation
<1>1. Popups \subseteq Popup
  BY Fields DEF Popups, TypeOK
<1>2. CASE p \in Popups \cup {NoPopup}
  BY <1>2, EmptyValues DEF NothingFromTheFuture, TypeOK
<1>3. CASE \E q \in Popups : p = [q EXCEPT !.marked = TRUE]
  BY <1>1, <1>3, MarkedType DEF NothingFromTheFuture
<1>4. CASE \E t \in Texts, known \in BOOLEAN : p = FoundPopup(capturing, t, known)
  BY <1>4, FoundType, TextsRead DEF NothingFromTheFuture, TypeOK
<1>5. CASE p = [NoPopup EXCEPT !.gen = client.gen]
  BY <1>5, ClientPopupType DEF NothingFromTheFuture, TypeOK
<1>6. CASE p = [translating EXCEPT !.tr = "done", !.trOf = running.of]
  <2>1. translating \in Popups /\ translating \in Popup /\ running \in Job
    BY DEF Popups, TypeOK
  <2>2. p.gen = translating.gen
    BY <1>6, <2>1, TranslatedType, Zenon
  <2> QED BY <2>1, <2>2 DEF NothingFromTheFuture
<1> QED BY <1>2, <1>3, <1>4, <1>5, <1>6 DEF Origin

LEMMA FutureStep == TypeOK /\ NothingFromTheFuture /\ [Next]_vars => NothingFromTheFuture'
<1> SUFFICES ASSUME TypeOK, NothingFromTheFuture, [Next]_vars PROVE NothingFromTheFuture'
  OBVIOUS
<1>1. TypeOK' /\ Numbering
  BY TypeStep, NumberingStep
<1>2. generation' \in Nat /\ generation \in Nat /\ generation <= generation'
  BY <1>1 DEF Numbering, TypeOK
<1>3. cancelled' <= generation'
  <2>1. CASE cancelled' = cancelled
    BY <1>2, <2>1 DEF NothingFromTheFuture, TypeOK
  <2>2. CASE cancelled' = generation'
    BY <1>2, <2>2
  <2> QED BY <2>1, <2>2, ScreenStep DEF ScreenKept, Closing, Dismiss, ShowBegin,
             ShowEnd, shared
<1>4. ASSUME NEW p \in Popups' PROVE p.gen <= generation'
  <2>1. p \in Popup
    BY <1>1, Fields DEF Popups, TypeOK
  <2>2. p.gen <= generation /\ p.gen \in Nat
    BY <1>4, <2>1, PopupOrigin, OriginGeneration, Fields
  <2> QED BY <1>2, <2>2
<1>5. /\ captureRequest'.gen <= generation' /\ capturing'.gen <= generation'
      /\ client'.gen <= generation'
  <2>1. captureRequest.gen \in Nat /\ capturing.gen \in Nat /\ client.gen \in Nat
    BY Fields DEF TypeOK
  <2>2. /\ captureRequest.gen <= generation /\ capturing.gen <= generation
        /\ client.gen <= generation
    BY DEF NothingFromTheFuture
  <2> QED BY <1>1, <1>2, <2>1, <2>2 DEF Numbering
<1> QED BY <1>3, <1>4, <1>5 DEF NothingFromTheFuture

LEMMA ScreenInvStep == ScreenInv /\ [Next]_vars => ScreenInv'
<1> SUFFICES ASSUME ScreenInv, [Next]_vars PROVE ScreenInv'
  OBVIOUS
<1> USE EmptyValues
<1>1. TypeOK /\ NothingFromTheFuture /\ OnScreen /\ TypeOK' /\ NothingFromTheFuture' /\ Numbering
  BY TypeStep, FutureStep, NumberingStep DEF ScreenInv
<1>2. generation' \in Nat /\ generation \in Nat /\ generation <= generation'
  BY <1>1 DEF Numbering, TypeOK
<1>3. OnScreen'
  <2>1. CASE ScreenKept
    BY <1>1, <1>2, <2>1, Fields DEF ScreenKept, OnScreen, UiFree, TypeOK, Key
  <2>2. CASE Closing
    BY <1>1, <2>2 DEF Closing, Dismiss, OnScreen, UiFree
  <2>3. CASE ShowBegin
    <3>1. UNCHANGED <<visible, current, shownKey, cancelled, generation>>
      BY <2>3 DEF ShowBegin, uiOwn, shared
    <3>2. ~UiFree' => cancelled < showing'.popup.gen
      BY <2>3 DEF ShowBegin, IsCurrent, UiFree
    <3> QED BY <1>1, <3>1, <3>2 DEF OnScreen, Key
  <2>4. CASE ShowEnd
    <3>1. /\ visible' = TRUE /\ current' = showing.popup /\ shownKey' = Key(showing.popup)
          /\ showing' = NoTask /\ cancelled' = cancelled /\ ~UiFree
      BY <2>4 DEF ShowEnd
    <3>2. cancelled < showing.popup.gen /\ showing.popup \in Popups
      BY <1>1, <3>1 DEF OnScreen, Popups
    <3>3. showing.popup # NoPopup
      BY <1>1, <3>2 DEF TypeOK
    <3>4. current'.gen <= generation'
      <4>1. showing.popup.gen <= generation /\ showing.popup.gen \in Nat
        BY <1>1, <3>2, Fields DEF NothingFromTheFuture, TypeOK
      <4> QED BY <1>2, <3>1, <4>1
    <3>5. shownKey' = Key(current)'
      BY <3>1 DEF Key
    <3> QED BY <3>1, <3>2, <3>3, <3>4, <3>5 DEF OnScreen, UiFree
  <2> QED BY <1>1, <2>1, <2>2, <2>3, <2>4, ScreenStep
<1> QED BY <1>1, <1>3 DEF ScreenInv

\* What is on screen is what the other threads are told is there, and it was
\* asked for after popups were last closed: whatever was on its way when dismiss()
\* ran is not shown later, however the threads are scheduled.
THEOREM ScreenIsCurrent == Spec => []OnScreen
<1>1. Init => ScreenInv
  BY ScreenInit
<1>2. ScreenInv /\ [Next]_vars => ScreenInv'
  BY ScreenInvStep
<1>3. ScreenInv => OnScreen
  BY DEF ScreenInv
<1> QED BY <1>1, <1>2, <1>3, PTL DEF Spec

-----------------------------------------------------------------------------
(* The promise.                                                            *)

LEMMA PromiseStep == ScreenInv /\ [Next]_vars => [Promise!Next]_(Promise!promiseVars)
<1> SUFFICES ASSUME ScreenInv, [Next]_vars PROVE [Promise!Next]_(Promise!promiseVars)
  OBVIOUS
<1>1. TypeOK /\ NothingFromTheFuture /\ OnScreen /\ Numbering
  BY NumberingStep DEF ScreenInv
<1>2. Promise!Ask
  BY <1>1 DEF Numbering, Promise!Ask
<1>3. CASE ScreenKept
  BY <1>2, <1>3 DEF ScreenKept, Promise!Next, Promise!AskOnly
<1>4. CASE Closing
  <2>1. current'.gen = 0 /\ cancelled' = generation'
    BY <1>4, EmptyValues DEF Closing, Dismiss
  <2> QED BY <1>2, <2>1 DEF Promise!Next, Promise!Close
<1>5. CASE ShowBegin
  BY <1>5 DEF ShowBegin, shared, uiOwn, Promise!promiseVars
<1>6. CASE ShowEnd
  <2>1. current' = showing.popup /\ cancelled' = cancelled /\ ~UiFree
    BY <1>6 DEF ShowEnd
  <2>2. showing.popup \in Popups /\ showing.popup.gen \in Nat /\ cancelled \in Nat /\ generation \in Nat
    BY <1>1, Fields DEF Popups, TypeOK
  <2>3. cancelled < showing.popup.gen /\ showing.popup.gen <= generation
    BY <1>1, <2>1, <2>2 DEF OnScreen, NothingFromTheFuture
  <2>4. current'.gen \in (cancelled + 1) .. generation
    BY <2>1, <2>2, <2>3
  <2> QED BY <1>2, <2>1, <2>4 DEF Promise!Next, Promise!Show
<1> QED BY <1>1, <1>3, <1>4, <1>5, <1>6, ScreenStep

\* The pipeline does what PopupPromise allows and nothing else: popups are shown
\* and closed only so that what is on screen was asked for since the last closing.
THEOREM PipelineKeepsPromise == Spec => PromiseKept
<1>1. Init => Promise!Init
  BY EmptyValues DEF Init, Promise!Init
<1>2. Init => ScreenInv
  BY ScreenInit
<1>3. ScreenInv /\ [Next]_vars => ScreenInv'
  BY ScreenInvStep
<1>4. ScreenInv /\ [Next]_vars => [Promise!Next]_(Promise!promiseVars)
  BY PromiseStep
<1> QED BY <1>1, <1>2, <1>3, <1>4, PTL DEF Spec, PromiseKept, Promise!Spec

-----------------------------------------------------------------------------
(* Translations.                                                           *)

TranslationInv == TypeOK /\ TranslationOfItsOwn /\ TicketsMatch

Unposted == UNCHANGED <<ticket, pending, running>> /\ translating' \in {translating, NoPopup}

LEMMA TranslationInit == Init => TranslationInv
<1> SUFFICES ASSUME Init PROVE TranslationInv
  OBVIOUS
<1>1. TypeOK
  BY TypeInit
<1>2. Popups = {NoPopup}
  <2>1. DOMAIN tasks = {} /\ checks = {}
    BY DEF Init
  <2> QED BY <2>1, EmptyValues DEF Init, Popups
<1>3. NoPopup.tr = "none"
  BY DEF NoPopup
<1>4. TicketsMatch
  BY EmptyValues DEF Init, TicketsMatch
<1> QED BY <1>1, <1>2, <1>3, <1>4 DEF TranslationInv, TranslationOfItsOwn

LEMMA TicketStep ==
  TypeOK /\ [Next]_vars => Unposted \/ CapturePosts \/ TranslatorTake \/ TranslationDone
<1> SUFFICES ASSUME TypeOK, [Next]_vars
             PROVE  Unposted \/ CapturePosts \/ TranslatorTake \/ TranslationDone
  OBVIOUS
<1> USE DEF Unposted
<1>1. CASE Scan
  BY <1>1
  DEF Scan,
      shared, screen, wheel, uiOwn, captureOwn, renderOwn, service, translation, workers
<1>2. CASE Selection
  BY <1>2
  DEF Selection,
      shared, screen, wheel, uiOwn, captureOwn, renderOwn, service, translation, workers
<1>3. CASE TriggerReleased
  BY <1>3
  DEF TriggerReleased,
      shared, screen, wheel, uiOwn, captureOwn, renderOwn, service, translation, workers
<1>4. CASE ClickOutside
  BY <1>4
  DEF ClickOutside,
      shared, screen, wheel, uiOwn, captureOwn, renderOwn, service, translation, workers
<1>5. CASE Wheel
  BY <1>5
  DEF Wheel,
      shared, screen, wheel, uiOwn, captureOwn, renderOwn, service, translation, workers
<1>6. CASE AddNote
  BY <1>6
  DEF AddNote,
      shared, screen, wheel, uiOwn, captureOwn, renderOwn, service, translation, workers
<1>7. CASE ShowBegin
  BY <1>7
  DEF ShowBegin,
      shared, screen, wheel, uiOwn, captureOwn, renderOwn, service, translation, workers
<1>8. CASE ShowEnd
  BY <1>8
  DEF ShowEnd,
      shared, screen, wheel, uiOwn, captureOwn, renderOwn, service, translation, workers
<1>9. CASE RunNothing
  BY <1>9
  DEF RunNothing,
      shared, screen, wheel, uiOwn, captureOwn, renderOwn, service, translation, workers
<1>10. CASE RunDismissal
  BY <1>10
  DEF RunDismissal,
      shared, screen, wheel, uiOwn, captureOwn, renderOwn, service, translation, workers
<1>11. CASE RunNoteAdded
  BY <1>11
  DEF RunNoteAdded,
      shared, screen, wheel, uiOwn, captureOwn, renderOwn, service, translation, workers
<1>12. CASE RunPointer
  BY <1>12
  DEF RunPointer,
      shared, screen, wheel, uiOwn, captureOwn, renderOwn, service, translation, workers
<1>13. CASE CaptureTake
  BY <1>13
  DEF CaptureTake,
      shared, screen, wheel, uiOwn, captureOwn, renderOwn, service, translation, workers
<1>14. CASE CaptureFinds
  BY <1>14
  DEF CaptureFinds,
      shared, screen, wheel, uiOwn, captureOwn, renderOwn, service, translation, workers
<1>15. CASE CaptureFindsNothing
  BY <1>15
  DEF CaptureFindsNothing,
      shared, screen, wheel, uiOwn, captureOwn, renderOwn, service, translation, workers
<1>16. CASE CapturePosts
  BY <1>16
<1>17. CASE RenderTake
  BY <1>17
  DEF RenderTake,
      shared, screen, wheel, uiOwn, captureOwn, renderOwn, service, translation, workers
<1>18. CASE RenderRest
  BY <1>18
  DEF RenderRest,
      shared, screen, wheel, uiOwn, captureOwn, renderOwn, service, translation, workers
<1>19. CASE RenderPost
  BY <1>19
  DEF RenderPost,
      shared, screen, wheel, uiOwn, captureOwn, renderOwn, service, translation, workers
<1>20. CASE TranslatorTake
  BY <1>20
<1>21. CASE TranslationDone
  BY <1>21
<1>22. CASE \E c \in checks : NotesAsk(c)
  BY <1>22
  DEF NotesAsk,
      shared, screen, wheel, uiOwn, captureOwn, renderOwn, service, translation, workers
<1>23. CASE \E c \in checks : NotesAnswered(c)
  BY <1>23
  DEF NotesAnswered,
      shared, screen, wheel, uiOwn, captureOwn, renderOwn, service, translation, workers
<1>24. CASE \E c \in checks : NotesPost(c)
  BY <1>24
  DEF NotesPost,
      shared, screen, wheel, uiOwn, captureOwn, renderOwn, service, translation, workers
<1>25. CASE \E g \in adding : NoteAdded(g)
  BY <1>25
  DEF NoteAdded,
      shared, screen, wheel, uiOwn, captureOwn, renderOwn, service, translation, workers
<1>26. CASE ClientShow
  BY <1>26
  DEF ClientShow,
      shared, screen, wheel, uiOwn, captureOwn, renderOwn, service, translation, workers
<1>27. CASE ClientGivesUp
  BY <1>27
  DEF ClientGivesUp,
      shared, screen, wheel, uiOwn, captureOwn, renderOwn, service, translation, workers
<1>28. CASE ClientNumbers
  BY <1>28
  DEF ClientNumbers,
      shared, screen, wheel, uiOwn, captureOwn, renderOwn, service, translation, workers
<1>29. CASE ClientPosts
  BY <1>29
  DEF ClientPosts,
      shared, screen, wheel, uiOwn, captureOwn, renderOwn, service, translation, workers
<1>30. CASE ClientHide
  BY <1>30
  DEF ClientHide,
      shared, screen, wheel, uiOwn, captureOwn, renderOwn, service, translation, workers
<1>31. CASE SetPaused
  BY <1>31
  DEF SetPaused,
      shared, screen, wheel, uiOwn, captureOwn, renderOwn, service, translation, workers
<1>32. CASE ClientReloads
  BY <1>32
  DEF ClientReloads,
      shared, screen, wheel, uiOwn, captureOwn, renderOwn, service, translation, workers
<1>33. CASE PostAside
  BY <1>33
  DEF PostAside,
      shared, screen, wheel, uiOwn, captureOwn, renderOwn, service, translation, workers
<1>34. CASE UNCHANGED vars
  BY <1>34 DEF vars
<1> QED
  BY <1>1, <1>2, <1>3, <1>4, <1>5, <1>6, <1>7, <1>8, <1>9, <1>10, <1>11, <1>12,
     <1>13, <1>14, <1>15, <1>16, <1>17, <1>18, <1>19, <1>20, <1>21, <1>22,
     <1>23, <1>24, <1>25, <1>26, <1>27, <1>28, <1>29, <1>30, <1>31, <1>32,
     <1>33, <1>34
  DEF Next, User, UiTask, CaptureThread, RenderThread, TranslationThread, Workers,
      IpcThread

LEMMA TicketsStep == TypeOK /\ TicketsMatch /\ [Next]_vars => TicketsMatch'
<1> SUFFICES ASSUME TypeOK, TicketsMatch, [Next]_vars PROVE TicketsMatch'
  OBVIOUS
<1> USE EmptyValues
<1>1. ticket \in Nat /\ pending.ticket \in Nat /\ running.ticket \in Nat
  BY DEF TypeOK, Job
<1>2. CASE Unposted
  BY <1>2 DEF Unposted, TicketsMatch, Source
<1>3. CASE CapturePosts
  <2>1. CASE found.tr = "waiting"
    <3>1. /\ translating' = found /\ ticket' = ticket + 1 /\ running' = running
          /\ pending' = [ticket |-> ticket + 1, of |-> Source(found)]
      BY <1>3, <2>1 DEF CapturePosts
    <3>2. pending'.ticket = ticket' /\ pending'.of = Source(translating)'
      BY <3>1 DEF Source
    <3>3. running'.ticket < ticket'
      BY <1>1, <3>1 DEF TicketsMatch
    <3> QED BY <1>1, <3>1, <3>2, <3>3 DEF TicketsMatch
  <2>2. CASE found.tr # "waiting"
    BY <1>3, <2>2 DEF CapturePosts, TicketsMatch
  <2> QED BY <2>1, <2>2
<1>4. CASE TranslatorTake
  BY <1>1, <1>4 DEF TranslatorTake, TicketsMatch, Source
<1>5. CASE TranslationDone
  BY <1>1, <1>5 DEF TranslationDone, TicketsMatch, Source
<1> QED BY <1>2, <1>3, <1>4, <1>5, TicketStep

LEMMA OriginTranslation ==
  ASSUME TranslationInv, NEW p, Origin(p), p.tr # "none"
  PROVE  p.trOf = Source(p)
<1>1. /\ TypeOK /\ TranslationOfItsOwn /\ TicketsMatch
      /\ translating \in Popup /\ running \in Job /\ capturing \in Request /\ client.gen \in Nat
  BY DEF TranslationInv, TypeOK
<1>2. Popups \subseteq Popup
  BY <1>1, Fields DEF Popups, TypeOK
<1>3. CASE p \in Popups \cup {NoPopup}
  BY <1>1, <1>3 DEF TranslationOfItsOwn, NoPopup
<1>4. CASE \E q \in Popups : p = [q EXCEPT !.marked = TRUE]
  <2>1. PICK q \in Popups : p = [q EXCEPT !.marked = TRUE]
    BY <1>4
  <2>2. p.tr = q.tr /\ p.trOf = q.trOf /\ Source(p) = Source(q)
    BY <1>2, <2>1 DEF Popup, Source
  <2> QED BY <1>1, <2>2 DEF TranslationOfItsOwn
<1>5. CASE \E t \in Texts, known \in BOOLEAN : p = FoundPopup(capturing, t, known)
  BY <1>1, <1>5, FoundType, TextsRead
<1>6. CASE p = [NoPopup EXCEPT !.gen = client.gen]
  BY <1>6 DEF NoPopup
<1>7. CASE /\ running # NoJob /\ running.ticket = ticket /\ translating # NoPopup
           /\ p = [translating EXCEPT !.tr = "done", !.trOf = running.of]
  <2>1. running.of = Source(translating)
    BY <1>1, <1>7 DEF TicketsMatch
  <2>2. p.trOf = running.of /\ Source(p) = Source(translating)
    BY <1>1, <1>7, TranslatedType, Zenon
  <2> QED BY <2>1, <2>2
<1> QED BY <1>3, <1>4, <1>5, <1>6, <1>7 DEF Origin

\* A popup shows the translation of its own text and no other: a translation that
\* comes late goes into the popup it was asked for, or nowhere.
THEOREM TranslationsInPlace == Spec => []TranslationOfItsOwn
<1>1. Init => TranslationInv
  BY TranslationInit
<1>2. TranslationInv /\ [Next]_vars => TranslationInv'
  <2> SUFFICES ASSUME TranslationInv, [Next]_vars PROVE TranslationInv'
    OBVIOUS
  <2>1. TypeOK' /\ TicketsMatch'
    BY TypeStep, TicketsStep DEF TranslationInv
  <2>2. ASSUME NEW p \in Popups', p.tr # "none" PROVE p.trOf = Source(p)
    BY <2>2, PopupOrigin, OriginTranslation DEF TranslationInv
  <2>3. TranslationOfItsOwn'
    BY <2>2 DEF TranslationOfItsOwn, Source
  <2> QED BY <2>1, <2>3 DEF TranslationInv
<1>3. TranslationInv => TranslationOfItsOwn
  BY DEF TranslationInv
<1> QED BY <1>1, <1>2, <1>3, PTL DEF Spec

-----------------------------------------------------------------------------
(* The wheel.                                                              *)

\* A step that leaves a popup up leaves no turn of the wheel kept, or changes neither.
TurnsUsed ==
  \/ UNCHANGED <<visible, pendingWheel>>
  \/ visible' = FALSE /\ UNCHANGED pendingWheel
  \/ pendingWheel' = 0
  \/ ~visible /\ visible' = visible /\ \E delta \in Turns : TRUE

LEMMA TurnStep == [Next]_vars => TurnsUsed
<1> SUFFICES ASSUME [Next]_vars PROVE TurnsUsed
  OBVIOUS
<1> USE DEF TurnsUsed
<1>1. CASE User
  <2>1. CASE Scan
    BY <2>1 DEF Scan, screen
  <2>2. CASE Selection
    BY <2>2 DEF Selection, uiOwn
  <2>6. CASE AddNote
    BY <2>6 DEF AddNote, uiOwn
  <2>3. CASE TriggerReleased
    BY <2>3 DEF TriggerReleased
  <2>4. CASE ClickOutside
    BY <2>4 DEF ClickOutside, Dismiss, wheel
  <2>5. CASE Wheel
    BY <2>5 DEF Wheel, screen
  <2> QED BY <1>1, <2>1, <2>2, <2>3, <2>4, <2>5, <2>6 DEF User
<1>2. CASE UiTask
  BY <1>2 DEF UiTask, ShowBegin, ShowEnd, RunNothing, RunDismissal, RunNoteAdded, RunPointer,
              Dismiss, uiOwn, screen, wheel, shared
<1>3. CASE CaptureThread
  BY <1>3 DEF CaptureThread, CaptureTake, CaptureFinds, CaptureFindsNothing, CapturePosts, uiOwn
<1>4. CASE RenderThread
  BY <1>4 DEF RenderThread, RenderTake, RenderRest, RenderPost, uiOwn
<1>5. CASE TranslationThread
  BY <1>5 DEF TranslationThread, TranslatorTake, TranslationDone, uiOwn
<1>6. CASE Workers
  BY <1>6 DEF Workers, NotesAsk, NotesAnswered, NotesPost, NoteAdded, uiOwn
<1>7. CASE IpcThread
  BY <1>7 DEF IpcThread, ClientShow, ClientGivesUp, ClientNumbers, ClientPosts, ClientHide,
              SetPaused, ClientReloads, PostAside, uiOwn
<1>8. CASE UNCHANGED vars
  BY <1>8 DEF vars
<1> QED BY <1>1, <1>2, <1>3, <1>4, <1>5, <1>6, <1>7, <1>8 DEF Next

\* Turns of the wheel are kept only while no popup is up (onAdjustLength, and the render
\* thread's task, which applies them as it shows one): none is left for a later popup to be
\* surprised by.
THEOREM TurnsGoToNextPopup == Spec => []WheelKeptForNextPopup
<1>1. Init => WheelKeptForNextPopup
  BY DEF Init, WheelKeptForNextPopup
<1>2. WheelKeptForNextPopup /\ [Next]_vars => WheelKeptForNextPopup'
  BY TurnStep DEF TurnsUsed, WheelKeptForNextPopup
<1> QED BY <1>1, <1>2, PTL DEF Spec

-----------------------------------------------------------------------------
(* The tasks of the UI thread.                                             *)

LEMMA Taken ==
  ASSUME tasks \in Seq(Task), tasks # <<>>, tasks' = Tail(tasks)
  PROVE  /\ Len(tasks) \in Nat /\ DOMAIN tasks = 1 .. Len(tasks) /\ Head(tasks) = tasks[1]
         /\ tasks' \in Seq(Task) /\ DOMAIN tasks' = 1 .. Len(tasks) - 1
         /\ \A i \in DOMAIN tasks' : tasks'[i] = tasks[i + 1]
BY HeadTailProperties

LEMMA Put ==
  ASSUME tasks \in Seq(Task), NEW task \in Task, tasks' = Append(tasks, task)
  PROVE  /\ Len(tasks) \in Nat /\ DOMAIN tasks = 1 .. Len(tasks)
         /\ tasks' \in Seq(Task) /\ DOMAIN tasks' = 1 .. Len(tasks) + 1
         /\ tasks'[Len(tasks) + 1] = task
         /\ \A i \in DOMAIN tasks : tasks'[i] = tasks[i]
BY AppendProperties

\* What a step does to the tasks and to the pause: the first is taken, or one more posted.
TaskTaken ==
  /\ tasks # <<>> /\ tasks' = Tail(tasks) /\ UNCHANGED paused
  /\ Head(tasks).type = "configure" => RunDismissal
  /\ Head(tasks).type = "show" => ShowBegin

TaskPosted ==
  \E task \in Task :
    /\ tasks' = Append(tasks, task)
    /\ IF task.type = "configure" THEN task.flag = paused' ELSE UNCHANGED paused
    /\ task.type = "show" => RenderPost /\ task.popup = drawing
    /\ task.type = "added" => adding # {}

LEMMA PlainTasks ==
  ASSUME NEW kind \in {"pointer", "nothing", "dismiss", "configure", "added"}, NEW g \in Nat,
         NEW flag \in BOOLEAN
  PROVE  /\ PlainTask(kind, g, flag) \in Task /\ PlainTask(kind, g, flag).type = kind
         /\ PlainTask(kind, g, flag).flag = flag
BY TaskTypes DEF PlainTask

LEMMA TasksStep == TypeOK /\ [Next]_vars => UNCHANGED <<tasks, paused>> \/ TaskTaken \/ TaskPosted
<1> SUFFICES ASSUME TypeOK, [Next]_vars
             PROVE  UNCHANGED <<tasks, paused>> \/ TaskTaken \/ TaskPosted
  OBVIOUS
<1>1. CASE User
  <2>1. CASE Scan
    BY <2>1 DEF Scan
  <2>2. CASE Selection
    BY <2>2 DEF Selection
  <2>3. CASE TriggerReleased \/ ClickOutside \/ Wheel \/ AddNote
    BY <2>3 DEF TriggerReleased, ClickOutside, Wheel, AddNote
  <2> QED BY <1>1, <2>1, <2>2, <2>3 DEF User
<1>2. CASE ShowBegin \/ RunNothing \/ RunDismissal \/ RunNoteAdded \/ RunPointer
  <2>1. CASE ShowBegin
    BY <2>1 DEF ShowBegin, NextTask, TaskTaken
  <2>2. CASE RunDismissal
    BY <2>2 DEF RunDismissal, TaskTaken
  <2>3. CASE RunNothing
    BY <2>3 DEF RunNothing, NextTask, TaskTaken
  <2>4. CASE RunNoteAdded
    BY <2>4 DEF RunNoteAdded, NextTask, TaskTaken
  <2>5. CASE RunPointer
    BY <2>5 DEF RunPointer, NextTask, TaskTaken
  <2> QED BY <1>2, <2>1, <2>2, <2>3, <2>4, <2>5
<1>3. CASE ShowEnd \/ CaptureTake \/ CaptureFinds \/ CapturePosts \/ RenderTake \/ RenderRest
  BY <1>3 DEF ShowEnd, CaptureTake, CaptureFinds, CapturePosts, RenderTake, RenderRest
<1>4. CASE CaptureFindsNothing
  <2>1. capturing.gen \in Nat /\ HideOnNoResult \in BOOLEAN
    BY Fields, PipelineAssumption DEF TypeOK
  <2> DEFINE task == PlainTask("nothing", capturing.gen, HideOnNoResult)
  <2>2. task \in Task /\ task.type = "nothing" /\ tasks' = Append(tasks, task) /\ UNCHANGED paused
    BY <1>4, <2>1, PlainTasks DEF CaptureFindsNothing, Post
  <2> QED BY <2>2 DEF TaskPosted
<1>5. CASE RenderPost
  <2>1. PICK whole \in BOOLEAN : Post(ShowTask(drawing, whole))
    BY <1>5 DEF RenderPost
  <2>2. /\ ShowTask(drawing, whole) \in Task /\ ShowTask(drawing, whole).popup = drawing
        /\ ShowTask(drawing, whole).type = "show"
    BY <2>1, TaskTypes DEF TypeOK, ShowTask
  <2>3. UNCHANGED paused
    BY <1>5 DEF RenderPost
  <2> QED BY <1>5, <2>1, <2>2, <2>3 DEF TaskPosted, Post
<1>6. CASE TranslationThread
  BY <1>6 DEF TranslationThread, TranslatorTake, TranslationDone
<1>7. CASE Workers
  <2>1. CASE \E c \in checks : NotesAsk(c) \/ NotesAnswered(c) \/ NotesPost(c)
    BY <2>1 DEF NotesAsk, NotesAnswered, NotesPost
  <2>2. ASSUME NEW g \in adding, NoteAdded(g) PROVE TaskPosted
    <3>1. PICK present \in BOOLEAN : Post(PlainTask("added", g, present))
      BY <2>2 DEF NoteAdded
    <3>2. g \in Nat /\ UNCHANGED paused /\ adding # {}
      BY <2>2 DEF TypeOK, NoteAdded
    <3>3. /\ PlainTask("added", g, present) \in Task
          /\ PlainTask("added", g, present).type = "added"
      BY <3>2, PlainTasks
    <3> QED BY <3>1, <3>2, <3>3 DEF TaskPosted, Post
  <2> QED BY <1>7, <2>1, <2>2 DEF Workers
<1>8. CASE ClientShow \/ ClientHide
  <2>1. PICK kind \in {"pointer", "dismiss"} : Post(PlainTask(kind, 0, FALSE)) /\ UNCHANGED paused
    BY <1>8 DEF ClientShow, ClientHide
  <2>2. PlainTask(kind, 0, FALSE) \in Task /\ PlainTask(kind, 0, FALSE).type = kind
    BY PlainTasks
  <2> QED BY <2>1, <2>2 DEF TaskPosted, Post
<1>9. CASE SetPaused
  <2>1. Post(PlainTask("configure", 0, paused')) /\ paused' \in BOOLEAN
    BY <1>9 DEF SetPaused, TypeOK
  <2>2. /\ PlainTask("configure", 0, paused') \in Task
        /\ PlainTask("configure", 0, paused').type = "configure"
        /\ PlainTask("configure", 0, paused').flag = paused'
    BY <2>1, PlainTasks
  <2> QED BY <2>1, <2>2 DEF TaskPosted, Post
<1>10. CASE ClientGivesUp \/ ClientNumbers \/ ClientPosts \/ ClientReloads \/ PostAside
  BY <1>10 DEF ClientGivesUp, ClientNumbers, ClientPosts, ClientReloads, PostAside
<1>11. CASE UNCHANGED vars
  BY <1>11 DEF vars
<1> QED BY <1>1, <1>2, <1>3, <1>4, <1>5, <1>6, <1>7, <1>8, <1>9, <1>10, <1>11
        DEF Next, UiTask, CaptureThread, RenderThread, IpcThread

-----------------------------------------------------------------------------
(* Scanning paused.                                                        *)

\* The pause was taken in by the UI thread.
Settled == paused /\ \A i \in DOMAIN tasks : tasks[i].type # "configure"

\* The last configuration on its way to the UI thread says what scan.pause said last.
LastConfigure ==
  \A i \in DOMAIN tasks :
    tasks[i].type = "configure" /\ (\A j \in DOMAIN tasks : j > i => tasks[j].type # "configure")
      => tasks[i].flag = paused

\* From then on all that was looked up is closed, and nothing is being looked up.
NothingLookedUp ==
  Settled => /\ \A p \in Popups : p.text # Nothing => p.gen <= cancelled
             /\ captureRequest.gen <= cancelled /\ capturing.gen <= cancelled

\* Without turns of the wheel none is kept; without popup.show every popup was looked up.
NoTurns == Turns = {} => pendingWheel = 0
NoClientPopups ==
  ~ClientPopups => /\ client.step \in {"idle", "reloading"} /\ client.gen = 0
                   /\ \A p \in Popups : p.gen > 0 => p.text # Nothing

QuietInv == ScreenInv /\ LastConfigure /\ NothingLookedUp /\ NoTurns /\ NoClientPopups

LEMMA QuietInit == Init => QuietInv
<1> SUFFICES ASSUME Init PROVE QuietInv
  OBVIOUS
<1>1. ScreenInv
  BY ScreenInit
<1>2. DOMAIN tasks = {}
  BY DEF Init
<1>3. Popups = {NoPopup} /\ NoPopup.gen = 0 /\ NoPopup.text = Nothing
  BY <1>2 DEF Init, Popups, NoTask, NoPopup
<1>4. LastConfigure /\ NothingLookedUp
  BY <1>2, <1>3, EmptyValues DEF LastConfigure, NothingLookedUp, Settled, Init
<1>5. NoTurns /\ NoClientPopups
  BY <1>3 DEF NoTurns, NoClientPopups, Init
<1> QED BY <1>1, <1>4, <1>5 DEF QuietInv

LEMMA LastConfigureStep == TypeOK /\ LastConfigure /\ [Next]_vars => LastConfigure'
<1> SUFFICES ASSUME TypeOK, LastConfigure, [Next]_vars PROVE LastConfigure'
  OBVIOUS
<1>1. tasks \in Seq(Task)
  BY DEF TypeOK
<1>2. CASE UNCHANGED <<tasks, paused>>
  BY <1>2 DEF LastConfigure
<1>3. CASE TaskTaken
  <2> SUFFICES ASSUME NEW i \in DOMAIN tasks', tasks'[i].type = "configure",
                      \A j \in DOMAIN tasks' : j > i => tasks'[j].type # "configure"
               PROVE  tasks'[i].flag = paused'
    BY DEF LastConfigure
  <2>1. /\ Len(tasks) \in Nat /\ DOMAIN tasks = 1 .. Len(tasks) /\ DOMAIN tasks' = 1 .. Len(tasks) - 1
        /\ \A j \in DOMAIN tasks' : tasks'[j] = tasks[j + 1]
    BY <1>1, <1>3, Taken DEF TaskTaken
  <2>2. i + 1 \in DOMAIN tasks /\ tasks'[i] = tasks[i + 1]
    BY <2>1
  <2>3. ASSUME NEW j \in DOMAIN tasks, j > i + 1 PROVE tasks[j].type # "configure"
    <3>1. j - 1 \in DOMAIN tasks' /\ j - 1 > i /\ tasks'[j - 1] = tasks[j]
      BY <2>1, <2>3
    <3> QED BY <3>1
  <2> QED BY <1>3, <2>2, <2>3 DEF LastConfigure, TaskTaken
<1>4. CASE TaskPosted
  <2> SUFFICES ASSUME NEW i \in DOMAIN tasks', tasks'[i].type = "configure",
                      \A j \in DOMAIN tasks' : j > i => tasks'[j].type # "configure"
               PROVE  tasks'[i].flag = paused'
    BY DEF LastConfigure
  <2>1. PICK task \in Task :
          /\ tasks' = Append(tasks, task)
          /\ IF task.type = "configure" THEN task.flag = paused' ELSE UNCHANGED paused
    BY <1>4 DEF TaskPosted
  <2>2. /\ Len(tasks) \in Nat /\ DOMAIN tasks = 1 .. Len(tasks) /\ DOMAIN tasks' = 1 .. Len(tasks) + 1
        /\ tasks'[Len(tasks) + 1] = task /\ \A j \in DOMAIN tasks : tasks'[j] = tasks[j]
    BY <1>1, <2>1, Put
  <2>3. CASE i = Len(tasks) + 1
    BY <2>1, <2>2, <2>3
  <2>4. CASE i # Len(tasks) + 1
    <3>1. i \in DOMAIN tasks /\ Len(tasks) + 1 \in DOMAIN tasks' /\ Len(tasks) + 1 > i
      BY <2>2, <2>4
    <3>2. UNCHANGED paused
      BY <2>1, <2>2, <3>1
    <3>3. \A j \in DOMAIN tasks : j \in DOMAIN tasks' /\ tasks'[j] = tasks[j]
      BY <2>2
    <3> QED BY <3>1, <3>2, <3>3 DEF LastConfigure
  <2> QED BY <2>3, <2>4
<1> QED BY <1>2, <1>3, <1>4, TasksStep

\* The pause is taken in when its configuration is, and everything is closed then.
LEMMA SettledStep ==
  ASSUME TypeOK, LastConfigure, [Next]_vars, Settled'
  PROVE  Settled \/ (cancelled' = generation /\ generation' = generation)
<1>1. tasks \in Seq(Task)
  BY DEF TypeOK
<1>2. CASE UNCHANGED <<tasks, paused>>
  BY <1>2 DEF Settled
<1>3. CASE TaskTaken
  <2>1. /\ Len(tasks) \in Nat /\ DOMAIN tasks = 1 .. Len(tasks) /\ DOMAIN tasks' = 1 .. Len(tasks) - 1
        /\ \A j \in DOMAIN tasks' : tasks'[j] = tasks[j + 1]
        /\ Head(tasks) = tasks[1] /\ UNCHANGED paused /\ Len(tasks) > 0
    BY <1>1, <1>3, Taken, EmptySeq DEF TaskTaken
  <2>2. ASSUME NEW j \in DOMAIN tasks, j > 1 PROVE tasks[j].type # "configure"
    <3>1. j - 1 \in DOMAIN tasks' /\ tasks'[j - 1] = tasks[j]
      BY <2>1, <2>2
    <3> QED BY <3>1 DEF Settled
  <2>3. CASE Head(tasks).type # "configure"
    <3>1. \A j \in DOMAIN tasks : tasks[j].type # "configure"
      BY <2>1, <2>2, <2>3
    <3> QED BY <2>1, <3>1 DEF Settled
  <2>4. CASE Head(tasks).type = "configure"
    <3>1. 1 \in DOMAIN tasks /\ tasks[1].type = "configure"
      BY <2>1, <2>4
    <3>2. Head(tasks).flag = paused /\ paused
      BY <2>1, <2>2, <3>1 DEF LastConfigure, Settled
    <3>3. Dismiss(generation) /\ generation' = generation
      BY <1>3, <2>4, <3>2 DEF TaskTaken, RunDismissal
    <3> QED BY <3>3 DEF Dismiss
  <2> QED BY <2>3, <2>4
<1>4. CASE TaskPosted
  <2>1. PICK task \in Task :
          /\ tasks' = Append(tasks, task)
          /\ IF task.type = "configure" THEN task.flag = paused' ELSE UNCHANGED paused
    BY <1>4 DEF TaskPosted
  <2>2. /\ Len(tasks) \in Nat /\ DOMAIN tasks = 1 .. Len(tasks) /\ DOMAIN tasks' = 1 .. Len(tasks) + 1
        /\ tasks'[Len(tasks) + 1] = task /\ \A j \in DOMAIN tasks : tasks'[j] = tasks[j]
    BY <1>1, <2>1, Put
  <2>3. task.type # "configure" /\ \A j \in DOMAIN tasks : tasks[j].type # "configure"
    BY <2>2 DEF Settled
  <2> QED BY <2>1, <2>3 DEF Settled
<1> QED BY <1>2, <1>3, <1>4, TasksStep

\* While scanning is paused only the wheel has something looked up.
LEMMA PausedRequests ==
  ASSUME TypeOK, paused, [Next]_vars
  PROVE  \/ captureRequest'.gen \in {captureRequest.gen, 0}
         \/ visible /\ UiFree /\ Turns # {}
         \/ ShowEnd /\ pendingWheel # 0
<1>1. CASE User
  <2>1. ~Scan /\ ~Selection
    BY DEF Scan, Selection
  <2>2. CASE Wheel
    BY <2>2 DEF Wheel
  <2>3. CASE TriggerReleased \/ ClickOutside \/ AddNote
    BY <2>3 DEF TriggerReleased, ClickOutside, AddNote
  <2> QED BY <1>1, <2>1, <2>2, <2>3 DEF User
<1>2. CASE UiTask
  BY <1>2 DEF UiTask, ShowBegin, ShowEnd, RunNothing, RunDismissal, RunNoteAdded, RunPointer
<1>3. CASE CaptureThread
  BY <1>3, EmptyValues DEF CaptureThread, CaptureTake, CaptureFinds, CaptureFindsNothing,
                           CapturePosts
<1>4. CASE RenderThread
  BY <1>4 DEF RenderThread, RenderTake, RenderRest, RenderPost
<1>5. CASE TranslationThread
  BY <1>5 DEF TranslationThread, TranslatorTake, TranslationDone
<1>6. CASE Workers
  BY <1>6 DEF Workers, NotesAsk, NotesAnswered, NotesPost, NoteAdded
<1>7. CASE IpcThread
  BY <1>7, EmptyValues DEF IpcThread, ClientShow, ClientGivesUp, ClientNumbers, ClientPosts,
                           ClientHide, SetPaused, ClientReloads, PostAside
<1>8. CASE UNCHANGED vars
  BY <1>8 DEF vars
<1> QED BY <1>1, <1>2, <1>3, <1>4, <1>5, <1>6, <1>7, <1>8 DEF Next

LEMMA ClientStep == ~ClientPopups /\ NoClientPopups /\ TypeOK /\ [Next]_vars =>
                      client'.step \in {"idle", "reloading"} /\ client'.gen = 0
<1> SUFFICES ASSUME ~ClientPopups, NoClientPopups, TypeOK, [Next]_vars
             PROVE  client'.step \in {"idle", "reloading"} /\ client'.gen = 0
  OBVIOUS
<1>1. client.step \in {"idle", "reloading"} /\ client.gen = 0 /\ client.step # "asking"
  BY DEF NoClientPopups
<1>2. CASE UNCHANGED client
  BY <1>1, <1>2
<1>3. CASE IpcThread
  <2>1. ~ClientShow /\ ~ClientGivesUp /\ ~ClientNumbers /\ ~ClientPosts
    BY <1>1 DEF ClientShow, ClientGivesUp, ClientNumbers, ClientPosts
  <2>2. CASE SetPaused
    BY <1>1, <2>2 DEF SetPaused, TypeOK
  <2>3. CASE ClientReloads
    BY <1>1, <2>3 DEF ClientReloads, TypeOK
  <2>4. CASE ClientHide \/ PostAside
    BY <1>1, <2>4 DEF ClientHide, PostAside
  <2> QED BY <1>3, <2>1, <2>2, <2>3, <2>4 DEF IpcThread
<1>4. CASE RunPointer
  BY <1>1, <1>4 DEF RunPointer
<1>5. CASE User
  <2>1. CASE Scan
    BY <1>2, <2>1 DEF Scan
  <2>2. CASE Selection
    BY <1>2, <2>2 DEF Selection
  <2>3. CASE TriggerReleased \/ ClickOutside \/ Wheel \/ AddNote
    BY <1>2, <2>3 DEF TriggerReleased, ClickOutside, Wheel, AddNote
  <2> QED BY <1>5, <2>1, <2>2, <2>3 DEF User
<1>6. CASE UiTask
  BY <1>2, <1>4, <1>6 DEF UiTask, ShowBegin, ShowEnd, RunNothing, RunDismissal, RunNoteAdded
<1>7. CASE CaptureThread
  BY <1>2, <1>7 DEF CaptureThread, CaptureTake, CaptureFinds, CaptureFindsNothing, CapturePosts
<1>8. CASE RenderThread
  BY <1>2, <1>8 DEF RenderThread, RenderTake, RenderRest, RenderPost
<1>9. CASE TranslationThread
  BY <1>2, <1>9 DEF TranslationThread, TranslatorTake, TranslationDone
<1>10. CASE Workers
  BY <1>2, <1>10 DEF Workers, NotesAsk, NotesAnswered, NotesPost, NoteAdded
<1>11. CASE UNCHANGED vars
  BY <1>2, <1>11 DEF vars
<1> QED BY <1>3, <1>5, <1>6, <1>7, <1>8, <1>9, <1>10, <1>11 DEF Next

\* What a popup of after the step shows, and how new it is, if it was not asked for by a client.
LEMMA OriginText ==
  ASSUME TypeOK, NEW p, Origin(p)
  PROVE  \/ \E q \in Popups : q \in Popup /\ p.text = q.text /\ p.gen = q.gen
         \/ p.text \in Texts /\ p.gen = capturing.gen
         \/ p.text = Nothing /\ p.gen \in {0, client.gen}
<1>1. Popups \subseteq Popup
  BY Fields DEF Popups, TypeOK
<1>2. CASE p \in Popups \cup {NoPopup}
  BY <1>1, <1>2 DEF NoPopup
<1>3. CASE \E q \in Popups : p = [q EXCEPT !.marked = TRUE]
  <2>1. PICK q \in Popups : p = [q EXCEPT !.marked = TRUE]
    BY <1>3
  <2>2. p.text = q.text /\ p.gen = q.gen
    BY <1>1, <2>1 DEF Popup
  <2> QED BY <1>1, <2>2
<1>4. CASE \E t \in Texts, known \in BOOLEAN : p = FoundPopup(capturing, t, known)
  BY <1>4 DEF FoundPopup
<1>5. CASE p = [NoPopup EXCEPT !.gen = client.gen]
  BY <1>5 DEF NoPopup
<1>6. CASE p = [translating EXCEPT !.tr = "done", !.trOf = running.of]
  <2>1. translating \in Popups /\ translating \in Popup
    BY DEF Popups, TypeOK
  <2>2. p.text = translating.text /\ p.gen = translating.gen
    <3> DEFINE q == [translating EXCEPT !.tr = "done"]
    <3>1. q.text = translating.text /\ q.gen = translating.gen /\ DOMAIN q = DOMAIN translating
      BY <2>1 DEF Popup
    <3>2. DOMAIN translating = {"gen", "text", "length", "screen", "keeps", "tr", "trOf", "marked"}
      BY <2>1 DEF Popup
    <3>3. p = [q EXCEPT !.trOf = running.of]
      BY <1>6
    <3> HIDE DEF q
    <3> QED BY <3>1, <3>2, <3>3
  <2> QED BY <2>1, <2>2
<1> QED BY <1>2, <1>3, <1>4, <1>5, <1>6 DEF Origin

LEMMA NoClientPopupsStep == TypeOK /\ NoClientPopups /\ [Next]_vars => NoClientPopups'
<1> SUFFICES ASSUME TypeOK, NoClientPopups, [Next]_vars, ~ClientPopups,
                    NEW p \in Popups', p.gen > 0
             PROVE  p.text # Nothing
  BY ClientStep DEF NoClientPopups
<1>1. Origin(p)
  BY PopupOrigin
<1>2. client.gen = 0 /\ \A q \in Popups : q.gen > 0 => q.text # Nothing
  BY DEF NoClientPopups
<1> QED BY <1>1, <1>2, OriginText, TextsRead

LEMMA NothingLookedUpStep ==
  ASSUME QuietInv, [Next]_vars, Turns = {} \/ ~ClientPopups
  PROVE  NothingLookedUp'
<1> SUFFICES ASSUME Settled'
             PROVE  /\ \A p \in Popups' : p.text # Nothing => p.gen <= cancelled'
                    /\ captureRequest'.gen <= cancelled' /\ capturing'.gen <= cancelled'
  BY DEF NothingLookedUp
<1>1. /\ TypeOK /\ NothingFromTheFuture /\ OnScreen /\ LastConfigure /\ NothingLookedUp
      /\ NoTurns /\ NoClientPopups
  BY DEF QuietInv, ScreenInv
<1>2. TypeOK' /\ NothingFromTheFuture' /\ Numbering
  BY <1>1, TypeStep, FutureStep, NumberingStep
<1>3. CASE cancelled' = generation /\ generation' = generation
  BY <1>2, <1>3 DEF NothingFromTheFuture
<1>4. CASE Settled
  <2>1. /\ cancelled \in Nat /\ cancelled' \in Nat /\ cancelled <= generation
        /\ generation \in Nat /\ generation' \in Nat /\ generation <= generation'
    BY <1>1, <1>2 DEF TypeOK, NothingFromTheFuture, Numbering
  <2>2. cancelled <= cancelled'
    BY <2>1, <1>1, ScreenStep
    DEF ScreenKept, Closing, Dismiss, ShowBegin, ShowEnd, shared
  <2>3. /\ captureRequest.gen <= cancelled /\ capturing.gen <= cancelled
        /\ captureRequest.gen \in Nat /\ capturing.gen \in Nat
        /\ \A p \in Popups : p.text # Nothing => p.gen <= cancelled
    BY <1>1, <1>4, Fields DEF NothingLookedUp, TypeOK
  <2>4. captureRequest'.gen \in {captureRequest.gen, 0}
    <3>1. CASE visible /\ UiFree /\ Turns # {}
      <4>1. current \in Popups /\ cancelled < current.gen /\ current.gen \in Nat
        BY <1>1, <3>1, Fields DEF Popups, OnScreen, TypeOK
      <4>2. current.gen > 0 /\ ~(current.gen <= cancelled)
        BY <2>1, <4>1
      <4> QED BY <1>1, <2>3, <3>1, <4>1, <4>2 DEF NoClientPopups
    <3>2. CASE ShowEnd /\ pendingWheel # 0
      <4>1. showing.popup \in Popups /\ cancelled < showing.popup.gen /\ showing.popup.gen \in Nat
        BY <1>1, <3>2, Fields DEF Popups, OnScreen, TypeOK, ShowEnd
      <4>2. showing.popup.gen > 0 /\ ~(showing.popup.gen <= cancelled)
        BY <2>1, <4>1
      <4>3. ~ClientPopups
        BY <1>1, <3>2 DEF NoTurns
      <4> QED BY <1>1, <2>3, <4>1, <4>2, <4>3 DEF NoClientPopups
    <3> QED BY <1>1, <1>4, <3>1, <3>2, PausedRequests DEF Settled
  <2>5. captureRequest'.gen <= cancelled' /\ capturing'.gen <= cancelled'
    BY <1>2, <2>1, <2>2, <2>3, <2>4 DEF Numbering
  <2>6. ASSUME NEW p \in Popups', p.text # Nothing PROVE p.gen <= cancelled'
    <3>1. Origin(p)
      BY <1>1, <2>6, PopupOrigin
    <3>2. CASE \E q \in Popups : q \in Popup /\ p.text = q.text /\ p.gen = q.gen
      <4>1. PICK q \in Popups : q \in Popup /\ p.text = q.text /\ p.gen = q.gen
        BY <3>2
      <4>2. q.gen <= cancelled /\ q.gen \in Nat
        BY <2>3, <2>6, <4>1, Fields
      <4> QED BY <2>1, <2>2, <4>1, <4>2
    <3>3. CASE p.gen = capturing.gen
      BY <2>1, <2>2, <2>3, <3>3
    <3> QED BY <1>1, <2>6, <3>1, <3>2, <3>3, OriginText
  <2> QED BY <2>5, <2>6
<1> QED BY <1>1, <1>3, <1>4, SettledStep

LEMMA QuietStep ==
  ASSUME QuietInv, [Next]_vars, Turns = {} \/ ~ClientPopups
  PROVE  QuietInv'
<1>1. ScreenInv /\ TypeOK /\ LastConfigure /\ NoTurns /\ NoClientPopups
  BY DEF QuietInv, ScreenInv
<1>2. ScreenInv' /\ LastConfigure' /\ NoClientPopups'
  BY <1>1, ScreenInvStep, LastConfigureStep, NoClientPopupsStep
<1>3. NoTurns'
  BY <1>1, TurnStep DEF NoTurns, TurnsUsed
<1> QED BY <1>2, <1>3, NothingLookedUpStep DEF QuietInv

\* As a client was promised by scan.pause: once the UI thread took the pause in, what was looked
\* up is gone, and nothing on its way brings it back. Only the wheel turned over a popup that a
\* client asked for still looks text up (onAdjustLength does not ask whether scanning is paused).
THEOREM QuietWhilePaused ==
  ASSUME Turns = {} \/ ~ClientPopups
  PROVE  Spec => []PausedIsQuiet
<1>1. Init => QuietInv
  BY QuietInit
<1>2. QuietInv /\ [Next]_vars => QuietInv'
  BY QuietStep
<1>3. QuietInv => PausedIsQuiet
  <2> SUFFICES ASSUME QuietInv, Settled, visible PROVE current.text = Nothing
    BY DEF PausedIsQuiet, Settled
  <2>1. TypeOK /\ OnScreen /\ NothingLookedUp
    BY DEF QuietInv, ScreenInv
  <2>2. current \in Popups /\ cancelled < current.gen /\ cancelled \in Nat /\ current.gen \in Nat
    BY <2>1, Fields DEF OnScreen, Popups, TypeOK
  <2> QED BY <2>1, <2>2 DEF NothingLookedUp
<1> QED BY <1>1, <1>2, <1>3, PTL DEF Spec

-----------------------------------------------------------------------------
(* The popup of the latest lookup.                                         *)

Live == LatestAnswered("posted")
Fits(p, a) == p.gen = a.gen /\ Key(p) = a.key
Latest(p)  == Fits(p, answer)

\* It is on screen, or the last of the popups handed to the UI thread.
LastToShow(queue, a) ==
  \E i \in DOMAIN queue :
    /\ queue[i].type = "show" /\ Fits(queue[i].popup, a)
    /\ \A j \in DOMAIN queue : j > i /\ queue[j].type = "show" => Fits(queue[j].popup, a)
NoneToShow(queue) == \A i \in DOMAIN queue : queue[i].type # "show"
Delivered ==
  \/ LastToShow(tasks, answer)
  \/ /\ NoneToShow(tasks)
     /\ IF UiFree THEN visible /\ Latest(current) ELSE Latest(showing.popup)

\* What comes after it is itself: its fuller image, or the one with its translation.
OnItsWay ==
  Live =>
    /\ translating # NoPopup => Latest(translating)
    /\ renderRequest # NoPopup => Latest(renderRequest)
    /\ renderRequest = NoPopup => /\ drawing # NoPopup => Latest(drawing)
                                  /\ drawing = NoPopup => /\ rest # NoPopup => Latest(rest)
                                                          /\ Delivered

\* Without Anki nothing is drawn again for it.
NobodyRedraws ==
  ~Anki => /\ checks = {} /\ adding = {}
           /\ \A i \in DOMAIN tasks : tasks[i].type # "added"

OnlyWaiting == translating # NoPopup => translating.tr = "waiting"
AnswerPast == answer.gen <= generation

DeliveryInv ==
  ScreenInv /\ NoClientPopups /\ NobodyRedraws /\ OnlyWaiting /\ AnswerPast /\ OnItsWay

LEMMA DeliveryInit == Init => DeliveryInv
<1> SUFFICES ASSUME Init PROVE DeliveryInv
  OBVIOUS
<1>1. ScreenInv /\ NoClientPopups
  BY ScreenInit, QuietInit DEF QuietInv
<1>2. DOMAIN tasks = {}
  BY DEF Init
<1>3. NobodyRedraws /\ OnlyWaiting /\ AnswerPast
  BY <1>2 DEF NobodyRedraws, OnlyWaiting, AnswerPast, Init
<1>4. ~Live
  BY DEF Live, LatestAnswered, Init
<1> QED BY <1>1, <1>3, <1>4 DEF DeliveryInv, OnItsWay

\* How a step changes what the workers of Anki have to do.
WorkersIdle == checks' \subseteq checks \/ Anki \/ checks # {}
AddingIdle  == adding' \subseteq adding \/ Anki

LEMMA AnkiStep == [Next]_vars => WorkersIdle /\ AddingIdle
<1> SUFFICES ASSUME [Next]_vars PROVE WorkersIdle /\ AddingIdle
  OBVIOUS
<1> USE DEF WorkersIdle, AddingIdle
<1>1. CASE Scan
  BY <1>1 DEF Scan, workers
<1>2. CASE Selection
  BY <1>2 DEF Selection, workers
<1>3. CASE TriggerReleased
  BY <1>3 DEF TriggerReleased, workers
<1>4. CASE ClickOutside
  BY <1>4 DEF ClickOutside, workers
<1>5. CASE Wheel
  BY <1>5 DEF Wheel, workers
<1>6. CASE AddNote
  BY <1>6 DEF AddNote
<1>7. CASE UiTask
  BY <1>7 DEF UiTask, ShowBegin, ShowEnd, RunNothing, RunDismissal, RunNoteAdded, RunPointer,
              workers
<1>8. CASE CaptureThread
  BY <1>8 DEF CaptureThread, CaptureTake, CaptureFinds, CaptureFindsNothing, CapturePosts, workers
<1>9. CASE RenderThread
  BY <1>9 DEF RenderThread, RenderTake, RenderRest, RenderPost, workers
<1>10. CASE TranslationThread
  BY <1>10 DEF TranslationThread, TranslatorTake, TranslationDone, workers
<1>11. CASE Workers
  BY <1>11 DEF Workers, NotesAsk, NotesAnswered, NotesPost, NoteAdded
<1>12. CASE IpcThread
  BY <1>12 DEF IpcThread, ClientShow, ClientGivesUp, ClientNumbers, ClientPosts, ClientHide,
               SetPaused, ClientReloads, PostAside, workers
<1>13. CASE UNCHANGED vars
  BY <1>13 DEF vars
<1> QED BY <1>1, <1>2, <1>3, <1>4, <1>5, <1>6, <1>7, <1>8, <1>9, <1>10, <1>11, <1>12, <1>13
        DEF Next, User

LEMMA NobodyRedrawsStep == TypeOK /\ NobodyRedraws /\ [Next]_vars => NobodyRedraws'
<1> SUFFICES ASSUME TypeOK, NobodyRedraws, [Next]_vars, ~Anki
             PROVE  /\ checks' = {} /\ adding' = {}
                    /\ \A i \in DOMAIN tasks' : tasks'[i].type # "added"
  BY DEF NobodyRedraws
<1>1. checks = {} /\ adding = {} /\ \A i \in DOMAIN tasks : tasks[i].type # "added"
  BY DEF NobodyRedraws
<1>2. checks' = {} /\ adding' = {}
  BY <1>1, AnkiStep DEF WorkersIdle, AddingIdle
<1>3. tasks \in Seq(Task)
  BY DEF TypeOK
<1>4. CASE TaskTaken
  BY <1>1, <1>2, <1>3, <1>4, Ends DEF TaskTaken
<1>5. CASE TaskPosted
  <2>1. PICK task \in Task : tasks' = Append(tasks, task) /\ task.type # "added"
    BY <1>1, <1>5 DEF TaskPosted
  <2>2. /\ Len(tasks) \in Nat /\ DOMAIN tasks = 1 .. Len(tasks)
        /\ DOMAIN tasks' = 1 .. Len(tasks) + 1 /\ tasks'[Len(tasks) + 1] = task
        /\ \A i \in DOMAIN tasks : tasks'[i] = tasks[i]
    BY <1>3, <2>1, Put
  <2>3. ASSUME NEW i \in DOMAIN tasks' PROVE tasks'[i].type # "added"
    BY <1>1, <2>1, <2>2
  <2> QED BY <1>2, <2>3
<1> QED BY <1>1, <1>2, <1>4, <1>5, TasksStep

\* The answer is no newer than the latest request, and the popup waiting waits.
LEMMA OnlyWaitingStep == OnlyWaiting /\ [Next]_vars => OnlyWaiting'
<1> SUFFICES ASSUME OnlyWaiting, [Next]_vars
             PROVE  translating' \in {translating, NoPopup} \/ translating'.tr = "waiting"
  BY DEF OnlyWaiting
<1>1. CASE Scan
  BY <1>1 DEF Scan
<1>2. CASE Selection
  BY <1>2 DEF Selection, translation
<1>3. CASE TriggerReleased
  BY <1>3 DEF TriggerReleased, translation
<1>4. CASE ClickOutside
  BY <1>4 DEF ClickOutside, translation
<1>5. CASE Wheel
  BY <1>5 DEF Wheel, translation
<1>6. CASE AddNote
  BY <1>6 DEF AddNote, translation
<1>7. CASE UiTask
  BY <1>7 DEF UiTask, ShowBegin, ShowEnd, RunNothing, RunDismissal, RunNoteAdded, RunPointer,
              translation
<1>8. CASE CaptureTake \/ CaptureFinds \/ CaptureFindsNothing
  BY <1>8 DEF CaptureTake, CaptureFinds, CaptureFindsNothing, translation
<1>9. CASE CapturePosts
  BY <1>9 DEF CapturePosts
<1>10. CASE RenderThread
  BY <1>10 DEF RenderThread, RenderTake, RenderRest, RenderPost, translation
<1>11. CASE TranslationThread
  BY <1>11 DEF TranslationThread, TranslatorTake, TranslationDone
<1>12. CASE Workers
  BY <1>12 DEF Workers, NotesAsk, NotesAnswered, NotesPost, NoteAdded, translation
<1>13. CASE IpcThread
  BY <1>13 DEF IpcThread, ClientShow, ClientGivesUp, ClientNumbers, ClientPosts, ClientHide,
               SetPaused, ClientReloads, PostAside, translation
<1>14. CASE UNCHANGED vars
  BY <1>14 DEF vars
<1> QED BY <1>1, <1>2, <1>3, <1>4, <1>5, <1>6, <1>7, <1>8, <1>9, <1>10, <1>11, <1>12, <1>13, <1>14
        DEF Next, User, CaptureThread

\* Answers other than those of popups posted.
AnswerStep ==
  \/ UNCHANGED answer
  \/ answer'.how # "posted" /\ answer'.gen = capturing.gen
  \/ CapturePosts

LEMMA AnswerChanges == [Next]_vars => AnswerStep
<1> SUFFICES ASSUME [Next]_vars PROVE AnswerStep
  OBVIOUS
<1> USE DEF AnswerStep
<1>1. CASE Scan
  BY <1>1 DEF Scan, captureOwn
<1>2. CASE Selection
  BY <1>2 DEF Selection, captureOwn
<1>3. CASE TriggerReleased
  BY <1>3 DEF TriggerReleased, captureOwn
<1>4. CASE ClickOutside
  BY <1>4 DEF ClickOutside, captureOwn
<1>5. CASE Wheel
  BY <1>5 DEF Wheel, captureOwn
<1>6. CASE AddNote
  BY <1>6 DEF AddNote, captureOwn
<1>7. CASE UiTask
  BY <1>7 DEF UiTask, ShowBegin, ShowEnd, RunNothing, RunDismissal, RunNoteAdded, RunPointer,
              captureOwn
<1>8. CASE CaptureTake
  BY <1>8 DEF CaptureTake
<1>9. CASE CaptureFinds
  <2>1. PICK t \in Readings(capturing), known \in BOOLEAN :
          \/ answer' = [gen |-> FoundPopup(capturing, t, known).gen,
                        key |-> Key(FoundPopup(capturing, t, known)),
                        how |-> IF Key(FoundPopup(capturing, t, known)) = shownKey
                                THEN "shown" ELSE "coming"]
          \/ UNCHANGED answer
    BY <1>9 DEF CaptureFinds
  <2>2. FoundPopup(capturing, t, known).gen = capturing.gen
    BY DEF FoundPopup
  <2> QED BY <2>1, <2>2
<1>10. CASE CaptureFindsNothing
  BY <1>10 DEF CaptureFindsNothing
<1>11. CASE CapturePosts
  BY <1>11
<1>12. CASE RenderThread
  BY <1>12 DEF RenderThread, RenderTake, RenderRest, RenderPost, captureOwn
<1>13. CASE TranslationThread
  BY <1>13 DEF TranslationThread, TranslatorTake, TranslationDone, captureOwn
<1>14. CASE Workers
  BY <1>14 DEF Workers, NotesAsk, NotesAnswered, NotesPost, NoteAdded, captureOwn
<1>15. CASE IpcThread
  BY <1>15 DEF IpcThread, ClientShow, ClientGivesUp, ClientNumbers, ClientPosts, ClientHide,
               SetPaused, ClientReloads, PostAside, captureOwn
<1>16. CASE UNCHANGED vars
  BY <1>16 DEF vars
<1> QED BY <1>1, <1>2, <1>3, <1>4, <1>5, <1>6, <1>7, <1>8, <1>9, <1>10, <1>11, <1>12, <1>13, <1>14,
           <1>15, <1>16
        DEF Next, User, CaptureThread

LEMMA AnswerPastStep ==
  TypeOK /\ NothingFromTheFuture /\ AnswerPast /\ [Next]_vars => AnswerPast'
<1> SUFFICES ASSUME TypeOK, NothingFromTheFuture, AnswerPast, [Next]_vars
             PROVE  answer'.gen <= generation'
  BY DEF AnswerPast
<1>1. generation' \in Nat /\ generation \in Nat /\ generation <= generation'
  BY NumberingStep DEF Numbering, TypeOK
<1>2. CASE UNCHANGED answer
  BY <1>1, <1>2 DEF AnswerPast, TypeOK
<1>3. CASE answer'.gen = capturing.gen
  BY <1>1, <1>3, Fields DEF NothingFromTheFuture, TypeOK
<1>4. CASE CapturePosts
  <2>1. answer'.gen = found.gen /\ found \in Popups /\ found \in Popup
    BY <1>4 DEF CapturePosts, Popups, TypeOK
  <2> QED BY <1>1, <2>1, Fields DEF NothingFromTheFuture
<1> QED BY <1>2, <1>3, <1>4, AnswerChanges DEF AnswerStep

\* A posted popup stays the latest as long as nothing is asked for and nothing closed.
LEMMA LiveStep ==
  ASSUME TypeOK, NothingFromTheFuture, AnswerPast, [Next]_vars, Live'
  PROVE  \/ CapturePosts
         \/ /\ Live /\ UNCHANGED <<answer, generation>>
            /\ ScreenKept \/ ShowBegin \/ ShowEnd
<1>1. /\ generation' \in Nat /\ generation \in Nat /\ generation <= generation'
      /\ cancelled \in Nat /\ cancelled' \in Nat /\ answer.gen \in Nat /\ cancelled <= generation
  BY TypeStep, NumberingStep DEF Numbering, TypeOK, NothingFromTheFuture
<1>2. SUFFICES ASSUME ~CapturePosts
               PROVE  /\ Live /\ UNCHANGED <<answer, generation>>
                      /\ ScreenKept \/ ShowBegin \/ ShowEnd
  OBVIOUS
<1>3. answer' = answer
  BY <1>2, AnswerChanges DEF AnswerStep, Live, LatestAnswered
<1>4. answer.how = "posted" /\ answer.gen = generation' /\ answer.gen > cancelled'
  BY <1>3 DEF Live, LatestAnswered
<1>5. generation' = generation
  BY <1>1, <1>4 DEF AnswerPast
<1>6. ~Closing
  BY <1>1, <1>4 DEF Closing, Dismiss
<1>7. ScreenKept \/ ShowBegin \/ ShowEnd
  BY <1>6, ScreenStep
<1>8. cancelled' = cancelled
  BY <1>7 DEF ScreenKept, ShowBegin, ShowEnd, shared
<1> QED BY <1>3, <1>4, <1>5, <1>7, <1>8 DEF Live, LatestAnswered

\* The render mailbox and what the render and the translation thread hold.
MailKept == UNCHANGED <<renderRequest, drawing, rest, translating>>

LEMMA MailStep ==
  ASSUME TypeOK, NobodyRedraws, NoClientPopups, ~Anki, ~ClientPopups, [Next]_vars,
         UNCHANGED generation
  PROVE  MailKept \/ RenderThread \/ CapturePosts \/ TranslationDone
<1> USE DEF MailKept
<1>0. /\ checks = {} /\ adding = {} /\ \A i \in DOMAIN tasks : tasks[i].type # "added"
      /\ client.step \in {"idle", "reloading"} /\ generation \in Nat
  BY DEF NobodyRedraws, NoClientPopups, TypeOK
<1>1. CASE Scan \/ Selection
  <2>1. Scan => NewRequest
    BY Zenon DEF Scan
  <2>2. Selection => NewRequest
    BY Zenon DEF Selection
  <2> QED BY <1>0, <1>1, <2>1, <2>2 DEF NewRequest
<1>2. CASE TriggerReleased \/ ClickOutside \/ AddNote
  BY <1>2 DEF TriggerReleased, ClickOutside, AddNote, renderOwn, translation
<1>3. CASE Wheel
  BY <1>3 DEF Wheel, renderOwn, translation
<1>4. CASE UiTask
  <2>1. ~RunNoteAdded
    <3> SUFFICES ASSUME RunNoteAdded PROVE FALSE
      OBVIOUS
    <3>1. tasks # <<>> /\ tasks' = Tail(tasks) /\ Head(tasks).type = "added" /\ tasks \in Seq(Task)
      BY DEF RunNoteAdded, NextTask, TypeOK
    <3>2. 1 \in DOMAIN tasks /\ Head(tasks) = tasks[1]
      BY <3>1, HeadTailProperties, EmptySeq
    <3> QED BY <1>0, <3>1, <3>2
  <2>2. CASE ShowBegin \/ RunNothing \/ RunDismissal \/ RunPointer
    BY <2>2 DEF ShowBegin, RunNothing, RunDismissal, RunPointer, renderOwn, translation
  <2>3. CASE ShowEnd
    BY <2>3 DEF ShowEnd, renderOwn, translation
  <2> QED BY <1>4, <2>1, <2>2, <2>3 DEF UiTask
<1>5. CASE CaptureTake \/ CaptureFinds \/ CaptureFindsNothing
  BY <1>5 DEF CaptureTake, CaptureFinds, CaptureFindsNothing, renderOwn, translation
<1>6. CASE TranslatorTake
  BY <1>6 DEF TranslatorTake, renderOwn
<1>7. CASE Workers
  BY <1>0, <1>7 DEF Workers
<1>8. CASE IpcThread
  <2>1. ~ClientPosts
    BY <1>0 DEF ClientPosts
  <2> QED BY <1>8, <2>1 DEF IpcThread, ClientShow, ClientGivesUp, ClientNumbers, ClientHide,
                            SetPaused, ClientReloads, PostAside, renderOwn, translation
<1>9. CASE UNCHANGED vars
  BY <1>9 DEF vars
<1> QED BY <1>1, <1>2, <1>3, <1>4, <1>5, <1>6, <1>7, <1>8, <1>9
        DEF Next, User, CaptureThread, TranslationThread

\* What taking or posting a task does to the popups handed over.
LEMMA OtherTaken ==
  ASSUME NEW queue \in Seq(Task), queue # <<>>, Head(queue).type # "show", NEW a
  PROVE  /\ LastToShow(queue, a) => LastToShow(Tail(queue), a)
         /\ NoneToShow(queue) => NoneToShow(Tail(queue))
<1>1. /\ Len(queue) \in Nat /\ DOMAIN queue = 1 .. Len(queue) /\ Head(queue) = queue[1]
      /\ DOMAIN Tail(queue) = 1 .. Len(queue) - 1
      /\ \A i \in DOMAIN Tail(queue) : Tail(queue)[i] = queue[i + 1]
  BY HeadTailProperties
<1>2. ASSUME LastToShow(queue, a) PROVE LastToShow(Tail(queue), a)
  <2>1. PICK i \in DOMAIN queue :
          /\ queue[i].type = "show" /\ Fits(queue[i].popup, a)
          /\ \A j \in DOMAIN queue : j > i /\ queue[j].type = "show" => Fits(queue[j].popup, a)
    BY <1>2 DEF LastToShow
  <2>2. i # 1
    BY <1>1, <2>1
  <2>3. i - 1 \in DOMAIN Tail(queue) /\ Tail(queue)[i - 1] = queue[i]
    BY <1>1, <2>2
  <2>4. \A j \in DOMAIN Tail(queue) :
          j > i - 1 /\ Tail(queue)[j].type = "show" => Fits(Tail(queue)[j].popup, a)
    BY <1>1, <2>1
  <2> QED BY <2>1, <2>3, <2>4 DEF LastToShow
<1>3. NoneToShow(queue) => NoneToShow(Tail(queue))
  BY <1>1 DEF NoneToShow
<1> QED BY <1>2, <1>3

LEMMA OtherPosted ==
  ASSUME NEW queue \in Seq(Task), NEW task \in Task, task.type # "show", NEW a
  PROVE  /\ LastToShow(queue, a) => LastToShow(Append(queue, task), a)
         /\ NoneToShow(queue) => NoneToShow(Append(queue, task))
<1>1. /\ Len(queue) \in Nat /\ DOMAIN queue = 1 .. Len(queue)
      /\ DOMAIN Append(queue, task) = 1 .. Len(queue) + 1
      /\ Append(queue, task)[Len(queue) + 1] = task
      /\ \A i \in DOMAIN queue : Append(queue, task)[i] = queue[i]
  BY AppendProperties
<1>2. LastToShow(queue, a) => LastToShow(Append(queue, task), a)
  BY <1>1 DEF LastToShow
<1>3. NoneToShow(queue) => NoneToShow(Append(queue, task))
  BY <1>1 DEF NoneToShow
<1> QED BY <1>2, <1>3

LEMMA LatestPosted ==
  ASSUME NEW queue \in Seq(Task), NEW task \in Task, task.type = "show", NEW a,
         Fits(task.popup, a)
  PROVE  LastToShow(Append(queue, task), a)
<1>1. /\ Len(queue) \in Nat /\ DOMAIN Append(queue, task) = 1 .. Len(queue) + 1
      /\ Append(queue, task)[Len(queue) + 1] = task
  BY AppendProperties
<1> QED BY <1>1 DEF LastToShow

LEMMA LatestTaken ==
  ASSUME NEW queue \in Seq(Task), queue # <<>>, Head(queue).type = "show", NEW a,
         LastToShow(queue, a)
  PROVE  \/ LastToShow(Tail(queue), a)
         \/ NoneToShow(Tail(queue)) /\ Fits(Head(queue).popup, a)
<1>1. /\ Len(queue) \in Nat /\ DOMAIN queue = 1 .. Len(queue) /\ Head(queue) = queue[1]
      /\ DOMAIN Tail(queue) = 1 .. Len(queue) - 1
      /\ \A i \in DOMAIN Tail(queue) : Tail(queue)[i] = queue[i + 1]
  BY HeadTailProperties
<1>2. PICK i \in DOMAIN queue :
        /\ queue[i].type = "show" /\ Fits(queue[i].popup, a)
        /\ \A j \in DOMAIN queue : j > i /\ queue[j].type = "show" => Fits(queue[j].popup, a)
  BY DEF LastToShow
<1>3. \A j \in DOMAIN Tail(queue) :
        j + 1 >= i /\ Tail(queue)[j].type = "show" => Fits(Tail(queue)[j].popup, a)
  BY <1>1, <1>2
<1>4. CASE \E k \in DOMAIN Tail(queue) : k + 1 >= i /\ Tail(queue)[k].type = "show"
  BY <1>1, <1>3, <1>4 DEF LastToShow
<1>5. CASE \A k \in DOMAIN Tail(queue) : k + 1 >= i => Tail(queue)[k].type # "show"
  <2>1. i = 1
    <3> SUFFICES ASSUME i # 1 PROVE FALSE
      OBVIOUS
    <3>1. i - 1 \in DOMAIN Tail(queue) /\ Tail(queue)[i - 1] = queue[i] /\ (i - 1) + 1 >= i
      BY <1>1
    <3> QED BY <1>2, <1>5, <3>1
  <2> QED BY <1>1, <1>2, <1>5, <2>1 DEF NoneToShow
<1> QED BY <1>4, <1>5

\* What is delivered stays delivered, and what is drawn for it follows it.
LEMMA DeliveredStep ==
  ASSUME TypeOK, [Next]_vars, Live, Delivered, UNCHANGED answer,
         ScreenKept \/ ShowBegin \/ ShowEnd,
         RenderPost => Latest(drawing)
  PROVE  Delivered'
<1>1. tasks \in Seq(Task)
  BY DEF TypeOK
<1>2. CASE ScreenKept /\ ~ShowBegin
  <2>1. UiFree' = UiFree /\ UNCHANGED <<visible, current, showing>>
    BY <1>2 DEF ScreenKept, UiFree
  <2>2. SUFFICES \/ LastToShow(tasks', answer)
                 \/ /\ LastToShow(tasks, answer) => LastToShow(tasks', answer)
                    /\ NoneToShow(tasks) => NoneToShow(tasks')
    BY <2>1 DEF Delivered, Latest
  <2>3. CASE TaskTaken
    <3>1. Head(tasks).type # "show"
      BY <1>2, <2>3 DEF TaskTaken
    <3> QED BY <1>1, <2>3, <3>1, OtherTaken DEF TaskTaken
  <2>4. CASE TaskPosted
    <3>1. PICK task \in Task :
            tasks' = Append(tasks, task) /\ (task.type = "show" => RenderPost /\ task.popup = drawing)
      BY <2>4 DEF TaskPosted
    <3>2. CASE task.type = "show"
      BY <1>1, <3>1, <3>2, LatestPosted DEF Latest
    <3>3. CASE task.type # "show"
      BY <1>1, <3>1, <3>3, OtherPosted
    <3> QED BY <3>2, <3>3
  <2> QED BY <2>3, <2>4, TasksStep
<1>3. CASE ShowBegin
  <2>1. /\ tasks # <<>> /\ tasks' = Tail(tasks) /\ Head(tasks).type = "show" /\ UiFree
        /\ showing' = IF IsCurrent(Head(tasks).popup) THEN Head(tasks) ELSE NoTask
    BY <1>3 DEF ShowBegin, NextTask
  <2>2. ~NoneToShow(tasks)
    BY <1>1, <2>1, HeadTailProperties, EmptySeq DEF NoneToShow
  <2>3. CASE LastToShow(tasks', answer)
    BY <2>3 DEF Delivered
  <2>4. CASE NoneToShow(tasks') /\ Latest(Head(tasks).popup)
    <3>1. IsCurrent(Head(tasks).popup)
      BY <2>4 DEF IsCurrent, Latest, Fits, Live, LatestAnswered
    <3>2. showing' = Head(tasks) /\ ~UiFree'
      BY <2>1, <3>1 DEF UiFree, NoTask
    <3> QED BY <2>4, <3>2 DEF Delivered, Latest
  <2> QED BY <1>1, <2>1, <2>2, <2>3, <2>4, LatestTaken DEF Delivered, Latest
<1>4. CASE ShowEnd
  <2>1. ~UiFree /\ UNCHANGED tasks /\ visible' = TRUE /\ current' = showing.popup /\ UiFree'
    BY <1>4 DEF ShowEnd, UiFree
  <2> QED BY <2>1 DEF Delivered, Latest
<1> QED BY <1>2, <1>3, <1>4

\* One step on its way.
LEMMA OnItsWayStep ==
  ASSUME ~Anki, ~ClientPopups, DeliveryInv, [Next]_vars
  PROVE  OnItsWay'
<1>1. /\ TypeOK /\ NothingFromTheFuture /\ AnswerPast /\ NobodyRedraws /\ NoClientPopups
      /\ OnlyWaiting /\ OnItsWay
  BY DEF DeliveryInv, ScreenInv
<1>2. SUFFICES ASSUME Live'
      PROVE /\ translating' # NoPopup => Fits(translating', answer')
            /\ renderRequest' # NoPopup => Fits(renderRequest', answer')
            /\ renderRequest' = NoPopup =>
                 /\ drawing' # NoPopup => Fits(drawing', answer')
                 /\ drawing' = NoPopup => /\ rest' # NoPopup => Fits(rest', answer')
                                          /\ Delivered'
  BY DEF OnItsWay, Latest
<1>3. CASE CapturePosts
  <2>1. /\ found # NoPopup /\ renderRequest' = found /\ Fits(found, answer')
        /\ translating' \in {found, NoPopup}
    BY <1>3 DEF CapturePosts, Fits
  <2> QED BY <2>1
<1>4. CASE ~CapturePosts
  <2>1. /\ Live /\ UNCHANGED <<answer, generation>>
        /\ ScreenKept \/ ShowBegin \/ ShowEnd
    BY <1>1, <1>2, <1>4, LiveStep
  <2>2. /\ translating # NoPopup => Fits(translating, answer)
        /\ renderRequest # NoPopup => Fits(renderRequest, answer)
        /\ renderRequest = NoPopup =>
             /\ drawing # NoPopup => Fits(drawing, answer)
             /\ drawing = NoPopup => (rest # NoPopup => Fits(rest, answer)) /\ Delivered
    BY <1>1, <2>1 DEF OnItsWay, Latest
  <2>3. \A p : Fits(p, answer) => IsCurrent(p)
    BY <2>1 DEF IsCurrent, Fits, Live, LatestAnswered
  <2>4. Delivered /\ (RenderPost => Fits(drawing, answer)) => Delivered'
    BY <1>1, <2>1, DeliveredStep DEF Latest
  <2>5. CASE MailKept /\ ~RenderThread
    BY <2>1, <2>2, <2>4, <2>5 DEF MailKept, RenderThread
  <2>6. CASE RenderTake
    BY <2>1, <2>2, <2>3, <2>6 DEF RenderTake, translation
  <2>7. CASE RenderRest
    BY <2>1, <2>2, <2>3, <2>7 DEF RenderRest, translation
  <2>8. CASE RenderPost
    <3>1. /\ drawing # NoPopup /\ drawing' = NoPopup /\ rest' \in {drawing, NoPopup}
          /\ UNCHANGED <<renderRequest, translating>>
      BY <2>8 DEF RenderPost, translation
    <3>2. ASSUME renderRequest = NoPopup PROVE Delivered'
      <4>1. Fits(drawing, answer)
        BY <2>2, <3>1, <3>2
      <4>2. tasks \in Seq(Task) /\ drawing \in Popup
        BY <1>1 DEF TypeOK
      <4>3. PICK whole \in BOOLEAN : tasks' = Append(tasks, ShowTask(drawing, whole))
        BY <2>8 DEF RenderPost, Post
      <4>4. /\ ShowTask(drawing, whole) \in Task /\ ShowTask(drawing, whole).popup = drawing
            /\ ShowTask(drawing, whole).type = "show"
        BY <4>2, TaskTypes DEF ShowTask
      <4>5. LastToShow(tasks', answer')
        BY <2>1, <4>1, <4>2, <4>3, <4>4, LatestPosted
      <4> QED BY <4>5 DEF Delivered
    <3> QED BY <2>1, <2>2, <3>1, <3>2
  <2>9. CASE TranslationDone
    <3>1. CASE Overtaken
      <4>1. MailKept /\ ~RenderPost
        BY <2>9, <3>1 DEF TranslationDone, MailKept, renderOwn, RenderPost, Post
      <4> QED BY <2>1, <2>2, <2>4, <4>1 DEF MailKept
    <3>2. CASE ~Overtaken
      <4>1. translating # NoPopup /\ translating \in Popup /\ translating.tr = "waiting"
            /\ Fits(translating, answer) /\ running \in Job
        BY <1>1, <2>2, <3>2 DEF Overtaken, OnlyWaiting, TypeOK
      <4> DEFINE q == [translating EXCEPT !.tr = "done", !.trOf = running.of]
      <4>2. translating' = NoPopup /\ renderRequest' = q
        BY <2>3, <2>9, <3>2, <4>1, Zenon DEF TranslationDone
      <4>3. Fits(q, answer)
        <5> DEFINE r == [translating EXCEPT !.tr = "done"]
        <5>1. /\ r.gen = translating.gen /\ r.text = translating.text /\ r.tr = "done"
              /\ r.length = translating.length /\ r.screen = translating.screen
              /\ DOMAIN r = {"gen", "text", "length", "screen", "keeps", "tr", "trOf", "marked"}
          BY <4>1 DEF Popup
        <5>2. q = [r EXCEPT !.trOf = running.of]
          BY <4>1
        <5> HIDE DEF r, q
        <5>3. /\ q.gen = translating.gen /\ q.text = translating.text /\ q.tr = "done"
              /\ q.length = translating.length /\ q.screen = translating.screen
          BY <5>1, <5>2
        <5> QED BY <4>1, <5>3 DEF Fits, Key
      <4>4. q # NoPopup
        <5>1. q.tr = "done" /\ NoPopup.tr = "none"
          BY <4>1 DEF NoPopup, Popup
        <5> QED BY <5>1
      <4> HIDE DEF q
      <4> QED BY <2>1, <4>2, <4>3, <4>4
    <3> QED BY <3>1, <3>2
  <2> QED BY <1>1, <1>4, <2>1, <2>5, <2>6, <2>7, <2>8, <2>9, MailStep DEF RenderThread
<1> QED BY <1>3, <1>4

LEMMA DeliveryStep ==
  ASSUME ~Anki, ~ClientPopups, DeliveryInv, [Next]_vars PROVE DeliveryInv'
<1>1. ScreenInv /\ TypeOK /\ NothingFromTheFuture
  BY DEF DeliveryInv, ScreenInv
<1>2. ScreenInv' /\ NoClientPopups' /\ NobodyRedraws' /\ OnlyWaiting' /\ AnswerPast'
  BY <1>1, ScreenInvStep, NoClientPopupsStep, NobodyRedrawsStep, OnlyWaitingStep, AnswerPastStep
  DEF DeliveryInv
<1> QED BY <1>2, OnItsWayStep DEF DeliveryInv

\* When everything has come to rest, the popup of the latest lookup is the one on screen: no
\* older popup takes its place in the render mailbox or after it, and none of its own images
\* and translations is lost. It is so of what the daemon looks up itself: a check mark drawn in
\* for Anki, or a popup a client numbered earlier, may still take its place.
THEOREM LatestStaysOnScreen ==
  ASSUME ~Anki, ~ClientPopups
  PROVE  Spec => []PostedPopupIsShown
<1>1. Init => DeliveryInv
  BY DeliveryInit
<1>2. DeliveryInv /\ [Next]_vars => DeliveryInv'
  BY DeliveryStep
<1>3. DeliveryInv => PostedPopupIsShown
  <2> SUFFICES ASSUME DeliveryInv, Quiescent, Live
               PROVE  visible /\ current.gen = answer.gen /\ Key(current) = answer.key
    BY DEF PostedPopupIsShown, Live
  <2>1. Delivered /\ UiFree /\ tasks = <<>>
    BY DEF DeliveryInv, OnItsWay, Quiescent
  <2>2. ~LastToShow(tasks, answer)
    BY <2>1 DEF LastToShow
  <2> QED BY <2>1, <2>2 DEF Delivered, Latest, Fits
<1> QED BY <1>1, <1>2, <1>3, PTL DEF Spec
=============================================================================
