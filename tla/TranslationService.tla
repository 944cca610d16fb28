------------------------- MODULE TranslationService -------------------------
(***************************************************************************)
(* Sentences translated offline (apps/daemon/Translation.cpp): a thread of *)
(* its own, one request waiting, jobs that go before it, models loaded     *)
(* when needed and let go of again, and translations kept.                 *)
(*                                                                         *)
(* An action is what one thread does with the service's mutex, or between  *)
(* two holds of it.  Reading and translating take seconds, so choosing a   *)
(* model's weights, loading it, and translating with it are steps others   *)
(* come between.                                                           *)
(*                                                                         *)
(* Time is a choice: a kept translation may expire, and unused models may  *)
(* be let go of, whenever the code's clocks could say so.                  *)
(***************************************************************************)
EXTENDS Naturals, Sequences

CONSTANTS
  Languages,    \* the languages that have a translation model
  Directories,  \* where their models are kept
  DirectoryOf,  \* language -> directory
  Texts,        \* what is translated
  LanguageOf,   \* text -> language
  NoText,       \* no text
  Checked,      \* the languages a health report checks, in order
  MostModels,   \* most_models
  CacheSize,    \* cache_size
  Downloading,  \* the directories weights are downloaded to and removed from meanwhile
  MaxRequests,  \* bound: requests made
  MaxCalls,     \* bound: calls that wait for an answer
  MaxChanges    \* bound: changes of precision, and reloads

Precisions == {"compact", "full"}

ASSUME ServiceAssumption ==
  /\ DirectoryOf \in [Languages -> Directories]
  /\ LanguageOf \in [Texts -> Languages]
  /\ NoText \notin Texts
  /\ Checked \in Seq(Languages)
  /\ MostModels \in Nat \ {0}
  /\ CacheSize \in Nat \ {0}
  /\ Downloading \subseteq Directories
  /\ {MaxRequests, MaxCalls, MaxChanges} \subseteq Nat

VARIABLES
  \* under the mutex
  pending, jobs, reload, warming, precisions, cache,
  \* the translation thread's own: the work taken up, the model for it, those held
  work, step, chosen, models,
  \* who asks: the newest ticket, a text the capture thread found untranslated,
  \* calls made and the one waiting
  asked, missed, calls, caller,
  \* the weights downloaded
  onDisk,
  \* whether the daemon ends
  stopping,
  \* history: the last ticket done, and how often models were to be let go of
  answered, changes

shared  == <<pending, jobs, reload, warming, precisions, cache>>
thread  == <<work, step, chosen, models>>
callers == <<asked, missed, calls, caller>>
outside == <<onDisk, stopping>>
history == <<answered, changes>>
vars == <<pending, jobs, reload, warming, precisions, cache, work, step, chosen,
          models, asked, missed, calls, caller, onDisk, stopping, answered,
          changes>>

\* A request, or a job: the languages a model is still needed for, in order.
Work == [kind   : {"none", "request", "call", "health", "warm"},
         number : Nat,
         text   : Texts \cup {NoText},
         langs  : Seq(Languages)]

WorkOn(kind, n, t, langs) == [kind |-> kind, number |-> n, text |-> t, langs |-> langs]

NoWork == WorkOn("none", 0, NoText, <<>>)

\* A model held or being loaded: where from, which weights, which were asked for
\* (the others are loaded while only they are downloaded), and after which change.
Model == [dir : Directories, precision : Precisions, wanted : Precisions, since : Nat]

\* A translation kept: of which text, made with which weights asked for.
Kept == [text : Texts, wanted : Precisions, expired : BOOLEAN]

-----------------------------------------------------------------------------
Init ==
  /\ pending = NoWork /\ jobs = <<>> /\ reload = FALSE /\ warming = FALSE
  /\ precisions = [l \in Languages |-> "compact"] /\ cache = <<>>
  /\ work = NoWork /\ step = "idle" /\ chosen = {} /\ models = <<>>
  /\ asked = 0 /\ missed = NoText /\ calls = 0 /\ caller = 0
  /\ onDisk \in [Directories -> {Precisions, {"compact"}}]
  /\ stopping = FALSE
  /\ answered = 0 /\ changes = 0

-----------------------------------------------------------------------------
Other(p) == IF p = "full" THEN "compact" ELSE "full"

\* unavailable(): nothing complete is downloaded for the language.
Available(l) == onDisk[DirectoryOf[l]] # {}

\* The weights asked for, or the others while only they are downloaded.
WeightsFor(l) ==
  LET wanted == precisions[l]
  IN IF Other(wanted) \in onDisk[DirectoryOf[l]] /\ wanted \notin onDisk[DirectoryOf[l]]
     THEN Other(wanted) ELSE wanted

Without(s, i) == SubSeq(s, 1, i - 1) \o SubSeq(s, i + 1, Len(s))

\* Where in models_ the directory's is: nowhere, or at one place.
At(d) == {i \in DOMAIN models : models[i].dir = d}

\* A model used: it has gone unused for the shortest time now.
Used(i) == Without(models, i) \o <<models[i]>>

\* A mistake: the model held stays until the other weights are loaded.
LetGoOfLater(d) == models

\* The directory's model leaves, if it is held.
LetGoOf(d) ==
  IF At(d) = {} THEN models ELSE Without(models, CHOOSE i \in At(d) : TRUE)

-----------------------------------------------------------------------------
(* The capture thread: translationFor, then request() when it posts.       *)

\* cached(): a translation kept comes back, and is kept longer; an expired one
\* goes.  (Which of two kept of one text is the more recent: the first.)
Cached(t) ==
  /\ ~stopping /\ missed = NoText /\ Available(LanguageOf[t])
  /\ LET at == {i \in DOMAIN cache : cache[i].text = t}
         i  == CHOOSE i \in at : \A j \in at : i <= j
     IN \/ /\ at = {}
           /\ missed' = t
           /\ UNCHANGED cache
        \/ /\ at # {} /\ cache[i].expired
           /\ missed' = t
           /\ cache' = Without(cache, i)
        \/ /\ at # {} /\ ~cache[i].expired
           /\ cache' = <<cache[i]>> \o Without(cache, i)
           /\ UNCHANGED missed
  /\ UNCHANGED <<pending, jobs, reload, warming, precisions, thread, asked,
                 calls, caller, outside, history>>

\* A mistake: a request still waiting is made first.
RequestIfFree ==
  /\ ~stopping /\ missed # NoText /\ asked < MaxRequests
  /\ asked' = asked + 1
  /\ pending' = IF pending # NoWork THEN pending
                ELSE WorkOn("request", asked', missed, <<LanguageOf[missed]>>)
  /\ missed' = NoText
  /\ UNCHANGED <<jobs, reload, warming, precisions, cache, thread, calls, caller,
                 outside, history>>

\* request(): takes the place of the one waiting.
RequestTranslation ==
  /\ ~stopping /\ missed # NoText /\ asked < MaxRequests
  /\ asked' = asked + 1
  /\ pending' = WorkOn("request", asked', missed, <<LanguageOf[missed]>>)
  /\ missed' = NoText
  /\ UNCHANGED <<jobs, reload, warming, precisions, cache, thread, calls, caller,
                 outside, history>>

\* The popup was on screen already, and nothing is asked for.
NotAsked ==
  /\ missed # NoText
  /\ missed' = NoText
  /\ UNCHANGED <<shared, thread, asked, calls, caller, outside, history>>

-----------------------------------------------------------------------------
(* The IPC thread, one call at a time, and the UI thread.                  *)

Wait(kind, text, langs) ==
  /\ ~stopping /\ caller = 0 /\ calls < MaxCalls
  /\ calls' = calls + 1
  /\ caller' = calls'
  /\ jobs' = Append(jobs, WorkOn(kind, calls', text, langs))
  /\ UNCHANGED <<pending, reload, warming, precisions, cache, thread, asked,
                 missed, outside, history>>

\* translateNow()
TranslateNow(t) ==
  /\ Available(LanguageOf[t])
  /\ Wait("call", t, <<LanguageOf[t]>>)

\* diagnose()
Diagnose ==
  /\ Checked # <<>>
  /\ Wait("health", NoText, Checked)

\* Sixty seconds, or ninety, have gone by: the job stays.
GiveUp ==
  /\ caller # 0
  /\ caller' = 0
  /\ UNCHANGED <<shared, thread, asked, missed, calls, outside, history>>

\* warm(): once is enough while it waits.
Warm(l) ==
  /\ ~stopping /\ Available(l) /\ ~warming
  /\ warming' = TRUE
  /\ jobs' = Append(jobs, WorkOn("warm", 0, NoText, <<l>>))
  /\ UNCHANGED <<pending, reload, precisions, cache, thread, callers, outside,
                 history>>

\* setPrecisions(): settings that differ, if only in how they say the same.
SetPrecisions ==
  /\ ~stopping /\ changes < MaxChanges
  /\ \E p \in [Languages -> Precisions] : precisions' = p
  /\ cache' = <<>>
  /\ reload' = TRUE
  /\ changes' = changes + 1
  /\ UNCHANGED <<pending, jobs, warming, thread, callers, outside, answered>>

\* reload(): weights were downloaded or removed.
Reload ==
  /\ ~stopping /\ changes < MaxChanges
  /\ reload' = TRUE
  /\ changes' = changes + 1
  /\ UNCHANGED <<pending, jobs, warming, precisions, cache, thread, callers,
                 outside, answered>>

\* ~TranslationService, when nobody asks any more
Stop ==
  /\ ~stopping /\ caller = 0
  /\ stopping' = TRUE
  /\ UNCHANGED <<shared, thread, callers, onDisk, history>>

-----------------------------------------------------------------------------
(* The translation thread.                                                 *)

Begin(w) == work' = w /\ step' = IF w.kind = "warm" THEN "warming" ELSE "weights"

\* A mistake: the newest job goes first.
TakeNewestJob ==
  /\ Begin(jobs[Len(jobs)])
  /\ jobs' = SubSeq(jobs, 1, Len(jobs) - 1)

\* The first job.
TakeJob ==
  /\ Begin(Head(jobs))
  /\ jobs' = Tail(jobs)

\* run(), woken: models go if they are to be loaded afresh; a job goes before
\* the request.
Take ==
  /\ step = "idle" /\ ~stopping
  /\ jobs # <<>> \/ pending # NoWork \/ reload
  /\ reload' = FALSE
  /\ models' = IF reload THEN <<>> ELSE models
  /\ \/ jobs # <<>> /\ TakeJob /\ UNCHANGED pending
     \/ /\ jobs = <<>> /\ pending # NoWork
        /\ Begin(pending)
        /\ pending' = NoWork
        /\ UNCHANGED jobs
     \/ /\ jobs = <<>> /\ pending = NoWork
        /\ UNCHANGED <<work, step, jobs, pending>>
  /\ UNCHANGED <<warming, precisions, cache, chosen, callers, outside, history>>

\* The job warm() queued, before its model: warm() may queue another from here on.
StartWarming ==
  /\ step = "warming"
  /\ warming' = FALSE
  /\ step' = "weights"
  /\ UNCHANGED <<pending, jobs, reload, precisions, cache, work, chosen, models,
                 callers, outside, history>>

\* run(), nothing came for ten minutes
Unload ==
  /\ step = "idle" /\ ~stopping
  /\ jobs = <<>> /\ pending = NoWork /\ ~reload /\ models # <<>>
  /\ models' = <<>>
  /\ UNCHANGED <<shared, work, step, chosen, callers, outside, history>>

\* A mistake: nobody is told that there was no model.
FinishSilently ==
  /\ chosen' = {}
  /\ IF Len(work.langs) = 1
     THEN /\ work' = NoWork /\ step' = "idle"
          /\ answered' = IF work.kind = "request" /\ step = "translating"
                         THEN work.number ELSE answered
          /\ caller' = IF work.kind \in {"call", "health"} /\ caller = work.number
                       THEN 0 ELSE caller
     ELSE /\ work' = [work EXCEPT !.langs = Tail(@)] /\ step' = "weights"
          /\ UNCHANGED <<answered, caller>>

\* What was to be done for a language is done, or failed: the next one's turn, or
\* the answer.
Finish ==
  /\ chosen' = {}
  /\ IF Len(work.langs) = 1
     THEN /\ work' = NoWork /\ step' = "idle"
          /\ answered' = IF work.kind = "request" THEN work.number ELSE answered
          /\ caller' = IF work.kind \in {"call", "health"} /\ caller = work.number
                       THEN 0 ELSE caller
     ELSE /\ work' = [work EXCEPT !.langs = Tail(@)] /\ step' = "weights"
          /\ UNCHANGED <<answered, caller>>

\* model(), up to loading: the model held is the one asked for, or there is none,
\* or one is to be loaded and the other weights of it go first.
ChooseWeights ==
  /\ step = "weights"
  /\ LET l    == Head(work.langs)
         d    == DirectoryOf[l]
         p    == WeightsFor(l)
         held == {i \in At(d) : models[i].precision = p}
         hit  == held # {} /\ (work.kind = "health" => Available(l))
     IN \/ /\ hit
           /\ models' = Used(CHOOSE i \in held : TRUE)
           /\ IF work.kind = "warm"
              THEN Finish
              ELSE /\ step' = "translating"
                   /\ chosen' = {[models[i] EXCEPT !.wanted = precisions[l]] : i \in held}
                   /\ UNCHANGED <<work, answered, caller>>
        \/ /\ ~hit /\ ~Available(l)
           /\ Finish
           /\ UNCHANGED models
        \/ /\ ~hit /\ Available(l)
           /\ models' = LetGoOf(d)
           /\ step' = "loading"
           /\ chosen' = {[dir |-> d, precision |-> p, wanted |-> precisions[l], since |-> changes]}
           /\ UNCHANGED <<work, answered, caller>>
  /\ UNCHANGED <<shared, asked, missed, calls, outside, changes>>

\* Room for one more: the models that went longest without use go.
WithRoom(held) ==
  IF Len(held) < MostModels THEN held
  ELSE SubSeq(held, Len(held) - MostModels + 2, Len(held))

\* Model::load, then room for it among those held.
LoadModel ==
  /\ step = "loading"
  /\ \E m \in chosen :
       \/ Finish /\ UNCHANGED models
       \/ /\ m.precision \in onDisk[m.dir]
          /\ models' = Append(WithRoom(models), m)
          /\ IF work.kind = "warm"
             THEN Finish
             ELSE step' = "translating" /\ UNCHANGED <<work, chosen, answered, caller>>
  /\ UNCHANGED <<shared, asked, missed, calls, outside, changes>>

\* remember(): expired ones go, and the oldest when there are too many.
Remember(t, wanted) ==
  LET fresh == SelectSeq(cache, LAMBDA e : ~e.expired)
  IN cache' = SubSeq(<<[text |-> t, wanted |-> wanted, expired |-> FALSE]>> \o fresh,
                     1, IF Len(fresh) < CacheSize THEN Len(fresh) + 1 ELSE CacheSize)

\* Model::translate, and what becomes of it.
Translate ==
  /\ step = "translating"
  /\ \E m \in chosen :
       \/ UNCHANGED cache
       \/ work.kind \in {"request", "call"} /\ Remember(work.text, m.wanted)
  /\ Finish
  /\ UNCHANGED <<pending, jobs, reload, warming, precisions, models, asked,
                 missed, calls, outside, changes>>

-----------------------------------------------------------------------------
(* Time and the settings application.                                      *)

Expire ==
  /\ \E i \in DOMAIN cache : cache' = [cache EXCEPT ![i].expired = TRUE]
  /\ UNCHANGED <<pending, jobs, reload, warming, precisions, thread, callers,
                 outside, history>>

Download ==
  /\ \E d \in Downloading, s \in SUBSET Precisions : onDisk' = [onDisk EXCEPT ![d] = s]
  /\ UNCHANGED <<shared, thread, callers, stopping, history>>

-----------------------------------------------------------------------------
Thread == Take \/ Unload \/ StartWarming \/ ChooseWeights \/ LoadModel \/ Translate

Clients ==
  \/ \E t \in Texts : Cached(t) \/ TranslateNow(t)
  \/ RequestTranslation \/ NotAsked
  \/ Diagnose \/ GiveUp
  \/ \E l \in Languages : Warm(l)
  \/ SetPrecisions \/ Reload \/ Stop

Next == Thread \/ Clients \/ Expire \/ Download

\* The thread keeps working until it is stopped; the rest is up to others.
Spec == Init /\ [][Next]_vars /\ WF_vars(Thread)

-----------------------------------------------------------------------------
(* Properties.                                                             *)

StateOK ==
  /\ pending \in Work /\ jobs \in Seq(Work)
  /\ reload \in BOOLEAN /\ warming \in BOOLEAN
  /\ precisions \in [Languages -> Precisions]
  /\ work \in Work /\ step \in {"idle", "warming", "weights", "loading", "translating"}
  /\ chosen \subseteq Model
  /\ models \in Seq(Model) /\ Len(models) <= MostModels
  /\ asked \in Nat /\ missed \in Texts \cup {NoText}
  /\ calls \in Nat /\ caller \in Nat
  /\ onDisk \in [Directories -> SUBSET Precisions] /\ stopping \in BOOLEAN
  /\ answered \in Nat /\ changes \in Nat

TypeOK == /\ StateOK
          /\ cache \in Seq(Kept) /\ Len(cache) <= CacheSize

\* Requests are answered as NewestWins says.
Slot == INSTANCE NewestWins
          WITH waiting <- pending.number,
               atWork  <- IF work.kind = "request" THEN work.number ELSE 0
NewestKept == Slot!Spec

\* "Another precision was asked for since: that model goes, so both are never held
\* at once": not even while the other one is being loaded, whatever was asked for
\* or downloaded in the meantime.
NeverBothPrecisions ==
  /\ \A i, j \in DOMAIN models : i # j => models[i].dir # models[j].dir
  /\ step = "loading" => \A m \in chosen, i \in DOMAIN models : models[i].dir # m.dir

\* Unless models are about to be let go of, every one held, being loaded or at work
\* was chosen after the last change of precision or reload: a change that comes
\* while a model is being loaded lets go of that one too.
ChosenSinceChange ==
  ~reload => /\ \A i \in DOMAIN models : models[i].since = changes
             /\ \A m \in chosen : m.since = changes

\* warming_ says whether a warm-up is still to start: asked for again before, it is
\* not queued twice; once it started it can be asked for again, so a change of
\* precision that comes while it loads can have the new weights warmed.
WarmOnce ==
  /\ \A i, j \in DOMAIN jobs : jobs[i].kind = "warm" /\ jobs[j].kind = "warm" => i = j
  /\ step = "warming" => \A i \in DOMAIN jobs : jobs[i].kind # "warm"
  /\ warming <=> step = "warming" \/ \E i \in DOMAIN jobs : jobs[i].kind = "warm"

\* The newest request is answered, also when there is no model for it or it fails,
\* once jobs stop coming: jobs go before it.
RequestAnswered ==
  <>[](jobs = <<>>) =>
    \A n \in 1 .. MaxRequests :
      (asked = n) ~> (asked > n \/ answered = n \/ stopping)

\* A call is answered however many warm-ups, requests and changes come meanwhile.
CallAnswered == \A n \in 1 .. MaxCalls : (caller = n) ~> (caller # n)
=============================================================================
