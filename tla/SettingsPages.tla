---------------------------- MODULE SettingsPages ----------------------------
(***************************************************************************)
(* The settings as the settings application has them (gui/Settings.cpp):   *)
(* a working copy of the daemon's configuration that its pages show and    *)
(* change, pushed a moment after the last change, and loaded again when    *)
(* the daemon comes up or says that something changed elsewhere. Several   *)
(* pages write all they show at each change; others write into the copy    *)
(* without showing it.                                                     *)
(*                                                                         *)
(* One setting stands for those of its kind: `mode` and `engine` for text  *)
(* recognition, `access` for what the scanning page writes one by one,     *)
(* `look` and `size` for the popup's, `colour` for what a button writes.   *)
(***************************************************************************)
EXTENDS Integers, FiniteSets, Sequences, SequencesExt, FiniteSetsExt

CONSTANTS
  Elsewhere,  \* settings another client changes
  MaxSteps    \* bound: changes of the user and elsewhere, times Anki is asked, ends of the daemon

VARIABLES
  copy,     \* Settings::config_
  push,     \* [loaded, pending, timer, recent]: recent until 1.5 s after pushed_at_
  shown,    \* what the widgets show
  rows,     \* installed_ of the dictionaries page: <<title, enabled>>
  asked,    \* what Anki has not answered yet
  touched,  \* of the last step: what it was meant to change in the copy
  behind,   \* changed in the copy since the pages were shown it, without showing them
  configured, \* the configuration of the daemon
  titles,   \* the dictionaries installed
  line,     \* the connection: whether it is up, and what the daemon sent
  steps

pageVars == <<copy, push, shown, rows, asked, touched, behind, configured, titles, line,
              steps>>
daemonSide == <<configured, titles>>

Keys == {"shift", "ctrl"}
Defaults ==
  [mode |-> 1, engine |-> 0, access |-> 1, trigger |-> "shift",
   languages |-> {1, 2}, preferred |-> 1, translates |-> 1, sentence |-> "ctrl",
   look |-> 0, size |-> 0, deck |-> 0, model |-> 0, fields |-> <<0, 0>>,
   order |-> <<>>, paused |-> FALSE]

ASSUME ElsewhereAssumption == Elsewhere \subseteq DOMAIN Defaults

Scanning == {"mode", "engine", "access", "trigger"}
Looks    == {"look", "size"}
With(c, settings, from) == [s \in DOMAIN c |-> IF s \in settings THEN from[s] ELSE c[s]]

-----------------------------------------------------------------------------
(* What the pages show of the copy, and what they write into it.           *)

\* ScanningPage::updateLanguages(): the preferred language is one of those that are on, if any.
Preferred(preferred, before, on) ==
  IF preferred \in on \/ on = {} THEN preferred ELSE IF before \in on THEN before ELSE Min(on)
ShownPreferred(preferred, before, on) == IF on = {} THEN 0 ELSE Preferred(preferred, before, on)

ScanningShown(w, c) ==
  [w EXCEPT !.mode = c.mode, !.engine = c.engine, !.access = c.access,
            !.languages = c.languages,
            !.preferred = ShownPreferred(c.preferred, w.preferred, c.languages)]
\* The sentence key is one of those that are not the trigger's (fillKeys()), or none.
TranslationShown(w, c) ==
  [w EXCEPT !.translates = c.translates, !.without = c.trigger,
            !.sentence = IF c.sentence = c.trigger THEN "none" ELSE c.sentence]
LookShown(w, c) == [w EXCEPT !.look = c.look, !.size = c.size]
\* The fields of a note type, with what was saved for them or a guess (showFields()).
FieldsOf(model, c) == IF c.fields[1] = model THEN c.fields ELSE <<model, 0>>
AnkiShown(w, c) == [w EXCEPT !.deck = c.deck, !.model = c.model, !.fields = c.fields]
AllShown(w, c) == AnkiShown(LookShown(TranslationShown(ScanningShown(w, c), c), c), c)
Repaired(w, c) == [c EXCEPT !.preferred = Preferred(c.preferred, w.preferred, c.languages)]

OcrStored(c, w)         == [c EXCEPT !.mode = w.mode, !.engine = w.engine]
TranslationStored(c, w) == [c EXCEPT !.translates = w.translates, !.sentence = w.sentence]
LookStored(c, w)        == [c EXCEPT !.look = w.look, !.size = w.size]
AnkiStored(c, w)        == [c EXCEPT !.deck = w.deck, !.model = w.model, !.fields = w.fields]

\* DictionariesPage::reorder(): as the rows are; what has no row stays, at the end.
Titles(seq) == {seq[i][1] : i \in DOMAIN seq}
Reordered(order, table) ==
  LET rowOf == FlattenSeq([i \in DOMAIN table |-> SelectSeq(order, LAMBDA d : d[1] = table[i][1])])
  IN rowOf \o SelectSeq(order, LAMBDA d : d[1] \notin Titles(table))

-----------------------------------------------------------------------------
(* Changes of the user.                                                    *)

\* commit(): pushed 350 ms after the last one, once there is a configuration.
Commit == push' = [push EXCEPT !.pending = TRUE, !.timer = @ \/ push.loaded]

Edit(c, w, settings) ==
  /\ steps < MaxSteps /\ steps' = steps + 1
  /\ copy' = c /\ shown' = w /\ touched' = settings /\ Commit
  /\ UNCHANGED <<daemonSide, line>>
\* The pages are enabled when the configuration came.
Change(c, w, settings) == push.loaded /\ Edit(c, w, settings) /\ UNCHANGED <<asked, rows, behind>>

EditOcr ==
  \E s \in {"mode", "engine"} :
    \E w \in {[shown EXCEPT ![s] = 1 - @]} : Change(OcrStored(copy, w), w, {s})
EditScanning ==
  \E v \in {1 - shown.access} :
    Change([copy EXCEPT !.access = v], [shown EXCEPT !.access = v], {"access"})
\* The box of the last language is disabled.
EditLanguages ==
  \E l \in {1, 2} : \E on \in {SymDiff(shown.languages, {l})} :
    /\ on # {}
    /\ \E p \in {Preferred(copy.preferred, shown.preferred, on)} :
         Change([copy EXCEPT !.languages = IF l \in on THEN @ \cup {l} ELSE @ \ {l}, !.preferred = p],
                [shown EXCEPT !.languages = on, !.preferred = p], {"languages", "preferred"})
ChoosePreferred ==
  \E l \in shown.languages \ {shown.preferred} :
    Change([copy EXCEPT !.preferred = l], [shown EXCEPT !.preferred = l], {"preferred"})
\* keys.recorded: the scanning page is shown again, the others are not.
RecordTrigger ==
  /\ push.loaded /\ UNCHANGED <<asked, rows>>
  /\ behind' = behind \ (Scanning \cup {"languages", "preferred"})
  /\ \E k \in Keys : \E c \in {[copy EXCEPT !.trigger = k]} :
       Edit(Repaired(shown, c), ScanningShown(shown, c), {"trigger", "preferred"})
EditTranslation ==
  \E w \in {[shown EXCEPT !.translates = 1 - @]}
              \cup {[shown EXCEPT !.sentence = k] : k \in {"none"} \cup (Keys \ {shown.without})} :
    Change(TranslationStored(copy, w), w,
           {s \in {"translates", "sentence"} : w[s] # shown[s]})
EditLook ==
  \E s \in {"look", "size"} :
    \E w \in {[shown EXCEPT ![s] = 1 - @]} : Change(LookStored(copy, w), w, {s})
\* A theme sets a part of the look, and the page shows it.
ApplyTheme ==
  \E c \in {[copy EXCEPT !.look = 1] } :
    Change(c, LookShown(shown, c), {"look"})

MoveDictionary ==
  /\ push.loaded /\ UNCHANGED <<asked, behind>>
  /\ \E i \in 1 .. Len(rows) - 1 :
       /\ rows' = [rows EXCEPT ![i] = rows[i + 1], ![i + 1] = rows[i]]
       /\ Edit([copy EXCEPT !.order = Reordered(@, rows')], shown, {"order"})
\* By title; one that the copy does not have yet goes where its row is.
ToggleDictionary ==
  /\ push.loaded /\ UNCHANGED <<asked, behind>>
  /\ \E i \in DOMAIN rows : \E toggled \in {<<rows[i][1], ~rows[i][2]>>} :
       /\ rows' = [rows EXCEPT ![i] = toggled]
       /\ Edit([copy EXCEPT !.order =
                  IF toggled[1] \in Titles(@)
                  THEN [j \in DOMAIN @ |-> IF @[j][1] = toggled[1] THEN toggled ELSE @[j]]
                  ELSE InsertAt(@, Min({i, Len(@) + 1}), toggled)],
               shown, {"order"})

\* Settings::replace(), of a page's reset and the one of everything.
Replace ==
  /\ push.loaded /\ UNCHANGED <<asked, rows>> /\ behind' = {}
  /\ \E part \in {Scanning, Looks, DOMAIN copy \ {"order"}} :
       \E c \in {With(copy, part, Defaults)} :
         Edit(Repaired(shown, c), AllShown(shown, c), part \cup {"preferred"})

\* The overview's fixes and the setup write into the copy without the pages.
Fix ==
  /\ push.loaded /\ UNCHANGED <<asked, rows>>
  /\ \E s \in {"mode", "access"} :
       /\ behind' = behind \cup {s}
       /\ Edit([copy EXCEPT ![s] = 1], shown, {s})
StoreSetup ==
  /\ UNCHANGED <<asked, rows>>
  /\ \E on \in SUBSET {1, 2} \ {{}} :
       Edit([copy EXCEPT !.languages = on, !.preferred = Min(on), !.mode = 1], shown,
            {"languages", "preferred", "mode"})
  /\ behind' = behind \cup {"languages", "preferred", "mode"}

-----------------------------------------------------------------------------
(* Anki: the names of decks, of note types and of their fields.            *)

EditAnki ==
  \E w \in {[shown EXCEPT !.deck = 1 - @], [shown EXCEPT !.fields[2] = 1 - @]} :
    Change(AnkiStored(copy, w), w, {"deck", "fields", "model"} \cap
           {s \in DOMAIN shown : s = "model" \/ w[s] # shown[s]})
\* A note type is stored when its fields came.
ChooseModel ==
  /\ push.loaded /\ steps < MaxSteps /\ steps' = steps + 1
  /\ \E m \in {1 - shown.model} :
       /\ shown' = [shown EXCEPT !.model = m] /\ asked' = Append(asked, <<"fields", m>>)
  /\ touched' = {}
  /\ UNCHANGED <<copy, push, rows, behind, daemonSide, line>>
ConnectAnki ==
  /\ push.loaded /\ steps < MaxSteps /\ steps' = steps + 1
  /\ asked' = asked \o <<<<"decks", 0>>, <<"models", 0>>>>
  /\ touched' = {}
  /\ UNCHANGED <<copy, push, shown, rows, behind, daemonSide, line>>

\* fill(): the name shown stays when it is among those that came, or the first is taken.
Filled(name, names) == IF name \in names THEN name ELSE Min(names)
StoreAnki(w, settings) ==
  /\ shown' = w /\ copy' = AnkiStored(copy, w) /\ touched' = settings /\ Commit
\* Answers come in any order; a request that fails changes nothing.
AnkiAnswers ==
  /\ \E i \in DOMAIN asked : \E reply \in {asked[i]} : \E others \in {RemoveAt(asked, i)} :
       \/ asked' = others /\ touched' = {} /\ UNCHANGED <<copy, push, shown>>
       \/ /\ reply[1] = "decks" /\ asked' = others
          /\ \E names \in SUBSET {0, 1} \ {{}} :
               StoreAnki([shown EXCEPT !.deck = Filled(@, names)], {"deck", "model"})
       \/ /\ reply[1] = "models"
          /\ \E names \in SUBSET {0, 1} \ {{}} : \E m \in {Filled(shown.model, names)} :
               IF m = shown.model
               THEN asked' = others /\ StoreAnki(shown, {"model"})
               ELSE /\ asked' = Append(others, <<"fields", m>>)
                    /\ shown' = [shown EXCEPT !.model = m] /\ touched' = {}
                    /\ UNCHANGED <<copy, push>>
       \/ /\ reply[1] = "fields" /\ asked' = others
          /\ StoreAnki([shown EXCEPT !.fields = FieldsOf(reply[2], copy)], {"model", "fields"})
  /\ UNCHANGED <<rows, behind, daemonSide, line, steps>>

-----------------------------------------------------------------------------
(* The copy and the daemon.                                                *)

Message(type, of) == [type |-> type, of |-> of]
Changed == Message("config.changed", <<>>)
Config  == Message("config", configured)
Rows    == Message("rows", configured.order)
\* What the daemon sends waits in the connection; it answers what it is asked at once.
Sent(messages) == [line EXCEPT !.in = IF line.up THEN @ \o messages ELSE @]
\* reloadDictionaries(): what is installed, in the order configured.
Installed(c, here) ==
  [c EXCEPT !.order = SelectSeq(@, LAMBDA d : d[1] \in here) \o
                      SetToSeq({<<t, TRUE>> : t \in here \ Titles(@)})]

\* push(): stays pending while there is no daemon.
Push ==
  /\ push.timer /\ touched' = {}
  /\ push' = IF line.up THEN [push EXCEPT !.timer = FALSE, !.pending = FALSE, !.recent = TRUE]
             ELSE [push EXCEPT !.timer = FALSE]
  /\ configured' = IF line.up THEN Installed(copy, titles) ELSE configured
  /\ line' = Sent(<<Changed>>)
  /\ UNCHANGED <<copy, shown, rows, asked, behind, titles, steps>>
RecentPasses ==
  /\ push.recent /\ push' = [push EXCEPT !.recent = FALSE] /\ touched' = {}
  /\ UNCHANGED <<copy, shown, rows, asked, behind, daemonSide, line, steps>>

Connect ==
  /\ ~line.up
  /\ line' = [up |-> TRUE, in |-> <<Config, Rows>>] /\ touched' = {}
  /\ UNCHANGED <<copy, push, shown, rows, asked, behind, daemonSide, steps>>

\* Mutant: what was loaded is taken over whatever waits.
TakenOverAlways(c) == c
\* The reply to config.get: what waits to be pushed is kept. Every page shows the copy, and the
\* scanning page puts a preferred language right that is off.
TakenOver(c) == IF push.pending THEN copy ELSE c
Loaded(c) ==
  \E taken \in {TakenOver(c)} :
    /\ shown' = AllShown(shown, taken) /\ behind' = {}
    /\ copy' = Repaired(shown, taken)
    /\ touched' = IF push.pending THEN {"preferred"} ELSE DOMAIN copy
    /\ \E repair \in {copy' # taken} :
         push' = [push EXCEPT !.loaded = TRUE, !.pending = @ \/ repair,
                              !.timer = @ \/ push.pending \/ repair]
    /\ line' = [Sent(<<Rows>>) EXCEPT !.in = Tail(@)]
    /\ UNCHANGED rows

Read ==
  /\ line.in # <<>>
  /\ LET m    == Head(line.in)
         rest == [line EXCEPT !.in = Tail(@)]
         Ask(messages) == line' = [Sent(messages) EXCEPT !.in = Tail(@)]
     IN \/ m.type = "config" /\ Loaded(m.of)
        \/ /\ m.type \in {"config", "rows"}  \* after its time
           /\ line' = rest /\ touched' = {} /\ UNCHANGED <<copy, push, shown, rows, behind>>
        \/ /\ m.type = "rows" /\ line' = rest /\ rows' = m.of /\ touched' = {}
           /\ UNCHANGED <<copy, push, shown, behind>>
        \/ /\ m.type = "paused" /\ line' = rest
           /\ copy' = [copy EXCEPT !.paused = m.of] /\ touched' = {"paused"}
           /\ UNCHANGED <<push, shown, rows, behind>>
        \/ /\ m.type \in {"config.changed", "dictionaries.changed"}
           /\ Ask((IF push.recent THEN <<>> ELSE <<Config>>) \o
                  (IF m.type = "dictionaries.changed" THEN <<Rows>> ELSE <<>>))
           /\ touched' = {} /\ UNCHANGED <<copy, push, shown, rows, behind>>
  /\ UNCHANGED <<asked, daemonSide, steps>>

-----------------------------------------------------------------------------
(* The daemon, and what others do to its configuration.                    *)

Outside == steps < MaxSteps /\ steps' = steps + 1 /\ touched' = {}
ChangedElsewhere ==
  /\ Outside
  /\ \E s \in Elsewhere :
       /\ configured' = [configured EXCEPT ![s] = 1 - @]
       /\ line' = Sent(<<Changed>>)
  /\ UNCHANGED <<copy, push, shown, rows, asked, behind, titles>>
PausedElsewhere ==
  /\ Outside
  /\ configured' = [configured EXCEPT !.paused = ~@]
  /\ line' = Sent(<<Changed, Message("paused", configured'.paused)>>)
  /\ UNCHANGED <<copy, push, shown, rows, asked, behind, titles>>
InstalledElsewhere ==
  /\ Outside
  /\ \E t \in {1, 2} : titles' = SymDiff(titles, {t})
  /\ configured' = Installed(configured, titles')
  /\ line' = Sent(<<Message("dictionaries.changed", <<>>)>>)
  /\ UNCHANGED <<copy, push, shown, rows, asked, behind>>
DaemonGone ==
  /\ Outside /\ line.up
  /\ line' = [up |-> FALSE, in |-> <<>>]
  /\ UNCHANGED <<copy, push, shown, rows, asked, behind, daemonSide>>

-----------------------------------------------------------------------------
PageInit ==
  /\ copy = Defaults
  /\ push = [loaded |-> FALSE, pending |-> FALSE, timer |-> FALSE, recent |-> FALSE]
  /\ shown = [mode |-> 0, engine |-> 0, access |-> 0, languages |-> {}, preferred |-> 0,
              translates |-> 0, sentence |-> "none", without |-> "none", look |-> 0, size |-> 0,
              deck |-> 0, model |-> 0, fields |-> <<0, 0>>]
  /\ rows = <<>> /\ asked = <<>> /\ touched = {} /\ behind = {}
  /\ titles = {1, 2}
  /\ configured = [Defaults EXCEPT !.mode = 0, !.size = 1, !.deck = 1,
                                !.order = <<<<2, FALSE>>, <<1, TRUE>>>>]
  /\ line = [up |-> FALSE, in |-> <<>>]
  /\ steps = 0

PageNext ==
  \/ EditOcr \/ EditScanning \/ EditLanguages \/ ChoosePreferred \/ RecordTrigger
  \/ EditTranslation \/ EditLook \/ ApplyTheme \/ MoveDictionary
  \/ ToggleDictionary \/ Replace \/ Fix \/ StoreSetup
  \/ EditAnki \/ ChooseModel \/ ConnectAnki \/ AnkiAnswers
  \/ Push \/ RecentPasses \/ Connect \/ Read
  \/ ChangedElsewhere \/ PausedElsewhere \/ InstalledElsewhere \/ DaemonGone
PageSpec == PageInit /\ [][PageNext]_pageVars

-----------------------------------------------------------------------------
\* A setting of the working copy changes only when the user changed that one, or what follows
\* from it, or when the daemon's configuration is taken over while no change of the user waits:
\* neither a page that writes all it shows nor a late answer takes another change back. Left
\* out: what was written without the pages, which still show and may write what was before; and
\* a sentence key that is the trigger's, which the translation page does not offer.
OnlyEditsChange ==
  [][\A s \in DOMAIN copy :
       copy'[s] # copy[s] =>
         \/ s \in touched' \cup behind
         \/ s = "sentence" /\ copy.sentence = shown.without]_pageVars
=============================================================================
