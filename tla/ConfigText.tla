------------------------------ MODULE ConfigText ------------------------------
(***************************************************************************)
(* The configuration as it goes from one program to another and into its   *)
(* file (config/Config.cpp), with the names of its keys (config/Keys.cpp): *)
(* the daemon reads the file as it starts and writes it when a client sets *)
(* the configuration; the settings application gets it as JSON, changes    *)
(* the trigger or the sentence key and sends all of it back.               *)
(*                                                                         *)
(* A JSON value is [is, n, s, list]: what it is, its number or 1 for true, *)
(* its text, its items. An object of the file is a function from the path  *)
(* <<section, name>> of what it holds; what JSON is, is JsonText's. The    *)
(* configuration is a function from the same paths: an enumerator is held  *)
(* as the number of its place.                                             *)
(***************************************************************************)
EXTENDS Integers, SequencesExt

CONSTANTS
  Windows,     \* the platform: it names keys, and a recorded button, otherwise
  Recased,     \* names in another case than the table of keys has: <<typed, in the table>>
  Colors,      \* of the texts in documents, # with six or eight hexadecimal digits
  LongNames,   \* of the names in documents, those too long for a colour or a language
  MostNamed,   \* 64: how many named colours and models are kept
  Documents,   \* what somebody may write into the file
  Presses,     \* keys pressed while a trigger is recorded, in their order
  MaxChanges   \* bound: changes on the pages

VARIABLES
  configFile,    \* [is, doc]: "missing", "object", or "other" that is no JSON object
  daemonConfig,  \* config_ of the daemon
  pageConfig,    \* the configuration of the settings application
  changes

configVars == <<configFile, daemonConfig, pageConfig, changes>>

Value(is, n, s, list) == [is |-> is, n |-> n, s |-> s, list |-> list]
Absent     == Value("absent", 0, "", <<>>)
Number(n)  == Value("number", n, "", <<>>)
Flag(on)   == Value("bool", IF on THEN 1 ELSE 0, "", <<>>)
Text(s)    == Value("string", 0, s, <<>>)
Array(l)   == Value("array", 0, "", l)
Object(l)  == Value("object", 0, "", l)
\* An item of an array or a member of an object: what it is, and its text. One of `dictionaries`
\* is an object: its title is its key.
Item(is, key, s) == [is |-> is, key |-> key, s |-> s]
Strings(texts) == [i \in DOMAIN texts |-> Item("string", "", texts[i])]

-----------------------------------------------------------------------------
(* Keys.                                                                   *)

Single ==
  {"Menu", "Space", "Tab", "Escape", "F1", "F2", "F3", "F4", "F5", "F6", "F7", "F8", "F9", "F10",
   "F11", "F12", "MouseLeft", "MouseMiddle", "MouseRight", "MouseBack", "MouseForward"}
MouseButtons == {"MouseLeft", "MouseMiddle", "MouseRight", "MouseBack", "MouseForward"}

Named(names, keys) == {<<name, keys>> : name \in names}
Aliases ==
  Named({"Shift"}, <<"ShiftL", "ShiftR">>)
  \cup Named({"Shift_L", "Left Shift"}, <<"ShiftL">>)
  \cup Named({"Shift_R", "Right Shift"}, <<"ShiftR">>)
  \cup Named({"Control", "Ctrl"}, <<"ControlL", "ControlR">>)
  \cup Named({"Control_L", "Left Ctrl", "Left Control"}, <<"ControlL">>)
  \cup Named({"Control_R", "Right Ctrl", "Right Control"}, <<"ControlR">>)
  \cup Named({"Alt"}, <<"AltL", "AltR">>)
  \cup Named({"Alt_L", "LAlt", "Left Alt"}, <<"AltL">>)
  \cup Named({"Alt_R", "RAlt", "Right Alt", "AltGr"}, <<"AltR">>)
  \cup Named({"Super", "Win", "Windows", "Meta", "Cmd"}, <<"SuperL", "SuperR">>)
  \cup Named({"Super_L", "Win_L", "LWin", "Left Win", "Left Super"}, <<"SuperL">>)
  \cup Named({"Super_R", "Win_R", "RWin", "Right Win", "Right Super"}, <<"SuperR">>)
  \cup Named({"Caps_Lock", "Caps Lock"}, <<"CapsLock">>)
  \cup UNION {Named({key}, <<key>>) : key \in Single}

Canonical ==
  [ShiftL |-> "Shift_L", ShiftR |-> "Shift_R", ControlL |-> "Control_L", ControlR |-> "Control_R",
   AltL |-> "Alt_L", AltR |-> "Alt_R", SuperL |-> "Super_L", SuperR |-> "Super_R",
   CapsLock |-> "Caps_Lock"]
KeyName(key) == IF key \in Single THEN key ELSE Canonical[key]

SuperEither == IF Windows THEN "Win" ELSE "Super"
SuperLeft   == IF Windows THEN "Left Win" ELSE "Left Super"
SuperRight  == IF Windows THEN "Right Win" ELSE "Right Super"
Everyday ==
  [ShiftL |-> "Left Shift", ShiftR |-> "Right Shift", ControlL |-> "Left Ctrl",
   ControlR |-> "Right Ctrl", AltL |-> "Left Alt", AltR |-> "Right Alt", SuperL |-> SuperLeft,
   SuperR |-> SuperRight, CapsLock |-> "Caps Lock", MouseLeft |-> "Left click",
   MouseMiddle |-> "Middle click", MouseRight |-> "Right click", MouseBack |-> "Back",
   MouseForward |-> "Forward"]
DisplayKeyName(key) == IF key \in DOMAIN Everyday THEN Everyday[key] ELSE KeyName(key)

KeyNames ==
  {SuperEither, "Left Alt", "Right Alt", "Shift", "Left Shift", "Right Shift", "Ctrl", "Left Ctrl",
   "Right Ctrl", SuperLeft, SuperRight, "Menu", "Caps Lock", "MouseMiddle", "MouseBack",
   "MouseForward", "F12"}

\* The keys of a name in whatever case, none when it is unknown.
ParseKey(name) ==
  LET found == {a \in Aliases : a[1] = name \/ <<name, a[1]>> \in Recased}
  IN IF found = {} THEN <<>> ELSE (CHOOSE a \in found : TRUE)[2]

IsChord(names) == names # <<>> /\ \A i \in DOMAIN names : ParseKey(names[i]) # <<>>
ChordKeys(names) == UNION {ToSet(ParseKey(names[i])) : i \in DOMAIN names}

\* None when the chord has one of its keys.
ExtraKey(name, names) ==
  IF ToSet(ParseKey(name)) \cap ChordKeys(names) # {} THEN <<>> ELSE ParseKey(name)

DisplayName(name) ==
  LET keys == ParseKey(name)
  IN CASE keys = <<>> -> name
       [] Len(keys) = 1 -> DisplayKeyName(keys[1])
       [] keys = <<"ShiftL", "ShiftR">> -> "Shift"
       [] keys = <<"ControlL", "ControlR">> -> "Ctrl"
       [] keys = <<"AltL", "AltR">> -> "Alt"
       [] keys = <<"SuperL", "SuperR">> -> SuperEither

-----------------------------------------------------------------------------
(* What there is to read: [at, kind, default, low, high, names].           *)

Field(at, kind, default, low, high, names) ==
  [at |-> at, kind |-> kind, default |-> default, low |-> low, high |-> high, names |-> names]
Ints(section, table) ==   \* least, most, default
  {Field(<<section, f>>, "int", Number(table[f][3]), table[f][1], table[f][2], <<>>)
     : f \in DOMAIN table}
Flags(section, default, names) ==
  {Field(<<section, f>>, "bool", Flag(default), 0, 0, <<>>) : f \in names}
Texts(section, table) ==
  {Field(<<section, f>>, "string", Text(table[f]), 0, 0, <<>>) : f \in DOMAIN table}
Lists(section, table) ==
  {Field(<<section, f>>, "strings", Array(Strings(table[f])), 0, 0, <<>>) : f \in DOMAIN table}
\* The names of enumerators, or the texts that are taken, in their order: the first is what any
\* other name means, and the default.
Enums(section, table) ==
  {Field(<<section, f>>, "choice", Number(1), 0, 0, table[f]) : f \in DOMAIN table}
OfKind(kind, section, names, default) ==
  {Field(<<section, f>>, kind, default, 0, 0, <<>>) : f \in names}

RootFields ==
  Texts("", [language |-> "ja", log_level |-> "info"])
  \cup Lists("", [disabled_languages |-> <<>>])
  \cup Flags("", TRUE, {"statistics", "statistics_translations"}) \cup Flags("", FALSE, {"paused"})
  \cup OfKind("dictionaries", "", {"dictionaries"}, Array(<<>>))

ScanFields ==
  Lists("scan", [trigger |-> <<"Super", "Alt_L">>, ignored_windows |-> <<>>,
                 ocr_windows |-> <<"steam_app_*", "*.exe*">>])
  \cup Ints("scan", [max_length |-> <<1, 64, 16>>, delay_ms |-> <<0, 1000, 20>>,
                     move_threshold |-> <<0, 100, 3>>])
  \cup Flags("scan", TRUE, {"search_kanji", "highlight", "accessibility", "known_languages_only",
                            "wheel_length"})
  \cup Flags("scan", FALSE, {"hide_on_no_result", "ocr_vertical", "wheel_lock"})
  \cup Enums("scan", [ocr |-> <<"fallback", "off", "always">>, ocr_model |-> <<"fast", "best">>,
                        ocr_engine |-> <<"auto", "paddle", "tesseract">>,
                        selection |-> <<"off", "always", "with-trigger">>])

PopupFields ==
  Ints("popup",
       [width |-> <<200, 2000, 400>>, max_height |-> <<100, 2000, 250>>, font_size |-> <<6, 72, 14>>,
        offset_x |-> <<-500, 500, 0>>, offset_y |-> <<-500, 500, 10>>, max_results |-> <<1, 200, 32>>,
        max_dictionaries |-> <<0, 64, 0>>, highlight_thickness |-> <<1, 12, 2>>,
        highlight_radius |-> <<0, 32, 3>>, highlight_padding_x |-> <<-16, 16, 2>>,
        highlight_padding_y |-> <<-16, 16, 2>>, corner_radius |-> <<0, 32, 10>>,
        border_width |-> <<0, 8, 1>>, padding |-> <<0, 40, 12>>, opacity |-> <<30, 100, 100>>,
        headword_size |-> <<0, 120, 0>>, furigana_size |-> <<0, 72, 0>>, max_senses |-> <<0, 50, 0>>,
        button_size |-> <<0, 96, 0>>])
  \cup Flags("popup", TRUE, {"show_frequencies", "show_pitch", "show_tags", "show_furigana",
                             "show_inflection", "show_dictionary", "show_buttons", "show_kanji"})
  \cup Flags("popup", FALSE, {"highlight_auto", "show_reading"})
  \cup Texts("popup", [font_family |-> "", highlight_color |-> "#5aa0ff59"])
  \cup Enums("popup",
       [highlight_style |-> <<"underline", "outline", "fill", "double-underline", "dotted-underline",
                              "wavy-underline", "brackets">>,
        compositor |-> <<"auto", "on", "off">>, select_button |-> <<"right", "middle">>,
        theme |-> <<"auto", "dark", "light">>, design |-> <<"friendly", "classic", "compact">>,
        scheme |-> <<"default", "paper", "nord", "sakura", "matcha", "midnight", "contrast">>,
        placement |-> <<"below", "above">>])
  \cup OfKind("color", "popup", {"background_color", "text_color", "accent_color", "border_color"},
              Text(""))
  \cup {Field(<<"popup", "scale">>, "double", Number(0), 0, 4, <<>>)}
  \cup OfKind("colors", "popup", {"colors"}, Object(<<>>))

OtherFields ==
  Flags("audio", TRUE, {"enabled"}) \cup Flags("audio", FALSE, {"autoplay"})
  \cup Lists("audio", [sources |-> <<"jpod101", "commons">>])
  \cup Flags("translation", TRUE, {"enabled", "selections"})
  \cup Texts("translation", [sentence_key |-> "Shift_L"])
  \cup Lists("translation", [disabled_languages |-> <<>>])
  \cup Enums("translation", [model |-> <<"compact", "full">>])
  \cup OfKind("models", "translation", {"models"}, Object(<<>>))
  \cup Flags("anki", FALSE, {"enabled", "allow_duplicates"})
  \cup Texts("anki", [url |-> "http://127.0.0.1:8765", key |-> "", deck |-> "", model |-> ""])
  \cup Lists("anki", [tags |-> <<"lexiglance">>])
  \cup OfKind("fields", "anki", {"fields"}, Object(<<>>))

ByPath(fields) == [p \in {f.at : f \in fields} |-> CHOOSE f \in fields : f.at = p]
Fields == ByPath(RootFields \cup ScanFields \cup PopupFields \cup OtherFields)
DefaultsOf(fields) == [p \in DOMAIN fields |-> fields[p].default]
Defaults == DefaultsOf(Fields)

-----------------------------------------------------------------------------
(* Reading: what is missing or malformed keeps its default.                *)

Huge == 2147483647   \* stands for a number beyond 64 bits
AsInt(v) == IF v.n = Huge THEN 0 ELSE v.n
Clamp(n, low, high) == IF n < low THEN low ELSE IF n > high THEN high ELSE n

Get(doc, at) == IF at \in DOMAIN doc THEN doc[at] ELSE Absent
\* find(): the first of the members of one name.
First(list, key) == SelectSeq(list, LAMBDA m : m.key = key)[1]

ColorOf(is, s) == IF is = "string" /\ s \in Colors THEN s ELSE ""

AsKept(key, s) == Item("string", key, s)
ReadColors(list) ==
  FoldLeft(LAMBDA kept, m :
             LET value == ColorOf(First(list, m.key).is, First(list, m.key).s)
             IN IF value # "" /\ m.key \notin LongNames /\ Len(kept) < MostNamed
                THEN Append(kept, AsKept(m.key, value)) ELSE kept,
           <<>>, list)
ReadModels(list) ==
  FoldLeft(LAMBDA kept, m :
             LET full == First(list, m.key).is = "string" /\ First(list, m.key).s = "full"
             IN IF m.key # "" /\ m.key \notin LongNames /\ Len(kept) < MostNamed
                THEN Append(kept, AsKept(m.key, IF full THEN "full" ELSE "compact")) ELSE kept,
           <<>>, list)
\* One of a title, enabled unless it says otherwise.
ReadDictionaries(list) ==
  FoldLeft(LAMBDA kept, d :
             IF d.is = "object" /\ d.key # "" /\ \A i \in DOMAIN kept : kept[i].key # d.key
             THEN Append(kept, Item("object", d.key, IF d.s = "off" THEN "off" ELSE "on")) ELSE kept,
           <<>>, list)
OnlyStrings(list) == SelectSeq(list, LAMBDA m : m.is = "string")

Chosen(f, v) ==
  LET same == {i \in DOMAIN f.names : v.is = "string" /\ f.names[i] = v.s}
  IN Number(IF same = {} THEN 1 ELSE CHOOSE i \in same : TRUE)

ReadFrom(f, v, default) ==
  CASE f.kind = "int"    -> IF v.is = "number" THEN Number(Clamp(AsInt(v), f.low, f.high)) ELSE default
    [] f.kind = "double" -> IF v.is = "number" THEN Number(Clamp(v.n, f.low, f.high)) ELSE default
    [] f.kind = "bool"   -> IF v.is = "bool" THEN v ELSE default
    [] f.kind = "string" -> IF v.is = "string" THEN v ELSE default
    [] f.kind = "strings"-> IF v.is = "array" THEN Array(OnlyStrings(v.list)) ELSE default
    [] f.kind = "choice" -> Chosen(f, v)
    [] f.kind = "color"  -> Text(ColorOf(v.is, v.s))
    [] f.kind = "colors" -> Object(IF v.is = "object" THEN ReadColors(v.list) ELSE <<>>)
    [] f.kind = "models" -> Object(IF v.is = "object" THEN ReadModels(v.list) ELSE <<>>)
    [] f.kind = "fields" -> Object(IF v.is = "object" THEN OnlyStrings(v.list) ELSE <<>>)
    [] f.kind = "dictionaries" -> Array(IF v.is = "array" THEN ReadDictionaries(v.list) ELSE <<>>)

Known       == <<"scan", "known_languages_only">>
PaddingX    == <<"popup", "highlight_padding_x">>
PaddingY    == <<"popup", "highlight_padding_y">>
SentenceKey == <<"translation", "sentence_key">>
Trigger     == <<"scan", "trigger">>

\* The earlier name of a key, which its own comes before.
Earlier(at) ==
  CASE at = Known -> <<"scan", "japanese_only">>
    [] at \in {PaddingX, PaddingY} -> <<"popup", "highlight_padding">>
    [] OTHER -> at
DefaultFor(doc, f) ==
  IF Earlier(f.at) = f.at THEN f.default ELSE ReadFrom(f, Get(doc, Earlier(f.at)), f.default)

\* A sentence key that is no key is the default one; none is none.
KeyOr(default, key) == IF key.s # "" /\ ParseKey(key.s) = <<>> THEN default ELSE key

ReadField(doc, f) == ReadFrom(f, Get(doc, f.at), DefaultFor(doc, f))
ReadAll(doc, fields) ==
  [at \in DOMAIN fields |->
     IF at = SentenceKey THEN KeyOr(fields[at].default, ReadField(doc, fields[at]))
     ELSE ReadField(doc, fields[at])]

TriggerOf(config) == [i \in DOMAIN config[Trigger].list |-> config[Trigger].list[i].s]

\* An error only when the trigger is none.
WithTriggerOf(config) == [ok |-> IsChord(TriggerOf(config)), config |-> config]
FromJson(doc) == WithTriggerOf(ReadAll(doc, Fields))

\* None is no error, and what is no object is one.
LoadFile(file) ==
  IF file.is = "object" THEN FromJson(file.doc)
  ELSE [ok |-> file.is = "missing", config |-> Defaults]

-----------------------------------------------------------------------------
(* Writing.                                                                *)

In(section, names) == {<<section, name>> : name \in names}
WrittenPaths ==
  In("", {"language", "disabled_languages", "log_level", "paused", "statistics",
          "statistics_translations", "dictionaries"})
  \cup In("scan", {"trigger", "max_length", "delay_ms", "move_threshold", "hide_on_no_result",
                   "search_kanji", "highlight", "accessibility", "selection", "ignored_windows",
                   "ocr", "ocr_vertical", "ocr_model", "ocr_engine", "known_languages_only",
                   "wheel_length", "wheel_lock", "ocr_windows"})
  \cup In("popup", {"width", "max_height", "font_size", "font_family", "scale", "theme", "offset_x",
                    "offset_y", "max_results", "max_dictionaries", "show_frequencies", "show_pitch",
                    "show_tags", "show_furigana", "highlight_color", "highlight_style", "compositor",
                    "highlight_thickness", "highlight_auto", "select_button", "highlight_radius",
                    "highlight_padding_x", "highlight_padding_y", "design", "scheme", "placement",
                    "background_color", "text_color", "accent_color", "border_color",
                    "corner_radius", "border_width", "padding", "opacity", "headword_size",
                    "furigana_size", "show_reading", "show_inflection", "show_dictionary",
                    "show_buttons", "show_kanji", "max_senses", "button_size", "colors"})
  \cup In("audio", {"enabled", "autoplay", "sources"})
  \cup In("translation", {"enabled", "selections", "sentence_key", "disabled_languages", "model",
                          "models"})
  \cup In("anki", {"enabled", "url", "key", "deck", "model", "fields", "tags", "allow_duplicates"})

\* The names these are written by are told apart from those they are read by.
NameOf(f, i) ==
  CASE f.at = <<"scan", "selection">>   -> <<"off", "always", "with-trigger">>[i]
    [] f.at = <<"scan", "ocr">>         -> <<"fallback", "off", "always">>[i]
    [] f.at = <<"scan", "ocr_engine">>  -> <<"auto", "paddle", "tesseract">>[i]
    [] f.at = <<"popup", "theme">>      -> <<"auto", "dark", "light">>[i]
    [] f.at = <<"popup", "compositor">> -> <<"auto", "on", "off">>[i]
    [] f.at = <<"popup", "select_button">> -> <<"right", "middle">>[i]
    [] OTHER -> f.names[i]

WrittenAs(f, value) == IF f.kind = "choice" THEN Text(NameOf(f, value.n)) ELSE value
WriteAll(config, paths, fields) == [at \in paths |-> WrittenAs(fields[at], config[at])]

\* A mistake: a field that was added is read, and not written.
ToJsonForgetful(config) == WriteAll(config, WrittenPaths \ {<<"scan", "wheel_lock">>}, Fields)

ToJson(config) == WriteAll(config, WrittenPaths, Fields)

-----------------------------------------------------------------------------
(* The file and the daemon.                                                *)

Missing == [is |-> "missing", doc |-> <<>>]

\* save().
FileOf(config) == [is |-> "object", doc |-> ToJson(config)]

\* What a daemon starts with: the defaults when the file cannot be read.
OrDefaults(read) == IF read.ok THEN read.config ELSE Defaults
StartsWith(file) == OrDefaults(LoadFile(file))

\* The settings application gets what the daemon has.
ConfigInit ==
  /\ configFile \in {Missing, [is |-> "other", doc |-> <<>>]}
                      \cup {[is |-> "object", doc |-> doc] : doc \in Documents}
  /\ daemonConfig = StartsWith(configFile)
  /\ pageConfig = FromJson(ToJson(daemonConfig)).config
  /\ changes = 0

Changed == changes < MaxChanges /\ changes' = changes + 1

\* applyConfig(), as dictionaries are found.
Saved ==
  /\ configFile' = FileOf(daemonConfig)
  /\ UNCHANGED <<daemonConfig, pageConfig, changes>>

Restarted ==
  /\ daemonConfig' = StartsWith(configFile)
  /\ pageConfig' = FromJson(ToJson(daemonConfig')).config
  /\ UNCHANGED <<configFile, changes>>

-----------------------------------------------------------------------------
(* The settings application.                                               *)

\* config.set: taken and saved, or refused, which nobody is told.
Taken(read) ==
  IF read.ok
  THEN /\ daemonConfig' = read.config
       /\ configFile' = FileOf(read.config)
  ELSE UNCHANGED <<daemonConfig, configFile>>
Sent(config) == pageConfig' = config /\ Taken(FromJson(ToJson(config)))

WithTrigger(names) == [pageConfig EXCEPT ![Trigger] = Array(Strings(names))]

\* The three rows of the trigger, as the user knows the keys.
Rows(names) == [i \in 1 .. 3 |-> IF i <= Len(names) THEN DisplayName(names[i]) ELSE ""]

\* storeTrigger(): what is no trigger is only told.
ChooseKey ==
  \E i \in 1 .. 3, name \in KeyNames \cup {""} :
    LET rows  == [Rows(TriggerOf(pageConfig)) EXCEPT ![i] = name]
        names == SelectSeq(rows, LAMBDA row : row # "")
    IN /\ Changed
       /\ IF IsChord(names) THEN Sent(WithTrigger(names))
          ELSE UNCHANGED <<configFile, daemonConfig, pageConfig>>

\* What the desktop recorded while keys and buttons were pressed: the main buttons only click.
Recorded(presses) ==
  LET known == SelectSeq(presses, LAMBDA key : key \notin {"MouseLeft", "MouseRight"})
      Name(key) == IF key \in MouseButtons /\ ~Windows THEN key ELSE DisplayKeyName(key)
  IN FoldLeft(LAMBDA names, key : IF Name(key) \in ToSet(names) THEN names ELSE Append(names, Name(key)),
              <<>>, known)

RecordKeys ==
  \E presses \in Presses :
    LET names == Recorded(presses)
    IN /\ Changed /\ names # <<>>
       /\ Sent(WithTrigger(SubSeq(names, 1, IF Len(names) < 3 THEN Len(names) ELSE 3)))

\* stored(): one key by its canonical name.
Stored(name) == IF Len(ParseKey(name)) = 1 THEN KeyName(ParseKey(name)[1]) ELSE name

\* Only keys that can be held with the trigger are offered, or none.
Offered(name) ==
  LET keys == ExtraKey(name, TriggerOf(pageConfig))
  IN keys # <<>> /\ ToSet(keys) \cap MouseButtons = {}
ChooseSentenceKey ==
  \E name \in {key \in KeyNames : Offered(key)} \cup {""} :
    /\ Changed
    /\ Sent([pageConfig EXCEPT ![SentenceKey] = Text(Stored(name))])

ConfigNext ==
  Saved \/ Restarted \/ ChooseKey \/ RecordKeys \/ ChooseSentenceKey

ConfigSpec == ConfigInit /\ [][ConfigNext]_configVars

-----------------------------------------------------------------------------
\* Nothing is lost on its way: the configuration that was read out of whatever file is the same
\* once it is written and read again, so that neither a restart nor a page that changes one thing
\* changes another; and what the pages make of the trigger is taken.
ConfigIsKept ==
  /\ FromJson(ToJson(daemonConfig)) = [ok |-> TRUE, config |-> daemonConfig]
  /\ pageConfig = daemonConfig
===============================================================================
