-------------------------------- MODULE Health --------------------------------
(***************************************************************************)
(* The daemon's report of its health (apps/daemon/Health.cpp, and what the *)
(* desktop, the captures and the translation say for it): every part a     *)
(* lookup depends on, how well it works and the action that fixes it.      *)
(*                                                                         *)
(* A report is a set of checks [id, status, fix], the fix "none" where the *)
(* code leaves it empty. What is found is the record f, the settings are   *)
(* cfg: the operators are named for the code's functions, and what they    *)
(* say in words is left out.                                               *)
(***************************************************************************)

Of(id, status, fix) == [id |-> id, status |-> status, fix |-> fix]
Well(id) == Of(id, "ok", "none")
Where(found, check) == IF found THEN {check} ELSE {}

\* What there is to find when nothing is wrong.
Healthy ==
  [windows |-> FALSE, replaced |-> FALSE, others |-> FALSE, startup |-> FALSE,
   desktop |-> "answers", chord |-> "there", keys |-> TRUE, input |-> "recent", above |-> FALSE,
   words |-> "found", opened |-> TRUE, languages |-> "preferred", recommended |-> "all",
   font |-> "own", reading |-> "answers", bus |-> "answers", ocr |-> TRUE, lacks |-> FALSE,
   reads |-> "right", drawing |-> TRUE, used |-> TRUE, runtime |-> TRUE,
   translator |-> "answers", models |-> {"works"}, audio |-> "plays", anki |-> "ready",
   writable |-> TRUE, folders |-> TRUE, log |-> "quiet"]

\* What the checks tell apart.
Findable(f) ==
  /\ f = [k \in DOMAIN Healthy |-> f[k]]
  /\ f.languages \in {"none", "others", "preferred"}
  /\ f.recommended \in {"none", "some", "all", "unoffered"}
  /\ f.font \in {"missing", "borrowed", "own"} /\ f.log \in {"quiet", "warnings", "errors"}
  /\ f.bus \in {"absent", "unreachable", "silent", "slow", "answers"}
  /\ f.reading \in {"stuck", "late", "busy", "answers"} /\ f.reads \in {"none", "wrong", "right"}
  /\ f.audio \in {"off", "silent", "plays"}
  /\ f.anki \in {"off", "silent", "unchosen", "ready"}

-----------------------------------------------------------------------------
(* The daemon and the desktop.                                             *)

Trigger(f) ==
  IF f.chord = "none" \/ (f.chord = "unknown" /\ ~f.windows)
  THEN Of("trigger", "error", "open-scanning") ELSE Well("trigger")

\* The click that started an interactive check must have come.
Input(f, interactive) ==
  CASE f.input = "lost" -> Of("input", "warning", "none")
    [] f.input = "never" -> IF interactive THEN Of("input", "error", "restart")
                                           ELSE Of("input", "info", "none")
    [] f.input = "late" /\ interactive -> Of("input", "error", "restart")
    [] OTHER -> Well("input")

Desktop(f, interactive) ==
  {Trigger(f), Input(f, interactive), Well("desktop")}
    \cup Where(~f.keys, Of("keyboard", "info", "none"))
    \cup Where(f.windows /\ f.above, Of("elevated", "warning", "run-as-administrator"))

CheckDaemon(f, cfg, interactive) ==
  {IF f.replaced THEN Of("daemon", "warning", "restart") ELSE Well("daemon")}
    \cup Where(f.others, Of("instances", "error", "restart"))
    \cup Where(f.startup, Of("startup", "error", "none"))
    \cup Where(cfg.paused, Of("paused", "warning", "resume"))
    \cup IF f.desktop = "answers" THEN Desktop(f, interactive)
                                  ELSE {Of("desktop", "error", "restart")}

-----------------------------------------------------------------------------
(* Languages and dictionaries.                                             *)

\* No dictionary with words, or one that cannot be opened.
CheckDictionaries(f) ==
  {IF f.words = "none" THEN Of("dictionaries", "error", "open-dictionaries")
   ELSE IF ~f.opened THEN Of("dictionaries", "warning", "open-dictionaries")
   ELSE Well("dictionaries")}
    \cup Where(f.words = "others", Of("lookup", "warning", "open-dictionaries"))
    \cup Where(f.words = "found", Well("lookup"))

EnabledLanguages(f) ==
  CASE f.languages = "none"      -> Of("languages", "error", "open-scanning")
    [] f.languages = "others"    -> Of("languages", "warning", "open-scanning")
    [] f.languages = "preferred" -> Well("languages")

Recommended(f) ==
  IF f.languages = "none" THEN {}
  ELSE CASE f.recommended = "none" ->
              {Of("recommended-dictionaries", "warning", "open-dictionaries")}
         [] f.recommended = "some" ->
              {Of("recommended-dictionaries", "info", "open-dictionaries")}
         [] f.recommended = "all" -> {Well("recommended-dictionaries")}
         [] f.recommended = "unoffered" -> {}

Fonts(f) ==
  CASE f.font = "missing"  -> Of("font", "error", "none")
    [] f.font = "borrowed" -> Of("font", "info", "none")
    [] f.font = "own"      -> Well("font")

CheckLanguages(f) ==
  CheckDictionaries(f) \cup {EnabledLanguages(f), Fonts(f)} \cup Recommended(f)

-----------------------------------------------------------------------------
(* Reading the screen.                                                     *)

\* AT-SPI: the registry of applications, then a round trip.
Atspi(f) ==
  CASE f.bus \in {"unreachable", "silent"} -> Of("accessibility", "error", "restart")
    [] f.bus = "slow"                      -> Of("accessibility", "warning", "none")
    [] f.bus = "answers"                   -> Well("accessibility")

\* UI Automation: a round trip to the application with the keyboard.
Uia(f) ==
  CASE f.bus = "unreachable"          -> Of("accessibility", "error", "restart")
    [] f.bus \in {"silent", "slow"}   -> Of("accessibility", "warning", "none")
    [] f.bus = "answers"              -> Well("accessibility")

Accessibility(f) ==
  IF f.bus = "absent" THEN Of("accessibility", "warning", "none")
  ELSE IF f.windows THEN Uia(f) ELSE Atspi(f)

\* Test text is drawn and read in every language there is a model for.
OcrReads(f) ==
  CASE f.lacks /\ f.reads = "wrong"  -> Of("ocr", "error", "open-scanning")
    [] f.lacks /\ f.reads # "wrong"  -> Of("ocr", "warning", "open-scanning")
    [] ~f.lacks /\ f.reads = "none"  -> Of("ocr", "warning", "none")
    [] ~f.lacks /\ f.reads = "wrong" -> Of("ocr", "error", "open-scanning")
    [] ~f.lacks /\ f.reads = "right" -> Well("ocr")

\* Microsoft's runtime is what the settings application installs by itself.
Ocr(f, cfg) ==
  IF ~cfg.ocr THEN Of("ocr", "warning", "enable-ocr")
  ELSE IF ~f.runtime THEN Of("ocr", "error", "install-vcredist")
  ELSE IF ~f.ocr THEN Of("ocr", "error", "open-scanning")
  ELSE OcrReads(f)

\* The capture thread is asked again when its request was dropped for a newer one.
Capture(f, cfg) ==
  CASE f.reading = "stuck"   -> {Of("capture", "error", "restart")}
    [] f.reading = "late"    -> {Of("capture", "error", "restart")}
    [] f.reading = "busy"    -> {Of("capture", "warning", "none")}
    [] f.reading = "answers" -> {Accessibility(f), Ocr(f, cfg)}

CheckScreen(f, cfg) ==
  IF f.desktop = "none" THEN {}
  ELSE Capture(f, cfg) \cup {Of("last-capture", "info", "none")}
         \cup Where(~cfg.accessibility,
                    Of("accessibility-setting", "warning", "enable-accessibility"))
         \cup Where(~f.drawing, Of("render", "error", "restart"))

-----------------------------------------------------------------------------
(* The rest.                                                               *)

\* f.models: how the models of the languages in use are, none when no language has one.
Translation(f, cfg) ==
  IF ~cfg.translation \/ f.models = {} THEN Well("translation")
  ELSE IF f.translator = "late" THEN Of("translation", "warning", "none")
  ELSE IF ~f.runtime /\ f.models # {"missing"} THEN Of("translation", "error", "install-vcredist")
  ELSE IF "damaged" \in f.models THEN Of("translation", "error", "download-translation")
  ELSE IF "missing" \in f.models THEN Of("translation", "warning", "download-translation")
  ELSE Well("translation")

Audio(f) ==
  CASE f.audio = "off"    -> {}
    [] f.audio = "silent" -> {Of("audio", "warning", "none")}
    [] f.audio = "plays"  -> {Well("audio")}

Anki(f) ==
  CASE f.anki = "off" -> {}
    [] f.anki \in {"silent", "unchosen"} -> {Of("anki", "warning", "open-anki")}
    [] f.anki = "ready" -> {Well("anki")}

Log(f) ==
  CASE f.log = "quiet"    -> {}
    [] f.log = "warnings" -> {Of("log", "info", "none")}
    [] f.log = "errors"   -> {Of("log", "warning", "none")}

Folders(f) ==
  {IF f.writable THEN Well("config") ELSE Of("config", "error", "none"),
   IF f.folders THEN Well("folders") ELSE Of("folders", "error", "none")}

\* healthJson(). A daemon without a desktop still serves, and translates.
HealthReport(f, cfg, interactive) ==
  CheckDaemon(f, cfg, interactive) \cup CheckLanguages(f) \cup CheckScreen(f, cfg)
    \cup {Translation(f, cfg)} \cup Audio(f) \cup Anki(f) \cup Folders(f) \cup Log(f)

-----------------------------------------------------------------------------
\* What the settings application makes of a report.
Ailing(checks) == {c \in checks : c.status # "ok"}
Errors(checks) == {c \in checks : c.status = "error"}
===============================================================================
