------------------------- MODULE SettingsPagesProofs -------------------------
(***************************************************************************)
(* Three theorems about the settings application.                          *)
(*                                                                         *)
(* SettingsPages: a setting of the working copy changes only when the      *)
(* user changed that one, or what follows from it, or when the daemon's    *)
(* configuration is taken over. A page writes all it shows at each change, *)
(* so what the pages show and store is what the copy holds, but for what   *)
(* was written without them.                                               *)
(*                                                                         *)
(* SetupInstall: the setup wizard never waits for what cannot come. Its    *)
(* counts are those of what flies, waits or is imported for it, and an     *)
(* import it knows the number of is one it will hear the end of. It says   *)
(* it is done only when all it offers is there, since until then each      *)
(* dictionary is installed, flies, waits, or is the import it waits for.   *)
(***************************************************************************)
EXTENDS SettingsPages, SetupInstall, FiniteSetTheorems, SequenceTheorems, TLAPS

Names ==
  {"mode", "engine", "access", "trigger", "languages", "preferred", "translates", "sentence",
   "look", "size", "deck", "model", "fields", "order", "paused"}
Widgets ==
  {"mode", "engine", "access", "languages", "preferred", "translates", "sentence", "without",
   "look", "size", "deck", "model", "fields"}

IsCopy(c) == c = [s \in Names |-> c[s]]
IsShown(w) == w = [s \in Widgets |-> w[s]]
IsPush(p) ==
  p = [loaded |-> p.loaded, pending |-> p.pending, timer |-> p.timer, recent |-> p.recent]

\* What is stored by pages that store all they show.
Stored == {"mode", "engine", "translates", "look", "size", "deck", "fields"}
Showing(c, w, b) ==
  /\ \A s \in Stored : w[s] = c[s] \/ s \in b
  /\ w.sentence = c.sentence \/ c.sentence = w.without

\* What came from the daemon.
Messages(q) == \E S : q \in Seq(S) /\ \A m \in S : m.type = "config" => IsCopy(m.of)

PageInv ==
  /\ IsCopy(copy) /\ IsShown(shown) /\ IsPush(push) /\ IsCopy(configured)
  /\ line = [up |-> line.up, in |-> line.in] /\ Messages(line.in)
  /\ push.loaded => Showing(copy, shown, behind)
  /\ asked # <<>> => push.loaded = TRUE

\* What the theorem says of a step.
Kept ==
  \A s \in DOMAIN copy :
    copy'[s] # copy[s] =>
      \/ s \in touched' \cup behind
      \/ s = "sentence" /\ copy.sentence = shown.without

-----------------------------------------------------------------------------
(* Records.                                                                *)

LEMMA CopyNames == ASSUME NEW c, IsCopy(c) PROVE DOMAIN c = Names
BY DEF IsCopy

LEMMA ShownNames == ASSUME NEW w, IsShown(w) PROVE DOMAIN w = Widgets
BY DEF IsShown

LEMMA DefaultsIsCopy == IsCopy(Defaults)
BY DEF IsCopy, Names, Defaults

\* One setting is written.
LEMMA CopyWritten ==
  ASSUME NEW c, IsCopy(c), NEW n \in Names, NEW v
  PROVE  /\ IsCopy([c EXCEPT ![n] = v]) /\ [c EXCEPT ![n] = v][n] = v
         /\ \A s \in Names \ {n} : [c EXCEPT ![n] = v][s] = c[s]
BY DEF IsCopy

LEMMA ShownWritten ==
  ASSUME NEW w, IsShown(w), NEW n \in Widgets, NEW v
  PROVE  /\ IsShown([w EXCEPT ![n] = v]) /\ [w EXCEPT ![n] = v][n] = v
         /\ \A s \in Widgets \ {n} : [w EXCEPT ![n] = v][s] = w[s]
BY DEF IsShown

LEMMA OcrIsStored ==
  ASSUME NEW c, IsCopy(c), NEW w
  PROVE  /\ IsCopy(OcrStored(c, w))
         /\ OcrStored(c, w).mode = w.mode /\ OcrStored(c, w).engine = w.engine
         /\ \A s \in Names \ {"mode", "engine"} : OcrStored(c, w)[s] = c[s]
<1>1. OcrStored(c, w) =
        [s \in Names |->
           IF s = "mode" THEN w.mode
           ELSE IF s = "engine" THEN w.engine ELSE c[s]]
  BY DEF OcrStored, IsCopy, Names
<1>2. {"mode", "engine"} \subseteq Names
  BY DEF Names
<1> QED BY <1>1, <1>2 DEF IsCopy

LEMMA TranslationIsStored ==
  ASSUME NEW c, IsCopy(c), NEW w
  PROVE  /\ IsCopy(TranslationStored(c, w))
         /\ TranslationStored(c, w).translates = w.translates
         /\ TranslationStored(c, w).sentence = w.sentence
         /\ \A s \in Names \ {"translates", "sentence"} : TranslationStored(c, w)[s] = c[s]
<1>1. TranslationStored(c, w) =
        [s \in Names |->
           IF s = "translates" THEN w.translates
           ELSE IF s = "sentence" THEN w.sentence ELSE c[s]]
  BY DEF TranslationStored, IsCopy, Names
<1>2. {"translates", "sentence"} \subseteq Names
  BY DEF Names
<1> QED BY <1>1, <1>2 DEF IsCopy

LEMMA LookIsStored ==
  ASSUME NEW c, IsCopy(c), NEW w
  PROVE  /\ IsCopy(LookStored(c, w))
         /\ LookStored(c, w).look = w.look /\ LookStored(c, w).size = w.size
         /\ \A s \in Names \ {"look", "size"} : LookStored(c, w)[s] = c[s]
<1>1. LookStored(c, w) =
        [s \in Names |->
           IF s = "look" THEN w.look
           ELSE IF s = "size" THEN w.size ELSE c[s]]
  BY DEF LookStored, IsCopy, Names
<1>2. {"look", "size"} \subseteq Names
  BY DEF Names
<1> QED BY <1>1, <1>2 DEF IsCopy

LEMMA AnkiIsStored ==
  ASSUME NEW c, IsCopy(c), NEW w
  PROVE  /\ IsCopy(AnkiStored(c, w))
         /\ AnkiStored(c, w).deck = w.deck /\ AnkiStored(c, w).model = w.model
         /\ AnkiStored(c, w).fields = w.fields
         /\ \A s \in Names \ {"deck", "model", "fields"} : AnkiStored(c, w)[s] = c[s]
<1>1. AnkiStored(c, w) =
        [s \in Names |->
           IF s = "deck" THEN w.deck
           ELSE IF s = "model" THEN w.model
           ELSE IF s = "fields" THEN w.fields ELSE c[s]]
  BY DEF AnkiStored, IsCopy, Names
<1>2. {"deck", "model", "fields"} \subseteq Names
  BY DEF Names
<1> QED BY <1>1, <1>2 DEF IsCopy

LEMMA IsRepaired ==
  ASSUME NEW c, IsCopy(c), NEW w
  PROVE  /\ IsCopy(Repaired(w, c))
         /\ \A s \in Names \ {"preferred"} : Repaired(w, c)[s] = c[s]
BY CopyWritten DEF Repaired, Names

LEMMA ScanningIsShown ==
  ASSUME NEW c, NEW w, IsShown(w)
  PROVE  /\ IsShown(ScanningShown(w, c))
         /\ ScanningShown(w, c).mode = c.mode /\ ScanningShown(w, c).engine = c.engine
         /\ \A s \in Widgets \ {"mode", "engine", "access", "languages", "preferred"} :
              ScanningShown(w, c)[s] = w[s]
<1>1. ScanningShown(w, c) =
        [s \in Widgets |->
           IF s = "mode" THEN c.mode
           ELSE IF s = "engine" THEN c.engine
           ELSE IF s = "access" THEN c.access
           ELSE IF s = "languages" THEN c.languages
           ELSE IF s = "preferred" THEN ShownPreferred(c.preferred, w.preferred, c.languages)
           ELSE w[s]]
  BY DEF ScanningShown, IsShown, Widgets
<1>2. {"mode", "engine", "access", "languages", "preferred"} \subseteq Widgets
  BY DEF Widgets
<1> QED BY <1>1, <1>2 DEF IsShown

LEMMA TranslationIsShown ==
  ASSUME NEW c, NEW w, IsShown(w)
  PROVE  /\ IsShown(TranslationShown(w, c))
         /\ TranslationShown(w, c).translates = c.translates
         /\ \/ TranslationShown(w, c).sentence = c.sentence
            \/ c.sentence = c.trigger
         /\ TranslationShown(w, c).without = c.trigger
         /\ \A s \in Widgets \ {"translates", "without", "sentence"} :
              TranslationShown(w, c)[s] = w[s]
<1>1. TranslationShown(w, c) =
        [s \in Widgets |->
           IF s = "translates" THEN c.translates
           ELSE IF s = "without" THEN c.trigger
           ELSE IF s = "sentence" THEN (IF c.sentence = c.trigger THEN "none" ELSE c.sentence)
           ELSE w[s]]
  BY DEF TranslationShown, IsShown, Widgets
<1>2. {"translates", "without", "sentence"} \subseteq Widgets
  BY DEF Widgets
<1> QED BY <1>1, <1>2 DEF IsShown

LEMMA LookIsShown ==
  ASSUME NEW c, NEW w, IsShown(w)
  PROVE  /\ IsShown(LookShown(w, c))
         /\ LookShown(w, c).look = c.look /\ LookShown(w, c).size = c.size
         /\ \A s \in Widgets \ {"look", "size"} :
              LookShown(w, c)[s] = w[s]
<1>1. LookShown(w, c) =
        [s \in Widgets |->
           IF s = "look" THEN c.look
           ELSE IF s = "size" THEN c.size ELSE w[s]]
  BY DEF LookShown, IsShown, Widgets
<1>2. {"look", "size"} \subseteq Widgets
  BY DEF Widgets
<1> QED BY <1>1, <1>2 DEF IsShown

LEMMA AnkiIsShown ==
  ASSUME NEW c, NEW w, IsShown(w)
  PROVE  /\ IsShown(AnkiShown(w, c))
         /\ AnkiShown(w, c).deck = c.deck /\ AnkiShown(w, c).fields = c.fields
         /\ \A s \in Widgets \ {"deck", "model", "fields"} :
              AnkiShown(w, c)[s] = w[s]
<1>1. AnkiShown(w, c) =
        [s \in Widgets |->
           IF s = "deck" THEN c.deck
           ELSE IF s = "model" THEN c.model
           ELSE IF s = "fields" THEN c.fields ELSE w[s]]
  BY DEF AnkiShown, IsShown, Widgets
<1>2. {"deck", "model", "fields"} \subseteq Widgets
  BY DEF Widgets
<1> QED BY <1>1, <1>2 DEF IsShown

\* Every page shows the copy.
LEMMA AllIsShown ==
  ASSUME NEW c, NEW w, IsShown(w)
  PROVE  IsShown(AllShown(w, c)) /\ Showing(c, AllShown(w, c), {})
<1> DEFINE w1 == ScanningShown(w, c)
           w2 == TranslationShown(w1, c)
           w3 == LookShown(w2, c)
           w4 == AnkiShown(w3, c)
<1>1. /\ IsShown(w1) /\ w1.mode = c.mode /\ w1.engine = c.engine
  BY ScanningIsShown
<1> HIDE DEF w1
<1>2. /\ IsShown(w2) /\ w2.translates = c.translates
      /\ w2.sentence = c.sentence \/ c.sentence = w2.without
      /\ \A s \in Widgets \ {"translates", "without", "sentence"} : w2[s] = w1[s]
  BY <1>1, TranslationIsShown
<1> HIDE DEF w2
<1>3. /\ IsShown(w3) /\ w3.look = c.look /\ w3.size = c.size
      /\ \A s \in Widgets \ {"look", "size"} : w3[s] = w2[s]
  BY <1>2, LookIsShown
<1> HIDE DEF w3
<1>4. /\ IsShown(w4) /\ w4.deck = c.deck /\ w4.fields = c.fields
      /\ \A s \in Widgets \ {"deck", "model", "fields"} : w4[s] = w3[s]
  BY <1>3, AnkiIsShown
<1> HIDE DEF w4
<1>5. AllShown(w, c) = w4
  BY DEF AllShown, w4, w3, w2, w1
<1>6. Showing(c, w4, {})
  BY <1>1, <1>2, <1>3, <1>4 DEF Showing, Stored, Widgets
<1> QED BY <1>4, <1>5, <1>6

LEMMA Taken ==
  ASSUME NEW c, IsCopy(c), NEW part \in SUBSET Names
  PROVE  /\ IsCopy(With(c, part, Defaults))
         /\ \A s \in Names \ part : With(c, part, Defaults)[s] = c[s]
BY DEF IsCopy, With

-----------------------------------------------------------------------------
(* What steps have in common.                                              *)

\* The daemon and the connection are left alone.
LEMMA Framed ==
  ASSUME PageInv, UNCHANGED <<configured, line>>, IsCopy(copy'), IsShown(shown'), IsPush(push'),
         push'.loaded = push.loaded, asked' # <<>> => push.loaded = TRUE,
         push.loaded => Showing(copy', shown', behind')
  PROVE  PageInv'
BY DEF PageInv

\* The pages and the copy are left alone.
LEMMA CopyStays ==
  ASSUME PageInv, UNCHANGED <<copy, push, shown, asked, behind>>, IsCopy(configured'),
         line' = [up |-> line'.up, in |-> line'.in], Messages(line'.in)
  PROVE  PageInv' /\ Kept
<1>1. Kept
  BY DEF Kept
<1> QED BY <1>1 DEF PageInv

LEMMA CommitLoads ==
  ASSUME IsPush(push), Commit
  PROVE  IsPush(push') /\ push'.loaded = push.loaded
BY DEF IsPush, Commit

\* What Change and Edit do.
LEMMA Changes ==
  ASSUME PageInv, NEW c, NEW w, NEW settings, Change(c, w, settings)
  PROVE  /\ push.loaded /\ copy' = c /\ shown' = w /\ touched' = settings
         /\ IsPush(push') /\ push'.loaded = push.loaded
         /\ UNCHANGED <<configured, line, asked, behind>>
<1>1. Commit /\ IsPush(push)
  BY DEF Change, Edit, PageInv
<1> QED BY <1>1, CommitLoads DEF Change, Edit, daemonSide

LEMMA Edits ==
  ASSUME PageInv, NEW c, NEW w, NEW settings, Edit(c, w, settings)
  PROVE  /\ copy' = c /\ shown' = w /\ touched' = settings
         /\ IsPush(push') /\ push'.loaded = push.loaded
         /\ UNCHANGED <<configured, line>>
<1>1. Commit /\ IsPush(push)
  BY DEF Edit, PageInv
<1> QED BY <1>1, CommitLoads DEF Edit, daemonSide

\* A message more, or one less.
LEMMA MessageSent ==
  ASSUME NEW q, Messages(q), NEW m, m.type = "config" => IsCopy(m.of)
  PROVE  Messages(Append(q, m)) /\ Messages(q \o <<m>>)
<1>1. PICK S : q \in Seq(S) /\ \A x \in S : x.type = "config" => IsCopy(x.of)
  BY DEF Messages
<1> DEFINE T == S \cup {m}
<1>2. q \in Seq(T) /\ m \in T
  BY <1>1
<1>3. \A x \in T : x.type = "config" => IsCopy(x.of)
  BY <1>1
<1> HIDE DEF T
<1>4. Append(q, m) \in Seq(T) /\ q \o <<m>> \in Seq(T)
  BY <1>2
<1> QED BY <1>3, <1>4 DEF Messages

LEMMA MessageRead ==
  ASSUME NEW q, Messages(q), q # <<>>
  PROVE  Messages(Tail(q)) /\ (Head(q).type = "config" => IsCopy(Head(q).of))
<1>1. PICK S : q \in Seq(S) /\ \A x \in S : x.type = "config" => IsCopy(x.of)
  BY DEF Messages
<1>2. Tail(q) \in Seq(S) /\ Head(q) \in S
  BY <1>1
<1> QED BY <1>1, <1>2 DEF Messages

-----------------------------------------------------------------------------
(* A page stores all it shows.                                             *)

LEMMA EditOcrKeeps == ASSUME PageInv, EditOcr PROVE PageInv' /\ Kept
<1>1. PICK s \in {"mode", "engine"} :
        Change(OcrStored(copy, [shown EXCEPT ![s] = 1 - shown[s]]),
               [shown EXCEPT ![s] = 1 - shown[s]], {s})
  BY Zenon DEF EditOcr
<1> DEFINE w == [shown EXCEPT ![s] = 1 - shown[s]]
           c == OcrStored(copy, w)
<1>2. IsShown(w) /\ \A x \in Widgets \ {s} : w[x] = shown[x]
  <2>1. IsShown(shown) /\ s \in Widgets
    BY DEF PageInv, Widgets
  <2> QED BY <2>1, ShownWritten
<1> HIDE DEF w
<1>3. /\ push.loaded /\ copy' = c /\ shown' = w /\ touched' = {s}
      /\ IsPush(push') /\ push'.loaded = push.loaded
      /\ UNCHANGED <<configured, line, asked, behind>>
  BY <1>1, Changes DEF w
<1>4. /\ IsCopy(c) /\ c.mode = w.mode /\ c.engine = w.engine
      /\ \A x \in Names \ {"mode", "engine"} : c[x] = copy[x]
  BY OcrIsStored DEF PageInv
<1> HIDE DEF c
<1>5. Showing(copy, shown, behind) /\ DOMAIN copy = Names
  BY <1>3, CopyNames DEF PageInv
<1>6. Showing(c, w, behind)
  BY <1>2, <1>4, <1>5 DEF Showing, Stored, Names, Widgets
<1>7. Kept
  BY <1>2, <1>3, <1>4, <1>5 DEF Kept, Showing, Stored, Names, Widgets
<1> QED BY <1>2, <1>3, <1>4, <1>6, <1>7, Framed DEF PageInv

LEMMA EditLookKeeps == ASSUME PageInv, EditLook PROVE PageInv' /\ Kept
<1>1. PICK s \in {"look", "size"} :
        Change(LookStored(copy, [shown EXCEPT ![s] = 1 - shown[s]]),
               [shown EXCEPT ![s] = 1 - shown[s]], {s})
  BY Zenon DEF EditLook
<1> DEFINE w == [shown EXCEPT ![s] = 1 - shown[s]]
           c == LookStored(copy, w)
<1>2. IsShown(w) /\ \A x \in Widgets \ {s} : w[x] = shown[x]
  <2>1. IsShown(shown) /\ s \in Widgets
    BY DEF PageInv, Widgets
  <2> QED BY <2>1, ShownWritten
<1> HIDE DEF w
<1>3. /\ push.loaded /\ copy' = c /\ shown' = w /\ touched' = {s}
      /\ IsPush(push') /\ push'.loaded = push.loaded
      /\ UNCHANGED <<configured, line, asked, behind>>
  BY <1>1, Changes DEF w
<1>4. /\ IsCopy(c) /\ c.look = w.look /\ c.size = w.size
      /\ \A x \in Names \ {"look", "size"} : c[x] = copy[x]
  BY LookIsStored DEF PageInv
<1> HIDE DEF c
<1>5. Showing(copy, shown, behind) /\ DOMAIN copy = Names
  BY <1>3, CopyNames DEF PageInv
<1>6. Showing(c, w, behind)
  BY <1>2, <1>4, <1>5 DEF Showing, Stored, Names, Widgets
<1>7. Kept
  BY <1>2, <1>3, <1>4, <1>5 DEF Kept, Showing, Stored, Names, Widgets
<1> QED BY <1>2, <1>3, <1>4, <1>6, <1>7, Framed DEF PageInv

LEMMA EditTranslationKeeps == ASSUME PageInv, EditTranslation PROVE PageInv' /\ Kept
<1> DEFINE settings(w) == {s \in {"translates", "sentence"} : w[s] # shown[s]}
<1>1. PICK w \in {[shown EXCEPT !.translates = 1 - shown.translates]}
                   \cup {[shown EXCEPT !.sentence = k] :
                         k \in {"none"} \cup (Keys \ {shown.without})} :
        Change(TranslationStored(copy, w), w, settings(w))
  BY Zenon DEF EditTranslation
<1> DEFINE c == TranslationStored(copy, w)
<1>2. IsShown(w) /\ \A x \in Widgets \ {"translates", "sentence"} : w[x] = shown[x]
  <2>1. /\ IsShown(shown) /\ {"translates", "sentence"} \subseteq Widgets
    BY DEF PageInv, Widgets
  <2>2. CASE w = [shown EXCEPT !.translates = 1 - shown.translates]
    BY <2>1, <2>2, ShownWritten
  <2>3. CASE \E k : w = [shown EXCEPT !.sentence = k]
    BY <2>1, <2>3, ShownWritten
  <2> QED BY <1>1, <2>2, <2>3, Zenon
<1>3. /\ push.loaded /\ copy' = c /\ shown' = w /\ touched' = settings(w)
      /\ IsPush(push') /\ push'.loaded = push.loaded
      /\ UNCHANGED <<configured, line, asked, behind>>
  BY <1>1, Changes, Zenon
<1>4. /\ IsCopy(c) /\ c.translates = w.translates /\ c.sentence = w.sentence
      /\ \A x \in Names \ {"translates", "sentence"} : c[x] = copy[x]
  BY TranslationIsStored DEF PageInv
<1> HIDE DEF c
<1>5. Showing(copy, shown, behind) /\ DOMAIN copy = Names
  BY <1>3, CopyNames DEF PageInv
<1>6. Showing(c, w, behind)
  BY <1>2, <1>4, <1>5 DEF Showing, Stored, Names, Widgets
<1>7. Kept
  BY <1>2, <1>3, <1>4, <1>5 DEF Kept, Showing, Stored, Names, Widgets
<1> QED BY <1>2, <1>3, <1>4, <1>6, <1>7, Framed DEF PageInv

LEMMA EditAnkiKeeps == ASSUME PageInv, EditAnki PROVE PageInv' /\ Kept
<1> DEFINE settings(w) == {"deck", "fields", "model"} \cap
                            {s \in DOMAIN shown : s = "model" \/ w[s] # shown[s]}
<1>1. PICK w \in {[shown EXCEPT !.deck = 1 - shown.deck],
                  [shown EXCEPT !.fields[2] = 1 - shown.fields[2]]} :
        Change(AnkiStored(copy, w), w, settings(w))
  BY Zenon DEF EditAnki
<1> DEFINE c == AnkiStored(copy, w)
<1>2. /\ IsShown(w) /\ DOMAIN shown = Widgets
      /\ \A x \in Widgets \ {"deck", "fields"} : w[x] = shown[x]
  <2>1. /\ IsShown(shown) /\ {"deck", "fields"} \subseteq Widgets
    BY DEF PageInv, Widgets
  <2>2. CASE w = [shown EXCEPT !.deck = 1 - shown.deck]
    BY <2>1, <2>2, ShownWritten, ShownNames
  <2>3. CASE w = [shown EXCEPT !.fields[2] = 1 - shown.fields[2]]
    <3>1. w = [shown EXCEPT !.fields = [shown.fields EXCEPT ![2] = 1 - shown.fields[2]]]
      BY <2>3
    <3> QED BY <2>1, <3>1, ShownWritten, ShownNames
  <2> QED BY <1>1, <2>2, <2>3, Zenon
<1>3. /\ push.loaded /\ copy' = c /\ shown' = w /\ touched' = settings(w)
      /\ IsPush(push') /\ push'.loaded = push.loaded
      /\ UNCHANGED <<configured, line, asked, behind>>
  BY <1>1, Changes, Zenon
<1>4. /\ IsCopy(c) /\ c.deck = w.deck /\ c.fields = w.fields
      /\ \A x \in Names \ {"deck", "model", "fields"} : c[x] = copy[x]
  BY AnkiIsStored DEF PageInv
<1> HIDE DEF c
<1>5. Showing(copy, shown, behind) /\ DOMAIN copy = Names
  BY <1>3, CopyNames DEF PageInv
<1>6. Showing(c, w, behind)
  BY <1>2, <1>4, <1>5 DEF Showing, Stored, Names, Widgets
<1>7. Kept
  BY <1>2, <1>3, <1>4, <1>5 DEF Kept, Showing, Stored, Names, Widgets
<1> QED BY <1>2, <1>3, <1>4, <1>6, <1>7, Framed DEF PageInv

-----------------------------------------------------------------------------
(* A page stores what was changed.                                         *)

\* What was written is what was to be, and the pages still show the copy.
LEMMA Touched ==
  ASSUME PageInv, UNCHANGED <<configured, line>>, IsCopy(copy'), IsShown(shown'), IsPush(push'),
         push'.loaded = push.loaded, asked' # <<>> => push.loaded = TRUE,
         push.loaded => Showing(copy', shown', behind'),
         \A s \in Names : copy'[s] = copy[s] \/ s \in touched'
  PROVE  PageInv' /\ Kept
<1>1. DOMAIN copy = Names
  BY CopyNames DEF PageInv
<1>2. Kept
  BY <1>1 DEF Kept
<1> QED BY <1>2, Framed

LanguagesSet(r, on, preferred) == [r EXCEPT !.languages = on, !.preferred = preferred]

LEMMA LanguagesWritten ==
  ASSUME NEW c, IsCopy(c), NEW u, NEW v
  PROVE  /\ IsCopy(LanguagesSet(c, u, v))
         /\ \A s \in Names \ {"languages", "preferred"} : LanguagesSet(c, u, v)[s] = c[s]
<1>1. LanguagesSet(c, u, v) =
        [s \in Names |-> IF s = "preferred" THEN v ELSE IF s = "languages" THEN u ELSE c[s]]
  BY DEF LanguagesSet, IsCopy, Names
<1> QED BY <1>1 DEF IsCopy

LEMMA LanguagesShown ==
  ASSUME NEW w, IsShown(w), NEW u, NEW v
  PROVE  /\ IsShown(LanguagesSet(w, u, v))
         /\ \A s \in Widgets \ {"languages", "preferred"} : LanguagesSet(w, u, v)[s] = w[s]
<1>1. LanguagesSet(w, u, v) =
        [s \in Widgets |-> IF s = "preferred" THEN v ELSE IF s = "languages" THEN u ELSE w[s]]
  BY DEF LanguagesSet, IsShown, Widgets
<1> QED BY <1>1 DEF IsShown

LEMMA EditScanningKeeps == ASSUME PageInv, EditScanning PROVE PageInv' /\ Kept
<1>1. PICK v : Change([copy EXCEPT !.access = v], [shown EXCEPT !.access = v], {"access"})
  BY Zenon DEF EditScanning
<1> DEFINE c == [copy EXCEPT !.access = v]
           w == [shown EXCEPT !.access = v]
<1>2. /\ push.loaded /\ copy' = c /\ shown' = w /\ touched' = {"access"}
      /\ IsPush(push') /\ push'.loaded = push.loaded
      /\ UNCHANGED <<configured, line, asked, behind>>
  BY <1>1, Changes
<1>3. /\ IsCopy(c) /\ IsShown(w)
      /\ \A s \in Names \ {"access"} : c[s] = copy[s]
      /\ \A s \in Widgets \ {"access"} : w[s] = shown[s]
  <2>1. "access" \in Names /\ "access" \in Widgets /\ IsCopy(copy) /\ IsShown(shown)
    BY DEF Names, Widgets, PageInv
  <2>2. IsCopy(c) /\ \A s \in Names \ {"access"} : c[s] = copy[s]
    BY <2>1, CopyWritten
  <2>3. IsShown(w) /\ \A s \in Widgets \ {"access"} : w[s] = shown[s]
    BY <2>1, ShownWritten
  <2> QED BY <2>2, <2>3
<1> HIDE DEF c, w
<1>4. Showing(c, w, behind)
  BY <1>2, <1>3 DEF PageInv, Showing, Stored, Names, Widgets
<1> QED BY <1>2, <1>3, <1>4, Touched DEF PageInv

LEMMA ChoosePreferredKeeps == ASSUME PageInv, ChoosePreferred PROVE PageInv' /\ Kept
<1>1. PICK v : Change([copy EXCEPT !.preferred = v], [shown EXCEPT !.preferred = v],
                      {"preferred"})
  BY Zenon DEF ChoosePreferred
<1> DEFINE c == [copy EXCEPT !.preferred = v]
           w == [shown EXCEPT !.preferred = v]
<1>2. /\ push.loaded /\ copy' = c /\ shown' = w /\ touched' = {"preferred"}
      /\ IsPush(push') /\ push'.loaded = push.loaded
      /\ UNCHANGED <<configured, line, asked, behind>>
  BY <1>1, Changes
<1>3. /\ IsCopy(c) /\ IsShown(w)
      /\ \A s \in Names \ {"preferred"} : c[s] = copy[s]
      /\ \A s \in Widgets \ {"preferred"} : w[s] = shown[s]
  <2>1. "preferred" \in Names /\ "preferred" \in Widgets /\ IsCopy(copy) /\ IsShown(shown)
    BY DEF Names, Widgets, PageInv
  <2>2. IsCopy(c) /\ \A s \in Names \ {"preferred"} : c[s] = copy[s]
    BY <2>1, CopyWritten
  <2>3. IsShown(w) /\ \A s \in Widgets \ {"preferred"} : w[s] = shown[s]
    BY <2>1, ShownWritten
  <2> QED BY <2>2, <2>3
<1> HIDE DEF c, w
<1>4. Showing(c, w, behind)
  BY <1>2, <1>3 DEF PageInv, Showing, Stored, Names, Widgets
<1> QED BY <1>2, <1>3, <1>4, Touched DEF PageInv

LEMMA EditLanguagesKeeps == ASSUME PageInv, EditLanguages PROVE PageInv' /\ Kept
<1>1. PICK u, v, on : Change(LanguagesSet(copy, u, v), LanguagesSet(shown, on, v),
                             {"languages", "preferred"})
  BY Zenon DEF EditLanguages, LanguagesSet
<1> DEFINE c == LanguagesSet(copy, u, v)
           w == LanguagesSet(shown, on, v)
<1>2. IsCopy(c) /\ \A s \in Names \ {"languages", "preferred"} : c[s] = copy[s]
  BY LanguagesWritten DEF PageInv
<1>3. IsShown(w) /\ \A s \in Widgets \ {"languages", "preferred"} : w[s] = shown[s]
  BY LanguagesShown DEF PageInv
<1>4. /\ push.loaded /\ copy' = c /\ shown' = w /\ touched' = {"languages", "preferred"}
      /\ IsPush(push') /\ push'.loaded = push.loaded
      /\ UNCHANGED <<configured, line, asked, behind>>
  BY <1>1, Changes
<1> HIDE DEF c, w
<1>5. Showing(c, w, behind)
  BY <1>2, <1>3, <1>4 DEF PageInv, Showing, Stored, Names, Widgets
<1> QED BY <1>2, <1>3, <1>4, <1>5, Touched DEF PageInv

LEMMA ApplyThemeKeeps == ASSUME PageInv, ApplyTheme PROVE PageInv' /\ Kept
<1> DEFINE c == [copy EXCEPT !.look = 1]
           w == LookShown(shown, c)
<1>1. Change(c, w, {"look"})
  BY Zenon DEF ApplyTheme
<1>2. IsCopy(c) /\ \A s \in Names \ {"look"} : c[s] = copy[s]
  <2>1. "look" \in Names /\ IsCopy(copy)
    BY DEF Names, PageInv
  <2> QED BY <2>1, CopyWritten
<1> HIDE DEF c
<1>3. /\ IsShown(w) /\ w.look = c.look /\ w.size = c.size
      /\ \A s \in Widgets \ {"look", "size"} : w[s] = shown[s]
  BY LookIsShown DEF PageInv
<1> HIDE DEF w
<1>4. /\ push.loaded /\ copy' = c /\ shown' = w /\ touched' = {"look"}
      /\ IsPush(push') /\ push'.loaded = push.loaded
      /\ UNCHANGED <<configured, line, asked, behind>>
  BY <1>1, Changes
<1>5. Showing(c, w, behind)
  BY <1>2, <1>3, <1>4 DEF PageInv, Showing, Stored, Names, Widgets
<1> QED BY <1>2, <1>3, <1>4, <1>5, Touched DEF PageInv

\* The rows of the dictionaries page are stored.
LEMMA OrderKeeps ==
  ASSUME PageInv, push.loaded, NEW v, Edit([copy EXCEPT !.order = v], shown, {"order"}),
         UNCHANGED <<asked, behind>>
  PROVE  PageInv' /\ Kept
<1> DEFINE c == [copy EXCEPT !.order = v]
<1>1. IsCopy(c) /\ \A s \in Names \ {"order"} : c[s] = copy[s]
  <2>1. "order" \in Names /\ IsCopy(copy)
    BY DEF Names, PageInv
  <2> QED BY <2>1, CopyWritten
<1> HIDE DEF c
<1>2. /\ copy' = c /\ shown' = shown /\ touched' = {"order"}
      /\ IsPush(push') /\ push'.loaded = push.loaded
      /\ UNCHANGED <<configured, line>>
  BY Edits DEF c
<1>3. Showing(c, shown, behind)
  BY <1>1 DEF PageInv, Showing, Stored, Names
<1> QED BY <1>1, <1>2, <1>3, Touched DEF PageInv

LEMMA DictionariesKeep ==
  ASSUME PageInv, MoveDictionary \/ ToggleDictionary PROVE PageInv' /\ Kept
<1>1. CASE MoveDictionary
  <2>1. /\ push.loaded /\ UNCHANGED <<asked, behind>>
        /\ \E v : Edit([copy EXCEPT !.order = v], shown, {"order"})
    BY <1>1, Zenon DEF MoveDictionary
  <2> QED BY <2>1, OrderKeeps
<1>2. CASE ToggleDictionary
  <2>1. /\ push.loaded /\ UNCHANGED <<asked, behind>>
        /\ \E v : Edit([copy EXCEPT !.order = v], shown, {"order"})
    BY <1>2, Zenon DEF ToggleDictionary
  <2> QED BY <2>1, OrderKeeps
<1> QED BY <1>1, <1>2

-----------------------------------------------------------------------------
(* Pages that are shown again, and what is written without them.           *)

LEMMA RecordTriggerKeeps == ASSUME PageInv, RecordTrigger PROVE PageInv' /\ Kept
<1>1. PICK k \in Keys : Edit(Repaired(shown, [copy EXCEPT !.trigger = k]),
                             ScanningShown(shown, [copy EXCEPT !.trigger = k]),
                             {"trigger", "preferred"})
  BY Zenon DEF RecordTrigger
<1> DEFINE t == [copy EXCEPT !.trigger = k]
           c == Repaired(shown, t)
           w == ScanningShown(shown, t)
<1>2. IsCopy(t) /\ \A s \in Names \ {"trigger"} : t[s] = copy[s]
  <2>1. "trigger" \in Names /\ IsCopy(copy)
    BY DEF Names, PageInv
  <2> QED BY <2>1, CopyWritten
<1> HIDE DEF t
<1>3. IsCopy(c) /\ \A s \in Names \ {"preferred"} : c[s] = t[s]
  BY <1>2, IsRepaired
<1>4. /\ IsShown(w) /\ w.mode = t.mode /\ w.engine = t.engine
      /\ \A s \in Widgets \ {"mode", "engine", "access", "languages", "preferred"} :
           w[s] = shown[s]
  BY ScanningIsShown DEF PageInv
<1>5. Edit(c, w, {"trigger", "preferred"})
  BY <1>1 DEF t
<1> HIDE DEF c, w
<1>6. /\ copy' = c /\ shown' = w /\ touched' = {"trigger", "preferred"}
      /\ IsPush(push') /\ push'.loaded = push.loaded
      /\ UNCHANGED <<configured, line>>
  BY <1>5, Edits
<1>7. /\ push.loaded /\ asked' = asked
      /\ behind' = behind \ (Scanning \cup {"languages", "preferred"})
  BY DEF RecordTrigger
<1>8. \A s \in Names : c[s] = copy[s] \/ s \in {"trigger", "preferred"}
  BY <1>2, <1>3
<1>9. Showing(c, w, behind')
  BY <1>2, <1>3, <1>4, <1>7 DEF PageInv, Showing, Stored, Names, Widgets, Scanning
<1> QED BY <1>3, <1>4, <1>6, <1>7, <1>8, <1>9, Touched DEF PageInv

LEMMA ReplaceKeeps == ASSUME PageInv, Replace PROVE PageInv' /\ Kept
<1>1. PICK part \in {Scanning, Looks, DOMAIN copy \ {"order"}} :
        Edit(Repaired(shown, With(copy, part, Defaults)),
             AllShown(shown, With(copy, part, Defaults)), part \cup {"preferred"})
  BY Zenon DEF Replace
<1> DEFINE t == With(copy, part, Defaults)
           c == Repaired(shown, t)
           w == AllShown(shown, t)
<1>2. part \in SUBSET Names /\ IsCopy(copy)
  BY CopyNames DEF PageInv, Scanning, Looks, Names
<1>3. IsCopy(t) /\ \A s \in Names \ part : t[s] = copy[s]
  BY <1>2, Taken
<1> HIDE DEF t
<1>4. IsCopy(c) /\ \A s \in Names \ {"preferred"} : c[s] = t[s]
  BY <1>3, IsRepaired
<1>5. IsShown(w) /\ Showing(t, w, {})
  BY <1>3, AllIsShown DEF PageInv
<1>6. Edit(c, w, part \cup {"preferred"})
  BY <1>1 DEF t
<1> HIDE DEF c, w
<1>7. /\ copy' = c /\ shown' = w /\ touched' = part \cup {"preferred"}
      /\ IsPush(push') /\ push'.loaded = push.loaded
      /\ UNCHANGED <<configured, line>>
  BY <1>6, Edits
<1>8. push.loaded /\ asked' = asked /\ behind' = {}
  BY DEF Replace
<1>9. Showing(c, w, {})
  BY <1>4, <1>5 DEF Showing, Stored, Names
<1> QED BY <1>3, <1>4, <1>5, <1>7, <1>8, <1>9, Touched DEF PageInv

LEMMA FixKeeps == ASSUME PageInv, Fix PROVE PageInv' /\ Kept
<1>1. PICK s \in {"mode", "access"} : /\ behind' = behind \cup {s}
                                      /\ Edit([copy EXCEPT ![s] = 1], shown, {s})
  BY Zenon DEF Fix
<1> DEFINE c == [copy EXCEPT ![s] = 1]
<1>2. IsCopy(c) /\ \A x \in Names \ {s} : c[x] = copy[x]
  <2>1. s \in Names /\ IsCopy(copy)
    BY DEF Names, PageInv
  <2> QED BY <2>1, CopyWritten
<1> HIDE DEF c
<1>3. /\ copy' = c /\ shown' = shown /\ touched' = {s}
      /\ IsPush(push') /\ push'.loaded = push.loaded
      /\ UNCHANGED <<configured, line>>
  BY <1>1, Edits DEF c
<1>4. push.loaded /\ asked' = asked
  BY DEF Fix
<1>5. Showing(c, shown, behind')
  BY <1>1, <1>2, <1>4 DEF PageInv, Showing, Stored, Names
<1> QED BY <1>2, <1>3, <1>4, <1>5, Touched DEF PageInv

LEMMA StoreSetupKeeps == ASSUME PageInv, StoreSetup PROVE PageInv' /\ Kept
<1> DEFINE written == {"languages", "preferred", "mode"}
           d(u, v) == [copy EXCEPT !.languages = u, !.preferred = v, !.mode = 1]
<1>1. PICK on : Edit(d(on, Min(on)), shown, written)
  BY Zenon DEF StoreSetup
<1> DEFINE c == d(on, Min(on))
<1>2. IsCopy(c) /\ \A x \in Names \ written : c[x] = copy[x]
  <2>1. IsCopy(copy)
    BY DEF PageInv
  <2>2. ASSUME NEW u, NEW v
        PROVE  IsCopy(d(u, v)) /\ \A x \in Names \ written : d(u, v)[x] = copy[x]
    <3>1. d(u, v) = [s \in Names |-> IF s = "mode" THEN 1 ELSE IF s = "preferred" THEN v
                                     ELSE IF s = "languages" THEN u ELSE copy[s]]
      BY <2>1 DEF IsCopy, Names
    <3> HIDE DEF d
    <3> QED BY <3>1 DEF IsCopy
  <2> HIDE DEF d, written
  <2> QED BY <2>2
<1> HIDE DEF c, d
<1>3. /\ copy' = c /\ shown' = shown /\ touched' = written
      /\ IsPush(push') /\ push'.loaded = push.loaded
      /\ UNCHANGED <<configured, line>>
  BY <1>1, Edits DEF c
<1>4. asked' = asked /\ behind' = behind \cup written
  BY DEF StoreSetup
<1>5. push.loaded => Showing(c, shown, behind')
  BY <1>2, <1>4 DEF PageInv, Showing, Stored, Names
<1> QED BY <1>2, <1>3, <1>4, <1>5, Touched DEF PageInv

-----------------------------------------------------------------------------
(* Anki.                                                                   *)

\* The page of Anki stores what it shows, which is what the copy has but for what was chosen.
LEMMA StoreAnkiKeeps ==
  ASSUME PageInv, push.loaded, UNCHANGED <<configured, line, behind>>, NEW w, IsShown(w),
         NEW settings, "model" \in settings, StoreAnki(w, settings),
         \A s \in Widgets \ settings : w[s] = shown[s],
         settings \subseteq {"deck", "model", "fields"}
  PROVE  PageInv' /\ Kept
<1> DEFINE c == AnkiStored(copy, w)
<1>1. /\ IsCopy(c) /\ c.deck = w.deck /\ c.fields = w.fields
      /\ \A x \in Names \ {"deck", "model", "fields"} : c[x] = copy[x]
  BY AnkiIsStored DEF PageInv
<1> HIDE DEF c
<1>2. copy' = c /\ shown' = w /\ touched' = settings /\ Commit /\ IsPush(push)
  BY DEF StoreAnki, c, PageInv
<1>3. IsPush(push') /\ push'.loaded = push.loaded
  BY <1>2, CommitLoads
<1>4. Showing(copy, shown, behind) /\ DOMAIN copy = Names
  BY CopyNames DEF PageInv
<1>5. Showing(c, w, behind)
  BY <1>1, <1>4 DEF Showing, Stored, Names, Widgets
<1>6. Kept
  BY <1>1, <1>2, <1>4 DEF Kept, Showing, Stored, Names, Widgets
<1>7. push.loaded = TRUE
  BY DEF PageInv, IsPush
<1> QED BY <1>1, <1>2, <1>3, <1>5, <1>6, <1>7, Framed

\* A note type is chosen, and its fields are asked for.
LEMMA ModelKeeps ==
  ASSUME PageInv, push.loaded = TRUE, NEW m, shown' = [shown EXCEPT !.model = m],
         UNCHANGED <<copy, push, behind, configured, line>>
  PROVE  PageInv' /\ Kept
<1> DEFINE w == [shown EXCEPT !.model = m]
<1>1. IsShown(w) /\ \A s \in Widgets \ {"model"} : w[s] = shown[s]
  <2>1. "model" \in Widgets /\ IsShown(shown)
    BY DEF Widgets, PageInv
  <2> QED BY <2>1, ShownWritten
<1> HIDE DEF w
<1>2. shown' = w
  BY DEF w
<1>3. Showing(copy, w, behind)
  BY <1>1 DEF PageInv, Showing, Stored, Widgets
<1>4. Kept
  BY DEF Kept
<1> QED BY <1>1, <1>2, <1>3, <1>4, Framed DEF PageInv

LEMMA AnkiIsAsked == ASSUME PageInv, ChooseModel \/ ConnectAnki PROVE PageInv' /\ Kept
<1>1. push.loaded => push.loaded = TRUE
  BY DEF PageInv, IsPush
<1>2. CASE ChooseModel
  <2>1. /\ push.loaded /\ UNCHANGED <<copy, push, behind, configured, line>>
        /\ \E m : shown' = [shown EXCEPT !.model = m]
    BY <1>2, Zenon DEF ChooseModel, daemonSide
  <2> QED BY <1>1, <2>1, ModelKeeps
<1>3. CASE ConnectAnki
  <2>1. push.loaded /\ UNCHANGED <<copy, push, shown, behind, configured, line>>
    BY <1>3 DEF ConnectAnki, daemonSide
  <2>2. Kept
    BY <2>1 DEF Kept
  <2> QED BY <1>1, <2>1, <2>2 DEF PageInv
<1> QED BY <1>2, <1>3

LEMMA AnkiAnswersKeep == ASSUME PageInv, AnkiAnswers PROVE PageInv' /\ Kept
<1>1. \/ touched' = {} /\ UNCHANGED <<copy, push, shown>>
      \/ \E v : StoreAnki([shown EXCEPT !.deck = v], {"deck", "model"})
      \/ StoreAnki(shown, {"model"})
      \/ \E m : shown' = [shown EXCEPT !.model = m] /\ UNCHANGED <<copy, push>>
      \/ \E v : StoreAnki([shown EXCEPT !.fields = v], {"model", "fields"})
  BY Zenon DEF AnkiAnswers
<1>2. UNCHANGED <<behind, configured, line>>
  BY DEF AnkiAnswers, daemonSide
<1>3. push.loaded = TRUE /\ IsShown(shown) /\ IsPush(push)
  <2>1. asked # <<>>
    BY DEF AnkiAnswers
  <2> QED BY <2>1 DEF PageInv
<1>4. {"deck", "model", "fields"} \subseteq Widgets
  BY DEF Widgets
<1>5. CASE touched' = {} /\ UNCHANGED <<copy, push, shown>>
  <2>1. Kept
    BY <1>5 DEF Kept
  <2> QED BY <1>2, <1>3, <1>5, <2>1 DEF PageInv
<1>6. CASE \E v : StoreAnki([shown EXCEPT !.deck = v], {"deck", "model"})
  <2>1. PICK v : StoreAnki([shown EXCEPT !.deck = v], {"deck", "model"})
    BY <1>6
  <2> DEFINE w == [shown EXCEPT !.deck = v]
  <2>2. IsShown(w) /\ \A s \in Widgets \ {"deck"} : w[s] = shown[s]
    BY <1>3, <1>4, ShownWritten
  <2> HIDE DEF w
  <2>3. StoreAnki(w, {"deck", "model"})
    BY <2>1 DEF w
  <2> QED BY <1>2, <1>3, <2>2, <2>3, StoreAnkiKeeps
<1>7. CASE StoreAnki(shown, {"model"})
  BY <1>2, <1>3, <1>7, StoreAnkiKeeps
<1>8. CASE \E m : shown' = [shown EXCEPT !.model = m] /\ UNCHANGED <<copy, push>>
  BY <1>2, <1>3, <1>8, ModelKeeps
<1>9. CASE \E v : StoreAnki([shown EXCEPT !.fields = v], {"model", "fields"})
  <2>1. PICK v : StoreAnki([shown EXCEPT !.fields = v], {"model", "fields"})
    BY <1>9
  <2> DEFINE w == [shown EXCEPT !.fields = v]
  <2>2. IsShown(w) /\ \A s \in Widgets \ {"fields"} : w[s] = shown[s]
    BY <1>3, <1>4, ShownWritten
  <2> HIDE DEF w
  <2>3. StoreAnki(w, {"model", "fields"})
    BY <2>1 DEF w
  <2> QED BY <1>2, <1>3, <2>2, <2>3, StoreAnkiKeeps
<1> QED BY <1>1, <1>5, <1>6, <1>7, <1>8, <1>9, Zenon

-----------------------------------------------------------------------------
(* The daemon, and the connection.                                         *)

LEMMA Both ==
  ASSUME NEW q, NEW r, Messages(q), Messages(r)
  PROVE  Messages(q \o r)
<1>1. PICK S : q \in Seq(S) /\ \A x \in S : x.type = "config" => IsCopy(x.of)
  BY DEF Messages
<1>2. PICK T : r \in Seq(T) /\ \A x \in T : x.type = "config" => IsCopy(x.of)
  BY DEF Messages
<1> DEFINE U == S \cup T
<1>3. q \in Seq(U) /\ r \in Seq(U)
  BY <1>1, <1>2
<1>4. \A x \in U : x.type = "config" => IsCopy(x.of)
  BY <1>1, <1>2
<1> HIDE DEF U
<1>5. q \o r \in Seq(U)
  BY <1>3
<1> QED BY <1>4, <1>5 DEF Messages

LEMMA OfSet ==
  ASSUME NEW S, NEW q \in Seq(S), \A m \in S : m.type = "config" => IsCopy(m.of)
  PROVE  Messages(q)
BY DEF Messages

LEMMA None == Messages(<<>>)
<1> DEFINE S == {}
<1>1. <<>> \in Seq(S) /\ \A x \in S : x.type = "config" => IsCopy(x.of)
  OBVIOUS
<1> HIDE DEF S
<1> QED BY <1>1, OfSet

LEMMA One == ASSUME NEW m, m.type = "config" => IsCopy(m.of) PROVE Messages(<<m>>)
<1> DEFINE S == {m}
<1>1. <<m>> \in Seq(S) /\ \A x \in S : x.type = "config" => IsCopy(x.of)
  OBVIOUS
<1> HIDE DEF S
<1> QED BY <1>1, OfSet

LEMMA Two ==
  ASSUME NEW m, NEW n, m.type = "config" => IsCopy(m.of), n.type = "config" => IsCopy(n.of)
  PROVE  Messages(<<m, n>>)
<1> DEFINE S == {m, n}
<1>1. <<m, n>> \in Seq(S) /\ \A x \in S : x.type = "config" => IsCopy(x.of)
  OBVIOUS
<1> HIDE DEF S
<1> QED BY <1>1, OfSet

\* What the daemon says waits in the connection, if there is one.
LEMMA IsSent ==
  ASSUME PageInv, NEW messages, Messages(messages)
  PROVE  /\ Sent(messages) = [up |-> Sent(messages).up, in |-> Sent(messages).in]
         /\ Messages(Sent(messages).in)
         /\ line.in # <<>> => Sent(messages).in # <<>>
<1> DEFINE in == IF line.up THEN line.in \o messages ELSE line.in
<1>1. line = [up |-> line.up, in |-> line.in] /\ Messages(line.in)
  BY DEF PageInv
<1>2. Messages(line.in \o messages)
  BY <1>1, Both
<1>3. line.in # <<>> => in # <<>>
  <2>1. PICK S : line.in \in Seq(S)
    BY <1>1 DEF Messages
  <2>2. PICK T : messages \in Seq(T)
    BY DEF Messages
  <2>3. line.in \in Seq(S \cup T) /\ messages \in Seq(S \cup T)
    BY <2>1, <2>2
  <2> QED BY <2>3
<1>4. Messages(in)
  BY <1>1, <1>2
<1>5. Sent(messages) = [line EXCEPT !.in = in]
  BY Zenon DEF Sent
<1> HIDE DEF in
<1> QED BY <1>1, <1>3, <1>4, <1>5

\* The first message is taken, after some may have been added.
LEMMA IsTaken ==
  ASSUME NEW l, l = [up |-> l.up, in |-> l.in], Messages(l.in), l.in # <<>>
  PROVE  LET taken == [l EXCEPT !.in = Tail(l.in)]
         IN  taken = [up |-> taken.up, in |-> taken.in] /\ Messages(taken.in)
<1> DEFINE rest == Tail(l.in)
<1>1. Messages(rest)
  BY MessageRead
<1> HIDE DEF rest
<1>2. LET taken == [l EXCEPT !.in = rest]
      IN  taken = [up |-> taken.up, in |-> taken.in] /\ Messages(taken.in)
  BY <1>1
<1> QED BY <1>2 DEF rest

LEMMA IsInstalled ==
  ASSUME NEW c, IsCopy(c), NEW here
  PROVE  IsCopy(Installed(c, here))
<1>1. \E v : Installed(c, here) = [c EXCEPT !.order = v]
  BY Zenon DEF Installed
<1>2. "order" \in Names
  BY DEF Names
<1> QED BY <1>1, <1>2, CopyWritten

LEMMA DaemonSteps ==
  ASSUME PageInv,
         Push \/ RecentPasses \/ Connect \/ ChangedElsewhere \/ PausedElsewhere
           \/ InstalledElsewhere \/ DaemonGone
  PROVE  PageInv' /\ Kept
<1>1. UNCHANGED <<copy, shown, asked, behind>> /\ IsPush(push') /\ push'.loaded = push.loaded
  BY DEF Push, RecentPasses, Connect, ChangedElsewhere, PausedElsewhere, InstalledElsewhere,
     DaemonGone, PageInv, IsPush
<1>2. /\ Messages(<<Changed>>) /\ Messages(<<Message("dictionaries.changed", <<>>)>>)
      /\ Messages(<<Changed, Message("paused", configured'.paused)>>)
      /\ Messages(<<Config, Rows>>) /\ Messages(<<>>)
  <2>1. Messages(<<Changed>>)
    BY One DEF Changed, Message
  <2>2. Messages(<<Message("dictionaries.changed", <<>>)>>)
    BY One DEF Message
  <2>3. Messages(<<Changed, Message("paused", configured'.paused)>>)
    BY Two DEF Changed, Message
  <2>4. IsCopy(configured)
    BY DEF PageInv
  <2>5. Messages(<<Config, Rows>>)
    <3>1. Config.of = configured /\ Rows.type = "rows"
      BY DEF Config, Rows, Message
    <3> QED BY <2>4, <3>1, Two
  <2> QED BY <2>1, <2>2, <2>3, <2>5, None
<1>3. IsCopy(configured')
  <2>1. IsCopy(configured) /\ IsCopy(copy)
    BY DEF PageInv
  <2>3. CASE configured' = configured
    BY <2>1, <2>3
  <2>4. CASE Push
    BY <2>1, <2>4, IsInstalled DEF Push
  <2>5. CASE InstalledElsewhere
    BY <2>1, <2>5, IsInstalled DEF InstalledElsewhere
  <2>6. CASE ChangedElsewhere
    <3>1. PICK s \in Elsewhere : configured' = [configured EXCEPT ![s] = 1 - configured[s]]
      BY <2>6, Zenon DEF ChangedElsewhere
    <3>2. s \in Names
      BY DefaultsIsCopy, CopyNames, ElsewhereAssumption
    <3> QED BY <2>1, <3>1, <3>2, CopyWritten
  <2>7. CASE PausedElsewhere
    <3>1. "paused" \in Names
      BY DEF Names
    <3>2. \E v : configured' = [configured EXCEPT !.paused = v]
      BY <2>7, Zenon DEF PausedElsewhere
    <3> QED BY <2>1, <3>1, <3>2, CopyWritten
  <2> QED BY <2>3, <2>4, <2>5, <2>6, <2>7 DEF RecentPasses, Connect, DaemonGone, daemonSide
<1>4. line' = [up |-> line'.up, in |-> line'.in] /\ Messages(line'.in)
  <2>1. CASE \E messages : Messages(messages) /\ line' = Sent(messages)
    BY <2>1, IsSent
  <2>2. CASE line' = line
    BY <2>2 DEF PageInv
  <2>3. CASE \E b, q : line' = [up |-> b, in |-> q] /\ Messages(q)
    BY <2>3
  <2>4. CASE Push
    BY <1>2, <2>1, <2>4 DEF Push
  <2>5. CASE ChangedElsewhere
    BY <1>2, <2>1, <2>5 DEF ChangedElsewhere
  <2>6. CASE PausedElsewhere
    BY <1>2, <2>1, <2>6 DEF PausedElsewhere
  <2>7. CASE InstalledElsewhere
    BY <1>2, <2>1, <2>7 DEF InstalledElsewhere
  <2>8. CASE RecentPasses
    BY <2>2, <2>8 DEF RecentPasses
  <2>9. CASE Connect \/ DaemonGone
    BY <1>2, <2>3, <2>9 DEF Connect, DaemonGone
  <2> QED BY <2>4, <2>5, <2>6, <2>7, <2>8, <2>9
<1>5. Kept
  BY <1>1 DEF Kept
<1> QED BY <1>1, <1>3, <1>4, <1>5 DEF PageInv

LEMMA ReadKeeps == ASSUME PageInv, Read PROVE PageInv' /\ Kept
<1> DEFINE m == Head(line.in)
<1>1. line.in # <<>> /\ UNCHANGED <<asked, configured>>
  BY DEF Read, daemonSide
<1>2. IsCopy(configured) /\ IsCopy(copy) /\ IsShown(shown) /\ IsPush(push)
  BY DEF PageInv
<1>3. m.type = "config" => IsCopy(m.of)
  BY <1>1, MessageRead DEF PageInv
<1>4. /\ Messages(<<>>) /\ Messages(<<Config>>) /\ Messages(<<Rows>>)
  <2>1. Config.of = configured /\ Rows.type = "rows"
    BY DEF Config, Rows, Message
  <2>2. Messages(<<Config>>)
    BY <1>2, <2>1, One
  <2>3. Messages(<<Rows>>)
    BY <2>1, One
  <2> QED BY <2>2, <2>3, None
<1>5. ASSUME NEW messages, Messages(messages), line' = [Sent(messages) EXCEPT !.in = Tail(@)]
      PROVE  line' = [up |-> line'.up, in |-> line'.in] /\ Messages(line'.in)
  <2> DEFINE l == Sent(messages)
  <2>1. l = [up |-> l.up, in |-> l.in] /\ Messages(l.in) /\ l.in # <<>>
    BY <1>1, <1>5, IsSent
  <2>2. line' = [l EXCEPT !.in = Tail(l.in)]
    BY <1>5, Zenon
  <2> HIDE DEF l
  <2> QED BY <2>1, <2>2, IsTaken
<1>6. ASSUME line' = [line EXCEPT !.in = Tail(@)]
      PROVE  line' = [up |-> line'.up, in |-> line'.in] /\ Messages(line'.in)
  <2>1. line = [up |-> line.up, in |-> line.in] /\ Messages(line.in)
    BY DEF PageInv
  <2>2. line' = [line EXCEPT !.in = Tail(line.in)]
    BY <1>6, Zenon
  <2> QED BY <1>1, <2>1, <2>2, IsTaken
<1>7. CASE m.type = "config" /\ Loaded(m.of)
  <2>1. PICK taken \in {TakenOver(m.of)} :
          /\ shown' = AllShown(shown, taken) /\ behind' = {}
          /\ copy' = Repaired(shown, taken)
          /\ touched' = IF push.pending THEN {"preferred"} ELSE DOMAIN copy
          /\ \E repair \in {copy' # taken} :
               push' = [push EXCEPT !.loaded = TRUE, !.pending = @ \/ repair,
                                    !.timer = @ \/ push.pending \/ repair]
          /\ line' = [Sent(<<Rows>>) EXCEPT !.in = Tail(@)]
    BY <1>7, Zenon DEF Loaded
  <2>2. IsCopy(taken) /\ (push.pending => taken = copy)
    BY <1>2, <1>3, <1>7, <2>1 DEF TakenOver
  <2> DEFINE c == Repaired(shown, taken)
             w == AllShown(shown, taken)
  <2>3. IsCopy(c) /\ \A s \in Names \ {"preferred"} : c[s] = taken[s]
    BY <2>2, IsRepaired
  <2>4. IsShown(w) /\ Showing(taken, w, {})
    BY <1>2, <2>2, AllIsShown
  <2> HIDE DEF c, w
  <2>5. copy' = c /\ shown' = w
    BY <2>1 DEF c, w
  <2>6. Showing(c, w, {})
    BY <2>3, <2>4 DEF Showing, Stored, Names
  <2>7. IsPush(push') /\ push'.loaded = TRUE
    BY <1>2, <2>1 DEF IsPush
  <2>8. line' = [up |-> line'.up, in |-> line'.in] /\ Messages(line'.in)
    BY <1>4, <1>5, <2>1
  <2>9. Kept
    BY <1>2, <2>1, <2>2, <2>3, <2>5, CopyNames DEF Kept
  <2> QED BY <1>1, <1>2, <2>1, <2>3, <2>4, <2>5, <2>6, <2>7, <2>8, <2>9 DEF PageInv
<1>8. CASE UNCHANGED <<copy, push, shown, behind>> /\ line' = [line EXCEPT !.in = Tail(@)]
  BY <1>1, <1>2, <1>6, <1>8, CopyStays
<1>9. CASE /\ line' = [line EXCEPT !.in = Tail(@)] /\ copy' = [copy EXCEPT !.paused = m.of]
           /\ touched' = {"paused"} /\ UNCHANGED <<push, shown, behind>>
  <2> DEFINE c == [copy EXCEPT !.paused = m.of]
  <2>1. IsCopy(c) /\ \A s \in Names \ {"paused"} : c[s] = copy[s]
    <3>1. "paused" \in Names
      BY DEF Names
    <3> QED BY <1>2, <3>1, CopyWritten
  <2> HIDE DEF c
  <2>2. copy' = c
    BY <1>9 DEF c
  <2>3. push.loaded => Showing(c, shown, behind)
    BY <2>1 DEF PageInv, Showing, Stored, Names
  <2>4. Kept
    BY <1>2, <1>9, <2>1, <2>2, CopyNames DEF Kept
  <2>5. line' = [up |-> line'.up, in |-> line'.in] /\ Messages(line'.in)
    BY <1>6, <1>9
  <2> QED BY <1>1, <1>2, <1>9, <2>1, <2>2, <2>3, <2>4, <2>5 DEF PageInv
<1>10. CASE /\ \E messages : /\ Messages(messages)
                             /\ line' = [Sent(messages) EXCEPT !.in = Tail(@)]
            /\ UNCHANGED <<copy, push, shown, behind>>
  BY <1>1, <1>2, <1>5, <1>10, CopyStays
<1>11. ASSUME NEW b \in BOOLEAN, NEW d \in BOOLEAN
       PROVE  Messages((IF b THEN <<>> ELSE <<Config>>) \o (IF d THEN <<Rows>> ELSE <<>>))
  BY <1>4, Both
<1>12. \/ m.type = "config" /\ Loaded(m.of)
       \/ UNCHANGED <<copy, push, shown, behind>> /\ line' = [line EXCEPT !.in = Tail(@)]
       \/ /\ line' = [line EXCEPT !.in = Tail(@)] /\ copy' = [copy EXCEPT !.paused = m.of]
          /\ touched' = {"paused"} /\ UNCHANGED <<push, shown, behind>>
       \/ /\ line' = [Sent((IF push.recent THEN <<>> ELSE <<Config>>) \o
                           (IF m.type = "dictionaries.changed" THEN <<Rows>> ELSE <<>>))
                     EXCEPT !.in = Tail(@)]
          /\ UNCHANGED <<copy, push, shown, behind>>
  BY Zenon DEF Read
<1>13. Messages((IF push.recent THEN <<>> ELSE <<Config>>) \o
                (IF m.type = "dictionaries.changed" THEN <<Rows>> ELSE <<>>))
  BY <1>4, Both
<1> QED BY <1>7, <1>8, <1>9, <1>10, <1>12, <1>13, Zenon

-----------------------------------------------------------------------------
LEMMA PageInvInit == PageInit => PageInv
<1> SUFFICES ASSUME PageInit PROVE PageInv
  OBVIOUS
<1>1. IsCopy(copy)
  BY DefaultsIsCopy DEF PageInit
<1>2. IsShown(shown)
  BY DEF PageInit, IsShown, Widgets
<1>3. IsPush(push) /\ ~push.loaded /\ asked = <<>>
  BY DEF PageInit, IsPush
<1>4. line = [up |-> line.up, in |-> line.in] /\ Messages(line.in)
  BY None DEF PageInit
<1>5. IsCopy(configured)
  <2>1. {"mode", "size", "deck", "order"} \subseteq Names
    BY DEF Names
  <2> DEFINE c1 == [Defaults EXCEPT !.mode = 0]
             c2 == [c1 EXCEPT !.size = 1]
             c3 == [c2 EXCEPT !.deck = 1]
             c4 == [c3 EXCEPT !.order = <<<<2, FALSE>>, <<1, TRUE>>>>]
  <2>2. configured = c4
    BY Zenon DEF PageInit
  <2>3. IsCopy(c1)
    BY <2>1, DefaultsIsCopy, CopyWritten
  <2> HIDE DEF c1
  <2>4. IsCopy(c2)
    BY <2>1, <2>3, CopyWritten
  <2> HIDE DEF c2
  <2>5. IsCopy(c3)
    BY <2>1, <2>4, CopyWritten
  <2> HIDE DEF c3
  <2>6. IsCopy(c4)
    BY <2>1, <2>5, CopyWritten
  <2> QED BY <2>2, <2>6
<1> QED BY <1>1, <1>2, <1>3, <1>4, <1>5 DEF PageInv

LEMMA PageStep == ASSUME PageInv, [PageNext]_pageVars PROVE PageInv' /\ Kept
<1>1. CASE UNCHANGED pageVars
  <2>1. Kept
    BY <1>1 DEF Kept, pageVars
  <2> QED BY <1>1, <2>1 DEF PageInv, pageVars
<1>2. CASE PageNext
  BY <1>2, EditOcrKeeps, EditScanningKeeps, EditLanguagesKeeps, ChoosePreferredKeeps,
     RecordTriggerKeeps, EditTranslationKeeps, EditLookKeeps, ApplyThemeKeeps, DictionariesKeep,
     ReplaceKeeps, FixKeeps, StoreSetupKeeps, EditAnkiKeeps, AnkiIsAsked, AnkiAnswersKeep,
     DaemonSteps, ReadKeeps, Zenon DEF PageNext
<1> QED BY <1>1, <1>2

\* A setting of the working copy of the settings application changes only when the user changed
\* that one, or what follows from it, or when the configuration of the daemon is taken over
\* (Settings::store, replace, load and the store() of each page).
THEOREM OnlyEditsAreStored == PageSpec => OnlyEditsChange
<1>1. PageInit => PageInv
  BY PageInvInit
<1>2. PageInv /\ [PageNext]_pageVars => PageInv'
  BY PageStep
<1>3. PageInv /\ [PageNext]_pageVars => Kept
  BY PageStep
<1>4. Kept => (\A s \in DOMAIN copy :
                copy'[s] # copy[s] =>
                  \/ s \in touched' \cup behind
                  \/ s = "sentence" /\ copy.sentence = shown.without)
  BY DEF Kept
<1> QED BY <1>1, <1>2, <1>3, <1>4, PTL DEF PageSpec, OnlyEditsChange

-----------------------------------------------------------------------------
(* The setup wizard.                                                       *)

\* A wizard, a connection, a daemon, and the three with the files, as far as the proof needs.
IsWizard(w) ==
  /\ w = [page |-> w.page, reinstall |-> w.reinstall, installing |-> w.installing,
          queue |-> w.queue, importing |-> w.importing, job |-> w.job,
          downloads |-> w.downloads, imports |-> w.imports, others |-> w.others,
          failed |-> w.failed, unpack |-> w.unpack, redist |-> w.redist,
          finishing |-> w.finishing, stage |-> w.stage]
  /\ w.queue \in Seq(Wanted)
IsLink(l) ==
  /\ l = [state |-> l.state, requests |-> l.requests, answers |-> l.answers, calls |-> l.calls]
  /\ l.state \in {"up", "closed", "down"}
IsDaemon(d) ==
  d = [state |-> d.state, jobs |-> d.jobs, next |-> d.next, starting |-> d.starting]
IsNow(o) ==
  /\ o = [w |-> o.w, l |-> o.l, f |-> o.f, d |-> o.d]
  /\ IsWizard(o.w) /\ IsLink(o.l) /\ IsDaemon(o.d)

\* The calls of the wizard without an answer.
Asked(l) == {c \in l.calls : c.by = "wizard"}

\* What of its dictionaries and files still comes.
Files == {"ocr", "translation", "archive", "redist"}
Flight(f) == [for |-> "wizard", file |-> f]
DictsOf(fl) == {f \in Wanted : Flight(f) \in fl}
FilesOf(fl) == {f \in Files : Flight(f) \in fl}

-----------------------------------------------------------------------------
(* Where an install is; a are the wizard's calls, D and F what still comes. *)

Quiet(w) ==
  /\ w.queue = <<>> /\ ~w.importing /\ w.job = 0
  /\ w.downloads = 0 /\ w.imports = 0 /\ w.others = 0

Resting(w, a, D, F) ==
  /\ ~w.installing /\ w.stage = "none" /\ Quiet(w) /\ a = {} /\ D = {} /\ F = {}
  /\ w.page # "install" /\ (w.page = "languages" => ~w.finishing)

\* The list of what is installed is asked for, or has come.
Beginning(w) ==
  /\ w.installing /\ w.page = "install" /\ w.stage = "list" /\ ~w.finishing /\ Quiet(w)
Listing(w, a, D, F) ==
  Beginning(w) /\ D = {} /\ F = {} /\ a = {Call("wizard", "dictionaries.list", "none")}

\* What the wizard counts is what flies, waits or is imported for it.
Counting(w, D, F) ==
  /\ w.installing /\ w.page = "install" /\ w.stage = "none" /\ ~w.finishing
  /\ w.downloads = Cardinality(D) /\ w.others = Cardinality(F)
  /\ w.imports = Cardinality(D) + Len(w.queue) + (IF w.importing THEN 1 ELSE 0)
Loading(w, a, D, F) ==
  /\ Counting(w, D, F)
  /\ w.importing /\ w.job = 0 => \E t : a = {Call("wizard", "dictionaries.import", t)}
  /\ w.importing /\ w.job # 0 => a = {}
  /\ ~w.importing => w.job = 0 /\ a = {}
Fed(w) == ~w.importing => w.queue = <<>>

Ending(w, a, D, F) ==
  /\ w.installing /\ w.page = "install" /\ w.finishing /\ Quiet(w) /\ D = {} /\ F = {}
  /\ \/ w.stage \in {"wait", "redist"} /\ a = {}
     \/ w.stage = "shutdown" /\ a = {Call("wizard", "shutdown", "none")}
     \/ w.stage = "reset" /\ a = {Call("wizard", "capture.reset", "none")}

WizardOK(w, a, D, F) ==
  \/ Resting(w, a, D, F) \/ Listing(w, a, D, F) \/ Ending(w, a, D, F)
  \/ Loading(w, a, D, F) /\ Fed(w) /\ Waiting(w)

\* An import whose end the wizard will hear of: the daemon has it, its end is told behind the
\* first n messages, or the connection is over.
Comes(l, d, j, n) ==
  \/ l.state = "closed"
  \/ /\ l.state = "up"
     /\ \/ \E i \in DOMAIN d.jobs : d.jobs[i].id = j
        \/ \E i \in DOMAIN l.answers : /\ i > n /\ l.answers[i].call.method = "import.finished"
                                       /\ l.answers[i].job = j
LinkOK(l, d) ==
  /\ \E S : l.answers \in Seq(S)
  /\ \E S : d.jobs \in Seq(S)
  /\ d.next \in Nat \ {0}
  /\ l.state = "down" => l.calls = {} /\ l.answers = <<>>
  /\ l.state = "up" => d.state # "down"
  /\ \A i \in DOMAIN l.answers :
       l.answers[i].call.method = "dictionaries.import" =>
         l.answers[i].job \in Nat \ {0} /\ Comes(l, d, l.answers[i].job, i)
FlightsOK(fl) ==
  \A x \in fl : /\ x = [for |-> x.for, file |-> x.file]
                /\ x.for = "wizard" => x.file \in Wanted \cup Files

AllOK(w, l, d, D, F) ==
  /\ IsWizard(w) /\ IsLink(l) /\ IsDaemon(d) /\ LinkOK(l, d)
  /\ w.job # 0 => Comes(l, d, w.job, 0)
  /\ WizardOK(w, Asked(l), D, F)

SetupInv ==
  /\ DOMAIN installs = {"ocr", "translation"}
  /\ FlightsOK(flights)
  /\ AllOK(wizard, link, daemon, DictsOf(flights), FilesOf(flights))

-----------------------------------------------------------------------------
\* The wizard that installs waits for something, wherever it is.
LEMMA InvNeverStuck == SetupInv => SetupNeverStuck
<1> SUFFICES ASSUME SetupInv, wizard.installing
             PROVE  \/ \E x \in flights : x.for = "wizard"
                    \/ Pending("wizard") # {}
                    \/ wizard.stage \in {"wait", "redist"}
                    \/ /\ wizard.job # 0
                       /\ \/ link.state = "closed"
                          \/ \E i \in DOMAIN daemon.jobs : daemon.jobs[i].id = wizard.job
                          \/ \E i \in DOMAIN link.answers :
                               /\ link.answers[i].call.method = "import.finished"
                               /\ link.answers[i].job = wizard.job
  BY DEF SetupNeverStuck
<1>1. /\ WizardOK(wizard, Asked(link), DictsOf(flights), FilesOf(flights))
      /\ wizard.job # 0 => Comes(link, daemon, wizard.job, 0)
  BY DEF SetupInv, AllOK
<1>2. Pending("wizard") = Asked(link)
  BY DEF Pending, Asked
<1>3. CASE Resting(wizard, Asked(link), DictsOf(flights), FilesOf(flights))
  BY <1>3 DEF Resting
<1>4. CASE Listing(wizard, Asked(link), DictsOf(flights), FilesOf(flights))
  BY <1>4, <1>2 DEF Listing, Beginning
<1>5. CASE Ending(wizard, Asked(link), DictsOf(flights), FilesOf(flights))
  BY <1>5, <1>2 DEF Ending
<1>6. CASE /\ Loading(wizard, Asked(link), DictsOf(flights), FilesOf(flights))
           /\ Fed(wizard) /\ Waiting(wizard)
  <2>1. CASE DictsOf(flights) # {} \/ FilesOf(flights) # {}
    <3>1. PICK f : Flight(f) \in flights
      BY <2>1 DEF DictsOf, FilesOf
    <3>2. Flight(f).for = "wizard"
      BY DEF Flight
    <3> QED BY <3>1, <3>2
  <2>2. CASE DictsOf(flights) = {} /\ FilesOf(flights) = {}
    <3>1. Cardinality(DictsOf(flights)) = 0 /\ Cardinality(FilesOf(flights)) = 0
      BY <2>2, FS_EmptySet
    <3>2. wizard.importing
      <4>1. SUFFICES ASSUME ~wizard.importing PROVE FALSE
        OBVIOUS
      <4>2. wizard.queue = <<>>
        BY <1>6, <4>1 DEF Fed
      <4>3. Len(wizard.queue) = 0
        BY <4>2
      <4>4. wizard.downloads = 0 /\ wizard.others = 0 /\ wizard.imports = 0
        BY <1>6, <3>1, <4>1, <4>3 DEF Loading, Counting
      <4> QED BY <4>1, <4>4, <1>6 DEF Waiting
    <3>3. CASE wizard.job = 0
      BY <3>2, <3>3, <1>6, <1>2 DEF Loading, Counting
    <3>4. CASE wizard.job # 0
      BY <3>4, <1>1 DEF Comes
    <3> QED BY <3>3, <3>4
  <2> QED BY <2>1, <2>2
<1> QED BY <1>1, <1>3, <1>4, <1>5, <1>6 DEF WizardOK

-----------------------------------------------------------------------------
(* The wizard's callbacks.                                                 *)

\* What a callback leaves of the connection and the daemon.
Keeps(o, r) ==
  /\ r.l.state = o.l.state /\ r.l.answers = o.l.answers
  /\ r.d.next = o.d.next
  /\ o.l.state # "down" => r.d.jobs = o.d.jobs /\ r.d.state = o.d.state
  /\ r.d.jobs \in {o.d.jobs, <<>>}
  /\ o.l.state = "down" => r.l.calls = o.l.calls

\* An import that will be heard of still is.
LEMMA KeepsLink ==
  ASSUME NEW o, NEW r, Keeps(o, r), LinkOK(o.l, o.d)
  PROVE  LinkOK(r.l, r.d) /\ \A j, n : Comes(o.l, o.d, j, n) => Comes(r.l, r.d, j, n)
<1>1. \A j, n : Comes(o.l, o.d, j, n) => Comes(r.l, r.d, j, n)
  BY DEF Keeps, Comes
<1>2. \E S : r.d.jobs \in Seq(S)
  <2>1. PICK S : o.d.jobs \in Seq(S)
    BY DEF LinkOK
  <2>2. <<>> \in Seq(S)
    OBVIOUS
  <2> QED BY <2>1, <2>2 DEF Keeps
<1> QED BY <1>1, <1>2 DEF Keeps, LinkOK

\* What only some callbacks change.
Same(u, w) ==
  /\ u.queue = w.queue /\ u.importing = w.importing /\ u.job = w.job
  /\ u.downloads = w.downloads /\ u.imports = w.imports /\ u.others = w.others

\* Who waits for nothing still does not.
LEMMA SameQuiet == \A u, w : Same(u, w) /\ Quiet(w) => Quiet(u)
BY DEF Same, Quiet

\* Another stage changes nothing else,
LEMMA StageIs ==
  ASSUME NEW w, IsWizard(w), NEW s, NEW u, u = [w EXCEPT !.stage = s]
  PROVE  /\ IsWizard(u) /\ Same(u, w) /\ u.stage = s
         /\ u.installing = w.installing /\ u.page = w.page /\ u.finishing = w.finishing
BY DEF IsWizard, Same

\* nor does the beginning of the end.
LEMMA FinishingIs ==
  ASSUME NEW w, IsWizard(w), NEW u, u = [w EXCEPT !.finishing = TRUE]
  PROVE  /\ IsWizard(u) /\ Same(u, w) /\ u.finishing = TRUE
         /\ u.installing = w.installing /\ u.page = w.page /\ u.stage = w.stage
BY DEF IsWizard, Same

\* What FinishInstall() makes of what there is.
LEMMA FinishIs ==
  ASSUME NEW o, IsNow(o), NEW failed, NEW r, r = FinishInstall(o, failed)
  PROVE  /\ IsNow(r) /\ r.l = o.l /\ r.f = o.f /\ r.d = o.d /\ Same(r.w, o.w)
         /\ ~r.w.installing /\ r.w.stage = "none" /\ r.w.page \in {"failed", "done"}
<1>1. o = [w |-> o.w, l |-> o.l, f |-> o.f, d |-> o.d] /\ IsWizard(o.w)
  BY DEF IsNow
<1>2. PICK page : page = IF failed THEN "failed" ELSE "done"
  OBVIOUS
<1>3. r = [w |-> [o.w EXCEPT !.installing = FALSE, !.stage = "none", !.page = page],
           l |-> o.l, f |-> o.f, d |-> o.d]
  BY <1>1, <1>2 DEF FinishInstall
<1>4. r.w = [o.w EXCEPT !.installing = FALSE, !.stage = "none", !.page = page]
  BY <1>3
<1>5. /\ IsWizard(r.w) /\ Same(r.w, o.w)
      /\ r.w.installing = FALSE /\ r.w.stage = "none" /\ r.w.page = page
  BY ONLY <1>1, <1>4 DEF IsWizard, Same
<1> QED BY <1>2, <1>3, <1>5 DEF IsNow

\* DaemonClient::call() adds to the calls that wait.
LEMMA CalledIs ==
  ASSUME NEW l, IsLink(l), NEW call
  PROVE  /\ IsLink(Called(l, call))
         /\ Called(l, call).state = l.state /\ Called(l, call).answers = l.answers
         /\ call.by = "wizard" => Asked(Called(l, call)) = Asked(l) \cup {call}
         /\ call.by # "wizard" => Asked(Called(l, call)) = Asked(l)
<1>0. PICK m : m = Called(l, call)
  OBVIOUS
<1>1. PICK requests : requests = IF l.state = "up" THEN Append(l.requests, call) ELSE l.requests
  OBVIOUS
<1>2. m = [l EXCEPT !.calls = l.calls \cup {call}, !.requests = requests]
  BY <1>0, <1>1 DEF Called, IsLink
<1>3. IsLink(m) /\ m.state = l.state /\ m.answers = l.answers /\ m.calls = l.calls \cup {call}
  BY ONLY <1>2, IsLink(l) DEF IsLink
<1>4. /\ call.by = "wizard" => Asked(m) = Asked(l) \cup {call}
      /\ call.by # "wizard" => Asked(m) = Asked(l)
  BY <1>3 DEF Asked
<1> QED BY <1>0, <1>3, <1>4

\* What a callback may make of o where D and F are what still comes for the wizard.
Result(o, r, D, F) ==
  /\ IsNow(r) /\ Keeps(o, r) /\ WizardOK(r.w, Asked(r.l), D, F)
  /\ r.w.job # 0 => r.w.job = o.w.job

\* Nothing of the batch is left but the runtime and the text capture.
Over(w) == w.installing /\ w.page = "install" /\ w.finishing /\ Quiet(w)

\* An end is one.
LEMMA FinishOK ==
  ASSUME NEW o, IsNow(o), Quiet(o.w), Asked(o.l) = {}, NEW failed, NEW r,
         r = FinishInstall(o, failed)
  PROVE  Result(o, r, {}, {})
<1>1. /\ IsNow(r) /\ r.l = o.l /\ r.d = o.d /\ Same(r.w, o.w)
      /\ ~r.w.installing /\ r.w.stage = "none" /\ r.w.page \in {"failed", "done"}
  BY FinishIs
<1>2. Quiet(r.w)
  BY <1>1, SameQuiet
<1>3. Resting(r.w, Asked(r.l), {}, {}) /\ r.w.job = 0
  BY <1>1, <1>2 DEF Resting, Quiet
<1> QED BY <1>1, <1>3 DEF Result, Keeps, WizardOK

\* Nor is one that waits for the answer to a call,
LEMMA AsksOK ==
  ASSUME NEW o, IsNow(o), Over(o.w), Asked(o.l) = {}, Connected(o.l), NEW s, NEW call,
         \/ s = "reset" /\ call = Call("wizard", "capture.reset", "none")
         \/ s = "shutdown" /\ call = Call("wizard", "shutdown", "none"),
         NEW r, r.w = [o.w EXCEPT !.stage = s], r.l = Called(o.l, call),
         r = [w |-> r.w, l |-> r.l, f |-> o.f, d |-> o.d]
  PROVE  Result(o, r, {}, {})
<1>1. call.by = "wizard"
  BY DEF Call
<1>2. IsLink(o.l) /\ IsWizard(o.w) /\ IsDaemon(o.d)
  BY DEF IsNow
<1>3. IsLink(r.l) /\ r.l.state = o.l.state /\ r.l.answers = o.l.answers /\ Asked(r.l) = {call}
  <2>1. /\ IsLink(r.l) /\ r.l.state = o.l.state /\ r.l.answers = o.l.answers
        /\ Asked(r.l) = Asked(o.l) \cup {call}
    <3>1. IsLink(Called(o.l, call))
      BY <1>2, CalledIs
    <3>2. Called(o.l, call).state = o.l.state /\ Called(o.l, call).answers = o.l.answers
      BY <1>2, CalledIs
    <3>3. Asked(Called(o.l, call)) = Asked(o.l) \cup {call}
      BY <1>1, <1>2, CalledIs
    <3> QED BY <3>1, <3>2, <3>3
  <2> QED BY <2>1
<1>4. /\ IsWizard(r.w) /\ Same(r.w, o.w) /\ r.w.stage = s
      /\ r.w.installing = o.w.installing /\ r.w.page = o.w.page
      /\ r.w.finishing = o.w.finishing
  BY <1>2, StageIs
<1>5. r.d = o.d
  OBVIOUS
<1>6. IsNow(r)
  BY <1>2, <1>3, <1>4, <1>5 DEF IsNow
<1>7. Quiet(r.w) /\ r.w.job = 0
  BY <1>4, SameQuiet DEF Over, Quiet
<1>8. Ending(r.w, {call}, {}, {})
  BY <1>4, <1>7 DEF Ending, Over
<1> QED BY <1>3, <1>5, <1>6, <1>7, <1>8 DEF Result, Keeps, WizardOK, Connected

\* or for an installer or a timer.
LEMMA WaitsOK ==
  ASSUME NEW o, IsNow(o), Over(o.w), Asked(o.l) = {}, NEW s \in {"wait", "redist"},
         NEW r, r.w = [o.w EXCEPT !.stage = s], r = [w |-> r.w, l |-> o.l, f |-> o.f, d |-> r.d],
         IsDaemon(r.d), Keeps(o, r)
  PROVE  Result(o, r, {}, {})
<1>7. /\ IsWizard(r.w) /\ Same(r.w, o.w) /\ r.w.stage = s
      /\ r.w.installing = o.w.installing /\ r.w.page = o.w.page
      /\ r.w.finishing = o.w.finishing
  <2>1. IsWizard(o.w)
    BY DEF IsNow
  <2> QED BY <2>1, StageIs
<1>9. r.l = o.l /\ IsNow(r)
  BY <1>7 DEF IsNow
<1>10. Quiet(r.w) /\ r.w.job = 0
  BY <1>7, SameQuiet DEF Over, Quiet
<1>11. Ending(r.w, {}, {}, {})
  BY <1>7, <1>10 DEF Ending, Over
<1> QED BY <1>9, <1>10, <1>11 DEF Result, WizardOK

\* What follows the runtime.
LEMMA AfterRuntimeOK ==
  ASSUME NEW o, IsNow(o), Over(o.w), Asked(o.l) = {}, NEW failed, NEW r,
         r = AfterRuntime(o, failed)
  PROVE  Result(o, r, {}, {})
<1>o. o = [w |-> o.w, l |-> o.l, f |-> o.f, d |-> o.d] /\ Quiet(o.w)
  BY DEF IsNow, Over
<1>1. CASE failed
  <2>1. PICK p : p = [o EXCEPT !.f = @ \ (IF o.w.redist THEN {"redist"} ELSE {})]
    OBVIOUS
  <2>2. IsNow(p) /\ p.w = o.w /\ p.l = o.l /\ p.d = o.d
    BY ONLY <2>1, IsNow(o) DEF IsNow
  <2>3. r = FinishInstall(p, TRUE)
    BY <1>1, <2>1 DEF AfterRuntime
  <2>4. Result(p, r, {}, {})
    BY <1>o, <2>2, <2>3, FinishOK
  <2> QED BY <2>2, <2>4 DEF Result, Keeps
<1>2. CASE ~failed /\ o.w.redist
  <2>1. r = [o EXCEPT !.w.stage = "redist"]
    BY <1>2 DEF AfterRuntime
  <2>2. r.w = [o.w EXCEPT !.stage = "redist"] /\ r = [w |-> r.w, l |-> o.l, f |-> o.f, d |-> o.d]
    BY ONLY <2>1, <1>o
  <2>3. r.d = o.d /\ r.l = o.l /\ r = [w |-> r.w, l |-> o.l, f |-> o.f, d |-> r.d]
    BY ONLY <2>2
  <2>4. IsDaemon(r.d) /\ Keeps(o, r)
    BY <2>3 DEF IsNow, Keeps
  <2> QED BY <2>2, <2>3, <2>4, WaitsOK
<1>3. CASE ~failed /\ ~o.w.redist /\ ~Connected(o.l)
  <2>1. PICK p : p = [o EXCEPT !.d.starting = TRUE]
    OBVIOUS
  <2>2. PICK d : d = [o.d EXCEPT !.starting = TRUE]
    OBVIOUS
  <2>3. p = [w |-> o.w, l |-> o.l, f |-> o.f, d |-> d]
    BY ONLY <2>1, <2>2, <1>o
  <2>4. IsDaemon(d) /\ d.jobs = o.d.jobs /\ d.next = o.d.next /\ d.state = o.d.state
    <3>1. IsDaemon(o.d)
      BY DEF IsNow
    <3> QED BY ONLY <2>2, <3>1 DEF IsDaemon
  <2>5. IsNow(p) /\ p.w = o.w /\ p.l = o.l /\ p.d = d
    BY <2>3, <2>4 DEF IsNow
  <2>6. r = FinishInstall(p, FALSE)
    BY <1>3, <2>1 DEF AfterRuntime
  <2>7. Result(p, r, {}, {})
    BY <1>o, <2>5, <2>6, FinishOK
  <2> QED BY <2>4, <2>5, <2>7 DEF Result, Keeps
<1>4. CASE ~failed /\ ~o.w.redist /\ Connected(o.l)
  <2>1. PICK call : call = Call("wizard", "capture.reset", "none")
    OBVIOUS
  <2>2. PICK m : m = Called(o.l, call)
    OBVIOUS
  <2>3. r = [o EXCEPT !.w.stage = "reset", !.l = m]
    BY <1>4, <2>1, <2>2 DEF AfterRuntime
  <2>4. /\ r.w = [o.w EXCEPT !.stage = "reset"] /\ r.l = m
        /\ r = [w |-> r.w, l |-> r.l, f |-> o.f, d |-> o.d]
    BY ONLY <2>3, <1>o
  <2> QED BY <1>4, <2>1, <2>2, <2>4, AsksOK
<1> QED BY <1>1, <1>2, <1>3, <1>4

\* So does unpacking it.
LEMMA UnpackRuntimeOK ==
  ASSUME NEW o, IsNow(o), Over(o.w), Asked(o.l) = {}, NEW r \in UnpackRuntime(o)
  PROVE  Result(o, r, {}, {})
<1>1. PICK u \in Unpacked(o.f) :
        r = AfterRuntime([o EXCEPT !.f = u.files],
                         ~u.ok /\ ~(o.w.reinstall /\ "library" \in u.files))
  BY DEF UnpackRuntime
<1>2. PICK p : p = [o EXCEPT !.f = u.files]
  OBVIOUS
<1>3. IsNow(p) /\ p.w = o.w /\ p.l = o.l /\ p.d = o.d
  BY ONLY <1>2, IsNow(o) DEF IsNow
<1>4. r = AfterRuntime(p, ~u.ok /\ ~(o.w.reinstall /\ "library" \in u.files))
  BY <1>1, <1>2
<1>5. Result(p, r, {}, {})
  BY <1>3, <1>4, AfterRuntimeOK
<1> QED BY <1>3, <1>5 DEF Result, Keeps

\* What a batch that waits for nothing does next; one that waits for something is left alone.
LEMMA TryFinishBatchOK ==
  ASSUME NEW o, IsNow(o), NEW D, IsFiniteSet(D), NEW F, IsFiniteSet(F),
         Loading(o.w, Asked(o.l), D, F), Fed(o.w), NEW r \in TryFinishBatch(o)
  PROVE  Result(o, r, D, F)
<1>o. o = [w |-> o.w, l |-> o.l, f |-> o.f, d |-> o.d] /\ IsWizard(o.w)
  BY DEF IsNow
<1>1. CASE o.w.finishing \/ Waiting(o.w)
  <2>1. r = o
    BY <1>1, Zenon DEF TryFinishBatch
  <2>2. Waiting(o.w)
    BY <1>1 DEF Loading, Counting
  <2> QED BY <2>1, <2>2 DEF Result, Keeps, WizardOK
<1>2. CASE ~o.w.finishing /\ ~Waiting(o.w)
  <2>1. Cardinality(D) \in Nat /\ Cardinality(F) \in Nat
    BY FS_CardinalityType
  <2>2. /\ ~o.w.importing /\ o.w.queue = <<>> /\ o.w.job = 0 /\ Asked(o.l) = {}
        /\ o.w.installing /\ o.w.page = "install"
    BY <1>2 DEF Waiting, Loading, Counting, Fed
  <2>3. Cardinality(D) = 0 /\ Cardinality(F) = 0
    <3>1. o.w.downloads = Cardinality(D) /\ o.w.others = Cardinality(F)
      BY DEF Loading, Counting
    <3> QED BY <1>2, <2>1, <3>1 DEF Waiting
  <2>4. D = {} /\ F = {}
    BY <2>3, FS_EmptySet
  <2>5. o.w.downloads = 0 /\ o.w.others = 0 /\ o.w.imports = 0
    <3>1. Len(o.w.queue) = 0
      BY <2>2
    <3> QED BY <2>2, <2>3, <3>1 DEF Loading, Counting
  <2>6. PICK p : p = [o EXCEPT !.w.finishing = TRUE]
    OBVIOUS
  <2>7. PICK u : u = [o.w EXCEPT !.finishing = TRUE]
    OBVIOUS
  <2>8. p = [w |-> u, l |-> o.l, f |-> o.f, d |-> o.d]
    BY ONLY <2>6, <2>7, <1>o
  <2>9. /\ IsWizard(u) /\ Same(u, o.w) /\ u.finishing = TRUE
        /\ u.installing = o.w.installing /\ u.page = o.w.page
    BY <1>o, <2>7, FinishingIs
  <2>10. /\ IsNow(p) /\ p.w = u /\ p.l = o.l /\ p.f = o.f /\ p.d = o.d
         /\ p = [w |-> p.w, l |-> p.l, f |-> p.f, d |-> p.d]
    BY <2>8, <2>9 DEF IsNow
  <2>11. Over(p.w) /\ Asked(p.l) = {} /\ p.w.job = 0
    <3>1. Quiet(o.w)
      BY <2>2, <2>5 DEF Quiet
    <3> QED BY <2>2, <2>9, <2>10, <3>1, SameQuiet DEF Over, Quiet
  <2>12. ASSUME Result(p, r, {}, {}) PROVE Result(o, r, D, F)
    BY <2>4, <2>10, <2>11, <2>12 DEF Result, Keeps
  <2>13. CASE o.w.failed \/ ~o.w.unpack
    <3>1. r = AfterRuntime(p, o.w.failed)
      BY <1>2, <2>6, <2>13, Zenon DEF TryFinishBatch
    <3> QED BY <3>1, <2>10, <2>11, <2>12, AfterRuntimeOK
  <2>14. CASE ~(o.w.failed \/ ~o.w.unpack) /\ "library" \notin o.f
    <3>1. r \in UnpackRuntime(p)
      BY <1>2, <2>6, <2>14, Zenon DEF TryFinishBatch
    <3> QED BY <3>1, <2>10, <2>11, <2>12, UnpackRuntimeOK
  <2>15. CASE ~(o.w.failed \/ ~o.w.unpack) /\ ~("library" \notin o.f) /\ Connected(o.l)
    <3>1. PICK call : call = Call("wizard", "shutdown", "none")
      OBVIOUS
    <3>2. PICK m : m = Called(o.l, call)
      OBVIOUS
    <3>3. r = [p EXCEPT !.w.stage = "shutdown", !.l = m]
      BY <1>2, <2>6, <2>15, <3>1, <3>2, Zenon DEF TryFinishBatch
    <3>4. p = [w |-> p.w, l |-> p.l, f |-> p.f, d |-> p.d]
      BY <2>10
    <3>5. /\ r.w = [p.w EXCEPT !.stage = "shutdown"] /\ r.l = m
          /\ r = [w |-> r.w, l |-> r.l, f |-> p.f, d |-> p.d]
      BY ONLY <3>3, <3>4
    <3>6. Connected(p.l) /\ r.l = Called(p.l, call)
      BY <2>10, <2>15, <3>2, <3>5
    <3>7. Result(p, r, {}, {})
      BY <3>1, <3>5, <3>6, <2>10, <2>11, AsksOK
    <3> QED BY <3>7, <2>12
  <2>16. CASE ~(o.w.failed \/ ~o.w.unpack) /\ ~("library" \notin o.f) /\ ~Connected(o.l)
    <3>1. PICK d \in Terminated(o.d) : r = [p EXCEPT !.w.stage = "wait", !.d = d]
      BY <1>2, <2>6, <2>16, Zenon DEF TryFinishBatch
    <3>2. PICK v : v = [p.w EXCEPT !.stage = "wait"]
      OBVIOUS
    <3>3. p = [w |-> p.w, l |-> p.l, f |-> p.f, d |-> p.d]
      BY <2>10
    <3>4. r = [w |-> v, l |-> p.l, f |-> p.f, d |-> d]
      BY ONLY <3>1, <3>2, <3>3
    <3>5. r.w = v /\ r.l = p.l /\ r.d = d /\ r = [w |-> r.w, l |-> p.l, f |-> p.f, d |-> r.d]
      BY ONLY <3>4
    <3>6. IsDaemon(d) /\ d.jobs \in {o.d.jobs, <<>>} /\ d.next = o.d.next
      BY <3>1 DEF Terminated, IsNow, IsDaemon
    <3>7. o.l.state = "down"
      BY <2>16 DEF Connected
    <3>8. Keeps(p, r) /\ IsDaemon(r.d)
      BY <2>10, <3>5, <3>6, <3>7 DEF Keeps
    <3>9. r.w = [p.w EXCEPT !.stage = "wait"] /\ "wait" \in {"wait", "redist"}
      BY <3>2, <3>5
    <3> QED BY <3>5, <3>8, <3>9, <2>10, <2>11, <2>12, WaitsOK
  <2> QED BY <2>13, <2>14, <2>15, <2>16
<1> QED BY <1>1, <1>2

\* The batch goes on.
Goes(o, p, D, F) ==
  /\ IsNow(p) /\ Keeps(o, p) /\ Loading(p.w, Asked(p.l), D, F)
  /\ p.w.job # 0 => p.w.job = o.w.job

\* Then tryFinishBatch() has the last word.
LEMMA GoesThenResult ==
  ASSUME NEW o, NEW p, NEW D, IsFiniteSet(D), NEW F, IsFiniteSet(F), Goes(o, p, D, F), Fed(p.w),
         NEW r \in TryFinishBatch(p)
  PROVE  Result(o, r, D, F)
<1>1. Result(p, r, D, F)
  BY TryFinishBatchOK DEF Goes
<1> QED BY <1>1 DEF Goes, Result, Keeps

\* pumpImports() leaves nothing in the queue unless an import is under way.
LEMMA PumpImportsOK ==
  ASSUME NEW o, IsNow(o), NEW D, IsFiniteSet(D), NEW F, Loading(o.w, Asked(o.l), D, F),
         NEW p, p = PumpImports(o)
  PROVE  Goes(o, p, D, F) /\ Fed(p.w)
<1>o. /\ o = [w |-> o.w, l |-> o.l, f |-> o.f, d |-> o.d]
      /\ IsWizard(o.w) /\ IsLink(o.l) /\ IsDaemon(o.d)
  BY DEF IsNow
<1>n. Cardinality(D) \in Nat
  BY FS_CardinalityType
<1>1. CASE o.w.importing \/ o.w.queue = <<>>
  <2>1. p = o
    BY <1>1 DEF PumpImports
  <2> QED BY <1>1, <2>1 DEF Goes, Keeps, Fed
<1>2. CASE ~o.w.importing /\ o.w.queue # <<>> /\ Connected(o.l)
  <2>1. PICK call : call = Call("wizard", "dictionaries.import", Head(o.w.queue))
    OBVIOUS
  <2>2. PICK m : m = Called(o.l, call)
    OBVIOUS
  <2>3. p = [o EXCEPT !.w.importing = TRUE, !.w.queue = Tail(@), !.l = m]
    BY <1>2, <2>1, <2>2 DEF PumpImports
  <2>4. PICK u : u = [o.w EXCEPT !.importing = TRUE, !.queue = Tail(@)]
    OBVIOUS
  <2>5. p = [w |-> u, l |-> m, f |-> o.f, d |-> o.d]
    BY ONLY <2>3, <2>4, <1>o
  <2>6. o.w.queue \in Seq(Wanted) /\ o.w.queue # <<>>
    BY <1>2, <1>o DEF IsWizard
  <2>7. /\ Tail(o.w.queue) \in Seq(Wanted) /\ Len(o.w.queue) \in Nat
        /\ Len(Tail(o.w.queue)) = Len(o.w.queue) - 1
    BY <2>6
  <2>8. /\ IsWizard(u) /\ u.importing = TRUE /\ u.queue = Tail(o.w.queue) /\ u.job = o.w.job
        /\ u.downloads = o.w.downloads /\ u.imports = o.w.imports /\ u.others = o.w.others
        /\ u.installing = o.w.installing /\ u.page = o.w.page /\ u.stage = o.w.stage
        /\ u.finishing = o.w.finishing
    BY ONLY <2>4, <2>7, <1>o DEF IsWizard
  <2>9. call.by = "wizard"
    BY <2>1 DEF Call
  <2>10. Asked(o.l) = {} /\ o.w.job = 0
    BY <1>2 DEF Loading
  <2>11. /\ IsLink(m) /\ m.state = o.l.state /\ m.answers = o.l.answers
         /\ Asked(m) = Asked(o.l) \cup {call}
    <3>1. IsLink(m)
      BY <1>o, <2>2, CalledIs
    <3>2. m.state = o.l.state /\ m.answers = o.l.answers
      BY <1>o, <2>2, CalledIs
    <3>3. Asked(m) = Asked(o.l) \cup {call}
      BY <1>o, <2>2, <2>9, CalledIs
    <3> QED BY <3>1, <3>2, <3>3
  <2>12. Counting(u, D, F)
    <3>1. u.imports = Cardinality(D) + Len(u.queue) + 1
      <4>1. o.w.imports = Cardinality(D) + Len(o.w.queue)
        BY <1>2, <1>n, <2>7 DEF Loading, Counting
      <4> QED BY <4>1, <1>n, <2>7, <2>8
    <3> QED BY <2>8, <3>1 DEF Loading, Counting
  <2>13. \E t : Asked(m) = {Call("wizard", "dictionaries.import", t)}
    BY <2>1, <2>10, <2>11
  <2>14. Loading(u, Asked(m), D, F)
    BY <2>8, <2>10, <2>12, <2>13 DEF Loading
  <2>15. p.w = u /\ p.l = m /\ p.d = o.d /\ IsNow(p)
    BY <2>5, <2>8, <2>11, <1>o DEF IsNow
  <2> QED BY <1>2, <2>8, <2>10, <2>11, <2>14, <2>15 DEF Goes, Keeps, Fed, Connected
<1>3. CASE ~o.w.importing /\ o.w.queue # <<>> /\ ~Connected(o.l)
  <2>1. PICK n : n = o.w.imports - Len(o.w.queue)
    OBVIOUS
  <2>3. p = [o EXCEPT !.w.imports = n, !.w.queue = <<>>, !.w.failed = TRUE]
    BY <1>3, <2>1, <1>o DEF PumpImports
  <2>4. PICK u : u = [o.w EXCEPT !.imports = n, !.queue = <<>>, !.failed = TRUE]
    OBVIOUS
  <2>5. p = [w |-> u, l |-> o.l, f |-> o.f, d |-> o.d]
    BY ONLY <2>3, <2>4, <1>o
  <2>6. /\ IsWizard(u) /\ u.importing = o.w.importing /\ u.queue = <<>> /\ u.job = o.w.job
        /\ u.downloads = o.w.downloads /\ u.imports = n /\ u.others = o.w.others
        /\ u.installing = o.w.installing /\ u.page = o.w.page /\ u.stage = o.w.stage
        /\ u.finishing = o.w.finishing
    <3>1. <<>> \in Seq(Wanted)
      OBVIOUS
    <3> QED BY ONLY <2>4, <3>1, <1>o DEF IsWizard
  <2>7. Len(o.w.queue) \in Nat /\ Len(<<>>) = 0
    BY <1>o DEF IsWizard
  <2>8. Counting(u, D, F)
    <3>1. u.imports = Cardinality(D) + Len(u.queue) + 0
      <4>1. o.w.imports = Cardinality(D) + Len(o.w.queue)
        BY <1>3, <1>n, <2>7 DEF Loading, Counting
      <4> QED BY <4>1, <1>n, <2>1, <2>6, <2>7
    <3> QED BY <1>3, <2>6, <3>1 DEF Loading, Counting
  <2>9. Loading(u, Asked(o.l), D, F)
    BY <1>3, <2>6, <2>8 DEF Loading
  <2>10. p.w = u /\ p.l = o.l /\ p.d = o.d /\ IsNow(p)
    BY <2>5, <2>6, <1>o DEF IsNow
  <2> QED BY <2>6, <2>9, <2>10 DEF Goes, Keeps, Fed
<1> QED BY <1>1, <1>2, <1>3

\* What the callbacks of the batch do when they counted something.
LEMMA GoesOn ==
  ASSUME NEW o, NEW p, NEW D, IsFiniteSet(D), NEW F, IsFiniteSet(F), Goes(o, p, D, F),
         NEW r \in TryFinishBatch(PumpImports(p))
  PROVE  Result(o, r, D, F)
<1>1. PICK q : q = PumpImports(p)
  OBVIOUS
<1>2. Goes(p, q, D, F) /\ Fed(q.w)
  BY <1>1, PumpImportsOK DEF Goes
<1>3. Goes(o, q, D, F)
  BY <1>2 DEF Goes, Keeps
<1> QED BY <1>1, <1>2, <1>3, GoesThenResult

\* The end of an import, however it is heard of.
LEMMA ImportDoneOK ==
  ASSUME NEW o, IsNow(o), NEW D, IsFiniteSet(D), NEW F, IsFiniteSet(F),
         Counting(o.w, D, F), o.w.importing, Asked(o.l) = {}, NEW failed,
         NEW r \in ImportDone(o, failed)
  PROVE  Result(o, r, D, F) /\ r.w.job = 0
<1>o. o = [w |-> o.w, l |-> o.l, f |-> o.f, d |-> o.d] /\ IsWizard(o.w)
  BY DEF IsNow
<1>1. PICK n : n = o.w.imports - 1
  OBVIOUS
<1>2. PICK c : c = (o.w.failed \/ failed)
  OBVIOUS
<1>3. PICK p : p = [o EXCEPT !.w.importing = FALSE, !.w.job = 0, !.w.imports = n, !.w.failed = c]
  OBVIOUS
<1>4. r \in TryFinishBatch(PumpImports(p))
  BY <1>1, <1>2, <1>3, <1>o DEF ImportDone
<1>5. PICK u : u = [o.w EXCEPT !.importing = FALSE, !.job = 0, !.imports = n, !.failed = c]
  OBVIOUS
<1>6. p = [w |-> u, l |-> o.l, f |-> o.f, d |-> o.d]
  BY ONLY <1>3, <1>5, <1>o
<1>7. /\ IsWizard(u) /\ u.importing = FALSE /\ u.queue = o.w.queue /\ u.job = 0
      /\ u.downloads = o.w.downloads /\ u.imports = n /\ u.others = o.w.others
      /\ u.installing = o.w.installing /\ u.page = o.w.page /\ u.stage = o.w.stage
      /\ u.finishing = o.w.finishing
  BY ONLY <1>5, <1>o DEF IsWizard
<1>8. u.imports = Cardinality(D) + Len(u.queue) + 0
  <2>1. Len(o.w.queue) \in Nat /\ Cardinality(D) \in Nat
    BY <1>o, FS_CardinalityType DEF IsWizard
  <2>2. o.w.imports = Cardinality(D) + Len(o.w.queue) + 1
    BY DEF Counting
  <2>3. u.imports = n /\ u.queue = o.w.queue
    BY <1>7
  <2> QED BY ONLY <1>1, <2>1, <2>2, <2>3
<1>9. Loading(u, {}, D, F)
  BY <1>7, <1>8 DEF Loading, Counting
<1>10. p.w = u /\ p.l = o.l /\ p.d = o.d /\ IsNow(p)
  BY <1>6, <1>7 DEF IsNow
<1>11. Goes(o, p, D, F)
  BY <1>7, <1>9, <1>10 DEF Goes, Keeps
<1>12. Result(o, r, D, F)
  BY <1>4, <1>11, GoesOn
<1>13. Goes(p, p, D, F)
  BY <1>11 DEF Goes, Keeps
<1>14. Result(p, r, D, F)
  BY <1>4, <1>13, GoesOn
<1> QED BY <1>7, <1>10, <1>12, <1>14 DEF Result

\* A dictionary came, or did not: p is o with an import more, or fewer,
DictCounted(o, p, file, ok) ==
  /\ p.l = o.l /\ p.d = o.d /\ p.f = o.f
  /\ p.w.importing = o.w.importing /\ p.w.job = o.w.job /\ p.w.unpack = o.w.unpack
  /\ p.w.failed = IF ok THEN o.w.failed ELSE TRUE
  /\ p.w.queue = IF ok THEN Append(o.w.queue, file) ELSE o.w.queue
LEMMA DictIsCounted ==
  ASSUME NEW o, IsNow(o), NEW D, IsFiniteSet(D), NEW F, IsFiniteSet(F),
         Loading(o.w, Asked(o.l), D, F), NEW file \in Wanted, file \in D, NEW ok,
         NEW r \in DictDownloaded(o, file, ok)
  PROVE  \E p : /\ Goes(o, p, D \ {file}, F) /\ DictCounted(o, p, file, ok)
                /\ r \in TryFinishBatch(PumpImports(p))
<1>o. o = [w |-> o.w, l |-> o.l, f |-> o.f, d |-> o.d] /\ IsWizard(o.w)
  BY DEF IsNow
<1>1. /\ IsFiniteSet(D \ {file}) /\ Cardinality(D \ {file}) = Cardinality(D) - 1
      /\ Cardinality(D) \in Nat /\ Cardinality(D \ {file}) \in Nat
  BY FS_RemoveElement, FS_CardinalityType
<1>2. PICK n : n = o.w.downloads - 1
  OBVIOUS
<1>3. n = Cardinality(D \ {file})
  BY <1>1, <1>2 DEF Loading, Counting
<1>4. Len(o.w.queue) \in Nat /\ o.w.queue \in Seq(Wanted)
  BY <1>o DEF IsWizard
<1>5. PICK q : q = IF ok THEN Append(o.w.queue, file) ELSE o.w.queue
  OBVIOUS
<1>6. PICK i : i = IF ok THEN o.w.imports ELSE o.w.imports - 1
  OBVIOUS
<1>7. q \in Seq(Wanted) /\ Len(q) = Len(o.w.queue) + (IF ok THEN 1 ELSE 0)
  <2>1. CASE ok
    BY <1>4, <1>5, <2>1
  <2>2. CASE ~ok
    BY <1>4, <1>5, <2>2
  <2> QED BY <2>1, <2>2
<1>8. i = Cardinality(D \ {file}) + Len(q) + (IF o.w.importing THEN 1 ELSE 0)
  <2>1. o.w.imports = Cardinality(D) + Len(o.w.queue) + (IF o.w.importing THEN 1 ELSE 0)
    BY DEF Loading, Counting
  <2>2. PICK one \in {0, 1} : one = IF o.w.importing THEN 1 ELSE 0
    OBVIOUS
  <2>3. o.w.imports = Cardinality(D) + Len(o.w.queue) + one
    BY <2>1, <2>2
  <2>4. i = Cardinality(D \ {file}) + Len(q) + one
    <3>1. CASE ok
      <4>1. i = o.w.imports /\ Len(q) = Len(o.w.queue) + 1
        BY <1>6, <1>7, <3>1
      <4> QED BY ONLY <1>1, <1>4, <2>2, <2>3, <4>1
    <3>2. CASE ~ok
      <4>1. i = o.w.imports - 1 /\ Len(q) = Len(o.w.queue)
        BY <1>4, <1>6, <1>7, <3>2
      <4>2. PICK c \in Nat : c = Cardinality(D)
        BY <1>1
      <4>3. PICK k \in Nat : k = Len(o.w.queue)
        BY <1>4
      <4>4. o.w.imports = c + k + one
        BY ONLY <2>3, <4>2, <4>3
      <4>5. o.w.imports - 1 = (c - 1) + k + one
        BY ONLY <4>4, one \in {0, 1}, c \in Nat, k \in Nat
      <4> QED BY ONLY <1>1, <4>1, <4>2, <4>3, <4>5
    <3> QED BY <3>1, <3>2
  <2> QED BY <2>2, <2>4
<1>9. PICK p : /\ IsNow(p) /\ p.l = o.l /\ p.d = o.d /\ p.f = o.f
               /\ r \in TryFinishBatch(PumpImports(p))
               /\ p.w.importing = o.w.importing /\ p.w.queue = q /\ p.w.job = o.w.job
               /\ p.w.downloads = n /\ p.w.imports = i /\ p.w.others = o.w.others
               /\ p.w.installing = o.w.installing /\ p.w.page = o.w.page
               /\ p.w.stage = o.w.stage /\ p.w.finishing = o.w.finishing
               /\ p.w.unpack = o.w.unpack
               /\ p.w.failed = IF ok THEN o.w.failed ELSE TRUE
  <2>1. CASE ok
    <3>1. PICK p : p = [o EXCEPT !.w.downloads = n, !.w.queue = q]
      OBVIOUS
    <3>2. r \in TryFinishBatch(PumpImports(p))
      BY <1>2, <1>5, <1>o, <2>1, <3>1 DEF DictDownloaded
    <3>3. PICK u : u = [o.w EXCEPT !.downloads = n, !.queue = q]
      OBVIOUS
    <3>4. p = [w |-> u, l |-> o.l, f |-> o.f, d |-> o.d]
      BY ONLY <3>1, <3>3, <1>o
    <3>5. /\ IsWizard(u) /\ u.importing = o.w.importing /\ u.queue = q /\ u.job = o.w.job
          /\ u.downloads = n /\ u.imports = o.w.imports /\ u.others = o.w.others
          /\ u.installing = o.w.installing /\ u.page = o.w.page
          /\ u.stage = o.w.stage /\ u.finishing = o.w.finishing
          /\ u.unpack = o.w.unpack /\ u.failed = o.w.failed
      BY ONLY <1>7, <3>3, <1>o DEF IsWizard
    <3>6. p.w = u /\ p.l = o.l /\ p.d = o.d /\ p.f = o.f /\ IsNow(p)
      BY <3>4, <3>5 DEF IsNow
    <3> QED BY <1>6, <2>1, <3>2, <3>5, <3>6
  <2>2. CASE ~ok
    <3>1. PICK p : p = [o EXCEPT !.w.downloads = n, !.w.imports = i, !.w.failed = TRUE]
      OBVIOUS
    <3>2. r \in TryFinishBatch(PumpImports(p))
      BY <1>2, <1>6, <1>o, <2>2, <3>1 DEF DictDownloaded
    <3>3. PICK u : u = [o.w EXCEPT !.downloads = n, !.imports = i, !.failed = TRUE]
      OBVIOUS
    <3>4. p = [w |-> u, l |-> o.l, f |-> o.f, d |-> o.d]
      BY ONLY <3>1, <3>3, <1>o
    <3>5. /\ IsWizard(u) /\ u.importing = o.w.importing /\ u.queue = o.w.queue
          /\ u.job = o.w.job
          /\ u.downloads = n /\ u.imports = i /\ u.others = o.w.others
          /\ u.installing = o.w.installing /\ u.page = o.w.page
          /\ u.stage = o.w.stage /\ u.finishing = o.w.finishing
          /\ u.unpack = o.w.unpack /\ u.failed = TRUE
      BY ONLY <3>3, <1>o DEF IsWizard
    <3>6. p.w = u /\ p.l = o.l /\ p.d = o.d /\ p.f = o.f /\ IsNow(p)
      BY <3>4, <3>5 DEF IsNow
    <3> QED BY <1>5, <2>2, <3>2, <3>5, <3>6
  <2> QED BY <2>1, <2>2
<1>10. Goes(o, p, D \ {file}, F)
  <2>1. Counting(p.w, D \ {file}, F)
    BY <1>3, <1>8, <1>9 DEF Loading, Counting
  <2>2. Loading(p.w, Asked(p.l), D \ {file}, F)
    BY <1>9, <2>1 DEF Loading
  <2> QED BY <1>9, <2>2 DEF Goes, Keeps
<1>11. DictCounted(o, p, file, ok)
  BY <1>5, <1>9 DEF DictCounted
<1> QED BY <1>9, <1>10, <1>11

\* and the batch goes on.
LEMMA DictDownloadedOK ==
  ASSUME NEW o, IsNow(o), NEW D, IsFiniteSet(D), NEW F, IsFiniteSet(F),
         Loading(o.w, Asked(o.l), D, F), NEW file \in Wanted, file \in D, NEW ok,
         NEW r \in DictDownloaded(o, file, ok)
  PROVE  Result(o, r, D \ {file}, F)
<1>1. PICK p : Goes(o, p, D \ {file}, F) /\ r \in TryFinishBatch(PumpImports(p))
  BY DictIsCounted
<1>2. IsFiniteSet(D \ {file})
  BY FS_RemoveElement
<1> QED BY <1>1, <1>2, GoesOn

\* Another file came, or did not.
LEMMA OtherDownloadedOK ==
  ASSUME NEW o, IsNow(o), NEW D, IsFiniteSet(D), NEW F, IsFiniteSet(F),
         Loading(o.w, Asked(o.l), D, F), Fed(o.w), NEW file, file \in F, NEW ok,
         NEW r \in OtherDownloaded(o, ok)
  PROVE  Result(o, r, D, F \ {file})
<1>o. o = [w |-> o.w, l |-> o.l, f |-> o.f, d |-> o.d] /\ IsWizard(o.w)
  BY DEF IsNow
<1>1. /\ IsFiniteSet(F \ {file}) /\ Cardinality(F \ {file}) = Cardinality(F) - 1
  BY FS_RemoveElement
<1>2. PICK n : n = o.w.others - 1
  OBVIOUS
<1>3. n = Cardinality(F \ {file})
  BY <1>1, <1>2 DEF Loading, Counting
<1>4. PICK c : c = (o.w.failed \/ ~ok)
  OBVIOUS
<1>5. PICK p : p = [o EXCEPT !.w.others = n, !.w.failed = c]
  OBVIOUS
<1>6. r \in TryFinishBatch(p)
  BY <1>2, <1>4, <1>5, <1>o DEF OtherDownloaded
<1>7. PICK u : u = [o.w EXCEPT !.others = n, !.failed = c]
  OBVIOUS
<1>8. p = [w |-> u, l |-> o.l, f |-> o.f, d |-> o.d]
  BY ONLY <1>5, <1>7, <1>o
<1>9. /\ IsWizard(u) /\ u.importing = o.w.importing /\ u.queue = o.w.queue
      /\ u.job = o.w.job
      /\ u.downloads = o.w.downloads /\ u.imports = o.w.imports /\ u.others = n
      /\ u.installing = o.w.installing /\ u.page = o.w.page
      /\ u.stage = o.w.stage /\ u.finishing = o.w.finishing
  BY ONLY <1>7, <1>o DEF IsWizard
<1>10. p.w = u /\ p.l = o.l /\ p.d = o.d /\ IsNow(p)
  BY <1>8, <1>9 DEF IsNow
<1>11. Goes(o, p, D, F \ {file}) /\ Fed(p.w)
  <2>1. Counting(u, D, F \ {file})
    BY <1>3, <1>9 DEF Loading, Counting
  <2>2. Loading(u, Asked(o.l), D, F \ {file})
    BY <1>9, <2>1 DEF Loading
  <2> QED BY <1>9, <1>10, <2>2 DEF Goes, Keeps, Fed
<1> QED BY <1>1, <1>6, <1>11, GoesThenResult

\* A batch begins with all of it on its way.
LEMMA BeginBatchOK ==
  ASSUME NEW o, IsNow(o), Beginning(o.w), Asked(o.l) = {}, NEW D, IsFiniteSet(D),
         NEW F, IsFiniteSet(F), NEW r, r = BeginBatch(o, D, F)
  PROVE  Result(o, r, D, F)
<1>o. o = [w |-> o.w, l |-> o.l, f |-> o.f, d |-> o.d] /\ IsWizard(o.w)
  BY DEF IsNow
<1>1. CASE D \cup F = {}
  <2>1. r = FinishInstall(o, FALSE) /\ D = {} /\ F = {} /\ Quiet(o.w)
    BY <1>1 DEF BeginBatch, Beginning
  <2> QED BY <2>1, FinishOK
<1>2. CASE D \cup F # {}
  <2>1. PICK i : i = Cardinality(D)
    OBVIOUS
  <2>2. PICK n : n = Cardinality(F)
    OBVIOUS
  <2>3. PICK a : a = ("archive" \in F)
    OBVIOUS
  <2>4. PICK b : b = ("redist" \in F)
    OBVIOUS
  <2>5. r = [o EXCEPT !.w.stage = "none", !.w.downloads = i, !.w.imports = i, !.w.others = n,
                      !.w.unpack = a, !.w.redist = b]
    BY <1>2, <2>1, <2>2, <2>3, <2>4 DEF BeginBatch
  <2>6. PICK u : u = [o.w EXCEPT !.stage = "none", !.downloads = i, !.imports = i,
                                 !.others = n, !.unpack = a, !.redist = b]
    OBVIOUS
  <2>7. r = [w |-> u, l |-> o.l, f |-> o.f, d |-> o.d]
    BY ONLY <2>5, <2>6, <1>o
  <2>8. /\ IsWizard(u) /\ u.importing = o.w.importing /\ u.queue = o.w.queue
        /\ u.job = o.w.job
        /\ u.downloads = i /\ u.imports = i /\ u.others = n
        /\ u.installing = o.w.installing /\ u.page = o.w.page
        /\ u.stage = "none" /\ u.finishing = o.w.finishing
    BY ONLY <2>6, <1>o DEF IsWizard
  <2>9. r.w = u /\ r.l = o.l /\ r.d = o.d /\ IsNow(r)
    BY <2>7, <2>8 DEF IsNow
  <2>10. i \in Nat /\ n \in Nat /\ (i # 0 \/ n # 0)
    BY <1>2, <2>1, <2>2, FS_CardinalityType, FS_EmptySet
  <2>11. ~u.importing /\ u.queue = <<>> /\ u.job = 0
    BY <2>8 DEF Beginning, Quiet
  <2>12. Loading(u, {}, D, F)
    <3>1. u.imports = Cardinality(D) + Len(u.queue) + 0
      <4>1. Len(u.queue) = 0
        BY <2>11
      <4> QED BY <2>1, <2>8, <2>10, <4>1
    <3> QED BY <2>1, <2>2, <2>8, <2>11, <3>1 DEF Loading, Counting, Beginning
  <2>13. Fed(u) /\ Waiting(u)
    BY <2>8, <2>10, <2>11 DEF Fed, Waiting
  <2> QED BY <2>9, <2>11, <2>12, <2>13 DEF Result, Keeps, WizardOK
<1> QED BY <1>1, <1>2

-----------------------------------------------------------------------------
(* The steps.                                                              *)

\* The invariant but for the other installers.
WizardsPart(fl, w, l, d) == FlightsOK(fl) /\ AllOK(w, l, d, DictsOf(fl), FilesOf(fl))

\* What a callback makes of what is well is well.
LEMMA ResultIsOK ==
  ASSUME NEW o, NEW r, NEW D, NEW F, LinkOK(o.l, o.d),
         r.w.job # 0 /\ r.w.job = o.w.job => Comes(o.l, o.d, o.w.job, 0), Result(o, r, D, F)
  PROVE  AllOK(r.w, r.l, r.d, D, F)
<1>1. LinkOK(r.l, r.d) /\ \A j, n : Comes(o.l, o.d, j, n) => Comes(r.l, r.d, j, n)
  BY KeepsLink DEF Result
<1> QED BY <1>1 DEF Result, AllOK, IsNow

\* What flies for the wizard is finitely much.
LEMMA FlightsFinite == \A fl : IsFiniteSet(DictsOf(fl)) /\ IsFiniteSet(FilesOf(fl))
<1>1. IsFiniteSet(Files)
  <2>1. Files = {"ocr"} \cup {"translation"} \cup {"archive"} \cup {"redist"}
    BY DEF Files
  <2> QED BY <2>1, FS_Singleton, FS_Union
<1>2. \A fl : DictsOf(fl) \subseteq Wanted /\ FilesOf(fl) \subseteq Files
  BY DEF DictsOf, FilesOf
<1> QED BY <1>1, <1>2, FS_Subset, WantedAssumption

\* Downloads of others
Others(extra) == \A x \in extra : x = [for |-> x.for, file |-> x.file] /\ x.for # "wizard"

\* make no difference to it.
LEMMA OthersFly ==
  ASSUME NEW fl, NEW extra, Others(extra), FlightsOK(fl)
  PROVE  /\ FlightsOK(fl \cup extra)
         /\ DictsOf(fl \cup extra) = DictsOf(fl) /\ FilesOf(fl \cup extra) = FilesOf(fl)
<1>1. \A f : Flight(f) \in fl \cup extra <=> Flight(f) \in fl
  BY DEF Others, Flight
<1> QED BY <1>1 DEF Others, FlightsOK, DictsOf, FilesOf

\* Those of the page are such.
LEMMA StartedAreOthers == \A p, n : Others(Started(p, n))
<1> TAKE p, n
<1>1. ASSUME NEW x \in Started(p, n)
      PROVE  x = [for |-> x.for, file |-> x.file] /\ x.for # "wizard"
  <2>1. PICK i : x = [for |-> "page", file |-> p.queue[i]]
    BY DEF Started
  <2>2. x.for = "page" /\ x.file = p.queue[i]
    BY ONLY <2>1
  <2> QED BY ONLY <2>1, <2>2
<1> QED BY <1>1 DEF Others

\* A batch that begins where nothing of the wizard's flies
LEMMA BeginsIs ==
  ASSUME FlightsOK(flights), DictsOf(flights) = {}, FilesOf(flights) = {},
         NEW o, NEW known, NEW others, Others(others), Begins(o, known, others)
  PROVE  /\ FlightsOK(flights')
         /\ DictsOf(flights') = BatchDicts(o.w, known)
         /\ \E translate : FilesOf(flights') = BatchFiles(o.w, translate)
         /\ Becomes(BeginBatch(o, DictsOf(flights'), FilesOf(flights')))
<1>1. PICK translate, dicts, files :
        /\ dicts = BatchDicts(o.w, known) /\ files = BatchFiles(o.w, translate)
        /\ Becomes(BeginBatch(o, dicts, files))
        /\ flights' = flights \cup others
                        \cup {[for |-> "wizard", file |-> f] : f \in dicts \cup files}
  BY Zenon DEF Begins
<1>2. dicts \subseteq Wanted /\ files \subseteq Files
  <2>1. dicts \subseteq Wanted
    BY <1>1 DEF BatchDicts
  <2>2. Runtime(o.w.reinstall) \subseteq Files
    BY DEF Runtime, Files
  <2>3. ToDownload({"ocr"}) \subseteq Files
    BY DEF ToDownload, Files
  <2>4. files \subseteq Files
    BY <1>1, <2>2, <2>3 DEF BatchFiles, Files
  <2> QED BY <2>1, <2>4
<1>3. PICK own : own = {Flight(f) : f \in dicts \cup files}
  OBVIOUS
<1>4. flights' = (flights \cup others) \cup own
  BY <1>1, <1>3 DEF Flight
<1>5. /\ FlightsOK(flights \cup others)
      /\ DictsOf(flights \cup others) = {} /\ FilesOf(flights \cup others) = {}
  BY OthersFly
<1>6. \A f : Flight(f) \in own <=> f \in dicts \cup files
  <2>1. \A f, g : Flight(f) = Flight(g) => f = g
    <3>1. \A f : Flight(f).file = f
      BY DEF Flight
    <3> QED BY <3>1
  <2> QED BY ONLY <1>3, <2>1
<1>7. Wanted \cap Files = {}
  BY WantedAssumption DEF Files
<1>8. DictsOf(flights') = dicts /\ FilesOf(flights') = files
  <2>1. \A f : Flight(f) \in flights' <=>
                 Flight(f) \in flights \cup others \/ f \in dicts \cup files
    BY <1>4, <1>6
  <2>2. \A f \in Wanted : Flight(f) \notin flights \cup others
    BY <1>5 DEF DictsOf
  <2>3. \A f \in Files : Flight(f) \notin flights \cup others
    BY <1>5 DEF FilesOf
  <2>4. DictsOf(flights') = dicts
    BY <1>2, <1>7, <2>1, <2>2 DEF DictsOf
  <2>5. FilesOf(flights') = files
    BY <1>2, <1>7, <2>1, <2>3 DEF FilesOf
  <2> QED BY <2>4, <2>5
<1>9. FlightsOK(flights')
  <2>1. ASSUME NEW x \in own
        PROVE  /\ x = [for |-> x.for, file |-> x.file]
               /\ x.for = "wizard" => x.file \in Wanted \cup Files
    <3>1. PICK f \in dicts \cup files : x = [for |-> "wizard", file |-> f]
      BY <1>3 DEF Flight
    <3>2. x.for = "wizard" /\ x.file = f
      BY ONLY <3>1
    <3> QED BY <3>1, <3>2, <1>2
  <2> QED BY <1>4, <1>5, <2>1 DEF FlightsOK
<1> QED BY <1>1, <1>8, <1>9

\* makes it fly.
LEMMA BeginsOK ==
  ASSUME FlightsOK(flights), DictsOf(flights) = {}, FilesOf(flights) = {},
         NEW o, IsNow(o), LinkOK(o.l, o.d), Beginning(o.w), Asked(o.l) = {},
         NEW known, NEW others, Others(others), Begins(o, known, others)
  PROVE  WizardsPart(flights', wizard', link', daemon')
<1>1. /\ FlightsOK(flights')
      /\ Becomes(BeginBatch(o, DictsOf(flights'), FilesOf(flights')))
  BY BeginsIs
<1>2. PICK r : r = BeginBatch(o, DictsOf(flights'), FilesOf(flights'))
  OBVIOUS
<1>3. Result(o, r, DictsOf(flights'), FilesOf(flights'))
  BY <1>2, FlightsFinite, BeginBatchOK
<1>4. o.w.job = 0
  BY DEF Beginning, Quiet
<1>5. AllOK(r.w, r.l, r.d, DictsOf(flights'), FilesOf(flights'))
  BY <1>3, <1>4, ResultIsOK
<1>6. wizard' = r.w /\ link' = r.l /\ daemon' = r.d
  BY <1>1, <1>2 DEF Becomes
<1> QED BY <1>1, <1>5, <1>6 DEF WizardsPart

\* What holds of the invariant in the state there is.
LEMMA NowIs ==
  ASSUME SetupInv
  PROVE  /\ IsNow(Now) /\ Now.w = wizard /\ Now.l = link /\ Now.d = daemon /\ Now.f = disk.files
         /\ Now = [w |-> wizard, l |-> link, f |-> disk.files, d |-> daemon]
         /\ IsWizard(wizard) /\ IsLink(link) /\ IsDaemon(daemon) /\ LinkOK(link, daemon)
BY DEF SetupInv, AllOK, Now, IsNow

\* The wizard begins.
LEMMA StartInstallStep ==
  ASSUME SetupInv, StartInstall
  PROVE  SetupInv'
<1>1. PICK o : o = [Now EXCEPT !.w.page = "install", !.w.installing = TRUE, !.w.stage = "list"]
  OBVIOUS
<1>2. PICK u : u = [wizard EXCEPT !.page = "install", !.installing = TRUE, !.stage = "list"]
  OBVIOUS
<1>3. o = [w |-> u, l |-> link, f |-> disk.files, d |-> daemon]
  <2>1. Now = [w |-> wizard, l |-> link, f |-> disk.files, d |-> daemon]
    BY NowIs
  <2> QED BY ONLY <1>1, <1>2, <2>1
<1>4. /\ IsWizard(u) /\ Same(u, wizard) /\ u.finishing = wizard.finishing
      /\ u.installing = TRUE /\ u.page = "install" /\ u.stage = "list"
  <2>1. IsWizard(wizard)
    BY NowIs
  <2> QED BY ONLY <1>2, <2>1 DEF IsWizard, Same
<1>5. /\ wizard.page = "languages"
      /\ IF Connected(link)
         THEN /\ Becomes([o EXCEPT !.l = Called(link, Call("wizard", "dictionaries.list", "none"))])
              /\ UNCHANGED flights
         ELSE Begins(o, {}, {})
      /\ UNCHANGED <<installs, offers, troubles>>
  BY <1>1, Zenon DEF StartInstall
<1>6. Resting(wizard, Asked(link), DictsOf(flights), FilesOf(flights))
  <2>1. WizardOK(wizard, Asked(link), DictsOf(flights), FilesOf(flights))
    BY DEF SetupInv, AllOK
  <2>2. wizard.page # "install"
    BY <1>5
  <2> QED BY <2>1, <2>2 DEF WizardOK, Listing, Beginning, Ending, Loading, Counting
<1>7. /\ o.w = u /\ o.l = link /\ o.d = daemon /\ IsNow(o) /\ Beginning(o.w)
      /\ Asked(link) = {} /\ DictsOf(flights) = {} /\ FilesOf(flights) = {} /\ u.job = 0
  <2>1. Quiet(wizard) /\ ~wizard.finishing
    BY <1>5, <1>6 DEF Resting
  <2>2. Quiet(u)
    BY <1>4, <2>1, SameQuiet
  <2>3. o.w = u /\ o.l = link /\ o.d = daemon /\ IsNow(o)
    BY <1>3, <1>4, NowIs DEF IsNow
  <2> QED BY <1>4, <1>6, <2>1, <2>2, <2>3 DEF Beginning, Quiet, Resting
<1>8. WizardsPart(flights', wizard', link', daemon')
  <2>1. CASE ~Connected(link)
    <3>1. Others({})
      BY DEF Others
    <3>2. LinkOK(o.l, o.d) /\ FlightsOK(flights)
      BY <1>7, NowIs DEF SetupInv
    <3> QED BY <1>5, <1>7, <2>1, <3>1, <3>2, BeginsOK
  <2>2. CASE Connected(link)
    <3>1. PICK call : call = Call("wizard", "dictionaries.list", "none")
      OBVIOUS
    <3>2. PICK m : m = Called(link, call)
      OBVIOUS
    <3>3. Becomes([o EXCEPT !.l = m]) /\ flights' = flights
      BY <1>5, <2>2, <3>1, <3>2
    <3>4. PICK r : r = [o EXCEPT !.l = m]
      OBVIOUS
    <3>5. wizard' = r.w /\ link' = r.l /\ daemon' = r.d
      BY <3>3, <3>4 DEF Becomes
    <3>6. r = [w |-> u, l |-> m, f |-> disk.files, d |-> daemon]
      BY ONLY <3>4, <1>3
    <3>7. wizard' = u /\ link' = m /\ daemon' = daemon
      BY <3>5, <3>6
    <3>8. call.by = "wizard"
      BY <3>1 DEF Call
    <3>9. /\ IsLink(m) /\ m.state = link.state /\ m.answers = link.answers
          /\ Asked(m) = {call}
      <4>1. IsLink(m)
        BY <3>2, CalledIs, NowIs
      <4>2. m.state = link.state /\ m.answers = link.answers
        BY <3>2, CalledIs, NowIs
      <4>3. Asked(m) = Asked(link) \cup {call}
        BY <3>2, <3>8, CalledIs, NowIs
      <4> QED BY <1>7, <4>1, <4>2, <4>3
    <3>10. LinkOK(m, daemon)
      BY <2>2, <3>9, NowIs DEF LinkOK, Comes, Connected
    <3>11. Listing(u, Asked(m), DictsOf(flights), FilesOf(flights))
      BY <1>7, <3>1, <3>9 DEF Listing
    <3>12. AllOK(u, m, daemon, DictsOf(flights), FilesOf(flights))
      BY <1>4, <1>7, <3>9, <3>10, <3>11, NowIs DEF AllOK, WizardOK
    <3> QED BY <3>3, <3>7, <3>12 DEF SetupInv, WizardsPart
  <2> QED BY <2>1, <2>2
<1> QED BY <1>5, <1>8 DEF SetupInv, WizardsPart

\* The runtime is unpacked when the daemon has let go of it.
LEMMA UnpackStep ==
  ASSUME SetupInv, Unpack
  PROVE  SetupInv'
<1>1. PICK o : o = [Now EXCEPT !.w.stage = "none"]
  OBVIOUS
<1>2. PICK u : u = [wizard EXCEPT !.stage = "none"]
  OBVIOUS
<1>3. o = [w |-> u, l |-> link, f |-> disk.files, d |-> daemon]
  <2>1. Now = [w |-> wizard, l |-> link, f |-> disk.files, d |-> daemon]
    BY NowIs
  <2> QED BY ONLY <1>1, <1>2, <2>1
<1>4. /\ IsWizard(u) /\ Same(u, wizard)
      /\ u.installing = wizard.installing /\ u.page = wizard.page
      /\ u.finishing = wizard.finishing
  BY <1>2, NowIs, StageIs
<1>5. PICK r \in UnpackRuntime(o) : Becomes(r)
  BY <1>1 DEF Unpack
<1>6. Ending(wizard, Asked(link), DictsOf(flights), FilesOf(flights)) /\ wizard.stage = "wait"
  BY DEF Unpack, SetupInv, AllOK, WizardOK, Resting, Listing, Beginning, Loading, Counting
<1>7. /\ Over(wizard) /\ Asked(link) = {}
      /\ DictsOf(flights) = {} /\ FilesOf(flights) = {}
  BY <1>6 DEF Ending, Over
<1>8. o.w = u /\ o.l = link /\ o.d = daemon /\ IsNow(o) /\ Over(o.w) /\ o.w.job = 0
  <2>1. Quiet(u) /\ u.job = 0
    BY <1>4, <1>7, SameQuiet DEF Over, Quiet
  <2> QED BY <1>3, <1>4, <1>7, <2>1, NowIs DEF IsNow, Over
<1>9. Result(o, r, {}, {})
  BY <1>5, <1>7, <1>8, UnpackRuntimeOK
<1>10. AllOK(r.w, r.l, r.d, {}, {})
  BY <1>8, <1>9, NowIs, ResultIsOK
<1>11. wizard' = r.w /\ link' = r.l /\ daemon' = r.d
  BY <1>5 DEF Becomes
<1> QED BY <1>7, <1>10, <1>11 DEF Unpack, SetupInv

\* Another daemon to start makes no difference.
LEMMA StartingIs ==
  ASSUME NEW d, IsDaemon(d), NEW b, NEW e, e = [d EXCEPT !.starting = b]
  PROVE  IsDaemon(e) /\ e.jobs = d.jobs /\ e.next = d.next /\ e.state = d.state
BY DEF IsDaemon

\* Microsoft's installer ended, the wizard's or another.
LEMMA RedistRunsStep ==
  ASSUME SetupInv, RedistRuns
  PROVE  SetupInv'
<1>1. PICK ok, o :
        /\ o = [Now EXCEPT !.f = Redistributed(@, ok), !.d.starting = @ \/ ok]
        /\ \/ /\ wizard.stage = "redist"
              /\ Becomes(FinishInstall(o, ~ok))
              /\ UNCHANGED installs
           \/ \E who \in DOMAIN installs :
                /\ installs[who].stage = "redist"
                /\ installs' = [installs EXCEPT ![who] = Idle]
                /\ Becomes(o)
  BY Zenon DEF RedistRuns
<1>2. flights' = flights
  BY DEF RedistRuns
<1>3. PICK d : d = [daemon EXCEPT !.starting = @ \/ ok]
  OBVIOUS
<1>4. PICK f : f = Redistributed(disk.files, ok)
  OBVIOUS
<1>5. o = [w |-> wizard, l |-> link, f |-> f, d |-> d]
  <2>1. Now = [w |-> wizard, l |-> link, f |-> disk.files, d |-> daemon]
    BY NowIs
  <2> QED BY ONLY <1>1, <1>3, <1>4, <2>1
<1>6. IsDaemon(d) /\ d.jobs = daemon.jobs /\ d.next = daemon.next /\ d.state = daemon.state
  BY <1>3, NowIs, StartingIs
<1>7. o.w = wizard /\ o.l = link /\ o.d = d /\ IsNow(o)
  BY <1>5, <1>6, NowIs DEF IsNow
<1>8. LinkOK(link, d) /\ \A j, n : Comes(link, daemon, j, n) => Comes(link, d, j, n)
  BY <1>6, NowIs DEF LinkOK, Comes
<1>9. CASE wizard.stage = "redist" /\ Becomes(FinishInstall(o, ~ok)) /\ UNCHANGED installs
  <2>1. PICK r : r = FinishInstall(o, ~ok)
    OBVIOUS
  <2>2. Ending(wizard, Asked(link), DictsOf(flights), FilesOf(flights))
    BY <1>9 DEF SetupInv, AllOK, WizardOK, Resting, Listing, Beginning, Loading, Counting
  <2>3. /\ Quiet(wizard) /\ Asked(link) = {} /\ wizard.job = 0
        /\ DictsOf(flights) = {} /\ FilesOf(flights) = {}
    BY <1>9, <2>2 DEF Ending, Quiet
  <2>4. Result(o, r, {}, {})
    BY <1>7, <2>1, <2>3, FinishOK
  <2>5. AllOK(r.w, r.l, r.d, {}, {})
    BY <1>7, <1>8, <2>3, <2>4, ResultIsOK
  <2>6. wizard' = r.w /\ link' = r.l /\ daemon' = r.d
    BY <1>9, <2>1 DEF Becomes
  <2> QED BY <1>2, <1>9, <2>3, <2>5, <2>6 DEF SetupInv
<1>10. CASE \E who \in DOMAIN installs :
              /\ installs[who].stage = "redist"
              /\ installs' = [installs EXCEPT ![who] = Idle]
              /\ Becomes(o)
  <2>1. DOMAIN installs' = DOMAIN installs
    BY <1>10
  <2>2. wizard' = wizard /\ link' = link /\ daemon' = d
    BY <1>7, <1>10 DEF Becomes
  <2>3. AllOK(wizard, link, d, DictsOf(flights), FilesOf(flights))
    BY <1>6, <1>8 DEF SetupInv, AllOK
  <2> QED BY <1>2, <2>1, <2>2, <2>3 DEF SetupInv
<1> QED BY <1>1, <1>9, <1>10

\* Downloads of others begin and nothing else happens that the wizard notices.
LEMMA OthersStep ==
  ASSUME SetupInv, NEW extra, Others(extra), flights' = flights \cup extra,
         DOMAIN installs' = DOMAIN installs, UNCHANGED <<wizard, link, daemon>>
  PROVE  SetupInv'
BY OthersFly DEF SetupInv

\* Another installer begins.
LEMMA InstallStep ==
  ASSUME SetupInv, NEW who \in DOMAIN installs, Install(who)
  PROVE  SetupInv'
<1>1. PICK files, job : /\ installs' = [installs EXCEPT ![who] = job]
                        /\ flights' = flights \cup {[for |-> who, file |-> f] : f \in files}
  BY Zenon DEF Install
<1>2. PICK extra : extra = {[for |-> who, file |-> f] : f \in files}
  OBVIOUS
<1>3. who # "wizard"
  BY DEF SetupInv
<1>4. Others(extra)
  <2>1. ASSUME NEW x \in extra
        PROVE  x = [for |-> x.for, file |-> x.file] /\ x.for # "wizard"
    <3>1. PICK f : x = [for |-> who, file |-> f]
      BY <1>2
    <3> QED BY ONLY <3>1, <1>3
  <2> QED BY <2>1 DEF Others
<1>5. UNCHANGED <<wizard, link, daemon>> /\ DOMAIN installs' = DOMAIN installs
  BY <1>1 DEF Install
<1> QED BY <1>1, <1>2, <1>4, <1>5, OthersStep

\* The dictionaries page has one more.
LEMMA EnqueueDownloadStep ==
  ASSUME SetupInv, EnqueueDownload
  PROVE  SetupInv'
<1>1. PICK p, n : flights' = flights \cup Started(p, n)
  BY Zenon DEF EnqueueDownload
<1>2. UNCHANGED <<wizard, link, daemon, installs>>
  BY DEF EnqueueDownload
<1> QED BY <1>1, <1>2, StartedAreOthers, OthersStep

\* The wizard notices what the connection and the daemon do only by what it reads.
LEMMA OutsideStep ==
  ASSUME SetupInv, UNCHANGED <<wizard, flights, installs>>, IsLink(link'), IsDaemon(daemon'),
         LinkOK(link', daemon'), Asked(link') = Asked(link),
         wizard.job # 0 /\ Comes(link, daemon, wizard.job, 0)
           => Comes(link', daemon', wizard.job, 0)
  PROVE  SetupInv'
BY DEF SetupInv, AllOK

\* Something added at the end.
LEMMA AddedIs ==
  ASSUME NEW a, \E S : a \in Seq(S), NEW m, NEW b, b = Append(a, m)
  PROVE  /\ \E S : b \in Seq(S)
         /\ DOMAIN a = 1 .. Len(a) /\ Len(a) \in Nat /\ DOMAIN b = 1 .. (Len(a) + 1)
         /\ \A i \in DOMAIN a : i \in DOMAIN b /\ b[i] = a[i]
         /\ b[Len(a) + 1] = m
<1>1. PICK S : a \in Seq(S)
  OBVIOUS
<1>2. a \in Seq(S \cup {m}) /\ m \in S \cup {m}
  BY <1>1
<1>3. /\ b \in Seq(S \cup {m}) /\ Len(a) \in Nat /\ DOMAIN a = 1 .. Len(a)
      /\ DOMAIN b = 1 .. (Len(a) + 1)
      /\ \A i \in DOMAIN a : i \in DOMAIN b /\ b[i] = a[i]
      /\ b[Len(a) + 1] = m
  BY ONLY b = Append(a, m), <1>2
<1> QED BY <1>3

\* It does not take away what comes.
LEMMA AddedComes ==
  ASSUME NEW l, NEW k, NEW d, NEW e, k.state = l.state,
         DOMAIN l.answers \subseteq DOMAIN k.answers,
         \A i \in DOMAIN l.answers : k.answers[i] = l.answers[i],
         NEW j, NEW n, Comes(l, d, j, n),
         \A i \in DOMAIN d.jobs : d.jobs[i].id = j =>
           \/ \E x \in DOMAIN e.jobs : e.jobs[x].id = j
           \/ \E x \in DOMAIN k.answers : /\ x > n /\ k.answers[x].call.method = "import.finished"
                                          /\ k.answers[x].job = j
  PROVE  Comes(k, e, j, n)
BY DEF Comes

\* The number of an import is told only when the daemon has the import.
LEMMA DaemonAnswersStep ==
  ASSUME SetupInv, DaemonAnswers
  PROVE  SetupInv'
<1>n. /\ IsWizard(wizard) /\ IsLink(link) /\ IsDaemon(daemon) /\ LinkOK(link, daemon)
  BY NowIs
<1>1. PICK call : call = Head(link.requests)
  OBVIOUS
<1>2. PICK m : m = [call |-> call,
                    job |-> IF call.method = "dictionaries.import" THEN daemon.next ELSE 0,
                    titles |-> disk.installed, ok |-> TRUE]
  OBVIOUS
<1>3. link.state = "up" /\ UNCHANGED <<flights, wizard, installs>>
  BY DEF DaemonAnswers
<1>4. /\ link' = Told([link EXCEPT !.requests = Tail(@)], m)
      /\ daemon' = IF call.method = "dictionaries.import"
                   THEN [daemon EXCEPT !.next = @ + 1,
                                       !.jobs = Append(@, [id |-> daemon.next, file |-> call.of])]
                   ELSE IF call.method = "shutdown" THEN [daemon EXCEPT !.state = "ending"]
                   ELSE daemon
  BY <1>1, <1>2, Zenon DEF DaemonAnswers
<1>5. PICK q : q = Tail(link.requests)
  OBVIOUS
<1>6. link' = [link EXCEPT !.requests = q, !.answers = Append(link.answers, m)]
  <2>1. PICK l : l = [link EXCEPT !.requests = q]
    OBVIOUS
  <2>2. l.state = "up" /\ l.answers = link.answers
    BY ONLY <2>1, <1>3, <1>n DEF IsLink
  <2>3. link' = [l EXCEPT !.answers = Append(@, m)]
    BY <1>4, <1>5, <2>1, <2>2 DEF Told
  <2> QED BY <2>1, <2>2, <2>3
<1>7. \E S : link.answers \in Seq(S)
  BY <1>n DEF LinkOK
<1>8. PICK z : z = Len(link.answers)
  OBVIOUS
<1>9. /\ IsLink(link') /\ link'.state = link.state /\ link'.calls = link.calls
      /\ \E S : link'.answers \in Seq(S)
      /\ DOMAIN link.answers = 1 .. z /\ z \in Nat
      /\ DOMAIN link'.answers = 1 .. (z + 1)
      /\ \A i \in DOMAIN link.answers : link'.answers[i] = link.answers[i]
      /\ link'.answers[z + 1] = m
  <2>1. PICK a : a = Append(link.answers, m)
    OBVIOUS
  <2>2. link' = [link EXCEPT !.requests = q, !.answers = a]
    BY <1>6, <2>1
  <2>3. IsLink(link') /\ link'.state = link.state /\ link'.calls = link.calls /\ link'.answers = a
    BY ONLY <2>2, <1>n DEF IsLink
  <2>4. /\ \E S : a \in Seq(S)
        /\ DOMAIN link.answers = 1 .. z /\ z \in Nat /\ DOMAIN a = 1 .. (z + 1)
        /\ \A i \in DOMAIN link.answers : i \in DOMAIN a /\ a[i] = link.answers[i]
        /\ a[z + 1] = m
    BY ONLY <1>7, <1>8, <2>1, AddedIs
  <2> QED BY <2>3, <2>4
<1>10. m.call = call /\ (call.method = "dictionaries.import" => m.job = daemon.next)
  BY <1>2
<1>11. /\ IsDaemon(daemon') /\ \E S : daemon'.jobs \in Seq(S)
       /\ daemon'.next \in Nat \ {0} /\ daemon'.state # "down"
       /\ \A i \in DOMAIN daemon.jobs : \E x \in DOMAIN daemon'.jobs :
             daemon'.jobs[x].id = daemon.jobs[i].id
       /\ call.method = "dictionaries.import" =>
             \E x \in DOMAIN daemon'.jobs : daemon'.jobs[x].id = daemon.next
  <2>0. /\ daemon.next \in Nat \ {0} /\ daemon.state # "down"
        /\ \E S : daemon.jobs \in Seq(S)
    BY <1>n, <1>3 DEF LinkOK
  <2>1. CASE call.method = "dictionaries.import"
    <3>1. PICK job : job = [id |-> daemon.next, file |-> call.of]
      OBVIOUS
    <3>3. PICK jobs : jobs = Append(daemon.jobs, job)
      OBVIOUS
    <3>5. /\ \E S : jobs \in Seq(S)
          /\ \A i \in DOMAIN daemon.jobs : i \in DOMAIN jobs /\ jobs[i] = daemon.jobs[i]
          /\ \E x \in DOMAIN jobs : jobs[x] = job
      <4>1. /\ \E S : jobs \in Seq(S)
            /\ Len(daemon.jobs) \in Nat /\ DOMAIN jobs = 1 .. (Len(daemon.jobs) + 1)
            /\ \A i \in DOMAIN daemon.jobs : i \in DOMAIN jobs /\ jobs[i] = daemon.jobs[i]
            /\ jobs[Len(daemon.jobs) + 1] = job
        BY ONLY <2>0, <3>3, AddedIs
      <4> QED BY <4>1
    <3>6. daemon' = [daemon EXCEPT !.next = @ + 1, !.jobs = jobs]
      BY <1>4, <2>1, <3>1, <3>3
    <3>7. /\ IsDaemon(daemon') /\ daemon'.next = daemon.next + 1 /\ daemon'.jobs = jobs
          /\ daemon'.state = daemon.state
      BY ONLY <3>6, <1>n DEF IsDaemon
    <3>8. job.id = daemon.next
      BY <3>1
    <3>9. \E T : daemon'.jobs \in Seq(T)
      BY <3>5, <3>7
    <3>10. daemon'.next \in Nat \ {0} /\ daemon'.state # "down"
      BY <2>0, <3>7
    <3>11. \A i \in DOMAIN daemon.jobs : \E x \in DOMAIN daemon'.jobs :
             daemon'.jobs[x].id = daemon.jobs[i].id
      BY <3>5, <3>7
    <3>12. \E x \in DOMAIN daemon'.jobs : daemon'.jobs[x].id = daemon.next
      BY <3>5, <3>7, <3>8
    <3> QED BY <3>7, <3>9, <3>10, <3>11, <3>12
  <2>2. CASE call.method # "dictionaries.import"
    <3>1. daemon' = [daemon EXCEPT !.state = "ending"] \/ daemon' = daemon
      BY <1>4, <2>2
    <3>2. /\ IsDaemon(daemon') /\ daemon'.next = daemon.next /\ daemon'.jobs = daemon.jobs
          /\ daemon'.state \in {daemon.state, "ending"}
      BY ONLY <3>1, <1>n DEF IsDaemon
    <3> QED BY <2>0, <2>2, <3>2
  <2> QED BY <2>1, <2>2
<1>12. \A j, n : Comes(link, daemon, j, n) => Comes(link', daemon', j, n)
  <2> TAKE j, n
  <2> HAVE Comes(link, daemon, j, n)
  <2>1. DOMAIN link.answers \subseteq DOMAIN link'.answers
    BY <1>9
  <2>2. \A i \in DOMAIN daemon.jobs : daemon.jobs[i].id = j =>
           \/ \E x \in DOMAIN daemon'.jobs : daemon'.jobs[x].id = j
           \/ \E x \in DOMAIN link'.answers :
                /\ x > n /\ link'.answers[x].call.method = "import.finished"
                /\ link'.answers[x].job = j
    BY <1>11
  <2>3. /\ link'.state = link.state
        /\ \A i \in DOMAIN link.answers : link'.answers[i] = link.answers[i]
    BY <1>9
  <2> QED BY <2>1, <2>2, <2>3, AddedComes
<1>13. LinkOK(link', daemon')
  <2>1. ASSUME NEW i \in DOMAIN link'.answers,
               link'.answers[i].call.method = "dictionaries.import"
        PROVE  /\ link'.answers[i].job \in Nat \ {0}
               /\ Comes(link', daemon', link'.answers[i].job, i)
    <3>1. CASE i \in DOMAIN link.answers
      BY <1>9, <1>12, <1>n, <2>1, <3>1 DEF LinkOK
    <3>2. CASE i = z + 1
      <4>1. call.method = "dictionaries.import" /\ link'.answers[i].job = daemon.next
        BY <1>9, <1>10, <2>1, <3>2
      <4> QED BY <4>1, <1>3, <1>9, <1>11, <1>n DEF LinkOK, Comes
    <3> QED BY <1>9, <3>1, <3>2
  <2> QED BY <1>3, <1>9, <1>11, <2>1 DEF LinkOK
<1>14. Asked(link') = Asked(link)
  BY <1>9 DEF Asked
<1> QED BY <1>3, <1>9, <1>11, <1>12, <1>13, <1>14, OutsideStep

\* The first of a sequence and the others.
LEMMA RestIs ==
  ASSUME NEW a, \E S : a \in Seq(S), a # <<>>, NEW b, b = Tail(a)
  PROVE  /\ \E S : b \in Seq(S)
         /\ Len(a) \in Nat \ {0} /\ DOMAIN a = 1 .. Len(a) /\ DOMAIN b = 1 .. (Len(a) - 1)
         /\ Head(a) = a[1]
         /\ \A i \in DOMAIN b : i + 1 \in DOMAIN a /\ b[i] = a[i + 1]
         /\ \A i \in DOMAIN a : i # 1 => i - 1 \in DOMAIN b /\ b[i - 1] = a[i]
<1>1. PICK S : a \in Seq(S)
  OBVIOUS
<1>2. /\ b \in Seq(S) /\ Len(a) \in Nat \ {0} /\ DOMAIN a = 1 .. Len(a)
      /\ Len(b) = Len(a) - 1 /\ Head(a) = a[1]
      /\ \A i \in 1 .. Len(b) : b[i] = a[i + 1]
  BY ONLY <1>1, a # <<>>, b = Tail(a)
<1>3. DOMAIN b = 1 .. (Len(a) - 1)
  BY ONLY <1>2
<1>4. \A i \in DOMAIN b : i + 1 \in DOMAIN a /\ b[i] = a[i + 1]
  BY ONLY <1>2, <1>3
<1>5. \A i \in DOMAIN a : i # 1 => i - 1 \in DOMAIN b /\ b[i - 1] = a[i]
  <2> SUFFICES ASSUME NEW i \in DOMAIN a, i # 1 PROVE i - 1 \in DOMAIN b /\ b[i - 1] = a[i]
    OBVIOUS
  <2>1. i - 1 \in 1 .. (Len(a) - 1) /\ (i - 1) + 1 = i
    BY ONLY <1>2, i \in DOMAIN a, i # 1
  <2>2. b[i - 1] = a[(i - 1) + 1]
    BY <1>3, <1>4, <2>1
  <2> QED BY <1>3, <2>1, <2>2
<1> QED BY <1>2, <1>3, <1>4, <1>5

\* An import that is done is told of where the connection still is.
LEMMA DaemonImportsStep ==
  ASSUME SetupInv, DaemonImports
  PROVE  SetupInv'
<1>n. /\ IsWizard(wizard) /\ IsLink(link) /\ IsDaemon(daemon) /\ LinkOK(link, daemon)
  BY NowIs
<1>1. daemon.state # "down" /\ daemon.jobs # <<>> /\ UNCHANGED <<flights, wizard, installs>>
  BY DEF DaemonImports, Running
<1>2. PICK m : /\ m.call.method = "import.finished" /\ m.job = Head(daemon.jobs).id
               /\ link' = Told(link, m)
               /\ daemon' = [daemon EXCEPT !.jobs = Tail(@)]
  <2>1. PICK ok, call :
          /\ call = Call("daemon", "import.finished", "none")
          /\ link' = Told(link, [call |-> call, job |-> Head(daemon.jobs).id,
                                 titles |-> {}, ok |-> ok])
          /\ daemon' = [daemon EXCEPT !.jobs = Tail(@)]
    BY Zenon DEF DaemonImports
  <2>2. PICK m : m = [call |-> call, job |-> Head(daemon.jobs).id, titles |-> {}, ok |-> ok]
    OBVIOUS
  <2>3. m.call = call /\ m.job = Head(daemon.jobs).id
    BY ONLY <2>2
  <2>4. call.method = "import.finished"
    BY <2>1 DEF Call
  <2> QED BY <2>1, <2>2, <2>3, <2>4
<1>3. PICK b : b = Tail(daemon.jobs)
  OBVIOUS
<1>4. /\ IsDaemon(daemon') /\ daemon'.jobs = b /\ daemon'.next = daemon.next
      /\ daemon'.state = daemon.state
  <2>1. daemon' = [daemon EXCEPT !.jobs = b]
    BY <1>2, <1>3
  <2> QED BY ONLY <2>1, <1>n DEF IsDaemon
<1>5. (\E S : daemon.jobs \in Seq(S)) /\ (\E S : link.answers \in Seq(S))
  BY <1>n DEF LinkOK
<1>6. /\ \E S : b \in Seq(S)
      /\ Head(daemon.jobs) = daemon.jobs[1]
      /\ \A i \in DOMAIN daemon.jobs :
           i # 1 => i - 1 \in DOMAIN b /\ b[i - 1] = daemon.jobs[i]
  BY <1>1, <1>3, <1>5, RestIs
<1>7. CASE link.state = "up"
  <2>1. PICK z : z = Len(link.answers)
    OBVIOUS
  <2>2. PICK a : a = Append(link.answers, m)
    OBVIOUS
  <2>3. link' = [link EXCEPT !.answers = a]
    BY <1>2, <1>7, <2>2 DEF Told
  <2>4. IsLink(link') /\ link'.state = link.state /\ link'.calls = link.calls /\ link'.answers = a
    BY ONLY <2>3, <1>n DEF IsLink
  <2>5. /\ \E S : a \in Seq(S)
        /\ DOMAIN link.answers = 1 .. z /\ z \in Nat /\ DOMAIN a = 1 .. (z + 1)
        /\ \A i \in DOMAIN link.answers : i \in DOMAIN a /\ a[i] = link.answers[i]
        /\ a[z + 1] = m
    <3>1. \E S : link.answers \in Seq(S)
      BY <1>5
    <3> QED BY ONLY <3>1, <2>1, <2>2, AddedIs
  <2>6. ASSUME NEW j, NEW n \in 0 .. z, Comes(link, daemon, j, n)
        PROVE  Comes(link', daemon', j, n)
    <3>1. \A i \in DOMAIN daemon.jobs : daemon.jobs[i].id = j =>
             \/ \E x \in DOMAIN daemon'.jobs : daemon'.jobs[x].id = j
             \/ \E x \in DOMAIN link'.answers :
                  /\ x > n /\ link'.answers[x].call.method = "import.finished"
                  /\ link'.answers[x].job = j
      <4> SUFFICES ASSUME NEW i \in DOMAIN daemon.jobs, daemon.jobs[i].id = j
                   PROVE  \/ \E x \in DOMAIN daemon'.jobs : daemon'.jobs[x].id = j
                          \/ \E x \in DOMAIN link'.answers :
                               /\ x > n /\ link'.answers[x].call.method = "import.finished"
                               /\ link'.answers[x].job = j
        OBVIOUS
      <4>1. CASE i = 1
        <5>1. z + 1 \in DOMAIN a /\ z + 1 > n
          BY <2>5
        <5>2. a[z + 1].call.method = "import.finished" /\ a[z + 1].job = j
          BY <1>2, <1>6, <2>5, <4>1
        <5> QED BY <2>4, <5>1, <5>2
      <4>2. CASE i # 1
        BY <1>4, <1>6, <4>2
      <4> QED BY <4>1, <4>2
    <3>2. /\ link'.state = link.state /\ DOMAIN link.answers \subseteq DOMAIN link'.answers
          /\ \A i \in DOMAIN link.answers : link'.answers[i] = link.answers[i]
      BY <2>4, <2>5
    <3> QED BY <2>6, <3>1, <3>2, AddedComes
  <2>7. LinkOK(link', daemon')
    <3>1. ASSUME NEW i \in DOMAIN a, a[i].call.method = "dictionaries.import"
          PROVE  a[i].job \in Nat \ {0} /\ Comes(link', daemon', a[i].job, i)
      <4>1. i \in DOMAIN link.answers
        <5>1. a[z + 1].call.method # "dictionaries.import"
          BY <1>2, <2>5
        <5> QED BY <2>5, <3>1, <5>1
      <4>2. a[i] = link.answers[i] /\ i \in 0 .. z
        BY <2>5, <4>1
      <4>3. a[i].job \in Nat \ {0} /\ Comes(link, daemon, a[i].job, i)
        BY <1>n, <3>1, <4>1, <4>2 DEF LinkOK
      <4> QED BY <2>6, <4>2, <4>3
    <3> QED BY <1>1, <1>4, <1>6, <1>7, <1>n, <2>4, <2>5, <3>1 DEF LinkOK
  <2>8. Asked(link') = Asked(link)
    BY <2>4 DEF Asked
  <2>9. 0 \in 0 .. z
    BY <2>5
  <2> QED BY <1>1, <1>4, <2>4, <2>6, <2>7, <2>8, <2>9, OutsideStep
<1>8. CASE link.state # "up"
  <2>1. link' = link
    BY <1>2, <1>8 DEF Told
  <2>2. \A j, n : Comes(link, daemon, j, n) => Comes(link', daemon', j, n)
    BY <1>8, <2>1 DEF Comes
  <2>3. LinkOK(link', daemon')
    BY <1>4, <1>6, <1>8, <1>n, <2>1, <2>2 DEF LinkOK
  <2> QED BY <1>1, <1>4, <1>n, <2>1, <2>2, <2>3, OutsideStep
<1> QED BY <1>7, <1>8

\* A daemon that ends takes its imports with it, and the connection,
LEMMA DaemonEndsStep ==
  ASSUME SetupInv, DaemonEnds
  PROVE  SetupInv'
<1>n. /\ IsWizard(wizard) /\ IsLink(link) /\ IsDaemon(daemon) /\ LinkOK(link, daemon)
  BY NowIs
<1>1. UNCHANGED <<flights, wizard, installs>>
  BY DEF DaemonEnds
<1>2. /\ daemon' = [daemon EXCEPT !.state = "down", !.jobs = <<>>]
      /\ link' = IF link.state = "up" THEN [link EXCEPT !.state = "closed", !.requests = <<>>]
                 ELSE link
  BY DEF DaemonEnds
<1>3. /\ IsDaemon(daemon') /\ daemon'.jobs = <<>> /\ daemon'.next = daemon.next
  BY ONLY <1>2, <1>n DEF IsDaemon
<1>4. /\ IsLink(link') /\ link'.calls = link.calls /\ link'.answers = link.answers
      /\ link'.state = IF link.state = "up" THEN "closed" ELSE link.state
  <2>1. CASE link.state = "up"
    <3>1. link' = [link EXCEPT !.state = "closed", !.requests = <<>>]
      BY <1>2, <2>1
    <3>2. /\ IsLink(link') /\ link'.calls = link.calls /\ link'.answers = link.answers
          /\ link'.state = "closed"
      BY ONLY <3>1, <1>n DEF IsLink
    <3> QED BY <2>1, <3>2
  <2> QED BY <2>1, <1>2, <1>n
<1>5. link'.state \in {"closed", "down"} /\ (link'.state = "down" => link.state = "down")
  BY <1>4, <1>n DEF IsLink
<1>6. \A j, n : Comes(link, daemon, j, n) => Comes(link', daemon', j, n)
  BY <1>5 DEF Comes
<1>7. \E S : daemon'.jobs \in Seq(S)
  <2>1. <<>> \in Seq({})
    OBVIOUS
  <2> QED BY <1>3, <2>1
<1>8. LinkOK(link', daemon')
  BY <1>3, <1>4, <1>5, <1>6, <1>7, <1>n DEF LinkOK
<1>9. Asked(link') = Asked(link)
  BY <1>4 DEF Asked
<1> QED BY <1>1, <1>3, <1>4, <1>6, <1>8, <1>9, OutsideStep

\* so that the next can number from one again:
LEMMA DaemonStartsStep ==
  ASSUME SetupInv, DaemonStarts
  PROVE  SetupInv'
<1>n. /\ IsWizard(wizard) /\ IsLink(link) /\ IsDaemon(daemon) /\ LinkOK(link, daemon)
  BY NowIs
<1>1. UNCHANGED <<flights, wizard, installs, link>> /\ daemon.state = "down"
  BY DEF DaemonStarts, Running
<1>2. daemon' = [state |-> "up", jobs |-> <<>>, next |-> 1, starting |-> FALSE]
  BY DEF DaemonStarts
<1>3. IsDaemon(daemon') /\ daemon'.jobs = <<>> /\ daemon'.next = 1 /\ daemon'.state = "up"
  BY ONLY <1>2 DEF IsDaemon
<1>4. link.state # "up"
  BY <1>1, <1>n DEF LinkOK
<1>5. \A j, n : Comes(link, daemon, j, n) => Comes(link, daemon', j, n)
  BY <1>4 DEF Comes
<1>6. \E S : daemon'.jobs \in Seq(S)
  <2>1. <<>> \in Seq({})
    OBVIOUS
  <2> QED BY <1>3, <2>1
<1>7. LinkOK(link, daemon')
  BY <1>3, <1>5, <1>6, <1>n DEF LinkOK
<1> QED BY <1>1, <1>3, <1>5, <1>7, <1>n, OutsideStep

\* nobody is connected to it before the last connection was given up.
LEMMA LinkUpStep ==
  ASSUME SetupInv, LinkUp
  PROVE  SetupInv'
<1>n. /\ IsWizard(wizard) /\ IsLink(link) /\ IsDaemon(daemon) /\ LinkOK(link, daemon)
  BY NowIs
<1>1. /\ UNCHANGED <<flights, wizard, installs, daemon>>
      /\ link.state = "down" /\ daemon.state = "up" /\ link' = [link EXCEPT !.state = "up"]
  BY DEF LinkUp
<1>2. /\ IsLink(link') /\ link'.state = "up" /\ link'.calls = link.calls
      /\ link'.answers = link.answers
  BY ONLY <1>1, <1>n DEF IsLink
<1>3. link.answers = <<>> /\ \A j, n : ~Comes(link, daemon, j, n)
  BY <1>1, <1>n DEF LinkOK, Comes
<1>4. LinkOK(link', daemon)
  BY <1>1, <1>2, <1>3, <1>n DEF LinkOK
<1>5. Asked(link') = Asked(link)
  BY <1>2 DEF Asked
<1> QED BY <1>1, <1>2, <1>3, <1>4, <1>5, <1>n, OutsideStep

\* A download counted by the wizard ended, or another.
LEMMA DownloadEndsStep ==
  ASSUME SetupInv, DownloadEnds
  PROVE  SetupInv'
<1>n. /\ IsWizard(wizard) /\ IsLink(link) /\ IsDaemon(daemon) /\ LinkOK(link, daemon)
      /\ FlightsOK(flights) /\ DOMAIN installs = {"ocr", "translation"}
  BY NowIs DEF SetupInv
<1>1. PICK x \in flights, ok \in BOOLEAN :
        LET o    == [Now EXCEPT !.f = IF ok THEN @ \cup {x.file} ELSE @]
            rest == flights \ {x}
        IN \/ /\ x.for = "wizard"
              /\ \E r \in IF x.file \in Wanted THEN DictDownloaded(o, x.file, ok)
                          ELSE OtherDownloaded(o, ok) : Becomes(r)
              /\ flights' = rest /\ UNCHANGED <<installs, offers>>
           \/ /\ x.for \in DOMAIN installs
              /\ \E r \in Counted(installs[x.for], o.f, ok) :
                   /\ installs' = [installs EXCEPT ![x.for] = r.job]
                   /\ disk' = [disk EXCEPT !.files = r.files]
              /\ flights' = rest /\ UNCHANGED <<wizard, link, daemon, offers>>
           \/ /\ x.for = "page"
              /\ disk' = [disk EXCEPT !.files = o.f]
              /\ IF ok /\ Connected(link)
                 THEN /\ link' = Called(link, Call("page", "dictionaries.import", x.file))
                      /\ flights' = rest /\ UNCHANGED offers
                 ELSE /\ offers' = NextDownloads(offers, 1)
                      /\ flights' = rest \cup Started(offers, 1)
                      /\ UNCHANGED link
              /\ UNCHANGED <<wizard, daemon, installs>>
  BY ZenonT(30) DEF DownloadEnds
<1>2. PICK rest : rest = flights \ {x}
  OBVIOUS
<1>3. x = [for |-> x.for, file |-> x.file] /\ FlightsOK(rest)
  BY <1>2, <1>n DEF FlightsOK
<1>4. ASSUME x.for # "wizard"
      PROVE  DictsOf(rest) = DictsOf(flights) /\ FilesOf(rest) = FilesOf(flights)
  <2>1. \A f : Flight(f).for = "wizard"
    BY DEF Flight
  <2>2. \A f : Flight(f) \in flights <=> Flight(f) \in rest
    BY <1>2, <1>4, <2>1
  <2> QED BY <2>2 DEF DictsOf, FilesOf
<1>5. CASE x.for = "wizard"
  <2>1. PICK f : f = IF ok THEN disk.files \cup {x.file} ELSE disk.files
    OBVIOUS
  <2>2. PICK o : o = [Now EXCEPT !.f = f]
    OBVIOUS
  <2>3. o = [Now EXCEPT !.f = IF ok THEN @ \cup {x.file} ELSE @]
    BY <2>1, <2>2, NowIs
  <2>4. /\ flights' = rest /\ installs' = installs
        /\ \E r \in IF x.file \in Wanted THEN DictDownloaded(o, x.file, ok)
                    ELSE OtherDownloaded(o, ok) : Becomes(r)
    <3>1. "wizard" \notin DOMAIN installs /\ "wizard" # "page"
      BY <1>n
    <3> QED BY <1>1, <1>2, <1>5, <2>3, <3>1, Zenon
  <2>5. IsNow(o) /\ o.w = wizard /\ o.l = link /\ o.d = daemon
    <3>1. Now = [w |-> wizard, l |-> link, f |-> disk.files, d |-> daemon]
      BY NowIs
    <3>2. o = [w |-> wizard, l |-> link, f |-> f, d |-> daemon]
      BY ONLY <2>2, <3>1
    <3> QED BY <3>2, <1>n DEF IsNow
  <2>6. x = Flight(x.file) /\ x.file \in Wanted \cup Files
    BY <1>3, <1>5, <1>n DEF Flight, FlightsOK
  <2>7. Wanted \cap Files = {}
    BY WantedAssumption DEF Files
  <2>8. x.file \in DictsOf(flights) \/ x.file \in FilesOf(flights)
    BY <2>6 DEF DictsOf, FilesOf
  <2>9. /\ Loading(wizard, Asked(link), DictsOf(flights), FilesOf(flights)) /\ Fed(wizard)
    BY <2>8 DEF SetupInv, AllOK, WizardOK, Resting, Listing, Ending
  <2>10. \A g : Flight(g) \in rest <=> Flight(g) \in flights /\ g # x.file
    <3>1. \A g : Flight(g) = x <=> g = x.file
      <4>1. \A g : Flight(g).file = g
        BY DEF Flight
      <4> QED BY <2>6, <4>1
    <3> QED BY <1>2, <3>1
  <2>11. wizard.job # 0 => Comes(link, daemon, wizard.job, 0)
    BY DEF SetupInv, AllOK
  <2>12. ASSUME NEW r, Becomes(r), Result(o, r, DictsOf(rest), FilesOf(rest))
         PROVE  SetupInv'
    <3>1. AllOK(r.w, r.l, r.d, DictsOf(rest), FilesOf(rest))
      BY <1>n, <2>5, <2>11, <2>12, ResultIsOK
    <3>2. wizard' = r.w /\ link' = r.l /\ daemon' = r.d
      BY <2>12 DEF Becomes
    <3> QED BY <1>3, <1>n, <2>4, <3>1, <3>2 DEF SetupInv
  <2>13. CASE x.file \in Wanted
    <3>1. DictsOf(rest) = DictsOf(flights) \ {x.file} /\ FilesOf(rest) = FilesOf(flights)
      BY <2>7, <2>10, <2>13 DEF DictsOf, FilesOf
    <3>2. x.file \in DictsOf(flights)
      BY <2>7, <2>8, <2>13 DEF FilesOf
    <3>3. PICK r \in DictDownloaded(o, x.file, ok) : Becomes(r)
      BY <2>4, <2>13
    <3>4. Result(o, r, DictsOf(flights) \ {x.file}, FilesOf(flights))
      BY <2>5, <2>9, <2>13, <3>2, <3>3, FlightsFinite, DictDownloadedOK
    <3> QED BY <2>12, <3>1, <3>3, <3>4
  <2>14. CASE x.file \notin Wanted
    <3>1. DictsOf(rest) = DictsOf(flights) /\ FilesOf(rest) = FilesOf(flights) \ {x.file}
      BY <2>10, <2>14 DEF DictsOf, FilesOf
    <3>2. x.file \in FilesOf(flights)
      BY <2>8, <2>14 DEF DictsOf
    <3>3. PICK r \in OtherDownloaded(o, ok) : Becomes(r)
      BY <2>4, <2>14
    <3>4. Result(o, r, DictsOf(flights), FilesOf(flights) \ {x.file})
      BY <2>5, <2>9, <3>2, <3>3, FlightsFinite, OtherDownloadedOK
    <3> QED BY <2>12, <3>1, <3>3, <3>4
  <2> QED BY <2>13, <2>14
<1>6. CASE x.for # "wizard"
  <2>1. AllOK(wizard, link, daemon, DictsOf(rest), FilesOf(rest))
    BY <1>4, <1>6 DEF SetupInv
  <2>2. /\ wizard' = wizard /\ daemon' = daemon /\ DOMAIN installs' = DOMAIN installs
        /\ \/ link' = link /\ flights' = rest
           \/ /\ link' = Called(link, Call("page", "dictionaries.import", x.file))
              /\ flights' = rest /\ Connected(link)
           \/ link' = link /\ flights' = rest \cup Started(offers, 1)
    <3>1. \/ /\ \E job : installs' = [installs EXCEPT ![x.for] = job]
             /\ flights' = rest /\ UNCHANGED <<wizard, link, daemon, offers>>
          \/ /\ IF ok /\ Connected(link)
                THEN /\ link' = Called(link, Call("page", "dictionaries.import", x.file))
                     /\ flights' = rest /\ UNCHANGED offers
                ELSE /\ offers' = NextDownloads(offers, 1)
                     /\ flights' = rest \cup Started(offers, 1)
                     /\ UNCHANGED link
             /\ UNCHANGED <<wizard, daemon, installs>>
      BY <1>1, <1>2, <1>6, Zenon
    <3> QED BY <3>1
  <2>3. CASE link' = link /\ flights' = rest
    BY <1>3, <1>n, <2>1, <2>2, <2>3 DEF SetupInv
  <2>4. CASE link' = link /\ flights' = rest \cup Started(offers, 1)
    <3>1. /\ FlightsOK(flights')
          /\ DictsOf(flights') = DictsOf(rest) /\ FilesOf(flights') = FilesOf(rest)
      BY <1>3, <2>4, StartedAreOthers, OthersFly
    <3> QED BY <1>n, <2>1, <2>2, <2>4, <3>1 DEF SetupInv
  <2>5. CASE /\ link' = Called(link, Call("page", "dictionaries.import", x.file))
             /\ flights' = rest /\ Connected(link)
    <3>1. PICK call : call = Call("page", "dictionaries.import", x.file)
      OBVIOUS
    <3>2. call.by # "wizard"
      BY <3>1 DEF Call
    <3>3. link' = Called(link, call)
      BY <2>5, <3>1
    <3>4. IsLink(link') /\ link'.state = link.state /\ link'.answers = link.answers
      BY <1>n, <3>3, CalledIs
    <3>5. Asked(link') = Asked(link)
      BY <1>n, <3>2, <3>3, CalledIs
    <3>6. \A j, n : Comes(link, daemon, j, n) => Comes(link', daemon, j, n)
      BY <3>4 DEF Comes
    <3>7. LinkOK(link', daemon)
      BY <1>n, <2>5, <3>4, <3>6 DEF LinkOK, Connected
    <3>8. AllOK(wizard, link', daemon, DictsOf(rest), FilesOf(rest))
      BY <2>1, <3>4, <3>5, <3>6, <3>7 DEF AllOK
    <3> QED BY <1>3, <1>n, <2>2, <2>5, <3>8 DEF SetupInv
  <2> QED BY <2>2, <2>3, <2>4, <2>5
<1> QED BY <1>5, <1>6

\* What the wizard does with an answer, or without one; w is the wizard that waited for it.
LEMMA RepliedOK ==
  ASSUME FlightsOK(flights), NEW o, IsNow(o), LinkOK(o.l, o.d), Asked(o.l) = {},
         NEW call, NEW a, call \in a, WizardOK(o.w, a, DictsOf(flights), FilesOf(flights)),
         NEW ok, NEW answer,
         call.method = "dictionaries.import" /\ ok =>
           answer.job # 0 /\ Comes(o.l, o.d, answer.job, 0),
         NEW others, Others(others), Replied(o, call, ok, answer, others)
  PROVE  WizardsPart(flights', wizard', link', daemon')
<1>o. /\ o = [w |-> o.w, l |-> o.l, f |-> o.f, d |-> o.d]
      /\ IsWizard(o.w) /\ IsLink(o.l) /\ IsDaemon(o.d)
  BY DEF IsNow
<1>1. \A by, method, of : Call(by, method, of).method = method
  BY DEF Call
<1>2. /\ FlightsOK(flights \cup others)
      /\ DictsOf(flights \cup others) = DictsOf(flights)
      /\ FilesOf(flights \cup others) = FilesOf(flights)
  BY OthersFly
<1>3. ASSUME NEW r, Becomes(r), Result(o, r, DictsOf(flights), FilesOf(flights)),
             flights' = flights \cup others, o.w.job = 0
      PROVE  WizardsPart(flights', wizard', link', daemon')
  <2>1. AllOK(r.w, r.l, r.d, DictsOf(flights), FilesOf(flights))
    BY <1>3, ResultIsOK
  <2>2. wizard' = r.w /\ link' = r.l /\ daemon' = r.d
    BY <1>3 DEF Becomes
  <2> QED BY <1>2, <1>3, <2>1, <2>2 DEF WizardsPart
<1>4. CASE Listing(o.w, a, DictsOf(flights), FilesOf(flights))
  <2>1. /\ call.method = "dictionaries.list" /\ Beginning(o.w)
        /\ DictsOf(flights) = {} /\ FilesOf(flights) = {}
    BY <1>1, <1>4 DEF Listing
  <2>2. Begins(o, answer.titles, others)
    BY <2>1, Zenon DEF Replied
  <2> QED BY <2>1, <2>2, BeginsOK
<1>5. CASE Ending(o.w, a, DictsOf(flights), FilesOf(flights))
  <2>1. /\ Over(o.w) /\ Quiet(o.w) /\ o.w.job = 0
        /\ DictsOf(flights) = {} /\ FilesOf(flights) = {}
    BY <1>5 DEF Ending, Over, Quiet
  <2>2. call.method \in {"shutdown", "capture.reset"}
    BY <1>1, <1>5 DEF Ending
  <2>3. CASE call.method = "shutdown"
    <3>1. PICK r : Becomes(r) /\ r = [o EXCEPT !.w.stage = "wait"] /\ flights' = flights \cup others
      BY <2>3 DEF Replied
    <3>2. r.w = [o.w EXCEPT !.stage = "wait"] /\ r = [w |-> r.w, l |-> o.l, f |-> o.f, d |-> o.d]
      BY ONLY <3>1, <1>o
    <3>3. r.d = o.d /\ r.l = o.l /\ r = [w |-> r.w, l |-> o.l, f |-> o.f, d |-> r.d]
      BY ONLY <3>2
    <3>4. IsDaemon(r.d) /\ Keeps(o, r)
      BY <1>o, <3>3 DEF Keeps
    <3>5. Result(o, r, {}, {})
      BY <2>1, <3>2, <3>3, <3>4, WaitsOK
    <3> QED BY <1>3, <2>1, <3>1, <3>5
  <2>4. CASE call.method = "capture.reset"
    <3>1. PICK r : Becomes(r) /\ r = FinishInstall(o, FALSE) /\ flights' = flights \cup others
      BY <2>4 DEF Replied
    <3>2. Result(o, r, {}, {})
      BY <2>1, <3>1, FinishOK
    <3> QED BY <1>3, <2>1, <3>1, <3>2
  <2> QED BY <2>2, <2>3, <2>4
<1>6. CASE Loading(o.w, a, DictsOf(flights), FilesOf(flights))
  <2>1. /\ call.method = "dictionaries.import" /\ o.w.importing /\ o.w.job = 0
        /\ Counting(o.w, DictsOf(flights), FilesOf(flights))
    BY <1>1, <1>6 DEF Loading
  <2>2. /\ flights' = flights \cup others
        /\ \E r \in IF ok THEN {[o EXCEPT !.w.job = answer.job]} ELSE ImportDone(o, TRUE) :
             Becomes(r)
    BY <2>1 DEF Replied
  <2>3. CASE ok
    <3>1. PICK r : Becomes(r) /\ r = [o EXCEPT !.w.job = answer.job]
      BY <2>2, <2>3
    <3>2. PICK u : u = [o.w EXCEPT !.job = answer.job]
      OBVIOUS
    <3>3. r = [w |-> u, l |-> o.l, f |-> o.f, d |-> o.d]
      BY ONLY <3>1, <3>2, <1>o
    <3>4. /\ IsWizard(u) /\ u.importing = o.w.importing /\ u.queue = o.w.queue
          /\ u.job = answer.job
          /\ u.downloads = o.w.downloads /\ u.imports = o.w.imports /\ u.others = o.w.others
          /\ u.installing = o.w.installing /\ u.page = o.w.page
          /\ u.stage = o.w.stage /\ u.finishing = o.w.finishing
      BY ONLY <3>2, <1>o DEF IsWizard
    <3>5. r.w = u /\ r.l = o.l /\ r.d = o.d
      BY <3>3
    <3>6. answer.job # 0 /\ Comes(o.l, o.d, answer.job, 0)
      BY <2>1, <2>3
    <3>7. Loading(u, {}, DictsOf(flights), FilesOf(flights)) /\ Fed(u) /\ Waiting(u)
      BY <2>1, <3>4, <3>6 DEF Loading, Counting, Fed, Waiting
    <3>8. AllOK(u, o.l, o.d, DictsOf(flights), FilesOf(flights))
      BY <1>o, <3>4, <3>6, <3>7 DEF AllOK, WizardOK
    <3>9. wizard' = u /\ link' = o.l /\ daemon' = o.d
      BY <3>1, <3>5 DEF Becomes
    <3> QED BY <1>2, <2>2, <3>8, <3>9 DEF WizardsPart
  <2>4. CASE ~ok
    <3>1. PICK r \in ImportDone(o, TRUE) : Becomes(r)
      BY <2>2, <2>4
    <3>2. Result(o, r, DictsOf(flights), FilesOf(flights))
      BY <2>1, <3>1, FlightsFinite, ImportDoneOK
    <3> QED BY <1>3, <2>1, <2>2, <3>1, <3>2
  <2> QED BY <2>3, <2>4
<1>7. ~Resting(o.w, a, DictsOf(flights), FilesOf(flights))
  BY DEF Resting
<1> QED BY <1>4, <1>5, <1>6, <1>7 DEF WizardOK

\* The end of the import the wizard waits for.
LEMMA ImportEndsOK ==
  ASSUME FlightsOK(flights), NEW o, IsNow(o), LinkOK(o.l, o.d), o.w.job # 0,
         WizardOK(o.w, Asked(o.l), DictsOf(flights), FilesOf(flights)),
         NEW failed, NEW r \in ImportDone(o, failed), Becomes(r),
         NEW others, Others(others), flights' = flights \cup others
  PROVE  WizardsPart(flights', wizard', link', daemon')
<1>1. /\ Counting(o.w, DictsOf(flights), FilesOf(flights)) /\ o.w.importing
      /\ Asked(o.l) = {}
  BY DEF WizardOK, Resting, Listing, Beginning, Ending, Loading, Quiet
<1>2. Result(o, r, DictsOf(flights), FilesOf(flights)) /\ r.w.job = 0
  BY <1>1, FlightsFinite, ImportDoneOK
<1>3. AllOK(r.w, r.l, r.d, DictsOf(flights), FilesOf(flights))
  BY <1>2, ResultIsOK
<1>4. wizard' = r.w /\ link' = r.l /\ daemon' = r.d
  BY DEF Becomes
<1>5. /\ FlightsOK(flights')
      /\ DictsOf(flights') = DictsOf(flights) /\ FilesOf(flights') = FilesOf(flights)
  BY OthersFly
<1> QED BY <1>3, <1>4, <1>5 DEF WizardsPart

\* A message is read.
LEMMA ReadIs ==
  ASSUME NEW l, NEW d, LinkOK(l, d), Connected(l), l.answers # <<>>,
         NEW m, m = Head(l.answers), NEW k, k.state = l.state,
         k.answers = Tail(l.answers), k.calls = l.calls \ {m.call}
  PROVE  /\ LinkOK(k, d)
         /\ Asked(k) = Asked(l) \ {m.call}
         /\ \A j : Comes(l, d, j, 0) /\ ~(m.call.method = "import.finished" /\ m.job = j)
                   => Comes(k, d, j, 0)
         /\ m.call.method = "dictionaries.import" => m.job # 0 /\ Comes(k, d, m.job, 0)
<1>1. PICK a : a = Tail(l.answers)
  OBVIOUS
<1>2. m = Head(l.answers)
  OBVIOUS
<1>5. k.state = l.state /\ k.answers = a
  BY <1>1
<1>6. PICK z : z = Len(l.answers)
  OBVIOUS
<1>7. /\ \E S : a \in Seq(S)
      /\ z \in Nat \ {0} /\ DOMAIN l.answers = 1 .. z /\ DOMAIN a = 1 .. (z - 1)
      /\ m = l.answers[1]
      /\ \A i \in DOMAIN a : i + 1 \in DOMAIN l.answers /\ a[i] = l.answers[i + 1]
      /\ \A i \in DOMAIN l.answers : i # 1 => i - 1 \in DOMAIN a /\ a[i - 1] = l.answers[i]
  <2>1. (\E S : l.answers \in Seq(S)) /\ l.answers # <<>>
    BY DEF LinkOK
  <2> QED BY ONLY <1>1, <1>2, <1>6, <2>1, RestIs
<1>8. ASSUME NEW j, NEW n \in Nat, Comes(l, d, j, n + 1)
      PROVE  Comes(k, d, j, n)
  <2>1. CASE \E i \in DOMAIN l.answers : /\ i > n + 1
                                         /\ l.answers[i].call.method = "import.finished"
                                         /\ l.answers[i].job = j
    <3>1. PICK i \in DOMAIN l.answers : /\ i > n + 1
                                        /\ l.answers[i].call.method = "import.finished"
                                        /\ l.answers[i].job = j
      BY <2>1
    <3>2. i # 1 /\ i - 1 > n
      BY <1>7, <3>1
    <3>3. i - 1 \in DOMAIN a /\ a[i - 1] = l.answers[i]
      BY <1>7, <3>2
    <3> QED BY <1>5, <1>8, <3>1, <3>2, <3>3 DEF Comes
  <2> QED BY <1>5, <1>8, <2>1 DEF Comes
<1>9. ASSUME NEW j, Comes(l, d, j, 0), ~(m.call.method = "import.finished" /\ m.job = j)
      PROVE  Comes(k, d, j, 0)
  <2>1. Comes(l, d, j, 1)
    BY <1>7, <1>9 DEF Comes
  <2>2. Comes(l, d, j, 0 + 1)
    BY <2>1
  <2> QED BY <1>8, <2>2
<1>10. m.call.method = "dictionaries.import" => m.job # 0 /\ Comes(k, d, m.job, 0)
  <2> HAVE m.call.method = "dictionaries.import"
  <2>1. 1 \in DOMAIN l.answers
    BY <1>7
  <2>2. m.job \in Nat \ {0} /\ Comes(l, d, m.job, 1)
    BY <1>7, <2>1 DEF LinkOK
  <2>3. Comes(l, d, m.job, 0 + 1)
    BY <2>2
  <2> QED BY <1>8, <2>2, <2>3
<1>11. LinkOK(k, d)
  <2>1. ASSUME NEW i \in DOMAIN a, a[i].call.method = "dictionaries.import"
        PROVE  a[i].job \in Nat \ {0} /\ Comes(k, d, a[i].job, i)
    <3>1. i + 1 \in DOMAIN l.answers /\ a[i] = l.answers[i + 1] /\ i \in Nat
      BY <1>7
    <3>2. a[i].job \in Nat \ {0} /\ Comes(l, d, a[i].job, i + 1)
      BY <2>1, <3>1 DEF LinkOK
    <3> QED BY <1>8, <3>1, <3>2
  <2> QED BY <1>5, <1>7, <2>1 DEF LinkOK, Connected
<1>12. Asked(k) = Asked(l) \ {m.call}
  BY DEF Asked
<1> QED BY <1>9, <1>10, <1>11, <1>12

\* The wizard waits for no more than one answer.
LEMMA OneAsked ==
  ASSUME NEW w, NEW a, NEW D, NEW F, WizardOK(w, a, D, F), NEW call \in a
  PROVE  a = {call} /\ call.method # "import.finished" /\ w.job = 0
<1>1. \A by, method, of : Call(by, method, of).method = method
  BY DEF Call
<1> QED BY <1>1 DEF WizardOK, Resting, Listing, Beginning, Ending, Loading, Quiet

\* A message is read by who waits for it.
LEMMA ReadAnswerStep ==
  ASSUME SetupInv, ReadAnswer
  PROVE  SetupInv'
<1>n. /\ IsWizard(wizard) /\ IsLink(link) /\ IsDaemon(daemon) /\ LinkOK(link, daemon)
      /\ FlightsOK(flights) /\ DOMAIN installs = {"ocr", "translation"}
      /\ WizardOK(wizard, Asked(link), DictsOf(flights), FilesOf(flights))
      /\ wizard.job # 0 => Comes(link, daemon, wizard.job, 0)
  BY NowIs DEF SetupInv, AllOK
<1>1. PICK answer : answer = Head(link.answers)
  OBVIOUS
<1>2. PICK call : call = answer.call
  OBVIOUS
<1>3. PICK o : o = [Now EXCEPT !.l.answers = Tail(@), !.l.calls = @ \ {call}]
  OBVIOUS
<1>4. PICK k : k = [link EXCEPT !.answers = Tail(link.answers), !.calls = link.calls \ {call}]
  OBVIOUS
<1>5. /\ Connected(link) /\ link.answers # <<>> /\ installs' = installs
      /\ \/ call.method = "import.finished" /\ ImportFinished(o, answer)
         \/ call \in Pending("wizard") /\ Replied(o, call, TRUE, answer, {}) /\ UNCHANGED offers
         \/ /\ call.method # "import.finished" /\ call \notin Pending("wizard")
            /\ Becomes(o) /\ UNCHANGED <<offers, flights>>
  BY <1>1, <1>2, <1>3, Zenon DEF ReadAnswer
<1>k. /\ IsLink(k) /\ k.state = link.state /\ k.answers = Tail(link.answers)
      /\ k.calls = link.calls \ {call}
  <2>1. IsLink(link)
    BY <1>n
  <2> QED BY ONLY <1>4, <2>1 DEF IsLink
<1>6. IsNow(o) /\ o.w = wizard /\ o.l = k /\ o.d = daemon
  <2>1. o = [w |-> wizard, l |-> k, f |-> disk.files, d |-> daemon]
    <3>1. Now = [w |-> wizard, l |-> link, f |-> disk.files, d |-> daemon]
      BY NowIs
    <3> QED BY ONLY <1>3, <1>4, <3>1
  <2> QED BY <1>n, <1>k, <2>1 DEF IsNow
<1>r. /\ LinkOK(link, daemon) /\ Connected(link) /\ link.answers # <<>>
      /\ answer = Head(link.answers) /\ k.state = link.state
      /\ k.answers = Tail(link.answers) /\ k.calls = link.calls \ {answer.call}
  BY <1>1, <1>2, <1>5, <1>k, <1>n
<1>7. /\ IsLink(k) /\ LinkOK(k, daemon) /\ Asked(k) = Asked(link) \ {call}
  <2>1. LinkOK(k, daemon)
    BY ONLY <1>r, ReadIs
  <2>2. Asked(k) = Asked(link) \ {answer.call}
    BY ONLY <1>r, ReadIs
  <2> QED BY <1>2, <1>k, <2>1, <2>2
<1>8. \A j : Comes(link, daemon, j, 0) /\ ~(call.method = "import.finished" /\ answer.job = j)
               => Comes(k, daemon, j, 0)
  BY ONLY <1>2, <1>r, ReadIs
<1>9. call.method = "dictionaries.import" => answer.job # 0 /\ Comes(k, daemon, answer.job, 0)
  BY ONLY <1>2, <1>r, ReadIs
<1>10. Pending("wizard") = Asked(link)
  BY DEF Pending, Asked
<1>11. SUFFICES WizardsPart(flights', wizard', link', daemon')
  BY <1>5, <1>n DEF WizardsPart, SetupInv
<1>12. ASSUME call \notin Asked(link), ~(call.method = "import.finished" /\ answer.job = wizard.job)
       PROVE  AllOK(wizard, k, daemon, DictsOf(flights), FilesOf(flights))
  <2>1. Asked(k) = Asked(link)
    BY <1>7, <1>12
  <2> QED BY <1>7, <1>8, <1>12, <1>n, <2>1 DEF AllOK
<1>13. CASE call.method = "import.finished" /\ ImportFinished(o, answer)
  <2>1. call \notin Asked(link) /\ Asked(k) = Asked(link)
    <3>1. call \notin Asked(link)
      BY <1>13, <1>n, OneAsked
    <3> QED BY <1>7, <3>1
  <2>2. flights' = flights \cup Started(offers, 1) /\ Others(Started(offers, 1))
    BY <1>13, StartedAreOthers DEF ImportFinished
  <2>3. CASE TheWizards(wizard, answer)
    <3>1. PICK r \in ImportDone(o, ~answer.ok) : Becomes(r)
      BY <1>6, <1>13, <2>3 DEF ImportFinished
    <3>2. wizard.job # 0
      BY <2>3 DEF TheWizards
    <3> QED BY <1>6, <1>7, <1>n, <2>1, <2>2, <3>1, <3>2, ImportEndsOK
  <2>4. CASE ~TheWizards(wizard, answer)
    <3>1. wizard' = wizard /\ link' = k /\ daemon' = daemon
      BY <1>6, <1>13, <2>4 DEF ImportFinished, Becomes
    <3>2. AllOK(wizard, k, daemon, DictsOf(flights), FilesOf(flights))
      <4>1. CASE wizard.job # 0
        BY <1>12, <2>1, <2>4, <4>1 DEF TheWizards
      <4>2. CASE wizard.job = 0
        BY <1>7, <1>n, <2>1, <4>2 DEF AllOK
      <4> QED BY <4>1, <4>2
    <3>3. /\ FlightsOK(flights')
          /\ DictsOf(flights') = DictsOf(flights) /\ FilesOf(flights') = FilesOf(flights)
      BY <1>n, <2>2, OthersFly
    <3> QED BY <3>1, <3>2, <3>3 DEF WizardsPart
  <2> QED BY <2>3, <2>4
<1>14. CASE call \in Pending("wizard") /\ Replied(o, call, TRUE, answer, {})
  <2>1. Asked(link) = {call}
    BY <1>10, <1>14, <1>n, OneAsked
  <2>2. Asked(k) = {}
    BY <1>7, <2>1
  <2>3. Others({}) /\ call \in Asked(link)
    BY <2>1 DEF Others
  <2> QED BY <1>6, <1>7, <1>9, <1>14, <1>n, <2>2, <2>3, RepliedOK
<1>15. CASE /\ call.method # "import.finished" /\ call \notin Pending("wizard")
            /\ Becomes(o) /\ UNCHANGED <<offers, flights>>
  <2>1. wizard' = wizard /\ link' = k /\ daemon' = daemon /\ flights' = flights
    BY <1>6, <1>15 DEF Becomes
  <2> QED BY <1>10, <1>12, <1>15, <1>n, <2>1 DEF WizardsPart
<1> QED BY <1>5, <1>13, <1>14, <1>15

\* A call is given up,
LEMMA CallTimesOutStep ==
  ASSUME SetupInv, CallTimesOut
  PROVE  SetupInv'
<1>n. /\ IsWizard(wizard) /\ IsLink(link) /\ IsDaemon(daemon) /\ LinkOK(link, daemon)
      /\ FlightsOK(flights) /\ DOMAIN installs = {"ocr", "translation"}
      /\ WizardOK(wizard, Asked(link), DictsOf(flights), FilesOf(flights))
      /\ wizard.job # 0 => Comes(link, daemon, wizard.job, 0)
  BY NowIs DEF SetupInv, AllOK
<1>1. PICK call, o :
        /\ call \in Pending("wizard") \cup Pending("page")
        /\ o = [Now EXCEPT !.l.calls = @ \ {call}]
        /\ IF call.by = "wizard" THEN Replied(o, call, FALSE, NoReply, {}) /\ UNCHANGED offers
           ELSE /\ offers' = NextDownloads(offers, 1)
                /\ flights' = flights \cup Started(offers, 1)
                /\ Becomes(o)
  BY Zenon DEF CallTimesOut
<1>2. installs' = installs
  BY DEF CallTimesOut
<1>3. PICK k : k = [link EXCEPT !.calls = link.calls \ {call}]
  OBVIOUS
<1>4. /\ IsLink(k) /\ k.state = link.state /\ k.answers = link.answers
      /\ k.calls = link.calls \ {call}
  <2>1. IsLink(link)
    BY <1>n
  <2> QED BY ONLY <1>3, <2>1 DEF IsLink
<1>5. IsNow(o) /\ o.w = wizard /\ o.l = k /\ o.d = daemon
  <2>1. o = [w |-> wizard, l |-> k, f |-> disk.files, d |-> daemon]
    <3>1. Now = [w |-> wizard, l |-> link, f |-> disk.files, d |-> daemon]
      BY NowIs
    <3>2. o = [Now EXCEPT !.l.calls = @ \ {call}]
      BY <1>1
    <3> QED BY ONLY <1>3, <3>1, <3>2
  <2> QED BY <1>n, <1>4, <2>1 DEF IsNow
<1>6. /\ LinkOK(k, daemon)
      /\ \A j, n : Comes(link, daemon, j, n) => Comes(k, daemon, j, n)
  <2>1. \A j, n : Comes(link, daemon, j, n) => Comes(k, daemon, j, n)
    BY <1>4 DEF Comes
  <2> QED BY <1>n, <1>4, <2>1 DEF LinkOK
<1>7. SUFFICES WizardsPart(flights', wizard', link', daemon')
  BY <1>2, <1>n DEF WizardsPart, SetupInv
<1>8. CASE call.by = "wizard"
  <2>1. call \in Asked(link)
    BY <1>1, <1>8 DEF Pending, Asked
  <2>2. Asked(link) = {call}
    BY <1>n, <2>1, OneAsked
  <2>3. Asked(k) = {}
    BY <1>4, <2>2 DEF Asked
  <2>4. Others({})
    BY DEF Others
  <2>5. Replied(o, call, FALSE, NoReply, {})
    BY <1>1, <1>8
  <2> QED BY <1>5, <1>6, <1>n, <2>1, <2>3, <2>4, <2>5, RepliedOK
<1>9. CASE call.by # "wizard"
  <2>1. Asked(k) = Asked(link)
    BY <1>4, <1>9 DEF Asked
  <2>2. AllOK(wizard, k, daemon, DictsOf(flights), FilesOf(flights))
    BY <1>4, <1>6, <1>n, <2>1 DEF AllOK
  <2>3. /\ flights' = flights \cup Started(offers, 1)
        /\ wizard' = wizard /\ link' = k /\ daemon' = daemon
    BY <1>1, <1>5, <1>9 DEF Becomes
  <2>4. /\ FlightsOK(flights')
        /\ DictsOf(flights') = DictsOf(flights) /\ FilesOf(flights') = FilesOf(flights)
    BY <1>n, <2>3, StartedAreOthers, OthersFly
  <2> QED BY <2>2, <2>3, <2>4 DEF WizardsPart
<1> QED BY <1>8, <1>9

\* and all of them when the connection is over; then nothing of it is to be read any more.
LEMMA DisconnectedStep ==
  ASSUME SetupInv, Disconnected
  PROVE  SetupInv'
<1>n. /\ IsWizard(wizard) /\ IsLink(link) /\ IsDaemon(daemon) /\ LinkOK(link, daemon)
      /\ FlightsOK(flights) /\ DOMAIN installs = {"ocr", "translation"}
      /\ WizardOK(wizard, Asked(link), DictsOf(flights), FilesOf(flights))
  BY NowIs DEF SetupInv, AllOK
<1>1. PICK n, o :
        /\ o = [Now EXCEPT !.l.state = "down", !.l.calls = {}]
        /\ IF Pending("wizard") # {}
           THEN \E call \in Pending("wizard") : Replied(o, call, FALSE, NoReply, Started(offers, n))
           ELSE HandleDisconnected(o, Started(offers, n))
  BY Zenon DEF Disconnected
<1>2. installs' = installs /\ link.state = "closed" /\ link.answers = <<>>
  BY DEF Disconnected
<1>3. PICK k : k = [link EXCEPT !.state = "down", !.calls = {}]
  OBVIOUS
<1>4. IsLink(k) /\ k.state = "down" /\ k.answers = <<>> /\ k.calls = {}
  <2>1. IsLink(link)
    BY <1>n
  <2> QED BY ONLY <1>2, <1>3, <2>1 DEF IsLink
<1>5. IsNow(o) /\ o.w = wizard /\ o.l = k /\ o.d = daemon
  <2>1. o = [w |-> wizard, l |-> k, f |-> disk.files, d |-> daemon]
    <3>1. Now = [w |-> wizard, l |-> link, f |-> disk.files, d |-> daemon]
      BY NowIs
    <3>2. o = [Now EXCEPT !.l.state = "down", !.l.calls = {}]
      BY <1>1
    <3> QED BY ONLY <1>3, <3>1, <3>2
  <2> QED BY <1>n, <1>4, <2>1 DEF IsNow
<1>6. LinkOK(k, daemon) /\ Asked(k) = {}
  <2>1. Asked(k) = {}
    BY <1>4 DEF Asked
  <2>2. (\E S : k.answers \in Seq(S)) /\ DOMAIN k.answers = {}
    BY <1>2, <1>4, <1>n DEF LinkOK
  <2> QED BY <1>4, <1>n, <2>1, <2>2 DEF LinkOK
<1>7. SUFFICES WizardsPart(flights', wizard', link', daemon')
  BY <1>2, <1>n DEF WizardsPart, SetupInv
<1>8. PICK others : others = Started(offers, n) /\ Others(others)
  BY StartedAreOthers
<1>9. Pending("wizard") = Asked(link)
  BY DEF Pending, Asked
<1>10. CASE Asked(link) # {}
  <2>1. PICK call \in Asked(link) : Replied(o, call, FALSE, NoReply, others)
    BY <1>1, <1>8, <1>9, <1>10
  <2> QED BY <1>5, <1>6, <1>8, <1>n, <2>1, RepliedOK
<1>11. CASE Asked(link) = {}
  <2>1. HandleDisconnected(o, others)
    BY <1>1, <1>8, <1>9, <1>11
  <2>2. flights' = flights \cup others
    BY <2>1 DEF HandleDisconnected
  <2>3. CASE wizard.job # 0
    <3>1. PICK r \in ImportDone(o, TRUE) : Becomes(r)
      BY <1>5, <2>1, <2>3 DEF HandleDisconnected
    <3>2. WizardOK(o.w, Asked(o.l), DictsOf(flights), FilesOf(flights))
      BY <1>5, <1>6, <1>11, <1>n
    <3> QED BY <1>5, <1>6, <1>8, <1>n, <2>2, <2>3, <3>1, <3>2, ImportEndsOK
  <2>4. CASE wizard.job = 0
    <3>1. wizard' = wizard /\ link' = k /\ daemon' = daemon
      BY <1>5, <2>1, <2>4 DEF HandleDisconnected, Becomes
    <3>2. AllOK(wizard, k, daemon, DictsOf(flights), FilesOf(flights))
      BY <1>4, <1>6, <1>11, <1>n, <2>4 DEF AllOK
    <3>3. /\ FlightsOK(flights')
          /\ DictsOf(flights') = DictsOf(flights) /\ FilesOf(flights') = FilesOf(flights)
      BY <1>8, <1>n, <2>2, OthersFly
    <3> QED BY <3>1, <3>2, <3>3 DEF WizardsPart
  <2> QED BY <2>3, <2>4
<1> QED BY <1>10, <1>11

-----------------------------------------------------------------------------
\* Nothing was begun at first,
LEMMA SetupInvInit == SetupInit => SetupInv
<1> SUFFICES ASSUME SetupInit PROVE SetupInv
  OBVIOUS
<1>1. /\ flights = {} /\ installs = [who \in {"ocr", "translation"} |-> Idle]
      /\ daemon = [state |-> "up", jobs |-> <<>>, next |-> 1, starting |-> FALSE]
      /\ link = [state |-> "up", requests |-> <<>>, answers |-> <<>>, calls |-> {}]
  BY DEF SetupInit
<1>2. wizard \in [page : {"languages"}, reinstall : BOOLEAN, installing : {FALSE}, queue : {<<>>},
                 importing : {FALSE}, job : {0}, downloads : {0}, imports : {0}, others : {0},
                 failed : {FALSE}, unpack : {FALSE}, redist : {FALSE}, finishing : {FALSE},
                 stage : {"none"}]
  BY DEF SetupInit
<1>3. /\ wizard = [page |-> wizard.page, reinstall |-> wizard.reinstall,
                   installing |-> wizard.installing, queue |-> wizard.queue,
                   importing |-> wizard.importing, job |-> wizard.job,
                   downloads |-> wizard.downloads, imports |-> wizard.imports,
                   others |-> wizard.others, failed |-> wizard.failed, unpack |-> wizard.unpack,
                   redist |-> wizard.redist, finishing |-> wizard.finishing,
                   stage |-> wizard.stage]
      /\ wizard.page = "languages" /\ wizard.installing = FALSE /\ wizard.queue = <<>>
      /\ wizard.importing = FALSE /\ wizard.job = 0 /\ wizard.downloads = 0 /\ wizard.imports = 0
      /\ wizard.others = 0 /\ wizard.finishing = FALSE /\ wizard.stage = "none"
  BY ONLY <1>2
<1>4. IsWizard(wizard)
  <2>1. <<>> \in Seq(Wanted)
    OBVIOUS
  <2> QED BY ONLY <1>3, <2>1 DEF IsWizard
<1>5. /\ IsLink(link) /\ link.state = "up" /\ link.answers = <<>> /\ Asked(link) = {}
  BY <1>1 DEF IsLink, Asked
<1>6. IsDaemon(daemon) /\ daemon.state = "up" /\ daemon.jobs = <<>> /\ daemon.next = 1
  BY <1>1 DEF IsDaemon
<1>7. LinkOK(link, daemon)
  <2>1. <<>> \in Seq({}) /\ DOMAIN <<>> = {}
    OBVIOUS
  <2> QED BY <1>5, <1>6, <2>1 DEF LinkOK
<1>8. FlightsOK(flights) /\ DictsOf(flights) = {} /\ FilesOf(flights) = {}
  BY <1>1 DEF FlightsOK, DictsOf, FilesOf
<1>9. Resting(wizard, {}, {}, {})
  BY <1>3 DEF Resting, Quiet
<1>10. DOMAIN installs = {"ocr", "translation"}
  BY <1>1
<1> QED BY <1>3, <1>4, <1>5, <1>6, <1>7, <1>8, <1>9, <1>10 DEF SetupInv, AllOK, WizardOK

\* and every step keeps where an install is.
LEMMA SetupInvStep == SetupInv /\ [SetupNext]_setupVars => SetupInv'
<1> SUFFICES ASSUME SetupInv, [SetupNext]_setupVars PROVE SetupInv'
  OBVIOUS
<1>1. ASSUME NEW who \in DOMAIN installs, Install(who) PROVE SetupInv'
  BY <1>1, InstallStep
<1>2. CASE StartInstall
  BY <1>2, StartInstallStep
<1>3. CASE Unpack
  BY <1>3, UnpackStep
<1>4. CASE RedistRuns
  BY <1>4, RedistRunsStep
<1>5. CASE EnqueueDownload
  BY <1>5, EnqueueDownloadStep
<1>6. CASE DownloadEnds
  BY <1>6, DownloadEndsStep
<1>7. CASE DaemonAnswers
  BY <1>7, DaemonAnswersStep
<1>8. CASE DaemonImports
  BY <1>8, DaemonImportsStep
<1>9. CASE DaemonEnds
  BY <1>9, DaemonEndsStep
<1>10. CASE DaemonStarts
  BY <1>10, DaemonStartsStep
<1>11. CASE LinkUp
  BY <1>11, LinkUpStep
<1>12. CASE ReadAnswer
  BY <1>12, ReadAnswerStep
<1>13. CASE CallTimesOut
  BY <1>13, CallTimesOutStep
<1>14. CASE Disconnected
  BY <1>14, DisconnectedStep
<1>15. CASE UNCHANGED setupVars
  BY <1>15 DEF setupVars, SetupInv
<1> QED BY <1>1, <1>2, <1>3, <1>4, <1>5, <1>6, <1>7, <1>8, <1>9, <1>10, <1>11, <1>12, <1>13,
           <1>14, <1>15 DEF SetupNext

\* The setup wizard never waits for what cannot come: while it installs, a download, the answer
\* to a call, an installer, a timer or the end of an import is on its way to it, or the end of
\* the connection it would hear of the import on (SetupWizard, InstallBatch, DaemonClient).
THEOREM SetupGoesOn == SetupSpec => []SetupNeverStuck
<1>1. SetupInv /\ [SetupNext]_setupVars => SetupInv'
  BY SetupInvStep
<1> QED BY <1>1, SetupInvInit, InvNeverStuck, PTL DEF SetupSpec

-----------------------------------------------------------------------------
(* What it says when it is done.                                           *)

\* What stays on the disk once it is there, and is needed.
Stays == {"ocr", "library"}

\* An import the wizard asks for. Of those whose answer it has not read there is one at most, q are
\* the requests, a the answers.
Mine(c) == c.by = "wizard" /\ c.method = "dictionaries.import"
NoneMine(q, a) ==
  /\ \A i \in DOMAIN q : ~Mine(q[i])
  /\ \A i \in DOMAIN a : ~Mine(a[i].call)
OneMine(q, a) ==
  /\ \A i, j \in DOMAIN q : Mine(q[i]) /\ Mine(q[j]) => i = j
  /\ \A i, j \in DOMAIN a : Mine(a[i].call) /\ Mine(a[j].call) => i = j
  /\ \A i \in DOMAIN q, j \in DOMAIN a : ~(Mine(q[i]) /\ Mine(a[j].call))

\* The import of a number is that of t, and well done only when t is installed.
Leads(a, jobs, inst, j, t) ==
  /\ \A i \in DOMAIN jobs : jobs[i].id = j => jobs[i].file = t
  /\ \A i \in DOMAIN a :
       a[i].call.method = "import.finished" /\ a[i].job = j /\ a[i].ok => t \in inst

\* The wizard imports t: it knows the number of the import, or will be told.
Imports(job, q, a, jobs, inst, t) ==
  IF job # 0 THEN NoneMine(q, a) /\ Leads(a, jobs, inst, job, t)
  ELSE /\ OneMine(q, a)
       /\ \A i \in DOMAIN q : Mine(q[i]) => q[i].of = t
       /\ \A i \in DOMAIN a : Mine(a[i].call) => Leads(a, jobs, inst, a[i].job, t)

\* Another call of somebody,
LEMMA OtherIsAsked ==
  ASSUME NEW q, \E S : q \in Seq(S), NEW c, ~Mine(c), NEW b, b = Append(q, c), NEW a
  PROVE  /\ NoneMine(q, a) => NoneMine(b, a)
         /\ \A job, jobs, inst, t :
              Imports(job, q, a, jobs, inst, t) => Imports(job, b, a, jobs, inst, t)
<1>1. /\ DOMAIN q = 1 .. Len(q) /\ Len(q) \in Nat /\ DOMAIN b = 1 .. (Len(q) + 1)
      /\ \A i \in DOMAIN q : i \in DOMAIN b /\ b[i] = q[i]
      /\ b[Len(q) + 1] = c
  BY AddedIs
<1>2. \A i \in DOMAIN b : Mine(b[i]) => i \in DOMAIN q /\ b[i] = q[i]
  <2> SUFFICES ASSUME NEW i \in DOMAIN b, Mine(b[i]) PROVE i \in DOMAIN q /\ b[i] = q[i]
    OBVIOUS
  <2>1. i # Len(q) + 1
    BY <1>1
  <2> QED BY <1>1, <2>1
<1>3. NoneMine(q, a) => NoneMine(b, a)
  BY ONLY <1>2 DEF NoneMine
<1>4. OneMine(q, a) => OneMine(b, a)
  BY ONLY <1>2 DEF OneMine
<1> QED BY ONLY <1>2, <1>3, <1>4 DEF Imports

\* or the wizard's, when none was under way.
LEMMA MineIsAsked ==
  ASSUME NEW q, \E S : q \in Seq(S), NEW c, NEW b, b = Append(q, c), NEW a, NoneMine(q, a),
         NEW jobs, NEW inst
  PROVE  Imports(0, b, a, jobs, inst, c.of)
<1>1. /\ DOMAIN q = 1 .. Len(q) /\ Len(q) \in Nat /\ DOMAIN b = 1 .. (Len(q) + 1)
      /\ \A i \in DOMAIN q : i \in DOMAIN b /\ b[i] = q[i]
      /\ b[Len(q) + 1] = c
  BY AddedIs
<1>2. \A i \in DOMAIN b : Mine(b[i]) => i = Len(q) + 1
  <2> SUFFICES ASSUME NEW i \in DOMAIN b, Mine(b[i]), i # Len(q) + 1 PROVE FALSE
    OBVIOUS
  <2>1. i \in DOMAIN q /\ b[i] = q[i]
    BY <1>1
  <2> QED BY <2>1 DEF NoneMine
<1>3. \A i \in DOMAIN a : ~Mine(a[i].call)
  BY DEF NoneMine
<1>4. \A i \in DOMAIN b : Mine(b[i]) => b[i].of = c.of
  BY <1>1, <1>2
<1> QED BY ONLY <1>2, <1>3, <1>4 DEF Imports, OneMine

\* One message more, and an answer instead of a request.
Tells(a, m, b) == b = Append(a, m) /\ ~Mine(m.call)
Answered(q, a, m, r, b) ==
  /\ (\E S : q \in Seq(S)) /\ q # <<>> /\ \E S : a \in Seq(S)
  /\ r = Tail(q) /\ m.call = Head(q) /\ b = Append(a, m)

\* A message that is none of the wizard's answers.
LEMMA OtherIsTold ==
  ASSUME NEW a, \E S : a \in Seq(S), NEW m, NEW b, Tells(a, m, b), NEW q
  PROVE  /\ NoneMine(q, a) => NoneMine(q, b)
         /\ OneMine(q, a) => OneMine(q, b)
         /\ \A i \in DOMAIN b : Mine(b[i].call) => i \in DOMAIN a /\ b[i] = a[i]
<1>t. b = Append(a, m) /\ ~Mine(m.call)
  BY DEF Tells
<1>1. /\ DOMAIN a = 1 .. Len(a) /\ Len(a) \in Nat /\ DOMAIN b = 1 .. (Len(a) + 1)
      /\ \A i \in DOMAIN a : i \in DOMAIN b /\ b[i] = a[i]
      /\ b[Len(a) + 1] = m
  BY <1>t, AddedIs
<1>2. \A i \in DOMAIN b : Mine(b[i].call) => i \in DOMAIN a /\ b[i] = a[i]
  <2> SUFFICES ASSUME NEW i \in DOMAIN b, Mine(b[i].call) PROVE i \in DOMAIN a /\ b[i] = a[i]
    OBVIOUS
  <2>1. i # Len(a) + 1
    BY <1>1, <1>t
  <2> QED BY <1>1, <2>1
<1>3. NoneMine(q, a) => NoneMine(q, b)
  BY ONLY <1>2 DEF NoneMine
<1>4. OneMine(q, a) => OneMine(q, b)
  BY ONLY <1>2 DEF OneMine
<1> QED BY <1>2, <1>3, <1>4

\* A request of which the answer is told.
LEMMA AnswerIsTold ==
  ASSUME NEW q, NEW a, NEW m, NEW r, NEW b, Answered(q, a, m, r, b)
  PROVE  /\ NoneMine(q, a) => NoneMine(r, b)
         /\ OneMine(q, a) => OneMine(r, b)
         /\ OneMine(q, a) /\ Mine(m.call) =>
              (\A i \in DOMAIN r : ~Mine(r[i])) /\ (\A i \in DOMAIN a : ~Mine(a[i].call))
         /\ \A i \in DOMAIN r : \E j \in DOMAIN q : r[i] = q[j]
         /\ \A i \in DOMAIN b : (i \in DOMAIN a /\ b[i] = a[i]) \/ b[i] = m
<1>t. /\ (\E S : q \in Seq(S)) /\ q # <<>> /\ \E S : a \in Seq(S)
      /\ r = Tail(q) /\ m.call = Head(q) /\ b = Append(a, m)
  BY DEF Answered
<1>1. /\ DOMAIN a = 1 .. Len(a) /\ Len(a) \in Nat /\ DOMAIN b = 1 .. (Len(a) + 1)
      /\ \A i \in DOMAIN a : i \in DOMAIN b /\ b[i] = a[i]
      /\ b[Len(a) + 1] = m
  BY <1>t, AddedIs
<1>2. /\ Len(q) \in Nat \ {0} /\ DOMAIN q = 1 .. Len(q) /\ DOMAIN r = 1 .. (Len(q) - 1)
      /\ Head(q) = q[1]
      /\ \A i \in DOMAIN r : i + 1 \in DOMAIN q /\ r[i] = q[i + 1]
  BY <1>t, RestIs
<1>3. \A i \in DOMAIN b : i \in DOMAIN a \/ i = Len(a) + 1
  BY ONLY <1>1
<1>4. 1 \in DOMAIN q /\ m.call = q[1]
  BY <1>2, <1>t
<1>5. \A i \in DOMAIN r : i \in Nat /\ i + 1 # 1
  BY ONLY <1>2
<1>6. NoneMine(q, a) => NoneMine(r, b)
  BY ONLY <1>1, <1>2, <1>3, <1>4 DEF NoneMine
<1>7. OneMine(q, a) /\ Mine(m.call) =>
        (\A i \in DOMAIN r : ~Mine(r[i])) /\ (\A i \in DOMAIN a : ~Mine(a[i].call))
  BY ONLY <1>2, <1>4, <1>5 DEF OneMine
<1>8. OneMine(q, a) => OneMine(r, b)
  <2> SUFFICES ASSUME OneMine(q, a) PROVE OneMine(r, b)
    OBVIOUS
  <2>1. \A i, j \in DOMAIN r : Mine(r[i]) /\ Mine(r[j]) => i = j
    <3> SUFFICES ASSUME NEW i \in DOMAIN r, NEW j \in DOMAIN r, Mine(r[i]), Mine(r[j]) PROVE i = j
      OBVIOUS
    <3>1. i + 1 = j + 1
      BY ONLY <1>2, OneMine(q, a), i \in DOMAIN r, j \in DOMAIN r, Mine(r[i]), Mine(r[j]) DEF OneMine
    <3> QED BY ONLY <1>5, <3>1, i \in DOMAIN r, j \in DOMAIN r
  <2>2. CASE Mine(m.call)
    <3>1. \A i \in DOMAIN b : Mine(b[i].call) => i = Len(a) + 1
      BY <1>1, <1>3, <1>7, <2>2
    <3> QED BY ONLY <1>7, <2>1, <2>2, <3>1, OneMine(q, a) DEF OneMine
  <2>3. CASE ~Mine(m.call)
    <3>1. \A i \in DOMAIN b : Mine(b[i].call) => i \in DOMAIN a /\ b[i] = a[i]
      BY <1>1, <1>3, <2>3
    <3> QED BY ONLY <1>2, <2>1, <3>1, OneMine(q, a) DEF OneMine
  <2> QED BY <2>2, <2>3
<1>9. \A i \in DOMAIN r : \E j \in DOMAIN q : r[i] = q[j]
  BY ONLY <1>2
<1>10. \A i \in DOMAIN b : (i \in DOMAIN a /\ b[i] = a[i]) \/ b[i] = m
  BY ONLY <1>1, <1>3
<1> QED BY <1>6, <1>7, <1>8, <1>9, <1>10

\* A message that is read.
LEMMA MineIsRead ==
  ASSUME NEW a, \E S : a \in Seq(S), a # <<>>, NEW b, b = Tail(a), NEW m, m = Head(a), NEW q
  PROVE  /\ NoneMine(q, a) => NoneMine(q, b)
         /\ \A jobs, inst, j, t : Leads(a, jobs, inst, j, t) => Leads(b, jobs, inst, j, t)
         /\ \A job, jobs, inst, t :
              Imports(job, q, a, jobs, inst, t) => Imports(job, q, b, jobs, inst, t)
         /\ \A jobs, inst, t : Imports(0, q, a, jobs, inst, t) /\ Mine(m.call) /\ m.job # 0 =>
              Imports(m.job, q, b, jobs, inst, t)
<1>1. /\ Len(a) \in Nat \ {0} /\ DOMAIN a = 1 .. Len(a) /\ DOMAIN b = 1 .. (Len(a) - 1)
      /\ Head(a) = a[1]
      /\ \A i \in DOMAIN b : i + 1 \in DOMAIN a /\ b[i] = a[i + 1]
  BY RestIs
<1>2. 1 \in DOMAIN a /\ m = a[1] /\ \A i \in DOMAIN b : i \in Nat /\ i + 1 # 1
  BY <1>1
<1>3. NoneMine(q, a) => NoneMine(q, b)
  BY ONLY <1>1 DEF NoneMine
<1>4. \A jobs, inst, j, t : Leads(a, jobs, inst, j, t) => Leads(b, jobs, inst, j, t)
  BY ONLY <1>1 DEF Leads
<1>5. OneMine(q, a) => OneMine(q, b)
  <2> SUFFICES ASSUME OneMine(q, a) PROVE OneMine(q, b)
    OBVIOUS
  <2>1. \A i, j \in DOMAIN b : Mine(b[i].call) /\ Mine(b[j].call) => i = j
    <3> SUFFICES ASSUME NEW i \in DOMAIN b, NEW j \in DOMAIN b, Mine(b[i].call), Mine(b[j].call)
                 PROVE  i = j
      OBVIOUS
    <3>1. i + 1 = j + 1
      BY ONLY <1>1, OneMine(q, a), i \in DOMAIN b, j \in DOMAIN b, Mine(b[i].call), Mine(b[j].call)
         DEF OneMine
    <3> QED BY ONLY <1>2, <3>1, i \in DOMAIN b, j \in DOMAIN b
  <2> QED BY ONLY <1>1, <2>1, OneMine(q, a) DEF OneMine
<1>6. OneMine(q, a) /\ Mine(m.call) => NoneMine(q, b)
  BY ONLY <1>1, <1>2 DEF OneMine, NoneMine
<1>7. ASSUME NEW job, NEW jobs, NEW inst, NEW t, Imports(job, q, a, jobs, inst, t)
      PROVE  Imports(job, q, b, jobs, inst, t)
  BY ONLY <1>1, <1>3, <1>4, <1>5, <1>7 DEF Imports
<1>8. ASSUME NEW jobs, NEW inst, NEW t, Imports(0, q, a, jobs, inst, t), Mine(m.call), m.job # 0
      PROVE  Imports(m.job, q, b, jobs, inst, t)
  BY ONLY <1>2, <1>4, <1>6, <1>8 DEF Imports
<1> QED BY <1>3, <1>4, <1>7, <1>8

-----------------------------------------------------------------------------
\* inst is what is installed, f are the files, D and F what still comes for the wizard.
InQueue(w) == {w.queue[i] : i \in DOMAIN w.queue}
AllThere(f, inst) == Wanted \subseteq inst /\ Stays \subseteq f

\* Nothing failed: each dictionary is installed, comes, waits or is imported now.
Accounted(w, q, a, jobs, f, inst, D, F) ==
  /\ "ocr" \in f \cup F
  /\ ~w.unpack => "library" \in f
  /\ IF w.importing
     THEN \E t \in Wanted : /\ Imports(w.job, q, a, jobs, inst, t)
                            /\ Wanted \ {t} \subseteq inst \cup D \cup InQueue(w)
     ELSE NoneMine(q, a) /\ Wanted \subseteq inst \cup D \cup InQueue(w)

\* What is on the way to the daemon, and who waits for it.
LineOK(l) ==
  /\ \E S : l.requests \in Seq(S)
  /\ \A i \in DOMAIN l.requests :
       l.requests[i].method = "dictionaries.import" => l.requests[i].of \notin Stays
  /\ IsFiniteSet(l.calls)

Done(w, l, d, f, inst, D, F) ==
  /\ LineOK(l)
  /\ w.page = "done" => AllThere(f, inst)
  /\ w.page = "languages" \/ w.stage = "list" => ~w.failed /\ NoneMine(l.requests, l.answers)
  /\ w.installing /\ w.finishing =>
       /\ Wanted \subseteq inst /\ "ocr" \in f
       /\ w.stage \in {"redist", "reset"} => "library" \in f
  /\ w.installing /\ ~w.finishing /\ w.stage = "none" /\ ~w.failed =>
       Accounted(w, l.requests, l.answers, d.jobs, f, inst, D, F)
DoneBy(r, inst, D, F) == Done(r.w, r.l, r.d, r.f, inst, D, F)

\* Another call that waits.
LEMMA CalledLine ==
  ASSUME NEW l, IsLink(l), LineOK(l), NEW call,
         call.method = "dictionaries.import" => call.of \notin Stays
  PROVE  /\ LineOK(Called(l, call)) /\ Called(l, call).answers = l.answers
         /\ Called(l, call).requests \in {l.requests, Append(l.requests, call)}
<1>1. PICK m : m = Called(l, call)
  OBVIOUS
<1>2. PICK q : q = IF l.state = "up" THEN Append(l.requests, call) ELSE l.requests
  OBVIOUS
<1>3. m = [l EXCEPT !.calls = l.calls \cup {call}, !.requests = q]
  BY <1>1, <1>2 DEF Called, IsLink
<1>4. m.requests = q /\ m.answers = l.answers /\ m.calls = l.calls \cup {call}
  BY ONLY <1>3, IsLink(l) DEF IsLink
<1>5. q \in {l.requests, Append(l.requests, call)}
  BY <1>2
<1>6. IsFiniteSet(m.calls)
  <2>1. IsFiniteSet(l.calls) /\ IsFiniteSet({call})
    BY FS_Singleton DEF LineOK
  <2>2. IsFiniteSet(l.calls \cup {call})
    BY ONLY <2>1, FS_Union
  <2> QED BY <1>4, <2>2
<1>7. /\ \E S : q \in Seq(S)
      /\ \A i \in DOMAIN q : q[i].method = "dictionaries.import" => q[i].of \notin Stays
  <2>1. CASE q = l.requests
    BY <2>1 DEF LineOK
  <2>2. CASE q = Append(l.requests, call)
    <3>1. \E S : l.requests \in Seq(S)
      BY DEF LineOK
    <3>2. /\ \E S : q \in Seq(S)
          /\ DOMAIN l.requests = 1 .. Len(l.requests) /\ Len(l.requests) \in Nat
          /\ DOMAIN q = 1 .. (Len(l.requests) + 1)
          /\ \A i \in DOMAIN l.requests : i \in DOMAIN q /\ q[i] = l.requests[i]
          /\ q[Len(l.requests) + 1] = call
      BY ONLY <2>2, <3>1, AddedIs
    <3>3. \A i \in DOMAIN q : (i \in DOMAIN l.requests /\ q[i] = l.requests[i]) \/ q[i] = call
      BY ONLY <3>2
    <3> QED BY <3>2, <3>3 DEF LineOK
  <2> QED BY <1>5, <2>1, <2>2
<1> QED BY <1>1, <1>4, <1>5, <1>6, <1>7 DEF LineOK

\* An install that ends as it should has all there is.
LEMMA FinishDone ==
  ASSUME NEW o, IsNow(o), LineOK(o.l), NEW inst, NEW failed, ~failed => AllThere(o.f, inst),
         NEW r, r = FinishInstall(o, failed), NEW D, NEW F
  PROVE  DoneBy(r, inst, D, F)
<1>1. o = [w |-> o.w, l |-> o.l, f |-> o.f, d |-> o.d] /\ IsWizard(o.w)
  BY DEF IsNow
<1>2. PICK page : page = IF failed THEN "failed" ELSE "done"
  OBVIOUS
<1>3. r = [w |-> [o.w EXCEPT !.installing = FALSE, !.stage = "none", !.page = page],
           l |-> o.l, f |-> o.f, d |-> o.d]
  BY <1>1, <1>2 DEF FinishInstall
<1>4. r.w = [o.w EXCEPT !.installing = FALSE, !.stage = "none", !.page = page]
      /\ r.l = o.l /\ r.f = o.f
  BY ONLY <1>3
<1>5. r.w.installing = FALSE /\ r.w.stage = "none" /\ r.w.page = page
  BY ONLY <1>1, <1>4 DEF IsWizard
<1>6. page # "languages" /\ (page = "done" => ~failed)
  BY <1>2
<1> QED BY <1>4, <1>5, <1>6 DEF DoneBy, Done

\* One that still waits does for what is there.
LEMMA OverDone ==
  ASSUME NEW r, Over(r.w), r.w.stage # "list", LineOK(r.l), NEW inst, Wanted \subseteq inst,
         "ocr" \in r.f, r.w.stage \in {"redist", "reset"} => "library" \in r.f, NEW D, NEW F
  PROVE  DoneBy(r, inst, D, F)
BY DEF Over, DoneBy, Done

\* After the runtime it is there, or the install failed.
LEMMA AfterRuntimeDone ==
  ASSUME NEW o, IsNow(o), Over(o.w), LineOK(o.l), NEW inst, NEW failed,
         ~failed => AllThere(o.f, inst), NEW r, r = AfterRuntime(o, failed), NEW D, NEW F
  PROVE  DoneBy(r, inst, D, F)
<1>o. /\ o = [w |-> o.w, l |-> o.l, f |-> o.f, d |-> o.d]
      /\ IsWizard(o.w) /\ IsLink(o.l) /\ IsDaemon(o.d)
  BY DEF IsNow
<1>1. CASE failed
  <2>1. PICK p : p = [o EXCEPT !.f = @ \ (IF o.w.redist THEN {"redist"} ELSE {})]
    OBVIOUS
  <2>2. IsNow(p) /\ p.l = o.l
    BY ONLY <2>1, IsNow(o) DEF IsNow
  <2>3. r = FinishInstall(p, TRUE)
    BY <1>1, <2>1 DEF AfterRuntime
  <2>4. LineOK(p.l) /\ (~TRUE => AllThere(p.f, inst))
    BY <2>2
  <2> QED BY ONLY <2>2, <2>3, <2>4, FinishDone
<1>w. ASSUME NEW s \in {"redist", "reset"}, r.w = [o.w EXCEPT !.stage = s], r.f = o.f, LineOK(r.l),
             ~failed
      PROVE  DoneBy(r, inst, D, F)
  <2>1. Over(r.w) /\ r.w.stage = s
    <3>1. /\ Same(r.w, o.w) /\ r.w.stage = s
          /\ r.w.installing = o.w.installing /\ r.w.page = o.w.page
          /\ r.w.finishing = o.w.finishing
      BY <1>o, <1>w, StageIs
    <3> QED BY <3>1, SameQuiet DEF Over
  <2>2. /\ Wanted \subseteq inst /\ "ocr" \in r.f /\ "library" \in r.f
        /\ r.w.stage # "list" /\ LineOK(r.l)
    BY <1>w, <2>1 DEF AllThere, Stays
  <2> QED BY ONLY <2>1, <2>2, OverDone
<1>2. CASE ~failed /\ o.w.redist
  <2>1. r = [o EXCEPT !.w.stage = "redist"]
    BY <1>2 DEF AfterRuntime
  <2>2. r.w = [o.w EXCEPT !.stage = "redist"] /\ r.l = o.l /\ r.f = o.f
    BY ONLY <2>1, <1>o
  <2> QED BY <1>2, <1>w, <2>2
<1>3. CASE ~failed /\ ~o.w.redist /\ ~Connected(o.l)
  <2>1. PICK p : p = [o EXCEPT !.d.starting = TRUE]
    OBVIOUS
  <2>2. PICK d : d = [o.d EXCEPT !.starting = TRUE]
    OBVIOUS
  <2>3. p = [w |-> o.w, l |-> o.l, f |-> o.f, d |-> d]
    BY ONLY <2>1, <2>2, <1>o
  <2>4. IsDaemon(d)
    BY <1>o, <2>2, StartingIs
  <2>5. IsNow(p) /\ p.l = o.l /\ p.f = o.f
    BY <1>o, <2>3, <2>4 DEF IsNow
  <2>6. r = FinishInstall(p, FALSE)
    BY <1>3, <2>1 DEF AfterRuntime
  <2>7. LineOK(p.l) /\ AllThere(p.f, inst)
    BY <1>3, <2>5 DEF AllThere, Stays
  <2> QED BY ONLY <2>5, <2>6, <2>7, FinishDone
<1>4. CASE ~failed /\ ~o.w.redist /\ Connected(o.l)
  <2>1. PICK call : call = Call("wizard", "capture.reset", "none")
    OBVIOUS
  <2>2. PICK m : m = Called(o.l, call)
    OBVIOUS
  <2>3. r = [o EXCEPT !.w.stage = "reset", !.l = m]
    BY <1>4, <2>1, <2>2 DEF AfterRuntime
  <2>4. r.w = [o.w EXCEPT !.stage = "reset"] /\ r.l = m /\ r.f = o.f
    BY ONLY <2>3, <1>o
  <2>5. call.method # "dictionaries.import"
    BY <2>1 DEF Call
  <2>6. LineOK(m)
    BY <1>o, <2>2, <2>5, CalledLine
  <2> QED BY <1>4, <1>w, <2>4, <2>6
<1> QED BY <1>1, <1>2, <1>3, <1>4

\* Unpacking it keeps the models, and says so only when the library is there.
LEMMA UnpackRuntimeDone ==
  ASSUME NEW o, IsNow(o), Over(o.w), LineOK(o.l), NEW inst, Wanted \subseteq inst, "ocr" \in o.f,
         NEW r \in UnpackRuntime(o), NEW D, NEW F
  PROVE  DoneBy(r, inst, D, F)
<1>1. PICK u \in Unpacked(o.f) :
        r = AfterRuntime([o EXCEPT !.f = u.files],
                         ~u.ok /\ ~(o.w.reinstall /\ "library" \in u.files))
  BY DEF UnpackRuntime
<1>2. PICK p : p = [o EXCEPT !.f = u.files]
  OBVIOUS
<1>3. IsNow(p) /\ p.w = o.w /\ p.l = o.l /\ p.f = u.files
  BY ONLY <1>2, IsNow(o) DEF IsNow
<1>4. PICK failed : failed = (~u.ok /\ ~(o.w.reinstall /\ "library" \in u.files))
  OBVIOUS
<1>5. r = AfterRuntime(p, failed)
  BY <1>1, <1>2, <1>4
<1>6. "ocr" \in u.files /\ (u.ok => "library" \in u.files)
  <2>1. \/ u = [files |-> o.f, ok |-> FALSE]
        \/ u = [files |-> o.f \ {"archive"}, ok |-> FALSE]
        \/ u = [files |-> o.f \ {"archive", "library"}, ok |-> FALSE]
        \/ u = [files |-> (o.f \ {"archive"}) \cup {"library"}, ok |-> TRUE]
    BY DEF Unpacked
  <2> QED BY <2>1
<1>7. ~failed => AllThere(p.f, inst)
  BY <1>3, <1>4, <1>6 DEF AllThere, Stays
<1>8. Over(p.w) /\ LineOK(p.l)
  BY <1>3
<1> QED BY ONLY <1>3, <1>5, <1>7, <1>8, AfterRuntimeDone

\* Where the batch is loaded.
Loads(w) == w.installing /\ w.page = "install" /\ w.stage = "none" /\ ~w.finishing

\* There it is all accounted for, or it failed.
LEMMA LoadsDone ==
  ASSUME NEW r, Loads(r.w), NEW inst, NEW D, NEW F
  PROVE  DoneBy(r, inst, D, F) <=>
           /\ LineOK(r.l)
           /\ ~r.w.failed =>
                Accounted(r.w, r.l.requests, r.l.answers, r.d.jobs, r.f, inst, D, F)
BY DEF Loads, DoneBy, Done

\* What is accounted for when no import is under way.
AllIn(w, q, a, f, inst, D, F) ==
  /\ "ocr" \in f \cup F
  /\ ~w.unpack => "library" \in f
  /\ NoneMine(q, a)
  /\ Wanted \subseteq inst \cup D \cup InQueue(w)

\* A batch that waits for nothing has all of it but the runtime.
LEMMA TryFinishDone ==
  ASSUME NEW o, IsNow(o), NEW D, IsFiniteSet(D), NEW F, IsFiniteSet(F),
         Loading(o.w, Asked(o.l), D, F), Fed(o.w), NEW inst, DoneBy(o, inst, D, F),
         NEW r \in TryFinishBatch(o)
  PROVE  DoneBy(r, inst, D, F)
<1>o. o = [w |-> o.w, l |-> o.l, f |-> o.f, d |-> o.d] /\ IsWizard(o.w) /\ IsLink(o.l)
  BY DEF IsNow
<1>1. CASE o.w.finishing \/ Waiting(o.w)
  <2>1. r = o
    BY <1>1, Zenon DEF TryFinishBatch
  <2> QED BY <2>1
<1>2. CASE ~o.w.finishing /\ ~Waiting(o.w)
  <2>1. Cardinality(D) \in Nat /\ Cardinality(F) \in Nat
    BY FS_CardinalityType
  <2>2. ~o.w.importing /\ o.w.queue = <<>> /\ o.w.job = 0 /\ Loads(o.w)
    BY <1>2 DEF Waiting, Loading, Counting, Fed, Loads
  <2>3. D = {} /\ F = {}
    <3>1. o.w.downloads = Cardinality(D) /\ o.w.others = Cardinality(F)
      BY DEF Loading, Counting
    <3>2. Cardinality(D) = 0 /\ Cardinality(F) = 0
      BY <1>2, <2>1, <3>1 DEF Waiting
    <3> QED BY <3>2, FS_EmptySet
  <2>4. o.w.imports = 0
    <3>1. Len(o.w.queue) = 0
      BY <2>2
    <3>2. Cardinality(D) = 0
      BY <2>3, FS_EmptySet
    <3> QED BY <2>2, <3>1, <3>2 DEF Loading, Counting
  <2>5. LineOK(o.l) /\ (~o.w.failed => /\ "ocr" \in o.f /\ (~o.w.unpack => "library" \in o.f)
                                       /\ Wanted \subseteq inst)
    <3>1. InQueue(o.w) = {}
      <4>1. DOMAIN <<>> = {}
        OBVIOUS
      <4> QED BY <2>2, <4>1 DEF InQueue
    <3> QED BY <2>2, <2>3, <3>1, LoadsDone DEF Accounted
  <2>6. PICK p : p = [o EXCEPT !.w.finishing = TRUE]
    OBVIOUS
  <2>7. PICK u : u = [o.w EXCEPT !.finishing = TRUE]
    OBVIOUS
  <2>8. p = [w |-> u, l |-> o.l, f |-> o.f, d |-> o.d]
    BY ONLY <2>6, <2>7, <1>o
  <2>9. /\ IsWizard(u) /\ Same(u, o.w) /\ u.finishing = TRUE
        /\ u.installing = o.w.installing /\ u.page = o.w.page
    BY <1>o, <2>7, FinishingIs
  <2>10. /\ IsNow(p) /\ p.w = u /\ p.l = o.l /\ p.f = o.f
         /\ p = [w |-> p.w, l |-> p.l, f |-> p.f, d |-> p.d]
    BY <2>8, <2>9 DEF IsNow
  <2>11. Over(p.w) /\ LineOK(p.l)
    <3>1. o.w.downloads = 0 /\ o.w.others = 0
      BY <2>3, FS_EmptySet DEF Loading, Counting
    <3>2. Quiet(o.w)
      BY <2>2, <2>4, <3>1 DEF Quiet
    <3> QED BY <2>2, <2>5, <2>9, <2>10, <3>2, SameQuiet DEF Over, Loads
  <2>12. ASSUME NEW s \in {"shutdown", "wait"}, r.w = [p.w EXCEPT !.stage = s], r.f = p.f,
                LineOK(r.l), ~o.w.failed
         PROVE  DoneBy(r, inst, D, F)
    <3>1. /\ Same(r.w, p.w) /\ r.w.stage = s /\ r.w.installing = p.w.installing
          /\ r.w.page = p.w.page /\ r.w.finishing = p.w.finishing
      BY <2>9, <2>10, <2>12, StageIs
    <3>2. Over(r.w)
      BY <2>11, <3>1, SameQuiet DEF Over
    <3>3. /\ Wanted \subseteq inst /\ "ocr" \in r.f /\ LineOK(r.l)
          /\ r.w.stage # "list" /\ r.w.stage \notin {"redist", "reset"}
      BY <2>5, <2>10, <2>12, <3>1
    <3> QED BY ONLY <3>2, <3>3, OverDone
  <2>13. CASE o.w.failed \/ ~o.w.unpack
    <3>1. r = AfterRuntime(p, o.w.failed)
      BY <1>2, <2>6, <2>13, Zenon DEF TryFinishBatch
    <3>2. ~o.w.failed => AllThere(p.f, inst)
      BY <2>5, <2>10, <2>13 DEF AllThere, Stays
    <3> QED BY ONLY <3>1, <3>2, <2>10, <2>11, AfterRuntimeDone
  <2>14. CASE ~(o.w.failed \/ ~o.w.unpack) /\ "library" \notin o.f
    <3>1. r \in UnpackRuntime(p)
      BY <1>2, <2>6, <2>14, Zenon DEF TryFinishBatch
    <3>2. Wanted \subseteq inst /\ "ocr" \in p.f
      BY <2>5, <2>10, <2>14
    <3> QED BY ONLY <3>1, <3>2, <2>10, <2>11, UnpackRuntimeDone
  <2>15. CASE ~(o.w.failed \/ ~o.w.unpack) /\ ~("library" \notin o.f) /\ Connected(o.l)
    <3>1. PICK call : call = Call("wizard", "shutdown", "none")
      OBVIOUS
    <3>2. PICK m : m = Called(o.l, call)
      OBVIOUS
    <3>3. r = [p EXCEPT !.w.stage = "shutdown", !.l = m]
      BY <1>2, <2>6, <2>15, <3>1, <3>2, Zenon DEF TryFinishBatch
    <3>4. r.w = [p.w EXCEPT !.stage = "shutdown"] /\ r.l = m /\ r.f = p.f
      BY ONLY <2>10, <3>3
    <3>5. call.method # "dictionaries.import"
      BY <3>1 DEF Call
    <3>6. LineOK(m)
      BY <1>o, <2>5, <3>2, <3>5, CalledLine
    <3> QED BY <2>12, <2>15, <3>4, <3>6
  <2>16. CASE ~(o.w.failed \/ ~o.w.unpack) /\ ~("library" \notin o.f) /\ ~Connected(o.l)
    <3>1. PICK d \in Terminated(o.d) : r = [p EXCEPT !.w.stage = "wait", !.d = d]
      BY <1>2, <2>6, <2>16, Zenon DEF TryFinishBatch
    <3>2. r.w = [p.w EXCEPT !.stage = "wait"] /\ r.l = p.l /\ r.f = p.f
      BY ONLY <2>10, <3>1
    <3> QED BY <2>11, <2>12, <2>16, <3>2
  <2> QED BY <2>13, <2>14, <2>15, <2>16
<1> QED BY <1>1, <1>2

\* What is asked for next is no longer in the queue.
LEMMA PumpDone ==
  ASSUME NEW o, IsNow(o), NEW D, NEW F, Loading(o.w, Asked(o.l), D, F), NEW inst,
         DoneBy(o, inst, D, F), NEW p, p = PumpImports(o)
  PROVE  DoneBy(p, inst, D, F)
<1>o. /\ o = [w |-> o.w, l |-> o.l, f |-> o.f, d |-> o.d]
      /\ IsWizard(o.w) /\ IsLink(o.l)
  BY DEF IsNow
<1>s. Loads(o.w)
  BY DEF Loading, Counting, Loads
<1>d. LineOK(o.l) /\ (~o.w.failed => Accounted(o.w, o.l.requests, o.l.answers, o.d.jobs, o.f,
                                               inst, D, F))
  BY <1>s, LoadsDone
<1>1. CASE o.w.importing \/ o.w.queue = <<>>
  BY <1>1 DEF PumpImports
<1>2. CASE ~o.w.importing /\ o.w.queue # <<>> /\ Connected(o.l)
  <2>1. PICK call : call = Call("wizard", "dictionaries.import", Head(o.w.queue))
    OBVIOUS
  <2>2. PICK m : m = Called(o.l, call)
    OBVIOUS
  <2>3. p = [o EXCEPT !.w.importing = TRUE, !.w.queue = Tail(@), !.l = m]
    BY <1>2, <2>1, <2>2 DEF PumpImports
  <2>4. PICK b : b = Tail(o.w.queue)
    OBVIOUS
  <2>5. PICK u : u = [o.w EXCEPT !.importing = TRUE, !.queue = b]
    OBVIOUS
  <2>6. p = [w |-> u, l |-> m, f |-> o.f, d |-> o.d]
    BY ONLY <2>3, <2>4, <2>5, <1>o
  <2>7. /\ u.importing = TRUE /\ u.queue = b /\ u.job = o.w.job /\ u.stage = o.w.stage
        /\ u.installing = o.w.installing /\ u.page = o.w.page /\ u.finishing = o.w.finishing
        /\ u.failed = o.w.failed /\ u.unpack = o.w.unpack
    BY ONLY <2>5, <1>o DEF IsWizard
  <2>8. PICK t : t = Head(o.w.queue)
    OBVIOUS
  <2>9. /\ t \in Wanted
        /\ \A i \in DOMAIN o.w.queue : o.w.queue[i] = t \/ \E j \in DOMAIN b : b[j] = o.w.queue[i]
    <3>1. o.w.queue \in Seq(Wanted) /\ o.w.queue # <<>>
      BY <1>2, <1>o DEF IsWizard
    <3>2. t \in Wanted
      BY ONLY <2>8, <3>1
    <3>3. /\ Head(o.w.queue) = o.w.queue[1]
          /\ \A i \in DOMAIN o.w.queue : i # 1 => i - 1 \in DOMAIN b /\ b[i - 1] = o.w.queue[i]
      BY ONLY <2>4, <3>1, RestIs
    <3> QED BY ONLY <2>8, <3>2, <3>3
  <2>10. call.method = "dictionaries.import" /\ call.of = t /\ call.of \notin Stays
    <3>1. call.method = "dictionaries.import" /\ call.of = t
      BY <2>1, <2>8 DEF Call
    <3>2. t \notin Stays
      BY <2>9, WantedAssumption DEF Stays
    <3> QED BY <3>1, <3>2
  <2>11. /\ LineOK(m) /\ m.answers = o.l.answers
         /\ m.requests \in {o.l.requests, Append(o.l.requests, call)}
    BY <1>o, <1>d, <2>2, <2>10, CalledLine
  <2>12. ASSUME ~o.w.failed
         PROVE  Accounted(u, m.requests, m.answers, o.d.jobs, o.f, inst, D, F)
    <3>1. /\ "ocr" \in o.f \cup F /\ (~o.w.unpack => "library" \in o.f)
          /\ NoneMine(o.l.requests, o.l.answers)
          /\ Wanted \subseteq inst \cup D \cup InQueue(o.w)
      BY <1>2, <1>d, <2>12 DEF Accounted
    <3>2. Wanted \ {t} \subseteq inst \cup D \cup InQueue(u)
      <4>1. \A x \in InQueue(o.w) : x = t \/ x \in InQueue(u)
        BY <2>7, <2>9 DEF InQueue
      <4> QED BY <3>1, <4>1
    <3>3. Imports(0, m.requests, m.answers, o.d.jobs, inst, t)
      <4>1. CASE m.requests = o.l.requests
        BY <2>11, <3>1, <4>1 DEF Imports, NoneMine, OneMine
      <4>2. CASE m.requests = Append(o.l.requests, call)
        <5>1. \E S : o.l.requests \in Seq(S)
          BY <1>d DEF LineOK
        <5>2. Imports(0, m.requests, o.l.answers, o.d.jobs, inst, call.of)
          BY ONLY <3>1, <4>2, <5>1, MineIsAsked
        <5> QED BY <2>10, <2>11, <5>2
      <4> QED BY <2>11, <4>1, <4>2
    <3>4. u.job = 0
      BY <1>2, <2>7 DEF Loading
    <3> QED BY ONLY <2>7, <2>9, <3>1, <3>2, <3>3, <3>4 DEF Accounted
  <2>13. Loads(p.w) /\ p.w = u /\ p.l = m /\ p.f = o.f /\ p.d = o.d
    <3>1. p.w = u /\ p.l = m /\ p.f = o.f /\ p.d = o.d
      BY ONLY <2>6
    <3> QED BY ONLY <1>s, <2>7, <3>1 DEF Loads
  <2> QED BY <2>7, <2>11, <2>12, <2>13, LoadsDone
<1>3. CASE ~o.w.importing /\ o.w.queue # <<>> /\ ~Connected(o.l)
  <2>1. PICK n : n = o.w.imports - Len(o.w.queue)
    OBVIOUS
  <2>3. p = [o EXCEPT !.w.imports = n, !.w.queue = <<>>, !.w.failed = TRUE]
    BY <1>3, <2>1, <1>o DEF PumpImports
  <2>4. PICK u : u = [o.w EXCEPT !.imports = n, !.queue = <<>>, !.failed = TRUE]
    OBVIOUS
  <2>5. p = [w |-> u, l |-> o.l, f |-> o.f, d |-> o.d]
    BY ONLY <2>3, <2>4, <1>o
  <2>6. /\ u.failed = TRUE /\ u.stage = o.w.stage
        /\ u.installing = o.w.installing /\ u.page = o.w.page /\ u.finishing = o.w.finishing
    BY ONLY <2>4, <1>o DEF IsWizard
  <2>7. Loads(p.w) /\ p.w = u /\ p.l = o.l
    <3>1. p.w = u /\ p.l = o.l
      BY ONLY <2>5
    <3> QED BY ONLY <1>s, <2>6, <3>1 DEF Loads
  <2> QED BY <1>d, <2>6, <2>7, LoadsDone
<1> QED BY <1>1, <1>2, <1>3

\* What the callbacks of the batch do when they counted something.
LEMMA GoesDone ==
  ASSUME NEW o, NEW p, NEW D, IsFiniteSet(D), NEW F, IsFiniteSet(F), Goes(o, p, D, F),
         NEW inst, DoneBy(p, inst, D, F), NEW r \in TryFinishBatch(PumpImports(p))
  PROVE  DoneBy(r, inst, D, F)
<1>1. PICK q : q = PumpImports(p)
  OBVIOUS
<1>2. Goes(p, q, D, F) /\ Fed(q.w)
  BY <1>1, PumpImportsOK DEF Goes
<1>3. DoneBy(q, inst, D, F)
  BY <1>1, PumpDone DEF Goes
<1> QED BY <1>1, <1>2, <1>3, TryFinishDone DEF Goes

\* The end of an import, after which none is under way.
LEMMA ImportDoneDone ==
  ASSUME NEW o, IsNow(o), NEW D, IsFiniteSet(D), NEW F, IsFiniteSet(F),
         Counting(o.w, D, F), o.w.importing, Asked(o.l) = {}, LineOK(o.l), NEW failed, NEW inst,
         ~failed /\ ~o.w.failed =>
           AllIn(o.w, o.l.requests, o.l.answers, o.f, inst, D, F),
         NEW r \in ImportDone(o, failed)
  PROVE  DoneBy(r, inst, D, F)
<1>o. o = [w |-> o.w, l |-> o.l, f |-> o.f, d |-> o.d] /\ IsWizard(o.w)
  BY DEF IsNow
<1>1. PICK n : n = o.w.imports - 1
  OBVIOUS
<1>2. PICK c : c = (o.w.failed \/ failed)
  OBVIOUS
<1>3. PICK p : p = [o EXCEPT !.w.importing = FALSE, !.w.job = 0, !.w.imports = n, !.w.failed = c]
  OBVIOUS
<1>4. r \in TryFinishBatch(PumpImports(p))
  BY <1>1, <1>2, <1>3, <1>o DEF ImportDone
<1>5. PICK u : u = [o.w EXCEPT !.importing = FALSE, !.job = 0, !.imports = n, !.failed = c]
  OBVIOUS
<1>6. p = [w |-> u, l |-> o.l, f |-> o.f, d |-> o.d]
  BY ONLY <1>3, <1>5, <1>o
<1>7. /\ IsWizard(u) /\ u.importing = FALSE /\ u.queue = o.w.queue /\ u.job = 0
      /\ u.downloads = o.w.downloads /\ u.imports = n /\ u.others = o.w.others
      /\ u.installing = o.w.installing /\ u.page = o.w.page /\ u.stage = o.w.stage
      /\ u.finishing = o.w.finishing /\ u.failed = c /\ u.unpack = o.w.unpack
  BY ONLY <1>5, <1>o DEF IsWizard
<1>8. u.imports = Cardinality(D) + Len(u.queue) + 0
  <2>1. Len(o.w.queue) \in Nat /\ Cardinality(D) \in Nat
    BY <1>o, FS_CardinalityType DEF IsWizard
  <2>2. o.w.imports = Cardinality(D) + Len(o.w.queue) + 1
    BY DEF Counting
  <2>3. u.imports = n /\ u.queue = o.w.queue
    BY <1>7
  <2> QED BY ONLY <1>1, <2>1, <2>2, <2>3
<1>9. Loading(u, {}, D, F)
  BY <1>7, <1>8 DEF Loading, Counting
<1>10. p.w = u /\ p.l = o.l /\ p.d = o.d /\ p.f = o.f /\ IsNow(p)
  BY <1>6, <1>7 DEF IsNow
<1>11. Goes(o, p, D, F)
  BY <1>7, <1>9, <1>10 DEF Goes, Keeps
<1>12. DoneBy(p, inst, D, F)
  <2>1. Loads(p.w)
    BY <1>9, <1>10 DEF Loading, Counting, Loads
  <2>2. ~p.w.failed =>
          Accounted(p.w, p.l.requests, p.l.answers, p.d.jobs, p.f, inst, D, F)
    <3>1. InQueue(p.w) = InQueue(o.w)
      BY <1>7, <1>10 DEF InQueue
    <3>2. /\ ~p.w.failed => ~failed /\ ~o.w.failed
          /\ p.w.unpack = o.w.unpack /\ p.w.importing = FALSE
      BY <1>2, <1>7, <1>10
    <3> QED BY <1>10, <3>1, <3>2 DEF Accounted, AllIn
  <2>3. LineOK(p.l)
    BY <1>10
  <2> QED BY ONLY <2>1, <2>2, <2>3, LoadsDone
<1> QED BY <1>4, <1>11, <1>12, GoesDone

\* A dictionary that came waits for its import.
LEMMA DictDownloadedDone ==
  ASSUME NEW o, IsNow(o), NEW D, IsFiniteSet(D), NEW F, IsFiniteSet(F),
         Loading(o.w, Asked(o.l), D, F), NEW file \in Wanted, file \in D, NEW ok, NEW inst,
         DoneBy(o, inst, D, F), NEW r \in DictDownloaded(o, file, ok)
  PROVE  DoneBy(r, inst, D \ {file}, F)
<1>p. PICK p : /\ Goes(o, p, D \ {file}, F) /\ DictCounted(o, p, file, ok)
               /\ r \in TryFinishBatch(PumpImports(p))
  BY DictIsCounted
<1>1. /\ Goes(o, p, D \ {file}, F) /\ p.l = o.l /\ p.d = o.d /\ p.f = o.f
      /\ r \in TryFinishBatch(PumpImports(p))
      /\ p.w.importing = o.w.importing /\ p.w.job = o.w.job /\ p.w.unpack = o.w.unpack
      /\ p.w.failed = IF ok THEN o.w.failed ELSE TRUE
      /\ p.w.queue = IF ok THEN Append(o.w.queue, file) ELSE o.w.queue
  BY <1>p DEF DictCounted
<1>2. Loads(o.w) /\ Loads(p.w)
  BY <1>1 DEF Goes, Loading, Counting, Loads
<1>3. LineOK(o.l) /\ (~o.w.failed => Accounted(o.w, o.l.requests, o.l.answers, o.d.jobs, o.f,
                                               inst, D, F))
  BY <1>2, LoadsDone
<1>4. ASSUME ~p.w.failed
      PROVE  Accounted(p.w, p.l.requests, p.l.answers, p.d.jobs, p.f, inst, D \ {file}, F)
  <2>1. ~o.w.failed /\ ok
    BY <1>1, <1>4
  <2>2. InQueue(o.w) \cup {file} \subseteq InQueue(p.w)
    <3>1. p.w.queue = Append(o.w.queue, file) /\ \E S : o.w.queue \in Seq(S)
      BY <1>1, <2>1 DEF IsNow, IsWizard
    <3>2. /\ Len(o.w.queue) \in Nat /\ DOMAIN p.w.queue = 1 .. (Len(o.w.queue) + 1)
          /\ \A i \in DOMAIN o.w.queue : i \in DOMAIN p.w.queue /\ p.w.queue[i] = o.w.queue[i]
          /\ p.w.queue[Len(o.w.queue) + 1] = file
      BY ONLY <3>1, AddedIs
    <3>3. Len(o.w.queue) + 1 \in DOMAIN p.w.queue
      BY ONLY <3>2
    <3> QED BY ONLY <3>2, <3>3 DEF InQueue
  <2>3. \A A : A \subseteq inst \cup D \cup InQueue(o.w)
                 => A \subseteq inst \cup (D \ {file}) \cup InQueue(p.w)
    BY <2>2
  <2>4. Accounted(o.w, o.l.requests, o.l.answers, o.d.jobs, o.f, inst, D, F)
    BY <1>3, <2>1
  <2>5. CASE o.w.importing
    <3>1. PICK t \in Wanted :
            /\ Imports(o.w.job, o.l.requests, o.l.answers, o.d.jobs, inst, t)
            /\ Wanted \ {t} \subseteq inst \cup D \cup InQueue(o.w)
      BY <2>4, <2>5 DEF Accounted
    <3>2. Wanted \ {t} \subseteq inst \cup (D \ {file}) \cup InQueue(p.w)
      BY ONLY <2>3, <3>1
    <3> QED BY ONLY <1>1, <2>4, <2>5, <3>1, <3>2 DEF Accounted
  <2>6. CASE ~o.w.importing
    <3>1. Wanted \subseteq inst \cup (D \ {file}) \cup InQueue(p.w)
      BY ONLY <2>3, <2>4, <2>6 DEF Accounted
    <3> QED BY ONLY <1>1, <2>4, <2>6, <3>1 DEF Accounted
  <2> QED BY <2>5, <2>6
<1>5. DoneBy(p, inst, D \ {file}, F)
  <2>1. LineOK(p.l)
    BY <1>1, <1>3
  <2> QED BY ONLY <1>2, <1>4, <2>1, LoadsDone
<1>6. IsFiniteSet(D \ {file})
  BY FS_RemoveElement
<1> QED BY ONLY <1>1, <1>5, <1>6, IsFiniteSet(F), GoesDone

\* Another file that came is there.
LEMMA OtherDownloadedDone ==
  ASSUME NEW o, IsNow(o), NEW D, IsFiniteSet(D), NEW F, IsFiniteSet(F),
         Loading(o.w, Asked(o.l), D, F), Fed(o.w), NEW file, file \in F, NEW ok,
         ok => file \in o.f, NEW inst, DoneBy(o, inst, D, F), NEW r \in OtherDownloaded(o, ok)
  PROVE  DoneBy(r, inst, D, F \ {file})
<1>o. o = [w |-> o.w, l |-> o.l, f |-> o.f, d |-> o.d] /\ IsWizard(o.w)
  BY DEF IsNow
<1>1. /\ IsFiniteSet(F \ {file}) /\ Cardinality(F \ {file}) = Cardinality(F) - 1
  BY FS_RemoveElement
<1>2. PICK n : n = o.w.others - 1
  OBVIOUS
<1>3. n = Cardinality(F \ {file})
  BY <1>1, <1>2 DEF Loading, Counting
<1>4. PICK c : c = (o.w.failed \/ ~ok)
  OBVIOUS
<1>5. PICK p : p = [o EXCEPT !.w.others = n, !.w.failed = c]
  OBVIOUS
<1>6. r \in TryFinishBatch(p)
  BY <1>2, <1>4, <1>5, <1>o DEF OtherDownloaded
<1>7. PICK u : u = [o.w EXCEPT !.others = n, !.failed = c]
  OBVIOUS
<1>8. p = [w |-> u, l |-> o.l, f |-> o.f, d |-> o.d]
  BY ONLY <1>5, <1>7, <1>o
<1>9. /\ IsWizard(u) /\ u.importing = o.w.importing /\ u.queue = o.w.queue
      /\ u.job = o.w.job
      /\ u.downloads = o.w.downloads /\ u.imports = o.w.imports /\ u.others = n
      /\ u.installing = o.w.installing /\ u.page = o.w.page
      /\ u.stage = o.w.stage /\ u.finishing = o.w.finishing
      /\ u.failed = c /\ u.unpack = o.w.unpack
  BY ONLY <1>7, <1>o DEF IsWizard
<1>10. p.w = u /\ p.l = o.l /\ p.f = o.f /\ p.d = o.d /\ IsNow(p)
  BY <1>8, <1>9 DEF IsNow
<1>11. Loading(p.w, Asked(p.l), D, F \ {file}) /\ Fed(p.w)
  <2>1. Counting(u, D, F \ {file})
    BY <1>3, <1>9 DEF Loading, Counting
  <2>2. Loading(u, Asked(o.l), D, F \ {file})
    BY <1>9, <2>1 DEF Loading
  <2> QED BY <1>9, <1>10, <2>2 DEF Fed
<1>12. Loads(o.w) /\ Loads(p.w)
  BY <1>11 DEF Loading, Counting, Loads
<1>13. LineOK(o.l) /\ (~o.w.failed => Accounted(o.w, o.l.requests, o.l.answers, o.d.jobs, o.f,
                                                inst, D, F))
  BY <1>12, LoadsDone
<1>14. ASSUME ~p.w.failed
       PROVE  Accounted(p.w, p.l.requests, p.l.answers, p.d.jobs, p.f, inst, D, F \ {file})
  <2>1. ~o.w.failed /\ ok
    BY <1>4, <1>9, <1>10, <1>14
  <2>2. Accounted(o.w, o.l.requests, o.l.answers, o.d.jobs, o.f, inst, D, F)
    BY <1>13, <2>1
  <2>3. InQueue(p.w) = InQueue(o.w)
    BY <1>9, <1>10 DEF InQueue
  <2>4. "ocr" \in o.f \cup (F \ {file})
    BY <2>1, <2>2 DEF Accounted
  <2> QED BY ONLY <1>9, <1>10, <2>2, <2>3, <2>4 DEF Accounted
<1>15. DoneBy(p, inst, D, F \ {file})
  <2>1. LineOK(p.l)
    BY <1>10, <1>13
  <2> QED BY ONLY <1>12, <1>14, <2>1, LoadsDone
<1> QED BY <1>1, <1>6, <1>10, <1>11, <1>15, TryFinishDone

\* A batch begins with all that is not there.
LEMMA BeginBatchDone ==
  ASSUME NEW o, IsNow(o), Beginning(o.w), LineOK(o.l), ~o.w.failed,
         NoneMine(o.l.requests, o.l.answers), NEW inst, NEW D, NEW F,
         Wanted \subseteq inst \cup D, "ocr" \in o.f \cup F,
         "archive" \notin F => "library" \in o.f, NEW r, r = BeginBatch(o, D, F)
  PROVE  DoneBy(r, inst, D, F)
<1>o. o = [w |-> o.w, l |-> o.l, f |-> o.f, d |-> o.d] /\ IsWizard(o.w)
  BY DEF IsNow
<1>1. CASE D \cup F = {}
  <2>1. r = FinishInstall(o, FALSE) /\ AllThere(o.f, inst)
    BY <1>1 DEF BeginBatch, AllThere, Stays
  <2> QED BY <2>1, FinishDone
<1>2. CASE D \cup F # {}
  <2>1. PICK i : i = Cardinality(D)
    OBVIOUS
  <2>2. PICK n : n = Cardinality(F)
    OBVIOUS
  <2>3. PICK a : a = ("archive" \in F)
    OBVIOUS
  <2>4. PICK b : b = ("redist" \in F)
    OBVIOUS
  <2>5. r = [o EXCEPT !.w.stage = "none", !.w.downloads = i, !.w.imports = i, !.w.others = n,
                      !.w.unpack = a, !.w.redist = b]
    BY <1>2, <2>1, <2>2, <2>3, <2>4 DEF BeginBatch
  <2>6. PICK u : u = [o.w EXCEPT !.stage = "none", !.downloads = i, !.imports = i,
                                 !.others = n, !.unpack = a, !.redist = b]
    OBVIOUS
  <2>7. r = [w |-> u, l |-> o.l, f |-> o.f, d |-> o.d]
    BY ONLY <2>5, <2>6, <1>o
  <2>8. /\ u.importing = o.w.importing /\ u.queue = o.w.queue /\ u.unpack = a
        /\ u.installing = o.w.installing /\ u.page = o.w.page
        /\ u.stage = "none" /\ u.finishing = o.w.finishing
    BY ONLY <2>6, <1>o DEF IsWizard
  <2>9. r.w = u /\ r.l = o.l /\ r.f = o.f
    BY ONLY <2>7
  <2>10. Loads(r.w) /\ ~r.w.importing
    BY <2>8, <2>9 DEF Beginning, Quiet, Loads
  <2>11. ~r.w.unpack => "library" \in r.f
    BY <2>3, <2>8, <2>9
  <2>12. Accounted(r.w, r.l.requests, r.l.answers, r.d.jobs, r.f, inst, D, F)
    BY <2>9, <2>10, <2>11 DEF Accounted
  <2> QED BY <2>9, <2>10, <2>12, LoadsDone
<1> QED BY <1>1, <1>2

\* Nothing of it is lost by what does not lead to the wizard's import.
LEMMA DoneStays ==
  ASSUME NEW w, NEW l, NEW d, NEW f, NEW inst, NEW D, NEW F, Done(w, l, d, f, inst, D, F),
         NEW m, NEW e, NEW g, NEW more, LineOK(m), Stays \cap f \subseteq g, inst \subseteq more,
         NoneMine(l.requests, l.answers) => NoneMine(m.requests, m.answers),
         \A t \in Wanted : Imports(w.job, l.requests, l.answers, d.jobs, inst, t)
                             => Imports(w.job, m.requests, m.answers, e.jobs, more, t)
  PROVE  Done(w, m, e, g, more, D, F)
<1>1. /\ "ocr" \in f => "ocr" \in g
      /\ "library" \in f => "library" \in g
  BY DEF Stays
<1>2. ASSUME Accounted(w, l.requests, l.answers, d.jobs, f, inst, D, F)
      PROVE  Accounted(w, m.requests, m.answers, e.jobs, g, more, D, F)
  <2>1. CASE w.importing
    <3>1. PICK t \in Wanted : /\ Imports(w.job, l.requests, l.answers, d.jobs, inst, t)
                              /\ Wanted \ {t} \subseteq inst \cup D \cup InQueue(w)
      BY <1>2, <2>1 DEF Accounted
    <3>2. Imports(w.job, m.requests, m.answers, e.jobs, more, t)
      BY <3>1
    <3>3. Wanted \ {t} \subseteq more \cup D \cup InQueue(w)
      BY <3>1
    <3> QED BY <1>1, <1>2, <2>1, <3>2, <3>3 DEF Accounted
  <2>2. CASE ~w.importing
    BY <1>1, <1>2, <2>2 DEF Accounted
  <2> QED BY <2>1, <2>2
<1>3. AllThere(f, inst) => AllThere(g, more)
  BY <1>1 DEF AllThere, Stays
<1> QED BY <1>1, <1>2, <1>3 DEF Done

-----------------------------------------------------------------------------
\* The daemon's imports have numbers of their own, which those it told of have had, and take away
\* nothing that stays; the dictionaries it listed are installed.
Numbered(l, d, inst) ==
  /\ \A i \in DOMAIN d.jobs : d.jobs[i].id \in 1 .. d.next - 1 /\ d.jobs[i].file \notin Stays
  /\ \A i \in DOMAIN l.answers :
       /\ l.answers[i].call.method = "dictionaries.list" => l.answers[i].titles \subseteq inst
       /\ l.state = "up" => l.answers[i].job \in 0 .. d.next - 1

IsDisk == disk = [files |-> disk.files, installed |-> disk.installed]
DonePart ==
  /\ IsDisk
  /\ Done(wizard, link, daemon, disk.files, disk.installed, DictsOf(flights), FilesOf(flights))
  /\ Numbered(link, daemon, disk.installed)

\* What waits on the page for its download, and what comes for it.
IsOffers(p) ==
  /\ p = [queue |-> p.queue, downloading |-> p.downloading, asked |-> p.asked]
  /\ p.queue \in Seq(PageWants)
OffersOK ==
  /\ IsOffers(offers)
  /\ \A x \in flights : x.for = "page" => x.file \in PageWants

DoneInv == DonePart /\ OffersOK

\* A callback of the wizard was run.
LEMMA Lands ==
  ASSUME IsDisk, NEW o, NEW r, Becomes(r), Keeps(o, r), Numbered(o.l, o.d, disk.installed),
         DoneBy(r, disk.installed, DictsOf(flights'), FilesOf(flights'))
  PROVE  DonePart'
<1>1. /\ wizard' = r.w /\ link' = r.l /\ daemon' = r.d /\ IsDisk'
      /\ disk'.files = r.f /\ disk'.installed = disk.installed
  <2>1. wizard' = r.w /\ link' = r.l /\ daemon' = r.d /\ disk' = [disk EXCEPT !.files = r.f]
    BY DEF Becomes
  <2>2. IsDisk' /\ disk'.files = r.f /\ disk'.installed = disk.installed
    BY ONLY <2>1, IsDisk DEF IsDisk
  <2> QED BY <2>1, <2>2
<1>2. Numbered(r.l, r.d, disk.installed)
  <2>1. CASE r.d.jobs = o.d.jobs
    BY <2>1 DEF Numbered, Keeps
  <2>2. CASE r.d.jobs = <<>>
    <3>1. DOMAIN <<>> = {}
      OBVIOUS
    <3> QED BY <2>2, <3>1 DEF Numbered, Keeps
  <2> QED BY <2>1, <2>2 DEF Keeps
<1> QED BY <1>1, <1>2 DEF DonePart, DoneBy

\* A batch gets what is not there.
LEMMA BeginsDone ==
  ASSUME FlightsOK(flights), DictsOf(flights) = {}, FilesOf(flights) = {},
         NEW o, IsNow(o), Beginning(o.w), Asked(o.l) = {}, ~o.w.failed, LineOK(o.l),
         NoneMine(o.l.requests, o.l.answers), IsDisk, o.f = disk.files,
         Numbered(o.l, o.d, disk.installed), NEW known, known \subseteq disk.installed,
         NEW others, Others(others), Begins(o, known, others)
  PROVE  DonePart'
<1>1. PICK translate :
        /\ DictsOf(flights') = BatchDicts(o.w, known)
        /\ FilesOf(flights') = BatchFiles(o.w, translate)
        /\ Becomes(BeginBatch(o, DictsOf(flights'), FilesOf(flights')))
  BY BeginsIs
<1>2. PICK r : r = BeginBatch(o, DictsOf(flights'), FilesOf(flights'))
  OBVIOUS
<1>3. Keeps(o, r)
  <2>1. Result(o, r, DictsOf(flights'), FilesOf(flights'))
    BY <1>2, FlightsFinite, BeginBatchOK
  <2> QED BY <2>1 DEF Result
<1>4. Wanted \subseteq disk.installed \cup DictsOf(flights')
  BY <1>1 DEF BatchDicts
<1>5. "ocr" \in o.f \cup FilesOf(flights')
  <2>1. "ocr" \in BatchFiles(o.w, translate) \/ "ocr" \in disk.files
    BY DEF BatchFiles, ToDownload
  <2> QED BY <1>1, <2>1
<1>6. "archive" \notin FilesOf(flights') => "library" \in o.f
  <2>1. "archive" \in BatchFiles(o.w, translate) \/ "library" \in disk.files
    BY DEF BatchFiles, Runtime
  <2> QED BY <1>1, <2>1
<1>7. DoneBy(r, disk.installed, DictsOf(flights'), FilesOf(flights'))
  BY <1>2, <1>4, <1>5, <1>6, BeginBatchDone
<1> QED BY <1>1, <1>2, <1>3, <1>7, Lands

\* An answer, or none: what it means for what comes.
LEMMA RepliedDone ==
  ASSUME FlightsOK(flights), NEW o, IsNow(o), Asked(o.l) = {},
         NEW call, NEW a, call \in a, WizardOK(o.w, a, DictsOf(flights), FilesOf(flights)),
         IsDisk, o.f = disk.files, Numbered(o.l, o.d, disk.installed),
         DoneBy(o, disk.installed, DictsOf(flights), FilesOf(flights)),
         NEW ok, NEW answer,
         call.method = "dictionaries.list" => answer.titles \subseteq disk.installed,
         call.method = "dictionaries.import" /\ ok /\ ~o.w.failed =>
           Accounted([o.w EXCEPT !.job = answer.job], o.l.requests, o.l.answers, o.d.jobs, o.f,
                     disk.installed, DictsOf(flights), FilesOf(flights)),
         NEW others, Others(others), Replied(o, call, ok, answer, others)
  PROVE  DonePart'
<1>o. /\ o = [w |-> o.w, l |-> o.l, f |-> o.f, d |-> o.d]
      /\ IsWizard(o.w) /\ IsLink(o.l) /\ IsDaemon(o.d)
  BY DEF IsNow
<1>1. \A by, method, of : Call(by, method, of).method = method
  BY DEF Call
<1>l. LineOK(o.l)
  BY DEF DoneBy, Done
<1>2. ASSUME NEW r, Becomes(r), Keeps(o, r), flights' = flights \cup others,
             DoneBy(r, disk.installed, DictsOf(flights), FilesOf(flights))
      PROVE  DonePart'
  <2>1. DictsOf(flights') = DictsOf(flights) /\ FilesOf(flights') = FilesOf(flights)
    BY <1>2, OthersFly
  <2>2. DoneBy(r, disk.installed, DictsOf(flights'), FilesOf(flights'))
    BY <1>2, <2>1
  <2> QED BY <1>2, <2>2, Lands
<1>4. CASE Listing(o.w, a, DictsOf(flights), FilesOf(flights))
  <2>1. /\ call.method = "dictionaries.list" /\ Beginning(o.w) /\ o.w.stage = "list"
        /\ DictsOf(flights) = {} /\ FilesOf(flights) = {}
    BY <1>1, <1>4 DEF Listing, Beginning
  <2>2. Begins(o, answer.titles, others)
    BY <2>1, Zenon DEF Replied
  <2>3. ~o.w.failed /\ NoneMine(o.l.requests, o.l.answers)
    BY <2>1 DEF DoneBy, Done
  <2> QED BY <1>l, <2>1, <2>2, <2>3, BeginsDone
<1>5. CASE Ending(o.w, a, DictsOf(flights), FilesOf(flights))
  <2>1. Over(o.w)
    BY <1>5 DEF Ending, Over
  <2>2. /\ Wanted \subseteq disk.installed /\ "ocr" \in o.f
        /\ o.w.stage = "reset" => "library" \in o.f
    BY <2>1 DEF Over, DoneBy, Done
  <2>3. \/ call.method = "shutdown"
        \/ call.method = "capture.reset" /\ o.w.stage = "reset"
    BY <1>1, <1>5 DEF Ending
  <2>4. CASE call.method = "shutdown"
    <3>1. PICK r : Becomes(r) /\ r = [o EXCEPT !.w.stage = "wait"] /\ flights' = flights \cup others
      BY <2>4 DEF Replied
    <3>2. r.w = [o.w EXCEPT !.stage = "wait"] /\ r.l = o.l /\ r.f = o.f /\ r.d = o.d
      BY ONLY <3>1, <1>o
    <3>3. Keeps(o, r)
      BY <3>2 DEF Keeps
    <3>4. /\ Same(r.w, o.w) /\ r.w.stage = "wait"
          /\ r.w.installing = o.w.installing /\ r.w.page = o.w.page
          /\ r.w.finishing = o.w.finishing
      BY <1>o, <3>2, StageIs
    <3>5. Over(r.w) /\ LineOK(r.l)
      BY <1>l, <2>1, <3>2, <3>4, SameQuiet DEF Over
    <3>6. DoneBy(r, disk.installed, DictsOf(flights), FilesOf(flights))
      BY <2>2, <3>2, <3>4, <3>5, OverDone
    <3> QED BY <1>2, <3>1, <3>3, <3>6
  <2>5. CASE call.method = "capture.reset" /\ o.w.stage = "reset"
    <3>1. PICK r : Becomes(r) /\ r = FinishInstall(o, FALSE) /\ flights' = flights \cup others
      BY <2>5 DEF Replied
    <3>2. r.l = o.l /\ r.d = o.d
      BY <3>1, FinishIs, ZenonT(30)
    <3>5. Keeps(o, r)
      BY <3>2 DEF Keeps
    <3>3. AllThere(o.f, disk.installed)
      BY <2>2, <2>5 DEF AllThere, Stays
    <3>4. DoneBy(r, disk.installed, DictsOf(flights), FilesOf(flights))
      BY <1>l, <3>1, <3>3, FinishDone
    <3> QED BY <1>2, <3>1, <3>4, <3>5
  <2> QED BY <2>3, <2>4, <2>5
<1>6. CASE Loading(o.w, a, DictsOf(flights), FilesOf(flights))
  <2>1. /\ call.method = "dictionaries.import" /\ o.w.importing /\ o.w.job = 0
        /\ Counting(o.w, DictsOf(flights), FilesOf(flights))
    BY <1>1, <1>6 DEF Loading
  <2>2. /\ flights' = flights \cup others
        /\ \E r \in IF ok THEN {[o EXCEPT !.w.job = answer.job]} ELSE ImportDone(o, TRUE) :
             Becomes(r)
    BY <2>1 DEF Replied
  <2>3. CASE ok
    <3>1. PICK r : Becomes(r) /\ r = [o EXCEPT !.w.job = answer.job]
      BY <2>2, <2>3
    <3>2. PICK u : u = [o.w EXCEPT !.job = answer.job]
      OBVIOUS
    <3>3. r = [w |-> u, l |-> o.l, f |-> o.f, d |-> o.d]
      BY ONLY <3>1, <3>2, <1>o
    <3>4. /\ u.installing = o.w.installing /\ u.page = o.w.page /\ u.failed = o.w.failed
          /\ u.stage = o.w.stage /\ u.finishing = o.w.finishing
      BY ONLY <3>2, <1>o DEF IsWizard
    <3>5. r.w = u /\ r.l = o.l /\ r.d = o.d /\ r.f = o.f
      BY <3>3
    <3>6. Keeps(o, r)
      BY <3>5 DEF Keeps
    <3>7. Loads(r.w) /\ LineOK(r.l)
      BY <1>l, <2>1, <3>4, <3>5 DEF Counting, Loads
    <3>8. ~r.w.failed => Accounted(r.w, r.l.requests, r.l.answers, r.d.jobs, r.f,
                                   disk.installed, DictsOf(flights), FilesOf(flights))
      BY <2>1, <2>3, <3>2, <3>4, <3>5
    <3>9. DoneBy(r, disk.installed, DictsOf(flights), FilesOf(flights))
      BY ONLY <3>7, <3>8, LoadsDone
    <3> QED BY <1>2, <2>2, <3>1, <3>6, <3>9
  <2>4. CASE ~ok
    <3>1. PICK r \in ImportDone(o, TRUE) : Becomes(r)
      BY <2>2, <2>4
    <3>2. Result(o, r, DictsOf(flights), FilesOf(flights))
      BY <2>1, <3>1, FlightsFinite, ImportDoneOK
    <3>3. DoneBy(r, disk.installed, DictsOf(flights), FilesOf(flights))
      BY <1>l, <2>1, <3>1, FlightsFinite, ImportDoneDone
    <3> QED BY <1>2, <2>2, <3>1, <3>2, <3>3 DEF Result
  <2> QED BY <2>3, <2>4
<1>7. ~Resting(o.w, a, DictsOf(flights), FilesOf(flights))
  BY DEF Resting
<1> QED BY <1>4, <1>5, <1>6, <1>7 DEF WizardOK

\* The end of the import the wizard waits for.
LEMMA ImportEndsDone ==
  ASSUME FlightsOK(flights), NEW o, IsNow(o), o.w.job # 0,
         WizardOK(o.w, Asked(o.l), DictsOf(flights), FilesOf(flights)),
         IsDisk, Numbered(o.l, o.d, disk.installed), LineOK(o.l), NEW failed,
         ~failed /\ ~o.w.failed =>
           AllIn(o.w, o.l.requests, o.l.answers, o.f, disk.installed,
                 DictsOf(flights), FilesOf(flights)),
         NEW r \in ImportDone(o, failed), Becomes(r),
         NEW others, Others(others), flights' = flights \cup others
  PROVE  DonePart'
<1>1. /\ Counting(o.w, DictsOf(flights), FilesOf(flights)) /\ o.w.importing
      /\ Asked(o.l) = {}
  BY DEF WizardOK, Resting, Listing, Beginning, Ending, Loading, Quiet
<1>2. Result(o, r, DictsOf(flights), FilesOf(flights))
  BY <1>1, FlightsFinite, ImportDoneOK
<1>3. DoneBy(r, disk.installed, DictsOf(flights), FilesOf(flights))
  BY <1>1, FlightsFinite, ImportDoneDone
<1>4. DictsOf(flights') = DictsOf(flights) /\ FilesOf(flights') = FilesOf(flights)
  BY OthersFly
<1>5. DoneBy(r, disk.installed, DictsOf(flights'), FilesOf(flights'))
  BY <1>3, <1>4
<1> QED BY <1>2, <1>5, Lands DEF Result

-----------------------------------------------------------------------------
(* What the daemon and the connection do to it.                            *)

\* What is known before each step.
LEMMA DoneNow ==
  ASSUME SetupInv, DoneInv
  PROVE  /\ IsWizard(wizard) /\ IsLink(link) /\ IsDaemon(daemon) /\ LinkOK(link, daemon)
         /\ FlightsOK(flights) /\ DOMAIN installs = {"ocr", "translation"}
         /\ wizard.job # 0 => Comes(link, daemon, wizard.job, 0)
         /\ WizardOK(wizard, Asked(link), DictsOf(flights), FilesOf(flights))
         /\ IsDisk /\ LineOK(link) /\ Numbered(link, daemon, disk.installed)
         /\ Done(wizard, link, daemon, disk.files, disk.installed,
                 DictsOf(flights), FilesOf(flights))
BY DEF SetupInv, AllOK, DoneInv, DonePart, Done

\* The wizard's import has a number the daemon gave.
LEMMA JobIsNumbered ==
  ASSUME NEW l, NEW d, NEW inst, Numbered(l, d, inst), l.state = "up", d.next \in Nat \ {0},
         NEW j, Comes(l, d, j, 0)
  PROVE  j \in 0 .. d.next - 1
BY DEF Numbered, Comes

\* Something else the wizard does not notice: it has the same of the wizard's,
LEMMA DoneAside ==
  ASSUME SetupInv, DoneInv, wizard' = wizard, IsDisk', LineOK(link'),
         DictsOf(flights') = DictsOf(flights), FilesOf(flights') = FilesOf(flights),
         Stays \cap disk.files \subseteq disk'.files, disk.installed \subseteq disk'.installed,
         NoneMine(link.requests, link.answers) => NoneMine(link'.requests, link'.answers),
         \A t \in Wanted :
           Imports(wizard.job, link.requests, link.answers, daemon.jobs, disk.installed, t)
             => Imports(wizard.job, link'.requests, link'.answers, daemon'.jobs,
                        disk'.installed, t),
         Numbered(link', daemon', disk'.installed)
  PROVE  DonePart'
<1>1. Done(wizard, link, daemon, disk.files, disk.installed, DictsOf(flights), FilesOf(flights))
  BY DoneNow
<1>2. Done(wizard, link', daemon', disk'.files, disk'.installed,
           DictsOf(flights), FilesOf(flights))
  BY ONLY <1>1, LineOK(link'), Stays \cap disk.files \subseteq disk'.files,
     disk.installed \subseteq disk'.installed,
     NoneMine(link.requests, link.answers) => NoneMine(link'.requests, link'.answers),
     \A t \in Wanted :
       Imports(wizard.job, link.requests, link.answers, daemon.jobs, disk.installed, t)
         => Imports(wizard.job, link'.requests, link'.answers, daemon'.jobs, disk'.installed, t),
     DoneStays
<1> QED BY <1>2 DEF DonePart

\* with the same downloads,
LEMMA DoneOutside ==
  ASSUME SetupInv, DoneInv, UNCHANGED <<wizard, flights>>, IsDisk', LineOK(link'),
         Stays \cap disk.files \subseteq disk'.files, disk.installed \subseteq disk'.installed,
         NoneMine(link.requests, link.answers) => NoneMine(link'.requests, link'.answers),
         \A t \in Wanted :
           Imports(wizard.job, link.requests, link.answers, daemon.jobs, disk.installed, t)
             => Imports(wizard.job, link'.requests, link'.answers, daemon'.jobs,
                        disk'.installed, t),
         Numbered(link', daemon', disk'.installed)
  PROVE  DonePart'
<1>1. DictsOf(flights') = DictsOf(flights) /\ FilesOf(flights') = FilesOf(flights)
  OBVIOUS
<1> QED BY <1>1, DoneAside

\* or more comes for others.
LEMMA DoneOthers ==
  ASSUME SetupInv, DoneInv, NEW extra, Others(extra), flights' = flights \cup extra,
         UNCHANGED <<wizard, link, daemon, disk>>
  PROVE  DonePart'
<1>1. DictsOf(flights') = DictsOf(flights) /\ FilesOf(flights') = FilesOf(flights)
  BY DoneNow, OthersFly
<1>2. DonePart
  BY DEF DoneInv
<1> QED BY <1>1, <1>2 DEF DonePart, IsDisk

\* Where an import leads does not change by what is told or asked of another.
LEMMA OtherLeads ==
  ASSUME NEW a, NEW jobs, NEW inst, NEW j, NEW t, Leads(a, jobs, inst, j, t),
         NEW b, \A i \in DOMAIN b : \/ i \in DOMAIN a /\ b[i] = a[i]
                                   \/ b[i].call.method # "import.finished"
                                   \/ b[i].job # j,
         NEW more, \A i \in DOMAIN more : (i \in DOMAIN jobs /\ more[i] = jobs[i])
                                          \/ more[i].id # j
  PROVE  Leads(b, more, inst, j, t)
<1>1. \A i \in DOMAIN more : more[i].id = j => more[i].file = t
  BY DEF Leads
<1>2. \A i \in DOMAIN b : b[i].call.method = "import.finished" /\ b[i].job = j /\ b[i].ok
                            => t \in inst
  BY DEF Leads
<1> QED BY <1>1, <1>2 DEF Leads

\* The first import is done, and told of or not.
LEMMA DoneLeads ==
  ASSUME NEW jobs, \E S : jobs \in Seq(S), jobs # <<>>,
         NEW a, NEW inst, NEW j, NEW t, Leads(a, jobs, inst, j, t),
         NEW more, inst \subseteq more,
         NEW b, \A i \in DOMAIN b :
                  \/ i \in DOMAIN a /\ b[i] = a[i]
                  \/ b[i].job = Head(jobs).id /\ (b[i].ok => Head(jobs).file \in more)
  PROVE  Leads(b, Tail(jobs), more, j, t)
<1>1. PICK rest : rest = Tail(jobs)
  OBVIOUS
<1>2. /\ Head(jobs) = jobs[1] /\ 1 \in DOMAIN jobs
      /\ \A i \in DOMAIN rest : i + 1 \in DOMAIN jobs /\ rest[i] = jobs[i + 1]
  <2>1. /\ Len(jobs) \in Nat \ {0} /\ DOMAIN jobs = 1 .. Len(jobs) /\ Head(jobs) = jobs[1]
        /\ \A i \in DOMAIN rest : i + 1 \in DOMAIN jobs /\ rest[i] = jobs[i + 1]
    BY ONLY \E S : jobs \in Seq(S), jobs # <<>>, <1>1, RestIs
  <2> QED BY ONLY <2>1
<1>3. \A i \in DOMAIN rest : rest[i].id = j => rest[i].file = t
  BY <1>2 DEF Leads
<1>4. Head(jobs).id = j => Head(jobs).file = t
  BY <1>2 DEF Leads
<1>5. \A i \in DOMAIN b : b[i].call.method = "import.finished" /\ b[i].job = j /\ b[i].ok
                            => t \in more
  BY <1>4 DEF Leads
<1> QED BY <1>1, <1>3, <1>5 DEF Leads

\* Requests and imports that are lost with the daemon.
LEMMA FewerLead ==
  ASSUME NEW q, NEW r \in {q, <<>>}, NEW jobs, NEW rest \in {jobs, <<>>}, NEW a
  PROVE  /\ NoneMine(q, a) => NoneMine(r, a)
         /\ \A job, inst, t : Imports(job, q, a, jobs, inst, t) => Imports(job, r, a, rest, inst, t)
<1>e. DOMAIN <<>> = {}
  OBVIOUS
<1>1. \A i \in DOMAIN r : i \in DOMAIN q /\ r[i] = q[i]
  BY <1>e
<1>2. \A i \in DOMAIN rest : i \in DOMAIN jobs /\ rest[i] = jobs[i]
  BY <1>e
<1>3. NoneMine(q, a) => NoneMine(r, a)
  BY ONLY <1>1 DEF NoneMine
<1>4. OneMine(q, a) => OneMine(r, a)
  BY ONLY <1>1 DEF OneMine
<1>5. \A inst, j, t : Leads(a, jobs, inst, j, t) => Leads(a, rest, inst, j, t)
  BY ONLY <1>2 DEF Leads
<1>6. ASSUME NEW job, NEW inst, NEW t, Imports(job, q, a, jobs, inst, t)
      PROVE  Imports(job, r, a, rest, inst, t)
  BY ONLY <1>1, <1>3, <1>4, <1>5, <1>6 DEF Imports
<1> QED BY <1>3, <1>6

\* A daemon that ends, one that starts, and the connection to it.
LEMMA DaemonEndsDone == ASSUME SetupInv, DoneInv, DaemonEnds PROVE DonePart'
<1>n. IsLink(link) /\ IsDaemon(daemon) /\ IsDisk /\ LineOK(link)
      /\ Numbered(link, daemon, disk.installed)
  BY DoneNow
<1>1. UNCHANGED <<disk, flights, wizard>>
  BY DEF DaemonEnds
<1>2. /\ daemon' = [daemon EXCEPT !.state = "down", !.jobs = <<>>]
      /\ link' = IF link.state = "up" THEN [link EXCEPT !.state = "closed", !.requests = <<>>]
                 ELSE link
  BY DEF DaemonEnds
<1>3. daemon'.jobs = <<>>
  BY ONLY <1>2, <1>n DEF IsDaemon
<1>4. /\ link'.answers = link.answers /\ link'.calls = link.calls /\ link'.state # "up"
      /\ link'.requests \in {link.requests, <<>>}
  <2>1. CASE link.state = "up"
    <3>1. link' = [link EXCEPT !.state = "closed", !.requests = <<>>]
      BY <1>2, <2>1
    <3>2. /\ link'.calls = link.calls /\ link'.answers = link.answers
          /\ link'.state = "closed" /\ link'.requests = <<>>
      BY ONLY <3>1, <1>n DEF IsLink
    <3> QED BY <3>2
  <2> QED BY <2>1, <1>2
<1>e. DOMAIN <<>> = {} /\ <<>> \in Seq({})
  OBVIOUS
<1>5. LineOK(link')
  <2>1. CASE link'.requests = <<>>
    BY <1>4, <1>e, <1>n, <2>1 DEF LineOK
  <2>2. CASE link'.requests = link.requests
    BY <1>4, <1>n, <2>2 DEF LineOK
  <2> QED BY <1>4, <2>1, <2>2
<1>6. /\ NoneMine(link.requests, link.answers) => NoneMine(link'.requests, link'.answers)
      /\ \A t \in Wanted :
           Imports(wizard.job, link.requests, link.answers, daemon.jobs, disk.installed, t)
             => Imports(wizard.job, link'.requests, link'.answers, daemon'.jobs,
                        disk'.installed, t)
  BY <1>1, <1>3, <1>4, FewerLead
<1>7. Numbered(link', daemon', disk'.installed)
  BY <1>1, <1>3, <1>4, <1>e, <1>n DEF Numbered
<1>8. IsDisk'
  BY <1>1, <1>n DEF IsDisk
<1> QED BY <1>1, <1>5, <1>6, <1>7, <1>8, DoneOutside

\* The next daemon has no imports yet,
LEMMA DaemonStartsDone == ASSUME SetupInv, DoneInv, DaemonStarts PROVE DonePart'
<1>n. IsLink(link) /\ IsDaemon(daemon) /\ IsDisk /\ LineOK(link) /\ LinkOK(link, daemon)
      /\ Numbered(link, daemon, disk.installed)
  BY DoneNow
<1>1. UNCHANGED <<disk, flights, wizard, link>> /\ daemon.state = "down"
  BY DEF DaemonStarts, Running
<1>2. daemon' = [state |-> "up", jobs |-> <<>>, next |-> 1, starting |-> FALSE]
  BY DEF DaemonStarts
<1>3. daemon'.jobs = <<>> /\ DOMAIN <<>> = {}
  BY <1>2
<1>4. link.state # "up"
  BY <1>1, <1>n DEF LinkOK
<1>5. /\ NoneMine(link.requests, link.answers) => NoneMine(link'.requests, link'.answers)
      /\ \A t \in Wanted :
           Imports(wizard.job, link.requests, link.answers, daemon.jobs, disk.installed, t)
             => Imports(wizard.job, link'.requests, link'.answers, daemon'.jobs,
                        disk'.installed, t)
  BY <1>1, <1>3, FewerLead
<1>6. Numbered(link', daemon', disk'.installed)
  BY <1>1, <1>3, <1>4, <1>n DEF Numbered
<1>7. IsDisk'
  BY <1>1, <1>n DEF IsDisk
<1> QED BY <1>1, <1>5, <1>6, <1>7, <1>n, DoneOutside

\* nor is there anything to read on the next connection.
LEMMA LinkUpDone == ASSUME SetupInv, DoneInv, LinkUp PROVE DonePart'
<1>n. IsLink(link) /\ IsDisk /\ LineOK(link) /\ LinkOK(link, daemon)
      /\ Numbered(link, daemon, disk.installed)
  BY DoneNow
<1>1. /\ UNCHANGED <<disk, flights, wizard, daemon>>
      /\ link.state = "down" /\ link' = [link EXCEPT !.state = "up"]
  BY DEF LinkUp
<1>2. /\ link'.requests = link.requests /\ link'.answers = link.answers
      /\ link'.calls = link.calls
  BY ONLY <1>1, <1>n DEF IsLink
<1>3. DOMAIN link'.answers = {}
  <2>1. DOMAIN <<>> = {}
    OBVIOUS
  <2>2. link.answers = <<>>
    BY <1>1, <1>n DEF LinkOK
  <2> QED BY <1>2, <2>1, <2>2
<1>4. Numbered(link', daemon', disk'.installed)
  BY <1>1, <1>3, <1>n DEF Numbered
<1>5. IsDisk' /\ LineOK(link')
  BY <1>1, <1>2, <1>n DEF IsDisk, LineOK
<1> QED BY <1>1, <1>2, <1>4, <1>5, DoneOutside

\* The answer to an import carries a number no other import has.
LEMMA DaemonAnswersDone == ASSUME SetupInv, DoneInv, DaemonAnswers PROVE DonePart'
<1>n. /\ IsLink(link) /\ IsDaemon(daemon) /\ LinkOK(link, daemon) /\ IsDisk /\ LineOK(link)
      /\ Numbered(link, daemon, disk.installed)
      /\ wizard.job # 0 => Comes(link, daemon, wizard.job, 0)
  BY DoneNow
<1>1. PICK call : call = Head(link.requests)
  OBVIOUS
<1>2. PICK m : m = [call |-> call,
                    job |-> IF call.method = "dictionaries.import" THEN daemon.next ELSE 0,
                    titles |-> disk.installed, ok |-> TRUE]
  OBVIOUS
<1>3. link.state = "up" /\ link.requests # <<>> /\ UNCHANGED <<disk, flights, wizard>>
  BY DEF DaemonAnswers
<1>4. /\ link' = Told([link EXCEPT !.requests = Tail(@)], m)
      /\ daemon' = IF call.method = "dictionaries.import"
                   THEN [daemon EXCEPT !.next = @ + 1,
                                       !.jobs = Append(@, [id |-> daemon.next, file |-> call.of])]
                   ELSE IF call.method = "shutdown" THEN [daemon EXCEPT !.state = "ending"]
                   ELSE daemon
  BY <1>1, <1>2, Zenon DEF DaemonAnswers
<1>5. PICK q : q = Tail(link.requests)
  OBVIOUS
<1>6. PICK b : b = Append(link.answers, m)
  OBVIOUS
<1>7. /\ link'.state = "up" /\ link'.calls = link.calls
      /\ link'.requests = q /\ link'.answers = b
  <2>1. PICK l : l = [link EXCEPT !.requests = q]
    OBVIOUS
  <2>2. l.state = "up" /\ l.answers = link.answers
    BY ONLY <2>1, <1>3, <1>n DEF IsLink
  <2>3. link' = [l EXCEPT !.answers = b]
    BY <1>4, <1>5, <1>6, <2>1, <2>2 DEF Told
  <2>4. link' = [link EXCEPT !.requests = q, !.answers = b]
    BY <2>1, <2>3
  <2> QED BY ONLY <2>4, <1>3, <1>n DEF IsLink
<1>8. /\ m.call = call /\ m.titles = disk.installed
      /\ call.method = "dictionaries.import" => m.job = daemon.next
      /\ call.method # "dictionaries.import" => m.job = 0
  <2>1. m.call = call /\ m.titles = disk.installed
        /\ m.job = IF call.method = "dictionaries.import" THEN daemon.next ELSE 0
    BY ONLY <1>2
  <2> QED BY ONLY <2>1
<1>9. /\ \E S : link.requests \in Seq(S) /\ \E T : link.answers \in Seq(T)
      /\ daemon.next \in Nat \ {0} /\ \E S : daemon.jobs \in Seq(S)
  BY <1>n DEF LineOK, LinkOK
<1>10. PICK job : job = [id |-> daemon.next, file |-> call.of]
  OBVIOUS
<1>11. /\ job.id = daemon.next /\ job.file = call.of
       /\ \A i \in DOMAIN daemon'.jobs :
            \/ i \in DOMAIN daemon.jobs /\ daemon'.jobs[i] = daemon.jobs[i]
            \/ daemon'.jobs[i] = job /\ call.method = "dictionaries.import"
       /\ call.method = "dictionaries.import" => daemon'.next = daemon.next + 1
       /\ call.method # "dictionaries.import" => daemon'.next = daemon.next
  <2>0. job.id = daemon.next /\ job.file = call.of
    BY ONLY <1>10
  <2>1. CASE call.method = "dictionaries.import"
    <3>1. PICK jobs : jobs = Append(daemon.jobs, job)
      OBVIOUS
    <3>2. daemon' = [daemon EXCEPT !.next = @ + 1, !.jobs = jobs]
      BY <1>4, <1>10, <2>1, <3>1
    <3>3. daemon'.next = daemon.next + 1 /\ daemon'.jobs = jobs
      BY ONLY <3>2, <1>n DEF IsDaemon
    <3>4. /\ Len(daemon.jobs) \in Nat /\ DOMAIN daemon.jobs = 1 .. Len(daemon.jobs)
          /\ DOMAIN jobs = 1 .. (Len(daemon.jobs) + 1)
          /\ \A i \in DOMAIN daemon.jobs : i \in DOMAIN jobs /\ jobs[i] = daemon.jobs[i]
          /\ jobs[Len(daemon.jobs) + 1] = job
      BY ONLY <1>9, <3>1, AddedIs
    <3>5. \A i \in DOMAIN jobs : (i \in DOMAIN daemon.jobs /\ jobs[i] = daemon.jobs[i])
                                 \/ jobs[i] = job
      BY ONLY <3>4
    <3> QED BY <2>0, <2>1, <3>3, <3>5
  <2>2. CASE call.method # "dictionaries.import"
    <3>1. daemon' = [daemon EXCEPT !.state = "ending"] \/ daemon' = daemon
      BY <1>4, <2>2
    <3>2. daemon'.next = daemon.next /\ daemon'.jobs = daemon.jobs
      BY ONLY <3>1, <1>n DEF IsDaemon
    <3> QED BY <2>0, <2>2, <3>2
  <2> QED BY <2>1, <2>2
<1>12. /\ NoneMine(link.requests, link.answers) => NoneMine(q, b)
       /\ OneMine(link.requests, link.answers) => OneMine(q, b)
       /\ OneMine(link.requests, link.answers) /\ Mine(m.call) =>
            /\ \A i \in DOMAIN q : ~Mine(q[i])
            /\ \A i \in DOMAIN link.answers : ~Mine(link.answers[i].call)
       /\ \A i \in DOMAIN q : \E j \in DOMAIN link.requests : q[i] = link.requests[j]
       /\ \A i \in DOMAIN b : (i \in DOMAIN link.answers /\ b[i] = link.answers[i]) \/ b[i] = m
  <2>1. PICK r : r = link.requests
    OBVIOUS
  <2>2. PICK a : a = link.answers
    OBVIOUS
  <2>3. (\E S : r \in Seq(S)) /\ (\E S : a \in Seq(S))
    BY <1>9, <2>1, <2>2
  <2>4. r # <<>> /\ q = Tail(r) /\ m.call = Head(r) /\ b = Append(a, m)
    BY <1>1, <1>3, <1>5, <1>6, <1>8, <2>1, <2>2
  <2>5. /\ NoneMine(r, a) => NoneMine(q, b)
        /\ OneMine(r, a) => OneMine(q, b)
        /\ OneMine(r, a) /\ Mine(m.call) =>
             (\A i \in DOMAIN q : ~Mine(q[i])) /\ (\A i \in DOMAIN a : ~Mine(a[i].call))
        /\ \A i \in DOMAIN q : \E j \in DOMAIN r : q[i] = r[j]
        /\ \A i \in DOMAIN b : (i \in DOMAIN a /\ b[i] = a[i]) \/ b[i] = m
    <3>1. Answered(r, a, m, q, b)
      BY ONLY <2>3, <2>4 DEF Answered
    <3> QED BY ONLY <3>1, AnswerIsTold
  <2> QED BY ONLY <2>1, <2>2, <2>5
<1>13. /\ \E S : q \in Seq(S)
       /\ \E j \in DOMAIN link.requests : call = link.requests[j]
  <2>1. \E S : link.requests \in Seq(S)
    BY <1>9
  <2>2. /\ \E S : q \in Seq(S)
        /\ Len(link.requests) \in Nat \ {0} /\ DOMAIN link.requests = 1 .. Len(link.requests)
        /\ Head(link.requests) = link.requests[1]
    BY ONLY <2>1, <1>3, <1>5, RestIs
  <2>3. 1 \in DOMAIN link.requests
    BY ONLY <2>2
  <2> QED BY <1>1, <2>2, <2>3
<1>14. LineOK(link')
  BY <1>7, <1>12, <1>13, <1>n DEF LineOK
<1>15. Numbered(link', daemon', disk'.installed)
  <2>1. call.method = "dictionaries.import" => call.of \notin Stays
    BY <1>13, <1>n DEF LineOK
  <2>2. ASSUME NEW i \in DOMAIN daemon'.jobs
        PROVE  daemon'.jobs[i].id \in 1 .. daemon'.next - 1 /\ daemon'.jobs[i].file \notin Stays
    <3>1. CASE i \in DOMAIN daemon.jobs /\ daemon'.jobs[i] = daemon.jobs[i]
      <4>1. daemon.jobs[i].id \in 1 .. daemon.next - 1 /\ daemon.jobs[i].file \notin Stays
        BY <1>n, <3>1 DEF Numbered
      <4>2. daemon'.next \in {daemon.next, daemon.next + 1}
        BY <1>11
      <4>3. 1 .. daemon.next - 1 \subseteq 1 .. daemon'.next - 1
        BY ONLY <1>9, <4>2
      <4> QED BY <3>1, <4>1, <4>3
    <3>2. CASE daemon'.jobs[i] = job /\ call.method = "dictionaries.import"
      BY <1>9, <1>11, <2>1, <3>2
    <3> QED BY <1>11, <3>1, <3>2
  <2>3. ASSUME NEW i \in DOMAIN b
        PROVE  /\ b[i].call.method = "dictionaries.list" => b[i].titles \subseteq disk.installed
               /\ b[i].job \in 0 .. daemon'.next - 1
    <3>1. CASE i \in DOMAIN link.answers /\ b[i] = link.answers[i]
      <4>1. /\ b[i].call.method = "dictionaries.list" => b[i].titles \subseteq disk.installed
            /\ b[i].job \in 0 .. daemon.next - 1
        BY <1>3, <1>n, <3>1 DEF Numbered
      <4> QED BY <1>9, <1>11, <4>1
    <3>2. CASE b[i] = m
      BY <1>8, <1>9, <1>11, <3>2
    <3> QED BY <1>12, <3>1, <3>2
  <2> QED BY <1>3, <1>7, <2>2, <2>3 DEF Numbered
<1>16. ASSUME NEW j \in 1 .. daemon.next - 1, NEW t,
              Leads(link.answers, daemon.jobs, disk.installed, j, t)
       PROVE  Leads(b, daemon'.jobs, disk.installed, j, t)
  <2>1. m.call.method # "import.finished" \/ m.job # j
    BY <1>8, <1>16
  <2>2. job.id # j
    BY <1>9, <1>11, <1>16
  <2>3. \A i \in DOMAIN b : \/ i \in DOMAIN link.answers /\ b[i] = link.answers[i]
                            \/ b[i].call.method # "import.finished"
                            \/ b[i].job # j
    BY ONLY <1>12, <2>1
  <2>4. \A i \in DOMAIN daemon'.jobs :
          \/ i \in DOMAIN daemon.jobs /\ daemon'.jobs[i] = daemon.jobs[i]
          \/ daemon'.jobs[i].id # j
    BY ONLY <1>11, <2>2
  <2> QED BY ONLY <1>16, <2>3, <2>4, OtherLeads
<1>17. ASSUME NEW t, Imports(wizard.job, link.requests, link.answers, daemon.jobs,
                             disk.installed, t)
       PROVE  Imports(wizard.job, q, b, daemon'.jobs, disk.installed, t)
  <2>1. CASE wizard.job # 0
    <3>1. wizard.job \in 0 .. daemon.next - 1
      BY <1>3, <1>9, <1>n, <2>1, JobIsNumbered
    <3>2. wizard.job \in 1 .. daemon.next - 1
      BY <1>9, <2>1, <3>1
    <3> QED BY <1>12, <1>16, <1>17, <2>1, <3>2 DEF Imports
  <2>2. CASE wizard.job = 0
    <3>1. /\ OneMine(link.requests, link.answers)
          /\ \A i \in DOMAIN link.requests : Mine(link.requests[i]) => link.requests[i].of = t
          /\ \A i \in DOMAIN link.answers : Mine(link.answers[i].call)
               => Leads(link.answers, daemon.jobs, disk.installed, link.answers[i].job, t)
      BY <1>17, <2>2 DEF Imports
    <3>2. OneMine(q, b) /\ \A i \in DOMAIN q : Mine(q[i]) => q[i].of = t
      BY ONLY <1>12, <3>1
    <3>3. ASSUME NEW i \in DOMAIN b, Mine(b[i].call)
          PROVE  Leads(b, daemon'.jobs, disk.installed, b[i].job, t)
      <4>1. CASE i \in DOMAIN link.answers /\ b[i] = link.answers[i]
        <5>1. b[i].job \in Nat \ {0}
          BY <1>n, <3>3, <4>1 DEF LinkOK, Mine
        <5>2. b[i].job \in 0 .. daemon.next - 1
          BY <1>3, <1>n, <4>1 DEF Numbered
        <5>3. b[i].job \in 1 .. daemon.next - 1
          BY <1>9, <5>1, <5>2
        <5> QED BY <1>16, <3>1, <3>3, <4>1, <5>3
      <4>2. CASE b[i] = m
        <5>1. /\ call.method = "dictionaries.import" /\ m.job = daemon.next
              /\ Mine(call)
          BY <1>8, <3>3, <4>2 DEF Mine
        <5>2. call.of = t
          BY <1>13, <3>1, <5>1
        <5>3. \A x \in DOMAIN daemon'.jobs :
                 daemon'.jobs[x].id = daemon.next => daemon'.jobs[x].file = t
          <6> SUFFICES ASSUME NEW x \in DOMAIN daemon'.jobs, daemon'.jobs[x].id = daemon.next
                       PROVE  daemon'.jobs[x].file = t
            OBVIOUS
          <6>1. CASE x \in DOMAIN daemon.jobs /\ daemon'.jobs[x] = daemon.jobs[x]
            BY <1>9, <1>n, <6>1 DEF Numbered
          <6>2. CASE daemon'.jobs[x] = job
            BY <1>11, <5>2, <6>2
          <6> QED BY <1>11, <6>1, <6>2
        <5>4. \A x \in DOMAIN b : ~(b[x].call.method = "import.finished" /\ b[x].job = daemon.next)
          <6> SUFFICES ASSUME NEW x \in DOMAIN b, b[x].call.method = "import.finished",
                              b[x].job = daemon.next
                       PROVE  FALSE
            OBVIOUS
          <6>1. CASE x \in DOMAIN link.answers /\ b[x] = link.answers[x]
            BY <1>3, <1>9, <1>n, <6>1 DEF Numbered
          <6>2. CASE b[x] = m
            BY <1>8, <5>1, <6>2
          <6> QED BY <1>12, <6>1, <6>2
        <5> QED BY <4>2, <5>1, <5>3, <5>4 DEF Leads
      <4> QED BY <1>12, <4>1, <4>2
    <3> QED BY <2>2, <3>2, <3>3 DEF Imports
  <2> QED BY <2>1, <2>2
<1>18. disk' = disk /\ IsDisk' /\ UNCHANGED <<wizard, flights>>
  BY <1>3, <1>n DEF IsDisk
<1>19. /\ NoneMine(link.requests, link.answers) => NoneMine(link'.requests, link'.answers)
       /\ \A t \in Wanted :
            Imports(wizard.job, link.requests, link.answers, daemon.jobs, disk.installed, t)
              => Imports(wizard.job, link'.requests, link'.answers, daemon'.jobs,
                         disk'.installed, t)
  BY <1>7, <1>12, <1>17, <1>18
<1> QED BY <1>14, <1>15, <1>18, <1>19, DoneOutside

\* An import that is well done has installed what was imported.
LEMMA DaemonImportsDone == ASSUME SetupInv, DoneInv, DaemonImports PROVE DonePart'
<1>n. /\ IsLink(link) /\ IsDaemon(daemon) /\ LinkOK(link, daemon) /\ IsDisk /\ LineOK(link)
      /\ Numbered(link, daemon, disk.installed)
  BY DoneNow
<1>1. daemon.jobs # <<>> /\ UNCHANGED <<flights, wizard>>
  BY DEF DaemonImports
<1>2. PICK ok, call, m :
        /\ call = Call("daemon", "import.finished", "none")
        /\ m = [call |-> call, job |-> Head(daemon.jobs).id, titles |-> {}, ok |-> ok]
        /\ link' = Told(link, m)
        /\ daemon' = [daemon EXCEPT !.jobs = Tail(@)]
        /\ disk' = [files |-> disk.files \ {Head(daemon.jobs).file},
                    installed |-> disk.installed
                                    \cup (IF ok THEN {Head(daemon.jobs).file} ELSE {})]
  BY Zenon DEF DaemonImports
<1>3. PICK first : first = Head(daemon.jobs)
  OBVIOUS
<1>4. PICK rest : rest = Tail(daemon.jobs)
  OBVIOUS
<1>5. daemon'.jobs = rest /\ daemon'.next = daemon.next
  <2>1. daemon' = [daemon EXCEPT !.jobs = rest]
    BY <1>2, <1>4
  <2> QED BY ONLY <2>1, <1>n DEF IsDaemon
<1>6. /\ m.call = call /\ m.job = first.id /\ m.titles = {} /\ m.ok = ok
      /\ call.method = "import.finished" /\ ~Mine(call)
  <2>1. m.call = call /\ m.job = first.id /\ m.titles = {} /\ m.ok = ok
    BY ONLY <1>2, <1>3
  <2>2. call.method = "import.finished"
    BY <1>2 DEF Call
  <2> QED BY <2>1, <2>2 DEF Mine
<1>7. /\ IsDisk' /\ disk'.files = disk.files \ {first.file}
      /\ disk.installed \subseteq disk'.installed
      /\ ok => first.file \in disk'.installed
  <2>1. PICK more : more = disk.installed \cup (IF ok THEN {first.file} ELSE {})
    OBVIOUS
  <2>2. disk' = [files |-> disk.files \ {first.file}, installed |-> more]
    BY <1>2, <1>3, <2>1
  <2>3. disk'.files = disk.files \ {first.file} /\ disk'.installed = more /\ IsDisk'
    BY ONLY <2>2 DEF IsDisk
  <2> QED BY <2>1, <2>3
<1>8. \E S : daemon.jobs \in Seq(S)
  BY <1>n DEF LinkOK
<1>9. /\ \E i \in DOMAIN daemon.jobs : first = daemon.jobs[i]
      /\ \A i \in DOMAIN rest : \E j \in DOMAIN daemon.jobs : rest[i] = daemon.jobs[j]
  <2>1. /\ Len(daemon.jobs) \in Nat \ {0} /\ DOMAIN daemon.jobs = 1 .. Len(daemon.jobs)
        /\ Head(daemon.jobs) = daemon.jobs[1]
        /\ \A i \in DOMAIN rest : i + 1 \in DOMAIN daemon.jobs /\ rest[i] = daemon.jobs[i + 1]
    BY ONLY <1>1, <1>4, <1>8, RestIs
  <2>2. 1 \in DOMAIN daemon.jobs
    BY ONLY <2>1
  <2> QED BY ONLY <1>3, <2>1, <2>2
<1>10. first.id \in 1 .. daemon.next - 1 /\ first.file \notin Stays
  BY <1>9, <1>n DEF Numbered
<1>11. PICK b : b = link'.answers
  OBVIOUS
<1>12. /\ link'.state = link.state /\ link'.requests = link.requests /\ link'.calls = link.calls
       /\ NoneMine(link.requests, link.answers) => NoneMine(link.requests, b)
       /\ OneMine(link.requests, link.answers) => OneMine(link.requests, b)
       /\ \A i \in DOMAIN b : Mine(b[i].call) => i \in DOMAIN link.answers /\ b[i] = link.answers[i]
       /\ \A i \in DOMAIN b : (i \in DOMAIN link.answers /\ b[i] = link.answers[i]) \/ b[i] = m
  <2>1. CASE link.state # "up"
    <3>1. link' = link
      BY <1>2, <2>1 DEF Told
    <3> QED BY <1>11, <3>1
  <2>2. CASE link.state = "up"
    <3>1. PICK a : a = Append(link.answers, m)
      OBVIOUS
    <3>2. link' = [link EXCEPT !.answers = a]
      BY <1>2, <2>2, <3>1 DEF Told
    <3>3. /\ link'.state = link.state /\ link'.requests = link.requests
          /\ link'.calls = link.calls /\ link'.answers = a
      BY ONLY <3>2, <1>n DEF IsLink
    <3>4. (\E S : link.answers \in Seq(S)) /\ ~Mine(m.call)
      BY <1>6, <1>n DEF LinkOK
    <3>5. /\ NoneMine(link.requests, link.answers) => NoneMine(link.requests, a)
          /\ OneMine(link.requests, link.answers) => OneMine(link.requests, a)
          /\ \A i \in DOMAIN a : Mine(a[i].call)
                                   => i \in DOMAIN link.answers /\ a[i] = link.answers[i]
      <4>1. PICK q : q = link.requests
        OBVIOUS
      <4>2. PICK c : c = link.answers
        OBVIOUS
      <4>3. (\E S : c \in Seq(S)) /\ ~Mine(m.call) /\ a = Append(c, m)
        BY <3>1, <3>4, <4>2
      <4>t. Tells(c, m, a)
        BY <4>3 DEF Tells
      <4>4. /\ NoneMine(q, c) => NoneMine(q, a)
            /\ OneMine(q, c) => OneMine(q, a)
            /\ \A i \in DOMAIN a : Mine(a[i].call) => i \in DOMAIN c /\ a[i] = c[i]
        BY ONLY <4>3, <4>t, OtherIsTold
      <4> QED BY ONLY <4>1, <4>2, <4>4
    <3>6. /\ Len(link.answers) \in Nat /\ DOMAIN link.answers = 1 .. Len(link.answers)
          /\ DOMAIN a = 1 .. (Len(link.answers) + 1)
          /\ \A i \in DOMAIN link.answers : i \in DOMAIN a /\ a[i] = link.answers[i]
          /\ a[Len(link.answers) + 1] = m
      BY ONLY <3>1, <3>4, AddedIs
    <3>7. \A i \in DOMAIN a : (i \in DOMAIN link.answers /\ a[i] = link.answers[i]) \/ a[i] = m
      BY ONLY <3>6
    <3> QED BY <1>11, <3>3, <3>5, <3>7
  <2> QED BY <2>1, <2>2
<1>13. ASSUME NEW j, NEW t, Leads(link.answers, daemon.jobs, disk.installed, j, t)
       PROVE  Leads(b, rest, disk'.installed, j, t)
  <2>1. m.job = Head(daemon.jobs).id /\ (m.ok => Head(daemon.jobs).file \in disk'.installed)
    BY <1>3, <1>6, <1>7
  <2>2. \A i \in DOMAIN b :
          \/ i \in DOMAIN link.answers /\ b[i] = link.answers[i]
          \/ /\ b[i].job = Head(daemon.jobs).id
             /\ b[i].ok => Head(daemon.jobs).file \in disk'.installed
    BY ONLY <1>12, <2>1
  <2>3. daemon.jobs # <<>> /\ disk.installed \subseteq disk'.installed
    BY <1>1, <1>7
  <2>4. Leads(b, Tail(daemon.jobs), disk'.installed, j, t)
    BY ONLY <1>8, <1>13, <2>2, <2>3, DoneLeads
  <2> QED BY <1>4, <2>4
<1>14. ASSUME NEW t, Imports(wizard.job, link.requests, link.answers, daemon.jobs,
                             disk.installed, t)
       PROVE  Imports(wizard.job, link.requests, b, rest, disk'.installed, t)
  BY ONLY <1>12, <1>13, <1>14 DEF Imports
<1>15. LineOK(link')
  BY <1>12, <1>n DEF LineOK
<1>16. Numbered(link', daemon', disk'.installed)
  <2>1. \A i \in DOMAIN rest : rest[i].id \in 1 .. daemon.next - 1 /\ rest[i].file \notin Stays
    BY <1>9, <1>n DEF Numbered
  <2>2. ASSUME NEW i \in DOMAIN b
        PROVE  /\ b[i].call.method = "dictionaries.list" => b[i].titles \subseteq disk'.installed
               /\ link.state = "up" => b[i].job \in 0 .. daemon.next - 1
    <3>1. CASE i \in DOMAIN link.answers /\ b[i] = link.answers[i]
      BY <1>7, <1>n, <3>1 DEF Numbered
    <3>2. CASE b[i] = m
      <4>1. b[i].call.method = "import.finished" /\ b[i].job = first.id
        BY <1>6, <3>2
      <4> QED BY <1>10, <4>1
    <3> QED BY <1>12, <3>1, <3>2
  <2> QED BY <1>5, <1>11, <1>12, <2>1, <2>2 DEF Numbered
<1>17. Stays \cap disk.files \subseteq disk'.files
  BY <1>7, <1>10
<1>18. /\ NoneMine(link.requests, link.answers) => NoneMine(link'.requests, link'.answers)
       /\ \A t \in Wanted :
            Imports(wizard.job, link.requests, link.answers, daemon.jobs, disk.installed, t)
              => Imports(wizard.job, link'.requests, link'.answers, daemon'.jobs,
                         disk'.installed, t)
  BY <1>5, <1>11, <1>12, <1>14
<1> QED BY <1>1, <1>7, <1>15, <1>16, <1>17, <1>18, DoneOutside

-----------------------------------------------------------------------------
(* What the wizard does about it.                                          *)

\* Its end of an install is what is unpacked and installed.
LEMMA OverHas ==
  ASSUME SetupInv, DoneInv, wizard.stage \in {"wait", "redist"}
  PROVE  /\ Over(wizard) /\ Asked(link) = {}
         /\ DictsOf(flights) = {} /\ FilesOf(flights) = {}
         /\ Wanted \subseteq disk.installed /\ "ocr" \in disk.files
         /\ wizard.stage = "redist" => "library" \in disk.files
<1>1. Ending(wizard, Asked(link), DictsOf(flights), FilesOf(flights))
  BY DEF SetupInv, AllOK, WizardOK, Resting, Listing, Beginning, Loading, Counting
<1>2. Done(wizard, link, daemon, disk.files, disk.installed, DictsOf(flights), FilesOf(flights))
  BY DoneNow
<1>3. Over(wizard) /\ Asked(link) = {} /\ DictsOf(flights) = {} /\ FilesOf(flights) = {}
  BY <1>1 DEF Ending, Over
<1> QED BY <1>2, <1>3 DEF Over, Done

\* Microsoft's installer takes away nothing that stays.
LEMMA RedistRunsDone == ASSUME SetupInv, DoneInv, RedistRuns PROVE DonePart'
<1>n. /\ IsWizard(wizard) /\ IsLink(link) /\ IsDaemon(daemon) /\ IsDisk /\ LineOK(link)
      /\ Numbered(link, daemon, disk.installed)
  BY DoneNow
<1>1. PICK ok, o :
        /\ o = [Now EXCEPT !.f = Redistributed(@, ok), !.d.starting = @ \/ ok]
        /\ \/ /\ wizard.stage = "redist"
              /\ Becomes(FinishInstall(o, ~ok))
              /\ UNCHANGED installs
           \/ \E who \in DOMAIN installs :
                /\ installs[who].stage = "redist"
                /\ installs' = [installs EXCEPT ![who] = Idle]
                /\ Becomes(o)
  BY Zenon DEF RedistRuns
<1>2. flights' = flights
  BY DEF RedistRuns
<1>3. PICK d : d = [daemon EXCEPT !.starting = @ \/ ok]
  OBVIOUS
<1>4. PICK f : f = Redistributed(disk.files, ok)
  OBVIOUS
<1>5. o = [w |-> wizard, l |-> link, f |-> f, d |-> d]
  <2>1. Now = [w |-> wizard, l |-> link, f |-> disk.files, d |-> daemon]
    BY NowIs
  <2> QED BY ONLY <1>1, <1>3, <1>4, <2>1
<1>6. IsDaemon(d) /\ d.jobs = daemon.jobs /\ d.next = daemon.next
  BY <1>3, <1>n, StartingIs
<1>7. o.w = wizard /\ o.l = link /\ o.d = d /\ o.f = f /\ IsNow(o)
  BY <1>5, <1>6, <1>n DEF IsNow
<1>8. Stays \cap disk.files \subseteq f
  BY <1>4 DEF Redistributed, Stays
<1>9. Numbered(link, d, disk.installed)
  BY <1>6, <1>n DEF Numbered
<1>10. CASE wizard.stage = "redist" /\ Becomes(FinishInstall(o, ~ok))
  <2>1. PICK r : r = FinishInstall(o, ~ok)
    OBVIOUS
  <2>2. AllThere(o.f, disk.installed)
    BY <1>7, <1>8, <1>10, OverHas DEF AllThere, Stays
  <2>3. DoneBy(r, disk.installed, DictsOf(flights'), FilesOf(flights'))
    BY <1>7, <1>n, <2>1, <2>2, FinishDone
  <2>4. Keeps(o, r)
    <3>1. r.l = o.l /\ r.d = o.d
      BY <1>7, <2>1, FinishIs
    <3> QED BY <3>1 DEF Keeps
  <2> QED BY <1>7, <1>9, <1>10, <1>n, <2>1, <2>3, <2>4, Lands
<1>11. CASE Becomes(o)
  <2>1. /\ wizard' = wizard /\ link' = link /\ daemon' = d
        /\ disk' = [disk EXCEPT !.files = f]
    BY <1>7, <1>11 DEF Becomes
  <2>2. IsDisk' /\ disk'.files = f /\ disk'.installed = disk.installed
    BY ONLY <1>n, <2>1 DEF IsDisk
  <2> QED BY <1>2, <1>6, <1>8, <1>9, <1>n, <2>1, <2>2, DoneOutside
<1> QED BY <1>1, <1>10, <1>11

\* The runtime is unpacked where all the rest is there.
LEMMA UnpackDone == ASSUME SetupInv, DoneInv, Unpack PROVE DonePart'
<1>n. /\ IsWizard(wizard) /\ IsLink(link) /\ IsDaemon(daemon) /\ IsDisk /\ LineOK(link)
      /\ Numbered(link, daemon, disk.installed)
  BY DoneNow
<1>1. PICK o : o = [Now EXCEPT !.w.stage = "none"]
  OBVIOUS
<1>2. PICK u : u = [wizard EXCEPT !.stage = "none"]
  OBVIOUS
<1>3. o = [w |-> u, l |-> link, f |-> disk.files, d |-> daemon]
  <2>1. Now = [w |-> wizard, l |-> link, f |-> disk.files, d |-> daemon]
    BY NowIs
  <2> QED BY ONLY <1>1, <1>2, <2>1
<1>4. /\ IsWizard(u) /\ Same(u, wizard)
      /\ u.installing = wizard.installing /\ u.page = wizard.page
      /\ u.finishing = wizard.finishing
  BY <1>2, <1>n, StageIs
<1>5. PICK r \in UnpackRuntime(o) : Becomes(r)
  BY <1>1 DEF Unpack
<1>6. /\ Over(wizard) /\ Asked(link) = {}
      /\ Wanted \subseteq disk.installed /\ "ocr" \in disk.files
  BY OverHas DEF Unpack
<1>7. o.w = u /\ o.l = link /\ o.d = daemon /\ o.f = disk.files /\ IsNow(o) /\ Over(o.w)
  <2>1. Quiet(u)
    BY <1>4, <1>6, SameQuiet DEF Over
  <2> QED BY <1>3, <1>4, <1>6, <1>n, <2>1 DEF IsNow, Over
<1>8. Keeps(o, r)
  <2>1. Result(o, r, {}, {})
    BY <1>5, <1>6, <1>7, UnpackRuntimeOK
  <2> QED BY <2>1 DEF Result
<1>9. DoneBy(r, disk.installed, DictsOf(flights'), FilesOf(flights'))
  BY <1>5, <1>6, <1>7, <1>n, UnpackRuntimeDone
<1> QED BY <1>5, <1>7, <1>8, <1>9, <1>n, Lands

\* An install begins with nothing failed and no import of its own on the way.
LEMMA StartInstallDone == ASSUME SetupInv, DoneInv, StartInstall PROVE DonePart'
<1>n. /\ IsWizard(wizard) /\ IsLink(link) /\ IsDaemon(daemon) /\ IsDisk /\ LineOK(link)
      /\ Numbered(link, daemon, disk.installed) /\ FlightsOK(flights)
      /\ Done(wizard, link, daemon, disk.files, disk.installed,
              DictsOf(flights), FilesOf(flights))
      /\ WizardOK(wizard, Asked(link), DictsOf(flights), FilesOf(flights))
  BY DoneNow
<1>1. PICK o : o = [Now EXCEPT !.w.page = "install", !.w.installing = TRUE, !.w.stage = "list"]
  OBVIOUS
<1>2. PICK u : u = [wizard EXCEPT !.page = "install", !.installing = TRUE, !.stage = "list"]
  OBVIOUS
<1>3. o = [w |-> u, l |-> link, f |-> disk.files, d |-> daemon]
  <2>1. Now = [w |-> wizard, l |-> link, f |-> disk.files, d |-> daemon]
    BY NowIs
  <2> QED BY ONLY <1>1, <1>2, <2>1
<1>4. /\ IsWizard(u) /\ Same(u, wizard) /\ u.finishing = wizard.finishing
      /\ u.installing = TRUE /\ u.page = "install" /\ u.stage = "list"
      /\ u.failed = wizard.failed
  BY ONLY <1>2, <1>n DEF IsWizard, Same
<1>5. /\ wizard.page = "languages"
      /\ IF Connected(link)
         THEN /\ Becomes([o EXCEPT !.l = Called(link, Call("wizard", "dictionaries.list", "none"))])
              /\ UNCHANGED flights
         ELSE Begins(o, {}, {})
  BY <1>1, Zenon DEF StartInstall
<1>6. Resting(wizard, Asked(link), DictsOf(flights), FilesOf(flights))
  BY <1>5, <1>n DEF WizardOK, Listing, Beginning, Ending, Loading, Counting
<1>7. /\ o.w = u /\ o.l = link /\ o.d = daemon /\ o.f = disk.files /\ IsNow(o) /\ Beginning(o.w)
      /\ Asked(link) = {} /\ DictsOf(flights) = {} /\ FilesOf(flights) = {}
      /\ ~u.failed /\ NoneMine(link.requests, link.answers)
  <2>1. Quiet(wizard) /\ ~wizard.finishing
    BY <1>5, <1>6 DEF Resting
  <2>2. Quiet(u)
    BY <1>4, <2>1, SameQuiet
  <2>3. o.w = u /\ o.l = link /\ o.d = daemon /\ o.f = disk.files /\ IsNow(o)
    BY <1>3, <1>4, <1>n DEF IsNow
  <2>4. ~wizard.failed /\ NoneMine(link.requests, link.answers)
    BY <1>5, <1>n DEF Done
  <2> QED BY <1>4, <1>6, <2>1, <2>2, <2>3, <2>4 DEF Beginning, Resting
<1>8. CASE ~Connected(link)
  <2>1. Others({}) /\ Begins(o, {}, {})
    BY <1>5, <1>8 DEF Others
  <2> QED BY <1>7, <1>n, <2>1, BeginsDone
<1>9. CASE Connected(link)
  <2>1. PICK call : call = Call("wizard", "dictionaries.list", "none")
    OBVIOUS
  <2>2. PICK m : m = Called(link, call)
    OBVIOUS
  <2>3. PICK r : r = [o EXCEPT !.l = m]
    OBVIOUS
  <2>4. Becomes(r) /\ flights' = flights
    BY <1>5, <1>9, <2>1, <2>2, <2>3
  <2>5. r.w = u /\ r.l = m /\ r.f = disk.files /\ r.d = daemon
    BY ONLY <1>3, <2>3
  <2>6. call.method # "dictionaries.import" /\ ~Mine(call)
    BY <2>1 DEF Call, Mine
  <2>7. /\ LineOK(m) /\ m.answers = link.answers
        /\ m.requests \in {link.requests, Append(link.requests, call)}
    BY <1>n, <2>2, <2>6, CalledLine
  <2>8. NoneMine(m.requests, m.answers)
    <3>1. CASE m.requests = link.requests
      BY <1>7, <2>7, <3>1
    <3>2. CASE m.requests = Append(link.requests, call)
      <4>1. \E S : link.requests \in Seq(S)
        BY <1>n DEF LineOK
      <4>2. NoneMine(link.requests, link.answers) => NoneMine(m.requests, link.answers)
        BY ONLY <2>6, <3>2, <4>1, OtherIsAsked
      <4> QED BY <1>7, <2>7, <4>2
    <3> QED BY <2>7, <3>1, <3>2
  <2>9. DoneBy(r, disk.installed, DictsOf(flights'), FilesOf(flights'))
    BY <1>4, <1>7, <2>5, <2>7, <2>8 DEF DoneBy, Done, Beginning
  <2>10. Keeps(o, r)
    <3>1. m.state = link.state
      BY <1>n, <2>2, CalledIs
    <3> QED BY <1>7, <1>9, <2>5, <2>7, <3>1 DEF Keeps, Connected
  <2> QED BY <1>7, <1>n, <2>4, <2>9, <2>10, Lands
<1> QED BY <1>8, <1>9

\* Others begin something.
LEMMA InstallDone ==
  ASSUME SetupInv, DoneInv, NEW who \in DOMAIN installs, Install(who)
  PROVE  DonePart'
<1>1. PICK files : flights' = flights \cup {[for |-> who, file |-> f] : f \in files}
  BY Zenon DEF Install
<1>2. PICK extra : extra = {[for |-> who, file |-> f] : f \in files}
  OBVIOUS
<1>3. who # "wizard"
  BY DEF SetupInv
<1>4. Others(extra)
  <2>1. ASSUME NEW x \in extra
        PROVE  x = [for |-> x.for, file |-> x.file] /\ x.for # "wizard"
    <3>1. PICK f : x = [for |-> who, file |-> f]
      BY <1>2
    <3> QED BY ONLY <3>1, <1>3
  <2> QED BY <2>1 DEF Others
<1>5. UNCHANGED <<wizard, link, daemon, disk>>
  BY DEF Install
<1> QED BY <1>1, <1>2, <1>4, <1>5, DoneOthers

\* The dictionaries page has one more.
LEMMA EnqueueDownloadDone == ASSUME SetupInv, DoneInv, EnqueueDownload PROVE DonePart'
<1>1. PICK p, n : flights' = flights \cup Started(p, n)
  BY Zenon DEF EnqueueDownload
<1>2. UNCHANGED <<wizard, link, daemon, disk>>
  BY DEF EnqueueDownload
<1> QED BY <1>1, <1>2, StartedAreOthers, DoneOthers

\* What an installer counts takes away nothing that stays but a library it unpacks anew.
LEMMA CountedKeeps ==
  ASSUME NEW job, NEW files, NEW ok, NEW r \in Counted(job, files, ok)
  PROVE  Stays \cap files \subseteq r.files
<1>1. PICK c : c = [job EXCEPT !.left = @ - 1, !.failed = @ \/ ~ok]
  OBVIOUS
<1>2. \/ r = [job |-> c, files |-> files]
      \/ \E u : /\ u = [files |-> files, ok |-> TRUE] \/ u \in UnpackedOnce(files)
                /\ r.files = u.files \ {"redist"} \/ r.files = u.files
  <2>1. CASE c.left > 0
    BY <1>1, <2>1 DEF Counted
  <2>2. CASE ~(c.left > 0)
    <3>1. PICK u \in IF c.failed \/ ~job.unpack THEN {[files |-> files, ok |-> TRUE]}
                     ELSE UnpackedOnce(files) :
            r = IF c.failed \/ ~u.ok
                THEN [job |-> Idle, files |-> u.files \ (IF job.redist THEN {"redist"} ELSE {})]
                ELSE [job |-> IF job.redist THEN [c EXCEPT !.stage = "redist"] ELSE Idle,
                      files |-> u.files]
      BY <1>1, <2>2, Zenon DEF Counted
    <3>2. u = [files |-> files, ok |-> TRUE] \/ u \in UnpackedOnce(files)
      BY <3>1
    <3>3. r.files = u.files \ {"redist"} \/ r.files = u.files
      BY <3>1
    <3> QED BY <3>2, <3>3
  <2> QED BY <2>1, <2>2
<1>3. ASSUME NEW u \in UnpackedOnce(files)
      PROVE  Stays \cap files \subseteq u.files
  <2>1. CASE "library" \in files
    BY <2>1 DEF UnpackedOnce, Stays
  <2>2. CASE "library" \notin files
    <3>1. u \in Unpacked(files)
      BY <2>2 DEF UnpackedOnce
    <3>2. \/ u = [files |-> files, ok |-> FALSE]
          \/ u = [files |-> files \ {"archive"}, ok |-> FALSE]
          \/ u = [files |-> files \ {"archive", "library"}, ok |-> FALSE]
          \/ u = [files |-> (files \ {"archive"}) \cup {"library"}, ok |-> TRUE]
      BY <3>1 DEF Unpacked
    <3> QED BY <2>2, <3>2 DEF Stays
  <2> QED BY <2>1, <2>2
<1>4. "redist" \notin Stays
  BY DEF Stays
<1>5. CASE r = [job |-> c, files |-> files]
  BY <1>5
<1>6. CASE \E u : /\ u = [files |-> files, ok |-> TRUE] \/ u \in UnpackedOnce(files)
                  /\ r.files = u.files \ {"redist"} \/ r.files = u.files
  <2>1. PICK u : /\ u = [files |-> files, ok |-> TRUE] \/ u \in UnpackedOnce(files)
                 /\ r.files = u.files \ {"redist"} \/ r.files = u.files
    BY <1>6
  <2>2. Stays \cap files \subseteq u.files
    BY <1>3, <2>1
  <2> QED BY <1>4, <2>1, <2>2
<1> QED BY <1>2, <1>5, <1>6

\* A call of the page, which the wizard's do not notice.
LEMMA PageAsks ==
  ASSUME NEW l, IsLink(l), LineOK(l), NEW file, file \notin Stays, NEW m,
         m = Called(l, Call("page", "dictionaries.import", file))
  PROVE  /\ LineOK(m) /\ m.answers = l.answers /\ m.state = l.state
         /\ NoneMine(l.requests, l.answers) => NoneMine(m.requests, m.answers)
         /\ \A job, jobs, inst, t : Imports(job, l.requests, l.answers, jobs, inst, t)
                                      => Imports(job, m.requests, m.answers, jobs, inst, t)
<1>1. PICK call : call = Call("page", "dictionaries.import", file)
  OBVIOUS
<1>2. ~Mine(call) /\ call.of = file
  BY <1>1 DEF Call, Mine
<1>3. m = Called(l, call)
  BY <1>1
<1>4. /\ LineOK(m) /\ m.answers = l.answers
      /\ m.requests \in {l.requests, Append(l.requests, call)}
  BY <1>2, <1>3, CalledLine
<1>5. m.state = l.state
  BY ONLY <1>3, IsLink(l), CalledIs
<1>6. CASE m.requests = l.requests
  BY <1>4, <1>5, <1>6
<1>7. CASE m.requests = Append(l.requests, call)
  <2>1. \E S : l.requests \in Seq(S)
    BY DEF LineOK
  <2>2. /\ NoneMine(l.requests, l.answers) => NoneMine(m.requests, l.answers)
        /\ \A job, jobs, inst, t : Imports(job, l.requests, l.answers, jobs, inst, t)
                                     => Imports(job, m.requests, l.answers, jobs, inst, t)
    BY ONLY <1>2, <1>7, <2>1, OtherIsAsked
  <2> QED BY <1>4, <1>5, <2>2
<1> QED BY <1>4, <1>6, <1>7

\* A download that ends brings what the wizard counted on, or fails for it.
LEMMA DownloadEndsDone == ASSUME SetupInv, DoneInv, DownloadEnds PROVE DonePart'
<1>n. /\ IsWizard(wizard) /\ IsLink(link) /\ IsDaemon(daemon) /\ IsDisk /\ LineOK(link)
      /\ Numbered(link, daemon, disk.installed) /\ FlightsOK(flights)
      /\ DOMAIN installs = {"ocr", "translation"}
      /\ Done(wizard, link, daemon, disk.files, disk.installed,
              DictsOf(flights), FilesOf(flights))
      /\ WizardOK(wizard, Asked(link), DictsOf(flights), FilesOf(flights))
  BY DoneNow
<1>1. PICK x \in flights, ok \in BOOLEAN :
        LET o    == [Now EXCEPT !.f = IF ok THEN @ \cup {x.file} ELSE @]
            rest == flights \ {x}
        IN \/ /\ x.for = "wizard"
              /\ \E r \in IF x.file \in Wanted THEN DictDownloaded(o, x.file, ok)
                          ELSE OtherDownloaded(o, ok) : Becomes(r)
              /\ flights' = rest /\ UNCHANGED <<installs, offers>>
           \/ /\ x.for \in DOMAIN installs
              /\ \E r \in Counted(installs[x.for], o.f, ok) :
                   /\ installs' = [installs EXCEPT ![x.for] = r.job]
                   /\ disk' = [disk EXCEPT !.files = r.files]
              /\ flights' = rest /\ UNCHANGED <<wizard, link, daemon, offers>>
           \/ /\ x.for = "page"
              /\ disk' = [disk EXCEPT !.files = o.f]
              /\ IF ok /\ Connected(link)
                 THEN /\ link' = Called(link, Call("page", "dictionaries.import", x.file))
                      /\ flights' = rest /\ UNCHANGED offers
                 ELSE /\ offers' = NextDownloads(offers, 1)
                      /\ flights' = rest \cup Started(offers, 1)
                      /\ UNCHANGED link
              /\ UNCHANGED <<wizard, daemon, installs>>
  BY ZenonT(30) DEF DownloadEnds
<1>2. PICK rest : rest = flights \ {x}
  OBVIOUS
<1>3. x = [for |-> x.for, file |-> x.file] /\ FlightsOK(rest)
  BY <1>2, <1>n DEF FlightsOK
<1>4. PICK f : f = IF ok THEN disk.files \cup {x.file} ELSE disk.files
  OBVIOUS
<1>5. PICK o : o = [Now EXCEPT !.f = f]
  OBVIOUS
<1>6. o = [Now EXCEPT !.f = IF ok THEN @ \cup {x.file} ELSE @]
  BY <1>4, <1>5, NowIs
<1>7. IsNow(o) /\ o.w = wizard /\ o.l = link /\ o.d = daemon /\ o.f = f
  <2>1. Now = [w |-> wizard, l |-> link, f |-> disk.files, d |-> daemon]
    BY NowIs
  <2>2. o = [w |-> wizard, l |-> link, f |-> f, d |-> daemon]
    BY ONLY <1>5, <2>1
  <2> QED BY <2>2, <1>n DEF IsNow
<1>8. disk.files \subseteq f /\ (ok => x.file \in f)
  BY <1>4
<1>9. \/ /\ x.for = "wizard"
         /\ \E r \in IF x.file \in Wanted THEN DictDownloaded(o, x.file, ok)
                     ELSE OtherDownloaded(o, ok) : Becomes(r)
         /\ flights' = rest
      \/ /\ x.for \in DOMAIN installs
         /\ \E r \in Counted(installs[x.for], o.f, ok) : disk' = [disk EXCEPT !.files = r.files]
         /\ flights' = rest /\ UNCHANGED <<wizard, link, daemon>>
      \/ /\ x.for = "page" /\ disk' = [disk EXCEPT !.files = o.f]
         /\ \/ /\ link' = Called(link, Call("page", "dictionaries.import", x.file))
               /\ flights' = rest
            \/ flights' = rest \cup Started(offers, 1) /\ link' = link
         /\ UNCHANGED <<wizard, daemon>>
  BY <1>1, <1>2, <1>6, Zenon
<1>10. CASE x.for = "wizard"
  <2>1. /\ flights' = rest
        /\ \E r \in IF x.file \in Wanted THEN DictDownloaded(o, x.file, ok)
                    ELSE OtherDownloaded(o, ok) : Becomes(r)
    <3>1. "wizard" \notin DOMAIN installs /\ "wizard" # "page"
      BY <1>n
    <3> QED BY <1>9, <1>10, <3>1, Zenon
  <2>2. x = Flight(x.file) /\ x.file \in Wanted \cup Files
    BY <1>3, <1>10, <1>n DEF Flight, FlightsOK
  <2>3. Wanted \cap Files = {}
    BY WantedAssumption DEF Files
  <2>4. x.file \in DictsOf(flights) \/ x.file \in FilesOf(flights)
    BY <2>2 DEF DictsOf, FilesOf
  <2>5. Loading(wizard, Asked(link), DictsOf(flights), FilesOf(flights)) /\ Fed(wizard)
    BY <1>n, <2>4 DEF WizardOK, Resting, Listing, Ending
  <2>6. \A g : Flight(g) \in rest <=> Flight(g) \in flights /\ g # x.file
    <3>1. \A g : Flight(g) = x <=> g = x.file
      <4>1. \A g : Flight(g).file = g
        BY DEF Flight
      <4> QED BY <2>2, <4>1
    <3> QED BY <1>2, <3>1
  <2>7. DoneBy(o, disk.installed, DictsOf(flights), FilesOf(flights))
    <3>1. Done(wizard, link, daemon, f, disk.installed, DictsOf(flights), FilesOf(flights))
      BY <1>8, <1>n, DoneStays
    <3> QED BY <1>7, <3>1 DEF DoneBy
  <2>8. ASSUME NEW r, Becomes(r), Result(o, r, DictsOf(rest), FilesOf(rest)),
               DoneBy(r, disk.installed, DictsOf(rest), FilesOf(rest))
        PROVE  DonePart'
    BY <1>7, <1>n, <2>1, <2>8, Lands DEF Result
  <2>9. CASE x.file \in Wanted
    <3>1. DictsOf(rest) = DictsOf(flights) \ {x.file} /\ FilesOf(rest) = FilesOf(flights)
      BY <2>3, <2>6, <2>9 DEF DictsOf, FilesOf
    <3>2. x.file \in DictsOf(flights)
      BY <2>3, <2>4, <2>9 DEF FilesOf
    <3>3. PICK r \in DictDownloaded(o, x.file, ok) : Becomes(r)
      BY <2>1, <2>9
    <3>4. Result(o, r, DictsOf(flights) \ {x.file}, FilesOf(flights))
      BY <1>7, <2>5, <2>9, <3>2, <3>3, FlightsFinite, DictDownloadedOK
    <3>5. DoneBy(r, disk.installed, DictsOf(flights) \ {x.file}, FilesOf(flights))
      BY <1>7, <2>5, <2>7, <2>9, <3>2, <3>3, FlightsFinite, DictDownloadedDone
    <3> QED BY <2>8, <3>1, <3>3, <3>4, <3>5
  <2>10. CASE x.file \notin Wanted
    <3>1. DictsOf(rest) = DictsOf(flights) /\ FilesOf(rest) = FilesOf(flights) \ {x.file}
      BY <2>6, <2>10 DEF DictsOf, FilesOf
    <3>2. x.file \in FilesOf(flights)
      BY <2>4, <2>10 DEF DictsOf
    <3>3. PICK r \in OtherDownloaded(o, ok) : Becomes(r)
      BY <2>1, <2>10
    <3>4. Result(o, r, DictsOf(flights), FilesOf(flights) \ {x.file})
      BY <1>7, <2>5, <3>2, <3>3, FlightsFinite, OtherDownloadedOK
    <3>5. DoneBy(r, disk.installed, DictsOf(flights), FilesOf(flights) \ {x.file})
      BY <1>7, <1>8, <2>5, <2>7, <3>2, <3>3, FlightsFinite, OtherDownloadedDone
    <3> QED BY <2>8, <3>1, <3>3, <3>4, <3>5
  <2> QED BY <2>9, <2>10
<1>11. CASE x.for # "wizard"
  <2>1. DictsOf(rest) = DictsOf(flights) /\ FilesOf(rest) = FilesOf(flights)
    <3>1. \A g : Flight(g).for = "wizard"
      BY DEF Flight
    <3>2. \A g : Flight(g) \in flights <=> Flight(g) \in rest
      BY <1>2, <1>11, <3>1
    <3> QED BY <3>2 DEF DictsOf, FilesOf
  <2>2. PICK g : disk' = [disk EXCEPT !.files = g] /\ Stays \cap f \subseteq g
    <3>1. CASE \E r \in Counted(installs[x.for], o.f, ok) : disk' = [disk EXCEPT !.files = r.files]
      <4>1. PICK r \in Counted(installs[x.for], o.f, ok) : disk' = [disk EXCEPT !.files = r.files]
        BY <3>1
      <4> QED BY <1>7, <4>1, CountedKeeps
    <3>2. CASE disk' = [disk EXCEPT !.files = o.f]
      BY <1>7, <3>2
    <3> QED BY <1>9, <1>11, <3>1, <3>2
  <2>3. /\ IsDisk' /\ disk'.files = g /\ disk'.installed = disk.installed
    BY ONLY <1>n, <2>2 DEF IsDisk
  <2>4. Stays \cap disk.files \subseteq disk'.files /\ disk.installed \subseteq disk'.installed
    BY <1>8, <2>2, <2>3
  <2>5. DictsOf(flights') = DictsOf(flights) /\ FilesOf(flights') = FilesOf(flights)
    <3>1. flights' = rest \/ flights' = rest \cup Started(offers, 1)
      BY <1>9, <1>11
    <3>2. /\ DictsOf(rest \cup Started(offers, 1)) = DictsOf(rest)
          /\ FilesOf(rest \cup Started(offers, 1)) = FilesOf(rest)
      BY <1>3, StartedAreOthers, OthersFly
    <3> QED BY <2>1, <3>1, <3>2
  <2>6. wizard' = wizard /\ daemon' = daemon
    BY <1>9, <1>11
  <2>7. CASE link' = link
    BY <1>n, <2>3, <2>4, <2>5, <2>6, <2>7, DoneAside
  <2>8. CASE link' = Called(link, Call("page", "dictionaries.import", x.file)) /\ x.for = "page"
    <3>1. x.file \notin Stays
      BY <2>8, WantedAssumption DEF DoneInv, OffersOK, Stays
    <3>2. /\ LineOK(link') /\ link'.answers = link.answers /\ link'.state = link.state
          /\ NoneMine(link.requests, link.answers) => NoneMine(link'.requests, link'.answers)
          /\ \A t \in Wanted :
               Imports(wizard.job, link.requests, link.answers, daemon.jobs, disk.installed, t)
                 => Imports(wizard.job, link'.requests, link'.answers, daemon.jobs,
                            disk.installed, t)
      BY <1>n, <2>8, <3>1, PageAsks
    <3>3. Numbered(link', daemon', disk'.installed)
      BY <1>n, <2>3, <2>6, <3>2 DEF Numbered
    <3> QED BY <1>n, <2>3, <2>4, <2>5, <2>6, <3>2, <3>3, DoneAside
  <2> QED BY <1>9, <1>11, <2>7, <2>8
<1> QED BY <1>10, <1>11

-----------------------------------------------------------------------------
(* What it reads.                                                          *)

\* A connection on which fewer wait.
LEMMA FewerWait ==
  ASSUME NEW l, LineOK(l), NEW k, k.requests = l.requests, k.calls \subseteq l.calls
  PROVE  LineOK(k)
<1>1. IsFiniteSet(k.calls)
  BY FS_Subset DEF LineOK
<1> QED BY <1>1 DEF LineOK

\* It is known what the wizard has where o is what there is but for the connection.
LEMMA StillDone ==
  ASSUME SetupInv, DoneInv, NEW o, o.w = wizard, o.f = disk.files, o.d = daemon, LineOK(o.l),
         NoneMine(link.requests, link.answers) => NoneMine(o.l.requests, o.l.answers),
         \A t \in Wanted :
           Imports(wizard.job, link.requests, link.answers, daemon.jobs, disk.installed, t)
             => Imports(wizard.job, o.l.requests, o.l.answers, daemon.jobs, disk.installed, t)
  PROVE  DoneBy(o, disk.installed, DictsOf(flights), FilesOf(flights))
<1>1. Done(wizard, link, daemon, disk.files, disk.installed, DictsOf(flights), FilesOf(flights))
  BY DoneNow
<1>2. Stays \cap disk.files \subseteq disk.files
  OBVIOUS
<1>3. Done(wizard, o.l, daemon, disk.files, disk.installed, DictsOf(flights), FilesOf(flights))
  BY ONLY <1>1, <1>2, LineOK(o.l),
     NoneMine(link.requests, link.answers) => NoneMine(o.l.requests, o.l.answers),
     \A t \in Wanted :
       Imports(wizard.job, link.requests, link.answers, daemon.jobs, disk.installed, t)
         => Imports(wizard.job, o.l.requests, o.l.answers, daemon.jobs, disk.installed, t),
     DoneStays
<1> QED BY <1>3 DEF DoneBy

\* Only the connection changed for it.
LEMMA LineBecomes ==
  ASSUME SetupInv, DoneInv, NEW o, o.w = wizard, o.f = disk.files, o.d = daemon, Becomes(o),
         DictsOf(flights') = DictsOf(flights), FilesOf(flights') = FilesOf(flights),
         LineOK(o.l), Numbered(o.l, daemon, disk.installed),
         NoneMine(link.requests, link.answers) => NoneMine(o.l.requests, o.l.answers),
         \A t \in Wanted :
           Imports(wizard.job, link.requests, link.answers, daemon.jobs, disk.installed, t)
             => Imports(wizard.job, o.l.requests, o.l.answers, daemon.jobs, disk.installed, t)
  PROVE  DonePart'
<1>1. wizard' = wizard /\ link' = o.l /\ daemon' = daemon /\ disk' = [disk EXCEPT !.files = o.f]
  BY DEF Becomes
<1>2. IsDisk
  BY DoneNow
<1>3. IsDisk' /\ disk'.files = disk.files /\ disk'.installed = disk.installed
  <2>1. IsDisk' /\ disk'.files = o.f /\ disk'.installed = disk.installed
    BY ONLY <1>1, <1>2 DEF IsDisk
  <2> QED BY <2>1
<1> QED BY <1>1, <1>3, DoneAside

\* A call that is given up,
LEMMA CallTimesOutDone == ASSUME SetupInv, DoneInv, CallTimesOut PROVE DonePart'
<1>n. /\ IsWizard(wizard) /\ IsLink(link) /\ IsDaemon(daemon) /\ IsDisk /\ LineOK(link)
      /\ Numbered(link, daemon, disk.installed) /\ FlightsOK(flights)
      /\ WizardOK(wizard, Asked(link), DictsOf(flights), FilesOf(flights))
  BY DoneNow
<1>1. PICK call, o :
        /\ call \in Pending("wizard") \cup Pending("page")
        /\ o = [Now EXCEPT !.l.calls = @ \ {call}]
        /\ IF call.by = "wizard" THEN Replied(o, call, FALSE, NoReply, {}) /\ UNCHANGED offers
           ELSE /\ offers' = NextDownloads(offers, 1)
                /\ flights' = flights \cup Started(offers, 1)
                /\ Becomes(o)
  BY Zenon DEF CallTimesOut
<1>2. PICK k : k = [link EXCEPT !.calls = link.calls \ {call}]
  OBVIOUS
<1>3. /\ IsLink(k) /\ k.state = link.state /\ k.answers = link.answers
      /\ k.requests = link.requests /\ k.calls = link.calls \ {call}
  BY ONLY <1>2, <1>n DEF IsLink
<1>4. IsNow(o) /\ o.w = wizard /\ o.l = k /\ o.d = daemon /\ o.f = disk.files
  <2>1. o = [w |-> wizard, l |-> k, f |-> disk.files, d |-> daemon]
    <3>1. Now = [w |-> wizard, l |-> link, f |-> disk.files, d |-> daemon]
      BY NowIs
    <3>2. o = [Now EXCEPT !.l.calls = @ \ {call}]
      BY <1>1
    <3> QED BY ONLY <1>2, <3>1, <3>2
  <2> QED BY <1>n, <1>3, <2>1 DEF IsNow
<1>5. LineOK(k) /\ Numbered(k, daemon, disk.installed)
  <2>1. LineOK(k)
    BY <1>3, <1>n, FewerWait
  <2> QED BY <1>3, <1>n, <2>1 DEF Numbered
<1>6. CASE call.by = "wizard"
  <2>1. call \in Asked(link)
    BY <1>1, <1>6 DEF Pending, Asked
  <2>2. Asked(link) = {call}
    BY <1>n, <2>1, OneAsked
  <2>3. Asked(k) = {}
    BY <1>3, <2>2 DEF Asked
  <2>4. Others({}) /\ NoReply.titles \subseteq disk.installed
    BY DEF Others, NoReply
  <2>5. Replied(o, call, FALSE, NoReply, {})
    BY <1>1, <1>6
  <2>6. DoneBy(o, disk.installed, DictsOf(flights), FilesOf(flights))
    BY <1>3, <1>4, <1>5, StillDone
  <2> QED BY <1>4, <1>5, <1>n, <2>1, <2>3, <2>4, <2>5, <2>6, RepliedDone
<1>7. CASE call.by # "wizard"
  <2>1. flights' = flights \cup Started(offers, 1) /\ Becomes(o)
    BY <1>1, <1>7
  <2>2. DictsOf(flights') = DictsOf(flights) /\ FilesOf(flights') = FilesOf(flights)
    BY <1>n, <2>1, StartedAreOthers, OthersFly
  <2> QED BY <1>3, <1>4, <1>5, <2>1, <2>2, LineBecomes
<1> QED BY <1>6, <1>7

\* and all of them, after which the import that was waited for has failed.
LEMMA DisconnectedDone == ASSUME SetupInv, DoneInv, Disconnected PROVE DonePart'
<1>n. /\ IsWizard(wizard) /\ IsLink(link) /\ IsDaemon(daemon) /\ IsDisk /\ LineOK(link)
      /\ Numbered(link, daemon, disk.installed) /\ FlightsOK(flights)
      /\ WizardOK(wizard, Asked(link), DictsOf(flights), FilesOf(flights))
  BY DoneNow
<1>1. PICK n, o :
        /\ o = [Now EXCEPT !.l.state = "down", !.l.calls = {}]
        /\ IF Pending("wizard") # {}
           THEN \E call \in Pending("wizard") : Replied(o, call, FALSE, NoReply, Started(offers, n))
           ELSE HandleDisconnected(o, Started(offers, n))
  BY Zenon DEF Disconnected
<1>2. PICK k : k = [link EXCEPT !.state = "down", !.calls = {}]
  OBVIOUS
<1>3. /\ IsLink(k) /\ k.state = "down" /\ k.answers = link.answers
      /\ k.requests = link.requests /\ k.calls = {}
  BY ONLY <1>2, <1>n DEF IsLink
<1>4. IsNow(o) /\ o.w = wizard /\ o.l = k /\ o.d = daemon /\ o.f = disk.files
  <2>1. o = [w |-> wizard, l |-> k, f |-> disk.files, d |-> daemon]
    <3>1. Now = [w |-> wizard, l |-> link, f |-> disk.files, d |-> daemon]
      BY NowIs
    <3>2. o = [Now EXCEPT !.l.state = "down", !.l.calls = {}]
      BY <1>1
    <3> QED BY ONLY <1>2, <3>1, <3>2
  <2> QED BY <1>n, <1>3, <2>1 DEF IsNow
<1>5. LineOK(k) /\ Numbered(k, daemon, disk.installed) /\ Asked(k) = {}
  <2>1. LineOK(k)
    BY <1>3, <1>n, FewerWait
  <2>2. Asked(k) = {}
    BY <1>3 DEF Asked
  <2> QED BY <1>3, <1>n, <2>1, <2>2 DEF Numbered
<1>6. PICK others : others = Started(offers, n) /\ Others(others)
  BY StartedAreOthers
<1>7. Pending("wizard") = Asked(link)
  BY DEF Pending, Asked
<1>8. CASE Asked(link) # {}
  <2>1. PICK call \in Asked(link) : Replied(o, call, FALSE, NoReply, others)
    BY <1>1, <1>6, <1>7, <1>8
  <2>2. NoReply.titles \subseteq disk.installed
    BY DEF NoReply
  <2>3. DoneBy(o, disk.installed, DictsOf(flights), FilesOf(flights))
    BY <1>3, <1>4, <1>5, StillDone
  <2> QED BY <1>4, <1>5, <1>6, <1>n, <2>1, <2>2, <2>3, RepliedDone
<1>9. CASE Asked(link) = {}
  <2>1. HandleDisconnected(o, others)
    BY <1>1, <1>6, <1>7, <1>9
  <2>2. flights' = flights \cup others
    BY <2>1 DEF HandleDisconnected
  <2>3. CASE wizard.job # 0
    <3>1. PICK r \in ImportDone(o, TRUE) : Becomes(r)
      BY <1>4, <2>1, <2>3 DEF HandleDisconnected
    <3>2. WizardOK(o.w, Asked(o.l), DictsOf(flights), FilesOf(flights))
      BY <1>4, <1>5, <1>9, <1>n
    <3> QED BY <1>4, <1>5, <1>6, <1>n, <2>2, <2>3, <3>1, <3>2, ImportEndsDone
  <2>4. CASE wizard.job = 0
    <3>1. Becomes(o)
      BY <1>4, <2>1, <2>4 DEF HandleDisconnected
    <3>2. DictsOf(flights') = DictsOf(flights) /\ FilesOf(flights') = FilesOf(flights)
      BY <1>6, <1>n, <2>2, OthersFly
    <3> QED BY <1>3, <1>4, <1>5, <3>1, <3>2, LineBecomes
  <2> QED BY <2>3, <2>4
<1> QED BY <1>8, <1>9

\* What Mine is an answer to was an import.
LEMMA AnsweredImports ==
  ASSUME NEW w, IsWizard(w), Loads(w), w.importing, w.job = 0, NEW q, NEW a, \E S : a \in Seq(S),
         a # <<>>, NEW m, m = Head(a), Mine(m.call), m.job # 0, NEW jobs, NEW f, NEW inst,
         NEW D, NEW F, Accounted(w, q, a, jobs, f, inst, D, F)
  PROVE  Accounted([w EXCEPT !.job = m.job], q, Tail(a), jobs, f, inst, D, F)
<1>1. PICK u : u = [w EXCEPT !.job = m.job]
  OBVIOUS
<1>2. /\ u.job = m.job /\ u.importing = w.importing /\ u.queue = w.queue
      /\ u.unpack = w.unpack
  BY ONLY <1>1, IsWizard(w) DEF IsWizard
<1>3. PICK t \in Wanted : /\ Imports(0, q, a, jobs, inst, t)
                          /\ Wanted \ {t} \subseteq inst \cup D \cup InQueue(w)
  BY DEF Accounted
<1>4. PICK b : b = Tail(a)
  OBVIOUS
<1>5. \A js, is, x : Imports(0, q, a, js, is, x) /\ Mine(m.call) /\ m.job # 0 =>
                       Imports(m.job, q, b, js, is, x)
  BY ONLY <1>4, \E S : a \in Seq(S), a # <<>>, m = Head(a), MineIsRead
<1>6. Imports(m.job, q, b, jobs, inst, t)
  BY <1>3, <1>5
<1>7. InQueue(u) = InQueue(w)
  BY <1>2 DEF InQueue
<1>8. Accounted(u, q, b, jobs, f, inst, D, F)
  BY ONLY <1>2, <1>3, <1>6, <1>7, w.importing, Accounted(w, q, a, jobs, f, inst, D, F) DEF Accounted
<1> QED BY <1>1, <1>4, <1>8

\* The end of the wizard's import, well done, leaves none of its own.
LEMMA EndedIsIn ==
  ASSUME NEW w, w.importing, w.job # 0, NEW q, NEW a, \E S : a \in Seq(S), a # <<>>,
         NEW m, m = Head(a), m.call.method = "import.finished", m.job = w.job, m.ok,
         NEW jobs, NEW f, NEW inst, NEW D, NEW F, Accounted(w, q, a, jobs, f, inst, D, F)
  PROVE  AllIn(w, q, Tail(a), f, inst, D, F)
<1>1. PICK t \in Wanted : /\ Imports(w.job, q, a, jobs, inst, t)
                          /\ Wanted \ {t} \subseteq inst \cup D \cup InQueue(w)
  BY DEF Accounted
<1>2. NoneMine(q, a) /\ Leads(a, jobs, inst, w.job, t)
  BY <1>1 DEF Imports
<1>3. PICK b : b = Tail(a)
  OBVIOUS
<1>4. NoneMine(q, a) => NoneMine(q, b)
  BY ONLY <1>3, \E S : a \in Seq(S), a # <<>>, m = Head(a), MineIsRead
<1>5. 1 \in DOMAIN a /\ m = a[1]
  <2>1. Len(a) \in Nat \ {0} /\ DOMAIN a = 1 .. Len(a) /\ Head(a) = a[1]
    BY ONLY \E S : a \in Seq(S), a # <<>>, <1>3, RestIs
  <2> QED BY <2>1
<1>6. t \in inst
  BY <1>2, <1>5 DEF Leads
<1> QED BY <1>1, <1>2, <1>3, <1>4, <1>6 DEF AllIn, Accounted

\* What is read is what the daemon said to whom it said it.
LEMMA ReadAnswerDone == ASSUME SetupInv, DoneInv, ReadAnswer PROVE DonePart'
<1>n. /\ IsWizard(wizard) /\ IsLink(link) /\ IsDaemon(daemon) /\ LinkOK(link, daemon)
      /\ IsDisk /\ LineOK(link) /\ Numbered(link, daemon, disk.installed) /\ FlightsOK(flights)
      /\ Done(wizard, link, daemon, disk.files, disk.installed,
              DictsOf(flights), FilesOf(flights))
      /\ WizardOK(wizard, Asked(link), DictsOf(flights), FilesOf(flights))
  BY DoneNow
<1>1. PICK answer : answer = Head(link.answers)
  OBVIOUS
<1>2. PICK call : call = answer.call
  OBVIOUS
<1>3. PICK o : o = [Now EXCEPT !.l.answers = Tail(@), !.l.calls = @ \ {call}]
  OBVIOUS
<1>4. PICK b : b = Tail(link.answers)
  OBVIOUS
<1>5. PICK k : k = [link EXCEPT !.answers = b, !.calls = link.calls \ {call}]
  OBVIOUS
<1>6. /\ Connected(link) /\ link.answers # <<>>
      /\ \/ call.method = "import.finished" /\ ImportFinished(o, answer)
         \/ call \in Pending("wizard") /\ Replied(o, call, TRUE, answer, {})
         \/ /\ call.method # "import.finished" /\ call \notin Pending("wizard")
            /\ Becomes(o) /\ UNCHANGED flights
  BY <1>1, <1>2, <1>3, Zenon DEF ReadAnswer
<1>7. /\ IsLink(k) /\ k.state = link.state /\ k.answers = b
      /\ k.requests = link.requests /\ k.calls = link.calls \ {call}
  BY ONLY <1>5, <1>n DEF IsLink
<1>8. IsNow(o) /\ o.w = wizard /\ o.l = k /\ o.d = daemon /\ o.f = disk.files
  <2>1. o = [w |-> wizard, l |-> k, f |-> disk.files, d |-> daemon]
    <3>1. Now = [w |-> wizard, l |-> link, f |-> disk.files, d |-> daemon]
      BY NowIs
    <3> QED BY ONLY <1>3, <1>4, <1>5, <3>1
  <2> QED BY <1>n, <1>7, <2>1 DEF IsNow
<1>9. /\ \A i \in DOMAIN b : i + 1 \in DOMAIN link.answers /\ b[i] = link.answers[i + 1]
      /\ 1 \in DOMAIN link.answers /\ answer = link.answers[1]
  <2>1. (\E S : link.answers \in Seq(S)) /\ link.answers # <<>>
    BY <1>6, <1>n DEF LinkOK
  <2>2. /\ Len(link.answers) \in Nat \ {0} /\ DOMAIN link.answers = 1 .. Len(link.answers)
        /\ Head(link.answers) = link.answers[1]
        /\ \A i \in DOMAIN b : i + 1 \in DOMAIN link.answers /\ b[i] = link.answers[i + 1]
    BY ONLY <1>4, <2>1, RestIs
  <2>3. 1 \in DOMAIN link.answers
    BY ONLY <2>2
  <2> QED BY ONLY <1>1, <2>2, <2>3
<1>10. LineOK(k) /\ Numbered(k, daemon, disk.installed)
  <2>1. LineOK(k)
    BY <1>7, <1>n, FewerWait
  <2>2. Numbered(k, daemon, disk.installed)
    BY <1>7, <1>9, <1>n DEF Numbered
  <2> QED BY <2>1, <2>2
<1>11. (\E S : link.answers \in Seq(S)) /\ link.answers # <<>> /\ answer = Head(link.answers)
  BY <1>1, <1>6, <1>n DEF LinkOK
<1>12. /\ NoneMine(link.requests, link.answers) => NoneMine(k.requests, k.answers)
       /\ \A t : Imports(wizard.job, link.requests, link.answers, daemon.jobs, disk.installed, t)
                   => Imports(wizard.job, k.requests, k.answers, daemon.jobs, disk.installed, t)
  <2>1. PICK q : q = link.requests
    OBVIOUS
  <2>2. /\ NoneMine(q, link.answers) => NoneMine(q, b)
        /\ \A job, jobs, inst, t :
             Imports(job, q, link.answers, jobs, inst, t) => Imports(job, q, b, jobs, inst, t)
    BY ONLY <1>4, <1>11, MineIsRead
  <2> QED BY <1>7, <2>1, <2>2
<1>13. DoneBy(o, disk.installed, DictsOf(flights), FilesOf(flights))
  BY <1>8, <1>10, <1>12, StillDone
<1>14. ASSUME Loads(wizard), ~wizard.failed
       PROVE  Accounted(wizard, link.requests, link.answers, daemon.jobs, disk.files,
                        disk.installed, DictsOf(flights), FilesOf(flights))
  BY <1>14, <1>n DEF Loads, Done
<1>15. ASSUME Becomes(o), NEW others, Others(others), flights' = flights \cup others
       PROVE  DonePart'
  <2>1. DictsOf(flights') = DictsOf(flights) /\ FilesOf(flights') = FilesOf(flights)
    BY <1>15, <1>n, OthersFly
  <2> QED BY <1>8, <1>10, <1>12, <1>15, <2>1, LineBecomes
<1>16. Pending("wizard") = Asked(link) /\ Asked(k) = Asked(link) \ {call}
  BY <1>7 DEF Pending, Asked
<1>17. CASE call.method = "import.finished" /\ ImportFinished(o, answer)
  <2>1. call \notin Asked(link)
    BY <1>17, <1>n, OneAsked
  <2>2. flights' = flights \cup Started(offers, 1) /\ Others(Started(offers, 1))
    BY <1>17, StartedAreOthers DEF ImportFinished
  <2>3. CASE TheWizards(wizard, answer)
    <3>1. PICK r \in ImportDone(o, ~answer.ok) : Becomes(r)
      BY <1>8, <1>17, <2>3 DEF ImportFinished
    <3>2. wizard.job # 0 /\ answer.job = wizard.job
      BY <2>3 DEF TheWizards
    <3>3. WizardOK(o.w, Asked(o.l), DictsOf(flights), FilesOf(flights))
      BY <1>8, <1>16, <1>n, <2>1
    <3>4. Loads(wizard) /\ wizard.importing
      BY <1>n, <3>2
         DEF WizardOK, Resting, Listing, Beginning, Ending, Loading, Counting, Quiet, Loads
    <3>5. ASSUME answer.ok, ~wizard.failed
          PROVE  AllIn(wizard, link.requests, b, disk.files, disk.installed,
                       DictsOf(flights), FilesOf(flights))
      BY <1>2, <1>4, <1>11, <1>14, <1>17, <3>2, <3>4, <3>5, EndedIsIn
    <3>6. ~(~answer.ok) /\ ~o.w.failed =>
            AllIn(o.w, o.l.requests, o.l.answers, o.f, disk.installed,
                  DictsOf(flights), FilesOf(flights))
      BY <1>7, <1>8, <3>5
    <3> QED BY <1>8, <1>10, <1>n, <2>2, <3>1, <3>2, <3>3, <3>6, ImportEndsDone
  <2>4. CASE ~TheWizards(wizard, answer)
    <3>1. Becomes(o)
      BY <1>8, <1>17, <2>4 DEF ImportFinished
    <3> QED BY <1>15, <2>2, <3>1
  <2> QED BY <2>3, <2>4
<1>18. CASE call \in Pending("wizard") /\ Replied(o, call, TRUE, answer, {})
  <2>1. Asked(link) = {call} /\ wizard.job = 0
    BY <1>16, <1>18, <1>n, OneAsked
  <2>2. Asked(k) = {} /\ call \in Asked(link) /\ call.by = "wizard"
    BY <1>16, <2>1 DEF Asked
  <2>3. Others({})
    BY DEF Others
  <2>4. call.method = "dictionaries.list" => answer.titles \subseteq disk.installed
    BY <1>2, <1>9, <1>n DEF Numbered
  <2>5. ASSUME call.method = "dictionaries.import", ~wizard.failed
        PROVE  Accounted([wizard EXCEPT !.job = answer.job], link.requests, b, daemon.jobs,
                         disk.files, disk.installed, DictsOf(flights), FilesOf(flights))
    <3>1. Loads(wizard) /\ wizard.importing
      <4>1. \A by, method, of : Call(by, method, of).method = method
        BY DEF Call
      <4>2. Loading(wizard, Asked(link), DictsOf(flights), FilesOf(flights))
        BY <1>n, <2>1, <2>5, <4>1 DEF WizardOK, Resting, Listing, Ending
      <4> QED BY <2>1, <4>2 DEF Loading, Counting, Loads
    <3>2. Mine(answer.call) /\ answer.job # 0
      BY <1>2, <1>9, <1>n, <2>2, <2>5 DEF Mine, LinkOK
    <3> QED BY <1>4, <1>11, <1>14, <1>n, <2>1, <2>5, <3>1, <3>2, AnsweredImports
  <2>6. call.method = "dictionaries.import" /\ TRUE /\ ~o.w.failed =>
          Accounted([o.w EXCEPT !.job = answer.job], o.l.requests, o.l.answers, o.d.jobs, o.f,
                    disk.installed, DictsOf(flights), FilesOf(flights))
    BY <1>7, <1>8, <2>5
  <2> QED BY <1>8, <1>10, <1>13, <1>18, <1>n, <2>2, <2>3, <2>4, <2>6, RepliedDone
<1>19. CASE /\ call.method # "import.finished" /\ call \notin Pending("wizard")
            /\ Becomes(o) /\ UNCHANGED flights
  <2>1. Others({}) /\ flights' = flights \cup {}
    BY <1>19 DEF Others
  <2> QED BY <1>15, <1>19, <2>1
<1> QED BY <1>6, <1>17, <1>18, <1>19

-----------------------------------------------------------------------------
(* The page downloads what it offers.                                      *)

\* As many more as can come.
LEMMA OffersMove ==
  ASSUME OffersOK, NEW p, IsOffers(p), NEW n \in Nat, offers' = NextDownloads(p, n),
         \A x \in flights' : x.for = "page" => x \in flights \cup Started(p, n)
  PROVE  OffersOK'
<1>1. PICK q : q = p.queue
  OBVIOUS
<1>2. q \in Seq(PageWants) /\ Len(q) \in Nat /\ DOMAIN q = 1 .. Len(q)
      /\ \A i \in 1 .. Len(q) : q[i] \in PageWants
  BY <1>1 DEF IsOffers
<1>3. PICK m : m = IF n < Len(q) THEN n ELSE Len(q)
  OBVIOUS
<1>4. m \in 0 .. Len(q)
  <2>1. Len(q) \in Nat
    BY <1>2
  <2> QED BY ONLY <1>3, <2>1, n \in Nat
<1>5. PICK rest : rest = SubSeq(q, m + 1, Len(q))
  OBVIOUS
<1>6. rest \in Seq(PageWants)
  BY ONLY <1>2, <1>4, <1>5
<1>7. PICK busy : busy = IF n = 0 THEN p.downloading ELSE Len(p.queue) >= n
  OBVIOUS
<1>8. offers' = [p EXCEPT !.downloading = busy, !.queue = rest]
  BY <1>1, <1>3, <1>5, <1>7 DEF NextDownloads, IsOffers
<1>9. IsOffers(offers')
  BY ONLY <1>6, <1>8, IsOffers(p) DEF IsOffers
<1>10. ASSUME NEW x \in Started(p, n)
       PROVE  x.file \in PageWants
  <2>1. PICK i \in 1 .. m : x = [for |-> "page", file |-> q[i]]
    BY <1>1, <1>3 DEF Started
  <2>2. i \in 1 .. Len(q)
    BY ONLY <1>2, <1>4, i \in 1 .. m
  <2>3. x.file = q[i]
    BY ONLY <2>1
  <2> QED BY <1>2, <2>2, <2>3
<1> QED BY <1>9, <1>10 DEF OffersOK

\* Nothing of the page's begins.
LEMMA OffersRest ==
  ASSUME OffersOK, offers' = offers, \A x \in flights' : x.for = "page" => x \in flights
  PROVE  OffersOK'
BY DEF OffersOK

\* What begins for the wizard is not the page's.
LEMMA BeginsForIt ==
  ASSUME NEW o, NEW known, NEW others, Begins(o, known, others)
  PROVE  \A x \in flights' : x.for = "page" => x \in flights \cup others
<1>1. PICK files : flights' = flights \cup others \cup {[for |-> "wizard", file |-> f] : f \in files}
  BY Zenon DEF Begins
<1>2. \A f : [for |-> "wizard", file |-> f].for = "wizard"
  OBVIOUS
<1> QED BY <1>1, <1>2

\* An answer brings nothing else to the page.
LEMMA RepliedForIt ==
  ASSUME NEW o, NEW call, NEW ok, NEW answer, NEW others, Replied(o, call, ok, answer, others)
  PROVE  \A x \in flights' : x.for = "page" => x \in flights \cup others
<1>1. CASE Begins(o, answer.titles, others)
  BY <1>1, BeginsForIt
<1>2. CASE flights' = flights \cup others
  BY <1>2
<1> QED BY <1>1, <1>2, Zenon DEF Replied

\* Every step.
LEMMA OffersStep == ASSUME SetupInv, DoneInv, [SetupNext]_setupVars PROVE OffersOK'
<1>n. OffersOK /\ IsOffers(offers) /\ LineOK(link) /\ DOMAIN installs = {"ocr", "translation"}
  BY DoneNow DEF DoneInv, OffersOK
<1>0. 0 \in Nat /\ 1 \in Nat
  OBVIOUS
<1>1. CASE UNCHANGED <<flights, offers>>
  BY <1>1, <1>n, OffersRest
<1>2. ASSUME NEW who \in DOMAIN installs, Install(who) PROVE OffersOK'
  <2>1. PICK files : flights' = flights \cup {[for |-> who, file |-> f] : f \in files}
    BY <1>2, Zenon DEF Install
  <2>2. who # "page" /\ offers' = offers
    BY <1>2, <1>n DEF Install
  <2>3. \A f : [for |-> who, file |-> f].for = who
    OBVIOUS
  <2> QED BY <1>n, <2>1, <2>2, <2>3, OffersRest
<1>3. CASE StartInstall
  <2>1. PICK o : offers' = offers /\ (flights' = flights \/ Begins(o, {}, {}))
    BY <1>3, Zenon DEF StartInstall
  <2>2. \A x \in flights' : x.for = "page" => x \in flights
    BY <2>1, BeginsForIt
  <2> QED BY <1>n, <2>1, <2>2, OffersRest
<1>4. CASE EnqueueDownload
  <2>1. PICK d \in PageWants :
          \E p, n : /\ p = [offers EXCEPT !.queue = Append(@, d), !.asked = @ \cup {d}]
                    /\ n = IF offers.downloading THEN 0 ELSE 1
                    /\ offers' = NextDownloads(p, n) /\ flights' = flights \cup Started(p, n)
    BY <1>4, Zenon DEF EnqueueDownload
  <2>7. PICK p, n : /\ p = [offers EXCEPT !.queue = Append(@, d), !.asked = @ \cup {d}]
                    /\ n = IF offers.downloading THEN 0 ELSE 1
                    /\ offers' = NextDownloads(p, n) /\ flights' = flights \cup Started(p, n)
    BY <2>1
  <2>2. PICK q : q = Append(offers.queue, d)
    OBVIOUS
  <2>3. PICK taken : taken = offers.asked \cup {d}
    OBVIOUS
  <2>4. p = [offers EXCEPT !.queue = q, !.asked = taken]
    BY <1>n, <2>2, <2>3, <2>7 DEF IsOffers
  <2>5. q \in Seq(PageWants)
    BY <1>n, <2>2 DEF IsOffers
  <2>6. IsOffers(p)
    BY ONLY <1>n, <2>4, <2>5 DEF IsOffers
  <2>8. n \in Nat
    BY <1>0, <2>7
  <2> QED BY <1>n, <2>6, <2>7, <2>8, OffersMove
<1>5. CASE DownloadEnds
  <2>1. PICK x \in flights :
          \/ offers' = offers /\ flights' = flights \ {x}
          \/ /\ offers' = NextDownloads(offers, 1)
             /\ flights' = (flights \ {x}) \cup Started(offers, 1)
    BY <1>5, Zenon DEF DownloadEnds
  <2>2. CASE offers' = offers /\ flights' = flights \ {x}
    BY <1>n, <2>2, OffersRest
  <2>3. CASE /\ offers' = NextDownloads(offers, 1)
             /\ flights' = (flights \ {x}) \cup Started(offers, 1)
    BY <1>0, <1>n, <2>3, OffersMove
  <2> QED BY <2>1, <2>2, <2>3
<1>11. CASE offers' = NextDownloads(offers, 1) /\ flights' = flights \cup Started(offers, 1)
  BY <1>0, <1>n, <1>11, OffersMove
<1>12. ASSUME NEW o, NEW call, NEW ok, NEW answer, Replied(o, call, ok, answer, {}),
              offers' = offers
       PROVE  OffersOK'
  <2>1. \A x \in flights' : x.for = "page" => x \in flights
    BY <1>12, RepliedForIt
  <2> QED BY <1>n, <1>12, <2>1, OffersRest
<1>6. CASE ReadAnswer
  <2>1. \/ offers' = NextDownloads(offers, 1) /\ flights' = flights \cup Started(offers, 1)
        \/ /\ offers' = offers
           /\ \E o, call, answer : Replied(o, call, TRUE, answer, {})
        \/ offers' = offers /\ flights' = flights
    BY <1>6, Zenon DEF ReadAnswer, ImportFinished
  <2> QED BY <1>1, <1>11, <1>12, <2>1
<1>7. CASE CallTimesOut
  <2>1. \/ offers' = NextDownloads(offers, 1) /\ flights' = flights \cup Started(offers, 1)
        \/ /\ offers' = offers
           /\ \E o, call : Replied(o, call, FALSE, NoReply, {})
    BY <1>7, Zenon DEF CallTimesOut
  <2> QED BY <1>11, <1>12, <2>1
<1>8. CASE Disconnected
  <2>1. PICK n : n = Cardinality(Pending("page"))
    OBVIOUS
  <2>2. n \in Nat
    <3>1. Pending("page") \subseteq link.calls /\ IsFiniteSet(link.calls)
      BY <1>n DEF Pending, LineOK
    <3> QED BY <2>1, <3>1, FS_Subset, FS_CardinalityType
  <2>3. PICK o : /\ offers' = NextDownloads(offers, n)
                 /\ \/ \E call : Replied(o, call, FALSE, NoReply, Started(offers, n))
                    \/ HandleDisconnected(o, Started(offers, n))
    BY <1>8, <2>1, Zenon DEF Disconnected
  <2>4. \A x \in flights' : x.for = "page" => x \in flights \cup Started(offers, n)
    <3>1. CASE \E call : Replied(o, call, FALSE, NoReply, Started(offers, n))
      BY <3>1, RepliedForIt
    <3>2. CASE HandleDisconnected(o, Started(offers, n))
      BY <3>2 DEF HandleDisconnected
    <3> QED BY <2>3, <3>1, <3>2
  <2> QED BY <1>n, <2>2, <2>3, <2>4, OffersMove
<1>9. CASE \/ Unpack \/ RedistRuns \/ DaemonAnswers \/ DaemonImports \/ DaemonEnds
           \/ DaemonStarts \/ LinkUp
  <2>1. UNCHANGED <<flights, offers>>
    <3>1. CASE Unpack
      BY <3>1, Zenon DEF Unpack
    <3>2. CASE RedistRuns
      BY <3>2, Zenon DEF RedistRuns
    <3>3. CASE DaemonAnswers
      BY <3>3, Zenon DEF DaemonAnswers
    <3>4. CASE DaemonImports
      BY <3>4, Zenon DEF DaemonImports
    <3>5. CASE DaemonEnds
      BY <3>5, Zenon DEF DaemonEnds
    <3>6. CASE DaemonStarts
      BY <3>6, Zenon DEF DaemonStarts
    <3>7. CASE LinkUp
      BY <3>7, Zenon DEF LinkUp
    <3> QED BY <1>9, <3>1, <3>2, <3>3, <3>4, <3>5, <3>6, <3>7
  <2> QED BY <1>1, <2>1
<1>10. CASE UNCHANGED setupVars
  BY <1>1, <1>10 DEF setupVars
<1> QED BY <1>2, <1>3, <1>4, <1>5, <1>6, <1>7, <1>8, <1>9, <1>10 DEF SetupNext

-----------------------------------------------------------------------------
\* Nothing is done at first,
LEMMA DoneInvInit == SetupInit => DoneInv
<1> SUFFICES ASSUME SetupInit PROVE DoneInv
  OBVIOUS
<1>1. /\ flights = {} /\ offers = [queue |-> <<>>, downloading |-> FALSE, asked |-> {}]
      /\ daemon = [state |-> "up", jobs |-> <<>>, next |-> 1, starting |-> FALSE]
      /\ link = [state |-> "up", requests |-> <<>>, answers |-> <<>>, calls |-> {}]
  BY DEF SetupInit
<1>2. wizard \in [page : {"languages"}, reinstall : BOOLEAN, installing : {FALSE}, queue : {<<>>},
                 importing : {FALSE}, job : {0}, downloads : {0}, imports : {0}, others : {0},
                 failed : {FALSE}, unpack : {FALSE}, redist : {FALSE}, finishing : {FALSE},
                 stage : {"none"}]
  BY DEF SetupInit
<1>3. wizard.page = "languages" /\ wizard.installing = FALSE /\ wizard.failed = FALSE
  BY ONLY <1>2
<1>4. \E files, done : disk = [files |-> files, installed |-> done]
  BY Zenon DEF SetupInit
<1>5. IsDisk
  <2>1. PICK files, done : disk = [files |-> files, installed |-> done]
    BY <1>4
  <2> QED BY ONLY <2>1 DEF IsDisk
<1>6. /\ link.requests = <<>> /\ link.answers = <<>> /\ link.calls = {} /\ daemon.jobs = <<>>
  BY ONLY <1>1
<1>7. DOMAIN <<>> = {} /\ <<>> \in Seq({}) /\ <<>> \in Seq(PageWants)
  OBVIOUS
<1>8. LineOK(link) /\ NoneMine(link.requests, link.answers)
  BY <1>6, <1>7, FS_EmptySet DEF LineOK, NoneMine
<1>9. Done(wizard, link, daemon, disk.files, disk.installed, DictsOf(flights), FilesOf(flights))
  BY <1>3, <1>8 DEF Done
<1>10. Numbered(link, daemon, disk.installed)
  BY <1>6, <1>7 DEF Numbered
<1>11. OffersOK
  <2>1. IsOffers(offers)
    BY ONLY <1>1, <1>7 DEF IsOffers
  <2> QED BY <1>1, <2>1 DEF OffersOK
<1> QED BY <1>5, <1>9, <1>10, <1>11 DEF DoneInv, DonePart

\* and every step keeps account of what is.
LEMMA DoneInvStep == SetupInv /\ DoneInv /\ [SetupNext]_setupVars => DoneInv'
<1> SUFFICES ASSUME SetupInv, DoneInv, [SetupNext]_setupVars PROVE DoneInv'
  OBVIOUS
<1>0. OffersOK'
  BY OffersStep
<1> SUFFICES DonePart'
  BY <1>0 DEF DoneInv
<1>1. ASSUME NEW who \in DOMAIN installs, Install(who) PROVE DonePart'
  BY <1>1, InstallDone
<1>2. CASE StartInstall
  BY <1>2, StartInstallDone
<1>3. CASE Unpack
  BY <1>3, UnpackDone
<1>4. CASE RedistRuns
  BY <1>4, RedistRunsDone
<1>5. CASE EnqueueDownload
  BY <1>5, EnqueueDownloadDone
<1>6. CASE DownloadEnds
  BY <1>6, DownloadEndsDone
<1>7. CASE DaemonAnswers
  BY <1>7, DaemonAnswersDone
<1>8. CASE DaemonImports
  BY <1>8, DaemonImportsDone
<1>9. CASE DaemonEnds
  BY <1>9, DaemonEndsDone
<1>10. CASE DaemonStarts
  BY <1>10, DaemonStartsDone
<1>11. CASE LinkUp
  BY <1>11, LinkUpDone
<1>12. CASE ReadAnswer
  BY <1>12, ReadAnswerDone
<1>13. CASE CallTimesOut
  BY <1>13, CallTimesOutDone
<1>14. CASE Disconnected
  BY <1>14, DisconnectedDone
<1>15. CASE UNCHANGED setupVars
  <2>1. UNCHANGED <<wizard, link, daemon, disk, flights>> /\ DonePart
    BY <1>15 DEF setupVars, DoneInv
  <2>2. DictsOf(flights') = DictsOf(flights) /\ FilesOf(flights') = FilesOf(flights)
    BY <2>1
  <2> QED BY <2>1, <2>2 DEF DonePart, IsDisk
<1> QED BY <1>1, <1>2, <1>3, <1>4, <1>5, <1>6, <1>7, <1>8, <1>9, <1>10, <1>11, <1>12, <1>13,
           <1>14, <1>15 DEF SetupNext

\* The wizard says it is done only when the dictionaries it offers are installed, the models of
\* OCR there and the runtime unpacked, whatever else was downloaded, imported and installed at
\* the same time, whatever failed, and whenever the daemon ended (SetupWizard, InstallBatch).
THEOREM DoneMeansInstalled == SetupSpec => DoneIsInstalled
<1>1. SetupInv /\ [SetupNext]_setupVars => SetupInv'
  BY SetupInvStep
<1>2. SetupInv /\ DoneInv /\ [SetupNext]_setupVars => DoneInv'
  BY DoneInvStep
<1>3. DoneInv' => (wizard'.page = "done" /\ wizard.page # "done" =>
                     Wanted \subseteq disk'.installed /\ {"ocr", "library"} \subseteq disk'.files)
  BY DEF DoneInv, DonePart, Done, AllThere, Stays
<1> QED BY <1>1, <1>2, <1>3, SetupInvInit, DoneInvInit, PTL DEF SetupSpec, DoneIsInstalled
====
