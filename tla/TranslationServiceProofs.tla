---------------------- MODULE TranslationServiceProofs ----------------------
(***************************************************************************)
(* Proofs about TranslationService, for all languages, texts, bounds and   *)
(* numbers of models held.  The translations kept take no part in them.    *)
(***************************************************************************)
EXTENDS TranslationService, SequenceTheorems, TLAPS

\* What is at work, and what waits, is what its number and kind say.
Numbered ==
  /\ pending = NoWork \/ (pending.kind = "request" /\ pending.number = asked /\ asked # 0)
  /\ pending # NoWork => pending.langs # <<>>
  /\ \A i \in DOMAIN jobs : jobs[i].kind \in {"call", "health", "warm"} /\ jobs[i].langs # <<>>
  /\ step = "idle" => work = NoWork
  /\ step # "idle" => work.langs # <<>>
  /\ work.kind = "request" => work.number # 0

\* A model is chosen between choosing its weights and the end of the work.
Choosing ==
  /\ step \in {"idle", "warming", "weights"} => chosen = {}
  /\ \A m, n \in chosen : m = n

ServiceInv == StateOK /\ Numbered /\ Choosing

\* No two models of one directory, at different places.
Distinct(s) == \A i, j \in DOMAIN s : i # j => s[i].dir # s[j].dir

\* Every model of s is one of t.
Within(s, t) == \A i \in DOMAIN s : \E j \in DOMAIN t : s[i] = t[j]

-----------------------------------------------------------------------------
\* A sequence without its i-th element: everything else, in the same order.
LEMMA WithoutOne ==
  ASSUME NEW S, NEW s \in Seq(S), NEW i \in DOMAIN s
  PROVE  /\ Without(s, i) \in Seq(S)
         /\ Len(Without(s, i)) = Len(s) - 1
         /\ DOMAIN Without(s, i) = 1 .. Len(s) - 1
         /\ \A j \in 1 .. Len(s) - 1 :
              Without(s, i)[j] = IF j < i THEN s[j] ELSE s[j + 1]
<1> DEFINE n == Len(s)
           a == SubSeq(s, 1, i - 1)
           b == SubSeq(s, i + 1, n)
           c == a \o b
<1>1. i \in 1 .. n /\ n \in Nat
  OBVIOUS
<1>2. a \in Seq(S) /\ Len(a) = i - 1 /\ \A j \in 1 .. i - 1 : a[j] = s[j]
  BY <1>1
<1>3. b \in Seq(S) /\ Len(b) = n - i /\ \A j \in 1 .. n - i : b[j] = s[j + i]
  BY <1>1
<1>4. c = Without(s, i)
  BY DEF Without
<1> HIDE DEF n, a, b
<1>5. c \in Seq(S) /\ Len(c) = Len(a) + Len(b)
  BY <1>2, <1>3, ConcatProperties
<1>6. Len(c) = n - 1
  BY <1>1, <1>2, <1>3, <1>5
<1>7. \A j \in 1 .. Len(a) + Len(b) :
        c[j] = IF j <= Len(a) THEN a[j] ELSE b[j - Len(a)]
  BY <1>2, <1>3, ConcatProperties
<1> HIDE DEF c
<1>8. DOMAIN c = 1 .. n - 1
  BY <1>5, <1>6
<1>9. ASSUME NEW j \in 1 .. n - 1
      PROVE  c[j] = IF j < i THEN s[j] ELSE s[j + 1]
  <2>1. Len(a) = i - 1 /\ j \in 1 .. Len(a) + Len(b)
    BY <1>1, <1>2, <1>3
  <2>2. c[j] = IF j <= i - 1 THEN a[j] ELSE b[j - (i - 1)]
    BY <1>7, <2>1
  <2>3. CASE j < i
    BY <1>1, <1>2, <2>2, <2>3
  <2>4. CASE ~(j < i)
    <3>1. c[j] = b[j - (i - 1)] /\ j - (i - 1) \in 1 .. n - i
      BY <1>1, <2>2, <2>4
    <3>2. b[j - (i - 1)] = s[(j - (i - 1)) + i] /\ (j - (i - 1)) + i = j + 1
      BY <1>1, <1>3, <3>1
    <3> QED BY <2>4, <3>1, <3>2
  <2> QED BY <2>3, <2>4
<1> QED BY <1>4, <1>5, <1>6, <1>8, <1>9 DEF n

\* What is picked from s, each place once, is as distinct as s is.
LEMMA Picked ==
  ASSUME NEW s, NEW w, NEW at \in [DOMAIN w -> DOMAIN s], Distinct(s),
         \A j \in DOMAIN w : w[j] = s[at[j]],
         \A j, k \in DOMAIN w : j # k => at[j] # at[k]
  PROVE  Distinct(w) /\ Within(w, s)
<1>1. ASSUME NEW j \in DOMAIN w, NEW k \in DOMAIN w, j # k
      PROVE  w[j].dir # w[k].dir
  <2>1. at[j] \in DOMAIN s /\ at[k] \in DOMAIN s /\ at[j] # at[k]
    BY <1>1
  <2>2. s[at[j]].dir # s[at[k]].dir
    BY <2>1 DEF Distinct
  <2> QED BY <2>2
<1>2. ASSUME NEW j \in DOMAIN w
      PROVE  \E k \in DOMAIN s : w[j] = s[k]
  BY <1>2
<1> QED BY <1>1, <1>2 DEF Distinct, Within

\* A model used goes to the end; those held stay the same.
LEMMA UsedModel ==
  ASSUME NEW i \in DOMAIN models, models \in Seq(Model), Distinct(models)
  PROVE  /\ Used(i) \in Seq(Model) /\ Len(Used(i)) = Len(models)
         /\ Distinct(Used(i)) /\ Within(Used(i), models)
<1> DEFINE w == Without(models, i)
<1>1. /\ w \in Seq(Model) /\ Len(w) = Len(models) - 1 /\ DOMAIN w = 1 .. Len(models) - 1
      /\ \A j \in 1 .. Len(models) - 1 :
           w[j] = IF j < i THEN models[j] ELSE models[j + 1]
  BY WithoutOne
<1>2. i \in 1 .. Len(models) /\ Len(models) \in Nat /\ models[i] \in Model
  OBVIOUS
<1> DEFINE l == <<models[i]>>
<1>3. l \in Seq(Model) /\ Len(l) = 1 /\ l[1] = models[i] /\ Used(i) = w \o l
  BY <1>2 DEF Used
<1> HIDE DEF w, l
<1>4. /\ Used(i) \in Seq(Model) /\ Len(Used(i)) = Len(w) + Len(l)
      /\ \A j \in 1 .. Len(w) + Len(l) :
           Used(i)[j] = IF j <= Len(w) THEN w[j] ELSE l[j - Len(w)]
  <2>1. w \in Seq(Model) /\ l \in Seq(Model) /\ Used(i) = w \o l
    BY <1>1, <1>3
  <2>2. /\ w \o l \in Seq(Model) /\ Len(w \o l) = Len(w) + Len(l)
        /\ \A j \in 1 .. Len(w) + Len(l) :
             (w \o l)[j] = IF j <= Len(w) THEN w[j] ELSE l[j - Len(w)]
    BY <2>1, ConcatProperties
  <2> QED BY <2>1, <2>2
<1>5. /\ Len(Used(i)) = Len(models) /\ DOMAIN Used(i) = 1 .. Len(models)
      /\ \A j \in 1 .. Len(models) :
           Used(i)[j] = IF j < Len(models) THEN w[j] ELSE models[i]
  BY <1>1, <1>2, <1>3, <1>4
<1> DEFINE at == [j \in 1 .. Len(models) |->
                    IF j = Len(models) THEN i ELSE IF j < i THEN j ELSE j + 1]
<1>6. /\ at \in [DOMAIN Used(i) -> DOMAIN models]
      /\ \A j \in DOMAIN Used(i) : Used(i)[j] = models[at[j]]
      /\ \A j, k \in DOMAIN Used(i) : j # k => at[j] # at[k]
  <2>1. at \in [DOMAIN Used(i) -> DOMAIN models]
    BY <1>2, <1>5
  <2>2. ASSUME NEW j \in DOMAIN Used(i)
        PROVE  Used(i)[j] = models[at[j]]
    <3>1. j \in 1 .. Len(models)
      BY <1>5
    <3>2. CASE j = Len(models)
      BY <1>2, <1>5, <3>1, <3>2
    <3>3. CASE j # Len(models)
      <4>1. j \in 1 .. Len(models) - 1 /\ j < Len(models)
        BY <1>2, <3>1, <3>3
      <4>2. Used(i)[j] = w[j] /\ w[j] = IF j < i THEN models[j] ELSE models[j + 1]
        BY <1>1, <1>5, <3>1, <4>1
      <4> QED BY <3>1, <3>3, <4>2
    <3> QED BY <3>2, <3>3
  <2>3. \A j, k \in DOMAIN Used(i) : j # k => at[j] # at[k]
    BY <1>2, <1>5
  <2> QED BY <2>1, <2>2, <2>3
<1> HIDE DEF at
<1>7. Distinct(Used(i)) /\ Within(Used(i), models)
  BY <1>6, Picked
<1> QED BY <1>4, <1>5, <1>7

\* Letting go of a directory's model leaves none of it.
LEMMA LetGo ==
  ASSUME NEW d, models \in Seq(Model), Distinct(models)
  PROVE  /\ LetGoOf(d) \in Seq(Model) /\ Len(LetGoOf(d)) <= Len(models)
         /\ Distinct(LetGoOf(d)) /\ Within(LetGoOf(d), models)
         /\ \A i \in DOMAIN LetGoOf(d) : LetGoOf(d)[i].dir # d
<1>1. CASE At(d) = {}
  BY <1>1 DEF LetGoOf, At, Within
<1>2. CASE At(d) # {}
  <2> DEFINE i == CHOOSE i \in At(d) : TRUE
             w == Without(models, i)
  <2>1. i \in DOMAIN models /\ models[i].dir = d /\ LetGoOf(d) = w
    BY <1>2 DEF LetGoOf, At
  <2> HIDE DEF i
  <2>2. /\ w \in Seq(Model) /\ Len(w) = Len(models) - 1 /\ DOMAIN w = 1 .. Len(models) - 1
        /\ \A j \in 1 .. Len(models) - 1 :
             w[j] = IF j < i THEN models[j] ELSE models[j + 1]
    BY <2>1, WithoutOne
  <2> HIDE DEF w
  <2>3. i \in 1 .. Len(models) /\ Len(models) \in Nat
    BY <2>1
  <2> DEFINE at == [j \in DOMAIN w |-> IF j < i THEN j ELSE j + 1]
  <2>4. /\ at \in [DOMAIN w -> DOMAIN models]
        /\ \A j \in DOMAIN w : at[j] # i /\ w[j] = models[at[j]]
        /\ \A j, k \in DOMAIN w : j # k => at[j] # at[k]
    BY <2>2, <2>3
  <2> HIDE DEF at
  <2>5. Distinct(w) /\ Within(w, models)
    BY <2>4, Picked
  <2>6. ASSUME NEW j \in DOMAIN w
        PROVE  w[j].dir # d
    <3>1. at[j] \in DOMAIN models /\ at[j] # i
      BY <2>4
    <3> QED BY <2>1, <2>4, <3>1 DEF Distinct
  <2> QED BY <2>1, <2>2, <2>3, <2>5, <2>6
<1> QED BY <1>1, <1>2

\* Room is made by letting go of models, down to one less than may be held.
LEMMA Room ==
  ASSUME models \in Seq(Model), Len(models) <= MostModels, Distinct(models),
         ServiceAssumption
  PROVE  /\ WithRoom(models) \in Seq(Model) /\ Len(WithRoom(models)) < MostModels
         /\ Distinct(WithRoom(models)) /\ Within(WithRoom(models), models)
<1>1. MostModels \in Nat \ {0} /\ Len(models) \in Nat
  BY DEF ServiceAssumption
<1>2. CASE Len(models) < MostModels
  BY <1>2 DEF WithRoom, Within
<1>3. CASE ~(Len(models) < MostModels)
  <2> DEFINE from == Len(models) - MostModels + 2
             w == SubSeq(models, from, Len(models))
  <2>1. Len(models) = MostModels /\ from = 2 /\ WithRoom(models) = w
    BY <1>1, <1>3 DEF WithRoom
  <2>2. /\ w \in Seq(Model) /\ Len(w) = Len(models) - 1 /\ DOMAIN w = 1 .. Len(models) - 1
        /\ \A j \in 1 .. Len(models) - 1 : w[j] = models[j + 1]
    BY <1>1, <2>1
  <2> HIDE DEF w
  <2> DEFINE at == [j \in DOMAIN w |-> j + 1]
  <2>3. /\ at \in [DOMAIN w -> DOMAIN models]
        /\ \A j \in DOMAIN w : w[j] = models[at[j]]
        /\ \A j, k \in DOMAIN w : j # k => at[j] # at[k]
    BY <1>1, <2>2
  <2> HIDE DEF at
  <2>4. Distinct(w) /\ Within(w, models)
    BY <2>3, Picked
  <2> QED BY <1>1, <2>1, <2>2, <2>4
<1> QED BY <1>2, <1>3

-----------------------------------------------------------------------------
\* Nothing is at work to begin with.
LEMMA ServiceInit == Init => ServiceInv
<1> SUFFICES ASSUME Init PROVE ServiceInv
  OBVIOUS
<1>1. NoWork \in Work
  BY DEF NoWork, WorkOn, Work
<1>2. StateOK
  <2>1. jobs \in Seq(Work) /\ models \in Seq(Model) /\ Len(models) <= MostModels
    BY ServiceAssumption DEF Init, ServiceAssumption
  <2>2. precisions \in [Languages -> Precisions] /\ onDisk \in [Directories -> SUBSET Precisions]
    BY DEF Init, Precisions
  <2> QED BY <1>1, <2>1, <2>2 DEF Init, StateOK
<1>3. Numbered /\ Choosing
  BY DEF Init, Numbered, Choosing, NoWork, WorkOn
<1> QED BY <1>2, <1>3 DEF ServiceInv

\* What is at work has a language left: the one whose turn it is.
LEMMA AtWork ==
  ASSUME ServiceInv, step # "idle"
  PROVE  /\ work \in Work /\ Len(work.langs) \in Nat \ {0}
         /\ Head(work.langs) \in Languages
         /\ Tail(work.langs) \in Seq(Languages)
         /\ DirectoryOf[Head(work.langs)] \in Directories
<1>1. work \in Work /\ work.langs # <<>> /\ work.langs \in Seq(Languages)
  BY DEF ServiceInv, StateOK, Numbered, Work
<1> QED BY <1>1, ServiceAssumption DEF ServiceAssumption

\* After the work on a language: the next one, or nothing.
LEMMA Finished ==
  ASSUME ServiceInv, step # "idle", Finish
  PROVE  /\ work' \in Work /\ step' \in {"idle", "weights"} /\ chosen' = {}
         /\ answered' \in Nat /\ caller' \in Nat
         /\ step' = "idle" => work' = NoWork
         /\ step' # "idle" => work'.langs # <<>>
         /\ work'.kind = "request" => work.kind = "request" /\ work'.number = work.number
<1>1. work \in Work /\ Len(work.langs) \in Nat \ {0} /\ work.langs \in Seq(Languages)
  BY AtWork DEF Work
<1>2. answered \in Nat /\ caller \in Nat /\ work.number \in Nat
  BY <1>1 DEF ServiceInv, StateOK, Work
<1>3. CASE Len(work.langs) = 1
  <2>1. work' = NoWork /\ step' = "idle" /\ chosen' = {}
    BY <1>3 DEF Finish
  <2>2. NoWork \in Work /\ NoWork.kind = "none"
    BY DEF NoWork, WorkOn, Work
  <2> QED BY <1>2, <1>3, <2>1, <2>2 DEF Finish
<1>4. CASE Len(work.langs) # 1
  <2>1. /\ work' = [work EXCEPT !.langs = Tail(work.langs)] /\ step' = "weights"
        /\ chosen' = {} /\ answered' = answered /\ caller' = caller
    BY <1>4 DEF Finish
  <2>2. Tail(work.langs) \in Seq(Languages) /\ Tail(work.langs) # <<>>
    <3>1. work.langs # <<>>
      BY <1>1
    <3>2. Tail(work.langs) \in Seq(Languages) /\ Len(Tail(work.langs)) = Len(work.langs) - 1
      BY <1>1, <3>1, HeadTailProperties
    <3>3. Len(Tail(work.langs)) # 0
      BY <1>1, <1>4, <3>2
    <3> QED BY <3>2, <3>3, EmptySeq
  <2> QED BY <1>1, <1>2, <2>1, <2>2 DEF Work
<1> QED BY <1>3, <1>4

\* Choosing weights: a model used, none, or one to load whose place is free.
LEMMA Chosen ==
  ASSUME ServiceInv, Distinct(models), ChooseWeights
  PROVE  /\ models' \in Seq(Model) /\ Len(models') <= Len(models)
         /\ Distinct(models)' /\ Within(models', models)
         /\ \/ Finish
            \/ /\ step' \in {"loading", "translating"}
               /\ UNCHANGED <<work, answered, caller>>
               /\ chosen' \subseteq Model /\ \A m, n \in chosen' : m = n
               /\ \A m \in chosen' : m.since = changes \/ \E i \in DOMAIN models : m.since = models[i].since
               /\ step' = "loading" =>
                    \A m \in chosen', i \in DOMAIN models' : models'[i].dir # m.dir
<1> DEFINE l    == Head(work.langs)
           d    == DirectoryOf[l]
           p    == WeightsFor(l)
           held == {i \in At(d) : models[i].precision = p}
           hit  == held # {} /\ (work.kind = "health" => Available(l))
           new  == [dir |-> d, precision |-> p, wanted |-> precisions[l], since |-> changes]
<1>1. /\ l \in Languages /\ d \in Directories /\ precisions[l] \in Precisions
      /\ p \in Precisions /\ models \in Seq(Model) /\ changes \in Nat
  <2>1. l \in Languages /\ d \in Directories
    BY AtWork DEF ChooseWeights
  <2>2. precisions[l] \in Precisions
    BY <2>1 DEF ServiceInv, StateOK
  <2> QED BY <2>1, <2>2 DEF WeightsFor, Other, Precisions, ServiceInv, StateOK
<1>2. held \subseteq DOMAIN models /\ \A i, j \in held : i = j
  BY DEF At, Distinct
<1>3. CASE hit /\ models' = Used(CHOOSE i \in held : TRUE)
             /\ IF work.kind = "warm"
                THEN Finish
                ELSE /\ step' = "translating"
                     /\ chosen' = {[models[i] EXCEPT !.wanted = precisions[l]] : i \in held}
                     /\ UNCHANGED <<work, answered, caller>>
  <2>1. PICK i \in held : i = CHOOSE k \in held : TRUE
    BY <1>3
  <2>2. i \in DOMAIN models /\ models' = Used(i) /\ \A k \in held : k = i
    BY <1>2, <1>3, <2>1
  <2>3. /\ models' \in Seq(Model) /\ Len(models') <= Len(models)
        /\ Distinct(models') /\ Within(models', models)
    <3>1. /\ Used(i) \in Seq(Model) /\ Len(Used(i)) = Len(models)
          /\ Distinct(Used(i)) /\ Within(Used(i), models)
      BY <1>1, <2>2, UsedModel
    <3> QED BY <1>1, <2>2, <3>1
  <2>4. CASE work.kind = "warm"
    BY <1>3, <2>3, <2>4 DEF Distinct
  <2>5. CASE work.kind # "warm"
    <3>1. /\ step' = "translating" /\ UNCHANGED <<work, answered, caller>>
          /\ chosen' = {[models[k] EXCEPT !.wanted = precisions[l]] : k \in held}
      BY <1>3, <2>5
    <3>2. chosen' = {[models[i] EXCEPT !.wanted = precisions[l]]}
      BY <2>1, <2>2, <3>1
    <3>3. models[i] \in Model
      BY <1>1, <2>2
    <3>4. /\ [models[i] EXCEPT !.wanted = precisions[l]] \in Model
          /\ [models[i] EXCEPT !.wanted = precisions[l]].since = models[i].since
      BY <1>1, <3>3 DEF Model
    <3> QED BY <2>2, <2>3, <3>1, <3>2, <3>4 DEF Distinct
  <2> QED BY <2>4, <2>5
<1>4. CASE Finish /\ UNCHANGED models
  BY <1>1, <1>4 DEF Distinct, Within
<1>5. CASE /\ models' = LetGoOf(d) /\ step' = "loading" /\ chosen' = {new}
           /\ UNCHANGED <<work, answered, caller>>
  <2>1. new \in Model /\ new.since = changes /\ new.dir = d
    BY <1>1 DEF Model
  <2>2. /\ LetGoOf(d) \in Seq(Model) /\ Len(LetGoOf(d)) <= Len(models)
        /\ Distinct(LetGoOf(d)) /\ Within(LetGoOf(d), models)
        /\ \A i \in DOMAIN LetGoOf(d) : LetGoOf(d)[i].dir # d
    BY <1>1, LetGo
  <2> HIDE DEF new, d
  <2> QED BY <1>5, <2>1, <2>2 DEF Distinct
<1> QED BY <1>3, <1>4, <1>5 DEF ChooseWeights

\* Loading: the model goes to the end of those there is room for, or there is none.
LEMMA LoadedModel ==
  ASSUME ServiceInv, NeverBothPrecisions, LoadModel
  PROVE  /\ models' \in Seq(Model) /\ Len(models') <= MostModels
         /\ Distinct(models)'
         /\ \A i \in DOMAIN models' : models'[i] \in chosen
                                    \/ \E j \in DOMAIN models : models'[i] = models[j]
         /\ \/ Finish
            \/ step' = "translating" /\ UNCHANGED <<work, chosen, answered, caller>>
<1> PICK m \in chosen :
      \/ Finish /\ UNCHANGED models
      \/ /\ models' = Append(WithRoom(models), m)
         /\ Finish \/ (step' = "translating" /\ UNCHANGED <<work, chosen, answered, caller>>)
  BY DEF LoadModel
<1>1. /\ m \in Model /\ models \in Seq(Model) /\ Len(models) <= MostModels
      /\ Distinct(models) /\ MostModels \in Nat \ {0}
      /\ \A i \in DOMAIN models : models[i].dir # m.dir
  BY ServiceAssumption
     DEF ServiceInv, StateOK, NeverBothPrecisions, Distinct, LoadModel, ServiceAssumption
<1>2. CASE Finish /\ UNCHANGED models
  BY <1>1, <1>2 DEF Distinct
<1>3. CASE /\ models' = Append(WithRoom(models), m)
           /\ Finish \/ (step' = "translating" /\ UNCHANGED <<work, chosen, answered, caller>>)
  <2> DEFINE w == WithRoom(models)
             v == Append(w, m)
  <2>1. /\ w \in Seq(Model) /\ Len(w) < MostModels
        /\ Distinct(w) /\ Within(w, models)
    BY <1>1, Room, ServiceAssumption
  <2> HIDE DEF w
  <2>2. /\ v \in Seq(Model) /\ Len(v) = Len(w) + 1
        /\ \A i \in 1 .. Len(w) : v[i] = w[i]
        /\ v[Len(w) + 1] = m
    BY <1>1, <2>1, AppendProperties
  <2>3. Len(w) \in Nat /\ DOMAIN w = 1 .. Len(w)
    BY <2>1
  <2> HIDE DEF v
  <2>4. DOMAIN v = 1 .. Len(w) + 1 /\ Len(v) <= MostModels
    BY <1>1, <2>1, <2>2, <2>3
  <2>5. ASSUME NEW i \in DOMAIN v
        PROVE  (i \in DOMAIN w /\ v[i] = w[i]) \/ (i = Len(w) + 1 /\ v[i] = m)
    BY <2>2, <2>3, <2>4
  <2>6. \A i \in DOMAIN w : w[i].dir # m.dir
    BY <1>1, <2>1 DEF Within
  <2>7. Distinct(v)
    BY <2>1, <2>5, <2>6 DEF Distinct
  <2>8. \A i \in DOMAIN v : v[i] \in chosen \/ \E j \in DOMAIN models : v[i] = models[j]
    BY <2>1, <2>5 DEF Within
  <2>9. models' = v
    BY <1>3 DEF v, w
  <2> QED BY <1>3, <2>2, <2>4, <2>7, <2>8, <2>9 DEF Distinct
<1> QED BY <1>2, <1>3

-----------------------------------------------------------------------------
\* What happens with the translation thread at rest leaves it what it was.
LEMMA ThreadUntouched ==
  ASSUME ServiceInv, UNCHANGED thread
  PROVE  /\ work' \in Work /\ step' \in {"idle", "warming", "weights", "loading", "translating"}
         /\ chosen' \subseteq Model /\ models' \in Seq(Model) /\ Len(models') <= MostModels
         /\ step' = "idle" => work' = NoWork
         /\ step' # "idle" => work'.langs # <<>>
         /\ work'.kind = "request" => work'.number # 0
         /\ Choosing'
BY DEF ServiceInv, StateOK, Numbered, Choosing, thread

\* A job added is what its kind says.
LEMMA JobAdded ==
  ASSUME NEW j \in Work, j.kind \in {"call", "health", "warm"}, j.langs # <<>>,
         ServiceInv, jobs' = Append(jobs, j)
  PROVE  /\ jobs' \in Seq(Work)
         /\ \A i \in DOMAIN jobs' :
              jobs'[i].kind \in {"call", "health", "warm"} /\ jobs'[i].langs # <<>>
         /\ DOMAIN jobs' = 1 .. Len(jobs) + 1 /\ DOMAIN jobs = 1 .. Len(jobs)
         /\ \A i \in 1 .. Len(jobs) : jobs'[i] = jobs[i]
         /\ jobs'[Len(jobs) + 1] = j
         /\ Len(jobs) \in Nat
<1>1. jobs \in Seq(Work)
  BY DEF ServiceInv, StateOK
<1>2. Len(jobs) \in Nat /\ DOMAIN jobs = 1 .. Len(jobs)
  BY <1>1
<1>3. /\ jobs' \in Seq(Work) /\ Len(jobs') = Len(jobs) + 1
      /\ \A i \in 1 .. Len(jobs) : jobs'[i] = jobs[i]
      /\ jobs'[Len(jobs) + 1] = j
  BY <1>1, AppendProperties
<1>4. DOMAIN jobs' = 1 .. Len(jobs) + 1
  BY <1>2, <1>3
<1>5. \A i \in DOMAIN jobs :
        jobs[i].kind \in {"call", "health", "warm"} /\ jobs[i].langs # <<>>
  BY DEF ServiceInv, Numbered
<1> QED BY <1>2, <1>3, <1>4, <1>5

\* The first job taken leaves the others.
LEMMA JobTaken ==
  ASSUME ServiceInv, jobs # <<>>, jobs' = Tail(jobs)
  PROVE  /\ Head(jobs) \in Work /\ Head(jobs) = jobs[1] /\ 1 \in DOMAIN jobs
         /\ Head(jobs).kind \in {"call", "health", "warm"} /\ Head(jobs).langs # <<>>
         /\ jobs' \in Seq(Work)
         /\ \A i \in DOMAIN jobs' : i + 1 \in DOMAIN jobs /\ jobs'[i] = jobs[i + 1]
         /\ \A i \in DOMAIN jobs : i = 1 \/ (i - 1 \in DOMAIN jobs' /\ jobs'[i - 1] = jobs[i])
         /\ DOMAIN jobs \subseteq Nat /\ DOMAIN jobs' \subseteq Nat
         /\ \A i \in DOMAIN jobs' :
              jobs'[i].kind \in {"call", "health", "warm"} /\ jobs'[i].langs # <<>>
<1>1. jobs \in Seq(Work) /\ Len(jobs) \in Nat \ {0} /\ DOMAIN jobs = 1 .. Len(jobs)
  BY DEF ServiceInv, StateOK
<1>2. /\ Head(jobs) \in Work /\ jobs' \in Seq(Work) /\ Len(jobs') = Len(jobs) - 1
      /\ \A i \in 1 .. Len(jobs') : jobs'[i] = jobs[i + 1]
  BY <1>1, HeadTailProperties
<1>3. Head(jobs) = jobs[1] /\ 1 \in DOMAIN jobs /\ DOMAIN jobs' = 1 .. Len(jobs) - 1
  BY <1>1, <1>2
<1>4. \A i \in DOMAIN jobs :
        jobs[i].kind \in {"call", "health", "warm"} /\ jobs[i].langs # <<>>
  BY DEF ServiceInv, Numbered
<1>5. \A i \in DOMAIN jobs' : i + 1 \in DOMAIN jobs /\ jobs'[i] = jobs[i + 1]
  BY <1>1, <1>2, <1>3
<1>6. \A i \in DOMAIN jobs : i = 1 \/ (i - 1 \in DOMAIN jobs' /\ jobs'[i - 1] = jobs[i])
  BY <1>1, <1>2, <1>3
<1> QED BY <1>1, <1>2, <1>3, <1>4, <1>5, <1>6

-----------------------------------------------------------------------------
\* What is held and chosen when the thread is not choosing or loading.
LEMMA ApartUntouched ==
  ASSUME NeverBothPrecisions, UNCHANGED <<models, chosen>>, step' = "loading" => step = "loading"
  PROVE  NeverBothPrecisions'
BY DEF NeverBothPrecisions

\* Every step keeps the types, and what numbers, kinds and choices say; and two
\* models of one directory are never held at once.
LEMMA ServiceStep ==
  ASSUME ServiceInv, NeverBothPrecisions, [Next]_vars
  PROVE  ServiceInv' /\ NeverBothPrecisions'
<1> USE DEF ServiceInv
<1> DEFINE Rest == /\ reload' \in BOOLEAN /\ warming' \in BOOLEAN
                   /\ precisions' \in [Languages -> Precisions]
                   /\ asked' \in Nat /\ missed' \in Texts \cup {NoText}
                   /\ calls' \in Nat /\ caller' \in Nat
                   /\ onDisk' \in [Directories -> SUBSET Precisions] /\ stopping' \in BOOLEAN
                   /\ answered' \in Nat /\ changes' \in Nat
           Ours == /\ work' \in Work
                   /\ step' \in {"idle", "warming", "weights", "loading", "translating"}
                   /\ chosen' \subseteq Model /\ models' \in Seq(Model) /\ Len(models') <= MostModels
                   /\ step' = "idle" => work' = NoWork
                   /\ step' # "idle" => work'.langs # <<>>
                   /\ work'.kind = "request" => work'.number # 0
                   /\ Choosing'
           Jobs == /\ jobs' \in Seq(Work)
                   /\ \A i \in DOMAIN jobs' :
                        jobs'[i].kind \in {"call", "health", "warm"} /\ jobs'[i].langs # <<>>
           Slot_ == /\ pending' \in Work
                    /\ pending' = NoWork \/ (/\ pending'.kind = "request"
                                            /\ pending'.number = asked' /\ asked' # 0)
                    /\ pending' # NoWork => pending'.langs # <<>>
<1>1. Rest /\ Ours /\ Jobs /\ Slot_ => ServiceInv'
  BY DEF StateOK, Numbered
<1>2. UNCHANGED jobs => Jobs
  BY DEF StateOK, Numbered
<1>3. UNCHANGED <<pending, asked>> => Slot_
  BY DEF StateOK, Numbered
<1>4. UNCHANGED thread => Ours /\ NeverBothPrecisions'
  <2> SUFFICES ASSUME UNCHANGED thread PROVE Ours /\ NeverBothPrecisions'
    OBVIOUS
  <2>1. NeverBothPrecisions'
    BY ApartUntouched DEF thread
  <2> QED BY <2>1, ThreadUntouched
<1> HIDE DEF ServiceInv
<1>5. StateOK
  BY DEF ServiceInv
<1>6. ASSUME NEW t \in Texts, Cached(t)
      PROVE  ServiceInv' /\ NeverBothPrecisions'
  <2>1. Rest
    BY <1>5, <1>6 DEF Cached, StateOK, callers, outside, history
  <2> QED BY <1>1, <1>2, <1>3, <1>4, <1>6, <2>1 DEF Cached
<1>7. CASE RequestTranslation
  <2>1. Rest /\ asked' # 0
    BY <1>5, <1>7 DEF RequestTranslation, StateOK, outside, history
  <2>2. missed \in Texts
    BY <1>5, <1>7 DEF RequestTranslation, StateOK
  <2>3. /\ WorkOn("request", asked', missed, <<LanguageOf[missed]>>) \in Work
        /\ WorkOn("request", asked', missed, <<LanguageOf[missed]>>).kind = "request"
        /\ WorkOn("request", asked', missed, <<LanguageOf[missed]>>).number = asked'
        /\ WorkOn("request", asked', missed, <<LanguageOf[missed]>>).langs # <<>>
    <3>1. LanguageOf[missed] \in Languages
      BY <2>2, ServiceAssumption DEF ServiceAssumption
    <3> QED BY <2>1, <2>2, <3>1 DEF WorkOn, Work
  <2>4. Slot_
    BY <1>7, <2>1, <2>3 DEF RequestTranslation
  <2> QED BY <1>1, <1>2, <1>4, <1>7, <2>1, <2>4 DEF RequestTranslation
<1>8. CASE NotAsked
  <2>1. Rest
    BY <1>5, <1>8 DEF NotAsked, StateOK, shared, outside, history
  <2> QED BY <1>1, <1>2, <1>3, <1>4, <1>8, <2>1 DEF NotAsked, shared
<1>9. ASSUME NEW kind \in {"call", "health"}, NEW text \in Texts \cup {NoText},
             NEW langs \in Seq(Languages), langs # <<>>, Wait(kind, text, langs)
      PROVE  ServiceInv' /\ NeverBothPrecisions'
  <2> DEFINE j == WorkOn(kind, calls', text, langs)
  <2>1. Rest
    BY <1>5, <1>9 DEF Wait, StateOK, outside, history
  <2>2. j \in Work /\ j.kind \in {"call", "health", "warm"} /\ j.langs # <<>>
    BY <1>9, <2>1 DEF Work, WorkOn
  <2>3. jobs' = Append(jobs, j)
    BY <1>9 DEF Wait
  <2> HIDE DEF j
  <2>4. Jobs
    BY <2>2, <2>3, JobAdded
  <2> QED BY <1>1, <1>3, <1>4, <1>9, <2>1, <2>4 DEF Wait
<1>10. ASSUME NEW t \in Texts, TranslateNow(t)
       PROVE  ServiceInv' /\ NeverBothPrecisions'
  <2>1. LanguageOf[t] \in Languages
    BY ServiceAssumption DEF ServiceAssumption
  <2>2. <<LanguageOf[t]>> \in Seq(Languages) /\ <<LanguageOf[t]>> # <<>>
    BY <2>1
  <2>3. Wait("call", t, <<LanguageOf[t]>>)
    BY <1>10 DEF TranslateNow
  <2> QED BY <1>9, <2>2, <2>3
<1>11. CASE Diagnose
  BY <1>9, <1>11, ServiceAssumption DEF Diagnose, ServiceAssumption
<1>12. CASE GiveUp
  <2>1. Rest
    BY <1>5, <1>12 DEF GiveUp, StateOK, shared, outside, history
  <2> QED BY <1>1, <1>2, <1>3, <1>4, <1>12, <2>1 DEF GiveUp, shared
<1>13. ASSUME NEW l \in Languages, Warm(l)
       PROVE  ServiceInv' /\ NeverBothPrecisions'
  <2> DEFINE j == WorkOn("warm", 0, NoText, <<l>>)
  <2>1. Rest
    BY <1>5, <1>13 DEF Warm, StateOK, callers, outside, history
  <2>2. j \in Work /\ j.kind \in {"call", "health", "warm"} /\ j.langs # <<>>
    <3>1. <<l>> \in Seq(Languages) /\ <<l>> # <<>>
      OBVIOUS
    <3> QED BY <3>1 DEF Work, WorkOn
  <2>3. jobs' = Append(jobs, j)
    BY <1>13 DEF Warm
  <2> HIDE DEF j
  <2>4. Jobs
    BY <2>2, <2>3, JobAdded
  <2> QED BY <1>1, <1>3, <1>4, <1>13, <2>1, <2>4 DEF Warm, callers
<1>14. CASE SetPrecisions
  <2>1. Rest
    BY <1>5, <1>14 DEF SetPrecisions, StateOK, callers, outside
  <2> QED BY <1>1, <1>2, <1>3, <1>4, <1>14, <2>1 DEF SetPrecisions, callers
<1>15. CASE Reload
  <2>1. Rest
    BY <1>5, <1>15 DEF Reload, StateOK, callers, outside
  <2> QED BY <1>1, <1>2, <1>3, <1>4, <1>15, <2>1 DEF Reload, callers
<1>16. CASE Stop
  <2>1. Rest
    BY <1>5, <1>16 DEF Stop, StateOK, shared, callers, history
  <2> QED BY <1>1, <1>2, <1>3, <1>4, <1>16, <2>1 DEF Stop, shared, callers
<1>17. CASE Expire
  <2>1. Rest
    BY <1>5, <1>17 DEF Expire, StateOK, callers, outside, history
  <2> QED BY <1>1, <1>2, <1>3, <1>4, <1>17, <2>1 DEF Expire, callers
<1>18. CASE Download
  <2>1. Rest
    BY <1>5, <1>18 DEF Download, StateOK, shared, callers, history
  <2> QED BY <1>1, <1>2, <1>3, <1>4, <1>18, <2>1 DEF Download, shared, callers
<1>19. CASE Take
  <2>1. Rest
    BY <1>5, <1>19 DEF Take, StateOK, callers, outside, history
  <2>2. /\ step = "idle" /\ work = NoWork /\ chosen = {} /\ chosen' = {} /\ asked' = asked
        /\ NoWork.kind # "request"
    BY <1>19 DEF Take, ServiceInv, Numbered, Choosing, callers, NoWork, WorkOn
  <2>3. models' \in Seq(Model) /\ Len(models') <= MostModels
    BY <1>5, <1>19, ServiceAssumption DEF Take, StateOK, ServiceAssumption
  <2>4. NeverBothPrecisions'
    <3>1. step' # "loading"
      BY <1>19, <2>2 DEF Take, Begin, TakeJob
    <3>2. models' = models \/ models' = <<>>
      BY <1>19 DEF Take
    <3> QED BY <3>1, <3>2 DEF NeverBothPrecisions
  <2>5. ASSUME NEW w \in Work, w.langs # <<>>, w.kind = "request" => w.number # 0, Begin(w)
        PROVE  Ours
    <3>1. work' = w /\ step' \in {"warming", "weights"}
      BY <2>5 DEF Begin
    <3> QED BY <2>2, <2>3, <2>5, <3>1 DEF Choosing
  <2>6. CASE jobs # <<>> /\ TakeJob /\ UNCHANGED pending
    <3>1. jobs' = Tail(jobs) /\ Begin(Head(jobs)) /\ jobs # <<>>
      BY <2>6 DEF TakeJob
    <3>2. /\ Head(jobs) \in Work /\ Head(jobs).langs # <<>> /\ Head(jobs).kind # "request"
          /\ Jobs
      BY <3>1, JobTaken
    <3>3. Ours
      BY <2>5, <3>1, <3>2
    <3> QED BY <1>1, <1>3, <2>1, <2>2, <2>4, <2>6, <3>2, <3>3
  <2>7. CASE /\ jobs = <<>> /\ pending # NoWork /\ Begin(pending)
             /\ pending' = NoWork /\ UNCHANGED jobs
    <3>1. pending \in Work /\ pending.langs # <<>> /\ pending.number # 0
      BY <1>5, <2>7 DEF StateOK, ServiceInv, Numbered
    <3>2. Ours
      BY <2>5, <2>7, <3>1
    <3>3. Slot_
      BY <2>7 DEF NoWork, WorkOn, Work
    <3> QED BY <1>1, <1>2, <2>1, <2>4, <2>7, <3>2, <3>3
  <2>8. CASE /\ jobs = <<>> /\ pending = NoWork
             /\ UNCHANGED <<work, step, jobs, pending>>
    <3>1. Ours
      BY <1>5, <2>2, <2>3, <2>8 DEF StateOK, Choosing
    <3> QED BY <1>1, <1>2, <1>3, <2>1, <2>2, <2>4, <2>8, <3>1
  <2> QED BY <1>19, <2>6, <2>7, <2>8 DEF Take
<1>20. CASE Unload
  <2>1. Rest
    BY <1>5, <1>20 DEF Unload, StateOK, shared, callers, outside, history
  <2>2. Ours
    BY <1>5, <1>20, ServiceAssumption
       DEF Unload, StateOK, ServiceInv, Numbered, Choosing, ServiceAssumption
  <2>3. NeverBothPrecisions'
    BY <1>20 DEF Unload, NeverBothPrecisions
  <2> QED BY <1>1, <1>2, <1>3, <1>20, <2>1, <2>2, <2>3 DEF Unload, shared, callers
<1>21. CASE StartWarming
  <2>1. Rest
    BY <1>5, <1>21 DEF StartWarming, StateOK, callers, outside, history
  <2>2. Ours
    BY <1>5, <1>21 DEF StartWarming, StateOK, ServiceInv, Numbered, Choosing
  <2>3. NeverBothPrecisions'
    BY <1>21 DEF StartWarming, NeverBothPrecisions
  <2> QED BY <1>1, <1>2, <1>3, <1>21, <2>1, <2>2, <2>3 DEF StartWarming, callers
<1>22. ASSUME step # "idle", Finish
       PROVE  /\ work' \in Work /\ chosen' = {} /\ step' \in {"idle", "weights"} /\ Choosing'
              /\ answered' \in Nat /\ caller' \in Nat
              /\ step' = "idle" => work' = NoWork
              /\ step' # "idle" => work'.langs # <<>>
              /\ work'.kind = "request" => work'.number # 0
  <2>1. /\ work' \in Work /\ step' \in {"idle", "weights"} /\ chosen' = {}
        /\ answered' \in Nat /\ caller' \in Nat
        /\ step' = "idle" => work' = NoWork
        /\ step' # "idle" => work'.langs # <<>>
        /\ work'.kind = "request" => work.kind = "request" /\ work'.number = work.number
    BY <1>22, Finished
  <2>2. work.kind = "request" => work.number # 0
    BY DEF ServiceInv, Numbered
  <2> QED BY <2>1, <2>2 DEF Choosing
<1>23. ASSUME UNCHANGED <<asked, missed, calls, reload, warming, precisions, outside, changes>>,
              answered' \in Nat, caller' \in Nat
       PROVE  Rest
  BY <1>5, <1>23 DEF StateOK, outside
<1>24. ASSUME UNCHANGED <<work, answered, caller>>, step # "idle"
       PROVE  /\ work' \in Work /\ answered' \in Nat /\ caller' \in Nat
              /\ work'.langs # <<>>
              /\ work'.kind = "request" => work'.number # 0
  BY <1>5, <1>24 DEF StateOK, ServiceInv, Numbered
<1>25. Distinct(models) /\ Len(models) <= MostModels /\ Len(models) \in Nat /\ MostModels \in Nat
  BY <1>5, ServiceAssumption DEF Distinct, NeverBothPrecisions, StateOK, ServiceAssumption
<1>26. CASE ChooseWeights
  <2>1. /\ models' \in Seq(Model) /\ Len(models') <= Len(models)
        /\ Distinct(models)' /\ Within(models', models)
        /\ \/ Finish
           \/ /\ step' \in {"loading", "translating"}
              /\ UNCHANGED <<work, answered, caller>>
              /\ chosen' \subseteq Model /\ \A m, n \in chosen' : m = n
              /\ step' = "loading" =>
                   \A m \in chosen', i \in DOMAIN models' : models'[i].dir # m.dir
    BY <1>25, <1>26, Chosen
  <2>2. Len(models') <= MostModels /\ step # "idle"
    BY <1>25, <1>26, <2>1 DEF ChooseWeights
  <2>3. /\ UNCHANGED <<asked, missed, calls, reload, warming, precisions, outside, changes>>
        /\ UNCHANGED <<jobs, pending, asked>>
    BY <1>26 DEF ChooseWeights, shared
  <2>4. Ours /\ answered' \in Nat /\ caller' \in Nat /\ NeverBothPrecisions'
    <3>1. CASE Finish
      BY <1>22, <2>1, <2>2, <3>1 DEF NeverBothPrecisions, Distinct
    <3>2. CASE ~Finish
      <4>1. /\ work' \in Work /\ answered' \in Nat /\ caller' \in Nat
            /\ work'.langs # <<>>
            /\ work'.kind = "request" => work'.number # 0
        BY <1>24, <2>1, <2>2, <3>2
      <4>2. /\ step' \in {"loading", "translating"}
            /\ chosen' \subseteq Model /\ \A m, n \in chosen' : m = n
        BY <2>1, <3>2
      <4>3. Ours
        BY <2>1, <2>2, <4>1, <4>2 DEF Choosing
      <4>4. NeverBothPrecisions'
        BY <2>1, <3>2 DEF NeverBothPrecisions, Distinct
      <4> QED BY <4>1, <4>3, <4>4
    <3> QED BY <3>1, <3>2
  <2> QED BY <1>1, <1>2, <1>3, <1>23, <2>3, <2>4
<1>27. CASE LoadModel
  <2>1. /\ models' \in Seq(Model) /\ Len(models') <= MostModels
        /\ Distinct(models)'
        /\ \/ Finish
           \/ step' = "translating" /\ UNCHANGED <<work, chosen, answered, caller>>
    BY <1>27, LoadedModel
  <2>2. step # "idle"
    BY <1>27 DEF LoadModel
  <2>3. /\ UNCHANGED <<asked, missed, calls, reload, warming, precisions, outside, changes>>
        /\ UNCHANGED <<jobs, pending, asked>>
    BY <1>27 DEF LoadModel, shared
  <2>4. chosen \subseteq Model /\ \A m, n \in chosen : m = n
    BY <1>5 DEF StateOK, ServiceInv, Choosing
  <2>5. Ours /\ answered' \in Nat /\ caller' \in Nat /\ NeverBothPrecisions'
    <3>1. CASE Finish
      BY <1>22, <2>1, <2>2, <3>1 DEF NeverBothPrecisions, Distinct
    <3>2. CASE ~Finish
      <4>1. /\ work' \in Work /\ answered' \in Nat /\ caller' \in Nat
            /\ work'.langs # <<>>
            /\ work'.kind = "request" => work'.number # 0
        BY <1>24, <2>1, <2>2, <3>2
      <4>2. /\ step' \in {"loading", "translating"}
            /\ chosen' \subseteq Model /\ \A m, n \in chosen' : m = n
        BY <2>1, <2>4, <3>2
      <4>3. Ours
        BY <2>1, <2>2, <4>1, <4>2 DEF Choosing
      <4>4. NeverBothPrecisions'
        BY <2>1, <3>2 DEF NeverBothPrecisions, Distinct
      <4> QED BY <4>1, <4>3, <4>4
    <3> QED BY <3>1, <3>2
  <2> QED BY <1>1, <1>2, <1>3, <1>23, <2>3, <2>5
<1>28. CASE Translate
  <2>1. Finish /\ step # "idle" /\ UNCHANGED models
    BY <1>28 DEF Translate
  <2>2. /\ UNCHANGED <<asked, missed, calls, reload, warming, precisions, outside, changes>>
        /\ UNCHANGED <<jobs, pending, asked>>
    BY <1>28 DEF Translate
  <2>3. Ours /\ answered' \in Nat /\ caller' \in Nat
    BY <1>5, <1>22, <2>1 DEF StateOK
  <2>4. NeverBothPrecisions'
    BY <1>22, <2>1 DEF NeverBothPrecisions
  <2> QED BY <1>1, <1>2, <1>3, <1>23, <2>2, <2>3, <2>4
<1>29. CASE UNCHANGED vars
  <2>1. Rest
    BY <1>5, <1>29 DEF vars, StateOK
  <2>2. UNCHANGED thread /\ UNCHANGED <<jobs, pending, asked>>
    BY <1>29 DEF vars, thread
  <2> QED BY <1>1, <1>2, <1>3, <1>4, <2>1, <2>2
<1> QED
  BY <1>6, <1>7, <1>8, <1>10, <1>11, <1>12, <1>13, <1>14, <1>15, <1>16, <1>17,
     <1>18, <1>19, <1>20, <1>21, <1>26, <1>27, <1>28, <1>29
     DEF Next, Thread, Clients

-----------------------------------------------------------------------------
\* What every state of the service satisfies; the other proofs rest on it.
THEOREM ServiceInvariant == Spec => [](ServiceInv /\ NeverBothPrecisions)
<1>1. Init => ServiceInv /\ NeverBothPrecisions
  <2> SUFFICES ASSUME Init PROVE NeverBothPrecisions
    BY ServiceInit
  <2> QED BY DEF Init, NeverBothPrecisions
<1>2. ServiceInv /\ NeverBothPrecisions /\ [Next]_vars => (ServiceInv /\ NeverBothPrecisions)'
  BY ServiceStep
<1> QED BY <1>1, <1>2, PTL DEF Spec

\* Everything the service keeps, but the translations, is always of its type, and no
\* more models are held than most_models.
THEOREM StateAlwaysOK == Spec => []StateOK
<1>1. ServiceInv => StateOK
  BY DEF ServiceInv
<1> QED BY <1>1, ServiceInvariant, PTL

\* Two models of one directory, in either precision, never take up memory at once,
\* not even while one of them is being loaded.
THEOREM NeverBothPrecisionsHeld == Spec => []NeverBothPrecisions
BY ServiceInvariant, PTL

-----------------------------------------------------------------------------
\* No step has a model that was chosen before the last change of precision or
\* reload outlive the thread's taking up other work.
LEMMA FreshStep ==
  ASSUME ServiceInv, NeverBothPrecisions, ChosenSinceChange, [Next]_vars
  PROVE  ChosenSinceChange'
<1>1. ASSUME UNCHANGED <<reload, models, chosen, changes>>
      PROVE  ChosenSinceChange'
  BY <1>1 DEF ChosenSinceChange
<1>2. Distinct(models)
  BY DEF Distinct, NeverBothPrecisions
<1>3. ASSUME NEW t \in Texts, Cached(t) \/ TranslateNow(t)
      PROVE  ChosenSinceChange'
  BY <1>1, <1>3 DEF Cached, TranslateNow, Wait, thread, history
<1>4. ASSUME NEW l \in Languages, Warm(l)
      PROVE  ChosenSinceChange'
  BY <1>1, <1>4 DEF Warm, thread, history
<1>5. CASE RequestTranslation \/ NotAsked \/ Diagnose \/ GiveUp
  BY <1>1, <1>5
     DEF RequestTranslation, NotAsked, Diagnose, GiveUp, Wait, shared, thread, history
<1>6. CASE SetPrecisions \/ Reload
  BY <1>6 DEF SetPrecisions, Reload, ChosenSinceChange
<1>7. CASE Stop \/ Expire \/ Download \/ StartWarming
  BY <1>1, <1>7 DEF Stop, Expire, Download, StartWarming, shared, thread, history
<1>8. CASE Take
  <2>1. chosen' = {} /\ changes' = changes
    BY <1>8 DEF Take, ServiceInv, Choosing, history
  <2>2. models' = IF reload THEN <<>> ELSE models
    BY <1>8 DEF Take
  <2> QED BY <2>1, <2>2 DEF ChosenSinceChange
<1>9. CASE Unload
  BY <1>9 DEF Unload, ServiceInv, Choosing, history, shared, ChosenSinceChange
<1>10. CASE ChooseWeights
  <2>1. reload' = reload /\ changes' = changes
    BY <1>10 DEF ChooseWeights, shared
  <2>2. Within(models', models)
    BY <1>2, <1>10, Chosen
  <2>3. ASSUME NEW m \in chosen'
        PROVE  m.since = changes \/ \E i \in DOMAIN models : m.since = models[i].since
    <3>1. ~Finish
      BY <2>3 DEF Finish
    <3> QED BY <1>2, <1>10, <2>3, <3>1, Chosen
  <2> QED BY <2>1, <2>2, <2>3 DEF ChosenSinceChange, Within
<1>11. CASE LoadModel
  <2>1. reload' = reload /\ changes' = changes
    BY <1>11 DEF LoadModel, shared
  <2>2. \A i \in DOMAIN models' : models'[i] \in chosen
                                 \/ \E j \in DOMAIN models : models'[i] = models[j]
    BY <1>11, LoadedModel
  <2>3. chosen' = {} \/ chosen' = chosen
    BY <1>11, LoadedModel DEF Finish
  <2> QED BY <2>1, <2>2, <2>3 DEF ChosenSinceChange
<1>12. CASE Translate
  <2>1. reload' = reload /\ changes' = changes /\ models' = models /\ chosen' = {}
    BY <1>12 DEF Translate, Finish
  <2> QED BY <2>1 DEF ChosenSinceChange
<1>13. CASE UNCHANGED vars
  BY <1>1, <1>13 DEF vars
<1> QED
  BY <1>3, <1>4, <1>5, <1>6, <1>7, <1>8, <1>9, <1>10, <1>11, <1>12, <1>13
     DEF Next, Thread, Clients

\* Unless models are about to be let go of, none that is held or at work was chosen
\* before the last change of precision or reload.
THEOREM AlwaysChosenSinceChange == Spec => []ChosenSinceChange
<1>1. Init => ChosenSinceChange
  BY DEF Init, ChosenSinceChange
<1>2. ServiceInv /\ NeverBothPrecisions /\ ChosenSinceChange /\ [Next]_vars => ChosenSinceChange'
  BY FreshStep
<1> QED BY <1>1, <1>2, ServiceInvariant, PTL DEF Spec

-----------------------------------------------------------------------------
\* A warm-up is queued when none is, and told of when it starts.
LEMMA WarmStep ==
  ASSUME ServiceInv, WarmOnce, [Next]_vars
  PROVE  WarmOnce'
<1>1. ASSUME UNCHANGED <<jobs, warming>>, step' = "warming" <=> step = "warming"
      PROVE  WarmOnce'
  BY <1>1 DEF WarmOnce
<1>2. ASSUME step # "warming", Finish
      PROVE  step' # "warming"
  BY <1>2 DEF Finish
<1>3. ASSUME NEW kind \in {"call", "health"}, NEW text \in Texts \cup {NoText},
             NEW langs \in Seq(Languages), langs # <<>>, Wait(kind, text, langs)
      PROVE  WarmOnce'
  <2> DEFINE j == WorkOn(kind, calls', text, langs)
  <2>1. j \in Work /\ j.kind \in {"call", "health"} /\ j.langs # <<>>
    BY <1>3 DEF Work, WorkOn, Wait, ServiceInv, StateOK
  <2>2. jobs' = Append(jobs, j) /\ warming' = warming /\ step' = step
    BY <1>3 DEF Wait, thread
  <2> HIDE DEF j
  <2>3. /\ DOMAIN jobs' = 1 .. Len(jobs) + 1 /\ DOMAIN jobs = 1 .. Len(jobs)
        /\ \A i \in 1 .. Len(jobs) : jobs'[i] = jobs[i]
        /\ jobs'[Len(jobs) + 1].kind # "warm" /\ Len(jobs) \in Nat
    BY <2>1, <2>2, JobAdded
  <2>4. \A i \in DOMAIN jobs' : jobs'[i].kind = "warm" => i \in DOMAIN jobs /\ jobs[i].kind = "warm"
    BY <2>3
  <2>5. \A i \in DOMAIN jobs : i \in DOMAIN jobs' /\ jobs'[i] = jobs[i]
    BY <2>3
  <2> QED BY <2>2, <2>4, <2>5 DEF WarmOnce
<1>4. ASSUME NEW t \in Texts, Cached(t) \/ TranslateNow(t)
      PROVE  WarmOnce'
  <2>1. CASE Cached(t)
    BY <1>1, <2>1 DEF Cached, thread
  <2>2. CASE TranslateNow(t)
    <3>1. <<LanguageOf[t]>> \in Seq(Languages) /\ <<LanguageOf[t]>> # <<>>
      BY ServiceAssumption DEF ServiceAssumption
    <3>2. Wait("call", t, <<LanguageOf[t]>>)
      BY <2>2 DEF TranslateNow
    <3> QED BY <1>3, <3>1, <3>2
  <2> QED BY <1>4, <2>1, <2>2
<1>5. CASE Diagnose
  BY <1>3, <1>5, ServiceAssumption DEF Diagnose, ServiceAssumption
<1>6. ASSUME NEW l \in Languages, Warm(l)
      PROVE  WarmOnce'
  <2> DEFINE j == WorkOn("warm", 0, NoText, <<l>>)
  <2>1. j \in Work /\ j.kind = "warm" /\ j.langs # <<>>
    <3>1. <<l>> \in Seq(Languages) /\ <<l>> # <<>>
      OBVIOUS
    <3> QED BY <3>1 DEF Work, WorkOn
  <2>2. jobs' = Append(jobs, j) /\ warming' = TRUE /\ ~warming /\ step' = step
    BY <1>6 DEF Warm, thread
  <2> HIDE DEF j
  <2>3. /\ DOMAIN jobs' = 1 .. Len(jobs) + 1 /\ DOMAIN jobs = 1 .. Len(jobs)
        /\ \A i \in 1 .. Len(jobs) : jobs'[i] = jobs[i]
        /\ jobs'[Len(jobs) + 1].kind = "warm" /\ Len(jobs) \in Nat
    BY <2>1, <2>2, JobAdded
  <2>4. step # "warming" /\ \A i \in DOMAIN jobs : jobs[i].kind # "warm"
    BY <2>2 DEF WarmOnce
  <2>5. \A i \in DOMAIN jobs' : jobs'[i].kind = "warm" => i = Len(jobs) + 1
    BY <2>3, <2>4
  <2>6. Len(jobs) + 1 \in DOMAIN jobs'
    BY <2>3
  <2> QED BY <2>2, <2>3, <2>4, <2>5, <2>6 DEF WarmOnce
<1>7. CASE RequestTranslation \/ NotAsked \/ GiveUp
  BY <1>1, <1>7 DEF RequestTranslation, NotAsked, GiveUp, shared, thread
<1>8. CASE SetPrecisions \/ Reload \/ Stop \/ Expire \/ Download
  BY <1>1, <1>8 DEF SetPrecisions, Reload, Stop, Expire, Download, shared, thread
<1>9. CASE Take
  <2>1. warming' = warming /\ step = "idle"
    BY <1>9 DEF Take
  <2>2. CASE jobs # <<>> /\ TakeJob
    <3>1. /\ jobs' = Tail(jobs) /\ jobs # <<>>
          /\ step' = "warming" <=> Head(jobs).kind = "warm"
      BY <2>2 DEF TakeJob, Begin
    <3>2. /\ Head(jobs) = jobs[1] /\ 1 \in DOMAIN jobs
          /\ \A i \in DOMAIN jobs' : i + 1 \in DOMAIN jobs /\ jobs'[i] = jobs[i + 1]
          /\ \A i \in DOMAIN jobs : i = 1 \/ (i - 1 \in DOMAIN jobs' /\ jobs'[i - 1] = jobs[i])
          /\ DOMAIN jobs \subseteq Nat /\ DOMAIN jobs' \subseteq Nat
      BY <3>1, JobTaken
    <3>3. \A i \in DOMAIN jobs' : i + 1 # 1
      <4>1. DOMAIN jobs' \subseteq Nat \ {0}
        BY <3>1, JobTaken
      <4> QED BY <4>1
    <3>4. \A i, k \in DOMAIN jobs' : jobs'[i].kind = "warm" /\ jobs'[k].kind = "warm" => i = k
      <4> SUFFICES ASSUME NEW i \in DOMAIN jobs', NEW k \in DOMAIN jobs',
                          jobs'[i].kind = "warm", jobs'[k].kind = "warm"
                   PROVE  i = k
        OBVIOUS
      <4>1. i + 1 = k + 1
        BY <3>2 DEF WarmOnce
      <4> QED BY <3>2, <4>1
    <3>5. step' = "warming" => \A i \in DOMAIN jobs' : jobs'[i].kind # "warm"
      BY <3>1, <3>2, <3>3 DEF WarmOnce
    <3>6. ASSUME NEW i \in DOMAIN jobs, jobs[i].kind = "warm"
          PROVE  step' = "warming" \/ \E k \in DOMAIN jobs' : jobs'[k].kind = "warm"
      <4>1. CASE i = 1
        BY <3>1, <3>2, <3>6, <4>1
      <4>2. CASE i # 1
        BY <3>2, <3>6, <4>2
      <4> QED BY <4>1, <4>2
    <3>7. ASSUME NEW k \in DOMAIN jobs', jobs'[k].kind = "warm"
          PROVE  \E i \in DOMAIN jobs : jobs[i].kind = "warm"
      BY <3>2, <3>7
    <3>8. step' = "warming" => \E i \in DOMAIN jobs : jobs[i].kind = "warm"
      BY <3>1, <3>2
    <3>9. warming <=> \E i \in DOMAIN jobs : jobs[i].kind = "warm"
      BY <2>1 DEF WarmOnce
    <3>10. warming' <=> step' = "warming" \/ \E i \in DOMAIN jobs' : jobs'[i].kind = "warm"
      BY <2>1, <3>6, <3>7, <3>8, <3>9
    <3> QED BY <3>4, <3>5, <3>10 DEF WarmOnce
  <2>3. CASE Begin(pending) /\ pending # NoWork /\ UNCHANGED jobs
    <3>1. pending.kind = "request"
      BY <2>3 DEF ServiceInv, Numbered
    <3> QED BY <1>1, <2>1, <2>3, <3>1 DEF Begin
  <2>4. CASE UNCHANGED <<step, jobs>>
    BY <1>1, <2>1, <2>4
  <2> QED BY <1>9, <2>2, <2>3, <2>4 DEF Take
<1>10. CASE Unload
  BY <1>1, <1>10 DEF Unload, shared
<1>11. CASE StartWarming
  BY <1>11 DEF StartWarming, WarmOnce
<1>12. CASE ChooseWeights
  <2>1. UNCHANGED <<jobs, warming>> /\ step = "weights"
    BY <1>12 DEF ChooseWeights, shared
  <2>2. step' # "warming"
    BY <1>2, <1>12, <2>1 DEF ChooseWeights
  <2> QED BY <1>1, <2>1, <2>2
<1>13. CASE LoadModel
  <2>1. UNCHANGED <<jobs, warming>> /\ step = "loading"
    BY <1>13 DEF LoadModel, shared
  <2>2. step' # "warming"
    BY <1>2, <1>13, <2>1 DEF LoadModel
  <2> QED BY <1>1, <2>1, <2>2
<1>14. CASE Translate
  BY <1>1, <1>2, <1>14 DEF Translate
<1>15. CASE UNCHANGED vars
  BY <1>1, <1>15 DEF vars
<1> QED
  BY <1>4, <1>5, <1>6, <1>7, <1>8, <1>9, <1>10, <1>11, <1>12, <1>13, <1>14, <1>15
     DEF Next, Thread, Clients

\* warming_ says whether a warm-up is still to start, of which there is one at most.
THEOREM AlwaysWarmOnce == Spec => []WarmOnce
<1>1. Init => WarmOnce
  BY DEF Init, WarmOnce
<1>2. ServiceInv /\ WarmOnce /\ [Next]_vars => WarmOnce'
  BY WarmStep
<1> QED BY <1>1, <1>2, ServiceInvariant, PTL DEF Spec

-----------------------------------------------------------------------------
\* The end of the work on a language ends a request, or nothing NewestWins sees.
LEMMA FinishedSlot ==
  ASSUME ServiceInv, step # "idle", Finish, UNCHANGED <<asked, pending>>
  PROVE  Slot!Finish \/ UNCHANGED Slot!slotVars
<1>1. work \in Work /\ work.kind = "request" => work.number # 0
  BY DEF ServiceInv, StateOK, Numbered
<1>2. CASE work' = NoWork
  BY <1>1, <1>2 DEF Slot!Finish, Slot!slotVars, NoWork, WorkOn, ServiceInv, Numbered
<1>3. CASE work' = [work EXCEPT !.langs = Tail(work.langs)]
  <2>1. work'.kind = work.kind /\ work'.number = work.number
    BY <1>1, <1>3 DEF Work
  <2> QED BY <2>1 DEF Slot!slotVars
<1> QED BY <1>2, <1>3 DEF Finish

\* Every step is one that NewestWins allows, or one it does not see.
LEMMA SlotStep ==
  ASSUME ServiceInv, [Next]_vars
  PROVE  Slot!Next \/ UNCHANGED Slot!slotVars
<1>1. ASSUME UNCHANGED <<asked, pending, work>>
      PROVE  UNCHANGED Slot!slotVars
  BY <1>1 DEF Slot!slotVars
<1>2. ASSUME NEW t \in Texts, Cached(t) \/ TranslateNow(t)
      PROVE  UNCHANGED Slot!slotVars
  BY <1>1, <1>2 DEF Cached, TranslateNow, Wait, thread
<1>3. ASSUME NEW l \in Languages, Warm(l)
      PROVE  UNCHANGED Slot!slotVars
  BY <1>1, <1>3 DEF Warm, thread, callers
<1>4. CASE NotAsked \/ Diagnose \/ GiveUp \/ Stop
  BY <1>1, <1>4 DEF NotAsked, Diagnose, Wait, GiveUp, Stop, shared, thread, callers
<1>5. CASE SetPrecisions \/ Reload \/ Expire \/ Download
  BY <1>1, <1>5 DEF SetPrecisions, Reload, Expire, Download, shared, thread, callers
<1>6. CASE Unload \/ StartWarming
  BY <1>1, <1>6 DEF Unload, StartWarming, shared, callers
<1>7. CASE RequestTranslation
  <2>1. /\ asked' = asked + 1 /\ work' = work
        /\ pending' = WorkOn("request", asked', missed, <<LanguageOf[missed]>>)
    BY <1>7 DEF RequestTranslation, thread
  <2>2. pending'.number = asked'
    BY <2>1 DEF WorkOn
  <2> QED BY <2>1, <2>2 DEF Slot!Next, Slot!Ask
<1>8. CASE Take
  <2>1. asked' = asked /\ work = NoWork /\ work.kind # "request"
    BY <1>8 DEF Take, callers, ServiceInv, Numbered, NoWork, WorkOn
  <2>2. CASE jobs # <<>> /\ TakeJob /\ UNCHANGED pending
    <3>1. work' = Head(jobs) /\ Head(jobs).kind # "request"
      BY <2>2, JobTaken DEF TakeJob, Begin
    <3> QED BY <2>1, <2>2, <3>1 DEF Slot!slotVars
  <2>3. CASE pending # NoWork /\ Begin(pending) /\ pending' = NoWork
    <3>1. /\ work' = pending /\ pending.kind = "request" /\ pending.number # 0
          /\ pending'.number = 0
      BY <2>3 DEF Begin, ServiceInv, Numbered, NoWork, WorkOn
    <3> QED BY <2>1, <3>1 DEF Slot!Next, Slot!Begin
  <2>4. CASE UNCHANGED <<work, pending>>
    BY <1>1, <2>1, <2>4
  <2> QED BY <1>8, <2>2, <2>3, <2>4 DEF Take
<1>9. CASE ChooseWeights
  <2>1. UNCHANGED <<asked, pending>> /\ step # "idle" /\ (Finish \/ UNCHANGED work)
    BY <1>9 DEF ChooseWeights, shared
  <2> QED BY <1>1, <2>1, FinishedSlot DEF Slot!Next
<1>10. CASE LoadModel
  <2>1. UNCHANGED <<asked, pending>> /\ step # "idle" /\ (Finish \/ UNCHANGED work)
    BY <1>10 DEF LoadModel, shared
  <2> QED BY <1>1, <2>1, FinishedSlot DEF Slot!Next
<1>11. CASE Translate
  <2>1. UNCHANGED <<asked, pending>> /\ step # "idle" /\ Finish
    BY <1>11 DEF Translate
  <2> QED BY <2>1, FinishedSlot DEF Slot!Next
<1>12. CASE UNCHANGED vars
  BY <1>1, <1>12 DEF vars
<1> QED
  BY <1>2, <1>3, <1>4, <1>5, <1>6, <1>7, <1>8, <1>9, <1>10, <1>11, <1>12
     DEF Next, Thread, Clients

\* Requests made while one is at work keep only the newest, are taken up one at a
\* time, and never after a newer one: the service implements NewestWins.
THEOREM NewestRequestKept == Spec => NewestKept
<1>1. Init => Slot!Init
  BY DEF Init, Slot!Init, NoWork, WorkOn
<1>2. ServiceInv /\ [Next]_vars => [Slot!Next]_(Slot!slotVars)
  BY SlotStep
<1> QED BY <1>1, <1>2, ServiceInvariant, PTL DEF Spec, NewestKept, Slot!Spec
=============================================================================
