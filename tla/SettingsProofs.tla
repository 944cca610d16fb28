---------------------------- MODULE SettingsProofs ----------------------------
(***************************************************************************)
(* Theorems about Settings, that a reload never stores an older copy of    *)
(* the configuration over what a client set, that the lists of dictionaries*)
(* stay lists a reload can go on from, that lookups go through what is     *)
(* installed and configured in the end, and that what a client disabled or *)
(* sorted stays so; and about Statistics, that what is counted is kept and *)
(* an older tally never written over a newer.                              *)
(*                                                                         *)
(* The lists are made by folds, and the library has no theorem about what  *)
(* a fold returns.  The first sections supply it: a set of numbers has a   *)
(* least one, so what holds of 0 and of the next number holds of all, a    *)
(* fold over the numbers of a set exists, and it keeps what each of its    *)
(* steps keeps.                                                            *)
(***************************************************************************)
EXTENDS Settings, Statistics, FiniteSetTheorems, SequenceTheorems, NaturalsInduction,
        WellFoundedInduction, TLAPS

-----------------------------------------------------------------------------
(* Numbers, and the folds over them.                                       *)

\* A set of numbers that is not empty has a least one.
LEMMA LeastNumber ==
  ASSUME NEW T \in SUBSET Nat, T # {}
  PROVE  \E n \in T : \A m \in T : n <= m
<1> DEFINE R == {p \in Nat \X Nat : p[1] < p[2]}
<1>1. IsWellFoundedOn(R, Nat)
  BY NatLessThanWellFounded DEF OpToRel
<1>2. PICK n \in T : \A m \in T : ~(<<m, n>> \in R)
  <2> HIDE DEF R
  <2> QED BY <1>1, WFMin
<1>3. n \in Nat
  OBVIOUS
<1>4. ASSUME NEW m \in T PROVE n <= m
  <2>1. m \in Nat /\ ~(<<m, n>> \in R)
    BY <1>2
  <2>2. ~(m < n)
    BY <2>1, <1>3
  <2> QED BY <2>1, <2>2, <1>3
<1> QED BY <1>4

\* What holds of 0 and, with a number, of the next one, holds of all.
LEMMA AllNumbers ==
  ASSUME NEW S, 0 \in S, \A n \in Nat : n \in S => n + 1 \in S
  PROVE  Nat \subseteq S
<1> DEFINE T == Nat \ S
<1> SUFFICES ASSUME T # {} PROVE FALSE
  OBVIOUS
<1>1. PICK n \in T : \A m \in T : n <= m
  BY LeastNumber, Zenon
<1>2. n # 0 /\ n - 1 \in Nat /\ n - 1 \notin T
  BY <1>1
<1> QED BY <1>2

\* The largest number of a set that has an end.
LEMMA LargestNumber ==
  ASSUME NEW T \in SUBSET Nat, NEW n \in Nat, T \subseteq 0 .. n, T # {}
  PROVE  Max(T) \in T /\ \A m \in T : m <= Max(T)
<1> DEFINE U == {m \in Nat : \A t \in T : t <= m}
<1>1. U # {}
  <2>1. n \in U
    OBVIOUS
  <2> QED BY <2>1
<1>2. PICK u \in U : \A m \in U : u <= m
  <2> HIDE DEF U
  <2>1. U \in SUBSET Nat
    BY DEF U
  <2> QED BY <1>1, <2>1, LeastNumber
<1>3. u \in Nat /\ \A t \in T : t <= u
  OBVIOUS
<1>4. u \in T
  <2> SUFFICES ASSUME u \notin T PROVE FALSE
    OBVIOUS
  <2>1. \A t \in T : t < u /\ t \in Nat
    BY <1>3
  <2>2. u - 1 \in U
    <3>1. PICK t \in T : TRUE
      OBVIOUS
    <3>2. u > 0
      BY <1>3, <2>1, <3>1
    <3> QED BY <1>3, <2>1, <3>2
  <2> QED BY <1>2, <1>3, <2>2
<1>5. \E x \in T : \A y \in T : x >= y
  BY <1>3, <1>4
<1>6. Max(T) \in T /\ \A y \in T : Max(T) >= y
  BY <1>5 DEF Max
<1> QED BY <1>6

Below(S, k) == {x \in S : x < k}

\* The numbers of a set below the next number are those below this one and, if it is there, it.
LEMMA BelowNext ==
  ASSUME NEW S \in SUBSET Nat, NEW k \in Nat
  PROVE  /\ Below(S, 0) = {} /\ Below(S, k) \subseteq S
         /\ Below(S, k) \subseteq 0 .. k /\ k \notin Below(S, k)
         /\ k \in S => Below(S, k + 1) = Below(S, k) \cup {k}
         /\ k \notin S => Below(S, k + 1) = Below(S, k)
         /\ S \subseteq 0 .. k => Below(S, k + 1) = S
<1>1. \A x \in S : x \in Nat
  OBVIOUS
<1>2. Below(S, 0) = {}
  <2>1. \A x \in S : ~(x < 0)
    BY <1>1
  <2> QED BY <2>1 DEF Below
<1>3. Below(S, k) \subseteq S /\ Below(S, k) \subseteq 0 .. k /\ k \notin Below(S, k)
  <2>1. \A x \in S : x < k => x \in 0 .. k /\ x # k
    BY <1>1
  <2> QED BY <2>1 DEF Below
<1>4. \A x \in S : x < k + 1 <=> (x < k \/ x = k)
  BY <1>1
<1>5. k \in S => Below(S, k + 1) = Below(S, k) \cup {k}
  BY <1>4 DEF Below
<1>6. k \notin S => Below(S, k + 1) = Below(S, k)
  BY <1>4 DEF Below
<1>7. S \subseteq 0 .. k => Below(S, k + 1) = S
  <2>1. \A x \in S : x \in 0 .. k => x < k + 1
    BY <1>1
  <2> QED BY <2>1 DEF Below
<1> QED BY <1>2, <1>3, <1>5, <1>6, <1>7

\* Of a set below a number and that number, the number is the largest.
LEMMA LargestIsLast ==
  ASSUME NEW k \in Nat, NEW T, T \subseteq 0 .. k, T # {}
  PROVE  /\ Max(T) \in T /\ \A m \in T : m <= Max(T)
         /\ k \in T => Max(T) = k
<1>1. T \in SUBSET Nat
  OBVIOUS
<1>2. Max(T) \in T /\ \A m \in T : m <= Max(T)
  BY <1>1, LargestNumber
<1>3. Max(T) \in 0 .. k
  BY <1>2
<1>4. k \in T => k <= Max(T)
  BY <1>2
<1> QED BY <1>2, <1>3, <1>4

\* The two halves of the subsets of a set with one number more.
LEMMA SubsetsBelow ==
  ASSUME NEW S \in SUBSET Nat, NEW k \in Nat, k \in S, NEW t \in SUBSET Below(S, k + 1)
  PROVE  /\ t \subseteq 0 .. k
         /\ t \ {k} \in SUBSET Below(S, k)
         /\ Below(S, k) \subseteq Below(S, k + 1)
BY BelowNext

\* A fold over numbers, the largest one last.
IsFold(it, S, base, step) ==
  it = [t \in SUBSET S |-> IF t = {} THEN base ELSE step[<<Max(t), it[t \ {Max(t)}]>>]]

\* A fold over the numbers below this one goes on to this one, if a step stays in the range.
LEMMA FoldNext ==
  ASSUME NEW S \in SUBSET Nat, NEW k \in Nat, k \in S, NEW V, NEW base \in V, NEW step,
         \A v \in V : step[<<k, v>>] \in V,
         \E it \in [SUBSET Below(S, k) -> V] : IsFold(it, Below(S, k), base, step)
  PROVE  \E it \in [SUBSET Below(S, k + 1) -> V] : IsFold(it, Below(S, k + 1), base, step)
<1>1. PICK it \in [SUBSET Below(S, k) -> V] : IsFold(it, Below(S, k), base, step)
  OBVIOUS
<1>2. \A t \in SUBSET Below(S, k) :
        it[t] = IF t = {} THEN base ELSE step[<<Max(t), it[t \ {Max(t)}]>>]
  BY <1>1 DEF IsFold
<1> DEFINE jt == [t \in SUBSET Below(S, k + 1) |->
                    IF k \in t THEN step[<<k, it[t \ {k}]>>] ELSE it[t]]
<1>3. ASSUME NEW t \in SUBSET Below(S, k + 1)
      PROVE  /\ jt[t] \in V
             /\ jt[t] = IF t = {} THEN base ELSE step[<<Max(t), jt[t \ {Max(t)}]>>]
  <2>0. /\ t \subseteq 0 .. k /\ t \ {k} \in SUBSET Below(S, k)
        /\ Below(S, k) \subseteq Below(S, k + 1)
    BY SubsetsBelow
  <2>1. CASE k \in t
    <3>1. Max(t) = k
      BY <2>0, <2>1, LargestIsLast
    <3>2. jt[t] = step[<<k, it[t \ {k}]>>] /\ it[t \ {k}] \in V
      BY <2>0, <2>1
    <3>3. jt[t \ {k}] = it[t \ {k}]
      BY <2>0
    <3>4. jt[t] \in V
      BY <3>2
    <3>5. jt[t] = step[<<Max(t), jt[t \ {Max(t)}]>>] /\ t # {}
      BY <3>1, <3>2, <3>3, <2>1
    <3> HIDE DEF jt
    <3> QED BY <3>4, <3>5
  <2>2. CASE k \notin t
    <3>1. t \in SUBSET Below(S, k)
      BY <2>0, <2>2
    <3>2. jt[t] = it[t] /\ it[t] \in V
      BY <3>1, <2>2
    <3>3. CASE t # {}
      <4>1. Max(t) \in t
        BY <2>0, <3>3, LargestIsLast
      <4>2. jt[t \ {Max(t)}] = it[t \ {Max(t)}]
        BY <2>0, <2>2
      <4>3. it[t] = step[<<Max(t), it[t \ {Max(t)}]>>]
        BY <1>2, <3>1, <3>3
      <4> HIDE DEF jt
      <4> QED BY <3>2, <3>3, <4>2, <4>3
    <3>4. CASE t = {}
      <4>1. it[t] = base
        BY <1>2, <3>1, <3>4
      <4> HIDE DEF jt
      <4> QED BY <3>2, <3>4, <4>1
    <3> QED BY <3>3, <3>4
  <2> QED BY <2>1, <2>2
<1>4. jt \in [SUBSET Below(S, k + 1) -> V]
  BY <1>3
<1>5. IsFold(jt, Below(S, k + 1), base, step)
  <2>1. jt = [t \in SUBSET Below(S, k + 1) |-> jt[t]]
    OBVIOUS
  <2> HIDE DEF jt
  <2> QED BY <1>3, <2>1 DEF IsFold
<1> HIDE DEF jt
<1> QED BY <1>4, <1>5

\* The equation of a fold over a set of numbers that ends has a solution.
LEMMA FoldExists ==
  ASSUME NEW S \in SUBSET Nat, NEW n \in Nat, S \subseteq 0 .. n,
         NEW V, NEW base \in V, NEW step, \A x \in S, v \in V : step[<<x, v>>] \in V
  PROVE  \E it \in [SUBSET S -> V] : IsFold(it, S, base, step)
<1> DEFINE Folded(P) == \E it \in [SUBSET P -> V] : IsFold(it, P, base, step)
           Q == {k \in Nat : Folded(Below(S, k))}
<1>1. Folded(Below(S, 0))
  <2>1. Below(S, 0) = {}
    BY BelowNext
  <2> DEFINE z == [t \in SUBSET {} |-> base]
  <2>2. z \in [SUBSET {} -> V] /\ IsFold(z, {}, base, step)
    BY DEF IsFold
  <2> QED BY <2>1, <2>2
<1>2. ASSUME NEW k \in Nat, Folded(Below(S, k)) PROVE Folded(Below(S, k + 1))
  <2>1. CASE k \notin S
    <3>1. Below(S, k + 1) = Below(S, k)
      BY <2>1, BelowNext
    <3> QED BY <1>2, <3>1
  <2>2. CASE k \in S
    BY <1>2, <2>2, FoldNext
  <2> QED BY <2>1, <2>2
<1>3. Folded(Below(S, n + 1))
  <2> HIDE DEF Folded
  <2>1. 0 \in Q /\ \A k \in Nat : k \in Q => k + 1 \in Q
    BY <1>1, <1>2
  <2> HIDE DEF Q
  <2>2. Nat \subseteq Q
    BY <2>1, AllNumbers
  <2>3. n + 1 \in Q
    BY <2>2
  <2> QED BY <2>3 DEF Q
<1>4. Below(S, n + 1) = S
  BY BelowNext
<1> QED BY <1>3, <1>4

\* What a fold keeps, whatever the numbers so far are.
LEMMA FoldKeeps ==
  ASSUME NEW S \in SUBSET Nat, NEW n \in Nat, S \subseteq 0 .. n,
         NEW base, NEW step, NEW it, IsFold(it, S, base, step),
         NEW V, base \in V[{}],
         \A t \in SUBSET S, x \in S :
           (\A y \in t : y < x) => \A v \in V[t] : step[<<x, v>>] \in V[t \cup {x}]
  PROVE  it[S] \in V[S]
<1> DEFINE Q == {k \in Nat : \A t \in SUBSET Below(S, k) : it[t] \in V[t]}
<1>0. \A t \in SUBSET S :
        it[t] = IF t = {} THEN base ELSE step[<<Max(t), it[t \ {Max(t)}]>>]
  BY DEF IsFold
<1>1. 0 \in Q
  <2>1. Below(S, 0) = {}
    BY BelowNext
  <2>2. it[{}] = base
    BY <1>0
  <2> QED BY <2>1, <2>2
<1>2. ASSUME NEW k \in Nat, k \in Q PROVE k + 1 \in Q
  <2>1. CASE k \notin S
    <3>1. Below(S, k + 1) = Below(S, k)
      BY <2>1, BelowNext
    <3> QED BY <1>2, <3>1
  <2>2. CASE k \in S
    <3>1. ASSUME NEW t \in SUBSET Below(S, k + 1) PROVE it[t] \in V[t]
      <4>a. Below(S, k) \subseteq S /\ Below(S, k + 1) \subseteq S
        BY DEF Below
      <4>b. t \subseteq 0 .. k /\ t \ {k} \in SUBSET Below(S, k)
        BY <2>2, SubsetsBelow
      <4>0. /\ t \subseteq 0 .. k /\ t \ {k} \in SUBSET Below(S, k)
            /\ Below(S, k) \subseteq S /\ Below(S, k + 1) \subseteq S
        BY <4>a, <4>b
      <4>1. CASE k \in t
        <5>1. Max(t) = k
          BY <4>0, <4>1, LargestIsLast
        <5>2. it[t \ {k}] \in V[t \ {k}]
          BY <1>2, <4>0
        <5>3. it[t] = step[<<k, it[t \ {k}]>>]
          BY <1>0, <4>0, <4>1, <5>1
        <5>4. \A y \in t \ {k} : y < k
          BY <4>0
        <5>5. t \ {k} \in SUBSET S /\ (t \ {k}) \cup {k} = t
          BY <4>0, <4>1
        <5>6. \A v \in V[t \ {k}] : step[<<k, v>>] \in V[(t \ {k}) \cup {k}]
          BY <2>2, <5>4, <5>5
        <5> QED BY <5>2, <5>3, <5>5, <5>6
      <4>2. CASE k \notin t
        BY <1>2, <4>0, <4>2
      <4> QED BY <4>1, <4>2
    <3> QED BY <3>1
  <2> QED BY <2>1, <2>2
<1>3. n + 1 \in Q
  <2> HIDE DEF Q
  <2>1. \A k \in Nat : k \in Q => k + 1 \in Q
    BY <1>2
  <2>2. Nat \subseteq Q
    BY <1>1, <2>1, AllNumbers
  <2> QED BY <2>2
<1>4. Below(S, n + 1) = S
  BY BelowNext
<1> QED BY <1>3, <1>4

-----------------------------------------------------------------------------
(* Lists of dictionaries, each once, and the part that is still there.     *)

Entries == [title : Titles, enabled : BOOLEAN]
OnceEach(prefs) == \A i, j \in DOMAIN prefs : prefs[i].title = prefs[j].title => i = j
Lists == {prefs \in Seq(Entries) : OnceEach(prefs)}

\* A list is what is there of the first places of another.
PlacesOf(v, prefs, files, t, m) ==
  /\ m \in [1 .. Len(v) -> t]
  /\ \A i \in 1 .. Len(v) : v[i] = prefs[m[i]] /\ files[v[i].title] # 0
  /\ \A i, j \in 1 .. Len(v) : i < j => m[i] < m[j]
  /\ \A x \in t : files[prefs[x].title] # 0 => \E i \in 1 .. Len(v) : m[i] = x
Part(v, prefs, files, t) == v \in Seq(Entries) /\ \E m : PlacesOf(v, prefs, files, t, m)

\* One step of what Kept does: the part of the places before this one becomes that of one more.
LEMMA PartNext ==
  ASSUME NEW prefs \in Seq(Entries), NEW files, NEW v, NEW t \in SUBSET (1 .. Len(prefs)),
         Part(v, prefs, files, t), NEW x \in 1 .. Len(prefs), \A y \in t : y < x
  PROVE  Part(IF files[prefs[x].title] # 0 THEN Append(v, prefs[x]) ELSE v,
              prefs, files, t \cup {x})
<1>1. v \in Seq(Entries) /\ Len(v) \in Nat
  BY DEF Part
<1>2. PICK m : PlacesOf(v, prefs, files, t, m)
  BY DEF Part
<1>3. CASE files[prefs[x].title] = 0
  <2>1. PlacesOf(v, prefs, files, t \cup {x}, m)
    <3>1. m \in [1 .. Len(v) -> t \cup {x}]
      BY <1>2 DEF PlacesOf
    <3> QED BY <1>2, <1>3, <3>1 DEF PlacesOf
  <2> QED BY <1>1, <1>3, <2>1 DEF Part
<1>4. CASE files[prefs[x].title] # 0
  <2> DEFINE w == Append(v, prefs[x])
             o == [i \in 1 .. Len(v) + 1 |-> IF i = Len(v) + 1 THEN x ELSE m[i]]
  <2>1. /\ w \in Seq(Entries) /\ Len(w) = Len(v) + 1 /\ w[Len(v) + 1] = prefs[x]
        /\ \A i \in 1 .. Len(v) : w[i] = v[i]
    BY <1>1, AppendProperties
  <2>2. /\ m \in [1 .. Len(v) -> t] /\ \A i \in 1 .. Len(v) : m[i] < x /\ o[i] = m[i]
        /\ o[Len(v) + 1] = x /\ 1 .. Len(w) = 1 .. Len(v) \cup {Len(v) + 1}
    <3>1. m \in [1 .. Len(v) -> t]
      BY <1>2 DEF PlacesOf
    <3>2. \A i \in 1 .. Len(v) : m[i] \in t /\ i # Len(v) + 1 /\ i \in 1 .. Len(v) + 1
      BY <1>1, <3>1
    <3>3. 1 .. Len(w) = 1 .. Len(v) \cup {Len(v) + 1} /\ Len(v) + 1 \in 1 .. Len(v) + 1
      BY <1>1, <2>1
    <3> QED BY <3>1, <3>2, <3>3
  <2>3. o \in [1 .. Len(w) -> t \cup {x}]
    BY <2>1, <2>2
  <2> HIDE DEF w, o
  <2>4. ASSUME NEW i \in 1 .. Len(w) PROVE w[i] = prefs[o[i]] /\ files[w[i].title] # 0
    <3>1. CASE i \in 1 .. Len(v)
      BY <1>2, <2>1, <2>2, <3>1 DEF PlacesOf
    <3>2. CASE i = Len(v) + 1
      BY <1>4, <2>1, <2>2, <3>2
    <3> QED BY <2>2, <3>1, <3>2
  <2>5. ASSUME NEW i \in 1 .. Len(w), NEW j \in 1 .. Len(w), i < j PROVE o[i] < o[j]
    <3>1. i \in 1 .. Len(v)
      BY <2>1, <1>1, <2>5
    <3>2. CASE j \in 1 .. Len(v)
      BY <1>2, <2>2, <2>5, <3>1, <3>2 DEF PlacesOf
    <3>3. CASE j = Len(v) + 1
      BY <2>2, <3>1, <3>3
    <3> QED BY <2>2, <3>2, <3>3
  <2>6. ASSUME NEW y \in t \cup {x}, files[prefs[y].title] # 0
        PROVE  \E i \in 1 .. Len(w) : o[i] = y
    <3>1. CASE y \in t
      BY <1>2, <2>2, <2>6, <3>1 DEF PlacesOf
    <3>2. CASE y = x
      BY <2>2, <3>2
    <3> QED BY <3>1, <3>2
  <2>7. PlacesOf(w, prefs, files, t \cup {x}, o)
    BY <2>3, <2>4, <2>5, <2>6 DEF PlacesOf
  <2>8. Part(w, prefs, files, t \cup {x})
    BY <2>1, <2>7 DEF Part
  <2> QED BY <1>4, <2>8 DEF w
<1> QED BY <1>3, <1>4

\* Kept is a fold over the places of the list, the last place last.
LEMMA KeptIsFold ==
  ASSUME NEW prefs \in Seq(Entries), NEW files
  PROVE  \E it :
           /\ it = [s \in SUBSET (1 .. Len(prefs)) |->
                      IF s = {} THEN <<>>
                      ELSE IF files[prefs[Max(s)].title] # 0
                           THEN Append(it[s \ {Max(s)}], prefs[Max(s)])
                           ELSE it[s \ {Max(s)}]]
           /\ Kept(prefs, files) = it[1 .. Len(prefs)]
<1> DEFINE S == 1 .. Len(prefs)
           V == Seq(Entries)
           step == [xv \in S \X V |-> IF files[prefs[xv[1]].title] # 0
                                      THEN Append(xv[2], prefs[xv[1]]) ELSE xv[2]]
           Is(it) == it = [s \in SUBSET (1 .. Len(prefs)) |->
                      IF s = {} THEN <<>>
                      ELSE IF files[prefs[Max(s)].title] # 0
                           THEN Append(it[s \ {Max(s)}], prefs[Max(s)])
                           ELSE it[s \ {Max(s)}]]
<1>1. Len(prefs) \in Nat /\ S \in SUBSET Nat /\ S \subseteq 0 .. Len(prefs) /\ DOMAIN prefs = S
  OBVIOUS
<1>2. ASSUME NEW x \in S, NEW v \in V
      PROVE  /\ step[<<x, v>>] = IF files[prefs[x].title] # 0 THEN Append(v, prefs[x]) ELSE v
             /\ step[<<x, v>>] \in V
  <2>1. prefs[x] \in Entries
    OBVIOUS
  <2> QED BY <2>1
<1>3. PICK it \in [SUBSET S -> V] : IsFold(it, S, <<>>, step)
  <2>1. <<>> \in V /\ \A x \in S, v \in V : step[<<x, v>>] \in V
    BY <1>2
  <2> HIDE DEF S, V, step
  <2> QED BY <1>1, <2>1, FoldExists
<1>4. Is(it)
  <2>1. ASSUME NEW s \in SUBSET S, s # {}
        PROVE  step[<<Max(s), it[s \ {Max(s)}]>>] =
                 IF files[prefs[Max(s)].title] # 0
                 THEN Append(it[s \ {Max(s)}], prefs[Max(s)]) ELSE it[s \ {Max(s)}]
    <3>1. s \subseteq 0 .. Len(prefs)
      BY <1>1
    <3>2. Max(s) \in S
      BY <1>1, <2>1, <3>1, LargestIsLast
    <3>3. it[s \ {Max(s)}] \in V
      OBVIOUS
    <3> HIDE DEF S, V, step
    <3> QED BY <1>2, <3>2, <3>3
  <2> HIDE DEF step, V
  <2> QED BY <1>3, <2>1 DEF IsFold
<1>5. Is(CHOOSE jt : Is(jt))
  <2> HIDE DEF Is
  <2> QED BY <1>4
<1>6. Kept(prefs, files) = (CHOOSE jt : Is(jt))[S]
  BY <1>1 DEF Kept, FoldLeft, MapThenFoldSet
<1>7. \E jt : Is(jt) /\ Kept(prefs, files) = jt[S]
  <2> HIDE DEF Is, S
  <2> QED BY <1>5, <1>6
<1> HIDE DEF V, step
<1> QED BY <1>7

\* What is kept of a list is the part of it that is there, in its order.
LEMMA KeptIsPart ==
  ASSUME NEW prefs \in Seq(Entries), NEW files
  PROVE  Part(Kept(prefs, files), prefs, files, 1 .. Len(prefs))
<1> DEFINE S == 1 .. Len(prefs)
<1>1. PICK it : /\ it = [s \in SUBSET S |->
                          IF s = {} THEN <<>>
                          ELSE IF files[prefs[Max(s)].title] # 0
                               THEN Append(it[s \ {Max(s)}], prefs[Max(s)])
                               ELSE it[s \ {Max(s)}]]
                /\ Kept(prefs, files) = it[S]
  BY KeptIsFold
<1> DEFINE W == Seq(Entries) \cup {it[s] : s \in SUBSET S}
           step == [xv \in S \X W |-> IF files[prefs[xv[1]].title] # 0
                                      THEN Append(xv[2], prefs[xv[1]]) ELSE xv[2]]
           V == [t \in SUBSET S |-> {v \in Seq(Entries) : Part(v, prefs, files, t)}]
<1>2. Len(prefs) \in Nat /\ S \in SUBSET Nat /\ S \subseteq 0 .. Len(prefs)
  OBVIOUS
<1>3. ASSUME NEW x \in S, NEW v \in W
      PROVE  step[<<x, v>>] = IF files[prefs[x].title] # 0 THEN Append(v, prefs[x]) ELSE v
  OBVIOUS
<1>4. IsFold(it, S, <<>>, step)
  <2>1. ASSUME NEW s \in SUBSET S, s # {}
        PROVE  step[<<Max(s), it[s \ {Max(s)}]>>] =
                 IF files[prefs[Max(s)].title] # 0
                 THEN Append(it[s \ {Max(s)}], prefs[Max(s)]) ELSE it[s \ {Max(s)}]
    <3>1. s \subseteq 0 .. Len(prefs)
      BY <1>2
    <3>2. Max(s) \in S
      BY <1>2, <2>1, <3>1, LargestIsLast
    <3>3. it[s \ {Max(s)}] \in W
      OBVIOUS
    <3> HIDE DEF S, W, step
    <3> QED BY <1>3, <3>2, <3>3
  <2> HIDE DEF step, W
  <2> QED BY <1>1, <2>1 DEF IsFold
<1>5. <<>> \in V[{}]
  <2>1. PlacesOf(<<>>, prefs, files, {}, <<>>)
    BY DEF PlacesOf
  <2> QED BY <2>1 DEF Part
<1>6. ASSUME NEW t \in SUBSET S, NEW x \in S, \A y \in t : y < x, NEW v \in V[t]
      PROVE  step[<<x, v>>] \in V[t \cup {x}]
  <2>1. Part(v, prefs, files, t) /\ v \in W
    BY <1>6
  <2>2. Part(step[<<x, v>>], prefs, files, t \cup {x})
    <3>1. step[<<x, v>>] = IF files[prefs[x].title] # 0 THEN Append(v, prefs[x]) ELSE v
      BY <1>3, <2>1
    <3> HIDE DEF step, W, V
    <3>2. Part(IF files[prefs[x].title] # 0 THEN Append(v, prefs[x]) ELSE v,
               prefs, files, t \cup {x})
      BY <1>6, <2>1, PartNext
    <3> QED BY <3>1, <3>2
  <2>3. step[<<x, v>>] \in Seq(Entries)
    BY <2>2 DEF Part
  <2> HIDE DEF step
  <2> QED BY <2>2, <2>3
<1>7. it[S] \in V[S]
  <2> HIDE DEF S, step, V
  <2> QED BY <1>2, <1>4, <1>5, <1>6, FoldKeeps
<1> QED BY <1>1, <1>7

-----------------------------------------------------------------------------
(* The order of dictionaries, and where a new one is placed in a list.     *)

Keys == Int \X Int \X Int \X Int

\* The comparison of the tuples operator< of the sort keys compares is a strict weak order.
LEMMA LessOrders ==
  ASSUME NEW k \in Keys, NEW l \in Keys, NEW m \in Keys
  PROVE  /\ ~Less(k, k)
         /\ ~(Less(k, l) /\ Less(l, k))
         /\ Less(k, l) /\ Less(l, m) => Less(k, m)
         /\ ~Less(k, l) /\ ~Less(l, m) => ~Less(k, m)
<1>1. /\ k[1] \in Int /\ k[2] \in Int /\ k[3] \in Int /\ k[4] \in Int
      /\ l[1] \in Int /\ l[2] \in Int /\ l[3] \in Int /\ l[4] \in Int
      /\ m[1] \in Int /\ m[2] \in Int /\ m[3] \in Int /\ m[4] \in Int
  BY DEF Keys
<1> QED BY <1>1 DEF Less

\* A sort key is a tuple of numbers, and numbers compare.
LEMMA KeyIsKey ==
  ASSUME NEW p \in Profile
  PROVE  SortKey(p) \in Keys
<1>1. Classify(p) \in Int
  BY DEF Classify, ClassifyTerms, ClassifyLists, Words, Names, Grammar, Specialized, Monolingual,
         Kanji, Frequency, Pitch, OtherKind
<1>2. Familiarity(p) \in Int
  BY DEF Familiarity
<1>3. -p.terms \in Int
  BY DEF Profile
<1> QED BY <1>1, <1>2, <1>3 DEF SortKey, Keys

\* The comparison of two profiles is one of a total order, but for those with the same key.
LEMMA BeforeOrders ==
  ASSUME NEW p \in Profile, NEW q \in Profile, NEW r \in Profile
  PROVE  /\ ~Before(p, p)
         /\ ~(Before(p, q) /\ Before(q, p))
         /\ Before(p, q) /\ Before(q, r) => Before(p, r)
         /\ ~Before(p, q) /\ ~Before(q, r) => ~Before(p, r)
BY KeyIsKey, LessOrders DEF Before

\* The profile of a dictionary that cannot be read is a profile.
LEMMA UnknownIsProfile == UnknownProfile \in Profile
BY DEF UnknownProfile, Profile, Marks

\* A list in its smart order.
InOrder(prefs) ==
  \A i, j \in DOMAIN prefs :
    i < j => ~Before(ProfileOf[prefs[j].title], ProfileOf[prefs[i].title])

EntriesOf(prefs) == {prefs[i] : i \in DOMAIN prefs}

\* What is kept of a list is a list, with the entries that are there, in the order they had.
LEMMA KeptList ==
  ASSUME NEW prefs \in Lists, NEW files
  PROVE  /\ Kept(prefs, files) \in Lists
         /\ EntriesOf(Kept(prefs, files)) = {e \in EntriesOf(prefs) : files[e.title] # 0}
         /\ InOrder(prefs) => InOrder(Kept(prefs, files))
<1> DEFINE K == Kept(prefs, files)
<1>1. prefs \in Seq(Entries) /\ OnceEach(prefs) /\ DOMAIN prefs = 1 .. Len(prefs)
  BY DEF Lists
<1>2. Part(K, prefs, files, 1 .. Len(prefs))
  BY <1>1, KeptIsPart
<1> HIDE DEF K
<1>3. K \in Seq(Entries) /\ DOMAIN K = 1 .. Len(K) /\ Len(K) \in Nat
  BY <1>2 DEF Part
<1>4. PICK m : PlacesOf(K, prefs, files, 1 .. Len(prefs), m)
  BY <1>2 DEF Part
<1>5. \A i \in DOMAIN K : m[i] \in DOMAIN prefs /\ K[i] = prefs[m[i]] /\ files[K[i].title] # 0
  BY <1>1, <1>3, <1>4 DEF PlacesOf
<1>6. \A i, j \in DOMAIN K : i < j => m[i] < m[j]
  BY <1>3, <1>4 DEF PlacesOf
<1>7. \A x \in DOMAIN prefs : files[prefs[x].title] # 0 => \E i \in DOMAIN K : m[i] = x
  BY <1>1, <1>3, <1>4 DEF PlacesOf
<1>8. OnceEach(K)
  <2> SUFFICES ASSUME NEW i \in DOMAIN K, NEW j \in DOMAIN K, K[i].title = K[j].title
               PROVE  i = j
    BY DEF OnceEach
  <2>1. m[i] = m[j]
    BY <1>1, <1>5 DEF OnceEach
  <2>2. m[i] \in Int /\ m[j] \in Int /\ i \in Int /\ j \in Int
    BY <1>1, <1>3, <1>5
  <2>3. ~(i < j) /\ ~(j < i)
    BY <1>6, <2>1, <2>2
  <2> QED BY <2>2, <2>3
<1>9. EntriesOf(K) = {e \in EntriesOf(prefs) : files[e.title] # 0}
  BY <1>5, <1>7 DEF EntriesOf
<1>10. InOrder(prefs) => InOrder(K)
  BY <1>5, <1>6 DEF InOrder
<1>11. K \in Lists
  BY <1>3, <1>8 DEF Lists
<1> QED BY <1>9, <1>10, <1>11 DEF K

\* A sequence that is another with one element more.
IsWith(w, s, i, e) ==
  /\ Len(w) = Len(s) + 1
  /\ \A k \in 1 .. Len(s) + 1 : w[k] = IF k < i THEN s[k] ELSE IF k = i THEN e ELSE s[k - 1]

\* InsertAt puts one entry at its place and leaves the others in their order.
LEMMA Inserting ==
  ASSUME NEW E, NEW s \in Seq(E), NEW e \in E, NEW i \in 1 .. Len(s) + 1
  PROVE  InsertAt(s, i, e) \in Seq(E) /\ IsWith(InsertAt(s, i, e), s, i, e)
<1> DEFINE a == SubSeq(s, 1, i - 1)
           b == SubSeq(s, i, Len(s))
<1>0. Len(s) \in Nat /\ i \in Nat
  OBVIOUS
<1>1. a \in Seq(E) /\ Len(a) = i - 1 /\ \A k \in 1 .. i - 1 : a[k] = s[k]
  OBVIOUS
<1>2. b \in Seq(E) /\ Len(b) = Len(s) - i + 1 /\ \A k \in 1 .. Len(s) - i + 1 : b[k] = s[i + k - 1]
  OBVIOUS
<1> HIDE DEF a, b
<1>3. /\ a \o <<e>> \in Seq(E) /\ Len(a \o <<e>>) = i
      /\ \A k \in 1 .. i : (a \o <<e>>)[k] = IF k < i THEN s[k] ELSE e
  <2>1. <<e>> \in Seq(E) /\ Len(<<e>>) = 1 /\ <<e>>[1] = e
    OBVIOUS
  <2>2. /\ a \o <<e>> \in Seq(E) /\ Len(a \o <<e>>) = Len(a) + 1
        /\ \A k \in 1 .. Len(a) + 1 :
             (a \o <<e>>)[k] = IF k <= Len(a) THEN a[k] ELSE <<e>>[k - Len(a)]
    BY <1>1, <2>1, ConcatProperties
  <2>3. ASSUME NEW k \in 1 .. i PROVE (a \o <<e>>)[k] = IF k < i THEN s[k] ELSE e
    <3>1. k \in 1 .. Len(a) + 1 /\ (k <= Len(a) <=> k < i) /\ (~(k < i) => k - Len(a) = 1)
          /\ (k < i => k \in 1 .. i - 1)
      BY <1>0, <1>1
    <3> QED BY <1>1, <2>1, <2>2, <3>1
  <2>4. Len(a) + 1 = i
    BY <1>0, <1>1
  <2> QED BY <2>2, <2>3, <2>4
<1>4. InsertAt(s, i, e) = (a \o <<e>>) \o b
  BY DEF InsertAt, a, b
<1> DEFINE c == a \o <<e>>
<1>5. c \in Seq(E) /\ Len(c) = i /\ \A k \in 1 .. i : c[k] = IF k < i THEN s[k] ELSE e
  BY <1>3
<1> HIDE DEF c
<1>6. /\ c \o b \in Seq(E) /\ Len(c \o b) = Len(s) + 1
      /\ \A k \in 1 .. Len(s) + 1 : (c \o b)[k] = IF k <= i THEN c[k] ELSE b[k - i]
  <2>1. Len(c) + Len(b) = Len(s) + 1
    BY <1>0, <1>2, <1>5
  <2>2. /\ c \o b \in Seq(E) /\ Len(c \o b) = Len(c) + Len(b)
        /\ \A k \in 1 .. Len(c) + Len(b) :
             (c \o b)[k] = IF k <= Len(c) THEN c[k] ELSE b[k - Len(c)]
    BY <1>2, <1>5, ConcatProperties
  <2> QED BY <1>5, <2>1, <2>2
<1>7. ASSUME NEW k \in 1 .. Len(s) + 1
      PROVE  (c \o b)[k] = IF k < i THEN s[k] ELSE IF k = i THEN e ELSE s[k - 1]
  <2>1. CASE k =< i
    <3>1. (c \o b)[k] = c[k]
      BY <1>6, <2>1
    <3>2. k \in 1 .. i /\ (~(k < i) => k = i)
      BY <1>0, <2>1
    <3> QED BY <1>5, <3>1, <3>2
  <2>2. CASE k > i
    <3>1. (c \o b)[k] = b[k - i]
      <4>1. ~(k <= i)
        BY <1>0, <2>2
      <4> QED BY <1>6, <4>1
    <3>2. k - i \in 1 .. Len(s) - i + 1 /\ i + (k - i) - 1 = k - 1
      BY <1>0, <2>2
    <3>3. b[k - i] = s[i + (k - i) - 1]
      BY <1>2, <3>2
    <3>4. ~(k < i) /\ k # i
      BY <1>0, <2>2
    <3> QED BY <3>1, <3>2, <3>3, <3>4
  <2>3. k =< i \/ k > i
    BY <1>0
  <2> QED BY <2>1, <2>2, <2>3
<1> QED BY <1>4, <1>6, <1>7 DEF c, IsWith

\* insertionPoint() is the first place of one that sorts after the new one, or behind them all.
LEMMA InsertionPlace ==
  ASSUME NEW existing \in Seq(Profile), NEW added
  PROVE  LET p == InsertionPoint(existing, added)
         IN  /\ p \in 1 .. Len(existing) + 1
             /\ \A i \in DOMAIN existing : i < p => ~Before(added, existing[i])
             /\ p \in DOMAIN existing => Before(added, existing[p])
<1> DEFINE after == {i \in DOMAIN existing : Before(added, existing[i])}
           p == InsertionPoint(existing, added)
<1>1. DOMAIN existing = 1 .. Len(existing) /\ Len(existing) \in Nat
  OBVIOUS
<1>2. CASE after = {}
  <2>1. p = Len(existing) + 1
    BY <1>2 DEF InsertionPoint
  <2>2. \A i \in DOMAIN existing : ~Before(added, existing[i])
    BY <1>2
  <2>3. p \in 1 .. Len(existing) + 1 /\ p \notin DOMAIN existing
    BY <1>1, <2>1
  <2> QED BY <2>2, <2>3
<1>3. CASE after # {}
  <2>1. p = CHOOSE i \in after : \A j \in after : i =< j
    BY <1>3 DEF InsertionPoint
  <2>2. \E i \in after : \A j \in after : i =< j
    <3>1. after \in SUBSET Nat
      BY <1>1
    <3> HIDE DEF after
    <3> QED BY <1>3, <3>1, LeastNumber
  <2>3. p \in after /\ \A j \in after : p =< j
    <3> HIDE DEF after, p
    <3> QED BY <2>1, <2>2
  <2>4. p \in DOMAIN existing /\ Before(added, existing[p]) /\ p \in 1 .. Len(existing) + 1
    BY <1>1, <2>3
  <2>5. \A i \in DOMAIN existing : i < p => i \notin after
    <3>1. p \in Int /\ \A i \in DOMAIN existing : i \in Int
      BY <1>1, <2>4
    <3> HIDE DEF after, p
    <3> QED BY <2>3, <3>1
  <2> QED BY <2>4, <2>5
<1> QED BY <1>2, <1>3

\* Placing a new title in a list: a list with one entry more, turned on, and in order if it was.
LEMMA PlacedList ==
  ASSUME NEW v \in Lists, NEW files, \A e \in EntriesOf(v) : files[e.title] # 0,
         NEW t \in Titles, t \notin TitlesOf(v)
  PROVE  /\ Placed(v, files, t) \in Lists
         /\ EntriesOf(Placed(v, files, t)) = EntriesOf(v) \cup {Pref(t, TRUE)}
         /\ InOrder(v) => InOrder(Placed(v, files, t))
<1> DEFINE profiles == [i \in DOMAIN v |-> IF files[v[i].title] # 0
                                           THEN ProfileOf[v[i].title] ELSE UnknownProfile]
           p == InsertionPoint(profiles, ProfileOf[t])
           e == Pref(t, TRUE)
           w == Placed(v, files, t)
<1>1. v \in Seq(Entries) /\ OnceEach(v) /\ DOMAIN v = 1 .. Len(v) /\ Len(v) \in Nat
  BY DEF Lists
<1>2. \A i \in DOMAIN v : v[i] \in Entries /\ v[i].title \in Titles /\ v[i].title # t
  <2> TAKE i \in DOMAIN v
  <2>1. v[i] \in Entries
    BY <1>1
  <2>2. v[i].title # t
    BY DEF TitlesOf
  <2> QED BY <2>1, <2>2 DEF Entries
<1>3. \A x \in Titles : ProfileOf[x] \in Profile
  BY ProfileAssumption
<1>4. \A i \in DOMAIN v : profiles[i] = ProfileOf[v[i].title] /\ profiles[i] \in Profile
  BY <1>2, <1>3 DEF EntriesOf
<1>5. profiles \in Seq(Profile) /\ Len(profiles) = Len(v) /\ DOMAIN profiles = DOMAIN v
  <2>1. profiles \in [1 .. Len(v) -> Profile]
    BY <1>1, <1>4
  <2> HIDE DEF profiles
  <2> QED BY <1>1, <2>1
<1>6. e \in Entries /\ e.title = t
  BY DEF Pref, Entries
<1>7. w = InsertAt(v, p, e)
  BY DEF Placed
<1> HIDE DEF profiles, p, e, w
<1>8. /\ p \in 1 .. Len(v) + 1
      /\ \A i \in DOMAIN v : i < p => ~Before(ProfileOf[t], profiles[i])
      /\ p \in DOMAIN v => Before(ProfileOf[t], profiles[p])
  BY <1>5, InsertionPlace DEF p
<1>9. /\ w \in Seq(Entries) /\ Len(w) = Len(v) + 1 /\ DOMAIN w = 1 .. Len(v) + 1
      /\ \A k \in DOMAIN w : w[k] = IF k < p THEN v[k] ELSE IF k = p THEN e ELSE v[k - 1]
  <2>1. /\ w \in Seq(Entries) /\ Len(w) = Len(v) + 1
        /\ \A k \in 1 .. Len(v) + 1 : w[k] = IF k < p THEN v[k] ELSE IF k = p THEN e ELSE v[k - 1]
    <3>1. v \in Seq(Entries) /\ e \in Entries /\ p \in 1 .. Len(v) + 1
      BY <1>1, <1>6, <1>8
    <3>2. InsertAt(v, p, e) \in Seq(Entries) /\ IsWith(InsertAt(v, p, e), v, p, e)
      BY <3>1, Inserting
    <3> QED BY <1>7, <3>2 DEF IsWith
  <2>2. DOMAIN w = 1 .. Len(v) + 1
    BY <2>1
  <2> QED BY <2>1, <2>2
\* Where an element of the longer list was before.
<1> DEFINE From(k) == IF k < p THEN k ELSE k - 1
<1>10. \A k \in DOMAIN w : k # p => From(k) \in DOMAIN v /\ w[k] = v[From(k)]
  BY <1>1, <1>8, <1>9
<1>11. \A k, l \in DOMAIN w : k # p /\ l # p /\ k < l => From(k) < From(l)
  BY <1>1, <1>8, <1>9
<1>12. p \in DOMAIN w /\ w[p] = e
  BY <1>8, <1>9
<1>13. \A i \in DOMAIN v : \E k \in DOMAIN w : k # p /\ From(k) = i
  <2> TAKE i \in DOMAIN v
  <2>1. CASE i < p
    <3>1. i \in DOMAIN w /\ i # p /\ From(i) = i
      BY <1>1, <1>8, <1>9, <2>1
    <3> QED BY <3>1
  <2>2. CASE ~(i < p)
    <3>1. i + 1 \in DOMAIN w /\ i + 1 # p /\ From(i + 1) = i
      BY <1>1, <1>8, <1>9, <2>2
    <3> QED BY <3>1
  <2> QED BY <2>1, <2>2
<1>14. \A k \in DOMAIN w : k \in Int /\ From(k) \in Int
  BY <1>8, <1>9
<1> HIDE DEF From
<1>15. OnceEach(w)
  <2> SUFFICES ASSUME NEW k \in DOMAIN w, NEW l \in DOMAIN w, w[k].title = w[l].title, k < l
               PROVE  FALSE
    BY <1>14 DEF OnceEach
  <2>1. CASE k = p \/ l = p
    BY <1>2, <1>6, <1>10, <1>12, <1>14, <2>1
  <2>2. CASE k # p /\ l # p
    <3>1. From(k) = From(l)
      BY <1>1, <1>10, <2>2 DEF OnceEach
    <3> QED BY <1>11, <1>14, <2>2, <3>1
  <2> QED BY <2>1, <2>2
<1>16. EntriesOf(w) = EntriesOf(v) \cup {e}
  <2>1. ASSUME NEW k \in DOMAIN w PROVE w[k] \in EntriesOf(v) \cup {e}
    BY <1>10, <1>12 DEF EntriesOf
  <2>2. ASSUME NEW i \in DOMAIN v PROVE v[i] \in EntriesOf(w)
    BY <1>10, <1>13 DEF EntriesOf
  <2>3. e \in EntriesOf(w)
    BY <1>12 DEF EntriesOf
  <2>4. EntriesOf(w) \subseteq EntriesOf(v) \cup {e}
    BY <2>1 DEF EntriesOf
  <2>5. EntriesOf(v) \subseteq EntriesOf(w)
    BY <2>2 DEF EntriesOf
  <2> QED BY <2>3, <2>4, <2>5
<1>17. ASSUME InOrder(v) PROVE InOrder(w)
  <2> SUFFICES ASSUME NEW k \in DOMAIN w, NEW l \in DOMAIN w, k < l
               PROVE  ~Before(ProfileOf[w[l].title], ProfileOf[w[k].title])
    BY DEF InOrder
  <2>1. CASE k # p /\ l # p
    BY <1>10, <1>11, <1>17, <2>1 DEF InOrder
  <2>2. CASE l = p
    <3>1. k < p /\ k # p /\ From(k) = k
      BY <1>14, <2>2 DEF From
    <3> QED BY <1>4, <1>6, <1>8, <1>10, <1>12, <2>2, <3>1
  <2>3. CASE k = p
    <3>0. l # p /\ From(l) = l - 1 /\ From(l) \in DOMAIN v /\ w[l] = v[From(l)]
      <4>1. l # p /\ ~(l < p)
        BY <1>14, <2>3
      <4> QED BY <1>10, <4>1 DEF From
    <3>1. p \in DOMAIN v /\ From(l) \in Int /\ p \in Int /\ p =< From(l)
      BY <1>1, <1>8, <1>14, <2>3, <3>0
    <3>2. Before(ProfileOf[t], ProfileOf[v[p].title])
      BY <1>4, <1>8, <3>1
    <3>3. ~Before(ProfileOf[v[From(l)].title], ProfileOf[v[p].title])
      <4>1. CASE p = From(l)
        BY <1>2, <1>3, <3>0, <4>1, BeforeOrders
      <4>2. CASE p < From(l)
        BY <1>17, <3>0, <3>1, <4>2 DEF InOrder
      <4> QED BY <3>1, <4>1, <4>2
    <3>4. ~Before(ProfileOf[v[From(l)].title], ProfileOf[t])
      BY <1>2, <1>3, <3>0, <3>1, <3>2, <3>3, BeforeOrders
    <3> QED BY <1>6, <1>12, <2>3, <3>0, <3>4
  <2> QED BY <2>1, <2>2, <2>3
<1>18. w \in Lists
  BY <1>9, <1>15 DEF Lists
<1> QED BY <1>16, <1>17, <1>18 DEF w, e

-----------------------------------------------------------------------------
(* What a reload makes of a list.                                          *)

\* The titles end somewhere.
LEMMA TitlesEnd == \E n \in Nat : Titles \subseteq 0 .. n
<1> DEFINE c == Cardinality(Titles)
<1>1. c \in Nat /\ ExistsBijection(1 .. c, Titles)
  BY TitlesAssumption, FS_CardinalityType
<1>2. PICK f \in [1 .. c -> Titles] : \A t \in Titles : \E i \in 1 .. c : f[i] = t
  BY <1>1 DEF ExistsBijection, Bijection, Surjection, Injection
<1> HIDE DEF c
<1> DEFINE Q == {k \in Nat : \E n \in Nat : \A i \in 1 .. c : i =< k => f[i] =< n}
<1>3. 0 \in Q
  OBVIOUS
<1>4. ASSUME NEW k \in Nat, k \in Q PROVE k + 1 \in Q
  <2>1. PICK n \in Nat : \A i \in 1 .. c : i =< k => f[i] =< n
    BY <1>4
  <2>2. CASE k + 1 \in 1 .. c
    <3>1. f[k + 1] \in Nat
      BY <2>2, TitlesAssumption
    <3>2. \E m \in Nat : n =< m /\ f[k + 1] =< m
      <4>1. n =< n + f[k + 1] /\ f[k + 1] =< n + f[k + 1] /\ n + f[k + 1] \in Nat
        BY <3>1
      <4> QED BY <4>1
    <3>3. PICK m \in Nat : n =< m /\ f[k + 1] =< m
      BY <3>2
    <3>4. ASSUME NEW i \in 1 .. c, i =< k + 1 PROVE f[i] =< m
      <4>1. f[i] \in Nat
        BY TitlesAssumption
      <4>2. i =< k \/ i = k + 1
        BY <3>4
      <4> QED BY <2>1, <3>3, <4>1, <4>2
    <3> QED BY <3>4
  <2>3. CASE k + 1 \notin 1 .. c
    <3>1. \A i \in 1 .. c : i =< k + 1 => i =< k
      BY <1>1, <2>3
    <3> QED BY <2>1, <3>1
  <2> QED BY <2>2, <2>3
<1>5. c \in Q
  <2> HIDE DEF Q
  <2>1. Nat \subseteq Q
    BY <1>3, <1>4, AllNumbers
  <2> QED BY <1>1, <2>1 DEF c
<1>6. PICK n \in Nat : \A i \in 1 .. c : i =< c => f[i] =< n
  BY <1>5
<1>7. \A t \in Titles : t \in Nat /\ t =< n
  <2> TAKE t \in Titles
  <2>1. PICK i \in 1 .. c : f[i] = t
    BY <1>2
  <2>2. i =< c
    BY <1>1 DEF c
  <2> QED BY <1>6, <2>1, <2>2, TitlesAssumption
<1>8. \A t \in Titles : t \in 0 .. n
  BY <1>7
<1> QED BY <1>8

\* Placing a title gives a sequence of entries, also if the title is there already.
LEMMA PlacedIsSeq ==
  ASSUME NEW v \in Seq(Entries), NEW files, NEW t \in Titles
  PROVE  Placed(v, files, t) \in Seq(Entries)
<1> DEFINE profiles == [i \in DOMAIN v |-> IF files[v[i].title] # 0
                                           THEN ProfileOf[v[i].title] ELSE UnknownProfile]
           p == InsertionPoint(profiles, ProfileOf[t])
<1>1. \A i \in DOMAIN v : v[i].title \in Titles
  <2> TAKE i \in DOMAIN v
  <2>1. v[i] \in Entries
    OBVIOUS
  <2> QED BY <2>1 DEF Entries
<1>2. profiles \in Seq(Profile) /\ Len(profiles) = Len(v)
  <2>1. \A i \in DOMAIN v : profiles[i] \in Profile
    BY <1>1, ProfileAssumption, UnknownIsProfile
  <2>2. profiles \in [1 .. Len(v) -> Profile] /\ Len(v) \in Nat
    BY <2>1
  <2> HIDE DEF profiles
  <2> QED BY <2>2
<1>3. Pref(t, TRUE) \in Entries
  BY DEF Pref, Entries
<1>4. Placed(v, files, t) = InsertAt(v, p, Pref(t, TRUE))
  BY DEF Placed
<1> HIDE DEF profiles
<1>5. p \in 1 .. Len(v) + 1
  BY <1>2, InsertionPlace
<1> HIDE DEF p
<1> QED BY <1>3, <1>4, <1>5, Inserting

\* Reconciled is a fold over the titles that are new, in the order of titles.
LEMMA ReconciledIsFold ==
  ASSUME NEW prefs \in Lists, NEW files
  PROVE  LET X == Present(files) \ TitlesOf(Kept(prefs, files))
         IN  \E it :
               /\ it = [s \in SUBSET X |->
                          IF s = {} THEN Kept(prefs, files)
                          ELSE Placed(it[s \ {Max(s)}], files, Max(s))]
               /\ Reconciled(prefs, files) = it[X]
<1> DEFINE K == Kept(prefs, files)
           X == Present(files) \ TitlesOf(K)
           V == Seq(Entries)
           step == [xv \in X \X V |-> Placed(xv[2], files, xv[1])]
           Is(it) == it = [s \in SUBSET X |->
                             IF s = {} THEN K ELSE Placed(it[s \ {Max(s)}], files, Max(s))]
<1>1. PICK n \in Nat : Titles \subseteq 0 .. n
  BY TitlesEnd
<1>2. X \in SUBSET Nat /\ X \subseteq 0 .. n /\ X \subseteq Titles
  BY <1>1, TitlesAssumption DEF Present
<1>3. K \in V
  BY KeptList DEF Lists
<1>r. Reconciled(prefs, files) = (CHOOSE jt : Is(jt))[X]
  BY DEF Reconciled, MapThenFoldSet
<1> HIDE DEF K, X, V
<1>4. ASSUME NEW x \in X, NEW v \in V
      PROVE  step[<<x, v>>] = Placed(v, files, x) /\ step[<<x, v>>] \in V
  <2>1. Placed(v, files, x) \in V
    BY <1>2, PlacedIsSeq DEF V
  <2> QED BY <2>1
<1> HIDE DEF step
<1>5. PICK it \in [SUBSET X -> V] : IsFold(it, X, K, step)
  <2>1. \A x \in X, v \in V : step[<<x, v>>] \in V
    BY <1>4, Zenon
  <2> QED BY <1>2, <1>3, <2>1, FoldExists
<1>6. Is(it)
  <2>1. ASSUME NEW s \in SUBSET X, s # {}
        PROVE  step[<<Max(s), it[s \ {Max(s)}]>>] = Placed(it[s \ {Max(s)}], files, Max(s))
    <3>1. s \subseteq 0 .. n
      BY <1>2
    <3>2. Max(s) \in X
      BY <2>1, <3>1, LargestIsLast
    <3>3. it[s \ {Max(s)}] \in V
      OBVIOUS
    <3> QED BY <1>4, <3>2, <3>3
  <2> QED BY <1>5, <2>1 DEF IsFold
<1>7. Is(CHOOSE jt : Is(jt))
  <2> HIDE DEF Is
  <2> QED BY <1>6
<1>8. \E jt : Is(jt) /\ Reconciled(prefs, files) = jt[X]
  <2> HIDE DEF Is
  <2> QED BY <1>7, <1>r
<1> QED BY <1>8 DEF K, X

\* The titles of a list, those turned off, and its entry of a title, from its entries alone.
LEMMA TitlesOfEntries ==
  ASSUME NEW v \in Lists
  PROVE  /\ TitlesOf(v) = {e.title : e \in EntriesOf(v)}
         /\ OffIn(v) = {e.title : e \in {f \in EntriesOf(v) : ~f.enabled}}
         /\ \A e \in EntriesOf(v) : e \in Entries
         /\ \A e, f \in EntriesOf(v) : e.title = f.title => e = f
<1>1. v \in Seq(Entries) /\ OnceEach(v)
  BY DEF Lists
<1>2. \A e \in EntriesOf(v) : e \in Entries
  BY <1>1 DEF EntriesOf
<1>3. \A e, f \in EntriesOf(v) : e.title = f.title => e = f
  BY <1>1 DEF EntriesOf, OnceEach
<1> QED BY <1>2, <1>3 DEF TitlesOf, OffIn, EntriesOf

\* What a reconciled list holds.
LEMMA ReconciledEntries ==
  ASSUME NEW prefs \in Lists, NEW files
  PROVE  LET X == Present(files) \ TitlesOf(Kept(prefs, files))
         IN  /\ Reconciled(prefs, files) \in Lists
             /\ EntriesOf(Reconciled(prefs, files)) =
                  {e \in EntriesOf(prefs) : files[e.title] # 0} \cup {Pref(t, TRUE) : t \in X}
             /\ InOrder(prefs) => InOrder(Reconciled(prefs, files))
<1> DEFINE K == Kept(prefs, files)
           X == Present(files) \ TitlesOf(K)
<1>1. PICK it : /\ it = [s \in SUBSET X |->
                           IF s = {} THEN K ELSE Placed(it[s \ {Max(s)}], files, Max(s))]
                /\ Reconciled(prefs, files) = it[X]
  BY ReconciledIsFold
<1>2. PICK n \in Nat : Titles \subseteq 0 .. n
  BY TitlesEnd
<1>3. X \in SUBSET Nat /\ X \subseteq 0 .. n /\ X \subseteq Titles /\ \A t \in X : files[t] # 0
  BY <1>2, TitlesAssumption DEF Present
<1>4. /\ K \in Lists
      /\ EntriesOf(K) = {e \in EntriesOf(prefs) : files[e.title] # 0}
      /\ InOrder(prefs) => InOrder(K)
  BY KeptList
<1>5. \A t \in X : t \notin TitlesOf(K)
  OBVIOUS
<1> DEFINE W == Lists \cup {it[s] : s \in SUBSET X}
           step == [xv \in X \X W |-> Placed(xv[2], files, xv[1])]
           V == [t \in SUBSET X |->
                   {v \in Lists : /\ EntriesOf(v) = EntriesOf(K) \cup {Pref(x, TRUE) : x \in t}
                                  /\ InOrder(K) => InOrder(v)}]
<1> HIDE DEF K, X
<1>6. ASSUME NEW x \in X, NEW v \in W PROVE step[<<x, v>>] = Placed(v, files, x)
  OBVIOUS
<1>7. IsFold(it, X, K, step)
  <2>1. ASSUME NEW s \in SUBSET X, s # {}
        PROVE  step[<<Max(s), it[s \ {Max(s)}]>>] = Placed(it[s \ {Max(s)}], files, Max(s))
    <3>1. s \subseteq 0 .. n
      BY <1>3
    <3>2. Max(s) \in X
      BY <2>1, <3>1, LargestIsLast
    <3>3. it[s \ {Max(s)}] \in W
      OBVIOUS
    <3> HIDE DEF W, step
    <3> QED BY <1>6, <3>2, <3>3
  <2> HIDE DEF step, W
  <2> QED BY <1>1, <2>1 DEF IsFold
<1>8. K \in V[{}]
  BY <1>4
<1>9. ASSUME NEW t \in SUBSET X, NEW x \in X, \A y \in t : y < x, NEW v \in V[t]
      PROVE  step[<<x, v>>] \in V[t \cup {x}]
  <2>1. /\ v \in Lists /\ v \in W
        /\ EntriesOf(v) = EntriesOf(K) \cup {Pref(y, TRUE) : y \in t}
        /\ InOrder(K) => InOrder(v)
    BY <1>9
  <2>2. x \notin t
    <3>1. x \in Nat
      BY <1>3
    <3> QED BY <1>9, <3>1
  <2>3. \A e \in EntriesOf(v) : files[e.title] # 0
    BY <1>3, <1>4, <2>1 DEF Pref
  <2>4. x \in Titles /\ x \notin TitlesOf(v)
    <3>1. /\ TitlesOf(v) = {e.title : e \in EntriesOf(v)}
          /\ TitlesOf(K) = {e.title : e \in EntriesOf(K)}
      BY <1>4, <2>1, TitlesOfEntries
    <3>2. \A e \in EntriesOf(v) : e.title # x
      BY <1>5, <2>1, <2>2, <3>1 DEF Pref
    <3> QED BY <1>3, <3>1, <3>2
  <2>5. /\ Placed(v, files, x) \in Lists
        /\ EntriesOf(Placed(v, files, x)) = EntriesOf(v) \cup {Pref(x, TRUE)}
        /\ InOrder(v) => InOrder(Placed(v, files, x))
    BY <2>1, <2>3, <2>4, PlacedList
  <2>6. step[<<x, v>>] = Placed(v, files, x)
    BY <1>6, <2>1
  <2> HIDE DEF step, W
  <2>7. EntriesOf(step[<<x, v>>]) = EntriesOf(K) \cup {Pref(y, TRUE) : y \in t \cup {x}}
    BY <2>1, <2>5, <2>6
  <2> QED BY <2>1, <2>5, <2>6, <2>7
<1>10. it[X] \in V[X]
  <2> HIDE DEF step, V
  <2> QED BY <1>3, <1>7, <1>8, <1>9, FoldKeeps
<1>11. /\ it[X] \in Lists
       /\ EntriesOf(it[X]) = EntriesOf(K) \cup {Pref(x, TRUE) : x \in X}
       /\ InOrder(K) => InOrder(it[X])
  BY <1>10
<1> HIDE DEF V, step, W
<1> QED BY <1>1, <1>4, <1>11 DEF K, X

\* A reconciled list holds what is there, each once; those turned off stay so, and an order is kept.
LEMMA ReconciledList ==
  ASSUME NEW prefs \in Lists, NEW files
  PROVE  /\ Reconciled(prefs, files) \in Lists
         /\ TitlesOf(Reconciled(prefs, files)) = Present(files)
         /\ OffIn(Reconciled(prefs, files)) = OffIn(prefs) \cap Present(files)
         /\ InOrder(prefs) => InOrder(Reconciled(prefs, files))
<1> DEFINE K == Kept(prefs, files)
           X == Present(files) \ TitlesOf(K)
           R == Reconciled(prefs, files)
<1>1. /\ R \in Lists
      /\ EntriesOf(R) = {e \in EntriesOf(prefs) : files[e.title] # 0} \cup {Pref(t, TRUE) : t \in X}
      /\ InOrder(prefs) => InOrder(R)
  BY ReconciledEntries
<1>2. K \in Lists /\ EntriesOf(K) = {e \in EntriesOf(prefs) : files[e.title] # 0}
  BY KeptList
<1> HIDE DEF R, K
<1>3. /\ TitlesOf(R) = {e.title : e \in EntriesOf(R)}
      /\ OffIn(R) = {e.title : e \in {f \in EntriesOf(R) : ~f.enabled}}
  BY <1>1, TitlesOfEntries
<1>4. TitlesOf(K) = {e.title : e \in EntriesOf(K)}
  BY <1>2, TitlesOfEntries
<1>5. /\ OffIn(prefs) = {e.title : e \in {f \in EntriesOf(prefs) : ~f.enabled}}
      /\ \A e \in EntriesOf(prefs) : e \in Entries
  BY TitlesOfEntries
<1>6. \A e \in EntriesOf(prefs) : files[e.title] # 0 <=> e.title \in Present(files)
  BY <1>5 DEF Entries, Present
<1>7. EntriesOf(R) = EntriesOf(K) \cup {Pref(t, TRUE) : t \in X}
  BY <1>1, <1>2
<1>8. TitlesOf(R) = Present(files)
  <2>1. TitlesOf(R) = TitlesOf(K) \cup X
    <3>1. \A t \in X : Pref(t, TRUE).title = t
      BY DEF Pref
    <3> HIDE DEF X
    <3>2. ASSUME NEW e \in EntriesOf(R) PROVE e.title \in TitlesOf(K) \cup X
      <4>1. CASE e \in EntriesOf(K)
        BY <1>4, <4>1
      <4>2. CASE e \in {Pref(t, TRUE) : t \in X}
        BY <3>1, <4>2
      <4> QED BY <1>7, <4>1, <4>2
    <3>3. TitlesOf(K) \subseteq TitlesOf(R)
      BY <1>3, <1>4, <1>7
    <3>4. ASSUME NEW t \in X PROVE t \in TitlesOf(R)
      <4>1. Pref(t, TRUE) \in EntriesOf(R)
        BY <1>7
      <4> QED BY <1>3, <3>1, <4>1
    <3> QED BY <1>3, <3>2, <3>3, <3>4
  <2>2. TitlesOf(K) \subseteq Present(files)
    BY <1>2, <1>4, <1>6
  <2> QED BY <2>1, <2>2
<1>9. OffIn(R) = OffIn(prefs) \cap Present(files)
  <2>1. OffIn(R) = {e.title : e \in {f \in EntriesOf(K) : ~f.enabled}}
    BY <1>3, <1>7 DEF Pref
  <2> QED BY <1>2, <1>5, <1>6, <2>1
<1> QED BY <1>1, <1>8, <1>9 DEF R

-----------------------------------------------------------------------------
(* What the commands that sort, turn and count make of a list.             *)

Ahead(profiles, i, j) ==
  \/ Before(profiles[i], profiles[j])
  \/ ~Before(profiles[j], profiles[i]) /\ i < j
PlaceOf(profiles, i) == 1 + Cardinality({j \in DOMAIN profiles : Ahead(profiles, j, i)})

\* Sorting before, and among those with the same key being earlier, is a strict total order.
LEMMA AheadOrders ==
  ASSUME NEW profiles \in Seq(Profile),
         NEW i \in DOMAIN profiles, NEW j \in DOMAIN profiles, NEW k \in DOMAIN profiles
  PROVE  /\ ~Ahead(profiles, i, i)
         /\ i # j => Ahead(profiles, i, j) \/ Ahead(profiles, j, i)
         /\ Ahead(profiles, i, j) /\ Ahead(profiles, j, k) => Ahead(profiles, i, k)
<1>1. /\ profiles[i] \in Profile /\ profiles[j] \in Profile /\ profiles[k] \in Profile
      /\ i \in Int /\ j \in Int /\ k \in Int
  OBVIOUS
<1> DEFINE b(x, y) == Before(profiles[x], profiles[y])
<1>2. /\ ~b(i, i)
      /\ ~(b(i, j) /\ b(j, i)) /\ ~(b(j, k) /\ b(k, j)) /\ ~(b(i, k) /\ b(k, i))
      /\ b(i, j) /\ b(j, k) => b(i, k)
      /\ ~b(k, j) /\ ~b(j, i) => ~b(k, i)
      /\ b(k, i) /\ b(i, j) => b(k, j)
      /\ b(j, k) /\ b(k, i) => b(j, i)
      /\ ~b(i, k) /\ ~b(k, j) => ~b(i, j)
      /\ ~b(j, i) /\ ~b(i, k) => ~b(j, k)
  BY <1>1, BeforeOrders
<1> HIDE DEF b
<1>3. \A x, y : Ahead(profiles, x, y) <=> (b(x, y) \/ (~b(y, x) /\ x < y))
  BY DEF Ahead, b
<1> QED BY <1>1, <1>2, <1>3

\* As many places as there are: each has its own, and who is ahead has the smaller one.
LEMMA PlacesDiffer ==
  ASSUME NEW profiles \in Seq(Profile)
  PROVE  LET D == DOMAIN profiles
         IN  /\ \A i \in D : PlaceOf(profiles, i) \in D
             /\ \A i, j \in D :
                  Ahead(profiles, i, j) => PlaceOf(profiles, i) < PlaceOf(profiles, j)
<1> DEFINE D == DOMAIN profiles
           S(i) == {j \in D : Ahead(profiles, j, i)}
<1>1. D = 1 .. Len(profiles) /\ Len(profiles) \in Nat
  OBVIOUS
<1>2. IsFiniteSet(D) /\ Cardinality(D) = Len(profiles)
  <2>1. \A n \in Nat : IsFiniteSet(1 .. n) /\ Cardinality(1 .. n) = n
    <3> TAKE n \in Nat
    <3>1. n \in Int /\ 1 \in Int
      OBVIOUS
    <3>2. IsFiniteSet(1 .. n) /\ Cardinality(1 .. n) = IF 1 > n THEN 0 ELSE n - 1 + 1
      BY <3>1, FS_Interval
    <3> QED BY <3>2
  <2> HIDE DEF D
  <2> QED BY <1>1, <2>1
<1> HIDE DEF D
<1>3. \A i \in D :
        S(i) \in SUBSET D /\ i \notin S(i) /\ PlaceOf(profiles, i) = 1 + Cardinality(S(i))
  BY AheadOrders DEF PlaceOf, D
<1>4. ASSUME NEW i \in D, NEW T \in SUBSET D, S(i) \cup {i} \subseteq T
      PROVE  /\ Cardinality(S(i)) \in Nat /\ Cardinality(T) \in Nat
             /\ Cardinality(S(i)) + 1 =< Cardinality(T)
  <2>1. IsFiniteSet(S(i)) /\ IsFiniteSet(T)
    BY <1>2, <1>3, FS_Subset
  <2> HIDE DEF S
  <2>2. IsFiniteSet(S(i) \cup {i}) /\ Cardinality(S(i) \cup {i}) = Cardinality(S(i)) + 1
    BY <1>3, <2>1, FS_AddElement
  <2>3. Cardinality(S(i) \cup {i}) =< Cardinality(T)
    BY <1>4, <2>1, FS_Subset
  <2> QED BY <2>1, <2>2, <2>3, FS_CardinalityType
<1>5. ASSUME NEW i \in D PROVE PlaceOf(profiles, i) \in D
  <2>1. S(i) \cup {i} \subseteq D
    OBVIOUS
  <2> HIDE DEF S
  <2>2. Cardinality(S(i)) \in Nat /\ Cardinality(S(i)) + 1 =< Cardinality(D)
    BY <1>4, <2>1
  <2> QED BY <1>1, <1>2, <1>3, <2>2
<1>6. ASSUME NEW i \in D, NEW j \in D, Ahead(profiles, i, j)
      PROVE  PlaceOf(profiles, i) < PlaceOf(profiles, j)
  <2>1. S(i) \cup {i} \subseteq S(j) /\ S(j) \in SUBSET D
    <3>1. \A k \in D : Ahead(profiles, k, i) => Ahead(profiles, k, j)
      BY <1>6, AheadOrders DEF D
    <3> QED BY <1>6, <3>1
  <2> HIDE DEF S
  <2>2. /\ Cardinality(S(i)) \in Nat /\ Cardinality(S(j)) \in Nat
        /\ Cardinality(S(i)) + 1 =< Cardinality(S(j))
    BY <1>4, <2>1
  <2> QED BY <1>3, <2>2
<1> QED BY <1>5, <1>6 DEF D

\* The smart order holds each place once, and none sorts before one that is earlier in it.
LEMMA SmartOrderSorts ==
  ASSUME NEW profiles \in Seq(Profile)
  PROVE  LET D     == DOMAIN profiles
             order == SmartOrder(profiles)
         IN  /\ order \in [D -> D] /\ DOMAIN order = D
             /\ \A i \in D : \E k \in D : order[k] = i
             /\ \A k, l \in D : order[k] = order[l] => k = l
             /\ \A k, l \in D : k < l => ~Before(profiles[order[l]], profiles[order[k]])
<1> DEFINE D == DOMAIN profiles
           order == SmartOrder(profiles)
           place == [i \in D |-> PlaceOf(profiles, i)]
<1>1. D = 1 .. Len(profiles) /\ Len(profiles) \in Nat /\ IsFiniteSet(D)
  BY FS_Interval
<1>2. order = [k \in D |-> CHOOSE i \in D : PlaceOf(profiles, i) = k]
  BY DEF SmartOrder, PlaceOf, Ahead
<1>3. /\ \A i \in D : PlaceOf(profiles, i) \in D
      /\ \A i, j \in D : Ahead(profiles, i, j) => PlaceOf(profiles, i) < PlaceOf(profiles, j)
  BY PlacesDiffer
<1>4. \A i, j \in D : i # j => Ahead(profiles, i, j) \/ Ahead(profiles, j, i)
  BY AheadOrders
<1> HIDE DEF D, order
<1>5. \A i, j \in D : PlaceOf(profiles, i) = PlaceOf(profiles, j) => i = j
  <2>1. \A i \in D : PlaceOf(profiles, i) \in Int
    BY <1>1, <1>3
  <2> QED BY <1>3, <1>4, <2>1
<1>6. place \in Injection(D, D)
  BY <1>3, <1>5 DEF Injection, IsInjective
<1>7. place \in Surjection(D, D)
  <2> HIDE DEF place
  <2> QED BY <1>1, <1>6, FS_Injection
<1>8. ASSUME NEW k \in D PROVE order[k] \in D /\ PlaceOf(profiles, order[k]) = k
  <2>1. \E i \in D : PlaceOf(profiles, i) = k
    BY <1>7 DEF Surjection
  <2> QED BY <1>2, <2>1
<1>9. order \in [D -> D] /\ DOMAIN order = D
  BY <1>2, <1>8
<1>10. \A i \in D : order[PlaceOf(profiles, i)] = i
  BY <1>3, <1>5, <1>8
<1>11. ASSUME NEW k \in D, NEW l \in D, k < l
       PROVE  ~Before(profiles[order[l]], profiles[order[k]])
  <2>1. ~Ahead(profiles, order[l], order[k])
    <3>1. k \in Int /\ l \in Int
      BY <1>1
    <3>2. /\ order[l] \in D /\ order[k] \in D
          /\ PlaceOf(profiles, order[l]) = l /\ PlaceOf(profiles, order[k]) = k
      BY <1>8
    <3>3. ~(l < k)
      BY <1>11, <3>1
    <3> QED BY <1>3, <3>2, <3>3
  <2> QED BY <2>1 DEF Ahead
<1>12. \A i \in D : \E k \in D : order[k] = i
  BY <1>3, <1>10
<1>13. \A k, l \in D : order[k] = order[l] => k = l
  BY <1>8
<1> QED BY <1>9, <1>11, <1>12, <1>13 DEF D, order

\* A list in another order, and one with an entry turned on or off.
LEMMA OrderedList ==
  ASSUME NEW v \in Lists, NEW order \in [DOMAIN v -> DOMAIN v],
         \A i \in DOMAIN v : \E k \in DOMAIN v : order[k] = i,
         \A k, l \in DOMAIN v : order[k] = order[l] => k = l
  PROVE  LET w == [k \in DOMAIN v |-> v[order[k]]]
         IN  w \in Lists /\ EntriesOf(w) = EntriesOf(v) /\ DOMAIN w = DOMAIN v
<1> DEFINE w == [k \in DOMAIN v |-> v[order[k]]]
<1>1. v \in Seq(Entries) /\ OnceEach(v) /\ DOMAIN v = 1 .. Len(v) /\ Len(v) \in Nat
  BY DEF Lists
<1>2. DOMAIN w = DOMAIN v /\ \A k \in DOMAIN v : w[k] = v[order[k]] /\ order[k] \in DOMAIN v
  OBVIOUS
<1>3. w \in Seq(Entries)
  <2>1. w \in [1 .. Len(v) -> Entries]
    BY <1>1
  <2> HIDE DEF w
  <2> QED BY <1>1, <2>1
<1> HIDE DEF w
<1>4. OnceEach(w)
  <2> SUFFICES ASSUME NEW k \in DOMAIN w, NEW l \in DOMAIN w, w[k].title = w[l].title
               PROVE  k = l
    BY DEF OnceEach
  <2>0. order[k] \in DOMAIN v /\ order[l] \in DOMAIN v /\ v[order[k]].title = v[order[l]].title
    BY <1>2
  <2>1. order[k] = order[l]
    <3>1. \A i, j \in DOMAIN v : v[i].title = v[j].title => i = j
      BY <1>1 DEF OnceEach
    <3> DEFINE a == order[k]
               b == order[l]
    <3>2. a \in DOMAIN v /\ b \in DOMAIN v /\ v[a].title = v[b].title
      BY <2>0
    <3> HIDE DEF a, b
    <3>3. a = b
      BY <3>1, <3>2
    <3> QED BY <3>3 DEF a, b
  <2> QED BY <1>2, <2>1
<1>5. EntriesOf(w) = EntriesOf(v)
  BY <1>2 DEF EntriesOf
<1> QED BY <1>2, <1>3, <1>4, <1>5 DEF w, Lists

\* A list with one entry turned on or off is a list.
LEMMA FlippedList ==
  ASSUME NEW v \in Lists, NEW i \in DOMAIN v
  PROVE  Flipped(v, i) \in Lists
<1>1. v \in Seq(Entries) /\ OnceEach(v) /\ DOMAIN v = 1 .. Len(v) /\ Len(v) \in Nat
  BY DEF Lists
<1>2. \A k \in DOMAIN v : v[k] \in Entries
  BY <1>1
<1>3. /\ DOMAIN Flipped(v, i) = DOMAIN v
      /\ \A k \in DOMAIN v : Flipped(v, i)[k].title = v[k].title /\ Flipped(v, i)[k] \in Entries
      /\ Flipped(v, i) \in [1 .. Len(v) -> Entries]
  <2>1. [v[i] EXCEPT !.enabled = ~@] \in Entries
        /\ [v[i] EXCEPT !.enabled = ~@].title = v[i].title
    BY <1>2 DEF Entries
  <2> QED BY <1>1, <1>2, <2>1 DEF Flipped
<1>4. Flipped(v, i) \in Seq(Entries)
  BY <1>1, <1>3
<1> QED BY <1>1, <1>3, <1>4 DEF Lists, OnceEach

\* A list is as long as it holds titles.
LEMMA ListCounts ==
  ASSUME NEW v \in Lists
  PROVE  Len(v) = Cardinality(TitlesOf(v))
<1>1. v \in Seq(Entries) /\ OnceEach(v) /\ DOMAIN v = 1 .. Len(v) /\ Len(v) \in Nat
  BY DEF Lists
<1> DEFINE f == [i \in 1 .. Len(v) |-> v[i].title]
<1>2. f \in Bijection(1 .. Len(v), TitlesOf(v))
  BY <1>1 DEF Bijection, Injection, IsInjective, Surjection, TitlesOf, OnceEach
<1>3. ExistsBijection(1 .. Len(v), TitlesOf(v))
  BY <1>2 DEF ExistsBijection
<1> QED BY <1>1, <1>3, FS_CountingElements

-----------------------------------------------------------------------------
(* The configuration and its reloads.                                      *)

Reloading == {"reconcile", "restore", "publish"}

\* A configuration, whatever its two parts are.
IsConfig(c) == c = [setting |-> c.setting, dictionaries |-> c.dictionaries]

ReloadTypeOK ==
  /\ ipc = [at |-> ipc.at, sends |-> ipc.sends, call |-> ipc.call]
  /\ importer = [at |-> importer.at, job |-> importer.job]
  /\ ipc.at \in {"idle", "save", "store", "list"} \cup Reloading
  /\ importer.at \in {"idle", "compile", "swap", "replaces", "list"} \cup Reloading
  /\ seen = [th \in Threads |-> seen[th]] /\ next = [th \in Threads |-> next[th]]
  /\ IsConfig(config) /\ IsConfig(file) /\ IsConfig(ipc.sends) /\ IsConfig(copy)
  /\ crashes \in Nat

\* Who stores a configuration, and who is about to, holds the mutex.
HeldByWorker ==
  /\ ipc.at = "store" => reloadMutex = "ipc"
  /\ \A th \in Threads : At(th) \in Reloading => reloadMutex = th

\* What a reload is about to store is the configuration there is, but for its list.
ReconciledIsNow ==
  \A th \in Threads :
    /\ At(th) = "restore" => IsConfig(next[th]) /\ next[th].setting = config.setting
    /\ At(th) = "publish" => next[th] = config
    /\ At(th) \in {"restore", "publish"} => TitlesOf(next[th].dictionaries) = Present(seen[th])

\* Somebody is about to load what is installed; what a reload under way has seen of the disk is
\* what is there, or it is followed by another one.
Due ==
  \/ importer.at \in {"compile", "swap", "replaces", "list"}
  \/ ipc.at \in {"store", "list"}
  \/ ctl.at = "call"
SeenIsNow == \A th \in Threads : At(th) \in Reloading => seen[th] = Readable \/ Due

\* What is installed and configured is what lookups go through, or is about to be loaded.
Loaded ==
  /\ installed = Readable /\ dictionaries = Enabled(config.dictionaries, Readable)
  /\ TitlesOf(config.dictionaries) = Present(Readable)
UpToDate == Loaded \/ Due \/ \E th \in Threads : At(th) \in Reloading

ReloadInv ==
  ReloadTypeOK /\ HeldByWorker /\ ReconciledIsNow /\ SeenIsNow /\ UpToDate

\* Every list of dictionaries holds each of its titles once.
ListsOK ==
  /\ config.dictionaries \in Lists /\ file.dictionaries \in Lists
  /\ copy.dictionaries \in Lists /\ ipc.sends.dictionaries \in Lists
  /\ \A th \in Threads : next[th].dictionaries \in Lists

\* The empty list is a list, and in order.
LEMMA EmptyList == <<>> \in Lists /\ InOrder(<<>>)
BY DEF Lists, OnceEach, InOrder

\* What is there at the start are lists.
LEMMA ListsInit == Init => ListsOK
<1> SUFFICES ASSUME Init PROVE ListsOK
  OBVIOUS
<1>1. Reconciled(<<>>, disk) \in Lists
  BY EmptyList, ReconciledList
<1> QED BY <1>1, EmptyList DEF Init, ListsOK, NoConfig

\* The configuration there is at the start was reconciled with the files there are.
LEMMA ReloadInvInit == Init => ReloadInv
<1> SUFFICES ASSUME Init PROVE ReloadInv
  OBVIOUS
<1>1. ReloadTypeOK
  BY DEF Init, ReloadTypeOK, IsConfig, NoConfig
<1>2. HeldByWorker /\ ReconciledIsNow /\ SeenIsNow
  BY DEF Init, HeldByWorker, ReconciledIsNow, SeenIsNow, At, Reloading, Threads
<1>3. UpToDate
  <2>1. TitlesOf(Reconciled(<<>>, disk)) = Present(disk)
    BY EmptyList, ReconciledList
  <2>2. disk = [t \in Titles |-> disk[t]] /\ unread.titles = {}
    BY DEF Init
  <2>3. Readable = [t \in Titles |-> disk[t]]
    BY <2>2 DEF Readable, Opened
  <2>4. Readable = disk
    BY <2>2, <2>3
  <2>5. /\ installed = disk /\ dictionaries = Enabled(config.dictionaries, disk)
        /\ config.dictionaries = Reconciled(<<>>, disk)
    BY DEF Init
  <2> QED BY <2>1, <2>4, <2>5 DEF Loaded, UpToDate
<1> QED BY <1>1, <1>2, <1>3 DEF ReloadInv

\* What a thread is at, and the other one.
LEMMA Places ==
  /\ At("ipc") = ipc.at /\ At("importer") = importer.at
  /\ At("ipc")' = ipc'.at /\ At("importer")' = importer'.at
  /\ Threads = {"ipc", "importer"}
BY DEF At, Threads

\* A step of others than the threads that reload; what it changes of the disk somebody loads.
Besides ==
  /\ UNCHANGED <<config, reloadMutex, importer, seen, unread, next, installed, dictionaries, file,
                 crashes>>
  /\ \/ ipc' = ipc
     \/ /\ ipc.at \in {"idle", "save"}
        /\ ipc'.at \in {"idle", "save", "list"}
  /\ ipc' = [at |-> ipc'.at, sends |-> ipc'.sends, call |-> ipc'.call]
  /\ IsConfig(ipc'.sends) /\ IsConfig(copy')
  /\ \/ ctl'.at = "call"
     \/ ipc'.at = "list"
     \/ /\ UNCHANGED disk
        /\ ctl.at # "call"
     \/ UNCHANGED <<disk, ctl>>

\* A step that changes neither files nor configurations, and of no thread at a reload.
LEMMA Beside ==
  ASSUME ReloadInv, Besides
  PROVE  ReloadInv'
<1>0. ReloadTypeOK /\ HeldByWorker /\ ReconciledIsNow /\ SeenIsNow /\ UpToDate
  BY DEF ReloadInv
<1>1. ipc.at \in Reloading => ipc' = ipc
  BY DEF Besides, Reloading
<1>2. \A th \in Threads : At(th)' \in Reloading \/ At(th) \in Reloading => At(th)' = At(th)
  BY <1>1, Places DEF Besides, Reloading
<1>3. ReloadTypeOK'
  BY <1>0 DEF Besides, ReloadTypeOK, IsConfig
<1>4. HeldByWorker'
  <2>1. ipc'.at = "store" => ipc.at = "store"
    BY DEF Besides
  <2> QED BY <1>0, <1>2, <2>1 DEF Besides, HeldByWorker
<1>5. ReconciledIsNow'
  BY <1>0, <1>2 DEF Besides, ReconciledIsNow, Reloading
<1>6. Due' \/ (UNCHANGED disk /\ (Due => Due'))
  BY DEF Besides, Due
<1>7. SeenIsNow' /\ UpToDate'
  <2>1. CASE Due'
    BY <2>1 DEF SeenIsNow, UpToDate
  <2>2. CASE UNCHANGED disk /\ (Due => Due')
    <3>0. Readable' = Readable
      BY <2>2 DEF Besides, Readable, Opened
    <3>1. SeenIsNow'
      BY <1>0, <1>2, <2>2, <3>0 DEF Besides, SeenIsNow
    <3>2. Loaded => Loaded'
      BY <2>2, <3>0 DEF Besides, Loaded
    <3>3. UpToDate'
      BY <1>0, <1>2, <2>2, <3>2 DEF UpToDate
    <3> QED BY <3>1, <3>3
  <2> QED BY <1>6, <2>1, <2>2
<1> QED BY <1>3, <1>4, <1>5, <1>7 DEF ReloadInv

\* The import thread makes and removes files, and a reload follows.
LEMMA Imported ==
  ASSUME ReloadInv,
         UNCHANGED <<config, reloadMutex, ipc, ctl, seen, unread, next, installed, dictionaries,
                     file, copy, crashes>>,
         importer.at \notin Reloading,
         importer' = [at |-> importer'.at, job |-> importer'.job],
         importer'.at \in {"compile", "swap", "replaces", "list"}
  PROVE  ReloadInv'
<1>0. ReloadTypeOK /\ HeldByWorker /\ ReconciledIsNow
  BY DEF ReloadInv
<1>1. importer'.at \notin Reloading
  BY DEF Reloading
<1>2. ReloadTypeOK'
  BY <1>0 DEF ReloadTypeOK, IsConfig
<1>3. HeldByWorker' /\ ReconciledIsNow'
  BY <1>0, <1>1, Places DEF HeldByWorker, ReconciledIsNow, Reloading
<1>4. Due' /\ SeenIsNow' /\ UpToDate'
  BY DEF Due, SeenIsNow, UpToDate
<1> QED BY <1>2, <1>3, <1>4 DEF ReloadInv

\* Clients and lexiglancectl.
LEMMA ClientSteps ==
  ASSUME ReloadInv, Clients \/ Ctl
  PROVE  ReloadInv'
<1>0. ReloadTypeOK
  BY DEF ReloadInv
<1>1. CASE GetConfig \/ QueueImport
  <2>1. /\ UNCHANGED <<config, reloadMutex, importer, seen, unread, next, installed, dictionaries,
                       file, ipc, disk, ctl, crashes>>
        /\ copy' = config \/ copy' = copy
    BY <1>1 DEF GetConfig, QueueImport, Serve
  <2>2. IsConfig(ipc'.sends) /\ IsConfig(copy')
        /\ ipc' = [at |-> ipc'.at, sends |-> ipc'.sends, call |-> ipc'.call]
    BY <1>0, <2>1 DEF ReloadTypeOK
  <2> QED BY <2>1, <2>2, Beside DEF Besides
<1>2. CASE SetConfig
  <2>1. PICK edit \in Edits(copy) : ipc' = [at |-> "save", sends |-> edit, call |-> "set"]
    BY <1>2 DEF SetConfig
  <2>2. IsConfig(edit)
    BY <1>0, <2>1 DEF Edits, IsConfig, ReloadTypeOK
  <2>3. IsConfig(ipc'.sends) /\ IsConfig(copy') /\ ipc'.at = "save" /\ ipc.at = "idle"
        /\ ipc' = [at |-> ipc'.at, sends |-> ipc'.sends, call |-> ipc'.call]
    BY <1>0, <1>2, <2>1, <2>2 DEF SetConfig, Serve, ReloadTypeOK
  <2>4. UNCHANGED <<config, reloadMutex, importer, seen, unread, next, installed, dictionaries,
                    file, crashes, disk, ctl>>
    BY <1>2 DEF SetConfig
  <2> QED BY <2>3, <2>4, Beside DEF Besides
<1>3. CASE Pause \/ Sort
  <2>1. ipc'.at = "save" /\ IsConfig(ipc'.sends)
        /\ ipc' = [at |-> ipc'.at, sends |-> ipc'.sends, call |-> ipc'.call]
    BY <1>0, <1>3 DEF Pause, Sort, IsConfig, ReloadTypeOK
  <2>2. /\ UNCHANGED <<config, reloadMutex, importer, seen, unread, next, installed, dictionaries,
                       file, crashes, disk, ctl, copy>>
        /\ ipc.at = "idle"
    BY <1>3 DEF Pause, Sort, Serve
  <2>3. IsConfig(copy')
    BY <1>0, <2>2 DEF ReloadTypeOK
  <2> QED BY <2>1, <2>2, <2>3, Beside DEF Besides
<1>4. CASE RemoveDictionary
  <2>1. ipc' = [at |-> "list", sends |-> ipc.sends, call |-> "remove"]
    BY <1>0, <1>4 DEF RemoveDictionary, ReloadTypeOK
  <2>2. /\ UNCHANGED <<config, reloadMutex, importer, seen, unread, next, installed, dictionaries,
                       file, copy, crashes>>
        /\ ipc.at = "idle"
    BY <1>4 DEF RemoveDictionary, Serve
  <2>3. IsConfig(ipc'.sends) /\ IsConfig(copy') /\ ipc'.at = "list"
        /\ ipc' = [at |-> ipc'.at, sends |-> ipc'.sends, call |-> ipc'.call]
    BY <1>0, <2>1, <2>2 DEF ReloadTypeOK
  <2> QED BY <2>2, <2>3, Beside DEF Besides
<1>5. CASE Ctl
  <2>1. /\ UNCHANGED <<config, reloadMutex, importer, seen, unread, next, installed, dictionaries,
                       file, ipc, copy, crashes>>
        /\ \/ ctl'.at = "call"
           \/ /\ UNCHANGED disk
              /\ ctl.at # "call"
    BY <1>5 DEF Ctl, CtlStarts, CtlInstalls, CtlFails, CtlRemoves, NoCtl
  <2>2. IsConfig(ipc'.sends) /\ IsConfig(copy')
        /\ ipc' = [at |-> ipc'.at, sends |-> ipc'.sends, call |-> ipc'.call]
    BY <1>0, <2>1 DEF ReloadTypeOK
  <2> QED BY <2>1, <2>2, Beside DEF Besides
<1> QED BY <1>1, <1>2, <1>3, <1>4, <1>5 DEF Clients

\* The import thread, up to its reload.
LEMMA ImportSteps ==
  ASSUME ReloadInv, TakeImport \/ ImportFails \/ MoveAside \/ ImportDone \/ RemoveReplaced
  PROVE  ReloadInv'
<1>0. importer = [at |-> importer.at, job |-> importer.job]
  BY DEF ReloadInv, ReloadTypeOK
<1>1. importer.at \notin Reloading
  BY DEF TakeImport, ImportFails, MoveAside, ImportDone, RemoveReplaced, Reloading
<1>2. importer'.at \in {"compile", "swap", "replaces", "list"}
      /\ importer' = [at |-> importer'.at, job |-> importer'.job]
  BY <1>0 DEF TakeImport, ImportFails, MoveAside, ImportDone, RemoveReplaced, AfterInstall
<1>3. UNCHANGED <<config, reloadMutex, ipc, ctl, seen, unread, next, installed, dictionaries,
                  file, copy, crashes>>
  BY DEF TakeImport, ImportFails, MoveAside, ImportDone, RemoveReplaced
<1> QED BY <1>1, <1>2, <1>3, Imported

\* A thread goes on to a place of its reload.
LEMMA Went ==
  ASSUME ReloadTypeOK, NEW th \in Threads, NEW place, Goes(th, place)
  PROVE  /\ At(th)' = place /\ \A o \in Threads \ {th} : At(o)' = At(o)
         /\ ipc' = [at |-> ipc'.at, sends |-> ipc.sends, call |-> ipc.call]
         /\ importer' = [at |-> importer'.at, job |-> importer'.job]
         /\ ipc'.at \in {ipc.at, place} /\ importer'.at \in {importer.at, place}
         /\ th = "ipc" => ipc'.at = place /\ importer'.at = importer.at
         /\ th = "importer" => importer'.at = place /\ ipc'.at = ipc.at
<1>1. CASE th = "ipc"
  <2>1. ipc' = [at |-> place, sends |-> ipc.sends, call |-> ipc.call] /\ importer' = importer
    BY <1>1 DEF Goes, ReloadTypeOK
  <2> QED BY <1>1, <2>1, Places DEF ReloadTypeOK
<1>2. CASE th = "importer"
  <2>1. importer' = [at |-> place, job |-> NoJob] /\ ipc' = ipc
    BY <1>2 DEF Goes
  <2> QED BY <1>2, <2>1, Places DEF ReloadTypeOK
<1> QED BY <1>1, <1>2, Places

\* Two threads are never both in their reload, nor one while a client's call is stored.
LEMMA OneHolds ==
  ASSUME HeldByWorker, NEW th \in Threads, At(th) \in Reloading
  PROVE  /\ reloadMutex = th
         /\ \A o \in Threads \ {th} : At(o) \notin Reloading
         /\ ipc.at # "store"
BY Places DEF HeldByWorker, Reloading

\* What a thread has seen of the disk is what it could read.
LEMMA Loading ==
  ASSUME ReloadTypeOK, NEW th \in Threads, LoadAll(th), UNCHANGED disk
  PROVE  seen' = [o \in Threads |-> seen'[o]] /\ seen'[th] = Readable'
<1>1. PICK left \in SUBSET Present(disk) :
        /\ unread' = [titles |-> left, times |-> unread.times + (IF left = {} THEN 0 ELSE 1)]
        /\ seen' = [seen EXCEPT ![th] = [t \in Titles |-> IF t \in left THEN 0 ELSE disk[t]]]
  BY DEF LoadAll, Opened
<1>2. unread'.titles = left
  BY <1>1
<1>3. Readable' = [t \in Titles |-> IF t \in left THEN 0 ELSE disk[t]]
  BY <1>2 DEF Readable, Opened
<1> QED BY <1>1, <1>3 DEF ReloadTypeOK

\* reloadDictionaries(), by either thread.
LEMMA ReloadSteps ==
  ASSUME ReloadInv, ListsOK, NEW th \in Threads, Reloads(th)
  PROVE  ReloadInv'
<1>0. ReloadTypeOK /\ HeldByWorker /\ ReconciledIsNow /\ SeenIsNow /\ UpToDate
  BY DEF ReloadInv
<1>1. CASE List(th)
  <2>1. /\ reloadMutex = Nobody /\ reloadMutex' = th /\ LoadAll(th)
        /\ Goes(th, "reconcile")
        /\ UNCHANGED <<disk, file, config, installed, dictionaries, ctl, next, copy, crashes>>
    BY <1>1 DEF List
  <2>2. /\ At(th)' = "reconcile" /\ \A o \in Threads \ {th} : At(o)' = At(o)
        /\ ipc' = [at |-> ipc'.at, sends |-> ipc.sends, call |-> ipc.call]
        /\ importer' = [at |-> importer'.at, job |-> importer'.job]
        /\ ipc'.at \in {ipc.at, "reconcile"} /\ importer'.at \in {importer.at, "reconcile"}
    BY <1>0, <2>1, Went
  <2>3. seen' = [o \in Threads |-> seen'[o]] /\ seen'[th] = Readable'
    BY <1>0, <2>1, Loading
  <2>4. ReloadTypeOK'
    BY <1>0, <2>1, <2>2, <2>3 DEF ReloadTypeOK, IsConfig, Reloading
  <2>5. (\A o \in Threads : At(o) \notin Reloading) /\ ipc.at # "store"
    BY <1>0, <2>1, Places DEF HeldByWorker, Nobody
  <2>6. HeldByWorker' /\ ReconciledIsNow'
    BY <2>1, <2>2, <2>5 DEF HeldByWorker, ReconciledIsNow, Reloading
  <2>7. At(th)' \in Reloading /\ \A o \in Threads \ {th} : At(o)' \notin Reloading
    BY <2>2, <2>5 DEF Reloading
  <2>8. SeenIsNow' /\ UpToDate'
    BY <2>3, <2>7 DEF SeenIsNow, UpToDate
  <2> QED BY <2>4, <2>6, <2>8 DEF ReloadInv
<1>2. CASE At(th) \in Reloading
  <2>0. /\ reloadMutex = th /\ \A o \in Threads \ {th} : At(o) \notin Reloading
        /\ ipc.at # "store"
    BY <1>0, <1>2, OneHolds
  <2>1. CASE Reconcile(th)
    <3> DEFINE reconciled == [config EXCEPT !.dictionaries = Reconciled(@, seen[th])]
               place == IF reconciled = config THEN "publish" ELSE "restore"
    <3>1. /\ next' = [next EXCEPT ![th] = reconciled]
          /\ file' \in {file, reconciled} /\ Goes(th, place)
          /\ UNCHANGED <<disk, config, installed, dictionaries, reloadMutex, ctl, seen, unread,
                         copy, crashes>>
      BY <2>1 DEF Reconcile
    <3>2. /\ IsConfig(reconciled) /\ reconciled.setting = config.setting
          /\ TitlesOf(reconciled.dictionaries) = Present(seen[th])
      <4>1. TitlesOf(Reconciled(config.dictionaries, seen[th])) = Present(seen[th])
        BY ReconciledList DEF ListsOK
      <4>2. reconciled = [setting      |-> config.setting,
                          dictionaries |-> Reconciled(config.dictionaries, seen[th])]
        BY <1>0 DEF ReloadTypeOK, IsConfig
      <4> HIDE DEF reconciled
      <4> QED BY <4>1, <4>2 DEF IsConfig
    <3>3. place \in {"publish", "restore"} /\ (place = "publish" => reconciled = config)
      OBVIOUS
    <3> HIDE DEF reconciled, place
    <3>4. /\ At(th)' = place /\ \A o \in Threads \ {th} : At(o)' = At(o)
          /\ ipc' = [at |-> ipc'.at, sends |-> ipc.sends, call |-> ipc.call]
          /\ importer' = [at |-> importer'.at, job |-> importer'.job]
          /\ ipc'.at \in {ipc.at, place} /\ importer'.at \in {importer.at, place}
          /\ At(th) = "reconcile"
      BY <1>0, <2>1, <3>1, Went DEF Reconcile
    <3>5. next' = [o \in Threads |-> next'[o]] /\ next'[th] = reconciled
      BY <1>0, <3>1 DEF ReloadTypeOK
    <3>6. ReloadTypeOK'
      BY <1>0, <3>1, <3>2, <3>3, <3>4, <3>5 DEF ReloadTypeOK, IsConfig, Reloading
    <3>7. HeldByWorker'
      BY <2>0, <3>1, <3>3, <3>4 DEF HeldByWorker
    <3>8. ReconciledIsNow'
      BY <2>0, <3>1, <3>2, <3>3, <3>4, <3>5 DEF ReconciledIsNow, Reloading
    <3>9. (Due => Due') /\ Readable' = Readable
      BY <1>2, <3>1, <3>4, Places DEF Due, Reloading, Readable, Opened
    <3>10. SeenIsNow' /\ UpToDate'
      BY <1>0, <1>2, <2>0, <3>1, <3>3, <3>4, <3>9 DEF SeenIsNow, UpToDate, Reloading
    <3> QED BY <3>6, <3>7, <3>8, <3>10 DEF ReloadInv
  <2>2. CASE StoreReconciled(th)
    <3>1. /\ At(th) = "restore" /\ config' = next[th] /\ Goes(th, "publish")
          /\ UNCHANGED <<disk, file, installed, dictionaries, reloadMutex, ctl, seen, unread, next,
                         copy, crashes>>
      BY <2>2 DEF StoreReconciled
    <3>2. /\ At(th)' = "publish" /\ \A o \in Threads \ {th} : At(o)' = At(o)
          /\ ipc' = [at |-> ipc'.at, sends |-> ipc.sends, call |-> ipc.call]
          /\ importer' = [at |-> importer'.at, job |-> importer'.job]
          /\ ipc'.at \in {ipc.at, "publish"} /\ importer'.at \in {importer.at, "publish"}
      BY <1>0, <3>1, Went
    <3>3. IsConfig(next[th])
      BY <1>0, <3>1 DEF ReconciledIsNow
    <3>4. ReloadTypeOK'
      BY <1>0, <3>1, <3>2, <3>3 DEF ReloadTypeOK, IsConfig, Reloading
    <3>5. HeldByWorker' /\ ReconciledIsNow'
      BY <1>0, <2>0, <3>1, <3>2 DEF HeldByWorker, ReconciledIsNow, Reloading
    <3>6. (Due => Due') /\ Readable' = Readable
      BY <1>2, <3>1, <3>2, Places DEF Due, Reloading, Readable, Opened
    <3>7. SeenIsNow' /\ UpToDate'
      BY <1>0, <1>2, <2>0, <3>1, <3>2, <3>6 DEF SeenIsNow, UpToDate, Reloading
    <3> QED BY <3>4, <3>5, <3>7 DEF ReloadInv
  <2>3. CASE Publish(th)
    <3>1. /\ At(th) = "publish" /\ Goes(th, "idle")
          /\ installed' = seen[th] /\ dictionaries' = Enabled(next[th].dictionaries, seen[th])
          /\ seen' = [seen EXCEPT ![th] = NoFiles] /\ next' = [next EXCEPT ![th] = NoConfig]
          /\ reloadMutex' = Nobody
          /\ UNCHANGED <<disk, file, config, ctl, unread, copy, crashes>>
      BY <2>0, <2>3 DEF Publish
    <3>2. /\ At(th)' = "idle" /\ \A o \in Threads \ {th} : At(o)' = At(o)
          /\ ipc' = [at |-> ipc'.at, sends |-> ipc.sends, call |-> ipc.call]
          /\ importer' = [at |-> importer'.at, job |-> importer'.job]
          /\ ipc'.at \in {ipc.at, "idle"} /\ importer'.at \in {importer.at, "idle"}
      BY <1>0, <3>1, Went
    <3>3. seen' = [o \in Threads |-> seen'[o]] /\ next' = [o \in Threads |-> next'[o]]
      BY <1>0, <3>1 DEF ReloadTypeOK
    <3>4. ReloadTypeOK'
      BY <1>0, <3>1, <3>2, <3>3 DEF ReloadTypeOK, IsConfig, Reloading
    <3>5. \A o \in Threads : At(o)' \notin Reloading
      BY <2>0, <3>2 DEF Reloading
    <3>6. ipc'.at # "store"
      BY <2>0, <3>2
    <3>7. HeldByWorker' /\ ReconciledIsNow' /\ SeenIsNow'
      BY <3>5, <3>6 DEF HeldByWorker, ReconciledIsNow, SeenIsNow, Reloading
    <3>8. UpToDate'
      <4>0. Readable' = Readable
        BY <3>1 DEF Readable, Opened
      <4>1. CASE seen[th] = Readable
        BY <1>0, <3>1, <4>0, <4>1 DEF ReconciledIsNow, UpToDate, Loaded
      <4>2. CASE Due
        BY <1>2, <3>1, <3>2, <4>2, Places DEF Due, UpToDate, Reloading
      <4> QED BY <1>0, <1>2, <4>1, <4>2 DEF SeenIsNow
    <3> QED BY <3>4, <3>7, <3>8 DEF ReloadInv
  <2> QED BY <1>1, <1>2, <2>1, <2>2, <2>3 DEF Reloads
<1> QED BY <1>1, <1>2 DEF Reloads, Reconcile, StoreReconciled, Publish, Reloading

\* applyConfig(), and what lexiglancectl asks for.
LEMMA ConfigSteps ==
  ASSUME ReloadInv, Reload \/ Save \/ SaveFails \/ Store
  PROVE  ReloadInv'
<1>0. ReloadTypeOK /\ HeldByWorker /\ ReconciledIsNow /\ SeenIsNow /\ UpToDate
  BY DEF ReloadInv
<1>1. CASE Reload
  <2>1. ipc' = [at |-> "list", sends |-> ipc.sends, call |-> "reload"] /\ ipc.at = "idle"
        /\ UNCHANGED <<config, reloadMutex, importer, seen, unread, next, installed, dictionaries,
                       file, copy, crashes>>
    BY <1>0, <1>1 DEF Reload, ReloadTypeOK
  <2>2. IsConfig(ipc'.sends) /\ IsConfig(copy') /\ ipc'.at = "list"
        /\ ipc' = [at |-> ipc'.at, sends |-> ipc'.sends, call |-> ipc'.call]
    BY <1>0, <2>1 DEF ReloadTypeOK
  <2> QED BY <2>1, <2>2, Beside DEF Besides
<1>2. CASE SaveFails
  <2>1. ipc' = [at |-> "idle", sends |-> NoConfig, call |-> ipc.call] /\ ipc.at = "save"
        /\ UNCHANGED <<config, reloadMutex, importer, seen, unread, next, installed, dictionaries,
                       file, copy, disk, ctl, crashes>>
    BY <1>0, <1>2 DEF SaveFails, ReloadTypeOK
  <2>2. IsConfig(ipc'.sends) /\ IsConfig(copy') /\ ipc'.at = "idle"
        /\ ipc' = [at |-> ipc'.at, sends |-> ipc'.sends, call |-> ipc'.call]
    BY <1>0, <2>1 DEF ReloadTypeOK, NoConfig, IsConfig
  <2> QED BY <2>1, <2>2, Beside DEF Besides
<1>3. CASE Save
  <2>1. /\ ipc' = [at |-> "store", sends |-> ipc.sends, call |-> ipc.call] /\ ipc.at = "save"
        /\ reloadMutex = Nobody /\ reloadMutex' = "ipc" /\ file' = ipc.sends
        /\ UNCHANGED <<config, importer, seen, unread, next, installed, dictionaries, copy, disk,
                       ctl, crashes>>
    BY <1>0, <1>3 DEF Save, ReloadTypeOK
  <2>2. \A th \in Threads : At(th) \notin Reloading
    BY <1>0, <2>1 DEF HeldByWorker, Threads, Nobody
  <2>3. \A th \in Threads : At(th)' \notin Reloading
    BY <2>1, <2>2, Places DEF Reloading
  <2>4. ReloadTypeOK'
    BY <1>0, <2>1 DEF ReloadTypeOK, IsConfig
  <2>5. HeldByWorker' /\ ReconciledIsNow' /\ SeenIsNow'
    BY <2>1, <2>3 DEF HeldByWorker, ReconciledIsNow, SeenIsNow, Reloading
  <2>6. UpToDate'
    BY <2>1 DEF UpToDate, Due
  <2> QED BY <2>4, <2>5, <2>6 DEF ReloadInv
<1>4. CASE Store
  <2>1. /\ ipc' = [at |-> "list", sends |-> NoConfig, call |-> ipc.call] /\ ipc.at = "store"
        /\ config' = ipc.sends
        /\ UNCHANGED <<file, importer, seen, unread, next, installed, dictionaries, copy, disk, ctl,
                       crashes>>
    BY <1>0, <1>4 DEF Store, ReloadTypeOK
  <2>2. \A th \in Threads : At(th) \notin Reloading
    BY <1>0, <2>1, Places DEF HeldByWorker, Reloading
  <2>3. \A th \in Threads : At(th)' \notin Reloading
    BY <2>1, <2>2, Places DEF Reloading
  <2>4. ReloadTypeOK'
    BY <1>0, <2>1 DEF ReloadTypeOK, IsConfig, NoConfig
  <2>5. HeldByWorker' /\ ReconciledIsNow' /\ SeenIsNow'
    BY <2>1, <2>3 DEF HeldByWorker, ReconciledIsNow, SeenIsNow, Reloading
  <2>6. UpToDate'
    BY <2>1 DEF UpToDate, Due
  <2> QED BY <2>4, <2>5, <2>6 DEF ReloadInv
<1> QED BY <1>1, <1>2, <1>3, <1>4

\* The daemon is killed and started again.
LEMMA CrashStep ==
  ASSUME ReloadInv, Crash
  PROVE  ReloadInv'
<1>0. ReloadTypeOK
  BY DEF ReloadInv
<1>1. /\ ipc' = [at |-> "list", sends |-> NoConfig, call |-> "start"]
      /\ importer' = [at |-> "idle", job |-> NoJob] /\ config' = file
      /\ seen' = [th \in Threads |-> NoFiles] /\ next' = [th \in Threads |-> NoConfig]
      /\ UNCHANGED <<file, copy>> /\ crashes' = crashes + 1
  BY <1>0 DEF Crash, ReloadTypeOK
<1>2. ReloadTypeOK'
  BY <1>0, <1>1 DEF ReloadTypeOK, IsConfig, NoConfig
<1>3. \A th \in Threads : At(th)' \notin Reloading
  BY <1>1, Places DEF Reloading
<1>4. HeldByWorker' /\ ReconciledIsNow' /\ SeenIsNow'
  BY <1>1, <1>3 DEF HeldByWorker, ReconciledIsNow, SeenIsNow, Reloading
<1>5. UpToDate'
  BY <1>1 DEF UpToDate, Due
<1> QED BY <1>2, <1>4, <1>5 DEF ReloadInv

\* Nothing happens.
LEMMA ReloadInvKept ==
  ASSUME ReloadInv, UNCHANGED vars
  PROVE  ReloadInv'
<1>1. UNCHANGED <<config, reloadMutex, importer, seen, unread, next, installed, dictionaries,
                  file, ipc, copy, disk, ctl, crashes>>
  BY DEF vars
<1>2. IsConfig(ipc'.sends) /\ IsConfig(copy')
      /\ ipc' = [at |-> ipc'.at, sends |-> ipc'.sends, call |-> ipc'.call]
  BY <1>1 DEF ReloadInv, ReloadTypeOK
<1> QED BY <1>1, <1>2, Beside DEF Besides

\* Each step keeps what the proofs about reloads need.
LEMMA ReloadInvStep == ReloadInv /\ ListsOK /\ [Next]_vars => ReloadInv'
<1> SUFFICES ASSUME ReloadInv, ListsOK, [Next]_vars PROVE ReloadInv'
  OBVIOUS
<1>1. CASE UNCHANGED vars
  BY <1>1, ReloadInvKept
<1>2. CASE IpcThread
  BY <1>2, ConfigSteps, ReloadSteps DEF IpcThread, Threads
<1>3. CASE ImportThread
  BY <1>3, ImportSteps, ReloadSteps DEF ImportThread, Threads
<1> QED BY <1>1, <1>2, <1>3, ClientSteps, CrashStep DEF Next

\* What dictionaries.sort is about to store.
LEMMA SortSends ==
  ASSUME ReloadTypeOK, ListsOK, Sort
  PROVE  /\ ipc'.at = "save" /\ ipc'.call \in {"sort", "set"}
         /\ ipc'.sends.dictionaries \in Lists
         /\ EntriesOf(ipc'.sends.dictionaries) = EntriesOf(config.dictionaries)
         /\ ipc'.call = "sort" => InOrder(ipc'.sends.dictionaries)
<1> DEFINE list     == config.dictionaries
           profiles == Profiled(list)
           order    == SmartOrder(profiles)
           sorted   == [k \in DOMAIN order |-> list[order[k]]]
<1>1. /\ list \in Lists /\ list \in Seq(Entries) /\ DOMAIN list = 1 .. Len(list)
      /\ Len(list) \in Nat
  BY DEF ListsOK, Lists
<1>2. \A i \in DOMAIN list : list[i].title \in Titles
  <2> TAKE i \in DOMAIN list
  <2>1. list[i] \in Entries
    BY <1>1
  <2> QED BY <2>1 DEF Entries
<1>3. /\ profiles \in Seq(Profile) /\ DOMAIN profiles = DOMAIN list
      /\ \A i \in DOMAIN list :
           installed[list[i].title] # 0 => profiles[i] = ProfileOf[list[i].title]
  <2>1. /\ DOMAIN profiles = DOMAIN list
        /\ \A i \in DOMAIN list :
             /\ profiles[i] \in Profile
             /\ installed[list[i].title] # 0 => profiles[i] = ProfileOf[list[i].title]
    BY <1>2, ProfileAssumption, UnknownIsProfile DEF Profiled
  <2>2. profiles \in [1 .. Len(list) -> Profile]
    BY <1>1, <2>1 DEF Profiled
  <2> HIDE DEF profiles
  <2> QED BY <1>1, <2>1, <2>2
<1>4. /\ ipc'.at = "save" /\ ipc'.sends.dictionaries = sorted
      /\ ipc'.call = IF TitlesOf(list) \subseteq Present(installed) THEN "sort" ELSE "set"
  <2>1. config = [setting |-> config.setting, dictionaries |-> config.dictionaries]
    BY DEF ReloadTypeOK, IsConfig
  <2>2. [config EXCEPT !.dictionaries = sorted]
          = [setting |-> config.setting, dictionaries |-> sorted]
    BY <2>1
  <2>3. ipc' = [at    |-> "save",
                sends |-> [config EXCEPT !.dictionaries = sorted],
                call  |-> IF TitlesOf(list) \subseteq Present(installed) THEN "sort" ELSE "set"]
    BY DEF Sort
  <2> HIDE DEF sorted, list
  <2> QED BY <2>2, <2>3
<1> HIDE DEF profiles, list
<1>5. /\ order \in [DOMAIN list -> DOMAIN list] /\ DOMAIN order = DOMAIN list
      /\ \A i \in DOMAIN list : \E k \in DOMAIN list : order[k] = i
      /\ \A k, l \in DOMAIN list : order[k] = order[l] => k = l
      /\ \A k, l \in DOMAIN list : k < l => ~Before(profiles[order[l]], profiles[order[k]])
  BY <1>3, SmartOrderSorts
<1> HIDE DEF order
<1>6. sorted = [k \in DOMAIN list |-> list[order[k]]]
  BY <1>5
<1>7. sorted \in Lists /\ EntriesOf(sorted) = EntriesOf(list) /\ DOMAIN sorted = DOMAIN list
  <2> DEFINE w == [k \in DOMAIN list |-> list[order[k]]]
  <2>1. /\ list \in Lists /\ order \in [DOMAIN list -> DOMAIN list]
        /\ \A i \in DOMAIN list : \E k \in DOMAIN list : order[k] = i
        /\ \A k, l \in DOMAIN list : order[k] = order[l] => k = l
    BY <1>1, <1>5
  <2>2. w \in Lists /\ EntriesOf(w) = EntriesOf(list) /\ DOMAIN w = DOMAIN list
    BY ONLY <2>1, OrderedList
  <2> QED BY <1>6, <2>2
<1>8. ASSUME TitlesOf(list) \subseteq Present(installed) PROVE InOrder(sorted)
  <2>1. \A i \in DOMAIN list : profiles[i] = ProfileOf[list[i].title]
    BY <1>3, <1>8 DEF TitlesOf, Present
  <2>2. \A k \in DOMAIN list : order[k] \in DOMAIN list /\ sorted[k] = list[order[k]]
    BY <1>5, <1>6
  <2> HIDE DEF sorted
  <2> QED BY <1>5, <1>7, <2>1, <2>2 DEF InOrder
<1> QED BY <1>4, <1>7, <1>8 DEF list

\* What the settings application sends is its copy with one thing changed.
LEMMA EditsAreLists ==
  ASSUME NEW c, IsConfig(c), c.dictionaries \in Lists, NEW edit \in Edits(c)
  PROVE  edit.dictionaries \in Lists
<1>1. CASE edit = [c EXCEPT !.setting = ~@]
  BY <1>1 DEF IsConfig
<1>2. CASE \E i \in DOMAIN c.dictionaries : edit = [c EXCEPT !.dictionaries = Flipped(@, i)]
  <2>1. PICK i \in DOMAIN c.dictionaries : edit = [c EXCEPT !.dictionaries = Flipped(@, i)]
    BY <1>2
  <2>2. edit.dictionaries = Flipped(c.dictionaries, i)
    BY <2>1 DEF IsConfig
  <2> QED BY <2>2, FlippedList
<1> QED BY <1>1, <1>2 DEF Edits

\* The part of the calls that clients made: of what they change, every list is a list.
LEMMA ListsStep == ReloadTypeOK /\ ListsOK /\ [Next]_vars => ListsOK'
<1> SUFFICES ASSUME ReloadTypeOK, ListsOK, [Next]_vars PROVE ListsOK'
  OBVIOUS
<1>e. NoConfig.dictionaries \in Lists
  BY EmptyList DEF NoConfig
<1>1. CASE \/ UNCHANGED <<config, file, copy, next>>
              /\ ipc'.sends \in {ipc.sends, NoConfig}
  BY <1>1, <1>e DEF ListsOK
<1>2. CASE GetConfig
  BY <1>2 DEF GetConfig, ListsOK
<1>3. CASE SetConfig
  <2>1. PICK edit \in Edits(copy) : ipc' = [at |-> "save", sends |-> edit, call |-> "set"]
    BY <1>3 DEF SetConfig
  <2>2. edit.dictionaries \in Lists
    BY EditsAreLists DEF ListsOK, ReloadTypeOK
  <2>3. ipc'.sends.dictionaries \in Lists /\ UNCHANGED <<config, file, copy, next>>
    BY <1>3, <2>1, <2>2 DEF SetConfig
  <2> QED BY <2>3 DEF ListsOK
<1>4. CASE Pause
  <2>1. ipc'.sends = [config EXCEPT !.setting = ~@] /\ UNCHANGED <<config, file, copy, next>>
    BY <1>4 DEF Pause
  <2>2. ipc'.sends.dictionaries = config.dictionaries
    BY <2>1 DEF ReloadTypeOK, IsConfig
  <2> QED BY <2>1, <2>2 DEF ListsOK
<1>5. CASE Sort
  <2>1. UNCHANGED <<config, file, copy, next>>
    BY <1>5 DEF Sort
  <2> QED BY <1>5, <2>1, SortSends DEF ListsOK
<1>6. CASE QueueImport \/ RemoveDictionary \/ Ctl \/ Reload \/ SaveFails
  <2>1. UNCHANGED <<config, file, copy, next>> /\ ipc'.sends \in {ipc.sends, NoConfig}
    BY <1>6 DEF QueueImport, RemoveDictionary, Ctl, CtlStarts, CtlInstalls, CtlFails, CtlRemoves,
                Reload, SaveFails, ReloadTypeOK
  <2> QED BY <1>1, <2>1
<1>7. CASE TakeImport \/ ImportFails \/ MoveAside \/ ImportDone \/ RemoveReplaced
  <2>1. UNCHANGED <<config, file, copy, next, ipc>>
    BY <1>7 DEF TakeImport, ImportFails, MoveAside, ImportDone, RemoveReplaced
  <2> QED BY <1>1, <2>1
<1>8. CASE Save
  <2>1. /\ file' = ipc.sends /\ UNCHANGED <<config, copy, next>> /\ ipc'.sends = ipc.sends
    BY <1>8 DEF Save, ReloadTypeOK
  <2> QED BY <2>1 DEF ListsOK
<1>9. CASE Store
  <2>1. config' = ipc.sends /\ UNCHANGED <<file, copy, next>> /\ ipc'.sends = NoConfig
    BY <1>9 DEF Store, ReloadTypeOK
  <2> QED BY <1>e, <2>1 DEF ListsOK
<1>10. ASSUME NEW th \in Threads, Reloads(th) PROVE ListsOK'
  <2>g. ASSUME NEW place, Goes(th, place) PROVE ipc'.sends = ipc.sends
    BY <2>g, Went
  <2>1. CASE List(th)
    <3>1. UNCHANGED <<config, file, copy, next>> /\ ipc'.sends = ipc.sends
      BY <2>1, <2>g DEF List
    <3> QED BY <1>1, <3>1
  <2>2. CASE Reconcile(th)
    <3> DEFINE reconciled == [config EXCEPT !.dictionaries = Reconciled(@, seen[th])]
    <3>1. reconciled.dictionaries \in Lists
      <4>1. Reconciled(config.dictionaries, seen[th]) \in Lists
        BY ReconciledList DEF ListsOK
      <4> QED BY <4>1 DEF ReloadTypeOK, IsConfig
    <3>2. /\ next' = [next EXCEPT ![th] = reconciled] /\ file' \in {file, reconciled}
          /\ UNCHANGED <<config, copy>> /\ ipc'.sends = ipc.sends
      BY <2>2, <2>g DEF Reconcile
    <3> HIDE DEF reconciled
    <3>3. \A o \in Threads : next'[o] \in {next[o], reconciled}
      BY <3>2 DEF ReloadTypeOK
    <3> QED BY <3>1, <3>2, <3>3 DEF ListsOK
  <2>3. CASE StoreReconciled(th)
    <3>1. config' = next[th] /\ UNCHANGED <<file, copy, next>> /\ ipc'.sends = ipc.sends
      BY <2>3, <2>g DEF StoreReconciled
    <3> QED BY <3>1 DEF ListsOK
  <2>4. CASE Publish(th)
    <3>1. /\ next' = [next EXCEPT ![th] = NoConfig] /\ UNCHANGED <<config, file, copy>>
          /\ ipc'.sends = ipc.sends
      BY <2>4, <2>g DEF Publish
    <3>2. \A o \in Threads : next'[o] \in {next[o], NoConfig}
      BY <3>1 DEF ReloadTypeOK
    <3> QED BY <1>e, <3>1, <3>2 DEF ListsOK
  <2> QED BY <1>10, <2>1, <2>2, <2>3, <2>4 DEF Reloads
<1>11. CASE Crash
  <2>1. /\ config' = file /\ UNCHANGED <<file, copy>> /\ ipc'.sends = NoConfig
        /\ next' = [th \in Threads |-> NoConfig]
    BY <1>11 DEF Crash, ReloadTypeOK
  <2> QED BY <1>e, <2>1 DEF ListsOK
<1>12. CASE UNCHANGED vars
  BY <1>12 DEF vars, ListsOK
<1> QED BY <1>2, <1>3, <1>4, <1>5, <1>6, <1>7, <1>8, <1>9, <1>10, <1>11, <1>12
        DEF Next, Clients, IpcThread, ImportThread, Threads

ConfigInv == ReloadInv /\ ListsOK

\* The invariant of the configuration and its reloads.
LEMMA ConfigInvHolds == Spec => []ConfigInv
<1>1. Init => ConfigInv
  BY ReloadInvInit, ListsInit DEF ConfigInv
<1>2. ConfigInv /\ [Next]_vars => ConfigInv'
  BY ReloadInvStep, ListsStep DEF ConfigInv, ReloadInv
<1> QED BY <1>1, <1>2, PTL DEF Spec

\* A reload never stores an older copy of the configuration over what a client set: it only
\* changes the list of the configuration there is.
THEOREM SettingIsKept == Spec => SettingKept
<1>1. Spec => []ConfigInv
  BY ConfigInvHolds
<1>2. ConfigInv => ReloadInv
  BY DEF ConfigInv
<1>3. ReloadInv /\ [Next]_vars =>
        [config'.setting # config.setting => ipc.at = "store" \/ crashes' # crashes]_vars
  <2> SUFFICES ASSUME ReloadInv, Next, config'.setting # config.setting,
                      ipc.at # "store"
               PROVE  crashes' # crashes
    OBVIOUS
  <2>1. ~Clients /\ ~Ctl /\ ~Reload /\ ~Save /\ ~SaveFails /\ ~Store
    BY DEF Clients, GetConfig, SetConfig, Pause, Sort, QueueImport, RemoveDictionary, Ctl,
           CtlStarts, CtlInstalls, CtlFails, CtlRemoves, Reload, Save, SaveFails, Store
  <2>2. ~TakeImport /\ ~ImportFails /\ ~MoveAside /\ ~ImportDone /\ ~RemoveReplaced
    BY DEF TakeImport, ImportFails, MoveAside, ImportDone, RemoveReplaced, Install, Deleted
  <2>3. ASSUME NEW th \in Threads PROVE ~Reloads(th)
    BY DEF Reloads, List, Reconcile, StoreReconciled, Publish, ReloadInv, ReconciledIsNow
  <2>4. Crash
    BY <2>1, <2>2, <2>3 DEF Next, IpcThread, ImportThread, Threads
  <2> QED BY <2>4 DEF Crash, ReloadInv, ReloadTypeOK
<1> QED BY <1>1, <1>2, <1>3, PTL DEF Spec, SettingKept

\* In the end lookups go through the newest versions of the dictionaries there are that the list
\* of the configuration enables, and the list holds each of them once, whatever clients, imports
\* and lexiglancectl did in whatever order: a change of the disk that a reload did not see is
\* always followed by another reload.  Those the last reload could not read are not among them.
THEOREM EndsUpToDate == Spec => []DictionariesUpToDate
<1>1. Spec => []ConfigInv
  BY ConfigInvHolds
<1>2. ConfigInv => DictionariesUpToDate
  <2> SUFFICES ASSUME ConfigInv, AtRest
               PROVE  /\ installed = Readable
                      /\ TitlesOf(config.dictionaries) = Present(Readable)
                      /\ Len(config.dictionaries) = Cardinality(Present(Readable))
                      /\ dictionaries = Enabled(config.dictionaries, Readable)
    BY DEF DictionariesUpToDate
  <2>1. Loaded
    BY Places DEF ConfigInv, ReloadInv, UpToDate, Due, AtRest, Reloading
  <2>2. Len(config.dictionaries) = Cardinality(TitlesOf(config.dictionaries))
    BY ListCounts DEF ConfigInv, ListsOK
  <2> QED BY <2>1, <2>2 DEF Loaded
<1> QED BY <1>1, <1>2, PTL

-----------------------------------------------------------------------------
(* What a client turned off stays off.                                     *)

\* What is turned off is installed, is off in the list, and will be off in every list that is
\* about to be stored, but for one that a client sends, and for what a reload could not read.
StaysOff ==
  /\ disk = [t \in Titles |-> disk[t]] /\ made \in Nat
  /\ disabled \subseteq Present(disk)
  /\ disabled \subseteq OffIn(config.dictionaries)
  /\ \A th \in Threads :
       /\ At(th) \in Reloading => disabled \ unread.titles \subseteq Present(seen[th])
       /\ At(th) = "restore" => disabled \ unread.titles \subseteq OffIn(next[th].dictionaries)
  /\ ipc.at \in {"save", "store"} /\ ipc.call # "set" =>
       disabled \subseteq OffIn(ipc.sends.dictionaries)

\* At the start what is disabled is off in each list there is.
LEMMA StaysOffInit == Init => StaysOff
BY DEF Init, StaysOff, At, Reloading, Threads

\* A file is made, or removed.
LEMMA FileMade ==
  ASSUME StaysOff, NEW t, Install(t)
  PROVE  /\ disk' = [x \in Titles |-> disk'[x]] /\ made' \in Nat
         /\ Present(disk) \subseteq Present(disk')
<1>1. /\ disk = [x \in Titles |-> disk[x]] /\ made \in Nat /\ made' = made + 1
      /\ disk' = [disk EXCEPT ![t] = made + 1]
  BY DEF StaysOff, Install
<1>2. disk' = [x \in Titles |-> disk'[x]] /\ \A x \in Titles : disk'[x] \in {disk[x], made + 1}
  BY <1>1
<1>3. made' \in Nat /\ made + 1 # 0
  BY <1>1
<1> QED BY <1>2, <1>3 DEF Present

\* With a file what was disabled of it is forgotten, and nothing else.
LEMMA FileRemoved ==
  ASSUME StaysOff, NEW t, Deleted(t)
  PROVE  /\ disk' = [x \in Titles |-> disk'[x]]
         /\ disabled' \subseteq disabled /\ disabled' \subseteq Present(disk')
<1>1. /\ disk = [x \in Titles |-> disk[x]] /\ disk' = [disk EXCEPT ![t] = 0]
      /\ disabled' = disabled \ {t} /\ disabled \subseteq Present(disk)
  BY DEF StaysOff, Deleted
<1>2. disk' = [x \in Titles |-> disk'[x]] /\ \A x \in Titles : x # t => disk'[x] = disk[x]
  BY <1>1
<1> QED BY <1>1, <1>2 DEF Present

\* A step of others than a reload, that stores no configuration.
BesidesReload ==
  /\ UNCHANGED <<config, seen, unread, next>>
  /\ disk' = [t \in Titles |-> disk'[t]] /\ made' \in Nat
  /\ disabled' \subseteq disabled /\ disabled' \subseteq Present(disk')
  /\ \A th \in Threads : At(th)' \in Reloading => At(th)' = At(th)
  /\ ipc'.at \in {"save", "store"} /\ ipc'.call # "set" =>
       disabled' \subseteq OffIn(ipc'.sends.dictionaries)

\* A step that changes no list, no file and nothing that is disabled.
LEMMA OffBeside ==
  ASSUME StaysOff, BesidesReload
  PROVE  StaysOff'
<1>1. disabled' \subseteq OffIn(config'.dictionaries)
  BY DEF StaysOff, BesidesReload
<1>2. ASSUME NEW th \in Threads, At(th)' \in Reloading
      PROVE  /\ disabled' \ unread'.titles \subseteq Present(seen'[th])
             /\ At(th)' = "restore" =>
                  disabled' \ unread'.titles \subseteq OffIn(next'[th].dictionaries)
  <2>1. /\ At(th) = At(th)' /\ seen' = seen /\ next' = next /\ unread' = unread
        /\ disabled' \subseteq disabled
    BY <1>2 DEF BesidesReload
  <2> QED BY <1>2, <2>1 DEF StaysOff
<1>3. "restore" \in Reloading
  BY DEF Reloading
<1> QED BY <1>1, <1>2, <1>3 DEF BesidesReload, StaysOff

\* Clients and lexiglancectl: what they turn off is disabled from their call on.
LEMMA OffClients ==
  ASSUME ReloadTypeOK, ListsOK, StaysOff, Clients \/ Ctl
  PROVE  StaysOff'
<1>0. disk = [t \in Titles |-> disk[t]] /\ made \in Nat /\ disabled \subseteq Present(disk)
  BY DEF StaysOff
<1>p. At("ipc") = ipc.at /\ At("ipc")' = ipc'.at /\ At("importer") = importer.at
      /\ At("importer")' = importer'.at /\ Threads = {"ipc", "importer"}
  BY Places
<1>1. CASE GetConfig \/ QueueImport
  <2>1. UNCHANGED <<config, seen, unread, next, disk, made, disabled, ipc, importer>>
    BY <1>1 DEF GetConfig, QueueImport
  <2> QED BY <1>0, <1>p, <2>1, OffBeside DEF BesidesReload, StaysOff
<1>2. CASE SetConfig
  <2>1. /\ UNCHANGED <<config, seen, unread, next, disk, made, disabled, importer>>
        /\ ipc'.at = "save" /\ ipc'.call = "set"
    BY <1>2 DEF SetConfig
  <2> QED BY <1>0, <1>p, <2>1, OffBeside DEF BesidesReload, Reloading
<1>3. CASE Pause
  <2>1. /\ UNCHANGED <<config, seen, unread, next, disk, made, disabled, importer>>
        /\ ipc'.at = "save" /\ ipc'.sends = [config EXCEPT !.setting = ~@]
    BY <1>3 DEF Pause
  <2>2. ipc'.sends.dictionaries = config.dictionaries
    BY <2>1 DEF ReloadTypeOK, IsConfig
  <2> QED BY <1>0, <1>p, <2>1, <2>2, OffBeside DEF BesidesReload, Reloading, StaysOff
<1>4. CASE Sort
  <2>1. UNCHANGED <<config, seen, unread, next, disk, made, disabled, importer>>
    BY <1>4 DEF Sort
  <2>2. /\ ipc'.at = "save" /\ ipc'.sends.dictionaries \in Lists
        /\ EntriesOf(ipc'.sends.dictionaries) = EntriesOf(config.dictionaries)
    BY <1>4, SortSends
  <2>3. OffIn(ipc'.sends.dictionaries) = OffIn(config.dictionaries)
    BY <2>2, TitlesOfEntries DEF ListsOK
  <2> QED BY <1>0, <1>p, <2>1, <2>2, <2>3, OffBeside DEF BesidesReload, Reloading, StaysOff
<1>5. CASE RemoveDictionary
  <2>1. /\ UNCHANGED <<config, seen, unread, next, made, importer>> /\ ipc'.at = "list"
    BY <1>5 DEF RemoveDictionary, ReloadTypeOK
  <2>2. PICK t \in Titles : Deleted(t)
    BY <1>5 DEF RemoveDictionary
  <2>3. /\ disk' = [x \in Titles |-> disk'[x]]
        /\ disabled' \subseteq disabled /\ disabled' \subseteq Present(disk')
    BY <2>2, FileRemoved
  <2> QED BY <1>0, <1>p, <2>1, <2>3, OffBeside DEF BesidesReload, Reloading
<1>6. CASE Ctl
  <2>1. UNCHANGED <<config, seen, unread, next, importer, ipc>>
    BY <1>6 DEF Ctl, CtlStarts, CtlInstalls, CtlFails, CtlRemoves
  <2>2. /\ disk' = [x \in Titles |-> disk'[x]] /\ made' \in Nat
        /\ disabled' \subseteq disabled /\ disabled' \subseteq Present(disk')
    <3>1. CASE CtlStarts \/ CtlFails
      BY <1>0, <3>1 DEF CtlStarts, CtlFails
    <3>2. CASE CtlInstalls
      <4>1. Install(ctl.title) /\ disabled' = disabled
        BY <3>2 DEF CtlInstalls
      <4> QED BY <1>0, <4>1, FileMade
    <3>3. CASE CtlRemoves
      <4>1. made' = made /\ \E t \in Titles : Deleted(t)
        BY <3>3 DEF CtlRemoves
      <4> QED BY <1>0, <4>1, FileRemoved
    <3> QED BY <1>6, <3>1, <3>2, <3>3 DEF Ctl
  <2> QED BY <1>p, <2>1, <2>2, OffBeside DEF BesidesReload, StaysOff
<1> QED BY <1>1, <1>2, <1>3, <1>4, <1>5, <1>6 DEF Clients

\* Nothing is moved aside: a file that is there is replaced in one step.
LEMMA OffImports ==
  ASSUME AtomicReplace, ReloadTypeOK, StaysOff,
         TakeImport \/ ImportFails \/ MoveAside \/ ImportDone \/ RemoveReplaced
  PROVE  StaysOff'
<1>0. disk = [t \in Titles |-> disk[t]] /\ made \in Nat /\ disabled \subseteq Present(disk)
  BY DEF StaysOff
<1>p. At("ipc") = ipc.at /\ At("ipc")' = ipc'.at /\ At("importer") = importer.at
      /\ At("importer")' = importer'.at /\ Threads = {"ipc", "importer"}
  BY Places
<1>1. /\ UNCHANGED <<config, seen, unread, next, ipc>>
      /\ importer'.at \in {"compile", "replaces", "list"}
  BY DEF TakeImport, ImportFails, MoveAside, ImportDone, RemoveReplaced, AfterInstall, ReloadTypeOK
<1>2. /\ disk' = [x \in Titles |-> disk'[x]] /\ made' \in Nat
      /\ disabled' \subseteq disabled /\ disabled' \subseteq Present(disk')
  <2>1. CASE TakeImport \/ ImportFails
    BY <1>0, <2>1 DEF TakeImport, ImportFails
  <2>2. CASE MoveAside
    BY <2>2 DEF MoveAside
  <2>3. CASE ImportDone
    <3>1. Install(importer.job.title) /\ disabled' = disabled
      BY <2>3 DEF ImportDone
    <3> QED BY <1>0, <3>1, FileMade
  <2>4. CASE RemoveReplaced
    <3>1. made' = made /\ (Deleted(importer.job.replaces) \/ UNCHANGED <<disk, disabled>>)
      BY <2>4 DEF RemoveReplaced
    <3> QED BY <1>0, <3>1, FileRemoved
  <2> QED BY <2>1, <2>2, <2>3, <2>4
<1> QED BY <1>p, <1>1, <1>2, OffBeside DEF BesidesReload, StaysOff, Reloading

\* A reload reads, reconciles and publishes lists in which what is disabled is off.
LEMMA OffReloads ==
  ASSUME ReloadInv, ListsOK, StaysOff, NEW th \in Threads, Reloads(th)
  PROVE  StaysOff'
<1>0. ReloadTypeOK /\ HeldByWorker /\ ReconciledIsNow
  BY DEF ReloadInv
<1>1. UNCHANGED <<disk, made>> /\ disabled' \subseteq disabled
  BY DEF Reloads, List, Reconcile, StoreReconciled, Publish
<1>2. PICK place : /\ Goes(th, place)
                   /\ List(th) => place = "reconcile"
                   /\ Reconcile(th) => place \in {"publish", "restore"}
                   /\ StoreReconciled(th) => place = "publish"
                   /\ Publish(th) => place = "idle"
  <2>1. CASE List(th)
    BY <2>1 DEF List, Reconcile, StoreReconciled, Publish
  <2>2. CASE Reconcile(th)
    BY <2>2 DEF List, Reconcile, StoreReconciled, Publish
  <2>3. CASE StoreReconciled(th)
    BY <2>3 DEF List, Reconcile, StoreReconciled, Publish
  <2>4. CASE Publish(th)
    BY <2>4 DEF List, Reconcile, StoreReconciled, Publish
  <2> QED BY <2>1, <2>2, <2>3, <2>4 DEF Reloads
<1>3. /\ At(th)' = place /\ \A o \in Threads \ {th} : At(o)' = At(o)
      /\ ipc'.sends = ipc.sends /\ ipc'.call = ipc.call /\ ipc'.at \in {ipc.at, place}
  <2>1. /\ At(th)' = place /\ \A o \in Threads \ {th} : At(o)' = At(o)
        /\ ipc' = [at |-> ipc'.at, sends |-> ipc.sends, call |-> ipc.call]
        /\ ipc'.at \in {ipc.at, place}
    BY <1>0, <1>2, Went
  <2> QED BY <2>1
<1>4. place \notin {"save", "store"}
  BY <1>2 DEF Reloads
<1>5. ipc'.at \in {"save", "store"} /\ ipc'.call # "set" =>
        disabled' \subseteq OffIn(ipc'.sends.dictionaries)
  BY <1>1, <1>3, <1>4 DEF StaysOff
<1>6. disk' = [t \in Titles |-> disk'[t]] /\ made' \in Nat /\ disabled' \subseteq Present(disk')
  BY <1>1 DEF StaysOff
<1>7. ASSUME NEW o \in Threads \ {th}
      PROVE  /\ At(o)' \in Reloading => disabled' \ unread'.titles \subseteq Present(seen'[o])
             /\ At(o)' = "restore" =>
                  disabled' \ unread'.titles \subseteq OffIn(next'[o].dictionaries)
  <2>1. At(o)' \notin Reloading
    <3>1. At(th) \in Reloading \/ reloadMutex = Nobody
      BY DEF Reloads, List, Reconcile, StoreReconciled, Publish, Reloading
    <3>2. At(o) \notin Reloading
      BY <1>0, <3>1 DEF HeldByWorker, Threads, Nobody
    <3> QED BY <1>3, <3>2
  <2> QED BY <2>1 DEF Reloading
<1>8. CASE List(th)
  <2>1. LoadAll(th) /\ UNCHANGED <<config, next>>
    BY <1>8 DEF List
  <2>2. seen'[th] = Readable'
    BY <1>0, <1>1, <2>1, Loading
  <2>3. disabled' \subseteq OffIn(config'.dictionaries)
    BY <1>1, <2>1 DEF StaysOff
  <2>4. At(th)' # "restore"
    BY <1>2, <1>3, <1>8
  <2>5. disabled' \ unread'.titles \subseteq Present(seen'[th])
    BY <1>6, <2>2 DEF Present, Readable, Opened
  <2> QED BY <1>5, <1>6, <1>7, <2>3, <2>4, <2>5 DEF StaysOff
<1>9. CASE Reconcile(th)
  <2> DEFINE reconciled == [config EXCEPT !.dictionaries = Reconciled(@, seen[th])]
  <2>1. next' = [next EXCEPT ![th] = reconciled] /\ UNCHANGED <<config, seen, unread, disabled>>
        /\ At(th) = "reconcile"
    BY <1>9 DEF Reconcile
  <2>2. reconciled.dictionaries = Reconciled(config.dictionaries, seen[th])
    BY <1>0 DEF ReloadTypeOK, IsConfig
  <2> HIDE DEF reconciled
  <2>3. next'[th] = reconciled
    BY <1>0, <2>1 DEF ReloadTypeOK
  <2>4. /\ disabled \ unread.titles \subseteq Present(seen[th])
        /\ disabled \subseteq OffIn(config.dictionaries)
    BY <2>1 DEF StaysOff, Reloading
  <2>5. OffIn(reconciled.dictionaries) = OffIn(config.dictionaries) \cap Present(seen[th])
    BY <2>2, ReconciledList DEF ListsOK
  <2>6. /\ disabled' \ unread'.titles \subseteq OffIn(next'[th].dictionaries)
        /\ disabled' \ unread'.titles \subseteq Present(seen'[th])
        /\ disabled' \subseteq OffIn(config'.dictionaries)
    BY <2>1, <2>3, <2>4, <2>5
  <2> QED BY <1>5, <1>6, <1>7, <2>6 DEF StaysOff
<1>10. CASE StoreReconciled(th)
  <2>1. /\ At(th) = "restore" /\ config' = next[th] /\ UNCHANGED <<seen, unread, next>>
        /\ disabled' = disabled \ unread.titles
    BY <1>10 DEF StoreReconciled
  <2>2. /\ disabled \ unread.titles \subseteq Present(seen[th])
        /\ disabled \ unread.titles \subseteq OffIn(next[th].dictionaries)
    BY <2>1 DEF StaysOff, Reloading
  <2>3. /\ disabled' \subseteq OffIn(config'.dictionaries)
        /\ disabled' \ unread'.titles \subseteq Present(seen'[th])
    BY <2>1, <2>2
  <2>4. At(th)' # "restore"
    BY <1>2, <1>3, <1>10
  <2> QED BY <1>5, <1>6, <1>7, <2>3, <2>4 DEF StaysOff
<1>11. CASE Publish(th)
  <2>1. config' = config
    BY <1>11 DEF Publish
  <2>2. disabled' \subseteq OffIn(config'.dictionaries)
    BY <1>1, <2>1 DEF StaysOff
  <2>3. At(th)' \notin Reloading /\ At(th)' # "restore"
    BY <1>2, <1>3, <1>11 DEF Reloading
  <2> QED BY <1>5, <1>6, <1>7, <2>2, <2>3 DEF StaysOff
<1> QED BY <1>8, <1>9, <1>10, <1>11 DEF Reloads

\* What is stored is the list that is sent or reconciled, and the last one is read at a start.
LEMMA OffConfig ==
  ASSUME ReloadInv, StaysOff, Reload \/ Save \/ SaveFails \/ Store \/ Crash
  PROVE  StaysOff'
<1>0. ReloadTypeOK /\ HeldByWorker
  BY DEF ReloadInv
<1>d. disk = [t \in Titles |-> disk[t]] /\ made \in Nat /\ disabled \subseteq Present(disk)
  BY DEF StaysOff
<1>p. At("ipc") = ipc.at /\ At("ipc")' = ipc'.at /\ At("importer") = importer.at
      /\ At("importer")' = importer'.at /\ Threads = {"ipc", "importer"}
  BY Places
<1>1. CASE Reload \/ SaveFails
  <2>1. UNCHANGED <<config, seen, unread, next, disk, made, disabled, importer>>
        /\ ipc'.at \in {"list", "idle"}
    BY <1>0, <1>1 DEF Reload, SaveFails, ReloadTypeOK
  <2> QED BY <1>d, <1>p, <2>1, OffBeside DEF BesidesReload, Reloading
<1>2. CASE Save
  <2>1. /\ UNCHANGED <<config, seen, unread, next, disk, made, disabled, importer>>
        /\ ipc.at = "save" /\ ipc'.at = "store" /\ ipc'.call = ipc.call /\ ipc'.sends = ipc.sends
    BY <1>0, <1>2 DEF Save, ReloadTypeOK
  <2> QED BY <1>d, <1>p, <2>1, OffBeside DEF BesidesReload, Reloading, StaysOff
<1>3. CASE Store
  <2>1. /\ UNCHANGED <<seen, unread, next, disk, made, importer>> /\ ipc.at = "store"
        /\ ipc'.at = "list" /\ config' = ipc.sends
    BY <1>0, <1>3 DEF Store, ReloadTypeOK
  <2>2. \/ /\ ipc.call = "set"
           /\ disabled' = OffIn(ipc.sends.dictionaries) \cap Present(disk)
        \/ ipc.call # "set" /\ disabled' = disabled
    BY <1>3 DEF Store
  <2>3. \A th \in Threads : At(th)' \notin Reloading
    BY <1>0, <1>p, <2>1 DEF HeldByWorker, Reloading
  <2>4. disabled' \subseteq OffIn(config'.dictionaries) /\ disabled' \subseteq Present(disk')
    BY <1>d, <2>1, <2>2 DEF StaysOff
  <2>5. "restore" \in Reloading
    BY DEF Reloading
  <2> QED BY <1>d, <2>1, <2>3, <2>4, <2>5 DEF StaysOff
<1>4. CASE Crash
  <2>1. /\ UNCHANGED <<disk, made>> /\ ipc'.at = "list" /\ importer'.at = "idle"
        /\ config' = file /\ disabled' = disabled \cap OffIn(file.dictionaries)
    BY <1>0, <1>4 DEF Crash, ReloadTypeOK
  <2>2. \A th \in Threads : At(th)' \notin Reloading
    BY <1>p, <2>1 DEF Reloading
  <2>3. "restore" \in Reloading
    BY DEF Reloading
  <2> QED BY <1>d, <2>1, <2>2, <2>3 DEF StaysOff
<1> QED BY <1>1, <1>2, <1>3, <1>4

\* Where a file is replaced in one step, a dictionary that a client disabled stays disabled as
\* long as it is installed and each reload can read it, also when it is updated: no reload sees
\* a moment without it, and none stores a list from before it was disabled.
THEOREM DisabledRemains ==
  ASSUME AtomicReplace
  PROVE  Spec => []DisabledStays
<1>1. Spec => []ConfigInv
  BY ConfigInvHolds
<1>2. Init => StaysOff
  BY StaysOffInit
<1>3. ConfigInv /\ StaysOff /\ [Next]_vars => StaysOff'
  <2> SUFFICES ASSUME ConfigInv, StaysOff, [Next]_vars PROVE StaysOff'
    OBVIOUS
  <2>0. ReloadInv /\ ReloadTypeOK /\ ListsOK
    BY DEF ConfigInv, ReloadInv
  <2>1. CASE UNCHANGED vars
    BY <2>1 DEF vars, StaysOff, At
  <2>2. CASE IpcThread
    BY <2>0, <2>2, OffConfig, OffReloads DEF IpcThread, Threads
  <2>3. CASE ImportThread
    BY <2>0, <2>3, OffImports, OffReloads DEF ImportThread, Threads
  <2> QED BY <2>0, <2>1, <2>2, <2>3, OffClients, OffConfig DEF Next
<1>4. ConfigInv /\ StaysOff => DisabledStays
  <2> SUFFICES ASSUME ConfigInv, StaysOff, NEW i \in DOMAIN config.dictionaries,
                      config.dictionaries[i].title \in disabled
               PROVE  ~config.dictionaries[i].enabled
    BY DEF DisabledStays
  <2>1. PICK j \in DOMAIN config.dictionaries :
          /\ ~config.dictionaries[j].enabled
          /\ config.dictionaries[j].title = config.dictionaries[i].title
    BY DEF StaysOff, OffIn
  <2>2. i = j
    BY <2>1 DEF ConfigInv, ListsOK, Lists, OnceEach
  <2> QED BY <2>1, <2>2
<1> QED BY <1>1, <1>2, <1>3, <1>4, PTL DEF Spec

-----------------------------------------------------------------------------
(* The smart order is kept.                                                *)

\* A list said to be in its smart order is, and so is every list about to be stored that will
\* be said to be.
StaysSorted ==
  /\ smart => InOrder(config.dictionaries)
  /\ \A th \in Threads : smart /\ At(th) = "restore" => InOrder(next[th].dictionaries)
  /\ ipc.at \in {"save", "store"} =>
       /\ ipc.call = "sort" => InOrder(ipc.sends.dictionaries)
       /\ ipc.call = "pause" /\ smart => InOrder(ipc.sends.dictionaries)

\* At the start no list is claimed to be in order that is not.
LEMMA StaysSortedInit == Init => StaysSorted
<1> SUFFICES ASSUME Init PROVE StaysSorted
  OBVIOUS
<1>1. InOrder(Reconciled(<<>>, disk))
  BY EmptyList, ReconciledList
<1> QED BY <1>1 DEF Init, StaysSorted, At, Threads

\* A step that neither stores a list nor makes one.
LEMMA SortedBeside ==
  ASSUME StaysSorted, UNCHANGED <<config, next, smart>>,
         \A th \in Threads : At(th)' = "restore" => At(th) = "restore",
         ipc'.at \in {"save", "store"} =>
           /\ ipc'.call = "sort" => InOrder(ipc'.sends.dictionaries)
           /\ ipc'.call = "pause" /\ smart => InOrder(ipc'.sends.dictionaries)
  PROVE  StaysSorted'
BY DEF StaysSorted

\* Clients and imports: a client that sends a list, in whatever order, ends the claim.
LEMMA SortedClients ==
  ASSUME ReloadTypeOK, ListsOK, StaysSorted,
         Clients \/ Ctl \/ Reload \/ Save \/ SaveFails
           \/ TakeImport \/ ImportFails \/ MoveAside \/ ImportDone \/ RemoveReplaced
  PROVE  StaysSorted'
<1>p. At("ipc") = ipc.at /\ At("ipc")' = ipc'.at /\ At("importer") = importer.at
      /\ At("importer")' = importer'.at /\ Threads = {"ipc", "importer"}
  BY Places
<1>1. CASE GetConfig \/ QueueImport \/ Ctl
  <2>1. UNCHANGED <<config, next, smart, ipc, importer>>
    BY <1>1 DEF GetConfig, QueueImport, Ctl, CtlStarts, CtlInstalls, CtlFails, CtlRemoves
  <2> QED BY <1>p, <2>1 DEF StaysSorted
<1>2. CASE SetConfig
  <2>1. UNCHANGED <<config, next, smart, importer>> /\ ipc'.at = "save" /\ ipc'.call = "set"
    BY <1>2 DEF SetConfig
  <2> QED BY <1>p, <2>1, SortedBeside
<1>3. CASE Pause
  <2>1. /\ UNCHANGED <<config, next, smart, importer>> /\ ipc'.at = "save" /\ ipc'.call = "pause"
        /\ ipc'.sends = [config EXCEPT !.setting = ~@]
    BY <1>3 DEF Pause
  <2>2. ipc'.sends.dictionaries = config.dictionaries
    BY <2>1 DEF ReloadTypeOK, IsConfig
  <2>3. smart => InOrder(ipc'.sends.dictionaries)
    BY <2>2 DEF StaysSorted
  <2> QED BY <1>p, <2>1, <2>3, SortedBeside
<1>4. CASE Sort
  <2>1. UNCHANGED <<config, next, smart, importer>>
    BY <1>4 DEF Sort
  <2>2. /\ ipc'.at = "save" /\ ipc'.call \in {"sort", "set"}
        /\ ipc'.call = "sort" => InOrder(ipc'.sends.dictionaries)
    BY <1>4, SortSends
  <2> QED BY <1>p, <2>1, <2>2, SortedBeside
<1>5. CASE RemoveDictionary \/ Reload \/ SaveFails
  <2>1. UNCHANGED <<config, next, smart, importer>> /\ ipc'.at \in {"list", "idle"}
    BY <1>5 DEF RemoveDictionary, Reload, SaveFails, ReloadTypeOK
  <2> QED BY <1>p, <2>1, SortedBeside
<1>6. CASE Save
  <2>1. /\ UNCHANGED <<config, next, smart, importer>> /\ ipc.at = "save" /\ ipc'.at = "store"
        /\ ipc'.call = ipc.call /\ ipc'.sends = ipc.sends
    BY <1>6 DEF Save, ReloadTypeOK
  <2> QED BY <1>p, <2>1, SortedBeside DEF StaysSorted
<1>7. CASE TakeImport \/ ImportFails \/ MoveAside \/ ImportDone \/ RemoveReplaced
  <2>1. UNCHANGED <<config, next, smart, ipc>> /\ importer'.at # "restore"
    BY <1>7 DEF TakeImport, ImportFails, MoveAside, ImportDone, RemoveReplaced, AfterInstall,
                ReloadTypeOK
  <2> QED BY <1>p, <2>1, SortedBeside DEF StaysSorted
<1> QED BY <1>1, <1>2, <1>3, <1>4, <1>5, <1>6, <1>7 DEF Clients

\* A reload reads, reconciles and publishes lists that stay in order.
LEMMA SortedReloads ==
  ASSUME ReloadInv, ListsOK, StaysSorted, NEW th \in Threads, Reloads(th)
  PROVE  StaysSorted'
<1>0. ReloadTypeOK
  BY DEF ReloadInv
<1>1. smart' = smart
  BY DEF Reloads, List, Reconcile, StoreReconciled, Publish
<1>2. ASSUME NEW place, Goes(th, place), place \notin {"save", "store"}
      PROVE  /\ At(th)' = place /\ \A o \in Threads \ {th} : At(o)' = At(o)
             /\ ipc'.at \in {"save", "store"} =>
                  /\ ipc'.call = "sort" => InOrder(ipc'.sends.dictionaries)
                  /\ ipc'.call = "pause" /\ smart' => InOrder(ipc'.sends.dictionaries)
  <2>1. /\ At(th)' = place /\ \A o \in Threads \ {th} : At(o)' = At(o)
        /\ ipc' = [at |-> ipc'.at, sends |-> ipc.sends, call |-> ipc.call]
        /\ ipc'.at \in {ipc.at, place}
    BY <1>0, <1>2, Went
  <2>2. ipc'.sends = ipc.sends /\ ipc'.call = ipc.call
    BY <2>1
  <2> QED BY <1>1, <1>2, <2>1, <2>2 DEF StaysSorted
<1>3. CASE List(th)
  <2>1. UNCHANGED <<config, next>> /\ Goes(th, "reconcile")
    BY <1>3 DEF List
  <2>2. \A o \in Threads : At(o)' = "restore" => At(o) = "restore"
    BY <1>2, <2>1
  <2> QED BY <1>1, <1>2, <2>1, <2>2, SortedBeside
<1>4. CASE Reconcile(th)
  <2> DEFINE reconciled == [config EXCEPT !.dictionaries = Reconciled(@, seen[th])]
             place == IF reconciled = config THEN "publish" ELSE "restore"
  <2>1. next' = [next EXCEPT ![th] = reconciled] /\ config' = config /\ Goes(th, place)
    BY <1>4 DEF Reconcile
  <2>2. reconciled.dictionaries = Reconciled(config.dictionaries, seen[th])
    BY <1>0 DEF ReloadTypeOK, IsConfig
  <2>3. place \notin {"save", "store"}
    OBVIOUS
  <2> HIDE DEF reconciled, place
  <2>4. next'[th] = reconciled /\ \A o \in Threads \ {th} : next'[o] = next[o]
    BY <1>0, <2>1 DEF ReloadTypeOK
  <2>5. smart => InOrder(reconciled.dictionaries)
    BY <2>2, ReconciledList DEF StaysSorted, ListsOK
  <2>6. \A o \in Threads : smart' /\ At(o)' = "restore" => InOrder(next'[o].dictionaries)
    <3> TAKE o \in Threads
    <3>1. CASE o = th
      BY <1>1, <2>4, <2>5, <3>1
    <3>2. CASE o # th
      <4>1. At(o)' = At(o) /\ next'[o] = next[o]
        BY <1>2, <2>1, <2>3, <2>4, <3>2
      <4> QED BY <1>1, <4>1 DEF StaysSorted
    <3> QED BY <3>1, <3>2
  <2>7. smart' => InOrder(config'.dictionaries)
    BY <1>1, <2>1 DEF StaysSorted
  <2>8. ipc'.at \in {"save", "store"} =>
          /\ ipc'.call = "sort" => InOrder(ipc'.sends.dictionaries)
          /\ ipc'.call = "pause" /\ smart' => InOrder(ipc'.sends.dictionaries)
    BY <1>2, <2>1, <2>3
  <2> QED BY <2>6, <2>7, <2>8 DEF StaysSorted
<1>5. CASE StoreReconciled(th)
  <2>1. At(th) = "restore" /\ config' = next[th] /\ next' = next /\ Goes(th, "publish")
    BY <1>5 DEF StoreReconciled
  <2>2. smart' => InOrder(config'.dictionaries)
    BY <1>1, <2>1 DEF StaysSorted
  <2>3. \A o \in Threads : At(o)' = "restore" => At(o) = "restore"
    BY <1>2, <2>1
  <2>4. ipc'.at \in {"save", "store"} =>
          /\ ipc'.call = "sort" => InOrder(ipc'.sends.dictionaries)
          /\ ipc'.call = "pause" /\ smart' => InOrder(ipc'.sends.dictionaries)
    BY <1>2, <2>1
  <2> QED BY <1>1, <2>1, <2>2, <2>3, <2>4 DEF StaysSorted
<1>6. CASE Publish(th)
  <2>1. next' = [next EXCEPT ![th] = NoConfig] /\ config' = config /\ Goes(th, "idle")
    BY <1>6 DEF Publish
  <2>2. /\ \A o \in Threads \ {th} : At(o)' = At(o)
        /\ At(th)' # "restore"
        /\ ipc'.at \in {"save", "store"} =>
             /\ ipc'.call = "sort" => InOrder(ipc'.sends.dictionaries)
             /\ ipc'.call = "pause" /\ smart' => InOrder(ipc'.sends.dictionaries)
    BY <1>2, <2>1
  <2>3. \A o \in Threads \ {th} : next'[o] = next[o]
    BY <1>0, <2>1 DEF ReloadTypeOK
  <2> QED BY <1>1, <2>1, <2>2, <2>3 DEF StaysSorted
<1> QED BY <1>3, <1>4, <1>5, <1>6 DEF Reloads

\* dictionaries.sort stores a list in order, and the next daemon reads what was stored.
LEMMA SortedStores ==
  ASSUME ReloadInv, StaysSorted, Store \/ Crash
  PROVE  StaysSorted'
<1>0. ReloadTypeOK /\ HeldByWorker
  BY DEF ReloadInv
<1>p. At("ipc") = ipc.at /\ At("ipc")' = ipc'.at /\ At("importer") = importer.at
      /\ At("importer")' = importer'.at /\ Threads = {"ipc", "importer"}
  BY Places
<1>1. CASE Store
  <2>1. /\ UNCHANGED <<next, importer>> /\ ipc.at = "store" /\ ipc'.at = "list"
        /\ config' = ipc.sends /\ smart' = (ipc.call = "sort" \/ (smart /\ ipc.call = "pause"))
    BY <1>0, <1>1 DEF Store, ReloadTypeOK
  <2>2. smart' => InOrder(config'.dictionaries)
    BY <2>1 DEF StaysSorted
  <2>3. \A th \in Threads : At(th)' # "restore"
    BY <1>0, <1>p, <2>1 DEF HeldByWorker, Reloading
  <2> QED BY <2>1, <2>2, <2>3 DEF StaysSorted
<1>2. CASE Crash
  <2>1. smart' = FALSE /\ ipc'.at = "list"
    BY <1>0, <1>2 DEF Crash, ReloadTypeOK
  <2> QED BY <2>1 DEF StaysSorted
<1> QED BY <1>1, <1>2

\* A list that was put in its smart order stays in it, whatever is imported and removed, until a
\* client sends another list: a new dictionary goes before the first one that sorts after it.
THEOREM SmartOrderRemains == Spec => []SmartOrderKept
<1>1. Spec => []ConfigInv
  BY ConfigInvHolds
<1>2. Init => StaysSorted
  BY StaysSortedInit
<1>3. ConfigInv /\ StaysSorted /\ [Next]_vars => StaysSorted'
  <2> SUFFICES ASSUME ConfigInv, StaysSorted, [Next]_vars PROVE StaysSorted'
    OBVIOUS
  <2>0. ReloadInv /\ ReloadTypeOK /\ ListsOK
    BY DEF ConfigInv, ReloadInv
  <2>1. CASE UNCHANGED vars
    BY <2>1 DEF vars, StaysSorted, At
  <2>2. CASE IpcThread
    BY <2>0, <2>2, SortedClients, SortedStores, SortedReloads DEF IpcThread, Threads
  <2>3. CASE ImportThread
    BY <2>0, <2>3, SortedClients, SortedReloads DEF ImportThread, Threads
  <2> QED BY <2>0, <2>1, <2>2, <2>3, SortedClients, SortedStores DEF Next
<1>4. StaysSorted => SmartOrderKept
  BY DEF StaysSorted, InOrder, SmartOrderKept, Sorted
<1> QED BY <1>1, <1>2, <1>3, <1>4, PTL DEF Spec

-----------------------------------------------------------------------------
(* The tally and its file.                                                 *)

\* What a tally says of a day.
On(t, d) == IF d \in DOMAIN t.days THEN t.days[d] ELSE 0

IsTally(t) ==
  /\ t = [total |-> t.total, days |-> t.days, emptied |-> t.emptied]
  /\ t.total \in Nat /\ t.emptied \in Nat
  /\ t.days = [d \in DOMAIN t.days |-> t.days[d]]

\* One tally is another one at an earlier moment.
NoNewer(t, u) == t.emptied < u.emptied \/ (t.emptied = u.emptied /\ t.total =< u.total)

StatTypeOK ==
  /\ IsTally(tally) /\ IsTally(tallyFile) /\ day \in Int
  /\ saver = [th \in Savers |-> [at |-> saver[th].at, text |-> saver[th].text]]
  /\ saveMutex \in Savers \cup {Unheld}

\* Who writes holds the mutex; who has ended writes nothing, and the destructor of the daemon
\* saves only once it is ending.
HeldByWriter ==
  /\ \A th \in Savers : saver[th].at = "write" <=> saveMutex = th
  /\ running = "no" => \A th \in Savers : saver[th].at = "idle"
  /\ running = "yes" => saver["main"].at = "idle"

\* What is being written is newer than what the file holds, and no newer than the tally.
WrittenInOrder ==
  /\ NoNewer(tallyFile, tally)
  /\ \A th \in Savers : saver[th].at = "write" =>
       /\ IsTally(saver[th].text) /\ NoNewer(tallyFile, saver[th].text)
       /\ NoNewer(saver[th].text, tally)

\* A tally marked saved is in the file or being written, unless that failed.
SavedOrSaving ==
  ~dirty => IF saveMutex = Unheld THEN tallyFile = tally \/ lost
            ELSE saver[saveMutex].text = tally

CountedIsWanted == wanted = [total |-> tally.total, today |-> On(tally, day)]

StatInv == StatTypeOK /\ HeldByWriter /\ WrittenInOrder /\ SavedOrSaving /\ CountedIsWanted

\* The days the clock shows are numbers, and there is a first one.
DaysAreNumbers == Days \subseteq Int /\ \E d \in Days : \A e \in Days : d =< e

\* The empty tally is a tally, and of nothing.
LEMMA EmptyIsTally == IsTally(Empty) /\ Empty.total = 0 /\ \A d : On(Empty, d) = 0
BY DEF IsTally, Empty, On

\* Being no newer than is a preorder of the tallies.
LEMMA NoNewerOrders ==
  /\ \A t : IsTally(t) => NoNewer(t, t)
  /\ \A t, u, v : /\ IsTally(t) /\ IsTally(u) /\ IsTally(v)
                  /\ NoNewer(t, u) /\ NoNewer(u, v)
                  => NoNewer(t, v)
BY DEF IsTally, NoNewer

\* Counting adds one to the total and to the day, which is never one of the days that go.
LEMMA CountedOnce ==
  ASSUME NEW t, IsTally(t), NEW d \in Int
  PROVE  /\ IsTally(Counted(t, d)) /\ NoNewer(t, Counted(t, d))
         /\ Counted(t, d).total = t.total + 1
         /\ On(Counted(t, d), d) = On(t, d) + 1
<1> DEFINE all == With(t.days, d)
           days == Today(t.days, d)
           counted == [e \in DOMAIN days |-> IF e = d THEN days[e] + 1 ELSE days[e]]
<1>1. d \in DOMAIN all /\ all[d] = On(t, d)
  BY DEF With, On
<1>2. d \in DOMAIN days /\ days[d] = On(t, d)
  <2> DEFINE old == {x \in DOMAIN all : /\ Cardinality({y \in DOMAIN all : y > x}) >= KeptDays
                                        /\ \A y \in DOMAIN all : y =< x => y # d}
  <2>1. d \notin old
    BY <1>1
  <2>2. days = [e \in DOMAIN all \ old |-> all[e]]
    BY DEF Today
  <2> HIDE DEF all, old, days
  <2> QED BY <1>1, <2>1, <2>2
<1>3. Counted(t, d) = [total |-> t.total + 1, days |-> counted, emptied |-> t.emptied]
  BY DEF Counted
<1>4. /\ d \in DOMAIN counted /\ counted[d] = On(t, d) + 1
      /\ counted = [e \in DOMAIN counted |-> counted[e]]
  <2> HIDE DEF days
  <2> QED BY <1>2
<1> HIDE DEF counted
<1>5. IsTally(Counted(t, d)) /\ NoNewer(t, Counted(t, d))
  BY <1>3, <1>4 DEF IsTally, NoNewer
<1> QED BY <1>3, <1>4, <1>5 DEF On

\* At the start nothing is counted, nothing written and no thread saves.
LEMMA StatInvInit == DaysAreNumbers /\ StatInit => StatInv
<1> SUFFICES ASSUME DaysAreNumbers, StatInit PROVE StatInv
  OBVIOUS
<1>1. day \in Int
  BY DEF DaysAreNumbers, StatInit
<1>2. StatTypeOK
  BY <1>1, EmptyIsTally DEF StatInit, StatTypeOK, Idle
<1>3. HeldByWriter
  BY DEF StatInit, HeldByWriter, Idle, Savers, Unheld
<1>4. WrittenInOrder /\ SavedOrSaving /\ CountedIsWanted
  BY EmptyIsTally, NoNewerOrders DEF StatInit, WrittenInOrder, SavedOrSaving, CountedIsWanted, Idle
<1> QED BY <1>2, <1>3, <1>4 DEF StatInv

\* What one thread does about saving changes, and it neither wrote nor writes.
Turned(th, place) ==
  /\ saver[th].at # "write" /\ place # "write"
  /\ \E text : saver' = [saver EXCEPT ![th] = [at |-> place, text |-> text]]

\* A thread that turns to another place leaves the others where they are.
LEMMA TurnedOnly ==
  ASSUME StatTypeOK, NEW th \in Savers, NEW place, Turned(th, place)
  PROVE  /\ saver' = [o \in Savers |-> [at |-> saver'[o].at, text |-> saver'[o].text]]
         /\ saver'[th].at = place
         /\ \A o \in Savers \ {th} : saver'[o] = saver[o]
BY DEF StatTypeOK, Turned

\* A step in which nobody starts or ends writing.
LEMMA NobodyWrites ==
  ASSUME StatInv, UNCHANGED <<tallyFile, saveMutex>>,
         IsTally(tally'), NoNewer(tally, tally'), day' \in Int, CountedIsWanted',
         dirty' \/ (UNCHANGED <<tally, dirty, lost>>),
         UNCHANGED saver \/ \E th \in Savers : \E place : Turned(th, place),
         running' = "no" => \A th \in Savers : saver'[th].at = "idle",
         running' = "yes" => saver'["main"].at = "idle"
  PROVE  StatInv'
<1>0. StatTypeOK /\ HeldByWriter /\ WrittenInOrder /\ SavedOrSaving
  BY DEF StatInv
<1>1. /\ saver' = [o \in Savers |-> [at |-> saver'[o].at, text |-> saver'[o].text]]
      /\ \A o \in Savers : saver'[o].at = "write" <=> saver[o].at = "write"
      /\ \A o \in Savers : saver'[o].at = "write" => saver'[o] = saver[o]
  <2>1. CASE UNCHANGED saver
    BY <1>0, <2>1 DEF StatTypeOK
  <2>2. ASSUME NEW th \in Savers, NEW place, Turned(th, place)
        PROVE  /\ saver' = [o \in Savers |-> [at |-> saver'[o].at, text |-> saver'[o].text]]
               /\ \A o \in Savers : saver'[o].at = "write" <=> saver[o].at = "write"
               /\ \A o \in Savers : saver'[o].at = "write" => saver'[o] = saver[o]
    <3>1. /\ saver' = [o \in Savers |-> [at |-> saver'[o].at, text |-> saver'[o].text]]
          /\ saver'[th].at = place
          /\ \A o \in Savers \ {th} : saver'[o] = saver[o]
      BY <1>0, <2>2, TurnedOnly
    <3>2. saver[th].at # "write" /\ place # "write"
      BY <2>2 DEF Turned
    <3> QED BY <3>1, <3>2
  <2> QED BY <2>1, <2>2
<1>2. StatTypeOK'
  BY <1>0, <1>1 DEF StatTypeOK
<1>3. HeldByWriter'
  BY <1>0, <1>1 DEF HeldByWriter
<1>4. WrittenInOrder'
  <2>1. NoNewer(tallyFile', tally')
    BY <1>0, NoNewerOrders DEF StatTypeOK, WrittenInOrder
  <2>2. ASSUME NEW th \in Savers, saver'[th].at = "write"
        PROVE  /\ IsTally(saver'[th].text) /\ NoNewer(tallyFile', saver'[th].text)
               /\ NoNewer(saver'[th].text, tally')
    <3>1. saver'[th] = saver[th] /\ saver[th].at = "write"
      BY <1>1, <2>2
    <3>2. /\ IsTally(saver[th].text) /\ NoNewer(tallyFile, saver[th].text)
          /\ NoNewer(saver[th].text, tally)
      BY <1>0, <3>1 DEF WrittenInOrder
    <3>3. NoNewer(saver[th].text, tally')
      BY <1>0, <3>2, NoNewerOrders DEF StatTypeOK
    <3> QED BY <3>1, <3>2, <3>3
  <2> QED BY <2>1, <2>2 DEF WrittenInOrder
<1>5. SavedOrSaving'
  <2>1. CASE dirty'
    BY <2>1 DEF SavedOrSaving
  <2>2. CASE UNCHANGED <<tally, dirty, lost>>
    <3>1. saveMutex # Unheld => saver'[saveMutex] = saver[saveMutex]
      BY <1>0, <1>1 DEF HeldByWriter, StatTypeOK
    <3> QED BY <1>0, <2>2, <3>1 DEF SavedOrSaving
  <2> QED BY <2>1, <2>2
<1> QED BY <1>2, <1>3, <1>4, <1>5 DEF StatInv


\* A thread that goes to another place and has nothing to write turns there.
LEMMA TurnsTo ==
  ASSUME StatTypeOK, NEW th \in Savers, NEW place, saver[th].at # "write", place # "write",
         saver' = [saver EXCEPT ![th].at = place]
  PROVE  Turned(th, place)
<1>1. saver[th] = [at |-> saver[th].at, text |-> saver[th].text]
  BY DEF StatTypeOK
<1>2. [saver[th] EXCEPT !.at = place] = [at |-> place, text |-> saver[th].text]
  BY <1>1
<1>3. saver' = [saver EXCEPT ![th] = [at |-> place, text |-> saver[th].text]]
  BY <1>2
<1> QED BY <1>3 DEF Turned

\* Counting, and what is counted.
LEMMA RecordCounts ==
  ASSUME StatInv, Record, UNCHANGED day
  PROVE  /\ IsTally(tally') /\ NoNewer(tally, tally') /\ CountedIsWanted' /\ day' \in Int
         /\ \/ dirty'
            \/ UNCHANGED <<tally, dirty>>
<1>0. StatTypeOK /\ CountedIsWanted
  BY DEF StatInv
<1>1. CASE enabled
  <2>1. /\ tally' = Counted(tally, day) /\ dirty' = TRUE
        /\ wanted' = [total |-> wanted.total + 1, today |-> wanted.today + 1]
    BY <1>1 DEF Record
  <2>2. /\ IsTally(Counted(tally, day)) /\ NoNewer(tally, Counted(tally, day))
        /\ Counted(tally, day).total = tally.total + 1
        /\ On(Counted(tally, day), day) = On(tally, day) + 1
    BY <1>0, CountedOnce DEF StatTypeOK
  <2>3. wanted.total = tally.total /\ wanted.today = On(tally, day)
    BY <1>0 DEF CountedIsWanted
  <2> QED BY <1>0, <2>1, <2>2, <2>3 DEF CountedIsWanted, StatTypeOK
<1>2. CASE ~enabled
  <2>1. UNCHANGED <<tally, dirty, wanted>>
    BY <1>2 DEF Record
  <2> QED BY <1>0, <2>1, NoNewerOrders DEF StatTypeOK, CountedIsWanted
<1> QED BY <1>1, <1>2

\* Counting keeps the invariant: what is counted is in the tally, which gets newer.
LEMMA CountSteps ==
  ASSUME StatInv, CountLookup \/ CountOther
  PROVE  StatInv'
<1>0. StatTypeOK /\ HeldByWriter
  BY DEF StatInv
<1>1. /\ UNCHANGED <<tallyFile, saveMutex, day, lost, running>> /\ Record /\ running # "no"
  BY DEF CountLookup, CountOther
<1>2. UNCHANGED saver \/ Turned("capture", "save")
  <2>1. "capture" \in Savers
    BY DEF Savers
  <2> QED BY <1>0, <2>1, TurnsTo DEF CountLookup, CountOther
<1>3. /\ IsTally(tally') /\ NoNewer(tally, tally') /\ CountedIsWanted' /\ day' \in Int
      /\ dirty' \/ UNCHANGED <<tally, dirty>>
  BY <1>1, RecordCounts
<1>4. "main" \in Savers /\ "capture" \in Savers
  BY DEF Savers
<1>5. running' = "yes" => saver'["main"].at = "idle"
  BY <1>0, <1>1, <1>2, <1>4, TurnedOnly DEF HeldByWriter
<1> QED BY <1>1, <1>2, <1>3, <1>4, <1>5, NobodyWrites

\* The setting, the clock, a reset, and a thread that asks for or is spared a save.
LEMMA OtherSteps ==
  ASSUME DaysAreNumbers, StatInv,
         SetEnabled \/ Clock \/ Reset \/ FinalSave \/ Ended
         \/ \E th \in Savers : WantSave(th) \/ NothingToSave(th)
  PROVE  StatInv'
<1>0. StatTypeOK /\ HeldByWriter /\ CountedIsWanted
  BY DEF StatInv
<1>m. "main" \in Savers /\ "ipc" \in Savers /\ "ui" \in Savers /\ "ipc" # "main" /\ "ui" # "main"
  BY DEF Savers
<1>s. IsTally(tally) /\ NoNewer(tally, tally)
  BY <1>0, NoNewerOrders DEF StatTypeOK
<1>1. CASE SetEnabled
  <2>1. UNCHANGED <<tally, dirty, tallyFile, saver, saveMutex, day, running, wanted, lost>>
    BY <1>1 DEF SetEnabled
  <2>2. CountedIsWanted' /\ day' \in Int
    BY <1>0, <2>1 DEF CountedIsWanted, StatTypeOK
  <2> QED BY <1>0, <1>s, <2>1, <2>2, NobodyWrites DEF HeldByWriter
<1>2. CASE Clock
  <2>1. UNCHANGED <<tally, dirty, tallyFile, saver, saveMutex, running, lost>>
    BY <1>2 DEF Clock
  <2>2. day' \in Int
    BY <1>2 DEF Clock, DaysAreNumbers
  <2>3. CountedIsWanted'
    <3>1. wanted' = [wanted EXCEPT !.today = On(tally, day')]
      BY <1>2 DEF Clock, On
    <3>2. wanted = [total |-> tally.total, today |-> On(tally, day)]
      BY <1>0 DEF CountedIsWanted
    <3>3. wanted' = [total |-> tally.total, today |-> On(tally, day')]
      BY <3>1, <3>2
    <3> QED BY <2>1, <3>3 DEF CountedIsWanted
  <2> QED BY <1>0, <1>s, <2>1, <2>2, <2>3, NobodyWrites DEF HeldByWriter
<1>3. CASE Reset
  <2>1. /\ UNCHANGED <<tallyFile, saveMutex, day, running, lost>> /\ dirty' = TRUE
        /\ tally' = [total |-> 0, days |-> Empty.days, emptied |-> tally.emptied + 1]
        /\ wanted' = [total |-> 0, today |-> 0] /\ running = "yes"
    BY <1>3 DEF Reset, Empty
  <2>2. IsTally(tally') /\ NoNewer(tally, tally') /\ On(tally', day') = 0 /\ day' \in Int
    BY <1>0, <2>1 DEF IsTally, NoNewer, On, Empty, StatTypeOK
  <2>3. CountedIsWanted'
    BY <2>1, <2>2 DEF CountedIsWanted
  <2>4. Turned("ipc", "save")
    BY <1>0, <1>3, <1>m, TurnsTo DEF Reset
  <2>5. saver'["main"].at = "idle"
    BY <1>0, <1>m, <2>1, <2>4, TurnedOnly DEF HeldByWriter
  <2> QED BY <1>m, <2>1, <2>2, <2>3, <2>4, <2>5, NobodyWrites
<1>4. CASE FinalSave
  <2>1. /\ UNCHANGED <<tally, dirty, tallyFile, saveMutex, day, wanted, lost>>
        /\ running = "yes" /\ running' = "ending"
    BY <1>4 DEF FinalSave
  <2>2. CountedIsWanted' /\ day' \in Int
    BY <1>0, <2>1 DEF CountedIsWanted, StatTypeOK
  <2>3. Turned("main", "save")
    BY <1>0, <1>4, <1>m, <2>1, TurnsTo DEF FinalSave, HeldByWriter
  <2> QED BY <1>m, <1>s, <2>1, <2>2, <2>3, NobodyWrites
<1>5. CASE Ended
  <2>1. /\ UNCHANGED <<tally, dirty, tallyFile, saver, saveMutex, day, wanted, lost>>
        /\ running' = "no" /\ \A th \in Savers : saver[th].at = "idle"
    BY <1>5 DEF Ended
  <2>2. CountedIsWanted' /\ day' \in Int
    BY <1>0, <2>1 DEF CountedIsWanted, StatTypeOK
  <2> QED BY <1>s, <2>1, <2>2, NobodyWrites
<1>6. ASSUME NEW th \in Savers, WantSave(th) PROVE StatInv'
  <2>1. /\ UNCHANGED <<tally, dirty, tallyFile, saveMutex, day, running, wanted, lost>>
        /\ th \in {"ipc", "ui"} /\ running = "yes"
    BY <1>6 DEF WantSave
  <2>2. CountedIsWanted' /\ day' \in Int
    BY <1>0, <2>1 DEF CountedIsWanted, StatTypeOK
  <2>3. Turned(th, "save")
    BY <1>0, <1>6, TurnsTo DEF WantSave
  <2>4. saver'["main"].at = "idle"
    BY <1>0, <1>m, <2>1, <2>3, TurnedOnly DEF HeldByWriter
  <2> QED BY <1>s, <2>1, <2>2, <2>3, <2>4, NobodyWrites
<1>7. ASSUME NEW th \in Savers, NothingToSave(th) PROVE StatInv'
  <2>1. /\ UNCHANGED <<tally, dirty, tallyFile, saveMutex, day, running, wanted, lost>>
        /\ saver[th].at = "save" /\ saver' = [saver EXCEPT ![th] = Idle]
    BY <1>7 DEF NothingToSave
  <2>2. CountedIsWanted' /\ day' \in Int
    BY <1>0, <2>1 DEF CountedIsWanted, StatTypeOK
  <2>3. Turned(th, "idle")
    BY <2>1 DEF Turned, Idle
  <2>4. running' = "no" => FALSE
    BY <1>0, <2>1 DEF HeldByWriter
  <2>5. running' = "yes" => saver'["main"].at = "idle"
    BY <1>0, <1>m, <2>1, <2>3, TurnedOnly DEF HeldByWriter
  <2> QED BY <1>s, <2>1, <2>2, <2>3, <2>4, <2>5, NobodyWrites
<1> QED BY <1>1, <1>2, <1>3, <1>4, <1>5, <1>6, <1>7

\* save() by one thread.
LEMMA SaveSteps ==
  ASSUME StatInv, NEW th \in Savers, TakeText(th) \/ Written(th) \/ WriteFails(th)
  PROVE  StatInv' /\ NoNewer(tallyFile, tallyFile')
<1>0. StatTypeOK /\ HeldByWriter /\ WrittenInOrder /\ SavedOrSaving /\ CountedIsWanted
  BY DEF StatInv
<1>1. CASE TakeText(th)
  <2>1. /\ UNCHANGED <<tally, tallyFile, day, running, wanted>> /\ dirty' = FALSE
        /\ saver[th].at = "save" /\ saveMutex = Unheld /\ saveMutex' = th
        /\ saver' = [saver EXCEPT ![th] = [at |-> "write", text |-> tally]]
    BY <1>1 DEF TakeText
  <2>2. /\ saver' = [o \in Savers |-> [at |-> saver'[o].at, text |-> saver'[o].text]]
        /\ saver'[th].at = "write" /\ saver'[th].text = tally
        /\ \A o \in Savers \ {th} : saver'[o] = saver[o]
    BY <1>0, <2>1 DEF StatTypeOK
  <2>3. \A o \in Savers : saver[o].at # "write"
    BY <1>0, <2>1 DEF HeldByWriter, Savers, Unheld
  <2>4. StatTypeOK'
    BY <1>0, <2>1, <2>2 DEF StatTypeOK
  <2>5. running # "no" /\ (running = "yes" => th # "main")
    BY <1>0, <2>1 DEF HeldByWriter
  <2>6. HeldByWriter'
    BY <1>0, <2>1, <2>2, <2>3, <2>5 DEF HeldByWriter, Savers
  <2>7. WrittenInOrder'
    BY <1>0, <2>1, <2>2, <2>3, NoNewerOrders DEF WrittenInOrder, StatTypeOK
  <2>8. SavedOrSaving' /\ CountedIsWanted'
    BY <1>0, <2>1, <2>2 DEF SavedOrSaving, CountedIsWanted, Savers, Unheld
  <2>9. NoNewer(tallyFile, tallyFile')
    BY <1>0, <2>1, NoNewerOrders DEF StatTypeOK
  <2> QED BY <2>4, <2>6, <2>7, <2>8, <2>9 DEF StatInv
<1>2. CASE Written(th) \/ WriteFails(th)
  <2>1. /\ UNCHANGED <<tally, dirty, day, running, wanted>>
        /\ saver[th].at = "write" /\ saveMutex = th /\ saveMutex' = Unheld
        /\ saver' = [saver EXCEPT ![th] = Idle]
        /\ \/ tallyFile' = saver[th].text
           \/ tallyFile' = tallyFile /\ lost' = TRUE
    BY <1>0, <1>2 DEF Written, WriteFails, Release, HeldByWriter
  <2>2. /\ saver' = [o \in Savers |-> [at |-> saver'[o].at, text |-> saver'[o].text]]
        /\ saver'[th].at = "idle"
        /\ \A o \in Savers \ {th} : saver'[o] = saver[o]
    BY <1>0, <2>1 DEF StatTypeOK, Idle
  <2>3. \A o \in Savers : saver'[o].at # "write"
    BY <1>0, <2>1, <2>2 DEF HeldByWriter
  <2>4. IsTally(tallyFile') /\ NoNewer(tallyFile', tally') /\ NoNewer(tallyFile, tallyFile')
    BY <1>0, <2>1, NoNewerOrders DEF StatTypeOK, WrittenInOrder
  <2>5. StatTypeOK'
    BY <1>0, <2>1, <2>2, <2>4 DEF StatTypeOK
  <2>6. HeldByWriter'
    BY <1>0, <2>1, <2>2, <2>3 DEF HeldByWriter, Savers, Unheld
  <2>7. WrittenInOrder'
    BY <2>3, <2>4 DEF WrittenInOrder
  <2>8. SavedOrSaving' /\ CountedIsWanted'
    BY <1>0, <2>1 DEF SavedOrSaving, CountedIsWanted, Savers, Unheld
  <2> QED BY <2>4, <2>5, <2>6, <2>7, <2>8 DEF StatInv
<1> QED BY <1>1, <1>2

\* The daemon is killed, and the next one reads what the file holds.
LEMMA RestartSteps ==
  ASSUME StatInv, Killed \/ Load
  PROVE  StatInv'
<1>0. StatTypeOK /\ HeldByWriter /\ WrittenInOrder /\ CountedIsWanted
  BY DEF StatInv
<1>1. CASE Killed
  <2>1. /\ UNCHANGED <<tally, dirty, tallyFile, day, wanted>>
        /\ running' = "no" /\ lost' = TRUE /\ saveMutex' = Unheld
        /\ saver' = [th \in Savers |-> Idle]
    BY <1>1 DEF Killed
  <2>2. StatTypeOK' /\ \A th \in Savers : saver'[th].at = "idle"
    BY <1>0, <2>1 DEF StatTypeOK, Idle
  <2>3. HeldByWriter' /\ WrittenInOrder'
    BY <1>0, <2>1, <2>2 DEF HeldByWriter, WrittenInOrder, Savers, Unheld
  <2>4. SavedOrSaving' /\ CountedIsWanted'
    BY <1>0, <2>1 DEF SavedOrSaving, CountedIsWanted
  <2> QED BY <2>2, <2>3, <2>4 DEF StatInv
<1>2. CASE Load
  <2>1. /\ UNCHANGED <<tallyFile, saver, saveMutex, day>> /\ tally' = tallyFile /\ dirty' = TRUE
        /\ running = "no" /\ running' = "yes"
        /\ wanted' = [total |-> tallyFile.total, today |-> On(tallyFile, day)]
    BY <1>2 DEF Load, On
  <2>2. StatTypeOK' /\ \A th \in Savers : saver'[th].at = "idle"
    BY <1>0, <2>1 DEF StatTypeOK, HeldByWriter
  <2>3. HeldByWriter' /\ WrittenInOrder'
    BY <1>0, <2>1, <2>2, NoNewerOrders DEF HeldByWriter, WrittenInOrder, StatTypeOK, Savers
  <2>4. SavedOrSaving' /\ CountedIsWanted'
    BY <2>1 DEF SavedOrSaving, CountedIsWanted
  <2> QED BY <2>2, <2>3, <2>4 DEF StatInv
<1> QED BY <1>1, <1>2

\* Each step keeps the invariant of the tally.
LEMMA StatInvStep == DaysAreNumbers /\ StatInv /\ [StatNext]_svars => StatInv'
<1> SUFFICES ASSUME DaysAreNumbers, StatInv, [StatNext]_svars PROVE StatInv'
  OBVIOUS
<1>1. CASE UNCHANGED svars
  <2>1. UNCHANGED <<tally, dirty, tallyFile, saver, saveMutex, day, running, wanted, lost>>
    BY <1>1 DEF svars
  <2> QED BY <2>1 DEF StatInv, StatTypeOK, HeldByWriter, WrittenInOrder, SavedOrSaving,
             CountedIsWanted
<1> QED BY <1>1, CountSteps, OtherSteps, SaveSteps, RestartSteps DEF StatNext

\* What was counted is kept: once nothing is left to save or being saved and no write failed,
\* the file holds everything counted since the tally was emptied, and everything of this day.
THEOREM CountsAreSaved ==
  ASSUME DaysAreNumbers
  PROVE  StatSpec => []SavedIsKept
<1>1. StatInit => StatInv
  BY StatInvInit
<1>2. StatInv /\ [StatNext]_svars => StatInv'
  BY StatInvStep
<1>3. StatInv => SavedIsKept
  <2> SUFFICES ASSUME StatInv, ~dirty, saveMutex = Unheld, ~lost
               PROVE  /\ tallyFile.total = wanted.total
                      /\ wanted.today > 0 => /\ day \in DOMAIN tallyFile.days
                                             /\ tallyFile.days[day] = wanted.today
    BY DEF SavedIsKept
  <2>1. tallyFile = tally /\ wanted.total = tally.total /\ wanted.today = On(tally, day)
    BY DEF StatInv, SavedOrSaving, CountedIsWanted
  <2> QED BY <2>1 DEF On
<1> QED BY <1>1, <1>2, <1>3, PTL DEF StatSpec

\* The file never goes back to an older tally, nor to one from before it was emptied: what a
\* thread writes is no older than what is there, because it got the mutex after the last writer.
THEOREM FileOnlyGrows ==
  ASSUME DaysAreNumbers
  PROVE  StatSpec => FileNeverGoesBack
<1>1. StatInit => StatInv
  BY StatInvInit
<1>2. StatInv /\ [StatNext]_svars => StatInv'
  BY StatInvStep
<1>3. StatInv /\ [StatNext]_svars =>
        [\/ tallyFile'.emptied > tallyFile.emptied
         \/ tallyFile'.emptied = tallyFile.emptied /\ tallyFile'.total >= tallyFile.total]_tallyFile
  <2> SUFFICES ASSUME StatInv, StatNext, tallyFile' # tallyFile
               PROVE  \/ tallyFile'.emptied > tallyFile.emptied
                      \/ /\ tallyFile'.emptied = tallyFile.emptied
                         /\ tallyFile'.total >= tallyFile.total
    BY DEF svars
  <2>1. PICK th \in Savers : Written(th)
    BY DEF StatNext, CountLookup, CountOther, SetEnabled, Clock, Reset, FinalSave, Ended, Killed,
           Load, WantSave, NothingToSave, TakeText, WriteFails
  <2>2. NoNewer(tallyFile, tallyFile') /\ StatInv'
    BY <2>1, SaveSteps
  <2> QED BY <2>2 DEF NoNewer, StatInv, StatTypeOK, IsTally
<1> QED BY <1>1, <1>2, <1>3, PTL DEF StatSpec, FileNeverGoesBack
=============================================================================
