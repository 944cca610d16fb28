----------------------------- MODULE DaemonProofs -----------------------------
(***************************************************************************)
(* Theorems about Takeover and DictionaryImport, what a daemon shares with *)
(* other programs: the lock and the files of dictionaries.                 *)
(***************************************************************************)
EXTENDS Takeover, DictionaryImport, FiniteSetTheorems, SequenceTheorems, TLAPS

-----------------------------------------------------------------------------
(* Takeover: whoever works and is not from before the lock holds it, and   *)
(* one started with --replace works only once those from before the lock   *)
(* are gone.                                                               *)

Places ==
  {"unborn", "dead", "lock", "write", "ask", "wait", "end", "again", "list", "strays", "endStray",
   "hand", "handing", "handBack", "listen", "serve", "run", "teardown", "closing"}

Process ==
  [at : Places, replace : BOOLEAN, fromTask : BOOLEAN, elevated : BOOLEAN, old : BOOLEAN,
   asked : Processes \cup {Nobody}, hasAsked : BOOLEAN, handed : BOOLEAN,
   victim : Processes \cup {Nobody}, others : SUBSET Processes, quit : BOOLEAN, hung : BOOLEAN,
   born : Nat, seen : Nat, end : {"none", "gaveUp"}]

TypeOK ==
  /\ proc \in [Processes -> Process]
  /\ {holder, pidFile, socketFile} \subseteq Processes \cup {Nobody}
  /\ program \in Nat

\* Where a daemon that has the lock is; it lets go of it only to hand over, or to end.
Locked == {"write", "list", "strays", "endStray", "hand", "listen", "serve", "run", "teardown",
           "closing"}

LockedByOne == \A p \in Processes : proc[p].at \in Locked /\ ~proc[p].old => holder = p

\* One from before the lock just runs and ends.
OldRuns ==
  \A q \in Processes :
    proc[q].old => /\ proc[q].at \in {"run", "teardown", "closing"}
                   /\ ~proc[q].replace /\ ~proc[q].elevated

\* Past the list of other daemons nothing is left of one from before the lock that is not on it.
Sweeping(p) == proc[p].at \in {"strays", "endStray"}
AfterList == {"hand", "handing", "handBack", "listen", "serve", "run", "teardown", "closing"}
SweptAt(place, handed) == place \in AfterList \/ (place = "write" /\ handed)
Swept(p) == SweptAt(proc[p].at, proc[p].handed)
OldSwept ==
  \A p, q \in Processes :
    proc[q].old /\ ~proc[p].old /\ proc[p].replace =>
      /\ ~Swept(p)
      /\ Sweeping(p) => \/ q \in proc[p].others
                        \/ proc[p].at = "endStray" /\ q = proc[p].victim

\* Handing over comes after the list.
HandedSwept == \A p \in Processes : proc[p].handed => Swept(p)

WorkInv == TypeOK /\ LockedByOne /\ OldRuns /\ OldSwept /\ HandedSwept

-----------------------------------------------------------------------------
(* The records of processes, and what is changed in one.                   *)

\* A process that was not started yet.
LEMMA UnbornType ==
  Unborn \in Process /\ Unborn.at = "unborn" /\ ~Unborn.old /\ ~Unborn.elevated /\ ~Unborn.replace
  /\ ~Unborn.handed
BY DEF Unborn, Process, Places

\* One that ended.
LEMMA DeadType ==
  \A why \in {"none", "gaveUp"} :
    Dead(why) \in Process /\ Dead(why).at = "dead" /\ ~Dead(why).old /\ ~Dead(why).replace
    /\ ~Dead(why).handed
BY UnbornType DEF Dead, Process, Places

\* One from before the lock.
LEMMA OldType ==
  LET r == [Unborn EXCEPT !.at = "run", !.old = TRUE]
  IN  r \in Process /\ r.at = "run" /\ r.old /\ ~r.replace /\ ~r.elevated /\ ~r.handed
BY UnbornType DEF Process, Places

\* One that was just started, here with --replace or without.
LEMMA BornType ==
  ASSUME program \in Nat, NEW q \in Processes, NEW replace \in BOOLEAN
  PROVE  /\ Born(q, replace) \in Process /\ Born(q, replace).at = "lock"
         /\ ~Born(q, replace).old /\ ~Born(q, replace).handed
BY UnbornType DEF Born, Process, Places

\* One started as administrator, or by the scheduled task.
LEMMA BornElevated ==
  ASSUME program \in Nat, NEW q \in Processes, NEW replace \in BOOLEAN, NEW elevated \in BOOLEAN
  PROVE  /\ LET s == [Born(q, replace) EXCEPT !.elevated = elevated]
            IN  s \in Process /\ s.at = "lock" /\ ~s.old /\ ~s.handed
         /\ LET s == [Born(q, replace) EXCEPT !.fromTask = TRUE, !.elevated = elevated]
            IN  s \in Process /\ s.at = "lock" /\ ~s.old /\ ~s.handed
<1> DEFINE r == Born(q, replace)
<1>1. r \in Process /\ r.at = "lock" /\ ~r.old /\ ~r.handed
  BY BornType
<1> HIDE DEF r
<1>2. LET s == [r EXCEPT !.elevated = elevated]
      IN  s \in Process /\ s.at = "lock" /\ ~s.old /\ ~s.handed
  BY <1>1 DEF Process
<1>3. LET s == [r EXCEPT !.fromTask = TRUE, !.elevated = elevated]
      IN  s \in Process /\ s.at = "lock" /\ ~s.old /\ ~s.handed
  BY <1>1 DEF Process
<1> QED BY <1>2, <1>3 DEF r

\* It is still the process it was.
Like(s, r) == s.old = r.old /\ s.replace = r.replace /\ s.elevated = r.elevated
Same(s, r) == /\ Like(s, r) /\ s.at = r.at /\ s.handed = r.handed /\ s.others = r.others
              /\ s.victim = r.victim

\* What each change of a record keeps.
LEMMA MovedType ==
  ASSUME NEW r \in Process, NEW x \in Places
  PROVE  LET s == [r EXCEPT !.at = x]
         IN  s \in Process /\ Like(s, r) /\ s.at = x /\ s.handed = r.handed
BY DEF Process, Like

Asking(r, x, y) == [r EXCEPT !.at = x, !.hasAsked = TRUE, !.asked = y]
LEMMA AskedType ==
  ASSUME NEW r \in Process, NEW x \in Places, NEW y \in Processes \cup {Nobody}
  PROVE  LET s == Asking(r, x, y)
         IN  s \in Process /\ Like(s, r) /\ s.handed = r.handed /\ s.at = x
BY DEF Process, Like, Asking

LEMMA QuitType ==
  ASSUME NEW r \in Process, NEW b \in BOOLEAN
  PROVE  [r EXCEPT !.quit = b] \in Process /\ Same([r EXCEPT !.quit = b], r)
BY DEF Process, Like, Same

LEMMA HungType ==
  ASSUME NEW r \in Process
  PROVE  [r EXCEPT !.hung = TRUE] \in Process /\ Same([r EXCEPT !.hung = TRUE], r)
BY DEF Process, Like, Same

LEMMA LookedType ==
  ASSUME NEW r \in Process, NEW n \in Nat
  PROVE  /\ [r EXCEPT !.seen = n] \in Process /\ Same([r EXCEPT !.seen = n], r)
         /\ [r EXCEPT !.born = n] \in Process /\ Same([r EXCEPT !.born = n], r)
BY DEF Process, Like, Same

Signalling(r, x, q) == [r EXCEPT !.at = x, !.victim = q, !.others = @ \ {q}]
LEMMA SignallingType ==
  ASSUME NEW r \in Process, NEW x \in Places, NEW q \in Processes
  PROVE  LET s == Signalling(r, x, q)
         IN  s \in Process /\ Like(s, r) /\ s.handed = r.handed /\ s.at = x /\ s.victim = q
             /\ s.others = r.others \ {q}
BY DEF Process, Like, Signalling

Ending(r, x) == [r EXCEPT !.at = x, !.victim = Nobody]
LEMMA EndedType ==
  ASSUME NEW r \in Process, NEW x \in Places
  PROVE  LET s == Ending(r, x)
         IN  s \in Process /\ Like(s, r) /\ s.handed = r.handed /\ s.at = x /\ s.others = r.others
BY DEF Process, Like, Ending

Listing(r, x, S) == [r EXCEPT !.at = x, !.others = S]
LEMMA ListedType ==
  ASSUME NEW r \in Process, NEW x \in Places, NEW S \in SUBSET Processes
  PROVE  LET s == Listing(r, x, S)
         IN  s \in Process /\ Like(s, r) /\ s.handed = r.handed /\ s.at = x /\ s.others = S
BY DEF Process, Like, Listing

Passing(r, q) == [r EXCEPT !.others = @ \ {q}]
LEMMA PassedType ==
  ASSUME NEW r \in Process, NEW q \in Processes
  PROVE  LET s == Passing(r, q)
         IN  s \in Process /\ Like(s, r) /\ s.handed = r.handed /\ s.at = r.at
             /\ s.others = r.others \ {q}
BY DEF Process, Like, Passing

Handing(r, x) == [r EXCEPT !.at = x, !.handed = TRUE]
LEMMA HandedType ==
  ASSUME NEW r \in Process, NEW x \in Places
  PROVE  LET s == Handing(r, x)
         IN  s \in Process /\ Like(s, r) /\ s.at = x
BY DEF Process, Like, Handing

-----------------------------------------------------------------------------
(* A step of one process, which may end or start another.                  *)

Ends(q)   == proc'[q].at = "dead" /\ ~proc'[q].old /\ ~proc'[q].handed
Starts(q) == proc[q].at = "unborn" /\ proc'[q].at = "lock" /\ ~proc'[q].old /\ ~proc'[q].handed
Aside(p)  == \A q \in Processes \ {p} : Same(proc'[q], proc[q]) \/ Ends(q) \/ Starts(q)
Changed(p) == Like(proc'[p], proc[p]) \/ Ends(p) \/ Starts(p)

LockKept(p) ==
  /\ \/ holder' = holder
     \/ holder = Nobody /\ holder' = p
     \/ holder' = Nobody /\ holder \in Processes /\ proc'[holder].at \notin Locked
  /\ proc'[p].at \in Locked => proc[p].at \in Locked \/ holder' = p

\* When p is past the list, no other that is from before the lock goes on.
Sweeps(p) == proc[p].replace /\ ~proc[p].old
SweptAll(p) == Swept(p)' => Swept(p) \/ \A q \in Processes : Sweeps(p) => ~proc'[q].old
SweepKept(p) ==
  Sweeping(p)' => \A q \in Processes : proc'[q].old /\ Sweeps(p) =>
                    q \in proc'[p].others \/ (proc'[p].at = "endStray" /\ q = proc'[p].victim)
OldGoesOn(p) == proc[p].old => proc'[p].at \in {"run", "teardown", "closing"} \/ Ends(p)

HandedKept(p) == proc'[p].handed => Swept(p)'

\* The invariant is kept by a step that treats every process in one of these ways.
LEMMA StepOfOne ==
  ASSUME WorkInv, TypeOK', NEW p \in Processes, Aside(p), Changed(p), LockKept(p), SweptAll(p),
         SweepKept(p), OldGoesOn(p), HandedKept(p)
  PROVE  WorkInv'
<1> USE DEF WorkInv
<1>1. LockedByOne'
  <2> SUFFICES ASSUME NEW q \in Processes, proc'[q].at \in Locked, ~proc'[q].old
               PROVE  holder' = q
    BY DEF LockedByOne
  <2>1. CASE q = p
    BY <2>1, NobodyAssumption
    DEF Changed, Ends, Starts, LockKept, LockedByOne, Locked, Like
  <2>2. CASE q # p
    <3>1. proc[q].at \in Locked /\ ~proc[q].old
      BY <2>2 DEF Aside, Same, Like, Ends, Starts, Locked
    <3> QED BY <3>1, NobodyAssumption DEF LockKept, LockedByOne
  <2> QED BY <2>1, <2>2
<1>2. OldRuns'
  <2> SUFFICES ASSUME NEW q \in Processes, proc'[q].old
               PROVE  /\ proc'[q].at \in {"run", "teardown", "closing"}
                      /\ ~proc'[q].replace /\ ~proc'[q].elevated
    BY DEF OldRuns
  <2>1. CASE q = p
    BY <2>1 DEF Changed, Ends, Starts, OldRuns, OldGoesOn, Like
  <2>2. CASE q # p
    BY <2>2 DEF Aside, Same, Like, Ends, Starts, OldRuns
  <2> QED BY <2>1, <2>2
<1>3. OldSwept'
  <2> SUFFICES ASSUME NEW r \in Processes, NEW q \in Processes,
                      proc'[q].old, ~proc'[r].old, proc'[r].replace
               PROVE  /\ ~Swept(r)'
                      /\ Sweeping(r)' => \/ q \in proc'[r].others
                                         \/ proc'[r].at = "endStray" /\ q = proc'[r].victim
    BY DEF OldSwept
  <2>1. proc[q].old
    BY DEF Aside, Changed, Same, Like, Ends, Starts
  <2>2. CASE r = p
    <3>1. CASE Like(proc'[p], proc[p])
      BY <2>1, <2>2, <3>1 DEF SweptAll, SweepKept, Sweeps, OldSwept, Like
    <3>2. CASE Ends(p) \/ Starts(p)
      BY <2>2, <3>2 DEF Ends, Starts, Swept, SweptAt, AfterList, Sweeping
    <3> QED BY <3>1, <3>2 DEF Changed
  <2>3. CASE r # p
    <3>1. CASE Same(proc'[r], proc[r])
      BY <2>1, <3>1 DEF Same, Like, OldSwept, Swept, Sweeping
    <3>2. CASE Ends(r) \/ Starts(r)
      BY <3>2 DEF Ends, Starts, Swept, SweptAt, AfterList, Sweeping
    <3> QED BY <2>3, <3>1, <3>2 DEF Aside
  <2> QED BY <2>2, <2>3
<1>4. HandedSwept'
  BY DEF Aside, HandedKept, HandedSwept, Same, Like, Ends, Starts, Swept
<1> QED BY <1>1, <1>2, <1>3, <1>4

\* A function changed at one place.
LEMMA Updated ==
  ASSUME proc \in [Processes -> Process], NEW p \in Processes, NEW r \in Process,
         proc' = [proc EXCEPT ![p] = r]
  PROVE  /\ proc' \in [Processes -> Process] /\ proc'[p] = r
         /\ \A q \in Processes \ {p} : proc'[q] = proc[q]
OBVIOUS

LEMMA SameSelf == \A r : Same(r, r) /\ Like(r, r)
BY DEF Same, Like

\* A process goes on to another place.
LEMMA Going ==
  ASSUME WorkInv, NEW p \in Processes, NEW x \in Places, proc' = Moved(p, x),
         holder' \in Processes \cup {Nobody}, pidFile' \in Processes \cup {Nobody},
         socketFile' \in Processes \cup {Nobody}, program' = program,
         x \notin {"strays", "endStray"},
         holder' = holder \/ (holder = Nobody /\ holder' = p),
         x \in Locked => proc[p].at \in Locked \/ holder' = p,
         SweptAt(x, proc[p].handed) => \/ Swept(p) \/ ~proc[p].replace
                                       \/ proc[p].at = "strays" /\ proc[p].others = {},
         proc[p].old => x \in {"run", "teardown", "closing"},
         proc[p].handed => SweptAt(x, proc[p].handed)
  PROVE  WorkInv'
<1>1. proc \in [Processes -> Process] /\ proc[p] \in Process
  BY DEF WorkInv, TypeOK
<1>2. [proc[p] EXCEPT !.at = x] \in Process
  BY <1>1, MovedType
<1>3. /\ proc' \in [Processes -> Process] /\ proc'[p] = [proc[p] EXCEPT !.at = x]
      /\ \A q \in Processes \ {p} : proc'[q] = proc[q]
  BY <1>1, <1>2, Updated DEF Moved
<1>4. Like(proc'[p], proc[p]) /\ proc'[p].at = x /\ proc'[p].handed = proc[p].handed
  BY <1>1, <1>3, MovedType
<1>5. TypeOK'
  BY <1>3 DEF WorkInv, TypeOK
<1>6. Aside(p) /\ Changed(p)
  BY <1>3, <1>4, SameSelf DEF Aside, Changed
<1>7. LockKept(p) /\ OldGoesOn(p) /\ SweepKept(p) /\ HandedKept(p)
  BY <1>4 DEF LockKept, OldGoesOn, SweepKept, Sweeping, HandedKept, Swept
<1>8. SweptAll(p)
  <2> SUFFICES ASSUME Swept(p)', ~Swept(p), NEW q \in Processes, Sweeps(p), proc'[q].old PROVE FALSE
    BY DEF SweptAll
  <2>1. proc[q].old
    BY <1>3, <1>4 DEF Like
  <2> QED BY <1>4, <2>1 DEF WorkInv, OldSwept, Sweeps, Sweeping, Swept
<1> QED BY <1>5, <1>6, <1>7, <1>8, StepOfOne

\* A process ends, itself, and its lock with it.
LEMMA Dying ==
  ASSUME WorkInv, NEW p \in Processes, NEW why \in {"none", "gaveUp"}, Dies(p, why)
  PROVE  WorkInv'
<1>1. proc \in [Processes -> Process] /\ Dead(why) \in Process /\ Dead(why).at = "dead"
      /\ ~Dead(why).old /\ ~Dead(why).handed
  BY DeadType DEF WorkInv, TypeOK
<1>2. /\ proc' \in [Processes -> Process] /\ proc'[p] = Dead(why)
      /\ \A q \in Processes \ {p} : proc'[q] = proc[q]
  BY <1>1, Updated DEF Dies
<1>3. /\ holder' \in {holder, Nobody} /\ (holder' # holder => holder = p)
      /\ UNCHANGED <<pidFile, socketFile, program>>
  BY DEF Dies, Freed
<1>4. TypeOK'
  BY <1>2, <1>3 DEF WorkInv, TypeOK
<1>5. Aside(p) /\ Changed(p) /\ OldGoesOn(p) /\ HandedKept(p)
  BY <1>1, <1>2, SameSelf DEF HandedKept, Aside, Changed, Ends, OldGoesOn
<1>6. LockKept(p) /\ SweptAll(p) /\ SweepKept(p)
  BY <1>1, <1>2, <1>3 DEF LockKept, Locked, SweptAll, SweepKept, Swept, SweptAt, AfterList,
     Sweeping
<1> QED BY <1>4, <1>5, <1>6, StepOfOne

\* A signal: the process it goes to ends, or will; the one that sent it waits for that.
LEMMA Signalled ==
  ASSUME WorkInv, NEW p \in Processes, NEW q \in Processes, NEW then \in {"end", "endStray"},
         Signal(p, q, then), UNCHANGED <<pidFile, socketFile, program>>,
         proc[p].at = (IF then = "end" THEN "wait" ELSE "strays"), ~proc[p].old
  PROVE  WorkInv'
<1> DEFINE r     == Signalling(proc[p], then, q)
           after == [proc EXCEPT ![p] = r]
<1>1. proc \in [Processes -> Process] /\ proc[p] \in Process /\ then \in Places
  BY DEF WorkInv, TypeOK, Places
<1>2. /\ r \in Process /\ Like(r, proc[p]) /\ r.at = then /\ r.victim = q
      /\ r.others = proc[p].others \ {q} /\ r.handed = proc[p].handed
  BY <1>1, SignallingType
<1>3. /\ after \in [Processes -> Process] /\ after[p] = r
      /\ \A o \in Processes \ {p} : after[o] = proc[o]
  BY <1>1, <1>2
<1>4. \/ /\ proc' = [after EXCEPT ![q] = Dead("none")]
         /\ holder' = IF holder = q THEN Nobody ELSE holder
      \/ \E b \in BOOLEAN : proc' = [after EXCEPT ![q].quit = b] /\ UNCHANGED holder
  <2>1. (~Windows \/ proc[q].quit) \in BOOLEAN
    BY WindowsAssumption
  <2> QED BY <2>1 DEF Signal, Freed, Signalling
<1>h. ~proc[p].handed
  BY DEF WorkInv, HandedSwept, Swept, SweptAt, AfterList
<1> HIDE DEF after, r
<1>5. CASE /\ proc' = [after EXCEPT ![q] = Dead("none")]
           /\ holder' = IF holder = q THEN Nobody ELSE holder
  <2>1. Dead("none") \in Process /\ Dead("none").at = "dead" /\ ~Dead("none").old
        /\ ~Dead("none").handed
    BY DeadType
  <2>2. /\ proc' \in [Processes -> Process] /\ proc'[q] = Dead("none")
        /\ \A o \in Processes \ {q} : proc'[o] = after[o]
    BY <1>3, <1>5, <2>1
  <2>3. TypeOK'
    BY <1>5, <2>2 DEF WorkInv, TypeOK
  <2>4. Aside(p) /\ Changed(p) /\ OldGoesOn(p) /\ HandedKept(p)
    BY <1>2, <1>3, <1>h, <2>1, <2>2, SameSelf DEF HandedKept, Aside, Changed, Ends, OldGoesOn
  <2>5. LockKept(p)
    BY <1>2, <1>3, <1>5, <2>1, <2>2 DEF LockKept, Locked
  <2>6. SweptAll(p)
    BY <1>2, <1>3, <2>1, <2>2 DEF SweptAll, Swept, SweptAt, AfterList
  <2>7. SweepKept(p)
    <3> SUFFICES ASSUME Sweeping(p)', NEW o \in Processes, proc'[o].old, Sweeps(p)
                 PROVE  o \in proc'[p].others \/ (proc'[p].at = "endStray" /\ o = proc'[p].victim)
      BY DEF SweepKept
    <3>1. o # q /\ p # q
      BY <2>1, <2>2 DEF Sweeping
    <3>2. proc'[p] = r /\ proc[o].old /\ proc[p].at = "strays"
      BY <1>1, <1>2, <1>3, <2>2, <3>1 DEF Sweeping, Like
    <3>3. o \in proc[p].others
      BY <3>2 DEF WorkInv, OldSwept, Sweeps, Sweeping
    <3> QED BY <1>2, <3>1, <3>2, <3>3
  <2> QED BY <2>3, <2>4, <2>5, <2>6, <2>7, StepOfOne
<1>6. ASSUME NEW b \in BOOLEAN, proc' = [after EXCEPT ![q].quit = b], UNCHANGED holder
      PROVE  WorkInv'
  <2>1. after[q] \in Process
    BY <1>3
  <2>2. [after[q] EXCEPT !.quit = b] \in Process /\ Same([after[q] EXCEPT !.quit = b], after[q])
    BY <2>1, QuitType
  <2>3. /\ proc' \in [Processes -> Process] /\ Same(proc'[q], after[q])
        /\ \A o \in Processes \ {q} : proc'[o] = after[o]
    BY <1>3, <1>6, <2>2
  <2>4. \A o \in Processes : Same(proc'[o], after[o])
    BY <2>3, SameSelf
  <2>5. Same(proc'[p], r) /\ \A o \in Processes \ {p} : Same(proc'[o], proc[o])
    BY <1>3, <2>4
  <2>6. TypeOK'
    BY <1>6, <2>3 DEF WorkInv, TypeOK
  <2>7. /\ Aside(p) /\ Changed(p) /\ OldGoesOn(p) /\ LockKept(p) /\ SweptAll(p)
        /\ HandedKept(p)
    BY <1>2, <1>6, <1>h, <2>5
    DEF HandedKept, Aside, Changed, OldGoesOn, LockKept, Locked, SweptAll, Swept, SweptAt,
        AfterList, Same, Like
  <2>8. SweepKept(p)
    <3> SUFFICES ASSUME Sweeping(p)', NEW o \in Processes, proc'[o].old, Sweeps(p)
                 PROVE  o \in proc'[p].others \/ (proc'[p].at = "endStray" /\ o = proc'[p].victim)
      BY DEF SweepKept
    <3>1. proc[o].old /\ then = "endStray" /\ proc[p].at = "strays"
      BY <1>1, <1>2, <2>5 DEF Sweeping, Same, Like
    <3>2. o \in proc[p].others
      BY <3>1 DEF WorkInv, OldSwept, Sweeps, Sweeping
    <3> QED BY <1>2, <2>5, <3>1, <3>2 DEF Same
  <2> QED BY <2>6, <2>7, <2>8, StepOfOne
<1> QED BY <1>4, <1>5, <1>6

-----------------------------------------------------------------------------
(* The steps.                                                              *)

\* p goes on, and every other stays, is told to quit, or is started.
LEMMA Plainly ==
  ASSUME WorkInv, NEW p \in Processes, proc' \in [Processes -> Process], Aside(p), Changed(p),
         holder' = holder, UNCHANGED program,
         pidFile' \in Processes \cup {Nobody}, socketFile' \in Processes \cup {Nobody},
         proc'[p].at \in Locked => proc[p].at \in Locked, SweptAll(p), SweepKept(p), OldGoesOn(p), HandedKept(p)
  PROVE  WorkInv'
<1>1. TypeOK' /\ LockKept(p)
  BY DEF WorkInv, TypeOK, LockKept
<1> QED BY <1>1, StepOfOne

\* One process changes in what the invariant does not look at.
LEMMA OneSame ==
  ASSUME WorkInv, NEW p \in Processes, NEW r \in Process, Same(r, proc[p]),
         proc' = [proc EXCEPT ![p] = r], UNCHANGED <<holder, pidFile, socketFile, program>>
  PROVE  WorkInv'
<1>1. /\ proc \in [Processes -> Process]
      /\ {holder, pidFile, socketFile} \subseteq Processes \cup {Nobody}
  BY DEF WorkInv, TypeOK
<1>2. /\ proc' \in [Processes -> Process] /\ proc'[p] = r
      /\ \A q \in Processes \ {p} : proc'[q] = proc[q]
  BY <1>1, Updated
<1>3. \A q \in Processes : Same(proc'[q], proc[q])
  BY <1>2, SameSelf
<1>4. /\ Aside(p) /\ Changed(p) /\ SweptAll(p) /\ SweepKept(p) /\ OldGoesOn(p) /\ HandedKept(p)
      /\ proc'[p].at = proc[p].at
  BY <1>3 DEF Aside, Changed, SweptAll, SweepKept, OldGoesOn, Swept, Sweeping, Sweeps, Same, Like,
              HandedKept, HandedSwept, WorkInv, OldSwept, OldRuns
<1> QED BY <1>1, <1>2, <1>4, Plainly

\* That, and another may be told to quit, end, or be started.
LEMMA SameStep ==
  ASSUME WorkInv, NEW p \in Processes, proc' \in [Processes -> Process],
         Same(proc'[p], proc[p]), Aside(p), UNCHANGED <<holder, pidFile, socketFile, program>>
  PROVE  WorkInv'
<1>1. {holder, pidFile, socketFile} \subseteq Processes \cup {Nobody}
  BY DEF WorkInv, TypeOK
<1>2. Changed(p) /\ SweptAll(p) /\ OldGoesOn(p) /\ HandedKept(p)
  BY DEF Changed, SweptAll, OldGoesOn, HandedKept, Swept, Same, Like, WorkInv, HandedSwept, OldRuns
<1>3. SweepKept(p)
  <2> SUFFICES ASSUME Sweeping(p)', NEW q \in Processes, proc'[q].old, Sweeps(p)
               PROVE  q \in proc'[p].others \/ (proc'[p].at = "endStray" /\ q = proc'[p].victim)
    BY DEF SweepKept
  <2>1. proc[q].old /\ Sweeping(p)
    BY DEF Aside, Same, Like, Ends, Starts, Sweeping
  <2> QED BY <2>1 DEF WorkInv, OldSwept, Sweeps, Same
<1> QED BY <1>1, <1>2, <1>3, Plainly DEF Same

\* The lock is let go of for the daemon the task starts.
LEMMA HandsOver ==
  ASSUME WorkInv, NEW p \in Processes, proc' \in [Processes -> Process], Aside(p),
         proc[p].at = "hand", ~proc[p].old, proc'[p].at \in {"handBack", "handing"},
         Like(proc'[p], proc[p]), holder' = IF holder = p THEN Nobody ELSE holder,
         UNCHANGED <<pidFile, socketFile, program>>
  PROVE  WorkInv'
<1>1. TypeOK'
  BY DEF WorkInv, TypeOK
<1>2. Changed(p) /\ OldGoesOn(p)
  BY DEF Changed, OldGoesOn
<1>3. Swept(p) /\ Swept(p)' /\ ~Sweeping(p)'
  BY DEF Swept, SweptAt, AfterList, Sweeping
<1>4. SweptAll(p) /\ SweepKept(p) /\ HandedKept(p)
  BY <1>3 DEF SweptAll, SweepKept, HandedKept
<1>5. LockKept(p)
  BY DEF LockKept, Locked
<1> QED BY <1>1, <1>2, <1>4, <1>5, StepOfOne

\* A process gets the lock, which is free.
LEMMA GetsLock ==
  ASSUME WorkInv, NEW p \in Processes, ~proc[p].old,
         proc[p].at \in {"lock", "wait", "again", "handBack"},
         holder = Nobody, holder' = p, proc' = Moved(p, "write"),
         UNCHANGED <<pidFile, socketFile, task, program, events>>
  PROVE  WorkInv'
<1>1. /\ proc \in [Processes -> Process] /\ proc[p] \in Process /\ "write" \in Places
      /\ {holder, pidFile, socketFile} \subseteq Processes \cup {Nobody}
  BY DEF WorkInv, TypeOK, Places
<1>2. proc[p].handed => Swept(p)
  BY DEF WorkInv, HandedSwept
<1>3. SweptAt("write", proc[p].handed) <=> proc[p].handed
  BY DEF SweptAt, AfterList
<1> QED BY <1>1, <1>2, <1>3, Going

\* A daemon that is past the list goes on to a later place.
Later == {"hand", "handBack", "listen", "serve", "run", "teardown", "closing"}
GoesOn(p, x) ==
  /\ proc' = Moved(p, x)
  /\ holder' = holder /\ pidFile' = pidFile /\ program' = program
  /\ socketFile' \in {socketFile, Nobody, p}
  /\ \/ proc[p].at = "strays" /\ proc[p].others = {}
     \/ proc[p].at \in {"hand", "handing", "listen", "serve", "run", "teardown"}
  /\ proc[p].at = "handing" <=> x = "handBack"
  /\ proc[p].at \in {"run", "teardown"} => x \in {"teardown", "closing"}

LEMMA GoingOn ==
  ASSUME WorkInv, NEW p \in Processes, NEW x \in Later, GoesOn(p, x)
  PROVE  WorkInv'
<1>1. /\ proc \in [Processes -> Process] /\ program' = program
      /\ {holder, pidFile, socketFile} \subseteq Processes \cup {Nobody}
      /\ proc[p].old => proc[p].at \in {"run", "teardown", "closing"}
  BY DEF WorkInv, TypeOK, OldRuns, GoesOn
<1>2. x \in Places /\ x \notin {"strays", "endStray"} /\ (x \in Locked => proc[p].at \in Locked)
  BY DEF GoesOn, Later, Places, Locked
<1>3. proc[p].old => x \in {"run", "teardown", "closing"}
  BY <1>1 DEF GoesOn
<1>4. /\ Swept(p) \/ (proc[p].at = "strays" /\ proc[p].others = {})
      /\ SweptAt(x, proc[p].handed)
  BY DEF GoesOn, Later, Swept, SweptAt, AfterList
<1>5. /\ proc' = Moved(p, x) /\ holder' = holder
      /\ {pidFile', socketFile'} \subseteq Processes \cup {Nobody}
  BY <1>1 DEF GoesOn
<1> QED BY <1>1, <1>2, <1>3, <1>4, <1>5, Going

\* Every step keeps the invariant.
LEMMA WorkInvStep == WorkInv /\ [TakeoverNext]_tvars => WorkInv'
<1> SUFFICES ASSUME WorkInv, [TakeoverNext]_tvars PROVE WorkInv'
  OBVIOUS
<1>0. /\ proc \in [Processes -> Process] /\ \A p \in Processes : proc[p] \in Process
      /\ {holder, pidFile, socketFile} \subseteq Processes \cup {Nobody} /\ program \in Nat
      /\ \A p \in Processes : proc[p].old => proc[p].at \in {"run", "teardown", "closing"}
  BY DEF WorkInv, TypeOK, OldRuns
<1>p. {"write", "ask", "wait", "again", "list", "strays", "hand", "handing", "handBack", "listen",
       "serve", "run", "teardown", "closing"} \subseteq Places
  BY DEF Places
<1>1. ASSUME NEW p \in Processes, TryLock(p) PROVE WorkInv'
  <2>1. proc[p].at = "lock" /\ ~proc[p].old
    BY <1>0, <1>1 DEF TryLock, At
  <2>2. CASE holder = Nobody /\ holder' = p /\ proc' = Moved(p, "write")
             /\ UNCHANGED <<pidFile, socketFile, task, program, events>>
    BY <2>1, <2>2, GetsLock
  <2>3. CASE Goes(p, "ask")
    <3>1. proc' = Moved(p, "ask") /\ UNCHANGED <<holder, pidFile, socketFile, program>>
      BY <2>3 DEF Goes
    <3>2. ~SweptAt("ask", proc[p].handed) /\ ~proc[p].handed /\ "ask" \in Places
      BY <1>p, <2>1 DEF WorkInv, HandedSwept, Swept, SweptAt, AfterList
    <3>3. "ask" \notin Locked
      BY DEF Locked
    <3> QED BY <1>0, <2>1, <3>1, <3>2, <3>3, Going
  <2>4. CASE Dies(p, "none")
    BY <2>4, Dying
  <2> QED BY <1>1, <2>2, <2>3, <2>4 DEF TryLock
<1>2. ASSUME NEW p \in Processes, WritePid(p) PROVE WorkInv'
  <2>1. PICK x \in {"ask", "list", "hand", "listen"} :
          /\ proc' = Moved(p, x) /\ proc[p].at = "write"
          /\ x = "listen" <=> proc[p].handed
          /\ x = "hand" => ~proc[p].replace
    BY <1>2 DEF WritePid, At
  <2>2. holder' = holder /\ pidFile' = p /\ UNCHANGED <<program, socketFile>>
    BY <1>2 DEF WritePid
  <2>3. x \in Places /\ ~proc[p].old /\ proc[p].at \in Locked
    BY <1>0, <1>p, <2>1 DEF Locked
  <2>4. /\ SweptAt(x, proc[p].handed) => Swept(p) \/ ~proc[p].replace
        /\ proc[p].handed => SweptAt(x, proc[p].handed)
    BY <2>1 DEF Swept, SweptAt, AfterList
  <2> QED BY <1>0, <2>1, <2>2, <2>3, <2>4, Going
<1>3. ASSUME NEW p \in Processes, Ask(p) PROVE WorkInv'
  <2>1. /\ proc[p].at = "ask" /\ ~proc[p].old /\ UNCHANGED <<holder, pidFile, socketFile, program>>
        /\ ~proc[p].handed
    BY <1>0, <1>3 DEF Ask, At, WorkInv, HandedSwept, Swept, SweptAt, AfterList
  <2> DEFINE x == IF holder = p THEN "list" ELSE "wait"
             y == IF holder # Nobody /\ Works(holder) THEN holder ELSE Nobody
             r == Asking(proc[p], x, y)
  <2>2. proc' = [q \in Processes |->
                   CASE q = p -> r
                     [] q # p /\ Answering /\ socketFile = q -> [proc[q] EXCEPT !.quit = TRUE]
                     [] OTHER -> proc[q]]
    BY <1>3, Zenon DEF Ask, Asking
  <2>a. x \in Places /\ y \in Processes \cup {Nobody}
    BY <1>0, <1>p
  <2>b. x \in {"list", "wait"} /\ (x = "list" => holder = p)
    OBVIOUS
  <2> HIDE DEF x, y
  <2>3. r \in Process /\ Like(r, proc[p]) /\ r.at = x /\ r.handed = proc[p].handed
    BY <1>0, <2>a, AskedType
  <2> HIDE DEF r
  <2>4. \A q \in Processes : /\ [proc[q] EXCEPT !.quit = TRUE] \in Process
                             /\ Same([proc[q] EXCEPT !.quit = TRUE], proc[q])
    BY <1>0, QuitType
  <2>5. proc' \in [Processes -> Process]
    BY <1>0, <2>2, <2>3, <2>4
  <2>6. proc'[p] = r /\ \A q \in Processes \ {p} : Same(proc'[q], proc[q])
    BY <2>2, <2>4, SameSelf
  <2>7. Aside(p) /\ Changed(p) /\ SweptAll(p) /\ SweepKept(p) /\ OldGoesOn(p) /\ HandedKept(p)
    BY <2>1, <2>b, <2>3, <2>6
    DEF Aside, Changed, SweptAll, SweepKept, OldGoesOn, HandedKept, Swept, SweptAt, AfterList,
        Sweeping
  <2>8. LockKept(p) /\ TypeOK'
    BY <1>0, <2>1, <2>b, <2>3, <2>5, <2>6 DEF LockKept, Locked, TypeOK
  <2> QED BY <2>7, <2>8, StepOfOne
<1>4. ASSUME NEW p \in Processes, Retry(p) PROVE WorkInv'
  <2>1. proc[p].at \in {"wait", "again"} /\ ~proc[p].old
    BY <1>0, <1>4 DEF Retry
  <2> QED BY <1>4, <2>1, GetsLock DEF Retry
<1>5. ASSUME NEW p \in Processes, Expire(p) PROVE WorkInv'
  <2>1. proc[p].at = "wait" /\ ~proc[p].old /\ UNCHANGED <<pidFile, socketFile, program>>
    BY <1>0, <1>5 DEF Expire, At
  <2>2. CASE pidFile # Nobody /\ Signal(p, pidFile, "end")
    BY <1>0, <2>1, <2>2, Signalled
  <2>3. CASE proc' = Moved(p, "again") /\ UNCHANGED holder
    <3>1. ~SweptAt("again", proc[p].handed) /\ ~proc[p].handed /\ "again" \in Places
      BY <1>p, <2>1 DEF WorkInv, HandedSwept, Swept, SweptAt, AfterList
    <3>2. "again" \notin Locked
      BY DEF Locked
    <3> QED BY <1>0, <2>1, <2>3, <3>1, <3>2, Going
  <2> QED BY <1>5, <2>2, <2>3 DEF Expire
<1>6. ASSUME NEW p \in Processes, Ended(p) PROVE WorkInv'
  <2> DEFINE x == IF proc[p].at = "end" THEN "again" ELSE "strays"
             r == Ending(proc[p], x)
             q == proc[p].victim
             goOn == [proc EXCEPT ![p] = r]
  <2>1. /\ proc[p].at \in {"end", "endStray"} /\ ~proc[p].old /\ ~proc[p].handed
        /\ UNCHANGED <<pidFile, socketFile, program>>
    BY <1>0, <1>6 DEF Ended, WorkInv, HandedSwept, Swept, SweptAt, AfterList
  <2>2. x \in Places /\ r \in Process /\ Like(r, proc[p]) /\ r.at = x /\ r.others = proc[p].others
        /\ r.handed = proc[p].handed
    BY <1>0, <1>p, EndedType
  <2>3. IF Running(q) THEN proc' = [goOn EXCEPT ![q] = Dead("none")] /\ Freed(q)
        ELSE proc' = goOn /\ UNCHANGED holder
    BY <1>6 DEF Ended, Ending
  <2>4. /\ goOn \in [Processes -> Process] /\ goOn[p] = r
        /\ \A o \in Processes \ {p} : goOn[o] = proc[o]
    BY <1>0, <2>2
  <2>5. Dead("none") \in Process /\ Dead("none").at = "dead" /\ ~Dead("none").old
        /\ ~Dead("none").handed
    BY DeadType
  <2>6. x \in Locked => proc[p].at \in Locked
    BY <2>1 DEF Locked
  <2>7. x = "strays" => proc[p].at = "endStray"
    BY <2>1
  <2>q. q \in Processes \cup {Nobody}
    BY <1>0 DEF Process
  <2>x. x \in {"again", "strays"}
    OBVIOUS
  <2> HIDE DEF x, r, goOn, q
  <2>8. CASE ~Running(q)
    <3>1. Aside(p) /\ Changed(p) /\ SweptAll(p) /\ OldGoesOn(p) /\ HandedKept(p)
      BY <2>1, <2>2, <2>3, <2>4, <2>8, SameSelf, <2>x
      DEF Aside, Changed, SweptAll, OldGoesOn, HandedKept, Swept, SweptAt, AfterList
    <3>2. SweepKept(p)
      <4> SUFFICES ASSUME Sweeping(p)', NEW o \in Processes, proc'[o].old, Sweeps(p)
                   PROVE  o \in proc[p].others
        BY <2>2, <2>3, <2>4, <2>8 DEF SweepKept
      <4>1. proc[o].old /\ proc[p].at = "endStray"
        BY <2>1, <2>2, <2>3, <2>4, <2>7, <2>8 DEF Like, Sweeping, x
      <4>2. Running(o)
        BY <4>1 DEF WorkInv, OldRuns, Running
      <4> QED BY <2>8, <4>1, <4>2 DEF WorkInv, OldSwept, Sweeps, Sweeping, q
    <3> QED BY <1>0, <2>1, <2>2, <2>3, <2>4, <2>6, <2>8, <3>1, <3>2, Plainly
  <2>9. CASE Running(q)
    <3>1. /\ proc' = [goOn EXCEPT ![q] = Dead("none")]
          /\ holder' = IF holder = q THEN Nobody ELSE holder
      BY <2>3, <2>9 DEF Freed
    <3>2. /\ proc' \in [Processes -> Process]
          /\ \A o \in Processes : proc'[o] = IF o = q THEN Dead("none") ELSE goOn[o]
      BY <2>4, <2>5, <3>1
    <3>3. TypeOK'
      BY <1>0, <2>1, <3>1, <3>2 DEF TypeOK
    <3>4. Aside(p) /\ Changed(p) /\ SweptAll(p) /\ OldGoesOn(p) /\ HandedKept(p)
      BY <2>1, <2>2, <2>4, <2>5, <3>2, SameSelf, <2>x
      DEF Aside, Changed, SweptAll, OldGoesOn, HandedKept, Swept, SweptAt, AfterList, Ends
    <3>5. LockKept(p)
      BY <1>0, <2>q, <2>2, <2>4, <2>5, <2>6, <3>1, <3>2, NobodyAssumption DEF LockKept, Locked
    <3>6. SweepKept(p)
      <4> SUFFICES ASSUME Sweeping(p)', NEW o \in Processes, proc'[o].old, Sweeps(p)
                   PROVE  o \in proc'[p].others
        BY DEF SweepKept
      <4>1. p # q /\ o # q
        BY <2>5, <3>2 DEF Sweeping
      <4>2. proc[o].old /\ proc[p].at = "endStray" /\ proc'[p] = r
        BY <2>1, <2>2, <2>4, <2>7, <3>2, <4>1 DEF Like, Sweeping, x
      <4> QED BY <2>2, <4>1, <4>2 DEF WorkInv, OldSwept, Sweeps, Sweeping, q
    <3> QED BY <3>3, <3>4, <3>5, <3>6, StepOfOne
  <2> QED BY <2>8, <2>9
<1>7. ASSUME NEW p \in Processes, GiveUp(p) PROVE WorkInv'
  BY <1>7, Dying DEF GiveUp
<1>8. ASSUME NEW p \in Processes, ListOthers(p) PROVE WorkInv'
  <2> DEFINE S == {q \in Processes \ {p} : Sees(p, q)}
             r == Listing(proc[p], "strays", S)
  <2>1. /\ proc[p].at = "list" /\ ~proc[p].old /\ UNCHANGED <<holder, pidFile, socketFile, program>>
        /\ ~proc[p].handed /\ proc' = [proc EXCEPT ![p] = r]
    BY <1>0, <1>8 DEF ListOthers, At, WorkInv, HandedSwept, Swept, SweptAt, AfterList, Listing
  <2>2. S \in SUBSET Processes
    OBVIOUS
  <2>3. /\ r \in Process /\ Like(r, proc[p]) /\ r.at = "strays" /\ r.others = S
        /\ r.handed = proc[p].handed
    BY <1>0, <1>p, <2>2, ListedType
  <2> HIDE DEF r
  <2>4. /\ proc' \in [Processes -> Process] /\ proc'[p] = r
        /\ \A o \in Processes \ {p} : proc'[o] = proc[o]
    BY <1>0, <2>1, <2>3, Updated
  <2>5. Aside(p) /\ Changed(p) /\ SweptAll(p) /\ OldGoesOn(p) /\ HandedKept(p)
    BY <2>1, <2>3, <2>4, SameSelf
    DEF Aside, Changed, SweptAll, OldGoesOn, HandedKept, Swept, SweptAt, AfterList
  <2>6. SweepKept(p)
    <3> SUFFICES ASSUME NEW o \in Processes, proc'[o].old PROVE o \in S
      BY <2>3, <2>4 DEF SweepKept
    <3>1. o # p /\ proc[o].old
      BY <2>1, <2>3, <2>4 DEF Like
    <3> QED BY <3>1 DEF WorkInv, OldRuns, Sees, Running
  <2> QED BY <1>0, <2>1, <2>4, <2>5, <2>6, Plainly DEF Locked
<1>9. ASSUME NEW p \in Processes, NextStray(p) PROVE WorkInv'
  <2>1. proc[p].at = "strays" /\ ~proc[p].old /\ UNCHANGED <<pidFile, socketFile, program>>
    BY <1>0, <1>9 DEF NextStray, At
  <2>2. PICK q \in proc[p].others :
          \/ Signal(p, q, "endStray")
          \/ ~Running(q) /\ proc' = [proc EXCEPT ![p].others = @ \ {q}] /\ UNCHANGED holder
    BY <1>9 DEF NextStray
  <2>3. q \in Processes
    BY <1>0 DEF Process
  <2>4. CASE Signal(p, q, "endStray")
    BY <2>1, <2>3, <2>4, Signalled
  <2>5. CASE ~Running(q) /\ proc' = [proc EXCEPT ![p].others = @ \ {q}] /\ UNCHANGED holder
    <3> DEFINE r == Passing(proc[p], q)
    <3>1. r \in Process /\ Like(r, proc[p]) /\ r.at = "strays" /\ r.others = proc[p].others \ {q}
          /\ r.handed = proc[p].handed
      BY <1>0, <2>1, <2>3, PassedType
    <3> HIDE DEF r
    <3>2. /\ proc' \in [Processes -> Process] /\ proc'[p] = r
          /\ \A o \in Processes \ {p} : proc'[o] = proc[o]
      BY <1>0, <2>5, <3>1, Updated DEF r, Passing
    <3>3. Aside(p) /\ Changed(p) /\ SweptAll(p) /\ OldGoesOn(p) /\ HandedKept(p)
      BY <2>1, <3>1, <3>2, SameSelf DEF Aside, Changed, SweptAll, Swept, OldGoesOn, HandedKept,
         WorkInv, HandedSwept, SweptAt, AfterList
    <3>4. SweepKept(p)
      <4> SUFFICES ASSUME NEW o \in Processes, proc'[o].old, Sweeps(p) PROVE o \in proc'[p].others
        BY DEF SweepKept
      <4>1. proc[o].old
        BY <3>1, <3>2 DEF Like
      <4>2. o \in proc[p].others /\ o # q
        BY <1>0, <2>1, <2>3, <2>5, <4>1 DEF WorkInv, OldSwept, Sweeps, Sweeping, Running
      <4> QED BY <3>1, <3>2, <4>2
    <3>5. proc[p].at \in Locked
      BY <2>1 DEF Locked
    <3> QED BY <1>0, <2>1, <2>5, <3>2, <3>3, <3>4, <3>5, Plainly
  <2> QED BY <2>2, <2>4, <2>5
<1>10. ASSUME NEW p \in Processes, TookOver(p) PROVE WorkInv'
  <2>1. PICK x \in Later : GoesOn(p, x)
    BY <1>10, <1>0 DEF TookOver, Goes, At, GoesOn, Later
  <2> QED BY <2>1, GoingOn
<1>11. ASSUME NEW p \in Processes, NoHandOver(p) PROVE WorkInv'
  <2>1. PICK x \in Later : GoesOn(p, x)
    BY <1>11, <1>0 DEF NoHandOver, Goes, At, GoesOn, Later
  <2> QED BY <2>1, GoingOn
<1>12. ASSUME NEW p \in Processes, HandOver(p) PROVE WorkInv'
  <2>1. /\ proc[p].at = "hand" /\ ~proc[p].old /\ UNCHANGED <<pidFile, socketFile, program>>
        /\ holder' = IF holder = p THEN Nobody ELSE holder
    <3>1. proc[p].at = "hand" /\ Freed(p) /\ UNCHANGED <<pidFile, socketFile, program>>
      BY <1>12, Zenon DEF HandOver, At
    <3> QED BY <1>0, <3>1 DEF Freed
  <2>2. ASSUME NEW x \in {"handBack", "handing"}
        PROVE /\ Handing(proc[p], x) \in Process /\ Like(Handing(proc[p], x), proc[p])
              /\ Handing(proc[p], x).at = x
    <3>1. x \in Places
      BY <1>p, <2>2
    <3> QED BY <1>0, <3>1, HandedType
  <2>3. CASE proc' = [proc EXCEPT ![p].at = "handBack", ![p].handed = TRUE]
    <3>1. proc' = [proc EXCEPT ![p] = Handing(proc[p], "handBack")]
      BY <2>3 DEF Handing
    <3>2. /\ proc' \in [Processes -> Process] /\ proc'[p] = Handing(proc[p], "handBack")
          /\ \A o \in Processes \ {p} : proc'[o] = proc[o]
      BY <1>0, <2>2, <3>1, Updated
    <3>3. Aside(p) /\ proc'[p].at = "handBack" /\ Like(proc'[p], proc[p])
      BY <2>2, <3>2, SameSelf DEF Aside
    <3> QED BY <2>1, <3>2, <3>3, HandsOver
  <2>4. ASSUME NEW q \in Processes, NEW elevated \in BOOLEAN, Free(q),
               proc' = [proc EXCEPT ![p].at = "handing", ![p].handed = TRUE,
                                    ![q] = [Born(q, FALSE) EXCEPT !.fromTask = TRUE,
                                                                  !.elevated = elevated]]
        PROVE  WorkInv'
    <3> DEFINE b == [Born(q, FALSE) EXCEPT !.fromTask = TRUE, !.elevated = elevated]
               after == [proc EXCEPT ![p] = Handing(proc[p], "handing")]
    <3>0. FALSE \in BOOLEAN
      OBVIOUS
    <3>1. b \in Process /\ b.at = "lock" /\ ~b.old /\ ~b.handed
      BY <1>0, <3>0, BornElevated, Zenon
    <3>2. proc[q].at = "unborn"
      BY <2>4 DEF Free, At
    <3>3. proc' = [after EXCEPT ![q] = b]
      BY <2>4 DEF Handing
    <3>4. /\ after \in [Processes -> Process] /\ after[p] = Handing(proc[p], "handing")
          /\ \A o \in Processes \ {p} : after[o] = proc[o]
      BY <1>0, <2>2
    <3> HIDE DEF b, after
    <3>5. /\ proc' \in [Processes -> Process] /\ proc'[q] = b
          /\ \A o \in Processes \ {q} : proc'[o] = after[o]
      BY <3>1, <3>3, <3>4
    <3>6. Aside(p) /\ proc'[p].at = "handing" /\ Like(proc'[p], proc[p])
      BY <2>1, <2>2, <3>1, <3>2, <3>4, <3>5, SameSelf DEF Aside, Starts
    <3> QED BY <2>1, <3>5, <3>6, HandsOver
  <2> QED BY <1>12, <2>3, <2>4, Zenon DEF HandOver
<1>13. ASSUME NEW p \in Processes, HandedOver(p) PROVE WorkInv'
  BY <1>13, Dying DEF HandedOver
<1>14. ASSUME NEW p \in Processes, HandingExpires(p) PROVE WorkInv'
  <2>1. PICK x \in Later : GoesOn(p, x)
    BY <1>14, <1>0 DEF HandingExpires, Goes, At, GoesOn, Later
  <2> QED BY <2>1, GoingOn
<1>15. ASSUME NEW p \in Processes, HandBack(p) PROVE WorkInv'
  <2>1. proc[p].at = "handBack" /\ ~proc[p].old
    BY <1>0, <1>15 DEF HandBack, At
  <2>2. CASE holder = Nobody /\ holder' = p /\ proc' = Moved(p, "write")
             /\ UNCHANGED <<pidFile, socketFile, task, program, events>>
    BY <2>1, <2>2, GetsLock
  <2>3. CASE Dies(p, "none")
    BY <2>3, Dying
  <2> QED BY <1>15, <2>2, <2>3 DEF HandBack
<1>16. ASSUME NEW p \in Processes, Listen(p) PROVE WorkInv'
  <2>1. PICK x \in Later : GoesOn(p, x)
    BY <1>16, <1>0 DEF Listen, Goes, At, GoesOn, Later
  <2> QED BY <2>1, GoingOn
<1>17. ASSUME NEW p \in Processes, StartDesktop(p) PROVE WorkInv'
  <2>1. PICK x \in Later : GoesOn(p, x)
    BY <1>17, <1>0 DEF StartDesktop, Goes, At, GoesOn, Later
  <2> QED BY <2>1, GoingOn
<1>18. ASSUME NEW p \in Processes, Quit(p) PROVE WorkInv'
  <2>1. PICK x \in Later : GoesOn(p, x)
    BY <1>18, <1>0 DEF Quit, Goes, At, GoesOn, Later
  <2> QED BY <2>1, GoingOn
<1>19. ASSUME NEW p \in Processes, TearDown(p) PROVE WorkInv'
  <2>1. PICK x \in Later : GoesOn(p, x)
    BY <1>19, <1>0 DEF TearDown, Goes, At, GoesOn, Later
  <2> QED BY <2>1, GoingOn
<1>20. ASSUME NEW p \in Processes, Exit(p) PROVE WorkInv'
  BY <1>20, Dying DEF Exit
<1>21. ASSUME NEW p \in Processes, StartOld(p) PROVE WorkInv'
  <2> DEFINE r == [Unborn EXCEPT !.at = "run", !.old = TRUE]
  <2>1. r \in Process /\ r.at = "run" /\ r.old /\ ~r.replace /\ ~r.elevated /\ ~r.handed
    BY OldType
  <2>2. /\ proc' = [proc EXCEPT ![p] = r] /\ (\A q \in Processes : proc[q].at = "unborn")
        /\ UNCHANGED <<holder, pidFile, program>> /\ socketFile' \in {p, Nobody}
    BY <1>21 DEF StartOld, At
  <2> HIDE DEF r
  <2>3. /\ proc' \in [Processes -> Process] /\ proc'[p] = r
        /\ \A q \in Processes \ {p} : proc'[q] = proc[q]
    BY <1>0, <2>1, <2>2, Updated
  <2>4. TypeOK'
    BY <1>0, <2>2, <2>3 DEF TypeOK
  <2>5. \A q \in Processes : q # p => proc'[q].at = "unborn"
    BY <2>2, <2>3
  <2>6. LockedByOne' /\ OldRuns' /\ OldSwept' /\ HandedSwept'
    BY <2>1, <2>2, <2>3, <2>5
    DEF WorkInv, LockedByOne, Locked, OldRuns, OldSwept, HandedSwept, Swept, SweptAt, AfterList,
        Sweeping
  <2> QED BY <2>4, <2>6 DEF WorkInv
<1>22. ASSUME NEW p \in Processes, Hang(p) PROVE WorkInv'
  <2>1. proc' = [proc EXCEPT ![p].hung = TRUE] /\ UNCHANGED <<holder, pidFile, socketFile, program>>
    BY <1>22 DEF Hang
  <2>2. [proc[p] EXCEPT !.hung = TRUE] \in Process /\ Same([proc[p] EXCEPT !.hung = TRUE], proc[p])
    BY <1>0, HungType
  <2> QED BY <2>1, <2>2, OneSame
<1>23. ASSUME NEW p \in Processes, AskedToQuit(p) PROVE WorkInv'
  <2>1. proc' = [proc EXCEPT ![p].quit = TRUE] /\ UNCHANGED <<holder, pidFile, socketFile, program>>
    BY <1>23 DEF AskedToQuit
  <2>2. [proc[p] EXCEPT !.quit = TRUE] \in Process /\ Same([proc[p] EXCEPT !.quit = TRUE], proc[p])
    BY <1>0, QuitType
  <2> QED BY <2>1, <2>2, OneSame
<1>24. ASSUME NEW p \in Processes, LookForUpdate(p) PROVE WorkInv'
  <2>1. /\ proc[p].at = "run" /\ UNCHANGED <<holder, pidFile, socketFile, program>>
    BY <1>24 DEF LookForUpdate, At
  <2>2. CASE proc' = [proc EXCEPT ![p].seen = program]
    <3>1. /\ [proc[p] EXCEPT !.seen = program] \in Process
          /\ Same([proc[p] EXCEPT !.seen = program], proc[p])
      BY <1>0, LookedType
    <3> QED BY <2>1, <2>2, <3>1, OneSame
  <2>3. ASSUME NEW q \in Processes, Free(q),
               proc' = [proc EXCEPT ![p].born = program, ![q] = Born(q, TRUE)]
        PROVE  WorkInv'
    <3> DEFINE r == [proc[p] EXCEPT !.born = program]
               after == [proc EXCEPT ![p] = r]
    <3>1. r \in Process /\ Same(r, proc[p])
      BY <1>0, LookedType
    <3>2. /\ Born(q, TRUE) \in Process /\ Born(q, TRUE).at = "lock" /\ ~Born(q, TRUE).old
          /\ ~Born(q, TRUE).handed /\ proc[q].at = "unborn"
      BY <1>0, <2>3, BornType DEF Free, At
    <3>3. proc' = [after EXCEPT ![q] = Born(q, TRUE)]
      BY <2>3
    <3>4. /\ after \in [Processes -> Process] /\ after[p] = r
          /\ \A o \in Processes \ {p} : after[o] = proc[o]
      BY <1>0, <3>1
    <3> HIDE DEF r, after
    <3>5. /\ proc' \in [Processes -> Process] /\ proc'[q] = Born(q, TRUE)
          /\ \A o \in Processes \ {q} : proc'[o] = after[o]
      BY <3>2, <3>3, <3>4
    <3>6. q # p
      BY <2>1, <3>2
    <3>7. Same(proc'[p], proc[p]) /\ Aside(p)
      BY <3>1, <3>2, <3>4, <3>5, <3>6, SameSelf DEF Aside, Starts
    <3> QED BY <1>0, <2>1, <3>5, <3>7, SameStep
  <2> QED BY <1>24, <2>2, <2>3 DEF LookForUpdate
<1>25. ASSUME NEW p \in Processes, NEW replace \in BOOLEAN, Start(p, replace) PROVE WorkInv'
  <2>1. PICK elevated \in BOOLEAN :
          proc' = [proc EXCEPT ![p] = [Born(p, replace) EXCEPT !.elevated = elevated]]
    BY <1>25, WindowsAssumption DEF Start
  <2> DEFINE r == [Born(p, replace) EXCEPT !.elevated = elevated]
  <2>2. r \in Process /\ r.at = "lock" /\ ~r.old /\ ~r.handed
    BY <1>0, BornElevated, Zenon
  <2>3. proc[p].at = "unborn" /\ UNCHANGED <<holder, pidFile, socketFile, program>>
    BY <1>25 DEF Start, Free, At
  <2> HIDE DEF r
  <2>4. /\ proc' \in [Processes -> Process] /\ proc'[p] = r
        /\ \A q \in Processes \ {p} : proc'[q] = proc[q]
    BY <1>0, <2>1, <2>2, Updated DEF r
  <2>5. Aside(p) /\ Changed(p) /\ SweptAll(p) /\ SweepKept(p) /\ OldGoesOn(p) /\ HandedKept(p)
    BY <1>0, <2>2, <2>3, <2>4, SameSelf
    DEF Aside, Changed, Starts, SweptAll, SweepKept, OldGoesOn, HandedKept, Swept, SweptAt,
        AfterList, Sweeping
  <2>6. proc'[p].at \notin Locked
    BY <2>2, <2>4 DEF Locked
  <2> QED BY <1>0, <2>3, <2>4, <2>5, <2>6, Plainly
<1>26. CASE SetTask \/ WriteProgram \/ UNCHANGED tvars
  BY <1>26 DEF SetTask, WriteProgram, tvars, WorkInv, TypeOK, LockedByOne, OldRuns, OldSwept,
     HandedSwept, Swept, Sweeping
<1> QED BY <1>1, <1>2, <1>3, <1>4, <1>5, <1>6, <1>7, <1>8, <1>9, <1>10, <1>11, <1>12, <1>13,
           <1>14, <1>15, <1>16, <1>17, <1>18, <1>19, <1>20, <1>21, <1>22, <1>23, <1>24, <1>25,
           <1>26 DEF TakeoverNext, Step

\* It holds at first.
LEMMA WorkInvInit == TakeoverInit => WorkInv
<1> SUFFICES ASSUME TakeoverInit PROVE WorkInv
  OBVIOUS
<1>1. Unborn \in Process /\ proc = [p \in Processes |-> Unborn]
  BY UnbornType DEF TakeoverInit
<1>2. TypeOK
  BY <1>1 DEF TypeOK, TakeoverInit
<1>3. \A p \in Processes : proc[p].at = "unborn" /\ ~proc[p].old /\ ~proc[p].handed
  BY <1>1, UnbornType
<1>4. LockedByOne /\ OldRuns /\ OldSwept /\ HandedSwept
  BY <1>3 DEF LockedByOne, Locked, OldRuns, OldSwept, HandedSwept
<1> QED BY <1>2, <1>4 DEF WorkInv

\* And it means that one daemon works.
LEMMA WorkInvMeansOne == WorkInv => OneAtWork
<1> SUFFICES ASSUME WorkInv, NEW p \in Processes, NEW q \in Processes, p # q, Works(p), Works(q)
             PROVE  \E old \in {p, q} : proc[old].old /\ \A r \in {p, q} : ~proc[r].replace
  BY DEF OneAtWork
<1>1. \A r \in {p, q} : proc[r].at \in Locked /\ Swept(r)
  BY DEF Works, Locked, Swept, SweptAt, AfterList
<1>2. proc[p].old \/ proc[q].old
  BY <1>1 DEF WorkInv, LockedByOne
<1>3. \A r \in {p, q} : ~proc[r].replace
  BY <1>1, <1>2 DEF WorkInv, OldRuns, OldSwept
<1> QED BY <1>2, <1>3

\* However starts, replacements, updates, handing over to an administrator's daemon and
\* ends interleave, never do two daemons that take the lock work next to each other, and
\* one started with --replace never works next to one from before the lock.
THEOREM OneDaemonWorks == TakeoverSpec => []OneAtWork
<1>1. TakeoverInit => WorkInv
  BY WorkInvInit
<1>2. WorkInv /\ [TakeoverNext]_tvars => WorkInv'
  BY WorkInvStep
<1>3. WorkInv => OneAtWork
  BY WorkInvMeansOne
<1> QED BY <1>1, <1>2, <1>3, PTL DEF TakeoverSpec


-----------------------------------------------------------------------------
(* DictionaryImport: an importer's temporary file is its own, and the      *)
(* dictionary is always one whole archive. Who works on the temporary file *)
(* holds the lock. What is in the file and what waits in the queue of the  *)
(* pool are, one after the other, the first banks of the archive in the    *)
(* order of compile(); and when nothing waits any more, the file has them  *)
(* all.                                                                    *)

Working == {"look", "get", "drain", "index", "move", "clean"}

-----------------------------------------------------------------------------
(* The banks of an archive, in order.                                      *)

BanksOf(a) == {Banks(a)[k] : k \in 1 .. Cardinality(a.banks)}
Entries(a) == [bank : BanksOf(a), done : BOOLEAN]

LEMMA BanksInOrder ==
  ASSUME NEW a \in Archives
  PROVE  /\ Cardinality(a.banks) \in Nat
         /\ Banks(a) \in Seq(BanksOf(a)) /\ Len(Banks(a)) = Cardinality(a.banks)
<1>1. Cardinality(a.banks) \in Nat
  BY FS_CardinalityType, ImportAssumption
<1> DEFINE n == Cardinality(a.banks)
           bank(k) == CHOOSE b \in a.banks :
                        Cardinality({other \in a.banks : Earlier(other, b)}) = k - 1
<1>2. Banks(a) = [k \in 1 .. n |-> bank(k)]
  BY DEF Banks
<1>3. BanksOf(a) = {Banks(a)[k] : k \in 1 .. n}
  BY DEF BanksOf
<1> HIDE DEF n, bank
<1>4. Banks(a) \in Seq(BanksOf(a)) /\ Len(Banks(a)) = n
  BY <1>1, <1>2, <1>3 DEF n
<1> QED BY <1>1, <1>4 DEF n

\* What is written, and then what waits, are the first banks.
InOrder(a, next, pending, written) ==
  /\ pending \in Seq(Entries(a)) /\ written \in Seq(BanksOf(a))
  /\ next = Len(written) + Len(pending) + 1
  /\ Len(written) + Len(pending) <= Len(Banks(a))
  /\ \A k \in 1 .. Len(written) : written[k] = Banks(a)[k]
  /\ \A k \in 1 .. Len(pending) : pending[k].bank = Banks(a)[Len(written) + k]

\* When nothing waits, everything is written.
AllTaken(a, pending, written) == pending = <<>> => Len(written) = Len(Banks(a))

LEMMA NothingYet ==
  ASSUME NEW a \in Archives
  PROVE  InOrder(a, 1, <<>>, <<>>)
<1>1. Len(Banks(a)) \in Nat
  BY BanksInOrder
<1>2. <<>> \in Seq(Entries(a)) /\ <<>> \in Seq(BanksOf(a)) /\ Len(<<>>) = 0
  OBVIOUS
<1> QED BY <1>1, <1>2 DEF InOrder

\* The bank waited for goes into the file.
LEMMA FirstTaken ==
  ASSUME NEW a \in Archives, NEW next, NEW pending, NEW written,
         InOrder(a, next, pending, written), pending # <<>>
  PROVE  /\ InOrder(a, next, RemoveAt(pending, 1), written \o <<pending[1].bank>>)
         /\ RemoveAt(pending, 1) = Tail(pending)
<1>1. /\ pending \in Seq(Entries(a)) /\ written \in Seq(BanksOf(a))
      /\ next = Len(written) + Len(pending) + 1
      /\ Len(written) + Len(pending) <= Len(Banks(a))
      /\ \A k \in 1 .. Len(written) : written[k] = Banks(a)[k]
      /\ \A k \in 1 .. Len(pending) : pending[k].bank = Banks(a)[Len(written) + k]
  BY DEF InOrder
<1>2. pending[1] \in Entries(a) /\ 1 \in 1 .. Len(pending)
  BY <1>1
<1>3. pending[1].bank \in BanksOf(a) /\ pending[1].bank = Banks(a)[Len(written) + 1]
  BY <1>1, <1>2 DEF Entries
<1> DEFINE b == pending[1].bank
           rest == Tail(pending)
           more == written \o <<b>>
<1> HIDE DEF b
<1>4. /\ rest \in Seq(Entries(a)) /\ Len(rest) = Len(pending) - 1
      /\ \A k \in 1 .. Len(rest) : rest[k] = pending[k + 1]
  BY <1>1
<1>5. /\ more \in Seq(BanksOf(a)) /\ Len(more) = Len(written) + 1
      /\ more[Len(written) + 1] = b /\ \A k \in 1 .. Len(written) : more[k] = written[k]
  BY <1>1, <1>3 DEF b
<1>6. RemoveAt(pending, 1) = rest
  <2>1. SubSeq(pending, 1, 1 - 1) = <<>> /\ SubSeq(pending, 1 + 1, Len(pending)) = rest
    BY <1>1
  <2>2. <<>> \o rest = rest
    BY <1>4
  <2> QED BY <2>1, <2>2 DEF RemoveAt
<1> HIDE DEF rest, more
<1>7. Len(written) \in Nat /\ Len(pending) \in Nat
  BY <1>1
<1>8. ASSUME NEW k \in 1 .. Len(rest) PROVE rest[k].bank = Banks(a)[Len(more) + k]
  <2>1. k + 1 \in 1 .. Len(pending) /\ Len(written) + (k + 1) = Len(more) + k
    BY <1>4, <1>5, <1>7
  <2> QED BY <1>1, <1>4, <2>1
<1>9. ASSUME NEW k \in 1 .. Len(more) PROVE more[k] = Banks(a)[k]
  <2>1. k \in 1 .. Len(written) \/ k = Len(written) + 1
    BY <1>5, <1>7
  <2> QED BY <1>1, <1>3, <1>5, <2>1 DEF b
<1>10. next = Len(more) + Len(rest) + 1 /\ Len(more) + Len(rest) <= Len(Banks(a))
  BY <1>1, <1>4, <1>5, <1>7
<1>11. InOrder(a, next, rest, more)
  BY <1>4, <1>5, <1>8, <1>9, <1>10 DEF InOrder
<1> QED BY <1>6, <1>11, Zenon DEF b, more, rest

-----------------------------------------------------------------------------
(* fill()                                                                  *)

IsTask(t) ==
  t = [at |-> t.at, archive |-> t.archive, next |-> t.next, pending |-> t.pending,
       inFlight |-> t.inFlight, stop |-> t.stop, end |-> t.end]

LEMMA FittingBounds ==
  ASSUME NEW t, t.archive \in Archives, t.next \in Nat \ {0}, t.next <= Len(Banks(t.archive)) + 1
  PROVE  /\ Fitting(t) \in Nat /\ t.next + Fitting(t) <= Len(Banks(t.archive)) + 1
         /\ t.pending = <<>> /\ Fitting(t) = 0 => t.next = Len(Banks(t.archive)) + 1
<1> DEFINE all == Len(Banks(t.archive))
           left == all - t.next + 1
           set == {n \in 1 .. 2 * Threads : \A m \in 1 .. n : Fits(t, m)}
<1>1. all \in Nat /\ left \in Nat /\ Threads \in Nat \ {0}
  BY BanksInOrder, ImportAssumption
<1>2. ASSUME NEW n \in set PROVE n \in 1 .. left
  <2>1. n \in 1 .. n /\ n \in 1 .. 2 * Threads
    BY <1>1
  <2>2. Fits(t, n)
    BY <1>2, <2>1
  <2>3. t.next + n - 1 <= all
    BY <2>2 DEF Fits
  <2> QED BY <1>1, <2>1, <2>3
<1>3. set \in SUBSET (1 .. left) /\ Fitting(t) = Cardinality(set)
  BY <1>2 DEF Fitting
<1>4. IsFiniteSet(1 .. left) /\ Cardinality(1 .. left) = left
  BY <1>1, FS_Interval
<1>5. IsFiniteSet(set) /\ Cardinality(set) <= left /\ Cardinality(set) \in Nat
  <2> HIDE DEF set, left
  <2> QED BY <1>3, <1>4, FS_Subset, FS_CardinalityType
<1>6. ASSUME t.pending = <<>>, Fitting(t) = 0, t.next # all + 1 PROVE FALSE
  <2>1. t.next <= all
    BY <1>1, <1>6
  <2>2. Fits(t, 1)
    <3>1. Len(t.pending) + 1 = 1 /\ 1 <= 2 * Threads /\ t.next + 1 - 1 = t.next
      BY <1>1, <1>6
    <3> QED BY <2>1, <3>1 DEF Fits
  <2>3. 1 \in 1 .. 2 * Threads /\ \A m \in 1 .. 1 : m = 1
    BY <1>1
  <2>4. 1 \in set
    BY <2>2, <2>3
  <2> HIDE DEF set
  <2>5. set # {}
    BY <2>4
  <2>6. Cardinality(set) # 0
    BY <1>5, <2>5, FS_EmptySet
  <2> QED BY <1>3, <1>6, <2>6
<1>7. t.next + Fitting(t) <= all + 1
  <2> DEFINE n == Fitting(t)
  <2>1. n \in Nat /\ n <= left
    BY <1>3, <1>5
  <2> HIDE DEF n
  <2> QED BY <1>1, <2>1 DEF n
<1> QED BY <1>3, <1>5, <1>6, <1>7

LEMMA TaskAt ==
  ASSUME NEW t, IsTask(t), NEW x
  PROVE  /\ IsTask([t EXCEPT !.at = x]) /\ [t EXCEPT !.at = x].at = x
         /\ [t EXCEPT !.at = x].archive = t.archive /\ [t EXCEPT !.at = x].next = t.next
         /\ [t EXCEPT !.at = x].pending = t.pending
BY DEF IsTask

LEMMA TaskEnd ==
  ASSUME NEW t, IsTask(t), NEW x
  PROVE  /\ IsTask([t EXCEPT !.end = x]) /\ [t EXCEPT !.end = x].at = t.at
         /\ [t EXCEPT !.end = x].archive = t.archive /\ [t EXCEPT !.end = x].next = t.next
         /\ [t EXCEPT !.end = x].pending = t.pending
BY DEF IsTask

LEMMA TaskStop ==
  ASSUME NEW t, IsTask(t), NEW x
  PROVE  /\ IsTask([t EXCEPT !.stop = x]) /\ [t EXCEPT !.stop = x].at = t.at
         /\ [t EXCEPT !.stop = x].archive = t.archive /\ [t EXCEPT !.stop = x].next = t.next
         /\ [t EXCEPT !.stop = x].pending = t.pending
BY DEF IsTask

LEMMA TaskPending ==
  ASSUME NEW t, IsTask(t), NEW x
  PROVE  /\ IsTask([t EXCEPT !.pending = x]) /\ [t EXCEPT !.pending = x].at = t.at
         /\ [t EXCEPT !.pending = x].archive = t.archive /\ [t EXCEPT !.pending = x].next = t.next
         /\ [t EXCEPT !.pending = x].pending = x
BY DEF IsTask

LEMMA TaskInFlight ==
  ASSUME NEW t, IsTask(t), NEW x
  PROVE  /\ IsTask([t EXCEPT !.inFlight = x]) /\ [t EXCEPT !.inFlight = x].at = t.at
         /\ [t EXCEPT !.inFlight = x].archive = t.archive /\ [t EXCEPT !.inFlight = x].next = t.next
         /\ [t EXCEPT !.inFlight = x].pending = t.pending
BY DEF IsTask

LEMMA TaskNext ==
  ASSUME NEW t, IsTask(t), NEW x
  PROVE  /\ IsTask([t EXCEPT !.next = x]) /\ [t EXCEPT !.next = x].at = t.at
         /\ [t EXCEPT !.next = x].archive = t.archive /\ [t EXCEPT !.next = x].next = x
         /\ [t EXCEPT !.next = x].pending = t.pending
BY DEF IsTask

LEMMA TaskArchive ==
  ASSUME NEW t, IsTask(t), NEW x
  PROVE  /\ IsTask([t EXCEPT !.archive = x]) /\ [t EXCEPT !.archive = x].at = t.at
         /\ [t EXCEPT !.archive = x].archive = x /\ [t EXCEPT !.archive = x].next = t.next
         /\ [t EXCEPT !.archive = x].pending = t.pending
BY DEF IsTask

LEMMA Joined ==
  ASSUME NEW a, NEW s \in Seq(Entries(a)), NEW u \in Seq(Entries(a))
  PROVE  /\ s \o u \in Seq(Entries(a)) /\ Len(s \o u) = Len(s) + Len(u)
         /\ \A k \in 1 .. Len(s) : (s \o u)[k] = s[k]
         /\ \A k \in 1 .. Len(u) : (s \o u)[Len(s) + k] = u[k]
<1>1. \A k \in 1 .. Len(s) + Len(u) :
        (s \o u)[k] = IF k <= Len(s) THEN s[k] ELSE u[k - Len(s)]
  BY ConcatProperties
<1>2. Len(s) \in Nat /\ Len(u) \in Nat
  OBVIOUS
<1>3. \A k \in 1 .. Len(u) : Len(s) + k \in 1 .. Len(s) + Len(u) /\ ~(Len(s) + k <= Len(s))
                        /\ Len(s) + k - Len(s) = k
  BY <1>2
<1> QED BY <1>1, <1>3

\* What fill() changes.
LEMMA FilledTask ==
  ASSUME NEW t, IsTask(t)
  PROVE  /\ IsTask(Filled(t)) /\ Filled(t).at = t.at /\ Filled(t).archive = t.archive
         /\ Filled(t).next = t.next + Fitting(t)
         /\ Filled(t).pending = t.pending \o Submitted(Banks(t.archive), t.next, Fitting(t))
<1> DEFINE next == t.next + Fitting(t)
           pending == t.pending \o Submitted(Banks(t.archive), t.next, Fitting(t))
           inFlight == t.inFlight + Bytes(Banks(t.archive), t.next, Fitting(t))
           t1 == [t EXCEPT !.next = next]
           t2 == [t1 EXCEPT !.pending = pending]
<1>1. Filled(t) = [t EXCEPT !.next = next, !.pending = pending, !.inFlight = inFlight]
  BY DEF Filled
<1> HIDE DEF next, pending, inFlight
<1>2. IsTask(t1) /\ t1.at = t.at /\ t1.archive = t.archive /\ t1.next = next
  BY TaskNext
<1>3. Filled(t) = [t2 EXCEPT !.inFlight = inFlight]
  BY <1>1, Zenon
<1> HIDE DEF t1
<1>4. /\ IsTask(t2) /\ t2.at = t.at /\ t2.archive = t.archive /\ t2.next = next
      /\ t2.pending = pending
  BY <1>2, TaskPending
<1> HIDE DEF t2
<1>5. /\ IsTask(Filled(t)) /\ Filled(t).at = t.at /\ Filled(t).archive = t.archive
      /\ Filled(t).next = next /\ Filled(t).pending = pending
  BY <1>3, <1>4, TaskInFlight
<1> QED BY <1>5 DEF next, pending

\* After fill() the queue goes on in the order of the banks, and is only empty at the end.
LEMMA FilledInOrder ==
  ASSUME NEW t, IsTask(t), t.archive \in Archives, NEW written,
         InOrder(t.archive, t.next, t.pending, written)
  PROVE  /\ InOrder(t.archive, Filled(t).next, Filled(t).pending, written)
         /\ AllTaken(t.archive, Filled(t).pending, written)
<1> DEFINE a == t.archive
           banks == Banks(a)
           n == Fitting(t)
           more == Submitted(banks, t.next, n)
           pending == t.pending \o more
<1>1. /\ t.pending \in Seq(Entries(a)) /\ written \in Seq(BanksOf(a))
      /\ t.next = Len(written) + Len(t.pending) + 1
      /\ Len(written) + Len(t.pending) <= Len(banks)
      /\ \A k \in 1 .. Len(written) : written[k] = banks[k]
      /\ \A k \in 1 .. Len(t.pending) : t.pending[k].bank = banks[Len(written) + k]
  BY DEF InOrder
<1>2. Len(written) \in Nat /\ Len(t.pending) \in Nat
  BY <1>1
<1>3. Len(banks) \in Nat /\ banks \in Seq(BanksOf(a))
  BY BanksInOrder
<1>4. t.next \in Nat \ {0} /\ t.next <= Len(banks) + 1
  BY <1>1, <1>2, <1>3
<1>5. /\ n \in Nat /\ t.next + n <= Len(banks) + 1
      /\ t.pending = <<>> /\ n = 0 => t.next = Len(banks) + 1
  BY <1>4, FittingBounds
<1> HIDE DEF n
<1>6. ASSUME NEW k \in 1 .. n
      PROVE  t.next + k - 1 \in 1 .. Len(banks) /\ banks[t.next + k - 1] \in BanksOf(a)
  <2>1. t.next + k - 1 \in 1 .. Len(banks)
    BY <1>3, <1>4, <1>5
  <2> QED BY <1>3, <2>1
<1>7. /\ more \in Seq(Entries(a)) /\ Len(more) = n
      /\ \A k \in 1 .. n : more[k].bank = banks[t.next + k - 1]
  <2>1. more = [k \in 1 .. n |-> [bank |-> banks[t.next + k - 1], done |-> FALSE]]
    BY DEF Submitted
  <2>2. \A k \in 1 .. n : [bank |-> banks[t.next + k - 1], done |-> FALSE] \in Entries(a)
    BY <1>6 DEF Entries
  <2> HIDE DEF more, banks
  <2> QED BY <1>5, <2>1, <2>2
<1> HIDE DEF more
<1>8. /\ pending \in Seq(Entries(a)) /\ Len(pending) = Len(t.pending) + n
      /\ \A k \in 1 .. Len(t.pending) : pending[k] = t.pending[k]
      /\ \A k \in 1 .. n : pending[Len(t.pending) + k] = more[k]
  <2> DEFINE s == t.pending
  <2>1. s \in Seq(Entries(a)) /\ more \in Seq(Entries(a)) /\ Len(more) = n
    BY <1>1, <1>7
  <2> HIDE DEF s
  <2>2. s \o more \in Seq(Entries(a)) /\ Len(s \o more) = Len(s) + Len(more)
    BY <2>1, Joined
  <2>3. \A k \in 1 .. Len(s) : (s \o more)[k] = s[k]
    BY <2>1, Joined
  <2>4. \A k \in 1 .. Len(more) : (s \o more)[Len(s) + k] = more[k]
    BY <2>1, Joined
  <2> QED BY <2>1, <2>2, <2>3, <2>4, Zenon DEF s
<1> HIDE DEF pending
<1>9. ASSUME NEW k \in 1 .. Len(pending) PROVE pending[k].bank = banks[Len(written) + k]
  <2>1. CASE k \in 1 .. Len(t.pending)
    BY <1>1, <1>8, <2>1
  <2>2. CASE k \notin 1 .. Len(t.pending)
    <3> DEFINE j == k - Len(t.pending)
    <3>1. j \in 1 .. n /\ k = Len(t.pending) + j /\ t.next + j - 1 = Len(written) + k
      <4>1. k \in 1 .. Len(t.pending) + n /\ t.next = Len(written) + Len(t.pending) + 1
        BY <1>1, <1>8, Zenon
      <4> DEFINE l == Len(t.pending)
                 w == Len(written)
                 next == t.next
      <4>2. /\ k \in 1 .. l + n /\ next = w + l + 1 /\ k \notin 1 .. l
            /\ l \in Nat /\ w \in Nat /\ n \in Nat
        BY <1>2, <1>5, <2>2, <4>1
      <4> HIDE DEF l, w, next
      <4>3. k - l \in 1 .. n /\ k = l + (k - l) /\ next + (k - l) - 1 = w + k
        BY <4>2, SMT
      <4> QED BY <4>3, Zenon DEF l, w, next
    <3> HIDE DEF j
    <3> QED BY <1>7, <1>8, <3>1
  <2> QED BY <2>1, <2>2
<1>10. /\ t.next + n = Len(written) + Len(pending) + 1
       /\ Len(written) + Len(pending) <= Len(banks)
  BY <1>1, <1>2, <1>3, <1>5, <1>8
<1>11. AllTaken(a, pending, written)
  <2>1. ASSUME pending = <<>> PROVE Len(written) = Len(banks)
    <3>1. Len(pending) = 0
      BY <2>1
    <3>2. Len(t.pending) = 0 /\ n = 0
      <4>1. \A l, m \in Nat : l + m = 0 => l = 0 /\ m = 0
        OBVIOUS
      <4>2. Len(t.pending) + n = 0
        BY <1>8, <3>1, Zenon
      <4> QED BY <1>2, <1>5, <4>1, <4>2, Zenon
    <3>3. t.pending = <<>>
      BY <1>1, <3>2
    <3> QED BY <1>1, <1>2, <1>3, <1>5, <3>2, <3>3
  <2> QED BY <2>1 DEF AllTaken
<1>12. InOrder(a, t.next + n, pending, written)
  BY <1>1, <1>8, <1>9, <1>10 DEF InOrder
<1>13. Filled(t).next = t.next + n /\ Filled(t).pending = pending
  BY FilledTask DEF n, pending, more
<1> QED BY <1>11, <1>12, <1>13

-----------------------------------------------------------------------------
(* The invariant.                                                          *)

\* What importer i's task t is, while g holds the lock and f is the temporary file.
GoodTask(t, i, g, f) ==
  /\ IsTask(t)
  /\ t.at # "idle" => t.archive \in Archives
  /\ t.at = "lock" => t.next = 1 /\ t.pending = <<>>
  /\ t.at \notin {"idle", "lock"} => g = i
  /\ t.at \in Working => f.by = i /\ f.archive = t.archive
  /\ t.at \in {"look", "get", "index", "move"} =>
       InOrder(t.archive, t.next, t.pending, f.banks) /\ AllTaken(t.archive, t.pending, f.banks)
  /\ t.at = "get" => t.pending # <<>>
  /\ t.at \in {"index", "move"} => t.pending = <<>>
  /\ t.at = "move" => f.whole = TRUE

IsFile(f) == f = [by |-> f.by, archive |-> f.archive, banks |-> f.banks, whole |-> f.whole]

\* Every file that was moved into place is one archive, whole and in order.
OutputOK ==
  output # NoFile =>
    output.whole = TRUE /\ output.archive \in Archives /\ output.banks = Banks(output.archive)

ImportInv ==
  /\ import = [i \in Importers |-> import[i]]
  /\ \A i \in Importers : GoodTask(import[i], i, guard, temp)
  /\ IsFile(temp) /\ OutputOK

LEMMA IdleIsGood ==
  ASSUME NEW i, NEW g, NEW f, NEW t, IsTask(t), t.at = "idle"
  PROVE  GoodTask(t, i, g, f)
BY DEF GoodTask, Working

LEMMA IdleIsTask == IsTask(Idle) /\ Idle.at = "idle" /\ Idle.pending = <<>> /\ Idle.next = 1
BY DEF Idle, IsTask

LEMMA NoFileIsFile == IsFile(NoFile) /\ NoFile.by = NoImporter
BY DEF IsFile, NoFile, NewFile

LEMMA ImportInvInit == ImportInit => ImportInv
<1> SUFFICES ASSUME ImportInit PROVE ImportInv
  OBVIOUS
<1>1. import = [i \in Importers |-> Idle] /\ temp = NoFile /\ output = NoFile
  BY DEF ImportInit
<1>2. \A i \in Importers : GoodTask(import[i], i, guard, temp)
  BY <1>1, IdleIsGood, IdleIsTask
<1> QED BY <1>1, <1>2, NoFileIsFile DEF ImportInv, OutputOK

\* The lock is another's: the task is not at work, whatever becomes of lock and file.
LEMMA AsideIsGood ==
  ASSUME NEW t, NEW j, NEW g, NEW f, NEW h, NEW e, GoodTask(t, j, g, f), g # j
  PROVE  GoodTask(t, j, h, e)
BY DEF GoodTask, Working

\* A step of one importer: it leaves lock and file alone, or the lock was its own or nobody's.
LEMMA OneSteps ==
  ASSUME ImportInv, NEW i \in Importers, NEW t, import' = [import EXCEPT ![i] = t],
         GoodTask(t, i, guard', temp'), IsFile(temp'), OutputOK',
         UNCHANGED <<guard, temp>> \/ guard \in {i, NoImporter}
  PROVE  ImportInv'
<1>1. import = [j \in Importers |-> import[j]]
  BY DEF ImportInv
<1>2. import' = [j \in Importers |-> import'[j]]
      /\ import'[i] = t /\ \A j \in Importers : j # i => import'[j] = import[j]
  BY <1>1
<1>3. ASSUME NEW j \in Importers PROVE GoodTask(import'[j], j, guard', temp')
  <2>1. CASE j = i
    BY <1>2, <2>1
  <2>2. CASE j # i
    <3>1. GoodTask(import[j], j, guard, temp)
      BY DEF ImportInv
    <3>2. CASE UNCHANGED <<guard, temp>>
      BY <1>2, <2>2, <3>1, <3>2
    <3>3. CASE guard \in {i, NoImporter}
      <4>1. guard # j
        BY <2>2, <3>3, ImportAssumption
      <4> QED BY <1>2, <2>2, <3>1, <4>1, AsideIsGood
    <3> QED BY <3>2, <3>3
  <2> QED BY <2>1, <2>2
<1> QED BY <1>2, <1>3 DEF ImportInv

-----------------------------------------------------------------------------
(* The steps of an importer.                                               *)

\* What ImportGoes and ImportFails make of a task.
LEMMA TaskGoes ==
  ASSUME ImportInv, NEW i \in Importers, NEW x, ImportGoes(i, x)
  PROVE  \E u : /\ import' = [import EXCEPT ![i] = u] /\ IsTask(u) /\ u.at = x
               /\ u.archive = import[i].archive /\ u.next = import[i].next
               /\ u.pending = import[i].pending
<1> DEFINE u == [import[i] EXCEPT !.at = x]
<1>1. IsTask(import[i])
  BY DEF ImportInv, GoodTask
<1>2. import' = [import EXCEPT ![i] = u]
  BY DEF ImportGoes
<1>3. /\ IsTask(u) /\ u.at = x /\ u.archive = import[i].archive /\ u.next = import[i].next
      /\ u.pending = import[i].pending
  BY <1>1, TaskAt
<1> HIDE DEF u
<1> QED BY <1>2, <1>3

LEMMA TaskFails ==
  ASSUME ImportInv, NEW i \in Importers, NEW x, NEW y, ImportFails(i, x, y)
  PROVE  \E u : /\ import' = [import EXCEPT ![i] = u] /\ IsTask(u) /\ u.at = x
               /\ u.archive = import[i].archive /\ u.next = import[i].next
               /\ u.pending = import[i].pending
<1> DEFINE v == [import[i] EXCEPT !.at = x]
           u == [v EXCEPT !.end = y]
<1>1. IsTask(import[i])
  BY DEF ImportInv, GoodTask
<1>2. import' = [import EXCEPT ![i] = u]
  BY DEF ImportFails
<1>3. /\ IsTask(v) /\ v.at = x /\ v.archive = import[i].archive /\ v.next = import[i].next
      /\ v.pending = import[i].pending
  BY <1>1, TaskAt
<1> HIDE DEF v
<1>4. /\ IsTask(u) /\ u.at = x /\ u.archive = import[i].archive /\ u.next = import[i].next
      /\ u.pending = import[i].pending
  BY <1>3, TaskEnd
<1> HIDE DEF u
<1> QED BY <1>2, <1>4

\* A task that goes on to its end: cancelled, failed, or to give the lock back.
LEMMA EndIsGood ==
  ASSUME NEW t, NEW i, NEW g, NEW f, GoodTask(t, i, g, f), NEW u, IsTask(u),
         u.archive = t.archive, u.at = t.at \/ u.at \in {"idle", "drain", "clean", "unlock"},
         u.at \in {"drain", "clean"} => t.at \in Working,
         u.at = "unlock" => t.at \in Working,
         u.at = t.at => u.next = t.next /\ u.pending = t.pending
  PROVE  GoodTask(u, i, g, f)
BY DEF GoodTask, Working

LEMMA OpenStep ==
  ASSUME ImportInv, NEW i \in Importers, NEW archive \in Archives, NEW replace \in BOOLEAN,
         Open(i, archive, replace)
  PROVE  ImportInv'
<1>1. PICK t : /\ import' = [import EXCEPT ![i] = t]
               /\ \/ \E why : t = [Idle EXCEPT !.end = why]
                  \/ t = [Idle EXCEPT !.at = "lock", !.archive = archive]
  <2>1. \/ import' = [import EXCEPT ![i] = [Idle EXCEPT !.end = "installed"]]
        \/ import' = [import EXCEPT ![i] = [Idle EXCEPT !.end = "bad"]]
        \/ import' = [import EXCEPT ![i] = [Idle EXCEPT !.at = "lock", !.archive = archive]]
    BY DEF Open
  <2> QED BY <2>1, Zenon
<1>2. UNCHANGED <<guard, temp, output>>
  BY DEF Open
<1>3. GoodTask(t, i, guard, temp)
  <2>1. CASE \E why : t = [Idle EXCEPT !.end = why]
    <3>1. PICK why : t = [Idle EXCEPT !.end = why]
      BY <2>1
    <3>2. IsTask(t) /\ t.at = "idle"
      BY <3>1, IdleIsTask, TaskEnd
    <3> QED BY <3>2, IdleIsGood
  <2>2. CASE t = [Idle EXCEPT !.at = "lock", !.archive = archive]
    <3> DEFINE u == [Idle EXCEPT !.at = "lock"]
    <3>1. IsTask(u) /\ u.at = "lock" /\ u.next = 1 /\ u.pending = <<>>
      BY IdleIsTask, TaskAt
    <3>2. t = [u EXCEPT !.archive = archive]
      BY <2>2, Zenon
    <3> HIDE DEF u
    <3>3. IsTask(t) /\ t.at = "lock" /\ t.archive = archive /\ t.next = 1 /\ t.pending = <<>>
      BY <3>1, <3>2, TaskArchive
    <3> QED BY <3>3 DEF GoodTask, Working
  <2> QED BY <1>1, <2>1, <2>2
<1>4. IsFile(temp') /\ OutputOK' /\ guard' = guard /\ temp' = temp
  BY <1>2 DEF ImportInv, OutputOK
<1> QED BY <1>1, <1>3, <1>4, OneSteps

LEMMA LockStep ==
  ASSUME ImportInv, NEW i \in Importers, Lock(i)
  PROVE  ImportInv'
<1> DEFINE t == import[i]
<1>1. GoodTask(t, i, guard, temp) /\ IsTask(t) /\ t.at = "lock"
  BY DEF ImportInv, Lock, ImportAt, GoodTask
<1>2. output' = output /\ OutputOK'
  BY DEF Lock, ImportInv, OutputOK
<1>3. CASE guard # NoImporter
  <2>1. ImportFails(i, "idle", "busy") /\ UNCHANGED <<guard, temp>>
    BY <1>3 DEF Lock
  <2>2. PICK u : import' = [import EXCEPT ![i] = u] /\ IsTask(u) /\ u.at = "idle"
    BY <2>1, TaskFails
  <2>3. GoodTask(u, i, guard', temp') /\ IsFile(temp')
    BY <2>1, <2>2, IdleIsGood DEF ImportInv
  <2> QED BY <1>2, <2>1, <2>2, <2>3, OneSteps
<1>4. CASE guard = NoImporter
  <2> DEFINE looking == [t EXCEPT !.at = "look"]
             u == Filled(looking)
             f == NewFile(i, t.archive)
  <2>1. import' = [import EXCEPT ![i] = u] /\ guard' = i /\ temp' = f
    BY <1>4 DEF Lock
  <2>2. t.archive \in Archives /\ t.next = 1 /\ t.pending = <<>>
    BY <1>1 DEF GoodTask
  <2>3. /\ IsTask(looking) /\ looking.at = "look" /\ looking.archive = t.archive
        /\ looking.next = 1 /\ looking.pending = <<>>
    BY <1>1, <2>2, TaskAt
  <2>4. IsFile(f) /\ f.by = i /\ f.archive = t.archive /\ f.banks = <<>>
    BY DEF NewFile, IsFile
  <2> HIDE DEF looking, f
  <2>5. InOrder(t.archive, looking.next, looking.pending, f.banks)
    BY <2>2, <2>3, <2>4, NothingYet
  <2>6. /\ InOrder(t.archive, u.next, u.pending, f.banks)
        /\ AllTaken(t.archive, u.pending, f.banks)
    BY <2>2, <2>3, <2>5, FilledInOrder
  <2>7. IsTask(u) /\ u.at = "look" /\ u.archive = t.archive
    BY <2>3, FilledTask
  <2> HIDE DEF u
  <2>8. GoodTask(u, i, guard', temp') /\ IsFile(temp')
    BY <2>1, <2>2, <2>4, <2>6, <2>7 DEF GoodTask, Working
  <2> QED BY <1>2, <1>4, <2>1, <2>8, OneSteps
<1> QED BY <1>3, <1>4

LEMMA LookStep ==
  ASSUME ImportInv, NEW i \in Importers, Look(i)
  PROVE  ImportInv'
<1> DEFINE t == import[i]
<1>1. GoodTask(t, i, guard, temp) /\ IsTask(t) /\ t.at = "look"
  BY DEF ImportInv, Look, ImportAt, GoodTask
<1>2. UNCHANGED <<guard, temp, output>>
  BY DEF Look
<1>3. IsFile(temp') /\ OutputOK'
  BY <1>2 DEF ImportInv, OutputOK
<1>4. CASE ImportFails(i, "drain", "cancelled")
  <2>1. PICK u : /\ import' = [import EXCEPT ![i] = u] /\ IsTask(u) /\ u.at = "drain"
                 /\ u.archive = t.archive
    BY <1>4, TaskFails
  <2>2. GoodTask(u, i, guard', temp')
    BY <1>1, <1>2, <2>1, EndIsGood DEF Working
  <2> QED BY <1>2, <1>3, <2>1, <2>2, OneSteps
<1>5. ASSUME NEW x \in {"get", "index"}, ImportGoes(i, x),
             x = "get" => t.pending # <<>>, x = "index" => t.pending = <<>>
      PROVE  ImportInv'
  <2>1. PICK u : /\ import' = [import EXCEPT ![i] = u] /\ IsTask(u) /\ u.at = x
                 /\ u.archive = t.archive /\ u.next = t.next /\ u.pending = t.pending
    BY <1>5, TaskGoes
  <2>2. GoodTask(u, i, guard', temp')
    BY <1>1, <1>2, <1>5, <2>1 DEF GoodTask, Working
  <2> QED BY <1>2, <1>3, <2>1, <2>2, OneSteps
<1> QED BY <1>4, <1>5 DEF Look

LEMMA FileWritten ==
  ASSUME NEW f, IsFile(f), NEW x
  PROVE  /\ IsFile([f EXCEPT !.banks = x]) /\ [f EXCEPT !.banks = x].by = f.by
         /\ [f EXCEPT !.banks = x].archive = f.archive /\ [f EXCEPT !.banks = x].banks = x
         /\ [f EXCEPT !.banks = x].whole = f.whole
BY DEF IsFile

LEMMA FileWhole ==
  ASSUME NEW f, IsFile(f), NEW x
  PROVE  /\ IsFile([f EXCEPT !.whole = x]) /\ [f EXCEPT !.whole = x].by = f.by
         /\ [f EXCEPT !.whole = x].archive = f.archive
         /\ [f EXCEPT !.whole = x].banks = f.banks /\ [f EXCEPT !.whole = x].whole = x
BY DEF IsFile

LEMMA GetStep ==
  ASSUME ImportInv, NEW i \in Importers, Get(i)
  PROVE  ImportInv'
<1> DEFINE t == import[i]
           a == t.archive
           entry == t.pending[1]
           left == RemoveAt(t.pending, 1)
           taken == [t EXCEPT !.pending = left]
           rest == [taken EXCEPT !.inFlight = t.inFlight - entry.bank.bytes]
           filled == Filled(rest)
           more == temp.banks \o <<entry.bank>>
<1>1. GoodTask(t, i, guard, temp) /\ IsTask(t) /\ t.at = "get" /\ IsFile(temp)
  BY DEF ImportInv, Get, ImportAt, GoodTask
<1>2. /\ guard = i /\ temp.by = i /\ temp.archive = a /\ a \in Archives
      /\ InOrder(a, t.next, t.pending, temp.banks) /\ t.pending # <<>>
  BY <1>1 DEF GoodTask, Working
<1>3. UNCHANGED <<guard, output>> /\ OutputOK'
  BY DEF Get, ImportInv, OutputOK
<1>4. rest = [t EXCEPT !.pending = RemoveAt(@, 1), !.inFlight = @ - entry.bank.bytes]
  BY Zenon
<1>5. \/ /\ import' = [import EXCEPT ![i] = [filled EXCEPT !.at = "drain", !.end = "bad"]]
         /\ temp' = temp
      \/ /\ import' = [import EXCEPT ![i] = [filled EXCEPT !.at = "look"]]
         /\ temp' = [temp EXCEPT !.banks = more]
  <2> HIDE DEF rest, filled
  <2>1. \/ /\ import' = [import EXCEPT ![i] =
                [Filled([t EXCEPT !.pending = RemoveAt(@, 1), !.inFlight = @ - entry.bank.bytes])
                   EXCEPT !.at = "drain", !.end = "bad"]]
            /\ temp' = temp
         \/ /\ import' = [import EXCEPT ![i] =
                [Filled([t EXCEPT !.pending = RemoveAt(@, 1), !.inFlight = @ - entry.bank.bytes])
                   EXCEPT !.at = "look"]]
            /\ temp' = [temp EXCEPT !.banks = more]
    BY <1>2, Zenon DEF Get, Awaited, Written
  <2> QED BY <1>4, <2>1, Zenon DEF filled
<1> HIDE DEF left
<1>6. IsTask(taken) /\ taken.archive = a /\ taken.next = t.next /\ taken.pending = left
  BY <1>1, TaskPending
<1> HIDE DEF taken
<1>7. IsTask(rest) /\ rest.archive = a /\ rest.next = t.next /\ rest.pending = left
  BY <1>6, TaskInFlight
<1> HIDE DEF rest
<1>8. InOrder(a, rest.next, rest.pending, more)
  <2>1. InOrder(a, t.next, left, more)
    BY <1>2, FirstTaken DEF left
  <2> QED BY <1>7, <2>1
<1> HIDE DEF more
<1>9. IsTask(filled) /\ filled.archive = a
  BY <1>7, FilledTask
<1>10. /\ InOrder(a, filled.next, filled.pending, more)
       /\ AllTaken(a, filled.pending, more)
  BY <1>2, <1>7, <1>8, FilledInOrder
<1> HIDE DEF filled
<1>11. CASE /\ import' = [import EXCEPT ![i] = [filled EXCEPT !.at = "drain", !.end = "bad"]]
            /\ temp' = temp
  <2> DEFINE v == [filled EXCEPT !.at = "drain"]
             u == [v EXCEPT !.end = "bad"]
  <2>1. import' = [import EXCEPT ![i] = u]
    BY <1>11, Zenon
  <2>2. IsTask(v) /\ v.at = "drain" /\ v.archive = a
    BY <1>9, TaskAt
  <2> HIDE DEF v
  <2>3. IsTask(u) /\ u.at = "drain" /\ u.archive = a
    BY <2>2, TaskEnd
  <2> HIDE DEF u
  <2>4. GoodTask(u, i, guard', temp') /\ IsFile(temp')
    BY <1>1, <1>2, <1>3, <1>11, <2>3 DEF GoodTask, Working
  <2> QED BY <1>2, <1>3, <2>1, <2>4, OneSteps
<1>12. CASE /\ import' = [import EXCEPT ![i] = [filled EXCEPT !.at = "look"]]
            /\ temp' = [temp EXCEPT !.banks = more]
  <2> DEFINE u == [filled EXCEPT !.at = "look"]
             f == [temp EXCEPT !.banks = more]
  <2>1. /\ IsTask(u) /\ u.at = "look" /\ u.archive = a /\ u.next = filled.next
        /\ u.pending = filled.pending
    BY <1>9, TaskAt
  <2>2. IsFile(f) /\ f.by = i /\ f.archive = a /\ f.banks = more
    BY <1>1, <1>2, FileWritten
  <2> HIDE DEF u, f
  <2>3. import' = [import EXCEPT ![i] = u] /\ temp' = f
    BY <1>12 DEF u, f
  <2>4. GoodTask(u, i, guard', f)
    BY <1>2, <1>3, <1>10, <2>1, <2>2 DEF GoodTask, Working
  <2> QED BY <1>2, <1>3, <2>2, <2>3, <2>4, OneSteps
<1> QED BY <1>5, <1>11, <1>12

LEMMA DrainStep ==
  ASSUME ImportInv, NEW i \in Importers, Drain(i)
  PROVE  ImportInv'
<1> DEFINE t == import[i]
           v == [t EXCEPT !.at = "clean"]
           u == [v EXCEPT !.pending = <<>>]
<1>1. GoodTask(t, i, guard, temp) /\ IsTask(t) /\ t.at = "drain"
  BY DEF ImportInv, Drain, ImportAt, GoodTask
<1>2. UNCHANGED <<guard, temp, output>> /\ import' = [import EXCEPT ![i] = u]
  <2>1. import = [j \in Importers |-> import[j]]
    BY DEF ImportInv
  <2>2. import' = [import EXCEPT ![i].at = "clean", ![i].pending = <<>>]
    BY DEF Drain
  <2>3. import' = [import EXCEPT ![i] = u]
    BY <2>1, <2>2
  <2> QED BY <2>3 DEF Drain
<1>3. IsTask(v) /\ v.at = "clean" /\ v.archive = t.archive
  BY <1>1, TaskAt
<1> HIDE DEF v
<1>4. IsTask(u) /\ u.at = "clean" /\ u.archive = t.archive
  BY <1>3, TaskPending
<1> HIDE DEF u
<1>5. GoodTask(u, i, guard', temp') /\ IsFile(temp') /\ OutputOK'
  BY <1>1, <1>2, <1>4, EndIsGood DEF Working, ImportInv, OutputOK
<1> QED BY <1>2, <1>5, OneSteps

LEMMA FinishStep ==
  ASSUME ImportInv, NEW i \in Importers, Finish(i)
  PROVE  ImportInv'
<1> DEFINE t == import[i]
<1>1. GoodTask(t, i, guard, temp) /\ t.at = "index" /\ IsFile(temp)
  BY DEF ImportInv, Finish, ImportAt
<1>2. /\ guard = i /\ temp.by = i /\ temp.archive = t.archive /\ t.archive \in Archives
      /\ InOrder(t.archive, t.next, t.pending, temp.banks) /\ t.pending = <<>>
      /\ AllTaken(t.archive, t.pending, temp.banks)
  BY <1>1 DEF GoodTask, Working
<1>3. UNCHANGED <<guard, output>> /\ OutputOK'
  BY DEF Finish, ImportInv, OutputOK
<1>4. CASE ImportGoes(i, "move") /\ temp' = [temp EXCEPT !.whole = TRUE]
  <2> DEFINE f == [temp EXCEPT !.whole = TRUE]
  <2>1. PICK u : /\ import' = [import EXCEPT ![i] = u] /\ IsTask(u) /\ u.at = "move"
                 /\ u.archive = t.archive /\ u.next = t.next /\ u.pending = t.pending
    BY <1>4, TaskGoes
  <2>2. /\ IsFile(f) /\ f.by = temp.by /\ f.archive = temp.archive
        /\ f.banks = temp.banks /\ f.whole = TRUE
    BY <1>1, FileWhole
  <2>3. temp' = f
    BY <1>4
  <2> HIDE DEF f
  <2>4. GoodTask(u, i, guard', f)
    BY <1>2, <1>3, <2>1, <2>2 DEF GoodTask, Working
  <2> QED BY <1>2, <1>3, <2>1, <2>2, <2>3, <2>4, OneSteps
<1>5. CASE ImportFails(i, "clean", "write") /\ temp' = temp
  <2>1. PICK u : /\ import' = [import EXCEPT ![i] = u] /\ IsTask(u) /\ u.at = "clean"
                 /\ u.archive = t.archive
    BY <1>5, TaskFails
  <2>2. GoodTask(u, i, guard', temp') /\ IsFile(temp')
    BY <1>1, <1>3, <1>5, <2>1, EndIsGood DEF Working
  <2> QED BY <1>2, <1>3, <2>1, <2>2, OneSteps
<1> QED BY <1>2, <1>4, <1>5 DEF Finish

\* A file with all banks in order has the banks of the archive.
LEMMA AllInOrder ==
  ASSUME NEW a \in Archives, NEW next, NEW pending, NEW written,
         InOrder(a, next, pending, written), Len(written) = Len(Banks(a))
  PROVE  written = Banks(a)
<1>1. written \in Seq(BanksOf(a)) /\ Banks(a) \in Seq(BanksOf(a))
  BY BanksInOrder DEF InOrder
<1>2. \A k \in 1 .. Len(written) : written[k] = Banks(a)[k]
  BY DEF InOrder
<1> QED BY <1>1, <1>2, SeqEqual

LEMMA MoveStep ==
  ASSUME ImportInv, NEW i \in Importers, MoveIntoPlace(i)
  PROVE  ImportInv'
<1> DEFINE t == import[i]
<1>1. GoodTask(t, i, guard, temp) /\ t.at = "move"
  BY DEF ImportInv, MoveIntoPlace, ImportAt
<1>2. /\ guard = i /\ temp.by = i /\ temp.archive = t.archive /\ t.archive \in Archives
      /\ InOrder(t.archive, t.next, t.pending, temp.banks) /\ t.pending = <<>>
      /\ AllTaken(t.archive, t.pending, temp.banks) /\ temp.whole = TRUE
  BY <1>1 DEF GoodTask, Working
<1>3. guard' = guard
  BY DEF MoveIntoPlace
<1>4. temp # NoFile
  BY <1>2, NoFileIsFile, ImportAssumption
<1>5. ImportFails(i, "unlock", "imported") /\ output' = temp /\ temp' = NoFile
  BY <1>4 DEF MoveIntoPlace
<1>6. temp.banks = Banks(t.archive)
  BY <1>2, AllInOrder DEF AllTaken
<1>7. OutputOK'
  BY <1>2, <1>5, <1>6 DEF OutputOK
<1>8. PICK u : /\ import' = [import EXCEPT ![i] = u] /\ IsTask(u) /\ u.at = "unlock"
               /\ u.archive = t.archive
  BY <1>5, TaskFails
<1>9. GoodTask(u, i, guard', temp') /\ IsFile(temp')
  BY <1>2, <1>3, <1>5, <1>8, NoFileIsFile DEF GoodTask, Working
<1> QED BY <1>2, <1>7, <1>8, <1>9, OneSteps

LEMMA CleanStep ==
  ASSUME ImportInv, NEW i \in Importers, Clean(i)
  PROVE  ImportInv'
<1> DEFINE t == import[i]
<1>1. GoodTask(t, i, guard, temp) /\ t.at = "clean"
  BY DEF ImportInv, Clean, ImportAt
<1>2. guard = i /\ t.archive \in Archives
  BY <1>1 DEF GoodTask
<1>3. temp' = NoFile /\ ImportGoes(i, "unlock") /\ UNCHANGED <<guard, output>>
  BY DEF Clean
<1>4. PICK u : /\ import' = [import EXCEPT ![i] = u] /\ IsTask(u) /\ u.at = "unlock"
               /\ u.archive = t.archive
  BY <1>3, TaskGoes
<1>5. GoodTask(u, i, guard', temp') /\ IsFile(temp')
  BY <1>2, <1>3, <1>4, NoFileIsFile DEF GoodTask, Working
<1>6. OutputOK'
  BY <1>3 DEF ImportInv, OutputOK
<1> QED BY <1>2, <1>4, <1>5, <1>6, OneSteps

LEMMA UnlockStep ==
  ASSUME ImportInv, NEW i \in Importers, Unlock(i)
  PROVE  ImportInv'
<1> DEFINE u == [Idle EXCEPT !.end = import[i].end]
<1>1. GoodTask(import[i], i, guard, temp) /\ import[i].at = "unlock"
  BY DEF ImportInv, Unlock, ImportAt
<1>2. guard = i
  BY <1>1 DEF GoodTask
<1>3. import' = [import EXCEPT ![i] = u] /\ UNCHANGED <<temp, output>>
  BY DEF Unlock
<1>4. IsTask(u) /\ u.at = "idle"
  BY IdleIsTask, TaskEnd
<1> HIDE DEF u
<1>5. GoodTask(u, i, guard', temp') /\ IsFile(temp') /\ OutputOK'
  BY <1>3, <1>4, IdleIsGood DEF ImportInv, OutputOK
<1> QED BY <1>2, <1>3, <1>5, OneSteps

LEMMA StopStep ==
  ASSUME ImportInv, NEW i \in Importers, Stop(i)
  PROVE  ImportInv'
<1> DEFINE t == import[i]
           u == [t EXCEPT !.stop = TRUE]
<1>1. GoodTask(t, i, guard, temp) /\ IsTask(t)
  BY DEF ImportInv, GoodTask
<1>2. import' = [import EXCEPT ![i] = u] /\ UNCHANGED <<guard, temp, output>>
  BY DEF Stop
<1>3. /\ IsTask(u) /\ u.at = t.at /\ u.archive = t.archive /\ u.next = t.next
      /\ u.pending = t.pending
  BY <1>1, TaskStop
<1> HIDE DEF u
<1>4. GoodTask(u, i, guard', temp') /\ IsFile(temp') /\ OutputOK'
  BY <1>1, <1>2, <1>3 DEF GoodTask, Working, ImportInv, OutputOK
<1> QED BY <1>2, <1>4, OneSteps

LEMMA KillStep ==
  ASSUME ImportInv, NEW i \in Importers, Kill(i)
  PROVE  ImportInv'
<1>1. GoodTask(import[i], i, guard, temp)
  BY DEF ImportInv
<1>2. import' = [import EXCEPT ![i] = Idle] /\ UNCHANGED <<temp, output>>
  BY DEF Kill
<1>3. GoodTask(Idle, i, guard', temp') /\ IsFile(temp') /\ OutputOK'
  BY <1>2, IdleIsTask, IdleIsGood DEF ImportInv, OutputOK
<1>4. UNCHANGED <<guard, temp>> \/ guard \in {i, NoImporter}
  BY <1>2 DEF Kill
<1> QED BY <1>2, <1>3, <1>4, OneSteps

\* A bank that is parsed stays at its place.
LEMMA ParsedInOrder ==
  ASSUME NEW a, NEW next, NEW pending, NEW written, InOrder(a, next, pending, written),
         NEW k \in DOMAIN pending
  PROVE  /\ InOrder(a, next, [pending EXCEPT ![k].done = TRUE], written)
         /\ [pending EXCEPT ![k].done = TRUE] # <<>> /\ pending # <<>>
<1> DEFINE marked == [pending EXCEPT ![k].done = TRUE]
<1>1. /\ pending \in Seq(Entries(a)) /\ written \in Seq(BanksOf(a))
      /\ next = Len(written) + Len(pending) + 1
      /\ Len(written) + Len(pending) <= Len(Banks(a))
      /\ \A j \in 1 .. Len(written) : written[j] = Banks(a)[j]
      /\ \A j \in 1 .. Len(pending) : pending[j].bank = Banks(a)[Len(written) + j]
  BY DEF InOrder
<1>2. k \in 1 .. Len(pending)
  BY <1>1
<1>3. pending[k] \in Entries(a)
  BY <1>1, <1>2
<1>4. [pending[k] EXCEPT !.done = TRUE] \in Entries(a)
      /\ [pending[k] EXCEPT !.done = TRUE].bank = pending[k].bank
  BY <1>3 DEF Entries
<1>5. marked = [pending EXCEPT ![k] = [pending[k] EXCEPT !.done = TRUE]]
  BY <1>1, <1>2
<1> HIDE DEF marked
<1>6. marked \in Seq(Entries(a)) /\ Len(marked) = Len(pending)
      /\ \A j \in 1 .. Len(pending) : marked[j].bank = pending[j].bank
  BY <1>1, <1>2, <1>4, <1>5
<1>7. InOrder(a, next, marked, written)
  BY <1>1, <1>6 DEF InOrder
<1>8. marked # <<>> /\ pending # <<>>
  BY <1>1, <1>2, <1>6
<1> QED BY <1>7, <1>8 DEF marked

LEMMA ParseStep ==
  ASSUME ImportInv, NEW i \in Importers, NEW k, Parse(i, k)
  PROVE  ImportInv'
<1> DEFINE t == import[i]
           marked == [t.pending EXCEPT ![k].done = TRUE]
           u == [t EXCEPT !.pending = marked]
<1>1. GoodTask(t, i, guard, temp) /\ IsTask(t) /\ k \in DOMAIN t.pending
  BY DEF ImportInv, GoodTask, Parse
<1>2. import' = [import EXCEPT ![i] = u] /\ UNCHANGED <<guard, temp, output>>
  BY DEF Parse
<1>3. ASSUME t.at \in {"look", "get", "index", "move"}
      PROVE  /\ InOrder(t.archive, t.next, marked, temp.banks)
             /\ marked # <<>> /\ t.pending # <<>>
  <2>1. InOrder(t.archive, t.next, t.pending, temp.banks)
    BY <1>1, <1>3 DEF GoodTask
  <2> QED BY <1>1, <2>1, ParsedInOrder
<1>4. t.at # "lock"
  BY <1>1 DEF GoodTask
<1> HIDE DEF marked
<1>5. /\ IsTask(u) /\ u.at = t.at /\ u.archive = t.archive /\ u.next = t.next
      /\ u.pending = marked
  BY <1>1, TaskPending
<1> HIDE DEF u
<1>6. GoodTask(u, i, guard', temp')
  BY <1>1, <1>2, <1>3, <1>4, <1>5 DEF GoodTask, Working, AllTaken
<1>7. IsFile(temp') /\ OutputOK'
  BY <1>2 DEF ImportInv, OutputOK
<1> QED BY <1>2, <1>6, <1>7, OneSteps

LEMMA ImportInvKept == ImportInv /\ [ImportNext]_ivars => ImportInv'
<1> SUFFICES ASSUME ImportInv, [ImportNext]_ivars PROVE ImportInv'
  OBVIOUS
<1>1. CASE UNCHANGED ivars
  BY <1>1 DEF ImportInv, OutputOK, ivars
<1>2. CASE ImportNext
  <2>1. PICK i \in Importers : ImportStep(i)
    BY <1>2 DEF ImportNext
  <2>2. CASE \E archive \in Archives, replace \in BOOLEAN : Open(i, archive, replace)
    BY <2>2, OpenStep
  <2>3. CASE \E k \in 1 .. 2 * Threads : Parse(i, k)
    BY <2>3, ParseStep
  <2>4. CASE Lock(i) \/ Look(i) \/ Get(i) \/ Drain(i) \/ Finish(i)
    BY <2>4, LockStep, LookStep, GetStep, DrainStep, FinishStep
  <2>5. CASE MoveIntoPlace(i) \/ Clean(i) \/ Unlock(i) \/ Stop(i) \/ Kill(i)
    BY <2>5, MoveStep, CleanStep, UnlockStep, StopStep, KillStep
  <2> QED BY <2>1, <2>2, <2>3, <2>4, <2>5 DEF ImportStep
<1> QED BY <1>1, <1>2

LEMMA ImportInvHolds == ImportSpec => []ImportInv
BY ImportInvInit, ImportInvKept, PTL DEF ImportSpec

-----------------------------------------------------------------------------
(* The theorems.                                                           *)

\* Two importers of one title, whichever of them is refused, asked to stop, fails or is killed,
\* at any moment: the one that works has the temporary file to itself, and goes on to the
\* tables and to the move only with every bank of its archive written (TemporaryIsMine).
THEOREM TemporaryIsOwn == ImportSpec => []TemporaryIsMine
<1>1. ImportInv => TemporaryIsMine
  <2> SUFFICES ASSUME ImportInv, NEW i \in Importers, import[i].at \in Working
               PROVE  /\ temp.by = i /\ temp.archive = import[i].archive
                      /\ import[i].at \in {"index", "move"} =>
                           Len(temp.banks) = Cardinality(import[i].archive.banks)
    BY Zenon DEF TemporaryIsMine, Working
  <2>1. GoodTask(import[i], i, guard, temp)
    BY DEF ImportInv
  <2>2. temp.by = i /\ temp.archive = import[i].archive /\ import[i].archive \in Archives
    BY <2>1 DEF GoodTask, Working
  <2>3. ASSUME import[i].at \in {"index", "move"}
        PROVE  Len(temp.banks) = Cardinality(import[i].archive.banks)
    <3>1. Len(temp.banks) = Len(Banks(import[i].archive))
      BY <2>1, <2>3 DEF GoodTask, AllTaken
    <3> QED BY <2>2, <3>1, BanksInOrder
  <2> QED BY <2>2, <2>3
<1> QED BY <1>1, ImportInvHolds, PTL

\* Whatever is at the name of the dictionary was put there whole: all banks of one archive, in
\* the order of their kinds and numbers, whichever the workers had parsed first.
THEOREM OneWholeArchive ==
  ImportSpec => [](output # NoFile =>
                     /\ output.whole /\ output.archive \in Archives
                     /\ output.banks = Banks(output.archive))
<1>1. ImportInv => (output # NoFile =>
                      /\ output.whole /\ output.archive \in Archives
                      /\ output.banks = Banks(output.archive))
  BY DEF ImportInv, OutputOK
<1> QED BY <1>1, ImportInvHolds, PTL

\* Where the file compiled of an archive's banks in their order tells of every text what the
\* archive says (a computation, which TLC does for the archives of the run), readers never find
\* another one, whatever the importers do to each other (DictionaryIsWhole).
THEOREM DictionaryStaysWhole ==
  ASSUME \A a \in Archives : [archive |-> a, banks |-> Banks(a)] \in RightFiles
  PROVE  ImportSpec => []DictionaryIsWhole
<1>1. ImportInv => DictionaryIsWhole
  <2> SUFFICES ASSUME ImportInv, output # NoFile
               PROVE  /\ output.whole
                      /\ [archive |-> output.archive, banks |-> output.banks] \in RightFiles
    BY Zenon DEF DictionaryIsWhole
  <2>1. /\ output.whole = TRUE /\ output.archive \in Archives
        /\ output.banks = Banks(output.archive)
    BY DEF ImportInv, OutputOK
  <2>2. [archive |-> output.archive, banks |-> output.banks] \in RightFiles
    BY <2>1, Zenon
  <2> QED BY <2>1, <2>2
<1> QED BY <1>1, ImportInvHolds, PTL
===============================================================================
