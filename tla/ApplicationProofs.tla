--------------------------- MODULE ApplicationProofs ---------------------------
(***************************************************************************)
(* Theorems about what the settings application does besides its pages:    *)
(* taking Lexiglance off (Uninstall), its own updates (UpdateGroup), and   *)
(* the fixes of the Overview page (OverviewPage).                          *)
(***************************************************************************)
EXTENDS UpdateGroup, OverviewPage, Uninstall, FiniteSetTheorems, TLAPS

-----------------------------------------------------------------------------
(* Uninstall: what is said to be removed is, and nothing starts it again.  *)

\* Who uninstalls, and the steps after what takes root.
Whos == {"card", "terminal"}
RootGiven == {"ask", "services", "end", "remove", "script", "done"}
Steps == RootGiven \cup {"idle", "refused", "failed", "root"}

UninstallPlan ==
  [programs : SUBSET {"programs", "shared"}, package : BOOLEAN, integration : SUBSET {"entries"},
   data : SUBSET {"data"}]
Removal == [at : Steps, plan : UninstallPlan, failed : SUBSET Everything]

CardState == [open : BOOLEAN, busy : BOOLEAN, finished : BOOLEAN, erase : BOOLEAN]
WorkState == [runs : BOOLEAN, hung : BOOLEAN, elevated : BOOLEAN, quits : BOOLEAN]

UninstallTypes ==
  /\ installation \in Installations
  /\ files \subseteq Everything
  /\ keeper \in {"systemd", "dinit", "OpenRC", "runit"} \cup Settled
  /\ works \in WorkState
  /\ card \in CardState
  /\ removal \in [Whos -> Removal]

\* The programs a plan stands for.
Meant(plan) == IF plan.package THEN {"programs", "shared"} ELSE plan.programs

\* A service goes unseen only when the entries are gone, which they are once it was told to end.
\* Windows has none, and only there a daemon has administrator rights.
KeeperIsSeen ==
  /\ keeper \notin Settled => keeper = installation.keeper
  /\ keeper \notin Settled \cup {"systemd"} => "entries" \in files
  /\ installation.windows => keeper = "none"
  /\ works.elevated => installation.windows
  /\ external.runs # "none" => installation.windows

\* What is so at each step of one who uninstalls.
StepOf(r) ==
  /\ r.at \in {"end", "remove", "script", "done"} => keeper \in Settled
  /\ r.at \in {"remove", "script", "done"} /\ works.runs => keeper \in StillUp \/ works.elevated
  /\ r.at = "script" => installation.windows
  /\ r.at \in RootGiven /\ TakesRoot(r.plan) => Meant(r.plan) \cap files = {}
  /\ r.at = "done" => (Meant(r.plan) \cup r.plan.integration) \cap files \subseteq r.failed

UninstallInv == UninstallTypes /\ KeeperIsSeen /\ \A who \in Whos : StepOf(removal[who])

\* What the card and a program that does not run look like.
LEMMA NothingRuns ==
  /\ NoCard \in CardState /\ Ended \in WorkState /\ ~Ended.runs /\ ~Ended.elevated
  /\ \A c \in CardState : [c EXCEPT !.busy = TRUE] \in CardState
  /\ \A c \in CardState : [c EXCEPT !.busy = FALSE] \in CardState
BY DEF NoCard, Ended, CardState, WorkState

\* An installation that nobody removes: every service that is there may start the daemon.
LEMMA UninstallBegins ==
  ASSUME UninstallInit
  PROVE  UninstallInv
<1>1. installation \in Installations /\ installation.keeper \in {"none", "systemd", "dinit", "OpenRC", "runit", "s6"}
      /\ installation.task \in {"none", "ours", "byHand"}
      /\ IF installation.windows THEN installation.keeper = "none" ELSE installation.task = "none"
  BY InstallationsAssumption DEF UninstallInit
<1>2. UninstallTypes
  <2>1. works \in WorkState /\ card \in CardState
    BY <1>1, NothingRuns DEF UninstallInit, WorkState
  <2> QED
    BY <1>1, <2>1 DEF UninstallInit, UninstallTypes, Everything, Whos, Removal, Idle, NoPlan,
                      UninstallPlan, Steps, RootGiven, Settled
<1>3. KeeperIsSeen
  BY <1>1 DEF UninstallInit, KeeperIsSeen, Everything, Ended, Settled
<1>4. \A who \in Whos : StepOf(removal[who])
  BY DEF UninstallInit, Whos, StepOf, Idle, RootGiven
<1> QED BY <1>2, <1>3, <1>4 DEF UninstallInv

\* A plan holds what its names say, and less is there than was.
LEMMA PlansAreTyped ==
  ASSUME UninstallTypes, NEW erase \in BOOLEAN
  PROVE  /\ Plan(erase) \in UninstallPlan
         /\ Kind \in {"WindowsPortable", "WindowsSetup"} => installation.windows
         /\ Kind \in {"WindowsPortable", "WindowsSetup"} => ~TakesRoot(Plan(erase))
<1>1. installation \in Installations
  BY DEF UninstallTypes
<1>2. /\ installation.windows \in BOOLEAN /\ installation.built \in BOOLEAN
      /\ installation.windows => ~installation.root
  BY <1>1, InstallationsAssumption
<1>3. Kind \in {"WindowsPortable", "WindowsSetup"} => installation.windows
  BY <1>2 DEF Kind
<1>4. Plan(erase) \in UninstallPlan
  BY <1>2 DEF UninstallTypes, Plan, UninstallPlan, Everything
<1>5. Plan(erase).package <=> Kind \in {"Deb", "Rpm"}
  BY DEF Plan
<1>6. Kind \in {"WindowsPortable", "WindowsSetup"} => ~TakesRoot(Plan(erase))
  <2> SUFFICES ASSUME Kind \in {"WindowsPortable", "WindowsSetup"} PROVE ~TakesRoot(Plan(erase))
    OBVIOUS
  <2>1. ~Plan(erase).package
    BY <1>5
  <2> QED BY <2>1, <1>2, <1>3 DEF TakesRoot
<1> QED BY <1>3, <1>4, <1>6

\* What is put down beside the programs, and what is taken of them, breaks no promise of a removal
\* that goes on.
LEMMA OthersGoOn ==
  ASSUME UninstallInv, NEW who \in Whos,
         removal'[who] = removal[who], UNCHANGED installation,
         files' \subseteq files \cup {"data"},
         keeper' = keeper \/ keeper' \in Settled,
         works'.runs => \/ works.runs /\ works'.elevated = works.elevated
                        \/ keeper' \in StillUp \/ keeper \notin Settled,
         keeper \in StillUp => keeper' \in StillUp \/ ~works'.runs
  PROVE  StepOf(removal[who])'
<1>1. removal[who] \in Removal /\ StepOf(removal[who])
  BY DEF UninstallInv, UninstallTypes
<1>2. PICK r \in Removal : r = removal[who]
  BY <1>1
<1>3. StepOf(r) /\ removal'[who] = r
  BY <1>1, <1>2
<1>4. Meant(r.plan) \cap {"data"} = {} /\ r.plan.integration \cap {"data"} = {}
  BY DEF Meant, Removal, UninstallPlan
<1>5. (Meant(r.plan) \cup r.plan.integration) \cap files' \subseteq
        (Meant(r.plan) \cup r.plan.integration) \cap files
  BY <1>4
<1>6. TakesRoot(r.plan)' <=> TakesRoot(r.plan)
  BY DEF TakesRoot
<1>7. /\ r.at \in {"end", "remove", "script", "done"} => keeper' \in Settled
      /\ r.at \in {"remove", "script", "done"} /\ works'.runs => keeper' \in StillUp \/ works'.elevated
  BY <1>3 DEF StepOf
<1>8. /\ r.at \in RootGiven /\ TakesRoot(r.plan) => Meant(r.plan) \cap files' = {}
      /\ r.at = "done" => (Meant(r.plan) \cup r.plan.integration) \cap files' \subseteq r.failed
  BY <1>3, <1>4, <1>5 DEF StepOf
<1> QED BY <1>3, <1>6, <1>7, <1>8 DEF StepOf

\* A step of one who uninstalls, and a removal that begins.
LEMMA OneGoes ==
  ASSUME UninstallTypes, NEW who \in Whos, NEW at \in Steps, Goes(who, at)
  PROVE  /\ removal' \in [Whos -> Removal]
         /\ removal'[who] = [removal[who] EXCEPT !.at = at]
         /\ \A other \in Whos \ {who} : removal'[other] = removal[other]
<1>1. removal \in [Whos -> Removal] /\ removal' = [removal EXCEPT ![who].at = at]
  BY DEF UninstallTypes, Goes
<1>2. [removal[who] EXCEPT !.at = at] \in Removal
  BY <1>1 DEF Removal
<1> QED BY <1>1, <1>2

\* A removal begins: the other one stays where it was.
LEMMA OneBegins ==
  ASSUME UninstallTypes, NEW who \in Whos, NEW at \in Steps, NEW plan \in UninstallPlan,
         removal' = [removal EXCEPT ![who] = Begun(at, plan)]
  PROVE  /\ removal' \in [Whos -> Removal]
         /\ removal'[who] = Begun(at, plan)
         /\ \A other \in Whos \ {who} : removal'[other] = removal[other]
<1>1. removal \in [Whos -> Removal]
  BY DEF UninstallTypes
<1>2. Begun(at, plan) \in Removal
  BY DEF Removal, Begun
<1> QED BY <1>1, <1>2

\* Those who take no step.
LEMMA AllGoOn ==
  ASSUME UninstallInv, NEW moved \in SUBSET Whos,
         \A who \in Whos \ moved : removal'[who] = removal[who], UNCHANGED installation,
         \A who \in moved : StepOf(removal[who])',
         files' \subseteq files \cup {"data"},
         keeper' = keeper \/ keeper' \in Settled,
         works'.runs => \/ works.runs /\ works'.elevated = works.elevated
                        \/ keeper' \in StillUp \/ keeper \notin Settled,
         keeper \in StillUp => keeper' \in StillUp \/ ~works'.runs
  PROVE  \A who \in Whos : StepOf(removal[who])'
<1>1. SUFFICES ASSUME NEW who \in Whos PROVE StepOf(removal[who])'
  OBVIOUS
<1>2. CASE who \in moved
  BY <1>2
<1>3. CASE who \notin moved
  BY <1>3, OthersGoOn
<1> QED BY <1>2, <1>3

\* The button of the application: what it removes depends on the kind of installation.
LEMMA ClickUninstallKeeps ==
  ASSUME UninstallInv, ClickUninstall
  PROVE  UninstallInv'
<1>1. UninstallTypes /\ KeeperIsSeen /\ installation \in Installations
  BY DEF UninstallInv, UninstallTypes
<1>0. card.erase \in BOOLEAN
  BY <1>1 DEF UninstallTypes, CardState
<1>2. PICK plan \in UninstallPlan :
         /\ plan = Plan(card.erase)
         /\ Kind \in {"WindowsPortable", "WindowsSetup"} => installation.windows
         /\ Kind \in {"WindowsPortable", "WindowsSetup"} => ~TakesRoot(plan)
  BY <1>0, <1>1, PlansAreTyped
<1>3. UNCHANGED <<installation, keeper, works>>
  BY DEF ClickUninstall
<1>4. \E at \in Steps :
         /\ removal' = [removal EXCEPT !["card"] = Begun(at, plan)]
         /\ at \in {"idle", "failed", "root", "ask"}
         /\ at = "ask" => ~TakesRoot(plan)
  <2>1. CASE Kind = "WindowsSetup"
    BY <1>2, <2>1 DEF ClickUninstall, Steps, RootGiven
  <2>2. CASE Kind = "WindowsPortable"
    BY <1>2, <2>2 DEF ClickUninstall, Steps, RootGiven
  <2>3. CASE Kind \notin {"WindowsPortable", "WindowsSetup"}
    BY <1>2, <2>3 DEF ClickUninstall, Steps, RootGiven
  <2> QED BY <2>1, <2>2, <2>3
<1>5. files' \subseteq files /\ (files' = files \/ installation.windows)
  BY <1>2 DEF ClickUninstall
<1>6. card' \in CardState
  <2>1. card' \in {NoCard, card, [card EXCEPT !.busy = TRUE]}
    BY Zenon DEF ClickUninstall, Quits
  <2> QED BY <1>1, <2>1, NothingRuns DEF UninstallTypes
<1>7. external'.runs # "none" => installation.windows
  BY <1>1, <1>2 DEF ClickUninstall, KeeperIsSeen
<1>8. PICK at \in Steps :
         /\ removal' = [removal EXCEPT !["card"] = Begun(at, plan)]
         /\ at \in {"idle", "failed", "root", "ask"}
         /\ at = "ask" => ~TakesRoot(plan)
  BY <1>4
<1>9. /\ removal' \in [Whos -> Removal]
      /\ removal'["card"] = Begun(at, plan)
      /\ \A other \in Whos \ {"card"} : removal'[other] = removal[other]
  BY <1>1, <1>2, <1>8, OneBegins DEF Whos
<1>10. UninstallTypes'
  BY <1>1, <1>3, <1>5, <1>6, <1>9 DEF UninstallTypes
<1>11. KeeperIsSeen'
  BY <1>1, <1>3, <1>5, <1>7 DEF KeeperIsSeen, UninstallTypes
<1>12. StepOf(removal["card"])'
  <2>1. TakesRoot(plan)' <=> TakesRoot(plan)
    BY <1>3 DEF TakesRoot
  <2> QED BY <1>8, <1>9, <2>1 DEF StepOf, Begun, RootGiven
<1>13. \A who \in Whos : StepOf(removal[who])'
  BY <1>3, <1>5, <1>9, <1>12, AllGoOn, {"card"} \in SUBSET Whos DEF Whos
<1> QED BY <1>10, <1>11, <1>13 DEF UninstallInv

\* lexiglancectl uninstall.
LEMMA CtlUninstallKeeps ==
  ASSUME UninstallInv, CtlUninstall
  PROVE  UninstallInv'
<1>1. UninstallTypes /\ KeeperIsSeen /\ installation \in Installations
  BY DEF UninstallInv, UninstallTypes
<1>2. PICK erase \in BOOLEAN :
         /\ UNCHANGED <<installation, files, keeper, works, card>>
         /\ Kind # "WindowsPortable"
         /\ \/ /\ Kind = "WindowsSetup" /\ external'.runs = "setup" /\ UNCHANGED removal
            \/ /\ removal' = [removal EXCEPT !["terminal"] =
                                Begun(IF TakesRoot(Plan(erase)) THEN "root" ELSE "services", Plan(erase))]
               /\ UNCHANGED external
  BY DEF CtlUninstall
<1>3. PICK plan \in UninstallPlan :
         /\ plan = Plan(erase)
         /\ Kind \in {"WindowsPortable", "WindowsSetup"} => installation.windows
  BY <1>1, PlansAreTyped
<1>4. KeeperIsSeen'
  BY <1>1, <1>2, <1>3 DEF KeeperIsSeen
<1>5. CASE UNCHANGED removal
  <2>1. UninstallTypes'
    BY <1>1, <1>2, <1>5 DEF UninstallTypes
  <2>2. \A who \in Whos : StepOf(removal[who])'
    BY <1>2, <1>5, AllGoOn, {} \in SUBSET Whos
  <2> QED BY <1>4, <2>1, <2>2 DEF UninstallInv
<1>6. ASSUME removal' = [removal EXCEPT !["terminal"] =
                           Begun(IF TakesRoot(plan) THEN "root" ELSE "services", plan)]
      PROVE  UninstallInv'
  <2>1. PICK at \in Steps : /\ at = IF TakesRoot(plan) THEN "root" ELSE "services"
                            /\ removal' = [removal EXCEPT !["terminal"] = Begun(at, plan)]
    BY <1>6 DEF Steps, RootGiven
  <2>2. /\ removal' \in [Whos -> Removal]
        /\ removal'["terminal"] = Begun(at, plan)
        /\ \A other \in Whos \ {"terminal"} : removal'[other] = removal[other]
    BY <1>1, <2>1, OneBegins DEF Whos
  <2>3. UninstallTypes'
    BY <1>1, <1>2, <2>2 DEF UninstallTypes
  <2>4. StepOf(removal["terminal"])'
    <3>1. TakesRoot(plan)' <=> TakesRoot(plan)
      BY <1>2 DEF TakesRoot
    <3> QED BY <2>1, <2>2, <3>1 DEF StepOf, Begun, RootGiven
  <2>5. \A who \in Whos : StepOf(removal[who])'
    BY <1>2, <2>2, <2>4, AllGoOn, {"terminal"} \in SUBSET Whos DEF Whos
  <2> QED BY <1>4, <2>3, <2>5 DEF UninstallInv
<1> QED BY <1>2, <1>3, <1>5, <1>6

\* Once root's help was given, what the plan stands for is gone.
LEMMA RootAnswersKeeps ==
  ASSUME UninstallInv, NEW who \in Whos, RootAnswers(who)
  PROVE  UninstallInv'
<1>1. UninstallTypes /\ KeeperIsSeen
  BY DEF UninstallInv
<1>2. PICK r \in Removal : r = removal[who]
  BY <1>1 DEF UninstallTypes
<1>3. PICK at \in {"ask", "services", "refused", "failed"} :
         /\ Goes(who, at) /\ UNCHANGED <<installation, keeper, works, external>>
         /\ card' = card \/ card' = [card EXCEPT !.busy = FALSE]
         /\ files' \subseteq files /\ files \ files' \subseteq Meant(r.plan)
         /\ at \in {"ask", "services"} => Meant(r.plan) \cap files' = {}
  BY <1>2 DEF RootAnswers, Fails, Meant
<1>4. at \in Steps
  BY DEF Steps, RootGiven
<1>5. /\ removal' \in [Whos -> Removal]
      /\ removal'[who] = [r EXCEPT !.at = at]
      /\ \A other \in Whos \ {who} : removal'[other] = removal[other]
  BY <1>1, <1>2, <1>3, <1>4, OneGoes
<1>6. UninstallTypes'
  BY <1>1, <1>3, <1>5, NothingRuns DEF UninstallTypes
<1>7. "entries" \in files => "entries" \in files'
  BY <1>3 DEF Meant, Removal, UninstallPlan
<1>8. KeeperIsSeen'
  BY <1>1, <1>3, <1>7 DEF KeeperIsSeen
<1>9. StepOf(removal[who])'
  <2>1. removal'[who].at = at /\ removal'[who].plan = r.plan
    BY <1>5 DEF Removal
  <2> QED BY <1>3, <2>1 DEF StepOf, RootGiven
<1>10. \A other \in Whos : StepOf(removal[other])'
  BY <1>3, <1>5, <1>9, AllGoOn, {who} \in SUBSET Whos
<1> QED BY <1>6, <1>8, <1>10 DEF UninstallInv

\* The services are told to stop and taken out, or one of them stays.
LEMMA ServicesDownKeeps ==
  ASSUME UninstallInv, NEW who \in Whos, ServicesDown(who)
  PROVE  UninstallInv'
<1>1. UninstallTypes /\ KeeperIsSeen
  BY DEF UninstallInv
<1>2. PICK r \in Removal : r = removal[who]
  BY <1>1 DEF UninstallTypes
<1>3. /\ Goes(who, "end") /\ r.at = "services" /\ UNCHANGED <<installation, files, external, card>>
      /\ keeper' \in Settled
      /\ keeper \in StillUp => keeper' \in StillUp \/ works' = Ended
      /\ keeper' = keeper \/ keeper # "none"
      /\ works' = works \/ works' = Ended
  <2>1. Goes(who, "end") /\ r.at = "services" /\ UNCHANGED <<installation, files, external, card>>
    BY <1>2, Zenon DEF ServicesDown
  <2>2. CASE ~Seen /\ UNCHANGED <<keeper, works, troubles>>
    <3>1. installation.keeper # "systemd" => Service = "entries"
      BY DEF Service
    <3>2. keeper \in Settled
      BY <1>1, <2>2, <3>1 DEF KeeperIsSeen, Seen, Settled
    <3> QED BY <2>1, <2>2, <3>2
  <2>3. CASE Seen /\ \/ keeper' = "told" /\ UNCHANGED works
                     \/ keeper' = "none" /\ works' = Ended
    BY <2>1, <2>3 DEF Seen, Settled, StillUp
  <2>4. CASE Seen /\ StaysUp
    BY <2>1, <2>4 DEF Seen, StaysUp, Settled, StillUp
  <2> QED BY <2>2, <2>3, <2>4, Zenon DEF ServicesDown
<1>4. works' \in WorkState
  BY <1>1, <1>3, NothingRuns DEF UninstallTypes
<1>5. /\ removal' \in [Whos -> Removal]
      /\ removal'[who] = [r EXCEPT !.at = "end"]
      /\ \A other \in Whos \ {who} : removal'[other] = removal[other]
  BY <1>1, <1>2, <1>3, OneGoes DEF Steps, RootGiven
<1>6. UninstallTypes'
  BY <1>1, <1>3, <1>4, <1>5 DEF UninstallTypes
<1>ended. /\ (works'.runs => works' = works) /\ (works'.elevated => works' = works)
          /\ keeper \in StillUp => keeper' \in StillUp \/ ~works'.runs
  BY <1>3, NothingRuns
<1>7. KeeperIsSeen'
  BY <1>1, <1>3, <1>ended DEF KeeperIsSeen
<1>8. StepOf(removal[who])'
  <2>1. removal'[who].at = "end" /\ removal'[who].plan = r.plan
    BY <1>5 DEF Removal
  <2>2. StepOf(r)
    BY <1>2 DEF UninstallInv
  <2>3. TakesRoot(r.plan)' <=> TakesRoot(r.plan)
    BY <1>3 DEF TakesRoot
  <2>4. TakesRoot(r.plan) => Meant(r.plan) \cap files = {}
    BY <1>3, <2>2 DEF StepOf, RootGiven
  <2> QED BY <1>3, <2>1, <2>3, <2>4 DEF StepOf
<1>9. \A other \in Whos : StepOf(removal[other])'
  <2>1. {who} \in SUBSET Whos
    OBVIOUS
  <2>2. \A other \in Whos \ {who} : removal'[other] = removal[other]
    BY <1>5
  <2>3. \A w \in {who} : StepOf(removal[w])'
    BY <1>8
  <2> QED BY ONLY UninstallInv, <1>3, <1>ended, <2>1, <2>2, <2>3, AllGoOn
<1> QED BY <1>6, <1>7, <1>9 DEF UninstallInv

\* What still runs has administrator rights.
LEMMA EndProgramsKeeps ==
  ASSUME UninstallInv, NEW who \in Whos, EndPrograms(who)
  PROVE  UninstallInv'
<1>1. UninstallTypes /\ KeeperIsSeen
  BY DEF UninstallInv
<1>2. PICK r \in Removal : r = removal[who]
  BY <1>1 DEF UninstallTypes
<1>3. /\ works' \in WorkState
      /\ works' = works \/ works' = Ended
      /\ works'.runs => works' = works /\ works'.elevated
      /\ works'.elevated => works' = works
  <2>1. works' = works \/ works' = Ended
    BY DEF EndPrograms, Killed
  <2>2. works'.runs => works'.elevated
    BY NothingRuns DEF EndPrograms, Killed
  <2> QED BY <1>1, <2>1, <2>2, NothingRuns DEF UninstallTypes
<1>4. r.at = "end" /\ UNCHANGED <<installation, files, keeper, external>>
  BY <1>2 DEF EndPrograms
<1>5. card' \in CardState
  <2>1. card' = NoCard \/ card' = card
    BY Zenon DEF EndPrograms, Quits
  <2> QED BY <1>1, <2>1, NothingRuns DEF UninstallTypes
<1>6. \E at \in {"remove", "script"} :
        /\ at = "script" => installation.windows
        /\ removal' \in [Whos -> Removal]
        /\ removal'[who] = [r EXCEPT !.at = at]
        /\ \A other \in Whos \ {who} : removal'[other] \in {removal[other], Idle}
  <2>1. Idle \in Removal
    BY DEF Idle, NoPlan, Removal, Steps, UninstallPlan
  <2>2. CASE who = "terminal"
    <3>1. removal' = [removal EXCEPT !["terminal"].at = "remove", !["card"] = Idle]
      BY <2>2 DEF EndPrograms
    <3>2. [r EXCEPT !.at = "remove"] \in Removal
      BY DEF Removal, Steps, RootGiven
    <3>3. removal' = [w \in Whos |-> IF w = "terminal" THEN [r EXCEPT !.at = "remove"] ELSE Idle]
      BY <1>1, <1>2, <2>2, <3>1 DEF UninstallTypes, Whos
    <3> QED BY <2>1, <2>2, <3>2, <3>3
  <2>3. CASE who # "terminal"
    <3>0. Kind = "WindowsPortable" => installation.windows
      BY <1>1, PlansAreTyped, TRUE \in BOOLEAN
    <3>1. PICK at \in {"remove", "script"} : Goes(who, at) /\ (at = "script" => installation.windows)
      BY <2>3, <3>0 DEF EndPrograms, Whos
    <3>2. at \in Steps
      BY DEF Steps, RootGiven
    <3> QED BY <1>1, <1>2, <3>1, <3>2, OneGoes
  <2> QED BY <2>2, <2>3
<1>7. PICK at \in {"remove", "script"} :
        /\ at = "script" => installation.windows
        /\ removal' \in [Whos -> Removal]
        /\ removal'[who] = [r EXCEPT !.at = at]
        /\ \A other \in Whos \ {who} : removal'[other] \in {removal[other], Idle}
  BY <1>6
<1>8. UninstallTypes'
  BY <1>1, <1>3, <1>4, <1>5, <1>7 DEF UninstallTypes
<1>9. KeeperIsSeen'
  BY <1>1, <1>3, <1>4 DEF KeeperIsSeen
<1>10. StepOf(removal[who])'
  <2>1. removal'[who].at = at /\ removal'[who].plan = r.plan
    BY <1>7 DEF Removal
  <2>2. StepOf(r)
    BY <1>2 DEF UninstallInv
  <2>3. TakesRoot(r.plan)' <=> TakesRoot(r.plan)
    BY <1>4 DEF TakesRoot
  <2>4. /\ TakesRoot(r.plan) => Meant(r.plan) \cap files = {}
        /\ keeper \in Settled
    BY <1>4, <2>2 DEF StepOf, RootGiven
  <2> QED BY <1>3, <1>4, <1>7, <2>1, <2>3, <2>4 DEF StepOf
<1>11. \A other \in Whos : other # who /\ removal'[other] = Idle => StepOf(removal[other])'
  BY DEF StepOf, Idle, RootGiven
<1>12. \A other \in Whos : StepOf(removal[other])'
  <2> DEFINE moved == {w \in Whos : w = who \/ removal'[w] = Idle}
  <2>1. moved \in SUBSET Whos /\ \A w \in Whos \ moved : removal'[w] = removal[w]
    BY <1>7
  <2>2. \A w \in moved : StepOf(removal[w])'
    BY <1>10, <1>11
  <2> HIDE DEF moved
  <2> QED BY ONLY UninstallInv, <1>3, <1>4, <2>1, <2>2, AllGoOn
<1> QED BY <1>8, <1>9, <1>12 DEF UninstallInv

\* The files go, but for those that cannot be removed, which the removal knows of.
LEMMA RemoveRestKeeps ==
  ASSUME UninstallInv, NEW who \in Whos, RemoveRest(who)
  PROVE  UninstallInv'
<1>1. UninstallTypes /\ KeeperIsSeen
  BY DEF UninstallInv
<1>2. PICK r \in Removal : r = removal[who]
  BY <1>1 DEF UninstallTypes
<1> DEFINE rest == Own(r.plan) \cup r.plan.integration \cup r.plan.data
<1>3. PICK failed \in SUBSET (rest \cap files) :
         /\ files' = files \ (rest \ failed)
         /\ removal' = [removal EXCEPT ![who].at = "done", ![who].failed = failed]
  BY <1>2 DEF RemoveRest
<1>4. r.at = "remove" /\ UNCHANGED <<installation, keeper, works, external>>
  BY <1>2 DEF RemoveRest
<1>5. card' \in CardState
  <2>1. card' = card \/ card' = [card EXCEPT !.busy = FALSE, !.finished = TRUE]
    BY DEF RemoveRest, Finishes
  <2>2. \A c \in CardState : [c EXCEPT !.busy = FALSE, !.finished = TRUE] \in CardState
    BY DEF CardState
  <2>3. card \in CardState
    BY <1>1 DEF UninstallTypes
  <2> QED BY ONLY <2>1, <2>2, <2>3, Zenon
<1>6. failed \in SUBSET Everything
  BY <1>1, <1>3 DEF UninstallTypes
<1>7. /\ removal' \in [Whos -> Removal]
      /\ removal'[who] = [r EXCEPT !.at = "done", !.failed = failed]
      /\ \A other \in Whos \ {who} : removal'[other] = removal[other]
  <2>1. [r EXCEPT !.at = "done", !.failed = failed] \in Removal
    BY <1>6 DEF Removal, Steps, RootGiven
  <2>2. removal' = [removal EXCEPT ![who] = [r EXCEPT !.at = "done", !.failed = failed]]
    BY <1>2, <1>3
  <2> QED BY <1>1, <2>1, <2>2 DEF UninstallTypes
<1>8. UninstallTypes'
  BY <1>1, <1>3, <1>4, <1>5, <1>7 DEF UninstallTypes
<1>9. StepOf(r)
  BY <1>2 DEF UninstallInv
<1>10. KeeperIsSeen'
  BY <1>1, <1>4, <1>9 DEF KeeperIsSeen, StepOf
<1>11. StepOf(removal[who])'
  <2>1. /\ removal'[who].at = "done" /\ removal'[who].plan = r.plan
        /\ removal'[who].failed = failed
    BY <1>7 DEF Removal
  <2>2. TakesRoot(r.plan)' <=> TakesRoot(r.plan)
    BY <1>4 DEF TakesRoot
  <2>3. (Meant(r.plan) \cup r.plan.integration) \cap files' \subseteq failed
    <3>1. CASE TakesRoot(r.plan)
      <4>1. Meant(r.plan) \cap files = {}
        BY <1>4, <1>9, <3>1 DEF StepOf, RootGiven
      <4> QED BY <1>3, <4>1
    <3>2. CASE ~TakesRoot(r.plan)
      <4>1. Meant(r.plan) = Own(r.plan)
        BY <3>2 DEF Own, Meant, TakesRoot
      <4> QED BY <1>3, <4>1
    <3> QED BY <3>1, <3>2
  <2>4. TakesRoot(r.plan) => Meant(r.plan) \cap files' = {}
    BY <1>3, <1>4, <1>9 DEF StepOf, RootGiven
  <2>5. keeper \in Settled /\ (works.runs => keeper \in StillUp \/ works.elevated)
    BY <1>4, <1>9 DEF StepOf
  <2> HIDE DEF rest
  <2> QED BY <1>4, <2>1, <2>2, <2>3, <2>4, <2>5 DEF StepOf
<1>12. \A other \in Whos : StepOf(removal[other])'
  <2>1. files' \subseteq files \cup {"data"}
    BY <1>3
  <2>2. {who} \in SUBSET Whos /\ \A w \in {who} : StepOf(removal[w])'
    BY <1>11
  <2> QED BY ONLY UninstallInv, <1>4, <1>7, <2>1, <2>2, AllGoOn
<1> QED BY <1>8, <1>10, <1>12 DEF UninstallInv

\* An action by which nobody who uninstalls goes on.
LEMMA OtherStepKeeps ==
  ASSUME UninstallInv,
         \/ OpenCard \/ ToggleErase \/ CloseCard \/ LooksLocally \/ KeeperStarts \/ DaemonEnds
         \/ RunitReads \/ DaemonHangs \/ SetAdministrator \/ AdministratorOn \/ AdministratorOff
         \/ AdministratorOffElevated \/ AdministratorExpires
  PROVE  UninstallInv'
<1>1. UninstallTypes /\ KeeperIsSeen
  BY DEF UninstallInv
<1>2. UNCHANGED <<installation, removal, external>>
  BY Zenon DEF OpenCard, ToggleErase, CloseCard, LooksLocally, KeeperStarts, DaemonEnds, RunitReads,
               DaemonHangs, SetAdministrator, AdministratorOn, AdministratorOff,
               AdministratorOffElevated, AdministratorExpires
<1>3. card' \in CardState
  <2>1. \/ card' = card \/ card' = NoCard \/ card' = [NoCard EXCEPT !.open = TRUE]
        \/ card' = [card EXCEPT !.erase = ~@]
    BY Zenon DEF OpenCard, ToggleErase, CloseCard, LooksLocally, KeeperStarts, DaemonEnds, RunitReads,
                 DaemonHangs, SetAdministrator, AdministratorOn, AdministratorOff, Quits,
                 AdministratorOffElevated, AdministratorExpires
  <2>2. [NoCard EXCEPT !.open = TRUE] \in CardState
    BY DEF NoCard, CardState
  <2>3. \A c \in CardState : [c EXCEPT !.erase = ~@] \in CardState
    BY DEF CardState
  <2> QED BY <1>1, <2>1, <2>2, <2>3, NothingRuns DEF UninstallTypes
<1>4. files' = files \/ files' = files \cup {"data"}
  BY Zenon DEF OpenCard, ToggleErase, CloseCard, LooksLocally, KeeperStarts, DaemonEnds, RunitReads,
               DaemonHangs, SetAdministrator, AdministratorOn, AdministratorOff,
               AdministratorOffElevated, AdministratorExpires
<1>5. \/ UNCHANGED <<keeper, works>>
      \/ UNCHANGED keeper /\ works' = Ended
      \/ UNCHANGED keeper /\ works' = [works EXCEPT !.hung = TRUE]
      \/ UNCHANGED keeper /\ keeper # "none" /\ works' = [Ended EXCEPT !.runs = TRUE]
      \/ keeper' = "none" /\ works' = Ended
  BY Zenon DEF OpenCard, ToggleErase, CloseCard, LooksLocally, KeeperStarts, DaemonEnds, RunitReads,
               DaemonHangs, SetAdministrator, AdministratorOn, AdministratorOff,
               AdministratorOffElevated, AdministratorExpires
<1>6. /\ works' \in WorkState
      /\ works'.elevated => works.elevated
      /\ works'.runs => \/ works.runs /\ works'.elevated = works.elevated
                        \/ UNCHANGED keeper /\ keeper # "none"
  <2>1. /\ [Ended EXCEPT !.runs = TRUE] \in WorkState
        /\ ~[Ended EXCEPT !.runs = TRUE].elevated
    BY DEF Ended, WorkState
  <2>2. \A w \in WorkState : /\ [w EXCEPT !.hung = TRUE] \in WorkState
                             /\ [w EXCEPT !.hung = TRUE].elevated = w.elevated
                             /\ [w EXCEPT !.hung = TRUE].runs = w.runs
    BY DEF WorkState
  <2>3. works \in WorkState
    BY <1>1 DEF UninstallTypes
  <2> QED BY ONLY <1>5, <2>1, <2>2, <2>3, NothingRuns
<1>7. /\ keeper' = keeper \/ keeper' = "none"
      /\ keeper \in StillUp => keeper' \in StillUp \/ ~works'.runs
  BY <1>5, NothingRuns
<1>8. UninstallTypes'
  BY <1>1, <1>2, <1>3, <1>4, <1>6, <1>7 DEF UninstallTypes, Everything, Settled
<1>9. KeeperIsSeen'
  BY <1>1, <1>2, <1>4, <1>6, <1>7 DEF KeeperIsSeen, Settled
<1>10. \A who \in Whos : StepOf(removal[who])'
  <2>1. files' \subseteq files \cup {"data"}
    BY <1>4
  <2>2. /\ keeper' = keeper \/ keeper' \in Settled
        /\ works'.runs => \/ works.runs /\ works'.elevated = works.elevated
                          \/ keeper' \in StillUp \/ keeper \notin Settled
    BY <1>6, <1>7 DEF Settled, StillUp
  <2>3. {} \in SUBSET Whos /\ \A who \in Whos : removal'[who] = removal[who]
    BY <1>2
  <2> QED BY ONLY UninstallInv, <1>2, <1>7, <2>1, <2>2, <2>3, AllGoOn
<1> QED BY <1>8, <1>9, <1>10 DEF UninstallInv

\* The card goes on: it asks the daemon, it starts the script.
LEMMA CardGoesKeeps ==
  ASSUME UninstallInv, AsksDaemon \/ StartScript
  PROVE  UninstallInv'
<1>1. UninstallTypes /\ KeeperIsSeen
  BY DEF UninstallInv
<1>2. PICK r \in Removal : r = removal["card"]
  BY <1>1 DEF UninstallTypes, Whos
<1>3. StepOf(r)
  BY <1>2 DEF UninstallInv, Whos
<1>4. PICK at \in {"services", "idle", "failed"} :
         /\ Goes("card", at) /\ (at = "services" => r.at = "ask")
  BY <1>2 DEF AsksDaemon, StartScript, Fails
<1>5. UNCHANGED <<installation, files, keeper>>
  BY Zenon DEF AsksDaemon, StartScript
<1>6. external'.runs # "none" => installation.windows
  <2>1. CASE AsksDaemon
    BY <1>1, <2>1 DEF AsksDaemon, KeeperIsSeen
  <2>2. CASE StartScript
    BY <1>1, <1>2, <1>3, <2>2 DEF StartScript, KeeperIsSeen, StepOf
  <2> QED BY <2>1, <2>2
<1>7. card' \in CardState
  <2>1. card' = card \/ card' = NoCard \/ card' = [card EXCEPT !.busy = FALSE]
    BY Zenon DEF AsksDaemon, StartScript, Quits, Fails
  <2> QED BY <1>1, <2>1, NothingRuns DEF UninstallTypes
<1>8. works' \in WorkState /\ works'.runs = works.runs /\ works'.elevated = works.elevated
  <2>1. works' = works \/ works' = [works EXCEPT !.quits = TRUE]
    BY Zenon DEF AsksDaemon, StartScript
  <2>2. \A w \in WorkState : /\ [w EXCEPT !.quits = TRUE] \in WorkState
                             /\ [w EXCEPT !.quits = TRUE].runs = w.runs
                             /\ [w EXCEPT !.quits = TRUE].elevated = w.elevated
    BY DEF WorkState
  <2>3. works \in WorkState
    BY <1>1 DEF UninstallTypes
  <2> QED BY ONLY <2>1, <2>2, <2>3
<1>9. /\ removal' \in [Whos -> Removal]
      /\ removal'["card"] = [r EXCEPT !.at = at]
      /\ \A other \in Whos \ {"card"} : removal'[other] = removal[other]
  BY <1>1, <1>2, <1>4, OneGoes DEF Whos, Steps, RootGiven
<1>10. UninstallTypes'
  BY <1>1, <1>5, <1>7, <1>8, <1>9 DEF UninstallTypes
<1>11. KeeperIsSeen'
  BY <1>1, <1>5, <1>6, <1>8 DEF KeeperIsSeen
<1>12. StepOf(removal["card"])'
  <2>1. removal'["card"].at = at /\ removal'["card"].plan = r.plan
    BY <1>9 DEF Removal
  <2>2. TakesRoot(r.plan)' <=> TakesRoot(r.plan)
    BY <1>5 DEF TakesRoot
  <2>3. at = "services" /\ TakesRoot(r.plan) => Meant(r.plan) \cap files = {}
    BY <1>3, <1>4 DEF StepOf, RootGiven
  <2> QED BY <1>5, <2>1, <2>2, <2>3 DEF StepOf, RootGiven
<1>13. \A who \in Whos : StepOf(removal[who])'
  <2>1. {"card"} \in SUBSET Whos /\ \A w \in {"card"} : StepOf(removal[w])'
    BY <1>12 DEF Whos
  <2>2. files' \subseteq files \cup {"data"}
    BY <1>5
  <2> QED BY ONLY UninstallInv, <1>5, <1>8, <1>9, <2>1, <2>2, AllGoOn
<1> QED BY <1>10, <1>11, <1>13 DEF UninstallInv

\* Only on Windows, where no service keeps the daemon.
LEMMA ExternalRemovesKeeps ==
  ASSUME UninstallInv, ExternalRemoves
  PROVE  UninstallInv'
<1>1. UninstallTypes /\ KeeperIsSeen
  BY DEF UninstallInv
<1>2. /\ UNCHANGED <<installation, keeper>>
      /\ files' \subseteq files
      /\ works' = works \/ works' = Ended
      /\ external'.runs = "none" /\ external.runs # "none"
      /\ card' = NoCard
      /\ removal' = [removal EXCEPT !["card"] = Idle]
  BY DEF ExternalRemoves, Quits
<1>3. installation.windows /\ keeper = "none"
  BY <1>1, <1>2 DEF KeeperIsSeen
<1>4. /\ works' \in WorkState
      /\ works'.runs => works.runs /\ works'.elevated = works.elevated
      /\ works'.elevated => works.elevated
  BY <1>1, <1>2, NothingRuns DEF UninstallTypes
<1>5. /\ removal' \in [Whos -> Removal]
      /\ removal'["card"] = Idle
      /\ \A other \in Whos \ {"card"} : removal'[other] = removal[other]
  <2>1. Idle \in Removal
    BY DEF Idle, NoPlan, Removal, Steps, UninstallPlan
  <2> QED BY <1>1, <1>2, <2>1 DEF UninstallTypes, Whos
<1>6. UninstallTypes'
  BY <1>1, <1>2, <1>4, <1>5, NothingRuns DEF UninstallTypes
<1>7. KeeperIsSeen'
  BY <1>1, <1>2, <1>3, <1>4 DEF KeeperIsSeen, Settled
<1>8. StepOf(removal["card"])'
  BY <1>5 DEF StepOf, Idle, RootGiven
<1>9. \A who \in Whos : StepOf(removal[who])'
  <2>1. {"card"} \in SUBSET Whos /\ \A w \in {"card"} : StepOf(removal[w])'
    BY <1>8 DEF Whos
  <2>2. files' \subseteq files \cup {"data"}
    BY <1>2
  <2> QED BY ONLY UninstallInv, <1>2, <1>3, <1>4, <1>5, <2>1, <2>2, AllGoOn
<1> QED BY <1>6, <1>7, <1>9 DEF UninstallInv

\* Every step of the page, the terminal, the services and the daemon.
LEMMA UninstallStep ==
  ASSUME UninstallInv, UninstallNext
  PROVE  UninstallInv'
<1>1. \/ ClickUninstall \/ CtlUninstall \/ ExternalRemoves \/ AsksDaemon \/ StartScript
      \/ \E who \in Whos :
           RootAnswers(who) \/ ServicesDown(who) \/ EndPrograms(who) \/ RemoveRest(who)
      \/ OpenCard \/ ToggleErase \/ CloseCard \/ LooksLocally \/ KeeperStarts \/ DaemonEnds
      \/ RunitReads \/ DaemonHangs \/ SetAdministrator \/ AdministratorOn \/ AdministratorOff
      \/ AdministratorOffElevated \/ AdministratorExpires
  BY Zenon DEF UninstallNext, Whos
<1> QED
  BY <1>1, ClickUninstallKeeps, CtlUninstallKeeps, ExternalRemovesKeeps, CardGoesKeeps,
     RootAnswersKeeps, ServicesDownKeeps, EndProgramsKeeps, RemoveRestKeeps, OtherStepKeeps

\* What the invariant says of a removal that is done is what was promised.
LEMMA UninstallGivesPromise ==
  ASSUME UninstallInv
  PROVE  NothingBringsItBack
<1>1. UninstallTypes /\ KeeperIsSeen /\ \A who \in Whos : StepOf(removal[who])
  BY DEF UninstallInv
<1>2. DOMAIN removal = Whos
  BY <1>1 DEF UninstallTypes
<1>3. SUFFICES ASSUME NEW who \in Whos, removal[who].at = "done"
               PROVE  /\ (Meant(removal[who].plan) \cup removal[who].plan.integration) \cap files
                           \subseteq removal[who].failed
                      /\ keeper \in Settled
                      /\ works.runs => keeper \in StillUp \/ (installation.windows /\ works.elevated)
  BY <1>2 DEF NothingBringsItBack, Meant
<1> QED BY <1>1, <1>3 DEF StepOf, KeeperIsSeen

\* UninstallInv is an invariant: types, a service that nobody told to end yet is seen by whoever
\* removes Lexiglance, and what is so at each step of the card and of the terminal. A service whose
\* command or pipe failed is left and may start the daemon yet, as the code does not look at it.
THEOREM UninstallIsOrderly == UninstallSpec => []UninstallInv
<1>1. UninstallInit => UninstallInv
  BY UninstallBegins
<1>2. UninstallInv /\ [UninstallNext]_uninstallVars => UninstallInv'
  <2>1. SUFFICES ASSUME UninstallInv, UNCHANGED uninstallVars PROVE UninstallInv'
    BY UninstallStep
  <2>2. UNCHANGED <<installation, files, keeper, works, card, removal, external>>
    BY <2>1 DEF uninstallVars
  <2> QED BY <2>1, <2>2 DEF UninstallInv, UninstallTypes, KeeperIsSeen, StepOf, TakesRoot
<1> QED BY <1>1, <1>2, PTL DEF UninstallSpec

\* What was said to be uninstalled is gone, but for what is told, and nothing brings it back but a
\* service that was not taken down as its command or pipe failed, one of s6, or runit until it reads
\* (stopPrograms and remove of core/Uninstall.cpp, and the card and lexiglancectl that call them).
THEOREM RemovedIsGone == UninstallSpec => []NothingBringsItBack
BY UninstallIsOrderly, UninstallGivesPromise, PTL

-----------------------------------------------------------------------------
(* UpdateGroup: whatever fails while an update is made, something comes    *)
(* that turns the button on again, and the program without a window ends.  *)

Programs == {"window", "background"}
Program == [kind : Kinds, dev : BOOLEAN, builds : Kinds, version : Nat]
Memory == [automatic : BOOLEAN, installing : Nat, recent : BOOLEAN, changes : Nat]
Folder == [lock : Programs \cup {"none"}, file : Nat]
Group == [runs : BOOLEAN, version : Nat, busy : BOOLEAN, latest : Nat, locked : BOOLEAN]

\* A callback that waits: on the way of an update it knows the file of its kind, those of the program
\* without a window are all of the update it was started for.
Awaited(s) ==
  /\ s.by \in Programs \cup {"system"} /\ s.kind \in Kinds /\ s.version \in Nat
  /\ s.step \in {"resolve", "api", "sums", "file", "pkexec", "setup", "script", "redist"}
  /\ s.step = "redist" => s.by = "window"
  /\ s.step \in {"setup", "script"} <=> s.by = "system"
  /\ s.by = "background" => s.then # "none"
  /\ s.step \in {"sums", "file", "pkexec"} => s.then # "none"
  /\ s.step \in {"resolve", "api", "sums", "file"} /\ s.then # "none" => s.kind \notin NoAsset

GoesOn(s, p) == s.by = p /\ (s.then # "none" \/ s.step = "redist")

\* What callbacks take and give, all but what waits typed.
Taken(o) ==
  /\ o = [g |-> o.g, w |-> o.w, f |-> o.f, m |-> o.m, c |-> o.c]
  /\ o.g \in [Programs -> Group] /\ o.f \in Folder /\ o.m \in Memory /\ o.c \in Program
  /\ \A s \in o.w : Awaited(s)

\* A program whose button is off, or that has no window, is on its way.
OnItsWay(o, p) ==
  /\ o.g[p].busy => \E s \in o.w : GoesOn(s, p)
  /\ p = "background" /\ o.g[p].runs => \E s \in o.w : s.by = p

Ready(o)        == Taken(o) /\ \A p \in Programs : OnItsWay(o, p)
ReadyBut(o, p)  == Taken(o) /\ \A q \in Programs \ {p} : OnItsWay(o, q)

UpdateInv == release \in Nat /\ Ready(AsItIs)

\* One of the five parts changed.
LEMMA OnePart ==
  ASSUME NEW o, o = [g |-> o.g, w |-> o.w, f |-> o.f, m |-> o.m, c |-> o.c], NEW x
  PROVE  /\ [o EXCEPT !.g = x] = [g |-> x, w |-> o.w, f |-> o.f, m |-> o.m, c |-> o.c]
         /\ [o EXCEPT !.w = x] = [g |-> o.g, w |-> x, f |-> o.f, m |-> o.m, c |-> o.c]
         /\ [o EXCEPT !.f = x] = [g |-> o.g, w |-> o.w, f |-> x, m |-> o.m, c |-> o.c]
         /\ [o EXCEPT !.m = x] = [g |-> o.g, w |-> o.w, f |-> o.f, m |-> x, c |-> o.c]
         /\ [o EXCEPT !.c = x] = [g |-> o.g, w |-> o.w, f |-> o.f, m |-> o.m, c |-> x]
OBVIOUS

\* A change of the folder, of what is remembered or of what is installed changes nothing here.
LEMMA ElsewhereIsReady ==
  ASSUME NEW o, NEW p \in Programs, ReadyBut(o, p), NEW r,
         r = [g |-> o.g, w |-> o.w, f |-> r.f, m |-> r.m, c |-> r.c],
         r.f \in Folder, r.m \in Memory, r.c \in Program
  PROVE  ReadyBut(r, p) /\ (Ready(o) => Ready(r))
BY DEF Ready, ReadyBut, Taken, OnItsWay

\* One that goes on waits.
LEMMA WaitsIsReady ==
  ASSUME NEW o, NEW p \in Programs, ReadyBut(o, p), NEW step, NEW then, NEW kind \in Kinds,
         NEW version \in Nat,
         step \in {"resolve", "api", "sums", "file", "pkexec", "redist"},
         step = "redist" => p = "window",
         then # "none" \/ step = "redist",
         p = "background" => then # "none",
         step \in {"sums", "file", "pkexec"} => then # "none",
         step \in {"resolve", "api", "sums", "file"} /\ then # "none" => kind \notin NoAsset
  PROVE  Ready(Waits(o, p, step, then, kind, version))
<1> DEFINE s == [id |-> CHOOSE n \in 1 .. MaxWaiting + 1 : \A t \in o.w : t.id # n,
                 by |-> p, step |-> step, then |-> then, kind |-> kind, version |-> version]
           r == Waits(o, p, step, then, kind, version)
<1>1. Awaited(s) /\ GoesOn(s, p) /\ s.by = p
  BY DEF Awaited, GoesOn, Programs
<1>2. r = [o EXCEPT !.w = @ \cup {s}]
  BY DEF Waits
<1> HIDE DEF s
<1>3. o = [g |-> o.g, w |-> o.w, f |-> o.f, m |-> o.m, c |-> o.c]
  BY DEF ReadyBut, Taken
<1>4. r = [g |-> o.g, w |-> o.w \cup {s}, f |-> o.f, m |-> o.m, c |-> o.c]
  BY <1>2, <1>3
<1> HIDE DEF r
<1>5. r.g = o.g /\ r.w = o.w \cup {s} /\ r.f = o.f /\ r.m = o.m /\ r.c = o.c
  BY <1>4
<1>6. Taken(r)
  BY <1>1, <1>4, <1>5 DEF ReadyBut, Taken
<1>7. \A q \in Programs : OnItsWay(r, q)
  BY <1>1, <1>5 DEF ReadyBut, OnItsWay
<1> QED BY <1>6, <1>7 DEF Ready, r

\* Of a callback that does not go on only the types matter.
LEMMA WaitsKeepsReady ==
  ASSUME NEW o, Ready(o), NEW by, NEW step, NEW then, NEW kind, NEW version,
         \A id : Awaited([id |-> id, by |-> by, step |-> step, then |-> then, kind |-> kind,
                          version |-> version])
  PROVE  Ready(Waits(o, by, step, then, kind, version))
<1> DEFINE s == [id |-> CHOOSE n \in 1 .. MaxWaiting + 1 : \A t \in o.w : t.id # n,
                 by |-> by, step |-> step, then |-> then, kind |-> kind, version |-> version]
           r == Waits(o, by, step, then, kind, version)
<1>1. Awaited(s)
  OBVIOUS
<1>2. r = [o EXCEPT !.w = @ \cup {s}]
  BY DEF Waits
<1> HIDE DEF s
<1>3. o = [g |-> o.g, w |-> o.w, f |-> o.f, m |-> o.m, c |-> o.c]
  BY DEF Ready, Taken
<1>4. r = [g |-> o.g, w |-> o.w \cup {s}, f |-> o.f, m |-> o.m, c |-> o.c]
  BY <1>2, <1>3
<1> HIDE DEF r
<1>5. r.g = o.g /\ r.w = o.w \cup {s} /\ r.f = o.f /\ r.m = o.m /\ r.c = o.c
  BY <1>4
<1>6. Taken(r)
  BY <1>1, <1>4, <1>5 DEF Ready, Taken
<1>7. \A q \in Programs : OnItsWay(r, q)
  BY <1>5 DEF Ready, OnItsWay
<1> QED BY <1>6, <1>7 DEF Ready, r

\* The lock of the updates' folder is let go: nothing else changes.
LEMMA UnlockedIsReady ==
  ASSUME NEW o, NEW p \in Programs, Taken(o)
  PROVE  /\ Taken(Unlocked(o, p)) /\ Unlocked(o, p).w = o.w
         /\ \A q \in Programs : /\ Unlocked(o, p).g[q].busy = o.g[q].busy
                                /\ Unlocked(o, p).g[q].runs = o.g[q].runs
         /\ Unlocked(o, p).c = o.c
<1> DEFINE r == Unlocked(o, p)
           g == [o.g EXCEPT ![p].locked = FALSE]
           f == [o.f EXCEPT !.lock = IF o.g[p].locked THEN "none" ELSE o.f.lock]
           half == [o EXCEPT !.g = g]
<1>1. o = [g |-> o.g, w |-> o.w, f |-> o.f, m |-> o.m, c |-> o.c]
  BY DEF Taken
<1>half. half = [g |-> g, w |-> o.w, f |-> o.f, m |-> o.m, c |-> o.c]
  <2> HIDE DEF g
  <2> QED BY <1>1, OnePart
<1>4. r = [half EXCEPT !.f = f]
  BY <1>half DEF Unlocked
<1>2. r = [g |-> g, w |-> o.w, f |-> f, m |-> o.m, c |-> o.c]
  <2> HIDE DEF r, g, f, half
  <2> QED BY <1>half, <1>4
<1>3. /\ g \in [Programs -> Group] /\ f \in Folder
      /\ \A q \in Programs : g[q].busy = o.g[q].busy /\ g[q].runs = o.g[q].runs
  BY DEF Taken, Group, Folder
<1> HIDE DEF r, g, f
<1> QED BY <1>1, <1>2, <1>3 DEF Taken, r

\* A program ends: what waited in it is dropped, and its lock with it.
LEMMA QuitIsReady ==
  ASSUME NEW o, NEW p \in Programs, ReadyBut(o, p)
  PROVE  /\ Ready(Quit(o, p))
         /\ \A q \in Programs : OnItsWay(o, q) => OnItsWay(Quit(o, p), q)
         /\ Quit(o, p).f.file = o.f.file /\ Quit(o, p).m = o.m /\ Quit(o, p).c = o.c
<1> DEFINE r == Quit(o, p)
           g == [o.g EXCEPT ![p] = Gone]
           w == {s \in o.w : s.by # p}
           f == [o.f EXCEPT !.lock = IF o.f.lock = p THEN "none" ELSE o.f.lock]
           o1 == [o EXCEPT !.g = g]
           o2 == [o1 EXCEPT !.w = w]
<1>1. o = [g |-> o.g, w |-> o.w, f |-> o.f, m |-> o.m, c |-> o.c]
  BY DEF ReadyBut, Taken
<1>2. o1 = [g |-> g, w |-> o.w, f |-> o.f, m |-> o.m, c |-> o.c]
  <2> HIDE DEF g
  <2> QED BY <1>1, OnePart
<1>3. o2 = [g |-> g, w |-> w, f |-> o.f, m |-> o.m, c |-> o.c]
  <2> HIDE DEF g, w, o1
  <2> QED BY <1>2, OnePart
<1>4. r = [o2 EXCEPT !.f = f]
  BY <1>2, <1>3 DEF Quit
<1>5. r = [g |-> g, w |-> w, f |-> f, m |-> o.m, c |-> o.c]
  <2> HIDE DEF r, g, w, f, o1, o2
  <2> QED BY <1>3, <1>4, OnePart
<1>6. /\ g \in [Programs -> Group] /\ f \in Folder /\ f.file = o.f.file
      /\ ~g[p].busy /\ ~g[p].runs
      /\ \A q \in Programs \ {p} : g[q] = o.g[q]
  BY DEF ReadyBut, Taken, Group, Folder, Gone
<1>7. \A s \in o.w : s \in w \/ s.by = p
  OBVIOUS
<1>8. w \subseteq o.w
  OBVIOUS
<1> HIDE DEF r, g, w, f, o1, o2
<1>9. r.g = g /\ r.w = w /\ r.f = f /\ r.m = o.m /\ r.c = o.c
  BY <1>5
<1>10. Taken(r)
  BY <1>5, <1>6, <1>8, <1>9 DEF ReadyBut, Taken
<1>11. \A q \in Programs \ {p} : OnItsWay(o, q) => OnItsWay(r, q)
  BY <1>6, <1>7, <1>9 DEF OnItsWay, GoesOn
<1>12. OnItsWay(r, p)
  BY <1>6, <1>9 DEF OnItsWay
<1> QED BY <1>6, <1>9, <1>10, <1>11, <1>12 DEF Ready, ReadyBut, r

\* An update that ends, and one that fails.
LEMMA FinishedIsReady ==
  ASSUME NEW o, NEW p \in Programs, ReadyBut(o, p), ~o.g[p].busy
  PROVE  Ready(Finished(o, p))
<1>1. CASE p = "background"
  BY <1>1, QuitIsReady DEF Finished
<1>2. CASE p # "background"
  BY <1>2 DEF Finished, Ready, ReadyBut, OnItsWay
<1> QED BY <1>1, <1>2

\* An update that fails: the program is not busy any more, and its lock is let go.
LEMMA FailIsReady ==
  ASSUME NEW o, NEW p \in Programs, ReadyBut(o, p)
  PROVE  Ready(Fail(o, p))
<1> DEFINE g == [o.g EXCEPT ![p].busy = FALSE]
           off == [o EXCEPT !.g = g]
           r == Unlocked(off, p)
<1>1. o = [g |-> o.g, w |-> o.w, f |-> o.f, m |-> o.m, c |-> o.c]
  BY DEF ReadyBut, Taken
<1>2. off = [g |-> g, w |-> o.w, f |-> o.f, m |-> o.m, c |-> o.c]
  <2> HIDE DEF g
  <2> QED BY <1>1, OnePart
<1>3. Fail(o, p) = Finished(r, p)
  BY DEF Fail
<1>4. /\ g \in [Programs -> Group] /\ ~g[p].busy
      /\ \A q \in Programs \ {p} : g[q] = o.g[q]
  BY DEF ReadyBut, Taken, Group
<1> HIDE DEF g, off
<1>5. off.g = g /\ off.w = o.w /\ off.f = o.f /\ off.m = o.m /\ off.c = o.c
  BY <1>2
<1>6. Taken(off)
  BY <1>2, <1>4, <1>5 DEF ReadyBut, Taken
<1>7. /\ Taken(r) /\ r.w = o.w
      /\ \A q \in Programs : r.g[q].busy = off.g[q].busy /\ r.g[q].runs = off.g[q].runs
  BY <1>5, <1>6, UnlockedIsReady
<1> HIDE DEF r
<1>8. ReadyBut(r, p) /\ ~r.g[p].busy
  BY <1>4, <1>5, <1>7 DEF ReadyBut, OnItsWay
<1> QED BY <1>3, <1>8, FinishedIsReady

\* The update that is being installed is noted.
LEMMA NotedIsReady ==
  ASSUME NEW o, NEW p \in Programs, ReadyBut(o, p)
  PROVE  /\ ReadyBut(Noted(o, p), p)
         /\ Noted(o, p).f = o.f /\ Noted(o, p).c = o.c
<1> DEFINE r == Noted(o, p)
           m1 == [o.m EXCEPT !.installing = o.g[p].latest]
           m2 == [m1 EXCEPT !.recent = TRUE]
           half == [o EXCEPT !.m = m1]
<1>1. o = [g |-> o.g, w |-> o.w, f |-> o.f, m |-> o.m, c |-> o.c]
  BY DEF ReadyBut, Taken
<1>2. half = [g |-> o.g, w |-> o.w, f |-> o.f, m |-> m1, c |-> o.c]
  <2> HIDE DEF m1
  <2> QED BY <1>1, OnePart
<1>3. r = [half EXCEPT !.m = m2]
  BY <1>2 DEF Noted
<1>4. m2 \in Memory
  BY DEF ReadyBut, Taken, Memory, Group
<1>5. r = [g |-> o.g, w |-> o.w, f |-> o.f, m |-> m2, c |-> o.c]
  <2> HIDE DEF r, m1, m2, half
  <2> QED BY <1>2, <1>3, OnePart
<1> HIDE DEF r, m1, m2, half
<1>6. r.g = o.g /\ r.w = o.w /\ r.f = o.f /\ r.m = m2 /\ r.c = o.c
  BY <1>5
<1>7. o.f \in Folder /\ o.c \in Program
  BY DEF ReadyBut, Taken
<1>8. ReadyBut(r, p)
  BY <1>4, <1>5, <1>6, <1>7, ElsewhereIsReady
<1> QED BY <1>6, <1>8 DEF r

\* The file an update brought.
LEMMA FileIsReady ==
  ASSUME NEW o, NEW p \in Programs, ReadyBut(o, p), NEW n \in Nat
  PROVE  /\ ReadyBut([o EXCEPT !.f.file = n], p)
         /\ [o EXCEPT !.f.file = n].f.file = n
<1> DEFINE r == [o EXCEPT !.f.file = n]
           f == [o.f EXCEPT !.file = n]
<1>1. o = [g |-> o.g, w |-> o.w, f |-> o.f, m |-> o.m, c |-> o.c]
  BY DEF ReadyBut, Taken
<1>2. r = [g |-> o.g, w |-> o.w, f |-> f, m |-> o.m, c |-> o.c]
  <2>1. r = [o EXCEPT !.f = f]
    OBVIOUS
  <2> HIDE DEF f, r
  <2> QED BY <1>1, <2>1, OnePart
<1>3. f \in Folder /\ f.file = n
  BY DEF ReadyBut, Taken, Folder
<1> HIDE DEF r, f
<1>4. r.f = f /\ r.m = o.m /\ r.c = o.c
  BY <1>2
<1>5. o.m \in Memory /\ o.c \in Program
  BY DEF ReadyBut, Taken
<1>6. ReadyBut(r, p)
  BY <1>2, <1>3, <1>4, <1>5, ElsewhereIsReady
<1> QED BY <1>3, <1>4, <1>6 DEF r

\* Another version in its place.
LEMMA InPlaceIsReady ==
  ASSUME NEW o, NEW p \in Programs, ReadyBut(o, p), NEW kind \in Kinds, NEW version \in Nat
  PROVE  ReadyBut(InPlace(o, kind, version), p) /\ (Ready(o) => Ready(InPlace(o, kind, version)))
<1> DEFINE r  == InPlace(o, kind, version)
           c1 == [o.c EXCEPT !.kind = kind]
           c2 == [c1 EXCEPT !.dev = o.c.dev /\ kind = o.c.kind]
           c3 == [c2 EXCEPT !.version = version]
           o1 == [o EXCEPT !.c = c1]
           o2 == [o1 EXCEPT !.c = c2]
<1>1. o = [g |-> o.g, w |-> o.w, f |-> o.f, m |-> o.m, c |-> o.c]
  BY DEF ReadyBut, Taken
<1>2. o1 = [g |-> o.g, w |-> o.w, f |-> o.f, m |-> o.m, c |-> c1]
  <2> HIDE DEF c1
  <2> QED BY <1>1, OnePart
<1>3. o2 = [g |-> o.g, w |-> o.w, f |-> o.f, m |-> o.m, c |-> c2]
  <2> HIDE DEF c1, c2, o1
  <2> QED BY <1>2, OnePart
<1>4. r = [o2 EXCEPT !.c = c3]
  BY <1>2, <1>3 DEF InPlace
<1>5. r = [g |-> o.g, w |-> o.w, f |-> o.f, m |-> o.m, c |-> c3]
  <2> HIDE DEF r, c1, c2, c3, o1, o2
  <2> QED BY <1>3, <1>4, OnePart
<1>6. c3 \in Program
  <2>1. o.c \in Program /\ (o.c.dev /\ kind = o.c.kind) \in BOOLEAN
    BY DEF ReadyBut, Taken
  <2> QED BY <2>1 DEF Program
<1> HIDE DEF r, c1, c2, c3, o1, o2
<1>7. r.f = o.f /\ r.m = o.m /\ r.c = c3
  BY <1>5
<1>8. o.f \in Folder /\ o.m \in Memory
  BY DEF ReadyBut, Taken
<1>9. ReadyBut(r, p) /\ (Ready(o) => Ready(r))
  BY <1>5, <1>6, <1>7, <1>8, ElsewhereIsReady
<1> QED BY <1>9 DEF r

\* What is known of one program changes.
LEMMA GroupIsReady ==
  ASSUME NEW o, NEW p \in Programs, ReadyBut(o, p), NEW x \in Group
  PROVE  /\ ReadyBut([o EXCEPT !.g[p] = x], p)
         /\ [o EXCEPT !.g[p] = x].g[p] = x
         /\ [o EXCEPT !.g[p] = x].w = o.w /\ [o EXCEPT !.g[p] = x].f = o.f
         /\ [o EXCEPT !.g[p] = x].m = o.m /\ [o EXCEPT !.g[p] = x].c = o.c
         /\ \A q \in Programs : q # p => [o EXCEPT !.g[p] = x].g[q] = o.g[q]
<1> DEFINE r == [o EXCEPT !.g[p] = x]
           g == [o.g EXCEPT ![p] = x]
<1>1. o = [g |-> o.g, w |-> o.w, f |-> o.f, m |-> o.m, c |-> o.c]
  BY DEF ReadyBut, Taken
<1>2. r = [g |-> g, w |-> o.w, f |-> o.f, m |-> o.m, c |-> o.c]
  <2>1. r = [o EXCEPT !.g = g]
    OBVIOUS
  <2> HIDE DEF g, r
  <2> QED BY <1>1, <2>1, OnePart
<1>3. g \in [Programs -> Group] /\ g[p] = x /\ \A q \in Programs \ {p} : g[q] = o.g[q]
  BY DEF ReadyBut, Taken
<1> HIDE DEF r, g
<1>4. r.g = g /\ r.w = o.w /\ r.f = o.f /\ r.m = o.m /\ r.c = o.c
  BY <1>2
<1>5. Taken(r)
  BY <1>2, <1>3, <1>4 DEF ReadyBut, Taken
<1>6. ReadyBut(r, p)
  BY <1>3, <1>4, <1>5 DEF ReadyBut, OnItsWay
<1> QED BY <1>3, <1>4, <1>6 DEF r

\* An answer that came: only its own program waits for something else now.
LEMMA AnsweredIsReady ==
  ASSUME UpdateInv, NEW s \in waiting
  PROVE  /\ Awaited(s)
         /\ s.by \in Programs => ReadyBut(Answered(s), s.by)
         /\ s.by = "system" => Ready(Answered(s))
         /\ s.then = "none" /\ s.step # "redist" => Ready(Answered(s))
         /\ Answered(s).g = groups /\ Answered(s).f = folder /\ Answered(s).c = program
<1> DEFINE o == Answered(s)
<1>1. o = [g |-> groups, w |-> waiting \ {s}, f |-> folder, m |-> memory, c |-> program]
  BY DEF Answered, AsItIs
<1>2. /\ AsItIs.g = groups /\ AsItIs.w = waiting /\ AsItIs.f = folder /\ AsItIs.m = memory
      /\ AsItIs.c = program
  BY DEF AsItIs
<1> HIDE DEF o
<1>3. o.g = groups /\ o.w = waiting \ {s} /\ o.f = folder /\ o.m = memory /\ o.c = program
  BY <1>1
<1>4. Awaited(s)
  BY <1>2 DEF UpdateInv, Ready, Taken
<1>5. Taken(o)
  BY <1>1, <1>2, <1>3 DEF UpdateInv, Ready, Taken
<1>6. \A p \in Programs : OnItsWay(AsItIs, p)
  BY DEF UpdateInv, Ready
<1>7. \A p \in Programs : p # s.by => OnItsWay(o, p)
  BY <1>2, <1>3, <1>6 DEF OnItsWay, GoesOn
<1>8. ASSUME s.by = "system"
      PROVE  \A p \in Programs : OnItsWay(o, p)
  BY <1>7, <1>8 DEF Programs
<1>9. ASSUME s.then = "none", s.step # "redist"
      PROVE  \A p \in Programs : OnItsWay(o, p)
  <2> SUFFICES ASSUME NEW p \in Programs
               PROVE  OnItsWay(o, p)
    OBVIOUS
  <2>1. ~GoesOn(s, p)
    BY <1>9 DEF GoesOn
  <2>2. p = "background" => s.by # p
    BY <1>4, <1>9 DEF Awaited
  <2> QED BY <1>2, <1>3, <1>6, <2>1, <2>2 DEF OnItsWay
<1> QED BY <1>3, <1>4, <1>5, <1>7, <1>8, <1>9 DEF Ready, ReadyBut, o

\* The newest release is known, by an answer of the page or of the API.
LEMMA TakeIsReady ==
  ASSUME NEW o, NEW s, NEW tag \in Nat, Awaited(s), s.by \in Programs, s.step \in {"resolve", "api"},
         ReadyBut(o, s.by), s.then = "none" => Ready(o)
  PROVE  Ready(Take(o, s, tag))
<1> DEFINE p == s.by
           x == [o.g[p] EXCEPT !.latest = tag]
           known == [o EXCEPT !.g[s.by].latest = tag]
<1>1. x \in Group /\ x.busy = o.g[p].busy /\ x.runs = o.g[p].runs
  BY DEF ReadyBut, Taken, Group
<1>2. known = [o EXCEPT !.g[p] = x]
  OBVIOUS
<1> HIDE DEF x, known
<1>3. /\ ReadyBut(known, p) /\ known.g[p] = x /\ known.w = o.w
  BY <1>1, <1>2, GroupIsReady
<1>4. CASE s.then = "none"
  <2>1. OnItsWay(known, p)
    BY <1>1, <1>3, <1>4 DEF Ready, OnItsWay
  <2>2. Take(o, s, tag) = known
    BY <1>4 DEF Take, known
  <2> QED BY <1>3, <2>1, <2>2 DEF Ready, ReadyBut
<1>5. CASE s.then # "none"
  <2>1. \/ Take(o, s, tag) = Fail(known, p)
        \/ Take(o, s, tag) = Waits(known, p, "sums", s.then, s.kind, tag)
    BY <1>5 DEF Take, Fail, known
  <2>2. Ready(Fail(known, p))
    BY <1>3, FailIsReady
  <2>3. s.kind \in Kinds /\ s.kind \notin NoAsset
    BY <1>5 DEF Awaited
  <2>4. Ready(Waits(known, p, "sums", s.then, s.kind, tag))
    BY <1>3, <1>5, <2>3, WaitsIsReady
  <2> QED BY <2>1, <2>2, <2>4
<1> QED BY <1>4, <1>5

\* An update that begins, or finds another one.
LEMMA UpdateIsReady ==
  ASSUME NEW o, NEW p \in Programs, NEW automatic \in BOOLEAN, ReadyBut(o, p),
         Ready(o) \/ ~o.g[p].busy, release \in Nat
  PROVE  Ready(Update(o, p, automatic))
<1> DEFINE kind == IF o.c.kind = "Source" /\ o.c.dev /\ p = "window" THEN o.c.builds ELSE o.c.kind
           free == Unlocked(o, p)
           begun == [free EXCEPT !.g[p].busy = TRUE, !.g[p].locked = TRUE, !.f.lock = p]
           then == IF automatic THEN "automatic" ELSE "asked"
<1>1. kind \in Kinds
  BY DEF ReadyBut, Taken, Program
<1>2. /\ kind \in NoAsset \/ o.g[p].busy => Update(o, p, automatic) = Finished(o, p)
      /\ ~(kind \in NoAsset \/ o.g[p].busy) /\ free.f.lock # "none"
           => Update(o, p, automatic) = Finished(free, p)
      /\ ~(kind \in NoAsset \/ o.g[p].busy) /\ free.f.lock = "none"
           => Update(o, p, automatic) = Waits(begun, p, "resolve", then, kind, release)
  BY DEF Update, Check
<1>3. then # "none"
  OBVIOUS
<1> HIDE DEF kind, then
<1>4. Taken(free) /\ free.w = o.w
      /\ \A q \in Programs : free.g[q].busy = o.g[q].busy /\ free.g[q].runs = o.g[q].runs
  BY UnlockedIsReady DEF ReadyBut
<1>5. ReadyBut(free, p)
  BY <1>4 DEF ReadyBut, OnItsWay
<1>6. ReadyBut(begun, p)
  <2> DEFINE x1 == [free.g[p] EXCEPT !.busy = TRUE]
             x  == [x1 EXCEPT !.locked = TRUE]
             f  == [free.f EXCEPT !.lock = p]
             half == [free EXCEPT !.g[p] = x]
  <2>1. x \in Group
    <3>1. free.g[p] \in Group
      BY <1>5 DEF ReadyBut, Taken
    <3> HIDE DEF free
    <3> QED BY <3>1 DEF Group
  <2>2. f \in Folder
    BY <1>5 DEF ReadyBut, Taken, Folder
  <2>3. ReadyBut(half, p) /\ half.f = free.f
    BY <1>5, <2>1, GroupIsReady
  <2>4. free = [g |-> free.g, w |-> free.w, f |-> free.f, m |-> free.m, c |-> free.c]
    BY <1>4 DEF Taken
  <2>5. begun = [half EXCEPT !.f = f]
    <3> DEFINE g1 == [free.g EXCEPT ![p] = x1]
               g2 == [g1 EXCEPT ![p] = x]
               o1 == [free EXCEPT !.g = g1]
               o2 == [o1 EXCEPT !.g = g2]
    <3>1. o1 = [g |-> g1, w |-> free.w, f |-> free.f, m |-> free.m, c |-> free.c]
      <4> HIDE DEF g1, free
      <4> QED BY <2>4, OnePart
    <3>2. o2 = [g |-> g2, w |-> free.w, f |-> free.f, m |-> free.m, c |-> free.c]
      <4> HIDE DEF g1, g2, o1, free
      <4> QED BY <3>1, OnePart
    <3>3. g2 = [free.g EXCEPT ![p] = x] /\ g1[p] = x1
      <4>1. p \in DOMAIN free.g
        BY <1>5 DEF ReadyBut, Taken
      <4> HIDE DEF x, x1, free
      <4> QED BY <4>1
    <3>4. begun = [o2 EXCEPT !.f = f]
      BY <3>1, <3>2, <3>3
    <3>5. half = [free EXCEPT !.g = [free.g EXCEPT ![p] = x]]
      OBVIOUS
    <3> HIDE DEF x1, x, f, g1, g2, o1, o2, half, free, begun
    <3> QED BY <2>4, <3>2, <3>3, <3>4, <3>5
  <2>6. half = [g |-> half.g, w |-> half.w, f |-> half.f, m |-> half.m, c |-> half.c]
    BY <2>3 DEF ReadyBut, Taken
  <2> HIDE DEF x, f, half, free, begun
  <2>7. begun = [g |-> half.g, w |-> half.w, f |-> f, m |-> half.m, c |-> half.c]
    BY <2>5, <2>6, OnePart
  <2>8. begun.f = f /\ begun.m = half.m /\ begun.c = half.c
    BY <2>7
  <2>9. half.m \in Memory /\ half.c \in Program
    BY <2>3 DEF ReadyBut, Taken
  <2> QED BY <2>2, <2>3, <2>7, <2>8, <2>9, ElsewhereIsReady
<1> HIDE DEF free, begun
<1>7. CASE kind \in NoAsset \/ o.g[p].busy
  <2>1. CASE ~o.g[p].busy
    BY <1>2, <1>7, <2>1, FinishedIsReady
  <2>2. CASE o.g[p].busy /\ p = "background"
    BY <1>2, <1>7, <2>2, QuitIsReady DEF Finished
  <2>3. CASE o.g[p].busy /\ p # "background"
    BY <1>2, <1>7, <2>3 DEF Finished
  <2> QED BY <2>1, <2>2, <2>3
<1>8. CASE ~(kind \in NoAsset \/ o.g[p].busy) /\ free.f.lock # "none"
  BY <1>2, <1>4, <1>5, <1>8, FinishedIsReady
<1>9. CASE ~(kind \in NoAsset \/ o.g[p].busy) /\ free.f.lock = "none"
  <2>1. Ready(Waits(begun, p, "resolve", then, kind, release))
    BY <1>1, <1>3, <1>6, <1>9, WaitsIsReady
  <2> QED BY <1>2, <1>9, <2>1
<1> QED BY <1>7, <1>8, <1>9

\* What is installed when a file has come, and when it cannot be.
LEMMA InstallIsReady ==
  ASSUME NEW o, NEW s, Awaited(s), s.by \in Programs, s.step = "file", ReadyBut(o, s.by)
  PROVE  Ready(Install(o, s)) /\ Ready(NotInstalled(o, s))
<1> DEFINE noted == Noted(o, s.by)
<1>1. ReadyBut(noted, s.by) /\ noted.f = o.f
  BY NotedIsReady
<1>2. s.then # "none" /\ s.kind \in Kinds \ NoAsset /\ s.version \in Nat
  BY DEF Awaited
<1>3. ASSUME NEW step \in {"setup", "script"}, NEW version \in Nat
      PROVE  Ready(Waits(Quit(noted, s.by), "system", step, s.then, s.kind, version))
  <2>1. Ready(Quit(noted, s.by))
    BY <1>1, QuitIsReady
  <2>2. \A id : Awaited([id |-> id, by |-> "system", step |-> step, then |-> s.then,
                         kind |-> s.kind, version |-> version])
    BY <1>2, <1>3 DEF Awaited, Programs
  <2> QED BY ONLY <2>1, <2>2, WaitsKeepsReady
<1>4. ASSUME s.kind = "WindowsSetup"
      PROVE  Ready(Install(o, s))
  <2>1. Install(o, s) = Waits(Quit(noted, s.by), "system", "setup", s.then, s.kind, s.version)
    BY <1>4 DEF Install
  <2> QED BY <1>2, <1>3, <2>1
<1>5. ASSUME s.kind = "WindowsPortable"
      PROVE  Ready(Install(o, s))
  <2>1. Install(o, s) = Waits(Quit(noted, s.by), "system", "script", s.then, s.kind, 0)
    BY <1>5 DEF Install
  <2> QED BY <1>3, <2>1
<1>6. ASSUME s.kind = "AppImage"
      PROVE  Ready(Install(o, s))
  <2> DEFINE emptied == [noted EXCEPT !.f.file = 0]
  <2>1. Install(o, s) = Quit(InPlace(emptied, s.kind, o.f.file), s.by)
    BY <1>6 DEF Install
  <2>2. ReadyBut(emptied, s.by)
    BY <1>1, FileIsReady
  <2>3. o.f.file \in Nat
    BY DEF ReadyBut, Taken, Folder
  <2> HIDE DEF emptied
  <2>4. ReadyBut(InPlace(emptied, s.kind, o.f.file), s.by)
    BY <1>2, <2>2, <2>3, InPlaceIsReady
  <2> QED BY <2>1, <2>4, QuitIsReady
<1>7. ASSUME s.kind \in {"Deb", "Rpm"}
      PROVE  Ready(Install(o, s))
  <2>1. Install(o, s) = Waits(noted, s.by, "pkexec", s.then, s.kind, 0)
    BY <1>7 DEF Install
  <2> HIDE DEF noted
  <2>2. Ready(Waits(noted, s.by, "pkexec", s.then, s.kind, 0))
    BY <1>1, <1>2, WaitsIsReady
  <2> QED BY <2>1, <2>2
<1>8. Ready(NotInstalled(o, s))
  <2> DEFINE n == IF s.kind = "AppImage" THEN 0 ELSE noted.f.file
             left == [noted EXCEPT !.f.file = n]
  <2>1. NotInstalled(o, s) = Fail(left, s.by)
    BY DEF NotInstalled
  <2>2. n \in Nat
    BY <1>1 DEF ReadyBut, Taken, Folder
  <2> HIDE DEF n, noted
  <2>3. ReadyBut(left, s.by)
    BY <1>1, <2>2, FileIsReady
  <2> HIDE DEF left
  <2> QED BY <2>1, <2>3, FailIsReady
<1>9. s.kind \in {"WindowsSetup", "WindowsPortable", "AppImage", "Deb", "Rpm"}
  BY <1>2 DEF Kinds, NoAsset
<1> QED BY <1>4, <1>5, <1>6, <1>7, <1>8, <1>9

\* What callbacks made of the state is what it becomes.
LEMMA BecomesReady ==
  ASSUME UpdateInv, NEW o, Ready(o), Becomes(o)
  PROVE  UpdateInv'
<1>1. AsItIs' = [g |-> o.g, w |-> o.w, f |-> o.f, m |-> o.m, c |-> o.c]
  BY DEF Becomes, AsItIs
<1>2. AsItIs' = o
  BY <1>1 DEF Ready, Taken
<1>3. Ready(AsItIs')
  BY <1>2
<1>4. (release \in Nat)'
  BY DEF Becomes, UpdateInv
<1>5. Ready(AsItIs)'
  BY <1>3 DEF Ready, Taken, OnItsWay
<1> QED BY <1>4, <1>5 DEF UpdateInv

\* What the parts are before a step.
LEMMA PartsAsTheyAre ==
  ASSUME UpdateInv
  PROVE  /\ AsItIs = [g |-> groups, w |-> waiting, f |-> folder, m |-> memory, c |-> program]
         /\ AsItIs.g = groups /\ AsItIs.w = waiting /\ AsItIs.f = folder /\ AsItIs.m = memory
         /\ AsItIs.c = program
         /\ groups \in [Programs -> Group] /\ folder \in Folder /\ memory \in Memory
         /\ program \in Program
         /\ Ready(AsItIs) /\ \A p \in Programs : ReadyBut(AsItIs, p)
BY DEF UpdateInv, Ready, ReadyBut, Taken, AsItIs

\* The window opens: nothing of it waits yet, or the runtime for OCR is on its way.
LEMMA StartWindowIsReady ==
  ASSUME UpdateInv, StartWindow
  PROVE  UpdateInv'
<1> DEFINE x == [Gone EXCEPT !.runs = TRUE, !.version = program.version]
           open == [AsItIs EXCEPT !.g["window"] = x]
           m1 == [memory EXCEPT !.installing = 0]
           m == [m1 EXCEPT !.changes = program.version]
           f1 == [folder EXCEPT !.lock = IF OnWindows THEN folder.lock ELSE "none"]
           f == [f1 EXCEPT !.file = IF program.kind = "AppImage" THEN f1.file ELSE 0]
           took == [open EXCEPT
                     !.m.installing = 0, !.m.changes = program.version,
                     !.f.lock = IF OnWindows THEN @ ELSE "none",
                     !.f.file = IF program.kind = "AppImage" THEN @ ELSE 0]
           late == [took EXCEPT !.g["window"].busy = TRUE]
<1>1. x \in Group /\ ~x.busy /\ x.runs
  BY PartsAsTheyAre DEF Gone, Group, Program
<1> HIDE DEF x
<1>2. /\ ReadyBut(open, "window") /\ open.g["window"] = x
      /\ open.w = waiting /\ open.f = folder /\ open.m = memory /\ open.c = program
  BY <1>1, PartsAsTheyAre, GroupIsReady DEF Programs
<1>3. OnItsWay(open, "window")
  BY <1>1, <1>2 DEF OnItsWay
<1>4. Ready(open)
  BY <1>2, <1>3 DEF Ready, ReadyBut
<1>5. m \in Memory /\ f \in Folder
  BY PartsAsTheyAre DEF Memory, Folder, Program
<1>6. took = [g |-> open.g, w |-> open.w, f |-> f, m |-> m, c |-> open.c]
  <2> DEFINE o1 == [open EXCEPT !.m.installing = 0]
             o2 == [o1 EXCEPT !.m.changes = program.version]
             o3 == [o2 EXCEPT !.f.lock = IF OnWindows THEN open.f.lock ELSE "none"]
             o4 == [o3 EXCEPT !.f.file = IF program.kind = "AppImage" THEN open.f.file ELSE 0]
  <2>1. open = [g |-> open.g, w |-> open.w, f |-> folder, m |-> memory, c |-> open.c]
    BY <1>2 DEF ReadyBut, Taken
  <2>2. took = o4
    OBVIOUS
  <2>7. open.f = folder
    BY <1>2
  <2> HIDE DEF open, took
  <2>3. o1 = [g |-> open.g, w |-> open.w, f |-> folder, m |-> m1, c |-> open.c]
    BY <2>1
  <2> HIDE DEF o1
  <2>4. o2 = [g |-> open.g, w |-> open.w, f |-> folder, m |-> m, c |-> open.c]
    <3> HIDE DEF m1
    <3> QED BY <2>3
  <2> HIDE DEF o2
  <2>5. o3 = [g |-> open.g, w |-> open.w, f |-> f1, m |-> m, c |-> open.c]
    <3> HIDE DEF m
    <3> QED BY <2>4, <2>7
  <2> HIDE DEF o3
  <2>6. o4 = [g |-> open.g, w |-> open.w, f |-> f, m |-> m, c |-> open.c]
    <3> HIDE DEF m
    <3> QED BY <2>5, <2>7
  <2> QED BY ONLY <1>2, <2>2, <2>6
<1> HIDE DEF open, m, f, m1, f1, took
<1>7. took.g = open.g /\ took.w = open.w /\ took.f = f /\ took.m = m /\ took.c = open.c
  BY <1>6
<1>8. Ready(took) /\ ReadyBut(took, "window")
  <2>1. took.c \in Program
    BY <1>2, <1>7, PartsAsTheyAre
  <2> QED BY <1>2, <1>4, <1>5, <1>6, <1>7, <2>1, ElsewhereIsReady DEF Programs
<1>9. Ready(Waits(late, "window", "redist", "none", "WindowsSetup", 0))
  <2> DEFINE y == [took.g["window"] EXCEPT !.busy = TRUE]
  <2>1. y \in Group
    BY <1>8 DEF ReadyBut, Taken, Group, Programs
  <2>2. late = [took EXCEPT !.g["window"] = y]
    OBVIOUS
  <2> HIDE DEF y, late
  <2>3. ReadyBut(late, "window")
    BY <1>8, <2>1, <2>2, GroupIsReady DEF Programs
  <2>4. "window" \in Programs /\ "WindowsSetup" \in Kinds
    BY DEF Programs, Kinds
  <2> QED BY <2>3, <2>4, WaitsIsReady
<1>10. \/ Becomes(open) \/ Becomes(took)
       \/ Becomes(Waits(late, "window", "redist", "none", "WindowsSetup", 0))
  BY DEF StartWindow, open, took, x
<1> HIDE DEF late
<1> QED BY <1>4, <1>8, <1>9, <1>10, BecomesReady

\* The program without a window is started, with an update to make.
LEMMA StartBackgroundIsReady ==
  ASSUME UpdateInv, StartBackground
  PROVE  UpdateInv'
<1> DEFINE x == [Gone EXCEPT !.runs = TRUE, !.version = program.version]
           runs == [AsItIs EXCEPT !.g["background"] = x]
<1>1. x \in Group /\ ~x.busy
  BY PartsAsTheyAre DEF Gone, Group, Program
<1> DEFINE r == Update(runs, "background", TRUE)
<1>2. Becomes(r)
  BY DEF StartBackground
<1> HIDE DEF x
<1>3. ReadyBut(runs, "background") /\ runs.g["background"] = x
  BY <1>1, PartsAsTheyAre, GroupIsReady DEF Programs
<1> HIDE DEF runs
<1>4. Ready(r)
  BY <1>1, <1>3, UpdateIsReady DEF Programs, UpdateInv
<1> HIDE DEF r
<1> QED BY <1>2, <1>4, BecomesReady

\* The window looks for a release by itself.
LEMMA RunAutomaticallyIsReady ==
  ASSUME UpdateInv, RunAutomatically
  PROVE  UpdateInv'
<1>1. PICK ticked \in BOOLEAN :
        LET o == [AsItIs EXCEPT !.m.automatic = IF ticked THEN ~@ ELSE @]
        IN \/ Becomes(o) /\ (o.m.automatic => groups["window"].busy)
           \/ Becomes(Update(o, "window", TRUE))
           \/ Becomes(Check(o, "window", "none", program.kind))
  BY Zenon DEF RunAutomatically
<1> DEFINE m == [memory EXCEPT !.automatic = IF ticked THEN ~memory.automatic ELSE memory.automatic]
           o == [AsItIs EXCEPT !.m.automatic = IF ticked THEN ~@ ELSE @]
<1>2. m \in Memory
  BY PartsAsTheyAre DEF Memory
<1>3. o = [AsItIs EXCEPT !.m = m]
  BY PartsAsTheyAre
<1> HIDE DEF m
<1>4. o = [g |-> groups, w |-> waiting, f |-> folder, m |-> m, c |-> program]
  BY <1>3, PartsAsTheyAre
<1>5. \/ Becomes(o) \/ Becomes(Update(o, "window", TRUE))
      \/ Becomes(Check(o, "window", "none", program.kind))
  BY <1>1
<1> HIDE DEF o
<1>6. o.g = groups /\ o.w = waiting /\ o.f = folder /\ o.m = m /\ o.c = program
  BY <1>4
<1>7. Ready(o) /\ ReadyBut(o, "window")
  BY <1>2, <1>4, <1>6, PartsAsTheyAre, ElsewhereIsReady DEF Programs
<1>8. Ready(Update(o, "window", TRUE))
  BY <1>7, UpdateIsReady DEF Programs, UpdateInv
<1>9. Ready(Check(o, "window", "none", program.kind))
  <2>1. \A id : Awaited([id |-> id, by |-> "window", step |-> "resolve", then |-> "none",
                         kind |-> program.kind, version |-> release])
    BY PartsAsTheyAre DEF Awaited, Programs, Program, UpdateInv
  <2> QED BY <1>7, <2>1, WaitsKeepsReady DEF Check
<1> QED BY <1>5, <1>7, <1>8, <1>9, BecomesReady

\* The button.
LEMMA ClickUpdateIsReady ==
  ASSUME UpdateInv, ClickUpdate
  PROVE  UpdateInv'
<1>1. Ready(Update(AsItIs, "window", FALSE))
  BY PartsAsTheyAre, UpdateIsReady DEF Programs, UpdateInv
<1> QED BY <1>1, BecomesReady DEF ClickUpdate

\* The user ends one.
LEMMA EndsIsReady ==
  ASSUME UpdateInv, Ends
  PROVE  UpdateInv'
<1>1. PICK p \in Programs : Becomes(Quit(AsItIs, p))
  BY PartsAsTheyAre DEF Ends
<1>2. Ready(Quit(AsItIs, p))
  BY PartsAsTheyAre, QuitIsReady
<1> QED BY <1>1, <1>2, BecomesReady

\* What no program sees.
LEMMA TimeIsReady ==
  ASSUME UpdateInv, Releases \/ DayPasses
  PROVE  UpdateInv'
<1>1. AsItIs' = [g |-> groups, w |-> waiting, f |-> folder, m |-> memory', c |-> program]
  BY DEF Releases, DayPasses, AsItIs
<1>2. memory' \in Memory /\ release' \in Nat
  <2>1. memory \in Memory /\ release \in Nat
    BY PartsAsTheyAre DEF UpdateInv
  <2>2. CASE Releases
    BY <2>1, <2>2 DEF Releases
  <2>3. CASE DayPasses
    BY <2>1, <2>3 DEF DayPasses, Memory
  <2> QED BY <2>2, <2>3
<1> DEFINE o == [g |-> groups, w |-> waiting, f |-> folder, m |-> memory', c |-> program]
<1>3. Ready(o)
  BY <1>2, PartsAsTheyAre, ElsewhereIsReady DEF Programs
<1>4. Ready(AsItIs)'
  BY <1>1, <1>3 DEF Ready, Taken, OnItsWay
<1> QED BY <1>2, <1>4 DEF UpdateInv

\* The page of the newest release, and the API after it.
LEMMA ResolvedIsReady ==
  ASSUME UpdateInv, NEW s \in waiting, Resolved(s) \/ ApiAnswers(s)
  PROVE  UpdateInv'
<1> DEFINE o == Answered(s)
<1>1. /\ Awaited(s) /\ s.by \in Programs /\ s.version \in Nat /\ s.step \in {"resolve", "api"}
      /\ ReadyBut(o, s.by)
      /\ s.then = "none" => Ready(o)
  BY AnsweredIsReady DEF Awaited, Resolved, ApiAnswers
<1>2. \/ \E tag \in s.version .. release : Becomes(Take(o, s, tag))
      \/ s.step = "resolve" /\ Becomes(Waits(o, s.by, "api", s.then, s.kind, s.version))
      \/ Becomes(Fail(o, s.by))
  BY DEF Resolved, ApiAnswers
<1> HIDE DEF o
<1>3. CASE \E tag \in s.version .. release : Becomes(Take(o, s, tag))
  <2>1. PICK tag \in s.version .. release : Becomes(Take(o, s, tag))
    BY <1>3
  <2>2. tag \in Nat
    BY <1>1 DEF UpdateInv
  <2>3. Ready(Take(o, s, tag))
    BY <1>1, <2>2, TakeIsReady
  <2> QED BY <2>1, <2>3, BecomesReady
<1>4. CASE s.step = "resolve" /\ Becomes(Waits(o, s.by, "api", s.then, s.kind, s.version))
  <2> DEFINE r == Waits(o, s.by, "api", s.then, s.kind, s.version)
  <2>1. CASE s.then = "none"
    <3>1. \A id : Awaited([id |-> id, by |-> s.by, step |-> "api", then |-> s.then,
                           kind |-> s.kind, version |-> s.version])
      BY <1>1, <2>1 DEF Awaited, Programs
    <3>2. Ready(r)
      BY ONLY <1>1, <2>1, <3>1, WaitsKeepsReady
    <3> HIDE DEF r
    <3> QED BY <1>4, <3>2, BecomesReady DEF r
  <2>2. CASE s.then # "none"
    <3>1. s.kind \in Kinds /\ s.kind \notin NoAsset
      BY <1>1, <2>2 DEF Awaited
    <3>2. Ready(r)
      BY <1>1, <2>2, <3>1, WaitsIsReady
    <3> HIDE DEF r
    <3> QED BY <1>4, <3>2, BecomesReady DEF r
  <2> QED BY <2>1, <2>2
<1>5. CASE Becomes(Fail(o, s.by))
  <2>1. Ready(Fail(o, s.by))
    BY <1>1, FailIsReady
  <2> QED BY <1>5, <2>1, BecomesReady
<1> QED BY <1>2, <1>3, <1>4, <1>5

\* The checksum.
LEMMA ChecksumComesIsReady ==
  ASSUME UpdateInv, NEW s \in waiting, ChecksumComes(s)
  PROVE  UpdateInv'
<1> DEFINE o == Answered(s)
           r == Waits(o, s.by, "file", s.then, s.kind, s.version)
<1>1. /\ Awaited(s) /\ s.by \in Programs /\ s.version \in Nat
      /\ s.kind \in Kinds /\ s.kind \notin NoAsset /\ s.then # "none" /\ ReadyBut(o, s.by)
  BY AnsweredIsReady DEF Awaited, ChecksumComes
<1>2. Becomes(r) \/ Becomes(Fail(o, s.by))
  BY DEF ChecksumComes
<1> HIDE DEF o
<1>3. Ready(r) /\ Ready(Fail(o, s.by))
  BY <1>1, WaitsIsReady, FailIsReady
<1> HIDE DEF r
<1> QED BY <1>2, <1>3, BecomesReady

\* The file.
LEMMA DownloadedIsReady ==
  ASSUME UpdateInv, NEW s \in waiting, Downloaded(s)
  PROVE  UpdateInv'
<1> DEFINE o == Answered(s)
           came == [o EXCEPT !.f.file = s.version]
           gone == [came EXCEPT !.f.file = 0]
<1>1. /\ Awaited(s) /\ s.by \in Programs /\ s.version \in Nat /\ s.step = "file"
      /\ ReadyBut(o, s.by)
  BY AnsweredIsReady DEF Awaited, Downloaded
<1>2. \/ Becomes(Fail(o, s.by)) \/ Becomes(Fail(gone, s.by))
      \/ Becomes(NotInstalled(came, s)) \/ Becomes(Install(came, s))
  BY DEF Downloaded
<1> HIDE DEF o
<1>3. ReadyBut(came, s.by)
  BY <1>1, FileIsReady
<1> HIDE DEF came
<1>4. ReadyBut(gone, s.by)
  BY <1>1, <1>3, FileIsReady
<1> HIDE DEF gone
<1>5. Ready(Fail(o, s.by)) /\ Ready(Fail(gone, s.by))
  BY <1>1, <1>4, FailIsReady
<1>6. Ready(NotInstalled(came, s)) /\ Ready(Install(came, s))
  BY <1>1, <1>3, InstallIsReady
<1> QED BY <1>2, <1>5, <1>6, BecomesReady

\* The runtime for OCR: the button is on again.
LEMMA RedistDownloadedIsReady ==
  ASSUME UpdateInv, NEW s \in waiting, RedistDownloaded(s)
  PROVE  UpdateInv'
<1> DEFINE o == Answered(s)
           x == [o.g["window"] EXCEPT !.busy = FALSE]
           r == [o EXCEPT !.g["window"] = x]
<1>1. s.by = "window" /\ ReadyBut(o, "window")
  BY AnsweredIsReady DEF Awaited, RedistDownloaded, Programs
<1>2. Becomes(r)
  BY DEF RedistDownloaded
<1> HIDE DEF o
<1>3. x \in Group /\ ~x.busy
  BY <1>1 DEF ReadyBut, Taken, Group, Programs
<1> HIDE DEF x
<1>4. ReadyBut(r, "window") /\ r.g["window"] = x
  BY <1>1, <1>3, GroupIsReady DEF Programs
<1> HIDE DEF r
<1>5. Ready(r)
  BY <1>3, <1>4 DEF Ready, ReadyBut, OnItsWay
<1> QED BY <1>2, <1>5, BecomesReady

\* The package manager.
LEMMA PackageInstalledIsReady ==
  ASSUME UpdateInv, NEW s \in waiting, PackageInstalled(s)
  PROVE  UpdateInv'
<1> DEFINE o == Answered(s)
           put == InPlace(o, s.kind, folder.file)
<1>1. s.by \in Programs /\ s.kind \in Kinds /\ ReadyBut(o, s.by)
  BY AnsweredIsReady DEF Awaited, PackageInstalled
<1>2. Becomes(Quit(put, s.by)) \/ Becomes(Fail(o, s.by))
  BY DEF PackageInstalled
<1>3. folder.file \in Nat
  BY PartsAsTheyAre DEF Folder
<1> HIDE DEF o
<1>4. ReadyBut(put, s.by)
  BY <1>1, <1>3, InPlaceIsReady
<1> HIDE DEF put
<1>5. Ready(Quit(put, s.by)) /\ Ready(Fail(o, s.by))
  BY <1>1, <1>4, QuitIsReady, FailIsReady
<1> QED BY <1>2, <1>5, BecomesReady

\* Windows' setup and the script: both programs are gone.
LEMMA SystemInstallsIsReady ==
  ASSUME UpdateInv, NEW s \in waiting, SystemInstalls(s)
  PROVE  UpdateInv'
<1> DEFINE o == Answered(s)
           one == Quit(o, "window")
           ended == Quit(one, "background")
           version == IF s.step = "setup" THEN s.version ELSE folder.file
           put == InPlace(ended, s.kind, version)
<1>1. s.by = "system" /\ s.kind \in Kinds /\ s.version \in Nat /\ Ready(o)
  BY AnsweredIsReady DEF Awaited, SystemInstalls, Programs
<1>2. Becomes(put) \/ Becomes(ended)
  BY DEF SystemInstalls
<1>3. version \in Nat
  BY <1>1, PartsAsTheyAre DEF Folder
<1> HIDE DEF o, version
<1>4. Ready(one)
  BY <1>1, QuitIsReady DEF Ready, ReadyBut, Programs
<1> HIDE DEF one
<1>5. Ready(ended) /\ ReadyBut(ended, "background")
  BY <1>4, QuitIsReady DEF Ready, ReadyBut, Programs
<1> HIDE DEF ended
<1>6. Ready(put)
  BY <1>1, <1>3, <1>5, InPlaceIsReady DEF Programs
<1> HIDE DEF put
<1> QED BY <1>2, <1>5, <1>6, BecomesReady

\* Nothing runs at first.
LEMMA UpdateBegins ==
  ASSUME UpdateInit
  PROVE  UpdateInv
<1> DEFINE o == AsItIs
<1>1. o = [g |-> groups, w |-> waiting, f |-> folder, m |-> memory, c |-> program]
  BY DEF AsItIs
<1> HIDE DEF o
<1>2. o.g = groups /\ o.w = waiting /\ o.f = folder /\ o.m = memory /\ o.c = program
  BY <1>1
<1>3. program \in Program
  BY CopiesAssumption DEF UpdateInit, Program
<1>4. groups \in [Programs -> Group] /\ folder \in Folder /\ memory \in Memory /\ waiting = {}
  <2>1. groups \in [Programs -> Group]
    BY DEF UpdateInit, Programs, Group, Gone
  <2>2. folder \in Folder /\ waiting = {}
    BY DEF UpdateInit, Folder
  <2>3. memory \in Memory
    <3>1. memory \in [automatic : BOOLEAN, installing : {0, 1}, recent : {TRUE}, changes : {0}]
      BY DEF UpdateInit
    <3>2. PICK a \in BOOLEAN, i \in {0, 1}, r \in {TRUE}, c \in {0} :
            memory = [automatic |-> a, installing |-> i, recent |-> r, changes |-> c]
      BY <3>1, Zenon
    <3>3. i \in Nat /\ r \in BOOLEAN /\ c \in Nat
      OBVIOUS
    <3> QED BY <3>2, <3>3 DEF Memory
  <2> QED BY <2>1, <2>2, <2>3
<1>5. \A p \in Programs : ~groups[p].busy /\ ~groups[p].runs
  BY DEF UpdateInit, Programs, Gone
<1>6. Taken(o) /\ \A p \in Programs : OnItsWay(o, p)
  BY <1>1, <1>2, <1>3, <1>4, <1>5 DEF Taken, OnItsWay
<1>7. release \in Nat
  BY DEF UpdateInit
<1> QED BY <1>6, <1>7 DEF UpdateInv, Ready, o

\* Each step keeps it.
LEMMA UpdateStep ==
  ASSUME UpdateInv, [UpdateNext]_updateVars
  PROVE  UpdateInv'
<1>1. CASE StartWindow
  BY <1>1, StartWindowIsReady
<1>2. CASE StartBackground
  BY <1>2, StartBackgroundIsReady
<1>3. CASE RunAutomatically
  BY <1>3, RunAutomaticallyIsReady
<1>4. CASE ClickUpdate
  BY <1>4, ClickUpdateIsReady
<1>5. CASE Ends
  BY <1>5, EndsIsReady
<1>6. CASE Releases \/ DayPasses
  BY <1>6, TimeIsReady
<1>7. ASSUME NEW s \in waiting,
             \/ Resolved(s) \/ ApiAnswers(s) \/ ChecksumComes(s) \/ Downloaded(s)
             \/ RedistDownloaded(s) \/ PackageInstalled(s) \/ SystemInstalls(s)
      PROVE  UpdateInv'
  BY <1>7, ResolvedIsReady, ChecksumComesIsReady, DownloadedIsReady, RedistDownloadedIsReady,
     PackageInstalledIsReady, SystemInstallsIsReady
<1>8. CASE UNCHANGED updateVars
  BY <1>8 DEF updateVars, UpdateInv, Ready, Taken, OnItsWay, AsItIs
<1> QED BY <1>1, <1>2, <1>3, <1>4, <1>5, <1>6, <1>7, <1>8 DEF UpdateNext

\* Whatever an update of a copy meets: what waits for one is of the shape its callbacks expect, and
\* with the button off, or no window, one that goes on waits (UpdateGroup.cpp).
THEOREM UpdateGoesOn == UpdateSpec => []UpdateInv
BY UpdateBegins, UpdateStep, PTL DEF UpdateSpec

\* The button of the window comes back and the program without a window ends: for as long as it is off,
\* or that runs, an answer of this update is on its way.
THEOREM UpdateAnswers == UpdateSpec => []UpdateIsWaitedFor
<1>1. ASSUME UpdateInv
      PROVE  UpdateIsWaitedFor
  <2>1. \A p \in Programs : OnItsWay(AsItIs, p)
    BY <1>1 DEF UpdateInv, Ready
  <2>2. DOMAIN groups = Programs
    BY <1>1, PartsAsTheyAre
  <2> QED BY <1>1, <2>1, <2>2, PartsAsTheyAre
          DEF UpdateIsWaitedFor, OnItsWay, GoesOn, Programs
<1> QED BY <1>1, UpdateGoesOn, PTL

-----------------------------------------------------------------------------
(* The Overview page.                                                      *)

OverviewParts == {"m", "s", "d", "c", "n", "l", "e", "v", "t"}
ViewParts ==
  {"visible", "stale", "checks", "from", "checking", "fixing", "restarting", "replaced", "checkOn",
   "fixAllOn", "restartOn", "then", "administrator"}
Flags ==
  {"visible", "stale", "checking", "fixing", "restarting", "checkOn", "fixAllOn", "restartOn",
   "administrator"}
LinkParts == {"to", "calls", "answers", "pending"}
DaemonParts == {"pid", "cfg", "runtime", "hung"}
ComingParts == {"pid", "cfg", "runtime", "read"}

\* What callbacks of the Overview page take and give.
Whole(o) ==
  /\ o = [k \in OverviewParts |-> o[k]] /\ o.n \in Nat /\ o.t \in [Timers -> Nat]
  /\ o.v = [k \in ViewParts |-> o.v[k]] /\ \A k \in Flags : o.v[k] \in BOOLEAN
  /\ o.l = [k \in LinkParts |-> o.l[k]] /\ o.d = [k \in DaemonParts |-> o.d[k]]
  /\ Findable(o.m)

\* Sequences, whatever they hold.
IsSeq(s) == \E S : s \in Seq(S)

\* The calls under way: the number of a call that waits is its own, and what has that number on its
\* way is that call or its answer.
Waited == {"health", "status", "config.get", "scan.pause"}
Asks   == Waited \cup {"config.set", "translation.reload"}
Numbered(l) ==
  /\ IsSeq(l.calls) /\ IsSeq(l.answers) /\ IsFiniteSet(l.pending)
  /\ \A i \in DOMAIN l.calls : l.calls[i].id \in Nat \ {0} /\ l.calls[i].what \in Asks
  /\ \A i \in DOMAIN l.answers : l.answers[i].id \in Nat
  /\ \A p \in l.pending : p.id \in Nat \ {0} /\ p.what \in Waited
  /\ \A p, q \in l.pending : p.id = q.id => p = q
  /\ \A p \in l.pending :
       /\ \A i \in DOMAIN l.calls : l.calls[i].id = p.id => l.calls[i].what = p.what
       /\ \A i \in DOMAIN l.answers : l.answers[i].id = p.id => l.answers[i].what = p.what
  /\ l.to = 0 => l.calls = <<>> /\ l.answers = <<>> /\ l.pending = {}

\* What was begun ends, but for what is named: a callback of several steps leaves gaps between them.
But(o, gaps) ==
  /\ Whole(o) /\ Numbered(o.l)
  /\ "checking" \notin gaps /\ o.v.checking => \E p \in o.l.pending : p.what = "health"
  /\ "restarting" \notin gaps =>
       /\ o.v.restarting => o.t["restart"] > 0
       /\ ~o.v.restartOn => o.v.restarting
  /\ "fixing" \notin gaps /\ o.v.fixing =>
       \E t \in {"runtime", "redist", "models", "modelRedist"} : o.t[t] > 0
  /\ "checkOn" \notin gaps /\ ~o.v.checkOn => o.v.checking \/ o.t["runtime"] + o.t["redist"] > 0
  /\ "fixAllOn" \notin gaps /\ ~o.v.fixAllOn =>
       o.v.checking \/ o.v.fixing \/ o.v.restarting \/ o.t["recheck"] > 0
  /\ o.v.administrator => o.t["administrator"] > 0

\* The daemons: what comes is none of those that were met.
Pids(o) ==
  /\ o.d.pid \in 0 .. o.n /\ o.l.to \in 0 .. o.n /\ o.v.from \in 0 .. o.n
  /\ \A c \in o.c : c = [k \in ComingParts |-> c[k]]
  /\ \A c \in o.c : c.pid \in 1 .. o.n /\ c.pid \notin {o.d.pid, o.l.to, o.v.from}
  /\ \A c, b \in o.c : c.pid = b.pid => c = b
  /\ o.v.from = o.d.pid /\ o.d.pid # 0 => o.l.to = o.d.pid

\* The settings a report wants changed.
Needed(m, cfg) ==
  Where(cfg.paused, "resume")
    \cup Where(m.desktop # "none" /\ ~cfg.accessibility, "enable-accessibility")
    \cup Where(m.desktop # "none" /\ m.reading = "answers" /\ ~cfg.ocr, "enable-ocr")
Offered(checks) == SettingFixes \cap Automatic(checks)

\* A report of this daemon, or its call, waits.
Asked(l) ==
  \E p \in l.pending :
    /\ p.what = "health"
    /\ \/ \E i \in DOMAIN l.calls : l.calls[i].id = p.id
       \/ \E i \in DOMAIN l.answers : l.answers[i].id = p.id
ToldAfter(l, after) == \E j \in DOMAIN l.answers : j > after /\ l.answers[j].id = 0

\* What this daemon answered and what is shown of it is as the settings are, or a change is told after.
Reports(o) ==
  \A i \in DOMAIN o.l.answers :
    o.l.answers[i].id # 0 /\ o.l.answers[i].what = "health" =>
      Offered(o.l.answers[i].arg) = Needed(o.m, o.d.cfg) \/ ToldAfter(o.l, i)
Shown(o) ==
  o.v.from = o.d.pid =>
    \/ Offered(o.v.checks) = Needed(o.m, o.d.cfg)
    \/ ToldAfter(o.l, 0) \/ o.t["health"] > 0
    \/ o.v.stale /\ ~o.v.visible
    \/ Asked(o.l)
Current(o) == o.l.to # 0 /\ o.l.to = o.d.pid => Reports(o) /\ Shown(o)

\* What keeps what is shown as current as it was, and the daemons apart.
Keeps(o, r) ==
  /\ r.d = o.d /\ r.m.desktop = o.m.desktop /\ r.m.reading = o.m.reading
  /\ r.l.to = o.l.to /\ r.l.answers = o.l.answers /\ o.l.pending \subseteq r.l.pending
  /\ \A i \in DOMAIN o.l.calls : i \in DOMAIN r.l.calls /\ r.l.calls[i] = o.l.calls[i]
  /\ o.t["health"] > 0 => r.t["health"] > 0
  /\ r.v.visible = o.v.visible /\ r.v.stale = o.v.stale
  /\ r.v.from = 0 \/ (r.v.from = o.v.from /\ r.v.checks = o.v.checks)
  /\ Pids(o) => Pids(r)

\* Of two in turn.
LEMMA KeepsTwice ==
  ASSUME NEW o, NEW q, NEW r, Keeps(o, q), Keeps(q, r)
  PROVE  Keeps(o, r)
BY DEF Keeps

\* What keeps the connection and the page keeps what is shown current; so does a page that shows
\* nothing of the daemon, or waits for a report.
LEMMA KeepsCurrent ==
  ASSUME NEW o, NEW r, Keeps(o, r), o.l.to # 0, o.l.to = o.d.pid, Reports(o)
  PROVE  /\ Reports(r)
         /\ Shown(o) => Shown(r)
         /\ r.v.from = 0 \/ Asked(r.l) => Shown(r)
<1>1. /\ r.d = o.d /\ Needed(r.m, r.d.cfg) = Needed(o.m, o.d.cfg)
      /\ r.l.answers = o.l.answers /\ o.d.pid # 0
  BY DEF Keeps, Needed
<1>2. Asked(o.l) => Asked(r.l)
  BY DEF Keeps, Asked
<1>3. Reports(r)
  BY <1>1 DEF Reports, ToldAfter
<1>4. ASSUME Shown(o)
      PROVE  Shown(r)
  <2>1. r.v.from = r.d.pid => r.v.from = o.v.from /\ r.v.checks = o.v.checks
    BY <1>1 DEF Keeps
  <2>2. ToldAfter(o.l, 0) => ToldAfter(r.l, 0)
    BY <1>1 DEF ToldAfter
  <2> QED BY <1>1, <1>2, <1>4, <2>1, <2>2 DEF Shown, Keeps
<1>5. ASSUME r.v.from = 0 \/ Asked(r.l)
      PROVE  Shown(r)
  BY <1>1, <1>5 DEF Shown
<1> QED BY <1>3, <1>4, <1>5

OverviewInv == But(AsOverview, {}) /\ Pids(AsOverview) /\ Current(AsOverview)

\* One more at the end of a sequence.
LEMMA SeqGrows ==
  ASSUME NEW s, IsSeq(s), NEW e
  PROVE  /\ IsSeq(Append(s, e)) /\ Len(s) \in Nat /\ DOMAIN s = 1 .. Len(s)
         /\ Len(Append(s, e)) = Len(s) + 1 /\ DOMAIN Append(s, e) = 1 .. Len(s) + 1
         /\ \A i \in DOMAIN s : Append(s, e)[i] = s[i]
         /\ Append(s, e)[Len(s) + 1] = e
<1>1. PICK S : s \in Seq(S)
  BY DEF IsSeq
<1>2. s \in Seq(S \cup {e}) /\ e \in S \cup {e}
  BY <1>1
<1> QED BY <1>2 DEF IsSeq

\* One less at its beginning.
LEMMA SeqShrinks ==
  ASSUME NEW s, IsSeq(s), s # <<>>
  PROVE  /\ IsSeq(Tail(s)) /\ Len(s) \in Nat \ {0} /\ DOMAIN s = 1 .. Len(s) /\ Head(s) = s[1]
         /\ DOMAIN Tail(s) = 1 .. Len(s) - 1
         /\ \A i \in 1 .. Len(s) - 1 : Tail(s)[i] = s[i + 1]
<1>1. PICK S : s \in Seq(S)
  BY DEF IsSeq
<1> QED BY <1>1 DEF IsSeq

\* A number that is not used.
LEMMA FreeNumber ==
  ASSUME NEW used, IsFiniteSet(used)
  PROVE  (CHOOSE n \in 1 .. Cardinality(used) + 1 : n \notin used)
           \in (1 .. Cardinality(used) + 1) \ used
<1>1. Cardinality(used) \in Nat
  BY FS_CardinalityType
<1>2. SUFFICES ASSUME 1 .. Cardinality(used) + 1 \subseteq used
               PROVE  FALSE
  OBVIOUS
<1>3. Cardinality(1 .. Cardinality(used) + 1) = Cardinality(used) + 1
  BY <1>1, FS_Interval
<1>4. Cardinality(1 .. Cardinality(used) + 1) <= Cardinality(used)
  BY <1>2, FS_Subset
<1> QED BY <1>1, <1>3, <1>4

\* The numbers of messages are finitely many.
LEMMA FiniteNumbers ==
  ASSUME NEW s, IsSeq(s)
  PROVE  IsFiniteSet(Numbers(s))
<1> DEFINE f == [i \in DOMAIN s |-> s[i].id]
<1>1. IsFiniteSet(DOMAIN s)
  BY SeqGrows, FS_Interval
<1>2. f \in Surjection(DOMAIN s, Numbers(s))
  BY DEF Surjection, Numbers
<1> QED BY <1>1, <1>2, FS_Surjection

\* So are the numbers of the calls that wait.
LEMMA FiniteIds ==
  ASSUME NEW pending, IsFiniteSet(pending)
  PROVE  IsFiniteSet({p.id : p \in pending})
<1> DEFINE f == [p \in pending |-> p.id]
<1>1. f \in Surjection(pending, {p.id : p \in pending})
  BY DEF Surjection
<1> QED BY <1>1, FS_Surjection

\* A call that is made has a number of its own.
LEMMA AskedIsWhole ==
  ASSUME NEW o, Whole(o), Numbered(o.l), NEW what \in Asks, NEW arg, NEW waits \in BOOLEAN,
         waits => what \in Waited
  PROVE  LET r == Ask(o, what, arg, waits)
         IN /\ Whole(r) /\ Numbered(r.l) /\ Keeps(o, r)
            /\ \A j \in OverviewParts \ {"l"} : r[j] = o[j]
            /\ waits /\ o.l.to # 0 => \E p \in r.l.pending : p.what = what
            /\ waits /\ o.l.to # 0 /\ what = "health" => Asked(r.l)
<1> DEFINE used == Numbers(o.l.calls) \cup Numbers(o.l.answers) \cup {p.id : p \in o.l.pending}
           id   == CHOOSE n \in 1 .. Cardinality(used) + 1 : n \notin used
           call == [id |-> id, what |-> what, arg |-> arg]
           mine == [id |-> id, what |-> what]
           r    == Ask(o, what, arg, waits)
<1>1. IsFiniteSet(used) /\ Cardinality(used) \in Nat
  <2>1. IsFiniteSet(Numbers(o.l.calls)) /\ IsFiniteSet(Numbers(o.l.answers))
    BY FiniteNumbers DEF Numbered
  <2>2. IsFiniteSet({p.id : p \in o.l.pending})
    BY FiniteIds DEF Numbered
  <2> QED BY <2>1, <2>2, FS_Union, FS_CardinalityType
<1>2. id \in Nat \ {0} /\ id \notin used
  <2> HIDE DEF used
  <2> QED BY <1>1, FreeNumber
<1>3. CASE o.l.to = 0
  <2>1. r = o
    BY <1>3 DEF Ask, Linked
  <2> QED BY <1>3, <2>1 DEF Keeps
<1>4. CASE o.l.to # 0
  <2> DEFINE calls == Append(o.l.calls, call)
             pending == IF waits THEN o.l.pending \cup {mine} ELSE o.l.pending
  <2>1. r = [o EXCEPT !.l.calls = calls, !.l.pending = pending]
    BY <1>4 DEF Ask, Linked
  <2> HIDE DEF id
  <2>2. /\ r = [k \in OverviewParts |-> r[k]] /\ r.l = [k \in LinkParts |-> r.l[k]]
        /\ \A j \in OverviewParts \ {"l"} : r[j] = o[j]
        /\ r.l.calls = Append(o.l.calls, call) /\ r.l.answers = o.l.answers /\ r.l.to = o.l.to
        /\ r.l.pending = IF waits THEN o.l.pending \cup {mine} ELSE o.l.pending
    <3> DEFINE half == [o EXCEPT !.l.calls = calls]
               full == [half EXCEPT !.l.pending = pending]
    <3>1. r = full
      BY <2>1
    <3> HIDE DEF r, calls, pending
    <3>2. /\ half = [k \in OverviewParts |-> half[k]] /\ half.l = [k \in LinkParts |-> half.l[k]]
          /\ \A j \in OverviewParts \ {"l"} : half[j] = o[j]
          /\ half.l.calls = calls /\ half.l.answers = o.l.answers /\ half.l.to = o.l.to
      BY DEF Whole, OverviewParts, LinkParts
    <3> HIDE DEF half
    <3>3. /\ full = [k \in OverviewParts |-> full[k]] /\ full.l = [k \in LinkParts |-> full.l[k]]
          /\ \A j \in OverviewParts \ {"l"} : full[j] = o[j]
          /\ full.l.calls = calls /\ full.l.answers = o.l.answers /\ full.l.to = o.l.to
          /\ full.l.pending = pending
      BY <3>2 DEF OverviewParts, LinkParts
    <3> HIDE DEF full
    <3> QED BY <3>1, <3>3 DEF calls, pending
  <2> HIDE DEF r
  <2>3. Whole(r)
    BY <2>2 DEF Whole, OverviewParts
  <2>4. /\ \A i \in DOMAIN o.l.calls : o.l.calls[i].id # id
        /\ \A i \in DOMAIN o.l.answers : o.l.answers[i].id # id
        /\ \A p \in o.l.pending : p.id # id
    <3>1. id \notin Numbers(o.l.calls) /\ id \notin Numbers(o.l.answers)
          /\ id \notin {p.id : p \in o.l.pending}
      BY <1>2
    <3> QED BY ONLY <3>1, Zenon DEF Numbers
  <2>5. /\ IsSeq(r.l.calls) /\ Len(o.l.calls) \in Nat /\ DOMAIN o.l.calls = 1 .. Len(o.l.calls)
        /\ DOMAIN r.l.calls = 1 .. Len(o.l.calls) + 1
        /\ \A i \in DOMAIN o.l.calls : r.l.calls[i] = o.l.calls[i]
        /\ r.l.calls[Len(o.l.calls) + 1] = call
    <3>1. IsSeq(o.l.calls)
      BY DEF Numbered
    <3>2. r.l.calls = Append(o.l.calls, call)
      BY <2>2
    <3> HIDE DEF call
    <3> QED BY ONLY <3>1, <3>2, SeqGrows
  <2>6. call.id = id /\ call.what = what /\ mine.id = id /\ mine.what = what
    OBVIOUS
  <2>7. \A i \in DOMAIN r.l.calls :
          \/ i \in DOMAIN o.l.calls /\ r.l.calls[i] = o.l.calls[i]
          \/ r.l.calls[i] = call
    BY <2>5
  <2>8. \A p \in r.l.pending : p \in o.l.pending \/ (waits /\ p = mine)
    BY <2>2
  <2>9. IsFiniteSet(r.l.pending)
    <3>1. IsFiniteSet(o.l.pending)
      BY DEF Numbered
    <3>2. IsFiniteSet(o.l.pending \cup {mine})
      BY ONLY <3>1, FS_AddElement
    <3> QED BY <2>2, <3>1, <3>2
  <2> HIDE DEF call, mine
  <2>10. Numbered(r.l)
    <3>1. /\ \A i \in DOMAIN r.l.calls :
               r.l.calls[i].id \in Nat \ {0} /\ r.l.calls[i].what \in Asks
          /\ \A i \in DOMAIN r.l.answers : r.l.answers[i].id \in Nat
          /\ \A p \in r.l.pending : p.id \in Nat \ {0} /\ p.what \in Waited
      BY <1>2, <2>2, <2>6, <2>7, <2>8 DEF Numbered
    <3>2. \A p, q \in r.l.pending : p.id = q.id => p = q
      BY <2>4, <2>6, <2>8 DEF Numbered
    <3>3. \A p \in r.l.pending :
             \A i \in DOMAIN r.l.calls : r.l.calls[i].id = p.id => r.l.calls[i].what = p.what
      BY <2>4, <2>6, <2>7, <2>8 DEF Numbered
    <3>4. \A p \in r.l.pending :
             \A i \in DOMAIN r.l.answers : r.l.answers[i].id = p.id => r.l.answers[i].what = p.what
      BY <2>2, <2>4, <2>6, <2>8 DEF Numbered
    <3>5. IsSeq(r.l.answers) /\ r.l.to # 0
      BY <1>4, <2>2 DEF Numbered
    <3> QED BY <2>5, <2>9, <3>1, <3>2, <3>3, <3>4, <3>5 DEF Numbered
  <2>11. Keeps(o, r)
    <3>1. r.v = o.v /\ r.d = o.d /\ r.m = o.m /\ r.t = o.t /\ r.n = o.n /\ r.c = o.c
      BY <2>2 DEF OverviewParts
    <3>2. Pids(o) => Pids(r)
      BY <2>2, <3>1 DEF Pids
    <3>3. o.l.pending \subseteq r.l.pending
      BY <2>2
    <3>4. \A i \in DOMAIN o.l.calls : i \in DOMAIN r.l.calls /\ r.l.calls[i] = o.l.calls[i]
      BY <2>5
    <3> QED BY ONLY <2>2, <3>1, <3>2, <3>3, <3>4 DEF Keeps
  <2>12. waits => mine \in r.l.pending
    BY <2>2
  <2>13. waits /\ what = "health" => Asked(r.l)
    BY <2>5, <2>6, <2>12 DEF Asked
  <2> QED BY <2>2, <2>3, <2>6, <2>10, <2>11, <2>12, <2>13 DEF r
<1> QED BY <1>3, <1>4

\* Timers.
LEMMA AfterIsWhole ==
  ASSUME NEW o, Whole(o), NEW timer \in Timers
  PROVE  LET r == After(o, timer)
         IN /\ Whole(r) /\ \A j \in OverviewParts \ {"t"} : r[j] = o[j]
            /\ r.t[timer] > 0 /\ \A t \in Timers : t # timer => r.t[t] = o.t[t]
            /\ Keeps(o, r)
<1> DEFINE r == After(o, timer)
<1>1. /\ r = [k \in OverviewParts |-> r[k]] /\ r.t = [o.t EXCEPT ![timer] = o.t[timer] + 1]
      /\ \A j \in OverviewParts \ {"t"} : r[j] = o[j]
  BY DEF Whole, OverviewParts, After
<1>2. o.t[timer] + 1 \in Nat /\ o.t[timer] + 1 > 0 /\ o.t \in [Timers -> Nat]
  BY DEF Whole
<1> HIDE DEF r
<1>3. /\ r.t \in [Timers -> Nat] /\ r.t[timer] > 0
      /\ \A t \in Timers : t # timer => r.t[t] = o.t[t]
  BY <1>1, <1>2
<1>4. r.v = o.v /\ r.d = o.d /\ r.m = o.m /\ r.l = o.l /\ r.n = o.n /\ r.c = o.c
  BY <1>1 DEF OverviewParts
<1>5. Whole(r)
  BY <1>1, <1>3, <1>4 DEF Whole
<1>6. Keeps(o, r)
  BY <1>3, <1>4 DEF Keeps, Pids, Timers
<1> QED BY <1>1, <1>3, <1>5, <1>6 DEF r

\* And one that starts over.
LEMMA RestartedIsWhole ==
  ASSUME NEW o, Whole(o), NEW timer \in Timers
  PROVE  LET r == Restarted(o, timer)
         IN /\ Whole(r) /\ \A j \in OverviewParts \ {"t"} : r[j] = o[j]
            /\ r.t[timer] > 0 /\ \A t \in Timers : t # timer => r.t[t] = o.t[t]
            /\ Keeps(o, r)
<1> DEFINE r == Restarted(o, timer)
<1>1. /\ r = [k \in OverviewParts |-> r[k]] /\ r.t = [o.t EXCEPT ![timer] = 1]
      /\ \A j \in OverviewParts \ {"t"} : r[j] = o[j]
  BY DEF Whole, OverviewParts, Restarted
<1>2. o.t \in [Timers -> Nat]
  BY DEF Whole
<1> HIDE DEF r
<1>3. /\ r.t \in [Timers -> Nat] /\ r.t[timer] > 0
      /\ \A t \in Timers : t # timer => r.t[t] = o.t[t]
  BY <1>1, <1>2
<1>4. r.v = o.v /\ r.d = o.d /\ r.m = o.m /\ r.l = o.l /\ r.n = o.n /\ r.c = o.c
  BY <1>1 DEF OverviewParts
<1>5. Whole(r)
  BY <1>1, <1>3, <1>4 DEF Whole
<1>6. Keeps(o, r)
  BY <1>3, <1>4 DEF Keeps, Pids, Timers
<1> QED BY <1>1, <1>3, <1>5, <1>6 DEF r

\* Of what is shown only the buttons changed.
LEMMA ViewKeeps ==
  ASSUME NEW o, NEW r, \A j \in OverviewParts \ {"v"} : r[j] = o[j],
         \A j \in {"visible", "stale", "from", "checks"} : r.v[j] = o.v[j]
  PROVE  Keeps(o, r)
<1>1. r.t = o.t /\ r.d = o.d /\ r.m = o.m /\ r.l = o.l /\ r.n = o.n /\ r.c = o.c
  BY DEF OverviewParts
<1>2. r.v.visible = o.v.visible /\ r.v.stale = o.v.stale /\ r.v.from = o.v.from
      /\ r.v.checks = o.v.checks
  OBVIOUS
<1> QED BY ONLY <1>1, <1>2 DEF Keeps, Pids

\* A fix begins: its button goes off.
LEMMA FixingIsWhole ==
  ASSUME NEW o, Whole(o)
  PROVE  LET r == Fixing(o)
         IN /\ Whole(r) /\ \A j \in OverviewParts \ {"v"} : r[j] = o[j]
            /\ r.v.fixing /\ ~r.v.fixAllOn
            /\ \A j \in ViewParts \ {"fixing", "fixAllOn"} : r.v[j] = o.v[j]
<1> DEFINE q1 == [o EXCEPT !.v.fixing = TRUE]
           r == [q1 EXCEPT !.v.fixAllOn = FALSE]
<1>0. Fixing(o) = r
  BY DEF Fixing
<1>1. /\ Whole(q1) /\ \A j \in OverviewParts \ {"v"} : q1[j] = o[j]
      /\ q1.v.fixing
      /\ \A j \in ViewParts \ {"fixing"} : q1.v[j] = o.v[j]
  BY DEF Whole, OverviewParts, ViewParts, LinkParts, DaemonParts, Flags
<1> HIDE DEF q1
<1>2. /\ Whole(r) /\ \A j \in OverviewParts \ {"v"} : r[j] = o[j]
      /\ r.v.fixing /\ ~r.v.fixAllOn
      /\ \A j \in ViewParts \ {"fixing", "fixAllOn"} : r.v[j] = o.v[j]
  BY <1>1 DEF Whole, OverviewParts, ViewParts, LinkParts, DaemonParts, Flags
<1> HIDE DEF r
<1> QED BY <1>0, <1>2

\* A fix ends: its button stays as it was.
LEMMA FixedIsWhole ==
  ASSUME NEW o, Whole(o)
  PROVE  LET r == Fixed(o)
         IN /\ Whole(r) /\ \A j \in OverviewParts \ {"v"} : r[j] = o[j]
            /\ ~r.v.fixing /\ \A j \in ViewParts \ {"fixing"} : r.v[j] = o.v[j]
BY DEF Whole, OverviewParts, ViewParts, LinkParts, DaemonParts, Flags, Fixed

\* A check begins.
LEMMA CheckingIsWhole ==
  ASSUME NEW o, Whole(o)
  PROVE  LET r == [o EXCEPT !.v.checking = TRUE, !.v.checkOn = FALSE]
         IN /\ Whole(r) /\ \A j \in OverviewParts \ {"v"} : r[j] = o[j]
            /\ r.v.checking /\ ~r.v.checkOn
            /\ \A j \in ViewParts \ {"checking", "checkOn"} : r.v[j] = o.v[j]
<1> DEFINE q1 == [o EXCEPT !.v.checking = TRUE]
           r == [q1 EXCEPT !.v.checkOn = FALSE]
<1>0. [o EXCEPT !.v.checking = TRUE, !.v.checkOn = FALSE] = r
  OBVIOUS
<1>1. /\ Whole(q1) /\ \A j \in OverviewParts \ {"v"} : q1[j] = o[j]
      /\ q1.v.checking
      /\ \A j \in ViewParts \ {"checking"} : q1.v[j] = o.v[j]
  BY DEF Whole, OverviewParts, ViewParts, LinkParts, DaemonParts, Flags
<1> HIDE DEF q1
<1>2. /\ Whole(r) /\ \A j \in OverviewParts \ {"v"} : r[j] = o[j]
      /\ r.v.checking /\ ~r.v.checkOn
      /\ \A j \in ViewParts \ {"checking", "checkOn"} : r.v[j] = o.v[j]
  BY <1>1 DEF Whole, OverviewParts, ViewParts, LinkParts, DaemonParts, Flags
<1> HIDE DEF r
<1> QED BY <1>0, <1>2

\* And ends.
LEMMA CheckedIsWhole ==
  ASSUME NEW o, Whole(o)
  PROVE  LET r == Checked(o)
         IN /\ Whole(r) /\ \A j \in OverviewParts \ {"v"} : r[j] = o[j]
            /\ ~r.v.checking /\ r.v.checkOn
            /\ \A j \in ViewParts \ {"checking", "checkOn"} : r.v[j] = o.v[j]
<1> DEFINE q1 == [o EXCEPT !.v.checking = FALSE]
           r == [q1 EXCEPT !.v.checkOn = TRUE]
<1>0. Checked(o) = r
  BY DEF Checked
<1>1. /\ Whole(q1) /\ \A j \in OverviewParts \ {"v"} : q1[j] = o[j]
      /\ ~q1.v.checking
      /\ \A j \in ViewParts \ {"checking"} : q1.v[j] = o.v[j]
  BY DEF Whole, OverviewParts, ViewParts, LinkParts, DaemonParts, Flags
<1> HIDE DEF q1
<1>2. /\ Whole(r) /\ \A j \in OverviewParts \ {"v"} : r[j] = o[j]
      /\ ~r.v.checking /\ r.v.checkOn
      /\ \A j \in ViewParts \ {"checking", "checkOn"} : r.v[j] = o.v[j]
  BY <1>1 DEF Whole, OverviewParts, ViewParts, LinkParts, DaemonParts, Flags
<1> HIDE DEF r
<1> QED BY <1>0, <1>2

\* A report is shown, whoever made it.
LEMMA ShowChecksIsWhole ==
  ASSUME NEW o, Whole(o), NEW checks, NEW from
  PROVE  LET r == ShowChecks(o, checks, from)
         IN /\ Whole(r) /\ \A j \in OverviewParts \ {"v"} : r[j] = o[j]
            /\ r.v.checks = checks /\ r.v.from = from /\ r.v.fixAllOn = ~o.v.fixing
            /\ \A j \in ViewParts \ {"checks", "from", "fixAllOn"} : r.v[j] = o.v[j]
<1> DEFINE q1 == [o EXCEPT !.v.checks = checks]
           q2 == [q1 EXCEPT !.v.from = from]
           r == [q2 EXCEPT !.v.fixAllOn = ~o.v.fixing]
<1>0. ShowChecks(o, checks, from) = r
  BY DEF ShowChecks
<1>1. /\ Whole(q1) /\ \A j \in OverviewParts \ {"v"} : q1[j] = o[j]
      /\ q1.v.checks = checks
      /\ \A j \in ViewParts \ {"checks"} : q1.v[j] = o.v[j]
  BY DEF Whole, OverviewParts, ViewParts, LinkParts, DaemonParts, Flags
<1> HIDE DEF q1
<1>2. /\ Whole(q2) /\ \A j \in OverviewParts \ {"v"} : q2[j] = o[j]
      /\ q2.v.checks = checks /\ q2.v.from = from
      /\ \A j \in ViewParts \ {"checks", "from"} : q2.v[j] = o.v[j]
  BY <1>1 DEF Whole, OverviewParts, ViewParts, LinkParts, DaemonParts, Flags
<1> HIDE DEF q2
<1>3. /\ Whole(r) /\ \A j \in OverviewParts \ {"v"} : r[j] = o[j]
      /\ r.v.checks = checks /\ r.v.from = from /\ r.v.fixAllOn = ~o.v.fixing
      /\ \A j \in ViewParts \ {"checks", "from", "fixAllOn"} : r.v[j] = o.v[j]
  BY <1>2 DEF Whole, OverviewParts, ViewParts, LinkParts, DaemonParts, Flags
<1> HIDE DEF r
<1> QED BY <1>0, <1>3

\* A restart that begins.
RestartBegun(o, pid) == [o EXCEPT !.v.restarting = TRUE, !.v.replaced = pid, !.v.restartOn = FALSE]

\* Its button is off.
LEMMA RestartingIsWhole ==
  ASSUME NEW o, Whole(o), NEW pid
  PROVE  LET r == RestartBegun(o, pid)
         IN /\ Whole(r) /\ \A j \in OverviewParts \ {"v"} : r[j] = o[j]
            /\ r.v.restarting /\ r.v.replaced = pid /\ ~r.v.restartOn
            /\ \A j \in ViewParts \ {"restarting", "replaced", "restartOn"} : r.v[j] = o.v[j]
<1> DEFINE q1 == [o EXCEPT !.v.restarting = TRUE]
           q2 == [q1 EXCEPT !.v.replaced = pid]
           r == [q2 EXCEPT !.v.restartOn = FALSE]
<1>0. RestartBegun(o, pid) = r
  BY DEF RestartBegun
<1>1. /\ Whole(q1) /\ \A j \in OverviewParts \ {"v"} : q1[j] = o[j]
      /\ q1.v.restarting
      /\ \A j \in ViewParts \ {"restarting"} : q1.v[j] = o.v[j]
  BY DEF Whole, OverviewParts, ViewParts, LinkParts, DaemonParts, Flags
<1> HIDE DEF q1
<1>2. /\ Whole(q2) /\ \A j \in OverviewParts \ {"v"} : q2[j] = o[j]
      /\ q2.v.restarting /\ q2.v.replaced = pid
      /\ \A j \in ViewParts \ {"restarting", "replaced"} : q2.v[j] = o.v[j]
  BY <1>1 DEF Whole, OverviewParts, ViewParts, LinkParts, DaemonParts, Flags
<1> HIDE DEF q2
<1>3. /\ Whole(r) /\ \A j \in OverviewParts \ {"v"} : r[j] = o[j]
      /\ r.v.restarting /\ r.v.replaced = pid /\ ~r.v.restartOn
      /\ \A j \in ViewParts \ {"restarting", "replaced", "restartOn"} : r.v[j] = o.v[j]
  BY <1>2 DEF Whole, OverviewParts, ViewParts, LinkParts, DaemonParts, Flags
<1> HIDE DEF r
<1> QED BY <1>0, <1>3

\* What is shown without a daemon.
LEMMA ShowLocalIsWhole ==
  ASSUME NEW o, Whole(o), NEW checks
  PROVE  LET r == ShowChecks(o, checks, 0)
         IN /\ Whole(r) /\ Keeps(o, r) /\ \A j \in OverviewParts \ {"v"} : r[j] = o[j]
            /\ r.v.from = 0 /\ r.v.fixAllOn = ~o.v.fixing
            /\ \A j \in ViewParts \ {"checks", "from", "fixAllOn"} : r.v[j] = o.v[j]
<1> DEFINE r == ShowChecks(o, checks, 0)
<1>1. /\ Whole(r) /\ \A j \in OverviewParts \ {"v"} : r[j] = o[j]
      /\ r.v.checks = checks /\ r.v.from = 0 /\ r.v.fixAllOn = ~o.v.fixing
      /\ \A j \in ViewParts \ {"checks", "from", "fixAllOn"} : r.v[j] = o.v[j]
  BY ShowChecksIsWhole
<1> HIDE DEF r
<1>2. r.t = o.t /\ r.d = o.d /\ r.m = o.m /\ r.l = o.l /\ r.n = o.n /\ r.c = o.c
  BY <1>1 DEF OverviewParts
<1>3. r.v.visible = o.v.visible /\ r.v.stale = o.v.stale
  BY <1>1 DEF ViewParts
<1>4. o.n \in Nat
  BY DEF Whole
<1>5. Pids(o) => Pids(r)
  BY <1>1, <1>2, <1>4 DEF Pids
<1>6. Keeps(o, r)
  BY ONLY <1>1, <1>2, <1>3, <1>5 DEF Keeps
<1> QED BY <1>1, <1>6 DEF r

\* A daemon that is started is none of those that were met.
LEMMA StartDaemonIsWhole ==
  ASSUME NEW o, Whole(o)
  PROVE  LET r == StartDaemon(o)
         IN Whole(r) /\ Keeps(o, r) /\ \A j \in OverviewParts \ {"n", "c"} : r[j] = o[j]
<1> DEFINE r == StartDaemon(o)
           c == [pid |-> o.n + 1, cfg |-> NoDaemon.cfg, runtime |-> o.m.runtime, read |-> FALSE]
<1>1. c.pid = o.n + 1 /\ c = [k \in ComingParts |-> c[k]]
  BY DEF ComingParts
<1> HIDE DEF c
<1>2. /\ r = [k \in OverviewParts |-> r[k]] /\ r.n = o.n + 1 /\ r.c = o.c \cup {c}
      /\ \A j \in OverviewParts \ {"n", "c"} : r[j] = o[j]
  <2> DEFINE q == [o EXCEPT !.n = o.n + 1]
             w == [q EXCEPT !.c = o.c \cup {c}]
  <2>1. r = w
    BY DEF StartDaemon, c
  <2>2. /\ q = [k \in OverviewParts |-> q[k]] /\ q.n = o.n + 1
        /\ \A j \in OverviewParts \ {"n"} : q[j] = o[j]
    BY DEF Whole, OverviewParts
  <2> HIDE DEF q
  <2>3. /\ w = [k \in OverviewParts |-> w[k]] /\ w.n = o.n + 1 /\ w.c = o.c \cup {c}
        /\ \A j \in OverviewParts \ {"n", "c"} : w[j] = o[j]
    BY <2>2 DEF OverviewParts
  <2> HIDE DEF w
  <2> QED BY <2>1, <2>3
<1> HIDE DEF r
<1>3. r.t = o.t /\ r.d = o.d /\ r.m = o.m /\ r.l = o.l /\ r.v = o.v
  BY <1>2 DEF OverviewParts
<1>4. o.n \in Nat
  BY DEF Whole
<1>5. Whole(r)
  <2>1. r.n \in Nat
    BY ONLY <1>2, <1>4
  <2> QED BY ONLY <1>2, <1>3, <2>1, Whole(o) DEF Whole
<1>6. ASSUME Pids(o)
      PROVE  Pids(r)
  <2>1. r.c = o.c \cup {c} /\ r.n = o.n + 1
    BY ONLY <1>2
  <2> QED BY ONLY <1>1, <1>3, <1>4, <1>6, <2>1 DEF Pids
<1>7. Keeps(o, r)
  BY ONLY <1>3, <1>6 DEF Keeps
<1> QED BY <1>2, <1>5, <1>7 DEF r

\* The settings: only their timer.
LEMMA SettingsAreWhole ==
  ASSUME NEW o, Whole(o), NEW e
  PROVE  LET r == [o EXCEPT !.e = e]
         IN Whole(r) /\ Keeps(o, r) /\ \A j \in OverviewParts \ {"e"} : r[j] = o[j]
<1> DEFINE r == [o EXCEPT !.e = e]
<1>1. /\ Whole(r) /\ \A j \in OverviewParts \ {"e"} : r[j] = o[j]
  BY DEF Whole, OverviewParts
<1> HIDE DEF r
<1>2. r.t = o.t /\ r.d = o.d /\ r.m = o.m /\ r.l = o.l /\ r.v = o.v /\ r.n = o.n /\ r.c = o.c
  BY <1>1 DEF OverviewParts
<1>3. Keeps(o, r)
  BY ONLY <1>2 DEF Keeps, Pids
<1> QED BY <1>1, <1>3 DEF r

\* What only the settings' timer tells from o.
OnlySettings(o, r) ==
  /\ Whole(r) /\ Keeps(o, r) /\ \A j \in OverviewParts \ {"e", "t"} : r[j] = o[j]
  /\ \A t \in Timers : t # "push" => r.t[t] = o.t[t]

\* Settings that change, and are pushed a moment later.
LEMMA PushesLater ==
  ASSUME NEW o, Whole(o), NEW e
  PROVE  OnlySettings(o, [o EXCEPT !.e = e]) /\ OnlySettings(o, Restarted([o EXCEPT !.e = e], "push"))
<1> DEFINE q == [o EXCEPT !.e = e]
           r == Restarted(q, "push")
<1>1. Whole(q) /\ Keeps(o, q) /\ \A j \in OverviewParts \ {"e"} : q[j] = o[j]
  BY SettingsAreWhole
<1> HIDE DEF q
<1>2. /\ Whole(r) /\ Keeps(q, r) /\ \A j \in OverviewParts \ {"t"} : r[j] = q[j]
      /\ \A t \in Timers : t # "push" => r.t[t] = q.t[t]
  BY <1>1, RestartedIsWhole DEF Timers
<1> HIDE DEF r
<1>3. Keeps(o, r)
  BY ONLY <1>1, <1>2, KeepsTwice
<1>4. q.t = o.t
  BY <1>1 DEF OverviewParts
<1> QED BY <1>1, <1>2, <1>3, <1>4 DEF OnlySettings, q, r

\* Of two such changes in turn.
LEMMA OnlySettingsTwice ==
  ASSUME NEW o, NEW q, NEW r, OnlySettings(o, q), OnlySettings(q, r)
  PROVE  OnlySettings(o, r)
<1>1. Keeps(o, r)
  BY KeepsTwice DEF OnlySettings
<1> QED BY <1>1 DEF OnlySettings

\* Settings that a fix turns on.
LEMMA EnableSettingsIsWhole ==
  ASSUME NEW o, Whole(o), NEW fixes
  PROVE  OnlySettings(o, EnableSettings(o, fixes))
<1> DEFINE e1 == [o.e EXCEPT !.cfg.ocr = o.e.cfg.ocr \/ "enable-ocr" \in fixes]
           q  == [o EXCEPT !.e = e1]
           e2 == [q.e EXCEPT !.cfg.accessibility =
                                o.e.cfg.accessibility \/ "enable-accessibility" \in fixes]
           r  == [q EXCEPT !.e = e2]
           e3 == [r.e EXCEPT !.pending = TRUE]
<1>1. EnableSettings(o, fixes) \in {o, [r EXCEPT !.e = e3], Restarted([r EXCEPT !.e = e3], "push")}
  BY DEF EnableSettings, CommitSettings
<1>2. OnlySettings(o, q)
  <2> HIDE DEF e1
  <2> QED BY PushesLater
<1> HIDE DEF q
<1>3. OnlySettings(q, r)
  <2> HIDE DEF e2
  <2> QED BY <1>2, PushesLater DEF OnlySettings
<1> HIDE DEF r
<1>4. OnlySettings(r, [r EXCEPT !.e = e3]) /\ OnlySettings(r, Restarted([r EXCEPT !.e = e3], "push"))
  <2> HIDE DEF e3
  <2> QED BY <1>3, PushesLater DEF OnlySettings
<1>5. OnlySettings(o, o)
  BY DEF OnlySettings, Keeps
<1>6. OnlySettings(o, r)
  BY ONLY <1>2, <1>3, OnlySettingsTwice
<1> HIDE DEF e3
<1>7. OnlySettings(o, [r EXCEPT !.e = e3]) /\ OnlySettings(o, Restarted([r EXCEPT !.e = e3], "push"))
  BY ONLY <1>4, <1>6, OnlySettingsTwice
<1> QED BY ONLY <1>1, <1>5, <1>7

\* Settings that were read.
LEMMA SettingsLoadedIsWhole ==
  ASSUME NEW o, Whole(o), NEW cfg
  PROVE  OnlySettings(o, SettingsLoaded(o, cfg))
<1> DEFINE e1 == [o.e EXCEPT !.loaded = TRUE]
           q  == [o EXCEPT !.e = e1]
           e2 == [q.e EXCEPT !.cfg = IF o.e.pending THEN o.e.cfg ELSE cfg]
<1>1. SettingsLoaded(o, cfg) \in {[q EXCEPT !.e = e2], Restarted([q EXCEPT !.e = e2], "push")}
  BY DEF SettingsLoaded
<1>2. OnlySettings(o, q)
  <2> HIDE DEF e1
  <2> QED BY PushesLater
<1> HIDE DEF q
<1>3. OnlySettings(q, [q EXCEPT !.e = e2]) /\ OnlySettings(q, Restarted([q EXCEPT !.e = e2], "push"))
  <2> HIDE DEF e2
  <2> QED BY <1>2, PushesLater DEF OnlySettings
<1> HIDE DEF e2
<1>4. OnlySettings(o, [q EXCEPT !.e = e2]) /\ OnlySettings(o, Restarted([q EXCEPT !.e = e2], "push"))
  BY ONLY <1>2, <1>3, OnlySettingsTwice
<1> QED BY ONLY <1>1, <1>4

-----------------------------------------------------------------------------
(* What a callback of the page is made of, step after step.                *)

\* Fewer gaps are better.
LEMMA GapsGrow ==
  ASSUME NEW o, NEW few, NEW many, few \subseteq many, But(o, few)
  PROVE  But(o, many)
BY DEF But

\* Another timer ends what those that were waiting end; what a check will turn on is turned on.
LEMMA AfterGoesOn ==
  ASSUME NEW o, NEW gaps, But(o, gaps), NEW timer \in Timers
  PROVE  LET r == After(o, timer)
         IN /\ But(r, gaps) /\ Keeps(o, r) /\ r.v = o.v /\ r.l = o.l /\ r.m = o.m
            /\ r.t[timer] > 0 /\ \A t \in Timers : t # timer => r.t[t] = o.t[t]
            /\ timer = "recheck" => But(r, gaps \ {"fixAllOn"})
<1> DEFINE r == After(o, timer)
<1>1. Whole(o)
  BY DEF But
<1>2. /\ Whole(r) /\ \A j \in OverviewParts \ {"t"} : r[j] = o[j]
      /\ r.t[timer] > 0 /\ \A t \in Timers : t # timer => r.t[t] = o.t[t]
      /\ Keeps(o, r)
  BY <1>1, AfterIsWhole
<1> HIDE DEF r
<1>3. r.v = o.v /\ r.l = o.l /\ r.m = o.m
  BY <1>2 DEF OverviewParts
<1>4. \A t \in Timers : r.t[t] \in Nat /\ o.t[t] \in Nat /\ (o.t[t] > 0 => r.t[t] > 0)
  BY <1>1, <1>2 DEF Whole
<1>5. But(r, gaps)
  BY <1>2, <1>3, <1>4 DEF But, Timers
<1>6. timer = "recheck" => But(r, gaps \ {"fixAllOn"})
  BY <1>2, <1>5 DEF But
<1> QED BY <1>2, <1>3, <1>5, <1>6 DEF r

\* And so does one that starts over.
LEMMA RestartedGoesOn ==
  ASSUME NEW o, NEW gaps, But(o, gaps), NEW timer \in Timers
  PROVE  LET r == Restarted(o, timer)
         IN /\ But(r, gaps) /\ Keeps(o, r) /\ r.v = o.v /\ r.l = o.l /\ r.m = o.m
            /\ r.t[timer] > 0 /\ \A t \in Timers : t # timer => r.t[t] = o.t[t]
<1> DEFINE r == Restarted(o, timer)
<1>1. Whole(o)
  BY DEF But
<1>2. /\ Whole(r) /\ \A j \in OverviewParts \ {"t"} : r[j] = o[j]
      /\ r.t[timer] > 0 /\ \A t \in Timers : t # timer => r.t[t] = o.t[t]
      /\ Keeps(o, r)
  BY <1>1, RestartedIsWhole
<1> HIDE DEF r
<1>3. r.v = o.v /\ r.l = o.l /\ r.m = o.m
  BY <1>2 DEF OverviewParts
<1>4. \A t \in Timers : r.t[t] \in Nat /\ o.t[t] \in Nat /\ (o.t[t] > 0 => r.t[t] > 0)
  BY <1>1, <1>2 DEF Whole
<1>5. But(r, gaps)
  BY <1>2, <1>3, <1>4 DEF But, Timers
<1> QED BY <1>2, <1>3, <1>5 DEF r

\* A call that is made ends nothing, and begins nothing.
LEMMA AskGoesOn ==
  ASSUME NEW o, NEW gaps, But(o, gaps), NEW what \in Asks, NEW arg, NEW waits \in BOOLEAN,
         waits => what \in Waited
  PROVE  LET r == Ask(o, what, arg, waits)
         IN But(r, gaps) /\ Keeps(o, r) /\ r.v = o.v /\ r.t = o.t /\ r.m = o.m
<1> DEFINE r == Ask(o, what, arg, waits)
<1>1. Whole(o) /\ Numbered(o.l)
  BY DEF But
<1>2. /\ Whole(r) /\ Numbered(r.l) /\ Keeps(o, r)
      /\ \A j \in OverviewParts \ {"l"} : r[j] = o[j]
  BY <1>1, AskedIsWhole
<1> HIDE DEF r
<1>3. r.v = o.v /\ r.t = o.t /\ r.m = o.m
  BY <1>2 DEF OverviewParts
<1>4. o.l.pending \subseteq r.l.pending
  BY <1>2 DEF Keeps
<1>5. But(r, gaps)
  BY <1>2, <1>3, <1>4 DEF But
<1> QED BY <1>2, <1>3, <1>5 DEF r

\* One whose answer is waited for, and one whose answer is not.
Asking(o, what, arg) == Ask(o, what, arg, TRUE)
Telling(o, what, arg) == Ask(o, what, arg, FALSE)

\* One whose answer is waited for.
LEMMA AskWaits ==
  ASSUME NEW o, NEW gaps, But(o, gaps), NEW what \in Waited, NEW arg
  PROVE  LET r == Asking(o, what, arg)
         IN /\ But(r, gaps) /\ Keeps(o, r) /\ r.v = o.v /\ r.t = o.t /\ r.m = o.m
            /\ o.l.to # 0 /\ what = "health" =>
                 (\E p \in r.l.pending : p.what = "health") /\ Asked(r.l)
<1> DEFINE waits == TRUE
           r     == Ask(o, what, arg, waits)
<1>1. waits \in BOOLEAN /\ (waits => what \in Waited) /\ what \in Asks
  BY DEF Asks
<1>2. waits
  OBVIOUS
<1>3. Whole(o) /\ Numbered(o.l)
  BY DEF But
<1> HIDE DEF waits
<1>4. But(r, gaps) /\ Keeps(o, r) /\ r.v = o.v /\ r.t = o.t /\ r.m = o.m
  BY <1>1, AskGoesOn
<1>5. /\ waits /\ o.l.to # 0 => \E p \in r.l.pending : p.what = what
      /\ waits /\ o.l.to # 0 /\ what = "health" => Asked(r.l)
  BY <1>1, <1>3, AskedIsWhole
<1>6. Asking(o, what, arg) = r
  BY DEF waits, Asking
<1> HIDE DEF r
<1>7. o.l.to # 0 /\ what = "health" => (\E p \in r.l.pending : p.what = "health") /\ Asked(r.l)
  BY <1>2, <1>5
<1> QED BY ONLY <1>4, <1>6, <1>7

\* One whose answer is not.
LEMMA AskAlone ==
  ASSUME NEW o, NEW gaps, But(o, gaps), NEW what \in Asks, NEW arg
  PROVE  LET r == Telling(o, what, arg)
         IN But(r, gaps) /\ Keeps(o, r) /\ r.v = o.v /\ r.t = o.t /\ r.m = o.m
<1> DEFINE waits == FALSE
           r     == Ask(o, what, arg, waits)
<1>1. waits \in BOOLEAN /\ (waits => what \in Waited)
  OBVIOUS
<1> HIDE DEF waits
<1>2. But(r, gaps) /\ Keeps(o, r) /\ r.v = o.v /\ r.t = o.t /\ r.m = o.m
  BY <1>1, AskGoesOn
<1>3. Telling(o, what, arg) = r
  BY DEF waits, Telling
<1> HIDE DEF r
<1> QED BY ONLY <1>2, <1>3

\* Neither does a daemon that is started.
LEMMA StartGoesOn ==
  ASSUME NEW o, NEW gaps, But(o, gaps)
  PROVE  LET r == StartDaemon(o)
         IN But(r, gaps) /\ Keeps(o, r) /\ r.v = o.v /\ r.t = o.t /\ r.m = o.m /\ r.l = o.l
<1> DEFINE r == StartDaemon(o)
<1>1. Whole(r) /\ Keeps(o, r) /\ \A j \in OverviewParts \ {"n", "c"} : r[j] = o[j]
  BY StartDaemonIsWhole DEF But
<1> HIDE DEF r
<1>2. r.v = o.v /\ r.t = o.t /\ r.m = o.m /\ r.l = o.l
  BY <1>1 DEF OverviewParts
<1>3. But(r, gaps)
  BY <1>1, <1>2 DEF But
<1> QED BY <1>1, <1>2, <1>3 DEF r

\* Nor do the settings.
LEMMA SettingsGoOn ==
  ASSUME NEW o, NEW gaps, But(o, gaps), NEW r, OnlySettings(o, r)
  PROVE  But(r, gaps) /\ Keeps(o, r) /\ r.v = o.v /\ r.m = o.m /\ r.l = o.l
<1>1. r.v = o.v /\ r.m = o.m /\ r.l = o.l
  BY DEF OverviewParts, OnlySettings
<1>2. Whole(r) /\ Keeps(o, r) /\ \A t \in Timers : t # "push" => r.t[t] = o.t[t]
  BY DEF OnlySettings
<1>3. But(r, gaps)
  BY <1>1, <1>2 DEF But, Timers
<1> QED BY <1>1, <1>2, <1>3

\* What is shown without a daemon offers to fix it all.
LEMMA ShowLocalGoesOn ==
  ASSUME NEW o, NEW gaps, But(o, gaps), NEW checks
  PROVE  LET r == ShowChecks(o, checks, 0)
         IN /\ But(r, gaps \ {"fixAllOn"}) /\ Keeps(o, r) /\ r.t = o.t /\ r.m = o.m /\ r.l = o.l
            /\ r.v.from = 0
            /\ \A j \in ViewParts \ {"checks", "from", "fixAllOn"} : r.v[j] = o.v[j]
<1> DEFINE r == ShowChecks(o, checks, 0)
<1>1. /\ Whole(r) /\ Keeps(o, r) /\ \A j \in OverviewParts \ {"v"} : r[j] = o[j]
      /\ r.v.from = 0 /\ r.v.fixAllOn = ~o.v.fixing
      /\ \A j \in ViewParts \ {"checks", "from", "fixAllOn"} : r.v[j] = o.v[j]
  BY ShowLocalIsWhole DEF But
<1> HIDE DEF r
<1>2. r.t = o.t /\ r.m = o.m /\ r.l = o.l
  BY <1>1 DEF OverviewParts
<1>3. /\ r.v.checking = o.v.checking /\ r.v.restarting = o.v.restarting
      /\ r.v.fixing = o.v.fixing /\ r.v.checkOn = o.v.checkOn /\ r.v.restartOn = o.v.restartOn
      /\ r.v.administrator = o.v.administrator
  BY <1>1 DEF ViewParts
<1>4. But(r, gaps \ {"fixAllOn"})
  BY <1>1, <1>2, <1>3 DEF But
<1> QED BY <1>1, <1>2, <1>4 DEF r

\* A check ends: its answer is on its way, or the page says what it sees without a daemon.
LEMMA CheckGoesOn ==
  ASSUME NEW o, But(o, {"fixAllOn"}), NEW interactive
  PROVE  LET r == CheckHealth(o, interactive)
         IN /\ But(r, {}) /\ Keeps(o, r)
            /\ ~o.v.checking /\ ~o.v.fixing => r.v.from = 0 \/ Asked(r.l)
<1> DEFINE r == CheckHealth(o, interactive)
<1>1. CASE o.v.checking \/ o.v.fixing
  <2>1. r = o
    BY <1>1 DEF CheckHealth
  <2>2. But(o, {})
    BY <1>1 DEF But
  <2> QED BY <1>1, <2>1, <2>2 DEF Keeps
<1>2. CASE ~(o.v.checking \/ o.v.fixing) /\ o.l.to = 0
  <2>1. r = ShowChecks(o, LocalChecks(o), 0)
    BY <1>2 DEF CheckHealth, Linked, ShowLocal
  <2> HIDE DEF r
  <2>2. But(r, {"fixAllOn"} \ {"fixAllOn"}) /\ Keeps(o, r) /\ r.v.from = 0
    BY <2>1, ShowLocalGoesOn
  <2>3. {"fixAllOn"} \ {"fixAllOn"} = {}
    OBVIOUS
  <2> QED BY ONLY <2>2, <2>3 DEF r
<1>3. CASE ~(o.v.checking \/ o.v.fixing) /\ o.l.to # 0
  <2> DEFINE q == [o EXCEPT !.v.checking = TRUE, !.v.checkOn = FALSE]
  <2>1. r = IF o.v.checking \/ o.v.fixing THEN o
            ELSE IF ~Linked(o) THEN ShowLocal(o)
            ELSE Asking(q, "health", interactive)
    BY DEF CheckHealth, Asking
  <2>2. /\ Whole(q) /\ \A j \in OverviewParts \ {"v"} : q[j] = o[j]
        /\ q.v.checking /\ ~q.v.checkOn
        /\ \A j \in ViewParts \ {"checking", "checkOn"} : q.v[j] = o.v[j]
    BY CheckingIsWhole DEF But
  <2> HIDE DEF q, r
  <2>3. q.l = o.l /\ q.t = o.t
    BY ONLY <2>2 DEF OverviewParts
  <2>4. Keeps(o, q)
    BY ONLY <2>2, ViewKeeps DEF ViewParts
  <2>5. /\ q.v.restarting = o.v.restarting /\ q.v.fixing = o.v.fixing
        /\ q.v.restartOn = o.v.restartOn /\ q.v.administrator = o.v.administrator
    BY ONLY <2>2 DEF ViewParts
  <2>6. But(q, {"checking"})
    BY <2>2, <2>3, <2>5 DEF But
  <2> DEFINE s == Asking(q, "health", interactive)
  <2>7. r = s
    BY ONLY <1>3, <2>1 DEF Linked
  <2>8. "health" \in Waited
    BY DEF Waited
  <2>9. /\ But(s, {"checking"}) /\ Keeps(q, s) /\ s.v = q.v
        /\ q.l.to # 0 => (\E p \in s.l.pending : p.what = "health") /\ Asked(s.l)
    BY ONLY <2>6, <2>8, AskWaits
  <2> HIDE DEF s
  <2>10. But(s, {}) /\ Asked(s.l)
    BY <1>3, <2>3, <2>9 DEF But
  <2>11. Keeps(o, s)
    BY ONLY <2>4, <2>9, KeepsTwice
  <2> QED BY ONLY <2>7, <2>10, <2>11 DEF r
<1> QED BY <1>1, <1>2, <1>3

\* A restart that ends, in whatever way, gives its button back.
LEMMA FinishRestartGoesOn ==
  ASSUME NEW o, But(o, {"restarting", "fixAllOn"}), NEW ok
  PROVE  LET r == FinishRestart(o, ok) IN But(r, {}) /\ Keeps(o, r)
<1> DEFINE r  == FinishRestart(o, ok)
           q1 == [o EXCEPT !.v.restarting = FALSE]
           q2 == [q1 EXCEPT !.v.restartOn = TRUE]
           q  == [q2 EXCEPT !.t["restart"] = 0]
<1>1. r = IF ok THEN After(q, "recheck") ELSE ShowLocal(q)
  BY DEF FinishRestart
<1>2. Whole(o)
  BY DEF But
<1>3. /\ Whole(q1) /\ \A j \in OverviewParts \ {"v"} : q1[j] = o[j]
      /\ ~q1.v.restarting /\ \A j \in ViewParts \ {"restarting"} : q1.v[j] = o.v[j]
  BY <1>2 DEF Whole, OverviewParts, ViewParts, LinkParts, DaemonParts, Flags
<1> HIDE DEF q1
<1>4. /\ Whole(q2) /\ \A j \in OverviewParts \ {"v"} : q2[j] = o[j]
      /\ ~q2.v.restarting /\ q2.v.restartOn
      /\ \A j \in ViewParts \ {"restarting", "restartOn"} : q2.v[j] = o.v[j]
  BY <1>3 DEF Whole, OverviewParts, ViewParts, LinkParts, DaemonParts, Flags
<1> HIDE DEF q2
<1>5. /\ q = [k \in OverviewParts |-> q[k]] /\ q.t = [q2.t EXCEPT !["restart"] = 0]
      /\ \A j \in OverviewParts \ {"t"} : q[j] = q2[j]
  BY <1>4 DEF Whole, OverviewParts
<1> HIDE DEF q, r
<1>6. q.v = q2.v /\ q2.t = o.t
  BY <1>4, <1>5 DEF OverviewParts
<1>7. /\ q.l = o.l /\ q.d = o.d /\ q.m = o.m /\ q.n = o.n /\ q.c = o.c
      /\ q2.l = o.l /\ q2.d = o.d /\ q2.m = o.m /\ q2.n = o.n
  BY <1>4, <1>5 DEF OverviewParts
<1>8. /\ q.t \in [Timers -> Nat]
      /\ \A t \in Timers : t # "restart" => q.t[t] = o.t[t]
  <2>1. o.t \in [Timers -> Nat]
    BY <1>2 DEF Whole
  <2> DEFINE timer == "restart"
  <2>2. q.t = [o.t EXCEPT ![timer] = 0]
    BY ONLY <1>5, <1>6 DEF timer
  <2>3. timer \in Timers
    BY DEF Timers
  <2>4. timer = "restart"
    OBVIOUS
  <2> HIDE DEF timer
  <2> QED BY ONLY <2>1, <2>2, <2>3, <2>4
<1>9. /\ q.v.checking = o.v.checking /\ q.v.fixing = o.v.fixing /\ q.v.checkOn = o.v.checkOn
      /\ q.v.administrator = o.v.administrator /\ ~q.v.restarting /\ q.v.restartOn
      /\ q.v.from = o.v.from /\ q.v.checks = o.v.checks /\ q.v.visible = o.v.visible
      /\ q.v.stale = o.v.stale
  BY <1>4, <1>6 DEF ViewParts
<1>10. Whole(q)
  <2>1. q.v = [k \in ViewParts |-> q.v[k]] /\ \A k \in Flags : q.v[k] \in BOOLEAN
    BY ONLY <1>4, <1>6 DEF Whole
  <2>2. /\ o.n \in Nat /\ o.l = [k \in LinkParts |-> o.l[k]]
        /\ o.d = [k \in DaemonParts |-> o.d[k]] /\ Findable(o.m)
    BY ONLY <1>2 DEF Whole
  <2>3. q = [k \in OverviewParts |-> q[k]]
    BY ONLY <1>5
  <2> QED BY ONLY <1>7, <1>8, <2>1, <2>2, <2>3 DEF Whole
<1>11. But(q, {"fixAllOn"})
  BY <1>7, <1>8, <1>9, <1>10 DEF But, Timers
<1>12. Keeps(o, q)
  BY ONLY <1>7, <1>8, <1>9 DEF Keeps, Pids, Timers
<1>13. {"fixAllOn"} \ {"fixAllOn"} = {} /\ "recheck" \in Timers
  BY DEF Timers
<1>14. But(After(q, "recheck"), {}) /\ Keeps(q, After(q, "recheck"))
  BY ONLY <1>11, <1>13, AfterGoesOn
<1>15. But(ShowLocal(q), {}) /\ Keeps(q, ShowLocal(q))
  BY ONLY <1>11, <1>13, ShowLocalGoesOn DEF ShowLocal
<1>16. r = After(q, "recheck") \/ r = ShowLocal(q)
  BY <1>1
<1>17. But(r, {}) /\ Keeps(q, r)
  BY ONLY <1>14, <1>15, <1>16
<1> QED BY ONLY <1>12, <1>17, KeepsTwice DEF r

\* One that begins has its timer, or ends at once.
LEMMA RestartGoesOn ==
  ASSUME NEW o, But(o, {"fixAllOn"}), NEW there
  PROVE  LET r == Restart(o, there) IN But(r, {}) /\ Keeps(o, r)
<1> DEFINE r == Restart(o, there)
           q == RestartBegun(o, o.l.to)
           s == StartDaemon(q)
           no == FALSE
<1>1. r = IF o.v.restarting THEN o
          ELSE IF there THEN Restarted(s, "restart") ELSE FinishRestart(q, no)
  BY DEF Restart, RestartBegun
<1>0. Whole(o)
  BY DEF But
<1>2. /\ Whole(q) /\ \A j \in OverviewParts \ {"v"} : q[j] = o[j]
      /\ q.v.restarting /\ ~q.v.restartOn
      /\ \A j \in ViewParts \ {"restarting", "replaced", "restartOn"} : q.v[j] = o.v[j]
  BY ONLY <1>0, RestartingIsWhole
<1> HIDE DEF q, r, no
<1>3. q.l = o.l /\ q.t = o.t
  BY ONLY <1>2 DEF OverviewParts
<1>4. /\ q.v.checking = o.v.checking /\ q.v.fixing = o.v.fixing /\ q.v.checkOn = o.v.checkOn
      /\ q.v.administrator = o.v.administrator
  BY ONLY <1>2 DEF ViewParts
<1>5. But(q, {"restarting", "fixAllOn"})
  BY <1>2, <1>3, <1>4 DEF But
<1>6. Keeps(o, q)
  BY ONLY <1>2, ViewKeeps DEF ViewParts
<1>7. But(s, {"restarting", "fixAllOn"}) /\ Keeps(q, s) /\ s.v = q.v
  BY ONLY <1>5, StartGoesOn
<1> HIDE DEF s
<1>8. "restart" \in Timers
  BY DEF Timers
<1> DEFINE t == Restarted(s, "restart")
<1>9. But(t, {"restarting", "fixAllOn"}) /\ Keeps(s, t) /\ t.v = s.v /\ t.t["restart"] > 0
  BY ONLY <1>7, <1>8, RestartedGoesOn
<1> HIDE DEF t
<1>10. But(t, {})
  BY <1>2, <1>7, <1>9 DEF But
<1>11. Keeps(o, t)
  BY ONLY <1>6, <1>7, <1>9, KeepsTwice
<1>12. But(FinishRestart(q, no), {}) /\ Keeps(q, FinishRestart(q, no))
  BY ONLY <1>5, FinishRestartGoesOn
<1>13. Keeps(o, FinishRestart(q, no))
  BY ONLY <1>6, <1>12, KeepsTwice
<1>14. o.v.restarting => But(o, {}) /\ Keeps(o, o)
  BY DEF But, Keeps
<1>15. \/ o.v.restarting /\ r = o
       \/ r = t
       \/ r = FinishRestart(q, no)
  BY <1>1 DEF t
<1> QED BY ONLY <1>10, <1>11, <1>12, <1>13, <1>14, <1>15 DEF r

\* The daemon that answers ends a restart.
LEMMA StatusGoesOn ==
  ASSUME NEW o, But(o, {}), NEW pid
  PROVE  LET r == StatusPolled(o, pid) IN But(r, {}) /\ Keeps(o, r)
<1> DEFINE yes == TRUE
           r   == StatusPolled(o, pid)
<1>1. r = o \/ r = FinishRestart(o, yes)
  BY DEF StatusPolled
<1> HIDE DEF yes, r
<1>2. But(o, {"restarting", "fixAllOn"})
  BY GapsGrow
<1>3. But(FinishRestart(o, yes), {}) /\ Keeps(o, FinishRestart(o, yes))
  BY ONLY <1>2, FinishRestartGoesOn
<1>4. Keeps(o, o)
  BY DEF Keeps
<1> QED BY ONLY <1>1, <1>3, <1>4, But(o, {}) DEF r

\* A fix that begins, and one that ends.
LEMMA FixingGoesOn ==
  ASSUME NEW o, But(o, {"fixing", "fixAllOn"})
  PROVE  /\ But(Fixing(o), {"fixing"}) /\ Keeps(o, Fixing(o)) /\ Fixing(o).v.fixing
         /\ Fixing(o).m = o.m
         /\ But(Fixed(o), {"fixAllOn"}) /\ Keeps(o, Fixed(o)) /\ Fixed(o).t = o.t
<1> DEFINE q == Fixing(o)
           r == Fixed(o)
<1>0. Whole(o)
  BY DEF But
<1>1. /\ Whole(q) /\ \A j \in OverviewParts \ {"v"} : q[j] = o[j]
      /\ q.v.fixing /\ ~q.v.fixAllOn
      /\ \A j \in ViewParts \ {"fixing", "fixAllOn"} : q.v[j] = o.v[j]
  BY ONLY <1>0, FixingIsWhole
<1>2. /\ Whole(r) /\ \A j \in OverviewParts \ {"v"} : r[j] = o[j]
      /\ ~r.v.fixing /\ \A j \in ViewParts \ {"fixing"} : r.v[j] = o.v[j]
  BY ONLY <1>0, FixedIsWhole
<1> HIDE DEF q, r
<1>3. Keeps(o, q) /\ Keeps(o, r)
  BY ONLY <1>1, <1>2, ViewKeeps DEF ViewParts
<1>4. q.l = o.l /\ q.t = o.t /\ r.l = o.l /\ r.t = o.t /\ q.m = o.m
  BY ONLY <1>1, <1>2 DEF OverviewParts
<1>5. /\ q.v.checking = o.v.checking /\ q.v.restarting = o.v.restarting
      /\ q.v.checkOn = o.v.checkOn /\ q.v.restartOn = o.v.restartOn
      /\ q.v.administrator = o.v.administrator
      /\ r.v.checking = o.v.checking /\ r.v.restarting = o.v.restarting
      /\ r.v.checkOn = o.v.checkOn /\ r.v.restartOn = o.v.restartOn
      /\ r.v.administrator = o.v.administrator
  BY ONLY <1>1, <1>2 DEF ViewParts
<1>6. But(q, {"fixing"})
  BY <1>1, <1>4, <1>5 DEF But
<1>7. But(r, {"fixAllOn"})
  BY <1>2, <1>4, <1>5 DEF But
<1> QED BY ONLY <1>1, <1>3, <1>4, <1>6, <1>7 DEF q, r

\* A button that is turned on, the check's one off while Microsoft's runtime is downloaded.
LEMMA ButtonGoesOn ==
  ASSUME NEW o, NEW gaps, But(o, gaps), NEW x \in BOOLEAN
  PROVE  /\ LET r == [o EXCEPT !.v.fixAllOn = x]
            IN /\ x => But(r, gaps \ {"fixAllOn"})
               /\ Keeps(o, r) /\ r.t = o.t /\ r.m = o.m /\ r.l = o.l
               /\ \A j \in ViewParts \ {"fixAllOn"} : r.v[j] = o.v[j]
         /\ LET r == [o EXCEPT !.v.checkOn = x]
            IN /\ x => But(r, gaps \ {"checkOn"})
               /\ But(r, gaps \cup {"checkOn"})
               /\ Keeps(o, r) /\ r.t = o.t /\ r.m = o.m /\ r.l = o.l
               /\ \A j \in ViewParts \ {"checkOn"} : r.v[j] = o.v[j]
<1> DEFINE q == [o EXCEPT !.v.fixAllOn = x]
           r == [o EXCEPT !.v.checkOn = x]
<1>0. Whole(o)
  BY DEF But
<1>1. /\ Whole(q) /\ \A j \in OverviewParts \ {"v"} : q[j] = o[j]
      /\ q.v.fixAllOn = x /\ \A j \in ViewParts \ {"fixAllOn"} : q.v[j] = o.v[j]
  BY <1>0 DEF Whole, OverviewParts, ViewParts, LinkParts, DaemonParts, Flags
<1>2. /\ Whole(r) /\ \A j \in OverviewParts \ {"v"} : r[j] = o[j]
      /\ r.v.checkOn = x /\ \A j \in ViewParts \ {"checkOn"} : r.v[j] = o.v[j]
  BY <1>0 DEF Whole, OverviewParts, ViewParts, LinkParts, DaemonParts, Flags
<1> HIDE DEF q, r
<1>3. Keeps(o, q) /\ Keeps(o, r)
  BY ONLY <1>1, <1>2, ViewKeeps DEF ViewParts
<1>4. q.l = o.l /\ q.t = o.t /\ r.l = o.l /\ r.t = o.t /\ q.m = o.m /\ r.m = o.m
  BY ONLY <1>1, <1>2 DEF OverviewParts
<1>5. /\ q.v.checking = o.v.checking /\ q.v.restarting = o.v.restarting
      /\ q.v.checkOn = o.v.checkOn /\ q.v.restartOn = o.v.restartOn
      /\ q.v.administrator = o.v.administrator /\ q.v.fixing = o.v.fixing
      /\ r.v.checking = o.v.checking /\ r.v.restarting = o.v.restarting
      /\ r.v.fixAllOn = o.v.fixAllOn /\ r.v.restartOn = o.v.restartOn
      /\ r.v.administrator = o.v.administrator /\ r.v.fixing = o.v.fixing
  BY ONLY <1>1, <1>2 DEF ViewParts
<1>6. x => But(q, gaps \ {"fixAllOn"})
  BY <1>1, <1>4, <1>5 DEF But
<1>7. /\ x => But(r, gaps \ {"checkOn"})
      /\ But(r, gaps \cup {"checkOn"})
  BY <1>2, <1>4, <1>5 DEF But
<1> QED BY ONLY <1>1, <1>2, <1>3, <1>4, <1>6, <1>7 DEF q, r

\* Downloading or installing Microsoft's runtime fails: every button comes back.
LEMMA RuntimeFailedGoesOn ==
  ASSUME NEW o, But(o, {"fixing", "fixAllOn", "checkOn"})
  PROVE  But(RuntimeFailed(o), {}) /\ Keeps(o, RuntimeFailed(o))
<1> DEFINE q  == Fixed(o)
           yes == TRUE
           q1 == [q EXCEPT !.v.checkOn = yes]
           r  == [q1 EXCEPT !.v.fixAllOn = yes]
<1>0. Whole(o) /\ yes \in BOOLEAN /\ yes
  BY DEF But
<1>1. RuntimeFailed(o) = r
  BY DEF RuntimeFailed
<1>2. /\ Whole(q) /\ \A j \in OverviewParts \ {"v"} : q[j] = o[j]
      /\ ~q.v.fixing /\ \A j \in ViewParts \ {"fixing"} : q.v[j] = o.v[j]
  BY ONLY <1>0, FixedIsWhole
<1> HIDE DEF q, yes
<1>3. Keeps(o, q)
  BY ONLY <1>2, ViewKeeps DEF ViewParts
<1>4. q.l = o.l /\ q.t = o.t
  BY ONLY <1>2 DEF OverviewParts
<1>5. /\ q.v.checking = o.v.checking /\ q.v.restarting = o.v.restarting
      /\ q.v.restartOn = o.v.restartOn /\ q.v.administrator = o.v.administrator
  BY ONLY <1>2 DEF ViewParts
<1>6. But(q, {"fixAllOn", "checkOn"})
  BY <1>2, <1>4, <1>5 DEF But
<1>7. But(q1, {"fixAllOn", "checkOn"} \ {"checkOn"}) /\ Keeps(q, q1)
  BY ONLY <1>0, <1>6, ButtonGoesOn
<1> HIDE DEF q1
<1>8. {"fixAllOn", "checkOn"} \ {"checkOn"} = {"fixAllOn"} /\ {"fixAllOn"} \ {"fixAllOn"} = {}
  OBVIOUS
<1>9. But(q1, {"fixAllOn"})
  BY ONLY <1>7, <1>8
<1>10. But(r, {"fixAllOn"} \ {"fixAllOn"}) /\ Keeps(q1, r)
  BY ONLY <1>0, <1>9, ButtonGoesOn
<1> HIDE DEF r
<1>11. Keeps(o, r)
  BY ONLY <1>3, <1>7, <1>10, KeepsTwice
<1> QED BY ONLY <1>1, <1>8, <1>10, <1>11

\* A download of models ends.
LEMMA ModelsEndGoesOn ==
  ASSUME NEW o, But(o, {"fixing", "fixAllOn"}), NEW ok, NEW then
  PROVE  LET r == ModelsEnd(o, ok, then) IN But(r, {}) /\ Keeps(o, r)
<1> DEFINE r == ModelsEnd(o, ok, then)
           yes == TRUE
           f == Fixed(o)
           q == [f EXCEPT !.v.fixAllOn = yes]
<1>1. \/ r = q
      \/ r = Restart(q, yes)
      \/ r = After(q, "recheck")
  BY DEF ModelsEnd
<1>2. But(f, {"fixAllOn"}) /\ Keeps(o, f)
  BY ONLY But(o, {"fixing", "fixAllOn"}), FixingGoesOn
<1>3. yes \in BOOLEAN /\ yes /\ {"fixAllOn"} \ {"fixAllOn"} = {} /\ "recheck" \in Timers
  BY DEF Timers
<1> HIDE DEF r, f, yes
<1>4. But(q, {"fixAllOn"} \ {"fixAllOn"}) /\ Keeps(f, q)
  BY ONLY <1>2, <1>3, ButtonGoesOn
<1> HIDE DEF q
<1>5. But(q, {}) /\ Keeps(o, q)
  BY ONLY <1>2, <1>3, <1>4, KeepsTwice
<1>6. But(q, {"fixAllOn"})
  BY ONLY <1>5, GapsGrow
<1>7. But(Restart(q, yes), {}) /\ Keeps(q, Restart(q, yes))
  BY ONLY <1>6, RestartGoesOn
<1>8. But(After(q, "recheck"), {}) /\ Keeps(q, After(q, "recheck"))
  BY ONLY <1>3, <1>5, AfterGoesOn
<1>9. Keeps(o, Restart(q, yes)) /\ Keeps(o, After(q, "recheck"))
  BY ONLY <1>5, <1>7, <1>8, KeepsTwice
<1> QED BY ONLY <1>1, <1>5, <1>7, <1>8, <1>9 DEF r

\* Microsoft's runtime is downloaded, or the daemon is started on it.
LEMMA InstallRuntimeGoesOn ==
  ASSUME NEW o, But(o, {"fixing", "fixAllOn"}), NEW there
  PROVE  LET r == InstallRuntime(o, there) IN But(r, {}) /\ Keeps(o, r)
<1> DEFINE r  == InstallRuntime(o, there)
           f  == Fixed(o)
           g  == Fixing(o)
           no == FALSE
           q  == [g EXCEPT !.v.checkOn = no]
           t  == After(q, "runtime")
<1>1. r = Restart(f, there) \/ r = t
  BY DEF InstallRuntime
<1>2. /\ But(g, {"fixing"}) /\ Keeps(o, g) /\ g.v.fixing
      /\ But(f, {"fixAllOn"}) /\ Keeps(o, f)
  BY ONLY But(o, {"fixing", "fixAllOn"}), FixingGoesOn
<1>3. no \in BOOLEAN /\ "runtime" \in Timers
  BY DEF Timers
<1> HIDE DEF r, f, g, no
<1>4. /\ But(q, {"fixing"} \cup {"checkOn"}) /\ Keeps(g, q)
      /\ \A j \in ViewParts \ {"checkOn"} : q.v[j] = g.v[j]
  BY ONLY <1>2, <1>3, ButtonGoesOn
<1> HIDE DEF q
<1>5. q.v.fixing
  BY ONLY <1>2, <1>4 DEF ViewParts
<1>6. But(t, {"fixing"} \cup {"checkOn"}) /\ Keeps(q, t) /\ t.v = q.v /\ t.t["runtime"] > 0
  BY ONLY <1>3, <1>4, AfterGoesOn
<1> HIDE DEF t
<1>7. But(t, {})
  <2>1. t.t["runtime"] + t.t["redist"] > 0
    <3>1. t.t \in [Timers -> Nat] /\ "redist" \in Timers
      BY <1>6 DEF But, Whole, Timers
    <3>2. t.t["redist"] \in Nat /\ t.t["runtime"] \in Nat
      BY <1>3, <3>1
    <3> QED BY <1>6, <3>2
  <2> QED BY <1>5, <1>6, <2>1 DEF But
<1>8. Keeps(o, t)
  BY ONLY <1>2, <1>4, <1>6, KeepsTwice
<1>9. But(Restart(f, there), {}) /\ Keeps(f, Restart(f, there))
  BY ONLY <1>2, RestartGoesOn
<1>10. Keeps(o, Restart(f, there))
  BY ONLY <1>2, <1>9, KeepsTwice
<1> QED BY ONLY <1>1, <1>7, <1>8, <1>9, <1>10 DEF r

\* The models are downloaded, or the download ended already.
LEMMA DownloadGoesOn ==
  ASSUME NEW o, But(o, {"fixing", "fixAllOn"}), NEW then
  PROVE  LET r == DownloadTranslation(o, then) IN But(r, {}) /\ Keeps(o, r)
<1> DEFINE r   == DownloadTranslation(o, then)
           g   == Fixing(o)
           no  == FALSE
           yes == TRUE
           a   == Telling(g, "translation.reload", NoDaemon.cfg)
           q   == [g EXCEPT !.v.then = then]
           t   == After(q, "models")
<1>1. r \in {ModelsEnd(g, no, then), ModelsEnd(a, yes, then), t}
  BY DEF DownloadTranslation, Telling
<1>2. But(g, {"fixing"}) /\ Keeps(o, g) /\ g.v.fixing
  BY ONLY But(o, {"fixing", "fixAllOn"}), FixingGoesOn
<1>3. "translation.reload" \in Asks /\ "models" \in Timers
  BY DEF Asks, Timers
<1> HIDE DEF r, g, no, yes
<1>4. But(a, {"fixing"}) /\ Keeps(g, a)
  BY ONLY <1>2, <1>3, AskAlone
<1> HIDE DEF a
<1>5. But(a, {"fixing", "fixAllOn"}) /\ But(g, {"fixing", "fixAllOn"})
  <2>1. {"fixing"} \subseteq {"fixing", "fixAllOn"}
    OBVIOUS
  <2> QED BY ONLY <1>2, <1>4, <2>1, GapsGrow
<1>6. /\ But(ModelsEnd(g, no, then), {}) /\ Keeps(g, ModelsEnd(g, no, then))
      /\ But(ModelsEnd(a, yes, then), {}) /\ Keeps(a, ModelsEnd(a, yes, then))
  BY ONLY <1>5, ModelsEndGoesOn
<1>7. Keeps(o, ModelsEnd(g, no, then)) /\ Keeps(o, ModelsEnd(a, yes, then))
  BY ONLY <1>2, <1>4, <1>6, KeepsTwice
<1>8. Whole(g)
  BY ONLY <1>2 DEF But
<1>9. /\ Whole(q) /\ \A j \in OverviewParts \ {"v"} : q[j] = g[j]
      /\ \A j \in ViewParts \ {"then"} : q.v[j] = g.v[j]
  BY ONLY <1>8 DEF Whole, OverviewParts, ViewParts, LinkParts, DaemonParts, Flags
<1> HIDE DEF q
<1>10. Keeps(g, q)
  BY ONLY <1>9, ViewKeeps DEF ViewParts
<1>11. But(q, {"fixing"}) /\ q.v.fixing
  <2>1. q.l = g.l /\ q.t = g.t
    BY ONLY <1>9 DEF OverviewParts
  <2>2. /\ q.v.checking = g.v.checking /\ q.v.restarting = g.v.restarting
        /\ q.v.checkOn = g.v.checkOn /\ q.v.restartOn = g.v.restartOn
        /\ q.v.administrator = g.v.administrator /\ q.v.fixing = g.v.fixing
        /\ q.v.fixAllOn = g.v.fixAllOn
    BY ONLY <1>9 DEF ViewParts
  <2> QED BY <1>2, <1>9, <2>1, <2>2 DEF But
<1>12. But(t, {"fixing"}) /\ Keeps(q, t) /\ t.v = q.v /\ t.t["models"] > 0
  BY ONLY <1>3, <1>11, AfterGoesOn
<1> HIDE DEF t
<1>13. But(t, {})
  BY <1>11, <1>12 DEF But
<1>14. Keeps(o, t)
  BY ONLY <1>2, <1>10, <1>12, KeepsTwice
<1> QED BY ONLY <1>1, <1>6, <1>7, <1>13, <1>14 DEF r

\* What nothing has to be decided for.
Fixes ==
  {"restart", "resume", "enable-ocr", "enable-accessibility", "install-vcredist",
   "download-translation"}

\* The fix of one row.
LEMMA FixOneGoesOn ==
  ASSUME NEW o, But(o, {}), NEW action \in Fixes, NEW there
  PROVE  LET r == FixOne(o, action, there) IN But(r, {}) /\ Keeps(o, r)
<1> DEFINE no == FALSE
           e  == EnableSettings(o, {action})
           a  == Asking(o, "scan.pause", no)
           r  == FixOne(o, action, there)
<1>1. /\ action = "restart" => r = Restart(o, there)
      /\ action = "resume" => r = a \/ r = After(o, "recheck")
      /\ action \in {"enable-ocr", "enable-accessibility"} => r = After(e, "recheck")
      /\ action = "install-vcredist" => r = InstallRuntime(o, there)
      /\ action = "download-translation" => r = DownloadTranslation(o, "recheck")
  BY DEF FixOne, Asking
<1> HIDE DEF r, no, e
<1>2. But(o, {"fixAllOn"}) /\ But(o, {"fixing", "fixAllOn"})
  BY GapsGrow
<1>3. "recheck" \in Timers /\ "scan.pause" \in Waited
  BY DEF Timers, Waited
<1>4. But(Restart(o, there), {}) /\ Keeps(o, Restart(o, there))
  BY ONLY <1>2, RestartGoesOn
<1>5. But(a, {}) /\ Keeps(o, a)
  BY ONLY <1>3, AskWaits, But(o, {})
<1>6. But(After(o, "recheck"), {}) /\ Keeps(o, After(o, "recheck"))
  BY ONLY <1>3, AfterGoesOn, But(o, {})
<1>7. But(InstallRuntime(o, there), {}) /\ Keeps(o, InstallRuntime(o, there))
  BY ONLY <1>2, InstallRuntimeGoesOn
<1>8. But(DownloadTranslation(o, "recheck"), {}) /\ Keeps(o, DownloadTranslation(o, "recheck"))
  BY ONLY <1>2, DownloadGoesOn
<1>9. OnlySettings(o, e)
  BY EnableSettingsIsWhole DEF But, e
<1>10. But(e, {}) /\ Keeps(o, e)
  BY ONLY <1>9, SettingsGoOn, But(o, {})
<1>11. But(After(e, "recheck"), {}) /\ Keeps(e, After(e, "recheck"))
  BY ONLY <1>3, <1>10, AfterGoesOn
<1>12. Keeps(o, After(e, "recheck"))
  BY ONLY <1>10, <1>11, KeepsTwice
<1> HIDE DEF a
<1> QED BY <1>1, <1>4, <1>5, <1>6, <1>7, <1>8, <1>11, <1>12 DEF Fixes, r

\* All of them.
LEMMA FixAllGoesOn ==
  ASSUME NEW o, But(o, {}), NEW there
  PROVE  LET r == FixAll(o, there) IN But(r, {}) /\ Keeps(o, r)
<1> DEFINE no      == FALSE
           fixes   == Automatic(o.v.checks)
           g       == Fixing(o)
           set     == EnableSettings(g, fixes)
           a       == Telling(set, "scan.pause", no)
           resumed == IF "resume" \in fixes THEN a ELSE set
           then    == IF "restart" \in fixes THEN "restart" ELSE "recheck"
           f       == Fixed(resumed)
           r       == FixAll(o, there)
<1>1. r \in {o, InstallRuntime(resumed, there), DownloadTranslation(resumed, then),
             Restart(f, there), After(f, "recheck")}
  BY DEF FixAll, Telling
<1> HIDE DEF r, no, fixes, then
<1>2. But(o, {"fixing", "fixAllOn"})
  BY GapsGrow
<1>3. But(g, {"fixing"}) /\ Keeps(o, g)
  BY ONLY <1>2, FixingGoesOn
<1> HIDE DEF g
<1>4. OnlySettings(g, set)
  BY <1>3, EnableSettingsIsWhole DEF But
<1> HIDE DEF set
<1>5. But(set, {"fixing"}) /\ Keeps(g, set)
  BY ONLY <1>3, <1>4, SettingsGoOn
<1>6. "scan.pause" \in Asks /\ "recheck" \in Timers /\ {"fixing"} \subseteq {"fixing", "fixAllOn"}
  BY DEF Asks, Waited, Timers
<1>7. But(a, {"fixing"}) /\ Keeps(set, a)
  BY ONLY <1>5, <1>6, AskAlone
<1> HIDE DEF a
<1>8. Keeps(o, set) /\ Keeps(o, a)
  BY ONLY <1>3, <1>5, <1>7, KeepsTwice
<1>9. But(resumed, {"fixing"}) /\ Keeps(o, resumed)
  BY ONLY <1>5, <1>7, <1>8
<1> HIDE DEF resumed
<1>10. But(resumed, {"fixing", "fixAllOn"})
  BY ONLY <1>6, <1>9, GapsGrow
<1>11. But(f, {"fixAllOn"}) /\ Keeps(resumed, f)
  BY ONLY <1>10, FixingGoesOn
<1> HIDE DEF f
<1>12. /\ But(InstallRuntime(resumed, there), {}) /\ Keeps(resumed, InstallRuntime(resumed, there))
       /\ But(DownloadTranslation(resumed, then), {})
       /\ Keeps(resumed, DownloadTranslation(resumed, then))
  BY ONLY <1>10, InstallRuntimeGoesOn, DownloadGoesOn
<1>13. But(Restart(f, there), {}) /\ Keeps(f, Restart(f, there))
  BY ONLY <1>11, RestartGoesOn
<1>14. /\ But(After(f, "recheck"), {"fixAllOn"} \ {"fixAllOn"}) /\ Keeps(f, After(f, "recheck"))
       /\ {"fixAllOn"} \ {"fixAllOn"} = {}
  BY ONLY <1>6, <1>11, AfterGoesOn
<1>15. Keeps(resumed, Restart(f, there)) /\ Keeps(resumed, After(f, "recheck"))
  BY ONLY <1>11, <1>13, <1>14, KeepsTwice
<1>16. /\ Keeps(o, InstallRuntime(resumed, there)) /\ Keeps(o, DownloadTranslation(resumed, then))
       /\ Keeps(o, Restart(f, there)) /\ Keeps(o, After(f, "recheck"))
  BY ONLY <1>9, <1>12, <1>15, KeepsTwice
<1>17. But(After(f, "recheck"), {})
  BY ONLY <1>14
<1>18. Keeps(o, o)
  BY DEF Keeps
<1> QED BY ONLY <1>1, <1>12, <1>13, <1>16, <1>17, <1>18, But(o, {}) DEF r

\* A report comes, and one that does not.
LEMMA ReportGoesOn ==
  ASSUME NEW o, But(o, {"checking"}), NEW checks, NEW from
  PROVE  LET r == ShowChecks(Checked(o), checks, from)
         IN /\ But(r, {}) /\ \A j \in OverviewParts \ {"v"} : r[j] = o[j]
            /\ r.v.checks = checks /\ r.v.from = from
            /\ r.v.visible = o.v.visible /\ r.v.stale = o.v.stale
            /\ from = 0 => Keeps(o, r)
<1> DEFINE q == Checked(o)
           r == ShowChecks(q, checks, from)
<1>1. Whole(o)
  BY DEF But
<1>2. /\ Whole(q) /\ \A j \in OverviewParts \ {"v"} : q[j] = o[j]
      /\ ~q.v.checking /\ q.v.checkOn
      /\ \A j \in ViewParts \ {"checking", "checkOn"} : q.v[j] = o.v[j]
  BY ONLY <1>1, CheckedIsWhole
<1> HIDE DEF q
<1>3. /\ Whole(r) /\ \A j \in OverviewParts \ {"v"} : r[j] = q[j]
      /\ r.v.checks = checks /\ r.v.from = from /\ r.v.fixAllOn = ~q.v.fixing
      /\ \A j \in ViewParts \ {"checks", "from", "fixAllOn"} : r.v[j] = q.v[j]
  BY ONLY <1>2, ShowChecksIsWhole
<1> HIDE DEF r
<1>4. \A j \in OverviewParts \ {"v"} : r[j] = o[j]
  BY ONLY <1>2, <1>3
<1>5. r.l = o.l /\ r.t = o.t /\ r.d = o.d /\ r.m = o.m /\ r.n = o.n /\ r.c = o.c
  BY ONLY <1>4 DEF OverviewParts
<1>6. /\ ~r.v.checking /\ r.v.checkOn /\ r.v.restarting = o.v.restarting
      /\ r.v.fixing = o.v.fixing /\ r.v.restartOn = o.v.restartOn
      /\ r.v.administrator = o.v.administrator
      /\ r.v.fixAllOn = ~r.v.fixing
      /\ r.v.visible = o.v.visible /\ r.v.stale = o.v.stale
  BY ONLY <1>2, <1>3 DEF ViewParts
<1>7. But(r, {})
  BY <1>3, <1>5, <1>6 DEF But
<1>8. o.n \in Nat
  BY <1>1 DEF Whole
<1>9. from = 0 => (Pids(o) => Pids(r))
  BY <1>3, <1>5, <1>8 DEF Pids
<1>10. from = 0 => Keeps(o, r)
  BY ONLY <1>3, <1>5, <1>6, <1>9 DEF Keeps
<1> QED BY ONLY <1>3, <1>4, <1>6, <1>7, <1>10 DEF r, q

-----------------------------------------------------------------------------
(* What a report wants changed.                                            *)

\* A check that names no setting offers none.
NoSetting(checks) == \A c \in checks : c.fix \notin SettingFixes

\* Of two parts of a report.
LEMMA OfferedOfBoth ==
  ASSUME NEW checks, NEW more
  PROVE  /\ Offered(checks \cup more) = Offered(checks) \cup Offered(more)
         /\ NoSetting(checks) => Offered(checks) = {}
BY DEF Offered, Automatic, Ailing, NoSetting

\* Of one check.
LEMMA OfferedOfOne ==
  ASSUME NEW c, c.status # "ok", c.fix \in SettingFixes
  PROVE  Offered({c}) = {c.fix}
<1>1. c.fix \in Fixes
  BY DEF SettingFixes, Fixes
<1>2. Ailing({c}) = {c}
  BY DEF Ailing
<1>3. {d \in {c} : d.fix \in Fixes} = {c}
  BY ONLY <1>1
<1>4. Automatic({c}) = {c.fix}
  BY ONLY <1>2, <1>3, Zenon DEF Automatic, Fixes
<1> QED BY <1>4 DEF Offered

\* The daemon is paused, or wants no setting.
LEMMA DaemonNeeds ==
  ASSUME NEW f, Findable(f), NEW cfg, NEW interactive
  PROVE  Offered(CheckDaemon(f, cfg, interactive)) = Where(cfg.paused, "resume")
<1> DEFINE one   == {IF f.replaced THEN Of("daemon", "warning", "restart") ELSE Well("daemon")}
           two   == Where(f.others, Of("instances", "error", "restart"))
           three == Where(f.startup, Of("startup", "error", "none"))
           four  == Where(cfg.paused, Of("paused", "warning", "resume"))
           five  == IF f.desktop = "answers" THEN Desktop(f, interactive)
                    ELSE {Of("desktop", "error", "restart")}
<1>1. CheckDaemon(f, cfg, interactive) = one \cup two \cup three \cup four \cup five
  BY DEF CheckDaemon
<1>2. NoSetting(one) /\ NoSetting(two) /\ NoSetting(three)
  BY DEF NoSetting, SettingFixes, Where, Of, Well
<1>3. NoSetting(five)
  <2>1. Trigger(f).fix \notin SettingFixes
    BY DEF Trigger, SettingFixes, Of, Well
  <2>2. Input(f, interactive).fix \notin SettingFixes
    BY DEF Input, SettingFixes, Of, Well
  <2>3. NoSetting(Where(~f.keys, Of("keyboard", "info", "none")))
    BY DEF NoSetting, SettingFixes, Where, Of
  <2>4. NoSetting(Where(f.windows /\ f.above, Of("elevated", "warning", "run-as-administrator")))
    BY DEF NoSetting, SettingFixes, Where, Of
  <2>5. Well("desktop").fix \notin SettingFixes /\ NoSetting({Of("desktop", "error", "restart")})
    BY DEF NoSetting, SettingFixes, Well, Of
  <2> QED BY <2>1, <2>2, <2>3, <2>4, <2>5 DEF NoSetting, Desktop
<1>4. Offered(four) = Where(cfg.paused, "resume")
  <2> DEFINE c == Of("paused", "warning", "resume")
  <2>1. c.status # "ok" /\ c.fix = "resume" /\ c.fix \in SettingFixes
    BY DEF Of, SettingFixes
  <2> HIDE DEF c
  <2>2. Offered({c}) = {"resume"}
    BY ONLY <2>1, OfferedOfOne
  <2>3. Offered({}) = {}
    BY DEF Offered, Automatic, Ailing
  <2> QED BY <2>2, <2>3 DEF Where, c
<1> HIDE DEF one, two, three, four, five
<1>5. /\ Offered(one) = {} /\ Offered(two) = {} /\ Offered(three) = {} /\ Offered(five) = {}
      /\ Offered(one \cup two) = Offered(one) \cup Offered(two)
      /\ Offered(one \cup two \cup three) = Offered(one \cup two) \cup Offered(three)
      /\ Offered(one \cup two \cup three \cup four) =
           Offered(one \cup two \cup three) \cup Offered(four)
      /\ Offered(one \cup two \cup three \cup four \cup five) =
           Offered(one \cup two \cup three \cup four) \cup Offered(five)
  BY ONLY <1>2, <1>3, OfferedOfBoth
<1> QED BY <1>1, <1>4, <1>5

\* Languages and dictionaries want none.
LEMMA LanguagesNeedNothing ==
  ASSUME NEW f, Findable(f)
  PROVE  NoSetting(CheckLanguages(f))
<1>1. NoSetting(CheckDictionaries(f))
  <2>1. (IF f.words = "none" THEN Of("dictionaries", "error", "open-dictionaries")
         ELSE IF ~f.opened THEN Of("dictionaries", "warning", "open-dictionaries")
         ELSE Well("dictionaries")).fix \notin SettingFixes
    BY DEF SettingFixes, Of, Well
  <2>2. NoSetting(Where(f.words = "others", Of("lookup", "warning", "open-dictionaries")))
    BY DEF NoSetting, SettingFixes, Where, Of
  <2>3. NoSetting(Where(f.words = "found", Well("lookup")))
    BY DEF NoSetting, SettingFixes, Where, Of, Well
  <2> QED BY <2>1, <2>2, <2>3 DEF CheckDictionaries, NoSetting
<1>2. EnabledLanguages(f).fix \notin SettingFixes
  BY DEF Findable, EnabledLanguages, SettingFixes, Of, Well
<1>3. Fonts(f).fix \notin SettingFixes
  BY DEF Findable, Fonts, SettingFixes, Of, Well
<1>4. NoSetting(Recommended(f))
  BY DEF Findable, Recommended, NoSetting, SettingFixes, Of, Well
<1> QED BY <1>1, <1>2, <1>3, <1>4 DEF CheckLanguages, NoSetting

\* Reading the screen wants the settings it is off by, where there is a screen.
LEMMA ScreenNeeds ==
  ASSUME NEW f, Findable(f), NEW cfg
  PROVE  Offered(CheckScreen(f, cfg)) =
           Where(f.desktop # "none" /\ ~cfg.accessibility, "enable-accessibility")
             \cup Where(f.desktop # "none" /\ f.reading = "answers" /\ ~cfg.ocr, "enable-ocr")
<1> DEFINE one   == Capture(f, cfg)
           two   == {Of("last-capture", "info", "none")}
           three == Where(~cfg.accessibility,
                          Of("accessibility-setting", "warning", "enable-accessibility"))
           four  == Where(~f.drawing, Of("render", "error", "restart"))
<1>1. CheckScreen(f, cfg) = IF f.desktop = "none" THEN {} ELSE one \cup two \cup three \cup four
  BY DEF CheckScreen
<1>2. NoSetting(two) /\ NoSetting(four) /\ NoSetting({})
  BY DEF NoSetting, SettingFixes, Where, Of
<1>3. Offered(three) = Where(~cfg.accessibility, "enable-accessibility")
  <2> DEFINE c == Of("accessibility-setting", "warning", "enable-accessibility")
  <2>1. c.status # "ok" /\ c.fix = "enable-accessibility" /\ c.fix \in SettingFixes
    BY DEF Of, SettingFixes
  <2> HIDE DEF c
  <2>2. Offered({c}) = {"enable-accessibility"}
    BY ONLY <2>1, OfferedOfOne
  <2>3. Offered({}) = {}
    BY DEF Offered, Automatic, Ailing
  <2> QED BY <2>2, <2>3 DEF Where, c
<1>4. Offered(one) = Where(f.reading = "answers" /\ ~cfg.ocr, "enable-ocr")
  <2>1. Accessibility(f).fix \notin SettingFixes
    BY DEF Findable, Accessibility, Atspi, Uia, SettingFixes, Of, Well
  <2>2. cfg.ocr => Ocr(f, cfg).fix \notin SettingFixes
    <3>1. OcrReads(f).fix \notin SettingFixes
      BY DEF Findable, OcrReads, SettingFixes, Of, Well
    <3> QED BY <3>1 DEF Ocr, SettingFixes, Of
  <2>3. ~cfg.ocr => Ocr(f, cfg) = Of("ocr", "warning", "enable-ocr")
    BY DEF Ocr
  <2>4. CASE f.reading = "answers" /\ cfg.ocr
    <3>1. NoSetting(one)
      BY <2>1, <2>2, <2>4 DEF Capture, NoSetting
    <3> QED BY <2>4, <3>1, OfferedOfBoth DEF Where
  <2>5. CASE f.reading = "answers" /\ ~cfg.ocr
    <3> DEFINE a == Accessibility(f)
               b == Of("ocr", "warning", "enable-ocr")
    <3>1. one = {a} \cup {b}
      BY <2>3, <2>5 DEF Capture
    <3>2. Offered({b}) = {"enable-ocr"}
      <4>1. b.status # "ok" /\ b.fix = "enable-ocr" /\ b.fix \in SettingFixes
        BY DEF Of, SettingFixes
      <4> HIDE DEF b
      <4> QED BY ONLY <4>1, OfferedOfOne
    <3>3. NoSetting({a})
      BY <2>1 DEF NoSetting
    <3> HIDE DEF a, b, one
    <3>4. Offered({a}) = {} /\ Offered({a} \cup {b}) = Offered({a}) \cup Offered({b})
      BY ONLY <3>3, OfferedOfBoth
    <3> QED BY <2>5, <3>1, <3>2, <3>4 DEF Where
  <2>6. CASE f.reading # "answers"
    <3>1. NoSetting(one)
      BY <2>6 DEF Findable, Capture, NoSetting, SettingFixes, Of
    <3> QED BY <2>6, <3>1, OfferedOfBoth DEF Where
  <2> QED BY <2>4, <2>5, <2>6
<1> HIDE DEF one, two, three, four
<1>5. /\ Offered(two) = {} /\ Offered(four) = {} /\ Offered({}) = {}
      /\ Offered(one \cup two) = Offered(one) \cup Offered(two)
      /\ Offered(one \cup two \cup three) = Offered(one \cup two) \cup Offered(three)
      /\ Offered(one \cup two \cup three \cup four) =
           Offered(one \cup two \cup three) \cup Offered(four)
  BY ONLY <1>2, OfferedOfBoth
<1> QED BY <1>1, <1>3, <1>4, <1>5 DEF Where

\* What a report wants changed is what the settings of the daemon keep it from.
LEMMA ReportNeeds ==
  ASSUME NEW f, Findable(f), NEW cfg, NEW interactive
  PROVE  Offered(HealthReport(f, cfg, interactive)) = Needed(f, cfg)
<1> DEFINE one   == CheckDaemon(f, cfg, interactive)
           two   == CheckLanguages(f)
           three == CheckScreen(f, cfg)
           four  == {Translation(f, cfg)} \cup Audio(f) \cup Anki(f) \cup Folders(f) \cup Log(f)
<1>1. HealthReport(f, cfg, interactive) = (one \cup two \cup three) \cup four
  BY DEF HealthReport
<1>2. NoSetting(four)
  <2>1. Translation(f, cfg).fix \notin SettingFixes
    BY DEF Translation, SettingFixes, Of, Well
  <2>2. NoSetting(Audio(f))
    BY DEF Findable, Audio, NoSetting, SettingFixes, Of, Well
  <2>3. NoSetting(Anki(f))
    BY DEF Findable, Anki, NoSetting, SettingFixes, Of, Well
  <2>4. NoSetting(Folders(f))
    BY DEF Folders, NoSetting, SettingFixes, Of, Well
  <2>5. NoSetting(Log(f))
    BY DEF Findable, Log, NoSetting, SettingFixes, Of, Well
  <2> QED BY <2>1, <2>2, <2>3, <2>4, <2>5 DEF NoSetting
<1>3. /\ Offered(one) = Where(cfg.paused, "resume") /\ NoSetting(two)
      /\ Offered(three) =
           Where(f.desktop # "none" /\ ~cfg.accessibility, "enable-accessibility")
             \cup Where(f.desktop # "none" /\ f.reading = "answers" /\ ~cfg.ocr, "enable-ocr")
  BY DaemonNeeds, LanguagesNeedNothing, ScreenNeeds
<1> HIDE DEF one, two, three, four
<1>4. /\ Offered(two) = {} /\ Offered(four) = {}
      /\ Offered(one \cup two) = Offered(one) \cup Offered(two)
      /\ Offered(one \cup two \cup three) = Offered(one \cup two) \cup Offered(three)
      /\ Offered((one \cup two \cup three) \cup four) =
           Offered(one \cup two \cup three) \cup Offered(four)
  BY ONLY <1>2, <1>3, OfferedOfBoth
<1> QED BY <1>1, <1>3, <1>4 DEF Needed

-----------------------------------------------------------------------------
(* Steps of the page.                                                      *)

\* What is found changes only what no check of the page depends on.
LEMMA FindableKept ==
  ASSUME NEW f, Findable(f), NEW x
  PROVE  /\ LET g == [f EXCEPT !.runtime = x]
            IN Findable(g) /\ g.desktop = f.desktop /\ g.reading = f.reading
         /\ LET g == [f EXCEPT !.models = x]
            IN Findable(g) /\ g.desktop = f.desktop /\ g.reading = f.reading
         /\ LET g == [f EXCEPT !.others = x]
            IN Findable(g) /\ g.desktop = f.desktop /\ g.reading = f.reading
         /\ LET g == [f EXCEPT !.replaced = x]
            IN Findable(g) /\ g.desktop = f.desktop /\ g.reading = f.reading
<1> DEFINE D == DOMAIN Healthy
<1>1. {"languages", "recommended", "font", "log", "bus", "reading", "reads", "audio", "anki",
       "desktop", "runtime", "models", "others", "replaced"} \subseteq D
  BY DEF Healthy
<1>2. f = [k \in D |-> f[k]]
  BY DEF Findable
<1> HIDE DEF D
<1>3. LET g == [f EXCEPT !.runtime = x]
      IN Findable(g) /\ g.desktop = f.desktop /\ g.reading = f.reading
  <2> DEFINE g == [f EXCEPT !.runtime = x]
  <2>1. /\ g = [k \in D |-> g[k]] /\ g.languages = f.languages /\ g.recommended = f.recommended
        /\ g.font = f.font /\ g.log = f.log /\ g.bus = f.bus /\ g.reading = f.reading
        /\ g.reads = f.reads /\ g.audio = f.audio /\ g.anki = f.anki /\ g.desktop = f.desktop
    BY <1>1, <1>2
  <2> HIDE DEF g
  <2> QED BY <2>1 DEF Findable, g, D
<1>4. LET g == [f EXCEPT !.models = x]
      IN Findable(g) /\ g.desktop = f.desktop /\ g.reading = f.reading
  <2> DEFINE g == [f EXCEPT !.models = x]
  <2>1. /\ g = [k \in D |-> g[k]] /\ g.languages = f.languages /\ g.recommended = f.recommended
        /\ g.font = f.font /\ g.log = f.log /\ g.bus = f.bus /\ g.reading = f.reading
        /\ g.reads = f.reads /\ g.audio = f.audio /\ g.anki = f.anki /\ g.desktop = f.desktop
    BY <1>1, <1>2
  <2> HIDE DEF g
  <2> QED BY <2>1 DEF Findable, g, D
<1>5. LET g == [f EXCEPT !.others = x]
      IN Findable(g) /\ g.desktop = f.desktop /\ g.reading = f.reading
  <2> DEFINE g == [f EXCEPT !.others = x]
  <2>1. /\ g = [k \in D |-> g[k]] /\ g.languages = f.languages /\ g.recommended = f.recommended
        /\ g.font = f.font /\ g.log = f.log /\ g.bus = f.bus /\ g.reading = f.reading
        /\ g.reads = f.reads /\ g.audio = f.audio /\ g.anki = f.anki /\ g.desktop = f.desktop
    BY <1>1, <1>2
  <2> HIDE DEF g
  <2> QED BY <2>1 DEF Findable, g, D
<1>6. LET g == [f EXCEPT !.replaced = x]
      IN Findable(g) /\ g.desktop = f.desktop /\ g.reading = f.reading
  <2> DEFINE g == [f EXCEPT !.replaced = x]
  <2>1. /\ g = [k \in D |-> g[k]] /\ g.languages = f.languages /\ g.recommended = f.recommended
        /\ g.font = f.font /\ g.log = f.log /\ g.bus = f.bus /\ g.reading = f.reading
        /\ g.reads = f.reads /\ g.audio = f.audio /\ g.anki = f.anki /\ g.desktop = f.desktop
    BY <1>1, <1>2
  <2> HIDE DEF g
  <2> QED BY <2>1 DEF Findable, g, D
<1> QED BY ONLY <1>3, <1>4, <1>5, <1>6

\* A callback that ends well keeps the invariant.
LEMMA OverviewBecomesWell ==
  ASSUME NEW o, OverviewBecomes(o), But(o, {}), Pids(o), Current(o)
  PROVE  OverviewInv'
<1>1. o = [k \in OverviewParts |-> o[k]]
  BY DEF But, Whole
<1>2. AsOverview' = o
  BY <1>1 DEF AsOverview, OverviewBecomes, OverviewParts
<1> QED BY <1>2 DEF OverviewInv

\* What keeps what is shown as current as it was keeps it current.
LEMMA CurrentKept ==
  ASSUME NEW o, NEW r, Keeps(o, r), Pids(o), Current(o)
  PROVE  Pids(r) /\ Current(r)
<1>1. Pids(r) /\ r.d = o.d /\ r.l.to = o.l.to
  BY DEF Keeps
<1>2. ASSUME r.l.to # 0, r.l.to = r.d.pid
      PROVE  Reports(r) /\ Shown(r)
  <2>1. o.l.to # 0 /\ o.l.to = o.d.pid /\ Reports(o) /\ Shown(o)
    BY <1>1, <1>2 DEF Current
  <2> QED BY <2>1, KeepsCurrent
<1> QED BY <1>1, <1>2 DEF Current

\* So does a callback that ends well and keeps what is shown as current as it was.
LEMMA KeptWell ==
  ASSUME OverviewInv, NEW r, OverviewBecomes(r), But(r, {}), Keeps(AsOverview, r)
  PROVE  OverviewInv'
<1> DEFINE o == AsOverview
<1>1. Pids(o) /\ Current(o)
  BY DEF OverviewInv
<1> HIDE DEF o
<1>2. Keeps(o, r)
  BY DEF o
<1>3. Pids(r) /\ Current(r)
  BY <1>1, <1>2, CurrentKept
<1> QED BY <1>3, OverviewBecomesWell

\* A timer fires.
LEMMA FiredGoesOn ==
  ASSUME NEW o, But(o, {}), NEW timer \in Timers, o.t[timer] > 0
  PROVE  LET r == [o EXCEPT !.t[timer] = @ - 1]
         IN /\ Whole(r) /\ \A j \in OverviewParts \ {"t"} : r[j] = o[j]
            /\ timer \in {"health", "quiet", "gone", "push"} => But(r, {})
            /\ timer = "recheck" => But(r, {"fixAllOn"})
            /\ timer \in {"runtime", "redist"} => But(r, {"fixing", "checkOn"})
            /\ timer \in {"models", "modelRedist"} => But(r, {"fixing"})
            /\ \A t \in Timers : t # timer => r.t[t] = o.t[t]
            /\ timer # "health" => Keeps(o, r)
<1> DEFINE r == [o EXCEPT !.t[timer] = o.t[timer] - 1]
<1>1. Whole(o)
  BY DEF But
<1>2. /\ r = [k \in OverviewParts |-> r[k]] /\ r.t = [o.t EXCEPT ![timer] = o.t[timer] - 1]
      /\ \A j \in OverviewParts \ {"t"} : r[j] = o[j]
  BY <1>1 DEF Whole, OverviewParts
<1>3. o.t[timer] - 1 \in Nat /\ o.t \in [Timers -> Nat]
  BY <1>1 DEF Whole
<1>0. r = [o EXCEPT !.t[timer] = @ - 1]
  OBVIOUS
<1> HIDE DEF r
<1>4. /\ r.t \in [Timers -> Nat] /\ \A t \in Timers : t # timer => r.t[t] = o.t[t]
  BY <1>2, <1>3
<1>5. r.v = o.v /\ r.d = o.d /\ r.m = o.m /\ r.l = o.l /\ r.n = o.n /\ r.c = o.c
  BY <1>2 DEF OverviewParts
<1>6. Whole(r)
  BY <1>1, <1>2, <1>4, <1>5 DEF Whole
<1>7. timer # "health" => Keeps(o, r)
  BY ONLY <1>4, <1>5 DEF Keeps, Pids, Timers
<1>8. timer \in {"health", "quiet", "gone", "push"} => But(r, {})
  BY <1>4, <1>5, <1>6 DEF But, Timers
<1>9. timer = "recheck" => But(r, {"fixAllOn"})
  BY <1>4, <1>5, <1>6 DEF But, Timers
<1>10. timer \in {"runtime", "redist"} => But(r, {"fixing", "checkOn"})
  BY <1>4, <1>5, <1>6 DEF But, Timers
<1>11. timer \in {"models", "modelRedist"} => But(r, {"fixing"})
  BY <1>4, <1>5, <1>6 DEF But, Timers
<1> QED BY ONLY <1>0, <1>2, <1>4, <1>6, <1>7, <1>8, <1>9, <1>10, <1>11

\* Of the page's own timers.
LEMMA FiredWell ==
  ASSUME OverviewInv, NEW timer \in Timers, timers[timer] > 0
  PROVE  LET r == Fired(timer)
         IN /\ Whole(r) /\ r.v = view /\ r.l = link /\ r.m = machine /\ r.d = daemon
            /\ r.n = started /\ r.c = coming
            /\ \A t \in Timers : t # timer => r.t[t] = timers[t]
            /\ timer \in {"health", "quiet", "gone", "push"} => But(r, {})
            /\ timer = "recheck" => But(r, {"fixAllOn"})
            /\ timer \in {"runtime", "redist"} => But(r, {"fixing", "checkOn"})
            /\ timer \in {"models", "modelRedist"} => But(r, {"fixing"})
            /\ timer # "health" => Keeps(AsOverview, r)
<1> DEFINE o == AsOverview
           r == Fired(timer)
<1>1. But(o, {})
  BY DEF OverviewInv
<1>2. o.v = view /\ o.l = link /\ o.m = machine /\ o.d = daemon /\ o.t = timers /\ o.n = started
      /\ o.c = coming
  BY DEF AsOverview
<1>3. r = [o EXCEPT !.t[timer] = @ - 1] /\ o = AsOverview
  BY DEF Fired
<1> HIDE DEF o, r
<1>4. /\ Whole(r) /\ \A j \in OverviewParts \ {"t"} : r[j] = o[j]
      /\ timer \in {"health", "quiet", "gone", "push"} => But(r, {})
      /\ timer = "recheck" => But(r, {"fixAllOn"})
      /\ timer \in {"runtime", "redist"} => But(r, {"fixing", "checkOn"})
      /\ timer \in {"models", "modelRedist"} => But(r, {"fixing"})
      /\ \A t \in Timers : t # timer => r.t[t] = o.t[t]
      /\ timer # "health" => Keeps(o, r)
  BY <1>1, <1>2, <1>3, FiredGoesOn
<1>5. r.v = o.v /\ r.l = o.l /\ r.m = o.m /\ r.d = o.d /\ r.n = o.n /\ r.c = o.c
  BY ONLY <1>4 DEF OverviewParts
<1> QED BY ONLY <1>2, <1>3, <1>4, <1>5 DEF r

\* The health is checked again after something changed, once the page is free.
LEMMA HealthTimerWell ==
  ASSUME OverviewInv, HealthTimer
  PROVE  OverviewInv'
<1> DEFINE no == FALSE
           o  == AsOverview
           q  == Fired("health")
           r  == CheckHealth(q, no)
<1>1. /\ timers["health"] > 0
      /\ \/ OverviewBecomes(o)
         \/ ~view.checking /\ ~view.fixing /\ OverviewBecomes(r)
  BY DEF HealthTimer
<1> HIDE DEF no
<1>2. But(o, {}) /\ Pids(o) /\ Current(o)
  BY DEF OverviewInv
<1>3. CASE OverviewBecomes(o)
  BY <1>2, <1>3, OverviewBecomesWell
<1>4. CASE ~view.checking /\ ~view.fixing /\ OverviewBecomes(r)
  <2>1. "health" \in Timers /\ o.v = view /\ o.l = link /\ o.m = machine /\ o.d = daemon
        /\ o.n = started /\ o.c = coming
    BY DEF Timers, AsOverview
  <2>2. /\ But(q, {}) /\ q.v = view /\ q.l = link /\ q.m = machine /\ q.d = daemon
        /\ q.n = started /\ q.c = coming
    BY <1>1, <2>1, FiredWell
  <2> HIDE DEF o, q
  <2>3. But(q, {"fixAllOn"})
    BY <2>2, GapsGrow
  <2>4. But(r, {}) /\ Keeps(q, r) /\ (~q.v.checking /\ ~q.v.fixing => r.v.from = 0 \/ Asked(r.l))
    BY ONLY <2>3, CheckGoesOn
  <2> HIDE DEF r
  <2>5. r.v.from = 0 \/ Asked(r.l)
    BY <1>4, <2>2, <2>4
  <2>6. Pids(q)
    BY ONLY <1>2, <2>1, <2>2 DEF Pids
  <2>7. Current(r)
    <3>1. SUFFICES ASSUME r.l.to # 0, r.l.to = r.d.pid
                   PROVE  Reports(r) /\ Shown(r)
      BY DEF Current
    <3>2. q.l.to # 0 /\ q.l.to = q.d.pid
      BY <2>4, <3>1 DEF Keeps
    <3>3. Reports(q)
      BY <1>2, <2>1, <2>2, <3>2 DEF Current, Reports
    <3> QED BY <2>4, <2>5, <3>2, <3>3, KeepsCurrent
  <2>8. Pids(r)
    BY <2>4, <2>6 DEF Keeps
  <2> QED BY <1>4, <2>4, <2>7, <2>8, OverviewBecomesWell
<1> QED BY <1>1, <1>3, <1>4

\* And a moment after a fix, or after the connection was made.
LEMMA RecheckWell ==
  ASSUME OverviewInv, Recheck
  PROVE  OverviewInv'
<1> DEFINE yes == TRUE
           q   == Fired("recheck")
           r   == CheckHealth(q, yes)
<1>1. timers["recheck"] > 0 /\ OverviewBecomes(r)
  BY DEF Recheck
<1>2. "recheck" \in Timers
  BY DEF Timers
<1> HIDE DEF yes
<1>3. But(q, {"fixAllOn"}) /\ Keeps(AsOverview, q)
  BY <1>1, <1>2, FiredWell
<1> HIDE DEF q
<1>4. But(r, {}) /\ Keeps(q, r)
  BY ONLY <1>3, CheckGoesOn
<1> HIDE DEF r
<1>5. Keeps(AsOverview, r)
  BY <1>3, <1>4, KeepsTwice
<1> QED BY <1>1, <1>4, <1>5, KeptWell

\* The first check.
LEMMA QuietWell ==
  ASSUME OverviewInv, Quiet
  PROVE  OverviewInv'
<1> DEFINE no == FALSE
           q  == Fired("quiet")
           r  == CheckHealth(q, no)
<1>1. timers["quiet"] > 0 /\ (OverviewBecomes(r) \/ OverviewBecomes(q))
  BY DEF Quiet
<1>2. "quiet" \in Timers
  BY DEF Timers
<1> HIDE DEF no
<1>3. But(q, {}) /\ Keeps(AsOverview, q)
  BY <1>1, <1>2, FiredWell
<1> HIDE DEF q
<1>4. But(q, {"fixAllOn"})
  BY ONLY <1>3, GapsGrow
<1>5. But(r, {}) /\ Keeps(q, r)
  BY ONLY <1>4, CheckGoesOn
<1> HIDE DEF r
<1>6. Keeps(AsOverview, r)
  BY <1>3, <1>5, KeepsTwice
<1> QED BY <1>1, <1>3, <1>5, <1>6, KeptWell

\* Without a daemon it is told once the connection stays away.
LEMMA StillGoneWell ==
  ASSUME OverviewInv, StillGone
  PROVE  OverviewInv'
<1> DEFINE q == Fired("gone")
           r == ShowLocal(q)
<1>1. timers["gone"] > 0 /\ (OverviewBecomes(r) \/ OverviewBecomes(q))
  BY DEF StillGone
<1>2. "gone" \in Timers
  BY DEF Timers
<1>3. But(q, {}) /\ Keeps(AsOverview, q)
  BY <1>1, <1>2, FiredWell
<1> HIDE DEF q
<1>4. But(r, {} \ {"fixAllOn"}) /\ Keeps(q, r) /\ {} \ {"fixAllOn"} = {}
  BY ONLY <1>3, ShowLocalGoesOn DEF ShowLocal
<1>5. But(r, {})
  BY ONLY <1>4
<1> HIDE DEF r
<1>6. Keeps(AsOverview, r)
  BY <1>3, <1>4, KeepsTwice
<1> QED BY <1>1, <1>3, <1>5, <1>6, KeptWell

\* A daemon that was started is asked for, or given up.
LEMMA RestartTimerWell ==
  ASSUME OverviewInv, RestartTimer
  PROVE  OverviewInv'
<1> DEFINE no == FALSE
           o  == AsOverview
           r  == FinishRestart(o, no)
           s  == Asking(o, "status", NoDaemon.cfg)
<1>1. OverviewBecomes(r) \/ OverviewBecomes(s)
  BY DEF RestartTimer, Asking
<1>2. "status" \in Waited /\ But(o, {})
  BY DEF Waited, OverviewInv
<1>3. o = AsOverview
  OBVIOUS
<1> HIDE DEF no, o
<1>4. But(o, {"restarting", "fixAllOn"})
  BY ONLY <1>2, GapsGrow
<1>5. But(r, {}) /\ Keeps(o, r)
  BY ONLY <1>4, FinishRestartGoesOn
<1>6. But(s, {}) /\ Keeps(o, s)
  BY ONLY <1>2, AskWaits
<1> HIDE DEF r, s
<1> QED BY <1>1, <1>3, <1>5, <1>6, KeptWell

\* The settings are pushed.
LEMMA PushTimerWell ==
  ASSUME OverviewInv, PushTimer
  PROVE  OverviewInv'
<1> DEFINE q == Fired("push")
           e == [q.e EXCEPT !.pending = FALSE]
           p == [q EXCEPT !.e = e]
           r == Telling(p, "config.set", q.e.cfg)
<1>1. timers["push"] > 0 /\ (OverviewBecomes(r) \/ OverviewBecomes(q))
  BY DEF PushTimer, Telling
<1>2. "push" \in Timers /\ "config.set" \in Asks
  BY DEF Timers, Asks
<1>3. But(q, {}) /\ Keeps(AsOverview, q)
  BY <1>1, <1>2, FiredWell
<1> HIDE DEF q, e
<1>4. OnlySettings(q, p)
  BY <1>3, PushesLater DEF But
<1> HIDE DEF p
<1>5. But(p, {}) /\ Keeps(q, p)
  BY ONLY <1>3, <1>4, SettingsGoOn
<1>6. But(r, {}) /\ Keeps(p, r)
  BY ONLY <1>2, <1>5, AskAlone
<1> HIDE DEF r
<1>7. Keeps(AsOverview, r)
  BY <1>3, <1>5, <1>6, KeepsTwice
<1> QED BY <1>1, <1>3, <1>6, <1>7, KeptWell

\* What is found of Microsoft's runtime and of the models changes nothing on the page.
LEMMA MachineGoesOn ==
  ASSUME NEW o, NEW gaps, But(o, gaps), NEW x
  PROVE  /\ LET r == [o EXCEPT !.m.runtime = x] IN But(r, gaps) /\ Keeps(o, r) /\ r.v = o.v /\ r.t = o.t
         /\ LET r == [o EXCEPT !.m.models = x] IN But(r, gaps) /\ Keeps(o, r) /\ r.v = o.v /\ r.t = o.t
<1> DEFINE f == [o.m EXCEPT !.runtime = x]
           g == [o.m EXCEPT !.models = x]
           q == [o EXCEPT !.m = f]
           r == [o EXCEPT !.m = g]
<1>1. Findable(o.m)
  BY DEF But, Whole
<1>2. /\ Findable(f) /\ f.desktop = o.m.desktop /\ f.reading = o.m.reading
      /\ Findable(g) /\ g.desktop = o.m.desktop /\ g.reading = o.m.reading
  BY ONLY <1>1, FindableKept
<1>3. [o EXCEPT !.m.runtime = x] = q /\ [o EXCEPT !.m.models = x] = r
  OBVIOUS
<1> HIDE DEF f, g
<1>4. /\ q = [k \in OverviewParts |-> q[k]] /\ q.m = f /\ \A j \in OverviewParts \ {"m"} : q[j] = o[j]
      /\ r = [k \in OverviewParts |-> r[k]] /\ r.m = g /\ \A j \in OverviewParts \ {"m"} : r[j] = o[j]
  BY DEF But, Whole, OverviewParts
<1> HIDE DEF q, r
<1>5. /\ q.v = o.v /\ q.t = o.t /\ q.l = o.l /\ q.d = o.d /\ q.n = o.n /\ q.c = o.c
      /\ r.v = o.v /\ r.t = o.t /\ r.l = o.l /\ r.d = o.d /\ r.n = o.n /\ r.c = o.c
  BY ONLY <1>4 DEF OverviewParts
<1>6. Whole(q) /\ Whole(r)
  <2>1. Whole(o)
    BY DEF But
  <2>2. Findable(q.m) /\ Findable(r.m)
    BY ONLY <1>2, <1>4
  <2>3. /\ o.n \in Nat /\ o.t \in [Timers -> Nat] /\ o.v = [k \in ViewParts |-> o.v[k]]
        /\ \A k \in Flags : o.v[k] \in BOOLEAN
        /\ o.l = [k \in LinkParts |-> o.l[k]] /\ o.d = [k \in DaemonParts |-> o.d[k]]
    BY ONLY <2>1 DEF Whole
  <2> QED BY ONLY <1>4, <1>5, <2>2, <2>3 DEF Whole
<1>7. But(q, gaps) /\ But(r, gaps)
  BY <1>5, <1>6 DEF But
<1>8. Keeps(o, q) /\ Keeps(o, r)
  BY ONLY <1>2, <1>4, <1>5 DEF Keeps, Pids
<1> QED BY ONLY <1>3, <1>5, <1>7, <1>8

\* Neither does what follows the download of models.
LEMMA ThenGoesOn ==
  ASSUME NEW o, NEW gaps, But(o, gaps), NEW x
  PROVE  LET r == [o EXCEPT !.v.then = x] IN But(r, gaps) /\ Keeps(o, r) /\ r.t = o.t
<1> DEFINE r == [o EXCEPT !.v.then = x]
<1>1. Whole(o)
  BY DEF But
<1>2. /\ Whole(r) /\ \A j \in OverviewParts \ {"v"} : r[j] = o[j]
      /\ \A j \in ViewParts \ {"then"} : r.v[j] = o.v[j]
  BY ONLY <1>1 DEF Whole, OverviewParts, ViewParts, LinkParts, DaemonParts, Flags
<1> HIDE DEF r
<1>3. r.l = o.l /\ r.t = o.t
  BY ONLY <1>2 DEF OverviewParts
<1>4. /\ r.v.checking = o.v.checking /\ r.v.restarting = o.v.restarting
      /\ r.v.checkOn = o.v.checkOn /\ r.v.restartOn = o.v.restartOn
      /\ r.v.administrator = o.v.administrator /\ r.v.fixing = o.v.fixing
      /\ r.v.fixAllOn = o.v.fixAllOn
  BY ONLY <1>2 DEF ViewParts
<1>5. But(r, gaps)
  BY <1>2, <1>3, <1>4 DEF But
<1>6. Keeps(o, r)
  BY ONLY <1>2, ViewKeeps DEF ViewParts
<1> QED BY ONLY <1>3, <1>5, <1>6 DEF r

\* Microsoft's runtime was downloaded, or could not be.
LEMMA RuntimeDownloadedWell ==
  ASSUME OverviewInv, RuntimeDownloaded
  PROVE  OverviewInv'
<1> DEFINE q == Fired("runtime")
           r == After(q, "redist")
           s == RuntimeFailed(q)
<1>1. timers["runtime"] > 0 /\ (OverviewBecomes(r) \/ OverviewBecomes(s))
  BY DEF RuntimeDownloaded
<1>2. "runtime" \in Timers /\ "redist" \in Timers
      /\ {"fixing", "checkOn"} \subseteq {"fixing", "fixAllOn", "checkOn"}
  BY DEF Timers
<1>3. But(q, {"fixing", "checkOn"}) /\ Keeps(AsOverview, q)
  BY <1>1, <1>2, FiredWell
<1> HIDE DEF q
<1>4. But(q, {"fixing", "fixAllOn", "checkOn"})
  BY ONLY <1>2, <1>3, GapsGrow
<1>5. But(s, {}) /\ Keeps(q, s)
  BY ONLY <1>4, RuntimeFailedGoesOn
<1>6. But(r, {"fixing", "checkOn"}) /\ Keeps(q, r) /\ r.t["redist"] > 0
  BY ONLY <1>2, <1>3, AfterGoesOn
<1> HIDE DEF r, s
<1>7. r.t["runtime"] + r.t["redist"] > 0
  <2>1. r.t["runtime"] \in Nat /\ r.t["redist"] \in Nat
    BY <1>2, <1>6 DEF But, Whole
  <2> QED BY <1>6, <2>1
<1>8. But(r, {})
  BY <1>6, <1>7 DEF But
<1>9. Keeps(AsOverview, r) /\ Keeps(AsOverview, s)
  BY <1>3, <1>5, <1>6, KeepsTwice
<1> QED BY <1>1, <1>5, <1>8, <1>9, KeptWell

\* It was installed, or could not be.
LEMMA RedistributableWell ==
  ASSUME OverviewInv, Redistributable
  PROVE  OverviewInv'
<1> DEFINE yes == TRUE
           q   == Fired("redist")
           p   == [q EXCEPT !.m.runtime = yes]
           f   == Fixed(p)
           b   == [f EXCEPT !.v.checkOn = yes]
           r   == Restart(b, yes)
           s   == RuntimeFailed(q)
<1>1. timers["redist"] > 0 /\ (OverviewBecomes(r) \/ OverviewBecomes(s))
  BY DEF Redistributable
<1>2. "redist" \in Timers /\ {"fixing", "checkOn"} \subseteq {"fixing", "fixAllOn", "checkOn"}
      /\ yes \in BOOLEAN /\ yes /\ {"fixAllOn", "checkOn"} \ {"checkOn"} = {"fixAllOn"}
  BY DEF Timers
<1>3. But(q, {"fixing", "checkOn"}) /\ Keeps(AsOverview, q)
  BY <1>1, <1>2, FiredWell
<1> HIDE DEF q, yes
<1>4. But(q, {"fixing", "fixAllOn", "checkOn"})
  BY ONLY <1>2, <1>3, GapsGrow
<1>5. But(s, {}) /\ Keeps(q, s)
  BY ONLY <1>4, RuntimeFailedGoesOn
<1>6. But(p, {"fixing", "fixAllOn", "checkOn"}) /\ Keeps(q, p)
  BY ONLY <1>4, MachineGoesOn
<1> HIDE DEF p
<1>7. But(f, {"fixAllOn", "checkOn"}) /\ Keeps(p, f)
  <2>1. Whole(p)
    BY ONLY <1>6 DEF But
  <2>2. /\ Whole(f) /\ \A j \in OverviewParts \ {"v"} : f[j] = p[j]
        /\ ~f.v.fixing /\ \A j \in ViewParts \ {"fixing"} : f.v[j] = p.v[j]
    BY ONLY <2>1, FixedIsWhole
  <2> HIDE DEF f
  <2>3. f.l = p.l /\ f.t = p.t
    BY ONLY <2>2 DEF OverviewParts
  <2>4. /\ f.v.checking = p.v.checking /\ f.v.restarting = p.v.restarting
        /\ f.v.restartOn = p.v.restartOn /\ f.v.administrator = p.v.administrator
    BY ONLY <2>2 DEF ViewParts
  <2>5. Keeps(p, f)
    BY ONLY <2>2, ViewKeeps DEF ViewParts
  <2>6. But(f, {"fixAllOn", "checkOn"})
    BY <1>6, <2>2, <2>3, <2>4 DEF But
  <2> QED BY ONLY <2>5, <2>6
<1> HIDE DEF f
<1>8. But(b, {"fixAllOn", "checkOn"} \ {"checkOn"}) /\ Keeps(f, b)
  BY ONLY <1>2, <1>7, ButtonGoesOn
<1> HIDE DEF b
<1>9. But(b, {"fixAllOn"})
  BY ONLY <1>2, <1>8
<1>10. But(r, {}) /\ Keeps(b, r)
  BY ONLY <1>9, RestartGoesOn
<1> HIDE DEF r, s
<1>11. Keeps(AsOverview, s) /\ Keeps(AsOverview, p)
  BY <1>3, <1>5, <1>6, KeepsTwice
<1>12. Keeps(AsOverview, b)
  BY <1>7, <1>8, <1>11, KeepsTwice
<1>13. Keeps(AsOverview, r)
  BY <1>10, <1>12, KeepsTwice
<1> QED BY <1>1, <1>5, <1>10, <1>11, <1>13, KeptWell

\* The models were downloaded, or could not be.
LEMMA ModelsDownloadedWell ==
  ASSUME OverviewInv, ModelsDownloaded
  PROVE  OverviewInv'
<1> DEFINE yes  == TRUE
           no   == FALSE
           q    == Fired("models")
           none == "none"
           end  == [q EXCEPT !.v.then = none]
           had  == (end.m.models \ {"missing"}) \cup {"works"}
           got  == [end EXCEPT !.m.models = had]
           a    == Telling(got, "translation.reload", NoDaemon.cfg)
           then == view.then
           w    == [got EXCEPT !.v.then = then]
           r    == ModelsEnd(end, no, then)
           s    == ModelsEnd(a, yes, then)
           t    == After(w, "modelRedist")
<1>1. /\ timers["models"] > 0
      /\ OverviewBecomes(r) \/ OverviewBecomes(s) \/ OverviewBecomes(t)
  BY DEF ModelsDownloaded, Telling
<1>2. "models" \in Timers /\ "modelRedist" \in Timers /\ "translation.reload" \in Asks
      /\ {"fixing"} \subseteq {"fixing", "fixAllOn"}
  BY DEF Timers, Asks
<1>3. But(q, {"fixing"}) /\ Keeps(AsOverview, q)
  BY <1>1, <1>2, FiredWell
<1> HIDE DEF q, yes, no, none, then
<1>4. But(end, {"fixing"}) /\ Keeps(q, end)
  BY ONLY <1>3, ThenGoesOn
<1> HIDE DEF end, had
<1>5. But(got, {"fixing"}) /\ Keeps(end, got)
  BY ONLY <1>4, MachineGoesOn
<1> HIDE DEF got
<1>6. But(a, {"fixing"}) /\ Keeps(got, a)
  BY ONLY <1>2, <1>5, AskAlone
<1> HIDE DEF a
<1>7. But(w, {"fixing"}) /\ Keeps(got, w)
  BY ONLY <1>5, ThenGoesOn
<1> HIDE DEF w
<1>8. But(end, {"fixing", "fixAllOn"}) /\ But(a, {"fixing", "fixAllOn"})
  BY ONLY <1>2, <1>4, <1>6, GapsGrow
<1>9. But(r, {}) /\ Keeps(end, r) /\ But(s, {}) /\ Keeps(a, s)
  BY ONLY <1>8, ModelsEndGoesOn
<1>10. But(t, {"fixing"}) /\ Keeps(w, t) /\ t.t["modelRedist"] > 0
  BY ONLY <1>2, <1>7, AfterGoesOn
<1> HIDE DEF r, s, t
<1>11. But(t, {})
  BY <1>10 DEF But
<1>12. Keeps(AsOverview, end)
  BY <1>3, <1>4, KeepsTwice
<1>13. Keeps(AsOverview, got) /\ Keeps(AsOverview, r)
  BY <1>5, <1>9, <1>12, KeepsTwice
<1>14. Keeps(AsOverview, a) /\ Keeps(AsOverview, w)
  BY <1>6, <1>7, <1>13, KeepsTwice
<1>15. Keeps(AsOverview, s) /\ Keeps(AsOverview, t)
  BY <1>9, <1>10, <1>14, KeepsTwice
<1> QED BY <1>1, <1>9, <1>11, <1>13, <1>15, KeptWell

\* Microsoft's runtime that comes with them was installed, or could not be.
LEMMA ModelRedistributableWell ==
  ASSUME OverviewInv, ModelRedistributable
  PROVE  OverviewInv'
<1> DEFINE yes  == TRUE
           no   == FALSE
           q    == Fired("modelRedist")
           none == "none"
           end  == [q EXCEPT !.v.then = none]
           got  == [end EXCEPT !.m.runtime = yes]
           a    == StartDaemon(got)
           then == view.then
           r    == ModelsEnd(end, no, then)
           s    == ModelsEnd(a, yes, then)
<1>1. /\ timers["modelRedist"] > 0
      /\ OverviewBecomes(r) \/ OverviewBecomes(s)
  BY DEF ModelRedistributable
<1>2. "modelRedist" \in Timers /\ {"fixing"} \subseteq {"fixing", "fixAllOn"}
  BY DEF Timers
<1>3. But(q, {"fixing"}) /\ Keeps(AsOverview, q)
  BY <1>1, <1>2, FiredWell
<1> HIDE DEF q, yes, no, none, then
<1>4. But(end, {"fixing"}) /\ Keeps(q, end)
  BY ONLY <1>3, ThenGoesOn
<1> HIDE DEF end
<1>5. But(got, {"fixing"}) /\ Keeps(end, got)
  BY ONLY <1>4, MachineGoesOn
<1> HIDE DEF got
<1>6. But(a, {"fixing"}) /\ Keeps(got, a)
  BY ONLY <1>5, StartGoesOn
<1> HIDE DEF a
<1>7. But(end, {"fixing", "fixAllOn"}) /\ But(a, {"fixing", "fixAllOn"})
  BY ONLY <1>2, <1>4, <1>6, GapsGrow
<1>8. But(r, {}) /\ Keeps(end, r) /\ But(s, {}) /\ Keeps(a, s)
  BY ONLY <1>7, ModelsEndGoesOn
<1> HIDE DEF r, s
<1>9. Keeps(AsOverview, end)
  BY <1>3, <1>4, KeepsTwice
<1>10. Keeps(AsOverview, got) /\ Keeps(AsOverview, r)
  BY <1>5, <1>8, <1>9, KeepsTwice
<1>11. Keeps(AsOverview, a)
  BY <1>6, <1>10, KeepsTwice
<1>12. Keeps(AsOverview, s)
  BY <1>8, <1>11, KeepsTwice
<1> QED BY <1>1, <1>8, <1>10, <1>12, KeptWell

\* Windows gave the permission, or did not.
LEMMA AdministratorSetWell ==
  ASSUME OverviewInv, AdministratorSet
  PROVE  OverviewInv'
<1> DEFINE yes == TRUE
           no  == FALSE
           q   == Fired("administrator")
           p   == [q EXCEPT !.v.administrator = no]
           r   == Restart(p, yes)
<1>1. timers["administrator"] > 0 /\ (OverviewBecomes(r) \/ OverviewBecomes(p))
  BY DEF AdministratorSet
<1>2. "administrator" \in Timers /\ no \in BOOLEAN /\ ~no
  BY DEF Timers
<1>3. /\ Whole(q) /\ q.v = view /\ q.l = link /\ Keeps(AsOverview, q)
      /\ \A t \in Timers : t # "administrator" => q.t[t] = timers[t]
  BY <1>1, <1>2, FiredWell
<1> HIDE DEF q, yes, no
<1>4. /\ Whole(p) /\ \A j \in OverviewParts \ {"v"} : p[j] = q[j]
      /\ ~p.v.administrator /\ \A j \in ViewParts \ {"administrator"} : p.v[j] = q.v[j]
  BY ONLY <1>2, <1>3 DEF Whole, OverviewParts, ViewParts, LinkParts, DaemonParts, Flags
<1> HIDE DEF p
<1>5. Keeps(q, p)
  BY ONLY <1>4, ViewKeeps DEF ViewParts
<1>6. p.l = link /\ p.t = q.t
  BY ONLY <1>3, <1>4 DEF OverviewParts
<1>7. /\ p.v.checking = view.checking /\ p.v.restarting = view.restarting
      /\ p.v.checkOn = view.checkOn /\ p.v.restartOn = view.restartOn
      /\ p.v.fixing = view.fixing /\ p.v.fixAllOn = view.fixAllOn
  BY ONLY <1>3, <1>4 DEF ViewParts
<1>8. But(p, {})
  <2> DEFINE o == AsOverview
  <2>1. But(o, {}) /\ o.v = view /\ o.l = link /\ o.t = timers
    BY DEF OverviewInv, AsOverview
  <2> HIDE DEF o
  <2> QED BY <1>3, <1>4, <1>6, <1>7, <2>1 DEF But, Timers
<1>9. But(p, {"fixAllOn"})
  BY ONLY <1>8, GapsGrow
<1>10. But(r, {}) /\ Keeps(p, r)
  BY ONLY <1>9, RestartGoesOn
<1> HIDE DEF r
<1>11. Keeps(AsOverview, p)
  BY <1>3, <1>5, KeepsTwice
<1>12. Keeps(AsOverview, r)
  BY <1>10, <1>11, KeepsTwice
<1> QED BY <1>1, <1>8, <1>10, <1>11, <1>12, KeptWell

\* Clicks.
LEMMA ClicksWell ==
  ASSUME OverviewInv, ClickCheck \/ ClickPause \/ ClickRestart \/ ClickFixAll \/ ClickFix
  PROVE  OverviewInv'
<1> DEFINE o   == AsOverview
           yes == TRUE
<1>1. /\ But(o, {}) /\ o.v = view /\ o = AsOverview
  BY DEF OverviewInv, AsOverview
<1>2. "scan.pause" \in Asks
  BY DEF Asks, Waited
<1>3. \/ OverviewBecomes(CheckHealth(o, yes))
      \/ \E paused \in BOOLEAN : OverviewBecomes(Telling(o, "scan.pause", paused))
      \/ \E there \in BOOLEAN : OverviewBecomes(Restart(o, there))
      \/ \E there \in BOOLEAN : OverviewBecomes(FixAll(o, there))
      \/ \E there \in BOOLEAN, action \in Fixes : OverviewBecomes(FixOne(o, action, there))
  <2>1. Automatic(view.checks) \subseteq Fixes
    BY DEF Automatic, Fixes
  <2>2. ClickFix => \E there \in BOOLEAN, action \in Fixes : OverviewBecomes(FixOne(o, action, there))
    BY <2>1, Zenon DEF ClickFix
  <2>3. ClickCheck => OverviewBecomes(CheckHealth(o, yes))
    BY Zenon DEF ClickCheck
  <2>4. ClickPause => \E paused \in BOOLEAN : OverviewBecomes(Telling(o, "scan.pause", paused))
    BY Zenon DEF ClickPause, Telling
  <2>5. ClickRestart => \E there \in BOOLEAN : OverviewBecomes(Restart(o, there))
    BY Zenon DEF ClickRestart
  <2>6. ClickFixAll => \E there \in BOOLEAN : OverviewBecomes(FixAll(o, there))
    BY Zenon DEF ClickFixAll
  <2> HIDE DEF o
  <2> QED BY <2>2, <2>3, <2>4, <2>5, <2>6
<1> HIDE DEF o, yes
<1>4. But(o, {"fixAllOn"})
  BY ONLY <1>1, GapsGrow
<1>5. CASE OverviewBecomes(CheckHealth(o, yes))
  <2> DEFINE r == CheckHealth(o, yes)
  <2>1. But(r, {}) /\ Keeps(o, r)
    BY ONLY <1>4, CheckGoesOn
  <2> HIDE DEF r
  <2>2. OverviewBecomes(r)
    BY <1>5 DEF r
  <2> QED BY <1>1, <2>1, <2>2, KeptWell
<1>6. ASSUME NEW x, OverviewBecomes(Telling(o, "scan.pause", x))
      PROVE  OverviewInv'
  <2> DEFINE r == Telling(o, "scan.pause", x)
  <2>1. But(r, {}) /\ Keeps(o, r)
    BY ONLY <1>1, <1>2, AskAlone
  <2> HIDE DEF r
  <2>2. OverviewBecomes(r)
    BY <1>6 DEF r
  <2> QED BY <1>1, <2>1, <2>2, KeptWell
<1>7. ASSUME NEW there, OverviewBecomes(Restart(o, there))
      PROVE  OverviewInv'
  <2> DEFINE r == Restart(o, there)
  <2>1. But(r, {}) /\ Keeps(o, r)
    BY ONLY <1>4, RestartGoesOn
  <2> HIDE DEF r
  <2>2. OverviewBecomes(r)
    BY <1>7 DEF r
  <2> QED BY <1>1, <2>1, <2>2, KeptWell
<1>8. ASSUME NEW there, OverviewBecomes(FixAll(o, there))
      PROVE  OverviewInv'
  <2> DEFINE r == FixAll(o, there)
  <2>1. But(r, {}) /\ Keeps(o, r)
    BY ONLY <1>1, FixAllGoesOn
  <2> HIDE DEF r
  <2>2. OverviewBecomes(r)
    BY <1>8 DEF r
  <2> QED BY <1>1, <2>1, <2>2, KeptWell
<1>9. ASSUME NEW there, NEW action \in Fixes, OverviewBecomes(FixOne(o, action, there))
      PROVE  OverviewInv'
  <2> DEFINE r == FixOne(o, action, there)
  <2>1. But(r, {}) /\ Keeps(o, r)
    BY ONLY <1>1, FixOneGoesOn
  <2> HIDE DEF r
  <2>2. OverviewBecomes(r)
    BY <1>9 DEF r
  <2> QED BY <1>1, <2>1, <2>2, KeptWell
<1> QED BY <1>3, <1>5, <1>6, <1>7, <1>8, <1>9

\* The page is hidden, or shown and what changed meanwhile is checked.
LEMMA ShowPageWell ==
  ASSUME OverviewInv, ShowPage
  PROVE  OverviewInv'
<1> DEFINE o  == AsOverview
           q1 == [o EXCEPT !.v.visible = ~view.visible]
           q  == [q1 EXCEPT !.v.stale = view.stale /\ view.visible]
           r  == IF view.stale /\ ~view.visible THEN Restarted(q, "health") ELSE q
<1>1. OverviewBecomes(r)
  <2>1. [AsOverview EXCEPT !.v.visible = ~@, !.v.stale = @ /\ view.visible] = q
    BY DEF AsOverview
  <2> QED BY <2>1 DEF ShowPage
<1>2. /\ But(o, {}) /\ Pids(o) /\ Current(o) /\ o.v = view /\ o.l = link /\ o.t = timers
      /\ o.d = daemon /\ o.m = machine
  BY DEF OverviewInv, AsOverview
<1> HIDE DEF o, r
<1>3. Whole(o) /\ view.visible \in BOOLEAN /\ view.stale \in BOOLEAN
  BY <1>2 DEF But, Whole, Flags
<1>4. /\ Whole(q1) /\ \A j \in OverviewParts \ {"v"} : q1[j] = o[j]
      /\ q1.v.visible = ~view.visible
      /\ \A j \in ViewParts \ {"visible"} : q1.v[j] = o.v[j]
  BY ONLY <1>3 DEF Whole, OverviewParts, ViewParts, LinkParts, DaemonParts, Flags
<1> HIDE DEF q1
<1>5. /\ Whole(q) /\ \A j \in OverviewParts \ {"v"} : q[j] = o[j]
      /\ q.v.visible = ~view.visible /\ q.v.stale = (view.stale /\ view.visible)
      /\ \A j \in ViewParts \ {"visible", "stale"} : q.v[j] = o.v[j]
  BY ONLY <1>3, <1>4 DEF Whole, OverviewParts, ViewParts, LinkParts, DaemonParts, Flags
<1> HIDE DEF q
<1>6. q.l = o.l /\ q.t = o.t /\ q.d = o.d /\ q.m = o.m /\ q.n = o.n /\ q.c = o.c
  BY ONLY <1>5 DEF OverviewParts
<1>7. /\ q.v.checking = o.v.checking /\ q.v.restarting = o.v.restarting
      /\ q.v.checkOn = o.v.checkOn /\ q.v.restartOn = o.v.restartOn
      /\ q.v.administrator = o.v.administrator /\ q.v.fixing = o.v.fixing
      /\ q.v.fixAllOn = o.v.fixAllOn /\ q.v.from = o.v.from /\ q.v.checks = o.v.checks
  BY ONLY <1>5 DEF ViewParts
<1>8. But(q, {})
  BY <1>2, <1>5, <1>6, <1>7 DEF But
<1>9. Pids(q)
  BY ONLY <1>2, <1>6, <1>7 DEF Pids
<1>10. "health" \in Timers
  BY DEF Timers
<1> DEFINE s == Restarted(q, "health")
<1>11. But(s, {}) /\ Keeps(q, s) /\ s.t["health"] > 0
  BY ONLY <1>8, <1>10, RestartedGoesOn
<1> HIDE DEF s
<1>12. CASE view.stale /\ ~view.visible
  <2>1. r = s
    BY <1>12 DEF r, s
  <2>2. Pids(s) /\ s.l = q.l /\ s.d = q.d /\ s.m.desktop = q.m.desktop /\ s.m.reading = q.m.reading
    <3>1. s.l = q.l
      BY <1>8, <1>10, RestartedGoesOn DEF s
    <3> QED BY <1>9, <1>11, <3>1 DEF Keeps
  <2>3. Current(s)
    <3>1. Shown(s)
      BY <1>11 DEF Shown
    <3>2. Needed(s.m, s.d.cfg) = Needed(o.m, o.d.cfg) /\ s.l = o.l /\ s.d = o.d
      BY <1>6, <2>2 DEF Needed
    <3> QED BY <1>2, <3>1, <3>2 DEF Current, Reports
  <2> QED BY <1>1, <1>11, <2>1, <2>2, <2>3, OverviewBecomesWell
<1>13. CASE ~(view.stale /\ ~view.visible)
  <2>1. r = q
    BY <1>13 DEF r
  <2>2. Reports(o) => Reports(q)
    BY <1>6 DEF Reports
  <2>3. Shown(o) => Shown(q)
    BY <1>2, <1>6, <1>7, <1>13 DEF Shown
  <2>4. Current(q)
    BY <1>2, <1>6, <2>2, <2>3 DEF Current
  <2> QED BY <1>1, <1>8, <1>9, <2>1, <2>4, OverviewBecomesWell
<1> QED BY <1>12, <1>13

\* Run as administrator is asked for.
LEMMA ClickAdministratorWell ==
  ASSUME OverviewInv, ClickAdministrator
  PROVE  OverviewInv'
<1> DEFINE o   == AsOverview
           yes == TRUE
           q   == [o EXCEPT !.v.administrator = yes]
           r   == After(q, "administrator")
<1>1. OverviewBecomes(r)
  BY DEF ClickAdministrator
<1>2. /\ But(o, {}) /\ "administrator" \in Timers /\ yes \in BOOLEAN /\ yes /\ o = AsOverview
  BY DEF OverviewInv, Timers
<1> HIDE DEF o, yes
<1>3. Whole(o)
  BY <1>2 DEF But
<1>4. /\ Whole(q) /\ \A j \in OverviewParts \ {"v"} : q[j] = o[j]
      /\ \A j \in ViewParts \ {"administrator"} : q.v[j] = o.v[j]
  BY ONLY <1>2, <1>3 DEF Whole, OverviewParts, ViewParts, LinkParts, DaemonParts, Flags
<1> HIDE DEF q
<1>5. Keeps(o, q)
  BY ONLY <1>4, ViewKeeps DEF ViewParts
<1>6. q.l = o.l /\ q.t = o.t
  BY ONLY <1>4 DEF OverviewParts
<1>7. /\ q.v.checking = o.v.checking /\ q.v.restarting = o.v.restarting
      /\ q.v.checkOn = o.v.checkOn /\ q.v.restartOn = o.v.restartOn
      /\ q.v.fixing = o.v.fixing /\ q.v.fixAllOn = o.v.fixAllOn
  BY ONLY <1>4 DEF ViewParts
<1>8. /\ Whole(r) /\ \A j \in OverviewParts \ {"t"} : r[j] = q[j]
      /\ r.t["administrator"] > 0 /\ \A t \in Timers : t # "administrator" => r.t[t] = q.t[t]
      /\ Keeps(q, r)
  BY ONLY <1>2, <1>4, AfterIsWhole
<1> HIDE DEF r
<1>9. r.v = q.v /\ r.l = q.l
  BY ONLY <1>8 DEF OverviewParts
<1>10. But(r, {})
  BY <1>2, <1>6, <1>7, <1>8, <1>9 DEF But, Timers
<1>11. Keeps(o, r)
  BY ONLY <1>5, <1>8, KeepsTwice
<1> QED BY <1>1, <1>2, <1>10, <1>11, KeptWell

-----------------------------------------------------------------------------
(* Daemons come and go.                                                    *)

\* A record of the same parts is what callbacks take, too.
LEMMA WholeAgain ==
  ASSUME NEW o, Whole(o), NEW r, r = [k \in OverviewParts |-> r[k]], r.n = o.n, r.t = o.t,
         r.v = o.v, r.l = o.l, r.d = [k \in DaemonParts |-> r.d[k]], Findable(r.m)
  PROVE  Whole(r)
BY DEF Whole

\* One that comes reads its settings.
LEMMA ReadsSettingsWell ==
  ASSUME OverviewInv, ReadsSettings
  PROVE  OverviewInv'
<1> DEFINE o == AsOverview
<1>1. PICK c \in coming :
        OverviewBecomes([o EXCEPT !.c = (@ \ {c}) \cup {[c EXCEPT !.read = TRUE, !.cfg = saved]}])
  BY Zenon DEF ReadsSettings
<1> DEFINE b == [c EXCEPT !.read = TRUE, !.cfg = saved]
           s == (coming \ {c}) \cup {b}
           r == [o EXCEPT !.c = s]
<1>2. OverviewBecomes(r)
  <2>1. o.c = coming
    BY DEF AsOverview
  <2> QED BY <1>1, <2>1
<1>3. /\ But(o, {}) /\ Pids(o) /\ Current(o) /\ o.c = coming
  BY DEF OverviewInv, AsOverview
<1>4. b.pid = c.pid /\ b = [k \in ComingParts |-> b[k]]
  <2> HIDE DEF o
  <2>1. \A x \in coming : x = [k \in ComingParts |-> x[k]]
    BY <1>3 DEF Pids
  <2>2. c \in coming
    BY ONLY <1>1
  <2>3. c = [k \in ComingParts |-> c[k]]
    BY ONLY <2>1, <2>2
  <2> QED BY ONLY <2>3 DEF ComingParts
<1> HIDE DEF o, b, r
<1>5. /\ r = [k \in OverviewParts |-> r[k]] /\ r.c = s
      /\ \A j \in OverviewParts \ {"c"} : r[j] = o[j]
  <2>1. o = [k \in OverviewParts |-> o[k]]
    BY <1>3 DEF But, Whole
  <2> HIDE DEF s
  <2> QED BY ONLY <2>1 DEF OverviewParts, r
<1>6. r.v = o.v /\ r.t = o.t /\ r.l = o.l /\ r.d = o.d /\ r.n = o.n /\ r.m = o.m
  BY ONLY <1>5 DEF OverviewParts
<1>7. Whole(r)
  <2>1. Whole(o)
    BY <1>3 DEF But
  <2>2. o.d = [k \in DaemonParts |-> o.d[k]] /\ Findable(o.m)
    BY ONLY <2>1 DEF Whole
  <2>3. r.d = [k \in DaemonParts |-> r.d[k]] /\ Findable(r.m)
    BY ONLY <1>6, <2>2
  <2> QED BY ONLY <1>5, <1>6, <2>1, <2>3, WholeAgain
<1>8. But(r, {})
  BY <1>3, <1>6, <1>7 DEF But
<1>9. Pids(r)
  <2>1. Pids(o) /\ o.c = coming /\ r.c = (coming \ {c}) \cup {b} /\ c \in coming
    BY ONLY <1>1, <1>3, <1>5 DEF s
  <2> QED BY ONLY <1>4, <1>6, <2>1 DEF Pids
<1>10. Current(r)
  BY <1>3, <1>6 DEF Current, Reports, Shown
<1> QED BY <1>2, <1>8, <1>9, <1>10, OverviewBecomesWell

\* A daemon that is another, or none: nothing it says is shown.
LEMMA AnotherDaemon ==
  ASSUME OverviewInv, NEW r, OverviewBecomes(r), r = [k \in OverviewParts |-> r[k]],
         r.v = view, r.t = timers, r.l = link, r.n = started, r.c \subseteq coming,
         r.d = [k \in DaemonParts |-> r.d[k]], Findable(r.m),
         \/ r.d.pid = 0
         \/ \E c \in coming : r.d.pid = c.pid /\ c \notin r.c
  PROVE  OverviewInv'
<1> DEFINE o == AsOverview
<1>1. /\ But(o, {}) /\ Pids(o) /\ o.c = coming /\ o.v = view /\ o.t = timers /\ o.l = link
      /\ o.n = started
  BY DEF OverviewInv, AsOverview
<1> HIDE DEF o
<1>2. Whole(o) /\ o.n \in Nat
  BY <1>1 DEF But, Whole
<1>3. Whole(r)
  BY <1>1, <1>2, WholeAgain
<1>4. But(r, {})
  BY <1>1, <1>3 DEF But
<1>5. Pids(r) /\ (r.d.pid # 0 => r.l.to # r.d.pid)
  BY <1>1, <1>2 DEF Pids
<1>6. Current(r)
  BY <1>5 DEF Current
<1> QED BY <1>4, <1>5, <1>6, OverviewBecomesWell

\* It takes over.
LEMMA TakesOverWell ==
  ASSUME OverviewInv, TakesOver
  PROVE  OverviewInv'
<1> DEFINE o == AsOverview
<1>1. PICK c \in coming :
        OverviewBecomes([o EXCEPT
          !.c = @ \ {c}, !.m.others = FALSE, !.m.replaced = FALSE,
          !.d = [pid |-> c.pid, cfg |-> c.cfg, runtime |-> c.runtime, hung |-> FALSE]])
  BY Zenon DEF TakesOver
<1> DEFINE others == o.c \ {c}
           d  == [pid |-> c.pid, cfg |-> c.cfg, runtime |-> c.runtime, hung |-> FALSE]
           q1 == [o EXCEPT !.c = others]
           f  == [o.m EXCEPT !.others = FALSE]
           q2 == [q1 EXCEPT !.m = f]
           m  == [f EXCEPT !.replaced = FALSE]
           q3 == [q2 EXCEPT !.m = m]
           r  == [q3 EXCEPT !.d = d]
<1>2. /\ o.c = coming /\ o.v = view /\ o.t = timers /\ o.l = link /\ o.n = started
      /\ o.m = machine
  BY DEF AsOverview
<1>3. o = [k \in OverviewParts |-> o[k]] /\ Findable(o.m)
  BY DEF OverviewInv, But, Whole
<1>4. d.pid = c.pid /\ d = [k \in DaemonParts |-> d[k]]
  BY DEF DaemonParts
<1>0. o = AsOverview
  OBVIOUS
<1> HIDE DEF o, d, others
<1>5. Findable(f)
  BY ONLY <1>3, FindableKept
<1>6. Findable(m)
  <2> HIDE DEF f
  <2> QED BY ONLY <1>5, FindableKept
<1> HIDE DEF m
<1>7. /\ q1 = [k \in OverviewParts |-> q1[k]] /\ q1.c = others
      /\ \A j \in OverviewParts \ {"c"} : q1[j] = o[j]
  BY ONLY <1>3 DEF OverviewParts
<1>8. [o EXCEPT
          !.c = @ \ {c}, !.m.others = FALSE, !.m.replaced = FALSE,
          !.d = [pid |-> c.pid, cfg |-> c.cfg, runtime |-> c.runtime, hung |-> FALSE]] = r
  <2> DEFINE p2 == [q1 EXCEPT !.m.others = FALSE]
             p3 == [p2 EXCEPT !.m.replaced = FALSE]
  <2>1. [o EXCEPT
          !.c = @ \ {c}, !.m.others = FALSE, !.m.replaced = FALSE,
          !.d = [pid |-> c.pid, cfg |-> c.cfg, runtime |-> c.runtime, hung |-> FALSE]]
          = [p3 EXCEPT !.d = d]
    BY DEF d, others
  <2> HIDE DEF q1
  <2>2. q1.m = o.m
    BY ONLY <1>7 DEF OverviewParts
  <2>3. p2 = q2
    BY <2>2
  <2>4. q2.m = f
    <3> HIDE DEF f
    <3> QED BY <1>7 DEF OverviewParts
  <2> HIDE DEF p2, q2, f
  <2>5. p3 = q3
    BY <2>3, <2>4 DEF m
  <2> HIDE DEF p3, q3
  <2> QED BY ONLY <2>1, <2>5
<1> HIDE DEF q1, f
<1>9. /\ q2 = [k \in OverviewParts |-> q2[k]] /\ q2.c = others
      /\ \A j \in OverviewParts \ {"c", "m"} : q2[j] = o[j]
  BY ONLY <1>7 DEF OverviewParts
<1> HIDE DEF q2
<1>10. /\ q3 = [k \in OverviewParts |-> q3[k]] /\ q3.c = others /\ q3.m = m
       /\ \A j \in OverviewParts \ {"c", "m"} : q3[j] = o[j]
  BY ONLY <1>9 DEF OverviewParts
<1> HIDE DEF q3
<1>11. /\ r = [k \in OverviewParts |-> r[k]] /\ r.c = others /\ r.m = m /\ r.d = d
       /\ \A j \in OverviewParts \ {"c", "m", "d"} : r[j] = o[j]
  BY ONLY <1>10 DEF OverviewParts
<1>12. OverviewBecomes(r)
  BY ONLY <1>1, <1>8
<1> HIDE DEF r
<1>13. /\ r.v = view /\ r.t = timers /\ r.l = link /\ r.n = started
  BY ONLY <1>2, <1>11 DEF OverviewParts
<1>14. r.c \subseteq coming /\ c \notin r.c
  BY ONLY <1>2, <1>11 DEF others
<1>15. r.d = [k \in DaemonParts |-> r.d[k]] /\ Findable(r.m) /\ r.d.pid = c.pid
  BY ONLY <1>4, <1>6, <1>11
<1> QED BY <1>11, <1>12, <1>13, <1>14, <1>15, AnotherDaemon

\* It ends.
LEMMA DaemonGoesWell ==
  ASSUME OverviewInv, DaemonGoes
  PROVE  OverviewInv'
<1> DEFINE o == AsOverview
           d == NoDaemon
           r == [o EXCEPT !.d = d]
<1>1. OverviewBecomes(r)
  BY DEF DaemonGoes
<1>2. /\ o.c = coming /\ o.v = view /\ o.t = timers /\ o.l = link /\ o.n = started
      /\ o.m = machine
  BY DEF AsOverview
<1>3. o = [k \in OverviewParts |-> o[k]] /\ Findable(o.m)
  BY DEF OverviewInv, But, Whole
<1>4. d.pid = 0 /\ d = [k \in DaemonParts |-> d[k]]
  BY DEF NoDaemon, DaemonParts
<1> HIDE DEF o, d
<1>5. /\ r = [k \in OverviewParts |-> r[k]] /\ r.d = d
      /\ \A j \in OverviewParts \ {"d"} : r[j] = o[j]
  BY ONLY <1>3 DEF OverviewParts
<1> HIDE DEF r
<1>6. /\ r.v = view /\ r.t = timers /\ r.l = link /\ r.n = started /\ r.c = coming
      /\ r.m = o.m
  BY ONLY <1>2, <1>5 DEF OverviewParts
<1>7. r.d = [k \in DaemonParts |-> r.d[k]] /\ Findable(r.m) /\ r.d.pid = 0
  BY ONLY <1>3, <1>4, <1>5, <1>6
<1> QED BY <1>1, <1>5, <1>6, <1>7, AnotherDaemon

\* Or hangs.
LEMMA HangsWell ==
  ASSUME OverviewInv, Hangs
  PROVE  OverviewInv'
<1> DEFINE o == AsOverview
           d == [o.d EXCEPT !.hung = TRUE]
           r == [o EXCEPT !.d = d]
<1>1. OverviewBecomes(r)
  BY DEF Hangs
<1>2. But(o, {}) /\ Pids(o) /\ Current(o)
  BY DEF OverviewInv
<1> HIDE DEF o
<1>3. d = [k \in DaemonParts |-> d[k]] /\ d.pid = o.d.pid /\ d.cfg = o.d.cfg
  BY <1>2 DEF But, Whole, DaemonParts
<1> HIDE DEF d
<1>4. /\ r = [k \in OverviewParts |-> r[k]] /\ r.d = d
      /\ \A j \in OverviewParts \ {"d"} : r[j] = o[j]
  BY <1>2 DEF But, Whole, OverviewParts
<1> HIDE DEF r
<1>5. r.v = o.v /\ r.t = o.t /\ r.l = o.l /\ r.c = o.c /\ r.n = o.n /\ r.m = o.m
  BY ONLY <1>4 DEF OverviewParts
<1>6. Whole(r)
  <2>1. Whole(o)
    BY <1>2 DEF But
  <2>2. Findable(o.m)
    BY ONLY <2>1 DEF Whole
  <2>3. r.d = [k \in DaemonParts |-> r.d[k]] /\ Findable(r.m)
    BY ONLY <1>3, <1>4, <1>5, <2>2
  <2> QED BY ONLY <1>4, <1>5, <2>1, <2>3, WholeAgain
<1>7. But(r, {})
  BY <1>2, <1>5, <1>6 DEF But
<1>8. Pids(r)
  BY <1>2, <1>3, <1>4, <1>5 DEF Pids
<1>9. Current(r)
  BY <1>2, <1>3, <1>4, <1>5 DEF Current, Reports, Shown, Needed
<1> QED BY <1>1, <1>7, <1>8, <1>9, OverviewBecomesWell

-----------------------------------------------------------------------------
(* The connection.                                                         *)

\* Only the connection changed.
LEMMA LinkIsWhole ==
  ASSUME NEW o, Whole(o), NEW l, l = [k \in LinkParts |-> l[k]]
  PROVE  LET r == [o EXCEPT !.l = l]
         IN /\ Whole(r) /\ r.l = l /\ \A j \in OverviewParts \ {"l"} : r[j] = o[j]
            /\ r.v = o.v /\ r.t = o.t /\ r.d = o.d /\ r.m = o.m /\ r.n = o.n /\ r.c = o.c
            /\ r.e = o.e
<1> DEFINE r == [o EXCEPT !.l = l]
<1>1. /\ r = [k \in OverviewParts |-> r[k]] /\ r.l = l /\ \A j \in OverviewParts \ {"l"} : r[j] = o[j]
  BY DEF Whole, OverviewParts
<1> HIDE DEF r
<1>2. r.v = o.v /\ r.t = o.t /\ r.d = o.d /\ r.m = o.m /\ r.n = o.n /\ r.c = o.c /\ r.e = o.e
  BY ONLY <1>1 DEF OverviewParts
<1>3. Whole(r)
  BY <1>1, <1>2 DEF Whole
<1> QED BY ONLY <1>1, <1>2, <1>3 DEF r

\* A call that is made, a timer that is started: nothing else of a callback that ends well.
LEMMA ConnectedWell ==
  ASSUME OverviewInv, Connected
  PROVE  OverviewInv'
<1> DEFINE o == AsOverview
           l == [o.l EXCEPT !.to = daemon.pid]
           q == [o EXCEPT !.l = l]
           a == Asking(q, "config.get", NoDaemon.cfg)
           t == After(a, "quiet")
<1>1. /\ link.to = 0 /\ daemon.pid # 0
      /\ OverviewBecomes(a) \/ OverviewBecomes(t)
  BY DEF Connected, LoadSettings, Asking, AsOverview
<1>2. /\ But(o, {}) /\ Pids(o) /\ o.l = link /\ o.d = daemon
  BY DEF OverviewInv, AsOverview
<1> HIDE DEF o
<1>3. Whole(o) /\ o.l = [k \in LinkParts |-> o.l[k]]
  BY <1>2 DEF But, Whole
<1>4. /\ l = [k \in LinkParts |-> l[k]] /\ l.to = daemon.pid /\ l.calls = o.l.calls
      /\ l.answers = o.l.answers /\ l.pending = o.l.pending
  BY <1>3 DEF LinkParts
<1> HIDE DEF l
<1>5. /\ Whole(q) /\ q.l = l /\ q.v = o.v /\ q.t = o.t /\ q.d = o.d /\ q.m = o.m /\ q.n = o.n
      /\ q.c = o.c
  BY ONLY <1>3, <1>4, LinkIsWhole
<1> HIDE DEF q
<1>6. /\ Numbered(o.l) /\ l.answers = <<>>
      /\ Numbered(l)
  BY <1>1, <1>2, <1>4 DEF But, Numbered
<1>7. But(q, {})
  BY <1>2, <1>4, <1>5, <1>6 DEF But
<1>8. Pids(q) /\ q.v.from # q.d.pid
  BY <1>1, <1>2, <1>4, <1>5 DEF Pids
<1>9. Current(q)
  BY <1>5, <1>6, <1>8 DEF Current, Reports, Shown
<1>10. "config.get" \in Waited /\ "quiet" \in Timers
  BY DEF Waited, Timers
<1>11. But(a, {}) /\ Keeps(q, a)
  BY ONLY <1>7, <1>10, AskWaits
<1> HIDE DEF a
<1>12. But(t, {}) /\ Keeps(a, t)
  BY ONLY <1>10, <1>11, AfterGoesOn
<1> HIDE DEF t
<1>13. Pids(a) /\ Current(a)
  BY ONLY <1>8, <1>9, <1>11, CurrentKept
<1>14. Pids(t) /\ Current(t)
  BY ONLY <1>12, <1>13, CurrentKept
<1> QED BY <1>1, <1>11, <1>12, <1>13, <1>14, OverviewBecomesWell

\* The connection ends: what waited is told so, and nothing of the daemon is shown as its own.
LEMMA DisconnectedWell ==
  ASSUME OverviewInv, Disconnected
  PROVE  OverviewInv'
<1> DEFINE o == AsOverview
           q == [o EXCEPT !.l = Unlinked]
           waited == \E p \in link.pending : p.what = "health"
           n == NoReport(q)
           f == IF waited THEN n ELSE q
           a == After(f, "recheck")
<1>1. /\ link.to # 0 /\ link.to # daemon.pid
      /\ \/ OverviewBecomes(f) \/ OverviewBecomes(a)
         \/ OverviewBecomes(After(f, "gone")) \/ OverviewBecomes(After(a, "gone"))
  BY DEF Disconnected
<1>2. /\ But(o, {}) /\ Pids(o) /\ o.l = link /\ o.d = daemon
  BY DEF OverviewInv, AsOverview
<1> HIDE DEF o
<1> DEFINE l == Unlinked
<1>3. /\ l = [k \in LinkParts |-> l[k]] /\ l.to = 0 /\ l.calls = <<>> /\ l.answers = <<>>
      /\ l.pending = {}
  BY DEF Unlinked, LinkParts
<1>4. /\ Whole(q) /\ q.l = l /\ q.v = o.v /\ q.t = o.t /\ q.d = o.d /\ q.m = o.m /\ q.n = o.n
      /\ q.c = o.c
  <2>1. Whole(o)
    BY <1>2 DEF But
  <2> HIDE DEF l
  <2> QED BY ONLY <1>3, <2>1, LinkIsWhole DEF l
<1> HIDE DEF q, l
<1>5. Numbered(l)
  <2>1. IsSeq(<<>>) /\ IsFiniteSet({})
    BY FS_EmptySet DEF IsSeq
  <2>2. DOMAIN <<>> = {}
    OBVIOUS
  <2>3. DOMAIN l.calls = {} /\ DOMAIN l.answers = {}
    BY ONLY <1>3, <2>2
  <2> QED BY ONLY <1>3, <2>1, <2>3 DEF Numbered
<1>6. But(q, {"checking"})
  BY <1>2, <1>4, <1>5 DEF But
<1>7. ~waited => But(q, {})
  BY <1>2, <1>4, <1>6 DEF But
<1>8. o.n \in Nat
  BY <1>2 DEF But, Whole
<1>9. Pids(q)
  BY <1>1, <1>2, <1>3, <1>4, <1>8 DEF Pids
<1>10. Current(q)
  BY <1>3, <1>4 DEF Current
<1>11. But(n, {}) /\ Keeps(q, n)
  <2> DEFINE from   == 0
             checks == LocalChecks(Checked(q)) \cup {Of("health", "error", "restart")}
             m      == ShowChecks(Checked(q), checks, from)
  <2>1. from = 0
    OBVIOUS
  <2> HIDE DEF from
  <2>2. But(m, {}) /\ (from = 0 => Keeps(q, m))
    <3> HIDE DEF checks
    <3> QED BY ONLY <1>6, ReportGoesOn
  <2>3. LocalChecks(Checked(q)) = LocalChecks(q)
    <3>1. Checked(q).m = q.m
      <4>1. Whole(q)
        BY <1>4
      <4>2. \A j \in OverviewParts \ {"v"} : Checked(q)[j] = q[j]
        BY ONLY <4>1, CheckedIsWhole
      <4> QED BY ONLY <4>2 DEF OverviewParts
    <3> QED BY <3>1 DEF LocalChecks
  <2>4. n = m
    BY <2>3 DEF NoReport, from
  <2> HIDE DEF m
  <2> QED BY ONLY <2>1, <2>2, <2>4
<1>12. Keeps(q, q)
  BY DEF Keeps
<1> HIDE DEF n, waited
<1>13. But(f, {}) /\ Keeps(q, f)
  BY ONLY <1>7, <1>11, <1>12
<1> HIDE DEF f
<1>14. "recheck" \in Timers /\ "gone" \in Timers
  BY DEF Timers
<1>15. But(a, {}) /\ Keeps(f, a)
  BY ONLY <1>13, <1>14, AfterGoesOn
<1> HIDE DEF a
<1>16. Keeps(q, a)
  BY ONLY <1>13, <1>15, KeepsTwice
<1> DEFINE fg == After(f, "gone")
           ag == After(a, "gone")
<1>17. But(fg, {}) /\ Keeps(f, fg) /\ But(ag, {}) /\ Keeps(a, ag)
  BY ONLY <1>13, <1>14, <1>15, AfterGoesOn
<1>18. OverviewBecomes(f) \/ OverviewBecomes(a) \/ OverviewBecomes(fg) \/ OverviewBecomes(ag)
  BY <1>1
<1> HIDE DEF fg, ag
<1>19. Keeps(q, fg) /\ Keeps(q, ag)
  BY ONLY <1>13, <1>16, <1>17, KeepsTwice
<1>20. /\ Pids(f) /\ Current(f) /\ Pids(a) /\ Current(a)
       /\ Pids(fg) /\ Current(fg) /\ Pids(ag) /\ Current(ag)
  BY ONLY <1>9, <1>10, <1>13, <1>16, <1>19, CurrentKept
<1> QED BY <1>13, <1>15, <1>17, <1>18, <1>20, OverviewBecomesWell

\* An answer or an event is read: nothing but that it waits no more.
LEMMA NextIsRead ==
  ASSUME NEW o, But(o, {}), o.l.answers # <<>>
  PROVE  LET l == [o.l EXCEPT !.answers = Tail(o.l.answers)]
             r == [o EXCEPT !.l = l]
         IN /\ But(r, {}) /\ r.l = l /\ r.v = o.v /\ r.t = o.t /\ r.d = o.d /\ r.m = o.m
            /\ r.n = o.n /\ r.c = o.c /\ r.e = o.e
            /\ l.to = o.l.to /\ l.calls = o.l.calls /\ l.pending = o.l.pending
            /\ Head(o.l.answers) = o.l.answers[1] /\ 1 \in DOMAIN o.l.answers
            /\ ToldAfter(o.l, 1) => ToldAfter(l, 0)
            /\ Reports(o) => Reports(r)
            /\ Shown(o) /\ o.l.answers[1].id # 0 =>
                 Shown(r) \/ \E p \in o.l.pending : p.id = o.l.answers[1].id /\ p.what = "health"
<1> DEFINE l == [o.l EXCEPT !.answers = Tail(o.l.answers)]
           r == [o EXCEPT !.l = l]
           k == Len(o.l.answers)
<1>1. Whole(o) /\ o.l = [j \in LinkParts |-> o.l[j]] /\ Numbered(o.l)
  BY DEF But, Whole
<1>2. /\ IsSeq(Tail(o.l.answers)) /\ k \in Nat \ {0} /\ DOMAIN o.l.answers = 1 .. k
      /\ Head(o.l.answers) = o.l.answers[1]
      /\ DOMAIN Tail(o.l.answers) = 1 .. k - 1
      /\ \A i \in 1 .. k - 1 : Tail(o.l.answers)[i] = o.l.answers[i + 1]
  BY <1>1, SeqShrinks DEF Numbered
<1> HIDE DEF k
<1>3. /\ l = [j \in LinkParts |-> l[j]] /\ l.to = o.l.to /\ l.calls = o.l.calls
      /\ l.answers = Tail(o.l.answers) /\ l.pending = o.l.pending
  BY <1>1 DEF LinkParts
<1> HIDE DEF l
<1>4. /\ Whole(r) /\ r.l = l /\ r.v = o.v /\ r.t = o.t /\ r.d = o.d /\ r.m = o.m /\ r.n = o.n
      /\ r.c = o.c /\ r.e = o.e
  BY ONLY <1>1, <1>3, LinkIsWhole
<1> HIDE DEF r
<1>5. /\ IsSeq(l.answers) /\ DOMAIN l.answers = 1 .. k - 1
      /\ \A i \in 1 .. k - 1 : l.answers[i] = o.l.answers[i + 1] /\ i + 1 \in DOMAIN o.l.answers
  <2>1. \A i \in 1 .. k - 1 : i + 1 \in 1 .. k
    BY ONLY <1>2
  <2>2. l.answers = Tail(o.l.answers)
    BY ONLY <1>3
  <2> QED BY ONLY <1>2, <2>1, <2>2
<1>6. Numbered(l)
  <2>1. o.l.to # 0
    BY <1>1 DEF Numbered
  <2>0. /\ Numbered(o.l) /\ l.to = o.l.to /\ l.calls = o.l.calls
        /\ l.pending = o.l.pending
    BY ONLY <1>1, <1>3
  <2>2. \A i \in DOMAIN l.answers : l.answers[i].id \in Nat
    BY ONLY <2>0, <1>5 DEF Numbered
  <2>3. \A p \in l.pending : \A i \in DOMAIN l.answers :
           l.answers[i].id = p.id => l.answers[i].what = p.what
    BY ONLY <2>0, <1>5 DEF Numbered
  <2>4. /\ IsSeq(l.calls) /\ IsFiniteSet(l.pending)
        /\ \A i \in DOMAIN l.calls : l.calls[i].id \in Nat \ {0} /\ l.calls[i].what \in Asks
        /\ \A p \in l.pending : p.id \in Nat \ {0} /\ p.what \in Waited
        /\ \A p, q \in l.pending : p.id = q.id => p = q
        /\ \A p \in l.pending : \A i \in DOMAIN l.calls :
             l.calls[i].id = p.id => l.calls[i].what = p.what
    BY ONLY <2>0 DEF Numbered
  <2> QED BY ONLY <2>0, <1>5, <2>1, <2>2, <2>3, <2>4 DEF Numbered
<1>7. But(r, {})
  BY <1>3, <1>4, <1>6 DEF But
<1>8. ASSUME NEW i \in Nat, ToldAfter(o.l, i + 1)
      PROVE  ToldAfter(l, i)
  <2>1. PICK j \in DOMAIN o.l.answers : j > i + 1 /\ o.l.answers[j].id = 0
    BY <1>8 DEF ToldAfter
  <2>2. j - 1 \in 1 .. k - 1 /\ j - 1 > i /\ (j - 1) + 1 = j
    BY <1>2, <2>1
  <2>3. l.answers[j - 1].id = 0
    BY <1>5, <2>1, <2>2
  <2> QED BY <1>5, <2>2, <2>3 DEF ToldAfter
<1>9. ToldAfter(o.l, 1) => ToldAfter(l, 0)
  <2>1. 0 \in Nat /\ 0 + 1 = 1
    OBVIOUS
  <2> QED BY <1>8, <2>1
<1>10. ASSUME Reports(o)
       PROVE  Reports(r)
  <2>1. SUFFICES ASSUME NEW i \in DOMAIN l.answers, l.answers[i].id # 0,
                        l.answers[i].what = "health"
                 PROVE  Offered(l.answers[i].arg) = Needed(o.m, o.d.cfg) \/ ToldAfter(l, i)
    BY <1>4 DEF Reports
  <2>2. l.answers[i] = o.l.answers[i + 1] /\ i + 1 \in DOMAIN o.l.answers /\ i \in Nat
    BY <1>2, <1>5
  <2>3. \/ Offered(o.l.answers[i + 1].arg) = Needed(o.m, o.d.cfg)
        \/ ToldAfter(o.l, i + 1)
    BY <1>10, <2>1, <2>2 DEF Reports
  <2> QED BY <1>8, <2>2, <2>3
<1>11. ASSUME Shown(o), o.l.answers[1].id # 0,
              \A p \in o.l.pending : p.id = o.l.answers[1].id => p.what # "health"
       PROVE  Shown(r)
  <2>1. ToldAfter(o.l, 0) => ToldAfter(l, 0)
    <3>1. SUFFICES ASSUME NEW j \in DOMAIN o.l.answers, j > 0, o.l.answers[j].id = 0
                   PROVE  ToldAfter(l, 0)
      BY DEF ToldAfter
    <3>2. j # 1
      BY <1>11, <3>1
    <3>3. j > 1
      BY <1>2, <3>1, <3>2
    <3> QED BY <1>9, <3>1, <3>3 DEF ToldAfter
  <2>2. Asked(o.l) => Asked(l)
    <3>1. SUFFICES ASSUME NEW p \in o.l.pending, p.what = "health",
                          \/ \E i \in DOMAIN o.l.calls : o.l.calls[i].id = p.id
                          \/ \E i \in DOMAIN o.l.answers : o.l.answers[i].id = p.id
                   PROVE  Asked(l)
      BY DEF Asked
    <3>2. CASE \E i \in DOMAIN o.l.calls : o.l.calls[i].id = p.id
      BY <1>3, <3>1, <3>2 DEF Asked
    <3>3. ASSUME NEW i \in DOMAIN o.l.answers, o.l.answers[i].id = p.id
          PROVE  Asked(l)
      <4>1. i # 1
        BY <1>11, <3>1, <3>3
      <4>2. i - 1 \in 1 .. k - 1 /\ (i - 1) + 1 = i
        BY <1>2, <4>1
      <4>3. l.answers[i - 1].id = p.id /\ i - 1 \in DOMAIN l.answers
        BY <1>5, <3>3, <4>2
      <4> QED BY <1>3, <3>1, <4>3 DEF Asked
    <3> QED BY <3>1, <3>2, <3>3
  <2> QED BY <1>4, <1>11, <2>1, <2>2 DEF Shown
<1>12. 1 \in DOMAIN o.l.answers /\ Head(o.l.answers) = o.l.answers[1]
  BY <1>2
<1> QED BY ONLY <1>3, <1>4, <1>7, <1>9, <1>10, <1>11, <1>12 DEF r, l

\* A call is not waited for any more: only a check under way may be left without its end.
LEMMA WaitsNoMore ==
  ASSUME NEW o, But(o, {}), NEW p \in o.l.pending
  PROVE  LET l == [o.l EXCEPT !.pending = o.l.pending \ {p}]
             r == [o EXCEPT !.l = l]
         IN /\ But(r, {"checking"}) /\ r.l = l /\ r.v = o.v /\ r.t = o.t /\ r.d = o.d /\ r.m = o.m
            /\ r.n = o.n /\ r.c = o.c /\ r.e = o.e
            /\ l.to = o.l.to /\ l.calls = o.l.calls /\ l.answers = o.l.answers
            /\ Reports(o) => Reports(r)
            /\ p.what # "health" => But(r, {}) /\ (Shown(o) => Shown(r))
<1> DEFINE l == [o.l EXCEPT !.pending = o.l.pending \ {p}]
           r == [o EXCEPT !.l = l]
<1>1. Whole(o) /\ o.l = [j \in LinkParts |-> o.l[j]] /\ Numbered(o.l)
  BY DEF But, Whole
<1>2. /\ l = [j \in LinkParts |-> l[j]] /\ l.to = o.l.to /\ l.calls = o.l.calls
      /\ l.answers = o.l.answers /\ l.pending = o.l.pending \ {p}
  BY <1>1 DEF LinkParts
<1> HIDE DEF l
<1>3. /\ Whole(r) /\ r.l = l /\ r.v = o.v /\ r.t = o.t /\ r.d = o.d /\ r.m = o.m /\ r.n = o.n
      /\ r.c = o.c /\ r.e = o.e
  BY ONLY <1>1, <1>2, LinkIsWhole
<1> HIDE DEF r
<1>4. Numbered(l)
  <2>1. IsFiniteSet(o.l.pending \ {p})
    BY <1>1, FS_Difference DEF Numbered
  <2>2. /\ l.pending \subseteq o.l.pending
        /\ Numbered(o.l) /\ l.to = o.l.to /\ l.calls = o.l.calls /\ l.answers = o.l.answers
    BY ONLY <1>1, <1>2
  <2>3. /\ \A x \in l.pending : x.id \in Nat \ {0} /\ x.what \in Waited
        /\ \A x, y \in l.pending : x.id = y.id => x = y
        /\ \A x \in l.pending :
             /\ \A i \in DOMAIN l.calls : l.calls[i].id = x.id => l.calls[i].what = x.what
             /\ \A i \in DOMAIN l.answers : l.answers[i].id = x.id => l.answers[i].what = x.what
    BY ONLY <2>2 DEF Numbered
  <2>4. o.l.to # 0
    BY ONLY <1>1, p \in o.l.pending DEF Numbered
  <2>5. /\ IsSeq(l.calls) /\ IsSeq(l.answers)
        /\ \A i \in DOMAIN l.calls : l.calls[i].id \in Nat \ {0} /\ l.calls[i].what \in Asks
        /\ \A i \in DOMAIN l.answers : l.answers[i].id \in Nat
    BY ONLY <2>2 DEF Numbered
  <2>6. IsFiniteSet(l.pending) /\ l.to # 0
    BY ONLY <1>2, <2>1, <2>4
  <2> QED BY ONLY <2>3, <2>5, <2>6 DEF Numbered
<1>5. But(r, {"checking"})
  BY <1>3, <1>4 DEF But
<1>6. ASSUME p.what # "health"
      PROVE  But(r, {})
  <2>1. o.v.checking => \E x \in l.pending : x.what = "health"
    BY <1>2, <1>6 DEF But
  <2> QED BY <1>3, <1>4, <2>1 DEF But
<1>7. Reports(o) => Reports(r)
  BY <1>2, <1>3 DEF Reports, ToldAfter
<1>8. ASSUME p.what # "health", Shown(o)
      PROVE  Shown(r)
  <2>1. ToldAfter(o.l, 0) => ToldAfter(l, 0)
    BY <1>2 DEF ToldAfter
  <2>2. Asked(o.l) => Asked(l)
    BY <1>2, <1>8 DEF Asked
  <2> QED BY <1>3, <1>8, <2>1, <2>2 DEF Shown
<1> QED BY ONLY <1>2, <1>3, <1>5, <1>6, <1>7, <1>8 DEF r, l

\* What is noticed is checked again, at once or when the page is shown.
LEMMA NoticedGoesOn ==
  ASSUME NEW o, But(o, {}), Pids(o), o.l.to # 0 /\ o.l.to = o.d.pid => Reports(o)
  PROVE  But(Noticed(o), {}) /\ Pids(Noticed(o)) /\ Current(Noticed(o))
<1> DEFINE s == Restarted(o, "health")
           q == [o EXCEPT !.v.stale = TRUE]
<1>1. Noticed(o) = IF o.v.visible THEN s ELSE q
  BY DEF Noticed
<1>2. CASE o.v.visible
  <2> DEFINE timer == "health"
             r     == Restarted(o, timer)
  <2>1. timer \in Timers
    BY DEF Timers
  <2>2. s = r
    OBVIOUS
  <2> HIDE DEF s, timer
  <2>3. But(r, {}) /\ Keeps(o, r) /\ r.t[timer] > 0
    BY ONLY But(o, {}), <2>1, RestartedGoesOn
  <2> HIDE DEF r
  <2>4. Shown(r)
    BY <2>3 DEF Shown, timer
  <2>5. Pids(r)
    BY <2>3 DEF Keeps
  <2>6. r.l.to # 0 /\ r.l.to = r.d.pid => Reports(r)
    <3>1. r.l.to = o.l.to /\ r.d = o.d
      BY <2>3 DEF Keeps
    <3> QED BY <2>3, <3>1, KeepsCurrent
  <2> QED BY <1>1, <1>2, <2>2, <2>3, <2>4, <2>5, <2>6 DEF Current
<1>3. CASE ~o.v.visible
  <2> HIDE DEF s
  <2>1. Whole(o)
    BY DEF But
  <2>2. /\ Whole(q) /\ \A j \in OverviewParts \ {"v"} : q[j] = o[j]
        /\ q.v.stale = TRUE
        /\ \A j \in ViewParts \ {"stale"} : q.v[j] = o.v[j]
    BY ONLY <2>1 DEF Whole, OverviewParts, ViewParts, LinkParts, DaemonParts, Flags
  <2> HIDE DEF q
  <2>3. q.l = o.l /\ q.t = o.t /\ q.d = o.d /\ q.m = o.m /\ q.n = o.n /\ q.c = o.c
    BY ONLY <2>2 DEF OverviewParts
  <2>4. /\ q.v.checking = o.v.checking /\ q.v.restarting = o.v.restarting
        /\ q.v.checkOn = o.v.checkOn /\ q.v.restartOn = o.v.restartOn
        /\ q.v.administrator = o.v.administrator /\ q.v.fixing = o.v.fixing
        /\ q.v.fixAllOn = o.v.fixAllOn /\ q.v.from = o.v.from /\ q.v.checks = o.v.checks
        /\ q.v.visible = o.v.visible
    BY ONLY <2>2 DEF ViewParts
  <2>5. But(q, {})
    BY <2>2, <2>3, <2>4 DEF But
  <2>6. Pids(q)
    BY ONLY Pids(o), <2>3, <2>4 DEF Pids
  <2>7. Shown(q)
    BY <1>3, <2>2, <2>4 DEF Shown
  <2>8. Reports(o) => Reports(q)
    BY <2>3 DEF Reports
  <2>9. Current(q)
    BY <2>3, <2>7, <2>8 DEF Current
  <2> QED BY <1>1, <1>3, <2>5, <2>6, <2>9
<1> QED BY <1>2, <1>3

\* An event of the daemon.
LEMMA EventGoesOn ==
  ASSUME NEW o, But(o, {}), Pids(o), o.l.to # 0 /\ o.l.to = o.d.pid => Reports(o),
         NEW message, NEW r \in Event(o, message)
  PROVE  But(r, {}) /\ Pids(r) /\ Current(r)
<1> DEFINE e == [o.e EXCEPT !.cfg.paused = message.arg]
           q == [o EXCEPT !.e = e]
           a == Asking(o, "config.get", NoDaemon.cfg)
<1>1. r = Noticed(q) \/ r = Noticed(o) \/ r = Noticed(a)
  BY DEF Event, LoadSettings, Asking
<1>2. But(o, {})
  OBVIOUS
<1>3. But(q, {}) /\ Keeps(o, q)
  <2> HIDE DEF e
  <2>1. Whole(o)
    BY DEF But
  <2>2. OnlySettings(o, q)
    BY ONLY <2>1, PushesLater
  <2> HIDE DEF q
  <2> QED BY ONLY <1>2, <2>2, SettingsGoOn
<1> HIDE DEF q
<1>4. But(a, {}) /\ Keeps(o, a)
  <2>1. "config.get" \in Waited
    BY DEF Waited
  <2> QED BY ONLY <1>2, <2>1, AskWaits
<1> HIDE DEF a
<1>5. ASSUME NEW b, But(b, {}), Keeps(o, b)
      PROVE  But(Noticed(b), {}) /\ Pids(Noticed(b)) /\ Current(Noticed(b))
  <2>1. Pids(b) /\ b.l.to = o.l.to /\ b.d = o.d
    BY <1>5 DEF Keeps
  <2>2. b.l.to # 0 /\ b.l.to = b.d.pid => Reports(b)
    BY <1>5, <2>1, KeepsCurrent
  <2> QED BY ONLY <1>5, <2>1, <2>2, NoticedGoesOn
<1>6. Keeps(o, o)
  BY DEF Keeps
<1> QED BY ONLY <1>1, <1>2, <1>3, <1>4, <1>5, <1>6

\* The answer of a call that waited. What is shown of a report is as the settings were when the
\* daemon answered, unless a change is told after it.
LEMMA ReplyGoesOn ==
  ASSUME NEW o, But(o, {"checking"}), Pids(o), NEW message, message.what \in Waited,
         message.what # "health" => But(o, {}),
         o.l.to # 0 /\ o.l.to = o.d.pid =>
           /\ Reports(o)
           /\ message.what # "health" => Shown(o)
           /\ message.what = "health" =>
                Offered(message.arg) = Needed(o.m, o.d.cfg) \/ ToldAfter(o.l, 0)
  PROVE  But(Reply(o, message), {}) /\ Pids(Reply(o, message)) /\ Current(Reply(o, message))
<1> DEFINE r == Reply(o, message)
<1>1. CASE message.what = "health"
  <2> DEFINE from   == o.l.to
             checks == message.arg
             m      == ShowChecks(Checked(o), checks, from)
  <2>1. r = m
    BY <1>1 DEF Reply, ReportComes
  <2> HIDE DEF from, checks
  <2>2. /\ But(m, {}) /\ m.v.checks = checks /\ m.v.from = from
        /\ \A j \in OverviewParts \ {"v"} : m[j] = o[j]
    BY ONLY But(o, {"checking"}), ReportGoesOn
  <2> HIDE DEF m
  <2>3. m.l = o.l /\ m.t = o.t /\ m.d = o.d /\ m.m = o.m /\ m.n = o.n /\ m.c = o.c
    BY ONLY <2>2 DEF OverviewParts
  <2>4. Pids(m)
    BY <2>2, <2>3 DEF Pids, from
  <2>5. Reports(o) => Reports(m)
    BY <2>3 DEF Reports
  <2>6. m.l.to # 0 /\ m.l.to = m.d.pid => Shown(m)
    BY <1>1, <2>2, <2>3 DEF Shown, checks
  <2>7. Current(m)
    BY <2>3, <2>5, <2>6 DEF Current
  <2> QED BY <2>1, <2>2, <2>4, <2>7
<1>2. ASSUME message.what # "health", But(r, {}), Keeps(o, r)
      PROVE  But(r, {}) /\ Pids(r) /\ Current(r)
  <2>1. Current(o)
    BY <1>2 DEF Current
  <2> HIDE DEF r
  <2> QED BY <1>2, <2>1, CurrentKept
<1>3. CASE message.what = "status"
  <2>1. But(o, {}) /\ message.what # "health"
    BY <1>3
  <2> DEFINE pid == o.l.to
             m   == StatusPolled(o, pid)
  <2>2. r = m
    BY <1>3 DEF Reply
  <2> HIDE DEF pid
  <2>3. But(m, {}) /\ Keeps(o, m)
    BY ONLY <2>1, StatusGoesOn
  <2> QED BY ONLY <1>2, <2>1, <2>2, <2>3
<1>4. CASE message.what = "config.get"
  <2>1. But(o, {}) /\ message.what # "health" /\ Whole(o)
    BY <1>4 DEF But
  <2> DEFINE cfg == message.arg
             m   == SettingsLoaded(o, cfg)
  <2>2. r = m
    BY <1>4 DEF Reply
  <2> HIDE DEF cfg
  <2>3. OnlySettings(o, m)
    BY ONLY <2>1, SettingsLoadedIsWhole
  <2> HIDE DEF m
  <2>4. But(m, {}) /\ Keeps(o, m)
    BY ONLY <2>1, <2>3, SettingsGoOn
  <2> QED BY ONLY <1>2, <2>1, <2>2, <2>4
<1>5. CASE message.what = "scan.pause"
  <2>1. But(o, {}) /\ message.what # "health"
    BY <1>5
  <2> DEFINE timer == "recheck"
             m     == After(o, timer)
  <2>2. r = m
    BY <1>5 DEF Reply
  <2>3. timer \in Timers
    BY DEF Timers
  <2> HIDE DEF timer
  <2>4. But(m, {}) /\ Keeps(o, m)
    BY ONLY <2>1, <2>3, AfterGoesOn
  <2> QED BY ONLY <1>2, <2>1, <2>2, <2>4
<1> QED BY <1>1, <1>3, <1>4, <1>5 DEF Waited

\* What the daemon said is read.
LEMMA ReadMessageWell ==
  ASSUME OverviewInv, ReadMessage
  PROVE  OverviewInv'
<1> DEFINE o == AsOverview
           l == [o.l EXCEPT !.answers = Tail(o.l.answers)]
           q == [o EXCEPT !.l = l]
           message == Head(o.l.answers)
           waits   == {p \in o.l.pending : p.id = message.id}
           k == [q.l EXCEPT !.pending = q.l.pending \ waits]
           b == [q EXCEPT !.l = k]
<1>1. /\ But(o, {}) /\ Pids(o) /\ Current(o) /\ o.l = link
  BY DEF OverviewInv, AsOverview
<1>2. /\ o.l.answers # <<>>
      /\ IF message.id = 0 THEN \E then \in Event(q, message) : OverviewBecomes(then)
         ELSE IF waits = {} THEN OverviewBecomes(q)
         ELSE OverviewBecomes(Reply(b, message))
  <2>1. [AsOverview EXCEPT !.l.answers = Tail(@)] = q
    BY DEF AsOverview
  <2>2. [q EXCEPT !.l.pending = @ \ waits] = b
    BY DEF q, l, AsOverview
  <2>3. o.l = link
    BY DEF AsOverview
  <2> HIDE DEF q, b, o
  <2> QED BY <2>1, <2>2, <2>3 DEF ReadMessage
<1> HIDE DEF o
<1>3. /\ But(q, {}) /\ q.l = l /\ q.v = o.v /\ q.t = o.t /\ q.d = o.d /\ q.m = o.m
      /\ q.n = o.n /\ q.c = o.c
      /\ l.to = o.l.to /\ l.calls = o.l.calls /\ l.pending = o.l.pending
      /\ message = o.l.answers[1] /\ 1 \in DOMAIN o.l.answers
      /\ ToldAfter(o.l, 1) => ToldAfter(l, 0)
      /\ Reports(o) => Reports(q)
      /\ Shown(o) /\ o.l.answers[1].id # 0 =>
           Shown(q) \/ \E p \in o.l.pending : p.id = o.l.answers[1].id /\ p.what = "health"
  BY ONLY <1>1, <1>2, NextIsRead
<1> HIDE DEF l, q, message
<1>4. Pids(q)
  BY ONLY <1>1, <1>3 DEF Pids
<1>5. q.l.to # 0 /\ q.l.to = q.d.pid => Reports(q) /\ Reports(o) /\ Shown(o)
  BY ONLY <1>1, <1>3 DEF Current
<1>6. CASE message.id = 0
  <2>1. PICK then \in Event(q, message) : OverviewBecomes(then)
    BY <1>2, <1>6
  <2>2. But(then, {}) /\ Pids(then) /\ Current(then)
    BY ONLY <1>3, <1>4, <1>5, <2>1, EventGoesOn
  <2> QED BY <2>1, <2>2, OverviewBecomesWell
<1>7. CASE message.id # 0 /\ waits = {}
  <2>1. Current(q)
    BY ONLY <1>3, <1>5, <1>7 DEF Current, waits
  <2> QED BY <1>2, <1>3, <1>4, <1>7, <2>1, OverviewBecomesWell
<1>8. CASE message.id # 0 /\ waits # {}
  <2>1. PICK p \in o.l.pending : p.id = message.id
    BY <1>8 DEF waits
  <2>2. waits = {p} /\ message.what = p.what /\ p.what \in Waited
    <3>1. Numbered(o.l)
      BY <1>1 DEF But
    <3> QED BY ONLY <1>3, <2>1, <3>1 DEF Numbered, waits
  <2> DEFINE k1 == [q.l EXCEPT !.pending = q.l.pending \ {p}]
             b1 == [q EXCEPT !.l = k1]
  <2>3. b = b1
    BY <2>2
  <2>4. p \in q.l.pending
    BY <1>3, <2>1
  <2>5. /\ But(b1, {"checking"}) /\ b1.l = k1 /\ b1.v = q.v /\ b1.t = q.t /\ b1.d = q.d
        /\ b1.m = q.m /\ b1.n = q.n /\ b1.c = q.c
        /\ k1.to = q.l.to /\ k1.calls = q.l.calls /\ k1.answers = q.l.answers
        /\ Reports(q) => Reports(b1)
        /\ p.what # "health" => But(b1, {}) /\ (Shown(q) => Shown(b1))
    BY ONLY <1>3, <2>4, WaitsNoMore
  <2> HIDE DEF k1, b1
  <2>6. Pids(b1)
    BY ONLY <1>4, <2>5 DEF Pids
  <2>7. ASSUME b1.l.to # 0, b1.l.to = b1.d.pid
        PROVE  /\ Reports(b1)
               /\ message.what # "health" => Shown(b1)
               /\ message.what = "health" =>
                    Offered(message.arg) = Needed(b1.m, b1.d.cfg) \/ ToldAfter(b1.l, 0)
    <3>1. Reports(q) /\ Reports(o) /\ Shown(o)
      BY ONLY <1>3, <1>5, <2>5, <2>7
    <3>2. message.what = "health" =>
            Offered(message.arg) = Needed(o.m, o.d.cfg) \/ ToldAfter(o.l, 1)
      BY ONLY <1>3, <1>8, <3>1 DEF Reports
    <3>3. ToldAfter(l, 0) => ToldAfter(b1.l, 0)
      BY ONLY <1>3, <2>5 DEF ToldAfter
    <3>4. message.what # "health" => Shown(q)
      <4>1. \A x \in o.l.pending : x.id = o.l.answers[1].id => x = p
        BY ONLY <1>3, <2>2 DEF waits
      <4> QED BY ONLY <1>3, <1>8, <2>2, <3>1, <4>1
    <3> QED BY ONLY <1>3, <2>2, <2>5, <3>1, <3>2, <3>3, <3>4
  <2>8. message.what # "health" => But(b1, {})
    BY ONLY <2>2, <2>5
  <2>9. message.what \in Waited
    BY ONLY <2>2
  <2> DEFINE r == Reply(b1, message)
  <2>10. But(r, {}) /\ Pids(r) /\ Current(r)
    BY ONLY <2>5, <2>6, <2>7, <2>8, <2>9, ReplyGoesOn
  <2>11. OverviewBecomes(r)
    BY <1>2, <1>8, <2>3
  <2> HIDE DEF r
  <2> QED BY <2>10, <2>11, OverviewBecomesWell
<1> QED BY <1>6, <1>7, <1>8

\* A check that failed: the page tells what it can without the daemon.
LEMMA NoReportGoesOn ==
  ASSUME NEW o, But(o, {"checking"})
  PROVE  But(NoReport(o), {}) /\ Keeps(o, NoReport(o)) /\ NoReport(o).v.from = 0
<1> DEFINE from   == 0
           checks == LocalChecks(Checked(o)) \cup {Of("health", "error", "restart")}
           m      == ShowChecks(Checked(o), checks, from)
<1>1. from = 0
  OBVIOUS
<1> HIDE DEF from
<1>2. But(m, {}) /\ m.v.from = from /\ (from = 0 => Keeps(o, m))
  <2> HIDE DEF checks
  <2> QED BY ONLY But(o, {"checking"}), ReportGoesOn
<1>3. LocalChecks(Checked(o)) = LocalChecks(o)
  <2>1. Whole(o)
    BY DEF But
  <2>2. \A j \in OverviewParts \ {"v"} : Checked(o)[j] = o[j]
    BY ONLY <2>1, CheckedIsWhole
  <2>3. Checked(o).m = o.m
    BY ONLY <2>2 DEF OverviewParts
  <2> QED BY <2>3 DEF LocalChecks
<1>4. NoReport(o) = m
  BY <1>3 DEF NoReport, from
<1> HIDE DEF m
<1> QED BY ONLY <1>1, <1>2, <1>4

\* A call was waited for too long.
LEMMA CallTimesOutWell ==
  ASSUME OverviewInv, CallTimesOut
  PROVE  OverviewInv'
<1> DEFINE o == AsOverview
           Q(p) == [o EXCEPT !.l = [o.l EXCEPT !.pending = o.l.pending \ {p}]]
<1>1. But(o, {}) /\ Pids(o) /\ Current(o) /\ o.l = link
  BY DEF OverviewInv, AsOverview
<1>2. PICK p \in link.pending :
        OverviewBecomes(CASE p.what = "health"     -> NoReport(Q(p))
                          [] p.what = "scan.pause" -> After(Q(p), "recheck")
                          [] OTHER                 -> Q(p))
  <2>1. \A p : [AsOverview EXCEPT !.l.pending = @ \ {p}] = Q(p)
    BY DEF AsOverview
  <2> HIDE DEF Q, o
  <2> QED BY <2>1, Zenon DEF CallTimesOut
<1> DEFINE k == [o.l EXCEPT !.pending = o.l.pending \ {p}]
           q == [o EXCEPT !.l = k]
           timer == "recheck"
           n == NoReport(q)
           a == After(q, timer)
<1>3. /\ p.what = "health" => OverviewBecomes(n)
      /\ p.what = "scan.pause" => OverviewBecomes(a)
      /\ p.what # "health" => OverviewBecomes(a) \/ OverviewBecomes(q)
  BY <1>2
<1>4. timer \in Timers
  BY DEF Timers
<1> HIDE DEF o, timer, Q
<1>5. /\ But(q, {"checking"}) /\ q.l = k /\ q.v = o.v /\ q.t = o.t /\ q.d = o.d
      /\ q.m = o.m /\ q.n = o.n /\ q.c = o.c
      /\ k.to = o.l.to /\ k.calls = o.l.calls /\ k.answers = o.l.answers
      /\ Reports(o) => Reports(q)
      /\ p.what # "health" => But(q, {}) /\ (Shown(o) => Shown(q))
  BY ONLY <1>1, p \in link.pending, WaitsNoMore
<1> HIDE DEF k, q
<1>6. Pids(q)
  BY ONLY <1>1, <1>5 DEF Pids
<1>7. CASE p.what = "health"
  <2>1. But(n, {}) /\ Keeps(q, n) /\ n.v.from = 0
    BY ONLY <1>5, NoReportGoesOn
  <2> HIDE DEF n
  <2>2. Pids(n) /\ n.d = q.d /\ n.l.to = q.l.to
    BY <1>6, <2>1 DEF Keeps
  <2>3. ASSUME n.l.to # 0, n.l.to = n.d.pid
        PROVE  Reports(n) /\ Shown(n)
    <3>1. q.l.to # 0 /\ q.l.to = q.d.pid /\ Reports(q)
      BY <1>1, <1>5, <2>2, <2>3 DEF Current
    <3> QED BY <2>1, <3>1, KeepsCurrent
  <2>4. Current(n)
    BY <2>3 DEF Current
  <2> QED BY <1>3, <1>7, <2>1, <2>2, <2>4, OverviewBecomesWell
<1>8. CASE p.what # "health"
  <2>1. But(q, {}) /\ Current(q)
    BY <1>1, <1>5, <1>8 DEF Current
  <2>2. But(a, {}) /\ Keeps(q, a)
    BY ONLY <1>4, <2>1, AfterGoesOn
  <2> HIDE DEF a
  <2>3. Pids(a) /\ Current(a)
    BY ONLY <1>6, <2>1, <2>2, CurrentKept
  <2> QED BY <1>3, <1>6, <1>8, <2>1, <2>2, <2>3, OverviewBecomesWell
<1> QED BY <1>7, <1>8

-----------------------------------------------------------------------------
(* What a daemon does.                                                     *)

\* It takes a call: what waits for its answer still does.
LEMMA CallIsTaken ==
  ASSUME NEW o, But(o, {}), o.l.calls # <<>>
  PROVE  LET l == [o.l EXCEPT !.calls = Tail(o.l.calls)]
             r == [o EXCEPT !.l = l]
         IN /\ But(r, {}) /\ r.l = l /\ r.v = o.v /\ r.t = o.t /\ r.d = o.d /\ r.m = o.m
            /\ r.n = o.n /\ r.c = o.c /\ r.e = o.e
            /\ l.to = o.l.to /\ l.answers = o.l.answers /\ l.pending = o.l.pending
            /\ Head(o.l.calls) = o.l.calls[1] /\ 1 \in DOMAIN o.l.calls
            /\ Reports(o) => Reports(r)
            /\ Shown(o) =>
                 \/ Shown(r)
                 \/ \E p \in o.l.pending : p.id = o.l.calls[1].id /\ p.what = "health"
<1> DEFINE l == [o.l EXCEPT !.calls = Tail(o.l.calls)]
           r == [o EXCEPT !.l = l]
           k == Len(o.l.calls)
<1>1. Whole(o) /\ o.l = [j \in LinkParts |-> o.l[j]] /\ Numbered(o.l)
  BY DEF But, Whole
<1>2. /\ IsSeq(Tail(o.l.calls)) /\ k \in Nat \ {0} /\ DOMAIN o.l.calls = 1 .. k
      /\ Head(o.l.calls) = o.l.calls[1]
      /\ DOMAIN Tail(o.l.calls) = 1 .. k - 1
      /\ \A i \in 1 .. k - 1 : Tail(o.l.calls)[i] = o.l.calls[i + 1]
  BY <1>1, SeqShrinks DEF Numbered
<1> HIDE DEF k
<1>3. /\ l = [j \in LinkParts |-> l[j]] /\ l.to = o.l.to /\ l.answers = o.l.answers
      /\ l.calls = Tail(o.l.calls) /\ l.pending = o.l.pending
  BY <1>1 DEF LinkParts
<1> HIDE DEF l
<1>4. /\ Whole(r) /\ r.l = l /\ r.v = o.v /\ r.t = o.t /\ r.d = o.d /\ r.m = o.m /\ r.n = o.n
      /\ r.c = o.c /\ r.e = o.e
  BY ONLY <1>1, <1>3, LinkIsWhole
<1> HIDE DEF r
<1>5. /\ IsSeq(l.calls) /\ DOMAIN l.calls = 1 .. k - 1
      /\ \A i \in 1 .. k - 1 : l.calls[i] = o.l.calls[i + 1] /\ i + 1 \in DOMAIN o.l.calls
  <2>1. \A i \in 1 .. k - 1 : i + 1 \in 1 .. k
    BY ONLY <1>2
  <2>2. l.calls = Tail(o.l.calls)
    BY ONLY <1>3
  <2> QED BY ONLY <1>2, <2>1, <2>2
<1>6. Numbered(l)
  <2>1. o.l.to # 0
    BY <1>1 DEF Numbered
  <2>2. /\ Numbered(o.l) /\ l.to = o.l.to /\ l.answers = o.l.answers
        /\ l.pending = o.l.pending
    BY ONLY <1>1, <1>3
  <2>3. \A i \in DOMAIN l.calls : l.calls[i].id \in Nat \ {0} /\ l.calls[i].what \in Asks
    BY ONLY <2>2, <1>5 DEF Numbered
  <2>4. \A p \in l.pending : \A i \in DOMAIN l.calls :
           l.calls[i].id = p.id => l.calls[i].what = p.what
    BY ONLY <2>2, <1>5 DEF Numbered
  <2>5. /\ IsSeq(l.answers) /\ IsFiniteSet(l.pending)
        /\ \A i \in DOMAIN l.answers : l.answers[i].id \in Nat
        /\ \A p \in l.pending : p.id \in Nat \ {0} /\ p.what \in Waited
        /\ \A p, q \in l.pending : p.id = q.id => p = q
        /\ \A p \in l.pending : \A i \in DOMAIN l.answers :
             l.answers[i].id = p.id => l.answers[i].what = p.what
    BY ONLY <2>2 DEF Numbered
  <2> QED BY ONLY <2>2, <1>5, <2>1, <2>3, <2>4, <2>5 DEF Numbered
<1>7. But(r, {})
  BY <1>3, <1>4, <1>6 DEF But
<1>8. Reports(o) => Reports(r)
  BY <1>3, <1>4 DEF Reports, ToldAfter
<1>9. ASSUME Shown(o), \A p \in o.l.pending : p.id = o.l.calls[1].id => p.what # "health"
      PROVE  Shown(r)
  <2>1. ToldAfter(o.l, 0) => ToldAfter(l, 0)
    BY <1>3 DEF ToldAfter
  <2>2. Asked(o.l) => Asked(l)
    <3>1. SUFFICES ASSUME NEW p \in o.l.pending, p.what = "health",
                          \/ \E i \in DOMAIN o.l.calls : o.l.calls[i].id = p.id
                          \/ \E i \in DOMAIN o.l.answers : o.l.answers[i].id = p.id
                   PROVE  Asked(l)
      BY DEF Asked
    <3>2. CASE \E i \in DOMAIN o.l.answers : o.l.answers[i].id = p.id
      BY <1>3, <3>1, <3>2 DEF Asked
    <3>3. ASSUME NEW i \in DOMAIN o.l.calls, o.l.calls[i].id = p.id
          PROVE  Asked(l)
      <4>1. i # 1
        BY <1>9, <3>1, <3>3
      <4>2. i - 1 \in 1 .. k - 1 /\ (i - 1) + 1 = i
        BY <1>2, <4>1
      <4>3. l.calls[i - 1].id = p.id /\ i - 1 \in DOMAIN l.calls
        BY <1>5, <3>3, <4>2
      <4> QED BY <1>3, <3>1, <4>3 DEF Asked
    <3> QED BY <3>1, <3>2, <3>3
  <2> QED BY <1>4, <1>9, <2>1, <2>2 DEF Shown
<1>10. 1 \in DOMAIN o.l.calls /\ Head(o.l.calls) = o.l.calls[1]
  BY <1>2
<1> QED BY ONLY <1>3, <1>4, <1>7, <1>8, <1>9, <1>10 DEF r, l

\* It answers, or tells an event: after an event whatever was shown before is checked again.
LEMMA ToldGoesOn ==
  ASSUME NEW o, But(o, {}), o.l.to # 0 \/ o.d.pid # 0,
         NEW id \in Nat, NEW what, NEW arg,
         \A p \in o.l.pending : p.id = id => p.what = what
  PROVE  LET r == Told(o, id, what, arg)
         IN /\ But(r, {}) /\ r.v = o.v /\ r.t = o.t /\ r.d = o.d /\ r.m = o.m
            /\ r.n = o.n /\ r.c = o.c /\ r.s = o.s /\ r.e = o.e
            /\ r.l.to = o.l.to /\ r.l.calls = o.l.calls /\ r.l.pending = o.l.pending
            /\ o.l.to = o.d.pid =>
                 /\ id = 0 => Reports(r) /\ Shown(r)
                 /\ Reports(o) /\ (what = "health" => Offered(arg) = Needed(o.m, o.d.cfg)) =>
                      Reports(r)
                 /\ Shown(o) \/ (\E p \in o.l.pending : p.id = id /\ p.what = "health") => Shown(r)
<1> DEFINE message == [id |-> id, what |-> what, arg |-> arg]
           l == [o.l EXCEPT !.answers = Append(o.l.answers, message)]
           q == [o EXCEPT !.l = l]
           k == Len(o.l.answers)
           r == Told(o, id, what, arg)
<1>1. Whole(o) /\ o.l = [j \in LinkParts |-> o.l[j]] /\ Numbered(o.l)
  BY DEF But, Whole
<1>2. CASE o.l.to # o.d.pid
  BY <1>2 DEF Told
<1>3. CASE o.l.to = o.d.pid
  <2>1. r = q
    BY <1>3 DEF Told
  <2>2. message.id = id /\ message.what = what /\ message.arg = arg
    OBVIOUS
  <2> HIDE DEF r, message
  <2>3. /\ l = [j \in LinkParts |-> l[j]] /\ l.to = o.l.to /\ l.calls = o.l.calls
        /\ l.answers = Append(o.l.answers, message) /\ l.pending = o.l.pending
    BY <1>1 DEF LinkParts
  <2> HIDE DEF l
  <2>4. /\ Whole(q) /\ q.l = l /\ q.v = o.v /\ q.t = o.t /\ q.d = o.d /\ q.m = o.m /\ q.n = o.n
        /\ q.c = o.c /\ q.e = o.e /\ \A j \in OverviewParts \ {"l"} : q[j] = o[j]
    BY ONLY <1>1, <2>3, LinkIsWhole
  <2> HIDE DEF q
  <2>5. /\ IsSeq(l.answers) /\ k \in Nat /\ DOMAIN o.l.answers = 1 .. k
        /\ DOMAIN l.answers = 1 .. k + 1
        /\ \A i \in DOMAIN o.l.answers : l.answers[i] = o.l.answers[i]
        /\ l.answers[k + 1] = message
    <3>1. IsSeq(o.l.answers)
      BY <1>1 DEF Numbered
    <3>2. l.answers = Append(o.l.answers, message)
      BY <2>3
    <3> QED BY ONLY <3>1, <3>2, SeqGrows
  <2> HIDE DEF k
  <2>6. \A i \in DOMAIN l.answers :
          (i \in DOMAIN o.l.answers /\ l.answers[i] = o.l.answers[i]) \/ l.answers[i] = message
    BY ONLY <2>5
  <2>7. Numbered(l)
    <3>1. /\ Numbered(o.l) /\ l.to = o.l.to /\ l.calls = o.l.calls /\ l.pending = o.l.pending
          /\ o.l.to # 0
      BY <1>1, <1>3, <2>3
    <3>2. \A i \in DOMAIN l.answers : l.answers[i].id \in Nat
      BY ONLY <2>2, <2>6, <3>1, id \in Nat DEF Numbered
    <3>3. \A p \in l.pending : \A i \in DOMAIN l.answers :
             l.answers[i].id = p.id => l.answers[i].what = p.what
      BY ONLY <2>2, <2>6, <3>1, \A p \in o.l.pending : p.id = id => p.what = what DEF Numbered
    <3>4. /\ IsSeq(l.calls) /\ IsFiniteSet(l.pending)
          /\ \A i \in DOMAIN l.calls : l.calls[i].id \in Nat \ {0} /\ l.calls[i].what \in Asks
          /\ \A p \in l.pending : p.id \in Nat \ {0} /\ p.what \in Waited
          /\ \A p, x \in l.pending : p.id = x.id => p = x
          /\ \A p \in l.pending : \A i \in DOMAIN l.calls :
               l.calls[i].id = p.id => l.calls[i].what = p.what
      BY ONLY <3>1 DEF Numbered
    <3> QED BY ONLY <2>5, <3>1, <3>2, <3>3, <3>4 DEF Numbered
  <2>8. But(q, {})
    BY <2>3, <2>4, <2>7 DEF But
  <2>9. \A i \in Nat : ToldAfter(o.l, i) => ToldAfter(l, i)
    BY ONLY <2>5 DEF ToldAfter
  <2>10. ASSUME id = 0
         PROVE  Reports(q) /\ Shown(q)
    <3>1. \A i \in Nat : i < k + 1 => ToldAfter(l, i)
      BY ONLY <2>2, <2>5, <2>10 DEF ToldAfter
    <3>2. ToldAfter(l, 0)
      BY ONLY <2>5, <3>1
    <3>3. \A i \in DOMAIN l.answers : l.answers[i].id # 0 => ToldAfter(l, i)
      BY ONLY <2>2, <2>5, <2>10, <3>1
    <3> QED BY ONLY <2>4, <3>2, <3>3 DEF Reports, Shown
  <2>11. ASSUME Reports(o), what = "health" => Offered(arg) = Needed(o.m, o.d.cfg)
         PROVE  Reports(q)
    <3>1. SUFFICES ASSUME NEW i \in DOMAIN l.answers, l.answers[i].id # 0,
                          l.answers[i].what = "health"
                   PROVE  Offered(l.answers[i].arg) = Needed(o.m, o.d.cfg) \/ ToldAfter(l, i)
      BY <2>4 DEF Reports
    <3>2. CASE l.answers[i] = message
      BY <2>2, <2>11, <3>1, <3>2
    <3>3. CASE i \in DOMAIN o.l.answers /\ l.answers[i] = o.l.answers[i]
      <4>1. Offered(o.l.answers[i].arg) = Needed(o.m, o.d.cfg) \/ ToldAfter(o.l, i)
        BY <2>11, <3>1, <3>3 DEF Reports
      <4>2. i \in Nat
        BY ONLY <2>5, <3>3
      <4> QED BY ONLY <2>9, <3>3, <4>1, <4>2
    <3> QED BY <2>6, <3>1, <3>2, <3>3
  <2>12. ASSUME Shown(o) \/ \E p \in o.l.pending : p.id = id /\ p.what = "health"
         PROVE  Shown(q)
    <3>0. /\ l.calls = o.l.calls /\ l.pending = o.l.pending
          /\ \A i \in DOMAIN o.l.answers : i \in DOMAIN l.answers /\ l.answers[i] = o.l.answers[i]
          /\ k + 1 \in DOMAIN l.answers /\ l.answers[k + 1].id = id
      <4>1. l.calls = o.l.calls /\ l.pending = o.l.pending
        BY ONLY <2>3
      <4>2. \A i \in 1 .. k : i \in 1 .. k + 1
        BY ONLY <2>5
      <4>3. k + 1 \in 1 .. k + 1
        BY ONLY <2>5
      <4> QED BY ONLY <2>2, <2>5, <4>1, <4>2, <4>3
    <3>1. Asked(o.l) => Asked(l)
      BY ONLY <3>0 DEF Asked
    <3>2. (\E p \in o.l.pending : p.id = id /\ p.what = "health") => Asked(l)
      BY ONLY <3>0 DEF Asked
    <3>3. ToldAfter(o.l, 0) => ToldAfter(l, 0)
      BY <2>9
    <3> QED BY ONLY <2>4, <2>12, <3>1, <3>2, <3>3 DEF Shown
  <2>13. q.s = o.s
    BY ONLY <2>4 DEF OverviewParts
  <2> QED BY ONLY <2>1, <2>3, <2>4, <2>8, <2>10, <2>11, <2>12, <2>13 DEF r
<1> QED BY <1>2, <1>3

\* Its settings change: told as an event.
LEMMA ConfiguredGoesOn ==
  ASSUME NEW o, But(o, {}), Pids(o), o.d.pid # 0, NEW cfg
  PROVE  LET r == Configured(o, cfg)
         IN /\ But(r, {}) /\ Pids(r) /\ r.d.pid = o.d.pid
            /\ r.l.to = o.l.to /\ r.l.calls = o.l.calls /\ r.l.pending = o.l.pending
            /\ o.l.to = o.d.pid => Reports(r) /\ Shown(r)
<1> DEFINE d  == [o.d EXCEPT !.cfg = cfg]
           q1 == [o EXCEPT !.d = d]
           q  == [q1 EXCEPT !.s = cfg]
           id == 0
           what == "config.changed"
           arg == FALSE
           r  == Told(q, id, what, arg)
<1>1. Configured(o, cfg) = r
  <2>1. [o EXCEPT !.d.cfg = cfg, !.s = cfg] = q
    OBVIOUS
  <2> HIDE DEF q
  <2> QED BY <2>1 DEF Configured
<1>2. Whole(o) /\ Numbered(o.l) /\ o.d = [j \in DaemonParts |-> o.d[j]]
  BY DEF But, Whole
<1>3. d = [j \in DaemonParts |-> d[j]] /\ d.pid = o.d.pid
  BY <1>2 DEF DaemonParts
<1> HIDE DEF d
<1>4. q1 = [j \in OverviewParts |-> q1[j]] /\ q1.d = d /\ \A j \in OverviewParts \ {"d"} : q1[j] = o[j]
  BY <1>2 DEF Whole, OverviewParts
<1> HIDE DEF q1
<1>5. q = [j \in OverviewParts |-> q[j]] /\ \A j \in OverviewParts \ {"s"} : q[j] = q1[j]
  BY <1>4 DEF OverviewParts
<1> HIDE DEF q
<1>6. q.d = d /\ q.v = o.v /\ q.t = o.t /\ q.l = o.l /\ q.c = o.c /\ q.n = o.n /\ q.m = o.m
  BY ONLY <1>4, <1>5 DEF OverviewParts
<1>7. Whole(q)
  <2>1. Findable(o.m)
    BY ONLY <1>2 DEF Whole
  <2>2. q.d = [k \in DaemonParts |-> q.d[k]] /\ Findable(q.m)
    BY ONLY <1>3, <1>6, <2>1
  <2> QED BY ONLY <1>2, <1>5, <1>6, <2>2, WholeAgain
<1>8. But(q, {})
  BY <1>6, <1>7 DEF But
<1>9. Pids(q)
  BY <1>3, <1>6 DEF Pids
<1>10. /\ id \in Nat /\ id = 0 /\ q.d.pid # 0
       /\ \A p \in q.l.pending : p.id = id => p.what = what
  BY <1>2, <1>3, <1>6 DEF Numbered
<1> HIDE DEF id, what, arg
<1>11. /\ But(r, {}) /\ r.v = q.v /\ r.t = q.t /\ r.d = q.d /\ r.m = q.m
       /\ r.n = q.n /\ r.c = q.c
       /\ r.l.to = q.l.to /\ r.l.calls = q.l.calls /\ r.l.pending = q.l.pending
       /\ q.l.to = q.d.pid => (id = 0 => Reports(r) /\ Shown(r))
  BY ONLY <1>8, <1>10, ToldGoesOn
<1> HIDE DEF r
<1>12. Pids(r)
  BY ONLY <1>9, <1>11 DEF Pids
<1> QED BY <1>1, <1>3, <1>6, <1>10, <1>11, <1>12

\* So is a pause.
LEMMA PausedGoesOn ==
  ASSUME NEW o, But(o, {}), Pids(o), o.d.pid # 0, NEW paused
  PROVE  LET r == Paused(o, paused)
         IN /\ But(r, {}) /\ Pids(r) /\ r.d.pid = o.d.pid
            /\ r.l.to = o.l.to /\ r.l.calls = o.l.calls /\ r.l.pending = o.l.pending
            /\ o.l.to = o.d.pid => Reports(r) /\ Shown(r)
<1> DEFINE cfg == [o.d.cfg EXCEPT !.paused = paused]
           q   == Configured(o, cfg)
           id == 0
           what == "status.changed"
           r   == Told(q, id, what, paused)
<1>1. Paused(o, paused) = r
  BY DEF Paused
<1> HIDE DEF cfg
<1>2. /\ But(q, {}) /\ Pids(q) /\ q.d.pid = o.d.pid
      /\ q.l.to = o.l.to /\ q.l.calls = o.l.calls /\ q.l.pending = o.l.pending
  BY ConfiguredGoesOn
<1> HIDE DEF q
<1>3. /\ id \in Nat /\ id = 0 /\ q.d.pid # 0
      /\ \A p \in q.l.pending : p.id = id => p.what = what
  BY <1>2 DEF But, Numbered
<1> HIDE DEF id, what
<1>4. /\ But(r, {}) /\ r.v = q.v /\ r.t = q.t /\ r.d = q.d /\ r.m = q.m
      /\ r.n = q.n /\ r.c = q.c
      /\ r.l.to = q.l.to /\ r.l.calls = q.l.calls /\ r.l.pending = q.l.pending
      /\ q.l.to = q.d.pid => (id = 0 => Reports(r) /\ Shown(r))
  BY ONLY <1>2, <1>3, ToldGoesOn
<1> HIDE DEF r
<1>5. Pids(r)
  BY ONLY <1>2, <1>4 DEF Pids
<1> QED BY <1>1, <1>2, <1>3, <1>4, <1>5

\* Another client pauses it.
LEMMA PausedByOthersWell ==
  ASSUME OverviewInv, PausedByOthers
  PROVE  OverviewInv'
<1> DEFINE o == AsOverview
           paused == ~daemon.cfg.paused
           r == Paused(o, paused)
<1>1. OverviewBecomes(r) /\ o.d.pid # 0
  BY DEF PausedByOthers, AsOverview
<1>2. But(o, {}) /\ Pids(o)
  BY DEF OverviewInv
<1> HIDE DEF o, paused
<1>3. /\ But(r, {}) /\ Pids(r) /\ r.d.pid = o.d.pid /\ r.l.to = o.l.to
      /\ o.l.to = o.d.pid => Reports(r) /\ Shown(r)
  BY <1>1, <1>2, PausedGoesOn
<1> HIDE DEF r
<1>4. Current(r)
  BY <1>3 DEF Current
<1> QED BY <1>1, <1>3, <1>4, OverviewBecomesWell

\* The next call is handled: a change is told before its answer, a report is of the settings as they
\* are.
LEMMA DaemonHandlesWell ==
  ASSUME OverviewInv, DaemonHandles
  PROVE  OverviewInv'
<1> DEFINE o == AsOverview
           call == Head(o.l.calls)
           l == [o.l EXCEPT !.calls = Tail(o.l.calls)]
           q == [o EXCEPT !.l = l]
           id == call.id
           what == call.what
           arg == call.arg
           no == FALSE
           report == ReportOf(q, arg)
           set == Configured(q, arg)
           paused == Paused(q, arg)
           cfg == daemon.cfg
<1>1. /\ o.l.calls # <<>> /\ o.l.to = o.d.pid
      /\ what = "config.set" => OverviewBecomes(Told(set, id, what, no))
      /\ what = "scan.pause" => OverviewBecomes(Told(paused, id, what, no))
      /\ what = "config.get" => OverviewBecomes(Told(q, id, what, cfg))
      /\ what = "status" => OverviewBecomes(Told(q, id, what, no))
      /\ what = "health" => OverviewBecomes(Told(q, id, what, report))
      /\ what = "translation.reload" => OverviewBecomes(Told(q, id, what, no))
  <2>1. [AsOverview EXCEPT !.l.calls = Tail(@)] = q /\ Head(link.calls) = call
    BY DEF AsOverview
  <2>2. o.l = link /\ o.d = daemon
    BY DEF AsOverview
  <2> HIDE DEF q, o, call
  <2> QED BY <2>1, <2>2, Zenon DEF DaemonHandles
<1>2. /\ But(o, {}) /\ Pids(o) /\ Current(o) /\ o.d = daemon
  BY DEF OverviewInv, AsOverview
<1>3. Numbered(o.l) /\ o.l.to # 0
  BY <1>1, <1>2 DEF But, Numbered
<1> HIDE DEF o
<1>4. Reports(o) /\ Shown(o)
  BY <1>1, <1>2, <1>3 DEF Current
<1>5. /\ But(q, {}) /\ q.l = l /\ q.v = o.v /\ q.t = o.t /\ q.d = o.d /\ q.m = o.m
      /\ q.n = o.n /\ q.c = o.c
      /\ l.to = o.l.to /\ l.answers = o.l.answers /\ l.pending = o.l.pending
      /\ call = o.l.calls[1] /\ 1 \in DOMAIN o.l.calls
      /\ Reports(o) => Reports(q)
      /\ Shown(o) =>
           \/ Shown(q)
           \/ \E p \in o.l.pending : p.id = o.l.calls[1].id /\ p.what = "health"
  BY ONLY <1>1, <1>2, CallIsTaken
<1> HIDE DEF q, l, call
<1>6. Pids(q)
  BY ONLY <1>2, <1>5 DEF Pids
<1>7. /\ id \in Nat /\ id # 0 /\ what \in Asks
      /\ \A p \in q.l.pending : p.id = id => p.what = what
  BY ONLY <1>3, <1>5 DEF Numbered
<1>8. q.d.pid # 0 /\ q.l.to = q.d.pid /\ Reports(q)
  BY ONLY <1>1, <1>3, <1>4, <1>5
<1> HIDE DEF id, what, arg, no, cfg
<1>9. ASSUME NEW b, But(b, {}), Pids(b), b.d.pid = q.d.pid, b.l.to = q.l.to,
             b.l.pending = q.l.pending, Reports(b),
             Shown(b) \/ \E p \in b.l.pending : p.id = id /\ p.what = "health",
             NEW said, what = "health" => Offered(said) = Needed(b.m, b.d.cfg),
             OverviewBecomes(Told(b, id, what, said))
      PROVE  OverviewInv'
  <2> DEFINE r == Told(b, id, what, said)
  <2>1. /\ b.l.to # 0 \/ b.d.pid # 0
        /\ \A p \in b.l.pending : p.id = id => p.what = what
        /\ b.l.to = b.d.pid
    BY ONLY <1>7, <1>8, <1>9
  <2>2. /\ But(r, {}) /\ r.v = b.v /\ r.t = b.t /\ r.d = b.d /\ r.m = b.m
        /\ r.n = b.n /\ r.c = b.c /\ r.l.to = b.l.to
        /\ Reports(r) /\ Shown(r)
    BY ONLY <1>7, <1>8, <1>9, ToldGoesOn
  <2> HIDE DEF r
  <2>3. Pids(r)
    BY ONLY <1>9, <2>2 DEF Pids
  <2>4. Current(r)
    BY ONLY <2>2 DEF Current
  <2>5. OverviewBecomes(r)
    BY <1>9 DEF r
  <2> QED BY <2>2, <2>3, <2>4, <2>5, OverviewBecomesWell
<1>10. CASE what = "config.set"
  <2>1. /\ But(set, {}) /\ Pids(set) /\ set.d.pid = q.d.pid /\ set.l.to = q.l.to
        /\ set.l.pending = q.l.pending /\ Reports(set) /\ Shown(set)
    BY ONLY <1>5, <1>6, <1>8, ConfiguredGoesOn
  <2> HIDE DEF set
  <2>2. OverviewBecomes(Told(set, id, what, no)) /\ what # "health"
    BY <1>1, <1>10
  <2> QED BY ONLY <1>9, <2>1, <2>2
<1>11. CASE what = "scan.pause"
  <2>1. /\ But(paused, {}) /\ Pids(paused) /\ paused.d.pid = q.d.pid /\ paused.l.to = q.l.to
        /\ paused.l.pending = q.l.pending /\ Reports(paused) /\ Shown(paused)
    BY ONLY <1>5, <1>6, <1>8, PausedGoesOn
  <2> HIDE DEF paused
  <2>2. OverviewBecomes(Told(paused, id, what, no)) /\ what # "health"
    BY <1>1, <1>11
  <2> QED BY ONLY <1>9, <2>1, <2>2
<1>12. Shown(q) \/ \E p \in q.l.pending : p.id = id /\ p.what = "health"
  BY ONLY <1>4, <1>5 DEF id
<1>13. CASE what = "health"
  <2>1. Offered(report) = Needed(q.m, q.d.cfg)
    <3> DEFINE x == q.d.runtime
               y == q.m.others \/ q.c # {}
               f1 == [q.m EXCEPT !.runtime = x]
               f == [f1 EXCEPT !.others = y]
    <3>1. report = HealthReport(f, q.d.cfg, arg)
      BY DEF ReportOf
    <3>2. Findable(q.m)
      BY <1>5 DEF But, Whole
    <3> HIDE DEF x, y, report
    <3>3. Findable(f1) /\ f1.desktop = q.m.desktop /\ f1.reading = q.m.reading
      BY ONLY <3>2, FindableKept
    <3> HIDE DEF f1
    <3>4. Findable(f) /\ f.desktop = f1.desktop /\ f.reading = f1.reading
      BY ONLY <3>3, FindableKept
    <3> HIDE DEF f
    <3>5. Offered(report) = Needed(f, q.d.cfg)
      BY ONLY <3>1, <3>4, ReportNeeds
    <3> QED BY ONLY <3>3, <3>4, <3>5 DEF Needed
  <2> HIDE DEF report
  <2>2. OverviewBecomes(Told(q, id, what, report))
    BY <1>1, <1>13
  <2> QED BY ONLY <1>5, <1>6, <1>8, <1>9, <1>12, <2>1, <2>2
<1>14. CASE what \in {"config.get", "status", "translation.reload"}
  <2>1. what # "health"
    BY <1>14
  <2>2. OverviewBecomes(Told(q, id, what, cfg)) \/ OverviewBecomes(Told(q, id, what, no))
    BY <1>1, <1>14
  <2> QED BY ONLY <1>5, <1>6, <1>8, <1>9, <1>12, <2>1, <2>2
<1> QED BY ONLY <1>7, <1>10, <1>11, <1>13, <1>14 DEF Asks, Waited

-----------------------------------------------------------------------------
(* The page as a whole.                                                    *)

\* Nothing is on its way at first, and every button is on.
LEMMA OverviewBegins ==
  ASSUME OverviewInit
  PROVE  OverviewInv
<1> DEFINE o == AsOverview
           l == Unlinked
<1>1. /\ Findable(machine) /\ started \in Nat
      /\ daemon = [k \in DaemonParts |-> daemon[k]] /\ daemon.pid \in 0 .. started
      /\ coming = {} /\ link = l /\ timers = [t \in Timers |-> 0]
  BY MachinesAssumption DEF OverviewInit, NoDaemon, DaemonParts
<1>2. /\ view = [k \in ViewParts |-> view[k]] /\ \A k \in Flags : view[k] \in BOOLEAN
      /\ ~view.checking /\ ~view.restarting /\ ~view.fixing /\ view.checkOn /\ view.fixAllOn
      /\ view.restartOn /\ ~view.administrator /\ view.from = 0
  <2>1. /\ view.visible = TRUE /\ view.stale = FALSE /\ view.checking = FALSE
        /\ view.fixing = FALSE /\ view.restarting = FALSE /\ view.checkOn = TRUE
        /\ view.fixAllOn = TRUE /\ view.restartOn = TRUE /\ view.administrator = FALSE
        /\ view.from = 0
    BY DEF OverviewInit
  <2>2. view = [k \in ViewParts |-> view[k]]
    BY DEF OverviewInit, ViewParts
  <2>3. \A k \in Flags : view[k] \in BOOLEAN
    BY ONLY <2>1 DEF Flags
  <2> QED BY ONLY <2>1, <2>2, <2>3
<1>3. /\ l = [k \in LinkParts |-> l[k]] /\ l.to = 0 /\ l.calls = <<>> /\ l.answers = <<>>
      /\ l.pending = {}
  BY DEF Unlinked, LinkParts
<1> HIDE DEF l
<1>4. Numbered(l)
  <2>1. IsSeq(<<>>) /\ IsFiniteSet({})
    BY FS_EmptySet DEF IsSeq
  <2>2. DOMAIN <<>> = {}
    OBVIOUS
  <2>3. DOMAIN l.calls = {} /\ DOMAIN l.answers = {}
    BY ONLY <1>3, <2>2
  <2> QED BY ONLY <1>3, <2>1, <2>3 DEF Numbered
<1>5. /\ o = [k \in OverviewParts |-> o[k]] /\ o.m = machine /\ o.n = started /\ o.t = timers
      /\ o.v = view /\ o.l = link /\ o.d = daemon /\ o.c = coming
  BY DEF AsOverview, OverviewParts
<1> HIDE DEF o
<1>6. timers \in [Timers -> Nat]
  BY ONLY <1>1
<1>7. Whole(o)
  BY ONLY <1>1, <1>2, <1>3, <1>5, <1>6 DEF Whole
<1>8. But(o, {})
  BY ONLY <1>1, <1>2, <1>4, <1>5, <1>7 DEF But
<1>9. Pids(o)
  <2>1. o.c = {} /\ o.l.to = 0 /\ o.v.from = 0 /\ o.n \in Nat /\ o.d.pid \in 0 .. o.n
    BY ONLY <1>1, <1>2, <1>3, <1>5
  <2>2. 0 \in 0 .. o.n
    BY ONLY <2>1
  <2> QED BY ONLY <2>1, <2>2 DEF Pids
<1>10. Current(o)
  BY ONLY <1>1, <1>3, <1>5 DEF Current
<1> QED BY <1>8, <1>9, <1>10 DEF OverviewInv, o

\* Every callback, click and step of a daemon.
LEMMA OverviewGoes ==
  ASSUME OverviewInv, OverviewNext
  PROVE  OverviewInv'
<1>1. CASE ClickCheck \/ ClickPause \/ ClickRestart \/ ClickFixAll \/ ClickFix
  BY <1>1, ClicksWell
<1>2. CASE ShowPage \/ ClickAdministrator
  BY <1>2, ShowPageWell, ClickAdministratorWell
<1>3. CASE HealthTimer \/ Recheck \/ Quiet \/ StillGone \/ RestartTimer \/ PushTimer
  BY <1>3, HealthTimerWell, RecheckWell, QuietWell, StillGoneWell, RestartTimerWell, PushTimerWell
<1>4. CASE \/ RuntimeDownloaded \/ Redistributable \/ ModelsDownloaded \/ ModelRedistributable
           \/ AdministratorSet
  BY <1>4, RuntimeDownloadedWell, RedistributableWell, ModelsDownloadedWell,
     ModelRedistributableWell, AdministratorSetWell
<1>5. CASE Connected \/ Disconnected \/ ReadMessage \/ CallTimesOut
  BY <1>5, ConnectedWell, DisconnectedWell, ReadMessageWell, CallTimesOutWell
<1>6. CASE \/ DaemonHandles \/ PausedByOthers \/ ReadsSettings \/ TakesOver \/ Hangs
           \/ DaemonGoes
  BY <1>6, DaemonHandlesWell, PausedByOthersWell, ReadsSettingsWell, TakesOverWell, HangsWell,
     DaemonGoesWell
<1> QED BY <1>1, <1>2, <1>3, <1>4, <1>5, <1>6 DEF OverviewNext

\* In every state of the page whatever was begun has something on its way that ends it, daemons on
\* their way are none that were met, and what is shown of the daemon that is connected needs what the
\* daemon needs, or a change is told or a report waits.
THEOREM OverviewGoesOn == OverviewSpec => []OverviewInv
<1>1. OverviewInit => OverviewInv
  BY OverviewBegins
<1>2. OverviewInv /\ [OverviewNext]_overviewVars => OverviewInv'
  <2>1. OverviewInv /\ OverviewNext => OverviewInv'
    BY OverviewGoes
  <2>2. OverviewInv /\ UNCHANGED overviewVars => OverviewInv'
    <3> SUFFICES ASSUME OverviewInv, UNCHANGED overviewVars
                 PROVE  OverviewInv'
      OBVIOUS
    <3>1. AsOverview' = AsOverview
      BY DEF AsOverview, overviewVars
    <3> QED BY <3>1 DEF OverviewInv
  <2> QED BY <2>1, <2>2
<1> QED BY <1>1, <1>2, PTL DEF OverviewSpec

\* Whatever was begun on the page ends: a button is off, and a check, a fix or a restart under way,
\* only while something is on its way that ends it.
THEOREM ButtonsReturn == OverviewSpec => []ButtonsComeBack
<1>1. OverviewInv => ButtonsComeBack
  <2>1. SUFFICES ASSUME OverviewInv
                 PROVE  ButtonsComeBack
    OBVIOUS
  <2> DEFINE o == AsOverview
  <2>2. But(o, {}) /\ o.v = view /\ o.t = timers /\ o.l = link
    BY <2>1 DEF OverviewInv, AsOverview
  <2> HIDE DEF o
  <2> QED BY ONLY <2>2 DEF But, ButtonsComeBack
<1> QED BY <1>1, OverviewGoesOn, PTL

\* Once nothing is on its way any more, the page offers to fix the settings that keep the daemon from
\* looking up, and no others, whatever changed while it checked, fixed or was hidden.
THEOREM OfferStaysCurrent == OverviewSpec => []OfferIsCurrent
<1>1. OverviewInv => OfferIsCurrent
  <2>1. SUFFICES ASSUME OverviewInv, AtRest, view.from # 0, view.from = daemon.pid
                 PROVE  Offered(view.checks) = Offered(ReportOf(AsOverview, FALSE))
    BY DEF OfferIsCurrent, Offered
  <2> DEFINE o == AsOverview
             no == FALSE
             x == o.d.runtime
             y == o.m.others \/ o.c # {}
             f1 == [o.m EXCEPT !.runtime = x]
             f == [f1 EXCEPT !.others = y]
             report == ReportOf(o, no)
  <2>2. /\ But(o, {}) /\ Current(o) /\ o.v = view /\ o.t = timers /\ o.l = link /\ o.d = daemon
    BY <2>1 DEF OverviewInv, AsOverview
  <2>3. report = HealthReport(f, o.d.cfg, no)
    BY DEF ReportOf
  <2>4. SUFFICES Offered(o.v.checks) = Offered(report)
    BY <2>2
  <2> HIDE DEF o, no, x, y, report
  <2>5. Offered(o.v.checks) = Needed(o.m, o.d.cfg)
    <3>1. /\ o.v.visible /\ o.l.to = o.d.pid /\ o.l.answers = <<>> /\ o.l.pending = {}
          /\ o.t["health"] = 0 /\ o.v.from = o.d.pid /\ o.l.to # 0
      BY <2>1, <2>2 DEF AtRest, Timers
    <3>2. DOMAIN o.l.answers = {}
      <4>1. DOMAIN <<>> = {}
        OBVIOUS
      <4> QED BY ONLY <3>1, <4>1
    <3>3. ~ToldAfter(o.l, 0)
      BY ONLY <3>2 DEF ToldAfter
    <3>4. ~Asked(o.l)
      BY ONLY <3>1 DEF Asked
    <3>5. Shown(o)
      BY ONLY <2>2, <3>1 DEF Current
    <3> QED BY ONLY <3>1, <3>3, <3>4, <3>5 DEF Shown
  <2>6. Findable(o.m)
    BY <2>2 DEF But, Whole
  <2>7. Findable(f1) /\ f1.desktop = o.m.desktop /\ f1.reading = o.m.reading
    BY ONLY <2>6, FindableKept
  <2> HIDE DEF f1
  <2>8. Findable(f) /\ f.desktop = f1.desktop /\ f.reading = f1.reading
    BY ONLY <2>7, FindableKept
  <2> HIDE DEF f
  <2>9. Offered(report) = Needed(f, o.d.cfg)
    BY ONLY <2>3, <2>8, ReportNeeds
  <2> QED BY ONLY <2>5, <2>7, <2>8, <2>9 DEF Needed
<1> QED BY <1>1, OverviewGoesOn, PTL

===============================================================================
