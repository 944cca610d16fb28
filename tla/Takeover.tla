------------------------------ MODULE Takeover ------------------------------
(***************************************************************************)
(* One daemon per user: the instance lock, a daemon that takes over from   *)
(* the one running (--replace), the one an update starts, the scheduled    *)
(* task that starts it as administrator on Windows, and the end of a       *)
(* daemon (src/apps/daemon/main.cpp, Process.cpp, Socket.cpp, Elevation.cpp,*)
(* Daemon::run, ~Daemon, Daemon::updateLoop).                              *)
(*                                                                         *)
(* Time is abstracted: a wait may end whenever what it waits for has not   *)
(* come. A process that is killed lets go of the lock at once.             *)
(***************************************************************************)
EXTENDS Naturals, FiniteSets

CONSTANTS Processes,  \* the daemons that may be started
          Nobody,
          Windows,    \* Windows, or Linux
          MaxEvents, MaxWrites \* bounds

ASSUME NobodyAssumption == Nobody \notin Processes
ASSUME WindowsAssumption == Windows \in BOOLEAN

VARIABLES
  proc,       \* what each process is at
  holder,     \* the process that holds the lock
  pidFile,    \* the process whose number the lock file holds
  socketFile, \* the process that made the socket (or the pipe), while it has its name
  task,       \* Run as administrator is set up for this program
  program,    \* how often the program file was replaced
  events      \* what users and applications did, for the bound

tvars == <<proc, holder, pidFile, socketFile, task, program, events>>

\* asked is the daemon that worked and held the lock when this one asked it to exit.
Unborn ==
  [at |-> "unborn", replace |-> FALSE, fromTask |-> FALSE, elevated |-> FALSE, old |-> FALSE,
   asked |-> Nobody, hasAsked |-> FALSE, handed |-> FALSE, victim |-> Nobody, others |-> {},
   quit |-> FALSE, hung |-> FALSE, born |-> 0, seen |-> 0, end |-> "none"]

TakeoverInit ==
  /\ proc = [p \in Processes |-> Unborn]
  /\ holder = Nobody /\ pidFile = Nobody /\ socketFile = Nobody
  /\ task = Windows
  /\ program = 0 /\ events = 0

At(p, place) == proc[p].at = place
Moved(p, place) == [proc EXCEPT ![p].at = place]
Running(p) == proc[p].at \notin {"unborn", "dead"}
Works(p)   == proc[p].at \in {"serve", "run"}

\* isRunning() of a process without administrator rights does not see one with them.
Sees(p, q) == Running(q) /\ (proc[q].elevated => proc[p].elevated)

\* socketAnswers(), connectTo()
Answering == socketFile # Nobody /\ Works(socketFile)

Freed(p) == holder' = IF holder = p THEN Nobody ELSE holder

Dead(why) == [Unborn EXCEPT !.at = "dead", !.end = why]

\* A process ends; its lock goes with it, its socket file stays.
Dies(p, why) ==
  /\ proc' = [proc EXCEPT ![p] = Dead(why)]
  /\ Freed(p)
  /\ UNCHANGED <<pidFile, socketFile, task, program, events>>

Goes(p, place) ==
  /\ proc' = Moved(p, place)
  /\ UNCHANGED <<holder, pidFile, socketFile, task, program, events>>

-----------------------------------------------------------------------------
(* Starting.                                                               *)

Born(q, replace) == [Unborn EXCEPT !.at = "lock", !.replace = replace, !.born = program,
                                   !.seen = program]

\* The next process there is room for.
Free(q) == At(q, "unborn") /\ q = CHOOSE p \in Processes : At(p, "unborn")

\* By the user, the settings application, the login.
Start(q, replace) ==
  /\ Free(q)
  /\ \E elevated \in {FALSE, Windows} :
       proc' = [proc EXCEPT ![q] = [Born(q, replace) EXCEPT !.elevated = elevated]]
  /\ UNCHANGED <<holder, pidFile, socketFile, task, program, events>>

\* A daemon from before the instance lock, which may have lost its socket.
StartOld(q) ==
  /\ Free(q) /\ \A p \in Processes : At(p, "unborn")
  /\ proc' = [proc EXCEPT ![q] = [Unborn EXCEPT !.at = "run", !.old = TRUE]]
  /\ socketFile' \in {q, Nobody}
  /\ UNCHANGED <<holder, pidFile, task, program, events>>

\* The lock is tried when it is made: without --replace a daemon that does not get
\* it ends.
TryLock(p) ==
  /\ At(p, "lock")
  /\ \/ /\ holder = Nobody
        /\ holder' = p /\ proc' = Moved(p, "write")
        /\ UNCHANGED <<pidFile, socketFile, task, program, events>>
     \/ holder # Nobody /\ proc[p].replace /\ Goes(p, "ask")
     \/ holder # Nobody /\ ~proc[p].replace /\ Dies(p, "none")

\* Whoever got the lock writes its number into the file.
WritePid(p) ==
  /\ At(p, "write")
  /\ pidFile' = p
  /\ proc' = Moved(p, IF proc[p].handed THEN "listen"
                      ELSE IF ~proc[p].replace THEN "hand"
                      ELSE IF proc[p].hasAsked THEN "list" ELSE "ask")
  /\ UNCHANGED <<holder, socketFile, task, program, events>>

-----------------------------------------------------------------------------
(* replaceRunning()                                                        *)

\* Whoever answers on the socket is asked to exit.
Ask(p) ==
  /\ At(p, "ask")
  /\ proc' = [q \in Processes |->
                CASE q = p -> [proc[p] EXCEPT !.at = IF holder = p THEN "list" ELSE "wait",
                                              !.hasAsked = TRUE,
                                              !.asked = IF holder # Nobody /\ Works(holder)
                                                        THEN holder ELSE Nobody]
                  [] q # p /\ Answering /\ socketFile = q -> [proc[q] EXCEPT !.quit = TRUE]
                  [] OTHER -> proc[q]]
  /\ UNCHANGED <<holder, pidFile, socketFile, task, program, events>>

\* lock.retry(), until it is free.
Retry(p) ==
  /\ proc[p].at \in {"wait", "again"} /\ holder = Nobody
  /\ holder' = p
  /\ proc' = Moved(p, "write")
  /\ UNCHANGED <<pidFile, socketFile, task, program, events>>

\* Before a daemon blocks its signals, and when it is tearing down, a signal ends it.
EndsAtOnce(q) == ~Works(q) /\ ~At(q, "listen") /\ ~proc[q].old

\* terminate(): a signal on Linux; Windows has none. Then a while to exit.
Signal(p, q, then) ==
  LET after == [proc EXCEPT ![p].at = then, ![p].victim = q, ![p].others = @ \ {q}]
  IN  IF ~Windows /\ EndsAtOnce(q)
      THEN /\ proc' = [after EXCEPT ![q] = Dead("none")]
           /\ Freed(q)
      ELSE /\ proc' = [after EXCEPT ![q].quit = ~Windows \/ proc[q].quit]
           /\ UNCHANGED holder

\* The running daemon did not exit: the process the lock file names is ended.
Expire(p) ==
  /\ At(p, "wait") /\ holder \notin {Nobody, p}
  /\ IF pidFile # Nobody /\ Sees(p, pidFile)
     THEN Signal(p, pidFile, "end")
     ELSE proc' = Moved(p, "again") /\ UNCHANGED holder
  /\ UNCHANGED <<pidFile, socketFile, task, program, events>>

\* One that did not exit in that while is killed.
Ended(p) ==
  /\ proc[p].at \in {"end", "endStray"}
  /\ LET q    == proc[p].victim
         goOn == [proc EXCEPT ![p].at = IF @ = "end" THEN "again" ELSE "strays",
                              ![p].victim = Nobody]
     IN  IF Running(q)
         THEN proc' = [goOn EXCEPT ![q] = Dead("none")] /\ Freed(q)
         ELSE proc' = goOn /\ UNCHANGED holder
  /\ UNCHANGED <<pidFile, socketFile, task, program, events>>

GiveUp(p) ==
  /\ At(p, "again") /\ holder \notin {Nobody, p}
  /\ Dies(p, "gaveUp")

\* othersNamed(): every other daemon there is now is ended, after a moment to exit.
ListOthers(p) ==
  /\ At(p, "list")
  /\ proc' = [proc EXCEPT ![p].at = "strays",
                          ![p].others = {q \in Processes \ {p} : Sees(p, q)}]
  /\ UNCHANGED <<holder, pidFile, socketFile, task, program, events>>

NextStray(p) ==
  /\ At(p, "strays")
  /\ \E q \in proc[p].others :
       IF Running(q)
       THEN Signal(p, q, "endStray")
       ELSE proc' = [proc EXCEPT ![p].others = @ \ {q}] /\ UNCHANGED holder
  /\ UNCHANGED <<pidFile, socketFile, task, program, events>>

\* A moment for the socket to go with its daemon; it goes on either way.
TookOver(p) ==
  /\ At(p, "strays") /\ proc[p].others = {}
  /\ Goes(p, "hand")

-----------------------------------------------------------------------------
(* Run as administrator: handOver()                                        *)

MakesWay(p) == task /\ ~proc[p].elevated /\ ~proc[p].fromTask

NoHandOver(p) == At(p, "hand") /\ ~MakesWay(p) /\ Goes(p, "listen")

\* The lock is let go of, and the task starts a daemon, with the highest rights the
\* account has; or it cannot be started.
HandOver(p) ==
  /\ At(p, "hand") /\ MakesWay(p)
  /\ Freed(p)
  /\ \/ proc' = [proc EXCEPT ![p].at = "handBack", ![p].handed = TRUE]
     \/ \E q \in Processes, elevated \in BOOLEAN :
          /\ Free(q)
          /\ proc' = [proc EXCEPT ![p].at = "handing", ![p].handed = TRUE,
                                  ![q] = [Born(q, FALSE) EXCEPT !.fromTask = TRUE,
                                                                !.elevated = elevated]]
  /\ UNCHANGED <<pidFile, socketFile, task, program, events>>

HandedOver(p) == At(p, "handing") /\ Answering /\ Dies(p, "none")

HandingExpires(p) == At(p, "handing") /\ ~Answering /\ Goes(p, "handBack")

\* A mistake: it goes on without looking whether the lock was taken meanwhile.
HandBackUnlocked(p) ==
  /\ At(p, "handBack")
  /\ holder' = IF holder = Nobody THEN p ELSE holder
  /\ proc' = Moved(p, IF holder = Nobody THEN "write" ELSE "listen")
  /\ UNCHANGED <<pidFile, socketFile, task, program, events>>

\* The lock is taken back, unless it was taken meanwhile.
HandBack(p) ==
  /\ At(p, "handBack")
  /\ \/ /\ holder = Nobody
        /\ holder' = p /\ proc' = Moved(p, "write")
        /\ UNCHANGED <<pidFile, socketFile, task, program, events>>
     \/ holder # Nobody /\ Dies(p, "none")

\* install() and remove(), by the settings application as administrator.
SetTask ==
  /\ Windows /\ events < MaxEvents
  /\ events' = events + 1
  /\ task' = ~task
  /\ UNCHANGED <<proc, holder, pidFile, socketFile, program>>

-----------------------------------------------------------------------------
(* Running, and the end.                                                   *)

\* listenOn(): a socket that answers is not replaced; one left behind is.
Listen(p) ==
  /\ At(p, "listen")
  /\ IF Answering
     THEN proc' = Moved(p, "closing") /\ UNCHANGED socketFile
     ELSE proc' = Moved(p, "serve") /\ socketFile' = p
  /\ UNCHANGED <<holder, pidFile, task, program, events>>

\* The desktop integration starts, or does not, and the daemon ends.
StartDesktop(p) ==
  /\ At(p, "serve")
  /\ \/ Goes(p, "run")
     \/ Goes(p, "teardown")

\* A thread is stuck in a call to an application that hangs.
Hang(p) ==
  /\ At(p, "run") /\ ~proc[p].hung /\ events < MaxEvents
  /\ events' = events + 1
  /\ proc' = [proc EXCEPT ![p].hung = TRUE]
  /\ UNCHANGED <<holder, pidFile, socketFile, task, program>>

\* requestQuit(), by a signal or the handler "shutdown"; one that hangs does not
\* come to it.
AskedToQuit(p) ==
  /\ Works(p) /\ ~proc[p].quit /\ events < MaxEvents
  /\ events' = events + 1
  /\ proc' = [proc EXCEPT ![p].quit = TRUE]
  /\ UNCHANGED <<holder, pidFile, socketFile, task, program>>

Quit(p) == At(p, "run") /\ proc[p].quit /\ ~proc[p].hung /\ Goes(p, "teardown")

\* ipc_.stop(): the socket's file goes, whoever made it.
TearDown(p) ==
  /\ At(p, "teardown")
  /\ socketFile' = Nobody
  /\ proc' = Moved(p, "closing")
  /\ UNCHANGED <<holder, pidFile, task, program, events>>

\* The threads end, or the limit for tearing down ends the process.
Exit(p) == At(p, "closing") /\ Dies(p, "none")

\* The program file is replaced by an update.
WriteProgram ==
  /\ ~Windows /\ program < MaxWrites
  /\ program' = program + 1
  /\ UNCHANGED <<proc, holder, pidFile, socketFile, task, events>>

\* updateLoop(), once a minute: a newer file that stayed the same since the last look
\* is started to take over.
LookForUpdate(p) ==
  /\ ~Windows /\ At(p, "run") /\ ~proc[p].old /\ proc[p].born # program
  /\ IF proc[p].seen # program
     THEN proc' = [proc EXCEPT ![p].seen = program]
     ELSE \E q \in Processes :
            /\ Free(q)
            /\ proc' = [proc EXCEPT ![p].born = program, ![q] = Born(q, TRUE)]
  /\ UNCHANGED <<holder, pidFile, socketFile, task, program, events>>

Step(p) ==
  \/ TryLock(p) \/ WritePid(p) \/ Ask(p) \/ Retry(p) \/ Expire(p) \/ Ended(p) \/ GiveUp(p)
  \/ ListOthers(p) \/ NextStray(p) \/ TookOver(p) \/ NoHandOver(p) \/ HandOver(p)
  \/ HandedOver(p) \/ HandingExpires(p) \/ HandBack(p) \/ Listen(p) \/ StartDesktop(p)
  \/ Quit(p) \/ TearDown(p) \/ Exit(p)

TakeoverNext ==
  \/ SetTask \/ WriteProgram
  \/ \E p \in Processes :
       \/ Step(p) \/ StartOld(p) \/ Hang(p) \/ AskedToQuit(p) \/ LookForUpdate(p)
       \/ \E replace \in BOOLEAN : Start(p, replace)

TakeoverSpec == TakeoverInit /\ [][TakeoverNext]_tvars

-----------------------------------------------------------------------------
\* Never do two daemons work next to each other, however starts, replacements and
\* handing over interleave; only one from before the lock may, until a daemon started
\* with --replace ends it.
OneAtWork ==
  \A p, q \in Processes :
    (p # q /\ Works(p) /\ Works(q)) =>
      \E old \in {p, q} : proc[old].old /\ \A r \in {p, q} : ~proc[r].replace
=============================================================================
