----------------------------- MODULE Statistics -----------------------------
(***************************************************************************)
(* The tally behind the Statistics page: counted by the threads of the     *)
(* daemon, written now and then by any of them, emptied by a client, read  *)
(* again when the daemon starts (src/apps/daemon/Stats.cpp, its uses in    *)
(* Daemon.cpp).                                                            *)
(*                                                                         *)
(* Of the figures one total and those of each day are kept; they are       *)
(* counted the same way.                                                   *)
(***************************************************************************)
EXTENDS Integers, FiniteSets, FiniteSetsExt

CONSTANTS Days,      \* the days the clock may show, numbers
          KeptDays,  \* kept_days
          SaveEvery, \* the capture thread writes after so many lookups
          MaxCounts, MaxFailures, MaxEvents \* bounds

VARIABLES
  tally,     \* tally_: the total, the figures of each day, and how often it was emptied
  dirty,     \* dirty_
  enabled,   \* enabled_
  tallyFile, \* statistics.json
  saver,     \* what each thread does about saving, and the text it writes
  saveMutex, \* who holds save_mutex_
  unsaved,   \* unsaved_stats_ of the capture thread
  day,       \* what the clock shows
  running,   \* "yes", "ending" once the final save began, "no"
  wanted,    \* what was counted on this day and in all since the tally was emptied
  lost,      \* a write failed since the last one that succeeded
  events, failures \* for the bounds

svars == <<tally, dirty, enabled, tallyFile, saver, saveMutex, unsaved, day, running,
          wanted, lost, events, failures>>

Savers  == {"capture", "ipc", "ui", "main"}
Unheld == "unheld"

Empty  == [total |-> 0, days |-> [d \in {} |-> 0], emptied |-> 0]
Idle   == [at |-> "idle", text |-> Empty]

StatInit ==
  /\ tally = Empty /\ dirty = TRUE /\ enabled = TRUE
  /\ tallyFile = Empty
  /\ saver = [th \in Savers |-> Idle]
  /\ saveMutex = Unheld
  /\ unsaved = 0
  /\ day = CHOOSE d \in Days : \A e \in Days : d =< e
  /\ running = "yes"
  /\ wanted = [total |-> 0, today |-> 0]
  /\ lost = FALSE
  /\ events = 0 /\ failures = 0

-----------------------------------------------------------------------------
(* Counting.                                                               *)

With(days, d) == [e \in DOMAIN days \cup {d} |-> IF e \in DOMAIN days THEN days[e] ELSE 0]

\* today(): the oldest days go while there are too many, up to today's.
Today(days, d) ==
  LET all  == With(days, d)
      old  == {x \in DOMAIN all : /\ Cardinality({y \in DOMAIN all : y > x}) >= KeptDays
                                  /\ \A y \in DOMAIN all : y =< x => y # d}
  IN  [e \in DOMAIN all \ old |-> all[e]]

Counted(t, d) ==
  LET days == Today(t.days, d)
  IN  [total   |-> t.total + 1,
       days    |-> [e \in DOMAIN days |-> IF e = d THEN days[e] + 1 ELSE days[e]],
       emptied |-> t.emptied]

\* recordLookup(), mark(), recordTranslation(): one more, when counting is on.
Record ==
  /\ events < MaxCounts
  /\ IF enabled
     THEN /\ tally' = Counted(tally, day)
          /\ dirty' = TRUE
          /\ wanted' = [total |-> wanted.total + 1, today |-> wanted.today + 1]
     ELSE UNCHANGED <<tally, dirty, wanted>>
  /\ events' = events + 1

\* Daemon::recordScreenLookup()
CountLookup ==
  /\ running # "no" /\ saver["capture"].at = "idle"
  /\ Record
  /\ unsaved' = (unsaved + 1) % SaveEvery
  /\ saver' = IF unsaved + 1 = SaveEvery
              THEN [saver EXCEPT !["capture"].at = "save"] ELSE saver
  /\ UNCHANGED <<enabled, tallyFile, saveMutex, day, running, lost, failures>>

\* Popups, sounds, notes and translations, counted by other threads.
CountOther ==
  /\ running # "no"
  /\ Record
  /\ UNCHANGED <<enabled, tallyFile, saver, saveMutex, unsaved, day, running, lost, failures>>

\* setEnabled(), when a configuration is applied.
SetEnabled ==
  /\ running = "yes" /\ events < MaxEvents /\ events' = events + 1
  /\ enabled' = ~enabled
  /\ UNCHANGED <<tally, dirty, tallyFile, saver, saveMutex, unsaved, day, running, wanted, lost,
                 failures>>

\* The clock goes on, or is set back.
Clock ==
  /\ events < MaxEvents /\ events' = events + 1
  /\ \E d \in Days : /\ d # day /\ day' = d
                     /\ wanted' = [wanted EXCEPT !.today = IF d \in DOMAIN tally.days
                                                           THEN tally.days[d] ELSE 0]
  /\ UNCHANGED <<tally, dirty, enabled, tallyFile, saver, saveMutex, unsaved, running, lost,
                 failures>>

-----------------------------------------------------------------------------
(* Saving.                                                                 *)

\* The handler "stats", the end of the session, the destructor of the daemon.
WantSave(th) ==
  /\ th \in {"ipc", "ui"} /\ running = "yes" /\ events < MaxEvents
  /\ saver[th].at = "idle"
  /\ saver' = [saver EXCEPT ![th].at = "save"]
  /\ events' = events + 1
  /\ UNCHANGED <<tally, dirty, enabled, tallyFile, saveMutex, unsaved, day, running, wanted, lost,
                 failures>>

\* The handler "stats.reset"
Reset ==
  /\ running = "yes" /\ events < MaxEvents
  /\ saver["ipc"].at = "idle"
  /\ tally' = [Empty EXCEPT !.emptied = tally.emptied + 1]
  /\ dirty' = TRUE
  /\ wanted' = [total |-> 0, today |-> 0]
  /\ saver' = [saver EXCEPT !["ipc"].at = "save"]
  /\ events' = events + 1
  /\ UNCHANGED <<enabled, tallyFile, saveMutex, unsaved, day, running, lost, failures>>

NothingToSave(th) ==
  /\ saver[th].at = "save" /\ saveMutex = Unheld /\ ~dirty
  /\ saver' = [saver EXCEPT ![th] = Idle]
  /\ UNCHANGED <<tally, dirty, enabled, tallyFile, saveMutex, unsaved, day, running, wanted, lost,
                 events, failures>>

\* save(): the tally is marked saved and made into text.
TakeText(th) ==
  /\ saver[th].at = "save" /\ saveMutex = Unheld /\ dirty
  /\ saveMutex' = th
  /\ dirty' = FALSE
  /\ saver' = [saver EXCEPT ![th] = [at |-> "write", text |-> tally]]
  /\ UNCHANGED <<tally, enabled, tallyFile, unsaved, day, running, wanted, lost, events, failures>>

Release(th) ==
  /\ saveMutex' = IF saveMutex = th THEN Unheld ELSE saveMutex
  /\ saver' = [saver EXCEPT ![th] = Idle]

\* A mistake: the tally is marked saved when the file has been written.
WrittenThenMarked(th) ==
  /\ saver[th].at = "write"
  /\ tallyFile' = saver[th].text
  /\ dirty' = FALSE
  /\ lost' = FALSE
  /\ Release(th)
  /\ UNCHANGED <<tally, enabled, unsaved, day, running, wanted, events, failures>>

\* The text is written beside the file and moved over it.
Written(th) ==
  /\ saver[th].at = "write"
  /\ tallyFile' = saver[th].text
  /\ lost' = FALSE
  /\ Release(th)
  /\ UNCHANGED <<tally, dirty, enabled, unsaved, day, running, wanted, events, failures>>

\* It cannot be written, or not be moved: warned about only.
WriteFails(th) ==
  /\ saver[th].at = "write" /\ failures < MaxFailures
  /\ failures' = failures + 1
  /\ lost' = TRUE
  /\ Release(th)
  /\ UNCHANGED <<tally, dirty, enabled, tallyFile, unsaved, day, running, wanted, events>>

-----------------------------------------------------------------------------
(* The end of the daemon, and the next one.                                *)

\* ~Daemon() saves first; the threads that count are stopped after it.
FinalSave ==
  /\ running = "yes"
  /\ running' = "ending"
  /\ saver' = [saver EXCEPT !["main"].at = "save"]
  /\ UNCHANGED <<tally, dirty, enabled, tallyFile, saveMutex, unsaved, day, wanted, lost, events,
                 failures>>

Ended ==
  /\ running = "ending" /\ \A th \in Savers : saver[th].at = "idle"
  /\ running' = "no"
  /\ UNCHANGED <<tally, dirty, enabled, tallyFile, saver, saveMutex, unsaved, day, wanted, lost,
                 events, failures>>

\* It is killed at any moment.
Killed ==
  /\ running # "no" /\ events < MaxEvents
  /\ running' = "no"
  /\ lost' = TRUE
  /\ saver' = [th \in Savers |-> Idle] /\ saveMutex' = Unheld
  /\ UNCHANGED <<tally, dirty, enabled, tallyFile, unsaved, day, wanted, events, failures>>

\* load(): the session is counted, so there is something to save.
Load ==
  /\ running = "no" /\ events < MaxEvents
  /\ running' = "yes"
  /\ tally' = tallyFile
  /\ dirty' = TRUE /\ enabled' = TRUE /\ unsaved' = 0
  /\ lost' = FALSE
  /\ wanted' = [total |-> tallyFile.total,
                today |-> IF day \in DOMAIN tallyFile.days THEN tallyFile.days[day] ELSE 0]
  /\ events' = events + 1
  /\ UNCHANGED <<tallyFile, saver, saveMutex, day, failures>>

StatNext ==
  \/ CountLookup \/ CountOther \/ SetEnabled \/ Clock \/ Reset
  \/ FinalSave \/ Ended \/ Killed \/ Load
  \/ \E th \in Savers : \/ WantSave(th) \/ NothingToSave(th) \/ TakeText(th)
                         \/ Written(th) \/ WriteFails(th)

StatSpec == StatInit /\ [][StatNext]_svars

-----------------------------------------------------------------------------
\* An older tally is never written over a newer one: what the file says of a tally
\* only grows, until the tally is emptied; and an emptied one does not come back.
FileNeverGoesBack ==
  [][\/ tallyFile'.emptied > tallyFile.emptied
     \/ tallyFile'.emptied = tallyFile.emptied /\ tallyFile'.total >= tallyFile.total]_tallyFile

\* What was counted is kept: whenever nothing is left to save or being saved and no
\* write failed, the file holds everything counted since the tally was emptied, and
\* for this day everything counted on it.
SavedIsKept ==
  (~dirty /\ saveMutex = Unheld /\ ~lost /\ (\A th \in Savers : saver[th].at # "write")) =>
     /\ tallyFile.total = wanted.total
     /\ wanted.today > 0 => day \in DOMAIN tallyFile.days /\ tallyFile.days[day] = wanted.today
=============================================================================
