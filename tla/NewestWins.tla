----------------------------- MODULE NewestWins -----------------------------
(***************************************************************************)
(* What is promised of translations asked for as the pointer moves: one is *)
(* made at a time, and of those waiting only the newest is kept, so none   *)
(* is made after a newer one.  Requests are numbered from 1; `asked` is    *)
(* the newest number, `waiting` and `atWork` are 0 when there is none.     *)
(***************************************************************************)
EXTENDS Naturals

VARIABLES asked, waiting, atWork

slotVars == <<asked, waiting, atWork>>

Init == asked = 0 /\ waiting = 0 /\ atWork = 0

\* A new request takes the place of the one waiting.
Ask == /\ asked' = asked + 1
       /\ waiting' = asked'
       /\ UNCHANGED atWork

Begin == /\ atWork = 0 /\ waiting # 0
         /\ atWork' = waiting
         /\ waiting' = 0
         /\ UNCHANGED asked

Finish == /\ atWork # 0
          /\ atWork' = 0
          /\ UNCHANGED <<asked, waiting>>

Next == Ask \/ Begin \/ Finish

Spec == Init /\ [][Next]_slotVars
=============================================================================
