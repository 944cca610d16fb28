---------------------------- MODULE PopupPromise ----------------------------
(***************************************************************************)
(* What the lookup pipeline promises whoever looks at the screen: a popup  *)
(* belongs to something asked for since popups were last closed.  However  *)
(* late an image, a translation or a check mark comes, it never brings     *)
(* back what was closed.  `asked`, `closed` and `shown` are generations:   *)
(* the latest request, the one popups were last closed at, and the one the *)
(* popup on screen belongs to (0: none).                                   *)
(***************************************************************************)
EXTENDS Naturals

VARIABLES asked, closed, shown

promiseVars == <<asked, closed, shown>>

Init == asked = 0 /\ closed = 0 /\ shown = 0

\* A request may be made in the same step as something is shown or closed: a
\* click outside asks for nothing more, a kept turn of the wheel asks again.
Ask == asked' \in {asked, asked + 1}

Show  == /\ Ask
         /\ shown' \in (closed + 1) .. asked
         /\ UNCHANGED closed

Close == /\ Ask
         /\ closed' = asked'
         /\ shown' = 0

AskOnly == /\ Ask
           /\ UNCHANGED <<closed, shown>>

Next == Show \/ Close \/ AskOnly

Spec == Init /\ [][Next]_promiseVars
=============================================================================
