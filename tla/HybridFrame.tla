---------------------------- MODULE HybridFrame ----------------------------
(***************************************************************************)
(* What the report decoder promises about hybrid delivery (spec section    *)
(* 4.6, steps 3, 4 and 7, and its state machine), one report at a time:    *)
(* a report with a non-zero Contact Count starts a frame of that many      *)
(* contacts, replacing whatever was left of the previous one; a report     *)
(* with a zero count continues the frame; every report takes as many of   *)
(* the remaining contacts as it can carry.  The frame is Draining while    *)
(* contacts remain and Idle otherwise; a zero-count report while Idle      *)
(* changes nothing.                                                        *)
(***************************************************************************)
EXTENDS Naturals

CONSTANTS
  PerReport,   \* contacts one report can carry
  MaxCount     \* largest Contact Count value a report carries

VARIABLES
  total,  \* the Contact Count that started the current frame
  done,   \* contacts of the current frame taken so far
  todo    \* contacts of the current frame still to come

vars == <<total, done, todo>>

Idle     == todo = 0
Draining == todo > 0

\* The contacts a report takes of t remaining ones.
Taken(t) == IF t < PerReport THEN t ELSE PerReport

Init == total = 0 /\ done = 0 /\ todo = 0

\* A report announcing n contacts: Idle or Draining -> a new frame.
Begin(n) ==
  /\ total' = n
  /\ done' = Taken(n)
  /\ todo' = n - Taken(n)

\* A continuation report of a Draining frame.
Continue ==
  /\ Draining
  /\ done' = done + Taken(todo)
  /\ todo' = todo - Taken(todo)
  /\ UNCHANGED total

Next == (\E n \in 1 .. MaxCount : Begin(n)) \/ Continue

Spec == Init /\ [][Next]_vars
=============================================================================
