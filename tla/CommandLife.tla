---------------------------- MODULE CommandLife ----------------------------
(***************************************************************************)
(* What the controller promises about a command, seen from outside: it is  *)
(* issued, worked on and finished, in that order, and INTRQ follows the    *)
(* finish.  FORCE INTERRUPT takes any command back to idle and may arm     *)
(* conditions that raise INTRQ later.  A command that is about to finish   *)
(* when it is forced may still raise INTRQ once (`late').                  *)
(***************************************************************************)

VARIABLES
  stage,    \* "idle", "issued", "working", "finished"
  late,     \* a forced command finished on the clock that stopped it
  armed,    \* a FORCE INTERRUPT armed a condition
  due,      \* INTRQ rises on the next clock
  intrq

lifeVars == <<stage, late, armed, due, intrq>>

LifeInit ==
  stage = "idle" /\ late = FALSE /\ armed = FALSE /\ due = FALSE /\ intrq = FALSE

Becomes(from, to) ==
  stage = from /\ stage' = to /\ late' = FALSE /\ armed' = armed

Accept   == Becomes("idle", "issued")
Begin    == Becomes("issued", "working")
Finish   == Becomes("working", "finished")
Complete == Becomes("finished", "idle")
Wait     == \E s \in {"idle", "working"} : Becomes(s, s)

Force ==
  /\ stage' = "idle"
  /\ armed' \in BOOLEAN
  /\ late' \in BOOLEAN /\ (late' => stage = "working")

(* INTRQ rises one clock after it is due and never otherwise; the end of a *)
(* command always makes it due, an armed condition may.                    *)
Interrupt ==
  /\ stage = "finished" \/ late => due'
  /\ due' => stage = "finished" \/ late \/ armed
  /\ due => intrq'
  /\ intrq' => due \/ intrq

LifeNext == (Accept \/ Begin \/ Finish \/ Complete \/ Wait \/ Force) /\ Interrupt

LifeSpec == LifeInit /\ [][LifeNext]_lifeVars
=============================================================================
