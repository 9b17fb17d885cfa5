-------------------------------- MODULE Alarm --------------------------------
(***************************************************************************)
(* What the clock server promises, without its queue: whoever asks for a   *)
(* tick that has not come is kept until it comes, no one is let go before, *)
(* and the clock does not move on while someone is overdue.                *)
(***************************************************************************)
EXTENDS Integers

CONSTANT Sleepers

VARIABLES
  clock,  (* ticks counted so far                                  *)
  asleep  (* who sleeps, and until when: a set of [tid, delay]     *)

alarmVars == <<clock, asleep>>

AlarmTypeOK ==
  /\ clock \in Nat
  /\ asleep \subseteq [tid : Sleepers, delay : Nat]

AlarmInit == clock = 0 /\ asleep = {}

Overdue == {s \in asleep : s.delay <= clock}

Sleep(t, d) ==
  /\ d > clock
  /\ \A s \in asleep : s.tid # t
  /\ asleep' = asleep \cup {[tid |-> t, delay |-> d]}
  /\ UNCHANGED clock

Advance ==
  /\ Overdue = {}
  /\ clock' = clock + 1
  /\ UNCHANGED asleep

Ring(s) ==
  /\ asleep' = asleep \ {s}
  /\ UNCHANGED clock

AlarmNext ==
  \/ Advance
  \/ \E t \in Sleepers, d \in Nat : Sleep(t, d)
  \/ \E s \in Overdue : Ring(s)

AlarmSpec == AlarmInit /\ [][AlarmNext]_alarmVars

=============================================================================
