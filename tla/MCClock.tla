------------------------------- MODULE MCClock -------------------------------
(* A small instance of ClockServer for TLC. *)
EXTENDS ClockServer

(* One tick, two, and what Delay(-1) passes. *)
FewAmounts == {1, 2, Word - 1}

(* The promise of Alarm, read off the server's queue. *)
Promise == INSTANCE Alarm WITH Sleepers <- Clients,
                               clock <- ticks,
                               asleep <- {queue[i] : i \in DOMAIN queue}

(* Nobody is woken early, and the count does not move on while someone is
   overdue: the clock server implements Alarm. *)
ImplementsAlarm == Promise!AlarmInit /\ [][\/ Promise!Advance
                                           \/ \E t \in Clients, d \in Words : Promise!Sleep(t, d)
                                           \/ \E s \in Promise!Overdue : Promise!Ring(s)]_<<ticks, queue>>
=============================================================================
