---------------------------- MODULE SensorServer ----------------------------
(***************************************************************************)
(* The sensor server (servers/sensor_server.c): who waits for which        *)
(* sensor.  Its priority is above that of every client, so a request is    *)
(* handled in one step and answered, if it is, before the client goes on.  *)
(***************************************************************************)
EXTENDS Integers, Sequences, SequencesExt

CONSTANTS
  SensorIds,  (* 0 .. maxId - 1, in the order of a poll *)
  Clients,    (* tids that wait                         *)
  NOTASK      (* -1                                     *)

ASSUME SensorAssumption ==
  /\ SensorIds \subseteq Nat
  /\ NOTASK \notin Clients \cup SensorIds

VARIABLES
  waiter,     (* sensorQueue: the task waiting for each sensor     *)
  anyone,     (* waitAnyQueue                                      *)
  answer      (* what each client was answered and has not yet used *)

serverVars == <<waiter, anyone, answer>>

NONE        == <<>>
SENSOR_TRIP == <<"trip">>
TIMER_TRIP  == <<"freed">>
OTHER_TASK  == <<"refused">>
ThatSensor(s) == <<"sensor", s>>

Answers == {NONE, SENSOR_TRIP, TIMER_TRIP, OTHER_TASK} \cup {ThatSensor(s) : s \in SensorIds}

ServerOK ==
  /\ waiter \in [SensorIds -> Clients \cup {NOTASK}]
  /\ anyone \in Seq(Clients)
  /\ answer \in [Clients -> Answers]

ServerInit ==
  /\ waiter = [s \in SensorIds |-> NOTASK]
  /\ anyone = <<>>
  /\ answer = [c \in Clients |-> NONE]
-----------------------------------------------------------------------------
(* SENSOR_WAIT: the first to come waits, a second one is refused; a mutant
   that lets it take the place. *)
WaitTakes(c, s) ==
  /\ waiter' = [waiter EXCEPT ![s] = c]
  /\ UNCHANGED <<anyone, answer>>

Wait(c, s) ==
  /\ IF waiter[s] = NOTASK
     THEN waiter' = [waiter EXCEPT ![s] = c] /\ UNCHANGED answer
     ELSE answer' = [answer EXCEPT ![c] = OTHER_TASK] /\ UNCHANGED waiter
  /\ UNCHANGED <<anyone>>

(* SENSOR_WAIT_ANY.  What the last task with this tid was told is forgotten. *)
WaitAny(c) ==
  /\ anyone' = Append(anyone, c)
  /\ answer' = [answer EXCEPT ![c] = NONE]
  /\ UNCHANGED waiter

(* SENSOR_FREE: whoever waits for the sensor is told. *)
Free(s) ==
  /\ waiter' = [waiter EXCEPT ![s] = NOTASK]
  /\ answer' = IF waiter[s] = NOTASK THEN answer ELSE [answer EXCEPT ![waiter[s]] = TIMER_TRIP]
  /\ UNCHANGED <<anyone>>

(* SENSOR_RETURNED: the slave has polled.  A sensor that was off at the poll
   before and is on trips, and its waiter is told; the first one that nobody
   waited for is told to all that wait for any.  A mutant takes any sensor that
   tripped. *)
UnawaitedIsAny(tripped) == tripped
Unawaited(tripped)      == {s \in tripped : waiter[s] = NOTASK}

Returned(tripped) ==
  /\ answer' = [c \in Clients |->
       IF \E s \in tripped : waiter[s] = c THEN SENSOR_TRIP
       ELSE IF Unawaited(tripped) # {} /\ c \in ToSet(anyone)
         THEN ThatSensor(Min(Unawaited(tripped)))
       ELSE answer[c]]
  /\ waiter' = [s \in SensorIds |-> IF s \in tripped THEN NOTASK ELSE waiter[s]]
  /\ anyone' = IF Unawaited(tripped) = {} THEN anyone ELSE <<>>

(* The client goes on with its answer. *)
Use(c) ==
  /\ answer' = [answer EXCEPT ![c] = NONE]
  /\ UNCHANGED <<waiter, anyone>>
=============================================================================
