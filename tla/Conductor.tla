------------------------------ MODULE Conductor ------------------------------
(***************************************************************************)
(* The conductors (train/conductor.c), the couriers that create trains, the *)
(* user's task (tasks/utasks.c) and the transit system, around the          *)
(* dispatcher.  Tasks that can run do so by priority; what the hardware     *)
(* brings, a delay that is over or a sensor, comes at any time.  Where a    *)
(* train goes is not modelled: what it reports is a choice.                 *)
(***************************************************************************)
EXTENDS Dispatcher

CONSTANTS
  Courier,    (* the couriers of the trains, as the sensor server sees them *)
  Awaited,    (* the sensors the trains come to                             *)
  Placed,     (* the sensors a train is put at, when it is added            *)
  Stops,      (* whether the user stops trains that are being routed        *)
  AddsAgain,  (* whether the user adds a train that waits in the queue      *)
  RoutesLost, (* whether a train that its conductor adds again is routed    *)
  Commands    (* of the user, in all                                        *)

ASSUME ConductorAssumption ==
  /\ Clients = Tids \cup {Courier} /\ Courier \notin Tids \cup {User}
  /\ Awaited \cup Placed \subseteq SensorIds
  /\ {Stops, AddsAgain, RoutesLost} \subseteq BOOLEAN
  /\ Commands \in Nat

VARIABLES
  resting, (* the trains the transit system may send for           *)
  fuel     (* the commands that may still come                     *)

vars == <<dispatcher, tasks, serverVars, resting, fuel>>

Ready == [creator   |-> {"located", "creating", "created", "failed"},
          conductor |-> {"plan", "turn", "retry", "drive", "lost", "readd", "quit", "requit",
                         "arrived", "leaving"}]
Priority == [creator |-> 9, conductor |-> 7]

(* No task above this priority can run. *)
Runs(priority) ==
  \A t \in DOMAIN tasks :
    tasks[t].kind \in DOMAIN Ready /\ tasks[t].at \in Ready[tasks[t].kind]
      => Priority[tasks[t].kind] <= priority

OfKind(w, kind) == {t \in DOMAIN w.tasks : w.tasks[t].kind = kind}
Creators   == OfKind(World, "creator")
Conductors == OfKind(World, "conductor")
TrainTasks == OfKind(World, "train")

Turns(t, at) == tasks' = [tasks EXCEPT ![t].at = at] /\ UNCHANGED dispatcher
-----------------------------------------------------------------------------
(* TrainCreateCourier: it moves the train until some sensor trips. *)
Seeks(t) ==
  /\ tasks[t].at = "seeking"
  /\ WaitAny(t) /\ Turns(t, "listening")

Hears(t) ==
  /\ tasks[t].at = "listening" /\ answer[t] # NONE
  /\ Use(t)
  /\ tasks' = [tasks EXCEPT ![t].at = "located", ![t].sensor = answer[t][2]]
  /\ UNCHANGED dispatcher

(* TrCreate. *)
Locates(t) ==
  /\ tasks[t].at = "located"
  /\ LET train == Fresh(World, "train", tasks[t].number)
         w == Create(World, train, [kind |-> "train", at |-> "up", number |-> tasks[t].number])
     IN Becomes([w EXCEPT !.tasks[t].train = train, !.tasks[t].at = "creating"])
  /\ UNCHANGED serverVars

Registers(t) ==
  /\ tasks[t].at = "creating"
  /\ Becomes(CreateTrain(World, t))
  /\ UNCHANGED serverVars

(* The caller is told the train's tid, or the train's task is destroyed; a
   mutant tells nobody. *)
FinishesSilently(t) ==
  /\ tasks[t].at \in {"created", "failed"} /\ Runs(9)
  /\ Becomes(Destroy(World, t))
  /\ UNCHANGED serverVars

Finishes(t) ==
  /\ tasks[t].at \in {"created", "failed"} /\ Runs(9)
  /\ LET w == IF tasks[t].at = "created" THEN Reply(World, tasks[t].callee, tasks[t].train)
              ELSE Destroy(World, tasks[t].train)
     IN Becomes(Destroy(w, t))
  /\ UNCHANGED serverVars

CreatorStep(t) == Seeks(t) \/ Hears(t) \/ Locates(t) \/ Registers(t) \/ Finishes(t)
-----------------------------------------------------------------------------
(* Conductor(): a new attempt, or none, because ten have failed.  The train is
   where it should be, or there is no way, or a way with some legs; one that
   starts behind the train turns it first. *)
Alive(t) == tasks[t].train \in TrainTasks

Plans(t) ==
  /\ tasks[t].at = "plan"
  /\ \/ Turns(t, "quit")
     \/ ~Alive(t) /\ Turns(t, "lost")
     \/ Alive(t) /\ \E at \in {"arrived", "resting", "turn", "drive"} : Turns(t, at)

(* TrDirection fails while the train moves: before the first leg it is stopped
   and tried again, between two legs it is tried twice. *)
TurnsTrain(t) ==
  \/ tasks[t].at \in {"turn", "retry"} /\ Turns(t, "drive")
  \/ tasks[t].at = "turn" /\ Turns(t, "turning")
  \/ tasks[t].at = "retry" /\ Turns(t, "resting")

(* TrGotoAfter; the answer of a task that is gone is a negative number, which
   is no GotoResult_t. *)
Drives(t) ==
  /\ tasks[t].at = "drive"
  /\ Turns(t, IF Alive(t) THEN "driving" ELSE "panic")

(* What the train answers: after a leg, it is turned for the next one. *)
TrainAnswers(t, result) ==
  /\ tasks[t].at = "driving" /\ Runs(6) /\ Alive(t)
  /\ \/ result = "GOTO_REROUTE" /\ Turns(t, "resting")
     \/ result = "GOTO_LOST" /\ Turns(t, "lost")
     \/ result = "GOTO_COMPLETE" /\ \E at \in {"drive", "pausing", "arrived", "resting"} : Turns(t, at)
  /\ UNCHANGED <<serverVars, resting>>

(* DispatchTrainMove's conductor. *)
Moves(t) ==
  \/ tasks[t].at = "move" /\ Turns(t, IF Alive(t) THEN "moving" ELSE "leaving")
  \/ tasks[t].at = "moving" /\ Runs(6) /\ Alive(t) /\ Turns(t, "leaving")

(* TrDelete, of a train that is lost or that is given up; a mutant keeps the
   train's task. *)
NotDeleted(t) ==
  /\ tasks[t].at \in {"lost", "quit"}
  /\ Turns(t, IF tasks[t].at = "lost" THEN "readd" ELSE "requit")

Deletes(t) ==
  /\ tasks[t].at \in {"lost", "quit"}
  /\ LET w == SetTask(World, t, IF tasks[t].at = "lost" THEN "readd" ELSE "requit") IN
     Becomes(IF Alive(t) THEN Destroy(w, tasks[t].train) ELSE w)

(* DispatchReAddTrain. *)
AsksForTrain(t) ==
  /\ tasks[t].at \in {"readd", "requit"}
  /\ LET w == SetTask(World, t, IF tasks[t].at = "readd" THEN "readding" ELSE "requitting")
         i == NodeOf(w, tasks[t].number)
     IN Becomes(IF i = 0 THEN Reply(w, t, ERROR) ELSE ReAdd(w, i, tasks[t].number, t))

(* Broadcast: the transit system may route the train on, at once. *)
Arrives(t) ==
  /\ tasks[t].at = "arrived"
  /\ \/ Turns(t, "leaving") /\ resting' = resting \cup {tasks[t].number}
     \/ Becomes(Route(World, tasks[t].number, "plan")) /\ UNCHANGED resting

(* DispatchStopRoute, and the end. *)
Leaves(t) ==
  /\ tasks[t].at = "leaving"
  /\ Becomes(Destroy(StopRoute(World, tasks[t].number), t))

ConductorStep(t) ==
  /\ Runs(7)
  /\ \/ Arrives(t)
     \/ /\ \/ Plans(t) \/ TurnsTrain(t) \/ Drives(t) \/ Moves(t) \/ Deletes(t)
           \/ AsksForTrain(t) \/ Leaves(t)
        /\ UNCHANGED resting
  /\ UNCHANGED serverVars

(* A delay is over. *)
Wakes(t) ==
  /\ tasks[t].at \in {"turning", "pausing", "resting"}
  /\ Becomes(Reply(World, t, OK))
  /\ UNCHANGED <<serverVars, resting>>
-----------------------------------------------------------------------------
(* TrainUserTask: one command at a time.  Between the two calls it makes to route
   a train nothing can happen to that train.  Whether it adds a train that waits in
   the queue, and whether a train that its conductor adds again is left alone, are
   habits.  A train that has a slot is not added: that ends in TRM_REMOVE_TRAIN,
   which writes where an argument that nobody set points (dispatcher.c:243, 413). *)
UserAt(at) == User \in DOMAIN tasks /\ tasks[User].at = at /\ Runs(5)

Losing == {"lost", "readd", "readding", "quit", "requit", "requitting"}
Routable(tr) == RoutesLost \/ \A t \in Conductors : tasks[t].number = tr => tasks[t].at \notin Losing

Add(tr, sensor) ==
  /\ UserAt("idle")
  /\ NodeOf(World, tr) = 0
  /\ AddsAgain \/ \A i \in DOMAIN dispatcher.queue : dispatcher.queue[i].number # tr
  /\ Becomes(AddNode([World EXCEPT !.tasks[User].at = "adding", !.tasks[User].number = tr],
                     tr, sensor, User))

Command(tr) ==
  /\ UserAt("idle")
  /\ \/ Available(World, tr) /\ Becomes(Route(World, tr, "plan"))
     \/ Stops /\ Becomes(StopRoute(World, tr))
     \/ Routable(tr) /\ Becomes(Route(World, tr, "move"))

UserGoesOn ==
  /\ UserAt("added")
  /\ Becomes(SetTask(StopRoute(World, tasks[User].number), User, "idle"))

(* The user tells the transit system of a train. *)
Broadcasts(tr) ==
  /\ UserAt("idle") /\ Available(World, tr)
  /\ resting' = resting \cup {tr}
  /\ UNCHANGED <<dispatcher, tasks>>

(* MrBonesWildRide has passengers for a train that rests. *)
TransitRoutes(tr) ==
  /\ tr \in resting /\ Routable(tr)
  /\ resting' = resting \ {tr}
  /\ Becomes(Route(World, tr, "plan"))

(* A courier of a train waits for a sensor. *)
TrainListens(s) ==
  /\ TrainTasks # {} /\ waiter[s] = NOTASK
  /\ Wait(Courier, s)

Poll(tripped) == tripped # {} /\ Returned(tripped)
-----------------------------------------------------------------------------
Init ==
  /\ dispatcher = NoTrains
  /\ tasks = [t \in {User} |-> [kind |-> "user", at |-> "idle", number |-> 0]]
  /\ ServerInit
  /\ resting = {}
  /\ fuel = Commands

Request ==
  /\ \/ \E tr \in Numbers : Broadcasts(tr)
     \/ /\ \/ \E tr \in Numbers, sensor \in Placed \cup {NOTASK} : Add(tr, sensor)
           \/ \E tr \in Numbers : Command(tr)
        /\ UNCHANGED resting
  /\ UNCHANGED serverVars
  /\ fuel > 0 /\ fuel' = fuel - 1

Results == {"GOTO_COMPLETE", "GOTO_REROUTE", "GOTO_LOST"}

Next ==
  \/ Request
  \/ UserGoesOn /\ UNCHANGED <<serverVars, resting, fuel>>
  \/ (\E tr \in Numbers : TransitRoutes(tr)) /\ UNCHANGED <<serverVars, fuel>>
  \/ (\E t \in Creators : CreatorStep(t)) /\ UNCHANGED <<resting, fuel>>
  \/ (\E t \in Conductors : ConductorStep(t) \/ Wakes(t)
        \/ \E r \in Results : TrainAnswers(t, r)) /\ UNCHANGED fuel
  \/ (\E s \in Awaited : TrainListens(s)) /\ UNCHANGED <<dispatcher, tasks, resting, fuel>>
  \/ (\E tripped \in SUBSET SensorIds : Poll(tripped)) /\ UNCHANGED <<dispatcher, tasks, resting, fuel>>

Spec == Init /\ [][Next]_vars

(* Couriers run, a delay ends, a command is carried out, and a train that is
   looked for comes to a sensor in the end that no other train waits for. *)
FairSpec ==
  /\ Spec
  /\ \A tr \in Numbers :
       WF_vars(/\ \E t \in Creators : tasks[t].number = tr /\ CreatorStep(t)
               /\ UNCHANGED <<resting, fuel>>)
  /\ SF_vars(\E tripped \in SUBSET SensorIds :
               /\ Unawaited(tripped) # {} /\ Poll(tripped)
               /\ UNCHANGED <<dispatcher, tasks, resting, fuel>>)
-----------------------------------------------------------------------------
Slots == {dispatcher.slots[i] : i \in 1 .. MaxTrains}

(* Types; a train has one slot. *)
DispatchOK ==
  /\ ServerOK
  /\ dispatcher.slots \in [1 .. MaxTrains ->
       [train : Tids \cup {NOTASK}, number : Numbers, conductor : Tids \cup {User, NOTASK}]
         \cup {EmptySlot}]
  /\ dispatcher.count = Cardinality({i \in 1 .. MaxTrains : dispatcher.slots[i].train # NOTASK})
  /\ \A tr \in Numbers : Cardinality({i \in 1 .. MaxTrains : dispatcher.slots[i].number = tr}) <= 1
  /\ \A t \in DOMAIN tasks : tasks[t].kind \in {"train", "creator", "conductor", "user"}
  /\ resting \subseteq Numbers /\ fuel \in 0 .. Commands

(* While a train waits to be added there is one courier that adds it, and it is
   the one the dispatcher expects (the ASSERT of TRM_CREATE_TRAIN); nothing is
   in the queue unless such a courier will come and take it out; and whoever
   waits for its train is known to a courier, or in the queue. *)
SomeoneIsCreating ==
  LET adding == {t \in Creators : tasks[t].at \notin {"created", "failed"}} IN
  /\ adding = IF dispatcher.waiting = NOTASK THEN {} ELSE {dispatcher.creating}
  /\ \A t \in adding : tasks[t].number = dispatcher.waiting
  /\ dispatcher.queue # <<>> => dispatcher.waiting # NOTASK
  /\ \A c \in DOMAIN tasks : tasks[c].at \in {"adding", "readding", "requitting"} =>
       \/ \E t \in Creators : tasks[t].callee = c
       \/ \E i \in DOMAIN dispatcher.queue : dispatcher.queue[i].callee = c

(* Two tasks never drive the same train, lost and added again or not: the old
   task is gone before the new one is made (conductor.c, lost and giving up), and
   the queue asks for no train that is there ("acting as a single point of
   contact", docs/final/final.tex:186). *)
OneTaskPerTrain ==
  \A s, t \in TrainTasks : tasks[s].number = tasks[t].number => s = t

(* A train is busy while somebody routes it, and no longer: its conductor is a
   living one, or the task that added it and will say so; and every conductor
   can be reached through its train (node->conductor). *)
BusyIsRouted ==
  /\ \A s \in Slots : s.conductor \notin {0, NOTASK} =>
       /\ s.conductor \in DOMAIN tasks
       /\ tasks[s.conductor].number = s.number /\ tasks[s.conductor].at # "idle"
  /\ \A c \in Conductors : \E s \in Slots : s.conductor = c

(* "Sensor attribution works by looking for a sensor that is being triggered
   (non-faulty trigger), which no other train currently known by the Dispatcher
   is waiting on" (docs/final/final.tex:193). *)
AttributedElsewhere ==
  [][\A t \in Tids : answer'[t] \notin {answer[t], NONE} => waiter[answer'[t][2]] = NOTASK]_answer

(* Everybody who waits for a train gets an answer: the user's task, and the
   conductor of a lost train, which may be in the queue behind others. *)
Asks(tr) ==
  \E c \in DOMAIN tasks :
    tasks[c].number = tr /\ tasks[c].at \in {"adding", "readding", "requitting"}

AddsAreAnswered == \A tr \in Numbers : Asks(tr) ~> ~Asks(tr)

(* "This should never happen..." (conductor.c:143): a conductor gets a result of
   TrGotoAfter that is none, because the train's task is gone, or because somebody
   else's request answered it. *)
ConductorsUnderstand == \A c \in Conductors : tasks[c].at # "panic"
=============================================================================
