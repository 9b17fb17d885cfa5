------------------------------- MODULE Transit -------------------------------
(***************************************************************************)
(* The transit system (tasks/transit.c): stations with passengers, trains  *)
(* that carry them, and where each train is sent next.  MrBonesWildRide    *)
(* answers a request before any other task that is modelled can run, also  *)
(* when it sends a train on (DispatchRoute): a request is one step.        *)
(***************************************************************************)
EXTENDS Integers, Sequences, SequencesExt, Loops

CONSTANTS
  Places,      (* the sensors: stations are at some of them               *)
  Numbers,     (* train numbers                                           *)
  Seats,       (* TRAIN_MAX_NUM: what a train has is at its number % Seats *)
  MaxStations, (* MAX_NUM_STATIONS                                        *)
  MaxPeople,   (* MAX_NUM_PEDESTRIANS                                     *)
  Groups,      (* how many passengers may be asked for at once            *)
  NONE,        (* -1: no train, no station                                *)
  Requests     (* of the users and of the spawning pool, in all           *)

ASSUME TransitAssumption ==
  /\ Places \subseteq Nat /\ IsFiniteSet(Places) /\ Numbers \subseteq Nat \ {0} /\ Groups \subseteq Nat
  /\ {Seats, MaxStations, MaxPeople} \subseteq Nat \ {0} /\ Requests \in Nat
  /\ NONE \notin Places \cup Numbers

VARIABLES
  stations, (* train_stations                                          *)
  count,    (* num_of_stations                                         *)
  trains,   (* train_reservations                                      *)
  free,     (* how many pedestrians are in the list of those not in use *)
  people,   (* num_of_pedestrians, how many more may be taken from it  *)
  route,    (* where the dispatcher has a conductor take each train    *)
  fuel

system == <<stations, count, trains, free, people>>
vars   == <<system, route, fuel>>

Person == [destination : Places, weight : Nat \ {0}]
NoStation == [active |-> FALSE, passengers |-> 0, serviced |-> NONE, waiting |-> <<>>]
NoTrain   == [tr |-> NONE, destination |-> NONE, onBoard |-> 0, passengers |-> <<>>]
Seat(tr) == tr % Seats
-----------------------------------------------------------------------------
(* boardTrain: everybody who waits; a mutant leaves them on the platform, too. *)
Boarded(train, station) ==
  [train EXCEPT !.passengers = Reverse(station.waiting) \o @,
                !.onBoard = @ + Len(station.waiting)]

EmptiedInName(station) == [station EXCEPT !.passengers = 0]

Emptied(station) == [station EXCEPT !.waiting = <<>>, !.passengers = 0]

(* Who gets off at s, by their place, and who goes on, in the opposite order. *)
GetsOff(train, s) == {k \in DOMAIN train.passengers : train.passengers[k].destination = s}

Rides(train, s) ==
  LET ask == [k \in DOMAIN train.passengers |-> [on \in Seq(Person) |->
        IF k \in GetsOff(train, s) THEN on
        ELSE <<[train.passengers[k] EXCEPT !.weight = @ + 1]>> \o on]]
  IN Loop(ask, <<>>, Len(train.passengers))

(* findOptimalNextStation: the station that first becomes the heaviest, as the
   weights of those on board are summed up; stations that are serviced do not
   count.  Without one, the station where most wait. *)
Sums == [weights : [Places -> Nat], best : Places \cup {NONE}]

Heaviest(st, passengers) ==
  LET add == [k \in DOMAIN passengers |-> [sum \in Sums |->
        LET p == passengers[k]
            w == [sum.weights EXCEPT ![p.destination] = @ + p.weight]
        IN IF st[p.destination].serviced # NONE THEN sum
           ELSE [weights |-> w,
                 best |-> IF sum.best = NONE \/ w[p.destination] > w[sum.best]
                          THEN p.destination ELSE sum.best]]]
  IN Loop(add, [weights |-> [s \in Places |-> 0], best |-> NONE], Len(passengers)).best

Busiest(st) ==
  LET waits == {s \in Places : /\ st[s].active /\ st[s].waiting # <<>>
                               /\ st[s].serviced = NONE}
      most  == {s \in waits : \A q \in waits : st[q].passengers <= st[s].passengers}
  IN IF most = {} THEN NONE ELSE Min(most)

Optimal(st, passengers) ==
  LET s == Heaviest(st, passengers) IN IF s # NONE THEN s ELSE Busiest(st)

(* getRandomTrainStation looks at no more stations than there are. *)
Open(st) ==
  LET unserviced == {s \in Places : st[s].active /\ st[s].serviced = NONE} IN
  {s \in unserviced : Cardinality({q \in unserviced : q < s}) < count}
-----------------------------------------------------------------------------
(* checkNonBusyTrain: the first train without a destination takes on board who
   waits at s, wherever that train is, and is sent there. *)
Resting == {i \in DOMAIN trains : trains[i].tr # NONE /\ trains[i].destination = NONE}

Send(st, s) ==
  IF Resting = {} THEN stations' = st /\ UNCHANGED <<trains, route>>
  ELSE LET i == Min(Resting) IN
       /\ trains' = [trains EXCEPT ![i] = [Boarded(@, st[s]) EXCEPT !.destination = s]]
       /\ stations' = [st EXCEPT ![s] = Emptied(@)]
       /\ route' = [route EXCEPT ![trains[i].tr] = s]

(* New passengers at s, as many as there are pedestrians left, each with a
   destination; when there is none to go to, one is counted who is not there.
   A mutant does not look at how many are left. *)
LeftUnasked(k) == k
Left(k) == Min({people, k})

Generate(st, s, k) ==
  IF k = 0 \/ Open(st) # {}
  THEN \E to \in [1 .. k -> Open(st)] :
         LET new == [i \in 1 .. k |-> [destination |-> to[i], weight |-> 1]] IN
         /\ Send([st EXCEPT ![s].waiting = new \o @, ![s].passengers = @ + k], s)
         /\ people' = people - k /\ free' = free - k
  ELSE /\ Send([st EXCEPT ![s].passengers = @ + 1], s)
       /\ people' = people - 1 /\ UNCHANGED free

(* TRAIN_STATION_SPAWN: the first station has no passengers. *)
Spawn(s, k) ==
  /\ count < MaxStations /\ ~stations[s].active
  /\ count' = count + 1
  /\ LET st == [stations EXCEPT ![s].active = TRUE] IN
     IF count = 0 THEN Send(st, s) /\ UNCHANGED <<people, free>> ELSE Generate(st, s, Left(k))

(* TRAIN_STATION_ADD_PASSENGERS. *)
AddPassengers(s, k) ==
  /\ stations[s].active /\ people > 0
  /\ Generate(stations, s, Left(k))
  /\ UNCHANGED count

(* TRAIN_STATION_REMOVE: those who wait are gone; those on their way to s stay
   on board, and a train that comes to s still does. *)
RemoveStation(s) ==
  /\ stations[s].active
  /\ stations' = [stations EXCEPT ![s] = [Emptied(@) EXCEPT !.active = FALSE]]
  /\ free' = free + Len(stations[s].waiting)
  /\ people' = people + Len(stations[s].waiting)
  /\ count' = count - 1
  /\ UNCHANGED <<trains, route>>

(* TRAIN_STATION_SHUTDOWN: all is forgotten but how many pedestrians were left,
   and the conductors of the trains. *)
Shutdown ==
  /\ stations' = [s \in Places |-> NoStation]
  /\ trains' = [i \in DOMAIN trains |-> NoTrain]
  /\ free' = MaxPeople /\ count' = 0
  /\ UNCHANGED <<people, route>>

(* TRAIN_STATION_ARRIVAL: passengers get off, if there is a station, and board;
   the train goes on, or rests.  A train whose seat another one has is left
   alone.  A mutant leaves the station marked. *)
Arrive(tr, s, st) ==
  LET seat  == trains[Seat(tr)]
      off   == IF stations[s].active THEN Cardinality(GetsOff(seat, s)) ELSE 0
      rides == IF stations[s].active THEN Rides(seat, s) ELSE seat.passengers
      train == Boarded([seat EXCEPT !.tr = tr, !.passengers = rides, !.onBoard = @ - off], st[s])
      next  == Optimal([st EXCEPT ![s] = Emptied(@)], train.passengers)
  IN /\ trains' = [trains EXCEPT ![Seat(tr)] = [train EXCEPT !.destination = next]]
     /\ stations' = [p \in Places |->
          [(IF p = s THEN Emptied(st[p]) ELSE st[p]) EXCEPT !.serviced = IF p = next THEN tr ELSE @]]
     /\ free' = free + off
     /\ route' = [route EXCEPT ![tr] = next]

ArrivalMarked(tr, s) ==
  IF trains[Seat(tr)].tr \in {tr, NONE} THEN Arrive(tr, s, stations)
  ELSE route' = [route EXCEPT ![tr] = NONE] /\ UNCHANGED <<trains, stations, free>>

Arrival(tr, s) ==
  IF trains[Seat(tr)].tr \in {tr, NONE}
  THEN Arrive(tr, s, [stations EXCEPT ![s].serviced = NONE])
  ELSE route' = [route EXCEPT ![tr] = NONE] /\ UNCHANGED <<trains, stations, free>>
-----------------------------------------------------------------------------
Init ==
  /\ stations = [s \in Places |-> NoStation]
  /\ trains = [i \in 0 .. Seats - 1 |-> NoTrain]
  /\ count = 0 /\ free = MaxPeople /\ people = MaxPeople
  /\ route = [tr \in Numbers |-> NONE]
  /\ fuel = Requests

(* A conductor takes its train to where it was sent, or gives up, and broadcasts
   the arrival in both cases (conductor.c, done). *)
Comes(tr) == route[tr] # NONE /\ Arrival(tr, route[tr]) /\ UNCHANGED <<people, count>>

(* TrainUserTask: BROADCAST and GOTO are for trains that nobody routes. *)
Broadcast(tr, s) == route[tr] = NONE /\ Arrival(tr, s) /\ UNCHANGED <<people, count>>
Goto(tr, s) == route[tr] = NONE /\ route' = [route EXCEPT ![tr] = s] /\ UNCHANGED system

Request ==
  /\ fuel > 0 /\ fuel' = fuel - 1
  /\ \/ \E s \in Places, k \in Groups : Spawn(s, k)
     \/ \E s \in Places, k \in Groups : AddPassengers(s, k)
     \/ \E s \in Places : RemoveStation(s)
     \/ Shutdown
     \/ \E tr \in Numbers, s \in Places : Broadcast(tr, s)
     \/ \E tr \in Numbers, s \in Places : Goto(tr, s)

Next ==
  \/ Request
  \/ (\E tr \in Numbers : Comes(tr)) /\ UNCHANGED fuel

Spec == Init /\ [][Next]_vars
-----------------------------------------------------------------------------
Known == {i \in DOMAIN trains : trains[i].tr # NONE}
Everybody ==
  SumFunction([s \in Places |-> Len(stations[s].waiting)])
    + SumFunction([i \in DOMAIN trains |-> Len(trains[i].passengers)])

(* Types; and every pedestrian is in one list, where the code counts it. *)
TransitOK ==
  /\ \A s \in Places :
       /\ stations[s].active \in BOOLEAN /\ stations[s].serviced \in Numbers \cup {NONE}
       /\ stations[s].passengers >= Len(stations[s].waiting)
       /\ ~stations[s].active => stations[s].waiting = <<>>
  /\ count = Cardinality({s \in Places : stations[s].active})
  /\ \A i \in DOMAIN trains :
       /\ trains[i].tr \in {tr \in Numbers : Seat(tr) = i} \cup {NONE}
       /\ trains[i].destination \in Places \cup {NONE}
       /\ trains[i].onBoard = Len(trains[i].passengers)
       /\ \A k \in DOMAIN trains[i].passengers : trains[i].passengers[k].weight > 0
  /\ free + Everybody = MaxPeople
  /\ route \in [Numbers -> Places \cup {NONE}] /\ fuel \in 0 .. Requests

(* The list of pedestrians never runs out under a request that takes some: the
   number that may be taken is checked, and never more than there are; it is
   not given back in all the places where the list is. *)
EnoughPeople == 0 <= people /\ people <= free

(* A train that has a destination, so that no other station can call it, is on
   its way there; and a station that is serviced, so that no other train is sent
   there, is the destination of that train. *)
BusyTrainsCome ==
  /\ \A i \in DOMAIN trains :
       trains[i].destination # NONE => route[trains[i].tr] = trains[i].destination
  /\ \A s \in Places : stations[s].serviced # NONE =>
       trains[Seat(stations[s].serviced)].tr = stations[s].serviced
       /\ trains[Seat(stations[s].serviced)].destination = s

(* "Once no more stations have passengers at them and all trains have unloaded all
   their passengers, the system waits" (docs/final/final.tex:334): when all trains
   rest, nobody waits or is on board. *)
WaitsWhenDone ==
  Known # {} /\ Resting = Known =>
    /\ \A i \in Known : trains[i].passengers = <<>>
    /\ \A s \in Places : stations[s].waiting = <<>>
=============================================================================
