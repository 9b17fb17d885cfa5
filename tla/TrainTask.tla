------------------------------ MODULE TrainTask ------------------------------
(***************************************************************************)
(* The task that drives one train, and its couriers (train/train_task.c).  *)
(*                                                                         *)
(* Distances are abstracted: how far the train has come, how much track it *)
(* asks for and whether its path ends soon are choices.  A handler of the  *)
(* code is several steps, so that another train may run where this one     *)
(* calls the dispatcher; pc is where the handler is.  A row of releases is *)
(* one step: nothing another train does can disturb it.                    *)
(***************************************************************************)
EXTENDS PathFind, SensorServer

CONSTANTS
  Me,         (* the train                                *)
  Couriers,   (* tids for its sensor couriers             *)
  TopSpeed,   (* TRAIN_MAX_SPEED                          *)
  GotoSpeed,  (* GOTO_SPEED                               *)
  Missable,   (* SENSOR_MISS_THRESHOLD                    *)
  Wants,      (* amounts of track a train asks for        *)
  PathLength, (* of the paths it is given, at most        *)
  Ground,     (* the nodes the other trains come to       *)
  PollSize,   (* the sensors that trip in a poll, at most        *)
  Requests,   (* what is asked of the train, in all       *)
  Chances,    (* what the others do, in all               *)
  Drivers,    (* who drives the train                     *)
  Attributed  (* the sensors a train is found at          *)

ASSUME TrainAssumption ==
  /\ Me \in Trains
  /\ Couriers \subseteq Clients
  /\ Sensors = SensorIds
  /\ {TopSpeed, GotoSpeed, Missable, PathLength} \subseteq Nat \ {0}
  /\ GotoSpeed <= TopSpeed
  /\ Wants \subseteq Nat /\ {Requests, Chances} \subseteq Nat
  /\ Attributed \subseteq Sensors

VARIABLES
  train,     (* Train_t                                                   *)
  blocked,   (* gotoBlocked # -1                                          *)
  missed,    (* numSensorMissed                                           *)
  courier,   (* the sensor courier, and waitingSensor                     *)
  timer,     (* the location timer is answered, and will come again       *)
  reverser,  (* the reverse courier: what it sends next                   *)
  shortMove, (* the short-move couriers that are still to report          *)
  pc,        (* where the task is                                         *)
  conductor, (* the task that routes the train                            *)
  fuel,      (* the requests, and the steps of others, that may still come;
                whether the train is sent on only when it is stopped      *)
  elsewhere  (* the sensor that each courier of another train was sent to *)

taskVars == <<train, blocked, missed, courier, timer, reverser, shortMove, pc, conductor>>
vars == <<switches, owner, serverVars, taskVars, elsewhere, fuel>>
-----------------------------------------------------------------------------
(* Train_t.  `path' is what is left of the path, or NULL. *)
Results == {"GOTO_COMPLETE", "GOTO_REROUTE", "GOTO_LOST", "GOTO_NONE"}
Moving(t)  == t.motion \in {"CONST_SP", "ACCEL"}
HasPath(t) == t.path # NULL /\ t.path # <<>>

(* The nodes of a row that are passed are taken off the path. *)
PassPath(t, row) ==
  LET pass == [i \in DOMAIN row |-> [path \in Seq(Nodes) |->
        IF path # <<>> /\ Head(path) = row[i] THEN Tail(path) ELSE path]]
  IN IF t.path = NULL THEN t ELSE [t EXCEPT !.path = Loop(pass, @, Len(row))]

(* updateNextSensor's search: the end of the current edge, the rest of the
   path, then the track as it is switched. *)
Onward(t) ==
  LET row == <<Dest(t.edge)>> \o (IF HasPath(t) THEN Tail(t.path) ELSE <<>>) IN
  row \o Tail(Along(Last(row), Cardinality(Nodes)))

NextSensor(t) ==
  LET row == Onward(t)
      at  == FirstIn(row, Sensors)
  IN IF at = 0 THEN NULL ELSE row[at]

(* How much track a train asks for past the end of its edge: RESV_DIST reaches
   the next sensor, or the end of the track, and more if it takes longer to stop. *)
Enough(t) ==
  LET row  == Onward(t)
      hops == IF t.next \in ToSet(row) THEN FirstIn(row, {t.next}) - 1
              ELSE Len(row) - 1
  IN {w \in Wants : w >= hops}

(* setTrainSpeed. *)
SetSpeed(t, speed) ==
  IF speed = t.speed THEN t
  ELSE [t EXCEPT !.speed = speed,
                 !.motion = IF speed < t.speed THEN "DECEL" ELSE "ACCEL",
                 !.next = IF speed = 0 THEN NextSensor(t) ELSE @]

(* updateNextSensor: a train that comes to the end of the track is stopped. *)
UpdateNext(t) ==
  LET next == NextSensor(t)
      end  == next = NULL /\ Moving(t)
  IN [(IF end THEN SetSpeed(t, 0) ELSE t) EXCEPT !.next = next]

Refused(t) == [SetSpeed(t, 0) EXCEPT !.result = "GOTO_REROUTE"]

(* push_back_resv: a node at the end already, or its reverse, is not repeated.
   NULL when an ASSERT fails. *)
Push(ring, n) ==
  IF ring = NULL THEN NULL
  ELSE IF ring = <<>> THEN <<n>>
  ELSE IF n \in Places({Last(ring)}) THEN ring
  ELSE IF n \in UNION {Follow(m) : m \in Places({Last(ring)})} THEN Append(ring, n)
  ELSE NULL

Rings == {NULL} \cup Seq(Nodes)

PushAll(ring, row) ==
  Loop([i \in DOMAIN row |-> [r \in Rings |-> Push(r, row[i])]], ring, Len(row))

(* The nodes granted are compared with the ring from where it has the first of
   them, and pushed where they differ. *)
PushGranted(ring, toResv, granted) ==
  LET base == Max({0, FirstIn(ring, {Head(toResv)}) - 1})
      add  == [i \in DOMAIN granted |-> [r \in Rings |->
        IF r # NULL /\ base + i <= Len(r) /\ r[base + i] = granted[i]
        THEN r ELSE Push(r, granted[i])]]
  IN Loop(add, ring, Len(granted))

(* How many nodes of the ring come before the first of a set. *)
Before(ring, set) ==
  LET at == FirstIn(ring, set) IN IF at = 0 THEN Len(ring) ELSE at - 1
-----------------------------------------------------------------------------
(* Where the task is: `by' is what it is doing it for; `arg' a speed (none for
   a short move), or whether the train has just stopped; `want' the track it asks for; `last' the
   end of the ring before it asks; `way' the way back to its path. *)
Place(at, by, arg) == [at |-> at, by |-> by, arg |-> arg, want |-> 0, last |-> NULL, way |-> <<>>]
Asking(by, arg, want, ring) ==
  [Place("asking", by, arg) EXCEPT !.want = want,
                                   !.last = IF ring = <<>> THEN NULL ELSE Last(ring)]
On(at) == [pc EXCEPT !.at = at]
IDLE   == Place("idle", "none", 0)
Panic  == pc' = Place("panic", "none", 0)

AtRest == pc.at = "idle"

talk     == <<blocked, conductor>>
clocks   == <<timer, shortMove, reverser>>
waiting  == <<courier, serverVars, elsewhere>>
allButPc == <<switches, owner, train, missed, talk, clocks, waiting>>

(* train.path points into the conductor's stack.  While the conductor waits it
   is the path; when it does not wait, it may be using the memory again; when it
   is gone, others do.  What is read then may be anything. *)
Readable == ~(HasPath(train) /\ conductor = "none")
ReadsStale ==
  /\ pc.at \in {"idle", "turning", "moving", "asking", "found"}
  /\ HasPath(train) /\ conductor # "waiting"
  /\ pc' = Place("corrupt", "none", 0)
  /\ UNCHANGED allButPc

(* freeHeadResv and freeTailResv for a row of nodes, which must be the train's
   or nobody's; a mutant that drops a node from the ring and keeps it. *)
LetGoKept(row, t, at) ==
  /\ train' = t /\ pc' = at
  /\ UNCHANGED owner

LetGo(row, t, at) ==
  IF \A i \in DOMAIN row : MaySwap(row[i], Me, NOBODY)
  THEN owner' = Swapped(row, NOBODY) /\ train' = t /\ pc' = at
  ELSE Panic /\ UNCHANGED <<owner, train>>
-----------------------------------------------------------------------------
(* initTrain: the train stands on an edge that starts at the sensor it was last
   at, or soon after it. *)
NewTrain(e) ==
  [edge |-> e, next |-> NULL, ring |-> <<>>, motion |-> "STOP", speed |-> 0, path |-> NULL,
   result |-> "GOTO_NONE"]
NoTrain == NewTrain(CHOOSE e \in Edges : TRUE)

Create(s, k, both) ==
  /\ pc.at = "gone"
  /\ LET row == Along(s, k + 1)
         e   == <<row[k + 1], row[k + 2]>>
         got == IF both THEN e ELSE <<Src(e)>>
     IN /\ Len(row) = k + 2
        /\ IF Swappable(got, NOBODY, Me) = Len(got)
           THEN /\ owner' = Swapped(got, Me)
                /\ train' = [UpdateNext(NewTrain(e)) EXCEPT !.ring = got]
                /\ pc' = IDLE
           ELSE Panic /\ UNCHANGED <<owner, train>>
  /\ timer' = TRUE
  /\ missed' = 0
  /\ UNCHANGED <<switches, talk, shortMove, reverser, waiting>>

(* What becomes of a sensor courier: its sensor is freed, whoever waits there,
   and then it is destroyed.  A mutant that does not free the sensor. *)
NotFreed(c) == UNCHANGED serverVars
Dismiss(c) ==
  IF c.at = "none" THEN UNCHANGED serverVars
  ELSE /\ waiter' = [waiter EXCEPT ![c.sensor] = NOTASK]
       /\ answer' = [d \in Clients |->
            IF d = c.tid THEN NONE ELSE IF d = waiter[c.sensor] THEN TIMER_TRIP ELSE answer[d]]
       /\ UNCHANGED anyone

NoCourier == [tid |-> NOTASK, at |-> "none", sensor |-> 0]

(* TRM_DELETE. *)
Delete ==
  /\ AtRest /\ conductor # "waiting"
  /\ LetGo(train.ring, NoTrain, Place("gone", "none", 0))
  /\ Dismiss(courier)
  /\ courier' = NoCourier
  /\ timer' = FALSE
  /\ shortMove' = {}
  /\ reverser' = [at |-> "none", speed |-> 0]
  /\ blocked' = FALSE
  /\ conductor' = "none"
  /\ missed' = 0
  /\ UNCHANGED <<switches, elsewhere>>
-----------------------------------------------------------------------------
(* waitOnNextTarget: the sensor waited for so far is freed, its courier
   destroyed, and a new one created for the next sensor, if that is reserved. *)
WaitOnNext ==
  /\ pc.at = "waiting"
  /\ Dismiss(courier)
  /\ IF train.next # NULL /\ owner[train.next] = Me
     THEN \E c \in Couriers :
            courier' = [tid |-> c, at |-> "handed", sensor |-> train.next]
     ELSE courier' = NoCourier
  /\ pc' = IF pc.by = "missed" THEN On("replying") ELSE IDLE
  /\ UNCHANGED <<switches, owner, train, missed, talk, clocks, elsewhere>>

(* SensorCourierTask, whose priority is below the train's. *)
CourierWaits ==
  /\ AtRest /\ courier.at = "handed"
  /\ Wait(courier.tid, courier.sensor)
  /\ courier' = [courier EXCEPT !.at = "waiting"]
  /\ UNCHANGED <<switches, owner, train, missed, talk, clocks, pc, elsewhere>>

(* sensorTrip, up to where it may ask for more track: the train is past its
   next sensor, and what it reserved up to that is freed. *)
PastSensor(t) ==
  LET n == Before(t.ring, {t.next})
      u == [t EXCEPT !.edge = IF NextNode(t.next) = NULL THEN @ ELSE NextEdge(t.next),
                     !.ring = SubSeq(@, n + 1, Len(@))]
  IN UpdateNext(PassPath(u, SubSeq(t.ring, 1, Min({n + 1, Len(t.ring)}))))

(* The callers of sensorTrip go on when it is done; a mutant that forgets to
   wait for the next sensor. *)
AfterTripDeaf(t, by) ==
  /\ train' = [t EXCEPT !.result = "GOTO_COMPLETE"]
  /\ pc' = IF by = "missed" THEN Place("replying", by, 0) ELSE IDLE

AfterTrip(t, by) ==
  IF t.next # NULL
  THEN train' = [t EXCEPT !.result = "GOTO_COMPLETE"] /\ pc' = Place("waiting", by, 0)
  ELSE IF by = "missed"
  THEN train' = SetSpeed(t, 0) /\ pc' = Place("replying", by, 0)
  ELSE train' = t /\ pc' = IDLE

Trip(t0, by) ==
  LET t      == PastSensor(t0)
      passed == SubSeq(t0.ring, 1, Before(t0.ring, {t0.next}))
  IN \/ /\ ~Moving(t)
        /\ LetGo(passed, t, Place("tripped", by, 0))
     \/ /\ t.motion # "STOP"
        /\ IF t.ring = <<>> THEN Panic /\ UNCHANGED <<owner, train>>
           ELSE \E want \in (IF Moving(t) THEN Enough(t) ELSE Wants) \ {0} :
                  LetGo(Append(passed, Head(t.ring)), [t EXCEPT !.ring = Tail(@)],
                        Asking(by, 0, want, Tail(t.ring)))

CourierReports ==
  /\ AtRest /\ Readable
  /\ courier.at = "waiting" /\ answer[courier.tid] # NONE
  /\ courier' = [courier EXCEPT !.at = "heard"]
  /\ Use(courier.tid)
  /\ missed' = 0
  /\ IF train.next = NULL THEN UNCHANGED <<owner, train, pc>> ELSE Trip(train, "courier")
  /\ UNCHANGED <<switches, talk, clocks, elsewhere>>
-----------------------------------------------------------------------------
(* reserveTrack, when the path does not start where the train stands: a way
   back to it of at most four nodes is reserved first.  findPath answers 0, not
   an error, when there is none, and the dispatcher asserts that it is asked for
   some node. *)
Overshot ==
  /\ HasPath(train) /\ train.motion = "STOP"
  /\ Head(train.path) \notin Places({Dest(train.edge)}) \cup ToSet(train.ring)

FindsWay ==
  /\ pc.at = "asking" /\ Readable /\ Overshot
  /\ LET way == FindPath(Me, train.edge, Head(train.path)) IN
     pc' = IF Len(way) > 4 THEN On("refused") ELSE [On("detour") EXCEPT !.way = way]
  /\ UNCHANGED allButPc

Detour ==
  /\ pc.at = "detour"
  /\ LET got  == SubSeq(pc.way, 1, Swappable(pc.way, NOBODY, Me))
         ring == PushAll(train.ring, got)
     IN /\ owner' = Swapped(got, Me)
        /\ IF pc.way = <<>> \/ ring = NULL THEN Panic /\ UNCHANGED train
           ELSE /\ train' = [train EXCEPT !.ring = ring]
                /\ pc' = [On(IF got = pc.way THEN "found" ELSE "refused") EXCEPT !.way = <<>>]
  /\ UNCHANGED <<switches, missed, talk, clocks, waiting>>

(* reserveTrack: track is reserved along the path, or from the end of the edge,
   for the distance wanted.  The edge from what was reserved before is taken
   off, and what is missing at the end of the track is not asked for: whether
   an empty ring ends there is read through a null pointer. *)
Reserve ==
  /\ \/ pc.at = "asking" /\ ~Overshot
     \/ pc.at = "found"
  /\ Readable
  /\ LET toResv == IF HasPath(train) THEN train.path ELSE <<Dest(train.edge)>>
         got    == Swappable(Reach(toResv, pc.want), NOBODY, Me)
         ring   == PushGranted(train.ring, toResv, SubSeq(Reach(toResv, pc.want), 1, got))
         joined == /\ got > 0 /\ train.ring # <<>>
                   /\ NextNode(Last(train.ring)) = Last(toResv)
         lacks  == Left(toResv, pc.want, got) - (IF joined THEN 1 ELSE 0)
         ends   == IF train.path = NULL THEN {FALSE}
                   ELSE IF ring = <<>> THEN BOOLEAN ELSE {Kind[Last(ring)] = "exit"}
     IN /\ owner' = Swapped(SubSeq(Reach(toResv, pc.want), 1, got), Me)
        /\ IF ring = NULL THEN Panic /\ UNCHANGED train
           ELSE /\ train' = [train EXCEPT !.ring = ring]
                /\ \E end \in ends : pc' = On(IF lacks <= 0 \/ end THEN "granted" ELSE "refused")
  /\ UNCHANGED <<switches, missed, talk, clocks, waiting>>

(* execPath: the switches in the part of the ring that is new. *)
ExecPath(ring, last) ==
  switches' = IF HasPath(train)
              THEN SwitchesFor(SubSeq(ring, Max({1, FirstIn(ring, {last})}), Len(ring)))
              ELSE switches

(* A trip that asked for nothing. *)
TripDone ==
  /\ pc.at = "tripped"
  /\ AfterTrip(train, pc.by)
  /\ UNCHANGED <<switches, owner, missed, talk, clocks, waiting>>

(* TRM_SPEED and TRM_GOTO_AFTER, once granted: what lies behind the end of the
   edge is freed, and the train starts.  When that is not in the ring the task
   never ends its loop.  A short move does not count as a speed; the couriers
   of an earlier one would be forgotten, and taken for other tasks. *)
Behind == SubSeq(train.ring, 1, Before(train.ring, {Dest(train.edge)}))

Depart ==
  /\ pc.at = "granted" /\ pc.by \in {"speed", "goto"}
  /\ LET t == [train EXCEPT !.ring = SubSeq(@, Len(Behind) + 1, Len(@))] IN
     IF t.ring = <<>>
     THEN LetGo(Behind, t, Place("hung", "none", 0)) /\ UNCHANGED <<switches, shortMove>>
     ELSE \/ /\ pc.arg > 0
             /\ LetGo(Behind, SetSpeed(t, pc.arg), On("waiting"))
             /\ IF pc.by = "goto" THEN ExecPath(t.ring, NULL) ELSE UNCHANGED switches
             /\ UNCHANGED shortMove
          \/ /\ pc.arg = 0
             /\ LetGo(Behind, t, IF shortMove = {} THEN On("waiting") ELSE Place("corrupt", "none", 0))
             /\ ExecPath(t.ring, NULL)
             /\ shortMove' = {"stop", "done"}
  /\ UNCHANGED <<missed, talk, timer, reverser, waiting>>

(* When they are refused, all but the first node of the ring is freed. *)
Undone(ring)  == SubSeq(ring, 1, Min({1, Len(ring)}))

Undo ==
  /\ pc.at = "refused" /\ pc.by \in {"speed", "goto"}
  /\ LET keep == Undone(train.ring) IN
     LetGo(SubSeq(train.ring, Len(keep) + 1, Len(train.ring)),
           [train EXCEPT !.ring = keep,
                         !.result = IF pc.by = "goto" THEN "GOTO_REROUTE" ELSE @], IDLE)
  /\ UNCHANGED <<switches, missed, talk, clocks, waiting>>
-----------------------------------------------------------------------------
(* updateLocation: for the timer, and for whoever asks where the train is.  A
   change of speed is over or not; a train that does not stand still has moved
   by some nodes. *)
Update(by) ==
  /\ AtRest
  /\ \/ by = "timer" /\ timer
     \/ by = "done" /\ conductor # "waiting"
  /\ \/ /\ train.motion \in {"ACCEL", "DECEL"}
        /\ train' = [train EXCEPT !.motion = IF train.speed > 0 THEN "CONST_SP" ELSE "STOP"]
        /\ pc' = Place("moving", by, IF train.speed > 0 THEN 0 ELSE 1)
     \/ /\ train.motion # "CONST_SP"
        /\ UNCHANGED train
        /\ pc' = Place("still", by, 0)
     \/ /\ train.motion = "CONST_SP"
        /\ UNCHANGED train
        /\ pc' = Place("moving", by, 0)
  /\ UNCHANGED <<switches, owner, missed, talk, clocks, waiting>>

(* distTraverse, for one node: the estimate does not pass the next sensor. *)
Cross ==
  /\ pc.at = "moving" /\ Readable
  /\ train.next \notin {NULL, Dest(train.edge)}
  /\ LET dest == Dest(train.edge)
         held == Moving(train) /\ train.ring # <<>> /\ Head(train.ring) = dest
         t    == [PassPath(train, <<dest>>) EXCEPT !.edge = NextEdge(dest),
                                               !.ring = IF held THEN Tail(@) ELSE @]
     IN IF NextNode(dest) = NULL THEN Panic /\ UNCHANGED <<owner, train>>
        ELSE LetGo(IF held THEN <<dest>> ELSE <<>>, t, pc)
  /\ UNCHANGED <<switches, missed, talk, clocks, waiting>>

(* freeResvOnStop: what is left is from the first to the last node of the ring
   that is an end of the edge. *)
OnEdge(t) ==
  LET ends == {i \in DOMAIN t.ring : t.ring[i] \in {Src(t.edge), Dest(t.edge)}} IN
  IF ends = {} THEN <<1, 0>> ELSE <<Min(ends), Max(ends)>>

LetGoOffEdge(t, at) ==
  LET k == OnEdge(t) IN
  LetGo(SubSeq(t.ring, 1, k[1] - 1) \o SubSeq(t.ring, k[2] + 1, Len(t.ring)),
        [t EXCEPT !.ring = SubSeq(@, k[1], k[2])], at)

(* The end of updateLocation, where the train may be near the end of its path;
   then, for the timer, the next sensor may be overdue.  So many times the train
   takes it for passed, then it is lost. *)
Arrived(t) == SetSpeed([t EXCEPT !.path = NULL, !.result = "GOTO_COMPLETE"], 0)

Located(t0, by) ==
  \E t \in {t0} \cup (IF t0.path # NULL /\ t0.speed # 0 THEN {Arrived(t0)} ELSE {}) :
    \/ /\ train' = t
       /\ pc' = IF by = "timer" THEN Place("replying", by, 0) ELSE IDLE
       /\ UNCHANGED <<owner, missed>>
    \/ /\ by = "timer" /\ t.speed # 0 /\ t.result # "GOTO_LOST" /\ Dest(t.edge) = t.next
       /\ missed' = missed + 1
       /\ IF missed' > Missable
          THEN /\ train' = SetSpeed([t EXCEPT !.result = "GOTO_LOST"], 0)
               /\ pc' = Place("replying", by, 0)
               /\ UNCHANGED owner
          ELSE Readable /\ Trip(t, "missed")

(* The train has come as far as it has.  One that has just stopped frees what
   it does not stand on; one that moves may be out of reserved track. *)
Moved ==
  /\ pc.at \in {"moving", "still", "located"} /\ pc.by # "short"
  /\ \/ /\ pc.arg = 1
        /\ LetGoOffEdge(train, IF pc.by = "timer" THEN On("replying") ELSE IDLE)
        /\ UNCHANGED missed
     \/ /\ pc.arg = 0 /\ pc.at # "located" /\ Moving(train)
        /\ \E want \in Enough(train) : pc' = Asking(pc.by, 0, want, train.ring)
        /\ UNCHANGED <<owner, missed, train>>
     \/ pc.arg = 0 /\ Located(train, pc.by)
  /\ UNCHANGED <<switches, talk, clocks, waiting>>

(* The end of a short move: the train is lost if it is past a sensor. *)
ShortMoved ==
  /\ pc.at = "moving" /\ pc.by = "short"
  /\ \/ /\ Kind[Dest(train.edge)] = "sensor"
        /\ train' = [train EXCEPT !.result = "GOTO_LOST"]
        /\ pc' = IDLE
        /\ UNCHANGED owner
     \/ LetGoOffEdge([train EXCEPT !.result = "GOTO_COMPLETE"], IDLE)
  /\ UNCHANGED <<switches, missed, talk, clocks, waiting>>

(* After a trip, or an update of its location, a train that is refused track is
   stopped. *)
Answered ==
  /\ pc.at \in {"granted", "refused"} /\ pc.by \notin {"speed", "goto"}
  /\ LET t == IF pc.at = "refused" THEN Refused(train) ELSE train IN
     IF pc.by \in {"courier", "missed"} THEN AfterTrip(t, pc.by)
     ELSE train' = t /\ pc' = On("located")
  /\ ExecPath(train.ring, pc.last)
  /\ UNCHANGED <<owner, missed, talk, clocks, waiting>>

(* The timer: the conductor is answered when the train is lost or has stopped,
   and the timer when it is not lost. *)
Replying ==
  /\ pc.at = "replying"
  /\ LET stopped == train.speed = 0 /\ train.motion = "STOP" /\ "done" \notin shortMove IN
     \E result \in {train.result} \cup (IF blocked /\ stopped /\ Kind[Dest(train.edge)] = "sensor"
                                        THEN {"GOTO_LOST"} ELSE {}) :
       /\ train' = [train EXCEPT !.result = result]
       /\ blocked' = (blocked /\ train.result # "GOTO_LOST" /\ ~stopped)
       /\ conductor' = IF blocked /\ ~blocked' /\ conductor = "waiting" THEN "awake" ELSE conductor
       /\ timer' = (result # "GOTO_LOST")
  /\ pc' = IDLE
  /\ UNCHANGED <<switches, owner, missed, shortMove, reverser, waiting>>
-----------------------------------------------------------------------------
(* What drives the train may stop it first.  The code asks nobody to. *)
MaySend == fuel.brakes => train.speed = 0

(* TRM_SPEED, which starts the train at a speed it calls invalid too. *)
SpeedTo(speed) ==
  /\ Readable
  /\ LET t == UpdateNext(train) IN
     \/ /\ speed = 0
        /\ train' = SetSpeed(t, 0)
        /\ UNCHANGED pc
     \/ /\ speed # 0 /\ MaySend
        /\ train' = t
        /\ \E want \in Enough(t) : pc' = Asking("speed", speed, want, t.ring)
  /\ UNCHANGED <<switches, owner>>

(* TRM_DIR, for a train that stands still. *)
TurnRound ==
  IF train.speed # 0 \/ train.motion # "STOP" THEN UNCHANGED <<switches, owner, train, pc>>
  ELSE LET e == ReverseEdge(train.edge) IN
       /\ train' = [train EXCEPT !.edge = e]
       /\ switches' = SwitchesFor(e)
       /\ pc' = Place("turning", "none", 0)
       /\ UNCHANGED owner

(* trainDir goes on: the end of the edge is reserved, which the train has as
   the start of the edge it was on, and the first node of the ring is freed,
   which may be that same node. *)
Turn ==
  /\ \/ /\ pc.at = "turning" /\ Readable
        /\ train' = UpdateNext(train)
        /\ IF MaySwap(Dest(train.edge), NOBODY, Me)
           THEN owner' = Swapped(<<Dest(train.edge)>>, Me) /\ pc' = On("turned")
           ELSE pc' = IDLE /\ UNCHANGED owner
     \/ /\ pc.at = "turned"
        /\ LET n    == Min({1, Len(train.ring)})
               ring == Push(SubSeq(train.ring, n + 1, Len(train.ring)), Dest(train.edge))
           IN IF ring = NULL THEN Panic /\ UNCHANGED <<owner, train>>
              ELSE LetGo(SubSeq(train.ring, 1, n), [train EXCEPT !.ring = ring], IDLE)
  /\ UNCHANGED <<switches, missed, talk, clocks, waiting>>

(* TRM_GOTO_AFTER; the path lies in the caller's memory.  What is left of it,
   which may be nothing, is all that is reserved for a short move. *)
Goto(path) ==
  /\ AtRest /\ conductor = "awake" /\ MaySend
  /\ conductor' = "waiting"
  /\ blocked' = TRUE
  /\ train' = UpdateNext([train EXCEPT !.path = path])
  /\ \/ \E want \in Enough(train') \ {0} : pc' = Asking("goto", GotoSpeed, want, train.ring)
     \/ \E want \in Wants : pc' = Asking("goto", 0, want, train.ring)
  /\ UNCHANGED <<switches, owner, missed, clocks, waiting>>

(* Who else asks: the conductor, to stop and turn the train; the user, of a
   train that nobody routes. *)
Speed(speed) ==
  /\ AtRest
  /\ \/ conductor = "none" /\ "user" \in Drivers
     \/ conductor = "awake" /\ speed = 0
  /\ SpeedTo(speed)
  /\ UNCHANGED <<missed, talk, clocks, waiting>>

Dir ==
  /\ AtRest
  /\ conductor = "awake" \/ (conductor = "none" /\ "user" \in Drivers)
  /\ TurnRound
  /\ UNCHANGED <<missed, talk, clocks, waiting>>

(* TRM_RV: a courier stops the train, turns it when it has had the time to
   stop, and starts it again. *)
Rv ==
  /\ AtRest /\ conductor = "none" /\ "user" \in Drivers /\ reverser.at = "none"
  /\ reverser' = [at |-> "stop", speed |-> train.speed]
  /\ UNCHANGED <<switches, owner, train, missed, talk, timer, shortMove, waiting, pc>>

ReverserSends ==
  /\ AtRest
  /\ \/ /\ reverser.at = "stop" /\ SpeedTo(0)
        /\ reverser' = [reverser EXCEPT !.at = "dir"]
     \/ /\ reverser.at = "dir" /\ TurnRound
        /\ reverser' = [reverser EXCEPT !.at = "go"]
     \/ /\ reverser.at = "go" /\ SpeedTo(reverser.speed)
        /\ reverser' = [at |-> "none", speed |-> 0]
  /\ UNCHANGED <<missed, talk, timer, shortMove, waiting>>

(* The couriers of a short move: the first stops the train, without a word in
   train.speed; the second tells that it has come to rest. *)
ShortMoveReports ==
  /\ AtRest
  /\ \/ /\ "stop" \in shortMove
        /\ shortMove' = shortMove \ {"stop"}
        /\ UNCHANGED pc
     \/ /\ shortMove = {"done"}
        /\ shortMove' = {}
        /\ pc' = Place("moving", "short", 0)
  /\ UNCHANGED <<switches, owner, train, missed, talk, timer, reverser, waiting>>

(* The conductor, as the train sees it: made for a route, and gone when it is
   done with it or destroyed for the next one. *)
Route ==
  /\ AtRest /\ "conductor" \in Drivers
  /\ conductor' = IF conductor = "none" THEN "awake" ELSE "none"
  /\ UNCHANGED <<switches, owner, train, missed, blocked, clocks, waiting, pc>>
-----------------------------------------------------------------------------
(* The tasks of the other trains: they reserve and free track, set switches
   where this train has no track, and wait for sensors in track they have.
   They run where it makes a difference, between the calls of the dispatcher
   that free track, look for a way and ask for track, and when the train is at
   rest. *)
Others  == Trains \ {Me}
OthersRun == pc.at \in {"idle", "gone", "asking", "detour", "found"}
Foreign == Clients \ Couriers

OtherTakes(tr, n) ==
  /\ owner[n] = NOBODY /\ MaySwap(n, NOBODY, tr)
  /\ n \in Ground
  /\ owner' = Swapped(<<n>>, tr)
  /\ UNCHANGED <<switches, taskVars, serverVars, elsewhere>>

OtherFrees(tr, n) ==
  /\ owner[n] = tr /\ MaySwap(n, tr, NOBODY)
  /\ owner' = Swapped(<<n>>, NOBODY)
  /\ UNCHANGED <<switches, taskVars, serverVars, elsewhere>>

OtherSwitches(b) ==
  /\ owner[b] # Me
  /\ \E way \in {"straight", "curved"} \ {switches[b]} : switches' = [switches EXCEPT ![b] = way]
  /\ UNCHANGED <<owner, taskVars, serverVars, elsewhere>>

OtherWaits(c, s) ==
  /\ elsewhere[c] = NOTASK /\ owner[s] \in Others
  /\ Wait(c, s)
  /\ elsewhere' = [elsewhere EXCEPT ![c] = s]
  /\ UNCHANGED <<switches, owner, taskVars>>

OtherDismisses(c) ==
  /\ elsewhere[c] # NOTASK
  /\ Dismiss([tid |-> c, at |-> "waiting", sensor |-> elsewhere[c]])
  /\ elsewhere' = [elsewhere EXCEPT ![c] = NOTASK]
  /\ UNCHANGED <<switches, owner, taskVars>>

(* The slave has polled. *)
Poll(tripped) ==
  /\ tripped # {} /\ Returned(tripped)
  /\ UNCHANGED <<switches, owner, taskVars, elsewhere>>
-----------------------------------------------------------------------------
Init ==
  /\ fuel \in [requests : {Requests}, others : {Chances}, brakes : BOOLEAN]
  /\ switches = [b \in Branches |-> "straight"]
  /\ owner = [n \in Nodes |-> NOBODY]
  /\ ServerInit
  /\ train = NoTrain
  /\ blocked = FALSE /\ missed = 0
  /\ courier = NoCourier
  /\ timer = FALSE
  /\ reverser = [at |-> "none", speed |-> 0]
  /\ shortMove = {}
  /\ pc = Place("gone", "none", 0)
  /\ conductor = "none"
  /\ elsewhere = [c \in Foreign |-> NOTASK]

(* A handler, once it is begun. *)
Handler ==
  \/ WaitOnNext \/ FindsWay \/ Detour \/ Reserve \/ Answered \/ TripDone \/ Depart \/ Undo \/ Cross
  \/ Moved \/ ShortMoved \/ Replying \/ Turn

(* A message of one of the train's own couriers. *)
Report == CourierWaits \/ CourierReports \/ ReverserSends \/ ShortMoveReports

(* The track the conductor may ask for: any that goes ahead from an end of the
   edge the train was on when the conductor asked for it. *)
Walks(n) ==
  LET longer == [k \in 1 .. PathLength |-> [paths \in SUBSET Seq(Nodes) |->
        paths \cup UNION {{Append(p, m) : m \in Ahead(Last(p))} : p \in paths}]]
  IN Loop(longer, {<<n>>}, PathLength - 1)

Request ==
  \/ \E s \in Attributed, k \in 0 .. 1, both \in BOOLEAN : Create(s, k, both)
  \/ Delete
  \/ \E path \in {NULL} \cup UNION {Walks(n) : n \in {Src(train.edge), Dest(train.edge)}} : Goto(path)
  \/ \E speed \in 0 .. TopSpeed + 1 : Speed(speed)
  \/ Dir \/ Rv \/ Route
  \/ Update("done")

Other ==
  /\ OthersRun
  /\ \/ \E tr \in Others, n \in Nodes : OtherTakes(tr, n) \/ OtherFrees(tr, n)
     \/ \E b \in Branches : OtherSwitches(b)
     \/ \E c \in Foreign : OtherDismisses(c) \/ \E s \in SensorIds : OtherWaits(c, s)
     \/ \E on \in {x \in SUBSET SensorIds : Cardinality(x) <= PollSize} : Poll(on)

Own == ReadsStale \/ Handler \/ Report \/ Update("timer")

Next ==
  \/ Own /\ UNCHANGED fuel
  \/ fuel.requests > 0 /\ Request /\ fuel' = [fuel EXCEPT !.requests = @ - 1]
  \/ fuel.others > 0 /\ Other /\ fuel' = [fuel EXCEPT !.others = @ - 1]

Spec == Init /\ [][Next]_vars
-----------------------------------------------------------------------------
(* Types; and a node and its reverse, which are the same piece of track, belong to
   the same train (cmpAndSwapResvBy, the only writer, moves both or none). *)
TrainOK ==
  /\ SwitchesOK /\ OwnerOK /\ PairsAgree /\ ServerOK
  /\ train.edge \in Edges /\ train.next \in Sensors \cup {NULL}
  /\ train.ring \in Seq(Nodes) /\ (train.path = NULL \/ train.path \in Seq(Nodes))
  /\ train.motion \in {"STOP", "CONST_SP", "ACCEL", "DECEL"}
  /\ train.speed \in 0 .. TopSpeed + 1 /\ train.result \in Results
  /\ blocked \in BOOLEAN /\ missed \in 0 .. Missable + 1
  /\ courier \in [tid : Couriers, at : {"handed", "waiting", "heard"}, sensor : Sensors]
               \cup {NoCourier}
  /\ timer \in BOOLEAN /\ shortMove \subseteq {"stop", "done"}
  /\ conductor \in {"none", "awake", "waiting"}

(* A train knows what it has: between two messages, every node that belongs to
   the train is in the row it will free, so that a deleted train leaves nothing
   reserved and a stopped one nothing but what it stands on (the frees of
   sensorTrip, freeResvOnStop, TRM_GOTO_AFTER's undo and TRM_DELETE). *)
NoLeak ==
  pc.at \in {"idle", "gone"} =>
    \A n \in Nodes : owner[n] = Me => n \in Places(ToSet(train.ring))

(* No train takes a piece of track from another: it passes through nobody's
   hands (DispatchReserveTrack asks only for RESERVED_BY_NOBODY). *)
NeverTaken ==
  [][\A n \in Nodes : {owner[n], owner'[n]} \subseteq Trains => owner'[n] = owner[n]]_owner

(* No dead task waits for a sensor: in a slot that a courier of this train is
   in, it is the train's present courier, and waits for that sensor; each
   courier is in one slot at most (FreeSensor before Destroy). *)
SlotsAreLive ==
  \A s \in SensorIds : waiter[s] \in Couriers =>
    courier = [tid |-> waiter[s], at |-> "waiting", sensor |-> s]

(* A running train is not deaf, when it is sent on only while it stands: its
   courier, if it has one, waits for the sensor it comes to next, and after a trip
   it has a new one (waitOnNextTarget after sensorTrip): "The task employs 2
   couriers, waiting on its expected next sensor [...] When the courier returns,
   the train knows that it has reached the next sensor" (docs/tc1/tc1.tex:111).
   A train that moves may be refused a path it then expects the sensor of. *)
ListensAhead ==
  fuel.brakes /\ AtRest /\ Moving(train) /\ train.next # NULL /\ courier.at # "none" =>
    courier.sensor = train.next /\ courier.at # "heard"

(* No wake-up is lost: a courier that has no answer yet is still the one its
   sensor will wake, whatever the tasks of the other trains wait for and free
   (SENSOR_WAIT refuses a second waiter; SENSOR_FREE answers the one it drops). *)
WaitersKeepTheirPlace ==
  /\ courier.at = "waiting" /\ answer[courier.tid] = NONE => waiter[courier.sensor] = courier.tid
  /\ \A c \in Foreign : elsewhere[c] # NOTASK /\ answer[c] = NONE => waiter[elsewhere[c]] = c

(* "When the awaiting sensor is tripped, it sends a message back to its parent
   to notify that the sensor has been tripped" (docs/final/final.tex:176): what
   the courier reports is a trip. *)
TripsAreReal ==
  [][courier.at = "waiting" /\ courier'.at = "heard" =>
       answer[courier.tid] = SENSOR_TRIP]_courier
=============================================================================
