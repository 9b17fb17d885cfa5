----------------------------- MODULE Dispatcher -----------------------------
(***************************************************************************)
(* The dispatcher (train/dispatcher.c): a server that knows which task     *)
(* drives each train and which conductor routes it, and adds trains one at *)
(* a time.  A request is handled in one step; what it does to the          *)
(* dispatcher and to the other tasks is computed on a pair of both, a      *)
(* World, because one handler may go on as another.                        *)
(***************************************************************************)
EXTENDS SensorServer, Functions

CONSTANTS
  Numbers,   (* train numbers                              *)
  MaxTrains, (* MAX_NUM_OF_TRAINS                          *)
  Pool,      (* the tids of each kind of task, by train    *)
  User      (* the TrainUserTask                          *)

Kinds == {"train", "creator", "conductor"}
Tids  == UNION Range(Pool)

ASSUME DispatcherAssumption ==
  /\ Numbers \subseteq Nat \ {0}
  /\ MaxTrains \in Nat \ {0}
  /\ Pool \in [Kinds \X Numbers -> SUBSET (Nat \ {0})]
  /\ \A p, q \in Kinds \X Numbers : p # q => Pool[p] \cap Pool[q] = {}
  /\ \A p \in Kinds \X Numbers : \A a, b \in Tids \cup {NOTASK} : Pool[p] \ {a, b} # {}
  /\ NOTASK \notin Nat /\ User \notin Tids \cup {0, NOTASK}

VARIABLES
  dispatcher, (* the locals of Dispatcher()                                 *)
  tasks       (* the living tasks that it creates or answers: what each is, *)
              (* where it is in its code, and its locals                    *)

World == [disp |-> dispatcher, tasks |-> tasks]
Becomes(w) == dispatcher' = w.disp /\ tasks' = w.tasks

(* A status: a tid, OK, or a negative number. *)
OK    == 0
ERROR == NOTASK

EmptySlot == [train |-> NOTASK, number |-> 0, conductor |-> 0]
NoTrains == [slots |-> [i \in 1 .. MaxTrains |-> EmptySlot], count |-> 0,
             waiting |-> NOTASK, creating |-> NOTASK, queue |-> <<>>]

(* getDispatcherNode: the first slot with the number, whether its train is
   there or not; 0 if there is none. *)
NodeOf(w, tr) ==
  LET at == {i \in 1 .. MaxTrains : w.disp.slots[i].number = tr} IN
  IF at = {} THEN 0 ELSE Min(at)
-----------------------------------------------------------------------------
(* Tasks.  A tid comes back long after its task is gone: a new task has one that
   nothing refers to. *)
Mentioned(w) ==
  DOMAIN w.tasks \cup ToSet(anyone)
    \cup (UNION {{w.disp.slots[i].train, w.disp.slots[i].conductor} : i \in 1 .. MaxTrains})
    \cup {w.disp.queue[i].callee : i \in DOMAIN w.disp.queue}
    \cup {w.tasks[t].callee : t \in {x \in DOMAIN w.tasks : w.tasks[x].kind = "creator"}}
Fresh(w, kind, tr) == Min(Pool[<<kind, tr>>] \ Mentioned(w))

Create(w, t, task) ==
  [w EXCEPT !.tasks = [x \in DOMAIN @ \cup {t} |-> IF x = t THEN task ELSE @[x]]]
Destroy(w, t)     == [w EXCEPT !.tasks = Restrict(@, DOMAIN @ \ {t})]
SetTask(w, t, at) == [w EXCEPT !.tasks[t].at = at]

(* How a task goes on when it is answered: what the dispatcher and the couriers
   know of it is its tid only, and the answer ends whatever Send it is blocked in. *)
Resumed(task, status) ==
  CASE task.at = "adding"     -> [task EXCEPT !.at = IF status = ERROR THEN "idle" ELSE "added"]
    [] task.at = "creating"   -> [task EXCEPT !.at = IF status = ERROR THEN "failed" ELSE "created"]
    [] task.at = "readding"   -> [task EXCEPT !.train = status,
                                              !.at = IF status = ERROR THEN "quit" ELSE "resting"]
    [] task.at = "requitting" -> [task EXCEPT !.at = "arrived"]
    [] task.at = "turning"    -> [task EXCEPT !.at = "turn"]
    [] task.at = "pausing"    -> [task EXCEPT !.at = "retry"]
    [] task.at = "resting"    -> [task EXCEPT !.at = "plan"]
    [] task.at = "driving"    -> [task EXCEPT !.at = "panic"]
    [] task.at = "moving"     -> [task EXCEPT !.at = "leaving"]
    [] OTHER -> task

Reply(w, t, status) ==
  IF t \in DOMAIN w.tasks THEN [w EXCEPT !.tasks[t] = Resumed(@, status)] ELSE w
-----------------------------------------------------------------------------
(* addDispatcherTrain, and what its callers make of its result: a courier finds
   the train, unless it is told where it is. *)
StartCreator(w, tr, sensor, callee) ==
  LET t == Fresh(w, "creator", tr) IN
  IF w.disp.count < MaxTrains
  THEN [Create(w, t, [kind |-> "creator", at |-> IF sensor = NOTASK THEN "seeking" ELSE "located",
                      number |-> tr, sensor |-> sensor, callee |-> callee, train |-> NOTASK])
          EXCEPT !.disp.waiting = tr, !.disp.creating = t]
  ELSE [Reply(w, callee, ERROR) EXCEPT !.disp.waiting = tr, !.disp.creating = NOTASK]

(* addnode: the courier that is adding this train already is replaced; a train
   that has to wait for another is queued, and the caller is answered at once. *)
AddNode(w, tr, sensor, callee) ==
  IF w.disp.waiting \notin {tr, NOTASK}
  THEN [Reply(w, callee, OK) EXCEPT !.disp.queue = Append(@, [number |-> tr, callee |-> NOTASK])]
  ELSE IF w.disp.waiting = tr /\ w.disp.creating = NOTASK THEN Reply(w, callee, OK)
  ELSE StartCreator(Destroy(w, w.disp.creating), tr, sensor, callee)

(* readd: the same for a train in slot i that was lost; its conductor waits.  A
   mutant keeps the train in its slot. *)
ReAddKept(w, i, tr, callee) ==
  IF w.disp.waiting = NOTASK THEN StartCreator(w, tr, NOTASK, callee)
  ELSE [w EXCEPT !.disp.queue = Append(@, [number |-> tr, callee |-> callee])]

ReAdd(w, i, tr, callee) ==
  LET slot == w.disp.slots[i] IN
  IF w.disp.waiting \notin {tr, NOTASK}
  THEN IF slot.train = NOTASK THEN Reply(w, callee, IF slot.conductor = NOTASK THEN OK ELSE ERROR)
       ELSE [w EXCEPT !.disp.queue = Append(@, [number |-> tr, callee |-> callee])]
  ELSE IF w.disp.waiting = tr /\ w.disp.creating = NOTASK THEN Reply(w, callee, ERROR)
  ELSE StartCreator([Destroy(w, w.disp.creating) EXCEPT !.disp.slots[i].train = NOTASK,
                                                        !.disp.count = @ - 1],
                    tr, NOTASK, callee)

(* TRM_CREATE_TRAIN, from courier t: the train gets the first free slot, whoever
   waits for it becomes its conductor, and the next train in the queue is added
   or added again.  A mutant does not look at the queue. *)
Entered(w, t, i) ==
  [Reply(w, t, OK) EXCEPT
     !.disp.slots[i] = [train |-> w.tasks[t].train, number |-> w.tasks[t].number,
                        conductor |-> w.tasks[t].callee],
     !.disp.count = @ + 1, !.disp.waiting = NOTASK, !.disp.creating = NOTASK]

Dequeued(w) ==
  IF w.disp.queue = <<>> THEN w
  ELSE LET next == Head(w.disp.queue)
           v    == [w EXCEPT !.disp.queue = Tail(@)]
           i    == NodeOf(w, next.number)
       IN IF i = 0 \/ next.callee = NOTASK THEN AddNode(v, next.number, NOTASK, next.callee)
          ELSE ReAdd(v, i, next.number, next.callee)

CreateTrainAlone(w, t) ==
  LET free == {i \in 1 .. MaxTrains : w.disp.slots[i].train = NOTASK} IN
  IF free = {} THEN Reply(w, t, ERROR) ELSE Entered(w, t, Min(free))

CreateTrain(w, t) ==
  LET free == {i \in 1 .. MaxTrains : w.disp.slots[i].train = NOTASK} IN
  IF free = {} THEN Reply(w, t, ERROR) ELSE Dequeued(Entered(w, t, Min(free)))

(* TRM_GOTO_STOP: the conductor, or the user's task that added the train, is
   answered, and the train has no conductor. *)
StopRoute(w, tr) ==
  LET i == NodeOf(w, tr) IN
  IF i = 0 \/ w.disp.slots[i].conductor = NOTASK THEN w
  ELSE [Reply(w, w.disp.slots[i].conductor, OK) EXCEPT !.disp.slots[i].conductor = NOTASK]

(* TRM_GOTO and TRM_MOVE: a new conductor, in the place of the present one; a
   mutant does not destroy that one. *)
Conducted(w, tr, at) ==
  LET i == NodeOf(w, tr)
      t == Fresh(w, "conductor", tr)
  IN [Create(w, t, [kind |-> "conductor", at |-> at, number |-> tr,
                    train |-> w.disp.slots[i].train]) EXCEPT !.disp.slots[i].conductor = t]

RouteBeside(w, tr, at) == IF NodeOf(w, tr) = 0 THEN w ELSE Conducted(w, tr, at)

Route(w, tr, at) ==
  IF NodeOf(w, tr) = 0 THEN w
  ELSE Conducted(Destroy(w, w.disp.slots[NodeOf(w, tr)].conductor), tr, at)

(* TRM_GET gives the train's task to those who may use it. *)
Available(w, tr) == NodeOf(w, tr) # 0 /\ w.disp.slots[NodeOf(w, tr)].conductor = NOTASK
=============================================================================
