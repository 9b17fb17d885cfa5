--------------------------- MODULE ConductorProofs ---------------------------
(* Theorems about the dispatcher and its clients, for any trains, tids and sensors,
   and as many slots as trains.  A handler is a function from World to World, one
   that may go on as another, so the invariant is one of worlds: a lemma for each
   change a handler makes says what it keeps of WInv, and the step of each task
   puts these together. *)
EXTENDS Conductor, Facts

(* The slots, and where the code of a courier and of a conductor can be: at work
   on the tour, or without the train that it has deleted. *)
Places == 1 .. MaxTrains
Adding == {"seeking", "listening", "located", "creating"}
Gone   == {"readd", "readding", "requit", "requitting"}
Asking == {"readding", "requitting"}
AtWork == {"plan", "turn", "retry", "drive", "turning", "pausing", "resting", "driving", "move",
           "moving", "lost", "quit"}
ConductorAt == AtWork \cup Gone \cup {"arrived", "leaving"}

(* What a task of each kind is made of, by the number of its train; a slot of the
   dispatcher; and an entry of its queue. *)
UserTask == [kind : {"user"}, at : {"idle", "adding", "added"}, number : Numbers \cup {0}]
ATrain(n) == [kind : {"train"}, at : {"up"}, number : {n}]
ACreator(n) == [kind : {"creator"}, at : Adding \cup {"created"}, number : {n},
                sensor : SensorIds \cup {NOTASK}, callee : Pool[<<"conductor", n>>] \cup {User, NOTASK},
                train : Pool[<<"train", n>>] \cup {NOTASK}]
AConductor(n) == [kind : {"conductor"}, at : ConductorAt, number : {n},
                  train : Pool[<<"train", n>>] \cup {NOTASK}]
ASlot(n) == [train : Pool[<<"train", n>>] \cup {NOTASK}, number : {n},
             conductor : Pool[<<"conductor", n>>] \cup {User, NOTASK}]
AnyEntry == UNION {[number : {n}, callee : Pool[<<"conductor", n>>] \cup {NOTASK}] : n \in Numbers}
AnySlot  == {EmptySlot} \cup UNION {ASlot(n) : n \in Numbers}

(* A task is of the kind, and of the train, whose pool its tid is from. *)
IsTask(t, task) ==
  IF t = User THEN task \in UserTask
  ELSE \E n \in Numbers :
         \/ task \in ATrain(n) /\ t \in Pool[<<"train", n>>]
         \/ task \in ACreator(n) /\ t \in Pool[<<"creator", n>>]
         \/ task \in AConductor(n) /\ t \in Pool[<<"conductor", n>>]

(* A world has the fields of one. *)
Shape(w) ==
  /\ DOMAIN w = {"disp", "tasks"}
  /\ DOMAIN w.disp = {"slots", "count", "waiting", "creating", "queue"}
  /\ w.disp.slots \in [Places -> AnySlot]

(* The dispatcher does not know the train. *)
NoSlot(w, n) == \A i \in Places : w.disp.slots[i].number # n

(* Only tasks of T differ in the two worlds. *)
SameBut(w, v, T) ==
  \A t : t \notin T =>
    /\ t \in DOMAIN v.tasks <=> t \in DOMAIN w.tasks
    /\ t \in DOMAIN w.tasks => v.tasks[t] = w.tasks[t]

(* The parts of what is true of a world in every state.  First its types. *)
WType(w) ==
  /\ Shape(w)
  /\ w.disp.count \in Nat /\ w.disp.waiting \in Numbers \cup {NOTASK}
  /\ w.disp.creating \in Tids \cup {NOTASK} /\ w.disp.queue \in Seq(AnyEntry)
  /\ User \in DOMAIN w.tasks
  /\ \A t \in DOMAIN w.tasks : IsTask(t, w.tasks[t])

(* Slots fill from the first on, a train has one, and the count is of those that
   have their train. *)
Taken(w) == {i \in Places : w.disp.slots[i].train # NOTASK}
SlotsInv(w) ==
  /\ \A i, j \in Places : w.disp.slots[i].number = 0 /\ i < j => w.disp.slots[j].number = 0
  /\ \A i, j \in Places : w.disp.slots[i].number = w.disp.slots[j].number
                           /\ w.disp.slots[i].number # 0 => i = j
  /\ w.disp.count = Cardinality(Taken(w))

Is(w, t, kind) == t \in DOMAIN w.tasks /\ w.tasks[t].kind = kind

(* A courier that has not created its train yet is the one that the dispatcher
   expects, and there is one while a train waits. *)
OneAdds(w) ==
  /\ \A t : Is(w, t, "creator") /\ w.tasks[t].at \in Adding =>
       t = w.disp.creating /\ w.tasks[t].number = w.disp.waiting
  /\ w.disp.waiting # NOTASK =>
       Is(w, w.disp.creating, "creator") /\ w.tasks[w.disp.creating].at \in Adding
  /\ w.disp.waiting = NOTASK => w.disp.creating = NOTASK

(* A train has one courier, also when that has handed it over. *)
OneCreator(w) ==
  \A s, t : Is(w, s, "creator") /\ Is(w, t, "creator") /\ w.tasks[s].number = w.tasks[t].number => s = t

HasTrain(w, x, n) == Is(w, x, "train") /\ w.tasks[x].number = n

(* A slot has its living train, unless a courier is to bring one or its conductor
   has deleted it and says so. *)
SlotsHold(w) ==
  \A i \in Places : w.disp.slots[i].number # 0 =>
    /\ w.disp.slots[i].train = NOTASK <=> w.disp.slots[i].number = w.disp.waiting
    /\ \/ HasTrain(w, w.disp.slots[i].train, w.disp.slots[i].number)
       \/ /\ Is(w, w.disp.slots[i].conductor, "conductor")
          /\ w.tasks[w.disp.slots[i].conductor].at \in Gone

(* A conductor that has deleted its train waits for a new one. *)
TrainsGone(w) ==
  \A c : Is(w, c, "conductor") /\ w.tasks[c].at \in Gone =>
    \/ \A i \in Places : w.disp.slots[i].conductor = c => ~Is(w, w.disp.slots[i].train, "train")
    \/ \E t : Is(w, t, "creator") /\ w.tasks[t].at = "created" /\ w.tasks[t].callee = c

(* A train that lives is in its slot or still with its courier. *)
TrainsHeld(w) ==
  \A x : Is(w, x, "train") =>
    \/ \E i \in Places : w.disp.slots[i].number = w.tasks[x].number /\ w.disp.slots[i].train = x
    \/ \E t : /\ Is(w, t, "creator") /\ w.tasks[t].at = "creating" /\ w.tasks[t].train = x
              /\ w.tasks[t].number = w.tasks[x].number

(* A courier has the train that it created; when it tells who asked, the slot has
   it too. *)
CreatorsHold(w) ==
  \A t : Is(w, t, "creator") =>
    /\ w.tasks[t].at = "creating" => HasTrain(w, w.tasks[t].train, w.tasks[t].number)
    /\ w.tasks[t].at = "created" => \E i \in Places :
         /\ w.disp.slots[i].number = w.tasks[t].number /\ w.disp.slots[i].train = w.tasks[t].train
         /\ w.disp.slots[i].conductor = w.tasks[t].callee
         /\ HasTrain(w, w.tasks[t].train, w.tasks[t].number)

(* A conductor can be reached through the slot of its train, and drives the train
   that is there. *)
ConductorsKnown(w) ==
  \A c : Is(w, c, "conductor") => \E i \in Places :
    /\ w.disp.slots[i].number = w.tasks[c].number /\ w.disp.slots[i].conductor = c
    /\ w.tasks[c].at \in AtWork => w.tasks[c].train = w.disp.slots[i].train

(* Who routes a train is alive: a conductor, or the user that adds it. *)
ConductorsLive(w) ==
  \A i \in Places : w.disp.slots[i].conductor \notin {0, NOTASK} =>
    /\ w.disp.slots[i].conductor \in DOMAIN w.tasks
    /\ w.tasks[w.disp.slots[i].conductor].number = w.disp.slots[i].number
    /\ \/ w.tasks[w.disp.slots[i].conductor].kind = "conductor"
       \/ w.disp.slots[i].conductor = User /\ w.tasks[User].at # "idle"

(* Who waits for the train to be added: a conductor that has lost it, or the user. *)
Asker(w, c, n) ==
  \/ Is(w, c, "conductor") /\ w.tasks[c].at \in Asking /\ w.tasks[c].number = n
  \/ c = User /\ w.tasks[User].at = "adding" /\ w.tasks[User].number = n

Queue(w) == DOMAIN w.disp.queue

(* A train is in the queue once; it is not the one that is being added, nobody
   brings it, and who asked for it still waits. *)
QueueOnce(w) ==
  \A i, j \in Queue(w) : w.disp.queue[i].number = w.disp.queue[j].number => i = j

QueueAsks(w) ==
  \A i \in Queue(w) :
    /\ w.disp.queue[i].number # w.disp.waiting
    /\ \A t : Is(w, t, "creator") => w.tasks[t].number # w.disp.queue[i].number
    /\ w.disp.queue[i].callee = NOTASK => NoSlot(w, w.disp.queue[i].number)
    /\ w.disp.queue[i].callee # NOTASK => Asker(w, w.disp.queue[i].callee, w.disp.queue[i].number)

(* Whom a courier will answer waits for this train, which is a new one if it was
   the user that asked, or nobody. *)
CreatorsAsk(w) ==
  \A t : Is(w, t, "creator") =>
    /\ w.tasks[t].callee # NOTASK => Asker(w, w.tasks[t].callee, w.tasks[t].number)
    /\ w.tasks[t].at \in Adding /\ w.tasks[t].callee \in {User, NOTASK} => NoSlot(w, w.tasks[t].number)

(* Who waits, x aside, is known to a courier or in the queue. *)
AskersKnown(w, x) ==
  \A c \in DOMAIN w.tasks \ {x} : w.tasks[c].at \in {"adding", "readding", "requitting"} =>
    \/ \E t : Is(w, t, "creator") /\ w.tasks[t].callee = c
    \/ \E i \in Queue(w) : w.disp.queue[i].callee = c

(* The user routes the train that it adds, until it rests with the others. *)
UserBusy(w, rest) ==
  w.tasks[User].at # "idle" =>
    /\ w.tasks[User].number \in Numbers \ rest
    /\ \A i \in Places : w.disp.slots[i].number = w.tasks[User].number
                         => w.disp.slots[i].conductor \in {User, NOTASK}

(* The trains that the user has, and may send, are known and not being added. *)
RestKnown(w, rest) ==
  /\ rest \subseteq Numbers
  /\ \A n \in rest : ~NoSlot(w, n)
  /\ \A t : Is(w, t, "creator") /\ w.tasks[t].callee = NOTASK => w.tasks[t].number \notin rest

(* The invariant of a world, x aside: the task whose request is being handled
   waits and is nowhere yet. *)
WInv(w, x, rest) ==
  /\ WType(w) /\ SlotsInv(w) /\ OneAdds(w) /\ OneCreator(w)
  /\ SlotsHold(w) /\ TrainsGone(w) /\ TrainsHeld(w) /\ CreatorsHold(w)
  /\ ConductorsKnown(w) /\ ConductorsLive(w)
  /\ QueueOnce(w) /\ QueueAsks(w) /\ CreatorsAsk(w) /\ AskersKnown(w, x)
  /\ UserBusy(w, rest) /\ RestKnown(w, rest)
-----------------------------------------------------------------------------
LEMMA DestroyIs ==
  ASSUME NEW w, Shape(w), NEW t
  PROVE  LET v == Destroy(w, t) IN
         Shape(v) /\ v.disp = w.disp /\ SameBut(w, v, {t}) /\ t \notin DOMAIN v.tasks
BY DEF Destroy, Shape, SameBut, Restrict

LEMMA SetTaskIs ==
  ASSUME NEW w, Shape(w), NEW t \in DOMAIN w.tasks, NEW at
  PROVE  LET v == SetTask(w, t, at) IN
         /\ Shape(v) /\ v.disp = w.disp /\ SameBut(w, v, {t}) /\ t \in DOMAIN v.tasks
         /\ v.tasks[t] = [w.tasks[t] EXCEPT !.at = at]
BY DEF SetTask, Shape, SameBut

LEMMA ReplyIs ==
  ASSUME NEW w, Shape(w), NEW t, NEW status
  PROVE  LET v == Reply(w, t, status) IN
         /\ Shape(v) /\ v.disp = w.disp /\ SameBut(w, v, {t})
         /\ t \in DOMAIN v.tasks <=> t \in DOMAIN w.tasks
         /\ t \in DOMAIN w.tasks => v.tasks[t] = Resumed(w.tasks[t], status)
BY DEF Reply, Shape, SameBut

LEMMA CreateIs ==
  ASSUME NEW w, Shape(w), NEW t, NEW task
  PROVE  LET v == Create(w, t, task) IN
         /\ Shape(v) /\ v.disp = w.disp /\ SameBut(w, v, {t})
         /\ t \in DOMAIN v.tasks /\ v.tasks[t] = task
BY DEF Create, Shape, SameBut

LEMMA StartCreatorIs ==
  ASSUME NEW w, Shape(w), NEW tr, NEW sensor, NEW callee, NEW c \in Int, w.disp.count = c, c < MaxTrains
  PROVE  LET v == StartCreator(w, tr, sensor, callee)
             t == Fresh(w, "creator", tr) IN
         /\ Shape(v)
         /\ v.disp.slots = w.disp.slots /\ v.disp.count = w.disp.count /\ v.disp.queue = w.disp.queue
         /\ v.disp.waiting = tr /\ v.disp.creating = t
         /\ SameBut(w, v, {t}) /\ t \in DOMAIN v.tasks
         /\ v.tasks[t] = [kind |-> "creator", at |-> IF sensor = NOTASK THEN "seeking" ELSE "located",
                          number |-> tr, sensor |-> sensor, callee |-> callee, train |-> NOTASK]
<1> DEFINE t == Fresh(w, "creator", tr)
           task == [kind |-> "creator", at |-> IF sensor = NOTASK THEN "seeking" ELSE "located",
                    number |-> tr, sensor |-> sensor, callee |-> callee, train |-> NOTASK]
           u == Create(w, t, task)
<1>1. StartCreator(w, tr, sensor, callee) = [u EXCEPT !.disp.waiting = tr, !.disp.creating = t]
  BY DEF StartCreator
<1>2. /\ Shape(u) /\ u.disp = w.disp /\ SameBut(w, u, {t})
      /\ t \in DOMAIN u.tasks /\ u.tasks[t] = task
  BY CreateIs
<1> HIDE DEF t, task, u
<1> SUFFICES LET v == [u EXCEPT !.disp.waiting = tr, !.disp.creating = t] IN
         /\ Shape(v)
         /\ v.disp.slots = w.disp.slots /\ v.disp.count = w.disp.count /\ v.disp.queue = w.disp.queue
         /\ v.disp.waiting = tr /\ v.disp.creating = t
         /\ SameBut(w, v, {t}) /\ t \in DOMAIN v.tasks
         /\ v.tasks[t] = task
  BY <1>1 DEF t, task
<1> QED BY <1>2 DEF Shape, SameBut

LEMMA LoseIs ==
  ASSUME NEW w, Shape(w), NEW i \in Places
  PROVE  LET v == [w EXCEPT !.disp.slots[i].train = NOTASK, !.disp.count = @ - 1] IN
         /\ DOMAIN v = DOMAIN w /\ DOMAIN v.disp = DOMAIN w.disp
         /\ v.disp.count = w.disp.count - 1 /\ v.disp.queue = w.disp.queue
         /\ v.disp.waiting = w.disp.waiting /\ v.disp.creating = w.disp.creating
         /\ DOMAIN v.disp.slots = DOMAIN w.disp.slots
         /\ v.disp.slots = [w.disp.slots EXCEPT ![i] = [@ EXCEPT !.train = NOTASK]]
         /\ v.tasks = w.tasks
BY DEF Shape

LEMMA MinIs ==
  ASSUME NEW T \in SUBSET Nat, T # {}
  PROVE  Min(T) \in T /\ \A m \in T : Min(T) <= m
<1>1. \E n \in T : \A m \in T : n <= m
  BY LeastNatural
<1> QED BY <1>1 DEF Min

LEMMA NodeIs ==
  ASSUME NEW w, Shape(w), NEW n \in Numbers
  PROVE  /\ NodeOf(w, n) = 0 <=> NoSlot(w, n)
         /\ ~NoSlot(w, n) => NodeOf(w, n) \in Places /\ w.disp.slots[NodeOf(w, n)].number = n
<1> DEFINE at == {i \in Places : w.disp.slots[i].number = n}
<1>1. NodeOf(w, n) = IF at = {} THEN 0 ELSE Min(at)
  BY DEF NodeOf, Places
<1>2. at \in SUBSET Nat /\ (at = {} <=> NoSlot(w, n)) /\ 0 \notin at
  BY DispatcherAssumption DEF Places, NoSlot
<1>3. at # {} => Min(at) \in at
  BY <1>2, MinIs
<1> QED BY <1>1, <1>2, <1>3
-----------------------------------------------------------------------------
LEMMA PoolIs ==
  ASSUME NEW k \in Kinds, NEW n \in Numbers
  PROVE  /\ Pool[<<k, n>>] \subseteq Tids /\ Pool[<<k, n>>] \subseteq Nat \ {0}
         /\ User \notin Pool[<<k, n>>] /\ NOTASK \notin Pool[<<k, n>>]
<1>1. Pool[<<k, n>>] \in Range(Pool) /\ Pool[<<k, n>>] \subseteq Nat \ {0}
  BY DispatcherAssumption DEF Range
<1> QED BY <1>1, DispatcherAssumption DEF Tids

LEMMA PoolsApart ==
  ASSUME NEW k \in Kinds, NEW n \in Numbers, NEW l \in Kinds, NEW m \in Numbers,
         NEW t \in Pool[<<k, n>>], t \in Pool[<<l, m>>]
  PROVE  k = l /\ n = m
BY DispatcherAssumption

LEMMA UserApart ==
  /\ User # NOTASK /\ User # 0 /\ User \notin Tids
  /\ NOTASK \notin Tids /\ NOTASK \notin Numbers /\ NOTASK # 0
  /\ 0 \notin Numbers
<1>1. Tids \subseteq Nat
  BY DispatcherAssumption DEF Range, Tids
<1>2. NOTASK \notin Nat /\ User \notin Tids \cup {0, NOTASK} /\ Numbers \subseteq Nat \ {0}
  BY DispatcherAssumption
<1>3. NOTASK \notin Tids /\ NOTASK \notin Numbers
  BY <1>1, <1>2
<1>4. NOTASK # 0
  BY <1>2
<1>5. 0 \notin Numbers
  BY <1>2
<1>6. User # NOTASK /\ User # 0 /\ User \notin Tids
  BY <1>2
<1> QED BY <1>3, <1>4, <1>5, <1>6

LEMMA TaskIs ==
  ASSUME NEW t, NEW task, IsTask(t, task)
  PROVE  /\ task.kind = "user" <=> t = User
         /\ task.kind \in {"user", "train", "creator", "conductor"}
         /\ task.kind = "user" => task \in UserTask /\ t = User
         /\ task.kind # "user" => task.number \in Numbers /\ t \in Tids
         /\ task.kind = "train" => task \in ATrain(task.number) /\ t \in Pool[<<"train", task.number>>]
         /\ task.kind = "creator" => task \in ACreator(task.number) /\ t \in Pool[<<"creator", task.number>>]
         /\ task.kind = "conductor" => task \in AConductor(task.number) /\ t \in Pool[<<"conductor", task.number>>]
<1>1. CASE t = User
  <2>1. task \in UserTask
    BY <1>1 DEF IsTask
  <2> QED BY <1>1, <2>1 DEF UserTask
<1>2. CASE t # User
  <2>1. PICK n \in Numbers :
          \/ task \in ATrain(n) /\ t \in Pool[<<"train", n>>]
          \/ task \in ACreator(n) /\ t \in Pool[<<"creator", n>>]
          \/ task \in AConductor(n) /\ t \in Pool[<<"conductor", n>>]
    BY <1>2 DEF IsTask
  <2>2. task.number = n /\ task.kind \in {"train", "creator", "conductor"}
    BY <2>1 DEF ATrain, ACreator, AConductor
  <2>3. t \in Tids
    BY <2>1, PoolIs DEF Kinds
  <2>4. /\ task.kind = "train" => task \in ATrain(n) /\ t \in Pool[<<"train", n>>]
        /\ task.kind = "creator" => task \in ACreator(n) /\ t \in Pool[<<"creator", n>>]
        /\ task.kind = "conductor" => task \in AConductor(n) /\ t \in Pool[<<"conductor", n>>]
    BY <2>1 DEF ATrain, ACreator, AConductor
  <2> QED BY <1>2, <2>2, <2>3, <2>4
<1> QED BY <1>1, <1>2

LEMMA TrainTaskIs ==
  ASSUME NEW n \in Numbers, NEW task \in ATrain(n)
  PROVE  task.kind = "train" /\ task.at = "up" /\ task.number = n
BY DEF ATrain

LEMMA CreatorIs ==
  ASSUME NEW n \in Numbers, NEW task \in ACreator(n)
  PROVE  /\ task.kind = "creator" /\ task.at \in Adding \cup {"created"} /\ task.number = n
         /\ task.callee \in Pool[<<"conductor", n>>] \cup {User, NOTASK}
         /\ task.train \in Pool[<<"train", n>>] \cup {NOTASK}
         /\ DOMAIN task = {"kind", "at", "number", "sensor", "callee", "train"}
BY DEF ACreator

LEMMA ConductorIs ==
  ASSUME NEW n \in Numbers, NEW task \in AConductor(n)
  PROVE  /\ task.kind = "conductor" /\ task.at \in ConductorAt /\ task.number = n
         /\ task.train \in Pool[<<"train", n>>] \cup {NOTASK}
         /\ DOMAIN task = {"kind", "at", "number", "train"}
BY DEF AConductor

LEMMA UserTaskIs ==
  ASSUME NEW task \in UserTask
  PROVE  /\ task.kind = "user" /\ task.at \in {"idle", "adding", "added"} /\ task.number \in Numbers \cup {0}
         /\ DOMAIN task = {"kind", "at", "number"}
BY DEF UserTask

LEMMA ConductorGoes ==
  ASSUME NEW n \in Numbers, NEW task \in AConductor(n), NEW at \in ConductorAt
  PROVE  LET new == [task EXCEPT !.at = at] IN
         new \in AConductor(n) /\ new.at = at /\ new.train = task.train /\ new.number = n /\ new.kind = "conductor"
BY DEF AConductor

LEMMA CreatorGoes ==
  ASSUME NEW n \in Numbers, NEW task \in ACreator(n), NEW at \in Adding \cup {"created"}
  PROVE  LET new == [task EXCEPT !.at = at] IN
         /\ new \in ACreator(n) /\ new.at = at /\ new.number = n /\ new.kind = "creator"
         /\ new.callee = task.callee /\ new.train = task.train /\ new.sensor = task.sensor
BY DEF ACreator

LEMMA UserGoes ==
  ASSUME NEW task \in UserTask, NEW at \in {"idle", "adding", "added"}
  PROVE  LET new == [task EXCEPT !.at = at] IN
         new \in UserTask /\ new.at = at /\ new.number = task.number /\ new.kind = "user"
BY DEF UserTask
-----------------------------------------------------------------------------
LEMMA TasksAre ==
  ASSUME NEW w, WType(w), NEW t \in DOMAIN w.tasks
  PROVE  /\ w.tasks[t].kind = "user" <=> t = User
         /\ w.tasks[t].kind \in {"user", "train", "creator", "conductor"}
         /\ w.tasks[t].kind = "user" => w.tasks[t] \in UserTask
         /\ w.tasks[t].kind = "train" => /\ w.tasks[t].number \in Numbers /\ w.tasks[t] \in ATrain(w.tasks[t].number)
                                         /\ t \in Pool[<<"train", w.tasks[t].number>>]
         /\ w.tasks[t].kind = "creator" => /\ w.tasks[t].number \in Numbers
                                           /\ w.tasks[t] \in ACreator(w.tasks[t].number)
                                           /\ t \in Pool[<<"creator", w.tasks[t].number>>]
         /\ w.tasks[t].kind = "conductor" => /\ w.tasks[t].number \in Numbers
                                             /\ w.tasks[t] \in AConductor(w.tasks[t].number)
                                             /\ t \in Pool[<<"conductor", w.tasks[t].number>>]
<1>1. IsTask(t, w.tasks[t])
  BY DEF WType
<1> QED BY <1>1, TaskIs

LEMMA SlotIs ==
  ASSUME NEW w, Shape(w), NEW i \in Places
  PROVE  LET s == w.disp.slots[i] IN
         /\ DOMAIN s = {"train", "number", "conductor"}
         /\ s.number = 0 => s.train = NOTASK /\ s.conductor = 0
         /\ s.number # 0 => /\ s.number \in Numbers /\ s \in ASlot(s.number)
                            /\ s.train \in Pool[<<"train", s.number>>] \cup {NOTASK}
                            /\ s.conductor \in Pool[<<"conductor", s.number>>] \cup {User, NOTASK}
<1> DEFINE s == w.disp.slots[i]
<1>1. s \in AnySlot
  BY DEF Shape
<1>2. CASE s = EmptySlot
  BY <1>2 DEF EmptySlot
<1>3. CASE s # EmptySlot
  <2>1. PICK n \in Numbers : s \in ASlot(n)
    BY <1>1, <1>3 DEF AnySlot
  <2>2. s.number = n /\ n # 0
    BY <2>1, UserApart DEF ASlot
  <2> QED BY <2>1, <2>2 DEF ASlot
<1> QED BY <1>2, <1>3

LEMMA EntryIs ==
  ASSUME NEW q \in Seq(AnyEntry), NEW i \in DOMAIN q
  PROVE  /\ q[i] \in AnyEntry /\ q[i].number \in Numbers
         /\ q[i].callee \in Pool[<<"conductor", q[i].number>>] \cup {NOTASK}
<1>1. q[i] \in AnyEntry
  BY ElementOfSeq, LenProperties
<1>2. PICK n \in Numbers : q[i] \in [number : {n}, callee : Pool[<<"conductor", n>>] \cup {NOTASK}]
  BY <1>1 DEF AnyEntry
<1> QED BY <1>1, <1>2

LEMMA NobodyThere ==
  ASSUME NEW w, WType(w)
  PROVE  NOTASK \notin DOMAIN w.tasks
<1>1. \A t \in DOMAIN w.tasks : t \in Tids \cup {User}
  <2> TAKE t \in DOMAIN w.tasks
  <2>1. IsTask(t, w.tasks[t])
    BY DEF WType
  <2> QED BY <2>1, TaskIs
<1> QED BY <1>1, UserApart

(* There is one slot, one conductor and one train for each number. *)
LEMMA OneSlot ==
  ASSUME NEW w, SlotsInv(w), NEW i \in Places, NEW j \in Places, NEW n \in Numbers,
         w.disp.slots[i].number = n, w.disp.slots[j].number = n
  PROVE  i = j
BY UserApart DEF SlotsInv

LEMMA OneConductor ==
  ASSUME NEW w, WType(w), SlotsInv(w), ConductorsKnown(w),
         NEW c, NEW d, Is(w, c, "conductor"), Is(w, d, "conductor"), w.tasks[c].number = w.tasks[d].number
  PROVE  c = d
<1>1. w.tasks[c].number \in Numbers
  BY TasksAre DEF Is
<1> QED BY <1>1, OneSlot DEF ConductorsKnown

LEMMA KindIs ==
  ASSUME NEW w, WType(w), NEW t, NEW k \in Kinds, Is(w, t, k)
  PROVE  /\ w.tasks[t].number \in Numbers /\ t \in Pool[<<k, w.tasks[t].number>>]
         /\ t # User /\ t # NOTASK /\ t # 0 /\ t \in Tids
<1>1. w.tasks[t].number \in Numbers /\ t \in Pool[<<k, w.tasks[t].number>>]
  BY TasksAre DEF Is, Kinds
<1> QED BY <1>1, PoolIs

LEMMA ConductorSlot ==
  ASSUME NEW w, WType(w), SlotsInv(w), ConductorsKnown(w), ConductorsLive(w), NEW c, Is(w, c, "conductor")
  PROVE  \E i \in Places :
           /\ w.disp.slots[i].number = w.tasks[c].number /\ w.disp.slots[i].conductor = c
           /\ w.tasks[c].at \in AtWork => w.tasks[c].train = w.disp.slots[i].train
           /\ \A j \in Places : w.disp.slots[j].number = w.tasks[c].number \/ w.disp.slots[j].conductor = c => j = i
<1>1. w.tasks[c].number \in Numbers /\ c # NOTASK /\ c # 0
  BY KindIs DEF Kinds
<1>2. PICK i \in Places :
         /\ w.disp.slots[i].number = w.tasks[c].number /\ w.disp.slots[i].conductor = c
         /\ w.tasks[c].at \in AtWork => w.tasks[c].train = w.disp.slots[i].train
  BY DEF ConductorsKnown
<1>3. ASSUME NEW j \in Places, w.disp.slots[j].conductor = c
      PROVE  w.disp.slots[j].number = w.tasks[c].number
  BY <1>1, <1>3 DEF ConductorsLive
<1>4. \A j \in Places : w.disp.slots[j].number = w.tasks[c].number => j = i
  BY <1>1, <1>2, OneSlot
<1> QED BY <1>2, <1>3, <1>4

LEMMA GoesOnKeeps ==
  ASSUME NEW w, NEW rest, WInv(w, NOTASK, rest), NEW c, Is(w, c, "conductor"), NEW at,
         \/ w.tasks[c].at \in AtWork /\ at \in AtWork \cup {"arrived", "leaving"}
         \/ w.tasks[c].at = "arrived" /\ at = "leaving"
         \/ w.tasks[c].at \in {"readd", "requit"} /\ at \in Asking,
         NEW v, Shape(v), v.disp = w.disp, SameBut(w, v, {c}), c \in DOMAIN v.tasks,
         v.tasks[c] = [w.tasks[c] EXCEPT !.at = at]
  PROVE  WInv(v, c, rest) /\ (at \notin Asking => WInv(v, NOTASK, rest))
<1> DEFINE n == w.tasks[c].number
<1>1. n \in Numbers /\ w.tasks[c] \in AConductor(n) /\ c \in Pool[<<"conductor", n>>] /\ c # User
  BY TasksAre DEF WInv, Is
<1>2. /\ v.tasks[c] \in AConductor(n) /\ v.tasks[c].at = at /\ v.tasks[c].train = w.tasks[c].train
      /\ v.tasks[c].number = n /\ v.tasks[c].kind = "conductor"
  BY <1>1, ConductorGoes DEF ConductorAt, Gone, Asking
<1> HIDE DEF n
<1>3. WType(v)
  <2>1. IsTask(c, v.tasks[c])
    BY <1>1, <1>2 DEF IsTask
  <2> QED BY <1>1, <2>1 DEF WInv, WType, SameBut
<1>4. SlotsInv(v)
  BY DEF WInv, SlotsInv, Taken
<1>5. \A t, k : Is(v, t, k) <=> Is(w, t, k)
  BY <1>2 DEF Is, SameBut, n
<1>6. \A t : Is(w, t, "creator") => t # c /\ v.tasks[t] = w.tasks[t]
  BY DEF Is, SameBut
<1>7. \A x, m : HasTrain(v, x, m) <=> HasTrain(w, x, m)
  BY <1>5 DEF HasTrain, SameBut, Is
<1>8. \A d, m : Asker(w, d, m) => Asker(v, d, m)
  BY <1>1, <1>2, <1>5 DEF Asker, SameBut, AtWork, Asking, Is, WInv, WType, n
<1>9. OneAdds(v) /\ OneCreator(v)
  BY <1>5, <1>6 DEF WInv, OneAdds, OneCreator
<1>10. SlotsHold(v) /\ TrainsGone(v)
  <2>1. \A d : Is(w, d, "conductor") => (v.tasks[d].at \in Gone <=> w.tasks[d].at \in Gone)
    BY <1>2 DEF SameBut, AtWork, Gone, Asking, Is
  <2>2. SlotsHold(v)
    BY <1>5, <1>7, <2>1 DEF WInv, SlotsHold
  <2>3. TrainsGone(v)
    BY <1>5, <1>6, <2>1 DEF WInv, TrainsGone
  <2> QED BY <2>2, <2>3
<1>11. TrainsHeld(v)
  BY <1>5, <1>6, <1>7 DEF WInv, TrainsHeld, HasTrain
<1>12. CreatorsHold(v)
  BY <1>5, <1>6, <1>7 DEF WInv, CreatorsHold
<1>20. \A d : /\ d \in DOMAIN v.tasks <=> d \in DOMAIN w.tasks
              /\ d \in DOMAIN w.tasks =>
                   /\ v.tasks[d].number = w.tasks[d].number /\ v.tasks[d].kind = w.tasks[d].kind
                   /\ v.tasks[d].at \in AtWork => w.tasks[d].at \in AtWork /\ v.tasks[d].train = w.tasks[d].train
                   /\ d # c => v.tasks[d] = w.tasks[d]
  <2>1. c \in DOMAIN w.tasks /\ w.tasks[c].kind = "conductor"
    BY DEF Is
  <2> QED BY <1>2, <2>1 DEF SameBut, AtWork, Gone, Asking, n
<1>13. ConductorsKnown(v)
  BY <1>5, <1>20 DEF WInv, ConductorsKnown, Is
<1>14. ConductorsLive(v)
  <2>1. v.tasks[User] = w.tasks[User]
    BY <1>1 DEF WInv, WType, SameBut
  <2> QED BY <1>20, <2>1 DEF WInv, ConductorsLive
<1>15. QueueOnce(v) /\ QueueAsks(v)
  BY <1>5, <1>6, <1>8 DEF WInv, QueueOnce, QueueAsks, Queue, NoSlot
<1>16. CreatorsAsk(v)
  BY <1>5, <1>6, <1>8 DEF WInv, CreatorsAsk, NoSlot
<1>17. AskersKnown(v, c)
  BY <1>5, <1>6, <1>20, NobodyThere DEF WInv, AskersKnown, Queue
<1>18. UserBusy(v, rest)
  BY <1>1 DEF WInv, UserBusy, SameBut, WType
<1>19. RestKnown(v, rest)
  BY <1>5, <1>6 DEF WInv, RestKnown, NoSlot
<1>21. at \notin Asking => AskersKnown(v, NOTASK)
  BY <1>2, <1>17 DEF AskersKnown, Asking, AtWork
<1> QED BY <1>3, <1>4, <1>9, <1>10, <1>11, <1>12, <1>13, <1>14, <1>15, <1>16, <1>17, <1>18, <1>19, <1>21
        DEF WInv

LEMMA DeletesKeeps ==
  ASSUME NEW w, NEW rest, WInv(w, NOTASK, rest), NEW c, Is(w, c, "conductor"),
         w.tasks[c].at \in {"lost", "quit"}, Is(w, w.tasks[c].train, "train"),
         NEW at \in {"readd", "requit"},
         NEW v, Shape(v), v.disp = w.disp, SameBut(w, v, {c, w.tasks[c].train}), c \in DOMAIN v.tasks,
         w.tasks[c].train \notin DOMAIN v.tasks, v.tasks[c] = [w.tasks[c] EXCEPT !.at = at]
  PROVE  WInv(v, NOTASK, rest)
<1> DEFINE n == w.tasks[c].number
           x == w.tasks[c].train
<1>1. /\ n \in Numbers /\ w.tasks[c] \in AConductor(n) /\ c \in Pool[<<"conductor", n>>]
      /\ c # User /\ c # NOTASK /\ c # 0
  BY TasksAre, KindIs DEF WInv, Is, Kinds
<1>2. /\ v.tasks[c] \in AConductor(n) /\ v.tasks[c].at = at /\ v.tasks[c].train = w.tasks[c].train
      /\ v.tasks[c].number = n /\ v.tasks[c].kind = "conductor"
  BY <1>1, ConductorGoes DEF ConductorAt, Gone, Asking
<1>3. PICK i \in Places : /\ w.disp.slots[i].number = n /\ w.disp.slots[i].conductor = c
                          /\ w.disp.slots[i].train = x
                          /\ \A j \in Places : w.disp.slots[j].number = n \/ w.disp.slots[j].conductor = c => j = i
  BY ConductorSlot DEF WInv, AtWork
<1>4. x # c /\ x # User /\ x # NOTASK /\ x \in DOMAIN w.tasks /\ w.tasks[x].kind = "train"
  BY KindIs DEF Is, WInv, Kinds
<1> HIDE DEF n
<1>5. \A t : /\ t \in DOMAIN v.tasks <=> t \in DOMAIN w.tasks \ {x}
             /\ t \notin {c, x} /\ t \in DOMAIN w.tasks => v.tasks[t] = w.tasks[t]
  BY <1>4 DEF SameBut, Is
<1> HIDE DEF x
<1>6. \A t, k : k # "train" => (Is(v, t, k) <=> Is(w, t, k))
  BY <1>2, <1>4, <1>5 DEF Is
<1>7. \A t : Is(v, t, "train") <=> Is(w, t, "train") /\ t # x
  BY <1>2, <1>4, <1>5 DEF Is
<1>8. \A t : Is(w, t, "creator") => t # c /\ t # x /\ v.tasks[t] = w.tasks[t]
  BY <1>4, <1>5 DEF Is
<1>9. \A t : Is(w, t, "creator") => w.tasks[t].callee # c
  BY <1>1 DEF WInv, CreatorsAsk, Asker, Asking
<1>10. WType(v)
  <2>1. IsTask(c, v.tasks[c])
    BY <1>1, <1>2 DEF IsTask
  <2> QED BY <1>1, <1>4, <1>5, <2>1 DEF WInv, WType
<1>11. SlotsInv(v)
  BY DEF WInv, SlotsInv, Taken
<1>12. OneAdds(v) /\ OneCreator(v)
  BY <1>6, <1>8 DEF WInv, OneAdds, OneCreator
<1>13. SlotsHold(v)
  <2> SUFFICES ASSUME NEW j \in Places, w.disp.slots[j].number # 0
      PROVE  /\ w.disp.slots[j].train = NOTASK <=> w.disp.slots[j].number = w.disp.waiting
             /\ \/ HasTrain(v, w.disp.slots[j].train, w.disp.slots[j].number)
                \/ /\ Is(v, w.disp.slots[j].conductor, "conductor")
                   /\ v.tasks[w.disp.slots[j].conductor].at \in Gone
    BY DEF SlotsHold
  <2>1. CASE j = i
    BY <1>2, <1>3, <1>6, <2>1 DEF WInv, SlotsHold, Gone, Is
  <2>2. CASE j # i
    <3>1. w.disp.slots[j].number # n
      BY <1>3, <2>2
    <3>2. w.tasks[x].number = n
      BY <1>3, <1>1, UserApart DEF WInv, SlotsHold, HasTrain, Is, Gone
    <3>3. w.disp.slots[j].conductor # c
      BY <1>3, <2>2
    <3>4. HasTrain(w, w.disp.slots[j].train, w.disp.slots[j].number)
            => HasTrain(v, w.disp.slots[j].train, w.disp.slots[j].number)
      BY <1>1, <1>4, <1>5, <3>1, <3>2 DEF HasTrain, Is
    <3>5. Is(w, w.disp.slots[j].conductor, "conductor") =>
             /\ Is(v, w.disp.slots[j].conductor, "conductor")
             /\ v.tasks[w.disp.slots[j].conductor].at = w.tasks[w.disp.slots[j].conductor].at
      BY <1>4, <1>5, <1>6, <3>3 DEF Is
    <3> QED BY <3>4, <3>5 DEF WInv, SlotsHold
  <2> QED BY <2>1, <2>2
<1>14. TrainsGone(v)
  <2> SUFFICES ASSUME NEW d, Is(v, d, "conductor"), v.tasks[d].at \in Gone
      PROVE  \/ \A j \in Places : w.disp.slots[j].conductor = d => ~Is(v, w.disp.slots[j].train, "train")
             \/ \E t : Is(v, t, "creator") /\ v.tasks[t].at = "created" /\ v.tasks[t].callee = d
    BY DEF TrainsGone
  <2>1. CASE d = c
    <3> QED BY <1>3, <1>7, <2>1
  <2>2. CASE d # c
    <3>1. Is(w, d, "conductor") /\ w.tasks[d].at \in Gone
      BY <1>5, <1>6, <2>2 DEF Is
    <3> QED BY <1>6, <1>7, <1>8, <3>1 DEF WInv, TrainsGone
  <2> QED BY <2>1, <2>2
<1>15. TrainsHeld(v)
  BY <1>5, <1>6, <1>7, <1>8 DEF WInv, TrainsHeld, Is
<1>16. \A t : Is(w, t, "creator") /\ w.tasks[t].at \in {"creating", "created"} => w.tasks[t].train # x
  <2> SUFFICES ASSUME NEW t, Is(w, t, "creator"), w.tasks[t].at \in {"creating", "created"}, w.tasks[t].train = x
      PROVE  FALSE
    OBVIOUS
  <2>1. w.tasks[x].number = n
    BY <1>3, <1>1, UserApart DEF WInv, SlotsHold, HasTrain, Is, Gone
  <2>2. w.tasks[t].number = n
    BY <2>1 DEF WInv, CreatorsHold, HasTrain
  <2>3. CASE w.tasks[t].at = "creating"
    BY <1>3, <1>4, <1>1, <2>2, <2>3, UserApart DEF WInv, OneAdds, SlotsHold, Adding
  <2>4. CASE w.tasks[t].at = "created"
    BY <1>1, <1>3, <1>9, <2>2, <2>4, OneSlot DEF WInv, CreatorsHold
  <2> QED BY <2>3, <2>4
<1>17. CreatorsHold(v)
  BY <1>4, <1>5, <1>6, <1>7, <1>8, <1>16 DEF WInv, CreatorsHold, HasTrain, Is
<1>18. ConductorsKnown(v)
  <2>1. \A e : Is(v, e, "conductor") => /\ Is(w, e, "conductor") /\ v.tasks[e].number = w.tasks[e].number
                                        /\ v.tasks[e].train = w.tasks[e].train
                                        /\ v.tasks[e].at \in AtWork => w.tasks[e].at \in AtWork
    BY <1>2, <1>5, <1>6 DEF AtWork, Is, n
  <2>2. ASSUME NEW e, Is(v, e, "conductor")
        PROVE  \E j \in Places : /\ w.disp.slots[j].number = v.tasks[e].number /\ w.disp.slots[j].conductor = e
                                 /\ v.tasks[e].at \in AtWork => v.tasks[e].train = w.disp.slots[j].train
    <3>1. Is(w, e, "conductor")
      BY <2>1, <2>2
    <3>2. PICK j \in Places : /\ w.disp.slots[j].number = w.tasks[e].number /\ w.disp.slots[j].conductor = e
                              /\ w.tasks[e].at \in AtWork => w.tasks[e].train = w.disp.slots[j].train
      BY <3>1 DEF WInv, ConductorsKnown
    <3> QED BY <2>1, <2>2, <3>2
  <2> QED BY <2>2 DEF ConductorsKnown
<1>19. ConductorsLive(v)
  <2>1. v.tasks[User] = w.tasks[User]
    BY <1>1, <1>4, <1>5 DEF WInv, WType
  <2>2. \A e : e \in DOMAIN w.tasks /\ (w.tasks[e].kind = "conductor" \/ e = User) =>
             e \in DOMAIN v.tasks /\ v.tasks[e].number = w.tasks[e].number /\ v.tasks[e].kind = w.tasks[e].kind
    BY <1>2, <1>4, <1>5 DEF n, Is
  <2> QED BY <2>1, <2>2 DEF WInv, ConductorsLive
<1>20. \A d, m : Asker(w, d, m) => Asker(v, d, m)
  BY <1>1, <1>4, <1>5 DEF Asker, Asking, Is, WInv, WType
<1>21. QueueOnce(v) /\ QueueAsks(v)
  BY <1>6, <1>8, <1>20 DEF WInv, QueueOnce, QueueAsks, Queue, NoSlot
<1>22. CreatorsAsk(v)
  BY <1>6, <1>8, <1>20 DEF WInv, CreatorsAsk, NoSlot
<1>23. AskersKnown(v, NOTASK)
  <2> SUFFICES ASSUME NEW e \in DOMAIN v.tasks, v.tasks[e].at \in {"adding", "readding", "requitting"}
      PROVE  \/ \E t : Is(v, t, "creator") /\ v.tasks[t].callee = e
             \/ \E j \in Queue(w) : w.disp.queue[j].callee = e
    BY DEF AskersKnown, Queue
  <2>1. e # c /\ e \in DOMAIN w.tasks /\ w.tasks[e].at = v.tasks[e].at
    BY <1>2, <1>5
  <2>2. e # NOTASK
    BY <2>1, NobodyThere DEF WInv
  <2> QED BY <1>6, <1>8, <2>1, <2>2 DEF WInv, AskersKnown
<1>24. UserBusy(v, rest)
  BY <1>1, <1>4, <1>5 DEF WInv, UserBusy, WType
<1>25. RestKnown(v, rest)
  BY <1>6, <1>8 DEF WInv, RestKnown, NoSlot
<1> QED BY <1>10, <1>11, <1>12, <1>13, <1>14, <1>15, <1>17, <1>18, <1>19, <1>21, <1>22, <1>23, <1>24, <1>25
        DEF WInv

LEMMA SeeksKeeps ==
  ASSUME NEW w, NEW rest, WInv(w, NOTASK, rest), NEW t, Is(w, t, "creator"),
         w.tasks[t].at \in {"seeking", "listening"},
         NEW v, Shape(v), v.disp = w.disp, SameBut(w, v, {t}), t \in DOMAIN v.tasks,
         v.tasks[t] \in ACreator(w.tasks[t].number), v.tasks[t].at \in {"listening", "located"},
         v.tasks[t].callee = w.tasks[t].callee
  PROVE  WInv(v, NOTASK, rest)
<1> DEFINE n == w.tasks[t].number
<1>1. /\ n \in Numbers /\ t \in Pool[<<"creator", n>>] /\ t # User /\ t # NOTASK
      /\ v.tasks[t].kind = "creator" /\ v.tasks[t].number = n
  <2>1. n \in Numbers /\ t \in Pool[<<"creator", n>>] /\ t # User /\ t # NOTASK
    BY KindIs DEF WInv, Kinds
  <2> QED BY <2>1, CreatorIs
<1>2. \A u : /\ u \in DOMAIN v.tasks <=> u \in DOMAIN w.tasks
             /\ u # t /\ u \in DOMAIN w.tasks => v.tasks[u] = w.tasks[u]
  BY DEF SameBut, Is
<1>3. \A u, k : Is(v, u, k) <=> Is(w, u, k)
  BY <1>1, <1>2 DEF Is
<1>4. \A u : Is(w, u, "creator") => /\ v.tasks[u].number = w.tasks[u].number
                                    /\ v.tasks[u].callee = w.tasks[u].callee
                                    /\ v.tasks[u].at \in Adding <=> w.tasks[u].at \in Adding
                                    /\ v.tasks[u].at = w.tasks[u].at \/ u = t
  BY <1>1, <1>2 DEF Is, Adding
<1>5. \A u, k : Is(w, u, k) /\ k # "creator" => v.tasks[u] = w.tasks[u]
  BY <1>2 DEF Is
<1>6. v.tasks[User] = w.tasks[User]
  BY <1>1, <1>2 DEF WInv, WType
<1>7. WType(v)
  <2>1. IsTask(t, v.tasks[t])
    BY <1>1 DEF IsTask
  <2> QED BY <1>2, <2>1 DEF WInv, WType
<1>8. SlotsInv(v)
  BY DEF WInv, SlotsInv, Taken
<1>9. OneAdds(v) /\ OneCreator(v)
  BY <1>3, <1>4 DEF WInv, OneAdds, OneCreator
<1>10. \A x, m : HasTrain(v, x, m) <=> HasTrain(w, x, m)
  BY <1>3, <1>5 DEF HasTrain
<1>11. \A x, m : Asker(v, x, m) <=> Asker(w, x, m)
  BY <1>3, <1>5, <1>6 DEF Asker
<1>12. SlotsHold(v)
  BY <1>3, <1>5, <1>10 DEF WInv, SlotsHold
<1>13. TrainsGone(v)
  BY <1>2, <1>3, <1>4, <1>5 DEF WInv, TrainsGone
<1>14. TrainsHeld(v)
  BY <1>2, <1>3, <1>5 DEF WInv, TrainsHeld, Is
<1>15. CreatorsHold(v)
  BY <1>2, <1>3, <1>10 DEF WInv, CreatorsHold, Is
<1>16. ConductorsKnown(v)
  BY <1>3, <1>5 DEF WInv, ConductorsKnown
<1>17. ConductorsLive(v)
  <2>1. \A e \in DOMAIN w.tasks : /\ e \in DOMAIN v.tasks /\ v.tasks[e].number = w.tasks[e].number
                                  /\ v.tasks[e].kind = w.tasks[e].kind
    BY <1>1, <1>2 DEF Is
  <2> QED BY <1>6, <2>1 DEF WInv, ConductorsLive
<1>18. QueueOnce(v) /\ QueueAsks(v)
  BY <1>3, <1>4, <1>11 DEF WInv, QueueOnce, QueueAsks, Queue, NoSlot
<1>19. CreatorsAsk(v)
  BY <1>3, <1>4, <1>11 DEF WInv, CreatorsAsk, NoSlot
<1>20. AskersKnown(v, NOTASK)
  BY <1>1, <1>2, <1>3, <1>4 DEF WInv, AskersKnown, Queue
<1>21. UserBusy(v, rest)
  BY <1>6 DEF WInv, UserBusy
<1>22. RestKnown(v, rest)
  BY <1>3, <1>4 DEF WInv, RestKnown, NoSlot
<1> QED BY <1>7, <1>8, <1>9, <1>12, <1>13, <1>14, <1>15, <1>16, <1>17, <1>18, <1>19, <1>20, <1>21, <1>22
        DEF WInv

LEMMA LocatesKeeps ==
  ASSUME NEW w, NEW rest, WInv(w, NOTASK, rest), NEW t, Is(w, t, "creator"), w.tasks[t].at = "located",
         NEW x \in Pool[<<"train", w.tasks[t].number>>], x \notin DOMAIN w.tasks,
         NEW v, Shape(v), v.disp = w.disp, SameBut(w, v, {t, x}), t \in DOMAIN v.tasks, x \in DOMAIN v.tasks,
         v.tasks[t] \in ACreator(w.tasks[t].number), v.tasks[t].at = "creating",
         v.tasks[t].callee = w.tasks[t].callee, v.tasks[t].train = x,
         v.tasks[x] \in ATrain(w.tasks[t].number)
  PROVE  WInv(v, NOTASK, rest)
<1> DEFINE n == w.tasks[t].number
<1>1. /\ n \in Numbers /\ t \in Pool[<<"creator", n>>] /\ t # User /\ t # NOTASK
      /\ v.tasks[t].kind = "creator" /\ v.tasks[t].number = n
  <2>1. n \in Numbers /\ t \in Pool[<<"creator", n>>] /\ t # User /\ t # NOTASK
    BY KindIs DEF WInv, Kinds
  <2> QED BY <2>1, CreatorIs
<1>30. t # x /\ x # User /\ x # NOTASK /\ v.tasks[x].kind = "train" /\ v.tasks[x].number = n /\ v.tasks[x].at = "up"
  BY <1>1, PoolIs, TrainTaskIs DEF Kinds, Is
<1>2. \A u : /\ u \in DOMAIN v.tasks <=> u \in DOMAIN w.tasks \/ u = x
             /\ u # t /\ u \in DOMAIN w.tasks => v.tasks[u] = w.tasks[u]
  BY DEF SameBut, Is
<1>3. \A u, k : Is(v, u, k) <=> Is(w, u, k) \/ (u = x /\ k = "train")
  BY <1>1, <1>2, <1>30 DEF Is
<1>4. \A u : Is(w, u, "creator") => /\ v.tasks[u].number = w.tasks[u].number
                                    /\ v.tasks[u].callee = w.tasks[u].callee
                                    /\ v.tasks[u].at \in Adding <=> w.tasks[u].at \in Adding
                                    /\ (v.tasks[u].at = w.tasks[u].at /\ v.tasks[u].train = w.tasks[u].train) \/ u = t
  BY <1>1, <1>2 DEF Is, Adding
<1>5. \A u, k : Is(w, u, k) /\ k # "creator" => v.tasks[u] = w.tasks[u]
  BY <1>2 DEF Is
<1>6. v.tasks[User] = w.tasks[User]
  BY <1>1, <1>2 DEF WInv, WType
<1>7. WType(v)
  <2>1. IsTask(t, v.tasks[t]) /\ IsTask(x, v.tasks[x])
    BY <1>1, <1>30 DEF IsTask
  <2> QED BY <1>2, <2>1 DEF WInv, WType
<1>8. SlotsInv(v)
  BY DEF WInv, SlotsInv, Taken
<1>9. OneAdds(v) /\ OneCreator(v)
  BY <1>3, <1>4 DEF WInv, OneAdds, OneCreator
<1>10. \A y, m : HasTrain(w, y, m) => HasTrain(v, y, m)
  BY <1>3, <1>5 DEF HasTrain
<1>31. HasTrain(v, x, n)
  BY <1>2, <1>30 DEF HasTrain, Is
<1>11. \A y, m : Asker(v, y, m) <=> Asker(w, y, m)
  BY <1>3, <1>5, <1>6 DEF Asker
<1>12. SlotsHold(v)
  BY <1>3, <1>5, <1>10 DEF WInv, SlotsHold
<1>13. TrainsGone(v)
  <2>1. \A i \in Places : w.disp.slots[i].train = x => w.disp.slots[i].train = w.disp.slots[i].train /\ FALSE
    <3> SUFFICES ASSUME NEW i \in Places, w.disp.slots[i].train = x PROVE FALSE
      OBVIOUS
    <3>1. w.disp.slots[i].number = n
      <4>1. w.disp.slots[i].number \in Numbers /\ x \in Pool[<<"train", w.disp.slots[i].number>>]
        <5>1. Shape(w)
          BY DEF WInv, WType
        <5>2. w.disp.slots[i].number # 0
          BY <1>30, <5>1, SlotIs
        <5>3. w.disp.slots[i].number \in Numbers
          BY <5>1, <5>2, SlotIs
        <5>4. w.disp.slots[i].train \in Pool[<<"train", w.disp.slots[i].number>>] \cup {NOTASK}
          BY <5>1, <5>2, SlotIs
        <5> QED BY <1>30, <5>3, <5>4
      <4> QED BY <1>1, <4>1, PoolsApart DEF Kinds
    <3>2. w.disp.waiting = n
      BY DEF WInv, OneAdds, Adding
    <3> QED BY <1>1, <1>30, <3>1, <3>2, UserApart DEF WInv, SlotsHold
  <2> QED BY <1>2, <1>3, <1>4, <1>5, <2>1 DEF WInv, TrainsGone
<1>14. TrainsHeld(v)
  BY <1>1, <1>2, <1>3, <1>4, <1>5, <1>30 DEF WInv, TrainsHeld
<1>15. CreatorsHold(v)
  BY <1>1, <1>2, <1>3, <1>4, <1>10, <1>31 DEF WInv, CreatorsHold
<1>16. ConductorsKnown(v)
  BY <1>3, <1>5 DEF WInv, ConductorsKnown
<1>17. ConductorsLive(v)
  <2>1. \A e \in DOMAIN w.tasks : /\ e \in DOMAIN v.tasks /\ v.tasks[e].number = w.tasks[e].number
                                  /\ v.tasks[e].kind = w.tasks[e].kind
    BY <1>1, <1>2 DEF Is
  <2> QED BY <1>6, <2>1 DEF WInv, ConductorsLive
<1>18. QueueOnce(v) /\ QueueAsks(v)
  BY <1>3, <1>4, <1>11 DEF WInv, QueueOnce, QueueAsks, Queue, NoSlot
<1>19. CreatorsAsk(v)
  BY <1>3, <1>4, <1>11 DEF WInv, CreatorsAsk, NoSlot
<1>20. AskersKnown(v, NOTASK)
  BY <1>1, <1>2, <1>3, <1>4, <1>30 DEF WInv, AskersKnown, Queue
<1>21. UserBusy(v, rest)
  BY <1>6 DEF WInv, UserBusy
<1>22. RestKnown(v, rest)
  BY <1>3, <1>4 DEF WInv, RestKnown, NoSlot
<1> QED BY <1>7, <1>8, <1>9, <1>12, <1>13, <1>14, <1>15, <1>16, <1>17, <1>18, <1>19, <1>20, <1>21, <1>22
        DEF WInv

LEMMA StartKeeps ==
  ASSUME NEW w, NEW callee, NEW rest, WInv(w, callee, rest), NEW n \in Numbers,
         w.disp.waiting = NOTASK,
         callee \in {User, NOTASK} => NoSlot(w, n),
         callee # NOTASK => Asker(w, callee, n),
         \A i \in Queue(w) : w.disp.queue[i].number # n,
         \A u : Is(w, u, "creator") => w.tasks[u].number # n,
         \A i \in Places : w.disp.slots[i].number = n =>
           /\ ~Is(w, w.disp.slots[i].train, "train")
           /\ Is(w, w.disp.slots[i].conductor, "conductor")
           /\ w.tasks[w.disp.slots[i].conductor].at \in Gone,
         NEW t \in Pool[<<"creator", n>>], t \notin DOMAIN w.tasks,
         NEW v, Shape(v),
         \A i \in Places :
           /\ v.disp.slots[i].number = w.disp.slots[i].number
           /\ v.disp.slots[i].conductor = w.disp.slots[i].conductor
           /\ v.disp.slots[i].number # n => v.disp.slots[i].train = w.disp.slots[i].train
           /\ v.disp.slots[i].number = n => v.disp.slots[i].train = NOTASK,
         v.disp.count \in Nat, v.disp.count = Cardinality(Taken(v)),
         v.disp.queue = w.disp.queue, v.disp.waiting = n, v.disp.creating = t,
         SameBut(w, v, {t}), t \in DOMAIN v.tasks, v.tasks[t] \in ACreator(n),
         v.tasks[t].at \in {"seeking", "located"}, v.tasks[t].callee = callee
  PROVE  WInv(v, NOTASK, rest)
<1>1. t # User /\ t # NOTASK /\ t \in Tids /\ v.tasks[t].kind = "creator" /\ v.tasks[t].number = n /\ n # NOTASK
  <2>1. t # User /\ t # NOTASK /\ t \in Tids
    BY PoolIs DEF Kinds
  <2>2. v.tasks[t].kind = "creator" /\ v.tasks[t].number = n
    BY CreatorIs
  <2> QED BY <2>1, <2>2, UserApart
<1>2. \A u : /\ u \in DOMAIN v.tasks <=> u \in DOMAIN w.tasks \/ u = t
             /\ u \in DOMAIN w.tasks => v.tasks[u] = w.tasks[u] /\ u # t
  BY DEF SameBut
<1>3. \A u, k : Is(w, u, k) => Is(v, u, k) /\ v.tasks[u] = w.tasks[u]
  BY <1>2 DEF Is
<1>4. \A u, k : Is(v, u, k) => Is(w, u, k) \/ (u = t /\ k = "creator")
  BY <1>1, <1>2 DEF Is
<1>5. Is(v, t, "creator")
  BY <1>1 DEF Is
<1>6. v.tasks[User] = w.tasks[User]
  BY <1>2 DEF WInv, WType
<1>7. \A u : Is(w, u, "creator") => w.tasks[u].at \notin Adding
  BY KindIs, UserApart DEF WInv, OneAdds, Kinds
<1>8. WType(v)
  <2>1. IsTask(t, v.tasks[t])
    BY <1>1 DEF IsTask
  <2> QED BY <1>1, <1>2, <2>1 DEF WInv, WType
<1>9. SlotsInv(v)
  BY DEF WInv, SlotsInv
<1>10. OneAdds(v)
  BY <1>1, <1>3, <1>4, <1>5, <1>7 DEF OneAdds, Adding
<1>11. OneCreator(v)
  BY <1>1, <1>3, <1>4 DEF WInv, OneCreator
<1>12. SlotsHold(v)
  <2> SUFFICES ASSUME NEW i \in Places, v.disp.slots[i].number # 0
      PROVE  /\ v.disp.slots[i].train = NOTASK <=> v.disp.slots[i].number = n
             /\ \/ HasTrain(v, v.disp.slots[i].train, v.disp.slots[i].number)
                \/ /\ Is(v, v.disp.slots[i].conductor, "conductor")
                   /\ v.tasks[v.disp.slots[i].conductor].at \in Gone
    BY DEF SlotsHold
  <2>1. CASE v.disp.slots[i].number = n
    BY <1>3, <2>1
  <2>2. CASE v.disp.slots[i].number # n
    <3>1. w.disp.slots[i].number # NOTASK /\ w.disp.slots[i].number # 0
      <4>1. Shape(w) /\ w.disp.slots[i].number # 0
        BY DEF WInv, WType
      <4>2. w.disp.slots[i].number \in Numbers
        BY <4>1, SlotIs
      <4> QED BY <4>1, <4>2, UserApart
    <3>2. /\ w.disp.slots[i].train # NOTASK
          /\ \/ HasTrain(w, w.disp.slots[i].train, w.disp.slots[i].number)
             \/ /\ Is(w, w.disp.slots[i].conductor, "conductor")
                /\ w.tasks[w.disp.slots[i].conductor].at \in Gone
      BY <3>1 DEF WInv, SlotsHold
    <3>3. /\ v.disp.slots[i].train = w.disp.slots[i].train
          /\ v.disp.slots[i].number = w.disp.slots[i].number
          /\ v.disp.slots[i].conductor = w.disp.slots[i].conductor
      BY <2>2
    <3>4. HasTrain(w, w.disp.slots[i].train, w.disp.slots[i].number)
            => HasTrain(v, v.disp.slots[i].train, v.disp.slots[i].number)
      BY <1>3, <3>3 DEF HasTrain
    <3>5. Is(w, w.disp.slots[i].conductor, "conductor") /\ w.tasks[w.disp.slots[i].conductor].at \in Gone
            => /\ Is(v, v.disp.slots[i].conductor, "conductor")
               /\ v.tasks[v.disp.slots[i].conductor].at \in Gone
      BY <1>3, <3>3
    <3> QED BY <2>2, <3>2, <3>3, <3>4, <3>5
  <2> QED BY <2>1, <2>2
<1>13. TrainsGone(v)
  <2>1. ~Is(v, NOTASK, "train")
    BY <1>8, NobodyThere DEF Is
  <2>2. \A i \in Places : Is(v, v.disp.slots[i].train, "train") => Is(w, w.disp.slots[i].train, "train")
    BY <1>4, <2>1
  <2> QED BY <1>3, <1>4, <2>2 DEF WInv, TrainsGone
<1>14. TrainsHeld(v)
  BY <1>3, <1>4 DEF WInv, TrainsHeld
<1>15. CreatorsHold(v)
  BY <1>3, <1>4 DEF WInv, CreatorsHold, HasTrain
<1>16. ConductorsKnown(v)
  <2> SUFFICES ASSUME NEW c, Is(w, c, "conductor")
      PROVE  \E i \in Places :
               /\ v.disp.slots[i].number = w.tasks[c].number /\ v.disp.slots[i].conductor = c
               /\ w.tasks[c].at \in AtWork => w.tasks[c].train = v.disp.slots[i].train
    BY <1>3, <1>4 DEF ConductorsKnown
  <2>1. PICK i \in Places :
               /\ w.disp.slots[i].number = w.tasks[c].number /\ w.disp.slots[i].conductor = c
               /\ w.tasks[c].at \in AtWork => w.tasks[c].train = w.disp.slots[i].train
    BY DEF WInv, ConductorsKnown
  <2>2. w.disp.slots[i].number = n => w.tasks[c].at \notin AtWork
    BY <2>1 DEF AtWork, Gone
  <2> QED BY <2>1, <2>2
<1>17. ConductorsLive(v)
  BY <1>2, <1>6 DEF WInv, ConductorsLive
<1>18. \A c, m : Asker(w, c, m) => Asker(v, c, m)
  BY <1>3, <1>6 DEF Asker
<1>19. QueueOnce(v)
  BY DEF WInv, QueueOnce, Queue
<1>20. \A m : NoSlot(w, m) <=> NoSlot(v, m)
  BY DEF NoSlot
<1>21. QueueAsks(v)
  BY <1>1, <1>3, <1>4, <1>18, <1>20 DEF WInv, QueueAsks, Queue
<1>22. CreatorsAsk(v)
  <2> SUFFICES ASSUME NEW u, Is(v, u, "creator")
      PROVE  /\ v.tasks[u].callee # NOTASK => Asker(v, v.tasks[u].callee, v.tasks[u].number)
             /\ v.tasks[u].at \in Adding /\ v.tasks[u].callee \in {User, NOTASK} => NoSlot(v, v.tasks[u].number)
    BY DEF CreatorsAsk
  <2>1. CASE u = t
    BY <1>1, <1>18, <1>20, <2>1
  <2>2. CASE u # t
    BY <1>3, <1>4, <1>18, <1>20, <2>2 DEF WInv, CreatorsAsk
  <2> QED BY <2>1, <2>2
<1>23. AskersKnown(v, NOTASK)
  <2> SUFFICES ASSUME NEW c \in DOMAIN v.tasks, v.tasks[c].at \in {"adding", "readding", "requitting"}
      PROVE  \/ \E u : Is(v, u, "creator") /\ v.tasks[u].callee = c
             \/ \E i \in Queue(v) : v.disp.queue[i].callee = c
    BY DEF AskersKnown
  <2>1. CASE c = callee
    BY <1>5, <2>1
  <2>2. CASE c # callee
    <3>1. c \in DOMAIN w.tasks /\ w.tasks[c].at \in {"adding", "readding", "requitting"}
      BY <1>1, <1>2
    <3> QED BY <1>3, <2>2, <3>1 DEF WInv, AskersKnown, Queue
  <2> QED BY <2>1, <2>2
<1>24. UserBusy(v, rest)
  BY <1>6 DEF WInv, UserBusy
<1>25. RestKnown(v, rest)
  BY <1>1, <1>3, <1>4, <1>20 DEF WInv, RestKnown
<1> QED BY <1>8, <1>9, <1>10, <1>11, <1>12, <1>13, <1>14, <1>15, <1>16, <1>17, <1>19, <1>21, <1>22, <1>23,
           <1>24, <1>25 DEF WInv

(* The courier that adds a train is put away for another one to do it. *)
LEMMA ForgetKeeps ==
  ASSUME NEW w, NEW x, NEW rest, WInv(w, x, rest), NEW t, Is(w, t, "creator"),
         w.tasks[t].at \in {"seeking", "listening"}, w.tasks[t].callee = NOTASK,
         NEW v, Shape(v), v.disp.slots = w.disp.slots, v.disp.count = w.disp.count,
         v.disp.queue = w.disp.queue, v.disp.waiting = NOTASK, v.disp.creating = NOTASK,
         SameBut(w, v, {t}), t \notin DOMAIN v.tasks
  PROVE  /\ WInv(v, x, rest)
         /\ \A u : Is(v, u, "creator") => v.tasks[u].number # w.tasks[t].number
<1> DEFINE n == w.tasks[t].number
<1>1. n \in Numbers /\ t # User /\ t # NOTASK /\ t = w.disp.creating /\ n = w.disp.waiting
  BY KindIs DEF WInv, Kinds, OneAdds, Adding
<1>2. \A u : /\ u \in DOMAIN v.tasks <=> u \in DOMAIN w.tasks /\ u # t
             /\ u \in DOMAIN v.tasks => v.tasks[u] = w.tasks[u]
  BY DEF SameBut
<1>3. \A u, k : Is(v, u, k) <=> Is(w, u, k) /\ u # t
  BY <1>2 DEF Is
<1>4. \A u, k : Is(w, u, k) /\ k # "creator" => Is(v, u, k) /\ v.tasks[u] = w.tasks[u]
  BY <1>2 DEF Is
<1>5. \A u, k : Is(v, u, k) => v.tasks[u] = w.tasks[u]
  BY <1>2 DEF Is
<1>6. v.tasks[User] = w.tasks[User] /\ User \in DOMAIN v.tasks
  BY <1>1, <1>2 DEF WInv, WType
<1>7. \A u : Is(v, u, "creator") => w.tasks[u].at \notin Adding /\ v.tasks[u] = w.tasks[u] /\ Is(w, u, "creator")
  BY <1>1, <1>3, <1>5 DEF WInv, OneAdds
<1>8. NoSlot(w, n)
  BY DEF WInv, CreatorsAsk, Adding
<1>9. WType(v)
  BY <1>2, <1>6 DEF WInv, WType
<1>10. SlotsInv(v)
  BY DEF WInv, SlotsInv, Taken
<1>11. OneAdds(v)
  BY <1>7 DEF OneAdds
<1>12. OneCreator(v)
  BY <1>7 DEF WInv, OneCreator
<1>13. \A y, m : HasTrain(w, y, m) => HasTrain(v, y, m)
  BY <1>4 DEF HasTrain
<1>14. SlotsHold(v)
  <2> SUFFICES ASSUME NEW i \in Places, w.disp.slots[i].number # 0
      PROVE  /\ w.disp.slots[i].train = NOTASK <=> w.disp.slots[i].number = NOTASK
             /\ \/ HasTrain(v, w.disp.slots[i].train, w.disp.slots[i].number)
                \/ /\ Is(v, w.disp.slots[i].conductor, "conductor")
                   /\ v.tasks[w.disp.slots[i].conductor].at \in Gone
    BY DEF SlotsHold
  <2>1. w.disp.slots[i].number # NOTASK
    <3>1. Shape(w)
      BY DEF WInv, WType
    <3>2. w.disp.slots[i].number \in Numbers
      BY <3>1, SlotIs
    <3> QED BY <3>2, UserApart
  <2>2. w.disp.slots[i].number # n
    BY <1>8 DEF NoSlot
  <2>3. /\ w.disp.slots[i].train # NOTASK
        /\ \/ HasTrain(w, w.disp.slots[i].train, w.disp.slots[i].number)
           \/ /\ Is(w, w.disp.slots[i].conductor, "conductor")
              /\ w.tasks[w.disp.slots[i].conductor].at \in Gone
    BY <1>1, <2>2 DEF WInv, SlotsHold
  <2> QED BY <1>4, <1>13, <2>1, <2>3
<1>15. TrainsGone(v)
  BY <1>2, <1>3, <1>4 DEF WInv, TrainsGone, Is
<1>16. TrainsHeld(v)
  BY <1>2, <1>3, <1>4 DEF WInv, TrainsHeld, Is
<1>17. CreatorsHold(v)
  BY <1>7, <1>13 DEF WInv, CreatorsHold
<1>18. ConductorsKnown(v)
  BY <1>3, <1>5 DEF WInv, ConductorsKnown
<1>19. ConductorsLive(v)
  BY <1>2, <1>6 DEF WInv, ConductorsLive, Is
<1>20. \A c, m : Asker(w, c, m) => Asker(v, c, m)
  BY <1>4, <1>6 DEF Asker
<1>21. \A m : NoSlot(w, m) <=> NoSlot(v, m)
  BY DEF NoSlot
<1>22. QueueOnce(v)
  BY DEF WInv, QueueOnce, Queue
<1>23. QueueAsks(v)
  <2> SUFFICES ASSUME NEW i \in Queue(w)
      PROVE  /\ w.disp.queue[i].number # NOTASK
             /\ \A u : Is(v, u, "creator") => v.tasks[u].number # w.disp.queue[i].number
             /\ w.disp.queue[i].callee = NOTASK => NoSlot(v, w.disp.queue[i].number)
             /\ w.disp.queue[i].callee # NOTASK => Asker(v, w.disp.queue[i].callee, w.disp.queue[i].number)
    BY DEF QueueAsks, Queue
  <2>1. w.disp.queue[i].number \in Numbers
    <3>1. w.disp.queue \in Seq(AnyEntry)
      BY DEF WInv, WType
    <3> QED BY <3>1, EntryIs DEF Queue
  <2> QED BY <1>7, <1>20, <1>21, <2>1, UserApart DEF WInv, QueueAsks
<1>24. CreatorsAsk(v)
  BY <1>7, <1>20, <1>21 DEF WInv, CreatorsAsk
<1>25. AskersKnown(v, x)
  <2> SUFFICES ASSUME NEW c \in DOMAIN v.tasks \ {x}, v.tasks[c].at \in {"adding", "readding", "requitting"}
      PROVE  \/ \E u : Is(v, u, "creator") /\ v.tasks[u].callee = c
             \/ \E i \in Queue(w) : w.disp.queue[i].callee = c
    BY DEF AskersKnown, Queue
  <2>1. c \in DOMAIN w.tasks \ {x} /\ w.tasks[c].at \in {"adding", "readding", "requitting"}
    BY <1>2
  <2>2. c # NOTASK
    BY <2>1, NobodyThere DEF WInv
  <2>3. \/ \E u : Is(w, u, "creator") /\ w.tasks[u].callee = c
        \/ \E i \in Queue(w) : w.disp.queue[i].callee = c
    BY <2>1 DEF WInv, AskersKnown
  <2> QED BY <1>2, <1>3, <2>2, <2>3 DEF Is
<1>26. UserBusy(v, rest)
  BY <1>6 DEF WInv, UserBusy
<1>27. RestKnown(v, rest)
  BY <1>7, <1>21 DEF WInv, RestKnown
<1>28. \A u : Is(v, u, "creator") => v.tasks[u].number # n
  BY <1>3, <1>5 DEF WInv, OneCreator
<1> QED BY <1>9, <1>10, <1>11, <1>12, <1>14, <1>15, <1>16, <1>17, <1>18, <1>19, <1>22, <1>23, <1>24,
           <1>25, <1>26, <1>27, <1>28 DEF WInv

LEMMA QueueChanges ==
  ASSUME NEW w, NEW v, Shape(v), v.tasks = w.tasks,
         v.disp.slots = w.disp.slots, v.disp.count = w.disp.count,
         v.disp.waiting = w.disp.waiting, v.disp.creating = w.disp.creating,
         v.disp.queue \in Seq(AnyEntry), NEW x, NEW rest, WInv(w, x, rest)
  PROVE  /\ WType(v) /\ SlotsInv(v) /\ OneAdds(v) /\ OneCreator(v)
         /\ SlotsHold(v) /\ TrainsGone(v) /\ TrainsHeld(v) /\ CreatorsHold(v)
         /\ ConductorsKnown(v) /\ ConductorsLive(v) /\ CreatorsAsk(v)
         /\ UserBusy(v, rest) /\ RestKnown(v, rest)
         /\ \A u, k : Is(v, u, k) <=> Is(w, u, k)
         /\ \A c, n : Asker(v, c, n) <=> Asker(w, c, n)
         /\ \A n : NoSlot(v, n) <=> NoSlot(w, n)
<1>1. \A u, k : Is(v, u, k) <=> Is(w, u, k)
  BY DEF Is
<1>2. \A c, n : Asker(v, c, n) <=> Asker(w, c, n)
  BY <1>1 DEF Asker
<1>3. \A n : NoSlot(v, n) <=> NoSlot(w, n)
  BY DEF NoSlot
<1>4. \A c, n : HasTrain(v, c, n) <=> HasTrain(w, c, n)
  BY <1>1 DEF HasTrain
<1>5. WType(v)
  BY DEF WInv, WType
<1>6. SlotsInv(v)
  BY DEF WInv, SlotsInv, Taken
<1>7. OneAdds(v) /\ OneCreator(v)
  BY <1>1 DEF WInv, OneAdds, OneCreator
<1>8. SlotsHold(v)
  BY <1>1, <1>4 DEF WInv, SlotsHold
<1>9. TrainsGone(v) /\ TrainsHeld(v)
  BY <1>1 DEF WInv, TrainsGone, TrainsHeld
<1>10. CreatorsHold(v)
  BY <1>1, <1>4 DEF WInv, CreatorsHold
<1>11. ConductorsKnown(v) /\ ConductorsLive(v)
  BY <1>1 DEF WInv, ConductorsKnown, ConductorsLive
<1>12. CreatorsAsk(v)
  BY <1>1, <1>2, <1>3 DEF WInv, CreatorsAsk
<1>13. UserBusy(v, rest) /\ RestKnown(v, rest)
  BY <1>1, <1>3 DEF WInv, UserBusy, RestKnown
<1> QED BY <1>1, <1>2, <1>3, <1>5, <1>6, <1>7, <1>8, <1>9, <1>10, <1>11, <1>12, <1>13

LEMMA EnqueueKeeps ==
  ASSUME NEW w, NEW x, NEW rest, WInv(w, x, rest), NEW n \in Numbers,
         NEW callee \in Pool[<<"conductor", n>>] \cup {NOTASK},
         callee = NOTASK => NoSlot(w, n), callee # NOTASK => Asker(w, callee, n),
         \A i \in Queue(w) : w.disp.queue[i].number # n,
         w.disp.waiting # n, \A u : Is(w, u, "creator") => w.tasks[u].number # n,
         NEW v, Shape(v), v.tasks = w.tasks,
         v.disp.slots = w.disp.slots, v.disp.count = w.disp.count,
         v.disp.waiting = w.disp.waiting, v.disp.creating = w.disp.creating,
         v.disp.queue = Append(w.disp.queue, [number |-> n, callee |-> callee])
  PROVE  WInv(v, x, rest) /\ (callee = x => WInv(v, NOTASK, rest))
<1> DEFINE q == w.disp.queue
           e == [number |-> n, callee |-> callee]
<1>1. q \in Seq(AnyEntry) /\ e \in AnyEntry
  BY DEF WInv, WType, AnyEntry
<1>2. e.number = n /\ e.callee = callee
  OBVIOUS
<1> HIDE DEF e
<1>3. /\ v.disp.queue \in Seq(AnyEntry)
      /\ DOMAIN v.disp.queue = 1 .. Len(q) + 1 /\ DOMAIN q = 1 .. Len(q) /\ Len(q) \in Nat
      /\ \A i \in 1 .. Len(q) : v.disp.queue[i] = q[i]
      /\ v.disp.queue[Len(q) + 1] = e
  BY <1>1, Appended DEF e
<1>4. /\ WType(v) /\ SlotsInv(v) /\ OneAdds(v) /\ OneCreator(v)
      /\ SlotsHold(v) /\ TrainsGone(v) /\ TrainsHeld(v) /\ CreatorsHold(v)
      /\ ConductorsKnown(v) /\ ConductorsLive(v) /\ CreatorsAsk(v)
      /\ UserBusy(v, rest) /\ RestKnown(v, rest)
  BY <1>3, QueueChanges
<1>5. /\ \A u, k : Is(v, u, k) <=> Is(w, u, k)
      /\ \A c, m : Asker(v, c, m) <=> Asker(w, c, m)
      /\ \A m : NoSlot(v, m) <=> NoSlot(w, m)
  BY <1>3, QueueChanges
<1>6. /\ Queue(w) = 1 .. Len(q) /\ Len(q) \in Nat
      /\ \A i : i \in Queue(v) <=> i \in Queue(w) \/ i = Len(q) + 1
      /\ Len(q) + 1 \notin Queue(w)
      /\ \A i \in Queue(w) : v.disp.queue[i] = q[i]
      /\ v.disp.queue[Len(q) + 1] = e
  BY <1>3 DEF Queue
<1>7. QueueOnce(v)
  BY <1>2, <1>6 DEF WInv, QueueOnce
<1>8. QueueAsks(v)
  <2> SUFFICES ASSUME NEW i \in Queue(v)
      PROVE  /\ v.disp.queue[i].number # v.disp.waiting
             /\ \A t : Is(v, t, "creator") => v.tasks[t].number # v.disp.queue[i].number
             /\ v.disp.queue[i].callee = NOTASK => NoSlot(v, v.disp.queue[i].number)
             /\ v.disp.queue[i].callee # NOTASK => Asker(v, v.disp.queue[i].callee, v.disp.queue[i].number)
    BY DEF QueueAsks
  <2>1. CASE i = Len(q) + 1
    BY <1>2, <1>5, <1>6, <2>1
  <2>2. CASE i \in Queue(w)
    BY <1>5, <1>6, <2>2 DEF WInv, QueueAsks
  <2> QED BY <1>6, <2>1, <2>2
<1>9. AskersKnown(v, x)
  BY <1>5, <1>6 DEF WInv, AskersKnown
<1>10. callee = x => AskersKnown(v, NOTASK)
  BY <1>2, <1>6, <1>9 DEF AskersKnown
<1> QED BY <1>4, <1>7, <1>8, <1>9, <1>10 DEF WInv

LEMMA DequeueKeeps ==
  ASSUME NEW w, NEW rest, WInv(w, NOTASK, rest), w.disp.queue # <<>>,
         NEW v, Shape(v), v.tasks = w.tasks,
         v.disp.slots = w.disp.slots, v.disp.count = w.disp.count,
         v.disp.waiting = w.disp.waiting, v.disp.creating = w.disp.creating,
         v.disp.queue = Tail(w.disp.queue)
  PROVE  LET e == Head(w.disp.queue) IN
         /\ WInv(v, e.callee, rest)
         /\ e.number \in Numbers /\ e.callee \in Pool[<<"conductor", e.number>>] \cup {NOTASK}
         /\ \A i \in Queue(v) : v.disp.queue[i].number # e.number
         /\ v.disp.waiting # e.number /\ \A u : Is(v, u, "creator") => v.tasks[u].number # e.number
         /\ e.callee = NOTASK => NoSlot(v, e.number)
         /\ e.callee # NOTASK => Asker(v, e.callee, e.number)
<1> DEFINE q == w.disp.queue
           e == Head(q)
<1>1. q \in Seq(AnyEntry) /\ q # <<>>
  BY DEF WInv, WType
<1>2. /\ v.disp.queue \in Seq(AnyEntry)
      /\ DOMAIN v.disp.queue = 1 .. Len(q) - 1 /\ DOMAIN q = 1 .. Len(q) /\ Len(q) \in Nat \ {0}
      /\ \A i \in 1 .. Len(q) - 1 : v.disp.queue[i] = q[i + 1]
      /\ e = q[1] /\ e \in AnyEntry
  BY <1>1, Tailed
<1> HIDE DEF e
<1>3. 1 \in Queue(w) /\ e.number \in Numbers /\ e.callee \in Pool[<<"conductor", e.number>>] \cup {NOTASK}
  <2>1. 1 \in DOMAIN q
    BY <1>2
  <2>2. q[1].number \in Numbers /\ q[1].callee \in Pool[<<"conductor", q[1].number>>] \cup {NOTASK}
    BY <1>1, <2>1, EntryIs
  <2> QED BY <1>2, <2>1, <2>2 DEF Queue
<1>4. /\ WType(v) /\ SlotsInv(v) /\ OneAdds(v) /\ OneCreator(v)
      /\ SlotsHold(v) /\ TrainsGone(v) /\ TrainsHeld(v) /\ CreatorsHold(v)
      /\ ConductorsKnown(v) /\ ConductorsLive(v) /\ CreatorsAsk(v)
      /\ UserBusy(v, rest) /\ RestKnown(v, rest)
  BY <1>2, QueueChanges
<1>5. /\ \A u, k : Is(v, u, k) <=> Is(w, u, k)
      /\ \A c, m : Asker(v, c, m) <=> Asker(w, c, m)
      /\ \A m : NoSlot(v, m) <=> NoSlot(w, m)
  BY <1>2, QueueChanges
<1>6. \A i \in Queue(v) : i + 1 \in Queue(w) /\ v.disp.queue[i] = q[i + 1] /\ i + 1 # 1 /\ i \in Nat
  BY <1>2 DEF Queue
<1>7. QueueOnce(v)
  <2> SUFFICES ASSUME NEW i \in Queue(v), NEW j \in Queue(v), v.disp.queue[i].number = v.disp.queue[j].number
      PROVE  i = j
    BY DEF QueueOnce
  <2>1. i + 1 = j + 1
    BY <1>6 DEF WInv, QueueOnce
  <2> QED BY <1>6, <2>1
<1>8. QueueAsks(v)
  BY <1>5, <1>6 DEF WInv, QueueAsks
<1>9. AskersKnown(v, e.callee)
  <2> SUFFICES ASSUME NEW c \in DOMAIN w.tasks \ {e.callee}, w.tasks[c].at \in {"adding", "readding", "requitting"}
      PROVE  \/ \E u : Is(v, u, "creator") /\ v.tasks[u].callee = c
             \/ \E i \in Queue(v) : v.disp.queue[i].callee = c
    BY DEF AskersKnown
  <2>1. c # NOTASK
    BY NobodyThere DEF WInv
  <2>2. CASE \E u : Is(w, u, "creator") /\ w.tasks[u].callee = c
    BY <1>5, <2>2
  <2>3. CASE \E i \in Queue(w) : w.disp.queue[i].callee = c
    <3>1. PICK i \in Queue(w) : q[i].callee = c
      BY <2>3
    <3>2. i # 1 /\ i \in 1 .. Len(q)
      BY <1>2, <3>1 DEF Queue
    <3>3. i - 1 \in Queue(v) /\ v.disp.queue[i - 1] = q[i]
      BY <1>2, <3>2 DEF Queue
    <3> QED BY <3>1, <3>3
  <2> QED BY <2>1, <2>2, <2>3 DEF WInv, AskersKnown
<1>10. \A i \in Queue(v) : v.disp.queue[i].number # e.number
  BY <1>2, <1>3, <1>6 DEF WInv, QueueOnce
<1>11. /\ v.disp.waiting # e.number /\ \A u : Is(v, u, "creator") => v.tasks[u].number # e.number
       /\ e.callee = NOTASK => NoSlot(v, e.number)
       /\ e.callee # NOTASK => Asker(v, e.callee, e.number)
  BY <1>2, <1>3, <1>5 DEF WInv, QueueAsks
<1> QED BY <1>3, <1>4, <1>7, <1>8, <1>9, <1>10, <1>11 DEF WInv, e

LEMMA UserKeeps ==
  ASSUME NEW w, NEW rest, WInv(w, User, rest), \A u : Is(w, u, "creator") => w.tasks[u].callee # User,
         NEW n \in Numbers \ rest,
         \A i \in Places : /\ w.disp.slots[i].number = n => w.disp.slots[i].conductor \in {User, NOTASK}
                           /\ w.disp.slots[i].conductor = User => w.disp.slots[i].number = n,
         NEW v, Shape(v), v.disp = w.disp, SameBut(w, v, {User}), User \in DOMAIN v.tasks,
         v.tasks[User] \in UserTask, v.tasks[User].at \in {"adding", "added"}, v.tasks[User].number = n
  PROVE  WInv(v, User, rest) /\ (v.tasks[User].at = "added" => WInv(v, NOTASK, rest))
<1>1. v.tasks[User].kind = "user" /\ User \in DOMAIN w.tasks /\ w.tasks[User].kind = "user"
  BY UserTaskIs, TasksAre DEF WInv, WType
<1>2. \A u : /\ u \in DOMAIN v.tasks <=> u \in DOMAIN w.tasks
             /\ u \in DOMAIN v.tasks /\ u # User => v.tasks[u] = w.tasks[u]
  BY <1>1 DEF SameBut
<1>3. \A u, k : Is(v, u, k) <=> Is(w, u, k)
  BY <1>1, <1>2 DEF Is
<1>4. \A u, k : Is(w, u, k) /\ k # "user" => v.tasks[u] = w.tasks[u]
  BY <1>1, <1>2 DEF Is
<1>5. \A c, m : HasTrain(v, c, m) <=> HasTrain(w, c, m)
  BY <1>3, <1>4 DEF HasTrain
<1>6. \A c, m : Asker(w, c, m) => Asker(v, c, m) \/ c = User
  BY <1>3, <1>4 DEF Asker
<1>7. WType(v)
  <2>1. IsTask(User, v.tasks[User])
    BY DEF IsTask
  <2> QED BY <1>2, <2>1 DEF WInv, WType
<1>8. SlotsInv(v)
  BY DEF WInv, SlotsInv, Taken
<1>9. OneAdds(v) /\ OneCreator(v)
  BY <1>3, <1>4 DEF WInv, OneAdds, OneCreator
<1>10. SlotsHold(v)
  BY <1>3, <1>4, <1>5 DEF WInv, SlotsHold
<1>11. TrainsGone(v) /\ TrainsHeld(v)
  BY <1>3, <1>4 DEF WInv, TrainsGone, TrainsHeld
<1>12. CreatorsHold(v)
  BY <1>3, <1>4, <1>5 DEF WInv, CreatorsHold
<1>13. ConductorsKnown(v)
  BY <1>3, <1>4 DEF WInv, ConductorsKnown
<1>14. ConductorsLive(v)
  BY <1>1, <1>2 DEF WInv, ConductorsLive
<1>15. QueueOnce(v)
  BY DEF WInv, QueueOnce, Queue
<1>16. QueueAsks(v)
  <2> SUFFICES ASSUME NEW i \in Queue(w)
      PROVE  /\ w.disp.queue[i].number # w.disp.waiting
             /\ \A u : Is(v, u, "creator") => v.tasks[u].number # w.disp.queue[i].number
             /\ w.disp.queue[i].callee = NOTASK => NoSlot(w, w.disp.queue[i].number)
             /\ w.disp.queue[i].callee # NOTASK => Asker(v, w.disp.queue[i].callee, w.disp.queue[i].number)
    BY DEF QueueAsks, Queue, NoSlot
  <2>1. w.disp.queue[i].callee # User
    <3>1. w.disp.queue \in Seq(AnyEntry)
      BY DEF WInv, WType
    <3>2. w.disp.queue[i].callee \in Pool[<<"conductor", w.disp.queue[i].number>>] \cup {NOTASK}
          /\ w.disp.queue[i].number \in Numbers
      BY <3>1, EntryIs DEF Queue
    <3> QED BY <3>2, PoolIs, UserApart DEF Kinds
  <2> QED BY <1>3, <1>4, <1>6, <2>1 DEF WInv, QueueAsks
<1>17. CreatorsAsk(v)
  BY <1>3, <1>4, <1>6 DEF WInv, CreatorsAsk, NoSlot
<1>18. AskersKnown(v, User)
  BY <1>2, <1>3, <1>4 DEF WInv, AskersKnown, Queue
<1>19. v.tasks[User].at = "added" => AskersKnown(v, NOTASK)
  BY <1>18 DEF AskersKnown
<1>20. UserBusy(v, rest)
  BY DEF UserBusy
<1>21. RestKnown(v, rest)
  BY <1>3, <1>4 DEF WInv, RestKnown, NoSlot
<1> QED BY <1>7, <1>8, <1>9, <1>10, <1>11, <1>12, <1>13, <1>14, <1>15, <1>16, <1>17, <1>18, <1>19, <1>20, <1>21
        DEF WInv

LEMMA EnteredKeeps ==
  ASSUME NEW w, NEW rest, WInv(w, NOTASK, rest), NEW t, Is(w, t, "creator"), w.tasks[t].at = "creating",
         NEW i \in Places, w.disp.slots[i].train = NOTASK,
         \/ w.disp.slots[i].number = w.tasks[t].number
         \/ /\ NoSlot(w, w.tasks[t].number) /\ w.disp.slots[i].number = 0
            /\ \A j \in Places : j < i => w.disp.slots[j].number # 0,
         NEW v, DOMAIN v = {"disp", "tasks"},
         DOMAIN v.disp = {"slots", "count", "waiting", "creating", "queue"},
         v.disp.slots = [w.disp.slots EXCEPT ![i] = [train |-> w.tasks[t].train, number |-> w.tasks[t].number,
                                                     conductor |-> w.tasks[t].callee]],
         v.disp.count = w.disp.count + 1, v.disp.waiting = NOTASK, v.disp.creating = NOTASK,
         v.disp.queue = w.disp.queue, SameBut(w, v, {t}), t \in DOMAIN v.tasks,
         v.tasks[t] = [w.tasks[t] EXCEPT !.at = "created"]
  PROVE  WInv(v, NOTASK, rest)
<1> DEFINE n == w.tasks[t].number
           x == w.tasks[t].train
           e == w.tasks[t].callee
<1>1. /\ n \in Numbers /\ n # NOTASK /\ n # 0 /\ t # User /\ t # NOTASK
      /\ t \in Pool[<<"creator", n>>] /\ w.tasks[t] \in ACreator(n)
      /\ t = w.disp.creating /\ n = w.disp.waiting
  <2>1. n \in Numbers /\ t # User /\ t # NOTASK /\ t \in Pool[<<"creator", n>>]
    BY KindIs DEF WInv, Kinds
  <2>2. w.tasks[t] \in ACreator(n)
    BY TasksAre DEF WInv, Is
  <2>3. t = w.disp.creating /\ n = w.disp.waiting
    BY DEF WInv, OneAdds, Adding
  <2> QED BY <2>1, <2>2, <2>3, UserApart
<1>2. /\ x \in Pool[<<"train", n>>] /\ x # NOTASK /\ HasTrain(w, x, n) /\ x # t
      /\ e \in Pool[<<"conductor", n>>] \cup {User, NOTASK}
  <2>1. HasTrain(w, x, n)
    BY DEF WInv, CreatorsHold
  <2>2. x # NOTASK /\ x # t
    BY <2>1, NobodyThere DEF HasTrain, Is, WInv
  <2> QED BY <1>1, <2>1, <2>2, CreatorIs
<1>3. /\ v.tasks[t] \in ACreator(n) /\ v.tasks[t].at = "created" /\ v.tasks[t].callee = e
      /\ v.tasks[t].train = x /\ v.tasks[t].number = n /\ v.tasks[t].kind = "creator"
  <2> DEFINE task == w.tasks[t]
             new  == [task EXCEPT !.at = "created"]
  <2>1. n \in Numbers /\ task \in ACreator(n)
    BY <1>1
  <2>2. v.tasks[t] = new /\ n = task.number /\ x = task.train /\ e = task.callee
    OBVIOUS
  <2> HIDE DEF n, x, e, task
  <2>3. "created" \in Adding \cup {"created"}
    OBVIOUS
  <2>4. /\ new \in ACreator(n) /\ new.at = "created" /\ new.number = n /\ new.kind = "creator"
        /\ new.callee = task.callee /\ new.train = task.train
    BY <2>1, <2>3, CreatorGoes
  <2> HIDE DEF new
  <2> QED BY <2>2, <2>4
<1>4. Shape(w)
  BY DEF WInv, WType
<1>5. /\ DOMAIN v.disp.slots = Places
      /\ v.disp.slots[i].train = x /\ v.disp.slots[i].number = n /\ v.disp.slots[i].conductor = e
      /\ \A j \in Places : j # i => v.disp.slots[j] = w.disp.slots[j]
  BY <1>4 DEF Shape
<1>6. Shape(v)
  <2>1. v.disp.slots[i] \in AnySlot
    <3>1. v.disp.slots[i] = [train |-> x, number |-> n, conductor |-> e]
      BY <1>4 DEF Shape
    <3>2. [train |-> x, number |-> n, conductor |-> e] \in ASlot(n)
      BY <1>2 DEF ASlot
    <3> QED BY <1>1, <3>1, <3>2 DEF AnySlot
  <2> QED BY <1>4, <2>1 DEF Shape
<1>7. \A u : /\ u \in DOMAIN v.tasks <=> u \in DOMAIN w.tasks
             /\ u \in DOMAIN w.tasks /\ u # t => v.tasks[u] = w.tasks[u]
  BY DEF SameBut, Is
<1>8. e # NOTASK => Asker(w, e, n)
  BY DEF WInv, CreatorsAsk
<1> HIDE DEF n, x, e
<1>9. \A u, k : Is(v, u, k) <=> Is(w, u, k)
  <2>1. t \in DOMAIN w.tasks /\ w.tasks[t].kind = "creator" /\ t \in DOMAIN v.tasks /\ v.tasks[t].kind = "creator"
    BY <1>3 DEF Is
  <2> QED BY <1>7, <2>1 DEF Is
<1>10. \A u, k : Is(w, u, k) /\ u # t => v.tasks[u] = w.tasks[u]
  BY <1>7 DEF Is
<1>11. v.tasks[User] = w.tasks[User]
  BY <1>1, <1>7 DEF WInv, WType
<1>12. \A u, k : Is(w, u, k) /\ k # "creator" => u # t
  BY DEF Is
<1>13. \A u : Is(w, u, "creator") => /\ v.tasks[u].number = w.tasks[u].number
                                     /\ v.tasks[u].callee = w.tasks[u].callee
                                     /\ v.tasks[u].train = w.tasks[u].train
                                     /\ v.tasks[u].at \notin Adding
  <2> SUFFICES ASSUME NEW u, Is(w, u, "creator")
      PROVE  /\ v.tasks[u].number = w.tasks[u].number /\ v.tasks[u].callee = w.tasks[u].callee
             /\ v.tasks[u].train = w.tasks[u].train /\ v.tasks[u].at \notin Adding
    OBVIOUS
  <2>1. CASE u = t
    BY <1>3, <2>1 DEF Adding, n, x, e
  <2>2. CASE u # t
    BY <1>1, <1>10, <2>2 DEF WInv, OneAdds
  <2> QED BY <2>1, <2>2
<1>14. WType(v)
  <2>1. IsTask(t, v.tasks[t])
    BY <1>1, <1>3 DEF IsTask
  <2>2. v.disp.count \in Nat
    BY DEF WInv, WType
  <2> QED BY <1>6, <1>7, <2>1, <2>2 DEF WInv, WType
<1>15. \A j \in Places : w.disp.slots[j].number = n => j = i
  BY <1>1, OneSlot DEF WInv, NoSlot, n
<1>16. SlotsInv(v)
  <2>1. ASSUME NEW a \in Places, NEW b \in Places, v.disp.slots[a].number = 0, a < b
        PROVE  v.disp.slots[b].number = 0
    <3>1. a # i /\ w.disp.slots[a].number = 0
      BY <1>1, <1>5, <2>1
    <3>2. w.disp.slots[b].number = 0
      BY <2>1, <3>1 DEF WInv, SlotsInv
    <3>3. b # i
      BY <1>1, <2>1, <3>1, <3>2 DEF n
    <3> QED BY <1>5, <3>2, <3>3
  <2>2. ASSUME NEW a \in Places, NEW b \in Places, v.disp.slots[a].number = v.disp.slots[b].number,
               v.disp.slots[a].number # 0
        PROVE  a = b
    <3>1. CASE a = i
      BY <1>5, <1>15, <2>2, <3>1
    <3>2. CASE b = i
      BY <1>5, <1>15, <2>2, <3>2
    <3>3. CASE a # i /\ b # i
      BY <1>5, <2>2, <3>3 DEF WInv, SlotsInv
    <3> QED BY <3>1, <3>2, <3>3
  <2>3. v.disp.count = Cardinality(Taken(v))
    <3>1. Taken(v) = Taken(w) \cup {i} /\ i \notin Taken(w)
      BY <1>2, <1>5 DEF Taken
    <3>2. IsFiniteSet(Taken(w))
      <4>1. IsFiniteSet(Places)
        <5>1. MaxTrains \in Int
          BY DispatcherAssumption
        <5>2. IsFiniteSet(1 .. MaxTrains)
          BY <5>1, FS_Interval
        <5> QED BY <5>2 DEF Places
      <4>2. Taken(w) \subseteq Places
        BY DEF Taken
      <4> QED BY <4>1, <4>2, FS_Subset
    <3> QED BY <3>1, <3>2, FS_AddElement, ZenonT(40) DEF WInv, SlotsInv
  <2> QED BY <2>1, <2>2, <2>3 DEF SlotsInv
<1>17. OneAdds(v)
  BY <1>9, <1>13 DEF OneAdds
<1>18. OneCreator(v)
  BY <1>9, <1>13 DEF WInv, OneCreator
<1>19. \A y, m : HasTrain(w, y, m) => HasTrain(v, y, m)
  BY <1>9, <1>10, <1>12 DEF HasTrain
<1>20. \A j \in Places : j # i /\ w.disp.slots[j].number # 0 =>
         /\ w.disp.slots[j].number # NOTASK /\ w.disp.slots[j].train # NOTASK
  <2> SUFFICES ASSUME NEW j \in Places, j # i, w.disp.slots[j].number # 0
      PROVE  w.disp.slots[j].number # NOTASK /\ w.disp.slots[j].train # NOTASK
    OBVIOUS
  <2>1. w.disp.slots[j].number \in Numbers
    BY <1>4, SlotIs
  <2>2. w.disp.slots[j].number # n
    BY <1>15
  <2> QED BY <1>1, <2>1, <2>2, UserApart DEF WInv, SlotsHold
<1>21. SlotsHold(v)
  <2> SUFFICES ASSUME NEW j \in Places, v.disp.slots[j].number # 0
      PROVE  /\ v.disp.slots[j].train = NOTASK <=> v.disp.slots[j].number = NOTASK
             /\ \/ HasTrain(v, v.disp.slots[j].train, v.disp.slots[j].number)
                \/ /\ Is(v, v.disp.slots[j].conductor, "conductor")
                   /\ v.tasks[v.disp.slots[j].conductor].at \in Gone
    BY DEF SlotsHold
  <2>1. CASE j = i
    BY <1>1, <1>2, <1>5, <1>19, <2>1
  <2>2. CASE j # i
    <3>1. \/ HasTrain(w, w.disp.slots[j].train, w.disp.slots[j].number)
          \/ /\ Is(w, w.disp.slots[j].conductor, "conductor")
             /\ w.tasks[w.disp.slots[j].conductor].at \in Gone
      BY <1>5, <2>2 DEF WInv, SlotsHold
    <3>2. v.disp.slots[j] = w.disp.slots[j]
      BY <1>5, <2>2
    <3> QED BY <1>9, <1>10, <1>12, <1>19, <1>20, <2>2, <3>1, <3>2
  <2> QED BY <2>1, <2>2
<1>22. TrainsGone(v)
  <2> SUFFICES ASSUME NEW d, Is(v, d, "conductor"), v.tasks[d].at \in Gone
      PROVE  \/ \A j \in Places : v.disp.slots[j].conductor = d => ~Is(v, v.disp.slots[j].train, "train")
             \/ \E u : Is(v, u, "creator") /\ v.tasks[u].at = "created" /\ v.tasks[u].callee = d
    BY DEF TrainsGone
  <2>1. CASE d = e
    BY <1>3, <1>9, <2>1
  <2>2. CASE d # e
    <3>1. Is(w, d, "conductor") /\ w.tasks[d].at \in Gone
      BY <1>9, <1>10, <1>12
    <3>2. CASE \A j \in Places : w.disp.slots[j].conductor = d => ~Is(w, w.disp.slots[j].train, "train")
      BY <1>5, <1>9, <2>2, <3>2
    <3>3. CASE \E u : Is(w, u, "creator") /\ w.tasks[u].at = "created" /\ w.tasks[u].callee = d
      BY <1>9, <1>10, <2>2, <3>3 DEF e
    <3> QED BY <3>1, <3>2, <3>3 DEF WInv, TrainsGone
  <2> QED BY <2>1, <2>2
<1>23. TrainsHeld(v)
  <2> SUFFICES ASSUME NEW y, Is(w, y, "train")
      PROVE  \E j \in Places : v.disp.slots[j].number = w.tasks[y].number /\ v.disp.slots[j].train = y
    BY <1>9, <1>10, <1>12 DEF TrainsHeld
  <2>1. y # NOTASK
    BY NobodyThere DEF WInv, Is
  <2>2. CASE \E j \in Places : w.disp.slots[j].number = w.tasks[y].number /\ w.disp.slots[j].train = y
    BY <1>5, <2>1, <2>2
  <2>3. CASE \E u : /\ Is(w, u, "creator") /\ w.tasks[u].at = "creating" /\ w.tasks[u].train = y
                    /\ w.tasks[u].number = w.tasks[y].number
    <3>1. PICK u : /\ Is(w, u, "creator") /\ w.tasks[u].at = "creating" /\ w.tasks[u].train = y
                   /\ w.tasks[u].number = w.tasks[y].number
      BY <2>3
    <3>2. u = t
      BY <1>1, <3>1 DEF WInv, OneAdds, Adding
    <3> QED BY <1>5, <3>1, <3>2 DEF n, x
  <2> QED BY <2>2, <2>3 DEF WInv, TrainsHeld
<1>24. CreatorsHold(v)
  <2> SUFFICES ASSUME NEW u, Is(w, u, "creator"), v.tasks[u].at = "created"
      PROVE  \E j \in Places :
               /\ v.disp.slots[j].number = v.tasks[u].number /\ v.disp.slots[j].train = v.tasks[u].train
               /\ v.disp.slots[j].conductor = v.tasks[u].callee
               /\ HasTrain(v, v.tasks[u].train, v.tasks[u].number)
    BY <1>9, <1>13 DEF CreatorsHold, Adding
  <2>1. CASE u = t
    BY <1>2, <1>3, <1>5, <1>19, <2>1
  <2>2. CASE u # t
    <3>1. PICK j \in Places :
               /\ w.disp.slots[j].number = w.tasks[u].number /\ w.disp.slots[j].train = w.tasks[u].train
               /\ w.disp.slots[j].conductor = w.tasks[u].callee
               /\ HasTrain(w, w.tasks[u].train, w.tasks[u].number)
      BY <1>10, <2>2 DEF WInv, CreatorsHold
    <3>2. j # i
      BY <3>1, NobodyThere DEF HasTrain, Is, WInv
    <3> QED BY <1>5, <1>10, <1>19, <2>2, <3>1, <3>2
  <2> QED BY <2>1, <2>2
<1>25. ConductorsKnown(v)
  <2> SUFFICES ASSUME NEW c, Is(w, c, "conductor")
      PROVE  \E j \in Places :
               /\ v.disp.slots[j].number = w.tasks[c].number /\ v.disp.slots[j].conductor = c
               /\ w.tasks[c].at \in AtWork => w.tasks[c].train = v.disp.slots[j].train
    BY <1>9, <1>10, <1>12 DEF ConductorsKnown
  <2>1. PICK j \in Places :
               /\ w.disp.slots[j].number = w.tasks[c].number /\ w.disp.slots[j].conductor = c
               /\ w.tasks[c].at \in AtWork => w.tasks[c].train = w.disp.slots[j].train
    BY DEF WInv, ConductorsKnown
  <2>2. CASE j # i
    BY <1>5, <2>1, <2>2
  <2>3. CASE j = i
    <3>1. w.tasks[c].number # 0
      <4>1. w.tasks[c].number \in Numbers
        BY KindIs DEF WInv, Kinds
      <4> QED BY <4>1, UserApart
    <3>2. w.tasks[c].number = n /\ ~NoSlot(w, n)
      BY <2>1, <2>3, <3>1 DEF n, NoSlot
    <3>3. Is(w, e, "conductor") /\ w.tasks[e].at \in Asking /\ w.tasks[e].number = n
      BY <1>8, <3>2 DEF WInv, CreatorsAsk, Adding, Asker, n, e
    <3>4. c = e
      BY <3>2, <3>3, OneConductor DEF WInv
    <3> QED BY <1>5, <3>2, <3>3, <3>4 DEF AtWork, Asking
  <2> QED BY <2>2, <2>3
<1>26. ConductorsLive(v)
  <2> SUFFICES ASSUME NEW j \in Places, v.disp.slots[j].conductor \notin {0, NOTASK}
      PROVE  /\ v.disp.slots[j].conductor \in DOMAIN v.tasks
             /\ v.tasks[v.disp.slots[j].conductor].number = v.disp.slots[j].number
             /\ \/ v.tasks[v.disp.slots[j].conductor].kind = "conductor"
                \/ v.disp.slots[j].conductor = User /\ v.tasks[User].at # "idle"
    BY DEF ConductorsLive
  <2>1. CASE j = i
    <3>1. Asker(w, e, n) /\ v.disp.slots[j].conductor = e /\ v.disp.slots[j].number = n
      BY <1>5, <1>8, <2>1
    <3>2. CASE Is(w, e, "conductor") /\ w.tasks[e].at \in Asking /\ w.tasks[e].number = n
      BY <1>7, <1>10, <1>12, <3>1, <3>2 DEF Is
    <3>3. CASE e = User /\ w.tasks[User].at = "adding" /\ w.tasks[User].number = n
      BY <1>7, <1>11, <3>1, <3>3 DEF WInv, WType
    <3> QED BY <3>1, <3>2, <3>3 DEF Asker
  <2>2. CASE j # i
    <3>1. v.disp.slots[j] = w.disp.slots[j]
      BY <1>5, <2>2
    <3>2. /\ w.disp.slots[j].conductor \in DOMAIN w.tasks
          /\ w.tasks[w.disp.slots[j].conductor].number = w.disp.slots[j].number
          /\ \/ w.tasks[w.disp.slots[j].conductor].kind = "conductor"
             \/ w.disp.slots[j].conductor = User /\ w.tasks[User].at # "idle"
      BY <3>1 DEF WInv, ConductorsLive
    <3>3. w.disp.slots[j].conductor # t
      BY <1>1, <1>12, <3>2 DEF Is
    <3>4. /\ w.disp.slots[j].conductor \in DOMAIN v.tasks
          /\ v.tasks[w.disp.slots[j].conductor] = w.tasks[w.disp.slots[j].conductor]
      BY <1>7, <3>2, <3>3
    <3> QED BY <1>11, <3>1, <3>2, <3>4
  <2> QED BY <2>1, <2>2
<1>27. \A c, m : Asker(w, c, m) => Asker(v, c, m)
  BY <1>9, <1>10, <1>11, <1>12 DEF Asker
<1>28. \A m : /\ m # n /\ m # 0 => (NoSlot(w, m) <=> NoSlot(v, m))
              /\ m # 0 /\ NoSlot(v, m) => NoSlot(w, m)
  BY <1>5 DEF NoSlot, n
<1>29. QueueOnce(v)
  BY DEF WInv, QueueOnce, Queue
<1>30. QueueAsks(v)
  <2> SUFFICES ASSUME NEW j \in Queue(w)
      PROVE  /\ w.disp.queue[j].number # NOTASK
             /\ \A u : Is(w, u, "creator") => v.tasks[u].number # w.disp.queue[j].number
             /\ w.disp.queue[j].callee = NOTASK => NoSlot(v, w.disp.queue[j].number)
             /\ w.disp.queue[j].callee # NOTASK => Asker(v, w.disp.queue[j].callee, w.disp.queue[j].number)
    BY <1>9 DEF QueueAsks, Queue
  <2>1. w.disp.queue[j].number \in Numbers
    <3>1. w.disp.queue \in Seq(AnyEntry)
      BY DEF WInv, WType
    <3> QED BY <3>1, EntryIs DEF Queue
  <2>2. w.disp.queue[j].number # n /\ w.disp.queue[j].number # 0 /\ w.disp.queue[j].number # NOTASK
    BY <2>1, UserApart DEF WInv, QueueAsks, n
  <2> QED BY <1>13, <1>27, <1>28, <2>2 DEF WInv, QueueAsks
<1>31. CreatorsAsk(v)
  BY <1>9, <1>13, <1>27 DEF WInv, CreatorsAsk
<1>32. AskersKnown(v, NOTASK)
  <2> SUFFICES ASSUME NEW c \in DOMAIN v.tasks, v.tasks[c].at \in {"adding", "readding", "requitting"}
      PROVE  \/ \E u : Is(v, u, "creator") /\ v.tasks[u].callee = c
             \/ \E j \in Queue(w) : w.disp.queue[j].callee = c
    BY DEF AskersKnown, Queue
  <2>1. c # t
    BY <1>3
  <2>2. c \in DOMAIN w.tasks /\ w.tasks[c].at \in {"adding", "readding", "requitting"} /\ c # NOTASK
    BY <1>7, <2>1, NobodyThere DEF WInv
  <2>3. \/ \E u : Is(w, u, "creator") /\ w.tasks[u].callee = c
        \/ \E j \in Queue(w) : w.disp.queue[j].callee = c
    BY <2>2 DEF WInv, AskersKnown
  <2> QED BY <1>9, <1>13, <2>3
<1>33. UserBusy(v, rest)
  <2> SUFFICES ASSUME w.tasks[User].at # "idle", NEW j \in Places,
                      v.disp.slots[j].number = w.tasks[User].number
      PROVE  v.disp.slots[j].conductor \in {User, NOTASK}
    BY <1>11 DEF WInv, UserBusy
  <2>1. CASE j # i
    BY <1>5, <2>1 DEF WInv, UserBusy
  <2>2. CASE j = i
    <3>1. w.tasks[User].number = n
      BY <1>5, <2>2
    <3>2. SUFFICES ASSUME e \notin {User, NOTASK} PROVE FALSE
      BY <1>5, <2>2
    <3>3. Is(w, e, "conductor") /\ w.tasks[e].number = n
      BY <1>8, <3>2 DEF Asker
    <3>4. PICK k \in Places : w.disp.slots[k].number = n /\ w.disp.slots[k].conductor = e
      BY <3>3 DEF WInv, ConductorsKnown
    <3> QED BY <3>1, <3>2, <3>4 DEF WInv, UserBusy
  <2> QED BY <2>1, <2>2
<1>34. RestKnown(v, rest)
  <2>1. 0 \notin rest
    BY UserApart DEF WInv, RestKnown
  <2> QED BY <1>9, <1>13, <1>28, <2>1 DEF WInv, RestKnown
<1> QED BY <1>14, <1>16, <1>17, <1>18, <1>21, <1>22, <1>23, <1>24, <1>25, <1>26, <1>29, <1>30, <1>31,
           <1>32, <1>33, <1>34 DEF WInv

LEMMA ResumedConductor ==
  ASSUME NEW n \in Numbers, NEW task \in AConductor(n), task.at \in Asking, NEW x \in Pool[<<"train", n>>]
  PROVE  LET new == Resumed(task, x) IN
         /\ new \in AConductor(n) /\ new.kind = "conductor" /\ new.number = n
         /\ new.at \in {"resting", "arrived"} /\ (new.at = "resting" => new.train = x)
<1>1. x # NOTASK
  BY PoolIs DEF Kinds
<1>2. CASE task.at = "readding"
  <2>1. Resumed(task, x) = [task EXCEPT !.train = x, !.at = "resting"]
    BY <1>1, <1>2 DEF Resumed, ERROR
  <2> QED BY <2>1 DEF AConductor, ConductorAt, AtWork
<1>3. CASE task.at = "requitting"
  <2>1. Resumed(task, x) = [task EXCEPT !.at = "arrived"]
    BY <1>3 DEF Resumed
  <2> QED BY <2>1 DEF AConductor, ConductorAt
<1> QED BY <1>2, <1>3 DEF Asking

LEMMA ResumedUser ==
  ASSUME NEW task \in UserTask, task.at = "adding", NEW status, status # NOTASK
  PROVE  LET new == Resumed(task, status) IN
         new \in UserTask /\ new.kind = "user" /\ new.number = task.number /\ new.at = "added"
<1>1. Resumed(task, status) = [task EXCEPT !.at = "added"]
  BY DEF Resumed, ERROR
<1> QED BY <1>1 DEF UserTask

LEMMA FinishesKeeps ==
  ASSUME NEW w, NEW rest, WInv(w, NOTASK, rest), NEW t, Is(w, t, "creator"), w.tasks[t].at = "created",
         NEW v, Shape(v), v.disp = w.disp, SameBut(w, v, {t, w.tasks[t].callee}), t \notin DOMAIN v.tasks,
         w.tasks[t].callee # t =>
           /\ w.tasks[t].callee \in DOMAIN v.tasks <=> w.tasks[t].callee \in DOMAIN w.tasks
           /\ w.tasks[t].callee \in DOMAIN w.tasks =>
                v.tasks[w.tasks[t].callee] = Resumed(w.tasks[w.tasks[t].callee], w.tasks[t].train)
  PROVE  WInv(v, NOTASK, rest)
<1> DEFINE n == w.tasks[t].number
           x == w.tasks[t].train
           e == w.tasks[t].callee
<1>1. n \in Numbers /\ t # User /\ t # NOTASK
  BY KindIs DEF WInv, Kinds
<1>2. PICK i \in Places : /\ w.disp.slots[i].number = n /\ w.disp.slots[i].train = x
                          /\ w.disp.slots[i].conductor = e /\ HasTrain(w, x, n)
  BY DEF WInv, CreatorsHold
<1>3. x # NOTASK /\ x # t /\ x \in Pool[<<"train", n>>]
  <2>1. Is(w, x, "train") /\ w.tasks[x].number = n
    BY <1>2 DEF HasTrain
  <2>2. x # NOTASK /\ x \in Pool[<<"train", n>>]
    BY <2>1, KindIs DEF WInv, Kinds
  <2> QED BY <2>1, <2>2 DEF Is
<1>4. e # NOTASK => Asker(w, e, n)
  BY DEF WInv, CreatorsAsk
<1>5. e # t
  BY <1>1, <1>4 DEF Asker, Is
<1>6. \A u : /\ u \in DOMAIN v.tasks <=> u \in DOMAIN w.tasks /\ u # t
             /\ u \in DOMAIN v.tasks /\ u # e => v.tasks[u] = w.tasks[u]
  BY <1>5 DEF SameBut
<1>7. e # NOTASK => e \in DOMAIN w.tasks /\ v.tasks[e] = Resumed(w.tasks[e], x)
  BY <1>4, <1>5 DEF Asker, Is, WInv, WType
<1>8. Is(w, e, "conductor") =>
        /\ v.tasks[e] \in AConductor(n) /\ v.tasks[e].kind = "conductor" /\ v.tasks[e].number = n
        /\ v.tasks[e].at \in {"resting", "arrived"} /\ (v.tasks[e].at = "resting" => v.tasks[e].train = x)
        /\ w.tasks[e].number = n /\ e \in Pool[<<"conductor", n>>] /\ e # User /\ e # NOTASK
  <2> SUFFICES ASSUME Is(w, e, "conductor")
      PROVE  /\ v.tasks[e] \in AConductor(n) /\ v.tasks[e].kind = "conductor" /\ v.tasks[e].number = n
             /\ v.tasks[e].at \in {"resting", "arrived"} /\ (v.tasks[e].at = "resting" => v.tasks[e].train = x)
             /\ w.tasks[e].number = n /\ e \in Pool[<<"conductor", n>>] /\ e # User /\ e # NOTASK
    OBVIOUS
  <2>1. e # User /\ e # NOTASK /\ e \in Pool[<<"conductor", w.tasks[e].number>>]
    BY KindIs DEF WInv, Kinds
  <2>2. w.tasks[e].number = n /\ w.tasks[e].at \in Asking
    BY <1>4, <2>1 DEF Asker
  <2>3. w.tasks[e] \in AConductor(n)
    BY <2>2, TasksAre DEF WInv, Is
  <2> QED BY <1>1, <1>3, <1>7, <2>1, <2>2, <2>3, ResumedConductor
<1>9. e = User => /\ v.tasks[e] \in UserTask /\ v.tasks[e].kind = "user" /\ v.tasks[e].at = "added"
                  /\ v.tasks[e].number = w.tasks[e].number /\ w.tasks[e].number = n
  <2> SUFFICES ASSUME e = User
      PROVE  /\ v.tasks[e] \in UserTask /\ v.tasks[e].kind = "user" /\ v.tasks[e].at = "added"
             /\ v.tasks[e].number = w.tasks[e].number /\ w.tasks[e].number = n
    OBVIOUS
  <2>1. User # NOTASK /\ ~Is(w, User, "conductor") /\ User \in DOMAIN w.tasks /\ w.tasks[User].kind = "user"
    BY TasksAre, UserApart DEF WInv, WType, Is
  <2>2. w.tasks[User].at = "adding" /\ w.tasks[User].number = n /\ w.tasks[User] \in UserTask
    BY <1>4, <2>1, TasksAre DEF Asker, WInv
  <2> QED BY <1>3, <1>7, <2>1, <2>2, ResumedUser
<1>10. e = NOTASK \/ e = User \/ Is(w, e, "conductor")
  BY <1>4 DEF Asker
<1> HIDE DEF n, x, e
<1>11. \A u \in DOMAIN v.tasks : /\ v.tasks[u].kind = w.tasks[u].kind /\ v.tasks[u].number = w.tasks[u].number
                                 /\ u \in DOMAIN w.tasks
  <2> TAKE u \in DOMAIN v.tasks
  <2>1. u \in DOMAIN w.tasks /\ u # NOTASK
    BY <1>6, NobodyThere DEF WInv
  <2>2. CASE u # e
    BY <1>6, <2>1, <2>2
  <2>3. CASE u = User /\ u = e
    BY <1>9, <2>1, <2>3, TasksAre DEF WInv
  <2>4. CASE Is(w, e, "conductor") /\ u = e
    BY <1>8, <2>1, <2>4 DEF Is
  <2> QED BY <1>10, <2>1, <2>2, <2>3, <2>4
<1>12. \A u, k : Is(v, u, k) <=> Is(w, u, k) /\ u # t
  BY <1>6, <1>11 DEF Is
<1>13. \A u : Is(w, u, "creator") => u # e
  BY <1>10, NobodyThere, TasksAre DEF Is, WInv
<1>14. \A u : Is(v, u, "creator") => Is(w, u, "creator") /\ u # t /\ v.tasks[u] = w.tasks[u] /\ w.tasks[u].number # n
  BY <1>6, <1>12, <1>13 DEF Is, WInv, OneCreator, n
<1>15. \A u : Is(w, u, "creator") /\ u # t => Is(v, u, "creator") /\ v.tasks[u] = w.tasks[u]
  BY <1>6, <1>12, <1>13 DEF Is
<1>16. \A u, m : HasTrain(w, u, m) => HasTrain(v, u, m)
  BY <1>6, <1>11, <1>12 DEF HasTrain, Is
<1>17. WType(v)
  <2> SUFFICES ASSUME NEW u \in DOMAIN v.tasks PROVE IsTask(u, v.tasks[u])
    BY <1>1, <1>6 DEF WInv, WType
  <2>1. CASE u # e
    BY <1>6, <2>1 DEF WInv, WType
  <2>2. CASE u = User /\ u = e
    BY <1>9, <2>2 DEF IsTask
  <2>3. CASE Is(w, e, "conductor") /\ u = e
    BY <1>1, <1>8, <2>3 DEF IsTask
  <2>4. u # NOTASK
    BY <1>11, NobodyThere DEF WInv
  <2> QED BY <1>10, <2>1, <2>2, <2>3, <2>4
<1>18. SlotsInv(v)
  BY DEF WInv, SlotsInv, Taken
<1>19. OneAdds(v)
  <2>1. w.disp.waiting # NOTASK => w.disp.creating # t
    BY DEF WInv, OneAdds, Adding
  <2> QED BY <1>14, <1>15, <2>1 DEF WInv, OneAdds
<1>20. OneCreator(v)
  BY <1>14 DEF WInv, OneCreator
<1>21. \A d : Is(w, d, "conductor") /\ d # e => Is(v, d, "conductor") /\ v.tasks[d] = w.tasks[d]
  BY <1>6, <1>12 DEF Is
<1>22. \A d : Is(v, d, "conductor") => Is(w, d, "conductor") /\ (d # e => v.tasks[d] = w.tasks[d])
  BY <1>6, <1>12 DEF Is
<1>23. Is(w, e, "conductor") => \A j \in Places : w.disp.slots[j].conductor = e => j = i
  <2> SUFFICES ASSUME Is(w, e, "conductor"), NEW j \in Places, w.disp.slots[j].conductor = e PROVE j = i
    OBVIOUS
  <2>1. PICK k \in Places : /\ w.disp.slots[k].number = w.tasks[e].number /\ w.disp.slots[k].conductor = e
                            /\ \A l \in Places : w.disp.slots[l].number = w.tasks[e].number
                                                 \/ w.disp.slots[l].conductor = e => l = k
    BY ConductorSlot DEF WInv
  <2> QED BY <1>2, <2>1 DEF e
<1>24. SlotsHold(v)
  <2> SUFFICES ASSUME NEW j \in Places, w.disp.slots[j].number # 0
      PROVE  /\ w.disp.slots[j].train = NOTASK <=> w.disp.slots[j].number = w.disp.waiting
             /\ \/ HasTrain(v, w.disp.slots[j].train, w.disp.slots[j].number)
                \/ /\ Is(v, w.disp.slots[j].conductor, "conductor")
                   /\ v.tasks[w.disp.slots[j].conductor].at \in Gone
    BY DEF SlotsHold
  <2>1. CASE j = i
    BY <1>2, <1>16, <2>1 DEF WInv, SlotsHold, n, x
  <2>2. CASE j # i
    BY <1>16, <1>21, <1>23, <2>2 DEF WInv, SlotsHold
  <2> QED BY <2>1, <2>2
<1>25. TrainsGone(v)
  <2> SUFFICES ASSUME NEW d, Is(v, d, "conductor"), v.tasks[d].at \in Gone
      PROVE  \/ \A j \in Places : w.disp.slots[j].conductor = d => ~Is(v, w.disp.slots[j].train, "train")
             \/ \E u : Is(v, u, "creator") /\ v.tasks[u].at = "created" /\ v.tasks[u].callee = d
    BY DEF TrainsGone
  <2>1. d # e
    BY <1>8, <1>22 DEF Gone
  <2>2. Is(w, d, "conductor") /\ w.tasks[d].at \in Gone
    BY <1>22, <2>1
  <2>3. CASE \A j \in Places : w.disp.slots[j].conductor = d => ~Is(w, w.disp.slots[j].train, "train")
    BY <1>12, <2>3
  <2>4. CASE \E u : Is(w, u, "creator") /\ w.tasks[u].at = "created" /\ w.tasks[u].callee = d
    BY <1>15, <2>1, <2>4 DEF e
  <2> QED BY <2>2, <2>3, <2>4 DEF WInv, TrainsGone
<1>26. TrainsHeld(v)
  <2> SUFFICES ASSUME NEW y, Is(v, y, "train")
      PROVE  \/ \E j \in Places : w.disp.slots[j].number = v.tasks[y].number /\ w.disp.slots[j].train = y
             \/ \E u : /\ Is(v, u, "creator") /\ v.tasks[u].at = "creating" /\ v.tasks[u].train = y
                       /\ v.tasks[u].number = v.tasks[y].number
    BY DEF TrainsHeld
  <2>1. Is(w, y, "train") /\ v.tasks[y].number = w.tasks[y].number
    BY <1>11, <1>12 DEF Is
  <2>2. \A u : Is(w, u, "creator") /\ w.tasks[u].at = "creating" => Is(v, u, "creator") /\ v.tasks[u] = w.tasks[u]
    BY <1>15
  <2> QED BY <2>1, <2>2 DEF WInv, TrainsHeld
<1>27. CreatorsHold(v)
  BY <1>14, <1>16 DEF WInv, CreatorsHold
<1>28. ConductorsKnown(v)
  <2> SUFFICES ASSUME NEW c, Is(v, c, "conductor")
      PROVE  \E j \in Places :
               /\ w.disp.slots[j].number = v.tasks[c].number /\ w.disp.slots[j].conductor = c
               /\ v.tasks[c].at \in AtWork => v.tasks[c].train = w.disp.slots[j].train
    BY DEF ConductorsKnown
  <2>1. CASE c = e
    BY <1>2, <1>8, <1>22, <2>1 DEF n, x, e, AtWork
  <2>2. CASE c # e
    BY <1>22, <2>2 DEF WInv, ConductorsKnown
  <2> QED BY <2>1, <2>2
<1>29. ConductorsLive(v)
  <2> SUFFICES ASSUME NEW j \in Places, w.disp.slots[j].conductor \notin {0, NOTASK}
      PROVE  /\ w.disp.slots[j].conductor \in DOMAIN v.tasks
             /\ v.tasks[w.disp.slots[j].conductor].number = w.disp.slots[j].number
             /\ \/ v.tasks[w.disp.slots[j].conductor].kind = "conductor"
                \/ w.disp.slots[j].conductor = User /\ v.tasks[User].at # "idle"
    BY DEF ConductorsLive
  <2> DEFINE c == w.disp.slots[j].conductor
  <2>1. /\ c \in DOMAIN w.tasks /\ w.tasks[c].number = w.disp.slots[j].number
        /\ w.tasks[c].kind = "conductor" \/ (c = User /\ w.tasks[User].at # "idle")
    BY DEF WInv, ConductorsLive
  <2> HIDE DEF c
  <2>2. c # t /\ c \in DOMAIN v.tasks
    BY <1>1, <1>6, <2>1 DEF Is
  <2>3. v.tasks[c].kind = w.tasks[c].kind /\ v.tasks[c].number = w.tasks[c].number
    BY <1>11, <2>2
  <2>4. c = User => v.tasks[User].at # "idle" \/ w.tasks[c].kind = "conductor"
    BY <1>6, <1>9, <2>1, <2>2
  <2> QED BY <2>1, <2>2, <2>3, <2>4 DEF c
<1>30. \A c, m : Asker(w, c, m) /\ m # n => Asker(v, c, m)
  <2> SUFFICES ASSUME NEW c, NEW m, Asker(w, c, m), m # n PROVE Asker(v, c, m)
    OBVIOUS
  <2>1. c # e
    <3>1. SUFFICES ASSUME c = e PROVE FALSE
      OBVIOUS
    <3>2. CASE Is(w, c, "conductor") /\ w.tasks[c].number = m
      BY <1>8, <3>1, <3>2
    <3>3. CASE c = User /\ w.tasks[User].number = m
      BY <1>9, <3>1, <3>3
    <3> QED BY <3>2, <3>3 DEF Asker
  <2>2. c # User \/ v.tasks[User] = w.tasks[User]
    BY <1>1, <1>6, <2>1 DEF WInv, WType
  <2> QED BY <1>21, <2>1, <2>2 DEF Asker
<1>31. QueueOnce(v)
  BY DEF WInv, QueueOnce, Queue
<1>32. QueueAsks(v)
  BY <1>14, <1>30 DEF WInv, QueueAsks, Queue, NoSlot, n
<1>33. CreatorsAsk(v)
  BY <1>14, <1>30 DEF WInv, CreatorsAsk, NoSlot
<1>34. AskersKnown(v, NOTASK)
  <2> SUFFICES ASSUME NEW c \in DOMAIN v.tasks, v.tasks[c].at \in {"adding", "readding", "requitting"}
      PROVE  \/ \E u : Is(v, u, "creator") /\ v.tasks[u].callee = c
             \/ \E j \in Queue(w) : w.disp.queue[j].callee = c
    BY DEF AskersKnown, Queue
  <2>1. c # NOTASK /\ c \in DOMAIN w.tasks
    BY <1>11, NobodyThere DEF WInv
  <2>2. c # e
    BY <1>8, <1>9, <1>10, <2>1
  <2>3. w.tasks[c].at \in {"adding", "readding", "requitting"}
    BY <1>6, <2>2
  <2>4. \/ \E u : Is(w, u, "creator") /\ w.tasks[u].callee = c
        \/ \E j \in Queue(w) : w.disp.queue[j].callee = c
    BY <2>1, <2>3 DEF WInv, AskersKnown
  <2> QED BY <1>15, <2>2, <2>4 DEF e
<1>35. UserBusy(v, rest)
  <2>1. User \in DOMAIN w.tasks /\ User \in DOMAIN v.tasks
    BY <1>1, <1>6 DEF WInv, WType
  <2>2. CASE e = User
    <3>1. w.tasks[User].at # "idle"
      BY <1>4, <2>2, TasksAre, <2>1, UserApart DEF Asker, e, Is, WInv
    <3> QED BY <1>9, <2>2, <3>1 DEF WInv, UserBusy
  <2>3. CASE e # User
    BY <1>6, <2>1, <2>3 DEF WInv, UserBusy
  <2> QED BY <2>2, <2>3
<1>36. RestKnown(v, rest)
  BY <1>14 DEF WInv, RestKnown, NoSlot
<1> QED BY <1>17, <1>18, <1>19, <1>20, <1>24, <1>25, <1>26, <1>27, <1>28, <1>29, <1>31, <1>32, <1>33, <1>34,
           <1>35, <1>36 DEF WInv

(* The conductor d of slot i goes, if there is one. *)
LEMMA FreeKeeps ==
  ASSUME NEW w, NEW rest, WInv(w, NOTASK, rest), NEW i \in Places, w.disp.slots[i].number # 0,
         w.disp.slots[i].conductor # NOTASK =>
           /\ Is(w, w.disp.slots[i].conductor, "conductor")
           /\ w.tasks[w.disp.slots[i].conductor].at \notin Gone,
         \A u : Is(w, u, "creator") => w.tasks[u].number # w.disp.slots[i].number,
         NEW v, Shape(v),
         \A j \in Places : /\ v.disp.slots[j].number = w.disp.slots[j].number
                           /\ v.disp.slots[j].train = w.disp.slots[j].train
                           /\ v.disp.slots[j].conductor = IF j = i THEN NOTASK ELSE w.disp.slots[j].conductor,
         v.disp.count = w.disp.count, v.disp.queue = w.disp.queue,
         v.disp.waiting = w.disp.waiting, v.disp.creating = w.disp.creating,
         SameBut(w, v, {w.disp.slots[i].conductor}), w.disp.slots[i].conductor \notin DOMAIN v.tasks
  PROVE  /\ WInv(v, NOTASK, rest)
         /\ v.disp.slots[i].conductor = NOTASK /\ v.disp.slots[i].number = w.disp.slots[i].number
         /\ v.disp.slots[i].train = w.disp.slots[i].train
         /\ HasTrain(v, v.disp.slots[i].train, v.disp.slots[i].number)
         /\ \A u : Is(v, u, "creator") => v.tasks[u].number # v.disp.slots[i].number
         /\ v.tasks[User] = w.tasks[User]
<1> DEFINE n == w.disp.slots[i].number
           d == w.disp.slots[i].conductor
<1>1. Shape(w) /\ n \in Numbers /\ w.disp.slots[i] \in ASlot(n)
  <2>1. Shape(w)
    BY DEF WInv, WType
  <2> QED BY <2>1, SlotIs
<1>2. d # NOTASK => Is(w, d, "conductor") /\ w.tasks[d].at \notin Gone /\ d # User
  BY KindIs DEF WInv, Kinds
<1>3. HasTrain(w, w.disp.slots[i].train, n)
  <2>1. ~Is(w, NOTASK, "conductor")
    BY NobodyThere DEF WInv, Is
  <2> QED BY <1>2, <2>1 DEF WInv, SlotsHold
<1>5. /\ v.disp.slots[i].number = n
      /\ v.disp.slots[i].train = w.disp.slots[i].train /\ v.disp.slots[i].conductor = NOTASK
  OBVIOUS
<1> HIDE DEF n, d
<1>7. \A u : /\ u \in DOMAIN v.tasks <=> u \in DOMAIN w.tasks /\ u # d
             /\ u \in DOMAIN v.tasks => v.tasks[u] = w.tasks[u]
  BY DEF SameBut, d
<1>8. d # User /\ User \in DOMAIN w.tasks /\ v.tasks[User] = w.tasks[User] /\ User \in DOMAIN v.tasks
  BY <1>2, <1>7, UserApart DEF WInv, WType
<1>9. \A u, k : Is(v, u, k) <=> Is(w, u, k) /\ u # d
  BY <1>7 DEF Is
<1>10. \A u, k : Is(w, u, k) /\ k # "conductor" => Is(v, u, k) /\ v.tasks[u] = w.tasks[u]
  BY <1>2, <1>7, NobodyThere DEF Is, WInv
<1>11. \A u, k : Is(v, u, k) => Is(w, u, k) /\ v.tasks[u] = w.tasks[u]
  BY <1>7 DEF Is
<1>12. \A j \in Places : /\ v.disp.slots[j].number = w.disp.slots[j].number
                         /\ v.disp.slots[j].train = w.disp.slots[j].train
                         /\ j # i => v.disp.slots[j].conductor = w.disp.slots[j].conductor
  OBVIOUS
<1>13. \A m : NoSlot(w, m) <=> NoSlot(v, m)
  BY <1>12 DEF NoSlot
<1>14. WType(v)
  BY <1>7, <1>8 DEF WInv, WType
<1>15. SlotsInv(v)
  <2>1. Taken(v) = Taken(w)
    BY <1>12 DEF Taken
  <2> QED BY <1>12, <2>1 DEF WInv, SlotsInv
<1>16. OneAdds(v) /\ OneCreator(v)
  BY <1>10, <1>11 DEF WInv, OneAdds, OneCreator
<1>17. \A y, m : HasTrain(w, y, m) => HasTrain(v, y, m)
  BY <1>10 DEF HasTrain
<1>18. \A c : Is(w, c, "conductor") /\ w.tasks[c].at \in Gone => Is(v, c, "conductor") /\ v.tasks[c] = w.tasks[c]
  BY <1>2, <1>9, <1>11, NobodyThere DEF Is, WInv
<1>19. \A j \in Places : j # i /\ w.disp.slots[j].conductor # NOTASK => w.disp.slots[j].conductor # d
  <2> SUFFICES ASSUME NEW j \in Places, w.disp.slots[j].conductor = d, d # NOTASK PROVE j = i
    OBVIOUS
  <2>1. PICK k \in Places : /\ w.disp.slots[k].number = w.tasks[d].number /\ w.disp.slots[k].conductor = d
                            /\ \A l \in Places : w.disp.slots[l].number = w.tasks[d].number
                                                 \/ w.disp.slots[l].conductor = d => l = k
    BY <1>2, ConductorSlot DEF WInv
  <2> QED BY <2>1 DEF d
<1>20. SlotsHold(v)
  <2> SUFFICES ASSUME NEW j \in Places, w.disp.slots[j].number # 0
      PROVE  /\ w.disp.slots[j].train = NOTASK <=> w.disp.slots[j].number = w.disp.waiting
             /\ \/ HasTrain(v, w.disp.slots[j].train, w.disp.slots[j].number)
                \/ /\ Is(v, v.disp.slots[j].conductor, "conductor")
                   /\ v.tasks[v.disp.slots[j].conductor].at \in Gone
    BY <1>12 DEF SlotsHold
  <2>1. CASE j = i
    BY <1>3, <1>17, <2>1 DEF WInv, SlotsHold, n
  <2>2. CASE j # i
    BY <1>12, <1>17, <1>18, <2>2 DEF WInv, SlotsHold
  <2> QED BY <2>1, <2>2
<1>21. TrainsGone(v)
  <2> SUFFICES ASSUME NEW c, Is(v, c, "conductor"), v.tasks[c].at \in Gone
      PROVE  \/ \A j \in Places : v.disp.slots[j].conductor = c => ~Is(v, v.disp.slots[j].train, "train")
             \/ \E u : Is(v, u, "creator") /\ v.tasks[u].at = "created" /\ v.tasks[u].callee = c
    BY DEF TrainsGone
  <2>1. Is(w, c, "conductor") /\ w.tasks[c].at \in Gone /\ c # NOTASK
    BY <1>11, NobodyThere DEF Is, WInv
  <2>2. CASE \A j \in Places : w.disp.slots[j].conductor = c => ~Is(w, w.disp.slots[j].train, "train")
    BY <1>5, <1>11, <1>12, <2>1, <2>2
  <2>3. CASE \E u : Is(w, u, "creator") /\ w.tasks[u].at = "created" /\ w.tasks[u].callee = c
    BY <1>10, <2>3
  <2> QED BY <2>1, <2>2, <2>3 DEF WInv, TrainsGone
<1>22. TrainsHeld(v)
  <2> SUFFICES ASSUME NEW y, Is(w, y, "train")
      PROVE  \/ \E j \in Places : v.disp.slots[j].number = w.tasks[y].number /\ v.disp.slots[j].train = y
             \/ \E u : /\ Is(v, u, "creator") /\ v.tasks[u].at = "creating" /\ v.tasks[u].train = y
                       /\ v.tasks[u].number = w.tasks[y].number
    BY <1>10, <1>11 DEF TrainsHeld
  <2> QED BY <1>10, <1>12 DEF WInv, TrainsHeld
<1>23. CreatorsHold(v)
  <2> SUFFICES ASSUME NEW u, Is(w, u, "creator")
      PROVE  /\ w.tasks[u].at = "creating" => HasTrain(v, w.tasks[u].train, w.tasks[u].number)
             /\ w.tasks[u].at = "created" => \E j \in Places :
                  /\ v.disp.slots[j].number = w.tasks[u].number /\ v.disp.slots[j].train = w.tasks[u].train
                  /\ v.disp.slots[j].conductor = w.tasks[u].callee
                  /\ HasTrain(v, w.tasks[u].train, w.tasks[u].number)
    BY <1>10, <1>11 DEF CreatorsHold
  <2>1. \A j \in Places : w.disp.slots[j].number = w.tasks[u].number => j # i
    OBVIOUS
  <2> QED BY <1>12, <1>17, <2>1 DEF WInv, CreatorsHold
<1>24. ConductorsKnown(v)
  <2> SUFFICES ASSUME NEW c, Is(v, c, "conductor")
      PROVE  \E j \in Places :
               /\ v.disp.slots[j].number = v.tasks[c].number /\ v.disp.slots[j].conductor = c
               /\ v.tasks[c].at \in AtWork => v.tasks[c].train = v.disp.slots[j].train
    BY DEF ConductorsKnown
  <2>1. Is(w, c, "conductor") /\ v.tasks[c] = w.tasks[c] /\ c # d
    BY <1>9, <1>11
  <2>2. PICK j \in Places :
               /\ w.disp.slots[j].number = w.tasks[c].number /\ w.disp.slots[j].conductor = c
               /\ w.tasks[c].at \in AtWork => w.tasks[c].train = w.disp.slots[j].train
    BY <2>1 DEF WInv, ConductorsKnown
  <2>3. j # i
    BY <2>1, <2>2 DEF d
  <2> QED BY <1>12, <2>1, <2>2, <2>3
<1>25. ConductorsLive(v)
  <2> SUFFICES ASSUME NEW j \in Places, v.disp.slots[j].conductor \notin {0, NOTASK}
      PROVE  /\ v.disp.slots[j].conductor \in DOMAIN v.tasks
             /\ v.tasks[v.disp.slots[j].conductor].number = v.disp.slots[j].number
             /\ \/ v.tasks[v.disp.slots[j].conductor].kind = "conductor"
                \/ v.disp.slots[j].conductor = User /\ v.tasks[User].at # "idle"
    BY DEF ConductorsLive
  <2> DEFINE c == w.disp.slots[j].conductor
  <2>1. j # i /\ v.disp.slots[j].conductor = c /\ v.disp.slots[j].number = w.disp.slots[j].number
    BY <1>5, <1>12
  <2>2. /\ c \in DOMAIN w.tasks /\ w.tasks[c].number = w.disp.slots[j].number
        /\ w.tasks[c].kind = "conductor" \/ (c = User /\ w.tasks[User].at # "idle")
    BY <2>1 DEF WInv, ConductorsLive
  <2>3. c # d
    BY <1>19, <2>1
  <2> HIDE DEF c
  <2>4. c \in DOMAIN v.tasks /\ v.tasks[c] = w.tasks[c]
    BY <1>7, <2>2, <2>3
  <2> QED BY <1>8, <2>1, <2>2, <2>4
<1>26. \A c, m : Asker(w, c, m) => Asker(v, c, m)
  <2> SUFFICES ASSUME NEW c, NEW m, Asker(w, c, m) PROVE Asker(v, c, m)
    OBVIOUS
  <2>1. CASE Is(w, c, "conductor") /\ w.tasks[c].at \in Asking /\ w.tasks[c].number = m
    BY <1>18, <2>1 DEF Asker, Asking, Gone
  <2>2. CASE c = User /\ w.tasks[User].at = "adding" /\ w.tasks[User].number = m
    BY <1>8, <2>2 DEF Asker
  <2> QED BY <2>1, <2>2 DEF Asker
<1>27. QueueOnce(v)
  BY DEF WInv, QueueOnce, Queue
<1>28. QueueAsks(v)
  BY <1>11, <1>13, <1>26 DEF WInv, QueueAsks, Queue
<1>29. CreatorsAsk(v)
  BY <1>11, <1>13, <1>26 DEF WInv, CreatorsAsk
<1>30. AskersKnown(v, NOTASK)
  <2> SUFFICES ASSUME NEW c \in DOMAIN v.tasks, v.tasks[c].at \in {"adding", "readding", "requitting"}
      PROVE  \/ \E u : Is(v, u, "creator") /\ v.tasks[u].callee = c
             \/ \E j \in Queue(w) : w.disp.queue[j].callee = c
    BY DEF AskersKnown, Queue
  <2>1. c \in DOMAIN w.tasks /\ w.tasks[c].at \in {"adding", "readding", "requitting"} /\ c # NOTASK
    BY <1>7, NobodyThere DEF WInv
  <2>2. \/ \E u : Is(w, u, "creator") /\ w.tasks[u].callee = c
        \/ \E j \in Queue(w) : w.disp.queue[j].callee = c
    BY <2>1 DEF WInv, AskersKnown
  <2> QED BY <1>10, <2>2
<1>31. UserBusy(v, rest)
  BY <1>5, <1>8, <1>12 DEF WInv, UserBusy
<1>32. RestKnown(v, rest)
  BY <1>11, <1>13 DEF WInv, RestKnown
<1>33. \A u : Is(v, u, "creator") => v.tasks[u].number # n
  BY <1>11 DEF n
<1> QED BY <1>3, <1>5, <1>8, <1>14, <1>15, <1>16, <1>17, <1>20, <1>21, <1>22, <1>23, <1>24, <1>25, <1>27,
           <1>28, <1>29, <1>30, <1>31, <1>32, <1>33 DEF WInv, n
-----------------------------------------------------------------------------
LEMMA ConductKeeps ==
  ASSUME NEW w, NEW rest, WInv(w, NOTASK, rest), NEW i \in Places, NEW n \in Numbers,
         w.disp.slots[i].number = n, w.disp.slots[i].conductor = NOTASK,
         HasTrain(w, w.disp.slots[i].train, n),
         \A u : Is(w, u, "creator") => w.tasks[u].number # n,
         w.tasks[User].at = "idle" \/ w.tasks[User].number # n,
         NEW t \in Pool[<<"conductor", n>>], t \notin DOMAIN w.tasks,
         NEW v, DOMAIN v = DOMAIN w, DOMAIN v.disp = DOMAIN w.disp,
         v.disp.slots = [w.disp.slots EXCEPT ![i] = [@ EXCEPT !.conductor = t]],
         v.disp.count = w.disp.count, v.disp.queue = w.disp.queue,
         v.disp.waiting = w.disp.waiting, v.disp.creating = w.disp.creating,
         SameBut(w, v, {t}), t \in DOMAIN v.tasks, v.tasks[t] \in AConductor(n),
         v.tasks[t].at \in {"plan", "move"}, v.tasks[t].train = w.disp.slots[i].train
  PROVE  WInv(v, NOTASK, rest)
<1>1. Shape(w) /\ n # 0 /\ w.disp.slots[i] \in ASlot(n) /\ w.disp.slots[i].train \in Pool[<<"train", n>>] \cup {NOTASK}
  <2>1. Shape(w) /\ n # 0
    BY UserApart DEF WInv, WType
  <2> QED BY <2>1, SlotIs
<1>2. t # User /\ t # NOTASK /\ t # 0 /\ v.tasks[t].kind = "conductor" /\ v.tasks[t].number = n
  <2>1. t # User /\ t # NOTASK /\ t # 0
    BY PoolIs DEF Kinds
  <2>2. v.tasks[t].kind = "conductor" /\ v.tasks[t].number = n
    BY DEF AConductor
  <2> QED BY <2>1, <2>2
<1>3. /\ DOMAIN v.disp.slots = Places
      /\ v.disp.slots[i] = [w.disp.slots[i] EXCEPT !.conductor = t]
      /\ \A j \in Places : j # i => v.disp.slots[j] = w.disp.slots[j]
  BY <1>1 DEF Shape
<1>4. /\ v.disp.slots[i] \in ASlot(n) /\ v.disp.slots[i].number = n
      /\ v.disp.slots[i].train = w.disp.slots[i].train /\ v.disp.slots[i].conductor = t
  BY <1>1, <1>3 DEF ASlot
<1>5. Shape(v)
  <2>1. v.disp.slots[i] \in AnySlot
    BY <1>4 DEF AnySlot
  <2> QED BY <1>1, <1>3, <2>1 DEF Shape
<1>6. \A j \in Places : /\ v.disp.slots[j].number = w.disp.slots[j].number
                        /\ v.disp.slots[j].train = w.disp.slots[j].train
                        /\ j # i => v.disp.slots[j].conductor = w.disp.slots[j].conductor
  BY <1>3, <1>4
<1>7. \A u : /\ u \in DOMAIN v.tasks <=> u \in DOMAIN w.tasks \/ u = t
             /\ u \in DOMAIN w.tasks => v.tasks[u] = w.tasks[u] /\ u # t
  BY DEF SameBut
<1>8. \A u, k : Is(w, u, k) => Is(v, u, k) /\ v.tasks[u] = w.tasks[u]
  BY <1>7 DEF Is
<1>9. \A u, k : Is(v, u, k) => (Is(w, u, k) /\ v.tasks[u] = w.tasks[u]) \/ (u = t /\ k = "conductor")
  BY <1>2, <1>7 DEF Is
<1>10. v.tasks[User] = w.tasks[User] /\ User \in DOMAIN w.tasks
  BY <1>7 DEF WInv, WType
<1>11. \A m : NoSlot(w, m) <=> NoSlot(v, m)
  BY <1>6 DEF NoSlot
<1>12. WType(v)
  <2>1. IsTask(t, v.tasks[t])
    BY <1>2 DEF IsTask
  <2> QED BY <1>5, <1>7, <2>1 DEF WInv, WType
<1>13. SlotsInv(v)
  <2>1. Taken(v) = Taken(w)
    BY <1>6 DEF Taken
  <2> QED BY <1>6, <2>1 DEF WInv, SlotsInv
<1>14. OneAdds(v) /\ OneCreator(v)
  BY <1>8, <1>9 DEF WInv, OneAdds, OneCreator
<1>15. \A y, m : HasTrain(w, y, m) => HasTrain(v, y, m)
  BY <1>8 DEF HasTrain
<1>16. \A c : Is(w, c, "conductor") => c # t /\ c # NOTASK
  BY <1>7, NobodyThere DEF Is, WInv
<1>17. SlotsHold(v)
  <2> SUFFICES ASSUME NEW j \in Places, w.disp.slots[j].number # 0
      PROVE  /\ w.disp.slots[j].train = NOTASK <=> w.disp.slots[j].number = w.disp.waiting
             /\ \/ HasTrain(v, w.disp.slots[j].train, w.disp.slots[j].number)
                \/ /\ Is(v, v.disp.slots[j].conductor, "conductor")
                   /\ v.tasks[v.disp.slots[j].conductor].at \in Gone
    BY <1>6 DEF SlotsHold
  <2>1. CASE j = i
    BY <1>15, <2>1 DEF WInv, SlotsHold
  <2>2. CASE j # i
    BY <1>6, <1>8, <1>15, <2>2 DEF WInv, SlotsHold
  <2> QED BY <2>1, <2>2
<1>18. TrainsGone(v)
  <2> SUFFICES ASSUME NEW c, Is(v, c, "conductor"), v.tasks[c].at \in Gone
      PROVE  \/ \A j \in Places : v.disp.slots[j].conductor = c => ~Is(v, v.disp.slots[j].train, "train")
             \/ \E u : Is(v, u, "creator") /\ v.tasks[u].at = "created" /\ v.tasks[u].callee = c
    BY DEF TrainsGone
  <2>1. Is(w, c, "conductor") /\ w.tasks[c].at \in Gone /\ c # t
    BY <1>9, <1>16 DEF Gone
  <2>2. CASE \A j \in Places : w.disp.slots[j].conductor = c => ~Is(w, w.disp.slots[j].train, "train")
    BY <1>4, <1>6, <1>9, <2>1, <2>2
  <2>3. CASE \E u : Is(w, u, "creator") /\ w.tasks[u].at = "created" /\ w.tasks[u].callee = c
    BY <1>8, <2>3
  <2> QED BY <2>1, <2>2, <2>3 DEF WInv, TrainsGone
<1>19. TrainsHeld(v)
  <2> SUFFICES ASSUME NEW y, Is(w, y, "train")
      PROVE  \/ \E j \in Places : v.disp.slots[j].number = w.tasks[y].number /\ v.disp.slots[j].train = y
             \/ \E u : /\ Is(v, u, "creator") /\ v.tasks[u].at = "creating" /\ v.tasks[u].train = y
                       /\ v.tasks[u].number = w.tasks[y].number
    BY <1>8, <1>9 DEF TrainsHeld
  <2> QED BY <1>6, <1>8 DEF WInv, TrainsHeld
<1>20. CreatorsHold(v)
  <2> SUFFICES ASSUME NEW u, Is(w, u, "creator")
      PROVE  /\ w.tasks[u].at = "creating" => HasTrain(v, w.tasks[u].train, w.tasks[u].number)
             /\ w.tasks[u].at = "created" => \E j \in Places :
                  /\ v.disp.slots[j].number = w.tasks[u].number /\ v.disp.slots[j].train = w.tasks[u].train
                  /\ v.disp.slots[j].conductor = w.tasks[u].callee
                  /\ HasTrain(v, w.tasks[u].train, w.tasks[u].number)
    BY <1>8, <1>9 DEF CreatorsHold
  <2>1. \A j \in Places : w.disp.slots[j].number = w.tasks[u].number => j # i
    OBVIOUS
  <2> QED BY <1>6, <1>15, <2>1 DEF WInv, CreatorsHold
<1>21. ConductorsKnown(v)
  <2> SUFFICES ASSUME NEW c, Is(v, c, "conductor")
      PROVE  \E j \in Places :
               /\ v.disp.slots[j].number = v.tasks[c].number /\ v.disp.slots[j].conductor = c
               /\ v.tasks[c].at \in AtWork => v.tasks[c].train = v.disp.slots[j].train
    BY DEF ConductorsKnown
  <2>1. CASE c = t
    BY <1>2, <1>4, <2>1
  <2>2. CASE c # t
    <3>1. Is(w, c, "conductor") /\ v.tasks[c] = w.tasks[c] /\ c # NOTASK
      BY <1>9, <1>16, <2>2
    <3>2. PICK j \in Places :
               /\ w.disp.slots[j].number = w.tasks[c].number /\ w.disp.slots[j].conductor = c
               /\ w.tasks[c].at \in AtWork => w.tasks[c].train = w.disp.slots[j].train
      BY <3>1 DEF WInv, ConductorsKnown
    <3>3. j # i
      BY <3>1, <3>2
    <3> QED BY <1>6, <3>1, <3>2, <3>3
  <2> QED BY <2>1, <2>2
<1>22. ConductorsLive(v)
  <2> SUFFICES ASSUME NEW j \in Places, v.disp.slots[j].conductor \notin {0, NOTASK}
      PROVE  /\ v.disp.slots[j].conductor \in DOMAIN v.tasks
             /\ v.tasks[v.disp.slots[j].conductor].number = v.disp.slots[j].number
             /\ \/ v.tasks[v.disp.slots[j].conductor].kind = "conductor"
                \/ v.disp.slots[j].conductor = User /\ v.tasks[User].at # "idle"
    BY DEF ConductorsLive
  <2>1. CASE j = i
    BY <1>2, <1>4, <2>1
  <2>2. CASE j # i
    <3> DEFINE c == w.disp.slots[j].conductor
    <3>1. /\ v.disp.slots[j].conductor = c /\ v.disp.slots[j].number = w.disp.slots[j].number
          /\ c \notin {0, NOTASK}
      BY <1>6, <2>2
    <3>2. /\ c \in DOMAIN w.tasks /\ w.tasks[c].number = w.disp.slots[j].number
          /\ w.tasks[c].kind = "conductor" \/ (c = User /\ w.tasks[User].at # "idle")
      BY <3>1 DEF WInv, ConductorsLive
    <3> HIDE DEF c
    <3> QED BY <1>7, <1>10, <3>1, <3>2
  <2> QED BY <2>1, <2>2
<1>23. \A c, m : Asker(w, c, m) => Asker(v, c, m)
  BY <1>8, <1>10 DEF Asker
<1>24. QueueOnce(v)
  BY DEF WInv, QueueOnce, Queue
<1>25. QueueAsks(v)
  BY <1>8, <1>9, <1>11, <1>23 DEF WInv, QueueAsks, Queue
<1>26. CreatorsAsk(v)
  BY <1>8, <1>9, <1>11, <1>23 DEF WInv, CreatorsAsk
<1>27. AskersKnown(v, NOTASK)
  <2> SUFFICES ASSUME NEW c \in DOMAIN v.tasks, v.tasks[c].at \in {"adding", "readding", "requitting"}
      PROVE  \/ \E u : Is(v, u, "creator") /\ v.tasks[u].callee = c
             \/ \E j \in Queue(w) : w.disp.queue[j].callee = c
    BY DEF AskersKnown, Queue
  <2>1. c \in DOMAIN w.tasks /\ w.tasks[c].at \in {"adding", "readding", "requitting"} /\ c # NOTASK
    BY <1>7, NobodyThere DEF WInv
  <2>2. \/ \E u : Is(w, u, "creator") /\ w.tasks[u].callee = c
        \/ \E j \in Queue(w) : w.disp.queue[j].callee = c
    BY <2>1 DEF WInv, AskersKnown
  <2> QED BY <1>8, <2>2
<1>28. UserBusy(v, rest)
  BY <1>6, <1>10 DEF WInv, UserBusy
<1>29. RestKnown(v, rest)
  BY <1>8, <1>9, <1>11 DEF WInv, RestKnown
<1> QED BY <1>12, <1>13, <1>14, <1>17, <1>18, <1>19, <1>20, <1>21, <1>22, <1>24, <1>25, <1>26, <1>27, <1>28,
           <1>29 DEF WInv

LEMMA UserFreeKeeps ==
  ASSUME NEW w, NEW rest, WInv(w, NOTASK, rest), w.tasks[User].at = "added",
         NEW v, Shape(v),
         \A j \in Places : /\ v.disp.slots[j].number = w.disp.slots[j].number
                           /\ v.disp.slots[j].train = w.disp.slots[j].train
                           /\ v.disp.slots[j].conductor = IF w.disp.slots[j].conductor = User THEN NOTASK
                                                          ELSE w.disp.slots[j].conductor,
         v.disp.count = w.disp.count, v.disp.queue = w.disp.queue,
         v.disp.waiting = w.disp.waiting, v.disp.creating = w.disp.creating,
         SameBut(w, v, {User}), User \in DOMAIN v.tasks,
         v.tasks[User] = [w.tasks[User] EXCEPT !.at = "idle"]
  PROVE  WInv(v, NOTASK, rest)
<1>1. w.tasks[User] \in UserTask /\ User \in DOMAIN w.tasks /\ w.tasks[User].kind = "user"
  BY TasksAre DEF WInv, WType
<1>2. v.tasks[User] \in UserTask /\ v.tasks[User].at = "idle" /\ v.tasks[User].kind = "user"
  <2>1. LET new == [w.tasks[User] EXCEPT !.at = "idle"] IN new \in UserTask /\ new.at = "idle" /\ new.kind = "user"
    BY <1>1, UserGoes
  <2> QED BY <2>1
<1>3. \A u : /\ u \in DOMAIN v.tasks <=> u \in DOMAIN w.tasks
             /\ u \in DOMAIN v.tasks /\ u # User => v.tasks[u] = w.tasks[u]
  BY <1>1 DEF SameBut
<1>4. \A u, k : Is(v, u, k) <=> Is(w, u, k)
  <2> TAKE u, k
  <2>1. CASE u = User
    BY <1>1, <1>2, <2>1 DEF Is
  <2>2. CASE u # User
    BY <1>3, <2>2 DEF Is
  <2> QED BY <2>1, <2>2
<1>5. \A u, k : Is(w, u, k) /\ k \in Kinds => u # User /\ v.tasks[u] = w.tasks[u]
  BY <1>1, <1>3 DEF Is, Kinds
<1>6. \A c, m : Asker(w, c, m) => Asker(v, c, m) /\ c # User
  <2> TAKE c, m
  <2>1. ASSUME Asker(w, c, m) PROVE Is(w, c, "conductor") /\ w.tasks[c].at \in Asking /\ w.tasks[c].number = m
    BY <2>1 DEF Asker
  <2> QED BY <1>4, <1>5, <2>1 DEF Asker, Kinds
<1>7. \A m : NoSlot(w, m) <=> NoSlot(v, m)
  BY DEF NoSlot
<1>8. WType(v)
  <2>1. IsTask(User, v.tasks[User])
    BY <1>2 DEF IsTask
  <2> QED BY <1>3, <2>1 DEF WInv, WType
<1>9. SlotsInv(v)
  <2>1. Taken(v) = Taken(w)
    BY DEF Taken
  <2> QED BY <2>1 DEF WInv, SlotsInv
<1>10. OneAdds(v) /\ OneCreator(v)
  BY <1>4, <1>5 DEF WInv, OneAdds, OneCreator, Kinds
<1>11. \A y, m : HasTrain(w, y, m) => HasTrain(v, y, m)
  BY <1>4, <1>5 DEF HasTrain, Kinds
<1>12. SlotsHold(v)
  <2> SUFFICES ASSUME NEW j \in Places, w.disp.slots[j].number # 0
      PROVE  /\ w.disp.slots[j].train = NOTASK <=> w.disp.slots[j].number = w.disp.waiting
             /\ \/ HasTrain(v, w.disp.slots[j].train, w.disp.slots[j].number)
                \/ /\ Is(v, v.disp.slots[j].conductor, "conductor")
                   /\ v.tasks[v.disp.slots[j].conductor].at \in Gone
    BY DEF SlotsHold
  <2>1. Is(w, w.disp.slots[j].conductor, "conductor") => v.disp.slots[j].conductor = w.disp.slots[j].conductor
    BY <1>5 DEF Kinds
  <2> QED BY <1>4, <1>5, <1>11, <2>1 DEF WInv, SlotsHold, Kinds
<1>13. TrainsGone(v)
  <2> SUFFICES ASSUME NEW c, Is(w, c, "conductor"), w.tasks[c].at \in Gone
      PROVE  \/ \A j \in Places : v.disp.slots[j].conductor = c => ~Is(v, v.disp.slots[j].train, "train")
             \/ \E u : Is(v, u, "creator") /\ v.tasks[u].at = "created" /\ v.tasks[u].callee = c
    BY <1>4, <1>5 DEF TrainsGone, Kinds
  <2>1. c # NOTASK
    BY NobodyThere DEF WInv, Is
  <2> QED BY <1>4, <1>5, <2>1 DEF WInv, TrainsGone, Kinds
<1>14. TrainsHeld(v)
  <2> SUFFICES ASSUME NEW y, Is(w, y, "train")
      PROVE  \/ \E j \in Places : v.disp.slots[j].number = w.tasks[y].number /\ v.disp.slots[j].train = y
             \/ \E u : /\ Is(v, u, "creator") /\ v.tasks[u].at = "creating" /\ v.tasks[u].train = y
                       /\ v.tasks[u].number = w.tasks[y].number
    BY <1>4, <1>5 DEF TrainsHeld, Kinds
  <2> QED BY <1>4, <1>5 DEF WInv, TrainsHeld, Kinds
<1>15. CreatorsHold(v)
  <2> SUFFICES ASSUME NEW u, Is(w, u, "creator")
      PROVE  /\ w.tasks[u].at = "creating" => HasTrain(v, w.tasks[u].train, w.tasks[u].number)
             /\ w.tasks[u].at = "created" => \E j \in Places :
                  /\ v.disp.slots[j].number = w.tasks[u].number /\ v.disp.slots[j].train = w.tasks[u].train
                  /\ v.disp.slots[j].conductor = w.tasks[u].callee
                  /\ HasTrain(v, w.tasks[u].train, w.tasks[u].number)
    BY <1>4, <1>5 DEF CreatorsHold, Kinds
  <2>1. w.tasks[u].callee # User
    BY <1>6, UserApart DEF WInv, CreatorsAsk
  <2> QED BY <1>11, <2>1 DEF WInv, CreatorsHold
<1>16. ConductorsKnown(v)
  <2> SUFFICES ASSUME NEW c, Is(w, c, "conductor")
      PROVE  \E j \in Places :
               /\ v.disp.slots[j].number = w.tasks[c].number /\ v.disp.slots[j].conductor = c
               /\ w.tasks[c].at \in AtWork => w.tasks[c].train = v.disp.slots[j].train
    BY <1>4, <1>5 DEF ConductorsKnown, Kinds
  <2>1. c # User
    BY <1>5 DEF Kinds
  <2> QED BY <2>1 DEF WInv, ConductorsKnown
<1>17. ConductorsLive(v)
  BY <1>3 DEF WInv, ConductorsLive
<1>18. QueueOnce(v)
  BY DEF WInv, QueueOnce, Queue
<1>19. QueueAsks(v)
  BY <1>4, <1>5, <1>6, <1>7 DEF WInv, QueueAsks, Queue, Kinds
<1>20. CreatorsAsk(v)
  BY <1>4, <1>5, <1>6, <1>7 DEF WInv, CreatorsAsk, Kinds
<1>21. AskersKnown(v, NOTASK)
  <2> SUFFICES ASSUME NEW c \in DOMAIN v.tasks, v.tasks[c].at \in {"adding", "readding", "requitting"}
      PROVE  \/ \E u : Is(v, u, "creator") /\ v.tasks[u].callee = c
             \/ \E j \in Queue(w) : w.disp.queue[j].callee = c
    BY DEF AskersKnown, Queue
  <2>1. c # User /\ c \in DOMAIN w.tasks /\ w.tasks[c].at \in {"adding", "readding", "requitting"} /\ c # NOTASK
    BY <1>2, <1>3, NobodyThere DEF WInv
  <2>2. \/ \E u : Is(w, u, "creator") /\ w.tasks[u].callee = c
        \/ \E j \in Queue(w) : w.disp.queue[j].callee = c
    BY <2>1 DEF WInv, AskersKnown
  <2> QED BY <1>4, <1>5, <2>2 DEF Kinds
<1>22. UserBusy(v, rest)
  BY <1>2 DEF UserBusy
<1>23. RestKnown(v, rest)
  BY <1>4, <1>5, <1>7 DEF WInv, RestKnown, Kinds
<1> QED BY <1>8, <1>9, <1>10, <1>12, <1>13, <1>14, <1>15, <1>16, <1>17, <1>18, <1>19, <1>20, <1>21, <1>22, <1>23
        DEF WInv

LEMMA RestKeeps ==
  ASSUME NEW w, NEW rest, WInv(w, NOTASK, rest), NEW n \in Numbers, ~NoSlot(w, n),
         w.tasks[User].at = "idle" \/ w.tasks[User].number # n,
         \A t : Is(w, t, "creator") /\ w.tasks[t].callee = NOTASK => w.tasks[t].number # n
  PROVE  WInv(w, NOTASK, rest \cup {n})
<1>1. UserBusy(w, rest \cup {n})
  BY DEF WInv, UserBusy
<1>2. RestKnown(w, rest \cup {n})
  BY DEF WInv, RestKnown
<1> QED BY <1>1, <1>2 DEF WInv

LEMMA RestLess ==
  ASSUME NEW w, NEW rest, NEW x, WInv(w, x, rest), NEW less \in SUBSET rest
  PROVE  WInv(w, x, less)
<1>1. UserBusy(w, less)
  BY DEF WInv, UserBusy
<1>2. RestKnown(w, less)
  BY DEF WInv, RestKnown
<1> QED BY <1>1, <1>2 DEF WInv
-----------------------------------------------------------------------------
(* No ninth train is added: there is a slot for every one in use (NUM_OF_TRAINS;
   what another does is told in the README). *)
(* The habits under which the dispatcher is right: nobody stops a train that is
   being routed, adds one that waits in the queue, or routes one that its conductor
   is adding again. *)
Careful == ~Stops /\ ~AddsAgain /\ ~RoutesLost

TrainsFit == IsFiniteSet(Numbers) /\ Cardinality(Numbers) <= MaxTrains

(* The slots that have a number are at most as many as there are numbers. *)
LEMMA SlotsCount ==
  ASSUME TrainsFit, NEW w, Shape(w), SlotsInv(w), NEW S \in SUBSET Numbers, NEW P \in SUBSET Places,
         \A i \in P : w.disp.slots[i].number \in S
  PROVE  /\ IsFiniteSet(P) /\ Cardinality(P) \in Nat
         /\ Cardinality(P) <= Cardinality(S) /\ Cardinality(S) \in Nat
<1>1. IsFiniteSet(S) /\ Cardinality(S) \in Nat
  BY FS_Subset, FS_CardinalityType DEF TrainsFit
<1> DEFINE f == [i \in P |-> w.disp.slots[i].number]
<1>2. f \in Injection(P, S)
  <2>1. f \in [P -> S]
    OBVIOUS
  <2>2. ASSUME NEW i \in P, NEW j \in P, f[i] = f[j] PROVE i = j
    <3>1. w.disp.slots[i].number \in Numbers /\ w.disp.slots[j].number = w.disp.slots[i].number
      BY <2>2
    <3> QED BY <3>1, OneSlot
  <2> QED BY <2>1, <2>2 DEF Injection, IsInjective
<1> HIDE DEF f
<1>3. IsFiniteSet(P) /\ Cardinality(P) <= Cardinality(S)
  BY <1>1, <1>2, FS_Injection
<1> QED BY <1>1, <1>3, FS_CardinalityType

LEMMA RoomForOne ==
  ASSUME TrainsFit, NEW w, Shape(w), SlotsInv(w), NEW n \in Numbers, NoSlot(w, n)
  PROVE  /\ w.disp.count \in Nat /\ w.disp.count < MaxTrains
         /\ \E i \in Places : w.disp.slots[i].number = 0
<1> DEFINE P == {i \in Places : w.disp.slots[i].number # 0}
           S == Numbers \ {n}
<1>1. IsFiniteSet(S) /\ Cardinality(S) = Cardinality(Numbers) - 1 /\ Cardinality(Numbers) \in Nat
  BY FS_RemoveElement, FS_CardinalityType DEF TrainsFit
<1>2. \A i \in P : w.disp.slots[i].number \in S
  BY SlotIs DEF NoSlot
<1>3. P \in SUBSET Places /\ S \in SUBSET Numbers
  OBVIOUS
<1> HIDE DEF S, P
<1>4. IsFiniteSet(P) /\ Cardinality(P) \in Nat /\ Cardinality(P) <= Cardinality(S)
  BY <1>2, <1>3, SlotsCount
<1>5. MaxTrains \in Nat /\ Cardinality(P) < MaxTrains
  BY <1>1, <1>4, DispatcherAssumption DEF TrainsFit
<1>6. Taken(w) \subseteq P
  BY SlotIs DEF P, Taken
<1>7. Cardinality(Taken(w)) \in Nat /\ Cardinality(Taken(w)) <= Cardinality(P)
  BY <1>4, <1>6, FS_Subset, FS_CardinalityType
<1>8. Cardinality(Places) = MaxTrains
  BY <1>5, DispatcherAssumption, FS_Interval DEF Places
<1>9. P # Places
  BY <1>4, <1>5, <1>8
<1> QED BY <1>3, <1>4, <1>5, <1>7, <1>9 DEF SlotsInv, P

(* Losing the train of a slot makes room for it. *)
LEMMA LostOne ==
  ASSUME NEW w, Shape(w), SlotsInv(w), NEW i \in Places, w.disp.slots[i].train # NOTASK,
         NEW v, \A j \in Places : v.disp.slots[j].train = IF j = i THEN NOTASK ELSE w.disp.slots[j].train
  PROVE  /\ w.disp.count - 1 \in Nat /\ w.disp.count - 1 < MaxTrains
         /\ w.disp.count - 1 = Cardinality(Taken(v))
<1>1. IsFiniteSet(Places) /\ Cardinality(Places) = MaxTrains /\ MaxTrains \in Nat
  BY DispatcherAssumption, FS_Interval DEF Places
<1>2. IsFiniteSet(Taken(w)) /\ Cardinality(Taken(w)) <= MaxTrains /\ Cardinality(Taken(w)) \in Nat
  BY <1>1, FS_Subset, FS_CardinalityType DEF Taken
<1>3. Taken(v) = Taken(w) \ {i} /\ i \in Taken(w)
  BY DEF Taken
<1>4. IsFiniteSet(Taken(v)) /\ Cardinality(Taken(v)) = Cardinality(Taken(w)) - 1
  BY <1>2, <1>3, FS_RemoveElement
<1>5. Cardinality(Taken(v)) \in Nat
  BY <1>4, FS_CardinalityType
<1> QED BY <1>1, <1>2, <1>4, <1>5 DEF SlotsInv

(* Where a train that is created goes. *)
LEMMA FreeSlot ==
  ASSUME TrainsFit, NEW w, NEW rest, WInv(w, NOTASK, rest), NEW t, Is(w, t, "creator"), w.tasks[t].at = "creating"
  PROVE  LET free == {i \in 1 .. MaxTrains : w.disp.slots[i].train = NOTASK} IN
         /\ free # {} /\ Min(free) \in Places /\ w.disp.slots[Min(free)].train = NOTASK
         /\ \/ w.disp.slots[Min(free)].number = w.tasks[t].number
            \/ /\ NoSlot(w, w.tasks[t].number) /\ w.disp.slots[Min(free)].number = 0
               /\ \A j \in Places : j < Min(free) => w.disp.slots[j].number # 0
<1> DEFINE free == {i \in 1 .. MaxTrains : w.disp.slots[i].train = NOTASK}
           n == w.tasks[t].number
<1>1. n \in Numbers /\ n = w.disp.waiting /\ Shape(w) /\ SlotsInv(w)
  BY KindIs DEF WInv, WType, Kinds, OneAdds, Adding
<1>2. \A j \in Places : w.disp.slots[j].number = n => j \in free
  BY <1>1, UserApart DEF WInv, SlotsHold, Places
<1>3. \A j \in Places : w.disp.slots[j].number = 0 => j \in free
  BY <1>1, SlotIs DEF Places
<1>4. free # {}
  BY <1>1, <1>2, <1>3, RoomForOne DEF NoSlot
<1>5. free \subseteq Places /\ free \in SUBSET Nat
  BY DEF Places
<1>6. Min(free) \in free /\ \A j \in free : Min(free) <= j
  BY <1>4, <1>5, MinIs
<1> DEFINE i == Min(free)
<1>7. i \in Places /\ w.disp.slots[i].train = NOTASK
  BY <1>6 DEF Places
<1>8. \A j \in Places : j < i => j \notin free
  BY <1>6 DEF Places
<1> HIDE DEF i
<1>9. CASE w.disp.slots[i].number # n
  <2>1. w.disp.slots[i].number = 0
    BY <1>1, <1>7, <1>9 DEF WInv, SlotsHold
  <2>2. NoSlot(w, n)
    <3> SUFFICES ASSUME NEW j \in Places, w.disp.slots[j].number = n PROVE FALSE
      BY DEF NoSlot
    <3>1. j \in free /\ j # i /\ n # 0
      BY <1>1, <1>2, <1>9, UserApart
    <3>2. i < j
      BY <1>7, <1>8, <3>1 DEF Places
    <3> QED BY <1>1, <1>7, <2>1, <3>1, <3>2 DEF SlotsInv
  <2>3. \A j \in Places : j < i => w.disp.slots[j].number # 0
    BY <1>3, <1>8
  <2> QED BY <1>4, <1>7, <2>1, <2>2, <2>3 DEF i
<1> QED BY <1>4, <1>7, <1>9 DEF i
-----------------------------------------------------------------------------
(* A new task has a tid that is not mentioned. *)
LEMMA FreshIs ==
  ASSUME NEW w, NEW k \in Kinds, NEW n \in Numbers, NEW a, NEW b,
         Pool[<<k, n>>] \cap Mentioned(w) \subseteq {a, b}
  PROVE  Fresh(w, k, n) \in Pool[<<k, n>>] \ Mentioned(w)
<1> DEFINE P == Pool[<<k, n>>]
           c == IF a \in P THEN a ELSE NOTASK
           d == IF b \in P THEN b ELSE NOTASK
<1>1. P \subseteq Tids /\ P \in SUBSET Nat
  BY PoolIs
<1>2. P \ {c, d} # {}
  <2>1. c \in Tids \cup {NOTASK} /\ d \in Tids \cup {NOTASK}
    BY <1>1
  <2> HIDE DEF c, d
  <2>2. <<k, n>> \in Kinds \X Numbers
    OBVIOUS
  <2> QED BY <2>1, <2>2, DispatcherAssumption
<1>3. P \ {c, d} \subseteq P \ Mentioned(w)
  BY DEF c, d
<1>4. P \ Mentioned(w) # {} /\ P \ Mentioned(w) \in SUBSET Nat
  BY <1>1, <1>2, <1>3
<1> QED BY <1>4, MinIs DEF Fresh

(* Who is mentioned. *)
LEMMA MentionedIs ==
  ASSUME NEW w, NEW t, t \in Mentioned(w)
  PROVE  \/ t \in DOMAIN w.tasks
         \/ t \in ToSet(anyone)
         \/ \E i \in Places : t = w.disp.slots[i].train \/ t = w.disp.slots[i].conductor
         \/ \E i \in Queue(w) : t = w.disp.queue[i].callee
         \/ \E u : Is(w, u, "creator") /\ t = w.tasks[u].callee
<1>1. CASE t \in UNION {{w.disp.slots[i].train, w.disp.slots[i].conductor} : i \in 1 .. MaxTrains}
  BY <1>1 DEF Places
<1>2. CASE t \in {w.disp.queue[i].callee : i \in DOMAIN w.disp.queue}
  BY <1>2 DEF Queue
<1>3. CASE t \in {w.tasks[u].callee : u \in {x \in DOMAIN w.tasks : w.tasks[x].kind = "creator"}}
  <2>1. PICK u \in {x \in DOMAIN w.tasks : w.tasks[x].kind = "creator"} : t = w.tasks[u].callee
    BY <1>3
  <2> QED BY <2>1 DEF Is
<1> QED BY <1>1, <1>2, <1>3 DEF Mentioned

(* Only couriers wait for any sensor. *)
Listeners == \A t \in ToSet(anyone) : \E n \in Numbers : t \in Pool[<<"creator", n>>]

LEMMA MentionedConductor ==
  ASSUME NEW w, NEW x, NEW rest, WInv(w, x, rest), Listeners, NEW n \in Numbers,
         NEW t \in Pool[<<"conductor", n>>], t \in Mentioned(w)
  PROVE  \E i \in Places : w.disp.slots[i].number = n /\ w.disp.slots[i].conductor = t
<1>1. t # User /\ t # NOTASK /\ t # 0
  BY PoolIs DEF Kinds
<1>2. Shape(w)
  BY DEF WInv, WType
<1>3. ASSUME t \in DOMAIN w.tasks
      PROVE  \E i \in Places : w.disp.slots[i].number = n /\ w.disp.slots[i].conductor = t
  <2>1. w.tasks[t].kind \in Kinds
    BY <1>1, <1>3, TasksAre DEF WInv, Kinds
  <2>2. w.tasks[t].number \in Numbers /\ t \in Pool[<<w.tasks[t].kind, w.tasks[t].number>>]
    BY <1>3, <2>1, KindIs DEF WInv, Is
  <2>3. w.tasks[t].kind = "conductor" /\ w.tasks[t].number = n
    BY <2>1, <2>2, PoolsApart DEF Kinds
  <2> QED BY <1>3, <2>3 DEF WInv, ConductorsKnown, Is
<1>4. t \notin ToSet(anyone)
  BY PoolsApart DEF Listeners, Kinds
<1>5. ASSUME NEW i \in Places PROVE t # w.disp.slots[i].train
  <2>1. w.disp.slots[i].number # 0 =>
           /\ w.disp.slots[i].number \in Numbers
           /\ w.disp.slots[i].train \in Pool[<<"train", w.disp.slots[i].number>>] \cup {NOTASK}
    BY <1>2, SlotIs
  <2>2. w.disp.slots[i].number = 0 => w.disp.slots[i].train = NOTASK
    BY <1>2, SlotIs
  <2> QED BY <1>1, <2>1, <2>2, PoolsApart DEF Kinds
<1>6. ASSUME NEW i \in Places, t = w.disp.slots[i].conductor PROVE w.disp.slots[i].number = n
  <2>1. w.disp.slots[i].number # 0 =>
           /\ w.disp.slots[i].number \in Numbers
           /\ w.disp.slots[i].conductor \in Pool[<<"conductor", w.disp.slots[i].number>>] \cup {User, NOTASK}
    BY <1>2, SlotIs
  <2>2. w.disp.slots[i].number = 0 => w.disp.slots[i].conductor = 0
    BY <1>2, SlotIs
  <2> QED BY <1>1, <1>6, <2>1, <2>2, PoolsApart DEF Kinds
<1>7. ASSUME NEW m, Asker(w, t, m) PROVE t \in DOMAIN w.tasks
  BY <1>7 DEF Asker, Is, WInv, WType
<1>8. ASSUME NEW i \in Queue(w), t = w.disp.queue[i].callee PROVE t \in DOMAIN w.tasks
  BY <1>1, <1>7, <1>8 DEF WInv, QueueAsks
<1>9. ASSUME NEW u, Is(w, u, "creator"), t = w.tasks[u].callee PROVE t \in DOMAIN w.tasks
  BY <1>1, <1>7, <1>9 DEF WInv, CreatorsAsk
<1> QED BY <1>3, <1>4, <1>5, <1>6, <1>8, <1>9, MentionedIs

LEMMA MentionedTrain ==
  ASSUME NEW w, NEW x, NEW rest, WInv(w, x, rest), Listeners, NEW n \in Numbers,
         NEW t \in Pool[<<"train", n>>], t \in Mentioned(w)
  PROVE  HasTrain(w, t, n) \/ \E i \in Places : w.disp.slots[i].number = n /\ w.disp.slots[i].train = t
<1>1. t # User /\ t # NOTASK /\ t # 0
  BY PoolIs DEF Kinds
<1>2. Shape(w)
  BY DEF WInv, WType
<1>3. ASSUME t \in DOMAIN w.tasks PROVE HasTrain(w, t, n)
  <2>1. w.tasks[t].kind \in Kinds
    BY <1>1, <1>3, TasksAre DEF WInv, Kinds
  <2>2. w.tasks[t].number \in Numbers /\ t \in Pool[<<w.tasks[t].kind, w.tasks[t].number>>]
    BY <1>3, <2>1, KindIs DEF WInv, Is
  <2>3. w.tasks[t].kind = "train" /\ w.tasks[t].number = n
    BY <2>1, <2>2, PoolsApart DEF Kinds
  <2> QED BY <1>3, <2>3 DEF HasTrain, Is
<1>4. t \notin ToSet(anyone)
  BY PoolsApart DEF Listeners, Kinds
<1>5. ASSUME NEW i \in Places, t = w.disp.slots[i].train PROVE w.disp.slots[i].number = n
  <2>1. w.disp.slots[i].number # 0 =>
           /\ w.disp.slots[i].number \in Numbers
           /\ w.disp.slots[i].train \in Pool[<<"train", w.disp.slots[i].number>>] \cup {NOTASK}
    BY <1>2, SlotIs
  <2>2. w.disp.slots[i].number = 0 => w.disp.slots[i].train = NOTASK
    BY <1>2, SlotIs
  <2> QED BY <1>1, <1>5, <2>1, <2>2, PoolsApart DEF Kinds
<1>6. ASSUME NEW i \in Places PROVE t # w.disp.slots[i].conductor
  <2>1. w.disp.slots[i].number # 0 =>
           /\ w.disp.slots[i].number \in Numbers
           /\ w.disp.slots[i].conductor \in Pool[<<"conductor", w.disp.slots[i].number>>] \cup {User, NOTASK}
    BY <1>2, SlotIs
  <2>2. w.disp.slots[i].number = 0 => w.disp.slots[i].conductor = 0
    BY <1>2, SlotIs
  <2> QED BY <1>1, <2>1, <2>2, PoolsApart DEF Kinds
<1>7. ASSUME NEW m, Asker(w, t, m) PROVE t \in DOMAIN w.tasks
  BY <1>7 DEF Asker, Is, WInv, WType
<1>8. ASSUME NEW i \in Queue(w), t = w.disp.queue[i].callee PROVE t \in DOMAIN w.tasks
  BY <1>1, <1>7, <1>8 DEF WInv, QueueAsks
<1>9. ASSUME NEW u, Is(w, u, "creator"), t = w.tasks[u].callee PROVE t \in DOMAIN w.tasks
  BY <1>1, <1>7, <1>9 DEF WInv, CreatorsAsk
<1> QED BY <1>3, <1>4, <1>5, <1>6, <1>8, <1>9, MentionedIs

LEMMA MentionedCreator ==
  ASSUME NEW w, NEW x, NEW rest, WInv(w, x, rest), NEW n \in Numbers,
         NEW t \in Pool[<<"creator", n>>], t \in Mentioned(w)
  PROVE  (Is(w, t, "creator") /\ w.tasks[t].number = n) \/ t \in ToSet(anyone)
<1>1. t # User /\ t # NOTASK /\ t # 0
  BY PoolIs DEF Kinds
<1>2. Shape(w)
  BY DEF WInv, WType
<1>3. ASSUME t \in DOMAIN w.tasks PROVE Is(w, t, "creator") /\ w.tasks[t].number = n
  <2>1. w.tasks[t].kind \in Kinds
    BY <1>1, <1>3, TasksAre DEF WInv, Kinds
  <2>2. w.tasks[t].number \in Numbers /\ t \in Pool[<<w.tasks[t].kind, w.tasks[t].number>>]
    BY <1>3, <2>1, KindIs DEF WInv, Is
  <2>3. w.tasks[t].kind = "creator" /\ w.tasks[t].number = n
    BY <2>1, <2>2, PoolsApart DEF Kinds
  <2> QED BY <1>3, <2>3 DEF Is
<1>4. ASSUME NEW i \in Places PROVE t # w.disp.slots[i].train /\ t # w.disp.slots[i].conductor
  <2>1. w.disp.slots[i].number # 0 =>
           /\ w.disp.slots[i].number \in Numbers
           /\ w.disp.slots[i].train \in Pool[<<"train", w.disp.slots[i].number>>] \cup {NOTASK}
           /\ w.disp.slots[i].conductor \in Pool[<<"conductor", w.disp.slots[i].number>>] \cup {User, NOTASK}
    BY <1>2, SlotIs
  <2>2. w.disp.slots[i].number = 0 => w.disp.slots[i].train = NOTASK /\ w.disp.slots[i].conductor = 0
    BY <1>2, SlotIs
  <2> QED BY <1>1, <2>1, <2>2, PoolsApart DEF Kinds
<1>7. ASSUME NEW m, Asker(w, t, m) PROVE t \in DOMAIN w.tasks
  BY <1>7 DEF Asker, Is, WInv, WType
<1>8. ASSUME NEW i \in Queue(w), t = w.disp.queue[i].callee PROVE t \in DOMAIN w.tasks
  BY <1>1, <1>7, <1>8 DEF WInv, QueueAsks
<1>9. ASSUME NEW u, Is(w, u, "creator"), t = w.tasks[u].callee PROVE t \in DOMAIN w.tasks
  BY <1>1, <1>7, <1>9 DEF WInv, CreatorsAsk
<1> QED BY <1>3, <1>4, <1>8, <1>9, MentionedIs
-----------------------------------------------------------------------------
LEMMA IsMentioned ==
  ASSUME NEW w, NEW t,
         \/ t \in DOMAIN w.tasks
         \/ t \in ToSet(anyone)
         \/ \E i \in Places : t = w.disp.slots[i].train \/ t = w.disp.slots[i].conductor
         \/ \E i \in Queue(w) : t = w.disp.queue[i].callee
         \/ \E u : Is(w, u, "creator") /\ t = w.tasks[u].callee
  PROVE  t \in Mentioned(w)
<1>1. CASE t \in DOMAIN w.tasks \/ t \in ToSet(anyone)
  BY <1>1 DEF Mentioned
<1>2. CASE \E i \in Places : t = w.disp.slots[i].train \/ t = w.disp.slots[i].conductor
  BY <1>2 DEF Mentioned, Places
<1>3. CASE \E i \in Queue(w) : t = w.disp.queue[i].callee
  BY <1>3 DEF Mentioned, Queue
<1>4. CASE \E u : Is(w, u, "creator") /\ t = w.tasks[u].callee
  BY <1>4 DEF Mentioned, Is
<1> QED BY <1>1, <1>2, <1>3, <1>4

LEMMA MentionedLess ==
  ASSUME NEW w, NEW v, v.disp.queue = w.disp.queue,
         \A i \in Places : /\ v.disp.slots[i].conductor = w.disp.slots[i].conductor
                           /\ v.disp.slots[i].train \in {w.disp.slots[i].train, NOTASK},
         \A t \in DOMAIN v.tasks : t \in DOMAIN w.tasks /\ v.tasks[t] = w.tasks[t],
         NEW t, t \in Mentioned(v)
  PROVE  t \in Mentioned(w) \cup {NOTASK}
<1>1. CASE t \in DOMAIN v.tasks \/ t \in ToSet(anyone)
  BY <1>1, IsMentioned
<1>2. CASE \E i \in Places : t = v.disp.slots[i].train \/ t = v.disp.slots[i].conductor
  BY <1>2, IsMentioned
<1>3. CASE \E i \in Queue(v) : t = v.disp.queue[i].callee
  BY <1>3, IsMentioned DEF Queue
<1>4. CASE \E u : Is(v, u, "creator") /\ t = v.tasks[u].callee
  BY <1>4, IsMentioned DEF Is
<1> QED BY <1>1, <1>2, <1>3, <1>4, MentionedIs
-----------------------------------------------------------------------------
(* The user is adding the train. *)
UserAdds(w, n) == w.tasks[User].at = "adding" /\ w.tasks[User].number = n

(* The tids in the queue of those that wait for any sensor whose task is gone. *)
Stale(w, A, n) == {t \in A \cap Pool[<<"creator", n>>] : t \notin DOMAIN w.tasks}

(* The queue A of those that wait for any sensor, with answers a: couriers that
   listen and have no answer, and of a train at most one that is gone, whose train
   is known, or is being added by the user that destroyed the courier before. *)
Listens(w, A, a) ==
  /\ \A t \in A : \E n \in Numbers : t \in Pool[<<"creator", n>>]
  /\ \A t \in A : t \in DOMAIN w.tasks =>
       Is(w, t, "creator") /\ w.tasks[t].at = "listening" /\ a[t] = NONE
  /\ \A n \in Numbers : \A s, t \in Stale(w, A, n) : s = t
  /\ \A n \in Numbers : Stale(w, A, n) # {} => ~NoSlot(w, n) \/ UserAdds(w, n)

LEMMA ListensKept ==
  ASSUME NEW w, NEW A, NEW a, Listens(w, A, a), NEW v,
         \A t \in A : /\ t \in DOMAIN v.tasks <=> t \in DOMAIN w.tasks
                      /\ t \in DOMAIN w.tasks => v.tasks[t] = w.tasks[t],
         \A n \in Numbers : NoSlot(v, n) => NoSlot(w, n) /\ (UserAdds(w, n) => UserAdds(v, n))
  PROVE  Listens(v, A, a)
<1>1. \A n \in Numbers : Stale(v, A, n) = Stale(w, A, n)
  BY DEF Stale
<1> QED BY <1>1 DEF Listens, Is

(* Only couriers wait for any sensor. *)
LEMMA NotListening ==
  ASSUME NEW w, NEW A, NEW a, Listens(w, A, a), WType(w), NEW t, t \in A
  PROVE  /\ t # User /\ t # NOTASK
         /\ \A k \in Kinds : k # "creator" => ~Is(w, t, k)
         /\ \A n \in Numbers, k \in Kinds : k # "creator" => t \notin Pool[<<k, n>>]
<1>1. PICK n \in Numbers : t \in Pool[<<"creator", n>>]
  BY DEF Listens
<1>2. t # User /\ t # NOTASK
  BY <1>1, PoolIs DEF Kinds
<1>3. \A m \in Numbers, k \in Kinds : k # "creator" => t \notin Pool[<<k, m>>]
  BY <1>1, PoolsApart DEF Kinds
<1> QED BY <1>2, <1>3, KindIs

LEMMA FreshCreator ==
  ASSUME NEW w, NEW x, NEW rest, WInv(w, x, rest), NEW a, Listens(w, ToSet(anyone), a), NEW n \in Numbers,
         \A u : Is(w, u, "creator") => w.tasks[u].number # n,
         NEW v, v.disp.queue = w.disp.queue,
         \A i \in Places : /\ v.disp.slots[i].conductor = w.disp.slots[i].conductor
                           /\ v.disp.slots[i].train \in {w.disp.slots[i].train, NOTASK},
         SameBut(w, v, {})
  PROVE  /\ Fresh(v, "creator", n) \in Pool[<<"creator", n>>]
         /\ Fresh(v, "creator", n) \notin ToSet(anyone) /\ Fresh(v, "creator", n) \notin DOMAIN w.tasks
<1>1. \A t \in DOMAIN v.tasks : t \in DOMAIN w.tasks /\ v.tasks[t] = w.tasks[t]
  BY DEF SameBut
<1> DEFINE S == Stale(w, ToSet(anyone), n)
<1>2. PICK s : S \subseteq {s}
  BY DEF Listens
<1>3. ASSUME NEW t \in Pool[<<"creator", n>>], t \in Mentioned(v) PROVE t \in S
  <2>1. t # NOTASK
    BY PoolIs DEF Kinds
  <2>2. t \in Mentioned(w)
    BY <1>1, <1>3, <2>1, MentionedLess
  <2>3. t \in ToSet(anyone)
    BY <2>2, MentionedCreator
  <2>4. t \notin DOMAIN w.tasks
    <3>1. SUFFICES ASSUME t \in DOMAIN w.tasks PROVE FALSE
      OBVIOUS
    <3>2. Is(w, t, "creator")
      BY <2>3, <3>1 DEF Listens
    <3>3. w.tasks[t].number \in Numbers /\ t \in Pool[<<"creator", w.tasks[t].number>>]
      BY <3>2, KindIs DEF WInv, Kinds
    <3> QED BY <3>2, <3>3, PoolsApart DEF Kinds
  <2> QED BY <2>3, <2>4 DEF Stale
<1> HIDE DEF S
<1>4. Pool[<<"creator", n>>] \cap Mentioned(v) \subseteq {s, s}
  BY <1>2, <1>3
<1>5. Fresh(v, "creator", n) \in Pool[<<"creator", n>>] \ Mentioned(v)
  BY <1>4, FreshIs DEF Kinds
<1> QED BY <1>5, IsMentioned DEF SameBut

(* A courier for a train that has no slot. *)
LEMMA StartNewKeeps ==
  ASSUME TrainsFit, NEW w, NEW callee \in {User, NOTASK}, NEW rest, WInv(w, callee, rest),
         NEW a, Listens(w, ToSet(anyone), a), w.disp.waiting = NOTASK, NEW n \in Numbers, NoSlot(w, n),
         callee = User => Asker(w, User, n),
         \A i \in Queue(w) : w.disp.queue[i].number # n,
         \A u : Is(w, u, "creator") => w.tasks[u].number # n,
         NEW sensor \in SensorIds \cup {NOTASK},
         NEW v, Shape(v), v.disp.slots = w.disp.slots, v.disp.count = w.disp.count,
         v.disp.queue = w.disp.queue, SameBut(w, v, {})
  PROVE  /\ WInv(StartCreator(v, n, sensor, callee), NOTASK, rest)
         /\ Listens(StartCreator(v, n, sensor, callee), ToSet(anyone), a)
         /\ StartCreator(v, n, sensor, callee).disp.waiting = n
<1> DEFINE t == Fresh(v, "creator", n)
           u == StartCreator(v, n, sensor, callee)
           task == [kind |-> "creator", at |-> IF sensor = NOTASK THEN "seeking" ELSE "located",
                    number |-> n, sensor |-> sensor, callee |-> callee, train |-> NOTASK]
<1>1. t \in Pool[<<"creator", n>>] /\ t \notin ToSet(anyone) /\ t \notin DOMAIN w.tasks
  BY FreshCreator
<1>2. Shape(w) /\ SlotsInv(w)
  BY DEF WInv, WType
<1>3. w.disp.count \in Nat /\ w.disp.count < MaxTrains
  BY <1>2, RoomForOne
<1>4. /\ Shape(u) /\ u.disp.slots = v.disp.slots /\ u.disp.count = v.disp.count /\ u.disp.queue = v.disp.queue
      /\ u.disp.waiting = n /\ u.disp.creating = t /\ SameBut(v, u, {t}) /\ t \in DOMAIN u.tasks
      /\ u.tasks[t] = task
  BY <1>3, StartCreatorIs
<1>5. /\ task \in ACreator(n) /\ task.at \in {"seeking", "located"} /\ task.callee = callee
  BY DEF ACreator, Adding
<1> HIDE DEF t, u, task
<1>6. SameBut(w, u, {t})
  BY <1>4 DEF SameBut
<1>7. Taken(u) = Taken(w)
  BY <1>4 DEF Taken
<1>8. WInv(u, NOTASK, rest)
  <2>1. \A i \in Places : w.disp.slots[i].number # n
    BY DEF NoSlot
  <2>2. u.disp.count = Cardinality(Taken(u)) /\ u.disp.count \in Nat
    BY <1>2, <1>3, <1>4, <1>7 DEF SlotsInv
  <2>3. /\ u.disp.slots = w.disp.slots /\ u.disp.queue = w.disp.queue /\ u.disp.waiting = n /\ u.disp.creating = t
        /\ Shape(u) /\ t \in DOMAIN u.tasks /\ u.tasks[t] \in ACreator(n)
        /\ u.tasks[t].at \in {"seeking", "located"} /\ u.tasks[t].callee = callee
    BY <1>4, <1>5
  <2>4. callee # NOTASK => Asker(w, callee, n)
    OBVIOUS
  <2> QED BY <1>1, <1>6, <2>1, <2>2, <2>3, <2>4, StartKeeps
<1>9. Listens(u, ToSet(anyone), a)
  <2>1. \A s \in ToSet(anyone) : /\ s \in DOMAIN u.tasks <=> s \in DOMAIN w.tasks
                                 /\ s \in DOMAIN w.tasks => u.tasks[s] = w.tasks[s]
    BY <1>1, <1>6 DEF SameBut
  <2>2. u.tasks[User] = w.tasks[User]
    BY <1>1, <1>6 DEF SameBut, WInv, WType
  <2> QED BY <1>4, <2>1, <2>2, ListensKept DEF NoSlot, UserAdds
<1> QED BY <1>4, <1>8, <1>9 DEF u

(* A courier for a train that its conductor c has lost. *)
Lost(w, i) == [w EXCEPT !.disp.slots[i].train = NOTASK, !.disp.count = @ - 1]

LEMMA StartAgainKeeps ==
  ASSUME NEW w, NEW c, NEW rest, WInv(w, c, rest),
         NEW a, Listens(w, ToSet(anyone), a), w.disp.waiting = NOTASK, NEW n \in Numbers,
         c \in Pool[<<"conductor", n>>], Asker(w, c, n),
         \A i \in Queue(w) : w.disp.queue[i].number # n,
         \A u : Is(w, u, "creator") => w.tasks[u].number # n,
         NEW i \in Places, w.disp.slots[i].number = n,
         NEW v, Shape(v), v.disp = w.disp, SameBut(w, v, {})
  PROVE  /\ WInv(StartCreator(Lost(v, i), n, NOTASK, c), NOTASK, rest)
         /\ Listens(StartCreator(Lost(v, i), n, NOTASK, c), ToSet(anyone), a)
         /\ StartCreator(Lost(v, i), n, NOTASK, c).disp.waiting = n
<1> USE DEF Lost
<1> DEFINE x == [v EXCEPT !.disp.slots[i].train = NOTASK, !.disp.count = @ - 1]
           t == Fresh(x, "creator", n)
           u == StartCreator(x, n, NOTASK, c)
           task == [kind |-> "creator", at |-> "seeking",
                    number |-> n, sensor |-> NOTASK, callee |-> c, train |-> NOTASK]
<1>1. Shape(w) /\ SlotsInv(w) /\ n # 0 /\ n # NOTASK
  BY UserApart DEF WInv, WType
<1>2. w.disp.slots[i] \in ASlot(n) /\ DOMAIN w.disp.slots[i] = {"train", "number", "conductor"}
  BY <1>1, SlotIs
<1>3. /\ DOMAIN x = DOMAIN v /\ DOMAIN x.disp = DOMAIN v.disp
      /\ x.disp.count = w.disp.count - 1 /\ x.disp.queue = w.disp.queue
      /\ DOMAIN x.disp.slots = DOMAIN w.disp.slots
      /\ x.disp.slots = [w.disp.slots EXCEPT ![i] = [@ EXCEPT !.train = NOTASK]]
      /\ x.tasks = v.tasks
  <2>1. /\ DOMAIN x = DOMAIN v /\ DOMAIN x.disp = DOMAIN v.disp
        /\ x.disp.count = v.disp.count - 1 /\ x.disp.queue = v.disp.queue
        /\ DOMAIN x.disp.slots = DOMAIN v.disp.slots
        /\ x.disp.slots = [v.disp.slots EXCEPT ![i] = [@ EXCEPT !.train = NOTASK]]
        /\ x.tasks = v.tasks
    BY DEF Shape
  <2> HIDE DEF x
  <2> QED BY <2>1
<1> HIDE DEF x
<1>4. /\ x.disp.slots[i] = [w.disp.slots[i] EXCEPT !.train = NOTASK]
      /\ \A j \in Places : j # i => x.disp.slots[j] = w.disp.slots[j]
  BY <1>1, <1>3 DEF Shape
<1>5. /\ x.disp.slots[i] \in ASlot(n) /\ x.disp.slots[i].number = n /\ x.disp.slots[i].train = NOTASK
      /\ x.disp.slots[i].conductor = w.disp.slots[i].conductor
  BY <1>2, <1>4 DEF ASlot
<1>6. Shape(x)
  <2>1. x.disp.slots[i] \in AnySlot
    BY <1>5 DEF AnySlot
  <2> QED BY <1>1, <1>3, <1>4, <2>1 DEF Shape
<1>7. \A j \in Places :
        /\ x.disp.slots[j].number = w.disp.slots[j].number
        /\ x.disp.slots[j].conductor = w.disp.slots[j].conductor
        /\ x.disp.slots[j].train = IF j = i THEN NOTASK ELSE w.disp.slots[j].train
  BY <1>4, <1>5
<1>8. SameBut(w, x, {})
  BY <1>3 DEF SameBut
<1>9. w.disp.slots[i].train # NOTASK
  BY <1>1 DEF WInv, SlotsHold
<1>10. /\ w.disp.count - 1 \in Nat /\ w.disp.count - 1 < MaxTrains
       /\ w.disp.count - 1 = Cardinality(Taken(x))
  BY <1>1, <1>7, <1>9, LostOne
<1>11. t \in Pool[<<"creator", n>>] /\ t \notin ToSet(anyone) /\ t \notin DOMAIN w.tasks
  <2>1. \A j \in Places : /\ x.disp.slots[j].conductor = w.disp.slots[j].conductor
                          /\ x.disp.slots[j].train \in {w.disp.slots[j].train, NOTASK}
    BY <1>7
  <2> QED BY <1>3, <1>8, <2>1, FreshCreator
<1>12. /\ Shape(u) /\ u.disp.slots = x.disp.slots /\ u.disp.count = x.disp.count /\ u.disp.queue = x.disp.queue
       /\ u.disp.waiting = n /\ u.disp.creating = t /\ SameBut(x, u, {t}) /\ t \in DOMAIN u.tasks
       /\ u.tasks[t] = task
  BY <1>3, <1>6, <1>10, StartCreatorIs
<1>13. task \in ACreator(n) /\ task.at = "seeking" /\ task.callee = c
  BY DEF ACreator, Adding
<1> HIDE DEF t, u, task
<1>14. SameBut(w, u, {t})
  BY <1>8, <1>12 DEF SameBut
<1>15. c # User /\ c # NOTASK
  BY PoolIs DEF Kinds
<1>16. Is(w, c, "conductor") /\ w.tasks[c].at \in Gone /\ w.tasks[c].number = n
  BY <1>15 DEF Asker, Asking, Gone
<1>17. \A j \in Places : w.disp.slots[j].number = n =>
         w.disp.slots[j].conductor = c /\ ~Is(w, w.disp.slots[j].train, "train")
  <2> SUFFICES ASSUME NEW j \in Places, w.disp.slots[j].number = n
      PROVE  w.disp.slots[j].conductor = c /\ ~Is(w, w.disp.slots[j].train, "train")
    OBVIOUS
  <2>1. w.disp.slots[j].conductor = c
    BY <1>16, ConductorSlot DEF WInv
  <2>2. ~\E s : Is(w, s, "creator") /\ w.tasks[s].at = "created" /\ w.tasks[s].callee = c
    <3> SUFFICES ASSUME NEW s, Is(w, s, "creator"), w.tasks[s].callee = c PROVE FALSE
      OBVIOUS
    <3>1. Asker(w, c, w.tasks[s].number)
      BY <1>15 DEF WInv, CreatorsAsk
    <3> QED BY <1>15, <1>16, <3>1 DEF Asker
  <2> QED BY <1>16, <2>1, <2>2 DEF WInv, TrainsGone
<1>18. WInv(u, NOTASK, rest)
  <2>1. u.disp.count = Cardinality(Taken(u)) /\ u.disp.count \in Nat
    <3>1. Taken(u) = Taken(x)
      BY <1>12 DEF Taken
    <3> QED BY <1>3, <1>10, <1>12, <3>1
  <2>2. /\ u.disp.queue = w.disp.queue /\ u.disp.waiting = n /\ u.disp.creating = t
        /\ Shape(u) /\ t \in DOMAIN u.tasks /\ u.tasks[t] \in ACreator(n)
        /\ u.tasks[t].at \in {"seeking", "located"} /\ u.tasks[t].callee = c
    BY <1>3, <1>12, <1>13
  <2>3. \A j \in Places : w.disp.slots[j].number = n =>
           /\ ~Is(w, w.disp.slots[j].train, "train")
           /\ Is(w, w.disp.slots[j].conductor, "conductor")
           /\ w.tasks[w.disp.slots[j].conductor].at \in Gone
    BY <1>16, <1>17
  <2>4. \A j \in Places :
           /\ u.disp.slots[j].number = w.disp.slots[j].number
           /\ u.disp.slots[j].conductor = w.disp.slots[j].conductor
           /\ u.disp.slots[j].number # n => u.disp.slots[j].train = w.disp.slots[j].train
           /\ u.disp.slots[j].number = n => u.disp.slots[j].train = NOTASK
    <3> SUFFICES ASSUME NEW j \in Places
        PROVE  /\ x.disp.slots[j].number = w.disp.slots[j].number
               /\ x.disp.slots[j].conductor = w.disp.slots[j].conductor
               /\ x.disp.slots[j].number # n => x.disp.slots[j].train = w.disp.slots[j].train
               /\ x.disp.slots[j].number = n => x.disp.slots[j].train = NOTASK
      BY <1>12
    <3>1. w.disp.slots[j].number = n => j = i
      BY <1>1, OneSlot
    <3> QED BY <1>7, <3>1
  <2>5. (c \in {User, NOTASK} => NoSlot(w, n)) /\ (c # NOTASK => Asker(w, c, n))
    BY <1>15
  <2>6. t \in Pool[<<"creator", n>>] /\ t \notin DOMAIN w.tasks
    BY <1>11
  <2> QED BY <1>14, <2>1, <2>2, <2>3, <2>4, <2>5, <2>6, StartKeeps, SMTT(60)
<1>19. Listens(u, ToSet(anyone), a)
  <2>1. \A s \in ToSet(anyone) : /\ s \in DOMAIN u.tasks <=> s \in DOMAIN w.tasks
                                 /\ s \in DOMAIN w.tasks => u.tasks[s] = w.tasks[s]
    BY <1>11, <1>14 DEF SameBut
  <2>2. u.tasks[User] = w.tasks[User]
    BY <1>11, <1>14 DEF SameBut, WInv, WType
  <2>3. \A j \in Places : u.disp.slots[j].number = w.disp.slots[j].number
    BY <1>7, <1>12
  <2> QED BY <2>1, <2>2, <2>3, ListensKept DEF NoSlot, UserAdds
<1> QED BY <1>12, <1>18, <1>19 DEF u, x

(* A train that is lost is added again when no other is. *)
LEMMA StartsAgain ==
  ASSUME NEW w, NEW c, NEW rest, WInv(w, c, rest),
         NEW a, Listens(w, ToSet(anyone), a), w.disp.waiting = NOTASK, NEW n \in Numbers,
         c \in Pool[<<"conductor", n>>], Asker(w, c, n),
         \A i \in Queue(w) : w.disp.queue[i].number # n,
         \A u : Is(w, u, "creator") => w.tasks[u].number # n,
         NEW i \in Places, w.disp.slots[i].number = n
  PROVE  /\ WInv(ReAdd(w, i, n, c), NOTASK, rest)
         /\ Listens(ReAdd(w, i, n, c), ToSet(anyone), a)
         /\ ReAdd(w, i, n, c).disp.waiting # NOTASK
<1>1. Shape(w) /\ n # NOTASK /\ w.disp.creating = NOTASK /\ NOTASK \notin DOMAIN w.tasks
  BY NobodyThere, UserApart DEF WInv, WType, OneAdds
<1> DEFINE y == Destroy(w, NOTASK)
           v == StartCreator(Lost(y, i), n, NOTASK, c)
<1>2. ReAdd(w, i, n, c) = v
  BY <1>1 DEF ReAdd, Lost
<1>3. Shape(y) /\ y.disp = w.disp /\ SameBut(w, y, {NOTASK}) /\ NOTASK \notin DOMAIN y.tasks
  BY <1>1, DestroyIs
<1>4. SameBut(w, y, {})
  BY <1>1, <1>3 DEF SameBut
<1> HIDE DEF y
<1>5. WInv(v, NOTASK, rest) /\ Listens(v, ToSet(anyone), a) /\ v.disp.waiting = n
  BY <1>3, <1>4, StartAgainKeeps
<1> HIDE DEF v
<1> QED BY <1>1, <1>2, <1>5

(* A train that has no slot is added when no other is. *)
LEMMA StartsNew ==
  ASSUME TrainsFit, NEW w, NEW callee \in {User, NOTASK}, NEW rest, WInv(w, callee, rest),
         NEW a, Listens(w, ToSet(anyone), a), w.disp.waiting = NOTASK, NEW n \in Numbers, NoSlot(w, n),
         callee = User => Asker(w, User, n),
         \A i \in Queue(w) : w.disp.queue[i].number # n,
         \A u : Is(w, u, "creator") => w.tasks[u].number # n,
         NEW sensor \in SensorIds \cup {NOTASK}
  PROVE  /\ WInv(AddNode(w, n, sensor, callee), NOTASK, rest)
         /\ Listens(AddNode(w, n, sensor, callee), ToSet(anyone), a)
         /\ AddNode(w, n, sensor, callee).disp.waiting # NOTASK
<1>1. Shape(w) /\ n # NOTASK /\ w.disp.creating = NOTASK /\ NOTASK \notin DOMAIN w.tasks
  BY NobodyThere, UserApart DEF WInv, WType, OneAdds
<1> DEFINE y == Destroy(w, NOTASK)
           v == StartCreator(y, n, sensor, callee)
<1>2. AddNode(w, n, sensor, callee) = v
  BY <1>1 DEF AddNode
<1>3. Shape(y) /\ y.disp = w.disp /\ SameBut(w, y, {NOTASK}) /\ NOTASK \notin DOMAIN y.tasks
  BY <1>1, DestroyIs
<1>4. /\ SameBut(w, y, {})
      /\ y.disp.slots = w.disp.slots /\ y.disp.count = w.disp.count /\ y.disp.queue = w.disp.queue
  BY <1>1, <1>3 DEF SameBut
<1> HIDE DEF y
<1>5. WInv(v, NOTASK, rest) /\ Listens(v, ToSet(anyone), a) /\ v.disp.waiting = n
  BY <1>3, <1>4, StartNewKeeps
<1> HIDE DEF v
<1> QED BY <1>1, <1>2, <1>5
-----------------------------------------------------------------------------
LEMMA SameWorld ==
  ASSUME NEW w, NEW x, NEW rest, WInv(w, x, rest), NEW A, NEW a, Listens(w, A, a),
         NEW v, DOMAIN v = {"disp", "tasks"}, v.disp = w.disp, v.tasks = w.tasks
  PROVE  WInv(v, x, rest) /\ Listens(v, A, a)
<1>1. \A t, k : Is(v, t, k) <=> Is(w, t, k)
  BY DEF Is
<1>2. \A t, n : HasTrain(v, t, n) <=> HasTrain(w, t, n)
  BY <1>1 DEF HasTrain
<1>3. \A t, n : Asker(v, t, n) <=> Asker(w, t, n)
  BY <1>1 DEF Asker
<1>4. \A n : NoSlot(v, n) <=> NoSlot(w, n)
  BY DEF NoSlot
<1>5. WType(v) /\ SlotsInv(v)
  <2>1. Taken(v) = Taken(w)
    BY DEF Taken
  <2> QED BY <2>1 DEF WInv, WType, SlotsInv, Shape
<1>6. OneAdds(v) /\ OneCreator(v)
  BY <1>1 DEF WInv, OneAdds, OneCreator
<1>7. SlotsHold(v)
  BY <1>1, <1>2 DEF WInv, SlotsHold
<1>8. TrainsGone(v)
  BY <1>1 DEF WInv, TrainsGone
<1>9. TrainsHeld(v)
  BY <1>1 DEF WInv, TrainsHeld
<1>10. CreatorsHold(v)
  BY <1>1, <1>2 DEF WInv, CreatorsHold
<1>11. ConductorsKnown(v)
  BY <1>1 DEF WInv, ConductorsKnown
<1>12. ConductorsLive(v)
  BY DEF WInv, ConductorsLive
<1>13. QueueOnce(v)
  BY DEF WInv, QueueOnce, Queue
<1>14. QueueAsks(v)
  BY <1>1, <1>3, <1>4 DEF WInv, QueueAsks, Queue
<1>15. CreatorsAsk(v)
  BY <1>1, <1>3, <1>4 DEF WInv, CreatorsAsk
<1>16. AskersKnown(v, x)
  BY <1>1 DEF WInv, AskersKnown, Queue
<1>17. UserBusy(v, rest)
  BY DEF WInv, UserBusy
<1>18. RestKnown(v, rest)
  BY <1>1, <1>4 DEF WInv, RestKnown
<1>19. Listens(v, A, a)
  BY <1>4, ListensKept DEF UserAdds
<1> QED BY <1>5, <1>6, <1>7, <1>8, <1>9, <1>10, <1>11, <1>12, <1>13, <1>14, <1>15, <1>16, <1>17, <1>18, <1>19
        DEF WInv

(* The sensor server: types, conductors wait for one sensor through their courier
   only, and an answer names a sensor. *)
ServerInv ==
  /\ ServerOK
  /\ \A s \in SensorIds : waiter[s] \in {Courier, NOTASK}
  /\ \A t \in Tids : answer[t] = NONE \/ \E s \in SensorIds : answer[t] = ThatSensor(s)

(* The inductive invariant. *)
DInv ==
  /\ WInv(World, NOTASK, resting)
  /\ dispatcher.queue # <<>> => dispatcher.waiting # NOTASK
  /\ ServerInv
  /\ Listens(World, ToSet(anyone), answer)
  /\ fuel \in 0 .. Commands

LEMMA WorldIs ==
  DOMAIN World = {"disp", "tasks"} /\ World.disp = dispatcher /\ World.tasks = tasks
BY DEF World

(* What is to be shown of a step that is one of the dispatcher's world. *)
LEMMA StaysDInv ==
  ASSUME ServerInv, NEW w, WInv(w, NOTASK, resting'), w.disp.queue # <<>> => w.disp.waiting # NOTASK,
         Listens(w, ToSet(anyone), answer), Becomes(w), UNCHANGED serverVars, fuel' \in 0 .. Commands
  PROVE  DInv'
<1>1. DOMAIN World' = {"disp", "tasks"} /\ World'.disp = w.disp /\ World'.tasks = w.tasks
  BY DEF World, Becomes
<1>2. WInv(World', NOTASK, resting') /\ Listens(World', ToSet(anyone), answer)
  BY <1>1, SameWorld
<1>3. ServerInv'
  BY DEF ServerInv, ServerOK, serverVars
<1>4. Listens(World', ToSet(anyone'), answer')
  BY <1>2 DEF serverVars
<1>5. dispatcher'.queue # <<>> => dispatcher'.waiting # NOTASK
  BY DEF Becomes
<1> QED BY <1>2, <1>3, <1>4, <1>5 DEF DInv

LEMMA ListensApart ==
  ASSUME NEW w, NEW A, NEW a, Listens(w, A, a), NEW v, NEW T, SameBut(w, v, T), \A t \in T : t \notin A,
         \A i \in Places : v.disp.slots[i].number = w.disp.slots[i].number,
         v.tasks[User] = w.tasks[User]
  PROVE  Listens(v, A, a)
<1>1. \A t \in A : /\ t \in DOMAIN v.tasks <=> t \in DOMAIN w.tasks
                   /\ t \in DOMAIN w.tasks => v.tasks[t] = w.tasks[t]
  BY DEF SameBut
<1> QED BY <1>1, ListensKept DEF NoSlot, UserAdds

LEMMA TurnsIs ==
  ASSUME NEW t \in DOMAIN tasks, NEW at, Turns(t, at)
  PROVE  Becomes(SetTask(World, t, at))
BY DEF Turns, Becomes, SetTask, World
-----------------------------------------------------------------------------
(* A conductor at work has its train. *)
LEMMA ConductorAlive ==
  ASSUME NEW w, NEW x, NEW rest, WInv(w, x, rest), NEW c, Is(w, c, "conductor"), w.tasks[c].at \in AtWork
  PROVE  HasTrain(w, w.tasks[c].train, w.tasks[c].number)
<1>1. PICK i \in Places : /\ w.disp.slots[i].number = w.tasks[c].number /\ w.disp.slots[i].conductor = c
                          /\ w.tasks[c].train = w.disp.slots[i].train
  BY DEF WInv, ConductorsKnown
<1>2. w.tasks[c].number # 0
  BY KindIs, UserApart DEF WInv, Kinds
<1> QED BY <1>1, <1>2 DEF WInv, SlotsHold, AtWork, Gone

LEMMA GoesOn ==
  ASSUME DInv, NEW c, Is(World, c, "conductor"), NEW at, at \notin Asking,
         \/ tasks[c].at \in AtWork /\ at \in AtWork \cup {"arrived", "leaving"}
         \/ tasks[c].at = "arrived" /\ at = "leaving",
         NEW v, Shape(v), v.disp = dispatcher, SameBut(World, v, {c}), c \in DOMAIN v.tasks,
         v.tasks[c] = [tasks[c] EXCEPT !.at = at]
  PROVE  WInv(v, NOTASK, resting) /\ Listens(v, ToSet(anyone), answer)
<1>1. World.disp = dispatcher /\ World.tasks = tasks
  BY WorldIs
<1>2. WInv(v, NOTASK, resting)
  BY <1>1, GoesOnKeeps DEF DInv
<1>3. c \notin ToSet(anyone) /\ c # User
  BY NotListening, KindIs DEF DInv, WInv, Kinds
<1>4. v.tasks[User] = tasks[User]
  BY <1>1, <1>3 DEF SameBut, DInv, WInv, WType
<1> QED BY <1>1, <1>2, <1>3, <1>4, ListensApart DEF DInv

LEMMA TurnsOn ==
  ASSUME DInv, NEW c \in Conductors, NEW at, at \notin Asking,
         \/ tasks[c].at \in AtWork /\ at \in AtWork \cup {"arrived", "leaving"}
         \/ tasks[c].at = "arrived" /\ at = "leaving",
         Turns(c, at), UNCHANGED serverVars, UNCHANGED fuel, UNCHANGED resting
  PROVE  DInv'
<1>1. World.disp = dispatcher /\ World.tasks = tasks /\ Shape(World) /\ Is(World, c, "conductor") /\ c \in DOMAIN tasks
  BY WorldIs DEF DInv, WInv, WType, Is, Conductors, OfKind
<1> DEFINE v == SetTask(World, c, at)
<1>2. /\ Shape(v) /\ v.disp = dispatcher /\ SameBut(World, v, {c}) /\ c \in DOMAIN v.tasks
      /\ v.tasks[c] = [tasks[c] EXCEPT !.at = at]
  BY <1>1, SetTaskIs
<1>3. Becomes(v)
  BY <1>1, TurnsIs
<1> HIDE DEF v
<1>4. WInv(v, NOTASK, resting) /\ Listens(v, ToSet(anyone), answer)
  BY <1>1, <1>2, GoesOn
<1> QED BY <1>2, <1>3, <1>4, StaysDInv DEF DInv

LEMMA WorkSteps ==
  ASSUME DInv, NEW t \in Conductors, UNCHANGED serverVars, UNCHANGED fuel, UNCHANGED resting,
         \/ Plans(t) \/ TurnsTrain(t) \/ Drives(t) \/ Moves(t)
         \/ \E r \in Results : TrainAnswers(t, r)
  PROVE  DInv'
<1>1. Is(World, t, "conductor") /\ World.tasks = tasks
  BY WorldIs DEF Is, Conductors, OfKind
<1>2. tasks[t].at \in AtWork => Alive(t)
  <2>1. tasks[t].at \in AtWork => HasTrain(World, tasks[t].train, tasks[t].number)
    BY <1>1, ConductorAlive DEF DInv
  <2> QED BY <1>1, <2>1 DEF Alive, TrainTasks, OfKind, HasTrain, Is
<1>3. CASE Plans(t)
  BY <1>3, TurnsOn DEF Plans, AtWork, Asking
<1>4. CASE TurnsTrain(t)
  BY <1>4, TurnsOn DEF TurnsTrain, AtWork, Asking
<1>5. CASE Drives(t)
  <2>1. tasks[t].at \in AtWork /\ Turns(t, "driving")
    BY <1>2, <1>5 DEF Drives, AtWork
  <2> QED BY <2>1, TurnsOn DEF AtWork, Asking
<1>6. CASE Moves(t)
  <2>1. tasks[t].at \in AtWork /\ (Turns(t, "moving") \/ Turns(t, "leaving"))
    BY <1>6 DEF Moves, AtWork
  <2> QED BY <2>1, TurnsOn DEF AtWork, Asking
<1>7. CASE \E r \in Results : TrainAnswers(t, r)
  <2>1. tasks[t].at \in AtWork /\ \E at \in {"resting", "lost", "drive", "pausing", "arrived"} : Turns(t, at)
    BY <1>7 DEF TrainAnswers, AtWork, Results
  <2> QED BY <2>1, TurnsOn DEF AtWork, Asking
<1> QED BY <1>3, <1>4, <1>5, <1>6, <1>7

LEMMA WakesStep ==
  ASSUME DInv, NEW t \in Conductors, Wakes(t), UNCHANGED fuel
  PROVE  DInv'
<1>1. /\ World.disp = dispatcher /\ World.tasks = tasks /\ Shape(World) /\ Is(World, t, "conductor")
      /\ t \in DOMAIN tasks
  BY WorldIs DEF DInv, WInv, WType, Is, Conductors, OfKind
<1> DEFINE v == Reply(World, t, OK)
<1>2. /\ Shape(v) /\ v.disp = dispatcher /\ SameBut(World, v, {t}) /\ t \in DOMAIN v.tasks
      /\ v.tasks[t] = Resumed(tasks[t], OK)
  BY <1>1, ReplyIs
<1>3. Becomes(v) /\ UNCHANGED serverVars /\ UNCHANGED resting
  BY DEF Wakes
<1> HIDE DEF v
<1>4. \E at \in {"turn", "retry", "plan"} : v.tasks[t] = [tasks[t] EXCEPT !.at = at]
  BY <1>2 DEF Wakes, Resumed
<1>5. tasks[t].at \in AtWork
  BY DEF Wakes, AtWork
<1>6. WInv(v, NOTASK, resting) /\ Listens(v, ToSet(anyone), answer)
  BY <1>1, <1>2, <1>4, <1>5, GoesOn DEF AtWork, Asking
<1> QED BY <1>2, <1>3, <1>6, StaysDInv DEF DInv

LEMMA DeletesStep ==
  ASSUME DInv, NEW t \in Conductors, Deletes(t), UNCHANGED serverVars, UNCHANGED fuel, UNCHANGED resting
  PROVE  DInv'
<1>1. /\ World.disp = dispatcher /\ World.tasks = tasks /\ Shape(World) /\ Is(World, t, "conductor")
      /\ t \in DOMAIN tasks /\ WType(World)
  BY WorldIs DEF DInv, WInv, WType, Is, Conductors, OfKind
<1> DEFINE at == IF tasks[t].at = "lost" THEN "readd" ELSE "requit"
           w  == SetTask(World, t, at)
           x  == tasks[t].train
           v  == Destroy(w, x)
<1>2. HasTrain(World, x, tasks[t].number) /\ tasks[t].at \in {"lost", "quit"}
  BY <1>1, ConductorAlive DEF DInv, Deletes, AtWork
<1>3. Alive(t) /\ Is(World, x, "train")
  BY <1>1, <1>2 DEF Alive, TrainTasks, OfKind, HasTrain, Is
<1>4. Becomes(v)
  BY <1>3 DEF Deletes
<1>5. at \in {"readd", "requit"}
  OBVIOUS
<1>6. /\ Shape(w) /\ w.disp = dispatcher /\ SameBut(World, w, {t}) /\ t \in DOMAIN w.tasks
      /\ w.tasks[t] = [tasks[t] EXCEPT !.at = at]
  BY <1>1, SetTaskIs
<1> HIDE DEF w, at
<1>7. Shape(v) /\ v.disp = w.disp /\ SameBut(w, v, {x}) /\ x \notin DOMAIN v.tasks
  BY <1>6, DestroyIs
<1> HIDE DEF v
<1>8. x # t
  BY <1>1, <1>3 DEF Is
<1>9. /\ SameBut(World, v, {t, x}) /\ t \in DOMAIN v.tasks /\ v.tasks[t] = [tasks[t] EXCEPT !.at = at]
  BY <1>6, <1>7, <1>8 DEF SameBut
<1>10. WInv(v, NOTASK, resting)
  BY <1>1, <1>2, <1>3, <1>5, <1>6, <1>7, <1>9, DeletesKeeps DEF DInv
<1>11. /\ t \notin ToSet(anyone) /\ x \notin ToSet(anyone) /\ t # User /\ x # User
  BY <1>1, <1>3, NotListening, KindIs DEF DInv, Kinds
<1>12. v.tasks[User] = World.tasks[User]
  BY <1>1, <1>9, <1>11 DEF SameBut, WType
<1>13. Listens(v, ToSet(anyone), answer)
  BY <1>1, <1>6, <1>7, <1>9, <1>11, <1>12, ListensApart DEF DInv
<1> QED BY <1>4, <1>6, <1>7, <1>10, <1>13, StaysDInv DEF DInv
-----------------------------------------------------------------------------
(* A courier of a train whose conductor has it is done. *)
LEMMA CreatorDone ==
  ASSUME NEW w, NEW x, NEW rest, WInv(w, x, rest), NEW i \in Places, w.disp.slots[i].number # 0,
         ~(Is(w, w.disp.slots[i].conductor, "conductor") /\ w.tasks[w.disp.slots[i].conductor].at \in Gone),
         NEW u, Is(w, u, "creator"), w.tasks[u].number = w.disp.slots[i].number
  PROVE  w.tasks[u].at = "created"
<1>1. HasTrain(w, w.disp.slots[i].train, w.disp.slots[i].number) /\ w.disp.slots[i].train # NOTASK
  BY NobodyThere, ZenonT(20) DEF WInv, SlotsHold, HasTrain, Is
<1>2. w.disp.waiting # w.disp.slots[i].number
  BY <1>1 DEF WInv, SlotsHold
<1>3. w.tasks[u].at \notin Adding
  BY <1>2 DEF WInv, OneAdds
<1>4. w.tasks[u].at \in Adding \cup {"created"}
  <2>1. w.tasks[u].number \in Numbers /\ w.tasks[u] \in ACreator(w.tasks[u].number)
    BY TasksAre DEF WInv, Is
  <2> QED BY <2>1, CreatorIs
<1> QED BY <1>3, <1>4

LEMMA RouteKeeps ==
  ASSUME NEW w, NEW rest, WInv(w, NOTASK, rest), Listens(w, ToSet(anyone), answer), NEW n \in Numbers,
         \A i \in Places : w.disp.slots[i].number = n /\ w.disp.slots[i].conductor # NOTASK =>
           /\ Is(w, w.disp.slots[i].conductor, "conductor")
           /\ w.tasks[w.disp.slots[i].conductor].at \notin Gone,
         ~NoSlot(w, n) => \A u : Is(w, u, "creator") => w.tasks[u].number # n,
         w.tasks[User].at = "idle" \/ w.tasks[User].number # n, NEW at \in {"plan", "move"}
  PROVE  /\ WInv(Route(w, n, at), NOTASK, rest) /\ Listens(Route(w, n, at), ToSet(anyone), answer)
         /\ Route(w, n, at).disp.queue = w.disp.queue /\ Route(w, n, at).disp.waiting = w.disp.waiting
         /\ \A m \in Numbers : NoSlot(w, m) <=> NoSlot(Route(w, n, at), m)
<1>1. Shape(w) /\ WType(w)
  BY DEF WInv, WType
<1>2. CASE NodeOf(w, n) = 0
  BY <1>2 DEF Route
<1>3. CASE NodeOf(w, n) # 0
  <2>1. PICK i \in Places : i = NodeOf(w, n) /\ w.disp.slots[i].number = n /\ ~NoSlot(w, n)
    BY <1>1, <1>3, NodeIs
  <2> DEFINE d == w.disp.slots[i].conductor
             w1 == Destroy(w, d)
             t == Fresh(w1, "conductor", n)
             task == [kind |-> "conductor", at |-> at, number |-> n, train |-> w.disp.slots[i].train]
             w2 == Create(w1, t, task)
             v == [w2 EXCEPT !.disp.slots[i].conductor = t]
             u == [w1 EXCEPT !.disp.slots[i].conductor = NOTASK]
  <2>2. Shape(w1) /\ w1.disp = w.disp /\ SameBut(w, w1, {d}) /\ d \notin DOMAIN w1.tasks
    BY <1>1, DestroyIs
  <2>3. NodeOf(w1, n) = i
    BY <2>1, <2>2, ZenonT(20) DEF NodeOf
  <2>4. Shape(w2) /\ w2.disp = w1.disp /\ SameBut(w1, w2, {t}) /\ t \in DOMAIN w2.tasks /\ w2.tasks[t] = task
    BY <2>2, CreateIs
  <2>5. Route(w, n, at) = v
    <3>1. Route(w, n, at) = Conducted(w1, n, at)
      BY <1>3, <2>1 DEF Route
    <3>2. Conducted(w1, n, at) = [Create(w1, t, [kind |-> "conductor", at |-> at, number |-> n,
                                                 train |-> w1.disp.slots[i].train])
                                    EXCEPT !.disp.slots[i].conductor = t]
      BY <2>3 DEF Conducted
    <3>3. w1.disp.slots[i].train = w.disp.slots[i].train
      BY <2>2
    <3> QED BY <3>1, <3>2, <3>3, ZenonT(20)
  <2> HIDE DEF w1
  <2>6. n # 0 /\ w.disp.slots[i] \in ASlot(n) /\ w.disp.slots[i].train \in Pool[<<"train", n>>] \cup {NOTASK}
    BY <1>1, <2>1, SlotIs, UserApart
  <2>7. d # NOTASK => Is(w, d, "conductor") /\ w.tasks[d].at \notin Gone
    BY <2>1
  <2>8. d # User
    BY <1>1, <2>7, KindIs, UserApart DEF Kinds
  <2>9. /\ DOMAIN u = DOMAIN w /\ DOMAIN u.disp = DOMAIN w.disp
        /\ u.disp.slots = [w.disp.slots EXCEPT ![i] = [@ EXCEPT !.conductor = NOTASK]]
        /\ u.disp.count = w.disp.count /\ u.disp.queue = w.disp.queue
        /\ u.disp.waiting = w.disp.waiting /\ u.disp.creating = w.disp.creating
        /\ u.tasks = w1.tasks
    BY <1>1, <2>2 DEF Shape
  <2>10. /\ DOMAIN v = DOMAIN w /\ DOMAIN v.disp = DOMAIN w.disp
         /\ v.disp.slots = [w.disp.slots EXCEPT ![i] = [@ EXCEPT !.conductor = t]]
         /\ v.disp.count = w.disp.count /\ v.disp.queue = w.disp.queue
         /\ v.disp.waiting = w.disp.waiting /\ v.disp.creating = w.disp.creating
         /\ v.tasks = w2.tasks
    <3> HIDE DEF w2, t
    <3> QED BY <1>1, <2>2, <2>4 DEF Shape
  <2> HIDE DEF u, v, w2
  <2>11. \A y : Is(w, y, "creator") => w.tasks[y].number # n
    BY <2>1
  <2>12. /\ WInv(u, NOTASK, rest)
         /\ u.disp.slots[i].conductor = NOTASK /\ u.disp.slots[i].number = n
         /\ u.disp.slots[i].train = w.disp.slots[i].train
         /\ HasTrain(u, u.disp.slots[i].train, n)
         /\ \A y : Is(u, y, "creator") => u.tasks[y].number # n
         /\ u.tasks[User] = w.tasks[User]
    <3>6. /\ DOMAIN u.disp.slots = Places
          /\ u.disp.slots[i] = [w.disp.slots[i] EXCEPT !.conductor = NOTASK]
          /\ \A j \in Places : j # i => u.disp.slots[j] = w.disp.slots[j]
      BY <1>1, <2>1, <2>9 DEF Shape
    <3>7. /\ u.disp.slots[i] \in ASlot(n) /\ u.disp.slots[i].number = n
          /\ u.disp.slots[i].train = w.disp.slots[i].train /\ u.disp.slots[i].conductor = NOTASK
      BY <2>6, <3>6 DEF ASlot
    <3>8. Shape(u)
      <4>1. u.disp.slots[i] \in AnySlot
        BY <3>7 DEF AnySlot
      <4>2. u.disp.slots \in [Places -> AnySlot]
        BY <1>1, <2>1, <2>9, <3>6, <4>1 DEF Shape
      <4> QED BY <1>1, <2>9, <4>2 DEF Shape
    <3>9. \A j \in Places :
            /\ u.disp.slots[j].number = w.disp.slots[j].number
            /\ u.disp.slots[j].train = w.disp.slots[j].train
            /\ u.disp.slots[j].conductor = IF j = i THEN NOTASK ELSE w.disp.slots[j].conductor
      BY <2>1, <3>6, <3>7
    <3>1. SameBut(w, u, {d}) /\ d \notin DOMAIN u.tasks
      BY <2>2, <2>9 DEF SameBut
    <3>2. \A y : Is(w, y, "creator") => w.tasks[y].number # w.disp.slots[i].number
      BY <2>1, <2>11
    <3>3. w.disp.slots[i].number # 0
      BY <2>1, <2>6
    <3>4. /\ SameBut(w, u, {w.disp.slots[i].conductor}) /\ w.disp.slots[i].conductor \notin DOMAIN u.tasks
          /\ w.disp.slots[i].conductor # NOTASK =>
               /\ Is(w, w.disp.slots[i].conductor, "conductor")
               /\ w.tasks[w.disp.slots[i].conductor].at \notin Gone
      BY <2>7, <3>1
    <3>10. /\ u.disp.count = w.disp.count /\ u.disp.queue = w.disp.queue
           /\ u.disp.waiting = w.disp.waiting /\ u.disp.creating = w.disp.creating
      BY <2>9
    <3> HIDE DEF d
    <3>5. /\ WInv(u, NOTASK, rest)
          /\ u.disp.slots[i].conductor = NOTASK /\ u.disp.slots[i].number = w.disp.slots[i].number
          /\ u.disp.slots[i].train = w.disp.slots[i].train
          /\ HasTrain(u, u.disp.slots[i].train, u.disp.slots[i].number)
          /\ \A y : Is(u, y, "creator") => u.tasks[y].number # u.disp.slots[i].number
          /\ u.tasks[User] = w.tasks[User]
      BY <3>2, <3>3, <3>4, <3>8, <3>9, <3>10, FreeKeeps
    <3> QED BY <2>1, <3>5
  <2>13. t \in Pool[<<"conductor", n>>] /\ t \notin Mentioned(w1)
    <3>1. ASSUME NEW y \in Pool[<<"conductor", n>>], y \in Mentioned(w1) PROVE y = d
      <4>1. y # NOTASK
        BY PoolIs DEF Kinds
      <4>2. y \in Mentioned(w)
        <5>1. \A z \in DOMAIN w1.tasks : z \in DOMAIN w.tasks /\ w1.tasks[z] = w.tasks[z]
          BY <2>2 DEF SameBut
        <5> QED BY <2>2, <3>1, <4>1, <5>1, MentionedLess
      <4>3. PICK j \in Places : w.disp.slots[j].number = n /\ w.disp.slots[j].conductor = y
        BY <4>2, MentionedConductor DEF Listens, Listeners
      <4> QED BY <2>1, <4>3, OneSlot DEF WInv
    <3>2. Pool[<<"conductor", n>>] \cap Mentioned(w1) \subseteq {d, d}
      BY <3>1
    <3> QED BY <3>2, FreshIs DEF Kinds
  <2>14. t \notin DOMAIN u.tasks /\ t \notin ToSet(anyone) /\ t # d
    <3>1. d \in Mentioned(w1)
      BY <2>1, <2>2, IsMentioned
    <3> QED BY <2>9, <2>13, <3>1, IsMentioned
  <2>15. task \in AConductor(n) /\ task.at \in {"plan", "move"} /\ task.train = u.disp.slots[i].train
    BY <2>6, <2>12 DEF AConductor, ConductorAt, AtWork
  <2> HIDE DEF task, t, d
  <2>16. SameBut(u, v, {t}) /\ t \in DOMAIN v.tasks /\ v.tasks[t] = task
    BY <2>4, <2>9, <2>10 DEF SameBut
  <2>17. v.disp.slots = [u.disp.slots EXCEPT ![i] = [@ EXCEPT !.conductor = t]]
    <3>1. w.disp.slots[i] = [train |-> w.disp.slots[i].train, number |-> n, conductor |-> d] /\ i \in DOMAIN w.disp.slots
      BY <1>1, <2>1, <2>6 DEF ASlot, d, Shape
    <3>2. u.disp.slots = [w.disp.slots EXCEPT ![i] = [train |-> w.disp.slots[i].train, number |-> n, conductor |-> NOTASK]]
      BY <2>9, <3>1
    <3>3. v.disp.slots = [w.disp.slots EXCEPT ![i] = [train |-> w.disp.slots[i].train, number |-> n, conductor |-> t]]
      BY <2>10, <3>1
    <3> QED BY <3>1, <3>2, <3>3
  <2>18. WInv(v, NOTASK, rest)
    <3>1. /\ DOMAIN v = DOMAIN u /\ DOMAIN v.disp = DOMAIN u.disp
          /\ v.disp.count = u.disp.count /\ v.disp.queue = u.disp.queue
          /\ v.disp.waiting = u.disp.waiting /\ v.disp.creating = u.disp.creating
      BY <2>9, <2>10
    <3>2. v.tasks[t] \in AConductor(n) /\ v.tasks[t].at \in {"plan", "move"} /\ v.tasks[t].train = u.disp.slots[i].train
      BY <2>15, <2>16
    <3>3. u.tasks[User].at = "idle" \/ u.tasks[User].number # n
      BY <2>12
    <3> QED BY <2>1, <2>12, <2>13, <2>14, <2>16, <2>17, <3>1, <3>2, <3>3, ConductKeeps
  <2>19. \A j \in Places : v.disp.slots[j].number = w.disp.slots[j].number
    BY <1>1, <2>1, <2>6, <2>10 DEF Shape, ASlot
  <2>20. Listens(v, ToSet(anyone), answer)
    <3>1. SameBut(w, v, {t, d})
      BY <2>2, <2>9, <2>16 DEF SameBut
    <3>2. d \notin ToSet(anyone)
      BY <1>1, <2>7, NotListening DEF Kinds
    <3>3. v.tasks[User] = w.tasks[User]
      <4>1. t # User /\ User \in DOMAIN w.tasks
        BY <1>1, <2>13, PoolIs DEF WType, Kinds
      <4> QED BY <2>8, <3>1, <4>1 DEF SameBut
    <3> QED BY <2>14, <2>19, <3>1, <3>2, <3>3, ListensApart
  <2>21. \A m \in Numbers : NoSlot(w, m) <=> NoSlot(v, m)
    BY <2>19 DEF NoSlot
  <2> QED BY <2>5, <2>10, <2>18, <2>20, <2>21
<1> QED BY <1>2, <1>3
-----------------------------------------------------------------------------
(* What is known of a conductor of the world. *)
LEMMA ConductorFacts ==
  ASSUME DInv, NEW c \in Conductors
  PROVE  /\ World.disp = dispatcher /\ World.tasks = tasks /\ Shape(World) /\ WType(World)
         /\ SlotsInv(World) /\ Is(World, c, "conductor") /\ c \in DOMAIN tasks
         /\ tasks[c].number \in Numbers /\ c # User /\ c # NOTASK
         /\ tasks[c] \in AConductor(tasks[c].number) /\ c \in Pool[<<"conductor", tasks[c].number>>]
         /\ \E i \in Places :
              /\ i = NodeOf(World, tasks[c].number)
              /\ dispatcher.slots[i].number = tasks[c].number /\ dispatcher.slots[i].conductor = c
              /\ \A j \in Places : dispatcher.slots[j].number = tasks[c].number \/ dispatcher.slots[j].conductor = c
                                   => j = i
<1>1. /\ World.disp = dispatcher /\ World.tasks = tasks /\ Shape(World) /\ Is(World, c, "conductor")
      /\ c \in DOMAIN tasks /\ WType(World) /\ SlotsInv(World) /\ ConductorsKnown(World) /\ ConductorsLive(World)
  BY WorldIs DEF DInv, WInv, WType, Is, Conductors, OfKind
<1>2. tasks[c].number \in Numbers /\ c # User /\ c # NOTASK
  BY <1>1, KindIs DEF Kinds
<1>3. tasks[c] \in AConductor(tasks[c].number) /\ c \in Pool[<<"conductor", tasks[c].number>>]
  BY <1>1, TasksAre DEF Is
<1>4. PICK i \in Places :
              /\ dispatcher.slots[i].number = tasks[c].number /\ dispatcher.slots[i].conductor = c
              /\ \A j \in Places : dispatcher.slots[j].number = tasks[c].number \/ dispatcher.slots[j].conductor = c
                                   => j = i
  BY <1>1, ConductorSlot
<1>5. ~NoSlot(World, tasks[c].number)
  BY <1>1, <1>4 DEF NoSlot
<1>6. /\ NodeOf(World, tasks[c].number) \in Places
      /\ dispatcher.slots[NodeOf(World, tasks[c].number)].number = tasks[c].number
  BY <1>1, <1>2, <1>5, NodeIs
<1>7. i = NodeOf(World, tasks[c].number)
  BY <1>4, <1>6
<1> QED BY <1>1, <1>2, <1>3, <1>4, <1>7

(* No courier of a train has work to do while a task below its priority runs. *)
LEMMA NoneIsDone ==
  ASSUME DInv, NEW p \in Int, p < 9, Runs(p), NEW u, Is(World, u, "creator")
  PROVE  tasks[u].at \in {"seeking", "listening"}
<1>1. u \in DOMAIN tasks /\ tasks[u].kind = "creator"
  BY WorldIs DEF Is
<1>2. tasks[u].at \notin {"located", "creating", "created", "failed"}
  BY <1>1 DEF Runs, Ready, Priority
<1>3. tasks[u].at \in Adding \cup {"created"}
  <2>1. tasks[u].number \in Numbers /\ tasks[u] \in ACreator(tasks[u].number)
    BY <1>1, TasksAre, WorldIs DEF DInv, WInv
  <2> QED BY <2>1, CreatorIs
<1> QED BY <1>2, <1>3 DEF Adding

LEMMA AsksForTrainStep ==
  ASSUME TrainsFit, DInv, NEW c \in Conductors, AsksForTrain(c), UNCHANGED serverVars, UNCHANGED fuel,
         UNCHANGED resting
  PROVE  DInv'
<1> DEFINE n == tasks[c].number
           at == IF tasks[c].at = "readd" THEN "readding" ELSE "requitting"
           w == SetTask(World, c, at)
<1>1. /\ World.disp = dispatcher /\ World.tasks = tasks /\ Shape(World) /\ WType(World)
      /\ SlotsInv(World) /\ Is(World, c, "conductor") /\ c \in DOMAIN tasks
      /\ n \in Numbers /\ c # User /\ c # NOTASK
      /\ tasks[c] \in AConductor(n) /\ c \in Pool[<<"conductor", n>>]
  BY ConductorFacts
<1>2. PICK i \in Places :
              /\ i = NodeOf(World, n)
              /\ dispatcher.slots[i].number = n /\ dispatcher.slots[i].conductor = c
              /\ \A j \in Places : dispatcher.slots[j].number = n \/ dispatcher.slots[j].conductor = c => j = i
  BY ConductorFacts
<1>3. tasks[c].at \in {"readd", "requit"} /\ at \in Asking
  BY DEF AsksForTrain, Asking
<1>4. /\ Shape(w) /\ w.disp = dispatcher /\ SameBut(World, w, {c}) /\ c \in DOMAIN w.tasks
      /\ w.tasks[c] = [tasks[c] EXCEPT !.at = at]
  BY <1>1, SetTaskIs
<1>5. NodeOf(w, n) = i
  BY <1>1, <1>2, <1>4 DEF NodeOf
<1>6. Becomes(ReAdd(w, i, n, c))
  <2>1. i # 0
    BY DispatcherAssumption DEF Places
  <2> HIDE DEF w
  <2> QED BY <1>5, <2>1 DEF AsksForTrain, w
<1> HIDE DEF w, at, n
<1>7. WInv(w, c, resting)
  BY <1>1, <1>3, <1>4, GoesOnKeeps DEF DInv
<1>8. Listens(w, ToSet(anyone), answer)
  <2>1. c \notin ToSet(anyone)
    BY <1>1, NotListening DEF DInv, Kinds
  <2>2. w.tasks[User] = World.tasks[User]
    BY <1>1, <1>4 DEF SameBut, WType
  <2> QED BY <1>1, <1>4, <2>1, <2>2, ListensApart DEF DInv
<1>9. Asker(w, c, n)
  <2>1. w.tasks[c].at = at /\ w.tasks[c].number = n /\ w.tasks[c].kind = "conductor"
    BY <1>1, <1>3, <1>4, ConductorGoes DEF ConductorAt, Gone, Asking, n
  <2> QED BY <1>3, <1>4, <2>1 DEF Asker, Is
<1>10. \A d : ~(Asker(World, d, n) /\ d # User)
  <2> SUFFICES ASSUME NEW d, Asker(World, d, n), d # User PROVE FALSE
    OBVIOUS
  <2>1. Is(World, d, "conductor") /\ tasks[d].at \in Asking /\ tasks[d].number = n
    BY <1>1 DEF Asker
  <2>2. d = c
    BY <1>1, <2>1, OneConductor DEF DInv, WInv, n
  <2> QED BY <1>3, <2>1, <2>2 DEF Asking
<1>11. ~NoSlot(World, n)
  BY <1>1, <1>2 DEF NoSlot
<1>12. \A u : Is(World, u, "creator") => tasks[u].number # n
  <2> SUFFICES ASSUME NEW u, Is(World, u, "creator"), tasks[u].number = n PROVE FALSE
    OBVIOUS
  <2>1. tasks[u].at \in Adding \cup {"created"} /\ tasks[u].callee \in Pool[<<"conductor", n>>] \cup {User, NOTASK}
    <3>1. tasks[u] \in ACreator(n)
      BY <1>1, TasksAre DEF Is
    <3> QED BY <1>1, <3>1, CreatorIs
  <2>2. CASE tasks[u].at \in Adding
    <3>1. tasks[u].callee \notin {User, NOTASK}
      BY <1>1, <1>11, <2>2 DEF DInv, WInv, CreatorsAsk
    <3>2. Asker(World, tasks[u].callee, n)
      BY <1>1, <3>1 DEF DInv, WInv, CreatorsAsk
    <3> QED BY <1>10, <3>1, <3>2
  <2>3. CASE tasks[u].at = "created"
    <3>1. tasks[u].callee = c
      BY <1>1, <1>2, <2>3 DEF DInv, WInv, CreatorsHold
    <3>2. Asker(World, c, n)
      BY <1>1, <3>1 DEF DInv, WInv, CreatorsAsk
    <3> QED BY <1>1, <1>10, <3>2
  <2> QED BY <2>1, <2>2, <2>3
<1>13. \A j \in Queue(World) : dispatcher.queue[j].number # n
  <2> SUFFICES ASSUME NEW j \in Queue(World), dispatcher.queue[j].number = n PROVE FALSE
    OBVIOUS
  <2>1. dispatcher.queue[j].callee \in Pool[<<"conductor", n>>] \cup {NOTASK}
    BY <1>1, EntryIs DEF WType, Queue
  <2>2. dispatcher.queue[j].callee # NOTASK /\ Asker(World, dispatcher.queue[j].callee, n)
    BY <1>1, <1>11 DEF DInv, WInv, QueueAsks
  <2>3. dispatcher.queue[j].callee # User
    BY <1>1, <2>1, PoolIs, UserApart DEF Kinds
  <2> QED BY <1>10, <2>2, <2>3
<1>14. /\ \A u : Is(w, u, "creator") => w.tasks[u].number # n
       /\ \A j \in Queue(w) : w.disp.queue[j].number # n
  <2>1. \A u : Is(w, u, "creator") => u # c
    BY <1>9, <1>1 DEF Is, Asker
  <2> QED BY <1>1, <1>4, <1>12, <1>13, <2>1 DEF SameBut, Is, Queue
<1>15. dispatcher.waiting # n
  <2>1. dispatcher.waiting = n => Is(World, dispatcher.creating, "creator") /\ tasks[dispatcher.creating].number = n
    BY <1>1, UserApart DEF DInv, WInv, OneAdds
  <2> QED BY <1>12, <2>1
<1>16. CASE dispatcher.waiting # NOTASK
  <2>1. dispatcher.slots[i].train # NOTASK
    BY <1>1, <1>2, <1>15, UserApart DEF DInv, WInv, SlotsHold
  <2> DEFINE v == [w EXCEPT !.disp.queue = Append(@, [number |-> n, callee |-> c])]
  <2>2. ReAdd(w, i, n, c) = v
    BY <1>4, <1>15, <1>16, <2>1 DEF ReAdd
  <2>3. /\ Shape(v) /\ v.tasks = w.tasks /\ v.disp.slots = w.disp.slots /\ v.disp.count = w.disp.count
        /\ v.disp.waiting = w.disp.waiting /\ v.disp.creating = w.disp.creating
        /\ v.disp.queue = Append(w.disp.queue, [number |-> n, callee |-> c])
    BY <1>4 DEF Shape
  <2> HIDE DEF v
  <2>4. WInv(v, NOTASK, resting)
    BY <1>1, <1>4, <1>7, <1>9, <1>14, <1>15, <2>3, EnqueueKeeps, ZenonT(40)
  <2>5. Listens(v, ToSet(anyone), answer)
    BY <1>8, <2>3, ListensKept DEF NoSlot, UserAdds
  <2>6. v.disp.waiting # NOTASK
    BY <1>4, <1>16, <2>3
  <2> QED BY <1>6, <2>2, <2>4, <2>5, <2>6, StaysDInv DEF DInv
<1>17. CASE dispatcher.waiting = NOTASK
  <2> DEFINE v == ReAdd(w, i, n, c)
  <2>1. w.disp.waiting = NOTASK /\ w.disp.slots[i].number = n
    BY <1>2, <1>4, <1>17
  <2>2. WInv(v, NOTASK, resting) /\ Listens(v, ToSet(anyone), answer) /\ v.disp.waiting # NOTASK
    BY <1>1, <1>7, <1>8, <1>9, <1>14, <2>1, StartsAgain
  <2>3. Becomes(v)
    BY <1>6
  <2> HIDE DEF v
  <2> QED BY <2>2, <2>3, StaysDInv DEF DInv
<1> QED BY <1>16, <1>17
-----------------------------------------------------------------------------
(* While a task below the couriers runs, a train whose conductor has it is no
   courier's any more. *)
LEMMA NoCourier ==
  ASSUME DInv, NEW p \in Int, p < 9, Runs(p), NEW i \in Places, dispatcher.slots[i].number # 0,
         ~(Is(World, dispatcher.slots[i].conductor, "conductor")
           /\ tasks[dispatcher.slots[i].conductor].at \in Gone),
         NEW u, Is(World, u, "creator")
  PROVE  tasks[u].number # dispatcher.slots[i].number
<1>1. World.disp = dispatcher /\ World.tasks = tasks
  BY WorldIs
<1>2. tasks[u].at # "created"
  BY NoneIsDone
<1> QED BY <1>1, <1>2, CreatorDone DEF DInv

LEMMA UserAway ==
  ASSUME DInv, NEW c \in Conductors
  PROVE  tasks[User].at = "idle" \/ tasks[User].number # tasks[c].number
<1>1. World.disp = dispatcher /\ World.tasks = tasks
  BY WorldIs
<1>2. PICK i \in Places : dispatcher.slots[i].number = tasks[c].number /\ dispatcher.slots[i].conductor = c
  BY ConductorFacts
<1>3. c # User /\ c # NOTASK
  BY ConductorFacts
<1> QED BY <1>1, <1>2, <1>3 DEF DInv, WInv, UserBusy

LEMMA StopRouteIs ==
  ASSUME NEW w, Shape(w), NEW n \in Numbers, NEW i \in Places, i = NodeOf(w, n), w.disp.slots[i].number = n,
         NEW d, w.disp.slots[i].conductor = d, d # NOTASK
  PROVE  /\ Shape(StopRoute(w, n))
         /\ \A j \in Places :
              /\ StopRoute(w, n).disp.slots[j].number = w.disp.slots[j].number
              /\ StopRoute(w, n).disp.slots[j].train = w.disp.slots[j].train
              /\ StopRoute(w, n).disp.slots[j].conductor = IF j = i THEN NOTASK ELSE w.disp.slots[j].conductor
         /\ StopRoute(w, n).disp.count = w.disp.count /\ StopRoute(w, n).disp.queue = w.disp.queue
         /\ StopRoute(w, n).disp.waiting = w.disp.waiting /\ StopRoute(w, n).disp.creating = w.disp.creating
         /\ SameBut(w, StopRoute(w, n), {d})
         /\ d \in DOMAIN StopRoute(w, n).tasks <=> d \in DOMAIN w.tasks
         /\ d \in DOMAIN w.tasks => StopRoute(w, n).tasks[d] = Resumed(w.tasks[d], OK)
<1> DEFINE r == Reply(w, d, OK)
           v == [r EXCEPT !.disp.slots[i].conductor = NOTASK]
<1>1. StopRoute(w, n) = v
  <2>1. i # 0
    BY DEF Places
  <2> QED BY <2>1 DEF StopRoute
<1>2. /\ Shape(r) /\ r.disp = w.disp /\ SameBut(w, r, {d})
      /\ d \in DOMAIN r.tasks <=> d \in DOMAIN w.tasks
      /\ d \in DOMAIN w.tasks => r.tasks[d] = Resumed(w.tasks[d], OK)
  <2> HIDE DEF v
  <2>1. Shape(r) /\ r.disp = w.disp /\ SameBut(w, r, {d})
    BY ReplyIs
  <2>2. d \in DOMAIN r.tasks <=> d \in DOMAIN w.tasks
    BY ReplyIs
  <2>3. d \in DOMAIN w.tasks => r.tasks[d] = Resumed(w.tasks[d], OK)
    BY DEF Reply, Shape
  <2> QED BY <2>1, <2>2, <2>3
<1>3. /\ DOMAIN v = DOMAIN r /\ DOMAIN v.disp = DOMAIN r.disp
      /\ v.disp.slots = [r.disp.slots EXCEPT ![i] = [@ EXCEPT !.conductor = NOTASK]]
      /\ v.disp.count = r.disp.count /\ v.disp.queue = r.disp.queue
      /\ v.disp.waiting = r.disp.waiting /\ v.disp.creating = r.disp.creating
      /\ v.tasks = r.tasks
  <2> HIDE DEF r
  <2> QED BY <1>2 DEF Shape
<1> HIDE DEF r, v
<1>4. n # 0 /\ w.disp.slots[i] \in ASlot(n)
  BY SlotIs, UserApart
<1>5. /\ DOMAIN v.disp.slots = Places
      /\ v.disp.slots[i] = [w.disp.slots[i] EXCEPT !.conductor = NOTASK]
      /\ \A j \in Places : j # i => v.disp.slots[j] = w.disp.slots[j]
  BY <1>2, <1>3 DEF Shape
<1>6. /\ v.disp.slots[i] \in ASlot(n) /\ v.disp.slots[i].number = n
      /\ v.disp.slots[i].train = w.disp.slots[i].train /\ v.disp.slots[i].conductor = NOTASK
  BY <1>4, <1>5 DEF ASlot
<1>7. Shape(v)
  <2>1. v.disp.slots[i] \in AnySlot
    BY <1>6 DEF AnySlot
  <2>2. v.disp.slots \in [Places -> AnySlot]
    BY <1>2, <1>3, <1>5, <2>1 DEF Shape
  <2> QED BY <1>2, <1>3, <2>2 DEF Shape
<1>8. \A j \in Places :
        /\ v.disp.slots[j].number = w.disp.slots[j].number
        /\ v.disp.slots[j].train = w.disp.slots[j].train
        /\ v.disp.slots[j].conductor = IF j = i THEN NOTASK ELSE w.disp.slots[j].conductor
  BY <1>5, <1>6
<1>9. SameBut(w, v, {d})
  BY <1>2, <1>3 DEF SameBut
<1>10. /\ v.disp.count = w.disp.count /\ v.disp.queue = w.disp.queue
       /\ v.disp.waiting = w.disp.waiting /\ v.disp.creating = w.disp.creating
       /\ d \in DOMAIN v.tasks <=> d \in DOMAIN w.tasks
       /\ d \in DOMAIN w.tasks => v.tasks[d] = Resumed(w.tasks[d], OK)
  BY <1>2, <1>3
<1> QED BY <1>1, <1>7, <1>8, <1>9, <1>10

(* A step that routes a train, with a set of trains that rest. *)
LEMMA RouteStep ==
  ASSUME DInv, NEW n \in Numbers, NEW at \in {"plan", "move"}, Becomes(Route(World, n, at)),
         resting' \subseteq resting, UNCHANGED serverVars, fuel' \in 0 .. Commands,
         \A i \in Places : dispatcher.slots[i].number = n /\ dispatcher.slots[i].conductor # NOTASK =>
           /\ Is(World, dispatcher.slots[i].conductor, "conductor")
           /\ tasks[dispatcher.slots[i].conductor].at \notin Gone,
         ~NoSlot(World, n) => \A u : Is(World, u, "creator") => tasks[u].number # n,
         tasks[User].at = "idle" \/ tasks[User].number # n
  PROVE  DInv'
<1>1. World.disp = dispatcher /\ World.tasks = tasks
  BY WorldIs
<1> DEFINE v == Route(World, n, at)
<1>2. WInv(World, NOTASK, resting')
  BY RestLess DEF DInv
<1>3. /\ WInv(v, NOTASK, resting') /\ Listens(v, ToSet(anyone), answer)
      /\ v.disp.queue = dispatcher.queue /\ v.disp.waiting = dispatcher.waiting
  BY <1>1, <1>2, RouteKeeps DEF DInv
<1> HIDE DEF v
<1>4. Becomes(v)
  BY DEF v
<1> QED BY <1>3, <1>4, StaysDInv DEF DInv

LEMMA ArrivesStep ==
  ASSUME DInv, NEW c \in Conductors, Arrives(c), Runs(7), UNCHANGED serverVars, UNCHANGED fuel
  PROVE  DInv'
<1> DEFINE n == tasks[c].number
<1>1. /\ World.disp = dispatcher /\ World.tasks = tasks /\ Shape(World) /\ WType(World)
      /\ SlotsInv(World) /\ Is(World, c, "conductor") /\ c \in DOMAIN tasks
      /\ n \in Numbers /\ c # User /\ c # NOTASK
  BY ConductorFacts
<1>2. PICK i \in Places :
              /\ dispatcher.slots[i].number = n /\ dispatcher.slots[i].conductor = c
              /\ \A j \in Places : dispatcher.slots[j].number = n \/ dispatcher.slots[j].conductor = c => j = i
  BY ConductorFacts
<1>3. tasks[c].at = "arrived" /\ tasks[c].at \notin Gone
  BY DEF Arrives, Gone
<1>4. tasks[User].at = "idle" \/ tasks[User].number # n
  BY UserAway
<1>5. \A u : Is(World, u, "creator") => tasks[u].number # n
  <2>1. dispatcher.slots[i].number # 0
    BY <1>1, <1>2, UserApart
  <2> QED BY <1>2, <1>3, <2>1, NoCourier
<1>6. ~NoSlot(World, n)
  BY <1>1, <1>2 DEF NoSlot
<1>7. CASE Turns(c, "leaving") /\ resting' = resting \cup {n}
  <2> DEFINE v == SetTask(World, c, "leaving")
  <2>1. /\ Shape(v) /\ v.disp = dispatcher /\ SameBut(World, v, {c}) /\ c \in DOMAIN v.tasks
        /\ v.tasks[c] = [tasks[c] EXCEPT !.at = "leaving"]
    BY <1>1, SetTaskIs
  <2>2. Becomes(v)
    BY <1>1, <1>7, TurnsIs
  <2> HIDE DEF v
  <2>3. WInv(v, NOTASK, resting) /\ Listens(v, ToSet(anyone), answer)
    BY <1>1, <1>3, <2>1, GoesOn DEF Asking
  <2>4. ~NoSlot(v, n)
    BY <1>1, <1>6, <2>1 DEF NoSlot
  <2>5. v.tasks[User].at = "idle" \/ v.tasks[User].number # n
    BY <1>1, <1>4, <2>1 DEF SameBut, WType
  <2>6. \A u : Is(v, u, "creator") => v.tasks[u].number # n
    <3> SUFFICES ASSUME NEW u, Is(v, u, "creator") PROVE v.tasks[u].number # n
      OBVIOUS
    <3>3. tasks[c] \in AConductor(n)
      BY ConductorFacts
    <3>1. v.tasks[c].kind = "conductor"
      BY <1>1, <2>1, <3>3, ConductorGoes DEF ConductorAt
    <3>2. u # c
      BY <3>1 DEF Is
    <3> QED BY <1>1, <1>5, <2>1, <3>2 DEF SameBut, Is
  <2> HIDE DEF n
  <2>7. WInv(v, NOTASK, resting')
    BY <1>1, <1>7, <2>3, <2>4, <2>5, <2>6, RestKeeps
  <2> QED BY <2>1, <2>2, <2>3, <2>7, StaysDInv DEF DInv
<1>8. CASE Becomes(Route(World, n, "plan")) /\ UNCHANGED resting
  BY <1>1, <1>2, <1>3, <1>4, <1>5, <1>8, RouteStep DEF DInv
<1> QED BY <1>7, <1>8 DEF Arrives

LEMMA LeavesStep ==
  ASSUME DInv, NEW c \in Conductors, Leaves(c), Runs(7), UNCHANGED serverVars, UNCHANGED fuel, UNCHANGED resting
  PROVE  DInv'
<1> DEFINE n == tasks[c].number
           w == StopRoute(World, n)
           v == Destroy(w, c)
<1>1. /\ World.disp = dispatcher /\ World.tasks = tasks /\ Shape(World) /\ WType(World)
      /\ SlotsInv(World) /\ Is(World, c, "conductor") /\ c \in DOMAIN tasks
      /\ n \in Numbers /\ c # User /\ c # NOTASK
  BY ConductorFacts
<1>2. PICK i \in Places :
              /\ i = NodeOf(World, n) /\ dispatcher.slots[i].number = n /\ dispatcher.slots[i].conductor = c
              /\ \A j \in Places : dispatcher.slots[j].number = n \/ dispatcher.slots[j].conductor = c => j = i
  BY ConductorFacts
<1>3. tasks[c].at = "leaving" /\ tasks[c].at \notin Gone
  BY DEF Leaves, Gone
<1>4. \A u : Is(World, u, "creator") => tasks[u].number # dispatcher.slots[i].number
  <2>1. dispatcher.slots[i].number # 0
    BY <1>1, <1>2, UserApart
  <2> QED BY <1>2, <1>3, <2>1, NoCourier
<1>5. Becomes(v)
  BY DEF Leaves
<1>6. /\ Shape(w)
      /\ \A j \in Places :
           /\ w.disp.slots[j].number = dispatcher.slots[j].number
           /\ w.disp.slots[j].train = dispatcher.slots[j].train
           /\ w.disp.slots[j].conductor = IF j = i THEN NOTASK ELSE dispatcher.slots[j].conductor
      /\ w.disp.count = dispatcher.count /\ w.disp.queue = dispatcher.queue
      /\ w.disp.waiting = dispatcher.waiting /\ w.disp.creating = dispatcher.creating
      /\ SameBut(World, w, {c})
  <2>1. World.disp.slots[i].number = n /\ World.disp.slots[i].conductor = c /\ i = NodeOf(World, n)
    BY <1>1, <1>2
  <2> HIDE DEF n
  <2>2. /\ Shape(w) /\ SameBut(World, w, {c})
        /\ \A j \in Places :
             /\ w.disp.slots[j].number = World.disp.slots[j].number
             /\ w.disp.slots[j].train = World.disp.slots[j].train
             /\ w.disp.slots[j].conductor = IF j = i THEN NOTASK ELSE World.disp.slots[j].conductor
        /\ w.disp.count = World.disp.count /\ w.disp.queue = World.disp.queue
        /\ w.disp.waiting = World.disp.waiting /\ w.disp.creating = World.disp.creating
    BY <1>1, <2>1, StopRouteIs
  <2> QED BY <1>1, <2>2
<1> HIDE DEF w
<1>7. Shape(v) /\ v.disp = w.disp /\ SameBut(w, v, {c}) /\ c \notin DOMAIN v.tasks
  BY <1>6, DestroyIs
<1> HIDE DEF v
<1>8. SameBut(World, v, {c})
  BY <1>6, <1>7 DEF SameBut
<1>9. WInv(v, NOTASK, resting) /\ v.tasks[User] = tasks[User]
  <2>1. World.disp.slots[i].number # 0 /\ World.disp.slots[i].conductor = c
    BY <1>1, <1>2, UserApart
  <2>2. \A j \in Places : /\ v.disp.slots[j].number = World.disp.slots[j].number
                          /\ v.disp.slots[j].train = World.disp.slots[j].train
                          /\ v.disp.slots[j].conductor = IF j = i THEN NOTASK ELSE World.disp.slots[j].conductor
    BY <1>1, <1>6, <1>7
  <2>3. /\ v.disp.count = World.disp.count /\ v.disp.queue = World.disp.queue
        /\ v.disp.waiting = World.disp.waiting /\ v.disp.creating = World.disp.creating
    BY <1>1, <1>6, <1>7
  <2>4. \A u : Is(World, u, "creator") => World.tasks[u].number # World.disp.slots[i].number
    BY <1>1, <1>4
  <2>5. /\ World.disp.slots[i].conductor # NOTASK =>
           /\ Is(World, World.disp.slots[i].conductor, "conductor")
           /\ World.tasks[World.disp.slots[i].conductor].at \notin Gone
        /\ SameBut(World, v, {World.disp.slots[i].conductor}) /\ World.disp.slots[i].conductor \notin DOMAIN v.tasks
    BY <1>1, <1>3, <1>7, <1>8, <2>1
  <2>6. WInv(World, NOTASK, resting)
    BY DEF DInv
  <2>7. Shape(v)
    BY <1>7
  <2>9. World.disp.slots[i].number # 0
    BY <2>1
  <2> HIDE DEF n
  <2>8. WInv(v, NOTASK, resting) /\ v.tasks[User] = World.tasks[User]
    BY <2>9, <2>2, <2>3, <2>4, <2>5, <2>6, <2>7, FreeKeeps
  <2> QED BY <1>1, <2>8
<1>10. Listens(v, ToSet(anyone), answer)
  <2>1. c \notin ToSet(anyone)
    BY <1>1, NotListening DEF DInv, Kinds
  <2> QED BY <1>1, <1>6, <1>7, <1>8, <1>9, <2>1, ListensApart DEF DInv
<1>11. v.disp.queue # <<>> => v.disp.waiting # NOTASK
  BY <1>6, <1>7 DEF DInv
<1> QED BY <1>5, <1>9, <1>10, <1>11, StaysDInv DEF DInv
-----------------------------------------------------------------------------
(* Who a train of a slot that is not free is routed by. *)
LEMMA RoutedBy ==
  ASSUME DInv, NEW i \in Places, dispatcher.slots[i].number # 0, dispatcher.slots[i].conductor # NOTASK
  PROVE  /\ tasks[dispatcher.slots[i].conductor].number = dispatcher.slots[i].number
         /\ \/ Is(World, dispatcher.slots[i].conductor, "conductor")
            \/ dispatcher.slots[i].conductor = User /\ tasks[User].at # "idle"
<1>1. World.disp = dispatcher /\ World.tasks = tasks /\ Shape(World)
  BY WorldIs DEF DInv, WInv, WType
<1>2. dispatcher.slots[i].conductor # 0
  <2>1. /\ dispatcher.slots[i].number \in Numbers
        /\ dispatcher.slots[i].conductor \in Pool[<<"conductor", dispatcher.slots[i].number>>] \cup {User, NOTASK}
    BY <1>1, SlotIs
  <2>2. 0 \notin Pool[<<"conductor", dispatcher.slots[i].number>>]
    BY <2>1, PoolIs DEF Kinds
  <2> QED BY <2>1, <2>2, UserApart
<1> QED BY <1>1, <1>2 DEF DInv, WInv, ConductorsLive, Is

(* A train that is routable is not being added again. *)
LEMMA RoutableIs ==
  ASSUME Careful, DInv, NEW n \in Numbers, Routable(n), NEW c, Is(World, c, "conductor"), tasks[c].number = n
  PROVE  tasks[c].at \notin Gone
<1>1. c \in Conductors
  BY WorldIs DEF Is, Conductors, OfKind
<1> QED BY <1>1 DEF Careful, Routable, Losing, Gone

LEMMA TransitRoutesStep ==
  ASSUME Careful, DInv, NEW n \in Numbers, TransitRoutes(n), UNCHANGED serverVars, UNCHANGED fuel
  PROVE  DInv'
<1>1. /\ World.disp = dispatcher /\ World.tasks = tasks /\ Shape(World) /\ WType(World) /\ SlotsInv(World)
      /\ n # 0 /\ n \in resting /\ Routable(n) /\ resting' \subseteq resting
      /\ Becomes(Route(World, n, "plan"))
  BY WorldIs, UserApart DEF DInv, WInv, WType, TransitRoutes
<1>2. tasks[User].at = "idle" \/ tasks[User].number # n
  BY <1>1 DEF DInv, WInv, UserBusy
<1>3. \A i \in Places : dispatcher.slots[i].number = n /\ dispatcher.slots[i].conductor # NOTASK =>
           /\ Is(World, dispatcher.slots[i].conductor, "conductor")
           /\ tasks[dispatcher.slots[i].conductor].at \notin Gone
  <2> TAKE i \in Places
  <2> HAVE dispatcher.slots[i].number = n /\ dispatcher.slots[i].conductor # NOTASK
  <2> QED BY <1>1, <1>2, RoutedBy, RoutableIs
<1>4. \A u : Is(World, u, "creator") => tasks[u].number # n
  <2> SUFFICES ASSUME NEW u, Is(World, u, "creator"), tasks[u].number = n PROVE FALSE
    OBVIOUS
  <2>1. PICK i \in Places : dispatcher.slots[i].number = n
    BY <1>1 DEF DInv, WInv, RestKnown, NoSlot
  <2>2. ~(Is(World, dispatcher.slots[i].conductor, "conductor")
          /\ tasks[dispatcher.slots[i].conductor].at \in Gone)
    <3>1. NOTASK \notin DOMAIN tasks
      BY <1>1, NobodyThere
    <3> QED BY <1>1, <1>3, <2>1, <3>1 DEF Is
  <2>3. tasks[u].at = "created"
    BY <1>1, <2>1, <2>2, CreatorDone DEF DInv
  <2>4. tasks[u].callee # NOTASK
    BY <1>1 DEF DInv, WInv, RestKnown
  <2>5. Asker(World, tasks[u].callee, n)
    BY <1>1, <2>4 DEF DInv, WInv, CreatorsAsk
  <2>6. ~(Is(World, tasks[u].callee, "conductor") /\ tasks[tasks[u].callee].at \in Asking
          /\ tasks[tasks[u].callee].number = n)
    BY <1>1, RoutableIs DEF Asking, Gone
  <2> QED BY <1>1, <1>2, <2>5, <2>6 DEF Asker
<1> QED BY <1>1, <1>2, <1>3, <1>4, RouteStep DEF DInv

(* What a command of the user finds. *)
LEMMA UserFinds ==
  ASSUME Careful, DInv, UserAt("idle"), NEW i \in Places, dispatcher.slots[i].number # 0,
         dispatcher.slots[i].conductor # NOTASK => Routable(dispatcher.slots[i].number)
  PROVE  /\ dispatcher.slots[i].conductor # NOTASK =>
              /\ Is(World, dispatcher.slots[i].conductor, "conductor")
              /\ tasks[dispatcher.slots[i].conductor].at \notin Gone
         /\ \A u : Is(World, u, "creator") => tasks[u].number # dispatcher.slots[i].number
<1>1. /\ World.disp = dispatcher /\ World.tasks = tasks /\ WType(World) /\ Shape(World)
      /\ tasks[User].at = "idle" /\ Runs(5)
  BY WorldIs DEF DInv, WInv, WType, UserAt
<1>2. dispatcher.slots[i].number \in Numbers
  BY <1>1, SlotIs
<1>3. dispatcher.slots[i].conductor # NOTASK =>
        /\ Is(World, dispatcher.slots[i].conductor, "conductor")
        /\ tasks[dispatcher.slots[i].conductor].at \notin Gone
  BY <1>1, <1>2, RoutedBy, RoutableIs
<1>4. NOTASK \notin DOMAIN World.tasks
  BY <1>1, NobodyThere
<1>5. ~(Is(World, dispatcher.slots[i].conductor, "conductor")
        /\ tasks[dispatcher.slots[i].conductor].at \in Gone)
  BY <1>3, <1>4 DEF Is
<1>6. \A u : Is(World, u, "creator") => tasks[u].number # dispatcher.slots[i].number
  BY <1>1, <1>5, NoCourier
<1> QED BY <1>3, <1>6

LEMMA AvailableIs ==
  ASSUME DInv, NEW n \in Numbers, Available(World, n)
  PROVE  /\ \E i \in Places : /\ dispatcher.slots[i].number = n /\ dispatcher.slots[i].conductor = NOTASK
                              /\ \A j \in Places : dispatcher.slots[j].number = n => j = i
         /\ ~NoSlot(World, n)
<1>1. World.disp = dispatcher /\ Shape(World) /\ SlotsInv(World)
  BY WorldIs DEF DInv, WInv, WType
<1>2. ~NoSlot(World, n) /\ NodeOf(World, n) \in Places /\ dispatcher.slots[NodeOf(World, n)].number = n
  BY <1>1, NodeIs DEF Available
<1>3. dispatcher.slots[NodeOf(World, n)].conductor = NOTASK
  BY <1>1 DEF Available
<1>4. \A j \in Places : dispatcher.slots[j].number = n => j = NodeOf(World, n)
  BY <1>1, <1>2, OneSlot
<1> QED BY <1>2, <1>3, <1>4

LEMMA CommandStep ==
  ASSUME Careful, DInv, NEW n \in Numbers, Command(n), UNCHANGED serverVars, UNCHANGED resting,
         fuel' \in 0 .. Commands
  PROVE  DInv'
<1>1. World.disp = dispatcher /\ n # 0 /\ UserAt("idle") /\ tasks[User].at = "idle"
  BY WorldIs, UserApart DEF Command, UserAt
<1>2. ASSUME NEW at \in {"plan", "move"}, Becomes(Route(World, n, at)),
             \A i \in Places : dispatcher.slots[i].number = n /\ dispatcher.slots[i].conductor # NOTASK => Routable(n)
      PROVE  DInv'
  <2>1. \A i \in Places : dispatcher.slots[i].number = n =>
          /\ dispatcher.slots[i].conductor # NOTASK =>
               /\ Is(World, dispatcher.slots[i].conductor, "conductor")
               /\ tasks[dispatcher.slots[i].conductor].at \notin Gone
          /\ \A u : Is(World, u, "creator") => tasks[u].number # n
    BY <1>1, <1>2, UserFinds
  <2>2. ~NoSlot(World, n) => \A u : Is(World, u, "creator") => tasks[u].number # n
    BY <1>1, <2>1 DEF NoSlot
  <2> QED BY <1>1, <1>2, <2>1, <2>2, RouteStep
<1>3. CASE Available(World, n) /\ Becomes(Route(World, n, "plan"))
  BY <1>2, <1>3, AvailableIs
<1>4. CASE Routable(n) /\ Becomes(Route(World, n, "move"))
  BY <1>2, <1>4
<1> QED BY <1>3, <1>4 DEF Command, Careful

LEMMA BroadcastsStep ==
  ASSUME Careful, DInv, NEW n \in Numbers, Broadcasts(n), UNCHANGED serverVars, fuel' \in 0 .. Commands
  PROVE  DInv'
<1>1. /\ World.disp = dispatcher /\ World.tasks = tasks /\ n # 0 /\ UserAt("idle") /\ tasks[User].at = "idle"
      /\ resting' = resting \cup {n} /\ Becomes(World) /\ Available(World, n)
  BY WorldIs, UserApart DEF Broadcasts, UserAt, Becomes
<1>2. PICK i \in Places : dispatcher.slots[i].number = n /\ dispatcher.slots[i].conductor = NOTASK
  BY <1>1, AvailableIs
<1>3. \A u : Is(World, u, "creator") => tasks[u].number # n
  BY <1>1, <1>2, UserFinds
<1>4. ~NoSlot(World, n)
  BY <1>1, AvailableIs
<1>5. WInv(World, NOTASK, resting')
  BY <1>1, <1>3, <1>4, RestKeeps DEF DInv
<1> QED BY <1>1, <1>5, StaysDInv DEF DInv

LEMMA UserGoesOnStep ==
  ASSUME DInv, UserGoesOn, UNCHANGED serverVars, UNCHANGED resting, UNCHANGED fuel
  PROVE  DInv'
<1> DEFINE n == tasks[User].number
           w == StopRoute(World, n)
           v == SetTask(w, User, "idle")
<1>1. /\ World.disp = dispatcher /\ World.tasks = tasks /\ Shape(World) /\ WType(World) /\ SlotsInv(World)
      /\ User \in DOMAIN tasks /\ tasks[User].at = "added" /\ Becomes(v)
  BY WorldIs DEF DInv, WInv, WType, UserGoesOn, UserAt
<1>2. /\ n \in Numbers /\ n # 0
      /\ \A i \in Places : dispatcher.slots[i].number = n => dispatcher.slots[i].conductor \in {User, NOTASK}
  BY <1>1, UserApart DEF DInv, WInv, UserBusy
<1>3. \A i \in Places : dispatcher.slots[i].conductor = User => dispatcher.slots[i].number = n
  BY <1>1, UserApart DEF DInv, WInv, ConductorsLive
<1>4. /\ Shape(w)
      /\ \A j \in Places :
           /\ w.disp.slots[j].number = dispatcher.slots[j].number
           /\ w.disp.slots[j].train = dispatcher.slots[j].train
           /\ w.disp.slots[j].conductor = IF dispatcher.slots[j].conductor = User THEN NOTASK
                                          ELSE dispatcher.slots[j].conductor
      /\ w.disp.count = dispatcher.count /\ w.disp.queue = dispatcher.queue
      /\ w.disp.waiting = dispatcher.waiting /\ w.disp.creating = dispatcher.creating
      /\ SameBut(World, w, {User}) /\ User \in DOMAIN w.tasks /\ w.tasks[User] = tasks[User]
  <2>1. CASE NodeOf(World, n) = 0 \/ dispatcher.slots[NodeOf(World, n)].conductor = NOTASK
    <3>1. w = World
      BY <1>1, <2>1, ZenonT(20) DEF StopRoute
    <3>2. \A j \in Places : dispatcher.slots[j].conductor # User
      <4> SUFFICES ASSUME NEW j \in Places, dispatcher.slots[j].conductor = User PROVE FALSE
        OBVIOUS
      <4>1. dispatcher.slots[j].number = n
        BY <1>3
      <4>2. ~NoSlot(World, n)
        BY <1>1, <4>1 DEF NoSlot
      <4>3. NodeOf(World, n) # 0 /\ NodeOf(World, n) = j
        BY <1>1, <1>2, <4>1, <4>2, NodeIs, OneSlot
      <4> QED BY <2>1, <4>3, UserApart
    <3> HIDE DEF w
    <3> QED BY <1>1, <3>1, <3>2 DEF SameBut
  <2>2. CASE NodeOf(World, n) # 0 /\ dispatcher.slots[NodeOf(World, n)].conductor # NOTASK
    <3>1. PICK i \in Places : i = NodeOf(World, n) /\ World.disp.slots[i].number = n
      BY <1>1, <1>2, <2>2, NodeIs
    <3>2. World.disp.slots[i].conductor = User
      BY <1>1, <1>2, <2>2, <3>1
    <3>3. /\ Shape(w) /\ SameBut(World, w, {User})
          /\ \A j \in Places :
               /\ w.disp.slots[j].number = World.disp.slots[j].number
               /\ w.disp.slots[j].train = World.disp.slots[j].train
               /\ w.disp.slots[j].conductor = IF j = i THEN NOTASK ELSE World.disp.slots[j].conductor
          /\ w.disp.count = World.disp.count /\ w.disp.queue = World.disp.queue
          /\ w.disp.waiting = World.disp.waiting /\ w.disp.creating = World.disp.creating
          /\ User \in DOMAIN w.tasks <=> User \in DOMAIN World.tasks
          /\ User \in DOMAIN World.tasks => w.tasks[User] = Resumed(World.tasks[User], OK)
      <4> HIDE DEF n
      <4> QED BY <1>1, <1>2, <3>1, <3>2, StopRouteIs, UserApart
    <3>4. Resumed(tasks[User], OK) = tasks[User]
      BY <1>1 DEF Resumed
    <3>5. \A j \in Places : dispatcher.slots[j].conductor = User => j = i
      <4> TAKE j \in Places
      <4> HAVE dispatcher.slots[j].conductor = User
      <4>1. World.disp.slots[j].number = n
        BY <1>1, <1>3
      <4> QED BY <1>1, <1>2, <3>1, <4>1, OneSlot
    <3> HIDE DEF w
    <3>6. \A j \in Places :
            w.disp.slots[j].conductor = IF dispatcher.slots[j].conductor = User THEN NOTASK
                                        ELSE dispatcher.slots[j].conductor
      BY <1>1, <3>2, <3>3, <3>5
    <3> QED BY <1>1, <3>3, <3>4, <3>6
  <2> QED BY <2>1, <2>2
<1> HIDE DEF w
<1>5. /\ Shape(v) /\ v.disp = w.disp /\ SameBut(w, v, {User}) /\ User \in DOMAIN v.tasks
      /\ v.tasks[User] = [w.tasks[User] EXCEPT !.at = "idle"]
  <2> HIDE DEF n
  <2>1. Shape(w) /\ User \in DOMAIN w.tasks
    BY <1>4
  <2> QED BY <2>1, SetTaskIs
<1> HIDE DEF v
<1>6. SameBut(World, v, {User})
  BY <1>4, <1>5 DEF SameBut
<1>7. \A j \in Places :
           /\ v.disp.slots[j].number = World.disp.slots[j].number
           /\ v.disp.slots[j].train = World.disp.slots[j].train
           /\ v.disp.slots[j].conductor = IF World.disp.slots[j].conductor = User THEN NOTASK
                                          ELSE World.disp.slots[j].conductor
  BY <1>1, <1>4, <1>5
<1>8. /\ v.disp.count = World.disp.count /\ v.disp.queue = World.disp.queue
      /\ v.disp.waiting = World.disp.waiting /\ v.disp.creating = World.disp.creating
      /\ v.tasks[User] = [World.tasks[User] EXCEPT !.at = "idle"]
  BY <1>1, <1>4, <1>5
<1>9. WInv(v, NOTASK, resting)
  <2>1. WInv(World, NOTASK, resting) /\ World.tasks[User].at = "added"
    BY <1>1 DEF DInv
  <2>2. Shape(v) /\ User \in DOMAIN v.tasks
    BY <1>5
  <2> QED BY <1>6, <1>7, <1>8, <2>1, <2>2, UserFreeKeeps
<1>10. Listens(v, ToSet(anyone), answer)
  <2>1. User \notin ToSet(anyone)
    BY <1>1, NotListening DEF DInv
  <2>2. \A m \in Numbers : ~UserAdds(World, m)
    BY <1>1 DEF UserAdds
  <2>3. \A m : NoSlot(v, m) => NoSlot(World, m)
    BY <1>7 DEF NoSlot
  <2>4. \A t \in ToSet(anyone) : /\ t \in DOMAIN v.tasks <=> t \in DOMAIN World.tasks
                                 /\ t \in DOMAIN World.tasks => v.tasks[t] = World.tasks[t]
    BY <1>6, <2>1 DEF SameBut
  <2> QED BY <2>2, <2>3, <2>4, ListensKept DEF DInv
<1>11. v.disp.queue # <<>> => v.disp.waiting # NOTASK
  BY <1>1, <1>8 DEF DInv
<1> QED BY <1>1, <1>9, <1>10, <1>11, StaysDInv DEF DInv
-----------------------------------------------------------------------------
(* What is to be shown of a step in which the sensor server takes part. *)
LEMMA ServesDInv ==
  ASSUME DInv, NEW w, WInv(w, NOTASK, resting), w.disp.queue # <<>> => w.disp.waiting # NOTASK,
         Listens(w, ToSet(anyone'), answer'), ServerInv', Becomes(w), UNCHANGED resting, UNCHANGED fuel
  PROVE  DInv'
<1>1. DOMAIN World' = {"disp", "tasks"} /\ World'.disp = w.disp /\ World'.tasks = w.tasks
  BY DEF World, Becomes
<1>2. WInv(World', NOTASK, resting') /\ Listens(World', ToSet(anyone'), answer')
  BY <1>1, SameWorld
<1>3. dispatcher'.queue # <<>> => dispatcher'.waiting # NOTASK
  BY DEF Becomes
<1> QED BY <1>2, <1>3 DEF DInv

LEMMA ListensServer ==
  ASSUME NEW w, NEW A, NEW a, Listens(w, A, a), NEW b, \A t \in A : b[t] = a[t]
  PROVE  Listens(w, A, b)
BY DEF Listens

LEMMA CreatorFacts ==
  ASSUME DInv, NEW t \in Creators
  PROVE  /\ World.disp = dispatcher /\ World.tasks = tasks /\ Shape(World) /\ WType(World) /\ SlotsInv(World)
         /\ Is(World, t, "creator") /\ t \in DOMAIN tasks
         /\ tasks[t].number \in Numbers /\ t # User /\ t # NOTASK /\ t \in Tids /\ t \in Clients
         /\ tasks[t] \in ACreator(tasks[t].number) /\ t \in Pool[<<"creator", tasks[t].number>>]
<1>1. /\ World.disp = dispatcher /\ World.tasks = tasks /\ Shape(World) /\ WType(World) /\ SlotsInv(World)
      /\ Is(World, t, "creator") /\ t \in DOMAIN tasks
  BY WorldIs DEF DInv, WInv, WType, Is, Creators, OfKind
<1>2. tasks[t].number \in Numbers /\ t # User /\ t # NOTASK /\ t \in Tids
  BY <1>1, KindIs DEF Kinds
<1>3. tasks[t] \in ACreator(tasks[t].number) /\ t \in Pool[<<"creator", tasks[t].number>>]
  BY <1>1, TasksAre DEF Is
<1>4. t \in Clients
  BY <1>2, ConductorAssumption
<1> QED BY <1>1, <1>2, <1>3, <1>4

LEMMA SeeksStep ==
  ASSUME DInv, NEW t \in Creators, Seeks(t), UNCHANGED resting, UNCHANGED fuel
  PROVE  DInv'
<1> DEFINE n == tasks[t].number
           v == SetTask(World, t, "listening")
<1>1. /\ World.disp = dispatcher /\ World.tasks = tasks /\ Shape(World) /\ WType(World)
      /\ Is(World, t, "creator") /\ t \in DOMAIN tasks /\ n \in Numbers /\ t # User /\ t \in Tids /\ t \in Clients
      /\ tasks[t] \in ACreator(n) /\ t \in Pool[<<"creator", n>>]
  BY CreatorFacts
<1>2. /\ tasks[t].at = "seeking" /\ anyone' = Append(anyone, t) /\ answer' = [answer EXCEPT ![t] = NONE]
      /\ waiter' = waiter /\ Becomes(v)
  BY <1>1, TurnsIs DEF Seeks, WaitAny
<1>3. /\ Shape(v) /\ v.disp = dispatcher /\ SameBut(World, v, {t}) /\ t \in DOMAIN v.tasks
      /\ v.tasks[t] = [tasks[t] EXCEPT !.at = "listening"]
  BY <1>1, SetTaskIs
<1> HIDE DEF v, n
<1>4. /\ v.tasks[t] \in ACreator(n) /\ v.tasks[t].at = "listening" /\ v.tasks[t].kind = "creator"
      /\ v.tasks[t].callee = tasks[t].callee
  BY <1>1, <1>3 DEF ACreator, Adding
<1>5. WInv(v, NOTASK, resting)
  <2>1. /\ WInv(World, NOTASK, resting) /\ World.tasks[t].at \in {"seeking", "listening"} /\ World.tasks[t].number = n
        /\ v.disp = World.disp /\ v.tasks[t].at \in {"listening", "located"}
        /\ v.tasks[t].callee = World.tasks[t].callee
    BY <1>1, <1>2, <1>3, <1>4 DEF DInv, n
  <2> QED BY <1>1, <1>3, <1>4, <2>1, SeeksKeeps
<1>6. anyone \in Seq(Clients) /\ answer \in [Clients -> Answers] /\ waiter \in [SensorIds -> Clients \cup {NOTASK}]
  BY DEF DInv, ServerInv, ServerOK
<1>7. ToSet(anyone') = ToSet(anyone) \cup {t}
  <2>1. /\ DOMAIN Append(anyone, t) = 1 .. Len(anyone) + 1 /\ DOMAIN anyone = 1 .. Len(anyone)
        /\ \A i \in 1 .. Len(anyone) : Append(anyone, t)[i] = anyone[i]
        /\ Append(anyone, t)[Len(anyone) + 1] = t /\ Len(anyone) \in Nat
    BY <1>1, <1>6, Appended
  <2>2. 1 .. Len(anyone) + 1 = 1 .. Len(anyone) \cup {Len(anyone) + 1}
    BY <2>1
  <2> QED BY <1>2, <2>1, <2>2 DEF ToSet
<1>8. ServerInv'
  <2>1. anyone' \in Seq(Clients)
    BY <1>1, <1>2, <1>6
  <2>2. answer' \in [Clients -> Answers]
    BY <1>2, <1>6 DEF Answers
  <2>3. \A u \in Tids : u \in Clients
    BY ConductorAssumption
  <2>4. \A u \in Tids : answer'[u] = NONE \/ answer'[u] = answer[u]
    BY <1>2, <1>6, <2>3
  <2> QED BY <1>2, <2>1, <2>2, <2>4 DEF DInv, ServerInv, ServerOK
<1>9. Listens(v, ToSet(anyone'), answer')
  <2> DEFINE A == ToSet(anyone)
             B == ToSet(anyone')
  <2>1. Listens(World, A, answer) /\ B = A \cup {t}
    BY <1>7 DEF DInv
  <2> HIDE DEF A, B
  <2>2. \A u \in B : \E m \in Numbers : u \in Pool[<<"creator", m>>]
    BY <1>1, <2>1 DEF Listens
  <2>3. ASSUME NEW u \in B, u \in DOMAIN v.tasks
        PROVE  Is(v, u, "creator") /\ v.tasks[u].at = "listening" /\ answer'[u] = NONE
    <3>1. CASE u = t
      BY <1>1, <1>2, <1>4, <1>6, <2>3, <3>1 DEF Is
    <3>2. CASE u # t
      <4>1. u \in A /\ u \in DOMAIN tasks /\ v.tasks[u] = tasks[u]
        BY <1>1, <1>3, <2>1, <2>3, <3>2 DEF SameBut
      <4>2. Is(World, u, "creator") /\ tasks[u].at = "listening" /\ answer[u] = NONE
        BY <1>1, <2>1, <4>1 DEF Listens
      <4>3. u \in Clients
        BY <1>1, <4>2, KindIs, ConductorAssumption DEF Kinds
      <4> QED BY <1>1, <1>2, <1>6, <2>3, <3>2, <4>1, <4>2, <4>3 DEF Is
    <3> QED BY <3>1, <3>2
  <2>4. \A m \in Numbers : Stale(v, B, m) = Stale(World, A, m)
    BY <1>1, <1>3, <2>1 DEF Stale, SameBut
  <2>5. \A m \in Numbers : (NoSlot(v, m) <=> NoSlot(World, m)) /\ (UserAdds(v, m) <=> UserAdds(World, m))
    <3>1. v.tasks[User] = World.tasks[User]
      BY <1>1, <1>3 DEF SameBut, WType
    <3> QED BY <1>1, <1>3, <3>1 DEF NoSlot, UserAdds
  <2>6. \A m \in Numbers : \A r, s \in Stale(v, B, m) : r = s
    BY <2>1, <2>4 DEF Listens
  <2>7. \A m \in Numbers : Stale(v, B, m) # {} => ~NoSlot(v, m) \/ UserAdds(v, m)
    BY <2>1, <2>4, <2>5 DEF Listens
  <2>8. Listens(v, B, answer')
    BY <2>2, <2>3, <2>6, <2>7 DEF Listens
  <2> QED BY <2>8 DEF B
<1> QED BY <1>1, <1>2, <1>3, <1>5, <1>8, <1>9, ServesDInv DEF DInv

LEMMA HearsStep ==
  ASSUME DInv, NEW t \in Creators, Hears(t), UNCHANGED resting, UNCHANGED fuel
  PROVE  DInv'
<1> DEFINE n == tasks[t].number
<1>1. /\ World.disp = dispatcher /\ World.tasks = tasks /\ Shape(World) /\ WType(World)
      /\ Is(World, t, "creator") /\ t \in DOMAIN tasks /\ n \in Numbers /\ t # User /\ t \in Tids /\ t \in Clients
      /\ tasks[t] \in ACreator(n) /\ t \in Pool[<<"creator", n>>]
  BY CreatorFacts
<1>2. PICK s \in SensorIds : answer[t] = ThatSensor(s)
  BY <1>1 DEF Hears, DInv, ServerInv
<1>3. answer[t][2] = s /\ answer[t] # NONE
  BY <1>2 DEF ThatSensor, NONE
<1> DEFINE v == [disp |-> dispatcher,
                 tasks |-> [tasks EXCEPT ![t].at = "located", ![t].sensor = s]]
<1>4. /\ tasks[t].at = "listening" /\ answer' = [answer EXCEPT ![t] = NONE]
      /\ waiter' = waiter /\ anyone' = anyone /\ Becomes(v)
  BY <1>3 DEF Hears, Use, Becomes
<1>5. /\ Shape(v) /\ v.disp = dispatcher /\ SameBut(World, v, {t}) /\ t \in DOMAIN v.tasks
      /\ v.tasks[t] = [tasks[t] EXCEPT !.at = "located", !.sensor = s]
  BY <1>1 DEF Shape, SameBut
<1> HIDE DEF v, n
<1>6. v.tasks[t] \in ACreator(n) /\ v.tasks[t].at = "located" /\ v.tasks[t].callee = tasks[t].callee
  BY <1>1, <1>5 DEF ACreator, Adding
<1>7. WInv(v, NOTASK, resting)
  <2>1. /\ WInv(World, NOTASK, resting) /\ World.tasks[t].at \in {"seeking", "listening"} /\ World.tasks[t].number = n
        /\ v.disp = World.disp /\ v.tasks[t].at \in {"listening", "located"}
        /\ v.tasks[t].callee = World.tasks[t].callee
    BY <1>1, <1>4, <1>5, <1>6 DEF DInv, n
  <2> QED BY <1>1, <1>5, <1>6, <2>1, SeeksKeeps
<1>8. anyone \in Seq(Clients) /\ answer \in [Clients -> Answers] /\ waiter \in [SensorIds -> Clients \cup {NOTASK}]
  BY DEF DInv, ServerInv, ServerOK
<1>9. \A u \in Clients : answer'[u] = IF u = t THEN NONE ELSE answer[u]
  BY <1>4, <1>8
<1>10. ServerInv'
  <2>1. answer' \in [Clients -> Answers]
    BY <1>4, <1>8 DEF Answers
  <2>2. \A u \in Tids : u \in Clients
    BY ConductorAssumption
  <2>3. \A u \in Tids : answer'[u] = NONE \/ answer'[u] = answer[u]
    BY <1>9, <2>2
  <2> QED BY <1>4, <2>1, <2>3 DEF DInv, ServerInv, ServerOK
<1>11. t \notin ToSet(anyone)
  BY <1>1, <1>3 DEF DInv, Listens
<1>12. Listens(v, ToSet(anyone'), answer')
  <2>1. v.tasks[User] = World.tasks[User]
    BY <1>1, <1>5 DEF SameBut, WType
  <2>2. Listens(v, ToSet(anyone), answer)
    BY <1>1, <1>5, <1>11, <2>1, ListensApart DEF DInv
  <2>3. \A u \in ToSet(anyone) : answer'[u] = answer[u]
    BY <1>4, <1>11
  <2> QED BY <1>4, <2>2, <2>3, ListensServer
<1> QED BY <1>1, <1>4, <1>5, <1>7, <1>10, <1>12, ServesDInv DEF DInv
-----------------------------------------------------------------------------
LEMMA LocatesStep ==
  ASSUME DInv, NEW t \in Creators, Locates(t), UNCHANGED resting, UNCHANGED fuel
  PROVE  DInv'
<1> DEFINE n == tasks[t].number
           x == Fresh(World, "train", n)
           up == [kind |-> "train", at |-> "up", number |-> n]
           w == Create(World, x, up)
           v == [w EXCEPT !.tasks[t].train = x, !.tasks[t].at = "creating"]
<1>1. /\ World.disp = dispatcher /\ World.tasks = tasks /\ Shape(World) /\ WType(World) /\ SlotsInv(World)
      /\ Is(World, t, "creator") /\ t \in DOMAIN tasks /\ n \in Numbers /\ t # User /\ t \in Tids
      /\ tasks[t] \in ACreator(n) /\ t \in Pool[<<"creator", n>>]
  BY CreatorFacts
<1>2. tasks[t].at = "located" /\ Becomes(v) /\ UNCHANGED serverVars
  BY DEF Locates
<1>3. x \in Pool[<<"train", n>>] /\ x \notin Mentioned(World)
  <2>1. PICK d : \A j \in Places : dispatcher.slots[j].number = n => dispatcher.slots[j].train = d
    <3>1. CASE \E i \in Places : dispatcher.slots[i].number = n
      <4>1. PICK i \in Places : dispatcher.slots[i].number = n
        BY <3>1
      <4>2. \A j \in Places : dispatcher.slots[j].number = n => j = i
        BY <1>1, <4>1, OneSlot
      <4> QED BY <4>1, <4>2
    <3> QED BY <3>1
  <2>2. ASSUME NEW y, HasTrain(World, y, n) PROVE y = d
    <3>1. ~\E u : /\ Is(World, u, "creator") /\ tasks[u].at = "creating" /\ tasks[u].train = y
                  /\ tasks[u].number = n
      BY <1>1, <1>2 DEF DInv, WInv, OneCreator
    <3>2. \E i \in Places : dispatcher.slots[i].number = n /\ dispatcher.slots[i].train = y
      BY <1>1, <2>2, <3>1 DEF DInv, WInv, TrainsHeld, HasTrain
    <3> QED BY <2>1, <3>2
  <2>3. ASSUME NEW y \in Pool[<<"train", n>>], y \in Mentioned(World) PROVE y = d
    <3>1. HasTrain(World, y, n) \/ \E i \in Places : World.disp.slots[i].number = n /\ World.disp.slots[i].train = y
      BY <1>1, <2>3, MentionedTrain DEF DInv, Listens, Listeners
    <3> QED BY <1>1, <2>1, <2>2, <3>1
  <2>4. Pool[<<"train", n>>] \cap Mentioned(World) \subseteq {d, d}
    BY <2>3
  <2> QED BY <1>1, <2>4, FreshIs DEF Kinds
<1>4. x \notin DOMAIN tasks /\ x # t /\ x # User
  BY <1>1, <1>3, IsMentioned, PoolIs DEF Kinds
<1>5. Shape(w) /\ w.disp = dispatcher /\ SameBut(World, w, {x}) /\ x \in DOMAIN w.tasks /\ w.tasks[x] = up
  BY <1>1, CreateIs
<1>6. w.tasks[t] = tasks[t] /\ t \in DOMAIN w.tasks
  BY <1>1, <1>4, <1>5 DEF SameBut
<1> HIDE DEF w, x
<1>7. /\ Shape(v) /\ v.disp = dispatcher /\ SameBut(w, v, {t}) /\ t \in DOMAIN v.tasks
      /\ v.tasks[t] = [tasks[t] EXCEPT !.train = x, !.at = "creating"]
  BY <1>5, <1>6 DEF Shape, SameBut
<1> HIDE DEF v
<1>8. up \in ATrain(n)
  BY DEF ATrain
<1> HIDE DEF up, n
<1>9. SameBut(World, v, {t, x}) /\ x \in DOMAIN v.tasks /\ v.tasks[x] \in ATrain(n)
  BY <1>4, <1>5, <1>7, <1>8 DEF SameBut
<1>10. /\ v.tasks[t] \in ACreator(n) /\ v.tasks[t].at = "creating" /\ v.tasks[t].callee = tasks[t].callee
       /\ v.tasks[t].train = x
  BY <1>1, <1>3, <1>7 DEF ACreator, Adding
<1>11. WInv(v, NOTASK, resting)
  <2>1. /\ WInv(World, NOTASK, resting) /\ World.tasks[t].at = "located" /\ World.tasks[t].number = n
        /\ v.disp = World.disp /\ x \notin DOMAIN World.tasks
        /\ v.tasks[t].callee = World.tasks[t].callee
    BY <1>1, <1>2, <1>4, <1>7, <1>10 DEF DInv, n
  <2> QED BY <1>1, <1>3, <1>7, <1>9, <1>10, <2>1, LocatesKeeps
<1>12. Listens(v, ToSet(anyone), answer)
  <2>1. t \notin ToSet(anyone)
    BY <1>1, <1>2 DEF DInv, Listens
  <2>2. x \notin ToSet(anyone)
    BY <1>1, <1>3, NotListening DEF DInv, Kinds
  <2>3. v.tasks[User] = World.tasks[User]
    BY <1>1, <1>4, <1>9 DEF SameBut, WType
  <2> QED BY <1>1, <1>7, <1>9, <2>1, <2>2, <2>3, ListensApart DEF DInv
<1>13. v.disp.queue # <<>> => v.disp.waiting # NOTASK
  BY <1>7 DEF DInv
<1> QED BY <1>2, <1>11, <1>12, <1>13, StaysDInv DEF DInv

LEMMA FinishesStep ==
  ASSUME DInv, NEW t \in Creators, Finishes(t), UNCHANGED resting, UNCHANGED fuel
  PROVE  DInv'
<1> DEFINE n == tasks[t].number
           c == tasks[t].callee
           w == Reply(World, c, tasks[t].train)
           v == Destroy(w, t)
<1>1. /\ World.disp = dispatcher /\ World.tasks = tasks /\ Shape(World) /\ WType(World) /\ SlotsInv(World)
      /\ Is(World, t, "creator") /\ t \in DOMAIN tasks /\ n \in Numbers /\ t # User /\ t \in Tids
      /\ tasks[t] \in ACreator(n) /\ t \in Pool[<<"creator", n>>]
  BY CreatorFacts
<1>2. tasks[t].at = "created"
  <2>1. tasks[t].at \in Adding \cup {"created"}
    BY <1>1, CreatorIs
  <2> QED BY <2>1 DEF Finishes, Adding
<1>3. Becomes(v) /\ UNCHANGED serverVars
  BY <1>2 DEF Finishes
<1>4. c \in Pool[<<"conductor", n>>] \cup {User, NOTASK}
  BY <1>1, CreatorIs
<1>5. c # t
  BY <1>1, <1>4, CreatorFacts, PoolsApart DEF Kinds
<1> HIDE DEF c, n
<1>6. /\ Shape(w) /\ w.disp = dispatcher /\ SameBut(World, w, {c})
      /\ c \in DOMAIN w.tasks <=> c \in DOMAIN tasks
      /\ c \in DOMAIN tasks => w.tasks[c] = Resumed(tasks[c], tasks[t].train)
  <2>1. Shape(w) /\ w.disp = dispatcher /\ SameBut(World, w, {c})
    BY <1>1, ReplyIs
  <2>2. c \in DOMAIN w.tasks <=> c \in DOMAIN tasks
    BY <1>1, ReplyIs
  <2>3. c \in DOMAIN tasks => w.tasks[c] = Resumed(tasks[c], tasks[t].train)
    BY <1>1 DEF Reply, Shape
  <2> QED BY <2>1, <2>2, <2>3
<1> HIDE DEF w
<1>7. Shape(v) /\ v.disp = w.disp /\ SameBut(w, v, {t}) /\ t \notin DOMAIN v.tasks
  BY <1>6, DestroyIs
<1> HIDE DEF v
<1>8. /\ SameBut(World, v, {t, c})
      /\ c \in DOMAIN v.tasks <=> c \in DOMAIN tasks
      /\ c \in DOMAIN tasks => v.tasks[c] = Resumed(tasks[c], tasks[t].train)
  BY <1>1, <1>5, <1>6, <1>7 DEF SameBut
<1>9. WInv(v, NOTASK, resting)
  <2>1. /\ WInv(World, NOTASK, resting) /\ World.tasks[t].at = "created" /\ v.disp = World.disp
        /\ World.tasks[t].callee = c
    BY <1>1, <1>2, <1>6, <1>7 DEF DInv, c
  <2>2. /\ SameBut(World, v, {t, World.tasks[t].callee})
        /\ World.tasks[t].callee # t =>
           /\ World.tasks[t].callee \in DOMAIN v.tasks <=> World.tasks[t].callee \in DOMAIN World.tasks
           /\ World.tasks[t].callee \in DOMAIN World.tasks =>
                v.tasks[World.tasks[t].callee] = Resumed(World.tasks[World.tasks[t].callee], World.tasks[t].train)
    BY <1>1, <1>8, <2>1
  <2>3. Is(World, t, "creator") /\ Shape(v) /\ t \notin DOMAIN v.tasks
    BY <1>1, <1>7
  <2> QED BY <2>1, <2>2, <2>3, FinishesKeeps
<1>10. Listens(v, ToSet(anyone), answer)
  <2>1. t \notin ToSet(anyone)
    BY <1>1, <1>2 DEF DInv, Listens
  <2>2. c \notin ToSet(anyone)
    BY <1>1, <1>4, NotListening DEF DInv, Kinds
  <2>3. \A u \in ToSet(anyone) : /\ u \in DOMAIN v.tasks <=> u \in DOMAIN World.tasks
                                 /\ u \in DOMAIN World.tasks => v.tasks[u] = World.tasks[u]
    BY <1>8, <2>1, <2>2 DEF SameBut
  <2>4. ASSUME NEW m \in Numbers, NoSlot(v, m) PROVE NoSlot(World, m) /\ (UserAdds(World, m) => UserAdds(v, m))
    <3>1. NoSlot(World, m)
      BY <1>1, <1>6, <1>7, <2>4 DEF NoSlot
    <3>2. CASE c = User
      <4>1. ~NoSlot(World, n)
        BY <1>1, <1>2 DEF DInv, WInv, CreatorsHold, NoSlot, n
      <4>2. Asker(World, User, n)
        BY <1>1, <3>2, UserApart DEF DInv, WInv, CreatorsAsk, c, n
      <4>3. tasks[User].number = n
        BY <1>1, <4>2, KindIs DEF Asker, Kinds
      <4> QED BY <1>1, <3>1, <4>1, <4>3 DEF UserAdds
    <3>3. CASE c # User
      <4>1. v.tasks[User] = World.tasks[User]
        BY <1>1, <1>8, <3>3 DEF SameBut, WType
      <4> QED BY <3>1, <4>1 DEF UserAdds
    <3> QED BY <3>2, <3>3
  <2>5. Listens(World, ToSet(anyone), answer)
    BY DEF DInv
  <2> QED BY <2>3, <2>4, <2>5, ListensKept
<1>11. v.disp.queue # <<>> => v.disp.waiting # NOTASK
  BY <1>6, <1>7 DEF DInv
<1> QED BY <1>3, <1>9, <1>10, <1>11, StaysDInv DEF DInv

LEMMA TrainListensStep ==
  ASSUME DInv, NEW s \in Awaited, TrainListens(s), UNCHANGED <<dispatcher, tasks, resting, fuel>>
  PROVE  DInv'
<1>1. s \in SensorIds /\ Courier \in Clients
  BY ConductorAssumption
<1>2. waiter' = [waiter EXCEPT ![s] = Courier] /\ anyone' = anyone /\ answer' = answer
  BY DEF TrainListens, Wait
<1>3. ServerInv'
  BY <1>1, <1>2 DEF DInv, ServerInv, ServerOK
<1>4. Becomes(World)
  BY DEF Becomes, World
<1>5. Listens(World, ToSet(anyone'), answer')
  BY <1>2 DEF DInv
<1>6. World.disp = dispatcher
  BY WorldIs
<1> QED BY <1>3, <1>4, <1>5, <1>6, ServesDInv DEF DInv

LEMMA PollStep ==
  ASSUME DInv, NEW tripped \in SUBSET SensorIds, Poll(tripped), UNCHANGED <<dispatcher, tasks, resting, fuel>>
  PROVE  DInv'
<1> DEFINE free == Unawaited(tripped)
<1>1. /\ answer' = [c \in Clients |->
           IF \E s \in tripped : waiter[s] = c THEN SENSOR_TRIP
           ELSE IF free # {} /\ c \in ToSet(anyone) THEN ThatSensor(Min(free))
           ELSE answer[c]]
      /\ waiter' = [s \in SensorIds |-> IF s \in tripped THEN NOTASK ELSE waiter[s]]
      /\ anyone' = IF free = {} THEN anyone ELSE <<>>
  BY DEF Poll, Returned
<1>2. free \subseteq SensorIds /\ free \subseteq Nat
  BY SensorAssumption DEF Unawaited
<1> HIDE DEF free
<1>3. free # {} => Min(free) \in SensorIds
  BY <1>2, MinIs
<1>4. ServerOK /\ (\A s \in SensorIds : waiter[s] \in {Courier, NOTASK})
      /\ \A t \in Tids : answer[t] = NONE \/ \E s \in SensorIds : answer[t] = ThatSensor(s)
  BY DEF DInv, ServerInv
<1>5. \A t \in Tids : t \in Clients /\ t # Courier /\ t # NOTASK
  BY ConductorAssumption, UserApart
<1>6. \A t \in Tids : answer'[t] = IF free # {} /\ t \in ToSet(anyone) THEN ThatSensor(Min(free)) ELSE answer[t]
  BY <1>1, <1>4, <1>5
<1>7. ServerOK'
  <2>1. waiter' \in [SensorIds -> Clients \cup {NOTASK}]
    BY <1>1, <1>4 DEF ServerOK
  <2>2. anyone' \in Seq(Clients)
    BY <1>1, <1>4 DEF ServerOK
  <2>3. answer' \in [Clients -> Answers]
    <3>1. \A c \in Clients : answer[c] \in Answers
      BY <1>4 DEF ServerOK
    <3>2. free # {} => ThatSensor(Min(free)) \in Answers
      BY <1>3 DEF Answers
    <3>3. SENSOR_TRIP \in Answers
      BY DEF Answers
    <3> HIDE DEF Answers
    <3> QED BY <1>1, <3>1, <3>2, <3>3
  <2> QED BY <2>1, <2>2, <2>3 DEF ServerOK
<1>8. ServerInv'
  <2>1. \A s \in SensorIds : waiter'[s] \in {Courier, NOTASK}
    BY <1>1, <1>4
  <2>2. \A t \in Tids : answer'[t] = NONE \/ \E s \in SensorIds : answer'[t] = ThatSensor(s)
    BY <1>3, <1>4, <1>6
  <2> QED BY <1>7, <2>1, <2>2 DEF ServerInv
<1>9. Listens(World, ToSet(anyone'), answer')
  <2>1. CASE free # {}
    <3>1. ToSet(anyone') = {}
      BY <1>1, <2>1 DEF ToSet
    <3> QED BY <3>1 DEF Listens, Stale
  <2>2. CASE free = {}
    <3>1. \A t \in ToSet(anyone) : t \in Tids
      <4> TAKE t \in ToSet(anyone)
      <4>1. PICK n \in Numbers : t \in Pool[<<"creator", n>>]
        BY DEF DInv, Listens
      <4> QED BY <4>1, PoolIs DEF Kinds
    <3>2. \A t \in ToSet(anyone) : answer'[t] = answer[t]
      BY <1>6, <2>2, <3>1
    <3>3. anyone' = anyone
      BY <1>1, <2>2
    <3> QED BY <3>2, <3>3, ListensServer DEF DInv
  <2> QED BY <2>1, <2>2
<1>10. Becomes(World) /\ World.disp = dispatcher
  BY DEF Becomes, World
<1> QED BY <1>8, <1>9, <1>10, ServesDInv DEF DInv
-----------------------------------------------------------------------------
(* The dispatcher goes on to the next train in its queue. *)
LEMMA DequeuedKeeps ==
  ASSUME TrainsFit, NEW w, NEW rest, WInv(w, NOTASK, rest), NEW a, Listens(w, ToSet(anyone), a),
         w.disp.waiting = NOTASK
  PROVE  /\ WInv(Dequeued(w), NOTASK, rest) /\ Listens(Dequeued(w), ToSet(anyone), a)
         /\ Dequeued(w).disp.queue # <<>> => Dequeued(w).disp.waiting # NOTASK
<1>1. CASE w.disp.queue = <<>>
  BY <1>1 DEF Dequeued
<1>2. CASE w.disp.queue # <<>>
  <2> DEFINE e == Head(w.disp.queue)
             n == e.number
             c == e.callee
             v == [w EXCEPT !.disp.queue = Tail(@)]
             i == NodeOf(w, n)
  <2>1. Shape(w) /\ WType(w) /\ SlotsInv(w)
    BY DEF WInv, WType
  <2>2. /\ Shape(v) /\ v.tasks = w.tasks
        /\ v.disp.slots = w.disp.slots /\ v.disp.count = w.disp.count
        /\ v.disp.waiting = w.disp.waiting /\ v.disp.creating = w.disp.creating
        /\ v.disp.queue = Tail(w.disp.queue)
    BY <2>1 DEF Shape
  <2>3. Dequeued(w) = IF i = 0 \/ c = NOTASK THEN AddNode(v, n, NOTASK, c) ELSE ReAdd(v, i, n, c)
    BY <1>2 DEF Dequeued
  <2> HIDE DEF v
  <2>4. /\ WInv(v, c, rest)
        /\ n \in Numbers /\ c \in Pool[<<"conductor", n>>] \cup {NOTASK}
        /\ \A k \in Queue(v) : v.disp.queue[k].number # n
        /\ v.disp.waiting # n /\ \A u : Is(v, u, "creator") => v.tasks[u].number # n
        /\ c = NOTASK => NoSlot(v, n)
        /\ c # NOTASK => Asker(v, c, n)
    BY <1>2, <2>2, DequeueKeeps
  <2>5. Listens(v, ToSet(anyone), a)
    BY <2>2, ListensKept DEF NoSlot, UserAdds
  <2> HIDE DEF n, c, e
  <2>6. NoSlot(v, n) <=> NoSlot(w, n)
    BY <2>2 DEF NoSlot
  <2>7. i = 0 <=> NoSlot(w, n)
    BY <2>1, <2>4, NodeIs
  <2>8. c = NOTASK <=> NoSlot(w, n)
    <3>1. ASSUME c # NOTASK PROVE ~NoSlot(v, n)
      <4>1. Asker(v, c, n) /\ c # User
        BY <2>4, <3>1, PoolIs DEF Kinds
      <4>2. Is(v, c, "conductor") /\ v.tasks[c].number = n
        BY <4>1 DEF Asker
      <4> QED BY <2>4, <4>2 DEF WInv, ConductorsKnown, NoSlot
    <3> QED BY <2>4, <2>6, <3>1
  <2>9. CASE NoSlot(w, n)
    <3>1. Dequeued(w) = AddNode(v, n, NOTASK, NOTASK) /\ c = NOTASK
      BY <2>3, <2>8, <2>9
    <3>2. WInv(v, NOTASK, rest) /\ NoSlot(v, n) /\ v.disp.waiting = NOTASK
      BY <2>2, <2>4, <2>6, <2>9, <3>1
    <3>3. NOTASK # User
      BY UserApart
    <3>4. /\ WInv(AddNode(v, n, NOTASK, NOTASK), NOTASK, rest)
          /\ Listens(AddNode(v, n, NOTASK, NOTASK), ToSet(anyone), a)
          /\ AddNode(v, n, NOTASK, NOTASK).disp.waiting # NOTASK
      BY <2>4, <2>5, <3>2, <3>3, StartsNew
    <3> QED BY <3>1, <3>4
  <2>10. CASE ~NoSlot(w, n)
    <3>1. Dequeued(w) = ReAdd(v, i, n, c) /\ c # NOTASK
      BY <2>3, <2>7, <2>8, <2>10
    <3>2. i \in Places /\ v.disp.slots[i].number = n
      BY <2>1, <2>2, <2>4, <2>10, NodeIs
    <3> HIDE DEF i
    <3>3. /\ WInv(ReAdd(v, i, n, c), NOTASK, rest) /\ Listens(ReAdd(v, i, n, c), ToSet(anyone), a)
          /\ ReAdd(v, i, n, c).disp.waiting # NOTASK
      BY <2>2, <2>4, <2>5, <3>1, <3>2, StartsAgain
    <3> QED BY <3>1, <3>3
  <2> QED BY <2>9, <2>10
<1> QED BY <1>1, <1>2

LEMMA RegistersStep ==
  ASSUME TrainsFit, DInv, NEW t \in Creators, Registers(t), UNCHANGED resting, UNCHANGED fuel
  PROVE  DInv'
<1> DEFINE n == tasks[t].number
           free == {i \in 1 .. MaxTrains : dispatcher.slots[i].train = NOTASK}
           i == Min(free)
           slot == [train |-> tasks[t].train, number |-> tasks[t].number, conductor |-> tasks[t].callee]
           r == Reply(World, t, OK)
           w == Entered(World, t, i)
<1>1. /\ World.disp = dispatcher /\ World.tasks = tasks /\ Shape(World) /\ WType(World) /\ SlotsInv(World)
      /\ Is(World, t, "creator") /\ t \in DOMAIN tasks /\ n \in Numbers /\ t # User /\ t \in Tids
      /\ tasks[t] \in ACreator(n) /\ t \in Pool[<<"creator", n>>]
  BY CreatorFacts
<1>2. tasks[t].at = "creating"
  BY DEF Registers
<1>3. /\ free # {} /\ i \in Places /\ dispatcher.slots[i].train = NOTASK
      /\ \/ dispatcher.slots[i].number = n
         \/ /\ NoSlot(World, n) /\ dispatcher.slots[i].number = 0
            /\ \A j \in Places : j < i => dispatcher.slots[j].number # 0
  BY <1>1, <1>2, FreeSlot DEF DInv
<1>4. Becomes(Dequeued(w)) /\ UNCHANGED serverVars
  BY <1>1, <1>3 DEF Registers, CreateTrain
<1>5. /\ Shape(r) /\ r.disp = dispatcher /\ SameBut(World, r, {t}) /\ t \in DOMAIN r.tasks
      /\ r.tasks[t] = [tasks[t] EXCEPT !.at = "created"]
  <2>1. Shape(r) /\ r.disp = dispatcher /\ SameBut(World, r, {t}) /\ t \in DOMAIN r.tasks
    BY <1>1, ReplyIs
  <2>2. r.tasks[t] = Resumed(tasks[t], OK)
    BY <1>1 DEF Reply, Shape
  <2>3. OK # ERROR
    BY UserApart DEF OK, ERROR
  <2> QED BY <1>2, <2>1, <2>2, <2>3 DEF Resumed
<1>6. w = [r EXCEPT !.disp.slots[i] = slot, !.disp.count = @ + 1,
                    !.disp.waiting = NOTASK, !.disp.creating = NOTASK]
  BY <1>1 DEF Entered
<1> HIDE DEF free, i, r, w, slot
<1>7. /\ DOMAIN w = {"disp", "tasks"} /\ DOMAIN w.disp = {"slots", "count", "waiting", "creating", "queue"}
      /\ w.disp.slots = [dispatcher.slots EXCEPT ![i] = slot]
      /\ w.disp.count = dispatcher.count + 1 /\ w.disp.waiting = NOTASK /\ w.disp.creating = NOTASK
      /\ w.disp.queue = dispatcher.queue /\ w.tasks = r.tasks
  BY <1>5, <1>6 DEF Shape
<1>8. /\ SameBut(World, w, {t}) /\ t \in DOMAIN w.tasks
      /\ w.tasks[t] = [tasks[t] EXCEPT !.at = "created"]
  BY <1>5, <1>7 DEF SameBut
<1>9. WInv(w, NOTASK, resting)
  <2>1. /\ WInv(World, NOTASK, resting) /\ World.tasks[t].at = "creating"
        /\ w.disp.slots = [World.disp.slots EXCEPT ![i] =
                            [train |-> World.tasks[t].train, number |-> World.tasks[t].number,
                             conductor |-> World.tasks[t].callee]]
        /\ w.disp.count = World.disp.count + 1 /\ w.disp.waiting = NOTASK /\ w.disp.creating = NOTASK
        /\ w.disp.queue = World.disp.queue
        /\ w.tasks[t] = [World.tasks[t] EXCEPT !.at = "created"]
    BY <1>1, <1>2, <1>7, <1>8 DEF DInv, slot
  <2>2. /\ World.disp.slots[i].train = NOTASK
        /\ \/ World.disp.slots[i].number = World.tasks[t].number
           \/ /\ NoSlot(World, World.tasks[t].number) /\ World.disp.slots[i].number = 0
              /\ \A j \in Places : j < i => World.disp.slots[j].number # 0
    BY <1>1, <1>3
  <2>3. /\ Is(World, t, "creator") /\ i \in Places
        /\ DOMAIN w = {"disp", "tasks"} /\ DOMAIN w.disp = {"slots", "count", "waiting", "creating", "queue"}
        /\ SameBut(World, w, {t}) /\ t \in DOMAIN w.tasks
    BY <1>1, <1>3, <1>7, <1>8
  <2> QED BY <2>1, <2>2, <2>3, EnteredKeeps
<1>10. Listens(w, ToSet(anyone), answer)
  <2>1. t \notin ToSet(anyone)
    BY <1>1, <1>2 DEF DInv, Listens
  <2>2. \A u \in ToSet(anyone) : /\ u \in DOMAIN w.tasks <=> u \in DOMAIN World.tasks
                                 /\ u \in DOMAIN World.tasks => w.tasks[u] = World.tasks[u]
    BY <1>8, <2>1 DEF SameBut
  <2>3. w.tasks[User] = World.tasks[User]
    BY <1>1, <1>8 DEF SameBut, WType
  <2>4. ASSUME NEW m \in Numbers, NoSlot(w, m) PROVE NoSlot(World, m)
    <3>1. DOMAIN dispatcher.slots = Places /\ slot.number = n
      BY <1>1 DEF Shape, slot
    <3>2. w.disp.slots[i].number = n /\ \A j \in Places : j # i => w.disp.slots[j] = dispatcher.slots[j]
      BY <1>3, <1>7, <3>1
    <3>3. m # n /\ m # 0
      BY <1>3, <2>4, <3>2, UserApart DEF NoSlot
    <3>4. dispatcher.slots[i].number # m
      BY <1>3, <3>3
    <3> QED BY <1>1, <2>4, <3>2, <3>4 DEF NoSlot
  <2>5. Listens(World, ToSet(anyone), answer)
    BY DEF DInv
  <2> QED BY <2>2, <2>3, <2>4, <2>5, ListensKept DEF UserAdds
<1> DEFINE v == Dequeued(w)
<1>11. WInv(v, NOTASK, resting) /\ Listens(v, ToSet(anyone), answer) /\ (v.disp.queue # <<>> => v.disp.waiting # NOTASK)
  BY <1>7, <1>9, <1>10, DequeuedKeeps
<1> HIDE DEF v
<1>12. Becomes(v)
  BY <1>4 DEF v
<1> QED BY <1>4, <1>11, <1>12, StaysDInv DEF DInv
-----------------------------------------------------------------------------
(* Who waits may be left out of account. *)
LEMMA WaitsApart ==
  ASSUME NEW w, NEW x, NEW rest, WInv(w, NOTASK, rest)
  PROVE  WInv(w, x, rest)
<1>1. NOTASK \notin DOMAIN w.tasks
  BY NobodyThere DEF WInv
<1>2. AskersKnown(w, x)
  BY <1>1 DEF WInv, AskersKnown
<1> QED BY <1>2 DEF WInv

(* What the user finds of a train that is not known: no courier adds it, but
   one from the queue. *)
LEMMA UnknownTrain ==
  ASSUME DInv, UserAt("idle"), NEW n \in Numbers, NoSlot(World, n)
  PROVE  /\ \A u : Is(World, u, "creator") /\ tasks[u].number = n =>
              tasks[u].at \in Adding /\ u = dispatcher.creating /\ n = dispatcher.waiting
         /\ \A u : Is(World, u, "creator") => tasks[u].callee # User
         /\ n \notin resting
         /\ \A i \in Places : dispatcher.slots[i].number # n /\ dispatcher.slots[i].conductor # User
<1>1. /\ World.disp = dispatcher /\ World.tasks = tasks /\ Shape(World) /\ WType(World) /\ SlotsInv(World)
      /\ tasks[User].at = "idle"
  BY WorldIs DEF DInv, WInv, WType, UserAt
<1>2. ASSUME NEW u, Is(World, u, "creator"), tasks[u].number = n
      PROVE  tasks[u].at \in Adding /\ u = dispatcher.creating /\ n = dispatcher.waiting
  <2>1. tasks[u].at # "created"
    BY <1>1, <1>2 DEF DInv, WInv, CreatorsHold, NoSlot
  <2>2. tasks[u].at \in Adding \cup {"created"}
    BY <1>1, <1>2, TasksAre, CreatorIs DEF Is
  <2>3. tasks[u].at \in Adding
    BY <2>1, <2>2
  <2> QED BY <1>1, <1>2, <2>3 DEF DInv, WInv, OneAdds
<1>3. ASSUME NEW u, Is(World, u, "creator"), tasks[u].callee = User PROVE FALSE
  <2>1. Asker(World, User, tasks[u].number)
    BY <1>1, <1>3, UserApart DEF DInv, WInv, CreatorsAsk
  <2>2. ~Is(World, User, "conductor")
    BY <1>1, KindIs DEF Kinds
  <2> QED BY <1>1, <2>1, <2>2 DEF Asker
<1>4. n \notin resting
  BY DEF DInv, WInv, RestKnown
<1>5. ASSUME NEW i \in Places PROVE dispatcher.slots[i].number # n /\ dispatcher.slots[i].conductor # User
  <2>1. dispatcher.slots[i].number # n
    BY <1>1 DEF NoSlot
  <2>2. ASSUME dispatcher.slots[i].conductor = User PROVE FALSE
    <3>1. dispatcher.slots[i].number # 0
      BY <1>1, <2>2, SlotIs, UserApart
    <3>2. Is(World, User, "conductor")
      BY <1>1, <2>2, <3>1, RoutedBy, UserApart
    <3> QED BY <1>1, <3>2, KindIs DEF Kinds
  <2> QED BY <2>1, <2>2
<1> QED BY <1>2, <1>3, <1>4, <1>5

(* The user's task asks for a train. *)
LEMMA UserAsks ==
  ASSUME DInv, UserAt("idle"), NEW n \in Numbers, NoSlot(World, n),
         NEW v, Shape(v), v.disp = dispatcher, SameBut(World, v, {User}), User \in DOMAIN v.tasks,
         v.tasks[User].kind = "user", v.tasks[User] \in UserTask,
         v.tasks[User].at \in {"adding", "added"}, v.tasks[User].number = n
  PROVE  /\ WInv(v, User, resting) /\ (v.tasks[User].at = "added" => WInv(v, NOTASK, resting))
         /\ Listens(v, ToSet(anyone), answer) /\ NoSlot(v, n)
         /\ \A u : Is(v, u, "creator") <=> Is(World, u, "creator")
         /\ \A u : Is(v, u, "creator") => v.tasks[u] = tasks[u]
         /\ v.tasks[User].at = "adding" => Asker(v, User, n)
<1>1. /\ World.disp = dispatcher /\ World.tasks = tasks /\ WType(World) /\ tasks[User].at = "idle"
      /\ tasks[User].kind = "user"
  BY WorldIs, TasksAre DEF DInv, WInv, WType, UserAt
<1>2. /\ WInv(World, User, resting) /\ n \in Numbers \ resting
      /\ \A u : Is(World, u, "creator") => World.tasks[u].callee # User
      /\ \A i \in Places : /\ World.disp.slots[i].number = n => World.disp.slots[i].conductor \in {User, NOTASK}
                           /\ World.disp.slots[i].conductor = User => World.disp.slots[i].number = n
      /\ v.disp = World.disp
  BY <1>1, UnknownTrain, WaitsApart DEF DInv
<1>3. WInv(v, User, resting) /\ (v.tasks[User].at = "added" => WInv(v, NOTASK, resting))
  BY <1>2, UserKeeps
<1>4. NoSlot(v, n)
  BY <1>1 DEF NoSlot
<1>5. /\ \A u : Is(v, u, "creator") <=> Is(World, u, "creator")
      /\ \A u : Is(v, u, "creator") => v.tasks[u] = tasks[u]
  BY <1>1 DEF Is, SameBut
<1>6. Listens(v, ToSet(anyone), answer)
  <2>1. User \notin ToSet(anyone)
    BY <1>1, NotListening DEF DInv
  <2>2. \A t \in ToSet(anyone) : /\ t \in DOMAIN v.tasks <=> t \in DOMAIN World.tasks
                                 /\ t \in DOMAIN World.tasks => v.tasks[t] = World.tasks[t]
    BY <2>1 DEF SameBut
  <2>3. \A m : (NoSlot(v, m) => NoSlot(World, m)) /\ ~UserAdds(World, m)
    BY <1>1 DEF NoSlot, UserAdds
  <2> QED BY <2>2, <2>3, ListensKept DEF DInv
<1>7. v.tasks[User].at = "adding" => Asker(v, User, n)
  BY DEF Asker
<1> QED BY <1>3, <1>4, <1>5, <1>6, <1>7

(* A courier that adds the train already makes place for another. *)
LEMMA ForgetListens ==
  ASSUME NEW w, NEW A, NEW a, Listens(w, A, a), NEW n \in Numbers, UserAdds(w, n), Stale(w, A, n) = {},
         NEW k \in Pool[<<"creator", n>>], User # k, NEW v, SameBut(w, v, {k}), k \notin DOMAIN v.tasks,
         User \in DOMAIN w.tasks,
         \A i \in Places : v.disp.slots[i].number = w.disp.slots[i].number
  PROVE  Listens(v, A, a)
<1>1. v.tasks[User] = w.tasks[User]
  BY DEF SameBut
<1>2. \A m : (NoSlot(v, m) <=> NoSlot(w, m)) /\ (UserAdds(v, m) <=> UserAdds(w, m))
  BY <1>1 DEF NoSlot, UserAdds
<1>3. \A m \in Numbers : m # n => Stale(v, A, m) = Stale(w, A, m)
  <2> SUFFICES ASSUME NEW m \in Numbers, m # n PROVE Stale(v, A, m) = Stale(w, A, m)
    OBVIOUS
  <2>1. k \notin Pool[<<"creator", m>>]
    BY PoolsApart DEF Kinds
  <2> QED BY <2>1 DEF Stale, SameBut
<1>4. Stale(v, A, n) \subseteq {k}
  BY DEF Stale, SameBut
<1>5. \A m \in Numbers : \A s, t \in Stale(v, A, m) : s = t
  BY <1>3, <1>4 DEF Listens
<1>6. \A m \in Numbers : Stale(v, A, m) # {} => ~NoSlot(v, m) \/ UserAdds(v, m)
  BY <1>2, <1>3 DEF Listens
<1>7. \A t \in A : t \in DOMAIN v.tasks => Is(v, t, "creator") /\ v.tasks[t].at = "listening" /\ a[t] = NONE
  BY DEF Listens, SameBut, Is
<1> QED BY <1>5, <1>6, <1>7 DEF Listens

LEMMA AddStep ==
  ASSUME Careful, TrainsFit, DInv, NEW n \in Numbers, NEW sensor \in Placed \cup {NOTASK}, Add(n, sensor),
         UNCHANGED serverVars, UNCHANGED resting, fuel' \in 0 .. Commands
  PROVE  DInv'
<1> DEFINE w == [World EXCEPT !.tasks[User].at = "adding", !.tasks[User].number = n]
           v == AddNode(w, n, sensor, User)
<1>1. /\ World.disp = dispatcher /\ World.tasks = tasks /\ Shape(World) /\ WType(World) /\ SlotsInv(World)
      /\ User \in DOMAIN tasks /\ tasks[User] \in UserTask /\ UserAt("idle") /\ Becomes(v)
      /\ n # NOTASK /\ User # NOTASK
  BY WorldIs, TasksAre, UserApart DEF DInv, WInv, WType, Add
<1>2. NoSlot(World, n) /\ \A i \in Queue(World) : dispatcher.queue[i].number # n
  BY <1>1, NodeIs DEF Add, Queue, Careful
<1>3. sensor \in SensorIds \cup {NOTASK}
  BY ConductorAssumption
<1>4. /\ Shape(w) /\ w.disp = dispatcher /\ SameBut(World, w, {User}) /\ User \in DOMAIN w.tasks
      /\ w.tasks[User] = [tasks[User] EXCEPT !.at = "adding", !.number = n]
  BY <1>1 DEF Shape, SameBut
<1> HIDE DEF w
<1>5. /\ w.tasks[User].kind = "user" /\ w.tasks[User] \in UserTask
      /\ w.tasks[User].at = "adding" /\ w.tasks[User].number = n
  BY <1>1, <1>4 DEF UserTask
<1>6. /\ WInv(w, User, resting) /\ Listens(w, ToSet(anyone), answer) /\ NoSlot(w, n)
      /\ \A u : Is(w, u, "creator") <=> Is(World, u, "creator")
      /\ \A u : Is(w, u, "creator") => w.tasks[u] = tasks[u]
      /\ Asker(w, User, n)
  <2>1. Shape(w) /\ w.disp = dispatcher /\ SameBut(World, w, {User}) /\ User \in DOMAIN w.tasks
    BY <1>4
  <2>2. UserAt("idle") /\ NoSlot(World, n)
    BY <1>1, <1>2
  <2> QED BY <1>5, <2>1, <2>2, UserAsks
<1>7. \A u : Is(World, u, "creator") /\ tasks[u].number = n =>
             tasks[u].at \in Adding /\ u = dispatcher.creating /\ n = dispatcher.waiting
  BY <1>1, <1>2, UnknownTrain
<1>8. CASE dispatcher.waiting = NOTASK
  <2>1. \A u : Is(w, u, "creator") => w.tasks[u].number # n
    BY <1>1, <1>6, <1>7, <1>8
  <2>2. w.disp.waiting = NOTASK /\ \A i \in Queue(w) : w.disp.queue[i].number # n
    BY <1>1, <1>2, <1>4, <1>8 DEF Queue
  <2>3. WInv(v, NOTASK, resting) /\ Listens(v, ToSet(anyone), answer) /\ v.disp.waiting # NOTASK
    BY <1>3, <1>6, <2>1, <2>2, StartsNew
  <2> HIDE DEF v
  <2> QED BY <1>1, <2>3, StaysDInv DEF DInv
<1>9. CASE dispatcher.waiting \notin {n, NOTASK}
  <2> DEFINE r == Reply(w, User, OK)
  <2>1. v = [r EXCEPT !.disp.queue = Append(@, [number |-> n, callee |-> NOTASK])]
    BY <1>4, <1>9 DEF AddNode
  <2>2. Shape(r) /\ r.disp = dispatcher /\ SameBut(w, r, {User}) /\ User \in DOMAIN r.tasks
    BY <1>4, ReplyIs
  <2>3. r.tasks[User] = Resumed(w.tasks[User], OK)
    BY <1>4 DEF Reply, Shape
  <2>4. OK # NOTASK
    BY UserApart DEF OK
  <2> HIDE DEF r
  <2>5. /\ r.tasks[User].kind = "user" /\ r.tasks[User] \in UserTask
        /\ r.tasks[User].at = "added" /\ r.tasks[User].number = n
    BY <1>5, <2>3, <2>4, ResumedUser
  <2>6. SameBut(World, r, {User})
    BY <1>4, <2>2 DEF SameBut
  <2>7. /\ WInv(r, NOTASK, resting) /\ Listens(r, ToSet(anyone), answer) /\ NoSlot(r, n)
        /\ \A u : Is(r, u, "creator") <=> Is(World, u, "creator")
        /\ \A u : Is(r, u, "creator") => r.tasks[u] = tasks[u]
    BY <1>1, <1>2, <2>2, <2>5, <2>6, UserAsks
  <2>8. /\ Shape(v) /\ v.tasks = r.tasks
        /\ v.disp.slots = r.disp.slots /\ v.disp.count = r.disp.count
        /\ v.disp.waiting = r.disp.waiting /\ v.disp.creating = r.disp.creating
        /\ v.disp.queue = Append(r.disp.queue, [number |-> n, callee |-> NOTASK])
    BY <2>1, <2>2, ZenonT(40) DEF Shape
  <2> HIDE DEF v
  <2>9. /\ \A u : Is(r, u, "creator") => r.tasks[u].number # n
        /\ \A i \in Queue(r) : r.disp.queue[i].number # n
        /\ r.disp.waiting # n
    BY <1>1, <1>2, <1>7, <1>9, <2>2, <2>7 DEF Queue
  <2>10. WInv(v, NOTASK, resting)
    BY <2>7, <2>8, <2>9, EnqueueKeeps
  <2>11. Listens(v, ToSet(anyone), answer)
    BY <2>7, <2>8, ListensKept DEF NoSlot, UserAdds
  <2>12. v.disp.waiting # NOTASK
    BY <1>9, <2>2, <2>8
  <2> QED BY <1>1, <2>10, <2>11, <2>12, StaysDInv DEF DInv
<1>10. CASE dispatcher.waiting = n
  <2> DEFINE k == dispatcher.creating
             d == Destroy(w, k)
             g == [d EXCEPT !.disp.waiting = NOTASK, !.disp.creating = NOTASK]
  <2>1. Is(World, k, "creator") /\ tasks[k].number = n /\ tasks[k].at \in Adding
    BY <1>1, <1>10 DEF DInv, WInv, OneAdds
  <2>2. k # NOTASK /\ k # User /\ k \in Pool[<<"creator", n>>]
    BY <1>1, <2>1, KindIs DEF Kinds
  <2>3. tasks[k].at \in {"seeking", "listening"}
    BY <1>1, <2>1, NoneIsDone DEF UserAt
  <2>4. tasks[k].callee = NOTASK
    <3> SUFFICES ASSUME tasks[k].callee # NOTASK PROVE FALSE
      OBVIOUS
    <3>1. Asker(World, tasks[k].callee, n)
      BY <1>1, <2>1 DEF DInv, WInv, CreatorsAsk
    <3>2. Is(World, tasks[k].callee, "conductor") /\ tasks[tasks[k].callee].number = n
      BY <1>1, <3>1 DEF Asker, UserAt
    <3> QED BY <1>1, <1>2, <3>2 DEF DInv, WInv, ConductorsKnown, NoSlot
  <2>5. v = StartCreator(d, n, sensor, User)
    BY <1>1, <1>4, <1>10, <2>2 DEF AddNode
  <2>6. Shape(d) /\ d.disp = dispatcher /\ SameBut(w, d, {k}) /\ k \notin DOMAIN d.tasks
    BY <1>4, DestroyIs
  <2> HIDE DEF d, k, v
  <2>7. /\ Shape(g) /\ g.tasks = d.tasks /\ g.disp.slots = dispatcher.slots /\ g.disp.count = dispatcher.count
        /\ g.disp.queue = dispatcher.queue /\ g.disp.waiting = NOTASK /\ g.disp.creating = NOTASK
    BY <2>6 DEF Shape
  <2> HIDE DEF g
  <2>8. SameBut(w, g, {k}) /\ k \notin DOMAIN g.tasks /\ SameBut(g, d, {})
    BY <2>6, <2>7 DEF SameBut
  <2>9. Is(w, k, "creator") /\ w.tasks[k] = tasks[k]
    BY <1>6, <2>1
  <2>10. /\ WInv(g, User, resting)
         /\ \A u : Is(g, u, "creator") => g.tasks[u].number # n
    <3>1. /\ w.tasks[k].at \in {"seeking", "listening"} /\ w.tasks[k].callee = NOTASK /\ w.tasks[k].number = n
          /\ g.disp.slots = w.disp.slots /\ g.disp.count = w.disp.count /\ g.disp.queue = w.disp.queue
      BY <1>4, <2>1, <2>3, <2>4, <2>7, <2>9
    <3> QED BY <1>6, <2>7, <2>8, <2>9, <3>1, ForgetKeeps
  <2>11. Listens(g, ToSet(anyone), answer)
    <3>1. Stale(w, ToSet(anyone), n) = {}
      <4>1. ~UserAdds(World, n)
        BY <1>1 DEF UserAdds, UserAt
      <4>2. Stale(World, ToSet(anyone), n) = {}
        BY <1>2, <4>1 DEF DInv, Listens
      <4>3. User \notin Pool[<<"creator", n>>]
        BY PoolIs DEF Kinds
      <4> QED BY <1>4, <4>2, <4>3 DEF Stale, SameBut
    <3>2. UserAdds(w, n) /\ User \in DOMAIN w.tasks
      BY <1>4, <1>5 DEF UserAdds
    <3>3. \A i \in Places : g.disp.slots[i].number = w.disp.slots[i].number
      BY <1>4, <2>7
    <3> QED BY <1>6, <2>2, <2>8, <3>1, <3>2, <3>3, ForgetListens
  <2>12. NoSlot(g, n) /\ \A i \in Queue(g) : g.disp.queue[i].number # n
    BY <1>1, <1>2, <2>7 DEF NoSlot, Queue
  <2>13. Asker(g, User, n)
    BY <1>4, <1>5, <2>2, <2>8 DEF Asker, SameBut
  <2>14. d.disp.slots = g.disp.slots /\ d.disp.count = g.disp.count /\ d.disp.queue = g.disp.queue
    BY <2>6, <2>7
  <2>15. WInv(v, NOTASK, resting) /\ Listens(v, ToSet(anyone), answer) /\ v.disp.waiting = n
    BY <1>3, <2>5, <2>6, <2>7, <2>8, <2>10, <2>11, <2>12, <2>13, <2>14, StartNewKeeps
  <2> QED BY <1>1, <2>15, StaysDInv DEF DInv
<1> QED BY <1>8, <1>9, <1>10
-----------------------------------------------------------------------------
LEMMA ConductorSteps ==
  ASSUME TrainsFit, DInv, NEW c \in Conductors, UNCHANGED fuel,
         ConductorStep(c) \/ Wakes(c) \/ \E r \in Results : TrainAnswers(c, r)
  PROVE  DInv'
<1>1. CASE Wakes(c)
  BY <1>1, WakesStep
<1>2. CASE \E r \in Results : TrainAnswers(c, r)
  BY <1>2, WorkSteps DEF TrainAnswers
<1>3. CASE ConductorStep(c)
  <2>1. Runs(7) /\ UNCHANGED serverVars
    BY <1>3 DEF ConductorStep
  <2>2. CASE Arrives(c)
    BY <2>1, <2>2, ArrivesStep
  <2>3. CASE (Plans(c) \/ TurnsTrain(c) \/ Drives(c) \/ Moves(c)) /\ UNCHANGED resting
    BY <2>1, <2>3, WorkSteps
  <2>4. CASE Deletes(c) /\ UNCHANGED resting
    BY <2>1, <2>4, DeletesStep
  <2>5. CASE AsksForTrain(c) /\ UNCHANGED resting
    BY <2>1, <2>5, AsksForTrainStep
  <2>6. CASE Leaves(c) /\ UNCHANGED resting
    BY <2>1, <2>6, LeavesStep
  <2> QED BY <1>3, <2>2, <2>3, <2>4, <2>5, <2>6 DEF ConductorStep
<1> QED BY <1>1, <1>2, <1>3

LEMMA CreatorSteps ==
  ASSUME TrainsFit, DInv, NEW t \in Creators, CreatorStep(t), UNCHANGED <<resting, fuel>>
  PROVE  DInv'
BY SeeksStep, HearsStep, LocatesStep, RegistersStep, FinishesStep DEF CreatorStep

LEMMA RequestStep ==
  ASSUME Careful, TrainsFit, DInv, Request
  PROVE  DInv'
<1>1. fuel' \in 0 .. Commands
  BY ConductorAssumption DEF Request, DInv
<1>2. CASE \E tr \in Numbers : Broadcasts(tr)
  BY <1>1, <1>2, BroadcastsStep DEF Request
<1>3. CASE (\E tr \in Numbers, sensor \in Placed \cup {NOTASK} : Add(tr, sensor)) /\ UNCHANGED resting
  BY <1>1, <1>3, AddStep DEF Request
<1>4. CASE (\E tr \in Numbers : Command(tr)) /\ UNCHANGED resting
  BY <1>1, <1>4, CommandStep DEF Request
<1> QED BY <1>2, <1>3, <1>4 DEF Request

LEMMA Steps ==
  ASSUME Careful, TrainsFit, DInv, [Next]_vars
  PROVE  DInv'
<1>1. CASE Request
  BY <1>1, RequestStep
<1>2. CASE UserGoesOn /\ UNCHANGED <<serverVars, resting, fuel>>
  BY <1>2, UserGoesOnStep
<1>3. CASE (\E tr \in Numbers : TransitRoutes(tr)) /\ UNCHANGED <<serverVars, fuel>>
  BY <1>3, TransitRoutesStep
<1>4. CASE (\E t \in Creators : CreatorStep(t)) /\ UNCHANGED <<resting, fuel>>
  BY <1>4, CreatorSteps
<1>5. CASE (\E t \in Conductors : ConductorStep(t) \/ Wakes(t)
              \/ \E r \in Results : TrainAnswers(t, r)) /\ UNCHANGED fuel
  BY <1>5, ConductorSteps
<1>6. CASE (\E s \in Awaited : TrainListens(s)) /\ UNCHANGED <<dispatcher, tasks, resting, fuel>>
  BY <1>6, TrainListensStep
<1>7. CASE (\E tripped \in SUBSET SensorIds : Poll(tripped)) /\ UNCHANGED <<dispatcher, tasks, resting, fuel>>
  BY <1>7, PollStep
<1>8. CASE UNCHANGED vars
  <2>1. Becomes(World) /\ UNCHANGED serverVars /\ resting' = resting /\ fuel' = fuel /\ World.disp = dispatcher
    BY <1>8 DEF vars, Becomes, World
  <2> QED BY <2>1, StaysDInv DEF DInv
<1> QED BY <1>1, <1>2, <1>3, <1>4, <1>5, <1>6, <1>7, <1>8 DEF Next

LEMMA Starts == Init => DInv
<1> SUFFICES ASSUME Init PROVE DInv
  OBVIOUS
<1>1. /\ World.disp = dispatcher /\ World.tasks = tasks /\ DOMAIN World = {"disp", "tasks"}
      /\ DOMAIN dispatcher = {"slots", "count", "waiting", "creating", "queue"}
      /\ dispatcher.slots = [i \in Places |-> EmptySlot] /\ dispatcher.count = 0
      /\ dispatcher.waiting = NOTASK /\ dispatcher.creating = NOTASK /\ dispatcher.queue = <<>>
      /\ DOMAIN tasks = {User} /\ tasks[User] = [kind |-> "user", at |-> "idle", number |-> 0]
      /\ resting = {}
  BY WorldIs DEF Init, NoTrains, Places
<1>2. \A i \in Places : /\ dispatcher.slots[i].train = NOTASK /\ dispatcher.slots[i].number = 0
                        /\ dispatcher.slots[i].conductor = 0
  BY <1>1 DEF EmptySlot
<1>3. /\ tasks[User].kind = "user" /\ tasks[User].at = "idle" /\ tasks[User].number = 0
      /\ tasks[User] \in UserTask
  BY <1>1 DEF UserTask
<1>4. \A t, k : k # "user" => ~Is(World, t, k)
  BY <1>1, <1>3 DEF Is
<1>5. Shape(World)
  BY <1>1 DEF Shape, AnySlot
<1>6. WType(World)
  <2>1. dispatcher.queue \in Seq(AnyEntry)
    BY <1>1
  <2>2. \A t \in DOMAIN World.tasks : IsTask(t, World.tasks[t])
    BY <1>1, <1>3 DEF IsTask
  <2> QED BY <1>1, <1>5, <2>1, <2>2 DEF WType
<1>7. SlotsInv(World)
  <2>1. Taken(World) = {}
    BY <1>1, <1>2 DEF Taken
  <2>2. World.disp.count = Cardinality(Taken(World))
    BY <1>1, <2>1, FS_EmptySet
  <2> QED BY <1>1, <1>2, <2>2 DEF SlotsInv
<1>8. Queue(World) = {}
  BY <1>1 DEF Queue
<1>9. WInv(World, NOTASK, resting)
  <2>1. OneAdds(World) /\ OneCreator(World)
    BY <1>1, <1>4 DEF OneAdds, OneCreator
  <2>2. SlotsHold(World) /\ TrainsGone(World) /\ TrainsHeld(World) /\ CreatorsHold(World)
    BY <1>1, <1>2, <1>4 DEF SlotsHold, TrainsGone, TrainsHeld, CreatorsHold
  <2>3. ConductorsKnown(World) /\ ConductorsLive(World)
    BY <1>1, <1>2, <1>4 DEF ConductorsKnown, ConductorsLive
  <2>4. QueueOnce(World) /\ QueueAsks(World) /\ CreatorsAsk(World)
    BY <1>4, <1>8 DEF QueueOnce, QueueAsks, CreatorsAsk
  <2>5. AskersKnown(World, NOTASK) /\ UserBusy(World, resting) /\ RestKnown(World, resting)
    BY <1>1, <1>3, <1>4 DEF AskersKnown, UserBusy, RestKnown
  <2> QED BY <1>6, <1>7, <2>1, <2>2, <2>3, <2>4, <2>5 DEF WInv
<1>10. /\ waiter = [s \in SensorIds |-> NOTASK] /\ anyone = <<>> /\ answer = [c \in Clients |-> NONE]
  BY DEF Init, ServerInit
<1>11. ServerInv
  <2>1. ServerOK
    BY <1>10 DEF ServerOK, Answers
  <2>2. \A t \in Tids : t \in Clients
    BY ConductorAssumption
  <2> QED BY <1>10, <2>1, <2>2 DEF ServerInv
<1>12. Listens(World, ToSet(anyone), answer)
  <2>1. ToSet(anyone) = {}
    BY <1>10 DEF ToSet
  <2> QED BY <2>1 DEF Listens, Stale
<1>13. fuel \in 0 .. Commands
  BY ConductorAssumption DEF Init
<1> QED BY <1>1, <1>9, <1>11, <1>12, <1>13 DEF DInv

(* The invariant holds, as long as the user is careful and there is a slot for every
   train. *)
LEMMA Invariant ==
  ASSUME Careful, TrainsFit
  PROVE  Spec => []DInv
<1>1. Init => DInv
  BY Starts
<1>2. DInv /\ [Next]_vars => DInv'
  BY Steps
<1> QED BY <1>1, <1>2, PTL DEF Spec
-----------------------------------------------------------------------------
LEMMA DispatchIs == DInv => DispatchOK
<1> SUFFICES ASSUME DInv PROVE DispatchOK
  OBVIOUS
<1>1. World.disp = dispatcher /\ World.tasks = tasks /\ Shape(World) /\ WType(World) /\ SlotsInv(World)
  BY WorldIs DEF DInv, WInv, WType
<1>2. dispatcher.slots \in [1 .. MaxTrains ->
        [train : Tids \cup {NOTASK}, number : Numbers, conductor : Tids \cup {User, NOTASK}] \cup {EmptySlot}]
  <2>1. \A n \in Numbers :
          ASlot(n) \subseteq [train : Tids \cup {NOTASK}, number : Numbers, conductor : Tids \cup {User, NOTASK}]
    <3> TAKE n \in Numbers
    <3>1. Pool[<<"train", n>>] \subseteq Tids /\ Pool[<<"conductor", n>>] \subseteq Tids
      BY PoolIs DEF Kinds
    <3> QED BY <3>1 DEF ASlot
  <2>2. AnySlot \subseteq
          [train : Tids \cup {NOTASK}, number : Numbers, conductor : Tids \cup {User, NOTASK}] \cup {EmptySlot}
    BY <2>1 DEF AnySlot
  <2> HIDE DEF AnySlot
  <2> QED BY <1>1, <2>2 DEF Shape, Places
<1>3. dispatcher.count = Cardinality({i \in 1 .. MaxTrains : dispatcher.slots[i].train # NOTASK})
  BY <1>1 DEF SlotsInv, Taken, Places
<1>4. ASSUME NEW n \in Numbers
      PROVE  Cardinality({i \in 1 .. MaxTrains : dispatcher.slots[i].number = n}) <= 1
  <2> DEFINE P == {i \in 1 .. MaxTrains : dispatcher.slots[i].number = n}
  <2>1. \A i, j \in P : i = j
    BY <1>1, OneSlot DEF Places
  <2> HIDE DEF P
  <2>2. CASE P = {}
    BY <2>2, FS_EmptySet DEF P
  <2>3. CASE P # {}
    <3>1. PICK i \in P : P = {i}
      BY <2>1, <2>3
    <3>2. Cardinality(P) = 1
      BY <3>1, FS_Singleton
    <3> QED BY <3>2 DEF P
  <2> QED BY <2>2, <2>3
<1>5. \A t \in DOMAIN tasks : tasks[t].kind \in {"train", "creator", "conductor", "user"}
  BY <1>1, TasksAre
<1>6. ServerOK /\ resting \subseteq Numbers /\ fuel \in 0 .. Commands
  BY DEF DInv, ServerInv, WInv, RestKnown
<1> QED BY <1>2, <1>3, <1>4, <1>5, <1>6 DEF DispatchOK

LEMMA CreatingIs == DInv => SomeoneIsCreating
<1> SUFFICES ASSUME DInv PROVE SomeoneIsCreating
  OBVIOUS
<1> DEFINE adding == {t \in Creators : tasks[t].at \notin {"created", "failed"}}
<1>1. World.disp = dispatcher /\ World.tasks = tasks /\ WType(World) /\ OneAdds(World)
  BY WorldIs DEF DInv, WInv
<1>2. \A t : t \in Creators <=> Is(World, t, "creator")
  BY DEF Creators, OfKind, Is
<1>3. \A t : t \in adding <=> Is(World, t, "creator") /\ tasks[t].at \in Adding
  <2>1. \A t \in Creators : tasks[t].at \in Adding \cup {"created"}
    BY <1>1, CreatorFacts, CreatorIs
  <2> QED BY <1>2, <2>1 DEF Adding
<1> HIDE DEF adding
<1>4. \A t \in adding : t = dispatcher.creating /\ tasks[t].number = dispatcher.waiting
  BY <1>1, <1>3 DEF OneAdds
<1>5. adding = IF dispatcher.waiting = NOTASK THEN {} ELSE {dispatcher.creating}
  <2>1. CASE dispatcher.waiting = NOTASK
    <3>1. \A t \in adding : tasks[t].number \in Numbers
      BY <1>2, <1>3, CreatorFacts
    <3> QED BY <1>4, <2>1, <3>1, UserApart
  <2>2. CASE dispatcher.waiting # NOTASK
    <3>1. dispatcher.creating \in adding
      BY <1>1, <1>3, <2>2 DEF OneAdds
    <3> QED BY <1>4, <2>2, <3>1
  <2> QED BY <2>1, <2>2
<1>6. dispatcher.queue # <<>> => dispatcher.waiting # NOTASK
  BY DEF DInv
<1>7. \A c \in DOMAIN tasks : tasks[c].at \in {"adding", "readding", "requitting"} =>
        \/ \E t \in Creators : tasks[t].callee = c
        \/ \E i \in DOMAIN dispatcher.queue : dispatcher.queue[i].callee = c
  <2>1. NOTASK \notin DOMAIN tasks
    BY <1>1, NobodyThere
  <2> QED BY <1>1, <1>2, <2>1 DEF DInv, WInv, AskersKnown, Queue
<1> QED BY <1>4, <1>5, <1>6, <1>7 DEF SomeoneIsCreating, adding

LEMMA OneTaskIs == DInv => OneTaskPerTrain
<1> SUFFICES ASSUME DInv, NEW s \in TrainTasks, NEW t \in TrainTasks, tasks[s].number = tasks[t].number
    PROVE  s = t
  BY DEF OneTaskPerTrain
<1> DEFINE n == tasks[s].number
<1>1. /\ World.disp = dispatcher /\ World.tasks = tasks /\ WType(World) /\ SlotsInv(World)
      /\ Is(World, s, "train") /\ Is(World, t, "train")
  BY WorldIs DEF DInv, WInv, TrainTasks, OfKind, Is
<1>2. n \in Numbers
  BY <1>1, KindIs DEF Kinds
<1> DEFINE InSlot(x) == \E i \in Places : dispatcher.slots[i].number = n /\ dispatcher.slots[i].train = x
           WithCourier(x) == \E u : /\ Is(World, u, "creator") /\ tasks[u].at = "creating" /\ tasks[u].train = x
                                    /\ tasks[u].number = n
<1>3. (InSlot(s) \/ WithCourier(s)) /\ (InSlot(t) \/ WithCourier(t))
  BY <1>1 DEF DInv, WInv, TrainsHeld
<1>4. InSlot(s) /\ InSlot(t) => s = t
  BY <1>1, <1>2, OneSlot
<1>5. WithCourier(s) /\ WithCourier(t) => s = t
  BY <1>1 DEF DInv, WInv, OneCreator
<1>6. ASSUME NEW x, NEW y, InSlot(x), WithCourier(y), x \in {s, t} PROVE FALSE
  <2>1. PICK i \in Places : dispatcher.slots[i].number = n /\ dispatcher.slots[i].train = x
    BY <1>6
  <2>2. x # NOTASK
    BY <1>1, <1>6, KindIs DEF Kinds
  <2>3. n = dispatcher.waiting
    BY <1>1, <1>6 DEF DInv, WInv, OneAdds, Adding
  <2> QED BY <1>1, <1>2, <2>1, <2>2, <2>3, UserApart DEF DInv, WInv, SlotsHold
<1> QED BY <1>3, <1>4, <1>5, <1>6

LEMMA BusyIs == DInv => BusyIsRouted
<1> SUFFICES ASSUME DInv PROVE BusyIsRouted
  OBVIOUS
<1>1. World.disp = dispatcher /\ World.tasks = tasks /\ WType(World)
  BY WorldIs DEF DInv, WInv
<1>2. \A s \in Slots : \E i \in Places : s = dispatcher.slots[i]
  BY DEF Slots, Places
<1>3. ASSUME NEW s \in Slots, s.conductor \notin {0, NOTASK}
      PROVE  /\ s.conductor \in DOMAIN tasks
             /\ tasks[s.conductor].number = s.number /\ tasks[s.conductor].at # "idle"
  <2>1. PICK i \in Places : s = dispatcher.slots[i]
    BY <1>2
  <2>2. /\ s.conductor \in DOMAIN tasks /\ tasks[s.conductor].number = s.number
        /\ \/ tasks[s.conductor].kind = "conductor"
           \/ s.conductor = User /\ tasks[User].at # "idle"
    BY <1>1, <1>3, <2>1 DEF DInv, WInv, ConductorsLive
  <2>3. tasks[s.conductor].kind = "conductor" => tasks[s.conductor].at # "idle"
    <3>1. tasks[s.conductor].kind = "conductor" =>
            /\ tasks[s.conductor].number \in Numbers
            /\ tasks[s.conductor] \in AConductor(tasks[s.conductor].number)
      BY <1>1, <2>2, TasksAre
    <3>2. tasks[s.conductor].kind = "conductor" => tasks[s.conductor].at \in ConductorAt
      BY <3>1, ConductorIs
    <3> QED BY <3>2 DEF ConductorAt, AtWork, Gone
  <2> QED BY <2>2, <2>3
<1>4. ASSUME NEW c \in Conductors PROVE \E s \in Slots : s.conductor = c
  <2>1. PICK i \in Places : dispatcher.slots[i].conductor = c
    BY ConductorFacts
  <2> QED BY <2>1 DEF Slots, Places
<1> QED BY <1>3, <1>4 DEF BusyIsRouted

LEMMA UnderstandIs == DInv => ConductorsUnderstand
<1> SUFFICES ASSUME DInv, NEW c \in Conductors PROVE tasks[c].at # "panic"
  BY DEF ConductorsUnderstand
<1>1. tasks[c].at \in ConductorAt
  BY ConductorFacts, ConductorIs
<1> QED BY <1>1 DEF ConductorAt, AtWork, Gone
-----------------------------------------------------------------------------
(* DispatchOK: as long as nobody adds a train that waits in the queue, routes one
   that is being added again or stops one that is routed, the dispatcher counts the
   trains that it has, a train has one slot (getDispatcherNode and addTrain agree on
   which), and its slots, queue and tasks keep their types.  Without those habits
   dispatcher.c:443 gives one train two slots. *)
THEOREM DispatchedRight ==
  ASSUME Careful, TrainsFit
  PROVE  Spec => []DispatchOK
BY Invariant, DispatchIs, PTL

(* SomeoneIsCreating: with the same habits, while a train waits there is one courier
   that adds it, the one that the ASSERT of TRM_CREATE_TRAIN expects; the queue is
   empty unless it will come; and whoever waits for its train is known to a courier
   or queued. *)
THEOREM CreatingRight ==
  ASSUME Careful, TrainsFit
  PROVE  Spec => []SomeoneIsCreating
BY Invariant, CreatingIs, PTL

(* OneTaskPerTrain: as long as nobody adds a train that waits in the queue, routes one
   that is being added again or stops one that is routed, a lost train, or one that
   is added while another is, is never driven by two tasks: the old one is deleted
   before a courier makes the new.  With AddsAgain a run refutes it. *)
THEOREM OneTask ==
  ASSUME Careful, TrainsFit
  PROVE  Spec => []OneTaskPerTrain
BY Invariant, OneTaskIs, PTL

(* BusyIsRouted: with the same habits, the conductor that a slot names is alive and
   routes this train, and every conductor is named by a slot: TRM_RELEASE_TRAIN and
   Delete come in an order that leaves no train busy with nobody, and no conductor
   unreachable. *)
THEOREM BusyRight ==
  ASSUME Careful, TrainsFit
  PROVE  Spec => []BusyIsRouted
BY Invariant, BusyIs, PTL

(* ConductorsUnderstand: with the same habits, a conductor reads an answer of
   TrGotoAfter that it knows ("This should never happen...", conductor.c:143).  It is
   false with Stops: dispatcher.c:457 answers 0. *)
THEOREM Understood ==
  ASSUME Careful, TrainsFit
  PROVE  Spec => []ConductorsUnderstand
BY Invariant, UnderstandIs, PTL
-----------------------------------------------------------------------------
(* Only couriers wait for one sensor. *)
OnlyCouriers ==
  /\ \A s \in SensorIds : waiter[s] \in {Courier, NOTASK}
  /\ DOMAIN answer = Clients

(* What AttributedElsewhere says of a step. *)
Attributed == \A t \in Tids : answer'[t] \notin {answer[t], NONE} => waiter[answer'[t][2]] = NOTASK

(* What a step does to the sensor server. *)
LEMMA ServerSteps ==
  ASSUME [Next]_vars
  PROVE  \/ UNCHANGED serverVars
         \/ \E t : WaitAny(t) \/ Use(t)
         \/ \E s \in Awaited : waiter[s] = NOTASK /\ Wait(Courier, s)
         \/ \E tripped \in SUBSET SensorIds : Returned(tripped)
<1>1. CASE Request \/ UNCHANGED vars
  BY <1>1 DEF Request, vars
<1>2. CASE \E t \in Creators : CreatorStep(t)
  BY <1>2 DEF CreatorStep, Seeks, Hears, Locates, Registers, Finishes
<1>3. CASE \E t \in Conductors : ConductorStep(t) \/ Wakes(t) \/ \E r \in Results : TrainAnswers(t, r)
  BY <1>3 DEF ConductorStep, Wakes, TrainAnswers
<1>4. CASE \E s \in Awaited : TrainListens(s)
  BY <1>4 DEF TrainListens
<1>5. CASE \E tripped \in SUBSET SensorIds : Poll(tripped)
  BY <1>5 DEF Poll
<1> QED BY <1>1, <1>2, <1>3, <1>4, <1>5 DEF Next

LEMMA AttributedSteps ==
  ASSUME OnlyCouriers, [Next]_vars
  PROVE  OnlyCouriers' /\ (Attributed \/ UNCHANGED answer)
<1>1. CASE UNCHANGED serverVars
  BY <1>1 DEF serverVars, OnlyCouriers
<1>2. CASE \E t : WaitAny(t) \/ Use(t)
  <2>1. PICK t : WaitAny(t) \/ Use(t)
    BY <1>2
  <2>2. waiter' = waiter /\ answer' = [answer EXCEPT ![t] = NONE]
    BY <2>1 DEF WaitAny, Use
  <2> QED BY <2>2 DEF OnlyCouriers, Attributed
<1>3. CASE \E s \in Awaited : waiter[s] = NOTASK /\ Wait(Courier, s)
  <2>1. PICK s \in Awaited : waiter' = [waiter EXCEPT ![s] = Courier] /\ answer' = answer
    BY <1>3 DEF Wait
  <2> QED BY <2>1 DEF OnlyCouriers
<1>4. CASE \E tripped \in SUBSET SensorIds : Returned(tripped)
  <2>1. PICK tripped \in SUBSET SensorIds : Returned(tripped)
    BY <1>4
  <2> DEFINE free == Unawaited(tripped)
  <2>2. /\ answer' = [c \in Clients |->
             IF \E s \in tripped : waiter[s] = c THEN SENSOR_TRIP
             ELSE IF free # {} /\ c \in ToSet(anyone) THEN ThatSensor(Min(free))
             ELSE answer[c]]
        /\ waiter' = [s \in SensorIds |-> IF s \in tripped THEN NOTASK ELSE waiter[s]]
    BY <2>1 DEF Returned
  <2>3. free \subseteq Nat /\ \A s \in free : waiter[s] = NOTASK
    BY SensorAssumption DEF Unawaited
  <2> HIDE DEF free
  <2>4. free # {} => waiter[Min(free)] = NOTASK
    BY <2>3, MinIs
  <2>5. OnlyCouriers'
    BY <2>2 DEF OnlyCouriers
  <2>6. ASSUME NEW t \in Tids, answer'[t] \notin {answer[t], NONE} PROVE waiter[answer'[t][2]] = NOTASK
    <3>1. t \in Clients /\ t # Courier /\ t # NOTASK
      BY ConductorAssumption, UserApart
    <3>2. answer'[t] = ThatSensor(Min(free)) /\ free # {}
      BY <2>2, <2>6, <3>1 DEF OnlyCouriers
    <3>3. answer'[t][2] = Min(free)
      BY <3>2 DEF ThatSensor
    <3> QED BY <2>4, <3>2, <3>3
  <2> QED BY <2>5, <2>6 DEF Attributed
<1> QED BY <1>1, <1>2, <1>3, <1>4, ServerSteps

(* AttributedElsewhere: a sensor that wakes who waits for any of them is one that
   nobody waits for by itself when it is handed out, by whichever step of the
   server (docs/final/final.tex:193). *)
THEOREM AttributedRight == Spec => AttributedElsewhere
<1>1. Init => OnlyCouriers
  BY DEF Init, ServerInit, OnlyCouriers
<1>2. OnlyCouriers /\ [Next]_vars => OnlyCouriers' /\ [Attributed]_answer
  BY AttributedSteps
<1> QED BY <1>1, <1>2, PTL DEF Spec, AttributedElsewhere, Attributed
=============================================================================
