# A formal model of the microkernel and its servers

TLA+ specifications of the CS452 microkernel (`src/src`, `src/include`), the TLC
runs that check them on small instances, and the theorems about them that TLAPS
has checked for every instance. Paths are relative to the repository.

## The system

One address space on a TS-7200, one CPU. The **kernel** is not preemptible:
`kernel_main` picks a task, runs it until it traps (a system call or an
interrupt), handles the request to its end, and picks again. Everything else is
a **user task**, and user tasks share nothing by convention: they exchange
messages with `Send` / `Receive` / `Reply`. So all concurrency is the order in
which tasks trap, and every step of the models is one kernel entry or one
message handled by a server.

### Inventory

| Component | Source | State | Operations | What makes it correct |
|---|---|---|---|---|
| Scheduler | `task.c` | 16 ready queues threaded through `next`, bitmask, cached highest priority, `currentTask` | `addTask`, `schedule`, `findHighestTaskPriority`, unlinking in `destroyTaskD` | queues, mask and cache agree; the highest priority runs; equal priorities take turns |
| Task descriptors | `task.c`, `mem.c`, `k_syscall.c` | 64 descriptors, bank of free ones, tid (13 bits), parent, wait queue, 64 stacks | `Create`, `Exit`, `Destroy`, `WaitTid`, `MyTid`, `MyParentTid`, `Pass` | nothing lost or used twice; a tid never finds the descriptor's next task; every waiter returns |
| Message passing | `k_syscall.c`, `task.c` | 64 envelopes: free, in an inbox, or in an outbox | `Send`, `Receive`, `Reply` | received once, in order; every sender answered or told; no envelope owned twice; no receiver asleep beside a message |
| Events | `interrupt.c` | one waiting task per interrupt | `AwaitEvent`, `handleInterrupt` | an event wakes who waits for it; a missed clock tick stops the kernel |
| Clock server | `servers/clock.c` | tick count, sorted list of 32 sleeping tasks | `Delay`, `DelayUntil`, `Time`, notifier | nobody woken early, nobody late, nobody lost |
| Name server | `servers/server.c`, `hash.c` | hash table of 512 names | `RegisterAs`, `WhoIs`, delete by owner | a name leads to its owner; a collision panics |
| UART servers | `servers/uart.c` | rings of bytes to send and read, one waiting reader, transmit/CTS state | `Putcn`, `Getcn`, `Getc`, three notifiers per UART | bytes in order, none lost, at most one reader, no byte sent before CTS |
| Sensor server | `servers/sensor_server.c` | the last poll of 80 sensors, one waiter per sensor, a queue of waiters for any | slave that polls, `WaitOnSensor`, `WaitAnySensor`, `FreeSensor` | a trip wakes the sensor's waiter, once; a second waiter is refused and knows it |
| Track reservation | `train/track_reservation.c` | owner of every track node | reserve, release, who holds | a node and its reverse have one owner; all or nothing |
| Dispatcher | `train/dispatcher.c` | trains, reservations, queued requests | add/remove trains, reserve/release track, move, halt | all-or-nothing reservation, conflicts reported, delegation to couriers |
| Conductor | `train/conductor.c` | a path and the legs left | route a train over a path, one per move | stops when told, reports to its parent |
| Train task | `train/train_task.c` | position, speed, next sensor, reserved ring, courier tids | speed, stop, move, sensor and timeout couriers, collision checks | holds what it runs on, releases what it left, one pair of couriers alive |
| Path finding | `path.c`, `track_node.c` | a heap and the track graph | `findPath` | a shortest path along edges that exist |
| Transit | `tasks/transit.c` | stations, pedestrians, trains on errands | spawn, pick up, drop off, destroy | passengers conserved |
| Train commands | `tasks/traincom.c`, `train.c` | switch states, speeds | commands to the controller | one command at a time |
| Shell, UI, demos, games | `tasks/shell.c`, `ui/*`, `tasks/rps.c`, `tasks/sl.c`, `tasks/demo.c` | screens, counters | command parsing, drawing | none that matters to the rest |
| Libraries | `string.c`, `stdlib.c`, `stdio.c`, `random.c`, `util.c` | none | formatting, conversion | pure functions |
| Kernel log, idle time | `logger.c`, `idle.c` | a cursor; timers | append, measure | none a model reaches |

Interactions: system calls from every task to the kernel; interrupts from the
devices to the kernel; messages between tasks. Notifiers carry events to their
servers, couriers carry a blocking call's answer back to the task that cannot
block. The servers trust the kernel's promise (`Ipc`) and nothing else.

Hard behaviour, component by component, is listed with its line under `hazards`
in `PROJECT.json`: descriptors reused while someone still points at them, one
envelope that plays three parts, four pieces of scheduler state kept by hand in
three places, tasks destroyed in any state, events that find nobody waiting,
edges of CTS that come before they are awaited.

## The modules

| Module | What it models | Uses |
|---|---|---|
| `ReadyQueue` | `task.c`: ready queues, mask, cached highest priority, dispatch, unlinking | |
| `Kernel` | `task.c`, `k_syscall.c`, `kernel.c`, `interrupt.c`, `mem.c` | `ReadyQueue` |
| `TidHistory` | `Kernel`, with a memory of the tids given away | `Kernel` |
| `Ipc` | what `Send`/`Receive`/`Reply` promise | |
| `Links` | lists threaded through their elements, read as sequences | |
| `MCKernel` | instances of `Kernel`; the mapping to `Ipc` | `TidHistory`, `Ipc`, `Links` |
| `Loops` | a loop as a function of what it starts from | |
| `ClockServer` | `servers/clock.c` and the timer interrupt | |
| `Alarm` | what the clock server promises | |
| `MCClock` | an instance of `ClockServer`; the mapping to `Alarm` | `ClockServer`, `Alarm` |
| `Ring` | `util.h`: the circular buffers | |
| `OutputServer` | `servers/uart.c`: `Putcn`, the server, `Uart1XMTHandler`; transmit and modem interrupts | `Ring` |
| `InputServer` | `servers/uart.c`: `Getc`, the server, `Uart1RCVHandler`; receive interrupt | `Ring` |
| `Com1` | both, with the sensor slave, tasks that send commands, and the controller | `OutputServer`, `InputServer` |
| `MCCom1` | an instance of `Com1` | `Com1` |
| `Track` | `track_node.c` and `trainSwitch`: nodes, edges, switches, the way ahead | |
| `TrackReservation` | `train/track_reservation.c`: who has which node | `Track` |
| `PathFind` | `path.c`: the heap and `findPath`; what it promises | `TrackReservation` |
| `SensorServer` | `servers/sensor_server.c`: who waits for which sensor | |
| `TrainTask` | `train/train_task.c`: one train, its couriers, and the tasks of other trains | `PathFind`, `SensorServer` |
| `MCTrains` | an instance of `TrainTask`: a line with a branch | `TrainTask` |
| `Dispatcher` | `train/dispatcher.c`: trains, their tasks and conductors, the queue | `SensorServer` |
| `Conductor` | `train/conductor.c`, `TrainCreateCourier`, the user's task and the transit system as the dispatcher's clients | `Dispatcher` |
| `MCDispatch` | an instance of `Conductor`; a yard for `findPath` | `Conductor`, `PathFind` |
| `Transit` | `tasks/transit.c`: stations, passengers, trains on errands | `Loops` |
| `Facts` | lemmas: least and greatest naturals, induction over naturals, loops, counts in sequences, linked lists and queues | `Loops`, `Links` |
| `KernelProofs`, `ClockProofs`, `Com1Proofs`, `TrainProofs`, `ConductorProofs`, `TransitProofs` | the theorems, each about the module it is named for (`TrainProofs` about `TrainTask`) and what it extends | that module, `Facts` |
| `KernelIpcProofs` | that `Kernel` implements `Ipc` | `MCKernel`, `KernelProofs` |

### Kernel

A descriptor is a number (`Slots`), a pointer to one is a descriptor or `NULL`.
`sched` holds what `addTask`, `schedule` and the unlinking in `destroyTaskD`
touch; `mail` the envelopes with their three uses (free list, inbox, outbox),
with the very links the code shares between them. A system call is one action,
as the kernel is not preemptible; only `destroyTaskD` is several
(`BeginDestroy`, one `DrainInbox` per message, `FinishDestroy`), because each
message released wakes a task and the order is worth seeing. `pc` is the place
in `kernel_main`. When the code would use a null pointer or subtract a bit that
is not set, the model goes to `"corrupt"` and stops: `NeverCorrupt` says it
does not.

User programs are the most general client: the running task makes any call with
any argument. Five constants restrain it, so that a run can ask one question:
`Calls`, `DestroyStates` (in which states a child may be destroyed), `WaitOnce`
(a task is waited for by one task, and its descriptor not used again),
`Creators`, `MaxTasks`.

The invariants come in three groups. `DescriptorsSound` (`ReadyQueuesSound`,
`BankSound`, `EventsSound`): queues, mask, bank and interrupt table agree with
the state of each task. `MailSound` (`EnvelopesSound`, `InboxesSound`,
`BlockedTasksHoldTheirEnvelope`): each envelope has one use, and a blocked task
has the one it waits for. What a client sees: `NoSleepingReceiver`,
`RunsHighest`, `TidsFindTheirTask`.

Couriers, parents and servers keep tids of tasks that are gone, and what such a tid
finds depends on who had the descriptor before. A kernel that never looks back cannot
say so; `TidHistory` remembers which tids each descriptor's earlier tasks had (`past`,
which follows the kernel and never guides it), and `TidsFindTheirTask` says that none
of them leads to a later task until the tids of that descriptor begin again (in the
code after 128 tasks, when a stale tid does find another's task).

`Ipc` knows no envelopes: an inbox is a sequence of senders. `MCKernel` reads
one off the links (`InboxOf`: the sequence that `Followed` finds) and checks that every step of the kernel is a step
of `Ipc` or leaves it alone.

### Clock server

`queue` is the sorted list from the head, each node with its tid and the tick;
`bank` counts the free nodes. The server's loop is several steps, so that the
notifier and the clients may run in between: receive a request, answer the notifier,
count the tick, wake one sleeper, end the tick. The server answers before it counts
(`clock.c:117-120`), so the next interrupt, and the notifier's next message, may come
before the tick is counted. Ticks are words (`Word`, 2^32 in the code): sums wrap.
`wish` remembers what a client asked for and `fired` how many interrupts came;
nothing in the model reads them.

`Alarm` has a set of sleepers and a clock that may not advance while someone is
overdue. The mapping takes the count of ticks and the set of queued nodes.

### COM1

The OutputServer answers its handler at two points, when the handler asks and
the ring has a byte, and when a Write finds the handler waiting. The handler
waits for the transmit interrupt, looks at CTS, perhaps waits for it, asks,
writes the byte, looks at CTS again, perhaps waits for it to drop. An interrupt
nobody waits for is masked, and CTS changes stay latched. `Shift` and the
controller (`Arrive`, `DropCts`, `RaiseCts`, `Answer`) are external.

The InputServer answers its handler *before* it copies the byte from the
handler's own variable, so that is two steps (`AnswerHandler`, `Copy`).

The output handler reads CTS and then awaits its change, in two steps
(`uart.c:156-157`, `173-174`): the line may change in between, and the change stays
latched for the next await. `slow` is chosen at the start. If it holds, the controller
drops CTS for a byte only after the handler has read it as still high, and raises it
only after the handler has read it as low: "we are beating the train controller in the
race by miles" (`servers/uart.c:152`). The change may still come before the handler
awaits it, or after. If it does not hold, all the races the comment speaks of happen.
Bytes from the controller come at any time on either line.

The properties say which of the two they need. The output is loss-free and never
gets stuck on either line. That the controller is never overrun, and that polls and
answers stay in step, holds on the slow line only: on the other TLC shows a byte written
on a stale CTS edge, which the code's comment concedes, and a poll written so is not
answered. `FirstUnreturned` needs neither: it says exactly what `Getc` returns, the race
between `Reply` and the copy (`uart.c:337`) included. `late` remembers the bytes that the
receive handler stored in that window; each of them is read twice, in the place of
the byte before it too, and everything else once and in order.

### Track, reservations and paths

`Track` is the graph: `Twin` is a node's reverse, `Straight` and `Curved` its
edges, all constants; `switches` is the one variable. `owner` is
`reservedBy` of every node. `cmpAndSwapResvBy` moves a node and its reverse
together, one at a time, and `reserveTrackDist` goes on until one fails:
`Swappable` is how many nodes of a row it gets, `Swapped` the owners then.
Every edge has length one.

`PathFind` computes as `findPath` does: two starts (ahead, or turned round), a
binary heap, `addNode`, no way through a node another train has or an exit, a
path along predecessors. The loops of the heap and of the search are `Loop`s: a
body for each round, and a start.
`Reached` defines independently what can be reached at which cost, by layers, and
`FindsShortest` compares the two for every start and end.

### Sensor server

`waiter` is `sensorQueue`, `anyone` is `waitAnyQueue`. `answer` is what a client
was replied and has not used yet; it stands for the reply on its way, as the
server's priority is above its clients'. `SENSOR_RETURNED` becomes `Returned` of
the set of sensors that went from off to on.

### Train task

One train is modelled as its task is written, and the other trains by what
their tasks may do to what they share with it: take and free track, set
switches on track this train does not have, wait for sensors in track they
have, and let them go. A handler of the code is several steps; `pc` says where
it is, and `by` what it is doing it for. Others run only when the train is idle
or gone, and between its calls of the dispatcher that free track, look for a way back
to its path (`FindsWay`) and reserve it (`Detour`), and reserve what it wants
(`Reserve`): there the task blocks and another train can come before it (`OthersRun`).

What the code computes from clocks and measured tables is a choice: whether the
train has come to the end of its edge, how much track it asks for (`Wants`, at
least what leads to the next sensor: `Enough`), whether its path ends, whether
it has stopped. `ring` is the row of reserved nodes; `courier` the present sensor
courier, with the sensor it was sent to; `reverser`, `shortMove` and `timer` the
other couriers; `conductor` what the conductor is doing with the train. `fuel` is the
world's: how much more is asked of the train, how much more the others do, and whether
whoever drives the train stops it before it is sent on (`brakes`; `MaySend`).
`"panic"` is a failed `ASSERT`, `"hung"` the endless loop of `TRM_GOTO_AFTER`,
`"corrupt"` a read of the conductor's stack when the conductor is gone; the
train does nothing more then, as nothing the code does can be relied on.

### Dispatcher and conductors

A request to the dispatcher is one step. `dispatcher` has its locals: the slots,
their number, `waitingTrain`, the courier that creates it, the queue. `tasks` is
every living task that the dispatcher creates or answers, with the place in its
code. A handler of the dispatcher may go on as another (`Dequeued` calls
`AddNode` or `ReAdd`), so handlers are operators from one `World`, the pair of
both, to the next. `Reply` answers whatever call the task is blocked in
(`Resumed`): neither the kernel nor the dispatcher knows which, and that is what
`ConductorsUnderstand` is about. A tid of the dispatcher may be a dead task's;
new tasks have tids nothing refers to (`Fresh`), since the kernel gives a tid out
again only after 128 generations of its descriptor.

Tasks run by priority (`Runs`): couriers that create trains at 9, conductors at
7, trains at 6, the user's task at 5. What comes from outside (the end of a
delay, a poll of the sensors) comes at any time.

### Transit

`MrBonesWildRide` handles a request before anybody below it runs, so a request
is one step, together with the `DispatchRoute` it ends in. A station and a seat
have what the structs have, the counts beside the lists; `people` and `free` are
the count of pedestrians that may be taken and how many are in the free list,
which the code keeps apart. Where a new passenger goes is a choice; the order of
the lists and the weights are kept, since `findOptimalNextStation` depends on
them.

## The runs

| Run | Question | Bounds |
|---|---|---|
| `kernel_ipc` | are queues, envelopes, inboxes, descriptors and events consistent, and messages as `Ipc` promises? | 4 descriptors (first task, null task, two children), 2 priorities, 2 envelopes |
| `kernel_wait` | who runs, who is found by a tid, now and later, does a receiver sleep beside a message, with envelopes short? | 3 priorities, 1 envelope, tids wrap after 2 generations, `WaitOnce` |
| `kernel_destroy` (violation) | may a child be destroyed in any state? | `DestroyStates` is everything |
| `kernel_reuse` (violation) | may a descriptor that was waited for be used again? | without `WaitOnce` |
| `clock` | is everyone woken, on time, once; are nodes conserved? | 3 clients for 2 nodes, words of 8, 2 ticks |
| `com1` | is the line loss-free, in order but for the race at the receiver, in step, alive? | 2 polls of 2 answer bytes and a command of 2 bytes through rings of 2 |
| `trains` | does a train free what it leaves, and only that; are its couriers alive, one, and listening? | 14 nodes: a branch with a sensor before it and one on each way, 4 requests, 2 steps of another train |
| `trains_trip` (violation) | is every trip a train hears of a trip? | the same, more to ask for, 3 steps of the other train |
| `dispatch` | is every train added once, by one courier, and every caller answered; is a busy train routed; does a conductor get only answers it knows; are paths shortest? | 2 trains for 2 slots, 4 commands, nobody adds a train that is queued, routes a lost one or stops one on its way; a yard of 16 nodes |
| `dispatch_twice` (violation) | may a train that waits in the queue be added? | the same, with 3 slots and a user who adds it (`AddsAgain`) |
| `transit` | are passengers conserved, and is a train on its way where a station is marked? | 3 places, 3 trains for 2 seats, 3 pedestrians, 6 requests |
| `transit_done` (violation) | does the system rest only when its work is done? | the same |

Why these bounds: four descriptors are the least with two user tasks beside the
first, which a message queue with two senders needs (head, middle and tail of an
inbox or ready queue); one envelope for three tasks makes both `Send` and
`Receive` run out; two generations make tids wrap. Two nodes for three clients make the clock server
refuse one, two sleepers are a list with an order, and a word of 8 makes
`Delay(-1)` wrap. Two bytes in a ring make both a queue and a panic (the poll
and the command do not fit together), and two polls let one answer be confused
with the next.

In `trains`, four requests are enough to add a train, start it, and stop, turn,
reroute or delete it while it runs; a train passes two sensors on its way, so a
courier is handed on twice, and the sensor it comes to depends on the branch. Two steps of the other train are one thing done and
undone, or two sensors tripped; the refused courier of `trains_trip` needs a
third (reserve, wait, free). `Ground` is the track the trains meet on, the second
sensor of the straight way (in `trains_trip` also the branch). The train asks for two
pieces of track at a time (`Wants`), so that it may be granted one of them and have to
undo it. Both habits of who drives it are tried (`fuel.brakes`); one missed sensor
(`Missable`) makes a train be lost.
In `dispatch`, two trains are one that is added and one that queues, and four
commands are two trains added and routed; conductors lose, give up and add again
without a command. Five tids for a kind and train are never all referred to.
The yard has two ways round one half of its circle, a way out, places where
turning pays, and is tried with each pair of nodes taken. In `transit`, two
trains that share a seat make one be left alone, three pedestrians run out, and
six requests add the stations, the trains, the passengers and a removal or a
shutdown.

Every counter that would grow for ever has its bound in a guard
(`MaxTasks`, `MaxTicks`, `MaxPolls`, `MaxCommands`, `Requests`, `Chances`,
`Commands`), which is one reason why
`CHECK_DEADLOCK FALSE` is set; the others are that the kernel ends (`Terminate`)
and that a full ring or a missed tick stops the machine on purpose.

### Findings

Each of the five has a run that ends in it:

- `kernel_destroy`: destroying a task whose message has not been received frees
  an envelope that is still in an inbox (`task.c:221`).
- `kernel_reuse`: `waitQueue` is never reset: a later task in that descriptor
  wakes tasks that do not wait (`task.c:156`).
- `trains_trip`: a sensor courier that is refused reports all the same, and the
  train takes the report for a trip (`train_task.c:940`).
- `dispatch_twice`: a train that is added while another is being added is queued, and
  the user is told at once that there is no such train (`utasks.c:131-135`, `277-278`);
  if he adds it again it is queued twice, and gets two slots, two couriers and two
  tasks (`dispatcher.c:443`).
- `transit_done`: all trains rest with a passenger still on board
  (`transit.c:346`).

The passing kernel runs exclude the first two (`CleanDestroy`; `WaitOnce`, or no
`WaitTid`) and `dispatch` excludes the second add, the routing of a lost train and the
stop of a routed one (`AddsAgain`, `RoutesLost`, `Stops`), so they show that the rest
is right. `trains` and `transit` keep these behaviours:
their properties hold in spite of them. (A train that has panicked, hung or read
a stale path does nothing more.)

Modelling brought up more, which the runs keep out or pass by:

- The command that stops a route answers the conductor 0 in the middle of
  `TrGotoAfter`, which is no result it knows; it panics (`dispatcher.c:457`,
  `conductor.c:143`). With `Stops = TRUE` and `Commands = 3` TLC finds it as a violation
  of `ConductorsUnderstand`.
- A conductor that has lost its train deletes it and asks for a new one, and anybody may
  route the train meanwhile (`dispatcher.c:465-492`): that destroys the conductor, whose
  tid the dispatcher then still writes into the train's slot (`431-433`). With
  `RoutesLost = TRUE` TLC refutes `DispatchOK`, `OneTaskPerTrain`, `BusyIsRouted` and
  `ConductorsUnderstand`. Adding a train that has a slot ends in `TRM_REMOVE_TRAIN`
  (`dispatcher.c:243`, `413`), whose behaviour is undefined; the model does not add one.
- The InputServer answers its handler before it copies the byte from the handler's
  variable (`uart.c:330-340`). The handler has the higher priority, and if the next byte
  is there it stores it over the one that is to be copied: one is lost and the next
  read twice. `FirstUnreturned` says that this is all that goes wrong.
- `destroyTaskD` walks the wait queue along a link that `addTask` has just
  cleared, so one of two waiters is woken (`task.c:162`; `docs/k3/k3.tex:135`);
  `WaitOnce` keeps it out. Memory blocks run out one task before descriptors
  do, and `createTaskD` does not look (`task.c:96`; `docs/k4/k4.tex:241`); the
  runs have one block to spare.
- A train that turns reserves the end of its new edge, which it has already as the start
  of the old one, and then frees the head of its row, which is that node's reverse
  (`train_task.c:1054-1056`): the row then names a node that the train does not have, and
  that another may take. `NoLeak` with an equivalence in it is refuted by a train that is
  added and turned. `TRM_GOTO_AFTER` loops for ever when the
  end of the edge is not in the row (`train_task.c:1425`); the path it keeps is
  in the stack of a conductor that may be gone (`train_task.c:1405`). In
  `TrainTask` these end in `"hung"`, `"panic"` or `"corrupt"`.
- A train that moves can be made deaf. `TRM_GOTO_AFTER` looks for the next sensor
  along the new path (`train_task.c:1402-1412`), and when the track is refused it gives up
  what it got and leaves its courier where it was (`train_task.c:1429-1436`): if the
  path takes the other way of a branch, the train then takes the trip of one sensor for
  that of another, or waits for one it does not come to. The conductor stops the train
  only if the path does not begin at the end of its edge (`conductor.c:112-117`), and a
  refused `TRM_SPEED` does the same. `docs/tc1/tc1.tex:111` has the courier "waiting on
  its expected next sensor", which is true of a train that is sent on only when it
  stands: `ListensAhead` asks for that (`fuel.brakes`, a choice of the initial state).
  Without the condition TLC finds the deaf train with `Wants = {1, 2}` and
  `Ground = {4}`.
- A ninth train leaves `waitingTrain` set, and every later one queues for ever
  (`dispatcher.c:357-359`); a lost train whose new courier is replaced is
  subtracted from the number of trains twice (`dispatcher.c:395-396`);
  `TRM_REMOVE_TRAIN` indexes with an argument nobody sets (`dispatcher.c:413`).
  `MaxTrains` and the guard of `Add` keep the first two out.
- The number of pedestrians is not increased when passengers get off, nor at a
  shutdown: after 30 there are none for ever (`EnoughPeople` is an inequality for
  that reason). A removed station stays where those on board want to go, and
  their train is sent there again and again. `checkNonBusyTrain` puts passengers
  on a train that is elsewhere and does not mark the station serviced, which is
  why `BusyTrainsCome` has no converse. When there is nowhere to go, one
  passenger is counted who is not there (`TransitOK` has an inequality for it).
  The user's command to add passengers has no code (`utasks.c:214-219`).

### Fairness

`Kernel`: `WF_vars(Next)`, since `kernel_main` never stops by itself and a task
traps at the latest on the next clock tick. No fairness between tasks is assumed;
`TopPriorityRuns` gets it from the FIFO ready queues. `ClockServer`: the server
and the notifier have the highest priority and therefore run; the timer ticks.
`Com1`: one `WF` for everything the machine, the UART and the controller can do
(`Goes`): as long as something can happen something does, but nothing is said
about which. What
tasks ask for (`PollSensors`, `SendCommand`) is never owed. `Conductor`: weak
fairness for each train's courier, which has priority 9, above everything else
that computes for long; strong fairness for polls in which a sensor trips that
nobody waits for. The latter is about the world: a train that is being looked for
moves, and comes in the end to a sensor that no other train expects. Nothing is
assumed of conductors, trains or users, so `AddsAreAnswered` holds whatever
they do. `TrainTask` and `Transit` state none: how far a train gets is a choice
in the one, and passengers may travel for ever in the other.

## The theorems

Each is about the `Spec` of its module, for every value of the constants that
satisfies the module's named assumptions; TLC evaluates the assumptions on each
run. They say that the constants are what they are in the code (finite tables,
numbers in their range, distinct names for distinct things) and little more:

- `SchedulerAssumption`, `KernelAssumption`: any number of descriptors, priorities,
  envelopes, blocks, events, generations, and any habits of the clients, the ones of
  the violation runs included. The theorems about the kernel's lists state one
  hypothesis more, `CleanHabits`: a child is destroyed only in the states
  that `destroyTaskD` clears up after, and with `WaitTid` among the calls a task is
  waited for once. These are the habits of `kernel_ipc` and `kernel_wait`;
  `kernel_destroy` and `kernel_reuse` show what becomes of the lists without them.
- `ClockAssumption`: any clients and nodes and any word; the ticks of a run do not
  wrap by themselves (sums do).
- `Com1Assumption`: any command without the poll's byte, rings of any size.
- `TrackAssumption`, `EdgeAssumption`: a finite track, every node with a reverse other
  than itself, only exits without a way on, only branches with two, every edge with
  one in the other direction; `OwnerAssumption`, `SensorAssumption`, `TrainAssumption`:
  names, speeds of at least one, and amounts of track that are natural numbers.
- `DispatcherAssumption`: any trains, and a pool of tids for each kind of task and train;
  the pools share nothing and have a tid left when two are taken, so that a new task
  has one that nothing refers to (in the code a tid comes back only after all its
  descriptor's others);
  `NOTASK` is no tid, as -1 is none. `ConductorAssumption` names the sensors that
  conductors wait for. The theorems about the dispatcher state two hypotheses more.
  `TrainsFit`: there are no more trains in use than slots, eight in the code; a ninth
  jams the queue (above, under what modelling brought up). `Careful`: nobody adds a train
  that waits in the queue, which `dispatch_twice` refutes them of, routes one that its
  conductor is adding again, or stops one that is being routed. `AttributedRight` needs
  neither.
- `TransitAssumption`: places are finitely many, a train's number is positive.

| Theorem | Says | Argument |
|---|---|---|
| `KernelProofs!TypeCorrect` | `TypeOK` | `TypeInv` adds that someone is running whenever a call can be made and that a destruction has a victim; one lemma per action |
| `NoSleepingReceiverCorrect` | no task is blocked in `Receive` beside a message | inductive with `TypeInv`; the point is that `Send` to a sleeping receiver never enqueues, also when no envelope was left for it |
| `TidsFindTheirTaskCorrect` | no tid of an earlier task of a descriptor finds a later one before its tids begin again; a live task is found by its own | `PastInv`: since its tids began, a descriptor's k-th task has had the tid that is its number plus k times `NumSlots`, so those before are other tids with the same residue; `TidResidues` keeps the residue when a tid wraps, since `TidRange` is a multiple; the arithmetic is proved from the division theorem |
| `KernelInvariant` and `DescriptorsSoundCorrect`, `MailSoundCorrect`, `RunsHighestCorrect`, `WaitersCanReturnCorrect` | the kernel's other invariants, with `CleanHabits` | `KernelInv`, below |
| `NeverCorruptCorrect` | no null pointer is followed and no clear bit cleared, if nobody destroys a dead tid and there are fewer tasks than memory blocks | each action's way to `"corrupt"` contradicts `KernelInv`: the victim is in its ready queue, a block is left, an envelope has a sender |
| `EnvelopesLastCorrect` | with an envelope for each descriptor (64 and 64 in the code) `sys_send` and `sys_recv` never run out | from `MailHolds`: no free envelope would mean that each is in another task's outbox; who runs has none, so two would be in one (pigeonhole) |
| `KernelIpcProofs!ImplementsIpcCorrect` | every step of the kernel is a step of `Ipc` or leaves it alone | from `KernelInv`: an inbox is one sequence, which `Send` lengthens and `Receive` and `destroyTaskD` shorten; no other inbox has the envelopes that change |
| `KernelProofs!RaiseHighest` | `addTask` keeps the cached priority the highest bit of the mask | a bounded set of naturals has a greatest element, so the `CHOOSE` in `HighestOf` has a witness |
| `ClockProofs!ClockInvariant` and `ClockTypeCorrect`, `NodesConservedCorrect`, `CountKeepsUpCorrect`, `OneAnswerEachCorrect` | the clock server's invariants | `ClockInv`, below |
| `ImplementsAlarmCorrect` | every step is a step of `Alarm` or leaves it alone | from `ClockInv`: `Sorted` and `NobodyOverdue` make "the head is not due" mean "nobody is" |
| `NobodyWokenEarlyCorrect` | nobody is answered before the tick asked for | `WishKept`: what is on its way or queued agrees with the wish. It needs that a run has at most half a word of ticks, 2^31 of 10 ms or 248 days: after that, a delay and the count may wrap together |
| `Com1Proofs!NothingLostCorrect`, `NoOverrunCorrect` | no byte is lost, doubled or reordered on the way out; on a slow line none comes before CTS | `OutInv`: the byte is in one place (`ByteInOnePlace`), the handler asks once (`AskedOnce`), and handler, UART and controller go round in step (`InBeat`) |
| `LineTypeCorrect`, `FirstUnreturnedCorrect`, `AnswersInStepCorrect` | ranges; on any line bytes are read in order, each once but for the race at the copy, which doubles exactly the byte that comes in the window; on a slow line no answer is taken for part of another | `Counts` (each poll is in one place and answered by so many bytes) and `InInv` (one message of a kind, a byte still to be copied is the handler's) on top of `OutInv`; `FirstInv` for the order; then one sum that no step changes |
| `TrainProofs!TrainInvariant` and `TrainOKCorrect` | types; a node and its reverse have one owner | `TrainInv`, `Remembered` and `SlotsInv`, below |
| `NeverTakenCorrect` | no step hands track from one train to another (an action property) | what `cmpAndSwapResvBy` does to each node of a row, by the invariant of its loop |
| `NoLeakCorrect` | between two messages all the train's track is in the row it will free | `Remembered` |
| `ListensAheadCorrect` | while a train runs that is sent on only when it stands, its courier waits for the sensor it comes to next | `AheadInv`, below |
| `SlotsAreLiveCorrect`, `WaitersKeepTheirPlaceCorrect` | a slot of the sensor server is a living courier's; who has no answer is the one its sensor wakes | `SlotsInv` |
| `ConductorProofs!DispatchedRight`, `CreatingRight`, `OneTask`, `BusyRight`, `Understood` | the dispatcher counts its trains and gives each one slot; somebody brings each train that is waited for; no train has two tasks; who routes a train lives; no conductor meets a status it does not know. All with `TrainsFit` and `Careful` | `DInv`, below |
| `AttributedRight` | whoever waits for any sensor gets one that nobody waits for by itself (an action property) | `OnlyCouriers`, and what each step does to the answers |
| `TransitProofs!TransitCorrect`, `EnoughPeopleCorrect`, `BusyTrainsComeCorrect` | types and conservation of pedestrians; the list never runs out; who is expected comes | `TransitInv`, below |

All of these properties are also checked by a run, except `RaiseHighest`, a lemma
about one operator, `EnvelopesLast`, which needs more envelopes than the runs have,
`WaitersCanReturn`, which is plain where a task is waited for once, and the inductive
invariants themselves.

**The kernel's lists.** `DescriptorsSound` and `MailSound` speak of what is met from the
heads. To prove that a step keeps them one must know that the links have no loops and
share nothing, so `KernelInv` says which sequences they are. `IsList` (from this head
the links meet exactly these elements, once each, and end) and `IsQueue` (and the tail
is the last) say so for the ready queues (`Queued`), the bank (`BankHolds`), each inbox
and the free envelopes (`MailHolds`). `FreeSound` and `HoldersSound`
give each envelope its one holder, `SendersSound` puts it in one inbox exactly as long as
its sender is `RECV_BL`. `TopRuns` and `OneActive` are who runs; `EventsHold` and
`WaitsHold` give each blocked task one waker. `Draining` is the middle of
`destroyTaskD`: the tail of the inbox it empties is stale in the end, which is harmless
as nobody can send to the victim, so only its last message is known (`LastOf`). `Facts`
has one lemma for each way the code changes a list (`ListPop`, `ListPush`, `QueueAppend`,
`QueuePop`, `QueueRemove`), and that a list is one sequence only (`LinkedUnique`), which
makes the inbox that `Ipc` sees well defined.

**The clock server.** `ClockTypeOK` and `NodesConserved` are not inductive. `ClockInv`
adds `Messages` (what is in the inbox is from who is blocked), `OncePerTask` (no task
twice in inbox and list together), `Accounted` (a client is blocked exactly when it is
in one of them), `TicksInStep` (interrupts, notifier and count, with the tick that is answered and not yet counted: `Counted`), `Sorted`,
`EarlyNotifier` and `NobodyOverdue`: outside the waking loop everyone in the list is
due later. That last part is what `Alarm` needs, and it fails in the middle of the
loop, which is why it mentions `pc`.

**The trains.** `TrainInv` holds types, `PairsAgree`, and that a train that has missed too
many sensors is already on its way to being lost. `NoLeak` speaks of the moments
between messages; `Remembered` says of every place in a handler where the nodes are
that are owned and not yet, or no longer, in the row. `SlotsInv` says of each sensor's
slot, each courier and each of its answers that they agree. The lemmas go operator by
operator (`Swapped`, `Push`, `PushGranted`, `PassPath`), with `LoopInvariant` for the
loops, and then action by action. `ListensAhead` speaks of the moments between messages
too, and of a train with a sensor ahead. `AheadInv` says for every place in a handler
that a train that moves has a speed (`Rolls`), that it turns only when it stands, and
that its courier, if it has one, is at the next sensor, except between a trip and
`waitOnNextTarget` (`Between`), where it has none or is lost. What the
proof comes down to is each step that changes the next sensor: it is
followed by a new courier, or leaves the train with speed 0 (`StandsAttended`). A
refused path does neither if the train moves, which is how the deaf train above was
found.

**The dispatcher and its clients.** A handler of the dispatcher is a function of a
`World`, its own state and the tasks, and one may go on as another (`CreateTrain`
starts the next train of the queue, by `AddNode` or `ReAdd`). So
the invariant is one of worlds. `WInv(w, x, rest)` says, part by part: the slots in use
come first and are counted (`SlotsInv`); there is one courier that still adds, the one
expected (`OneAdds`), and one for each train (`OneCreator`); slots, trains, couriers
and conductors point at one another in step, with the exception of a conductor that has
deleted its train and is about to say so (`SlotsHold`, `TrainsGone`, `TrainsHeld`,
`CreatorsHold`, `ConductorsKnown`, `ConductorsLive`); the queue has a train once, and who
asked for it still asks (`QueueOnce`, `QueueAsks`, `CreatorsAsk`, `AskersKnown`); and
what the user has or adds is known (`UserBusy`, `RestKnown`). `x` is a task whose
request is in the handler's hands and so neither in the queue nor with a courier: within
a handler `AskersKnown` fails for it, and only for it. `OneTaskPerTrain` by itself is far
from inductive: that a second task is never made rests on the deleted train's slot being
empty, on its conductor being the one who asks, and on no courier having the train
already. `DInv` is this for the world between two steps, with `ServerInv` about the
sensor server and `Listens`: who waits for any sensor is a courier that listens, or one
that is gone, of which a train has one at most. The queue `anyone` keeps such a tid after
its task is destroyed, so this must be known to have a tid left for the next courier,
which therefore is not taken for the old one. `Runs` (nobody acts below a
courier that can) is what keeps a courier from being in its last step while its train is routed
(`NoCourier`).

**Transit.** `TransitInv` is `Held`: stations and seats are sound, those who are free,
wait and ride are `MaxPeople`, and `people <= free`. That inequality is not inductive by
itself: a shutdown puts everybody back but leaves `people`, so it must be known that
`people` and those who wait and ride never exceed `MaxPeople`, which is conservation.
Sums over all stations and seats (`SumFunction`, a fold) are counted as the set of
their units (`SumCounts`), so that changing one station changes the sum by what it held
(`SumChanges`). `BusyTrainsCome` is inductive with the fact that a train is only ever in
its own seat.

**Induction.** The library's induction theorems take an operator as a parameter. `Facts`
proves for a set what is needed instead: a set of naturals that holds 0 and the
successor of each of its members holds them all (`EveryNatural`, from well-foundedness);
a `Loop` ends in any set its body stays in (`LoopInvariant`, `LoopStays`). The model's
loops are `Loop`s for that reason.

**Only model-checked:** that `findPath` is shortest, which would need an induction over
the heap and the rounds of the search; and all liveness (`TopPriorityRuns`, `SleepersWake`,
`EveryByteSent`, `PollsAnswered`, `AddsAreAnswered`). Liveness under fairness and
`ENABLED` are beyond the prover. What the code does not keep is refuted by runs, and
proved where a hypothesis excludes it (`CleanHabits`, `Careful`, `fuel.brakes`, a slow
line). No module
has a `RECURSIVE` operator: recursion is by functions, loops and folds, so that any
module may be proved about.

## Plan

Done: kernel, clock server, COM1, sensor server, track, paths, trains, dispatcher,
conductors, transit, and proofs about all but paths. Next: the name server and COM2, if
they are given more to do, and the heap of `findPath`, if the prover learns to instantiate
the induction theorems.

## Not modelled, and why

*Kernel and servers.* Registers, stacks and the bytes of a message: in `Kernel` a
message is the fact that it was sent. In `Com1`, COM2 with its FIFO, and commands
of a single byte, which differ from a poll only in not being answered. The name
server is a table that is written while the servers start, one after the other,
and only read later.

*Trains.* Position, speed and stopping distance are arithmetic on measured
tables; they are choices. The row of reserved nodes has no end (the code's ring
has 16 places and asserts). The timeout courier is never created by the code.
`TRM_AUX`, `TRM_ROUTE_COMPLETE` and the requests that read (`TRM_GET_*`) change
nothing. There is one `TRM_RV` at a time: the code makes a courier for each, and two
interleave, but each of them sends only `TRM_SPEED` and `TRM_DIR`, which the user may
send in any order as well. `SENSOR_LAST_POLL` only copies.

*Dispatcher.* Removing a train that is known, a ninth train, and what a delay that
ends after a stop does to a conductor that has gone on. The user asks for a
train's task and routes it in one step, as nothing can happen to the train
between the two calls. How many
attempts and legs a route has are choices. Reservations, which the code keeps in the
dispatcher too, are in `TrackReservation`: no handler uses both.

*Transit.* The pace of the spawning pool, its reading of the replies, and a
transit train that the user stops.

*Elsewhere.* The shell, screens, demos and games have no state others rely on;
formatting, conversion and the trap stubs have none at all; the kernel log and
the idle timers are written and never read.
