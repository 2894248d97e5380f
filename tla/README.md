# Semestr_4 in TLA+

A verification project for the programs of `Semestr_4`, a collection of
university exercises: concurrent and communicating C programs (`SysOpy`, one
`labN` per topic), an Erlang server, a small CPU with its debug unit in Verilog
(`Mikro`), and language exercises in Python and Scala. The programs are
independent of each other, so each one that is modelled has a specification of
its own. Line numbers in the modules refer to the file their header names.

## 1. The system

### Inventory

| Component | State | Operations | What is hard | What makes it correct |
|---|---|---|---|---|
| **lab9 zad1**: producers/consumers, mutex and two condition variables | ring `BUFFER` with two positions and a count, `lineNumber`, `endOfFile`, the stream `SOURCE` | `addToBuffer`, `removeFromBuffer`, the thread loops, `main` in its two modes (join, or sleep and cancel) | broadcasts only at certain counts, the end of the file against waiting consumers, cancellation inside the lock, a producer that outlives `fclose` | mutual exclusion, the ring is the queue of unread chunks, each selected line printed once in order, no lost wake-up, termination with nothing left behind |
| **lab9 zad2**: the same with semaphores | the same, and `sem`, `emptySem`, `fullSem` | the same, and the turnstiles | a decision taken under `sem` and acted upon without it, permits in the hands of a passing thread, overflow of a semaphore | the same, and turnstiles that stay open |
| **lab7 zad1**: sleeping barber, System V | `struct data` in shared memory, a semaphore, a message queue, each client's `client` | polling loops of barber and clients, start and shutdown | a protocol spread over two programs and a status word, a startup race, IPC objects removed under running clients | exclusion, seats agree with messages, clients called in order, the chair handed over by invitation only, every client served |
| **lab7 zad2**: sleeping barber, POSIX | the same with `shm_open` and a named semaphore | the same | two permits in the semaphore, which also survives its users | what still holds without exclusion |
| **lab10 zad1**: computing cluster, TCP and UNIX sockets | `clients[]`, `numOfClients`, sockets, epoll set | threads `monitor`, `ping`, `calc`; the client's loop | three threads on one unlocked table, descriptors that are reused, a full table | requests go to live nodes, names are unique, a lost node is noticed |
| **lab10 zad2**: the same over UDP | addresses instead of descriptors | the same without `ping` | loss of datagrams and of nodes | the same |
| **lab6 zad1, zad2**: request server on message queues | client table, one request queue, one reply queue per client, `closeFlag` | INIT, CALC, TIME, MIRROR, END (LOGIN and STOP in zad2) | END with requests pending, colliding reply queues, full queues, a request that kills the server | every request answered once, to its client |
| **lab8**: threaded image filter | `INPUT`, `FILTER`, `OUTPUT`, `FINISHED` | `calculate` per segment, busy waiting | the partition of the columns, unsynchronised flags | every pixel written once, before it is saved |
| **lab4 zad1-3**: signals | counters, pending requests, masks | handlers, the children's and the parent's loop | signals coalesce and arrive between check and pause | counts, no process left waiting |
| **lab5**: pipeline shell; FIFO master and slaves | descriptors, the FIFO | fork, dup2, close; open, read, write | descriptors left open keep readers waiting | every stage sees the end of its input |
| **lab1, lab2, lab3** | arrays of blocks, records in a file, child processes | nearest block, sort, copy, batch execution | boundaries of loops | agreement with a reference definition |
| **Erlang lab2, lab3**: pollution monitor and its server; ping-pong | the monitor map, mailboxes | add, remove, query, start, stop; ping, pong | error texts stored as state, answers given before the operation, a mailbox shared by everything a process receives | the map stays a map, measurements unique |
| **Mikro lab1**: CPU, debug unit, UART, clock dividers | registers, memory, transmitter and divider counters | one step per clock edge | steps of two clocks, off-by-one in counters | instructions do what the comments say, bytes leave in order |
| **Python, Scala, Erlang lab1** | none beyond a call | pure functions | parsing | agreement with a reference definition |

Programs do not call each other. Inside a program the components interact
through shared memory under a lock (lab7, lab9), shared memory without one
(lab8, lab10), messages (lab6, lab10, Erlang), signals (lab4) and descriptors
(lab5).

### What is modelled so far

In full: lab9 (both), lab10 zad1, lab6 (both), lab8, lab4 zad2 and zad3, the
Erlang pollution server. In part: lab7 (both, without shutdown and restart),
lab10 zad2 (without `ping`, which is dead code there), lab2 (the record file),
Mikro lab1 (processor and memory). `PROJECT.json` lists every component with its
status, and under `hazards` what in this code is hard to test, at its line, with
the properties that watch it.

## 2. The modules

| Module | Models | Built from |
|---|---|---|
| `LineBuffer` | the ring buffer both lab9 programs share: what one critical section does to `BUFFER`, the positions, the count, `lineNumber` and the output | |
| `LineQueue` | abstract: one bounded FIFO queue between file and search | |
| `ProdConsMonitor` | lab9 zad1 | EXTENDS `LineBuffer`, implements `LineQueue` |
| `ProdConsSem` | lab9 zad2 | EXTENDS `LineBuffer`, implements `LineQueue` |
| `WaitingRoom` | abstract: seats taken and given up in order | |
| `BarberShop` | lab7 zad1, both programs | implements `WaitingRoom` |
| `BarberShopPosix` | lab7 zad2, both programs, store by store | |
| `Cluster` | lab10 zad1: server threads `monitor`, `ping`, `calc`, and the nodes | |
| `ClusterUdp` | lab10 zad2: `monitor`, `calc`, nodes, datagrams | |
| `RequestReply` | abstract: every request served once, its reply received by its sender | |
| `MsgServer` | lab6 zad1: server and clients on System V queues | implements `RequestReply` |
| `MsgServerPosix` | lab6 zad2: the same on POSIX queues | implements `RequestReply` |
| `SignalRequests` | lab4 zad2: requests and permissions by signal | |
| `SignalCount` | lab4 zad3: counted exchange of signals | |
| `ImageFilter` | lab8: threads, flags and the output file | |
| `RecordFile` | lab2 zad1: generate, sort and copy on files of bytes | |
| `Pollution` | Erlang lab2, lab3: the operations on a monitor | |
| `PollutionServer` | Erlang lab3: the registered process and its callers | EXTENDS `Pollution` |
| `Isa` | abstract: what each instruction of the processor does | |
| `Cpu` | Mikro lab1: `cpu.v` and its memory, edge by edge | implements `Isa` |
| `MCProdConsMonitor`, `MCProdConsSem` | instances for TLC | |
| `MCBarberShop` | four shops side by side: early clients, late clients, one visit, no room | `BarberShop`, four times |
| `MCServers` | the request servers side by side | `MsgServer`, `MsgServerPosix`, `PollutionServer` |
| `MCClusters` | the clusters side by side | `Cluster`, `ClusterUdp` |
| `MCSignals` | the exchanges of signals side by side | `SignalRequests`, `SignalCount` |
| `MCFilesCpu` | the programs on files and the processor side by side | `ImageFilter`, `RecordFile`, `Cpu` |
| `LineBufferProofs`, `ProdConsMonitorProofs`, `ProdConsSemProofs` | theorems and their proofs | EXTENDS its component |
| `BarberShopProofs`, `ServersProofs`, `ClustersProofs`, `SignalsProofs`, `FilesCpuProofs` | theorems and their proofs, each about the program alone and not about the instance | EXTENDS `MCBarberShop`, `MCServers`, `MCClusters`, `MCSignals`, `MCFilesCpu` |

### lab9: producers and consumers

`main.c` reads a configuration, starts consumers and producers, and either joins
them (timeout 0) or sleeps and cancels them. A producer copies one chunk of the
file (what one `fgets` returns) into the ring per call; a consumer takes the
oldest one and prints it if its length is equal to, less than or greater than
`stringLength`.

* A chunk is its `lineNumber`, and a slot holds that number or `Freed`. The file
  is the constant `TextLength`, the length of each chunk; the search sees
  nothing else. Chunks that start with a NUL byte and a negative
  `stringLength` are left out by `BufferAssumption`.
* Everything between lock and unlock touches only variables the lock protects,
  so a critical section is one step from `"in"` to the place after the unlock.
  Locking, waiting, waking, taking the mutex back, passing each half of a
  turnstile and sleeping are steps of their own. Each branch of `addToBuffer`
  and `removeFromBuffer` is an action with the branch's conditions as guards:
  `AddFull`, `AddLine`, `AddEOF`, `AddPoll`, and `RemoveEmpty`, `RemoveEnd`,
  `RemoveLine`. `AddPoll` is `fgets` failing with a timeout set: control falls
  through to the test of the count, as in the code.
* `pthread_cond_wait` may return without a broadcast (`SpuriousWake`).
* Cancellation is deferred: `Cancel(t)` records the request, and the thread dies
  at a cancellation point: in `usleep`, `sem_wait` or `pthread_cond_wait`, which
  takes the mutex back first (`DieWaiting`), in `fgets` or a consumer's `printf`
  (`DieInside`), or in the `printf` of verbal mode between storing a chunk and
  counting it (`DieStoring`, place `"torn"`). Nobody releases the lock then.
* After the cancellations `main` closes the stream at once. A producer that gets
  to `fgets` after that may find the end of the file or end the process
  (`AddAfterClose`).
* `parseConf` and the thread creation are the constants and `Init`. Threads run
  as soon as they are created; one that has not been scheduled yet is at
  `"call"`.

### lab7 zad1: the sleeping barber

One barber process and several clients poll a shared struct under a System V
semaphore. `status` says whose turn it is, `clientPid` whose chair it is.

* Each branch of the two loops is an action that ends with the release of the
  semaphore. The branch that wakes the barber is split at its two stores
  (`SeesBarberAsleep`, `StartWaking`, `FinishWaking`), because the barber's own
  initialisation of the struct runs without the semaphore.
* `barber.c:180` posts the semaphore before `barber.c:182` fills the struct.
  With `EarlyClients` a client may run in between. The copy of the struct is two
  stores that matter, the counts and then status and pid; the segment is zeros
  before that, and zero is `SLEEP`.
* A client's visits are its rounds of the outer loop, `shaves` counts them. Its
  global `client` is private and outlives a visit only if the code leaves it.
* A client without anything to do releases the semaphore and looks again
  (`LooksAgain`, `BarberWaits`).
* `Visits` is the branch `client == 0 && clientPid != 0` with the negation of the
  earlier branches, so that a client which has just woken the barber and still
  has `client == 0` can take it, as in the code.
* `msgrcv` with `IPC_NOWAIT` on an empty queue leaves the old pid in `msg`. The
  model has that choice in `BarberInvites`; `SeatAccounting` shows that it never
  arises.

### lab7 zad2: the barber on POSIX shared memory

The semaphore is created with the value 1 and posted once more, so two processes
are inside at a time. What a branch stores becomes a list (`todo`) that the
process works off one store at a time; `waitingClients` is loaded and stored in
two steps. A process looks at `status` and `clientPid` in one step, where the
code loads them one after the other, so the module has some of the program's
behaviours and not all: enough to refute a property, not to establish one, and
its only run is a refutation.

### lab10: the computing cluster

* `Cluster`: each assignment to a field of a slot in `monitor` and `ping` is a
  step, since `calc` and the other thread read the table without a lock. `conn`
  says whose connection a descriptor is; `close` frees it and `accept` takes the
  lowest free one, so numbers are used again at once. `backlog` and `edge` are
  the listening sockets with EPOLLET: one `accept` for each event. A node connects and
  sends its name in two steps, and `monitor` waits for the name in between
  (`Listen`), serving nobody else. One that leaves first is `"mute"`: `monitor` gets an
  unknown message and keeps neither the node nor closes its descriptor. Names are
  not empty. The local
  copies that outlive a step are those of `monitor` (`fd`), `calc` (`target`) and
  the slot `ping` is at; `ping` reads the descriptor again for `close`, as the
  code does. A write to a node that has gone may end the server by SIGPIPE, but
  for the send of `ping`. `Interrupt` is SIGINT. A node whose first message is
  not the answer to its name quits (`Confuses`): at once when it waits for the answer,
  after sending its name when the message comes sooner (`"confused"`). The text of requests is left
  out, and what a node computes.
* `ClusterUdp`: addresses instead of descriptors, lost datagrams on the network
  socket, none lost on the local one; `calc` sends everything on `netFd`, so
  local nodes get nothing.

### lab6: request servers

A request is its number and its client. TIME, MIRROR and a CALC with an operator
and two operands (and their counterparts in zad2) differ in the text of the answer
only and are one message, WORK. A CALC without an operator or a second operand is
another, BAD: `strpbrk` or `strtok` returns a null pointer, the server reads through it
(`zad1/server.c:99-101`, `zad2/server.c:114-116`) and dies (`Fail`). Its queue stays
with what is in it, and a server started next takes that up (`Start`): the System V one
has forgotten who registered, so that those clients get no answer any more; the POSIX
one opens the queue named in each message, and has its descriptors back. A client that
is given CALC or MIRROR without an argument dies by itself, and is a client that stays
idle. After END no server is started again.

`MsgServer` keeps `closeFlag` as the state `"ending"`: the server goes on until it
finds its queue empty, then removes it with what has arrived since (`Drain`,
`Remove`). Two clients may have the same key (`KeyOf`). `MsgServerPosix` has
bounded queues and a bounded number of descriptors, one of which every request
uses up; END closes at once, and a client that has the queue open can still send to
it when its name is gone.

### lab4: signals

Pending standard signals are a set or a single pid, because the kernel drops a
second one; real-time signals are never sent twice, so a set does for them too.
The lowest number is delivered first. Handlers run with everything relevant
blocked and are one step each; a handler that returns ends `pause`, `sleep` and
`waitpid`, since `sa_flags` is 0. The sleeps that wait for another process to set
its handlers are taken to be long enough.

### lab8: the image filter

A pixel is a step of its thread, a flag is a step of its thread, reading a flag is
a step of `main`. Weights are multiples of `1/Unit`, so sums are exact where the
code adds doubles. A thread may fail to be created (`"missing"`), and the number
of threads, an unchecked `atoi` of the command line, may be 0: `main` then writes the
zeros it has allocated (`Expected`).

### lab2: the record file

Files are sequences of bytes; a command is one call of the program. `sort` is one
step for each pass of its inner loop and for each record it takes and places, and
`copy` one for each buffer. The `lib` and `sys` branches do the same with `fread`
and `read`, and are one. Reads and writes are taken not to fail; that is where they
differ, since `copy` stops after a failing `fread` and never after a failing `read`
(`zad1.c:257`).

### Erlang: the pollution server

`Pollution` gives for each operation a monitor, an error text or an exception.
Values are left out: no operation looks at them to decide anything. In
`PollutionServer` an operation that changes something is two steps, because the
answer `ok` is sent before it (`AnswerChange`, `ApplyChange`), and the result,
a text included, is the next state. A process that ends takes its name and its
mailbox along. `pollution.erl` does not export `init/0`, so the process that
`start` spawns ends at once unless the module is compiled with `export_all`
(`ExportAll`): both cases are modelled, the runs use the latter.

### Mikro lab1: the processor

`Rise` is what `cpu.v` does at a rising edge, in one of four states; `Fall` is the
memory, which `toplevel.v` gives the inverted clock; `Reset` is the asynchronous
reset. Registers that reset leaves alone start with anything in `PowerUp`.

## 3. What is checked

All runs are in `PROJECT.json`; every property has a mutant there, a plausible
bug in one action that makes TLC find it violated.

Programs of one kind share a run. In the modules that say "side by side" a
variable (`program`, or `shop`) is chosen in the initial state and never changes;
the program it names takes all the steps and the others stay as they are. The
states of such a run are the union of those of its programs, not their product,
and a property of one program says nothing about a behaviour of another: an
invariant or a refinement holds of a program that does not move, and a property
that something happens carries the program's name as its condition.

| Run | Instance | Shows |
|---|---|---|
| `monitor_join` | 2 producers, 2 consumers, 2 slots, 4 chunks, timeout 0 | `Safety`; everything searched before `main` goes on; termination; implements the fair queue |
| `monitor_timed` | the same with 1 slot, 3 chunks, a timeout, verbal mode | `Safety` under cancellation at every point where it can act; nothing touches the buffer after a producer died halfway; implements the queue; polling producers do not starve the consumers |
| `sem_join`, `sem_timed` | the same for the semaphores, 2 slots, `SEM_VALUE_MAX` 3 and 2 | the same, although `sem_post` fails at its maximum |
| `shop` | 3 clients, 2 visits, 2 seats; four shops: clients that may start early, that start late, that make one visit, that find no seats | exclusion, seats agree with messages, FIFO order, the chair changes hands by invitation only, the startup race included; with late clients a chair in use has a name and the one way the shop stops is a chair reserved for a client that has gone; with one visit whoever is shaved is present and knows it; without seats nobody waits for ever |
| `shop_invites` | 2 clients, 1 visit, 1 seat | **violated**: the barber invites a client that has left |
| `posix_shop_chair` | 2 clients, 1 visit, 1 seat, 2 permits | **violated**: two clients sit on the chair |
| `servers` | System V: 3 clients with keys of their own, 3 requests each. POSIX: the same with queues of 2 and 5 descriptors. Erlang: 2 callers, 2 names, 2 locations | both lab6 servers implement `RequestReply`, through CALCs that kill them and servers started again; what is queued with no such CALC in front is answered, by the first one an END before it or not, by the second one unless an END or its last descriptor comes first; the Erlang monitor stays consistent through every order of calls, failures and restarts |
| `clusters` | 3 nodes, two of one name, that leave at any moment, before their name or after, 2 slots; 3 descriptors, or 3 datagrams and one local node | slots in use have a descriptor of their own, but for the one `ping` has just closed; a node that has gone loses its slot; with datagrams a slot that `calc` can pick is complete, and a request comes with its node's own slot |
| `signals` | zad2: 4 children, thresholds -1, 0, 1, 2, 3, 5. zad3: all types, 0 to 3 signals | permitted when due, once; who waits for ever lost a request or missed a permission. The counts agree as far as signals can; the program ends or pauses for an answer it has had |
| `files_cpu` | lab8: widths 2 and 5, heights 1 and 2, 0, 2 and 3 threads. lab2: two byte values, records of 1 and 2 bytes, files up to 6 bytes, any 3 commands. Processor: all programs of three out of thirteen instructions | `main` writes the filtered image, zeros if it is to use no thread, and with a thread missing it spins and writes nothing; sorting is stable and complete, copies are exact, and in between at most the record in hand is missing; the processor implements `Isa`, resets included |

`Safety` of lab9 is a conjunction with named parts: the lock excludes
(`MutexOK`, `SemOK`), the ring is the queue of the chunks read and not yet taken
(`BufferConsistent`), the output is what the search selects among the chunks
taken, once each and in order (`PrintedExactly`), and nobody waits for something
that is there (`NoLostWakeup` of the monitor) or a turnstile that has opened
stays open (`TurnstilesOpen` of the semaphores).

The counterexample of `shop_invites`: a client finds the barber asleep, stores
its pid and `WAKES`, and releases the semaphore. Before the barber gets it, the
client polls again. Its own `client` is still 0 and `clientPid`, its own pid, is
not, so `client.c:123` takes it for a new visitor: it sits down in the waiting
room as well. Later it is called to the chair as the first client, is shaved,
leaves and exits. Its message stays in the queue, the barber invites it, and the
chair waits for a process that no longer exists. With a full waiting room the
same branch makes it leave while it is the client the barber was woken for.
`LateServedOrChairLost` shows that this is the only way the shop fails.

That of `posix_shop_chair` (`lab7/src/zad2/barber.c:158`): both clients are inside and
find the barber asleep. The first stores its pid and wakes him, he asks it to the
chair, and it sits. The second, still at the same two stores, then puts its own pid
and `WAKES` in their place, and he asks it to the chair as well.

**Behaviours met while modelling.** The models have them, no run states a
property that excludes them, and the properties that are checked hold in spite of
them:

* lab10 `zad1/server.c:191`: `ping` has cleared a slot's `fd` when `monitor` fills
  the slot; then `ping` clears the name of the node that has just joined, and
  another node with that name is let in.
* lab10 `zad1/server.c:163`: nodes come up and go down under a running number, but
  a result is printed with a position in the table.
* lab6 `zad1/client.c:26`: clients that start in the same second draw the same key
  and share a queue; one may take the answer to the other's INIT for its own.
  `ImplementsRequestReply` is about clients with keys of their own (`OwnKey`).
* lab6 `zad1/server.c:99`, `zad2/server.c:114`: a client that asks for a CALC without an
  operator ends the server. Requests behind it wait for the next one, and the System V
  clients that had registered get no answer from that.
* lab10 `zad1/server.c:152`: a node that leaves before it has sent its name costs the
  server a descriptor for good, and until it leaves `monitor` serves nobody.
* lab4 `zad3.c:167`: the answer to the first real-time signal ends the `sleep` that
  is to keep SIGUSR2 back, and SIGUSR2 has the lower number.
* Erlang lab3 `pollution.erl:24`: `getName` expects `[{}]` where `maps:to_list`
  returns `[]`, so a location without a station ends the server.

**Bounds.** Two threads on a side are the least with which a wake-up can go to
the wrong one and two producers can meet the end of the file. Two slots and
three or four chunks wrap the ring once or twice; one slot makes every step a
boundary, and a broadcast at the wrong count leaves somebody asleep.
`SEM_VALUE_MAX` of 2 or 3 is reached within the runs, and nothing depends on its
size: the proofs are for every value. Three clients and two seats let one be
shaved, one wait and one be turned away; two visits let a client come back with
what its first visit left.

Three nodes and two slots of the cluster let a slot be used again while another
is in use, and leave one node without a slot; three descriptors make `accept`
return a closed one at once; two nodes of one name make `monitor` refuse one.
`MaxResults` and `MaxDatagrams` bound what is unread; a sender then waits, or its
datagram is lost. Three requests of three clients let INIT, a request and END of
different clients be queued together; `MaxRequests` ends a user's wishes. Five
descriptors are fewer than the requests made. Thresholds below 1, met and out of
reach are all there; four children let two requests be merged in front of a
third. Two columns for three threads leave one without any, five do not divide
evenly; no thread at all is the third count. Six bytes are three records of two or six of one, enough for an insertion
at the front, in the middle and at the end, with equal keys and a short last
buffer; byte values 1 and 200 lie on both sides of the sign bit. `MaxMailbox` 2
lets a stop or another call wait behind a failing one; one time and one type make
every second measurement of a station a repeated one. Three instructions and a 0
that jumps back make loops whose code and data overlap; every group of
instructions is among the thirteen. `PowerUp` has the two bytes with all bits
equal.

No symmetry is used: most runs check that something happens, and symmetry is not
sound for that. Nothing else is bounded: the state spaces are finite.

**Deadlock** is checked for lab9 and lab7 zad1, which either go on or end. A program that has ended stutters (`Terminated`); one in which the
cancelled threads have left the lock taken still has `main`, which returns. It is
not checked where waiting for ever is what the code does: clients of a queue
server that has gone, children whose permission came too early, a parent in
`pause` after its answer, a cluster server that is stopped or waits for nodes, a
barber shop with two permits; nor where the programs stop at a bound or at their
end (`MaxCommands` in `files_cpu`, where the processor, which can always be reset,
cannot deadlock).

**Fairness.** `FairSpec` of lab9 assumes that every thread is scheduled (weak
fairness of what it does inside and of its sleep) and that a thread which wants
a lock gets it if the lock is free again and again (strong fairness). The code
justifies the latter: each thread sleeps 500 or 1000 microseconds after every
call, so the lock is free most of the time. Nothing is assumed of spurious
wake-ups and cancellations. `PatientSpec` says the same of the threads and
nothing of `main`, whose `sleep` may be long. In the barber shop semaphore
operations are strongly fair: Linux serves the waiters of a System V semaphore
that block on it in order, and every process asks for it again and again.

Elsewhere it is weak fairness of what the scheduler and the kernel run: the
server's loop and a `msgrcv` with a message to take, each process of a signal
exchange with the delivery of what is pending, each thread of the image filter.
What a user does is never fair: clients ask, leave and send END when they like,
SIGINT comes or does not, and nobody has to start a server again that has died.
A node need not send its name either, and then `monitor` may wait for ever. `Cluster` adds strong fairness of `Finds` for each slot:
`ping` visits every slot each second, for ever, and finds the dead node there; it
is busy with other slots in between, so weak fairness would be too little. That a
send fails at some point after the node has gone is what TCP and UNIX sockets do.

## 4. What is proved

The theorems hold for every value of the constants that the `ASSUME`s of the
modules admit: every number of threads, clients, nodes and children; every file,
buffer length, search and `SEM_VALUE_MAX`; every image, filter, memory of the
processor. The `ASSUME`s say that there is a thread on either side, a buffer of
at least one slot, chunks that are not empty, that `NoPid` and `None` are
nobody's pid, and that constants have the types the code gives them. One theorem
needs more: `AnswersGoToTheirAskers` takes clients with keys of their own
(`KeysDiffer`), since lab6 breaks its promise without them (section 3). Where
several programs share a run, the theorem is about the program's own `Spec`; the
two on the shops with late clients and with one visit are about `ShopSpec`.

* **`LineBufferProofs`**: what the operations on the ring preserve, without any
  thread. Positions wrap into slots and different distances from `consumerPos`
  are different slots (`WrapInSlots`, `WrapInjective`); adding and taking keep
  `RingOK` (`PutLineRing`, `TakeLineRing`); the output stays exact
  (`TakeLinePrinted`); the queue the ring stands for gains and loses chunks at
  its ends (`PutLineQueued`, `TakeLineQueued`). Both programs cite these.
* **`ProdConsMonitorProofs`, `ProdConsSemProofs`**: the inductive invariant is
  `LockInv == TypeOK /\ exclusion /\ BufferConsistent`. No part is inductive
  alone: the ring stays a ring because only the holder of the lock changes it,
  the holder sees a ring because no torn producer exists beside it
  (`InsideSeesRing`), and the positions stay in range because the ring does. On
  top of it, exact output (`PrintsExactly`), no lost wake-up (`NoWakeupLost`) or
  open turnstiles (`TurnstilesStayOpen`), all of it together as `SafetyHolds`;
  `TornLocked`; and `Refinement`: every
  step maps to a step of `LineQueue` or to a stutter, `DieStoring` to the latter
  since a chunk enters the abstract queue when it is counted.
  `JoinedSearchedAll` needs `EndInv`: with timeout 0 a consumer that has
  returned saw `endOfFile` with the buffer empty, and after `endOfFile` there is
  nothing left to read.
* **`BarberShopProofs`**: the inductive invariant `ShopInv` joins the types, the
  lock, the seats, and what holds while the barber has not yet filled the struct
  (no seats, no messages, a status that is `SLEEP` or `WAKES`). From it
  `Exclusion`, `SeatsCounted`, `ChairIsKept`, and `RoomIsFIFO`, the refinement
  of `WaitingRoom`. All of them include early clients.
  `LateChairIsNamed` needs besides that no client is in while the barber stores the
  struct, so that his stores do not come between the two that wake him (`LateInv`).
  `OneVisitServed` needs that a client's private `client` agrees with the queue and
  the struct: one with a message there, or called by it, knows that it has come
  (`OneVisitInv`).
* **`ServersProofs`**: `AnswersGoToTheirAskers` and `PosixAnswersGoToTheirAskers` are
  the refinements of `RequestReply`, the crash of a server and the start of the next
  included. That an answer is received by its asker says
  nothing of the queues, so the invariants do: a client that waits has one
  request under way, its answer queue holds the answer to that one or nothing
  (`AnswersInv`), and a request in the server's queue is the one under way and is
  there once (`PendingInv`). For System V, a queue also exists just while its owner
  is there (`QueuesInv`); the whole of it is `QueuesStayInOrder`.
  `MonitorStaysConsistent` is the Erlang server: every operation keeps a map of
  stations one (`StationsInv`), a caller that waits has one request in the mailbox
  at most, and the one whose change is being applied has been answered
  (`AskedInv`, `AppliesInv`).
* **`ClustersProofs`**: `DescriptorsAreOwned` is the table that `monitor` and `ping`
  share without a lock. It is inductive with where each thread is: the descriptor
  that `monitor` has in hand is open and in no slot but one that `ping` has just
  closed (`AskerInv`, from the `recv` for the name on), `monitor` fills only free slots and `ping` clears only used
  ones (`FillsFree`, `ClearsUsed`). `NumberedSlotsAreComplete`, the UDP server: a
  slot gets its number last (`UdpFilling`), and only slots with a number are on
  their way to a node (`UdpNumbered`).
* **`SignalsProofs`**: `PermissionsAreDue` needs that `PENDING` is filled from the top
  (`CollectedInv`) and that a child with an unhandled request is neither noted nor
  permitted (`UnhandledInv`). `CountsAreRight` needs lower bounds as well as upper
  ones: signals merge, but of several at least one is counted (`NotAllLost`), and
  with one signal at a time none is lost (`OneAtATime`).
* **`FilesCpuProofs`**: `FileIsFiltered`: the pixels before a thread's position are
  written and right (`ThreadInv`), the ranges of the threads partition the columns
  for every width and number of threads (`RangesPartition`, which rests on
  `Division`), and `main` goes past a thread only after its flag (`MainInv`); without threads nothing
  is ever written to the image (`ZerosInv`).
  `ProcessorImplementsIsa` has one lemma for each state of `cpu.v`, and for the
  other edge and the reset; `ChipInv` says what is on its way between the
  processor and its memory at each of them. `RecordsAreKept` is the insertion sort
  of lab2 and its copy. The place of a record is the number of those before it
  (`RankIn`), and these places are a permutation (`RanksReach`, `RanksGrow`); the
  file of a sort that has placed `m` records is the old one with its records moved
  there (`SortedTo`), and while records make room it is so but for one gap
  (`ShiftedTo`), into which the record in hand fits (`SameRecords`,
  `PlacedInOrder`). `RecordsInv` says so for every step, from the bytes of the
  file up (`PutChanges`). It claims nothing of the order when a sort is asked for
  more records than the file has, and neither does the property.

Two definitions by recursion are solved by hand, over initial segments of the
numbers that are kept as sets (`InductionUpTo`): the list without an element of
`Pollution`, and the sum of the image filter over its elements.

Only model-checked is what happens under fairness, which is out of the prover's
reach: `Terminates`, `PollingDelivers`, `ImplementsFairQueue`,
`LateServedOrChairLost`, `NoRoomAllFinish`, `QueuedIsAnswered`,
`PosixAnsweredUntilEnd`, `GoneIsRemoved`, `RequestsReapedOrLost`,
`CountEndsOrMissedAnswer`, `FilterEndsOrSpins`.

## 5. What is not modelled, and the plan

Parts of modelled components:

* lab7: the shutdown by SIGINT, which removes the IPC objects under running
  clients, and a second start on a semaphore that was left behind. What a client
  does with an object that is gone is decided by the system.
* lab7 zad2: `BarberShopPosix` sees `status` and `clientPid` in one step, so it
  refutes properties and establishes none. What two permits do keep is open.
* lab10 zad2: `ping` is not started (`zad2/server.c:320`), and is left out with the
  messages only it sends; SIGINT.
* lab2: the directory listing (`zad2`), input and output only.
* Mikro lab1: the debug unit with its UART, the clock dividers and the button
  logic. They choose when the clock of the processor ticks, and every choice is in
  `Cpu`; the transmitter's own correctness is a matter of timing.

Components without a module:

* lab1 (nearest block): a pure search, and testers that measure time.
* lab3, lab5, lab4 zad1: processes that are launched and waited for, with hardly
  any state between two calls; what is hard about the pipeline of lab5, the
  inheritance of descriptors, belongs to the kernel.
* Erlang lab1, `qsort`, `pingpong`; Python; Scala: pure functions, or two processes
  that pass one number.
* the board projects of Mikro lab2 and lab5: Makefiles of vendor templates.

What the plan has left is lab7 zad2 in steps as fine as its memory accesses, with
what two permits of its semaphore do keep as its invariant and first theorem. The
safety properties of the other modules, and the refinements but for their
fairness, are proved.
