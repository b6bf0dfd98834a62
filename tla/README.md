# Server_Library: specifications and proofs

TLA+ specifications of the server library in `src/`, the TLC configurations
that check them on small instances, and TLAPS proofs about them. Paths in this
file are relative to `src/`.

Contents: [1 The system](#1-the-system) · [2 Modules](#2-modules) ·
[3 Runs](#3-runs) · [4 Proofs](#4-proofs) · [5 Disagreements](#5-disagreements-between-code-and-comments) ·
[6 Not modelled](#6-not-modelled) · [7 Plan](#7-plan)

## 1 The system

A C++ library for Windows game servers. A server (`NetworkModel/IOCP`) and a
client (`NetworkModel/EventSelect`) share a packet pipeline
(`NetworkModel/BaseModel`); both speak TCP and a stop-and-wait "reliable UDP".
The rest is a set of small concurrent containers and services.

```
  peers ==TCP/UDP==> IOCP workers / EventSelect threads
                          | ReceiveDataProcessing          (BaseModel)
                          v
                     storage queue --swap--> process queue  (CircularQueue x2)
                                                  | Run
                                                  v
                                            packet processors --Send/SendTo--> sockets
  packets, queue data: allocated by CMemoryManager (MemoryPool)
  client UDP: SendTo -> reliable queue -> ReliableProcessor -> socket, acks back (ReliableUDP)
```

| Component | State | Operations | Hard behaviour | What makes it correct |
|---|---|---|---|---|
| CircularQueue `Functions/CircularQueue` | array of QUEUE_LENGTH slots, head, tail, lock, a flag that switches the lock off | Push, Pop, IsEmpty, EnableCriticalSection | every interleaving of calls; Pop re-enters the lock; a full push returns a dangling reference | linearizable bounded FIFO; only pushed pointers come out; the lock is always left |
| CriticalSection `Functions/CriticalSection` | owner, depth | Lock, UnLock, the guard object | recursion | mutual exclusion; balanced |
| BaseNetworkModel `NetworkModel/BaseModel` | two queues and their roles, queue lock, per connection: receive buffer, last packet number | ReceiveDataProcessing (each receiver), Run (main thread) | queues are swapped while receivers push; tests made without the lock; full queues; 16 bit numbers | order kept across swaps, each packet at most once, process queue private to Run, acknowledged UDP numbers consecutive per peer, accepted packets get handled |
| MemoryPool `Functions/MemoryPool/MemoryPool.h` | free list threaded through the blocks, lock | operator new, operator delete | list runs empty; memory runs out; blocks are link and data in turn | a block has one owner, none is lost, list intact |
| Reliable UDP `Network/NetworkProtocol/UDPSocket` | reliable queue, cache of timed out packets, last completed number, two threads, run flag | AddReliableData, ReliableProcessor, CacheReliableDataProcessor, CheckAck, Notify_SendComplete, destructor | loss, repetition, reordering; timeouts racing acknowledgements; notify before store; spurious wake-ups; shutdown | no gap in what is delivered, acknowledged means received, sending ends |
| IOCP server `NetworkModel/IOCP` (and `Network/UserSession/Server`) | connection list; per slot: socket, overlapped structures, remaining bytes; worker threads; completion port | OnIOAccept, OnIOReceive, OnIOReceiveFrom, OnIOWrite, OnIOTryDisconnect, OnIODisconnect, Initialize, Destroy | several completions of one slot at once; every system call may fail; slots are reused for ever | one user per slot, no slot forgotten, slots accept again |
| TCPIPSocket `Network/NetworkProtocol/TCPSocket` | send queue | Accept, Read, Write, SocketRecycling, SendCompletion | partial writes; completions that name no send, settled by several workers while writers queue and send in two steps | a buffer lives until its send completes |
| EventSelect client `NetworkModel/EventSelect` | two event threads, stop flags, packet counter | Initialize, Send, SendTo, the threads, Destroy | counter shared by sends and receives; numbers written into the caller's packet | counter agrees with the server's; shutdown ends |
| ThreadPool, CircularLinkedList `Functions/ThreadPool`, `Functions/CircularLinkedList` | job queue, result list, iterator, stop flag | Enqueue, Worker, FutureProcessing, destructor; Insert, Delete, iterate | a node erased under an iterator; lost notifications; shutdown | every job runs once, every result is collected, destructor ends |
| Timer, UUID `Functions/Timer`, `Functions/UUID` | timer map, locks, identifier set | BindTimer, ClearTimer, callback; Generate, Release | callbacks racing removal; early returns under a lock | locks released, no callback of a freed timer |
| TimingWheel `Functions/TimingWheel` | array of timer lists, index, rotation count, thread | AddNewTimer, the thread's walk | wheel turns while timers are added; erasing under the walk; delays of several turns | fires once, after its delay |
| SQL pools `Functions/SQL` (MySQL and MSSQL) | vector of connections with a state, a count | constructor, GetConnection, the handle's deleter, destructor | a deleter without the lock; index and place kept apart; failed connects and schemas | a connection has one user and comes back |
| WatchDog client, DumpTransmit `WatchDogClient` | list of child processes and of their handles; queue of dumps, two threads | configuration, start, watch, restart; request, upload, Destroy | two lists edited by one index while the main thread walks one; a notification missed at shutdown | the lists agree; every end is handled; requests are taken |
| Table generators `MSSQLTableGenerator`, `MySQLDataFormatGenerator` | members found, number of columns; in what they write: one row | describe a table; the class's insert, select, delete | the table is altered between the queries or afterwards | a value stays with its column; the queries are SQL |
| PacketGenerator `PacketGenerator` | lines, the structure being read, the list of structures | read, make structures, write headers | one structure used for all blocks | each header describes its block and initialises its members |
| Log, Minidump, MemoryLeak, SocketAddress, FPSManager | - | output, conversion, OS calls | none shared | - |

The interactions that matter: IOCP workers and EventSelect threads call
`ReceiveDataProcessing` concurrently, and it shares two CircularQueues with
`Run`; the packets are allocated and freed by different threads through one
memory pool; the reliable UDP threads share a CircularQueue with the
application and the receiving thread; the WatchDog client is an EventSelect
client that watches its children in another thread and hands dumps to a third.
The other services (ThreadPool, Timer, TimingWheel, the SQL pools) share
nothing with one another or with the network. `PROJECT.json` lists the hazards of all
of this, line by line, with the properties that cover each.

## 2 Modules

| Module | Role | Code |
|---|---|---|
| `RingQueue` | the ring's pure operations: `Pushed`, `Popped`, `Contents` | `CircularQueue.hpp:24-79` |
| `CriticalSection` | recursive lock as a value: `CanEnter`, `Entered`, `Left` | `CriticalSection.hpp` |
| `BoundedFifo` | abstract: a linearizable bounded FIFO | what users of CircularQueue rely on |
| `CircularQueue` | every access of every operation as a step of its thread | `CircularQueue.hpp:31-79` |
| `LossyFifo` | abstract: in-order, at-most-once delivery with overflow loss | what packet processors rely on |
| `BaseModel` | receivers and the main loop | `BaseModel.cpp:26-81`, `IOCP.cpp:201-236` |
| `MemoryPool` | allocator and its clients | `MemoryPool.h:22-99` |
| `ReliableUDP` | client threads, network, server | `UDPSocket.cpp/.hpp`, `IOCP.cpp:214-236`, `EventSelect.hpp:33-36` |
| `Iocp` | the life of the connection slots | `IOCP.cpp:32-55, 77-121, 147-208`, `TCPSocket.cpp:40-56, 80-106, 143-161` |
| `TcpSend` | the send queue of a TCP socket | `TCPSocket.cpp:58-124`, `IOCP.cpp` (OnIOWrite) |
| `EventSelect` | the client: its threads, its counter, its shutdown | `EventSelect.cpp/.hpp`, `UDPSocket.cpp` (CheckAck) |
| `CircularLinkedList` | a doubly linked list in a heap of nodes | `CircularLinkedList.hpp` |
| `ThreadPool` | callers, workers, the collecting thread, the destructor | `ThreadPool.hpp` |
| `Timer` | callers, the timer thread, boost's timers (external) | `Timer.hpp`, `UUID.hpp` |
| `TimingWheel` | the wheel's thread and callers of AddNewTimer | `TimingWheel.hpp` |
| `SqlPool` | both connection pools | `MySQL.hpp`, `MSSQL.hpp` |
| `TableClass` | both table generators and the classes they write | `MSSQLTableGenerator/main.cpp`, `MySQLDataFormatGenerator/main.cpp`, `BaseTable.hpp`, `user_info.h` |
| `PacketGenerator` | from the lines of the file to the headers | `PacketGenerator/main.cpp` |
| `DumpTransmit` | queue of dumps and the uploading thread | `DumpTransmit.cpp` |
| `WatchDog` | the main thread, the worker, the children; extends `DumpTransmit` | `WatchDogClient.cpp/.hpp`, `main.cpp` |
| `MC...` | values for the constants of the runs; `MCCircularQueue`, `MCIocp`, `MCTimers`, `MCSql` put services that share nothing side by side | - |
| `RingQueueProofs`, `BaseModelProofs`, `MemoryPoolProofs`, `ReliableUDPProofs` | theorems about the module of that name | - |
| `IocpProofs` | theorems about `Iocp` and `TcpSend` | - |
| `ContainerProofs` | theorems about `CircularQueue` and about `ThreadPool` with `CircularLinkedList` | - |
| `ClientProofs` | theorems about `WatchDog` and `EventSelect` | - |
| `ServiceProofs` | theorems about `SqlPool`, `TableClass`, `PacketGenerator`, `Timer`, `TimingWheel` | - |

How they compose. `CircularQueue` is shown to implement `BoundedFifo`: every
operation takes effect at one instant. That licenses `BaseModel` and
`ReliableUDP`, which EXTEND `RingQueue`, to treat a queue operation as one
step; so their modules stay about their own interleavings. `BaseModel` in turn
implements `LossyFifo`. `TcpSend` and `ThreadPool` use `RingQueue` in the same
way: the code uses those queues under a lock or, in `TcpSend`, through
CircularQueue's own. `WatchDog` composes the watchdog with its `DumpTransmit`:
the worker's request, the uploading thread's steps and the shutdown are actions
of the composition. A module of the form `MCIocp` takes the union of modules
that do not interact and a variable `service` that says which of them a
behaviour is about; each behaviour leaves the variables of the others alone.
Modules that meet in one run or one proof module name their initial states,
steps and specifications apart (`ClientSpec`, `SendSpec`, `TimerSpec`,
`WheelSpec`, `TableSpec`, `GeneratorSpec`); alone they are `Init`, `Next`, `Spec`.

**CircularQueue.** `pc[t]` is where thread `t` is in its call, `index[t]` and
`out[t]` its locals, `queue` the members. Push is `Enter`, `PushFull` or
`PushRoom` (test), `PushStore`, `PushAdvance`, `Leave`; Pop enters, calls
IsEmpty (which enters again), loads, advances, leaves. When the flag is off,
the lock is entered all the same and so is it in the model: the flag is read by
nothing else. What a push on a full queue returns is a reference to a dead
temporary, so it is `Null` or `Garbage`.

**BaseModel.** One process per receiver, `rcv[r].pc` in
idle - parse - lock - read - push, and the main thread, `run.pc` in
pop - process - test - lock - swap. A read of TCP delivers 1..MAX_CHUNK bytes
(`Receive`, OnIOReceive); bytes are only counted, so `remain` is the number of
bytes in the buffer and the packets are those of the peer's stream in turn. The
UDP socket takes whole datagrams of any peer (`ReceiveFrom`, OnIOReceiveFrom):
the number expected, `last`, is loaded from the peer's (`peers`) for each
datagram, and stored back when the parsing returns (`NumberStored`) only if an
acknowledgement was asked for, switched on (`EnableAckCheck`, off by default)
and sent, which is decided before and is a free choice here. `Accept` and `Skip` are the
two outcomes of the number test; the number wraps at 16 bits (`Increment16`,
and `HALF` stands for 2^15). Reading which queue is the storage queue and
pushing on it are two steps.

**MemoryPool.** Blocks are pairs chunk/index, `link` the first word of each
block whoever owns it. `operator new` is enter, create pool, allocate (thread a
chunk or not), take (look at the head), advance (move it to the next), leave;
`operator delete` is enter, link, set head, leave. The lock is there because
looking at the head and moving it are two steps.
Clients write `Garbage` in the first word of blocks they hold. `free` is a
history variable: the blocks in the order the list should have them.

**ReliableUDP.** The application's `SendTo` (read the counter, set the number,
increment, push, notify), `ReliableProcessor` and `CacheReliableDataProcessor`
(one step per condition variable operation, queue operation, transmission and
cache operation), the receiving thread taking acknowledgements, the destructor,
the network as sets of everything transmitted (so every loss, delay, repetition
and reordering is a choice of who takes what), and the server's
`OnIOReceiveFrom` as one step, as one worker has the only pending
`WSARecvFrom`. The server is one that was told to acknowledge
(`EnableAckCheck(true)`); with the default nothing is acknowledged, no number is
stored, and each packet is given up after its transmissions: `BaseModel` has
what the server accepts then. A thread that uses a freed packet goes to
`crashed`, about which nothing more is said.

**Iocp.** `sock[s]` is what the system knows of the slot's socket; `receives`,
`sends` the overlapped operations pending; `port` the completion queue;
`worker[w]` where a worker is in a handler: register - receive, process -
receive, recycle, tryDisconnect, initialize, one step per system call, each of
which may fail. What the system does is external and assumed to be what Winsock
documents: AcceptEx succeeds only on a socket that is free; TransmitFile with
TF_DISCONNECT succeeds only on a connected one; the disconnection completes
when nothing of the socket is pending, and is told to the port only when the
socket is registered. `ignored` and `sendFailed` are history: slots for which
an error was given to nobody, and failed sends.

**TcpSend.** `memory[b]` is whether a `WSASendData` is unused, live or freed,
`flight` the sends the system has accepted, `wire` what went out, `settled` the
completions the port holds, `settler[h]` the one worker `h` is in SendCompletion
for. A writer queues its data and then posts the send (two steps: another
writer, or a worker, may come between); the system completes all or a first part
of the oldest; a worker takes the completion and pops while there is something
to pop: `FreeSent` for a send that is covered by the count, `SendTail` for one
that is not. The worker knows the number of bytes only, and frees what is queued
first, whatever the completion was of. The count is not decreased in the code,
and so not in the model. The tail is sent with an overlapped structure on the
worker's stack, so its completion tells nothing, or anything (`broken`: nothing
more is said). `sendState` is history: `swept`, a completion took a second
`WSASendData`; `crossed`, a writer sent before another that had queued before
it; `crowded`, something was queued before all that was written earlier was sent
and settled; `tailLost`, a rest was sent in part or not at all.

**EventSelect.** `app` is the application's place in Initialize (each of whose
steps may fail, after which the caller may go on), Send, SendTo and Destroy;
`thread[p]` and `event[h]` the two threads and the three events. SendTo is
three steps: the number is written into the caller's packet (`number`), the
counter `next` is incremented, the packet given to `WriteToReliable`. The
acknowledgements and the packets of the server move the same `next`. `overTcp`
is the number in the last packet that Send gave to TCP.

**ThreadPool, CircularLinkedList.** The nodes of both result lists live in one
heap, `mem`, with the pool's list `free` of blocks, last in first out, as
`operator delete` leaves it. A thread that waits on a condition variable is
*before* its sleep, when it has tested and not yet given up the mutex, or
*asleep*; `NotifyOne` and `NotifyAll` wake the sleepers only. The collecting
thread erases the node its iterator is on and then increments the iterator: if
the node is still free it goes on over what the node held (`Advance`); if it
was taken for another result, the thread has *strayed* and nothing more is said
of it. A job the full queue did not take leaves a future that throws:
*terminated*. The bound on the heap is that `Alloc` waits for a free node; the
code would take another chunk. `CircularLinkedList` derives from a class `MEMORYMANAGER::MemoryManager`
that no included file declares; the pool of `MemoryPool.h`, which the file includes, is meant.

**Timer.** `timerList[h]` is the timer under a handle, `wait[t]` the state of its
asynchronous wait, `thread` where the thread of the `io_context` is, `caller[u]`
a thread in BindTimer (wait for the list's lock, generate an identifier, emplace)
or ClearTimer (wait for the lock, look up, cancel, delete). A handle is a 16 bit hash; here one of a few, so
they collide. The early returns of `BindTimer` (handle taken) and `Generate`
(no UUID) leave their locks taken. `freed` timers that a handler reads make the
thread *crashed*. History: `overtaken` timers, the callers that returned with
the list's lock (`keepers`), failures of `UuidCreate`. The model has a timer for
every call of BindTimer that begins, so that no call waits for the bound.

**TimingWheel.** Time is counted in slots walked. `AddNewTimer` reads the
index, then the rotation, then pushes; the thread waits, walks its slot timer by
timer, turns the index and at the end of the wheel the rotation. These are
separate steps because the code takes its mutex for the push and the erasure only; what
a race inside `std::list` does is not refined. `due` and `overtaken` are
history: the walk a timer asked for, the timers during whose AddNewTimer the
wheel moved.

**SqlPool.** `list` is the vector of entries ABLE or UNABLE, `user[t]` a thread
away, searching, marking, setting the schema, growing, or holding a handle with
the connection and the *index* the deleter will write. `kind` says which class
the pool is of: CMySQLPool catches a failed connect in its constructor and
stays short, its deleter takes no lock; CMSSQLPool's exception leaves the
constructor, its deleter locks.

**TableClass.** `columns` and `numOfColumn` are what a generator found, `table`
and `rows` the database, which may alter the table at any moment (`Alter`). The
MSSQL generator counts and then lists, either query may fail; the MySQL one
asks once. `Members` are the C++ types by the code's own tests (`find("char")`
gives 0, false, just for the types that begin with it). A value is known by the member it came
from, so `rows` tells whether it is in its column.

**PacketGenerator.** One action per line read or structure made, and one per
header. The lines of a text are chosen one by one. An array's size is cut to 16
bits, and an unclosed block is read on past the end of the text.

**WatchDog, DumpTransmit.** `list` and `handles` are the worker's two
containers, edited in the code's order: request the dump, restart (append to both), close
the handle, erase from the list, drop the handle. The main thread walks the list under the
lock. Processes end whenever they like and may leave a dump, whose name begins
with the process number: so does that of a longer number (`Matches`). The
uploading thread waits like those of ThreadPool. The network model under the
client is EventSelect's: here it starts or it does not.

## 3 Runs

| Run | Instance | Shows |
|---|---|---|
| `CircularQueue` | 2 threads, 2 elements (3 slots), 2 data; the client: 2 packets, 3 reliable sends, HALF 3; fair | `LockDiscipline`, `OnlyPushedData`; `Linearizable` (implements `BoundedFifo`); no deadlock: who waits for the lock gets it; `ConsecutiveNumbers`, `DestroyReturns` |
| `BaseModel` | UDP socket with 2 peers and TCP receiver, queues of 2, numbers of 2 bits, datagrams repeated and reordered, any acknowledgement missing; fair | `ProcessQueueIsPrivate`, `UdpSequence`; `InOrderDelivery` (implements `LossyFifo`); `AcceptedIsHandled` |
| `BaseModel_zero_payload` | shorter streams | *violation*: `NoPacketLeftBehind` |
| `MemoryPool` | 3 threads, 2 chunks of 2 blocks, symmetric | `SingleOwner`, `NoBlockLost`, `FreeListIntact` |
| `ReliableUDP` | 2 packets, 2 transmissions each, queue of 1, one failing acknowledgement; fair | `DeliveryWithoutGaps`, `AckMeansReceived`, `NewestLast`, `HeapIntactWithoutTimeout`, `SendingEnds` |
| `Iocp` | 1 slot, 3 workers, 2 pending sends, 2 of which fail; 2 writers, 2 settlers, 3 buffers of 2 bytes, queue of 2; fair | `OneUserPerSlot`, `NoSlotForgotten`, `SlotAcceptsAgain`; `BuffersLive`, `WireIsTheStream` |
| `Iocp_left_bytes` | 1 slot, 2 workers, no sends | *violation*: `LeftBytesAreKept` |
| `ThreadPool` | 1 caller, 2 workers, job queue of 1, 3 jobs, 5 nodes; fair | `ResultsKept`, `WalkStaysOnList`, `QueuedIsCollected`, `DestructorReturns` |
| `Timers` | 2 threads, 2 timers (one loops), 2 handles, 1 missing UUID; a wheel of 2 slots, 2 timers, delays to 3, 5 walks; fair | `UsedAfterFreeOnlyIfOvertaken`, `CallsReturn`, `LoopGoesOn`; `OnTime` |
| `SqlPool` | 3 threads, up to 4 connections, both classes; 4 shapes of a table; every text of 6 lines of 7 sorts | `ExclusiveUse`, `NoConnectionLost`; `ValuesKeepTheirColumn`, `InsertsAreTaken`; `HeadersDescribeBlocks`, `ConstructorsInitialise` |
| `EventSelect_tcp_number` | the client alone | *violation*: `TcpHasAlwaysZero` |
| `WatchDog` | 0, 2 or 3 programs, 4 processes, request queue of 1, MaxWait 2; fair | `ListsAgree`, `EndIsHandled`, `RequestsAreTaken` |

**Bounds and why they are enough.**
*CircularQueue*: three slots are the fewest for which empty, partly full, full
and wrapped are different; two threads are the fewest for every pair of
operations to interleave, and the proofs cover all numbers of both.
*BaseModel*: queues of two let the storage queue overflow, be swapped partly
full and be tested empty while a packet arrives; numbers of two bits reach the
wrap at HALF within a stream; MAX_CHUNK 2 delivers parts of packets, also across
the border of two. Of the two peers one retransmits a number, with and without
the other's datagram in between. LOOP_COUNT is the server's own (IOCP.cpp:8).
UDP packets have a payload: a packet without one would be left in the buffer
(section 5), where `CheckAck` takes it for its own header. Streams are finite, so the runs end in a state where
the main loop goes on turning; there is no deadlock.
*MemoryPool*: the list runs empty after two blocks, and memory after four;
three threads give one call inside and two competing. Deadlock is not checked:
a read through the null head ends the program.
*ReliableUDP*: a packet and its successor, each sent twice, are the cases the
protocol distinguishes; the queue of one fills. `Len(Packets) < HALF` excludes the
wrap of the counter, packets carry a payload, and only the direction client to
server is modelled. Deadlock is not checked: the client may be done, or the
destructor may wait for ever (the hazards `UDPSocket.cpp:24, 37`).
*Iocp*: slots share nothing but the port and the workers, and no handler waits
for another, so one slot shows the interleavings; three workers are as many as
one slot ever keeps busy with two failed sends. MAX_FAILED bounds how many
accepted sends fail: each failed send adds one more user of the slot.
Two bytes are the fewest of which a first part can be sent; three buffers let
two sends be on their way and a third follow a settled one, and the queue of
two fills; two workers and two writers can come in any order. Deadlock is not
checked: when an error was ignored for every slot, the server really stops
serving, and a behaviour of the send queue ends when each buffer was used.
*ThreadPool*: three nodes besides the heads are one per job, so a freed node is
the next to be used; the job queue of one refuses jobs. Deadlock is not
checked: the pool stops, and a missed notification keeps the destructor
waiting.
*Timers*: two timers under handles that may be the same collide, and a cleared
handle is used again; with two slots, delays to 3
end in this turn, in the next, and after it; five walks are two turns and
a half. Deadlock is not checked: a lock that was not left stops every caller.
*SqlPool*: half of four connections are made by the constructor and half on
demand, so the count and the place can part; three threads are one holding, one
searching and one giving back. The tables differ in order, number and types of
columns. Six lines hold two blocks that lack any one of their lines, or one
with members of each sort. Deadlock is not checked: a generator ends.
*EventSelect* (beside `CircularQueue`, with which it shares nothing there): three
sends with HALF 3 reach the wrap after a number; two packets, as one packet may
be sent twice and over several transports. A client that is gone stutters, so
that nothing else may stop.
*WatchDog*: three programs are more than MaxWait, none is too few; four
processes leave room for two restarts; the number of the second begins with
that of the first. Deadlock is not checked in either: both end.

**Fairness and why the code justifies it.**
It is weak but for three cases named below: the operating system runs every
thread that can run. The queue of `CircularQueue` and `MemoryPool` assume none.
*BaseModel*: the main thread (the application calls Run in a loop) and each
receiver inside `ReceiveDataProcessing`; peers are not obliged to send. The
streams are finite, so a receiver takes the queue lock finitely often; with
peers that never stop, Windows would have to hand the lock to Run eventually.
*ReliableUDP*: the application inside `SendTo`, both threads of ReliableUDP,
whose wait for an acknowledgement `wait_for` limits to a time, and the
receiving thread inside `SendCompletion`; the network and the server owe
nothing, and neither does the destructor.
*Iocp*: weak fairness of each worker, of the end of a receive on a
connection that is gone or closing, of the completion of sends and of
disconnections, which the system owes; clients owe nothing.
*ThreadPool*: each thread of the pool, a caller inside `EnqueueJob` and the
destructor once called; jobs end. Nobody has to call, and no wait ends for no
reason.
*Timer*: callers inside a call, the expiry of pending waits, the timer thread,
the destructor's later steps; strong fairness of each `RunHandler(t)`, because
`run()` takes handlers in the order they were queued, so one timer that loops
cannot keep the others' from running; and of each caller at the list's lock,
which Windows hands to the next thread that waits and not to one caller for ever.
*EventSelect*: each thread that was woken, and Destroy once called; neither
network nor application owe anything.
*WatchDog*: the main thread once it has the list's lock, the uploading thread, and
strong fairness of the worker: it competes for a lock the main thread takes in
every turn, and Windows hands it over eventually. Children need not end.

**What some results say.** `OneUserPerSlot` needs the restriction to slots
without a failed send: the ends of the receive and of the send are then two
completions, which two workers handle side by side. `AckMeansReceived` excepts
packet number 0, because the completed number starts at 0.
`HeapIntactWithoutTimeout` cannot be strengthened to "never crashes": after a
timeout the packet stays in the cache when it is freed. `UdpSequence` counts the
packets of a peer that were accepted *and* acknowledged: without the
acknowledgement the server does not remember the number, and with
`EnableAckCheck` off it accepts number 0 again and again and nothing else. It
includes that a peer is heard for HALF packets and no more.

The other exceptions in the properties are equally real behaviours of the code:

* `BuffersLive` holds with any number of sends on their way, although a
  completion does not say of which send it is, until a completion takes a second
  `WSASendData`, in flight or not, because the count is not decreased (`swept`), or
  two writers queue in one order and send in the other (`crossed`). Without either
  of the two exceptions the run fails.
* `WireIsTheStream` speaks of writes that wait until the one before is settled: the
  rest of a partial send is put after whatever was sent meanwhile. That rest is
  never freed, and lost if it is sent in part itself.
* `QueuedIsCollected` and `DestructorReturns` except the collecting thread that
  strayed (its node was used again between erasure and increment) or
  terminated (`get` of a broken promise), and the latter a worker that missed
  the notification, because the flag is set without the mutex.
* `UsedAfterFreeOnlyIfOvertaken` names the one way a freed timer is used;
  `CallsReturn` excepts a caller that waits for one whose handle was taken and
  that returned with the list's lock (a caller may itself enter again), and a
  missing UUID, after which Generate's lock stays taken.
* `OnTime` excepts delays that end after the next turn (whole turns too soon)
  and timers under whose AddNewTimer the wheel moved.
* `ExclusiveUse` and `NoConnectionLost` except a CMySQLPool that came out of
  its constructor short; a connection whose schema does not exist is spoiled
  for good.
* `ValuesKeepTheirColumn` speaks, for the MSSQL class, of selects of the first
  members in their order: the generated select reads by the member's position.
  As it adds no row to its output and throws for strings, and two
  conditions are joined without a blank into no SQL, few selects return
  anything. The class of the MySQL generator is taken with the two slips of its
  text mended (a missing comma, `main.cpp:221`; one fixed name, 241).
* `HeadersDescribeBlocks` and `ConstructorsInitialise` except sizes from 2^16 and a last member
  that is an array, after which a comma is left.
* `ConsecutiveNumbers` ends when something is accepted from the server, which
  moves the same counter.
* `EndIsHandled` and `RequestsAreTaken` end with the shutdown. The worker waits
  without a limit, so that pressing q stops the watchdog only when the next
  child has ended, and a missed notification keeps Destroy waiting for the
  uploading thread; neither contradicts a doc, so neither is a property.

Each property of a passing run has a mutant in `PROJECT.json`: a plausible bug,
written next to the action as a definition commented "Defect", with which TLC
finds the property violated.

## 4 Proofs

The theorems hold for every value of the constants that satisfies the named
assumptions of the modules (`QUEUE_LENGTH` at least 2, distinct null and
marker values, HALF positive, and the like; no finiteness of threads,
receivers or data is needed; `SqlPool` needs `MaxConnections` a natural number,
`TableClass` that tables are sequences of named and typed columns, `TcpSend`
that messages are not empty, `PacketGenerator` that what is written for a member
(`m_x(x)`) is not the comma between two of them, `ThreadPool` finitely many nodes and two distinct
heads, and the free lock's owner is distinct from every
thread: `NoThreadAssumption` of `CriticalSection`). `WatchDog` takes the
numbers that the system gives to processes, `Numbers`, to be distinct
(`NumbersAssumption`): the watchdog holds a handle to every process in its list,
and while a handle is open the system gives its number to no other process. That
a number may come back after its handle was closed is left out.

| Module | Theorem | Property |
|---|---|---|
| `RingQueueProofs` | `PushedContents`, `PoppedContents` | what push and pop do to the contents of a ring of any length |
| `ContainerProofs` | `TypeCorrect` | `TypeOK` |
| | `LockIsDisciplined` | `LockDiscipline` |
| | `PopsOnlyPushedData` | `OnlyPushedData` |
| | `QueueIsLinearizable` | `Linearizable` |
| | `ResultsAreKept` | `ResultsKept` |
| | `TheWalkStaysOnItsList` | `WalkStaysOnList` |
| `BaseModelProofs` | `TypeCorrect` | `TypeOK` |
| | `ProcessQueueStaysPrivate` | `ProcessQueueIsPrivate` |
| | `UdpAcceptsInSequence` | `UdpSequence` |
| | `DeliveryIsInOrder` | `InOrderDelivery` |
| `MemoryPoolProofs` | `TypeCorrect` | `TypeOK` |
| | `BlocksHaveOneOwner` | `SingleOwner` |
| | `BlocksAreNeverLost` | `NoBlockLost` |
| | `FreeListStaysIntact` | `FreeListIntact` |
| `ReliableUDPProofs` | `DeliveryHasNoGaps` | `DeliveryWithoutGaps` |
| | `AcknowledgedIsReceived` | `AckMeansReceived` |
| | `HeapStaysIntact` | `HeapIntactWithoutTimeout` |
| | `OldPacketsComeFirst` | `NewestLast` |
| `IocpProofs` | `SlotsHaveOneUser` | `OneUserPerSlot` |
| | `SlotsAreNeverForgotten` | `NoSlotForgotten` |
| | `SentBuffersAreLive` | `BuffersLive` |
| `ClientProofs` | `SendsAreConsecutive` | `ConsecutiveNumbers` |
| | `TheListsAgree` | `ListsAgree` |
| `ServiceProofs` | `PoolTypeCorrect` | `TypeOK` |
| | `ConnectionsAreExclusive` | `ExclusiveUse` |
| | `ConnectionsComeBack` | `NoConnectionLost` |
| | `ValuesStayInTheirColumn` | `ValuesKeepTheirColumn` |
| | `NoInsertIsRefused` | `InsertsAreTaken` |
| | `HeadersAreTheirBlocks` | `HeadersDescribeBlocks` |
| | `ConstructorsAreComplete` | `ConstructorsInitialise` |
| | `FreedTimersWereOvertaken` | `UsedAfterFreeOnlyIfOvertaken` |
| | `TimersAreOnTime` | `OnTime` |

Each specification has one inductive invariant (`IInv`; `Inv` for the allocator;
`SendInv`, `ClientInv`, `PoolInv`, `TableInv`, `PacketInv`, `TimerInv`, `WheelInv`
where a proof module has several), the lemma that the initial states satisfy it,
one lemma per action that the action keeps it, and the theorem that it holds in
every state. The listed theorems follow from it.

* **CircularQueue.** `TypeOK`, `LockDiscipline` and `OnlyPushedData` are not
  inductive alone: a thread in the middle of an operation relies on what it read.
  `IInv` adds, for each thread and place, what its locals say of the indices
  (`At(t)`: at `pushStore`, `index[t]` is the successor of the tail and the
  queue is not full, and so on). Only one thread is inside (`Exclusion`), so a
  step of one cannot disturb what another knows. For the refinement, a call
  takes effect at the store of the tail or head, or at the test that fails;
  every other step is a stutter of `BoundedFifo`. `RingQueueProofs` supplies
  that moving an index is Append or Tail of the contents, over the wrap.
* **BaseModel.** `LockInv` says who holds the queue lock and that the storage
  queue has its critical section on and is not the process queue; `RunInv` that
  the process queue is empty from the test to the swap (only `Run` could
  change that, and nobody else pushes on it: this is why the unlocked test
  is sound); `CutInv` that an accepted packet stays whole in the buffer until it is
  pushed; `NumberInv`, per UDP socket, that at most one datagram is in the buffer,
  that before it is looked at its peer's number is the one expected
  (`DatagramInv`), and that this number counts the peer's packets accepted and
  acknowledged so far (`CountInv`). The
  contents of the process queue followed by those of the storage queue are the
  `pending` of `LossyFifo`; the swap exchanges them when the first is empty and
  so changes nothing.
* **MemoryPool.** `Inv` adds what each place of a call has in its hands: that
  the lock is held, that the head is the first of `free`, that a block being
  given back is linked to the head before the head moves. Between looking at the head
  and moving it a thread has in its hands a block that is still free
  (`InHand`): only because it holds the lock can nobody else take it.
* **ReliableUDP.** Stop and wait is a matter of order: `OrderInv` says that what
  waits in the queue is newer than whatever has been on the wire, and newer than
  the packet being sent. `NumberInv`: the packets are numbered by their place in
  the order of sending, because an acknowledgement names a number that is below
  the counter and so never moves it. `AckInv` follows what the client believes
  back to the server: each acknowledgement on the wire, the one the receiving
  thread has taken, and the number stored last belong to a packet the server has
  received; only the initial 0 is nobody's. `ServerInv`: the packet accepted last
  is the one before the number expected or, if its acknowledgement failed, that
  number itself, which is why a gap cannot open. `HeapInv`: as long as no wait has
  timed out nothing is in the cache, so the packet being sent is freed by its
  sender only.
* **Iocp.** The carriers of a slot (workers in a handler, completions in the port,
  operations pending in the system) are conserved: each handler takes one
  completion and ends by asking the system for one operation. Two steps change
  the number: an ignored error takes a carrier away, a failed send adds one. The
  lemmas count the sets involved (`Working`, `Queued`), so `FiniteInv` keeps them
  finite, however many workers there are.
* **TcpSend.** `SettlingInv` holds until something is swept or crossed. What is
  in flight or with a writer is queued, and behind whatever queued one was sent,
  or is to be sent, sooner (`OrderInv`). Each completion is of another `WSASendData` that was sent
  (`OwedInv`), and there are no more of them than sent ones in the queue
  (`CountInv`): so when a worker pops for a completion, some queued one was sent,
  and the first, which no later one precedes, is neither in flight nor with a
  writer. `RestInv`: a rest that is to be sent is not
  queued any more, and nobody frees it.
* **EventSelect.** `CounterInv`: until something is accepted from the server,
  the counter is the number of packets sent as long as that is below `HALF`,
  and the packet between its numbering and its sending carries the next number.
  An acknowledgement of a packet that was sent never moves the counter past
  that, which is why late and repeated ones do no harm.
* **WatchDog.** `AgreeInv` says for each place of the worker how far the two
  lists are apart: not at all, in the entry being edited, or by the handle
  that is to be dropped. `OnceInv`: each process is in a list once, so closing one handle
  cannot close that of another entry, which `OpenInv` needs. `LockInv`: the
  main thread walks the list only while the worker edits nothing.
* **SqlPool.** Neither property is inductive: that the deleter frees the right
  entry needs that the index in a handle is the place of its connection, which
  holds because the count and the length of the vector grow together
  (`CountInv`) unless the constructor came out short, and a thread that gives
  back must not free what another one just took (`HandleInv`: the entry of a
  connection in somebody's hands is UNABLE, and a thread about to mark an entry
  still finds it ABLE, as only the holder of the lock marks: `LockInv`). That MySQL's deleter
  writes without the lock is harmless for exactly this reason.
* **TableClass.** `RowsInv`: a row's columns are those of the table, so that an
  alteration renames no value; `FoundInv`: until the table is altered the
  generator's count and its labels are the table's. Its lemmas say what the
  queries return of a table of any length.
* **ThreadPool, CircularLinkedList.** A list is the *circle* of its head, the least
  set of nodes that has the head and is closed under `next`; a set is least by
  definition, so nothing is counted or walked in the proofs. `PushBackLinks`,
  `EraseLinks` and `LinkedFrame` say what the three things that happen to the heap
  do to a circle: it gains one node, loses one, or stays. `PlaceInv`: both circles
  are linked in both directions and every node is on one of them, with the
  caller that appends, or free. `DataInv`: a job is in one node or with one caller,
  and not handed out. `WalkInv`: the iterator is on the processing circle, and
  a node it has freed leads back into it for as long as it is free, which
  is why the walk goes on over freed memory until somebody takes the node.
* **PacketGenerator.** `OpenInv` says what the one structure that is used for all
  blocks holds at each line: the last name since the last block, and after the
  opening bracket the lines read since. `StructureInv` says the same of each
  finished structure with its block, and survives the reading of further lines
  because it speaks of lines that were read. For the text of a constructor,
  `SetInduction` gets induction over the naturals out of the well-foundedness of
  `<`, as a fact about sets, so `FlattenSteps` can say what the library's
  `FlattenSeq` is: the pieces joined one by one. `Passed` is then the invariant of
  the two loops of the generator (`main.cpp:122-143`), member by member.
* **Timer.** `ListedInv`: a listed timer is under one handle, so ClearTimer frees it
  once. `FreedInv`: what is freed has no pending wait; if its handler is queued,
  ClearTimer came after the expiry. A caller keeps the list's lock from
  the look-up to the deletion (`ListLockInv`), also when an earlier call of its
  own collided and never left it.
* **TimingWheel.** `PositionInv`: the walks counted are the rotations times the size of the
  wheel plus the index, up to the step the turner is in. By division with
  remainder (`Euclid`) a slot and a rotation determine one walk, `Target`, and
  `AddedInv` says that a timer that was not overtaken waits in its slot for this walk or was
  called back in it; `AddingInv` that what AddNewTimer read is still so.

`TypeOK` of these modules is proved, and no run spends time on it. Only
model-checked, because the prover does not treat them, are the liveness properties
(`AcceptedIsHandled`, `SendingEnds`, `SlotAcceptsAgain`, `QueuedIsCollected`,
`DestructorReturns`, `CallsReturn`, `LoopGoesOn`, `DestroyReturns`,
`EndIsHandled`, `RequestsAreTaken`). Of the safety properties of the runs that are
to pass all are proved but `WireIsTheStream`, which says something only of one
write at a time, and which the run shows for every way to cut it. The abstraction of a queue operation to one step is
justified by `QueueIsLinearizable`, but the step from there to the modules that
use it is an argument of this file, not a theorem.

## 5 Disagreements between code and comments

* **A packet of a header only waits** (`BaseModel.cpp:57-58`). The comment says
  the header is taken when as much as a header has come; the code asks for
  more. A packet without payload stays in the buffer, though complete, until
  the next bytes arrive. Run `BaseModel_zero_payload`.
* **Remaining bytes of the last connection** (`User_Server.hpp:27`,
  `TCPSocket.cpp:46-49`). The count of remaining bytes is there, says the
  comment, so that data read before is not overwritten. It is never reset when
  a slot changes its client; AcceptEx then writes the addresses of the next
  peer over the bytes that still count, and the next packet is parsed with them
  in front. Run `Iocp_left_bytes`.
* **A number other than 0 over TCP** (`BaseModel.cpp:63`,
  `EventSelect.hpp:107`). Where the numbers are compared, the comment says "for
  udp, tcp has always 0". SendTo writes the number into its caller's packet
  through a `const_cast`; the same packet given to Send afterwards goes over TCP
  with it, and the other side, which expects 0 of TCP for ever, consumes and drops
  it. Run `EventSelect_tcp_number`.

## 6 Not modelled

* Of the IOCP server: `Destroy`, and the connection list, which workers append
  to and search without the lock made for it (a race in a standard container
  has no states to enumerate). Of the sockets: Listen, Connect, the Write from
  a buffer of the socket, the bytes of the UDP send buffer.
* Of reliable UDP: replies of the server through the same two threads (the
  counter they share with the sends is in `EventSelect`).
* The database library behind the SQL pools; statements and drivers are
  external, except for what `TableClass` needs of them.
* Of the generators: in the headers of packets the two constructors without
  members, which initialise none (`main.cpp:104-105`), the assignment (145-161)
  and the serialisation (163-172); the choice of a table by the user, parameter types. `MSSQLTableGenerator` calls
  an `ExecuteQuery` with one argument, as does the `user_info.h` beside it; the present
  `MSSQL.hpp` has none. It is modelled as a query.
* Log, Minidump, MemoryLeak (output and OS calls); SocketAddress, FPSManager,
  Uncopyable, serialization (values and conversions); the flatbuffer classes of
  the WatchDog packets (generated); `MemoryPool.hpp` (included by nothing).

## 7 Plan

Done, in this order: `RingQueue`, `CircularQueue` (with `BoundedFifo`),
`BaseModel` (with `LossyFifo`), `MemoryPool`, `ReliableUDP`, `Iocp`;
then `SqlPool`, `ThreadPool`, `Timer`, `TimingWheel`, `EventSelect`,
`WatchDog`, `TcpSend`, `TableClass`, `PacketGenerator`;
then the proofs of the safety properties of the runs.

Next:

1. A theorem in place of the argument that ends section 4: a module which uses a
   queue in one step, composed with `BoundedFifo` instead.
2. An abstract specification of reliable delivery, a sequence of packets that is
   handed over in order or given up, and `ReliableUDP` shown to implement it from
   `DeliveryWithoutGaps` and the invariant behind it.
