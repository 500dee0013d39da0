# Magic Wand comms backbone: TLA+ models and proofs

Magic Wand splits the network stack of a protected virtual machine (PVM) off
into small, replaceable virtual machines, the isolated network stacks (INS).
A program in the PVM makes an ordinary socket call; a shim library turns it into
a request message; the PVM kernel driver `mwcomms` puts the request on a ring of
memory shared with an INS; the INS, a Rump unikernel, performs the call on its
own TCP/IP stack and puts a response on the same ring; the driver hands the
response to the thread that waits for it.

This directory models that path from both ends, checks it with TLC on small
instances and proves its safety properties with TLAPS. `PROJECT.json` lists the components,
runs, hazards and theorems and maps every definition to the lines it models.

## 1. Inventory

Paths are under `src/`. *Hard* names what tests hardly reach.

**Shim library** (`protvm/user/wrapper/tcp_ip_wrapper.c`). State: a per-process
table of descriptors. `mwcomms_write_request` writes a request to the socket's
file, again while the write is interrupted, and reads the response if it asked
for it. It is the environment of the driver.

**PVM driver, socket layer** (`protvm/kernel/mwcomms/mwcomms-socket.c`). State:
socket instances (reference count, `request_sem`, `close_lock`, `blockid`,
`close_blockid`, flags) and active requests, one for every request whose response
has not been dealt with. Operations: `mwsocket_write`, `_read`, `_ioctl`, `_poll`,
`_release`, creation; kernel threads: response consumer, poll monitor, reaper.
*Hard:* an active request is shared by its sender, the consumer and its waiter,
and freed by one of them; waits time out or are interrupted; `close()` must not
overtake requests in flight; sockets are closed by their user, by netflow
mitigation and by the death of an INS.
*Correct if:* nothing is used after it is freed and everything is freed in the end;
each thread gets the response to its own request; Close comes after what it must
wait for; every call returns.

**PVM driver, ring and INS table** (`mwcomms-xen-iface.c`). State: a table of
INSs with front rings, request locks, heartbeat counters. Operations: get a slot,
send, take a response, register an INS from XenStore events, age heartbeats, give
an INS up. *Hard:* full ring, indices that wrap, lost wake-ups, an INS that dies
while threads wait for its ring, reuse of a table slot.
*Correct if:* nothing unread is overwritten, each request is delivered once and in
order, no wake-up is lost, the request lock is always released.

**INS device driver** (`ins/ins-rump/src-netbsd/sys/rump/dev/lib/libxenevent/`).
State: back ring, event channel, `messages_available` semaphore, read and write
locks. Operations: read a request, write a response, event callback. The other
end of the ring.

**INS application** (`ins/ins-rump/apps/ins-app/`: `xenevent.c`, `networking.c`,
`pollset.c`). State: pool of buffers, pool of worker threads, each with a work
queue, a semaphore, an oplock and at most one socket; published listening ports.
The dispatcher reads requests and performs the quick ones itself; the slow ones
(connect, send, accept, receive, getname) go to the worker that owns the socket.
*Hard:* buffers and threads are reused while old requests are still queued; the
dispatcher blocks on oplocks; workers take threads (accept) while the dispatcher
frees them; failures halfway.
*Correct if:* a buffer has one owner, a descriptor the PVM holds is served, each
request is performed on its own socket and answered once.

**INS work queue** (`workqueue.c`). A circular buffer with two indices and a count.
*Correct if* it is a bounded FIFO.

**Accept and listener replication** (`mwcomms-socket.c`, 2131-2165, 2386-2600,
3735-3990). State: the user's socket and its replicas ("sibling listeners"), one per
INS, the flag that says which of them have an accept outstanding, the queue of inbound
connections, `sock_rep_lock`. Operations: `accept()`, a write that replicates the
listener onto every ready INS and sends an accept to each, then a read that takes the
first connection from any of them; the work item that does the same for a new INS; the
monitor thread, which drops the replicas of a dead INS and, when the user's own socket
was on it, copies a replica over it. *Hard:* several replicators at once, each waiting
for an INS; INSs that join or die in the middle; a socket whose identity changes under
a blocked thread. *Correct if:* an INS has the listener and its accept once, no running
INS is left without an accept while the user waits, no connection of a live INS is lost,
and a blocked accept returns.

**Poll monitor** (`mwcomms-socket.c`, 2767-2942; INS `pollset.c`): asks every INS for
its events 32 times a second and wakes `poll()` waiters.

**Netflow** (`mwcomms-netflow.c`, `util/mw_netflow*.py`): reports events to TCP
clients and accepts mitigation requests (close a socket, block an address).

**Descriptor encoding** (`common/mwsocket.h`), **messages**
(`common/message_types.h`), **driver base and debugfs** (`mwcomms-base.c`,
`mwcomms-debugfs.c`), **load balancer** (`util/mw_distro_ins.py`).

Interactions: shim -> driver by system calls on a file; driver -> INS by the ring
and the event channel; dispatcher -> worker by queue and semaphore; worker or
dispatcher -> driver by the ring; netflow thread -> socket layer by calls.

## 2. Modules

| Module | Models | Source |
|---|---|---|
| `BoundedFifo` | what a queue promises | - |
| `WorkQueue` | the circular work queue | `workqueue.c` |
| `WorkQueueProofs` | theorems about it | - |
| `RequestChannel` | what the ring promises | - |
| `XenRingProofs` | theorems about `XenRing` | - |
| `XenRing` | ring, event channels and semaphores, both ends | `mwcomms-xen-iface.c`, `xenevent_comms.c`, `xenevent_device.c`, `xenevent_minios.c` |
| `InsDispatch` | dispatcher, workers, network operations | `xenevent.c`, `networking.c` |
| `InsDispatchProofs` | theorems about it: queues and oplocks | - |
| `InsItemsProofs` | buffers, answers, types | - |
| `InsSocketsProofs` | descriptors, socket count, ports, stranded threads | - |
| `InsOrderlyProofs` | requests, sockets and Close | - |
| `MwSocket` | one socket, its threads, requests, consumer and reaper | `mwcomms-socket.c` |
| `MwSocketProofs` | theorems about it | - |
| `Listeners` | one listening socket spread over all INSs | `mwcomms-socket.c`, `mwcomms-xen-iface.c` |
| `ListenersProofs` | theorems about it | - |

`MC...` modules and `.cfg` files hold the instances. Operators named "Variant with
a fault" in their comments are never part of a specification: each changes one
definition the way a plausible bug would, and shows that some property notices.

The modules meet at their interfaces: `RequestChannel`, which `XenRing` implements,
is the ring `MwSocket` sends on and `InsDispatch` reads from. `InsDispatch` shows
that requests for one worker are performed in order, which `MwSocket` takes over
(`InsAnswers`); `MwSocket` shows how far Close waits for other requests, which
`InsDispatch` takes as the parameter `CloseWaits`. `Listeners` takes from `MwSocket`
that a request whose caller waits is answered, or completed by the reaper, and looks at
many sockets on many INSs where `MwSocket` looks at one.

### WorkQueue

Variables are the fields of `struct workqueue`; `workqueue_enqueue`,
`workqueue_dequeue` and `workqueue_is_empty` are one action each, since every call
holds the queue's mutex throughout. `Contents` reads the occupied slots as a
sequence; `Fifo` is `BoundedFifo` with that sequence.

### XenRing

Indices are free-running unsigned integers, here modulo `RING_SIZE * LAPS`; the
macros of `xen/interface/io/ring.h` are operators. A sender goes through lock, slot,
fill, push and release; the INS reader checks the ring and then downs its semaphore;
workers write responses under the write lock into slots of requests already read;
the PVM consumer checks the ring and then downs `event_channel_sem`. Events may
merge while one is pending. `mw_xen_release_ins` may strike at any moment; an event to
an INS that is gone may then fail, with the request left on its ring.

### InsDispatch

Rump's scheduler is cooperative, so a step is what a thread does from one call that
can block to the next, and workers do not run while the dispatcher is between
`reserve` and `enqueue` (`Yielded`). Sockets are named by the request that created
them; the public descriptor is the thread's index, as in the code, so reuse is
visible. Network results are chosen freely: success, failure, peer closed. `Faults`
says which internal errors (`npfctl`, `poll`, `fcntl`, and `publish`: the list of ports is
too long or the ioctl fails) can happen. `CloseWaits` are the types of request the PVM
awaits before it sends a Close; a Close records the requests it overtakes. Operations with
the same effect on this state share `PlainOperation`. The loops in receive and send that
read `local_fd` again on each turn are one step here, and so are the decrement of the
socket count and the `close()` that follows it.
`ENOMEM`-like failures of set-up code are left out, as is the "queue full" branch:
the queue has as many slots as there are buffers.

### MwSocket

One socket instance and the threads of its process. A thread's program counter
follows `mwsocket_write` (`write`, `slot`, `prepare`, `trylock`, `push`),
`mwsocket_read` (`mustread` between the two calls, `read`), the kernel's own waits
(`await`) and the end of `mwsocket_release` (`closed`, `done`). The consumer finds a
request under the list lock, post-processes it and decides its fate in three steps,
because it holds no lock and no reference in between. The reaper walks the list of
requests the way `list_for_each_entry_safe` does, one request per step, with the next one
remembered, and takes no lock (the calls that would are commented out). Nothing keeps a
wait from timing out on a request the consumer has found, or the reaper from touching one
that is being sent or completed: `race` records that it happened. A thread whose next step
uses a request or a socket that was freed records itself in `oops`, and the behaviour ends
there. Treated as atomic: the destruction of a request, and the test and set of
`remote_close_requested`. `release()` happens only when no thread is inside a call on
the file (the VFS guarantees it), but possibly while one is between its write and its
read. The INS may crash, and it may be given up while it still runs; after either the
monitor thread calls `mwsocket_reap_dead_sock_instances`, which completes the requests
somebody waits for, drops the others and marks the socket. A signal that interrupts a wait is an action only of `SpecWithSignals`;
mitigation only of `SpecWithMitigation`.

### Listeners

The user's socket is 0 and the replica on INS `d` is `d`; `home` is the INS of the
user's socket, read off its `remote_fd`. An active request here is an accept and stands
for the connection it returns. A replicator (`p`: the user's thread, or the work item of
an INS) walks the slots: `LookAtSlot` skips those whose ring is not ready, `Replicate`
takes `sock_rep_lock` and finds the user's socket, a replica or nothing on that INS; with
nothing there it waits for the create (`CreateReplica`), then for bind, listen and the
option (`SetUpReplica`), with the lock held, and sends an accept if the socket has none
outstanding. `accept()` is `BeginWrite`, the replication, `EndWrite`, `BeginRead` and
`TakeInbound`. The consumer queues the connection (`mwsocket_postproc_no_context`, up to
`up(inbound_sem)`) and comes back to the request in a step of its own (`FinishResponse`),
which the user's thread may overtake. Mitigation may close the user's socket or a replica
at any time (`mwsocket_close_remote`): a connection of that socket is then queued, but not
to be delivered, and the consumer destroys it. An accept that cannot be sent costs its
socket a reference (`FailsToSend`, `stale`). `mwsocket_reap_dead_sock_instances` covers all INSs released since the
last call; when the user's socket is among the dead and accepting, it is replaced by a
replica (`Promote`) or its accept is completed with an error (`FailAccept`). It destroys
the outstanding accepts of dead replicas and keeps those already queued, whose message is a
response by then (`Reaped`); the queued ones of the user's own socket it destroys on a
promotion.

Abstracted: ids are recycled (any id that nothing knows stands for the next one); which
replica is promoted is chosen freely, the code takes the first of a list; an INS keeps
its slot and no slot is used twice; a thread sends an accept, and the monitor reaps, in one
step; every accept succeeds, but for sockets that mitigation has closed. The create of a replica on an INS
that has crashed may time out at any moment, the other requests of its set-up fail once
the INS is released. A step that follows a pointer to freed memory, or a null
pointer, sets `oops`, after which nothing happens: the properties say what holds up to
then, and `SafeUntilDisturbed` that it takes the death of an INS, a close by mitigation or
the consumer overtaken by the user's thread to get there.

## 3. Runs

| Run | Instance | Shows |
|---|---|---|
| `work_queue` | 3 slots, 3 items | the queue is a bounded FIFO (refinement) and its indices and count agree |
| `ring_safety` | 2 senders, 2 slots, 4 requests, indices modulo 4 | index order, nothing unread overwritten, the assertion in `xe_comms_write_item`, refinement of `RequestChannel` |
| `ring_liveness` | 1 sender, 2 slots, 3 requests | what was sent is delivered; the request lock is released |
| `ins_safety` | 2 threads, 3 buffers, 4 requests of all types, all faults (a failed publication included), a PVM that never waits before Close | buffers, threads, queues, oplocks, counters and ports stay consistent |
| `ins_orderly` | 2 threads, 5 buffers, 5 requests of 5 types, failing `npfctl`, the driver's own `CloseWaits` | only what a Close may overtake reaches another socket or marks it closed; every request is answered, and once, but for address blocks whose `npfctl` fails |
| `oplock_stolen` | 1 thread | *violation*, see findings |
| `close_with_requests` | 1 thread, the driver's own `CloseWaits` | *violation* |
| `buffers_exhausted` | 2 buffers | *violation* |
| `socket_layer` | 2 threads, 2 requests and the Close, 4 kinds of call | references, who may use freed memory and why, own responses, order of Close, calls return, sockets are freed |
| `listeners` | 2 INSs, 1 accepting thread, 2 work items, 4 accepts at a time, mitigation of the replica on INS 2 | one listener and one accept per INS, no deaf INS, connections kept, blocked accepts moved to a live INS, failures have a cause, what may use freed memory, accepts return |
| `parallel_requests` | `socket_layer` with signals | *violation* |
| `mitigation_close` | the same with mitigation | *violation* |

**Bounds.** `item_ct = 3` makes the indices wrap at each offset and meets the queue
empty, partly filled and full. Two ring slots and indices modulo four make the ring
fill, and the indices wrap, within four requests, with requests and responses side by
side; one slot would keep the two directions from overlapping. Four requests of every
type on two INS threads are enough for create, use, close and reuse of a thread, for
an accept that takes the other thread, and for two requests racing with a Close;
three buffers let the pool run out and recover. In `ins_orderly` there are as many
buffers as requests, since otherwise the run meets the finding about exhausted
buffers; its `CloseWaits` are `MT_CLOSE_WAITS`, with `GetName` for both name requests, so a
queued Recv is overtaken and a Send is not, unless the driver gave up waiting after sixty
seconds (`forced` in `MwSocket`), which is left out here. In `socket_layer` two threads with a request each and a Close are the least in which
a thread can read another's response, a Close can overtake two requests, and an early
request can be forgotten by `close_blockid`; with `MaxRequests = 4` the same
properties hold on two kinds of call (a run of some minutes, not kept). Its deadlock check is off because
the system really stops: the socket is closed and freed.

In `listeners` two INSs are the least with a replica, a promotion and a second death,
and the work item of each INS races the user's thread over both slots. Four accepts at a
time are one outstanding and one queued connection per INS. `Closable` bounds what
mitigation may close: the replica here (1.46 million states); with the user's own socket
instead the same properties hold (1.88 million, not kept). `Bounded` refuses a new accept or a
new INS when the replicators at work could run out of ids, so no step in the middle is
cut off; `IdLeft`, which says so where an accept is sent, removes no state and lets the
proofs do without the sum in `Bounded`. Three
INSs are beyond TLC; the theorems hold for any number. Deadlock is
not checked because the system really stops: when all INSs are dead, when no client
connects, or after `oops`.

**Fairness.** `ring_liveness`: the kernel threads, the INS threads and a sender inside
the request lock keep running, workers answer what they have read, and a pending event
is delivered. Taking the lock and sending are never forced. `ins_orderly`: threads that
can run do, and each network operation ends. The PVM need not send. `socket_layer`: a thread inside a system call continues,
the consumer runs, the INS answers unless it dies, and the shim reads the response it
asked for. Timers expire, so `await` always ends. An
INS that crashed sends no more heartbeats, so it is released and its sockets are reaped
(`mwsocket_monitor` does both in each turn); `CallsReturn` and `ReleasedIsFreed` hold in
that case too. `listeners`: threads that have begun go on, crashed INSs are released and
reaped, and clients keep connecting to every INS that accepts, without which no accept
need return. Weak fairness is all that is used.

**No assumption on time.** Time-outs and the reaper may strike at any moment. The code
relies on `GENERAL_RESPONSE_TIMEOUT` being long against the consumer's few instructions,
and on the seconds between the last heartbeat and the reaper; neither is enforced, since a
time-out may expire just after the lookup and a sender may wait for a slot or, for up to
sixty seconds, for the close lock. The properties of `socket_layer` therefore say what
holds regardless: the reference count is right up to the moment something freed is used,
and `NoUseAfterFree` traces each such use to a time-out or to the reaper.

## 4. Findings

Each is a run that TLC refutes; `PROJECT.json` quotes the lines.

1. `oplock_stolen`: any operation on a thread releases its oplock, so a Shutdown or
   Close runs while a Send is in progress.
2. `close_with_requests`: Close waits for Send, GetName and GetPeer only; an Accept or
   Recv still queued is then answered after the Close, and is performed on whichever
   socket the thread has by then.
3. `buffers_exhausted`: with no free buffer the dispatcher spins without yielding on a
   cooperative scheduler. The ring has about 256 slots (1 MiB, messages up to 2 KiB and
   more) and there are 100 buffers, so it can be reached.
4. `parallel_requests`: an interrupted write releases `request_sem` without having
   acquired it.
5. `mitigation_close`: after a Close by the netflow thread the close lock stays taken,
   and a Send already past its check waits for it for good, holding the ring's lock.

Met on the way, and excused by name in a property instead of being a run of its own:

* a wait that times out destroys the request under a consumer that has found it. TLC
  needs nine states. `mwcomms-socket.c:1333` says of the request that "the response
  consumer won't find it when/if the response arrives"; the comment at 300 warns of the
  race. The reaper does the same to senders and to the consumer, and to itself when the
  request it is to visit next is freed (`NoUseAfterFree`);
* a failed `npfctl` is answered twice, by the worker's response and by the dispatcher's
  error path; `xenevent.c:747` says "Exactly one response *MUST* be issued for each
  request" (`AnsweredOnce`);
* `pending_port_change` is cleared before the ports are published, so a failed publication
  is not repeated until the ports change again (`PortsArePublished`);
* an overtaken Recv is performed on the thread's next socket, and reports that one as closed
  by its peer (`OperatesOnOwnSocket`, `ClosureIsOwn`);
* the read of an accepted connection does not wait for the consumer to be done with it: TLC
  finds the consumer using a destroyed request if `Overtaken` is not excused
  (`SafeUntilDisturbed`);
* a connection of a socket that mitigation has closed is destroyed while it is on the
  inbound queue (`SafeUntilDisturbed`).

Met while reading: an address-block request takes a worker thread for good
(`OnlyAddrBlockStrands` bounds it); a failed `poll` or `fcntl` is answered with an empty
header; `pending_errno` is never set, so errors of responses nobody reads are not reported
later; and those listed as hazards with a note. Of accept and failover:

* after a promotion `blockid` still names the old request and `read_expected` is copied
  from the replica, where it is false, so an `accept()` whose write was over but whose
  read had not begun fails;
* a work item that renews the accept of the user's own socket does not set `blockid`, so
  a later `accept()` fails with ENOENT although connections are queued
  (`FailuresHaveCause` names these causes, and mitigation);
* a user's socket that is not accepting when its INS dies is never moved to a replica;
* when the last replica is gone and `blockid` names no request, the reaper follows a null
  pointer, and an accept of the user's own socket that it destroys on a promotion may still
  be on the inbound queue (`SafeUntilDisturbed` leaves both open once an INS was given up);
* an accept that cannot be sent costs the user's own socket, or a replica that existed
  before, a reference; after the reaper has marked the socket this frees it.

Of the poll monitor: `sockinst_list` has the newest socket first, so a replica is visited
before its user's socket, and the visit to the latter resets `poll_events`, in which the
replica's events had just been put; each further INS's answer resets it as well.

## 5. Proofs

Each theorem below is about every value of the constants, where the runs take one small
instance. The proof modules build on one another where the arguments do: `InsOrderlyProofs`
extends `InsSocketsProofs`, that `InsItemsProofs`, that `InsDispatchProofs`. Every
inductive invariant was first checked with TLC on the instance of the corresponding run.

**`WorkQueueProofs`**, for every capacity and set of items:

* `IndicesAlwaysAgree`: `Spec => [](TypeOK /\ IndicesAgree)`, and `QueueTypeCorrect` its
  first half. The conjunction is inductive. `IndicesAgree` is stated with a remainder;
  `ModOnce` and `IndicesAgreeLinear` turn it into a case distinction (below twice the
  capacity, at most one subtraction), and each action is then linear arithmetic.
* `ImplementsFifo`: `Spec => Fifo!Spec`. Enqueue appends to `Contents`, dequeue removes
  its head, a refused operation stutters; the free count decides the guards.

**`XenRingProofs`**, for every ring size, index range (two rings or more), number of
senders and requests:

* `RingTypeCorrect`, `RingOrderAlways`, `UnreadAlwaysIntact`, `WritesOverReadRequest`:
  `TypeOK`, `RingOrder`, `UnreadIntact` and `OverwritesReadRequest` always hold. The INS
  never looks whether there is room for a response. That there is follows from a count:
  the requests read and not answered (`PendingCounted`) are as many as the slots between
  the two indices of the INS; the count needs that requests on the ring are different
  (`UnreadDiffer`), and that needs the sender to keep the request lock from choosing a
  slot until it publishes it (`LockHeld`, `SlotReserved`, `IdFresh`). `ConsumerSafe` and
  `SlotKinds` say the same of the PVM's side. `RingInv` is the conjunction. Distances
  between indices are taken modulo the index range, in lemmas of their own.
* `ImplementsChannel`: `Spec => IsChannel`, the refinement of `RequestChannel` under the
  mapping of `XenRing`: publishing a request appends to its queue, reading takes the head,
  writing a response appends to the other, consuming takes its head, all else stutters.

**`MwSocketProofs`**, for any number of callers and requests and any set of calls, with
time-outs and the reaper at any moment:

* `SocketTypeCorrect`, `ReferencesAlwaysCounted`, `NeverUsedAfterFree`,
  `AlwaysReadsOwnResponse`, `CloseAlwaysWaits`. The inductive invariant `SocketInv` has
  layers. Four hold whatever happens. `ThreadInv`: what a thread's step says of its
  request, of the ring's lock and of the file being closed. `SemInv`: `request_sem` is a
  mutex, and `blockid` and `read_expected` belong to its holder, which is all that
  `AlwaysReadsOwnResponse` needs. `WalkInv`: the reaper walks when the INS is given up and
  its ring is empty. `RefCounted`: every destruction is that of an active request, as
  anything else is a use of freed memory and ends the behaviour. The others (`OwnersInv`)
  hold until the reaper touches a request that somebody else works on. `RequestInv`: an
  active request is at one place (sender, ring, consumer, waiter), which gives it one owner
  that may free it. `CloseInv`: the readers of the close lock are at least the requests
  that have to release it, and `close_blockid` names the last of them on the ring
  (`LocksCounted`, `CloseOrder`); the reaper comes when nothing is on the ring, so
  `CloseAlwaysWaits` survives it. `LateInv`: what the consumer handles is active, unless a
  wait timed out. `NeverUsedAfterFree` follows from `RequestInv` and `LateInv`.

**`InsDispatchProofs`, `InsItemsProofs`, `InsSocketsProofs`, `InsOrderlyProofs`**, for any
number of threads, buffers and requests, any types, ports and faults:

* `SemaphoreAlwaysCountsWork`: `Spec => []SemaphoreCountsWork`. `QueueInv` adds that
  queues and executors hold buffers: what is queued is what the dispatcher holds, which
  comes from `Min` of the free buffers (`MinIsElement`).
* `OplockAlwaysHeldOnce` and `OplockAlwaysReleasable`: the two halves of
  `OplockWillBeReleased`. All thirteen operations end in `release_oplock`; `HeldForWork`
  follows the item for which an oplock was taken through dispatcher, queue and worker.
* `BuffersAlwaysOwned`: `Spec => []BufferOwnership`. A count of references is not
  inductive; `ItemInv` says that no two places refer to one buffer (`Apart`), that what is
  referred to is in use (`InUse`) and holds a request of its own (`OwnRequest`), and which
  types of request are found where (`WorkersOwn`, `DispatchersOwn`).
* `AnsweredAtMostOnce`: `Spec => []AnsweredOnce`, for any `Faults`. `AnswerInv` bounds the
  answers of each request by how far it has come; `OnceInv` says that the dispatcher's error
  path meets an answered request only for an address block whose `npfctl` failed.
  `DispatchTypeCorrect`: the types.
* `LiveFdAlwaysServed`: `Spec => []LiveFdIsServed`, with no condition on when the PVM
  closes. `SocketsInv`: a request not yet performed has opened nothing (`Fresh`); no two
  threads have one socket, and a free thread has none (`Served`); the dispatcher's request
  is for the thread it was given, in the state its kind implies (`Asked`, `Creating`,
  `Closing`). `SocketsAlwaysCounted` and `PortsAlwaysPublished` follow with `Served` and
  `PortInv` (the ports are published, about to be, or an attempt has failed);
  `OnlyAddrBlockEverStrands` from `StrandInv`, an inequality between the
  threads that nobody will release and the address blocks.
* `AlwaysOperatesOnOwnSocket` and `ClosureAlwaysOwn`, for any `CloseWaits`, the driver's
  among them. `OrderInv`: a request that is yet to be performed names the socket its thread
  has, since that could only go away by a Close, or a Close has overtaken it (`OwnSocket`,
  `CloseLast`), and a Close overtakes none of `CloseWaits` (`WaitedFor`). `FlagInv`: a flag
  that is set was set on the socket the thread has (`Heard`), the thread is being released
  (`Ending`), or an overtaken request set it (`Strayed`).

**`ListenersProofs`**, for any number of INSs, work items and accepts:

* `OneListenerAlways`: `Spec => []OneListenerPerIns`. The property is not inductive: that
  a replicator which waits for its create still finds nothing on that INS afterwards
  follows only from `LockHeld`, whoever waits holds `sock_rep_lock`. `ReplicaInv` adds
  it, with `NoSocketYet` and the types of the two variables involved. `NextSlotKeeps`
  and `OneWaits` deal with the ways a replicator goes on, `ReaperKeeps` with promotion,
  which moves the user's socket onto an INS that has a replica and removes that replica.
* `ListenersTypeCorrect`: `Spec => []TypeOK`, with `Positions`, where a replicator may be
  when it looks at a slot.
* `OneAcceptAlways`, `ConnectionsAlwaysKept`, `SafeAlwaysUntilDisturbed`. `AcceptInv`: an
  accept was sent to the INS of its socket, and until it is queued that socket has the
  flag and no other accept (`Sent`, `Flags`); what is on a ring is such an accept, and the
  ring is in use (`Rings`); the queue has no entry twice, and as long as no INS was given
  up and nothing closed (`Undisturbed`), its entries exist and none is left undelivered
  (`Queued`). So accepts on one INS
  are of one socket, and a promotion, which frees the requests of dead INSs and renames
  those of the replica, loses none that is on a ring or owed.
* `NeverBlockedOnDeadIns`, `NoInsStaysDeaf`. `CoverInv`: as long as the queue is empty, at
  every slot `accept()` has been at the socket accepts or is being set up (`Covered`), so
  the replica that is promoted accepts; a socket that accepts has its accept on the ring
  (`Answers`); an INS has the socket or its work item has not passed it (`Joined`).
* `FailuresAlwaysHaveCause`. `CauseInv`: while no INS has crashed or been released, nothing
  was closed and no work item has sent the user's accept, no replicator has failed and `blockid` is an
  accept that exists from the slot of the user's socket up to the read.

Where a property is about the states before `oops`, so is its theorem;
`SafeAlwaysUntilDisturbed` says when that state can be reached at all.

Assumptions on constants are those named in the modules (`ItemCtAssumption`,
`RingAssumption`, `SocketAssumption`, `DispatchAssumption`, `ListenersAssumption`); TLC
evaluates them on every run. They say that sizes are positive, that sets have the right
elements and that `Nobody` is no caller.

Only model-checked: the properties with fairness (`SentIsDelivered`, `LockIsReleased`,
`EveryRequestAnswered`, `CallsReturn`, `ReleasedIsFreed`, `AcceptReturns`), which this
prover does not reach. Every invariant and both refinements that a run checks are
proved.

## 6. Not modelled

The XenStore and grant-table handshake, driver base, debugfs and the character device
(set-up and statistics); payloads, addresses, socket options, batch sends; the load
balancer and Python tools (I/O around Xen's tool stack); `fini_state` and the
heartbeat thread of the INS; the superseded prototype driver. Of accept: the release of a
listener, signals, accepts routed by `poll_active`, several accepting threads, accepts
that an INS refuses. The poll monitor, heartbeat ages and slot reuse, netflow and
descriptor encoding are planned.

The repository holds some ten thousand files of NetBSD and Rump (`ins/ins-rump/src-netbsd`
and others), four million lines, against about sixteen thousand of its own on the path
described above. The former are vendored and are not modelled, except for the
`libxenevent` device, which is the project's own.

## 7. Plan

Order by weight in the system; the first five are in place.

1. `WorkQueue` / `BoundedFifo`, proved.
2. `XenRing` / `RequestChannel`; all invariants and the refinement are proved.
3. `InsDispatch`; all invariants are proved.
4. `MwSocket`, with crash and reaper; all invariants are proved. To add: the requests the
   kernel sends for itself (`mwsocket_send_message`, `mwsocket_send_bare_request`), threads
   that exit one by one.
5. `Listeners`; all invariants are proved. To add: accepts routed by `poll_active`, several
   accepting threads, the release of a listener.
6. `PollMonitor`: queries, the round-robin cursor of `xe_pollset_query`, `poll_events`
   of replicas and user sockets, waiters.
7. `InsTable`: registration, heartbeat ageing, slot reuse. `Netflow`: the connection list
   and its lock. Descriptor encoding as operators checked against their inverse.
