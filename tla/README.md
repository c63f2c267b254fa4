# A TLA+ model of acnetd

`acnetd` is the daemon that carries ACNET messages between control-system
processes.  It is a single-threaded event loop: client programs talk to it over
local UDP sockets (or through a TCP proxy process), and daemons talk to each
other over the network.  The hard part is not parallel execution but the order
of events: replies that arrive after a time-out, clients that die between two
commands, a CANCEL that is lost, a task that is removed while its tables are
being walked.

This directory holds TLA+ modules translated from the C++ source, TLC
configurations that check them on small instances, and TLAPS proofs for every
value of the constants.  `PROJECT.json` is the index: components, runs,
mutations that each property catches, source lines of every definition,
findings, hazards and theorems.

## The system

| Component | Source | State | Operations | What makes it correct |
|---|---|---|---|---|
| Identifier pools | `idpool.h` | entries, circular free list, in-use bitset, random bank | `alloc`, `release`, `entry`, `id`, `next` | an entry is free or in use, never both; identifiers find their entry only |
| Reply table | `rpyinfo.cpp` | `RpyInfo` entries, multimap from (node, request id), sets of replies per task | `alloc`, `xmitReply`, `endRpyId`, `endRpyToNode`, `release` | tables agree; each requester gets one last reply; CANCELs find their reply |
| Request table | `reqinfo.cpp`, `timesensitive.cpp`, `node.cpp` | `ReqInfo` entries, list ordered by expiration, sets of requests per task | `alloc`, `update`, `cancelReqId`, `cancelReqToNode`, time-outs | every request ends once, is told to both ends, and never sleeps past its time-out |
| Task table | `taskpool.cpp`, `taskinfo.cpp`, `exttask.cpp`, `lcltask.cpp`, `remtask.cpp`, `mctask.cpp` | table by id, multimap by name, list of removed tasks, pending counts | connect, disconnect, rename, commands, liveness test | a name has one owner; removal takes all resources along; nothing points to a deleted task |
| Internal task | `inttask.cpp`, `acnaux.cpp` | none of its own | type-code handlers, killer messages, node-table download | acts on the tables like any client |
| Dispatch | `main.cpp`, `global.cpp` | the map of task pools | datagram framing, USM, request, reply and CANCEL handlers, main loop | headers tell the truth; protocol violations get a CANCEL |
| Outgoing queue | `network.cpp` | queue of packets, partially filled packet per node | `sendDataToNetwork`, `sendPendingPackets` | order per node, nothing lost or sent twice |
| Node table | `ipaddr.cpp`, `trunknode.h` | nodes, names, addresses, partial buffers, our own node and address, download time | `updateAddr`, `eraseNode`, look-ups | a change cancels what it invalidates; our node is ours; the table arrives |
| Multicast groups | `mcast.cpp`, `mctask.cpp` | reference counts | join, drop | joined while someone listens |
| TCP proxy | `tcpclient.cpp`, `rawhandler.cpp`, `wshandler.cpp` | protocol, enabled traffic, send queue, fragments | event loop of a forked process | frames pass whole and in order; no data before its acknowledgement; nothing is forgotten |
| Names | `rad50.cpp` | none | `ator`, `rtoa` | conversion and back |

Interactions.  All calls are synchronous, inside one thread.  A packet from the
network reaches a handler in `main.cpp`, which looks up the request or reply
table and sends to the client's data socket; a failed send to a client that is
found dead calls `TaskPool::removeTask`, which cancels the requests and ends the
replies of every task with the same pid, which queues packets for the network.
The removed `TaskInfo` objects are deleted at the next connect.  A client
command reaches the task that owns its command port, changes a table, queues
packets and is acknowledged; a failed acknowledgement removes the task the same
way.  A change of the node table and the killer message call `cancelReqToNode`
and `endRpyToNode`.  Time-outs fire between two rounds of `poll`.

A host may stand for several nodes.  Each node name has a `TaskPool` with a task
table, a request table and a reply table of its own, made when it is first looked
up, and a packet is for the pool of its server or client node, for all of them if
that is a multicast node, or for the pool of the host's own node if the task is
not in the first.  A TCP client is served by a process that the daemon forks; it
speaks to the daemon through two local sockets, one for commands and their
acknowledgements and one for data, like any other client.

Hard behaviours: clients that die or stall between two steps; requests that are
repeated under the same key when a CANCEL was lost; late replies to an
identifier that has been reissued; multicast requests with many repliers; counts
at their limit; loops that rely on another table to terminate; a daemon that is
started again and knows nothing of what its predecessor asked for; a socket that
takes half a frame.  `PROJECT.json`
lists them under "hazards", each at its line.

## What is modelled

| Module | Models | State and actions |
|---|---|---|
| `IdPoolSpec` | what a pool promises | `free`, a queue, and `used`; `Alloc` takes the first, `Release` appends |
| `IdPool` | `idpool.h` | `item`, `nItems`, `head` are the `CircBuf`; `inUse` the bitset; `bank` is drawn in `Init` as `bankGen` does |
| `Clients` | connection and death as the tables see them | `connected` is the task table and map; `dead` holds clients for which `stillAlive()` answers false; `RemovedWith` is the pid rule of `removeTask`; `Dropped` the outcomes of a send |
| `ClientsSpec` | what the task table promises | `connected` and `dead` as in `Clients`, and `ack`; connecting, disconnecting, renaming, and removal with the process |
| `ReplyPool` | the answering side | `rpy` the pool, `replies` the sets of the tasks, `activeMap` the multimap, `pending` and `warned` the counters; an action per command or packet |
| `RequestPool` | the asking side and the loop | `pool.info`, `pool.owned`, `pool.timers` (the list), `pool.left` (time left), `phase` (before or after `poll`); an action per command, packet and expiration |
| `OutgoingSpec` | what the outgoing queue promises | a channel per node; `Put`, and `Flush`, which loses or delivers a prefix in order |
| `OutgoingQueue` | `network.cpp` and its uses of `ipaddr.cpp` | `outgoing` is the queue of `DataOut` addresses, `packet` their content, `partial` the pointer in `IpInfo`, `known` the nodes whose name is not ILLEGAL_NODE, `wire` what the last step gave to `sendto` |
| `TaskTable` | `taskpool.cpp`, `mctask.cpp`, `mcast.cpp` | `pool` is the whole `TaskPool` as far as tasks go: `table` by identifier, `active` the multimap by name, `info` the objects, `removed` the list to delete, and `refs` the counts of `mcast.cpp`; `dead` as in `Clients`; `ack` the answer to a connect |
| `Dispatch` | `ipaddr.cpp`, and the routing and start-up of `main.cpp` | `d` holds the node table (`name`, `addr`), `myNode`, `myIp`, whether the table was `loaded`, the `pools` with the node each was made for, and of their tables what routing reads: of a request its slot, its node and the address it went to, of a reply its slot and its key; `phase` is `nodeTableConstraints`, or "exited"; an action per kind of packet and per client command |
| `Protocol` | two daemons and the network | instances `A` of `RequestPool` and `B` of `ReplyPool`; `net` the datagrams on their way, put there from the two tables' `out`; `Crash` empties the tables of `A` |
| `RelaySpec` | what a TCP proxy promises | the client's frames not read yet, commands forwarded, acknowledgements and data on their way, and what the client has still to read, as sequences |
| `TcpProxy` | `tcpclient.cpp`, `rawhandler.cpp`, `wshandler.cpp` | `p` is the process: the handler chosen, `traffic`, the `events` of the last `poll` not handled yet, `done`, the fragments (`payload`, and `len`, their bytes), the queue `q` of `SocketBuffer`s and the socket's content `wire`; `client` and `daemon` what the two others have written |
| `MC...` | instances for TLC | constants and symmetry |
| `IdPoolProofs`, `ReplyPoolProofs`, `RequestPoolProofs`, `TaskTableProofs`, `DispatchProofs`, `ProtocolProofs`, `OutgoingQueueProofs`, `TcpProxyProofs` | theorems about the module they are named for | |

`ReplyPool` and `RequestPool` both extend `Clients`.  An action is a whole
handler: the daemon has one thread, so nothing else happens between its steps
except that a client process may die, which is why `LoseRequest` (dead after the
test, before the delivery) and `Conclude` (dead before the acknowledgement)
exist.  `out` holds what the last step sent, for properties about messages; it
is not read by any action.

Abstractions.  A task is a name bound to a command port, and names are plain
ones with one owner.  Nodes, request identifiers, client task identifiers and
names are model values; of a status only success, ACNET_PEND, ACNET_ENDMULT and
a fatal error are told apart, and of a packet the identifier it is for, the MLT
bit and the status.  A queued packet counts as sent: what the network does to it
is left to the remote node, which may send anything at any time.  The request
clock is the time left of each request, counted in units of the smallest
time-out; the code reads its clock once per turn, after `poll`, and so does the
model (`PollReturns`).  A client that is alive is always delivered to, as in the
code: `checkResult` only reports a failure when `stillAlive` is false; for one
that is dead the send may or may not fail.

A client command is taken from a connected task, which may have died since it
sent it, but a client without a pid counts as alive for having sent one
(`Commands`).

`OutgoingQueue` is a module of its own: the handlers only call
`sendDataToNetwork`.  A buffer is a heap address; its content is only meaningful
while it is queued, and the next `new` may return any address that is not.  The
heap's size bounds the queue, and `new` may fail at any time.  A message is its
length.  `sendPendingPackets` is one action: it sends or drops a prefix of the
queue and stops where the kernel has no room.  `Spec` lets nodes come, and go
while nothing is being filled for them; `SpecErasing` lets them go at any time,
as `eraseNode` does, and adds what may happen when a message is added to freed
memory.

`TaskTable` is a module of its own as well: what a task owns in the other tables
goes when `removeOnlyThisTask` is called, as `RemoveTasks` of `ReplyPool` says,
and here it is left out.  A task is the address of its object, and a freed
address may be the next one allocated.  The steps of `HandleConnect` up to the
new task are one function (`RemoveInactive`), which removes the dead with their
processes and deletes all that was removed.  Whether a name is a group's is a
constant (`GroupOf`), so a node table that changes the meaning of a name in use is
outside the model; so are the daemon's own task, which never dies (of its place in
the map only what follows it is kept, by `Rank`, for the walk of
`handleAcnetUsm`) and leaves only with all others when the daemon ends
(`removeAllTasks`), and blank
names, which become the data port's.  `Clients` is the view the two request
tables have of this module, for plain names that do not change; `ClientsSpec` adds
the names of groups, renaming and the answers to a connect, and `TaskTable`
implements it: a task becomes its name and port.

`Dispatch` keeps of the tables of a pool what its routing reads.  A task that
takes requests stands for the clients of a pool; a request is its node and the
address that had when it was sent, and a reply its key.  Both are in slots, the
entries of the two arrays, since the order of the array decides which of several
to one node is released first.  Any free slot may be the next to be used, which is
more than `IdPool` allows; the tables themselves are in the modules above.
The order of nodes is that of their numbers, which decides what a look-up by name
or address finds first.  Looking a pool up makes it when it is a node's of this
machine, so requests, replies and CANCELs may all make one, as in `getTaskPool`.
A killer message goes through all pools, and in each cancels in all pools, which
is `CancelToNode` that many times.  `IpAddress` is the function of that name, with what it
does to the table; `Admit` is the part of `handleAcnetPacket` before the switch.
The time of the download is kept as whether there was one, which is all the code
asks for.  A daemon that stands alone starts with it set.

`Protocol` composes: its actions are handlers of `RequestPool` and `ReplyPool`,
chosen so that the one's messages are the other's input, and `out` is what goes on
the network.  Losses happen at sending, where any subset of what a step sent is
kept; delivery is in any order.  Duplicates are left out: a
second copy of a request would be accepted and open a second reply under its key,
which ends as `protocol_restart` shows.  An identifier of a daemon is issued once while the model
runs (`used`), which stands for the first-in first-out turnover of the pool of
4096 entries that `IdPoolSpec` promises; `Reuse` lifts this across a restart.
The killer message is sent at once; the code sends it when the node table has
arrived, and what comes between is a delay like any other.

`TcpProxy` is the one process whose steps interleave with others', so an action
is what happens between two system calls that can be observed: `Poll` notes the
events, and each handler is a step of its own in the order of the loop.  A frame
to the client has two units, enough to be cut by a full socket or a full buffer
at every place that matters, and `SocketBuffer` counts what was ever put into it,
as the code does.  Of the bytes of a frame the length that its header announces is
kept (`Announced`), as far as the client can read one there: 32 bits in the raw protocol, and in the other a byte, of
which 126 and 127 are no length, or two.  The header of data is chosen by the size of
the datagram, and the length written is that of what follows, two bytes more; that
of a control frame is cut to a byte, whatever fragments it takes along.  `Misread`
names the frames for which this goes wrong.  `RelaySpec` is about messages, not bytes: a
client that has read a wrong length loses its way in the stream, and what
`Implements` says of the messages after it is no use to it.
The client's frames are cut in two as well; `readBytes` waits
for the rest, so the handler is only taken when the frame is complete or the
stream has ended.  Of a command only its number is kept, and whether it is one:
frames are numbered as the client writes them, and a command has the number of the
frame that completes it.  For `RelaySpec` the client's frames are their numbers
(`in`); one that is read is forwarded, answered by the proxy, or comes to nothing,
as a fragment does, or a command that is refused or dropped.  What the client has
still to read (`out`) are the frames whose second half is in the socket or queued
(`Arriving`); one that is cut is still on its way as a whole.  Once the connection
has ended `RelaySpec` promises nothing.

The build modelled is the default one: `NDEBUG`, without `KEEP_ALIVE` and
`PINGER`.  Assertions guard nothing, and what they claim is checked instead
(`OwnersListen` is the assertion of `handleAcnetCancel`, `FreeListExact` implies
those of `CircBuf`).

## The runs

| Run | Bounds | Shows |
|---|---|---|
| `id_pool` | 4 entries, 16 raw identifiers, both banks | free list exact, look-up exact, refinement of `IdPoolSpec` |
| `reply_pool` | 2 tasks of one process and one port, 2 replies, 1 node with 2 request ids, all kinds of request, limit 1 | the tables agree, requesters get a last reply, last replies end, owners are told |
| `request_pool` | 2 tasks of one process and one port, 2 requests, a unicast and a multicast target, replies from 2 nodes, time-outs 0 and 3 clamped to 1..2 | both ends are told, headers are right |
| `request_timers` | 1 task, 3 requests, as above, with fairness | list order, no overdue sleep, termination |
| `outgoing_queue` | 2 nodes, 3 packets of 8 bytes, headers of 2, data of 1 and 3, with fairness | no overflow, the packet being filled is the last, order per node by refinement, the queue moves |
| `task_table` | 3 objects, 1 short and 2 other identifiers, 2 plain names and a group's, 1 port of a process and 1 without a pid | table and map agree, one owner per name, objects deleted once, groups counted, no removal without cause, and what others see of the clients is as `ClientsSpec` has it |
| `task_usm` | 2 objects, 2 plain names that follow ACNET's, ports as above | violated, see below |
| `outgoing_erase` | as `outgoing_queue`, nodes erased at any time | violated, see below |
| `dispatch` | 2 nodes of this host, a remote node with 2 addresses, a multicast node and one not in use; 1 request id; 2 slots for requests and 2 for replies in a pool; a table in full, with the unused node, and one of a single entry; 3 updates by clients | CANCELs find their reply, a node that moves ends work of every pool that has some with it, our node is ours, the table arrives |
| `tcp_proxy` | 2 frames from the client, among them a command in fragments, 2 data messages of 126 bytes, acknowledgements of 4, 3 units in the socket and in a buffer, both protocols, all ways to leave | framing, order, refinement of `RelaySpec`, progress |
| `protocol` | 2 request ids, 2 replies, 2 datagrams on their way, 1 restart, new identifiers after it | orphaned replies go, acknowledgements are never refused below the limit |
| `protocol_restart` | 1 request id, issued again after the restart | violated, see below |

Why the bounds are enough.  Two replies and one key give two replies under the
same key and an empty pool; a third reply adds one that is accepted while two
are unacknowledged and the count is at its limit.  Two tasks of one process give
the removal of a task by another's failure, and one port gives commands on
another task's replies; a task without a pid gives the other removal rule and
the other liveness rule.  Three requests and two time-outs give every position
in the list, front, middle and end.  The node that is not in `Nodes` but in
`Senders` is one that answers a multicast, or answers a request that was not for
it.  Three packets of which two messages fill one exactly give
a full packet, one with room too small for the next message, and two packets for
one node around one for the other.  Three objects and three identifiers
give a table that is full, one with a removed task that waits and one that has
come back, and a port with several names gives several tasks of a process and
several of a client without a pid.  In `dispatch`, two nodes of the host are
needed for a pool that is not the default one, two slots for two requests to one node in a pool (only the first goes with the
node), and two addresses for a node that moves.  Two replies to one node in a pool
need two identifiers, which the theorem has and the run has not: the code treats
them as it does requests.  In `tcp_proxy`, three units let a frame of two be cut by the
socket and by a buffer, with two frames queued; two frames from the client let
the second wait for the acknowledgement of the first.  Data of 126 bytes is the least to get the long
header, acknowledgements get the short one, and a fragment of 125 bytes makes the
answer to a ping as long as it may be, and that to a close too long.  All other sizes are only
in the proof.  In `protocol`, two
requests overlap with each other and with those of the daemon before, and two
datagrams overtake each other.  `MaxPending` 1 and 2 stand for 256, `MaxTmo` 2 for the 390 s of
`REQUEST_TIMEOUT`: the code only compares them.

Fairness.  `RequestPool!Fairness`: an expired request is handled and the sockets
run dry (weak fairness, the loop does nothing else and is assumed to drain its
sockets now and then: a client that never stops sending does starve the
time-outs, see the hazard at `main.cpp:1407`), and the clock advances between
rounds of `poll` (strong fairness of `TimePasses`, since expirations come
between).  Clients and remote nodes owe nothing.  `SingleEnds` therefore allows
for a replier that sends ACNET_PEND for ever.

`OutgoingQueue!FairSpec`: every turn of the main loop calls `sendPendingPackets`,
and the kernel accepts or refuses for good the head of a waiting queue in the
end (weak fairness of a call that moves the queue).  A packet that is refused
with EMSGSIZE for ever would block it: the code treats it as a lack of room.

`Dispatch!FairSpec`: the loop asks NODES every ten seconds (weak fairness), an
answer that is asked for again and again arrives (strong fairness: it may be lost
any number of times, not for ever), and the loop notices (weak fairness).  Then it
goes on in the background, or ends if it cannot (`main.cpp:1230`); `TableArrives`
asks for no more than that it no longer waits.

`TcpProxy!FairSpec`: the proxy and acnetd go on, the proxy pings after ten seconds
of silence, and the client finishes frames it has begun and reads.  It need not
write, and may leave at any time.

`Protocol!FairSpec`: time-outs are handled, what has reached a daemon is read
(weak fairness), the task that answers a request for many replies goes on sending
(strong fairness of the reply arriving: without it the node that answers sends
nothing and has no way to notice), and of the replies that are sent again and
again some arrive, and so does one of the CANCELs they provoke (strong fairness of
a delivery whose own message is not lost).

### Disagreements found

- `outgoing_erase`: `sendPendingPackets` (`network.cpp:364`) means to disassociate
  a packet it sends from its node, but cannot when the node has been erased, and
  `eraseNode` keeps the pointer.  When the node comes back, the next message for
  it is written to the deleted packet.
- `protocol_restart`: `release` (`rpyinfo.cpp:183`) erases all entries of the
  multimap under a key, where `endRpyId` has just taken care to erase only its
  own.  A daemon that is started again draws its identifiers from few banks
  (`idpool.h:168`); if it issues one of its predecessor's and the killer message
  was lost, the end of one reply hides the other from all later CANCELs.
- `task_usm`: `handleAcnetUsm` (`main.cpp:353`) goes on to the next task after the
  delivery, and compares it with the end of the range it computed before.  A USM
  that asks the ACNET task for a report removes dead clients; if the one whose
  name comes next in the map is among them, that end is gone.

No run shows the following, but a reader of the model will meet them:

- `main.cpp:570` says the header is fixed for a request for one reply that is
  answered as one of many; the code fixes other cases.
- Ignoring or blocking requests, and node failure, do not decrement the pending
  count of an unacknowledged request (`exttask.cpp:300`; `main.cpp:478` says the
  count keeps track of pending requests).
- The CANCEL for a node that went down carries status 0, where clients look for
  the reply identifier (`rpyinfo.cpp:216`, `main.cpp:409`).
- When a node moves, `updateAddr` cancels what there is with it
  (`ipaddr.cpp:444`), but `cancelReqToNode` leaves its loop at the first request of a
  pool (`reqinfo.cpp:88`) and `endRpyToNode` at the first reply (`rpyinfo.cpp:232`),
  although their logs speak of several.  A second request goes on waiting for an
  answer from the old address.  `MoveEndsWork` says what is left: each pool has
  fewer.  As an invariant of the run `dispatch`, `WorkFollowsNode` is violated.
- `sendBinaryDataToClient` (`wshandler.cpp:101`) takes the short header for up to
  125 bytes and writes a length of two more into it.  For 124 and 125 bytes
  that is 126 or 127, which mean that a longer length follows, and the client takes
  the data for it.  `FramesWhole` excepts these (`Misread`); without the exception
  it is violated once 124 is among the `Sizes`.
- A pong, and the answer to a close, write the size of their payload to a byte
  (`wshandler.cpp:210, 219`), and the payload includes the fragments of a message
  under way: over 125 bytes it is no length of a control frame, over 255 it is cut.
  `FramesWhole` excepts them (`Misread`).
- A node that is erased cancels nothing, and keeps its address (`ipaddr.cpp:44`): it
  is not in use any more, so when it is entered again elsewhere nothing is
  cancelled either.  `MoveEndsWork` speaks of nodes in use before and after the
  step, and its theorem of nodes that are not erased while they are in use.
- Clients that ask for the host's own node get the pool of `myNode`; a client that
  names the node gets the pool of the first node of that name, and the two may
  differ when the first entry with our address has another name
  (`ipaddr.cpp:414-420`, `main.cpp:763`).
- The option `-f` turns the fallback off (`main.cpp:194`), but a packet for a node
  without a pool still goes to the default one (`main.cpp:791`), and its CANCEL
  does not (`main.cpp:864`).
- AddNode with our host's name changes our address (`main.cpp:961`) also when the
  entry itself is refused for its blank node.
- A raw frame that is too long is reported and not skipped (`rawhandler.cpp:92`),
  so the stream is out of step from then on; frames of that length are not among
  the inputs of the model.
- When acnetd's socket drops a command, its proxy waits for an acknowledgement for
  ever (`tcpclient.cpp:480`): it does not look at the client any more.  `Relayed`
  excepts this case (`lost`).
- The proxy's test whether its parent is gone (`tcpclient.cpp:511`) asks for the
  process that has become its parent, which exists.
- The last fragment of a WebSocket message has opcode 0, which the switch at
  `wshandler.cpp:196` does not name, although line 190 says that the payload is
  sent on: the message is dropped (`WebSocketFrame`), and a client that waits for
  the acknowledgement of a command in fragments waits in vain.
- `validFromAddress`, `validToAddress` and MAX_SOCKET_QUESIZE are not used; the
  send queue of a proxy has no bound.

## What is proved

Each theorem holds for every value of the constants that satisfies the `ASSUME`s
of its module.  TLC checks the same properties on the instances above, and has
checked the inductive invariants on them before they were proved.

`IdPoolProofs` proves, for every SIZE and identifier space, that `IdPool` is type
correct, that the circular buffer is exact, that a look-up is (`LookupIsExact`),
and that `Spec` implements `IdPoolSpec` under the mapping `FreeQueue`.  The
inductive invariant adds to `TypeOK` that the slots from `head` on hold different
entries, none of them in use, and that the two counts add up to SIZE; the last
part makes the guard of `Alloc` and the overflow of `push` impossible.  The
arithmetic of `% SIZE` is in lemmas of its own.

`ReplyPoolProofs` proves for every set of tasks, any assignment of pids and
ports, any pool and any limit: `TypeOK`, `OwnersListen`, `OwnershipAgrees`,
`MapSound`, `PendingCoversUnacked`, and the action properties `FinalMeansEnd`,
`RequesterAnswered` and `OwnerTold`.  The inductive invariant is the conjunction
of the first four: `OwnershipAgrees` is what makes removing a task end exactly the
replies that point to it (so `OwnersListen` survives `RemoveTasks`), and `MapSound`
survives `release` because it erases at least the entry of the reply it frees.
Two facts are proved once for all handlers: what `EndReplies` does to the tables,
and what `Conclude` does; each action then only shows how the table it hands over
(`info`) differs from the old one.

`RequestPoolProofs` proves for any tasks, nodes, number of requests and time-outs:
`TypeOK`, `OwnershipAgrees`, `TimersExact` (the list has each active request once,
and in the order of the time left), `NeverSleepsOverdue`, and the action
properties `RequesterTold`, `ReplierTold` and `HeaderTellsTruth`.  The invariant is
a predicate on the pool, so that what `CancelRequests`, `Touch` and `EndTask` do
to a pool is proved once, for pools that occur in the middle of a handler as well.
It says of the list that it has each active request once, in the order of the time
left, and that nobody owns a request that is not active.  Taking requests from the
list (`Without`) is defined by rank instead of with `SelectSeq`: the element at k
is the one with k - 1 kept ones before it.  `SelectSeq` is recursive, and the
provers know nothing about it; that what is left is in order and has what it
should have are lemmas by induction on the length of the list.

`TaskTableProofs` proves of `TaskTable`, for any finite set of addresses
(`HeapAssumption`; without it the counts of objects mean nothing), identifiers,
names, ports and groups: `TypeOK`, `TablesAgree`, `DeletedOnce`, `GroupsCounted`, that a
name said to be in use is a living client's (`InUseIsTrue`, which TLC checks as part of
`Implements`), and the action property `LeavesForCause`.  The invariant adds that a task is in one slot of the
table, and is carried through the three steps of `HandleConnect` (the dead of the
name removed, all that is removed deleted, the new task entered) as a predicate
on the pool.

It also proves that `TaskTable` implements `ClientsSpec` (`TableIsOfClients`), which
is `Clients` with the steps that the table makes.  A client is the name and the port
of a connected task, and is dead if the task is: identifiers, objects, the map, the
list of removed tasks and the counts do not show.  Connected tasks have different
keys (`KeysApart`, from the invariant), so what a handler does to a set of tasks it
does to the set of their keys (`RemoveKeys`).  A rename that removes the dead owner
of the new name, with its process, and then loses the task for want of an
acknowledgement is one abstract step (`RenameRefines`).  `ReplyPool` and `RequestPool` are built on the same
`Clients`: this is what entitles them to it, for clients with plain names that are
not renamed.

`DispatchProofs` proves `MyNodeIsMine`, `CancelFindsReply` and the action property
`MoveEndsWork`, for any nodes, names,
addresses, slots, packets, tables and sequences of them.  Most steps leave the node table alone and only
take work from the pools (`Keeps`); what is proved in detail is what one entry does
(`UpdateAddrIs`: the entry, our node, and what is cancelled), that a table is a
sequence of such states (`WriteTableIs`), and where a request is put (`RouteIs`).
What NODES, clients and other nodes say is up to them, and the three properties
are proved only if it makes sense.  How much sense is a hypothesis of each theorem:

- `MoveEndsWork` needs `OnlyUnusedErased`: an entry that says nothing, which
  erases, is only there for nodes that no other entry and no packet speaks of, like
  the unused entries of a table.  A write that erases a node in use and enters it again elsewhere
  moves it and cancels nothing.  Within a write each entry that
  moves a node ends work, and what one has ended no later one brings back
  (`WriteMoved`).
- `LoneWorkFollowsNode` is what becomes of `WorkFollowsNode`, which is false as it
  stands: if also no pool ever has two requests to one node (`[]OnePerNode`, of the
  behaviour, not of the model), every request is to the address its node has now.
- `MyNodeIsMine` and `CancelFindsReply` need `HostIs(Own)` for some set `Own` of
  nodes, those of this host.  Entries agree on which nodes have our address and
  what ours are called, and a table or an AddNode that names any of ours names one
  after the host; packets from our nodes, and no others, come from our address; and
  packets that arrive are for our nodes, for all, or for no node in particular.
- `CancelFindsReply` also needs `Fallback`: with the option `-f` it does not hold.

`MCDispatch` assumes all of this of its instance, so the run shows that it can be
met.  The invariant for the last two is about each reply: it is in the pool of its
server node or in that of the host (`Placed`), and where a request was not
for all nodes it has no other reply (`Single`); so a CANCEL that looks into the
server's pool, then the default one, finds it, if neither has come to mean another
pool in between.  The server's has not because a name, once entered, is the one
all entries give (`OwnKnown`); the default one has not because our node is always
called what the host is (`Named`).  Inside a table this last part need not hold: the
first entry with our address becomes our node whatever its name, and only the one
with the host's name puts it right.  After that no entry changes it (`Steady`),
which is what the induction over the table carries.

`ProtocolProofs` proves of the composition that the tables of both daemons keep
their invariants (`TablesAlwaysAgree`) and that `PendingCoversUnacked` holds, however
datagrams are lost or overtake each other and however often the requesting daemon
is restarted.  It uses the lemmas of the two modules above as they are, through
`INSTANCE`; what it adds is that the messages of the one are inputs the other was
proved for: `net` has only requests, replies, CANCELs and killer messages that the
pools' types allow.

`OutgoingQueueProofs` proves, for any nodes, message lengths and packet size,
that no packet outgrows its buffer, that the packet being filled for a node is
the last one queued for it, and that the queue implements `OutgoingSpec`
(`QueueIsAChannel`).  The invariant adds that an address is queued once (so the
packets that stay keep their content when others are deleted) and that a node
outside the table has no partial packet (so the pointer can always be reset).  The
second part is what an erasure at the wrong time breaks.  For the refinement, a
message put into the packet being filled goes to the end of the node's channel
because that packet is the last one (`FillPuts`), and sending a prefix of the
queue takes from each channel a prefix (`SendFlushes`).

The module opens with what these proofs need about `FlattenSeq`: it is laid out part
after part (`FlattenIsLaid`), and so commutes with concatenation and appending.
The definition is recursive; the induction over the number of parts is over a set
of numbers (`SetInduction`), as a theorem that takes a predicate cannot be used.
`TcpProxyProofs` uses the same lemmas, which do not speak of the queue, through the
instance `L` (its substitutions are empty values that meet the queue's assumptions).

`TcpProxyProofs` proves `FramesWhole` and `AckFirst` for any openings, any frames
from the client, any sizes of acknowledgements and of datagrams up to what `recv`
leaves room for (`DatagramAssumption`), and any size of the socket and of the buffers, as long as a
frame, of two units, fits an empty buffer.  That the header tells the length of
every frame but the `Misread` ones is a lemma on the two headers (`LengthOf`): two
bytes are enough for any datagram with its type, and one for any length up to
125.  The parts of the invariant:

- what is sent goes to the end of what the client has still to read, whole or not
  at all (`Tells`), whether it is written, queued, or cut by the socket or a
  buffer; of the two calls of `send` that answer a control frame, either both fail
  or neither does;
- `Turns`: while a command is under way nothing else is, and what `poll` has found
  is still there when its turn comes;
- `Numbers`: the frames read are never fewer than the last one served, and a
  command on its way to acnetd lies between the two; so an acknowledgement is always
  newer than the data sent before it.

It also proves that the proxy implements `RelaySpec` (`ProxyIsARelay`).  The mapping
flattens what is queued (`Arriving`), so it commutes with concatenation
(`ArrivingConcat`), and what is sent adds exactly one message to it (`OutsGrow`).
The unit that the client reads takes a message away if it is a second half and none
otherwise (`ArrivingTail`), which is why a handler that moves units from a buffer
into the socket, or a read of a first half, is a stutter.  The guards of the
relay (nothing is forwarded, answered or passed on as data while a command is
unanswered) come from `Turns`.

Model-checked only:

- Liveness (`TimersTerminate`, `SingleEnds`, `PacketsLeave`, `TableArrives`,
  `Relayed`, `OrphansEnd`): out of the prover's reach.

## What is not modelled, and the plan

In order:

1. `TimeList`: the linked list of `node.cpp` as a refinement of the sequence in
   `RequestPool`, with a proof.
2. Pure modules: `Rad50`, the saturating `StatCounter`, datagram framing, each
   against a reference definition.
3. Proofs: the refinement of 1.

Out of scope: reports, packet dumps, option parsing and logging; the type-code
handlers of the internal task that only format state; the `KEEP_ALIVE` and
`PINGER` builds.
