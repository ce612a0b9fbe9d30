# 6LBR border router: specifications and proofs

TLA+ specifications of the CETIC 6LBR border router (Contiki, `examples/6lbr`,
native target), their model checks and their proofs. A border router joins an
IEEE 802.15.4 network to Ethernet; on the native target its radios are *slip
radios*, boards on a serial line that run `examples/ipv6/slip-radio`.

What follows: the inventory of the system, which module models which part, what
every run and every theorem shows, and the plan for the rest.

The build that is modelled is the native one of `6lbr-conf-native.h`:
`CETIC_6LBR_MULTI_RADIO` is 1, `PACKETBUF_WITH_PACKET_TYPE` is 0, the MAC stack
is csma.c under multi-radio.c over native-rdc.c with nullsec, 16 neighbor
queues, 256 queue buffers, `MAX_CALLBACKS` 16.

## Inventory

Everything runs in one thread: a main loop (`platform/native/contiki-main.c`)
that polls processes, delivers one event, and serves file descriptors. The
interleavings are those of handlers: events, polls, timer callbacks, select
callbacks, and calls from one layer down into the next and back up through
callbacks. Only the slip radio has true concurrency, between the interrupt of its
serial port and the process that reads what the interrupt stored.

| Component | Source | State | Operations | Hard behaviour | What makes it correct |
|---|---|---|---|---|---|
| Process scheduler | core/sys/process.c, contiki-main.c | process list, event ring, poll flags | start, exit, post, post_synch, poll, run | full ring, exit during delivery, re-entrance | events in order, none for the dead, no lost poll |
| Timers | core/sys/etimer.c, ctimer.c, timer.c | linked lists of timers, intervals, queued TIMER events | set, reset, restart, stop, poll, deliver | timer set or stopped while its event is queued; full ring | lists stay lists, no timer is lost, none fires early |
| Memory pools, queue buffers | core/lib/memb.c, net/queuebuf.c, packetbuf.c | block maps, the one packet buffer | alloc, free, copy | exhaustion half way through an allocation | no leak, no double free |
| CSMA | core/net/mac/csma.c | queue, counters and timer of each neighbor; three pools | send, timer expiry, packet_sent | report after the neighbor changed, retries, pool limits | every request is called back once, in order, within its retries |
| Multi-radio | 6lbr/multi-radio.c, network-itf.c, switch-lookup.c | input and output interface (globals), address table | send, packet_sent, input | globals left over from the previous call | the interface is the one of the packet at hand |
| Native RDC | platform/native/native-rdc.c | table of callbacks, round-robin position, timeouts | send, report, timeout, configure radios | late, duplicate and lost reports; full table | one report per frame, for that frame |
| Serial link | platform/native/slip-dev.c, slip-cmds.c | output buffer and input buffer per device | write, flush, read, dispatch | partial writes, overflow, shared input buffer | frames arrive whole and in order |
| SLIP driver of the radio | core/dev/slip.c | ring of received bytes, its ends, decoder state | receive a byte (interrupt), take a packet out (poll) | interrupt at any point of the poll, full ring | each packet is handed over once, whole, in order |
| Slip radio | ipv6/slip-radio/slip-radio.c | ring of session numbers | send command, packet_sent | more frames than the ring holds | the report bears the frame's number |
| Framing, duplicates | net/mac/framer-802154.c, mac-sequence.c | sequence number, history of senders | create, parse, register | wrap of 8 bits; one number kept per sender | no frame dropped that is new, none taken twice |
| Link-layer security | net/llsec/* | frame counters, keys | secure, check | replay, counter loss at restart | counters grow |
| Forwarding engine | 6lbr/packet-forwarding-engine.c | the packet at hand | Ethernet and radio input and output | buffer shared by all directions | no loop, right interface |
| Neighbor tables | net/nbr-table.c, link-stats.c | keys, used and locked bits per table | add, remove, lock, evict | eviction of an entry in use | locked entries survive, callbacks run |
| Neighbor cache, packet queue | ipv6/uip-ds6-nbr.c, uip-packetqueue.c, uip-nd6.c, tcpip.c | neighbors and their states, packets that wait | add, remove, update, periodic, NS/NA/RS, output | handles inside items that are moved and freed; one shared item without an address | a packet goes to its neighbor, its block returns, solicitation ends |
| Routes | ipv6/uip-ds6-route.c, rpl/rpl.c, rpl-icmp6.c | routes, by prefix and by next hop | lookup, add, remove, DAO, purge | next hops that vanish while a route uses them | the tables agree, a route follows its DAO |
| Prefixes, addresses | ipv6/uip-ds6.c | prefixes, addresses, timers | add, remove, periodic | lifetimes | - |
| 6LoWPAN | ipv6/sicslowpan.c | reassembly contexts | fragment in, timeout, output | interleaved datagrams, timeouts, full table | a datagram is delivered whole or not at all |
| Non-storing topology | net/rpl/rpl-ns.c | nodes, their parents and lifetimes | update, expire, periodic, reachability | DAOs in any order, loops for a while, nodes freed under their children | each hop was announced, paths are kept, the tree converges |
| RPL | net/rpl/*, 6lbr/6lbr-rpl.c | instances, DAGs, parents, DAO state, timers | DIO, DAO, DIS in and out, repair | lost and stale DAOs, version and sequence wrap | no stale route wins, DAO is acknowledged or retried |
| Border router application | 6lbr/6lbr-main.c, 6lbr-network.c, nvm-config.c, mactrans.c, rio.c | configuration in NVM | start, reset, migrate | restart between writes, migration of old layouts | the configuration read is one that was written |
| Applications | apps/node-info, dns-proxy, webserver; er-coap | node table, CoAP transactions, observers | packet analysis, retransmission | retransmission against late answers | a transaction ends once |
| Native services | raw-tap-dev.c, native-config.c, watchdog, plugin.c | file descriptors | read, write | none of its own | - |

How they interact on the way out: sicslowpan hands a frame to
packet-forwarding-engine.c, which sets `multi_radio_output_ifindex` and calls
down through nullsec (which numbers the frame) and multi-radio.c to csma.c.
csma.c queues it per receiver; a callback timer of the neighbor expires and
hands the head of the queue to native-rdc.c, which gives it a session number
(`sid`), arms a timeout and writes `!S sid` to the radio. The radio answers
`!R sid status tx`; `serial_input()` sets `multi_radio_input_ifindex` and calls
`packet_sent()` of native-rdc.c, which calls `packet_sent()` of csma.c, which
finds the packet by sequence number and that interface, and reports to the layer
above or schedules a retransmission.

On the way in, a frame passes the duplicate detection of nullsec.c and the
reassembly of sicslowpan.c and reaches the IPv6 stack, where RPL's messages and
neighbor discovery change the tables: every neighbor has a key in nbr-table.c, a
route hangs on the key of its next hop, and a packet for a neighbor that is being
resolved waits in uip-packetqueue.c under a handle inside the neighbor's item. At
the root of a non-storing DODAG, rpl-ns.c keeps the tree that source routes are
made from.

The hazards of this code are listed in PROJECT.json with the line where each
bites and the properties that cover it. Those no property covers are listed too,
with a note.

## Modules

| Module | Models | Notes |
|---|---|---|
| `MacService` | what the MAC layer promises | abstract: FIFO per receiver, one callback per request |
| `CsmaMac` | csma.c | state and effect of its three entry points |
| `Csma` | csma.c over any RDC layer that keeps its contract | the properties; refines `MacService` |
| `CallbackTable` | the table of native-rdc.c | `NextSlot` is the round-robin search |
| `SlipLink` | a serial line with a radio at its end | ordered, possibly lossy |
| `NativeRdc` | native-rdc.c over one line, frames at will | is a late report about the right frame? |
| `RadioTx` | csma.c + multi-radio.c + native-rdc.c + lines | implements `Csma` |
| `SlipBytes` | SLIP framing at both ends | `Encode`, `Decode` |
| `SlipOutput` | the output half of slip-dev.c | `slip_buf` byte by byte |
| `SlipDriver` | the receive half of core/dev/slip.c | the interrupt against the steps of the poll handler |
| `SerialLine` | `SlipOutput`, a line and `SlipDriver` | when frames arrive whole and in order, as `SlipLink` has it |
| `Timers` | etimer.c, ctimer.c, the event queue and the main loop | |
| `Process` | process.c under contiki-main.c | re-entrant, with a call stack |
| `NbrTable` | nbr-table.c | keys, used and locked items; extended by the next two |
| `Routes` | uip-ds6-route.c and storing-mode RPL at the root | |
| `Neighbors` | uip-ds6-nbr.c, uip-packetqueue.c, the messages that change them | |
| `RplNs` | rpl-ns.c and non-storing RPL at the root | |
| `MacSequence` | mac-sequence.c | extended by `Reassembly` |
| `Reassembly` | nullsec.c's input and the fragment half of sicslowpan.c | with motes that retransmit |
| `Lists` | core/lib/list.c, and lists that link themselves | extended by `Timers`, `NativeRdc`, `MacSequence`, `RplNs` |
| `MC*` | instances for TLC | constants, symmetry |
| `Csma_proofs`, `RadioTx_proofs`, `Routes_proofs`, `Neighbors_proofs`, `RplNs_proofs`, `Process_proofs` | theorems about the module of that name | TLAPS |
| `Lists_proofs` | theorems about `Timers` and `Reassembly` | TLAPS; they share the lemmas about `Lists`, and it extends both, hence `ReassSpec` and the like |
| `Serial_proofs` | theorems about `NativeRdc` and `SerialLine`, the two ends of what native-rdc.c writes | TLAPS; it extends both, hence `SerialSpec` and the like |

An action is one handler run to its end (except in `SlipDriver` and `Process`, see
below): `SendPacket` is a call of `send_packet()` with everything it calls,
`TransmitPacketList` the expiry of a transmit timer, `Report` the reading of one
`!R` line, `DaoInput` a DAO with the neighbor and the route it adds. Definitions keep
the names of the C functions. The `_Suffix` variants in front of a definition (for
example `Enqueue_Push` before `Enqueue`) are the definition with a plausible bug;
they are used only to see that each property can fail.

### State

`CsmaMac`: `addr`, `queue`, `transmissions`, `collisions` and `timer` are the fields
of `struct neighbor_queue`; `packetMemb`, `metadataMemb` and `queuebufs` say which
requests hold a block of each pool; `upper` is what the callback of each request last
reported. A packet is only its identity, sequence number, interface and maximum of
transmissions. A backoff is any delay.

`CallbackTable`: `cb`, `cbPos` and `cbCount` are `callbacks[]`, `callback_pos` and
`callback_count`; `retransmit` is the number of retransmissions that
`slip_device->retransmit` configures, any one of `Retransmits`.

`SlipOutput`: `slipBuf` is the used part of `slip_buf`, so `slip_end` is its length;
`packetEnd` and `slipBegin` are offsets as in the code. `SlipDriver`: `rxbuf`,
`begin`, `nextFree` and `pktEnd` are the ring and its ends, `needspoll` the poll flag
of `slip_process`, and `pc` its position in `slip_poll_handler()`: the handler is cut
wherever it reads or writes an end that the interrupt reads or writes too.

`Timers`: `timerlist` and `ctimerList` are the lists of etimer.c and ctimer.c, `owned`
whether `etimer.p` is set, `left` what is left of an interval, `events` the queue.
Time is relative, so it needs no bound.

`Process`: `process_list` and `next` are the list with its pointers, which survive the
removal of their process as in the code; `state`, `needspoll`, `poll_requested` and
`process_current` are the fields and globals of these names. A protothread may start,
exit, poll, post to and call other processes while it runs, so that an action goes
from one call to the next and `stack` holds the C frames in between, the top last: a running
protothread, a `process_post_synch()`, a walk over the list with its cursor in
`exit_process()`, `do_poll()` or `do_event()`.

`NbrTable`: a block of `neighbor_addr_mem` is never freed, so `lladdr` is the pool and
the list of keys; `used` and `locked` are the two bit maps, seen from the table. The
eviction of a key, with the callbacks of the tables that use it, is
`nbr_table_add_lladdr()` with the policy of rpl-nbr-policy.c as a parameter.

`Routes`: `routelist` are the blocks of `routememb` in use, `route` their contents,
`route_list` the lists by next hop, which hang on the items of `nbr_routes`. `from` and
`dead` are history variables. A DAO for a prefix looks up its base address; the constant
`Covering` has the prefixes that match that address: itself, those around it, and narrower
ones with the same base address. Their `Length` decides among them.

`Neighbors`: `item` is the table `ds6_neighbors` with state, `nscount` and
`packethandle`; `packet` is `packets_memb`, its `timer` the handle that
`packet_timedout()` will be called with (an item, since handles lie within items);
`uip_buf` is whom the packet in it is for. `Periodic(due)` is
`uip_ds6_neighbor_periodic()` when the timers of `due` have expired.

`SlipDriver` again: `Copied` is what the two copy loops make of a packet, with the check
for the room of `outbuf` (`OutSize`) that each of them has.

`RplNs`: `nodelist`, `id`, `parent` and `lifetime` are the nodes; the contents of a
freed block stay, and so do pointers to it. `nodelist` is a sequence because its order
matters: `rpl_ns_periodic()` frees the first expired node of the list and no other, since
`list_remove()` clears the pointer by which its walk would go on. The others stay, with a
lifetime of 0, until a later round or a DAO. `settled` and `sender` are the
environment (do motes still change their parents, and whose DAO was the last);
`announced` and `orphans`, the nodes whose parent was freed since they
took it, are history.

`Reassembly`: `frag_info` and `frag_buf` are the arrays of these names, lengths and
offsets count fragments, `uip_buf` is what `tcpip_input()` was last called with, and
`mote` is what each mote sends. A fragment is told apart by its datagram, and
`received_seqnos` of `MacSequence` decides whether a retransmission gets through.

### Why `Csma` has an RDC layer of its own

csma.c depends on a contract no header states: the RDC layer answers each frame
once, later, and with `multi_radio_input_ifindex` equal to the packet's
interface. `Csma` states it (`rdc`, `Answer`), so that the theorems about csma.c
do not depend on native-rdc.c. `RadioTx` then shows that native-rdc.c keeps it
(`ImplementsContract`, its fairness included), and where it does not (`radio_tx_refused`).

## Runs

| Run | Question | Bounds |
|---|---|---|
| `csma_safety` | is every queue served by exactly one agent, does each report find its packet, do blocks leak, are retries bounded, do counters start afresh? | 3 requests, 2 receivers, 2 neighbor blocks, 2 interfaces, one sequence number (all packets share it), 2 packets per neighbor, 2 buffers, 1 or 2 transmissions, 1 backoff |
| `csma_service` | is every request called back, in the order of its queue? | the same with one interface |
| `rdc_reports` | does a late report find its frame or a free slot, and does the count of slots stay right? | 3 slots, 4 frames, 1 retransmission, a lossy line |
| `radio_tx` | does the whole stack keep the contract, and does its fairness follow from timers? | one lossy radio, 1 retransmission, 2 slots, 2 requests |
| `radio_tx_refused` | is a refused frame's packet found? No: a finding. | one radio, 2 slots, 2 requests, any frame may be one that cannot be made |
| `timers` | do the lists stay sound, is no armed timer forgotten, does each fire, and none early? | 2 timers of interval 0 or 2, a queue of 3 with at most 2 foreign events |
| `serial_line` | is any frame split, merged, damaged or left behind between `write_to_slip()` and the radio? | 2 frames in flight (a plain byte, a byte to escape), `slip_buf` of 4 bytes, a ring of 6, 1 byte on the line |
| `process` | does the list stay the list of those that run, and does a walk miss a process or a poll get lost, when processes start and exit within each other's calls? | 3 processes, an event queue of 1, 2 protothreads on the stack, 1 call by each |
| `routes` | do the four views of the routes agree, does a route lead where its last DAO came from, and whom does a DAO cost its route? | 3 motes on 2 keys, 2 routes, a host in P::/64 and P::/56 and a prefix beside P::/64 in P::/56, lifetimes of 1 round |
| `neighbors` | does a packet that waits go to its neighbor, and its block back to the pool; does solicitation end? | 3 addresses of 2 motes, 2 keys, 2 packets, 2 solicitations |
| `rpl_ns` | does the topology hold only links that were announced, keep the paths it has, and converge when the motes keep their parents? | 3 motes that settle in a chain, 4 nodes, lifetimes of 1 round |
| `reassembly` | is a datagram delivered whole or not at all, and no fragment counted twice? | 2 motes, datagrams of 3 fragments, 2 tags (1 of them with a header that is not known), 2 contexts, 2 buffers |

Why the bounds are enough.

* CSMA and the radios: two neighbors, two packets in one queue and one more packet
  than buffers give every combination of first and next packet, free and taken block,
  and exhausted pool. One sequence number for all packets is the worst case of the
  8-bit number that wraps and of broadcast copies; with one transmission per neighbor
  outstanding a larger table only delays the reuse of a slot, which is what
  `rdc_reports` looks at with three. `MaxBackoff` 1 makes both branches of
  `collision()` reachable in two reports.
* `serial_line`: a `slip_buf` of 4 bytes and a ring of 6 both overflow with two frames
  of two and three bytes, and the ring wraps at every offset of a frame.
* `timers`: three places of which foreign events take two make the queue full at
  any point of `etimer_process`, and one of two timers is expired while the other is
  set, stopped or pending.
* `process`: three processes are one that walks, one that is called and one that
  changes the list under the two; the list then has a head, a middle and an end. An
  event queue of one is full or empty at each post.
* `routes`, `neighbors`: three motes on two keys evict one another, and a third prefix
  meets a full table of two routes; one key can be
  locked by a route, or be `linkaddr_null`, while the other changes hands. P::/64 and P::/56
  have one address, and the host and the prefix beside have others, so that all three
  kinds of match occur. Two packets are the code's own `MAX_NUM_QUEUED_PACKETS`. A mote
  with two addresses gives the case that a resolved address meets a neighbor with the same
  link-layer address.
* `rpl_ns`: three motes make loops of two and of three and a chain that is as deep as
  the pool. With lifetimes of one round every node whose lifetime is not infinite expires in
  the next round, unless a DAO renews it before the walk comes to it: a parent and a child
  expire together, in either order of the list, backlogs of two build up and are worked off
  or overtaken by DAOs, and blocks are reused in between. Four nodes are enough for
  everybody, without which the topology could not converge; pools that run out, and longer
  lifetimes, are covered by the theorems about the two safety properties.
* `reassembly`: three fragments have a first, a last and one in between, which can
  come twice or not at all. Each mote sends its fragments in order, and so does the code on the
  other end; what mixes is the fragments of several motes, and those of a datagram given up
  half way with those of the next. With two buffers one datagram starves the
  other; with two tags a tag comes back while an older datagram of it still waits.

The bounds have names: `MaxPerNeighbor`, `MaxPackets`, `MaxBufs`, `MaxSolicit`,
`NumEvents`, `MaxSeqnos`, `NumBuffers` and the sets of slots and keys are limits of the
code itself. `LineBound` (a frame that finds a line full is lost), `MaxLate` and
`MaxOthers` in `Timers`, `MaxInFlight` and `LineBytes` in `SerialLine`, `MaxThreads`
and `MaxCalls` in `Process` are limits of the model. In `NativeRdc`, `SendPacket` also
asks for fewer than `MaxCallbacks` frames on the line: beyond that a report can be a
whole round of the table late, and then it is credited to another frame. Symmetry is
used for requests, interfaces, frames, processes and motes in runs without liveness
only.

What the runs assume and the code does not say; each can be lifted by a constant or by
taking a disjunct out of the property, and then the run fails (see Observations):

* `radio_tx`: one radio. `Crossing`, whether a report may be so late that its slot
  serves a frame for another radio, matters with two. `Spec` also has as many slots
  as neighbors and frames that can be made; `FaultySpec` lets any frame be refused.
* `timers`: `NeverEarly` excepts a timer whose old event was still queued when it was
  set again. csma.c keeps clear of that (`QueueServed`: the timer is set only when it
  is not pending); native-rdc.c stops a timeout whose event may be queued and sets it
  again when the slot is reused. `EveryTimerFires` excepts a timer that is put off
  again and again, and a queue that refuses events again and again.
* `serial_line`: frames fit in the `uip_buf` of the radio (`FramesFitAssumption`).
* `undisturbed`, a history variable of `serial_line`: no byte was discarded as rubbish so
  far, and no `SLIP_END` came between the last look of `slip_poll_handler()` at the ring
  and its update of `begin`. When the ring overflows, `next_free` goes back to where the
  `SLIP_END` of a buffered packet is, and the next frame loses its first byte; the
  layers above must notice. Checksums are off at both ends, as configured by default.
* `regular` of `rdc_reports`: nothing was lost or retransmitted so far. After that the
  order of reports on the line and the order of slots come apart, and only the counts
  can be relied on.
* `process`: `ExitActive` is FALSE: nobody exits a process that is on the stack.
* `routes`: a route that a DAO met when its next hop was no neighbor any more (`dead`),
  and one that hangs on the item without an address, are excepted.
* `neighbors`: `torn`, a history variable, excepts blocks of the pool that nobody has a
  handle of after a handle that had a packet was overwritten. `ForeignTargets` is FALSE: a solicitation that is received
  asks for an address of the border router, so that it is answered at once.
* `rpl_ns`: `orphans`, a history variable, excepts the nodes whose parent was freed under
  them, from then until they take a new parent, and in `PathsKept` the paths that pass one.
  All other nodes are held to the properties meanwhile.
* `reassembly`: `Interleaved` is FALSE: a mote sends no other frame between two
  transmissions of one fragment, and retransmissions take less than `SEQNO_MAX_AGE`.
  Tags start anywhere but go on by one: a mote does not reboot into a tag in use.
* `memcpy()` in `slip_flushbuf()` is taken to do what `memmove()` does, although the
  areas can overlap. `rs_input()` finds a key when it adds the neighbor it has just
  removed.

### Fairness

`Csma`: timers expire, and the RDC layer answers every transmission. `RadioTx`:
timers expire, nothing else: losses, silence and late reports of the radio are all
allowed, and a frame's timeout is enough. `Timers`: the main loop goes round, and time
passes. `SerialLine`: the serial port takes and delivers bytes and the radio runs its
polled process; nothing is assumed of who writes frames, and the run does not look for
deadlocks, since `exit(1)` on a full `slip_buf` ends the program. `Neighbors`: the
periodic timer finds each neighbor's timer expired again and again, the timer of each
queued packet expires, and the packet in `uip_buf` is sent on; strong fairness for the
first two since both wait for `uip_buf` to be empty, which it is in each round of the
main loop. `RplNs`: once the motes keep their parents, a DAO of each gets through again
and again, and in time for its node not to expire; nothing is asked of the periodic
timer, so that what had expired before may be freed at any time or never. The other modules have none. That the timers of `Csma`,
`RadioTx` and `Neighbors` expire rests on what `timers` shows. No action of the layer
above is fair.

## Finding

`radio_tx_refused`: when native-rdc.c refuses a frame at once (it cannot be made, or
no slot is free), csma.c cannot find the packet, because nobody has set
`multi_radio_input_ifindex`. The queue of that neighbor holds its packets for ever, and
fills up.

## Observations

What else the code does that its authors may not expect. No run is kept for these; each
says how to see it.

* `RadioTx` with `Crossing = TRUE` and two interfaces: a late report of one radio for a
  slot that serves another radio by then has the effect of `radio_tx_refused`
  (native-rdc.c:121; `ReportFindsPacket`).
* `Timers` without the disjunct `OnList(c, timerlist)` of `NeverEarly`: a callback timer
  set again while its old event is queued fires at once (ctimer.c:76).
* `SerialLine`: a `SLIP_END` that the radio receives after `slip_poll_handler()` looked
  for further packets (slip.c:378) and before it sets `begin = pkt_end` (397, 400) is not
  announced. The frame stays in the ring until the next one comes, and the two are read
  as one. Take the second conjunct that `Receive` adds out of `undisturbed`.
* `Process` with `ExitActive = TRUE`: a process that is exited by what it has called
  returns and is unlinked or marked running as if nothing had happened
  (`ListTellsWhoRuns`).
* `Routes`: a route whose next hop has left the neighbor cache is refreshed by a DAO
  from any mote (rpl.c:244) and leads nowhere, or to whoever gets the key (drop
  `dead`). The DAO of a mote that is not resolved yet hangs its route on the item of
  `linkaddr_null`, which the next neighbor to be resolved shares.
* `Neighbors`: all neighbors that are being resolved share the item of `linkaddr_null`,
  so that a second one takes the item of the first, and the packet that waited there
  stays in the pool (uip-ds6-nbr.c:89, 101; drop `torn`). With `ForeignTargets = TRUE`,
  `PacketsWait` and `SendsOwn` fail: `ns_input()` takes the link-layer address of the
  solicitor (uip-nd6.c:281) before it drops the solicitation for its target (404), and
  `uip_ds6_nbr_update_lladdr()` has by then copied the handle of a packet that it freed
  into the new item (uip-ds6-nbr.c:187). In smart-bridge mode such solicitations are
  received (uip6.c:1243).
* `rs_input()` (uip-nd6.c:843) uses the result of `uip_ds6_nbr_add()` without a look at
  whether it is NULL.
* `SlipDriver`: a packet that does not fit in `outbuf` is dropped, but when it also wraps
  around the ring and the check stops the first of the two copy loops (slip.c:330), the second
  one copies the rest as if it were a packet. The border router's frames fit.
* `Routes`: "If we find an existing route for our destination, we'll delete the old one
  first" (uip-ds6-route.c:337-339); but the route that is found there (340), as in
  `rpl_add_route()` before (rpl.c:242), is the longest match of the prefix's address, as for a
  packet. The DAO of a host takes the route of the prefix around it, and a DAO for P::/56
  takes that of P::/64, which has the same address. Check `DaoSparesOthers` in the run
  `routes`; `DaoCostsOneMatch` says what the cost is.
* `RplNs`: `rpl_ns_periodic()` says that it deallocates expired nodes "iff no child points
  to them" (rpl-ns.c:213). It searches for children, leaves the search when it finds one
  (219), and deallocates the node whatever it found (223). The children point to a free
  block, and then to whoever is given it (drop `orphans` from `HopsAnnouncedUnlessOrphaned`).
* `RplNs`: nor does it deallocate "all" expired nodes. `list_remove()` sets the `next` of
  what it unlinks to NULL (list.c:258), and the walk goes on by that pointer
  (rpl-ns.c:214), so that one node is freed in a round. The others stay on the list, their
  lifetime 0, and source routes go on leading through them (add to `NodesUnique` that
  the lifetime of every node is above 0). What this does not break: no hop is invented, paths that
  pass no orphan stay, and the tree still converges (`rpl_ns`).
* `RplNs`: nodes that are known only as parents have an infinite lifetime and never leave
  the table.
* `Reassembly` with `Interleaved = TRUE`: the duplicate detection keeps one number per
  sender, so that a broadcast between two transmissions of a fragment lets the second
  through; it is counted twice and the datagram is delivered with a hole
  (mac-sequence.c:115 against sicslowpan.c; `DeliveredWhole`). With more senders than
  MAX_SEQNOS the same happens without a broadcast, since the number of the sender that
  was heard least recently is forgotten. A first fragment whose
  header is not known leaves the counters of the context's last use.

## Proofs

TLC checks small instances. What follows is proved with TLAPS for every value of the
constants that meets the assumptions named in the modules. Each section gives the
inductive invariant and why it is what it is. A theorem that needs more than the
module's assumptions says so in its statement (ASSUME ... PROVE); those hypotheses
are listed at the end.

| Theorem | States | Of |
|---|---|---|
| `TypeCorrect`, `EveryQueueServed`, `EveryAnswerFindsHead`, `AlwaysHandleFree` | `TypeOK`, `QueueServed`, `AnswerFindsHead`, `HandleFree` | `Csma` |
| `PoolsHold`, `CountersStartAfresh`, `StaysWithinBudget` (hypothesis) | `PoolsMatchQueues`, `FreshCounters`, `WithinBudget` | `Csma` |
| `ImplementsServiceSafety` | the safety part of `ImplementsService` | `Csma`, `MacService` |
| `PathTyped`, `ImplementsContractSafety` (hypothesis) | `TypeOK`, the safety part of `ImplementsContract` | `RadioTx`, `Csma` |
| `TableAgrees`, `SlotFound`, `ReportsMatch` (hypothesis) | `TableConsistent`, the search for a slot ends, `ReportsFindTheirFrame` | `NativeRdc` |
| `BookkeepingSound`, `FramesArriveInOrder`, `PacketsStayIntact` | `OutputSound`, `FramesInOrder`, `PacketIntact` | `SerialLine` |
| `Sound`, `NoneForgotten`, `NoneEarly` | `ListsSound`, `ArmedIsPending`, `NeverEarly` | `Timers` |
| `TablesAgree`, `Unambiguous`, `FollowsDao`, `DaoSpares` (hypothesis) | `RouteTablesAgree`, `LookupsUnambiguous`, `RouteFollowsDao`, `DaoSparesOthers` | `Routes` |
| `KeysStay`, `DaoCosts` | a key with routes is not given away; `DaoCostsOneMatch` | `Routes` |
| `Addresses`, `PacketsKept`, `SendsItsOwn` (the last two with a hypothesis) | `AddressesResolved`, `PacketsWait`, `SendsOwn` | `Neighbors` |
| `HopsAnnounced`, `PathsStay`, `RootKnown` | `HopsAnnouncedUnlessOrphaned`, `PathsKept`, the root's own node never expires | `RplNs` |
| `AllAccounted`, `NoneCountedTwice`, `WholeOrNothing` (the last two with a hypothesis) | `FragmentsAccounted`, `CountedOnce`, `DeliveredWhole` | `Reassembly` |
| `ListTellsWhoRunsAlways`, `CurrentRunsAlways`, `WalksMissNobodyAlways`, `NoPollLostAlways` (hypothesis) | the properties of these names | `Process` |

### CSMA

`Inv` is `TypeOK`, `QueueServed`, `AnswerFindsHead` and `NeighborsMatchQueues`
together. None of them is inductive alone. `QueueServed` needs `AnswerFindsHead`: if a
report did not find its packet, the queue would be left without an agent.
`AnswerFindsHead` needs `QueueServed`: only because a neighbor has one transmission at
a time can a finished packet leave its queue without making a second transmission's
packet disappear. Both need `NeighborsMatchQueues`: a new block must not be one with a
transmission still outstanding. There is one lemma for each outcome of `send_packet()`
(`SendQueuedInv`, `SendNoBufferInv`, `SendOverflowInv`), for the timer (`TransmitInv`)
and for the report (`AnswerInv`, by the cases of `AnswerCases`: the packet stays and is
scheduled again, leaves, or is deferred). `AlwaysHandleFree` is a pigeonhole argument
over `QueueServed`: the map from used handles to neighbors is injective and misses a
neighbor whose timer is pending.

On `Inv` rest the other four. `PoolsByRequest` says of each request where it is, which is
what a step changes, and gives `PoolsMatchQueues`, which speaks of the pools as a whole.
`Budget` counts the passes through the RDC layer that the two counters stand for: a
retry makes that number grow by one at least (`RetryCounts`). For the service, the
requests queued for a receiver are those of the one queue that serves it
(`PendingOf`); queueing, the end of a packet and a refusal are the steps of
`MacService`, and all others leave it alone.

### The transmission path

`ImplementsContractSafety`: each step of `RadioTx` is one of `Csma` or a stutter, where a
slot in use that csma.c waits for is an RDC handle. The invariant is little more than the
types and the count of slots: what `Csma` needs to hear from native-rdc.c is that an
answer is for a slot in use and bears the interface of its packet, and that comes from
the step itself (`inputIf` is set from the slot's own device). `SameSend` and `SameSent`
show that the copy of csma.c inside `Csma` does what the one inside `RadioTx` does. The
theorems about `Csma` then hold of the whole path by this refinement; the last step, from
"`RadioTx` implements `Csma`" to each property, is made by the reader and not by TLAPS,
which does not apply theorems of an instantiated module.

`TableAgrees`: the slots in use, the timeouts that are set and the count agree, and the
frames of two slots are different ones because the frame of a slot in use has not been
reported on (`Owned`). `SlotFound` is that the loop of `setup_callback()` ends: it begins
only when the count is below `MAX_CALLBACKS`, so there is a free slot, and it goes round
the whole table. `ReportsMatch` is about the order of things. With one radio, as long as
nothing was lost or sent again, the sids on the line are the last ones that were taken,
in this order and without a gap (`InOrder`), and every slot in use has its frame or its
report on the line (`OnTheWay`); so the report that comes next is for the oldest of them,
and its slot cannot have gone round the table to another frame.

### The serial line

`SerialInv` speaks of every byte between `write_to_slip()` and `slip_poll_handler()`,
wherever it is; none of the three properties is inductive without the rest of it.

* `OutputInv` is `OutputSound` with what makes it last: `slip_buf` ends with a
  `SLIP_END`, and no two of them follow each other (`Whole`), so that the search of
  `slip_flushbuf()` for the next end, which begins behind the first byte of the packet,
  can miss none. `packetCount` counts a set of positions; that a write adds one to it and a
  flush takes one away is a bijection of positions (`OneMoreFrame`, `OneFrameLess`).
  This part holds whatever happens, also after an overflow.
* `Pointers`, as long as the receiver is undisturbed: `pkt_end` is at the first
  `SLIP_END` of the ring from where `slip_poll_handler()` reads on, at each of the points where the
  interrupt may come (`EndKnown`), or there is none yet (`NoneKnown`). That the ring is
  the space from `begin` to `next_free`, wherever it wraps, is arithmetic modulo its
  size (`RingArithmetic`); what a byte stored by the interrupt does to it is `CellsStore`.
* `Arriving`, likewise: the bytes in the ring, on the line and in `slip_buf` not yet
  written (`BytesAhead`), in this order, are the frames that the handler has not copied, escaped and ended
  one after the other (`Stream`). The one exception is the `SLIP_END` that
  `slip_init_dev()` sends ahead of the first of them (`FirstByteAhead`). A write appends
  to that stream, `write()` and the interrupt move a byte from one of its parts to the
  next, and the handler takes its first packet off.

Then what the handler copies is the escaped form of the oldest frame, and its own
unescaping undoes the escaping of `write_to_slip()` (`DecodeBody`). This is an induction
over the bytes of a frame, as is what the stream of several frames begins with
(`FrameAhead`); both are made with the shortest prefix that would be an exception, as
described below. `FramesArriveInOrder` and `PacketsStayIntact` need no hypothesis: frames,
both buffers and the line are of any size, and `undisturbed` is in the properties.

### Timers and lists

`Inv` adds to the soundness of the lists what becomes of a timer that waits for its
callback and is not on the list of etimer.c: it is due, and its event is in the queue
(`Waiting`). That no timer is forgotten and that none is called early both follow from
it, and neither is inductive. The main loop posts, unlinks and calls back in several
steps, so `Waiting` has the lists and the queue as parameters and is followed through
the calls that a callback makes.

The lists are sequences. What a list keeps when items are unlinked (`Kept`) is a
recursive function, and lemmas at the start of `Lists_proofs` say what it and the other
operators of `Lists` return for lists of any length. Induction is done by looking at the
shortest prefix of the list that would be an exception (`LeastOf`, the well-foundedness
of <). The same argument serves the loop of `rpl_ns_is_node_reachable()`.

### Reassembly

`AllAccounted` needs nothing of the duplicate detection. `ReassInv` adds to
`FragmentsAccounted` that a stored fragment is one of the datagram of its context, and
that its copy number is below the number of copies of its offset, so that each fragment
that is stored is a new one and the count goes on by one (`StoredKeeps`), however often
it is counted; and that the context of what a mote sends has the size of that datagram
(`MotesOK`), so that a count that has reached the size it was told is complete.

`NoneCountedTwice` and `WholeOrNothing` follow from `OnceInv`, which relates three things
that no handler sees together, the list of sequence numbers, the buffers and what each
mote is sending:

* each sender is at most once on the list (`SendersOnce`), and since there is room for
  all, registering one forgets no other (`RegisterOnce`, where the other entries are
  counted by their senders);
* if the fragment that a mote is sending has been taken, its number is the mote's last
  (`Seen`), so whatever is not a duplicate is not stored yet;
* what is stored of the datagram that a mote is sending was sent before (`Behind`), so
  the mote's next fragment is not there yet when it goes on to it;
* no fragment is stored twice, and no datagram has two contexts (`Once`).

`DeliveredWhole` is then a matter of counting (`WholeIs`): a context with n fragments
stored has counted n + 1, and a datagram is complete when the fragment that comes makes
the count reach the size. All offsets stored are different ones between 1 and the
offset that comes, so there are not more of them than offsets below it, and none is
missing.

### The scheduler

`Inv` of `Process_proofs` has three parts, and none of the four properties is inductive
without all of the first.

* `Kernel` ties the list, the states and the stack together. `StackOK` is the shape of
  the stack: what can be called from what (`OnTop`), that nobody is entered twice or
  exits twice (`Once`), and that a protothread from which something was called is the
  `old` that the callee restores, which is why `process_current` is right again when it
  returns, whoever was called meanwhile. A `do_poll()` is at the bottom or above a
  broadcast that is, so that there is one at most.
  `FrameState` is what a frame knows of its process: a process that is called is marked
  so, one whose exit is under way runs no more, whoever a loop still owes a call runs.
  `ListOK` is `ListTellsWhoRuns`. It needs the shape of the stack, since a process leaves
  the list only when its one exit ends.
* `FrameWalk`, within `Kernel`, says of each loop that the walk from its cursor reaches
  all it owes. A loop keeps only a pointer to a process, and that process can leave the
  list and come back while the loop is in the middle of a call. Two lemmas say what that
  costs: the removal of a process costs a walk this process only, wherever the walk is,
  also on a process that has itself been removed, because its `next` stays
  (`UnlinkKeeps`); linking one at the head costs a walk nothing of the list that it
  reached before (`LinkKeeps`). Both are statements about any pointers, and hold of any set of processes,
  finite or not, since what a walk reaches is a least closed set (`FromLeast`).
* `Polls` is `NoPollLost` with the states: who has asked for a poll runs and has its flag.
  A `do_poll()` clears the flag of the process that it calls and of no other, and the
  flag `poll_requested` is cleared only when the walk is at the head of the list.

The hypothesis is `~ExitActive`, as in the run. With a process that is exited while it is on
the stack, `FrameState` fails for its own frame, and with it `ListOK`: it returns into
`call_process()`, which marks it running although it is not on the list.

### Routes and neighbors

`Routes`: to what the run checks `Inv` adds that a neighbor's key is its own link-layer
address or none (`KeysKnown`) and that the key under a route is that of the mote whose
DAO was accepted last (`ViaSender`). The policy makes them last: a key with routes is
never given away (`KeyAllocated`, `KeysStay`). The lookups are of the longest prefix
that matches an address; `CoveringAssumption` says what prefixes are like. Since a DAO
replaces what its own address matches, it never finds two: prefixes with the same address
are not in the table together (`LookupsUnambiguous`), and of those around it one is the longest (`LookupOne`).
`DaoCosts` is what `DaoSpares` becomes when prefixes are nested: a DAO can cost the one
route that the lookup found for it (`RplAddRouteCosts`), and the eviction of the sender's
predecessor and a full table still cost none.

`Neighbors`: `AddrInv` says that the key of a neighbor tells whether it is being resolved,
and holds whatever comes. `WaitInv` is about the packets that wait. It has to say what
`ns_input()` leaves behind for the one step until its answer is sent, a handle whose
packet is free already, and to whom that step will send. Proving it showed that
`PacketsWait` could be stronger: a handle that is set leads to its neighbor's own packet
also after another one was overwritten; only the blocks whose handles are gone are
excepted (`torn`).

### The non-storing topology

`HopsAnnouncedUnlessOrphaned` is inductive as it stands: a block that is freed makes
orphans of the nodes that point to it, on the list for whatever reason, so that a node which is none
points to a block in use, and when a block is given away nobody else points to it. Its proof does
not look into `rpl_ns_is_node_reachable()`. `PathsStay` does. The loop of that function takes as many
steps as there are blocks; that these are enough, so that it answers whether there is a
path at all (`ReachableIs`), is since a path to the root passes no block twice
(`PathShort`, a pigeonhole argument). Then the test at the end of `rpl_ns_update_node()`,
which looks at the node whose parent changes and at no other, suffices for all of them
(`AdoptedKeeps`): a node whose path does not pass that node keeps it, and one whose path
does is linked to the new path (`LeadsAround`), which may lead through freed blocks. A path
that passes no orphan passes no block that was just allocated or freed (`AttachedStays`, by
`HopsAnnounced`), unless it is the mote's own that is freed, and its last node, the root's, never
expires (`RootKnown`).

### Assumptions and hypotheses

The assumptions are those named in the modules; the runs evaluate them. Those that say
something about the code:

* `HandlesAssumption` (`Csma`), `CallbacksAssumption` (`RadioTx`): as many handles as
  neighbor blocks at least. `MAX_CALLBACKS` and `CSMA_CONF_MAX_NEIGHBOR_QUEUES` are both
  16.
* `UnusedAssumption` (`NativeRdc`, `RadioTx`), `NullAssumption` (`Routes`) and the like:
  values that mark what is empty are not among those that fill it.
* `CoveringAssumption` (`Routes`): prefixes that match the same address have different
  lengths in bytes, those with that very address are longer than those around them, and prefixes of one address
  match the same ones. This is so of prefixes of whole bytes, none of which has bits
  behind its length; `uip_ipaddr_prefixcmp()` compares whole bytes and cuts other
  lengths down.
* `FramesFitAssumption` (`SerialLine`): a frame is no longer than `UIP_BUFSIZE -
  UIP_LLH_LEN` of the radio.

The hypotheses of single theorems:

* `StaysWithinBudget`: `NoWrap`, that the numbers of transmissions that the RDC layer
  reports at once do not make the 8-bit counters wrap. nullrdc.c reports 1; native-rdc.c
  takes the byte that the radio sends as it is, and one of 255 sets a
  counter back.
* `ImplementsContractSafety`: `~Crossing`, no report is so late that its slot serves a
  frame for another radio. With one radio none is.
* `ReportsMatch`: one radio, and a line that takes as many frames as the table has
  slots. Both are needed: with two radios, and with a line of two frames before a table
  of three slots, TLC finds a report that is credited to another frame.
* `ListTellsWhoRunsAlways`, `CurrentRunsAlways`, `WalksMissNobodyAlways`,
  `NoPollLostAlways`: `~ExitActive`, nobody exits a process that is on the stack, as in
  the run.
* `NoneCountedTwice`, `WholeOrNothing`: `~Interleaved`, as in the run, and no more motes
  than `MaxSeqnos` (MAX_SEQNOS is 16). Both are needed. See the observations for the
  first; for the second, two motes and a list of one number make TLC find a fragment
  that is counted twice and a datagram with a hole. A border router with more than 16
  neighbors in range is in that case.
* `PacketsKept`, `SendsItsOwn`: `~ForeignTargets`, as in the run: solicitations that are
  received are for the border router. With smart-bridge mode both fail.
* `DaoSpares`: no prefix matches the address of another, as when all routes are host
  routes. Without it a DAO can cost another destination its route (see the
  observations), and `DaoCosts` is what remains.

### Only model-checked

Every safety invariant and every action property of the passing runs is stated by a theorem. No
proof reaches the liveness properties (`EveryRequestAnswered`, `EveryTimerFires`, `EveryFrameArrives`,
`SolicitationEnds`, `PoolRefills`, `Converges`, and the fairness that
`ImplementsService` and `ImplementsContract` include): the proof system has no rules for
fairness, since it does not know ENABLED.

## Not modelled

Within the parts that are: statistics and logging; energy attribution
(`queuebuf_update_attr_from_packetbuf`); the contents of packets and header
compression; the raw IP mode of the slip radio; `send_delay` between packets (any
delay is possible anyway); checksums on the serial line; `etimer_adjust()`; the timers of
a process that exits; restarts of the program (these parts keep nothing across them);
router advertisements and duplicate address detection; link-layer addresses that change;
default routers; path sequences, which are off in every build. A callback of the layer
above that sends again from within `packet_sent()` is modelled as the next step.

802.15.4 framing, the forwarding engine, prefixes and addresses, the start-up of the
application and its configuration, the CoAP engine and the TCP state machine could be
modelled and are not yet; platform services and the web server's pages keep no state
worth a model; the other MAC layers, drivers, ports and vendored libraries under cpu/,
dev/, platform/, lib/fs and tools/, which are by far the most of the repository's lines,
are not in the native border router.

## Plan

Done: the transmission path (`Csma` to `SerialLine`), the kernel (`Timers`, `Process`),
the tables at the root (`NbrTable`, `Routes`, `Neighbors`, `RplNs`), reassembly.

To model, in this order:

1. The rest of the serial line (`SlipInput`): the input buffer shared by all devices,
   returns half way through what stdio holds, the dispatch of what was read.
   `SlipRadio`: the ring of session numbers with MACs that report later.
   `RadioConfig`: native_rdc_process and its commands.
2. `SwitchTable` and `Forwarding`: the interface of an address, copies to all
   radios, bridge loops.
3. `Process` with `Timers`: the cleanup of an exiting process's timers.
4. RPL: default routers, parents and DIOs, `Trickle`, `Lollipop` (sequence comparison),
   DAO acknowledgements; the frame counters of noncoresec.
5. `CoapTransactions`, `NvmConfig`.

Theorems to come: that `SerialLine`, as long as it is undisturbed, implements the ordered
queue of frames that `SlipLink` has for each radio, which `FramesArriveInOrder` is the
larger part of; and those about `SlipInput` and `Process` with `Timers` when they are
written.

Recursive definitions are recursive functions or folds; no module declares a RECURSIVE
operator.
