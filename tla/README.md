# SWARNA: a verification project

SWARNA attests a swarm of motes over Contiki, RPL and UDP. A verifier on a Linux
host sends a request to the border router, which multicasts it into the swarm.
Clients and childless relays answer; relays merge the answers of their children
and hand the merged answer up to the border router, which logs it. A second
program of the verifier then asks single motes one by one ("second round").

This directory models that system in TLA+, checks it with TLC and proves part
of it with TLAPS.

## 1. Inventory

| Component | State | Operations | Hard behaviour |
|---|---|---|---|
| Relay mote (`relay-node/udp-relay.c`, `list_utility.c`) | child table, `checksum_children[cur_loc]`, `paths[paths_loc]`, `max_index`, `first_child`, `max_leaf_rank`, `periodic_timer`, `p_timer`, `ctimer_resp`, UDP connections | `process_topology_req`, `process_attestation_req`, `send_topology_resp`, `send_attestation_resp`, `reset_variable`, `network_settled`, answering a request | one timer slot for two callbacks; path full in mid-copy; responses in any order, lost or repeated; timeout after a direct send |
| Client mote (`client-node/udp-client.c`) | `checksum`, UDP connections | answering a request, second-round answer | requests and responses look alike; connections leak |
| Mote library (`utility-functions.c/.h`) | none of its own | ids, checksum, packet layout, `send_to_parents`, `is_leaf` | `udp_bind` before the NULL test |
| Border router (`border-router.c`) | `cnt`, log lines, `ct`, `ct1`, `ct2` | verifier requests, multicast, responses, second-round timing, RPL prefix boot, route page | late responses of an earlier request; wrapping clock |
| First-round verifier (`verifier/server.c`) | none | sends one request, exits | - |
| Second-round verifier (`verifier/sec_server.c`) | current line, `node_index`, `sent_id`, `recv_count`, `sec_client_count` | read a line, ask a mote, count answers, START/STOP/DONE | lost, duplicated answers; no timeout |
| Attestation library (`attestation_lib.c`) | `rc4_s`, `rc4_i`, `rc4_j` | `attestation`, `rc4_init`, `rc4_next`, `next_addr` | globals kept between calls; unbounded recursion |
| SLIP bridge (`slip-bridge.c`) | `last_sender`, `debug_frame` | input (packets, configuration messages), output, `putchar` | stale `last_sender`, set from whatever is in `uip_buf`; debug lines and packets on one line |
| Web server (`httpd-simple.c`, `generate_routes` of `border-router.c`) | pool of connection states, their protothreads and timers; static `r`, `nbr`, `buf`, `blen` | accept, read the request, send the page piece by piece, send again, poll, time out, close | a block freed while in use, or twice; loops of several connections that share their variables |
| Logging, configuration, `udp-server.c` | - | - | an old duplicate of the border router and constants |

How they interact: the verifier talks UDP to the border router; the border
router multicasts to the motes that joined the group (clients and, once
`network_settled` ran, childless relays). Topology responses go by unicast to
every parent (port 4005), attestation responses by link-local broadcast (port
4010). The verifier's host reaches the border router over a serial line: the
program tunslip6 at its other end hands packets to the host's IP stack and gives
the router its prefix, without which the router keeps its radio off. Behind the
line there are also the peers of the router's web server.
A Contiki mote handles one event at a time, to completion: the interleavings are those of events on different motes, of datagrams and timers.
What makes each component correct is listed with the properties below;
`PROJECT.json` lists the hazards, each at its line.

## 2. Modules

| Module | Models |
|---|---|
| `Node` | what all motes share: checksums (a `uint64_t` is the set of its one bits), packets, sockets, parents |
| `Relay` | the relay: one operator per C function, on the record of its globals; functions that send return the new globals and the datagrams. The copy loop of `process_topology_req` is there twice: in closed form (`copy_paths`, which the handler uses) and id by id (`copy_loop`) |
| `Swarm` | verifier, border router, relays and clients of the first round, composed over a lossy, reordering radio; the properties |
| `MCSwarm` | small swarms: `Tree` (also with its clients in range), `Deep` (two relays in a row, and one without children), `Layer` (two side by side, a client under both), `Mesh` (a client under two relays that are under a third) |
| `SwarmProofs` | proofs about `Swarm` for every swarm |
| `SwarmTimers` | proofs about a relay's two timers and what waits for them |
| `SwarmPaths` | proofs about the paths of topology responses, the copy loop first of all |
| `SwarmSums` | proofs about what checksums add up to, and about the attestation timeout |
| `SecondRoundAbs` | what the second round promises |
| `SecondRound` | `sec_server.c`, the motes' `udp_secreq_callback`, and the border router's START/STOP/DONE |
| `MCSecondRound` | a map of three motes, 6 not among them, and a file of three lines |
| `SecondRoundProofs` | that `SecondRound` implements `SecondRoundAbs`, for every file and map; types and the bound of `recv_count`; that the reported times add up, for every clock that wraps |
| `Attestation` | `attestation_lib.c` at its real sizes |
| `MCAttestation` | nonces |
| `AttestationProofs` | the S-box stays a permutation, indexes and addresses in range, for every nonce |
| `Httpd` | the web server and the page it makes, over an external TCP stack |
| `MCHttpd` | lines of 39 characters, routes of 102: the longest |
| `HttpdProofs` | types, the exact pool, the room in `buf` and the page that arrives, for any number of peers, blocks, neighbours and routes |
| `BorderRouter` | extends `Httpd`: the boot process, the SLIP bridge and the line, the tunnel and the host, with the web server |
| `MCBorderRouter` | its page |
| `BorderRouterProofs` | the web server inside the router is that of `Httpd`; the radio, the filter and the debug lines, for any motes |

Operators and fields keep the source's names. Definitions whose name ends in
`_<What>` and whose comment starts with "Mutant:" are plausible bugs; they are
used by nothing and only serve to show that a property can fail.

### How state and actions correspond to the code

`Swarm!relay[r]` is the record of a relay's globals. `checksum_children` is the
sequence of its first `cur_loc` entries, `paths` of its first `paths_loc`
entries, `child_list` and `received_pkt` the child table. A `ctimer` has one
slot, so `periodic_timer` is one record with the callback set last;
`ctimer_reset` re-arms it with that callback. `fault` says that the mote
executed undefined behaviour (a store past an array, through NULL where the MCU
traps it): it takes no further step.

`DeliverRelay`, `DeliverClient` and `DeliverRoot` are the event handlers, each
with everything it calls; `PeriodicTimer` and `PTimer` the timer callbacks;
`Settle` is `network_settled`. `VerifierRequest` is `server.c` together with the
border router's handler. `copy_paths` replaces the loop of
`process_topology_req` by its result; `CopyIsLoop` says that the loop, run id by
id with `paths_loc` lagging behind `i` as in the code, does the same.

Payload, wording and logging are left out. `attest_memory` is what the shipped
code computes: a constant XOR the id. The RPL state (rank, neighbours) is
constant. That is an assumption of the model: the code means to freeze it before
attestation starts (`STOP_PARENT_SWITCH`), but the call of `stop_parent_switch` is
commented out (`udp-relay.c:488`, `udp-client.c:209`), so that a real swarm may switch
parents between two responses. `Joins` is the set of motes whose `join_mcast_group` finds
a free entry: a client without the group exits, a relay without it opens no sink.
Timeouts are kept in ticks, as the code computes them: `CLOCK_SECOND` is a
constant, and `FrameTicks` the ten frames of `udp-relay.c:269`. The build is the shipped one: `BROADCAST_TO_PARENTS 1`,
`ATTESTATION_TIME_TEST 1`, `BINARY_TREE 0`.

`SecondRound!verifier` is the record of `sec_server.c`'s globals and the place in
`main()`. `log` is the FIFO from verifier to border router. `sent` and `copy`
tell datagrams apart and are not in the code. A request for an id that is not in the
map goes to whatever its buffer held: to no mote, or, when that is no address, to `::`,
the verifier's own socket, where it may come back as an answer (`LoopBack`). Not in
the code, either, are `heard` (for the
refinement), `lost` (for liveness), `router.total` and `now` (for the clock).

`Attestation` has one step per loop round or call of `next_addr`.

`Httpd!st[b]` is the block `b` of `conns`: how much of the request line its input
protothread has read, the `SEND_STRING` at which its output protothread is
blocked (`out`), and whether its timer has expired. `page` holds the static
variables of `generate_routes`; text in `buf` is a sequence of items (the line of
a neighbour or a route, a piece of markup) with its length. A protothread that
blocks keeps nothing but its place, so `generate_routes(out, page)` goes on with
whatever is in `page` by then. `conn[c]` is what uIP knows of a connection, among it
the block (`tcp_markconn`) and whether a segment is unacknowledged. Each action is
one event reported to `httpd_appcall`. When the peer closes first, uIP reports
the end twice (`Ended` to "half-closed", then `EndedAgain`): at the FIN and when
its own FIN has been acknowledged. A connection the server has closed it may drop
without a report (`Dropped`, the timeout of FIN_WAIT_2): its block stays allocated. `client` is what a peer has got, and `robbed`
whether a second report freed a block with a new owner; neither is in the code.
A string longer than a segment is sent as one here.

`BorderRouter!boot` is the place in `border_router_process`, `prefix_set`, the
radio and the DAG root. Packets of motes for which the router has no route go
out over the line (`FromMote`); the host routes those for the prefix back
(`FromTunnel`), and `last_sender` is what keeps them from going round. `uip_src` is the
source field of `uip_buf`, whatever wrote there last: the bridge copies it after every
message over the line, too (`slip-bridge.c:92`), and a '!P', or a short message of a type the bridge ignores
(`OtherMessage`), may leave there the source of the packet before. `SetPrefix` has the outcome of `rpl_set_root` open, NULL included.
`seen` notes what happened, for the properties. A printf
is the sequence of its characters, of which only newlines matter, so that
`debug_frame` is what `putchar` leaves; `slip_send` notes a frame sent within a
line. The web server's events arrive over the line and what it answers leaves
over it. `Init` may find a late '!P' on the line: tunslip6 outlives the router.

## 3. What the runs check

| Run | Instance | Properties |
|---|---|---|
| `SwarmTopology` | `Deep`, 2 topology requests, losses, 4 path slots (flush at 2), the childless relay settles at any time | `PathWellFormed`: no id twice, sender last, everybody else further from the root, `pathindex` set; `HeldHasTimer`: a held response has a timer that will send it; `TopologyFits`: `checksum_children` is not overrun; `AggregateFromBelow`: the checksum of a response is the sum of its sender's and of those of motes below it, each once; `NoIdLost`: ids are held or handed on, step by step |
| `SwarmMixed` | `Tree` with the clients in each other's range, 2 requests of either kind, a relay not settled at first, 5 connections, no trap | `TypeOK`, `PathHasRoom`, `BroadcastIsAggregate`; `PathWellFormed`, although the clients take responses for requests and answer them; `TimeoutCountsHops`: when its first child answers an attestation, a relay arms its timer with 310 ticks (at 1000 a second) for each hop that some mote below is away or, if it has learnt no leaf's rank, for 256 less its own hops |
| `SwarmOneRequest` | `Layer`, one request of either kind, losses | `ChecksumMatchesPath`: the checksum is that of the motes named; `AggregateFromBelow`, for attestations too |
| `SwarmLive` | `Mesh`, one topology request, no losses, 5 path slots, fairness | `EveryClientReported`, `PathWellFormed` when an id arrives by two ways, and `CopyIsLoop`: for what is in flight and, before the request, for all paths of up to 4 ids that come up to a relay holding up to 2, repeated ids included |
| `SecondRound` | 3 motes, 3 lines, losses, one duplicate, clock modulo 3, 4 ticks, fairness; the file may be missing | `TypeOK`, in it: `recv_count` stays below `sec_client_count` while a line is polled, which `main()` needs because it only tests for equality; `RoundTimesAddUp`: the differences logged add up to the time that passed; `OneOutstanding`: until something is duplicated, one datagram is in flight; `RoundsInOrder` (implements `SecondRoundAbs`); `SessionEnds`: a file of mapped ids is got through unless something is lost |
| `Attestation` | 2 nonces, 2 calls, real sizes | `TypeOK`, `SBoxPermutation`, `Terminates` |
| `Httpd` | 3 peers, 2 blocks, 7 neighbours (the page flushes once in mid-loop), 2 routes; peers send on as long as they like, or fail to acknowledge | `HTypeOK`; `PoolExact`: a block is allocated exactly while one connection is served on it, or for good when uIP has dropped that connection in FIN_WAIT_2; claimed until a second report of an end has freed a block that had a new owner; `BufferFits`: what is added, with its NUL, fits the 256 bytes of `buf`; `PageReceived`: a peer gets each item of the page once and in order, retransmissions and pauses included, unless another page was made meanwhile |
| `BorderRouter` | one mote, one peer and one block, a page with one neighbour, fairness | `RadioAfterRoot`: the radio stays off until the router is the root of a DAG, unless `rpl_set_root` has answered NULL; `SlipFilter`: the filter only drops packets of a mote that had one come back from the tunnel or whose address a message found in `uip_buf`; `FramesWhole`: no packet is sent within a debug line; `Boots`; `Released`: the server is done with every peer that does not go on sending |

Bounds. A chain of two relays is the least in which a relay's flush meets
another relay's merge; 4 path slots make a flush happen with three ids; two
requests make answers of one request meet the timers of the other. Where
checksums matter, ids are powers of 2 (except a 3), so that the XOR of some motes'
checksums is not that of others by chance. Ranks are OF0's (768 per hop). Three lines with a mote that ends one and begins the next,
and a mote listed twice, are the cases in which `sent_id` could match the wrong
answer. `SwarmMixed` runs without losses:
its properties are about what happens, and a datagram that is never delivered is
as good as lost. Two blocks are what the code has (`WEBSERVER_CONF_CFS_CONNS`), and three peers
the least for which a block is refused or gets a new owner; the mark of `buf` lies
between its fifth and sixth longest line. `Released` is checked with one peer:
`PoolExact` shows that each connection has a block of its own, and no connection
waits for another. The childless relay of `SwarmTopology` meets requests and its
neighbour's responses both before and after it has settled. `CLOCK_SECOND` is 1000 in
`SwarmMixed`, a platform on which the attestation timeout is not zero, and 100
elsewhere, where it is (the platform's headers are not in the repository); timers fire at any moment in either. `MaxReq`, `MaxDup`,
`MaxTime`, `MaxCalls` bound the inputs; no action of the code is bounded by them.

`CHECK_DEADLOCK FALSE` is set where the system may stop: all requests handled,
the verifier gone or waiting for a lost answer, all calls made.

Fairness. In the swarm, only progress as such is assumed: while a datagram is in
flight or a timer is set, some datagram is delivered (or lost) or some timer
runs, in any order. Nobody promises that the verifier asks. On the Linux side
`recvfrom` returns what has arrived, motes answer, and the network delivers what
it does not lose; `SessionEnds` claims nothing once a datagram has been lost,
because `sec_server.c` has no timeout. That a request to `::` comes back
(`LoopBack`) is not assumed. `attestation()` runs sequentially: weak
fairness of its next step. uIP polls every connection twice a second, sends an
unacknowledged segment again until it is acknowledged or the connection is given
up, and brings a closed connection to its end or drops it: weak fairness of each, and of
the timers; that a closed connection ends with a report is not assumed. Nothing is
assumed of a peer that keeps a connection open or sends more; one that sends for
ever is never timed out, because each segment restarts the timer
(`httpd-simple.c:242`), and `Released` claims nothing of it.
The boot process gets the CPU; of a prefix request repeated for ever some is
answered, and of the answers some arrives (strong fairness): a line that loses
everything boots no router.

### Where code and text disagree

Each of these runs is expected to violate its property, which states what a
comment, log line or document of the repository says.

| Run | What happens |
|---|---|
| `BugIdLost` | an attestation response takes over the timer of a held path, which is dropped (`udp-relay.c:269` against `:339`) |
| `BugSecondRoundKept` | a flush resets twice, `max_index` becomes 0 (`udp-relay.c:329` against `:70`) |
| `BugSocketFailure` | connections leak until `udp_bind` stores through NULL (`utility-functions.c:71` against `:107`) |
| `BugEarlyStop` | a duplicate counts as another mote's answer (`sec_server.c:299` against `:305`, a print that is commented out) |

Read in the code and part of the models, but stated by no property here:

* `process_attestation_req` stores the checksum of any sender, a parent's too,
  before it asks whether the sender is a child (`udp-relay.c:254`): a lower relay
  that hears its parent's broadcast sums up motes that are not below it, so
  `AggregateFromBelow` is claimed for attestations where relays only hear motes
  further from the root (`RelaysHearBelow`), and for topologies anywhere.
* The direct send of a complete topology leaves `periodic_timer` armed
  (`udp-relay.c:343`): when it fires, the relay sends a path of itself alone. A
  parent that gets this second response filters the relay's id, but not its
  checksum, so `ChecksumMatchesPath` is claimed for one layer of relays and one
  request.
* The attestation timeout wraps around to 256 frames-times-ten less the relay's own
  hops while `max_leaf_rank` is 0, that is before the first topology round
  (`udp-relay.c:114`, against "number of hops to the farthest leaf node" in
  `:110`): 79050 ticks for a relay next to the border router, when `CLOCK_SECOND` is 1000.
  `TimeoutCountsHops` says so, for the step that
  computes the timeout only: `ctimer_reset` at a topology response
  (`udp-relay.c:304`) starts the timer again with whatever callback and timeout it
  had last.
* `CLOCK_SECOND/1000` is an integer division: with fewer than 1000 ticks a second the
  timeout is 0 ticks, whatever the hops, and the relay sends without waiting for its
  other children (`udp-relay.c:269`, against "millsec" in `:268`).
* `set_prefix_64` sets `prefix_set` before it knows whether `rpl_set_root` gave it
  a DAG (`border-router.c:501`, `:506`): with NULL the boot goes on and switches the
  radio on without a root (against `:516`-`:520`). `RadioAfterRoot` excepts this.
* The bridge takes the source of the "last sender" from whatever is in `uip_buf`, after
  messages too (`slip-bridge.c:92`, against `:90`): it may be a mote
  none of whose packets came back, whose next packets are then dropped.
* uIP drops a connection in FIN_WAIT_2 without calling the server, and the block is
  never freed; after two of those the server refuses everybody. `PoolExact` counts
  such blocks as kept.
* An id that is not in the map leaves the buffer from `malloc` as it is
  (`sec_server.c:122`), and a datagram goes out all the same. When its answer comes from the
  verifier's own socket it counts, but `sent_id` is not 0 and the next mote is not
  asked: the line stalls unless the id was its last. The mote asked without
  `temp.txt` is 6, which the shipped `node_id_addr.txt` does not have.
* Once the tunnel has brought back a packet of a mote, `last_sender` is that
  mote: its next packets to the host are dropped until something else arrives
  over the line (`slip-bridge.c:106`). `SlipFilter` only lets such motes, and those
  of the item on `uip_buf`, lose packets.
* The second `memb_free` for a connection that its peer closed first frees the
  block of whoever has it by then (`httpd-simple.c:216`), and two connections may
  get it after that. `PoolExact` and `PageReceived` hold until then.
* Two pages made at the same time share `buf`, `nbr` and `r`, as a comment of
  `border-router.c` says; `BufferFits` holds all the same, `PageReceived` is
  claimed for a page made alone.
* A poll that frees a block runs the protothreads on it afterwards
  (`httpd-simple.c:244`); nothing comes of it, because the block is not taken
  in between.
* A late '!P' makes the router the root of a new DAG version.
* A client answers the response of a client in its range as if it were a request
  (`udp-client.c:163`), because requests and responses share the type byte. The two
  answer each other until they have no connection left, and no request after that.
* `rc4_i` and `rc4_j` are not reset between calls (`attestation_lib.c:6`): the
  same nonce walks other addresses in a second call.
* `next_addr` drops the result of its own recursive call (`attestation_lib.c:71`)
  and returns the address it has rejected.

`HeldHasTimer`, `TopologyFits` and `NoIdLost` are claimed when only topologies
are requested: `BugIdLost` shows what happens to `NoIdLost` otherwise.
`ChecksumMatchesPath` fails in a mesh, too, where the id of a mote comes up by two
ways and is filtered, but its checksum is combined twice. After a duplicate,
`RoundsInOrder` only promises the order of the lines, and `OneOutstanding`
nothing; `BugEarlyStop` shows why.

## 4. What is proved

* `SwarmProofs!TypeCorrect`, `Spec => []TypeOK`, and `SwarmProofs!PathRoomLeft`,
  `Spec => []PathHasRoom`, for any relays, clients, ranks, neighbours and array
  sizes (with at least 3 path slots and 4 connections), any requests, losses and
  orders. Neither is inductive. `PathInv` adds: a relay with an open sink has
  settled and has no children (so what it takes for a response is one); a
  topology response in flight has at most `PathRoom + 1` ids (so the copy loop
  flushes at most twice and ends below the mark); no request goes to the border
  router. Each C function has a lemma that says what it preserves; the step
  proof has one case per action.
* `SwarmTimers!FinishedBroadcast`, `Spec => []BroadcastIsAggregate`: whatever sets
  `ctimer_resp` after boot leaves a non-zero attestation response in it (bit 16 of
  the seed survives any id; a combined checksum of 0 is dropped). While only
  topologies are requested also `NothingHeldForever`, `Spec => []HeldHasTimer`, and
  `ChecksumsFit`, `Spec => []TopologyFits`. `HoldOK` says why: no timer can have the
  other callback, a relay that has not settled has no children, and fewer checksums
  are stored than there are children, because the last child's response is sent on at
  once. Each C function has a lemma for what it leaves alone.
* `SwarmPaths!PathsWellFormed`, `Spec => []PathWellFormed`, for any swarm and any
  requests, and `SwarmPaths!IdsReachParents`, `Spec => NoIdLost` while only
  topologies are requested and every relay has a parent to send to. `PathsInv`
  adds that what a relay holds is distinct and below it, and that so are its
  children. The work is in the copy loop (`copy_paths`): new ids take consecutive slots
  and different ones (`SlotsStep`, `SlotsDiffer`), every slot up to the last is taken
  (`SlotTaken`, by a least counterexample), so the path that is flushed has no hole and no id twice
  (`CopiedDistinct`), and the ids of the packet are either in it or in what is copied
  after the flush (`FlushedUpTo`, `RestOf`).
* `SwarmPaths!CopiesAsTheLoop`, `Spec => []CopyIsLoop`, for any swarm: the closed
  form the model uses is the loop of the code. The loop is a recursive function, so
  what it does after each id is stated as a relation (`Acc`: how far it got, what
  it holds, what it has sent) that one turn carries on (`TurnFills`, `TurnFlushes`);
  that it holds after every turn follows by a least counterexample (`UpTo`). The
  loop is followed up to its first flush (`TurnsBeforeFlush`), through it
  (`TurnsAtFlush`) and after it (`TurnsAfterFlush`); a second flush can only come
  with the last id, because a packet has at most `PathRoom + 1` of them.
* `SwarmSums!AggregatesFromBelow`, `Spec => []AggregateFromBelow`, in any swarm, for
  topologies, and for attestations where `RelaysHearBelow`. `SumsInv` says what
  the entries of `checksum_children` together, each response in flight and
  `ctimer_resp` sum up. A mote that is summed up twice cancels out, so that the
  motes of a sum of sums are those in an odd number of them (`SumsXor`): "each
  once" survives a merge. That no aggregate is broadcast while topologies are
  merged comes from `HoldInv` of `SwarmTimers`.
* `SwarmSums!ChecksumsMatchPaths`, `Spec => []ChecksumMatchesPath`, for one layer of
  settled relays and one request. `OnceInv`: a client's answer to a relay is not asked
  for yet, on its way, or held, and at most one of the three (`Apart`), so that what
  a relay holds sums up its path (`Matched`), also when a flush splits it. Once the
  one request has been for attestations, no topology is in flight (`Quiet`).
* `SwarmSums!TimeoutsCountHops`, `Spec => TimeoutCountsHops`, an action property,
  wherever ranks count hops (`RanksCountHops`) and for every `CLOCK_SECOND`, with the
  scaling of the code: `max_leaf_rank` is always 0 or the
  rank of a mote further from the root (`Learnt`, a part of `SumsInv`); in the
  first case the `uint8_t` wraps to 256 less the relay's own hops.
* `AttestationProofs!TypeCorrect` and `SBoxStaysPermutation`, for every set of nonces and number
  of calls: a swap permutes, the loop counters stay in range, hence every S-box
  after the first `rc4_init` is a permutation; the address, 16 bits and one, stays
  within 17, in memory or not.
* `SecondRoundProofs!Refinement`, `Spec => RoundsInOrder`, and
  `SecondRoundProofs!OneAtATime`, `Spec => []OneOutstanding`, for every map, every
  file and any losses and duplicates. The refinement maps the current line, the
  motes heard, the log, and whether anything has been duplicated. `RoundInv` says
  why it holds: while a line is polled and nothing has been duplicated, its first `recv_count` motes have
  answered, and what is in flight, if anything, belongs to mote `node_index`, one
  after them. So the answer that makes `recv_count` equal `sec_client_count` is
  the last mote's. Each send function has a lemma; a reply either completes a
  line (two cases) or asks on. After a duplicate only the order of the lines is
  left, in the abstract specification as in the theorem.
* `SecondRoundProofs!RoundTimes`, `Spec => []RoundTimesAddUp`, for every clock that
  wraps (`CLOCK_WRAP` of any size), and `SecondRoundProofs!TypeCorrect`,
  `Spec => []TypeOK`. The sum is congruent to `ct - ct2` modulo the wrap: START
  makes both zero, STOP adds `clock_time - ct` to both (lemma `AddUp`, from the
  uniqueness of remainders), everything else leaves them alone. That the commands
  in the log are START, STOP and DONE comes from `SessionInv`. For the bound of
  `recv_count`, `CountInv` adds that the first line is begun from 0: every answer adds
  one, and equality resets it before the next line is begun.
* `HttpdProofs!TypeCorrect`, `PoolIsExact` and `BufferNeverOverflows`, `HSpec => []` of
  `HTypeOK`, `PoolExact` and `BufferFits`, for any number of connections, blocks,
  neighbours and routes and any lengths of lines that addresses can have.
  `HttpdInv` adds that `blen` is below 256 whatever stopped the last segment, and
  that a connection the server knows has a block, also once uIP has dropped it. The loop over the neighbours
  stops at the first line past the mark: the line before was not past it, and one
  line has at most 40 characters; that lengths add up is an induction, done by
  taking a least counterexample (`MinOfNats`, from `WFMin` of the library). For the
  pool there is one lemma each for taking, keeping and freeing a block.
* `HttpdProofs!PageArrives`, `HSpec => []PageReceived`, for the same. `PageInv` puts
  every connection at a place of the page (`SentUpTo`, from the point where its
  protothread blocks and from `nbr` and `r`): what its peer has got is the page's
  beginning, and the segment on its way is the stretch from there up to that place.
  The heart is `OutputSends`: what `handle_output` sends next is the stretch after
  the one sent last, whichever loop stops or ends. It also needs that a connection
  with a request read is never idle, which keeps a poll from sending, and
  `PoolExact`, without which another connection would move on the block.
* `BorderRouterProofs`: the router's steps are steps of its web server or leave the
  server alone (lemma `WebServerInside`, by construction), which carries `PoolExact`,
  `BufferFits` and `PageReceived` over to the router (`WebServerSafe`).
  `RadioOnlyAsRoot`, `Spec => []RadioAfterRoot`, adds that the loop is only left with a
  prefix, and that a prefix comes with a root or with a NULL of `rpl_set_root`
  (`BootInv`). `FilterWorks`, `Spec => []SlipFilter`, adds that `last_sender` is a mote
  only if that mote had a packet come back or a message found its address in
  `uip_buf` (`FilterInv`): every other packet over the line overwrites it first.
  `FramesAreWhole`, `Spec => []FramesWhole`, adds that no handler ends in the middle
  of a debug line (`LineInv`): all that it prints ends with a newline (`LinesEnd`).

Assumptions are the named ASSUMEs of `Node`, `Swarm`, `SecondRound`,
`Attestation`, `Httpd` and `BorderRouter`; TLC evaluates them in every run.

Only model-checked: liveness (`EveryClientReported`, `SessionEnds`,
`Terminates`, `Boots`, `Released`; out of the prover's reach) and the four runs
that show a violation. Every other property of the runs has a theorem. Three have
hypotheses on the swarm, each for a reason in the code that section 3 gives:
`RelaysHearBelow`, `OneLayer` with one request, and `RanksCountHops`; and what is
claimed only while topologies are requested is proved only for that. The
instances of the runs satisfy them.

## 5. Not modelled

`udp-server.c` is an older duplicate of the border router that its Makefile does
not build. Logging, the ping script, the printing of addresses, the button
(it only calls `rpl_repair_root`, whose state is RPL's),
Contiki itself and the file parsing of `sec_server.c` (beyond the lines and ids
it yields) are left out. `MapAssumption` requires a map file of at most
`MAX_NODES` lines: past the array the stores are undefined, and the shipped file
is longer than that. Likewise no instance has a relay with more than `MAX_CHILD`
children, where `fill_child_entries` stores through NULL and the relay stops.

Of the web server: file names (every name yields the same page, so the 404 branch
is dead), strings longer than a segment, the optional output of other builds
(`BUF_USES_STACK`, link lists of RPL's non-storing mode). The tables of neighbours
and routes are constant while a page is made; in the code entries may expire between
two segments, and the loops go on from a pointer to one that is gone.

## 6. Plan

Done: `Node`, `Relay`, `Swarm`, `SecondRound`, `Attestation`, `Httpd`,
`BorderRouter` with their runs, and the proofs of section 4.

Next:

1. Parents that change between responses: what the commented-out
   `stop_parent_switch` would rule out.
2. Late responses counted for the next request (`cnt`): a property needs a request
   number, which the packets do not carry.
3. An abstract specification of the first round that `Swarm` refines, with
   `BugIdLost` as the step it does not allow.
