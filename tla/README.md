# IronMesh in TLA+

Models of the IronMesh daemon (the Python files directly under `src/`) and of the
servers that come with it, TLC configurations that check them on small instances,
and TLAPS proofs of the results that matter most. `PROJECT.json` maps every
definition to the lines it models and lists the hazards the properties are aimed
at.

## 1. The system

An IronMesh daemon ("bridge") keeps encrypted sessions with peers over
WebSocket or Reticulum (RNS), relays messages for others, queues messages for
peers that are offline, holds back messages of peers nobody has vouched for, and
writes a tamper-evident audit log. It is one asyncio process; concurrency comes
from coroutines that interleave at every `await`, from the threads of the RNS
stack and of the A2A, ACP and MCP servers, from further processes (CLI, MCP
server, a second daemon) that share its files, and from the network.

| Component | State | Operations | Talks to |
|---|---|---|---|
| Handshake (`handshake.py`, `bridge.py`) | versions, nonces, link identity, stage on either side | skip or challenge, proof, HELLO both ways | connections, trust file, invitations |
| Session keys (`handshake.py`, `protocol.py`, `routing.py`) | session key, previous key and grace window, sequence numbers, replay guard | send, receive, rekey request / response | every frame |
| Offline queue (`store.py`, `routing.py`) | `message_queue` rows per peer | send or queue, evict, flush, expire | connections, database |
| Rate limits (`ratelimit.py`, `protocol.py`) | token buckets, failures per address, bandwidth per peer | admit, record a failure, wait, drop | handshake, every frame |
| Heartbeat and watchdog (`bridge.py`, `routing.py`) | pings in flight, last ping, offline since, alerted | ping, pong, declare dead, alert | RNS links, connections |
| RNS links and groups (`reticulum_transport.py`, `bridge.py`) | receive buffers, bytes charged per identity, digests of group payloads | deliver, identify, consume, close, broadcast | RNS threads, connections |
| NAT relay (`nat_relay.py`) | `_sockets`, forward counts | register, forward, drop | peers behind a NAT |
| Connections (`bridge.py`, `handshake.py`, `routing.py`) | `ws_clients`, `peers`, reconnect claims | dial (five ways), register, drop the duplicate, upgrade, tear down | everything |
| Mesh routing (`mesh.py`) | route table, routes file, heard neighbours | announce, receive, age, cleanup, reload | neighbours |
| Duplicate cache (`mesh.py`) | per-source buckets of message ids | add, expire, evict | relay, terminal delivery |
| Relay (`mesh.py`, `routing.py`) | copies on the wire | send, forward, deliver, notify the source | routing, cache |
| Capability announcements (`capabilities.py`, `routing.py`, `bridge.py`) | registry, its file, announcements seen, envelopes to replay | announce, replay, receive, prune | neighbours, capability binding |
| Capability binding (`trust.py`, `trust_ops.py`) | baseline, stash and trust state of a peer | observe an announcement, accept, reject, set state | trust file, audit log |
| Pending-trust gate (`trust_ops.py`, `store.py`) | `pending_trust_messages`, trust state | receive, promote, block, accept | bus, database |
| Invitations (`invite.py`, `trust_ops.py`, `cli.py`) | ledger of spent nonces and its file, the token a node carries | issue, redeem, pin, prune, set up | handshake, trust file |
| Trust file (`trust.py`) | pins, revocations, read-only latch | load, save, pin, revoke, set state | daemon, CLI, MCP, other daemons |
| Key files (`keys.py`, `backup.py`, `bridge.py`) | key file, `.legacy.bak`, backup archive | generate, load, migrate, re-encrypt, rotate, restore | daemon, CLI |
| Storage format (`store.py`) | payload rows, format marker, storage key | open, upgrade, write, prune | daemon |
| Audit log (`audit.py`) | live file, archives, chain tail | append, rotate, verify | every component, several processes |
| Audit-mirrored counters (`metrics.py`) | counter, reservations, offset and inode | emit, scan, reconcile | audit log |
| Name resolution (`routing.py`, `agent.py`) | peer table, discovered names, capability registry | send to a name, to a capability, to all | relay, queue |
| Federation and LXMF (`federation.py`, `lxmf_listener.py`) | policy, routes; no memory of what was carried | carry a text onwards, marked | two meshes, the LXMF network |
| A2A, ACP, MCP servers (`ironmesh_a2a/`, `ironmesh_acp/`, `ironmesh_mcp/`) | futures, sessions, event ring, request slot | request, answer, time out, cancel, poll | bus, event loop, their own threads |
| Daemon lifecycle (`bridge.py`, `agent.py`, `store.py`) | background loops, shutdown latch, event loop, store | start, signal, shut down, stop | everything |

What is hard in it: two ends that act at once (rekey collisions, simultaneous
dials, a server that decides before a proof has arrived); values read before an
await and used after it (socket and sequence number across the bandwidth wait,
candidates of a name, the lockout across a handshake); SQL statements separated by awaits
(queue cap, drain of the trust table); RNS threads that share a byte budget;
handlers that end long after their peer came back (NAT relay, registry);
whole-file read-modify-write by several processes; distance-vector routing and
gossip with delayed, damaged and repeated announcements; answers that race the timeout
of their request; several writes of one operation of which one fails; deaths
between a rename and the record that should follow it; a log that rotates under
its reader; a second signal during a shutdown. `PROJECT.json` lists each of these
at its line under "hazards".

What makes each component correct is stated with its run in section 3.

## 2. Modules

| Module | Models |
|---|---|
| `Handshake` | one connection from the server's first message to the end on both sides, for every mix of versions, transports and settings |
| `SessionRekey` | one established session; symbolic cryptography, an ECDH secret is the set of its two ephemerals |
| `OfflineQueue` | the queue of one peer, one SQL statement per step, senders and flushers interleaved |
| `AuthBlock`, `SendGate` | the limits of one address before its handshake; a frame's way through the bandwidth gate to a socket |
| `Heartbeat` | PINGs and PONGs of one RNS peer, and the long-drop watchdog |
| `RnsLink`, `RnsGroup` | link adapters and their shared byte budget; broadcast in two phases |
| `NatRelay` | the relay's table and its handlers |
| `ConnectionRegistry` | the connections between two daemons, from dialling to teardown |
| `MeshRouting` | the route tables of a network, announcements optionally in flight |
| `Dedup` | the duplicate cache as operators; `MCMeshRelay` runs it by itself as a state machine |
| `MeshRelay` | the relay of messages over arbitrary, changing routes |
| `MeshDelivery` | abstract: a message, once sent, is delivered at its destination at most once, and nowhere else |
| `MeshNetwork` | composition of `MeshRelay` with the tables of `MeshRouting` |
| `CapabilityGossip`, `CapabilityBinding` | announcements through a network; the trust record of one pinned peer |
| `TrustGate` | the gate, its table, and operators' commands, one SQL statement per step |
| `InviteLedger` | tokens, the ledger with its file, and the nodes set up from a token |
| `TrustStore`, `KeyFiles`, `StorageFormat` | the files, the processes that load and save them, and their deaths |
| `AuditLog`, `AuditCounters` | the log and its archives, one write or rename per step; the scanner that reads it |
| `Bridges`, `Resolver` | gateways between meshes and LXMF; sending to a name or capability |
| `A2AGateway`, `AcpServer`, `McpServer` | the three servers, with their threads |
| `Lifecycle` | start, signals, shutdown, the end of the event loop |
| `MC…` | instances for TLC, see section 3; their `.cfg` gives the components' constants values |
| `…Proofs` | theorems, see section 4; each extends its `MC…` module (`MeshRoutingProofs` extends `MeshRouting`) and speaks of the same instances, with the constants left open |

Conventions. Actions carry the name of the function they model. One step is what
the code does between two awaits (within the daemon), between two system calls
(between processes) or under one lock (between threads); trailing saves and
refreshes belong to their action. Bounds are constants named `Max…` and occur in
guards only. Failures that the code handles (a write that raises, a restart, a
send that times out) are alternatives of the step in which they happen, limited by
a bound. A definition directly before another with the same parameters and an
unusual name (`TtlSpentEarly` before `TtlSpent`) is a deliberately wrong variant,
used to show that the properties notice it.

Environments. `MCSession`, `MCLinks`, `MCTrust`, `MCFiles`, `MCEdges` and
`MCMeshRelay` put several components, or one under several assumptions (an
ordered channel, dials that do not overlap), side by side: a variable `env`, chosen
in the initial state and never changed, selects the instance whose next-state
relation applies; the variables of the others rest. The parts do not interact
there; what composes parts that do is `MeshNetwork`. A liveness property says
for which `env` it holds, and so does a safety property that needs an assumption;
the others hold in every one. Within a component the same is done by history
counters: a property that needs "no failed read so far" says `reads = 0`.

## 3. Runs

Each run below puts the parts it names side by side and says what holds of each.

**session** (`MCSession`). One peer's connection.
*Keys*, in an adverse environment (frames lost and reordered, old timestamps,
rekeys at any moment, `MAX_SEQUENCE` so small, 3, that it is reached): `NoReplay`, a
frame accepted once would be refused if it came again, whatever rekeys happened;
`SequenceUnique`, no two frames of a sender share key and sequence number.
Over one WebSocket, two rekeys per node so that a collision can be followed by
another: `CollisionResolves`, every rekey ends and the ends then hold one key.
*Queue*, three messages of different priority: `EvictionByPriority` with overlapping
sends and two flushers and a cap of one (a message gives way only to one of the same
or a higher priority); `SerialQueueDrains` with one send and one flush at a time and
a cap of two (with the peer back for good the queue empties).
*Handshake*, every combination of versions, transport, settings and outcome of the
identify race: `NoDowngrade`, two 0.9 nodes never finish with a legacy signature and
agree on whether stage 1 was skipped; `AttemptsEnd`, nodes whose settings agree end
connected and every attempt ends on both sides.
Fairness: receive loop, suspended handler and send are tasks the event loop
resumes, a send ends within five seconds, the flush loop runs for ever, every wait
of a handshake has a timeout; nothing makes a peer come back.

**links** (`MCLinks`). Below a session.
`BudgetExact`: an identity's byte budget is the sum of what its links hold (counted
as a set of units, one per byte charged) whichever of the three kinds of threads moved
last, and is crossed only by the link that is being torn down for it (two links of one identity, three chunks, limits that one link
and both together can reach). `HandledOnce`: a group payload heard both ways, late and
repeated, is handled once per window (three payloads, a cache of two).
`ReachableWhenSpaced`: a peer back on the NAT relay after its old handler ended is
reachable, and the relay sends only to sockets that registered for the id (three
ids, a table of two). `LiveKept`: an RNS link is declared dead only after a
PING or PONG was lost or late, and one drop raises one long-drop alert (the code's
multiplier of five, fifteen intervals). `GuessesBounded`: an address gets at most
`_auth_max_failures - 1` wrong guesses plus one per connection it holds open within any
window (two connections, three failures). `RateKept`: an application that awaits
its sends never exceeds a peer's bandwidth, nor has a frame refused as a replay of
a later one, over sockets that die, stall and return (a frame larger than the
bucket, a small one, one that fills it). Safety only.

**send_lost** (`MCLinks`, expected to fail). `SomewhereKept`: a message `send_message`
has returned for is with the peer, with another hop or in the queue. `_send_frame`
swallows every failure, so the fallback its caller has for it is never reached.

**routing** (`MCMeshRouting`). A triangle with a tail, where losing the tail leaves
a three-node loop to count out, with two connection changes; and a line whose
announcements are in flight for any time, whose routes expire early and one of
whose daemons restarts from its routes file. `NeverOptimistic`: no table promises
a shorter path than the network could have. `NoTwoHopLoop`: no two nodes route a
destination through each other, until an announcement is outrun by a change of
its sender's table or a node restarts. `CalmConverges`: once connections stop
changing the tables hold exactly the shortest routes. `INFINITY_COST` is 5 instead of
16 (four nodes, so every real path is below it). Fairness: announce and cleanup
loops run, time passes.

**relay** (`MCMeshRelay`). Two messages of one source among four nodes, re-sent
once, over routes that may be anything at every step, `max_hops` 3. `HopBudget`:
the relays of a copy are all different and each took one from the TTL.
`DeliversOnce`: with caches that remember, the nodes implement `MeshDelivery`, also
when some only listen (`mesh_routing` passive) and others have no router (off): what a
node without a router publishes is not shown, since nothing is promised of it.
`NetworkDrains`: even with caches that forget at any time no copy circulates for
ever. `CacheRemembers`: the cache alone, with more sources and ids than it holds,
forgets a pair only for its age or for enough newer ones. `PromiseKept`
(`MeshNetwork`, a square with two ways round and two connection changes, `max_hops` 2
so that the limit is met exactly): a message sent once the tables have settled, to a
destination `max_hops` can reach, arrives unless the topology changes again.
Fairness: each connection has a receive loop; announce and cleanup loops run.

**registry** (`MCConnectionRegistry`). `MapsAgree`: `peers` and `ws_clients` agree
outside an upgrade and name a connection whose loop runs. `RaceAgreeingEnds`:
simultaneous WebSocket dials never leave the two daemons each on a connection of
its own. `SpacedReconnects`: once failures stop, two daemons whose dials come
apart end on one open connection and stay. Three connection slots and three
failures: a race of two and one more dial. Fairness: coroutines run on; claims
expire; the ticks of the discover and reconnect loops find the connections
settled again and again (strong fairness: a periodic tick meets a condition
that recurs).

**trust** (`MCTrust`). Whom a node believes.
`ChangeHeld`: while no write failed, a peer that announces a set other than the
accepted one is trusted only if an operator acted since (three sets: baseline,
stash, another one; two failing writes, both of one handler).
`PublishedExactly`: what waits when a promotion reads the gate's table is published,
dropped by a rule, or lost to a restart or a failing store; nothing that arrived once
is published twice, nor before an operator vouched (three messages, a cap of two, one
repeated, one restart or failing store, every command).
`GossipTrue`: on a line whose rounds overlap, whose relay restarts and whose replay
memory is short, a node believes of an origin only sets it announced; on a square with
one damaged envelope and rounds that do not overlap, every node that pinned the
origin ends with its latest set. Fairness: a started command runs on; connections
deliver; the announcement loops run (strong fairness: a loop's turn waits for the
others' announcements to arrive).

**gate_race** (`TrustGate`, expected to fail). `NothingLost`: with no failure, a message
the gate took is in the table, in somebody's hands, published or dropped by a
rule. TLC finds the drain's `DELETE` removing a row that was inserted after its
`SELECT`; the test suite's comment on this window says no message is lost.

**files** (`MCFiles`). What is on disk, with several processes and deaths between any
two file operations. Safety only.
`ChainVerifies`: undisturbed, both verifiers accept the audit log between calls, and,
torn lines aside, no disturbance starts a second chain in a file; `NothingVanishes`:
while no rename failed, entries leave the disk only with the oldest archive (two
processes, rotation at three lines, three archives, eleven entries so that the
oldest archive is dropped, two deaths, a failing write, a failing rename).
`DriftBounded`: a scanner that has read everything is off by exactly the reservations
left over, at most one per failed write (five events, three files, two starts, two failed
writes). `TrustSticks`: operations one at a time, a revocation stays and a pin is
never replaced while every load could read the file. `IdentityKept`: from every way an
installation may have started, migration, re-encryption, races and deaths leave a whole key
file with the identity last put in place, and what came up once comes up again.
`NothingStranded`: opens with wrong passphrases or none, in any order, leave every
row readable under the passphrase it was written with. `SingleUse`: an invitation
admits one peer, whatever dies between the ledger's write and the pin, whatever
writes fail and whenever the ledger is pruned (a clock that outlives the retention).

**invite_join** (`InviteLedger`, expected to fail). `InvitedLandsPending`: a node set
up from an invitation lands in the inviter's pending gate. `cmd_setup` does not hand the
token on, so the first contact presents none.

**edges** (`MCEdges`). Between the daemon and the world.
`CarriedAtMostThrice`: gateways that look only at the outermost mark carry a text
at most three times (two federations between the same meshes and a listener that
feeds one). `ResolvedOnce`: a call by name or capability sends to fitting peers only, to one when
it succeeds and to none when it raises, not counting peers that were evicted while it
ran: a send that went out counts as failed if the peer's state is gone when it returns
(`routing.py:1549`), and the next candidate is tried (two peers, five changes). `AnswersFit`: an A2A call that returns an answer has a message that carries its
correlation id, whoever sent it, or one without an id that its peer sent, and then not
while an older call to that peer was registered; a late answer that names another
call is never spent on it, and no call that has ended is left in the table of futures
(two calls to one peer, two peers that may send anything, again and unasked). `NothingSkipped`: an MCP client's cursor skips no
event still in the ring, and no late answer becomes the result of the next
request (four events, a ring of two). `CleanExit`: with one signal, background
loops are gone before what they use, and the event loop ends only with the store closed.
`WaitsEnd`: every A2A call ends, every ACP frame is read and every prompt gets its
terminal update (two sessions, four frames), and a stop that was asked for ends. Fairness: A2A and ACP waits have timeouts; tasks are resumed
while the loop runs; cancelled loops end; `Agent.stop`'s waits are bounded.

**double_signal** (`Lifecycle`, expected to fail). `CleanExit` with two signals: the second
finds the shutdown latched, returns, and stops the loop under the first.

Where a module states `TypeOK` it declares the types of its variables and holds on
the same instances (add it under INVARIANTS); the proofs of section 4 establish it, or a
typing of their own, for every component they are about. The other properties that
the modules state and no run names hold too (`CopiesBounded`, `ForwardOnce`, `CapKept`,
`ChangeEventTruthful`, `ForeignKept`, `AdmittedPinned`, `CatchesUp` under the
fairness of its module); what does not hold is listed next.

Deadlock is not checked: every model may come to rest at its bounds, and the
systems may rest too. What must happen is stated as liveness.

### Known counterexamples

The conditions above are not decoration; without them TLC finds these behaviours
of the code. Each is reached by changing the constant, or dropping the
condition, that is named.

- `Pace = "any"` on an ordered channel: a second `_initiate_rekey` overwrites
  the pending ephemeral, the ends finish on different keys (`handshake.py:130`).
- `OneSender = FALSE` in `OfflineQueue`: overlapping sends pass `max_pending_per_peer`
  together. A flushed row is marked delivered although `_send_frame` returned without
  sending (`routing.py:1374`).
- `OneSender = FALSE` in `SendGate`: frames wake from the gate together and overdraw the
  bucket, and a small frame overtakes the one whose sequence number is lower
  (`routing.py:1292`). A send that fails late tears down the session that has replaced
  its socket (`routing.py:1345`).
- `AuthBlock`: a lockout ends when the oldest of its failures leaves the window, which may be
  soon (`BlockLasts`, `README.md:80`); a peer that corrects its passphrase is refused at the
  door until then (`CorrectedAdmitted`, `docs/RELEASE_NOTES_v0.9.4.md:257`).
- `Heartbeat`: under `QuietSpec` every PONG clears the time of the last PING, so a quiet link is
  pinged more often than every five intervals (`PingCadence`, `docs/RETICULUM.md:26`,
  `routing.py:825`); it is what keeps the link within the shorter silence limit. A host
  that booted less than five intervals ago does not ping at first, and drops the link.
- `RnsLink`: a close report that overtakes a data callback lets bytes into a buffer that was
  already drained, and they stay charged to their identity (`DrainedLeavesEmpty`).
- `NatRelay`: with overlapping handlers the old one's `finally` deregisters the new socket
  (`ReconnectReachable`, `nat_relay.py:90`).
- `outrun` or `restarts` left out of `NoTwoHopLoop`: a delayed announcement, or a
  routes file older than the neighbours' tables, makes a two-node loop.
- `MeshRelay` with nodes whose `mesh_routing` is off shown in `DeliversOnce`: such a node has
  no router, so it publishes a frame for another node that stale routes bring to it
  (`routing.py:677`), and a frame re-sent to it as often as it comes (`routing.py:748`).
- `Overlap <- TRUE` in the spaced environment of the registry: each daemon keeps
  registering one connection while the other drops it as a duplicate of one that is
  already going down, and new dials overlap the old ones without end (`Reconnects` fails).
  With RNS an outbound duplicate is dropped without closing its link
  (`handshake.py:1010`), so `AgreeingEnds` fails.
- `CapabilityGossip` with overlapping rounds: an older announcement that arrives last replaces
  the newer one, so `Settles` needs the calm environment.
- `faults = 0` dropped from `ChangeHeld`: the stash is written and the demotion is
  not; later announcements of that set count as handled (`trust.py:873`).
- `copies[m] = 1` dropped from `PublishedOnce`: a queued message is not in the
  duplicate cache, and a repeat after the promotion is published again. Two
  operators promoting at once publish every row twice.
- `Serial = FALSE`: a command that loaded the trust file before a revocation
  writes it back without (`trust.py:550`). `reads = 0` dropped: a file that cannot be
  read gives an empty store that may be saved (`trust.py:418`).
- `KeyFiles`: the backup of the legacy file is copied in place, and a death or a second process
  leaves it cut off or holding the new format (`RollbackKept`, `keys.py:625`).
- `StorageFormat` with legacy rows under two passphrases: the upgrade under one of them
  marks the database done, and the other's rows stay behind (`store.py:538`).
- `crashes = 0` dropped from `ChainVerifies`: a death between the rename and the
  anchor record leaves a file without an anchor. `stuck` dropped from
  `NothingVanishes`: after a failed rename the shift overwrites the archive that
  did not move (`audit.py:408`).
- `QuietStart = FALSE` or `QuietScan = FALSE`: events between the reconciliation and
  the scanner's start, or a rotation between its `stat` and `open`, are lost or
  counted twice (`metrics.py:443`).
- `Resolver` with peers that share a name: a candidate is tried by its name, and the first
  peer of that name gets the message; a caller that gives up does not stop the
  call.
- `A2AGateway`: a message with a call's correlation id answers it whichever peer it is
  from (`ironmesh_a2a/server.py:189`; `ironmesh_mcp/server.py:218` compares the peer), and
  any message without one goes to the oldest pending call to its sender, be it
  unasked, late for a call that timed out, or from a peer that otherwise repeats the id
  (`ironmesh_a2a/server.py:202`, against "correlation-aware peers always resolve precisely",
  line 172). So `future[c].id = {c}` alone does not hold of an answered call, nor does
  "from the peer that was asked". A plain message may also be spent on a call whose future
  was cancelled a moment before, and the call behind it then waits for its timeout. The
  sender is the connection a message came over: for a relayed one, the last relay.
- `AcpServer`: a cancel is read only once the prompt before it is over, so a prompt may
  complete after it was cancelled (`CancelStops`, `ironmesh_acp/server.py:20`,
  `docs/ACP_INTEGRATION.md:133`).
- `Lifecycle` with `MaxStarts = 2`: an instance started again after a shutdown
  serves without its store, which stays latched (`ServesFromStore`, `bridge.py:1054`,
  `store.py:124`).

## 4. Proofs

TLAPS proves every invariant and every action property that a passing run checks, for
every value of the constants that satisfies the assumption named with it. The
argument is each time an inductive invariant; the last column says what it adds to
the property, and why the property alone is not inductive. Each module has one
section per component; a lemma per action (or group of actions) carries the
invariant, and the theorem combines them.

| Theorem | Property | Assumes | Inductive invariant |
|---|---|---|---|
| **SessionRekeyProofs** | | | |
| `TypeCorrect`, `ReplaySafety`, `SequenceSafety` | `TypeOK`, `NoReplay`, `SequenceUnique` | | keys on the wire and in use were derived from ephemerals already drawn (`WireInv`, `FreshInv`), the key a responder is about to switch to is new (`NextKeyInv`), what was accepted under the current or previous key is at or below its high-water mark (`ReplayInv`), what was sent under the current key is below `nextSeq` (`SendInv`). That the guard may be reset follows only from the newness of the key |
| `EvictionsFair` | `EvictionByPriority` | | a send that is about to delete has found a row it may displace (`VictimInv`); that row may be gone by then, which is why the property is about the step |
| `HandshakeSafety` | `NoDowngrade` | | from the server's first message on the client knows what was decided (`SkipInv`) |
| **MeshRoutingProofs** | | | |
| `TypeCorrect`, `LoopFree` | `TypeOK`, `NoTwoHopLoop` | | `LoopInv`: undisturbed, no node routes to itself, and a table that routes through a neighbour differs from that neighbour's (`Apart`), kept because an announcement that is not outrun carries the poisoned reverse of the sender's present table |
| `CostsAreWalks` | `NeverOptimistic` | | `WalkInv`: every cost in a table, a routes file or an announcement under way is the length of a walk over links that existed; the distance to compare with is stated by the walks, not by a recursion |
| **MeshRelayProofs** | | | |
| `TypeCorrect`, `BudgetKept` | `TypeOK`, `HopBudget` | | `BudgetInv`: every copy has paid one from its TTL per distinct hop; routes and caches are arbitrary |
| `ForwardsOnce` | `ForwardOnce` | `RoomyCaches` | `OnceInv`: what a node forwarded or published is in its cache, whose buckets are distinct (`CacheOK`) |
| `MeshImplementsDelivery` | `DeliversOnce` | `RoomyCaches`, `~Forgetful` | the refinement, for nodes that have a router, in a mesh of any modes: initial states map to initial states, and under `OnceInv` (what such a node forwarded or published is in its cache) every step is a `Send` or `Deliver` of `MeshDelivery` or leaves its variables alone |
| `RemembersWithinBounds` | `CacheRemembers` | bounds of the cache positive | `CacheInv`: buckets are in the order of the last add of their source, ids in the order of their own last add (`LruOrder`), so that what is trimmed is followed by as many newer ones as there is room for |
| **LinksProofs** | | | |
| `LinkKeptWhileAnswered` | `LiveKept` | `BeatConstants`: an answer in time is within the silence limit, and the host has been up for an interval | `QuietInv`: while nothing was lost a PING is under way or the link was just used |
| `RelayReaches` | `ReachableWhenSpaced` | the two "none" values are no socket and no id | `OverlapInv`: only an id registered twice over has two handlers that have not ended |
| `LockoutBounds` | `GuessesBounded` | `Window <= BlockDuration` (the code sets both to 300 s) | the recorded failures are in the order of their times (`FailuresInv`), so expiry removes a prefix |
| `ThrottleHolds` | `RateKept` | one sender at a time, `Rate > 0` | what was sent and may be sent at once stays within the allowance (`AllowanceInv`); a call that sleeps finds its tokens when it wakes and holds the newest frame (`SleepInv`) |
| `BudgetHeld` | `BudgetExact` | finitely many links | `LinkInv`: a bucket is the sum of its links' shares, the shares of the links that are not about to trip are within the cap, and an open adapter's charge covers its queue and what its threads hold in their hands, at every one of their steps |
| `BroadcastHandledOnce` | `HandledOnce` | sizes are numbers | `GroupInv`: no digest twice, digests in the order of their last copies, the later ones heard since; a digest within its window is remembered or was pushed out by as many others |
| **RegistryProofs** | | | |
| `RegistrationsAgree` | `MapsAgree` | two nodes | one upgrade at a time holds `_peer_lock` (`UpgradeInv`) |
| `RacesSettle` | `RaceAgreeingEnds`, `AgreeingEnds` | `OnlyDialsRace`: no failures, WebSocket only | a loop that runs is the registered one, and neither end has left a connection that is open (`RaceInv`) |
| **TrustProofs** | | | |
| `CapabilityChangeHeld` | `ChangeHeld`, `ChangeEventTruthful` | "no set" is no set | a set is stashed only against another baseline and, while no write failed, is the one announced last (`StashInv`) |
| `GateSafety` | `TypeOK`, `CapKept`, `GateHolds` | | who publishes found the peer trusted (`VouchInv`), the row about to be inserted has room (`RoomInv`), only a drain that is publishing or a loop that is receiving holds a message (`HandsInv`) |
| `PublishedAtMostOnce` | `PublishedOnce` (part of `PublishedExactly`) | one operator at a time | a message that came once is in one place: arriving, waiting, in a batch, or published (`PlaceInv`); between its `SELECT` and `DELETE` a drain holds what still waits |
| `BelievedWasAnnounced` | `OnlyAnnounced` (part of `GossipTrue`) | the origin is a node | `GossipInv`: whatever still carries a signature that holds, on its way, kept for replay, believed or saved, is the origin's |
| **FilesProofs** | | | |
| `NothingLostOrDoubled` | `DriftBounded` | `QuietStart`, `QuietScan` | the scanner's file is the live one or the one before (`Tracking`); counter + unread = owed + reservations (`Balance`) |
| `RowsReadable` | `NothingStranded` | legacy rows are under one passphrase | a row is readable for its writer, the marker means that no legacy row is left, the sweep runs with a passphrase (`FormatInv`) |
| `KeyFileSafe` | `IdentityKept` | the initial file is whole or absent | a process that read an identity writes only while it is the one in place; a fresh one is generated only where there was no file (`KeyInv`) |
| `LogVerifies`, `LogKeepsEntries` | `ChainVerifies`, `NothingVanishes` | rotation and archive bounds positive | each file by its age is chained, entries are in order over the files, and what each process is in the middle of matches the files (`LogInv`) |
| `InviteSingleUse` | `SingleUse` | `Skew <= Retention` | a held token is in the ledger, and in memory once the ledger was read, or is too old to be accepted (`HeldInv`) |
| `TrustFileSticks` | `TrustSticks` | operations one at a time | the file under an open operation is the one it loaded, or failed to read (`LoadedInv`) |
| **EdgesProofs** | | | |
| `NoRoundTrips` | `CarriedAtMostThrice` | every listener has a mesh | in a mesh a text has at most two marks, the outermost a federation's or LXMF's; in the LXMF network at most three, the outermost a listener's (`MarksPossible`). That a third one is not covered again follows only from which mark is outermost |
| `StopsCleanly` | `CleanExit` | one start, one signal | `StopInv`: how far a shutdown has come, and what is still up at each of its places |
| `ResolvesOnce` | `ResolvedOnce` | peers' names differ | `ResolveInv`: the candidates of a call fit (`Fitting`); as long as it has not succeeded everyone it sent to was evicted meanwhile (`Spent`), and a peer it is about to send to is known or was evicted (`Counted`) |
| `CursorStable` | `NothingSkipped` | a ring of at least one | the ring holds the last events without a gap and what it no longer holds was returned or lost (`RingInv`); the request slot belongs to who waits on it (`SlotInv`) |
| `AnswersMatch` | `AnswersFit` | | a result, made or on its way, carries the call's id or is a plain message of its peer (`MeantFor`); a call that has a result, or gave up, has left the table of futures (`CallsApart`); every call to the same peer that is still in it is younger than one that takes a plain message (`Turns`) |

Assumptions are stated with each theorem or are the named `ASSUME`s of the base
modules, which TLC evaluates in the runs; the instances the runs check satisfy
them. Where one is a condition on how the code is used rather than a bound
(`OneOperator`, `OnlyDialsRace`, operations one at a time, legacy rows under one
passphrase), section 3 lists what happens without it.

Two techniques recur. Sums and lengths that the code computes by a loop are stated as
cardinalities (a budget is the number of units charged, what a window forgets is the
number of old entries), since the theorems about finite sets are at hand while an induction
for each loop is not. Where a recursion is needed all the same (`Kept`, the loop of
`cleanup_expired`), `MeshRelayProofs` derives induction for sets of natural numbers
(`Induction`) from the well-foundedness of `<`, and with it that the recursion defines a
function and what it selects (`KeptFacts`).

Model-checked only: what must eventually happen, since TLAPS does not handle fairness
and ENABLED here: `CollisionResolves`, `SerialQueueDrains`, `AttemptsEnd`, `CalmConverges`,
`NetworkDrains`, `PromiseKept`, `SpacedReconnects`, `WaitsEnd`, and the second halves of
`PublishedExactly` (what a promotion reads is published, dropped or lost) and
`GossipTrue` (the latest set reaches everyone). Each theorem is about a component
by itself; that the environments of an `MC…` module do not interfere is by their
construction (the others rest).

## 5. Limits

- One pair of daemons in the handshake, session and registry models, one peer or
  address in the queue, gate, binding, heartbeat, lockout and throttle models: their
  state is kept per peer and no operation of theirs reads another peer's.
- `SpacedReconnects` assumes dials that come apart; `AuditCounters` assumes at most one
  rotation between two scans (a file holds 10 MB, scans are a second apart).
- `TrustStore` checks operations one at a time; concurrent ones lose updates (above).
- `MeshNetwork` delivers announcements at once; delayed ones are in `MeshRouting`.
- `SendGate` counts time in ticks in which one unit of bandwidth refills; the code's
  clock is continuous. A node before 0.9 in `Handshake` is what the 0.9 code's
  legacy branches expect it to be.
- A message recorded as delivered before a failing `store_message`
  (`routing.py:748`) is not in the relay model, which has no store.
- Not modelled: cryptographic primitives (symbolic), byte layouts of frames, tokens
  and envelopes; the circuit breaker (`_send_frame` never raises, so it never opens);
  hooks (a list of callbacks with no state); discovery and RNS path management (calls
  into external stacks); the OS keychain; dashboards and command-line parsing
  (presentation); conversation envelopes (an encoding); client libraries in other
  languages. See "components" in `PROJECT.json` for each part and the reason.

## 6. Plan

1. The safety halves of the liveness properties, as invariants with proofs: what a rekey
   collision leaves pending (`CollisionResolves`), that calm tables only come closer to
   the shortest routes (`CalmConverges`), that the copies of a message have a measure that
   every step lowers (`NetworkDrains`).
2. `MeshNetwork`: that each of its steps is a step of `MeshRelay` over some routes, so
   that `BudgetKept` and `ForwardsOnce` hold in the composition.
3. `TypeOK` of the modules whose proofs use a typing of their own.
