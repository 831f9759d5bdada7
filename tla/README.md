# Autopeer-Agent: a TLA+ model

The agent runs on a DN42 node. A center tells it over a websocket which
peerings the node has; the agent builds each one from a WireGuard interface and
a BIRD protocol, remembers it in a BoltDB file, reports metrics, and replaces
its own binary on request. This directory holds TLA+ models of the parts of
that program where order, failure and concurrency matter, TLC configurations
that check them on small instances, and TLAPS proofs of their safety
properties for all instances. `PROJECT.json` lists components, runs, hazards,
findings and theorems, and maps each definition to the lines it models.

## The system

| Part | Code | State | Operations | Failures it meets |
|---|---|---|---|---|
| Peer commands | `internal/handler/handler.go` | none of its own | `peer.add`, `peer.remove`, `peers.sync` | every call below fails; the process dies between or inside calls |
| Store | `internal/store` | peer map, version, update id, keys | one BoltDB transaction each | a commit fails (often ignored by the caller) |
| WireGuard manager | `internal/wg` | config files, kernel interfaces | write and `wg-quick up`; `wg-quick down` and delete | file left without interface, interface without file, reboot |
| BIRD manager | `internal/bird` | peer files, what BIRD runs | write, check, `birdc configure`; delete, configure | rejected file, failed or timed-out reload |
| Websocket client | `internal/ws/client.go` | connection, channels, session key | `Run`, `connect`, `readLoop`, `writeLoop`, `Send`, `Close` | dial, read and write errors, timeouts, reconnects |
| Key exchange | `handler.go:711-894` | pending channel, server key | `key.init`, `key.auth`, their acks | refusal, 15 s timeout, late ack, store error |
| Self-update | `handler.go:614-709`, `update_helpers.go` | executable, download, backups | `agent.update`, `agent.rollback` | bad download, error before or after a rename, crash |
| Metrics collector | `internal/metrics` | tick count, ping pool | `collect`: three reads, pings, heartbeat | what it reads changes between the reads; `wg`, `birdc`, `ping` and the send fail |
| Queries | `handler.go`, `network.go` | none | status, details, import, enable, disable, ping, trace, mtr, route | external commands fail |
| Start, configuration, cryptography | `cmd/agent`, `internal/config`, `internal/crypto` | none kept | | |

Goroutines: `main` waits for a signal; `Run` dials, runs the key exchange and
waits for the reader; `readLoop` reads frames and runs the command handlers
itself; `writeLoop` drains the send channel; `Collector.Run` sends heartbeats.
Command handlers therefore never overlap. `WsClient` checks this
(`SingleReader`), and `PeerLifecycle`, `OtaUpdate` and `Queries` rely on it. The
collector does overlap with them: `Agent` composes the two.

## Modules

**`PeerLifecycle`** models the three peer commands. Variables are the store's peer map
(`peers`), the two sides of each manager (`wgConf`/`wgUp`, `birdConf`/`birdRunning`),
the running handler (`pc`, `cur` and, for `peers.sync`, `todo`, `m`, `applied`,
`notApplied`, `failed`, `stalePeers`) and the last answer. Each action is one manager or
store call with the branch the handler takes on its result: `AddWg` is
`wg.AddPeerWithIface` in `handlePeerAdd`, `AddBird` is `bird.AddPeer` with its rollback,
and so on. `TornCall` lets a crash fall inside a call, between the file and the command.
`hurt` records that a failure occurred which the code does not undo (a crash, a failed
`wg-quick up` or reload with the file already written, a failed removal), and `ignored`
that it was one of removal (`os.Remove`, `wg-quick down`, the reload after it), which
the handlers do not notice. File contents are left out; a sync list is a set; a payload
is its id, ASN, names, and which required fields it has.

**`WsClient`** models the connection. Every goroutine is a process whose step ends where
another can interfere: at `c.mu`, at a Go channel, at the socket. A session key
is the connection it was negotiated on. Connections are recycled once nothing
refers to them, so the number of reconnects is unbounded. There is no clock: a
timer may fire at any time while `late` is among the faults, and otherwise only
when what it waits for cannot come. The center and the network are external.

**`OtaUpdate`** models self-update. Each step is one file operation or store commit,
and a crash may follow any of them. A binary is a version and a build; its hash
identifies it. The version compiled into a binary is the one the center
announces. `hurt` marks an ignored store error, or an error that comes after the
executable was replaced.

**`PeerRegistry`** says what the peer commands promise about the peer map: one
command at a time, each changing the map at most once, in one step, and answered
according to that step; crashes and failed commands leave it alone.
`PeerLifecycle!ImplementsRegistry` maps the handlers onto it: `cmd` is the command
`pc` belongs to, `write` what it is to put or delete, `list` the entries of the
sync not dropped so far.

**`Collector`** models `collect` from tick to heartbeat. It reads `wgUp`, `peers` and
`birdRunning` in three separate steps (`GetStats`, `ForEachPeer`, `GetBirdStates`,
and on every `birdDetailEvery`-th tick `GetBirdDetails`), starts one ping goroutine
per peer, each of which waits for one of `Slots` slots, waits for all of them and
sends. Counters and times are left out: an entry says which parts it has. Interfaces
and protocols that will not be looked up are dropped as soon as that is known.

**`Agent`** composes `Collector` (by `INSTANCE`) with `PeerLifecycle`: they share the
store, WireGuard and BIRD and interleave at every call. `steady` is a history
variable, the peerings that were complete ever since `GetStats`. Of `agent.update`,
`Agent` has what the collector can see: the store is closed (`CloseStore`) some time
before the process is replaced, and `ForEachPeer` then yields nothing.

**`Queries`** follows one message that changes nothing on the node from `HandleMessage`
to its answer, one step per external command, each of which may fail. What it
computes is in operators, each beside a reference definition:

- **`ImportPeers`**: the two `ScanPeers`, their matching and the list that is sent. The
  reference is the set of peerings on the node, from which the files are derived, and
  the entries due for each: one for a live interface, else one for each BIRD file. An
  interface name is a word and a number, enough to tell which digits
  `extractASNFromIface` finds.
- **`BirdOutput`**: what `GetPeerStates` and `GetPeerDetails` make of the lines of
  `birdc`, and `parseSinceToUptimeSecs`. The reference is the protocols BIRD runs,
  from which the lines are printed.
- **`NetworkTarget`**: the target ranges by octets as the code tests them, against
  ranges of sixteen-bit numbers; resolution of a name; the bounds of counts; the
  address `parseTracerouteOutput` finds in a line, against the routers that answered.

A loop of these parsers is a recursive function of the number of lines read, with its
body as an operator (`HopStep`, `Keep`, `StateStep`, `DetailStep`), the form the proofs
can do induction over. **`Lines`** joins what is printed into one text.

**`MC...`** modules hold the finite instances. **`..._proofs`** modules hold
theorems.

Operators commented *Seeded fault* are variants of the definition after
them with a plausible mistake in it; each is used to see that a property notices
that mistake. No specification uses them.

## Runs

Passing:

| Run | Instance | Shows |
|---|---|---|
| `PeerSafety` | two peers; incomplete payloads, ASN 0, a custom interface; all faults, crash, reboot | `AddedIsReal`, `AppliedIsReal`: what is answered as added or applied is there. `RemovedIsGone`: what is answered as removed is gone, unless some removal failed. `SyncedExact`: after a sync, store and node have the peers it recorded and no others. `NoOrphans`: nothing unknown to the store stays on the node after failures that the handlers undo. `KeepsTracked`: a handler takes nothing from another peer. `ImplementsRegistry`: the peer map changes as `PeerRegistry` says |
| `PeerReconcile` | two complete peers, all faults until they stop, crash, reboot | `Reconciles`: repeated `peers.sync` brings the store to the center's list and gives each of its entries a WireGuard config, an interface and a BIRD file |
| `WsSafety` | two connections, buffers of one, all network faults | `SessionKey`, `ClosedOnce`, `SingleReader`, `NeverStuck`, no deadlock. `SealedTraffic`: sync requests and responses go out sealed, to a center that has accepted the key |
| `WsReconnect` | one connection at a time, faults until they stop, shutdown at any time | `SyncRequested`, `RunReturns` |
| `OtaSafety` | two versions, two builds, three updates, rollback, all faults | `Bootable`, `BackupsLabelled`, `Agreement`. `UpdatedIsReal`: "update applied" is true, and the replaced binary is kept. `RecordsInstalled`: an update id is recorded only over the binary it installed |
| `OtaConverges` | two updates, then the one the center settles on, all faults until they stop | `Updated`: the update ends up on disk with its id recorded, and running, except in an agent whose own replacement failed late (it runs the old binary until it is restarted) or that could not store its version (it refuses updates until it is restarted) |
| `Agent` | two complete peers, one ping slot, details on every second tick, failures of `wg`, `birdc`, `ping` and `Send`, a store closed by an update, reboots | `SteadyReported`: a peering that is up throughout has exactly one entry, with its own ASN, BGP state, ping result and, when due, route counts, unless the store was closed, and then the heartbeat has no entries. `CollectEnds`: every collect ends |
| `Queries` | 10,304 messages: nodes of up to two peerings, up to three protocols, all corners of the address ranges, three probes per hop | `AnsweredOnce`: one call of `Send` each. `ImportExact`: import returns exactly the entries due, each once. `DetailsExact`, `HopExact`: details, states and hops say what is there. `TargetPermitted`: only permitted addresses are probed, and none that has one is refused |

Runs that exhibit a disagreement between the code and what its documents say
(details and quotations are the findings in `PROJECT.json`):

| Run | Disagreement |
|---|---|
| `PeerAddRollback` | a failed BIRD reload leaves the new file behind |
| `PeerRecreated` | a peering re-created under a new id is reported applied and then torn down |
| `WsStaleWriter` | the old `writeLoop` takes the new connection's sync request |
| `OtaRollback` | rollback looks for a backup of the running version |

More gaps came up while modelling. They have no run of their own and are notes to
the hazards:

- a sync never reclaims what a crash leaves of a peer that the store has forgotten
  (`handler.go:423`); `Reconciles` speaks of the center's list only;
- a missing custom BIRD file is rewritten under the default name, which the store
  does not know (`handler.go:380`); `NamesStable` excludes custom file names;
- after a failed `birdc configure`, later syncs find the file and do not reload BIRD
  (`handler.go:380`), so BIRD may not run a peering that is reported as applied until
  something else reloads it; `Reconciles` and `AppliedIsReal` promise the file only;
- `peer.remove` answers success, and the store forgets the peer, when `os.Remove` or
  `wg-quick down` failed (`wg.go:139`, `bird.go:138`); `ignored` guards
  `RemovedIsGone`;
- an answer whose `Send` fails is lost (`handler.go:251`, `handler.go:558`);
  `AnsweredOnce` counts the calls;
- between the end of an update and the restart the store is closed
  (`handler.go:679`), and a heartbeat sent then reports no peers (`metrics.go:109`);
- a heartbeat encoded in clear can be written after encryption is enabled
  (`client.go:342`), and an encrypted command read just before is dropped without
  an answer (`client.go:284`);
- one failed `PutServerPubKey` blocks every later key exchange of the process
  (`handler.go:852`); `WsReconnect` has no store errors;
- a write error does not take the connection down while the center keeps sending
  (`client.go:232`);
- an update whose replacement fails late is later answered as applied while the old
  binary runs (`update_helpers.go:247`); `hurt` guards `Agreement`, and `Updated`
  promises such an agent the file and the id only;
- an agent that has not stored its version refuses every update until it is restarted;
  `Updated` excludes it;
- a tracked peer whose interface is down has no entry in the heartbeat
  (`metrics.go:144`); `SteadyReported` is about peerings that are up;
- an interface `dn42<ASN>` without a BIRD file is imported under the ASN `42<ASN>`, and
  one called `wg0` under the ASN 0 (`wg.go:236`); `ImportExact` assumes `WellNamed`;
- a peering without a live interface is imported once for each of its BIRD files
  (`handler.go:538`); `ImportExact` says so;
- a line of routes with a count of filtered ones is not read (`bird.go:29`); such lines
  are not among those of `BirdOutput`;
- routes of another protocol are counted to the BGP protocol printed before it
  (`bird.go:358`); `DetailsExact` assumes `OthersFirst`;
- the RTTs of a traceroute are never recorded (`network.go:448`).

**Bounds.** Two peers are the least with which one can harm another, and
handlers only ever relate the peer at hand to the others. Two connections are
the least with which an old goroutine meets a new connection. `WaitRead` keeps a
third reader away, and more old writers do the same as one. A buffer of one
makes *full* reachable at once (256 in the code); the reconnect run uses three,
so that a key message, a heartbeat and a sync request fit, as they do in the
code. It has one connection because with two the stale writer of
`WsStaleWriter` breaks the property; that case is kept apart as a finding. It
leaves out commands, whose answers could fill the small buffer. Two versions
with two builds give an update to a new version, a rebuild of the same version
(the only case in which a rollback finds a backup right after one update), and a
way back. For the collector, two peers and one slot make a ping wait for another.
The handlers beside it fail by reboots only, for the size of the run; what other
failures leave is covered by `HeartbeatComplete`.
Import needs two peerings, to match one with the other's file, two BIRD files for
one of them and a file that is no peering; details need three protocols, to have one
between two others, and a day of a few seconds, so that every age up to two days
occurs. The addresses are both ends of every range and their neighbours.

**Deadlock** is checked everywhere except in `WsReconnect`, where a shutdown
ends the system, and in `Queries`, where a message has been answered.

**Fairness.** A handler that has started continues, since it is straight-line code and
the external commands it runs are taken to end (`birdc` has a timeout, `wg-quick`
has none). The collector continues for the same reason (`ping` and `birdc` have
timeouts); the handlers beside it need not. The center is assumed to repeat the list
or update it has settled on; the agent itself asks for a sync on each connect. The
scheduler runs runnable goroutines.
`WriteReturn` is strongly fair because Go's `select` chooses at random among
ready cases. systemd restarts the agent (`Restart=always`). The center answers a
key message on a connection that stays up. Nothing is assumed until failures stop
(`calm`).

## Proofs

Every invariant, action property and refinement of the passing runs is also a theorem,
for every value of the constants. Eight modules hold the proofs.

`PeerLifecycle_proofs`, for any sets of peers, names, payloads and faults:

- `TypeCorrect`: `Spec => []TypeOK`.
- `NothingOrphaned`: `NoOrphans` holds if the center keeps a peer's names stable
  (`NamesStable`: a peer id always comes with the same ASN and interface, and with
  the default BIRD file name). `NoOrphans` speaks of the state between commands, so it
  is not inductive. `Ownership` adds what holds inside a handler: the names `cur`
  carries are those of the store where the peer is tracked, and at each call whatever
  is on the node belongs to a tracked peer, to the peer being added or removed, to an
  entry recorded for `ReplaceAll`, or to a stale peer not yet torn down.
- `AddedHolds`, `RemovedHolds`: the answers to `peer.add` and `peer.remove` are true,
  the second as long as no removal failed (a crash, a failed addition or a failed
  `DeletePeer` before does not matter). `Answers` adds what each handler has established
  before its next call.

`PeerHandlers_proofs`, for the same:

- `RegistryRefined`: `Spec => ImplementsRegistry`. Each step of a handler maps to a step
  of `PeerRegistry` or to none; a lemma about the entries a sync still has to do ties
  `m`, `todo` and `list` together.
- `AppliedHolds`: `AppliedIsReal` holds if names are stable and no two peers share one
  (`NamesUnique`; `PeerRecreated` shows what happens otherwise). The answer comes after
  the teardown of stale peers, so `SyncInv` follows an entry from the call that set it up
  to the answer: no entry is visited twice (`ListedOnce`), an applied one is in place at
  every call (`AppliedInPlace`), and what is torn down belongs to peers that are not on
  the list and that the store has dropped (`StaleForgotten`).
- `SyncedHolds`: `SyncedExact`, under the same hypotheses. `Committed` adds that once
  `ReplaceAll` has committed, the store is the map of the recorded entries and stays it to
  the answer (`MapOfRecorded`). What is on the node then belongs to a tracked peer by
  `Ownership`, and what a tracked peer needs is there by `AppliedInPlace`.
- `TrackedKept`: `KeepsTracked` holds if, in addition, no peer lives on an interface that
  another one's payload names or that is named after another one's ASN (`NamesApart`).
  It is a statement about steps: `TakesOnly` says which names each call can take down,
  `SyncInv` whose they are (`RemovesOwn` for `peer.remove`).

`WsClient_proofs`, for any number of connections, any buffers and any faults, from an
inductive invariant whose steps are in `WsInvariant_proofs` and in the module itself:

- `ConnectionTypes`: `TypeOK`.
- `OneReader`: `SingleReader`. `Owned` adds that only the connection `Run` works on has
  a `readLoop`, is in `c.conn` and `c.connDone`, and has a socket that is not closed.
- `ConnDoneClosedOnce`: `ClosedOnce`. `Closes` adds that `connDone` is open until the
  `readLoop` closes it, and `Owned` that `connect` then finds none to close.
- `KeysStay`: `SessionKey`. `Keyed` and `Sealed` add that the key and each frame in a
  sender, a channel or a `writeLoop` belong to the connection whose channel it is; a
  `writeLoop` that takes from its successor's channel no longer has an open socket.
- `KeyAnswerFits`: `NeverStuck`. `Asked` adds that the key message of the current
  connection exists once (encoded, queued, taken or received by the center), and
  `Answered` the same of the answer (on its way, read or in the channel `Run` made for
  this connection). It rests on the center answering a key message once.
- `TrafficSealed`: `SealedTraffic`. Two more invariants follow a frame from `Send` to the
  socket (`Travels`) and from the center to its handler (`Arrives`). `Ciphered`: encryption
  is on when `Run` asks for a sync and while a command is handled, since only a sealed
  frame is taken for a command. `Agreed`: while a connection lives, whatever shows that its
  key was accepted (the key in use, an answer anywhere between the center and `Run`, a
  frame sealed with it) has the center's acceptance behind it. The center does not go back
  on it (`WordKept`, by `Asked`), and a recycled connection starts without any such sign
  (`FreshConnection`).

`OtaUpdate_proofs`, for any versions, builds, payloads and faults: `UpdateTypes`,
`AlwaysBootable`, `BackupNames`, `AgreementAtRest`, `RecordedOnlyInstalled`,
`UpdatedHolds`. `IInv`
adds that only whole, announced binaries are in `exec` and the backups, that `final`
is the announced binary from the verification to the replacement and `exec` is from
there to the last store commit, and that store, disk and process agree until the
replacement. For `UpdatedIsReal`, `UpdatedInv` also follows the backup of the running
binary from `Backup` to the answer.

`Agent_proofs`, for any peers, slots and faults:

- `CollectorOnlyReads`: `AgentSpec => Spec`, so what is proved about the peer
  commands holds beside the collector.
- `CollectorTypes`: `CollectorTypeOK`, from the types of what the handlers leave; the
  tick count stays in its range for any configured interval.
- `HeartbeatComplete`: `SteadyReported` holds if names are stable and distinct
  (`NamesStable`, `NamesUnique`). `Snapshot` adds what each of the reads has
  established for a steady peering: its interface is in `stats`, is mapped to it and
  to nobody else, and its protocol is in `birdByProto` unless `birdc` failed; or else
  the store is closed and nothing is mapped. `Pings` (lemma `PingsAccounted`) follows each
  ping from its goroutine to its result: when the heartbeat is built none is left, and
  each was answered or not.

`Queries_proofs`, for any set of messages that `RequestsAssumption` allows (below).
`QueryInv` relates `pc` to the answers: none before the last step, then one that is an
error or what the handler computes from the message (`Right`). From it:

- `OneAnswerEach`: `AnsweredOnce`; `QueryTypes`: `TypeOK`, the bounds of the counts.
- `OnlyPermittedTargets`: `TargetPermitted`, for every address with octets in `0..255`,
  from the equality of the two definitions of the ranges (`Ranges4`, `Ranges6`) and the
  fact that `resolveAndValidate` finds an address if there is one.
- `HopsExact`, `ImportsExact`, `ReportsExact`: `HopExact`, `ImportExact`, `DetailsExact`,
  from the lemmas about the parsers.

`Parsers_proofs` holds these lemmas, by induction over the lines of a text of any length.
The library's induction theorems take an operator as a parameter, which the provers
cannot instantiate; `Induct` and `InductTo` say the same of a set of numbers, and are
proved from the well-foundedness of the naturals. `Run` and `Typed` give the equations
and the type of a loop written as a recursive function. On them rest

- `HopLast`: after the tokens of n probes, the address is that of the last that answered;
- `ImportWhole`: a loop keeps what it is to keep, in order and once (`KeptIs`), in
  whichever order the directories are read (`Directory`); each config finds a file of its
  own peering or none (`OwnMatch`), an entry tells which peering and file it is for
  (`EntryTells`), and so each entry due is in the answer exactly once;
- `UptimeExact`: the printed time is read as the age, over midnight and over days;
- `StatesExact`, `DetailsRight`: the rows of the table and of the full output are read back
  protocol by protocol. `Reading` is the step: behind a BGP protocol, its lines add up to
  its channels' total and leave what was read before alone.

Assumptions are the named `ASSUME`s of the modules, which TLC evaluates in each run: the
shape of the payloads, the ranges of the numbers, and `RequestsAssumption`: a name
resolves to addresses, the peerings of a node share neither ASN nor interface names, its
directories are finite, other files of the BIRD directory are not read as peers, the
time is within a day. `NamesStable`, `NamesUnique` and `NamesApart` are hypotheses of
the theorems that need them, and hold in the instances of the runs that check those
properties.

Only model-checked: the liveness properties `Reconciles`, `SyncRequested`, `RunReturns`,
`Updated` and `CollectEnds`, which TLAPS cannot prove under fairness. `OthersFirst` and
`WellNamed` are part of `DetailsExact` and `ImportExact` for the reasons given under
*Runs*. The parsers' modules use sets, recursive functions and `Lines` where
`SequencesExt` has operators: its definitions in the context make each proof step about
ten times slower.

## Not modelled

- Configuration is a sequential read of a file. The cryptographic primitives and the
  generation of the agent's key pair are library calls.
- `parsePingOutput` copies numbers out of a text by regular expressions; there is
  nothing to relate them to.
- `bird.enable` and `bird.disable` are followed to their answer. What BIRD then
  reports is BIRD's, and a later reload keeps it.
- The lock of the BIRD manager shows only in that each of its calls is one step. The
  protocol of a peer is taken to have the name `dn42_<ASN>` that the agent writes: the
  collector's `protoName` (`metrics.go:190`) is followed in that case only, and a name
  that the center gave for a protocol is left out.
- The answers of `WsClient` are not those of the peer commands: a composition of the
  two has more interleavings than TLC can visit, and the commands see the connection
  only through `Send`, which may fail.
- Timing is left out: backoff lengths, the 90 s read deadline against a long handler,
  and the immediate redial after a failed key exchange. So is `Collector.Stop`, after
  which the process ends.
- Power loss, as opposed to process death: what is renamed is taken to be on disk.
