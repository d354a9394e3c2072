# A TLA+ model of cpms

`cpms` is a terminal charge point management system: one process that a charging
station dials into over OCPP 1.6-J, that keeps what it learns of the station in
memory, and that publishes changes to its consumers. A simulated charge point is
built into the same binary. This directory holds TLA+ models of its parts, the
TLC configurations that check them, and TLAPS proofs.

`PROJECT.json` lists components, runs, mutants, findings, hazards and theorems,
and maps every definition to the lines it models.

    tlc -config MCCore.cfg MCCore             # one run
    tlapm CoreProofs.tla                      # one module of proofs

## 1. The system

| part | state | operations | what is hard |
|---|---|---|---|
| core service (`internal/core`) | charge points with online flag, station status, EVSEs (order, connector, reported and cached effective status), transactions, transaction counter | `Connected`, `Disconnected`, `SetConnectorStatus`, `StartTransaction`, `StopTransaction`, `RecordMeterValues`, … | events are published after the mutex is released; the effective status is a cache |
| event bus (`internal/core/event.go`) | subscribers with bounded channels and drop counters | `Subscribe`, cancel, `publish` | channels are closed outside the mutex while others publish; publishing must never block |
| 1.6 handler (`internal/ocpp/v16`) | none | one function per inbound message | which messages reach the core, and with what |
| CSMS server (`internal/ocpp/csms`) | registry of connections, wait group | handshake, `serveConn`, `Shutdown` | calls into the core happen outside the registry's mutex; stations redial before their loss is noticed; hijacked handshakes |
| OCPP-J connection (`internal/ocpp/ocppj`) | pending calls, two bounded channels, done | `Call`, three loops, `Close` | four kinds of goroutine, timeouts racing answers, back pressure, a peer that may do anything |
| state store (`internal/state`) | the state in memory, the file | `Open`, `Update` | crashes between the steps of an atomic replacement, steps that fail |
| simulator (`internal/simulator`) | connectors with status, session and reservation | commands, local operations, heartbeat loop, `Close` | every command finishes in a goroutine of its own, after its answer |
| command adapter (`internal/ocpp/v16/chargepoint.go`) | none | a method per command of the CSMS | bound to a connection that may be replaced while a command waits; words shared by the answers of different actions |
| configuration (`internal/config`) | the file while it is loaded, maps of what was seen, the list of problems | `Load`: decode, normalize, defaults, validate | values that are defaulted before they are compared; duplicates of values that are themselves wrong; durations that other parts round |
| command line, build information | none | flags, printing | nothing concurrent |

How they interact. A station's dial becomes a goroutine in the CSMS server, which
registers an OCPP-J connection, calls `Core.Connected`, runs the connection, and on
its end calls `Core.Disconnected` unless another connection has replaced it. Inbound
CALLs are handled one at a time by the handler goroutine of the connection; the 1.6
handler turns each into a call of the core, which changes state under its mutex and
publishes events on the bus afterwards, still in that goroutine. `run` subscribes a
log consumer. The state file is opened at start-up and is not yet used by the core.
The simulator is the client side of the same OCPP-J connection. Commands go the other
way: `Server.Command` gives out an adapter bound to the station's current connection,
whose methods are calls on it. `Load` runs first, and its heartbeat interval and
timeout reach the station, in the answer to its BootNotification, and the read
deadline of every connection.

What makes each part correct:

* core: what is advertised follows from what is known, at all times; nothing usable
  is advertised for a station that cannot be reached; transactions are neither
  shared nor rewritten; of the changes of a status none is lost, doubled or invented
  on its way to the consumers;
* bus: no send on a closed channel, no uncounted loss, nobody waits for a consumer;
* server: the registry names connections that are served; replaced connections are
  closed and end; online means connected; `Shutdown` returns, with nothing left;
* connection: an answer goes to its call; nothing leaks; order is kept; every call
  and every loop ends; a silent peer is dropped;
* store: old or new, never torn; reported means kept; unreadable files survive;
* simulator: its sessions and the CSMS's correspond, the CSMS knows its statuses,
  and it can always be closed;
* command adapter: what a command returns was said to that command, and is known;
* configuration: what is loaded is usable by every other part, and a refusal names
  every EVSE and connector that is wrong;
* together: statuses reach the core in the order they were sent and not after the
  station was reported gone; a punctual station is kept, a silent one dropped.

## 2. Modules

| module | models | proofs | instances |
|---|---|---|---|
| `Core` | core service driven by the 1.6 handler | `CoreProofs` | `MCCore.cfg` |
| `Csms` | server, registry, shutdown | `CsmsProofs` | `MCCsms_*.cfg` |
| `OcppjConn` | one connection and its peer | `OcppjProofs` | `MCOcppjConn_*.cfg` |
| `ChargePoint` | the command adapter | – | through `Session` |
| `Session` | one station and the server end to end: `Csms`, the loops of each connection, `ChargePoint` | `SessionProofs` | `MCSession.cfg` |
| `Config` | loading the configuration | `HeartbeatProofs` | through `Heartbeat` |
| `Heartbeat` | `Config`, then the boot, the heartbeats and the watchdog in time | `HeartbeatProofs` | `MCHeartbeat.cfg` |
| `Store`, `AtomicStore` | the state file, and what it promises | `StoreProofs` | `MCStore.cfg` |
| `EventBus` | the bus, channel by channel | `EventBusProofs` | `MCEventBus.cfg` |
| `Simulator` | the built-in charge point | `SimulatorProofs` | `MCSimulator_*.cfg` |

The modules meet at their interfaces. `Csms` keeps of the core the online flag and
of a connection `Run` and `Close`. `Core` keeps of the server that
each connection is one goroutine, which reports connects, disconnects and CALLs one
after the other while others do the same for the same station, and of the bus a
subscriber without drops. `EventBus` keeps of the core that publishers
are goroutines. `Session` and `Heartbeat` compose: the first shows what two
connections of one station do to each other, with the actions of `Csms` themselves for
the server; the second follows two durations from the file to the
wire. Operators whose comment begins with "Mutant of"
are deliberate mistakes; no specification uses them. They show that each property
can fail: with the mistake in place TLC finds the property violated.

### Core

`cps` holds one record per charge point, as `chargePointState` does. An action is a
critical section of `Service.mu` together with everything the handler does up to it,
`recompute` included; what it has to publish waits in `outbox` of its connection, and
`PublishFirst` and `PublishChange` hand it to the bus. `serves`, fixed for a behaviour
and taken from `Dials`, says which station a connection belongs to; several may belong
to one, and then their outboxes race. `Restart` is a new process: a fresh core.

Three variables are there for the properties only. `seen` is the last status a
subscriber was told of each EVSE; `told` counts, per EVSE and status, how often it was
told that the status was entered, less how often that it was left; `raced` holds the
EVSEs whose last change was made while another connection had yet to publish one. Timestamps, meter values and texts
are left out. The order in which one `recompute` publishes changes of different EVSEs
is left open, so `order` is a set.

### Csms

One goroutine per dial, with a program counter that stops at each boundary of
`Server.mu` and at each call into the core. `patient`, fixed for a behaviour and taken
from `Patience`, are the stations that wait until the server has noticed the loss of
their old connection before they redial; the others redial at any time. The
socket failing, or the idle watchdog firing, is `LinkDies`.

### OcppjConn

Every case of every `select` is an action. `box` are the result channels, which
`deliver` fills after it has released the mutex. The peer answers any CALL it has
seen, any number of times, at any time; sends CALLs, malformed frames and answers to
nothing; stops reading, falls silent, or dies. A frame also carries, for the
properties only, the call it belongs to. Time is counted in ping periods, three to
the idle timeout; `Heartbeat` has a finer clock.

### ChargePoint and Session

`ChargePoint` has no state, as the adapter has none: what each method sends
(`ActionOf`, `Address`), refuses (`Refusal`) and makes of an answer (`Interpret`).
`Session` uses the actions of `Csms` for the server's goroutines and adds to each
connection its socket (`up`, `down`), its `calls` channel, its handler and its pending
calls. A status is its number in the order the station sent them, so that an old one is
told from a new one. `Call` is in two parts, as its two selects are; `Answered`,
`Closed` and `GivenUp` are the cases of the second, and more than one may be possible.
`said` is what the station answered to a command while it waited, for the properties
only. `calls` also holds the CALL that `readLoop` is blocked with.

### Config and Heartbeat

`Config` takes the stages of `parse` one by one, and the loops of `validateLocation`
and `validateConnectors` round by round, with their maps. `Texts` are the classes of
text a field may hold; an instance lists the files, and the proofs are about any file
with any number of EVSEs and connectors. `Heartbeat` continues with an
accepted file: the main line of the station (boot, first statuses, heartbeat loop) and
other reporting goroutines call, `readLoop` reads unless the `calls` channel is full,
the handler takes its time, the deadline counts down, pings are answered. `Tick` is
half a second and is held up by what is due: a frame or answer under way for
`MaxDelay`, a handler at work for `MaxWork`, a call at its timeout, a heartbeat. A CALL
whose caller has given up stays in the line, since the connection knows nothing of the
caller; `waited` keeps how old it was. That it is not given up while its frame is still
under way (`MaxDelay <= CallTimeout`) is an assumption on the network.

### Store and AtomicStore

`Update` is a step per system call. A file has a content a reader sees and a content
that is on stable storage; `entry` is the set of files a power cut may leave under the
path. `Killed`, `PowerCut`, `Spoiled` (another program leaves an unreadable file) and
`MovedAside` (the operator follows the error's advice) are the environment.
`AtomicStore` is the promise: one value, replaced in one step, reported afterwards,
taken back by a crash only if it was never reported, where the platform syncs
directories. Whether it does (`durable`) is fixed for a behaviour; on Windows
`syncDir` does nothing. The mapping is `value <- parse(file.now)`.

### EventBus

`publish` is a step per subscriber in arbitrary order, as a Go map is ranged over.
`WantLock` separates calling `Lock` from getting it, because a waiting writer keeps
new readers out. A channel is everything it accepted and how much was received.

### Simulator

A goroutine is a record: where it is, the connector and status it is about, and what
follows. The wait of `after` ends with the first step of the work, or with giving up
because the simulator was closed. Calls are answered, or fail before or after the CSMS
acted. The CSMS itself is what it was told per connector (`told`) and the sessions it
runs (`running`). Commands are handled as long as `Run` of the connection has not
returned (`serving`), which it may do some time after the connection was closed.
`beat` is the goroutine of the heartbeat loop: not yet started, waiting, in a call, or
off. A local operation checks what its method checks and no more: a
start does not ask whether the connector is free.

Three histories serve the properties. `blurred` holds the connectors that two
goroutines were about at once, or a report of which failed, until one that sets or
reports a status has the connector to itself. `contested` holds the connectors with a
start under way that met another start or a session, and `replaced` the transactions
that such a start has put another for.

## 3. Runs

Passing runs:

| run | bounds | shows |
|---|---|---|
| `core` | 2 connections, both of one station or one of each of two, connectors 0 and 1, 2 reported statuses, 2 transaction ids, restarts | cached statuses equal derived ones; nothing usable while unreachable or down; transactions are not rewritten; of the changes none is lost or invented, and only two that overlap leave a subscriber with an old status |
| `csms_redial` | 1 station, 3 dials, patient or not | registry, replacement, closed connections end, `Shutdown` returns; for a patient station online exactly while connected, and losses are noticed |
| `session` | 1 station, 2 dials, patient or not, 2 commands, 3 statuses and commands in all, `calls` channel full at once, answers that are errors or do not decode | a command returns its own answer; statuses of a patient station are neither reverted nor written behind its disconnect |
| `startup` | over 2000 files; 2 reporters, 1 first status, delays up to 0.5 s, handlers up to 1 s, timeouts up to 5.5 s played out | what is loaded is usable, every EVSE and connector that is wrong is reported, a punctual station is kept, a silent one dropped |
| `ocppj_calls` | 2 callers, 3 calls, 3 answers | pending is exact, answers match |
| `ocppj_flow` | 1 call, 2 inbound CALLs, 1 malformed frame, channels of 1 | order of dispatch, calls return, `Close` ends all |
| `store` | 2 updaters, 4 generations, directory syncs that work and that do not | never torn, nothing reported is lost, memory and file agree, unreadable files kept, refinement of `AtomicStore` |
| `bus` | 2 publishers with 2 events, 2 subscribers, buffer 1 | no send on a closed channel, no silent loss, publishing and unsubscribing complete without a reading consumer |
| `sim_sessions` | 2 connectors, 2 goroutines, 2 transactions, 1 reservation, connectors made unavailable or faulted | sessions of both sides correspond, but for failed calls and starts that met another start or a session; a session leaves no reservation behind |
| `sim_reports` | 1 connector, 2 goroutines, 1 transaction, a reservation, triggered reports, the heartbeat loop | the CSMS knows the current status unless two reports overlapped or one failed, until the next undisturbed one; `Wait` returns after `Close` or a lost connection |

Why the bounds are enough. The races are between two goroutines (a replaced and a
replacing connection, two publishers, a caller and `deliver`, two commands), so two
of each suffice to produce them; three dials let a replacement be replaced; channels
of capacity one are full after one message; two generations in the file and two that
might return after a power cut need four in all. In `session` the second command can
take the id that the first had on the other connection, and one more status can be
under way on each; a channel of capacity 0 blocks the reader with the first CALL that
waits. In `startup` the files are a good one and every way of spoiling one part of it,
pairs of bind addresses, tokens and durations, and lists of up to three EVSEs and two
connectors with shared values: duplicates need two, and a duplicate of a duplicate
three. Its handler is slow enough, with two reporters, to keep the reader from reading
past a deadline. `sim_reports` leaves changes of
availability to `sim_sessions`: they set and report a status as the others do.

Two runs use a view. That of `sim_sessions` leaves out `told`, `blurred`, the status in
a report under way and the heartbeat loop, which nothing else reads, and keeps of
`lost` and `replaced` what the CSMS still runs, all `NoOrphan` asks for. That of `core`
leaves out which event goes first and `known`, which no action reads either.

Deadlock checking is off where the system may stop: every instance has finitely many
dials, calls, events or ids, and a closed connection or simulator is at its end. The
store never stops, and in `Heartbeat` time only stops where `Stopped` says so; their
runs check for deadlock, which in `startup` shows that no two of the things due can
hold up time for ever.

Violations, where the code and a text of the repository disagree (quoted under
"findings" in `PROJECT.json`):

| run | property | what happens |
|---|---|---|
| `csms_blanked` | `LiveStationOnline` | a connection found itself current and calls `Core.Disconnected` after its successor's `Core.Connected` |
| `csms_shutdown` | `ShutdownLeavesNothing` | a handshake between `Upgrade` and `wg.Add` outlives `Shutdown` |

The cause of the first, calls into the core outside `Server.mu`, has a mirror image:
with impatient stations `NoGhostStation` fails too, since a replaced connection may
call `Core.Connected` after its successor has come and gone. `csms_redial`, and the
proofs, show that redialling before the loss is noticed is the only way there.

Further differences between code and texts, which the models contain and no run is
about:

* `RecordMeterValues` registers an EVSE for connector 0 (`service.go:382`), which
  `config/validate.go:255` reserves for the station as a whole.
* An EVSE first mentioned by a transaction or a reading while the station is faulted
  reads UNKNOWN (`service.go:328`), not the station's status (`status.go:34`).
  `EffectiveIsDerived` leaves such an EVSE out; `UsableOnlyIfReachable` holds for it.
* Two connections of one station may publish in the opposite order of their changes
  (`service.go:226`), and a subscriber is left with the older status.
  `StaleOnlyAfterRace` says that it takes that, and lasts until the next change of the
  EVSE that meets no other.
* Transaction ids start again at 1 in every process (`service.go:114`), although
  `state.go:2` speaks of counters that keep them from being reused: the two are not
  connected yet. Within one process ids are unique (`TransactionIDsUnique`, proved).
* The simulator lets a second ReserveNow replace the first (`handlers.go:100`; the
  comment above it says a held connector cannot be reserved), and a CancelReservation
  for id 0 matches any connector without a reservation (`handlers.go:134`).
* Starts on one connector may overlap, since a remote start checks that it is free
  before its goroutine enters the session (`handlers.go:172`), and a local start does
  not check at all: the session entered first is given up and runs on at the CSMS.
  `NoOrphan` says that this and failed calls are the only ways.
* A remote stop names a transaction when it is answered and stops whatever session the
  connector has when its goroutine comes to it (`handlers.go:207`).
* One heartbeat that is not answered in time ends the simulator's heartbeat loop
  (`simulator.go:393`), while the connection stays open until the watchdog ends it.
* A heartbeat interval below a second is accepted and handed out as 0 seconds
  (`handler.go:102`), on which a station falls back to its own, longer interval and is
  dropped between two heartbeats; `PunctualIsKept` is about intervals from a second.
* A duration that is not a scalar is taken for one that was left out, and defaulted
  (`duration.go:35`), although the comment there leaves it to validation to report it. `LoadedIsUsable`
  holds of the default, so no property notices.
* `max_retries: 0` in the file becomes 5 (`config.go`), since zero is also "not set".
* With impatient stations, CALLs that were queued on a replaced connection may be
  handled after those of its successor, so that the core ends with an older status
  (`conn.go:318`); `conn.go:36` promises the order of one connection only.

## 4. Fairness

Weak fairness, of goroutines that can run: the Go scheduler is fair, and each timed
wait of the code has a timer (`callTimeout`, the write and read deadlines, the
context of `Shutdown`, the settle time). Per module: each serving goroutine and
`Shutdown` (`Csms`); each caller, each loop and the passing of time (`OcppjConn`);
publishers and lock holders, and consumers only once their channel is closed
(`EventBus`); the steps of the simulator's goroutines, the end of a heartbeat
call and of the heartbeat loop, the connection's closing once `done` is closed, and the
end of `Run` on a closed connection (`Simulator`), but neither `Close` itself nor the
heartbeat's ticks. `Session` and `Heartbeat` state safety only; that
`Heartbeat` has a clock makes `SilenceIsNoticed` a bound rather than a promise.
Nothing is asked of stations, peers, networks or of
whoever calls `Close`. Weak fairness of taking the bus's mutex is justified because a
waiting writer keeps new readers out, which the model contains.

## 5. Proofs

All theorems hold for every value of the constants, under the named assumptions of
the modules; they are invariance proofs, one step per action, and one refinement.

* **Core** (`ConfigAssumption`: the configured EVSEs have distinct connectors from 1;
  `InstanceAssumption`, `ReportsAssumption`). `IInv` joins the type, the registry, the
  derived statuses, the transaction ids, `ChangesAddUp` and `ViewInv`. A connection's
  unpublished changes are about its own station and at most one about each EVSE, which
  makes counting them the same as counting connections. `ViewInv` is the strengthening
  behind `StaleOnlyAfterRace`: an EVSE that was not raced has at most one change pending
  over all connections; it leads to the advertised status, and where none is pending
  the subscriber knows it. Nothing is assumed about how many connections serve a
  station.
* **Csms** (`ServesAssumption`). `Inv` is inductive for any pattern of redialling and
  gives `SupersededIsClosed` and `RegistryIsServed`. For patient stations `PatientInv`
  adds that one goroutine at a time is about a station, and ties the online flag to
  where it is.
  `PatientStationOnline` and `NoGhostStation` follow.
* **Session** (`SessionAssumption`, `TrafficAssumption`: a CALLRESULT other than
  GetConfiguration's carries one status). The server's steps are those of `Csms`, so that
  its `PatientInv` carries over (`StepServer`). `Typed` is the type with what is known of a command under
  way. `PipeInv` is behind the two properties of statuses: the numbers in a
  connection's socket, channel and handler are in the order they were sent, only a
  connection that has not stopped has any, and none is older than what the core holds;
  when the handler writes, the other connections of a patient station are at their end
  (`PatientInv` again, here for `Server`), so everything under way is behind it.
  `AnswerInv` is behind `AnswerIsOwn`: an id is used once on a connection; `pending`
  names commands that wait there, by their ids; a frame to the station is that of its
  command, and no other command that waits has its id; an answer with the id of a
  waiting command is what was said to it. A frame may outlive its command, which is
  why the frames and not only the waiting commands have to be told apart.
* **OcppjConn** (`BoundsAssumption`). `TableInv`: calls in progress and pending entries
  correspond one to one, and an entry leads to the call that chose its id. `FlowInv`
  follows an id from the caller through send, writer, wire and peer and back through
  inbox, reader and result channel. Together they give `PendingIsExact` and
  `AnswersMatch`. `OrderInv` is behind `HandledInOrder`: the CALLs handled, in the
  channel, in the reader's hand and in the inbox are those the peer has sent, one after
  the other (`Numbering` counts them through the answers and the noise between them),
  except that a reader that is gone takes no more. With the capacities and the loops'
  frames these three give the type.
* **Store** (`StoreAssumption`). `SyncedInv`: whatever the path names was synced before
  it was renamed. `MemoryInv`: where the file is relative to memory at each step.
  `DurableInv`, where the directory sync works: no file that may come back is older
  than anything reported. A process killed between rename and directory sync starts
  again without syncing, so there may be several such files, and the invariant has to
  allow for it. `StoreImplementsAtomic` maps rename to `Replace`, the return of
  `Update` to `Report` and a power cut before the sync to `TakeBack`.
* **EventBus** (`BusAssumption`). `LockInv`: a loop under way runs over a part of the
  map, and only while its publisher holds the mutex for reading; what is in the map is
  not yet deleted. That the map cannot shrink under a reader is what `NoSendOnClosed`
  needs and does not say. `BusInv` gives the type and the capacity. `LossInv` is behind
  `NoSilentLoss`: for a subscriber without drops, the events of each publisher in its
  channel are numbered from the one after its subscription to the last that was offered
  to it (`Complete`), where a publisher in the middle of its loop has offered its event
  to some subscribers only.
* **Simulator** (`SimulatorAssumption`). `JobInv` says what a goroutine may hold at each
  place of its code: a transaction only between the answer of the CSMS and the
  connector. `HoldInv` gives `HeldIsRunning`: what a connector or a goroutine holds runs
  at the CSMS and has one holder, so that a transaction that changes hands is neither
  copied nor ended on the way. `StartInv` is about the
  starts that are not contested: one goroutine at a time, on a connector without a
  session, so that entering it overwrites nothing; one that is contested may, and then
  `replaced` has what it overwrote. That gives `NoOrphan` for every interleaving.
  `ReportInv` is behind `ToldIsCurrent`: one goroutine at a time is about a connector
  that is not blurred, what it is about to tell is the status, and if the CSMS knows
  another status it still owes the report. A connector heals when a goroutine that is
  alone with it sets out to tell its status, which establishes all three again.
* **Config** (`InputsAssumption`). `CheckInv` carries what each section has found in
  order to the end: the durations after `validateCharger`, the addresses after
  `validateServer`, the debounce after `validateOCPI`, as long as `errs` is empty.
  `ProblemInv` is about the loops: the maps hold exactly the ids of the EVSEs and
  connectors gone through (`SeenInv`, `SeenHere`), and what is reported of those is
  exactly what is wrong with them (`Reported`), so that a file without errors has no
  duplicates. Together they give `LoadedIsUsable` and
  `AllProblemsReported`.
* **Heartbeat** (`HeartbeatAssumption`). `SilenceInv`: silence and the rest of the
  deadline add up to the timeout at most, except while the reader is held up, which
  lasts no longer than the handler is at one CALL; hence `SilenceIsNoticed`. `LineInv`:
  the CALLs in line are those of the callers that wait, each once, and of those that
  have given up, which bounds how much the handler may have to do before it comes to a
  CALL. `MainInv` is behind `PunctualIsKept`. For a file with the margin (`Ample`) and as
  long as the main line goes on, the deadline is further away than whatever lies before
  the next CALL: the rest of the pause and its way (`IdleInTime`), the answer's way back
  and the pause (`AnsweredInTime`), the handlers before it in line, the way back and the
  pause (`WaitingInTime`), the way of a CALL that is sent but not read (`NextInTime`);
  and that the reader cannot be held up until then (`HeldInTime`). It needs that the
  station was told the interval by the time it heartbeats (`Told`).

The invariants that TLC can evaluate were checked on an instance before they were
proved. Every safety property of a passing run is stated by a theorem.

Only model-checked: the liveness properties, which need fairness and `ENABLED`, out of
this prover's reach: `ClosedEnds`, `LossIsNoticed`, `ShutdownReturns` of the server,
`CallReturns` and `CloseEndsRun` of the connection, `PublishReturns` and `UnsubscribeEnds`
of the bus, `WaitReturns` of the simulator. What the bounds of an instance leave open for
them stays open.

## 6. Not modelled

Command line, build information and the test client, which print, parse flags or stand
for the environment; the shared OCPP types, which have no behaviour; the JSON encoding
of frames and of the 1.6 messages; meter conversion; formatting, logging and dates. Of
the configuration, the patterns and lists a text is compared with are two outcomes.
Reading operations (`Snapshot`, `Drops`, `Get`) change nothing and are represented by
the variables they read.

Without a property, and why:

* a reading for connector 0, a retried StartTransaction, two processes on one state
  file: the code makes no promise (see the hazard list);
* `run` subscribes after the server has started (`run.go:100`): a charger that connects
  in between is missing from the log, which is only a log;
* two publishers may reach two subscribers in different orders (`event.go:138`): no
  consumer compares them;
* reservation id 0 in the simulator (`handlers.go:134`): zero is both "none" and an id.

## 7. Plan

Done, in this order: `Core`, `Csms`, `OcppjConn`, `Store` with `AtomicStore`,
`EventBus`, `Simulator`, and the proofs of the first five; then `Config` with
`Heartbeat`, `ChargePoint` with `Session`, and the proofs of `Session`; then the proofs
of the simulator, the configuration and the heartbeat, and those of order, loss and
type of the connection and the bus, with which every safety property is proved.

Next:

1. an abstract specification of the bus (each consumer sees a subsequence, or all of
   it) with `EventBus` shown to implement it;
2. a command against the simulator (reserve, start, stop across an answer that is
   lost), in place of the station of `Session` that answers anything;
3. the start and stop of the process as a composition, once the state file is used.
