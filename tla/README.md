# A TLA+ model of the AeRO proxy

AeRO is a TCP port-mapping service.  A server (`src/server`) listens for clients
(`src/client`) that sit behind a NAT.  A client logs in over a yamux session,
registers its targets as *proxies*, and the server opens a TCP port for each of
them.  A user that connects to such a port is joined, through a *pipe* (another
stream of the session, opened by the client in advance), to the target.  An HTTP
mux offers the same targets by tag or client id and name.

Nearly all of the logic is goroutines that share channels, maps and a `closed`
flag, and that have to come apart cleanly when one end vanishes.  That is what
the modules are about.

## Inventory

| Part | State | Operations | Interacts with |
|---|---|---|---|
| Manager (`server/manager.go`) | `closed`, `sendChan`, `recvChan`, `Proxies`, control stream | `Run`, `RegisterProxy`, `RemoveProxy`, `SendMassage`, `awaitReceive`, `awaitSend`, `Close` | its client by messages; the server by `mgrDone`; users and the API by `SendMassage` |
| Pipe pool (`manager.go`, `server/proxy.go`, `client/agent.go`) | `pipeConnPool`, both ends of each pipe, user connections | `PushPipeConn`, `PopPipeConn`, `handle`, `awaitWork`, `NewPipeConn` | server and client by PipeRequest and ConnRequest |
| Agent (`client/agent.go`) | `closed`, `sendChan`, `recvChan`, `LastBeatTime`, `Started` | `Run`, `RegisterProxy`, `awaitReceive`, `awaitSend`, `Close` | the manager by messages; `Client.Run` when it returns |
| Registry (`server/server.go`, `util/uid.go`) | `Server.managers`, `mgrDone`, `buf8` | `HandleStream`, `genId`, `RegisterManager`, `awaitManagerDone` | managers, pipes, the API and the mux |
| Ports (`netstat/netstat.go`) | `randPool`, the range, the listeners of the host | `randInts`, `FindAvailablePort`, `NewProxy` | all managers at once, other processes |
| Mux (`server/mux.go`) | `tagBalancer` | `selectPort`, `GetRobin`, `update`, the handler | reads the registry and the managers' maps without a mutex |
| Client login loop (`client/client.go`) | session, `ClientId`, try counter | `Run`, `connectServer`, `Login`, `NewPipeConn` | server, agents and `awaitWork`s of successive logins |
| Byte transfer (`util/pipe`, `util/pool`) | two copies per pair, a pool of buffers | `Join`, `GetBuf`, `PutBuf` | both ends of a pipe |
| Framing (`util/message`) | none | `Read`, `Write`, `Get`, `Send` | every stream |
| Log file (`util/zlog`) | `rf.file`, the files in the directory | `Write`, `rotating`, `Close` | every goroutine that logs |
| Latency average, socket tables, flags | see `PROJECT.json` | | |

What is hard in it:

* `Close` of a manager has two callers and `Close` of an agent three; the test of
  the flag and its assignment are separate critical sections, and closing a Go
  channel twice panics;
* blocking sends on bounded channels whose reader may have left;
* a registration, a login, a push into the pool or a port search that is half
  done when the other party closes, disconnects or takes the same resource;
* values that are tested under one lock and used under another (`IsClosed`,
  `genId`, the probe of a port, the port that the mux selected);
* a package-level buffer, maps and a log file that are used without synchronisation;
* goroutines of an old login that read the session and the client id of a later one;
* bytes under way when one direction of a joined pair ends, and reads that return
  less than was asked for.

`PROJECT.json` lists these as hazards, each at its line, with the properties that
would catch it going wrong.

## Modules

`AeroDefs` has what the modules share: the control messages, reduced to the fields
a handler branches on, and the pool size of `NewManager`.

**Manager** is one manager from login to removal.  `pc` says where its goroutines
are: `reg` (`HandleStream` and `RegisterManager`), `run`, `recv`, `send`, and `srv`
(`awaitManagerDone`); `callerPc` does so for outside callers of `SendMassage`.  The
grain is what Go makes atomic: a channel operation, a critical section, a read of
the flag, a read or write of the stream.  So `SendMassage` is a test step and a put
step, `Close` is eight steps, and `RegisterProxy` is a listen step and an insert
step.  A recovered panic ends the call that raised it; one that is not recovered is
recorded in `crash`.  `MapRace` is the fault of the Go runtime when `ListProxies`,
`Info` or `selectPort` read the map without the mutex while `RegisterProxy`,
`RemoveProxy` or `Close` write it.  The client at the other end is taken from
`Login` and `Agent.Run`; besides, it may disable a proxy, which `Run` serves and
this client never asks for.  `inbox` and `outbox` are the two directions of the
stream with flow control: a writer blocks while `NetCap` messages are unread.

**PipePool** is the pool of one client with both ends of every pipe: `user` follows
`proxy.handle`, `stream` follows `HandleStream` and `PushPipeConn`, `work` follows
`awaitWork`, and `asked` counts the requests between the two sides.  The control
stream can end without the session, because `Agent.Close` closes the stream alone.
A stream identity is reused once both ends are closed, which keeps the pipes few.

**PipeBroker** is what a user of the pool relies on: a pipe is free, handed to one
user, or out, and a user has one pipe at a time.  `PipePool!KeepsPromise` says that
`PipePool` implements it, with `Holder` as the refinement mapping.

**Agent** is the client's side of one login: `Run` with its ticker and its select,
`awaitReceive`, `awaitSend`, and the three-way `Close`.  Time is counted in ticks
since the last heartbeat; `Late` translates the comparison of line 85, including the
half interval of grace at the start.

**Registry** is `Server.managers` under concurrent logins.  `RandStr8Base62` is two
steps on the shared buffer, and `genId`'s test and `RegisterManager`'s insertion are
two critical sections.  Ids are numbered in the order of drawing, so that a
collision comes from the race and not from chance.

**Ports** is the search for a port by several managers: `randInts` with its bounded
channel, probes that occupy the port they probe, `NewProxy`'s own listen, and other
processes of the host.  The host may refuse any `net.Listen`, also on a port that nobody
holds (a privileged one, one above 65535, no descriptors left).  `busy` is a history
variable: the ports that somebody else held since the request came, or that were refused
to this caller.

**Mux** is a request to the mux while workers log in, publish, remove and close.
`filterManagers` is one step, the lookups in the managers' maps one step each, the
connection another, the answer a last one.  `idle` has the connections that the HTTP
client behind `proxy.Do` keeps (fiber's client, external): `Dial` takes one of those to
the selected port, which leads to the proxy that once accepted it, or makes a new one,
to whoever listens by now.  The connection may end without an answer (`Break`, with the
retry of the HTTP client), or stay open without one, as `Proxy.handle` leaves it when it
gets no pipe (`NoPipe`).  Here `Close` closes the listener before it deletes the entry,
as the unlocked readers see it.  Two history variables: `steady`, the workers that have
served without a break since the request came, and `stale`, those whose entry the
request has read and that have stopped serving since.

**Client** is the login loop of several client processes and what successive logins
of one process share.  A login names its session, its control stream, its agent and its
manager; `link` says what has become of the session and the stream.  The id (`key`) is
any that is not in `Server.managers` when `genId` tests it, and the insertion is a later
step, so that two logins may get one id.  `Agent.Close`, by whichever goroutine, sets the
flag (`CloseFlag`) and then closes the stream (`CloseConn`), and `Agent.Run` may return in
between; the session is left open.  `pipe` follows one `awaitWork` from its
start through `NewPipeConn` and `HandleStream` into a pool: it reads `Client.session`
and `Client.ClientId` in separate steps, whatever login they belong to by then.
`ProxiesFault` is the fault of the Go runtime when the `RegisterProxy` of a new agent
writes the map that an old `awaitWork` reads.  The server is `HandleStream`,
`RegisterManager` and `awaitManagerDone`, which deletes by id, without what `Registry` is
about (the shared buffer that ids are drawn in) and what `Manager` is about (how `Run` ends).

**Stream** is one user connection byte by byte: user, `proxy.handle`, the pipe,
`awaitWork` and target, with three connections and two joints.  `wire` has the bytes
under way; `ReadHead`, `ReadBody` and `Swallow` are `message.Read`, whose first read
may return one byte instead of two (what follows then is taken for a huge length, and
swallowed); `GetBuf`, `CopyRead`, `CopyWrite`, `CopyEnd` and `CloseTo` are the body of
`pipe` and its deferred calls, and `free`, `buf`, `cell` are the shared buffers.
Applications may send, close and (the user) shut down the writing side at any time.

**RotatingFile** is the log file.  zerolog calls `Write` from every goroutine and
nothing serialises the calls, so each system call and each read of `rf.file` is a
step.  `name` is the directory, `content` the files, `handle` the open files of the
process; `Restart` ends the process at any step and opens the log again.  `overlap`
is a history variable: two calls have been rotating at the same time.  Its
specification, type invariant and the like are called `LogSpec`, `LogTypeOK`, ..., since
one module has the proofs of `Ports` and `RotatingFile`, which share no state.

`MC*` modules instantiate these for TLC.  `ManagerProofs`, `ClientProofs`,
`RegistryProofs`, `AgentProofs`, `PipePoolProofs`, `MuxProofs` and `StreamProofs` extend the
module they are named after and hold the theorems about it; `HostProofs` has those about
what the server takes from its host, `Ports` and `RotatingFile`.

## Runs

`CHECK_DEADLOCK FALSE` is used throughout: a manager, an agent, a connection or a
request ends, or the bound on logins or lines is used up, and then nothing of the
model moves.

Passing runs:

| Run | Shows | Bounds |
|---|---|---|
| `manager` | capacities respected; no channel closed twice; map and listeners in step; a manager leaves the registry only closed; a client that is gone is reaped, or the deadlock of a backlog is reached | 2 names, 2 ports, 1 caller, channels and stream of 1 message, a pool of 2, 2 client messages |
| `pipepool` | every waiter has a pipe coming; each open pipe is in one place; traffic is not mixed up; PipeBroker is implemented | 2 users, 3 streams, pool size 1 (2 places) |
| `agent` | loss and silence are detected; nothing is left behind; the client can crash only after the connection is lost | 1 name, channels of 2, 1 server request |
| `registry` | without a collision, live clients are found; a manager that was inserted leaves the map for good when its `Run` has ended | 3 logins, 3 ids, `mgrDone` of 1 |
| `ports` | no probe leaks; a requested port is given up only if it was held or refused; a forced range is left only after a port that can be drawn was held or refused; searches end | 2 managers, range 1..3 forced, requests for 2 and for 4 (outside), refusals on any port, 1 foreign process |
| `mux` | no false 404; no misrouting except over a port that changed hands after it was read, or over a kept connection | 3 workers, 2 of them with the tag, 1 port, 1 request at a time, any number of them in turn |
| `client` | a pipe reaches the pool of another client only if the server gave one id to both; one of the current login uses its session and its id; a process has one control stream, and those that an agent is about to close | 2 processes, 3 logins, 2 ids, 1 `awaitWork` at a time |
| `stream` | each side gets a prefix of what the other sent; all of it until somebody ends the connection; a close at one end takes everything down | 2 bytes there, 1 back, a length of 1 byte, 5 bytes of window, 2 buffers per process |
| `rotate` | unless rotations overlap, the files hold the latest lines in order, only the oldest backup is given up, and a file outgrows the limit by a line per other goroutine at most | 2 goroutines, lines of 1 or 2, files of 3, 2 backups, 4 lines, 1 restart |

The capacities (10 in the code) are taken as 1 or 2: full channels and blocked
writers are then reached within a few steps, which is where the trouble is.  Two
names and two ports are needed for a port to serve two names wrongly; two users and
three streams for a pipe to be refused by a full pool while another is popped; three
logins for two managers to wait on `mgrDone` while a third is being handled, and for
a pipe of a process to meet an older and a newer login of that process, or a login of
another one; two ids for three logins, so that some id is given twice, at once or after
it was deleted; three workers on one port, two with the tag, for a port to pass to a worker
of the same or of another tag while a connection to its former owner is kept, and for a
request by tag to have two to choose from and one to leave out; two bytes for an order to be visible, and a window of a frame and one
byte, for bytes to follow a frame that is not read yet and for the server to block
behind it; four lines of length 2 for the
oldest of two backups to be given up.
`TypeOK` includes the capacities, so that it is not only about types.

Runs that show a disagreement between the code and what the repository says of it:

| Run | What the code does |
|---|---|
| `manager_login` | `Run` is started before the LoginResponse is written; a PipeRequest may come first, and `Login` then fails with "invalid login response" |
| `manager_backlog` | `awaitSend` leaves on a failed write without closing anything; with a backlog, `Run` and `awaitReceive` block for ever and the manager stays |
| `registry_ids` | two concurrent logins are told the same client id |

`manager_backlog` refutes `GoneIsReaped`.  `manager` checks `ReapedUnlessBacklogged`, which
has the deadlock of `manager_backlog` as its one exception: with a pool of two, the
bounds of `manager` reach that deadlock, and the run shows that there is no other.
On the other hand `SilenceDetected` holds because `sendChan` has room for
the answers to the requests that the server left behind.

More of this kind is stated by properties that hold, as their exceptions, with a
comment at each:

* `Manager!ListenersOwned` is about a manager that is open: `Close` between `NewProxy`
  and the insertion into the map leaves a listener that nobody closes.
* `PipePool!PipesAccounted` excepts pipes of a closed pool: `Close` closes the channel
  and none of the pipes in it, and a push that meets the closed channel reports
  success.  They stay open as long as the session.
* `Agent!CrashOnlyAfterLoss`: once the connection is lost, two goroutines may pass the
  test of `Agent.Close`, or `Run` sends on the closed channel, and the client ends
  instead of logging in again.
* `Registry!LeavesForGood` is about managers that were inserted before their `Run` ended;
  one that is inserted afterwards stays in the map.
* `Ports!RequestKept` and `RangeLeftOnlyIfBusy` except ports that `net.Listen` refused:
  the search takes any error for a port in use, and one that ends with nothing leaves the
  forced range.
* `Mux!Routed` excepts a worker that has stopped serving since its entry was read, and
  connections that the HTTP client has kept: the former owner of a port may answer a
  request for the present one.  A request need not be answered at all (`NoPipe`).
* `Client!PipesHome` goes by ids: if the server gave one id to two clients
  (`registry_ids`), a pipe of one may end in the pool of the other.
* `Client!OneStream` excepts a stream that another goroutine is about to close: `Agent.Run`
  may have returned, and the process logged in again, before `Agent.Close` gets to it.
* `Client!PipesStraight` is about the current login: a pipe of an older one may combine
  the session of one login with the id of another.
* `Stream!Delivered` excepts a user that shuts down its writing side: the copy that ends
  closes both connections, and the answer of the target may be lost.  It also excepts
  a header that came in two pieces, after which the connection hangs until it is closed.
* `RotatingFile!OldestFirst` and `OnlyOldestLost` except rotations that overlap: the second
  renames an almost empty log over the backup that the first has just made.
  `SizeBound` excepts them too.  The two goroutines of the run keep it even then; the
  proof does not go through for three, and TLC finds the behaviour with other constants
  (three writers, lines of 2, files of 3, one backup, five lines): one
  that is late to open the log opens the full file again that another has just closed,
  and a third has skipped the test because its `Stat` met the closed file.

### Fairness

Goroutines that can take a step eventually do (the Go scheduler): weak fairness for
each goroutine.  Nothing is assumed of clients, users, the network or HTTP requests,
except that in `Agent` the ticker ticks (it is part of `Run`).  In
`Stream` it is one weak fairness condition for all goroutines of the two processes:
the bytes are finite, so that each of them comes to its turn.  `Client`, `Mux` and
`RotatingFile` state no liveness and assume none.  Strong fairness is
used in two places, both for goroutines that compete on one channel: `RunNotify` of
`Registry` and `Search` of `Ports`.  Go serves the waiters of a channel in turn.

## Proofs

Each theorem holds for every value of the constants that the assumption of its module
admits.  The assumptions say that capacities and bounds are positive numbers, that the
placeholder values (`None` and the like) are not members of the sets they stand apart
from, that a port range is not empty, that the window takes a ConnRequest and that the
users and streams of one `PipePool` are finite in number.  TLC evaluates them in the
runs.  All inductive invariants below were checked by TLC on the instances of the runs
before they were proved (`OwnInv` of `ManagerProofs` with one message more).

`ManagerProofs`:

* `TypeCorrect` (`TypeOK`).  Not inductive: a step that takes
  the message in hand apart needs to know that there is one.  `HandsOK` adds what
  each goroutine holds at each label; `TypeInv` is their conjunction.
* `NeverClosedTwice` (`NoDoubleClose`).  Nothing
  makes the test and the assignment in `Close` one step; what saves the manager is
  an order in time that is spread over three goroutines.  `awaitManagerDone` calls
  `Close` only for a manager whose `Run` has ended, `Run` ends only if it found the
  flag set or `recvChan` closed, and both are the work of `awaitReceive`, which is
  past its test by then.  `CloseInv` writes this down as one implication per label
  of the two closers and of `Run`.
* `RemovedOnlyClosed` (the action property `RemovedOnlyIfClosed`), from `CloseInv`.
* `AdvertisedPortsListen` (`ProxiesListen`).  `PortInv` adds that the port
  in hand is listened on and not in the map, so that inserting it keeps the map
  injective, and closing it takes no other name's listener.
* `NoListenerForgotten` (`ListenersOwned`).  `RegisterProxy` overwrites the entry of its
  name without looking; that no listener is forgotten there rests on the client, which
  switches a name on and off in turn, and on the order being kept on the way.
  `OrderInv` says it of the requests for a name in `inbox`, the hand of
  `awaitReceive` and `recvBuf`, taken as one line: between any two times that
  the name is switched on (at the manager, by a request on the way, or by the client
  yet to come) there is a request that switches it off.

`ClientProofs`, from `ClientAssumption`:

* `TypeCorrect` and `PipesComeHome` (`PipesHome`).  `OwnInv`: whatever login an
  `awaitWork` has got hold of was made by its own process, and the id it has read is one
  of those that this process was given (`IdOwned`, `PipeOwned`).  `KeyOK` ties an entry of
  `Server.managers` to the id of the manager in it, whichever logins share the id.
* `PipesGoStraight` (`PipesStraight`).  `StraightInv`: once a process has its id, session
  and id are of one login, and an `awaitWork` of the current login has seen no other.
* `OneStreamOpen` (`OneStream`), with the owners of the streams that are open and, in
  `AgentKept`, that a login which was answered has its agent until the stream is closed.

`HostProofs`, for `Ports` and from `PortsAssumption`: `TypeCorrect`, `NoLeak` (`NoListenerLeft`),
`RequestsKept` (`RequestKept`) and `RangesLeftOnlyIfBusy` (`RangeLeftOnlyIfBusy`), all from one
`PortsInv`.  `BusyCovers` says that the record of a caller has every port that somebody
else holds at this moment, and `SearchKept` how the port in hand and that record relate
to the port of the request at each label of the search; `RangeKept` says that a search
under a forced range has turns left, or has a port that can be drawn in its record.

`HostProofs`, for `RotatingFile` and from `RotatingFileAssumption`, for every number of
goroutines, backups, bytes and restarts:

* `LogTypeCorrect` (`LogTypeOK`), also for rotations that overlap.  `LogTypeInv` adds that
  a call in a rotation has backups to go through and the loop variable within them.
* `LosesOnlyOldest` (the action property `OnlyOldestLost`), from `RotatesInv`: no file has
  two names, and as long as no two rotations have overlapped, at most one call rotates,
  the only open handle is `rf.file` and is the log, none is open while the log is
  renamed, and the name that the next rename goes to is free unless it is the oldest.
* `LatestLinesInOrder` (`OldestFirst`).  Inductive on top of `RotatesInv`: a late writer
  either has a closed handle or appends to the log, a rename moves a file between the same
  neighbours, and what it overwrites is older than all that stays.
* `FilesStaySmall` (`SizeBound`).  The bound alone is not inductive.  `DueFit` looks at the
  goroutines that will write to the open file without another `Stat` (`Due`): the line of
  one of them, and the longest line for each other, still fit under `SizeLimit`.
  The size of a file is a fold over its lines; what an append adds to it
  (`TotalAppend`) is an induction, done with a set of numbers in the place of the
  predicate (`Induction`, from the least element of its complement).

`RegistryProofs`, from `RegistryAssumption`: `TypeCorrect`, and `LiveAreFound`
(`LiveFound`).  `RegistryInv` adds what a login has in hand at each label, and that the
managers in `mgrDone` are ones whose `Run` has ended: the entry that
`awaitManagerDone` deletes is then, without a collision, not a live manager's.

`AgentProofs`, from `AgentAssumption`: `TypeCorrect`, and `CrashesOnlyAfterLoss`
(`CrashOnlyAfterLoss`).  `SoleCloser`: while the server is connected, the flag and
the two channels are exactly as far closed as `Run` has come, and the other two
goroutines, if they come to `Close` at all, find the flag set.

`PipePoolProofs`, from `PipePoolAssumption` (finite `Users` and `Pipes`, as users are
counted):

* `TypeCorrect`; `EveryPipeAccounted` (`PipesAccounted`), `TrafficMatches`
  (`PipesMatch`).  `PlaceInv`: an open pipe is in exactly one place, nobody else's, and
  carries no request before a user has popped it; `JobsOK` and `DownInOrder` add what
  the client has read and the order in which a session is taken down.
* `WaitersAreCovered` (`WaitersCovered`), a count of the waiting users against the pipes
  that are pooled, coming, or asked for, kept by each step.
* `ImplementsBroker` (`KeepsPromise`): the initial states of `PipePool` map to initial
  states of `PipeBroker`, and each step to a step of it or to none.

`MuxProofs`, from `MuxAssumption`: `TypeCorrect` with the lemma `Listing` (a range over a
map gives each key once, by the pigeonhole principle), `NoServingWorkerOverlooked`
(`NoFalse404`) and `RequestsReachTheirWorker` (`Routed`).  `RouteInv` has one implication
for each phase of a request: a worker that has served since the request came is among
the keys that are still to be looked at, or has been found; an entry that was read is
still the worker's, or the worker is in `stale`, so that a connection made for the request
leads to it.  `StaleServe` says that a worker the request relies on serves or is in `stale`.

`StreamProofs`, from `StreamAssumption`, for every number of bytes, every size of the
length field and every window that takes a frame and more:

* `TypeCorrect`.  `TypeInv` adds that a joint copies only after its request has gone
  by, that the pipe holds nothing once the session is lost, and that the two copies of a
  joint have different buffers, both out of the pool.
* `OnlyPrefixesArrive` (`Prefixes`).  `Flow(d)` numbers the bytes of a direction from
  the end that gets them: those arrived, the one that the last copy holds, those in the
  pipe behind what is left of the ConnRequest, the one that the first copy holds, those
  before it.  What is behind a place where bytes may have been dropped (a closed end, a
  copy that has ended, a lost session, a header that came apart) never comes through, so
  that nothing need be said of it: this is what `Open1`, `Open2` and `Open3` are for.
  Each kind of step is a lemma on `FlowOK` alone; all others only let bytes fade.

Only model-checked:

* the liveness properties (`ReapedUnlessBacklogged`, `LossDetected`, `Released`, `SilenceDetected`,
  `LeavesForGood`, `SearchEnds`, `Delivered`, `TornDown`): the prover has no
  rule for fairness;
* the runs that show a disagreement, where there is nothing to prove.

## Not modelled

Times and latencies of heartbeats and their average (floating point, display only);
the delays between login attempts; the JSON of messages; the HTTP exchange itself and
host names; flag parsing; the format of log lines.  The compression wrapper of
`util/pipe` and the snappy pools are used by nothing in the program.  The socket
tables of `netstat` serve a separate command that prints them: they keep no state, and
what they compute is the text of `/proc`, or the answer of a Windows system call,
parsed.  `FindOneAvailablePort` is used by that command alone.  A chance collision of
two random ids out of 62^8 is left out of `Registry`; in `Client` ids collide freely.

Messages are atomic in `Manager`, `PipePool` and `Agent`, where a control stream or a
pipe carries whole messages; `Stream` is where a frame comes apart.  `Agent` and
`PipePool` are about one login, and `Client` about what several share.

## Plan

Every safety property of a passing run, invariant or action property, is stated by a
theorem; what is left to TLC is liveness.

Left to check: a run on the round robin that the mux promises (`README.md:73` of the
repository) and `GetRobin` does not keep.
