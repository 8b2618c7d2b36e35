# squish in TLA+

Specifications of the squish remote shell (`sqshd`, the server, and `sqsh`, its
client), written from the Rust sources, with TLC runs on small instances and
TLAPS proofs about each component. Paths below are relative to
`src/`.

## 1. The system

squish is ssh over QUIC. A client opens one QUIC connection; its first
bidirectional stream is the *control stream* (hello, challenge, response,
forward requests, keep-alives), every further stream is a *channel* (a session,
a forwarded TCP connection). All programs are async Rust on tokio: a component
is a set of tasks that interleave at every `await`.

| Component | State it keeps | Operations | Hard behaviour | What makes it correct |
|---|---|---|---|---|
| accept loop, `sqshd/src/listener.rs` | semaphore of `max_connections` permits, the incoming connection it holds | accept, wait for a permit, spawn, permit back | a task ends on a dozen paths; the loop blocks while permits are taken | permits balance; every dial is admitted once connections close |
| authentication, `sqshd/src/connection.rs` `authenticate` | claimed user, authorized keys read at the hello, nonce | read hello, challenge, read response, refuse | any message at any time, peer leaves half-way, key file changes | only a holder of a listed key that signed this nonce gets in |
| connection loop, `connection.rs` `handle`, `dispatch_channel` | channel limiter, map of forward tasks | accept stream, refuse, control messages, end | two event sources in one `select!`, replies that cannot be sent | permits balance, refused only at the limit, everything answered |
| remote forwards, `sqshd/src/channel/forward.rs` | listener tasks and their sockets, relays | bind, accept, relay, abort | request, cancel and end of a task in any order; sockets shared between connections | no listener a cancel cannot reach; peer and server agree |
| session channels, `sqshd/src/channel/session.rs` | PTY or pipes, child, exit status | requests, pump, reap, report | one task pumps both directions, exit races output, child blocks | output complete and in order, status reported, child reaped |
| client connection, `sqsh/src/connection.rs`, `bootstrap/ssh.rs` | attempt number, key | connect, authenticate, install the key over ssh and retry once | errors that must not be retried, timeouts | client and server agree on the outcome |
| client session, `sqsh/src/channel/session.rs` | stdin loop, stdout task, exit status | open, request, pump, finish | two tasks, one stream, replies skipped unread | the status the server reports is returned |
| ControlMaster, `sqsh/src/control.rs` | socket file, one connection shared by clients, forwards | become master, relay clients, share forwards, idle timeout | clients race for the socket file; stale files; shared replies | a client that is served is not cut off; replies reach who asked; runs return |
| forwarded connections, `sqsh/src/channel/forward.rs`, `sqshd/src/channel/forward.rs` | two pumps, a stream, two sockets | open, route, connect, pump | two directions in one loop; frames whose reading is cancelled | a pipe in each direction until a side closes; the right target; no half-open relay |
| framing, `sqsh-core/src/proto/codec.rs`, `transport/framing.rs` | a partial frame | read, write | reads cancelled by `select!`, size limits that differ | a reader sees the frames that were written |
| known hosts, `sqsh/src/known_hosts.rs` | one file | load, check, add | concurrent read-modify-write, a file rewritten in place | sqsh refuses only a host that changed |
| host identity, `sqshd/src/keys.rs` | key and certificate files | load or generate | a crash between two writes; the service and `--emit-fingerprint` at once | one identity, the one whose fingerprint was printed |
| bootstrap, `sqsh/src/bootstrap/` | the remote host, the pin | detect, download, verify, install, start, fetch and pin the fingerprint | steps fail half-way and are run again next to a running service | a run that is done leaves what it was to install, running |
| configuration and targets, `sqsh/src/config.rs`, `target.rs` | the file, the options, what was found so far | parse, match hosts, resolve, spawn a master | precedence; a second program resolves what the first resolved | documented precedence; the master dials the same destination |
| file transfer, key generation, server configuration | files, arguments | command lines, one library call after the other | – | – |

They interact through messages on QUIC streams (client and server), a shared
semaphore (accept loop and tasks), spawned tasks that outlive their parent
(connection loop, listeners, channels: each holds a handle of the connection,
which closes with the last one), the host's sockets, and files
(`authorized_keys`, `/tmp/sqsh-authorized-key`, the host's key and certificate,
the client's known hosts, `~/.ssh/config`).

`PROJECT.json` lists the components with their status, the hazards at their
lines and the properties that cover them.

## 2. Modules

| Module | Models | Instances |
|---|---|---|
| `Handshake` | `listener.rs` `run`, `connection.rs` `authenticate`, client `connect` with its retry | `MCHandshake` |
| `Connection` | `connection.rs` `handle` and `dispatch_channel`, `run_remote_forward` and its relays | `MCConnection` |
| `Session` | both ends of one session channel and the child | `MCSession` |
| `ControlMaster` | `control.rs`: runs of sqsh that share a control path, masters, their handlers | `MCControlMaster` |
| `Relay` | abstract: what a forwarded TCP connection promises its two applications | by `Tunnel` |
| `Tunnel` | one forwarded connection: opening, routing, both `pump`s, stream and sockets | `MCTunnel` |
| `HostIdentity` | `keys.rs` `load_or_generate_tls_identity`, file access by file access | by `Bootstrap` |
| `KnownHosts` | `known_hosts.rs`: load, verify, pin, save | by `Bootstrap` |
| `Bootstrap` | `sqsh-bootstrap`, the host and its service manager; composes `HostIdentity` and `KnownHosts` | `MCBootstrap` |
| `SshConfig` | `config.rs`, `target.rs`, and what `spawn_master` passes on | `MCSshConfig` |
| `Handshake_proofs`, `Connection_proofs`, `Session_proofs`, `Tunnel_proofs`, `HostIdentity_proofs`, `Bootstrap_proofs`, `SshConfig_proofs`, `ControlMaster_proofs` | theorems (section 4) | – |

Conventions. One action per handler or step, named for it; a comment gives the
code it is when the name does not. Sequences are FIFO streams. An await at
which another task can run is a boundary between two actions; code between two
awaits is one action. A definition after a comment "Faulty variant" is not part
of any specification: it is the same definition with a plausible mistake, kept
to show that the property named in `PROJECT.json` notices it.

### Handshake

A connection is `<<peer, attempt>>`. `srv[k]` is the position of its server
task: `tls` (`incoming.await`), `hello` and `response` (the two reads of
`authenticate`), `main` (the loop of `handle`), `over`, or `denied` if
`AuthResult(Failure)` was sent. `cl[p]` is the position of the dialling program:
a sqsh client (`Clients`) or a program that speaks the framing and sends any
message in any order (`Strangers`), bound only by the seed it holds: it can
sign a nonce only after receiving it.

* `Accept`, `Admit`, `TlsUp`, `TlsFails` are the accept loop; `TaskEnds` is the
  return of `handle`, the drop of the connection and of the permit in that
  order; every refusal goes through it.
* `ReadHello`/`RefuseHello`, `ReadResponse`/`RefuseResponse` are `authenticate`,
  split at its reads. The key file is read at the hello into `snap`, used at
  the response.
* Who drops its last handle closes the connection and reads no more, and any
  prefix of what it sent arrives (`PeerDrops`, `ServerDrops`): quinn does not
  flush streams of a connection that is closed. `LinkLost` is the idle timeout.
* `Upload`, `Install`, `SshFails` are the three outcomes of
  `install_key_via_ssh`, through the shared path `/tmp/sqsh-authorized-key`.

Abstracted: a nonce is the connection it was drawn for (32 random bytes never
repeat), a signature is the record of its key and payload (ML-DSA is not
forged), the certificate fingerprint of the payload is one constant of the
server, a key file is whether its mode and owner are safe and the set of its
keys. An upload, and the command that restricts the mode of the key file and
appends the key, take effect at once or not at all; the command fails on a key
file of another owner. A `MaxConnections` of 0 is allowed as in the code: nobody is admitted.

### Connection

`loop`, `ctl`, `rep` and `fwd` are the loop of `handle`, its control stream
and `forward_tasks`; `task[c][i]` is the listener task in slot `i` (a task is
more than its map entry: an aborted task lives on until it is polled, one that
failed to bind leaves its entry). `chan` and `permits` are the channel streams
and the limiter. `HandleDropped` closes the QUIC connection with its last
handle. Two binds may name one socket (`localhost` and `127.0.0.1`): the map is
keyed by the pair of the request, the kernel by the socket. The peer waits for
the reply to a request before its next message, as `connect_direct` does; it
may also cancel, which the protocol has and no client of this repository uses.

Control messages are read in the `select!` that accepts streams, by two awaits
(`read_message`): a stream that is accepted in between drops the command that
was half read (`RecvCancelled`), and `cut[c]` says that what follows on the
control stream is misread. `Swallow` is the wait for as many bytes as a payload
read as a length asks for, `Misread` a length that is too large or bytes that do
not decode; a misread that decodes as some other command is left out. A peer
whose request was cut waits for its reply, for ever if nothing else ends the
connection; the model lets it go on, which is more. A stream whose peer sends no
`Open` (`ask` is `silent`) holds its permit while the connection lasts:
`dispatch_channel` has no timeout.

### Session

Both ends of a session, with the client's two tasks, the server's one, and the
child. Data is counted in chunks. The stream holds `NetCap` messages in each
direction, PTY and pipes `BufCap` chunks, and whoever meets a full one waits:
the server's pumps wait *inside* one branch of their `select!` (`sending`,
`writing`) and serve nothing else meanwhile. Control messages are not limited
by `NetCap` (they are a few bytes, the window is counted in data). The child is
a program that writes and exits (`source`) or one that writes what it reads and
exits at the end of its input (`filter`); either may close its output and run on
(`ChildClosesOutput`). Left out: terminal echo, the text of a subsystem's stderr,
env, window-size and signal requests, and other processes that hold the child's
output open after it has exited.

Both pumps read messages in their `select!`, by two awaits. `mid` says that the
head of a message was consumed (`RecvHead`); a branch that wins then, for output,
for the child's exit, or for stderr and wake-ups without an effect here
(`OtherBranch`), drops that message (`Dropped`), and `cut` says that the rest of
the stream is misread (`Swallow`, `Misread`, as in `Connection`). Before the child
is started messages are read one by one and nothing is dropped.

### ControlMaster

`file` is the control path: the master whose socket it names, a stale socket, or
nothing. `sl[s]` is the position of a run in `run_via_master_or_spawn`, `ms[m]`
that of a master in `run_master` and `serve_master`, `hd[k]` that of the handler
of a local connection in `handle_master_client`. A run makes up to two local
connections: the probe of `wait_for_master`, dropped at once, which the master
counts and serves like any other, and the one it asks on; a connection waits in
the backlog until the loop accepts it, and is cut off if the process ends first.
A run can start one master, which is named for it.

* `Refused` and `RemoveStale` are two steps: what is removed is what is at the
  path by then. `Prepare` and `Bind` are two steps of a master, and so are
  `IdleTimeout` (the connection is closed) and `RemoveSocket`; other processes
  act in between. The `lstat` and the `unlink` of one removal are one step; a file
that goes away between the two is not an error there.
* `active[m]` is `active_clients`, changed by `AcceptClient` and `ClientDone`.
* `lock`, `req`, `rep` and `specs` are the mutex of the control stream, the
  stream in both directions and the shared forwards. `LockAndSend` to
  `Confirmed`/`Denied`/`ReplyLost` is one critical section. `ServerAnswers` is
  what `Connection` models in full; the limit on forwards is not reached here.

A relayed session is one state: it ends when either side does. Left out: more
than one `-R` for a run, and `-L` listeners, which the handler starts and nobody
stops before the process ends.

### Tunnel and Relay

`Relay` is the promise: two counters for each direction, an application is told
of the end only after one of the two closed its side or something failed.
`Tunnel` is the code between the applications. `pc[e]` is where the task of end
`e` is: `select` (the `select!` of `pump`), `send` and `write` (it holds a chunk
and waits to get rid of it, and does nothing else meanwhile), `closing` (it
waits to send `Eof`), `ended`. `tin` and
`tout` are the socket buffers, `net` the frames of data on the stream. `mid[e]`
says that `read_message` has consumed the length of a frame and waits for the
rest; if `ReadTcp` wins then, that frame is lost. `lost[e]` counts the frames
that pump `e` lost in this way, and once it has lost one it is `Misaligned`: what
follows is swallowed too, as long as bytes of a payload read as a length ask for
it (`Swallow`), until the pump ends with an error (`Misread`) or the stream does.
`Route` looks the forward up by its port among those the
client has by then, as `handle_remote_forward_stream` does. `AppShuts` is a half
close, `AppLeaves` a close of both directions; a closed socket with unread data
is reset by the kernel and may lose what it still had to deliver (`Ends_`).

A chunk is one frame, and frames are not told apart. A misread that happens to
decode as a frame is left out.

### HostIdentity, KnownHosts and Bootstrap

`HostIdentity` is what `load_or_generate_tls_identity` does to the two files:
the certificate is truncated and written (`OpenCert`, `FillCert`), the key file
created and written (`CreateKey`, `FillKey`); a process may stop between any
two. An identity stands for a key and the certificate made for it. A server
uses a pair only if it fits (rustls checks it); `--emit-fingerprint` does not
look. `KnownHosts` loads, decides, truncates and writes.

`Bootstrap` has one action per command of `bootstrap_target` in its order (`pc`
is the next one); `Fails` may end a run anywhere, `Begin` starts the next one on
whatever the last one left. `ServiceStarts`, `HostWorks` and `ProcessDies` are
the host; `Fetch` is a process of `HostIdentity` beside the service; `Connects`
is sqsh, which checks the service's certificate against the pins bootstrap
writes. Downloaded assets are numbered by their release, one number is no
release; `Verified` compares what the code compares. Left out: which platform
the host is, `--squishd-version`, and the script that lists the client's key
(one step; `Handshake` has its concurrent runs). `InstallBinary` puts the whole
binary in place or fails; one that was written in part, or an `sqshd` that came
to the host in another way, would be taken as installed by the next `Detect`.
The service manager starts the service and starts it again when it dies; a port
that is in use, and a stop by the administrator, are left out. Two programs that
write known hosts at the same time leave what one of them wrote, never a mixture
of both.

### SshConfig

A run parses its target, then its `~/.ssh/config` line by line (`next`,
`active`, `found`), then resolves; a run with ControlPersist may `Spawn` the
master, a run of the same program with options of the first one's results. A
text is a sequence of `Chars`, so matching, numbers and their printing are done
and not assumed. Left out are quotes and comments of a line, empty
options (an empty persist time means forever), signs before numbers, numbers
beyond 64 bits, and the home directory. `Spawn` stands for a run that asked no
master in vain (`ControlMaster` has that part). The port of the ssh fallback is
no option of a spawned master, whose fallback uses port 22; it is left out.

## 3. Runs

`tlc -config <cfg> <module>`. Deadlock is not checked: every one of these
systems may stop (all programs finished, all streams closed).

| Run | Configuration | Shows |
|---|---|---|
| `handshake` | 3 clients of one account (one with its own key, one outdated), a stranger that holds the key of the others, 1 permit, one first connection lossy; key file with and without the keys, safe and unsafe | `TypeOK`, `PermitsBalance`, `AuthenticatedPeer`, `OutcomeAgreement`, `InstallsOwnKeys` |
| `handshake_live` | a client and a stranger that need not leave, 1 permit | `ConnectReturns`, `ClosedConnectionEnds`, `EveryDialAdmitted` |
| `connection` | one connection whose peer uses 3 binds (2 of one socket) for 2 forwards, or 2 streams for 1 channel permit (1 next to a relay), a forward and a bind that is not allowed; 2 messages under way, any of which may be cut | `TypeOK`, `ChannelPermitsBalance`, `NoOrphanListener`, `PeerViewAgrees`, `CancelReleasesSocket`, `EveryRequestAnswered`, `EveryStreamAnswered` |
| `session` | all requests and programs, lost connections, failing opens, spawns and writes, more input than the buffers hold, messages cut | `TypeOK`, `NothingLostBeforeTheEnd`, `SubsystemDrained`, `SkippedMessagesAreReplies`, `NoOrphanChild`, `SessionEnds` |
| `master` | 2 runs (one with `-N`), the background master of one and a master started by hand, a bind that is allowed and one that is not; one master may be killed or lose its connection | `TypeOK`, `IdleMasterCutsNobody`, `AnswerIsOwn`, `ForwardRouted`, `RunReturns`, `MasterIdlesOut` |
| `tunnel` | both kinds of forward, 3 remote forwards (2 of one port), streams of 2 frames, buffers of 1 chunk; 3 chunks up and 1 back, all frames in pieces; connects fail, the connection may be lost | `TypeOK`, `NothingLost`, `RoutedToItsTarget`, `RelaySpec` (the refinement), `UploadArrives`, `RelayEnds` |
| `bootstrap` | root; 2 runs, 2 ports, 2 releases, 1 process killed, 5 identities; every command may fail, downloads may be forged | `OneIdentity`, `RefusedOnlyIfBroken`, `DoneMeansReady`, `ServiceComesUp` |
| `config` | every file of up to 3 lines of 22, 6 targets, 4 lists of options | `MatchesAsDocumented`, `FirstMatchWins`, `MasterDialsSameDestination` |

Bounds. One permit and four peers make every peer wait for every other; two
attempts are all the code makes. Two current clients of one account meet every
mix of uploads and commands at the path in /tmp. Two binds of one socket and a third are what
it takes for the map, the kernel and the limit of two forwards to disagree;
a task has a slot until it is gone, the aborted one too, and with as many slots
as forwards a new task starts next to an aborted one while the other slot is
free, and otherwise waits (the code has no slots). Two streams for one permit reach the limit and leave it
again. The two ways to use a connection (many forwards, or many streams) are the
two cases of `EitherSpec` in `MCConnection`; the first theorems of section 4 do
not depend on it. Two masters and two runs are what it takes for one master to remove the
socket of another while a client connects; one allowed bind that both runs may
ask for, and one that is not allowed, make replies of both kinds follow each
other on one control stream. Buffers of one or two elements put every writer of a session in front of
a full one; three chunks up and one back fill a socket, a pump and a stream of a
tunnel while data comes from the other side, which can cut either direction; one
of the two pumps then always finds room (why a stream there holds two), and two
of the three forwards share the port by which the client looks them up. A second run of bootstrap with another
port meets everything the first left, after any of its steps; five identities
are more than two runs, a service and a crash can make. Three lines are a `Host`
line, a line before and one after it, or two `Host` lines and a value between
them. `MaxQueue`, `MaxTasks`, `MaxRelays`, `MaxStreams`, `MaxIn` and
`MaxOut` are bounds of the models; the other numbers are limits of the code.

Fairness. Tokio polls every ready task, and `select!` chooses at random among
ready branches, hence weak fairness of a task's steps and, in the connection
loop, of its branches (`Control`, `AcceptStream`, `LoopEnds`) separately. A
client program goes on and quinn ends a dial that gets no answer
(`DialFails`). There is no fairness on what a user or a peer decides: logging
out, leaving, ending a channel or a relay, or the loss of a connection. In
`Session` the child is a program that ends and the client's stdin comes to an
end, which is what `SessionEnds` is about; its premises name the cases in which
a session does *not* end. Nothing is assumed of what nobody can count on: that
a misread stream ends in an error (`Misread`), that a branch of `select!` drops a
message, or that a program closes its output before it exits, has no fairness;
`Swallow` has, since bytes that came are read. In `ControlMaster` runs, loops and handlers go on and
the server answers; nobody need leave a session, and `MasterIdlesOut` assumes
that everybody does. In `Tunnel` the two tasks go on and applications read what
reaches them; nobody need write, close or leave. In `Bootstrap` the host runs
its processes and the service manager starts the service again
(`Restart=on-failure` of the unit, `KeepAlive` of the plist that bootstrap
installs); bootstrap and sqsh may stop for good.

### Where the code and its documentation disagree

Each is a run whose property quotes the documentation and which TLC violates.

| Run | Property | What happens |
|---|---|---|
| `session_status` | `FailureIsReported` | `Eof` precedes `ExitStatus`, and the client stops at `Eof`: a failed command is a success |
| `master_path` | `ServingMasterIsReachable` | two runs start a master at the same time; the second master removes the socket the first listens on |
| `tunnel_cut` | `RelaysUntilClose` | a frame of which the length was read is dropped when the socket becomes readable; the pump misreads what follows and ends a relay nobody closed |
| `bootstrap_user` | `UndisturbedRunFinishes` | a user with sudo: the fingerprint is read without sudo, from a directory only root may enter; the run ends before the pin |

Seen while modelling, without a run of its own (the lines are those of the
hazards in `PROJECT.json`):

* *Framing.* `read_message` is not cancel-safe, and is a branch of `select!` in
  four places: both `pump`s (`tunnel_cut`), `run_subsystem` and `io_pump`
  (`Dropped` in `Session`), and the loop of `handle` (`RecvCancelled` in
  `Connection`). In a session the output of the child can so drop input or a
  `Close`, and a subsystem whose `Eof` was dropped never sees the end of its
  input: the program waits for it, the client for the program, and neither ends
  (a premise of `SessionEnds`). A misread stream that is found out ends the
  session with an error and kills the child. On the control stream a channel that
  is opened at the wrong moment drops a request or a cancel, and usually ends the
  loop: the length of a later message is read out of the payload. The properties
  about what follows except a cut stream; those about permits, listeners and
  children do not.
* *Authentication.* A key that is removed from the file between the hello and the
  response is still accepted (`snap`). A rejected key may reach the client as a connection error
  instead of the refusal, and skips the documented fallback: the server drops
  the connection right after the message (`RefuseResponse`, `ServerDrops`). Two
  clients that install keys for one account may install one of them twice
  (`Upload`, `Install`).
* *Forwards.* A forward is confirmed before it binds; if the bind fails nobody
  is told, and the entry stays, so that a second request is answered "already
  active" (`ForwardStarted`, `BindFails`). Dropping `forward_tasks`
  aborts nothing: listeners outlive the loop, until the connection closes
  (`HandleDropped`). Two forwards with one port on different addresses are
  dialled to the target of the first (the premise of `RoutedToItsTarget`). When
  both directions of a tunnel are full, each pump waits for the other, for good
  (`pc` is `send`, `write` or `closing` at both ends: why `UploadArrives` is about
  a side that only listens, and `RelayEnds` is checked with room for one of the
  two). A stream on which no `Open` arrives keeps its permit (`silent`).
* *Sessions.* A client whose final `Close` cannot be sent returns an error for a
  session that succeeded (`Finish`). On a PTY an `Eof` is ignored (`InputEof`),
  so a program that reads to the end of its input stays until the client closes
  (a premise of `SessionEnds`),
  and the exit of the child ends the pump before the output is drained
  (`ChildExited`: why `SubsystemDrained` is about subsystems only). A subsystem
  whose output cannot be sent is waited for without being killed or given an end
  of input (`Sent`, `Reap`: a premise of `SessionEnds`). A pump that waits to
  write to a program notices a client that left only afterwards (`PumpInput`).
* *ControlMaster.* A second client that asks for a forward the first one has is
  refused, and removes the entry that routes it (`Denied`: the exception in
  `ForwardRouted`), and so is every later one, as nobody cancels a forward when
  its client leaves. A master does not notice that its connection is gone
  (`ConnLost`). A spawned master reads `~/.ssh/config` again with the resolved
  host: a `HostName` for that host, or an IPv6 address (which is passed without
  brackets), sends it elsewhere or ends it (premises of
  `MasterDialsSameDestination`).
* *Host identity.* A first start of the service that races `--emit-fingerprint`
  can leave a certificate that is not the key's: then the printed fingerprint is
  wrong and no later start succeeds (`H!Broken`). A crash after `create_new`
  leaves an empty key, with the same effect.
* *Bootstrap.* A `pgrep` that fails is taken for a service that does not run,
  which then keeps its old configuration (`missed`). Pins are lost when two
  programs save known hosts at once, or one is killed between truncating and
  writing (`Truncate`): the next connection trusts what it is shown. The version
  asked for is ignored where a server is installed already (`Detect`).

## 4. Proofs

`tlapm <module>` (SMT, Zenon, LS4). Each module's assumptions about its
constants are named in it (`PeersAssumption`, `LimitAssumption`,
`SentinelAssumption`, `ConnectionAssumption`, `SessionAssumption`,
`MasterAssumption`, `TunnelAssumption`, `IdentityAssumption`, `BootstrapAssumption`,
`ConfigAssumption`) and evaluated by TLC in the runs; nothing else is assumed.

**Handshake_proofs**

* `TypeCorrect`: `Spec => []TypeOK`. Inductive by itself, one step per action;
  lemmas say what sending, receiving and closing do to a queue.
* `PermitsBalanced`: `Spec => []PermitsBalance`. Not inductive: `Admit` could
  spawn a second task for a connection that has one. `Spawnable` excludes it:
  the connection the loop holds, those in the backlog and those not yet dialled
  (the retry included) have no task, and no connection is in two of these
  places. `TaskEffect` and `PeerEffect` condense the steps to what they do to
  permits and places, so that each invariant is proved once per effect and
  each action is looked at once.
* `PeerAuthenticated`: `Spec => []AuthenticatedPeer`. The server sees only a
  message; that its sender holds the key and received the challenge is known
  through `Signed`: every response under way bears the key of its sender, and
  one that covers the connection's nonce was sent by a program past the
  challenge (`Engaged`), which it leaves only by closing (`StepEngaged`). The
  second connection of a client starts with empty queues, by `Spawnable`.
* `OutcomesAgree` and `RetriesAfterRefusal` (`OutcomeAgreement`,
  `RetriesOnlyAfterRefusal`): what a client concludes rests on one result
  message, so the invariant says for each stage of a client what the server may
  have done and what may be under way (`Agreement`: `Unheard`, `Greeted`,
  `Answered`, `Granted`, `Refused`). In every stage it is one message at most,
  so a connection that is closed or lost leaves that message or nothing
  (`TruncationOfOne`, `EndLeaves`). Strangers matter no further: a program
  touches its own connection only (`PeerIsLocal`), and so does a task
  (`TaskIsLocal`).
* `InstallsOwn`: `Spec => InstallsOwnKeys`, an action property. Between upload
  and command another client may replace the file in /tmp or remove it, so the
  invariant is about the file (`TmpOwned`): its key is that of a client of the
  account that wrote it, whose first connection was refused. A client uploads
  only then (`Agreement`), and a refused connection stays refused, with the keys
  it was refused for (`RefusedStays`). The run has one account; that clients of
  other accounts, whose files in /tmp are theirs, change nothing is in the proof.
  `RetriesOnlyAfterRefusal` is in no run: a client gets to its second attempt
  by `Install` alone, and the run checks of that step that it was refused.

**Connection_proofs** (any number of connections, binds, permits and forwards)

* `TypeCorrect` and `PermitsBalanced` (`ChannelPermitsBalance`) are proved
  together: that `permits` stays a natural number is the balance, and the
  balance needs the types.
* `ListenersReachable` (`NoOrphanListener`): per connection (`Reachable`), as
  no step touches two connections (`StepIsLocal`). The steps are the reuse of
  a slot, the start of a task, an abort and the end of a task.
* `ViewsAgree` (`PeerViewAgrees`): the property is about quiet moments only;
  the invariant `Agreement` says what holds in between: a request is the last
  message on the control stream, a confirmation under way finds that stream
  empty, and a bind is mapped and has no cancel coming exactly when it was
  granted or its confirmation is under way. It says so while no command was cut,
  and nothing afterwards.

**Session_proofs** (any buffers, amounts of data, programs and failures)

* `Lives` says where the child is when the server's task is where it is, and
  gives `ChildReaped` (`NoOrphanChild`).
* `Setup` says, while the session starts over a connection that is up, where
  both ends are and what is under way (`InStep`), and that a server that has
  not started a child has sent no output; it gives `RepliesAreSkipped`.
* `Output` is the account of every chunk: all of it while nobody has given up
  (`OutputKept`), and all of it sent once a subsystem's loop has ended in order
  (`Drained`, which gives `OutputDrained`). That a cut stream which still holds
  the `Eof` holds all the data is `Ordered`: no data follows an `Eof`, and the
  server has ended. `OutputDrained` excepts a stream that was cut: `Misread` ends
  the loop with output unread, also after the child has ended by itself. That the
  heads the client skips are no chunks is `Setup`.
* `TypeCorrect`: the two bounds in `TypeOK` are not plain. No more is printed
  than written by `Output`; what is written is bounded by `InputBound`, the
  account of the input on its way through stdin, stream, loop, pipe and child.

**Tunnel_proofs** (streams and buffers of every size, any traffic)

* `TypeCorrect`, with `Headed`: a frame whose head was consumed is on the stream.
* `EverythingArrives` (`NothingLost`), from `Accounted`: in each direction the
  places between the applications, and what was lost with cut frames, hold what
  was written and not read, all of it while nothing else disturbs the tunnel; and
  a frame is cut only by a chunk of the other direction.
* `TunnelIsRelay` (`RelaySpec`): every step of `Tunnel` is a step of `Relay` or
  stutters, where a cut frame counts as a failure of the relay, as a lost
  connection does. It needs `Accounted` (what is read was written) and `Reasons`
  (a pump ends only after a close or a failure). So the promise of `Relay` up to
  the first cut frame, and its safety after it, hold of any two-way traffic;
  that relays last until a side closes (docs/server.md:145) does not, and
  `tunnel_cut` shows it.
* `ConnectionsAreRouted` (`RoutedToItsTarget`): the property is about tunnels
  that pump, the invariant `Routed` also about a client that is still connecting:
  what it looked up by the port of the listener has that port.

**HostIdentity_proofs, Bootstrap_proofs**

* `IdentityIsUnique` and `EmittedIsServed`, for any number of processes. `Makers`
  (each made an identity of its own), `OneFiller` (only the one that created the
  key file fills it), `Readers`, `Shown` and `Printed` are the invariant.
* `IdentityRefined`: `Bootstrap` implements `HostIdentity`, whatever bootstrap,
  the service manager and sqsh do; so `IdentityIsUnique` holds of `Bootstrap`
  (`OneIdentity`), for any number of runs, ports, releases and crashes.
* `DoneIsReady` (`DoneMeansReady`): a run skips what it finds there already, so
  the invariant says what each step finds done, by this run or an earlier one
  (`InOrder`), and that a service that runs has read a configuration which was
  written, the one of this run if this run found it running (`Supervised`).
* `RefusalMeansBroken` (`RefusedOnlyIfBroken`): a pin is a fingerprint that was
  printed or shown on the host (`PinsKnown`), on the way through the copies that
  programs hold of the file of known hosts; a process that is up shows one of
  these (`Current`, in `HostIdentity_proofs`). So where sqsh refuses, something
  printed and something shown differ (`Differ`), which `EmittedIsServed`
  excludes unless the files were broken.

**SshConfig_proofs**

* `FirstMatchIsFound` (`FirstMatchWins`), for every file, target and options.
  The invariant adds that the parser's flag is what the last `Host` line before
  the next line says (`Active`).
* `PatternsMatchAsDocumented` (`MatchesAsDocumented`): `Wildcard` is recursive,
  so that it has a value at all is to be proved. The documented meaning
  (`Stands`: an increasing assignment of the characters of the value) solves
  its equation (`StandsSteps`), and two solutions agree, by induction on the
  number of characters (`WildcardStands`).
* `MasterResolvesTheSame` (`MasterDialsSameDestination`): nothing that was
  resolved is empty (`Settled`), so the options of the master win over its file
  (`Passed`), and each conversion is undone by its inverse: a number by
  `Decimal` and `Number` (`DecimalIs`), a persist time by `PersistArg` and
  `Persist` (`PersistBack`), a host by `Target::parse` (`HostIsTarget`). The
  first attempt at the last one failed: a host with an `@`, or one that begins
  with `[`, is parsed into something else. The property excludes these hosts,
  as it did hosts with a colon. That the master fails only at an invalid line for
  the resolved host follows from `Active` of the invariant above.
* Induction is by `SetInduction`, over sets of numbers: the theorems of the
  library take operators, which the provers cannot instantiate. Folds
  (`FoldExists`, `JoinedSteps`, `NumberSteps`) and recursive functions
  (`DecimalSteps`, `WildcardSteps`) are shown to solve their equations with it.
  `Wildcard` takes a pair since the SMT backend knows no functions of two
  arguments, and `Chars` is a constant (TLC: `STRING`) since no prover knows that
  a character is a member of `STRING`.
* `ConfigAssumption` says what `tokenize_config_line` and clap guarantee: no
  argument of a line is empty, a port given as an option is one.

**ControlMaster_proofs** (any number of runs, masters and binds)

* `TypeCorrect` and `IdleCutsNobody` (`IdleMasterCutsNobody`) rest on `Placed`
  (a run makes each of its two local connections once; a handler that has not
  gone belongs to a master whose loop runs) and `Counted`: `active` is the number
  of handlers accepted and not yet heard the end of, on every path a handler can
  end by. `LoopEffect` and `HandlerEffect` condense the steps.
* `AnswersAreOwn` (`AnswerIsOwn`): replies carry no name. `Guarded` says that the
  mutex is held exactly by the handler that awaits a reply, and that its request,
  or the reply to it, is all that is under way; `Answered`, that the server
  listens for nothing but what a run past its request has asked for, which is
  why a refusal of an allowed bind means a second run that asked.
* `ForwardsRouted` (`ForwardRouted`): the entry of a run that alone asks for its
  bind is there while its handler waits for the mutex or the reply, and while the
  server listens (`Routed`). A refusal drops entries of its own bind only, and by
  `Guarded` that bind has then no listener of a run that asked alone.

Every invariant and action property of the runs that pass is proved. Only
model-checked are the liveness properties (`ConnectReturns`,
`ClosedConnectionEnds`, `EveryDialAdmitted`, `CancelReleasesSocket`,
`EveryRequestAnswered`, `EveryStreamAnswered`, `SessionEnds`, `RunReturns`,
`MasterIdlesOut`, `UploadArrives`, `RelayEnds`, `ServiceComesUp`): the provers
have no rules for fairness and `ENABLED`.

## 5. Plan

1. *Composition* of `Handshake` and `Connection`: permits of the accept loop
   against the connections that are alive while channels outlive `handle`.
2. *Sessions*: env, window changes and signals, which the server takes while it
   pumps; stderr of a subsystem.
3. `tokenize_config_line`: quotes, escapes and comments.

In this order: 1 is about a hazard without a property, 2 and 3 add operations
to modelled components.

## 6. Not modelled

Cryptography and TLS (assumed), the contents of data, the command line, logging.
Connection migration (`sqsh/src/migration.rs`): it rebinds the endpoint, the
effect is inside quinn, and the code keeps no state. The configuration of the
server (`sqshd/src/config.rs`): its limits and allow lists are constants of the
modules. `sqcp`, `sqftp` and `sqsh-keygen`: sequential programs that call one
library function after the other over a subsystem channel, which is in
`Session`. The byte encoding of messages, and frames above the limits of
`codec.rs` (a writer allows 4 GiB, a reader 64 KiB; the pumps read at most
8 KiB at a time). The channel state enum of `sqsh-core`, which no code uses.
What is planned is in section 5.
