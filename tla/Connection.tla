----------------------------- MODULE Connection -----------------------------
(***************************************************************************)
(* The main loop of sqshd for authenticated connections (connection.rs,    *)
(* handle after authenticate, and dispatch_channel) and the remote-forward *)
(* listener tasks it spawns (channel/forward.rs, run_remote_forward).      *)
(*                                                                         *)
(* The loop selects between new bidirectional streams, each a channel that *)
(* needs a permit of the per-connection limiter, and control messages,     *)
(* which start and cancel remote forwards. Channel handlers, listeners and *)
(* the relays of accepted TCP connections are tasks of their own, each     *)
(* holding a handle of the QUIC connection; all connections share the      *)
(* host's TCP sockets.                                                     *)
(*                                                                         *)
(* A bind is the (address, port) pair of a request. Two binds may name one *)
(* socket: "localhost" and "127.0.0.1" are different keys of the map.      *)
(***************************************************************************)
EXTENDS Integers, Sequences, FiniteSets

CONSTANTS
    Conns,        \* authenticated connections
    MaxStreams,   \* bound: channel streams a peer opens
    Binds,        \* (bind_addr, bind_port) pairs
    SocketOf,     \* SocketOf[b]: the host socket the pair b names
    Allowed,      \* the binds remote_forward_allowed accepts
    Taken,        \* sockets another program of the host listens on
    MaxChannels,  \* ServerConfig::max_channels_per_connection
    MaxForwards,  \* ServerConfig::max_remote_forwards_per_connection
    MaxTasks,     \* bound: listener tasks of a connection that exist at once
    MaxRelays,    \* bound: relayed TCP connections of a connection
    MaxQueue      \* bound: control messages under way in one direction

Streams == 1..MaxStreams  \* in the order they are opened
Slots == 1..MaxTasks

ASSUME ConnectionAssumption ==
    /\ IsFiniteSet(Binds) /\ Binds # {}
    /\ Allowed \subseteq Binds
    /\ {MaxStreams, MaxChannels, MaxForwards, MaxTasks, MaxRelays, MaxQueue}
       \subseteq Nat

VARIABLES
    loop,     \* loop[c]: the main loop of handle() is in "run" or "over"
    link,     \* link[c]: the QUIC connection is "up" or "closed"
    ctlOpen,  \* ctlOpen[c]: the peer has not finished the control stream
    cut,      \* cut[c]: the loop lost a command it had half read
    ctl,      \* ctl[c]: control messages on their way to the server
    rep,      \* rep[c]: replies on their way to the peer
    granted,  \* granted[c]: the binds the peer was confirmed and keeps
    fwd,      \* forward_tasks: fwd[c][b] is the task of bind b, or 0
    task,     \* task[c][i]: the listener task in slot i
    chan,     \* chan[c][s]: the channel on stream s
    permits,  \* permits[c]: free permits of channel_limiter
    relay     \* relay[c]: TCP connections being relayed to the peer

forwardVars == <<fwd, task, relay>>
channelVars == <<chan, permits>>
vars == <<loop, link, ctlOpen, cut, ctl, rep, granted, fwd, task, chan, permits, relay>>

\* What a peer sends on a stream: an Open that is served, one that is not (a
\* denied target, another channel type, no Open), or no whole message.
Asks == {"served", "denied", "silent"}
Active == {"dispatch", "running"}
ActiveChannels(c) == {s \in Streams : chan[c][s].st \in Active}
Mapped(c) == {b \in Binds : fwd[c][b] # 0}

Confirm(b) == [kind |-> "confirm", bind |-> b]
Failure(b, why) == [kind |-> why, bind |-> b]
Ack == [kind |-> "ack"]
Commands == [op : {"request", "cancel"}, bind : Binds] \cup [op : {"keepalive"}]
Replies == [kind : {"confirm", "prohibited", "active", "limit"}, bind : Binds] \cup {Ack}

\* A task that ended, and an unused slot.
NoTask == [bind |-> CHOOSE b \in Binds : TRUE, aborted |-> FALSE, st |-> "ended"]

TypeOK ==
    /\ loop \in [Conns -> {"run", "over"}]
    /\ link \in [Conns -> {"up", "closed"}]
    /\ ctlOpen \in [Conns -> BOOLEAN] /\ cut \in [Conns -> BOOLEAN]
    /\ ctl \in [Conns -> Seq(Commands)]
    /\ rep \in [Conns -> Seq(Replies)]
    /\ granted \in [Conns -> SUBSET Binds]
    /\ fwd \in [Conns -> [Binds -> 0..MaxTasks]]
    /\ task \in [Conns -> [Slots -> [bind : Binds, aborted : BOOLEAN,
                                     st : {"spawned", "listening", "ended"}]]]
    /\ chan \in [Conns -> [Streams ->
         [ask : Asks, st : {"none", "opened", "refused", "ended"} \cup Active]]]
    /\ permits \in [Conns -> 0..MaxChannels]
    /\ relay \in [Conns -> 0..MaxRelays]

Init ==
    /\ loop = [c \in Conns |-> "run"]
    /\ link = [c \in Conns |-> "up"]
    /\ ctlOpen = [c \in Conns |-> TRUE]
    /\ cut = [c \in Conns |-> FALSE]
    /\ ctl = [c \in Conns |-> <<>>]
    /\ rep = [c \in Conns |-> <<>>]
    /\ granted = [c \in Conns |-> {}]
    /\ fwd = [c \in Conns |-> [b \in Binds |-> 0]]
    /\ task = [c \in Conns |-> [i \in Slots |-> NoTask]]
    /\ chan = [c \in Conns |-> [s \in Streams |-> [ask |-> "denied", st |-> "none"]]]
    /\ permits = [c \in Conns |-> MaxChannels]
    /\ relay = [c \in Conns |-> 0]

(***************************************************************************)
(* quinn closes a connection when its last handle is dropped. The loop,    *)
(* every listener task, every channel handler and every relay hold one.    *)
(* Conjoined to the steps that drop a handle.                              *)
(***************************************************************************)
Alive(t) == t.st # "ended"
HandleDropped(c) ==
    link' = [link EXCEPT ![c] =
        IF \/ loop'[c] = "run"
           \/ \E i \in Slots : Alive(task'[c][i])
           \/ \E s \in Streams : chan'[c][s].st \in Active
           \/ relay'[c] > 0
        THEN @ ELSE "closed"]

(***************************************************************************)
(* The peer.                                                               *)
(***************************************************************************)
\* sqsh waits for the reply to a request before it uses the control stream
\* again (connect_direct, and handle_master_client under its mutex).
\* (A peer whose request was cut would wait for ever; here it may go on.)
Awaiting(c) == rep[c] # <<>> \/ \E n \in DOMAIN ctl[c] : ctl[c][n].op = "request"

PeerSends(c) ==
    /\ link[c] = "up" /\ ctlOpen[c] /\ loop[c] = "run"
    /\ ~Awaiting(c)
    /\ Len(ctl[c]) < MaxQueue
    /\ \E m \in Commands :
         /\ ctl' = [ctl EXCEPT ![c] = Append(@, m)]
         /\ granted' = [granted EXCEPT ![c] = IF m.op = "cancel" THEN @ \ {m.bind} ELSE @]
    /\ UNCHANGED <<loop, link, ctlOpen, cut, rep, forwardVars, channelVars>>

PeerReads(c) ==
    /\ rep[c] # <<>> /\ link[c] = "up"
    /\ rep' = [rep EXCEPT ![c] = Tail(@)]
    /\ granted' = [granted EXCEPT ![c] =
                     IF Head(rep[c]).kind = "confirm" THEN @ \cup {Head(rep[c]).bind} ELSE @]
    /\ UNCHANGED <<loop, link, ctlOpen, cut, ctl, forwardVars, channelVars>>

PeerOpensStream(c) ==
    /\ link[c] = "up"
    /\ \E s \in Streams, ask \in Asks :
         /\ chan[c][s].st = "none"
         /\ \A r \in 1..(s - 1) : chan[c][r].st # "none"
         /\ chan' = [chan EXCEPT ![c][s] = [ask |-> ask, st |-> "opened"]]
    /\ UNCHANGED <<loop, link, ctlOpen, cut, ctl, rep, granted, forwardVars, permits>>

\* The control stream ends alone, or the whole connection does (close, crash,
\* idle timeout). What was sent and is lost on the way is, for the server, not
\* sent: the queues hold what arrives.
PeerFinishesControl(c) ==
    /\ link[c] = "up" /\ ctlOpen[c]
    /\ ctlOpen' = [ctlOpen EXCEPT ![c] = FALSE]
    /\ UNCHANGED <<loop, link, cut, ctl, rep, granted, forwardVars, channelVars>>

LinkCloses(c) ==
    /\ link[c] = "up"
    /\ link' = [link EXCEPT ![c] = "closed"]
    /\ UNCHANGED <<loop, ctlOpen, cut, ctl, rep, granted, forwardVars, channelVars>>

(***************************************************************************)
(* The loop: channel streams. A stream is accepted in the order of its     *)
(* number, with try_acquire for the permit; streams that arrived before    *)
(* the connection closed are still accepted.                               *)
(***************************************************************************)
NextStream(c, s) ==
    /\ chan[c][s].st = "opened"
    /\ \A r \in 1..(s - 1) : chan[c][r].st # "opened"

\* recv is the other branch of the select!, and it reads a message by two awaits
\* (read_message): a command whose head it had consumed is lost when a stream is
\* accepted, and with it where the next commands begin.
RecvCancelled(c) ==
    \/ UNCHANGED <<cut, ctl>>
    \/ /\ ctl[c] # <<>>
       /\ ctl' = [ctl EXCEPT ![c] = Tail(@)]
       /\ cut' = [cut EXCEPT ![c] = TRUE]

\* Faulty variant: the loop waits for a permit (acquire instead of
\* try_acquire).
AcceptStreamWaiting(c) ==
    /\ loop[c] = "run" /\ permits[c] > 0
    /\ \E s \in Streams :
         /\ NextStream(c, s)
         /\ chan' = [chan EXCEPT ![c][s].st = "dispatch"]
         /\ permits' = [permits EXCEPT ![c] = @ - 1]
    /\ RecvCancelled(c)
    /\ UNCHANGED <<loop, link, ctlOpen, rep, granted, forwardVars>>

AcceptStream(c) ==
    /\ loop[c] = "run"
    /\ \E s \in Streams :
         /\ NextStream(c, s)
         /\ IF permits[c] > 0
            THEN /\ chan' = [chan EXCEPT ![c][s].st = "dispatch"]
                 /\ permits' = [permits EXCEPT ![c] = @ - 1]
            ELSE /\ chan' = [chan EXCEPT ![c][s].st = "refused"]
                 /\ UNCHANGED permits
    /\ RecvCancelled(c)
    /\ UNCHANGED <<loop, link, ctlOpen, rep, granted, forwardVars>>

\* dispatch_channel serves a session, and direct-tcpip to a target of the
\* allowlist. It waits for the Open, with the permit, for as long as that takes.
Dispatch(c, s) ==
    /\ chan[c][s].st = "dispatch"
    /\ chan[c][s].ask = "served"
    /\ link[c] = "up"
    /\ chan' = [chan EXCEPT ![c][s].st = "running"]
    /\ UNCHANGED <<loop, link, ctlOpen, cut, ctl, rep, granted, forwardVars, permits>>

MayEnd(c, s) ==
    \/ chan[c][s].st = "running"
    \/ chan[c][s].st = "dispatch" /\ (chan[c][s].ask = "denied" \/ link[c] = "closed")

\* Faulty variants: a permit comes back for a stream that was refused one; none
\* comes back for a channel whose open is refused.
RefusedEndsToo(c, s) ==
    /\ MayEnd(c, s) \/ chan[c][s].st = "refused"
    /\ chan' = [chan EXCEPT ![c][s].st = "ended"]
    /\ permits' = [permits EXCEPT ![c] = @ + 1]
    /\ UNCHANGED <<loop, ctlOpen, cut, ctl, rep, granted, forwardVars>>
    /\ HandleDropped(c)
DeniedKeepsPermit(c, s) ==
    /\ MayEnd(c, s)
    /\ chan' = [chan EXCEPT ![c][s].st = "ended"]
    /\ permits' = [permits EXCEPT ![c] = IF chan[c][s].st = "running" THEN @ + 1 ELSE @]
    /\ UNCHANGED <<loop, ctlOpen, cut, ctl, rep, granted, forwardVars>>
    /\ HandleDropped(c)

\* The handler returns, or dispatch_channel refuses the open or cannot reply;
\* the spawned task ends and its permit with it.
ChannelEnds(c, s) ==
    /\ MayEnd(c, s)
    /\ chan' = [chan EXCEPT ![c][s].st = "ended"]
    /\ permits' = [permits EXCEPT ![c] = @ + 1]
    /\ UNCHANGED <<loop, ctlOpen, cut, ctl, rep, granted, forwardVars>>
    /\ HandleDropped(c)

(***************************************************************************)
(* The loop: control messages.                                             *)
(***************************************************************************)
Command(c, op) == loop[c] = "run" /\ ~cut[c] /\ ctl[c] # <<>> /\ Head(ctl[c]).op = op

\* handle() returns. forward_tasks is dropped with it: that drops the abort
\* handles and aborts no task.
HandleReturns(c) ==
    /\ loop' = [loop EXCEPT ![c] = "over"]
    /\ ctl' = [ctl EXCEPT ![c] = <<>>]
    /\ fwd' = [fwd EXCEPT ![c] = [b \in Binds |-> 0]]

\* The command is handled with reply r and map f. control.sender.send(..).await?:
\* a reply that cannot be sent ends the loop.
Replied(c, r, f) ==
    IF link[c] = "up"
    THEN /\ rep' = [rep EXCEPT ![c] = Append(@, r)]
         /\ ctl' = [ctl EXCEPT ![c] = Tail(@)]
         /\ fwd' = [fwd EXCEPT ![c] = f]
         /\ loop' = loop
    ELSE HandleReturns(c) /\ rep' = rep

\* Faulty variant: the request is dropped and nothing is replied.
RefusedWithoutReply(c) ==
    /\ Command(c, "request")
    /\ LET b == Head(ctl[c]).bind IN
       b \notin Allowed \/ fwd[c][b] # 0 \/ Cardinality(Mapped(c)) >= MaxForwards
    /\ ctl' = [ctl EXCEPT ![c] = Tail(@)]
    /\ UNCHANGED <<loop, link, ctlOpen, cut, rep, granted, forwardVars, channelVars>>

ForwardRefused(c) ==
    /\ Command(c, "request")
    /\ LET b == Head(ctl[c]).bind IN
       \/ /\ b \notin Allowed
          /\ Replied(c, Failure(b, "prohibited"), fwd[c])
       \/ /\ b \in Allowed /\ fwd[c][b] # 0
          /\ Replied(c, Failure(b, "active"), fwd[c])
       \/ /\ b \in Allowed /\ fwd[c][b] = 0
          /\ Cardinality(Mapped(c)) >= MaxForwards
          /\ Replied(c, Failure(b, "limit"), fwd[c])
    /\ UNCHANGED <<ctlOpen, cut, granted, task, relay, channelVars>>
    /\ HandleDropped(c)

\* A listener task for bind b is spawned in a slot no handle refers to, entered
\* in the map, and confirmed.
Spawn(c, b) ==
    \E i \in Slots :
        /\ ~Alive(task[c][i])
        /\ \A a \in Binds : fwd[c][a] # i
        /\ task' = [task EXCEPT ![c][i] = [bind |-> b, aborted |-> FALSE, st |-> "spawned"]]
        /\ Replied(c, Confirm(b), [fwd[c] EXCEPT ![b] = i])

\* Faulty variant: no contains_key, the new handle replaces the old one.
ForwardReplaced(c) ==
    /\ Command(c, "request")
    /\ Head(ctl[c]).bind \in Allowed
    /\ Cardinality(Mapped(c)) < MaxForwards
    /\ Spawn(c, Head(ctl[c]).bind)
    /\ UNCHANGED <<link, ctlOpen, cut, granted, relay, channelVars>>

\* The task is spawned and entered in the map, and the request is confirmed
\* without waiting for the task to bind.
ForwardStarted(c) ==
    /\ Command(c, "request")
    /\ LET b == Head(ctl[c]).bind IN
       /\ b \in Allowed
       /\ fwd[c][b] = 0
       /\ Cardinality(Mapped(c)) < MaxForwards
       /\ Spawn(c, b)
    /\ UNCHANGED <<link, ctlOpen, cut, granted, relay, channelVars>>

\* Faulty variants: the handle is looked up and not removed; it is removed and
\* not aborted.
CancelKeepsEntry(c) ==
    /\ Command(c, "cancel")
    /\ LET i == fwd[c][Head(ctl[c]).bind] IN
       task' = IF i # 0 /\ Alive(task[c][i])
               THEN [task EXCEPT ![c][i].aborted = TRUE] ELSE task
    /\ ctl' = [ctl EXCEPT ![c] = Tail(@)]
    /\ UNCHANGED <<loop, link, ctlOpen, cut, rep, granted, fwd, relay, channelVars>>
CancelDoesNotAbort(c) ==
    /\ Command(c, "cancel")
    /\ fwd' = [fwd EXCEPT ![c][Head(ctl[c]).bind] = 0]
    /\ ctl' = [ctl EXCEPT ![c] = Tail(@)]
    /\ UNCHANGED <<loop, link, ctlOpen, cut, rep, granted, task, relay, channelVars>>

\* abort() is a request: the task ends at its next await.
ForwardCancelled(c) ==
    /\ Command(c, "cancel")
    /\ LET b == Head(ctl[c]).bind
           i == fwd[c][b] IN
       /\ fwd' = [fwd EXCEPT ![c][b] = 0]
       /\ task' = IF i # 0 /\ Alive(task[c][i])
                  THEN [task EXCEPT ![c][i].aborted = TRUE] ELSE task
    /\ ctl' = [ctl EXCEPT ![c] = Tail(@)]
    /\ UNCHANGED <<loop, link, ctlOpen, cut, rep, granted, relay, channelVars>>

KeepAlive(c) ==
    /\ Command(c, "keepalive")
    /\ rep' = IF link[c] = "up"
              THEN [rep EXCEPT ![c] = Append(@, Ack)] ELSE rep
    /\ ctl' = [ctl EXCEPT ![c] = Tail(@)]
    /\ UNCHANGED <<loop, link, ctlOpen, cut, granted, forwardVars, channelVars>>

\* Bytes of a payload were read as a length: recv waits for as many bytes, and
\* what follows is swallowed.
Swallow(c) ==
    /\ loop[c] = "run" /\ cut[c] /\ ctl[c] # <<>>
    /\ ctl' = [ctl EXCEPT ![c] = Tail(@)]
    /\ UNCHANGED <<loop, link, ctlOpen, cut, rep, granted, forwardVars, channelVars>>

\* Or the length is too large, or the bytes do not decode: recv fails.
Misread(c) ==
    /\ loop[c] = "run" /\ cut[c]
    /\ HandleReturns(c)
    /\ UNCHANGED <<ctlOpen, cut, rep, granted, task, relay, channelVars>>
    /\ HandleDropped(c)

\* accept_bi or recv returns an error. Nothing is aborted.
LoopEnds(c) ==
    /\ loop[c] = "run"
    /\ \/ link[c] = "closed" /\ \A s \in Streams : chan[c][s].st # "opened"
       \/ ctl[c] = <<>> /\ (link[c] = "closed" \/ ~ctlOpen[c])
    /\ HandleReturns(c)
    /\ UNCHANGED <<ctlOpen, cut, rep, granted, task, relay, channelVars>>
    /\ HandleDropped(c)

(***************************************************************************)
(* Listener tasks. An aborted task may still be in the middle of a poll.   *)
(***************************************************************************)
Busy(socket) ==
    \/ socket \in Taken
    \/ \E c \in Conns, i \in Slots :
          task[c][i].st = "listening" /\ SocketOf[task[c][i].bind] = socket

Bind(c, i) ==
    /\ task[c][i].st = "spawned"
    /\ ~Busy(SocketOf[task[c][i].bind])
    /\ task' = [task EXCEPT ![c][i].st = "listening"]
    /\ UNCHANGED <<loop, link, ctlOpen, cut, ctl, rep, granted, fwd, relay, channelVars>>

BindFails(c, i) ==
    /\ task[c][i].st = "spawned"
    /\ Busy(SocketOf[task[c][i].bind])
    /\ task' = [task EXCEPT ![c][i] = NoTask]
    /\ UNCHANGED <<loop, ctlOpen, cut, ctl, rep, granted, fwd, relay, channelVars>>
    /\ HandleDropped(c)

\* The runtime drops an aborted task, and its socket; or accept() fails.
ListenerEnds(c, i) ==
    /\ task[c][i].st # "ended"
    /\ task[c][i].aborted \/ task[c][i].st = "listening"
    /\ task' = [task EXCEPT ![c][i] = NoTask]
    /\ UNCHANGED <<loop, ctlOpen, cut, ctl, rep, granted, fwd, relay, channelVars>>
    /\ HandleDropped(c)

\* A TCP connection arrives: handle_remote_connection opens a stream to the
\* peer for it. On a closed connection that fails and the socket is dropped.
TcpArrives(c, i) ==
    /\ task[c][i].st = "listening"
    /\ link[c] = "up"
    /\ relay[c] < MaxRelays
    /\ relay' = [relay EXCEPT ![c] = @ + 1]
    /\ UNCHANGED <<loop, link, ctlOpen, cut, ctl, rep, granted, fwd, task, channelVars>>

RelayEnds(c) ==
    /\ relay[c] > 0
    /\ relay' = [relay EXCEPT ![c] = @ - 1]
    /\ UNCHANGED <<loop, ctlOpen, cut, ctl, rep, granted, fwd, task, channelVars>>
    /\ HandleDropped(c)

Peer(c) == \/ PeerSends(c) \/ PeerReads(c) \/ PeerOpensStream(c)
           \/ PeerFinishesControl(c) \/ LinkCloses(c)
Control(c) == \/ ForwardRefused(c) \/ ForwardStarted(c) \/ ForwardCancelled(c)
              \/ KeepAlive(c) \/ Swallow(c)
Loop(c) == Control(c) \/ AcceptStream(c) \/ Misread(c) \/ LoopEnds(c)
Listener(c, i) == Bind(c, i) \/ BindFails(c, i) \/ ListenerEnds(c, i) \/ TcpArrives(c, i)

Next == \E c \in Conns :
          \/ Peer(c) \/ Loop(c) \/ RelayEnds(c)
          \/ \E s \in Streams : Dispatch(c, s) \/ ChannelEnds(c, s)
          \/ \E i \in Slots : Listener(c, i)

Spec == Init /\ [][Next]_vars

(***************************************************************************)
(* Fairness: the runtime polls every task that is ready, and select! picks *)
(* at random among the branches that are, so neither the control stream    *)
(* nor the channel streams starve the other. Nothing obliges a handler, a  *)
(* relay or a peer to finish, a silent peer to say what it opened a stream *)
(* for, or a loop that misreads its control stream to notice.              *)
(***************************************************************************)
Fairness ==
    \A c \in Conns :
        /\ WF_vars(Control(c)) /\ WF_vars(AcceptStream(c)) /\ WF_vars(LoopEnds(c))
        /\ \A s \in Streams :
             /\ WF_vars(Dispatch(c, s))
             /\ WF_vars(chan[c][s].st = "dispatch" /\ ChannelEnds(c, s))
        /\ \A i \in Slots :
             /\ WF_vars(Bind(c, i) \/ BindFails(c, i))
             /\ WF_vars(task[c][i].aborted /\ ListenerEnds(c, i))
FairSpec == Spec /\ Fairness

(***************************************************************************)
(* Properties.                                                             *)
(***************************************************************************)
\* channel_limiter: whichever way a channel task ends, it gives its permit
\* back once, so a connection never serves more than MaxChannels at a time.
ChannelPermitsBalance ==
    \A c \in Conns : permits[c] + Cardinality(ActiveChannels(c)) = MaxChannels

\* While the loop runs no listener is orphaned: every task that is alive and
\* was not aborted is the one its bind maps to, so a cancel can reach it, and
\* the tasks not aborted are never more than MaxForwards.
NoOrphanListener ==
    \A c \in Conns :
        loop[c] = "run" =>
            /\ \A i \in Slots :
                 Alive(task[c][i]) /\ ~task[c][i].aborted => fwd[c][task[c][i].bind] = i
            /\ \A a, b \in Mapped(c) : fwd[c][a] = fwd[c][b] => a = b
            /\ Cardinality(Mapped(c)) <= MaxForwards

\* When nothing is under way the peer and the server agree on the forwards of
\* the connection: what was confirmed and not cancelled is what is mapped, as
\* long as no command was cut.
PeerViewAgrees ==
    \A c \in Conns :
        loop[c] = "run" /\ link[c] = "up" /\ ~cut[c] /\ ctl[c] = <<>> /\ rep[c] = <<>>
        => granted[c] = Mapped(c)

\* A cancel that the peer sent reaches the listener: the task that served the
\* bind ends and releases its socket, unless the loop ends first or has lost the
\* thread of its control stream.
CancelReleasesSocket ==
    \A c \in Conns, b \in Binds, i \in Slots :
        fwd[c][b] = i /\ (\E n \in DOMAIN ctl[c] : ctl[c][n] = [op |-> "cancel", bind |-> b])
        ~> ~Alive(task[c][i]) \/ loop[c] = "over" \/ cut[c]

\* The peer waits for the reply to a request and sends nothing else, so the
\* loop must reply to it, about that bind, in every case: nobody else would free
\* what it waits for. What excuses the loop is that it is over, or that a channel
\* stream cut the request, or a command before it.
EveryRequestAnswered ==
    \A c \in Conns, b \in Binds :
        (\E n \in DOMAIN ctl[c] : ctl[c][n] = [op |-> "request", bind |-> b])
        ~> \/ \E n \in DOMAIN rep[c] : rep[c][n] # Ack /\ rep[c][n].bind = b
           \/ loop[c] = "over" \/ cut[c]

\* Every stream a peer opens is answered even while all permits are taken by
\* channels that never end, unless the loop is over or the peer does not say
\* what it opened the stream for.
Unanswered(c, s) ==
    chan[c][s].st = "opened" \/ (chan[c][s].st = "dispatch" /\ chan[c][s].ask # "silent")
EveryStreamAnswered ==
    \A c \in Conns, s \in Streams :
        Unanswered(c, s) /\ loop[c] = "run" ~> ~Unanswered(c, s) \/ loop[c] = "over"
=============================================================================
