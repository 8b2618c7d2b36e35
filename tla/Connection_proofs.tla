-------------------------- MODULE Connection_proofs --------------------------
(***************************************************************************)
(* Theorems about the connection loop of sqshd, for any connections,       *)
(* binds, sockets and limits.                                              *)
(*                                                                         *)
(* The bound on permits in the type invariant is a consequence of the      *)
(* balance, so the two are proved together (Balanced). NoOrphanListener is *)
(* inductive by itself. What the peer was told and what the server has     *)
(* agree when nothing is under way; in between, the difference is what the *)
(* messages under way say (Agreement).                                     *)
(***************************************************************************)
EXTENDS Connection, SequenceTheorems, FiniteSetTheorems, TLAPS

LEMMA Limits ==
    /\ MaxStreams \in Nat /\ MaxChannels \in Nat /\ MaxForwards \in Nat
    /\ MaxTasks \in Nat /\ MaxRelays \in Nat
BY ConnectionAssumption

(***************************************************************************)
(* Types.                                                                  *)
(***************************************************************************)
Channel == [ask : Asks, st : {"none", "opened", "refused", "ended"} \cup Active]
Task == [bind : Binds, aborted : BOOLEAN, st : {"spawned", "listening", "ended"}]

\* TypeOK, but for the bound on permits.
Typed ==
    /\ loop \in [Conns -> {"run", "over"}]
    /\ link \in [Conns -> {"up", "closed"}]
    /\ ctlOpen \in [Conns -> BOOLEAN] /\ cut \in [Conns -> BOOLEAN]
    /\ ctl \in [Conns -> Seq(Commands)]
    /\ rep \in [Conns -> Seq(Replies)]
    /\ granted \in [Conns -> SUBSET Binds]
    /\ fwd \in [Conns -> [Binds -> 0..MaxTasks]]
    /\ task \in [Conns -> [Slots -> Task]]
    /\ chan \in [Conns -> [Streams -> Channel]]
    /\ permits \in [Conns -> Nat]
    /\ relay \in [Conns -> 0..MaxRelays]

LEMMA TaskTypes ==
    /\ NoTask \in Task
    /\ \A b \in Binds : [bind |-> b, aborted |-> FALSE, st |-> "spawned"] \in Task
BY ConnectionAssumption DEF NoTask, Task

LEMMA ReplyTypes ==
    \A b \in Binds : /\ Confirm(b) \in Replies
                     /\ \A w \in {"prohibited", "active", "limit"} : Failure(b, w) \in Replies
BY DEF Confirm, Failure, Replies

LEMMA CommandFields ==
    ASSUME NEW m \in Commands
    PROVE  m.op \in {"request", "cancel"} => m.bind \in Binds
BY DEF Commands

\* The next command is one, and what remains are commands.
LEMMA NextCommand ==
    ASSUME Typed, NEW c \in Conns, ctl[c] # <<>>
    PROVE  /\ Head(ctl[c]) \in Commands
           /\ Tail(ctl[c]) \in Seq(Commands)
           /\ Head(ctl[c]).op \in {"request", "cancel"} => Head(ctl[c]).bind \in Binds
<1>1. ctl[c] \in Seq(Commands)
    BY DEF Typed
<1>2. Head(ctl[c]) \in Commands /\ Tail(ctl[c]) \in Seq(Commands)
    BY <1>1, HeadTailProperties
<1> QED
    BY <1>2, CommandFields

\* A reply is sent, or the loop returns.
LEMMA ReplyKeepsTypes ==
    ASSUME Typed, NEW c \in Conns, ctl[c] # <<>>, NEW r \in Replies,
           NEW f \in [Binds -> 0..MaxTasks], Replied(c, r, f)
    PROVE  /\ loop' \in [Conns -> {"run", "over"}]
           /\ ctl' \in [Conns -> Seq(Commands)]
           /\ rep' \in [Conns -> Seq(Replies)]
           /\ fwd' \in [Conns -> [Binds -> 0..MaxTasks]]
<1>1. Tail(ctl[c]) \in Seq(Commands)
    BY NextCommand
<1>2. rep[c] \in Seq(Replies)
    BY DEF Typed
<1>3. Append(rep[c], r) \in Seq(Replies)
    BY <1>2, AppendProperties
<1>4. <<>> \in Seq(Commands) /\ [b \in Binds |-> 0] \in [Binds -> 0..MaxTasks]
    BY EmptySeq, Limits
<1>5. CASE link[c] = "up"
    <2>1. /\ rep' = [rep EXCEPT ![c] = Append(rep[c], r)]
          /\ ctl' = [ctl EXCEPT ![c] = Tail(ctl[c])]
          /\ fwd' = [fwd EXCEPT ![c] = f]
          /\ loop' = loop
        BY <1>5 DEF Replied
    <2>2. ctl' \in [Conns -> Seq(Commands)]
        BY <1>1, <2>1 DEF Typed
    <2>3. rep' \in [Conns -> Seq(Replies)]
        BY <1>3, <2>1 DEF Typed
    <2> QED
        BY <2>1, <2>2, <2>3 DEF Typed
<1>6. CASE link[c] # "up"
    <2>1. HandleReturns(c) /\ rep' = rep
        BY <1>6 DEF Replied
    <2>2. ctl' \in [Conns -> Seq(Commands)]
        BY <1>4, <2>1 DEF HandleReturns, Typed
    <2>3. fwd' \in [Conns -> [Binds -> 0..MaxTasks]]
        BY <1>4, <2>1 DEF HandleReturns, Typed
    <2> QED
        BY <2>1, <2>2, <2>3 DEF HandleReturns, Typed
<1> QED
    BY <1>5, <1>6

\* A task is aborted, or listens.
LEMMA TaskMarked ==
    ASSUME Typed, NEW c \in Conns, NEW i \in Slots,
           \/ task' = [task EXCEPT ![c][i].aborted = TRUE]
           \/ task' = [task EXCEPT ![c][i].st = "listening"]
    PROVE  task' \in [Conns -> [Slots -> Task]]
<1>1. PICK t : /\ t = [task[c][i] EXCEPT !.aborted = TRUE] \/ t = [task[c][i] EXCEPT !.st = "listening"]
               /\ task' = [task EXCEPT ![c] = [task[c] EXCEPT ![i] = t]]
    OBVIOUS
<1>2. task[c][i] \in Task
    BY DEF Typed
<1>3. t \in Task
    BY <1>1, <1>2 DEF Task
<1>4. [task[c] EXCEPT ![i] = t] \in [Slots -> Task]
    BY <1>3 DEF Typed
<1> QED
    BY <1>1, <1>4 DEF Typed

LEMMA InitTyped == Init => Typed
<1> SUFFICES ASSUME Init PROVE Typed
    OBVIOUS
<1>1. [ask |-> "denied", st |-> "none"] \in Channel
    BY DEF Channel, Asks
<1>2. <<>> \in Seq(Commands) /\ <<>> \in Seq(Replies)
    BY EmptySeq
<1> QED
    BY <1>1, <1>2, TaskTypes, Limits DEF Init, Typed

LEMMA PeerTyped ==
    ASSUME Typed, NEW c \in Conns, Peer(c)
    PROVE  Typed'
<1>1. CASE PeerSends(c)
    <2>1. PICK m \in Commands :
              /\ ctl' = [ctl EXCEPT ![c] = Append(@, m)]
              /\ granted' = [granted EXCEPT ![c] = IF m.op = "cancel" THEN @ \ {m.bind} ELSE @]
        BY <1>1 DEF PeerSends
    <2>2. ctl[c] \in Seq(Commands)
        BY DEF Typed
    <2>3. Append(ctl[c], m) \in Seq(Commands)
        BY <2>2, AppendProperties
    <2>4. ctl' \in [Conns -> Seq(Commands)] /\ granted' \in [Conns -> SUBSET Binds]
        BY <2>1, <2>3 DEF Typed
    <2> QED
        BY <1>1, <2>4 DEF PeerSends, forwardVars, channelVars, Typed
<1>2. CASE PeerReads(c)
    <2>1. rep[c] \in Seq(Replies) /\ rep[c] # <<>>
        BY <1>2 DEF PeerReads, Typed
    <2>2. Head(rep[c]) \in Replies /\ Tail(rep[c]) \in Seq(Replies)
        BY <2>1, HeadTailProperties
    <2>3. Head(rep[c]).kind = "confirm" => Head(rep[c]).bind \in Binds
        BY <2>2 DEF Replies, Ack
    <2>4. rep' \in [Conns -> Seq(Replies)] /\ granted' \in [Conns -> SUBSET Binds]
        BY <1>2, <2>2, <2>3 DEF PeerReads, Typed
    <2> QED
        BY <1>2, <2>4 DEF PeerReads, forwardVars, channelVars, Typed
<1>3. CASE PeerOpensStream(c)
    <2>1. PICK s \in Streams, ask \in Asks :
              chan' = [chan EXCEPT ![c][s] = [ask |-> ask, st |-> "opened"]]
        BY <1>3 DEF PeerOpensStream
    <2>2. [ask |-> ask, st |-> "opened"] \in Channel
        BY DEF Channel
    <2>3. chan' \in [Conns -> [Streams -> Channel]]
        BY <2>1, <2>2 DEF Typed
    <2> QED
        BY <1>3, <2>3 DEF PeerOpensStream, forwardVars, Typed
<1>4. CASE PeerFinishesControl(c)
    BY <1>4 DEF PeerFinishesControl, forwardVars, channelVars, Typed
<1>5. CASE LinkCloses(c)
    BY <1>5 DEF LinkCloses, forwardVars, channelVars, Typed
<1> QED
    BY <1>1, <1>2, <1>3, <1>4, <1>5 DEF Peer

LEMMA DropTyped ==
    ASSUME Typed, NEW c \in Conns, HandleDropped(c)
    PROVE  link' \in [Conns -> {"up", "closed"}]
BY DEF Typed, HandleDropped

LEMMA ControlTyped ==
    ASSUME Typed, NEW c \in Conns, Control(c)
    PROVE  Typed'
<1> DEFINE b == Head(ctl[c]).bind
<1>1. /\ ctl[c] # <<>>
      /\ Tail(ctl[c]) \in Seq(Commands)
      /\ Head(ctl[c]).op \in {"request", "cancel"} => b \in Binds
    <2>1. ctl[c] # <<>>
        BY DEF Control, ForwardRefused, ForwardStarted, ForwardCancelled, KeepAlive, Swallow, Command
    <2> QED
        BY <2>1, NextCommand
<1>2. CASE ForwardRefused(c)
    <2>1. b \in Binds
        BY <1>1, <1>2 DEF ForwardRefused, Command
    <2>2. PICK w \in {"prohibited", "active", "limit"} : Replied(c, Failure(b, w), fwd[c])
        BY <1>2 DEF ForwardRefused
    <2>3. Failure(b, w) \in Replies /\ fwd[c] \in [Binds -> 0..MaxTasks]
        BY <2>1, ReplyTypes DEF Typed
    <2>4. /\ loop' \in [Conns -> {"run", "over"}]
          /\ ctl' \in [Conns -> Seq(Commands)]
          /\ rep' \in [Conns -> Seq(Replies)]
          /\ fwd' \in [Conns -> [Binds -> 0..MaxTasks]]
        BY <1>1, <2>2, <2>3, ReplyKeepsTypes
    <2>5. link' \in [Conns -> {"up", "closed"}]
        BY <1>2, DropTyped DEF ForwardRefused
    <2> QED
        BY <1>2, <2>4, <2>5 DEF ForwardRefused, channelVars, Typed
<1>3. CASE ForwardStarted(c)
    <2>1. b \in Binds
        BY <1>1, <1>3 DEF ForwardStarted, Command
    <2>2. PICK i \in Slots :
              /\ task' = [task EXCEPT ![c][i] = [bind |-> b, aborted |-> FALSE, st |-> "spawned"]]
              /\ Replied(c, Confirm(b), [fwd[c] EXCEPT ![b] = i])
        BY <1>3 DEF ForwardStarted, Spawn
    <2>3. [bind |-> b, aborted |-> FALSE, st |-> "spawned"] \in Task
        BY <2>1, TaskTypes
    <2>4. task' \in [Conns -> [Slots -> Task]]
        BY <2>2, <2>3 DEF Typed
    <2>5. i \in 0..MaxTasks /\ fwd[c] \in [Binds -> 0..MaxTasks]
        BY Limits DEF Slots, Typed
    <2>6. Confirm(b) \in Replies /\ [fwd[c] EXCEPT ![b] = i] \in [Binds -> 0..MaxTasks]
        BY <2>1, <2>5, ReplyTypes
    <2>7. /\ loop' \in [Conns -> {"run", "over"}]
          /\ ctl' \in [Conns -> Seq(Commands)]
          /\ rep' \in [Conns -> Seq(Replies)]
          /\ fwd' \in [Conns -> [Binds -> 0..MaxTasks]]
        BY <1>1, <2>2, <2>6, ReplyKeepsTypes
    <2> QED
        BY <1>3, <2>4, <2>7 DEF ForwardStarted, channelVars, Typed
<1>4. CASE ForwardCancelled(c)
    <2>1. b \in Binds
        BY <1>1, <1>4 DEF ForwardCancelled, Command
    <2>2. fwd' = [fwd EXCEPT ![c][b] = 0] /\ ctl' = [ctl EXCEPT ![c] = Tail(@)]
        BY <1>4 DEF ForwardCancelled
    <2>3. fwd' \in [Conns -> [Binds -> 0..MaxTasks]] /\ ctl' \in [Conns -> Seq(Commands)]
        BY <1>1, <2>1, <2>2, Limits DEF Typed
    <2> DEFINE i == fwd[c][b]
    <2>4. task' = IF i # 0 /\ Alive(task[c][i])
                  THEN [task EXCEPT ![c][i].aborted = TRUE] ELSE task
        BY <1>4 DEF ForwardCancelled
    <2>5. task' \in [Conns -> [Slots -> Task]]
        <3>1. i \in 0..MaxTasks
            BY <2>1 DEF Typed
        <3> HIDE DEF i
        <3>2. CASE i # 0 /\ Alive(task[c][i])
            <4>1. i \in Slots
                BY <3>1, <3>2, Limits DEF Slots
            <4>2. task' = [task EXCEPT ![c][i].aborted = TRUE]
                BY <2>4, <3>2
            <4> QED
                BY <4>1, <4>2, TaskMarked
        <3> QED
            BY <2>4, <3>2 DEF Typed
    <2> QED
        BY <1>4, <2>3, <2>5 DEF ForwardCancelled, channelVars, Typed
<1>5. CASE KeepAlive(c)
    <2>1. Ack \in Replies /\ rep[c] \in Seq(Replies)
        BY DEF Replies, Typed
    <2>2. Append(rep[c], Ack) \in Seq(Replies)
        BY <2>1, AppendProperties
    <2>3. rep' \in [Conns -> Seq(Replies)] /\ ctl' \in [Conns -> Seq(Commands)]
        BY <1>1, <1>5, <2>2 DEF KeepAlive, Typed
    <2> QED
        BY <1>5, <2>3 DEF KeepAlive, forwardVars, channelVars, Typed
<1>6. CASE Swallow(c)
    <2>1. ctl' \in [Conns -> Seq(Commands)]
        BY <1>1, <1>6 DEF Swallow, Typed
    <2> QED
        BY <1>6, <2>1 DEF Swallow, forwardVars, channelVars, Typed
<1> QED
    BY <1>2, <1>3, <1>4, <1>5, <1>6 DEF Control

\* A task that is to be dropped leaves its slot.
LEMMA SlotFreed ==
    ASSUME Typed, NEW c \in Conns, NEW i \in Slots, task' = [task EXCEPT ![c][i] = NoTask]
    PROVE  task' \in [Conns -> [Slots -> Task]]
BY TaskTypes DEF Typed

LEMMA ListenerTyped ==
    ASSUME Typed, NEW c \in Conns, NEW i \in Slots, Listener(c, i)
    PROVE  Typed'
<1>1. CASE Bind(c, i)
    <2>1. task' \in [Conns -> [Slots -> Task]]
        BY <1>1, TaskMarked DEF Bind
    <2> QED
        BY <1>1, <2>1 DEF Bind, channelVars, Typed
<1>2. CASE BindFails(c, i) \/ ListenerEnds(c, i)
    <2>1. task' \in [Conns -> [Slots -> Task]]
        BY <1>2, SlotFreed DEF BindFails, ListenerEnds
    <2>2. link' \in [Conns -> {"up", "closed"}]
        BY <1>2, DropTyped DEF BindFails, ListenerEnds
    <2> QED
        BY <1>2, <2>1, <2>2 DEF BindFails, ListenerEnds, channelVars, Typed
<1>3. CASE TcpArrives(c, i)
    <2>1. relay' \in [Conns -> 0..MaxRelays]
        BY <1>3, Limits DEF TcpArrives, Typed
    <2> QED
        BY <1>3, <2>1 DEF TcpArrives, channelVars, Typed
<1> QED
    BY <1>1, <1>2, <1>3 DEF Listener

LEMMA ChannelTyped ==
    ASSUME Typed, NEW c \in Conns, NEW s \in Streams,
           NEW st \in {"opened", "refused", "ended"} \cup Active,
           chan' = [chan EXCEPT ![c][s].st = st]
    PROVE  chan' \in [Conns -> [Streams -> Channel]]
<1>1. chan[c][s] \in Channel
    BY DEF Typed
<1>2. [chan[c][s] EXCEPT !.st = st] \in Channel
    BY <1>1 DEF Channel
<1>3. [chan[c] EXCEPT ![s] = [chan[c][s] EXCEPT !.st = st]] \in [Streams -> Channel]
    BY <1>2 DEF Typed
<1> QED
    BY <1>3 DEF Typed

LEMMA StreamTyped ==
    ASSUME Typed, NEW c \in Conns,
           AcceptStream(c) \/ \E s \in Streams : Dispatch(c, s) \/ ChannelEnds(c, s)
    PROVE  Typed'
<1>1. CASE AcceptStream(c)
    <2>1. PICK s \in Streams :
              \/ /\ permits[c] > 0
                 /\ chan' = [chan EXCEPT ![c][s].st = "dispatch"]
                 /\ permits' = [permits EXCEPT ![c] = @ - 1]
              \/ chan' = [chan EXCEPT ![c][s].st = "refused"] /\ permits' = permits
        BY <1>1 DEF AcceptStream
    <2>2. chan' \in [Conns -> [Streams -> Channel]]
        BY <2>1, ChannelTyped DEF Active
    <2>3. permits' \in [Conns -> Nat]
        <3>1. permits[c] \in Nat /\ permits \in [Conns -> Nat]
            BY DEF Typed
        <3>2. CASE permits' = [permits EXCEPT ![c] = @ - 1] /\ permits[c] > 0
            BY <3>1, <3>2
        <3> QED
            BY <2>1, <3>1, <3>2
    <2>4. ctl' \in [Conns -> Seq(Commands)] /\ cut' \in [Conns -> BOOLEAN]
        <3>1. RecvCancelled(c)
            BY <1>1 DEF AcceptStream
        <3>2. ctl[c] # <<>> => Tail(ctl[c]) \in Seq(Commands)
            BY NextCommand
        <3>3. CASE UNCHANGED <<cut, ctl>>
            BY <3>3 DEF Typed
        <3>4. CASE ctl[c] # <<>> /\ ctl' = [ctl EXCEPT ![c] = Tail(@)] /\ cut' = [cut EXCEPT ![c] = TRUE]
            BY <3>2, <3>4 DEF Typed
        <3> QED
            BY <3>1, <3>3, <3>4 DEF RecvCancelled
    <2> QED
        BY <1>1, <2>2, <2>3, <2>4 DEF AcceptStream, forwardVars, Typed
<1>2. ASSUME NEW s \in Streams, Dispatch(c, s)
      PROVE  Typed'
    <2>1. chan' \in [Conns -> [Streams -> Channel]]
        BY <1>2, ChannelTyped DEF Dispatch, Active
    <2> QED
        BY <1>2, <2>1 DEF Dispatch, forwardVars, Typed
<1>3. ASSUME NEW s \in Streams, ChannelEnds(c, s)
      PROVE  Typed'
    <2>1. chan' \in [Conns -> [Streams -> Channel]]
        BY <1>3, ChannelTyped DEF ChannelEnds
    <2>2. permits' \in [Conns -> Nat]
        BY <1>3 DEF ChannelEnds, Typed
    <2>3. link' \in [Conns -> {"up", "closed"}]
        BY <1>3, DropTyped DEF ChannelEnds
    <2> QED
        BY <1>3, <2>1, <2>2, <2>3 DEF ChannelEnds, forwardVars, Typed
<1> QED
    BY <1>1, <1>2, <1>3

LEMMA EndsTyped ==
    ASSUME Typed, NEW c \in Conns, LoopEnds(c) \/ Misread(c) \/ RelayEnds(c)
    PROVE  Typed'
<1>1. link' \in [Conns -> {"up", "closed"}]
    BY DropTyped DEF LoopEnds, Misread, RelayEnds
<1>2. CASE LoopEnds(c) \/ Misread(c)
    <2>1. <<>> \in Seq(Commands) /\ [b \in Binds |-> 0] \in [Binds -> 0..MaxTasks]
        BY EmptySeq, Limits
    <2>2. ctl' \in [Conns -> Seq(Commands)]
        BY <1>2, <2>1 DEF LoopEnds, Misread, HandleReturns, Typed
    <2>3. fwd' \in [Conns -> [Binds -> 0..MaxTasks]]
        BY <1>2, <2>1 DEF LoopEnds, Misread, HandleReturns, Typed
    <2> QED
        BY <1>1, <1>2, <2>2, <2>3 DEF LoopEnds, Misread, HandleReturns, channelVars, Typed
<1>3. CASE RelayEnds(c)
    <2>1. relay' \in [Conns -> 0..MaxRelays]
        BY <1>3, Limits DEF RelayEnds, Typed
    <2> QED
        BY <1>1, <1>3, <2>1 DEF RelayEnds, channelVars, Typed
<1> QED
    BY <1>2, <1>3

LEMMA StepTyped == Typed /\ [Next]_vars => Typed'
<1> SUFFICES ASSUME Typed, [Next]_vars PROVE Typed'
    OBVIOUS
<1>1. CASE UNCHANGED vars
    BY <1>1 DEF vars, Typed
<1>2. CASE Next
    <2>1. PICK c \in Conns :
              \/ Peer(c) \/ Loop(c) \/ RelayEnds(c)
              \/ \E s \in Streams : Dispatch(c, s) \/ ChannelEnds(c, s)
              \/ \E i \in Slots : Listener(c, i)
        BY <1>2 DEF Next
    <2> QED
        BY <2>1, PeerTyped, ControlTyped, StreamTyped, EndsTyped, ListenerTyped DEF Loop
<1> QED
    BY <1>1, <1>2

(***************************************************************************)
(* Permits. The balance reads channels and permits; only AcceptStream and  *)
(* ChannelEnds take or give a permit.                                      *)
(***************************************************************************)
LEMMA ActiveFinite == \A c \in Conns : IsFiniteSet(ActiveChannels(c))
<1>1. IsFiniteSet(Streams)
    BY FS_Interval, Limits DEF Streams
<1> QED
    BY <1>1, FS_Subset DEF ActiveChannels

LEMMA SameChannelsBalance ==
    ASSUME ChannelPermitsBalance, permits' = permits,
           \A c \in Conns : ActiveChannels(c)' = ActiveChannels(c)
    PROVE  ChannelPermitsBalance'
BY DEF ChannelPermitsBalance

LEMMA InitBalanced == Init => ChannelPermitsBalance
<1> SUFFICES ASSUME Init, NEW c \in Conns
             PROVE  permits[c] + Cardinality(ActiveChannels(c)) = MaxChannels
    BY DEF ChannelPermitsBalance
<1>1. ActiveChannels(c) = {}
    BY DEF Init, ActiveChannels, Active
<1> QED
    BY <1>1, FS_EmptySet, Limits DEF Init

LEMMA AcceptBalanced ==
    ASSUME Typed, ChannelPermitsBalance, NEW c \in Conns, AcceptStream(c)
    PROVE  ChannelPermitsBalance'
<1>1. PICK s \in Streams :
          /\ chan[c][s].st = "opened"
          /\ \/ /\ permits[c] > 0
                /\ chan' = [chan EXCEPT ![c][s].st = "dispatch"]
                /\ permits' = [permits EXCEPT ![c] = @ - 1]
             \/ /\ chan' = [chan EXCEPT ![c][s].st = "refused"]
                /\ permits' = permits
    BY DEF AcceptStream, NextStream
<1>2. CASE chan' = [chan EXCEPT ![c][s].st = "refused"] /\ permits' = permits
    <2>1. \A d \in Conns : ActiveChannels(d)' = ActiveChannels(d)
        BY <1>1, <1>2 DEF ActiveChannels, Active, Typed, Channel
    <2> QED
        BY <1>2, <2>1, SameChannelsBalance
<1>3. CASE /\ permits[c] > 0
           /\ chan' = [chan EXCEPT ![c][s].st = "dispatch"]
           /\ permits' = [permits EXCEPT ![c] = @ - 1]
    <2>1. \A d \in Conns \ {c} : ActiveChannels(d)' = ActiveChannels(d) /\ permits'[d] = permits[d]
        BY <1>3 DEF ActiveChannels, Typed
    <2>2. ActiveChannels(c)' = ActiveChannels(c) \cup {s} /\ s \notin ActiveChannels(c)
        BY <1>1, <1>3 DEF ActiveChannels, Active, Typed, Channel
    <2>3. /\ Cardinality(ActiveChannels(c)') = Cardinality(ActiveChannels(c)) + 1
          /\ Cardinality(ActiveChannels(c)) \in Nat
        BY <2>2, ActiveFinite, FS_AddElement, FS_CardinalityType
    <2>4. permits[c] \in Nat /\ permits'[c] = permits[c] - 1
        BY <1>3 DEF Typed
    <2> QED
        BY <2>1, <2>3, <2>4, Limits DEF ChannelPermitsBalance
<1> QED
    BY <1>1, <1>2, <1>3

LEMMA EndBalanced ==
    ASSUME Typed, ChannelPermitsBalance, NEW c \in Conns, NEW s \in Streams, ChannelEnds(c, s)
    PROVE  ChannelPermitsBalance'
<1>1. /\ chan[c][s].st \in Active
      /\ chan' = [chan EXCEPT ![c][s].st = "ended"]
      /\ permits' = [permits EXCEPT ![c] = @ + 1]
    BY DEF ChannelEnds, MayEnd, Active
<1>2. \A d \in Conns \ {c} : ActiveChannels(d)' = ActiveChannels(d) /\ permits'[d] = permits[d]
    BY <1>1 DEF ActiveChannels, Typed
<1>3. ActiveChannels(c)' = ActiveChannels(c) \ {s} /\ s \in ActiveChannels(c)
    BY <1>1 DEF ActiveChannels, Active, Typed, Channel
<1>4. /\ Cardinality(ActiveChannels(c)') = Cardinality(ActiveChannels(c)) - 1
      /\ Cardinality(ActiveChannels(c)) \in Nat
    BY <1>3, ActiveFinite, FS_RemoveElement, FS_CardinalityType
<1>5. permits[c] \in Nat /\ permits'[c] = permits[c] + 1
    BY <1>1 DEF Typed
<1> QED
    BY <1>2, <1>4, <1>5, Limits DEF ChannelPermitsBalance

LEMMA StepBalanced ==
    Typed /\ ChannelPermitsBalance /\ [Next]_vars => ChannelPermitsBalance'
<1> SUFFICES ASSUME Typed, ChannelPermitsBalance, [Next]_vars
             PROVE  ChannelPermitsBalance'
    OBVIOUS
<1>1. ASSUME channelVars' = channelVars
      PROVE  ChannelPermitsBalance'
    <2>1. \A d \in Conns : ActiveChannels(d)' = ActiveChannels(d)
        BY <1>1 DEF channelVars, ActiveChannels
    <2> QED
        BY <1>1, <2>1, SameChannelsBalance DEF channelVars
<1>2. CASE UNCHANGED vars
    BY <1>1, <1>2 DEF vars, channelVars
<1>3. CASE Next
    <2>1. PICK c \in Conns :
              \/ Peer(c) \/ Loop(c) \/ RelayEnds(c)
              \/ \E s \in Streams : Dispatch(c, s) \/ ChannelEnds(c, s)
              \/ \E i \in Slots : Listener(c, i)
        BY <1>3 DEF Next
    <2>2. CASE PeerOpensStream(c)
        <3>1. PICK s \in Streams, ask \in Asks :
                  /\ chan[c][s].st = "none"
                  /\ chan' = [chan EXCEPT ![c][s] = [ask |-> ask, st |-> "opened"]]
            BY <2>2 DEF PeerOpensStream
        <3>2. \A d \in Conns : ActiveChannels(d)' = ActiveChannels(d)
            BY <3>1 DEF ActiveChannels, Active, Typed
        <3> QED
            BY <2>2, <3>2, SameChannelsBalance DEF PeerOpensStream
    <2>3. CASE AcceptStream(c)
        BY <2>3, AcceptBalanced
    <2>4. ASSUME NEW s \in Streams, Dispatch(c, s)
          PROVE  ChannelPermitsBalance'
        <3>1. chan[c][s].st = "dispatch" /\ chan' = [chan EXCEPT ![c][s].st = "running"]
            BY <2>4 DEF Dispatch
        <3>2. \A d \in Conns : ActiveChannels(d)' = ActiveChannels(d)
            BY <3>1 DEF ActiveChannels, Active, Typed, Channel
        <3> QED
            BY <2>4, <3>2, SameChannelsBalance DEF Dispatch
    <2>5. ASSUME NEW s \in Streams, ChannelEnds(c, s)
          PROVE  ChannelPermitsBalance'
        BY <2>5, EndBalanced
    <2>6. CASE PeerSends(c) \/ PeerReads(c) \/ PeerFinishesControl(c) \/ LinkCloses(c)
        BY <1>1, <2>6 DEF PeerSends, PeerReads, PeerFinishesControl, LinkCloses
    <2>7. CASE Control(c)
        BY <1>1, <2>7 DEF Control, ForwardRefused, ForwardStarted, ForwardCancelled, KeepAlive,
                          Swallow
    <2>8. CASE LoopEnds(c) \/ Misread(c) \/ RelayEnds(c)
        BY <1>1, <2>8 DEF LoopEnds, Misread, RelayEnds
    <2>9. ASSUME NEW i \in Slots, Listener(c, i)
          PROVE  ChannelPermitsBalance'
        BY <1>1, <2>9 DEF Listener, Bind, BindFails, ListenerEnds, TcpArrives
    <2> QED
        BY <2>1, <2>2, <2>3, <2>4, <2>5, <2>6, <2>7, <2>8, <2>9 DEF Peer, Loop
<1> QED
    BY <1>2, <1>3

LEMMA TypedIsTypeOK == Typed /\ ChannelPermitsBalance => TypeOK
<1> SUFFICES ASSUME Typed, ChannelPermitsBalance PROVE TypeOK
    OBVIOUS
<1>1. \A c \in Conns : permits[c] \in 0..MaxChannels
    <2> SUFFICES ASSUME NEW c \in Conns PROVE permits[c] \in 0..MaxChannels
        OBVIOUS
    <2>1. permits[c] \in Nat /\ Cardinality(ActiveChannels(c)) \in Nat
        BY ActiveFinite, FS_CardinalityType DEF Typed
    <2>2. permits[c] + Cardinality(ActiveChannels(c)) = MaxChannels
        BY DEF ChannelPermitsBalance
    <2> QED
        BY <2>1, <2>2, Limits
<1>2. permits \in [Conns -> 0..MaxChannels]
    BY <1>1 DEF Typed
<1> QED
    BY <1>2 DEF Typed, TypeOK, Task, Channel

\* Type correctness of the connection loop and its tasks.
THEOREM TypeCorrect == Spec => []TypeOK
<1>1. Init => Typed /\ ChannelPermitsBalance
    BY InitTyped, InitBalanced
<1>2. Typed /\ ChannelPermitsBalance /\ [Next]_vars => (Typed /\ ChannelPermitsBalance)'
    BY StepTyped, StepBalanced
<1>3. Typed /\ ChannelPermitsBalance => TypeOK
    BY TypedIsTypeOK
<1> QED
    BY <1>1, <1>2, <1>3, PTL DEF Spec

\* channel_limiter: a permit is taken once and given back once for each channel
\* that was served, whichever way its task ends.
THEOREM PermitsBalanced == Spec => []ChannelPermitsBalance
<1>1. Init => Typed /\ ChannelPermitsBalance
    BY InitTyped, InitBalanced
<1>2. Typed /\ ChannelPermitsBalance /\ [Next]_vars => (Typed /\ ChannelPermitsBalance)'
    BY StepTyped, StepBalanced
<1> QED
    BY <1>1, <1>2, PTL DEF Spec

(***************************************************************************)
(* A step is one of a connection: the others keep what is theirs.          *)
(***************************************************************************)
Acts(c) ==
    \/ Peer(c) \/ Loop(c) \/ RelayEnds(c)
    \/ \E s \in Streams : Dispatch(c, s) \/ ChannelEnds(c, s)
    \/ \E i \in Slots : Listener(c, i)

LEMMA NextActs == Next => \E c \in Conns : Acts(c)
BY DEF Next, Acts

LEMMA ReplyIsLocal ==
    ASSUME Typed, NEW c \in Conns, NEW r, NEW f, Replied(c, r, f), NEW d \in Conns \ {c}
    PROVE  loop'[d] = loop[d] /\ ctl'[d] = ctl[d] /\ rep'[d] = rep[d] /\ fwd'[d] = fwd[d]
BY DEF Replied, HandleReturns, Typed

LEMMA DropIsLocal ==
    ASSUME Typed, NEW c \in Conns, HandleDropped(c)
    PROVE  /\ \A d \in Conns \ {c} : link'[d] = link[d]
           /\ link'[c] = "up" => link[c] = "up"
BY DEF HandleDropped, Typed

LEMMA StepIsLocal ==
    ASSUME Typed, NEW c \in Conns, Acts(c), NEW d \in Conns \ {c}
    PROVE  /\ loop'[d] = loop[d] /\ link'[d] = link[d] /\ ctl'[d] = ctl[d] /\ cut'[d] = cut[d]
           /\ rep'[d] = rep[d] /\ granted'[d] = granted[d]
           /\ fwd'[d] = fwd[d] /\ task'[d] = task[d]
<1>1. CASE Peer(c)
    BY <1>1 DEF Peer, PeerSends, PeerReads, PeerOpensStream, PeerFinishesControl, LinkCloses,
                forwardVars, Typed
<1>2. CASE ForwardRefused(c)
    BY <1>2, ReplyIsLocal, DropIsLocal DEF ForwardRefused
<1>3. CASE ForwardStarted(c)
    <2>1. task'[d] = task[d]
        BY <1>3 DEF ForwardStarted, Spawn, Typed
    <2> QED
        BY <1>3, <2>1, ReplyIsLocal DEF ForwardStarted, Spawn
<1>4. CASE ForwardCancelled(c)
    BY <1>4 DEF ForwardCancelled, Typed
<1>5. CASE KeepAlive(c)
    BY <1>5 DEF KeepAlive, forwardVars, Typed
<1>6. CASE AcceptStream(c)
    <2>1. ctl'[d] = ctl[d] /\ cut'[d] = cut[d]
        BY <1>6 DEF AcceptStream, RecvCancelled, Typed
    <2> QED
        BY <1>6, <2>1 DEF AcceptStream, forwardVars
<1>7. CASE LoopEnds(c) \/ Misread(c)
    BY <1>7, DropIsLocal DEF LoopEnds, Misread, HandleReturns, Typed
<1>8. CASE RelayEnds(c)
    BY <1>8, DropIsLocal DEF RelayEnds
<1>9. ASSUME NEW s \in Streams, Dispatch(c, s) \/ ChannelEnds(c, s)
      PROVE  /\ loop'[d] = loop[d] /\ link'[d] = link[d] /\ ctl'[d] = ctl[d] /\ cut'[d] = cut[d]
             /\ rep'[d] = rep[d] /\ granted'[d] = granted[d]
             /\ fwd'[d] = fwd[d] /\ task'[d] = task[d]
    BY <1>9, DropIsLocal DEF Dispatch, ChannelEnds, forwardVars
<1>10. ASSUME NEW i \in Slots, Listener(c, i)
       PROVE  /\ loop'[d] = loop[d] /\ link'[d] = link[d] /\ ctl'[d] = ctl[d] /\ cut'[d] = cut[d]
              /\ rep'[d] = rep[d] /\ granted'[d] = granted[d]
              /\ fwd'[d] = fwd[d] /\ task'[d] = task[d]
    <2>1. task'[d] = task[d]
        BY <1>10 DEF Listener, Bind, BindFails, ListenerEnds, TcpArrives, Typed
    <2> QED
        BY <1>10, <2>1, DropIsLocal DEF Listener, Bind, BindFails, ListenerEnds, TcpArrives
<1>11. CASE Swallow(c)
    BY <1>11 DEF Swallow, forwardVars, Typed
<1> QED
    BY <1>1, <1>2, <1>3, <1>4, <1>5, <1>6, <1>7, <1>8, <1>9, <1>10, <1>11 DEF Acts, Loop, Control

(***************************************************************************)
(* Listeners. The part of NoOrphanListener about one connection; only the  *)
(* handlers of control messages and the tasks themselves can disturb it.   *)
(***************************************************************************)
Reachable(c) ==
    loop[c] = "run" =>
        /\ \A i \in Slots :
             Alive(task[c][i]) /\ ~task[c][i].aborted => fwd[c][task[c][i].bind] = i
        /\ \A a, b \in Mapped(c) : fwd[c][a] = fwd[c][b] => a = b
        /\ Cardinality(Mapped(c)) <= MaxForwards

LEMMA MappedFinite ==
    \A c \in Conns : IsFiniteSet(Mapped(c)) /\ Cardinality(Mapped(c)) \in Nat
BY ConnectionAssumption, FS_Subset, FS_CardinalityType DEF Mapped

LEMMA SameReachable ==
    ASSUME NEW c \in Conns, Reachable(c),
           loop'[c] = loop[c], fwd'[c] = fwd[c], task'[c] = task[c]
    PROVE  Reachable(c)'
<1>1. Mapped(c)' = Mapped(c)
    BY DEF Mapped
<1> QED
    BY <1>1 DEF Reachable

LEMMA OverReachable ==
    ASSUME NEW c \in Conns, loop'[c] = "over"
    PROVE  Reachable(c)'
BY DEF Reachable

LEMMA StartedReachable ==
    ASSUME Typed, NEW c \in Conns, Reachable(c), ForwardStarted(c)
    PROVE  Reachable(c)'
<1> DEFINE b == Head(ctl[c]).bind
<1>1. loop[c] = "run" /\ b \in Binds /\ fwd[c][b] = 0 /\ Cardinality(Mapped(c)) < MaxForwards
    BY ConnectionAssumption DEF ForwardStarted, Command
<1>2. PICK i \in Slots :
          /\ ~Alive(task[c][i])
          /\ \A a \in Binds : fwd[c][a] # i
          /\ task' = [task EXCEPT ![c][i] = [bind |-> b, aborted |-> FALSE, st |-> "spawned"]]
          /\ Replied(c, Confirm(b), [fwd[c] EXCEPT ![b] = i])
    BY DEF ForwardStarted, Spawn
<1> HIDE DEF b
<1>3. CASE link[c] # "up"
    <2>1. loop'[c] = "over"
        BY <1>2, <1>3 DEF Replied, HandleReturns, Typed
    <2> QED
        BY <2>1, OverReachable
<1>4. CASE link[c] = "up"
    <2>1. fwd'[c] = [fwd[c] EXCEPT ![b] = i] /\ fwd[c] \in [Binds -> 0..MaxTasks]
        BY <1>2, <1>4 DEF Replied, Typed
    <2>2. i # 0
        BY DEF Slots
    <2>3. /\ task'[c][i] = [bind |-> b, aborted |-> FALSE, st |-> "spawned"]
          /\ \A j \in Slots \ {i} : task'[c][j] = task[c][j] /\ task[c][j].bind \in Binds
        BY <1>2 DEF Typed, Task
    <2>4. Mapped(c)' = Mapped(c) \cup {b}
        BY <1>1, <2>1, <2>2 DEF Mapped
    <2>5. Cardinality(Mapped(c)') <= MaxForwards
        <3>1. b \notin Mapped(c)
            BY <1>1 DEF Mapped
        <3>2. Cardinality(Mapped(c) \cup {b}) = Cardinality(Mapped(c)) + 1
            BY <3>1, MappedFinite, FS_AddElement
        <3> QED
            BY <1>1, <2>4, <3>2, MappedFinite, Limits
    <2>6. \A j \in Slots : Alive(task'[c][j]) /\ ~task'[c][j].aborted
                            => fwd'[c][task'[c][j].bind] = j
        <3> SUFFICES ASSUME NEW j \in Slots, Alive(task'[c][j]), ~task'[c][j].aborted
                     PROVE  fwd'[c][task'[c][j].bind] = j
            OBVIOUS
        <3>1. CASE j = i
            BY <1>1, <2>1, <2>3, <3>1
        <3>2. CASE j # i
            <4>1. task'[c][j] = task[c][j] /\ task[c][j].bind \in Binds
                BY <2>3, <3>2
            <4>2. fwd[c][task[c][j].bind] = j
                BY <1>1, <4>1 DEF Reachable
            <4>3. j # 0
                BY DEF Slots
            <4>4. task[c][j].bind # b
                BY <1>1, <4>2, <4>3
            <4> QED
                BY <1>1, <2>1, <4>1, <4>2, <4>4
        <3> QED
            BY <3>1, <3>2
    <2>7. \A x, y \in Mapped(c)' : fwd'[c][x] = fwd'[c][y] => x = y
        BY <1>1, <1>2, <2>1, <2>4 DEF Reachable, Mapped
    <2> QED
        BY <2>5, <2>6, <2>7 DEF Reachable
<1> QED
    BY <1>3, <1>4

LEMMA CancelledReachable ==
    ASSUME Typed, NEW c \in Conns, Reachable(c), ForwardCancelled(c)
    PROVE  Reachable(c)'
<1> DEFINE b == Head(ctl[c]).bind
           k == fwd[c][b]
<1>1. loop[c] = "run" /\ loop' = loop /\ b \in Binds
    <2>1. ctl[c] # <<>> /\ Head(ctl[c]).op = "cancel"
        BY DEF ForwardCancelled, Command
    <2> QED
        BY <2>1, NextCommand DEF ForwardCancelled, Command
<1>2. /\ fwd' = [fwd EXCEPT ![c][b] = 0]
      /\ task' = IF k # 0 /\ Alive(task[c][k])
                 THEN [task EXCEPT ![c][k].aborted = TRUE] ELSE task
    BY DEF ForwardCancelled
<1>3. fwd'[c] = [fwd[c] EXCEPT ![b] = 0] /\ fwd[c] \in [Binds -> 0..MaxTasks] /\ k \in 0..MaxTasks
    BY <1>1, <1>2 DEF Typed
<1>4. \A j \in Slots :
          Alive(task'[c][j]) /\ ~task'[c][j].aborted
          => j # k /\ task'[c][j] = task[c][j] /\ task[c][j].bind \in Binds
    <2> SUFFICES ASSUME NEW j \in Slots, Alive(task'[c][j]), ~task'[c][j].aborted
                 PROVE  j # k /\ task'[c][j] = task[c][j] /\ task[c][j].bind \in Binds
        OBVIOUS
    <2> HIDE DEF k
    <2>1. task[c][j] \in Task /\ task \in [Conns -> [Slots -> Task]]
        BY DEF Typed
    <2>2. j # 0
        BY DEF Slots
    <2>3. CASE k # 0 /\ Alive(task[c][k])
        <3>1. task' = [task EXCEPT ![c][k].aborted = TRUE]
            BY <1>2, <2>3
        <3>2. j = k => task'[c][j] = [task[c][j] EXCEPT !.aborted = TRUE]
            BY <2>1, <3>1
        <3>3. j = k => task'[c][j].aborted
            BY <2>1, <3>2 DEF Task
        <3>4. j # k => task'[c][j] = task[c][j]
            BY <2>1, <3>1
        <3> QED
            BY <2>1, <3>3, <3>4 DEF Task
    <2>4. CASE ~(k # 0 /\ Alive(task[c][k]))
        BY <1>2, <2>1, <2>2, <2>4 DEF Task
    <2> QED
        BY <2>3, <2>4
<1> HIDE DEF b, k
<1>5. Mapped(c)' = Mapped(c) \ {b}
    BY <1>1, <1>3 DEF Mapped
<1>6. Cardinality(Mapped(c)') <= Cardinality(Mapped(c)) /\ Cardinality(Mapped(c)') \in Nat
    BY <1>5, MappedFinite, FS_Subset, FS_CardinalityType
<1>7. \A j \in Slots : Alive(task'[c][j]) /\ ~task'[c][j].aborted
                        => fwd'[c][task'[c][j].bind] = j
    <2> SUFFICES ASSUME NEW j \in Slots, Alive(task'[c][j]), ~task'[c][j].aborted
                 PROVE  fwd'[c][task'[c][j].bind] = j
        OBVIOUS
    <2>1. j # k /\ task'[c][j] = task[c][j] /\ task[c][j].bind \in Binds
        BY <1>4
    <2>2. fwd[c][task[c][j].bind] = j
        BY <1>1, <2>1 DEF Reachable
    <2>3. task[c][j].bind # b
        BY <2>1, <2>2 DEF k
    <2> QED
        BY <1>3, <2>1, <2>2, <2>3
<1>8. \A x, y \in Mapped(c)' : fwd'[c][x] = fwd'[c][y] => x = y
    BY <1>1, <1>3, <1>5 DEF Reachable, Mapped
<1>9. Cardinality(Mapped(c)') <= MaxForwards
    BY <1>1, <1>6, MappedFinite, Limits DEF Reachable
<1> QED
    BY <1>7, <1>8, <1>9 DEF Reachable

LEMMA ListenerReachable ==
    ASSUME Typed, NEW c \in Conns, NEW i \in Slots, Reachable(c), Listener(c, i)
    PROVE  Reachable(c)'
<1>1. loop' = loop /\ fwd' = fwd
    BY DEF Listener, Bind, BindFails, ListenerEnds, TcpArrives
<1>2. Mapped(c)' = Mapped(c)
    BY <1>1 DEF Mapped
<1>3. \A j \in Slots : Alive(task'[c][j]) /\ ~task'[c][j].aborted
                        => /\ Alive(task[c][j]) /\ ~task[c][j].aborted
                           /\ task'[c][j].bind = task[c][j].bind
    <2> SUFFICES ASSUME NEW j \in Slots, Alive(task'[c][j]), ~task'[c][j].aborted
                 PROVE  /\ Alive(task[c][j]) /\ ~task[c][j].aborted
                        /\ task'[c][j].bind = task[c][j].bind
        OBVIOUS
    <2>1. task[c][j] \in Task /\ task \in [Conns -> [Slots -> Task]]
        BY DEF Typed
    <2>2. CASE Bind(c, i)
        <3>1. task[c][i].st = "spawned" /\ task' = [task EXCEPT ![c][i].st = "listening"]
            BY <2>2 DEF Bind
        <3>2. j # i => task'[c][j] = task[c][j]
            BY <2>1, <3>1
        <3>3. j = i => task'[c][j] = [task[c][j] EXCEPT !.st = "listening"]
            BY <2>1, <3>1
        <3>4. j = i => /\ task'[c][j].aborted = task[c][j].aborted
                       /\ task'[c][j].bind = task[c][j].bind
            BY <2>1, <3>3 DEF Task
        <3>5. Alive(task[c][j])
            BY <3>1, <3>2 DEF Alive
        <3> QED
            BY <3>2, <3>4, <3>5
    <2>3. CASE BindFails(c, i) \/ ListenerEnds(c, i)
        <3>1. task' = [task EXCEPT ![c][i] = NoTask]
            BY <2>3 DEF BindFails, ListenerEnds
        <3>2. j # i
            BY <2>1, <3>1 DEF NoTask, Alive
        <3> QED
            BY <2>1, <3>1, <3>2
    <2>4. CASE TcpArrives(c, i)
        BY <2>4 DEF TcpArrives
    <2> QED
        BY <2>2, <2>3, <2>4 DEF Listener
<1> QED
    BY <1>1, <1>2, <1>3 DEF Reachable

LEMMA StepReachable ==
    Typed /\ NoOrphanListener /\ [Next]_vars => NoOrphanListener'
<1> SUFFICES ASSUME Typed, NoOrphanListener, [Next]_vars, NEW d \in Conns
             PROVE  Reachable(d)'
    BY DEF NoOrphanListener, Reachable
<1>1. Reachable(d)
    BY DEF NoOrphanListener, Reachable
<1>2. CASE UNCHANGED vars
    BY <1>1, <1>2, SameReachable DEF vars
<1>3. ASSUME NEW c \in Conns, Acts(c), c # d
      PROVE  Reachable(d)'
    BY <1>1, <1>3, StepIsLocal, SameReachable
<1>4. ASSUME Acts(d)
      PROVE  Reachable(d)'
    <2>1. CASE Peer(d)
        BY <1>1, <2>1, SameReachable
           DEF Peer, PeerSends, PeerReads, PeerOpensStream, PeerFinishesControl, LinkCloses,
               forwardVars
    <2>2. CASE ForwardRefused(d)
        <3>1. task' = task /\ (\E r : Replied(d, r, fwd[d]))
            BY <2>2 DEF ForwardRefused
        <3>2. loop'[d] = "over" \/ (loop'[d] = loop[d] /\ fwd'[d] = fwd[d])
            BY <3>1 DEF Replied, HandleReturns, Typed
        <3> QED
            BY <1>1, <3>1, <3>2, OverReachable, SameReachable
    <2>3. CASE ForwardStarted(d)
        BY <1>1, <2>3, StartedReachable
    <2>4. CASE ForwardCancelled(d)
        BY <1>1, <2>4, CancelledReachable
    <2>5. CASE KeepAlive(d) \/ Swallow(d) \/ AcceptStream(d) \/ RelayEnds(d)
        BY <1>1, <2>5, SameReachable DEF KeepAlive, Swallow, AcceptStream, RelayEnds, forwardVars
    <2>6. CASE LoopEnds(d) \/ Misread(d)
        BY <2>6, OverReachable DEF LoopEnds, Misread, HandleReturns, Typed
    <2>7. ASSUME NEW s \in Streams, Dispatch(d, s) \/ ChannelEnds(d, s)
          PROVE  Reachable(d)'
        BY <1>1, <2>7, SameReachable DEF Dispatch, ChannelEnds, forwardVars
    <2>8. ASSUME NEW i \in Slots, Listener(d, i)
          PROVE  Reachable(d)'
        BY <1>1, <2>8, ListenerReachable
    <2> QED
        BY <1>4, <2>1, <2>2, <2>3, <2>4, <2>5, <2>6, <2>7, <2>8 DEF Acts, Loop, Control
<1> QED
    BY <1>2, <1>3, <1>4, NextActs

LEMMA InitReachable == Init => NoOrphanListener
<1> SUFFICES ASSUME Init, NEW c \in Conns PROVE Reachable(c)
    BY DEF NoOrphanListener, Reachable
<1>1. Mapped(c) = {}
    BY DEF Init, Mapped
<1>2. \A i \in Slots : ~Alive(task[c][i])
    BY DEF Init, NoTask, Alive
<1> QED
    BY <1>1, <1>2, FS_EmptySet, Limits DEF Reachable

\* forward_tasks: as long as the loop runs, every listener that nobody aborted
\* can be reached by a cancel, and there are at most as many as the limit says.
THEOREM ListenersReachable == Spec => []NoOrphanListener
<1>1. Init => Typed /\ NoOrphanListener
    BY InitTyped, InitReachable
<1>2. Typed /\ NoOrphanListener /\ [Next]_vars => (Typed /\ NoOrphanListener)'
    BY StepTyped, StepReachable
<1> QED
    BY <1>1, <1>2, PTL DEF Spec

(***************************************************************************)
(* What the peer was told. A request is the last message of the peer until *)
(* it is answered, and a confirmation that is under way finds the control  *)
(* stream empty; so of a bind the peer keeps or is about to learn of, the  *)
(* server has an entry, and every other entry has a cancel coming. That is *)
(* so until a command is cut.                                              *)
(***************************************************************************)
Within(q, m) == \E n \in DOMAIN q : q[n] = m
Cancel(b) == [op |-> "cancel", bind |-> b]

Agreement(c) ==
    loop[c] = "run" /\ link[c] = "up" /\ ~cut[c] =>
        /\ \A n \in DOMAIN ctl[c] : ctl[c][n].op = "request" => n = Len(ctl[c])
        /\ \A b \in Binds : Within(rep[c], Confirm(b)) => ctl[c] = <<>>
        /\ \A b \in Binds :
             fwd[c][b] # 0 /\ ~Within(ctl[c], Cancel(b))
             <=> b \in granted[c] \/ Within(rep[c], Confirm(b))

LEMMA WithinAppend ==
    ASSUME NEW S, NEW q \in Seq(S), NEW m \in S, NEW x
    PROVE  Within(Append(q, m), x) <=> Within(q, x) \/ m = x
<1>1. /\ Len(q) \in Nat /\ DOMAIN q = 1..Len(q)
      /\ DOMAIN Append(q, m) = 1..(Len(q) + 1)
      /\ Append(q, m)[Len(q) + 1] = m
      /\ \A n \in 1..Len(q) : Append(q, m)[n] = q[n]
    BY LenProperties, AppendProperties
<1>2. \A n : n \in 1..(Len(q) + 1) <=> n \in 1..Len(q) \/ n = Len(q) + 1
    BY <1>1
<1> QED
    BY <1>1, <1>2 DEF Within

LEMMA WithinTail ==
    ASSUME NEW S, NEW q \in Seq(S), q # <<>>, NEW x
    PROVE  Within(q, x) <=> Head(q) = x \/ Within(Tail(q), x)
<1>1. /\ Len(q) \in Nat /\ Len(q) # 0 /\ DOMAIN q = 1..Len(q)
      /\ DOMAIN Tail(q) = 1..(Len(q) - 1)
      /\ Head(q) = q[1]
      /\ \A n \in 1..(Len(q) - 1) : Tail(q)[n] = q[n + 1]
    BY EmptySeq, LenProperties, HeadTailProperties
<1>2. ASSUME Within(q, x)
      PROVE  Head(q) = x \/ Within(Tail(q), x)
    <2>1. PICK n \in 1..Len(q) : q[n] = x
        BY <1>1, <1>2 DEF Within
    <2>2. CASE n = 1
        BY <1>1, <2>1, <2>2
    <2>3. CASE n # 1
        <3>1. n - 1 \in 1..(Len(q) - 1) /\ (n - 1) + 1 = n
            BY <1>1, <2>1, <2>3
        <3>2. Tail(q)[n - 1] = x
            BY <1>1, <2>1, <3>1
        <3> QED
            BY <1>1, <3>1, <3>2 DEF Within
    <2> QED
        BY <2>2, <2>3
<1>3. ASSUME Within(Tail(q), x)
      PROVE  Within(q, x)
    <2>1. PICK n \in 1..(Len(q) - 1) : Tail(q)[n] = x
        BY <1>1, <1>3 DEF Within
    <2>2. n + 1 \in 1..Len(q) /\ q[n + 1] = x
        BY <1>1, <2>1
    <2> QED
        BY <1>1, <2>2 DEF Within
<1>4. Head(q) = x => Within(q, x)
    <2>1. 1 \in 1..Len(q)
        BY <1>1
    <2> QED
        BY <1>1, <2>1 DEF Within
<1> QED
    BY <1>2, <1>3, <1>4

LEMMA WithinEmpty == \A x : ~Within(<<>>, x)
BY DEF Within

\* A request is the last message: of a longer sequence what remains, the same;
\* of a sequence that starts with it, nothing.
LEMMA RequestLast ==
    ASSUME NEW q \in Seq(Commands), q # <<>>,
           \A n \in DOMAIN q : q[n].op = "request" => n = Len(q)
    PROVE  /\ Head(q).op = "request" => Tail(q) = <<>>
           /\ \A n \in DOMAIN Tail(q) : Tail(q)[n].op = "request" => n = Len(Tail(q))
<1>1. /\ Len(q) \in Nat /\ Len(q) # 0 /\ DOMAIN q = 1..Len(q)
      /\ Tail(q) \in Seq(Commands) /\ Len(Tail(q)) = Len(q) - 1
      /\ DOMAIN Tail(q) = 1..(Len(q) - 1)
      /\ Head(q) = q[1]
      /\ \A n \in 1..(Len(q) - 1) : Tail(q)[n] = q[n + 1]
    BY EmptySeq, LenProperties, HeadTailProperties
<1>2. ASSUME Head(q).op = "request"
      PROVE  Tail(q) = <<>>
    <2>1. 1 \in DOMAIN q
        BY <1>1
    <2>2. Len(Tail(q)) = 0
        BY <1>1, <1>2, <2>1
    <2> QED
        BY <1>1, <2>2, EmptySeq
<1>3. ASSUME NEW n \in DOMAIN Tail(q), Tail(q)[n].op = "request"
      PROVE  n = Len(Tail(q))
    <2>1. n \in 1..(Len(q) - 1) /\ q[n + 1].op = "request" /\ n + 1 \in DOMAIN q
        BY <1>1, <1>3
    <2> QED
        BY <1>1, <2>1
<1> QED
    BY <1>2, <1>3

LEMMA CommandIsCancel ==
    ASSUME NEW m \in Commands, m.op = "cancel"
    PROVE  m = Cancel(m.bind)
BY DEF Commands, Cancel

LEMMA SameAgreement ==
    ASSUME NEW c \in Conns, Agreement(c), loop'[c] = "run" => loop[c] = "run",
           link'[c] = "up" => link[c] = "up", ~cut'[c] => ~cut[c],
           ctl'[c] = ctl[c], rep'[c] = rep[c], granted'[c] = granted[c], fwd'[c] = fwd[c]
    PROVE  Agreement(c)'
BY DEF Agreement

LEMMA OverAgreement ==
    ASSUME NEW c \in Conns, loop'[c] = "over"
    PROVE  Agreement(c)'
BY DEF Agreement

LEMMA SendAgreement ==
    ASSUME Typed, NEW c \in Conns, Agreement(c), ~cut[c], PeerSends(c)
    PROVE  Agreement(c)'
<1>1. PICK m \in Commands :
          /\ ctl' = [ctl EXCEPT ![c] = Append(@, m)]
          /\ granted' = [granted EXCEPT ![c] = IF m.op = "cancel" THEN @ \ {m.bind} ELSE @]
    BY DEF PeerSends
<1>2. /\ loop[c] = "run" /\ link[c] = "up" /\ rep[c] = <<>>
      /\ \A n \in DOMAIN ctl[c] : ctl[c][n].op # "request"
      /\ loop' = loop /\ link' = link /\ rep' = rep /\ fwd' = fwd
    BY DEF PeerSends, Awaiting, forwardVars
<1>3. /\ ctl[c] \in Seq(Commands) /\ ctl'[c] = Append(ctl[c], m)
      /\ granted'[c] = IF m.op = "cancel" THEN granted[c] \ {m.bind} ELSE granted[c]
    BY <1>1 DEF Typed
<1>4. \A n \in DOMAIN ctl'[c] : ctl'[c][n].op = "request" => n = Len(ctl'[c])
    <2>1. /\ Len(ctl[c]) \in Nat /\ DOMAIN ctl[c] = 1..Len(ctl[c])
          /\ Len(ctl'[c]) = Len(ctl[c]) + 1 /\ DOMAIN ctl'[c] = 1..(Len(ctl[c]) + 1)
          /\ \A n \in 1..Len(ctl[c]) : ctl'[c][n] = ctl[c][n]
        BY <1>3, LenProperties, AppendProperties
    <2> QED
        BY <1>2, <2>1
<1>5. ASSUME NEW b \in Binds
      PROVE  fwd'[c][b] # 0 /\ ~Within(ctl'[c], Cancel(b))
             <=> b \in granted'[c] \/ Within(rep'[c], Confirm(b))
    <2>1. Within(ctl'[c], Cancel(b)) <=> Within(ctl[c], Cancel(b)) \/ m = Cancel(b)
        BY <1>3, WithinAppend
    <2>2. fwd[c][b] # 0 /\ ~Within(ctl[c], Cancel(b)) <=> b \in granted[c]
        BY <1>2, WithinEmpty DEF Agreement
    <2>3. ~Within(rep'[c], Confirm(b))
        BY <1>2, WithinEmpty
    <2>4. m = Cancel(b) <=> m.op = "cancel" /\ m.bind = b
        BY CommandIsCancel DEF Cancel
    <2> QED
        BY <1>2, <1>3, <2>1, <2>2, <2>3, <2>4
<1>6. \A b \in Binds : ~Within(rep'[c], Confirm(b))
    BY <1>2, WithinEmpty
<1> QED
    BY <1>4, <1>5, <1>6 DEF Agreement

LEMMA ReadAgreement ==
    ASSUME Typed, NEW c \in Conns, Agreement(c), ~cut[c], PeerReads(c)
    PROVE  Agreement(c)'
<1>1. /\ rep[c] # <<>> /\ link[c] = "up"
      /\ rep' = [rep EXCEPT ![c] = Tail(@)]
      /\ granted' = [granted EXCEPT ![c] =
                       IF Head(rep[c]).kind = "confirm" THEN @ \cup {Head(rep[c]).bind} ELSE @]
      /\ loop' = loop /\ link' = link /\ ctl' = ctl /\ fwd' = fwd
    BY DEF PeerReads, forwardVars
<1>2. /\ rep[c] \in Seq(Replies) /\ rep'[c] = Tail(rep[c])
      /\ granted'[c] = IF Head(rep[c]).kind = "confirm"
                       THEN granted[c] \cup {Head(rep[c]).bind} ELSE granted[c]
    BY <1>1 DEF Typed
<1>3. Head(rep[c]) \in Replies
    BY <1>1, <1>2, HeadTailProperties
<1>4. ASSUME NEW b \in Binds
      PROVE  /\ Within(rep[c], Confirm(b)) <=> Head(rep[c]) = Confirm(b) \/ Within(rep'[c], Confirm(b))
             /\ Head(rep[c]) = Confirm(b)
                <=> Head(rep[c]).kind = "confirm" /\ Head(rep[c]).bind = b
    <2>1. Within(rep[c], Confirm(b)) <=> Head(rep[c]) = Confirm(b) \/ Within(rep'[c], Confirm(b))
        BY <1>1, <1>2, WithinTail
    <2>2. Head(rep[c]) = Confirm(b)
          <=> Head(rep[c]).kind = "confirm" /\ Head(rep[c]).bind = b
        BY <1>3 DEF Replies, Ack, Confirm
    <2> QED
        BY <2>1, <2>2
<1> QED
    BY <1>1, <1>2, <1>4 DEF Agreement

\* A reply that confirms nothing, to the last message of the peer or when there
\* is no confirmation under way.
LEMMA OtherReplyAgreement ==
    ASSUME Typed, NEW c \in Conns, Agreement(c), ctl[c] # <<>>,
           loop[c] = "run", link[c] = "up", ~cut[c],
           Head(ctl[c]).op # "cancel", NEW r \in Replies, r.kind # "confirm",
           ctl'[c] = Tail(ctl[c]), rep'[c] = Append(rep[c], r),
           granted'[c] = granted[c], fwd'[c] = fwd[c]
    PROVE  Agreement(c)'
<1>1. ctl[c] \in Seq(Commands) /\ rep[c] \in Seq(Replies)
    BY DEF Typed
<1>2. \A n \in DOMAIN ctl'[c] : ctl'[c][n].op = "request" => n = Len(ctl'[c])
    BY <1>1, RequestLast DEF Agreement
<1>3. ASSUME NEW b \in Binds
      PROVE  /\ Within(rep'[c], Confirm(b)) <=> Within(rep[c], Confirm(b))
             /\ ~Within(rep[c], Confirm(b))
             /\ Within(ctl'[c], Cancel(b)) <=> Within(ctl[c], Cancel(b))
    <2>1. Within(rep'[c], Confirm(b)) <=> Within(rep[c], Confirm(b)) \/ r = Confirm(b)
        BY <1>1, WithinAppend
    <2>2. r # Confirm(b)
        BY DEF Confirm
    <2>3. Within(ctl[c], Cancel(b)) <=> Head(ctl[c]) = Cancel(b) \/ Within(ctl'[c], Cancel(b))
        BY <1>1, WithinTail
    <2>4. Head(ctl[c]) # Cancel(b)
        BY DEF Cancel
    <2>5. ~Within(rep[c], Confirm(b))
        BY DEF Agreement
    <2> QED
        BY <2>1, <2>2, <2>3, <2>4, <2>5
<1> QED
    BY <1>2, <1>3 DEF Agreement

LEMMA RefusedAgreement ==
    ASSUME Typed, NEW c \in Conns, Agreement(c), ~cut[c], ForwardRefused(c)
    PROVE  Agreement(c)'
<1> DEFINE b == Head(ctl[c]).bind
<1>1. /\ loop[c] = "run" /\ ctl[c] # <<>> /\ Head(ctl[c]).op = "request"
      /\ granted' = granted
    BY DEF ForwardRefused, Command
<1>2. b \in Binds
    BY <1>1, NextCommand
<1>3. PICK w \in {"prohibited", "active", "limit"} : Replied(c, Failure(b, w), fwd[c])
    BY DEF ForwardRefused
<1>4. Failure(b, w) \in Replies /\ Failure(b, w).kind # "confirm"
    BY <1>2, ReplyTypes DEF Failure
<1> HIDE DEF b
<1>5. CASE link[c] # "up"
    <2>1. loop'[c] = "over"
        BY <1>3, <1>5 DEF Replied, HandleReturns, Typed
    <2> QED
        BY <2>1, OverAgreement
<1>6. CASE link[c] = "up"
    <2>1. /\ ctl'[c] = Tail(ctl[c]) /\ rep'[c] = Append(rep[c], Failure(b, w))
          /\ fwd'[c] = fwd[c]
        BY <1>3, <1>6 DEF Replied, Typed
    <2> QED
        BY <1>1, <1>4, <1>6, <2>1, OtherReplyAgreement
<1> QED
    BY <1>5, <1>6

LEMMA StartedAgreement ==
    ASSUME Typed, NEW c \in Conns, Agreement(c), ~cut[c], ForwardStarted(c)
    PROVE  Agreement(c)'
<1> DEFINE b == Head(ctl[c]).bind
<1>1. /\ loop[c] = "run" /\ ctl[c] # <<>> /\ Head(ctl[c]).op = "request"
      /\ granted' = granted /\ link' = link
    BY DEF ForwardStarted, Command
<1>2. b \in Binds
    BY <1>1, NextCommand
<1>3. PICK i \in Slots : Replied(c, Confirm(b), [fwd[c] EXCEPT ![b] = i])
    BY DEF ForwardStarted, Spawn
<1>4. ctl[c] \in Seq(Commands) /\ rep[c] \in Seq(Replies) /\ fwd[c] \in [Binds -> 0..MaxTasks]
    BY DEF Typed
<1>5. Confirm(b) \in Replies
    BY <1>2, ReplyTypes
<1> HIDE DEF b
<1>6. CASE link[c] # "up"
    <2>1. loop'[c] = "over"
        BY <1>3, <1>6 DEF Replied, HandleReturns, Typed
    <2> QED
        BY <2>1, OverAgreement
<1>7. CASE link[c] = "up"
    <2>1. /\ ctl'[c] = Tail(ctl[c]) /\ rep'[c] = Append(rep[c], Confirm(b))
          /\ fwd'[c] = [fwd[c] EXCEPT ![b] = i]
        BY <1>3, <1>7 DEF Replied, Typed
    <2>2. ctl'[c] = <<>>
        BY <1>1, <1>4, <1>7, <2>1, RequestLast DEF Agreement
    <2>3. \A a \in Binds : ~Within(ctl[c], Cancel(a)) /\ ~Within(ctl'[c], Cancel(a))
        <3>1. \A a \in Binds : Head(ctl[c]) # Cancel(a)
            BY <1>1 DEF Cancel
        <3> QED
            BY <1>1, <1>4, <2>1, <2>2, <3>1, WithinTail, WithinEmpty
    <2>4. i # 0
        BY DEF Slots
    <2>5. ASSUME NEW a \in Binds
          PROVE  fwd'[c][a] # 0 <=> a \in granted'[c] \/ Within(rep'[c], Confirm(a))
        <3>1. Within(rep'[c], Confirm(a)) <=> Within(rep[c], Confirm(a)) \/ Confirm(b) = Confirm(a)
            BY <1>4, <1>5, <2>1, WithinAppend
        <3>2. Confirm(b) = Confirm(a) <=> a = b
            BY DEF Confirm
        <3>3. fwd[c][a] # 0 <=> a \in granted[c] \/ Within(rep[c], Confirm(a))
            BY <1>1, <1>7, <2>3 DEF Agreement
        <3>4. fwd'[c][a] # 0 <=> fwd[c][a] # 0 \/ a = b
            BY <1>2, <1>4, <2>1, <2>4
        <3> QED
            BY <1>1, <3>1, <3>2, <3>3, <3>4
    <2>6. \A n \in DOMAIN ctl'[c] : ctl'[c][n].op = "request" => n = Len(ctl'[c])
        BY <2>2
    <2> QED
        BY <2>2, <2>3, <2>5, <2>6 DEF Agreement
<1> QED
    BY <1>6, <1>7

LEMMA CancelledAgreement ==
    ASSUME Typed, NEW c \in Conns, Agreement(c), ~cut[c], ForwardCancelled(c)
    PROVE  Agreement(c)'
<1> DEFINE b == Head(ctl[c]).bind
<1>1. /\ loop[c] = "run" /\ ctl[c] # <<>> /\ Head(ctl[c]).op = "cancel"
      /\ granted' = granted /\ link' = link /\ rep' = rep /\ loop' = loop
      /\ fwd' = [fwd EXCEPT ![c][b] = 0] /\ ctl' = [ctl EXCEPT ![c] = Tail(@)]
    BY DEF ForwardCancelled, Command
<1>2. b \in Binds /\ Head(ctl[c]) = Cancel(b)
    BY <1>1, NextCommand, CommandIsCancel
<1>3. /\ ctl[c] \in Seq(Commands) /\ fwd[c] \in [Binds -> 0..MaxTasks]
      /\ ctl'[c] = Tail(ctl[c]) /\ fwd'[c] = [fwd[c] EXCEPT ![b] = 0]
    BY <1>1 DEF Typed
<1> HIDE DEF b
<1> SUFFICES ASSUME loop[c] = "run", link[c] = "up" PROVE Agreement(c)'
    BY <1>1 DEF Agreement
<1>4. \A n \in DOMAIN ctl'[c] : ctl'[c][n].op = "request" => n = Len(ctl'[c])
    BY <1>1, <1>3, RequestLast DEF Agreement
<1>5. \A a \in Binds : ~Within(rep'[c], Confirm(a))
    BY <1>1 DEF Agreement
<1>6. ASSUME NEW a \in Binds
      PROVE  fwd'[c][a] # 0 /\ ~Within(ctl'[c], Cancel(a))
             <=> a \in granted'[c] \/ Within(rep'[c], Confirm(a))
    <2>1. Within(ctl[c], Cancel(a)) <=> Cancel(b) = Cancel(a) \/ Within(ctl'[c], Cancel(a))
        BY <1>1, <1>2, <1>3, WithinTail
    <2>2. Cancel(b) = Cancel(a) <=> a = b
        BY DEF Cancel
    <2>3. fwd[c][a] # 0 /\ ~Within(ctl[c], Cancel(a)) <=> a \in granted[c]
        BY <1>1, <1>5 DEF Agreement
    <2>4. fwd'[c][a] # 0 <=> fwd[c][a] # 0 /\ a # b
        BY <1>2, <1>3
    <2> QED
        BY <1>1, <1>5, <2>1, <2>2, <2>3, <2>4
<1> QED
    BY <1>4, <1>5, <1>6 DEF Agreement

LEMMA KeepAliveAgreement ==
    ASSUME Typed, NEW c \in Conns, Agreement(c), ~cut[c], KeepAlive(c)
    PROVE  Agreement(c)'
<1>1. /\ loop[c] = "run" /\ ctl[c] # <<>> /\ Head(ctl[c]).op = "keepalive"
      /\ granted' = granted /\ link' = link /\ loop' = loop /\ fwd' = fwd
      /\ ctl' = [ctl EXCEPT ![c] = Tail(@)]
      /\ link[c] = "up" => rep' = [rep EXCEPT ![c] = Append(@, Ack)]
    BY DEF KeepAlive, Command, forwardVars
<1>2. CASE link[c] # "up"
    BY <1>1, <1>2 DEF Agreement
<1>3. CASE link[c] = "up"
    <2>1. ctl'[c] = Tail(ctl[c]) /\ rep'[c] = Append(rep[c], Ack)
        BY <1>1, <1>3 DEF Typed
    <2>2. Ack \in Replies /\ Ack.kind # "confirm"
        BY DEF Replies, Ack
    <2> QED
        BY <1>1, <1>3, <2>1, <2>2, OtherReplyAgreement
<1> QED
    BY <1>2, <1>3

LEMMA StepAgreement ==
    ASSUME Typed, \A c \in Conns : Agreement(c), [Next]_vars
    PROVE  \A c \in Conns : Agreement(c)'
<1> SUFFICES ASSUME NEW d \in Conns PROVE Agreement(d)'
    OBVIOUS
<1>1. Agreement(d)
    OBVIOUS
<1>2. CASE UNCHANGED vars
    BY <1>1, <1>2, SameAgreement DEF vars
<1>3. ASSUME NEW c \in Conns, Acts(c), c # d
      PROVE  Agreement(d)'
    BY <1>1, <1>3, StepIsLocal, SameAgreement
<1>4. ASSUME Acts(d)
      PROVE  Agreement(d)'
    <2> SUFFICES ASSUME ~cut[d] PROVE Agreement(d)'
        <3>1. ASSUME cut[d] PROVE cut'[d] \/ loop'[d] = "over"
            BY <1>4, <3>1
            DEF Acts, Peer, Loop, Control, PeerSends, PeerReads, PeerOpensStream, PeerFinishesControl,
                LinkCloses, ForwardRefused, ForwardStarted, ForwardCancelled, KeepAlive, Swallow,
                AcceptStream, RecvCancelled, Misread, LoopEnds, RelayEnds, Dispatch, ChannelEnds,
                Listener, Bind, BindFails, ListenerEnds, TcpArrives, Typed
        <3> QED
            BY <3>1 DEF Agreement
    <2>1. CASE PeerSends(d)
        BY <1>1, <2>1, SendAgreement
    <2>2. CASE PeerReads(d)
        BY <1>1, <2>2, ReadAgreement
    <2>3. CASE PeerOpensStream(d) \/ PeerFinishesControl(d) \/ LinkCloses(d)
        <3>1. link'[d] = "up" => link[d] = "up"
            BY <2>3 DEF PeerOpensStream, PeerFinishesControl, LinkCloses, Typed
        <3> QED
            BY <1>1, <2>3, <3>1, SameAgreement
               DEF PeerOpensStream, PeerFinishesControl, LinkCloses, forwardVars
    <2>4. CASE ForwardRefused(d)
        BY <1>1, <2>4, RefusedAgreement
    <2>5. CASE ForwardStarted(d)
        BY <1>1, <2>5, StartedAgreement
    <2>6. CASE ForwardCancelled(d)
        BY <1>1, <2>6, CancelledAgreement
    <2>7. CASE KeepAlive(d)
        BY <1>1, <2>7, KeepAliveAgreement
    <2>8. CASE RelayEnds(d)
        BY <1>1, <2>8, DropIsLocal, SameAgreement DEF RelayEnds, forwardVars
    <2>12. CASE AcceptStream(d)
        <3>1. cut'[d] \/ ctl' = ctl
            BY <2>12 DEF AcceptStream, RecvCancelled, Typed
        <3>2. CASE cut'[d]
            BY <3>2 DEF Agreement
        <3>3. CASE ctl' = ctl
            BY <1>1, <2>12, <3>3, SameAgreement DEF AcceptStream, forwardVars
        <3> QED
            BY <3>1, <3>2, <3>3
    <2>13. CASE Swallow(d)
        BY <2>13 DEF Swallow
    <2>9. CASE LoopEnds(d) \/ Misread(d)
        BY <2>9, OverAgreement DEF LoopEnds, Misread, HandleReturns, Typed
    <2>10. ASSUME NEW s \in Streams, Dispatch(d, s) \/ ChannelEnds(d, s)
           PROVE  Agreement(d)'
        BY <1>1, <2>10, DropIsLocal, SameAgreement DEF Dispatch, ChannelEnds, forwardVars
    <2>11. ASSUME NEW i \in Slots, Listener(d, i)
           PROVE  Agreement(d)'
        BY <1>1, <2>11, DropIsLocal, SameAgreement
           DEF Listener, Bind, BindFails, ListenerEnds, TcpArrives
    <2> QED
        BY <1>4, <2>1, <2>2, <2>3, <2>4, <2>5, <2>6, <2>7, <2>8, <2>9, <2>10, <2>11,
           <2>12, <2>13
           DEF Acts, Peer, Loop, Control
<1> QED
    BY <1>2, <1>3, <1>4, NextActs

LEMMA InitAgreement == Init => \A c \in Conns : Agreement(c)
BY WithinEmpty DEF Init, Agreement

LEMMA AgreementIsEnough ==
    Typed /\ (\A c \in Conns : Agreement(c)) => PeerViewAgrees
<1> SUFFICES ASSUME Typed, NEW c \in Conns, Agreement(c), loop[c] = "run", link[c] = "up",
                    ~cut[c], ctl[c] = <<>>, rep[c] = <<>>
             PROVE  granted[c] = Mapped(c)
    BY DEF PeerViewAgrees
<1>1. \A b \in Binds : fwd[c][b] # 0 <=> b \in granted[c]
    BY WithinEmpty DEF Agreement
<1>2. granted[c] \subseteq Binds
    BY DEF Typed
<1> QED
    BY <1>1, <1>2 DEF Mapped

\* forward_tasks and its replies: when nothing is under way, the binds the peer
\* was confirmed and did not cancel are those the server has an entry of, as long
\* as no command was cut.
THEOREM ViewsAgree == Spec => []PeerViewAgrees
<1> DEFINE Agreed == Typed /\ \A c \in Conns : Agreement(c)
<1>1. Init => Agreed
    BY InitTyped, InitAgreement
<1>2. Agreed /\ [Next]_vars => Agreed'
    BY StepTyped, StepAgreement
<1>3. Agreed => PeerViewAgrees
    BY AgreementIsEnough
<1> QED
    BY <1>1, <1>2, <1>3, PTL DEF Spec
=============================================================================
