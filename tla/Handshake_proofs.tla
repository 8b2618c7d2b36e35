-------------------------- MODULE Handshake_proofs --------------------------
(***************************************************************************)
(* Theorems about connection establishment, for every set of peers, keys,  *)
(* accounts and any number of permits.                                     *)
(*                                                                         *)
(* TypeOK is inductive. The permit balance needs to know in addition that  *)
(* a connection is spawned a task once: what waits in the backlog, or for  *)
(* a permit, or has not been dialled yet, has no task (Spawnable).         *)
(* Authentication needs to know of every response under way who signed it, *)
(* and that a signature over a connection's nonce exists only once the     *)
(* challenge was received (Signed). That both ends agree on the outcome    *)
(* needs, for every stage of a client, where the server can be and what    *)
(* can be under way between them (Agreement): one message at most, and     *)
(* closing leaves it or nothing.                                           *)
(***************************************************************************)
EXTENDS Handshake, SequenceTheorems, FiniteSetTheorems, TLAPS

(***************************************************************************)
(* Sequences.                                                              *)
(***************************************************************************)
\* What closing leaves of a queue is a queue of some of its messages.
LEMMA TruncationOfQueue ==
    ASSUME NEW S, NEW s \in Seq(S), NEW t \in Truncations(s)
    PROVE  t \in Seq(S) /\ Range(t) \subseteq Range(s)
<1>1. PICK n \in 0..Len(s) : t = SubSeq(s, 1, n)
    BY DEF Truncations
<1>2. /\ Len(s) \in Nat
      /\ DOMAIN s = 1..Len(s)
      /\ \A i \in 1..n : s[i] \in S
    BY <1>1, LenProperties, ElementOfSeq
<1>3. /\ t \in Seq(S)
      /\ Len(t) = n
      /\ \A i \in 1..n : t[i] = s[i]
    BY <1>1, <1>2, SubSeqProperties
<1>4. DOMAIN t = 1..n
    BY <1>3, LenProperties
<1> QED
    BY <1>2, <1>3, <1>4 DEF Range

\* Nothing is left of an empty queue.
LEMMA TruncationOfEmpty ==
    ASSUME NEW t \in Truncations(<<>>)
    PROVE  t = <<>>
<1>1. PICK n \in 0..0 : t = SubSeq(<<>>, 1, n)
    BY EmptySeq DEF Truncations
<1> QED
    BY <1>1, SubSeqEmpty

LEMMA NothingQueued ==
    ASSUME NEW S, NEW s \in Seq(S), Range(s) = {}
    PROVE  s = <<>>
<1>1. SUFFICES ASSUME s # <<>> PROVE FALSE
    OBVIOUS
<1>2. Len(s) \in Nat \ {0} /\ DOMAIN s = 1..Len(s)
    BY <1>1, EmptySeq, LenProperties
<1>3. s[1] \in Range(s)
    BY <1>2 DEF Range
<1> QED
    BY <1>3

\* Sending adds one message.
LEMMA AppendToQueue ==
    ASSUME NEW S, NEW s \in Seq(S), NEW m \in S
    PROVE  /\ Append(s, m) \in Seq(S)
           /\ Range(Append(s, m)) \subseteq Range(s) \cup {m}
<1>1. /\ Append(s, m) \in Seq(S)
      /\ Len(Append(s, m)) = Len(s) + 1
      /\ \A i \in 1..Len(s) : Append(s, m)[i] = s[i]
      /\ Append(s, m)[Len(s) + 1] = m
    BY AppendProperties
<1>2. /\ Len(s) \in Nat
      /\ DOMAIN s = 1..Len(s)
      /\ DOMAIN Append(s, m) = 1..(Len(s) + 1)
    BY <1>1, LenProperties
<1> QED
    BY <1>1, <1>2 DEF Range

\* Receiving takes a message that is in the queue and leaves the others.
LEMMA ReceiveFromQueue ==
    ASSUME NEW S, NEW s \in Seq(S), s # <<>>
    PROVE  /\ Head(s) \in S
           /\ Head(s) \in Range(s)
           /\ Tail(s) \in Seq(S)
           /\ Range(Tail(s)) \subseteq Range(s)
<1>1. /\ Head(s) \in S
      /\ Tail(s) \in Seq(S)
      /\ Len(Tail(s)) = Len(s) - 1
      /\ \A i \in 1..Len(Tail(s)) : Tail(s)[i] = s[i + 1]
    BY HeadTailProperties
<1>2. /\ Len(s) \in Nat \ {0}
      /\ DOMAIN s = 1..Len(s)
      /\ DOMAIN Tail(s) = 1..(Len(s) - 1)
    BY <1>1, LenProperties, EmptySeq
<1>3. Head(s) = s[1]
    OBVIOUS
<1> QED
    BY <1>1, <1>2, <1>3 DEF Range

(***************************************************************************)
(* Types.                                                                  *)
(***************************************************************************)
LEMMA ConnType ==
    ASSUME TypeOK, NEW p \in Peers
    PROVE  Conn(p) \in Conns
BY DEF TypeOK, Conn, Conns

\* Every message that is sent is one the receiver's decoder may return.
LEMMA MessageTypes ==
    /\ \A current \in BOOLEAN, name \in Names : Hello(current, name) \in ToServer
    /\ \A pub \in Keys, sig \in Signatures : Response(pub, sig) \in ToServer
    /\ \A key \in Keys, nonce \in Conns \cup {NoConn}, name \in Names :
          Signature(key, nonce, name) \in Signatures
    /\ Malformed \in Signatures
    /\ \A k \in Conns : Challenge(k) \in ToPeer
    /\ \A ok \in BOOLEAN : Result(ok) \in ToPeer
    /\ Disconnect \in ToPeer
<1>1. \A current \in BOOLEAN, name \in Names : Hello(current, name) \in ToServer
    BY DEF Hello, ToServer
<1>2. \A pub \in Keys, sig \in Signatures : Response(pub, sig) \in ToServer
    BY DEF Response, ToServer
<1>3. \A key \in Keys, nonce \in Conns \cup {NoConn}, name \in Names :
          Signature(key, nonce, name) \in Signatures
    BY DEF Signature, Signatures
<1>4. Malformed \in Signatures
    BY DEF Signatures
<1>5. \A k \in Conns : Challenge(k) \in ToPeer
    BY DEF Challenge, ToPeer
<1>6. \A ok \in BOOLEAN : Result(ok) \in ToPeer
    BY DEF Result, ToPeer
<1>7. Disconnect \in ToPeer
    BY DEF ToPeer
<1> QED
    BY <1>1, <1>2, <1>3, <1>4, <1>5, <1>6, <1>7

\* What the two kinds of message carry.
LEMMA MessageFields ==
    ASSUME NEW m \in ToServer
    PROVE  /\ m.kind = "hello" => m.current \in BOOLEAN /\ m.name \in Names
           /\ m.kind = "response" => m.pub \in Keys /\ m.sig \in Signatures
BY DEF ToServer

LEMMA StrangerMessagesType ==
    ASSUME NEW p \in Peers, Conn(p) \in Conns
    PROVE  StrangerMessages(p) \subseteq ToServer
<1> SUFFICES ASSUME NEW m \in StrangerMessages(p)
             PROVE  m \in ToServer
    OBVIOUS
<1>0. Identity[p] \in Keys
    BY PeersAssumption
<1>1. CASE \E current \in BOOLEAN, name \in Names : m = Hello(current, name)
    BY <1>1, MessageTypes
<1>2. CASE \E pub \in Keys : m = Response(pub, Malformed)
    BY <1>2, MessageTypes
<1>3. CASE \E pub \in Keys, nonce \in Conns \cup {NoConn}, name \in Names :
              m = Response(pub, Signature(Identity[p], nonce, name))
    BY <1>0, <1>3, MessageTypes
<1> QED
    BY <1>1, <1>2, <1>3 DEF StrangerMessages

\* Closing keeps the queues queues.
LEMMA PeerDropsType ==
    ASSUME TypeOK, NEW p \in Peers, PeerDrops(p)
    PROVE  /\ link' \in [Conns -> {"none", "up", "closed"}]
           /\ up' \in [Conns -> Seq(ToServer)]
           /\ down' \in [Conns -> Seq(ToPeer)]
<1> DEFINE k == Conn(p)
<1>1. k \in Conns
    BY ConnType
<1>2. PICK s \in Truncations(up[k]) : up' = [up EXCEPT ![k] = s]
    BY DEF PeerDrops
<1>3. s \in Seq(ToServer)
    BY <1>1, TruncationOfQueue DEF TypeOK
<1>4. <<>> \in Seq(ToPeer)
    BY EmptySeq
<1> QED
    BY <1>1, <1>2, <1>3, <1>4 DEF TypeOK, PeerDrops

LEMMA ServerDropsType ==
    ASSUME TypeOK, NEW k \in Conns, NEW out \in Seq(ToPeer), ServerDrops(k, out)
    PROVE  /\ link' \in [Conns -> {"none", "up", "closed"}]
           /\ up' \in [Conns -> Seq(ToServer)]
           /\ down' \in [Conns -> Seq(ToPeer)]
<1> DEFINE sent == IF link[k] = "up" THEN out ELSE <<>>
<1>1. PICK s \in Truncations(down[k] \o sent) : down' = [down EXCEPT ![k] = s]
    BY DEF ServerDrops
<1>2. <<>> \in Seq(ToPeer) /\ <<>> \in Seq(ToServer)
    BY EmptySeq
<1>3. sent \in Seq(ToPeer)
    BY <1>2
<1>4. down[k] \o sent \in Seq(ToPeer)
    BY <1>3, ConcatProperties DEF TypeOK
<1>5. s \in Seq(ToPeer)
    BY <1>4, TruncationOfQueue
<1> QED
    BY <1>1, <1>2, <1>5 DEF TypeOK, ServerDrops
LEMMA TaskEndsType ==
    ASSUME TypeOK, NEW k \in Conns, NEW out \in Seq(ToPeer),
           NEW outcome \in {"over", "denied"}, TaskEnds(k, out, outcome)
    PROVE  /\ srv' \in [Conns -> TaskStates]
           /\ permits' \in Nat
           /\ link' \in [Conns -> {"none", "up", "closed"}]
           /\ up' \in [Conns -> Seq(ToServer)]
           /\ down' \in [Conns -> Seq(ToPeer)]
<1>1. ServerDrops(k, out)
    BY DEF TaskEnds
<1>2. /\ link' \in [Conns -> {"none", "up", "closed"}]
      /\ up' \in [Conns -> Seq(ToServer)]
      /\ down' \in [Conns -> Seq(ToPeer)]
    BY <1>1, ServerDropsType
<1>3. srv' \in [Conns -> TaskStates] /\ permits' \in Nat
    BY DEF TypeOK, TaskEnds, TaskStates
<1> QED
    BY <1>2, <1>3

\* What the server says when it ends the exchange is a list of messages.
LEMMA PartingType ==
    /\ <<>> \in Seq(ToPeer)
    /\ <<Disconnect>> \in Seq(ToPeer)
    /\ \A k, m : Failure(k, m) \in Seq(ToPeer)
<1>1. \A e \in ToPeer : <<e>> \in Seq(ToPeer)
    OBVIOUS
<1>2. Result(FALSE) \in ToPeer /\ Disconnect \in ToPeer
    BY MessageTypes
<1>3. <<>> \in Seq(ToPeer)
    BY EmptySeq
<1> QED
    BY <1>1, <1>2, <1>3 DEF Failure

\* One step of a server task keeps the types.
LEMMA TaskType ==
    ASSUME TypeOK, NEW k \in Conns, Task(k)
    PROVE  TypeOK'
<1>1. CASE TlsUp(k)
    BY <1>1 DEF TypeOK, TlsUp, TaskStates, clientVars, loopVars, hostVars
<1>2. CASE TlsFails(k)
    BY <1>2, TaskEndsType, PartingType
    DEF TypeOK, TlsFails, clientVars, loopVars, hostVars
<1>3. CASE ReadHello(k)
    <2> DEFINE m == Head(up[k])
    <2>1. m \in ToServer /\ Tail(up[k]) \in Seq(ToServer)
        BY <1>3, ReceiveFromQueue DEF TypeOK, ReadHello
    <2>2. m.name \in Names
        BY <1>3, <2>1, MessageFields DEF ReadHello
    <2>3. AuthorizedKeys(m.name) \in SUBSET Keys
        BY DEF TypeOK, AuthorizedKeys
    <2>4. Append(down[k], Challenge(k)) \in Seq(ToPeer)
        BY MessageTypes, AppendToQueue DEF TypeOK
    <2> QED
        BY <1>3, <2>1, <2>2, <2>3, <2>4
        DEF TypeOK, ReadHello, TaskStates, clientVars, loopVars, hostVars
<1>4. CASE RefuseHello(k)
    <2>1. \E out \in Seq(ToPeer) : TaskEnds(k, out, "over")
        BY <1>4, PartingType DEF RefuseHello
    <2>2. UNCHANGED <<clientVars, user, snap, loopVars, hostVars>>
        BY <1>4 DEF RefuseHello
    <2> QED
        BY <2>1, <2>2, TaskEndsType DEF TypeOK, clientVars, loopVars, hostVars
<1>5. CASE ReadResponse(k)
    <2>1. Tail(up[k]) \in Seq(ToServer)
        BY <1>5, ReceiveFromQueue DEF TypeOK, ReadResponse
    <2>2. Append(down[k], Result(TRUE)) \in Seq(ToPeer)
        BY MessageTypes, AppendToQueue DEF TypeOK
    <2> QED
        BY <1>5, <2>1, <2>2
        DEF TypeOK, ReadResponse, TaskStates, clientVars, loopVars, hostVars
<1>6. CASE RefuseResponse(k)
    <2>1. \E out \in Seq(ToPeer), outcome \in {"over", "denied"} :
             TaskEnds(k, out, outcome)
        BY <1>6, PartingType DEF RefuseResponse
    <2>2. UNCHANGED <<clientVars, user, snap, loopVars, hostVars>>
        BY <1>6 DEF RefuseResponse
    <2> QED
        BY <2>1, <2>2, TaskEndsType DEF TypeOK, clientVars, loopVars, hostVars
<1>7. CASE PeerGone(k)
    BY <1>7, TaskEndsType, PartingType
    DEF TypeOK, PeerGone, clientVars, loopVars, hostVars
<1> QED
    BY <1>1, <1>2, <1>3, <1>4, <1>5, <1>6, <1>7 DEF Task

\* The accept loop and the network keep the types.
LEMMA LoopType ==
    ASSUME TypeOK, Accept \/ Admit \/ \E k \in LossyConns : LinkLost(k)
    PROVE  TypeOK'
<1>1. CASE Accept
    <2>1. Head(backlog) \in Conns /\ Tail(backlog) \in Seq(Conns)
        BY <1>1, ReceiveFromQueue DEF TypeOK, Accept
    <2> QED
        BY <1>1, <2>1
        DEF TypeOK, Accept, clientVars, wireVars, taskVars, hostVars
<1>2. CASE Admit
    BY <1>2 DEF TypeOK, Admit, TaskStates, clientVars, wireVars, hostVars
<1>3. ASSUME NEW k \in LossyConns, LinkLost(k)
      PROVE  TypeOK'
    <2>1. k \in Conns
        BY PeersAssumption
    <2>2. PICK s \in Truncations(up[k]) : up' = [up EXCEPT ![k] = s]
        BY <1>3 DEF LinkLost
    <2>3. PICK t \in Truncations(down[k]) : down' = [down EXCEPT ![k] = t]
        BY <1>3 DEF LinkLost
    <2>4. s \in Seq(ToServer) /\ t \in Seq(ToPeer)
        BY <2>1, TruncationOfQueue DEF TypeOK
    <2> QED
        BY <1>3, <2>1, <2>2, <2>3, <2>4
        DEF TypeOK, LinkLost, clientVars, taskVars, loopVars, hostVars
<1> QED
    BY <1>1, <1>2, <1>3
\* One step of a sqsh client keeps the types.
LEMMA ProgramType ==
    ASSUME TypeOK, NEW c \in Clients, Program(c) \/ DialFails(c) \/ Close(c)
    PROVE  TypeOK'
<1> DEFINE k == Conn(c)
<1> USE DEF Peers
<1>0. c \in Peers /\ k \in Conns /\ Login[c] \in Names /\ Identity[c] \in Keys
    BY ConnType, PeersAssumption
<1>1. CASE Dial(c)
    <2>1. Append(backlog, k) \in Seq(Conns)
        BY <1>0, AppendToQueue DEF TypeOK
    <2> QED
        BY <1>1, <2>1
        DEF TypeOK, Dial, ClientStates, wireVars, taskVars, hostVars
<1>2. CASE SendHello(c)
    <2> DEFINE m == Hello(c \notin Outdated, Login[c])
    <2>1. m \in ToServer
        BY <1>0, MessageTypes
    <2>2. Append(up[k], m) \in Seq(ToServer)
        BY <1>0, <2>1, AppendToQueue DEF TypeOK
    <2>3. up' = [up EXCEPT ![k] = Append(up[k], m)]
        BY <1>2 DEF SendHello
    <2> HIDE DEF m
    <2> QED
        BY <1>0, <1>2, <2>2, <2>3
        DEF TypeOK, SendHello, ClientStates, taskVars, loopVars, hostVars
<1>3. CASE AnswerChallenge(c)
    <2> DEFINE h == Head(down[k])
               m == Response(Identity[c], Signature(Identity[c], h.nonce, Login[c]))
    <2>1. h \in ToPeer /\ Tail(down[k]) \in Seq(ToPeer)
        BY <1>0, <1>3, ReceiveFromQueue DEF TypeOK, AnswerChallenge
    <2>2. h.nonce \in Conns
        BY <1>3, <2>1 DEF AnswerChallenge, ToPeer, Disconnect
    <2>3. m \in ToServer
        BY <1>0, <2>2, MessageTypes
    <2>4. Append(up[k], m) \in Seq(ToServer)
        BY <1>0, <2>3, AppendToQueue DEF TypeOK
    <2>5. /\ up' = [up EXCEPT ![k] = Append(up[k], m)]
          /\ down' = [down EXCEPT ![k] = Tail(down[k])]
        BY <1>3 DEF AnswerChallenge
    <2> HIDE DEF m
    <2> QED
        BY <1>0, <1>3, <2>1, <2>4, <2>5
        DEF TypeOK, AnswerChallenge, ClientStates, taskVars, loopVars, hostVars
<1>4. CASE ReadSuccess(c)
    <2>1. Tail(down[k]) \in Seq(ToPeer)
        BY <1>0, <1>4, ReceiveFromQueue DEF TypeOK, ReadSuccess
    <2> QED
        BY <1>0, <1>4, <2>1
        DEF TypeOK, ReadSuccess, ClientStates, taskVars, loopVars, hostVars
<1>5. CASE ReadFailure(c)
    BY <1>5, PeerDropsType
    DEF TypeOK, ReadFailure, ClientStates, taskVars, loopVars, hostVars
<1>6. CASE ConnectError(c)
    BY <1>6, PeerDropsType
    DEF TypeOK, ConnectError, ClientStates, taskVars, loopVars, hostVars
<1>7. CASE DialFails(c)
    BY <1>7, PeerDropsType
    DEF TypeOK, DialFails, ClientStates, taskVars, loopVars, hostVars
<1>8. CASE Close(c)
    BY <1>8, PeerDropsType
    DEF TypeOK, Close, ClientStates, taskVars, loopVars, hostVars
<1>9. CASE Upload(c)
    BY <1>0, <1>9 DEF TypeOK, Upload, ClientStates, wireVars, taskVars, loopVars
<1>10. CASE Install(c)
    <2>1. tmp.key \in Keys
        BY <1>10 DEF TypeOK, Install
    <2>2. keyfile' \in [Accounts -> [safe : BOOLEAN, keys : SUBSET Keys]]
        BY <1>10, <2>1 DEF TypeOK, Install
    <2> QED
        BY <1>10, <2>2
        DEF TypeOK, Install, ClientStates, wireVars, taskVars, loopVars
<1>11. CASE SshFails(c)
    BY <1>11 DEF TypeOK, SshFails, ClientStates, wireVars, taskVars, loopVars, hostVars
<1> QED
    BY <1>1, <1>2, <1>3, <1>4, <1>5, <1>6, <1>7, <1>8, <1>9, <1>10, <1>11
    DEF Program

\* One step of a stranger keeps the types.
LEMMA StrangerType ==
    ASSUME TypeOK, NEW p \in Strangers, Stranger(p)
    PROVE  TypeOK'
<1> DEFINE k == Conn(p)
<1> USE DEF Peers
<1>0. p \in Peers /\ k \in Conns /\ Identity[p] \in Keys
    BY ConnType, PeersAssumption
<1>1. CASE Dial(p)
    <2>1. Append(backlog, k) \in Seq(Conns)
        BY <1>0, AppendToQueue DEF TypeOK
    <2> QED
        BY <1>1, <2>1
        DEF TypeOK, Dial, ClientStates, wireVars, taskVars, hostVars
<1>2. CASE StrangerSends(p)
    <2>1. StrangerMessages(p) \subseteq ToServer
        BY <1>0, StrangerMessagesType
    <2>2. PICK m \in StrangerMessages(p) : up' = [up EXCEPT ![k] = <<m>>]
        BY <1>2 DEF StrangerSends
    <2>3. <<m>> \in Seq(ToServer)
        BY <2>1, <2>2
    <2> QED
        BY <1>0, <1>2, <2>2, <2>3
        DEF TypeOK, StrangerSends, ClientStates, taskVars, loopVars, hostVars
<1>3. CASE StrangerReads(p)
    <2>1. Tail(down[k]) \in Seq(ToPeer)
        BY <1>0, <1>3, ReceiveFromQueue DEF TypeOK, StrangerReads
    <2> QED
        BY <1>0, <1>3, <2>1
        DEF TypeOK, StrangerReads, ClientStates, taskVars, loopVars, hostVars
<1>4. CASE StrangerLeaves(p)
    BY <1>4, PeerDropsType
    DEF TypeOK, StrangerLeaves, ClientStates, taskVars, loopVars, hostVars
<1> QED
    BY <1>1, <1>2, <1>3, <1>4 DEF Stranger

LEMMA InitType == Init => TypeOK
<1>1. <<>> \in Seq(ToServer) /\ <<>> \in Seq(ToPeer) /\ <<>> \in Seq(Conns)
    BY EmptySeq
<1> QED
    BY <1>1, LimitAssumption DEF Init, TypeOK, ClientStates, TaskStates

LEMMA StepType ==
    ASSUME TypeOK, [Next]_vars
    PROVE  TypeOK'
<1>1. CASE UNCHANGED vars
    BY <1>1 DEF TypeOK, vars
<1>2. CASE Next
    BY <1>2, LoopType, TaskType, ProgramType, StrangerType DEF Next
<1> QED
    BY <1>1, <1>2

\* Every queue holds messages of its direction, every task and every program is
\* in a state of the code, whatever the number of peers and permits.
THEOREM TypeCorrect == Spec => []TypeOK
BY InitType, StepType, PTL DEF Spec
(***************************************************************************)
(* A connection is spawned one task.                                       *)
(***************************************************************************)
Undialled(k) == /\ srv[k] = "none"
                /\ link[k] = "none"
                /\ k # held
                /\ \A i \in 1..Len(backlog) : backlog[i] # k

\* The connection the loop holds, those in the backlog and those still to be
\* dialled (the retry of a client included) have no task, and none of them is
\* in two places.
Spawnable ==
    /\ held # NoConn => srv[held] = "none"
    /\ \A i \in 1..Len(backlog) : srv[backlog[i]] = "none" /\ backlog[i] # held
    /\ \A i, j \in 1..Len(backlog) : backlog[i] = backlog[j] => i = j
    /\ \A p \in Peers : cl[p] = "idle" => Undialled(Conn(p))
    /\ \A p \in Peers : attempt[p] = 1 => Undialled(<<p, 2>>)
    /\ \A p \in Peers : cl[p] \in {"rejected", "uploaded"} => attempt[p] = 1

\* What a step of a task does to the rest: it has a permit, and gives it back
\* exactly when it ends.
TaskEffect(k) ==
    /\ srv[k] \in Holding
    /\ srv'[k] # "none"
    /\ permits' = IF srv'[k] \in Holding THEN permits ELSE permits + 1
    /\ \A j \in Conns \ {k} : srv'[j] = srv[j] /\ link'[j] = link[j]
    /\ UNCHANGED <<cl, attempt, backlog, held>>

LEMMA EndHasEffect ==
    ASSUME TypeOK, NEW k \in Conns, NEW out, NEW outcome \in {"over", "denied"},
           srv[k] \in Holding, TaskEnds(k, out, outcome),
           UNCHANGED <<cl, attempt, backlog, held>>
    PROVE  TaskEffect(k)
<1>1. /\ srv \in [Conns -> TaskStates] /\ link \in [Conns -> {"none", "up", "closed"}]
      /\ srv' = [srv EXCEPT ![k] = outcome] /\ link' = [link EXCEPT ![k] = "closed"]
      /\ permits' = permits + 1
    BY DEF TypeOK, TaskEnds, ServerDrops
<1> QED
    BY <1>1 DEF TaskEffect, Holding

LEMMA TaskHasEffect ==
    ASSUME TypeOK, NEW k \in Conns, Task(k)
    PROVE  TaskEffect(k)
<1> USE DEF Holding, clientVars, loopVars
<1>1. CASE TlsUp(k)
    BY <1>1 DEF TypeOK, TlsUp, TaskEffect
<1>2. CASE TlsFails(k)
    BY <1>2, EndHasEffect DEF TlsFails
<1>3. CASE ReadHello(k)
    BY <1>3 DEF TypeOK, ReadHello, TaskEffect
<1>4. CASE RefuseHello(k)
    BY <1>4, EndHasEffect DEF RefuseHello
<1>5. CASE ReadResponse(k)
    BY <1>5 DEF TypeOK, ReadResponse, TaskEffect
<1>6. CASE RefuseResponse(k)
    BY <1>6, EndHasEffect DEF RefuseResponse
<1>7. CASE PeerGone(k)
    BY <1>7, EndHasEffect DEF PeerGone
<1> QED
    BY <1>1, <1>2, <1>3, <1>4, <1>5, <1>6, <1>7 DEF Task

\* What a step of a program does to the server, if it neither dials nor
\* installs its key: at most it closes its own connection.
PeerEffect(p) ==
    /\ cl[p] # "idle"
    /\ cl'[p] # "idle"
    /\ cl'[p] \in {"rejected", "uploaded"} => attempt[p] = 1
    /\ \A q \in Peers \ {p} : cl'[q] = cl[q]
    /\ \A j \in Conns \ {Conn(p)} : link'[j] = link[j]
    /\ UNCHANGED <<attempt, srv, backlog, held, permits>>

LEMMA PeerHasEffect ==
    ASSUME TypeOK, Spawnable, NEW p \in Peers,
           \/ p \in Clients /\ (Program(p) \/ DialFails(p) \/ Close(p))
           \/ p \in Strangers /\ Stranger(p)
    PROVE  PeerEffect(p) \/ Dial(p) \/ Install(p)
<1> USE DEF TypeOK, PeerEffect, ClientStates, wireVars, taskVars, loopVars
<1>0. Conn(p) \in Conns
    BY ConnType
<1>1. CASE SendHello(p) \/ AnswerChallenge(p) \/ ReadSuccess(p)
    BY <1>0, <1>1 DEF SendHello, AnswerChallenge, ReadSuccess
<1>2. CASE ReadFailure(p) \/ DialFails(p) \/ Close(p) \/ StrangerLeaves(p)
    BY <1>0, <1>2 DEF ReadFailure, DialFails, Close, StrangerLeaves, PeerDrops
<1>3. CASE ConnectError(p)
    BY <1>0, <1>3 DEF ConnectError, OtherError, PeerDrops
<1>4. CASE Upload(p) \/ SshFails(p)
    BY <1>0, <1>4 DEF Upload, SshFails, Spawnable
<1>5. CASE StrangerSends(p) \/ StrangerReads(p)
    BY <1>0, <1>5 DEF StrangerSends, StrangerReads
<1> QED
    BY <1>1, <1>2, <1>3, <1>4, <1>5 DEF Program, Stranger

LEMMA InitSpawnable == Init => Spawnable
<1>1. Len(<<>>) = 0
    BY EmptySeq
<1> QED
    BY <1>1, SentinelAssumption DEF Init, Spawnable, Undialled, Conn, Conns

LEMMA StepSpawnable ==
    ASSUME TypeOK, Spawnable, [Next]_vars
    PROVE  Spawnable'
<1>0. /\ \A p \in Peers : Conn(p) \in Conns /\ <<p, 2>> \in Conns
      /\ Len(backlog) \in Nat
    BY ConnType, LenProperties DEF Conns, TypeOK
<1>1. CASE Accept
    <2>1. Head(backlog) = backlog[1] /\ Len(backlog) \in Nat \ {0}
        BY <1>1, EmptySeq DEF Accept, TypeOK
    <2>2. /\ Len(Tail(backlog)) = Len(backlog) - 1
          /\ \A i \in 1..Len(Tail(backlog)) : Tail(backlog)[i] = backlog[i + 1]
        BY <1>1, HeadTailProperties DEF Accept, TypeOK
    <2>3. /\ held' = backlog[1] /\ Len(backlog') = Len(backlog) - 1
          /\ \A i \in 1..Len(backlog') : backlog'[i] = backlog[i + 1]
          /\ UNCHANGED <<cl, attempt, srv, link>>
        BY <1>1, <2>1, <2>2 DEF Accept, clientVars, wireVars, taskVars
    <2>4. \A i \in 1..Len(backlog') : i + 1 \in 1..Len(backlog) /\ i + 1 # 1
        BY <2>1, <2>3
    <2>5. \A k : Undialled(k) => Undialled(k)'
        BY <2>1, <2>3, <2>4 DEF Undialled
    <2>6. /\ srv'[held'] = "none"
          /\ \A i \in 1..Len(backlog') : srv'[backlog'[i]] = "none" /\ backlog'[i] # held'
          /\ \A i, j \in 1..Len(backlog') : backlog'[i] = backlog'[j] => i = j
        BY <2>1, <2>3, <2>4 DEF Spawnable
    <2> QED
        BY <2>3, <2>5, <2>6 DEF Spawnable, Conn
<1>2. CASE Admit
    <2>1. /\ held \in Conns /\ srv' = [srv EXCEPT ![held] = "tls"] /\ held' = NoConn
          /\ UNCHANGED <<cl, attempt, backlog, link>>
        BY <1>2 DEF Admit, TypeOK, clientVars, wireVars
    <2>2. \A i \in 1..Len(backlog) : backlog[i] \in Conns
        BY ElementOfSeq DEF TypeOK
    <2>3. srv \in [Conns -> TaskStates]
        BY DEF TypeOK
    <2> QED
        BY <1>0, <2>1, <2>2, <2>3, SentinelAssumption DEF Spawnable, Undialled, Conn
<1>3. ASSUME NEW k \in Conns, TaskEffect(k)
      PROVE  Spawnable'
    <2>1. srv[k] # "none"
        BY <1>3 DEF TaskEffect, Holding
    <2>2. \A i \in 1..Len(backlog) : backlog[i] \in Conns
        BY ElementOfSeq DEF TypeOK
    <2>3. held # NoConn => held \in Conns
        BY DEF TypeOK
    <2>4. UNCHANGED <<cl, attempt, backlog, held>> /\ \A j \in Conns : srv[j] = "none" =>
              srv'[j] = srv[j] /\ link'[j] = link[j]
        BY <1>3, <2>1 DEF TaskEffect
    <2>5. \A j \in Conns : Undialled(j) => Undialled(j)'
        BY <2>4 DEF Undialled
    <2> QED
        BY <1>0, <2>2, <2>3, <2>4, <2>5 DEF Spawnable, Conn
<1>4. ASSUME NEW k \in LossyConns, LinkLost(k)
      PROVE  Spawnable'
    BY <1>0, <1>4, PeersAssumption
    DEF TypeOK, LinkLost, Spawnable, Undialled, Conn, clientVars, taskVars, loopVars
<1>5. ASSUME NEW p \in Peers, Dial(p)
      PROVE  Spawnable'
    <2>1. /\ Len(backlog') = Len(backlog) + 1
          /\ \A i \in 1..Len(backlog) : backlog'[i] = backlog[i]
          /\ backlog'[Len(backlog) + 1] = Conn(p)
        BY <1>0, <1>5, AppendProperties DEF Dial, TypeOK
    <2>2. cl[p] = "idle" /\ Undialled(Conn(p))
        BY <1>5 DEF Dial, Spawnable
    <2>3. /\ cl' = [cl EXCEPT ![p] = "dialing"] /\ cl \in [Peers -> ClientStates]
          /\ attempt \in [Peers -> {1, 2}]
          /\ held \in Conns \cup {NoConn}
          /\ UNCHANGED <<attempt, link, srv, held>>
        BY <1>5 DEF TypeOK, Dial, wireVars, taskVars
    <2>4. /\ held' # NoConn => srv'[held'] = "none"
          /\ \A i \in 1..Len(backlog') : srv'[backlog'[i]] = "none" /\ backlog'[i] # held'
          /\ \A i, j \in 1..Len(backlog') : backlog'[i] = backlog'[j] => i = j
        BY <1>0, <2>1, <2>2, <2>3 DEF Spawnable, Undialled
    <2>5. \A q \in Peers : cl'[q] = "idle" => Undialled(Conn(q))'
        BY <1>0, <2>1, <2>2, <2>3 DEF Spawnable, Undialled, Conn
    <2>6. \A q \in Peers : attempt'[q] = 1 => Undialled(<<q, 2>>)'
        BY <1>0, <2>1, <2>2, <2>3 DEF Spawnable, Undialled, Conn
    <2>7. \A q \in Peers : cl'[q] \in {"rejected", "uploaded"} => attempt'[q] = 1
        BY <2>3 DEF Spawnable
    <2> QED
        BY <2>4, <2>5, <2>6, <2>7 DEF Spawnable
<1>6. ASSUME NEW p \in Peers, Install(p)
      PROVE  Spawnable'
    <2>1. /\ cl[p] = "uploaded"
          /\ cl' = [cl EXCEPT ![p] = "idle"]
          /\ attempt' = [attempt EXCEPT ![p] = 2]
          /\ UNCHANGED <<link, srv, backlog, held>>
        BY <1>6 DEF Install, wireVars, taskVars, loopVars
    <2>2. attempt[p] = 1 /\ Undialled(<<p, 2>>)
        BY <2>1 DEF Spawnable
    <2> QED
        BY <1>0, <2>1, <2>2 DEF TypeOK, Spawnable, Undialled, Conn
<1>7. ASSUME NEW p \in Peers, PeerEffect(p)
      PROVE  Spawnable'
    <2>1. /\ UNCHANGED <<attempt, srv, backlog, held>>
          /\ cl[p] # "idle" /\ cl'[p] # "idle"
          /\ cl'[p] \in {"rejected", "uploaded"} => attempt[p] = 1
          /\ \A q \in Peers \ {p} : cl'[q] = cl[q]
          /\ \A j \in Conns \ {<<p, attempt[p]>>} : link'[j] = link[j]
        BY <1>7 DEF PeerEffect, Conn
    <2>a. \A k \in Conns : Undialled(k) /\ k # Conn(p) => Undialled(k)'
        BY <2>1 DEF Undialled, Conn
    <2>2. \A q \in Peers : cl'[q] = "idle" => Undialled(Conn(q))'
        BY <1>0, <2>1, <2>a DEF Spawnable, Conn
    <2>3. \A q \in Peers : attempt'[q] = 1 => Undialled(<<q, 2>>)'
        <3>1. \A q \in Peers : attempt[q] = 1 => <<q, 2>> # Conn(p)
            BY DEF Conn
        <3> QED
            BY <1>0, <2>1, <2>a, <3>1 DEF Spawnable
    <2> QED
        BY <2>1, <2>2, <2>3 DEF Spawnable
<1>8. CASE UNCHANGED vars
    BY <1>8 DEF Spawnable, Undialled, Conn, vars
<1> QED
    BY <1>1, <1>2, <1>3, <1>4, <1>5, <1>6, <1>7, <1>8, TaskHasEffect, PeerHasEffect
    DEF Next, Stranger, Peers
(***************************************************************************)
(* The permits of the semaphore.                                           *)
(***************************************************************************)
LEMMA HoldersFinite == IsFiniteSet(Holders) /\ Cardinality(Holders) \in Nat
<1>1. IsFiniteSet({1, 2})
    BY FS_Singleton, FS_AddElement, IsFiniteSet({1} \cup {2})
<1>2. IsFiniteSet(Conns)
    BY <1>1, PeersAssumption, FS_Product DEF Conns
<1>3. Holders \in SUBSET Conns
    BY DEF Holders
<1>4. IsFiniteSet(Holders)
    BY <1>2, <1>3, FS_Subset
<1> QED
    BY <1>4, FS_CardinalityType

LEMMA InitBalance == Init => PermitsBalance
<1>1. Init => Holders = {}
    BY DEF Init, Holders, Holding
<1>2. Cardinality({}) = 0
    BY FS_EmptySet
<1>3. Init => permits = MaxConnections
    BY DEF Init
<1> QED
    BY <1>1, <1>2, <1>3, LimitAssumption DEF PermitsBalance

LEMMA StepBalance ==
    ASSUME TypeOK, Spawnable, PermitsBalance, [Next]_vars
    PROVE  PermitsBalance'
<1> USE DEF PermitsBalance
<1>1. IsFiniteSet(Holders) /\ Cardinality(Holders) \in Nat /\ permits \in Nat
    BY HoldersFinite DEF TypeOK
<1>2. CASE Admit
    <2>1. held \in Conns /\ held \notin Holders
        BY <1>2 DEF TypeOK, Spawnable, Admit, Holders, Holding
    <2>2. Holders' = Holders \cup {held}
        BY <1>2, <2>1 DEF TypeOK, Admit, Holders, Holding
    <2>3. Cardinality(Holders') = Cardinality(Holders) + 1
        BY <1>1, <2>1, <2>2, FS_AddElement
    <2> QED
        BY <1>1, <1>2, <2>3, LimitAssumption DEF Admit
<1>3. ASSUME NEW k \in Conns, TaskEffect(k)
      PROVE  PermitsBalance'
    <2>1. k \in Holders
        BY <1>3 DEF TaskEffect, Holders
    <2>2. CASE srv'[k] \in Holding
        <3>1. Holders' = Holders
            BY <1>3, <2>2, <2>1 DEF TaskEffect, Holders
        <3> QED
            BY <1>3, <2>2, <3>1 DEF TaskEffect
    <2>3. CASE srv'[k] \notin Holding
        <3>1. Holders' = Holders \ {k}
            BY <1>3, <2>3 DEF TaskEffect, Holders
        <3>2. Cardinality(Holders') = Cardinality(Holders) - 1
            BY <1>1, <2>1, <3>1, FS_RemoveElement
        <3>3. permits' = permits + 1
            BY <1>3, <2>3 DEF TaskEffect
        <3> QED
            BY <1>1, <3>2, <3>3, LimitAssumption
    <2> QED
        BY <2>2, <2>3
<1>4. CASE UNCHANGED <<srv, permits>>
    BY <1>4 DEF Holders
<1>5. CASE Accept \/ \E k \in LossyConns : LinkLost(k)
    <2>1. UNCHANGED <<srv, permits>>
        BY <1>5 DEF Accept, LinkLost, taskVars
    <2> QED
        BY <2>1, <1>4
<1>6. ASSUME NEW p \in Peers, PeerEffect(p) \/ Dial(p) \/ Install(p)
      PROVE  PermitsBalance'
    <2>1. UNCHANGED <<srv, permits>>
        BY <1>6 DEF PeerEffect, Dial, Install, taskVars
    <2> QED
        BY <2>1, <1>4
<1>7. CASE UNCHANGED vars
    BY <1>4, <1>7 DEF vars
<1> QED
    BY <1>2, <1>3, <1>5, <1>6, <1>7, TaskHasEffect, PeerHasEffect DEF Next, Peers

\* Whatever way the tasks end and in whatever order, the permits that are free
\* and the tasks that are alive add up to max_connections: none is leaked and
\* none given back twice, so the limit of listener.rs is never exceeded.
THEOREM PermitsBalanced == Spec => []PermitsBalance
<1>1. Init => TypeOK /\ Spawnable /\ PermitsBalance
    BY InitType, InitSpawnable, InitBalance
<1>2. TypeOK /\ Spawnable /\ PermitsBalance /\ [Next]_vars
      => (TypeOK /\ Spawnable /\ PermitsBalance)'
    BY StepType, StepSpawnable, StepBalance
<1> QED
    BY <1>1, <1>2, PTL DEF Spec
(***************************************************************************)
(* Authentication.                                                         *)
(***************************************************************************)
\* The program of p is past the challenge, if connection n is the one it uses.
Engaged(p, n) ==
    link[<<p, n>>] = "up" /\ attempt[p] = n
        => cl[p] \in {"challenged", "result", "connected"}

\* A response under way was signed with the one seed its sender holds, and if
\* it covers the nonce of this connection, the sender has received that.
Honest(p, n, m) ==
    m.kind = "response" =>
        /\ m.sig.key \in {NoKey, Identity[p]}
        /\ m.sig.nonce = <<p, n>> => Engaged(p, n)

Signed ==
    /\ \A k \in Conns : link[k] = "none" => up[k] = <<>>
    /\ \A p \in Peers, n \in {1, 2} :
          \A m \in Range(up[<<p, n>>]) : Honest(p, n, m)

\* A step that sends nothing to the server.
Drains ==
    \A k \in Conns :
        /\ Range(up'[k]) \subseteq Range(up[k])
        /\ link'[k] = "none" => link[k] = "none" /\ up'[k] = up[k]

LEMMA PeerDropsDrain ==
    ASSUME TypeOK, NEW p \in Peers, PeerDrops(p)
    PROVE  Drains
<1>1. Conn(p) \in Conns
    BY ConnType
<1>2. PICK s \in Truncations(up[Conn(p)]) : up' = [up EXCEPT ![Conn(p)] = s]
    BY DEF PeerDrops
<1>3. Range(s) \subseteq Range(up[Conn(p)])
    BY <1>1, TruncationOfQueue DEF TypeOK
<1>4. link' = [link EXCEPT ![Conn(p)] = "closed"]
    BY DEF PeerDrops
<1> QED
    BY <1>1, <1>2, <1>3, <1>4 DEF TypeOK, Drains

LEMMA ServerDropsDrain ==
    ASSUME TypeOK, NEW k \in Conns, NEW out, ServerDrops(k, out)
    PROVE  Drains
<1>1. /\ up' = [up EXCEPT ![k] = <<>>]
      /\ link' = [link EXCEPT ![k] = "closed"]
    BY DEF ServerDrops
<1>2. Range(<<>>) = {}
    BY EmptySeq DEF Range
<1> QED
    BY <1>1, <1>2 DEF TypeOK, Drains

LEMMA TaskDrains ==
    ASSUME TypeOK, NEW k \in Conns, Task(k)
    PROVE  Drains
<1>1. CASE TlsUp(k)
    BY <1>1 DEF TypeOK, TlsUp, Drains
<1>2. CASE ReadHello(k) \/ ReadResponse(k)
    <2>1. up[k] # <<>> /\ up' = [up EXCEPT ![k] = Tail(up[k])]
        BY <1>2 DEF ReadHello, ReadResponse
    <2>2. Range(Tail(up[k])) \subseteq Range(up[k])
        BY <2>1, ReceiveFromQueue DEF TypeOK
    <2>3. link' = link /\ link[k] = "up"
        BY <1>2 DEF ReadHello, ReadResponse
    <2> QED
        BY <2>1, <2>2, <2>3 DEF TypeOK, Drains
<1>3. CASE \E out, outcome : TaskEnds(k, out, outcome)
    BY <1>3, ServerDropsDrain DEF TaskEnds
<1> QED
    BY <1>1, <1>2, <1>3 DEF Task, TlsFails, RefuseHello, RefuseResponse, PeerGone

\* The messages a program puts on the wire.
Sends(p) ==
    /\ link[Conn(p)] = "up" /\ UNCHANGED <<link, attempt>>
    /\ \E m \in ToServer :
          /\ \A n \in {1, 2} : attempt[p] = n => Honest(p, n, m)'
          /\ \A k \in Conns :
                Range(up'[k]) \subseteq Range(up[k]) \cup (IF k = Conn(p) THEN {m} ELSE {})

LEMMA PeerDrainsOrSends ==
    ASSUME TypeOK, NEW p \in Peers,
           \/ p \in Clients /\ (Program(p) \/ DialFails(p) \/ Close(p))
           \/ p \in Strangers /\ Stranger(p)
    PROVE  Drains \/ Sends(p)
<1> DEFINE k == Conn(p)
<1>0. k \in Conns /\ k = <<p, attempt[p]>> /\ attempt[p] \in {1, 2}
    BY ConnType DEF Conn, TypeOK
<1>1. CASE SendHello(p)
    <2> DEFINE m == Hello(p \notin Outdated, Login[p])
    <2>1. m \in ToServer
        BY MessageTypes, PeersAssumption
    <2>2. Range(Append(up[k], m)) \subseteq Range(up[k]) \cup {m}
        BY <1>0, <2>1, AppendToQueue DEF TypeOK
    <2>3. up' = [up EXCEPT ![k] = Append(up[k], m)]
        BY <1>1 DEF SendHello
    <2>4. \A n \in {1, 2} : Honest(p, n, m)'
        BY DEF Honest, Hello
    <2>5. link[k] = "up" /\ UNCHANGED <<link, attempt>>
        BY <1>1 DEF SendHello
    <2> HIDE DEF m
    <2>6. \A j \in Conns :
             Range(up'[j]) \subseteq Range(up[j]) \cup (IF j = k THEN {m} ELSE {})
        BY <1>0, <2>2, <2>3 DEF TypeOK
    <2> QED
        BY <2>1, <2>4, <2>5, <2>6 DEF Sends
<1>2. CASE AnswerChallenge(p)
    <2> DEFINE h == Head(down[k])
    <2>1. h \in ToPeer /\ h.kind = "challenge"
        BY <1>0, <1>2, ReceiveFromQueue DEF TypeOK, AnswerChallenge
    <2>2. PICK nonce \in Conns : h.nonce = nonce
        BY <2>1 DEF ToPeer, Disconnect
    <2>3. PICK m \in ToServer :
             m = Response(Identity[p], Signature(Identity[p], nonce, Login[p]))
        BY MessageTypes, PeersAssumption
    <2>4. Range(Append(up[k], m)) \subseteq Range(up[k]) \cup {m}
        BY <1>0, AppendToQueue DEF TypeOK
    <2>5. /\ up' = [up EXCEPT ![k] = Append(up[k], m)]
          /\ link[k] = "up" /\ UNCHANGED <<link, attempt>>
        BY <1>2, <2>2, <2>3 DEF AnswerChallenge
    <2>6. cl'[p] = "result"
        BY <1>2 DEF TypeOK, AnswerChallenge
    <2>7. \A n \in {1, 2} : Honest(p, n, m)'
        BY <2>3, <2>6 DEF Honest, Engaged, Response, Signature
    <2>8. \A j \in Conns :
             Range(up'[j]) \subseteq Range(up[j]) \cup (IF j = k THEN {m} ELSE {})
        BY <1>0, <2>4, <2>5 DEF TypeOK
    <2> QED
        BY <2>5, <2>7, <2>8 DEF Sends
<1>3. CASE ReadSuccess(p) \/ StrangerReads(p) \/ Dial(p) \/ Upload(p) \/ Install(p) \/ SshFails(p)
    <2>1. UNCHANGED <<link, up>>
        BY <1>3 DEF ReadSuccess, StrangerReads, Dial, Upload, Install, SshFails, wireVars
    <2> QED
        BY <2>1 DEF Drains
<1>4. CASE PeerDrops(p)
    BY <1>4, PeerDropsDrain
<1>5. CASE StrangerSends(p)
    <2>1. PICK m \in StrangerMessages(p) : up' = [up EXCEPT ![k] = <<m>>]
        BY <1>5 DEF StrangerSends
    <2>2. m \in ToServer
        BY <1>0, StrangerMessagesType, PeersAssumption
    <2>3. Range(<<m>>) = {m}
        BY DEF Range
    <2>4. /\ link[k] = "up" /\ UNCHANGED <<link, attempt>>
          /\ cl[p] = "challenged" => cl'[p] = "challenged"
        BY <1>5 DEF TypeOK, StrangerSends
    <2>5. \A n \in {1, 2} : attempt[p] = n => Honest(p, n, m)'
        <3>1. CASE \E current \in BOOLEAN, name \in Names : m = Hello(current, name)
            BY <3>1 DEF Honest, Hello
        <3>2. CASE \E pub \in Keys : m = Response(pub, Malformed)
            BY <1>0, <3>2, SentinelAssumption
            DEF Honest, Response, Malformed, Signature, Conn
        <3>3. CASE \E pub \in Keys, name \in Names :
                      m = Response(pub, Signature(Identity[p], NoConn, name))
            BY <1>0, <3>3, SentinelAssumption DEF Honest, Response, Signature, Conn
        <3>4. CASE cl[p] = "challenged" /\ \E pub \in Keys, name \in Names :
                      m = Response(pub, Signature(Identity[p], k, name))
            BY <2>4, <3>4 DEF Honest, Engaged, Response, Signature
        <3> QED
            BY <3>1, <3>2, <3>3, <3>4 DEF StrangerMessages
    <2>6. \A j \in Conns :
             Range(up'[j]) \subseteq Range(up[j]) \cup (IF j = k THEN {m} ELSE {})
        BY <1>0, <2>1, <2>3 DEF TypeOK
    <2> QED
        BY <2>2, <2>4, <2>5, <2>6 DEF Sends
<1> QED
    BY <1>1, <1>2, <1>3, <1>4, <1>5
    DEF Program, Stranger, ReadFailure, ConnectError, DialFails, Close, StrangerLeaves
\* A program leaves the state after the challenge only with its connection, and
\* a client that turns to its second connection has not been heard on it.
LEMMA StepEngaged ==
    ASSUME TypeOK, Spawnable, [Next]_vars, NEW p \in Peers, NEW n \in {1, 2},
           Engaged(p, n), link[<<p, n>>] # "none"
    PROVE  Engaged(p, n)'
<1> DEFINE k == <<p, n>>
<1> USE DEF Engaged
<1>0. k \in Conns /\ Conn(p) = <<p, attempt[p]>>
    BY DEF Conns, Conn
<1>1. CASE UNCHANGED <<cl, attempt>> /\ link'[k] \in {link[k], "closed"}
    BY <1>1
<1>2. CASE Accept \/ Admit \/ UNCHANGED vars
    BY <1>1, <1>2 DEF Accept, Admit, clientVars, wireVars, vars
<1>3. ASSUME NEW j \in Conns, Task(j)
      PROVE  Engaged(p, n)'
    <2>1. UNCHANGED <<cl, attempt>>
        BY <1>3, TaskHasEffect DEF TaskEffect
    <2>2. CASE j # k
        BY <1>0, <1>1, <1>3, <2>1, <2>2, TaskHasEffect DEF TaskEffect
    <2>3. CASE j = k
        <3>1. UNCHANGED link \/ link' = [link EXCEPT ![k] = "closed"]
            BY <1>3, <2>3
            DEF Task, TlsUp, TlsFails, ReadHello, RefuseHello, ReadResponse,
                RefuseResponse, PeerGone, TaskEnds, ServerDrops
        <3> QED
            BY <1>0, <1>1, <2>1, <3>1 DEF TypeOK
    <2> QED
        BY <2>2, <2>3
<1>4. ASSUME NEW j \in LossyConns, LinkLost(j)
      PROVE  Engaged(p, n)'
    BY <1>0, <1>1, <1>4 DEF TypeOK, LinkLost, clientVars
<1>5. ASSUME NEW q \in Peers, q # p, PeerEffect(q) \/ Dial(q) \/ Install(q)
      PROVE  Engaged(p, n)'
    <2>1. Conn(q) # k
        BY <1>5 DEF Conn
    <2>2. cl'[p] = cl[p] /\ attempt'[p] = attempt[p] /\ link'[k] = link[k]
        BY <1>0, <1>5, <2>1 DEF TypeOK, PeerEffect, Dial, Install, wireVars
    <2> QED
        BY <2>2
<1>6. CASE PeerDrops(p) /\ UNCHANGED attempt
    BY <1>0, <1>6 DEF TypeOK, PeerDrops
<1>7. CASE AnswerChallenge(p) \/ ReadSuccess(p) \/ StrangerReads(p) \/ StrangerSends(p)
    <2>1. /\ UNCHANGED <<attempt, link>>
          /\ \/ cl'[p] \in {"challenged", "result", "connected"}
             \/ cl[p] \notin {"challenged", "result", "connected"}
        BY <1>7
        DEF TypeOK, AnswerChallenge, ReadSuccess, StrangerReads, StrangerSends
    <2> QED
        BY <2>1
<1>8. CASE Dial(p) \/ SendHello(p) \/ Upload(p) \/ SshFails(p)
    <2>1. /\ UNCHANGED <<attempt, link>>
          /\ cl[p] \notin {"challenged", "result", "connected"}
        BY <1>8 DEF Dial, SendHello, Upload, SshFails, wireVars
    <2> QED
        BY <2>1
<1>9. CASE Install(p)
    <2>1. cl[p] = "uploaded" /\ attempt' = [attempt EXCEPT ![p] = 2] /\ UNCHANGED link
        BY <1>9 DEF Install, wireVars
    <2>2. link[<<p, 2>>] = "none"
        BY <2>1 DEF Spawnable, Undialled
    <2> QED
        BY <2>1, <2>2 DEF TypeOK
<1>10. ASSUME \/ p \in Clients /\ (Program(p) \/ DialFails(p) \/ Close(p))
              \/ p \in Strangers /\ Stranger(p)
       PROVE  Engaged(p, n)'
    BY <1>6, <1>7, <1>8, <1>9, <1>10
    DEF Program, Stranger, ReadFailure, ConnectError, DialFails, Close, StrangerLeaves
<1> QED
    BY <1>2, <1>3, <1>4, <1>5, <1>10, PeerHasEffect DEF Next, Peers

LEMMA StepSigned ==
    ASSUME TypeOK, Spawnable, Signed, [Next]_vars
    PROVE  Signed'
<1>0. Range(<<>>) = {}
    BY EmptySeq DEF Range
<1>1. ASSUME NEW p \in Peers, NEW n \in {1, 2}, NEW m \in Range(up[<<p, n>>])
      PROVE  Honest(p, n, m)'
    <2>1. <<p, n>> \in Conns
        BY DEF Conns
    <2>2. Honest(p, n, m) /\ link[<<p, n>>] # "none"
        BY <1>0, <1>1, <2>1 DEF Signed
    <2> QED
        BY <2>2, StepEngaged DEF Honest
<1>2. CASE Drains
    <2>1. \A k \in Conns : link'[k] = "none" => up'[k] = <<>>
        BY <1>2 DEF Drains, Signed
    <2>2. ASSUME NEW p \in Peers, NEW n \in {1, 2}, NEW m \in Range(up'[<<p, n>>])
          PROVE  Honest(p, n, m)'
        BY <1>1, <1>2 DEF Drains, Conns
    <2> QED
        BY <2>1, <2>2 DEF Signed
<1>3. ASSUME NEW q \in Peers, Sends(q)
      PROVE  Signed'
    <2>0. /\ Conn(q) = <<q, attempt[q]>> /\ attempt[q] \in {1, 2}
          /\ Conn(q) \in Conns
        BY ConnType DEF Conn, TypeOK
    <2>1. PICK msg \in ToServer :
             /\ \A n \in {1, 2} : attempt[q] = n => Honest(q, n, msg)'
             /\ \A k \in Conns :
                   Range(up'[k]) \subseteq Range(up[k]) \cup (IF k = Conn(q) THEN {msg} ELSE {})
        BY <1>3 DEF Sends
    <2>2. ASSUME NEW k \in Conns, link'[k] = "none"
          PROVE  up'[k] = <<>>
        <3>1. k # Conn(q) /\ link[k] = "none"
            BY <1>3, <2>2 DEF Sends
        <3>2. up[k] = <<>>
            BY <3>1 DEF Signed
        <3>3. Range(up'[k]) = {} /\ up'[k] \in Seq(ToServer)
            BY <1>0, <2>1, <3>1, <3>2, StepType DEF TypeOK
        <3> QED
            BY <3>3, NothingQueued
    <2>3. ASSUME NEW p \in Peers, NEW n \in {1, 2}, NEW m \in Range(up'[<<p, n>>])
          PROVE  Honest(p, n, m)'
        <3>1. CASE <<p, n>> # Conn(q)
            BY <1>1, <2>1, <2>3, <3>1 DEF Conns
        <3>2. CASE <<p, n>> = Conn(q)
            <4>1. p = q /\ attempt[q] = n
                BY <2>0, <3>2
            <4>2. m \in Range(up[<<p, n>>]) \/ m = msg
                BY <2>0, <2>1, <2>3, <3>2
            <4> QED
                BY <1>1, <2>1, <4>1, <4>2
        <3> QED
            BY <3>1, <3>2
    <2> QED
        BY <2>2, <2>3 DEF Signed
<1>4. CASE Accept \/ Admit \/ UNCHANGED vars
    <2>1. UNCHANGED <<link, up>>
        BY <1>4 DEF Accept, Admit, wireVars, vars
    <2> QED
        BY <1>2, <2>1 DEF Drains
<1>5. ASSUME NEW k \in LossyConns, LinkLost(k)
      PROVE  Drains
    <2>1. k \in Conns
        BY PeersAssumption
    <2>2. PICK s \in Truncations(up[k]) : up' = [up EXCEPT ![k] = s]
        BY <1>5 DEF LinkLost
    <2>3. Range(s) \subseteq Range(up[k])
        BY <2>1, TruncationOfQueue DEF TypeOK
    <2>4. link' = [link EXCEPT ![k] = "closed"]
        BY <1>5 DEF LinkLost
    <2> QED
        BY <2>1, <2>2, <2>3, <2>4 DEF TypeOK, Drains
<1> QED
    BY <1>2, <1>3, <1>4, <1>5, TaskDrains, PeerDrainsOrSends DEF Next, Peers
\* A task reaches the main loop only through ReadResponse, and the name and the
\* keys it compared with stay as they are.
LEMMA StepMain ==
    ASSUME TypeOK, Spawnable, [Next]_vars, NEW k \in Conns, srv'[k] = "main"
    PROVE  \/ ReadResponse(k)
           \/ /\ srv[k] = "main" /\ user'[k] = user[k] /\ snap'[k] = snap[k]
              /\ link'[k] = "up" => link[k] = "up"
<1> DEFINE Closing == link'[k] = "up" => link[k] = "up"
<1>1. CASE UNCHANGED taskVars /\ Closing
    BY <1>1 DEF taskVars
<1>2. CASE Accept \/ (\E j \in LossyConns : LinkLost(j)) \/ UNCHANGED vars
    <2>1. UNCHANGED link \/ \E j \in Conns : link' = [link EXCEPT ![j] = "closed"]
        BY <1>2, PeersAssumption DEF Accept, LinkLost, wireVars, vars
    <2> QED
        BY <1>1, <1>2, <2>1 DEF Accept, LinkLost, TypeOK, taskVars, vars
<1>3. CASE Admit
    BY <1>3 DEF Admit, TypeOK, wireVars
<1>4. ASSUME NEW p \in Peers,
             \/ p \in Clients /\ (Program(p) \/ DialFails(p) \/ Close(p))
             \/ p \in Strangers /\ Stranger(p)
      PROVE  UNCHANGED taskVars /\ Closing
    <2>1. Conn(p) \in Conns
        BY ConnType
    <2>2. UNCHANGED link \/ link' = [link EXCEPT ![Conn(p)] = "closed"]
        BY <1>4
        DEF Program, Stranger, Dial, SendHello, AnswerChallenge, ReadSuccess,
            ReadFailure, ConnectError, Upload, Install, SshFails, DialFails, Close,
            StrangerSends, StrangerReads, StrangerLeaves, PeerDrops, wireVars
    <2>3. UNCHANGED taskVars
        BY <1>4
        DEF Program, Stranger, Dial, SendHello, AnswerChallenge, ReadSuccess,
            ReadFailure, ConnectError, Upload, Install, SshFails, DialFails, Close,
            StrangerSends, StrangerReads, StrangerLeaves
    <2> QED
        BY <2>1, <2>2, <2>3 DEF TypeOK
<1>5. ASSUME NEW j \in Conns, Task(j), j # k
      PROVE  srv[k] = "main" /\ user'[k] = user[k] /\ snap'[k] = snap[k] /\ Closing
    <2>1. srv'[k] = srv[k] /\ Closing
        BY <1>5, TaskHasEffect DEF TaskEffect
    <2>2. user'[k] = user[k] /\ snap'[k] = snap[k]
        BY <1>5
        DEF TypeOK, Task, TlsUp, TlsFails, ReadHello, RefuseHello, ReadResponse,
            RefuseResponse, PeerGone
    <2> QED
        BY <2>1, <2>2
<1>6. CASE Task(k)
    <2>1. srv'[k] \notin {"hello", "response", "over", "denied"}
        OBVIOUS
    <2>2. ~TlsUp(k) /\ ~ReadHello(k)
        BY <2>1 DEF TypeOK, TlsUp, ReadHello
    <2>3. \A out : ~TaskEnds(k, out, "over") /\ ~TaskEnds(k, out, "denied")
        BY <2>1 DEF TypeOK, TaskEnds
    <2> QED
        BY <1>6, <2>2, <2>3 DEF Task, TlsFails, RefuseHello, RefuseResponse, PeerGone
<1> QED
    BY <1>1, <1>2, <1>3, <1>4, <1>5, <1>6 DEF Next, Peers

LEMMA StepAuthenticated ==
    ASSUME TypeOK, Spawnable, Signed, AuthenticatedPeer, [Next]_vars
    PROVE  AuthenticatedPeer'
<1> SUFFICES ASSUME NEW p \in Peers, NEW n \in {1, 2}, srv'[<<p, n>>] = "main"
             PROVE  /\ user'[<<p, n>>] \in Accounts
                    /\ Identity[p] \in snap'[<<p, n>>]
                    /\ Engaged(p, n)'
    BY DEF AuthenticatedPeer, Engaged
<1> DEFINE k == <<p, n>>
<1>0. k \in Conns
    BY DEF Conns
<1>1. CASE ReadResponse(k)
    <2> DEFINE m == Head(up[k])
    <2>1. /\ up[k] # <<>> /\ m.kind = "response"
          /\ KeyListed(k, m) /\ Verifies(k, m)
          /\ UNCHANGED <<user, snap>> /\ link[k] = "up"
        BY <1>1 DEF ReadResponse
    <2>2. m \in ToServer /\ m \in Range(up[k])
        BY <1>0, <2>1, ReceiveFromQueue DEF TypeOK
    <2>3. Honest(p, n, m)
        BY <2>2 DEF Signed
    <2>4. m.pub \in Keys /\ m.sig.key = m.pub /\ m.sig.nonce = k
        BY <2>1, <2>2, MessageFields DEF Verifies, Signature
    <2>5. Identity[p] = m.pub /\ Engaged(p, n)
        BY <2>1, <2>3, <2>4, SentinelAssumption DEF Honest
    <2>6. Engaged(p, n)'
        BY <1>0, <2>1, <2>5, StepEngaged
    <2> QED
        BY <2>1, <2>5, <2>6 DEF KeyListed
<1>2. CASE /\ srv[k] = "main" /\ user'[k] = user[k] /\ snap'[k] = snap[k]
           /\ link'[k] = "up" => link[k] = "up"
    <2>1. user[k] \in Accounts /\ Identity[p] \in snap[k] /\ Engaged(p, n)
        BY <1>2 DEF AuthenticatedPeer, Engaged
    <2>2. CASE link[k] # "none"
        BY <1>2, <2>1, <2>2, StepEngaged
    <2>3. CASE link[k] = "none"
        <3>1. link'[k] # "up"
            BY <1>2, <2>3 DEF Engaged
        <3> QED
            BY <1>2, <2>1, <3>1 DEF Engaged
    <2> QED
        BY <2>2, <2>3
<1> QED
    BY <1>0, <1>1, <1>2, StepMain
LEMMA InitSigned == Init => Signed /\ AuthenticatedPeer
<1>1. Range(<<>>) = {}
    BY EmptySeq DEF Range
<1>2. Init => Signed
    BY <1>1 DEF Init, Signed, Conns
<1>3. Init => AuthenticatedPeer
    BY DEF Init, AuthenticatedPeer, Conns
<1> QED
    BY <1>2, <1>3

\* Whatever strangers send, whatever is lost and however often a client retries,
\* a task serves channels and forwards only for a peer that holds a key listed
\* for the existing account it claimed, and that signed this connection's nonce
\* after receiving it.
THEOREM PeerAuthenticated == Spec => []AuthenticatedPeer
<1> DEFINE AuthInv == TypeOK /\ Spawnable /\ Signed /\ AuthenticatedPeer
<1>1. Init => AuthInv
    BY InitType, InitSpawnable, InitSigned
<1>2. AuthInv /\ [Next]_vars => AuthInv'
    BY StepType, StepSpawnable, StepSigned, StepAuthenticated
<1>3. AuthInv => AuthenticatedPeer
    OBVIOUS
<1> HIDE DEF AuthInv
<1> QED
    BY <1>1, <1>2, <1>3, PTL DEF Spec

(***************************************************************************)
(* Both ends of an exchange.                                               *)
(***************************************************************************)
OneAtMost(s, m) == s = <<>> \/ s = <<m>>

LEMMA OneMessage ==
    \A m : /\ Head(<<m>>) = m /\ Tail(<<m>>) = <<>> /\ Append(<<>>, m) = <<m>>
           /\ <<m>> # <<>> /\ <<>> \o <<m>> = <<m>>
OBVIOUS

\* Of one message, closing leaves it or nothing.
LEMMA TruncationOfOne ==
    ASSUME NEW m, NEW s, OneAtMost(s, m), NEW t \in Truncations(s)
    PROVE  OneAtMost(t, m)
<1>1. CASE s = <<>>
    BY <1>1, TruncationOfEmpty DEF OneAtMost
<1>2. CASE s = <<m>>
    <2>1. s \in Seq({m}) /\ Len(s) = 1
        BY <1>2
    <2>2. PICK n \in 0..1 : t = SubSeq(s, 1, n)
        BY <2>1 DEF Truncations
    <2>3. CASE n = 0
        BY <2>2, <2>3, SubSeqEmpty DEF OneAtMost
    <2>4. CASE n = 1
        BY <1>2, <2>1, <2>2, <2>4, SubSeqFull DEF OneAtMost
    <2> QED
        BY <2>2, <2>3, <2>4
<1> QED
    BY <1>1, <1>2 DEF OneAtMost

\* What the end of a task leaves on the wire, when one message at most is there.
LEMMA EndLeaves ==
    ASSUME TypeOK, NEW k \in Conns, NEW out, NEW outcome, TaskEnds(k, out, outcome)
    PROVE  /\ srv'[k] = outcome /\ link'[k] = "closed" /\ up'[k] = <<>>
           /\ out = <<>> => \A m : OneAtMost(down[k], m) => OneAtMost(down'[k], m)
           /\ \A m : out = <<m>> /\ down[k] = <<>> => OneAtMost(down'[k], m)
           /\ out = <<>> /\ down[k] = <<>> => down'[k] = <<>>
<1> DEFINE sent == IF link[k] = "up" THEN out ELSE <<>>
<1>1. PICK s \in Truncations(down[k] \o sent) : down' = [down EXCEPT ![k] = s]
    BY DEF TaskEnds, ServerDrops
<1>2. srv'[k] = outcome /\ link'[k] = "closed" /\ up'[k] = <<>> /\ down'[k] = s
    BY <1>1 DEF TypeOK, TaskEnds, ServerDrops
<1>3. ASSUME out = <<>>, NEW m, OneAtMost(down[k], m)
      PROVE  OneAtMost(s, m)
    <2>1. down[k] \o sent = down[k]
        BY <1>3, ConcatEmptySeq DEF TypeOK
    <2> QED
        BY <1>3, <2>1, TruncationOfOne
<1>4. ASSUME NEW m, out = <<m>>, down[k] = <<>>
      PROVE  OneAtMost(s, m)
    <2>1. OneAtMost(down[k] \o sent, m)
        BY <1>4, OneMessage DEF OneAtMost
    <2> QED
        BY <2>1, TruncationOfOne
<1>5. ASSUME out = <<>>, down[k] = <<>>
      PROVE  s = <<>>
    <2>1. down[k] \o sent = <<>>
        BY <1>5, ConcatEmptySeq DEF TypeOK
    <2> QED
        BY <2>1, TruncationOfEmpty
<1> QED
    BY <1>2, <1>3, <1>4, <1>5

\* What holds of a connection by itself, whoever dialled it.
Wired(k) ==
    /\ link[k] = "none" => up[k] = <<>> /\ down[k] = <<>> /\ srv[k] \in {"none", "tls"}
    /\ srv[k] \in {"none", "tls"} => link[k] # "up"
    /\ srv[k] \in {"over", "denied"} => link[k] = "closed"
    /\ user[k] \notin Accounts => snap[k] = {}

\* The account was asked for, and its file did list the key, or did not.
Granted(c, k) == user[k] = Login[c] /\ Identity[c] \in snap[k]
Refused(c, k) == srv[k] = "denied" /\ user[k] = Login[c] /\ Identity[c] \notin snap[k]

Answer(c, k) == Response(Identity[c], Signature(Identity[c], k, Login[c]))

\* Where the server can be, and what can be under way, before the client has
\* spoken, while it waits for the challenge, and while it waits for the result.
Unheard(k) == up[k] = <<>> /\ down[k] = <<>> /\ srv[k] \in {"none", "tls", "hello", "over"}

Greeted(c, k) ==
    \/ /\ srv[k] = "hello" /\ down[k] = <<>>
       /\ OneAtMost(up[k], Hello(c \notin Outdated, Login[c]))
    \/ /\ srv[k] = "response" /\ user[k] = Login[c] /\ up[k] = <<>>
       /\ OneAtMost(down[k], Challenge(k))
    \/ srv[k] = "over" /\ up[k] = <<>>

Answered(c, k) ==
    \/ /\ srv[k] = "response" /\ user[k] = Login[c] /\ down[k] = <<>>
       /\ OneAtMost(up[k], Answer(c, k))
    \/ /\ srv[k] \in {"main", "over"} /\ up[k] = <<>> /\ OneAtMost(down[k], Result(TRUE))
       /\ srv[k] = "main" \/ down[k] # <<>> => Granted(c, k)
    \/ Refused(c, k) /\ up[k] = <<>> /\ OneAtMost(down[k], Result(FALSE))

InStep(c, k) ==
    /\ cl[c] \in {"idle", "dialing"} => Unheard(k)
    /\ cl[c] = "challenge" => Greeted(c, k)
    /\ cl[c] = "result" => Answered(c, k)
    /\ cl[c] = "connected" => srv[k] \in {"main", "over"} /\ Granted(c, k)
    /\ cl[c] \in {"rejected", "uploaded"} => Refused(c, k)

\* Client c and the server are in step on the connection it uses now, and a
\* first connection that was followed by a second was refused.
Agreed(c, n) ==
    /\ attempt[c] = n => InStep(c, <<c, n>>)
    /\ attempt[c] = 2 /\ n = 1 => Refused(c, <<c, n>>)

Agreement ==
    /\ \A k \in Conns : Wired(k)
    /\ \A c \in Clients, n \in {1, 2} : Agreed(c, n)

LEMMA AgreementShows == TypeOK /\ Agreement => OutcomeAgreement /\ RetriesOnlyAfterRefusal
<1> SUFFICES ASSUME TypeOK, Agreement PROVE OutcomeAgreement /\ RetriesOnlyAfterRefusal
    OBVIOUS
<1>1. \A c \in Clients : InStep(c, Conn(c))
    BY DEF Agreement, Agreed, Conn, TypeOK, Peers
<1>2. OutcomeAgreement
    BY <1>1 DEF OutcomeAgreement, InStep, Granted, Refused
<1>3. RetriesOnlyAfterRefusal
    BY DEF Agreement, Agreed, Refused, RetriesOnlyAfterRefusal
<1> QED
    BY <1>2, <1>3

LEMMA InitAgreement == Init => Agreement
<1> SUFFICES ASSUME Init PROVE Agreement
    OBVIOUS
<1>1. \A k \in Conns : Wired(k)
    BY DEF Init, Wired
<1>2. ASSUME NEW c \in Clients, NEW n \in {1, 2} PROVE Agreed(c, n)
    <2>1. c \in Peers /\ <<c, n>> \in Conns
        BY DEF Peers, Conns
    <2> QED
        BY <2>1 DEF Init, Agreed, InStep, Unheard
<1> QED
    BY <1>1, <1>2 DEF Agreement

\* Steps that leave client c and its connection alone.
LEMMA Untouched ==
    ASSUME NEW c \in Clients, NEW n \in {1, 2}, Agreed(c, n),
           cl'[c] = cl[c], attempt'[c] = attempt[c],
           srv'[<<c, n>>] = srv[<<c, n>>], up'[<<c, n>>] = up[<<c, n>>],
           down'[<<c, n>>] = down[<<c, n>>], user'[<<c, n>>] = user[<<c, n>>],
           snap'[<<c, n>>] = snap[<<c, n>>]
    PROVE  Agreed(c, n)'
BY DEF Agreed, InStep, Unheard, Greeted, Answered, Granted, Refused, OneAtMost, Challenge, Answer

(***************************************************************************)
(* One step of the server task of an exchange keeps both ends in step.     *)
(***************************************************************************)
LEMMA TaskUnheard ==
    ASSUME TypeOK, NEW k \in Conns, Unheard(k), Task(k)
    PROVE  Unheard(k)'
<1>1. srv[k] \in {"none", "tls", "hello", "over"} /\ up[k] = <<>> /\ down[k] = <<>>
    BY DEF Unheard
<1>2. TlsUp(k) \/ TaskEnds(k, <<>>, "over")
    BY <1>1 DEF Task, TlsFails, ReadHello, RefuseHello, ReadResponse, RefuseResponse, PeerGone
<1>3. CASE TlsUp(k)
    BY <1>1, <1>3 DEF TlsUp, Unheard, TypeOK
<1>4. CASE TaskEnds(k, <<>>, "over")
    BY <1>1, <1>4, EndLeaves DEF Unheard
<1> QED
    BY <1>2, <1>3, <1>4

LEMMA TaskGreeted ==
    ASSUME TypeOK, NEW c \in Clients, NEW k \in Conns, Greeted(c, k), Task(k)
    PROVE  Greeted(c, k)'
<1>1. ASSUME NEW out, TaskEnds(k, out, "over") PROVE Greeted(c, k)'
    BY <1>1, EndLeaves DEF Greeted
<1>2. CASE srv[k] = "hello"
    <2>1. down[k] = <<>> /\ OneAtMost(up[k], Hello(c \notin Outdated, Login[c]))
        BY <1>2 DEF Greeted
    <2>2. CASE ReadHello(k)
        <3>1. up[k] = <<Hello(c \notin Outdated, Login[c])>>
            BY <2>1, <2>2 DEF OneAtMost, ReadHello
        <3>2. Head(up[k]).name = Login[c] /\ Tail(up[k]) = <<>>
            BY <3>1, OneMessage DEF Hello
        <3>3. Append(down[k], Challenge(k)) = <<Challenge(k)>>
            BY <2>1, OneMessage
        <3>4. srv'[k] = "response" /\ user'[k] = Login[c] /\ up'[k] = <<>>
              /\ down'[k] = <<Challenge(k)>>
            BY <2>2, <3>2, <3>3 DEF ReadHello, TypeOK
        <3> QED
            BY <3>4 DEF Greeted, OneAtMost, Challenge
    <2>3. CASE \E out : TaskEnds(k, out, "over")
        BY <1>1, <2>3
    <2> QED
        BY <1>2, <2>2, <2>3 DEF Task, TlsUp, TlsFails, RefuseHello, ReadResponse, RefuseResponse,
           PeerGone
<1>3. CASE srv[k] = "response"
    <2>1. up[k] = <<>>
        BY <1>3 DEF Greeted
    <2> QED
        BY <1>1, <1>3, <2>1 DEF Task, TlsUp, TlsFails, ReadHello, RefuseHello, ReadResponse,
           RefuseResponse, PeerGone
<1>4. CASE srv[k] = "over"
    BY <1>4 DEF Task, TlsUp, TlsFails, ReadHello, RefuseHello, ReadResponse, RefuseResponse, PeerGone
<1> QED
    BY <1>2, <1>3, <1>4 DEF Greeted

LEMMA TaskAnswered ==
    ASSUME TypeOK, NEW c \in Clients, NEW k \in Conns, Wired(k), Answered(c, k), Task(k)
    PROVE  Answered(c, k)'
<1>0. user \in [Conns -> Names \cup {NoConn}] /\ snap \in [Conns -> SUBSET Keys]
    BY DEF TypeOK
<1>1. CASE srv[k] = "response"
    <2> DEFINE m == Answer(c, k)
    <2>1. user[k] = Login[c] /\ down[k] = <<>> /\ OneAtMost(up[k], m)
        BY <1>1 DEF Answered, Refused
    <2>2. /\ m.kind = "response" /\ m.pub = Identity[c]
          /\ m.sig = Signature(Identity[c], k, Login[c])
        BY DEF Answer, Response
    <2>3. up[k] # <<>> => Head(up[k]) = m /\ Tail(up[k]) = <<>>
        BY <2>1, OneMessage DEF OneAtMost
    <2>4. Verifies(k, m)
        BY <2>1, <2>2 DEF Verifies
    <2> HIDE DEF m
    <2>5. CASE ReadResponse(k)
        <3>1. KeyListed(k, m) /\ up'[k] = <<>> /\ srv'[k] = "main" /\ UNCHANGED <<user, snap>>
            BY <2>3, <2>5 DEF ReadResponse, TypeOK
        <3>2. down'[k] = <<Result(TRUE)>>
            BY <2>1, <2>5, OneMessage DEF ReadResponse, TypeOK
        <3>3. Granted(c, k)'
            BY <2>1, <2>2, <3>1 DEF KeyListed, Granted
        <3> QED
            BY <3>1, <3>2, <3>3 DEF Answered, OneAtMost
    <2>6. CASE RefuseResponse(k)
        <3>1. up[k] # <<>> /\ Head(up[k]) = m /\ UNCHANGED <<user, snap>>
            BY <2>3, <2>6 DEF RefuseResponse
        <3>2. TaskEnds(k, Failure(k, m), IF Failure(k, m) = <<>> THEN "over" ELSE "denied")
            BY <2>2, <2>6, <3>1 DEF RefuseResponse
        <3>3. CASE KeyListed(k, m)
            <4>1. Failure(k, m) = <<>>
                BY <2>4, <3>3 DEF Failure
            <4>2. TaskEnds(k, <<>>, "over")
                BY <3>2, <4>1
            <4>3. srv'[k] = "over" /\ up'[k] = <<>> /\ down'[k] = <<>>
                BY <2>1, <4>2, EndLeaves
            <4> QED
                BY <4>3 DEF Answered, OneAtMost
        <3>4. CASE ~KeyListed(k, m)
            <4>1. Failure(k, m) = <<Result(FALSE)>>
                BY <3>4 DEF Failure
            <4>2. TaskEnds(k, <<Result(FALSE)>>, "denied")
                BY <3>2, <4>1, OneMessage
            <4>3. srv'[k] = "denied" /\ up'[k] = <<>> /\ OneAtMost(down'[k], Result(FALSE))
                BY <2>1, <4>2, EndLeaves
            <4>4. Identity[c] \notin snap[k]
                BY <2>2, <3>4 DEF KeyListed, Wired
            <4> QED
                BY <2>1, <3>1, <4>3, <4>4 DEF Answered, Refused, OneAtMost
        <3> QED
            BY <3>3, <3>4
    <2>7. CASE PeerGone(k)
        <3>1. TaskEnds(k, <<>>, "over")
            BY <2>7 DEF PeerGone
        <3>2. srv'[k] = "over" /\ up'[k] = <<>> /\ down'[k] = <<>>
            BY <2>1, <3>1, EndLeaves
        <3> QED
            BY <3>2 DEF Answered, OneAtMost
    <2> QED
        BY <1>1, <2>5, <2>6, <2>7 DEF Task, TlsUp, TlsFails, ReadHello, RefuseHello
<1>2. CASE srv[k] = "main"
    <2>1. PeerGone(k)
        BY <1>2 DEF Task, TlsUp, TlsFails, ReadHello, RefuseHello, ReadResponse, RefuseResponse
    <2>2. TaskEnds(k, <<>>, "over") /\ UNCHANGED <<user, snap>>
        BY <2>1 DEF PeerGone
    <2>3. OneAtMost(down[k], Result(TRUE)) /\ Granted(c, k)
        BY <1>2 DEF Answered, Refused
    <2>4. srv'[k] = "over" /\ up'[k] = <<>> /\ OneAtMost(down'[k], Result(TRUE))
        BY <2>2, <2>3, EndLeaves
    <2> QED
        BY <2>2, <2>3, <2>4 DEF Answered, Granted, OneAtMost
<1>3. CASE srv[k] \in {"over", "denied"}
    BY <1>3 DEF Task, TlsUp, TlsFails, ReadHello, RefuseHello, ReadResponse, RefuseResponse, PeerGone
<1> QED
    BY <1>1, <1>2, <1>3 DEF Answered, Refused

\* What a task does to the other connections: nothing.
LEMMA EndIsLocal ==
    ASSUME TypeOK, NEW k \in Conns, NEW out, NEW outcome, TaskEnds(k, out, outcome)
    PROVE  \A j \in Conns \ {k} : up'[j] = up[j] /\ down'[j] = down[j]
<1>1. up' = [up EXCEPT ![k] = <<>>] /\ \E s : down' = [down EXCEPT ![k] = s]
    BY DEF TaskEnds, ServerDrops
<1> QED
    BY <1>1 DEF TypeOK

LEMMA TaskIsLocal ==
    ASSUME TypeOK, NEW k \in Conns, Task(k)
    PROVE  \A j \in Conns \ {k} :
              /\ srv'[j] = srv[j] /\ link'[j] = link[j]
              /\ up'[j] = up[j] /\ down'[j] = down[j]
              /\ user'[j] = user[j] /\ snap'[j] = snap[j]
<1>1. \A j \in Conns \ {k} : srv'[j] = srv[j] /\ link'[j] = link[j]
    BY TaskHasEffect DEF TaskEffect
<1>2. CASE TlsUp(k)
    BY <1>1, <1>2 DEF TlsUp
<1>3. CASE ReadHello(k)
    BY <1>1, <1>3 DEF ReadHello, TypeOK
<1>4. CASE ReadResponse(k)
    BY <1>1, <1>4 DEF ReadResponse, TypeOK
<1>5. CASE TlsFails(k) \/ RefuseHello(k) \/ RefuseResponse(k) \/ PeerGone(k)
    <2>1. UNCHANGED <<user, snap>> /\ \E out, outcome : TaskEnds(k, out, outcome)
        BY <1>5 DEF TlsFails, RefuseHello, RefuseResponse, PeerGone
    <2> QED
        BY <1>1, <2>1, EndIsLocal
<1> QED
    BY <1>2, <1>3, <1>4, <1>5 DEF Task

LEMMA TaskAgreed ==
    ASSUME TypeOK, NEW c \in Clients, NEW n \in {1, 2}, Agreed(c, n), Wired(<<c, n>>),
           NEW k \in Conns, Task(k)
    PROVE  Agreed(c, n)'
<1>0. <<c, n>> \in Conns /\ UNCHANGED <<cl, attempt>> /\ srv[k] \in Holding
    BY TaskHasEffect DEF TaskEffect, Conns, Peers
<1>1. CASE k # <<c, n>>
    <2> DEFINE j == <<c, n>>
    <2>1. /\ srv'[j] = srv[j] /\ up'[j] = up[j] /\ down'[j] = down[j]
          /\ user'[j] = user[j] /\ snap'[j] = snap[j]
        BY <1>0, <1>1, TaskIsLocal
    <2> QED
        BY <1>0, <2>1, Untouched
<1>2. CASE k = <<c, n>>
    <2>1. srv[k] # "denied" /\ ~Refused(c, k)
        BY <1>0 DEF Holding, Refused
    <2>2. ASSUME attempt[c] = n PROVE InStep(c, k)'
        <3>1. InStep(c, k)
            BY <1>2, <2>2 DEF Agreed
        <3>2. cl[c] = "connected" => srv'[k] \in {"main", "over"} /\ Granted(c, k)'
            <4>1. SUFFICES ASSUME cl[c] = "connected"
                           PROVE  srv'[k] \in {"main", "over"} /\ Granted(c, k)'
                OBVIOUS
            <4>2. srv[k] = "main" /\ Granted(c, k)
                BY <1>0, <3>1, <4>1 DEF InStep, Holding
            <4>3. PeerGone(k)
                BY <4>2 DEF Task, TlsUp, TlsFails, ReadHello, RefuseHello, ReadResponse,
                   RefuseResponse
            <4>4. srv'[k] = "over" /\ UNCHANGED <<user, snap>>
                BY <4>3, EndLeaves DEF PeerGone
            <4> QED
                BY <4>2, <4>4 DEF Granted
        <3> QED
            BY <1>0, <1>2, <2>1, <3>1, <3>2, TaskUnheard, TaskGreeted, TaskAnswered DEF InStep
    <2> QED
        BY <1>0, <1>2, <2>1, <2>2 DEF Agreed
<1> QED
    BY <1>1, <1>2

(***************************************************************************)
(* The programs, the accept loop and the network.                          *)
(***************************************************************************)
\* What a program does to connections it does not use, and to other programs.
LEMMA PeerIsLocal ==
    ASSUME TypeOK, NEW p \in Peers,
           \/ p \in Clients /\ (Program(p) \/ DialFails(p) \/ Close(p))
           \/ p \in Strangers /\ Stranger(p)
    PROVE  /\ UNCHANGED taskVars
           /\ \A q \in Peers \ {p} : cl'[q] = cl[q] /\ attempt'[q] = attempt[q]
           /\ \A j \in Conns \ {Conn(p)} :
                 link'[j] = link[j] /\ up'[j] = up[j] /\ down'[j] = down[j]
<1>1. Conn(p) \in Conns
    BY ConnType
<1>2. UNCHANGED taskVars
    BY DEF Program, Stranger, Dial, SendHello, AnswerChallenge, ReadSuccess, ReadFailure,
           ConnectError, Upload, Install, SshFails, DialFails, Close,
           StrangerSends, StrangerReads, StrangerLeaves
<1>3. \A q \in Peers \ {p} : cl'[q] = cl[q] /\ attempt'[q] = attempt[q]
    BY DEF TypeOK, Program, Stranger, Dial, SendHello, AnswerChallenge, ReadSuccess, ReadFailure,
           ConnectError, Upload, Install, SshFails, DialFails, Close,
           StrangerSends, StrangerReads, StrangerLeaves
<1>4. \A j \in Conns \ {Conn(p)} : link'[j] = link[j] /\ up'[j] = up[j] /\ down'[j] = down[j]
    BY <1>1
    DEF TypeOK, Program, Stranger, Dial, SendHello, AnswerChallenge, ReadSuccess, ReadFailure,
        ConnectError, Upload, Install, SshFails, DialFails, Close,
        StrangerSends, StrangerReads, StrangerLeaves, PeerDrops, wireVars
<1> QED
    BY <1>2, <1>3, <1>4

LEMMA ProgramAgreed ==
    ASSUME TypeOK, Spawnable, Agreement, NEW c \in Clients,
           Program(c) \/ DialFails(c) \/ Close(c),
           NEW n \in {1, 2}
    PROVE  Agreed(c, n)'
<1> DEFINE k == <<c, n>>
<1>0. /\ c \in Peers /\ k \in Conns /\ attempt[c] \in {1, 2} /\ Conn(c) = <<c, attempt[c]>>
      /\ Agreed(c, n) /\ Wired(k)
    BY DEF Peers, Conns, TypeOK, Conn, Agreement
<1>1. UNCHANGED taskVars
    BY <1>0, PeerIsLocal
<1>2. Refused(c, k) => Refused(c, k)'
    BY <1>1 DEF Refused, taskVars
<1>3. CASE Install(c)
    <2>1. /\ cl[c] = "uploaded" /\ attempt[c] = 1 /\ attempt'[c] = 2 /\ cl'[c] = "idle"
          /\ UNCHANGED wireVars
        BY <1>0, <1>3 DEF Install, Spawnable, TypeOK
    <2>2. CASE n = 1
        <3>1. Refused(c, k)
            BY <2>1, <2>2, <1>0 DEF Agreed, InStep
        <3> QED
            BY <1>2, <2>1, <2>2, <3>1 DEF Agreed
    <2>3. CASE n = 2
        <3>1. link[k] = "none" /\ srv[k] = "none"
            BY <1>0, <2>1, <2>3 DEF Spawnable, Undialled
        <3>2. up[k] = <<>> /\ down[k] = <<>>
            BY <1>0, <3>1 DEF Wired
        <3>3. Unheard(k)'
            BY <1>1, <2>1, <3>1, <3>2 DEF Unheard, wireVars, taskVars
        <3> QED
            BY <2>1, <2>3, <3>3 DEF Agreed, InStep
    <2> QED
        BY <2>2, <2>3
<1>4. CASE ~Install(c)
    <2>0. attempt' = attempt
        BY <1>4 DEF Program, Dial, SendHello, AnswerChallenge, ReadSuccess, ReadFailure,
           ConnectError, Upload, SshFails, DialFails, Close
    <2>1. SUFFICES ASSUME attempt[c] = n PROVE InStep(c, k)'
        BY <1>0, <1>2, <2>0, <2>1 DEF Agreed
    <2>2. InStep(c, k) /\ Conn(c) = k
        BY <1>0, <2>1 DEF Agreed
    <2>3. CASE Dial(c)
        <3>1. cl[c] = "idle" /\ cl'[c] = "dialing" /\ UNCHANGED wireVars
            BY <1>0, <2>3 DEF Dial, TypeOK
        <3> QED
            BY <1>1, <2>2, <3>1 DEF InStep, Unheard, wireVars, taskVars
    <2>4. CASE SendHello(c)
        <3>1. cl[c] = "dialing" /\ cl'[c] = "challenge" /\ link[k] = "up" /\ down' = down
            BY <1>0, <2>2, <2>4 DEF SendHello, TypeOK
        <3>2. srv[k] = "hello" /\ up[k] = <<>> /\ down[k] = <<>>
            BY <1>0, <2>2, <3>1 DEF InStep, Unheard, Wired
        <3>3. up'[k] = <<Hello(c \notin Outdated, Login[c])>>
            BY <1>0, <2>2, <2>4, <3>2, OneMessage DEF SendHello, TypeOK
        <3>4. Greeted(c, k)'
            BY <1>1, <3>1, <3>2, <3>3 DEF Greeted, OneAtMost, taskVars
        <3> QED
            BY <3>1, <3>4 DEF InStep
    <2>5. CASE AnswerChallenge(c)
        <3>1. cl[c] = "challenge" /\ cl'[c] = "result" /\ link[k] = "up" /\ down[k] # <<>>
            BY <1>0, <2>2, <2>5 DEF AnswerChallenge, TypeOK
        <3>2. /\ srv[k] = "response" /\ user[k] = Login[c] /\ up[k] = <<>>
              /\ down[k] = <<Challenge(k)>>
            BY <1>0, <2>2, <3>1 DEF InStep, Greeted, Wired, OneAtMost
        <3>3. Head(down[k]).nonce = k /\ Tail(down[k]) = <<>>
            BY <3>2, OneMessage DEF Challenge
        <3>4. up' = [up EXCEPT ![k] = Append(@, Answer(c, k))] /\ down' = [down EXCEPT ![k] = Tail(@)]
            BY <2>2, <2>5, <3>3 DEF AnswerChallenge, Answer
        <3>5. up'[k] = <<Answer(c, k)>> /\ down'[k] = <<>>
            BY <1>0, <3>2, <3>3, <3>4, OneMessage DEF TypeOK
        <3>6. Answered(c, k)'
            BY <1>1, <3>2, <3>5 DEF Answered, OneAtMost, taskVars, Answer
        <3> QED
            BY <3>1, <3>6 DEF InStep
    <2>6. CASE ReadSuccess(c)
        <3>1. /\ cl[c] = "result" /\ cl'[c] = "connected" /\ down[k] # <<>>
              /\ Head(down[k]) = Result(TRUE)
            BY <1>0, <2>2, <2>6 DEF ReadSuccess, TypeOK
        <3>2. down[k] # <<Result(FALSE)>>
            BY <3>1, OneMessage DEF Result
        <3>3. srv[k] \in {"main", "over"} /\ Granted(c, k)
            BY <2>2, <3>1, <3>2 DEF InStep, Answered, OneAtMost
        <3> QED
            BY <1>1, <3>1, <3>3 DEF InStep, Granted, taskVars
    <2>7. CASE ReadFailure(c)
        <3>1. /\ cl[c] = "result" /\ cl'[c] \in {"rejected", "failed"} /\ down[k] # <<>>
              /\ Head(down[k]) = Result(FALSE)
            BY <1>0, <2>2, <2>7 DEF ReadFailure, TypeOK
        <3>2. down[k] # <<Result(TRUE)>>
            BY <3>1, OneMessage DEF Result
        <3>3. Refused(c, k)
            BY <2>2, <3>1, <3>2 DEF InStep, Answered, OneAtMost
        <3> QED
            BY <1>2, <3>1, <3>3 DEF InStep
    <2>8. CASE Upload(c)
        <3>1. cl[c] = "rejected" /\ cl'[c] = "uploaded"
            BY <1>0, <2>8 DEF Upload, TypeOK
        <3> QED
            BY <1>2, <2>2, <3>1 DEF InStep
    <2>9. CASE ConnectError(c) \/ SshFails(c) \/ DialFails(c) \/ Close(c)
        <3>1. cl'[c] \in {"failed", "done"}
            BY <1>0, <2>9 DEF ConnectError, SshFails, DialFails, Close, TypeOK
        <3> QED
            BY <3>1 DEF InStep
    <2> QED
        BY <1>4, <2>3, <2>4, <2>5, <2>6, <2>7, <2>8, <2>9 DEF Program
<1> QED
    BY <1>3, <1>4

\* What is lost on the way leaves both ends in step.
LEMMA LostAgreed ==
    ASSUME TypeOK, NEW j \in Conns, LinkLost(j), NEW c \in Clients, NEW n \in {1, 2}, Agreed(c, n)
    PROVE  Agreed(c, n)'
<1> DEFINE k == <<c, n>>
<1>0. k \in Conns /\ UNCHANGED <<cl, attempt, srv, user, snap>>
    BY DEF Conns, Peers, LinkLost, clientVars, taskVars
<1>1. PICK s \in Truncations(up[j]) : up' = [up EXCEPT ![j] = s]
    BY DEF LinkLost
<1>2. PICK t \in Truncations(down[j]) : down' = [down EXCEPT ![j] = t]
    BY DEF LinkLost
<1>3. \A m : /\ OneAtMost(up[k], m) => OneAtMost(up'[k], m)
             /\ OneAtMost(down[k], m) => OneAtMost(down'[k], m)
    BY <1>0, <1>1, <1>2, TruncationOfOne DEF TypeOK
<1>4. (up[k] = <<>> => up'[k] = <<>>) /\ (down[k] = <<>> => down'[k] = <<>>)
    BY <1>0, <1>1, <1>2, TruncationOfEmpty DEF TypeOK
<1>5. Unheard(k) => Unheard(k)'
    BY <1>0, <1>4 DEF Unheard
<1>6. Greeted(c, k) => Greeted(c, k)'
    BY <1>0, <1>3, <1>4 DEF Greeted, OneAtMost, Challenge
<1>7. Refused(c, k) => Refused(c, k)'
    BY <1>0 DEF Refused
<1>8. Granted(c, k) => Granted(c, k)'
    BY <1>0 DEF Granted
<1>9. Answered(c, k) => Answered(c, k)'
    BY <1>0, <1>3, <1>4, <1>7, <1>8 DEF Answered, OneAtMost, Answer
<1> QED
    BY <1>0, <1>5, <1>6, <1>7, <1>8, <1>9 DEF Agreed, InStep

LEMMA AdmitAgreed ==
    ASSUME TypeOK, Spawnable, Admit, NEW c \in Clients, NEW n \in {1, 2}, Agreed(c, n)
    PROVE  Agreed(c, n)'
<1> DEFINE k == <<c, n>>
<1>0. k \in Conns /\ held \in Conns /\ srv[held] = "none"
      /\ srv' = [srv EXCEPT ![held] = "tls"]
      /\ UNCHANGED <<cl, attempt, up, down, user, snap>>
    BY DEF Admit, Spawnable, TypeOK, Conns, Peers, clientVars, wireVars
<1>1. CASE held # k
    BY <1>0, <1>1, Untouched DEF TypeOK
<1>2. CASE held = k
    <2>1. srv'[k] = "tls"
        BY <1>0, <1>2 DEF TypeOK
    <2>2. Unheard(k) => Unheard(k)'
        BY <1>0, <2>1 DEF Unheard
    <2> QED
        BY <1>0, <1>2, <2>2 DEF Agreed, InStep, Greeted, Answered, Refused
<1> QED
    BY <1>1, <1>2

(***************************************************************************)
(* Every step keeps every connection and every exchange in order.          *)
(***************************************************************************)
LEMMA StepWired ==
    ASSUME TypeOK, Spawnable, NEW k \in Conns, Wired(k), [Next]_vars
    PROVE  Wired(k)'
<1>1. CASE UNCHANGED vars \/ Accept
    BY <1>1 DEF Wired, vars, Accept, clientVars, wireVars, taskVars
<1>2. CASE Admit
    <2>1. /\ held \in Conns /\ srv[held] = "none" /\ srv' = [srv EXCEPT ![held] = "tls"]
          /\ UNCHANGED <<link, up, down, user, snap>>
        BY <1>2 DEF Admit, Spawnable, TypeOK, wireVars
    <2> QED
        BY <2>1 DEF Wired, TypeOK
<1>3. ASSUME NEW j \in Conns, Task(j) PROVE Wired(k)'
    <2>1. CASE j # k
        BY <1>3, <2>1, TaskIsLocal DEF Wired
    <2>2. CASE j = k
        <3>1. CASE TlsUp(k)
            BY <3>1 DEF TlsUp, Wired, TypeOK
        <3>2. CASE ReadHello(k)
            <4>1. /\ srv'[k] = "response" /\ link[k] = "up" /\ link' = link
                  /\ user'[k] = Head(up[k]).name /\ snap'[k] = AuthorizedKeys(Head(up[k]).name)
                BY <3>2 DEF ReadHello, TypeOK
            <4> QED
                BY <4>1 DEF Wired, AuthorizedKeys
        <3>3. CASE ReadResponse(k)
            <4>1. srv'[k] = "main" /\ link[k] = "up" /\ UNCHANGED <<link, user, snap>>
                BY <3>3 DEF ReadResponse, TypeOK
            <4> QED
                BY <4>1 DEF Wired
        <3>4. CASE TlsFails(k) \/ RefuseHello(k) \/ RefuseResponse(k) \/ PeerGone(k)
            <4>1. PICK outcome \in {"over", "denied"} :
                     (\E out : TaskEnds(k, out, outcome)) /\ UNCHANGED <<user, snap>>
                BY <3>4 DEF TlsFails, RefuseHello, RefuseResponse, PeerGone
            <4>2. srv'[k] \in {"over", "denied"} /\ link'[k] = "closed"
                BY <4>1, EndLeaves
            <4> QED
                BY <4>1, <4>2 DEF Wired
        <3> QED
            BY <1>3, <2>2, <3>1, <3>2, <3>3, <3>4 DEF Task
    <2> QED
        BY <2>1, <2>2
<1>4. ASSUME NEW j \in LossyConns, LinkLost(j) PROVE Wired(k)'
    <2>1. /\ link[j] = "up" /\ link' = [link EXCEPT ![j] = "closed"]
          /\ UNCHANGED <<srv, user, snap>>
          /\ \E s : up' = [up EXCEPT ![j] = s]
          /\ \E s : down' = [down EXCEPT ![j] = s]
        BY <1>4 DEF LinkLost, taskVars
    <2> QED
        BY <2>1, PeersAssumption DEF Wired, TypeOK
<1>5. ASSUME NEW p \in Peers,
             \/ p \in Clients /\ (Program(p) \/ DialFails(p) \/ Close(p))
             \/ p \in Strangers /\ Stranger(p)
      PROVE  Wired(k)'
    <2>0. UNCHANGED <<srv, user, snap>>
        BY <1>5, PeerIsLocal DEF taskVars
    <2>1. CASE k # Conn(p)
        BY <1>5, <2>0, <2>1, PeerIsLocal DEF Wired
    <2>2. CASE k = Conn(p)
        <3>1. CASE Dial(p) \/ Upload(p) \/ Install(p) \/ SshFails(p)
            BY <2>0, <3>1 DEF Wired, Dial, Upload, Install, SshFails, wireVars
        <3>2. CASE SendHello(p) \/ AnswerChallenge(p) \/ ReadSuccess(p)
                   \/ StrangerSends(p) \/ StrangerReads(p)
            <4>1. link' = link /\ (link[k] = "up" \/ down[k] # <<>>)
                BY <2>2, <3>2 DEF SendHello, AnswerChallenge, ReadSuccess, StrangerSends, StrangerReads
            <4> QED
                BY <2>0, <4>1 DEF Wired
        <3>3. CASE PeerDrops(p)
            <4>1. link'[k] = "closed"
                BY <2>2, <3>3 DEF PeerDrops, TypeOK
            <4> QED
                BY <2>0, <4>1 DEF Wired
        <3> QED
            BY <1>5, <3>1, <3>2, <3>3
            DEF Program, Stranger, ReadFailure, ConnectError, DialFails, Close, StrangerLeaves
    <2> QED
        BY <2>1, <2>2
<1> QED
    BY <1>1, <1>2, <1>3, <1>4, <1>5 DEF Next, Peers

LEMMA StepAgreement ==
    ASSUME TypeOK, Spawnable, Agreement, [Next]_vars
    PROVE  Agreement'
<1>1. ASSUME NEW k \in Conns PROVE Wired(k)'
    BY StepWired DEF Agreement
<1>2. ASSUME NEW c \in Clients, NEW n \in {1, 2} PROVE Agreed(c, n)'
    <2>0. Agreed(c, n) /\ c \in Peers /\ <<c, n>> \in Conns /\ Wired(<<c, n>>)
        BY DEF Agreement, Peers, Conns
    <2>1. CASE UNCHANGED vars \/ Accept
        BY <2>0, <2>1, Untouched DEF vars, Accept, clientVars, wireVars, taskVars
    <2>2. CASE Admit
        BY <2>0, <2>2, AdmitAgreed
    <2>3. ASSUME NEW k \in Conns, Task(k) PROVE Agreed(c, n)'
        BY <2>0, <2>3, TaskAgreed
    <2>4. ASSUME NEW k \in LossyConns, LinkLost(k) PROVE Agreed(c, n)'
        BY <2>0, <2>4, LostAgreed, PeersAssumption
    <2>5. CASE Program(c) \/ DialFails(c) \/ Close(c)
        BY <2>5, ProgramAgreed
    <2>6. ASSUME NEW p \in Peers \ {c},
                 \/ p \in Clients /\ (Program(p) \/ DialFails(p) \/ Close(p))
                 \/ p \in Strangers /\ Stranger(p)
          PROVE  Agreed(c, n)'
        <3>1. <<c, n>> # Conn(p)
            BY <2>6 DEF Conn
        <3>2. /\ cl'[c] = cl[c] /\ attempt'[c] = attempt[c] /\ UNCHANGED <<srv, user, snap>>
              /\ up'[<<c, n>>] = up[<<c, n>>] /\ down'[<<c, n>>] = down[<<c, n>>]
            BY <2>0, <2>6, <3>1, PeerIsLocal DEF taskVars
        <3> QED
            BY <2>0, <3>2, Untouched
    <2>7. Clients \cap Strangers = {}
        BY PeersAssumption
    <2> QED
        BY <2>1, <2>2, <2>3, <2>4, <2>5, <2>6, <2>7 DEF Next, Peers
<1> QED
    BY <1>1, <1>2 DEF Agreement

\* A client that believes it is connected was accepted under the name of its
\* configuration on the connection it uses now, and one that goes to install its
\* key was refused for a key its account did not list: for any number of clients
\* and strangers, lost connections, and any use the strangers make of the framing.
THEOREM OutcomesAgree == Spec => []OutcomeAgreement
<1>1. Init => TypeOK /\ Spawnable /\ Agreement
    BY InitType, InitSpawnable, InitAgreement
<1>2. TypeOK /\ Spawnable /\ Agreement /\ [Next]_vars => (TypeOK /\ Spawnable /\ Agreement)'
    BY StepType, StepSpawnable, StepAgreement
<1>3. TypeOK /\ Agreement => OutcomeAgreement
    BY AgreementShows
<1> QED
    BY <1>1, <1>2, <1>3, PTL DEF Spec

\* A second attempt exists only for a client whose first connection the server
\* ended with AuthResult(Failure) for a key its account did not list.
THEOREM RetriesAfterRefusal == Spec => []RetriesOnlyAfterRefusal
<1>1. Init => TypeOK /\ Spawnable /\ Agreement
    BY InitType, InitSpawnable, InitAgreement
<1>2. TypeOK /\ Spawnable /\ Agreement /\ [Next]_vars => (TypeOK /\ Spawnable /\ Agreement)'
    BY StepType, StepSpawnable, StepAgreement
<1>3. TypeOK /\ Agreement => RetriesOnlyAfterRefusal
    BY AgreementShows
<1> QED
    BY <1>1, <1>2, <1>3, PTL DEF Spec

(***************************************************************************)
(* The key installation.                                                   *)
(***************************************************************************)
\* The file in /tmp holds the key of a client of the account that wrote it,
\* whose first connection was refused.
OwnedBy(c) ==
    /\ Login[c] = tmp.by /\ Identity[c] = tmp.key
    /\ Refused(c, <<c, 1>>)

TmpOwned == tmp # NoFile => \E c \in Clients : OwnedBy(c)

\* A connection that was refused stays refused, with the keys it was refused
\* for: its task is over, and no other one is spawned for it.
LEMMA RefusedStays ==
    ASSUME TypeOK, Spawnable, [Next]_vars, NEW c \in Clients, NEW k \in Conns, Refused(c, k)
    PROVE  Refused(c, k)'
<1>0. srv[k] = "denied"
    BY DEF Refused
<1>1. CASE UNCHANGED taskVars
    BY <1>1 DEF Refused, taskVars
<1>2. CASE Admit
    <2>1. held \in Conns /\ srv[held] = "none" /\ srv' = [srv EXCEPT ![held] = "tls"]
          /\ UNCHANGED <<user, snap>>
        BY <1>2 DEF Admit, Spawnable, TypeOK
    <2> QED
        BY <1>0, <2>1 DEF Refused, TypeOK
<1>3. ASSUME NEW j \in Conns, Task(j) PROVE Refused(c, k)'
    <2>1. srv[j] \in Holding
        BY <1>3, TaskHasEffect DEF TaskEffect
    <2>2. k # j
        BY <1>0, <2>1 DEF Holding
    <2> QED
        BY <1>3, <2>2, TaskIsLocal DEF Refused
<1>4. CASE Accept \/ (\E j \in LossyConns : LinkLost(j)) \/ UNCHANGED vars
    <2>1. UNCHANGED taskVars
        BY <1>4 DEF Accept, LinkLost, vars, taskVars
    <2> QED
        BY <1>1, <2>1
<1>5. ASSUME NEW p \in Peers,
             \/ p \in Clients /\ (Program(p) \/ DialFails(p) \/ Close(p))
             \/ p \in Strangers /\ Stranger(p)
      PROVE  Refused(c, k)'
    BY <1>1, <1>5, PeerIsLocal
<1> QED
    BY <1>2, <1>3, <1>4, <1>5 DEF Next, Peers

\* The file changes only when a client that was refused uploads its own key, or
\* when the command of one of its account appends it and removes it.
LEMMA TmpSteps ==
    ASSUME [Next]_vars
    PROVE  \/ UNCHANGED <<keyfile, tmp>>
           \/ \E c \in Clients : Upload(c) \/ Install(c)
<1>1. ASSUME NEW j \in Conns, Task(j) PROVE UNCHANGED <<keyfile, tmp>>
    BY <1>1 DEF Task, TlsUp, TlsFails, ReadHello, RefuseHello, ReadResponse, RefuseResponse,
       PeerGone, hostVars
<1>2. CASE Accept \/ Admit \/ (\E j \in LossyConns : LinkLost(j)) \/ UNCHANGED vars
    BY <1>2 DEF Accept, Admit, LinkLost, vars, hostVars
<1>3. ASSUME NEW c \in Clients, Program(c) \/ DialFails(c) \/ Close(c), ~Upload(c), ~Install(c)
      PROVE  UNCHANGED <<keyfile, tmp>>
    BY <1>3 DEF Program, Dial, SendHello, AnswerChallenge, ReadSuccess, ReadFailure, ConnectError,
       SshFails, DialFails, Close, hostVars
<1>4. ASSUME NEW p \in Strangers, Stranger(p)
      PROVE  UNCHANGED <<keyfile, tmp>>
    BY <1>4 DEF Stranger, Dial, StrangerSends, StrangerReads, StrangerLeaves, hostVars
<1> QED
    BY <1>1, <1>2, <1>3, <1>4 DEF Next

LEMMA InitOwned == Init => TmpOwned
BY DEF Init, TmpOwned

LEMMA StepOwned ==
    ASSUME TypeOK, Spawnable, Agreement, TmpOwned, [Next]_vars
    PROVE  TmpOwned'
<1>0. \A c \in Clients : <<c, 1>> \in Conns
    BY DEF Conns, Peers
<1>1. CASE UNCHANGED <<keyfile, tmp>>
    <2>1. SUFFICES ASSUME tmp # NoFile PROVE \E c \in Clients : OwnedBy(c)'
        BY <1>1 DEF TmpOwned, NoFile
    <2>2. PICK c \in Clients : OwnedBy(c)
        BY <2>1 DEF TmpOwned
    <2>3. Refused(c, <<c, 1>>)'
        BY <1>0, <2>2, RefusedStays DEF OwnedBy
    <2> QED
        BY <1>1, <2>2, <2>3 DEF OwnedBy
<1>2. ASSUME NEW c \in Clients, Upload(c) PROVE TmpOwned'
    <2>1. cl[c] = "rejected" /\ tmp' = [by |-> Login[c], key |-> Identity[c]]
        BY <1>2 DEF Upload
    <2>2. attempt[c] = 1
        BY <2>1 DEF Spawnable, Peers
    <2>3. Refused(c, <<c, 1>>)
        BY <2>1, <2>2 DEF Agreement, Agreed, InStep
    <2>4. Refused(c, <<c, 1>>)'
        BY <1>0, <2>3, RefusedStays
    <2>5. tmp'.by = Login[c] /\ tmp'.key = Identity[c]
        BY <2>1
    <2> QED
        BY <2>4, <2>5 DEF TmpOwned, OwnedBy
<1>3. ASSUME NEW c \in Clients, Install(c) PROVE TmpOwned'
    BY <1>3 DEF Install, TmpOwned, NoFile
<1> QED
    BY <1>1, <1>2, <1>3, TmpSteps

\* Whatever the number of clients and accounts, and however their uploads and
\* commands mix at the one path in /tmp, an account gets only keys of its own
\* clients, which the server had refused.
THEOREM InstallsOwn == Spec => InstallsOwnKeys
<1> DEFINE Inv == TypeOK /\ Spawnable /\ Agreement /\ TmpOwned
<1>1. Init => Inv
    BY InitType, InitSpawnable, InitAgreement, InitOwned
<1>2. Inv /\ [Next]_vars => Inv'
    BY StepType, StepSpawnable, StepAgreement, StepOwned
<1>3. Inv /\ [Next]_vars =>
      [\A u \in Accounts : \A key \in keyfile'[u].keys \ keyfile[u].keys :
          \E c \in Clients :
              /\ Login[c] = u /\ Identity[c] = key
              /\ srv[<<c, 1>>] = "denied" /\ key \notin snap[<<c, 1>>]]_vars
    <2> SUFFICES ASSUME Inv, [Next]_vars,
                        NEW u \in Accounts, NEW key \in keyfile'[u].keys \ keyfile[u].keys
                 PROVE  \E c \in Clients :
                            /\ Login[c] = u /\ Identity[c] = key
                            /\ srv[<<c, 1>>] = "denied" /\ key \notin snap[<<c, 1>>]
        OBVIOUS
    <2>1. keyfile' # keyfile
        OBVIOUS
    <2>2. PICK d \in Clients : Upload(d) \/ Install(d)
        BY <2>1, TmpSteps
    <2>3. ~Upload(d)
        BY <2>1 DEF Upload
    <2>4. /\ tmp # NoFile /\ tmp.by = Login[d]
          /\ keyfile' = [keyfile EXCEPT ![Login[d]] =
                           [safe |-> TRUE, keys |-> @.keys \cup {tmp.key}]]
        BY <2>2, <2>3 DEF Install
    <2>5. u = Login[d] /\ key = tmp.key
        BY <2>4 DEF TypeOK
    <2>6. PICK c \in Clients : OwnedBy(c)
        BY <2>4 DEF TmpOwned
    <2> QED
        BY <2>4, <2>5, <2>6 DEF OwnedBy, Refused
<1> QED
    BY <1>1, <1>2, <1>3, PTL DEF Spec, InstallsOwnKeys
=============================================================================
