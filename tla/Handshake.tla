----------------------------- MODULE Handshake -----------------------------
(***************************************************************************)
(* Connection establishment from both ends: the accept loop of sqshd and   *)
(* its max_connections semaphore (listener.rs), the server half of the     *)
(* authentication exchange (connection.rs, authenticate), and the sqsh     *)
(* client that dials, authenticates and, when its key is refused, installs *)
(* the key over ssh and retries once (sqsh connection.rs, bootstrap/ssh.rs)*)
(*                                                                         *)
(* A QUIC connection is identified by the peer that dials and the number   *)
(* of its attempt. It carries the control stream as two FIFO queues. The   *)
(* side that drops its last handle closes the connection at once, and what *)
(* it sent but the other side has not received may be lost (quinn gives no *)
(* delivery guarantee for a stream of a connection that is closed).        *)
(*                                                                         *)
(* Data: a nonce is 32 random bytes, modelled as the connection it was     *)
(* drawn for (two connections never draw the same). A signature names its  *)
(* key and the payload it covers. The certificate fingerprint in the       *)
(* payload is one constant of the server and is left out.                  *)
(***************************************************************************)
EXTENDS Integers, Sequences, FiniteSets

CONSTANTS
    Clients,         \* runs of the sqsh client
    Strangers,       \* other programs that speak the framing, in any order
    Names,           \* user names a peer may claim
    Accounts,        \* the names User::from_name finds
    Keys,            \* ML-DSA-65 public keys
    Login,           \* Login[p]: the user name of the configuration of p
    Identity,        \* Identity[p]: the public key whose seed p holds
    Outdated,        \* clients built with another PROTOCOL_VERSION
    MaxConnections,  \* ServerConfig::max_connections
    LossyConns,      \* connections whose network path may go away
    NoConn,          \* no connection (also: a nonce the server never drew)
    NoKey            \* no public key

Peers == Clients \cup Strangers
Conns == Peers \X {1, 2}

ASSUME PeersAssumption ==
    /\ IsFiniteSet(Peers)
    /\ Clients \cap Strangers = {}
    /\ Outdated \subseteq Clients
    /\ Accounts \subseteq Names
    /\ Login \in [Peers -> Names]
    /\ Identity \in [Peers -> Keys]
    /\ LossyConns \subseteq Conns
ASSUME LimitAssumption == MaxConnections \in Nat
ASSUME SentinelAssumption == NoConn \notin Conns /\ NoKey \notin Keys

VARIABLES
    cl,       \* cl[p]: where the dialling program of peer p stands
    attempt,  \* attempt[p]: 1, or 2 for the retry after a key was installed
    link,     \* link[k]: the QUIC connection is "none", "up" or "closed"
    up,       \* up[k]: control messages on their way to the server
    down,     \* down[k]: control messages on their way to the peer
    srv,      \* srv[k]: where the server task of connection k stands
    user,     \* user[k]: the name its ClientHello claimed
    snap,     \* snap[k]: the authorized keys read when the hello arrived
    backlog,  \* connections the endpoint holds for accept()
    held,     \* the one the accept loop took and needs a permit for
    permits,  \* free permits of the semaphore
    keyfile,  \* keyfile[u]: ~u/.squish/authorized_keys
    tmp       \* /tmp/sqsh-authorized-key: who wrote it, which key

clientVars == <<cl, attempt>>
wireVars   == <<link, up, down>>
taskVars   == <<srv, user, snap>>
loopVars   == <<backlog, held>>
hostVars   == <<keyfile, tmp>>
vars == <<cl, attempt, link, up, down, srv, user, snap, backlog, held,
          permits, keyfile, tmp>>

NoFile == [by |-> NoConn, key |-> NoKey]
Conn(p) == <<p, attempt[p]>>

Hello(current, name) == [kind |-> "hello", current |-> current, name |-> name]
Signature(key, nonce, name) == [key |-> key, nonce |-> nonce, name |-> name]
Response(pub, sig) == [kind |-> "response", pub |-> pub, sig |-> sig]
Challenge(k) == [kind |-> "challenge", nonce |-> k]
Result(ok) == [kind |-> "result", ok |-> ok]
Disconnect == [kind |-> "disconnect"]
Malformed == Signature(NoKey, NoConn, NoConn)  \* bytes of the wrong length

Signatures == {Malformed} \cup
              [key : Keys, nonce : Conns \cup {NoConn}, name : Names]
ToServer == [kind : {"hello"}, current : BOOLEAN, name : Names] \cup
            [kind : {"response"}, pub : Keys, sig : Signatures]
ToPeer == [kind : {"challenge"}, nonce : Conns] \cup
          [kind : {"result"}, ok : BOOLEAN] \cup {Disconnect}

(***************************************************************************)
(* States of a dialling program and of a server task. A task holds a       *)
(* permit from the moment it is spawned until drop(permit).                *)
(***************************************************************************)
ClientStates == {"idle", "dialing", "challenge", "result", "connected",
                 "rejected", "uploaded", "open", "challenged", "failed", "done"}
TaskStates == {"none", "tls", "hello", "response", "main", "over", "denied"}
Holding == {"tls", "hello", "response", "main"}
Holders == {k \in Conns : srv[k] \in Holding}

TypeOK ==
    /\ cl \in [Peers -> ClientStates]
    /\ attempt \in [Peers -> {1, 2}]
    /\ link \in [Conns -> {"none", "up", "closed"}]
    /\ up \in [Conns -> Seq(ToServer)]
    /\ down \in [Conns -> Seq(ToPeer)]
    /\ srv \in [Conns -> TaskStates]
    /\ user \in [Conns -> Names \cup {NoConn}]
    /\ snap \in [Conns -> SUBSET Keys]
    /\ backlog \in Seq(Conns)
    /\ held \in Conns \cup {NoConn}
    /\ permits \in Nat
    /\ keyfile \in [Accounts -> [safe : BOOLEAN, keys : SUBSET Keys]]
    /\ tmp \in {NoFile} \cup [by : Names, key : Keys]

Init ==
    /\ cl = [p \in Peers |-> "idle"]
    /\ attempt = [p \in Peers |-> 1]
    /\ link = [k \in Conns |-> "none"]
    /\ up = [k \in Conns |-> <<>>]
    /\ down = [k \in Conns |-> <<>>]
    /\ srv = [k \in Conns |-> "none"]
    /\ user = [k \in Conns |-> NoConn]
    /\ snap = [k \in Conns |-> {}]
    /\ backlog = <<>>
    /\ held = NoConn
    /\ permits = MaxConnections
    /\ keyfile \in [Accounts -> [safe : BOOLEAN, keys : SUBSET Keys]]
    /\ tmp = NoFile

(***************************************************************************)
(* Closing. Whoever closes reads nothing more; of what it sent, any prefix *)
(* still arrives.                                                          *)
(***************************************************************************)
Truncations(s) == {SubSeq(s, 1, n) : n \in 0..Len(s)}

\* The peer's program drops the connection of its current attempt.
PeerDrops(p) ==
    LET k == Conn(p) IN
    /\ link' = [link EXCEPT ![k] = "closed"]
    /\ down' = [down EXCEPT ![k] = <<>>]
    /\ \E s \in Truncations(up[k]) : up' = [up EXCEPT ![k] = s]

\* The server's last handle of connection k is dropped after out was sent.
ServerDrops(k, out) ==
    /\ link' = [link EXCEPT ![k] = "closed"]
    /\ up' = [up EXCEPT ![k] = <<>>]
    /\ LET sent == IF link[k] = "up" THEN out ELSE <<>> IN
       \E s \in Truncations(down[k] \o sent) : down' = [down EXCEPT ![k] = s]

\* Faulty variant: the permit of a peer that was denied is forgotten.
DeniedKeepsPermit(k, out, outcome) ==
    /\ srv' = [srv EXCEPT ![k] = outcome]
    /\ permits' = IF outcome = "denied" THEN permits ELSE permits + 1
    /\ ServerDrops(k, out)

\* The server task ends after sending out, with outcome "denied" if it refused
\* to authenticate the peer: handle() returned, conn and the control stream are
\* dropped, and then the permit.
TaskEnds(k, out, outcome) ==
    /\ srv' = [srv EXCEPT ![k] = outcome]
    /\ permits' = permits + 1
    /\ ServerDrops(k, out)

(***************************************************************************)
(* The accept loop of listener.rs: accept, then wait for a permit, then    *)
(* spawn. While it waits it accepts nothing else.                          *)
(***************************************************************************)
Accept ==
    /\ held = NoConn
    /\ backlog # <<>>
    /\ held' = Head(backlog)
    /\ backlog' = Tail(backlog)
    /\ UNCHANGED <<clientVars, wireVars, taskVars, permits, hostVars>>

\* Faulty variant: a task is spawned without waiting for a permit.
AdmitAtOnce ==
    /\ held # NoConn
    /\ permits' = permits - 1
    /\ srv' = [srv EXCEPT ![held] = "tls"]
    /\ held' = NoConn
    /\ UNCHANGED <<clientVars, wireVars, user, snap, backlog, hostVars>>

Admit ==
    /\ held # NoConn
    /\ permits > 0
    /\ permits' = permits - 1
    /\ srv' = [srv EXCEPT ![held] = "tls"]
    /\ held' = NoConn
    /\ UNCHANGED <<clientVars, wireVars, user, snap, backlog, hostVars>>

\* incoming.await: the handshake completes, or fails if the peer left.
TlsUp(k) ==
    /\ srv[k] = "tls"
    /\ link[k] = "none"
    /\ link' = [link EXCEPT ![k] = "up"]
    /\ srv' = [srv EXCEPT ![k] = "hello"]
    /\ UNCHANGED <<clientVars, up, down, user, snap, loopVars, permits, hostVars>>

\* Faulty variant: a failed handshake leaves the task without drop(permit).
TlsFailsKeepsPermit(k) ==
    /\ srv[k] = "tls"
    /\ link[k] = "closed"
    /\ srv' = [srv EXCEPT ![k] = "over"]
    /\ ServerDrops(k, <<>>)
    /\ UNCHANGED <<clientVars, user, snap, loopVars, permits, hostVars>>

TlsFails(k) ==
    /\ srv[k] = "tls"
    /\ link[k] = "closed"
    /\ TaskEnds(k, <<>>, "over")
    /\ UNCHANGED <<clientVars, user, snap, loopVars, hostVars>>

(***************************************************************************)
(* authenticate(), first half: the hello, the key file and the challenge.  *)
(* The key file is read now; the answer to the challenge may come any time *)
(* later.                                                                  *)
(***************************************************************************)
\* load_user_authorized_keys refuses the file of this account.
Unsafe(name) == name \in Accounts /\ ~keyfile[name].safe
AuthorizedKeys(name) == IF name \in Accounts THEN keyfile[name].keys ELSE {}

ReadHello(k) ==
    /\ srv[k] = "hello"
    /\ up[k] # <<>>
    /\ LET m == Head(up[k]) IN
       /\ m.kind = "hello"
       /\ m.current
       /\ ~Unsafe(m.name)
       /\ link[k] = "up"
       /\ user' = [user EXCEPT ![k] = m.name]
       /\ snap' = [snap EXCEPT ![k] = AuthorizedKeys(m.name)]
       /\ down' = [down EXCEPT ![k] = Append(@, Challenge(k))]
    /\ up' = [up EXCEPT ![k] = Tail(@)]
    /\ srv' = [srv EXCEPT ![k] = "response"]
    /\ UNCHANGED <<clientVars, link, loopVars, permits, hostVars>>

\* Another first message, a refused key file, or nobody to challenge.
RefuseHello(k) ==
    /\ srv[k] = "hello"
    /\ up[k] # <<>>
    /\ LET m == Head(up[k]) IN
       \/ m.kind # "hello" /\ TaskEnds(k, <<>>, "over")
       \/ m.kind = "hello" /\ ~m.current /\ TaskEnds(k, <<Disconnect>>, "over")
       \/ m.kind = "hello" /\ m.current /\ (Unsafe(m.name) \/ link[k] = "closed")
          /\ TaskEnds(k, <<>>, "over")
    /\ UNCHANGED <<clientVars, user, snap, loopVars, hostVars>>

(***************************************************************************)
(* authenticate(), second half.                                            *)
(***************************************************************************)
\* Faulty variants: the key is not looked up; the nonce is not compared.
AnyKeyListed(k, m) == user[k] \in Accounts
VerifiesAnyNonce(k, m) == m.sig.key = m.pub /\ m.sig.name = user[k]

KeyListed(k, m) == user[k] \in Accounts /\ m.pub \in snap[k]
Verifies(k, m) == m.sig = Signature(m.pub, k, user[k])

ReadResponse(k) ==
    /\ srv[k] = "response"
    /\ up[k] # <<>>
    /\ LET m == Head(up[k]) IN
       /\ m.kind = "response"
       /\ KeyListed(k, m)
       /\ Verifies(k, m)
    /\ link[k] = "up"
    /\ down' = [down EXCEPT ![k] = Append(@, Result(TRUE))]
    /\ up' = [up EXCEPT ![k] = Tail(@)]
    /\ srv' = [srv EXCEPT ![k] = "main"]
    /\ UNCHANGED <<clientVars, link, user, snap, loopVars, permits, hostVars>>

\* AuthResult(Failure) is sent for a key that is not listed and for a
\* signature that does not verify, not for one of the wrong length.
Failure(k, m) ==
    IF ~KeyListed(k, m) \/ (m.sig # Malformed /\ ~Verifies(k, m))
    THEN <<Result(FALSE)>> ELSE <<>>

RefuseResponse(k) ==
    /\ srv[k] = "response"
    /\ up[k] # <<>>
    /\ LET m == Head(up[k]) IN
       \/ m.kind # "response" /\ TaskEnds(k, <<>>, "over")
       \/ /\ m.kind = "response"
          /\ ~(KeyListed(k, m) /\ Verifies(k, m)) \/ link[k] = "closed"
          /\ TaskEnds(k, Failure(k, m),
                      IF Failure(k, m) = <<>> THEN "over" ELSE "denied")
    /\ UNCHANGED <<clientVars, user, snap, loopVars, hostVars>>

\* Faulty variant: authenticate() waits on when its peer is gone.
PeerGoneInMain(k) ==
    /\ srv[k] = "main"
    /\ link[k] = "closed"
    /\ TaskEnds(k, <<>>, "over")
    /\ UNCHANGED <<clientVars, user, snap, loopVars, hostVars>>

\* A read that finds nothing on a closed connection, in authenticate() or in
\* the main loop of handle().
PeerGone(k) ==
    /\ srv[k] \in {"hello", "response", "main"}
    /\ link[k] = "closed"
    /\ up[k] = <<>> \/ srv[k] = "main"
    /\ TaskEnds(k, <<>>, "over")
    /\ UNCHANGED <<clientVars, user, snap, loopVars, hostVars>>

(***************************************************************************)
(* The client: connect() and establish_connection().                       *)
(***************************************************************************)
Dial(p) ==
    /\ cl[p] = "idle"
    /\ cl' = [cl EXCEPT ![p] = "dialing"]
    /\ backlog' = Append(backlog, Conn(p))
    /\ UNCHANGED <<attempt, wireVars, taskVars, held, permits, hostVars>>

\* The QUIC handshake got no answer within the idle timeout, or the host key
\* is not the pinned one.
DialFails(c) ==
    /\ cl[c] = "dialing"
    /\ cl' = [cl EXCEPT ![c] = "failed"]
    /\ PeerDrops(c)
    /\ UNCHANGED <<attempt, taskVars, loopVars, permits, hostVars>>

SendHello(c) ==
    /\ cl[c] = "dialing"
    /\ link[Conn(c)] = "up"
    /\ up' = [up EXCEPT ![Conn(c)] = Append(@, Hello(c \notin Outdated, Login[c]))]
    /\ cl' = [cl EXCEPT ![c] = "challenge"]
    /\ UNCHANGED <<attempt, link, down, taskVars, loopVars, permits, hostVars>>

\* Sign and answer the challenge.
AnswerChallenge(c) ==
    LET k == Conn(c) IN
    /\ cl[c] = "challenge"
    /\ link[k] = "up"
    /\ down[k] # <<>>
    /\ Head(down[k]).kind = "challenge"
    /\ down' = [down EXCEPT ![k] = Tail(@)]
    /\ up' = [up EXCEPT ![k] = Append(@,
                 Response(Identity[c],
                          Signature(Identity[c], Head(down[k]).nonce, Login[c])))]
    /\ cl' = [cl EXCEPT ![c] = "result"]
    /\ UNCHANGED <<attempt, link, taskVars, loopVars, permits, hostVars>>

ReadSuccess(c) ==
    LET k == Conn(c) IN
    /\ cl[c] = "result"
    /\ down[k] # <<>>
    /\ Head(down[k]) = Result(TRUE)
    /\ down' = [down EXCEPT ![k] = Tail(@)]
    /\ cl' = [cl EXCEPT ![c] = "connected"]
    /\ UNCHANGED <<attempt, link, up, taskVars, loopVars, permits, hostVars>>

\* AuthFailed: only this error, and only the first time, leads to the retry.
ReadFailure(c) ==
    LET k == Conn(c) IN
    /\ cl[c] = "result"
    /\ down[k] # <<>>
    /\ Head(down[k]) = Result(FALSE)
    /\ cl' = [cl EXCEPT ![c] = IF attempt[c] = 1 THEN "rejected" ELSE "failed"]
    /\ PeerDrops(c)
    /\ UNCHANGED <<attempt, taskVars, loopVars, permits, hostVars>>

\* connect() fails with another error: the first message is Disconnect, or it is
\* the challenge and the signing key cannot be loaded, or the connection ended.
OtherError(c) ==
    LET k == Conn(c) IN
    \/ cl[c] = "challenge" /\ (down[k] # <<>> \/ link[k] = "closed")
    \/ cl[c] = "result" /\ down[k] = <<>> /\ link[k] = "closed"

\* Faulty variants: every error leads to the retry; the client does not notice
\* that the connection ended before the result.
ErrorLeadsToRetry(c) ==
    /\ OtherError(c)
    /\ cl' = [cl EXCEPT ![c] = IF attempt[c] = 1 THEN "rejected" ELSE "failed"]
    /\ PeerDrops(c)
    /\ UNCHANGED <<attempt, taskVars, loopVars, permits, hostVars>>
WaitsForResult(c) ==
    /\ OtherError(c) /\ cl[c] = "challenge"
    /\ cl' = [cl EXCEPT ![c] = "failed"]
    /\ PeerDrops(c)
    /\ UNCHANGED <<attempt, taskVars, loopVars, permits, hostVars>>

ConnectError(c) ==
    /\ OtherError(c)
    /\ cl' = [cl EXCEPT ![c] = "failed"]
    /\ PeerDrops(c)
    /\ UNCHANGED <<attempt, taskVars, loopVars, permits, hostVars>>

(***************************************************************************)
(* install_key_via_ssh: upload the key line to a fixed path in /tmp, then  *)
(* run the command that appends the content of that path. The file is      *)
(* private to the account that wrote it. The command also restricts the    *)
(* mode of the key file, and fails where it cannot. Either step may fail.  *)
(***************************************************************************)
Upload(c) ==
    /\ cl[c] = "rejected"
    /\ Login[c] \in Accounts
    /\ tmp = NoFile \/ tmp.by = Login[c]
    /\ tmp' = [by |-> Login[c], key |-> Identity[c]]
    /\ cl' = [cl EXCEPT ![c] = "uploaded"]
    /\ UNCHANGED <<attempt, wireVars, taskVars, loopVars, permits, keyfile>>

Install(c) ==
    /\ cl[c] = "uploaded"
    /\ tmp # NoFile /\ tmp.by = Login[c]
    /\ keyfile' = [keyfile EXCEPT ![Login[c]] =
                     [safe |-> TRUE, keys |-> @.keys \cup {tmp.key}]]
    /\ tmp' = NoFile
    /\ cl' = [cl EXCEPT ![c] = "idle"]
    /\ attempt' = [attempt EXCEPT ![c] = 2]
    /\ UNCHANGED <<wireVars, taskVars, loopVars, permits>>

SshFails(c) ==
    /\ cl[c] \in {"rejected", "uploaded"}
    /\ cl' = [cl EXCEPT ![c] = "failed"]
    /\ UNCHANGED <<attempt, wireVars, taskVars, loopVars, permits, hostVars>>

\* The session is over: conn.close().
Close(c) ==
    /\ cl[c] = "connected"
    /\ cl' = [cl EXCEPT ![c] = "done"]
    /\ PeerDrops(c)
    /\ UNCHANGED <<attempt, taskVars, loopVars, permits, hostVars>>

(***************************************************************************)
(* A stranger dials once and then sends what it likes: it signs with the   *)
(* one seed it holds, and can sign a challenge only after receiving it.    *)
(***************************************************************************)
StrangerMessages(s) ==
    {Hello(current, name) : current \in BOOLEAN, name \in Names} \cup
    {Response(pub, sig) : pub \in Keys,
        sig \in {Malformed} \cup
                {Signature(Identity[s], nonce, name) :
                   nonce \in {NoConn} \cup
                             (IF cl[s] = "challenged" THEN {Conn(s)} ELSE {}),
                   name \in Names}}

StrangerSends(s) ==
    /\ cl[s] \in {"dialing", "open", "challenged"}
    /\ link[Conn(s)] = "up"
    /\ up[Conn(s)] = <<>>
    /\ \E m \in StrangerMessages(s) : up' = [up EXCEPT ![Conn(s)] = <<m>>]
    /\ cl' = [cl EXCEPT ![s] = IF @ = "dialing" THEN "open" ELSE @]
    /\ UNCHANGED <<attempt, link, down, taskVars, loopVars, permits, hostVars>>

StrangerReads(s) ==
    LET k == Conn(s) IN
    /\ cl[s] \in {"open", "challenged"}
    /\ down[k] # <<>>
    /\ down' = [down EXCEPT ![k] = Tail(@)]
    /\ cl' = [cl EXCEPT ![s] = IF Head(down[k]).kind = "challenge"
                               THEN "challenged" ELSE @]
    /\ UNCHANGED <<attempt, link, up, taskVars, loopVars, permits, hostVars>>

StrangerLeaves(s) ==
    /\ cl[s] \in {"dialing", "open", "challenged"}
    /\ cl' = [cl EXCEPT ![s] = "done"]
    /\ PeerDrops(s)
    /\ UNCHANGED <<attempt, taskVars, loopVars, permits, hostVars>>

\* The network is gone for longer than the idle timeout: both ends lose what
\* was under way.
LinkLost(k) ==
    /\ link[k] = "up"
    /\ link' = [link EXCEPT ![k] = "closed"]
    /\ \E s \in Truncations(up[k]) : up' = [up EXCEPT ![k] = s]
    /\ \E s \in Truncations(down[k]) : down' = [down EXCEPT ![k] = s]
    /\ UNCHANGED <<clientVars, taskVars, loopVars, permits, hostVars>>

(***************************************************************************)
(* The specification.                                                      *)
(***************************************************************************)
Task(k) == \/ TlsUp(k) \/ TlsFails(k)
           \/ ReadHello(k) \/ RefuseHello(k)
           \/ ReadResponse(k) \/ RefuseResponse(k) \/ PeerGone(k)
Program(c) == \/ Dial(c) \/ SendHello(c) \/ AnswerChallenge(c) \/ ReadSuccess(c)
              \/ ReadFailure(c) \/ ConnectError(c)
              \/ Upload(c) \/ Install(c) \/ SshFails(c)
Stranger(s) == Dial(s) \/ StrangerSends(s) \/ StrangerReads(s) \/ StrangerLeaves(s)

Next ==
    \/ Accept \/ Admit
    \/ \E k \in Conns : Task(k)
    \/ \E k \in LossyConns : LinkLost(k)
    \/ \E c \in Clients : Program(c) \/ DialFails(c) \/ Close(c)
    \/ \E s \in Strangers : Stranger(s)

Spec == Init /\ [][Next]_vars

(***************************************************************************)
(* Fairness: the runtime polls the accept loop and the tasks; a client     *)
(* program runs on, and quinn ends a dial that gets no answer. Nobody      *)
(* makes a user log out or a stranger leave: the server has no timeout for *)
(* a connection that does not authenticate, and keep-alives hold it open.  *)
(***************************************************************************)
Fairness ==
    /\ WF_vars(Accept) /\ WF_vars(Admit)
    /\ \A k \in Conns : WF_vars(Task(k))
    /\ \A c \in Clients : WF_vars(Program(c)) /\ WF_vars(DialFails(c))
FairSpec == Spec /\ Fairness

(***************************************************************************)
(* Properties.                                                             *)
(***************************************************************************)
\* The semaphore of listener.rs: whatever way a task ends (refused, peer gone,
\* failed TLS handshake, logged out), it gives back exactly the permit it was
\* spawned with, so at most max_connections tasks are ever alive.
PermitsBalance == permits + Cardinality(Holders) = MaxConnections

\* A task is in the main loop of handle(), where channels and forwards are
\* served, only for a peer that claimed an existing account, holds a key which
\* that account's file listed, and has received this connection's challenge.
AuthenticatedPeer ==
    \A p \in Peers, n \in {1, 2} :
        LET k == <<p, n>> IN
        srv[k] = "main" =>
            /\ user[k] \in Accounts
            /\ Identity[p] \in snap[k]
            /\ link[k] = "up" /\ attempt[p] = n => cl[p] \in {"challenged", "result", "connected"}

\* Both ends agree on the outcome: a client that believes it is connected was
\* accepted, under the name of its configuration, on the connection it uses
\* now; one that was told AuthFailed was not, so it installs its key only when
\* the server did refuse it.
OutcomeAgreement ==
    \A c \in Clients :
        LET k == Conn(c) IN
        /\ cl[c] = "connected" =>
              /\ srv[k] \in {"main", "over"}
              /\ user[k] = Login[c]
              /\ Identity[c] \in snap[k]
        /\ cl[c] \in {"rejected", "uploaded"} =>
              /\ srv[k] = "denied"
              /\ Identity[c] \notin snap[k]

\* The client authenticates at most twice, and the second time only after the
\* key installation: a second attempt exists only for a client whose first one
\* was refused while its key was not listed, and that connection is over.
RetriesOnlyAfterRefusal ==
    \A c \in Clients :
        attempt[c] = 2 =>
            /\ srv[<<c, 1>>] = "denied"
            /\ user[<<c, 1>>] = Login[c]
            /\ Identity[c] \notin snap[<<c, 1>>]

\* The keys that are added to an account are those of clients of that account,
\* which the server refused because the account did not list their key; however
\* the uploads and the commands of several clients mix at the one path in /tmp.
InstallsOwnKeys ==
    [][\A u \in Accounts : \A key \in keyfile'[u].keys \ keyfile[u].keys :
        \E c \in Clients :
            /\ Login[c] = u /\ Identity[c] = key
            /\ srv[<<c, 1>>] = "denied" /\ key \notin snap[<<c, 1>>]]_vars

\* connect() always comes back: with a connection or an error, whatever the
\* other peers do and even while every permit is taken (the dial times out).
ConnectReturns ==
    \A c \in Clients :
        cl[c] = "dialing" ~> cl[c] \in {"connected", "failed", "done"}

\* A task whose connection is closed ends, and its permit comes back, at every
\* stage of the exchange.
ClosedConnectionEnds ==
    \A k \in Conns : link[k] = "closed" /\ srv[k] \in Holding ~> srv[k] \notin Holding

\* The accept loop stays blocked on the semaphore only while peers stay: if
\* every connection is closed in the end, every dial is spawned a task.
EveryDialAdmitted ==
    (\A k \in Conns : []<>(link[k] # "up")) =>
    \A p \in Peers, n \in {1, 2} :
        cl[p] = "dialing" /\ attempt[p] = n ~> srv[<<p, n>>] # "none"
=============================================================================
