---------------------------- MODULE ControlMaster ----------------------------
(***************************************************************************)
(* Connection reuse of the sqsh client (control.rs): runs of sqsh that use *)
(* a control socket, the background masters they start, and the path of    *)
(* the socket, which all of them create, connect to and remove.            *)
(*                                                                         *)
(* A master owns one QUIC connection to the server. For every local client *)
(* it accepts it spawns a handler; the handlers share the control stream   *)
(* of that connection (under a mutex) and the list of forwards that routes *)
(* the streams the server opens.                                           *)
(*                                                                         *)
(* A run s of sqsh makes up to two local connections: the probe of         *)
(* wait_for_master, dropped as soon as it is made, and the one it asks on. *)
(* The session a handler relays is one state here: the messages of its     *)
(* channel are those of Session.                                           *)
(***************************************************************************)
EXTENDS Integers, Sequences, FiniteSets

CONSTANTS
    Slaves,      \* runs of sqsh that go through the socket
    Explicit,    \* masters started with -M
    Persist,     \* control_persist of each run: "no", "yes" or "timeout"
    Binds,       \* what -R may ask for
    Allowed,     \* the binds the server allows
    NoBind,      \* no -R
    Asks,        \* what each run may ask for
    NoLock,      \* nobody holds a mutex
    NoShell,     \* the runs with -N
    Crashing,    \* masters that may be killed
    Losing,      \* masters whose connection may be lost
    NoMaster,    \* nothing is at the path
    Stale        \* a socket at the path that was left by an earlier master

Masters == Slaves \cup Explicit  \* a run starts at most one: it is named for it
Locals == Slaves \X {"probe", "ask"}

ASSUME MasterAssumption ==
    /\ IsFiniteSet(Slaves)
    /\ Slaves \cap Explicit = {}
    /\ Persist \in [Masters -> {"no", "yes", "timeout"}]
    /\ Allowed \subseteq Binds /\ NoBind \notin Binds
    /\ Asks \in [Slaves -> SUBSET (Binds \cup {NoBind})]
    /\ NoShell \subseteq Slaves /\ Crashing \subseteq Masters /\ Losing \subseteq Masters
    /\ NoMaster \notin Masters /\ Stale \notin Masters /\ NoMaster # Stale
    /\ NoLock \notin Locals

VARIABLES
    want,    \* want[s]: the remote forward of run s, or NoBind
    sl,      \* sl[s]: where run s stands
    word,    \* word[s]: the first message of the master to it
    file,    \* the control path: whose socket it names
    ms,      \* ms[m]: where master m stands
    conn,    \* conn[m]: its QUIC connection is "none", "up" or "closed"
    active,  \* active[m]: active_clients of serve_master
    at,      \* at[k]: the master local connection k was made to
    hd,      \* hd[k]: the handler of k
    specs,   \* specs[m]: the shared forwards, as <<bind, run whose target it is>>
    lock,    \* lock[m]: who holds the mutex of the control stream
    req,     \* req[m]: requests on their way to the server
    rep,     \* rep[m]: its answers on their way back
    srvFwd   \* srvFwd[m]: the binds the server has a listener for on conn[m]

slaveVars == <<sl, word>>
loopVars == <<ms, conn, active>>
ctlVars == <<specs, lock, req, rep, srvFwd>>
vars == <<want, sl, word, file, ms, conn, active, at, hd, specs, lock, req, rep, srvFwd>>

SlaveStates == {"start", "refused", "spawn", "waiting", "again", "refused again",
                "asked", "session", "direct", "done", "error"}
MasterStates == {"off", "dialing", "connected", "prepared", "serving", "closing", "over"}
AtWork == {"reading", "locking", "awaiting", "opening", "session"}
HandlerStates == {"none", "backlog", "ended", "gone"} \cup AtWork

Listening(m) == m \in Masters /\ ms[m] \in {"serving", "closing"}
Of(m) == {k \in Locals : at[k] = m}
Gone(s) == sl[s] \in {"done", "error"}

TypeOK ==
    /\ want \in [Slaves -> Binds \cup {NoBind}]
    /\ sl \in [Slaves -> SlaveStates]
    /\ word \in [Slaves -> {"none", "ready", "refused", "error"}]
    /\ file \in Masters \cup {NoMaster, Stale}
    /\ ms \in [Masters -> MasterStates]
    /\ conn \in [Masters -> {"none", "up", "closed"}]
    /\ active \in [Masters -> 0..Cardinality(Locals)]
    /\ at \in [Locals -> Masters \cup {NoMaster}]
    /\ hd \in [Locals -> HandlerStates]
    /\ specs \in [Masters -> SUBSET (Binds \X Slaves)]
    /\ lock \in [Masters -> Locals \cup {NoLock}]
    /\ req \in [Masters -> Seq(Binds)]
    /\ rep \in [Masters -> Seq(BOOLEAN)]
    /\ srvFwd \in [Masters -> SUBSET Allowed]

Init ==
    /\ want \in {f \in [Slaves -> Binds \cup {NoBind}] : \A s \in Slaves : f[s] \in Asks[s]}
    /\ sl = [s \in Slaves |-> "start"]
    /\ word = [s \in Slaves |-> "none"]
    /\ file \in {NoMaster, Stale}
    /\ ms = [m \in Masters |-> IF m \in Explicit THEN "dialing" ELSE "off"]
    /\ conn = [m \in Masters |-> "none"]
    /\ active = [m \in Masters |-> 0]
    /\ at = [k \in Locals |-> NoMaster]
    /\ hd = [k \in Locals |-> "none"]
    /\ specs = [m \in Masters |-> {}]
    /\ lock = [m \in Masters |-> NoLock]
    /\ req = [m \in Masters |-> <<>>]
    /\ rep = [m \in Masters |-> <<>>]
    /\ srvFwd = [m \in Masters |-> {}]

(***************************************************************************)
(* A run of sqsh: run_via_master_or_spawn.                                 *)
(***************************************************************************)
\* send_request_to_master returned false: the second time the run gives up.
NoAnswer(s) == CASE sl[s] \in {"again", "refused again"} -> "error"
                 [] Persist[s] = "no"                    -> "direct"
                 [] OTHER                                -> "spawn"

\* A connection to the path reaches the backlog of whoever listens there.
Reaches(k) ==
    /\ Listening(file)
    /\ at' = [at EXCEPT ![k] = file]
    /\ hd' = [hd EXCEPT ![k] = "backlog"]

Connect(s) ==
    /\ sl[s] \in {"start", "again"}
    /\ Reaches(<<s, "ask">>)
    /\ sl' = [sl EXCEPT ![s] = "asked"]
    /\ UNCHANGED <<want, word, file, loopVars, ctlVars>>

NotFound(s) ==
    /\ sl[s] \in {"start", "again"}
    /\ file = NoMaster
    /\ sl' = [sl EXCEPT ![s] = NoAnswer(s)]
    /\ UNCHANGED <<want, word, file, loopVars, at, hd, ctlVars>>

\* ECONNREFUSED: a socket nobody listens on.
Refused(s) ==
    /\ sl[s] \in {"start", "again"}
    /\ file # NoMaster /\ ~Listening(file)
    /\ sl' = [sl EXCEPT ![s] = IF @ = "start" THEN "refused" ELSE "refused again"]
    /\ UNCHANGED <<want, word, file, loopVars, at, hd, ctlVars>>

\* What is removed is what is at the path by now.
RemoveStale(s) ==
    /\ sl[s] \in {"refused", "refused again"}
    /\ file' = NoMaster
    /\ sl' = [sl EXCEPT ![s] = NoAnswer(s)]
    /\ UNCHANGED <<want, word, loopVars, at, hd, ctlVars>>

Spawn(s) ==
    /\ sl[s] = "spawn"
    /\ ms' = [ms EXCEPT ![s] = "dialing"]
    /\ sl' = [sl EXCEPT ![s] = "waiting"]
    /\ UNCHANGED <<want, word, file, conn, active, at, hd, ctlVars>>

Probe(s) ==
    /\ sl[s] = "waiting"
    /\ Reaches(<<s, "probe">>)
    /\ sl' = [sl EXCEPT ![s] = "again"]
    /\ UNCHANGED <<want, word, file, loopVars, ctlVars>>

\* MASTER_STARTUP_TIMEOUT.
WaitEnds(s) ==
    /\ sl[s] = "waiting"
    /\ ~Listening(file)
    /\ sl' = [sl EXCEPT ![s] = "error"]
    /\ UNCHANGED <<want, word, file, loopVars, at, hd, ctlVars>>

\* The end of the local connection k, seen by the run.
Left(k) == hd[k] \in {"ended", "gone"}

\* The first message, or the end of the local connection before it.
HearsMaster(s) ==
    /\ sl[s] = "asked"
    /\ \/ word[s] = "ready" /\ sl' = [sl EXCEPT ![s] = "session"]
       \/ word[s] \in {"refused", "error"} /\ sl' = [sl EXCEPT ![s] = "error"]
       \/ word[s] = "none" /\ Left(<<s, "ask">>) /\ sl' = [sl EXCEPT ![s] = "error"]
    /\ UNCHANGED <<want, word, file, loopVars, at, hd, ctlVars>>

\* run_slave_io returns. With -N nothing but Ctrl-C ends the run.
SlaveIoEnds(s) ==
    /\ sl[s] = "session" /\ s \notin NoShell /\ Left(<<s, "ask">>)
    /\ sl' = [sl EXCEPT ![s] = "done"]
    /\ UNCHANGED <<want, word, file, loopVars, at, hd, ctlVars>>

\* The user ends the run.
UserEnds(s) ==
    /\ sl[s] \in {"asked", "session"}
    /\ sl' = [sl EXCEPT ![s] = "done"]
    /\ UNCHANGED <<want, word, file, loopVars, at, hd, ctlVars>>

(***************************************************************************)
(* A master: establish_connection, run_master, serve_master.               *)
(***************************************************************************)
Dialled(m) ==
    /\ ms[m] = "dialing"
    /\ ms' = [ms EXCEPT ![m] = "connected"]
    /\ conn' = [conn EXCEPT ![m] = "up"]
    /\ UNCHANGED <<want, slaveVars, file, active, at, hd, ctlVars>>

DialFails(m) ==
    /\ ms[m] = "dialing"
    /\ ms' = [ms EXCEPT ![m] = "over"]
    /\ UNCHANGED <<want, slaveVars, file, conn, active, at, hd, ctlVars>>

\* prepare_socket_path removes the socket at the path, a live one too.
Prepare(m) ==
    /\ ms[m] = "connected"
    /\ ms' = [ms EXCEPT ![m] = "prepared"]
    /\ file' = NoMaster
    /\ UNCHANGED <<want, slaveVars, conn, active, at, hd, ctlVars>>

Bind(m) ==
    /\ ms[m] = "prepared"
    /\ IF file = NoMaster
       THEN /\ file' = m
            /\ ms' = [ms EXCEPT ![m] = "serving"]
            /\ conn' = conn
       ELSE /\ file' = file
            /\ ms' = [ms EXCEPT ![m] = "over"]
            /\ conn' = [conn EXCEPT ![m] = "closed"]
    /\ UNCHANGED <<want, slaveVars, active, at, hd, ctlVars>>

\* Faulty variant of AcceptClient: a client is not counted.
AcceptUncounted(m) ==
    /\ ms[m] = "serving"
    /\ \E k \in Of(m) :
         /\ hd[k] = "backlog"
         /\ hd' = [hd EXCEPT ![k] = "reading"]
    /\ UNCHANGED <<want, slaveVars, file, ms, conn, active, at, ctlVars>>

AcceptClient(m) ==
    /\ ms[m] = "serving"
    /\ \E k \in Of(m) :
         /\ hd[k] = "backlog"
         /\ hd' = [hd EXCEPT ![k] = "reading"]
    /\ active' = [active EXCEPT ![m] = @ + 1]
    /\ UNCHANGED <<want, slaveVars, file, ms, conn, at, ctlVars>>

\* done_rx: a handler ended, with an error or without.
ClientDone(m) ==
    /\ ms[m] = "serving" /\ active[m] > 0
    /\ \E k \in Of(m) :
         /\ hd[k] = "ended"
         /\ hd' = [hd EXCEPT ![k] = "gone"]
    /\ active' = [active EXCEPT ![m] = @ - 1]
    /\ UNCHANGED <<want, slaveVars, file, ms, conn, at, ctlVars>>

\* The sleep of control_persist, while nobody is active. A client in the
\* backlog that the loop has not looked at does not count.
IdleTimeout(m) ==
    /\ ms[m] = "serving" /\ active[m] = 0
    /\ Persist[m] = "timeout"
    /\ ms' = [ms EXCEPT ![m] = "closing"]
    /\ conn' = [conn EXCEPT ![m] = "closed"]
    /\ UNCHANGED <<want, slaveVars, file, active, at, hd, ctlVars>>

\* The process ends, and with it everything it holds.
ProcessEnds(m) ==
    /\ ms' = [ms EXCEPT ![m] = "over"]
    /\ hd' = [k \in Locals |-> IF at[k] = m THEN "gone" ELSE hd[k]]
    /\ active' = [active EXCEPT ![m] = 0]
    /\ specs' = [specs EXCEPT ![m] = {}]
    /\ lock' = [lock EXCEPT ![m] = NoLock]

\* The end of the QUIC connection, and of what is on its way there.
ConnCloses(m) ==
    /\ conn' = [conn EXCEPT ![m] = "closed"]
    /\ req' = [req EXCEPT ![m] = <<>>]
    /\ rep' = [rep EXCEPT ![m] = <<>>]

\* remove_file: whatever is at the path.
RemoveSocket(m) ==
    /\ ms[m] = "closing"
    /\ file' = NoMaster
    /\ ProcessEnds(m)
    /\ UNCHANGED <<want, slaveVars, conn, at, req, rep, srvFwd>>

Crash(m) ==
    /\ ms[m] \notin {"off", "over"}
    /\ ProcessEnds(m)
    /\ ConnCloses(m)
    /\ UNCHANGED <<want, slaveVars, file, at, srvFwd>>

\* The QUIC connection ends. serve_master does not look at it.
ConnLost(m) ==
    /\ conn[m] = "up"
    /\ ConnCloses(m)
    /\ UNCHANGED <<want, slaveVars, file, ms, active, at, hd, specs, lock, srvFwd>>

(***************************************************************************)
(* The handler of local connection k: handle_master_client.                *)
(***************************************************************************)
HandlerEnds(k) == hd' = [hd EXCEPT ![k] = "ended"]

\* MasterMessage w to the run, unless it is gone.
Says(k, w) == word' = [word EXCEPT ![k[1]] = IF Gone(k[1]) THEN @ ELSE w]

\* The forwards of m after run s has added its own, if its bind is new there.
Registered(m, s) ==
    IF \E f \in specs[m] : f[1] = want[s] THEN specs[m] ELSE specs[m] \cup {<<want[s], s>>}

ReadRequest(k) ==
    /\ hd[k] = "reading" /\ k[2] = "ask"
    /\ LET m == at[k]
           s == k[1]
       IN IF want[s] = NoBind
          THEN /\ hd' = [hd EXCEPT ![k] = "opening"]
               /\ UNCHANGED specs
          ELSE /\ hd' = [hd EXCEPT ![k] = "locking"]
               /\ specs' = [specs EXCEPT ![m] = Registered(m, s)]
    /\ UNCHANGED <<want, slaveVars, file, loopVars, at, lock, req, rep, srvFwd>>

\* Faulty variant of ReadNothing: an early return does not reach done_tx.
ReadNothingUnreported(k) ==
    /\ hd[k] = "reading"
    /\ k[2] = "probe" \/ Gone(k[1])
    /\ hd' = [hd EXCEPT ![k] = "gone"]
    /\ UNCHANGED <<want, slaveVars, file, loopVars, at, ctlVars>>

\* A probe, or a run that ended before it wrote its request.
ReadNothing(k) ==
    /\ hd[k] = "reading"
    /\ k[2] = "probe" \/ Gone(k[1])
    /\ HandlerEnds(k)
    /\ UNCHANGED <<want, slaveVars, file, loopVars, at, ctlVars>>

\* Faulty variant of LockAndSend: without the mutex.
SendUnlocked(k) ==
    /\ hd[k] = "locking"
    /\ IF conn[at[k]] = "up"
       THEN /\ req' = [req EXCEPT ![at[k]] = Append(@, want[k[1]])]
            /\ hd' = [hd EXCEPT ![k] = "awaiting"]
       ELSE HandlerEnds(k) /\ UNCHANGED req
    /\ UNCHANGED <<want, slaveVars, file, loopVars, at, specs, lock, rep, srvFwd>>

LockAndSend(k) ==
    /\ hd[k] = "locking" /\ lock[at[k]] = NoLock
    /\ IF conn[at[k]] = "up"
       THEN /\ req' = [req EXCEPT ![at[k]] = Append(@, want[k[1]])]
            /\ lock' = [lock EXCEPT ![at[k]] = k]
            /\ hd' = [hd EXCEPT ![k] = "awaiting"]
       ELSE HandlerEnds(k) /\ UNCHANGED <<req, lock>>
    /\ UNCHANGED <<want, slaveVars, file, loopVars, at, specs, rep, srvFwd>>

\* Faulty variant of ServerAnswers: the allow list is not consulted.
ServerAllows(m) ==
    /\ conn[m] = "up" /\ req[m] # <<>>
    /\ LET b  == Head(req[m])
           ok == b \notin srvFwd[m]
       IN /\ srvFwd' = [srvFwd EXCEPT ![m] = IF ok THEN @ \cup {b} ELSE @]
          /\ rep' = [rep EXCEPT ![m] = Append(@, ok)]
    /\ req' = [req EXCEPT ![m] = Tail(@)]
    /\ UNCHANGED <<want, slaveVars, file, loopVars, at, hd, specs, lock>>

\* The server refuses what is not allowed and what is active already.
ServerAnswers(m) ==
    /\ conn[m] = "up" /\ req[m] # <<>>
    /\ LET b  == Head(req[m])
           ok == b \in Allowed \ srvFwd[m]
       IN /\ srvFwd' = [srvFwd EXCEPT ![m] = IF ok THEN @ \cup {b} ELSE @]
          /\ rep' = [rep EXCEPT ![m] = Append(@, ok)]
    /\ req' = [req EXCEPT ![m] = Tail(@)]
    /\ UNCHANGED <<want, slaveVars, file, loopVars, at, hd, specs, lock>>

Unlocked(k) == lock' = [lock EXCEPT ![at[k]] = NoLock]

Confirmed(k) ==
    /\ hd[k] = "awaiting" /\ rep[at[k]] # <<>> /\ Head(rep[at[k]])
    /\ rep' = [rep EXCEPT ![at[k]] = Tail(@)]
    /\ hd' = [hd EXCEPT ![k] = "opening"]
    /\ Unlocked(k)
    /\ UNCHANGED <<want, slaveVars, file, loopVars, at, specs, req, srvFwd>>

\* Faulty variant of Denied: all entries are dropped.
DeniedDropsAll(k) ==
    /\ hd[k] = "awaiting" /\ rep[at[k]] # <<>> /\ ~Head(rep[at[k]])
    /\ rep' = [rep EXCEPT ![at[k]] = Tail(@)]
    /\ specs' = [specs EXCEPT ![at[k]] = {}]
    /\ Says(k, "refused")
    /\ HandlerEnds(k)
    /\ Unlocked(k)
    /\ UNCHANGED <<want, sl, file, loopVars, at, req, srvFwd>>

\* Faulty variant of Denied: the mutex stays locked.
DeniedKeepsLock(k) ==
    /\ hd[k] = "awaiting" /\ rep[at[k]] # <<>> /\ ~Head(rep[at[k]])
    /\ rep' = [rep EXCEPT ![at[k]] = Tail(@)]
    /\ specs' = [specs EXCEPT ![at[k]] = {f \in @ : f[1] # want[k[1]]}]
    /\ Says(k, "refused")
    /\ HandlerEnds(k)
    /\ UNCHANGED <<want, sl, file, loopVars, at, lock, req, srvFwd>>

\* retain drops every entry of the bind, whoever added it.
Denied(k) ==
    /\ hd[k] = "awaiting" /\ rep[at[k]] # <<>> /\ ~Head(rep[at[k]])
    /\ rep' = [rep EXCEPT ![at[k]] = Tail(@)]
    /\ specs' = [specs EXCEPT ![at[k]] = {f \in @ : f[1] # want[k[1]]}]
    /\ Says(k, "refused")
    /\ HandlerEnds(k)
    /\ Unlocked(k)
    /\ UNCHANGED <<want, sl, file, loopVars, at, req, srvFwd>>

ReplyLost(k) ==
    /\ hd[k] = "awaiting" /\ conn[at[k]] = "closed"
    /\ HandlerEnds(k)
    /\ Unlocked(k)
    /\ UNCHANGED <<want, slaveVars, file, loopVars, at, specs, req, rep, srvFwd>>

\* With -N at once, else when the server has opened and started the session.
Ready(k) ==
    /\ hd[k] = "opening"
    /\ k[1] \in NoShell \/ conn[at[k]] = "up"
    /\ Says(k, "ready")
    /\ hd' = [hd EXCEPT ![k] = IF Gone(k[1]) THEN "ended" ELSE "session"]
    /\ UNCHANGED <<want, sl, file, loopVars, at, ctlVars>>

\* The server refuses the channel, or there is no connection to open one on.
OpenFails(k) ==
    /\ hd[k] = "opening" /\ k[1] \notin NoShell
    /\ IF conn[at[k]] = "up" THEN Says(k, "error") ELSE UNCHANGED word
    /\ HandlerEnds(k)
    /\ UNCHANGED <<want, sl, file, loopVars, at, ctlVars>>

\* The run has closed its end, or the connection is lost under a session.
RelayEnds(k) ==
    /\ hd[k] = "session"
    /\ Gone(k[1]) \/ (k[1] \notin NoShell /\ conn[at[k]] = "closed")
    /\ HandlerEnds(k)
    /\ UNCHANGED <<want, slaveVars, file, loopVars, at, ctlVars>>

\* Eof or Close of the server.
RemoteEnds(k) ==
    /\ hd[k] = "session" /\ k[1] \notin NoShell /\ conn[at[k]] = "up"
    /\ HandlerEnds(k)
    /\ UNCHANGED <<want, slaveVars, file, loopVars, at, ctlVars>>

-----------------------------------------------------------------------------
Run(s) ==
    \/ Connect(s) \/ NotFound(s) \/ Refused(s) \/ RemoveStale(s) \/ Spawn(s)
    \/ Probe(s) \/ WaitEnds(s) \/ HearsMaster(s) \/ SlaveIoEnds(s)

Loop(m) ==
    \/ Dialled(m) \/ DialFails(m) \/ Prepare(m) \/ Bind(m)
    \/ AcceptClient(m) \/ ClientDone(m) \/ IdleTimeout(m) \/ RemoveSocket(m)

Handler(k) ==
    \/ ReadRequest(k) \/ ReadNothing(k) \/ LockAndSend(k)
    \/ Confirmed(k) \/ Denied(k) \/ ReplyLost(k)
    \/ Ready(k) \/ OpenFails(k) \/ RelayEnds(k)

Next ==
    \/ \E s \in Slaves : Run(s) \/ UserEnds(s)
    \/ \E m \in Masters : Loop(m) \/ ServerAnswers(m)
    \/ \E m \in Crashing : Crash(m)
    \/ \E m \in Losing : ConnLost(m)
    \/ \E k \in Locals : Handler(k) \/ RemoteEnds(k)

Spec == Init /\ [][Next]_vars

\* Tasks go on, and a client that the loop does not hear of first is accepted;
\* nobody need end a run or a session, and nothing need be lost.
FairSpec ==
    /\ Spec
    /\ \A s \in Slaves : WF_vars(Run(s))
    /\ \A m \in Masters : WF_vars(Loop(m)) /\ WF_vars(ServerAnswers(m))
    /\ \A k \in Locals : WF_vars(Handler(k))
    /\ \A m \in Masters : WF_vars(AcceptClient(m))

(***************************************************************************)
(* Safety.                                                                 *)
(***************************************************************************)
\* The idle timeout cuts off nobody who is being served: when the loop of
\* serve_master has ended by it, no handler is at work. active_clients is kept
\* from two event sources, and handlers end on many paths.
IdleMasterCutsNobody ==
    \A m \in Masters : ms[m] = "closing" =>
        \A k \in Of(m) : hd[k] \notin AtWork

\* The runs that ask m for bind b.
Askers(m, b) == {s \in Slaves : at[<<s, "ask">>] = m /\ want[s] = b}

\* Handlers share one control stream, whose replies carry no name: each gets
\* the reply to its own request. A run that is told Ready has its listener at
\* the server; one that is refused asked for what is not allowed, or was not
\* the only one to ask.
AnswerIsOwn ==
    \A s \in Slaves : want[s] # NoBind =>
        LET m == at[<<s, "ask">>]
        IN /\ word[s] = "ready" => want[s] \in srvFwd[m]
           /\ word[s] = "refused" => \/ want[s] \notin Allowed
                                     \/ Askers(m, want[s]) # {s}

\* The server may open a stream for a forward as soon as it listens: by then,
\* and as long as the master lives, the entry that routes it is there, unless
\* several runs asked for the bind (the refusal of one drops the entry of the
\* other).
ForwardRouted ==
    \A m \in Masters : ms[m] # "over" =>
        \A b \in srvFwd[m], s \in Slaves : Askers(m, b) = {s} => <<b, s>> \in specs[m]

\* docs/client.md: the master "serves later local client requests through the
\* control socket". The code breaks it: prepare_socket_path and the end of
\* serve_master remove whatever is at the path, the socket of another master
\* too, and that master goes on with a socket nobody can reach.
ServingMasterIsReachable ==
    \A m \in Masters : ms[m] = "serving" => file = m

(***************************************************************************)
(* Liveness.                                                               *)
(***************************************************************************)
\* Whatever happens to masters, connections and the socket, a run gets a
\* session, gives up, or connects by itself: it never waits for ever.
RunReturns ==
    \A s \in Slaves : []<>(sl[s] \in {"session", "direct", "done", "error"})

\* A master with a control_persist timeout ends when no run stays in a session:
\* each handler, however it ended, has been counted down once.
MasterIdlesOut ==
    (\A s \in Slaves : []<>(sl[s] # "session"))
        => \A m \in Masters : Persist[m] = "timeout" => []<>(ms[m] \in {"off", "over"})
=============================================================================
