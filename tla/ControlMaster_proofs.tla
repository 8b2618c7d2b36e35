------------------------ MODULE ControlMaster_proofs ------------------------
(***************************************************************************)
(* Theorems about runs of sqsh that share control sockets, for any number  *)
(* of runs, masters and binds.                                             *)
(*                                                                         *)
(* Typed and Placed say where everything can be: a run makes each of its   *)
(* two local connections once, and its master once; handlers at work       *)
(* belong to a master that has not ended. On that rest the count of the    *)
(* active clients (Counted), the mutex of the control stream with what is  *)
(* under way there (Guarded), which binds the server listens for           *)
(* (Answered), what each run was told of its own (Owned), and the entries  *)
(* that route the streams the server opens (Routed).                       *)
(***************************************************************************)
EXTENDS ControlMaster, SequenceTheorems, FiniteSetTheorems, TLAPS

Busy == AtWork \cup {"ended"}
Held == Busy \cup {"backlog"}
BusyAt(m) == {k \in Locals : at[k] = m /\ hd[k] \in Busy}

Typed ==
    /\ want \in [Slaves -> Binds \cup {NoBind}]
    /\ sl \in [Slaves -> SlaveStates]
    /\ word \in [Slaves -> {"none", "ready", "refused", "error"}]
    /\ file \in Masters \cup {NoMaster, Stale}
    /\ ms \in [Masters -> MasterStates]
    /\ conn \in [Masters -> {"none", "up", "closed"}]
    /\ active \in [Masters -> Int]
    /\ at \in [Locals -> Masters \cup {NoMaster}]
    /\ hd \in [Locals -> HandlerStates]
    /\ specs \in [Masters -> SUBSET (Binds \X Slaves)]
    /\ lock \in [Masters -> Locals \cup {NoLock}]
    /\ req \in [Masters -> Seq(Binds)]
    /\ rep \in [Masters -> Seq(BOOLEAN)]
    /\ srvFwd \in [Masters -> SUBSET Allowed]

BeforeSpawn == {"start", "refused", "spawn"}
BeforeProbe == BeforeSpawn \cup {"waiting"}
BeforeAsk == BeforeProbe \cup {"again", "refused again"}

\* A local connection is made once; a handler that has not gone belongs to a
\* master whose process lives.
Local(k) ==
    /\ hd[k] = "none" <=> at[k] = NoMaster
    /\ hd[k] \in Held => ms[at[k]] \in {"serving", "closing"}
    /\ k[2] = "probe" => hd[k] \in {"none", "backlog", "reading", "ended", "gone"}
    /\ hd[k] \in {"locking", "awaiting"} => want[k[1]] # NoBind

\* A run connects once for each purpose, and starts its master once.
Once(s) ==
    /\ sl[s] \in BeforeAsk => hd[<<s, "ask">>] = "none"
    /\ sl[s] \in BeforeProbe => hd[<<s, "probe">>] = "none"
    /\ sl[s] \in BeforeSpawn => ms[s] = "off"
    /\ hd[<<s, "ask">>] = "none" => word[s] = "none"

Placed == (\A k \in Locals : Local(k)) /\ (\A s \in Slaves : Once(s))

LEMMA MasterTypes ==
    /\ NoMaster \notin Masters /\ Stale \notin Masters
    /\ Slaves \subseteq Masters
    /\ \A s \in Slaves : <<s, "ask">> \in Locals /\ <<s, "probe">> \in Locals
    /\ \A k \in Locals : k[1] \in Slaves /\ k = <<k[1], k[2]>> /\ k[2] \in {"probe", "ask"}
    /\ IsFiniteSet(Locals)
<1>1. IsFiniteSet(Locals)
    <2>1. IsFiniteSet({"probe", "ask"})
        <3>1. IsFiniteSet({"probe"}) /\ IsFiniteSet({"ask"})
            BY FS_Singleton
        <3>2. {"probe", "ask"} = {"probe"} \cup {"ask"}
            OBVIOUS
        <3> QED
            BY <3>1, <3>2, FS_Union
    <2> QED
        BY <2>1, MasterAssumption, FS_Product DEF Locals
<1> QED
    BY <1>1, MasterAssumption DEF Masters, Locals

LEMMA OneElement ==
    \A x : /\ Head(<<x>>) = x /\ Tail(<<x>>) = <<>> /\ Append(<<>>, x) = <<x>>
           /\ <<x>> # <<>>
OBVIOUS

(***************************************************************************)
(* Types.                                                                  *)
(***************************************************************************)
LEMMA InitTyped == Init => Typed
BY DEF Init, Typed, SlaveStates, MasterStates, HandlerStates

LEMMA RunTyped ==
    ASSUME Typed, NEW s \in Slaves, Run(s) \/ UserEnds(s)
    PROVE  Typed'
<1>1. NoAnswer(s) \in SlaveStates
    BY DEF NoAnswer, SlaveStates
<1>2. Listening(file) => file \in Masters
    BY DEF Listening
<1>3. <<s, "ask">> \in Locals /\ <<s, "probe">> \in Locals /\ s \in Masters
    BY MasterTypes
<1>4. UNCHANGED <<want, word, conn, active, ctlVars>>
    BY DEF Run, UserEnds, Connect, NotFound, Refused, RemoveStale, Spawn, Probe, WaitEnds,
           HearsMaster, SlaveIoEnds, loopVars
<1>5. sl' \in [Slaves -> SlaveStates]
    <2>1. \E x \in SlaveStates : sl' = [sl EXCEPT ![s] = x]
        BY <1>1 DEF Run, UserEnds, Connect, NotFound, Refused, RemoveStale, Spawn, Probe,
           WaitEnds, HearsMaster, SlaveIoEnds, SlaveStates
    <2> QED
        BY <2>1 DEF Typed
<1>6. file' \in {file, NoMaster}
    BY DEF Run, UserEnds, Connect, NotFound, Refused, RemoveStale, Spawn, Probe, WaitEnds,
           HearsMaster, SlaveIoEnds
<1>7. ms' \in [Masters -> MasterStates]
    BY <1>3 DEF Typed, Run, UserEnds, Connect, NotFound, Refused, RemoveStale, Spawn, Probe,
           WaitEnds, HearsMaster, SlaveIoEnds, loopVars, MasterStates
<1>8. at' \in [Locals -> Masters \cup {NoMaster}] /\ hd' \in [Locals -> HandlerStates]
    <2>1. \/ UNCHANGED <<at, hd>>
          \/ \E j \in Locals : /\ Listening(file) /\ at' = [at EXCEPT ![j] = file]
                               /\ hd' = [hd EXCEPT ![j] = "backlog"]
        BY <1>3 DEF Run, UserEnds, Connect, NotFound, Refused, RemoveStale, Spawn,
           Probe, WaitEnds, HearsMaster, SlaveIoEnds, Reaches, loopVars
    <2>2. "backlog" \in HandlerStates
        BY DEF HandlerStates
    <2> QED
        BY <1>2, <2>1, <2>2 DEF Typed
<1> QED
    BY <1>4, <1>5, <1>6, <1>7, <1>8 DEF Typed, ctlVars

LEMMA LoopTyped ==
    ASSUME Typed, NEW m \in Masters, Loop(m) \/ Crash(m) \/ ConnLost(m)
    PROVE  Typed'
<1>1. UNCHANGED <<want, slaveVars, at, srvFwd>>
    BY DEF Loop, Dialled, DialFails, Prepare, Bind, AcceptClient, ClientDone, IdleTimeout,
           RemoveSocket, Crash, ConnLost, ctlVars
<1>2. file' \in Masters \cup {NoMaster, Stale}
    BY DEF Typed, Loop, Dialled, DialFails, Prepare, Bind, AcceptClient, ClientDone, IdleTimeout,
           RemoveSocket, Crash, ConnLost
<1>3. ms' \in [Masters -> MasterStates]
    BY DEF Typed, Loop, Dialled, DialFails, Prepare, Bind, AcceptClient, ClientDone, IdleTimeout,
           RemoveSocket, Crash, ConnLost, MasterStates, ProcessEnds
<1>4. conn' \in [Masters -> {"none", "up", "closed"}]
    BY DEF Typed, Loop, Dialled, DialFails, Prepare, Bind, AcceptClient, ClientDone, IdleTimeout,
           RemoveSocket, Crash, ConnLost, ConnCloses
<1>5. active' \in [Masters -> Int]
    <2>1. active[m] + 1 \in Int /\ active[m] - 1 \in Int
        BY DEF Typed
    <2> QED
        BY <2>1 DEF Typed, Loop, Dialled, DialFails, Prepare, Bind, AcceptClient, ClientDone,
           IdleTimeout, RemoveSocket, Crash, ConnLost, ProcessEnds
<1>6. hd' \in [Locals -> HandlerStates]
    <2>1. {"gone", "reading"} \subseteq HandlerStates
        BY DEF HandlerStates, AtWork
    <2>2. CASE RemoveSocket(m) \/ Crash(m)
        <3>1. hd' = [k \in Locals |-> IF at[k] = m THEN "gone" ELSE hd[k]]
            BY <2>2 DEF RemoveSocket, Crash, ProcessEnds
        <3> QED
            BY <2>1, <3>1 DEF Typed
    <2>3. CASE ~(RemoveSocket(m) \/ Crash(m))
        BY <2>1, <2>3 DEF Typed, Loop, Dialled, DialFails, Prepare, Bind, AcceptClient, ClientDone,
           IdleTimeout, ConnLost
    <2> QED
        BY <2>2, <2>3
<1>7. /\ specs' \in [Masters -> SUBSET (Binds \X Slaves)]
      /\ lock' \in [Masters -> Locals \cup {NoLock}]
    BY DEF Typed, Loop, Dialled, DialFails, Prepare, Bind, AcceptClient, ClientDone, IdleTimeout,
           RemoveSocket, Crash, ConnLost, ProcessEnds, ctlVars
<1>8. req' \in [Masters -> Seq(Binds)] /\ rep' \in [Masters -> Seq(BOOLEAN)]
    <2>1. CASE Crash(m) \/ ConnLost(m)
        <3>1. req' = [req EXCEPT ![m] = <<>>] /\ rep' = [rep EXCEPT ![m] = <<>>]
            BY <2>1 DEF Crash, ConnLost, ConnCloses
        <3>2. <<>> \in Seq(Binds) /\ <<>> \in Seq(BOOLEAN)
            OBVIOUS
        <3> QED
            BY <3>1, <3>2 DEF Typed
    <2>2. CASE Loop(m)
        BY <2>2 DEF Typed, Loop, Dialled, DialFails, Prepare, Bind, AcceptClient, ClientDone,
           IdleTimeout, RemoveSocket, ctlVars
    <2> QED
        BY <2>1, <2>2
<1> QED
    BY <1>1, <1>2, <1>3, <1>4, <1>5, <1>6, <1>7, <1>8 DEF Typed, slaveVars

LEMMA AnswersTyped ==
    ASSUME Typed, NEW m \in Masters, ServerAnswers(m)
    PROVE  Typed'
<1>1. req[m] \in Seq(Binds) /\ req[m] # <<>> /\ rep[m] \in Seq(BOOLEAN)
    BY DEF Typed, ServerAnswers
<1>2. Tail(req[m]) \in Seq(Binds) /\ \A ok \in BOOLEAN : Append(rep[m], ok) \in Seq(BOOLEAN)
    BY <1>1, HeadTailProperties, AppendProperties
<1>3. req' \in [Masters -> Seq(Binds)] /\ rep' \in [Masters -> Seq(BOOLEAN)]
    BY <1>1, <1>2 DEF Typed, ServerAnswers
<1>4. srvFwd' \in [Masters -> SUBSET Allowed]
    BY DEF Typed, ServerAnswers
<1> QED
    BY <1>3, <1>4 DEF Typed, ServerAnswers, slaveVars, loopVars

LEMMA HandlerTyped ==
    ASSUME Typed, Placed, NEW k \in Locals, Handler(k) \/ RemoteEnds(k)
    PROVE  Typed'
<1>1. hd[k] \in AtWork
    BY DEF Handler, RemoteEnds, ReadRequest, ReadNothing, LockAndSend, Confirmed, Denied,
           ReplyLost, Ready, OpenFails, RelayEnds, AtWork
<1>2. at[k] \in Masters /\ k[1] \in Slaves
    BY <1>1, MasterTypes DEF Placed, Local, Typed, AtWork
<1>0. want[k[1]] # NoBind => want[k[1]] \in Binds
    BY <1>2 DEF Typed
<1>3. UNCHANGED <<want, sl, file, loopVars, at, srvFwd>>
    BY DEF Handler, RemoteEnds, ReadRequest, ReadNothing, LockAndSend, Confirmed, Denied,
           ReplyLost, Ready, OpenFails, RelayEnds, slaveVars, ctlVars
<1>4. hd' \in [Locals -> HandlerStates]
    <2>1. \E x \in HandlerStates : hd' = [hd EXCEPT ![k] = x]
        BY DEF Handler, RemoteEnds, ReadRequest, ReadNothing, LockAndSend, Confirmed, Denied,
           ReplyLost, Ready, OpenFails, RelayEnds, HandlerEnds, HandlerStates, AtWork
    <2> QED
        BY <2>1 DEF Typed
<1>5. word' \in [Slaves -> {"none", "ready", "refused", "error"}]
    <2>1. word' = word \/ \E x \in {word[k[1]], "ready", "refused", "error"} :
                              word' = [word EXCEPT ![k[1]] = x]
        BY DEF Handler, RemoteEnds, ReadRequest, ReadNothing, LockAndSend, Confirmed,
           Denied, ReplyLost, Ready, OpenFails, RelayEnds, Says, slaveVars
    <2>2. word[k[1]] \in {"none", "ready", "refused", "error"}
        BY <1>2 DEF Typed
    <2> QED
        BY <2>1, <2>2 DEF Typed
<1>6. specs' \in [Masters -> SUBSET (Binds \X Slaves)]
    <2>1. want[k[1]] # NoBind => Registered(at[k], k[1]) \subseteq Binds \X Slaves
        BY <1>2 DEF Registered, Typed
    <2>2. {f \in specs[at[k]] : f[1] # want[k[1]]} \subseteq Binds \X Slaves
        BY <1>2 DEF Typed
    <2>3. \/ specs' = specs
          \/ want[k[1]] # NoBind /\ specs' = [specs EXCEPT ![at[k]] = Registered(at[k], k[1])]
          \/ specs' = [specs EXCEPT ![at[k]] = {f \in @ : f[1] # want[k[1]]}]
        BY DEF Handler, RemoteEnds, ReadRequest, ReadNothing, LockAndSend, Confirmed, Denied,
               ReplyLost, Ready, OpenFails, RelayEnds, ctlVars
    <2>4. \A S \in SUBSET (Binds \X Slaves) :
              [specs EXCEPT ![at[k]] = S] \in [Masters -> SUBSET (Binds \X Slaves)]
        BY <1>2 DEF Typed
    <2>5. CASE specs' = specs
        BY <2>5 DEF Typed
    <2>6. CASE want[k[1]] # NoBind /\ specs' = [specs EXCEPT ![at[k]] = Registered(at[k], k[1])]
        BY <2>1, <2>4, <2>6
    <2>7. CASE specs' = [specs EXCEPT ![at[k]] = {f \in @ : f[1] # want[k[1]]}]
        <3>1. specs' = [specs EXCEPT ![at[k]] = {f \in specs[at[k]] : f[1] # want[k[1]]}]
            BY <2>7
        <3> QED
            BY <2>2, <2>4, <3>1
    <2> QED
        BY <2>3, <2>5, <2>6, <2>7
<1>7. lock' \in [Masters -> Locals \cup {NoLock}]
    <2>1. \/ lock' = lock \/ lock' = [lock EXCEPT ![at[k]] = k]
          \/ lock' = [lock EXCEPT ![at[k]] = NoLock]
        BY DEF Handler, RemoteEnds, ReadRequest, ReadNothing, LockAndSend, Confirmed, Denied,
               ReplyLost, Ready, OpenFails, RelayEnds, Unlocked, ctlVars
    <2> QED
        BY <2>1 DEF Typed
<1>9. req' \in [Masters -> Seq(Binds)]
    <2>1. \/ req' = req
          \/ LockAndSend(k) /\ req' = [req EXCEPT ![at[k]] = Append(@, want[k[1]])]
        BY DEF Handler, RemoteEnds, ReadRequest, ReadNothing, LockAndSend, Confirmed, Denied,
               ReplyLost, Ready, OpenFails, RelayEnds, ctlVars
    <2>2. LockAndSend(k) => want[k[1]] \in Binds
        BY <1>0 DEF LockAndSend, Placed, Local
    <2>3. LockAndSend(k) => Append(req[at[k]], want[k[1]]) \in Seq(Binds)
        BY <1>2, <2>2, AppendProperties DEF Typed
    <2> QED
        BY <1>2, <2>1, <2>3 DEF Typed
<1>8. rep' \in [Masters -> Seq(BOOLEAN)]
    <2>1. rep[at[k]] # <<>> => Tail(rep[at[k]]) \in Seq(BOOLEAN)
        BY <1>2, HeadTailProperties DEF Typed
    <2> QED
        BY <1>2, <2>1 DEF Typed, Handler, RemoteEnds, ReadRequest, ReadNothing, LockAndSend,
           Confirmed, Denied, ReplyLost, Ready, OpenFails, RelayEnds, ctlVars
<1> QED
    BY <1>3, <1>4, <1>5, <1>6, <1>7, <1>8, <1>9 DEF Typed, loopVars

LEMMA StepTyped == Typed /\ Placed /\ [Next]_vars => Typed'
<1> SUFFICES ASSUME Typed, Placed, [Next]_vars PROVE Typed'
    OBVIOUS
<1>1. CASE UNCHANGED vars
    BY <1>1 DEF vars, Typed
<1> QED
    BY <1>1, RunTyped, LoopTyped, AnswersTyped, HandlerTyped, MasterAssumption DEF Next

(***************************************************************************)
(* Where everything is.                                                    *)
(***************************************************************************)
LEMMA InitPlaced == Init => Placed
<1> SUFFICES ASSUME Init PROVE Placed
    OBVIOUS
<1>1. \A k \in Locals : Local(k)
    BY DEF Init, Local, Held, Busy, AtWork
<1>2. \A s \in Slaves : Once(s)
    BY MasterTypes, MasterAssumption DEF Init, Once
<1> QED
    BY <1>1, <1>2 DEF Placed

\* What a run does to the local connections: it makes one that was not made.
Connecting(k) ==
    /\ hd[k] = "none" /\ Listening(file)
    /\ at' = [at EXCEPT ![k] = file] /\ hd' = [hd EXCEPT ![k] = "backlog"]

LEMMA RunEffect ==
    ASSUME Typed, Placed, NEW s \in Slaves, Run(s) \/ UserEnds(s)
    PROVE  /\ UNCHANGED <<want, word, conn, active, specs, lock, req, rep, srvFwd>>
           /\ \/ UNCHANGED <<ms, at, hd>>
              \/ UNCHANGED <<ms>> /\ \E k \in Locals : Connecting(k)
              \/ UNCHANGED <<at, hd>> /\ ms[s] = "off" /\ ms' = [ms EXCEPT ![s] = "dialing"]
<1>1. UNCHANGED <<want, word, conn, active, specs, lock, req, rep, srvFwd>>
    BY DEF Run, UserEnds, Connect, NotFound, Refused, RemoveStale, Spawn, Probe, WaitEnds,
           HearsMaster, SlaveIoEnds, loopVars, ctlVars
<1>2. CASE Connect(s)
    BY <1>1, <1>2, MasterTypes DEF Connect, Reaches, Connecting, Placed, Once,
       BeforeAsk, BeforeProbe, BeforeSpawn, loopVars
<1>3. CASE Probe(s)
    BY <1>1, <1>3, MasterTypes DEF Probe, Reaches, Connecting, Placed, Once, BeforeProbe,
       BeforeSpawn, loopVars
<1>4. CASE Spawn(s)
    BY <1>1, <1>4 DEF Spawn, Placed, Once, BeforeSpawn
<1>5. CASE ~(Connect(s) \/ Probe(s) \/ Spawn(s))
    BY <1>1, <1>5 DEF Run, UserEnds, NotFound, Refused, RemoveStale, WaitEnds, HearsMaster,
           SlaveIoEnds, loopVars
<1> QED
    BY <1>2, <1>3, <1>4, <1>5

LEMMA RunLocal ==
    ASSUME Typed, Placed, NEW s \in Slaves, Run(s) \/ UserEnds(s)
    PROVE  \A k \in Locals : Local(k)'
<1> TAKE k \in Locals
<1>1. want' = want /\ Local(k) /\ s \in Masters
    BY RunEffect, MasterTypes DEF Placed
<1>2. CASE UNCHANGED <<ms, at, hd>>
    BY <1>1, <1>2 DEF Local
<1>3. CASE ms' = ms /\ \E j \in Locals : Connecting(j)
    <2>1. PICK j \in Locals : Connecting(j)
        BY <1>3
    <2>2. file # NoMaster /\ ms[file] \in {"serving", "closing"}
        BY <2>1, MasterTypes DEF Connecting, Listening
    <2>3. CASE j = k
        <3>1. at'[k] = file /\ hd'[k] = "backlog"
            BY <2>1, <2>3 DEF Connecting, Typed
        <3> QED
            BY <1>3, <2>2, <3>1 DEF Local
    <2>4. CASE j # k
        <3>1. at'[k] = at[k] /\ hd'[k] = hd[k]
            BY <2>1, <2>4 DEF Connecting, Typed
        <3> QED
            BY <1>1, <1>3, <3>1 DEF Local
    <2> QED
        BY <2>3, <2>4
<1>4. CASE UNCHANGED <<at, hd>> /\ ms[s] = "off" /\ ms' = [ms EXCEPT ![s] = "dialing"]
    <2>1. hd[k] \in Held => at[k] # s
        BY <1>1, <1>4 DEF Local
    <2>2. hd[k] \in Held => ms'[at[k]] = ms[at[k]]
        BY <1>1, <1>4, <2>1 DEF Typed
    <2> QED
        BY <1>1, <1>4, <2>2 DEF Local
<1> QED
    BY <1>2, <1>3, <1>4, RunEffect

LEMMA RunOnce ==
    ASSUME Typed, Placed, NEW s \in Slaves, Run(s) \/ UserEnds(s)
    PROVE  \A r \in Slaves : Once(r)'
<1> USE DEF BeforeAsk, BeforeProbe, BeforeSpawn
<1> TAKE r \in Slaves
<1>1. word' = word /\ Once(r) /\ r \in Masters /\ s \in Masters
      /\ <<r, "ask">> \in Locals /\ <<r, "probe">> \in Locals
    BY RunEffect, MasterTypes DEF Placed
<1>2. \E l \in SlaveStates :
          /\ sl' = [sl EXCEPT ![s] = l]
          /\ l \in BeforeAsk => sl[s] \in BeforeAsk
          /\ l \in BeforeProbe => sl[s] \in BeforeProbe
          /\ l \in BeforeSpawn => sl[s] \in BeforeSpawn
    BY DEF Run, UserEnds, Connect, NotFound, Refused, RemoveStale, Spawn, Probe, WaitEnds,
           HearsMaster, SlaveIoEnds, NoAnswer, SlaveStates, Typed
<1>3. /\ sl'[r] \in BeforeAsk => sl[r] \in BeforeAsk
      /\ sl'[r] \in BeforeProbe => sl[r] \in BeforeProbe
      /\ sl'[r] \in BeforeSpawn => sl[r] \in BeforeSpawn
    BY <1>2 DEF Typed
<1>4. hd[<<r, "ask">>] # "none" => hd'[<<r, "ask">>] # "none"
    BY <1>1, RunEffect DEF Connecting, Typed
<1>5. sl'[r] \in BeforeAsk => hd'[<<r, "ask">>] = hd[<<r, "ask">>]
    BY <1>1 DEF Run, UserEnds, Connect, NotFound, Refused, RemoveStale, Spawn, Probe, WaitEnds,
           HearsMaster, SlaveIoEnds, Reaches, Typed
<1>6. sl'[r] \in BeforeProbe => hd'[<<r, "probe">>] = hd[<<r, "probe">>]
    BY <1>1 DEF Run, UserEnds, Connect, NotFound, Refused, RemoveStale, Spawn, Probe, WaitEnds,
           HearsMaster, SlaveIoEnds, Reaches, Typed
<1>7. sl'[r] \in BeforeSpawn => ms'[r] = ms[r]
    BY <1>1 DEF Run, UserEnds, Connect, NotFound, Refused, RemoveStale, Spawn, Probe, WaitEnds,
           HearsMaster, SlaveIoEnds, loopVars, Typed
<1> QED
    BY <1>1, <1>3, <1>4, <1>5, <1>6, <1>7 DEF Once

(***************************************************************************)
(* What a step of a master's loop does.                                    *)
(***************************************************************************)
LEMMA LoopEffect ==
    ASSUME Typed, NEW m \in Masters, Loop(m) \/ Crash(m) \/ ConnLost(m)
    PROVE  /\ UNCHANGED <<want, sl, word, at, srvFwd>>
           /\ \/ /\ UNCHANGED <<hd, active, specs, lock>>
                 /\ \/ /\ ms' = ms /\ (conn' = conn \/ conn' = [conn EXCEPT ![m] = "closed"])
                       /\ req' = [req EXCEPT ![m] = <<>>] /\ rep' = [rep EXCEPT ![m] = <<>>]
                    \/ /\ UNCHANGED <<req, rep>> /\ ms[m] \in {"dialing", "connected", "prepared"}
                       /\ \E l \in {"connected", "prepared", "serving", "over"} :
                            ms' = [ms EXCEPT ![m] = l]
                    \/ /\ UNCHANGED <<req, rep>> /\ ms[m] = "serving" /\ active[m] = 0
                       /\ ms' = [ms EXCEPT ![m] = "closing"]
              \/ /\ UNCHANGED <<ms, conn, specs, lock, req, rep>> /\ ms[m] = "serving"
                 /\ \E k \in Of(m) :
                      \/ /\ hd[k] = "backlog" /\ hd' = [hd EXCEPT ![k] = "reading"]
                         /\ active' = [active EXCEPT ![m] = @ + 1]
                      \/ /\ hd[k] = "ended" /\ hd' = [hd EXCEPT ![k] = "gone"]
                         /\ active' = [active EXCEPT ![m] = @ - 1]
              \/ /\ ProcessEnds(m) /\ ms[m] \notin {"off", "over"}
                 /\ \/ req' = [req EXCEPT ![m] = <<>>] /\ rep' = [rep EXCEPT ![m] = <<>>]
                    \/ ms[m] = "closing" /\ UNCHANGED <<req, rep>>
<1>1. CASE ConnLost(m)
    BY <1>1 DEF ConnLost, ConnCloses, slaveVars
<1>2. CASE Crash(m)
    BY <1>2 DEF Crash, ConnCloses, slaveVars
<1>3. CASE Dialled(m) \/ DialFails(m) \/ Prepare(m) \/ Bind(m)
    BY <1>3 DEF Dialled, DialFails, Prepare, Bind, slaveVars, ctlVars
<1>4. CASE AcceptClient(m) \/ ClientDone(m)
    BY <1>4 DEF AcceptClient, ClientDone, slaveVars, ctlVars
<1>5. CASE IdleTimeout(m)
    BY <1>5 DEF IdleTimeout, slaveVars, ctlVars
<1>6. CASE RemoveSocket(m)
    BY <1>6 DEF RemoveSocket, slaveVars
<1> QED
    BY <1>1, <1>2, <1>3, <1>4, <1>5, <1>6 DEF Loop

LEMMA LoopPlaced ==
    ASSUME Typed, Placed, NEW m \in Masters, Loop(m) \/ Crash(m) \/ ConnLost(m)
    PROVE  Placed'
<1>1. /\ UNCHANGED <<want, sl, word, at>>
      /\ \/ UNCHANGED <<ms, hd>>
         \/ hd' = hd /\ ms[m] \in {"dialing", "connected", "prepared"}
            /\ \E l \in MasterStates \ {"off"} : ms' = [ms EXCEPT ![m] = l]
         \/ hd' = hd /\ ms[m] = "serving" /\ ms' = [ms EXCEPT ![m] = "closing"]
         \/ /\ ms' = ms /\ ms[m] = "serving"
            /\ \E k \in Of(m) : \/ hd[k] = "backlog" /\ hd' = [hd EXCEPT ![k] = "reading"]
                                \/ hd[k] = "ended" /\ hd' = [hd EXCEPT ![k] = "gone"]
         \/ ProcessEnds(m) /\ ms[m] \notin {"off", "over"}
    BY LoopEffect DEF MasterStates
<1>2. ASSUME NEW k \in Locals
      PROVE  Local(k)'
    <2>1. Local(k) /\ at[k] \in Masters \cup {NoMaster} /\ NoMaster \notin Masters
        BY MasterTypes DEF Placed, Typed
    <2>2. CASE UNCHANGED <<ms, hd>>
        BY <1>1, <2>1, <2>2 DEF Local
    <2>3. CASE hd' = hd /\ ms[m] \in {"dialing", "connected", "prepared"}
               /\ \E l \in MasterStates \ {"off"} : ms' = [ms EXCEPT ![m] = l]
        <3>1. hd[k] \in Held => at[k] # m /\ ms'[at[k]] = ms[at[k]]
            BY <2>1, <2>3 DEF Local, Typed
        <3> QED
            BY <1>1, <2>1, <2>3, <3>1 DEF Local
    <2>4. CASE hd' = hd /\ ms[m] = "serving" /\ ms' = [ms EXCEPT ![m] = "closing"]
        <3>1. ms'[at[k]] \in {ms[at[k]], "closing"}
            BY <2>4 DEF Typed
        <3> QED
            BY <1>1, <2>1, <2>4, <3>1 DEF Local
    <2>5. CASE /\ ms' = ms /\ ms[m] = "serving"
               /\ \E j \in Of(m) : \/ hd[j] = "backlog" /\ hd' = [hd EXCEPT ![j] = "reading"]
                                   \/ hd[j] = "ended" /\ hd' = [hd EXCEPT ![j] = "gone"]
        <3>1. PICK j \in Of(m) : \/ hd[j] = "backlog" /\ hd' = [hd EXCEPT ![j] = "reading"]
                                 \/ hd[j] = "ended" /\ hd' = [hd EXCEPT ![j] = "gone"]
            BY <2>5
        <3>2. j \in Locals /\ at[j] = m
            BY <3>1 DEF Of
        <3>3. CASE j = k
            <4>1. hd'[k] \in {"reading", "gone"} /\ hd[k] \in {"backlog", "ended"}
                BY <3>1, <3>3 DEF Typed
            <4> QED
                BY <1>1, <2>1, <2>5, <3>2, <3>3, <4>1 DEF Local
        <3>4. CASE j # k
            <4>1. hd'[k] = hd[k]
                BY <3>1, <3>4 DEF Typed
            <4> QED
                BY <1>1, <2>1, <2>5, <4>1 DEF Local
        <3> QED
            BY <3>3, <3>4
    <2>6. CASE ProcessEnds(m)
        <3>1. hd'[k] = IF at[k] = m THEN "gone" ELSE hd[k]
            BY <2>6 DEF ProcessEnds
        <3>2. at[k] # m => ms'[at[k]] = ms[at[k]]
            BY <2>6 DEF ProcessEnds, Typed
        <3> QED
            BY <1>1, <2>1, <3>1, <3>2 DEF Local, Held, Busy, AtWork
    <2> QED
        BY <1>1, <2>2, <2>3, <2>4, <2>5, <2>6
<1>3. ASSUME NEW s \in Slaves
      PROVE  Once(s)'
    <2>1. Once(s) /\ s \in Masters /\ <<s, "ask">> \in Locals /\ <<s, "probe">> \in Locals
        BY MasterTypes DEF Placed
    <2>2. ms[s] = "off" => ms'[s] = "off"
        BY <1>1, <2>1 DEF Typed, ProcessEnds
    <2>3. \A k \in Locals : hd[k] = "none" <=> hd'[k] = "none"
        <3> TAKE k \in Locals
        <3>1. hd[k] = "none" => at[k] # m
            BY MasterTypes DEF Placed, Local
        <3>2. CASE ProcessEnds(m)
            <4>1. hd'[k] = IF at[k] = m THEN "gone" ELSE hd[k]
                BY <3>2 DEF ProcessEnds
            <4> QED
                BY <3>1, <4>1
        <3>3. CASE ~ProcessEnds(m)
            BY <1>1, <3>1, <3>3 DEF Of, Typed
        <3> QED
            BY <3>2, <3>3
    <2> QED
        BY <1>1, <2>1, <2>2, <2>3 DEF Once
<1> QED
    BY <1>2, <1>3 DEF Placed

(***************************************************************************)
(* What a step of a handler does.                                          *)
(***************************************************************************)
LEMMA HandlerEffect ==
    ASSUME Typed, Placed, NEW k \in Locals, Handler(k) \/ RemoteEnds(k)
    PROVE  /\ UNCHANGED <<want, sl, file, ms, conn, active, at, srvFwd>>
           /\ hd[k] \in AtWork /\ at[k] \in Masters /\ k[1] \in Slaves
           /\ k[2] = "probe" => hd[k] = "reading"
           /\ \E x \in Busy :
                /\ hd' = [hd EXCEPT ![k] = x]
                /\ k[2] = "probe" => x = "ended"
                /\ x \in {"locking", "awaiting"} => want[k[1]] # NoBind
           /\ \/ word' = word
              \/ k[2] = "ask" /\ \E w \in {"ready", "refused", "error"} :
                                     word' = [word EXCEPT ![k[1]] = w]
<1>1. hd[k] \in AtWork
    BY DEF Handler, RemoteEnds, ReadRequest, ReadNothing, LockAndSend, Confirmed, Denied,
           ReplyLost, Ready, OpenFails, RelayEnds, AtWork
<1>2. at[k] \in Masters /\ k[1] \in Slaves /\ k[2] \in {"probe", "ask"}
    BY <1>1, MasterTypes DEF Placed, Local, Typed, AtWork
<1>3. k[2] = "probe" => hd[k] = "reading"
    BY <1>1 DEF Placed, Local, AtWork
<1>4. UNCHANGED <<want, sl, file, ms, conn, active, at, srvFwd>>
    BY DEF Handler, RemoteEnds, ReadRequest, ReadNothing, LockAndSend, Confirmed, Denied,
           ReplyLost, Ready, OpenFails, RelayEnds, slaveVars, ctlVars, loopVars
<1>5. \E x \in Busy :
          /\ hd' = [hd EXCEPT ![k] = x]
          /\ k[2] = "probe" => x = "ended"
          /\ x \in {"locking", "awaiting"} => want[k[1]] # NoBind
    <2>1. hd[k] \in {"locking", "awaiting"} => want[k[1]] # NoBind
        BY DEF Placed, Local
    <2> QED
        BY <1>2, <1>3, <2>1 DEF Handler, RemoteEnds, ReadRequest, ReadNothing, LockAndSend,
           Confirmed, Denied, ReplyLost, Ready, OpenFails, RelayEnds, HandlerEnds, Busy, AtWork
<1>6. \/ word' = word
      \/ k[2] = "ask" /\ \E w \in {"ready", "refused", "error"} : word' = [word EXCEPT ![k[1]] = w]
    <2>1. \A w : Says(k, w) => word' = word \/ word' = [word EXCEPT ![k[1]] = w]
        BY <1>2 DEF Says, Typed
    <2>2. \/ word' = word
          \/ k[2] = "ask" /\ (Says(k, "ready") \/ Says(k, "refused") \/ Says(k, "error"))
        BY <1>2, <1>3 DEF Handler, RemoteEnds, ReadRequest, ReadNothing, LockAndSend, Confirmed,
           Denied, ReplyLost, Ready, OpenFails, RelayEnds, slaveVars
    <2> QED
        BY <2>1, <2>2
<1> QED
    BY <1>1, <1>2, <1>3, <1>4, <1>5, <1>6

LEMMA HandlerPlaced ==
    ASSUME Typed, Placed, NEW k \in Locals, Handler(k) \/ RemoteEnds(k)
    PROVE  Placed'
<1>1. PICK x \in Busy : /\ hd' = [hd EXCEPT ![k] = x]
                        /\ k[2] = "probe" => x = "ended"
                        /\ x \in {"locking", "awaiting"} => want[k[1]] # NoBind
    BY HandlerEffect
<1>2. /\ UNCHANGED <<want, sl, ms, at>> /\ hd[k] \in AtWork /\ at[k] \in Masters
      /\ k[1] \in Slaves
    BY HandlerEffect
<1>3. ASSUME NEW j \in Locals
      PROVE  Local(j)'
    <2>1. Local(j) /\ NoMaster \notin Masters
        BY MasterTypes DEF Placed
    <2>2. CASE j # k
        <3>1. hd'[j] = hd[j]
            BY <1>1, <2>2 DEF Typed
        <3> QED
            BY <1>2, <2>1, <3>1 DEF Local
    <2>3. CASE j = k
        <3>1. hd'[j] = x
            BY <1>1, <2>3 DEF Typed
        <3> QED
            BY <1>1, <1>2, <2>1, <2>3, <3>1 DEF Local, Held, Busy, AtWork
    <2> QED
        BY <2>2, <2>3
<1>4. ASSUME NEW s \in Slaves
      PROVE  Once(s)'
    <2>1. Once(s) /\ <<s, "ask">> \in Locals /\ <<s, "probe">> \in Locals
        BY MasterTypes DEF Placed
    <2>2. \A j \in Locals : hd[j] = "none" <=> hd'[j] = "none"
        BY <1>1, <1>2 DEF Typed, Busy, AtWork
    <2>3. hd[<<s, "ask">>] = "none" => word'[s] = word[s]
        <3>1. hd[k] # "none" /\ k = <<k[1], k[2]>>
            BY <1>2, MasterTypes DEF AtWork
        <3>2. CASE word' = word
            BY <3>2
        <3>3. ASSUME k[2] = "ask", NEW w, word' = [word EXCEPT ![k[1]] = w],
                     hd[<<s, "ask">>] = "none"
              PROVE  word'[s] = word[s]
            <4>1. k[1] # s
                BY <3>1, <3>3
            <4> QED
                BY <3>3, <4>1 DEF Typed
        <3> QED
            BY <3>2, <3>3, HandlerEffect
    <2> QED
        BY <1>2, <2>1, <2>2, <2>3 DEF Once
<1> QED
    BY <1>3, <1>4 DEF Placed

LEMMA StepPlaced == Typed /\ Placed /\ [Next]_vars => Placed'
<1> SUFFICES ASSUME Typed, Placed, [Next]_vars PROVE Placed'
    OBVIOUS
<1>1. ASSUME UNCHANGED <<want, sl, word, ms, at, hd>> PROVE Placed'
    BY <1>1 DEF Placed, Local, Once
<1>2. ASSUME NEW m \in Masters, ServerAnswers(m) PROVE Placed'
    BY <1>1, <1>2 DEF ServerAnswers, slaveVars, loopVars
<1>3. CASE UNCHANGED vars
    BY <1>1, <1>3 DEF vars
<1>4. ASSUME NEW s \in Slaves, Run(s) \/ UserEnds(s) PROVE Placed'
    BY <1>4, RunLocal, RunOnce DEF Placed
<1> QED
    BY <1>2, <1>3, <1>4, LoopPlaced, HandlerPlaced, MasterAssumption DEF Next

(***************************************************************************)
(* The count of the clients of a master.                                   *)
(***************************************************************************)
Counted ==
    \A m \in Masters : /\ active[m] = Cardinality(BusyAt(m))
                       /\ ms[m] = "closing" => active[m] = 0

LEMMA BusyFinite ==
    \A m : IsFiniteSet(BusyAt(m)) /\ Cardinality(BusyAt(m)) \in 0..Cardinality(Locals)
<1> TAKE m
<1>1. BusyAt(m) \subseteq Locals
    BY DEF BusyAt
<1> QED
    BY <1>1, MasterTypes, FS_Subset, FS_CardinalityType

LEMMA InitCounted == Init => Counted
<1> SUFFICES ASSUME Init, NEW m \in Masters
             PROVE  active[m] = Cardinality(BusyAt(m)) /\ ms[m] # "closing"
    BY DEF Init, Counted
<1>1. BusyAt(m) = {}
    BY DEF Init, BusyAt, Busy, AtWork
<1> QED
    BY <1>1, FS_EmptySet DEF Init

LEMMA StepCounted == Typed /\ Placed /\ Counted /\ [Next]_vars => Counted'
<1> SUFFICES ASSUME Typed, Placed, Counted, [Next]_vars, NEW n \in Masters
             PROVE  /\ active'[n] = Cardinality(BusyAt(n)')
                    /\ ms'[n] = "closing" => active'[n] = 0
    BY DEF Counted
<1> DEFINE Ok == active'[n] = Cardinality(BusyAt(n)') /\ (ms'[n] = "closing" => active'[n] = 0)
<1>0. /\ active[n] = Cardinality(BusyAt(n)) /\ IsFiniteSet(BusyAt(n))
      /\ ms[n] = "closing" => active[n] = 0
    BY BusyFinite DEF Counted
<1>1. ASSUME BusyAt(n)' = BusyAt(n), active' = active, ms'[n] = "closing" => ms[n] = "closing"
      PROVE  Ok
    BY <1>0, <1>1
<1>2. CASE UNCHANGED vars
    BY <1>1, <1>2 DEF vars, BusyAt
<1>3. ASSUME NEW m \in Masters, ServerAnswers(m) PROVE Ok
    BY <1>1, <1>3 DEF ServerAnswers, BusyAt, loopVars
<1>4. ASSUME NEW s \in Slaves, Run(s) \/ UserEnds(s) PROVE Ok
    <2>1. active' = active /\ (ms'[n] = "closing" => ms[n] = "closing")
        BY <1>4, RunEffect DEF Typed
    <2>2. ASSUME NEW j \in Locals, Connecting(j), ms' = ms PROVE BusyAt(n)' = BusyAt(n)
        <3>1. j \notin BusyAt(n) /\ j \notin BusyAt(n)'
            BY <2>2 DEF BusyAt, Connecting, Typed, Busy, AtWork
        <3>2. \A i \in Locals \ {j} : at'[i] = at[i] /\ hd'[i] = hd[i]
            BY <2>2 DEF Connecting, Typed
        <3> QED
            BY <3>1, <3>2 DEF BusyAt
    <2>3. UNCHANGED <<at, hd>> => BusyAt(n)' = BusyAt(n)
        BY DEF BusyAt
    <2> QED
        BY <1>1, <1>4, <2>1, <2>2, <2>3, RunEffect
<1>5. ASSUME NEW m \in Masters, Loop(m) \/ Crash(m) \/ ConnLost(m) PROVE Ok
    <2>1. at' = at
        BY <1>5, LoopEffect
    <2>2. CASE hd' = hd /\ active' = active
        <3>1. BusyAt(n)' = BusyAt(n)
            BY <2>1, <2>2 DEF BusyAt
        <3>2. ms'[n] = "closing" => ms[n] = "closing" \/ active[n] = 0
            BY <1>5, <2>2, LoopEffect DEF Typed, ProcessEnds
        <3> QED
            BY <1>0, <2>2, <3>1, <3>2
    <2>3. ASSUME ms' = ms, ms[m] = "serving", NEW k \in Of(m),
                 hd[k] = "backlog", hd' = [hd EXCEPT ![k] = "reading"],
                 active' = [active EXCEPT ![m] = @ + 1]
          PROVE  Ok
        <3>1. k \in Locals /\ at[k] = m /\ k \notin BusyAt(n)
            BY <2>3 DEF Of, BusyAt, Busy, AtWork
        <3>2. CASE n = m
            <4>1. BusyAt(n)' = BusyAt(n) \cup {k}
                BY <2>1, <2>3, <3>1, <3>2 DEF BusyAt, Typed, Busy, AtWork
            <4>2. active'[n] = active[n] + 1 /\ ms'[n] # "closing"
                BY <2>3, <3>2 DEF Typed
            <4>3. Cardinality(BusyAt(n) \cup {k}) = Cardinality(BusyAt(n)) + 1
                BY <1>0, <3>1, FS_AddElement
            <4> QED
                BY <1>0, <4>1, <4>2, <4>3
        <3>3. CASE n # m
            <4>1. BusyAt(n)' = BusyAt(n)
                BY <2>1, <2>3, <3>1, <3>3 DEF BusyAt, Typed
            <4>2. active'[n] = active[n]
                BY <2>3, <3>3 DEF Typed
            <4> QED
                BY <1>0, <2>3, <4>1, <4>2
        <3> QED
            BY <3>2, <3>3
    <2>4. ASSUME ms' = ms, ms[m] = "serving", NEW k \in Of(m),
                 hd[k] = "ended", hd' = [hd EXCEPT ![k] = "gone"],
                 active' = [active EXCEPT ![m] = @ - 1]
          PROVE  Ok
        <3>1. k \in Locals /\ at[k] = m
            BY <2>4 DEF Of
        <3>2. CASE n = m
            <4>1. BusyAt(n)' = BusyAt(n) \ {k} /\ k \in BusyAt(n)
                BY <2>1, <2>4, <3>1, <3>2 DEF BusyAt, Typed, Busy, AtWork
            <4>2. active'[n] = active[n] - 1 /\ ms'[n] # "closing"
                BY <2>4, <3>2 DEF Typed
            <4>3. Cardinality(BusyAt(n) \ {k}) = Cardinality(BusyAt(n)) - 1
                BY <1>0, <4>1, FS_RemoveElement
            <4> QED
                BY <1>0, <4>1, <4>2, <4>3
        <3>3. CASE n # m
            <4>1. BusyAt(n)' = BusyAt(n)
                BY <2>1, <2>4, <3>1, <3>3 DEF BusyAt, Typed
            <4>2. active'[n] = active[n]
                BY <2>4, <3>3 DEF Typed
            <4> QED
                BY <1>0, <2>4, <4>1, <4>2
        <3> QED
            BY <3>2, <3>3
    <2>5. CASE ProcessEnds(m)
        <3>0. /\ ms' = [ms EXCEPT ![m] = "over"] /\ active' = [active EXCEPT ![m] = 0]
              /\ hd' = [k \in Locals |-> IF at[k] = m THEN "gone" ELSE hd[k]]
            BY <2>5 DEF ProcessEnds
        <3>1. CASE n = m
            <4>1. BusyAt(n)' = {}
                BY <2>1, <3>0, <3>1 DEF BusyAt, Busy, AtWork
            <4>2. active'[n] = 0
                BY <3>0, <3>1 DEF Typed
            <4> QED
                BY <4>1, <4>2, FS_EmptySet
        <3>2. CASE n # m
            <4>1. BusyAt(n)' = BusyAt(n)
                BY <2>1, <3>0, <3>2 DEF BusyAt
            <4>2. active'[n] = active[n] /\ ms'[n] = ms[n]
                BY <3>0, <3>2 DEF Typed
            <4> QED
                BY <1>0, <4>1, <4>2
        <3> QED
            BY <3>1, <3>2
    <2> QED
        BY <1>5, <2>2, <2>3, <2>4, <2>5, LoopEffect
<1>6. ASSUME NEW k \in Locals, Handler(k) \/ RemoteEnds(k) PROVE Ok
    <2>1. /\ UNCHANGED <<ms, active, at>> /\ hd[k] \in Busy
          /\ \E x \in Busy : hd' = [hd EXCEPT ![k] = x]
        BY <1>6, HandlerEffect DEF Busy
    <2>2. BusyAt(n)' = BusyAt(n)
        BY <2>1 DEF BusyAt, Typed
    <2> QED
        BY <1>1, <2>1, <2>2
<1> QED
    BY <1>2, <1>3, <1>4, <1>5, <1>6, MasterAssumption DEF Next

LEMMA CountedCuts == Typed /\ Counted => IdleMasterCutsNobody
<1> SUFFICES ASSUME Typed, Counted, NEW m \in Masters, ms[m] = "closing", NEW k \in Of(m)
             PROVE  hd[k] \notin AtWork
    BY DEF IdleMasterCutsNobody
<1>1. Cardinality(BusyAt(m)) = 0
    BY DEF Counted
<1>2. BusyAt(m) = {}
    BY <1>1, BusyFinite, FS_EmptySet
<1> QED
    BY <1>2 DEF BusyAt, Of, Busy

LEMMA CountedTypes == Typed /\ Counted => TypeOK
<1> SUFFICES ASSUME Typed, Counted PROVE TypeOK
    OBVIOUS
<1>1. \A m \in Masters : active[m] \in 0..Cardinality(Locals)
    BY BusyFinite DEF Counted
<1>2. active \in [Masters -> 0..Cardinality(Locals)]
    BY <1>1 DEF Typed
<1> QED
    BY <1>2 DEF Typed, TypeOK

\* The part of the invariant that the control stream does not concern.
LEMMA CountInvariant == Spec => [](Typed /\ Placed /\ Counted)
<1>1. Init => Typed /\ Placed /\ Counted
    BY InitTyped, InitPlaced, InitCounted
<1>2. Typed /\ Placed /\ Counted /\ [Next]_vars => (Typed /\ Placed /\ Counted)'
    BY StepTyped, StepPlaced, StepCounted
<1> QED
    BY <1>1, <1>2, PTL DEF Spec

\* TypeOK: every variable of control.rs keeps its type; in particular
\* active_clients stays between none and all of the local connections.
THEOREM TypeCorrect == Spec => []TypeOK
<1>1. Typed /\ Placed /\ Counted => TypeOK
    BY CountedTypes
<1> QED
    BY <1>1, CountInvariant, PTL

\* IdleMasterCutsNobody: active_clients of serve_master counts exactly the
\* handlers it has accepted and not yet heard the end of, however they end, so
\* the idle timeout ends no master while one is at work.
THEOREM IdleCutsNobody == Spec => []IdleMasterCutsNobody
<1>1. Typed /\ Placed /\ Counted => IdleMasterCutsNobody
    BY CountedCuts
<1> QED
    BY <1>1, CountInvariant, PTL

(***************************************************************************)
(* The mutex of a control stream, and what is under way there.             *)
(***************************************************************************)
Empty(m) == req[m] = <<>> /\ rep[m] = <<>>

\* What a refusal of the bind of s by the server of m means.
Contested(m, s) == want[s] \notin Allowed \/ Askers(m, want[s]) # {s}

\* The request of k, or the reply to it, or neither when the connection is lost.
UnderWay(m, k) ==
    \/ Empty(m)
    \/ req[m] = <<want[k[1]]>> /\ rep[m] = <<>>
    \/ req[m] = <<>> /\ rep[m] = <<TRUE>> /\ want[k[1]] \in srvFwd[m]
    \/ req[m] = <<>> /\ rep[m] = <<FALSE>> /\ Contested(m, k[1])

Stream(m) ==
    /\ lock[m] = NoLock \/ conn[m] = "closed" => Empty(m)
    /\ \A k \in Locals : /\ lock[m] = k <=> at[k] = m /\ hd[k] = "awaiting"
                         /\ lock[m] = k => UnderWay(m, k)

Guarded == \A m \in Masters : Stream(m)

\* The server listens for nothing but what it was asked for and has answered.
Asked(s) ==
    LET k == <<s, "ask">>
    IN \/ hd[k] \in {"opening", "session", "ended", "gone"}
       \/ hd[k] = "awaiting" /\ req[at[k]] = <<>>

Answered ==
    /\ \A m \in Masters : \A b \in srvFwd[m] : \E r \in Askers(m, b) : Asked(r)
    /\ \A s \in Slaves :
         want[s] # NoBind /\ hd[<<s, "ask">>] \in {"opening", "session"}
             => want[s] \in srvFwd[at[<<s, "ask">>]]

Known == Typed /\ Placed /\ Counted

LEMMA InitGuarded == Init => Guarded /\ Answered
<1> SUFFICES ASSUME Init PROVE Guarded /\ Answered
    OBVIOUS
<1>1. Guarded
    BY MasterAssumption DEF Init, Guarded, Stream, Empty
<1>2. Answered
    BY MasterTypes DEF Init, Answered
<1> QED
    BY <1>1, <1>2

\* Every step: no run changes its bind, and none connects a second time.
LEMMA StepAskers ==
    ASSUME Typed, Placed, [Next]_vars
    PROVE  /\ want' = want
           /\ \/ at' = at
              \/ /\ \E j \in Locals : Connecting(j)
                 /\ UNCHANGED <<ms, conn, specs, lock, req, rep, srvFwd, word>>
<1>1. CASE UNCHANGED vars
    BY <1>1 DEF vars
<1>2. ASSUME NEW m \in Masters, ServerAnswers(m) PROVE want' = want /\ at' = at
    BY <1>2 DEF ServerAnswers
<1>3. ASSUME NEW m \in Masters, Loop(m) \/ Crash(m) \/ ConnLost(m) PROVE want' = want /\ at' = at
    BY <1>3, LoopEffect
<1>4. ASSUME NEW k \in Locals, Handler(k) \/ RemoteEnds(k) PROVE want' = want /\ at' = at
    BY <1>4, HandlerEffect
<1>5. ASSUME NEW s \in Slaves, Run(s) \/ UserEnds(s)
      PROVE  /\ want' = want
             /\ \/ at' = at
                \/ /\ \E j \in Locals : Connecting(j)
                   /\ UNCHANGED <<ms, conn, specs, lock, req, rep, srvFwd, word>>
    BY <1>5, RunEffect
<1> QED
    BY <1>1, <1>2, <1>3, <1>4, <1>5, MasterAssumption DEF Next

LEMMA AskersGrow ==
    ASSUME Typed, Placed, [Next]_vars, NEW m \in Masters
    PROVE  /\ \A k \in Locals : at[k] = m => at'[k] = m
           /\ \A b : Askers(m, b) \subseteq Askers(m, b)'
           /\ \A s \in Slaves : at[<<s, "ask">>] = m /\ Contested(m, s) => Contested(m, s)'
<1>1. want' = want
    BY StepAskers
<1>2. \A k \in Locals : at[k] = m => at'[k] = m
    BY StepAskers, MasterTypes DEF Connecting, Placed, Local, Typed
<1>3. \A b : Askers(m, b) \subseteq Askers(m, b)'
    BY <1>1, <1>2, MasterTypes DEF Askers
<1>4. ASSUME NEW s \in Slaves, at[<<s, "ask">>] = m, Contested(m, s)
      PROVE  Contested(m, s)'
    <2>1. s \in Askers(m, want[s])
        BY <1>4 DEF Askers
    <2> QED
        BY <1>1, <1>3, <1>4, <2>1 DEF Contested
<1> QED
    BY <1>2, <1>3, <1>4

\* What a handler does with the control stream: nothing, its request, or the
\* end of its turn.
LEMMA HandlerStream ==
    ASSUME Typed, Placed, NEW k \in Locals, Handler(k) \/ RemoteEnds(k)
    PROVE  \/ /\ UNCHANGED <<lock, req, rep>> /\ hd[k] # "awaiting"
              /\ \E x \in Busy \ {"awaiting"} : hd' = [hd EXCEPT ![k] = x]
           \/ /\ hd[k] = "locking" /\ lock[at[k]] = NoLock /\ conn[at[k]] = "up" /\ rep' = rep
              /\ hd' = [hd EXCEPT ![k] = "awaiting"] /\ lock' = [lock EXCEPT ![at[k]] = k]
              /\ req' = [req EXCEPT ![at[k]] = Append(@, want[k[1]])]
           \/ /\ hd[k] = "awaiting" /\ lock' = [lock EXCEPT ![at[k]] = NoLock] /\ req' = req
              /\ \E x \in {"opening", "ended"} : hd' = [hd EXCEPT ![k] = x]
              /\ \/ rep[at[k]] # <<>> /\ rep' = [rep EXCEPT ![at[k]] = Tail(@)]
                 \/ conn[at[k]] = "closed" /\ rep' = rep
<1>1. CASE Confirmed(k) \/ Denied(k) \/ ReplyLost(k)
    BY <1>1 DEF Confirmed, Denied, ReplyLost, Unlocked, HandlerEnds
<1>2. CASE LockAndSend(k)
    BY <1>2 DEF LockAndSend, HandlerEnds, Busy, AtWork
<1>3. CASE ~(Confirmed(k) \/ Denied(k) \/ ReplyLost(k) \/ LockAndSend(k))
    BY <1>3 DEF Handler, RemoteEnds, ReadRequest, ReadNothing, Ready, OpenFails, RelayEnds,
           HandlerEnds, ctlVars, Busy, AtWork
<1> QED
    BY <1>1, <1>2, <1>3

LEMMA HandlerGuarded ==
    ASSUME Known, Guarded, NEW k \in Locals, Handler(k) \/ RemoteEnds(k)
    PROVE  Guarded'
<1> USE DEF Known
<1> SUFFICES ASSUME NEW m \in Masters PROVE Stream(m)'
    BY DEF Guarded
<1>1. Stream(m) /\ UNCHANGED <<want, at, conn, srvFwd>> /\ at[k] \in Masters
    BY HandlerEffect DEF Guarded
<1>2. \A j \in Locals : at[j] = m /\ Contested(m, j[1]) => Contested(m, j[1])'
    BY <1>1 DEF Contested, Askers
<1>3. \A j \in Locals : UnderWay(m, j) /\ req'[m] = req[m] /\ rep'[m] = rep[m] => UnderWay(m, j)'
    BY <1>1 DEF UnderWay, Empty, Contested, Askers
<1>4. CASE at[k] # m
    <2>1. lock'[m] = lock[m] /\ req'[m] = req[m] /\ rep'[m] = rep[m]
        BY <1>1, <1>4, HandlerStream DEF Typed
    <2>2. \A j \in Locals : at[j] = m => hd'[j] = hd[j]
        BY <1>4, HandlerEffect DEF Typed
    <2> QED
        BY <1>1, <1>3, <2>1, <2>2 DEF Stream, Empty
<1>5. CASE at[k] = m
    <2>1. CASE /\ UNCHANGED <<lock, req, rep>> /\ hd[k] # "awaiting"
               /\ \E x \in Busy \ {"awaiting"} : hd' = [hd EXCEPT ![k] = x]
        <3>1. \A j \in Locals : hd'[j] = "awaiting" <=> hd[j] = "awaiting"
            BY <2>1 DEF Typed
        <3> QED
            BY <1>1, <1>3, <2>1, <3>1 DEF Stream, Empty
    <2>2. CASE /\ hd[k] = "locking" /\ lock[at[k]] = NoLock /\ conn[at[k]] = "up" /\ rep' = rep
               /\ hd' = [hd EXCEPT ![k] = "awaiting"] /\ lock' = [lock EXCEPT ![at[k]] = k]
               /\ req' = [req EXCEPT ![at[k]] = Append(@, want[k[1]])]
        <3>1. lock'[m] = k /\ conn'[m] = "up" /\ req'[m] = <<want[k[1]]>> /\ rep'[m] = <<>>
            <4>1. req[m] = <<>> /\ rep[m] = <<>>
                BY <1>1, <1>5, <2>2 DEF Stream, Empty
            <4> QED
                BY <1>1, <1>5, <2>2, <4>1 DEF Typed
        <3>2. \A j \in Locals : at[j] = m => (hd'[j] = "awaiting" <=> j = k)
            BY <1>1, <1>5, <2>2, MasterAssumption DEF Stream, Typed
        <3>3. k # NoLock
            BY MasterAssumption
        <3> QED
            BY <1>1, <1>5, <3>1, <3>2, <3>3 DEF Stream, UnderWay
    <2>3. CASE /\ hd[k] = "awaiting" /\ lock' = [lock EXCEPT ![at[k]] = NoLock] /\ req' = req
               /\ \E x \in {"opening", "ended"} : hd' = [hd EXCEPT ![k] = x]
               /\ \/ rep[at[k]] # <<>> /\ rep' = [rep EXCEPT ![at[k]] = Tail(@)]
                  \/ conn[at[k]] = "closed" /\ rep' = rep
        <3>1. lock[m] = k /\ UnderWay(m, k)
            BY <1>1, <1>5, <2>3 DEF Stream
        <3>2. lock'[m] = NoLock
            BY <1>5, <2>3 DEF Typed
        <3>3. Empty(m)'
            <4>1. CASE rep[m] # <<>> /\ rep' = [rep EXCEPT ![m] = Tail(@)]
                <5>1. req[m] = <<>> /\ (rep[m] = <<TRUE>> \/ rep[m] = <<FALSE>>)
                    BY <3>1, <4>1 DEF UnderWay, Empty
                <5>2. Tail(rep[m]) = <<>>
                    BY <5>1, OneElement
                <5> QED
                    BY <2>3, <4>1, <5>1, <5>2 DEF Empty, Typed
            <4>2. CASE conn[m] = "closed" /\ rep' = rep
                BY <1>1, <2>3, <4>2 DEF Stream, Empty
            <4> QED
                BY <1>5, <2>3, <4>1, <4>2
        <3>4. \A j \in Locals : at[j] = m => hd'[j] # "awaiting"
            BY <1>1, <1>5, <2>3, <3>1 DEF Stream, Typed
        <3> QED
            BY <1>1, <3>2, <3>3, <3>4, MasterAssumption DEF Stream
    <2> QED
        BY <2>1, <2>2, <2>3, HandlerStream
<1> QED
    BY <1>4, <1>5

\* While no handler of m is at work, its control stream is free and empty.
LEMMA Quiet ==
    ASSUME Known, Guarded, NEW m \in Masters,
           \/ ms[m] \in {"dialing", "connected", "prepared", "closing"}
           \/ ms[m] = "serving" /\ active[m] = 0
    PROVE  lock[m] = NoLock /\ Empty(m)
<1>1. ASSUME NEW k \in Locals, at[k] = m PROVE hd[k] # "awaiting"
    <2>1. CASE ms[m] \in {"dialing", "connected", "prepared"}
        BY <1>1, <2>1 DEF Known, Placed, Local, Held, Busy, AtWork
    <2>2. CASE ~(ms[m] \in {"dialing", "connected", "prepared"})
        <3>1. Cardinality(BusyAt(m)) = 0
            BY <2>2 DEF Known, Counted
        <3>2. BusyAt(m) = {}
            BY <3>1, BusyFinite, FS_EmptySet
        <3> QED
            BY <1>1, <3>2 DEF BusyAt, Busy, AtWork
    <2> QED
        BY <2>1, <2>2
<1>2. Stream(m) /\ lock[m] \in Locals \cup {NoLock}
    BY DEF Known, Typed, Guarded
<1> QED
    BY <1>1, <1>2 DEF Stream

\* What the server does: it answers the request of the handler that holds the
\* mutex, and refuses what is not allowed or what another run has been given.
LEMMA AnswersEffect ==
    ASSUME Known, Guarded, Answered, NEW m \in Masters, ServerAnswers(m)
    PROVE  \E k \in Locals : \E ok \in BOOLEAN :
             /\ lock[m] = k /\ at[k] = m /\ hd[k] = "awaiting" /\ k[1] \in Slaves
             /\ req[m] = <<want[k[1]]>>
             /\ req' = [req EXCEPT ![m] = <<>>] /\ rep' = [rep EXCEPT ![m] = <<ok>>]
             /\ srvFwd' = [srvFwd EXCEPT ![m] = IF ok THEN @ \cup {want[k[1]]} ELSE @]
             /\ ~ok => Contested(m, k[1])
<1> USE DEF Known
<1>1. Stream(m) /\ conn[m] = "up" /\ req[m] # <<>> /\ lock[m] \in Locals \cup {NoLock}
    BY DEF Guarded, ServerAnswers, Typed
<1>2. PICK k \in Locals : lock[m] = k
    BY <1>1 DEF Stream, Empty
<1>3. at[k] = m /\ hd[k] = "awaiting" /\ req[m] = <<want[k[1]]>> /\ rep[m] = <<>>
      /\ k[1] \in Slaves
    BY <1>1, <1>2, MasterTypes DEF Stream, UnderWay, Empty
<1> DEFINE b == want[k[1]]
           ok == b \in Allowed \ srvFwd[m]
<1>4. Head(req[m]) = b /\ Tail(req[m]) = <<>> /\ Append(rep[m], ok) = <<ok>> /\ ok \in BOOLEAN
    BY <1>3, OneElement
<1>5. /\ req' = [req EXCEPT ![m] = <<>>] /\ rep' = [rep EXCEPT ![m] = <<ok>>]
      /\ srvFwd' = [srvFwd EXCEPT ![m] = IF ok THEN @ \cup {b} ELSE @]
    BY <1>4 DEF ServerAnswers, Typed
<1>6. ASSUME ~ok PROVE Contested(m, k[1])
    <2>1. CASE b \in srvFwd[m]
        <3>1. PICK r \in Askers(m, b) : Asked(r)
            BY <2>1 DEF Answered
        <3>2. <<k[1], "ask">> # k => hd[k] = "reading"
            BY <1>3, MasterTypes DEF Placed, Local
        <3>3. k = <<k[1], "ask">>
            BY <1>3, <3>2
        <3>4. r # k[1]
            <4>1. r = k[1] => <<r, "ask">> = k
                BY <3>3
            <4>2. r = k[1] => ~Asked(r)
                BY <1>3, <4>1, OneElement DEF Asked
            <4> QED
                BY <3>1, <4>2
        <3> QED
            BY <3>1, <3>4 DEF Contested
    <2>2. CASE b \notin srvFwd[m]
        BY <1>6, <2>2 DEF Contested
    <2> QED
        BY <2>1, <2>2
<1> QED
    BY <1>2, <1>3, <1>4, <1>5, <1>6

LEMMA AnswersGuarded ==
    ASSUME Known, Guarded, Answered, NEW m \in Masters, ServerAnswers(m)
    PROVE  Guarded'
<1> USE DEF Known
<1> SUFFICES ASSUME NEW n \in Masters PROVE Stream(n)'
    BY DEF Guarded
<1>1. Stream(n) /\ UNCHANGED <<want, at, hd, lock, conn>> /\ conn[m] = "up"
    BY DEF Guarded, ServerAnswers, loopVars
<1>2. PICK k \in Locals : \E ok \in BOOLEAN :
             /\ lock[m] = k /\ at[k] = m /\ hd[k] = "awaiting" /\ k[1] \in Slaves
             /\ req[m] = <<want[k[1]]>>
             /\ req' = [req EXCEPT ![m] = <<>>] /\ rep' = [rep EXCEPT ![m] = <<ok>>]
             /\ srvFwd' = [srvFwd EXCEPT ![m] = IF ok THEN @ \cup {want[k[1]]} ELSE @]
             /\ ~ok => Contested(m, k[1])
    BY AnswersEffect
<1>3. PICK ok \in BOOLEAN :
             /\ req' = [req EXCEPT ![m] = <<>>] /\ rep' = [rep EXCEPT ![m] = <<ok>>]
             /\ srvFwd' = [srvFwd EXCEPT ![m] = IF ok THEN @ \cup {want[k[1]]} ELSE @]
             /\ ~ok => Contested(m, k[1])
    BY <1>2
<1>4. CASE n # m
    <2>1. req'[n] = req[n] /\ rep'[n] = rep[n] /\ srvFwd'[n] = srvFwd[n]
        BY <1>3, <1>4 DEF Typed
    <2>2. \A j \in Locals : UnderWay(n, j) => UnderWay(n, j)'
        BY <1>1, <2>1 DEF UnderWay, Empty, Contested, Askers
    <2> QED
        BY <1>1, <2>1, <2>2 DEF Stream, Empty
<1>5. CASE n = m
    <2>1. req'[m] = <<>> /\ rep'[m] = <<ok>> /\ (ok => want[k[1]] \in srvFwd'[m])
        BY <1>3 DEF Typed
    <2>2. ~ok => Contested(m, k[1])'
        BY <1>1, <1>3 DEF Contested, Askers
    <2>3. UnderWay(m, k)'
        BY <1>1, <2>1, <2>2 DEF UnderWay
    <2>4. lock[m] # NoLock
        BY <1>2, MasterAssumption
    <2> QED
        BY <1>1, <1>2, <1>5, <2>3, <2>4 DEF Stream
<1> QED
    BY <1>4, <1>5

LEMMA RunGuarded ==
    ASSUME Known, Guarded, NEW s \in Slaves, Run(s) \/ UserEnds(s)
    PROVE  Guarded'
<1> USE DEF Known
<1> SUFFICES ASSUME NEW m \in Masters PROVE Stream(m)'
    BY DEF Guarded
<1>1. Stream(m) /\ UNCHANGED <<want, conn, lock, req, rep, srvFwd>>
    BY RunEffect DEF Guarded
<1>2. [Next]_vars
    BY DEF Next
<1>3. \A k \in Locals : (at[k] = m /\ hd[k] = "awaiting") <=> (at'[k] = m /\ hd'[k] = "awaiting")
    BY RunEffect DEF Connecting, Typed
<1>4. ASSUME NEW k \in Locals, lock[m] = k PROVE UnderWay(m, k)'
    <2>1. UnderWay(m, k) /\ at[k] = m /\ hd[k] = "awaiting"
        BY <1>1, <1>4 DEF Stream
    <2>2. k = <<k[1], "ask">> /\ k[1] \in Slaves
        BY <2>1, MasterTypes DEF Placed, Local
    <2>3. at[<<k[1], "ask">>] = m
        BY <2>1, <2>2
    <2>4. Contested(m, k[1]) => Contested(m, k[1])'
        BY <1>2, <2>2, <2>3, AskersGrow
    <2> QED
        BY <1>1, <2>1, <2>4 DEF UnderWay, Empty
<1> QED
    BY <1>1, <1>3, <1>4 DEF Stream, Empty

LEMMA LoopGuarded ==
    ASSUME Known, Guarded, NEW m \in Masters, Loop(m) \/ Crash(m) \/ ConnLost(m)
    PROVE  Guarded'
<1> USE DEF Known
<1> SUFFICES ASSUME NEW n \in Masters PROVE Stream(n)'
    BY DEF Guarded
<1>1. Stream(n) /\ UNCHANGED <<want, at, srvFwd>>
    BY LoopEffect DEF Guarded
<1>2. n # m => conn'[n] = conn[n]
    BY DEF Loop, Dialled, DialFails, Prepare, Bind, AcceptClient, ClientDone, IdleTimeout,
           RemoveSocket, Crash, ConnLost, ConnCloses, Typed
<1>3. n # m => lock'[n] = lock[n] /\ req'[n] = req[n] /\ rep'[n] = rep[n]
    <2>1. lock' = lock \/ lock' = [lock EXCEPT ![m] = NoLock]
        BY LoopEffect DEF ProcessEnds
    <2>2. \/ UNCHANGED <<req, rep>>
          \/ req' = [req EXCEPT ![m] = <<>>] /\ rep' = [rep EXCEPT ![m] = <<>>]
        BY LoopEffect
    <2> QED
        BY <2>1, <2>2 DEF Typed
<1>4. \A k \in Locals : (at[k] = n /\ n # m) \/ ~ProcessEnds(m)
                            => (hd'[k] = "awaiting" <=> hd[k] = "awaiting")
    BY LoopEffect DEF ProcessEnds, Of, Typed
<1>5. CASE n # m
    <2>1. \A k \in Locals : UnderWay(n, k) => UnderWay(n, k)'
        BY <1>1, <1>3, <1>5 DEF UnderWay, Empty, Contested, Askers
    <2> QED
        BY <1>1, <1>2, <1>3, <1>4, <1>5, <2>1 DEF Stream, Empty
<1>6. CASE n = m /\ ~ProcessEnds(m)
    <2>1. \/ lock' = lock /\ Empty(m)'
          \/ UNCHANGED <<conn, lock, req, rep>>
        BY <1>6, LoopEffect, Quiet DEF Empty, Typed
    <2>2. CASE lock' = lock /\ Empty(m)'
        <3>1. \A k \in Locals : UnderWay(m, k)'
            BY <2>2 DEF UnderWay
        <3> QED
            BY <1>1, <1>4, <1>6, <2>2, <3>1 DEF Stream
    <2>3. CASE UNCHANGED <<conn, lock, req, rep>>
        <3>1. \A k \in Locals : UnderWay(m, k) => UnderWay(m, k)'
            BY <1>1, <2>3 DEF UnderWay, Empty, Contested, Askers
        <3> QED
            BY <1>1, <1>4, <1>6, <2>3, <3>1 DEF Stream, Empty
    <2> QED
        BY <2>1, <2>2, <2>3
<1>7. CASE n = m /\ ProcessEnds(m)
    <2>1. lock'[m] = NoLock
        BY <1>7 DEF ProcessEnds, Typed
    <2>2. \A k \in Locals : at[k] = m => hd'[k] # "awaiting"
        <3>1. hd' = [k \in Locals |-> IF at[k] = m THEN "gone" ELSE hd[k]]
            BY <1>7 DEF ProcessEnds
        <3> QED
            BY <3>1
    <2>3. Empty(m)'
        <3>1. ms'[m] = "over"
            BY <1>7 DEF ProcessEnds, Typed
        <3> QED
            BY <3>1, LoopEffect, Quiet DEF Empty, Typed
    <2> QED
        BY <1>1, <1>7, <2>1, <2>2, <2>3, MasterAssumption DEF Stream
<1> QED
    BY <1>5, <1>6, <1>7

LEMMA StepGuarded == Known /\ Guarded /\ Answered /\ [Next]_vars => Guarded'
<1> SUFFICES ASSUME Known, Guarded, Answered, [Next]_vars PROVE Guarded'
    OBVIOUS
<1>1. CASE UNCHANGED vars
    <2>1. UNCHANGED <<want, conn, at, hd, lock, req, rep, srvFwd>>
        BY <1>1 DEF vars
    <2>2. \A m, k : UnderWay(m, k) => UnderWay(m, k)'
        BY <2>1 DEF UnderWay, Empty, Contested, Askers
    <2> QED
        BY <2>1, <2>2 DEF Guarded, Stream, Empty
<1> QED
    BY <1>1, RunGuarded, LoopGuarded, AnswersGuarded, HandlerGuarded, MasterAssumption DEF Next

(***************************************************************************)
(* Who was answered what.                                                  *)
(***************************************************************************)
\* Nobody else takes a handler on.
LEMMA OnlyHandler ==
    ASSUME Typed, Placed, [Next]_vars, NEW j \in Locals,
           hd'[j] \in {"locking", "awaiting", "opening", "session"}
    PROVE  hd'[j] = hd[j] \/ Handler(j) \/ RemoteEnds(j)
<1>1. CASE UNCHANGED vars
    BY <1>1 DEF vars
<1>2. ASSUME NEW n \in Masters, ServerAnswers(n) PROVE hd'[j] = hd[j]
    BY <1>2 DEF ServerAnswers
<1>3. ASSUME NEW n \in Masters, Loop(n) \/ Crash(n) \/ ConnLost(n) PROVE hd'[j] = hd[j]
    <2>1. CASE ProcessEnds(n)
        <3>1. hd' = [k \in Locals |-> IF at[k] = n THEN "gone" ELSE hd[k]]
            BY <2>1 DEF ProcessEnds
        <3> QED
            BY <3>1
    <2>2. CASE ~ProcessEnds(n)
        <3>1. hd' = hd \/ \E k \in Locals, x \in {"reading", "gone"} : hd' = [hd EXCEPT ![k] = x]
            BY <1>3, <2>2, LoopEffect DEF Of
        <3> QED
            BY <3>1 DEF Typed
    <2> QED
        BY <2>1, <2>2
<1>4. ASSUME NEW r \in Slaves, Run(r) \/ UserEnds(r) PROVE hd'[j] = hd[j]
    BY <1>4, RunEffect DEF Connecting, Typed
<1>5. ASSUME NEW k \in Locals, Handler(k) \/ RemoteEnds(k), k # j PROVE hd'[j] = hd[j]
    BY <1>5, HandlerEffect DEF Typed
<1> QED
    BY <1>1, <1>2, <1>3, <1>4, <1>5, MasterAssumption DEF Next

\* Past its request, a handler goes on to its session, or ends.
LEMMA HandlerGoesOn ==
    ASSUME Known, Guarded, NEW k \in Locals, Handler(k) \/ RemoteEnds(k),
           hd[k] \in {"awaiting", "opening", "session"}
    PROVE  \E x \in {"opening", "session", "ended"} :
             /\ hd' = [hd EXCEPT ![k] = x]
             /\ x = "session" => hd[k] = "opening"
             /\ x = "opening" => hd[k] = "awaiting" /\ want[k[1]] \in srvFwd[at[k]]
<1> USE DEF Known
<1>1. CASE Confirmed(k)
    <2>1. at[k] \in Masters /\ rep[at[k]] # <<>> /\ Head(rep[at[k]])
        BY <1>1, HandlerEffect DEF Confirmed
    <2>2. UnderWay(at[k], k)
        BY <1>1, <2>1 DEF Confirmed, Guarded, Stream
    <2>3. want[k[1]] \in srvFwd[at[k]]
        BY <2>1, <2>2, OneElement DEF UnderWay, Empty
    <2> QED
        BY <1>1, <2>3 DEF Confirmed
<1>2. CASE ~Confirmed(k)
    BY <1>2 DEF Handler, RemoteEnds, ReadRequest, ReadNothing, LockAndSend, Denied, ReplyLost,
           Ready, OpenFails, RelayEnds, HandlerEnds
<1> QED
    BY <1>1, <1>2

LEMMA AskedStays ==
    ASSUME Known, Guarded, [Next]_vars, NEW m \in Masters, NEW r \in Slaves,
           at[<<r, "ask">>] = m, Asked(r)
    PROVE  at'[<<r, "ask">>] = m /\ Asked(r)'
<1> USE DEF Known
<1> DEFINE j == <<r, "ask">>
<1>0. j \in Locals /\ at'[j] = m
    BY AskersGrow, MasterTypes
<1>1. CASE UNCHANGED vars
    BY <1>1 DEF vars, Asked
<1>2. ASSUME NEW n \in Masters, ServerAnswers(n) PROVE Asked(r)'
    BY <1>0, <1>2 DEF ServerAnswers, loopVars, Asked, Typed
<1>3. ASSUME NEW n \in Masters, Loop(n) \/ Crash(n) \/ ConnLost(n) PROVE Asked(r)'
    <2>1. hd'[j] \in {hd[j], "gone"}
        <3>1. CASE ProcessEnds(n)
            <4>1. hd' = [k \in Locals |-> IF at[k] = n THEN "gone" ELSE hd[k]]
                BY <3>1 DEF ProcessEnds
            <4> QED
                BY <1>0, <4>1
        <3>2. CASE ~ProcessEnds(n)
            <4>1. hd[j] # "backlog"
                BY DEF Asked
            <4> QED
                BY <1>0, <1>3, <3>2, <4>1, LoopEffect DEF Of, Typed
        <3> QED
            BY <3>1, <3>2
    <2>2. req' = req \/ req' = [req EXCEPT ![n] = <<>>]
        BY <1>3, LoopEffect
    <2>3. req[m] = <<>> => req'[m] = <<>>
        BY <2>2 DEF Typed
    <2> QED
        BY <1>0, <2>1, <2>3 DEF Asked
<1>4. ASSUME NEW s \in Slaves, Run(s) \/ UserEnds(s) PROVE Asked(r)'
    <2>1. req' = req /\ hd'[j] = hd[j]
        BY <1>0, <1>4, RunEffect DEF Asked, Connecting, Typed
    <2> QED
        BY <1>0, <2>1 DEF Asked
<1>5. ASSUME NEW k \in Locals, Handler(k) \/ RemoteEnds(k) PROVE Asked(r)'
    <2>1. CASE k = j
        <3>1. hd[j] \in {"awaiting", "opening", "session"}
            BY <1>5, <2>1, HandlerEffect DEF Asked, AtWork
        <3>2. hd'[j] \in {"opening", "session", "ended"}
            BY <1>0, <1>5, <2>1, <3>1, HandlerGoesOn DEF Typed
        <3> QED
            BY <3>2 DEF Asked
    <2>2. CASE k # j
        <3>1. hd'[j] = hd[j]
            BY <1>0, <1>5, <2>2, HandlerEffect DEF Typed
        <3>2. hd[j] = "awaiting" => lock[m] = j /\ j # NoLock
            BY <1>0, MasterAssumption DEF Guarded, Stream
        <3>3. hd[j] = "awaiting" => req'[m] = req[m]
            <4>1. at[k] \in Masters /\ m \in Masters
                BY <1>5, HandlerEffect
            <4>2. \/ req' = req
                  \/ lock[at[k]] = NoLock /\ req' = [req EXCEPT ![at[k]] = Append(@, want[k[1]])]
                BY <1>5, HandlerStream
            <4> QED
                BY <3>2, <4>1, <4>2 DEF Typed
        <3> QED
            BY <1>0, <3>1, <3>3 DEF Asked
    <2> QED
        BY <2>1, <2>2
<1> QED
    BY <1>0, <1>1, <1>2, <1>3, <1>4, <1>5, MasterAssumption DEF Next

\* Nothing takes a listener from the server; a new one was asked for.
LEMMA ListenersGrow ==
    ASSUME Known, Guarded, Answered, [Next]_vars, NEW m \in Masters
    PROVE  /\ srvFwd[m] \subseteq srvFwd'[m]
           /\ \A b \in srvFwd'[m] \ srvFwd[m] :
                \E k \in Locals : /\ at[k] = m /\ at'[k] = m /\ hd[k] = "awaiting" /\ lock[m] = k
                                  /\ k[2] = "ask" /\ want[k[1]] = b /\ want' = want
                                  /\ hd' = hd /\ req'[m] = <<>> /\ specs' = specs
<1> USE DEF Known
<1>1. ASSUME NEW n \in Masters, ServerAnswers(n)
      PROVE  /\ srvFwd[m] \subseteq srvFwd'[m]
             /\ \A b \in srvFwd'[m] \ srvFwd[m] :
                \E k \in Locals : /\ at[k] = m /\ at'[k] = m /\ hd[k] = "awaiting" /\ lock[m] = k
                                  /\ k[2] = "ask" /\ want[k[1]] = b /\ want' = want
                                  /\ hd' = hd /\ req'[m] = <<>> /\ specs' = specs
    <2>1. UNCHANGED <<want, at, hd, specs>>
        BY <1>1 DEF ServerAnswers, loopVars
    <2>2. PICK k \in Locals : \E ok \in BOOLEAN :
             /\ lock[n] = k /\ at[k] = n /\ hd[k] = "awaiting"
             /\ req' = [req EXCEPT ![n] = <<>>]
             /\ srvFwd' = [srvFwd EXCEPT ![n] = IF ok THEN @ \cup {want[k[1]]} ELSE @]
        BY <1>1, AnswersEffect
    <2>3. k[2] = "ask"
        BY <2>2, MasterTypes DEF Placed, Local
    <2>4. CASE n = m
        BY <2>1, <2>2, <2>3, <2>4 DEF Typed
    <2>5. CASE n # m
        BY <2>2, <2>5 DEF Typed
    <2> QED
        BY <2>4, <2>5
<1>2. (\A n \in Masters : ~ServerAnswers(n)) => srvFwd' = srvFwd
    <2>1. CASE UNCHANGED vars
        BY <2>1 DEF vars
    <2> QED
        BY <2>1, RunEffect, LoopEffect, HandlerEffect, MasterAssumption DEF Next
<1> QED
    BY <1>1, <1>2

LEMMA StepAnswered == Known /\ Guarded /\ Answered /\ [Next]_vars => Answered'
<1> USE DEF Known
<1> SUFFICES ASSUME Known, Guarded, Answered, [Next]_vars PROVE Answered'
    OBVIOUS
<1>1. ASSUME NEW m \in Masters, NEW b \in srvFwd'[m]
      PROVE  \E r \in Askers(m, b)' : Asked(r)'
    <2>1. CASE b \in srvFwd[m]
        <3>1. PICK r \in Askers(m, b) : Asked(r)
            BY <2>1 DEF Answered
        <3>2. r \in Askers(m, b)'
            BY <3>1, AskersGrow
        <3> QED
            BY <3>1, <3>2, AskedStays DEF Askers
    <2>2. CASE b \notin srvFwd[m]
        <3>1. PICK k \in Locals : /\ at'[k] = m /\ hd[k] = "awaiting" /\ hd' = hd
                                  /\ k[2] = "ask" /\ want[k[1]] = b /\ want' = want
                                  /\ req'[m] = <<>>
            BY <2>2, ListenersGrow
        <3>2. k = <<k[1], "ask">> /\ k[1] \in Slaves
            BY <3>1, MasterTypes
        <3>3. at'[<<k[1], "ask">>] = m /\ hd'[<<k[1], "ask">>] = "awaiting"
            BY <3>1, <3>2
        <3> QED
            BY <3>1, <3>2, <3>3 DEF Askers, Asked
    <2> QED
        BY <2>1, <2>2
<1>2. ASSUME NEW s \in Slaves, want'[s] # NoBind, hd'[<<s, "ask">>] \in {"opening", "session"}
      PROVE  want'[s] \in srvFwd'[at'[<<s, "ask">>]]
    <2> DEFINE j == <<s, "ask">>
    <2>1. j \in Locals /\ want' = want
        BY MasterTypes, StepAskers
    <2>2. hd'[j] = hd[j] \/ Handler(j) \/ RemoteEnds(j)
        BY <1>2, <2>1, OnlyHandler
    <2>3. at[j] \in Masters /\ at'[j] = at[j]
        <3>1. at[j] \in Masters
            BY <1>2, <2>1, <2>2, HandlerEffect DEF Placed, Local, Typed
        <3> QED
            BY <2>1, <3>1, AskersGrow
    <2>4. want[s] \in srvFwd[at[j]]
        <3>1. CASE hd[j] \in {"opening", "session"}
            BY <1>2, <2>1, <3>1 DEF Answered
        <3>2. CASE hd[j] \notin {"opening", "session"}
            <4>1. Handler(j) \/ RemoteEnds(j)
                BY <1>2, <2>2, <3>2
            <4>2. CASE hd[j] = "awaiting"
                BY <1>2, <2>1, <4>1, <4>2, HandlerGoesOn DEF Typed
            <4>3. CASE hd[j] \in {"reading", "locking"}
                BY <1>2, <2>1, <4>1, <4>3 DEF Handler, RemoteEnds, ReadRequest, ReadNothing,
                   LockAndSend, Confirmed, Denied, ReplyLost, Ready, OpenFails, RelayEnds,
                   HandlerEnds, Typed
            <4> QED
                BY <2>1, <3>2, <4>1, <4>2, <4>3, HandlerEffect DEF AtWork
        <3> QED
            BY <3>1, <3>2
    <2> QED
        BY <2>1, <2>3, <2>4, ListenersGrow
<1> QED
    BY <1>1, <1>2 DEF Answered

\* A refusal tells the run the truth: its bind is not allowed, or another run
\* has asked for it.
LEMMA DeniedMeans ==
    ASSUME Known, Guarded, NEW k \in Locals, Denied(k)
    PROVE  at[k] \in Masters /\ k = <<k[1], "ask">> /\ k[1] \in Slaves /\ Contested(at[k], k[1])
<1>1. at[k] \in Masters /\ k[1] \in Slaves /\ hd[k] = "awaiting" /\ rep[at[k]] # <<>>
      /\ ~Head(rep[at[k]])
    BY HandlerEffect DEF Known, Handler, Denied
<1>2. k = <<k[1], "ask">>
    BY <1>1, MasterTypes DEF Known, Placed, Local
<1>3. UnderWay(at[k], k)
    BY <1>1 DEF Guarded, Stream
<1>4. Contested(at[k], k[1])
    BY <1>1, <1>3, OneElement DEF UnderWay, Empty
<1> QED
    BY <1>1, <1>2, <1>4

LEMMA WordStep ==
    ASSUME Known, [Next]_vars, NEW s \in Slaves, word'[s] # word[s]
    PROVE  \E k \in Locals : /\ k[1] = s
                             /\ \/ Ready(k) /\ word'[s] = "ready"
                                \/ Denied(k) /\ word'[s] = "refused"
                                \/ word'[s] = "error"
<1> USE DEF Known
<1>1. ASSUME NEW k \in Locals, Handler(k) \/ RemoteEnds(k)
      PROVE  \E w : /\ word' = [word EXCEPT ![k[1]] = w]
                    /\ (Ready(k) /\ w = "ready") \/ (Denied(k) /\ w = "refused") \/ w = "error"
    <2>1. word' # word
        OBVIOUS
    <2>2. k[1] \in Slaves
        BY <1>1, HandlerEffect
    <2>3. \A w : Says(k, w) => word' = word \/ word' = [word EXCEPT ![k[1]] = w]
        BY <2>2 DEF Says, Typed
    <2>4. \/ word' = word
          \/ OpenFails(k) /\ Says(k, "error")
          \/ Ready(k) /\ Says(k, "ready")
          \/ Denied(k) /\ Says(k, "refused")
        BY <1>1 DEF Handler, RemoteEnds, ReadRequest, ReadNothing, LockAndSend, Confirmed,
           Denied, ReplyLost, Ready, OpenFails, RelayEnds, slaveVars
    <2> QED
        BY <2>1, <2>3, <2>4
<1>2. PICK k \in Locals : Handler(k) \/ RemoteEnds(k)
    <2>1. ~(UNCHANGED vars)
        BY DEF vars
    <2>2. \A m \in Masters : ~ServerAnswers(m)
        BY DEF ServerAnswers, slaveVars
    <2> QED
        BY <2>1, <2>2, RunEffect, LoopEffect, MasterAssumption DEF Next
<1>3. PICK w : /\ word' = [word EXCEPT ![k[1]] = w]
               /\ (Ready(k) /\ w = "ready") \/ (Denied(k) /\ w = "refused") \/ w = "error"
    BY <1>1, <1>2
<1>4. k[1] = s
    BY <1>3 DEF Typed
<1>5. word'[s] = w
    BY <1>3, <1>4 DEF Typed
<1> QED
    BY <1>3, <1>4, <1>5

\* AnswerIsOwn for one run.
Own(s) ==
    /\ word[s] = "ready" => want[s] \in srvFwd[at[<<s, "ask">>]]
    /\ word[s] = "refused" => \E m \in Masters : at[<<s, "ask">>] = m /\ Contested(m, s)

Owned == \A s \in Slaves : want[s] # NoBind => Own(s)

LEMMA OwnedAnswers == Owned => AnswerIsOwn
BY DEF Owned, Own, AnswerIsOwn, Contested

LEMMA StepOwned == Known /\ Guarded /\ Answered /\ Owned /\ [Next]_vars => Owned'
<1> SUFFICES ASSUME Known, Guarded, Answered, Owned, [Next]_vars
             PROVE  \A s \in Slaves : want'[s] # NoBind => Own(s)'
    BY DEF Owned
<1> USE DEF Known
<1> TAKE s \in Slaves
<1> HAVE want'[s] # NoBind
<1> DEFINE j == <<s, "ask">>
<1>1. want' = want /\ j \in Locals
    BY StepAskers, MasterTypes
<1>2. ASSUME word'[s] = word[s], word[s] # "none" PROVE Own(s)'
    <2>1. PICK m \in Masters : at[j] = m
        <3>1. Once(s) /\ Local(j) /\ at[j] \in Masters \cup {NoMaster}
            BY <1>1 DEF Placed, Typed
        <3> QED
            BY <1>2, <3>1 DEF Once, Local
    <2>2. at'[j] = m /\ (Contested(m, s) => Contested(m, s)')
        BY <1>1, <2>1, AskersGrow
    <2>3. srvFwd[m] \subseteq srvFwd'[m]
        BY ListenersGrow
    <2>4. Own(s)
        BY <1>1 DEF Owned
    <2> QED
        BY <1>1, <1>2, <2>1, <2>2, <2>3, <2>4 DEF Own
<1>3. ASSUME word'[s] = "none" PROVE Own(s)'
    BY <1>3 DEF Own
<1>4. ASSUME word'[s] # word[s] PROVE Own(s)'
    <2>1. PICK k \in Locals : /\ k[1] = s
                              /\ \/ Ready(k) /\ word'[s] = "ready"
                                 \/ Denied(k) /\ word'[s] = "refused"
                                 \/ word'[s] = "error"
        BY <1>4, WordStep
    <2>2. CASE Ready(k) /\ word'[s] = "ready"
        <3>1. k = j /\ hd[j] = "opening" /\ at' = at
            BY <2>1, <2>2, MasterTypes DEF Ready, Placed, Local
        <3>2. PICK m \in Masters : at[j] = m
            BY <1>1, <3>1 DEF Placed, Local, Typed
        <3>3. want[s] \in srvFwd[m]
            BY <1>1, <3>1, <3>2 DEF Answered
        <3>4. srvFwd[m] \subseteq srvFwd'[m]
            BY ListenersGrow
        <3> QED
            BY <1>1, <2>2, <3>1, <3>2, <3>3, <3>4 DEF Own
    <2>3. CASE Denied(k) /\ word'[s] = "refused"
        <3>1. at[j] \in Masters /\ Contested(at[j], s) /\ at' = at
            BY <2>1, <2>3, DeniedMeans DEF Denied
        <3>2. PICK m \in Masters : at[j] = m /\ Contested(m, s)
            BY <3>1
        <3>3. Contested(m, s)'
            BY <3>2, AskersGrow
        <3> QED
            BY <2>3, <3>1, <3>2, <3>3 DEF Own
    <2>4. CASE word'[s] = "error"
        BY <2>4 DEF Own
    <2> QED
        BY <2>1, <2>2, <2>3, <2>4
<1> QED
    BY <1>2, <1>3, <1>4

LEMMA StreamInvariant == Spec => [](Known /\ Guarded /\ Answered /\ Owned)
<1>1. Init => Known /\ Guarded /\ Answered /\ Owned
    <2>1. Init => Owned
        BY DEF Init, Owned, Own
    <2> QED
        BY <2>1, InitTyped, InitPlaced, InitCounted, InitGuarded DEF Known
<1>2. Known /\ Guarded /\ Answered /\ Owned /\ [Next]_vars
          => (Known /\ Guarded /\ Answered /\ Owned)'
    <2>1. Known /\ [Next]_vars => Known'
        BY StepTyped, StepPlaced, StepCounted DEF Known
    <2> QED
        BY <2>1, StepGuarded, StepAnswered, StepOwned
<1> QED
    BY <1>1, <1>2, PTL DEF Spec

\* AnswerIsOwn: the replies on the control stream carry no name, and yet, since
\* handle_master_client holds the mutex from its request to the reply, each run
\* is told what became of its own forward.
THEOREM AnswersAreOwn == Spec => []AnswerIsOwn
BY StreamInvariant, OwnedAnswers, PTL

(***************************************************************************)
(* The entries that route the streams of a forward.                        *)
(***************************************************************************)
\* Every entry is that of a run that asked; a run that alone asks for a bind
\* has its entry before its request leaves, and while the server listens.
Routed ==
    \A m \in Masters :
        /\ \A f \in specs[m] : at[<<f[2], "ask">>] = m /\ want[f[2]] = f[1]
        /\ \A s \in Slaves :
             /\ ms[m] # "over" /\ want[s] # NoBind /\ Askers(m, want[s]) = {s}
             /\ hd[<<s, "ask">>] \in {"locking", "awaiting"} \/ want[s] \in srvFwd[m]
             => <<want[s], s>> \in specs[m]

\* Every step: what becomes of the entries of m.
LEMMA SpecsStep ==
    ASSUME Known, [Next]_vars, NEW m \in Masters
    PROVE  \/ specs'[m] = specs[m]
           \/ specs'[m] = {} /\ ms'[m] = "over"
           \/ \E k \in Locals : at[k] = m /\ ReadRequest(k) /\ specs'[m] = Registered(m, k[1])
           \/ \E k \in Locals : /\ at[k] = m /\ Denied(k)
                                /\ specs'[m] = {f \in specs[m] : f[1] # want[k[1]]}
<1> USE DEF Known
<1>1. CASE UNCHANGED vars
    BY <1>1 DEF vars
<1>2. ASSUME NEW n \in Masters, ServerAnswers(n) PROVE specs' = specs
    BY <1>2 DEF ServerAnswers
<1>3. ASSUME NEW n \in Masters, Loop(n) \/ Crash(n) \/ ConnLost(n)
      PROVE  specs'[m] = specs[m] \/ (specs'[m] = {} /\ ms'[m] = "over")
    <2>1. \/ specs' = specs
          \/ specs' = [specs EXCEPT ![n] = {}] /\ ms' = [ms EXCEPT ![n] = "over"]
        BY <1>3, LoopEffect DEF ProcessEnds
    <2> QED
        BY <2>1 DEF Typed
<1>4. ASSUME NEW s \in Slaves, Run(s) \/ UserEnds(s) PROVE specs' = specs
    BY <1>4, RunEffect
<1>5. ASSUME NEW k \in Locals, Handler(k) \/ RemoteEnds(k)
      PROVE  \/ specs'[m] = specs[m]
             \/ at[k] = m /\ ReadRequest(k) /\ specs'[m] = Registered(m, k[1])
             \/ /\ at[k] = m /\ Denied(k)
                /\ specs'[m] = {f \in specs[m] : f[1] # want[k[1]]}
    <2>1. \/ specs' = specs
          \/ ReadRequest(k) /\ specs' = [specs EXCEPT ![at[k]] = Registered(at[k], k[1])]
          \/ Denied(k) /\ specs' = [specs EXCEPT ![at[k]] = {f \in @ : f[1] # want[k[1]]}]
        BY <1>5 DEF Handler, RemoteEnds, ReadRequest, ReadNothing, LockAndSend, Confirmed,
           Denied, ReplyLost, Ready, OpenFails, RelayEnds, ctlVars
    <2>2. at[k] \in Masters
        BY <1>5, HandlerEffect
    <2> QED
        BY <2>1, <2>2 DEF Typed
<1> QED
    BY <1>1, <1>2, <1>3, <1>4, <1>5, MasterAssumption DEF Next

LEMMA OverStays ==
    ASSUME Known, [Next]_vars, NEW m \in Masters, ms[m] = "over"
    PROVE  ms'[m] = "over"
<1> USE DEF Known
<1>1. CASE UNCHANGED vars
    BY <1>1 DEF vars
<1>2. ASSUME NEW n \in Masters, ServerAnswers(n) PROVE ms' = ms
    BY <1>2 DEF ServerAnswers, loopVars
<1>3. ASSUME NEW n \in Masters, Loop(n) \/ Crash(n) \/ ConnLost(n) PROVE ms'[m] = "over"
    <2>1. \/ ms' = ms \/ ms' = [ms EXCEPT ![n] = "over"]
          \/ ms[n] # "over" /\ \E l : ms' = [ms EXCEPT ![n] = l]
        BY <1>3, LoopEffect DEF ProcessEnds
    <2> QED
        BY <2>1 DEF Typed
<1>4. ASSUME NEW s \in Slaves, Run(s) \/ UserEnds(s) PROVE ms'[m] = "over"
    BY <1>4, RunEffect DEF Typed
<1>5. ASSUME NEW k \in Locals, Handler(k) \/ RemoteEnds(k) PROVE ms' = ms
    BY <1>5, HandlerEffect
<1> QED
    BY <1>1, <1>2, <1>3, <1>4, <1>5, MasterAssumption DEF Next

LEMMA StepRouted == Known /\ Guarded /\ Answered /\ Routed /\ [Next]_vars => Routed'
<1> USE DEF Known
<1> SUFFICES ASSUME Known, Guarded, Answered, Routed, [Next]_vars, NEW m \in Masters
             PROVE  /\ \A f \in specs'[m] : at'[<<f[2], "ask">>] = m /\ want'[f[2]] = f[1]
                    /\ \A s \in Slaves :
                         /\ ms'[m] # "over" /\ want'[s] # NoBind /\ Askers(m, want[s])' = {s}
                         /\ hd'[<<s, "ask">>] \in {"locking", "awaiting"} \/ want'[s] \in srvFwd'[m]
                         => <<want'[s], s>> \in specs'[m]
    BY StepAskers DEF Routed
<1>1. want' = want /\ specs[m] \subseteq Binds \X Slaves
    BY StepAskers DEF Typed
<1>2. ASSUME NEW f \in specs'[m]
      PROVE  at'[<<f[2], "ask">>] = m /\ want'[f[2]] = f[1]
    <2>1. CASE f \in specs[m]
        <3>1. <<f[2], "ask">> \in Locals /\ at[<<f[2], "ask">>] = m /\ want[f[2]] = f[1]
            BY <1>1, <2>1, MasterTypes DEF Routed
        <3> QED
            BY <1>1, <3>1, AskersGrow
    <2>2. CASE f \notin specs[m]
        <3>1. PICK k \in Locals : at[k] = m /\ ReadRequest(k) /\ specs'[m] = Registered(m, k[1])
            BY <1>2, <2>2, SpecsStep
        <3>2. f = <<want[k[1]], k[1]>>
            BY <2>2, <3>1 DEF Registered
        <3>3. k = <<k[1], "ask">> /\ at' = at
            BY <3>1, MasterTypes DEF ReadRequest
        <3> QED
            BY <1>1, <3>1, <3>2, <3>3
    <2> QED
        BY <2>1, <2>2
<1>3. ASSUME NEW s \in Slaves, ms'[m] # "over", want[s] # NoBind, Askers(m, want[s])' = {s},
             hd'[<<s, "ask">>] \in {"locking", "awaiting"} \/ want[s] \in srvFwd'[m]
      PROVE  <<want[s], s>> \in specs'[m]
    <2> DEFINE j == <<s, "ask">>
               b == want[s]
    <2>1. j \in Locals /\ at'[j] = m /\ ms[m] # "over" /\ Askers(m, b) \subseteq {s}
        <3>1. ms[m] # "over" /\ Askers(m, b) \subseteq Askers(m, b)'
            BY <1>1, <1>3, OverStays, AskersGrow
        <3>2. s \in Askers(m, b)'
            BY <1>3
        <3> QED
            BY <1>3, <3>1, <3>2, MasterTypes DEF Askers
    <2>2. at[j] = m
        <3> SUFFICES ASSUME at[j] # m PROVE FALSE
            OBVIOUS
        <3>1. (\E i \in Locals : Connecting(i)) /\ srvFwd' = srvFwd
            BY <2>1, StepAskers
        <3>2. hd'[j] = "backlog"
            BY <2>1, <3>1 DEF Connecting, Typed
        <3>3. PICK r \in Askers(m, b) : Asked(r)
            BY <1>3, <3>1, <3>2 DEF Answered
        <3>4. r = s
            BY <2>1, <3>3
        <3> QED
            BY <3>3, <3>4 DEF Askers
    <2>3. Askers(m, b) = {s}
        BY <2>1, <2>2 DEF Askers
    <2>4. \A k \in Locals : k[2] = "ask" /\ at[k] = m /\ want[k[1]] = b => k = j
        <3> TAKE k \in Locals
        <3> HAVE k[2] = "ask" /\ at[k] = m /\ want[k[1]] = b
        <3>1. k = <<k[1], "ask">> /\ k[1] \in Slaves
            BY MasterTypes
        <3>2. at[<<k[1], "ask">>] = m
            BY <3>1
        <3>3. k[1] \in Askers(m, b)
            BY <3>1, <3>2 DEF Askers
        <3> QED
            BY <2>3, <3>1, <3>3
    <2>5. CASE ReadRequest(j)
        <3>1. specs' = [specs EXCEPT ![m] = Registered(m, s)]
            BY <1>3, <2>2, <2>5 DEF ReadRequest
        <3>2. specs'[m] = Registered(m, s)
            BY <3>1 DEF Typed
        <3>3. ASSUME NEW f \in specs[m], f[1] = b PROVE f = <<b, s>>
            <4>1. f[2] \in Slaves /\ f = <<f[1], f[2]>> /\ at[<<f[2], "ask">>] = m /\ want[f[2]] = b
                BY <1>1, <3>3 DEF Routed
            <4>2. f[2] \in Askers(m, b)
                BY <4>1 DEF Askers
            <4> QED
                BY <2>3, <3>3, <4>1, <4>2
        <3> QED
            BY <3>2, <3>3 DEF Registered
    <2>6. CASE ~ReadRequest(j)
        <3>1. hd[j] \in {"locking", "awaiting"} \/ b \in srvFwd[m]
            <4>1. CASE hd'[j] \in {"locking", "awaiting"}
                <5>1. CASE hd'[j] = hd[j]
                    BY <4>1, <5>1
                <5>2. CASE hd'[j] # hd[j] /\ (Handler(j) \/ RemoteEnds(j))
                    BY <2>1, <2>6, <4>1, <5>2 DEF Handler, RemoteEnds, ReadNothing,
                       LockAndSend, Confirmed, Denied, ReplyLost, Ready, OpenFails, RelayEnds,
                       HandlerEnds, Typed
                <5> QED
                    BY <2>1, <4>1, <5>1, <5>2, OnlyHandler
            <4>2. CASE b \in srvFwd'[m] \ srvFwd[m]
                <5>1. PICK k \in Locals : /\ at[k] = m /\ hd[k] = "awaiting"
                                          /\ k[2] = "ask" /\ want[k[1]] = b
                    BY <4>2, ListenersGrow
                <5> QED
                    BY <2>4, <5>1
            <4> QED
                BY <1>3, <4>1, <4>2
        <3>2. <<b, s>> \in specs[m]
            BY <1>3, <2>1, <2>3, <3>1 DEF Routed
        <3>3. ASSUME NEW k \in Locals, at[k] = m, Denied(k), want[k[1]] = b PROVE FALSE
            <4>1. k = <<k[1], "ask">> /\ Contested(m, k[1])
                BY <3>3, DeniedMeans
            <4>2. k[2] = "ask"
                BY <4>1
            <4>3. k = j /\ k[1] = s
                BY <2>4, <3>3, <4>2
            <4>4. b \notin Allowed
                BY <2>3, <4>1, <4>3 DEF Contested
            <4>5. srvFwd' = srvFwd /\ hd'[j] = "ended"
                BY <2>1, <3>3, <4>3 DEF Denied, HandlerEnds, Typed
            <4> QED
                BY <1>3, <4>4, <4>5 DEF Typed
        <3> QED
            BY <1>3, <3>2, <3>3, SpecsStep DEF Registered
    <2> QED
        BY <2>5, <2>6
<1> QED
    BY <1>1, <1>2, <1>3

\* ForwardRouted: however the handlers of a master interleave on the shared
\* list, the server opens no stream for a forward that only one run has asked
\* for and that has no entry.
THEOREM ForwardsRouted == Spec => []ForwardRouted
<1>1. Init => Routed
    BY MasterTypes DEF Init, Routed
<1>2. Known /\ Guarded /\ Answered /\ Routed /\ [Next]_vars => Routed'
    BY StepRouted
<1>3. Known /\ Routed => ForwardRouted
    <2> SUFFICES ASSUME Known, Routed, NEW m \in Masters, ms[m] # "over", NEW b \in srvFwd[m],
                        NEW s \in Slaves, Askers(m, b) = {s}
                 PROVE  <<b, s>> \in specs[m]
        BY DEF ForwardRouted
    <2>1. want[s] = b
        BY DEF Askers
    <2>2. b # NoBind
        BY MasterAssumption DEF Known, Typed
    <2> QED
        BY <2>1, <2>2 DEF Routed
<1> QED
    BY <1>1, <1>2, <1>3, StreamInvariant, PTL DEF Spec
=============================================================================
