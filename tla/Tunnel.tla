------------------------------- MODULE Tunnel -------------------------------
(***************************************************************************)
(* One forwarded TCP connection: an application at the near end, whose     *)
(* connection a listener accepted, an application at the far end, and      *)
(* between them two pumps and a QUIC stream. In a local forward (-L) the   *)
(* near pump is sqsh's (run_local_listener) and the far one sqshd's        *)
(* (handle_direct_tcpip); in a remote forward (-R) they are sqshd's        *)
(* (run_remote_forward) and sqsh's (handle_remote_forward_stream). The     *)
(* two pump() functions are the same code.                                 *)
(*                                                                         *)
(* Data is counted in chunks, one frame each. A pump is one task whose     *)
(* select! waits for the socket and for the stream; while it sends what it *)
(* read (pc "send") or writes what it received (pc "write") it does        *)
(* neither. A frame is sent by two writes and read by two awaits           *)
(* (read_message): the other branch of the select! may win while its head  *)
(* has been consumed. The pump has then lost that frame and the boundaries *)
(* of those that follow.                                                   *)
(***************************************************************************)
EXTENDS Naturals, Sequences

CONSTANTS
    Kinds,     \* the kinds of forward, a subset of {"L", "R"}
    Forwards,  \* the remote forwards: a sequence of [addr, port] records
    Traffic,   \* how many chunks each application may write: a set of alternatives
    NetCap,    \* how many frames of data the stream holds in one direction
    BufCap,    \* how many chunks the socket buffers hold in one direction
    Failing    \* whether connects may fail and the connection may be lost

Ends == {"near", "far"}
Other(e) == IF e = "near" THEN "far" ELSE "near"

ASSUME TunnelAssumption ==
    /\ Kinds \subseteq {"L", "R"}
    /\ Forwards \in Seq([addr : STRING, port : Nat]) /\ Forwards # <<>>
    /\ Traffic \subseteq [Ends -> Nat]
    /\ NetCap \in Nat \ {0} /\ BufCap \in Nat \ {0}
    /\ Failing \in BOOLEAN

VARIABLES
    traffic, \* the element of Traffic that happens
    kind,    \* the kind of this forward
    at,      \* the forward whose listener accepted (1 for a local forward)
    dialed,  \* the forward whose target the far end is connected to, or 0
    reply,   \* the far end's answer to Open
    link,    \* whether the QUIC connection is up
    pc,      \* pc[e]: where the task of end e is
    tin,     \* tin[e]: chunks between application e and its pump
    tout,    \* tout[e]: chunks between pump e and its application
    net,     \* net[e]: frames of data that pump e sent, not yet received
    eof,     \* eof[e]: pump e sent Eof
    mid,     \* mid[e]: pump e has consumed the head of a frame
    lost,    \* lost[e]: frames that pump e consumed and did not receive
    sent, got, shut, told,  \* as in Relay
    deaf     \* deaf[e]: application e closed its socket altogether

setup == <<traffic, kind, at, dialed, reply>>
app == <<sent, got, shut, told, deaf>>
bufs == <<tin, tout, net, eof, mid, lost>>
vars == <<setup, link, pc, bufs, app>>

Each(v) == [e \in Ends |-> v]

Init ==
    /\ traffic \in Traffic
    /\ kind \in Kinds
    /\ at \in IF kind = "R" THEN DOMAIN Forwards ELSE {1}
    /\ dialed = 0 /\ reply = "none" /\ link = TRUE
    /\ pc = [near |-> "accepted", far |-> "idle"]
    /\ tin = Each(0) /\ tout = Each(0) /\ net = Each(0)
    /\ eof = Each(FALSE) /\ mid = Each(FALSE) /\ lost = Each(0)
    /\ sent = Each(0) /\ got = Each(0) /\ shut = Each(FALSE)
    /\ told = Each(FALSE) /\ deaf = Each(FALSE)

Pumping(e) == pc[e] \in {"select", "send", "write", "closing"}

\* Pump e has lost the boundaries of the frames on its stream.
Misaligned(e) == lost[e] > 0

\* Whether application e has a connection to its pump's program.
Connected(e) == IF e = "near" THEN pc[e] # "ended" ELSE Pumping(e)

Goto(e, l) == pc' = [pc EXCEPT ![e] = l]

(***************************************************************************)
(* A task that returns drops both halves of its socket and of its stream.  *)
(* The kernel resets a socket that is closed before everything was read    *)
(* from it, and what it still had to deliver may be lost. The stream is    *)
(* finished: what was sent on it can still be received.                    *)
(***************************************************************************)
Ends_(e) ==
    /\ Goto(e, "ended")
    /\ tin' = [tin EXCEPT ![e] = 0]
    /\ \E n \in IF tin[e] > 0 THEN 0 .. tout[e] ELSE {tout[e]} :
           tout' = [tout EXCEPT ![e] = n]
    /\ mid' = [mid EXCEPT ![e] = FALSE]

(***************************************************************************)
(* Opening the channel.                                                    *)
(***************************************************************************)

\* The listener accepted: open_bi and Open.
OpenChannel ==
    /\ pc["near"] = "accepted" /\ link
    /\ Goto("near", "asking")
    /\ UNCHANGED <<setup, link, bufs, app>>

\* The dispatcher of sqshd confirms a direct-tcpip channel before it
\* connects, or refuses a target that is not allowed.
Dispatch ==
    /\ kind = "L" /\ pc["near"] = "asking" /\ pc["far"] = "idle" /\ link
    /\ \/ reply' = "yes" /\ Goto("far", "connecting")
       \/ Failing /\ reply' = "no" /\ Goto("far", "ended")
    /\ UNCHANGED <<traffic, kind, at, dialed, link, bufs, app>>

\* Faulty variant: looked up by the address instead of the port.
SpecForAddress(listed) ==
    LET found == {i \in listed : Forwards[i].addr = Forwards[at].addr} IN
    IF found = {} THEN 0 ELSE CHOOSE i \in found : \A j \in found : i <= j

\* The entries of the client's forwards that match the bound port; the
\* client dials the target of the first. SpecFor is 0 if there is none.
SpecFor(listed) ==
    LET found == {i \in listed : Forwards[i].port = Forwards[at].port} IN
    IF found = {} THEN 0 ELSE CHOOSE i \in found : \A j \in found : i <= j

\* sqsh looks the forward up among those it has at that time (listed): a
\* forward of another client of the master may have been removed.
Route ==
    /\ kind = "R" /\ pc["near"] = "asking" /\ pc["far"] = "idle" /\ link
    /\ \E listed \in SUBSET DOMAIN Forwards :
           /\ dialed' = SpecFor(listed)
           /\ IF SpecFor(listed) = 0
              THEN reply' = "no" /\ Goto("far", "ended")
              ELSE reply' = reply /\ Goto("far", "connecting")
    /\ UNCHANGED <<traffic, kind, at, link, bufs, app>>

\* TcpStream::connect to the target. Only then does sqsh confirm.
Connect ==
    /\ pc["far"] = "connecting"
    /\ \/ /\ Goto("far", "select") /\ (kind = "L" \/ link)
          /\ dialed' = IF kind = "L" THEN at ELSE dialed
          /\ reply' = "yes"
       \/ /\ Failing /\ Goto("far", "ended")
          /\ dialed' = 0 /\ UNCHANGED reply
    /\ UNCHANGED <<traffic, kind, at, link, bufs, app>>

\* The near end reads the answer, or the end of the stream.
Answered ==
    /\ pc["near"] = "asking" /\ reply = "yes"
    /\ Goto("near", "select")
    /\ UNCHANGED <<setup, link, bufs, app>>

NotOpened ==
    /\ \/ pc["near"] \in {"accepted", "asking"} /\ ~link
       \/ pc["near"] = "asking" /\ reply # "yes" /\ pc["far"] = "ended"
    /\ Ends_("near")
    /\ UNCHANGED <<setup, link, net, eof, lost, app>>

(***************************************************************************)
(* The pump: the branch of the socket.                                     *)
(***************************************************************************)

\* The branch of the socket wins. The future that read a frame is dropped,
\* with the part of the frame that it had consumed.
ReadTcp(e) ==
    /\ pc[e] = "select" /\ tin[e] > 0
    /\ tin' = [tin EXCEPT ![e] = @ - 1]
    /\ Goto(e, "send")
    /\ IF mid[e]
       THEN /\ net' = [net EXCEPT ![Other(e)] = @ - 1]
            /\ lost' = [lost EXCEPT ![e] = @ + 1]
            /\ mid' = [mid EXCEPT ![e] = FALSE]
       ELSE UNCHANGED <<net, lost, mid>>
    /\ UNCHANGED <<setup, link, tout, eof, app>>

\* Faulty variant: the close is acted on before the data that precedes it.
ReadTcpEndEarly(e) ==
    /\ pc[e] = "select" /\ shut[e]
    /\ Goto(e, "closing")
    /\ UNCHANGED <<setup, link, bufs, app>>

\* Ok(0) or an error: Eof is sent, as soon as the stream has room for it.
ReadTcpEnd(e) ==
    /\ pc[e] = "select" /\ tin[e] = 0 /\ shut[e]
    /\ Goto(e, "closing")
    /\ UNCHANGED <<setup, link, bufs, app>>

\* The result of sending Eof is ignored; the pump ends in both directions.
SendEof(e) ==
    /\ pc[e] = "closing"
    /\ \/ link /\ net[e] < NetCap /\ eof' = [eof EXCEPT ![e] = TRUE]
       \/ (~link \/ pc[Other(e)] = "ended") /\ UNCHANGED eof
    /\ Ends_(e)
    /\ UNCHANGED <<setup, link, net, lost, app>>

\* Faulty variant: a chunk that meets a full stream is given up.
SendDataOrDrop(e) ==
    /\ pc[e] = "send" /\ link
    /\ net' = [net EXCEPT ![e] = IF @ < NetCap THEN @ + 1 ELSE @]
    /\ Goto(e, "select")
    /\ UNCHANGED <<setup, link, tin, tout, eof, mid, lost, app>>

\* Faulty variant: a full stream takes one more.
SendDataUnbounded(e) ==
    /\ pc[e] = "send" /\ link
    /\ net' = [net EXCEPT ![e] = @ + 1]
    /\ Goto(e, "select")
    /\ UNCHANGED <<setup, link, tin, tout, eof, mid, lost, app>>

SendData(e) ==
    /\ pc[e] = "send" /\ link /\ net[e] < NetCap
    /\ net' = [net EXCEPT ![e] = @ + 1]
    /\ Goto(e, "select")
    /\ UNCHANGED <<setup, link, tin, tout, eof, mid, lost, app>>

\* The peer stopped the stream (it dropped its receiver), or the connection
\* is lost: pump returns the error.
SendFails(e) ==
    /\ pc[e] = "send" /\ (~link \/ pc[Other(e)] = "ended")
    /\ Ends_(e)
    /\ UNCHANGED <<setup, link, net, eof, lost, app>>

(***************************************************************************)
(* The pump: the branch of the stream.                                     *)
(***************************************************************************)

\* The length has arrived and is consumed; the payload may not have arrived.
RecvHead(e) ==
    /\ pc[e] = "select" /\ net[Other(e)] > 0 /\ ~mid[e] /\ ~Misaligned(e)
    /\ mid' = [mid EXCEPT ![e] = TRUE]
    /\ UNCHANGED <<setup, link, pc, tin, tout, net, eof, lost, app>>

RecvData(e) ==
    /\ pc[e] = "select" /\ net[Other(e)] > 0 /\ mid[e]
    /\ net' = [net EXCEPT ![Other(e)] = @ - 1]
    /\ mid' = [mid EXCEPT ![e] = FALSE]
    /\ Goto(e, "write")
    /\ UNCHANGED <<setup, link, tin, tout, eof, lost, app>>

\* Bytes of a payload were read as a length: what follows is swallowed, while
\* the pump waits for that many bytes.
Swallow(e) ==
    /\ pc[e] = "select" /\ net[Other(e)] > 0 /\ Misaligned(e)
    /\ net' = [net EXCEPT ![Other(e)] = @ - 1]
    /\ lost' = [lost EXCEPT ![e] = @ + 1]
    /\ UNCHANGED <<setup, link, pc, tin, tout, eof, mid, app>>

\* Or the length is too large, or the bytes do not decode.
Misread(e) ==
    /\ pc[e] = "select" /\ Misaligned(e)
    /\ Ends_(e)
    /\ UNCHANGED <<setup, link, net, eof, lost, app>>

\* Faulty variant: an idle stream is taken for one that ended.
RecvEndIdle(e) ==
    /\ pc[e] = "select" /\ net[Other(e)] = 0
    /\ Ends_(e)
    /\ UNCHANGED <<setup, link, net, eof, lost, app>>

\* Faulty variant: an error of the stream is not taken for its end.
RecvEndOnEof(e) ==
    /\ pc[e] = "select" /\ net[Other(e)] = 0 /\ eof[Other(e)]
    /\ Ends_(e)
    /\ UNCHANGED <<setup, link, net, eof, lost, app>>

\* Eof, the end of the stream, or an error. (An Eof that is cut is followed
\* by the end of the stream.)
RecvEnd(e) ==
    /\ pc[e] = "select" /\ net[Other(e)] = 0
    /\ eof[Other(e)] \/ pc[Other(e)] = "ended" \/ ~link
    /\ Ends_(e)
    /\ UNCHANGED <<setup, link, net, eof, lost, app>>

WriteTcp(e) ==
    /\ pc[e] = "write" /\ ~deaf[e] /\ tout[e] < BufCap
    /\ tout' = [tout EXCEPT ![e] = @ + 1]
    /\ Goto(e, "select")
    /\ UNCHANGED <<setup, link, tin, net, eof, mid, lost, app>>

\* The socket's application left: the kernel takes the data and throws it
\* away, or write_all fails.
WriteGone(e) ==
    /\ pc[e] = "write" /\ deaf[e]
    /\ \/ Goto(e, "select") /\ UNCHANGED <<tin, tout, mid>>
       \/ Ends_(e)
    /\ UNCHANGED <<setup, link, net, eof, lost, app>>

(***************************************************************************)
(* The applications and the network.                                       *)
(***************************************************************************)

AppWrites(e) ==
    /\ Connected(e) /\ ~shut[e] /\ sent[e] < traffic[e] /\ tin[e] < BufCap
    /\ sent' = [sent EXCEPT ![e] = @ + 1]
    /\ tin' = [tin EXCEPT ![e] = @ + 1]
    /\ UNCHANGED <<setup, link, pc, tout, net, eof, mid, lost>>
    /\ UNCHANGED <<got, shut, told, deaf>>

AppReads(e) ==
    /\ tout[e] > 0 /\ ~deaf[e]
    /\ tout' = [tout EXCEPT ![e] = @ - 1]
    /\ got' = [got EXCEPT ![e] = @ + 1]
    /\ UNCHANGED <<setup, link, pc, tin, net, eof, mid, lost>>
    /\ UNCHANGED <<sent, shut, told, deaf>>

\* The application has read everything, and is at the end of its input.
AppSeesEnd(e) ==
    /\ pc[e] = "ended" /\ tout[e] = 0 /\ ~told[e]
    /\ told' = [told EXCEPT ![e] = TRUE]
    /\ UNCHANGED <<setup, link, pc, bufs, sent, got, shut, deaf>>

\* shutdown(SHUT_WR): nothing more to write, still reading.
AppShuts(e) ==
    /\ Connected(e) /\ ~shut[e]
    /\ shut' = [shut EXCEPT ![e] = TRUE]
    /\ UNCHANGED <<setup, link, pc, bufs, sent, got, told, deaf>>

\* close(), or the death of the application. A reset may overtake its data.
AppLeaves(e) ==
    /\ Connected(e) /\ ~deaf[e]
    /\ shut' = [shut EXCEPT ![e] = TRUE]
    /\ deaf' = [deaf EXCEPT ![e] = TRUE]
    /\ \E n \in IF tout[e] > 0 THEN 0 .. tin[e] ELSE {tin[e]} :
           tin' = [tin EXCEPT ![e] = n]
    /\ tout' = [tout EXCEPT ![e] = 0]
    /\ UNCHANGED <<setup, link, pc, net, eof, mid, lost>>
    /\ UNCHANGED <<sent, got, told>>

\* The QUIC connection is lost, with any part of what was under way.
LinkLost ==
    /\ Failing /\ link
    /\ link' = FALSE
    /\ \E n \in [Ends -> 0 .. NetCap] :
           /\ \A e \in Ends : n[e] <= net[e]
           /\ net' = n
           /\ mid' = [e \in Ends |-> mid[e] /\ n[Other(e)] > 0]
    /\ UNCHANGED <<traffic, kind, at, dialed, reply, pc, tin, tout, eof, lost, app>>

Pump(e) ==
    \/ ReadTcp(e) \/ ReadTcpEnd(e) \/ SendEof(e) \/ SendData(e) \/ SendFails(e)
    \/ RecvHead(e) \/ RecvData(e) \/ Swallow(e) \/ RecvEnd(e) \/ WriteTcp(e) \/ WriteGone(e)

Opening == OpenChannel \/ Dispatch \/ Route \/ Connect \/ Answered \/ NotOpened

App(e) ==
    \/ AppWrites(e) \/ AppReads(e) \/ AppSeesEnd(e) \/ AppShuts(e) \/ AppLeaves(e)

Next ==
    \/ Opening
    \/ \E e \in Ends : Pump(e) \/ Misread(e) \/ App(e)
    \/ LinkLost

Spec == Init /\ [][Next]_vars

(***************************************************************************)
(* Every task that can run does, and every application reads what reaches  *)
(* it. No application has to write, to close or to leave, and no pump that *)
(* misreads its stream has to find out.                                    *)
(***************************************************************************)
Fairness ==
    /\ WF_vars(Opening)
    /\ \A e \in Ends : WF_vars(Pump(e)) /\ WF_vars(AppReads(e)) /\ WF_vars(AppSeesEnd(e))

FairSpec == Spec /\ Fairness

-----------------------------------------------------------------------------
TypeOK ==
    /\ traffic \in Traffic /\ kind \in Kinds /\ at \in DOMAIN Forwards
    /\ dialed \in {0} \cup DOMAIN Forwards
    /\ reply \in {"none", "yes", "no"} /\ link \in BOOLEAN
    /\ pc \in [Ends -> {"accepted", "asking", "idle", "connecting", "select",
                        "send", "write", "closing", "ended"}]
    /\ tin \in [Ends -> 0 .. BufCap] /\ tout \in [Ends -> 0 .. BufCap]
    /\ net \in [Ends -> 0 .. NetCap]
    /\ eof \in [Ends -> BOOLEAN] /\ mid \in [Ends -> BOOLEAN] /\ lost \in [Ends -> Nat]
    /\ sent \in [Ends -> Nat] /\ got \in [Ends -> Nat]
    /\ shut \in [Ends -> BOOLEAN] /\ told \in [Ends -> BOOLEAN] /\ deaf \in [Ends -> BOOLEAN]

\* What is under way from application e to the other one: in the socket, in
\* the sending pump, on the stream, in the receiving pump, in its socket.
Holds(e, l) == IF pc[e] = l THEN 1 ELSE 0
Underway(e) ==
    tin[e] + Holds(e, "send") + net[e] + Holds(Other(e), "write") + tout[Other(e)]

\* While both pumps run over a connection that is up, between applications
\* that have not left, every chunk that was written is under way, or has been
\* read, or was lost with its frame: no pump drops or doubles one when it
\* meets a full buffer on the other side (pump, forward.rs). And a pump loses
\* frames only where its own application wrote too.
NothingLost ==
    (link /\ ~deaf["near"] /\ ~deaf["far"] /\ \A e \in Ends : pc[e] # "ended")
        => \A e \in Ends :
               /\ sent[e] = Underway(e) + got[Other(e)] + lost[Other(e)]
               /\ sent[e] = 0 => lost[e] = 0

\* The connection failed, or its opening did.
Failed == ~link \/ (pc["far"] = "ended" /\ dialed = 0)

\* A pump dropped a frame that it had half read (which RelaysUntilClose is
\* about).
Cut == \E e \in Ends : Misaligned(e)

\* The tunnel keeps what a forwarded connection promises, until it fails or a
\* frame is cut; and even then no application gets more than the other one
\* wrote, or anything after it was told of the end.
R == INSTANCE Relay WITH failed <- Failed \/ Cut
RelaySpec == R!Spec

\* "relays data until either side closes" (docs/server.md): no pump ends
\* while both applications keep their connections and nothing failed.
RelaysUntilClose ==
    (\E e \in Ends : pc[e] = "ended") => (Failed \/ \E e \in Ends : shut[e])

\* A connection is relayed to the target of the forward it came in on, as
\* long as no other forward has its port: the client finds a forward by the
\* port alone (handle_remote_forward_stream).
RoutedToItsTarget ==
    (Pumping("far") /\ \A i \in DOMAIN Forwards : Forwards[i].port = Forwards[at].port => i = at)
        => dialed = at

\* What the side that closes first wrote reaches the other side, if that one
\* only listens: an Eof does not overtake data. (When the other side writes
\* too, its pump may find its stream stopped and end with data unread.)
UploadArrives ==
    \A e \in Ends :
        (shut[e] /\ sent[Other(e)] = 0) ~>
            (got[Other(e)] = sent[e] \/ sent[Other(e)] > 0 \/ shut[Other(e)] \/ Failed)

\* When an application closes its side or one pump ends, both pumps end and
\* the applications are told: no half-open relay is left. (A far end that was
\* never asked has none.)
RelayEnds ==
    \A e \in Ends :
        (shut[e] \/ pc[e] = "ended") ~>
            \A x \in Ends : pc[x] = "idle" \/ (pc[x] = "ended" /\ told[x])
=============================================================================
