--------------------------- MODULE Tunnel_proofs ---------------------------
(***************************************************************************)
(* Theorems about a forwarded connection, for buffers and streams of every *)
(* size, any amount of traffic and any forwards.                           *)
(*                                                                         *)
(* That a connection reaches the right target holds of all traffic: what   *)
(* the far end dials has the port of the forward that accepted (Routed).   *)
(*                                                                         *)
(* A frame that a pump has half read when its socket becomes readable is   *)
(* lost, and the account of what was written has to include it. Under the  *)
(* invariant every chunk is accounted for, and a pump that lost frames has *)
(* an application that wrote (Accounted); a pump ends only if an           *)
(* application closed its side, something failed or a frame was cut        *)
(* (Reasons). No theorem restricts the traffic.                            *)
(***************************************************************************)
EXTENDS Tunnel, WellFoundedInduction, TLAPS

Undisturbed == link /\ \A e \in Ends : ~deaf[e] /\ pc[e] # "ended"

\* What x has written, and what y is to read of it.
Flow(x, y) ==
    LET seen == tin[x] + Holds(x, "send") + net[x] + Holds(y, "write") + tout[y] + got[y] + lost[y] IN
        /\ seen <= sent[x]
        /\ lost[x] > 0 => sent[x] > 0
        /\ Undisturbed => seen = sent[x]

Accounted == \A e \in Ends : Flow(e, Other(e))

\* A frame whose head was consumed is still on the stream, and is the next
\* one, if none was lost.
Headed == \A e \in Ends : mid[e] => net[Other(e)] > 0 /\ lost[e] = 0

\* The far end of a remote forward dials the target of a forward that has the
\* port of the one that accepted.
Routed ==
    /\ kind = "R" /\ (pc["far"] = "connecting" \/ Pumping("far")) =>
        dialed \in DOMAIN Forwards /\ Forwards[dialed].port = Forwards[at].port
    /\ kind # "R" /\ Pumping("far") => dialed = at

Reasons ==
    /\ \A e \in Ends : pc[e] = "ended" => Failed \/ Cut \/ \E x \in Ends : shut[x]
    /\ \A e \in Ends :
        /\ eof[e] => pc[e] = "ended"
        /\ deaf[e] \/ pc[e] = "closing" => shut[e]
        /\ told[e] => pc[e] = "ended" /\ tout[e] = 0
    /\ pc["far"] = "idle" => dialed = 0

IInv == TypeOK /\ Headed /\ Accounted /\ Reasons

(***************************************************************************)
(* Type correctness.                                                       *)
(***************************************************************************)
LEMMA InitType == Init => TypeOK
<1>1. \A e \in Ends : e = "near" \/ e = "far"
    BY DEF Ends
<1>2. 1 \in DOMAIN Forwards
    BY TunnelAssumption
<1> QED
    BY <1>1, <1>2, TunnelAssumption DEF Init, TypeOK, Each, Ends

\* What SpecFor finds is one of the forwards that are listed, and has the port.
LEMMA ForwardFound ==
    ASSUME NEW listed \in SUBSET DOMAIN Forwards
    PROVE  SpecFor(listed) = 0 \/ /\ SpecFor(listed) \in listed
                                  /\ Forwards[SpecFor(listed)].port = Forwards[at].port
<1> DEFINE found == {i \in listed : Forwards[i].port = Forwards[at].port}
<1>1. CASE found = {}
    BY <1>1 DEF SpecFor
<1>2. CASE found # {}
    <2>1. found \subseteq Nat
        BY TunnelAssumption
    <2> DEFINE less == OpToRel(<, Nat)
    <2>2. IsWellFoundedOn(less, Nat) /\ \A i, j \in Nat : j < i => <<j, i>> \in less
        BY NatLessThanWellFounded DEF OpToRel
    <2> HIDE DEF less, found
    <2>3. PICK i \in found : \A j \in found : ~(<<j, i>> \in less)
        BY <1>2, <2>1, <2>2, WFMin
    <2>4. ASSUME NEW j \in found PROVE i <= j
        <3>1. i \in Nat /\ j \in Nat
            BY <2>1
        <3>2. ~(j < i)
            BY <2>2, <2>3, <3>1
        <3> QED
            BY <3>1, <3>2
    <2>5. SpecFor(listed) = CHOOSE x \in found : \A j \in found : x <= j
        BY <1>2 DEF SpecFor, found
    <2>6. (CHOOSE x \in found : \A j \in found : x <= j) \in found
        BY <2>4
    <2> QED
        BY <2>5, <2>6 DEF found
<1> QED
    BY <1>1, <1>2

LEMMA OtherEnd == \A e \in Ends : Other(e) \in Ends /\ Other(e) # e /\ Other(Other(e)) = e
BY DEF Ends, Other

\* A task that ends leaves the buffers as they should be.
LEMMA EndsType ==
    ASSUME TypeOK, Headed, NEW e \in Ends, Ends_(e), UNCHANGED <<net, lost>>
    PROVE  /\ pc' \in [Ends -> {"accepted", "asking", "idle", "connecting", "select",
                                "send", "write", "closing", "ended"}]
           /\ tin' \in [Ends -> 0 .. BufCap] /\ tout' \in [Ends -> 0 .. BufCap]
           /\ mid' \in [Ends -> BOOLEAN] /\ Headed'
<1>1. BufCap \in Nat
    BY TunnelAssumption
<1>2. PICK n \in 0 .. tout[e] : tout' = [tout EXCEPT ![e] = n]
    <2>1. tout[e] \in 0 .. tout[e]
        BY <1>1 DEF TypeOK
    <2> QED
        BY <2>1 DEF Ends_
<1>3. n \in 0 .. BufCap
    BY <1>1, <1>2 DEF TypeOK
<1>4. tin' \in [Ends -> 0 .. BufCap] /\ tout' \in [Ends -> 0 .. BufCap]
    BY <1>1, <1>2, <1>3 DEF Ends_, TypeOK
<1> QED
    BY <1>4 DEF Ends_, Goto, TypeOK, Headed

LEMMA StepType == TypeOK /\ Headed /\ [Next]_vars => TypeOK' /\ Headed'
<1> SUFFICES ASSUME TypeOK, Headed, [Next]_vars PROVE TypeOK' /\ Headed'
    OBVIOUS
<1>0. NetCap \in Nat /\ BufCap \in Nat
    BY TunnelAssumption
<1> USE DEF setup, app, bufs, Goto
<1>1. CASE Opening
    <2>1. CASE OpenChannel \/ Dispatch \/ Answered
        BY <2>1 DEF OpenChannel, Dispatch, Answered, TypeOK, Headed, Ends
    <2>2. CASE Route
        BY <2>2, ForwardFound DEF Route, TypeOK, Headed, Ends
    <2>3. CASE Connect
        BY <2>3 DEF Connect, TypeOK, Headed, Ends
    <2>4. CASE NotOpened
        <3>1. Ends_("near") /\ UNCHANGED <<net, lost>> /\ "near" \in Ends
            BY <2>4 DEF NotOpened, Ends
        <3> QED
            BY <2>4, <3>1, EndsType DEF NotOpened, TypeOK
    <2> QED
        BY <1>1, <2>1, <2>2, <2>3, <2>4 DEF Opening
<1>2. ASSUME NEW e \in Ends, Pump(e) PROVE TypeOK' /\ Headed'
    <2>1. /\ Other(e) \in Ends /\ tin[e] \in 0 .. BufCap /\ tout[e] \in 0 .. BufCap
          /\ net[e] \in 0 .. NetCap /\ net[Other(e)] \in 0 .. NetCap
        BY OtherEnd DEF TypeOK
    <2>2. CASE ReadTcp(e)
        <3>1. tin[e] - 1 \in 0 .. BufCap /\ lost[e] + 1 \in Nat
            BY <1>0, <2>1, <2>2 DEF ReadTcp, TypeOK
        <3>2. mid[e] => net[Other(e)] - 1 \in 0 .. NetCap
            BY <1>0, <2>1, <2>2 DEF Headed
        <3>3. CASE mid[e]
            <4>1. /\ tin' = [tin EXCEPT ![e] = @ - 1] /\ pc' = [pc EXCEPT ![e] = "send"]
                  /\ net' = [net EXCEPT ![Other(e)] = @ - 1] /\ lost' = [lost EXCEPT ![e] = @ + 1]
                  /\ mid' = [mid EXCEPT ![e] = FALSE]
                  /\ UNCHANGED <<setup, link, tout, eof, app>>
                BY <2>2, <3>3 DEF ReadTcp
            <4>2. /\ tin' \in [Ends -> 0 .. BufCap] /\ net' \in [Ends -> 0 .. NetCap]
                  /\ lost' \in [Ends -> Nat]
                BY <2>1, <3>1, <3>2, <3>3, <4>1 DEF TypeOK
            <4>3. TypeOK'
                BY <4>1, <4>2 DEF TypeOK
            <4>4. Headed'
                BY <2>1, <4>1, OtherEnd DEF TypeOK, Headed
            <4> QED
                BY <4>3, <4>4
        <3>4. CASE ~mid[e]
            BY <2>2, <3>1, <3>4 DEF ReadTcp, TypeOK, Headed
        <3> QED
            BY <3>3, <3>4
    <2>3. CASE ReadTcpEnd(e)
        BY <2>3 DEF ReadTcpEnd, TypeOK, Headed
    <2>4. CASE SendEof(e) \/ SendFails(e) \/ RecvEnd(e)
        <3>1. /\ Ends_(e) /\ UNCHANGED <<setup, link, net, lost, app>>
              /\ eof' = eof \/ eof' = [eof EXCEPT ![e] = TRUE]
            BY <2>4 DEF SendEof, SendFails, RecvEnd
        <3> QED
            BY <3>1, EndsType DEF TypeOK
    <2>10. CASE Swallow(e)
        <3>1. net[Other(e)] - 1 \in 0 .. NetCap /\ lost[e] + 1 \in Nat
            BY <1>0, <2>1, <2>10 DEF Swallow, TypeOK
        <3>2. TypeOK'
            BY <2>1, <2>10, <3>1 DEF Swallow, TypeOK
        <3>3. ~mid[e]
            BY <2>10 DEF Swallow, Misaligned, Headed
        <3> QED
            BY <2>1, <2>10, <3>2, <3>3, OtherEnd DEF Swallow, TypeOK, Headed
    <2>5. CASE SendData(e)
        <3>1. net[e] + 1 \in 0 .. NetCap
            BY <1>0, <2>1, <2>5 DEF SendData
        <3>2. TypeOK'
            BY <2>5, <3>1 DEF SendData, TypeOK
        <3>3. Headed'
            BY <1>0, <2>1, <2>5, OtherEnd DEF SendData, TypeOK, Headed
        <3> QED
            BY <3>2, <3>3
    <2>6. CASE RecvHead(e)
        BY <2>6 DEF RecvHead, TypeOK, Headed, Misaligned
    <2>7. CASE RecvData(e)
        <3>1. net[Other(e)] - 1 \in 0 .. NetCap
            BY <1>0, <2>1, <2>7 DEF RecvData
        <3>2. TypeOK'
            BY <2>1, <2>7, <3>1 DEF RecvData, TypeOK
        <3>3. Headed'
            BY <2>1, <2>7, OtherEnd DEF RecvData, TypeOK, Headed
        <3> QED
            BY <3>2, <3>3
    <2>8. CASE WriteTcp(e)
        <3>1. tout[e] + 1 \in 0 .. BufCap
            BY <1>0, <2>1, <2>8 DEF WriteTcp
        <3> QED
            BY <2>8, <3>1 DEF WriteTcp, TypeOK, Headed
    <2>9. CASE WriteGone(e)
        <3>1. CASE Ends_(e)
            <4>1. UNCHANGED <<net, lost>>
                BY <2>9 DEF WriteGone
            <4> QED
                BY <2>9, <3>1, <4>1, EndsType DEF WriteGone, TypeOK
        <3>2. CASE pc' = [pc EXCEPT ![e] = "select"] /\ UNCHANGED <<tin, tout, mid>>
            BY <2>9, <3>2 DEF WriteGone, TypeOK, Headed
        <3> QED
            BY <2>9, <3>1, <3>2 DEF WriteGone
    <2> QED
        BY <1>2, <2>2, <2>3, <2>4, <2>5, <2>6, <2>7, <2>8, <2>9, <2>10 DEF Pump
<1>6. ASSUME NEW e \in Ends, Misread(e) PROVE TypeOK' /\ Headed'
    <2>1. Ends_(e) /\ UNCHANGED <<net, lost>>
        BY <1>6 DEF Misread
    <2> QED
        BY <1>6, <2>1, EndsType DEF Misread, TypeOK
<1>3. ASSUME NEW e \in Ends, App(e) PROVE TypeOK' /\ Headed'
    <2>1. tin[e] \in 0 .. BufCap /\ tout[e] \in 0 .. BufCap /\ sent[e] \in Nat /\ got[e] \in Nat
        BY DEF TypeOK
    <2>2. CASE AppWrites(e)
        <3>1. tin[e] + 1 \in 0 .. BufCap /\ sent[e] + 1 \in Nat
            BY <1>0, <2>1, <2>2 DEF AppWrites
        <3> QED
            BY <2>2, <3>1 DEF AppWrites, TypeOK, Headed
    <2>3. CASE AppReads(e)
        <3>1. tout[e] - 1 \in 0 .. BufCap /\ got[e] + 1 \in Nat
            BY <1>0, <2>1, <2>3 DEF AppReads
        <3> QED
            BY <2>3, <3>1 DEF AppReads, TypeOK, Headed
    <2>4. CASE AppSeesEnd(e) \/ AppShuts(e)
        BY <2>4 DEF AppSeesEnd, AppShuts, TypeOK, Headed
    <2>5. CASE AppLeaves(e)
        <3>1. PICK n \in 0 .. tin[e] : tin' = [tin EXCEPT ![e] = n]
            <4>1. tin[e] \in 0 .. tin[e]
                BY <1>0, <2>1
            <4> QED
                BY <2>5, <4>1 DEF AppLeaves
        <3>2. n \in 0 .. BufCap /\ 0 \in 0 .. BufCap
            BY <1>0, <2>1, <3>1
        <3> QED
            BY <2>5, <3>1, <3>2 DEF AppLeaves, TypeOK, Headed
    <2> QED
        BY <1>3, <2>2, <2>3, <2>4, <2>5 DEF App
<1>4. CASE LinkLost
    BY <1>4 DEF LinkLost, TypeOK, Headed
<1>5. CASE UNCHANGED vars
    BY <1>5 DEF vars, TypeOK, Headed
<1> QED
    BY <1>1, <1>2, <1>3, <1>4, <1>5, <1>6 DEF Next

\* Buffers and streams never hold more than they can, whatever both sides
\* send, and the dialled target is always one of the forwards.
THEOREM TypeCorrect == Spec => []TypeOK
<1>1. Init => TypeOK /\ Headed
    BY InitType DEF Init, Headed, Each
<1> QED
    BY <1>1, StepType, PTL DEF Spec

(***************************************************************************)
(* Nothing is lost.                                                        *)
(***************************************************************************)
LEMMA Sizes ==
    ASSUME TypeOK, NEW e \in Ends
    PROVE  /\ tin[e] \in Nat /\ tout[e] \in Nat /\ net[e] \in Nat
           /\ sent[e] \in Nat /\ got[e] \in Nat /\ lost[e] \in Nat
BY TunnelAssumption DEF TypeOK

LEMMA FlowBothWays ==
    ASSUME NEW e \in Ends
    PROVE  /\ Accounted <=> Flow(e, Other(e)) /\ Flow(Other(e), e)
           /\ Accounted' <=> Flow(e, Other(e))' /\ Flow(Other(e), e)'
BY DEF Accounted, Ends, Other

\* What a task that ends drops is accounted for by nobody.
LEMMA EndsAccounted ==
    ASSUME TypeOK, Accounted, NEW e \in Ends, Ends_(e),
           UNCHANGED <<net, sent, got, lost, deaf>>
    PROVE  Accounted'
<1> DEFINE o == Other(e)
<1>1. o \in Ends /\ o # e /\ Flow(e, o) /\ Flow(o, e)
    BY FlowBothWays, OtherEnd
<1>2. PICK n \in 0 .. tout[e] : tout' = [tout EXCEPT ![e] = n]
    <2>1. tout[e] \in 0 .. tout[e]
        BY Sizes
    <2> QED
        BY <2>1 DEF Ends_
<1>3. /\ tin' = [tin EXCEPT ![e] = 0] /\ pc' = [pc EXCEPT ![e] = "ended"]
      /\ tin'[e] = 0 /\ tin'[o] = tin[o] /\ tout'[e] = n /\ tout'[o] = tout[o]
      /\ pc'[e] = "ended" /\ pc'[o] = pc[o]
    BY <1>1, <1>2 DEF Ends_, Goto, TypeOK
<1>4. ~Undisturbed'
    BY <1>3 DEF Undisturbed
<1> HIDE DEF o
<1>5. Flow(e, o)' /\ Flow(o, e)'
    BY <1>1, <1>2, <1>3, <1>4, Sizes DEF Flow, Holds
<1> QED
    BY <1>5, FlowBothWays DEF o

LEMMA StepAccounted ==
    ASSUME TypeOK, Headed, Accounted, [Next]_vars
    PROVE  Accounted'
<1> USE DEF setup, app, bufs, Goto
<1>1. CASE Opening
    <2>1. "near" \in Ends /\ "far" \in Ends /\ Other("near") = "far"
        BY DEF Ends, Other
    <2>2. Flow("near", "far") /\ Flow("far", "near")
        BY <2>1, FlowBothWays
    <2>3. CASE NotOpened
        BY <2>1, <2>3, EndsAccounted DEF NotOpened
    <2>4. ASSUME UNCHANGED <<tin, tout, net, sent, got, lost, deaf, link>>,
                 NEW x \in Ends, NEW l, l \notin {"send", "write"}, pc' = [pc EXCEPT ![x] = l],
                 pc[x] \notin {"send", "write", "ended"}
          PROVE  Accounted'
        <3>1. Undisturbed' => Undisturbed
            BY <2>4 DEF Undisturbed, TypeOK
        <3>2. \A y \in Ends, m \in {"send", "write"} : Holds(y, m)' = Holds(y, m)
            BY <2>4 DEF Holds, TypeOK
        <3>3. Flow("near", "far")' /\ Flow("far", "near")'
            BY <2>1, <2>2, <2>4, <3>1, <3>2, Sizes DEF Flow
        <3> QED
            BY <2>1, <3>3, FlowBothWays
    <2>5. CASE OpenChannel \/ Answered
        BY <2>1, <2>4, <2>5 DEF OpenChannel, Answered
    <2>6. CASE Dispatch
        BY <2>1, <2>4, <2>6 DEF Dispatch
    <2>7. CASE Route
        BY <2>1, <2>4, <2>7 DEF Route
    <2>8. CASE Connect
        BY <2>1, <2>4, <2>8 DEF Connect
    <2> QED
        BY <1>1, <2>3, <2>5, <2>6, <2>7, <2>8 DEF Opening
<1>2. ASSUME NEW e \in Ends, Pump(e) PROVE Accounted'
    <2> DEFINE o == Other(e)
    <2>1. o \in Ends /\ o # e /\ Flow(e, o) /\ Flow(o, e)
        BY FlowBothWays, OtherEnd
    <2>2. SUFFICES (Flow(e, o)' /\ Flow(o, e)') \/ Accounted'
        BY FlowBothWays
    <2>3. CASE SendEof(e) \/ SendFails(e) \/ RecvEnd(e)
        BY <2>3, EndsAccounted DEF SendEof, SendFails, RecvEnd
    <2>10. CASE ReadTcpEnd(e)
        <3>1. /\ pc[e] = "select" /\ pc'[e] = "closing" /\ pc'[o] = pc[o]
              /\ UNCHANGED <<lost, tin, tout, net, sent, got, deaf, link>>
            BY <2>1, <2>10 DEF ReadTcpEnd, TypeOK
        <3>2. Undisturbed' => Undisturbed
            BY <2>10 DEF ReadTcpEnd, Undisturbed, TypeOK
        <3> HIDE DEF o
        <3> QED
            BY <2>1, <3>1, <3>2, Sizes DEF Flow, Holds
    <2>4. CASE ReadTcp(e)
        <3>1. /\ tin[e] > 0 /\ tin'[e] = tin[e] - 1 /\ tin'[o] = tin[o]
              /\ pc[e] = "select" /\ pc'[e] = "send" /\ pc'[o] = pc[o]
              /\ UNCHANGED <<tout, sent, got, deaf, link>>
            BY <2>1, <2>4 DEF ReadTcp, TypeOK
        <3>2. Undisturbed' => Undisturbed
            BY <2>4 DEF ReadTcp, Undisturbed, TypeOK
        <3>3. /\ net'[e] = net[e] /\ lost'[o] = lost[o]
              /\ \/ net'[o] = net[o] - 1 /\ net[o] > 0 /\ lost'[e] = lost[e] + 1
                 \/ net'[o] = net[o] /\ lost'[e] = lost[e]
            BY <2>1, <2>4 DEF ReadTcp, TypeOK, Headed
        <3>4. sent[e] > 0
            BY <2>1, <3>1, OtherEnd, Sizes DEF Flow, Holds
        <3> HIDE DEF o
        <3> QED
            BY <2>1, <3>1, <3>2, <3>3, <3>4, Sizes DEF Flow, Holds
    <2>11. CASE Swallow(e)
        <3>1. /\ net[o] > 0 /\ net'[o] = net[o] - 1 /\ net'[e] = net[e]
              /\ lost[e] > 0 /\ lost'[e] = lost[e] + 1 /\ lost'[o] = lost[o]
              /\ UNCHANGED <<pc, tin, tout, sent, got, deaf, link>>
            BY <2>1, <2>11 DEF Swallow, Misaligned, TypeOK
        <3>2. Undisturbed' => Undisturbed
            BY <3>1 DEF Undisturbed
        <3> HIDE DEF o
        <3> QED
            BY <2>1, <3>1, <3>2, Sizes DEF Flow, Holds
    <2>5. CASE SendData(e)
        <3>1. /\ net'[e] = net[e] + 1 /\ net'[o] = net[o] /\ pc[e] = "send" /\ pc'[e] = "select"
              /\ pc'[o] = pc[o] /\ UNCHANGED <<lost, tin, tout, sent, got, deaf, link>>
            BY <2>1, <2>5 DEF SendData, TypeOK
        <3>2. Undisturbed' => Undisturbed
            BY <2>5 DEF SendData, Undisturbed, TypeOK
        <3> HIDE DEF o
        <3> QED
            BY <2>1, <3>1, <3>2, Sizes DEF Flow, Holds
    <2>6. CASE RecvHead(e)
        <3>1. UNCHANGED <<lost, pc, net, tin, tout, sent, got, deaf, link>>
            BY <2>6 DEF RecvHead
        <3> QED
            BY <2>1, <3>1 DEF Flow, Holds, Undisturbed
    <2>7. CASE RecvData(e)
        <3>1. /\ net'[o] = net[o] - 1 /\ net'[e] = net[e] /\ pc[e] = "select" /\ pc'[e] = "write"
              /\ pc'[o] = pc[o] /\ UNCHANGED <<lost, tin, tout, sent, got, deaf, link>>
            BY <2>1, <2>7 DEF RecvData, TypeOK
        <3>2. Undisturbed' => Undisturbed
            BY <2>7 DEF RecvData, Undisturbed, TypeOK
        <3> HIDE DEF o
        <3> QED
            BY <2>1, <3>1, <3>2, Sizes DEF Flow, Holds
    <2>8. CASE WriteTcp(e)
        <3>1. /\ tout'[e] = tout[e] + 1 /\ tout'[o] = tout[o] /\ pc[e] = "write" /\ pc'[e] = "select"
              /\ pc'[o] = pc[o] /\ UNCHANGED <<lost, tin, net, sent, got, deaf, link>>
            BY <2>1, <2>8 DEF WriteTcp, TypeOK
        <3>2. Undisturbed' => Undisturbed
            BY <2>8 DEF WriteTcp, Undisturbed, TypeOK
        <3> HIDE DEF o
        <3> QED
            BY <2>1, <3>1, <3>2, Sizes DEF Flow, Holds
    <2>9. CASE WriteGone(e)
        <3>1. CASE Ends_(e)
            BY <2>9, <3>1, EndsAccounted DEF WriteGone
        <3>2. CASE pc' = [pc EXCEPT ![e] = "select"] /\ UNCHANGED <<tin, tout, mid>>
            <4>1. /\ pc[e] = "write" /\ pc'[e] = "select" /\ pc'[o] = pc[o] /\ ~Undisturbed'
                  /\ UNCHANGED <<lost, tin, tout, net, sent, got>>
                BY <2>1, <2>9, <3>2 DEF WriteGone, TypeOK, Undisturbed
            <4> HIDE DEF o
            <4> QED
                BY <2>1, <4>1, Sizes DEF Flow, Holds
        <3> QED
            BY <2>9, <3>1, <3>2 DEF WriteGone
    <2> QED
        BY <1>2, <2>3, <2>4, <2>5, <2>6, <2>7, <2>8, <2>9, <2>10, <2>11 DEF Pump
<1>6. ASSUME NEW e \in Ends, Misread(e) PROVE Accounted'
    BY <1>6, EndsAccounted DEF Misread
<1>3. ASSUME NEW e \in Ends, App(e) PROVE Accounted'
    <2> DEFINE o == Other(e)
    <2>1. o \in Ends /\ o # e /\ Flow(e, o) /\ Flow(o, e)
        BY FlowBothWays, OtherEnd
    <2>2. SUFFICES Flow(e, o)' /\ Flow(o, e)'
        BY FlowBothWays
    <2>3. CASE AppWrites(e)
        <3>1. /\ sent'[e] = sent[e] + 1 /\ sent'[o] = sent[o]
              /\ tin'[e] = tin[e] + 1 /\ tin'[o] = tin[o]
              /\ UNCHANGED <<lost, pc, tout, net, got, deaf, link>>
            BY <2>1, <2>3 DEF AppWrites, TypeOK
        <3>2. (Undisturbed' <=> Undisturbed) /\ \A x, l : Holds(x, l)' = Holds(x, l) /\ Holds(x, l) \in {0, 1}
            BY <3>1 DEF Undisturbed, Holds
        <3> HIDE DEF o
        <3> QED
            BY <2>1, <3>1, <3>2, Sizes DEF Flow
    <2>4. CASE AppReads(e)
        <3>1. /\ got'[e] = got[e] + 1 /\ got'[o] = got[o] /\ tout'[e] = tout[e] - 1 /\ tout'[o] = tout[o]
              /\ UNCHANGED <<lost, pc, tin, net, sent, deaf, link>>
            BY <2>1, <2>4 DEF AppReads, TypeOK
        <3>2. (Undisturbed' <=> Undisturbed) /\ \A x, l : Holds(x, l)' = Holds(x, l) /\ Holds(x, l) \in {0, 1}
            BY <3>1 DEF Undisturbed, Holds
        <3> HIDE DEF o
        <3>3. Flow(e, o)'
            BY <2>1, <3>1, <3>2, Sizes DEF Flow
        <3>4. Flow(o, e)'
            BY <2>1, <3>1, <3>2, Sizes DEF Flow
        <3> QED
            BY <3>3, <3>4
    <2>5. CASE AppSeesEnd(e) \/ AppShuts(e)
        <3>1. UNCHANGED <<lost, pc, tin, tout, net, sent, got, deaf, link>>
            BY <2>5 DEF AppSeesEnd, AppShuts
        <3> QED
            BY <2>1, <3>1 DEF Flow, Holds, Undisturbed
    <2>6. CASE AppLeaves(e)
        <3>1. PICK n \in 0 .. tin[e] : tin' = [tin EXCEPT ![e] = n]
            <4>1. tin[e] \in 0 .. tin[e]
                BY Sizes
            <4> QED
                BY <2>6, <4>1 DEF AppLeaves
        <3>2. /\ tin'[e] = n /\ tin'[o] = tin[o] /\ tout'[e] = 0 /\ tout'[o] = tout[o] /\ ~Undisturbed'
              /\ UNCHANGED <<lost, pc, net, sent, got>>
            BY <2>1, <2>6, <3>1 DEF AppLeaves, TypeOK, Undisturbed
        <3> HIDE DEF o
        <3> QED
            BY <2>1, <3>1, <3>2, Sizes DEF Flow, Holds
    <2> QED
        BY <1>3, <2>3, <2>4, <2>5, <2>6 DEF App
<1>4. CASE LinkLost
    <2>1. /\ ~Undisturbed' /\ UNCHANGED <<lost, pc, tin, tout, sent, got>>
          /\ \A x \in Ends : net'[x] \in Nat /\ net'[x] <= net[x]
        BY <1>4, TunnelAssumption DEF LinkLost, Undisturbed
    <2> QED
        BY <2>1, OtherEnd, Sizes DEF Accounted, Flow, Holds
<1>5. CASE UNCHANGED vars
    BY <1>5 DEF vars, Accounted, Flow, Holds, Undisturbed
<1> QED
    BY <1>1, <1>2, <1>3, <1>4, <1>5, <1>6 DEF Next

(***************************************************************************)
(* Pumps end for a reason, which lasts.                                    *)
(***************************************************************************)
LEMMA StepCut ==
    ASSUME TypeOK, [Next]_vars
    PROVE  Cut => Cut'
<1> USE DEF setup, app, bufs
<1>1. SUFFICES ASSUME NEW x \in Ends PROVE lost'[x] = lost[x] \/ lost'[x] = lost[x] + 1
    BY Sizes DEF Cut, Misaligned
<1>2. ASSUME NEW e \in Ends, Pump(e) \/ Misread(e) \/ App(e)
      PROVE  lost' = lost \/ lost' = [lost EXCEPT ![e] = @ + 1]
    BY <1>2
        DEF Pump, ReadTcp, ReadTcpEnd, SendEof, SendData, SendFails, RecvHead, RecvData, Swallow,
            RecvEnd, WriteTcp, WriteGone, Misread, App, AppWrites, AppReads, AppSeesEnd, AppShuts,
            AppLeaves
<1>3. Opening => lost' = lost
    BY DEF Opening, OpenChannel, Dispatch, Route, Connect, Answered, NotOpened
<1>4. LinkLost \/ UNCHANGED vars => lost' = lost
    BY DEF LinkLost, vars
<1> QED
    BY <1>2, <1>3, <1>4 DEF Next, TypeOK

\* A failure lasts.
LEMMA StepFailed ==
    ASSUME TypeOK, [Next]_vars
    PROVE  Failed => Failed'
<1> USE DEF setup, app, bufs, Goto, Failed
<1>0. ASSUME NEW e \in Ends, pc[e] # "ended", NEW l, pc' = [pc EXCEPT ![e] = l],
             link' = link, pc["far"] = "ended" => dialed' = dialed
      PROVE  Failed => Failed'
    BY <1>0 DEF TypeOK
<1>1. ASSUME NEW e \in Ends, Pump(e) PROVE Failed => Failed'
    <2>1. CASE ReadTcp(e) \/ ReadTcpEnd(e) \/ SendData(e) \/ RecvData(e) \/ WriteTcp(e)
        BY <1>0, <2>1 DEF ReadTcp, ReadTcpEnd, SendData, RecvData, WriteTcp
    <2>2. CASE SendEof(e) \/ SendFails(e) \/ RecvEnd(e)
        BY <1>0, <2>2 DEF SendEof, SendFails, RecvEnd, Ends_
    <2>3. CASE WriteGone(e)
        BY <1>0, <2>3 DEF WriteGone, Ends_
    <2>4. CASE RecvHead(e) \/ Swallow(e)
        BY <2>4 DEF RecvHead, Swallow
    <2> QED
        BY <1>1, <2>1, <2>2, <2>3, <2>4 DEF Pump
<1>4. ASSUME NEW e \in Ends, Misread(e) PROVE Failed => Failed'
    BY <1>0, <1>4 DEF Misread, Ends_
<1>2. CASE Opening
    <2>1. "near" \in Ends /\ "far" \in Ends
        BY DEF Ends
    <2>2. CASE OpenChannel \/ Answered
        BY <1>0, <2>1, <2>2 DEF OpenChannel, Answered
    <2>3. CASE NotOpened
        BY <1>0, <2>1, <2>3 DEF NotOpened, Ends_
    <2>4. CASE Dispatch
        BY <1>0, <2>1, <2>4 DEF Dispatch
    <2>5. CASE Route
        BY <1>0, <2>1, <2>5 DEF Route
    <2>6. CASE Connect
        BY <1>0, <2>1, <2>6 DEF Connect
    <2> QED
        BY <1>2, <2>2, <2>3, <2>4, <2>5, <2>6 DEF Opening
<1>3. CASE (\E e \in Ends : App(e)) \/ LinkLost \/ UNCHANGED vars
    BY <1>3
        DEF App, AppWrites, AppReads, AppSeesEnd, AppShuts, AppLeaves, LinkLost, vars
<1> QED
    BY <1>1, <1>2, <1>3, <1>4 DEF Next

\* A task may end, if there is a reason.
LEMMA EndsReasons ==
    ASSUME TypeOK, Reasons, Failed => Failed', Cut => Cut', NEW e \in Ends, Ends_(e),
           Failed \/ Cut \/ (\E x \in Ends : shut[x]),
           UNCHANGED <<dialed, shut, told, deaf>>, \A x \in Ends : eof'[x] => eof[x] \/ x = e,
           pc[e] # "idle"
    PROVE  Reasons'
<1>1. pc' = [pc EXCEPT ![e] = "ended"] /\ pc'[e] = "ended"
    BY DEF Ends_, Goto, TypeOK
<1>2. \A x \in Ends : pc'[x] = "ended" => Failed' \/ Cut' \/ \E y \in Ends : shut'[y]
    BY <1>1 DEF Reasons
<1>3. \A x \in Ends : tout[x] = 0 => tout'[x] = 0
    <2>1. \E n \in IF tin[e] > 0 THEN 0 .. tout[e] ELSE {tout[e]} : tout' = [tout EXCEPT ![e] = n]
        BY DEF Ends_
    <2> QED
        BY <2>1, Sizes DEF TypeOK
<1>4. \A x \in Ends : (eof'[x] => pc'[x] = "ended") /\ (told'[x] => pc'[x] = "ended" /\ tout'[x] = 0)
    BY <1>1, <1>3 DEF Reasons, TypeOK
<1> QED
    BY <1>1, <1>2, <1>4 DEF Reasons, TypeOK

LEMMA StepReasons ==
    ASSUME TypeOK, Reasons, [Next]_vars
    PROVE  Reasons'
<1>0. (Failed => Failed') /\ (Cut => Cut')
    BY StepFailed, StepCut
<1> USE DEF setup, app, bufs, Goto
<1>1. CASE Opening
    <2>1. "near" \in Ends /\ "far" \in Ends
        BY DEF Ends
    <2>2. CASE NotOpened
        <3>1. Failed \/ Cut \/ \E x \in Ends : shut[x]
            BY <2>1, <2>2 DEF NotOpened, Reasons, Failed
        <3> QED
            BY <1>0, <2>1, <2>2, <3>1, EndsReasons DEF NotOpened
    <2>3. CASE OpenChannel \/ Answered
        BY <1>0, <2>1, <2>3 DEF OpenChannel, Answered, Reasons, TypeOK
    <2>4. CASE Dispatch
        BY <1>0, <2>1, <2>4 DEF Dispatch, Reasons, Failed, TypeOK
    <2>5. CASE Route
        BY <1>0, <2>1, <2>5 DEF Route, Reasons, Failed, TypeOK
    <2>6. CASE Connect
        BY <1>0, <2>1, <2>6 DEF Connect, Reasons, Failed, TypeOK
    <2> QED
        BY <1>1, <2>2, <2>3, <2>4, <2>5, <2>6 DEF Opening
<1>2. ASSUME NEW e \in Ends, Pump(e) PROVE Reasons'
    <2>1. Other(e) \in Ends
        BY OtherEnd
    <2>2. CASE SendEof(e)
        BY <1>0, <2>1, <2>2, EndsReasons DEF SendEof, Reasons, TypeOK
    <2>3. CASE SendFails(e)
        BY <1>0, <2>1, <2>3, EndsReasons DEF SendFails, Reasons, Failed
    <2>4. CASE RecvEnd(e)
        BY <1>0, <2>1, <2>4, EndsReasons DEF RecvEnd, Reasons, Failed
    <2>9. CASE ReadTcpEnd(e)
        BY <1>0, <2>9 DEF ReadTcpEnd, Reasons, TypeOK
    <2>5. CASE WriteGone(e)
        <3>1. CASE Ends_(e)
            BY <1>0, <2>5, <3>1, EndsReasons DEF WriteGone, Reasons
        <3>2. CASE pc' = [pc EXCEPT ![e] = "select"] /\ UNCHANGED <<tin, tout, mid>>
            BY <1>0, <2>5, <3>2 DEF WriteGone, Reasons, TypeOK
        <3> QED
            BY <2>5, <3>1, <3>2 DEF WriteGone
    <2>6. CASE ReadTcp(e) \/ SendData(e) \/ RecvData(e)
        <3>1. /\ UNCHANGED <<dialed, eof, tout, shut, told, deaf>> /\ pc[e] \in {"select", "send"}
              /\ \E l \in {"select", "send", "write"} : pc' = [pc EXCEPT ![e] = l]
            BY <2>6 DEF ReadTcp, SendData, RecvData
        <3> QED
            BY <1>0, <3>1 DEF Reasons, TypeOK
    <2>8. CASE RecvHead(e) \/ Swallow(e)
        BY <1>0, <2>8 DEF RecvHead, Swallow, Reasons
    <2>7. CASE WriteTcp(e)
        BY <1>0, <2>7 DEF WriteTcp, Reasons, TypeOK
    <2> QED
        BY <1>2, <2>2, <2>3, <2>4, <2>5, <2>6, <2>7, <2>8, <2>9 DEF Pump
<1>6. ASSUME NEW e \in Ends, Misread(e) PROVE Reasons'
    BY <1>0, <1>6, EndsReasons DEF Misread, Cut
<1>3. ASSUME NEW e \in Ends, App(e) PROVE Reasons'
    <2>1. CASE AppWrites(e) \/ AppSeesEnd(e) \/ AppShuts(e)
        BY <1>0, <2>1 DEF AppWrites, AppSeesEnd, AppShuts, Reasons, TypeOK
    <2>2. CASE AppReads(e)
        BY <1>0, <2>2 DEF AppReads, Reasons, TypeOK
    <2>3. CASE AppLeaves(e)
        BY <1>0, <2>3 DEF AppLeaves, Reasons, TypeOK
    <2> QED
        BY <1>3, <2>1, <2>2, <2>3 DEF App
<1>4. CASE LinkLost \/ UNCHANGED vars
    BY <1>0, <1>4 DEF LinkLost, vars, Reasons
<1> QED
    BY <1>1, <1>2, <1>3, <1>4, <1>6 DEF Next

LEMMA InitInv == Init => IInv
<1> SUFFICES ASSUME Init PROVE IInv
    OBVIOUS
<1>1. TypeOK
    BY InitType
<1>2. \A e \in Ends : Other(e) \in Ends /\ pc[e] \in {"accepted", "idle"}
    BY OtherEnd DEF Init, Ends
<1>3. Accounted
    BY <1>1, <1>2, Sizes DEF Init, Each, Accounted, Flow, Holds
<1> QED
    BY <1>1, <1>2, <1>3 DEF Init, Each, IInv, Headed, Reasons

LEMMA Invariance == Spec => []IInv
<1>1. IInv /\ [Next]_vars => IInv'
    BY StepType, StepAccounted, StepReasons DEF IInv
<1> QED
    BY InitInv, <1>1, PTL DEF Spec

(***************************************************************************)
(* Routing. It does not depend on the traffic.                             *)
(***************************************************************************)

\* A step after which the far end is connecting or pumps, as it was before,
\* and that leaves the setup alone, leaves the routing right.
LEMMA KeepsRouted ==
    ASSUME Routed, UNCHANGED <<kind, at, dialed>>,
           pc'["far"] = "connecting" => pc["far"] = "connecting",
           Pumping("far")' => Pumping("far")
    PROVE  Routed'
BY DEF Routed

LEMMA StepRouted ==
    ASSUME TypeOK, Routed, [Next]_vars
    PROVE  Routed'
<1> USE DEF setup, app, bufs, Goto
<1>0. "near" \in Ends /\ "far" \in Ends /\ "near" # "far"
    BY DEF Ends
<1>1. ASSUME NEW e \in Ends, pc' \in {[pc EXCEPT ![e] = "select"], [pc EXCEPT ![e] = "send"],
                                     [pc EXCEPT ![e] = "write"], [pc EXCEPT ![e] = "closing"],
                                     [pc EXCEPT ![e] = "ended"], pc},
             e = "far" => Pumping(e), UNCHANGED <<kind, at, dialed>>
      PROVE  Routed'
    <2>1. pc'["far"] = "connecting" => pc["far"] = "connecting"
        BY <1>0, <1>1 DEF TypeOK
    <2>2. Pumping("far")' => Pumping("far")
        BY <1>0, <1>1 DEF TypeOK, Pumping
    <2> QED
        BY <1>1, <2>1, <2>2, KeepsRouted
<1>2. ASSUME NEW e \in Ends, Pump(e) PROVE Routed'
    <2>1. CASE ReadTcp(e) \/ ReadTcpEnd(e) \/ SendData(e) \/ RecvHead(e) \/ RecvData(e)
            \/ Swallow(e) \/ WriteTcp(e)
        BY <1>1, <2>1
            DEF ReadTcp, ReadTcpEnd, SendData, RecvHead, RecvData, Swallow, WriteTcp, Pumping
    <2>2. CASE SendEof(e) \/ SendFails(e) \/ RecvEnd(e) \/ WriteGone(e)
        BY <1>1, <2>2 DEF SendEof, SendFails, RecvEnd, WriteGone, Ends_, Pumping
    <2> QED
        BY <1>2, <2>1, <2>2 DEF Pump
<1>5. ASSUME NEW e \in Ends, Misread(e) PROVE Routed'
    BY <1>1, <1>5 DEF Misread, Ends_, Pumping
<1>3. CASE Opening
    <2>1. CASE OpenChannel \/ Answered \/ NotOpened
        <3>1. /\ UNCHANGED <<kind, at, dialed>>
              /\ pc' \in {[pc EXCEPT !["near"] = l] : l \in {"asking", "select", "ended"}}
            BY <2>1 DEF OpenChannel, Answered, NotOpened, Ends_
        <3>2. pc'["far"] = pc["far"]
            BY <1>0, <3>1 DEF TypeOK
        <3> QED
            BY <3>1, <3>2, KeepsRouted DEF Pumping
    <2>2. CASE Dispatch
        <3>1. kind # "R" /\ kind' = kind /\ pc'["far"] \in {"connecting", "ended"}
            BY <1>0, <2>2 DEF Dispatch, TypeOK
        <3> QED
            BY <3>1 DEF Routed, Pumping
    <2>3. CASE Route
        <3>1. PICK listed \in SUBSET DOMAIN Forwards :
                /\ dialed' = SpecFor(listed)
                /\ IF SpecFor(listed) = 0
                   THEN pc' = [pc EXCEPT !["far"] = "ended"]
                   ELSE pc' = [pc EXCEPT !["far"] = "connecting"]
            BY <2>3 DEF Route
        <3>2. kind = "R" /\ UNCHANGED <<kind, at>>
            BY <2>3 DEF Route
        <3>3. CASE SpecFor(listed) = 0
            BY <1>0, <3>1, <3>2, <3>3 DEF TypeOK, Routed, Pumping
        <3>4. CASE SpecFor(listed) # 0
            BY <1>0, <3>1, <3>2, <3>4, ForwardFound DEF TypeOK, Routed, Pumping
        <3> QED
            BY <3>3, <3>4
    <2>4. CASE Connect
        <3>1. pc["far"] = "connecting" /\ UNCHANGED <<kind, at>>
            BY <2>4 DEF Connect
        <3>2. CASE pc' = [pc EXCEPT !["far"] = "select"]
                   /\ dialed' = IF kind = "L" THEN at ELSE dialed
            <4>1. kind \in {"L", "R"}
                BY TunnelAssumption DEF TypeOK
            <4> QED
                BY <1>0, <3>1, <3>2, <4>1 DEF TypeOK, Routed, Pumping
        <3>3. CASE pc' = [pc EXCEPT !["far"] = "ended"]
            BY <1>0, <3>1, <3>3 DEF TypeOK, Routed, Pumping
        <3> QED
            BY <2>4, <3>2, <3>3 DEF Connect
    <2> QED
        BY <1>3, <2>1, <2>2, <2>3, <2>4 DEF Opening
<1>4. CASE (\E e \in Ends : App(e)) \/ LinkLost \/ UNCHANGED vars
    <2>1. UNCHANGED <<kind, at, dialed, pc>>
        BY <1>4 DEF App, AppWrites, AppReads, AppSeesEnd, AppShuts, AppLeaves, LinkLost, vars
    <2> QED
        BY <2>1, KeepsRouted DEF Pumping
<1> QED
    BY <1>2, <1>3, <1>4, <1>5 DEF Next

\* Whatever forwards the clients of a master have, add and remove while a
\* connection comes in, and whatever traffic there is: it reaches the target of
\* the forward it came in on, if no other forward has its port.
THEOREM ConnectionsAreRouted == Spec => []RoutedToItsTarget
<1>1. Init => TypeOK /\ Headed /\ Routed
    BY InitType DEF Init, Each, Headed, Routed, Pumping
<1>2. TypeOK /\ Headed /\ Routed /\ [Next]_vars => (TypeOK /\ Headed /\ Routed)'
    BY StepType, StepRouted
<1>3. TypeOK /\ Routed => RoutedToItsTarget
    BY DEF Routed, RoutedToItsTarget
<1> QED
    BY <1>1, <1>2, <1>3, PTL DEF Spec

\* However the tasks, the applications and the network interleave, and
\* whatever the buffers hold: while both pumps run, a chunk that was written
\* is under way, has been read, or was cut by a pump whose own application
\* wrote too.
THEOREM EverythingArrives == Spec => []NothingLost
<1>1. IInv => NothingLost
    <2> SUFFICES ASSUME IInv, Undisturbed, NEW e \in Ends
                 PROVE  /\ sent[e] = Underway(e) + got[Other(e)] + lost[Other(e)]
                        /\ sent[e] = 0 => lost[e] = 0
        BY DEF NothingLost, Undisturbed, Ends
    <2>1. Flow(e, Other(e))
        BY DEF IInv, Accounted
    <2> QED
        BY <2>1, OtherEnd, Sizes DEF IInv, Flow, Underway
<1> QED
    BY <1>1, Invariance, PTL

(***************************************************************************)
(* The tunnel implements Relay.                                            *)
(***************************************************************************)
LEMMA InitRelay == Init => R!Init
<1>1. Init => ~(Failed \/ Cut)
    BY DEF Init, Failed, Each, Cut, Misaligned
<1> QED
    BY <1>1 DEF Init, Each, R!Init

LEMMA StepRelay == IInv /\ [Next]_vars => [R!Next]_(R!vars)
<1> SUFFICES ASSUME IInv, [Next]_vars PROVE [R!Next]_(R!vars)
    OBVIOUS
<1> USE DEF setup, app, bufs
<1>1. ASSUME NEW e \in Ends, App(e) PROVE R!Next
    <2>1. (Failed \/ Cut)' = (Failed \/ Cut)
        BY <1>1
            DEF App, AppWrites, AppReads, AppSeesEnd, AppShuts, AppLeaves, Failed, Cut, Misaligned
    <2>2. CASE AppWrites(e)
        BY <2>1, <2>2 DEF AppWrites, R!Next, R!Write
    <2>3. CASE AppReads(e)
        <3>1. Other(e) \in Ends \ {e} /\ tout[e] > 0 /\ Flow(Other(e), e)
            BY <2>3, OtherEnd DEF AppReads, IInv, Accounted
        <3>2. got[e] < sent[Other(e)] /\ ~told[e]
            BY <3>1, Sizes DEF IInv, Flow, Holds, Reasons
        <3> QED
            BY <2>1, <2>3, <3>1, <3>2 DEF AppReads, R!Next, R!Deliver
    <2>4. CASE AppSeesEnd(e)
        BY <2>1, <2>4 DEF AppSeesEnd, IInv, Reasons, R!Next, R!Tell
    <2>5. CASE AppShuts(e)
        BY <2>1, <2>5 DEF AppShuts, R!Next, R!Shut
    <2>6. CASE AppLeaves(e)
        BY <2>1, <2>6 DEF AppLeaves, R!Next, R!Shut
    <2> QED
        BY <1>1, <2>2, <2>3, <2>4, <2>5, <2>6 DEF App
<1>2. ASSUME UNCHANGED <<sent, got, shut, told>> PROVE [R!Next]_(R!vars)
    <2>1. (Failed \/ Cut)' = (Failed \/ Cut) \/ (Failed \/ Cut)' = TRUE
        BY StepFailed, StepCut DEF IInv, Failed, Cut
    <2> QED
        BY <1>2, <2>1 DEF R!Next, R!Fail, R!vars
<1>3. ASSUME NEW e \in Ends, Pump(e) \/ Misread(e) PROVE UNCHANGED <<sent, got, shut, told>>
    BY <1>3
        DEF Pump, ReadTcp, ReadTcpEnd, SendEof, SendData, SendFails, RecvHead, RecvData, Swallow,
            RecvEnd, WriteTcp, WriteGone, Misread
<1>4. ASSUME Opening PROVE UNCHANGED <<sent, got, shut, told>>
    BY <1>4 DEF Opening, OpenChannel, Dispatch, Route, Connect, Answered, NotOpened
<1>5. ASSUME LinkLost \/ UNCHANGED vars PROVE UNCHANGED <<sent, got, shut, told>>
    BY <1>5 DEF LinkLost, vars
<1> QED
    BY <1>1, <1>2, <1>3, <1>4, <1>5 DEF Next

\* Whatever the traffic, a tunnel of any capacity is a relay: it delivers
\* nothing but what was written, and an application that is told of the end
\* is so after one of the two closed its side, something failed or a frame
\* was cut.
THEOREM TunnelIsRelay == Spec => RelaySpec
BY Invariance, InitRelay, StepRelay, PTL DEF Spec, RelaySpec, R!Spec
=============================================================================
