--------------------------- MODULE Session_proofs ---------------------------
(***************************************************************************)
(* Theorems about one session channel, for any buffers, amounts of data,   *)
(* programs and failures.                                                  *)
(*                                                                         *)
(* The invariants, each resting on those before it: types (Typed), where   *)
(* the child is when the server's task is where it is (Lives), how far     *)
(* both ends are while the session starts (Setup), the account of the      *)
(* input, which bounds what a program can write (InputBound), the place of *)
(* the Eof in the stream (Ordered), and the account of the output          *)
(* (Output).                                                               *)
(***************************************************************************)
EXTENDS Session, SequenceTheorems, FiniteSetTheorems, TLAPS

USE DEF reader, Arrives, Received, Dropped

(***************************************************************************)
(* Sequences, and counting in them.                                        *)
(***************************************************************************)
LEMMA SumNat == \A a, b, c, d, e \in Nat : a + b + c + d + e \in Nat
OBVIOUS

LEMMA Within == \A l \in Nat : \A n \in 0..l : \A i \in 1..n : i \in 1..l
OBVIOUS

LEMMA Following == \A l \in Nat \ {0} : \A i \in 1..(l - 1) : i \in Nat /\ i + 1 \in 1..l
OBVIOUS

LEMMA AppendFacts ==
    ASSUME NEW S, NEW q \in Seq(S), NEW m \in S
    PROVE  /\ Append(q, m) \in Seq(S)
           /\ Len(q) \in Nat /\ DOMAIN q = 1..Len(q)
           /\ DOMAIN Append(q, m) = 1..(Len(q) + 1)
           /\ \A i \in 1..Len(q) : Append(q, m)[i] = q[i]
           /\ Append(q, m)[Len(q) + 1] = m
BY LenProperties, AppendProperties

LEMMA TailFacts ==
    ASSUME NEW S, NEW q \in Seq(S), q # <<>>
    PROVE  /\ Head(q) \in S /\ Tail(q) \in Seq(S)
           /\ Len(q) \in Nat \ {0} /\ DOMAIN q = 1..Len(q)
           /\ DOMAIN Tail(q) = 1..(Len(q) - 1)
           /\ \A i \in 1..(Len(q) - 1) : Tail(q)[i] = q[i + 1]
           /\ Head(q) = q[1]
BY EmptySeq, LenProperties, HeadTailProperties

LEMMA PrefixFacts ==
    ASSUME NEW S, NEW q \in Seq(S), NEW n \in 0..Len(q)
    PROVE  /\ SubSeq(q, 1, n) \in Seq(S)
           /\ Len(q) \in Nat /\ DOMAIN q = 1..Len(q)
           /\ DOMAIN SubSeq(q, 1, n) = 1..n
           /\ \A i \in 1..n : SubSeq(q, 1, n)[i] = q[i]
           /\ SubSeq(q, 1, n) # <<>> => q # <<>> /\ Head(SubSeq(q, 1, n)) = Head(q)
<1>1. Len(q) \in Nat /\ DOMAIN q = 1..Len(q) /\ n \in Nat
    BY LenProperties
<1>2. \A i \in 1..n : q[i] \in S
    BY <1>1, ElementOfSeq
<1>3. /\ SubSeq(q, 1, n) \in Seq(S) /\ Len(SubSeq(q, 1, n)) = n
      /\ \A i \in 1..n : SubSeq(q, 1, n)[i] = q[i]
    BY <1>1, <1>2, SubSeqProperties
<1>4. DOMAIN SubSeq(q, 1, n) = 1..n
    BY <1>3, LenProperties
<1>5. ASSUME SubSeq(q, 1, n) # <<>>
      PROVE  q # <<>> /\ Head(SubSeq(q, 1, n)) = Head(q)
    <2>1. n > 0
        BY <1>1, <1>3, <1>5, EmptySeq
    <2>2. q # <<>>
        BY <1>1, <2>1, EmptySeq
    <2> QED
        BY <1>1, <1>3, <1>5, <2>1, <2>2, TailFacts
<1> QED
    BY <1>1, <1>3, <1>4, <1>5

Places(q, kind) == {n \in DOMAIN q : q[n].kind = kind}

LEMMA CountType ==
    ASSUME NEW S, NEW q \in Seq(S), NEW kind
    PROVE  /\ IsFiniteSet(Places(q, kind))
           /\ Count(q, kind) = Cardinality(Places(q, kind))
           /\ Count(q, kind) \in Nat
<1>1. Len(q) \in Nat /\ DOMAIN q = 1..Len(q)
    BY LenProperties
<1>2. IsFiniteSet(1..Len(q))
    BY <1>1, FS_Interval
<1>3. IsFiniteSet(Places(q, kind))
    BY <1>1, <1>2, FS_Subset DEF Places
<1>4. Count(q, kind) = Cardinality(Places(q, kind))
    BY DEF Count, Places
<1> QED
    BY <1>3, <1>4, FS_CardinalityType

LEMMA CountNone ==
    ASSUME NEW q, NEW kind, \A n \in DOMAIN q : q[n].kind # kind
    PROVE  Count(q, kind) = 0
<1>1. {n \in DOMAIN q : q[n].kind = kind} = {}
    OBVIOUS
<1> QED
    BY <1>1, FS_EmptySet DEF Count

LEMMA CountEmpty == \A kind : Count(<<>>, kind) = 0
BY CountNone

LEMMA CountSome ==
    ASSUME NEW q, NEW kind, Count(q, kind) # 0
    PROVE  \E n \in DOMAIN q : q[n].kind = kind
BY CountNone

LEMMA CountZero ==
    ASSUME NEW S, NEW q \in Seq(S), NEW kind, Count(q, kind) = 0
    PROVE  \A n \in DOMAIN q : q[n].kind # kind
<1>1. IsFiniteSet(Places(q, kind)) /\ Cardinality(Places(q, kind)) = 0
    BY CountType
<1>2. Places(q, kind) = {}
    BY <1>1, FS_EmptySet
<1> QED
    BY <1>2 DEF Places

LEMMA CountAppend ==
    ASSUME NEW S, NEW q \in Seq(S), NEW m \in S, NEW kind
    PROVE  Count(Append(q, m), kind) = Count(q, kind) + (IF m.kind = kind THEN 1 ELSE 0)
<1> DEFINE l == Len(q) + 1
<1>1. /\ Len(q) \in Nat /\ DOMAIN q = 1..Len(q)
      /\ DOMAIN Append(q, m) = 1..l
      /\ \A i \in 1..Len(q) : Append(q, m)[i] = q[i]
      /\ Append(q, m)[l] = m
      /\ Append(q, m) \in Seq(S)
    BY AppendFacts
<1>2. /\ IsFiniteSet(Places(q, kind)) /\ Count(q, kind) = Cardinality(Places(q, kind))
      /\ Count(q, kind) \in Nat
      /\ Count(Append(q, m), kind) = Cardinality(Places(Append(q, m), kind))
    BY <1>1, CountType
<1>3. l \notin Places(q, kind)
    BY <1>1 DEF Places
<1>4. Places(Append(q, m), kind) = IF m.kind = kind THEN Places(q, kind) \cup {l} ELSE Places(q, kind)
    BY <1>1 DEF Places
<1>5. Cardinality(Places(q, kind) \cup {l}) = Cardinality(Places(q, kind)) + 1
    BY <1>2, <1>3, FS_AddElement
<1> QED
    BY <1>2, <1>4, <1>5

LEMMA CountTail ==
    ASSUME NEW S, NEW q \in Seq(S), q # <<>>, NEW kind
    PROVE  Count(q, kind) = Count(Tail(q), kind) + (IF Head(q).kind = kind THEN 1 ELSE 0)
<1>1. /\ Tail(q) \in Seq(S)
      /\ Len(q) \in Nat \ {0} /\ DOMAIN q = 1..Len(q)
      /\ DOMAIN Tail(q) = 1..(Len(q) - 1)
      /\ \A i \in 1..(Len(q) - 1) : Tail(q)[i] = q[i + 1]
      /\ Head(q) = q[1]
    BY TailFacts
<1> DEFINE T == Places(Tail(q), kind)
           U == Places(q, kind) \ {1}
           f == [n \in T |-> n + 1]
<1>2. /\ IsFiniteSet(Places(q, kind)) /\ IsFiniteSet(T)
      /\ Count(q, kind) = Cardinality(Places(q, kind))
      /\ Count(Tail(q), kind) = Cardinality(T)
      /\ Count(q, kind) \in Nat
    BY <1>1, CountType
<1>3. f \in Bijection(T, U)
    <2>1. \A n \in T : n \in 1..(Len(q) - 1) /\ n + 1 \in U
        BY <1>1 DEF Places
    <2>2. f \in [T -> U]
        BY <2>1
    <2>3. \A a, b \in T : f[a] = f[b] => a = b
        BY <2>1
    <2>4. \A u \in U : \E n \in T : f[n] = u
        <3> SUFFICES ASSUME NEW u \in U PROVE \E n \in T : f[n] = u
            OBVIOUS
        <3>1. u \in 2..Len(q) /\ q[u].kind = kind
            BY <1>1 DEF Places
        <3>2. u - 1 \in 1..(Len(q) - 1) /\ Tail(q)[u - 1] = q[u]
            BY <1>1, <3>1
        <3>3. u - 1 \in T /\ (u - 1) + 1 = u
            BY <1>1, <3>1, <3>2 DEF Places
        <3> QED
            BY <3>3
    <2> QED
        BY <2>2, <2>3, <2>4 DEF Bijection, Injection, Surjection, IsInjective
<1>4. Cardinality(U) = Cardinality(T)
    BY <1>2, <1>3, FS_Bijection DEF ExistsBijection
<1>5. 1 \in Places(q, kind) <=> Head(q).kind = kind
    BY <1>1 DEF Places
<1>6. Cardinality(U) = IF 1 \in Places(q, kind) THEN Count(q, kind) - 1 ELSE Count(q, kind)
    BY <1>2, FS_RemoveElement
<1> QED
    BY <1>2, <1>4, <1>5, <1>6

LEMMA CountPrefix ==
    ASSUME NEW S, NEW q \in Seq(S), NEW n \in 0..Len(q), NEW kind
    PROVE  /\ Count(SubSeq(q, 1, n), kind) <= Count(q, kind)
           /\ (\A i \in Places(q, kind) : i <= n) => Count(SubSeq(q, 1, n), kind) = Count(q, kind)
<1> DEFINE p == SubSeq(q, 1, n)
<1>1. /\ p \in Seq(S) /\ Len(q) \in Nat /\ DOMAIN q = 1..Len(q) /\ DOMAIN p = 1..n
      /\ \A i \in 1..n : p[i] = q[i]
    BY PrefixFacts
<1> HIDE DEF p
<1>2. /\ IsFiniteSet(Places(q, kind))
      /\ Count(q, kind) = Cardinality(Places(q, kind))
      /\ Count(p, kind) = Cardinality(Places(p, kind))
    BY <1>1, CountType
<1>3. Places(p, kind) \subseteq Places(q, kind)
    BY <1>1 DEF Places
<1>4. (\A i \in Places(q, kind) : i <= n) => Places(p, kind) = Places(q, kind)
    BY <1>1 DEF Places
<1>5. Cardinality(Places(p, kind)) <= Cardinality(Places(q, kind))
    BY <1>2, <1>3, FS_Subset
<1> QED
    BY <1>2, <1>4, <1>5 DEF p

\* The messages that end a session are appended one after another.
LEMMA AppendAll ==
    ASSUME NEW S, NEW q \in Seq(S), NEW a \in S, NEW b \in S, NEW c \in S
    PROVE  /\ q \o <<a, b>> = Append(Append(q, a), b)
           /\ q \o <<a, b, c>> = Append(Append(Append(q, a), b), c)
<1>1. /\ <<a>> \in Seq(S) /\ <<b>> \in Seq(S) /\ <<c>> \in Seq(S)
      /\ <<a, b>> = <<a>> \o <<b>> /\ <<a, b>> \in Seq(S)
      /\ <<a, b, c>> = <<a, b>> \o <<c>>
    <2>1. <<a>> \in Seq(S) /\ <<b>> \in Seq(S) /\ <<c>> \in Seq(S)
        OBVIOUS
    <2>2. <<a, b>> \in Seq(S)
        OBVIOUS
    <2>3. <<a, b>> = Append(<<a>>, b)
        OBVIOUS
    <2>4. <<a, b, c>> = Append(<<a, b>>, c)
        OBVIOUS
    <2> QED
        BY <2>1, <2>2, <2>3, <2>4, AppendIsConcat
<1>2. Append(q, a) = q \o <<a>> /\ Append(q, a) \in Seq(S)
    BY AppendIsConcat, AppendProperties
<1>3. Append(Append(q, a), b) = Append(q, a) \o <<b>> /\ Append(Append(q, a), b) \in Seq(S)
    BY <1>2, AppendIsConcat, AppendProperties
<1>4. Append(Append(Append(q, a), b), c) = Append(Append(q, a), b) \o <<c>>
    BY <1>3, AppendIsConcat
<1>5. (q \o <<a>>) \o <<b>> = q \o <<a, b>>
    <2>1. (q \o <<a>>) \o <<b>> = q \o (<<a>> \o <<b>>)
        BY <1>1, ConcatAssociative
    <2> QED
        BY <1>1, <2>1
<1>6. (q \o <<a, b>>) \o <<c>> = q \o <<a, b, c>>
    <2>1. (q \o <<a, b>>) \o <<c>> = q \o (<<a, b>> \o <<c>>)
        BY <1>1, ConcatAssociative
    <2> QED
        BY <1>1, <2>1
<1> QED
    BY <1>2, <1>3, <1>4, <1>5, <1>6

(***************************************************************************)
(* Types.                                                                  *)
(***************************************************************************)
Sizes == /\ MaxIn \in Nat /\ MaxOut \in Nat
         /\ NetCap \in Nat \ {0} /\ BufCap \in Nat \ {0}

LEMMA SizeTypes == Sizes
BY SessionAssumption DEF Sizes

LEMMA CodeTypes == NoCode \notin AllCodes /\ Killed \in AllCodes /\ TimedOut \in AllCodes
BY SessionAssumption DEF AllCodes, NoCode, Killed, TimedOut

LEMMA MsgTypes ==
    /\ \A k \in AllRequests \cup {"open", "pty", "data", "eof", "close"} : Msg(k) \in ToServer
    /\ \A k \in {"confirm", "openfailure", "success", "failure", "data", "eof", "close"} :
         Msg(k) \in ToClient
    /\ \A c \in AllCodes : ExitStatus(c) \in ToClient
    /\ \A k : Msg(k).kind = k /\ Msg(k).code = NoCode
    /\ \A c : ExitStatus(c).kind = "exit" /\ ExitStatus(c).code = c
BY DEF ToServer, ToClient, Msg, ExitStatus

LEMMA ToClientCodes == \A m \in ToClient : m.code \in AllCodes \cup {NoCode}
BY DEF ToClient, Msg, ExitStatus

ChildType == [st : {"none", "running", "exited"}, code : AllCodes \cup {NoCode},
              hold : BOOLEAN, left : 0..MaxOut, open : BOOLEAN]

\* TypeOK, but for what bounds the chunks written and printed; and what has
\* ended has a code.
Typed ==
    /\ req \in Requests /\ prog \in Programs
    /\ link \in {"up", "closed"}
    /\ c2s \in Seq(ToServer) /\ s2c \in Seq(ToClient)
    /\ cl \in {"opening", "pty", "starting", "pumping", "waiting", "ended"}
    /\ stdin \in 0..MaxIn
    /\ out \in {"none", "running", "ended"}
    /\ status \in AllCodes \cup {NoCode}
    /\ result \in {"pending", "ok", "status", "error"}
    /\ srv \in {"opening", "requests", "pumping", "writing", "sending", "reaping",
                "reporting", "ended"}
    /\ seen \in AllCodes \cup {NoCode} /\ mid \in BOOLEAN /\ cut \in BOOLEAN
    /\ child \in ChildType
    /\ pin \in 0..BufCap /\ pout \in 0..BufCap
    /\ pinOpen \in BOOLEAN
    /\ got \in Nat /\ wrote \in Nat
    /\ child.st = "exited" => child.code # NoCode
    /\ srv = "reporting" => seen # NoCode

LEMMA InitTyped == Init => Typed
<1>1. <<Msg("open")>> \in Seq(ToServer) /\ <<>> \in Seq(ToClient)
    BY MsgTypes
<1>2. [Born EXCEPT !.st = "none"] \in ChildType /\ [Born EXCEPT !.st = "none"].st = "none"
    <2>1. Born \in ChildType
        BY SizeTypes DEF ChildType, Sizes, Born
    <2> QED
        BY <2>1 DEF ChildType
<1>3. ASSUME Init PROVE child \in ChildType /\ child.st = "none"
    BY <1>2, <1>3 DEF Init
<1>4. ASSUME Init PROVE Typed
    <2>1. c2s \in Seq(ToServer) /\ s2c \in Seq(ToClient) /\ mid \in BOOLEAN /\ cut \in BOOLEAN
        BY <1>1, <1>4 DEF Init
    <2>2. 0 \in 0..BufCap
        BY SizeTypes DEF Sizes
    <2> QED
        BY <1>3, <1>4, <2>1, <2>2 DEF Init, Typed
<1> QED
    BY <1>4

LEMMA ToSrvTyped ==
    ASSUME Typed, NEW kind \in AllRequests \cup {"open", "pty", "data", "eof", "close"},
           ToSrv(kind)
    PROVE  c2s' \in Seq(ToServer)
<1>1. Append(c2s, Msg(kind)) \in Seq(ToServer)
    BY MsgTypes, AppendProperties DEF Typed
<1> QED
    BY <1>1 DEF ToSrv, Typed

LEMMA ReturnsTyped ==
    ASSUME Typed, NEW r \in {"ok", "status", "error"}, Returns(r)
    PROVE  /\ c2s' \in Seq(ToServer) /\ s2c' \in Seq(ToClient)
           /\ cl' = "ended" /\ result' = r /\ link' = "closed" /\ out' = "ended"
<1>1. PICK n \in 0..Len(c2s) : c2s' = SubSeq(c2s, 1, n)
    BY DEF Returns
<1>2. SubSeq(c2s, 1, n) \in Seq(ToServer)
    BY PrefixFacts DEF Typed
<1> QED
    BY <1>1, <1>2, EmptySeq DEF Returns

LEMMA ClientTyped ==
    ASSUME Typed, ClientMain \/ ClientOutput
    PROVE  Typed'
<1>1. s2c # <<>> => Head(s2c) \in ToClient /\ Tail(s2c) \in Seq(ToClient)
    BY TailFacts DEF Typed
<1>2. c2s # <<>> => Tail(c2s) \in Seq(ToServer)
    BY TailFacts DEF Typed
<1>3. req \in AllRequests
    BY SessionAssumption DEF Typed
<1>4. CASE ReadConfirm
    <2>1. c2s' \in Seq(ToServer)
        BY <1>3, <1>4, ToSrvTyped DEF ReadConfirm
    <2> QED
        BY <1>1, <1>4, <2>1 DEF ReadConfirm, Typed, serverVars, childVars
<1>5. CASE ReadPtyReply
    <2>1. c2s' \in Seq(ToServer)
        BY <1>3, <1>5, ToSrvTyped DEF ReadPtyReply
    <2> QED
        BY <1>1, <1>5, <2>1 DEF ReadPtyReply, Typed, serverVars, childVars
<1>6. CASE ReadStartReply
    BY <1>1, <1>6 DEF ReadStartReply, Typed, serverVars, childVars
<1>7. CASE SetupFails
    BY <1>7, ReturnsTyped DEF SetupFails, Typed, serverVars, childVars
<1>8. CASE SendStdin
    <2>1. c2s' \in Seq(ToServer)
        BY <1>8, ToSrvTyped DEF SendStdin
    <2>2. stdin' \in 0..MaxIn
        BY <1>8, SizeTypes DEF SendStdin, Typed, Sizes
    <2> QED
        BY <1>8, <2>1, <2>2 DEF SendStdin, Typed, serverVars, childVars
<1>9. CASE SendStdinFails
    BY <1>9, ReturnsTyped DEF SendStdinFails, Typed, serverVars, childVars
<1>10. CASE StdinEof
    <2>1. c2s' \in Seq(ToServer)
        BY <1>10, ToSrvTyped DEF StdinEof, Typed
    <2> QED
        BY <1>10, <2>1 DEF StdinEof, Typed, serverVars, childVars
<1>11. CASE OutputJoined
    BY <1>11 DEF OutputJoined, Typed, serverVars, childVars
<1>12. CASE Finish
    <2>1. PICK r \in {"ok", "status", "error"} : Returns(r)
        BY <1>12 DEF Finish
    <2> QED
        BY <1>12, <2>1, ReturnsTyped DEF Finish, Typed, serverVars, childVars
<1>13. CASE PrintData
    BY <1>1, <1>13 DEF PrintData, Typed, serverVars, childVars
<1>14. CASE OutputEnds
    <2>1. status' \in AllCodes \cup {NoCode}
        BY <1>1, <1>14, ToClientCodes DEF OutputEnds
    <2>2. s2c' \in Seq(ToClient)
        BY <1>14, EmptySeq DEF OutputEnds
    <2> QED
        BY <1>14, <2>1, <2>2 DEF OutputEnds, Typed, serverVars, childVars
<1> QED
    BY <1>4, <1>5, <1>6, <1>7, <1>8, <1>9, <1>10, <1>11, <1>12, <1>13, <1>14
       DEF ClientMain, ClientOutput

LEMMA KilledChildType ==
    ASSUME Typed
    PROVE  /\ KilledChild \in ChildType /\ KilledChild.st # "running"
           /\ KilledChild.st = "exited" => KilledChild.code # NoCode
           /\ KilledChild.hold = child.hold /\ KilledChild.left = child.left
           /\ child.st = "exited" => KilledChild = child
           /\ child.st = "none" <=> KilledChild.st = "none"
BY CodeTypes DEF Typed, ChildType, KilledChild

LEMMA ServerTyped ==
    ASSUME Typed, Server
    PROVE  Typed'
<1>1. /\ c2s # <<>> => Tail(c2s) \in Seq(ToServer)
      /\ <<>> \in Seq(ToServer)
    BY TailFacts, EmptySeq DEF Typed
<1>2. \A k \in {"confirm", "openfailure", "success", "failure", "data", "eof", "close"} :
          Append(s2c, Msg(k)) \in Seq(ToClient)
    BY MsgTypes, AppendProperties DEF Typed
<1>0. Dropped => c2s' \in Seq(ToServer) /\ mid' \in BOOLEAN /\ cut' \in BOOLEAN
    <2>1. (cut \/ mid) \in BOOLEAN
        OBVIOUS
    <2> QED
        BY <1>1, <2>1 DEF Typed
<1>3. CASE AcceptOpen
    <2>1. s2c' \in Seq(ToClient) /\ c2s' \in Seq(ToServer)
        BY <1>1, <1>2, <1>3 DEF AcceptOpen, TaskEnds, Typed
    <2>2. srv' \in {"requests", "ended"}
        BY <1>3 DEF AcceptOpen, TaskEnds
    <2> QED
        BY <1>3, <2>1, <2>2 DEF AcceptOpen, Typed, clientVars, childVars
<1>4. CASE PtyRequest
    <2>1. s2c' \in Seq(ToClient) /\ c2s' \in Seq(ToServer) /\ srv' \in {srv, "ended"}
        BY <1>1, <1>2, <1>4 DEF PtyRequest, Typed
    <2> QED
        BY <1>4, <2>1 DEF PtyRequest, Typed, clientVars, childVars
<1>5. CASE StartRequest
    <2>1. Born \in ChildType
        BY SizeTypes DEF ChildType, Sizes, Born
    <2>2. \/ child' = child
          \/ child' = Born
        BY <1>5 DEF StartRequest
    <2>3. child' \in ChildType /\ (child'.st = "exited" => child'.code # NoCode)
        <3>1. CASE child' = child
            BY <3>1 DEF Typed
        <3>2. CASE child' = Born
            <4>1. child' \in ChildType
                BY <2>1, <3>2
            <4> QED
                BY <3>2, <4>1 DEF Born
        <3> QED
            BY <2>2, <3>1, <3>2
    <2>4. s2c' \in Seq(ToClient) /\ c2s' \in Seq(ToServer) /\ srv' \in {"pumping", "ended"}
        BY <1>1, <1>2, <1>5 DEF StartRequest, TaskEnds, Typed
    <2> QED
        BY <1>5, <2>3, <2>4 DEF StartRequest, Typed, clientVars, childVars
<1>6. CASE UnknownSubsystem
    <2>1. s2c \o <<Msg("failure"), Msg("close")>> \in Seq(ToClient)
        <3>1. Msg("failure") \in ToClient /\ Msg("close") \in ToClient
            BY MsgTypes
        <3>2. Append(Append(s2c, Msg("failure")), Msg("close")) \in Seq(ToClient)
            BY <1>2, <3>1, AppendProperties
        <3> QED
            BY <3>1, <3>2, AppendAll DEF Typed
    <2> QED
        BY <1>1, <1>6, <2>1 DEF UnknownSubsystem, TaskEnds, Typed, clientVars, childVars
<1>7. CASE ClientGoneEarly
    BY <1>1, <1>7 DEF ClientGoneEarly, TaskEnds, Typed, clientVars, childVars
<1>8. CASE PumpOutput
    <2>1. pout' \in 0..BufCap
        BY <1>8, SizeTypes DEF PumpOutput, Typed, Sizes
    <2>2. s2c' \in Seq(ToClient) /\ srv' \in {"pumping", "sending"}
        BY <1>2, <1>8 DEF PumpOutput, Typed
    <2> QED
        BY <1>0, <1>8, <2>1, <2>2 DEF PumpOutput, Typed, clientVars, childVars
<1>9. CASE Sent
    <2>1. s2c' \in Seq(ToClient)
        BY <1>2, <1>9 DEF Sent
    <2> QED
        BY <1>9, <2>1 DEF Sent, Typed, clientVars, childVars
<1>10. CASE OutputEof
    BY <1>10 DEF OutputEof, Typed, clientVars, childVars
<1>11. CASE PumpInput
    <2>1. pin' \in 0..BufCap
        BY <1>11, SizeTypes DEF PumpInput, Typed, Sizes
    <2>2. /\ c2s' \in Seq(ToServer) /\ mid' \in BOOLEAN /\ cut' = cut
          /\ srv' \in {"pumping", "writing"}
          /\ UNCHANGED <<req, prog, link, s2c, clientVars, seen, child, pinOpen, pout, wrote>>
        BY <1>1, <1>11 DEF PumpInput
    <2> QED
        BY <2>1, <2>2 DEF Typed, clientVars
<1>12. CASE Written
    <2>1. pin' \in 0..BufCap
        BY <1>12, SizeTypes DEF Written, Typed, Sizes
    <2> QED
        BY <1>12, <2>1 DEF Written, Typed, clientVars, childVars
<1>13. CASE InputFails
    <2>1. c2s' \in Seq(ToServer)
        BY <1>1, <1>13 DEF InputFails, Typed
    <2>2. pinOpen' \in BOOLEAN
        BY <1>13 DEF InputFails, Pty
    <2>3. srv' \in {"ended", "pumping"} /\ mid' \in BOOLEAN /\ cut' \in BOOLEAN
        BY <1>13 DEF InputFails, Typed
    <2>4. UNCHANGED <<req, prog, link, s2c, clientVars, seen, child, pin, pout, wrote>>
        BY <1>13 DEF InputFails
    <2> QED
        BY <2>1, <2>2, <2>3, <2>4 DEF Typed, clientVars
<1>14. CASE InputEof
    <2>1. pinOpen' \in BOOLEAN
        BY <1>14 DEF InputEof, Pty
    <2>2. /\ c2s' \in Seq(ToServer) /\ mid' \in BOOLEAN /\ cut' = cut
          /\ UNCHANGED <<req, prog, link, s2c, clientVars, srv, seen, child, pin, pout, wrote>>
        BY <1>1, <1>14 DEF InputEof
    <2> QED
        BY <2>1, <2>2 DEF Typed, clientVars
<1>15. CASE ClientGone
    BY <1>15, KilledChildType DEF ClientGone, Typed, clientVars, childVars
<1>16. CASE ChildExited
    <2>1. child.code \in AllCodes \cup {NoCode}
        BY DEF Typed, ChildType
    <2> QED
        BY <1>0, <1>16, <2>1 DEF ChildExited, Typed, clientVars, childVars
<1>17. CASE Reap
    <2>1. child.code \in AllCodes \cup {NoCode}
        BY DEF Typed, ChildType
    <2>2. seen' \in AllCodes /\ child' \in ChildType /\ (child'.st = "exited" => child'.code # NoCode)
        BY <1>17, <2>1, CodeTypes, KilledChildType DEF Reap, Typed
    <2> QED
        BY <1>17, <2>2, CodeTypes DEF Reap, Typed, clientVars, childVars
<1>18. CASE Report
    <2>1. s2c' \in Seq(ToClient)
        <3>1. CASE ServerCanSend
            <4>1. /\ Msg("eof") \in ToClient /\ Msg("close") \in ToClient
                  /\ ExitStatus(seen) \in ToClient
                BY <1>18, MsgTypes DEF Report, Typed
            <4>2. Append(Append(Append(s2c, Msg("eof")), ExitStatus(seen)), Msg("close"))
                      \in Seq(ToClient)
                BY <1>2, <4>1, AppendProperties
            <4> QED
                BY <1>18, <3>1, <4>1, <4>2, AppendAll DEF Report, Typed
        <3> QED
            BY <1>18, <3>1 DEF Report, Typed
    <2> QED
        BY <1>1, <1>18, <2>1 DEF Report, TaskEnds, Typed, clientVars, childVars
<1>19. CASE RecvHead \/ OtherBranch \/ Swallow \/ Misread
    BY <1>1, <1>19, KilledChildType
       DEF RecvHead, OtherBranch, Swallow, Misread, Typed, clientVars, serverVars, childVars
<1> QED
    BY <1>3, <1>4, <1>5, <1>6, <1>7, <1>8, <1>9, <1>10, <1>11, <1>12, <1>13, <1>14, <1>15,
       <1>16, <1>17, <1>18, <1>19 DEF Server, ServerRuns

LEMMA ChildTyped ==
    ASSUME Typed, Child
    PROVE  Typed'
<1>1. CASE ChildWrites
    <2>1. child' \in ChildType /\ child'.st = "running"
        <3>1. child \in ChildType /\ child.st = "running"
            BY <1>1 DEF ChildWrites, Typed
        <3>2. CASE child' = [child EXCEPT !.hold = FALSE]
            BY <3>1, <3>2 DEF ChildType
        <3>3. CASE child.left > 0 /\ child' = [child EXCEPT !.left = @ - 1]
            <4>1. child.left - 1 \in 0..MaxOut
                BY <3>1, <3>3, SizeTypes DEF ChildType, Sizes
            <4> QED
                BY <3>1, <3>3, <4>1 DEF ChildType
        <3> QED
            BY <1>1, <3>2, <3>3 DEF ChildWrites
    <2>2. pout' \in 0..BufCap /\ wrote' \in Nat
        BY <1>1, SizeTypes DEF ChildWrites, Typed, Sizes
    <2> QED
        BY <1>1, <2>1, <2>2 DEF ChildWrites, Typed, clientVars, serverVars
<1>2. CASE ChildReads
    <2>1. child' \in ChildType /\ child'.st = "running"
        BY <1>2 DEF ChildReads, Typed, ChildType
    <2>2. pin' \in 0..BufCap
        BY <1>2, SizeTypes DEF ChildReads, Typed, Sizes
    <2> QED
        BY <1>2, <2>1, <2>2 DEF ChildReads, Typed, clientVars, serverVars
<1>3. CASE ChildExits
    <2>1. PICK code \in Codes : child' = [child EXCEPT !.st = "exited", !.code = code]
        BY <1>3 DEF ChildExits
    <2>2. code \in AllCodes
        BY DEF AllCodes
    <2>3. child' \in ChildType /\ child'.code = code
        BY <2>1, <2>2 DEF Typed, ChildType
    <2> QED
        BY <1>3, <2>2, <2>3, CodeTypes DEF ChildExits, Typed, clientVars, serverVars
<1>4. CASE ChildClosesOutput
    <2>1. child' \in ChildType /\ child'.st = "running"
        <3>1. child \in ChildType /\ child.st = "running" /\ 0 \in 0..MaxOut
            BY <1>4, SizeTypes DEF ChildClosesOutput, Typed, Sizes
        <3>2. child' = [child EXCEPT !.open = FALSE, !.left = 0]
            BY <1>4 DEF ChildClosesOutput
        <3> QED
            BY <3>1, <3>2 DEF ChildType
    <2> QED
        BY <1>4, <2>1 DEF ChildClosesOutput, Typed, clientVars, serverVars
<1> QED
    BY <1>1, <1>2, <1>3, <1>4 DEF Child, ChildRuns

LEMMA LinkLostTyped ==
    ASSUME Typed, LinkLost
    PROVE  Typed'
<1>1. PICK n \in 0..Len(c2s), m \in 0..Len(s2c) :
          c2s' = SubSeq(c2s, 1, n) /\ s2c' = SubSeq(s2c, 1, m)
    BY DEF LinkLost
<1>2. SubSeq(c2s, 1, n) \in Seq(ToServer) /\ SubSeq(s2c, 1, m) \in Seq(ToClient)
    BY PrefixFacts DEF Typed
<1> QED
    BY <1>1, <1>2 DEF LinkLost, Typed, clientVars, serverVars, childVars

LEMMA StepTyped == Typed /\ [Next]_vars => Typed'
<1> SUFFICES ASSUME Typed, [Next]_vars PROVE Typed'
    OBVIOUS
<1>1. CASE UNCHANGED vars
    BY <1>1 DEF vars, Typed
<1> QED
    BY <1>1, ClientTyped, ServerTyped, ChildTyped, LinkLostTyped DEF Next

(***************************************************************************)
(* Where client, server and child stand.                                   *)
(***************************************************************************)
Start == {"opening", "requests"}

\* The child is spawned by the request that starts it, and is not running any
\* more when its end is reported or its task ends. A PTY is never half-closed.
\* A client that returned has closed the connection, and so it never sends the
\* Close that the pumps look for.
Lives ==
    /\ srv \in Start => child.st = "none"
    /\ srv \in {"reporting", "ended"} => child.st # "running"
    /\ Pty => pinOpen
    /\ cl = "ended" => link = "closed"
    /\ cl \in {"opening", "pty", "starting"} => out = "none"
    /\ \A n \in DOMAIN c2s : c2s[n].kind # "close"

LEMMA NoCloseSent ==
    ASSUME Typed, \A n \in DOMAIN c2s : c2s[n].kind # "close"
    PROVE  /\ \A kind \in AllRequests \cup {"open", "pty", "data", "eof"} :
                ToSrv(kind) => \A n \in DOMAIN c2s' : c2s'[n].kind # "close"
           /\ c2s # <<>> => Head(c2s).kind # "close"
           /\ c2s # <<>> => \A n \in DOMAIN Tail(c2s) : Tail(c2s)[n].kind # "close"
           /\ \A n \in DOMAIN <<>> : <<>>[n].kind # "close"
           /\ \A k \in 0..Len(c2s) : \A n \in DOMAIN SubSeq(c2s, 1, k) : SubSeq(c2s, 1, k)[n].kind # "close"
<1>1. ASSUME NEW kind \in AllRequests \cup {"open", "pty", "data", "eof"}, ToSrv(kind)
      PROVE  \A n \in DOMAIN c2s' : c2s'[n].kind # "close"
    <2>1. Msg(kind) \in ToServer /\ Msg(kind).kind # "close"
        BY MsgTypes DEF AllRequests
    <2>2. /\ DOMAIN c2s = 1..Len(c2s) /\ Len(c2s) \in Nat
          /\ DOMAIN Append(c2s, Msg(kind)) = 1..(Len(c2s) + 1)
          /\ \A i \in 1..Len(c2s) : Append(c2s, Msg(kind))[i] = c2s[i]
          /\ Append(c2s, Msg(kind))[Len(c2s) + 1] = Msg(kind)
        BY <2>1, AppendFacts DEF Typed
    <2>3. \A n \in DOMAIN Append(c2s, Msg(kind)) : Append(c2s, Msg(kind))[n].kind # "close"
        BY <2>1, <2>2
    <2> QED
        BY <1>1, <2>3 DEF ToSrv
<1>2. ASSUME c2s # <<>>
      PROVE  /\ Head(c2s).kind # "close"
             /\ \A n \in DOMAIN Tail(c2s) : Tail(c2s)[n].kind # "close"
    BY <1>2, TailFacts DEF Typed
<1>3. ASSUME NEW k \in 0..Len(c2s)
      PROVE  \A n \in DOMAIN SubSeq(c2s, 1, k) : SubSeq(c2s, 1, k)[n].kind # "close"
    BY PrefixFacts DEF Typed
<1> QED
    BY <1>1, <1>2, <1>3

LEMMA InitLives == Init => Lives
<1>1. Init => \A n \in DOMAIN c2s : c2s[n].kind # "close"
    BY MsgTypes DEF Init
<1> QED
    BY <1>1 DEF Init, Lives, Start

LEMMA ReturnsLives ==
    ASSUME Typed, Lives, NEW r, Returns(r)
    PROVE  \A n \in DOMAIN c2s' : c2s'[n].kind # "close"
BY NoCloseSent DEF Returns, Lives

LEMMA ClientLives ==
    ASSUME Typed, Lives, ClientMain \/ ClientOutput
    PROVE  Lives'
<1>1. req \in AllRequests
    BY SessionAssumption DEF Typed
<1>2. CASE SetupFails \/ SendStdinFails \/ Finish
    <2>1. PICK r : Returns(r)
        BY <1>2 DEF SetupFails, SendStdinFails, Finish
    <2>2. UNCHANGED <<req, srv, child, pinOpen>>
        BY <1>2 DEF SetupFails, SendStdinFails, Finish, serverVars, childVars
    <2>3. cl' = "ended" /\ link' = "closed"
        BY <2>1 DEF Returns
    <2> QED
        BY <2>1, <2>2, <2>3, ReturnsLives DEF Lives, Pty
<1>3. CASE ReadConfirm \/ ReadPtyReply \/ SendStdin \/ StdinEof
    <2>1. /\ UNCHANGED <<req, link, srv, child, pinOpen, out>>
          /\ cl' # "ended"
          /\ cl' \in {"opening", "pty", "starting"} => cl \in {"opening", "pty", "starting"}
        BY <1>3 DEF ReadConfirm, ReadPtyReply, SendStdin, StdinEof, serverVars, childVars
    <2>2. c2s' = c2s \/ \E kind \in AllRequests \cup {"open", "pty", "data", "eof"} : ToSrv(kind)
        BY <1>1, <1>3 DEF ReadConfirm, ReadPtyReply, SendStdin, StdinEof
    <2>3. \A n \in DOMAIN c2s' : c2s'[n].kind # "close"
        BY <2>2, NoCloseSent DEF Lives
    <2> QED
        BY <2>1, <2>3 DEF Lives, Pty
<1>4. CASE ReadStartReply \/ OutputJoined \/ PrintData \/ OutputEnds
    BY <1>4 DEF ReadStartReply, OutputJoined, PrintData, OutputEnds, Lives, Pty,
                serverVars, childVars
<1> QED
    BY <1>2, <1>3, <1>4 DEF ClientMain, ClientOutput

LEMMA ServerLives ==
    ASSUME Typed, Lives, Server
    PROVE  Lives'
<1>1. UNCHANGED <<req, link, cl, out>>
    BY DEF Server, ServerRuns, AcceptOpen, PtyRequest, StartRequest, UnknownSubsystem, ClientGoneEarly,
           RecvHead, OtherBranch, Swallow, Misread, PumpOutput, Sent, OutputEof, PumpInput, Written, InputFails, InputEof, ClientGone,
           ChildExited, Reap, Report, clientVars
<1>2. c2s' \in {c2s, Tail(c2s), <<>>} /\ (c2s' = Tail(c2s) => c2s # <<>> \/ c2s' = c2s \/ c2s' = <<>>)
    BY DEF Server, ServerRuns, AcceptOpen, PtyRequest, StartRequest, UnknownSubsystem, ClientGoneEarly,
           RecvHead, OtherBranch, Swallow, Misread, PumpOutput, Sent, OutputEof, PumpInput, Written, InputFails, InputEof, ClientGone,
           ChildExited, Reap, Report, TaskEnds
<1>3. \A n \in DOMAIN c2s' : c2s'[n].kind # "close"
    BY <1>2, NoCloseSent DEF Lives
<1>4. Pty => pinOpen'
    BY DEF Server, ServerRuns, AcceptOpen, PtyRequest, StartRequest, UnknownSubsystem, ClientGoneEarly,
           RecvHead, OtherBranch, Swallow, Misread, PumpOutput, Sent, OutputEof, PumpInput, Written, InputFails, InputEof, ClientGone,
           ChildExited, Reap, Report, childVars, Lives
<1>5. /\ srv' \in Start => child'.st = "none"
      /\ srv' \in {"reporting", "ended"} => child'.st # "running"
    <2>1. CASE AcceptOpen \/ PtyRequest \/ StartRequest \/ UnknownSubsystem \/ ClientGoneEarly
        BY <2>1 DEF AcceptOpen, PtyRequest, StartRequest, UnknownSubsystem, ClientGoneEarly,
                    TaskEnds, childVars, Lives, Start
    <2>2. CASE PumpOutput \/ Sent \/ OutputEof \/ PumpInput \/ Written \/ InputEof
        BY <2>2 DEF PumpOutput, Sent, OutputEof, PumpInput, Written, InputEof,
                    childVars, serverVars, Lives, Start
    <2>3. CASE InputFails
        BY <2>3 DEF InputFails, childVars, Lives, Start
    <2>4. CASE ClientGone \/ ChildExited \/ Reap \/ Report
        BY <2>4, KilledChildType
           DEF ClientGone, ChildExited, Reap, Report, TaskEnds, childVars, Lives, Start
    <2>5. CASE RecvHead \/ OtherBranch \/ Swallow \/ Misread
        BY <2>5 DEF RecvHead, OtherBranch, Swallow, Misread, childVars, serverVars, Lives, Start
    <2> QED
        BY <2>1, <2>2, <2>3, <2>4, <2>5 DEF Server, ServerRuns
<1> QED
    BY <1>1, <1>3, <1>4, <1>5 DEF Lives, Pty

LEMMA ChildLives ==
    ASSUME Typed, Lives, Child \/ LinkLost
    PROVE  Lives'
<1>1. CASE Child
    <2>1. /\ UNCHANGED <<req, link, cl, out, srv, c2s, pinOpen>>
          /\ child.st = "running"
        BY <1>1 DEF Child, ChildRuns, ChildClosesOutput, ChildWrites, ChildReads, ChildExits, clientVars, serverVars
    <2>2. child'.st \in {"running", "exited"}
        BY <1>1 DEF Child, ChildRuns, ChildClosesOutput, ChildWrites, ChildReads, ChildExits, Typed, ChildType
    <2> QED
        BY <2>1, <2>2 DEF Lives, Pty
<1>2. CASE LinkLost
    <2>1. PICK n \in 0..Len(c2s) : c2s' = SubSeq(c2s, 1, n)
        BY <1>2 DEF LinkLost
    <2>2. \A k \in DOMAIN c2s' : c2s'[k].kind # "close"
        BY <2>1, NoCloseSent DEF Lives
    <2> QED
        BY <1>2, <2>2 DEF LinkLost, Lives, Pty, clientVars, serverVars, childVars
<1> QED
    BY <1>1, <1>2

LEMMA StepLives == Typed /\ Lives /\ [Next]_vars => Lives'
<1> SUFFICES ASSUME Typed, Lives, [Next]_vars PROVE Lives'
    OBVIOUS
<1>1. CASE UNCHANGED vars
    BY <1>1 DEF vars, Lives, Pty
<1> QED
    BY <1>1, ClientLives, ServerLives, ChildLives DEF Next

\* No child survives its channel task, however the two end.
THEOREM ChildReaped == Spec => []NoOrphanChild
<1>1. Init => Typed /\ Lives
    BY InitTyped, InitLives
<1>2. Typed /\ Lives /\ [Next]_vars => (Typed /\ Lives)'
    BY StepTyped, StepLives
<1>3. Lives => NoOrphanChild
    BY DEF Lives, NoOrphanChild
<1> QED
    BY <1>1, <1>2, <1>3, PTL DEF Spec

(***************************************************************************)
(* The exchange before the session runs. The client skips two messages     *)
(* without a look; they are replies because of how far both ends can be.   *)
(***************************************************************************)
Early == {"opening", "pty", "starting"}
IsReply(m) == m.kind \in {"success", "failure"}

\* While the connection is up, where both ends are and what is under way.
InStep ==
    \/ cl = "opening" /\ srv = "opening" /\ c2s = <<Msg("open")>> /\ s2c = <<>>
    \/ cl = "opening" /\ srv = "requests" /\ c2s = <<>> /\ s2c = <<Msg("confirm")>>
    \/ cl = "opening" /\ srv = "ended" /\ s2c = <<Msg("openfailure")>>
    \/ cl = "pty" /\ req = "shell" /\ srv = "requests" /\ c2s = <<Msg("pty")>> /\ s2c = <<>>
    \/ cl = "pty" /\ req = "shell" /\ srv = "requests" /\ c2s = <<>> /\ s2c = <<Msg("success")>>
    \/ cl = "starting" /\ srv = "requests" /\ c2s = <<Msg(req)>> /\ s2c = <<>>
    \/ cl = "starting" /\ srv \notin Start /\ s2c # <<>>

Setup ==
    /\ cl \in Early /\ link = "up" => InStep
    /\ SkippedMessagesAreReplies
    /\ srv \in Start => \A n \in DOMAIN s2c : s2c[n].kind \notin {"data", "eof"}

LEMMA Single ==
    \A x : /\ Head(<<x>>) = x /\ Tail(<<x>>) = <<>> /\ Append(<<>>, x) = <<x>>
           /\ <<x>> # <<>> /\ DOMAIN <<x>> = {1} /\ <<x>>[1] = x
OBVIOUS

LEMMA HeadStays ==
    ASSUME NEW S, NEW q \in Seq(S), q # <<>>, NEW m \in S
    PROVE  Append(q, m) # <<>> /\ Head(Append(q, m)) = Head(q)
BY HeadTailAppend, AppendProperties

LEMMA InitSetup == Init => Setup
BY DEF Init, Setup, InStep, SkippedMessagesAreReplies, Start, Early

LEMMA LinkLostSetup ==
    ASSUME Typed, Setup, LinkLost
    PROVE  Setup'
<1>1. PICK n \in 0..Len(s2c) : s2c' = SubSeq(s2c, 1, n)
    BY DEF LinkLost
<1>2. /\ DOMAIN s2c = 1..Len(s2c) /\ DOMAIN s2c' = 1..n /\ Len(s2c) \in Nat
      /\ \A i \in 1..n : s2c'[i] = s2c[i]
      /\ s2c' # <<>> => s2c # <<>> /\ Head(s2c') = Head(s2c)
    BY <1>1, PrefixFacts DEF Typed
<1>3. link' = "closed" /\ srv' = srv /\ cl' = cl
    BY DEF LinkLost, clientVars, serverVars
<1>4. SkippedMessagesAreReplies'
    BY <1>2, <1>3 DEF Setup, SkippedMessagesAreReplies
<1>5. srv' \in Start => \A i \in DOMAIN s2c' : s2c'[i].kind \notin {"data", "eof"}
    BY <1>2, <1>3 DEF Setup
<1> QED
    BY <1>3, <1>4, <1>5 DEF Setup

LEMMA ClientSetup ==
    ASSUME Typed, Lives, Setup, ClientMain \/ ClientOutput
    PROVE  Setup'
<1>1. CASE SetupFails \/ SendStdinFails \/ Finish
    <2>1. link' = "closed" /\ s2c' = <<>>
        BY <1>1 DEF SetupFails, SendStdinFails, Finish, Returns
    <2> QED
        BY <2>1 DEF Setup, SkippedMessagesAreReplies
<1>2. CASE ReadConfirm
    <2>1. /\ cl = "opening" /\ s2c # <<>> /\ Head(s2c) = Msg("confirm") /\ link = "up"
          /\ srv' = srv /\ req' = req /\ s2c' = Tail(s2c)
        BY <1>2 DEF ReadConfirm, ClientMaySend, serverVars
    <2>2. srv = "requests" /\ c2s = <<>> /\ s2c = <<Msg("confirm")>>
        BY <2>1, MsgTypes, Single DEF Setup, InStep, Early
    <2>3. s2c' = <<>>
        BY <2>1, <2>2, Single
    <2>4. InStep'
        BY <1>2, <2>1, <2>2, <2>3, Single DEF ReadConfirm, ToSrv, InStep
    <2> QED
        BY <2>1, <2>2, <2>3, <2>4 DEF Setup, SkippedMessagesAreReplies
<1>3. CASE ReadPtyReply
    <2>1. /\ cl = "pty" /\ s2c # <<>> /\ link = "up" /\ cl' = "starting"
          /\ srv' = srv /\ req' = req /\ s2c' = Tail(s2c) /\ ToSrv(req)
        BY <1>3 DEF ReadPtyReply, ClientMaySend, serverVars
    <2>2. srv = "requests" /\ c2s = <<>> /\ s2c = <<Msg("success")>>
        BY <2>1 DEF Setup, InStep, Early
    <2>3. s2c' = <<>> /\ c2s' = <<Msg(req)>>
        BY <2>1, <2>2, Single DEF ToSrv
    <2> QED
        BY <2>1, <2>2, <2>3 DEF Setup, InStep, SkippedMessagesAreReplies
<1>4. CASE ReadStartReply \/ PrintData \/ OutputEnds
    <2>1. /\ srv' = srv /\ cl' \notin Early
          /\ s2c' = <<>> \/ (s2c # <<>> /\ s2c' = Tail(s2c))
        BY <1>4 DEF ReadStartReply, PrintData, OutputEnds, Lives, Early, serverVars
    <2>2. s2c # <<>> =>
              /\ DOMAIN s2c = 1..Len(s2c) /\ Len(s2c) \in Nat
              /\ DOMAIN Tail(s2c) = 1..(Len(s2c) - 1)
              /\ \A i \in 1..(Len(s2c) - 1) : Tail(s2c)[i] = s2c[i + 1]
        BY TailFacts DEF Typed
    <2>3. srv' \in Start => \A i \in DOMAIN s2c' : s2c'[i].kind \notin {"data", "eof"}
        BY <2>1, <2>2 DEF Setup
    <2> QED
        BY <2>1, <2>3 DEF Setup, SkippedMessagesAreReplies, Early
<1>5. CASE SendStdin \/ StdinEof \/ OutputJoined
    <2>1. srv' = srv /\ s2c' = s2c /\ cl' \notin Early
        BY <1>5 DEF SendStdin, StdinEof, OutputJoined, Early, serverVars
    <2> QED
        BY <2>1 DEF Setup, SkippedMessagesAreReplies, Early
<1> QED
    BY <1>1, <1>2, <1>3, <1>4, <1>5 DEF ClientMain, ClientOutput

\* Once a session runs the server adds to what it sent, and never returns to
\* requests.
LEMMA ServerGrows ==
    ASSUME Typed, Server, srv \notin Start
    PROVE  /\ srv' \notin Start
           /\ s2c # <<>> => s2c' # <<>> /\ Head(s2c') = Head(s2c)
           /\ s2c = <<>> /\ s2c' # <<>> => link = "up"
           /\ UNCHANGED <<req, link, cl, out>>
<1>1. /\ srv' \notin Start /\ UNCHANGED <<req, link, cl, out>>
      /\ \/ s2c' = s2c
         \/ s2c' = Append(s2c, Msg("data")) /\ link = "up"
         \/ Report /\ ServerCanSend
    BY DEF Server, ServerRuns, AcceptOpen, PtyRequest, StartRequest, UnknownSubsystem, ClientGoneEarly,
           RecvHead, OtherBranch, Swallow, Misread, PumpOutput, Sent, OutputEof, PumpInput, Written, InputFails, InputEof, ClientGone,
           ChildExited, Reap, Report, TaskEnds, clientVars, serverVars, Start, ServerCanSend
<1>2. CASE s2c' = Append(s2c, Msg("data"))
    BY <1>1, <1>2, MsgTypes, HeadStays DEF Typed, Report, ServerCanSend
<1>3. CASE Report /\ ServerCanSend
    <2>1. /\ Msg("eof") \in ToClient /\ Msg("close") \in ToClient /\ ExitStatus(seen) \in ToClient
        BY <1>3, MsgTypes DEF Report, Typed
    <2> DEFINE p == Append(s2c, Msg("eof"))
               q == Append(p, ExitStatus(seen))
    <2>2. p \in Seq(ToClient) /\ p # <<>> /\ (s2c # <<>> => Head(p) = Head(s2c))
        BY <2>1, HeadStays, AppendProperties DEF Typed
    <2>3. q \in Seq(ToClient) /\ q # <<>> /\ Head(q) = Head(p)
        BY <2>1, <2>2, HeadStays, AppendProperties
    <2>4. s2c' = Append(q, Msg("close"))
        BY <1>3, <2>1, AppendAll DEF Report, Typed
    <2>5. s2c' # <<>> /\ Head(s2c') = Head(q)
        BY <2>1, <2>3, <2>4, HeadStays
    <2> QED
        BY <1>1, <1>3, <2>2, <2>3, <2>5 DEF ServerCanSend
<1> QED
    BY <1>1, <1>2, <1>3

LEMMA ServerSetup ==
    ASSUME Typed, Lives, Setup, Server
    PROVE  Setup'
<1>1. CASE srv \notin Start
    <2>1. /\ srv' \notin Start
          /\ s2c # <<>> => s2c' # <<>> /\ Head(s2c') = Head(s2c)
          /\ s2c = <<>> /\ s2c' # <<>> => link = "up"
          /\ UNCHANGED <<req, link, cl, out>>
        BY <1>1, ServerGrows
    <2>2. cl \in Early /\ link = "up" => cl \in {"opening", "starting"} /\ s2c # <<>>
                                         /\ (cl = "opening" => srv = "ended")
        BY <1>1 DEF Setup, InStep, Start
    <2>3. srv # "ended"
        BY DEF Server, ServerRuns, AcceptOpen, PtyRequest, StartRequest, UnknownSubsystem, ClientGoneEarly,
               RecvHead, OtherBranch, Swallow, Misread, PumpOutput, Sent, OutputEof, PumpInput, Written, InputFails, InputEof, ClientGone,
               ChildExited, Reap, Report
    <2>4. cl' \in Early /\ link' = "up" => InStep'
        BY <2>1, <2>2, <2>3 DEF InStep, Early
    <2>5. SkippedMessagesAreReplies'
        BY <2>1, <2>2 DEF Setup, SkippedMessagesAreReplies, Early
    <2> QED
        BY <2>1, <2>4, <2>5 DEF Setup
<1>2. ASSUME NEW m \in ToClient, m.kind \notin {"data", "eof"}, s2c' = Append(s2c, m),
             srv \in Start
      PROVE  \A n \in DOMAIN s2c' : s2c'[n].kind \notin {"data", "eof"}
    <2>1. /\ DOMAIN s2c = 1..Len(s2c) /\ Len(s2c) \in Nat
          /\ DOMAIN s2c' = 1..(Len(s2c) + 1)
          /\ \A i \in 1..Len(s2c) : s2c'[i] = s2c[i]
          /\ s2c'[Len(s2c) + 1] = m
        BY <1>2, AppendFacts DEF Typed
    <2> QED
        BY <1>2, <2>1 DEF Setup
<1>3. CASE AcceptOpen
    <2>1. srv = "opening" /\ c2s # <<>> /\ UNCHANGED <<link, cl, req, out>>
        BY <1>3 DEF AcceptOpen, clientVars
    <2>2. cl \in Early /\ link = "up" => cl = "opening" /\ c2s = <<Msg("open")>> /\ s2c = <<>>
                                         /\ ServerCanSend
        BY <2>1 DEF Setup, InStep, Start, Lives, ServerCanSend, Early
    <2>3. cl' \in Early /\ link' = "up" => InStep'
        BY <1>3, <2>1, <2>2, Single DEF AcceptOpen, TaskEnds, InStep
    <2>4. SkippedMessagesAreReplies'
        BY <1>3, <2>1, <2>2 DEF AcceptOpen, ServerCanSend, Setup, SkippedMessagesAreReplies, Early
    <2>5. srv' \in Start => s2c' = Append(s2c, Msg("confirm"))
        BY <1>3 DEF AcceptOpen, TaskEnds, Start
    <2>6. srv' \in Start => \A n \in DOMAIN s2c' : s2c'[n].kind \notin {"data", "eof"}
        BY <1>2, <2>1, <2>5, MsgTypes DEF Start
    <2> QED
        BY <2>3, <2>4, <2>6 DEF Setup
<1>4. CASE PtyRequest
    <2>1. srv = "requests" /\ c2s # <<>> /\ Head(c2s) = Msg("pty") /\ UNCHANGED <<link, cl, req, out>>
        BY <1>4 DEF PtyRequest, clientVars
    <2>2. Msg(req) # Msg("pty")
        BY MsgTypes, SessionAssumption DEF Typed, AllRequests
    <2>3. cl \in Early /\ link = "up" => cl = "pty" /\ req = "shell" /\ c2s = <<Msg("pty")>>
                                         /\ s2c = <<>> /\ ServerCanSend
        BY <2>1, <2>2, Single DEF Setup, InStep, Start, Lives, ServerCanSend, Early
    <2>4. cl' \in Early /\ link' = "up" => InStep'
        BY <1>4, <2>1, <2>3, Single DEF PtyRequest, InStep
    <2>5. SkippedMessagesAreReplies'
        BY <1>4, <2>1, <2>3, Single, MsgTypes
           DEF PtyRequest, ServerCanSend, Setup, SkippedMessagesAreReplies, Early
    <2>6. srv' \in Start => s2c' = Append(s2c, Msg("success"))
        BY <1>4 DEF PtyRequest, Start
    <2>7. srv' \in Start => \A n \in DOMAIN s2c' : s2c'[n].kind \notin {"data", "eof"}
        BY <1>2, <2>1, <2>6, MsgTypes DEF Start
    <2> QED
        BY <2>4, <2>5, <2>7 DEF Setup
<1>5. CASE StartRequest
    <2>1. /\ srv = "requests" /\ c2s # <<>> /\ UNCHANGED <<link, cl, req, out>>
          /\ srv' \notin Start
          /\ s2c' = IF ServerCanSend THEN Append(s2c, Msg("success")) ELSE s2c
          /\ Head(c2s) # Msg("pty")
        BY <1>5, MsgTypes DEF StartRequest, TaskEnds, Start, clientVars
    <2>2. cl \in Early /\ link = "up" => cl = "starting" /\ s2c = <<>> /\ ServerCanSend
        BY <2>1, Single DEF Setup, InStep, Start, Lives, ServerCanSend, Early
    <2>3. cl \in Early /\ link = "up" => s2c' = <<Msg("success")>>
        BY <2>1, <2>2, Single
    <2>4. cl' \in Early /\ link' = "up" => InStep'
        BY <2>1, <2>2, <2>3, Single DEF InStep
    <2>5. SkippedMessagesAreReplies'
        BY <2>1, <2>3, Single, MsgTypes
           DEF ServerCanSend, Setup, SkippedMessagesAreReplies, Early
    <2> QED
        BY <2>1, <2>4, <2>5 DEF Setup
<1>6. CASE UnknownSubsystem
    <2>1. /\ srv = "requests" /\ c2s # <<>> /\ UNCHANGED <<link, cl, req, out>>
          /\ srv' = "ended"
          /\ s2c' = IF ServerCanSend THEN s2c \o <<Msg("failure"), Msg("close")>> ELSE s2c
          /\ Head(c2s) = Msg("unknown")
        BY <1>6 DEF UnknownSubsystem, TaskEnds, clientVars
    <2>2. Msg("unknown") # Msg("pty")
        BY MsgTypes
    <2>3. cl \in Early /\ link = "up" => cl = "starting" /\ s2c = <<>> /\ ServerCanSend
        BY <2>1, <2>2, Single DEF Setup, InStep, Start, Lives, ServerCanSend, Early
    <2>4. /\ Append(<<>>, Msg("failure")) # <<>>
          /\ Append(Append(<<>>, Msg("failure")), Msg("close")) # <<>>
          /\ Head(Append(Append(<<>>, Msg("failure")), Msg("close"))) = Msg("failure")
        <3>1. Msg("failure") \in ToClient /\ Msg("close") \in ToClient /\ <<>> \in Seq(ToClient)
            BY MsgTypes, EmptySeq
        <3>2. <<Msg("failure")>> \in Seq(ToClient)
            BY <3>1
        <3> QED
            BY <3>1, <3>2, Single, HeadStays
    <2>5. cl \in Early /\ link = "up" => s2c' # <<>> /\ Head(s2c') = Msg("failure")
        BY <2>1, <2>3, <2>4, AppendAll, MsgTypes DEF Typed
    <2>6. cl' \in Early /\ link' = "up" => InStep'
        BY <2>1, <2>3, <2>5 DEF InStep, Start
    <2>7. SkippedMessagesAreReplies'
        BY <2>1, <2>5, MsgTypes DEF ServerCanSend, Setup, SkippedMessagesAreReplies, Early
    <2> QED
        BY <2>1, <2>6, <2>7 DEF Setup, Start
<1>7. CASE ClientGoneEarly
    <2>1. UNCHANGED <<link, cl, s2c>> /\ link = "closed" /\ srv' = "ended"
        BY <1>7 DEF ClientGoneEarly, NoMoreFromClient, TaskEnds, clientVars
    <2> QED
        BY <2>1 DEF Setup, SkippedMessagesAreReplies, Start
<1> QED
    BY <1>1, <1>3, <1>4, <1>5, <1>6, <1>7
       DEF Server, ServerRuns, Start, RecvHead, OtherBranch, Swallow, Misread, PumpOutput, Sent, OutputEof, PumpInput, Written, InputFails, InputEof,
           ClientGone, ChildExited, Reap, Report

LEMMA StepSetup == Typed /\ Lives /\ Setup /\ [Next]_vars => Setup'
<1> SUFFICES ASSUME Typed, Lives, Setup, [Next]_vars PROVE Setup'
    OBVIOUS
<1>1. CASE UNCHANGED vars \/ Child
    <2>1. UNCHANGED <<req, link, cl, srv, c2s, s2c>>
        BY <1>1 DEF vars, Child, ChildRuns, ChildWrites, ChildReads, ChildExits, ChildClosesOutput,
                    clientVars, serverVars
    <2> QED
        BY <2>1 DEF Setup, InStep, SkippedMessagesAreReplies
<1> QED
    BY <1>1, ClientSetup, ServerSetup, LinkLostSetup DEF Next

\* The client never takes output, or the end of a session, for a reply.
THEOREM RepliesAreSkipped == Spec => []SkippedMessagesAreReplies
<1> DEFINE Inv == Typed /\ Lives /\ Setup
<1>1. Init => Inv
    BY InitTyped, InitLives, InitSetup
<1>2. Inv /\ [Next]_vars => Inv'
    BY StepTyped, StepLives, StepSetup
<1>3. Inv => SkippedMessagesAreReplies
    BY DEF Setup
<1> QED
    BY <1>1, <1>2, <1>3, PTL DEF Spec

(***************************************************************************)
(* The account of the input: chunks the child may yet write, because it is *)
(* a source that has some left or a filter that gets them as input, and    *)
(* chunks it wrote are never more than there were.                         *)
(***************************************************************************)
Left == IF child.st = "none" THEN MaxOut ELSE child.left
Held == IF child.hold THEN 1 ELSE 0
InWrite == IF srv = "writing" THEN 1 ELSE 0
ToCome == Left + Held + pin + InWrite + stdin
InData == Count(c2s, "data")
InputBound == wrote + ToCome + InData <= MaxIn + MaxOut

LEMMA InputCounts ==
    ASSUME Typed
    PROVE  /\ Count(c2s, "data") \in Nat
           /\ \A m \in ToServer : Count(Append(c2s, m), "data")
                                  = Count(c2s, "data") + (IF m.kind = "data" THEN 1 ELSE 0)
           /\ c2s # <<>> => Count(c2s, "data")
                            = Count(Tail(c2s), "data") + (IF Head(c2s).kind = "data" THEN 1 ELSE 0)
           /\ c2s # <<>> => Count(Tail(c2s), "data") \in Nat
           /\ Count(<<>>, "data") = 0
           /\ \A n \in 0..Len(c2s) : Count(SubSeq(c2s, 1, n), "data") \in Nat
                                     /\ Count(SubSeq(c2s, 1, n), "data") <= Count(c2s, "data")
<1>1. c2s \in Seq(ToServer)
    BY DEF Typed
<1>2. c2s # <<>> => Tail(c2s) \in Seq(ToServer)
    BY <1>1, TailFacts
<1>3. \A n \in 0..Len(c2s) : SubSeq(c2s, 1, n) \in Seq(ToServer)
    BY <1>1, PrefixFacts
<1>4. Count(c2s, "data") \in Nat
    BY <1>1, CountType
<1>5. \A m \in ToServer : Count(Append(c2s, m), "data")
                          = Count(c2s, "data") + (IF m.kind = "data" THEN 1 ELSE 0)
    BY <1>1, CountAppend
<1>6. c2s # <<>> => Count(c2s, "data")
                    = Count(Tail(c2s), "data") + (IF Head(c2s).kind = "data" THEN 1 ELSE 0)
    BY <1>1, CountTail
<1>7. c2s # <<>> => Count(Tail(c2s), "data") \in Nat
    BY <1>2, CountType
<1>8. \A n \in 0..Len(c2s) : Count(SubSeq(c2s, 1, n), "data") \in Nat
                             /\ Count(SubSeq(c2s, 1, n), "data") <= Count(c2s, "data")
    BY <1>1, <1>3, CountType, CountPrefix
<1> QED
    BY <1>4, <1>5, <1>6, <1>7, <1>8, CountEmpty

\* Nothing, the rest, a prefix, or one message more that is not data.
LEMMA LessInput ==
    ASSUME Typed,
           \/ c2s' = c2s \/ c2s' = <<>>
           \/ c2s # <<>> /\ c2s' = Tail(c2s)
           \/ \E n \in 0..Len(c2s) : c2s' = SubSeq(c2s, 1, n)
           \/ \E m \in ToServer : m.kind # "data" /\ c2s' = Append(c2s, m)
    PROVE  InData' <= InData /\ InData \in Nat /\ InData' \in Nat
<1>1. InData' = Count(c2s', "data") /\ InData = Count(c2s, "data") /\ InData \in Nat
    BY InputCounts DEF InData
<1>2. CASE c2s' = c2s \/ c2s' = <<>>
    BY <1>1, <1>2, InputCounts
<1>3. CASE c2s # <<>> /\ c2s' = Tail(c2s)
    <2>1. /\ InData = InData' + (IF Head(c2s).kind = "data" THEN 1 ELSE 0)
          /\ InData' \in Nat
        BY <1>1, <1>3, InputCounts
    <2> QED
        BY <1>1, <2>1
<1>4. CASE \E n \in 0..Len(c2s) : c2s' = SubSeq(c2s, 1, n)
    BY <1>1, <1>4, InputCounts
<1>5. CASE \E m \in ToServer : m.kind # "data" /\ c2s' = Append(c2s, m)
    BY <1>1, <1>5, InputCounts
<1> QED
    BY <1>2, <1>3, <1>4, <1>5

LEMMA InputSizes ==
    ASSUME Typed
    PROVE  /\ wrote \in Nat /\ pin \in Nat /\ stdin \in Nat /\ InData \in Nat
           /\ Left \in Nat /\ Held \in {0, 1} /\ InWrite \in {0, 1} /\ ToCome \in Nat
<1>1. wrote \in Nat /\ pin \in Nat /\ stdin \in Nat
    BY SizeTypes DEF Typed, Sizes
<1>2. Left \in Nat /\ Held \in {0, 1} /\ InWrite \in {0, 1}
    BY SizeTypes DEF Typed, Sizes, ChildType, Left, Held, InWrite
<1> QED
    BY <1>1, <1>2, InputCounts DEF ToCome, InData

LEMMA NextSizes ==
    ASSUME Typed'
    PROVE  /\ wrote' \in Nat /\ pin' \in Nat /\ stdin' \in Nat /\ InData' \in Nat
           /\ Left' \in Nat /\ Held' \in {0, 1} /\ InWrite' \in {0, 1} /\ ToCome' \in Nat
<1>1. wrote' \in Nat /\ pin' \in Nat /\ stdin' \in Nat
    BY SizeTypes DEF Typed, Sizes
<1>2. Left' \in Nat /\ Held' \in {0, 1} /\ InWrite' \in {0, 1}
    BY SizeTypes DEF Typed, Sizes, ChildType, Left, Held, InWrite
<1>3. InData' \in Nat
    <2>1. c2s' \in Seq(ToServer)
        BY DEF Typed
    <2>2. Count(c2s', "data") \in Nat
        BY <2>1, CountType
    <2> QED
        BY <2>2 DEF InData
<1>4. ToCome' = Left' + Held' + pin' + InWrite' + stdin'
    BY DEF ToCome
<1>5. ToCome' \in Nat
    <2>1. Held' \in Nat /\ InWrite' \in Nat
        BY <1>2
    <2> QED
        BY <1>1, <1>2, <1>4, <2>1, SumNat
<1> QED
    BY <1>1, <1>2, <1>3, <1>5

LEMMA InitInput == Init => InputBound
<1> SUFFICES ASSUME Init PROVE InputBound
    OBVIOUS
<1>1. \A n \in DOMAIN c2s : c2s[n].kind # "data"
    BY MsgTypes, Single DEF Init
<1>2. Count(c2s, "data") = 0
    BY <1>1, CountNone
<1>3. wrote = 0 /\ Left = MaxOut /\ Held = 0 /\ InWrite = 0 /\ pin = 0 /\ stdin \in 0..MaxIn
    BY DEF Init, Born, Left, Held, InWrite
<1> QED
    BY <1>2, <1>3, SizeTypes DEF InputBound, InData, ToCome, Sizes

\* What does not write, and does not add to what may come, keeps the bound.
LEMMA NoMoreInput ==
    ASSUME Typed, InputBound, Typed', wrote' = wrote, ToCome' <= ToCome, InData' <= InData
    PROVE  InputBound'
BY InputSizes, NextSizes, SizeTypes DEF InputBound, Sizes

LEMMA ClientInput ==
    ASSUME Typed, Typed', InputBound, ClientMain \/ ClientOutput
    PROVE  InputBound'
<1>1. UNCHANGED <<wrote, child, pin, srv>>
    BY DEF ClientMain, ClientOutput, ReadConfirm, ReadPtyReply, ReadStartReply, SetupFails,
           SendStdin, SendStdinFails, StdinEof, OutputJoined, Finish, PrintData, OutputEnds,
           serverVars, childVars
<1>2. CASE SendStdin
    <2>1. stdin' = stdin - 1 /\ stdin > 0 /\ ToSrv("data")
        BY <1>2 DEF SendStdin
    <2>2. InData' <= InData + 1
        <3>1. CASE srv = "ended"
            BY <2>1, <3>1, LessInput DEF ToSrv
        <3>2. CASE srv # "ended"
            <4>1. Msg("data") \in ToServer /\ c2s' = Append(c2s, Msg("data"))
                BY <2>1, <3>2, MsgTypes DEF ToSrv
            <4>2. Count(c2s', "data") = Count(c2s, "data") + 1
                BY <4>1, InputCounts, MsgTypes
            <4> QED
                BY <4>2, InputSizes DEF InData
        <3> QED
            BY <3>1, <3>2
    <2>3. ToCome' = ToCome - 1
        BY <1>1, <2>1, InputSizes DEF ToCome, Left, Held, InWrite
    <2> QED
        BY <1>1, <2>2, <2>3, InputSizes, NextSizes, SizeTypes DEF InputBound, Sizes
<1>3. CASE ~SendStdin
    <2>1. stdin' = stdin
        BY <1>3 DEF ClientMain, ClientOutput, ReadConfirm, ReadPtyReply, ReadStartReply,
                    SetupFails, SendStdinFails, StdinEof, OutputJoined, Finish, PrintData,
                    OutputEnds
    <2>2. \/ c2s' = c2s
          \/ \E k \in (AllRequests \cup {"open", "pty", "eof"}) : ToSrv(k)
          \/ \E n \in 0..Len(c2s) : c2s' = SubSeq(c2s, 1, n)
        <3>1. req \in AllRequests
            BY SessionAssumption DEF Typed
        <3> QED
            BY <1>3, <3>1 DEF ClientMain, ClientOutput, ReadConfirm, ReadPtyReply, ReadStartReply,
                    SetupFails, SendStdinFails, StdinEof, OutputJoined, Finish, PrintData,
                    OutputEnds, Returns
    <2>3. \A k \in (AllRequests \cup {"open", "pty", "eof"}) :
              Msg(k) \in ToServer /\ Msg(k).kind # "data"
        BY MsgTypes DEF AllRequests
    <2>4. InData' <= InData
        BY <2>2, <2>3, LessInput DEF ToSrv
    <2>5. ToCome' = ToCome
        BY <1>1, <2>1 DEF ToCome, Left, Held, InWrite
    <2> QED
        BY <1>1, <2>4, <2>5, NoMoreInput, InputSizes
<1> QED
    BY <1>2, <1>3

LEMMA ServerInput ==
    ASSUME Typed, Typed', Lives, InputBound, Server
    PROVE  InputBound'
<1>1. UNCHANGED <<wrote, stdin>>
    BY DEF Server, ServerRuns, AcceptOpen, PtyRequest, StartRequest, UnknownSubsystem, ClientGoneEarly,
           RecvHead, OtherBranch, Swallow, Misread, PumpOutput, Sent, OutputEof, PumpInput, Written, InputFails, InputEof, ClientGone,
           ChildExited, Reap, Report, clientVars, childVars
<1>2. Left' = Left /\ Held' <= Held
    <2>1. CASE StartRequest
        <3>1. \/ child' = child
              \/ child' = Born
            BY <2>1 DEF StartRequest
        <3>2. child.st = "none"
            BY <2>1 DEF StartRequest, Lives, Start
        <3> QED
            BY <3>1, <3>2, InputSizes DEF Left, Held, Born
    <2>2. CASE ClientGone \/ Reap \/ Misread
        <3>1. child' \in {child, KilledChild}
            BY <2>2 DEF ClientGone, Reap, Misread
        <3> QED
            BY <3>1, KilledChildType, InputSizes DEF Left, Held
    <2>3. CASE ~(StartRequest \/ ClientGone \/ Reap \/ Misread)
        <3>1. child' = child
            BY <2>3 DEF Server, ServerRuns, AcceptOpen, PtyRequest, UnknownSubsystem, ClientGoneEarly,
               RecvHead, OtherBranch, Swallow, PumpOutput, Sent, OutputEof, PumpInput, Written,
               InputFails, InputEof, ChildExited, Report, childVars, serverVars
        <3> QED
            BY <3>1, InputSizes DEF Left, Held
    <2> QED
        BY <2>1, <2>2, <2>3
<1>3. Left \in Nat /\ Left' \in Nat /\ Held \in {0, 1} /\ Held' \in {0, 1}
    BY <1>2, InputSizes DEF Held
<1>4. CASE PumpInput
    <2>1. /\ c2s # <<>> /\ Head(c2s).kind = "data" /\ c2s' = Tail(c2s) /\ srv = "pumping"
          /\ \/ pin' = pin + 1 /\ srv' = srv
             \/ pin' = pin /\ srv' = "writing"
        BY <1>4, MsgTypes DEF PumpInput
    <2>2. InData' = InData - 1
        <3>1. Count(c2s, "data") = Count(c2s', "data") + 1 /\ Count(c2s', "data") \in Nat
            BY <2>1, InputCounts
        <3> QED
            BY <3>1 DEF InData
    <2>3. InWrite = 0 /\ pin' + InWrite' = pin + 1
        BY <2>1, InputSizes DEF InWrite
    <2>4. ToCome' <= ToCome + 1
        BY <1>1, <1>2, <1>3, <2>3, InputSizes, NextSizes DEF ToCome
    <2> QED
        BY <1>1, <2>2, <2>4, InputSizes, NextSizes, SizeTypes DEF InputBound, Sizes
<1>5. CASE ~PumpInput
    <2>1. \/ pin' = pin /\ srv' # "writing"
          \/ pin' = pin + 1 /\ srv = "writing" /\ srv' = "pumping"
        BY <1>5 DEF Server, ServerRuns, AcceptOpen, PtyRequest, StartRequest, UnknownSubsystem,
           RecvHead, OtherBranch, Swallow, Misread, ClientGoneEarly, PumpOutput, Sent, OutputEof, Written, InputFails, InputEof,
           ClientGone, ChildExited, Reap, Report, TaskEnds, childVars, serverVars
    <2>2. c2s' = c2s \/ c2s' = <<>> \/ (c2s # <<>> /\ c2s' = Tail(c2s))
        BY <1>5 DEF Server, ServerRuns, AcceptOpen, PtyRequest, StartRequest, UnknownSubsystem,
           RecvHead, OtherBranch, Swallow, Misread, ClientGoneEarly, PumpOutput, Sent, OutputEof, Written, InputFails, InputEof,
           ClientGone, ChildExited, Reap, Report, TaskEnds
    <2>3. InData' <= InData
        BY <2>2, LessInput
    <2>4. pin' + InWrite' <= pin + InWrite
        BY <2>1, InputSizes DEF InWrite
    <2>5. ToCome' <= ToCome
        BY <1>1, <1>2, <1>3, <2>4, InputSizes, NextSizes DEF ToCome
    <2> QED
        BY <1>1, <2>3, <2>5, NoMoreInput
<1> QED
    BY <1>4, <1>5

LEMMA ChildInput ==
    ASSUME Typed, Typed', InputBound, Child
    PROVE  InputBound'
<1>1. UNCHANGED <<c2s, stdin, srv>> /\ child.st = "running" /\ child \in ChildType
    BY DEF Child, ChildRuns, ChildClosesOutput, ChildWrites, ChildReads, ChildExits, clientVars, serverVars, Typed
<1>2. InData' = InData /\ InWrite' = InWrite
    BY <1>1 DEF InWrite, InData
<1>3. wrote' + Left' + Held' + pin' <= wrote + Left + Held + pin
      /\ wrote' \in Nat /\ Left' \in Nat /\ Held' \in Nat /\ pin' \in Nat
    <2>1. CASE ChildWrites
        <3>1. pin' = pin /\ wrote' = wrote + 1
            BY <2>1 DEF ChildWrites
        <3>2. CASE child.left > 0 /\ child' = [child EXCEPT !.left = @ - 1]
            <4>1. Left' = Left - 1 /\ Held' = Held /\ Left > 0
                BY <1>1, <3>2 DEF Left, Held, ChildType
            <4> QED
                BY <3>1, <4>1, InputSizes
        <3>3. CASE child.hold /\ child' = [child EXCEPT !.hold = FALSE]
            <4>1. Left' = Left /\ Held = 1 /\ Held' = 0
                BY <1>1, <3>3 DEF Left, Held, ChildType
            <4> QED
                BY <3>1, <4>1, InputSizes
        <3> QED
            BY <2>1, <3>2, <3>3 DEF ChildWrites
    <2>2. CASE ChildReads
        <3>1. /\ ~child.hold /\ child' = [child EXCEPT !.hold = child.open]
              /\ pin > 0 /\ pin' = pin - 1 /\ wrote' = wrote
            BY <2>2 DEF ChildReads
        <3>2. Left' = Left /\ Held = 0
            BY <1>1, <3>1 DEF Left, Held, ChildType
        <3>3. Held' \in {0, 1}
            BY NextSizes
        <3> QED
            BY <3>1, <3>2, <3>3, InputSizes
    <2>3. CASE ChildExits
        <3>1. pin' = pin /\ wrote' = wrote
              /\ \E code : child' = [child EXCEPT !.st = "exited", !.code = code]
            BY <2>3 DEF ChildExits
        <3>2. Left' = Left /\ Held' = Held
            BY <1>1, <3>1 DEF Left, Held, ChildType
        <3> QED
            BY <3>1, <3>2, InputSizes
    <2>4. CASE ChildClosesOutput
        <3>1. pin' = pin /\ wrote' = wrote /\ child' = [child EXCEPT !.open = FALSE, !.left = 0]
            BY <2>4 DEF ChildClosesOutput
        <3>2. Left' = 0 /\ Held' = Held
            BY <1>1, <3>1 DEF Left, Held, ChildType
        <3> QED
            BY <3>1, <3>2, InputSizes
    <2> QED
        BY <2>1, <2>2, <2>3, <2>4 DEF Child, ChildRuns
<1> QED
    BY <1>1, <1>2, <1>3, InputSizes, NextSizes, SizeTypes DEF InputBound, ToCome, Sizes

LEMMA StepInput == Typed /\ Typed' /\ Lives /\ InputBound /\ [Next]_vars => InputBound'
<1> SUFFICES ASSUME Typed, Typed', Lives, InputBound, [Next]_vars PROVE InputBound'
    OBVIOUS
<1>1. CASE UNCHANGED vars
    BY <1>1 DEF vars, InputBound, InData, ToCome, Left, Held, InWrite
<1>2. CASE LinkLost
    <2>1. UNCHANGED <<wrote, child, pin, srv, stdin>>
          /\ \E n \in 0..Len(c2s) : c2s' = SubSeq(c2s, 1, n)
        BY <1>2 DEF LinkLost, clientVars, serverVars, childVars
    <2>2. InData' <= InData
        BY <2>1, LessInput
    <2>3. ToCome' = ToCome
        BY <2>1 DEF ToCome, Left, Held, InWrite
    <2> QED
        BY <2>1, <2>2, <2>3, NoMoreInput, InputSizes
<1> QED
    BY <1>1, <1>2, ClientInput, ServerInput, ChildInput DEF Next

(***************************************************************************)
(* The account of the output.                                              *)
(***************************************************************************)
OutData == Count(s2c, "data")
Eofs == Count(s2c, "eof")
InHand == IF srv = "sending" THEN 1 ELSE 0

\* In a stream that holds an Eof the server has ended, and no data follows it.
Ordered ==
    \A i \in DOMAIN s2c : s2c[i].kind = "eof" =>
        srv = "ended" /\ \A j \in DOMAIN s2c : s2c[j].kind = "data" => j < i

\* A subsystem's loop that is over, and not because its output found no way or
\* its input was misread: the child has ended, or writes no more.
Drained ==
    ~Pty /\ ~cut /\ srv \in {"reaping", "reporting"} /\ link = "up" /\ out # "ended"
    => pout = 0 /\ (child.st = "exited" \/ ~child.open) /\ got + OutData = wrote

Output ==
    /\ child.st = "none" => wrote = 0
    /\ got + OutData + pout + InHand <= wrote
    /\ out # "ended" /\ link = "up" /\ srv \in {"pumping", "writing", "sending"}
       => got + OutData + pout + InHand = wrote
    /\ Drained
    /\ ~Pty /\ ~cut /\ Eofs > 0 => got + OutData = wrote

LEMMA OutputIsKept == Output => NothingLostBeforeTheEnd /\ SubsystemDrained
BY DEF Output, NothingLostBeforeTheEnd, SubsystemDrained, OutData, InHand, Eofs

LEMMA OutputSizes ==
    ASSUME Typed
    PROVE  /\ got \in Nat /\ wrote \in Nat /\ pout \in Nat /\ OutData \in Nat /\ Eofs \in Nat
           /\ InHand \in {0, 1}
<1>1. s2c \in Seq(ToClient)
    BY DEF Typed
<1>2. Count(s2c, "data") \in Nat /\ Count(s2c, "eof") \in Nat
    BY <1>1, CountType
<1>3. got \in Nat /\ wrote \in Nat /\ pout \in Nat
    BY SizeTypes DEF Typed, Sizes
<1> QED
    BY <1>2, <1>3 DEF OutData, Eofs, InHand

LEMMA ServerEofs == Typed /\ Ordered /\ srv # "ended" => Eofs = 0
BY CountNone DEF Ordered, Eofs

LEMMA AppendedOutput ==
    ASSUME Typed, NEW m \in ToClient, s2c' = Append(s2c, m)
    PROVE  /\ OutData' = OutData + (IF m.kind = "data" THEN 1 ELSE 0)
           /\ Eofs' = Eofs + (IF m.kind = "eof" THEN 1 ELSE 0)
<1>1. s2c \in Seq(ToClient)
    BY DEF Typed
<1>2. /\ Count(s2c', "data") = Count(s2c, "data") + (IF m.kind = "data" THEN 1 ELSE 0)
      /\ Count(s2c', "eof") = Count(s2c, "eof") + (IF m.kind = "eof" THEN 1 ELSE 0)
    BY <1>1, CountAppend
<1> QED
    BY <1>2 DEF OutData, Eofs

LEMMA ReadOutput ==
    ASSUME Typed, s2c # <<>>, s2c' = Tail(s2c)
    PROVE  /\ OutData = OutData' + (IF Head(s2c).kind = "data" THEN 1 ELSE 0)
           /\ Eofs = Eofs' + (IF Head(s2c).kind = "eof" THEN 1 ELSE 0)
           /\ OutData' \in Nat /\ Eofs' \in Nat
<1>1. s2c \in Seq(ToClient) /\ Tail(s2c) \in Seq(ToClient)
    BY TailFacts DEF Typed
<1>2. /\ Count(s2c, "data") = Count(Tail(s2c), "data") + (IF Head(s2c).kind = "data" THEN 1 ELSE 0)
      /\ Count(s2c, "eof") = Count(Tail(s2c), "eof") + (IF Head(s2c).kind = "eof" THEN 1 ELSE 0)
    BY <1>1, CountTail
<1>3. Count(Tail(s2c), "data") \in Nat /\ Count(Tail(s2c), "eof") \in Nat
    BY <1>1, CountType
<1> QED
    BY <1>2, <1>3 DEF OutData, Eofs

LEMMA DroppedOutput == s2c' = <<>> => OutData' = 0 /\ Eofs' = 0
BY CountEmpty DEF OutData, Eofs

\* A prefix holds no more data; one that holds an Eof holds all of it.
LEMMA CutOutput ==
    ASSUME Typed, Ordered, NEW n \in 0..Len(s2c), s2c' = SubSeq(s2c, 1, n)
    PROVE  /\ OutData' <= OutData /\ OutData' \in Nat
           /\ Eofs' > 0 => Eofs > 0 /\ OutData' = OutData
<1>1. /\ s2c \in Seq(ToClient) /\ s2c' \in Seq(ToClient)
      /\ Len(s2c) \in Nat /\ DOMAIN s2c = 1..Len(s2c) /\ DOMAIN s2c' = 1..n
      /\ \A i \in 1..n : s2c'[i] = s2c[i]
    BY PrefixFacts DEF Typed
<1>2. OutData' = Count(s2c', "data") /\ Eofs' = Count(s2c', "eof")
    BY DEF OutData, Eofs
<1>3. Count(s2c', "data") \in Nat /\ Count(s2c', "eof") \in Nat
    BY <1>1, CountType
<1>4. Count(s2c', "data") <= Count(s2c, "data") /\ Count(s2c', "eof") <= Count(s2c, "eof")
    BY <1>1, CountPrefix
<1>5. ASSUME Eofs' > 0
      PROVE  OutData' = OutData
    <2>1. PICK i \in DOMAIN s2c' : s2c'[i].kind = "eof"
        <3> DEFINE t == SubSeq(s2c, 1, n)
        <3>1. Count(t, "eof") # 0
            BY <1>2, <1>5, <1>3
        <3> HIDE DEF t
        <3>2. \E i \in DOMAIN t : t[i].kind = "eof"
            BY <3>1, CountSome
        <3> QED
            BY <3>2 DEF t
    <2>2. i \in DOMAIN s2c /\ i <= n /\ i \in Nat /\ s2c[i].kind = "eof"
        BY <1>1, <2>1
    <2>3. \A j \in Places(s2c, "data") : j <= n
        BY <1>1, <2>2 DEF Ordered, Places
    <2>4. Count(s2c', "data") = Count(s2c, "data")
        BY <1>1, <2>3, CountPrefix
    <2> QED
        BY <1>2, <2>4 DEF OutData
<1> QED
    BY <1>2, <1>3, <1>4, <1>5, OutputSizes DEF OutData, Eofs

(***************************************************************************)
(* The order in the stream.                                                *)
(***************************************************************************)
LEMMA ShorterOrdered ==
    ASSUME Typed, Ordered, srv = "ended" => srv' = "ended",
           \/ s2c' = s2c \/ s2c' = <<>>
           \/ s2c # <<>> /\ s2c' = Tail(s2c)
           \/ \E n \in 0..Len(s2c) : s2c' = SubSeq(s2c, 1, n)
    PROVE  Ordered'
<1>1. CASE s2c' = s2c \/ s2c' = <<>>
    BY <1>1 DEF Ordered
<1>2. CASE s2c # <<>> /\ s2c' = Tail(s2c)
    <2>1. /\ Len(s2c) \in Nat \ {0} /\ DOMAIN s2c = 1..Len(s2c)
          /\ DOMAIN s2c' = 1..(Len(s2c) - 1)
          /\ \A i \in 1..(Len(s2c) - 1) : s2c'[i] = s2c[i + 1]
        BY <1>2, TailFacts DEF Typed
    <2> SUFFICES ASSUME NEW i \in DOMAIN s2c', s2c'[i].kind = "eof"
                 PROVE  srv' = "ended" /\ \A j \in DOMAIN s2c' : s2c'[j].kind = "data" => j < i
        BY DEF Ordered
    <2>3. \A j \in DOMAIN s2c' : j \in Nat /\ j + 1 \in DOMAIN s2c /\ s2c'[j] = s2c[j + 1]
        <3>1. \A j \in 1..(Len(s2c) - 1) : j \in Nat /\ j + 1 \in 1..Len(s2c)
            BY <2>1, Following
        <3> QED
            BY <2>1, <3>1
    <2>2. i + 1 \in DOMAIN s2c /\ s2c[i + 1].kind = "eof" /\ i \in Nat
        BY <2>3
    <2>4. srv = "ended" /\ \A j \in DOMAIN s2c : s2c[j].kind = "data" => j < i + 1
        BY <2>2 DEF Ordered
    <2>5. ASSUME NEW j \in DOMAIN s2c', s2c'[j].kind = "data"
          PROVE  j < i
        <3>1. j \in Nat /\ j + 1 \in DOMAIN s2c /\ s2c[j + 1].kind = "data"
            BY <2>3, <2>5
        <3>2. j + 1 < i + 1
            BY <2>4, <3>1
        <3> QED
            BY <2>2, <3>1, <3>2
    <2> QED
        BY <2>4, <2>5
<1>3. CASE \E n \in 0..Len(s2c) : s2c' = SubSeq(s2c, 1, n)
    <2>1. PICK n \in 0..Len(s2c) : s2c' = SubSeq(s2c, 1, n)
        BY <1>3
    <2>2. /\ DOMAIN s2c = 1..Len(s2c) /\ Len(s2c) \in Nat /\ DOMAIN s2c' = 1..n
          /\ \A i \in 1..n : s2c'[i] = s2c[i]
        BY <2>1, PrefixFacts DEF Typed
    <2>3. \A i \in DOMAIN s2c' : i \in DOMAIN s2c /\ s2c'[i] = s2c[i]
        <3> QED
            BY <2>2, Within
    <2> QED
        BY <2>3 DEF Ordered
<1> QED
    BY <1>1, <1>2, <1>3

LEMMA LongerOrdered ==
    ASSUME Typed, Ordered, srv # "ended", NEW m \in ToClient, m.kind # "eof",
           s2c' = Append(s2c, m)
    PROVE  Ordered'
<1>1. /\ DOMAIN s2c = 1..Len(s2c) /\ Len(s2c) \in Nat
      /\ DOMAIN s2c' = 1..(Len(s2c) + 1)
      /\ \A i \in 1..Len(s2c) : s2c'[i] = s2c[i]
      /\ s2c'[Len(s2c) + 1] = m
    BY AppendFacts DEF Typed
<1>2. \A i \in DOMAIN s2c' : s2c'[i].kind # "eof"
    BY <1>1 DEF Ordered
<1> QED
    BY <1>2 DEF Ordered

\* What the server says when a session is over: three messages, of which the
\* first is the Eof.
LEMMA ReportAppends ==
    ASSUME Typed, Report, ServerCanSend
    PROVE  /\ DOMAIN s2c = 1..Len(s2c) /\ Len(s2c) \in Nat
           /\ DOMAIN s2c' = 1..(Len(s2c) + 3)
           /\ \A i \in 1..Len(s2c) : s2c'[i] = s2c[i]
           /\ s2c'[Len(s2c) + 1].kind = "eof"
           /\ s2c'[Len(s2c) + 2].kind = "exit"
           /\ s2c'[Len(s2c) + 3].kind = "close"
           /\ OutData' = OutData
<1>1. /\ s2c \in Seq(ToClient)
      /\ Msg("eof") \in ToClient /\ Msg("close") \in ToClient /\ ExitStatus(seen) \in ToClient
    BY MsgTypes DEF Report, Typed
<1> DEFINE p == Append(s2c, Msg("eof"))
           q == Append(p, ExitStatus(seen))
<1>2. p \in Seq(ToClient) /\ q \in Seq(ToClient)
    BY <1>1, AppendProperties
<1>3. s2c' = Append(q, Msg("close"))
    BY <1>1, AppendAll DEF Report
<1>4. /\ Len(s2c) \in Nat /\ DOMAIN s2c = 1..Len(s2c) /\ Len(p) = Len(s2c) + 1
      /\ \A i \in 1..Len(s2c) : p[i] = s2c[i]
      /\ p[Len(s2c) + 1] = Msg("eof")
    BY <1>1, LenProperties, AppendProperties
<1>5. /\ Len(q) = Len(s2c) + 2
      /\ \A i \in 1..(Len(s2c) + 1) : q[i] = p[i]
      /\ q[Len(s2c) + 2] = ExitStatus(seen)
    BY <1>1, <1>2, <1>4, AppendProperties
<1>6. /\ DOMAIN s2c' = 1..(Len(s2c) + 3)
      /\ \A i \in 1..(Len(s2c) + 2) : s2c'[i] = q[i]
      /\ s2c'[Len(s2c) + 3] = Msg("close")
    BY <1>1, <1>2, <1>3, <1>4, <1>5, AppendFacts
<1>7. /\ Count(p, "data") = Count(s2c, "data")
      /\ Count(q, "data") = Count(p, "data")
      /\ Count(s2c', "data") = Count(q, "data")
      /\ Count(s2c, "data") \in Nat
    <2>1. Count(p, "data") = Count(s2c, "data") + (IF Msg("eof").kind = "data" THEN 1 ELSE 0)
        BY <1>1, CountAppend
    <2>2. Count(q, "data") = Count(p, "data") + (IF ExitStatus(seen).kind = "data" THEN 1 ELSE 0)
        BY <1>1, <1>2, CountAppend
    <2>3. Count(s2c', "data") = Count(q, "data") + (IF Msg("close").kind = "data" THEN 1 ELSE 0)
        BY <1>1, <1>2, <1>3, CountAppend
    <2>4. Count(s2c, "data") \in Nat /\ Count(p, "data") \in Nat /\ Count(q, "data") \in Nat
        BY <1>1, <1>2, CountType
    <2> QED
        BY <2>1, <2>2, <2>3, <2>4, MsgTypes
<1> HIDE DEF p, q
<1>8. OutData' = OutData
    BY <1>7 DEF OutData
<1>9. /\ s2c'[Len(s2c) + 1] = Msg("eof") /\ s2c'[Len(s2c) + 2] = ExitStatus(seen)
      /\ \A i \in 1..Len(s2c) : s2c'[i] = s2c[i]
    BY <1>4, <1>5, <1>6
<1> QED
    BY <1>4, <1>6, <1>8, <1>9, MsgTypes

(***************************************************************************)
(* What a session's start sends: replies, never data or an Eof.            *)
(***************************************************************************)
LEMMA StartSends ==
    ASSUME Typed, Server, srv \in Start, Ordered
    PROVE  OutData' = OutData /\ Eofs' = Eofs /\ Ordered'
<1>1. srv # "ended"
    BY DEF Start
<1>2. \/ s2c' = s2c
      \/ \E m \in {Msg("confirm"), Msg("openfailure"), Msg("success")} : s2c' = Append(s2c, m)
      \/ s2c' = s2c \o <<Msg("failure"), Msg("close")>>
    BY DEF Server, ServerRuns, AcceptOpen, PtyRequest, StartRequest, UnknownSubsystem, ClientGoneEarly,
           RecvHead, OtherBranch, Swallow, Misread, PumpOutput, Sent, OutputEof, PumpInput, Written, InputFails, InputEof, ClientGone,
           ChildExited, Reap, Report, Start
<1>3. CASE s2c' = s2c
    BY <1>1, <1>3 DEF OutData, Eofs, Ordered
<1>4. CASE \E m \in {Msg("confirm"), Msg("openfailure"), Msg("success")} : s2c' = Append(s2c, m)
    <2>1. PICK m \in {Msg("confirm"), Msg("openfailure"), Msg("success")} : s2c' = Append(s2c, m)
        BY <1>4
    <2>2. m \in ToClient /\ m.kind \notin {"data", "eof"}
        BY MsgTypes
    <2> QED
        BY <1>1, <2>1, <2>2, AppendedOutput, LongerOrdered, OutputSizes
<1>5. CASE s2c' = s2c \o <<Msg("failure"), Msg("close")>>
    <2> DEFINE p == Append(s2c, Msg("failure"))
    <2>1. s2c \in Seq(ToClient) /\ Msg("failure") \in ToClient /\ Msg("close") \in ToClient
        BY MsgTypes DEF Typed
    <2>2. p \in Seq(ToClient) /\ s2c' = Append(p, Msg("close"))
        BY <1>5, <2>1, AppendAll
    <2>3. \A k \in {"data", "eof"} : Count(p, k) = Count(s2c, k) /\ Count(s2c', k) = Count(s2c, k)
        <3> TAKE k \in {"data", "eof"}
        <3>1. Count(p, k) = Count(s2c, k) + (IF Msg("failure").kind = k THEN 1 ELSE 0)
            BY <2>1, CountAppend
        <3>2. Count(s2c', k) = Count(p, k) + (IF Msg("close").kind = k THEN 1 ELSE 0)
            BY <2>1, <2>2, CountAppend
        <3>3. Count(s2c, k) \in Nat /\ Count(p, k) \in Nat
            BY <2>1, <2>2, CountType
        <3> QED
            BY <3>1, <3>2, <3>3, MsgTypes
    <2> HIDE DEF p
    <2>4. OutData' = OutData /\ Eofs' = Eofs
        BY <2>3 DEF OutData, Eofs
    <2>5. \A i \in DOMAIN s2c' : s2c'[i].kind # "eof"
        <3>1. s2c' \in Seq(ToClient) /\ Eofs = 0
            BY <1>1, <2>1, <2>2, AppendProperties, ServerEofs
        <3>2. Count(s2c', "eof") = 0
            BY <2>4, <3>1 DEF Eofs
        <3> QED
            BY <3>1, <3>2, CountZero
    <2> QED
        BY <2>4, <2>5 DEF Ordered
<1> QED
    BY <1>2, <1>3, <1>4, <1>5

LEMMA StepOrdered == Typed /\ Ordered /\ [Next]_vars => Ordered'
<1> SUFFICES ASSUME Typed, Ordered, [Next]_vars PROVE Ordered'
    OBVIOUS
<1>1. CASE UNCHANGED vars \/ ClientMain \/ ClientOutput \/ Child \/ LinkLost
    <2>1. srv' = srv
        BY <1>1 DEF vars, ClientMain, ClientOutput, ReadConfirm, ReadPtyReply, ReadStartReply,
           SetupFails, SendStdin, SendStdinFails, StdinEof, OutputJoined, Finish, PrintData,
           OutputEnds, Child, ChildRuns, ChildClosesOutput, ChildWrites, ChildReads, ChildExits, LinkLost, serverVars
    <2>2. \/ s2c' = s2c \/ s2c' = <<>>
          \/ s2c # <<>> /\ s2c' = Tail(s2c)
          \/ \E n \in 0..Len(s2c) : s2c' = SubSeq(s2c, 1, n)
        BY <1>1 DEF vars, ClientMain, ClientOutput, ReadConfirm, ReadPtyReply, ReadStartReply,
           SetupFails, SendStdin, SendStdinFails, StdinEof, OutputJoined, Finish, PrintData,
           OutputEnds, Child, ChildRuns, ChildClosesOutput, ChildWrites, ChildReads, ChildExits, LinkLost, Returns
    <2> QED
        BY <2>1, <2>2, ShorterOrdered
<1>2. CASE Server
    <2>1. CASE srv \in Start
        BY <1>2, <2>1, StartSends
    <2>2. CASE srv \notin Start
        <3>1. \/ s2c' = s2c /\ srv # "ended"
              \/ s2c' = Append(s2c, Msg("data")) /\ srv # "ended"
              \/ Report /\ ServerCanSend
            BY <1>2, <2>2 DEF Server, ServerRuns, AcceptOpen, PtyRequest, StartRequest, UnknownSubsystem,
               ClientGoneEarly, RecvHead, OtherBranch, Swallow, Misread, PumpOutput, Sent, OutputEof, PumpInput, Written, InputFails,
               InputEof, ClientGone, ChildExited, Reap, Report, Start
        <3>2. CASE s2c' = s2c /\ srv # "ended"
            BY <3>2 DEF Ordered
        <3>3. CASE s2c' = Append(s2c, Msg("data")) /\ srv # "ended"
            BY <3>3, LongerOrdered, MsgTypes
        <3>4. CASE Report /\ ServerCanSend
            <4>1. srv # "ended" /\ srv' = "ended"
                BY <3>4 DEF Report, TaskEnds
            <4>2. /\ DOMAIN s2c = 1..Len(s2c) /\ Len(s2c) \in Nat
                  /\ DOMAIN s2c' = 1..(Len(s2c) + 3)
                  /\ \A i \in 1..Len(s2c) : s2c'[i] = s2c[i]
                  /\ s2c'[Len(s2c) + 1].kind = "eof"
                  /\ s2c'[Len(s2c) + 2].kind = "exit"
                  /\ s2c'[Len(s2c) + 3].kind = "close"
                BY <3>4, ReportAppends
            <4>3. \A i \in DOMAIN s2c' : s2c'[i].kind = "eof" => i >= Len(s2c) + 1
                BY <4>1, <4>2 DEF Ordered
            <4>4. \A i \in DOMAIN s2c' : s2c'[i].kind = "data" => i <= Len(s2c)
                BY <4>2
            <4> QED
                BY <4>1, <4>2, <4>3, <4>4 DEF Ordered
        <3> QED
            BY <3>1, <3>2, <3>3, <3>4
    <2> QED
        BY <2>1, <2>2
<1> QED
    BY <1>1, <1>2 DEF Next

(***************************************************************************)
(* The account of the output is kept.                                      *)
(***************************************************************************)
LEMMA InitOutput == Init => Ordered /\ Output
<1> SUFFICES ASSUME Init PROVE Ordered /\ Output
    OBVIOUS
<1>1. s2c = <<>> /\ OutData = 0 /\ Eofs = 0
    BY CountEmpty DEF Init, OutData, Eofs
<1> QED
    BY <1>1 DEF Init, Ordered, Output, Drained, InHand

\* A client that returned, or gave its output up: nothing is claimed but that
\* no chunk was printed twice.
LEMMA GivenUp ==
    ASSUME Typed, Typed', Output, UNCHANGED <<got, serverVars, childVars>>, s2c' = <<>>,
           link' = "closed" \/ out' = "ended"
    PROVE  Output'
<1>1. OutData' = 0 /\ Eofs' = 0 /\ InHand' = InHand
    BY DroppedOutput DEF InHand, serverVars
<1> QED
    BY <1>1, OutputSizes DEF Output, Drained, serverVars, childVars

LEMMA ClientOutputKept ==
    ASSUME Typed, Typed', Lives, Setup, Ordered, Output, ClientMain \/ ClientOutput
    PROVE  Output'
<1>1. UNCHANGED <<req, srv, cut, child, pout, wrote>> /\ InHand' = InHand /\ Pty' = Pty
    BY DEF ClientMain, ClientOutput, ReadConfirm, ReadPtyReply, ReadStartReply, SetupFails,
           SendStdin, SendStdinFails, StdinEof, OutputJoined, Finish, PrintData, OutputEnds,
           serverVars, childVars, InHand, Pty
<1>2. CASE SetupFails \/ SendStdinFails \/ Finish \/ OutputEnds
    <2>1. UNCHANGED <<got, serverVars, childVars>> /\ s2c' = <<>>
          /\ (link' = "closed" \/ out' = "ended")
        BY <1>2 DEF SetupFails, SendStdinFails, Finish, OutputEnds, Returns
    <2> QED
        BY <2>1, GivenUp
<1>3. CASE ReadConfirm \/ ReadPtyReply \/ ReadStartReply
    <2>1. /\ UNCHANGED <<got, link>> /\ s2c # <<>> /\ s2c' = Tail(s2c)
          /\ out' # "ended" => out # "ended"
        BY <1>3 DEF ReadConfirm, ReadPtyReply, ReadStartReply, Lives
    <2>2. Head(s2c).kind \notin {"data", "eof"}
        BY <1>3, MsgTypes DEF ReadConfirm, ReadPtyReply, ReadStartReply, Setup,
                              SkippedMessagesAreReplies
    <2>3. OutData' = OutData /\ Eofs' = Eofs
        BY <2>1, <2>2, ReadOutput
    <2> QED
        BY <1>1, <2>1, <2>3 DEF Output, Drained
<1>4. CASE PrintData
    <2>1. /\ UNCHANGED <<out, link>> /\ s2c # <<>> /\ s2c' = Tail(s2c) /\ got' = got + 1
          /\ Head(s2c).kind = "data"
        BY <1>4, MsgTypes DEF PrintData
    <2>2. got' + OutData' = got + OutData /\ Eofs' = Eofs
        BY <2>1, ReadOutput, OutputSizes
    <2>3. got' + OutData' + pout' + InHand' = got + OutData + pout + InHand
        BY <1>1, <2>2
    <2> QED
        BY <1>1, <2>1, <2>2, <2>3 DEF Output, Drained
<1>5. CASE SendStdin \/ StdinEof \/ OutputJoined
    <2>1. UNCHANGED <<got, link, out, s2c>>
        BY <1>5 DEF SendStdin, StdinEof, OutputJoined
    <2>2. OutData' = OutData /\ Eofs' = Eofs
        BY <2>1 DEF OutData, Eofs
    <2> QED
        BY <1>1, <2>1, <2>2 DEF Output, Drained
<1> QED
    BY <1>2, <1>3, <1>4, <1>5 DEF ClientMain, ClientOutput

LEMMA ServerOutputKept ==
    ASSUME Typed, Typed', Lives, Lives', Setup, Ordered, Ordered', Output, Server
    PROVE  Output'
<1>1. UNCHANGED <<req, link, got, out, cl, wrote>> /\ Pty' = Pty /\ (~cut' => ~cut)
    <2>1. UNCHANGED <<req, link, got, out, cl, wrote>>
        BY DEF Server, ServerRuns, AcceptOpen, PtyRequest, StartRequest, UnknownSubsystem,
               ClientGoneEarly, RecvHead, OtherBranch, Swallow, Misread, PumpOutput, Sent, OutputEof,
               PumpInput, Written, InputFails, InputEof, ClientGone, ChildExited, Reap, Report,
               clientVars, childVars
    <2>2. ~cut' => ~cut
        BY DEF Server, ServerRuns, AcceptOpen, PtyRequest, StartRequest, UnknownSubsystem,
               ClientGoneEarly, RecvHead, OtherBranch, Swallow, Misread, PumpOutput, Sent, OutputEof,
               PumpInput, Written, InputFails, InputEof, ClientGone, ChildExited, Reap, Report,
               serverVars
    <2> QED
        BY <2>1, <2>2 DEF Pty
<1>2. CASE srv \in Start
    <2>1. OutData' = OutData /\ Eofs' = Eofs
        BY <1>2, StartSends
    <2>2. wrote = 0 /\ got = 0 /\ OutData = 0 /\ pout = 0
        <3>1. wrote = 0
            BY <1>2 DEF Output, Lives
        <3> QED
            BY <3>1, OutputSizes DEF Output
    <2>3. Eofs = 0
        BY <1>2, ServerEofs DEF Start
    <2>4. pout' = pout /\ srv' \in {"requests", "pumping", "ended"}
        BY <1>2 DEF Server, ServerRuns, AcceptOpen, PtyRequest, StartRequest, UnknownSubsystem,
           ClientGoneEarly, RecvHead, OtherBranch, Swallow, Misread, PumpOutput, Sent, OutputEof, PumpInput, Written, InputFails,
           InputEof, ClientGone, ChildExited, Reap, Report, TaskEnds, childVars, Start
    <2>5. InHand' = 0
        BY <2>4 DEF InHand
    <2> QED
        BY <1>1, <2>1, <2>2, <2>3, <2>4, <2>5 DEF Output, Drained
<1>3. CASE PumpOutput \/ Sent
    <2>1. Eofs' = 0
        <3>1. srv' # "ended"
            BY <1>3 DEF PumpOutput, Sent
        <3>2. \A i \in DOMAIN s2c' : s2c'[i].kind # "eof"
            BY <3>1 DEF Ordered
        <3>3. s2c' \in Seq(ToClient)
            BY DEF Typed
        <3> QED
            BY <3>2, CountNone DEF Eofs
    <2>3. UNCHANGED child
        BY <1>3 DEF PumpOutput, Sent, childVars
    <2>4. CASE s2c' = Append(s2c, Msg("data"))
        <3>1. OutData' = OutData + 1
            BY <2>4, AppendedOutput, MsgTypes, OutputSizes
        <3>2. /\ pout' + InHand' = pout + InHand - 1
              /\ srv \in {"pumping", "sending"} /\ srv' = "pumping"
            <4>1. CASE PumpOutput
                <5>1. srv = "pumping" /\ srv' \in {"pumping", "sending"} /\ pout' = pout - 1
                    BY <4>1 DEF PumpOutput
                <5>2. srv' = "pumping"
                    BY <2>4, <3>1, <4>1, OutputSizes DEF PumpOutput, OutData
                <5> QED
                    BY <5>1, <5>2, OutputSizes DEF InHand
            <4>2. CASE Sent
                <5>1. srv = "sending" /\ srv' \in {"pumping", "reaping"} /\ pout' = pout
                    BY <4>2 DEF Sent, childVars
                <5>2. srv' = "pumping"
                    BY <2>4, <3>1, <4>2, OutputSizes DEF Sent, OutData
                <5> QED
                    BY <5>1, <5>2, OutputSizes DEF InHand
            <4> QED
                BY <1>3, <4>1, <4>2
        <3>3. got' + OutData' + pout' + InHand' = got + OutData + pout + InHand
            <4>1. pout' \in Nat /\ InHand' \in {0, 1}
                BY SizeTypes DEF Typed, Sizes, InHand
            <4> QED
                BY <1>1, <3>1, <3>2, <4>1, OutputSizes
        <3> QED
            BY <1>1, <2>1, <2>3, <3>2, <3>3, OutputSizes DEF Output, Drained
    <2>5. CASE s2c' = s2c /\ srv = "pumping" /\ srv' = "sending" /\ pout' = pout - 1
        <3>1. OutData' = OutData /\ InHand' = 1 /\ InHand = 0
            BY <2>5 DEF OutData, InHand
        <3>2. got' + OutData' + pout' + InHand' = got + OutData + pout + InHand
            BY <1>1, <2>5, <3>1, OutputSizes
        <3> QED
            BY <1>1, <2>1, <2>3, <2>5, <3>2 DEF Output, Drained
    <2>6. CASE s2c' = s2c /\ srv' = "reaping" /\ pout' = pout /\ ~ServerCanSend
        <3>1. OutData' = OutData /\ InHand' = 0
            BY <2>6 DEF OutData, InHand
        <3>2. link = "closed" \/ out = "ended"
            BY <2>6 DEF ServerCanSend, Lives, Typed
        <3> QED
            BY <1>1, <2>1, <2>3, <2>6, <3>1, <3>2, OutputSizes DEF Output, Drained
    <2> QED
        BY <1>3, <2>4, <2>5, <2>6 DEF PumpOutput, Sent, childVars
<1>4. CASE OutputEof \/ ClientGone \/ Misread \/ ChildExited \/ Reap
    <2>1. /\ UNCHANGED <<s2c, pout>> /\ srv \in {"pumping", "reaping"}
          /\ srv' \in {"pumping", "reaping", "reporting"}
        BY <1>4 DEF OutputEof, ClientGone, Misread, ChildExited, Reap, childVars
    <2>2. OutData' = OutData /\ Eofs' = Eofs /\ InHand' = 0 /\ InHand = 0
        BY <2>1 DEF OutData, Eofs, InHand
    <2>3. Eofs = 0
        BY <2>1, ServerEofs
    <2>4. child' = child \/ child' = KilledChild
        BY <1>4 DEF OutputEof, ClientGone, Misread, ChildExited, Reap, childVars
    <2>5. child'.st = "none" => child.st = "none"
        BY <2>4 DEF KilledChild, Typed, ChildType
    <2>6. srv' = "pumping" => srv = "pumping"
        BY <1>4 DEF OutputEof, ClientGone, Misread, ChildExited, Reap
    <2>7. Drained'
        <3>1. CASE OutputEof
            BY <1>1, <2>1, <2>2, <3>1, OutputSizes DEF OutputEof, Output, Drained, childVars
        <3>2. CASE ClientGone
            <4>1. link = "closed"
                BY <3>2, MsgTypes, NoCloseSent DEF ClientGone, NoMoreFromClient, Lives
            <4> QED
                BY <1>1, <4>1 DEF Drained
        <3>5. CASE Misread
            <4>1. cut'
                BY <3>5 DEF Misread
            <4> QED
                BY <4>1 DEF Drained
        <3>3. CASE ChildExited
            BY <1>1, <3>3 DEF ChildExited, Drained
        <3>4. CASE Reap
            <4>1. srv = "reaping" /\ (Pty \/ child' = child)
                BY <3>4 DEF Reap
            <4>2. ~cut' => ~cut
                BY <1>1
            <4> QED
                BY <1>1, <2>1, <2>2, <4>1, <4>2 DEF Output, Drained
        <3> QED
            BY <1>4, <3>1, <3>2, <3>3, <3>4, <3>5
    <2> QED
        BY <1>1, <2>1, <2>2, <2>3, <2>5, <2>6, <2>7, OutputSizes DEF Output
<1>5. CASE \/ PumpInput \/ Written \/ InputFails \/ InputEof
            \/ RecvHead \/ OtherBranch \/ Swallow
    <2>1. /\ UNCHANGED <<s2c, pout, child>> /\ srv \in {"pumping", "writing"}
          /\ srv' \in {"pumping", "writing", "ended"}
        BY <1>5 DEF PumpInput, Written, InputFails, InputEof, RecvHead, OtherBranch, Swallow,
                    serverVars, childVars
    <2>2. OutData' = OutData /\ Eofs' = Eofs /\ InHand' = 0 /\ InHand = 0
        BY <2>1 DEF OutData, Eofs, InHand
    <2>3. Eofs = 0
        BY <2>1, ServerEofs
    <2> QED
        BY <1>1, <2>1, <2>2, <2>3, OutputSizes DEF Output, Drained
<1>6. CASE Report
    <2>1. srv = "reporting" /\ srv' = "ended" /\ UNCHANGED <<child, pout>>
        BY <1>6 DEF Report, TaskEnds, childVars
    <2>2. InHand' = 0 /\ InHand = 0
        BY <2>1 DEF InHand
    <2>3. CASE ServerCanSend
        <3>1. OutData' = OutData
            BY <1>6, <2>3, ReportAppends
        <3>2. link = "up" /\ out # "ended"
            BY <2>3 DEF ServerCanSend
        <3>3. ~Pty /\ ~cut => got + OutData = wrote
            BY <2>1, <3>2 DEF Output, Drained
        <3> QED
            BY <1>1, <2>1, <2>2, <3>1, <3>3 DEF Output, Drained
    <2>4. CASE ~ServerCanSend
        <3>1. s2c' = s2c
            BY <1>6, <2>4 DEF Report
        <3>2. OutData' = OutData /\ Eofs' = Eofs
            BY <3>1 DEF OutData, Eofs
        <3> QED
            BY <1>1, <2>1, <2>2, <3>2 DEF Output, Drained
    <2> QED
        BY <2>3, <2>4
<1> QED
    BY <1>2, <1>3, <1>4, <1>5, <1>6
    DEF Server, ServerRuns, AcceptOpen, PtyRequest, StartRequest, UnknownSubsystem, ClientGoneEarly, Start

LEMMA ChildOutputKept ==
    ASSUME Typed, Typed', Lives, Output, Ordered, Child
    PROVE  Output'
<1>1. /\ UNCHANGED <<req, link, s2c, srv, cut, got, out>> /\ child.st = "running"
      /\ child'.st # "none" /\ Pty' = Pty
    BY DEF Child, ChildRuns, ChildClosesOutput, ChildWrites, ChildReads, ChildExits, clientVars, serverVars, Typed, ChildType, Pty
<1>2. OutData' = OutData /\ Eofs' = Eofs /\ InHand' = InHand
    BY <1>1 DEF OutData, Eofs, InHand
<1>3. srv # "ended" /\ Eofs = 0
    BY <1>1, ServerEofs DEF Lives
<1>4. pout' - pout = wrote' - wrote /\ pout' \in Nat /\ wrote' \in Nat
    <2>1. pout' \in Nat /\ wrote' \in Nat
        BY SizeTypes DEF Typed, Sizes
    <2>2. \/ pout' = pout + 1 /\ wrote' = wrote + 1
          \/ pout' = pout /\ wrote' = wrote
        BY DEF Child, ChildRuns, ChildClosesOutput, ChildWrites, ChildReads, ChildExits
    <2> QED
        BY <2>1, <2>2, OutputSizes
<1>5. Drained'
    <2>1. CASE child.open
        <3>1. ~(~Pty /\ ~cut /\ srv \in {"reaping", "reporting"} /\ link = "up" /\ out # "ended")
            BY <1>1, <2>1 DEF Output, Drained
        <3> QED
            BY <1>1, <3>1 DEF Drained
    <2>2. CASE ~child.open
        <3>1. UNCHANGED <<pout, wrote>> /\ ~child'.open
            BY <2>2 DEF Child, ChildRuns, ChildClosesOutput, ChildWrites, ChildReads, ChildExits,
                        Typed, ChildType
        <3> QED
            BY <1>1, <1>2, <3>1 DEF Output, Drained
    <2> QED
        BY <2>1, <2>2
<1>6. /\ got' + OutData' + pout' + InHand' <= wrote'
      /\ got + OutData + pout + InHand = wrote => got' + OutData' + pout' + InHand' = wrote'
    BY <1>1, <1>2, <1>4, OutputSizes DEF Output
<1> QED
    BY <1>1, <1>2, <1>3, <1>5, <1>6 DEF Output

LEMMA LinkLostOutputKept ==
    ASSUME Typed, Typed', Ordered, Output, LinkLost
    PROVE  Output'
<1>1. UNCHANGED <<req, got, wrote, pout, srv, cut, child, out>> /\ link' = "closed" /\ Pty' = Pty
    BY DEF LinkLost, clientVars, serverVars, childVars, Pty
<1>2. OutData' <= OutData /\ OutData' \in Nat /\ InHand' = InHand
      /\ (Eofs' > 0 => Eofs > 0 /\ OutData' = OutData)
    BY <1>1, CutOutput DEF LinkLost, InHand
<1> QED
    BY <1>1, <1>2, OutputSizes DEF Output, Drained

LEMMA StepOutput ==
    Typed /\ Typed' /\ Lives /\ Lives' /\ Setup /\ Ordered /\ Ordered' /\ Output /\ [Next]_vars
    => Output'
<1> SUFFICES ASSUME Typed, Typed', Lives, Lives', Setup, Ordered, Ordered', Output, [Next]_vars
             PROVE  Output'
    OBVIOUS
<1>1. CASE UNCHANGED vars
    BY <1>1 DEF vars, Output, Drained, OutData, Eofs, InHand, Pty
<1> QED
    BY <1>1, ClientOutputKept, ServerOutputKept, ChildOutputKept, LinkLostOutputKept DEF Next

(***************************************************************************)
(* The theorems that rest on all of it.                                    *)
(***************************************************************************)
IInv == Typed /\ Lives /\ Setup /\ InputBound /\ Ordered /\ Output

LEMMA Inductive ==
    /\ Init => IInv
    /\ IInv /\ [Next]_vars => IInv'
<1>1. Init => IInv
    BY InitTyped, InitLives, InitSetup, InitInput, InitOutput DEF IInv
<1>2. IInv /\ [Next]_vars => IInv'
    BY StepTyped, StepLives, StepSetup, StepInput, StepOrdered, StepOutput DEF IInv
<1> QED
    BY <1>1, <1>2

\* Types, with the two bounds that are not plain: no more is printed than was
\* written, and no more is written than the program and its input hold.
THEOREM TypeCorrect == Spec => []TypeOK
<1>1. IInv => TypeOK
    <2> SUFFICES ASSUME IInv PROVE TypeOK
        OBVIOUS
    <2>1. wrote <= MaxIn + MaxOut
        BY InputSizes, SizeTypes DEF IInv, InputBound, Sizes
    <2>2. got <= wrote
        BY OutputSizes DEF IInv, Output
    <2>3. got \in 0..wrote /\ wrote \in 0..(MaxIn + MaxOut)
        BY <2>1, <2>2, OutputSizes, SizeTypes DEF IInv, Sizes
    <2> QED
        BY <2>3 DEF IInv, Typed, TypeOK, ChildType
<1> QED
    BY <1>1, Inductive, PTL DEF Spec

\* Until one of the two ends gives the session up, every chunk the child wrote
\* is printed, on the stream, in the pump's hands or in the child's buffer.
THEOREM OutputKept == Spec => []NothingLostBeforeTheEnd
<1>1. IInv => NothingLostBeforeTheEnd
    BY OutputIsKept DEF IInv
<1> QED
    BY <1>1, Inductive, PTL DEF Spec

\* A subsystem's report leaves only after all its output.
THEOREM OutputDrained == Spec => []SubsystemDrained
<1>1. IInv => SubsystemDrained
    BY OutputIsKept DEF IInv
<1> QED
    BY <1>1, Inductive, PTL DEF Spec
=============================================================================
