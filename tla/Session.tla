------------------------------ MODULE Session ------------------------------
(***************************************************************************)
(* One session channel from end to end: the sqsh client's session::run     *)
(* with its stdin loop and its stdout task, the QUIC stream, the server's  *)
(* session::handle with run_child/io_pump (a child on a PTY) or            *)
(* run_subsystem (a child on pipes), and the child.                        *)
(*                                                                         *)
(* Data is counted in chunks, never looked at. The stream holds NetCap     *)
(* messages in each direction (its flow-control window), the PTY or a pipe *)
(* BufCap chunks; whoever writes into a full one waits. Both pumps of the  *)
(* server handle one event at a time: while one waits to write, it reads   *)
(* nothing. They read a message by two awaits (read_message) in a branch   *)
(* of a select!: when another branch wins after the head of a message was  *)
(* consumed, that message is lost, and with it where the next ones begin.  *)
(***************************************************************************)
EXTENDS Integers, Sequences, FiniteSets

CONSTANTS
    Requests,   \* what the client may ask for: a subset of AllRequests
    Programs,   \* what the child may be: a subset of AllPrograms
    Codes,      \* exit codes a program may choose
    MaxIn,      \* bound: chunks the client's stdin holds
    MaxOut,     \* bound: chunks a "source" writes before it exits
    NetCap,     \* messages the stream holds in one direction
    BufCap,     \* chunks the PTY or a pipe holds in one direction
    Lossy,      \* may the connection be lost?
    Failing     \* may an open, a spawn or a write to a local stdout fail?

\* "unknown" is a subsystem the server has no command for.
AllRequests == {"shell", "exec", "subsystem", "unknown"}
\* A source writes and exits, without reading. A filter writes a chunk for
\* every chunk it reads and exits at the end of its input, like cat.
AllPrograms == {"source", "filter"}
Killed == 137    \* exit_code_from_status: 128 + SIGKILL
TimedOut == 255  \* io_pump: the child did not exit within 5 s of the PTY's EOF
NoCode == -1

ASSUME SessionAssumption ==
    /\ Requests \subseteq AllRequests
    /\ Programs \subseteq AllPrograms
    /\ Codes \subseteq 0..Killed - 1
    /\ {MaxIn, MaxOut} \subseteq Nat
    /\ {NetCap, BufCap} \subseteq Nat \ {0}
    /\ {Lossy, Failing} \subseteq BOOLEAN

VARIABLES
    req,     \* what this client asks for
    prog,    \* what the child is
    link,    \* the QUIC connection is "up" or "closed"
    c2s,     \* messages on their way to the server
    s2c,     \* messages on their way to the client
    cl,      \* the client's main task
    stdin,   \* chunks left in the client's stdin
    out,     \* the client's stdout task: "none", "running" or "ended"
    status,  \* the exit status the stdout task relayed, or NoCode
    got,     \* chunks the client wrote to its stdout
    result,  \* session::run: "pending", "ok", "status" (bailed on it), "error"
    srv,     \* the server's channel task
    seen,    \* the exit status the server has, or NoCode
    mid,     \* the server has consumed the head of the next message
    cut,     \* the server has lost a message it had half read
    child,   \* [st, code, hold, left, open]: hold is a chunk read and not
             \* written, open whether its stdout is
    pin,     \* chunks in the child's stdin (PTY input, or pipe)
    pinOpen, \* the write end of that pipe is open
    pout,    \* chunks in the child's stdout (PTY output, or pipe)
    wrote    \* chunks the child wrote

clientVars == <<cl, stdin, out, status, got, result>>
reader     == <<mid, cut>>
serverVars == <<srv, seen, reader>>
childVars  == <<child, pin, pinOpen, pout, wrote>>
vars == <<req, prog, link, c2s, s2c, cl, stdin, out, status, got, result,
          srv, seen, mid, cut, child, pin, pinOpen, pout, wrote>>

Msg(kind) == [kind |-> kind, code |-> NoCode]
ExitStatus(code) == [kind |-> "exit", code |-> code]
AllCodes == Codes \cup {Killed, TimedOut}
ToServer == {Msg(kind) : kind \in AllRequests \cup {"open", "pty", "data", "eof", "close"}}
ToClient == {Msg(kind) : kind \in {"confirm", "openfailure", "success", "failure",
                                   "data", "eof", "close"}}
            \cup {ExitStatus(code) : code \in AllCodes}
Pty == req \in {"shell", "exec"}

Born == [st |-> "running", code |-> NoCode, hold |-> FALSE, left |-> MaxOut, open |-> TRUE]

TypeOK ==
    /\ req \in Requests /\ prog \in Programs
    /\ link \in {"up", "closed"}
    /\ c2s \in Seq(ToServer) /\ s2c \in Seq(ToClient)
    /\ cl \in {"opening", "pty", "starting", "pumping", "waiting", "ended"}
    /\ stdin \in 0..MaxIn
    /\ out \in {"none", "running", "ended"}
    /\ status \in AllCodes \cup {NoCode}
    /\ result \in {"pending", "ok", "status", "error"}
    /\ srv \in {"opening", "requests", "pumping", "writing", "sending", "reaping",
                "reporting", "ended"}
    /\ seen \in AllCodes \cup {NoCode}
    /\ child \in [st : {"none", "running", "exited"}, code : AllCodes \cup {NoCode},
                  hold : BOOLEAN, left : 0..MaxOut, open : BOOLEAN]
    /\ mid \in BOOLEAN /\ cut \in BOOLEAN
    /\ pin \in 0..BufCap /\ pout \in 0..BufCap
    /\ pinOpen \in BOOLEAN
    /\ got \in 0..wrote /\ wrote \in 0..(MaxIn + MaxOut)

Init ==
    /\ req \in Requests /\ prog \in Programs
    /\ link = "up"
    /\ c2s = <<Msg("open")>> /\ s2c = <<>>
    /\ cl = "opening" /\ stdin \in 0..MaxIn /\ out = "none"
    /\ status = NoCode /\ got = 0 /\ result = "pending"
    /\ srv = "opening" /\ seen = NoCode /\ mid = FALSE /\ cut = FALSE
    /\ child = [Born EXCEPT !.st = "none"]
    /\ pin = 0 /\ pinOpen = TRUE /\ pout = 0 /\ wrote = 0

(***************************************************************************)
(* The stream. An end that dropped its half makes the other end's sends    *)
(* fail (STOP_SENDING), once that has arrived: a send to a server task     *)
(* that ended may still succeed, and is then lost. Sends on a closed       *)
(* connection always fail.                                                 *)
(***************************************************************************)
ClientMaySend == link = "up"
ClientSendMayFail == link = "closed" \/ srv = "ended"
ServerCanSend == link = "up" /\ out # "ended" /\ cl # "ended"
NoMoreFromServer == s2c = <<>> /\ (link = "closed" \/ srv = "ended")
NoMoreFromClient == c2s = <<>> /\ link = "closed"

ToSrv(kind) == c2s' = IF srv = "ended" THEN c2s ELSE Append(c2s, Msg(kind))

\* session::run returns r. connect_direct closes the connection, or drops it
\* on an error; what is under way may be lost, a prefix of it arrives.
Returns(r) ==
    /\ cl' = "ended"
    /\ result' = r
    /\ link' = "closed"
    /\ s2c' = <<>>
    /\ out' = "ended"
    /\ \E n \in 0..Len(c2s) : c2s' = SubSeq(c2s, 1, n)

(***************************************************************************)
(* The client: open, pty-req for a shell, and the request. Each reply is   *)
(* awaited; only the reply to the open is looked at.                       *)
(***************************************************************************)
ReadConfirm ==
    /\ cl = "opening" /\ s2c # <<>> /\ Head(s2c) = Msg("confirm")
    /\ ClientMaySend
    /\ cl' = IF req = "shell" THEN "pty" ELSE "starting"
    /\ ToSrv(IF req = "shell" THEN "pty" ELSE req)
    /\ s2c' = Tail(s2c)
    /\ UNCHANGED <<req, prog, link, stdin, out, status, got, result, serverVars, childVars>>

ReadPtyReply ==
    /\ cl = "pty" /\ s2c # <<>>
    /\ ClientMaySend
    /\ cl' = "starting"
    /\ ToSrv(req)
    /\ s2c' = Tail(s2c)
    /\ UNCHANGED <<req, prog, link, stdin, out, status, got, result, serverVars, childVars>>

ReadStartReply ==
    /\ cl = "starting" /\ s2c # <<>>
    /\ cl' = "pumping" /\ out' = "running"
    /\ s2c' = Tail(s2c)
    /\ UNCHANGED <<req, prog, link, c2s, stdin, status, got, result, serverVars, childVars>>

\* OpenFailure, or the stream ended before the reply.
SetupFails ==
    /\ \/ cl = "opening" /\ s2c # <<>> /\ Head(s2c) = Msg("openfailure")
       \/ cl \in {"opening", "pty", "starting"} /\ NoMoreFromServer
       \/ cl \in {"opening", "pty"} /\ s2c # <<>> /\ ClientSendMayFail
    /\ Returns("error")
    /\ UNCHANGED <<req, prog, stdin, status, got, serverVars, childVars>>

(***************************************************************************)
(* The stdout task. It ends at an exit status, and at Eof or Close without *)
(* one; then it drops its half of the stream.                              *)
(***************************************************************************)
PrintData ==
    /\ out = "running" /\ s2c # <<>> /\ Head(s2c) = Msg("data")
    /\ got' = got + 1
    /\ s2c' = Tail(s2c)
    /\ UNCHANGED <<req, prog, link, c2s, cl, stdin, out, status, result,
                   serverVars, childVars>>

EndsOutput(m) == m.kind \in {"exit", "eof", "close"}
OutputEnds ==
    /\ out = "running"
    /\ \/ /\ s2c # <<>> /\ EndsOutput(Head(s2c))
          /\ status' = Head(s2c).code
       \/ (NoMoreFromServer \/ (Failing /\ s2c # <<>>)) /\ status' = NoCode
    /\ out' = "ended"
    /\ s2c' = <<>>
    /\ UNCHANGED <<req, prog, link, c2s, cl, stdin, got, result, serverVars, childVars>>

(***************************************************************************)
(* The stdin loop, and the end of session::run.                            *)
(***************************************************************************)
SendStdin ==
    /\ cl = "pumping" /\ stdin > 0
    /\ ClientMaySend /\ Len(c2s) < NetCap
    /\ stdin' = stdin - 1
    /\ ToSrv("data")
    /\ UNCHANGED <<req, prog, link, s2c, cl, out, status, got, result, serverVars, childVars>>

SendStdinFails ==
    /\ cl = "pumping" /\ stdin > 0
    /\ ClientSendMayFail
    /\ Returns("error")
    /\ UNCHANGED <<req, prog, stdin, status, got, serverVars, childVars>>

StdinEof ==
    /\ cl = "pumping" /\ stdin = 0
    /\ cl' = "waiting"
    /\ IF link = "up" THEN ToSrv("eof") ELSE c2s' = c2s
    /\ UNCHANGED <<req, prog, link, s2c, stdin, out, status, got, result,
                   serverVars, childVars>>

OutputJoined ==
    /\ cl = "pumping" /\ out = "ended"
    /\ cl' = "waiting"
    /\ UNCHANGED <<req, prog, link, c2s, s2c, stdin, out, status, got, result,
                   serverVars, childVars>>

\* sender.send(Close).await?, then the exit status.
Finish ==
    /\ cl = "waiting" /\ out = "ended"
    /\ \/ ClientMaySend /\ Returns(IF status \in {NoCode, 0} THEN "ok" ELSE "status")
       \/ ClientSendMayFail /\ Returns("error")
    /\ UNCHANGED <<req, prog, stdin, status, got, serverVars, childVars>>

(***************************************************************************)
(* The server: dispatch and requests.                                      *)
(***************************************************************************)
\* The task ends: the stream is dropped, and the child with it (kill_on_drop).
TaskEnds == srv' = "ended" /\ c2s' = <<>>

AcceptOpen ==
    /\ srv = "opening" /\ c2s # <<>>
    /\ \/ /\ ServerCanSend
          /\ s2c' = Append(s2c, Msg("confirm"))
          /\ c2s' = Tail(c2s) /\ srv' = "requests"
       \/ /\ Failing \/ ~ServerCanSend
          /\ s2c' = IF ServerCanSend THEN Append(s2c, Msg("openfailure")) ELSE s2c
          /\ TaskEnds
    /\ UNCHANGED <<req, prog, link, clientVars, seen, reader, childVars>>

PtyRequest ==
    /\ srv = "requests" /\ c2s # <<>> /\ Head(c2s) = Msg("pty")
    /\ c2s' = Tail(c2s)
    /\ IF ServerCanSend
       THEN s2c' = Append(s2c, Msg("success")) /\ srv' = srv
       ELSE s2c' = s2c /\ srv' = "ended"
    /\ UNCHANGED <<req, prog, link, clientVars, seen, reader, childVars>>

\* Faulty variant: the child is spawned and nothing is replied.
StartWithoutReply ==
    /\ srv = "requests" /\ c2s # <<>>
    /\ Head(c2s) \in {Msg("shell"), Msg("exec"), Msg("subsystem")}
    /\ child' = Born
    /\ srv' = "pumping" /\ c2s' = Tail(c2s)
    /\ UNCHANGED <<req, prog, link, s2c, clientVars, seen, reader, pin, pinOpen, pout, wrote>>

\* Shell, exec or a known subsystem: success is replied, then the child is
\* spawned. A spawn that fails ends the task, and no message says so.
StartRequest ==
    /\ srv = "requests" /\ c2s # <<>>
    /\ Head(c2s) \in {Msg("shell"), Msg("exec"), Msg("subsystem")}
    /\ s2c' = IF ServerCanSend THEN Append(s2c, Msg("success")) ELSE s2c
    /\ \/ /\ ServerCanSend
          /\ child' = Born
          /\ srv' = "pumping" /\ c2s' = Tail(c2s)
       \/ /\ Failing \/ ~ServerCanSend
          /\ child' = child
          /\ TaskEnds
    /\ UNCHANGED <<req, prog, link, clientVars, seen, reader, pin, pinOpen, pout, wrote>>

UnknownSubsystem ==
    /\ srv = "requests" /\ c2s # <<>> /\ Head(c2s) = Msg("unknown")
    /\ s2c' = IF ServerCanSend THEN s2c \o <<Msg("failure"), Msg("close")>> ELSE s2c
    /\ TaskEnds
    /\ UNCHANGED <<req, prog, link, clientVars, seen, reader, childVars>>

ClientGoneEarly ==
    /\ srv \in {"opening", "requests"} /\ NoMoreFromClient
    /\ TaskEnds
    /\ UNCHANGED <<req, prog, link, s2c, clientVars, seen, reader, childVars>>

(***************************************************************************)
(* The server: io_pump and the loop of run_subsystem. Next message whole:  *)
(* the branch of the stream wins. Another branch wins: a message whose     *)
(* head was consumed is dropped.                                           *)
(***************************************************************************)
Arrives(kind) == srv = "pumping" /\ mid /\ c2s # <<>> /\ Head(c2s) = Msg(kind)
Received == c2s' = Tail(c2s) /\ mid' = FALSE /\ cut' = cut
Dropped ==
    /\ c2s' = IF mid /\ c2s # <<>> THEN Tail(c2s) ELSE c2s
    /\ cut' = (cut \/ mid)
    /\ mid' = FALSE

RecvHead ==
    /\ srv = "pumping" /\ c2s # <<>> /\ ~mid /\ ~cut
    /\ mid' = TRUE
    /\ UNCHANGED <<req, prog, link, c2s, s2c, clientVars, srv, seen, cut, childVars>>

\* The stderr of a subsystem, or a wake-up of the PTY for nothing.
OtherBranch ==
    /\ srv = "pumping" /\ mid
    /\ Dropped
    /\ UNCHANGED <<req, prog, link, s2c, clientVars, srv, seen, childVars>>

\* Bytes of a payload were read as a length: the loop waits for as many bytes,
\* and what follows is swallowed.
Swallow ==
    /\ srv = "pumping" /\ cut /\ c2s # <<>>
    /\ c2s' = Tail(c2s)
    /\ UNCHANGED <<req, prog, link, s2c, clientVars, serverVars, childVars>>

\* Output of the child becomes a Data message; a full stream holds the loop.
PumpOutput ==
    /\ srv = "pumping" /\ pout > 0
    /\ pout' = pout - 1
    /\ IF ServerCanSend /\ Len(s2c) < NetCap
       THEN s2c' = Append(s2c, Msg("data")) /\ srv' = srv
       ELSE s2c' = s2c /\ srv' = "sending"
    /\ Dropped
    /\ UNCHANGED <<req, prog, link, clientVars, seen, child, pin, pinOpen, wrote>>

\* Faulty variants: after waiting for the stream the chunk is sent twice; it is
\* forgotten.
SentTwice ==
    /\ srv = "sending" /\ ServerCanSend /\ Len(s2c) < NetCap
    /\ s2c' = s2c \o <<Msg("data"), Msg("data")>> /\ srv' = "pumping"
    /\ UNCHANGED <<req, prog, link, c2s, clientVars, seen, reader, childVars>>
SentNothing ==
    /\ srv = "sending" /\ ServerCanSend /\ Len(s2c) < NetCap
    /\ srv' = "pumping"
    /\ UNCHANGED <<req, prog, link, c2s, s2c, clientVars, seen, reader, childVars>>

Sent ==
    /\ srv = "sending"
    /\ \/ /\ ServerCanSend /\ Len(s2c) < NetCap
          /\ s2c' = Append(s2c, Msg("data")) /\ srv' = "pumping"
       \/ ~ServerCanSend /\ s2c' = s2c /\ srv' = "reaping"
    /\ UNCHANGED <<req, prog, link, c2s, clientVars, seen, reader, childVars>>

\* EIO on the PTY, EOF on the stdout pipe: the child's end is closed, and it
\* may still run.
OutputEof ==
    /\ srv = "pumping" /\ pout = 0 /\ (child.st = "exited" \/ ~child.open)
    /\ srv' = "reaping"
    /\ UNCHANGED <<req, prog, link, c2s, s2c, clientVars, seen, reader, childVars>>

\* A Data message is written to the child; a full buffer holds the loop.
PumpInput ==
    /\ Arrives("data") /\ Received
    /\ child.st = "running" /\ pinOpen
    /\ IF pin < BufCap THEN pin' = pin + 1 /\ srv' = srv
                       ELSE pin' = pin /\ srv' = "writing"
    /\ UNCHANGED <<req, prog, link, s2c, clientVars, seen, child, pinOpen, pout, wrote>>

Written ==
    /\ srv = "writing" /\ child.st = "running"
    /\ pin < BufCap
    /\ pin' = pin + 1
    /\ srv' = "pumping"
    /\ UNCHANGED <<req, prog, link, c2s, s2c, clientVars, seen, reader, child, pinOpen, pout, wrote>>

\* Input for a child that is gone. A pipe is closed, and what comes after is
\* dropped; on a PTY the write fails (EIO), and run_child with it: no report.
InputFails ==
    /\ child.st = "exited" \/ ~pinOpen
    /\ \/ srv = "writing" /\ c2s' = (IF Pty THEN <<>> ELSE c2s)
       \/ Arrives("data") /\ c2s' = IF Pty THEN <<>> ELSE Tail(c2s)
    /\ mid' = FALSE /\ cut' = cut
    /\ srv' = IF Pty THEN "ended" ELSE "pumping"
    /\ pinOpen' = Pty
    /\ UNCHANGED <<req, prog, link, s2c, clientVars, seen, child, pin, pout, wrote>>

\* Faulty variant: the Eof is ignored on pipes too.
InputEofIgnored ==
    /\ Arrives("eof") /\ Received
    /\ UNCHANGED <<req, prog, link, s2c, clientVars, srv, seen, childVars>>

\* Eof closes a stdin pipe. io_pump ignores it: a PTY has no half-close.
InputEof ==
    /\ Arrives("eof") /\ Received
    /\ pinOpen' = (Pty /\ pinOpen)
    /\ UNCHANGED <<req, prog, link, s2c, clientVars, srv, seen, child, pin, pout, wrote>>

KilledChild == IF child.st = "running"
               THEN [child EXCEPT !.st = "exited", !.code = Killed] ELSE child

\* Close, or the stream broke: the child is killed.
ClientGone ==
    /\ srv = "pumping"
    /\ Arrives("close") \/ NoMoreFromClient
    /\ child' = KilledChild
    /\ srv' = "reaping"
    /\ UNCHANGED <<req, prog, link, c2s, s2c, clientVars, seen, reader, pin, pinOpen, pout, wrote>>

\* The length is too large, or the bytes do not decode: the stream broke.
Misread ==
    /\ srv = "pumping" /\ cut
    /\ child' = KilledChild
    /\ srv' = "reaping"
    /\ UNCHANGED <<req, prog, link, c2s, s2c, clientVars, seen, reader, pin, pinOpen, pout, wrote>>

\* Faulty variant: run_subsystem returns at once as well.
ExitEndsLoop ==
    /\ srv = "pumping" /\ child.st = "exited" /\ seen = NoCode
    /\ seen' = child.code
    /\ srv' = "reporting"
    /\ Dropped
    /\ UNCHANGED <<req, prog, link, s2c, clientVars, childVars>>

\* child.wait() completes. io_pump returns at once; run_subsystem only keeps
\* the status and reads on until the end of the output.
ChildExited ==
    /\ srv = "pumping" /\ child.st = "exited" /\ seen = NoCode
    /\ seen' = child.code
    /\ srv' = IF Pty THEN "reporting" ELSE srv
    /\ Dropped
    /\ UNCHANGED <<req, prog, link, s2c, clientVars, childVars>>

\* Faulty variant: the 5 seconds pass and nobody kills the child.
ReapGivesUp ==
    /\ srv = "reaping"
    /\ \/ child.st = "exited" /\ seen' = child.code
       \/ Pty /\ child.st = "running" /\ seen' = TimedOut
    /\ srv' = "reporting"
    /\ UNCHANGED <<req, prog, link, c2s, s2c, clientVars, reader, childVars>>

\* After the loop: wait for the child, on a PTY for 5 seconds at most.
Reap ==
    /\ srv = "reaping"
    /\ \/ /\ child.st = "exited"
          /\ seen' = child.code
          /\ child' = child
       \/ /\ Pty /\ child.st = "running"
          /\ seen' = TimedOut
          /\ child' = KilledChild
    /\ srv' = "reporting"
    /\ UNCHANGED <<req, prog, link, c2s, s2c, clientVars, reader, pin, pinOpen, pout, wrote>>

\* Eof, ExitStatus and Close, best effort; then the stream is dropped.
Report ==
    /\ srv = "reporting"
    /\ s2c' = IF ServerCanSend
              THEN s2c \o <<Msg("eof"), ExitStatus(seen), Msg("close")>> ELSE s2c
    /\ TaskEnds
    /\ UNCHANGED <<req, prog, link, clientVars, seen, reader, childVars>>

(***************************************************************************)
(* The child.                                                              *)
(***************************************************************************)
ChildWrites ==
    /\ child.st = "running" /\ child.open /\ pout < BufCap
    /\ \/ prog = "source" /\ child.left > 0 /\ child' = [child EXCEPT !.left = @ - 1]
       \/ child.hold /\ child' = [child EXCEPT !.hold = FALSE]
    /\ pout' = pout + 1 /\ wrote' = wrote + 1
    /\ UNCHANGED <<req, prog, link, c2s, s2c, clientVars, serverVars, pin, pinOpen>>

ChildReads ==
    /\ child.st = "running" /\ prog = "filter" /\ ~child.hold /\ pin > 0
    /\ pin' = pin - 1
    /\ child' = [child EXCEPT !.hold = child.open]
    /\ UNCHANGED <<req, prog, link, c2s, s2c, clientVars, serverVars, pinOpen, pout, wrote>>

\* It writes no more, and runs on.
ChildClosesOutput ==
    /\ child.st = "running" /\ child.open /\ ~child.hold
    /\ child' = [child EXCEPT !.open = FALSE, !.left = 0]
    /\ UNCHANGED <<req, prog, link, c2s, s2c, clientVars, serverVars, pin, pinOpen, pout, wrote>>

ChildExits ==
    /\ child.st = "running"
    /\ \/ prog = "source" /\ child.left = 0
       \/ prog = "filter" /\ ~child.hold /\ pin = 0 /\ ~pinOpen
    /\ \E code \in Codes : child' = [child EXCEPT !.st = "exited", !.code = code]
    /\ UNCHANGED <<req, prog, link, c2s, s2c, clientVars, serverVars, pin, pinOpen, pout, wrote>>

LinkLost ==
    /\ Lossy /\ link = "up"
    /\ link' = "closed"
    /\ \E n \in 0..Len(c2s) : c2s' = SubSeq(c2s, 1, n)
    /\ \E n \in 0..Len(s2c) : s2c' = SubSeq(s2c, 1, n)
    /\ UNCHANGED <<req, prog, clientVars, serverVars, childVars>>

(***************************************************************************)
(* The specification. Fairness: the client's two tasks, the server's task  *)
(* and the child run whenever they can, the child being a program that     *)
(* ends; the client's stdin comes to an end. A loop that misreads its      *)
(* stream need not find out.                                               *)
(***************************************************************************)
ClientMain == \/ ReadConfirm \/ ReadPtyReply \/ ReadStartReply \/ SetupFails
              \/ SendStdin \/ SendStdinFails \/ StdinEof \/ OutputJoined \/ Finish
ClientOutput == PrintData \/ OutputEnds
ServerRuns ==
          \/ AcceptOpen \/ PtyRequest \/ StartRequest \/ UnknownSubsystem
          \/ ClientGoneEarly
          \/ RecvHead \/ Swallow
          \/ PumpOutput \/ Sent \/ OutputEof \/ PumpInput \/ Written \/ InputFails \/ InputEof
          \/ ClientGone \/ ChildExited \/ Reap \/ Report
ChildRuns == ChildWrites \/ ChildReads \/ ChildExits

\* What these do besides may happen, and need not.
Server == ServerRuns \/ OtherBranch \/ Misread
Child == ChildRuns \/ ChildClosesOutput

Next == ClientMain \/ ClientOutput \/ Server \/ Child \/ LinkLost

Spec == Init /\ [][Next]_vars
FairSpec == /\ Spec
            /\ WF_vars(ClientMain) /\ WF_vars(ClientOutput)
            /\ WF_vars(ServerRuns) /\ WF_vars(ChildRuns)

(***************************************************************************)
(* Properties.                                                             *)
(***************************************************************************)
Count(s, kind) == Cardinality({n \in DOMAIN s : s[n].kind = kind})

\* Nothing is printed that the child did not write, nothing twice, and nothing
\* out of a stream's order: what the child wrote is printed, under way, in the
\* pump's hands or in the buffer, as long as nobody gave the session up.
NothingLostBeforeTheEnd ==
    out # "ended" /\ link = "up" /\ srv \in {"pumping", "writing", "sending"} =>
        got + Count(s2c, "data") + pout + (IF srv = "sending" THEN 1 ELSE 0) = wrote

\* run_subsystem: "Terminate on child stdout EOF so the binary stream is fully
\* drained before we tear down". When a report is under way and the child ended
\* by itself, all it wrote was sent before. On a PTY this does not hold: io_pump
\* ends with the child; nor when the loop misreads what the client sends, and
\* gives the stream up.
SubsystemDrained ==
    ~Pty /\ ~cut /\ Count(s2c, "eof") > 0 /\ child.code \in Codes
        => got + Count(s2c, "data") = wrote

\* The client ignores what the replies to its requests say, so the messages it
\* skips as replies must be replies: never output, never the end of a session.
SkippedMessagesAreReplies ==
    cl \in {"pty", "starting"} /\ s2c # <<>> => Head(s2c).kind \in {"success", "failure"}

\* No child survives its channel task, whichever way the task ended.
NoOrphanChild == srv = "ended" => child.st # "running"

\* Every session comes to an end at both ends: the program finishes, its
\* output is relayed, the client returns and the channel's task ends, even when
\* the connection or the client's stdout fails, or the child closes its output
\* and runs on. What it takes: the input fits the buffers on its way, a program
\* on a PTY does not wait for the end of its input, and a subsystem's loop is
\* not left while the subsystem runs; and a program that waits for the end of
\* its input gets it, the messages before it having been read whole. (A filter
\* given one chunk more stops for good: the loop waits to write to it while it
\* waits for the loop to read. A filter whose Eof was cut waits for ever too,
\* and the client for it.)
SessionEnds ==
    /\ stdin <= (IF prog = "source" THEN BufCap ELSE BufCap + 1 + BufCap)
    /\ Pty => prog = "source"
    /\ ~Pty => [](srv = "reaping" => child.st = "exited")
    /\ prog = "filter" => []~cut
    => <>(cl = "ended" /\ srv = "ended")

\* docs/server.md: "explicit exit-status reporting". A client that returns
\* success ran a program that exited with 0.
FailureIsReported == result = "ok" /\ child.code \in Codes => child.code = 0
=============================================================================
