----------------------------- MODULE StdinBridge ----------------------------
(***************************************************************************)
(* Descriptor 0 of compat/win64/win_compat.c.                              *)
(*                                                                         *)
(* Winsock cannot poll a console handle, so the first use of descriptor 0  *)
(* makes a loopback socket pair and a worker thread that forwards what it  *)
(* reads from fd 0 into it (stdin_bridge_init, under an INIT_ONCE).        *)
(* skynetjit_close(0) tears the pair down and waits a second for the       *)
(* worker, which may be blocked in _read for longer than that.             *)
(*                                                                         *)
(* The rest of the process opens and closes native sockets of its own, so  *)
(* a SOCKET value the bridge closed can come back as somebody else's.      *)
(***************************************************************************)
EXTENDS Naturals, Sequences

CONSTANTS
    Callers,    \* threads that use descriptor 0
    Values,     \* native SOCKET values
    NoSocket,   \* INVALID_SOCKET
    INPUT,      \* bound: bytes that arrive on stdin
    BUFFER,     \* size of the worker's buffer (4096 in the code)
    SOCKBUF     \* bytes the loopback connection holds before send blocks

ASSUME BridgeAssumption ==
    /\ NoSocket \notin Values
    /\ INPUT \in Nat
    /\ BUFFER \in Nat \ {0}
    /\ SOCKBUF \in Nat \ {0}

VARIABLES
    owner,      \* who has each native socket: "free", "bridge" or "other"
    once,       \* stdin_bridge_once: "no", "running" or "done"
    local,      \* locals of native_socket_pair: listener, writer, reader
    reader,     \* stdin_bridge_reader
    writer,     \* stdin_bridge_writer
    handle,     \* stdin_bridge_thread_handle is not NULL
    started,    \* stdin_bridge_started
    pc,         \* where each caller is
    val,        \* the SOCKET a caller got from stdin_socket_value
    wpc,        \* where the worker is
    wsock,      \* the worker's writer parameter
    buf,        \* bytes the worker read and has not sent
    fd0,        \* the CRT's fd 0 is open
    typed,      \* bytes that arrived on stdin
    eof,        \* stdin is at its end after them
    consumed,   \* bytes _read has returned
    chan,       \* bytes in the loopback connection
    rcvd,       \* bytes the application received
    shut,       \* the connection's end was announced (SD_SEND)
    cut         \* close shut the writer down (SD_BOTH)

globals == <<reader, writer, handle, started>>
worker  == <<wpc, wsock, buf>>
stdin   == <<fd0, typed, eof, consumed>>
conn    == <<chan, rcvd, shut, cut>>

vars == <<owner, once, local, globals, pc, val, worker, stdin, conn>>

-----------------------------------------------------------------------------

Sock == Values \cup {NoSocket}

Unset == [listener |-> NoSocket, writer |-> NoSocket, reader |-> NoSocket]

Using(t) == pc[t] \in {"once", "listener", "setup", "writer", "connect", "accept",
                       "paired", "undo", "spawn", "publish", "complete", "value", "use"}

Closing(t) == pc[t] \in {"c_shut", "c_cancel", "c_wait", "c_writer", "c_reader"}

Goto(t, at) == pc' = [pc EXCEPT ![t] = at]

\* The bytes first..last of stdin.
Bytes(first, last) == [i \in 1 .. (last + 1 - first) |-> first + i - 1]

-----------------------------------------------------------------------------
(* The rest of the process, and the terminal (external) *)

OtherOpen ==
    /\ \E v \in Values : owner[v] = "free" /\ owner' = [owner EXCEPT ![v] = "other"]
    /\ UNCHANGED <<once, local, globals, pc, val, worker, stdin, conn>>

OtherClose ==
    /\ \E v \in Values : owner[v] = "other" /\ owner' = [owner EXCEPT ![v] = "free"]
    /\ UNCHANGED <<once, local, globals, pc, val, worker, stdin, conn>>

Type ==
    /\ typed < INPUT /\ ~eof
    /\ typed' = typed + 1
    /\ UNCHANGED <<owner, once, local, globals, pc, val, worker, fd0, eof, consumed, conn>>

EndOfInput ==
    /\ ~eof /\ eof' = TRUE
    /\ UNCHANGED <<owner, once, local, globals, pc, val, worker, fd0, typed, consumed, conn>>

-----------------------------------------------------------------------------
(* stdin_socket_value.  A caller uses descriptor 0 and does not overlap its
   uses with a close of it (external: the socket server of Skynet).         *)

StartUse(t) ==
    /\ pc[t] = "idle"
    /\ \A u \in Callers : ~Closing(u)
    /\ Goto(t, "once")
    /\ UNCHANGED <<owner, once, local, globals, val, worker, stdin, conn>>

\* InitOnceExecuteOnce: one caller runs stdin_bridge_init, the others wait.
OnceEnter(t) ==
    /\ pc[t] = "once" /\ once = "no"
    /\ once' = "running"
    /\ Goto(t, "listener")
    /\ UNCHANGED <<owner, local, globals, val, worker, stdin, conn>>

OnceDone(t) ==
    /\ pc[t] = "once" /\ once = "done"
    /\ Goto(t, "value")
    /\ UNCHANGED <<owner, once, local, globals, val, worker, stdin, conn>>

\* socket() or accept() gives the local x a socket, or fails.
MakeSocket(t, x, next) ==
    /\ \/ \E v \in Values :
            /\ owner[v] = "free"
            /\ owner' = [owner EXCEPT ![v] = "bridge"]
            /\ local' = [local EXCEPT ![x] = v]
            /\ Goto(t, next)
       \/ Goto(t, "undo") /\ UNCHANGED <<owner, local>>
    /\ UNCHANGED <<once, globals, val, worker, stdin, conn>>

\* A native call on a local succeeds or fails.
TryCall(t, next) ==
    /\ Goto(t, next) \/ Goto(t, "undo")
    /\ UNCHANGED <<owner, once, local, globals, val, worker, stdin, conn>>

PairListener(t) == pc[t] = "listener" /\ MakeSocket(t, "listener", "setup")

\* bind, listen, getsockname
PairSetup(t) == pc[t] = "setup" /\ TryCall(t, "writer")

PairWriter(t) == pc[t] = "writer" /\ MakeSocket(t, "writer", "connect")

PairConnect(t) == pc[t] = "connect" /\ TryCall(t, "accept")

PairAccept(t) == pc[t] = "accept" /\ MakeSocket(t, "reader", "paired")

\* closesocket on every local that is set; only this thread knows their values.
CloseLocals(X) ==
    /\ owner' = [v \in Values |-> IF \E x \in X : local[x] = v THEN "free" ELSE owner[v]]
    /\ local' = [x \in DOMAIN local |-> IF x \in X THEN NoSocket ELSE local[x]]

PairDone(t) ==
    /\ pc[t] = "paired"
    /\ CloseLocals({"listener"})
    /\ Goto(t, "spawn")
    /\ UNCHANGED <<once, globals, val, worker, stdin, conn>>

\* Mutant of PairFailed: the error path forgets the writer.
PairFailedLeaks(t) ==
    /\ pc[t] = "undo"
    /\ CloseLocals({"listener", "reader"})
    /\ once' = "no"
    /\ Goto(t, "idle")
    /\ UNCHANGED <<globals, val, worker, stdin, conn>>

\* stdin_bridge_init fails: the INIT_ONCE stays open for the next caller.
PairFailed(t) ==
    /\ pc[t] = "undo"
    /\ CloseLocals({"listener", "writer", "reader"})
    /\ once' = "no"
    /\ Goto(t, "idle")
    /\ UNCHANGED <<globals, val, worker, stdin, conn>>

\* _beginthreadex; without a thread both sockets are closed.
Spawn(t) ==
    /\ pc[t] = "spawn"
    /\ \/ /\ wpc' = "read" /\ wsock' = local.writer
          /\ Goto(t, "publish")
       \/ /\ Goto(t, "undo")
          /\ UNCHANGED <<wpc, wsock>>
    /\ UNCHANGED <<owner, once, local, globals, val, buf, stdin, conn>>

\* The globals are stored, stdin_bridge_started last.
Publish(t) ==
    /\ pc[t] = "publish"
    /\ reader' = local.reader /\ writer' = local.writer
    /\ handle' = TRUE /\ started' = TRUE
    /\ local' = Unset
    /\ Goto(t, "complete")
    /\ UNCHANGED <<owner, once, val, worker, stdin, conn>>

OnceComplete(t) ==
    /\ pc[t] = "complete"
    /\ once' = "done"
    /\ Goto(t, "value")
    /\ UNCHANGED <<owner, local, globals, val, worker, stdin, conn>>

\* stdin_socket_value returns the reader; on INVALID_SOCKET the call fails.
Value(t) ==
    /\ pc[t] = "value"
    /\ val' = [val EXCEPT ![t] = reader]
    /\ Goto(t, IF reader = NoSocket THEN "idle" ELSE "use")
    /\ UNCHANGED <<owner, once, local, globals, worker, stdin, conn>>

\* The native call: recv takes bytes, or reports the end, or finds nothing.
Use(t) ==
    /\ pc[t] = "use"
    /\ \/ \E k \in 1 .. Len(chan) :
            /\ rcvd' = rcvd \o SubSeq(chan, 1, k)
            /\ chan' = SubSeq(chan, k + 1, Len(chan))
       \/ chan = <<>> /\ UNCHANGED <<rcvd, chan>>
    /\ val' = [val EXCEPT ![t] = NoSocket]
    /\ Goto(t, "idle")
    /\ UNCHANGED <<owner, once, local, globals, worker, stdin, shut, cut>>

-----------------------------------------------------------------------------
(* stdin_bridge_worker *)

\* Mutant of WorkerRead: the end of the input is taken before what was typed.
WorkerReadDropsRest ==
    /\ wpc = "read"
    /\ \/ \E k \in 1 .. BUFFER :
            /\ fd0 /\ consumed + k <= typed
            /\ buf' = Bytes(consumed + 1, consumed + k)
            /\ consumed' = consumed + k
            /\ wpc' = "send"
       \/ /\ ~fd0 \/ eof
          /\ wpc' = "finish"
          /\ UNCHANGED <<buf, consumed>>
    /\ UNCHANGED <<owner, once, local, globals, pc, val, wsock, fd0, typed, eof, conn>>

\* Mutant of WorkerRead: the size of the buffer is taken for the count read.
WorkerReadOverruns ==
    /\ wpc = "read" /\ fd0 /\ consumed < typed
    /\ buf' = Bytes(consumed + 1, consumed + BUFFER)
    /\ consumed' = consumed + BUFFER
    /\ wpc' = "send"
    /\ UNCHANGED <<owner, once, local, globals, pc, val, wsock, fd0, typed, eof, conn>>

\* _read returns bytes; 0 at the end of the input, -1 on a closed descriptor, end
\* the loop.
WorkerRead ==
    /\ wpc = "read"
    /\ \/ \E k \in 1 .. BUFFER :
            /\ fd0 /\ consumed + k <= typed
            /\ buf' = Bytes(consumed + 1, consumed + k)
            /\ consumed' = consumed + k
            /\ wpc' = "send"
       \/ /\ ~fd0 \/ (eof /\ consumed = typed)
          /\ wpc' = "finish"
          /\ UNCHANGED <<buf, consumed>>
    /\ UNCHANGED <<owner, once, local, globals, pc, val, wsock, fd0, typed, eof, conn>>

\* Mutant of WorkerSend: offset ignores how much send took.
WorkerSendForgetsRest ==
    /\ wpc = "send"
    /\ \/ \E k \in 1 .. Len(buf) :
            /\ \/ /\ owner[wsock] = "bridge" /\ ~cut
                  /\ Len(chan) + k <= SOCKBUF
                  /\ chan' = chan \o SubSeq(buf, 1, k)
               \/ owner[wsock] = "other" /\ UNCHANGED chan
            /\ buf' = <<>>
            /\ wpc' = "read"
       \/ /\ owner[wsock] = "free" \/ (owner[wsock] = "bridge" /\ cut)
          /\ wpc' = "finish"
          /\ UNCHANGED <<buf, chan>>
    /\ UNCHANGED <<owner, once, local, globals, pc, val, wsock, stdin, rcvd, shut, cut>>

\* send takes part of the buffer, blocks while the connection is full, and fails on
\* a socket that was shut down or closed.  A value that came back as another socket
\* takes the bytes.
WorkerSend ==
    /\ wpc = "send"
    /\ \/ \E k \in 1 .. Len(buf) :
            /\ \/ /\ owner[wsock] = "bridge" /\ ~cut
                  /\ Len(chan) + k <= SOCKBUF
                  /\ chan' = chan \o SubSeq(buf, 1, k)
               \/ owner[wsock] = "other" /\ UNCHANGED chan
            /\ buf' = SubSeq(buf, k + 1, Len(buf))
            /\ wpc' = IF k = Len(buf) THEN "read" ELSE "send"
       \/ /\ owner[wsock] = "free" \/ (owner[wsock] = "bridge" /\ cut)
          /\ wpc' = "finish"
          /\ UNCHANGED <<buf, chan>>
    /\ UNCHANGED <<owner, once, local, globals, pc, val, wsock, stdin, rcvd, shut, cut>>

\* shutdown(writer, SD_SEND), and the thread ends.
WorkerFinish ==
    /\ wpc = "finish"
    /\ shut' = (shut \/ owner[wsock] = "bridge")
    /\ wpc' = "exit"
    /\ buf' = <<>>
    /\ UNCHANGED <<owner, once, local, globals, pc, val, wsock, stdin, chan, rcvd, cut>>

Worker == WorkerRead \/ WorkerSend \/ WorkerFinish

-----------------------------------------------------------------------------
(* stdin_bridge_close *)

\* InterlockedExchange lets one closer in; without a bridge, _close(0).
CloseStart(t) ==
    /\ pc[t] = "idle"
    /\ \A u \in Callers : ~Using(u)
    /\ \/ started /\ Goto(t, "c_shut") /\ UNCHANGED fd0
       \/ ~started /\ fd0' = FALSE /\ UNCHANGED pc
    /\ started' = FALSE
    /\ UNCHANGED <<owner, once, local, reader, writer, handle, val, worker,
                   typed, eof, consumed, conn>>

CloseShutdown(t) ==
    /\ pc[t] = "c_shut"
    /\ cut' = (cut \/ writer # NoSocket)
    /\ Goto(t, IF handle THEN "c_cancel" ELSE "c_writer")
    /\ UNCHANGED <<owner, once, local, globals, val, worker, stdin, chan, rcvd, shut>>

\* CancelSynchronousIo: the worker's _read fails if it is in one by now.
CloseCancel(t) ==
    /\ pc[t] = "c_cancel"
    /\ \/ wpc = "read" /\ wpc' = "finish"
       \/ UNCHANGED wpc
    /\ Goto(t, "c_wait")
    /\ UNCHANGED <<owner, once, local, globals, val, wsock, buf, stdin, conn>>

\* Mutant of CloseWait: WaitForSingleObject without a timeout.
CloseWaitForever(t) ==
    /\ pc[t] = "c_wait" /\ wpc = "exit"
    /\ handle' = FALSE
    /\ Goto(t, "c_writer")
    /\ UNCHANGED <<owner, once, local, reader, writer, started, val, worker, stdin, conn>>

\* The wait ends with the worker, or after 1000 ms whatever the worker does.
CloseWait(t) ==
    /\ pc[t] = "c_wait"
    /\ handle' = FALSE
    /\ Goto(t, "c_writer")
    /\ UNCHANGED <<owner, once, local, reader, writer, started, val, worker, stdin, conn>>

CloseWriter(t) ==
    /\ pc[t] = "c_writer"
    /\ owner' = [v \in Values |-> IF v = writer THEN "free" ELSE owner[v]]
    /\ writer' = NoSocket
    /\ Goto(t, "c_reader")
    /\ UNCHANGED <<once, local, reader, handle, started, val, worker, stdin, conn>>

\* Mutant of CloseReader: the global keeps the closed socket.
CloseReaderKeepsValue(t) ==
    /\ pc[t] = "c_reader"
    /\ owner' = [v \in Values |-> IF v = reader THEN "free" ELSE owner[v]]
    /\ Goto(t, "idle")
    /\ UNCHANGED <<once, local, globals, val, worker, stdin, conn>>

CloseReader(t) ==
    /\ pc[t] = "c_reader"
    /\ owner' = [v \in Values |-> IF v = reader THEN "free" ELSE owner[v]]
    /\ reader' = NoSocket
    /\ Goto(t, "idle")
    /\ UNCHANGED <<once, local, writer, handle, started, val, worker, stdin, conn>>

-----------------------------------------------------------------------------

Init ==
    /\ owner = [v \in Values |-> "free"]
    /\ once = "no" /\ local = Unset
    /\ reader = NoSocket /\ writer = NoSocket /\ handle = FALSE /\ started = FALSE
    /\ pc = [t \in Callers |-> "idle"] /\ val = [t \in Callers |-> NoSocket]
    /\ wpc = "none" /\ wsock = NoSocket /\ buf = <<>>
    /\ fd0 = TRUE /\ typed = 0 /\ eof = FALSE /\ consumed = 0
    /\ chan = <<>> /\ rcvd = <<>> /\ shut = FALSE /\ cut = FALSE

\* The steps of a use after its start, and of a close after its start.
UseStep(t) ==
    \/ OnceEnter(t) \/ OnceDone(t)
    \/ PairListener(t) \/ PairSetup(t) \/ PairWriter(t) \/ PairConnect(t)
    \/ PairAccept(t) \/ PairDone(t) \/ PairFailed(t)
    \/ Spawn(t) \/ Publish(t) \/ OnceComplete(t)
    \/ Value(t) \/ Use(t)

CloseStep(t) ==
    \/ CloseShutdown(t) \/ CloseCancel(t) \/ CloseWait(t)
    \/ CloseWriter(t) \/ CloseReader(t)

Next ==
    \/ OtherOpen \/ OtherClose \/ Type \/ EndOfInput
    \/ Worker
    \/ \E t \in Callers : StartUse(t) \/ UseStep(t) \/ CloseStart(t) \/ CloseStep(t)

\* The OS runs the worker and the callers; the socket loop keeps using descriptor 0
\* once the bridge is polled.  _read may block for ever: WorkerRead is not enabled
\* while no input is there.
Fairness ==
    /\ WF_vars(Worker)
    /\ \A t \in Callers : WF_vars(UseStep(t)) /\ WF_vars(CloseStep(t))
    /\ \A t \in Callers : WF_vars(once = "done" /\ StartUse(t))

Spec == Init /\ [][Next]_vars /\ Fairness

-----------------------------------------------------------------------------
(* Properties *)

\* Every variable has its type.
TypeOK ==
    /\ owner \in [Values -> {"free", "bridge", "other"}]
    /\ once \in {"no", "running", "done"}
    /\ local \in [{"listener", "writer", "reader"} -> Sock]
    /\ reader \in Sock /\ writer \in Sock /\ handle \in BOOLEAN /\ started \in BOOLEAN
    /\ pc \in [Callers -> {"idle", "once", "listener", "setup", "writer", "connect",
                 "accept", "paired", "undo", "spawn", "publish", "complete", "value",
                 "use", "c_shut", "c_cancel", "c_wait", "c_writer", "c_reader"}]
    /\ val \in [Callers -> Sock]
    /\ wpc \in {"none", "read", "send", "finish", "exit"}
    /\ wsock \in Sock
    /\ fd0 \in BOOLEAN /\ eof \in BOOLEAN /\ shut \in BOOLEAN /\ cut \in BOOLEAN
    /\ typed \in 0 .. INPUT /\ consumed \in 0 .. typed
    /\ \A s \in {buf, chan, rcvd} : s \in Seq(1 .. INPUT)

\* The bridge's sockets are those its variables name: none is lost by a failed
\* stdin_bridge_init or by a close, and no variable names a socket that was closed,
\* which a second closesocket would take from its new owner.
SocketsAccounted ==
    {v \in Values : owner[v] = "bridge"}
        = ({reader, writer} \cup {local[x] : x \in DOMAIN local}) \ {NoSocket}

\* A caller that polls or reads descriptor 0 does so on the bridge's reader.
UseOwnReader ==
    \A t \in Callers : pc[t] = "use" => val[t] = reader /\ owner[val[t]] = "bridge"

\* The end of the input is announced after its last byte: the socket loop does not see
\* the connection end while input is still on its way.
EndAfterData ==
    shut /\ ~cut => buf = <<>> /\ (fd0 => eof /\ consumed = typed)

Stream == INSTANCE ByteStream WITH
    CHUNK <- BUFFER, queue <- IF cut THEN <<>> ELSE chan \o buf, delivered <- rcvd

\* The bridge forwards stdin as a ByteStream: partial reads and sends, a full
\* connection and a racing close lose, repeat or reorder nothing.
RefinesByteStream == Stream!Spec

\* What is typed while the bridge runs reaches the application, unless somebody closes
\* descriptor 0.
InputArrives ==
    \A n \in 1 .. INPUT :
        (wpc # "none" /\ typed >= n) ~> (Len(rcvd) >= n \/ cut \/ ~fd0)

\* A close returns, even while the worker is blocked in _read.
CloseReturns == \A t \in Callers : Closing(t) ~> ~Closing(t)

\* Input the worker picks up from fd 0 goes into the bridge's socket pair: the writer it
\* is about to send to has not become another part's socket.
WorkerForwardsToBridge ==
    [][wpc = "read" /\ wpc' = "send" => owner[wsock] # "other"]_vars

=============================================================================
