-------------------------- MODULE StdinBridgeProofs -------------------------
(***************************************************************************)
(* Theorems about StdinBridge, for any number of callers and socket values *)
(* and any buffer sizes: the sockets of the bridge are accounted for, a    *)
(* caller uses the bridge's own reader, the end of the input is announced  *)
(* after its last byte, and the bridge implements ByteStream.              *)
(***************************************************************************)
EXTENDS StdinBridge, SequenceTheorems, TLAPS

\* Where a caller and the worker can be, who can own a socket, the locals' names.
CallerAt == {"idle", "once", "listener", "setup", "writer", "connect", "accept", "paired",
             "undo", "spawn", "publish", "complete", "value", "use", "c_shut", "c_cancel",
             "c_wait", "c_writer", "c_reader"}

WorkerAt == {"none", "read", "send", "finish", "exit"}

Owner == {"free", "bridge", "other"}

Locals == {"listener", "writer", "reader"}

\* TypeOK, conjunct by conjunct.
Types ==
    /\ owner \in [Values -> Owner] /\ once \in {"no", "running", "done"}
    /\ local \in [Locals -> Sock]
    /\ reader \in Sock /\ writer \in Sock /\ handle \in BOOLEAN /\ started \in BOOLEAN
    /\ pc \in [Callers -> CallerAt] /\ val \in [Callers -> Sock]
    /\ wpc \in WorkerAt /\ wsock \in Sock
    /\ fd0 \in BOOLEAN /\ eof \in BOOLEAN /\ shut \in BOOLEAN /\ cut \in BOOLEAN
    /\ typed \in 0 .. INPUT /\ consumed \in 0 .. typed
    /\ buf \in Seq(1 .. INPUT) /\ chan \in Seq(1 .. INPUT) /\ rcvd \in Seq(1 .. INPUT)

\* SocketsAccounted, value by value.
Accounted ==
    \A v \in Values :
        owner[v] = "bridge" <=> v = reader \/ v = writer \/ \E x \in Locals : local[x] = v

\* A caller inside stdin_bridge_init, and one that holds the pair in its locals.
InInit(t) == pc[t] \in {"listener", "setup", "writer", "connect", "accept", "paired",
                        "undo", "spawn", "publish", "complete"}

Building(t) == InInit(t) /\ pc[t] # "complete"

\* The globals have been stored.
Published == once = "done" \/ \E t \in Callers : pc[t] = "complete"

\* INIT_ONCE: one caller at a time runs stdin_bridge_init.
OnceInv ==
    /\ \A t, u \in Callers : InInit(t) /\ InInit(u) => t = u
    /\ once = "running" <=> \E t \in Callers : InInit(t)

\* InterlockedExchange: one closer, of a bridge that was started, while nobody uses it.
CloserInv ==
    /\ \A t, u \in Callers : Closing(t) => ~Using(u) /\ (Closing(u) => t = u)
    /\ (\E t \in Callers : Closing(t)) => once = "done" /\ ~started
    /\ started => Published

\* Which locals of native_socket_pair are set at each of its steps.
LocalInv ==
    /\ (\A t \in Callers : ~Building(t)) => local = Unset
    /\ \A t \in Callers :
        /\ pc[t] = "listener" => local = Unset
        /\ pc[t] \in {"setup", "writer"} =>
               local["writer"] = NoSocket /\ local["reader"] = NoSocket
        /\ pc[t] \in {"connect", "accept"} =>
               local["writer"] # NoSocket /\ local["reader"] = NoSocket
        /\ pc[t] \in {"paired", "spawn", "publish"} => local["writer"] # NoSocket
        /\ pc[t] \in {"spawn", "publish"} => local["listener"] = NoSocket
    /\ \A x, y \in DOMAIN local : local[x] = local[y] /\ x # y => local[x] = NoSocket

\* What the globals are before, during and after the life of the bridge.
GlobalInv ==
    /\ ~Published => reader = NoSocket /\ writer = NoSocket /\ ~started /\ ~cut
    /\ reader = writer => reader = NoSocket
    /\ started => writer # NoSocket
    /\ \A t \in Callers :
        /\ pc[t] = "c_shut" => writer # NoSocket
        /\ pc[t] \in {"c_cancel", "c_wait", "c_writer", "c_reader"} => cut
        /\ pc[t] = "c_reader" => writer = NoSocket
        /\ pc[t] = "use" => val[t] = reader /\ reader # NoSocket
    /\ cut /\ (\A t \in Callers : ~Closing(t)) => reader = NoSocket /\ writer = NoSocket

\* The worker runs from before the globals are stored, on the pair's writer.
WorkerInv ==
    /\ wpc = "none" <=> ~Published /\ \A t \in Callers : pc[t] # "publish"
    /\ \A t \in Callers : pc[t] = "publish" => wsock = local["writer"]
    /\ Published => writer = wsock \/ (writer = NoSocket /\ cut)
    /\ wpc # "none" => wsock # NoSocket

\* Where the bytes that _read returned are, and when the worker leaves its loop.
DataInv ==
    /\ wpc = "none" => chan = <<>> /\ rcvd = <<>> /\ consumed = 0
    /\ wpc \in {"none", "read"} => buf = <<>>
    /\ wpc \in {"finish", "exit"} /\ ~cut => buf = <<>> /\ (fd0 => eof /\ consumed = typed)
    /\ shut => wpc = "exit"
    /\ ~cut => consumed = Len(rcvd) + Len(chan) + Len(buf)

IInv == Types /\ Accounted /\ OnceInv /\ CloserInv /\ LocalInv /\ GlobalInv /\ WorkerInv /\ DataInv

-----------------------------------------------------------------------------
(* Facts about sequences *)

\* A sequence cut after its first k elements: recv and send take a prefix.
LEMMA SplitSeq ==
    ASSUME NEW S, NEW s \in Seq(S), NEW k \in 0 .. Len(s)
    PROVE  /\ SubSeq(s, 1, k) \in Seq(S) /\ Len(SubSeq(s, 1, k)) = k
           /\ \A i \in 1 .. k : SubSeq(s, 1, k)[i] = s[i]
           /\ SubSeq(s, k + 1, Len(s)) \in Seq(S)
           /\ Len(SubSeq(s, k + 1, Len(s))) = Len(s) - k
           /\ \A i \in 1 .. (Len(s) - k) : SubSeq(s, k + 1, Len(s))[i] = s[k + i]
<1>1. Len(s) \in Nat /\ \A i \in 1 .. Len(s) : s[i] \in S
  BY LenProperties, ElementOfSeq
<1>2. \A i \in 1 .. k : s[i] \in S
  BY <1>1
<1>3. \A i \in (k + 1) .. Len(s) : s[i] \in S
  BY <1>1
<1>4. /\ SubSeq(s, 1, k) \in Seq(S) /\ Len(SubSeq(s, 1, k)) = k
      /\ \A i \in 1 .. k : SubSeq(s, 1, k)[i] = s[i]
  <2>1. /\ SubSeq(s, 1, k) \in Seq(S)
        /\ Len(SubSeq(s, 1, k)) = IF 1 <= k THEN k - 1 + 1 ELSE 0
        /\ \A i \in 1 .. (k - 1 + 1) : SubSeq(s, 1, k)[i] = s[1 + i - 1]
    BY <1>1, <1>2, SubSeqProperties
  <2>2. QED
    BY <1>1, <2>1
<1>5. /\ SubSeq(s, k + 1, Len(s)) \in Seq(S)
      /\ Len(SubSeq(s, k + 1, Len(s))) = Len(s) - k
      /\ \A i \in 1 .. (Len(s) - k) : SubSeq(s, k + 1, Len(s))[i] = s[k + i]
  <2>1. /\ SubSeq(s, k + 1, Len(s)) \in Seq(S)
        /\ Len(SubSeq(s, k + 1, Len(s)))
               = IF k + 1 <= Len(s) THEN Len(s) - (k + 1) + 1 ELSE 0
        /\ \A i \in 1 .. (Len(s) - (k + 1) + 1) :
               SubSeq(s, k + 1, Len(s))[i] = s[(k + 1) + i - 1]
    BY <1>1, <1>3, SubSeqProperties
  <2>2. QED
    BY <1>1, <2>1
<1>6. QED
  BY <1>4, <1>5

\* Moving a prefix from one sequence to the end of another keeps their concatenation.
LEMMA MovePrefix ==
    ASSUME NEW S, NEW r \in Seq(S), NEW s \in Seq(S), NEW k \in 0 .. Len(s)
    PROVE  (r \o SubSeq(s, 1, k)) \o SubSeq(s, k + 1, Len(s)) = r \o s
<1> DEFINE a == SubSeq(s, 1, k)
           b == SubSeq(s, k + 1, Len(s))
<1>1. /\ a \in Seq(S) /\ Len(a) = k /\ \A i \in 1 .. k : a[i] = s[i]
      /\ b \in Seq(S) /\ Len(b) = Len(s) - k /\ \A i \in 1 .. (Len(s) - k) : b[i] = s[k + i]
      /\ Len(s) \in Nat /\ Len(r) \in Nat
  BY SplitSeq, LenProperties
<1> HIDE DEF a, b
<1>2. a \o b = s
  <2>1. /\ a \o b \in Seq(S) /\ Len(a \o b) = Len(a) + Len(b)
        /\ \A i \in 1 .. (Len(a) + Len(b)) :
               (a \o b)[i] = IF i <= Len(a) THEN a[i] ELSE b[i - Len(a)]
    BY <1>1, ConcatProperties
  <2>2. \A i \in 1 .. Len(s) : (a \o b)[i] = s[i]
    BY <1>1, <2>1
  <2>3. Len(a \o b) = Len(s)
    BY <1>1, <2>1
  <2>4. QED
    BY <2>1, <2>2, <2>3, SeqEqual
<1>3. (r \o a) \o b = r \o (a \o b)
  <2>1. a \in Seq(S) /\ b \in Seq(S)
    BY <1>1
  <2>2. QED
    BY <2>1
<1>4. QED
  BY <1>2, <1>3 DEF a, b

\* What _read returned is the next bytes of stdin.
LEMMA BytesSeq ==
    ASSUME NEW n \in Nat, NEW k \in Nat, NEW m \in Nat, n + k <= m
    PROVE  /\ Bytes(n + 1, n + k) \in Seq(1 .. m)
           /\ Len(Bytes(n + 1, n + k)) = k
           /\ Bytes(n + 1, n + k) = [i \in 1 .. k |-> n + i]
<1>1. Bytes(n + 1, n + k) = [i \in 1 .. k |-> n + i]
  BY DEF Bytes
<1>2. [i \in 1 .. k |-> n + i] \in [1 .. k -> 1 .. m]
  OBVIOUS
<1>3. QED
  BY <1>1, <1>2

-----------------------------------------------------------------------------
(* The invariant, part by part *)

\* The bytes move between sequences of bytes of stdin.
LEMMA TypeStep ==
    ASSUME Types, [Next]_vars
    PROVE  Types'
<1> USE DEF globals, worker, stdin, conn, Goto
<1>a. /\ NoSocket \in Sock /\ Values \subseteq Sock
      /\ Unset \in [Locals -> Sock] /\ INPUT \in Nat
  BY BridgeAssumption DEF Sock, Unset, Locals
<1>b. /\ "free" \in Owner /\ "bridge" \in Owner /\ "other" \in Owner
      /\ "listener" \in Locals /\ "writer" \in Locals /\ "reader" \in Locals
      /\ "read" \in WorkerAt /\ "send" \in WorkerAt /\ "finish" \in WorkerAt /\ "exit" \in WorkerAt
  BY DEF Owner, Locals, WorkerAt
<1>1. CASE UNCHANGED vars
  BY <1>1 DEF Types, vars
<1>2. CASE OtherOpen \/ OtherClose
  BY <1>b, <1>2 DEF Types, OtherOpen, OtherClose
<1>3. CASE Type \/ EndOfInput
  <2>1. typed' \in 0 .. INPUT /\ consumed' \in 0 .. typed' /\ eof' \in BOOLEAN
    <3>1. typed \in 0 .. INPUT /\ consumed \in 0 .. typed /\ consumed' = consumed
      BY <1>3 DEF Types, Type, EndOfInput
    <3>2. CASE typed < INPUT /\ typed' = typed + 1 /\ eof' = eof
      <4>1. typed' \in 0 .. INPUT /\ consumed' \in 0 .. typed'
        BY <1>a, <3>1, <3>2
      <4>2. QED
        BY <3>2, <4>1 DEF Types
    <3>3. CASE typed' = typed /\ eof' = TRUE
      BY <3>1, <3>3
    <3>4. QED
      BY <1>3, <3>2, <3>3 DEF Type, EndOfInput
  <2>2. QED
    BY <1>3, <2>1 DEF Types, Type, EndOfInput
<1>4. CASE WorkerRead
  <2>1. CASE UNCHANGED <<buf, consumed>>
    BY <1>b, <1>4, <2>1 DEF Types, WorkerRead
  <2>2. ASSUME NEW k \in 1 .. BUFFER, consumed + k <= typed,
               buf' = Bytes(consumed + 1, consumed + k), consumed' = consumed + k
        PROVE  buf' \in Seq(1 .. INPUT) /\ consumed' \in 0 .. typed
    <3>1. consumed \in Nat /\ k \in Nat /\ consumed + k <= INPUT
      BY <1>a, <2>2, BridgeAssumption DEF Types
    <3>2. Bytes(consumed + 1, consumed + k) \in Seq(1 .. INPUT)
      BY <1>a, <3>1, BytesSeq
    <3>3. consumed + k \in 0 .. typed
      BY <1>a, <2>2, <3>1 DEF Types
    <3>4. QED
      BY <2>2, <3>2, <3>3
  <2>3. QED
    BY <1>b, <1>4, <2>1, <2>2 DEF Types, WorkerRead
<1>5. CASE WorkerSend
  <2>1. buf' \in Seq(1 .. INPUT) /\ chan' \in Seq(1 .. INPUT)
    <3>1. CASE UNCHANGED <<buf, chan>>
      BY <3>1 DEF Types
    <3>2. ASSUME NEW k \in 1 .. Len(buf), buf' = SubSeq(buf, k + 1, Len(buf)),
                 chan' = chan \o SubSeq(buf, 1, k) \/ UNCHANGED chan
          PROVE  buf' \in Seq(1 .. INPUT) /\ chan' \in Seq(1 .. INPUT)
      <4>1. /\ SubSeq(buf, 1, k) \in Seq(1 .. INPUT)
            /\ SubSeq(buf, k + 1, Len(buf)) \in Seq(1 .. INPUT)
        <5>1. buf \in Seq(1 .. INPUT) /\ k \in 0 .. Len(buf)
          BY DEF Types
        <5>2. QED
          BY <5>1, SplitSeq
      <4>2. chan \o SubSeq(buf, 1, k) \in Seq(1 .. INPUT)
        BY <4>1, ConcatProperties DEF Types
      <4>3. QED
        BY <3>2, <4>1, <4>2 DEF Types
    <3>3. QED
      BY <1>5, <3>1, <3>2 DEF WorkerSend
  <2>2. QED
    BY <1>b, <1>5, <2>1 DEF Types, WorkerSend
<1>6. CASE WorkerFinish
  BY <1>b, <1>6 DEF Types, WorkerFinish
<1>7. ASSUME NEW t \in Callers, Use(t) PROVE Types'
  <2>1. chan' \in Seq(1 .. INPUT) /\ rcvd' \in Seq(1 .. INPUT)
    <3>1. CASE UNCHANGED <<rcvd, chan>>
      BY <3>1 DEF Types
    <3>2. ASSUME NEW k \in 1 .. Len(chan), rcvd' = rcvd \o SubSeq(chan, 1, k),
                 chan' = SubSeq(chan, k + 1, Len(chan))
          PROVE  chan' \in Seq(1 .. INPUT) /\ rcvd' \in Seq(1 .. INPUT)
      <4>1. /\ SubSeq(chan, 1, k) \in Seq(1 .. INPUT)
            /\ SubSeq(chan, k + 1, Len(chan)) \in Seq(1 .. INPUT)
        <5>1. chan \in Seq(1 .. INPUT) /\ k \in 0 .. Len(chan)
          BY DEF Types
        <5>2. QED
          BY <5>1, SplitSeq
      <4>2. rcvd \o SubSeq(chan, 1, k) \in Seq(1 .. INPUT)
        BY <4>1, ConcatProperties DEF Types
      <4>3. QED
        BY <3>2, <4>1, <4>2
    <3>3. QED
      BY <1>7, <3>1, <3>2 DEF Use
  <2>2. "idle" \in CallerAt
    BY DEF CallerAt
  <2>3. QED
    BY <1>7, <1>a, <2>1, <2>2 DEF Types, Use
<1>8. ASSUME NEW t \in Callers, PairListener(t) \/ PairWriter(t) \/ PairAccept(t)
      PROVE  Types'
  <2>1. PICK x \in Locals, at \in CallerAt : MakeSocket(t, x, at)
    BY <1>8, <1>b DEF PairListener, PairWriter, PairAccept, CallerAt
  <2>2. "undo" \in CallerAt
    BY DEF CallerAt
  <2>3. QED
    BY <1>a, <1>b, <2>1, <2>2, ZenonT(30) DEF Types, MakeSocket
<1>9. ASSUME NEW t \in Callers, PairSetup(t) \/ PairConnect(t) PROVE Types'
  <2>1. PICK at \in CallerAt : TryCall(t, at)
    BY <1>9 DEF PairSetup, PairConnect, CallerAt
  <2>2. "undo" \in CallerAt
    BY DEF CallerAt
  <2>3. QED
    BY <2>1, <2>2 DEF Types, TryCall
<1>10. ASSUME NEW t \in Callers, PairDone(t) \/ PairFailed(t) PROVE Types'
  <2>1. "spawn" \in CallerAt /\ "idle" \in CallerAt
    BY DEF CallerAt
  <2>2. ASSUME NEW X, CloseLocals(X)
        PROVE  owner' \in [Values -> Owner] /\ local' \in [Locals -> Sock]
    BY <1>a, <1>b, <2>2 DEF Types, CloseLocals
  <2>3. QED
    BY <1>10, <2>1, <2>2 DEF Types, PairDone, PairFailed
<1>11. ASSUME NEW t \in Callers, StartUse(t) \/ OnceEnter(t) \/ OnceDone(t) \/ OnceComplete(t)
       PROVE  Types'
  <2>1. "once" \in CallerAt /\ "listener" \in CallerAt /\ "value" \in CallerAt
    BY DEF CallerAt
  <2>2. QED
    BY <1>11, <2>1 DEF Types, StartUse, OnceEnter, OnceDone, OnceComplete
<1>12. ASSUME NEW t \in Callers, Spawn(t) \/ Publish(t) \/ Value(t) PROVE Types'
  <2>1. /\ "publish" \in CallerAt /\ "undo" \in CallerAt /\ "complete" \in CallerAt
        /\ "idle" \in CallerAt /\ "use" \in CallerAt
    BY DEF CallerAt
  <2>2. local.writer \in Sock /\ local.reader \in Sock
    BY <1>b DEF Types
  <2>3. QED
    BY <1>12, <1>a, <1>b, <2>1, <2>2, ZenonT(30) DEF Types, Spawn, Publish, Value
<1>13. ASSUME NEW t \in Callers, CloseStart(t) \/ CloseShutdown(t) \/ CloseCancel(t)
       PROVE  Types'
  <2>1. /\ "c_shut" \in CallerAt /\ "c_cancel" \in CallerAt /\ "c_writer" \in CallerAt
        /\ "c_wait" \in CallerAt
    BY DEF CallerAt
  <2>2. QED
    BY <1>13, <1>b, <2>1, ZenonT(30) DEF Types, CloseStart, CloseShutdown, CloseCancel
<1>14. ASSUME NEW t \in Callers, CloseWait(t) \/ CloseWriter(t) \/ CloseReader(t)
       PROVE  Types'
  <2>1. "c_writer" \in CallerAt /\ "c_reader" \in CallerAt /\ "idle" \in CallerAt
    BY DEF CallerAt
  <2>2. QED
    BY <1>14, <1>a, <1>b, <2>1, ZenonT(30) DEF Types, CloseWait, CloseWriter, CloseReader
<1>15. QED
  BY <1>1, <1>2, <1>3, <1>4, <1>5, <1>6, <1>7, <1>8, <1>9, <1>10, <1>11, <1>12, <1>13, <1>14
     DEF Next, Worker, UseStep, CloseStep

\* One caller at a time is inside stdin_bridge_init.
LEMMA OnceStep ==
    ASSUME Types, OnceInv, [Next]_vars
    PROVE  OnceInv'
<1> USE DEF globals, worker, stdin, conn, Goto, InInit
<1>0. pc \in [Callers -> CallerAt]
  BY DEF Types
<1>1. CASE UNCHANGED <<once, pc>>
  BY <1>1 DEF OnceInv
<1>2. ASSUME NEW t \in Callers, OnceEnter(t) PROVE OnceInv'
  BY <1>0, <1>2 DEF OnceInv, OnceEnter
<1>3. ASSUME NEW t \in Callers, OnceComplete(t) \/ PairFailed(t) PROVE OnceInv'
  BY <1>0, <1>3 DEF OnceInv, OnceComplete, PairFailed
<1>4. ASSUME NEW t \in Callers, NEW at \in CallerAt, pc' = [pc EXCEPT ![t] = at],
             once' = once, InInit(t) <=> InInit(t)'
      PROVE  OnceInv'
  <2>1. \A u \in Callers : InInit(u)' <=> InInit(u)
    BY <1>0, <1>4
  <2>2. QED
    BY <1>4, <2>1 DEF OnceInv
<1>5. ASSUME NEW t \in Callers,
             PairListener(t) \/ PairSetup(t) \/ PairWriter(t) \/ PairConnect(t) \/ PairAccept(t)
      PROVE  OnceInv'
  BY <1>0, <1>4, <1>5 DEF PairListener, PairSetup, PairWriter, PairConnect, PairAccept,
                          MakeSocket, TryCall, CallerAt
<1>6. ASSUME NEW t \in Callers, PairDone(t) \/ Spawn(t) \/ Publish(t)
      PROVE  OnceInv'
  BY <1>0, <1>4, <1>6 DEF PairDone, Spawn, Publish, CallerAt
<1>7. ASSUME NEW t \in Callers, StartUse(t) \/ OnceDone(t) \/ Value(t) \/ Use(t)
      PROVE  OnceInv'
  BY <1>0, <1>4, <1>7 DEF StartUse, OnceDone, Value, Use, CallerAt
<1>8. ASSUME NEW t \in Callers, CloseStart(t) PROVE OnceInv'
  BY <1>0, <1>1, <1>4, <1>8 DEF CloseStart, CallerAt
<1>9. ASSUME NEW t \in Callers, CloseStep(t) PROVE OnceInv'
  BY <1>0, <1>4, <1>9 DEF CloseStep, CloseShutdown, CloseCancel, CloseWait, CloseWriter,
                          CloseReader, CallerAt
<1>10. QED
  BY <1>1, <1>2, <1>3, <1>5, <1>6, <1>7, <1>8, <1>9
     DEF Next, UseStep, OtherOpen, OtherClose, Type, EndOfInput, Worker, WorkerRead,
         WorkerSend, WorkerFinish, vars

\* Only Publish stores the globals, and they stay published.
LEMMA PublishedStep ==
    ASSUME Types, OnceInv, [Next]_vars
    PROVE  /\ Published => Published'
           /\ Published' => Published \/ \E t \in Callers : Publish(t)
           /\ (\E t \in Callers : Publish(t)) => Published'
<1> USE DEF globals, worker, stdin, conn, Goto
<1>0. pc \in [Callers -> CallerAt]
  BY DEF Types
<1>1. CASE UNCHANGED <<once, pc>>
  BY <1>0, <1>1 DEF Published, Publish
<1>2. ASSUME NEW t \in Callers, OnceEnter(t) \/ PairFailed(t)
      PROVE  ~Published /\ ~Published' /\ \A u \in Callers : ~Publish(u)
  <2>1. pc[t] \in {"once", "undo"} /\ pc'[t] \in {"listener", "idle"} /\ once' # "done"
    BY <1>0, <1>2 DEF OnceEnter, PairFailed
  <2>2. ~Published /\ ~Published'
    BY <1>0, <1>2, <2>1 DEF OnceEnter, PairFailed, OnceInv, InInit, Published
  <2>3. ASSUME NEW u \in Callers, Publish(u) PROVE FALSE
    BY <1>0, <2>3, <2>2 DEF Publish, Published
  <2>4. QED
    BY <2>2, <2>3
<1>3. ASSUME NEW t \in Callers, OnceComplete(t) PROVE Published /\ Published'
  BY <1>3 DEF OnceComplete, Published
<1>4. ASSUME NEW t \in Callers, Publish(t) PROVE Published'
  BY <1>0, <1>4 DEF Publish, Published
<1>5. ASSUME NEW t \in Callers, NEW at \in CallerAt, pc' = [pc EXCEPT ![t] = at],
             once' = once, pc[t] # "complete" /\ at # "complete"
      PROVE  (Published <=> Published') /\ \A u \in Callers : ~Publish(u)
  BY <1>0, <1>5 DEF Published, Publish
<1>6. ASSUME NEW t \in Callers,
             PairListener(t) \/ PairSetup(t) \/ PairWriter(t) \/ PairConnect(t) \/ PairAccept(t)
      PROVE  (Published <=> Published') /\ \A u \in Callers : ~Publish(u)
  BY <1>0, <1>5, <1>6 DEF PairListener, PairSetup, PairWriter, PairConnect, PairAccept,
                          MakeSocket, TryCall, CallerAt
<1>7. ASSUME NEW t \in Callers, PairDone(t) \/ Spawn(t)
      PROVE  (Published <=> Published') /\ \A u \in Callers : ~Publish(u)
  BY <1>0, <1>5, <1>7 DEF PairDone, Spawn, CallerAt
<1>8. ASSUME NEW t \in Callers, StartUse(t) \/ OnceDone(t) \/ Value(t) \/ Use(t)
      PROVE  (Published <=> Published') /\ \A u \in Callers : ~Publish(u)
  BY <1>0, <1>5, <1>8 DEF StartUse, OnceDone, Value, Use, CallerAt
<1>9. ASSUME NEW t \in Callers, CloseStep(t) \/ (CloseStart(t) /\ ~UNCHANGED pc)
      PROVE  (Published <=> Published') /\ \A u \in Callers : ~Publish(u)
  BY <1>0, <1>5, <1>9 DEF CloseStep, CloseShutdown, CloseCancel, CloseWait, CloseWriter,
                          CloseReader, CloseStart, CallerAt
<1>10. QED
  BY <1>1, <1>2, <1>3, <1>4, <1>6, <1>7, <1>8, <1>9
     DEF Next, UseStep, OtherOpen, OtherClose, Type, EndOfInput, Worker, WorkerRead,
         WorkerSend, WorkerFinish, CloseStart, vars

\* One closer at a time, alone.
LEMMA CloserStep ==
    ASSUME Types, OnceInv, CloserInv, [Next]_vars
    PROVE  CloserInv'
<1> USE DEF globals, worker, stdin, conn, Goto
<1>0. pc \in [Callers -> CallerAt] /\ started \in BOOLEAN
  BY DEF Types
<1>1. started' => Published'
  <2>1. CASE started
    BY <2>1, PublishedStep DEF CloserInv
  <2>2. CASE started' # started
    <3>1. ASSUME started' PROVE \E t \in Callers : Publish(t)
      BY <1>0, <2>2, <3>1
         DEF Next, UseStep, OtherOpen, OtherClose, Type, EndOfInput, Worker, WorkerRead,
             WorkerSend, WorkerFinish, CloseStart, StartUse, OnceEnter, OnceDone, PairListener,
             PairSetup, PairWriter, PairConnect, PairAccept, PairDone, PairFailed, MakeSocket,
             TryCall, Spawn, OnceComplete, Value, Use, CloseStep, CloseShutdown, CloseCancel,
             CloseWait, CloseWriter, CloseReader, vars
    <3>2. QED
      BY <3>1, PublishedStep
  <2>3. QED
    BY <1>0, <2>1, <2>2
<1> DEFINE Apart == /\ \A t, u \in Callers : Closing(t) => ~Using(u) /\ (Closing(u) => t = u)
                    /\ (\E t \in Callers : Closing(t)) => once = "done" /\ ~started
<1>2. Apart
  BY DEF CloserInv
<1>3. ASSUME UNCHANGED <<once, pc>>, started' => started PROVE Apart'
  BY <1>2, <1>3 DEF Closing, Using
\* A caller that uses descriptor 0 excludes every closer, before and after its step.
<1>4. ASSUME NEW t \in Callers, NEW at \in CallerAt, pc' = [pc EXCEPT ![t] = at],
             \A u \in Callers : ~Closing(u),
             at \notin {"c_shut", "c_cancel", "c_wait", "c_writer", "c_reader"}
      PROVE  Apart'
  <2>1. \A u \in Callers : ~Closing(u)'
    BY <1>0, <1>4 DEF Closing
  <2>2. QED
    BY <2>1
<1>5. ASSUME NEW t \in Callers, NEW at \in CallerAt, pc' = [pc EXCEPT ![t] = at],
             Using(t), at \notin {"c_shut", "c_cancel", "c_wait", "c_writer", "c_reader"}
      PROVE  Apart'
  BY <1>2, <1>4, <1>5
<1>6. ASSUME NEW t \in Callers,
             PairListener(t) \/ PairSetup(t) \/ PairWriter(t) \/ PairConnect(t) \/ PairAccept(t)
      PROVE  Apart'
  BY <1>5, <1>6 DEF PairListener, PairSetup, PairWriter, PairConnect, PairAccept, MakeSocket,
                    TryCall, CallerAt, Using
<1>7. ASSUME NEW t \in Callers, PairDone(t) \/ PairFailed(t) \/ Spawn(t) \/ Publish(t)
      PROVE  Apart'
  BY <1>5, <1>7 DEF PairDone, PairFailed, Spawn, Publish, CallerAt, Using
<1>8. ASSUME NEW t \in Callers,
             OnceEnter(t) \/ OnceDone(t) \/ OnceComplete(t) \/ Value(t) \/ Use(t)
      PROVE  Apart'
  BY <1>5, <1>8 DEF OnceEnter, OnceDone, OnceComplete, Value, Use, CallerAt, Using
<1>9. ASSUME NEW t \in Callers, StartUse(t) PROVE Apart'
  BY <1>4, <1>9 DEF StartUse, CallerAt
<1>10. ASSUME NEW t \in Callers, CloseStart(t) PROVE Apart'
  <2>1. CASE ~started
    BY <1>3, <1>10, <2>1 DEF CloseStart
  <2>2. CASE started
    <3>1. /\ \A u \in Callers : ~Using(u) /\ ~Closing(u)
          /\ pc' = [pc EXCEPT ![t] = "c_shut"] /\ ~started'
      BY <1>2, <1>10, <2>2 DEF CloseStart
    <3>2. once' = "done"
      BY <1>10, <2>2, <3>1 DEF CloseStart, CloserInv, Published, Using
    <3>3. \A u \in Callers : ~Using(u)' /\ (Closing(u)' <=> u = t)
      BY <1>0, <3>1 DEF Using, Closing
    <3>4. QED
      BY <3>1, <3>2, <3>3
  <2>3. QED
    BY <2>1, <2>2
<1>11. ASSUME NEW t \in Callers, CloseStep(t) PROVE Apart'
  <2>1. PICK at \in {"c_cancel", "c_wait", "c_writer", "c_reader", "idle"} :
            pc' = [pc EXCEPT ![t] = at]
    BY <1>11 DEF CloseStep, CloseShutdown, CloseCancel, CloseWait, CloseWriter, CloseReader
  <2>2. Closing(t) /\ once' = once /\ started' = started
    BY <1>11 DEF CloseStep, CloseShutdown, CloseCancel, CloseWait, CloseWriter, CloseReader,
                 Closing
  <2>3. \A u \in Callers : ~Using(u) /\ (Closing(u) => u = t)
    BY <1>2, <2>2
  <2>4. \A u \in Callers : ~Using(u)' /\ (Closing(u)' => u = t)
    BY <1>0, <2>1, <2>3 DEF Using, Closing
  <2>5. QED
    BY <1>2, <2>2, <2>4
<1>12. Apart'
  BY <1>3, <1>6, <1>7, <1>8, <1>9, <1>10, <1>11
     DEF Next, UseStep, OtherOpen, OtherClose, Type, EndOfInput, Worker, WorkerRead,
         WorkerSend, WorkerFinish, vars
<1>13. QED
  BY <1>1, <1>12 DEF CloserInv

\* The two forms say the same.
LEMMA AccountedDef ==
    ASSUME Types
    PROVE  Accounted <=> SocketsAccounted
<1>1. DOMAIN local = Locals /\ \A x \in Locals : local[x] \in Sock
  BY DEF Types
<1>2. reader \in Sock /\ writer \in Sock
  BY DEF Types
<1>3. QED
  BY <1>1, <1>2, BridgeAssumption DEF Accounted, SocketsAccounted, Sock

\* The locals, without the domain of the record that holds them.
LEMMA UnsetFacts ==
    /\ Unset \in [Locals -> Sock] /\ DOMAIN Unset = Locals
    /\ \A x \in Locals : Unset[x] = NoSocket
    /\ \A f \in [Locals -> Sock] : (\A x \in Locals : f[x] = NoSocket) => f = Unset
<1>1. Unset = [x \in Locals |-> NoSocket]
  BY DEF Unset, Locals
<1>2. QED
  BY <1>1 DEF Sock

\* The steps of native_socket_pair set and close the locals in this order.
LEMMA LocalStep ==
    ASSUME Types, Accounted, OnceInv, LocalInv, [Next]_vars
    PROVE  LocalInv'
<1> USE DEF globals, worker, stdin, conn, Goto
<1>0. /\ pc \in [Callers -> CallerAt]
      /\ local \in [Locals -> Sock] /\ DOMAIN local = Locals
      /\ "listener" \in Locals /\ "writer" \in Locals /\ "reader" \in Locals
  BY DEF Types, Locals
<1>1. CASE UNCHANGED <<local, pc>>
  BY <1>1 DEF LocalInv, Building, InInit
\* Steps of a caller that is outside native_socket_pair before and after.
<1>2. ASSUME NEW t \in Callers, NEW at \in CallerAt, pc' = [pc EXCEPT ![t] = at], local' = local,
             ~Building(t), ~Building(t)'
      PROVE  LocalInv'
  <2>1. \A u \in Callers : (Building(u)' <=> Building(u)) /\ (Building(u) => pc'[u] = pc[u])
    BY <1>0, <1>2 DEF Building, InInit
  <2>2. QED
    BY <1>0, <1>2, <2>1 DEF LocalInv, Building, InInit
<1>3. ASSUME NEW t \in Callers, Value(t) \/ Use(t) \/ StartUse(t) \/ OnceDone(t) \/ OnceComplete(t)
      PROVE  LocalInv'
  BY <1>0, <1>2, <1>3 DEF Value, Use, StartUse, OnceDone, OnceComplete, CallerAt, Building, InInit
<1>4. ASSUME NEW t \in Callers, CloseStart(t) \/ CloseStep(t) PROVE LocalInv'
  BY <1>0, <1>1, <1>2, <1>4
     DEF CloseStart, CloseStep, CloseShutdown, CloseCancel, CloseWait, CloseWriter, CloseReader,
         CallerAt, Building, InInit
<1>5. ASSUME NEW t \in Callers, OnceEnter(t) PROVE LocalInv'
  BY <1>0, <1>5 DEF OnceEnter, OnceInv, LocalInv, Building, InInit
\* Inside it, the caller is alone.
<1>6. ASSUME NEW t \in Callers, InInit(t)
      PROVE  \A u \in Callers \ {t} : ~InInit(u) /\ ~Building(u)
  BY <1>6 DEF OnceInv, Building
<1>7. ASSUME NEW t \in Callers, NEW x \in Locals, NEW at \in CallerAt,
             InInit(t), local[x] = NoSocket, MakeSocket(t, x, at)
      PROVE  /\ \A u \in Callers \ {t} : ~InInit(u) /\ ~InInit(u)'
             /\ \A y \in Locals \ {x} : local'[y] = local[y]
             /\ pc'[t] = "undo" \/ (pc'[t] = at /\ local'[x] # NoSocket)
             /\ local' \in [Locals -> Sock]
             /\ \A y, z \in Locals : local'[y] = local'[z] /\ y # z => local'[y] = NoSocket
  <2>1. \A u \in Callers \ {t} : ~InInit(u) /\ ~InInit(u)'
    BY <1>0, <1>6, <1>7 DEF MakeSocket, InInit
  <2>2. CASE pc'[t] = "undo" /\ local' = local
    BY <1>0, <1>7, <2>1, <2>2 DEF LocalInv
  <2>3. ASSUME NEW v \in Values, owner[v] = "free", local' = [local EXCEPT ![x] = v], pc'[t] = at
        PROVE  /\ \A y \in Locals \ {x} : local'[y] = local[y]
               /\ local'[x] # NoSocket /\ local' \in [Locals -> Sock]
               /\ \A y, z \in Locals : local'[y] = local'[z] /\ y # z => local'[y] = NoSocket
    <3>1. \A y \in Locals : local[y] # v
      BY <2>3 DEF Accounted
    <3>2. QED
      BY <1>0, <2>3, <3>1, BridgeAssumption DEF LocalInv, Sock
  <2>4. QED
    BY <1>0, <1>7, <2>1, <2>2, <2>3 DEF MakeSocket
<1>8. ASSUME NEW t \in Callers, PairListener(t) PROVE LocalInv'
  <2>1. pc[t] = "listener" /\ local = Unset /\ InInit(t) /\ "setup" \in CallerAt
    BY <1>8 DEF PairListener, LocalInv, InInit, CallerAt
  <2>2. QED
    BY <1>0, <1>7, <1>8, <2>1, UnsetFacts DEF PairListener, LocalInv, Building, InInit, Locals
<1>9. ASSUME NEW t \in Callers, PairWriter(t) PROVE LocalInv'
  <2>1. /\ pc[t] = "writer" /\ local["writer"] = NoSocket /\ local["reader"] = NoSocket
        /\ InInit(t) /\ "connect" \in CallerAt
    BY <1>9 DEF PairWriter, LocalInv, InInit, CallerAt
  <2>2. QED
    BY <1>0, <1>7, <1>9, <2>1 DEF PairWriter, LocalInv, Building, InInit, Locals
<1>10. ASSUME NEW t \in Callers, PairAccept(t) PROVE LocalInv'
  <2>1. /\ pc[t] = "accept" /\ local["writer"] # NoSocket /\ local["reader"] = NoSocket
        /\ InInit(t) /\ "paired" \in CallerAt
    BY <1>10 DEF PairAccept, LocalInv, InInit, CallerAt
  <2>2. QED
    BY <1>0, <1>7, <1>10, <2>1 DEF PairAccept, LocalInv, Building, InInit, Locals
<1>11. ASSUME NEW t \in Callers, PairSetup(t) \/ PairConnect(t) \/ Spawn(t) PROVE LocalInv'
  BY <1>0, <1>6, <1>11 DEF PairSetup, PairConnect, Spawn, TryCall, LocalInv, Building, InInit
<1>12. ASSUME NEW t \in Callers, PairDone(t) PROVE LocalInv'
  <2>1. /\ pc[t] = "paired" /\ InInit(t) /\ pc' = [pc EXCEPT ![t] = "spawn"]
        /\ local' = [local EXCEPT !["listener"] = NoSocket]
    BY <1>0, <1>12 DEF PairDone, CloseLocals, InInit
  <2>2. QED
    BY <1>0, <1>6, <2>1 DEF LocalInv, Building, InInit, Locals
<1>13. ASSUME NEW t \in Callers, PairFailed(t) \/ Publish(t) PROVE LocalInv'
  <2>1. /\ InInit(t) /\ pc' = [pc EXCEPT ![t] = pc'[t]] /\ pc'[t] \in {"idle", "complete"}
        /\ local' = Unset
    BY <1>0, <1>13, UnsetFacts DEF PairFailed, Publish, CloseLocals, InInit, Locals
  <2>2. QED
    BY <1>0, <1>6, <2>1, UnsetFacts DEF LocalInv, Building, InInit
<1>14. QED
  BY <1>1, <1>3, <1>4, <1>5, <1>8, <1>9, <1>10, <1>11, <1>12, <1>13
     DEF Next, UseStep, OtherOpen, OtherClose, Type, EndOfInput, Worker, WorkerRead,
         WorkerSend, WorkerFinish, vars

\* While a caller holds the pair in its locals nothing is published.
LEMMA BuildingFacts ==
    ASSUME OnceInv, GlobalInv, NEW t \in Callers, Building(t)
    PROVE  /\ ~Published /\ reader = NoSocket /\ writer = NoSocket /\ ~started /\ ~cut
           /\ once = "running" /\ \A u \in Callers : InInit(u) => u = t
<1>1. once = "running" /\ \A u \in Callers : InInit(u) => u = t
  BY DEF OnceInv, Building
<1>2. ~Published
  BY <1>1 DEF Published, Building, InInit
<1>3. QED
  BY <1>1, <1>2 DEF GlobalInv

\* While a closer is at work the locals are gone.
LEMMA ClosingFacts ==
    ASSUME OnceInv, CloserInv, LocalInv, NEW t \in Callers, Closing(t)
    PROVE  /\ once = "done" /\ Published /\ ~started /\ local = Unset
           /\ \A u \in Callers : ~Using(u) /\ ~InInit(u) /\ (Closing(u) => u = t)
<1>1. once = "done" /\ ~started /\ \A u \in Callers : ~Using(u) /\ (Closing(u) => u = t)
  BY DEF CloserInv
<1>2. \A u \in Callers : ~InInit(u)
  BY <1>1 DEF OnceInv
<1>3. QED
  BY <1>1, <1>2 DEF LocalInv, Building, Published

\* A step that neither opens, closes nor renames a socket of the bridge.
LEMMA AccountedFrame ==
    ASSUME Accounted, UNCHANGED <<local, reader, writer>>,
           \A v \in Values : owner'[v] = "bridge" <=> owner[v] = "bridge"
    PROVE  Accounted'
BY DEF Accounted

\* The names and the bridge's sockets change together.
LEMMA AccountedStep ==
    ASSUME Types, Accounted, OnceInv, CloserInv, LocalInv, GlobalInv, [Next]_vars
    PROVE  Accounted'
<1> USE DEF globals, worker, stdin, conn, Goto
<1>0. /\ owner \in [Values -> Owner]
      /\ local \in [Locals -> Sock] /\ DOMAIN local = Locals
      /\ "listener" \in Locals /\ "writer" \in Locals /\ "reader" \in Locals
      /\ reader \in Sock /\ writer \in Sock
  BY DEF Types, Locals
<1>1. CASE UNCHANGED <<owner, local, reader, writer>>
  BY <1>1, AccountedFrame
<1>2. CASE OtherOpen \/ OtherClose
  BY <1>0, <1>2, AccountedFrame DEF OtherOpen, OtherClose
<1>3. ASSUME NEW t \in Callers, NEW x \in Locals, NEW at, local[x] = NoSocket,
             MakeSocket(t, x, at)
      PROVE  Accounted'
  <2>1. CASE UNCHANGED <<owner, local>>
    BY <1>3, <2>1, AccountedFrame DEF MakeSocket
  <2>2. ASSUME NEW v \in Values, owner' = [owner EXCEPT ![v] = "bridge"],
               local' = [local EXCEPT ![x] = v]
        PROVE  Accounted'
    BY <1>0, <1>3, <2>2, BridgeAssumption DEF MakeSocket, Accounted
  <2>3. QED
    BY <1>3, <2>1, <2>2 DEF MakeSocket
<1>4. ASSUME NEW t \in Callers, PairListener(t) \/ PairWriter(t) \/ PairAccept(t)
      PROVE  Accounted'
  BY <1>0, <1>3, <1>4, UnsetFacts DEF PairListener, PairWriter, PairAccept, LocalInv
<1>5. ASSUME NEW t \in Callers, NEW X \in SUBSET Locals, Building(t), CloseLocals(X),
             UNCHANGED <<reader, writer>>
      PROVE  Accounted'
  <2>1. reader = NoSocket /\ writer = NoSocket
    BY <1>5, BuildingFacts
  <2>2. ASSUME NEW v \in Values
        PROVE  owner'[v] = "bridge" <=> \E x \in Locals : local'[x] = v
    <3>1. CASE \E x \in X : local[x] = v
      BY <1>0, <1>5, <3>1, BridgeAssumption DEF CloseLocals, LocalInv
    <3>2. CASE ~ \E x \in X : local[x] = v
      <4>1. owner'[v] = owner[v]
        BY <1>5, <3>2 DEF CloseLocals
      <4>2. \A x \in Locals : local'[x] = v <=> local[x] = v
        BY <1>0, <1>5, <3>2, BridgeAssumption DEF CloseLocals
      <4>3. QED
        BY <2>1, <4>1, <4>2, BridgeAssumption DEF Accounted
    <3>3. QED
      BY <3>1, <3>2
  <2>3. QED
    BY <1>5, <2>1, <2>2, BridgeAssumption DEF Accounted
<1>6. ASSUME NEW t \in Callers, PairDone(t) \/ PairFailed(t) PROVE Accounted'
  <2>1. Building(t)
    BY <1>6 DEF PairDone, PairFailed, Building, InInit
  <2>2. QED
    BY <1>0, <1>5, <1>6, <2>1 DEF PairDone, PairFailed
<1>7. ASSUME NEW t \in Callers, Publish(t) PROVE Accounted'
  <2>1. reader = NoSocket /\ writer = NoSocket /\ local["listener"] = NoSocket
    BY <1>7, BuildingFacts DEF Publish, Building, InInit, LocalInv
  <2>2. /\ reader' = local["reader"] /\ writer' = local["writer"] /\ owner' = owner
        /\ \A x \in Locals : local'[x] = NoSocket
    BY <1>7, UnsetFacts DEF Publish
  <2>3. \A v \in Values : owner[v] = "bridge" <=> v = local["reader"] \/ v = local["writer"]
    BY <2>1, BridgeAssumption DEF Accounted, Locals
  <2>4. QED
    BY <2>2, <2>3, BridgeAssumption DEF Accounted
<1>8. ASSUME NEW t \in Callers, CloseWriter(t) PROVE Accounted'
  <2>1. \A x \in Locals : local[x] = NoSocket
    BY <1>8, ClosingFacts, UnsetFacts DEF CloseWriter, Closing
  <2>2. QED
    BY <1>8, <2>1, BridgeAssumption DEF CloseWriter, Accounted, GlobalInv
<1>9. ASSUME NEW t \in Callers, CloseReader(t) PROVE Accounted'
  <2>1. writer = NoSocket /\ \A x \in Locals : local[x] = NoSocket
    BY <1>9, ClosingFacts, UnsetFacts DEF CloseReader, Closing, GlobalInv
  <2>2. QED
    BY <1>9, <2>1, BridgeAssumption DEF CloseReader, Accounted
<1>10. ASSUME NEW t \in Callers,
              \/ StartUse(t) \/ OnceEnter(t) \/ OnceDone(t) \/ OnceComplete(t) \/ Value(t) \/ Use(t)
              \/ PairSetup(t) \/ PairConnect(t) \/ Spawn(t)
              \/ CloseStart(t) \/ CloseShutdown(t) \/ CloseCancel(t) \/ CloseWait(t)
       PROVE  UNCHANGED <<owner, local, reader, writer>>
  BY <1>10 DEF StartUse, OnceEnter, OnceDone, OnceComplete, Value, Use, PairSetup, PairConnect,
               TryCall, Spawn, CloseStart, CloseShutdown, CloseCancel, CloseWait
<1>11. QED
  BY <1>1, <1>2, <1>4, <1>6, <1>7, <1>8, <1>9, <1>10
     DEF Next, UseStep, CloseStep, Type, EndOfInput, Worker, WorkerRead, WorkerSend,
         WorkerFinish, vars

\* The globals are stored once, and a close clears them after it has cut the stream.
LEMMA GlobalStep ==
    ASSUME Types, OnceInv, CloserInv, LocalInv, GlobalInv, [Next]_vars
    PROVE  GlobalInv'
<1> USE DEF globals, worker, stdin, conn, Goto
<1>0. /\ pc \in [Callers -> CallerAt] /\ val \in [Callers -> Sock]
      /\ started \in BOOLEAN /\ cut \in BOOLEAN
      /\ "listener" \in Locals /\ "writer" \in Locals /\ "reader" \in Locals
  BY DEF Types, Locals
<1>p. ~Published' => ~Published
  BY PublishedStep
<1>1. CASE UNCHANGED <<reader, writer, started, cut, pc, val>>
  BY <1>p, <1>1 DEF GlobalInv, Closing
\* Steps of a caller between places of which GlobalInv says nothing.
<1>2. ASSUME NEW t \in Callers, NEW at \in CallerAt, pc' = [pc EXCEPT ![t] = at],
             UNCHANGED <<reader, writer, started, cut, val>>, ~Closing(t),
             at \notin {"c_shut", "c_cancel", "c_wait", "c_writer", "c_reader", "use"}
      PROVE  GlobalInv'
  <2>1. \A u \in Callers : (Closing(u)' <=> Closing(u)) /\ (pc'[u] = "use" => pc[u] = "use")
                           /\ (Closing(u) => pc'[u] = pc[u])
    BY <1>0, <1>2 DEF Closing
  <2>2. QED
    BY <1>p, <1>2, <2>1 DEF GlobalInv, Closing
<1>3. ASSUME NEW t \in Callers,
             PairListener(t) \/ PairSetup(t) \/ PairWriter(t) \/ PairConnect(t) \/ PairAccept(t)
      PROVE  GlobalInv'
  BY <1>2, <1>3 DEF PairListener, PairSetup, PairWriter, PairConnect, PairAccept, MakeSocket,
                    TryCall, CallerAt, Closing
<1>4. ASSUME NEW t \in Callers, PairDone(t) \/ PairFailed(t) \/ Spawn(t)
      PROVE  GlobalInv'
  BY <1>2, <1>4 DEF PairDone, PairFailed, Spawn, CallerAt, Closing
<1>5. ASSUME NEW t \in Callers, StartUse(t) \/ OnceEnter(t) \/ OnceDone(t) \/ OnceComplete(t)
      PROVE  GlobalInv'
  BY <1>2, <1>5 DEF StartUse, OnceEnter, OnceDone, OnceComplete, CallerAt, Closing
<1>6. ASSUME NEW t \in Callers, Publish(t) PROVE GlobalInv'
  <2>1. /\ ~Published /\ reader = NoSocket /\ writer = NoSocket /\ ~cut /\ once = "running"
        /\ pc[t] = "publish"
    BY <1>6, BuildingFacts DEF Publish, Building, InInit
  <2>2. /\ reader' = local["reader"] /\ writer' = local["writer"] /\ cut' = cut
        /\ pc' = [pc EXCEPT ![t] = "complete"] /\ once' = once
    BY <1>6 DEF Publish
  <2>3. /\ local["writer"] # NoSocket
        /\ local["reader"] = local["writer"] => local["reader"] = NoSocket
    BY <1>0, <1>6, <2>1 DEF Types, LocalInv
  <2>4. Published'
    BY <1>6, PublishedStep
  <2>5. \A u \in Callers : ~Closing(u)' /\ pc'[u] # "use"
    <3>1. \A u \in Callers : ~Closing(u) /\ pc[u] # "use"
      BY <2>1 DEF CloserInv, GlobalInv
    <3>2. QED
      BY <1>0, <2>2, <3>1 DEF Closing
  <2>6. QED
    BY <2>1, <2>2, <2>3, <2>4, <2>5 DEF GlobalInv, Closing
<1>7. ASSUME NEW t \in Callers, Value(t) PROVE GlobalInv'
  <2>1. CASE reader = NoSocket
    <3>1. /\ pc' = [pc EXCEPT ![t] = "idle"] /\ UNCHANGED <<reader, writer, started, cut>>
          /\ ~Closing(t)
      BY <1>7, <2>1 DEF Value, Closing
    <3>2. /\ \A u \in Callers : (Closing(u)' <=> Closing(u)) /\ pc'[u] # "use"
          /\ \A u \in Callers : Closing(u) => pc'[u] = pc[u]
      BY <1>0, <2>1, <3>1 DEF Closing, GlobalInv
    <3>3. QED
      BY <1>p, <3>1, <3>2 DEF GlobalInv, Closing
  <2>2. CASE reader # NoSocket
    <3>1. /\ pc' = [pc EXCEPT ![t] = "use"] /\ val' = [val EXCEPT ![t] = reader]
          /\ UNCHANGED <<reader, writer, started, cut>> /\ ~Closing(t)
      BY <1>7, <2>2 DEF Value, Closing
    <3>2. /\ \A u \in Callers : (Closing(u)' <=> Closing(u)) /\ (Closing(u) => pc'[u] = pc[u])
          /\ \A u \in Callers : pc'[u] = "use" => val'[u] = reader
      BY <1>0, <3>1 DEF Closing, GlobalInv
    <3>3. QED
      BY <1>p, <2>2, <3>1, <3>2 DEF GlobalInv, Closing
  <2>3. QED
    BY <2>1, <2>2
<1>8. ASSUME NEW t \in Callers, Use(t) PROVE GlobalInv'
  <2>1. /\ pc' = [pc EXCEPT ![t] = "idle"] /\ val' = [val EXCEPT ![t] = NoSocket]
        /\ UNCHANGED <<reader, writer, started, cut>> /\ ~Closing(t)
    BY <1>8 DEF Use, Closing
  <2>2. /\ \A u \in Callers : (Closing(u)' <=> Closing(u)) /\ (Closing(u) => pc'[u] = pc[u])
        /\ \A u \in Callers : pc'[u] = "use" => pc[u] = "use" /\ val'[u] = val[u]
    BY <1>0, <2>1 DEF Closing
  <2>3. QED
    BY <1>p, <2>1, <2>2 DEF GlobalInv, Closing
<1>9. ASSUME NEW t \in Callers, CloseStart(t) PROVE GlobalInv'
  <2>1. CASE ~started
    BY <1>0, <1>1, <1>9, <2>1 DEF CloseStart
  <2>2. CASE started
    <3>1. /\ pc' = [pc EXCEPT ![t] = "c_shut"] /\ ~started'
          /\ UNCHANGED <<reader, writer, cut, val>> /\ writer # NoSocket /\ Published
      BY <1>9, <2>2 DEF CloseStart, GlobalInv, CloserInv
    <3>2. \A u \in Callers : (pc'[u] = "use" => pc[u] = "use") /\ (u # t => pc'[u] = pc[u])
      BY <1>0, <3>1
    <3>3. QED
      BY <1>0, <1>p, <3>1, <3>2 DEF GlobalInv, Closing
  <2>3. QED
    BY <2>1, <2>2
\* A closer is alone, so the other callers are idle.
<1>10. ASSUME NEW t \in Callers, NEW at \in CallerAt, Closing(t), pc' = [pc EXCEPT ![t] = at],
              at \notin {"use", "c_shut"}
       PROVE  /\ ~started /\ Published' /\ pc'[t] = at
              /\ \A u \in Callers : pc'[u] # "use" /\ (u # t => ~Closing(u)')
  <2>1. ~started /\ Published /\ \A u \in Callers : ~Using(u) /\ (Closing(u) => u = t)
    BY <1>10, ClosingFacts
  <2>2. \A u \in Callers : pc'[u] # "use" /\ (u # t => ~Closing(u)')
    BY <1>0, <1>10, <2>1 DEF Closing, Using
  <2>3. QED
    BY <1>0, <1>10, <1>p, <2>1, <2>2
<1>11. ASSUME NEW t \in Callers, CloseShutdown(t) PROVE GlobalInv'
  <2>1. Closing(t) /\ cut' /\ UNCHANGED <<reader, writer, started>>
    BY <1>11 DEF CloseShutdown, Closing, GlobalInv
  <2>2. PICK at \in {"c_cancel", "c_writer"} : pc' = [pc EXCEPT ![t] = at]
    BY <1>11 DEF CloseShutdown
  <2>3. QED
    BY <1>10, <2>1, <2>2 DEF CallerAt, GlobalInv, Closing
<1>12. ASSUME NEW t \in Callers, CloseCancel(t) \/ CloseWait(t) PROVE GlobalInv'
  <2>1. Closing(t) /\ cut' /\ UNCHANGED <<reader, writer, started>>
    BY <1>12 DEF CloseCancel, CloseWait, Closing, GlobalInv
  <2>2. PICK at \in {"c_wait", "c_writer"} : pc' = [pc EXCEPT ![t] = at]
    BY <1>12 DEF CloseCancel, CloseWait
  <2>3. QED
    BY <1>10, <2>1, <2>2 DEF CallerAt, GlobalInv, Closing
<1>13. ASSUME NEW t \in Callers, CloseWriter(t) PROVE GlobalInv'
  <2>1. /\ Closing(t) /\ cut' /\ writer' = NoSocket /\ UNCHANGED <<reader, started>>
        /\ pc' = [pc EXCEPT ![t] = "c_reader"]
    BY <1>13 DEF CloseWriter, Closing, GlobalInv
  <2>2. QED
    BY <1>10, <2>1 DEF CallerAt, GlobalInv, Closing
<1>14. ASSUME NEW t \in Callers, CloseReader(t) PROVE GlobalInv'
  <2>1. /\ Closing(t) /\ cut' /\ writer' = NoSocket /\ reader' = NoSocket /\ started' = started
        /\ pc' = [pc EXCEPT ![t] = "idle"]
    BY <1>14 DEF CloseReader, Closing, GlobalInv
  <2>2. QED
    BY <1>10, <2>1 DEF CallerAt, GlobalInv, Closing
<1>15. QED
  BY <1>1, <1>3, <1>4, <1>5, <1>6, <1>7, <1>8, <1>9, <1>11, <1>12, <1>13, <1>14
     DEF Next, UseStep, CloseStep, OtherOpen, OtherClose, Type, EndOfInput, Worker, WorkerRead,
         WorkerSend, WorkerFinish, vars

\* The worker is started with the pair's writer, which is published as the global.
LEMMA WorkerStep ==
    ASSUME Types, OnceInv, CloserInv, LocalInv, GlobalInv, WorkerInv, [Next]_vars
    PROVE  WorkerInv'
<1> USE DEF globals, worker, stdin, conn, Goto
<1>0. /\ pc \in [Callers -> CallerAt]
      /\ "listener" \in Locals /\ "writer" \in Locals /\ "reader" \in Locals
  BY DEF Types, Locals
<1>1. ASSUME wpc' = "none" <=> wpc = "none",
             UNCHANGED <<once, pc, wsock, local, writer, cut>>
      PROVE  WorkerInv'
  BY <1>1 DEF WorkerInv, Published
\* Steps of a caller that neither starts nor publishes the worker.
<1>2. ASSUME NEW t \in Callers, NEW at \in CallerAt, pc' = [pc EXCEPT ![t] = at],
             UNCHANGED <<wpc, wsock, writer>>, cut => cut', pc[t] # "publish", at # "publish",
             (local' = local) \/ InInit(t)
      PROVE  WorkerInv'
  <2>1. \A u \in Callers : pc'[u] = "publish" <=> pc[u] = "publish"
    BY <1>0, <1>2
  <2>2. Published' <=> Published
    BY <1>0, <1>2, PublishedStep DEF Publish
  <2>3. \A u \in Callers : pc[u] = "publish" => local' = local
    BY <1>2 DEF OnceInv, InInit
  <2>4. QED
    BY <1>2, <2>1, <2>2, <2>3 DEF WorkerInv
<1>3. ASSUME NEW t \in Callers,
             PairListener(t) \/ PairSetup(t) \/ PairWriter(t) \/ PairConnect(t) \/ PairAccept(t)
      PROVE  WorkerInv'
  BY <1>2, <1>3 DEF PairListener, PairSetup, PairWriter, PairConnect, PairAccept, MakeSocket,
                    TryCall, CallerAt, InInit
<1>4. ASSUME NEW t \in Callers, PairDone(t) \/ PairFailed(t) PROVE WorkerInv'
  BY <1>2, <1>4 DEF PairDone, PairFailed, CallerAt, InInit
<1>5. ASSUME NEW t \in Callers, StartUse(t) \/ OnceEnter(t) \/ OnceDone(t) \/ OnceComplete(t)
      PROVE  WorkerInv'
  BY <1>2, <1>5 DEF StartUse, OnceEnter, OnceDone, OnceComplete, CallerAt
<1>6. ASSUME NEW t \in Callers, Value(t) \/ Use(t) PROVE WorkerInv'
  BY <1>2, <1>6 DEF Value, Use, CallerAt
<1>7. ASSUME NEW t \in Callers, Spawn(t) PROVE WorkerInv'
  <2>1. CASE UNCHANGED <<wpc, wsock>> /\ pc' = [pc EXCEPT ![t] = "undo"]
    BY <1>2, <1>7, <2>1 DEF Spawn, CallerAt
  <2>2. CASE wpc' = "read" /\ wsock' = local.writer /\ pc' = [pc EXCEPT ![t] = "publish"]
    <3>1. ~Published /\ \A u \in Callers : InInit(u) => u = t
      BY <1>7, BuildingFacts DEF Spawn, Building, InInit
    <3>2. ~Published'
      BY <1>0, <2>2, <1>7, <3>1, PublishedStep DEF Publish, Spawn
    <3>3. pc'[t] = "publish" /\ \A u \in Callers : pc'[u] = "publish" => u = t
      BY <1>0, <2>2, <3>1 DEF InInit
    <3>4. local' = local /\ local["writer"] # NoSocket
      BY <1>7 DEF Spawn, LocalInv
    <3>5. QED
      BY <2>2, <3>2, <3>3, <3>4 DEF WorkerInv
  <2>3. QED
    BY <1>7, <2>1, <2>2 DEF Spawn
<1>8. ASSUME NEW t \in Callers, Publish(t) PROVE WorkerInv'
  <2>1. wpc # "none" /\ wsock = local["writer"] /\ wsock # NoSocket
    BY <1>8 DEF Publish, WorkerInv
  <2>2. Published'
    BY <1>8, PublishedStep
  <2>3. \A u \in Callers : pc'[u] # "publish"
    BY <1>0, <1>8 DEF Publish, OnceInv, InInit
  <2>4. writer' = local["writer"] /\ UNCHANGED <<wpc, wsock>>
    BY <1>8 DEF Publish
  <2>5. QED
    BY <2>1, <2>2, <2>3, <2>4 DEF WorkerInv
<1>9. ASSUME NEW t \in Callers, CloseStart(t) PROVE WorkerInv'
  BY <1>1, <1>2, <1>9 DEF CloseStart, CallerAt
<1>10. ASSUME NEW t \in Callers, CloseShutdown(t) \/ CloseWait(t) \/ CloseReader(t)
       PROVE  WorkerInv'
  <2>1. cut => cut'
    BY <1>10 DEF CloseShutdown, CloseWait, CloseReader
  <2>2. PICK at \in {"c_cancel", "c_writer", "idle"} : pc' = [pc EXCEPT ![t] = at]
    BY <1>10 DEF CloseShutdown, CloseWait, CloseReader
  <2>3. UNCHANGED <<wpc, wsock, writer, local>> /\ pc[t] # "publish"
    BY <1>10 DEF CloseShutdown, CloseWait, CloseReader
  <2>4. QED
    BY <1>2, <2>1, <2>2, <2>3 DEF CallerAt
<1>11. ASSUME NEW t \in Callers, CloseCancel(t) \/ CloseWriter(t) PROVE WorkerInv'
  <2>1. Closing(t) /\ cut
    BY <1>11 DEF CloseCancel, CloseWriter, Closing, GlobalInv
  <2>2. Published /\ Published'
    BY <2>1, ClosingFacts, PublishedStep
  <2>3. \A u \in Callers : pc'[u] # "publish"
    <3>1. \A u \in Callers : pc[u] # "publish"
      BY <2>1, ClosingFacts DEF InInit
    <3>2. QED
      BY <1>0, <1>11, <3>1 DEF CloseCancel, CloseWriter
  <2>4. /\ wpc' = "none" <=> wpc = "none"
        /\ wsock' = wsock /\ cut' = cut /\ writer' \in {writer, NoSocket}
    BY <1>11 DEF CloseCancel, CloseWriter
  <2>5. QED
    BY <2>1, <2>2, <2>3, <2>4 DEF WorkerInv
<1>12. CASE Worker
  BY <1>1, <1>12 DEF Worker, WorkerRead, WorkerSend, WorkerFinish
<1>13. QED
  BY <1>1, <1>3, <1>4, <1>5, <1>6, <1>7, <1>8, <1>9, <1>10, <1>11, <1>12
     DEF Next, UseStep, CloseStep, OtherOpen, OtherClose, Type, EndOfInput, vars

\* Until the stream is cut the worker sends on the bridge's own writer.
LEMMA WriterOwned ==
    ASSUME Types, Accounted, WorkerInv, wpc # "none", ~cut
    PROVE  owner[wsock] = "bridge"
<1>1. wsock \in Values
  BY BridgeAssumption DEF Types, WorkerInv, Sock
<1>2. wsock = writer \/ \E x \in Locals : local[x] = wsock
  BY DEF WorkerInv, Locals
<1>3. QED
  BY <1>1, <1>2 DEF Accounted

\* Nobody uses the reader of a stream that was cut, or of one that was never made.
LEMMA UseOpen ==
    ASSUME OnceInv, CloserInv, GlobalInv, WorkerInv, NEW t \in Callers, pc[t] = "use"
    PROVE  ~cut /\ wpc # "none"
<1>1. reader # NoSocket /\ Using(t)
  BY DEF GlobalInv, Using
<1>2. \A u \in Callers : ~Closing(u)
  BY <1>1 DEF CloserInv
<1>3. QED
  BY <1>1, <1>2 DEF GlobalInv, WorkerInv

\* Every byte that _read returned is in the worker's buffer, in the connection or
\* received, and the worker leaves its loop with an empty buffer at the end of stdin.
LEMMA DataStep ==
    ASSUME Types, Accounted, OnceInv, CloserInv, GlobalInv, WorkerInv, DataInv, [Next]_vars
    PROVE  DataInv'
<1> USE DEF globals, worker, stdin, conn, Goto
<1>0. /\ cut \in BOOLEAN /\ consumed \in Nat /\ typed \in Nat /\ INPUT \in Nat
      /\ buf \in Seq(1 .. INPUT) /\ chan \in Seq(1 .. INPUT) /\ rcvd \in Seq(1 .. INPUT)
      /\ Len(buf) \in Nat /\ Len(chan) \in Nat /\ Len(rcvd) \in Nat
      /\ wpc \in WorkerAt
  <2>1. buf \in Seq(1 .. INPUT) /\ chan \in Seq(1 .. INPUT) /\ rcvd \in Seq(1 .. INPUT)
    BY DEF Types
  <2>2. consumed \in Nat /\ typed \in Nat /\ INPUT \in Nat
    BY BridgeAssumption DEF Types
  <2>3. QED
    BY <2>1, <2>2, LenProperties DEF Types
<1>1. ASSUME UNCHANGED <<worker, consumed, typed, eof, fd0, chan, rcvd, shut>>, cut => cut'
      PROVE  DataInv'
  BY <1>1 DEF DataInv
<1>2. CASE Type \/ EndOfInput
  BY <1>2 DEF Type, EndOfInput, DataInv
<1>3. ASSUME NEW t \in Callers, CloseStart(t) PROVE DataInv'
  BY <1>3 DEF CloseStart, DataInv
<1>4. ASSUME NEW t \in Callers, CloseShutdown(t) PROVE DataInv'
  BY <1>1, <1>4 DEF CloseShutdown
<1>5. ASSUME NEW t \in Callers, CloseCancel(t) PROVE DataInv'
  <2>1. cut
    BY <1>5 DEF CloseCancel, GlobalInv
  <2>2. wpc' = wpc \/ (wpc = "read" /\ wpc' = "finish")
    BY <1>5 DEF CloseCancel
  <2>3. UNCHANGED <<wsock, buf, stdin, conn>>
    BY <1>5 DEF CloseCancel
  <2>4. QED
    BY <2>1, <2>2, <2>3 DEF DataInv
<1>6. ASSUME NEW t \in Callers, Spawn(t) PROVE DataInv'
  <2>1. wpc' = wpc \/ (wpc = "none" /\ wpc' = "read")
    <3>1. wpc = "none"
      <4>1. ~Published /\ \A u \in Callers : InInit(u) => u = t
        BY <1>6, BuildingFacts DEF Spawn, Building, InInit
      <4>2. QED
        BY <1>6, <4>1 DEF Spawn, WorkerInv, InInit
    <3>2. QED
      BY <1>6, <3>1 DEF Spawn
  <2>2. QED
    BY <1>6, <2>1 DEF Spawn, DataInv
<1>7. ASSUME NEW t \in Callers, Use(t) PROVE DataInv'
  <2>1. ~cut /\ wpc # "none" /\ UNCHANGED <<worker, stdin, shut, cut>>
    BY <1>7, UseOpen DEF Use
  <2>2. Len(rcvd') + Len(chan') = Len(rcvd) + Len(chan)
    <3>1. CASE UNCHANGED <<rcvd, chan>>
      BY <3>1
    <3>2. ASSUME NEW k \in 1 .. Len(chan), rcvd' = rcvd \o SubSeq(chan, 1, k),
                 chan' = SubSeq(chan, k + 1, Len(chan))
          PROVE  Len(rcvd') + Len(chan') = Len(rcvd) + Len(chan)
      <4>1. /\ SubSeq(chan, 1, k) \in Seq(1 .. INPUT) /\ Len(SubSeq(chan, 1, k)) = k
            /\ Len(SubSeq(chan, k + 1, Len(chan))) = Len(chan) - k
        <5>1. k \in 0 .. Len(chan)
          BY <1>0
        <5>2. QED
          BY <1>0, <5>1, SplitSeq
      <4>2. Len(rcvd \o SubSeq(chan, 1, k)) = Len(rcvd) + Len(SubSeq(chan, 1, k))
        BY <1>0, <4>1, ConcatProperties
      <4>3. Len(rcvd') = Len(rcvd) + k
        BY <3>2, <4>1, <4>2
      <4>4. Len(chan') = Len(chan) - k
        BY <3>2, <4>1
      <4>5. QED
        BY <1>0, <4>3, <4>4
    <3>3. QED
      BY <1>7, <3>1, <3>2 DEF Use
  <2>3. QED
    BY <2>1, <2>2 DEF DataInv
<1>8. CASE WorkerRead
  <2>1. CASE ~fd0 \/ (eof /\ consumed = typed)
    BY <1>8, <2>1 DEF WorkerRead, DataInv
  <2>2. CASE fd0 /\ ~(eof /\ consumed = typed)
    <3>1. PICK k \in 1 .. BUFFER : /\ consumed + k <= typed
                                   /\ buf' = Bytes(consumed + 1, consumed + k)
                                   /\ consumed' = consumed + k /\ wpc' = "send"
      BY <1>8, <2>2 DEF WorkerRead
    <3>2. k \in Nat /\ Len(buf') = k
      <4>1. k \in Nat
        BY BridgeAssumption
      <4>2. Len(Bytes(consumed + 1, consumed + k)) = k
        BY <1>0, <3>1, <4>1, BytesSeq
      <4>3. QED
        BY <3>1, <4>1, <4>2
    <3>3. buf = <<>> /\ wpc # "exit" /\ UNCHANGED <<chan, rcvd, shut, cut>>
      BY <1>8 DEF WorkerRead, DataInv
    <3>4. Len(buf) = 0
      BY <3>3
    <3>5. ~cut' => consumed' = Len(rcvd)' + Len(chan)' + Len(buf)'
      <4>1. ~cut' => consumed = Len(rcvd') + Len(chan') + Len(buf)
        BY <3>3 DEF DataInv
      <4>2. Len(rcvd') \in Nat /\ Len(chan') \in Nat /\ consumed' = consumed + k
        BY <1>0, <3>1, <3>3
      <4>3. QED
        BY <3>2, <3>4, <4>1, <4>2
    <3>6. QED
      BY <3>1, <3>3, <3>5 DEF DataInv
  <2>3. QED
    BY <1>8, <2>1, <2>2 DEF WorkerRead
<1>9. CASE WorkerSend
  <2>1. ~cut => owner[wsock] = "bridge"
    BY <1>9, WriterOwned DEF WorkerSend
  <2>2. CASE UNCHANGED <<buf, chan>> /\ wpc' = "finish"
    BY <1>9, <2>1, <2>2 DEF WorkerSend, DataInv
  <2>3. ASSUME NEW k \in 1 .. Len(buf), buf' = SubSeq(buf, k + 1, Len(buf)),
               wpc' = IF k = Len(buf) THEN "read" ELSE "send",
               ~cut => chan' = chan \o SubSeq(buf, 1, k)
        PROVE  DataInv'
    <3>1. /\ SubSeq(buf, 1, k) \in Seq(1 .. INPUT) /\ Len(SubSeq(buf, 1, k)) = k
          /\ Len(SubSeq(buf, k + 1, Len(buf))) = Len(buf) - k
          /\ SubSeq(buf, k + 1, Len(buf)) \in Seq(1 .. INPUT)
      <4>1. k \in 0 .. Len(buf)
        BY <1>0
      <4>2. QED
        BY <1>0, <4>1, SplitSeq, SMTT(30)
    <3>2. Len(chan \o SubSeq(buf, 1, k)) = Len(chan) + Len(SubSeq(buf, 1, k))
      BY <1>0, <3>1, ConcatProperties
    <3>3. UNCHANGED <<consumed, rcvd, shut, cut>> /\ wpc = "send" /\ wpc' \in {"read", "send"}
      BY <1>9, <2>3 DEF WorkerSend
    <3>4. ~cut' => consumed' = Len(rcvd)' + Len(chan)' + Len(buf)'
      <4>1. ~cut' => consumed' = Len(rcvd') + Len(chan) + Len(buf)
        BY <3>3 DEF DataInv
      <4>2. ~cut' => Len(chan') = Len(chan) + k
        BY <2>3, <3>1, <3>2, <3>3
      <4>3. Len(buf') = Len(buf) - k /\ Len(rcvd') \in Nat
        BY <1>0, <2>3, <3>1, <3>3
      <4>4. Len(chan) \in Nat /\ Len(buf) \in Nat
        BY <1>0
      <4>5. QED
        BY <4>1, <4>2, <4>3, <4>4
    <3>5. wpc' = "read" => buf' = <<>>
      BY <1>0, <2>3, <3>1, EmptySeq
    <3>6. QED
      BY <3>3, <3>4, <3>5 DEF DataInv
  <2>4. QED
    BY <1>9, <2>1, <2>2, <2>3 DEF WorkerSend
<1>10. CASE WorkerFinish
  <2>1. /\ wpc = "finish" /\ wpc' = "exit" /\ buf' = <<>>
        /\ UNCHANGED <<stdin, chan, rcvd, cut>>
    BY <1>10 DEF WorkerFinish
  <2>2. QED
    BY <2>1 DEF DataInv
<1>11. ASSUME NEW t \in Callers,
              \/ StartUse(t) \/ OnceEnter(t) \/ OnceDone(t) \/ OnceComplete(t) \/ Value(t)
              \/ PairSetup(t) \/ PairConnect(t) \/ PairListener(t) \/ PairWriter(t)
              \/ PairAccept(t) \/ PairDone(t) \/ PairFailed(t) \/ Publish(t)
              \/ CloseWait(t) \/ CloseWriter(t) \/ CloseReader(t)
       PROVE  UNCHANGED <<worker, stdin, conn>>
  BY <1>11 DEF StartUse, OnceEnter, OnceDone, OnceComplete, Value, PairSetup, PairConnect,
               PairListener, PairWriter, PairAccept, TryCall, MakeSocket, PairDone, PairFailed,
               Publish, CloseWait, CloseWriter, CloseReader
<1>12. QED
  BY <1>1, <1>2, <1>3, <1>4, <1>5, <1>6, <1>7, <1>8, <1>9, <1>10, <1>11
     DEF Next, UseStep, CloseStep, OtherOpen, OtherClose, Worker, vars

-----------------------------------------------------------------------------
(* The theorems *)

\* Before the first use of descriptor 0 there is no bridge.
LEMMA InitInv == Init => IInv
<1> SUFFICES ASSUME Init PROVE IInv
  OBVIOUS
<1>1. /\ Types
  <2>1. <<>> \in Seq(1 .. INPUT) /\ 0 \in 0 .. INPUT /\ 0 \in 0 .. 0
    BY BridgeAssumption
  <2>2. QED
    BY <2>1, UnsetFacts DEF Init, Types, Owner, CallerAt, WorkerAt, Sock
<1>2. Accounted
  BY UnsetFacts, BridgeAssumption DEF Init, Accounted
<1>3. (\A t \in Callers : ~InInit(t) /\ ~Closing(t) /\ ~Building(t)) /\ ~Published
  BY DEF Init, InInit, Closing, Building, Published
<1>4. OnceInv /\ CloserInv
  BY <1>3 DEF Init, OnceInv, CloserInv
<1>5. LocalInv
  BY UnsetFacts DEF Init, LocalInv
<1>6. GlobalInv /\ WorkerInv
  BY <1>3 DEF Init, GlobalInv, WorkerInv
<1>7. DataInv
  <2>1. Len(<<>>) = 0
    OBVIOUS
  <2>2. QED
    BY <2>1 DEF Init, DataInv
<1>8. QED
  BY <1>1, <1>2, <1>4, <1>5, <1>6, <1>7 DEF IInv

\* The inductive invariant.
LEMMA Invariant == Spec => []IInv
<1>1. IInv /\ [Next]_vars => IInv'
  BY TypeStep, AccountedStep, OnceStep, CloserStep, LocalStep, GlobalStep, WorkerStep, DataStep
     DEF IInv
<1>2. QED
  BY <1>1, InitInv, PTL DEF Spec

\* Every variable of the bridge keeps its type.
THEOREM TypeCorrect == Spec => []TypeOK
<1>1. IInv => TypeOK
  BY Zenon DEF IInv, Types, TypeOK, Owner, WorkerAt, Locals, CallerAt
<1>2. QED
  BY <1>1, Invariant, PTL

\* No socket of the bridge is lost by a failed stdin_bridge_init or a close, and no
\* variable of it names a socket that was closed.
THEOREM NoSocketLost == Spec => []SocketsAccounted
<1>1. IInv => SocketsAccounted
  BY AccountedDef DEF IInv
<1>2. QED
  BY <1>1, Invariant, PTL

\* poll and recv on descriptor 0 reach the bridge's own open reader, whatever other
\* sockets the process opens and closes and whenever descriptor 0 is closed.
THEOREM ReaderIsOwn == Spec => []UseOwnReader
<1>1. ASSUME IInv PROVE UseOwnReader
  <2> SUFFICES ASSUME NEW t \in Callers, pc[t] = "use"
               PROVE  val[t] = reader /\ owner[val[t]] = "bridge"
    BY DEF UseOwnReader
  <2>1. val[t] = reader /\ reader # NoSocket
    BY <1>1 DEF IInv, GlobalInv
  <2>2. reader \in Values
    BY <1>1, <2>1 DEF IInv, Types, Sock
  <2>3. QED
    BY <1>1, <2>1, <2>2 DEF IInv, Accounted
<1>2. QED
  BY <1>1, Invariant, PTL

\* The worker announces the end of the stream after the last byte of the input.
THEOREM EndComesLast == Spec => []EndAfterData
<1>1. IInv => EndAfterData
  BY DEF IInv, DataInv, EndAfterData
<1>2. QED
  BY <1>1, Invariant, PTL

-----------------------------------------------------------------------------
(* The bridge implements ByteStream *)

\* A step that keeps the bytes in flight and the ones received is invisible.
LEMMA Invisible ==
    ASSUME UNCHANGED <<chan, buf, rcvd, cut>>
    PROVE  UNCHANGED Stream!stream
BY DEF Stream!stream

\* The sequences of the data path.
LEMMA DataSequences ==
    ASSUME IInv
    PROVE  /\ buf \in Seq(1 .. INPUT) /\ chan \in Seq(1 .. INPUT) /\ rcvd \in Seq(1 .. INPUT)
           /\ chan \o buf \in Seq(1 .. INPUT) /\ Len(chan \o buf) = Len(chan) + Len(buf)
           /\ Len(buf) \in Nat /\ Len(chan) \in Nat /\ Len(rcvd) \in Nat
<1>1. buf \in Seq(1 .. INPUT) /\ chan \in Seq(1 .. INPUT) /\ rcvd \in Seq(1 .. INPUT)
  BY DEF IInv, Types
<1>2. QED
  BY <1>1, ConcatProperties, LenProperties

\* _read puts the next bytes of stdin into the stream.
LEMMA ReadPuts ==
    ASSUME IInv, WorkerRead
    PROVE  [Stream!Next]_(Stream!stream)
<1>1. CASE UNCHANGED buf
  BY <1>1, Invisible DEF WorkerRead, conn
<1>2. CASE cut
  BY <1>2 DEF WorkerRead, conn, Stream!stream
<1>3. ASSUME NEW k \in 1 .. BUFFER, ~cut, consumed + k <= typed,
             buf' = Bytes(consumed + 1, consumed + k)
      PROVE  Stream!Put(k)
  <2>1. buf = <<>> /\ UNCHANGED <<chan, rcvd, cut>>
    BY DEF WorkerRead, conn, IInv, DataInv
  <2>2. consumed \in Nat /\ typed \in Nat /\ k \in Nat /\ INPUT \in Nat
    BY BridgeAssumption DEF IInv, Types
  <2>3. chan \o buf = chan /\ Len(buf) = 0
    BY <2>1, DataSequences, ConcatEmptySeq
  <2>4. consumed = Len(rcvd) + Len(chan \o buf)
    <3>1. consumed = Len(rcvd) + Len(chan) + Len(buf)
      BY <1>3 DEF IInv, DataInv
    <3>2. Len(rcvd) \in Nat /\ Len(chan) \in Nat
      BY DataSequences
    <3>3. QED
      BY <2>3, <3>1, <3>2
  <2>5. buf' = [i \in 1 .. k |-> consumed + i]
    BY <1>3, <2>2, BytesSeq
  <2>6. buf' = [i \in 1 .. k |-> Len(rcvd) + Len(chan \o buf) + i]
    BY <2>4, <2>5
  <2>7. QED
    BY <1>3, <2>1, <2>3, <2>6 DEF Stream!Put
<1>4. QED
  BY <1>1, <1>2, <1>3 DEF WorkerRead, Stream!Next

\* send moves bytes inside the stream.
LEMMA SendInvisible ==
    ASSUME IInv, WorkerSend
    PROVE  UNCHANGED Stream!stream
<1>1. UNCHANGED <<rcvd, cut>>
  BY DEF WorkerSend
<1>2. CASE cut
  BY <1>1, <1>2 DEF Stream!stream
<1>3. CASE ~cut
  <2>1. owner[wsock] = "bridge"
    BY <1>3, WriterOwned DEF IInv, WorkerSend
  <2>2. CASE UNCHANGED <<buf, chan>>
    BY <1>1, <2>2, Invisible
  <2>3. ASSUME NEW k \in 1 .. Len(buf), chan' = chan \o SubSeq(buf, 1, k),
               buf' = SubSeq(buf, k + 1, Len(buf))
        PROVE  chan' \o buf' = chan \o buf
    <3>1. k \in 0 .. Len(buf)
      BY DataSequences
    <3>2. QED
      BY <2>3, <3>1, DataSequences, MovePrefix
  <2>4. chan' \o buf' = chan \o buf
    BY <1>3, <2>1, <2>2, <2>3 DEF WorkerSend
  <2>5. QED
    BY <1>1, <2>4 DEF Stream!stream
<1>4. QED
  BY <1>2, <1>3

\* recv gets the first bytes of the stream.
LEMMA UseGets ==
    ASSUME IInv, NEW t \in Callers, Use(t)
    PROVE  [Stream!Next]_(Stream!stream)
<1>1. ~cut /\ ~cut' /\ UNCHANGED <<buf, cut>>
  BY UseOpen DEF IInv, Use, worker
<1>2. CASE UNCHANGED <<rcvd, chan>>
  BY <1>1, <1>2, Invisible
<1>3. ASSUME NEW k \in 1 .. Len(chan), rcvd' = rcvd \o SubSeq(chan, 1, k),
             chan' = SubSeq(chan, k + 1, Len(chan))
      PROVE  Stream!Next
  <2> DEFINE q == chan \o buf
  <2>0. k \in 0 .. Len(chan) /\ k \in 1 .. Len(q) /\ k \in 0 .. Len(q) /\ q \in Seq(1 .. INPUT)
    BY DataSequences
  <2>1. /\ \A i \in 1 .. (Len(chan) + Len(buf)) :
               q[i] = IF i <= Len(chan) THEN chan[i] ELSE buf[i - Len(chan)]
        /\ Len(q) = Len(chan) + Len(buf)
    BY DataSequences, ConcatProperties
  <2> HIDE DEF q
  <2>2. /\ SubSeq(q, 1, k) \in Seq(1 .. INPUT) /\ Len(SubSeq(q, 1, k)) = k
        /\ \A i \in 1 .. k : SubSeq(q, 1, k)[i] = q[i]
        /\ SubSeq(q, k + 1, Len(q)) \in Seq(1 .. INPUT)
        /\ Len(SubSeq(q, k + 1, Len(q))) = Len(q) - k
        /\ \A i \in 1 .. (Len(q) - k) : SubSeq(q, k + 1, Len(q))[i] = q[k + i]
    BY <2>0, SplitSeq
  <2>3. /\ SubSeq(chan, 1, k) \in Seq(1 .. INPUT) /\ Len(SubSeq(chan, 1, k)) = k
        /\ \A i \in 1 .. k : SubSeq(chan, 1, k)[i] = chan[i]
        /\ chan' \in Seq(1 .. INPUT) /\ Len(chan') = Len(chan) - k
        /\ \A i \in 1 .. (Len(chan) - k) : chan'[i] = chan[k + i]
    BY <1>3, <2>0, DataSequences, SplitSeq, ZenonT(30)
  <2>4. SubSeq(q, 1, k) = SubSeq(chan, 1, k)
    <3>1. \A i \in 1 .. k : SubSeq(q, 1, k)[i] = SubSeq(chan, 1, k)[i]
      BY <2>1, <2>2, <2>3, DataSequences
    <3>2. QED
      BY <2>2, <2>3, <3>1, SeqEqual
  <2>5. SubSeq(q, k + 1, Len(q)) = chan' \o buf
    <3>1. /\ chan' \o buf \in Seq(1 .. INPUT) /\ Len(chan' \o buf) = Len(chan') + Len(buf)
          /\ \A i \in 1 .. (Len(chan') + Len(buf)) :
                 (chan' \o buf)[i] = IF i <= Len(chan') THEN chan'[i] ELSE buf[i - Len(chan')]
      BY <2>3, DataSequences, ConcatProperties
    <3>2. Len(chan' \o buf) = Len(q) - k
      BY <2>1, <2>3, <3>1, DataSequences
    <3>3. ASSUME NEW i \in 1 .. (Len(q) - k)
          PROVE  SubSeq(q, k + 1, Len(q))[i] = (chan' \o buf)[i]
      <4>1. SubSeq(q, k + 1, Len(q))[i] = q[k + i]
        BY <2>2
      <4>2. q[k + i] = IF k + i <= Len(chan) THEN chan[k + i] ELSE buf[k + i - Len(chan)]
        BY <2>1, DataSequences
      <4>3. (chan' \o buf)[i] = IF i <= Len(chan') THEN chan'[i] ELSE buf[i - Len(chan')]
        BY <2>1, <2>3, <3>1, DataSequences
      <4>4. i <= Len(chan') => chan'[i] = chan[k + i]
        BY <2>3, DataSequences
      <4>5. /\ i <= Len(chan') <=> k + i <= Len(chan)
            /\ i - Len(chan') = k + i - Len(chan)
        BY <2>3, DataSequences
      <4>6. QED
        BY <4>1, <4>2, <4>3, <4>4, <4>5
    <3>4. QED
      BY <2>2, <3>1, <3>2, <3>3, SeqEqual
  <2>6. Stream!Get(k)
    BY <1>1, <1>3, <2>4, <2>5 DEF Stream!Get, q
  <2>7. QED
    BY <1>1, <2>0, <2>6 DEF Stream!Next, q
<1>4. QED
  BY <1>2, <1>3 DEF Use

\* Every step of the bridge is a step of the stream or invisible.
LEMMA StepRefines ==
    ASSUME IInv, [Next]_vars
    PROVE  [Stream!Next]_(Stream!stream)
<1> USE DEF globals, worker, stdin, conn, Goto
<1>1. CASE WorkerRead \/ WorkerSend
  BY <1>1, ReadPuts, SendInvisible
<1>2. CASE WorkerFinish
  <2>1. UNCHANGED <<chan, rcvd, cut>> /\ buf' = <<>> /\ wpc = "finish"
    BY <1>2 DEF WorkerFinish
  <2>2. ~cut => buf = <<>>
    BY <2>1 DEF IInv, DataInv
  <2>3. QED
    BY <2>1, <2>2 DEF Stream!stream
<1>3. ASSUME NEW t \in Callers, Use(t) PROVE [Stream!Next]_(Stream!stream)
  BY <1>3, UseGets
<1>4. ASSUME NEW t \in Callers, CloseShutdown(t) PROVE [Stream!Next]_(Stream!stream)
  <2>1. cut' = TRUE /\ UNCHANGED <<chan, rcvd, buf>>
    BY <1>4 DEF CloseShutdown, IInv, GlobalInv
  <2>2. CASE cut
    BY <2>1, <2>2 DEF Stream!stream, IInv, Types
  <2>3. CASE ~cut
    BY <2>1, <2>3 DEF Stream!Next, Stream!Cut
  <2>4. QED
    BY <2>2, <2>3
<1>5. ASSUME NEW t \in Callers,
             \/ StartUse(t) \/ OnceEnter(t) \/ OnceDone(t) \/ OnceComplete(t) \/ Value(t)
             \/ PairSetup(t) \/ PairConnect(t) \/ PairListener(t) \/ PairWriter(t)
             \/ PairAccept(t) \/ PairDone(t) \/ PairFailed(t) \/ Publish(t) \/ Spawn(t)
             \/ CloseStart(t) \/ CloseCancel(t) \/ CloseWait(t) \/ CloseWriter(t) \/ CloseReader(t)
       PROVE  UNCHANGED <<chan, buf, rcvd, cut>>
  BY <1>5 DEF StartUse, OnceEnter, OnceDone, OnceComplete, Value, PairSetup, PairConnect,
              PairListener, PairWriter, PairAccept, TryCall, MakeSocket, PairDone, PairFailed,
              Publish, Spawn, CloseStart, CloseCancel, CloseWait, CloseWriter, CloseReader
<1>6. CASE OtherOpen \/ OtherClose \/ Type \/ EndOfInput \/ UNCHANGED vars
  <2>1. UNCHANGED <<chan, buf, rcvd, cut>>
    BY <1>6 DEF OtherOpen, OtherClose, Type, EndOfInput, vars
  <2>2. QED
    BY <2>1, Invisible
<1>7. QED
  BY <1>1, <1>2, <1>3, <1>4, <1>5, <1>6, Invisible DEF Next, UseStep, CloseStep, Worker

\* The bridge forwards stdin byte by byte, in order and without loss until descriptor 0
\* is closed, for every size of the input, of the buffer and of the connection.
THEOREM ForwardsStream == Spec => RefinesByteStream
<1>1. Init => Stream!Init
  <2>1. <<>> \o <<>> = <<>>
    OBVIOUS
  <2>2. QED
    BY <2>1 DEF Init, Stream!Init
<1>2. IInv /\ [Next]_vars => [Stream!Next]_(Stream!stream)
  BY StepRefines
<1>3. QED
  BY <1>1, <1>2, Invariant, PTL DEF Spec, RefinesByteStream, Stream!Spec

=============================================================================
