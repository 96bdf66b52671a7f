--------------------------- MODULE HandleRegistry ---------------------------
(***************************************************************************)
(* The Win64 descriptor layer of compat/win64/win_compat.c.                *)
(*                                                                         *)
(* Skynet keeps descriptors in an int; a Win64 SOCKET or HANDLE is wider.  *)
(* The layer hands out small tokens, HANDLE_ID_BASE + index, and keeps the *)
(* native value in the slot registry_entries[index].  One SRWLOCK guards   *)
(* the table, so registry_add, registry_get and registry_take are atomic;  *)
(* the native call that follows a lookup, and the closesocket that follows *)
(* a take, run outside the lock and are steps of their own.                *)
(*                                                                         *)
(* Every thread runs one call of the API at a time; pc is where it is.     *)
(* Descriptor 0 (the stdin bridge) is modelled in StdinBridge.             *)
(***************************************************************************)
EXTENDS Integers, FiniteSets

CONSTANTS
    Threads,          \* threads of the process that use the API
    SocketValues,     \* values the OS may give a SOCKET
    EpollValues,      \* values wepoll may give an epoll HANDLE
    HANDLE_ID_BASE,   \* first token (256 in the code)
    FIRST_CAPACITY,   \* slots of the first allocation (256 in the code)
    MAX_CAPACITY      \* INT_MAX - HANDLE_ID_BASE in the code

ASSUME RegistryAssumption ==
    /\ SocketValues \subseteq Nat
    /\ EpollValues \subseteq Nat
    /\ HANDLE_ID_BASE \in Nat \ {0}
    /\ FIRST_CAPACITY \in Nat \ {0}
    /\ MAX_CAPACITY \in Nat

VARIABLES
    wsa,        \* registry_once has completed: WSAStartup succeeded
    capacity,   \* registry_capacity
    entries,    \* registry_entries, a function on 0..capacity-1
    open,       \* the native objects that exist in the process
    owned,      \* descriptors the application holds
    pc,         \* where each thread is
    op,         \* the API function a thread is in
    ask,        \* the descriptors that function still uses
    got,        \* what it has looked up so far
    hand,       \* the native object a thread holds outside the table
    tok,        \* the descriptor a thread passes on: close's argument, a new token
    ok,         \* whether the finished call succeeded
    stage,      \* how far skynetjit_pipe is
    loc         \* its locals listener, writer and reader

vars == <<wsa, capacity, entries, open, owned, pc, op, ask, got, hand, tok, ok,
          stage, loc>>

table == <<capacity, entries>>
pipe  == <<stage, loc>>

-----------------------------------------------------------------------------
(* Values *)

Kinds == {"socket", "epoll"}

\* A native object; its kind selects closesocket or epoll_close.
Object == [kind : {"socket"}, value : SocketValues]
              \cup [kind : {"epoll"}, value : EpollValues]

\* A zeroed slot: HANDLE_KIND_NONE.
Empty == [kind |-> "none", value |-> 0]

Tokens == HANDLE_ID_BASE .. (HANDLE_ID_BASE + MAX_CAPACITY - 1)

\* Native sockets some other library opened, passed to the API as they are; 0 is
\* the stdin bridge.
RawFds == {v \in SocketValues : v > 0 /\ v < HANDLE_ID_BASE}

\* A descriptor with the kind its holder uses it as.
Handle == [fd : Tokens, kind : Kinds] \cup [fd : RawFds, kind : {"socket"}]
NoHandle == [fd |-> -1, kind |-> "none"]

Locals == {"listener", "writer", "reader"}

Stages == {"none", "listener", "bind", "listen", "getsockname", "writer",
           "connect", "reader", "close", "done", "failed"}

-----------------------------------------------------------------------------
(* The table *)

Slot(fd) == fd - HANDLE_ID_BASE

\* registry_take's test: the slot exists and is in use.
Registered(fd) ==
    /\ fd >= HANDLE_ID_BASE
    /\ Slot(fd) < capacity
    /\ entries[Slot(fd)].kind # "none"

\* registry_get's test: the slot is in use with the wanted kind.
Found(h) == Registered(h.fd) /\ entries[Slot(h.fd)].kind = h.kind

\* socket_value and epoll_value: the slot's value, else the descriptor itself.
Resolve(h) == IF Found(h) THEN entries[Slot(h.fd)].value ELSE h.fd

\* Mutant of FreeSlots: a test for sockets only takes an epoll's slot for free.
FreeSlotsOverEpoll == {i \in 0 .. (capacity - 1) : entries[i].kind # "socket"}

FreeSlots == {i \in 0 .. (capacity - 1) : entries[i].kind = "none"}

NewCapacity == IF capacity = 0 THEN FIRST_CAPACITY ELSE 2 * capacity

-----------------------------------------------------------------------------
(* Thread control *)

\* The function the thread is in returns; its caller runs in a later step.
Return(t, success) ==
    /\ pc' = [pc EXCEPT ![t] = "ret"]
    /\ ok' = [ok EXCEPT ![t] = success]
    /\ ask' = [ask EXCEPT ![t] = {}]
    /\ got' = [got EXCEPT ![t] = {}]

\* Thread t enters API function f, which looks up the descriptors in H.
Enter(t, f, at, H) ==
    /\ pc' = [pc EXCEPT ![t] = at]
    /\ op' = [op EXCEPT ![t] = f]
    /\ ask' = [ask EXCEPT ![t] = H]

\* A call is over: its locals are dead.
Leave(t, at) ==
    /\ pc' = [pc EXCEPT ![t] = at]
    /\ op' = [op EXCEPT ![t] = "none"]
    /\ ok' = [ok EXCEPT ![t] = FALSE]

\* An idle thread calls the API from the application.
AppCall(t, f, at, H) ==
    /\ pc[t] = "idle"
    /\ Enter(t, f, at, H)
    /\ UNCHANGED <<wsa, table, open, owned, got, hand, tok, ok, pipe>>

-----------------------------------------------------------------------------
(* Calls the application makes.  Its discipline (external: the socket server
   of Skynet): it uses only descriptors it holds, for what they are, and closes
   one only when no other call uses it.                                      *)

StartCreate(t, f) == AppCall(t, f, "new", {})

\* bind, listen, connect, shutdown, getpeername, getsockname, send, sendto,
\* recv, recvfrom, setsockopt, getsockopt, ioctlsocket, fcntl, and accept.
StartSocketCall(t, f) ==
    \E h \in owned : h.kind = "socket" /\ AppCall(t, f, "lookup", {h})

\* read and write ask the table first whether the descriptor is a socket.
StartReadWrite(t) ==
    \E h \in owned : h.kind = "socket" /\ AppCall(t, "call", "check", {h})

StartEpollCtl(t) ==
    \E e, s \in owned :
        /\ e.kind = "epoll" /\ s.kind = "socket"
        /\ AppCall(t, "call", "lookup", {e, s})

StartEpollWait(t) ==
    \E e \in owned : e.kind = "epoll" /\ AppCall(t, "call", "lookup", {e})

\* select translates every descriptor of its fd_sets before it waits.
StartSelect(t) ==
    \E S \in SUBSET {h \in owned : h.kind = "socket"} :
        S # {} /\ AppCall(t, "call", "lookup", S)

StartClose(t) ==
    \E h \in owned :
        /\ pc[t] = "idle"
        /\ \A u \in Threads : h \notin ask[u]
        /\ owned' = owned \ {h}
        /\ tok' = [tok EXCEPT ![t] = h]
        /\ Enter(t, "close", "take", {})
        /\ UNCHANGED <<wsa, table, open, got, hand, ok, pipe>>

StartPipe(t) ==
    /\ pc[t] = "idle"
    /\ stage' = [stage EXCEPT ![t] = "listener"]
    /\ Enter(t, "socket", "new", {})
    /\ UNCHANGED <<wsa, table, open, owned, got, hand, tok, ok, loc>>

\* A library outside the layer opens a native socket and passes it on.
OpenRaw ==
    \E v \in RawFds :
        LET o == [kind |-> "socket", value |-> v] IN
        /\ o \notin open
        /\ open' = open \cup {o}
        /\ owned' = owned \cup {[fd |-> v, kind |-> "socket"]}
        /\ UNCHANGED <<wsa, table, pc, op, ask, got, hand, tok, ok, pipe>>

\* Mutant of AppReturn: the caller keeps a -1 as if it were a descriptor.
AppReturnKeepsFailure(t) ==
    /\ pc[t] = "ret" /\ stage[t] = "none"
    /\ Leave(t, "idle")
    /\ owned' = owned \cup {tok[t]}
    /\ tok' = [tok EXCEPT ![t] = NoHandle]
    /\ UNCHANGED <<wsa, table, open, ask, got, hand, pipe>>

\* The API function returns to the application, which keeps a new descriptor.
AppReturn(t) ==
    /\ pc[t] = "ret" /\ stage[t] = "none"
    /\ Leave(t, "idle")
    /\ owned' = owned \cup ({tok[t]} \ {NoHandle})
    /\ tok' = [tok EXCEPT ![t] = NoHandle]
    /\ UNCHANGED <<wsa, table, open, ask, got, hand, pipe>>

-----------------------------------------------------------------------------
(* skynetjit_socket, skynetjit_epoll_create, skynetjit_accept *)

\* The native constructor gives the thread an object, to be registered next.
NewObject(t, kind) ==
    \E o \in Object \ open :
        /\ o.kind = kind
        /\ open' = open \cup {o}
        /\ hand' = [hand EXCEPT ![t] = o]
        /\ pc' = [pc EXCEPT ![t] = "add"]
        /\ UNCHANGED <<ok, ask, got>>

\* It fails: the function returns -1.
NoObject(t) == Return(t, FALSE) /\ UNCHANGED <<open, hand>>

\* socket() after ensure_registry(), which may fail; epoll_create() has no such
\* check.
NativeCreate(t) ==
    /\ pc[t] = "new"
    /\ \/ op[t] = "socket" /\ wsa' = TRUE /\ (NewObject(t, "socket") \/ NoObject(t))
       \/ op[t] = "socket" /\ ~wsa /\ NoObject(t) /\ UNCHANGED wsa
       \/ op[t] # "socket" /\ (NewObject(t, "epoll") \/ NoObject(t)) /\ UNCHANGED wsa
    /\ UNCHANGED <<table, owned, op, tok, pipe>>

\* The object goes into slot i and the function returns its token.
Publish(t, i) ==
    /\ hand' = [hand EXCEPT ![t] = Empty]
    /\ tok' = [tok EXCEPT ![t] = [fd |-> HANDLE_ID_BASE + i, kind |-> hand[t].kind]]
    /\ Return(t, TRUE)
    /\ wsa' = TRUE
    /\ UNCHANGED <<open, owned, op, pipe>>

\* registry_add, the first free slot.
AddReuse(t) ==
    /\ pc[t] = "add"
    /\ \E i \in FreeSlots :
        /\ \A j \in FreeSlots : i <= j
        /\ entries' = [entries EXCEPT ![i] = hand[t]]
        /\ Publish(t, i)
    /\ UNCHANGED capacity

\* registry_add, the table grows: realloc keeps the slots, memset zeroes the rest.
Grow(t) ==
    entries' = [i \in 0 .. (NewCapacity - 1) |->
                    IF i < capacity THEN entries[i]
                    ELSE IF i = capacity THEN hand[t] ELSE Empty]

AddGrow(t) ==
    /\ pc[t] = "add"
    /\ FreeSlots = {}
    /\ NewCapacity <= MAX_CAPACITY
    /\ Grow(t)
    /\ capacity' = NewCapacity
    /\ Publish(t, capacity)

\* registry_add fails: WSAStartup, the limit, or realloc returns NULL.
AddFail(t) ==
    /\ pc[t] = "add"
    /\ ~wsa \/ FreeSlots = {}
    /\ pc' = [pc EXCEPT ![t] = "undo"]
    /\ UNCHANGED <<wsa, table, open, owned, op, ask, got, hand, tok, ok, pipe>>

\* Mutant of Undo: the object that was not registered stays open.
UndoLeaks(t) ==
    /\ pc[t] = "undo"
    /\ hand' = [hand EXCEPT ![t] = Empty]
    /\ Return(t, FALSE)
    /\ UNCHANGED <<wsa, table, open, owned, op, tok, pipe>>

\* The caller of registry_add closes the object it could not register.
Undo(t) ==
    /\ pc[t] = "undo"
    /\ open' = open \ {hand[t]}
    /\ hand' = [hand EXCEPT ![t] = Empty]
    /\ Return(t, FALSE)
    /\ UNCHANGED <<wsa, table, owned, op, tok, pipe>>

-----------------------------------------------------------------------------
(* Functions that look descriptors up and call the OS *)

\* skynetjit_read and skynetjit_write: not a socket of the table, so the CRT's
\* _read or _write gets the descriptor.
Check(t) ==
    /\ pc[t] = "check"
    /\ \/ /\ \A h \in ask[t] : Found(h)
          /\ pc' = [pc EXCEPT ![t] = "lookup"]
          /\ UNCHANGED <<ok, ask, got>>
       \/ /\ \A h \in ask[t] : ~Found(h)
          /\ \E success \in BOOLEAN : Return(t, success)
    /\ UNCHANGED <<wsa, table, open, owned, op, hand, tok, pipe>>

\* One registry_get.  C leaves the order of epoll_ctl's two lookups open.
Lookup(t) ==
    /\ pc[t] = "lookup"
    /\ \E h \in ask[t] :
        LET seen == got[t] \cup {[handle |-> h, value |-> Resolve(h)]} IN
        /\ \A g \in got[t] : g.handle # h
        /\ got' = [got EXCEPT ![t] = seen]
        /\ pc' = [pc EXCEPT ![t] =
                    IF \A k \in ask[t] : \E g \in seen : g.handle = k
                    THEN "native" ELSE "lookup"]
    /\ UNCHANGED <<wsa, table, open, owned, op, ask, hand, tok, ok, pipe>>

\* The native call on the values found; accept may give a new socket.
NativeCall(t) ==
    /\ pc[t] = "native"
    /\ \/ op[t] = "accept" /\ NewObject(t, "socket")
       \/ op[t] = "accept" /\ NoObject(t)
       \/ /\ op[t] # "accept"
          /\ \E success \in BOOLEAN : Return(t, success)
          /\ UNCHANGED <<open, hand>>
    /\ UNCHANGED <<wsa, table, owned, op, tok, pipe>>

-----------------------------------------------------------------------------
(* skynetjit_close *)

\* Mutant of Take: the slot is read but not cleared.
TakeKeepsSlot(t) ==
    /\ pc[t] = "take"
    /\ LET fd == tok[t].fd IN
       hand' = [hand EXCEPT ![t] = IF Registered(fd) THEN entries[Slot(fd)]
                                   ELSE [kind |-> "socket", value |-> fd]]
    /\ tok' = [tok EXCEPT ![t] = NoHandle]
    /\ pc' = [pc EXCEPT ![t] = "release"]
    /\ UNCHANGED <<wsa, table, open, owned, op, ask, got, ok, pipe>>

\* registry_take: the slot is zeroed and the thread holds the object; without a
\* slot, the descriptor itself is taken for a native socket.
Take(t) ==
    /\ pc[t] = "take"
    /\ LET fd == tok[t].fd IN
       \/ /\ Registered(fd)
          /\ hand' = [hand EXCEPT ![t] = entries[Slot(fd)]]
          /\ entries' = [entries EXCEPT ![Slot(fd)] = Empty]
       \/ /\ ~Registered(fd)
          /\ hand' = [hand EXCEPT ![t] = [kind |-> "socket", value |-> fd]]
          /\ UNCHANGED entries
    /\ tok' = [tok EXCEPT ![t] = NoHandle]
    /\ pc' = [pc EXCEPT ![t] = "release"]
    /\ UNCHANGED <<wsa, capacity, open, owned, op, ask, got, ok, pipe>>

\* closesocket or epoll_close; on a value that is not open it only fails.
Release(t) ==
    /\ pc[t] = "release"
    /\ open' = open \ {hand[t]}
    /\ hand' = [hand EXCEPT ![t] = Empty]
    /\ Return(t, hand[t] \in open)
    /\ UNCHANGED <<wsa, table, owned, op, tok, pipe>>

-----------------------------------------------------------------------------
(* skynetjit_pipe: a loopback connection, built with the calls above *)

PipeNext ==
    [listener |-> "bind", bind |-> "listen", listen |-> "getsockname",
     getsockname |-> "writer", writer |-> "connect", connect |-> "reader",
     reader |-> "close"]

\* A call of the pipe returned: its result is kept, a failure goes to `failed'.
PipeReturn(t) ==
    /\ pc[t] = "ret" /\ stage[t] # "none"
    /\ loc' = [loc EXCEPT ![t] = [x \in Locals |->
                    IF x = stage[t] /\ tok[t] # NoHandle THEN tok[t] ELSE @[x]]]
    /\ tok' = [tok EXCEPT ![t] = NoHandle]
    /\ stage' = [stage EXCEPT ![t] =
                    IF @ = "close" THEN "done"
                    ELSE IF @ = "failed" \/ ~ok[t] THEN "failed"
                    ELSE PipeNext[@]]
    /\ Leave(t, "pipe")
    /\ UNCHANGED <<wsa, table, open, owned, ask, got, hand>>

\* The pipe creates its writer.
PipeSocket(t) ==
    /\ pc[t] = "pipe" /\ stage[t] = "writer"
    /\ Enter(t, "socket", "new", {})
    /\ UNCHANGED <<wsa, table, open, owned, got, hand, tok, ok, pipe>>

\* It binds, listens and asks the port on the listener, connects the writer,
\* accepts the reader.
PipeCall(t) ==
    /\ pc[t] = "pipe"
    /\ stage[t] \in {"bind", "listen", "getsockname", "connect", "reader"}
    /\ Enter(t, IF stage[t] = "reader" THEN "accept" ELSE "call", "lookup",
             {loc[t][IF stage[t] = "connect" THEN "writer" ELSE "listener"]})
    /\ UNCHANGED <<wsa, table, open, owned, got, hand, tok, ok, pipe>>

\* It closes its local x: skynetjit_close(x).
CloseLocal(t, x) ==
    /\ loc[t][x] # NoHandle
    /\ tok' = [tok EXCEPT ![t] = loc[t][x]]
    /\ loc' = [loc EXCEPT ![t][x] = NoHandle]
    /\ Enter(t, "close", "take", {})
    /\ UNCHANGED <<wsa, table, open, owned, got, hand, ok, stage>>

\* Success: the listener has done its work.
PipeCloseListener(t) ==
    /\ pc[t] = "pipe" /\ stage[t] = "close"
    /\ CloseLocal(t, "listener")

\* Failure: close what was made, listener, writer, reader in this order.
PipeCleanup(t) ==
    /\ pc[t] = "pipe" /\ stage[t] = "failed"
    /\ \/ CloseLocal(t, "listener")
       \/ loc[t]["listener"] = NoHandle /\ CloseLocal(t, "writer")
       \/ /\ loc[t]["listener"] = NoHandle /\ loc[t]["writer"] = NoHandle
          /\ CloseLocal(t, "reader")

\* Mutant of PipeEnd: the error path closes the listener only.
PipeEndLeaks(t) ==
    /\ pc[t] = "pipe"
    /\ \/ /\ stage[t] = "done"
          /\ owned' = owned \cup {loc[t]["reader"], loc[t]["writer"]}
       \/ /\ stage[t] = "failed" /\ loc[t]["listener"] = NoHandle
          /\ UNCHANGED owned
    /\ stage' = [stage EXCEPT ![t] = "none"]
    /\ loc' = [loc EXCEPT ![t] = [x \in Locals |-> NoHandle]]
    /\ Leave(t, "idle")
    /\ UNCHANGED <<wsa, table, open, ask, got, hand, tok>>

\* skynetjit_pipe returns: fd[0] and fd[1] on success, nothing on failure.
PipeEnd(t) ==
    /\ pc[t] = "pipe"
    /\ \/ /\ stage[t] = "done"
          /\ owned' = owned \cup {loc[t]["reader"], loc[t]["writer"]}
       \/ /\ stage[t] = "failed" /\ \A x \in Locals : loc[t][x] = NoHandle
          /\ UNCHANGED owned
    /\ stage' = [stage EXCEPT ![t] = "none"]
    /\ loc' = [loc EXCEPT ![t] = [x \in Locals |-> NoHandle]]
    /\ Leave(t, "idle")
    /\ UNCHANGED <<wsa, table, open, ask, got, hand, tok>>

-----------------------------------------------------------------------------

Init ==
    /\ wsa = FALSE
    /\ capacity = 0 /\ entries = [i \in {} |-> Empty]
    /\ open = {} /\ owned = {}
    /\ pc = [t \in Threads |-> "idle"]
    /\ op = [t \in Threads |-> "none"]
    /\ ask = [t \in Threads |-> {}]
    /\ got = [t \in Threads |-> {}]
    /\ hand = [t \in Threads |-> Empty]
    /\ tok = [t \in Threads |-> NoHandle]
    /\ ok = [t \in Threads |-> FALSE]
    /\ stage = [t \in Threads |-> "none"]
    /\ loc = [t \in Threads |-> [x \in Locals |-> NoHandle]]

\* The calls an idle thread may start.
Start(t) ==
    \/ StartCreate(t, "socket")
    \/ StartCreate(t, "epoll_create")
    \/ StartSocketCall(t, "call")
    \/ StartSocketCall(t, "accept")
    \/ StartReadWrite(t)
    \/ StartEpollCtl(t)
    \/ StartEpollWait(t)
    \/ StartSelect(t)
    \/ StartClose(t)
    \/ StartPipe(t)

\* The steps of a call in progress.
Step(t) ==
    \/ AppReturn(t)
    \/ NativeCreate(t)
    \/ AddReuse(t)
    \/ AddGrow(t)
    \/ AddFail(t)
    \/ Undo(t)
    \/ Check(t)
    \/ Lookup(t)
    \/ NativeCall(t)
    \/ Take(t)
    \/ Release(t)
    \/ PipeReturn(t)
    \/ PipeSocket(t)
    \/ PipeCall(t)
    \/ PipeCloseListener(t)
    \/ PipeCleanup(t)
    \/ PipeEnd(t)

Next == OpenRaw \/ \E t \in Threads : Start(t) \/ Step(t)

Spec == Init /\ [][Next]_vars

-----------------------------------------------------------------------------
(* Properties *)

\* Every variable has its type.
TypeOK ==
    /\ wsa \in BOOLEAN
    /\ capacity \in 0 .. MAX_CAPACITY
    /\ entries \in [0 .. (capacity - 1) -> Object \cup {Empty}]
    /\ open \subseteq Object
    /\ owned \subseteq Handle
    /\ pc \in [Threads -> {"idle", "new", "add", "undo", "check", "lookup", "native",
                          "take", "release", "ret", "pipe"}]
    /\ op \in [Threads -> {"none", "socket", "epoll_create", "accept", "call", "close"}]
    /\ ask \in [Threads -> SUBSET Handle]
    /\ got \in [Threads -> SUBSET [handle : Handle, value : Nat]]
    /\ hand \in [Threads -> Object \cup {Empty}]
    /\ tok \in [Threads -> Handle \cup {NoHandle}]
    /\ ok \in [Threads -> BOOLEAN]
    /\ stage \in [Threads -> Stages]
    /\ loc \in [Threads -> [Locals -> Handle \cup {NoHandle}]]

\* The slots in use, and whether somebody will still use or close a descriptor.
Used == {i \in 0 .. (capacity - 1) : entries[i].kind # "none"}

IsHeld(h) ==
    \/ h \in owned
    \/ \E t \in Threads : tok[t] = h \/ \E x \in Locals : loc[t][x] = h

\* The raw sockets still held, as the objects they are.
RawHandle(v) == [fd |-> v, kind |-> "socket"]
RawObject(v) == [kind |-> "socket", value |-> v]
RawHeld == {v \in RawFds : IsHeld(RawHandle(v))}

\* Two owners never share a native object: not two slots, not a slot and a thread
\* about to register or close, not either of them and a raw descriptor.  Otherwise
\* one descriptor's close would close the other's socket.
NoSharedObject ==
    /\ \A i, j \in Used : entries[i] = entries[j] => i = j
    /\ \A t \in Threads : hand[t] # Empty =>
          /\ \A i \in Used : hand[t] # entries[i]
          /\ \A u \in Threads : hand[t] = hand[u] => t = u
          /\ \A v \in RawHeld : hand[t] # RawObject(v)
    /\ \A v \in RawHeld, i \in Used : RawObject(v) # entries[i]

\* What an owner has is open, and what is open has an owner: a failed registry_add,
\* a failed pipe and a close racing other calls leak no socket and leave no slot
\* with a closed one.
OpenIffOwned ==
    \A o \in Object :
        o \in open <=> \/ \E i \in Used : entries[i] = o
                       \/ \E t \in Threads : hand[t] = o
                       \/ \E v \in RawHeld : RawObject(v) = o

\* A token somebody holds has a slot in use with its kind.
HeldFound == \A h \in Handle : IsHeld(h) /\ h.fd >= HANDLE_ID_BASE => Found(h)

\* A slot in use belongs to somebody.
UsedHeld == \A i \in Used : IsHeld([fd |-> HANDLE_ID_BASE + i, kind |-> entries[i].kind])

\* A descriptor being passed on, or in a local of a pipe, has no other holder.
TokAlone ==
    \A t, u \in Threads : tok[t] # NoHandle =>
        /\ tok[t] \notin owned
        /\ tok[t] = tok[u] => t = u
        /\ \A x \in Locals : tok[t] # loc[u][x]

LocAlone ==
    \A t, u \in Threads, x, y \in Locals : loc[t][x] # NoHandle =>
        /\ loc[t][x] \notin owned
        /\ loc[t][x] = loc[u][y] => t = u /\ x = y

\* Every descriptor has one holder, its slot is in use with its kind, and every slot
\* in use is somebody's: skynetjit_pipe loses no token on any of its error paths.
OneHolder == HeldFound /\ UsedHeld /\ TokAlone /\ LocAlone

\* A value looked up under the lock and used after it is released is still the open
\* object of its descriptor: the native call reaches the caller's own socket.
LookupCurrent ==
    \A t \in Threads : \A g \in got[t] :
        /\ g.value = Resolve(g.handle)
        /\ [kind |-> g.handle.kind, value |-> g.value] \in open

\* While the application holds a descriptor it keeps denoting the same object,
\* whatever other threads add, take or close and whenever the table grows.
StableBinding ==
    [][\A h \in owned \cap owned' : Resolve(h)' = Resolve(h)]_vars

\* The bindings in force: the slots in use and the raw descriptors still held.
Binding ==
    {<<HANDLE_ID_BASE + i, entries[i]>> : i \in Used}
        \cup {<<v, RawObject(v)>> : v \in RawHeld}

Abstract == INSTANCE FdTable WITH
    Fd <- Tokens \cup RawFds, Obj <- Object, binding <- Binding

\* The table implements FdTable: a token is bound where registry_add publishes it and
\* unbound where registry_take clears it, although the native object is made before
\* and closed after; growing the table is invisible.
RefinesFdTable == Abstract!Spec

=============================================================================
