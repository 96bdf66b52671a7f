------------------------ MODULE HandleRegistryProofs ------------------------
(***************************************************************************)
(* For any number of threads, values and slots, HandleRegistry never       *)
(* shares or leaks a native object, gives every descriptor one holder,     *)
(* never uses a stale lookup, and implements FdTable.                      *)
(***************************************************************************)
EXTENDS HandleRegistry, TLAPS

-----------------------------------------------------------------------------
(* The inductive invariant: what the properties leave implicit about where a
   thread is.                                                               *)

\* A thread holds an object exactly between making and registering it, or between
\* taking and closing it; it passes a descriptor on into close or out of a call.
HandShape ==
    \A t \in Threads :
        /\ hand[t] # Empty <=> pc[t] \in {"add", "undo", "release"}
        /\ pc[t] = "take" => tok[t] # NoHandle
        /\ tok[t] # NoHandle => pc[t] \in {"take", "ret"}

\* A call looks up only descriptors the application or its own pipe holds.
AskShape ==
    \A t \in Threads :
        /\ pc[t] \in {"idle", "new", "take", "release", "ret", "pipe"} => ask[t] = {}
        /\ \A h \in ask[t] : h \in owned \/ \E x \in Locals : loc[t][x] = h
        /\ \A g \in got[t] : g.handle \in ask[t]

\* How far the pipe is decides which locals are set and which call runs.
HasLocals(t, X) == \A x \in Locals : loc[t][x] # NoHandle <=> x \in X

PipeAt(t) ==
    /\ pc[t] = "idle" => stage[t] = "none"
    /\ pc[t] = "pipe" => stage[t] \notin {"none", "listener"}
    /\ stage[t] = "none" => HasLocals(t, {})
    /\ stage[t] = "listener" =>
          HasLocals(t, {}) /\ pc[t] \in {"new", "add", "undo", "ret"}
    /\ stage[t] \in {"bind", "listen", "getsockname"} =>
          HasLocals(t, {"listener"}) /\ pc[t] \in {"pipe", "lookup", "native", "ret"}
    /\ stage[t] = "writer" =>
          HasLocals(t, {"listener"}) /\ pc[t] \in {"pipe", "new", "add", "undo", "ret"}
    /\ stage[t] = "connect" =>
          /\ HasLocals(t, {"listener", "writer"})
          /\ pc[t] \in {"pipe", "lookup", "native", "ret"}
    /\ stage[t] = "reader" =>
          /\ HasLocals(t, {"listener", "writer"})
          /\ pc[t] \in {"pipe", "lookup", "native", "add", "undo", "ret"}
    /\ stage[t] = "close" =>
          /\ HasLocals(t, {"writer", "reader"} \cup
                          (IF pc[t] = "pipe" THEN {"listener"} ELSE {}))
          /\ pc[t] \in {"pipe", "take", "release", "ret"}
    /\ stage[t] = "done" => HasLocals(t, {"writer", "reader"}) /\ pc[t] = "pipe"
    /\ stage[t] = "failed" => pc[t] \in {"pipe", "take", "release", "ret"}
    /\ pc[t] \in {"lookup", "native"} =>
          /\ stage[t] \in {"bind", "listen", "getsockname", "connect"} => op[t] = "call"
          /\ stage[t] = "reader" => op[t] = "accept"
    /\ pc[t] = "ret" =>
          /\ stage[t] \in Locals => (ok[t] <=> tok[t] # NoHandle)
          /\ stage[t] \notin Locals \cup {"none"} => tok[t] = NoHandle

PipeShape == \A t \in Threads : PipeAt(t)

\* The inductive invariant.
HolderInv ==
    /\ TypeOK
    /\ HandShape
    /\ AskShape
    /\ PipeShape
    /\ OneHolder

-----------------------------------------------------------------------------
(* Facts about values *)

\* A zeroed slot is no object, -1 is no descriptor.
LEMMA Distinct ==
    /\ Empty \notin Object
    /\ NoHandle \notin Handle
    /\ \A o \in Object : o.kind \in Kinds /\ o.value \in Nat
    /\ \A h \in Handle : h.kind \in Kinds /\ h.fd \in Nat
<1>1. \A o \in Object : o.kind \in Kinds /\ o.value \in Nat
  BY RegistryAssumption DEF Object, Kinds
<1>2. Empty \notin Object
  BY <1>1 DEF Empty, Kinds
<1>3. \A h \in Handle : h.kind \in Kinds /\ h.fd \in Nat
  <2>1. \A n \in Tokens : n \in Nat
    BY RegistryAssumption DEF Tokens
  <2>2. \A n \in RawFds : n \in Nat
    BY RegistryAssumption DEF RawFds
  <2>3. QED
    BY <2>1, <2>2 DEF Handle, Kinds
<1>4. NoHandle \notin Handle
  BY <1>3 DEF NoHandle, Kinds
<1>5. QED
  BY <1>1, <1>2, <1>3, <1>4

\* The token of a slot is a descriptor.
LEMMA TokenHandle ==
    ASSUME TypeOK, NEW i \in 0 .. (MAX_CAPACITY - 1), NEW k \in Kinds
    PROVE  [fd |-> HANDLE_ID_BASE + i, kind |-> k] \in Handle
<1>1. HANDLE_ID_BASE + i \in Tokens
  BY RegistryAssumption DEF Tokens
<1>2. QED
  BY <1>1 DEF Handle

\* A slot in use holds an object.
LEMMA UsedObject ==
    ASSUME TypeOK
    PROVE  \A i \in Used : /\ entries[i] \in Object
                           /\ entries[i].kind \in Kinds
                           /\ i \in 0 .. (MAX_CAPACITY - 1)
<1>1. \A i \in Used : entries[i] \in Object /\ i \in 0 .. (MAX_CAPACITY - 1)
  BY RegistryAssumption DEF TypeOK, Used, Empty
<1>2. QED
  BY <1>1, Distinct

\* The step changes who holds a descriptor but not which ones are held.
SameHeld == \A h \in Handle : IsHeld(h)' <=> IsHeld(h)

\* A step that leaves the table and the set of descriptors held alone keeps the two
\* in agreement.
LEMMA HolderMove ==
    ASSUME TypeOK, OneHolder, UNCHANGED <<capacity, entries>>, SameHeld
    PROVE  HeldFound' /\ UsedHeld'
<1> USE DEF SameHeld
<1>1. HeldFound'
  BY DEF OneHolder, HeldFound, Found, Registered
<1>2. Used' = Used
  BY DEF Used
<1>3. ASSUME NEW i \in Used
      PROVE  IsHeld([fd |-> HANDLE_ID_BASE + i, kind |-> entries[i].kind])'
  <2>1. [fd |-> HANDLE_ID_BASE + i, kind |-> entries[i].kind] \in Handle
    BY UsedObject, TokenHandle
  <2>2. IsHeld([fd |-> HANDLE_ID_BASE + i, kind |-> entries[i].kind])
    BY DEF OneHolder, UsedHeld
  <2>3. QED
    BY <2>1, <2>2
<1>4. QED
  BY <1>1, <1>2, <1>3 DEF UsedHeld

\* A step that moves no descriptor at all.
LEMMA HolderFrame ==
    ASSUME TypeOK, OneHolder, UNCHANGED <<capacity, entries, owned, tok, loc>>
    PROVE  OneHolder' /\ SameHeld
<1>0. SameHeld
  BY DEF SameHeld, IsHeld
<1>1. HeldFound' /\ UsedHeld'
  BY <1>0, HolderMove
<1>2. TokAlone' /\ LocAlone'
  BY DEF OneHolder, TokAlone, LocAlone
<1>3. QED
  BY <1>0, <1>1, <1>2 DEF OneHolder

\* The initial state.
LEMMA InitHolder == Init => HolderInv
<1> SUFFICES ASSUME Init PROVE HolderInv
  OBVIOUS
<1> USE DEF Init
<1>1. TypeOK
  <2>1. 0 .. (capacity - 1) = {}
    OBVIOUS
  <2>2. entries \in [0 .. (capacity - 1) -> Object \cup {Empty}]
    BY <2>1
  <2>3. capacity \in 0 .. MAX_CAPACITY
    BY RegistryAssumption
  <2>4. loc \in [Threads -> [Locals -> Handle \cup {NoHandle}]]
    OBVIOUS
  <2>5. QED
    BY <2>2, <2>3, <2>4 DEF TypeOK, Stages
<1>2. HandShape /\ AskShape /\ PipeShape
  BY DEF HandShape, AskShape, PipeShape, PipeAt, HasLocals, Locals
<1>3. OneHolder
  BY Distinct DEF OneHolder, HeldFound, UsedHeld, TokAlone, LocAlone, Used, IsHeld
<1>4. QED
  BY <1>1, <1>2, <1>3 DEF HolderInv

-----------------------------------------------------------------------------
(* One lemma per action *)

\* The application starts a call that only looks descriptors up or creates one.
LEMMA AppCallStep ==
    ASSUME HolderInv, NEW t \in Threads,
           NEW f \in {"socket", "epoll_create", "accept", "call"},
           NEW at \in {"new", "lookup", "check"}, NEW H \in SUBSET owned,
           at = "new" => H = {}, AppCall(t, f, at, H)
    PROVE  HolderInv' /\ SameHeld
<1> USE DEF AppCall, Enter, table, pipe, HolderInv
<1>1. TypeOK'
  BY DEF TypeOK
<1>2. HandShape'
  BY DEF TypeOK, HandShape
<1>3. AskShape'
  BY DEF TypeOK, AskShape
<1>4. PipeShape'
  BY DEF TypeOK, PipeShape, PipeAt, HasLocals
<1>5. OneHolder' /\ SameHeld
  BY HolderFrame
<1>6. QED
  BY <1>1, <1>2, <1>3, <1>4, <1>5

\* The application gives a descriptor to close.
LEMMA StartCloseStep ==
    ASSUME HolderInv, NEW t \in Threads, StartClose(t)
    PROVE  HolderInv' /\ SameHeld
<1> USE DEF StartClose, Enter, table, pipe, HolderInv
<1>1. TypeOK'
  BY Distinct DEF TypeOK
<1>2. HandShape'
  BY Distinct DEF TypeOK, HandShape
<1>3. AskShape'
  BY DEF TypeOK, AskShape
<1>4. PipeShape'
  BY DEF TypeOK, PipeShape, PipeAt, HandShape, HasLocals, Locals
<1>5. SameHeld
  <2>1. PICK h \in owned : owned' = owned \ {h} /\ tok' = [tok EXCEPT ![t] = h]
    OBVIOUS
  <2>2. tok[t] = NoHandle /\ h \in Handle /\ tok'[t] = h
    BY <2>1 DEF TypeOK, HandShape
  <2>3. ASSUME NEW g \in Handle PROVE IsHeld(g)' <=> IsHeld(g)
    <3>1. CASE g = h
      BY <3>1, <2>2 DEF IsHeld
    <3>2. CASE g # h
      BY <3>2, <2>1, <2>2, Distinct DEF TypeOK, IsHeld
    <3>3. QED
      BY <3>1, <3>2
  <2>4. QED
    BY <2>3 DEF SameHeld
<1>6. OneHolder'
  <2>1. PICK h \in owned : owned' = owned \ {h} /\ tok' = [tok EXCEPT ![t] = h]
    OBVIOUS
  <2>2. HeldFound' /\ UsedHeld'
    BY <1>5, HolderMove
  <2>3. TokAlone' /\ LocAlone'
    BY <2>1, Distinct DEF TypeOK, HandShape, OneHolder, TokAlone, LocAlone
  <2>4. QED
    BY <2>2, <2>3 DEF OneHolder
<1>7. QED
  BY <1>1, <1>2, <1>3, <1>4, <1>5, <1>6

\* The application calls skynetjit_pipe.
LEMMA StartPipeStep ==
    ASSUME HolderInv, NEW t \in Threads, StartPipe(t)
    PROVE  HolderInv' /\ SameHeld
<1> USE DEF StartPipe, Enter, table, pipe, HolderInv
<1>1. TypeOK'
  BY DEF TypeOK, Stages
<1>2. HandShape'
  BY Distinct DEF TypeOK, HandShape
<1>3. AskShape'
  BY DEF TypeOK, AskShape
<1>4. PipeShape'
  BY DEF TypeOK, PipeShape, PipeAt, HandShape, HasLocals, Locals
<1>5. OneHolder' /\ SameHeld
  BY HolderFrame
<1>6. QED
  BY <1>1, <1>2, <1>3, <1>4, <1>5

\* A call returns to the application.
LEMMA AppReturnStep ==
    ASSUME HolderInv, NEW t \in Threads, AppReturn(t)
    PROVE  HolderInv' /\ SameHeld
<1> USE DEF AppReturn, Leave, table, pipe, HolderInv
<1>1. TypeOK'
  BY Distinct DEF TypeOK
<1>2. HandShape'
  BY Distinct DEF TypeOK, HandShape
<1>3. AskShape'
  BY DEF TypeOK, AskShape
<1>4. PipeShape'
  BY DEF TypeOK, PipeShape, PipeAt, HandShape, HasLocals, Locals
<1>5. SameHeld
  <2>1. SUFFICES ASSUME NEW h \in Handle PROVE IsHeld(h)' <=> IsHeld(h)
    BY DEF SameHeld
  <2>2. QED
    BY Distinct DEF TypeOK, IsHeld, PipeShape, PipeAt, HasLocals
<1>6. OneHolder'
  <2>1. HeldFound' /\ UsedHeld'
    BY <1>5, HolderMove
  <2>2. TokAlone' /\ LocAlone'
    BY Distinct DEF TypeOK, OneHolder, TokAlone, LocAlone, PipeShape, PipeAt, HasLocals
  <2>3. QED
    BY <2>1, <2>2 DEF OneHolder
<1>7. QED
  BY <1>1, <1>2, <1>3, <1>4, <1>5, <1>6

\* The native constructors keep objects and hands typed.
LEMMA NewObjectType ==
    ASSUME TypeOK, NEW t \in Threads, NEW k \in Kinds,
           \/ NewObject(t, k)
           \/ NoObject(t)
           \/ UNCHANGED <<open, hand>>
    PROVE  hand' \in [Threads -> Object \cup {Empty}] /\ open' \subseteq Object
<1>1. CASE NewObject(t, k)
  <2>1. PICK o \in Object \ open : /\ open' = open \cup {o}
                                   /\ hand' = [hand EXCEPT ![t] = o]
    BY <1>1 DEF NewObject
  <2>2. QED
    BY <2>1 DEF TypeOK
<1>2. CASE NoObject(t)
  BY <1>2 DEF NoObject, TypeOK
<1>3. CASE UNCHANGED <<open, hand>>
  BY <1>3 DEF TypeOK
<1>4. QED
  BY <1>1, <1>2, <1>3

\* socket() or epoll_create().
LEMMA NativeCreateStep ==
    ASSUME HolderInv, NEW t \in Threads, NativeCreate(t)
    PROVE  HolderInv' /\ SameHeld
<1> USE DEF NativeCreate, NewObject, NoObject, Return, table, pipe, HolderInv
<1>1. TypeOK'
  <2>1. hand' \in [Threads -> Object \cup {Empty}] /\ open' \subseteq Object
    BY NewObjectType DEF Kinds
  <2>2. ok' \in [Threads -> BOOLEAN]
    BY DEF TypeOK
  <2>3. QED
    BY <2>1, <2>2 DEF TypeOK
<1>2. HandShape'
  BY Distinct DEF TypeOK, HandShape
<1>3. AskShape'
  BY DEF TypeOK, AskShape
<1>4. PipeShape'
  BY DEF TypeOK, PipeShape, PipeAt, HandShape, HasLocals, Locals
<1>5. OneHolder' /\ SameHeld
  BY HolderFrame
<1>6. QED
  BY <1>1, <1>2, <1>3, <1>4, <1>5

\* registry_add fails.
LEMMA AddFailStep ==
    ASSUME HolderInv, NEW t \in Threads, AddFail(t)
    PROVE  HolderInv' /\ SameHeld
<1> USE DEF AddFail, table, pipe, HolderInv
<1>1. TypeOK'
  BY Distinct DEF TypeOK
<1>2. HandShape'
  BY Distinct DEF TypeOK, HandShape
<1>3. AskShape'
  BY DEF TypeOK, AskShape
<1>4. PipeShape'
  BY DEF TypeOK, PipeShape, PipeAt, HandShape, HasLocals, Locals
<1>5. OneHolder' /\ SameHeld
  BY HolderFrame
<1>6. QED
  BY <1>1, <1>2, <1>3, <1>4, <1>5

\* The object that was not registered is closed.
LEMMA UndoStep ==
    ASSUME HolderInv, NEW t \in Threads, Undo(t)
    PROVE  HolderInv' /\ SameHeld
<1> USE DEF Undo, Return, table, pipe, HolderInv
<1>1. TypeOK'
  BY Distinct DEF TypeOK
<1>2. HandShape'
  BY Distinct DEF TypeOK, HandShape
<1>3. AskShape'
  BY DEF TypeOK, AskShape
<1>4. PipeShape'
  BY DEF TypeOK, PipeShape, PipeAt, HandShape, HasLocals, Locals
<1>5. OneHolder' /\ SameHeld
  BY HolderFrame
<1>6. QED
  BY <1>1, <1>2, <1>3, <1>4, <1>5

\* read and write test the descriptor.
LEMMA CheckStep ==
    ASSUME HolderInv, NEW t \in Threads, Check(t)
    PROVE  HolderInv' /\ SameHeld
<1> USE DEF Check, Return, table, pipe, HolderInv
<1>1. TypeOK'
  <2>1. ok' \in [Threads -> BOOLEAN]
    BY DEF TypeOK
  <2>2. QED
    BY <2>1 DEF TypeOK
<1>2. HandShape'
  BY Distinct DEF TypeOK, HandShape
<1>3. AskShape'
  BY DEF TypeOK, AskShape
<1>4. PipeShape'
  BY DEF TypeOK, PipeShape, PipeAt, HandShape, HasLocals, Locals
<1>5. OneHolder' /\ SameHeld
  BY HolderFrame
<1>6. QED
  BY <1>1, <1>2, <1>3, <1>4, <1>5

\* One registry_get.
LEMMA LookupStep ==
    ASSUME HolderInv, NEW t \in Threads, Lookup(t)
    PROVE  HolderInv' /\ SameHeld
<1> USE DEF Lookup, table, pipe, HolderInv
<1>1. TypeOK'
  <2>1. PICK h \in ask[t] :
            got' = [got EXCEPT ![t] = got[t] \cup {[handle |-> h, value |-> Resolve(h)]}]
    OBVIOUS
  <2>2. h \in Handle /\ h.fd \in Nat
    BY Distinct DEF TypeOK
  <2>3. Resolve(h) \in Nat
    <3>1. CASE Found(h)
      <4>1. Slot(h.fd) \in Used
        BY <2>2, <3>1, RegistryAssumption DEF TypeOK, Found, Registered, Slot, Used
      <4>2. QED
        BY <3>1, <4>1, UsedObject, Distinct DEF Resolve
    <3>2. CASE ~Found(h)
      BY <2>2, <3>2 DEF Resolve
    <3>3. QED
      BY <3>1, <3>2
  <2>4. got' \in [Threads -> SUBSET [handle : Handle, value : Nat]]
    BY <2>1, <2>2, <2>3 DEF TypeOK
  <2>5. pc' \in [Threads -> {"idle", "new", "add", "undo", "check", "lookup", "native",
                             "take", "release", "ret", "pipe"}]
    BY DEF TypeOK
  <2>6. QED
    BY <2>4, <2>5 DEF TypeOK
<1>2. HandShape'
  BY Distinct DEF TypeOK, HandShape
<1>3. AskShape'
  BY DEF TypeOK, AskShape
<1>4. PipeShape'
  BY DEF TypeOK, PipeShape, PipeAt, HandShape, HasLocals, Locals
<1>5. OneHolder' /\ SameHeld
  BY HolderFrame
<1>6. QED
  BY <1>1, <1>2, <1>3, <1>4, <1>5

\* The native call.
LEMMA NativeCallStep ==
    ASSUME HolderInv, NEW t \in Threads, NativeCall(t)
    PROVE  HolderInv' /\ SameHeld
<1> USE DEF NativeCall, NewObject, NoObject, Return, table, pipe, HolderInv
<1>1. TypeOK'
  <2>1. hand' \in [Threads -> Object \cup {Empty}] /\ open' \subseteq Object
    BY NewObjectType DEF Kinds
  <2>2. ok' \in [Threads -> BOOLEAN]
    BY DEF TypeOK
  <2>3. QED
    BY <2>1, <2>2 DEF TypeOK
<1>2. HandShape'
  BY Distinct DEF TypeOK, HandShape
<1>3. AskShape'
  BY DEF TypeOK, AskShape
<1>4. PipeShape'
  BY DEF TypeOK, PipeShape, PipeAt, HandShape, HasLocals, Locals
<1>5. OneHolder' /\ SameHeld
  BY HolderFrame
<1>6. QED
  BY <1>1, <1>2, <1>3, <1>4, <1>5

\* closesocket or epoll_close.
LEMMA ReleaseStep ==
    ASSUME HolderInv, NEW t \in Threads, Release(t)
    PROVE  HolderInv' /\ SameHeld
<1> USE DEF Release, Return, table, pipe, HolderInv
<1>1. TypeOK'
  BY Distinct DEF TypeOK
<1>2. HandShape'
  BY Distinct DEF TypeOK, HandShape
<1>3. AskShape'
  BY DEF TypeOK, AskShape
<1>4. PipeShape'
  BY DEF TypeOK, PipeShape, PipeAt, HandShape, HasLocals, Locals
<1>5. OneHolder' /\ SameHeld
  BY HolderFrame
<1>6. QED
  BY <1>1, <1>2, <1>3, <1>4, <1>5

\* The pipe creates its writer.
LEMMA PipeSocketStep ==
    ASSUME HolderInv, NEW t \in Threads, PipeSocket(t)
    PROVE  HolderInv' /\ SameHeld
<1> USE DEF PipeSocket, Enter, table, pipe, HolderInv
<1>1. TypeOK'
  BY Distinct DEF TypeOK
<1>2. HandShape'
  BY Distinct DEF TypeOK, HandShape
<1>3. AskShape'
  BY DEF TypeOK, AskShape
<1>4. PipeShape'
  BY DEF TypeOK, PipeShape, PipeAt, HandShape, HasLocals, Locals
<1>5. OneHolder' /\ SameHeld
  BY HolderFrame
<1>6. QED
  BY <1>1, <1>2, <1>3, <1>4, <1>5

\* What registry_add does to the table: slot i was free and now holds the object of
\* the thread, the other slots are as before.
Filled(t, i) ==
    /\ i \in 0 .. (capacity' - 1)
    /\ i \notin Used
    /\ capacity <= capacity'
    /\ entries'[i] = hand[t]
    /\ \A j \in 0 .. (capacity' - 1) :
          j # i => entries'[j] = IF j < capacity THEN entries[j] ELSE Empty

\* A slot of the table is a slot of the larger table registry_add makes of it.
LEMMA Widen ==
    ASSUME NEW a \in Nat, NEW b \in Nat, a <= b, NEW i \in 0 .. (a - 1)
    PROVE  i \in 0 .. (b - 1)
OBVIOUS

\* The token registry_add returns.
NewToken(t, i) == [fd |-> HANDLE_ID_BASE + i, kind |-> hand[t].kind]

\* Both ways of registry_add fill one free slot and publish its token.
LEMMA AddPublishes ==
    ASSUME TypeOK, NEW t \in Threads, AddReuse(t) \/ AddGrow(t)
    PROVE  \E i : Publish(t, i) /\ Filled(t, i)
<1>1. CASE AddReuse(t)
  <2>1. PICK i \in FreeSlots : entries' = [entries EXCEPT ![i] = hand[t]] /\ Publish(t, i)
    BY <1>1 DEF AddReuse
  <2>2. /\ capacity' = capacity /\ capacity \in Nat
        /\ i \in 0 .. (capacity' - 1) /\ i \notin Used
    BY <1>1, <2>1 DEF AddReuse, FreeSlots, Used, TypeOK
  <2>3. Filled(t, i)
    BY <2>1, <2>2 DEF TypeOK, Filled
  <2>4. QED
    BY <2>1, <2>3
<1>2. CASE AddGrow(t)
  <2>1. /\ capacity \in Nat /\ NewCapacity \in Nat /\ capacity < NewCapacity
        /\ capacity' = NewCapacity
        /\ capacity \in 0 .. (capacity' - 1) /\ capacity \notin Used
    BY <1>2, RegistryAssumption DEF AddGrow, TypeOK, NewCapacity, Used
  <2>2. Filled(t, capacity)
    BY <1>2, <2>1 DEF AddGrow, Grow, Filled
  <2>3. QED
    BY <1>2, <2>2 DEF AddGrow
<1>3. QED
  BY <1>1, <1>2

\* What publishing a token does to the slots in use and to the descriptors held.
LEMMA PublishFacts ==
    ASSUME HolderInv, TypeOK', NEW t \in Threads, NEW i,
           pc[t] = "add", Publish(t, i), Filled(t, i)
    PROVE  /\ hand[t] \in Object /\ hand[t].kind \in Kinds
           /\ i \in 0 .. (MAX_CAPACITY - 1)
           /\ Used' = Used \cup {i} /\ entries'[i] = hand[t]
           /\ \A j \in Used : entries'[j] = entries[j] /\ j # i
           /\ NewToken(t, i) \in Handle /\ ~IsHeld(NewToken(t, i))
           /\ \A g \in Handle : IsHeld(g)' <=> g = NewToken(t, i) \/ IsHeld(g)
<1> USE DEF HolderInv
<1>1. /\ hand[t] \in Object /\ hand[t].kind \in Kinds /\ hand[t].kind # "none"
      /\ tok[t] = NoHandle
      /\ tok' = [tok EXCEPT ![t] = NewToken(t, i)]
      /\ UNCHANGED <<owned, loc>>
  BY Distinct DEF TypeOK, HandShape, Publish, pipe, Kinds, NewToken
<1>2. /\ capacity \in Nat /\ capacity' \in Nat /\ capacity <= capacity'
      /\ i \in 0 .. (MAX_CAPACITY - 1) /\ i \in 0 .. (capacity' - 1)
      /\ HANDLE_ID_BASE \in Nat
  <2>1. capacity \in 0 .. MAX_CAPACITY /\ capacity' \in 0 .. MAX_CAPACITY
    BY DEF TypeOK
  <2>2. i \in 0 .. (capacity' - 1) /\ capacity <= capacity'
    BY DEF Filled
  <2>3. MAX_CAPACITY \in Nat /\ HANDLE_ID_BASE \in Nat
    BY RegistryAssumption
  <2>4. capacity \in Nat /\ capacity' \in Nat /\ capacity' <= MAX_CAPACITY
    BY <2>1, <2>3
  <2>5. i \in 0 .. (MAX_CAPACITY - 1)
    BY <2>2, <2>3, <2>4, Widen
  <2>6. QED
    BY <2>2, <2>3, <2>4, <2>5
<1>3. /\ NewToken(t, i) \in Handle
      /\ Slot(NewToken(t, i).fd) = i /\ NewToken(t, i).fd >= HANDLE_ID_BASE
  BY <1>1, <1>2, TokenHandle DEF NewToken, Slot
<1>4. ~IsHeld(NewToken(t, i))
  <2>1. SUFFICES ASSUME IsHeld(NewToken(t, i)) PROVE FALSE
    OBVIOUS
  <2>2. Found(NewToken(t, i))
    BY <1>3, <2>1 DEF OneHolder, HeldFound
  <2>3. QED
    BY <2>2, <1>2, <1>3 DEF Found, Registered, Used, Filled
<1>5. \A g \in Handle : IsHeld(g)' <=> g = NewToken(t, i) \/ IsHeld(g)
  BY <1>1, <1>3, Distinct DEF TypeOK, IsHeld
<1>6. \A j \in Used : j \in 0 .. (capacity' - 1) /\ entries'[j] = entries[j] /\ j # i
  <2> SUFFICES ASSUME NEW j \in Used
               PROVE  j \in 0 .. (capacity' - 1) /\ entries'[j] = entries[j] /\ j # i
    OBVIOUS
  <2>1. j \in 0 .. (capacity - 1) /\ j # i
    BY DEF Used, Filled
  <2>2. j \in 0 .. (capacity' - 1)
    BY <2>1, <1>2, Widen
  <2>3. j < capacity
    BY <2>1, <1>2
  <2>4. QED
    BY <2>1, <2>2, <2>3 DEF Filled
<1>7. ASSUME NEW j \in Used', j # i PROVE j \in Used
  <2>1. j \in 0 .. (capacity' - 1) /\ entries'[j].kind # "none"
    BY DEF Used
  <2>2. entries'[j] = IF j < capacity THEN entries[j] ELSE Empty
    BY <2>1, <1>7 DEF Filled
  <2>3. QED
    BY <2>1, <2>2, <1>2 DEF Used, Empty
<1>8. i \in Used' /\ entries'[i] = hand[t]
  BY <1>1, <1>2 DEF Used, Filled
<1>9. \A j \in Used : j \in Used'
  BY <1>6 DEF Used
<1>10. QED
  BY <1>1, <1>2, <1>3, <1>4, <1>5, <1>6, <1>7, <1>8, <1>9

\* Where registry_add publishes a token.
LEMMA PublishHolder ==
    ASSUME HolderInv, TypeOK', NEW t \in Threads, NEW i,
           pc[t] = "add", Publish(t, i), Filled(t, i)
    PROVE  OneHolder'
<1> DEFINE new == NewToken(t, i)
<1> USE DEF HolderInv
<1>1. /\ hand[t] \in Object /\ hand[t].kind \in Kinds
      /\ i \in 0 .. (MAX_CAPACITY - 1)
      /\ Used' = Used \cup {i} /\ entries'[i] = hand[t]
      /\ \A j \in Used : entries'[j] = entries[j] /\ j # i
      /\ new \in Handle /\ ~IsHeld(new)
      /\ \A g \in Handle : IsHeld(g)' <=> g = new \/ IsHeld(g)
  BY PublishFacts
<1>2. Slot(new.fd) = i /\ new.kind = hand[t].kind
  BY <1>1, RegistryAssumption DEF Slot, NewToken
<1>3. HeldFound'
  <2> SUFFICES ASSUME NEW g \in Handle, IsHeld(g)', g.fd >= HANDLE_ID_BASE
               PROVE  Found(g)'
    BY DEF HeldFound
  <2>1. Slot(g.fd) \in Used' /\ entries'[Slot(g.fd)].kind = g.kind
    <3>1. CASE g = new
      BY <3>1, <1>1, <1>2
    <3>2. CASE g # new
      <4>1. Found(g)
        BY <3>2, <1>1 DEF OneHolder, HeldFound
      <4>2. Slot(g.fd) \in Used /\ entries[Slot(g.fd)].kind = g.kind
        BY <4>1, Distinct, RegistryAssumption DEF TypeOK, Found, Registered, Slot, Used
      <4>3. QED
        BY <4>2, <1>1
    <3>3. QED
      BY <3>1, <3>2
  <2>2. QED
    BY <2>1, RegistryAssumption DEF TypeOK, Found, Registered, Slot, Used
<1>4. UsedHeld'
  <2> SUFFICES ASSUME NEW j \in Used'
               PROVE  IsHeld([fd |-> HANDLE_ID_BASE + j, kind |-> entries[j].kind])'
    BY DEF UsedHeld
  <2>1. CASE j = i
    BY <2>1, <1>1 DEF NewToken
  <2>2. CASE j # i
    <3>1. j \in Used /\ entries'[j] = entries[j]
      BY <2>2, <1>1
    <3>2. IsHeld([fd |-> HANDLE_ID_BASE + j, kind |-> entries[j].kind])
      BY <3>1 DEF OneHolder, UsedHeld
    <3>3. [fd |-> HANDLE_ID_BASE + j, kind |-> entries[j].kind] \in Handle
      BY <3>1, UsedObject, TokenHandle
    <3>4. QED
      BY <3>1, <3>2, <3>3, <1>1
  <2>3. QED
    BY <2>1, <2>2
<1>5. TokAlone' /\ LocAlone'
  <2>1. /\ tok' = [tok EXCEPT ![t] = new] /\ UNCHANGED <<owned, loc>>
        /\ tok[t] = NoHandle
    BY DEF Publish, pipe, NewToken, HandShape
  <2>2. new \notin owned /\ \A u \in Threads : tok[u] # new /\ \A x \in Locals : loc[u][x] # new
    BY <1>1 DEF IsHeld
  <2>3. new # NoHandle
    BY <1>1, Distinct
  <2> HIDE DEF new
  <2>4. QED
    BY <2>1, <2>2, <2>3 DEF TypeOK, OneHolder, TokAlone, LocAlone
<1>6. QED
  BY <1>3, <1>4, <1>5 DEF OneHolder

\* registry_add finds a free slot.
LEMMA AddReuseStep ==
    ASSUME HolderInv, NEW t \in Threads, AddReuse(t)
    PROVE  HolderInv'
<1> USE DEF AddReuse, Publish, Return, table, pipe, HolderInv
<1>1. TypeOK'
  <2>1. PICK i \in FreeSlots : entries' = [entries EXCEPT ![i] = hand[t]] /\ Publish(t, i)
    BY DEF AddReuse
  <2>2. /\ i \in 0 .. (capacity - 1) /\ i \in 0 .. (MAX_CAPACITY - 1)
        /\ hand[t] \in Object /\ hand[t].kind \in Kinds
    BY Distinct, RegistryAssumption DEF TypeOK, FreeSlots, HandShape
  <2>3. [fd |-> HANDLE_ID_BASE + i, kind |-> hand[t].kind] \in Handle
    BY <2>2, TokenHandle
  <2>4. entries' \in [0 .. (capacity' - 1) -> Object \cup {Empty}]
    BY <2>1, <2>2 DEF TypeOK
  <2>5. tok' \in [Threads -> Handle \cup {NoHandle}]
    BY <2>1, <2>3 DEF Publish, TypeOK
  <2>6. QED
    BY <2>4, <2>5 DEF TypeOK, Publish
<1>2. HandShape'
  BY Distinct DEF TypeOK, HandShape
<1>3. AskShape'
  BY DEF TypeOK, AskShape
<1>4. PipeShape'
  <2>1. hand[t].kind # "none"
    BY Distinct DEF TypeOK, HandShape, Kinds
  <2>2. tok'[t].kind = hand[t].kind
    BY DEF TypeOK
  <2>3. tok'[t] # NoHandle
    BY <2>1, <2>2 DEF NoHandle
  <2>4. /\ pc'[t] = "ret" /\ ok'[t] = TRUE
        /\ stage[t] \in {"none", "listener", "writer", "reader"}
    BY DEF TypeOK, PipeShape, PipeAt, Stages
  <2>5. ASSUME NEW u \in Threads, u # t
        PROVE  pc'[u] = pc[u] /\ ok'[u] = ok[u] /\ tok'[u] = tok[u]
    BY <2>5 DEF TypeOK
  <2>6. QED
    BY <2>3, <2>4, <2>5 DEF PipeShape, PipeAt, HasLocals, Locals
<1>5. OneHolder'
  <2> HIDE DEF AddReuse, Publish
  <2>1. PICK i : Publish(t, i) /\ Filled(t, i)
    BY AddPublishes
  <2>2. QED
    BY <1>1, <2>1, PublishHolder DEF AddReuse
<1>6. QED
  BY <1>1, <1>2, <1>3, <1>4, <1>5

\* registry_add grows the table.
LEMMA AddGrowStep ==
    ASSUME HolderInv, NEW t \in Threads, AddGrow(t)
    PROVE  HolderInv'
<1> USE DEF AddGrow, Publish, Return, table, pipe, HolderInv
<1>1. TypeOK'
  <2>1. /\ capacity \in Nat /\ NewCapacity \in Nat /\ capacity < NewCapacity
        /\ capacity \in 0 .. (MAX_CAPACITY - 1)
    BY RegistryAssumption DEF TypeOK, NewCapacity
  <2>2. hand[t] \in Object /\ hand[t].kind \in Kinds
    BY Distinct DEF TypeOK, HandShape
  <2>3. [fd |-> HANDLE_ID_BASE + capacity, kind |-> hand[t].kind] \in Handle
    BY <2>1, <2>2, TokenHandle
  <2>4. entries' \in [0 .. (capacity' - 1) -> Object \cup {Empty}]
    BY <2>1, <2>2 DEF TypeOK, Grow
  <2>5. tok' \in [Threads -> Handle \cup {NoHandle}]
    BY <2>3 DEF TypeOK
  <2>6. capacity' \in 0 .. MAX_CAPACITY
    BY <2>1, RegistryAssumption
  <2>7. QED
    BY <2>4, <2>5, <2>6 DEF TypeOK
<1>2. HandShape'
  BY Distinct DEF TypeOK, HandShape
<1>3. AskShape'
  BY DEF TypeOK, AskShape
<1>4. PipeShape'
  <2>1. hand[t].kind # "none"
    BY Distinct DEF TypeOK, HandShape, Kinds
  <2>2. tok'[t].kind = hand[t].kind
    BY DEF TypeOK
  <2>3. tok'[t] # NoHandle
    BY <2>1, <2>2 DEF NoHandle
  <2>4. /\ pc'[t] = "ret" /\ ok'[t] = TRUE
        /\ stage[t] \in {"none", "listener", "writer", "reader"}
    BY DEF TypeOK, PipeShape, PipeAt, Stages
  <2>5. ASSUME NEW u \in Threads, u # t
        PROVE  pc'[u] = pc[u] /\ ok'[u] = ok[u] /\ tok'[u] = tok[u]
    BY <2>5 DEF TypeOK
  <2>6. QED
    BY <2>3, <2>4, <2>5 DEF PipeShape, PipeAt, HasLocals, Locals
<1>5. OneHolder'
  <2> HIDE DEF AddGrow, Publish
  <2>1. PICK i : Publish(t, i) /\ Filled(t, i)
    BY AddPublishes
  <2>2. QED
    BY <1>1, <2>1, PublishHolder DEF AddGrow
<1>6. QED
  BY <1>1, <1>2, <1>3, <1>4, <1>5

\* A raw descriptor is a socket of the same value, and two descriptors with the same
\* number and kind are one.
LEMMA RawTok ==
    ASSUME NEW h \in Handle, h.fd < HANDLE_ID_BASE
    PROVE  /\ h.fd \in RawFds /\ h.kind = "socket"
           /\ [kind |-> "socket", value |-> h.fd] \in Object
<1>1. \A n \in Tokens : n \in Nat /\ n >= HANDLE_ID_BASE
  BY RegistryAssumption DEF Tokens
<1>2. h.fd \notin Tokens
  BY <1>1, RegistryAssumption
<1>3. h \in [fd : RawFds, kind : {"socket"}]
  BY <1>2 DEF Handle
<1>4. QED
  BY <1>3 DEF RawFds, Object

\* A descriptor is its number and its kind.
LEMMA SameHandle ==
    ASSUME NEW g \in Handle, NEW h \in Handle, g.fd = h.fd, g.kind = h.kind
    PROVE  g = h
BY DEF Handle

\* What registry_take does to the slots in use and to the descriptors held.
LEMMA TakeFacts ==
    ASSUME HolderInv, NEW t \in Threads, Take(t)
    PROVE  /\ tok[t] \in Handle /\ IsHeld(tok[t]) /\ UNCHANGED capacity
           /\ \A g \in Handle : IsHeld(g)' <=> g # tok[t] /\ IsHeld(g)
           /\ tok[t].fd < HANDLE_ID_BASE =>
                 /\ UNCHANGED entries /\ Used' = Used
                 /\ hand'[t] = RawObject(tok[t].fd)
           /\ tok[t].fd >= HANDLE_ID_BASE =>
                 /\ Slot(tok[t].fd) \in Used
                 /\ tok[t].fd = HANDLE_ID_BASE + Slot(tok[t].fd)
                 /\ entries[Slot(tok[t].fd)].kind = tok[t].kind
                 /\ Used' = Used \ {Slot(tok[t].fd)}
                 /\ \A j \in Used' : entries'[j] = entries[j]
                 /\ hand'[t] = entries[Slot(tok[t].fd)]
<1> DEFINE h == tok[t]
<1> DEFINE s == Slot(h.fd)
<1> USE DEF Take, table, pipe, HolderInv
<1>1. /\ h \in Handle /\ h # NoHandle /\ IsHeld(h) /\ h.fd \in Nat
      /\ h \notin owned
      /\ \A u \in Threads : tok[u] = h => u = t
      /\ \A u \in Threads, x \in Locals : loc[u][x] # h
  <2>1. tok[t] \in Handle /\ tok[t] # NoHandle /\ tok[t].fd \in Nat
    BY Distinct DEF TypeOK, HandShape
  <2>2. IsHeld(tok[t])
    BY DEF IsHeld
  <2>3. QED
    BY <2>1, <2>2 DEF OneHolder, TokAlone
<1>2. /\ tok' = [tok EXCEPT ![t] = NoHandle]
      /\ UNCHANGED <<capacity, owned, loc>>
  OBVIOUS
<1>3. \A g \in Handle : IsHeld(g)' <=> g # h /\ IsHeld(g)
  <2> HIDE DEF h
  <2>1. tok[t] = h
    BY DEF h
  <2>2. QED
    BY <1>1, <1>2, <2>1, Distinct DEF TypeOK, IsHeld
<1>4. CASE h.fd < HANDLE_ID_BASE
  <2>1. ~Registered(h.fd)
    BY <1>1, <1>4, RegistryAssumption DEF Registered
  <2>2. UNCHANGED <<capacity, entries>>
    BY <2>1
  <2>3. Used' = Used
    BY <2>2 DEF Used
  <2>4. hand'[t] = RawObject(h.fd)
    BY <2>1 DEF TypeOK, RawObject
  <2>5. QED
    BY <1>1, <1>2, <1>3, <1>4, <2>2, <2>3, <2>4, RegistryAssumption
<1>5. CASE h.fd >= HANDLE_ID_BASE
  <2>1. Found(h) /\ Registered(h.fd)
    BY <1>1, <1>5 DEF OneHolder, HeldFound, Found
  <2>2. /\ s \in Used /\ s \in 0 .. (capacity - 1) /\ h.fd = HANDLE_ID_BASE + s
        /\ entries[s].kind = h.kind
    BY <2>1, <1>1, <1>5, RegistryAssumption DEF TypeOK, Found, Registered, Slot, Used
  <2>3. entries' = [entries EXCEPT ![s] = Empty] /\ hand'[t] = entries[s]
    BY <2>1 DEF TypeOK
  <2>4. Used' = Used \ {s} /\ \A i \in Used' : entries'[i] = entries[i]
    <3> HIDE DEF s
    <3>1. QED
      BY <1>2, <2>2, <2>3 DEF TypeOK, Used, Empty
  <2>5. QED
    BY <1>1, <1>2, <1>3, <1>5, <2>2, <2>3, <2>4, RegistryAssumption
<1>6. QED
  BY <1>1, <1>4, <1>5, RegistryAssumption

\* registry_take.
LEMMA TakeStep ==
    ASSUME HolderInv, NEW t \in Threads, Take(t)
    PROVE  HolderInv'
<1> USE DEF Take, table, pipe, HolderInv
<1>1. TypeOK'
  <2>1. tok[t] \in Handle /\ IsHeld(tok[t])
    BY DEF TypeOK, HandShape, IsHeld
  <2>2. CASE Registered(tok[t].fd)
    <3>1. Slot(tok[t].fd) \in 0 .. (capacity - 1)
      BY <2>1, <2>2, Distinct, RegistryAssumption DEF Registered, Slot, TypeOK
    <3>2. entries' \in [0 .. (capacity - 1) -> Object \cup {Empty}]
      BY <2>2, <3>1 DEF TypeOK
    <3>3. hand' \in [Threads -> Object \cup {Empty}]
      BY <2>2, <3>1 DEF TypeOK
    <3>4. QED
      BY <3>2, <3>3 DEF TypeOK
  <2>3. CASE ~Registered(tok[t].fd)
    <3>1. tok[t].fd < HANDLE_ID_BASE
      BY <2>1, <2>3, Distinct, RegistryAssumption DEF OneHolder, HeldFound, Found
    <3>2. [kind |-> "socket", value |-> tok[t].fd] \in Object
      BY <2>1, <3>1, RawTok
    <3>3. hand' \in [Threads -> Object \cup {Empty}]
      BY <2>3, <3>2 DEF TypeOK
    <3>4. QED
      BY <2>3, <3>3 DEF TypeOK
  <2>4. QED
    BY <2>2, <2>3
<1>2. HandShape'
  <2>1. hand'[t] # Empty
    <3>1. tok[t] \in Handle
      BY DEF TypeOK, HandShape
    <3>2. CASE Registered(tok[t].fd)
      BY <3>2 DEF TypeOK, Registered, Empty
    <3>3. CASE ~Registered(tok[t].fd)
      BY <3>3 DEF TypeOK, Empty
    <3>4. QED
      BY <3>2, <3>3
  <2>2. QED
    BY <2>1 DEF TypeOK, HandShape
<1>3. AskShape'
  BY DEF TypeOK, AskShape
<1>4. PipeShape'
  BY DEF TypeOK, PipeShape, PipeAt, HandShape, HasLocals, Locals
<1>5. OneHolder'
  <2> DEFINE h == tok[t]
  <2>1. /\ h \in Handle /\ h.fd \in Nat
        /\ \A g \in Handle : IsHeld(g)' <=> g # h /\ IsHeld(g)
    BY TakeFacts, Distinct
  <2>2. /\ \A i \in Used' : i \in Used /\ entries'[i] = entries[i]
        /\ \A i \in Used' : h.fd # HANDLE_ID_BASE + i
        /\ \A i \in Used : h.fd # HANDLE_ID_BASE + i => i \in Used'
    <3>1. \A i \in Used : i \in Int /\ i >= 0
      BY UsedObject, RegistryAssumption
    <3>2. CASE h.fd < HANDLE_ID_BASE
      <4>1. Used' = Used /\ entries' = entries
        BY <3>2, TakeFacts
      <4>2. \A i \in Used : h.fd # HANDLE_ID_BASE + i
        BY <2>1, <3>1, <3>2, RegistryAssumption
      <4>3. QED
        BY <4>1, <4>2
    <3>3. CASE h.fd >= HANDLE_ID_BASE
      <4> DEFINE s == Slot(h.fd)
      <4>1. /\ s \in Used /\ h.fd = HANDLE_ID_BASE + s
            /\ Used' = Used \ {s} /\ \A j \in Used' : entries'[j] = entries[j]
        BY <3>3, TakeFacts
      <4> HIDE DEF s
      <4>2. \A i \in Used : HANDLE_ID_BASE + i = HANDLE_ID_BASE + s <=> i = s
        BY <3>1, <4>1, RegistryAssumption
      <4>3. QED
        BY <4>1, <4>2
    <3>4. QED
      BY <2>1, <3>2, <3>3, RegistryAssumption
  <2>3. HeldFound'
    <3> SUFFICES ASSUME NEW g \in Handle, IsHeld(g)', g.fd >= HANDLE_ID_BASE
                 PROVE  Found(g)'
      BY DEF HeldFound
    <3>1. g # h /\ Found(g) /\ g.fd \in Nat
      BY <2>1, Distinct DEF OneHolder, HeldFound
    <3>2. Slot(g.fd) \in Used /\ g.fd = HANDLE_ID_BASE + Slot(g.fd)
      BY <3>1, RegistryAssumption DEF TypeOK, Found, Registered, Slot, Used
    <3>3. g.fd # h.fd
      <4>1. SUFFICES ASSUME g.fd = h.fd PROVE g = h
        BY <3>1
      <4>2. Found(h)
        BY <4>1, <2>1, TakeFacts DEF OneHolder, HeldFound
      <4>3. g.kind = h.kind
        BY <3>1, <4>1, <4>2 DEF Found
      <4>4. QED
        BY <4>1, <4>3, <2>1, SameHandle
    <3>4. Slot(g.fd) \in Used' /\ entries'[Slot(g.fd)] = entries[Slot(g.fd)]
      BY <2>2, <3>2, <3>3
    <3>5. QED
      BY <3>1, <3>4, RegistryAssumption DEF Found, Registered, Slot, Used
  <2>4. UsedHeld'
    <3> SUFFICES ASSUME NEW i \in Used'
                 PROVE  IsHeld([fd |-> HANDLE_ID_BASE + i, kind |-> entries[i].kind])'
      BY DEF UsedHeld
    <3>1. i \in Used /\ entries'[i] = entries[i] /\ h.fd # HANDLE_ID_BASE + i
      BY <2>2
    <3>2. [fd |-> HANDLE_ID_BASE + i, kind |-> entries[i].kind] \in Handle
      BY <3>1, UsedObject, TokenHandle
    <3>3. IsHeld([fd |-> HANDLE_ID_BASE + i, kind |-> entries[i].kind])
      BY <3>1 DEF OneHolder, UsedHeld
    <3>4. h # [fd |-> HANDLE_ID_BASE + i, kind |-> entries[i].kind]
      BY <3>1
    <3>5. QED
      BY <2>1, <3>1, <3>2, <3>3, <3>4
  <2>5. TokAlone' /\ LocAlone'
    BY DEF TypeOK, OneHolder, TokAlone, LocAlone
  <2>6. QED
    BY <2>3, <2>4, <2>5 DEF OneHolder
<1>6. QED
  BY <1>1, <1>2, <1>3, <1>4, <1>5

\* A call of the pipe returns.
LEMMA PipeReturnStep ==
    ASSUME HolderInv, NEW t \in Threads, PipeReturn(t)
    PROVE  HolderInv' /\ SameHeld
<1> USE DEF PipeReturn, Leave, table, pipe, HolderInv
<1>1. TypeOK'
  <2>1. stage[t] \in {"listener", "bind", "listen", "getsockname", "writer", "connect",
                      "reader", "close", "failed"}
    BY DEF TypeOK, Stages, PipeShape, PipeAt
  <2>2. stage' \in [Threads -> Stages]
    BY <2>1 DEF TypeOK, Stages, PipeNext
  <2>3. tok[t] \in Handle \cup {NoHandle} /\ loc[t] \in [Locals -> Handle \cup {NoHandle}]
    BY DEF TypeOK
  <2>4. [x \in Locals |-> IF x = stage[t] /\ tok[t] # NoHandle THEN tok[t] ELSE loc[t][x]]
            \in [Locals -> Handle \cup {NoHandle}]
    BY <2>3
  <2>5. loc' \in [Threads -> [Locals -> Handle \cup {NoHandle}]]
    BY <2>4 DEF TypeOK
  <2>6. QED
    BY <2>2, <2>5 DEF TypeOK
<1>2. HandShape'
  BY Distinct DEF TypeOK, HandShape
<1>3. AskShape'
  BY DEF TypeOK, AskShape
<1>4. PipeShape'
  <2>1. ASSUME NEW u \in Threads, u # t
        PROVE  /\ pc'[u] = pc[u] /\ op'[u] = op[u] /\ ok'[u] = ok[u] /\ tok'[u] = tok[u]
               /\ stage'[u] = stage[u] /\ loc'[u] = loc[u]
    BY <2>1 DEF TypeOK
  <2>2. /\ pc'[t] = "pipe" /\ tok'[t] = NoHandle
        /\ stage'[t] = IF stage[t] = "close" THEN "done"
                       ELSE IF stage[t] = "failed" \/ ~ok[t] THEN "failed"
                       ELSE PipeNext[stage[t]]
        /\ \A x \in Locals : loc'[t][x] = IF x = stage[t] /\ tok[t] # NoHandle
                                          THEN tok[t] ELSE loc[t][x]
    BY DEF TypeOK
  <2>3. stage[t] \in {"listener", "bind", "listen", "getsockname", "writer", "connect",
                      "reader", "close", "failed"}
    BY DEF TypeOK, Stages, PipeShape, PipeAt
  <2>4. PipeAt(t)'
    <3>1. CASE stage'[t] = "failed"
      BY <3>1, <2>2 DEF PipeAt, Locals
    <3>2. CASE stage[t] = "close"
      BY <3>2, <2>2 DEF PipeShape, PipeAt, HasLocals, Locals
    <3>3. CASE stage[t] \in Locals /\ ok[t]
      <4>1. tok[t] # NoHandle
        BY <3>3 DEF PipeShape, PipeAt
      <4>2. QED
        BY <3>3, <4>1, <2>2 DEF PipeShape, PipeAt, HasLocals, Locals, PipeNext
    <3>4. CASE stage[t] \in {"bind", "listen", "getsockname", "connect"} /\ ok[t]
      BY <3>4, <2>2 DEF PipeShape, PipeAt, HasLocals, Locals, PipeNext
    <3>5. QED
      BY <3>1, <3>2, <3>3, <3>4, <2>2, <2>3 DEF Locals
  <2>5. QED
    BY <2>1, <2>4 DEF PipeShape, PipeAt, HasLocals
<1>5. SameHeld
  <2>1. ASSUME NEW u \in Threads, u # t
        PROVE  tok'[u] = tok[u] /\ loc'[u] = loc[u]
    BY <2>1 DEF TypeOK
  <2>2. /\ tok'[t] = NoHandle
        /\ \A x \in Locals : loc'[t][x] = IF x = stage[t] /\ tok[t] # NoHandle
                                          THEN tok[t] ELSE loc[t][x]
    BY DEF TypeOK
  <2>3. tok[t] # NoHandle => stage[t] \in Locals /\ loc[t][stage[t]] = NoHandle
    BY DEF PipeShape, PipeAt, HasLocals, Locals
  <2>4. ASSUME NEW h \in Handle PROVE IsHeld(h)' <=> IsHeld(h)
    <3>1. h # NoHandle /\ owned' = owned
      BY Distinct
    <3>2. ASSUME IsHeld(h) PROVE IsHeld(h)'
      BY <3>1, <3>2, <2>1, <2>2, <2>3 DEF IsHeld
    <3>3. ASSUME IsHeld(h)' PROVE IsHeld(h)
      BY <3>1, <3>3, <2>1, <2>2, <2>3 DEF IsHeld
    <3>4. QED
      BY <3>2, <3>3
  <2>5. QED
    BY <2>4 DEF SameHeld
<1>6. OneHolder'
  <2>1. HeldFound' /\ UsedHeld'
    BY <1>5, HolderMove
  <2>2. TokAlone' /\ LocAlone'
    BY Distinct DEF TypeOK, OneHolder, TokAlone, LocAlone, PipeShape, PipeAt, HasLocals
  <2>3. QED
    BY <2>1, <2>2 DEF OneHolder
<1>7. QED
  BY <1>1, <1>2, <1>3, <1>4, <1>5, <1>6

\* The pipe uses one of its locals.
LEMMA PipeCallStep ==
    ASSUME HolderInv, NEW t \in Threads, PipeCall(t)
    PROVE  HolderInv' /\ SameHeld
<1> USE DEF PipeCall, Enter, table, pipe, HolderInv
<1>1. TypeOK'
  <2> DEFINE h == loc[t][IF stage[t] = "connect" THEN "writer" ELSE "listener"]
  <2>1. h \in Handle
    <3>1. loc[t] \in [Locals -> Handle \cup {NoHandle}]
      BY DEF TypeOK
    <3>2. h # NoHandle
      BY DEF PipeShape, PipeAt, HasLocals, Locals
    <3>3. QED
      BY <3>1, <3>2 DEF Locals
  <2>2. ask' = [ask EXCEPT ![t] = {h}]
    OBVIOUS
  <2>3. ask' \in [Threads -> SUBSET Handle]
    BY <2>1, <2>2 DEF TypeOK
  <2>4. QED
    BY <2>3 DEF TypeOK
<1>2. HandShape'
  BY Distinct DEF TypeOK, HandShape
<1>3. AskShape'
  <2> DEFINE x == IF stage[t] = "connect" THEN "writer" ELSE "listener"
  <2>1. x \in Locals /\ ask' = [ask EXCEPT ![t] = {loc[t][x]}]
    BY DEF Locals
  <2>2. got[t] = {}
    BY DEF AskShape
  <2>3. QED
    BY <2>1, <2>2 DEF TypeOK, AskShape
<1>4. PipeShape'
  BY DEF TypeOK, PipeShape, PipeAt, HandShape, HasLocals, Locals
<1>5. OneHolder' /\ SameHeld
  BY HolderFrame
<1>6. QED
  BY <1>1, <1>2, <1>3, <1>4, <1>5

\* The pipe closes a local.
LEMMA CloseLocalStep ==
    ASSUME HolderInv, NEW t \in Threads, NEW x \in Locals, pc[t] = "pipe",
           stage[t] = "failed" \/ (stage[t] = "close" /\ x = "listener"), CloseLocal(t, x)
    PROVE  HolderInv' /\ SameHeld
<1> USE DEF CloseLocal, Enter, table, pipe, HolderInv
<1>1. TypeOK'
  BY Distinct DEF TypeOK
<1>2. HandShape'
  BY Distinct DEF TypeOK, HandShape
<1>3. AskShape'
  BY DEF TypeOK, AskShape
<1>4. PipeShape'
  BY DEF TypeOK, PipeShape, PipeAt, HandShape, HasLocals, Locals
<1>5. SameHeld
  <2>1. /\ tok[t] = NoHandle /\ tok'[t] = loc[t][x]
        /\ loc'[t][x] = NoHandle
        /\ \A y \in Locals : y # x => loc'[t][y] = loc[t][y]
    BY DEF TypeOK, HandShape
  <2>2. ASSUME NEW u \in Threads, u # t
        PROVE  tok'[u] = tok[u] /\ loc'[u] = loc[u]
    BY <2>2 DEF TypeOK
  <2>3. ASSUME NEW h \in Handle PROVE IsHeld(h)' <=> IsHeld(h)
    <3>1. h # NoHandle /\ owned' = owned
      BY Distinct
    <3>2. ASSUME IsHeld(h) PROVE IsHeld(h)'
      BY <3>1, <3>2, <2>1, <2>2 DEF IsHeld
    <3>3. ASSUME IsHeld(h)' PROVE IsHeld(h)
      BY <3>1, <3>3, <2>1, <2>2 DEF IsHeld
    <3>4. QED
      BY <3>2, <3>3
  <2>4. QED
    BY <2>3 DEF SameHeld
<1>6. OneHolder'
  <2>1. HeldFound' /\ UsedHeld'
    BY <1>5, HolderMove
  <2>2. TokAlone' /\ LocAlone'
    BY Distinct DEF TypeOK, OneHolder, TokAlone, LocAlone, HandShape
  <2>3. QED
    BY <2>1, <2>2 DEF OneHolder
<1>7. QED
  BY <1>1, <1>2, <1>3, <1>4, <1>5, <1>6

\* skynetjit_pipe returns.
LEMMA PipeEndStep ==
    ASSUME HolderInv, NEW t \in Threads, PipeEnd(t)
    PROVE  HolderInv' /\ SameHeld
<1> USE DEF PipeEnd, Leave, table, pipe, HolderInv
<1>1. TypeOK'
  <2>1. loc[t] \in [Locals -> Handle \cup {NoHandle}]
    BY DEF TypeOK
  <2>2. owned' \subseteq Handle
    BY <2>1 DEF TypeOK, PipeShape, PipeAt, HasLocals, Locals
  <2>3. loc' \in [Threads -> [Locals -> Handle \cup {NoHandle}]]
    BY DEF TypeOK
  <2>4. QED
    BY <2>2, <2>3 DEF TypeOK, Stages
<1>2. HandShape'
  BY Distinct DEF TypeOK, HandShape
<1>3. AskShape'
  BY DEF TypeOK, AskShape
<1>4. PipeShape'
  BY DEF TypeOK, PipeShape, PipeAt, HandShape, HasLocals, Locals
<1>5. SameHeld
  <2>1. SUFFICES ASSUME NEW h \in Handle PROVE IsHeld(h)' <=> IsHeld(h)
    BY DEF SameHeld
  <2>2. QED
    BY Distinct DEF TypeOK, IsHeld, PipeShape, PipeAt, HasLocals, Locals
<1>6. OneHolder'
  <2>1. HeldFound' /\ UsedHeld'
    BY <1>5, HolderMove
  <2>2. TokAlone' /\ LocAlone'
    BY Distinct DEF TypeOK, OneHolder, TokAlone, LocAlone, PipeShape, PipeAt, HasLocals, Locals
  <2>3. QED
    BY <2>1, <2>2 DEF OneHolder
<1>7. QED
  BY <1>1, <1>2, <1>3, <1>4, <1>5, <1>6

-----------------------------------------------------------------------------
(* The actions together *)

\* A call the application starts moves descriptors at most from holder to holder.
LEMMA StartStep ==
    ASSUME HolderInv, NEW t \in Threads, Start(t)
    PROVE  HolderInv' /\ SameHeld /\ UNCHANGED <<capacity, entries, open, hand, got>>
<1>0. {} \in SUBSET owned
  OBVIOUS
<1>1. CASE \E f \in {"socket", "epoll_create"} : StartCreate(t, f)
  <2>1. PICK f \in {"socket", "epoll_create"} : AppCall(t, f, "new", {})
    BY <1>1 DEF StartCreate
  <2>2. HolderInv' /\ SameHeld
    BY <1>0, <2>1, AppCallStep
  <2>3. QED
    BY <2>1, <2>2 DEF AppCall, table
<1>2. CASE \/ \E f \in {"call", "accept"} : StartSocketCall(t, f)
           \/ StartReadWrite(t) \/ StartEpollCtl(t) \/ StartEpollWait(t) \/ StartSelect(t)
  <2>1. PICK f \in {"call", "accept"}, at \in {"lookup", "check"}, H \in SUBSET owned :
            AppCall(t, f, at, H)
    BY <1>2 DEF StartSocketCall, StartReadWrite, StartEpollCtl, StartEpollWait, StartSelect
  <2>2. HolderInv' /\ SameHeld
    BY <2>1, AppCallStep
  <2>3. QED
    BY <2>1, <2>2 DEF AppCall, table
<1>3. CASE StartClose(t)
  <2>1. HolderInv' /\ SameHeld
    BY <1>3, StartCloseStep
  <2>2. QED
    BY <1>3, <2>1 DEF StartClose, table
<1>4. CASE StartPipe(t)
  <2>1. HolderInv' /\ SameHeld
    BY <1>4, StartPipeStep
  <2>2. QED
    BY <1>4, <2>1 DEF StartPipe, table
<1>5. QED
  BY <1>1, <1>2, <1>3, <1>4 DEF Start

\* The steps of a call that touch neither the table nor a native object.
Quiet(t) ==
    \/ AppReturn(t) \/ AddFail(t) \/ Check(t) \/ Lookup(t)
    \/ PipeReturn(t) \/ PipeSocket(t) \/ PipeCall(t)
    \/ PipeCloseListener(t) \/ PipeCleanup(t) \/ PipeEnd(t)

\* They keep the invariant, every descriptor's holders and all native objects.
LEMMA QuietStep ==
    ASSUME HolderInv, NEW t \in Threads, Quiet(t)
    PROVE  HolderInv' /\ SameHeld /\ UNCHANGED <<capacity, entries, open, hand>>
<1>1. CASE AppReturn(t)
  BY <1>1, AppReturnStep DEF AppReturn, table
<1>2. CASE AddFail(t)
  BY <1>2, AddFailStep DEF AddFail, table
<1>3. CASE Check(t)
  BY <1>3, CheckStep DEF Check, table
<1>4. CASE Lookup(t)
  BY <1>4, LookupStep DEF Lookup, table
<1>5. CASE PipeReturn(t)
  BY <1>5, PipeReturnStep DEF PipeReturn, table
<1>6. CASE PipeSocket(t)
  BY <1>6, PipeSocketStep DEF PipeSocket, table
<1>7. CASE PipeCall(t)
  BY <1>7, PipeCallStep DEF PipeCall, table
<1>8. CASE PipeCloseListener(t) \/ PipeCleanup(t)
  <2>1. PICK x \in Locals : /\ pc[t] = "pipe"
                            /\ stage[t] = "failed" \/ (stage[t] = "close" /\ x = "listener")
                            /\ CloseLocal(t, x)
    BY <1>8 DEF PipeCloseListener, PipeCleanup, Locals
  <2>2. HolderInv' /\ SameHeld
    BY <2>1, CloseLocalStep
  <2>3. QED
    BY <2>1, <2>2 DEF CloseLocal, table
<1>9. CASE PipeEnd(t)
  BY <1>9, PipeEndStep DEF PipeEnd, table
<1>10. QED
  BY <1>1, <1>2, <1>3, <1>4, <1>5, <1>6, <1>7, <1>8, <1>9 DEF Quiet

\* The raw sockets held are open.
RawOpen == \A v \in RawHeld : RawObject(v) \in open

\* A raw socket that is opened was not held before.
LEMMA OpenRawFacts ==
    ASSUME HolderInv, RawOpen, NEW v \in RawFds, RawObject(v) \notin open,
           owned' = owned \cup {RawHandle(v)}, UNCHANGED <<tok, loc>>
    PROVE  /\ RawHandle(v) \in Handle /\ RawHandle(v).fd < HANDLE_ID_BASE
           /\ ~IsHeld(RawHandle(v))
           /\ \A g \in Handle : IsHeld(g)' <=> g = RawHandle(v) \/ IsHeld(g)
<1>1. RawHandle(v) \in Handle /\ RawHandle(v).fd < HANDLE_ID_BASE
  BY DEF RawHandle, Handle, RawFds
<1>2. ~IsHeld(RawHandle(v))
  BY DEF RawOpen, RawHeld
<1>3. \A g \in Handle : IsHeld(g)' <=> g = RawHandle(v) \/ IsHeld(g)
  BY DEF IsHeld
<1>4. QED
  BY <1>1, <1>2, <1>3

\* A raw socket comes from outside.
LEMMA OpenRawStep ==
    ASSUME HolderInv, RawOpen, OpenRaw
    PROVE  HolderInv'
<1> USE DEF HolderInv
<1>1. PICK v \in RawFds : /\ RawObject(v) \notin open
                          /\ open' = open \cup {RawObject(v)}
                          /\ owned' = owned \cup {RawHandle(v)}
                          /\ UNCHANGED <<wsa, capacity, entries, pc, op, ask, got, hand,
                                         tok, ok, stage, loc>>
  BY DEF OpenRaw, RawObject, RawHandle, table, pipe
<1>2. /\ RawHandle(v) \in Handle /\ RawHandle(v).fd < HANDLE_ID_BASE
      /\ ~IsHeld(RawHandle(v))
      /\ \A g \in Handle : IsHeld(g)' <=> g = RawHandle(v) \/ IsHeld(g)
  BY <1>1, OpenRawFacts
<1>3. RawObject(v) \in Object
  BY DEF RawObject, Object, RawFds
<1>4. TypeOK'
  BY <1>1, <1>2, <1>3 DEF TypeOK
<1>5. HandShape' /\ AskShape' /\ PipeShape'
  BY <1>1 DEF HandShape, AskShape, PipeShape, PipeAt, HasLocals
<1>6. HeldFound'
  <2> SUFFICES ASSUME NEW g \in Handle, IsHeld(g)', g.fd >= HANDLE_ID_BASE
               PROVE  Found(g)'
    BY DEF HeldFound
  <2>1. IsHeld(g)
    <3>1. CASE g = RawHandle(v)
      BY <3>1, <1>2, Distinct, RegistryAssumption
    <3>2. QED
      BY <3>1, <1>2
  <2>2. QED
    BY <2>1, <1>1 DEF OneHolder, HeldFound, Found, Registered
<1>7. UsedHeld'
  <2>1. \A g : IsHeld(g) => IsHeld(g)'
    BY <1>1 DEF IsHeld
  <2>2. Used' = Used /\ entries' = entries
    BY <1>1 DEF Used
  <2>3. QED
    BY <2>1, <2>2 DEF OneHolder, UsedHeld
<1>8. TokAlone' /\ LocAlone'
  BY <1>1, <1>2 DEF OneHolder, TokAlone, LocAlone, IsHeld
<1>9. QED
  BY <1>4, <1>5, <1>6, <1>7, <1>8 DEF OneHolder

\* Every step keeps the types, the shapes and the holders.
LEMMA HolderStep ==
    ASSUME HolderInv, RawOpen, [Next]_vars
    PROVE  HolderInv'
<1>1. CASE OpenRaw
  BY <1>1, OpenRawStep
<1>2. ASSUME NEW t \in Threads, Start(t) PROVE HolderInv'
  BY <1>2, StartStep
<1>3. ASSUME NEW t \in Threads, Step(t) PROVE HolderInv'
  BY <1>3, QuietStep, NativeCreateStep, AddReuseStep, AddGrowStep, UndoStep,
     NativeCallStep, TakeStep, ReleaseStep DEF Step, Quiet
<1>4. CASE UNCHANGED vars
  <2>1. TypeOK' /\ HandShape' /\ AskShape' /\ PipeShape'
    BY <1>4 DEF HolderInv, vars, TypeOK, HandShape, AskShape, PipeShape, PipeAt, HasLocals
  <2>2. OneHolder'
    BY <1>4, HolderFrame DEF HolderInv, vars
  <2>3. QED
    BY <2>1, <2>2 DEF HolderInv
<1>5. QED
  BY <1>1, <1>2, <1>3, <1>4 DEF Next

-----------------------------------------------------------------------------
(* The inductive invariant of the whole. *)

\* The inductive invariant.
IInv ==
    /\ HolderInv
    /\ NoSharedObject
    /\ OpenIffOwned

-----------------------------------------------------------------------------
(* Who owns an object *)

\* Raw descriptors denote sockets, one each.
LEMMA RawFacts ==
    /\ \A v \in RawFds : /\ RawObject(v) \in Object /\ RawHandle(v) \in Handle
                         /\ v \in Nat /\ v < HANDLE_ID_BASE
    /\ \A v, w : RawObject(v) = RawObject(w) => v = w
    /\ RawHeld \subseteq RawFds
<1>1. \A v \in RawFds : /\ RawObject(v) \in Object /\ RawHandle(v) \in Handle
                        /\ v \in Nat /\ v < HANDLE_ID_BASE
  BY RegistryAssumption DEF RawFds, RawObject, RawHandle, Object, Handle
<1>2. ASSUME NEW v, NEW w, RawObject(v) = RawObject(w) PROVE v = w
  <2>1. RawObject(v).value = v /\ RawObject(w).value = w
    BY DEF RawObject
  <2>2. QED
    BY <1>2, <2>1
<1>3. QED
  BY <1>1, <1>2 DEF RawHeld

\* The raw sockets held are open.
LEMMA RawIsOpen == ASSUME OpenIffOwned PROVE RawOpen
BY RawFacts DEF OpenIffOwned, RawOpen

\* A step that keeps the set of descriptors held keeps the raw ones.
LEMMA SameRaw == ASSUME SameHeld PROVE RawHeld' = RawHeld
BY RawFacts DEF SameHeld, RawHeld

\* A step that touches no table, object or hand.
LEMMA OwnerFrame ==
    ASSUME NoSharedObject, OpenIffOwned, SameHeld,
           UNCHANGED <<capacity, entries, open, hand>>
    PROVE  NoSharedObject' /\ OpenIffOwned'
<1>1. RawHeld' = RawHeld /\ Used' = Used
  BY SameRaw DEF Used
<1>2. NoSharedObject'
  BY <1>1 DEF NoSharedObject
<1>3. OpenIffOwned'
  BY <1>1 DEF OpenIffOwned
<1>4. QED
  BY <1>2, <1>3

\* socket(), epoll_create() or accept() gives a thread an object nobody had.
LEMMA NewObjectOwner ==
    ASSUME IInv, SameHeld, UNCHANGED <<capacity, entries>>,
           NEW t \in Threads, hand[t] = Empty,
           NEW o \in Object \ open, open' = open \cup {o},
           hand' = [hand EXCEPT ![t] = o]
    PROVE  NoSharedObject' /\ OpenIffOwned'
<1> USE DEF IInv, HolderInv
<1>1. RawHeld' = RawHeld /\ Used' = Used
  BY SameRaw DEF Used
<1>2. /\ \A i \in Used : entries[i] # o
      /\ \A u \in Threads : hand[u] # o
      /\ \A v \in RawHeld : RawObject(v) # o
  BY DEF OpenIffOwned
<1>3. hand'[t] = o /\ \A u \in Threads : u # t => hand'[u] = hand[u]
  BY DEF TypeOK
<1>4. NoSharedObject'
  BY <1>1, <1>2, <1>3 DEF NoSharedObject
<1>5. OpenIffOwned'
  <2> SUFFICES ASSUME NEW q \in Object
               PROVE  q \in open' <=> \/ \E i \in Used : entries[i] = q
                                      \/ \E u \in Threads : hand'[u] = q
                                      \/ \E v \in RawHeld : RawObject(v) = q
    BY <1>1 DEF OpenIffOwned
  <2>1. CASE q = o
    BY <2>1, <1>3
  <2>2. CASE q # o
    <3>1. (\E u \in Threads : hand'[u] = q) <=> (\E u \in Threads : hand[u] = q)
      BY <2>2, <1>3, Distinct
    <3>2. QED
      BY <2>2, <3>1 DEF OpenIffOwned
  <2>3. QED
    BY <2>1, <2>2
<1>6. QED
  BY <1>4, <1>5

\* A thread closes the object it holds (Undo and Release).
LEMMA DropOwner ==
    ASSUME IInv, SameHeld, UNCHANGED <<capacity, entries>>,
           NEW t \in Threads, hand[t] # Empty,
           open' = open \ {hand[t]}, hand' = [hand EXCEPT ![t] = Empty]
    PROVE  NoSharedObject' /\ OpenIffOwned'
<1> USE DEF IInv, HolderInv
<1>1. RawHeld' = RawHeld /\ Used' = Used
  BY SameRaw DEF Used
<1>2. hand'[t] = Empty /\ \A u \in Threads : u # t => hand'[u] = hand[u]
  BY DEF TypeOK
<1>3. /\ \A i \in Used : entries[i] # hand[t]
      /\ \A u \in Threads : u # t => hand[u] # hand[t]
      /\ \A v \in RawHeld : RawObject(v) # hand[t]
  BY DEF NoSharedObject
<1>4. NoSharedObject'
  BY <1>1, <1>2 DEF NoSharedObject
<1>5. OpenIffOwned'
  <2> SUFFICES ASSUME NEW q \in Object
               PROVE  q \in open' <=> \/ \E i \in Used : entries[i] = q
                                      \/ \E u \in Threads : hand'[u] = q
                                      \/ \E v \in RawHeld : RawObject(v) = q
    BY <1>1 DEF OpenIffOwned
  <2>1. CASE q = hand[t]
    BY <2>1, <1>2, <1>3, Distinct
  <2>2. CASE q # hand[t]
    <3>1. (\E u \in Threads : hand'[u] = q) <=> (\E u \in Threads : hand[u] = q)
      BY <2>2, <1>2, Distinct
    <3>2. QED
      BY <2>2, <3>1 DEF OpenIffOwned
  <2>3. QED
    BY <2>1, <2>2
<1>6. QED
  BY <1>4, <1>5

\* registry_add passes the object of the thread on to the slot.
LEMMA PublishOwner ==
    ASSUME IInv, TypeOK', NEW t \in Threads, NEW i,
           pc[t] = "add", Publish(t, i), Filled(t, i)
    PROVE  NoSharedObject' /\ OpenIffOwned' /\ RawHeld' = RawHeld
<1> USE DEF IInv, HolderInv
<1>1. /\ hand[t] \in Object /\ i \in 0 .. (MAX_CAPACITY - 1)
      /\ Used' = Used \cup {i} /\ entries'[i] = hand[t]
      /\ \A j \in Used : entries'[j] = entries[j] /\ j # i
      /\ \A g \in Handle : IsHeld(g)' <=> g = NewToken(t, i) \/ IsHeld(g)
  BY PublishFacts
<1>2. RawHeld' = RawHeld
  <2>1. NewToken(t, i).fd >= HANDLE_ID_BASE
    BY <1>1, RegistryAssumption DEF NewToken
  <2>2. \A v \in RawFds : RawHandle(v) # NewToken(t, i)
    BY <2>1, RawFacts, RegistryAssumption DEF RawHandle
  <2>3. QED
    BY <1>1, <2>2, RawFacts DEF RawHeld
<1>3. /\ hand'[t] = Empty /\ \A u \in Threads : u # t => hand'[u] = hand[u]
      /\ open' = open
  BY DEF TypeOK, Publish
<1>4. hand[t] # Empty
  BY <1>1, Distinct
<1>5. /\ \A j \in Used : entries[j] # hand[t]
      /\ \A u \in Threads : u # t => hand[u] # hand[t]
      /\ \A v \in RawHeld : RawObject(v) # hand[t]
  BY <1>4 DEF NoSharedObject
<1>6. NoSharedObject'
  <2>1. \A j, k \in Used' : entries'[j] = entries'[k] => j = k
    BY <1>1, <1>5 DEF NoSharedObject
  <2>2. ASSUME NEW u \in Threads, hand'[u] # Empty
        PROVE  /\ \A j \in Used' : hand'[u] # entries'[j]
               /\ \A w \in Threads : hand'[u] = hand'[w] => u = w
               /\ \A v \in RawHeld' : hand'[u] # RawObject(v)
    <3>1. u # t /\ hand'[u] = hand[u] /\ hand[u] # Empty
      BY <2>2, <1>3
    <3>2. QED
      BY <3>1, <1>1, <1>2, <1>3, <1>5 DEF NoSharedObject
  <2>3. \A v \in RawHeld', j \in Used' : RawObject(v) # entries'[j]
    BY <1>1, <1>2, <1>5 DEF NoSharedObject
  <2>4. QED
    BY <2>1, <2>2, <2>3 DEF NoSharedObject
<1>7. OpenIffOwned'
  <2> SUFFICES ASSUME NEW q \in Object
               PROVE  q \in open <=> \/ \E j \in Used' : entries'[j] = q
                                     \/ \E u \in Threads : hand'[u] = q
                                     \/ \E v \in RawHeld : RawObject(v) = q
    BY <1>2, <1>3 DEF OpenIffOwned
  <2>1. CASE q = hand[t]
    BY <2>1, <1>1 DEF OpenIffOwned
  <2>2. CASE q # hand[t]
    <3>1. (\E u \in Threads : hand'[u] = q) <=> (\E u \in Threads : hand[u] = q)
      BY <2>2, <1>3, Distinct
    <3>2. (\E j \in Used' : entries'[j] = q) <=> (\E j \in Used : entries[j] = q)
      BY <2>2, <1>1
    <3>3. QED
      BY <3>1, <3>2 DEF OpenIffOwned
  <2>3. QED
    BY <2>1, <2>2
<1>8. QED
  BY <1>2, <1>6, <1>7

\* Which raw descriptors registry_take leaves.
LEMMA TakeToken ==
    ASSUME NEW h \in Handle, h.fd >= HANDLE_ID_BASE,
           \A g \in Handle : IsHeld(g)' <=> g # h /\ IsHeld(g)
    PROVE  RawHeld' = RawHeld
<1>1. ASSUME NEW v \in RawFds PROVE RawHandle(v).fd < HANDLE_ID_BASE
  BY RawFacts DEF RawHandle
<1>2. \A v \in RawFds : RawHandle(v) # h
  BY <1>1, RawFacts, Distinct, RegistryAssumption
<1>3. QED
  BY <1>2, RawFacts DEF RawHeld

\* Closing a raw descriptor drops that one and no other.
LEMMA TakeRaw ==
    ASSUME NEW h \in Handle, IsHeld(h), h.fd < HANDLE_ID_BASE,
           \A g \in Handle : IsHeld(g)' <=> g # h /\ IsHeld(g)
    PROVE  h.fd \in RawHeld /\ RawHeld' = RawHeld \ {h.fd}
<1>1. h.fd \in RawFds /\ h = RawHandle(h.fd)
  <2>1. h.fd \in RawFds /\ h.kind = "socket"
    BY RawTok
  <2>2. RawHandle(h.fd) \in Handle
    BY <2>1, RawFacts
  <2>3. RawHandle(h.fd).fd = h.fd /\ RawHandle(h.fd).kind = h.kind
    BY <2>1 DEF RawHandle
  <2>4. QED
    BY <2>1, <2>2, <2>3, SameHandle
<1>2. h.fd \in RawHeld
  BY <1>1 DEF RawHeld
<1>3. ASSUME NEW v \in RawFds PROVE RawHandle(v) # h <=> v # h.fd
  <2>1. RawHandle(v).fd = v
    BY DEF RawHandle
  <2>2. QED
    BY <1>1, <2>1
<1>4. QED
  BY <1>2, <1>3, RawFacts DEF RawHeld

\* registry_take passes the object on to the thread.
LEMMA TakeOwner ==
    ASSUME IInv, NEW t \in Threads, Take(t)
    PROVE  NoSharedObject' /\ OpenIffOwned'
<1> USE DEF IInv, HolderInv
<1> DEFINE h == tok[t]
<1>1. /\ h \in Handle /\ IsHeld(h) /\ h.fd \in Nat
      /\ \A g \in Handle : IsHeld(g)' <=> g # h /\ IsHeld(g)
  BY TakeFacts, Distinct
<1>2. /\ \A u \in Threads : u # t => hand'[u] = hand[u]
      /\ open' = open /\ hand[t] = Empty
  BY DEF Take, TypeOK, HandShape
<1>3. CASE h.fd < HANDLE_ID_BASE
  <2>1. /\ Used' = Used /\ entries' = entries
        /\ hand'[t] = RawObject(h.fd)
    BY <1>3, TakeFacts
  <2> DEFINE w == h.fd
  <2>3. w \in RawHeld /\ RawHeld' = RawHeld \ {w}
    BY <1>1, <1>3, TakeRaw
  <2> HIDE DEF w
  <2>4. hand'[t] = RawObject(w)
    BY <2>1 DEF w
  <2>5. /\ \A i \in Used : entries[i] # RawObject(w)
        /\ \A u \in Threads : u # t => hand[u] # RawObject(w)
        /\ \A v \in RawHeld' : RawObject(v) # RawObject(w)
    <3>1. \A v \in RawHeld' : RawObject(v) # RawObject(w)
      BY <2>3, RawFacts
    <3>2. RawObject(w) # Empty
      BY <2>3, RawFacts, Distinct
    <3>3. QED
      BY <2>3, <3>1, <3>2 DEF NoSharedObject
  <2>6. NoSharedObject'
    BY <1>2, <2>1, <2>3, <2>4, <2>5 DEF NoSharedObject
  <2>7. OpenIffOwned'
    <3> SUFFICES ASSUME NEW q \in Object
                 PROVE  q \in open <=> \/ \E j \in Used : entries[j] = q
                                       \/ \E u \in Threads : hand'[u] = q
                                       \/ \E v \in RawHeld' : RawObject(v) = q
      BY <1>2, <2>1 DEF OpenIffOwned
    <3>1. CASE q = RawObject(w)
      BY <3>1, <2>3, <2>4 DEF OpenIffOwned
    <3>2. CASE q # RawObject(w)
      <4>1. (\E u \in Threads : hand'[u] = q) <=> (\E u \in Threads : hand[u] = q)
        BY <3>2, <1>2, <2>4, Distinct
      <4>2. (\E v \in RawHeld' : RawObject(v) = q) <=> (\E v \in RawHeld : RawObject(v) = q)
        BY <3>2, <2>3
      <4>3. QED
        BY <4>1, <4>2 DEF OpenIffOwned
    <3>3. QED
      BY <3>1, <3>2
  <2>8. QED
    BY <2>6, <2>7
<1>4. CASE h.fd >= HANDLE_ID_BASE
  <2> DEFINE s == Slot(h.fd)
  <2>1. /\ s \in Used /\ Used' = Used \ {s}
        /\ \A j \in Used' : entries'[j] = entries[j]
        /\ hand'[t] = entries[s]
    BY <1>4, TakeFacts
  <2>2. RawHeld' = RawHeld
    BY <1>1, <1>4, TakeToken
  <2> HIDE DEF s
  <2>3. entries[s] \in Object /\ entries[s] # Empty
    BY <2>1, UsedObject, Distinct
  <2>4. /\ \A i \in Used' : entries[i] # entries[s]
        /\ \A u \in Threads : u # t => hand[u] # entries[s]
        /\ \A v \in RawHeld : RawObject(v) # entries[s]
    BY <2>1, <2>3 DEF NoSharedObject
  <2>5. NoSharedObject'
    BY <1>2, <2>1, <2>2, <2>4 DEF NoSharedObject
  <2>6. OpenIffOwned'
    <3> SUFFICES ASSUME NEW q \in Object
                 PROVE  q \in open <=> \/ \E j \in Used' : entries'[j] = q
                                       \/ \E u \in Threads : hand'[u] = q
                                       \/ \E v \in RawHeld : RawObject(v) = q
      BY <1>2, <2>2 DEF OpenIffOwned
    <3>1. CASE q = entries[s]
      BY <3>1, <2>1 DEF OpenIffOwned
    <3>2. CASE q # entries[s]
      <4>1. (\E u \in Threads : hand'[u] = q) <=> (\E u \in Threads : hand[u] = q)
        BY <3>2, <1>2, <2>1, Distinct
      <4>2. (\E j \in Used' : entries'[j] = q) <=> (\E j \in Used : entries[j] = q)
        BY <3>2, <2>1
      <4>3. QED
        BY <4>1, <4>2 DEF OpenIffOwned
    <3>3. QED
      BY <3>1, <3>2
  <2>7. QED
    BY <2>5, <2>6
<1>5. QED
  BY <1>1, <1>3, <1>4, RegistryAssumption

\* A raw socket comes from outside.
LEMMA OpenRawOwner ==
    ASSUME IInv, OpenRaw
    PROVE  NoSharedObject' /\ OpenIffOwned'
<1> USE DEF IInv, HolderInv
<1>1. PICK w \in RawFds : /\ RawObject(w) \notin open
                          /\ open' = open \cup {RawObject(w)}
                          /\ owned' = owned \cup {RawHandle(w)}
                          /\ UNCHANGED <<capacity, entries, hand, tok, loc>>
  BY DEF OpenRaw, RawObject, RawHandle, table, pipe
<1>2. \A g \in Handle : IsHeld(g)' <=> g = RawHandle(w) \/ IsHeld(g)
  BY <1>1, OpenRawFacts, RawIsOpen
<1>3. Used' = Used /\ RawHeld' = RawHeld \cup {w}
  <2>1. Used' = Used
    BY <1>1 DEF Used
  <2>2. \A v \in RawFds : RawHandle(v) = RawHandle(w) <=> v = w
    BY DEF RawHandle
  <2>3. QED
    BY <1>2, <2>1, <2>2, RawFacts DEF RawHeld
<1>4. /\ RawObject(w) \in Object
      /\ \A i \in Used : entries[i] # RawObject(w)
      /\ \A u \in Threads : hand[u] # RawObject(w)
      /\ \A v \in RawHeld : RawObject(v) # RawObject(w)
  BY <1>1, RawFacts DEF OpenIffOwned
<1>5. NoSharedObject'
  BY <1>1, <1>3, <1>4 DEF NoSharedObject
<1>6. OpenIffOwned'
  BY <1>1, <1>3, <1>4 DEF OpenIffOwned
<1>7. QED
  BY <1>5, <1>6

\* The steps that make, register, take and close a native object keep one owner each.
LEMMA OwnerStep ==
    ASSUME IInv, HolderInv', [Next]_vars
    PROVE  NoSharedObject' /\ OpenIffOwned'
<1> USE DEF IInv
<1>1. CASE OpenRaw
  BY <1>1, OpenRawOwner
<1>2. ASSUME NEW t \in Threads, Start(t) \/ Quiet(t)
      PROVE  NoSharedObject' /\ OpenIffOwned'
  <2>1. SameHeld /\ UNCHANGED <<capacity, entries, open, hand>>
    BY <1>2, StartStep, QuietStep
  <2>2. QED
    BY <2>1, OwnerFrame
<1>3. ASSUME NEW t \in Threads, NativeCreate(t) \/ NativeCall(t)
      PROVE  NoSharedObject' /\ OpenIffOwned'
  <2>1. SameHeld /\ UNCHANGED <<capacity, entries>>
    BY <1>3, NativeCreateStep, NativeCallStep DEF NativeCreate, NativeCall, table
  <2>2. CASE \E k \in Kinds : NewObject(t, k)
    <3>1. PICK o \in Object \ open : open' = open \cup {o} /\ hand' = [hand EXCEPT ![t] = o]
      BY <2>2 DEF NewObject
    <3>2. hand[t] = Empty
      BY <1>3 DEF HolderInv, HandShape, NativeCreate, NativeCall
    <3>3. QED
      BY <2>1, <3>1, <3>2, NewObjectOwner
  <2>3. CASE UNCHANGED <<open, hand>>
    BY <2>1, <2>3, OwnerFrame
  <2>4. QED
    BY <1>3, <2>2, <2>3 DEF NativeCreate, NativeCall, NoObject, Kinds
<1>4. ASSUME NEW t \in Threads, Undo(t) \/ Release(t)
      PROVE  NoSharedObject' /\ OpenIffOwned'
  <2>1. SameHeld /\ UNCHANGED <<capacity, entries>>
    BY <1>4, UndoStep, ReleaseStep DEF Undo, Release, table
  <2>2. /\ hand[t] # Empty
        /\ open' = open \ {hand[t]} /\ hand' = [hand EXCEPT ![t] = Empty]
    BY <1>4 DEF HolderInv, HandShape, Undo, Release
  <2>3. QED
    BY <2>1, <2>2, DropOwner
<1>5. ASSUME NEW t \in Threads, AddReuse(t) \/ AddGrow(t)
      PROVE  NoSharedObject' /\ OpenIffOwned'
  <2>1. PICK i : Publish(t, i) /\ Filled(t, i)
    BY <1>5, AddPublishes DEF HolderInv
  <2>2. pc[t] = "add"
    BY <1>5 DEF AddReuse, AddGrow
  <2>3. TypeOK'
    BY DEF HolderInv
  <2>4. QED
    BY <2>1, <2>2, <2>3, PublishOwner
<1>6. ASSUME NEW t \in Threads, Take(t)
      PROVE  NoSharedObject' /\ OpenIffOwned'
  BY <1>6, TakeOwner
<1>7. CASE UNCHANGED vars
  BY <1>7, OwnerFrame DEF vars, SameHeld, IsHeld
<1>8. QED
  BY <1>1, <1>2, <1>3, <1>4, <1>5, <1>6, <1>7 DEF Next, Step, Quiet

\* No thread owns an object and none is open at the start.
LEMMA InitOwner == Init => IInv
<1> SUFFICES ASSUME Init PROVE IInv
  OBVIOUS
<1>1. HolderInv
  BY InitHolder
<1>2. Used = {}
  BY DEF Init, Used
<1>3. RawHeld = {}
  <2>1. \A v \in RawFds : RawHandle(v) # NoHandle
    BY RawFacts, Distinct
  <2>2. QED
    BY <2>1 DEF Init, RawHeld, IsHeld
<1>4. NoSharedObject
  BY <1>2, <1>3 DEF Init, NoSharedObject
<1>5. OpenIffOwned
  BY <1>2, <1>3, Distinct DEF Init, OpenIffOwned
<1>6. QED
  BY <1>1, <1>4, <1>5 DEF IInv

\* The invariant is inductive.
LEMMA InvStep == ASSUME IInv, [Next]_vars PROVE IInv'
<1>1. HolderInv'
  BY RawIsOpen, HolderStep DEF IInv
<1>2. NoSharedObject' /\ OpenIffOwned'
  BY <1>1, OwnerStep
<1>3. QED
  BY <1>1, <1>2 DEF IInv

\* The invariant of every run of the descriptor layer.
THEOREM Invariant == Spec => []IInv
<1>1. Init => IInv
  BY InitOwner
<1>2. IInv /\ [Next]_vars => IInv'
  BY InvStep
<1>3. QED
  BY <1>1, <1>2, PTL DEF Spec

\* Every variable of the descriptor layer keeps its type: registry_add returns only
\* tokens that fit the table and close never hands a foreign value to closesocket.
THEOREM TypeCorrect == Spec => []TypeOK
<1>1. IInv => TypeOK
  BY DEF IInv, HolderInv
<1>2. QED
  BY <1>1, Invariant, PTL

\* Two owners never share a native object.
THEOREM NeverShared == Spec => []NoSharedObject
<1>1. IInv => NoSharedObject
  BY DEF IInv
<1>2. QED
  BY <1>1, Invariant, PTL

\* No error path and no close leaks an object or leaves a closed one registered.
THEOREM NeverLeaked == Spec => []OpenIffOwned
<1>1. IInv => OpenIffOwned
  BY DEF IInv
<1>2. QED
  BY <1>1, Invariant, PTL

\* Every descriptor has exactly one holder and one slot.
THEOREM AlwaysOneHolder == Spec => []OneHolder
<1>1. IInv => OneHolder
  BY DEF IInv, HolderInv
<1>2. QED
  BY <1>1, Invariant, PTL

-----------------------------------------------------------------------------
(* What a descriptor denotes *)

\* A descriptor somebody holds denotes an open object of its kind.
LEMMA HeldOpen ==
    ASSUME IInv, NEW h \in Handle, IsHeld(h)
    PROVE  [kind |-> h.kind, value |-> Resolve(h)] \in open
<1> USE DEF IInv, HolderInv
<1>0. h.fd \in Nat /\ HANDLE_ID_BASE \in Nat
  BY Distinct, RegistryAssumption
<1>1. CASE h.fd >= HANDLE_ID_BASE
  <2>1. Found(h)
    BY <1>1 DEF OneHolder, HeldFound
  <2> DEFINE s == Slot(h.fd)
  <2>2. s \in Used /\ entries[s].kind = h.kind /\ Resolve(h) = entries[s].value
    BY <1>0, <2>1 DEF TypeOK, Found, Registered, Slot, Used, Resolve
  <2> HIDE DEF s
  <2>3. entries[s] \in Object
    BY <2>2, UsedObject
  <2>4. entries[s] = [kind |-> entries[s].kind, value |-> entries[s].value]
    BY <2>3 DEF Object
  <2>5. entries[s] \in open
    BY <2>2, <2>3 DEF OpenIffOwned
  <2>6. QED
    BY <2>2, <2>4, <2>5
<1>2. CASE h.fd < HANDLE_ID_BASE
  <2>1. Resolve(h) = h.fd
    BY <1>0, <1>2 DEF Resolve, Found, Registered
  <2>2. h.fd \in RawFds /\ h.kind = "socket"
    BY <1>2, RawTok
  <2>3. RawHandle(h.fd) = h
    <3>1. RawHandle(h.fd) \in Handle
      BY <2>2, RawFacts
    <3>2. RawHandle(h.fd).fd = h.fd /\ RawHandle(h.fd).kind = h.kind
      BY <2>2 DEF RawHandle
    <3>3. QED
      BY <3>1, <3>2, SameHandle
  <2>4. RawObject(h.fd) \in open
    BY <2>2, <2>3, RawIsOpen DEF RawHeld, RawOpen
  <2>5. QED
    BY <2>1, <2>2, <2>4 DEF RawObject
<1>3. QED
  BY <1>0, <1>1, <1>2

\* Whatever happens to the table, a descriptor held before and after a step denotes
\* the same value.
LEMMA ResolveStable ==
    ASSUME IInv, IInv', [Next]_vars, NEW h \in Handle, IsHeld(h), IsHeld(h)'
    PROVE  Resolve(h)' = Resolve(h)
<1> USE DEF IInv, HolderInv
<1>0. h.fd \in Nat /\ HANDLE_ID_BASE \in Nat
  BY Distinct, RegistryAssumption
<1>1. CASE UNCHANGED <<capacity, entries>>
  BY <1>1 DEF Resolve, Found, Registered
<1>2. CASE h.fd < HANDLE_ID_BASE
  BY <1>0, <1>2 DEF Resolve, Found, Registered
<1>3. CASE h.fd >= HANDLE_ID_BASE /\ ~UNCHANGED <<capacity, entries>>
  <2>1. /\ Found(h) /\ Found(h)'
        /\ Slot(h.fd) \in Used /\ Slot(h.fd) \in Used'
    <3>1. Found(h) /\ Found(h)'
      BY <1>3 DEF OneHolder, HeldFound
    <3>2. QED
      BY <1>0, <1>3, <3>1 DEF TypeOK, Found, Registered, Slot, Used
  <2>2. entries'[Slot(h.fd)] = entries[Slot(h.fd)]
    <3>1. PICK t \in Threads : AddReuse(t) \/ AddGrow(t) \/ Take(t)
      <4>1. ~OpenRaw
        BY <1>3 DEF OpenRaw, table
      <4>2. ~UNCHANGED vars
        BY <1>3 DEF vars
      <4>3. PICK u \in Threads : Start(u) \/ Step(u)
        BY <4>1, <4>2 DEF Next
      <4>4. ~Start(u) /\ ~Quiet(u)
        BY <1>3, StartStep, QuietStep
      <4>5. ~(NativeCreate(u) \/ Undo(u) \/ NativeCall(u) \/ Release(u))
        BY <1>3 DEF NativeCreate, Undo, NativeCall, Release, table
      <4>6. QED
        BY <4>3, <4>4, <4>5 DEF Step, Quiet
    <3>2. CASE AddReuse(t) \/ AddGrow(t)
      <4>1. PICK i : Publish(t, i) /\ Filled(t, i)
        BY <3>2, AddPublishes
      <4>2. pc[t] = "add" /\ TypeOK'
        BY <3>2 DEF AddReuse, AddGrow
      <4>3. \A j \in Used : entries'[j] = entries[j]
        BY <4>1, <4>2, PublishFacts
      <4>4. QED
        BY <2>1, <4>3
    <3>3. CASE Take(t)
      <4>1. \/ UNCHANGED <<capacity, entries>>
            \/ \A j \in Used' : entries'[j] = entries[j]
        <5>1. tok[t].fd \in Nat
          BY <3>3, TakeFacts, Distinct
        <5>2. QED
          BY <1>0, <3>3, <5>1, TakeFacts
      <4>2. QED
        BY <1>3, <2>1, <4>1
    <3>4. QED
      BY <3>1, <3>2, <3>3
  <2>3. QED
    BY <2>1, <2>2 DEF Resolve, Slot
<1>4. QED
  BY <1>0, <1>1, <1>2, <1>3

\* While the application holds a descriptor it keeps denoting the same object: no add,
\* take, close or growth in another thread changes it.
THEOREM BindingsAreStable == Spec => StableBinding
<1>1. ASSUME IInv, IInv', [Next]_vars
      PROVE  [\A h \in owned \cap owned' : Resolve(h)' = Resolve(h)]_vars
  <2>1. ASSUME NEW h \in owned \cap owned' PROVE Resolve(h)' = Resolve(h)
    <3>1. h \in Handle /\ IsHeld(h) /\ IsHeld(h)'
      BY <1>1 DEF IInv, HolderInv, TypeOK, IsHeld
    <3>2. QED
      BY <1>1, <3>1, ResolveStable
  <2>2. QED
    BY <2>1
<1>2. QED
  BY <1>1, Invariant, PTL DEF Spec, StableBinding

\* The lookups of a step: kept, dropped, or new and current.
LEMMA GotStep ==
    ASSUME IInv, [Next]_vars, NEW u \in Threads, NEW g \in got'[u], g \notin got[u]
    PROVE  UNCHANGED <<capacity, entries>> /\ g.value = Resolve(g.handle)
<1> USE DEF IInv, HolderInv
<1>1. PICK t \in Threads : Lookup(t)
  <2>1. ~UNCHANGED got /\ ~OpenRaw /\ ~UNCHANGED vars
    BY DEF OpenRaw, vars
  <2>2. PICK t \in Threads : Start(t) \/ Step(t)
    BY <2>1 DEF Next
  <2>3. ~Start(t)
    BY <2>1, StartStep
  <2>4. ~Return(t, TRUE) /\ ~Return(t, FALSE) /\ \A b \in BOOLEAN : ~Return(t, b)
    <3>1. ~(got' = [got EXCEPT ![t] = {}])
      BY DEF TypeOK
    <3>2. QED
      BY <3>1 DEF Return
  <2>5. /\ ~AppReturn(t) /\ ~AddFail(t) /\ ~PipeReturn(t) /\ ~PipeSocket(t)
        /\ ~PipeCall(t) /\ ~PipeCloseListener(t) /\ ~PipeCleanup(t) /\ ~PipeEnd(t)
        /\ ~Take(t)
    BY <2>1 DEF AppReturn, AddFail, PipeReturn, PipeSocket, PipeCall, PipeCloseListener,
                PipeCleanup, CloseLocal, PipeEnd, Take
  <2>6. ~NativeCreate(t) /\ ~NativeCall(t)
    BY <2>1, <2>4 DEF NativeCreate, NativeCall, NewObject, NoObject
  <2>7. ~AddReuse(t) /\ ~AddGrow(t) /\ ~Undo(t) /\ ~Check(t)
    BY <2>1, <2>4 DEF AddReuse, AddGrow, Publish, Undo, Check
  <2>8. ~Release(t)
    <3>1. ~(got' = [got EXCEPT ![t] = {}])
      BY DEF TypeOK
    <3>2. QED
      BY <3>1 DEF Release, Return
  <2>9. QED
    BY <2>2, <2>3, <2>5, <2>6, <2>7, <2>8 DEF Step
<1>2. PICK h \in ask[t] :
          got' = [got EXCEPT ![t] = got[t] \cup {[handle |-> h, value |-> Resolve(h)]}]
  BY <1>1 DEF Lookup
<1>3. g = [handle |-> h, value |-> Resolve(h)]
  BY <1>2 DEF TypeOK
<1>4. QED
  BY <1>1, <1>3 DEF Lookup, table

\* A looked-up value is still the open object of its descriptor when the native call
\* is made with it.
THEOREM LookupsAreCurrent == Spec => []LookupCurrent
<1> DEFINE Current == \A u \in Threads : \A g \in got[u] : g.value = Resolve(g.handle)
<1>1. Init => Current
  BY DEF Init
<1>2. ASSUME IInv, NEW u \in Threads, NEW g \in got[u]
      PROVE  g.handle \in Handle /\ IsHeld(g.handle)
  <2>1. g.handle \in ask[u]
    BY <1>2 DEF IInv, HolderInv, AskShape
  <2>2. QED
    BY <1>2, <2>1 DEF IInv, HolderInv, TypeOK, AskShape, IsHeld
<1>3. ASSUME IInv, IInv', Current, [Next]_vars PROVE Current'
  <2> SUFFICES ASSUME NEW u \in Threads, NEW g \in got'[u]
               PROVE  g.value = Resolve(g.handle)'
    OBVIOUS
  <2>1. g.handle \in Handle /\ IsHeld(g.handle)'
    <3>1. g.handle \in ask'[u]
      BY <1>3 DEF IInv, HolderInv, AskShape
    <3>2. QED
      BY <1>3, <3>1 DEF IInv, HolderInv, TypeOK, AskShape, IsHeld
  <2>2. CASE g \in got[u]
    <3>1. g.value = Resolve(g.handle) /\ IsHeld(g.handle)
      BY <1>2, <1>3, <2>2
    <3>2. QED
      BY <1>3, <2>1, <3>1, ResolveStable
  <2>3. CASE g \notin got[u]
    BY <1>3, <2>3, GotStep DEF Resolve, Found, Registered
  <2>4. QED
    BY <2>2, <2>3
<1>4. IInv /\ Current => LookupCurrent
  BY <1>2, HeldOpen DEF LookupCurrent
<1>5. QED
  BY <1>1, <1>3, <1>4, Invariant, PTL DEF Spec

-----------------------------------------------------------------------------
(* HandleRegistry implements FdTable: registry_add binds one fresh token,
   registry_take unbinds one, a raw socket is bound when it comes and unbound when
   close takes it, and no other step is visible. *)

Fds == Tokens \cup RawFds

\* A step that keeps the slots in use and the raw sockets is invisible.
LEMMA BindingFrame ==
    ASSUME Used' = Used, \A i \in Used : entries'[i] = entries[i], RawHeld' = RawHeld
    PROVE  UNCHANGED Binding
BY DEF Binding

\* A pair in force comes from a slot or from a raw socket.
LEMMA BindingCases ==
    ASSUME NEW fd, NEW o
    PROVE  <<fd, o>> \in Binding <=>
               \/ \E i \in Used : fd = HANDLE_ID_BASE + i /\ o = entries[i]
               \/ \E v \in RawHeld : fd = v /\ o = RawObject(v)
BY DEF Binding

\* registry_add binds.
LEMMA PublishBinds ==
    ASSUME IInv, TypeOK', NEW t \in Threads, NEW i,
           pc[t] = "add", Publish(t, i), Filled(t, i)
    PROVE  /\ HANDLE_ID_BASE + i \in Fds /\ hand[t] \in Object
           /\ Abstract!Bind(HANDLE_ID_BASE + i, hand[t])
<1> USE DEF IInv, HolderInv
<1>1. /\ hand[t] \in Object /\ i \in 0 .. (MAX_CAPACITY - 1)
      /\ Used' = Used \cup {i} /\ entries'[i] = hand[t]
      /\ \A j \in Used : entries'[j] = entries[j] /\ j # i
  BY PublishFacts
<1>2. RawHeld' = RawHeld
  BY PublishOwner
<1>3. HANDLE_ID_BASE + i \in Tokens
  BY <1>1, RegistryAssumption DEF Tokens
<1>4. ~Abstract!Bound(HANDLE_ID_BASE + i)
  <2> SUFFICES ASSUME NEW o \in Object, <<HANDLE_ID_BASE + i, o>> \in Binding
               PROVE  FALSE
    BY DEF Abstract!Bound
  <2>1. CASE \E j \in Used : HANDLE_ID_BASE + i = HANDLE_ID_BASE + j
    <3>1. PICK j \in Used : HANDLE_ID_BASE + i = HANDLE_ID_BASE + j
      BY <2>1
    <3>2. i = j
      BY <1>1, <3>1, UsedObject, RegistryAssumption
    <3>3. QED
      BY <1>1, <3>2
  <2>2. CASE \E v \in RawHeld : HANDLE_ID_BASE + i = v
    BY <2>2, <1>1, RawFacts, RegistryAssumption
  <2>3. QED
    BY <2>1, <2>2, BindingCases
<1>5. ~Abstract!Taken(hand[t])
  <2>1. hand[t] # Empty
    BY <1>1, Distinct
  <2>2. /\ \A j \in Used : entries[j] # hand[t]
        /\ \A v \in RawHeld : RawObject(v) # hand[t]
    BY <2>1 DEF NoSharedObject
  <2>3. QED
    BY <2>2, BindingCases DEF Abstract!Taken
<1>6. Binding' = Binding \cup {<<HANDLE_ID_BASE + i, hand[t]>>}
  <2>1. {<<HANDLE_ID_BASE + j, entries'[j]>> : j \in Used'} =
            {<<HANDLE_ID_BASE + j, entries[j]>> : j \in Used}
                \cup {<<HANDLE_ID_BASE + i, hand[t]>>}
    BY <1>1
  <2>2. QED
    BY <1>2, <2>1 DEF Binding
<1>7. QED
  BY <1>1, <1>3, <1>4, <1>5, <1>6 DEF Abstract!Bind, Fds

\* registry_take unbinds.
LEMMA TakeUnbinds ==
    ASSUME IInv, NEW t \in Threads, Take(t)
    PROVE  \E fd \in Fds, o \in Object : Abstract!Unbind(fd, o)
<1> USE DEF IInv, HolderInv
<1> DEFINE h == tok[t]
<1>1. /\ h \in Handle /\ IsHeld(h) /\ h.fd \in Nat
      /\ \A g \in Handle : IsHeld(g)' <=> g # h /\ IsHeld(g)
  BY TakeFacts, Distinct
<1>2. CASE h.fd < HANDLE_ID_BASE
  <2> DEFINE w == h.fd
  <2>1. Used' = Used /\ entries' = entries
    BY <1>2, TakeFacts
  <2>2. w \in RawHeld /\ RawHeld' = RawHeld \ {w}
    BY <1>1, <1>2, TakeRaw
  <2> HIDE DEF w
  <2>3. w \in RawFds /\ RawObject(w) \in Object
    BY <2>2, RawFacts
  <2>4. <<w, RawObject(w)>> \in Binding
    BY <2>2, BindingCases
  <2>5. Binding' = Binding \ {<<w, RawObject(w)>>}
    <3>1. \A i \in Used : HANDLE_ID_BASE + i # w
      BY <2>3, UsedObject, RawFacts, RegistryAssumption
    <3>2. QED
      BY <2>1, <2>2, <3>1 DEF Binding
  <2>6. QED
    BY <2>3, <2>4, <2>5 DEF Abstract!Unbind, Fds
<1>3. CASE h.fd >= HANDLE_ID_BASE
  <2> DEFINE s == Slot(h.fd)
  <2>1. /\ s \in Used /\ Used' = Used \ {s}
        /\ \A j \in Used' : entries'[j] = entries[j]
    BY <1>3, TakeFacts
  <2>2. RawHeld' = RawHeld
    BY <1>1, <1>3, TakeToken
  <2> HIDE DEF s
  <2>3. entries[s] \in Object /\ HANDLE_ID_BASE + s \in Tokens
    BY <2>1, UsedObject, RegistryAssumption DEF Tokens
  <2>4. <<HANDLE_ID_BASE + s, entries[s]>> \in Binding
    BY <2>1, BindingCases
  <2>5. Binding' = Binding \ {<<HANDLE_ID_BASE + s, entries[s]>>}
    <3>1. \A i \in Used : HANDLE_ID_BASE + i = HANDLE_ID_BASE + s <=> i = s
      BY <2>1, UsedObject, RegistryAssumption
    <3>2. \A v \in RawHeld : v # HANDLE_ID_BASE + s
      BY <2>1, UsedObject, RawFacts, RegistryAssumption
    <3>3. QED
      BY <2>1, <2>2, <3>1, <3>2 DEF Binding
  <2>6. QED
    BY <2>3, <2>4, <2>5 DEF Abstract!Unbind, Fds
<1>4. QED
  BY <1>1, <1>2, <1>3, RegistryAssumption

\* A raw socket from outside is bound to its own number.
LEMMA OpenRawBinds ==
    ASSUME IInv, OpenRaw
    PROVE  \E fd \in Fds, o \in Object : Abstract!Bind(fd, o)
<1> USE DEF IInv, HolderInv
<1>1. PICK w \in RawFds : /\ RawObject(w) \notin open
                          /\ owned' = owned \cup {RawHandle(w)}
                          /\ UNCHANGED <<capacity, entries, hand, tok, loc>>
  BY DEF OpenRaw, RawObject, RawHandle, table, pipe
<1>2. /\ Used' = Used /\ entries' = entries
      /\ RawHeld' = RawHeld \cup {w} /\ w \notin RawHeld
  <2>1. /\ ~IsHeld(RawHandle(w))
        /\ \A g \in Handle : IsHeld(g)' <=> g = RawHandle(w) \/ IsHeld(g)
    BY <1>1, OpenRawFacts, RawIsOpen
  <2>2. \A v \in RawFds : RawHandle(v) = RawHandle(w) <=> v = w
    BY DEF RawHandle
  <2>3. QED
    BY <1>1, <2>1, <2>2, RawFacts DEF RawHeld, Used
<1>3. ~Abstract!Bound(w)
  <2>1. \A i \in Used : HANDLE_ID_BASE + i # w
    BY UsedObject, RawFacts, RegistryAssumption
  <2>2. QED
    BY <1>2, <2>1, BindingCases DEF Abstract!Bound
<1>4. ~Abstract!Taken(RawObject(w))
  <2>1. RawObject(w) \in Object
    BY RawFacts
  <2>2. /\ \A i \in Used : entries[i] # RawObject(w)
        /\ \A v \in RawHeld : RawObject(v) # RawObject(w)
    BY <1>1, <2>1 DEF OpenIffOwned
  <2>3. QED
    BY <2>2, BindingCases DEF Abstract!Taken
<1>5. Binding' = Binding \cup {<<w, RawObject(w)>>}
  BY <1>2 DEF Binding
<1>6. QED
  BY <1>3, <1>4, <1>5, RawFacts DEF Abstract!Bind, Fds

\* Every step of the layer is a step of the abstract table or invisible.
LEMMA StepRefines ==
    ASSUME IInv, IInv', [Next]_vars
    PROVE  [Abstract!Next]_Binding
<1> USE DEF IInv, HolderInv
<1>1. CASE OpenRaw
  BY <1>1, OpenRawBinds DEF Abstract!Next, Fds
<1>2. ASSUME NEW t \in Threads, AddReuse(t) \/ AddGrow(t)
      PROVE  Abstract!Next
  <2>1. PICK i : Publish(t, i) /\ Filled(t, i)
    BY <1>2, AddPublishes
  <2>2. pc[t] = "add" /\ TypeOK'
    BY <1>2 DEF AddReuse, AddGrow
  <2>3. QED
    BY <2>1, <2>2, PublishBinds DEF Abstract!Next, Fds
<1>3. ASSUME NEW t \in Threads, Take(t) PROVE Abstract!Next
  BY <1>3, TakeUnbinds DEF Abstract!Next, Fds
<1>4. CASE SameHeld /\ UNCHANGED <<capacity, entries>>
  <2>1. Used' = Used /\ RawHeld' = RawHeld
    BY <1>4, SameRaw DEF Used
  <2>2. QED
    BY <1>4, <2>1, BindingFrame
<1>5. ASSUME NEW t \in Threads, \/ Start(t) \/ Quiet(t) \/ NativeCreate(t) \/ NativeCall(t)
                                \/ Undo(t) \/ Release(t)
      PROVE  SameHeld /\ UNCHANGED <<capacity, entries>>
  <2>1. CASE Start(t) \/ Quiet(t)
    BY <2>1, StartStep, QuietStep
  <2>2. CASE NativeCreate(t) \/ NativeCall(t)
    BY <2>2, NativeCreateStep, NativeCallStep DEF NativeCreate, NativeCall, table
  <2>3. CASE Undo(t) \/ Release(t)
    BY <2>3, UndoStep, ReleaseStep DEF Undo, Release, table
  <2>4. QED
    BY <1>5, <2>1, <2>2, <2>3
<1>6. CASE UNCHANGED vars
  BY <1>4, <1>6 DEF vars, SameHeld, IsHeld
<1>7. QED
  BY <1>1, <1>2, <1>3, <1>4, <1>5, <1>6 DEF Next, Step, Quiet

\* Nothing is bound at the start.
LEMMA InitRefines == Init => Abstract!Init
<1> SUFFICES ASSUME Init PROVE Binding = {}
  BY DEF Abstract!Init
<1>1. Used = {}
  BY DEF Init, Used
<1>2. RawHeld = {}
  <2>1. \A v \in RawFds : RawHandle(v) # NoHandle
    BY RawFacts, Distinct
  <2>2. QED
    BY <2>1 DEF Init, RawHeld, IsHeld
<1>3. QED
  BY <1>1, <1>2 DEF Binding

\* The descriptor layer implements the one-to-one table of descriptors that Skynet's
\* socket server relies on.
THEOREM Refinement == Spec => RefinesFdTable
<1>1. Init => Abstract!Init
  BY InitRefines
<1>2. IInv /\ IInv' /\ [Next]_vars => [Abstract!Next]_Binding
  BY StepRefines
<1>3. QED
  BY <1>1, <1>2, Invariant, PTL DEF Spec, RefinesFdTable, Abstract!Spec

=============================================================================
