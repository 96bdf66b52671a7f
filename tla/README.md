# A TLA+ verification of skynetjit

skynetjit builds the Skynet actor framework with LuaJIT for Win64 and Linux. Its own
code is a compatibility layer (`compat/`), a re-implementation of Skynet's `sharetable`
that does not share LuaJIT tables between states, and `redislib`, Redis data structures
as Lua C modules (`redislib-src/`). This project models the parts of it that run
concurrently and redislib's set, sorted set, hash table and HyperLogLog, checks them with TLC
on small instances, and proves the descriptor registry, the stdin bridge, sharetable, the
HyperLogLog and the set correct with TLAPS for every instance.

## 1. The system

| Component | State | Operations | What is hard |
|---|---|---|---|
| Descriptor registry (`compat/win64/win_compat.c`) | `registry_entries`, `registry_capacity`, the open native objects | socket, accept, epoll_create, socket calls, select, epoll_ctl/wait, read/write, close, pipe | one lock per table access, native calls outside it; slot and value reuse; growth; error paths |
| Stdin bridge (same file) | socket pair, worker thread, `INIT_ONCE`, `started` | first use, use, worker loop, close | initialisation race and retry, partial sends, a blocked worker, a close with a timeout, value reuse |
| sharetable (`compat/lua/skynet/sharetable.lua`) | service: `files`, `retired`; clients: views, `cache`, `roots_by_name`; reference counts in the C heap | load, query, queryall, confirm, update, proxy access, GC | asynchronous messages, counts changed by several services, weak tables, coroutines, exit |
| sharetable codec (`.../sharetable/codec.lua`) | none | encode, decode | cycles, shared nodes, stable paths |
| Lua 5.4 compatibility (`compat/lua/skynetjit/compat.lua`, `compat/luajit/*.h`) | proxy registry | string.pack, table functions, C API shims | widths, alignment |
| redislib facades (`redislib-src/facade/*.c`) | Lua userdata over a kernel object | commands with several arguments | a Lua error in the middle of a command, cache invalidation |
| redislib kernel (`redislib-src/kernel/*.c`) | intset, listpack, dict, skiplist, HLL, bitmaps | Redis' algorithms | encoding conversion at limits, incremental rehash, overflow |
| Bundled libraries (`luaclib-src/`), build scripts, tests | - | - | third-party or without logic of the program |

The pieces meet as follows. Skynet's socket server calls the descriptor layer through
macros in `compat.h`; descriptor 0 is diverted to the stdin bridge, all others to the
registry. Services call sharetable, whose service runs as an actor of its own and whose
graphs live in the C heap of `skynet.sharedata.corelib`. redislib is called by one Lua
state at a time and does not meet the others.

What makes each part correct:

* registry: a descriptor denotes one native object from the moment it is returned until
  it is closed; nothing native is leaked, shared or closed twice; a value that was looked
  up is still valid when it is used;
* bridge: stdin comes out complete, in order and once; its end comes after its data; the
  sockets are released; a close returns;
* sharetable: a graph lives exactly as long as somebody holds it; views only move forward;
  calls return;
* redislib (set, sorted set with its hash table, HyperLogLog): each structure behaves as the
  abstract set, map or sequence of registers whatever its encoding, and whatever is left of
  a rehash; a failed command leaves it consistent.

`PROJECT.json` lists all components and the hazards at their lines.

## 2. Modules

| Module | Role |
|---|---|
| `FdTable` | abstract: descriptors and native objects in a one-to-one relation |
| `HandleRegistry` | the registry and every function of the API built on it |
| `MCHandleRegistry` | TLC instance |
| `HandleRegistryProofs` | proofs: the shape of calls in progress, the inductive invariant, the safety theorems and the refinement of `FdTable` |
| `ByteStream` | abstract: an ordered stream that can be cut |
| `StdinBridge`, `MCStdinBridge` | descriptor 0 and its TLC instance |
| `StdinBridgeProofs` | proofs: the bridge's safety and its refinement of `ByteStream` |
| `ShareTable`, `MCShareTable` | sharetable's service and clients and their TLC instance |
| `ShareTableProofs` | proofs: the reference counts and what they protect, and the order of versions |
| `Intset` | operators: redislib's sorted integer array, byte by byte |
| `RedisSet`, `MCRedisSet` | the set commands over the three encodings and their TLC instance |
| `RedisSetProofs` | proofs: search, insertion, removal and upgrade of an intset; the inductive invariant of the set and the commands as operations on sets |
| `Hll`, `MCHll` | the HyperLogLog commands over the sparse and the dense encoding and their TLC instance |
| `FoldLemmas` | lemmas: induction over numbers and sequences, folds, splices |
| `HllProofs` | proofs: the sparse code and the commands, for every string |
| `Dict` | operators: redislib's hash table with incremental rehashing |
| `Skiplist` | operators: the skiplist with its spans |
| `StructureProofs` | proofs: the hash table's operations on a table in any stage of a rehash; insertion, deletion, ranks and ranges of a skiplist |
| `SortedSet`, `MCSortedSet` | the sorted set commands over listpack, or `Skiplist` and `Dict`, and their TLC instance |
| `SortedSetProofs` | proofs: the inductive invariant of the sorted set, the commands as operations on maps, the queries |

A definition whose comment starts with *Mutant of* is a wrong variant of the definition
after it, used to show that a property can fail; no specification uses it.

### HandleRegistry

Each thread runs one API function at a time. `pc[t]` is where it is, `op[t]` which
function, `ask[t]` the descriptors it uses, `got[t]` the values looked up so far, `hand[t]`
the native object it holds outside the table (just created, or just taken out for closing),
`tok[t]` a descriptor passed on (the argument of a close, or a new token on its way to the
caller). `stage[t]` and `loc[t]` are the progress and the locals of `skynetjit_pipe`, which
calls the other functions.

`registry_add`, `registry_get` and `registry_take` hold the SRWLOCK, so each is one action
(`AddReuse`/`AddGrow`/`AddFail`, `Lookup` and `Check`, `Take`). The native call after a
lookup (`NativeCall`), `closesocket` after a take (`Release`) and after a failed add (`Undo`)
run outside it and are actions of their own. `SocketValues` and `EpollValues` are the
values the OS may give; it gives none that is open, and may give one again once closed.
Values of registered objects and tokens may be the same numbers. A raw socket that another
library opened can be passed in (`OpenRaw`). The code takes any number that is not in the table for
one (`win_compat.c:293`); the model has raw sockets below `HANDLE_ID_BASE` only (`RawFds`), which is
what the comment in `socket_value` provides for ("low-valued", line 292). A raw value that is a
token in use would be taken for that token, and is outside what the runs and the proofs show.

The application's discipline is external and assumed: it uses descriptors it holds, each
as what it is, and closes one only when no other call uses it. Without it a stale
descriptor can denote a new object, on POSIX as here.

Left out because no state changes: the early return of a zero-length send, recv, read or
write; `select`'s argument checks and ENOMEM; F_GETFL; errno. `_close(fd)` after a failed
`closesocket` concerns a CRT descriptor and no native socket. `fd_set`s are sets of
descriptors. `size_t` arithmetic cannot overflow below the limit, which is `MAX_CAPACITY`.

### StdinBridge

`owner` says who has each native socket value; `OtherOpen` and `OtherClose` are the rest of
the process. The callers' `pc` goes through `stdin_socket_value` (`INIT_ONCE`,
`native_socket_pair`, thread creation, publication of the globals) or through
`stdin_bridge_close`, one native call per action. The three `closesocket`s of an error path
are one step, as only that thread knows the values. bind, listen and getsockname are one
step that succeeds or fails, and the retry on EINTR is a stutter. Bytes are numbered, so
order, loss and repetition are visible. `WaitForSingleObject` ends when the worker has
ended or after 1000 ms, so `CloseWait` is enabled always. `CancelSynchronousIo` interrupts
a `_read` in progress or misses it.

Assumed: uses of descriptor 0 do not overlap a close of it (the socket server does both
in one thread).

### ShareTable

The service handles one message at a time (`Ready`); `collect_retired` is split into reading
a count (`CollectCheck`) and deleting (`CollectDelete`), since clients change counts in
parallel. A load is answered after its collection (`AnswerLoad`). Mailboxes are FIFO.

A client's coroutine waits in `co[k]`; when its answer is at the head of the client's
mailbox, `BoxCached`/`BoxNew`, `Update` or `Return` run up to the next wait.
A view is a record: the `pointer` sharetable compares, the `doc` box sharedata reads, the
`pending` box of an update not read yet, whether the application holds the root proxy
(`held`), it is only in weak tables (`weak`) or was collected (`gone`), and whether a nested
proxy is held. `Access` is a read through a proxy, at which sharedata switches to the
pending box; `dead` counts boxes that wait for their finaliser. `Exit` ends a service.

sharedata's core (counts, boxes, `update`) is in a submodule and is modelled from its use.
`ServeLoadError` is a chunk that fails to load or encode; at the bound `LOADS` it is the only
answer to a load. The names of a query are a list, as in the code: `Lists` are the lists that
are passed, where `query` and `update` ask with a list of one, and `queryall()` without one is a list of
all names. The service takes a reference for every occurrence of a name (`Taken`), the
answer has the name once and its client confirms it once (`Unreturned`). `lost` counts the references that
nobody gives back: those of answers to a client that exited, and of further occurrences of a name.
Since such a graph is never deleted its count could grow for ever; `CallQuery` passes a list that repeats a
name only while every `lost` is below the bound `REPEATS`.
`sharetable.copy` and lookups by key read only. Deadlock is not checked because all services
may have exited.

### Intset and RedisSet

redislib is called by one Lua state at a time, so a command is one action and its only
variable is `sobj`, each handle's payload: `NULL`, an intset, a listpack or a hash table, or
`Freed` for a handle that does not exist. A command is an operator from the old payload and
the arguments to the new payload and the reply (`lsadd`, `lsrem`, `lsmove`, and the sets of
possible outcomes `lspop`, `lspopCount`, `lsrandmember` for the random ones); the action takes
the payload, and the properties compare both with the mathematical set. The reads, `dump` and
the set operations are operators of the current state.

`Intset` keeps the bytes of the block: the upgrade of the encoding rewrites elements in the
block it reads them from and `memmove` shifts tails, so bytes overwritten too early or never
written would show. A byte has `BASE` values, any even number; with two the three encodings keep
their sizes (2, 4 and 8 bytes) and hold -2..1, -8..7 and -128..127. Byte order conversion is
the identity on the supported platforms.

Members are the integers `string2ll` accepts and other strings, some longer than
`set_max_listpack_value`. Text and number are the same member: a listpack stores both as the
integer, and a table stores the text. A listpack is the sequence of its entries, a table the
set of its keys and its auto-resize pause counter; buckets, rehash and allocation sizes are
in `Dict`, checked with the sorted set. A table's walk order matters to no result: replies are
compared as sets, and nothing is ever converted from a table. A blob is its list of members,
accepted with duplicates; a malformed one raises before a payload exists. Arguments of the
wrong kind are refused in a first pass before any change, and running out of memory aborts:
neither is an action. The quicksorts of operands and of a
dump's members are modelled by their result (`SortBy`), and a loop that keeps some elements of a
sequence is the fold `Select`.

### Hll

`obj` is each handle's string: the encoding, the opcodes or the registers, the allocated bytes
(sparse only) and the cached cardinality. `hllSparseSet` is taken apart into the steps its
comments number: `MakeRoom`, the opcode that covers the register, `Split`, `Replace` with its
size limit and assertion, `MergeVals` and `Promote`. pfadd is a fold over its arguments that
stops at a bad one, as `rl_element` raises there, and the mark on the cache comes after the
loop (`Added`). An element is the pair `hllPatLen` computes. The estimate is a function of the
register histogram, so the histogram stands for it. A load may lose the end of the blob
(`Lossy`): such a value is what `hllMerge` and `hllCount` report as corrupted. `torn` is a
history variable: an error left changed registers in a value whose cache is not marked since.

### Dict, Skiplist and SortedSet

One handle, `zobj`; `want` is the map from members to scores that the commands so far should
have left, computed without the representation, and `exact` says whether the last reply was
the right one. A command is an operator on the object; random heights are chosen by `\E` for
every node a command may create, so conversions build skiplists of every shape.

`Dict` has both bucket arrays, chains in order, the counters, `rehashidx` and the entries that
a `no_value` dict keeps without a node. Lookups step the rehashing, so they change the object
(`Lookup`, `Zrandmember`). A failed assertion of the code clears `asserts`, and an insertion
through a link into the wrong array counts as one. `Skiplist` has the pointers and spans of all
levels; its walks are the loops of the code (`Advance`, `Descend`), with the ranks they add up.
`SortedSet` follows `sortedset.c`: zadd with NX, XX, GT, LT and INCR, zincrby, zrem (with an
argument that raises in the middle), zremrangeby*, zpop*, the ranges, counts, ranks and scores,
zrangestore, zunionstore, zinterstore and zdiffstore with a second operand, dump and load.

What the commands promise is stated on maps: `Only` and `Without` restrict one, `Sorted` is the order
of its members, and a range is the order of the map restricted to the members in range (`ListedIn`) or to
those at some places (`ListedAt`). zadd's two counts are the members that are new and the pairs that
change a score that was there (`Updates`): a pair changes what an earlier pair of the call
added, and the code counts that as an update.

A member is a number that says its lexicographic place; scores are integers and the
infinities, a sum that is out of range is infinite, and the only source of NaN is the sum of
opposite infinities. Not modelled:
weights, option parsing, zmpop over several handles, zrandmember's choice and replies (only the rehash steps its draws take are), dictScan and safe
iterators (no facade uses them), and members too long for a listpack, for which the module has
a constant that the run leaves empty. A bound on scores disables a command whose result
leaves `Scores`; `PAUSES` bounds how often a failed zrem may leave the dict's resizing paused.

## 3. Runs

| Run | Instance | Shows |
|---|---|---|
| `registry` | 2 threads, 3 slots, 3 socket values, 1 epoll value, tokens overlapping values; 342 000 states | `TypeOK`, `NoSharedObject`, `OpenIffOwned`, `OneHolder`, `LookupCurrent`, `StableBinding`, `RefinesFdTable` |
| `bridge` | 2 callers, 3 values, 3 bytes, buffer 2, connection 2; 247 000 states | `TypeOK`, `SocketsAccounted`, `UseOwnReader`, `EndAfterData`, `RefinesByteStream`, `InputArrives`, `CloseReturns` |
| `bridge_reuse` | 1 caller, 3 values | violated: `WorkerForwardsToBridge` |
| `share_services` | 2 services, 1 name, queried once or twice in a list, 2 addresses, 3 loads, 1 view each; 1 680 000 states | `TypeOK`, `RefExact`, `NoUseAfterFree`, `NoGraphForgotten` |
| `share_order` | 1 service, 2 coroutines, 1 name, 2 addresses, 2 loads, 2 views; 232 000 states | `UpdateAllowed`, `NeverOlder`, `CallsReturn` |
| `share_repeat` | 1 service, 1 name, queried once or twice in a list, 1 view | violated: `TransientUntilConfirm` |
| `share_nested` | 1 service, 1 view | violated: `UpdateReachesHeld` |
| `set_commands` | 1 set, 5 integers, 2 strings, limits 3, up to 4 members a call; 318 states, 1 790 000 steps | `TypeOK`, `IntsetOrdered`, `CompactWithinLimits`, `Settled`, `CommandsExact` |
| `set_operations` | 2 sets, 3 integers, 2 strings, limits 3 and 2, up to 4 operands; 3 600 states | `SmoveExact`, `OperationsExact`, `DumpCanonical` |
| `hll` | 2 HyperLogLogs of 5 registers, values up to 3 (sparse up to 2), runs of 2, 6 bytes; 126 000 states | `TypeOK`, `OpcodesTight`, `PfaddExact`, `PfmergeExact`, `CacheExact` |
| `hll_stale` | the instance of `hll` | violated: `CacheReusable` |
| `sorted_set` | 3 members, 2 scores, 2 levels, listpacks of 2, tables of 1 to 4 buckets; 3 700 states | `TypeOK`, `SkiplistSound`, `DictSound`, `CommandsExact`, `QueriesExact` |

Bounds. *Registry*: two threads give every race of two calls, and the proofs cover the rest.
Three slots for four objects reach the limit, the overlap of tokens and values makes a
confusion of the two visible. The table is allocated once, at its full size: growth with slots
in use (two doublings need 1.3 million states) is covered by the theorems, which hold for every
capacity. *Bridge*: three values are what the pair needs (listener, writer, reader), so any part
that takes one makes the pair fail or, after a close, gets one of its values; three bytes through a buffer and a connection of two make partial
reads and sends and a full connection happen. *ShareTable*: three loads over two addresses
reuse an address while an old graph is retired; two coroutines are the least that can
reorder answers, and two loads the least that give an older and a newer graph; answers with graphs of several names
are covered by the theorems, for every list of names, and not by a run; one lost reference of a repeated name
keeps a graph from being deleted, and a second one of an exit is on top of it. *RedisSet*: the integers lie on
both sides of the edges of the encodings (-9, -8; 1, 2; 8), so upgrades happen once and twice,
by a value in front and behind; limits of three with four members a call cross every limit by
size hint and one by one. `RL_SPOP_MOVE_STRATEGY_MUL` is 1 instead of 5, which makes SPOP draw
several members into a new payload with seven members. Four operands over two sets of up to
five members are the least that make SDIFF choose its second algorithm. *Hll*: five registers
with runs of at most two need several opcodes of every kind, one register value is beyond the
sparse code and six bytes are too few for the longest code, so both reasons to promote occur;
the first handle takes every element, the second is an operand that can be dense, sparse or
truncated. *SortedSet*: listpacks of two make every third member convert; two levels over three
members have a node the upper level jumps; tables start with one bucket, grow to four and shrink
below a half, and two of the three hashes share a bucket of two while the third does not, so
that a rehash is seen half done; one bucket visited per step keeps it there. The two scores are a
finite one and the infinite one, which keeps the run small: finite sums, the other infinity and
the 0 that an aggregate of opposite infinities gives are covered by the theorems, which hold for every set
of scores, and not by the run.

Symmetry is used for threads and heap addresses where a run checks safety properties only.

Fairness:

* `HandleRegistry`, `RedisSet`, `Hll`, `SortedSet`: none; no liveness is claimed. A native call
  may block for ever, and redislib's commands are single steps.
* `StdinBridge`: weak fairness of the worker, of uses and closes in progress, and of starting
  a use once the bridge exists, since the socket loop polls descriptor 0 again and again. The
  worker's `_read` is disabled without input, so it may block for ever; input and its end are
  not fair.
* `ShareTable`: weak fairness of the service and of each client's mailbox; Skynet's scheduler
  dispatches every queue that is not empty. Calls, exits and the garbage collector are not fair.

## 4. Findings

* `bridge_reuse` (`win_compat.c:266`). `stdin_bridge_close` takes a timeout of its wait for
  success and closes the writer while the worker may still be blocked in `_read`. When the
  value is given out again, the next input goes to that socket. The comment at line 28 says
  the thread forwards into the socket pair.
* `share_repeat` (`sharetable.lua:94`). `queryall` takes a reference for every occurrence of a name
  in its list, but answers, boxes and confirms the name once. A list with a name twice leaves a reference
  that the comment at line 83 calls transient until confirm, and the graph is never deleted after it was
  replaced. `RefExact` in `share_services` shows that lists and exits are the only causes: every other
  reference has a holder.
* `share_nested` (`sharetable.lua:365`). `update` reaches views through their root proxies,
  held weakly; a view of which only nested proxies are left is not moved. The README
  (line 255) says nested proxies already obtained are kept up to date.

* `hll_stale` (`facade/hll.c:186`). pfadd marks the cached cardinality only after its loop. When
  a later argument raises after a dense register was set, or after a promotion, the old
  cardinality stays marked usable, and pfcount answers with it. The kernel's comment
  (`hyperloglog.c:85-87`) says a modified value is marked. `CacheExact` in `hll` shows that this is
  the only way: without such an error the cache is right.

Observed while modelling, without a run: in `zrangestore` an offset that is out of range makes
`rl_zrange_byscore` and `rl_zrange_bylex` begin the output twice, and the first destination
object is not released (`sortedset.c:660-665`); `rl_setop_generic` does not release its array of
sources when the check of a later operand raises (`sortedset.c:1634`). Both lose memory only. A
`zrem` that raises leaves the dict's automatic resizing paused for good; `sorted_set` shows that
the table stays sound then, only its size no longer follows.

## 5. Proofs

Every component is proved: each invariant, action property and refinement that a passing run checks
is a theorem, for every value of the constants that the assumption of its module admits. The hash table (`Dict`) and
the skiplist (`Skiplist`) are proved operation by operation, and the sorted set from these theorems. TLC
evaluates the assumptions in the runs. The invariants that were found for the proofs were checked as
invariants of the runs before they were proved, except `GoodDict`, `GoodList` and the sorted set's `IInv`,
which quantify over more than TLC can enumerate; of these TLC checks what they imply.

| Module | Theorem | Statement |
|---|---|---|
| `HandleRegistryProofs` | `Invariant` | `Spec => []IInv` |
| | `TypeCorrect` | `Spec => []TypeOK` |
| | `NeverShared` | `Spec => []NoSharedObject` |
| | `NeverLeaked` | `Spec => []OpenIffOwned` |
| | `AlwaysOneHolder` | `Spec => []OneHolder` |
| | `LookupsAreCurrent` | `Spec => []LookupCurrent` |
| | `BindingsAreStable` | `Spec => StableBinding` |
| | `Refinement` | `Spec => RefinesFdTable` |
| `StdinBridgeProofs` | `TypeCorrect` | `Spec => []TypeOK` |
| | `NoSocketLost` | `Spec => []SocketsAccounted` |
| | `ReaderIsOwn` | `Spec => []UseOwnReader` |
| | `EndComesLast` | `Spec => []EndAfterData` |
| | `ForwardsStream` | `Spec => RefinesByteStream` |
| `ShareTableProofs` | `TypeCorrect` | `Spec => []TypeOK` |
| | `CountsExact` | `Spec => []RefExact` |
| | `NothingFreedEarly` | `Spec => []NoUseAfterFree` |
| | `NothingForgotten` | `Spec => []NoGraphForgotten` |
| | `UpdatesAllowed` | `Spec => []UpdateAllowed` |
| | `NothingOlder` | `Spec => NeverOlder` |
| `HllProofs` | `TypeCorrect` | `Spec => []TypeOK` |
| | `CodeStaysTight` | `Spec => []OpcodesTight` |
| | `PfaddCorrect` | `Spec => []PfaddExact` |
| | `PfmergeCorrect` | `Spec => []PfmergeExact` |
| | `CacheCorrect` | `Spec => []CacheExact` |
| `RedisSetProofs` | `IntsetFindIs` | `intsetFind` is membership in a good intset |
| | `IntsetAddIs` | `intsetAdd` on a good intset is `AddEffect` |
| | `IntsetRemoveIs` | `intsetRemove` on a good intset is `RemoveEffect` |
| | `Soundness` | `Spec => []IInv` |
| | `TypeCorrect` | `Spec => []TypeOK` |
| | `IntsetsOrdered` | `Spec => []IntsetOrdered` |
| | `CompactBounded` | `Spec => []CompactWithinLimits` |
| | `AlwaysSettled` | `Spec => []Settled` |
| | `CommandsCorrect` | `Spec => []CommandsExact` |
| | `SmoveCorrect` | `Spec => []SmoveExact` |
| | `OperationsCorrect` | `Spec => []OperationsExact` |
| | `DumpsCanonical` | `Spec => []DumpCanonical` |
| `StructureProofs` | `DictCreateIs` | `dictCreate` is `GoodDict` with no keys |
| | `DictFindIs` | `dictFindLink` on a good dict is `Found` |
| | `DictSetKeyAtLinkIs` | `dictSetKeyAtLink` at a good link makes a good dict with the key added |
| | `DictAddIs` | `dictAdd` makes a good dict with the key added |
| | `DictDeleteIs` | `dictGenericDelete` on a good dict is `Deleted` |
| | `DictPauseIs` | pausing and resuming keep a good dict |
| | `DictGetSomeKeysIs` | the rehashing of `dictGetSomeKeys` keeps a good dict |
| | `DictSoundIs` | a good dict satisfies `WellPlaced` and `Holds`, and no assertion failed |
| | `ZslCreateIs` | `zslCreate` is `ZslSound` with no nodes |
| | `ZslInsertIs` | `zslInsert` of a new element keeps `ZslSound` and adds its score and height |
| | `ZslDeleteIs` | `zslDelete` of a node keeps `ZslSound` and removes its score |
| | `ZslUpdateScoreIs` | `zslUpdateScore` keeps `ZslSound` and changes one score |
| | `ZslSoundIs` | a sound list is `LinkedAs(z, Sorted(z.score))`, `Walked(z)` is that order, no assertion failed |
| | `ZslRankIs` | `zslGetElementByRank` and `zslGetRankByNode` are inverse |
| | `ZslNthInRangeIs` | `zslNthInRange` is the offset's element of the range's part of the order |
| `SortedSetProofs` | `Soundness` | `Spec => []IInv` |
| | `TypeCorrect` | `Spec => []TypeOK` |
| | `SkiplistAlwaysSound` | `Spec => []SkiplistSound` |
| | `DictAlwaysSound` | `Spec => []DictSound` |
| | `CommandsAlwaysExact` | `Spec => []CommandsExact` |
| | `QueriesAlwaysExact` | `Spec => []QueriesExact` |

### The registry

Assumed (`RegistryAssumption`): values are naturals, `HANDLE_ID_BASE` and `FIRST_CAPACITY` are
positive. `SocketValues` and `EpollValues` may be infinite.

No property is inductive alone: that `closesocket` closes the right object
needs that the object in hand is nobody else's, which needs that a taken token had one
holder, which needs to know what each call in progress holds. So `HolderInv` adds to `TypeOK`
and `OneHolder` three facts about control: `HandShape` (a thread has an object in hand exactly
while it is between creation and registration or between take and release, and a token in
`tok` exactly while it passes one on), `AskShape` (the descriptors a call uses are held for as
long as it uses them, by the application or by the pipe that made the call) and `PipeShape`
(which locals of a pipe are set at each of its stages). One lemma per action shows that it
keeps `HolderInv`. Opening a raw socket keeps it only if
a held raw descriptor is open, so `HolderInv` is not inductive on its own either. `IInv` adds
`NoSharedObject` and `OpenIffOwned`, which give that fact; `HandleRegistryProofs` shows that
each action keeps them.

`StableBinding` and `LookupCurrent` follow from one lemma: a step that leaves a descriptor
held leaves what it resolves to. For `LookupCurrent`, `AskShape` says the descriptors of a
call stay held until it returns. The refinement uses `IInv`: publishing a token binds it,
because its slot was free and its object has no other slot; taking binds nothing and unbinds
one; opening and taking a raw socket bind and unbind its own number; every other step leaves
`Binding` unchanged.

### The stdin bridge

Assumed (`BridgeAssumption`): the invalid socket is no value, the buffer and the connection hold
at least a byte. Callers and values are any sets, the input has any length.

The sockets are accounted for because one thread at a time changes them, so the invariant is about
who that is: `OnceInv` (one initialiser, exactly while `INIT_ONCE` runs), `CloserInv` (one closer, of
a bridge that was started, and no use while it closes), `LocalInv` (which locals of
`native_socket_pair` are set at each step), `GlobalInv` (the globals before, during and after the
life of the bridge) and `WorkerInv` (the worker exists from before the globals are stored, and its
socket is the writer until a close takes it). `DataInv` says where the bytes are that `_read`
returned and why the worker left its loop; `EndComesLast` needs it to know that nothing is in the
buffer when the connection is shut down. The refinement maps the bytes in the connection and in the
buffer to the stream's bytes in flight.

### sharetable

Assumed (`ShareTableAssumption`): finitely many clients and names, so that references can be
counted, a client for each coroutine, queries of lists of names, with or without repetitions, and a `Nil` that is no address, coroutine, name or view. There
are any number of coroutines and addresses, live or reused.

`RefExact` counts the boxes of all clients, the answers in all mailboxes, the confirmations in the
service's, and what nobody gives back (`lost`). A query adds to a graph's count the occurrences of its name
(`TakenGraphs`): one of them goes to the answer, if its client is there, and the others to `lost`. `IInv` adds what a count cannot say. `CallInv`: a coroutine has one call under way, which
is in the service's mailbox, owed by the service or answered, and an answer carries graphs for the
call's names only; without it an answer could be received twice. `RefInv`: besides the exact count, a
graph somebody refers to is live and not `doomed`. This is the point of the race between
`CollectCheck` and `CollectDelete`: a client can only add a reference to a graph it has one to, and the
service hands out current graphs only, so a retired graph's count that was read as 0 stays 0. `ReachInv`: a live graph is current or retired, current under one
name, and the doomed one is retired. A sum over a finite set is reasoned about as the cardinality of
a disjoint union (`Spread`), which makes "one more here" a fact about finite sets.

The order needs a second invariant on top, `OrderInv`: live graphs were installed at different times
(`VersionInv`), what a client's view shows, caches or is going to be told is a graph of the right name
that is current or dirty (`HeldFor`), and for each client the versions of a view's `doc` and `pointer`,
of the cached view and of the answers in its mailbox are in order. The service answers one
message at a time and mailboxes are FIFO, so an answer behind another is never older.

### The HyperLogLog

Assumed (`HllAssumption`): at least one register, runs of at least one, the sparse code's values are
register values (32 and 51 in the code), a positive limit that has room for the empty value, and
argument lists of elements and bad arguments. Nothing bounds the registers, the lengths or the lists.

`IInv` says that every handle has a `Tight` sparse code or dense registers and that `CacheExact`
holds. Tight is more than `OpcodesTight`: the opcodes' total length is at most `HLL_REGISTERS`, so that a
code is complete or cut short, never too long.

The model walks opcodes with folds, so everything rests on induction over data. The library's
induction theorems take an operator, which the provers cannot instantiate. `FoldLemmas` therefore
states induction for a *set* of naturals and a *set* of sequences (`NatSet`, `SeqSet`, from the
well-foundedness of `<`), and describes a fold by the function of its intermediate values
(`Accumulates`), so that each fact about a fold is an ordinary induction along that function.
`HllProofs` does this for the walk, the byte count, the merge loop, pfadd's loop and pfmerge's loop.

* `Sets`: a walk over the code reads `count` at one index and is otherwise unchanged, for each way of
  splitting the opcode that covers the index.
* The merge loop: before step 4 only pairs in a window of four opcodes from `prev` can be mergeable
  (`Clean`). A turn that moves on shortens the window, and so does one that merges: a merged opcode is
  longer than each part, so it does not fit a neighbour that a part did not fit. After five turns no
  mergeable pair is left. Merging changes nothing that a walk reads.
* The assertion in step 3: a replacement adds at most three bytes, and `MakeRoom` leaves room for three
  unless the allocation is already at the limit, where the size check promotes first; so no assertion
  fails.
* pfadd is then an induction over the arguments up to the first bad one, pfmerge one over the registers,
  with the promotion to dense possible at any of them.

### The intset and the set

Assumed (`IntsetAssumption`): a byte has an even number of values. Assumed (`RedisSetAssumption`): the
integers among the members fit 8 bytes and are no strings, the members are finitely many and have a
byte order, the limits are naturals, `NULL` and `Freed` are no payloads. The limits may be 0, so that
an encoding is never used; handles, members, lengths of calls and operands are not bounded.

The intset is about bytes. `Holding(is, e)` says that the block consists of the encodings of the
elements `e`, one after the other and nothing else, and `GoodIntset` that they ascend. Decoding undoes
encoding for every value an encoding holds. The upgrade rewrites the elements from the last one down in
the block it reads them from: after each of them the elements still to come are untouched in the old
width, because their old place is below the new place of all that were written, with the new value in
front of them or behind them. The move of a tail is a splice of the block. The search keeps that the
elements before `min` are smaller and those behind `max` larger than the value. The three theorems then
say that a good intset stays good and that the commands are those of a set.

`IInv` says that each handle is freed, has no payload, or has a payload that is not empty and `Good` for
its encoding: a good intset of integers that are members, a listpack without duplicates or long members,
both within their limits, or a table whose resizing is not paused. None of the properties is inductive:
`CompactWithinLimits` needs that a conversion meets no duplicate and that a miss of the search is a miss,
so it needs `IntsetOrdered`, and the exactness of a command needs all of it. Within a command the payload
is `Good` with one pause of the table's resizing, or empty, and never both at the end.

Everything the commands do is then stated once for all encodings (`Is(set, p, S)`: a good payload that
holds the set `S`): `setTypeAdd`, `setTypeRemove` and the conversions between encodings, then the loops
over arguments, drawn members and operands, which are folds with an accumulator in the sense of
`FoldLemmas`. The commands and the operations follow by composing these lemmas.

* SPOP with a count removes the members it draws, or draws the ones it keeps into a new payload; both ways
  split the set in two.
* SRANDMEMBER on a listpack picks along a backward recursion: whatever is picked ascends in position, so it
  repeats nothing.
* SUNION's loop stops at the limit, so its invariant is exact before the limit and says "at least" from it on.
* SDIFF by subtraction loops over the operands with "the first set without the members so far"; the loop over
  one operand is a removal of many. The early exit on an empty result changes nothing.
* `SortBy` returns the same members in the order of the key; two sequences sorted by the byte order with the
  same members are equal, and this makes dumps canonical.

### The hash table

Assumed (`DictAssumption`): hashes are naturals, and so are the initial exponent, the fill percentage and
the limit of empty visits. Keys, hash function and thresholds are otherwise free; the hash function may be
constant.

`GoodDict(d, K)` is what every operation keeps: the record has its fields; each array has `1 << exp`
buckets, or none with `exp = -1`; a chain has no key twice, its inline entry last, and holds only keys whose
hash names its bucket; buckets before `rehashidx` are empty; no key is in both arrays; the counters are the
cardinalities; there is a second array exactly during a rehash; no assertion has failed; and `K` is what the
two arrays hold together. `WellPlaced` and `Holds`, which `DictSound` is made of, do not suffice: that a key
found in no array may be inserted needs that its absence from one bucket is its absence from the table, and
that a rehash step loses nothing needs that the bucket it moves a key to is the one the key's hash names in
the other array.

* Masks: `Slot(h, e)` is `h` modulo a power of two, and shrinking reads the destination from the bucket's
  own index, `idx & mask`, instead of hashing again; `SlotOfSlot` shows both to be the same.
* A rehash step is a fold over a chain (`MoveAll`); along it the keys that were moved and those still to come
  partition the keys (`Moving`, by the method of `FoldLemmas`). Skipping empty buckets ends at a full one
  or at the limit, and the last step swaps the arrays only when the first one is empty.
* A lookup moves one bucket first. It may therefore complete the rehash and change which array is
  searched; after it the key's bucket in the array that takes keys is still what is returned.
* `dictSetKeyAtLink` uses a link looked up earlier. `GoodBucket` is what `dictFindLink` returned; the theorem
  says the insertion is right even when `dictExpandIfNeeded` starts a rehash in between. This is the hazard at
  `dict.c:894`.
* `DictAddIs` requires that a dict without an array has its resizing not paused: `dictAdd` would otherwise
  insert in an array that is not there. The sets and sorted sets pause resizing only on a dict that has one.

### The skiplist

Assumed (`SkiplistAssumption`): there is at least one level, and `ZSKIPLIST_MAX_SEARCH` is a natural.
Elements are positive naturals, scores are integers; the length of the list and the heights of its nodes are
not bounded otherwise, and every theorem holds for every choice of heights that `zslRandomLevel` can make.

`ZslSound(z)` says that some sequence `ord` of the elements makes `GoodList(z, ord)`: `ord` lists the elements
in the order of score and element, and everything else in the list is computed from `ord` and the heights. The
forward pointer of place `a` (the header is place 0) at level `i` is `NextAt`, the next place of a node with
more than `i` levels; its span is the difference of the two places; the backward pointer is the place before;
tail, length and level are those of `ord`. `LinkedAs`, which `SkiplistSound` uses, says as much of the nodes
and nothing of the unused entries of the header above the list's level, which an insertion reads.

* A search moves along a level while a predicate holds. If the predicate holds exactly for the places up to
  some place, the search leaves level `i` at the last place up to there that reaches level `i`, having crossed
  as many elements as that place says (`Advance` and `Descend` are recursive functions, so this is an induction
  along them by the method of `FoldLemmas`). `update[]`, `rank[]`, the rank searches and both ends of a range
  are instances.
* Insertion and deletion change the heights by `Opened` and `Closed`: the new place shifts all behind it by
  one. Whether the node's own levels, levels above it, or levels the list did not have before: each pointer and
  span written is the one `NextAt` names after the shift.
* `zslUpdateScore` leaves the node in place only if its neighbours allow it; otherwise it is a deletion
  and an insertion.
* `zslNthInRange` finds one end of the range and then steps, or goes by rank, from the range's end or from the
  last node of the top level. `RangeCut(z, ord, r, lo, hi)` says that the places before `lo` are below the
  range `r` and those behind `hi` above it. Then each way ends at the same place, including offsets that leave
  the range on either side.

### The sorted set

Assumed (`SortedSetAssumption`): members are positive naturals with a hash; scores, increments and the
scores of operands lie between the infinities; argument lists, ranges, rank ranges and offsets have their
types, which parsing has checked before anything changes; an operand is a listpack as a handle can hold
it, in order and without a member twice; the limits are naturals. The sets of members, scores and arguments may be
infinite, the heights are any, a listpack's limit may be 0.

`Good(z, m, p)` relates an object to a map: `z` is the listpack of `m`'s entries in the order of `m`, or a
skiplist that is a `GoodList` for that order with `m` as its scores, together with a `GoodDict` of exactly the members of `m`,
paused `p` times. `IInv` says that `zobj` is good for `want`, within the limits of its encoding, with at most
`PAUSES` pauses, and that every reply was exact. The five properties follow from it and none of them is
inductive: that a command is exact needs that the search, by key in the dict or by score in the
skiplist, finds the member, so it needs both structures sound, and that they stay sound needs that they hold the
same members before. `LinkedAs` and `WellPlaced` leave out what an insertion reads, as said above.

Each operation is shown to take an object that is good for a map to one that is good for the map it
should leave; conversions between the encodings keep the map. Then the loops, which are folds: by the method
of `FoldLemmas` the n-th value of the accumulator is good for the map after n arguments.

* zadd: `AddOut` says for a map what `zsetAdd` answers, `Wanted` what the options ask for; they agree on
  every combination of NX, XX, GT, LT and INCR, also when the sum is no number (`AddOneIs`, `IncrementIs`). A
  listpack may become a skiplist at any argument, so `Adding` also keeps that there is a height for each member
  a conversion would insert.
* zrem: the loop stops at the argument that raises or when the set is empty. Stopping early removes what the
  rest would have removed, which is nothing. The raise leaves one more pause and skips the shrinking, which is
  why `Good` has `p` and why every lemma holds for a paused dict.
* zpop takes the end of the order again and again: what is left of an order is a part of it (`SubOrder`,
  `CutIs`).
* Unions and differences are collected in a dict of their own (`Stage`), while lookups in the operand move its
  buckets; what is met twice is aggregated in the order of the sets' sizes, and the aggregates commute, so that
  the result does not depend on this order. The iteration yields each member once, in some order, and the
  store sorts it again.
* Ranges: a range that is meant cuts the order in two places (`MapCut`). The first and last entry in range of a
  listpack, `zslNthInRange`, the run along the list in either direction, the offset by steps or by rank and the
  limit are all expressed by these places. A lexicographic range over different scores has no meaning, but a
  removal or store by it still leaves a sound object with members of the set.
* Ranks: `Sanitize` yields exactly the places the two bounds denote from either end (`SanitizeIs`).

### Only model-checked

* Liveness (`InputArrives`, `CloseReturns`, `CallsReturn`): fairness and ENABLED are out of this prover's
  reach.
* The findings: a violation is a counterexample.

## 6. Plan

Done, with their proofs: the descriptor registry, the stdin bridge, sharetable, the HyperLogLog, the
set, the hash table, the skiplist and the sorted set. Next, in this order:

1. `Codec`: encode and decode of graphs with cycles, the round trip and the stability of path
   identifiers over all graphs of three nodes (TLC only).
2. `Bitfield` (overflow policies at a small width against a reference), `StringPack`
   (alignment).

## 7. Not modelled

* Termination of `skynetjit_pipe`: each of its calls is one step of the model and its stages only
  move forward; that the native calls return is an assumption about the OS.
* dictScan and safe iterators: present in `dict.c`, called by no facade.
* Geo: floating-point geometry, which TLC has no numbers for; `listpack.c`'s byte layout, hashing,
  string and float conversion: taken over from Redis, abstracted to what they return.
* The C API shims (a model would be one of LuaJIT's stack), the patch against a submodule that
  is not in the repository, the bundled third-party libraries, build scripts and tests.
