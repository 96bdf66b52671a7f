----------------------------- MODULE ShareTable -----------------------------
(***************************************************************************)
(* compat/lua/skynet/sharetable.lua: tables shared between Skynet services.*)
(*                                                                         *)
(* One service owns the encoded graphs.  They live in the C heap of        *)
(* sharedata with an atomic reference count; files[name] holds one         *)
(* reference, every box a client makes of a graph holds one until the      *)
(* garbage collector finalises it, and a query's answer carries one that   *)
(* the client gives back with `confirm' once it has a box of its own.      *)
(* queryall takes a reference for every occurrence of a name in its list   *)
(* and gets one answer, and one confirm, for each name.                    *)
(* A replaced graph is retired and deleted when its count is found 0.      *)
(*                                                                         *)
(* Services run in parallel and exchange messages through FIFO mailboxes;  *)
(* a client's coroutines interleave where they wait for an answer.         *)
(* Addresses are reused once a graph is deleted.                           *)
(*                                                                         *)
(* The reference count, box and update are sharedata's (external): box     *)
(* takes a reference, update needs a graph marked dirty and leaves a       *)
(* pending box that the next access switches to.                           *)
(***************************************************************************)
EXTENDS Integers, Sequences, FiniteSets

CONSTANTS
    Clients,      \* services that use sharetable
    Coroutines,   \* their coroutines
    Home,         \* Home[k] is the client coroutine k runs in
    Names,        \* names of shared tables
    Lists,        \* lists of names that are queried
    Ptr,          \* heap addresses
    Nil,          \* no graph, no view
    LOADS,        \* bound: graphs ever installed
    VIEWS,        \* bound: views a client has at a time
    REPEATS       \* bound: references lost to a graph when a list still repeats a name

ASSUME ShareTableAssumption ==
    /\ IsFiniteSet(Clients) /\ IsFiniteSet(Names)
    /\ Home \in [Coroutines -> Clients]
    /\ Lists \subseteq Seq(Names)
    /\ LOADS \in Nat /\ VIEWS \in Nat /\ REPEATS \in Nat
    /\ Nil \notin Ptr /\ Nil \notin Coroutines /\ Nil \notin Names /\ Nil \notin 1 .. VIEWS

VARIABLES
    files,      \* service: name -> graph
    retired,    \* service: replaced graphs not deleted yet
    todo,       \* service: retired graphs collect_retired has still to look at
    doomed,     \* service: the graph it found without references
    owed,       \* service: the coroutine whose load it answers after collecting
    heap,       \* the graphs: live, ref, dirty, version
    loads,      \* graphs installed so far
    inbox,      \* the service's mailbox
    replies,    \* answers in each client's mailbox
    co,         \* what each coroutine waits for
    views,      \* a client's views
    cache,      \* a client's cache: name -> view
    roots,      \* names a client has a roots_by_name table for
    dead,       \* boxes the collector has not finalised: client -> graph -> count
    gone,       \* clients that exited
    lost        \* history: references nobody gives back, of answers nobody received
                \* and of the further occurrences of a name in a list

service == <<files, retired, todo, doomed, owed, loads>>
client  == <<views, cache, roots, dead, gone>>
vars == <<service, client, heap, inbox, replies, co, lost>>

-----------------------------------------------------------------------------

View == 1 .. VIEWS

\* A free view slot, and a graph that is not there.
NoView == [name |-> Nil, pointer |-> Nil, doc |-> Nil, pending |-> Nil,
           root |-> "gone", nested |-> FALSE]
NoGraph == [live |-> FALSE, ref |-> 0, dirty |-> FALSE, version |-> 0]

Idle == [op |-> "none", names |-> {}]

\* The proxy of the root is in roots_by_name until the collector clears it.
Listed(c, v, name) == views[c][v].name = name /\ views[c][v].root # "gone"

\* Mutant of IncRef: the box takes no reference.
IncRefNone(h, p, n) == h

IncRef(h, p, n) == [h EXCEPT ![p].ref = @ + n]
DecRef(h, p) == [h EXCEPT ![p].ref = @ - 1]

NamesOf(list) == {list[i] : i \in DOMAIN list}

Call(k, op, list) ==
    /\ Home[k] \notin gone
    /\ co[k] = Idle
    /\ co' = [co EXCEPT ![k] = [op |-> op, names |-> NamesOf(list)]]
    /\ inbox' = Append(inbox, [op |-> op, co |-> k, names |-> list, pointer |-> Nil])

Confirm(p) == [op |-> "confirm", co |-> Nil, names |-> <<>>, pointer |-> p]

-----------------------------------------------------------------------------
(* The service *)

\* collect_retired starts after a handler changed a count.
Collect == todo' = retired'

Ready == inbox # <<>> /\ todo = {} /\ doomed = Nil /\ owed = Nil

\* Mutant of Reply: an answer overtakes the ones that wait.
ReplyOvertakes(k, pointers) ==
    IF Home[k] \in gone THEN UNCHANGED replies
    ELSE replies' = [replies EXCEPT ![Home[k]] =
                        <<[co |-> k, pointers |-> pointers]>> \o @]

\* skynet.retpack, to the end of the caller's mailbox.
Reply(k, pointers) ==
    IF Home[k] \in gone THEN UNCHANGED replies
    ELSE replies' = [replies EXCEPT ![Home[k]] =
                        Append(@, [co |-> k, pointers |-> pointers])]

\* Mutant of Install: the replaced graph is not marked dirty.
InstallClean(name, p) ==
    LET old == files[name]
        fresh == [live |-> TRUE, ref |-> 1, dirty |-> FALSE, version |-> loads + 1]
    IN  /\ files' = [files EXCEPT ![name] = p]
        /\ heap' = [q \in Ptr |-> IF q = p THEN fresh
                                  ELSE IF q = old THEN [heap[q] EXCEPT !.ref = @ - 1]
                                  ELSE heap[q]]
        /\ retired' = IF old = Nil THEN retired ELSE retired \cup {old}

\* Mutant of Install: the replaced graph is not retired.
InstallForgets(name, p) ==
    LET old == files[name]
        fresh == [live |-> TRUE, ref |-> 1, dirty |-> FALSE, version |-> loads + 1]
    IN  /\ files' = [files EXCEPT ![name] = p]
        /\ heap' = [q \in Ptr |-> IF q = p THEN fresh
                                  ELSE IF q = old
                                  THEN [heap[q] EXCEPT !.dirty = TRUE, !.ref = @ - 1]
                                  ELSE heap[q]]
        /\ UNCHANGED retired

\* install: the new graph takes the owner's reference, the old one is marked dirty,
\* loses it and is retired.
Install(name, p) ==
    LET old == files[name]
        fresh == [live |-> TRUE, ref |-> 1, dirty |-> FALSE, version |-> loads + 1]
    IN  /\ files' = [files EXCEPT ![name] = p]
        /\ heap' = [q \in Ptr |-> IF q = p THEN fresh
                                  ELSE IF q = old
                                  THEN [heap[q] EXCEPT !.dirty = TRUE, !.ref = @ - 1]
                                  ELSE heap[q]]
        /\ retired' = IF old = Nil THEN retired ELSE retired \cup {old}

\* loadgraph, loadfile, loadstring: core.host.new gives an address not in use.
ServeLoad ==
    /\ Ready /\ Head(inbox).op = "load" /\ loads < LOADS
    /\ \E name \in NamesOf(Head(inbox).names), p \in Ptr :
        /\ ~heap[p].live
        /\ Install(name, p)
    /\ Collect
    /\ loads' = loads + 1
    /\ owed' = Head(inbox).co
    /\ inbox' = Tail(inbox)
    /\ UNCHANGED <<doomed, client, replies, co, lost>>

\* The chunk of a loadfile or loadstring fails: an error answer, nothing installed.
ServeLoadError ==
    /\ Ready /\ Head(inbox).op = "load"
    /\ inbox' = Tail(inbox)
    /\ Reply(Head(inbox).co, <<>>)
    /\ UNCHANGED <<service, client, heap, co, lost>>

\* The transient references a query of the list takes: one for every occurrence of a
\* name that has graph p.
Taken(list, p) == Cardinality({i \in DOMAIN list : files[list[i]] = p})

QueryRefs(list) == [p \in Ptr |-> [heap[p] EXCEPT !.ref = @ + Taken(list, p)]]

\* A confirm gives one of them back, if the client is there for the answer.
Unreturned(k, list, p) ==
    IF Home[k] \notin gone /\ Taken(list, p) > 0 THEN Taken(list, p) - 1 ELSE Taken(list, p)

\* Mutant of ServeQuery: a name without a graph gets no answer.
ServeQueryMute ==
    /\ Ready /\ Head(inbox).op \in {"query", "update"}
    /\ LET k == Head(inbox).co
           list == Head(inbox).names
           found == {n \in NamesOf(list) : files[n] # Nil}
       IN  /\ heap' = QueryRefs(list)
           /\ IF found = {} THEN UNCHANGED replies
              ELSE Reply(k, [n \in found |-> files[n]])
           /\ lost' = [p \in Ptr |-> lost[p] + Unreturned(k, list, p)]
    /\ inbox' = Tail(inbox)
    /\ UNCHANGED <<service, client, co>>

\* query, queryall: the graphs of the names that have one, each name once.  The answer
\* to a client that exited is dropped, with its references.
ServeQuery ==
    /\ Ready /\ Head(inbox).op \in {"query", "update"}
    /\ LET k == Head(inbox).co
           list == Head(inbox).names
           found == {n \in NamesOf(list) : files[n] # Nil}
       IN  /\ heap' = QueryRefs(list)
           /\ Reply(k, [n \in found |-> files[n]])
           /\ lost' = [p \in Ptr |-> lost[p] + Unreturned(k, list, p)]
    /\ inbox' = Tail(inbox)
    /\ UNCHANGED <<service, client, co>>

\* confirm: the transient reference comes back; no answer.
ServeConfirm ==
    /\ Ready /\ Head(inbox).op = "confirm"
    /\ heap' = DecRef(heap, Head(inbox).pointer)
    /\ UNCHANGED retired /\ Collect
    /\ inbox' = Tail(inbox)
    /\ UNCHANGED <<files, doomed, owed, loads, client, replies, co, lost>>

\* Mutant of CollectCheck: any retired graph is deleted.
CollectCheckNothing ==
    /\ doomed = Nil
    /\ \E p \in todo : todo' = todo \ {p} /\ doomed' = p
    /\ UNCHANGED <<files, retired, owed, loads, client, heap, inbox, replies, co, lost>>

\* collect_retired reads a count while clients change theirs ...
CollectCheck ==
    /\ doomed = Nil
    /\ \E p \in todo :
        /\ todo' = todo \ {p}
        /\ doomed' = IF heap[p].ref <= 0 THEN p ELSE Nil
    /\ UNCHANGED <<files, retired, owed, loads, client, heap, inbox, replies, co, lost>>

\* ... and deletes the graph afterwards.
CollectDelete ==
    /\ doomed # Nil
    /\ heap' = [heap EXCEPT ![doomed] = NoGraph]
    /\ retired' = retired \ {doomed}
    /\ doomed' = Nil
    /\ UNCHANGED <<files, todo, owed, loads, client, inbox, replies, co, lost>>

\* A load is answered when collect_retired has returned.
AnswerLoad ==
    /\ owed # Nil /\ todo = {} /\ doomed = Nil
    /\ Reply(owed, <<>>)
    /\ owed' = Nil
    /\ UNCHANGED <<files, retired, todo, doomed, loads, client, heap, inbox, co, lost>>

Service ==
    \/ ServeLoad \/ ServeLoadError \/ ServeQuery \/ ServeConfirm
    \/ CollectCheck \/ CollectDelete \/ AnswerLoad

-----------------------------------------------------------------------------
(* The clients *)

CallLoad(k) ==
    /\ \E n \in Names : Call(k, "load", <<n>>)
    /\ UNCHANGED <<service, client, heap, replies, lost>>

\* Views client c may still need for the queries it waits for.
Expected(c) ==
    {w \in Coroutines \X Names :
        Home[w[1]] = c /\ co[w[1]].op = "query" /\ w[2] \in co[w[1]].names}

\* query of one name, queryall of a list, within the bounds VIEWS and REPEATS.
CallQuery(k) ==
    /\ \E list \in Lists :
        /\ Cardinality(Expected(Home[k])) + Cardinality(NamesOf(list))
              <= Cardinality({v \in View : views[Home[k]][v] = NoView})
        /\ Cardinality(NamesOf(list)) < Len(list) => \A p \in Ptr : lost[p] < REPEATS
        /\ Call(k, "query", list)
    /\ UNCHANGED <<service, client, heap, replies, lost>>

\* update asks only for a name the client has had a view of.
CallUpdate(k) ==
    /\ \E n \in roots[Home[k]] : Call(k, "update", <<n>>)
    /\ UNCHANGED <<service, client, heap, replies, lost>>

\* The answer at the head of client c's mailbox.
Answer(c) == Head(replies[c])
Arrived(c, op) == replies[c] # <<>> /\ co[Answer(c).co].op = op

\* The coroutine has handled the pointer of name n, or the whole answer.
Handled(c, n) ==
    LET rest == DOMAIN Answer(c).pointers \ {n} IN
    replies' = [replies EXCEPT ![c][1].pointers =
                    [m \in rest |-> Answer(c).pointers[m]]]

Resume(c) ==
    /\ replies' = [replies EXCEPT ![c] = Tail(@)]
    /\ co' = [co EXCEPT ![Answer(c).co] = Idle]

\* A load returns; a query returns when every pointer of its answer is boxed.
Return(c) ==
    /\ Arrived(c, "load") \/ Arrived(c, "query")
    /\ Answer(c).pointers = <<>>
    /\ Resume(c)
    /\ UNCHANGED <<service, client, heap, inbox, lost>>

\* box, the cached view already shows the graph.
BoxCached(c) ==
    /\ Arrived(c, "query")
    /\ \E n \in DOMAIN Answer(c).pointers :
        LET p == Answer(c).pointers[n]
            v == cache[c][n]
        IN  /\ v # Nil /\ views[c][v].pointer = p
            /\ views' = [views EXCEPT ![c][v].root = "held"]
            /\ inbox' = Append(inbox, Confirm(p))
            /\ Handled(c, n)
    /\ UNCHANGED <<service, cache, roots, dead, gone, heap, co, lost>>

\* box, new_view and remember: the view's own reference is taken before the
\* transient one is given back.
BoxNew(c) ==
    /\ Arrived(c, "query")
    /\ \E n \in DOMAIN Answer(c).pointers, v \in View :
        LET p == Answer(c).pointers[n] IN
        /\ cache[c][n] # Nil => views[c][cache[c][n]].pointer # p
        /\ views[c][v] = NoView
        /\ views' = [views EXCEPT ![c][v] =
                        [name |-> n, pointer |-> p, doc |-> p, pending |-> Nil,
                         root |-> "held", nested |-> FALSE]]
        /\ cache' = [cache EXCEPT ![c][n] = v]
        /\ roots' = [roots EXCEPT ![c] = @ \cup {n}]
        /\ heap' = IncRef(heap, p, 1)
        /\ inbox' = Append(inbox, Confirm(p))
        /\ Handled(c, n)
    /\ UNCHANGED <<service, dead, gone, co, lost>>

\* The views an update to p moves, by core.update.
Stale(c, n, p) == {v \in View : Listed(c, v, n) /\ views[c][v].pointer # p}

\* core.update on each view: a new box is pending, an unread one is garbage.
MoveViews(c, S, p) ==
    /\ views' = [views EXCEPT ![c] = [v \in View |->
                    IF v \in S THEN [@[v] EXCEPT !.pointer = p, !.pending = p] ELSE @[v]]]
    /\ heap' = IncRef(heap, p, Cardinality(S))
    /\ dead' = [dead EXCEPT ![c] = [q \in Ptr |->
                    @[q] + Cardinality({v \in S : views[c][v].pending = q})]]

\* Mutant of Update: no confirmation when no view had to move.
UpdateSilent(c) ==
    /\ Arrived(c, "update")
    /\ Answer(c).pointers # <<>>
    /\ \E n \in DOMAIN Answer(c).pointers :
        LET p == Answer(c).pointers[n] IN
        /\ MoveViews(c, Stale(c, n, p), p)
        /\ inbox' = IF Stale(c, n, p) = {} THEN inbox ELSE Append(inbox, Confirm(p))
    /\ Resume(c)
    /\ UNCHANGED <<service, cache, roots, gone, lost>>

\* update: every listed view that shows another graph is moved, then the transient
\* reference is given back.  A name with roots was loaded and stays so, so the answer
\* always has a pointer.
Update(c) ==
    /\ Arrived(c, "update")
    /\ Answer(c).pointers # <<>>
    /\ \E n \in DOMAIN Answer(c).pointers :
        LET p == Answer(c).pointers[n] IN
        /\ MoveViews(c, Stale(c, n, p), p)
        /\ inbox' = Append(inbox, Confirm(p))
    /\ Resume(c)
    /\ UNCHANGED <<service, cache, roots, gone, lost>>

\* A read through a proxy the application holds; a pending graph takes over, the old
\* box is garbage.
Access(c, v) ==
    LET w == views[c][v] IN
    /\ w.root = "held" \/ w.nested
    /\ w.pending # Nil /\ heap[w.doc].dirty
    /\ views' = [views EXCEPT ![c][v].doc = w.pending, ![c][v].pending = Nil]
    /\ dead' = [dead EXCEPT ![c][w.doc] = @ + 1]
    /\ UNCHANGED <<service, cache, roots, gone, heap, inbox, replies, co, lost>>

\* The application takes a nested proxy, or drops its last one, or the root.
Nest(c, v) ==
    /\ views[c][v].root = "held" /\ ~views[c][v].nested
    /\ views' = [views EXCEPT ![c][v].nested = TRUE]
    /\ UNCHANGED <<service, cache, roots, dead, gone, heap, inbox, replies, co, lost>>

DropNested(c, v) ==
    /\ views[c][v].nested
    /\ views' = [views EXCEPT ![c][v].nested = FALSE]
    /\ UNCHANGED <<service, cache, roots, dead, gone, heap, inbox, replies, co, lost>>

DropRoot(c, v) ==
    /\ views[c][v].root = "held"
    /\ views' = [views EXCEPT ![c][v].root = "weak"]
    /\ UNCHANGED <<service, cache, roots, dead, gone, heap, inbox, replies, co, lost>>

\* The collector clears the weak entries of a root proxy nobody holds.
CollectRoot(c, v) ==
    /\ views[c][v].root = "weak"
    /\ views' = [views EXCEPT ![c][v].root = "gone"]
    /\ cache' = [cache EXCEPT ![c] = [n \in Names |-> IF @[n] = v THEN Nil ELSE @[n]]]
    /\ UNCHANGED <<service, roots, dead, gone, heap, inbox, replies, co, lost>>

\* A view without proxies is collected, its boxes are finalised.
CollectView(c, v) ==
    LET w == views[c][v] IN
    /\ w # NoView /\ w.root = "gone" /\ ~w.nested
    /\ views' = [views EXCEPT ![c][v] = NoView]
    /\ heap' = [q \in Ptr |-> [heap[q] EXCEPT !.ref =
                    @ - (IF q = w.doc THEN 1 ELSE 0) - (IF q = w.pending THEN 1 ELSE 0)]]
    /\ UNCHANGED <<service, cache, roots, dead, gone, inbox, replies, co, lost>>

\* A box is finalised.
Finalise(c) ==
    /\ \E p \in Ptr :
        /\ dead[c][p] > 0
        /\ dead' = [dead EXCEPT ![c][p] = @ - 1]
        /\ heap' = DecRef(heap, p)
    /\ UNCHANGED <<service, views, cache, roots, gone, inbox, replies, co, lost>>

\* References held by client c's boxes, and by the answers in its mailbox.
Boxes(c, p) ==
    dead[c][p] + Cardinality({v \in View : views[c][v].doc = p})
               + Cardinality({v \in View : views[c][v].pending = p})
Carried(c, p) ==
    Cardinality({x \in (1 .. Len(replies[c])) \X Names :
        /\ x[2] \in DOMAIN replies[c][x[1]].pointers
        /\ replies[c][x[1]].pointers[x[2]] = p})

\* The service exits: closing its Lua state finalises its boxes, its mailbox is
\* dropped with the references its answers carry.
Exit(c) ==
    /\ c \notin gone
    /\ gone' = gone \cup {c}
    /\ heap' = [p \in Ptr |-> [heap[p] EXCEPT !.ref = @ - Boxes(c, p)]]
    /\ lost' = [p \in Ptr |-> lost[p] + Carried(c, p)]
    /\ replies' = [replies EXCEPT ![c] = <<>>]
    /\ views' = [views EXCEPT ![c] = [v \in View |-> NoView]]
    /\ cache' = [cache EXCEPT ![c] = [n \in Names |-> Nil]]
    /\ roots' = [roots EXCEPT ![c] = {}]
    /\ dead' = [dead EXCEPT ![c] = [p \in Ptr |-> 0]]
    /\ co' = [k \in Coroutines |-> IF Home[k] = c THEN Idle ELSE co[k]]
    /\ UNCHANGED <<service, inbox>>

\* A client works through its mailbox.
Receive(c) == Return(c) \/ BoxCached(c) \/ BoxNew(c) \/ Update(c)

-----------------------------------------------------------------------------

Init ==
    /\ files = [n \in Names |-> Nil]
    /\ retired = {} /\ todo = {} /\ doomed = Nil /\ owed = Nil
    /\ heap = [p \in Ptr |-> NoGraph]
    /\ loads = 0
    /\ inbox = <<>>
    /\ replies = [c \in Clients |-> <<>>]
    /\ co = [k \in Coroutines |-> Idle]
    /\ views = [c \in Clients |-> [v \in View |-> NoView]]
    /\ cache = [c \in Clients |-> [n \in Names |-> Nil]]
    /\ roots = [c \in Clients |-> {}]
    /\ dead = [c \in Clients |-> [p \in Ptr |-> 0]]
    /\ gone = {}
    /\ lost = [p \in Ptr |-> 0]

Next ==
    \/ Service
    \/ \E k \in Coroutines : CallLoad(k) \/ CallQuery(k) \/ CallUpdate(k)
    \/ \E c \in Clients : Receive(c) \/ Finalise(c) \/ Exit(c)
    \/ \E c \in Clients, v \in View :
        Access(c, v) \/ Nest(c, v) \/ DropNested(c, v) \/ DropRoot(c, v)
            \/ CollectRoot(c, v) \/ CollectView(c, v)

\* Skynet dispatches every mailbox that is not empty.
Fairness == WF_vars(Service) /\ \A c \in Clients : WF_vars(Receive(c))

Spec == Init /\ [][Next]_vars /\ Fairness

-----------------------------------------------------------------------------
(* Properties *)

Message == [op : {"load", "query", "update", "confirm"}, co : Coroutines \cup {Nil},
            names : Seq(Names), pointer : Ptr \cup {Nil}]

\* Every variable has its type; in particular no count goes below 0.
TypeOK ==
    /\ files \in [Names -> Ptr \cup {Nil}]
    /\ retired \subseteq Ptr /\ todo \subseteq retired /\ doomed \in Ptr \cup {Nil}
    /\ owed \in Coroutines \cup {Nil}
    /\ heap \in [Ptr -> [live : BOOLEAN, ref : Nat, dirty : BOOLEAN, version : 0 .. LOADS]]
    /\ loads \in 0 .. LOADS
    /\ inbox \in Seq(Message)
    /\ \A c \in Clients : \A i \in 1 .. Len(replies[c]) :
          /\ replies[c][i].co \in Coroutines
          /\ \A n \in DOMAIN replies[c][i].pointers :
                n \in Names /\ replies[c][i].pointers[n] \in Ptr
    /\ co \in [Coroutines -> [op : {"none", "load", "query", "update"}, names : SUBSET Names]]
    /\ views \in [Clients -> [View ->
          [name : Names \cup {Nil}, pointer : Ptr \cup {Nil}, doc : Ptr \cup {Nil},
           pending : Ptr \cup {Nil}, root : {"held", "weak", "gone"}, nested : BOOLEAN]]]
    /\ cache \in [Clients -> [Names -> View \cup {Nil}]]
    /\ roots \in [Clients -> SUBSET Names]
    /\ dead \in [Clients -> [Ptr -> Nat]]
    /\ gone \subseteq Clients
    /\ lost \in [Ptr -> Nat]

\* The sum of a function with natural values, as the size of a disjoint union.
Sum(f) == Cardinality(UNION {{x} \X (1 .. f[x]) : x \in DOMAIN f})

\* Everything that holds a reference to p: the service, the clients' boxes, answers
\* and confirmations on their way, and what nobody gives back.
Refs(p) ==
    Cardinality({n \in Names : files[n] = p})
    + Sum([c \in Clients |-> Boxes(c, p) + Carried(c, p)])
    + Cardinality({i \in 1 .. Len(inbox) : inbox[i].op = "confirm" /\ inbox[i].pointer = p})
    + lost[p]

\* A graph's count is the number of its holders and of the references that nobody gives
\* back: loads, queries, updates, finalisers and confirmations of several services in any
\* order lose no other reference, and invent none.
RefExact == \A p \in Ptr : heap[p].live => heap[p].ref = Refs(p)

\* A query's reference lasts until confirm: when no service has exited and every answer and
\* confirmation has arrived, only the owner and the clients' boxes hold references.
TransientUntilConfirm ==
    gone = {} /\ inbox = <<>> /\ (\A c \in Clients : replies[c] = <<>>) =>
        \A p \in Ptr : heap[p].live =>
            heap[p].ref = Cardinality({n \in Names : files[n] = p})
                            + Sum([c \in Clients |-> Boxes(c, p)])

\* No graph is deleted, or about to be, while somebody can reach it; the count that
\* collect_retired read is still 0 when it deletes.
NoUseAfterFree == \A p \in Ptr : Refs(p) > 0 => heap[p].live /\ doomed # p

\* The service can still reach every graph in the heap, so none leaks for good.
NoGraphForgotten ==
    \A p \in Ptr : heap[p].live <=> p \in retired \cup {files[n] : n \in Names}

\* sharedata's "Only dirty object can be update" never fires: when an update's answer
\* names another graph than a listed view shows, the view's graph is marked dirty.
UpdateAllowed ==
    \A c \in Clients : Arrived(c, "update") =>
        \A n \in DOMAIN Answer(c).pointers :
            \A v \in Stale(c, n, Answer(c).pointers[n]) : heap[views[c][v].doc].dirty

\* A view never goes back to an older graph, nor does what query returns: the answers to
\* two coroutines of a client apply in the order the service gave them.
NeverOlder ==
    [][\A c \in Clients :
        /\ \A v \in View : views[c][v] # NoView /\ views'[c][v] # NoView =>
              heap[views[c][v].pointer].version <= heap'[views'[c][v].pointer].version
        /\ \A n \in Names : cache[c][n] # Nil /\ cache'[c][n] # Nil =>
              heap[views[c][cache[c][n]].pointer].version
                <= heap'[views'[c][cache'[c][n]].pointer].version]_vars

\* Every load, query and update returns, or its service exits.
CallsReturn == \A k \in Coroutines : co[k] # Idle ~> co[k] = Idle

\* When update returns, every proxy of the name the application holds, root or nested,
\* shows the graph update got.
UpdateReachesHeld ==
    [][\A c \in Clients : Arrived(c, "update") /\ co'[Answer(c).co] = Idle /\ c \notin gone' =>
        \A n \in DOMAIN Answer(c).pointers : \A v \in View :
            views[c][v].name = n /\ (views[c][v].root = "held" \/ views[c][v].nested)
                => views'[c][v].pointer = Answer(c).pointers[n]]_vars

=============================================================================
