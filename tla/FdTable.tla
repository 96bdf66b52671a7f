------------------------------- MODULE FdTable ------------------------------
(***************************************************************************)
(* What a descriptor layer promises: descriptors denote native objects one *)
(* to one, a descriptor changes what it denotes only by being closed first,*)
(* and one step binds or unbinds one descriptor.                           *)
(***************************************************************************)
CONSTANTS Fd, Obj

VARIABLE binding    \* the pairs <<descriptor, object>> in force

Bound(fd) == \E o \in Obj : <<fd, o>> \in binding
Taken(o) == \E fd \in Fd : <<fd, o>> \in binding

Init == binding = {}

\* A fresh descriptor for an object that has none.
Bind(fd, o) ==
    /\ ~Bound(fd) /\ ~Taken(o)
    /\ binding' = binding \cup {<<fd, o>>}

\* The descriptor is given back.
Unbind(fd, o) ==
    /\ <<fd, o>> \in binding
    /\ binding' = binding \ {<<fd, o>>}

Next == \E fd \in Fd, o \in Obj : Bind(fd, o) \/ Unbind(fd, o)

Spec == Init /\ [][Next]_binding

=============================================================================
