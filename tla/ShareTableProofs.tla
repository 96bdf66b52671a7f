--------------------------- MODULE ShareTableProofs -------------------------
(***************************************************************************)
(* Theorems about ShareTable, for any number of services, coroutines,      *)
(* names, graphs and views: the reference counts are exact, no graph is    *)
(* freed while somebody can reach it, and none is forgotten.               *)
(***************************************************************************)
EXTENDS ShareTable, FiniteSetTheorems, SequenceTheorems, TLAPS

\* An answer: some names with their graphs.
Pointers == UNION {[S -> Ptr] : S \in SUBSET Names}
ReplyMsg == [co : Coroutines, pointers : Pointers]
ViewRec == [name : Names \cup {Nil}, pointer : Ptr \cup {Nil}, doc : Ptr \cup {Nil},
            pending : Ptr \cup {Nil}, root : {"held", "weak", "gone"}, nested : BOOLEAN]
Graph == [live : BOOLEAN, ref : Int, dirty : BOOLEAN, version : 0 .. LOADS]
Waiting == [op : {"none", "load", "query", "update"}, names : SUBSET Names]

\* Types of the service's and of the clients' variables; counts are bounded by RefInv.
ServiceTypes ==
    /\ files \in [Names -> Ptr \cup {Nil}]
    /\ retired \subseteq Ptr /\ todo \subseteq retired /\ doomed \in Ptr \cup {Nil}
    /\ owed \in Coroutines \cup {Nil}
    /\ heap \in [Ptr -> Graph]
    /\ loads \in 0 .. LOADS
    /\ inbox \in Seq(Message)
    /\ lost \in [Ptr -> Nat]

ClientTypes ==
    /\ replies \in [Clients -> Seq(ReplyMsg)]
    /\ co \in [Coroutines -> Waiting]
    /\ views \in [Clients -> [View -> ViewRec]]
    /\ cache \in [Clients -> [Names -> View \cup {Nil}]]
    /\ roots \in [Clients -> SUBSET Names]
    /\ dead \in [Clients -> [Ptr -> Nat]]
    /\ gone \subseteq Clients

\* What a message and a view have set.
MessageInv ==
    \A i \in DOMAIN inbox :
        IF inbox[i].op = "confirm" THEN inbox[i].pointer \in Ptr ELSE inbox[i].co \in Coroutines

ViewInv ==
    \A c \in Clients, v \in View : views[c][v] # NoView =>
        views[c][v].name # Nil /\ views[c][v].pointer # Nil /\ views[c][v].doc # Nil

\* A coroutine has one call under way: in the service's mailbox, in its hands, or
\* answered; the answer has names of the call only.
Asks(i, k) == inbox[i].op # "confirm" /\ inbox[i].co = k
Told(j, k) == replies[Home[k]][j].co = k

AskInv(k) ==
    \A i \in DOMAIN inbox : Asks(i, k) =>
        /\ inbox[i].op = co[k].op /\ NamesOf(inbox[i].names) = co[k].names /\ owed # k
        /\ \A j \in DOMAIN inbox : Asks(j, k) => j = i
        /\ \A j \in DOMAIN replies[Home[k]] : ~Told(j, k)

OwedInv(k) ==
    owed = k => co[k].op = "load" /\ \A j \in DOMAIN replies[Home[k]] : ~Told(j, k)

ToldInv(k) ==
    \A j \in DOMAIN replies[Home[k]] : Told(j, k) =>
        /\ co[k].op # "none"
        /\ DOMAIN replies[Home[k]][j].pointers \subseteq co[k].names
        /\ \A i \in DOMAIN replies[Home[k]] : Told(i, k) => i = j

UpdateInv(k) == co[k].op = "update" => \E n \in Names : co[k].names = {n}

MailInv ==
    /\ \A c \in gone : replies[c] = <<>>
    /\ \A c \in Clients : \A j \in DOMAIN replies[c] : Home[replies[c][j].co] = c

CallInv ==
    /\ \A k \in Coroutines : Home[k] \notin gone =>
        AskInv(k) /\ OwedInv(k) /\ ToldInv(k) /\ UpdateInv(k)
    /\ MailInv

\* The counts.
RefAt(p) ==
    /\ heap[p].live => heap[p].ref = Refs(p)
    /\ ~heap[p].live => heap[p].ref = 0
    /\ Refs(p) > 0 => heap[p].live /\ doomed # p
RefInv == \A p \in Ptr : RefAt(p)

\* What the service can reach.
ReachInv ==
    /\ NoGraphForgotten
    /\ \A n, m \in Names : files[n] = files[m] /\ files[n] # Nil => n = m
    /\ doomed # Nil => doomed \in retired /\ doomed \notin todo

IInv ==
    /\ ServiceTypes /\ ClientTypes /\ MessageInv /\ ViewInv /\ CallInv /\ RefInv /\ ReachInv

-----------------------------------------------------------------------------
(* Sums and queues *)

\* The disjoint union behind Sum.
Spread(f) == UNION {{x} \X (1 .. f[x]) : x \in DOMAIN f}

\* Its elements.
LEMMA SpreadDef ==
    ASSUME NEW D, NEW f \in [D -> Nat], NEW z
    PROVE  z \in Spread(f) <=> \E x \in D : z \in {x} \X (1 .. f[x])
BY DEF Spread

\* One row of it.
LEMMA RowSize ==
    ASSUME NEW x, NEW n \in Nat
    PROVE  IsFiniteSet({x} \X (1 .. n)) /\ Cardinality({x} \X (1 .. n)) = n
<1>1. IsFiniteSet({x}) /\ Cardinality({x}) = 1
  BY FS_Singleton
<1>2. IsFiniteSet(1 .. n) /\ Cardinality(1 .. n) = n
  BY FS_Interval
<1>3. IsFiniteSet({x} \X (1 .. n)) /\ Cardinality({x} \X (1 .. n)) = 1 * n
  <2> DEFINE A == {x}
             B == 1 .. n
  <2>1. IsFiniteSet(A) /\ IsFiniteSet(B) /\ Cardinality(A) = 1 /\ Cardinality(B) = n
    BY <1>1, <1>2
  <2> HIDE DEF A, B
  <2>2. IsFiniteSet(A \X B) /\ Cardinality(A \X B) = Cardinality(A) * Cardinality(B)
    BY <2>1, FS_Product
  <2>3. Cardinality(A \X B) = 1 * n
    BY <2>1, <2>2
  <2>4. QED
    BY <2>2, <2>3 DEF A, B
<1>4. QED
  BY <1>3

\* A finite sum.
LEMMA SpreadFinite ==
    ASSUME NEW D, IsFiniteSet(D), NEW f \in [D -> Nat]
    PROVE  IsFiniteSet(Spread(f))
<1> DEFINE rows == {{x} \X (1 .. f[x]) : x \in D}
           g == [x \in D |-> {x} \X (1 .. f[x])]
<1>1. g \in Surjection(D, rows)
  BY DEF Surjection
<1>2. IsFiniteSet(rows)
  BY <1>1, FS_Surjection
<1>3. \A T \in rows : IsFiniteSet(T)
  <2>1. \A x \in D : f[x] \in Nat
    OBVIOUS
  <2>2. \A x \in D : IsFiniteSet({x} \X (1 .. f[x]))
    BY <2>1, RowSize, Zenon
  <2>3. QED
    BY <2>2, Zenon
<1>4. IsFiniteSet(UNION rows)
  BY <1>2, <1>3, FS_UNION
<1>5. QED
  BY <1>4 DEF Spread

\* One term and the rest.
LEMMA SumSplit ==
    ASSUME NEW D, IsFiniteSet(D), NEW f \in [D -> Nat], NEW x \in D
    PROVE  LET row == {x} \X (1 .. f[x]) IN
           /\ IsFiniteSet(Spread(f) \ row)
           /\ Sum(f) = Cardinality(Spread(f) \ row) + f[x]
           /\ Sum(f) \in Nat /\ f[x] <= Sum(f)
<1> DEFINE row == {x} \X (1 .. f[x])
           rest == Spread(f) \ row
<1>1. IsFiniteSet(Spread(f))
  BY SpreadFinite
<1>2. f[x] \in Nat /\ IsFiniteSet(row) /\ Cardinality(row) = f[x]
  BY RowSize
<1>3. IsFiniteSet(rest) /\ Cardinality(rest) \in Nat
  BY <1>1, FS_Difference, FS_CardinalityType
<1>4. row \subseteq Spread(f)
  BY SpreadDef
<1>5. Spread(f) = rest \cup row /\ rest \cap row = {}
  BY <1>4
<1> HIDE DEF rest, row
<1>6. Cardinality(rest \cup row) = Cardinality(rest) + Cardinality(row) - Cardinality(rest \cap row)
  BY <1>2, <1>3, FS_Union
<1>7. Cardinality(Spread(f)) = Cardinality(rest) + f[x]
  BY <1>2, <1>3, <1>5, <1>6, FS_EmptySet
<1>8. Sum(f) = Cardinality(Spread(f))
  BY DEF Sum, Spread
<1>9. QED
  BY <1>2, <1>3, <1>7, <1>8 DEF rest, row

\* Changing one term changes the sum by the difference.
LEMMA SumChange ==
    ASSUME NEW D, IsFiniteSet(D), NEW f \in [D -> Nat], NEW g \in [D -> Nat], NEW x \in D,
           \A y \in D \ {x} : g[y] = f[y]
    PROVE  Sum(g) = Sum(f) - f[x] + g[x]
<1> DEFINE F == Spread(f) \ ({x} \X (1 .. f[x]))
           G == Spread(g) \ ({x} \X (1 .. g[x]))
<1>1. F = G
  <2>1. ASSUME NEW z PROVE z \in F <=> z \in G
    BY SpreadDef
  <2>2. QED
    BY <2>1
<1>2. /\ Sum(f) = Cardinality(F) + f[x] /\ IsFiniteSet(F)
      /\ Sum(g) = Cardinality(G) + g[x]
  BY SumSplit
<1>3. Cardinality(F) \in Nat /\ f[x] \in Nat /\ g[x] \in Nat
  BY <1>2, FS_CardinalityType
<1> HIDE DEF F, G
<1>4. QED
  BY <1>1, <1>2, <1>3

\* The references of graph p that a mailbox of answers carries, and one answer's.
CarriedBy(r, p) == {x \in (1 .. Len(r)) \X Names :
                       /\ x[2] \in DOMAIN r[x[1]].pointers
                       /\ r[x[1]].pointers[x[2]] = p}

NamesFor(a, p) == {n \in Names : n \in DOMAIN a.pointers /\ a.pointers[n] = p}

\* The confirmations of graph p in the service's mailbox.
Confirms(s, p) == {i \in 1 .. Len(s) : s[i].op = "confirm" /\ s[i].pointer = p}

\* Both are finite.
LEMMA CarriedFinite ==
    ASSUME NEW r \in Seq(ReplyMsg), NEW p
    PROVE  IsFiniteSet(CarriedBy(r, p)) /\ Cardinality(CarriedBy(r, p)) \in Nat
<1>1. Len(r) \in Nat
  BY LenProperties
<1>2. IsFiniteSet(1 .. Len(r)) /\ IsFiniteSet(Names)
  BY <1>1, FS_Interval, ShareTableAssumption
<1> DEFINE A == 1 .. Len(r)
<1>3. IsFiniteSet(A \X Names)
  <2> HIDE DEF A
  <2>1. IsFiniteSet(A)
    BY <1>2 DEF A
  <2>2. QED
    BY <1>2, <2>1, FS_Product
<1>4. CarriedBy(r, p) \in SUBSET (A \X Names)
  BY DEF CarriedBy
<1>5. IsFiniteSet(CarriedBy(r, p))
  <2> HIDE DEF A
  <2>1. QED
    BY <1>3, <1>4, FS_Subset
<1>6. QED
  BY <1>5, FS_CardinalityType

\* So is the set of names of an answer that refer to p.
LEMMA NamesForFinite ==
    ASSUME NEW a, NEW p
    PROVE  IsFiniteSet(NamesFor(a, p)) /\ Cardinality(NamesFor(a, p)) \in Nat
<1>1. IsFiniteSet(NamesFor(a, p))
  BY FS_Subset, ShareTableAssumption DEF NamesFor
<1>2. QED
  BY <1>1, FS_CardinalityType

\* So are the confirmations of p.
LEMMA ConfirmsFinite ==
    ASSUME NEW s \in Seq(Message), NEW p
    PROVE  IsFiniteSet(Confirms(s, p)) /\ Cardinality(Confirms(s, p)) \in Nat
<1>1. Len(s) \in Nat
  BY LenProperties
<1>2. IsFiniteSet(1 .. Len(s))
  BY <1>1, FS_Interval
<1> DEFINE A == 1 .. Len(s)
<1>3. Confirms(s, p) \in SUBSET A
  BY DEF Confirms
<1>4. IsFiniteSet(Confirms(s, p))
  <2> HIDE DEF A
  <2>1. IsFiniteSet(A)
    BY <1>2 DEF A
  <2>2. QED
    BY <1>3, <2>1, FS_Subset
<1>5. QED
  BY <1>4, FS_CardinalityType

\* A disjoint union of two finite sets.
LEMMA DisjointUnion ==
    ASSUME NEW A, NEW B, IsFiniteSet(A), IsFiniteSet(B), A \cap B = {}
    PROVE  /\ IsFiniteSet(A \cup B)
           /\ Cardinality(A \cup B) = Cardinality(A) + Cardinality(B)
<1>1. Cardinality(A) \in Nat /\ Cardinality(B) \in Nat /\ Cardinality(A \cap B) = 0
  BY FS_CardinalityType, FS_EmptySet
<1>2. /\ IsFiniteSet(A \cup B)
      /\ Cardinality(A \cup B) = Cardinality(A) + Cardinality(B) - Cardinality(A \cap B)
  BY FS_Union
<1>3. QED
  BY <1>1, <1>2

\* A row of pairs is as large as the set of its second components.
LEMMA RowOf ==
    ASSUME NEW i, NEW S, IsFiniteSet(S)
    PROVE  IsFiniteSet({i} \X S) /\ Cardinality({i} \X S) = Cardinality(S)
<1> DEFINE A == {i}
<1>1. IsFiniteSet(A) /\ Cardinality(A) = 1 /\ Cardinality(S) \in Nat
  BY FS_Singleton, FS_CardinalityType
<1> HIDE DEF A
<1>2. IsFiniteSet(A \X S) /\ Cardinality(A \X S) = Cardinality(A) * Cardinality(S)
  BY <1>1, FS_Product
<1>3. Cardinality(A \X S) = Cardinality(S)
  BY <1>1, <1>2
<1>4. QED
  BY <1>2, <1>3 DEF A

\* An answer at the end of a mailbox adds its references.
LEMMA CarriedAppend ==
    ASSUME NEW r \in Seq(ReplyMsg), NEW a \in ReplyMsg, NEW p
    PROVE  Cardinality(CarriedBy(Append(r, a), p))
               = Cardinality(CarriedBy(r, p)) + Cardinality(NamesFor(a, p))
<1>1. /\ Len(r) \in Nat /\ Append(r, a) \in Seq(ReplyMsg) /\ Len(Append(r, a)) = Len(r) + 1
      /\ \A i \in 1 .. Len(r) : Append(r, a)[i] = r[i]
      /\ Append(r, a)[Len(r) + 1] = a
  BY LenProperties, AppendProperties
<1> DEFINE A == CarriedBy(r, p)
           B == {Len(r) + 1} \X NamesFor(a, p)
<1>2. CarriedBy(Append(r, a), p) = A \cup B
  <2>1. ASSUME NEW z PROVE z \in CarriedBy(Append(r, a), p) <=> z \in A \/ z \in B
    BY <1>1 DEF CarriedBy, NamesFor
  <2>2. QED
    BY <2>1
<1>3. A \cap B = {}
  BY <1>1 DEF CarriedBy
<1>4. /\ IsFiniteSet(A) /\ IsFiniteSet(B)
      /\ Cardinality(B) = Cardinality(NamesFor(a, p))
  BY CarriedFinite, NamesForFinite, RowOf
<1> HIDE DEF A, B
<1>5. QED
  BY <1>2, <1>3, <1>4, DisjointUnion DEF A

\* Taking the first answer out of a mailbox takes its references.
LEMMA CarriedTail ==
    ASSUME NEW r \in Seq(ReplyMsg), r # <<>>, NEW p
    PROVE  Cardinality(CarriedBy(r, p))
               = Cardinality(CarriedBy(Tail(r), p)) + Cardinality(NamesFor(Head(r), p))
<1>1. /\ Len(r) \in Nat \ {0} /\ Tail(r) \in Seq(ReplyMsg) /\ Len(Tail(r)) = Len(r) - 1
      /\ \A i \in 1 .. Len(Tail(r)) : Tail(r)[i] = r[i + 1]
      /\ Head(r) = r[1]
  BY LenProperties, HeadTailProperties, EmptySeq
<1> DEFINE A == {<<x[1] + 1, x[2]>> : x \in CarriedBy(Tail(r), p)}
           B == {1} \X NamesFor(Head(r), p)
           f == [x \in CarriedBy(Tail(r), p) |-> <<x[1] + 1, x[2]>>]
<1>2. CarriedBy(r, p) = A \cup B
  <2>1. ASSUME NEW z \in CarriedBy(r, p), z[1] # 1 PROVE z \in A
    <3>1. z = <<z[1], z[2]>> /\ z[1] \in 2 .. Len(r) /\ z[2] \in Names
      BY <1>1, <2>1 DEF CarriedBy
    <3>2. <<z[1] - 1, z[2]>> \in CarriedBy(Tail(r), p)
      BY <1>1, <2>1, <3>1 DEF CarriedBy
    <3>3. <<(z[1] - 1) + 1, z[2]>> \in A
      BY <3>2
    <3>4. QED
      BY <3>1, <3>3
  <2>2. ASSUME NEW z \in CarriedBy(r, p), z[1] = 1 PROVE z \in B
    BY <1>1, <2>2 DEF CarriedBy, NamesFor
  <2>3. B \subseteq CarriedBy(r, p)
    BY <1>1 DEF CarriedBy, NamesFor
  <2>4. A \subseteq CarriedBy(r, p)
    BY <1>1 DEF CarriedBy
  <2>5. QED
    BY <2>1, <2>2, <2>3, <2>4
<1>3. A \cap B = {}
  BY <1>1 DEF CarriedBy
<1>4. IsFiniteSet(A) /\ Cardinality(A) = Cardinality(CarriedBy(Tail(r), p))
  <2> DEFINE C == CarriedBy(Tail(r), p)
  <2>1. \A x \in C : x = <<x[1], x[2]>> /\ x[1] \in Nat /\ f[x] = <<x[1] + 1, x[2]>>
    BY <1>1 DEF CarriedBy
  <2>2. f \in [C -> A] /\ \A y \in A : \E x \in C : f[x] = y
    OBVIOUS
  <2>3. IsFiniteSet(C)
    BY <1>1, CarriedFinite
  <2> HIDE DEF C, A, f
  <2>4. ASSUME NEW x \in C, NEW y \in C, f[x] = f[y] PROVE x = y
    <3>1. <<x[1] + 1, x[2]>> = <<y[1] + 1, y[2]>>
      BY <2>1, <2>4, Zenon
    <3>2. x[1] + 1 = y[1] + 1 /\ x[2] = y[2]
      BY <3>1
    <3>3. x[1] \in Nat /\ y[1] \in Nat
      BY <2>1
    <3>4. x[1] = y[1]
      BY <3>2, <3>3
    <3>5. QED
      BY <2>1, <3>2, <3>4, Zenon
  <2>5. f \in Bijection(C, A)
    BY <2>2, <2>4 DEF Injection, Bijection, Surjection, IsInjective
  <2>6. ExistsBijection(C, A)
    BY <2>5, Zenon DEF ExistsBijection
  <2>7. QED
    BY <2>3, <2>6, FS_Bijection DEF C
<1>5. IsFiniteSet(B) /\ Cardinality(B) = Cardinality(NamesFor(Head(r), p))
  BY NamesForFinite, RowOf
<1> HIDE DEF A, B
<1>6. QED
  BY <1>2, <1>3, <1>4, <1>5, DisjointUnion

\* A confirmation at the end of the service's mailbox counts.
LEMMA ConfirmAppend ==
    ASSUME NEW s \in Seq(Message), NEW m \in Message, NEW p
    PROVE  Cardinality(Confirms(Append(s, m), p))
               = Cardinality(Confirms(s, p))
                 + (IF m.op = "confirm" /\ m.pointer = p THEN 1 ELSE 0)
<1>1. /\ Len(s) \in Nat /\ Len(Append(s, m)) = Len(s) + 1
      /\ \A i \in 1 .. Len(s) : Append(s, m)[i] = s[i]
      /\ Append(s, m)[Len(s) + 1] = m
  BY LenProperties, AppendProperties
<1>2. IsFiniteSet(Confirms(s, p)) /\ Cardinality(Confirms(s, p)) \in Nat
  BY ConfirmsFinite
<1>3. CASE m.op = "confirm" /\ m.pointer = p
  <2>1. Confirms(Append(s, m), p) = Confirms(s, p) \cup {Len(s) + 1}
    BY <1>1, <1>3 DEF Confirms
  <2>2. Len(s) + 1 \notin Confirms(s, p)
    BY <1>1 DEF Confirms
  <2>3. QED
    BY <1>2, <1>3, <2>1, <2>2, FS_AddElement
<1>4. CASE ~(m.op = "confirm" /\ m.pointer = p)
  <2>1. Confirms(Append(s, m), p) = Confirms(s, p)
    BY <1>1, <1>4 DEF Confirms
  <2>2. QED
    BY <1>2, <1>4, <2>1
<1>5. QED
  BY <1>3, <1>4

\* Taking the first message takes its confirmation.
LEMMA ConfirmTail ==
    ASSUME NEW s \in Seq(Message), s # <<>>, NEW p
    PROVE  Cardinality(Confirms(s, p))
               = Cardinality(Confirms(Tail(s), p))
                 + (IF Head(s).op = "confirm" /\ Head(s).pointer = p THEN 1 ELSE 0)
<1>1. /\ Len(s) \in Nat \ {0} /\ Tail(s) \in Seq(Message) /\ Len(Tail(s)) = Len(s) - 1
      /\ \A i \in 1 .. Len(Tail(s)) : Tail(s)[i] = s[i + 1]
      /\ Head(s) = s[1]
  BY LenProperties, HeadTailProperties, EmptySeq
<1> DEFINE B == {i + 1 : i \in Confirms(Tail(s), p)}
           f == [i \in Confirms(Tail(s), p) |-> i + 1]
<1>3. /\ IsFiniteSet(B) /\ Cardinality(B) = Cardinality(Confirms(Tail(s), p))
      /\ Cardinality(B) \in Nat
  <2> DEFINE C == Confirms(Tail(s), p)
  <2>1. \A x \in C : x \in Nat /\ f[x] = x + 1
    BY <1>1 DEF Confirms
  <2>2. f \in [C -> B] /\ \A y \in B : \E x \in C : f[x] = y
    OBVIOUS
  <2>3. IsFiniteSet(C) /\ Cardinality(C) \in Nat
    BY <1>1, ConfirmsFinite
  <2> HIDE DEF C, B, f
  <2>4. ASSUME NEW x \in C, NEW y \in C, f[x] = f[y] PROVE x = y
    BY <2>1, <2>4
  <2>5. f \in Bijection(C, B)
    BY <2>2, <2>4 DEF Injection, Bijection, Surjection, IsInjective
  <2>6. ExistsBijection(C, B)
    BY <2>5, Zenon DEF ExistsBijection
  <2>7. IsFiniteSet(B) /\ Cardinality(B) = Cardinality(C)
    BY <2>3, <2>6, FS_Bijection
  <2>8. QED
    BY <2>3, <2>7 DEF C
<1>4. B = Confirms(s, p) \ {1}
  <2>1. ASSUME NEW z \in Confirms(s, p), z # 1 PROVE z \in B
    <3>1. z \in 2 .. Len(s)
      BY <1>1, <2>1 DEF Confirms
    <3>2. z - 1 \in Confirms(Tail(s), p)
      BY <1>1, <2>1, <3>1 DEF Confirms
    <3>3. (z - 1) + 1 \in B
      BY <3>2
    <3>4. QED
      BY <3>1, <3>3
  <2>2. B \subseteq Confirms(s, p) \ {1}
    BY <1>1 DEF Confirms
  <2>3. QED
    BY <2>1, <2>2
<1>5. 1 \in Confirms(s, p) <=> Head(s).op = "confirm" /\ Head(s).pointer = p
  BY <1>1 DEF Confirms
<1>6. /\ IsFiniteSet(Confirms(s, p)) /\ Cardinality(Confirms(s, p)) \in Nat
      /\ Cardinality(Confirms(s, p) \ {1}) =
             IF 1 \in Confirms(s, p) THEN Cardinality(Confirms(s, p)) - 1
                                     ELSE Cardinality(Confirms(s, p))
  BY ConfirmsFinite, FS_RemoveElement
<1> HIDE DEF B
<1>7. QED
  BY <1>3, <1>4, <1>5, <1>6

-----------------------------------------------------------------------------
(* Changes of the counts *)

\* A set that differs in one element only.
LEMMA OneElement ==
    ASSUME NEW S, IsFiniteSet(S), NEW A \in SUBSET S, NEW B \in SUBSET S, NEW x \in S,
           \A y \in S \ {x} : y \in A <=> y \in B
    PROVE  /\ Cardinality(A) \in Nat /\ Cardinality(B) \in Nat
           /\ Cardinality(B) = Cardinality(A) - (IF x \in A THEN 1 ELSE 0)
                                              + (IF x \in B THEN 1 ELSE 0)
<1>1. IsFiniteSet(A) /\ IsFiniteSet(B)
  BY FS_Subset
<1>2. Cardinality(A) \in Nat /\ Cardinality(B) \in Nat
  BY <1>1, FS_CardinalityType
<1>3. A \ {x} = B \ {x}
  OBVIOUS
<1>4. /\ Cardinality(A \ {x}) = IF x \in A THEN Cardinality(A) - 1 ELSE Cardinality(A)
      /\ Cardinality(B \ {x}) = IF x \in B THEN Cardinality(B) - 1 ELSE Cardinality(B)
  BY <1>1, FS_RemoveElement
<1>5. QED
  BY <1>2, <1>3, <1>4

\* The names, views and references that hold a graph.
OwnersOf(f, p) == {n \in Names : f[n] = p}
DocsOf(w, p) == {v \in View : w[v].doc = p}
PendingOf(w, p) == {v \in View : w[v].pending = p}

\* The references one client holds, from its boxes and its mailbox.
Hold(d, w, r, p) ==
    d[p] + Cardinality(DocsOf(w, p)) + Cardinality(PendingOf(w, p))
         + Cardinality(CarriedBy(r, p))

\* All of them are finite.
LEMMA OwnersFinite ==
    ASSUME NEW f, NEW p
    PROVE  IsFiniteSet(OwnersOf(f, p)) /\ Cardinality(OwnersOf(f, p)) \in Nat
<1>1. IsFiniteSet(OwnersOf(f, p))
  BY FS_Subset, ShareTableAssumption DEF OwnersOf
<1>2. QED
  BY <1>1, FS_CardinalityType

\* There are finitely many views.
LEMMA ViewFinite == IsFiniteSet(View)
BY FS_Interval, ShareTableAssumption DEF View

\* A client's boxes of a graph are finitely many.
LEMMA BoxesFinite ==
    ASSUME NEW w, NEW p
    PROVE  /\ IsFiniteSet(DocsOf(w, p)) /\ Cardinality(DocsOf(w, p)) \in Nat
           /\ IsFiniteSet(PendingOf(w, p)) /\ Cardinality(PendingOf(w, p)) \in Nat
<1>1. DocsOf(w, p) \in SUBSET View /\ PendingOf(w, p) \in SUBSET View
  BY DEF DocsOf, PendingOf
<1>2. IsFiniteSet(DocsOf(w, p)) /\ IsFiniteSet(PendingOf(w, p))
  BY <1>1, ViewFinite, FS_Subset
<1>3. QED
  BY <1>2, FS_CardinalityType

\* What a client holds is a natural number.
LEMMA HoldNat ==
    ASSUME NEW d \in [Ptr -> Nat], NEW w, NEW r \in Seq(ReplyMsg), NEW p \in Ptr
    PROVE  Hold(d, w, r, p) \in Nat
<1>1. d[p] \in Nat
  OBVIOUS
<1>2. QED
  BY <1>1, BoxesFinite, CarriedFinite DEF Hold

\* Refs in these terms.
LEMMA RefsAre ==
    ASSUME NEW p
    PROVE  Refs(p) = Cardinality(OwnersOf(files, p))
                     + Sum([c \in Clients |-> Hold(dead[c], views[c], replies[c], p)])
                     + Cardinality(Confirms(inbox, p)) + lost[p]
BY DEF Refs, OwnersOf, Hold, DocsOf, PendingOf, Boxes, Carried, CarriedBy, Confirms

\* Refs in these terms, after a step.
LEMMA RefsWillBe ==
    ASSUME NEW p
    PROVE  Refs(p)' = Cardinality(OwnersOf(files', p))
                     + Sum([c \in Clients |-> Hold(dead'[c], views'[c], replies'[c], p)])
                     + Cardinality(Confirms(inbox', p)) + lost'[p]
BY DEF Refs, OwnersOf, Hold, DocsOf, PendingOf, Boxes, Carried, CarriedBy, Confirms

\* The types that the counts need.
Counted ==
    /\ inbox \in Seq(Message) /\ lost \in [Ptr -> Nat]
    /\ replies \in [Clients -> Seq(ReplyMsg)] /\ dead \in [Clients -> [Ptr -> Nat]]

\* A step that changes what one client holds, the owner, the confirmations and the lost
\* references changes the number of references by the differences.
LEMMA RefsOne ==
    ASSUME Counted, Counted', NEW p \in Ptr, NEW c \in Clients,
           \A e \in Clients \ {c} : /\ dead'[e] = dead[e] /\ views'[e] = views[e]
                                    /\ replies'[e] = replies[e]
    PROVE  /\ Refs(p) \in Nat /\ Refs(p)' \in Nat
           /\ Refs(p)' = Refs(p)
                + (Cardinality(OwnersOf(files', p)) - Cardinality(OwnersOf(files, p)))
                + (Hold(dead'[c], views'[c], replies'[c], p)
                     - Hold(dead[c], views[c], replies[c], p))
                + (Cardinality(Confirms(inbox', p)) - Cardinality(Confirms(inbox, p)))
                + (lost'[p] - lost[p])
           /\ Refs(p) >= Cardinality(OwnersOf(files, p))
                         + Hold(dead[c], views[c], replies[c], p)
<1> DEFINE f == [e \in Clients |-> Hold(dead[e], views[e], replies[e], p)]
           g == [e \in Clients |-> Hold(dead'[e], views'[e], replies'[e], p)]
<1>1. \A e \in Clients : /\ Hold(dead[e], views[e], replies[e], p) \in Nat
                         /\ Hold(dead'[e], views'[e], replies'[e], p) \in Nat
  BY HoldNat DEF Counted
<1>2. f \in [Clients -> Nat] /\ g \in [Clients -> Nat]
  BY <1>1
<1>3. \A e \in Clients \ {c} : g[e] = f[e]
  OBVIOUS
<1>4. IsFiniteSet(Clients)
  BY ShareTableAssumption
<1>5. /\ f[c] = Hold(dead[c], views[c], replies[c], p)
      /\ g[c] = Hold(dead'[c], views'[c], replies'[c], p)
      /\ f[c] \in Nat /\ g[c] \in Nat
  BY <1>1
<1>6. /\ Refs(p) = Cardinality(OwnersOf(files, p)) + Sum(f)
                   + Cardinality(Confirms(inbox, p)) + lost[p]
      /\ Refs(p)' = Cardinality(OwnersOf(files', p)) + Sum(g)
                   + Cardinality(Confirms(inbox', p)) + lost'[p]
  BY RefsAre, RefsWillBe
<1>7. /\ Cardinality(OwnersOf(files, p)) \in Nat /\ Cardinality(OwnersOf(files', p)) \in Nat
      /\ Cardinality(Confirms(inbox, p)) \in Nat /\ Cardinality(Confirms(inbox', p)) \in Nat
      /\ lost[p] \in Nat /\ lost'[p] \in Nat
  BY OwnersFinite, ConfirmsFinite DEF Counted
<1> HIDE DEF f, g
<1>8. /\ Sum(g) = Sum(f) - f[c] + g[c] /\ Sum(f) \in Nat /\ Sum(g) \in Nat
      /\ f[c] <= Sum(f)
  <2>1. Sum(g) = Sum(f) - f[c] + g[c]
    BY <1>2, <1>3, <1>4, SumChange
  <2>2. Sum(f) \in Nat /\ f[c] <= Sum(f)
    BY <1>2, <1>4, SumSplit, Zenon
  <2>3. Sum(g) \in Nat
    BY <1>2, <1>4, SumSplit, Zenon
  <2>4. QED
    BY <2>1, <2>2, <2>3
<1>9. QED
  BY <1>5, <1>6, <1>7, <1>8

\* A step that leaves the clients alone.
LEMMA RefsNone ==
    ASSUME Counted, Counted', NEW p \in Ptr, dead' = dead, views' = views, replies' = replies
    PROVE  /\ Refs(p) \in Nat /\ Refs(p)' \in Nat
           /\ Refs(p)' = Refs(p)
                + (Cardinality(OwnersOf(files', p)) - Cardinality(OwnersOf(files, p)))
                + (Cardinality(Confirms(inbox', p)) - Cardinality(Confirms(inbox, p)))
                + (lost'[p] - lost[p])
           /\ Refs(p) >= Cardinality(OwnersOf(files, p)) + Cardinality(Confirms(inbox, p))
<1> DEFINE f == [e \in Clients |-> Hold(dead[e], views[e], replies[e], p)]
<1>1. \A e \in Clients : Hold(dead[e], views[e], replies[e], p) \in Nat
  BY HoldNat DEF Counted
<1>2. f \in [Clients -> Nat]
  BY <1>1
<1>3. IsFiniteSet(Clients)
  BY ShareTableAssumption
<1>4. /\ Refs(p) = Cardinality(OwnersOf(files, p)) + Sum(f)
                   + Cardinality(Confirms(inbox, p)) + lost[p]
      /\ Refs(p)' = Cardinality(OwnersOf(files', p)) + Sum(f)
                   + Cardinality(Confirms(inbox', p)) + lost'[p]
  BY RefsAre, RefsWillBe
<1>5. /\ Cardinality(OwnersOf(files, p)) \in Nat /\ Cardinality(OwnersOf(files', p)) \in Nat
      /\ Cardinality(Confirms(inbox, p)) \in Nat /\ Cardinality(Confirms(inbox', p)) \in Nat
      /\ lost[p] \in Nat /\ lost'[p] \in Nat
  BY OwnersFinite, ConfirmsFinite DEF Counted
<1> HIDE DEF f
<1>6. Sum(f) \in Nat
  <2>1. IsFiniteSet(Spread(f))
    BY <1>2, <1>3, SpreadFinite
  <2>2. Cardinality(Spread(f)) \in Nat
    BY <2>1, FS_CardinalityType
  <2>3. QED
    BY <2>2 DEF Sum, Spread
<1>7. QED
  BY <1>4, <1>5, <1>6

\* Taking one name out of the first answer takes its reference.
LEMMA CarriedHandled ==
    ASSUME NEW r \in Seq(ReplyMsg), NEW t \in Seq(ReplyMsg), r # <<>>, Len(t) = Len(r),
           NEW n \in DOMAIN Head(r).pointers, NEW p,
           \A i \in 2 .. Len(r) : t[i] = r[i],
           DOMAIN t[1].pointers = DOMAIN Head(r).pointers \ {n},
           \A m \in DOMAIN t[1].pointers : t[1].pointers[m] = Head(r).pointers[m]
    PROVE  /\ Head(r).pointers[n] = p => Cardinality(CarriedBy(t, p)) = Cardinality(CarriedBy(r, p)) - 1
           /\ Head(r).pointers[n] # p => Cardinality(CarriedBy(t, p)) = Cardinality(CarriedBy(r, p))
<1>1. Len(r) \in Nat \ {0} /\ Head(r) = r[1] /\ Head(r) \in ReplyMsg
  BY LenProperties, HeadTailProperties, EmptySeq
<1>2. Head(r).pointers \in Pointers /\ n \in Names
  BY <1>1 DEF ReplyMsg, Pointers
<1> DEFINE A == CarriedBy(r, p)
           B == CarriedBy(t, p)
           x == <<1, n>>
<1>3. x \notin B
  BY DEF CarriedBy
<1>4. x \in A <=> Head(r).pointers[n] = p
  BY <1>1, <1>2 DEF CarriedBy
<1>5. A \ {x} = B
  <2>1. ASSUME NEW z \in A, z # x PROVE z \in B
    <3>1. z = <<z[1], z[2]>> /\ z[1] \in 1 .. Len(r) /\ z[2] \in Names
          /\ z[2] \in DOMAIN r[z[1]].pointers /\ r[z[1]].pointers[z[2]] = p
      BY <2>1 DEF CarriedBy
    <3>2. CASE z[1] = 1
      <4>1. z[2] # n
        BY <2>1, <3>1, <3>2
      <4>2. z[2] \in DOMAIN t[1].pointers /\ t[1].pointers[z[2]] = p
        BY <1>1, <3>1, <3>2, <4>1
      <4>3. QED
        BY <1>1, <3>1, <3>2, <4>2 DEF CarriedBy
    <3>3. CASE z[1] # 1
      BY <1>1, <3>1, <3>3 DEF CarriedBy
    <3>4. QED
      BY <3>2, <3>3
  <2>2. ASSUME NEW z \in B PROVE z \in A
    <3>1. z = <<z[1], z[2]>> /\ z[1] \in 1 .. Len(r) /\ z[2] \in Names
          /\ z[2] \in DOMAIN t[z[1]].pointers /\ t[z[1]].pointers[z[2]] = p
      BY <2>2 DEF CarriedBy
    <3>2. CASE z[1] = 1
      <4>1. z[2] \in DOMAIN r[1].pointers /\ r[1].pointers[z[2]] = p
        BY <1>1, <3>1, <3>2
      <4>2. QED
        BY <1>1, <3>1, <3>2, <4>1 DEF CarriedBy
    <3>3. CASE z[1] # 1
      BY <1>1, <3>1, <3>3 DEF CarriedBy
    <3>4. QED
      BY <3>2, <3>3
  <2>3. QED
    BY <1>3, <2>1, <2>2
<1>6. IsFiniteSet(A) /\ Cardinality(A) \in Nat
  BY CarriedFinite
<1> HIDE DEF A, B, x
<1>7. Cardinality(A \ {x}) = IF x \in A THEN Cardinality(A) - 1 ELSE Cardinality(A)
  BY <1>6, FS_RemoveElement
<1>8. Cardinality(B) = Cardinality(A) - (IF x \in A THEN 1 ELSE 0)
  <2>1. Cardinality(B) = Cardinality(A \ {x})
    BY <1>5, Zenon
  <2>2. CASE x \in A
    BY <1>6, <1>7, <2>1, <2>2
  <2>3. CASE x \notin A
    BY <1>6, <1>7, <2>1, <2>3
  <2>4. QED
    BY <2>2, <2>3
<1>9. QED
  BY <1>4, <1>6, <1>8 DEF A, B

-----------------------------------------------------------------------------
(* Mailboxes *)

\* An answer without graphs.
LEMMA EmptyAnswer == <<>> \in Pointers /\ \A n : n \notin DOMAIN <<>>
<1>1. \A n : n \notin DOMAIN <<>>
  OBVIOUS
<1>2. <<>> \in [{} -> Ptr]
  OBVIOUS
<1>3. QED
  BY <1>1, <1>2 DEF Pointers

\* The names of a list.
LEMMA ListNames ==
    ASSUME NEW list \in Seq(Names)
    PROVE  /\ NamesOf(list) \subseteq Names /\ IsFiniteSet(DOMAIN list)
           /\ \A i \in DOMAIN list : list[i] \in Names
<1>1. /\ Len(list) \in Nat /\ DOMAIN list = 1 .. Len(list)
      /\ list \in [1 .. Len(list) -> Names]
  BY LenProperties
<1>2. IsFiniteSet(1 .. Len(list))
  BY <1>1, FS_Interval
<1>3. \A i \in DOMAIN list : list[i] \in Names
  BY <1>1
<1>4. QED
  BY <1>1, <1>2, <1>3 DEF NamesOf

LEMMA SingleName ==
    ASSUME NEW n \in Names
    PROVE  <<n>> \in Seq(Names) /\ NamesOf(<<n>>) = {n}
BY DEF NamesOf

\* A query takes references to the graphs of its list's names, and to no other.
LEMMA TakenGraphs ==
    ASSUME NEW list \in Seq(Names), NEW p \in Ptr
    PROVE  /\ Taken(list, p) \in Nat
           /\ Taken(list, p) > 0 <=> \E n \in NamesOf(list) : files[n] = p
<1> DEFINE I == {i \in DOMAIN list : files[list[i]] = p}
<1>1. IsFiniteSet(I)
  BY ListNames, FS_Subset
<1>2. Cardinality(I) \in Nat /\ (Cardinality(I) = 0 <=> I = {})
  BY <1>1, FS_CardinalityType, FS_EmptySet
<1>3. I # {} <=> \E n \in NamesOf(list) : files[n] = p
  BY DEF NamesOf
<1>4. Taken(list, p) = Cardinality(I)
  BY DEF Taken
<1> HIDE DEF I
<1>5. QED
  BY <1>2, <1>3, <1>4

\* The first message.
LEMMA FirstMessage ==
    ASSUME ServiceTypes, MessageInv, inbox # <<>>
    PROVE  /\ inbox \in Seq(Message) /\ 1 \in DOMAIN inbox /\ Head(inbox) = inbox[1]
           /\ Head(inbox) \in Message /\ Tail(inbox) \in Seq(Message)
           /\ Head(inbox).op = "confirm" => Head(inbox).pointer \in Ptr
           /\ Head(inbox).op # "confirm" => Head(inbox).co \in Coroutines
           /\ Head(inbox).names \in Seq(Names) /\ NamesOf(Head(inbox).names) \subseteq Names
           /\ \A i \in DOMAIN Tail(inbox) :
                 /\ i \in Nat \ {0} /\ i + 1 \in DOMAIN inbox /\ Tail(inbox)[i] = inbox[i + 1]
<1>1. inbox \in Seq(Message)
  BY DEF ServiceTypes
<1>2. /\ Len(inbox) \in Nat \ {0} /\ DOMAIN inbox = 1 .. Len(inbox) /\ Head(inbox) \in Message
      /\ Tail(inbox) \in Seq(Message) /\ Len(Tail(inbox)) = Len(inbox) - 1
      /\ \A i \in 1 .. Len(Tail(inbox)) : Tail(inbox)[i] = inbox[i + 1]
      /\ DOMAIN Tail(inbox) = 1 .. Len(Tail(inbox))
  BY <1>1, LenProperties, HeadTailProperties, EmptySeq
<1>3. Head(inbox) = inbox[1] /\ 1 \in DOMAIN inbox
  BY <1>1, <1>2
<1>4. /\ Head(inbox).op = "confirm" => Head(inbox).pointer \in Ptr
      /\ Head(inbox).op # "confirm" => Head(inbox).co \in Coroutines
  BY <1>3, Zenon DEF MessageInv
<1>5. Head(inbox).names \in Seq(Names) /\ NamesOf(Head(inbox).names) \subseteq Names
  <2>1. Head(inbox).names \in Seq(Names)
    BY <1>2 DEF Message
  <2>2. QED
    BY <2>1, ListNames
<1>6. \A i \in DOMAIN Tail(inbox) :
         /\ i \in Nat \ {0} /\ i + 1 \in DOMAIN inbox /\ Tail(inbox)[i] = inbox[i + 1]
  BY <1>2
<1>7. QED
  BY <1>1, <1>2, <1>3, <1>4, <1>5, <1>6

\* Another message.
LEMMA NewMessage ==
    ASSUME ServiceTypes, NEW m \in Message
    PROVE  /\ Append(inbox, m) \in Seq(Message)
           /\ DOMAIN Append(inbox, m) = DOMAIN inbox \cup {Len(inbox) + 1}
           /\ Len(inbox) + 1 \notin DOMAIN inbox
           /\ \A i \in DOMAIN inbox : Append(inbox, m)[i] = inbox[i]
           /\ Append(inbox, m)[Len(inbox) + 1] = m
<1>1. inbox \in Seq(Message)
  BY DEF ServiceTypes
<1>2. /\ Len(inbox) \in Nat /\ DOMAIN inbox = 1 .. Len(inbox)
      /\ Append(inbox, m) \in Seq(Message) /\ Len(Append(inbox, m)) = Len(inbox) + 1
      /\ \A i \in 1 .. Len(inbox) : Append(inbox, m)[i] = inbox[i]
      /\ Append(inbox, m)[Len(inbox) + 1] = m
      /\ DOMAIN Append(inbox, m) = 1 .. Len(Append(inbox, m))
  BY <1>1, LenProperties, AppendProperties
<1>3. /\ Len(inbox) + 1 \notin DOMAIN inbox
      /\ DOMAIN Append(inbox, m) = DOMAIN inbox \cup {Len(inbox) + 1}
  BY <1>2
<1>4. QED
  BY <1>2, <1>3

\* A confirmation is a message.
LEMMA ConfirmMessage ==
    ASSUME NEW p \in Ptr
    PROVE  Confirm(p) \in Message /\ Confirm(p).op = "confirm" /\ Confirm(p).pointer = p
BY DEF Confirm, Message

\* Another answer, or none when the client is gone.
LEMMA ReplyStep ==
    ASSUME ClientTypes, NEW k \in Coroutines, NEW ps \in Pointers, Reply(k, ps)
    PROVE  LET m == [co |-> k, pointers |-> ps]
               h == Home[k]
           IN  /\ m \in ReplyMsg /\ h \in Clients
               /\ replies' \in [Clients -> Seq(ReplyMsg)]
               /\ \A e \in Clients : (e # h \/ h \in gone) => replies'[e] = replies[e]
               /\ h \notin gone => /\ replies'[h] = Append(replies[h], m)
                                   /\ DOMAIN replies'[h] = DOMAIN replies[h] \cup {Len(replies[h]) + 1}
                                   /\ Len(replies[h]) + 1 \notin DOMAIN replies[h]
                                   /\ \A j \in DOMAIN replies[h] : replies'[h][j] = replies[h][j]
                                   /\ replies'[h][Len(replies[h]) + 1] = m
<1> DEFINE m == [co |-> k, pointers |-> ps]
           h == Home[k]
<1>1. m \in ReplyMsg /\ h \in Clients
  BY ShareTableAssumption DEF ReplyMsg
<1>2. replies \in [Clients -> Seq(ReplyMsg)] /\ replies[h] \in Seq(ReplyMsg)
  BY <1>1 DEF ClientTypes
<1> DEFINE r == replies[h]
<1>3. /\ Len(r) \in Nat /\ DOMAIN r = 1 .. Len(r)
      /\ Append(r, m) \in Seq(ReplyMsg) /\ Len(Append(r, m)) = Len(r) + 1
      /\ \A i \in 1 .. Len(r) : Append(r, m)[i] = r[i]
      /\ Append(r, m)[Len(r) + 1] = m
      /\ DOMAIN Append(r, m) = 1 .. Len(Append(r, m))
  <2> HIDE DEF m, r
  <2>1. r \in Seq(ReplyMsg)
    BY <1>2 DEF r
  <2>2. QED
    BY <1>1, <2>1, LenProperties, AppendProperties
<1>4. /\ Len(r) + 1 \notin DOMAIN r
      /\ DOMAIN Append(r, m) = DOMAIN r \cup {Len(r) + 1}
  <2> HIDE DEF m, r
  <2>1. QED
    BY <1>3
<1>5. CASE h \in gone
  <2>1. replies' = replies
    BY <1>5 DEF Reply
  <2>2. QED
    BY <1>1, <1>2, <1>5, <2>1
<1>6. CASE h \notin gone
  <2>1. replies' = [replies EXCEPT ![h] = Append(r, m)]
    BY <1>6 DEF Reply
  <2> DEFINE s == Append(r, m)
  <2>2. s \in Seq(ReplyMsg)
    BY <1>3
  <2> HIDE DEF s
  <2>3. replies' \in [Clients -> Seq(ReplyMsg)] /\ replies'[h] = s
        /\ \A e \in Clients \ {h} : replies'[e] = replies[e]
    BY <1>1, <1>2, <2>1, <2>2 DEF s
  <2> HIDE DEF m, r
  <2>4. /\ DOMAIN replies'[h] = DOMAIN r \cup {Len(r) + 1}
        /\ \A j \in DOMAIN r : replies'[h][j] = r[j]
        /\ replies'[h][Len(r) + 1] = m
    BY <1>3, <1>4, <2>3 DEF s
  <2>5. QED
    BY <1>1, <1>4, <1>6, <2>3, <2>4 DEF s, m, r
<1>7. QED
  BY <1>5, <1>6

\* The first answer of a mailbox.
LEMMA FirstAnswer ==
    ASSUME ClientTypes, NEW c \in Clients, replies[c] # <<>>
    PROVE  /\ replies[c] \in Seq(ReplyMsg) /\ 1 \in DOMAIN replies[c]
           /\ Answer(c) = replies[c][1] /\ Answer(c) = Head(replies[c])
           /\ Answer(c) \in ReplyMsg /\ Answer(c).co \in Coroutines
           /\ Answer(c).pointers \in [DOMAIN Answer(c).pointers -> Ptr]
           /\ DOMAIN Answer(c).pointers \subseteq Names
           /\ Tail(replies[c]) \in Seq(ReplyMsg)
           /\ \A j \in DOMAIN Tail(replies[c]) :
                 /\ j \in Nat \ {0} /\ j + 1 \in DOMAIN replies[c]
                 /\ Tail(replies[c])[j] = replies[c][j + 1]
           /\ \A j \in DOMAIN replies[c] : j = 1 \/ j \in 2 .. Len(replies[c])
           /\ Len(replies[c]) \in Nat \ {0} /\ DOMAIN replies[c] = 1 .. Len(replies[c])
<1> DEFINE r == replies[c]
<1>1. r \in Seq(ReplyMsg)
  BY DEF ClientTypes
<1>2. r # <<>> /\ Answer(c) = Head(r)
  BY DEF Answer
<1> HIDE DEF r
<1>3. /\ Len(r) \in Nat \ {0} /\ DOMAIN r = 1 .. Len(r) /\ Head(r) \in ReplyMsg
      /\ Tail(r) \in Seq(ReplyMsg) /\ Len(Tail(r)) = Len(r) - 1
      /\ \A i \in 1 .. Len(Tail(r)) : Tail(r)[i] = r[i + 1]
      /\ DOMAIN Tail(r) = 1 .. Len(Tail(r))
  BY <1>1, <1>2, LenProperties, HeadTailProperties, EmptySeq
<1>4. Head(r) = r[1] /\ 1 \in DOMAIN r
  BY <1>1, <1>3
<1>5. /\ \A j \in DOMAIN Tail(r) : j \in Nat \ {0} /\ j + 1 \in DOMAIN r /\ Tail(r)[j] = r[j + 1]
      /\ \A j \in DOMAIN r : j = 1 \/ j \in 2 .. Len(r)
  BY <1>3
<1>6. Head(r).co \in Coroutines /\ Head(r).pointers \in Pointers
  BY <1>3 DEF ReplyMsg
<1>7. PICK S \in SUBSET Names : Head(r).pointers \in [S -> Ptr]
  BY <1>6 DEF Pointers
<1>8. DOMAIN Head(r).pointers = S
  BY <1>7
<1>9. QED
  BY <1>1, <1>2, <1>3, <1>4, <1>5, <1>6, <1>7, <1>8 DEF r

\* One name of the first answer is handled.
LEMMA HandledStep ==
    ASSUME ClientTypes, NEW c \in Clients, replies[c] # <<>>,
           NEW n \in DOMAIN Answer(c).pointers, Handled(c, n)
    PROVE  /\ replies' \in [Clients -> Seq(ReplyMsg)]
           /\ \A e \in Clients \ {c} : replies'[e] = replies[e]
           /\ Len(replies'[c]) = Len(replies[c]) /\ DOMAIN replies'[c] = DOMAIN replies[c]
           /\ \A j \in 2 .. Len(replies[c]) : replies'[c][j] = replies[c][j]
           /\ replies'[c][1].co = replies[c][1].co
           /\ replies'[c][1].pointers = [m \in DOMAIN Answer(c).pointers \ {n} |-> Answer(c).pointers[m]]
<1> DEFINE r == replies[c]
           a == Answer(c)
           ps == [m \in DOMAIN a.pointers \ {n} |-> a.pointers[m]]
           b == [a EXCEPT !.pointers = ps]
           s == [r EXCEPT ![1] = b]
<1>1. /\ r \in Seq(ReplyMsg) /\ 1 \in 1 .. Len(r) /\ a = r[1] /\ a \in ReplyMsg
      /\ a.pointers \in [DOMAIN a.pointers -> Ptr] /\ DOMAIN a.pointers \subseteq Names
      /\ Len(r) \in Nat
  BY FirstAnswer
<1>2. replies' = [replies EXCEPT ![c] = s]
  BY <1>1 DEF Handled
<1>3. ps \in Pointers
  <2>1. ps \in [DOMAIN a.pointers \ {n} -> Ptr]
    BY <1>1
  <2>2. DOMAIN a.pointers \ {n} \in SUBSET Names
    BY <1>1
  <2> HIDE DEF ps
  <2>3. QED
    BY <2>1, <2>2 DEF Pointers
<1>4. b \in ReplyMsg /\ b.pointers = ps /\ b.co = a.co
  <2> HIDE DEF ps, a
  <2>1. QED
    BY <1>1, <1>3 DEF ReplyMsg
<1>5. /\ s \in Seq(ReplyMsg) /\ Len(s) = Len(r)
      /\ \A j \in 1 .. Len(r) : s[j] = IF j = 1 THEN b ELSE r[j]
  <2> HIDE DEF b, r
  <2>1. QED
    BY <1>1, <1>4, ExceptSeq
<1> HIDE DEF b, r, ps, a
<1>6. /\ s[1] = b /\ \A j \in 2 .. Len(r) : s[j] = r[j]
      /\ DOMAIN s = DOMAIN r
  BY <1>1, <1>5
<1> HIDE DEF s
<1>7. replies' \in [Clients -> Seq(ReplyMsg)] /\ replies'[c] = s
      /\ \A e \in Clients \ {c} : replies'[e] = replies[e]
  BY <1>2, <1>5 DEF ClientTypes
<1>8. QED
  BY <1>1, <1>4, <1>5, <1>6, <1>7 DEF r, a, ps

\* The first answer is done with.
LEMMA ResumeStep ==
    ASSUME ClientTypes, NEW c \in Clients, replies[c] # <<>>, Resume(c)
    PROVE  /\ replies' \in [Clients -> Seq(ReplyMsg)] /\ replies'[c] = Tail(replies[c])
           /\ \A e \in Clients \ {c} : replies'[e] = replies[e]
           /\ co' \in [Coroutines -> Waiting] /\ co'[Answer(c).co] = Idle
           /\ \A k \in Coroutines \ {Answer(c).co} : co'[k] = co[k]
<1>1. Tail(replies[c]) \in Seq(ReplyMsg) /\ Answer(c).co \in Coroutines
  BY FirstAnswer
<1> DEFINE s == Tail(replies[c])
           k0 == Answer(c).co
<1>2. replies' = [replies EXCEPT ![c] = s] /\ co' = [co EXCEPT ![k0] = Idle]
  BY DEF Resume
<1>3. s \in Seq(ReplyMsg) /\ k0 \in Coroutines /\ Idle \in Waiting
  BY <1>1 DEF Idle, Waiting
<1> HIDE DEF s, k0
<1>4. replies' \in [Clients -> Seq(ReplyMsg)] /\ replies'[c] = s
      /\ \A e \in Clients \ {c} : replies'[e] = replies[e]
  BY <1>2, <1>3 DEF ClientTypes
<1>5. co' \in [Coroutines -> Waiting] /\ co'[k0] = Idle
      /\ \A k \in Coroutines \ {k0} : co'[k] = co[k]
  BY <1>2, <1>3 DEF ClientTypes
<1>6. QED
  BY <1>4, <1>5 DEF s, k0

-----------------------------------------------------------------------------
(* Steps *)

\* The types that Refs needs.
LEMMA CountedTypes == ServiceTypes /\ ClientTypes => Counted
BY DEF ServiceTypes, ClientTypes, Counted

\* The types that Refs needs, after a step.
LEMMA CountedTypesNext == ServiceTypes' /\ ClientTypes' => Counted'
BY DEF ServiceTypes, ClientTypes, Counted

\* A step that gives a graph's count as many references as it makes keeps the count exact.
LEMMA Balance ==
    ASSUME RefInv, NEW p \in Ptr, NEW d \in Int, Refs(p) \in Nat, Refs(p)' \in Nat,
           heap[p].ref \in Int,
           Refs(p)' = Refs(p) + d, heap'[p].ref = heap[p].ref + d,
           heap'[p].live = heap[p].live, d > 0 => Refs(p) > 0, doomed' = doomed
    PROVE  RefAt(p)'
<1>1. RefAt(p)
  BY DEF RefInv
<1>2. CASE heap[p].live
  BY <1>1, <1>2 DEF RefAt
<1>3. CASE ~heap[p].live
  <2>1. Refs(p) = 0 /\ heap[p].ref = 0
    BY <1>1, <1>3 DEF RefAt
  <2>2. d = 0
    BY <2>1
  <2>3. QED
    BY <1>1, <1>3, <2>1, <2>2 DEF RefAt
<1>4. QED
  BY <1>2, <1>3

\* What a client holds, by kind.
LEMMA HoldDiff ==
    ASSUME NEW d \in [Ptr -> Nat], NEW e \in [Ptr -> Nat], NEW w, NEW x,
           NEW r \in Seq(ReplyMsg), NEW s \in Seq(ReplyMsg), NEW p \in Ptr
    PROVE  /\ Hold(e, x, s, p) - Hold(d, w, r, p)
                 = (e[p] - d[p])
                   + (Cardinality(DocsOf(x, p)) - Cardinality(DocsOf(w, p)))
                   + (Cardinality(PendingOf(x, p)) - Cardinality(PendingOf(w, p)))
                   + (Cardinality(CarriedBy(s, p)) - Cardinality(CarriedBy(r, p)))
           /\ Hold(d, w, r, p) >= Cardinality(CarriedBy(r, p))
           /\ Hold(d, w, r, p) \in Nat /\ Hold(e, x, s, p) \in Nat
<1>1. d[p] \in Nat /\ e[p] \in Nat
  OBVIOUS
<1>2. /\ Cardinality(DocsOf(x, p)) \in Nat /\ Cardinality(DocsOf(w, p)) \in Nat
      /\ Cardinality(PendingOf(x, p)) \in Nat /\ Cardinality(PendingOf(w, p)) \in Nat
      /\ Cardinality(CarriedBy(s, p)) \in Nat /\ Cardinality(CarriedBy(r, p)) \in Nat
  BY BoxesFinite, CarriedFinite
<1>3. /\ Hold(d, w, r, p) = d[p] + Cardinality(DocsOf(w, p)) + Cardinality(PendingOf(w, p))
                                 + Cardinality(CarriedBy(r, p))
      /\ Hold(e, x, s, p) = e[p] + Cardinality(DocsOf(x, p)) + Cardinality(PendingOf(x, p))
                                 + Cardinality(CarriedBy(s, p))
  BY DEF Hold
<1> DEFINE D == Cardinality(DocsOf(w, p))
           D1 == Cardinality(DocsOf(x, p))
           P == Cardinality(PendingOf(w, p))
           P1 == Cardinality(PendingOf(x, p))
           C == Cardinality(CarriedBy(r, p))
           C1 == Cardinality(CarriedBy(s, p))
           H == Hold(d, w, r, p)
           H1 == Hold(e, x, s, p)
           n == d[p]
           n1 == e[p]
<1>4. /\ n \in Nat /\ n1 \in Nat /\ D \in Nat /\ D1 \in Nat /\ P \in Nat /\ P1 \in Nat
      /\ C \in Nat /\ C1 \in Nat /\ H = n + D + P + C /\ H1 = n1 + D1 + P1 + C1
  BY <1>1, <1>2, <1>3
<1> HIDE DEF D, D1, P, P1, C, C1, H, H1, n, n1
<1>5. /\ H1 - H = (n1 - n) + (D1 - D) + (P1 - P) + (C1 - C)
      /\ H >= C /\ H \in Nat /\ H1 \in Nat
  BY <1>4
<1>6. QED
  BY <1>5 DEF D, D1, P, P1, C, C1, H, H1, n, n1

\* What an answer carries.
LEMMA RefsReply ==
    ASSUME ServiceTypes, ClientTypes, ServiceTypes', ClientTypes',
           NEW k \in Coroutines, NEW ps \in Pointers, Reply(k, ps),
           UNCHANGED <<dead, views, files>>, NEW p \in Ptr
    PROVE  /\ Refs(p) \in Nat /\ Refs(p)' \in Nat
           /\ Refs(p)' = Refs(p)
                + (IF Home[k] \in gone THEN 0
                   ELSE Cardinality(NamesFor([co |-> k, pointers |-> ps], p)))
                + (Cardinality(Confirms(inbox', p)) - Cardinality(Confirms(inbox, p)))
                + (lost'[p] - lost[p])
           /\ Refs(p) >= Cardinality(OwnersOf(files, p))
<1> DEFINE h == Home[k]
           m == [co |-> k, pointers |-> ps]
<1>1. /\ m \in ReplyMsg /\ h \in Clients
      /\ \A e \in Clients : (e # h \/ h \in gone) => replies'[e] = replies[e]
      /\ h \notin gone => replies'[h] = Append(replies[h], m)
  BY ReplyStep
<1>2. Counted /\ Counted'
  BY CountedTypes, CountedTypesNext
<1>3. /\ dead[h] \in [Ptr -> Nat] /\ replies[h] \in Seq(ReplyMsg)
      /\ replies'[h] \in Seq(ReplyMsg)
  BY <1>1 DEF ClientTypes
<1> DEFINE H == Hold(dead[h], views[h], replies[h], p)
           H1 == Hold(dead'[h], views'[h], replies'[h], p)
           O == Cardinality(OwnersOf(files, p))
           C == Cardinality(Confirms(inbox, p))
           C1 == Cardinality(Confirms(inbox', p))
           N == Cardinality(NamesFor(m, p))
<1>4. /\ Refs(p) \in Nat /\ Refs(p)' \in Nat
      /\ Refs(p)' = Refs(p) + (O - O) + (H1 - H) + (C1 - C) + (lost'[p] - lost[p])
      /\ Refs(p) >= O + H
  BY <1>1, <1>2, RefsOne
<1>5. H \in Nat /\ H1 \in Nat
      /\ H1 - H = Cardinality(CarriedBy(replies'[h], p)) - Cardinality(CarriedBy(replies[h], p))
  <2>1. /\ H1 - H = (dead[h][p] - dead[h][p])
                 + (Cardinality(DocsOf(views[h], p)) - Cardinality(DocsOf(views[h], p)))
                 + (Cardinality(PendingOf(views[h], p)) - Cardinality(PendingOf(views[h], p)))
                 + (Cardinality(CarriedBy(replies'[h], p)) - Cardinality(CarriedBy(replies[h], p)))
        /\ H \in Nat /\ H1 \in Nat
    BY <1>3, HoldDiff
  <2>2. /\ dead[h][p] \in Nat /\ Cardinality(DocsOf(views[h], p)) \in Nat
        /\ Cardinality(PendingOf(views[h], p)) \in Nat
        /\ Cardinality(CarriedBy(replies'[h], p)) \in Nat
        /\ Cardinality(CarriedBy(replies[h], p)) \in Nat
    BY <1>3, BoxesFinite, CarriedFinite
  <2> HIDE DEF H, H1
  <2>3. QED
    BY <2>1, <2>2
<1>6. H1 - H = IF h \in gone THEN 0 ELSE N
  <2>1. Cardinality(CarriedBy(replies[h], p)) \in Nat /\ N \in Nat
    BY <1>3, CarriedFinite, NamesForFinite
  <2>2. CASE h \in gone
    <3>1. CarriedBy(replies'[h], p) = CarriedBy(replies[h], p)
      BY <1>1, <2>2
    <3> HIDE DEF H, H1, N
    <3>2. QED
      BY <1>5, <2>1, <2>2, <3>1
  <2>3. CASE h \notin gone
    <3>1. Cardinality(CarriedBy(replies'[h], p)) = Cardinality(CarriedBy(replies[h], p)) + N
      <4> HIDE DEF m
      <4>1. QED
        BY <1>1, <1>3, <2>3, CarriedAppend
    <3> HIDE DEF H, H1, N
    <3>2. QED
      BY <1>5, <2>1, <2>3, <3>1
  <2>4. QED
    BY <2>2, <2>3
<1>7. /\ O \in Nat /\ C \in Nat /\ C1 \in Nat /\ lost[p] \in Nat /\ lost'[p] \in Nat /\ N \in Nat
  <2>1. inbox \in Seq(Message) /\ inbox' \in Seq(Message) /\ lost \in [Ptr -> Nat] /\ lost' \in [Ptr -> Nat]
    BY <1>2 DEF Counted
  <2>2. QED
    BY <2>1, OwnersFinite, ConfirmsFinite, NamesForFinite
<1> HIDE DEF H, H1, O, C, C1, N, m, h
<1>8. /\ Refs(p)' = Refs(p) + (IF h \in gone THEN 0 ELSE N) + (C1 - C) + (lost'[p] - lost[p])
      /\ Refs(p) >= O
  BY <1>4, <1>5, <1>6, <1>7
<1>9. QED
  BY <1>4, <1>8 DEF H, H1, O, C, C1, N, m, h

\* Calls under way when a message is answered.
LEMMA AnswerCall ==
    ASSUME ServiceTypes, ClientTypes, MessageInv, CallInv, Ready, Head(inbox).op # "confirm",
           NEW ps \in Pointers, DOMAIN ps \subseteq NamesOf(Head(inbox).names),
           Reply(Head(inbox).co, ps), inbox' = Tail(inbox), UNCHANGED <<co, gone, owed>>
    PROVE  CallInv'
<1> DEFINE k0 == Head(inbox).co
           h == Home[k0]
           m == [co |-> k0, pointers |-> ps]
<1>1. /\ inbox # <<>> /\ owed = Nil /\ 1 \in DOMAIN inbox /\ Head(inbox) = inbox[1]
      /\ Head(inbox) \in Message /\ k0 \in Coroutines
      /\ \A i \in DOMAIN inbox' : i \in Nat \ {0} /\ i + 1 \in DOMAIN inbox /\ inbox'[i] = inbox[i + 1]
  <2>1. inbox # <<>> /\ owed = Nil
    BY DEF Ready
  <2>2. QED
    BY <2>1, FirstMessage
<1>2. /\ m \in ReplyMsg /\ h \in Clients
      /\ replies' \in [Clients -> Seq(ReplyMsg)]
      /\ \A e \in Clients : (e # h \/ h \in gone) => replies'[e] = replies[e]
      /\ h \notin gone => /\ replies'[h] = Append(replies[h], m)
                          /\ DOMAIN replies'[h] = DOMAIN replies[h] \cup {Len(replies[h]) + 1}
                          /\ Len(replies[h]) + 1 \notin DOMAIN replies[h]
                          /\ \A j \in DOMAIN replies[h] : replies'[h][j] = replies[h][j]
                          /\ replies'[h][Len(replies[h]) + 1] = m
  BY <1>1, ReplyStep
<1>3. m.co = k0 /\ m.pointers = ps /\ Head(inbox).op # "none"
  BY <1>1 DEF Message
<1> HIDE DEF m
<1>4. ASSUME NEW k \in Coroutines, Home[k] \notin gone'
      PROVE  AskInv(k)' /\ OwedInv(k)' /\ ToldInv(k)' /\ UpdateInv(k)'
  <2>1. /\ AskInv(k) /\ OwedInv(k) /\ ToldInv(k) /\ UpdateInv(k) /\ Home[k] \notin gone
        /\ Home[k] \in Clients /\ k # Nil
    BY <1>4, ShareTableAssumption DEF CallInv
  <2>2. Asks(1, k0)
    BY <1>1 DEF Asks
  <2>3. ASSUME NEW i \in DOMAIN inbox', Asks(i, k)'
        PROVE  k # k0 /\ Asks(i + 1, k)
    <3>1. Asks(i + 1, k) /\ i + 1 # 1
      BY <1>1, <2>3 DEF Asks
    <3>2. QED
      BY <1>1, <2>1, <2>2, <3>1 DEF AskInv
  <2>4. ASSUME k # k0, NEW j \in DOMAIN replies'[Home[k]], Told(j, k)'
        PROVE  /\ j \in DOMAIN replies[Home[k]] /\ Told(j, k)
               /\ replies'[Home[k]][j] = replies[Home[k]][j]
    <3>1. CASE Home[k] # h
      BY <1>2, <2>1, <2>4, <3>1 DEF Told
    <3>2. CASE Home[k] = h
      BY <1>2, <1>3, <2>1, <2>4, <3>2 DEF Told
    <3>3. QED
      BY <3>1, <3>2
  <2>5. AskInv(k)'
    <3> SUFFICES ASSUME NEW i \in DOMAIN inbox', Asks(i, k)'
                 PROVE  /\ inbox'[i].op = co'[k].op /\ NamesOf(inbox'[i].names) = co'[k].names /\ owed' # k
                        /\ \A j \in DOMAIN inbox' : Asks(j, k)' => j = i
                        /\ \A j \in DOMAIN replies'[Home[k]] : ~Told(j, k)'
      BY DEF AskInv
    <3>1. k # k0 /\ Asks(i + 1, k) /\ i + 1 \in DOMAIN inbox /\ inbox'[i] = inbox[i + 1]
      BY <1>1, <2>3
    <3>2. \A j \in DOMAIN inbox' : Asks(j, k)' => j = i
      <4>1. ASSUME NEW j \in DOMAIN inbox', Asks(j, k)' PROVE j = i
        <5>1. Asks(j + 1, k)
          BY <2>3, <4>1
        <5>2. j + 1 = i + 1
          BY <1>1, <2>1, <3>1, <5>1 DEF AskInv
        <5>3. QED
          BY <1>1, <5>2
      <4>2. QED
        BY <4>1
    <3>3. \A j \in DOMAIN replies'[Home[k]] : ~Told(j, k)'
      BY <2>1, <2>4, <3>1 DEF AskInv
    <3>4. inbox'[i].op = co'[k].op /\ NamesOf(inbox'[i].names) = co'[k].names /\ owed' # k
      BY <2>1, <3>1 DEF AskInv
    <3>5. QED
      BY <3>2, <3>3, <3>4
  <2>6. OwedInv(k)'
    BY <1>1, <2>1 DEF OwedInv
  <2>7. ToldInv(k)'
    <3> SUFFICES ASSUME NEW j \in DOMAIN replies'[Home[k]], Told(j, k)'
                 PROVE  /\ co'[k].op # "none"
                        /\ DOMAIN replies'[Home[k]][j].pointers \subseteq co'[k].names
                        /\ \A i \in DOMAIN replies'[Home[k]] : Told(i, k)' => i = j
      BY DEF ToldInv
    <3>1. CASE k # k0
      BY <2>1, <2>4, <3>1 DEF ToldInv
    <3>2. CASE k = k0
      <4>1. /\ inbox[1].op = co[k].op /\ NamesOf(inbox[1].names) = co[k].names
            /\ \A i \in DOMAIN replies[Home[k]] : ~Told(i, k)
        BY <1>1, <2>1, <2>2, <3>2 DEF AskInv
      <4>2. \A i \in DOMAIN replies'[Home[k]] : Told(i, k)' => i = Len(replies[h]) + 1
        BY <1>2, <2>1, <3>2, <4>1 DEF Told
      <4>3. replies'[Home[k]][j] = m /\ j = Len(replies[h]) + 1
        BY <1>2, <2>1, <3>2, <4>2
      <4>4. QED
        BY <1>1, <1>3, <4>1, <4>2, <4>3
    <3>3. QED
      BY <3>1, <3>2
  <2>8. UpdateInv(k)'
    BY <2>1 DEF UpdateInv
  <2>9. QED
    BY <2>5, <2>6, <2>7, <2>8
<1>5. MailInv'
  <2>1. ASSUME NEW c \in gone' PROVE replies'[c] = <<>>
    <3>1. c \in Clients /\ c \in gone /\ replies[c] = <<>>
      BY <2>1 DEF ClientTypes, CallInv, MailInv
    <3>2. QED
      BY <1>2, <3>1
  <2>2. ASSUME NEW c \in Clients, NEW j \in DOMAIN replies'[c] PROVE Home[replies'[c][j].co] = c
    <3>1. \A i \in DOMAIN replies[c] : Home[replies[c][i].co] = c
      BY DEF CallInv, MailInv
    <3>2. CASE c # h \/ h \in gone
      <4>1. replies'[c] = replies[c]
        BY <1>2, <3>2
      <4>2. QED
        BY <2>2, <3>1, <4>1
    <3>3. CASE c = h /\ h \notin gone
      <4>1. /\ DOMAIN replies'[h] = DOMAIN replies[h] \cup {Len(replies[h]) + 1}
            /\ \A i \in DOMAIN replies[h] : replies'[h][i] = replies[h][i]
            /\ replies'[h][Len(replies[h]) + 1] = m
        BY <1>2, <3>3
      <4>2. CASE j \in DOMAIN replies[h]
        BY <3>1, <3>3, <4>1, <4>2
      <4>3. CASE j = Len(replies[h]) + 1
        BY <1>3, <3>3, <4>1, <4>3
      <4>4. QED
        BY <2>2, <3>3, <4>1, <4>2, <4>3
    <3>4. QED
      BY <3>2, <3>3
  <2>3. QED
    BY <2>1, <2>2 DEF MailInv
<1>6. QED
  BY <1>4, <1>5 DEF CallInv

\* Messages keep their shape when one is taken or added.
LEMMA MessageTaken ==
    ASSUME ServiceTypes, MessageInv, inbox # <<>>, inbox' = Tail(inbox)
    PROVE  MessageInv'
<1>1. \A i \in DOMAIN inbox' : i + 1 \in DOMAIN inbox /\ inbox'[i] = inbox[i + 1]
  BY FirstMessage
<1>2. QED
  BY <1>1 DEF MessageInv

\* Messages keep their shape when one is added.
LEMMA MessageAdded ==
    ASSUME ServiceTypes, MessageInv, NEW m \in Message, inbox' = Append(inbox, m),
           IF m.op = "confirm" THEN m.pointer \in Ptr ELSE m.co \in Coroutines
    PROVE  MessageInv'
<1>1. /\ DOMAIN inbox' = DOMAIN inbox \cup {Len(inbox) + 1}
      /\ \A i \in DOMAIN inbox : inbox'[i] = inbox[i]
      /\ inbox'[Len(inbox) + 1] = m
  BY NewMessage
<1>2. QED
  BY <1>1 DEF MessageInv

\* Calls and answers that a step leaves alone.
LEMMA CallKept ==
    ASSUME CallInv, UNCHANGED <<inbox, co, owed, replies, gone>>
    PROVE  CallInv'
BY DEF CallInv, AskInv, OwedInv, ToldInv, UpdateInv, MailInv, Asks, Told

\* What the service reaches when it does nothing.
LEMMA ReachKept ==
    ASSUME ReachInv, UNCHANGED <<files, retired, todo, doomed>>,
           \A p \in Ptr : heap'[p].live = heap[p].live
    PROVE  ReachInv'
BY DEF ReachInv, NoGraphForgotten

\* The fields of a graph.
LEMMA GraphFields ==
    ASSUME NEW g \in Graph
    PROVE  g.ref \in Int /\ g.live \in BOOLEAN /\ g.dirty \in BOOLEAN /\ g.version \in 0 .. LOADS
BY DEF Graph

\* A message other than a confirmation counts for nothing.
LEMMA TakenCall ==
    ASSUME inbox \in Seq(Message), inbox # <<>>, Head(inbox).op # "confirm", NEW p
    PROVE  /\ Cardinality(Confirms(Tail(inbox), p)) \in Nat
           /\ Cardinality(Confirms(Tail(inbox), p)) - Cardinality(Confirms(inbox, p)) = 0
<1>1. Tail(inbox) \in Seq(Message)
  BY HeadTailProperties
<1>2. Cardinality(Confirms(inbox, p)) = Cardinality(Confirms(Tail(inbox), p)) + 0
  BY ConfirmTail
<1>3. Cardinality(Confirms(Tail(inbox), p)) \in Nat
  BY <1>1, ConfirmsFinite
<1>4. QED
  BY <1>2, <1>3

\* An answer without graphs carries nothing.
LEMMA NothingCarried ==
    ASSUME NEW k, NEW p
    PROVE  Cardinality(NamesFor([co |-> k, pointers |-> <<>>], p)) = 0
<1>1. NamesFor([co |-> k, pointers |-> <<>>], p) = {}
  BY EmptyAnswer DEF NamesFor
<1>2. QED
  BY <1>1, FS_EmptySet

\* A load fails.
LEMMA ServeLoadErrorStep ==
    ASSUME IInv, ServeLoadError
    PROVE  IInv'
<1> DEFINE k == Head(inbox).co
<1>1. /\ ServiceTypes /\ ClientTypes /\ MessageInv /\ ViewInv /\ CallInv /\ RefInv /\ ReachInv
  BY DEF IInv
<1>2. /\ Ready /\ inbox # <<>> /\ Head(inbox).op = "load" /\ inbox' = Tail(inbox) /\ Reply(k, <<>>)
      /\ UNCHANGED <<files, retired, todo, doomed, owed, loads>>
      /\ UNCHANGED <<views, cache, roots, dead, gone>> /\ UNCHANGED <<heap, co, lost>>
  BY DEF ServeLoadError, Ready, service, client
<1>3. /\ inbox \in Seq(Message) /\ k \in Coroutines /\ inbox' \in Seq(Message)
  BY <1>1, <1>2, FirstMessage
<1>4. <<>> \in Pointers /\ DOMAIN <<>> \subseteq NamesOf(Head(inbox).names)
  BY EmptyAnswer
<1>5. replies' \in [Clients -> Seq(ReplyMsg)]
  BY <1>1, <1>2, <1>3, <1>4, ReplyStep
<1>6. ServiceTypes' /\ ClientTypes'
  BY <1>1, <1>2, <1>3, <1>5 DEF ServiceTypes, ClientTypes
<1>7. MessageInv'
  BY <1>1, <1>2, MessageTaken
<1>8. ViewInv'
  BY <1>1, <1>2 DEF ViewInv
<1>9. CallInv'
  BY <1>1, <1>2, <1>4, AnswerCall
<1>10. ASSUME NEW p \in Ptr PROVE RefAt(p)'
  <2>1. /\ Refs(p) \in Nat /\ Refs(p)' \in Nat
        /\ Refs(p)' = Refs(p)
                + (IF Home[k] \in gone THEN 0
                   ELSE Cardinality(NamesFor([co |-> k, pointers |-> <<>>], p)))
                + (Cardinality(Confirms(inbox', p)) - Cardinality(Confirms(inbox, p)))
                + (lost'[p] - lost[p])
    BY <1>1, <1>2, <1>3, <1>4, <1>6, RefsReply
  <2>2. lost[p] \in Nat /\ lost'[p] = lost[p]
    BY <1>1, <1>2 DEF ServiceTypes
  <2>3. Refs(p)' = Refs(p) + 0
    BY <1>2, <1>3, <2>1, <2>2, TakenCall, NothingCarried
  <2>4. heap[p].ref \in Int /\ heap'[p] = heap[p]
    BY <1>1, <1>2 DEF ServiceTypes, Graph
  <2>5. QED
    BY <1>1, <1>2, <2>1, <2>3, <2>4, Balance
<1>11. RefInv'
  BY <1>10 DEF RefInv
<1>12. ReachInv'
  BY <1>1, <1>2, ReachKept
<1>13. QED
  BY <1>6, <1>7, <1>8, <1>9, <1>11, <1>12 DEF IInv

\* A query is answered: the graph of a name found has one more reference for every
\* occurrence of the name, of which a confirmation gives one back.
LEMMA ServeQueryStep ==
    ASSUME IInv, ServeQuery
    PROVE  IInv'
<1> DEFINE k == Head(inbox).co
           list == Head(inbox).names
           found == {n \in NamesOf(list) : files[n] # Nil}
           ps == [n \in found |-> files[n]]
           given == {files[n] : n \in found}
<1>1. /\ ServiceTypes /\ ClientTypes /\ MessageInv /\ ViewInv /\ CallInv /\ RefInv /\ ReachInv
  BY DEF IInv
<1>2. /\ Ready /\ inbox # <<>> /\ Head(inbox).op \in {"query", "update"} /\ inbox' = Tail(inbox)
      /\ Reply(k, ps) /\ heap' = QueryRefs(list)
      /\ lost' = [p \in Ptr |-> lost[p] + Unreturned(k, list, p)]
      /\ UNCHANGED <<files, retired, todo, doomed, owed, loads>>
      /\ UNCHANGED <<views, cache, roots, dead, gone>> /\ UNCHANGED co
  BY DEF ServeQuery, Ready, service, client
<1>3. /\ inbox \in Seq(Message) /\ k \in Coroutines /\ inbox' \in Seq(Message)
      /\ list \in Seq(Names) /\ NamesOf(list) \subseteq Names /\ Head(inbox).op # "confirm"
  BY <1>1, <1>2, FirstMessage
<1> HIDE DEF list
<1>4. /\ found \subseteq Names /\ DOMAIN ps \subseteq NamesOf(list)
      /\ \A n \in found : files[n] \in Ptr
  BY <1>1, <1>3 DEF ServiceTypes
<1>5. ps \in Pointers
  <2>1. ps \in [found -> Ptr] /\ found \in SUBSET Names
    BY <1>4
  <2> HIDE DEF ps, found
  <2>2. QED
    BY <2>1 DEF Pointers
<1>6. ASSUME NEW p \in Ptr
      PROVE  /\ Taken(list, p) \in Nat /\ (Taken(list, p) > 0 <=> p \in given)
             /\ Unreturned(k, list, p) \in Nat
             /\ Unreturned(k, list, p) = Taken(list, p)
                   - (IF Home[k] \notin gone /\ p \in given THEN 1 ELSE 0)
  <2>1. /\ Taken(list, p) \in Nat
        /\ Taken(list, p) > 0 <=> \E n \in NamesOf(list) : files[n] = p
    BY <1>3, TakenGraphs
  <2>2. p \in given <=> \E n \in NamesOf(list) : files[n] = p
    BY ShareTableAssumption
  <2> HIDE DEF given
  <2>3. QED
    BY <2>1, <2>2 DEF Unreturned
<1> HIDE DEF ps
<1>7. replies' \in [Clients -> Seq(ReplyMsg)]
  BY <1>1, <1>2, <1>3, <1>5, ReplyStep
<1>8. /\ heap' \in [Ptr -> Graph]
      /\ \A p \in Ptr : /\ heap'[p].ref = heap[p].ref + Taken(list, p)
                        /\ heap'[p].live = heap[p].live /\ heap[p].ref \in Int
  <2>1. heap \in [Ptr -> Graph] /\ heap' = QueryRefs(list)
    BY <1>1, <1>2 DEF ServiceTypes
  <2>2. heap' = [p \in Ptr |-> [heap[p] EXCEPT !.ref = @ + Taken(list, p)]]
    BY <2>1 DEF QueryRefs
  <2>3. ASSUME NEW p \in Ptr
        PROVE  /\ heap'[p] \in Graph /\ heap'[p].live = heap[p].live /\ heap[p].ref \in Int
               /\ heap'[p].ref = heap[p].ref + Taken(list, p)
    <3>1. heap[p] \in Graph /\ Taken(list, p) \in Nat
      BY <1>6, <2>1
    <3>2. heap'[p] = [heap[p] EXCEPT !.ref = @ + Taken(list, p)]
      BY <2>2
    <3>3. QED
      BY <3>1, <3>2 DEF Graph
  <2>4. heap' \in [Ptr -> Graph]
    BY <2>2, <2>3
  <2>5. QED
    BY <2>3, <2>4
<1>9. lost' \in [Ptr -> Nat]
  <2> HIDE DEF given, found
  <2>1. QED
    BY <1>1, <1>2, <1>6 DEF ServiceTypes
<1>10. ServiceTypes' /\ ClientTypes'
  BY <1>1, <1>2, <1>3, <1>7, <1>8, <1>9 DEF ServiceTypes, ClientTypes
<1>11. MessageInv'
  BY <1>1, <1>2, MessageTaken
<1>12. ViewInv'
  BY <1>1, <1>2 DEF ViewInv
<1>13. CallInv'
  BY <1>1, <1>2, <1>3, <1>4, <1>5, AnswerCall DEF list
<1>14. ASSUME NEW p \in Ptr PROVE RefAt(p)'
  <2> DEFINE N == Cardinality(NamesFor([co |-> k, pointers |-> ps], p))
             d == Taken(list, p)
  <2>1. /\ Refs(p) \in Nat /\ Refs(p)' \in Nat
        /\ Refs(p)' = Refs(p) + (IF Home[k] \in gone THEN 0 ELSE N)
                + (Cardinality(Confirms(inbox', p)) - Cardinality(Confirms(inbox, p)))
                + (lost'[p] - lost[p])
        /\ Refs(p) >= Cardinality(OwnersOf(files, p))
    BY <1>1, <1>2, <1>3, <1>5, <1>10, RefsReply
  <2>2. lost[p] \in Nat /\ lost'[p] = lost[p] + Unreturned(k, list, p)
    BY <1>1, <1>2 DEF ServiceTypes
  <2>3. Cardinality(Confirms(inbox', p)) - Cardinality(Confirms(inbox, p)) = 0
    BY <1>2, <1>3, TakenCall
  <2>4. N = IF p \in given THEN 1 ELSE 0
    <3>1. NamesFor([co |-> k, pointers |-> ps], p) = {n \in found : files[n] = p}
      BY <1>4 DEF NamesFor, ps
    <3>2. CASE p \in given
      <4>1. PICK n \in found : files[n] = p
        BY <3>2
      <4>2. {i \in found : files[i] = p} = {n}
        BY <1>1, <1>4, <4>1 DEF ReachInv
      <4>3. QED
        BY <3>1, <3>2, <4>2, FS_Singleton
    <3>3. CASE p \notin given
      <4>1. {i \in found : files[i] = p} = {}
        BY <3>3
      <4>2. QED
        BY <3>1, <3>3, <4>1, FS_EmptySet
    <3>4. QED
      BY <3>2, <3>3
  <2>5. p \in given => Cardinality(OwnersOf(files, p)) > 0
    <3>1. ASSUME p \in given PROVE Cardinality(OwnersOf(files, p)) > 0
      <4>1. OwnersOf(files, p) # {}
        BY <1>4, <3>1 DEF OwnersOf
      <4>2. IsFiniteSet(OwnersOf(files, p)) /\ Cardinality(OwnersOf(files, p)) \in Nat
        BY OwnersFinite
      <4>3. Cardinality(OwnersOf(files, p)) # 0
        BY <4>1, <4>2, FS_EmptySet
      <4>4. QED
        BY <4>2, <4>3
    <3>2. QED
      BY <3>1
  <2>6. Cardinality(OwnersOf(files, p)) \in Nat
    BY OwnersFinite
  <2> HIDE DEF N
  <2>7. Refs(p)' = Refs(p) + d
    <3>1. /\ d \in Nat /\ Unreturned(k, list, p) \in Nat
          /\ Unreturned(k, list, p) = d - (IF Home[k] \notin gone /\ p \in given THEN 1 ELSE 0)
      BY <1>6
    <3> HIDE DEF d, given
    <3>2. QED
      BY <2>1, <2>2, <2>3, <2>4, <3>1
  <2>8. d > 0 => Refs(p) > 0
    <3>1. d > 0 => p \in given
      BY <1>6
    <3> HIDE DEF d, given
    <3>2. QED
      BY <2>1, <2>5, <2>6, <3>1
  <2>9. heap'[p].ref = heap[p].ref + d /\ heap'[p].live = heap[p].live /\ heap[p].ref \in Int
        /\ d \in Int
    BY <1>6, <1>8
  <2> HIDE DEF d
  <2>10. QED
    BY <1>1, <1>2, <2>1, <2>7, <2>8, <2>9, Balance
<1>15. RefInv'
  BY <1>14 DEF RefInv
<1>16. ReachInv'
  BY <1>1, <1>2, <1>8, ReachKept
<1>17. QED
  BY <1>10, <1>11, <1>12, <1>13, <1>15, <1>16 DEF IInv

\* Any number of references is a natural number, and a name's graph has one.
LEMMA RefsNat ==
    ASSUME ServiceTypes, ClientTypes, NEW p \in Ptr
    PROVE  Refs(p) \in Nat /\ Refs(p) >= Cardinality(OwnersOf(files, p))
<1> DEFINE f == [e \in Clients |-> Hold(dead[e], views[e], replies[e], p)]
<1>1. \A e \in Clients : Hold(dead[e], views[e], replies[e], p) \in Nat
  BY HoldNat DEF ClientTypes
<1>2. f \in [Clients -> Nat] /\ IsFiniteSet(Clients)
  BY <1>1, ShareTableAssumption
<1>3. Refs(p) = Cardinality(OwnersOf(files, p)) + Sum(f)
                   + Cardinality(Confirms(inbox, p)) + lost[p]
  BY RefsAre
<1>4. /\ Cardinality(OwnersOf(files, p)) \in Nat /\ Cardinality(Confirms(inbox, p)) \in Nat
      /\ lost[p] \in Nat
  BY OwnersFinite, ConfirmsFinite DEF ServiceTypes
<1> HIDE DEF f
<1>5. Sum(f) \in Nat
  <2>1. IsFiniteSet(Spread(f))
    BY <1>2, SpreadFinite
  <2>2. Cardinality(Spread(f)) \in Nat
    BY <2>1, FS_CardinalityType
  <2>3. QED
    BY <2>2 DEF Sum, Spread
<1>6. QED
  BY <1>3, <1>4, <1>5

\* A name's graph is in the heap, and collect_retired has not chosen it.
LEMMA OwnedLives ==
    ASSUME ServiceTypes, ClientTypes, RefInv, NEW n \in Names, files[n] # Nil
    PROVE  files[n] \in Ptr /\ heap[files[n]].live /\ doomed # files[n]
<1> DEFINE p == files[n]
<1>1. p \in Ptr
  BY DEF ServiceTypes
<1>2. OwnersOf(files, p) # {}
  BY DEF OwnersOf
<1>3. Cardinality(OwnersOf(files, p)) \in Nat /\ Cardinality(OwnersOf(files, p)) # 0
  BY <1>2, OwnersFinite, FS_EmptySet
<1>4. Refs(p) > 0
  BY <1>1, <1>3, RefsNat
<1>5. QED
  BY <1>1, <1>4 DEF RefInv, RefAt

\* One count changes.
LEMMA HeapOne ==
    ASSUME ServiceTypes, NEW q \in Ptr, NEW x \in Int, heap' = [heap EXCEPT ![q].ref = x]
    PROVE  /\ heap' \in [Ptr -> Graph] /\ heap'[q].ref = x
           /\ \A p \in Ptr : /\ heap'[p].live = heap[p].live /\ heap'[p].dirty = heap[p].dirty
                             /\ heap'[p].version = heap[p].version /\ heap[p].ref \in Int
                             /\ p # q => heap'[p].ref = heap[p].ref
<1>1. heap \in [Ptr -> Graph]
  BY DEF ServiceTypes
<1>2. heap' = [heap EXCEPT ![q] = [heap[q] EXCEPT !.ref = x]]
  OBVIOUS
<1> DEFINE g == [heap[q] EXCEPT !.ref = x]
<1>3. /\ g \in Graph /\ g.ref = x /\ g.live = heap[q].live /\ g.dirty = heap[q].dirty
      /\ g.version = heap[q].version
  BY <1>1 DEF Graph
<1> HIDE DEF g
<1>4. heap' \in [Ptr -> Graph] /\ heap'[q] = g /\ \A p \in Ptr \ {q} : heap'[p] = heap[p]
  BY <1>1, <1>2, <1>3 DEF g
<1>5. QED
  BY <1>1, <1>3, <1>4, GraphFields

\* Calls under way when a confirmation is taken, or a load.
LEMMA CallTaken ==
    ASSUME ServiceTypes, ClientTypes, MessageInv, CallInv, inbox # <<>>, inbox' = Tail(inbox),
           owed = Nil, UNCHANGED <<co, replies, gone>>,
           \/ Head(inbox).op = "confirm" /\ owed' = owed
           \/ Head(inbox).op = "load" /\ owed' = Head(inbox).co
    PROVE  CallInv'
<1>1. /\ 1 \in DOMAIN inbox /\ Head(inbox) = inbox[1]
      /\ \A i \in DOMAIN inbox' : i \in Nat \ {0} /\ i + 1 \in DOMAIN inbox /\ inbox'[i] = inbox[i + 1]
  BY FirstMessage
<1>2. ASSUME NEW k \in Coroutines, Home[k] \notin gone'
      PROVE  AskInv(k)' /\ OwedInv(k)' /\ ToldInv(k)' /\ UpdateInv(k)'
  <2>1. AskInv(k) /\ OwedInv(k) /\ ToldInv(k) /\ UpdateInv(k) /\ k # Nil
    BY <1>2, ShareTableAssumption DEF CallInv
  <2>2. ASSUME NEW i \in DOMAIN inbox', Asks(i, k)'
        PROVE  Asks(i + 1, k) /\ i + 1 # 1 /\ i + 1 \in DOMAIN inbox
    BY <1>1, <2>2 DEF Asks
  <2>3. owed' = k => Asks(1, k) /\ inbox[1].op = "load"
    BY <1>1, <2>1 DEF Asks
  <2>4. AskInv(k)'
    <3> SUFFICES ASSUME NEW i \in DOMAIN inbox', Asks(i, k)'
                 PROVE  /\ inbox'[i].op = co'[k].op /\ NamesOf(inbox'[i].names) = co'[k].names /\ owed' # k
                        /\ \A j \in DOMAIN inbox' : Asks(j, k)' => j = i
                        /\ \A j \in DOMAIN replies'[Home[k]] : ~Told(j, k)'
      BY DEF AskInv
    <3>1. Asks(i + 1, k) /\ i + 1 # 1 /\ i + 1 \in DOMAIN inbox /\ inbox'[i] = inbox[i + 1]
      BY <1>1, <2>2
    <3>2. \A j \in DOMAIN inbox' : Asks(j, k)' => j = i
      <4>1. ASSUME NEW j \in DOMAIN inbox', Asks(j, k)' PROVE j = i
        <5>1. Asks(j + 1, k)
          BY <2>2, <4>1
        <5>2. j + 1 = i + 1
          BY <1>1, <2>1, <3>1, <5>1 DEF AskInv
        <5>3. QED
          BY <1>1, <5>2
      <4>2. QED
        BY <4>1
    <3>3. \A j \in DOMAIN replies'[Home[k]] : ~Told(j, k)'
      BY <2>1, <3>1 DEF AskInv, Told
    <3>4. inbox'[i].op = co'[k].op /\ NamesOf(inbox'[i].names) = co'[k].names
      BY <2>1, <3>1 DEF AskInv
    <3>5. owed' # k
      BY <1>1, <2>1, <2>3, <3>1 DEF AskInv
    <3>6. QED
      BY <3>2, <3>3, <3>4, <3>5
  <2>5. OwedInv(k)'
    BY <1>1, <2>1, <2>3 DEF OwedInv, AskInv, Told
  <2>6. ToldInv(k)' /\ UpdateInv(k)'
    BY <2>1 DEF ToldInv, UpdateInv, Told
  <2>7. QED
    BY <2>4, <2>5, <2>6
<1>3. MailInv'
  BY DEF CallInv, MailInv
<1>4. QED
  BY <1>2, <1>3 DEF CallInv

\* A confirmation gives a reference back.
LEMMA ServeConfirmStep ==
    ASSUME IInv, ServeConfirm
    PROVE  IInv'
<1> DEFINE q == Head(inbox).pointer
<1>1. /\ ServiceTypes /\ ClientTypes /\ MessageInv /\ ViewInv /\ CallInv /\ RefInv /\ ReachInv
  BY DEF IInv
<1>2. /\ Ready /\ inbox # <<>> /\ Head(inbox).op = "confirm" /\ inbox' = Tail(inbox)
      /\ owed = Nil /\ doomed = Nil
      /\ heap' = DecRef(heap, q) /\ retired' = retired /\ todo' = retired'
      /\ UNCHANGED <<files, doomed, owed, loads, replies, co, lost>>
      /\ UNCHANGED <<views, cache, roots, dead, gone>>
  BY DEF ServeConfirm, Ready, Collect, client
<1>3. /\ inbox \in Seq(Message) /\ q \in Ptr /\ inbox' \in Seq(Message)
  BY <1>1, <1>2, FirstMessage
<1>4. /\ heap' \in [Ptr -> Graph]
      /\ \A p \in Ptr : /\ heap'[p].live = heap[p].live /\ heap[p].ref \in Int
                        /\ p = q => heap'[p].ref = heap[p].ref + (-1)
                        /\ p # q => heap'[p].ref = heap[p].ref + 0
  <2> DEFINE x == heap[q].ref - 1
  <2>1. heap' = [heap EXCEPT ![q].ref = x]
    BY <1>2 DEF DecRef
  <2>2. x \in Int /\ x = heap[q].ref + (-1)
    BY <1>1, <1>3, GraphFields DEF ServiceTypes
  <2> HIDE DEF q, x
  <2>3. /\ heap' \in [Ptr -> Graph] /\ heap'[q].ref = x
        /\ \A p \in Ptr : /\ heap'[p].live = heap[p].live /\ heap[p].ref \in Int
                          /\ p # q => heap'[p].ref = heap[p].ref
    BY <1>1, <1>3, <2>1, <2>2, HeapOne
  <2>4. QED
    BY <2>2, <2>3
<1>5. ServiceTypes' /\ ClientTypes'
  BY <1>1, <1>2, <1>3, <1>4 DEF ServiceTypes, ClientTypes
<1>6. MessageInv'
  BY <1>1, <1>2, MessageTaken
<1>7. ViewInv'
  BY <1>1, <1>2 DEF ViewInv
<1>8. CallInv'
  BY <1>1, <1>2, CallTaken
<1>9. ASSUME NEW p \in Ptr PROVE RefAt(p)'
  <2>1. Counted /\ Counted'
    BY <1>1, <1>5, CountedTypes, CountedTypesNext
  <2>2. /\ Refs(p) \in Nat /\ Refs(p)' \in Nat
        /\ Refs(p)' = Refs(p)
                + (Cardinality(OwnersOf(files, p)) - Cardinality(OwnersOf(files, p)))
                + (Cardinality(Confirms(inbox', p)) - Cardinality(Confirms(inbox, p)))
                + (lost[p] - lost[p])
    BY <1>2, <2>1, RefsNone
  <2>3. /\ Cardinality(OwnersOf(files, p)) \in Nat /\ lost[p] \in Nat
        /\ Cardinality(Confirms(inbox', p)) \in Nat
    BY <1>1, <1>3, OwnersFinite, ConfirmsFinite DEF ServiceTypes
  <2>4. Cardinality(Confirms(inbox, p)) = Cardinality(Confirms(inbox', p)) + (IF q = p THEN 1 ELSE 0)
    BY <1>2, <1>3, ConfirmTail
  <2>5. CASE p = q
    <3>1. Refs(p)' = Refs(p) + (-1)
      BY <2>2, <2>3, <2>4, <2>5
    <3>2. QED
      BY <1>1, <1>2, <1>4, <2>2, <2>5, <3>1, Balance
  <2>6. CASE p # q
    <3>1. Refs(p)' = Refs(p) + 0
      BY <2>2, <2>3, <2>4, <2>6
    <3>2. QED
      BY <1>1, <1>2, <1>4, <2>2, <2>6, <3>1, Balance
  <2>7. QED
    BY <2>5, <2>6
<1>10. RefInv'
  BY <1>9 DEF RefInv
<1>11. ReachInv'
  BY <1>1, <1>2, <1>4 DEF ReachInv, NoGraphForgotten
<1>12. QED
  BY <1>5, <1>6, <1>7, <1>8, <1>10, <1>11 DEF IInv

\* Refs does not change when nothing that holds references does.
LEMMA RefsKept ==
    ASSUME UNCHANGED <<files, dead, views, replies, inbox, lost>>, NEW p
    PROVE  Refs(p)' = Refs(p)
BY RefsAre, RefsWillBe

\* A retired graph is looked at.
LEMMA CollectCheckStep ==
    ASSUME IInv, CollectCheck
    PROVE  IInv'
<1>1. /\ ServiceTypes /\ ClientTypes /\ MessageInv /\ ViewInv /\ CallInv /\ RefInv /\ ReachInv
  BY DEF IInv
<1>2. PICK q \in todo : todo' = todo \ {q} /\ doomed' = IF heap[q].ref <= 0 THEN q ELSE Nil
  BY DEF CollectCheck
<1>3. /\ doomed = Nil
      /\ UNCHANGED <<files, retired, owed, loads, heap, inbox, replies, co, lost>>
      /\ UNCHANGED <<views, cache, roots, dead, gone>>
  BY DEF CollectCheck, client
<1>4. q \in Ptr /\ q \in retired
  BY <1>1 DEF ServiceTypes
<1>5. ServiceTypes' /\ ClientTypes'
  BY <1>1, <1>2, <1>3, <1>4 DEF ServiceTypes, ClientTypes
<1>6. MessageInv' /\ ViewInv'
  BY <1>1, <1>3 DEF MessageInv, ViewInv
<1>7. CallInv'
  BY <1>1, <1>3, CallKept
<1>8. heap[q].live
  BY <1>1, <1>4 DEF ReachInv, NoGraphForgotten
<1>9. ASSUME NEW p \in Ptr PROVE RefAt(p)'
  <2>1. Refs(p)' = Refs(p) /\ heap' = heap
    BY <1>3, RefsKept
  <2>2. RefAt(p) /\ Refs(p) \in Nat
    BY <1>1, RefsNat DEF RefInv
  <2>3. ASSUME Refs(p) > 0 PROVE doomed' # p
    <3>1. CASE p = q
      <4>1. heap[q].ref = Refs(p)
        BY <1>8, <2>2, <3>1 DEF RefAt
      <4>2. ~(heap[q].ref <= 0)
        BY <2>2, <2>3, <4>1
      <4>3. QED
        BY <1>2, <4>2, ShareTableAssumption
    <3>2. CASE p # q
      BY <1>2, <3>2, ShareTableAssumption
    <3>3. QED
      BY <3>1, <3>2
  <2>4. QED
    BY <2>1, <2>2, <2>3 DEF RefAt
<1>10. RefInv'
  BY <1>9 DEF RefInv
<1>11. ReachInv'
  BY <1>1, <1>2, <1>3, <1>4 DEF ReachInv, NoGraphForgotten
<1>12. QED
  BY <1>5, <1>6, <1>7, <1>10, <1>11 DEF IInv

\* A graph without references is deleted.
LEMMA CollectDeleteStep ==
    ASSUME IInv, CollectDelete
    PROVE  IInv'
<1>1. /\ ServiceTypes /\ ClientTypes /\ MessageInv /\ ViewInv /\ CallInv /\ RefInv /\ ReachInv
  BY DEF IInv
<1>2. /\ doomed # Nil /\ heap' = [heap EXCEPT ![doomed] = NoGraph] /\ retired' = retired \ {doomed}
      /\ doomed' = Nil
      /\ UNCHANGED <<files, todo, owed, loads, inbox, replies, co, lost>>
      /\ UNCHANGED <<views, cache, roots, dead, gone>>
  BY DEF CollectDelete, client
<1>3. doomed \in Ptr /\ doomed \in retired /\ doomed \notin todo
  BY <1>1, <1>2 DEF ServiceTypes, ReachInv
<1>4. NoGraph \in Graph /\ NoGraph.live = FALSE /\ NoGraph.ref = 0
  BY ShareTableAssumption DEF NoGraph, Graph
<1>5. /\ heap' \in [Ptr -> Graph] /\ heap'[doomed] = NoGraph
      /\ \A p \in Ptr \ {doomed} : heap'[p] = heap[p]
  BY <1>1, <1>2, <1>3, <1>4 DEF ServiceTypes
<1>6. ServiceTypes' /\ ClientTypes'
  BY <1>1, <1>2, <1>3, <1>5 DEF ServiceTypes, ClientTypes
<1>7. MessageInv' /\ ViewInv'
  BY <1>1, <1>2 DEF MessageInv, ViewInv
<1>8. CallInv'
  BY <1>1, <1>2, CallKept
<1>9. ASSUME NEW p \in Ptr PROVE RefAt(p)'
  <2>1. Refs(p)' = Refs(p)
    BY <1>2, RefsKept
  <2>2. RefAt(p) /\ Refs(p) \in Nat /\ p # Nil
    BY <1>1, RefsNat, ShareTableAssumption DEF RefInv
  <2>3. CASE p = doomed
    <3>1. ~(Refs(p) > 0)
      BY <2>2, <2>3 DEF RefAt
    <3>2. QED
      BY <1>4, <1>5, <2>1, <2>3, <3>1 DEF RefAt
  <2>4. CASE p # doomed
    BY <1>2, <1>5, <2>1, <2>2, <2>4 DEF RefAt
  <2>5. QED
    BY <2>3, <2>4
<1>10. RefInv'
  BY <1>9 DEF RefInv
<1>11. \A n \in Names : files[n] # doomed
  BY <1>1, <1>2, OwnedLives
<1>12. NoGraphForgotten'
  <2>1. ASSUME NEW p \in Ptr
        PROVE  heap'[p].live <=> p \in retired' \cup {files'[n] : n \in Names}
    <3>1. heap[p].live <=> p \in retired \cup {files[n] : n \in Names}
      BY <1>1 DEF ReachInv, NoGraphForgotten
    <3>2. CASE p = doomed
      BY <1>2, <1>4, <1>5, <1>11, <3>2
    <3>3. CASE p # doomed
      BY <1>2, <1>5, <3>1, <3>3
    <3>4. QED
      BY <3>2, <3>3
  <2>2. QED
    BY <2>1 DEF NoGraphForgotten
<1>13. ReachInv'
  BY <1>1, <1>2, <1>12 DEF ReachInv
<1>14. QED
  BY <1>6, <1>7, <1>8, <1>10, <1>13 DEF IInv

\* A load is answered.
LEMMA AnswerLoadStep ==
    ASSUME IInv, AnswerLoad
    PROVE  IInv'
<1> DEFINE h == Home[owed]
           m == [co |-> owed, pointers |-> <<>>]
<1>1. /\ ServiceTypes /\ ClientTypes /\ MessageInv /\ ViewInv /\ CallInv /\ RefInv /\ ReachInv
  BY DEF IInv
<1>2. /\ owed # Nil /\ Reply(owed, <<>>) /\ owed' = Nil
      /\ UNCHANGED <<files, retired, todo, doomed, loads, heap, inbox, co, lost>>
      /\ UNCHANGED <<views, cache, roots, dead, gone>>
  BY DEF AnswerLoad, client
<1>3. owed \in Coroutines /\ <<>> \in Pointers
  BY <1>1, <1>2, EmptyAnswer DEF ServiceTypes
<1>4. /\ m \in ReplyMsg /\ h \in Clients
      /\ replies' \in [Clients -> Seq(ReplyMsg)]
      /\ \A e \in Clients : (e # h \/ h \in gone) => replies'[e] = replies[e]
      /\ h \notin gone => /\ replies'[h] = Append(replies[h], m)
                          /\ DOMAIN replies'[h] = DOMAIN replies[h] \cup {Len(replies[h]) + 1}
                          /\ Len(replies[h]) + 1 \notin DOMAIN replies[h]
                          /\ \A j \in DOMAIN replies[h] : replies'[h][j] = replies[h][j]
                          /\ replies'[h][Len(replies[h]) + 1] = m
  BY <1>1, <1>2, <1>3, ReplyStep
<1>5. m.co = owed /\ DOMAIN m.pointers = {}
  BY EmptyAnswer
<1> HIDE DEF m
<1>6. ServiceTypes' /\ ClientTypes'
  BY <1>1, <1>2, <1>4 DEF ServiceTypes, ClientTypes
<1>7. MessageInv' /\ ViewInv'
  BY <1>1, <1>2 DEF MessageInv, ViewInv
<1>8. ASSUME NEW k \in Coroutines, Home[k] \notin gone'
      PROVE  AskInv(k)' /\ OwedInv(k)' /\ ToldInv(k)' /\ UpdateInv(k)'
  <2>1. /\ AskInv(k) /\ OwedInv(k) /\ ToldInv(k) /\ UpdateInv(k) /\ Home[k] \notin gone
        /\ Home[k] \in Clients /\ k # Nil
    BY <1>1, <1>2, <1>8, ShareTableAssumption DEF CallInv
  <2>2. ASSUME k # owed, NEW j \in DOMAIN replies'[Home[k]], Told(j, k)'
        PROVE  /\ j \in DOMAIN replies[Home[k]] /\ Told(j, k)
               /\ replies'[Home[k]][j] = replies[Home[k]][j]
    <3>1. CASE Home[k] # h
      BY <1>4, <2>1, <2>2, <3>1 DEF Told
    <3>2. CASE Home[k] = h
      BY <1>4, <1>5, <2>1, <2>2, <3>2 DEF Told
    <3>3. QED
      BY <3>1, <3>2
  <2>3. AskInv(k)'
    <3> SUFFICES ASSUME NEW i \in DOMAIN inbox', Asks(i, k)'
                 PROVE  /\ inbox'[i].op = co'[k].op /\ NamesOf(inbox'[i].names) = co'[k].names /\ owed' # k
                        /\ \A j \in DOMAIN inbox' : Asks(j, k)' => j = i
                        /\ \A j \in DOMAIN replies'[Home[k]] : ~Told(j, k)'
      BY DEF AskInv
    <3>1. Asks(i, k) /\ i \in DOMAIN inbox
      BY <1>2 DEF Asks
    <3>2. /\ owed # k /\ inbox[i].op = co[k].op /\ NamesOf(inbox[i].names) = co[k].names
          /\ \A j \in DOMAIN inbox : Asks(j, k) => j = i
          /\ \A j \in DOMAIN replies[Home[k]] : ~Told(j, k)
      BY <2>1, <3>1 DEF AskInv
    <3>3. \A j \in DOMAIN replies'[Home[k]] : ~Told(j, k)'
      BY <2>2, <3>2
    <3>4. QED
      BY <1>2, <2>1, <3>2, <3>3 DEF Asks
  <2>4. OwedInv(k)'
    BY <1>2, <2>1 DEF OwedInv
  <2>5. ToldInv(k)'
    <3> SUFFICES ASSUME NEW j \in DOMAIN replies'[Home[k]], Told(j, k)'
                 PROVE  /\ co'[k].op # "none"
                        /\ DOMAIN replies'[Home[k]][j].pointers \subseteq co'[k].names
                        /\ \A i \in DOMAIN replies'[Home[k]] : Told(i, k)' => i = j
      BY DEF ToldInv
    <3>1. CASE k # owed
      BY <1>2, <2>1, <2>2, <3>1 DEF ToldInv
    <3>2. CASE k = owed
      <4>1. co[k].op = "load" /\ \A i \in DOMAIN replies[Home[k]] : ~Told(i, k)
        BY <2>1, <3>2 DEF OwedInv
      <4>2. \A i \in DOMAIN replies'[Home[k]] : Told(i, k)' => i = Len(replies[h]) + 1
        BY <1>4, <2>1, <3>2, <4>1 DEF Told
      <4>3. replies'[Home[k]][j] = m
        BY <1>4, <2>1, <3>2, <4>2
      <4>4. QED
        BY <1>2, <1>5, <4>1, <4>2, <4>3
    <3>3. QED
      BY <3>1, <3>2
  <2>6. UpdateInv(k)'
    BY <1>2, <2>1 DEF UpdateInv
  <2>7. QED
    BY <2>3, <2>4, <2>5, <2>6
<1>9. MailInv'
  <2>1. ASSUME NEW c \in gone' PROVE replies'[c] = <<>>
    <3>1. c \in Clients /\ c \in gone /\ replies[c] = <<>>
      BY <1>1, <1>2, <2>1 DEF ClientTypes, CallInv, MailInv
    <3>2. QED
      BY <1>4, <3>1
  <2>2. ASSUME NEW c \in Clients, NEW j \in DOMAIN replies'[c] PROVE Home[replies'[c][j].co] = c
    <3>1. \A i \in DOMAIN replies[c] : Home[replies[c][i].co] = c
      BY <1>1 DEF CallInv, MailInv
    <3>2. QED
      BY <1>4, <1>5, <2>2, <3>1
  <2>3. QED
    BY <2>1, <2>2 DEF MailInv
<1>10. CallInv'
  BY <1>8, <1>9 DEF CallInv
<1>11. ASSUME NEW p \in Ptr PROVE RefAt(p)'
  <2>1. /\ Refs(p) \in Nat /\ Refs(p)' \in Nat
        /\ Refs(p)' = Refs(p)
                + (IF h \in gone THEN 0 ELSE Cardinality(NamesFor(m, p)))
                + (Cardinality(Confirms(inbox', p)) - Cardinality(Confirms(inbox, p)))
                + (lost'[p] - lost[p])
    BY <1>1, <1>2, <1>3, <1>6, RefsReply DEF m
  <2>2. lost[p] \in Nat /\ lost' = lost /\ inbox' = inbox /\ Cardinality(Confirms(inbox, p)) \in Nat
    BY <1>1, <1>2, ConfirmsFinite DEF ServiceTypes
  <2>3. Cardinality(NamesFor(m, p)) = 0
    BY NothingCarried DEF m
  <2>4. Refs(p)' = Refs(p) + 0
    BY <2>1, <2>2, <2>3
  <2>5. heap[p].ref \in Int /\ heap'[p] = heap[p]
    BY <1>1, <1>2 DEF ServiceTypes, Graph
  <2>6. QED
    BY <1>1, <1>2, <2>1, <2>4, <2>5, Balance
<1>12. RefInv'
  BY <1>11 DEF RefInv
<1>13. ReachInv'
  BY <1>1, <1>2, ReachKept
<1>14. QED
  BY <1>6, <1>7, <1>10, <1>12, <1>13 DEF IInv

\* A graph is installed.
LEMMA ServeLoadStep ==
    ASSUME IInv, ServeLoad
    PROVE  IInv'
<1>1. /\ ServiceTypes /\ ClientTypes /\ MessageInv /\ ViewInv /\ CallInv /\ RefInv /\ ReachInv
  BY DEF IInv
<1>2. /\ inbox # <<>> /\ owed = Nil /\ doomed = Nil /\ Head(inbox).op = "load" /\ loads < LOADS
      /\ todo' = retired' /\ loads' = loads + 1 /\ owed' = Head(inbox).co /\ inbox' = Tail(inbox)
      /\ UNCHANGED <<doomed, replies, co, lost>> /\ UNCHANGED <<views, cache, roots, dead, gone>>
  BY DEF ServeLoad, Ready, Collect, client
<1>3. PICK name \in NamesOf(Head(inbox).names), p \in Ptr : ~heap[p].live /\ Install(name, p)
  BY DEF ServeLoad
<1>4. /\ inbox \in Seq(Message) /\ Head(inbox).co \in Coroutines /\ inbox' \in Seq(Message)
      /\ name \in Names
  BY <1>1, <1>2, FirstMessage
<1> DEFINE old == files[name]
           fresh == [live |-> TRUE, ref |-> 1, dirty |-> FALSE, version |-> loads + 1]
<1>5. /\ files' = [files EXCEPT ![name] = p]
      /\ heap' = [q \in Ptr |-> IF q = p THEN fresh
                                ELSE IF q = old THEN [heap[q] EXCEPT !.dirty = TRUE, !.ref = @ - 1]
                                ELSE heap[q]]
      /\ retired' = IF old = Nil THEN retired ELSE retired \cup {old}
  BY <1>3 DEF Install
<1>6. /\ files \in [Names -> Ptr \cup {Nil}] /\ heap \in [Ptr -> Graph] /\ loads \in 0 .. LOADS
      /\ retired \subseteq Ptr /\ old \in Ptr \cup {Nil} /\ Nil \notin Ptr
  BY <1>1, <1>4, ShareTableAssumption DEF ServiceTypes
<1>7. fresh \in Graph /\ fresh.live /\ fresh.ref = 1
  BY <1>2, <1>6, ShareTableAssumption DEF Graph
<1>8. \A n \in Names : files[n] # p
  BY <1>1, <1>3, <1>6, OwnedLives
<1> HIDE DEF fresh
<1>9. /\ heap'[p] = fresh
      /\ \A q \in Ptr : q # p /\ q # old => heap'[q] = heap[q]
      /\ \A q \in Ptr : q # p /\ q = old =>
            heap'[q] \in Graph /\ heap'[q].live = heap[q].live /\ heap'[q].ref = heap[q].ref + (-1)
  <2>1. heap'[p] = fresh /\ \A q \in Ptr : q # p /\ q # old => heap'[q] = heap[q]
    BY <1>5
  <2>2. ASSUME NEW q \in Ptr, q # p, q = old
        PROVE  heap'[q] \in Graph /\ heap'[q].live = heap[q].live /\ heap'[q].ref = heap[q].ref + (-1)
    <3>1. heap'[q] = [heap[q] EXCEPT !.dirty = TRUE, !.ref = @ - 1] /\ heap[q] \in Graph
      BY <1>5, <1>6, <2>2
    <3> DEFINE g == heap[q]
               x == g.ref - 1
    <3>2. x \in Int /\ x = g.ref + (-1) /\ g \in Graph
      BY <3>1, GraphFields
    <3>3. heap'[q] = [g EXCEPT !.dirty = TRUE, !.ref = x]
      BY <3>1
    <3> HIDE DEF g, x
    <3>4. heap'[q] \in Graph /\ heap'[q].live = g.live /\ heap'[q].ref = x
      BY <3>2, <3>3 DEF Graph
    <3>5. QED
      BY <3>2, <3>4 DEF g
  <2>3. QED
    BY <2>1, <2>2
<1>10. heap' \in [Ptr -> Graph]
  <2>1. \A q \in Ptr : heap'[q] \in Graph
    BY <1>6, <1>7, <1>9
  <2>2. QED
    BY <1>5, <2>1
<1>11. files' \in [Names -> Ptr \cup {Nil}] /\ files'[name] = p
       /\ \A n \in Names \ {name} : files'[n] = files[n]
  BY <1>4, <1>5, <1>6
<1>12. retired' \subseteq Ptr /\ todo' \subseteq retired' /\ loads' \in 0 .. LOADS
  <2>1. retired' \subseteq Ptr /\ todo' = retired'
    BY <1>2, <1>5, <1>6
  <2>2. loads' \in 0 .. LOADS
    BY <1>2, <1>6, ShareTableAssumption
  <2>3. QED
    BY <2>1, <2>2
<1>13. ServiceTypes' /\ ClientTypes'
  BY <1>1, <1>2, <1>4, <1>10, <1>11, <1>12 DEF ServiceTypes, ClientTypes
<1>14. MessageInv' /\ ViewInv'
  BY <1>1, <1>2, MessageTaken DEF ViewInv
<1>15. CallInv'
  BY <1>1, <1>2, CallTaken
<1>16. ASSUME NEW q \in Ptr PROVE RefAt(q)'
  <2> DEFINE O == Cardinality(OwnersOf(files, q))
             O1 == Cardinality(OwnersOf(files', q))
  <2>1. Counted /\ Counted'
    BY <1>1, <1>13, CountedTypes, CountedTypesNext
  <2>2. /\ Refs(q) \in Nat /\ Refs(q)' \in Nat
        /\ Refs(q)' = Refs(q) + (O1 - O)
                + (Cardinality(Confirms(inbox', q)) - Cardinality(Confirms(inbox, q)))
                + (lost[q] - lost[q])
    BY <1>2, <2>1, RefsNone
  <2>3. /\ Cardinality(Confirms(inbox', q)) - Cardinality(Confirms(inbox, q)) = 0
        /\ lost[q] \in Nat
    BY <1>1, <1>2, <1>4, TakenCall DEF ServiceTypes
  <2>4. O \in Nat /\ O1 \in Nat
        /\ O1 = O - (IF old = q THEN 1 ELSE 0) + (IF p = q THEN 1 ELSE 0)
    <3> DEFINE A == OwnersOf(files, q)
               B == OwnersOf(files', q)
    <3>1. /\ A \in SUBSET Names /\ B \in SUBSET Names /\ IsFiniteSet(Names)
          /\ \A n \in Names \ {name} : n \in A <=> n \in B
          /\ name \in A <=> old = q
          /\ name \in B <=> p = q
      BY <1>4, <1>11, ShareTableAssumption DEF OwnersOf
    <3> HIDE DEF A, B
    <3>2. /\ Cardinality(A) \in Nat /\ Cardinality(B) \in Nat
          /\ Cardinality(B) = Cardinality(A) - (IF name \in A THEN 1 ELSE 0)
                                             + (IF name \in B THEN 1 ELSE 0)
      BY <1>4, <3>1, OneElement
    <3>3. QED
      BY <3>1, <3>2 DEF A, B
  <2> HIDE DEF O, O1
  <2>5. Refs(q)' = Refs(q) + (O1 - O)
    BY <2>2, <2>3, <2>4
  <2>6. RefAt(q) /\ heap[q].ref \in Int /\ q # Nil
    BY <1>1, <1>6, GraphFields DEF RefInv
  <2>7. CASE q = p
    <3>1. Refs(q) = 0 /\ old # q
      BY <1>3, <1>4, <1>8, <2>2, <2>6, <2>7 DEF RefAt
    <3>2. Refs(q)' = 1
      BY <2>4, <2>5, <2>7, <3>1
    <3>3. QED
      BY <1>2, <1>7, <1>9, <2>6, <2>7, <3>2 DEF RefAt
  <2>8. CASE q # p /\ q = old
    <3>1. Refs(q)' = Refs(q) + (-1)
      BY <2>2, <2>4, <2>5, <2>8
    <3>2. QED
      BY <1>1, <1>2, <1>9, <2>2, <2>6, <2>8, <3>1, Balance
  <2>9. CASE q # p /\ q # old
    <3>1. Refs(q)' = Refs(q) + 0 /\ heap'[q].ref = heap[q].ref + 0
      BY <1>9, <2>2, <2>4, <2>5, <2>6, <2>9
    <3>2. QED
      BY <1>1, <1>2, <1>9, <2>2, <2>6, <2>9, <3>1, Balance
  <2>10. QED
    BY <2>7, <2>8, <2>9
<1>17. RefInv'
  BY <1>16 DEF RefInv
<1>18. NoGraphForgotten'
  <2>1. ASSUME NEW q \in Ptr
        PROVE  heap'[q].live <=> q \in retired' \cup {files'[n] : n \in Names}
    <3>1. heap[q].live <=> q \in retired \cup {files[n] : n \in Names}
      BY <1>1 DEF ReachInv, NoGraphForgotten
    <3>2. CASE q = p
      BY <1>4, <1>7, <1>9, <1>11, <3>2
    <3>3. CASE q # p /\ q = old
      BY <1>4, <1>5, <1>6, <1>9, <3>1, <3>3
    <3>4. CASE q # p /\ q # old
      <4>1. q \in {files'[n] : n \in Names} <=> q \in {files[n] : n \in Names}
        BY <1>4, <1>11, <3>4
      <4>2. q \in retired' <=> q \in retired
        BY <1>5, <3>4
      <4>3. QED
        BY <1>9, <3>1, <3>4, <4>1, <4>2
    <3>5. QED
      BY <3>2, <3>3, <3>4
  <2>2. QED
    BY <2>1 DEF NoGraphForgotten
<1>19. \A n, i \in Names : files'[n] = files'[i] /\ files'[n] # Nil => n = i
  BY <1>1, <1>4, <1>8, <1>11 DEF ReachInv
<1>20. ReachInv'
  BY <1>2, <1>18, <1>19 DEF ReachInv
<1>21. QED
  BY <1>13, <1>14, <1>15, <1>17, <1>20 DEF IInv

\* A coroutine calls the service.
LEMMA CallStep ==
    ASSUME IInv, NEW k \in Coroutines, NEW op \in {"load", "query", "update"},
           NEW list \in Seq(Names), Call(k, op, list),
           op = "update" => \E n \in Names : NamesOf(list) = {n},
           UNCHANGED <<service, client, heap, replies, lost>>
    PROVE  IInv'
<1> DEFINE m == [op |-> op, co |-> k, names |-> list, pointer |-> Nil]
           a == [op |-> op, names |-> NamesOf(list)]
<1>1. /\ ServiceTypes /\ ClientTypes /\ MessageInv /\ ViewInv /\ CallInv /\ RefInv /\ ReachInv
  BY DEF IInv
<1>2. /\ Home[k] \notin gone /\ co[k] = Idle /\ co' = [co EXCEPT ![k] = a]
      /\ inbox' = Append(inbox, m)
      /\ UNCHANGED <<files, retired, todo, doomed, owed, loads>>
      /\ UNCHANGED <<views, cache, roots, dead, gone>> /\ UNCHANGED <<heap, replies, lost>>
  BY DEF Call, service, client
<1>3. m \in Message /\ m.op # "confirm" /\ m.op = op /\ m.co = k /\ m.names = list
      /\ a \in Waiting /\ a.op = op /\ a.names = NamesOf(list) /\ op # "none"
  BY ListNames DEF Message, Waiting
<1> HIDE DEF m, a
<1>4. /\ inbox' \in Seq(Message)
      /\ DOMAIN inbox' = DOMAIN inbox \cup {Len(inbox) + 1}
      /\ Len(inbox) + 1 \notin DOMAIN inbox
      /\ \A i \in DOMAIN inbox : inbox'[i] = inbox[i]
      /\ inbox'[Len(inbox) + 1] = m
  BY <1>1, <1>2, <1>3, NewMessage
<1>5. co' \in [Coroutines -> Waiting] /\ co'[k] = a /\ \A l \in Coroutines \ {k} : co'[l] = co[l]
  BY <1>1, <1>2, <1>3 DEF ClientTypes
<1>6. ServiceTypes' /\ ClientTypes'
  BY <1>1, <1>2, <1>4, <1>5 DEF ServiceTypes, ClientTypes
<1>7. MessageInv' /\ ViewInv'
  BY <1>1, <1>2, <1>3, MessageAdded DEF ViewInv
<1>8. co[k].op = "none" /\ \A i \in DOMAIN inbox : inbox[i].op # "none"
  <2>1. inbox \in [DOMAIN inbox -> Message]
    BY <1>1, LenProperties DEF ServiceTypes
  <2>2. \A x \in Message : x.op # "none"
    BY DEF Message
  <2>3. co[k].op = "none"
    BY <1>2 DEF Idle
  <2>4. QED
    BY <2>1, <2>2, <2>3
<1>9. ASSUME NEW l \in Coroutines, Home[l] \notin gone'
      PROVE  AskInv(l)' /\ OwedInv(l)' /\ ToldInv(l)' /\ UpdateInv(l)'
  <2>1. AskInv(l) /\ OwedInv(l) /\ ToldInv(l) /\ UpdateInv(l)
    BY <1>1, <1>2, <1>9 DEF CallInv
  <2>2. CASE l = k
    <3>1. \A i \in DOMAIN inbox : ~Asks(i, k)
      BY <1>8, <2>1, <2>2 DEF AskInv
    <3>2. owed # k /\ \A j \in DOMAIN replies[Home[k]] : ~Told(j, k)
      BY <1>8, <2>1, <2>2 DEF OwedInv, ToldInv
    <3>3. \A i \in DOMAIN inbox' : Asks(i, k)' => i = Len(inbox) + 1
      BY <1>4, <3>1 DEF Asks
    <3>4. \A j \in DOMAIN replies'[Home[k]] : ~Told(j, k)'
      BY <1>2, <3>2 DEF Told
    <3>5. AskInv(k)'
      BY <1>2, <1>3, <1>4, <1>5, <3>2, <3>3, <3>4 DEF AskInv
    <3>6. OwedInv(k)' /\ ToldInv(k)'
      BY <1>2, <3>2, <3>4 DEF OwedInv, ToldInv
    <3>7. UpdateInv(k)'
      BY <1>3, <1>5 DEF UpdateInv
    <3>8. QED
      BY <2>2, <3>5, <3>6, <3>7
  <2>3. CASE l # k
    <3>1. \A i \in DOMAIN inbox' : Asks(i, l)' => i \in DOMAIN inbox /\ Asks(i, l)
      BY <1>3, <1>4, <2>3 DEF Asks
    <3>2. AskInv(l)'
      BY <1>2, <1>4, <1>5, <2>1, <2>3, <3>1 DEF AskInv, Told
    <3>3. OwedInv(l)' /\ ToldInv(l)' /\ UpdateInv(l)'
      BY <1>2, <1>5, <2>1, <2>3 DEF OwedInv, ToldInv, UpdateInv, Told
    <3>4. QED
      BY <3>2, <3>3
  <2>4. QED
    BY <2>2, <2>3
<1>10. CallInv'
  <2>1. MailInv'
    BY <1>1, <1>2 DEF CallInv, MailInv
  <2>2. QED
    BY <1>9, <2>1 DEF CallInv
<1>11. ASSUME NEW p \in Ptr PROVE RefAt(p)'
  <2>1. Counted /\ Counted'
    BY <1>1, <1>6, CountedTypes, CountedTypesNext
  <2>2. /\ Refs(p) \in Nat /\ Refs(p)' \in Nat
        /\ Refs(p)' = Refs(p)
                + (Cardinality(OwnersOf(files, p)) - Cardinality(OwnersOf(files, p)))
                + (Cardinality(Confirms(inbox', p)) - Cardinality(Confirms(inbox, p)))
                + (lost[p] - lost[p])
    BY <1>2, <2>1, RefsNone
  <2>3. /\ Cardinality(OwnersOf(files, p)) \in Nat /\ lost[p] \in Nat
        /\ Cardinality(Confirms(inbox, p)) \in Nat
    BY <1>1, OwnersFinite, ConfirmsFinite DEF ServiceTypes
  <2>4. Cardinality(Confirms(inbox', p)) = Cardinality(Confirms(inbox, p)) + 0
    BY <1>1, <1>2, <1>3, ConfirmAppend DEF ServiceTypes
  <2>5. Refs(p)' = Refs(p) + 0
    BY <2>2, <2>3, <2>4
  <2>6. heap[p].ref \in Int /\ heap'[p] = heap[p]
    BY <1>1, <1>2, GraphFields DEF ServiceTypes
  <2>7. QED
    BY <1>1, <1>2, <2>2, <2>5, <2>6, Balance
<1>12. RefInv'
  BY <1>11 DEF RefInv
<1>13. ReachInv'
  BY <1>1, <1>2, ReachKept
<1>14. QED
  BY <1>6, <1>7, <1>10, <1>12, <1>13 DEF IInv

\* One view changes.
LEMMA ViewsOne ==
    ASSUME ClientTypes, NEW c \in Clients, NEW v \in View, NEW x \in ViewRec,
           views' = [views EXCEPT ![c][v] = x]
    PROVE  /\ views' \in [Clients -> [View -> ViewRec]] /\ views'[c][v] = x
           /\ \A e \in Clients \ {c} : views'[e] = views[e]
           /\ \A u \in View \ {v} : views'[c][u] = views[c][u]
BY DEF ClientTypes

\* The boxes of a client when one view changes.
LEMMA BoxesOne ==
    ASSUME NEW w, NEW u, NEW v \in View, \A i \in View \ {v} : u[i] = w[i], NEW p
    PROVE  /\ Cardinality(DocsOf(w, p)) \in Nat /\ Cardinality(DocsOf(u, p)) \in Nat
           /\ Cardinality(DocsOf(u, p)) = Cardinality(DocsOf(w, p))
                 - (IF w[v].doc = p THEN 1 ELSE 0) + (IF u[v].doc = p THEN 1 ELSE 0)
           /\ Cardinality(PendingOf(w, p)) \in Nat /\ Cardinality(PendingOf(u, p)) \in Nat
           /\ Cardinality(PendingOf(u, p)) = Cardinality(PendingOf(w, p))
                 - (IF w[v].pending = p THEN 1 ELSE 0) + (IF u[v].pending = p THEN 1 ELSE 0)
<1> DEFINE A == DocsOf(w, p)
           B == DocsOf(u, p)
           C == PendingOf(w, p)
           D == PendingOf(u, p)
<1>1. /\ A \in SUBSET View /\ B \in SUBSET View /\ C \in SUBSET View /\ D \in SUBSET View
      /\ \A i \in View \ {v} : (i \in A <=> i \in B) /\ (i \in C <=> i \in D)
      /\ v \in A <=> w[v].doc = p
      /\ v \in B <=> u[v].doc = p
      /\ v \in C <=> w[v].pending = p
      /\ v \in D <=> u[v].pending = p
  BY DEF DocsOf, PendingOf
<1>2. IsFiniteSet(View)
  BY ViewFinite
<1> HIDE DEF A, B, C, D
<1>3. /\ Cardinality(A) \in Nat /\ Cardinality(B) \in Nat
      /\ Cardinality(B) = Cardinality(A) - (IF v \in A THEN 1 ELSE 0) + (IF v \in B THEN 1 ELSE 0)
  BY <1>1, <1>2, OneElement
<1>4. /\ Cardinality(C) \in Nat /\ Cardinality(D) \in Nat
      /\ Cardinality(D) = Cardinality(C) - (IF v \in C THEN 1 ELSE 0) + (IF v \in D THEN 1 ELSE 0)
  BY <1>1, <1>2, OneElement
<1>5. QED
  BY <1>1, <1>3, <1>4 DEF A, B, C, D

\* References when one client's boxes change.
LEMMA RefsBoxes ==
    ASSUME ServiceTypes, ClientTypes, ServiceTypes', ClientTypes', NEW c \in Clients,
           UNCHANGED <<files, replies, inbox, lost>>,
           \A e \in Clients \ {c} : dead'[e] = dead[e] /\ views'[e] = views[e],
           NEW p \in Ptr
    PROVE  /\ Refs(p) \in Nat /\ Refs(p)' \in Nat
           /\ Refs(p)' = Refs(p) + (dead'[c][p] - dead[c][p])
                + (Cardinality(DocsOf(views'[c], p)) - Cardinality(DocsOf(views[c], p)))
                + (Cardinality(PendingOf(views'[c], p)) - Cardinality(PendingOf(views[c], p)))
<1> DEFINE H == Hold(dead[c], views[c], replies[c], p)
           H1 == Hold(dead'[c], views'[c], replies'[c], p)
           O == Cardinality(OwnersOf(files, p))
           C == Cardinality(Confirms(inbox, p))
           R == Cardinality(CarriedBy(replies[c], p))
           x == dead'[c][p] - dead[c][p]
           y == Cardinality(DocsOf(views'[c], p)) - Cardinality(DocsOf(views[c], p))
           z == Cardinality(PendingOf(views'[c], p)) - Cardinality(PendingOf(views[c], p))
<1>1. Counted /\ Counted'
  BY CountedTypes, CountedTypesNext
<1>2. /\ Refs(p) \in Nat /\ Refs(p)' \in Nat
      /\ Refs(p)' = Refs(p) + (O - O) + (H1 - H) + (C - C) + (lost[p] - lost[p])
  BY <1>1, RefsOne
<1>3. /\ dead[c] \in [Ptr -> Nat] /\ dead'[c] \in [Ptr -> Nat] /\ replies[c] \in Seq(ReplyMsg)
      /\ replies'[c] = replies[c]
  BY DEF ClientTypes
<1>4. H1 - H = x + y + z + (R - R) /\ H \in Nat /\ H1 \in Nat
  <2> DEFINE d == dead[c]
             e == dead'[c]
             w == views[c]
             u == views'[c]
             r == replies[c]
  <2>1. d \in [Ptr -> Nat] /\ e \in [Ptr -> Nat] /\ r \in Seq(ReplyMsg) /\ H1 = Hold(e, u, r, p)
    BY <1>3
  <2> HIDE DEF d, e, w, u, r
  <2>2. /\ Hold(e, u, r, p) - Hold(d, w, r, p)
                 = (e[p] - d[p])
                   + (Cardinality(DocsOf(u, p)) - Cardinality(DocsOf(w, p)))
                   + (Cardinality(PendingOf(u, p)) - Cardinality(PendingOf(w, p)))
                   + (Cardinality(CarriedBy(r, p)) - Cardinality(CarriedBy(r, p)))
        /\ Hold(d, w, r, p) \in Nat /\ Hold(e, u, r, p) \in Nat
    BY <2>1, HoldDiff, SMTT(30)
  <2>3. QED
    BY <2>1, <2>2 DEF d, e, w, u, r
<1>5. /\ O \in Nat /\ C \in Nat /\ R \in Nat /\ lost[p] \in Nat
      /\ x \in Int /\ y \in Int /\ z \in Int
  <2>1. O \in Nat /\ C \in Nat /\ R \in Nat /\ lost[p] \in Nat
    BY <1>3, OwnersFinite, ConfirmsFinite, CarriedFinite DEF ServiceTypes
  <2>2. dead'[c][p] \in Nat /\ dead[c][p] \in Nat
    BY <1>3
  <2>3. x \in Int
    BY <2>2
  <2>4. y \in Int /\ z \in Int
    BY BoxesFinite
  <2>5. QED
    BY <2>1, <2>3, <2>4
<1> HIDE DEF H, H1, O, C, R, x, y, z
<1>6. Refs(p)' = Refs(p) + x + y + z
  BY <1>2, <1>4, <1>5
<1>7. QED
  BY <1>2, <1>6 DEF x, y, z

\* Steps that change a view's proxies only.
LEMMA ProxyStep ==
    ASSUME IInv, NEW c \in Clients, NEW v \in View, NEW x \in ViewRec,
           views' = [views EXCEPT ![c][v] = x],
           x.doc = views[c][v].doc, x.pending = views[c][v].pending,
           x.name # Nil /\ x.pointer # Nil /\ x.doc # Nil,
           cache' \in [Clients -> [Names -> View \cup {Nil}]],
           UNCHANGED <<service, roots, dead, gone, heap, inbox, replies, co, lost>>
    PROVE  IInv'
<1>1. /\ ServiceTypes /\ ClientTypes /\ MessageInv /\ ViewInv /\ CallInv /\ RefInv /\ ReachInv
  BY DEF IInv
<1>2. /\ UNCHANGED <<files, retired, todo, doomed, owed, loads>>
      /\ UNCHANGED <<roots, dead, gone>> /\ UNCHANGED <<heap, inbox, replies, co, lost>>
  BY DEF service
<1>3. /\ views' \in [Clients -> [View -> ViewRec]] /\ views'[c][v] = x
      /\ \A e \in Clients \ {c} : views'[e] = views[e]
      /\ \A u \in View \ {v} : views'[c][u] = views[c][u]
  BY <1>1, ViewsOne
<1>4. ServiceTypes' /\ ClientTypes'
  BY <1>1, <1>2, <1>3 DEF ServiceTypes, ClientTypes
<1>5. MessageInv'
  BY <1>1, <1>2 DEF MessageInv
<1>6. ViewInv'
  BY <1>1, <1>3 DEF ViewInv
<1>7. CallInv'
  BY <1>1, <1>2, CallKept
<1>8. ASSUME NEW p \in Ptr PROVE RefAt(p)'
  <2>1. /\ Refs(p) \in Nat /\ Refs(p)' \in Nat
        /\ Refs(p)' = Refs(p) + (dead[c][p] - dead[c][p])
                + (Cardinality(DocsOf(views'[c], p)) - Cardinality(DocsOf(views[c], p)))
                + (Cardinality(PendingOf(views'[c], p)) - Cardinality(PendingOf(views[c], p)))
    BY <1>1, <1>2, <1>3, <1>4, RefsBoxes, ZenonT(30)
  <2>2. /\ DocsOf(views'[c], p) = DocsOf(views[c], p)
        /\ PendingOf(views'[c], p) = PendingOf(views[c], p)
    BY <1>3 DEF DocsOf, PendingOf
  <2>3. /\ Cardinality(DocsOf(views[c], p)) \in Nat /\ Cardinality(PendingOf(views[c], p)) \in Nat
    BY BoxesFinite
  <2>4. dead[c][p] \in Nat
    BY <1>1 DEF ClientTypes
  <2>5. Refs(p)' = Refs(p) + 0
    BY <2>1, <2>2, <2>3, <2>4
  <2>6. heap[p].ref \in Int /\ heap'[p] = heap[p]
    BY <1>1, <1>2, GraphFields DEF ServiceTypes
  <2>7. QED
    BY <1>1, <1>2, <2>1, <2>5, <2>6, Balance
<1>9. RefInv'
  BY <1>8 DEF RefInv
<1>10. ReachInv'
  BY <1>1, <1>2, ReachKept
<1>11. QED
  BY <1>4, <1>5, <1>6, <1>7, <1>9, <1>10 DEF IInv

\* A slot with a proxy has a view.
LEMMA ProxyView ==
    ASSUME ClientTypes, ViewInv, NEW c \in Clients, NEW v \in View,
           views[c][v].root # "gone" \/ views[c][v].nested
    PROVE  /\ views[c][v] \in ViewRec /\ views[c][v] # NoView
           /\ views[c][v].name # Nil /\ views[c][v].pointer # Nil /\ views[c][v].doc # Nil
<1>1. views[c][v] \in ViewRec
  BY DEF ClientTypes
<1>2. NoView.root = "gone" /\ NoView.nested = FALSE
  BY DEF NoView
<1>3. views[c][v] # NoView
  BY <1>2
<1>4. QED
  BY <1>1, <1>3 DEF ViewInv

\* The application takes a nested proxy.
LEMMA NestStep ==
    ASSUME IInv, NEW c \in Clients, NEW v \in View, Nest(c, v)
    PROVE  IInv'
<1> DEFINE w == views[c][v]
           x == [w EXCEPT !.nested = TRUE]
<1>1. ClientTypes /\ ViewInv
  BY DEF IInv
<1>2. w \in ViewRec /\ w.name # Nil /\ w.pointer # Nil /\ w.doc # Nil
  BY <1>1, ProxyView DEF Nest
<1>3. views' = [views EXCEPT ![c][v] = x]
      /\ UNCHANGED <<service, cache, roots, dead, gone, heap, inbox, replies, co, lost>>
  BY DEF Nest
<1>4. x \in ViewRec /\ x.doc = w.doc /\ x.pending = w.pending /\ x.name = w.name /\ x.pointer = w.pointer
  <2> HIDE DEF w
  <2>1. QED
    BY <1>2 DEF ViewRec
<1>5. cache' \in [Clients -> [Names -> View \cup {Nil}]]
  BY <1>1, <1>3 DEF ClientTypes
<1> HIDE DEF x
<1>6. QED
  BY <1>2, <1>3, <1>4, <1>5, ProxyStep

\* The application drops its nested proxies.
LEMMA DropNestedStep ==
    ASSUME IInv, NEW c \in Clients, NEW v \in View, DropNested(c, v)
    PROVE  IInv'
<1> DEFINE w == views[c][v]
           x == [w EXCEPT !.nested = FALSE]
<1>1. ClientTypes /\ ViewInv
  BY DEF IInv
<1>2. w \in ViewRec /\ w.name # Nil /\ w.pointer # Nil /\ w.doc # Nil
  BY <1>1, ProxyView DEF DropNested
<1>3. views' = [views EXCEPT ![c][v] = x]
      /\ UNCHANGED <<service, cache, roots, dead, gone, heap, inbox, replies, co, lost>>
  BY DEF DropNested
<1>4. x \in ViewRec /\ x.doc = w.doc /\ x.pending = w.pending /\ x.name = w.name /\ x.pointer = w.pointer
  <2> HIDE DEF w
  <2>1. QED
    BY <1>2 DEF ViewRec
<1>5. cache' \in [Clients -> [Names -> View \cup {Nil}]]
  BY <1>1, <1>3 DEF ClientTypes
<1> HIDE DEF x
<1>6. QED
  BY <1>2, <1>3, <1>4, <1>5, ProxyStep

\* The application drops the root proxy.
LEMMA DropRootStep ==
    ASSUME IInv, NEW c \in Clients, NEW v \in View, DropRoot(c, v)
    PROVE  IInv'
<1> DEFINE w == views[c][v]
           x == [w EXCEPT !.root = "weak"]
<1>1. ClientTypes /\ ViewInv
  BY DEF IInv
<1>2. w \in ViewRec /\ w.name # Nil /\ w.pointer # Nil /\ w.doc # Nil
  BY <1>1, ProxyView DEF DropRoot
<1>3. views' = [views EXCEPT ![c][v] = x]
      /\ UNCHANGED <<service, cache, roots, dead, gone, heap, inbox, replies, co, lost>>
  BY DEF DropRoot
<1>4. x \in ViewRec /\ x.doc = w.doc /\ x.pending = w.pending /\ x.name = w.name /\ x.pointer = w.pointer
  <2> HIDE DEF w
  <2>1. QED
    BY <1>2 DEF ViewRec
<1>5. cache' \in [Clients -> [Names -> View \cup {Nil}]]
  BY <1>1, <1>3 DEF ClientTypes
<1> HIDE DEF x
<1>6. QED
  BY <1>2, <1>3, <1>4, <1>5, ProxyStep

\* The collector clears the root proxy's entries.
LEMMA CollectRootStep ==
    ASSUME IInv, NEW c \in Clients, NEW v \in View, CollectRoot(c, v)
    PROVE  IInv'
<1> DEFINE w == views[c][v]
           x == [w EXCEPT !.root = "gone"]
<1>1. ClientTypes /\ ViewInv
  BY DEF IInv
<1>2. w \in ViewRec /\ w.name # Nil /\ w.pointer # Nil /\ w.doc # Nil
  BY <1>1, ProxyView DEF CollectRoot
<1>3. /\ views' = [views EXCEPT ![c][v] = x]
      /\ cache' = [cache EXCEPT ![c] = [n \in Names |-> IF cache[c][n] = v THEN Nil ELSE cache[c][n]]]
      /\ UNCHANGED <<service, roots, dead, gone, heap, inbox, replies, co, lost>>
  BY <1>1 DEF CollectRoot, ClientTypes
<1>4. x \in ViewRec /\ x.doc = w.doc /\ x.pending = w.pending /\ x.name = w.name /\ x.pointer = w.pointer
  <2> HIDE DEF w
  <2>1. QED
    BY <1>2 DEF ViewRec
<1>5. cache' \in [Clients -> [Names -> View \cup {Nil}]]
  BY <1>1, <1>3 DEF ClientTypes
<1> HIDE DEF x
<1>6. QED
  BY <1>2, <1>3, <1>4, <1>5, ProxyStep

\* A pending graph takes over; the old box waits for the collector.
LEMMA AccessStep ==
    ASSUME IInv, NEW c \in Clients, NEW v \in View, Access(c, v)
    PROVE  IInv'
<1> DEFINE w == views[c][v]
           x == [w EXCEPT !.doc = w.pending, !.pending = Nil]
<1>1. /\ ServiceTypes /\ ClientTypes /\ MessageInv /\ ViewInv /\ CallInv /\ RefInv /\ ReachInv
  BY DEF IInv
<1>2. w \in ViewRec /\ w.name # Nil /\ w.pointer # Nil /\ w.doc # Nil /\ w.pending # Nil
  BY <1>1, ProxyView DEF Access
<1>3. w.doc \in Ptr /\ w.pending \in Ptr
  BY <1>2 DEF ViewRec
<1>4. /\ views' = [views EXCEPT ![c][v] = x] /\ dead' = [dead EXCEPT ![c][w.doc] = @ + 1]
      /\ UNCHANGED <<files, retired, todo, doomed, owed, loads>>
      /\ UNCHANGED <<cache, roots, gone>> /\ UNCHANGED <<heap, inbox, replies, co, lost>>
  BY <1>1 DEF Access, service, ClientTypes
<1>5. /\ x \in ViewRec /\ x.doc = w.pending /\ x.pending = Nil /\ x.name = w.name
      /\ x.pointer = w.pointer
  <2> HIDE DEF w
  <2>1. QED
    BY <1>2, <1>3 DEF ViewRec
<1> HIDE DEF x
<1>6. /\ views' \in [Clients -> [View -> ViewRec]] /\ views'[c][v] = x
      /\ \A e \in Clients \ {c} : views'[e] = views[e]
      /\ \A u \in View \ {v} : views'[c][u] = views[c][u]
  BY <1>1, <1>4, <1>5, ViewsOne
<1>7. /\ dead' \in [Clients -> [Ptr -> Nat]] /\ \A e \in Clients \ {c} : dead'[e] = dead[e]
      /\ dead'[c][w.doc] = dead[c][w.doc] + 1
      /\ \A p \in Ptr \ {w.doc} : dead'[c][p] = dead[c][p]
      /\ \A p \in Ptr : dead[c][p] \in Nat
  <2>1. dead \in [Clients -> [Ptr -> Nat]]
    BY <1>1 DEF ClientTypes
  <2> HIDE DEF w
  <2>2. QED
    BY <1>3, <1>4, <2>1
<1>8. ServiceTypes' /\ ClientTypes'
  BY <1>1, <1>4, <1>6, <1>7 DEF ServiceTypes, ClientTypes
<1>9. MessageInv'
  BY <1>1, <1>4 DEF MessageInv
<1>10. ViewInv'
  BY <1>1, <1>2, <1>5, <1>6 DEF ViewInv
<1>11. CallInv'
  BY <1>1, <1>4, CallKept
<1>12. ASSUME NEW p \in Ptr PROVE RefAt(p)'
  <2> DEFINE D == Cardinality(DocsOf(views[c], p))
             D1 == Cardinality(DocsOf(views'[c], p))
             P == Cardinality(PendingOf(views[c], p))
             P1 == Cardinality(PendingOf(views'[c], p))
  <2>1. /\ Refs(p) \in Nat /\ Refs(p)' \in Nat
        /\ Refs(p)' = Refs(p) + (dead'[c][p] - dead[c][p]) + (D1 - D) + (P1 - P)
    BY <1>1, <1>4, <1>6, <1>7, <1>8, RefsBoxes
  <2>2. /\ D \in Nat /\ D1 \in Nat /\ P \in Nat /\ P1 \in Nat
        /\ D1 = D - (IF w.doc = p THEN 1 ELSE 0) + (IF x.doc = p THEN 1 ELSE 0)
        /\ P1 = P - (IF w.pending = p THEN 1 ELSE 0) + (IF x.pending = p THEN 1 ELSE 0)
    <3> DEFINE a == views[c]
               b == views'[c]
    <3>1. \A i \in View \ {v} : b[i] = a[i]
      BY <1>6
    <3>2. a[v] = w /\ b[v] = x
      BY <1>6
    <3> HIDE DEF a, b, w
    <3>3. /\ Cardinality(DocsOf(a, p)) \in Nat /\ Cardinality(DocsOf(b, p)) \in Nat
          /\ Cardinality(DocsOf(b, p)) = Cardinality(DocsOf(a, p))
                 - (IF a[v].doc = p THEN 1 ELSE 0) + (IF b[v].doc = p THEN 1 ELSE 0)
          /\ Cardinality(PendingOf(a, p)) \in Nat /\ Cardinality(PendingOf(b, p)) \in Nat
          /\ Cardinality(PendingOf(b, p)) = Cardinality(PendingOf(a, p))
                 - (IF a[v].pending = p THEN 1 ELSE 0) + (IF b[v].pending = p THEN 1 ELSE 0)
      BY <3>1, BoxesOne
    <3>4. QED
      BY <3>2, <3>3 DEF a, b
  <2>3. dead[c][p] \in Nat /\ dead'[c][p] = dead[c][p] + (IF w.doc = p THEN 1 ELSE 0)
    <3>1. CASE w.doc = p
      BY <1>3, <1>7, <3>1
    <3>2. CASE w.doc # p
      <4>1. dead'[c][p] = dead[c][p] /\ dead[c][p] \in Nat
        BY <1>7, <3>2
      <4>2. QED
        BY <3>2, <4>1
    <3>3. QED
      BY <3>1, <3>2
  <2>4. x.doc = w.pending /\ x.pending # p
    BY <1>5, ShareTableAssumption
  <2> HIDE DEF D, D1, P, P1
  <2>5. Refs(p)' = Refs(p) + 0
    <3>1. D1 - D = (IF w.pending = p THEN 1 ELSE 0) - (IF w.doc = p THEN 1 ELSE 0)
      BY <2>2, <2>4
    <3>2. P1 - P = 0 - (IF w.pending = p THEN 1 ELSE 0)
      BY <2>2, <2>4
    <3>3. dead'[c][p] - dead[c][p] = IF w.doc = p THEN 1 ELSE 0
      BY <2>3
    <3>4. QED
      BY <2>1, <2>2, <3>1, <3>2, <3>3
  <2>6. heap[p].ref \in Int /\ heap'[p] = heap[p]
    BY <1>1, <1>4, GraphFields DEF ServiceTypes
  <2>7. QED
    BY <1>1, <1>4, <2>1, <2>5, <2>6, Balance
<1>13. RefInv'
  BY <1>12 DEF RefInv
<1>14. ReachInv'
  BY <1>1, <1>4, ReachKept
<1>15. QED
  BY <1>8, <1>9, <1>10, <1>11, <1>13, <1>14 DEF IInv

\* A view is collected, its boxes are finalised.
LEMMA CollectViewStep ==
    ASSUME IInv, NEW c \in Clients, NEW v \in View, CollectView(c, v)
    PROVE  IInv'
<1> DEFINE w == views[c][v]
<1>1. /\ ServiceTypes /\ ClientTypes /\ MessageInv /\ ViewInv /\ CallInv /\ RefInv /\ ReachInv
  BY DEF IInv
<1>2. /\ w # NoView /\ views' = [views EXCEPT ![c][v] = NoView]
      /\ heap' = [q \in Ptr |-> [heap[q] EXCEPT !.ref =
                    heap[q].ref - (IF q = w.doc THEN 1 ELSE 0) - (IF q = w.pending THEN 1 ELSE 0)]]
      /\ UNCHANGED <<files, retired, todo, doomed, owed, loads>>
      /\ UNCHANGED <<cache, roots, dead, gone>> /\ UNCHANGED <<inbox, replies, co, lost>>
  BY DEF CollectView, service
<1>3. NoView \in ViewRec /\ NoView.doc = Nil /\ NoView.pending = Nil
  BY DEF NoView, ViewRec
<1>4. /\ views' \in [Clients -> [View -> ViewRec]] /\ views'[c][v] = NoView
      /\ \A e \in Clients \ {c} : views'[e] = views[e]
      /\ \A u \in View \ {v} : views'[c][u] = views[c][u]
  BY <1>1, <1>2, <1>3, ViewsOne
<1> DEFINE less(q) == (IF q = w.doc THEN 1 ELSE 0) + (IF q = w.pending THEN 1 ELSE 0)
<1>5. heap \in [Ptr -> Graph]
  BY <1>1 DEF ServiceTypes
<1>6. ASSUME NEW q \in Ptr
      PROVE  /\ heap'[q] \in Graph /\ heap'[q].live = heap[q].live /\ heap[q].ref \in Int
             /\ heap'[q].ref = heap[q].ref + (-less(q)) /\ less(q) \in Nat
  <2> DEFINE x == heap[q].ref - (IF q = w.doc THEN 1 ELSE 0) - (IF q = w.pending THEN 1 ELSE 0)
             g == heap[q]
  <2>1. heap'[q] = [g EXCEPT !.ref = x] /\ g \in Graph
    BY <1>2, <1>5
  <2>2. g.ref \in Int
    BY <2>1, GraphFields
  <2>3. x = g.ref + (-less(q)) /\ x \in Int /\ less(q) \in Nat
    <3> DEFINE y == g.ref
    <3>1. y \in Int
      BY <2>2
    <3> HIDE DEF y, w
    <3>2. QED
      BY <3>1 DEF y
  <2> HIDE DEF x, g, w, less
  <2>4. heap'[q] \in Graph /\ heap'[q].live = g.live /\ heap'[q].ref = x
    BY <2>1, <2>3 DEF Graph
  <2>5. QED
    BY <2>2, <2>3, <2>4 DEF g
<1>7. heap' \in [Ptr -> Graph]
  <2>1. heap' = [q \in Ptr |-> heap'[q]]
    BY <1>2
  <2>2. QED
    BY <1>6, <2>1
<1>8. ServiceTypes' /\ ClientTypes'
  BY <1>1, <1>2, <1>4, <1>7 DEF ServiceTypes, ClientTypes
<1>9. MessageInv'
  BY <1>1, <1>2 DEF MessageInv
<1>10. ViewInv'
  BY <1>1, <1>4 DEF ViewInv
<1>11. CallInv'
  BY <1>1, <1>2, CallKept
<1>12. ASSUME NEW p \in Ptr PROVE RefAt(p)'
  <2> DEFINE D == Cardinality(DocsOf(views[c], p))
             D1 == Cardinality(DocsOf(views'[c], p))
             P == Cardinality(PendingOf(views[c], p))
             P1 == Cardinality(PendingOf(views'[c], p))
  <2>1. /\ Refs(p) \in Nat /\ Refs(p)' \in Nat
        /\ Refs(p)' = Refs(p) + (dead[c][p] - dead[c][p]) + (D1 - D) + (P1 - P)
    BY <1>1, <1>2, <1>4, <1>8, RefsBoxes
  <2>2. /\ D \in Nat /\ D1 \in Nat /\ P \in Nat /\ P1 \in Nat
        /\ D1 = D - (IF w.doc = p THEN 1 ELSE 0) + (IF NoView.doc = p THEN 1 ELSE 0)
        /\ P1 = P - (IF w.pending = p THEN 1 ELSE 0) + (IF NoView.pending = p THEN 1 ELSE 0)
    <3> DEFINE a == views[c]
               b == views'[c]
    <3>1. \A i \in View \ {v} : b[i] = a[i]
      BY <1>4
    <3>2. a[v] = w /\ b[v] = NoView
      BY <1>4
    <3> HIDE DEF a, b, w
    <3>3. /\ Cardinality(DocsOf(a, p)) \in Nat /\ Cardinality(DocsOf(b, p)) \in Nat
          /\ Cardinality(DocsOf(b, p)) = Cardinality(DocsOf(a, p))
                 - (IF a[v].doc = p THEN 1 ELSE 0) + (IF b[v].doc = p THEN 1 ELSE 0)
          /\ Cardinality(PendingOf(a, p)) \in Nat /\ Cardinality(PendingOf(b, p)) \in Nat
          /\ Cardinality(PendingOf(b, p)) = Cardinality(PendingOf(a, p))
                 - (IF a[v].pending = p THEN 1 ELSE 0) + (IF b[v].pending = p THEN 1 ELSE 0)
      BY <3>1, BoxesOne
    <3>4. QED
      BY <3>2, <3>3 DEF a, b
  <2>3. NoView.doc # p /\ NoView.pending # p
    BY <1>3, ShareTableAssumption
  <2>4. dead[c][p] \in Nat
    BY <1>1 DEF ClientTypes
  <2> HIDE DEF D, D1, P, P1, w
  <2>5. Refs(p)' = Refs(p) + (-less(p))
    <3>1. D1 - D = 0 - (IF p = w.doc THEN 1 ELSE 0)
      BY <2>2, <2>3
    <3>2. P1 - P = 0 - (IF p = w.pending THEN 1 ELSE 0)
      BY <2>2, <2>3
    <3>3. QED
      BY <2>1, <2>2, <2>4, <3>1, <3>2
  <2>6. /\ heap[p].ref \in Int /\ heap'[p].ref = heap[p].ref + (-less(p)) /\ less(p) \in Nat
        /\ heap'[p].live = heap[p].live
    BY <1>6
  <2> HIDE DEF less
  <2>7. -less(p) \in Int /\ ~(-less(p) > 0)
    BY <2>6
  <2>8. QED
    BY <1>1, <1>2, <2>1, <2>5, <2>6, <2>7, Balance
<1>13. RefInv'
  BY <1>12 DEF RefInv
<1>14. ReachInv'
  BY <1>1, <1>2, <1>6, ReachKept
<1>15. QED
  BY <1>8, <1>9, <1>10, <1>11, <1>13, <1>14 DEF IInv

\* A box is finalised.
LEMMA FinaliseStep ==
    ASSUME IInv, NEW c \in Clients, Finalise(c)
    PROVE  IInv'
<1>1. /\ ServiceTypes /\ ClientTypes /\ MessageInv /\ ViewInv /\ CallInv /\ RefInv /\ ReachInv
  BY DEF IInv
<1>2. PICK q \in Ptr : /\ dead[c][q] > 0 /\ dead' = [dead EXCEPT ![c][q] = @ - 1]
                       /\ heap' = DecRef(heap, q)
  BY DEF Finalise
<1>3. /\ UNCHANGED <<files, retired, todo, doomed, owed, loads>>
      /\ UNCHANGED <<views, cache, roots, gone>> /\ UNCHANGED <<inbox, replies, co, lost>>
  BY DEF Finalise, service
<1>4. /\ heap' \in [Ptr -> Graph]
      /\ \A p \in Ptr : /\ heap'[p].live = heap[p].live /\ heap[p].ref \in Int
                        /\ p = q => heap'[p].ref = heap[p].ref + (-1)
                        /\ p # q => heap'[p].ref = heap[p].ref + 0
  <2> DEFINE x == heap[q].ref - 1
  <2>1. heap' = [heap EXCEPT ![q].ref = x]
    BY <1>2 DEF DecRef
  <2>2. x \in Int /\ x = heap[q].ref + (-1)
    BY <1>1, GraphFields DEF ServiceTypes
  <2> HIDE DEF x
  <2>3. /\ heap' \in [Ptr -> Graph] /\ heap'[q].ref = x
        /\ \A p \in Ptr : /\ heap'[p].live = heap[p].live /\ heap[p].ref \in Int
                          /\ p # q => heap'[p].ref = heap[p].ref
    BY <1>1, <2>1, <2>2, HeapOne
  <2>4. QED
    BY <2>2, <2>3
<1>5. /\ dead' \in [Clients -> [Ptr -> Nat]] /\ \A e \in Clients \ {c} : dead'[e] = dead[e]
      /\ dead'[c][q] = dead[c][q] - 1
      /\ \A p \in Ptr \ {q} : dead'[c][p] = dead[c][p]
      /\ \A p \in Ptr : dead[c][p] \in Nat
  <2>1. dead \in [Clients -> [Ptr -> Nat]]
    BY <1>1 DEF ClientTypes
  <2>2. QED
    BY <1>2, <2>1
<1>6. ServiceTypes' /\ ClientTypes'
  BY <1>1, <1>3, <1>4, <1>5 DEF ServiceTypes, ClientTypes
<1>7. MessageInv' /\ ViewInv'
  BY <1>1, <1>3 DEF MessageInv, ViewInv
<1>8. CallInv'
  BY <1>1, <1>3, CallKept
<1>9. ASSUME NEW p \in Ptr PROVE RefAt(p)'
  <2> DEFINE D == Cardinality(DocsOf(views[c], p))
             P == Cardinality(PendingOf(views[c], p))
  <2>1. /\ Refs(p) \in Nat /\ Refs(p)' \in Nat
        /\ Refs(p)' = Refs(p) + (dead'[c][p] - dead[c][p]) + (D - D) + (P - P)
    BY <1>1, <1>3, <1>5, <1>6, RefsBoxes
  <2>2. D \in Nat /\ P \in Nat /\ dead[c][p] \in Nat
    BY <1>5, BoxesFinite
  <2> HIDE DEF D, P
  <2>3. CASE p = q
    <3>1. Refs(p)' = Refs(p) + (-1)
      BY <1>5, <2>1, <2>2, <2>3
    <3>2. QED
      BY <1>1, <1>3, <1>4, <2>1, <2>3, <3>1, Balance
  <2>4. CASE p # q
    <3>1. Refs(p)' = Refs(p) + 0
      BY <1>5, <2>1, <2>2, <2>4
    <3>2. QED
      BY <1>1, <1>3, <1>4, <2>1, <2>4, <3>1, Balance
  <2>5. QED
    BY <2>3, <2>4
<1>10. RefInv'
  BY <1>9 DEF RefInv
<1>11. ReachInv'
  BY <1>1, <1>3, <1>4, ReachKept
<1>12. QED
  BY <1>6, <1>7, <1>8, <1>10, <1>11 DEF IInv

\* References when one client works through its mailbox.
LEMMA RefsClient ==
    ASSUME ServiceTypes, ClientTypes, ServiceTypes', ClientTypes', NEW c \in Clients,
           UNCHANGED <<files, lost>>,
           \A e \in Clients \ {c} : /\ dead'[e] = dead[e] /\ views'[e] = views[e]
                                    /\ replies'[e] = replies[e],
           NEW p \in Ptr
    PROVE  /\ Refs(p) \in Nat /\ Refs(p)' \in Nat
           /\ Refs(p)' = Refs(p) + (dead'[c][p] - dead[c][p])
                + (Cardinality(DocsOf(views'[c], p)) - Cardinality(DocsOf(views[c], p)))
                + (Cardinality(PendingOf(views'[c], p)) - Cardinality(PendingOf(views[c], p)))
                + (Cardinality(CarriedBy(replies'[c], p)) - Cardinality(CarriedBy(replies[c], p)))
                + (Cardinality(Confirms(inbox', p)) - Cardinality(Confirms(inbox, p)))
           /\ Refs(p) >= Cardinality(CarriedBy(replies[c], p))
<1> DEFINE H == Hold(dead[c], views[c], replies[c], p)
           H1 == Hold(dead'[c], views'[c], replies'[c], p)
           O == Cardinality(OwnersOf(files, p))
           t == Cardinality(Confirms(inbox', p)) - Cardinality(Confirms(inbox, p))
           R == Cardinality(CarriedBy(replies[c], p))
           x == dead'[c][p] - dead[c][p]
           y == Cardinality(DocsOf(views'[c], p)) - Cardinality(DocsOf(views[c], p))
           z == Cardinality(PendingOf(views'[c], p)) - Cardinality(PendingOf(views[c], p))
           u == Cardinality(CarriedBy(replies'[c], p)) - Cardinality(CarriedBy(replies[c], p))
<1>1. Counted /\ Counted'
  BY CountedTypes, CountedTypesNext
<1>2. /\ Refs(p) \in Nat /\ Refs(p)' \in Nat
      /\ Refs(p)' = Refs(p) + (O - O) + (H1 - H) + t + (lost[p] - lost[p])
      /\ Refs(p) >= O + H
  BY <1>1, RefsOne
<1>3. /\ dead[c] \in [Ptr -> Nat] /\ dead'[c] \in [Ptr -> Nat] /\ replies[c] \in Seq(ReplyMsg)
      /\ replies'[c] \in Seq(ReplyMsg)
  BY DEF ClientTypes
<1>4. H1 - H = x + y + z + u /\ H \in Nat /\ H1 \in Nat /\ H >= R
  <2> DEFINE n == dead[c][p]
             n1 == dead'[c][p]
             D == Cardinality(DocsOf(views[c], p))
             D1 == Cardinality(DocsOf(views'[c], p))
             P == Cardinality(PendingOf(views[c], p))
             P1 == Cardinality(PendingOf(views'[c], p))
             R1 == Cardinality(CarriedBy(replies'[c], p))
  <2>1. H = n + D + P + R /\ H1 = n1 + D1 + P1 + R1
    BY DEF Hold
  <2>2. n \in Nat /\ n1 \in Nat
    BY <1>3
  <2>3. /\ D \in Nat /\ D1 \in Nat /\ P \in Nat /\ P1 \in Nat /\ R \in Nat /\ R1 \in Nat
    BY <1>3, BoxesFinite, CarriedFinite
  <2>4. x = n1 - n /\ y = D1 - D /\ z = P1 - P /\ u = R1 - R
    OBVIOUS
  <2> HIDE DEF n, n1, D, D1, P, P1, R1, R, H, H1, x, y, z, u
  <2>5. QED
    BY <2>1, <2>2, <2>3, <2>4
<1>5. /\ O \in Nat /\ R \in Nat /\ lost[p] \in Nat
      /\ x \in Int /\ y \in Int /\ z \in Int /\ u \in Int /\ t \in Int
  <2>1. O \in Nat /\ R \in Nat /\ lost[p] \in Nat
    BY <1>3, OwnersFinite, CarriedFinite DEF ServiceTypes
  <2>2. dead'[c][p] \in Nat /\ dead[c][p] \in Nat
    BY <1>3
  <2>3. x \in Int
    BY <2>2
  <2>4. y \in Int /\ z \in Int
    BY BoxesFinite
  <2>5. u \in Int
    BY <1>3, CarriedFinite
  <2>6. t \in Int
    BY ConfirmsFinite DEF ServiceTypes
  <2>7. QED
    BY <2>1, <2>3, <2>4, <2>5, <2>6
<1> HIDE DEF H, H1, O, R, x, y, z, u, t
<1>6. Refs(p)' = Refs(p) + x + y + z + u + t /\ Refs(p) >= R
  BY <1>2, <1>4, <1>5
<1>7. QED
  BY <1>2, <1>6 DEF x, y, z, u, t, R

\* The service's mailbox gets no call.
NoNewCall == \A i \in DOMAIN inbox' : inbox'[i].op # "confirm" =>
                i \in DOMAIN inbox /\ inbox'[i] = inbox[i]

\* A confirmation is not a call.
LEMMA ConfirmIsNoCall ==
    ASSUME ServiceTypes, NEW p \in Ptr, inbox' = Append(inbox, Confirm(p))
    PROVE  NoNewCall
<1>1. Confirm(p) \in Message /\ Confirm(p).op = "confirm"
  BY ConfirmMessage
<1>2. QED
  BY <1>1, NewMessage DEF NoNewCall

\* Calls under way when a coroutine resumes.
LEMMA ResumeCall ==
    ASSUME ServiceTypes, ClientTypes, CallInv, NEW c \in Clients, replies[c] # <<>>, Resume(c),
           NoNewCall, UNCHANGED <<owed, gone>>
    PROVE  CallInv'
<1> DEFINE k0 == Answer(c).co
<1>1. /\ replies' \in [Clients -> Seq(ReplyMsg)] /\ replies'[c] = Tail(replies[c])
      /\ \A e \in Clients \ {c} : replies'[e] = replies[e]
      /\ co'[k0] = Idle /\ \A k \in Coroutines \ {k0} : co'[k] = co[k]
  BY ResumeStep
<1>2. /\ k0 \in Coroutines /\ 1 \in DOMAIN replies[c] /\ replies[c][1].co = k0
      /\ \A j \in DOMAIN replies'[c] : /\ j \in Nat \ {0} /\ j + 1 \in DOMAIN replies[c]
                                       /\ replies'[c][j] = replies[c][j + 1]
  BY <1>1, FirstAnswer
<1>3. Home[k0] = c /\ c \notin gone
  BY <1>2 DEF CallInv, MailInv
<1>4. Idle.op = "none"
  BY DEF Idle
<1> HIDE DEF k0
<1>5. ASSUME NEW k \in Coroutines, Home[k] \notin gone'
      PROVE  AskInv(k)' /\ OwedInv(k)' /\ ToldInv(k)' /\ UpdateInv(k)'
  <2>1. /\ AskInv(k) /\ OwedInv(k) /\ ToldInv(k) /\ UpdateInv(k) /\ Home[k] \in Clients
    BY <1>5, ShareTableAssumption DEF CallInv
  <2>2. \A i \in DOMAIN inbox' : Asks(i, k)' =>
            i \in DOMAIN inbox /\ Asks(i, k) /\ inbox'[i] = inbox[i]
    BY DEF Asks, NoNewCall
  <2>3. CASE k = k0
    <3>1. Told(1, k)
      BY <1>2, <1>3, <2>3 DEF Told
    <3>2. (\A i \in DOMAIN inbox : ~Asks(i, k)) /\ owed # k
      BY <1>2, <1>3, <2>1, <2>3, <3>1 DEF AskInv, OwedInv
    <3>3. \A j \in DOMAIN replies[c] : Told(j, k) => j = 1
      BY <1>2, <1>3, <2>1, <2>3, <3>1 DEF ToldInv
    <3>4. ASSUME NEW j \in DOMAIN replies'[Home[k]], Told(j, k)' PROVE FALSE
      <4>1. j \in Nat \ {0} /\ j + 1 \in DOMAIN replies[c] /\ replies'[c][j] = replies[c][j + 1]
        BY <1>2, <1>3, <2>3
      <4>2. Told(j + 1, k)
        BY <1>3, <2>3, <3>4, <4>1 DEF Told
      <4>3. j + 1 = 1
        BY <3>3, <4>1, <4>2
      <4>4. QED
        BY <4>1, <4>3
    <3>5. AskInv(k)'
      BY <2>2, <3>2 DEF AskInv
    <3>6. OwedInv(k)' /\ ToldInv(k)'
      BY <3>2, <3>4 DEF OwedInv, ToldInv
    <3>7. UpdateInv(k)'
      BY <1>1, <1>4, <2>3 DEF UpdateInv
    <3>8. QED
      BY <3>5, <3>6, <3>7
  <2>4. CASE k # k0
    <3>1. co'[k] = co[k]
      BY <1>1, <2>4
    <3>2. CASE Home[k] = c
      <4>1. \A j \in DOMAIN replies'[c] : Told(j, k)' => Told(j + 1, k)
        BY <1>2, <3>2 DEF Told
      <4>2. AskInv(k)'
        BY <1>2, <2>1, <2>2, <3>1, <3>2, <4>1 DEF AskInv
      <4>3. OwedInv(k)'
        BY <1>2, <2>1, <3>1, <3>2, <4>1 DEF OwedInv
      <4>4. ToldInv(k)'
        <5> SUFFICES ASSUME NEW j \in DOMAIN replies'[c], Told(j, k)'
                     PROVE  /\ co'[k].op # "none"
                            /\ DOMAIN replies'[c][j].pointers \subseteq co'[k].names
                            /\ \A i \in DOMAIN replies'[c] : Told(i, k)' => i = j
          BY <3>2 DEF ToldInv
        <5>1. /\ j + 1 \in DOMAIN replies[c] /\ Told(j + 1, k) /\ replies'[c][j] = replies[c][j + 1]
              /\ j \in Nat
          BY <1>2, <4>1
        <5>2. /\ co[k].op # "none"
              /\ DOMAIN replies[c][j + 1].pointers \subseteq co[k].names
              /\ \A i \in DOMAIN replies[c] : Told(i, k) => i = j + 1
          BY <2>1, <3>2, <5>1 DEF ToldInv
        <5>3. ASSUME NEW i \in DOMAIN replies'[c], Told(i, k)' PROVE i = j
          <6>1. i \in Nat /\ i + 1 = j + 1
            BY <1>2, <4>1, <5>2, <5>3
          <6>2. QED
            BY <5>1, <6>1
        <5>4. QED
          BY <3>1, <5>1, <5>2, <5>3
      <4>5. UpdateInv(k)'
        BY <2>1, <3>1 DEF UpdateInv
      <4>6. QED
        BY <4>2, <4>3, <4>4, <4>5
    <3>3. CASE Home[k] # c
      <4>1. replies'[Home[k]] = replies[Home[k]]
        BY <1>1, <2>1, <3>3
      <4>2. AskInv(k)'
        BY <2>1, <2>2, <3>1, <4>1 DEF AskInv, Told
      <4>3. OwedInv(k)' /\ ToldInv(k)' /\ UpdateInv(k)'
        BY <2>1, <3>1, <4>1 DEF OwedInv, ToldInv, UpdateInv, Told
      <4>4. QED
        BY <4>2, <4>3
    <3>4. QED
      BY <3>2, <3>3
  <2>5. QED
    BY <2>3, <2>4
<1>6. MailInv'
  <2>1. ASSUME NEW e \in gone' PROVE replies'[e] = <<>>
    <3>1. e \in Clients /\ e # c /\ replies[e] = <<>>
      BY <1>3, <2>1 DEF ClientTypes, CallInv, MailInv
    <3>2. QED
      BY <1>1, <3>1
  <2>2. ASSUME NEW e \in Clients, NEW j \in DOMAIN replies'[e] PROVE Home[replies'[e][j].co] = e
    <3>1. \A i \in DOMAIN replies[e] : Home[replies[e][i].co] = e
      BY DEF CallInv, MailInv
    <3>2. CASE e = c
      <4>1. j + 1 \in DOMAIN replies[c] /\ replies'[c][j] = replies[c][j + 1]
        BY <1>2, <2>2, <3>2
      <4>2. QED
        BY <3>1, <3>2, <4>1
    <3>3. CASE e # c
      <4>1. replies'[e] = replies[e]
        BY <1>1, <3>3
      <4>2. QED
        BY <2>2, <3>1, <4>1
    <3>4. QED
      BY <3>2, <3>3
  <2>3. QED
    BY <2>1, <2>2 DEF MailInv
<1>7. QED
  BY <1>5, <1>6 DEF CallInv

\* Calls under way when one name of an answer is handled.
LEMMA HandledCall ==
    ASSUME ServiceTypes, ClientTypes, CallInv, NEW c \in Clients, replies[c] # <<>>,
           NEW n \in DOMAIN Answer(c).pointers, Handled(c, n), NoNewCall, UNCHANGED <<co, owed, gone>>
    PROVE  CallInv'
<1>1. /\ replies' \in [Clients -> Seq(ReplyMsg)]
      /\ \A e \in Clients \ {c} : replies'[e] = replies[e]
      /\ DOMAIN replies'[c] = DOMAIN replies[c]
      /\ \A j \in 2 .. Len(replies[c]) : replies'[c][j] = replies[c][j]
      /\ replies'[c][1].co = replies[c][1].co
      /\ replies'[c][1].pointers = [m \in DOMAIN Answer(c).pointers \ {n} |-> Answer(c).pointers[m]]
  BY HandledStep
<1>2. /\ Answer(c) = replies[c][1] /\ 1 \in DOMAIN replies[c]
      /\ \A j \in DOMAIN replies[c] : j = 1 \/ j \in 2 .. Len(replies[c])
  BY FirstAnswer
<1>3. \A e \in Clients : /\ DOMAIN replies'[e] = DOMAIN replies[e]
                         /\ \A j \in DOMAIN replies[e] :
                               /\ replies'[e][j].co = replies[e][j].co
                               /\ DOMAIN replies'[e][j].pointers \subseteq DOMAIN replies[e][j].pointers
  <2>1. ASSUME NEW j \in DOMAIN replies[c]
        PROVE  /\ replies'[c][j].co = replies[c][j].co
               /\ DOMAIN replies'[c][j].pointers \subseteq DOMAIN replies[c][j].pointers
    <3>1. CASE j = 1
      <4>1. DOMAIN replies'[c][1].pointers = DOMAIN Answer(c).pointers \ {n}
        BY <1>1
      <4>2. QED
        BY <1>1, <1>2, <3>1, <4>1
    <3>2. CASE j \in 2 .. Len(replies[c])
      <4>1. replies'[c][j] = replies[c][j]
        BY <1>1, <3>2
      <4>2. QED
        BY <4>1
    <3>3. QED
      BY <1>2, <3>1, <3>2
  <2>2. QED
    BY <1>1, <2>1
<1>4. c \notin gone
  BY DEF CallInv, MailInv
<1>5. ASSUME NEW k \in Coroutines, Home[k] \notin gone'
      PROVE  AskInv(k)' /\ OwedInv(k)' /\ ToldInv(k)' /\ UpdateInv(k)'
  <2>1. /\ AskInv(k) /\ OwedInv(k) /\ ToldInv(k) /\ UpdateInv(k) /\ Home[k] \in Clients
    BY <1>5, ShareTableAssumption DEF CallInv
  <2>2. \A i \in DOMAIN inbox' : Asks(i, k)' =>
            i \in DOMAIN inbox /\ Asks(i, k) /\ inbox'[i] = inbox[i]
    BY DEF Asks, NoNewCall
  <2>3. /\ DOMAIN replies'[Home[k]] = DOMAIN replies[Home[k]]
        /\ \A j \in DOMAIN replies[Home[k]] : Told(j, k)' <=> Told(j, k)
    BY <1>3, <2>1 DEF Told
  <2>4. AskInv(k)'
    BY <2>1, <2>2, <2>3 DEF AskInv
  <2>5. OwedInv(k)'
    BY <2>1, <2>3 DEF OwedInv
  <2>6. ToldInv(k)'
    BY <1>3, <2>1, <2>3 DEF ToldInv
  <2>7. UpdateInv(k)'
    BY <2>1 DEF UpdateInv
  <2>8. QED
    BY <2>4, <2>5, <2>6, <2>7
<1>6. MailInv'
  <2>1. ASSUME NEW e \in gone' PROVE replies'[e] = <<>>
    <3>1. e \in Clients /\ e # c /\ replies[e] = <<>>
      BY <1>4, <2>1 DEF ClientTypes, CallInv, MailInv
    <3>2. QED
      BY <1>1, <3>1
  <2>2. QED
    BY <1>3, <2>1 DEF CallInv, MailInv
<1>7. QED
  BY <1>5, <1>6 DEF CallInv

\* A load or a query returns.
LEMMA ReturnStep ==
    ASSUME IInv, NEW c \in Clients, Return(c)
    PROVE  IInv'
<1>1. /\ ServiceTypes /\ ClientTypes /\ MessageInv /\ ViewInv /\ CallInv /\ RefInv /\ ReachInv
  BY DEF IInv
<1>2. /\ replies[c] # <<>> /\ Answer(c).pointers = <<>> /\ Resume(c)
      /\ UNCHANGED <<files, retired, todo, doomed, owed, loads>>
      /\ UNCHANGED <<views, cache, roots, dead, gone>> /\ UNCHANGED <<heap, inbox, lost>>
  BY DEF Return, Arrived, service, client
<1>3. /\ replies' \in [Clients -> Seq(ReplyMsg)] /\ replies'[c] = Tail(replies[c])
      /\ \A e \in Clients \ {c} : replies'[e] = replies[e] /\ co' \in [Coroutines -> Waiting]
      /\ co' \in [Coroutines -> Waiting]
  BY <1>1, <1>2, ResumeStep
<1>4. ServiceTypes' /\ ClientTypes'
  BY <1>1, <1>2, <1>3 DEF ServiceTypes, ClientTypes
<1>5. MessageInv' /\ ViewInv'
  BY <1>1, <1>2 DEF MessageInv, ViewInv
<1>6. CallInv'
  <2>1. NoNewCall
    BY <1>2 DEF NoNewCall
  <2>2. QED
    BY <1>1, <1>2, <2>1, ResumeCall
<1>7. ASSUME NEW p \in Ptr PROVE RefAt(p)'
  <2> DEFINE D == Cardinality(DocsOf(views[c], p))
             P == Cardinality(PendingOf(views[c], p))
             R == Cardinality(CarriedBy(replies[c], p))
             R1 == Cardinality(CarriedBy(replies'[c], p))
             C == Cardinality(Confirms(inbox, p))
  <2>1. /\ Refs(p) \in Nat /\ Refs(p)' \in Nat
        /\ Refs(p)' = Refs(p) + (dead[c][p] - dead[c][p]) + (D - D) + (P - P) + (R1 - R) + (C - C)
    BY <1>1, <1>2, <1>3, <1>4, RefsClient
  <2>2. replies[c] \in Seq(ReplyMsg) /\ replies'[c] \in Seq(ReplyMsg)
    BY <1>1, <1>3 DEF ClientTypes
  <2>3. D \in Nat /\ P \in Nat /\ R \in Nat /\ R1 \in Nat /\ C \in Nat /\ dead[c][p] \in Nat
    <3>1. D \in Nat /\ P \in Nat
      BY BoxesFinite
    <3>2. R \in Nat /\ R1 \in Nat
      BY <2>2, CarriedFinite
    <3>3. C \in Nat /\ dead[c][p] \in Nat
      BY <1>1, ConfirmsFinite DEF ServiceTypes, ClientTypes
    <3>4. QED
      BY <3>1, <3>2, <3>3
  <2>4. R = R1 + Cardinality(NamesFor(Head(replies[c]), p))
    BY <1>2, <1>3, <2>2, CarriedTail
  <2>5. Cardinality(NamesFor(Head(replies[c]), p)) = 0
    <3>1. NamesFor(Head(replies[c]), p) = {}
      BY <1>2, EmptyAnswer DEF NamesFor, Answer
    <3>2. QED
      BY <3>1, FS_EmptySet
  <2> HIDE DEF D, P, R, R1, C
  <2>6. Refs(p)' = Refs(p) + 0
    BY <2>1, <2>3, <2>4, <2>5
  <2>7. heap[p].ref \in Int /\ heap'[p] = heap[p]
    BY <1>1, <1>2, GraphFields DEF ServiceTypes
  <2>8. QED
    BY <1>1, <1>2, <2>1, <2>6, <2>7, Balance
<1>8. RefInv'
  BY <1>7 DEF RefInv
<1>9. ReachInv'
  BY <1>1, <1>2, ReachKept
<1>10. QED
  BY <1>4, <1>5, <1>6, <1>8, <1>9 DEF IInv

\* The numbers of a name that is handled: its answer gives up a reference, which its
\* confirmation takes over.
LEMMA HandledCounts ==
    ASSUME ServiceTypes, ClientTypes, NEW c \in Clients, replies[c] # <<>>,
           NEW n \in DOMAIN Answer(c).pointers, Handled(c, n),
           inbox' = Append(inbox, Confirm(Answer(c).pointers[n])), NEW q \in Ptr
    PROVE  /\ Cardinality(CarriedBy(replies'[c], q)) \in Nat /\ Cardinality(CarriedBy(replies[c], q)) \in Nat
           /\ Cardinality(Confirms(inbox', q)) \in Nat /\ Cardinality(Confirms(inbox, q)) \in Nat
           /\ (Cardinality(CarriedBy(replies'[c], q)) - Cardinality(CarriedBy(replies[c], q)))
              + (Cardinality(Confirms(inbox', q)) - Cardinality(Confirms(inbox, q))) = 0
           /\ q = Answer(c).pointers[n] => Cardinality(CarriedBy(replies[c], q)) > 0
<1> DEFINE p == Answer(c).pointers[n]
           r == replies[c]
           t == replies'[c]
<1>1. /\ r \in Seq(ReplyMsg) /\ Answer(c) = r[1] /\ Answer(c) = Head(r) /\ r # <<>>
      /\ Answer(c).pointers \in [DOMAIN Answer(c).pointers -> Ptr] /\ n \in Names
      /\ Len(r) \in Nat \ {0}
  BY FirstAnswer
<1>2. p \in Ptr
  BY <1>1
<1>3. /\ t \in Seq(ReplyMsg) /\ Len(t) = Len(r) /\ \A j \in 2 .. Len(r) : t[j] = r[j]
      /\ t[1].pointers = [m \in DOMAIN Head(r).pointers \ {n} |-> Head(r).pointers[m]]
  <2>1. /\ replies' \in [Clients -> Seq(ReplyMsg)] /\ Len(t) = Len(r)
        /\ \A j \in 2 .. Len(r) : t[j] = r[j]
        /\ t[1].pointers = [m \in DOMAIN Answer(c).pointers \ {n} |-> Answer(c).pointers[m]]
    BY HandledStep
  <2>2. t \in Seq(ReplyMsg)
    BY <2>1
  <2>3. QED
    BY <2>1, <2>2 DEF Answer
<1>4. n \in DOMAIN Head(r).pointers /\ p = Head(r).pointers[n]
  BY <1>1
<1>5. <<1, n>> \in CarriedBy(r, p)
  BY <1>1, <1>4 DEF CarriedBy
<1> HIDE DEF r, t, p
<1>6. Cardinality(CarriedBy(t, q)) = Cardinality(CarriedBy(r, q)) - (IF p = q THEN 1 ELSE 0)
  <2>1. /\ Head(r).pointers[n] = q => Cardinality(CarriedBy(t, q)) = Cardinality(CarriedBy(r, q)) - 1
        /\ Head(r).pointers[n] # q => Cardinality(CarriedBy(t, q)) = Cardinality(CarriedBy(r, q))
    <3>1. /\ DOMAIN t[1].pointers = DOMAIN Head(r).pointers \ {n}
          /\ \A m \in DOMAIN t[1].pointers : t[1].pointers[m] = Head(r).pointers[m]
      BY <1>3
    <3>2. /\ r \in Seq(ReplyMsg) /\ t \in Seq(ReplyMsg) /\ r # <<>> /\ Len(t) = Len(r)
          /\ n \in DOMAIN Head(r).pointers /\ \A i \in 2 .. Len(r) : t[i] = r[i]
      BY <1>1, <1>3, <1>4
    <3>3. QED
      BY ONLY <3>1, <3>2, CarriedHandled, Zenon
  <2>2. Cardinality(CarriedBy(r, q)) \in Nat
    BY <1>1, CarriedFinite
  <2>3. QED
    BY <1>4, <2>1, <2>2
<1>7. /\ Cardinality(CarriedBy(t, q)) \in Nat /\ Cardinality(CarriedBy(r, q)) \in Nat
      /\ IsFiniteSet(CarriedBy(r, p)) /\ Cardinality(CarriedBy(r, p)) \in Nat
  BY <1>1, <1>3, CarriedFinite
<1>8. Cardinality(CarriedBy(r, p)) # 0
  BY <1>5, <1>7, FS_EmptySet
<1>9. /\ inbox \in Seq(Message) /\ inbox' \in Seq(Message)
      /\ Confirm(p) \in Message /\ Confirm(p).op = "confirm" /\ Confirm(p).pointer = p
      /\ inbox' = Append(inbox, Confirm(p))
  <2>1. inbox \in Seq(Message) /\ inbox' = Append(inbox, Confirm(p))
    BY DEF ServiceTypes, p
  <2>2. Confirm(p) \in Message /\ Confirm(p).op = "confirm" /\ Confirm(p).pointer = p
    BY <1>2, ConfirmMessage
  <2>3. QED
    BY <2>1, <2>2, AppendProperties
<1>10. Cardinality(Confirms(inbox', q)) = Cardinality(Confirms(inbox, q)) + (IF p = q THEN 1 ELSE 0)
  BY <1>9, ConfirmAppend
<1>11. Cardinality(Confirms(inbox', q)) \in Nat /\ Cardinality(Confirms(inbox, q)) \in Nat
  BY <1>9, ConfirmsFinite
<1>12. (Cardinality(CarriedBy(t, q)) - Cardinality(CarriedBy(r, q)))
              + (Cardinality(Confirms(inbox', q)) - Cardinality(Confirms(inbox, q))) = 0
  BY <1>6, <1>7, <1>10, <1>11
<1>13. q = p => Cardinality(CarriedBy(r, q)) > 0
  BY <1>7, <1>8
<1>14. QED
  BY <1>7, <1>11, <1>12, <1>13 DEF r, t, p

\* The cached view already shows the graph.
LEMMA BoxCachedStep ==
    ASSUME IInv, NEW c \in Clients, BoxCached(c)
    PROVE  IInv'
<1>1. /\ ServiceTypes /\ ClientTypes /\ MessageInv /\ ViewInv /\ CallInv /\ RefInv /\ ReachInv
  BY DEF IInv
<1>2. /\ replies[c] # <<>>
      /\ UNCHANGED <<files, retired, todo, doomed, owed, loads>>
      /\ UNCHANGED <<cache, roots, dead, gone>> /\ UNCHANGED <<heap, co, lost>>
  BY DEF BoxCached, Arrived, service
<1>3. PICK n \in DOMAIN Answer(c).pointers :
         /\ cache[c][n] # Nil /\ views[c][cache[c][n]].pointer = Answer(c).pointers[n]
         /\ views' = [views EXCEPT ![c][cache[c][n]].root = "held"]
         /\ inbox' = Append(inbox, Confirm(Answer(c).pointers[n]))
         /\ Handled(c, n)
  BY DEF BoxCached
<1> DEFINE p == Answer(c).pointers[n]
           v == cache[c][n]
           w == views[c][v]
           x == [w EXCEPT !.root = "held"]
<1>4. n \in Names /\ p \in Ptr /\ p # Nil
  BY <1>1, <1>2, FirstAnswer, ShareTableAssumption
<1>5. v \in View /\ w \in ViewRec
  BY <1>1, <1>3, <1>4 DEF ClientTypes
<1>6. w # NoView
  <2>1. NoView.pointer = Nil
    BY DEF NoView
  <2>2. QED
    BY <1>3, <1>4, <2>1
<1>7. w.name # Nil /\ w.pointer # Nil /\ w.doc # Nil
  BY <1>1, <1>5, <1>6 DEF ViewInv
<1>8. views' = [views EXCEPT ![c][v] = x]
  BY <1>3
<1>9. x \in ViewRec /\ x.doc = w.doc /\ x.pending = w.pending /\ x.name = w.name /\ x.pointer = w.pointer
  <2> HIDE DEF w
  <2>1. QED
    BY <1>5 DEF ViewRec
<1> HIDE DEF x
<1>10. /\ views' \in [Clients -> [View -> ViewRec]] /\ views'[c][v] = x
       /\ \A e \in Clients \ {c} : views'[e] = views[e]
       /\ \A u \in View \ {v} : views'[c][u] = views[c][u]
  BY <1>1, <1>5, <1>8, <1>9, ViewsOne, ZenonT(30)
<1>11. /\ replies' \in [Clients -> Seq(ReplyMsg)] /\ \A e \in Clients \ {c} : replies'[e] = replies[e]
  BY <1>1, <1>2, <1>3, HandledStep
<1>12. /\ Confirm(p) \in Message /\ Confirm(p).op = "confirm" /\ Confirm(p).pointer = p
       /\ inbox' = Append(inbox, Confirm(p))
  BY <1>3, <1>4, ConfirmMessage
<1>13. inbox' \in Seq(Message)
  BY <1>1, <1>12, NewMessage
<1>14. ServiceTypes' /\ ClientTypes'
  BY <1>1, <1>2, <1>10, <1>11, <1>13 DEF ServiceTypes, ClientTypes
<1>15. MessageInv'
  BY <1>1, <1>4, <1>12, MessageAdded
<1>16. ViewInv'
  BY <1>1, <1>7, <1>9, <1>10 DEF ViewInv
<1>17. CallInv'
  <2>1. NoNewCall
    BY <1>1, <1>4, <1>12, ConfirmIsNoCall
  <2>2. QED
    BY <1>1, <1>2, <1>3, <2>1, HandledCall
<1>18. ASSUME NEW q \in Ptr PROVE RefAt(q)'
  <2> DEFINE D == Cardinality(DocsOf(views[c], q))
             P == Cardinality(PendingOf(views[c], q))
             R == Cardinality(CarriedBy(replies[c], q))
             R1 == Cardinality(CarriedBy(replies'[c], q))
             C == Cardinality(Confirms(inbox, q))
             C1 == Cardinality(Confirms(inbox', q))
  <2>1. /\ DocsOf(views'[c], q) = DocsOf(views[c], q)
        /\ PendingOf(views'[c], q) = PendingOf(views[c], q)
    <3>1. \A u \in View : /\ views'[c][u].doc = views[c][u].doc
                          /\ views'[c][u].pending = views[c][u].pending
      BY <1>9, <1>10
    <3>2. QED
      BY <3>1 DEF DocsOf, PendingOf
  <2>2. /\ Refs(q) \in Nat /\ Refs(q)' \in Nat
        /\ Refs(q)' = Refs(q) + (dead[c][q] - dead[c][q])
                + (Cardinality(DocsOf(views'[c], q)) - D)
                + (Cardinality(PendingOf(views'[c], q)) - P) + (R1 - R) + (C1 - C)
    BY <1>1, <1>2, <1>10, <1>11, <1>14, RefsClient
  <2>3. /\ R \in Nat /\ R1 \in Nat /\ C \in Nat /\ C1 \in Nat /\ (R1 - R) + (C1 - C) = 0
    BY <1>1, <1>2, <1>3, HandledCounts
  <2>4. D \in Nat /\ P \in Nat /\ dead[c][q] \in Nat
    BY <1>1, BoxesFinite DEF ClientTypes
  <2>5. Refs(q)' = Refs(q) + (dead[c][q] - dead[c][q]) + (D - D) + (P - P) + (R1 - R) + (C1 - C)
    BY <2>1, <2>2
  <2> HIDE DEF D, P, R, R1, C, C1
  <2>6. Refs(q)' = Refs(q) + 0
    BY <2>2, <2>3, <2>4, <2>5
  <2>7. heap[q].ref \in Int /\ heap'[q] = heap[q]
    BY <1>1, <1>2, GraphFields DEF ServiceTypes
  <2>8. QED
    BY <1>1, <1>2, <2>2, <2>6, <2>7, Balance
<1>19. RefInv'
  BY <1>18 DEF RefInv
<1>20. ReachInv'
  BY <1>1, <1>2, ReachKept
<1>21. QED
  BY <1>14, <1>15, <1>16, <1>17, <1>19, <1>20 DEF IInv

\* A new view takes a reference.
LEMMA BoxNewStep ==
    ASSUME IInv, NEW c \in Clients, BoxNew(c)
    PROVE  IInv'
<1>1. /\ ServiceTypes /\ ClientTypes /\ MessageInv /\ ViewInv /\ CallInv /\ RefInv /\ ReachInv
  BY DEF IInv
<1>2. /\ replies[c] # <<>>
      /\ UNCHANGED <<files, retired, todo, doomed, owed, loads>>
      /\ UNCHANGED <<dead, gone>> /\ UNCHANGED <<co, lost>>
  BY DEF BoxNew, Arrived, service
<1>3. PICK n \in DOMAIN Answer(c).pointers, v \in View :
         /\ views[c][v] = NoView
         /\ views' = [views EXCEPT ![c][v] =
                        [name |-> n, pointer |-> Answer(c).pointers[n], doc |-> Answer(c).pointers[n],
                         pending |-> Nil, root |-> "held", nested |-> FALSE]]
         /\ cache' = [cache EXCEPT ![c][n] = v]
         /\ roots' = [roots EXCEPT ![c] = @ \cup {n}]
         /\ heap' = IncRef(heap, Answer(c).pointers[n], 1)
         /\ inbox' = Append(inbox, Confirm(Answer(c).pointers[n]))
         /\ Handled(c, n)
  BY DEF BoxNew
<1> DEFINE p == Answer(c).pointers[n]
           x == [name |-> n, pointer |-> p, doc |-> p, pending |-> Nil, root |-> "held", nested |-> FALSE]
<1>4. n \in Names /\ p \in Ptr /\ p # Nil /\ n # Nil
  BY <1>1, <1>2, FirstAnswer, ShareTableAssumption
<1>5. /\ x \in ViewRec /\ x.doc = p /\ x.pending = Nil /\ x.name = n /\ x.pointer = p
  <2> HIDE DEF p
  <2>1. QED
    BY <1>4 DEF ViewRec
<1>6. NoView.doc = Nil /\ NoView.pending = Nil
  BY DEF NoView
<1> HIDE DEF x
<1>7. /\ views' \in [Clients -> [View -> ViewRec]] /\ views'[c][v] = x
      /\ \A e \in Clients \ {c} : views'[e] = views[e]
      /\ \A u \in View \ {v} : views'[c][u] = views[c][u]
  <2>1. views' = [views EXCEPT ![c][v] = x]
    BY <1>3 DEF x
  <2>2. QED
    BY <1>1, <1>5, <2>1, ViewsOne
<1>8. cache' \in [Clients -> [Names -> View \cup {Nil}]] /\ roots' \in [Clients -> SUBSET Names]
  <2>1. cache \in [Clients -> [Names -> View \cup {Nil}]] /\ roots \in [Clients -> SUBSET Names]
    BY <1>1 DEF ClientTypes
  <2>2. cache' \in [Clients -> [Names -> View \cup {Nil}]]
    BY <1>3, <1>4, <2>1
  <2>3. roots' \in [Clients -> SUBSET Names]
    BY <1>3, <1>4, <2>1
  <2>4. QED
    BY <2>2, <2>3
<1>9. /\ heap' \in [Ptr -> Graph]
      /\ \A q \in Ptr : /\ heap'[q].live = heap[q].live /\ heap[q].ref \in Int
                        /\ q = p => heap'[q].ref = heap[q].ref + 1
                        /\ q # p => heap'[q].ref = heap[q].ref + 0
  <2> DEFINE y == heap[p].ref + 1
  <2>1. heap' = [heap EXCEPT ![p].ref = y]
    BY <1>3 DEF IncRef
  <2>2. y \in Int
    BY <1>1, <1>4, GraphFields DEF ServiceTypes
  <2> HIDE DEF p
  <2>3. /\ heap' \in [Ptr -> Graph] /\ heap'[p].ref = y
        /\ \A q \in Ptr : /\ heap'[q].live = heap[q].live /\ heap[q].ref \in Int
                          /\ q # p => heap'[q].ref = heap[q].ref
    <3> HIDE DEF y
    <3>1. QED
      BY <1>1, <1>4, <2>1, <2>2, HeapOne
  <2>4. QED
    BY <2>3
<1>10. /\ replies' \in [Clients -> Seq(ReplyMsg)] /\ \A e \in Clients \ {c} : replies'[e] = replies[e]
  BY <1>1, <1>2, <1>3, HandledStep
<1>11. /\ Confirm(p) \in Message /\ Confirm(p).op = "confirm" /\ Confirm(p).pointer = p
       /\ inbox' = Append(inbox, Confirm(p))
  BY <1>3, <1>4, ConfirmMessage
<1>12. inbox' \in Seq(Message)
  BY <1>1, <1>11, NewMessage
<1>13. ServiceTypes' /\ ClientTypes'
  BY <1>1, <1>2, <1>7, <1>8, <1>9, <1>10, <1>12 DEF ServiceTypes, ClientTypes
<1>14. MessageInv'
  BY <1>1, <1>4, <1>11, MessageAdded
<1>15. ViewInv'
  BY <1>1, <1>4, <1>5, <1>7 DEF ViewInv
<1>16. CallInv'
  <2>1. NoNewCall
    BY <1>1, <1>4, <1>11, ConfirmIsNoCall
  <2>2. QED
    BY <1>1, <1>2, <1>3, <2>1, HandledCall
<1>17. ASSUME NEW q \in Ptr PROVE RefAt(q)'
  <2> DEFINE D == Cardinality(DocsOf(views[c], q))
             D1 == Cardinality(DocsOf(views'[c], q))
             P == Cardinality(PendingOf(views[c], q))
             P1 == Cardinality(PendingOf(views'[c], q))
             R == Cardinality(CarriedBy(replies[c], q))
             R1 == Cardinality(CarriedBy(replies'[c], q))
             C == Cardinality(Confirms(inbox, q))
             C1 == Cardinality(Confirms(inbox', q))
  <2>1. /\ Refs(q) \in Nat /\ Refs(q)' \in Nat
        /\ Refs(q)' = Refs(q) + (dead[c][q] - dead[c][q]) + (D1 - D) + (P1 - P) + (R1 - R) + (C1 - C)
        /\ Refs(q) >= R
    BY <1>1, <1>2, <1>7, <1>10, <1>13, RefsClient
  <2>2. /\ R \in Nat /\ R1 \in Nat /\ C \in Nat /\ C1 \in Nat /\ (R1 - R) + (C1 - C) = 0
        /\ q = p => R > 0
    BY <1>1, <1>2, <1>3, HandledCounts
  <2>3. /\ D \in Nat /\ D1 \in Nat /\ P \in Nat /\ P1 \in Nat
        /\ D1 = D - (IF NoView.doc = q THEN 1 ELSE 0) + (IF x.doc = q THEN 1 ELSE 0)
        /\ P1 = P - (IF NoView.pending = q THEN 1 ELSE 0) + (IF x.pending = q THEN 1 ELSE 0)
    <3> DEFINE a == views[c]
               b == views'[c]
    <3>1. \A i \in View \ {v} : b[i] = a[i]
      BY <1>7
    <3>2. a[v] = NoView /\ b[v] = x
      BY <1>3, <1>7
    <3> HIDE DEF a, b
    <3>3. /\ Cardinality(DocsOf(a, q)) \in Nat /\ Cardinality(DocsOf(b, q)) \in Nat
          /\ Cardinality(DocsOf(b, q)) = Cardinality(DocsOf(a, q))
                 - (IF a[v].doc = q THEN 1 ELSE 0) + (IF b[v].doc = q THEN 1 ELSE 0)
          /\ Cardinality(PendingOf(a, q)) \in Nat /\ Cardinality(PendingOf(b, q)) \in Nat
          /\ Cardinality(PendingOf(b, q)) = Cardinality(PendingOf(a, q))
                 - (IF a[v].pending = q THEN 1 ELSE 0) + (IF b[v].pending = q THEN 1 ELSE 0)
      <4>1. /\ Cardinality(DocsOf(a, q)) \in Nat /\ Cardinality(DocsOf(b, q)) \in Nat
            /\ Cardinality(DocsOf(b, q)) = Cardinality(DocsOf(a, q))
                 - (IF a[v].doc = q THEN 1 ELSE 0) + (IF b[v].doc = q THEN 1 ELSE 0)
        BY <3>1, BoxesOne
      <4>2. /\ Cardinality(PendingOf(a, q)) \in Nat /\ Cardinality(PendingOf(b, q)) \in Nat
            /\ Cardinality(PendingOf(b, q)) = Cardinality(PendingOf(a, q))
                 - (IF a[v].pending = q THEN 1 ELSE 0) + (IF b[v].pending = q THEN 1 ELSE 0)
        BY <3>1, BoxesOne
      <4>3. QED
        BY <4>1, <4>2
    <3>4. QED
      BY <3>2, <3>3 DEF a, b
  <2>4. NoView.doc # q /\ NoView.pending # q /\ x.pending # q /\ x.doc = p
    BY <1>5, <1>6, ShareTableAssumption
  <2>5. dead[c][q] \in Nat
    BY <1>1 DEF ClientTypes
  <2> HIDE DEF D, D1, P, P1, R, R1, C, C1, p
  <2>6. P1 - P = 0 /\ D1 - D = IF p = q THEN 1 ELSE 0
    BY <2>3, <2>4
  <2>7. CASE q = p
    <3>1. Refs(q)' = Refs(q) + 1 /\ Refs(q) > 0
      <4>1. D1 - D = 1 /\ R > 0
        BY <2>2, <2>6, <2>7
      <4>2. QED
        BY <2>1, <2>2, <2>5, <2>6, <4>1
    <3>2. QED
      BY <1>1, <1>2, <1>9, <2>1, <2>7, <3>1, Balance
  <2>8. CASE q # p
    <3>1. Refs(q)' = Refs(q) + 0
      <4>1. D1 - D = 0
        BY <2>6, <2>8
      <4>2. QED
        BY <2>1, <2>2, <2>5, <2>6, <4>1
    <3>2. QED
      BY <1>1, <1>2, <1>9, <2>1, <2>8, <3>1, Balance
  <2>9. QED
    BY <2>7, <2>8
<1>18. RefInv'
  BY <1>17 DEF RefInv
<1>19. ReachInv'
  BY <1>1, <1>2, <1>9, ReachKept
<1>20. QED
  BY <1>13, <1>14, <1>15, <1>16, <1>18, <1>19 DEF IInv

\* Views of S with a pending box of q.
Garbage(w, S, q) == {v \in S : w[v].pending = q}

\* The views of S get a pending box of p.
Moves(w, u, S, p) ==
    /\ S \subseteq View
    /\ \A v \in S : u[v].pending = p
    /\ \A v \in View \ S : u[v].pending = w[v].pending

\* Views that are moved to p: each gets a pending box, the pending box it had is garbage.
LEMMA MovedBoxes ==
    ASSUME NEW w, NEW u, NEW S, NEW p, NEW q, Moves(w, u, S, p)
    PROVE  /\ Cardinality(PendingOf(u, q)) \in Nat /\ Cardinality(PendingOf(w, q)) \in Nat
           /\ Cardinality(Garbage(w, S, q)) \in Nat /\ Cardinality(S) \in Nat
           /\ q = p => Cardinality(PendingOf(u, q)) + Cardinality(Garbage(w, S, q))
                           = Cardinality(PendingOf(w, q)) + Cardinality(S)
           /\ q # p => Cardinality(PendingOf(u, q)) + Cardinality(Garbage(w, S, q))
                           = Cardinality(PendingOf(w, q))
<1> DEFINE A == PendingOf(w, q)
           B == PendingOf(u, q)
           G == Garbage(w, S, q)
<1>0. /\ S \in SUBSET View
      /\ \A v \in S : u[v].pending = p
      /\ \A v \in View \ S : u[v].pending = w[v].pending
  BY DEF Moves
<1>1. IsFiniteSet(A) /\ Cardinality(A) \in Nat /\ Cardinality(B) \in Nat
  BY BoxesFinite
<1>2. IsFiniteSet(S) /\ Cardinality(S) \in Nat
  BY <1>0, ViewFinite, FS_Subset, FS_CardinalityType
<1>3. G = A \cap S
  BY <1>0 DEF PendingOf, Garbage
<1>4. q = p => B = A \cup S
  BY <1>0 DEF PendingOf
<1>5. q # p => B = A \ S
  BY <1>0 DEF PendingOf
<1>6. IsFiniteSet(A \cap S) /\ Cardinality(A \cap S) \in Nat
  <2>1. A \cap S \subseteq S
    OBVIOUS
  <2>2. QED
    BY <1>2, <2>1, FS_Subset, FS_CardinalityType
<1> HIDE DEF A, B, G
<1>7. Cardinality(A \cup S) = Cardinality(A) + Cardinality(S) - Cardinality(A \cap S)
  BY <1>1, <1>2, FS_Union
<1>8. Cardinality(A \ S) = Cardinality(A) - Cardinality(A \cap S)
  BY <1>1, FS_Difference
<1>9. Cardinality(G) = Cardinality(A \cap S)
  BY <1>3
<1>10. q = p => Cardinality(B) + Cardinality(G) = Cardinality(A) + Cardinality(S)
  <2>1. q = p => Cardinality(B) = Cardinality(A \cup S)
    BY <1>4
  <2> DEFINE a == Cardinality(A)
             b == Cardinality(A \cup S)
             g == Cardinality(A \cap S)
             s == Cardinality(S)
  <2>2. a \in Nat /\ g \in Nat /\ s \in Nat /\ b = a + s - g
    BY <1>1, <1>2, <1>6, <1>7
  <2>3. b + g = a + s
    <3> HIDE DEF a, b, g, s
    <3>1. QED
      BY <2>2
  <2>4. QED
    BY <1>9, <2>1, <2>3
<1>11. q # p => Cardinality(B) + Cardinality(G) = Cardinality(A)
  <2>1. q # p => Cardinality(B) = Cardinality(A \ S)
    BY <1>5
  <2> DEFINE a == Cardinality(A)
             b == Cardinality(A \ S)
             g == Cardinality(A \cap S)
  <2>2. a \in Nat /\ g \in Nat /\ b = a - g
    BY <1>1, <1>6, <1>8
  <2>3. b + g = a
    <3> HIDE DEF a, b, g
    <3>1. QED
      BY <2>2
  <2>4. QED
    BY <1>9, <2>1, <2>3
<1>13. Cardinality(G) \in Nat
  BY <1>6, <1>9
<1>14. QED
  BY <1>1, <1>2, <1>10, <1>11, <1>13 DEF A, B, G

\* The answer to an update has one name.
LEMMA UpdateAnswer ==
    ASSUME ClientTypes, CallInv, NEW c \in Clients, Arrived(c, "update"),
           NEW n \in DOMAIN Answer(c).pointers
    PROVE  DOMAIN Answer(c).pointers = {n}
<1> DEFINE k == Answer(c).co
<1>1. replies[c] # <<>> /\ co[k].op = "update"
  BY DEF Arrived
<1>2. /\ k \in Coroutines /\ 1 \in DOMAIN replies[c] /\ Answer(c) = replies[c][1]
  BY <1>1, FirstAnswer
<1>3. Home[k] = c /\ c \notin gone
  BY <1>1, <1>2 DEF CallInv, MailInv
<1>4. ToldInv(k) /\ UpdateInv(k)
  BY <1>2, <1>3 DEF CallInv
<1>5. DOMAIN Answer(c).pointers \subseteq co[k].names
  BY <1>2, <1>3, <1>4 DEF ToldInv, Told
<1>6. PICK m \in Names : co[k].names = {m}
  BY <1>1, <1>4 DEF UpdateInv
<1>7. QED
  BY <1>5, <1>6

\* An update's answer, when it is done with: its reference goes to its confirmation.
LEMMA UpdateCounts ==
    ASSUME ServiceTypes, ClientTypes, CallInv, NEW c \in Clients, Arrived(c, "update"),
           NEW n \in DOMAIN Answer(c).pointers, replies'[c] = Tail(replies[c]),
           inbox' = Append(inbox, Confirm(Answer(c).pointers[n])), NEW q \in Ptr
    PROVE  /\ Cardinality(CarriedBy(replies'[c], q)) \in Nat /\ Cardinality(CarriedBy(replies[c], q)) \in Nat
           /\ Cardinality(Confirms(inbox', q)) \in Nat /\ Cardinality(Confirms(inbox, q)) \in Nat
           /\ (Cardinality(CarriedBy(replies'[c], q)) - Cardinality(CarriedBy(replies[c], q)))
              + (Cardinality(Confirms(inbox', q)) - Cardinality(Confirms(inbox, q))) = 0
           /\ q = Answer(c).pointers[n] => Cardinality(CarriedBy(replies[c], q)) > 0
<1> DEFINE p == Answer(c).pointers[n]
           r == replies[c]
           t == replies'[c]
           N == NamesFor(Head(r), q)
<1>1. /\ r \in Seq(ReplyMsg) /\ t \in Seq(ReplyMsg) /\ Answer(c) = Head(r) /\ r # <<>>
      /\ DOMAIN Answer(c).pointers \subseteq Names /\ n \in Names /\ p \in Ptr
  BY FirstAnswer DEF Arrived
<1>2. DOMAIN Head(r).pointers = {n}
  BY <1>1, UpdateAnswer
<1>3. N = IF p = q THEN {n} ELSE {}
  BY <1>1, <1>2 DEF NamesFor
<1>4. Cardinality(N) = IF p = q THEN 1 ELSE 0
  BY <1>3, FS_EmptySet, FS_Singleton
<1> HIDE DEF r, t, p
<1>5. Cardinality(CarriedBy(r, q)) = Cardinality(CarriedBy(t, q)) + Cardinality(N)
  <2>1. t = Tail(r)
    BY DEF r, t
  <2>2. QED
    BY <1>1, <2>1, CarriedTail
<1>6. /\ Cardinality(CarriedBy(t, q)) \in Nat /\ Cardinality(CarriedBy(r, q)) \in Nat
  BY <1>1, CarriedFinite
<1>7. /\ inbox \in Seq(Message) /\ inbox' \in Seq(Message)
      /\ Confirm(p) \in Message /\ Confirm(p).op = "confirm" /\ Confirm(p).pointer = p
      /\ inbox' = Append(inbox, Confirm(p))
  <2>1. inbox \in Seq(Message) /\ inbox' = Append(inbox, Confirm(p))
    BY DEF ServiceTypes, p
  <2>2. Confirm(p) \in Message /\ Confirm(p).op = "confirm" /\ Confirm(p).pointer = p
    BY <1>1, ConfirmMessage
  <2>3. QED
    BY <2>1, <2>2, AppendProperties
<1>8. Cardinality(Confirms(inbox', q)) = Cardinality(Confirms(inbox, q)) + (IF p = q THEN 1 ELSE 0)
  BY <1>7, ConfirmAppend
<1>9. Cardinality(Confirms(inbox', q)) \in Nat /\ Cardinality(Confirms(inbox, q)) \in Nat
  BY <1>7, ConfirmsFinite
<1> HIDE DEF N
<1>10. (Cardinality(CarriedBy(t, q)) - Cardinality(CarriedBy(r, q)))
              + (Cardinality(Confirms(inbox', q)) - Cardinality(Confirms(inbox, q))) = 0
  BY <1>4, <1>5, <1>6, <1>8, <1>9
<1>11. q = p => Cardinality(CarriedBy(r, q)) > 0
  BY <1>4, <1>5, <1>6
<1>12. QED
  BY <1>6, <1>9, <1>10, <1>11 DEF r, t, p

\* The views of a client that an update moves.
LEMMA MoveStep ==
    ASSUME ClientTypes, ViewInv, NEW c \in Clients, NEW S \in SUBSET View, NEW p \in Ptr,
           \A v \in S : views[c][v].root # "gone",
           MoveViews(c, S, p)
    PROVE  /\ views' \in [Clients -> [View -> ViewRec]] /\ ViewInv'
           /\ \A e \in Clients \ {c} : views'[e] = views[e] /\ dead'[e] = dead[e]
           /\ \A v \in View : /\ views'[c][v].doc = views[c][v].doc
                              /\ views'[c][v].pending = IF v \in S THEN p ELSE views[c][v].pending
           /\ dead' \in [Clients -> [Ptr -> Nat]]
           /\ \A q \in Ptr : dead'[c][q] = dead[c][q] + Cardinality(Garbage(views[c], S, q))
<1>1. /\ views \in [Clients -> [View -> ViewRec]] /\ dead \in [Clients -> [Ptr -> Nat]]
  BY DEF ClientTypes
<1> DEFINE Moved(v) == [views[c][v] EXCEPT !.pointer = p, !.pending = p]
<1>2. /\ views'[c] = [v \in View |-> IF v \in S THEN Moved(v) ELSE views[c][v]]
      /\ \A e \in Clients \ {c} : views'[e] = views[e]
      /\ DOMAIN views' = Clients /\ views' = [e \in Clients |-> views'[e]]
  BY <1>1 DEF MoveViews
<1>3. ASSUME NEW v \in View
      PROVE  /\ Moved(v) \in ViewRec /\ Moved(v).doc = views[c][v].doc /\ Moved(v).pending = p
             /\ Moved(v).name = views[c][v].name /\ Moved(v).pointer = p
  <2> DEFINE w == views[c][v]
  <2>1. w \in ViewRec
    BY <1>1
  <2> HIDE DEF w
  <2>2. LET x == [w EXCEPT !.pointer = p, !.pending = p]
        IN  x \in ViewRec /\ x.doc = w.doc /\ x.pending = p /\ x.name = w.name /\ x.pointer = p
    BY <2>1 DEF ViewRec
  <2>3. QED
    BY <2>2 DEF w
<1> HIDE DEF Moved
<1>4. views' \in [Clients -> [View -> ViewRec]]
  <2>1. views'[c] \in [View -> ViewRec]
    BY <1>1, <1>2, <1>3
  <2>2. \A e \in Clients : views'[e] \in [View -> ViewRec]
    BY <1>1, <1>2, <2>1
  <2>3. QED
    BY <1>2, <2>2
<1>5. \A v \in View : /\ views'[c][v].doc = views[c][v].doc
                      /\ views'[c][v].pending = IF v \in S THEN p ELSE views[c][v].pending
  BY <1>2, <1>3
<1>6. ViewInv'
  <2>1. ASSUME NEW e \in Clients, NEW v \in View, views'[e][v] # NoView
        PROVE  views'[e][v].name # Nil /\ views'[e][v].pointer # Nil /\ views'[e][v].doc # Nil
    <3>1. CASE e = c /\ v \in S
      <4>1. views[c][v].name # Nil /\ views[c][v].doc # Nil
        BY <3>1, ProxyView
      <4>2. views'[c][v] = Moved(v)
        BY <1>2, <3>1
      <4>3. QED
        BY <1>3, <3>1, <4>1, <4>2, ShareTableAssumption
    <3>2. CASE ~(e = c /\ v \in S)
      <4>1. views'[e][v] = views[e][v]
        BY <1>2, <3>2
      <4>2. QED
        BY <2>1, <4>1 DEF ViewInv
    <3>3. QED
      BY <3>1, <3>2
  <2>2. QED
    BY <2>1 DEF ViewInv
<1>7. ASSUME NEW q \in Ptr PROVE Cardinality(Garbage(views[c], S, q)) \in Nat
  <2>1. Garbage(views[c], S, q) \subseteq View
    BY DEF Garbage
  <2>2. QED
    BY <2>1, ViewFinite, FS_Subset, FS_CardinalityType
<1> DEFINE G(q) == Cardinality(Garbage(views[c], S, q))
<1>8. /\ dead'[c] = [q \in Ptr |-> dead[c][q] + G(q)] /\ \A e \in Clients \ {c} : dead'[e] = dead[e]
      /\ dead' = [e \in Clients |-> dead'[e]]
  BY <1>1 DEF MoveViews, Garbage
<1>9. \A q \in Ptr : G(q) \in Nat
  BY <1>7
<1>10. /\ dead' \in [Clients -> [Ptr -> Nat]] /\ \A q \in Ptr : dead'[c][q] = dead[c][q] + G(q)
  <2> HIDE DEF G
  <2>1. dead'[c] \in [Ptr -> Nat] /\ \A q \in Ptr : dead'[c][q] = dead[c][q] + G(q)
    BY <1>1, <1>8, <1>9
  <2>2. \A e \in Clients : dead'[e] \in [Ptr -> Nat]
    BY <1>1, <1>8, <2>1
  <2>3. QED
    BY <1>8, <2>1, <2>2
<1>11. QED
  BY <1>2, <1>4, <1>5, <1>6, <1>8, <1>10

\* An update moves the views it has to.
LEMMA UpdateStep ==
    ASSUME IInv, NEW c \in Clients, Update(c)
    PROVE  IInv'
<1>1. /\ ServiceTypes /\ ClientTypes /\ MessageInv /\ ViewInv /\ CallInv /\ RefInv /\ ReachInv
  BY DEF IInv
<1>2. /\ replies[c] # <<>> /\ Arrived(c, "update") /\ Resume(c)
      /\ UNCHANGED <<files, retired, todo, doomed, owed, loads>>
      /\ UNCHANGED <<cache, roots, gone, lost>>
  BY DEF Update, Arrived, service
<1>3. PICK n \in DOMAIN Answer(c).pointers :
         /\ MoveViews(c, Stale(c, n, Answer(c).pointers[n]), Answer(c).pointers[n])
         /\ inbox' = Append(inbox, Confirm(Answer(c).pointers[n]))
  BY DEF Update
<1> DEFINE p == Answer(c).pointers[n]
           S == Stale(c, n, p)
<1>4. n \in Names /\ p \in Ptr /\ p # Nil
  BY <1>1, <1>2, FirstAnswer, ShareTableAssumption
<1>5. S \in SUBSET View /\ \A v \in S : views[c][v].root # "gone"
  BY DEF Stale, Listed
<1>6. Cardinality(S) \in Nat
  BY <1>5, ViewFinite, FS_Subset, FS_CardinalityType
<1>7. /\ MoveViews(c, S, p) /\ inbox' = Append(inbox, Confirm(p))
  BY <1>3
<1>8. /\ replies' \in [Clients -> Seq(ReplyMsg)] /\ replies'[c] = Tail(replies[c])
      /\ \A e \in Clients \ {c} : replies'[e] = replies[e]
      /\ co' \in [Coroutines -> Waiting]
  BY <1>1, <1>2, ResumeStep
<1>9. \A q \in Ptr :
         LET R == Cardinality(CarriedBy(replies[c], q))
             R1 == Cardinality(CarriedBy(replies'[c], q))
             C == Cardinality(Confirms(inbox, q))
             C1 == Cardinality(Confirms(inbox', q))
         IN  R \in Nat /\ R1 \in Nat /\ C \in Nat /\ C1 \in Nat
             /\ (R1 - R) + (C1 - C) = 0 /\ (q = p => R > 0)
  BY <1>1, <1>2, <1>3, <1>8, UpdateCounts
<1> HIDE DEF p, S
<1>10. /\ views' \in [Clients -> [View -> ViewRec]] /\ ViewInv'
       /\ \A e \in Clients \ {c} : views'[e] = views[e] /\ dead'[e] = dead[e]
       /\ \A v \in View : /\ views'[c][v].doc = views[c][v].doc
                          /\ views'[c][v].pending = IF v \in S THEN p ELSE views[c][v].pending
       /\ dead' \in [Clients -> [Ptr -> Nat]]
       /\ \A q \in Ptr : dead'[c][q] = dead[c][q] + Cardinality(Garbage(views[c], S, q))
  BY <1>1, <1>4, <1>5, <1>7, MoveStep
<1>11. /\ heap' \in [Ptr -> Graph]
       /\ \A q \in Ptr : /\ heap'[q].live = heap[q].live /\ heap[q].ref \in Int
                         /\ q = p => heap'[q].ref = heap[q].ref + Cardinality(S)
                         /\ q # p => heap'[q].ref = heap[q].ref + 0
  <2> DEFINE y == heap[p].ref + Cardinality(S)
  <2>1. heap' = [heap EXCEPT ![p].ref = y]
    BY <1>7 DEF MoveViews, IncRef
  <2>2. y \in Int
    BY <1>1, <1>4, <1>6, GraphFields DEF ServiceTypes
  <2>3. /\ heap' \in [Ptr -> Graph] /\ heap'[p].ref = y
        /\ \A q \in Ptr : /\ heap'[q].live = heap[q].live /\ heap[q].ref \in Int
                          /\ q # p => heap'[q].ref = heap[q].ref
    <3> HIDE DEF y
    <3>1. QED
      BY <1>1, <1>4, <2>1, <2>2, HeapOne
  <2>4. QED
    BY <2>3
<1>12. /\ Confirm(p) \in Message /\ Confirm(p).op = "confirm" /\ Confirm(p).pointer = p
  BY <1>4, ConfirmMessage
<1>13. inbox' \in Seq(Message)
  BY <1>1, <1>7, <1>12, NewMessage
<1>14. ServiceTypes' /\ ClientTypes'
  BY <1>1, <1>2, <1>8, <1>10, <1>11, <1>13 DEF ServiceTypes, ClientTypes
<1>15. MessageInv'
  BY <1>1, <1>4, <1>7, <1>12, MessageAdded
<1>16. CallInv'
  <2>1. NoNewCall
    BY <1>1, <1>4, <1>7, ConfirmIsNoCall
  <2>2. QED
    BY <1>1, <1>2, <2>1, ResumeCall
<1>17. ASSUME NEW q \in Ptr PROVE RefAt(q)'
  <2> DEFINE D == Cardinality(DocsOf(views[c], q))
             P == Cardinality(PendingOf(views[c], q))
             P1 == Cardinality(PendingOf(views'[c], q))
             R == Cardinality(CarriedBy(replies[c], q))
             R1 == Cardinality(CarriedBy(replies'[c], q))
             C == Cardinality(Confirms(inbox, q))
             C1 == Cardinality(Confirms(inbox', q))
             G == Cardinality(Garbage(views[c], S, q))
             N == Cardinality(S)
  <2>1. DocsOf(views'[c], q) = DocsOf(views[c], q)
    BY <1>10 DEF DocsOf
  <2>2. /\ Refs(q) \in Nat /\ Refs(q)' \in Nat
        /\ Refs(q)' = Refs(q) + (dead'[c][q] - dead[c][q])
                + (Cardinality(DocsOf(views'[c], q)) - D) + (P1 - P) + (R1 - R) + (C1 - C)
        /\ Refs(q) >= R
    BY <1>1, <1>2, <1>8, <1>10, <1>14, RefsClient
  <2>3. Refs(q)' = Refs(q) + (dead'[c][q] - dead[c][q]) + (D - D) + (P1 - P) + (R1 - R) + (C1 - C)
    BY <2>1, <2>2
  <2>4. /\ R \in Nat /\ R1 \in Nat /\ C \in Nat /\ C1 \in Nat /\ (R1 - R) + (C1 - C) = 0
        /\ q = p => R > 0
    BY <1>9
  <2>5. /\ P \in Nat /\ P1 \in Nat /\ G \in Nat /\ N \in Nat
        /\ q = p => P1 + G = P + N
        /\ q # p => P1 + G = P
    <3> DEFINE a == views[c]
               b == views'[c]
    <3>1. Moves(a, b, S, p)
      BY <1>5, <1>10 DEF Moves
    <3> HIDE DEF a, b
    <3>2. /\ Cardinality(PendingOf(b, q)) \in Nat /\ Cardinality(PendingOf(a, q)) \in Nat
          /\ Cardinality(Garbage(a, S, q)) \in Nat /\ Cardinality(S) \in Nat
          /\ q = p => Cardinality(PendingOf(b, q)) + Cardinality(Garbage(a, S, q))
                          = Cardinality(PendingOf(a, q)) + Cardinality(S)
          /\ q # p => Cardinality(PendingOf(b, q)) + Cardinality(Garbage(a, S, q))
                          = Cardinality(PendingOf(a, q))
      BY <3>1, MovedBoxes
    <3>3. QED
      BY <3>2 DEF a, b
  <2>6. dead[c][q] \in Nat /\ dead'[c][q] = dead[c][q] + G /\ D \in Nat
    BY <1>1, <1>10, BoxesFinite DEF ClientTypes
  <2> HIDE DEF D, P, P1, R, R1, C, C1, G
  <2>7. CASE q = p
    <3>1. heap'[q].ref = heap[q].ref + N /\ N \in Int
      BY <1>11, <2>5, <2>7
    <3> HIDE DEF N
    <3>2. P1 + G = P + N /\ (R1 - R) + (C1 - C) = 0 /\ dead'[c][q] - dead[c][q] = G /\ D - D = 0
      BY <2>4, <2>5, <2>6, <2>7
    <3>3. Refs(q)' = Refs(q) + N
      BY <2>2, <2>3, <2>4, <2>5, <2>6, <3>2
    <3>4. Refs(q) > 0
      BY <2>2, <2>4, <2>7
    <3>5. QED
      BY <1>1, <1>2, <1>11, <2>2, <3>1, <3>3, <3>4, Balance
  <2>8. CASE q # p
    <3> HIDE DEF N
    <3>1. P1 + G = P /\ (R1 - R) + (C1 - C) = 0 /\ dead'[c][q] - dead[c][q] = G /\ D - D = 0
      BY <2>4, <2>5, <2>6, <2>8
    <3>2. Refs(q)' = Refs(q) + 0
      BY <2>2, <2>3, <2>4, <2>5, <2>6, <3>1
    <3>3. QED
      BY <1>1, <1>2, <1>11, <2>2, <2>8, <3>2, Balance
  <2>9. QED
    BY <2>7, <2>8
<1>18. RefInv'
  BY <1>17 DEF RefInv
<1>19. ReachInv'
  BY <1>1, <1>2, <1>11, ReachKept
<1>20. QED
  BY <1>10, <1>14, <1>15, <1>16, <1>18, <1>19 DEF IInv

\* A mailbox without answers, and views without graphs, hold nothing.
LEMMA HoldNothing ==
    ASSUME NEW d, NEW w, NEW p \in Ptr, d[p] = 0, \A v \in View : w[v] = NoView
    PROVE  Hold(d, w, <<>>, p) = 0
<1>1. NoView.doc = Nil /\ NoView.pending = Nil
  BY DEF NoView
<1>2. DocsOf(w, p) = {} /\ PendingOf(w, p) = {}
  BY <1>1, ShareTableAssumption DEF DocsOf, PendingOf
<1>3. CarriedBy(<<>>, p) = {}
  BY DEF CarriedBy
<1>4. /\ Cardinality(DocsOf(w, p)) = 0 /\ Cardinality(PendingOf(w, p)) = 0
      /\ Cardinality(CarriedBy(<<>>, p)) = 0
  BY <1>2, <1>3, FS_EmptySet
<1>5. QED
  BY <1>4 DEF Hold

\* An empty slot.
LEMMA NoViewType == NoView \in ViewRec
BY DEF NoView, ViewRec

\* Calls under way when a client exits.
LEMMA ExitCall ==
    ASSUME CallInv, NEW c \in Clients, gone' = gone \cup {c}, ClientTypes,
           replies' = [replies EXCEPT ![c] = <<>>],
           co' = [k \in Coroutines |-> IF Home[k] = c THEN Idle ELSE co[k]],
           UNCHANGED <<inbox, owed>>
    PROVE  CallInv'
<1>1. replies'[c] = <<>> /\ \A e \in Clients \ {c} : replies'[e] = replies[e]
  BY DEF ClientTypes
<1>2. ASSUME NEW k \in Coroutines, Home[k] \notin gone'
      PROVE  AskInv(k)' /\ OwedInv(k)' /\ ToldInv(k)' /\ UpdateInv(k)'
  <2>1. Home[k] \notin gone /\ Home[k] # c /\ co'[k] = co[k] /\ replies'[Home[k]] = replies[Home[k]]
    BY <1>1, <1>2, ShareTableAssumption
  <2>2. AskInv(k) /\ OwedInv(k) /\ ToldInv(k) /\ UpdateInv(k)
    BY <2>1 DEF CallInv
  <2>3. AskInv(k)'
    BY <2>1, <2>2 DEF AskInv, Asks, Told
  <2>4. OwedInv(k)' /\ ToldInv(k)' /\ UpdateInv(k)'
    BY <2>1, <2>2 DEF OwedInv, ToldInv, UpdateInv, Told
  <2>5. QED
    BY <2>3, <2>4
<1>3. MailInv'
  <2>1. \A e \in gone' : replies'[e] = <<>>
    BY <1>1 DEF CallInv, MailInv, ClientTypes
  <2>2. ASSUME NEW e \in Clients, NEW j \in DOMAIN replies'[e] PROVE Home[replies'[e][j].co] = e
    <3>1. e # c
      BY <1>1, <2>2, EmptyAnswer
    <3>2. QED
      BY <1>1, <2>2, <3>1 DEF CallInv, MailInv
  <2>3. QED
    BY <2>1, <2>2 DEF MailInv
<1>4. QED
  BY <1>2, <1>3 DEF CallInv

\* A client exits: its boxes are finalised, what its mailbox carried is lost.
LEMMA ExitStep ==
    ASSUME IInv, NEW c \in Clients, Exit(c)
    PROVE  IInv'
<1>1. /\ ServiceTypes /\ ClientTypes /\ MessageInv /\ ViewInv /\ CallInv /\ RefInv /\ ReachInv
  BY DEF IInv
<1>2. /\ gone' = gone \cup {c}
      /\ heap' = [p \in Ptr |-> [heap[p] EXCEPT !.ref = heap[p].ref - Boxes(c, p)]]
      /\ lost' = [p \in Ptr |-> lost[p] + Carried(c, p)]
      /\ replies' = [replies EXCEPT ![c] = <<>>]
      /\ views' = [views EXCEPT ![c] = [v \in View |-> NoView]]
      /\ cache' = [cache EXCEPT ![c] = [n \in Names |-> Nil]]
      /\ roots' = [roots EXCEPT ![c] = {}]
      /\ dead' = [dead EXCEPT ![c] = [p \in Ptr |-> 0]]
      /\ co' = [k \in Coroutines |-> IF Home[k] = c THEN Idle ELSE co[k]]
      /\ UNCHANGED <<files, retired, todo, doomed, owed, loads, inbox>>
  BY DEF Exit, service
<1>3. /\ replies \in [Clients -> Seq(ReplyMsg)] /\ co \in [Coroutines -> Waiting]
      /\ views \in [Clients -> [View -> ViewRec]] /\ dead \in [Clients -> [Ptr -> Nat]]
      /\ cache \in [Clients -> [Names -> View \cup {Nil}]] /\ roots \in [Clients -> SUBSET Names]
      /\ gone \subseteq Clients /\ heap \in [Ptr -> Graph] /\ lost \in [Ptr -> Nat]
      /\ inbox \in Seq(Message)
  BY <1>1 DEF ClientTypes, ServiceTypes
<1>4. ASSUME NEW p \in Ptr
      PROVE  /\ Boxes(c, p) \in Nat /\ Carried(c, p) \in Nat
             /\ Hold(dead[c], views[c], replies[c], p) = Boxes(c, p) + Carried(c, p)
  <2> DEFINE d == dead[c][p]
             D == Cardinality(DocsOf(views[c], p))
             P == Cardinality(PendingOf(views[c], p))
             R == Cardinality(CarriedBy(replies[c], p))
  <2>1. d \in Nat /\ D \in Nat /\ P \in Nat /\ R \in Nat
    BY <1>3, BoxesFinite, CarriedFinite
  <2>2. Boxes(c, p) = d + D + P
    BY DEF Boxes, DocsOf, PendingOf
  <2>3. Carried(c, p) = R
    BY DEF Carried, CarriedBy
  <2>4. Hold(dead[c], views[c], replies[c], p) = d + D + P + R
    BY DEF Hold
  <2> HIDE DEF d, D, P, R
  <2>5. QED
    BY <2>1, <2>2, <2>3, <2>4
<1>5. /\ replies' \in [Clients -> Seq(ReplyMsg)] /\ replies'[c] = <<>>
      /\ \A e \in Clients \ {c} : replies'[e] = replies[e]
  <2>1. <<>> \in Seq(ReplyMsg)
    OBVIOUS
  <2>2. QED
    BY <1>2, <1>3, <2>1
<1>6. /\ views' \in [Clients -> [View -> ViewRec]] /\ \A v \in View : views'[c][v] = NoView
      /\ \A e \in Clients \ {c} : views'[e] = views[e]
  <2>1. [v \in View |-> NoView] \in [View -> ViewRec]
    BY NoViewType
  <2>2. QED
    BY <1>2, <1>3, <2>1
<1>7. /\ dead' \in [Clients -> [Ptr -> Nat]] /\ \A p \in Ptr : dead'[c][p] = 0
      /\ \A e \in Clients \ {c} : dead'[e] = dead[e]
  BY <1>2, <1>3
<1>8. /\ cache' \in [Clients -> [Names -> View \cup {Nil}]] /\ roots' \in [Clients -> SUBSET Names]
      /\ gone' \subseteq Clients
  BY <1>2, <1>3
<1>9. co' \in [Coroutines -> Waiting]
  <2>1. Idle \in Waiting
    BY DEF Idle, Waiting
  <2>2. QED
    BY <1>2, <1>3, <2>1
<1>10. /\ heap' \in [Ptr -> Graph]
       /\ \A p \in Ptr : /\ heap'[p].live = heap[p].live /\ heap[p].ref \in Int
                         /\ heap'[p].ref = heap[p].ref - Boxes(c, p)
  <2>1. ASSUME NEW p \in Ptr
        PROVE  /\ heap'[p] \in Graph /\ heap'[p].live = heap[p].live /\ heap[p].ref \in Int
               /\ heap'[p].ref = heap[p].ref - Boxes(c, p)
    <3> DEFINE g == heap[p]
               x == heap[p].ref - Boxes(c, p)
    <3>1. g \in Graph /\ heap'[p] = [g EXCEPT !.ref = x]
      BY <1>2, <1>3
    <3>2. g.ref \in Int /\ x \in Int
      BY <1>4, <3>1, GraphFields
    <3> HIDE DEF g, x
    <3>3. LET y == [g EXCEPT !.ref = x] IN y \in Graph /\ y.live = g.live /\ y.ref = x
      BY <3>1, <3>2 DEF Graph
    <3>4. QED
      BY <3>1, <3>2, <3>3 DEF g, x
  <2>2. QED
    BY <1>2, <2>1
<1>11. lost' \in [Ptr -> Nat] /\ \A p \in Ptr : lost'[p] = lost[p] + Carried(c, p)
  BY <1>2, <1>3, <1>4
<1>12. ServiceTypes' /\ ClientTypes'
  BY <1>1, <1>2, <1>5, <1>6, <1>7, <1>8, <1>9, <1>10, <1>11 DEF ServiceTypes, ClientTypes
<1>13. MessageInv'
  BY <1>1, <1>2 DEF MessageInv
<1>14. ViewInv'
  BY <1>1, <1>6 DEF ViewInv
<1>15. CallInv'
  BY <1>1, <1>2, ExitCall
<1>16. ASSUME NEW p \in Ptr PROVE RefAt(p)'
  <2> DEFINE F == Cardinality(OwnersOf(files, p))
             C == Cardinality(Confirms(inbox, p))
             H == Hold(dead[c], views[c], replies[c], p)
             H1 == Hold(dead'[c], views'[c], replies'[c], p)
  <2>1. Counted /\ Counted'
    BY <1>1, <1>12, CountedTypes, CountedTypesNext
  <2>2. /\ Refs(p) \in Nat /\ Refs(p)' \in Nat
        /\ Refs(p)' = Refs(p) + (Cardinality(OwnersOf(files', p)) - F) + (H1 - H)
                 + (Cardinality(Confirms(inbox', p)) - C) + (lost'[p] - lost[p])
    BY <1>5, <1>6, <1>7, <2>1, RefsOne
  <2>3. Refs(p)' = Refs(p) + (F - F) + (H1 - H) + (C - C) + (lost'[p] - lost[p])
    BY <1>2, <2>2
  <2>4. F \in Nat /\ C \in Nat /\ lost[p] \in Nat /\ lost'[p] = lost[p] + Carried(c, p)
    BY <1>3, <1>11, OwnersFinite, ConfirmsFinite
  <2>5. H1 = 0
    <3> DEFINE d == dead'[c]
               w == views'[c]
    <3>1. d[p] = 0 /\ \A v \in View : w[v] = NoView
      BY <1>6, <1>7
    <3> HIDE DEF d, w
    <3>2. Hold(d, w, <<>>, p) = 0
      BY <3>1, HoldNothing
    <3>3. QED
      BY <1>5, <3>2 DEF d, w
  <2>6. H = Boxes(c, p) + Carried(c, p) /\ Boxes(c, p) \in Nat /\ Carried(c, p) \in Nat
    BY <1>4
  <2> DEFINE b == 0 - Boxes(c, p)
  <2> HIDE DEF F, C, H, H1
  <2>7. Refs(p)' = Refs(p) + b /\ b \in Int /\ ~(b > 0) /\ heap'[p].ref = heap[p].ref + b
    BY <1>10, <2>2, <2>3, <2>4, <2>5, <2>6
  <2> HIDE DEF b
  <2>8. QED
    BY <1>1, <1>2, <1>10, <2>2, <2>7, Balance
<1>17. RefInv'
  BY <1>16 DEF RefInv
<1>18. ReachInv'
  BY <1>1, <1>2, <1>10, ReachKept
<1>19. QED
  BY <1>12, <1>13, <1>14, <1>15, <1>17, <1>18 DEF IInv

-----------------------------------------------------------------------------
(* The theorems *)

\* Initially nobody holds a reference.
LEMMA InitInv == Init => IInv
<1> SUFFICES ASSUME Init PROVE IInv
  OBVIOUS
<1>1. /\ files = [n \in Names |-> Nil]
      /\ retired = {} /\ todo = {} /\ doomed = Nil /\ owed = Nil
      /\ heap = [p \in Ptr |-> NoGraph]
      /\ loads = 0
      /\ inbox = <<>>
      /\ replies = [c \in Clients |-> <<>>]
      /\ co = [k \in Coroutines |-> Idle]
      /\ views = [c \in Clients |-> [v \in View |-> NoView]]
      /\ cache = [c \in Clients |-> [n \in Names |-> Nil]]
      /\ roots = [c \in Clients |-> {}]
      /\ dead = [c \in Clients |-> [p \in Ptr |-> 0]]
      /\ gone = {}
      /\ lost = [p \in Ptr |-> 0]
  BY DEF Init
<1>2. NoGraph \in Graph /\ NoGraph.ref = 0 /\ ~NoGraph.live
  BY ShareTableAssumption DEF NoGraph, Graph
<1>3. ServiceTypes
  <2>1. loads \in 0 .. LOADS /\ inbox \in Seq(Message)
    BY <1>1, ShareTableAssumption
  <2>2. heap \in [Ptr -> Graph] /\ lost \in [Ptr -> Nat] /\ files \in [Names -> Ptr \cup {Nil}]
    BY <1>1, <1>2
  <2>3. QED
    BY <1>1, <2>1, <2>2 DEF ServiceTypes
<1>4. ClientTypes
  <2>1. Idle \in Waiting
    BY DEF Idle, Waiting
  <2>2. <<>> \in Seq(ReplyMsg)
    OBVIOUS
  <2>3. co \in [Coroutines -> Waiting] /\ replies \in [Clients -> Seq(ReplyMsg)]
    BY <1>1, <2>1, <2>2
  <2>4. views \in [Clients -> [View -> ViewRec]]
    BY <1>1, NoViewType
  <2>5. /\ cache \in [Clients -> [Names -> View \cup {Nil}]] /\ roots \in [Clients -> SUBSET Names]
        /\ dead \in [Clients -> [Ptr -> Nat]]
    BY <1>1
  <2>6. QED
    BY <1>1, <2>3, <2>4, <2>5 DEF ClientTypes
<1>5. MessageInv /\ ViewInv
  BY <1>1, EmptyAnswer DEF MessageInv, ViewInv
<1>6. CallInv
  <2>1. ASSUME NEW k \in Coroutines PROVE AskInv(k) /\ OwedInv(k) /\ ToldInv(k) /\ UpdateInv(k)
    <3>1. Home[k] \in Clients /\ replies[Home[k]] = <<>> /\ co[k].op = "none" /\ owed # k
      BY <1>1, ShareTableAssumption DEF Idle
    <3>2. AskInv(k) /\ ToldInv(k)
      BY <1>1, <3>1, EmptyAnswer DEF AskInv, ToldInv
    <3>3. OwedInv(k) /\ UpdateInv(k)
      BY <3>1 DEF OwedInv, UpdateInv
    <3>4. QED
      BY <3>2, <3>3
  <2>2. MailInv
    BY <1>1, EmptyAnswer DEF MailInv
  <2>3. QED
    BY <2>1, <2>2 DEF CallInv
<1>7. ASSUME NEW p \in Ptr PROVE Refs(p) = 0
  <2> DEFINE f == [c \in Clients |-> Hold(dead[c], views[c], replies[c], p)]
  <2>1. OwnersOf(files, p) = {} /\ Confirms(inbox, p) = {}
    BY <1>1, ShareTableAssumption DEF OwnersOf, Confirms
  <2>2. Cardinality(OwnersOf(files, p)) = 0 /\ Cardinality(Confirms(inbox, p)) = 0 /\ lost[p] = 0
    BY <1>1, <2>1, FS_EmptySet
  <2>3. \A c \in Clients : Hold(dead[c], views[c], replies[c], p) = 0
    <3>1. ASSUME NEW c \in Clients PROVE Hold(dead[c], views[c], replies[c], p) = 0
      <4> DEFINE d == dead[c]
                 w == views[c]
      <4>1. d[p] = 0 /\ (\A v \in View : w[v] = NoView) /\ replies[c] = <<>>
        BY <1>1
      <4> HIDE DEF d, w
      <4>2. Hold(d, w, <<>>, p) = 0
        BY <4>1, HoldNothing
      <4>3. QED
        BY <4>1, <4>2 DEF d, w
    <3>2. QED
      BY <3>1
  <2>4. f \in [Clients -> Nat] /\ \A c \in Clients : f[c] = 0
    BY <2>3
  <2>5. Refs(p) = Cardinality(OwnersOf(files, p)) + Sum(f) + Cardinality(Confirms(inbox, p)) + lost[p]
    BY RefsAre
  <2> HIDE DEF f
  <2>6. Spread(f) = {}
    BY <2>4, SpreadDef
  <2>7. Sum(f) = 0
    BY <2>6, FS_EmptySet DEF Sum, Spread
  <2>8. QED
    BY <2>2, <2>5, <2>7
<1>8. RefInv
  BY <1>1, <1>2, <1>7 DEF RefInv, RefAt
<1>9. ReachInv
  BY <1>1, <1>2, ShareTableAssumption DEF ReachInv, NoGraphForgotten
<1>10. QED
  BY <1>3, <1>4, <1>5, <1>6, <1>8, <1>9 DEF IInv

\* The invariant when nothing changes.
LEMMA StutterInv ==
    ASSUME IInv, UNCHANGED vars
    PROVE  IInv'
<1>1. /\ UNCHANGED <<files, retired, todo, doomed, owed, loads>>
      /\ UNCHANGED <<views, cache, roots, dead, gone>>
      /\ UNCHANGED <<heap, inbox, replies, co, lost>>
  BY DEF vars, service, client
<1>2. /\ ServiceTypes /\ ClientTypes /\ MessageInv /\ ViewInv /\ CallInv /\ RefInv /\ ReachInv
  BY DEF IInv
<1>3. ServiceTypes' /\ ClientTypes'
  BY <1>1, <1>2 DEF ServiceTypes, ClientTypes
<1>4. MessageInv' /\ ViewInv'
  BY <1>1, <1>2 DEF MessageInv, ViewInv
<1>5. CallInv'
  BY <1>1, <1>2, CallKept
<1>6. RefInv'
  <2>1. ASSUME NEW p \in Ptr PROVE RefAt(p)'
    <3>1. Refs(p)' = Refs(p)
      BY <1>1, RefsKept
    <3>2. QED
      BY <1>1, <1>2, <3>1 DEF RefInv, RefAt
  <2>2. QED
    BY <2>1 DEF RefInv
<1>7. ReachInv'
  BY <1>1, <1>2, ReachKept
<1>8. QED
  BY <1>3, <1>4, <1>5, <1>6, <1>7 DEF IInv

\* Every step keeps the invariant.
LEMMA NextInv == IInv /\ [Next]_vars => IInv'
<1> SUFFICES ASSUME IInv, [Next]_vars PROVE IInv'
  OBVIOUS
<1>1. CASE Service
  BY <1>1, ServeLoadStep, ServeLoadErrorStep, ServeQueryStep, ServeConfirmStep,
     CollectCheckStep, CollectDeleteStep, AnswerLoadStep DEF Service
<1>2. ASSUME NEW k \in Coroutines, CallLoad(k) PROVE IInv'
  <2>1. PICK n \in Names : Call(k, "load", <<n>>)
    BY <1>2 DEF CallLoad
  <2>2. UNCHANGED <<service, client, heap, replies, lost>>
    BY <1>2 DEF CallLoad
  <2>3. <<n>> \in Seq(Names)
    BY SingleName
  <2>4. QED
    BY <2>1, <2>2, <2>3, CallStep
<1>3. ASSUME NEW k \in Coroutines, CallQuery(k) PROVE IInv'
  <2>1. PICK list \in Lists : Call(k, "query", list)
    BY <1>3 DEF CallQuery
  <2>2. UNCHANGED <<service, client, heap, replies, lost>>
    BY <1>3 DEF CallQuery
  <2>3. list \in Seq(Names)
    BY ShareTableAssumption
  <2>4. QED
    BY <2>1, <2>2, <2>3, CallStep
<1>4. ASSUME NEW k \in Coroutines, CallUpdate(k) PROVE IInv'
  <2>1. PICK n \in roots[Home[k]] : Call(k, "update", <<n>>)
    BY <1>4 DEF CallUpdate
  <2>2. UNCHANGED <<service, client, heap, replies, lost>>
    BY <1>4 DEF CallUpdate
  <2>3. n \in Names
    BY <2>1, ShareTableAssumption DEF IInv, ClientTypes
  <2>4. <<n>> \in Seq(Names) /\ \E m \in Names : NamesOf(<<n>>) = {m}
    BY <2>3, SingleName
  <2>5. QED
    BY <2>1, <2>2, <2>4, CallStep
<1>5. ASSUME NEW c \in Clients, Receive(c) \/ Finalise(c) \/ Exit(c) PROVE IInv'
  BY <1>5, ReturnStep, BoxCachedStep, BoxNewStep, UpdateStep, FinaliseStep, ExitStep DEF Receive
<1>6. ASSUME NEW c \in Clients, NEW v \in View,
             Access(c, v) \/ Nest(c, v) \/ DropNested(c, v) \/ DropRoot(c, v)
                 \/ CollectRoot(c, v) \/ CollectView(c, v)
      PROVE  IInv'
  BY <1>6, AccessStep, NestStep, DropNestedStep, DropRootStep, CollectRootStep, CollectViewStep
<1>7. CASE UNCHANGED vars
  BY <1>7, StutterInv
<1>8. QED
  BY <1>1, <1>2, <1>3, <1>4, <1>5, <1>6, <1>7 DEF Next

\* The invariant holds in every reachable state.
LEMMA Invariance == Spec => []IInv
<1>1. Init => IInv
  BY InitInv
<1>2. IInv /\ [Next]_vars => IInv'
  BY NextInv
<1>3. QED
  BY <1>1, <1>2, PTL DEF Spec

\* Every variable has its type, and no count goes below 0: a reference is given back at
\* most once, by the finaliser or by the confirmation it belongs to.
THEOREM TypeCorrect == Spec => []TypeOK
<1>1. ASSUME IInv PROVE TypeOK
  <2>1. ServiceTypes /\ ClientTypes /\ RefInv
    BY <1>1 DEF IInv
  <2>2. heap \in [Ptr -> [live : BOOLEAN, ref : Nat, dirty : BOOLEAN, version : 0 .. LOADS]]
    <3>1. ASSUME NEW p \in Ptr
          PROVE  heap[p] \in [live : BOOLEAN, ref : Nat, dirty : BOOLEAN, version : 0 .. LOADS]
      <4> DEFINE g == heap[p]
      <4>1. g \in Graph
        BY <2>1 DEF ServiceTypes
      <4>2. g.ref \in Nat
        <5>1. Refs(p) \in Nat
          BY <2>1, RefsNat
        <5>2. CASE g.live
          BY <2>1, <5>1, <5>2 DEF RefInv, RefAt
        <5>3. CASE ~g.live
          BY <2>1, <5>3 DEF RefInv, RefAt
        <5>4. QED
          BY <5>2, <5>3
      <4> HIDE DEF g
      <4>3. g \in [live : BOOLEAN, ref : Nat, dirty : BOOLEAN, version : 0 .. LOADS]
        BY <4>1, <4>2 DEF Graph
      <4>4. QED
        BY <4>3 DEF g
    <3>2. QED
      BY <2>1, <3>1 DEF ServiceTypes
  <2>3. ASSUME NEW c \in Clients, NEW i \in 1 .. Len(replies[c])
        PROVE  /\ replies[c][i].co \in Coroutines
               /\ \A n \in DOMAIN replies[c][i].pointers :
                     n \in Names /\ replies[c][i].pointers[n] \in Ptr
    <3> DEFINE a == replies[c][i]
    <3>1. a \in ReplyMsg
      BY <2>1 DEF ClientTypes
    <3> HIDE DEF a
    <3>2. a.co \in Coroutines /\ \A n \in DOMAIN a.pointers : n \in Names /\ a.pointers[n] \in Ptr
      BY <3>1 DEF ReplyMsg, Pointers
    <3>3. QED
      BY <3>2 DEF a
  <2>4. QED
    BY <2>1, <2>2, <2>3 DEF TypeOK, ServiceTypes, ClientTypes, Waiting, ViewRec
<1>2. QED
  BY <1>1, Invariance, PTL

\* The count of a live graph is the number of its holders, in any interleaving of loads,
\* queries, updates, confirmations, finalisers and exits.
THEOREM CountsExact == Spec => []RefExact
<1>1. IInv => RefExact
  BY DEF IInv, RefInv, RefAt, RefExact
<1>2. QED
  BY <1>1, Invariance, PTL

\* collect_retired deletes no graph that a box, an answer or a confirmation refers to.
THEOREM NothingFreedEarly == Spec => []NoUseAfterFree
<1>1. IInv => NoUseAfterFree
  BY DEF IInv, RefInv, RefAt, NoUseAfterFree
<1>2. QED
  BY <1>1, Invariance, PTL

\* The service can reach every graph in the heap.
THEOREM NothingForgotten == Spec => []NoGraphForgotten
<1>1. IInv => NoGraphForgotten
  BY DEF IInv, ReachInv
<1>2. QED
  BY <1>1, Invariance, PTL

-----------------------------------------------------------------------------
(* The versions a client sees: a view that an update moves shows a graph marked
   dirty, and no view goes back to an older graph. *)

Version(p) == heap[p].version

\* Graph q may be held for name n: the name has a graph, which is q or a later one, and
\* then q is dirty.
HeldFor(n, q) ==
    /\ q \in Ptr /\ files[n] # Nil
    /\ q # files[n] => heap[q].dirty
    /\ Version(q) <= Version(files[n])

\* Graphs are numbered as they are installed.
VersionInv ==
    /\ \A p, q \in Ptr : heap[p].live /\ heap[q].live /\ Version(p) = Version(q) => p = q
    /\ \A p \in Ptr : Version(p) <= loads

\* A view shows graphs of its name, the later one in pointer.
ViewOrder(c, v) ==
    views[c][v] # NoView =>
        /\ HeldFor(views[c][v].name, views[c][v].doc)
        /\ HeldFor(views[c][v].name, views[c][v].pointer)
        /\ views[c][v].pending = Nil => views[c][v].pointer = views[c][v].doc
        /\ views[c][v].pending # Nil => views[c][v].pointer = views[c][v].pending
        /\ Version(views[c][v].doc) <= Version(views[c][v].pointer)

\* The cached view of a name is listed under it.
CacheOrder(c, n) == cache[c][n] # Nil => Listed(c, cache[c][n], n)

\* An answer's graph is no older than what the client's views of the name show, and no
\* later than the graph of an answer behind it.
AnswerOrder(c, j, n) ==
    /\ HeldFor(n, replies[c][j].pointers[n])
    /\ \A v \in View : views[c][v].name = n =>
          Version(views[c][v].pointer) <= Version(replies[c][j].pointers[n])
    /\ \A i \in DOMAIN replies[c] : i > j /\ n \in DOMAIN replies[c][i].pointers =>
          Version(replies[c][j].pointers[n]) <= Version(replies[c][i].pointers[n])

ClientOrder(c) ==
    /\ \A v \in View : ViewOrder(c, v)
    /\ \A n \in Names : CacheOrder(c, n)
    /\ \A j \in DOMAIN replies[c] : \A n \in DOMAIN replies[c][j].pointers : AnswerOrder(c, j, n)

OrderInv == VersionInv /\ \A c \in Clients : ClientOrder(c)

\* The action of NeverOlder, by client.
ViewGrows(c, v) ==
    views[c][v] # NoView /\ views'[c][v] # NoView =>
        heap[views[c][v].pointer].version <= heap'[views'[c][v].pointer].version
CacheGrows(c, n) ==
    cache[c][n] # Nil /\ cache'[c][n] # Nil =>
        heap[views[c][cache[c][n]].pointer].version
            <= heap'[views'[c][cache'[c][n]].pointer].version
Grows(c) == (\A v \in View : ViewGrows(c, v)) /\ (\A n \in Names : CacheGrows(c, n))

\* A step keeps the order, and moves nothing back.
Ordered == OrderInv' /\ \A c \in Clients : Grows(c)

-----------------------------------------------------------------------------
(* Graphs in use *)

\* Any client's references count.
LEMMA RefsHold ==
    ASSUME ServiceTypes, ClientTypes, NEW p \in Ptr, NEW c \in Clients
    PROVE  /\ Refs(p) \in Nat /\ Hold(dead[c], views[c], replies[c], p) \in Nat
           /\ Refs(p) >= Hold(dead[c], views[c], replies[c], p)
<1> DEFINE f == [e \in Clients |-> Hold(dead[e], views[e], replies[e], p)]
           F == Cardinality(OwnersOf(files, p))
           C == Cardinality(Confirms(inbox, p))
<1>1. f \in [Clients -> Nat]
  BY HoldNat DEF ClientTypes
<1>2. F \in Nat /\ C \in Nat /\ lost[p] \in Nat
  BY OwnersFinite, ConfirmsFinite DEF ServiceTypes
<1>3. Refs(p) = F + Sum(f) + C + lost[p]
  BY RefsAre
<1>4. f[c] = Hold(dead[c], views[c], replies[c], p)
  OBVIOUS
<1> HIDE DEF f, F, C
<1>5. Sum(f) \in Nat /\ f[c] <= Sum(f) /\ f[c] \in Nat
  BY <1>1, SumSplit, ShareTableAssumption
<1>6. QED
  BY <1>2, <1>3, <1>4, <1>5

\* A graph that a box or an answer refers to is live, and collect_retired has not
\* chosen it.
LEMMA HeldLives ==
    ASSUME IInv, NEW c \in Clients, NEW p \in Ptr,
           \/ \E v \in View : views[c][v].doc = p \/ views[c][v].pending = p
           \/ \E j \in DOMAIN replies[c] : \E n \in DOMAIN replies[c][j].pointers :
                  replies[c][j].pointers[n] = p
    PROVE  Refs(p) > 0 /\ heap[p].live /\ doomed # p
<1>1. ServiceTypes /\ ClientTypes /\ RefInv
  BY DEF IInv
<1> DEFINE D == Cardinality(DocsOf(views[c], p))
           P == Cardinality(PendingOf(views[c], p))
           R == Cardinality(CarriedBy(replies[c], p))
           d == dead[c][p]
<1>2. replies[c] \in Seq(ReplyMsg) /\ d \in Nat
  BY <1>1 DEF ClientTypes
<1>3. D \in Nat /\ P \in Nat /\ R \in Nat
  BY <1>2, BoxesFinite, CarriedFinite
<1>4. Hold(dead[c], views[c], replies[c], p) = d + D + P + R
  BY DEF Hold
<1>5. D > 0 \/ P > 0 \/ R > 0
  <2>1. CASE \E v \in View : views[c][v].doc = p
    <3>1. DocsOf(views[c], p) # {}
      BY <2>1 DEF DocsOf
    <3>2. D # 0
      BY <3>1, BoxesFinite, FS_EmptySet
    <3>3. QED
      BY <1>3, <3>2
  <2>2. CASE \E v \in View : views[c][v].pending = p
    <3>1. PendingOf(views[c], p) # {}
      BY <2>2 DEF PendingOf
    <3>2. P # 0
      BY <3>1, BoxesFinite, FS_EmptySet
    <3>3. QED
      BY <1>3, <3>2
  <2>3. CASE \E j \in DOMAIN replies[c] : \E n \in DOMAIN replies[c][j].pointers :
                 replies[c][j].pointers[n] = p
    <3>0. PICK j \in DOMAIN replies[c] : \E n \in DOMAIN replies[c][j].pointers :
             replies[c][j].pointers[n] = p
      BY <2>3
    <3>1. PICK n \in DOMAIN replies[c][j].pointers : replies[c][j].pointers[n] = p
      BY <3>0
    <3>2. j \in 1 .. Len(replies[c]) /\ replies[c][j] \in ReplyMsg
      BY <1>2, <3>1, LenProperties
    <3>3. n \in Names
      BY <3>1, <3>2 DEF ReplyMsg, Pointers
    <3>4. <<j, n>> \in CarriedBy(replies[c], p)
      BY <3>1, <3>2, <3>3 DEF CarriedBy
    <3>5. R # 0
      BY <1>2, <3>4, CarriedFinite, FS_EmptySet
    <3>6. QED
      BY <1>3, <3>5
  <2>4. QED
    BY <2>1, <2>2, <2>3
<1>6. /\ Refs(p) \in Nat /\ Refs(p) >= Hold(dead[c], views[c], replies[c], p)
  BY <1>1, RefsHold
<1> HIDE DEF D, P, R, d
<1>7. Refs(p) > 0
  BY <1>2, <1>3, <1>4, <1>5, <1>6
<1>8. QED
  BY <1>1, <1>7 DEF RefInv, RefAt

\* The parts of a view.
LEMMA ViewParts ==
    ASSUME IInv, OrderInv, NEW c \in Clients, NEW v \in View, views[c][v] # NoView
    PROVE  /\ views[c][v] \in ViewRec /\ views[c][v].name \in Names
           /\ views[c][v].doc \in Ptr /\ views[c][v].pointer \in Ptr
           /\ Refs(views[c][v].doc) > 0 /\ heap[views[c][v].doc].live /\ doomed # views[c][v].doc
           /\ Refs(views[c][v].pointer) > 0 /\ heap[views[c][v].pointer].live
           /\ doomed # views[c][v].pointer
<1> DEFINE w == views[c][v]
<1>1. w \in ViewRec
  BY DEF IInv, ClientTypes
<1>2. w.name # Nil /\ w.pointer # Nil /\ w.doc # Nil
  BY DEF IInv, ViewInv
<1>3. ViewOrder(c, v)
  BY DEF OrderInv, ClientOrder
<1>4. w.pointer = w.doc \/ w.pointer = w.pending
  BY <1>3 DEF ViewOrder
<1>5. w.name \in Names /\ w.doc \in Ptr /\ w.pointer \in Ptr
  <2> HIDE DEF w
  <2>1. QED
    BY <1>1, <1>2 DEF ViewRec
<1>6. Refs(w.doc) > 0 /\ heap[w.doc].live /\ doomed # w.doc
  BY <1>5, HeldLives
<1>7. Refs(w.pointer) > 0 /\ heap[w.pointer].live /\ doomed # w.pointer
  BY <1>4, <1>5, HeldLives
<1>8. QED
  BY <1>1, <1>5, <1>6, <1>7

\* The parts of an answer.
LEMMA AnswerParts ==
    ASSUME IInv, NEW c \in Clients, NEW j \in DOMAIN replies[c],
           NEW n \in DOMAIN replies[c][j].pointers
    PROVE  /\ n \in Names /\ replies[c][j].pointers[n] \in Ptr
           /\ Refs(replies[c][j].pointers[n]) > 0 /\ heap[replies[c][j].pointers[n]].live
<1>1. replies[c] \in Seq(ReplyMsg)
  BY DEF IInv, ClientTypes
<1>2. replies[c][j] \in ReplyMsg
  BY <1>1
<1>3. n \in Names /\ replies[c][j].pointers[n] \in Ptr
  BY <1>2 DEF ReplyMsg, Pointers
<1>4. QED
  BY <1>3, HeldLives

\* A version is a number.
LEMMA VersionType ==
    ASSUME ServiceTypes, NEW p \in Ptr
    PROVE  Version(p) \in Nat
BY GraphFields, ShareTableAssumption DEF ServiceTypes, Version

-----------------------------------------------------------------------------
(* Steps of a client *)

\* Graphs keep their versions and marks.
SameGraphs ==
    /\ UNCHANGED <<files, loads>>
    /\ \A p \in Ptr : /\ heap'[p].live = heap[p].live /\ heap'[p].dirty = heap[p].dirty
                      /\ heap'[p].version = heap[p].version

\* Then what may be held stays so.
LEMMA GraphsKept ==
    ASSUME ServiceTypes, SameGraphs
    PROVE  /\ \A p \in Ptr : Version(p)' = Version(p)
           /\ \A n \in Names : \A q : HeldFor(n, q)' <=> HeldFor(n, q)
<1>1. \A p \in Ptr : Version(p)' = Version(p)
  BY DEF SameGraphs, Version
<1>2. ASSUME NEW n \in Names, NEW q PROVE HeldFor(n, q)' <=> HeldFor(n, q)
  <2>1. files'[n] = files[n] /\ files[n] \in Ptr \cup {Nil}
    BY DEF SameGraphs, ServiceTypes
  <2>2. CASE q \in Ptr /\ files[n] # Nil
    BY <1>1, <2>1, <2>2 DEF HeldFor, SameGraphs
  <2>3. CASE ~(q \in Ptr /\ files[n] # Nil)
    BY <2>1, <2>3 DEF HeldFor
  <2>4. QED
    BY <2>2, <2>3
<1>3. QED
  BY <1>1, <1>2

\* Versions stay distinct.
LEMMA VersionsKept ==
    ASSUME ServiceTypes, VersionInv, SameGraphs
    PROVE  VersionInv'
BY DEF VersionInv, SameGraphs, Version, ServiceTypes

\* Views and the cache of a client that nothing changes for.
LEMMA ViewsKept ==
    ASSUME IInv, OrderInv, SameGraphs, NEW e \in Clients, views'[e] = views[e],
           cache'[e] = cache[e]
    PROVE  /\ \A v \in View : ViewOrder(e, v)' /\ ViewGrows(e, v)
           /\ \A n \in Names : CacheOrder(e, n)' /\ CacheGrows(e, n)
<1>1. ServiceTypes /\ ClientOrder(e)
  BY DEF IInv, OrderInv
<1>2. /\ \A p \in Ptr : Version(p)' = Version(p)
      /\ \A n \in Names : \A q : HeldFor(n, q)' <=> HeldFor(n, q)
  BY <1>1, GraphsKept
<1>3. ASSUME NEW v \in View PROVE ViewOrder(e, v)' /\ ViewGrows(e, v)
  <2>1. CASE views[e][v] = NoView
    BY <2>1 DEF ViewOrder, ViewGrows
  <2>2. CASE views[e][v] # NoView
    <3>1. /\ views[e][v].name \in Names /\ views[e][v].doc \in Ptr /\ views[e][v].pointer \in Ptr
      BY <2>2, ViewParts
    <3>2. ViewOrder(e, v)
      BY <1>1 DEF ClientOrder
    <3>3. ViewOrder(e, v)'
      BY <1>2, <2>2, <3>1, <3>2 DEF ViewOrder
    <3>4. ViewGrows(e, v)
      <4>1. Version(views[e][v].pointer) \in Nat
        BY <1>1, <3>1, VersionType
      <4>2. heap'[views[e][v].pointer].version = heap[views[e][v].pointer].version
        BY <3>1 DEF SameGraphs
      <4>3. QED
        BY <4>1, <4>2 DEF ViewGrows, Version
    <3>5. QED
      BY <3>3, <3>4
  <2>3. QED
    BY <2>1, <2>2
<1>4. ASSUME NEW n \in Names PROVE CacheOrder(e, n)' /\ CacheGrows(e, n)
  <2>1. CacheOrder(e, n)
    BY <1>1 DEF ClientOrder
  <2>2. CacheOrder(e, n)'
    BY <2>1 DEF CacheOrder, Listed
  <2>3. ASSUME cache[e][n] # Nil PROVE CacheGrows(e, n)
    <3> DEFINE u == cache[e][n]
    <3>1. u \in View /\ views[e][u].name = n
      BY <2>1, <2>3 DEF IInv, ClientTypes, CacheOrder, Listed
    <3>2. views[e][u] # NoView
      BY <3>1, ShareTableAssumption DEF NoView
    <3>3. ViewGrows(e, u)
      BY <1>3, <3>1
    <3>4. QED
      BY <3>2, <3>3 DEF CacheGrows, ViewGrows
  <2>4. cache[e][n] = Nil => CacheGrows(e, n)
    BY DEF CacheGrows
  <2>5. QED
    BY <2>2, <2>3, <2>4
<1>5. QED
  BY <1>3, <1>4

\* A client nothing changes for.
LEMMA ClientKept ==
    ASSUME IInv, OrderInv, SameGraphs, NEW e \in Clients, views'[e] = views[e],
           cache'[e] = cache[e], replies'[e] = replies[e]
    PROVE  ClientOrder(e)' /\ Grows(e)
<1>1. ServiceTypes /\ ClientOrder(e)
  BY DEF IInv, OrderInv
<1>2. /\ \A p \in Ptr : Version(p)' = Version(p)
      /\ \A n \in Names : \A q : HeldFor(n, q)' <=> HeldFor(n, q)
  BY <1>1, GraphsKept
<1>3. /\ \A v \in View : ViewOrder(e, v)' /\ ViewGrows(e, v)
      /\ \A n \in Names : CacheOrder(e, n)' /\ CacheGrows(e, n)
  BY ViewsKept
<1>5. ASSUME NEW j \in DOMAIN replies[e], NEW n \in DOMAIN replies[e][j].pointers
      PROVE  AnswerOrder(e, j, n)'
  <2> DEFINE q == replies[e][j].pointers[n]
  <2>1. AnswerOrder(e, j, n)
    BY <1>1 DEF ClientOrder
  <2>2. n \in Names /\ q \in Ptr
    BY AnswerParts
  <2>3. HeldFor(n, q)'
    BY <1>2, <2>1, <2>2 DEF AnswerOrder
  <2>4. ASSUME NEW v \in View, views'[e][v].name = n
        PROVE  Version(views[e][v].pointer)' <= Version(q)'
    <3>1. views[e][v] # NoView
      BY <2>2, <2>4, ShareTableAssumption DEF NoView
    <3>2. views[e][v].pointer \in Ptr
      BY <3>1, ViewParts
    <3>3. QED
      BY <1>2, <2>1, <2>2, <2>4, <3>2 DEF AnswerOrder
  <2>5. ASSUME NEW i \in DOMAIN replies[e], i > j, n \in DOMAIN replies[e][i].pointers
        PROVE  Version(q)' <= Version(replies[e][i].pointers[n])'
    <3>1. replies[e][i].pointers[n] \in Ptr
      BY <2>5, AnswerParts
    <3>2. QED
      BY <1>2, <2>1, <2>2, <2>5, <3>1 DEF AnswerOrder
  <2>6. QED
    BY <2>3, <2>4, <2>5 DEF AnswerOrder
<1>6. QED
  BY <1>3, <1>5 DEF ClientOrder, Grows

\* The client's mailbox has what is left of its answers, from the one after s.
Drops(c, s) ==
    \A j \in DOMAIN replies'[c] :
        /\ j \in Nat /\ j + s \in DOMAIN replies[c]
        /\ \A n \in DOMAIN replies'[c][j].pointers :
              /\ n \in DOMAIN replies[c][j + s].pointers
              /\ replies'[c][j].pointers[n] = replies[c][j + s].pointers[n]

\* A view is no later than the answers that are left.
Behind(c, v) ==
    \A j \in DOMAIN replies'[c] : \A n \in DOMAIN replies'[c][j].pointers :
        views'[c][v].name = n =>
            Version(views'[c][v].pointer) <= Version(replies'[c][j].pointers[n])

\* Only client c changes.
OthersKept(c) ==
    \A e \in Clients \ {c} :
        views'[e] = views[e] /\ cache'[e] = cache[e] /\ replies'[e] = replies[e]

\* A step of one client.
LEMMA OneClient ==
    ASSUME IInv, OrderInv, SameGraphs, NEW c \in Clients, OthersKept(c),
           NEW s \in Nat, Drops(c, s),
           \A v \in View : ViewOrder(c, v)' /\ Behind(c, v) /\ ViewGrows(c, v),
           \A n \in Names : CacheOrder(c, n)' /\ CacheGrows(c, n)
    PROVE  Ordered
<1>1. ServiceTypes /\ VersionInv /\ ClientOrder(c)
  BY DEF IInv, OrderInv
<1>2. /\ \A p \in Ptr : Version(p)' = Version(p)
      /\ \A n \in Names : \A q : HeldFor(n, q)' <=> HeldFor(n, q)
  BY <1>1, GraphsKept
<1>3. VersionInv'
  BY <1>1, VersionsKept
<1>4. \A e \in Clients \ {c} : ClientOrder(e)' /\ Grows(e)
  BY ClientKept DEF OthersKept
<1>5. ASSUME NEW j \in DOMAIN replies'[c], NEW n \in DOMAIN replies'[c][j].pointers
      PROVE  AnswerOrder(c, j, n)'
  <2> DEFINE q == replies'[c][j].pointers[n]
             m == j + s
  <2>1. /\ m \in DOMAIN replies[c] /\ n \in DOMAIN replies[c][m].pointers
        /\ q = replies[c][m].pointers[n]
    BY DEF Drops
  <2> HIDE DEF m
  <2>2. n \in Names /\ q \in Ptr
    BY <2>1, AnswerParts
  <2>3. AnswerOrder(c, m, n)
    BY <1>1, <2>1 DEF ClientOrder
  <2>4. HeldFor(n, q)
    BY <2>1, <2>3 DEF AnswerOrder
  <2>5. ASSUME NEW v \in View, views'[c][v].name = n
        PROVE  heap'[views'[c][v].pointer].version <= heap'[q].version
    <3>1. views'[c][v] # NoView
      BY <2>2, <2>5, ShareTableAssumption DEF NoView
    <3>2. views'[c][v].pointer \in Ptr
      BY <3>1 DEF ViewOrder, HeldFor
    <3>3. Version(views'[c][v].pointer) <= Version(q)
      BY <2>5 DEF Behind
    <3>4. QED
      BY <2>2, <3>2, <3>3 DEF SameGraphs, Version
  <2>6. ASSUME NEW i \in DOMAIN replies'[c], i > j, n \in DOMAIN replies'[c][i].pointers
        PROVE  heap'[q].version <= heap'[replies'[c][i].pointers[n]].version
    <3> DEFINE l == i + s
    <3>1. /\ l \in DOMAIN replies[c] /\ n \in DOMAIN replies[c][l].pointers
          /\ replies'[c][i].pointers[n] = replies[c][l].pointers[n]
      BY <2>6 DEF Drops
    <3>2. l > m
      BY <2>6 DEF Drops, m
    <3> HIDE DEF l
    <3>3. replies[c][l].pointers[n] \in Ptr
      BY <3>1, AnswerParts
    <3>4. Version(q) <= Version(replies[c][l].pointers[n])
      BY <2>1, <2>3, <3>1, <3>2 DEF AnswerOrder
    <3>5. QED
      BY <2>2, <3>1, <3>3, <3>4 DEF SameGraphs, Version
  <2>7. HeldFor(n, replies[c][j].pointers[n])'
    <3>1. q \in Ptr /\ files'[n] # Nil /\ (q # files'[n] => heap'[q].dirty)
          /\ heap'[q].version <= heap'[files'[n]].version
      <4>1. files' = files /\ files[n] \in Ptr
        BY <1>1, <2>2, <2>4 DEF SameGraphs, HeldFor, ServiceTypes
      <4>2. QED
        BY <2>2, <2>4, <4>1 DEF SameGraphs, HeldFor, Version
    <3>2. QED
      BY <3>1 DEF HeldFor, Version
  <2>8. QED
    BY <2>5, <2>6, <2>7 DEF AnswerOrder, Version
<1>6. ClientOrder(c)' /\ Grows(c)
  BY <1>5 DEF ClientOrder, Grows
<1>7. QED
  BY <1>3, <1>4, <1>6 DEF Ordered, OrderInv

\* A step that leaves a client's graphs where they are, or drops them.
Mild(c, v) ==
    \/ views'[c][v] = NoView
    \/ /\ views[c][v] # NoView
       /\ views'[c][v].name = views[c][v].name /\ views'[c][v].pointer = views[c][v].pointer
       /\ views'[c][v].doc = views[c][v].doc /\ views'[c][v].pending = views[c][v].pending

MildCache(c, n) ==
    \/ cache'[c][n] = Nil
    \/ /\ cache'[c][n] = cache[c][n]
       /\ views'[c][cache[c][n]] # NoView /\ views'[c][cache[c][n]].root # "gone"

\* A view that keeps its name and its pointer.
LEMMA StillBehind ==
    ASSUME IInv, OrderInv, SameGraphs, NEW c \in Clients, NEW s \in Nat, Drops(c, s),
           NEW v \in View, views[c][v] # NoView,
           views'[c][v].name = views[c][v].name, views'[c][v].pointer = views[c][v].pointer
    PROVE  Behind(c, v) /\ ViewGrows(c, v)
<1>1. ServiceTypes /\ ClientOrder(c)
  BY DEF IInv, OrderInv
<1>2. ViewGrows(c, v)
  <2>1. views[c][v].pointer \in Ptr
    BY ViewParts
  <2>2. heap[views[c][v].pointer].version \in Nat
    BY <1>1, <2>1, VersionType DEF Version
  <2>3. QED
    BY <2>1, <2>2 DEF ViewGrows, SameGraphs
<1>3. ASSUME NEW j \in DOMAIN replies'[c], NEW n \in DOMAIN replies'[c][j].pointers,
             views'[c][v].name = n
      PROVE  Version(views'[c][v].pointer) <= Version(replies'[c][j].pointers[n])
  <2> DEFINE m == j + s
  <2>1. /\ m \in DOMAIN replies[c] /\ n \in DOMAIN replies[c][m].pointers
        /\ replies'[c][j].pointers[n] = replies[c][m].pointers[n]
    BY DEF Drops
  <2> HIDE DEF m
  <2>2. AnswerOrder(c, m, n)
    BY <1>1, <2>1 DEF ClientOrder
  <2>3. QED
    BY <1>3, <2>1, <2>2 DEF AnswerOrder
<1>4. QED
  BY <1>2, <1>3 DEF Behind

\* A view that stays where it is.
LEMMA MildView ==
    ASSUME IInv, OrderInv, SameGraphs, NEW c \in Clients, NEW s \in Nat, Drops(c, s),
           NEW v \in View, Mild(c, v)
    PROVE  ViewOrder(c, v)' /\ Behind(c, v) /\ ViewGrows(c, v)
<1>1. ServiceTypes /\ ClientOrder(c)
  BY DEF IInv, OrderInv
<1>2. CASE views'[c][v] = NoView
  <2>1. ViewOrder(c, v)' /\ ViewGrows(c, v)
    BY <1>2 DEF ViewOrder, ViewGrows
  <2>2. ASSUME NEW j \in DOMAIN replies'[c], NEW n \in DOMAIN replies'[c][j].pointers
        PROVE  views'[c][v].name # n
    <3>1. n \in Names
      BY AnswerParts DEF Drops
    <3>2. QED
      BY <1>2, <3>1, ShareTableAssumption DEF NoView
  <2>3. QED
    BY <2>1, <2>2 DEF Behind
<1>3. CASE /\ views[c][v] # NoView
           /\ views'[c][v].name = views[c][v].name /\ views'[c][v].pointer = views[c][v].pointer
           /\ views'[c][v].doc = views[c][v].doc /\ views'[c][v].pending = views[c][v].pending
  <2> DEFINE w == views[c][v]
  <2>1. w.name \in Names /\ w.doc \in Ptr /\ w.pointer \in Ptr
    BY <1>3, ViewParts
  <2>2. ViewOrder(c, v)
    BY <1>1 DEF ClientOrder
  <2>3. /\ \A p \in Ptr : heap'[p].version = heap[p].version /\ heap'[p].dirty = heap[p].dirty
        /\ files' = files /\ files[w.name] \in Ptr
    BY <1>1, <1>3, <2>1, <2>2 DEF SameGraphs, ViewOrder, HeldFor, ServiceTypes
  <2>4. ViewOrder(c, v)'
    BY <1>3, <2>1, <2>2, <2>3 DEF ViewOrder, HeldFor, Version
  <2>5. Behind(c, v) /\ ViewGrows(c, v)
    BY <1>3, StillBehind
  <2>6. QED
    BY <2>4, <2>5
<1>4. QED
  BY <1>2, <1>3 DEF Mild

\* Such a step is ordered.
LEMMA MildStep ==
    ASSUME IInv, OrderInv, SameGraphs, NEW c \in Clients, OthersKept(c),
           NEW s \in Nat, Drops(c, s),
           \A v \in View : Mild(c, v), \A n \in Names : MildCache(c, n)
    PROVE  Ordered
<1>1. \A v \in View : ViewOrder(c, v)' /\ Behind(c, v) /\ ViewGrows(c, v)
  BY MildView
<1>2. ASSUME NEW n \in Names PROVE CacheOrder(c, n)' /\ CacheGrows(c, n)
  <2>1. CASE cache'[c][n] = Nil
    BY <2>1 DEF CacheOrder, CacheGrows
  <2>2. CASE cache'[c][n] # Nil
    <3> DEFINE u == cache[c][n]
    <3>1. cache'[c][n] = u /\ views'[c][u] # NoView /\ views'[c][u].root # "gone"
      BY <2>2 DEF MildCache
    <3>2. Listed(c, u, n)
      BY <2>2, <3>1 DEF OrderInv, ClientOrder, CacheOrder
    <3>3. u \in View
      BY <2>2, <3>1 DEF IInv, ClientTypes
    <3>4. Mild(c, u) /\ ViewGrows(c, u)
      BY <1>1, <3>3
    <3>5. CacheOrder(c, n)'
      <4>1. views'[c][u].name = n
        BY <3>1, <3>2, <3>4 DEF Mild, Listed
      <4>2. QED
        BY <3>1, <4>1 DEF CacheOrder, Listed
    <3>6. CacheGrows(c, n)
      BY <3>1, <3>4 DEF CacheGrows, ViewGrows, Mild
    <3>7. QED
      BY <3>5, <3>6
  <2>3. QED
    BY <2>1, <2>2
<1>3. QED
  BY <1>1, <1>2, OneClient

\* A step that leaves the clients alone.
LEMMA QuietStep ==
    ASSUME IInv, OrderInv, SameGraphs, UNCHANGED <<views, cache, replies>>
    PROVE  Ordered
<1>1. ServiceTypes /\ VersionInv
  BY DEF IInv, OrderInv
<1>2. VersionInv'
  BY <1>1, VersionsKept
<1>3. \A e \in Clients : ClientOrder(e)' /\ Grows(e)
  BY ClientKept
<1>4. QED
  BY <1>2, <1>3 DEF Ordered, OrderInv

-----------------------------------------------------------------------------
(* Steps of the service *)

\* A graph that nobody holds appears or goes.
LEMMA HeapStep ==
    ASSUME IInv, OrderInv, UNCHANGED <<views, cache, replies>>, NEW x \in Ptr, ~(Refs(x) > 0),
           \A q \in Ptr \ {x} : heap'[q].version = heap[q].version,
           \A n \in Names, q \in Ptr \ {x} : HeldFor(n, q) => HeldFor(n, q)',
           VersionInv'
    PROVE  Ordered
<1>1. ServiceTypes
  BY DEF IInv
<1>2. ASSUME NEW e \in Clients, NEW v \in View PROVE ViewOrder(e, v)' /\ ViewGrows(e, v)
  <2>1. CASE views[e][v] = NoView
    BY <2>1 DEF ViewOrder, ViewGrows
  <2>2. CASE views[e][v] # NoView
    <3>1. /\ views[e][v].name \in Names
          /\ views[e][v].doc \in Ptr \ {x} /\ views[e][v].pointer \in Ptr \ {x}
      BY <2>2, ViewParts
    <3>2. ViewOrder(e, v)
      BY DEF OrderInv, ClientOrder
    <3>3. ViewOrder(e, v)'
      BY <2>2, <3>1, <3>2 DEF ViewOrder, Version
    <3>4. ViewGrows(e, v)
      <4>1. heap[views[e][v].pointer].version \in Nat
        BY <1>1, <3>1, VersionType DEF Version
      <4>2. QED
        BY <3>1, <4>1 DEF ViewGrows
    <3>5. QED
      BY <3>3, <3>4
  <2>3. QED
    BY <2>1, <2>2
<1>3. ASSUME NEW e \in Clients, NEW n \in Names PROVE CacheOrder(e, n)' /\ CacheGrows(e, n)
  <2>1. CacheOrder(e, n)
    BY DEF OrderInv, ClientOrder
  <2>2. CacheOrder(e, n)'
    BY <2>1 DEF CacheOrder, Listed
  <2>3. ASSUME cache[e][n] # Nil PROVE CacheGrows(e, n)
    <3> DEFINE u == cache[e][n]
    <3>1. u \in View /\ views[e][u].name = n
      BY <2>1, <2>3 DEF IInv, ClientTypes, CacheOrder, Listed
    <3>2. views[e][u] # NoView
      BY <3>1, ShareTableAssumption DEF NoView
    <3>3. ViewGrows(e, u)
      BY <1>2, <3>1
    <3>4. QED
      BY <3>2, <3>3 DEF CacheGrows, ViewGrows
  <2>4. cache[e][n] = Nil => CacheGrows(e, n)
    BY DEF CacheGrows
  <2>5. QED
    BY <2>2, <2>3, <2>4
<1>4. ASSUME NEW e \in Clients, NEW j \in DOMAIN replies[e], NEW n \in DOMAIN replies[e][j].pointers
      PROVE  AnswerOrder(e, j, n)'
  <2> DEFINE q == replies[e][j].pointers[n]
  <2>1. AnswerOrder(e, j, n)
    BY DEF OrderInv, ClientOrder
  <2>2. n \in Names /\ q \in Ptr \ {x}
    BY AnswerParts
  <2>3. HeldFor(n, q)'
    BY <2>1, <2>2 DEF AnswerOrder
  <2>4. ASSUME NEW v \in View, views'[e][v].name = n
        PROVE  Version(views[e][v].pointer)' <= Version(q)'
    <3>1. views[e][v] # NoView
      BY <2>2, <2>4, ShareTableAssumption DEF NoView
    <3>2. views[e][v].pointer \in Ptr \ {x}
      BY <3>1, ViewParts
    <3>3. QED
      BY <2>1, <2>2, <2>4, <3>2 DEF AnswerOrder, Version
  <2>5. ASSUME NEW i \in DOMAIN replies[e], i > j, n \in DOMAIN replies[e][i].pointers
        PROVE  Version(q)' <= Version(replies[e][i].pointers[n])'
    <3>1. replies[e][i].pointers[n] \in Ptr \ {x}
      BY <2>5, AnswerParts
    <3>2. QED
      BY <2>1, <2>2, <2>5, <3>1 DEF AnswerOrder, Version
  <2>6. QED
    BY <2>3, <2>4, <2>5 DEF AnswerOrder
<1>5. \A e \in Clients : ClientOrder(e)' /\ Grows(e)
  BY <1>2, <1>3, <1>4 DEF ClientOrder, Grows
<1>6. QED
  BY <1>5 DEF Ordered, OrderInv

\* An answer has the graphs its names have at that time.
LEMMA ReplyOrder ==
    ASSUME IInv, OrderInv, SameGraphs, UNCHANGED <<views, cache>>, NEW k \in Coroutines,
           NEW ps \in Pointers, Reply(k, ps), \A n \in DOMAIN ps : ps[n] = files[n]
    PROVE  Ordered
<1>1. ServiceTypes /\ ClientTypes /\ VersionInv
  BY DEF IInv, OrderInv
<1>2. CASE Home[k] \in gone
  <2>1. UNCHANGED replies
    BY <1>2 DEF Reply
  <2>2. QED
    BY <2>1, QuietStep
<1>3. CASE Home[k] \notin gone
  <2> DEFINE c == Home[k]
             a == [co |-> k, pointers |-> ps]
             L == Len(replies[c]) + 1
  <2>1. /\ c \in Clients /\ \A e \in Clients \ {c} : replies'[e] = replies[e]
        /\ DOMAIN replies'[c] = DOMAIN replies[c] \cup {L} /\ L \notin DOMAIN replies[c]
        /\ \A j \in DOMAIN replies[c] : replies'[c][j] = replies[c][j]
        /\ replies'[c][L] = a
    BY <1>1, <1>3, ReplyStep
  <2>2. a.pointers = ps /\ ps \in [DOMAIN ps -> Ptr] /\ DOMAIN ps \subseteq Names
    BY DEF Pointers
  <2>3. L \in Nat /\ \A j \in DOMAIN replies[c] : j < L /\ j \in Nat
    <3>1. replies[c] \in Seq(ReplyMsg)
      BY <1>1, <2>1 DEF ClientTypes
    <3>2. DOMAIN replies[c] = 1 .. Len(replies[c]) /\ Len(replies[c]) \in Nat
      BY <3>1, LenProperties
    <3>3. QED
      BY <3>2
  <2> HIDE DEF c, a, L
  <2>4. /\ \A v \in View : ViewOrder(c, v)' /\ ViewGrows(c, v)
        /\ \A n \in Names : CacheOrder(c, n)' /\ CacheGrows(c, n)
    BY <2>1, ViewsKept
  <2>5. /\ \A p \in Ptr : heap'[p].version = heap[p].version /\ heap'[p].dirty = heap[p].dirty
        /\ files' = files
    BY DEF SameGraphs
  <2>6. ASSUME NEW j \in DOMAIN replies'[c], NEW n \in DOMAIN replies'[c][j].pointers
        PROVE  AnswerOrder(c, j, n)'
    <3> DEFINE q == replies'[c][j].pointers[n]
    <3>1. n \in Names /\ q \in Ptr /\ HeldFor(n, q)
      <4>1. CASE j = L
        <5>1. q = files[n] /\ q \in Ptr /\ n \in Names
          BY <2>1, <2>2, <4>1
        <5>2. Version(q) \in Nat
          BY <1>1, <5>1, VersionType
        <5>3. QED
          BY <5>1, <5>2, ShareTableAssumption DEF HeldFor
      <4>2. CASE j # L
        <5>1. j \in DOMAIN replies[c] /\ n \in DOMAIN replies[c][j].pointers
              /\ q = replies[c][j].pointers[n]
          BY <2>1, <4>2
        <5>2. AnswerOrder(c, j, n)
          BY <2>1, <5>1 DEF OrderInv, ClientOrder
        <5>3. QED
          BY <2>1, <5>1, <5>2, AnswerParts DEF AnswerOrder
      <4>3. QED
        BY <4>1, <4>2
    <3>2. files[n] \in Ptr
      BY <1>1, <3>1 DEF HeldFor, ServiceTypes
    <3>3. HeldFor(n, replies[c][j].pointers[n])'
      BY <2>5, <3>1, <3>2 DEF HeldFor, Version
    <3>4. ASSUME NEW v \in View, views'[c][v].name = n
          PROVE  heap'[views'[c][v].pointer].version <= heap'[q].version
      <4>1. views[c][v] # NoView
        BY <3>1, <3>4, ShareTableAssumption DEF NoView
      <4>2. views[c][v].pointer \in Ptr
        BY <2>1, <4>1, ViewParts
      <4>3. Version(views[c][v].pointer) <= Version(q)
        <5>1. CASE j = L
          <6>1. q = files[n]
            BY <2>1, <2>2, <5>1
          <6>2. ViewOrder(c, v)
            BY <2>1 DEF OrderInv, ClientOrder
          <6>3. QED
            BY <3>4, <4>1, <6>1, <6>2 DEF ViewOrder, HeldFor
        <5>2. CASE j # L
          <6>1. j \in DOMAIN replies[c] /\ n \in DOMAIN replies[c][j].pointers
                /\ q = replies[c][j].pointers[n]
            BY <2>1, <5>2
          <6>2. AnswerOrder(c, j, n)
            BY <2>1, <6>1 DEF OrderInv, ClientOrder
          <6>3. QED
            BY <3>4, <6>1, <6>2 DEF AnswerOrder
        <5>3. QED
          BY <5>1, <5>2
      <4>4. QED
        BY <2>5, <3>1, <4>2, <4>3 DEF Version
    <3>5. ASSUME NEW i \in DOMAIN replies'[c], i > j, n \in DOMAIN replies'[c][i].pointers
          PROVE  heap'[q].version <= heap'[replies'[c][i].pointers[n]].version
      <4> DEFINE r == replies'[c][i].pointers[n]
      <4>1. j # L
        BY <2>1, <2>3, <3>5
      <4>2. CASE i = L
        <5>1. r = files[n]
          BY <2>1, <2>2, <3>5, <4>2
        <5>2. QED
          BY <2>5, <3>1, <3>2, <5>1 DEF HeldFor, Version
      <4>3. CASE i # L
        <5>1. /\ i \in DOMAIN replies[c] /\ n \in DOMAIN replies[c][i].pointers
              /\ r = replies[c][i].pointers[n]
              /\ j \in DOMAIN replies[c] /\ n \in DOMAIN replies[c][j].pointers
              /\ q = replies[c][j].pointers[n]
          BY <2>1, <3>5, <4>1, <4>3
        <5>2. AnswerOrder(c, j, n) /\ r \in Ptr
          BY <2>1, <5>1, AnswerParts DEF OrderInv, ClientOrder
        <5>3. Version(q) <= Version(r)
          BY <3>5, <5>1, <5>2 DEF AnswerOrder
        <5>4. QED
          BY <2>5, <3>1, <5>2, <5>3 DEF Version
      <4>4. QED
        BY <4>2, <4>3
    <3>6. QED
      BY <3>3, <3>4, <3>5 DEF AnswerOrder, Version
  <2>7. ClientOrder(c)' /\ Grows(c)
    BY <2>4, <2>6 DEF ClientOrder, Grows
  <2>8. VersionInv'
    BY <1>1, VersionsKept
  <2>9. \A e \in Clients \ {c} : ClientOrder(e)' /\ Grows(e)
    BY <2>1, ClientKept
  <2>10. QED
    BY <2>7, <2>8, <2>9 DEF Ordered, OrderInv
<1>4. QED
  BY <1>2, <1>3

\* A graph whose count changes keeps the rest.
LEMMA CountOnly ==
    ASSUME NEW g \in Graph, NEW x
    PROVE  LET y == [g EXCEPT !.ref = x]
           IN  y.live = g.live /\ y.dirty = g.dirty /\ y.version = g.version
BY DEF Graph

\* Steps that change counts only keep the graphs.
LEMMA CountsChange ==
    ASSUME ServiceTypes, UNCHANGED <<files, loads>>,
           \A q \in Ptr : heap'[q] = heap[q] \/ \E x : heap'[q] = [heap[q] EXCEPT !.ref = x]
    PROVE  SameGraphs
<1>1. ASSUME NEW q \in Ptr
      PROVE  /\ heap'[q].live = heap[q].live /\ heap'[q].dirty = heap[q].dirty
             /\ heap'[q].version = heap[q].version
  <2>1. CASE heap'[q] = heap[q]
    BY <2>1
  <2>2. CASE \E x : heap'[q] = [heap[q] EXCEPT !.ref = x]
    <3> DEFINE g == heap[q]
    <3>1. g \in Graph
      BY DEF ServiceTypes
    <3>2. PICK x : heap'[q] = [g EXCEPT !.ref = x]
      BY <2>2
    <3> HIDE DEF g
    <3>3. heap'[q].live = g.live /\ heap'[q].dirty = g.dirty /\ heap'[q].version = g.version
      BY <3>1, <3>2, CountOnly
    <3>4. QED
      BY <3>3 DEF g
  <2>3. QED
    BY <2>1, <2>2
<1>2. QED
  BY <1>1 DEF SameGraphs

\* A graph is installed: nobody held its address.
LEMMA ServeLoadOrder ==
    ASSUME IInv, OrderInv, ServeLoad
    PROVE  Ordered
<1>1. ServiceTypes /\ ClientTypes /\ MessageInv /\ RefInv /\ VersionInv
  BY DEF IInv, OrderInv
<1>2. /\ inbox # <<>> /\ loads' = loads + 1 /\ UNCHANGED replies
      /\ UNCHANGED <<views, cache, roots, dead, gone>>
  BY DEF ServeLoad, Ready, client
<1>3. PICK name \in NamesOf(Head(inbox).names), p \in Ptr : ~heap[p].live /\ Install(name, p)
  BY DEF ServeLoad
<1>4. name \in Names
  BY <1>1, <1>2, FirstMessage
<1> DEFINE old == files[name]
           fresh == [live |-> TRUE, ref |-> 1, dirty |-> FALSE, version |-> loads + 1]
<1>5. /\ files' = [files EXCEPT ![name] = p]
      /\ heap' = [q \in Ptr |-> IF q = p THEN fresh
                                ELSE IF q = old THEN [heap[q] EXCEPT !.dirty = TRUE, !.ref = @ - 1]
                                ELSE heap[q]]
  BY <1>3 DEF Install
<1>6. /\ files \in [Names -> Ptr \cup {Nil}] /\ heap \in [Ptr -> Graph] /\ loads \in Nat
  BY <1>1, ShareTableAssumption DEF ServiceTypes
<1>7. heap'[p].version = loads + 1 /\ heap'[p].live
  BY <1>5
<1>8. ASSUME NEW q \in Ptr \ {p}
      PROVE  /\ heap'[q].version = heap[q].version /\ heap'[q].live = heap[q].live
             /\ heap[q].dirty => heap'[q].dirty
             /\ q = old => heap'[q].dirty
             /\ heap[q].version \in Nat
  <2> DEFINE g == heap[q]
  <2>1. g \in Graph /\ g.version \in Nat
    BY <1>6, GraphFields, ShareTableAssumption
  <2>2. CASE q = old
    <3> DEFINE x == g.ref - 1
    <3>1. heap'[q] = [g EXCEPT !.dirty = TRUE, !.ref = x]
      BY <1>5, <2>2
    <3> HIDE DEF g, x
    <3>2. heap'[q].version = g.version /\ heap'[q].live = g.live /\ heap'[q].dirty = TRUE
      BY <2>1, <3>1 DEF Graph
    <3>3. QED
      BY <2>1, <3>2 DEF g
  <2>3. CASE q # old
    <3>1. heap'[q] = g
      BY <1>5, <2>3
    <3>2. QED
      BY <2>1, <2>3, <3>1
  <2>4. QED
    BY <2>2, <2>3
<1>9. ~(Refs(p) > 0)
  BY <1>1, <1>3 DEF RefInv, RefAt
<1> HIDE DEF old, fresh
<1>10. VersionInv'
  <2>1. \A q \in Ptr : heap[q].version <= loads
    BY <1>1 DEF VersionInv, Version
  <2>2. \A q \in Ptr : heap'[q].version <= loads'
    BY <1>2, <1>6, <1>7, <1>8, <2>1
  <2>3. ASSUME NEW q \in Ptr, NEW r \in Ptr, heap'[q].live, heap'[r].live,
               heap'[q].version = heap'[r].version
        PROVE  q = r
    <3>1. q = p => r = p
      BY <1>6, <1>7, <1>8, <2>1, <2>3
    <3>2. r = p => q = p
      BY <1>6, <1>7, <1>8, <2>1, <2>3
    <3>3. q # p /\ r # p => q = r
      BY <1>1, <1>8, <2>3 DEF VersionInv, Version
    <3>4. QED
      BY <3>1, <3>2, <3>3
  <2>4. QED
    BY <2>2, <2>3 DEF VersionInv, Version
<1>11. ASSUME NEW n \in Names, NEW q \in Ptr \ {p}, HeldFor(n, q) PROVE HeldFor(n, q)'
  <2>1. heap[q].version <= loads
    BY <1>1 DEF VersionInv, Version
  <2>2. CASE n = name
    <3>1. files'[n] = p /\ p # Nil
      BY <1>5, <1>6, <2>2, ShareTableAssumption
    <3>2. heap'[q].dirty
      BY <1>8, <1>11, <2>2 DEF HeldFor, old
    <3>3. heap'[q].version <= heap'[p].version
      BY <1>6, <1>7, <1>8, <2>1
    <3>4. QED
      BY <3>1, <3>2, <3>3 DEF HeldFor, Version
  <2>3. CASE n # name
    <3>1. files'[n] = files[n] /\ files[n] \in Ptr
      BY <1>5, <1>6, <1>11, <2>3 DEF HeldFor
    <3>2. files[n] # p
      BY <1>1, <1>3, <3>1, OwnedLives, ShareTableAssumption
    <3>3. QED
      BY <1>8, <1>11, <3>1, <3>2, ShareTableAssumption DEF HeldFor, Version
  <2>4. QED
    BY <2>2, <2>3
<1>12. QED
  BY <1>2, <1>8, <1>9, <1>10, <1>11, HeapStep

\* A deleted graph was held by nobody.
LEMMA CollectDeleteOrder ==
    ASSUME IInv, OrderInv, CollectDelete
    PROVE  Ordered
<1>1. ServiceTypes /\ ClientTypes /\ RefInv /\ VersionInv /\ ReachInv
  BY DEF IInv, OrderInv
<1>2. /\ doomed # Nil /\ heap' = [heap EXCEPT ![doomed] = NoGraph]
      /\ UNCHANGED <<files, loads, replies>> /\ UNCHANGED <<views, cache, roots, dead, gone>>
  BY DEF CollectDelete, client
<1>3. doomed \in Ptr
  BY <1>1, <1>2 DEF ServiceTypes
<1>4. /\ heap'[doomed] = NoGraph /\ \A p \in Ptr \ {doomed} : heap'[p] = heap[p]
      /\ loads \in Nat
  BY <1>1, <1>2, <1>3, ShareTableAssumption DEF ServiceTypes
<1>5. NoGraph.live = FALSE /\ NoGraph.version = 0
  BY DEF NoGraph
<1>6. VersionInv'
  BY <1>1, <1>2, <1>4, <1>5 DEF VersionInv, Version
<1>7. ~(Refs(doomed) > 0)
  BY <1>1, <1>3 DEF RefInv, RefAt
<1>8. ASSUME NEW n \in Names, NEW q \in Ptr \ {doomed}, HeldFor(n, q) PROVE HeldFor(n, q)'
  <2>1. files[n] \in Ptr /\ files[n] # doomed
    BY <1>1, <1>8, OwnedLives DEF HeldFor
  <2>2. QED
    BY <1>2, <1>4, <1>8, <2>1 DEF HeldFor, Version
<1>9. QED
  BY <1>2, <1>3, <1>4, <1>6, <1>7, <1>8, HeapStep

\* A query's answer.
LEMMA ServeQueryOrder ==
    ASSUME IInv, OrderInv, ServeQuery
    PROVE  Ordered
<1> DEFINE k == Head(inbox).co
           found == {n \in NamesOf(Head(inbox).names) : files[n] # Nil}
           ps == [n \in found |-> files[n]]
<1>1. ServiceTypes /\ MessageInv
  BY DEF IInv
<1>2. /\ inbox # <<>> /\ Head(inbox).op \in {"query", "update"} /\ Reply(k, ps)
      /\ heap' = QueryRefs(Head(inbox).names) /\ UNCHANGED <<files, loads>> /\ UNCHANGED <<views, cache>>
  BY DEF ServeQuery, Ready, service, client
<1>3. k \in Coroutines /\ NamesOf(Head(inbox).names) \subseteq Names
  BY <1>1, <1>2, FirstMessage
<1>4. found \in SUBSET Names /\ ps \in [found -> Ptr] /\ \A n \in DOMAIN ps : ps[n] = files[n]
  BY <1>1, <1>3 DEF ServiceTypes
<1>5. SameGraphs
  <2>1. ASSUME NEW q \in Ptr
        PROVE  heap'[q] = heap[q] \/ \E x : heap'[q] = [heap[q] EXCEPT !.ref = x]
    <3>1. heap'[q] = [heap[q] EXCEPT !.ref = heap[q].ref + Taken(Head(inbox).names, q)]
      BY <1>2 DEF QueryRefs
    <3>2. QED
      BY <3>1
  <2>2. QED
    BY <1>1, <1>2, <2>1, CountsChange
<1> HIDE DEF ps, found
<1>6. ps \in Pointers
  BY <1>4 DEF Pointers
<1>7. QED
  BY <1>2, <1>3, <1>4, <1>5, <1>6, ReplyOrder

\* The other steps of the service.
LEMMA ServiceOrder ==
    ASSUME IInv, OrderInv, Service
    PROVE  Ordered
<1>1. ServiceTypes /\ MessageInv
  BY DEF IInv
<1>2. <<>> \in Pointers /\ \A n \in DOMAIN <<>> : <<>>[n] = files[n]
  BY EmptyAnswer
<1>3. ASSUME UNCHANGED <<files, loads, heap>> PROVE SameGraphs
  BY <1>3 DEF SameGraphs
<1>4. CASE ServeLoadError
  <2>1. /\ inbox # <<>> /\ Head(inbox).op = "load" /\ Reply(Head(inbox).co, <<>>)
        /\ UNCHANGED <<files, loads, heap>> /\ UNCHANGED <<views, cache>>
    BY <1>4 DEF ServeLoadError, Ready, service, client
  <2>2. Head(inbox).co \in Coroutines
    BY <1>1, <2>1, FirstMessage
  <2>3. QED
    BY <1>2, <1>3, <2>1, <2>2, ReplyOrder
<1>5. CASE AnswerLoad
  <2>1. /\ owed # Nil /\ Reply(owed, <<>>)
        /\ UNCHANGED <<files, loads, heap>> /\ UNCHANGED <<views, cache>>
    BY <1>5 DEF AnswerLoad, client
  <2>2. owed \in Coroutines
    BY <1>1, <2>1 DEF ServiceTypes
  <2>3. QED
    BY <1>2, <1>3, <2>1, <2>2, ReplyOrder
<1>6. CASE ServeConfirm
  <2>1. /\ inbox # <<>> /\ Head(inbox).op = "confirm" /\ heap' = DecRef(heap, Head(inbox).pointer)
        /\ UNCHANGED <<files, loads>> /\ UNCHANGED <<views, cache, replies>>
    BY <1>6 DEF ServeConfirm, Ready, client
  <2>2. Head(inbox).pointer \in Ptr
    BY <1>1, <2>1, FirstMessage
  <2>3. ASSUME NEW q \in Ptr
        PROVE  heap'[q] = heap[q] \/ \E x : heap'[q] = [heap[q] EXCEPT !.ref = x]
    <3>1. heap'[q] = heap[q] \/ heap'[q] = [heap[q] EXCEPT !.ref = heap[q].ref - 1]
      BY <1>1, <2>1, <2>2 DEF DecRef, ServiceTypes
    <3>2. QED
      BY <3>1
  <2>4. SameGraphs
    BY <1>1, <2>1, <2>3, CountsChange
  <2>5. QED
    BY <2>1, <2>4, QuietStep
<1>7. CASE CollectCheck
  <2>1. UNCHANGED <<files, loads, heap>> /\ UNCHANGED <<views, cache, replies>>
    BY <1>7 DEF CollectCheck, client
  <2>2. QED
    BY <1>3, <2>1, QuietStep
<1>8. QED
  BY <1>4, <1>5, <1>6, <1>7, ServeLoadOrder, CollectDeleteOrder, ServeQueryOrder DEF Service

-----------------------------------------------------------------------------
(* The steps of the clients *)

\* What is left of a mailbox.
LEMMA MailKept ==
    ASSUME ClientTypes, NEW c \in Clients, replies'[c] = replies[c]
    PROVE  Drops(c, 0)
<1>1. replies[c] \in Seq(ReplyMsg)
  BY DEF ClientTypes
<1>2. \A j \in DOMAIN replies[c] : j \in Nat /\ j + 0 = j
  BY <1>1, LenProperties
<1>3. QED
  BY <1>2 DEF Drops

\* The rest, when its first answer is done with.
LEMMA MailResumed ==
    ASSUME ClientTypes, NEW c \in Clients, replies[c] # <<>>, Resume(c)
    PROVE  Drops(c, 1)
<1>1. replies'[c] = Tail(replies[c])
  BY ResumeStep
<1>2. \A j \in DOMAIN Tail(replies[c]) :
         j \in Nat /\ j + 1 \in DOMAIN replies[c] /\ Tail(replies[c])[j] = replies[c][j + 1]
  BY FirstAnswer
<1>3. QED
  BY <1>1, <1>2 DEF Drops

\* The rest, when one name of the first answer is handled.
LEMMA MailHandled ==
    ASSUME ClientTypes, NEW c \in Clients, replies[c] # <<>>,
           NEW n \in DOMAIN Answer(c).pointers, Handled(c, n)
    PROVE  /\ Drops(c, 0) /\ 1 \in DOMAIN replies'[c] /\ n \notin DOMAIN replies'[c][1].pointers
<1>1. /\ DOMAIN replies'[c] = DOMAIN replies[c]
      /\ \A j \in 2 .. Len(replies[c]) : replies'[c][j] = replies[c][j]
      /\ replies'[c][1].pointers = [m \in DOMAIN Answer(c).pointers \ {n} |-> Answer(c).pointers[m]]
  BY HandledStep
<1>2. /\ 1 \in DOMAIN replies[c] /\ Answer(c) = replies[c][1]
      /\ \A j \in DOMAIN replies[c] : j = 1 \/ j \in 2 .. Len(replies[c])
      /\ Len(replies[c]) \in Nat
  BY FirstAnswer
<1>3. \A j \in DOMAIN replies[c] : j \in Nat /\ j + 0 = j
  BY <1>2
<1>4. ASSUME NEW j \in DOMAIN replies'[c], NEW m \in DOMAIN replies'[c][j].pointers
      PROVE  m \in DOMAIN replies[c][j].pointers /\ replies'[c][j].pointers[m] = replies[c][j].pointers[m]
  <2>1. CASE j = 1
    BY <1>1, <1>2, <1>4, <2>1
  <2>2. CASE j # 1
    BY <1>1, <1>2, <1>4, <2>2
  <2>3. QED
    BY <2>1, <2>2
<1>5. Drops(c, 0)
  BY <1>1, <1>3, <1>4 DEF Drops
<1>6. QED
  BY <1>1, <1>2, <1>5

\* A load or a query returns.
LEMMA ReturnOrder ==
    ASSUME IInv, OrderInv, NEW c \in Clients, Return(c)
    PROVE  Ordered
<1>1. ServiceTypes /\ ClientTypes
  BY DEF IInv
<1>2. /\ replies[c] # <<>> /\ Resume(c)
      /\ UNCHANGED <<files, loads, heap>> /\ UNCHANGED <<views, cache>>
  BY DEF Return, Arrived, service, client
<1>3. Drops(c, 1) /\ OthersKept(c)
  BY <1>1, <1>2, MailResumed, ResumeStep DEF OthersKept
<1>4. SameGraphs
  BY <1>2 DEF SameGraphs
<1>5. ASSUME NEW v \in View PROVE ViewOrder(c, v)' /\ Behind(c, v) /\ ViewGrows(c, v)
  <2>1. CASE views[c][v] = NoView
    <3>1. Mild(c, v)
      BY <1>2, <2>1 DEF Mild
    <3>2. QED
      BY <1>3, <1>4, <3>1, MildView
  <2>2. CASE views[c][v] # NoView
    <3>1. Mild(c, v)
      BY <1>2, <2>2 DEF Mild
    <3>2. QED
      BY <1>3, <1>4, <3>1, MildView
  <2>3. QED
    BY <2>1, <2>2
<1>6. \A n \in Names : CacheOrder(c, n)' /\ CacheGrows(c, n)
  BY <1>2, <1>4, ViewsKept
<1>7. QED
  BY <1>3, <1>4, <1>5, <1>6, OneClient

\* A step that changes one view's proxies: its cache entries go when its root does.
LEMMA ProxyOrder ==
    ASSUME IInv, OrderInv, NEW c \in Clients, NEW v \in View, NEW x \in ViewRec,
           views' = [views EXCEPT ![c][v] = x], views[c][v] # NoView,
           x.name = views[c][v].name, x.pointer = views[c][v].pointer,
           x.doc = views[c][v].doc, x.pending = views[c][v].pending,
           SameGraphs, \A e \in Clients \ {c} : replies'[e] = replies[e], Drops(c, 0),
           \/ x.root # "gone" /\ cache' = cache
           \/ cache' = [cache EXCEPT ![c] = [n \in Names |-> IF cache[c][n] = v THEN Nil ELSE cache[c][n]]]
    PROVE  Ordered
<1>1. ClientTypes
  BY DEF IInv
<1>2. /\ views'[c][v] = x /\ \A e \in Clients \ {c} : views'[e] = views[e]
      /\ \A u \in View \ {v} : views'[c][u] = views[c][u]
  BY <1>1, ViewsOne, ZenonT(30)
<1>3. /\ \A e \in Clients \ {c} : cache'[e] = cache[e]
      /\ \A n \in Names : cache'[c][n] \in {cache[c][n], Nil}
      /\ x.root # "gone" \/ \A n \in Names : cache'[c][n] # v
  <2>1. cache \in [Clients -> [Names -> View \cup {Nil}]] /\ v # Nil
    BY <1>1, ShareTableAssumption DEF ClientTypes, View
  <2>2. CASE x.root # "gone" /\ cache' = cache
    BY <2>1, <2>2
  <2>3. CASE cache' = [cache EXCEPT ![c] = [n \in Names |-> IF cache[c][n] = v THEN Nil ELSE cache[c][n]]]
    <3>1. \A n \in Names : cache'[c][n] = IF cache[c][n] = v THEN Nil ELSE cache[c][n]
      BY <2>1, <2>3
    <3>2. \A e \in Clients \ {c} : cache'[e] = cache[e]
      BY <2>1, <2>3
    <3>3. QED
      BY <2>1, <3>1, <3>2
  <2>4. QED
    BY <2>2, <2>3
<1>4. OthersKept(c)
  BY <1>2, <1>3 DEF OthersKept
<1>5. \A u \in View : Mild(c, u)
  BY <1>2 DEF Mild
<1>6. ASSUME NEW n \in Names PROVE MildCache(c, n)
  <2> DEFINE u == cache[c][n]
  <2>1. CASE cache'[c][n] = Nil
    BY <2>1 DEF MildCache
  <2>2. CASE cache'[c][n] # Nil
    <3>1. cache'[c][n] = u /\ u # Nil
      BY <1>3, <2>2
    <3>2. u \in View /\ views[c][u].name = n /\ views[c][u].root # "gone"
      BY <1>1, <3>1 DEF ClientTypes, OrderInv, ClientOrder, CacheOrder, Listed
    <3>3. views'[c][u].root # "gone" /\ views'[c][u].name = n
      BY <1>2, <1>3, <3>1, <3>2
    <3>4. views'[c][u] # NoView
      BY <3>3, ShareTableAssumption DEF NoView
    <3>5. QED
      BY <3>1, <3>3, <3>4 DEF MildCache
  <2>3. QED
    BY <2>1, <2>2
<1>7. QED
  BY <1>4, <1>5, <1>6, MildStep

\* The application takes or drops a proxy, or the collector clears one.
LEMMA ProxiesOrder ==
    ASSUME IInv, OrderInv, NEW c \in Clients, NEW v \in View,
           Nest(c, v) \/ DropNested(c, v) \/ DropRoot(c, v) \/ CollectRoot(c, v)
    PROVE  Ordered
<1> DEFINE w == views[c][v]
<1>1. ClientTypes /\ ViewInv
  BY DEF IInv
<1>2. w.root # "gone" \/ w.nested
  BY DEF Nest, DropNested, DropRoot, CollectRoot
<1>3. w \in ViewRec /\ w # NoView
  BY <1>1, <1>2, ProxyView
<1>4. UNCHANGED <<files, loads, heap>> /\ UNCHANGED replies
  BY DEF Nest, DropNested, DropRoot, CollectRoot, service
<1>5. SameGraphs /\ Drops(c, 0) /\ \A e \in Clients \ {c} : replies'[e] = replies[e]
  BY <1>1, <1>4, MailKept DEF SameGraphs
<1>6. CASE Nest(c, v)
  <2> DEFINE x == [w EXCEPT !.nested = TRUE]
  <2>1. views' = [views EXCEPT ![c][v] = x] /\ cache' = cache /\ w.root = "held"
    BY <1>6 DEF Nest
  <2>2. /\ x \in ViewRec /\ x.doc = w.doc /\ x.pending = w.pending /\ x.name = w.name
        /\ x.pointer = w.pointer /\ x.root = w.root
    <3> HIDE DEF w
    <3>1. QED
      BY <1>3 DEF ViewRec
  <2> HIDE DEF x
  <2>3. QED
    BY <1>3, <1>5, <2>1, <2>2, ProxyOrder
<1>7. CASE DropNested(c, v)
  <2> DEFINE x == [w EXCEPT !.nested = FALSE]
  <2>1. views' = [views EXCEPT ![c][v] = x] /\ cache' = cache
    BY <1>7 DEF DropNested
  <2>2. /\ x \in ViewRec /\ x.doc = w.doc /\ x.pending = w.pending /\ x.name = w.name
        /\ x.pointer = w.pointer /\ x.root = w.root
    <3> HIDE DEF w
    <3>1. QED
      BY <1>3 DEF ViewRec
  <2> HIDE DEF x
  <2>3. CASE w.root # "gone"
    BY <1>3, <1>5, <2>1, <2>2, <2>3, ProxyOrder
  <2>4. CASE w.root = "gone"
    <3>1. \A n \in Names : cache[c][n] # v
      BY <2>4, ShareTableAssumption DEF OrderInv, ClientOrder, CacheOrder, Listed, View
    <3>2. cache' = [cache EXCEPT ![c] = [n \in Names |-> IF cache[c][n] = v THEN Nil ELSE cache[c][n]]]
      <4>1. cache \in [Clients -> [Names -> View \cup {Nil}]]
        BY <1>1 DEF ClientTypes
      <4>2. [n \in Names |-> IF cache[c][n] = v THEN Nil ELSE cache[c][n]] = cache[c]
        BY <3>1, <4>1
      <4>3. QED
        BY <2>1, <4>1, <4>2
    <3>3. QED
      BY <1>3, <1>5, <2>1, <2>2, <3>2, ProxyOrder
  <2>5. QED
    BY <2>3, <2>4
<1>8. CASE DropRoot(c, v)
  <2> DEFINE x == [w EXCEPT !.root = "weak"]
  <2>1. views' = [views EXCEPT ![c][v] = x] /\ cache' = cache
    BY <1>8 DEF DropRoot
  <2>2. /\ x \in ViewRec /\ x.doc = w.doc /\ x.pending = w.pending /\ x.name = w.name
        /\ x.pointer = w.pointer /\ x.root # "gone"
    <3> HIDE DEF w
    <3>1. QED
      BY <1>3 DEF ViewRec
  <2> HIDE DEF x
  <2>3. QED
    BY <1>3, <1>5, <2>1, <2>2, ProxyOrder
<1>9. CASE CollectRoot(c, v)
  <2> DEFINE x == [w EXCEPT !.root = "gone"]
  <2>1. /\ views' = [views EXCEPT ![c][v] = x]
        /\ cache' = [cache EXCEPT ![c] = [n \in Names |-> IF cache[c][n] = v THEN Nil ELSE cache[c][n]]]
    BY <1>1, <1>9 DEF CollectRoot, ClientTypes
  <2>2. /\ x \in ViewRec /\ x.doc = w.doc /\ x.pending = w.pending /\ x.name = w.name
        /\ x.pointer = w.pointer
    <3> HIDE DEF w
    <3>1. QED
      BY <1>3 DEF ViewRec
  <2> HIDE DEF x
  <2>3. QED
    BY <1>3, <1>5, <2>1, <2>2, ProxyOrder
<1>10. QED
  BY <1>6, <1>7, <1>8, <1>9

\* The cached view already shows the graph.
LEMMA BoxCachedOrder ==
    ASSUME IInv, OrderInv, NEW c \in Clients, BoxCached(c)
    PROVE  Ordered
<1>1. ServiceTypes /\ ClientTypes
  BY DEF IInv
<1>2. replies[c] # <<>> /\ UNCHANGED <<files, loads, heap>> /\ cache' = cache
  BY DEF BoxCached, Arrived, service
<1>3. PICK n \in DOMAIN Answer(c).pointers :
         /\ cache[c][n] # Nil
         /\ views' = [views EXCEPT ![c][cache[c][n]].root = "held"]
         /\ Handled(c, n)
  BY DEF BoxCached
<1> DEFINE v == cache[c][n]
           w == views[c][v]
           x == [w EXCEPT !.root = "held"]
<1>4. n \in Names /\ n # Nil
  BY <1>1, <1>2, FirstAnswer, ShareTableAssumption
<1>5. v \in View /\ w \in ViewRec
  BY <1>1, <1>3, <1>4 DEF ClientTypes
<1>6. w # NoView
  <2>1. w.name = n
    BY <1>3, <1>4 DEF OrderInv, ClientOrder, CacheOrder, Listed
  <2>2. QED
    BY <1>4, <2>1 DEF NoView
<1>7. views' = [views EXCEPT ![c][v] = x]
  BY <1>3
<1>8. /\ x \in ViewRec /\ x.doc = w.doc /\ x.pending = w.pending /\ x.name = w.name
      /\ x.pointer = w.pointer /\ x.root # "gone"
  <2> HIDE DEF w
  <2>1. QED
    BY <1>5 DEF ViewRec
<1> HIDE DEF x
<1>9. Drops(c, 0) /\ \A e \in Clients \ {c} : replies'[e] = replies[e]
  BY <1>1, <1>2, <1>3, MailHandled, HandledStep
<1>10. SameGraphs
  BY <1>2 DEF SameGraphs
<1> HIDE DEF v
<1>11. QED
  BY <1>2, <1>5, <1>6, <1>7, <1>8, <1>9, <1>10, ProxyOrder

\* A cache that stays, of views that keep their names and roots.
LEMMA CacheFollows ==
    ASSUME IInv, OrderInv, NEW c \in Clients, cache'[c] = cache[c],
           \A u \in View : views[c][u] # NoView =>
              views'[c][u].name = views[c][u].name /\ views'[c][u].root = views[c][u].root,
           \A u \in View : ViewGrows(c, u)
    PROVE  \A n \in Names : CacheOrder(c, n)' /\ CacheGrows(c, n)
<1> SUFFICES ASSUME NEW n \in Names, cache[c][n] # Nil
             PROVE  CacheOrder(c, n)' /\ CacheGrows(c, n)
  BY DEF CacheOrder, CacheGrows
<1> DEFINE u == cache[c][n]
<1>1. u \in View /\ views[c][u].name = n /\ views[c][u].root # "gone"
  BY DEF IInv, ClientTypes, OrderInv, ClientOrder, CacheOrder, Listed
<1>2. views[c][u] # NoView
  BY <1>1, ShareTableAssumption DEF NoView
<1>3. views'[c][u].name = n /\ views'[c][u].root # "gone" /\ ViewGrows(c, u)
  BY <1>1, <1>2
<1>4. views'[c][u] # NoView
  BY <1>3, ShareTableAssumption DEF NoView
<1>5. CacheOrder(c, n)'
  BY <1>3 DEF CacheOrder, Listed
<1>6. CacheGrows(c, n)
  BY <1>2, <1>3, <1>4 DEF CacheGrows, ViewGrows
<1>7. QED
  BY <1>5, <1>6

\* A read switches a view to its pending graph.
LEMMA AccessOrder ==
    ASSUME IInv, OrderInv, NEW c \in Clients, NEW v \in View, Access(c, v)
    PROVE  Ordered
<1> DEFINE w == views[c][v]
           x == [w EXCEPT !.doc = w.pending, !.pending = Nil]
<1>1. ServiceTypes /\ ClientTypes /\ ViewInv
  BY DEF IInv
<1>2. w \in ViewRec /\ w # NoView /\ w.pending # Nil
  BY <1>1, ProxyView DEF Access
<1>3. w.pending \in Ptr
  BY <1>2 DEF ViewRec
<1>4. /\ views' = [views EXCEPT ![c][v] = x] /\ cache' = cache /\ replies' = replies
      /\ UNCHANGED <<files, loads, heap>>
  BY <1>1 DEF Access, service, ClientTypes
<1>5. /\ x \in ViewRec /\ x.doc = w.pending /\ x.pending = Nil /\ x.name = w.name
      /\ x.pointer = w.pointer /\ x.root = w.root
  <2> HIDE DEF w
  <2>1. QED
    BY <1>2, <1>3 DEF ViewRec
<1> HIDE DEF x
<1>6. /\ views'[c][v] = x /\ \A e \in Clients \ {c} : views'[e] = views[e]
      /\ \A u \in View \ {v} : views'[c][u] = views[c][u]
  BY <1>1, <1>4, <1>5, ViewsOne
<1>7. SameGraphs /\ OthersKept(c) /\ Drops(c, 0)
  BY <1>1, <1>4, <1>6, MailKept DEF SameGraphs, OthersKept
<1>8. ASSUME NEW u \in View PROVE ViewOrder(c, u)' /\ Behind(c, u) /\ ViewGrows(c, u)
  <2>1. CASE u = v
    <3>1. Behind(c, v) /\ ViewGrows(c, v)
      BY <1>2, <1>5, <1>6, <1>7, StillBehind
    <3>2. ViewOrder(c, v)
      BY DEF OrderInv, ClientOrder
    <3>3. w.pointer = w.pending /\ HeldFor(w.name, w.pointer) /\ w.pointer \in Ptr
      BY <1>2, <3>2, ViewParts DEF ViewOrder
    <3>4. Version(w.pointer) \in Nat
      BY <1>1, <3>3, VersionType
    <3>5. ViewOrder(c, v)'
      BY <1>4, <1>5, <1>6, <3>3, <3>4 DEF ViewOrder, HeldFor, Version
    <3>6. QED
      BY <2>1, <3>1, <3>5
  <2>2. CASE u # v
    <3>1. Mild(c, u)
      BY <1>6, <2>2 DEF Mild
    <3>2. QED
      BY <1>7, <3>1, MildView
  <2>3. QED
    BY <2>1, <2>2
<1>9. \A n \in Names : CacheOrder(c, n)' /\ CacheGrows(c, n)
  <2>1. \A u \in View : views'[c][u].name = views[c][u].name /\ views'[c][u].root = views[c][u].root
    BY <1>5, <1>6
  <2>2. QED
    BY <1>4, <1>8, <2>1, CacheFollows
<1>10. QED
  BY <1>7, <1>8, <1>9, OneClient

\* The answer at the head of a mailbox.
LEMMA HeadOrder ==
    ASSUME IInv, OrderInv, NEW c \in Clients, replies[c] # <<>>, NEW n \in DOMAIN Answer(c).pointers
    PROVE  /\ n \in Names /\ Answer(c).pointers[n] \in Ptr
           /\ HeldFor(n, Answer(c).pointers[n])
           /\ \A v \in View : views[c][v].name = n =>
                 Version(views[c][v].pointer) <= Version(Answer(c).pointers[n])
           /\ \A i \in DOMAIN replies[c] : i > 1 /\ n \in DOMAIN replies[c][i].pointers =>
                 Version(Answer(c).pointers[n]) <= Version(replies[c][i].pointers[n])
<1>1. 1 \in DOMAIN replies[c] /\ Answer(c) = replies[c][1]
  BY FirstAnswer DEF IInv
<1>2. AnswerOrder(c, 1, n)
  BY <1>1 DEF OrderInv, ClientOrder
<1>3. QED
  BY <1>1, <1>2, AnswerParts DEF AnswerOrder

\* A new view of an answer's graph.
LEMMA BoxNewOrder ==
    ASSUME IInv, OrderInv, NEW c \in Clients, BoxNew(c)
    PROVE  Ordered
<1>1. ServiceTypes /\ ClientTypes
  BY DEF IInv
<1>2. replies[c] # <<>> /\ UNCHANGED <<files, loads>>
  BY DEF BoxNew, Arrived, service
<1>3. PICK n \in DOMAIN Answer(c).pointers, v \in View :
         /\ views[c][v] = NoView
         /\ views' = [views EXCEPT ![c][v] =
                        [name |-> n, pointer |-> Answer(c).pointers[n], doc |-> Answer(c).pointers[n],
                         pending |-> Nil, root |-> "held", nested |-> FALSE]]
         /\ cache' = [cache EXCEPT ![c][n] = v]
         /\ heap' = IncRef(heap, Answer(c).pointers[n], 1)
         /\ Handled(c, n)
  BY DEF BoxNew
<1> DEFINE p == Answer(c).pointers[n]
           x == [name |-> n, pointer |-> p, doc |-> p, pending |-> Nil, root |-> "held", nested |-> FALSE]
<1>4. /\ n \in Names /\ p \in Ptr /\ p # Nil /\ n # Nil /\ v # Nil /\ HeldFor(n, p)
      /\ \A u \in View : views[c][u].name = n => Version(views[c][u].pointer) <= Version(p)
      /\ \A i \in DOMAIN replies[c] : i > 1 /\ n \in DOMAIN replies[c][i].pointers =>
                 Version(p) <= Version(replies[c][i].pointers[n])
  BY <1>2, HeadOrder, ShareTableAssumption DEF View
<1>5. views' = [views EXCEPT ![c][v] = x] /\ heap' = IncRef(heap, p, 1)
  BY <1>3
<1> HIDE DEF p
<1>6. x \in ViewRec /\ x.doc = p /\ x.pending = Nil /\ x.name = n /\ x.pointer = p /\ x.root = "held"
  BY <1>4 DEF ViewRec
<1> HIDE DEF x
<1>7. /\ views'[c][v] = x /\ \A e \in Clients \ {c} : views'[e] = views[e]
      /\ \A u \in View \ {v} : views'[c][u] = views[c][u]
  BY <1>1, <1>5, <1>6, ViewsOne
<1>8. /\ \A e \in Clients \ {c} : cache'[e] = cache[e]
      /\ cache'[c][n] = v /\ \A m \in Names \ {n} : cache'[c][m] = cache[c][m]
  <2>1. cache \in [Clients -> [Names -> View \cup {Nil}]]
    BY <1>1 DEF ClientTypes
  <2>2. QED
    BY <1>3, <1>4, <2>1
<1>9. SameGraphs
  <2>1. ASSUME NEW q \in Ptr
        PROVE  heap'[q] = heap[q] \/ \E y : heap'[q] = [heap[q] EXCEPT !.ref = y]
    <3>1. heap'[q] = heap[q] \/ heap'[q] = [heap[q] EXCEPT !.ref = heap[q].ref + 1]
      BY <1>1, <1>4, <1>5 DEF IncRef, ServiceTypes
    <3>2. QED
      BY <3>1
  <2>2. QED
    BY <1>1, <1>2, <2>1, CountsChange
<1>10. /\ Drops(c, 0) /\ n \notin DOMAIN replies'[c][1].pointers
       /\ \A e \in Clients \ {c} : replies'[e] = replies[e]
  BY <1>1, <1>2, <1>3, MailHandled, HandledStep
<1>11. OthersKept(c)
  BY <1>7, <1>8, <1>10 DEF OthersKept
<1>12. Version(p) \in Nat
  BY <1>1, <1>4, VersionType
<1>13. \A q \in Ptr : heap'[q].version = heap[q].version /\ heap'[q].dirty = heap[q].dirty
  BY <1>9 DEF SameGraphs
<1>14. ASSUME NEW u \in View PROVE ViewOrder(c, u)' /\ Behind(c, u) /\ ViewGrows(c, u)
  <2>1. CASE u = v
    <3>1. ViewGrows(c, v)
      BY <1>3 DEF ViewGrows
    <3>2. ASSUME NEW j \in DOMAIN replies'[c], n \in DOMAIN replies'[c][j].pointers
          PROVE  Version(p) <= Version(replies'[c][j].pointers[n])
      <4>1. /\ j + 0 \in DOMAIN replies[c] /\ j \in Nat /\ n \in DOMAIN replies[c][j + 0].pointers
            /\ replies'[c][j].pointers[n] = replies[c][j + 0].pointers[n]
        BY <1>10, <3>2 DEF Drops
      <4>2. j + 0 = j /\ j # 1 /\ j # 0
        <5>1. replies[c] \in Seq(ReplyMsg)
          BY <1>1 DEF ClientTypes
        <5>2. 0 \notin DOMAIN replies[c]
          BY <5>1, LenProperties
        <5>3. QED
          BY <1>10, <3>2, <4>1, <5>2
      <4>3. j > 1
        BY <4>1, <4>2
      <4>4. QED
        BY <1>4, <4>1, <4>2, <4>3
    <3>3. Behind(c, v)
      BY <1>6, <1>7, <3>2 DEF Behind
    <3>4. ViewOrder(c, v)'
      <4>1. files'[n] = files[n] /\ files[n] \in Ptr
        BY <1>1, <1>2, <1>4 DEF HeldFor, ServiceTypes
      <4>2. /\ p # files[n] => heap'[p].dirty
            /\ heap'[p].version <= heap'[files[n]].version /\ heap'[p].version <= heap'[p].version
        BY <1>4, <1>12, <1>13, <4>1 DEF HeldFor, Version
      <4>3. QED
        BY <1>4, <1>6, <1>7, <4>1, <4>2 DEF ViewOrder, HeldFor, Version
    <3>5. QED
      BY <2>1, <3>1, <3>3, <3>4
  <2>2. CASE u # v
    <3>1. Mild(c, u)
      BY <1>7, <2>2 DEF Mild
    <3>2. QED
      BY <1>9, <1>10, <3>1, MildView
  <2>3. QED
    BY <2>1, <2>2
<1>15. ASSUME NEW m \in Names PROVE CacheOrder(c, m)' /\ CacheGrows(c, m)
  <2> DEFINE u == cache[c][m]
  <2>1. u # Nil => /\ u \in View /\ views[c][u].name = m /\ views[c][u].root # "gone"
                   /\ views[c][u] # NoView
    BY ShareTableAssumption DEF IInv, ClientTypes, OrderInv, ClientOrder, CacheOrder, Listed, NoView
  <2>2. CASE m = n
    <3>1. CacheOrder(c, n)'
      BY <1>6, <1>7, <1>8 DEF CacheOrder, Listed
    <3>2. ASSUME u # Nil PROVE heap[views[c][u].pointer].version <= heap'[p].version
      BY <1>4, <1>13, <2>1, <2>2, <3>2 DEF Version
    <3>3. CacheGrows(c, n)
      BY <1>6, <1>7, <1>8, <2>2, <3>2 DEF CacheGrows
    <3>4. QED
      BY <2>2, <3>1, <3>3
  <2>3. CASE m # n
    <3>1. cache'[c][m] = u
      BY <1>8, <2>3
    <3>2. CASE u = Nil
      BY <3>1, <3>2 DEF CacheOrder, CacheGrows
    <3>3. CASE u # Nil
      <4>1. u # v
        BY <1>3, <2>1, <3>3
      <4>2. views'[c][u] = views[c][u] /\ ViewGrows(c, u)
        BY <1>7, <1>14, <2>1, <3>3, <4>1
      <4>3. CacheOrder(c, m)'
        BY <2>1, <3>1, <3>3, <4>2 DEF CacheOrder, Listed
      <4>4. CacheGrows(c, m)
        BY <2>1, <3>1, <3>3, <4>2 DEF CacheGrows, ViewGrows
      <4>5. QED
        BY <4>3, <4>4
    <3>4. QED
      BY <3>2, <3>3
  <2>4. QED
    BY <2>2, <2>3
<1>16. QED
  BY <1>9, <1>10, <1>11, <1>14, <1>15, OneClient

\* An update moves views forward.
LEMMA UpdateOrder ==
    ASSUME IInv, OrderInv, NEW c \in Clients, Update(c)
    PROVE  Ordered
<1>1. ServiceTypes /\ ClientTypes
  BY DEF IInv
<1>2. replies[c] # <<>> /\ Resume(c) /\ UNCHANGED <<files, loads>> /\ cache' = cache
  BY DEF Update, Arrived, service
<1>3. PICK n \in DOMAIN Answer(c).pointers :
         MoveViews(c, Stale(c, n, Answer(c).pointers[n]), Answer(c).pointers[n])
  BY DEF Update
<1> DEFINE p == Answer(c).pointers[n]
           S == Stale(c, n, p)
<1>4. /\ n \in Names /\ p \in Ptr /\ p # Nil /\ n # Nil /\ HeldFor(n, p)
      /\ \A u \in View : views[c][u].name = n => Version(views[c][u].pointer) <= Version(p)
      /\ \A i \in DOMAIN replies[c] : i > 1 /\ n \in DOMAIN replies[c][i].pointers =>
                 Version(p) <= Version(replies[c][i].pointers[n])
  BY <1>2, HeadOrder, ShareTableAssumption
<1>5. MoveViews(c, S, p)
  BY <1>3
<1>6. \A v \in S : v \in View /\ views[c][v].name = n
  BY DEF Stale, Listed
<1> HIDE DEF p, S
<1>7. views \in [Clients -> [View -> ViewRec]]
  BY <1>1 DEF ClientTypes
<1>8. /\ \A e \in Clients \ {c} : views'[e] = views[e]
      /\ \A v \in View \ S : views'[c][v] = views[c][v]
      /\ \A v \in S : views'[c][v] = [views[c][v] EXCEPT !.pointer = p, !.pending = p]
  BY <1>5, <1>6, <1>7 DEF MoveViews
<1>9. ASSUME NEW v \in S
      PROVE  /\ views'[c][v].name = n /\ views'[c][v].pointer = p /\ views'[c][v].pending = p
             /\ views'[c][v].doc = views[c][v].doc /\ views'[c][v].root = views[c][v].root
  <2> DEFINE w == views[c][v]
  <2>1. w \in ViewRec /\ w.name = n /\ views'[c][v] = [w EXCEPT !.pointer = p, !.pending = p]
    BY <1>6, <1>7, <1>8
  <2> HIDE DEF w
  <2>2. /\ views'[c][v].name = n /\ views'[c][v].pointer = p /\ views'[c][v].pending = p
        /\ views'[c][v].doc = w.doc /\ views'[c][v].root = w.root
    BY <2>1 DEF ViewRec
  <2>3. QED
    BY <2>2 DEF w
<1>10. SameGraphs
  <2>1. ASSUME NEW q \in Ptr
        PROVE  heap'[q] = heap[q] \/ \E y : heap'[q] = [heap[q] EXCEPT !.ref = y]
    <3>1. heap'[q] = heap[q] \/ heap'[q] = [heap[q] EXCEPT !.ref = heap[q].ref + Cardinality(S)]
      BY <1>1, <1>4, <1>5 DEF MoveViews, IncRef, ServiceTypes
    <3>2. QED
      BY <3>1
  <2>2. QED
    BY <1>1, <1>2, <2>1, CountsChange
<1>11. Drops(c, 1) /\ \A e \in Clients \ {c} : replies'[e] = replies[e]
  BY <1>1, <1>2, MailResumed, ResumeStep
<1>12. OthersKept(c)
  BY <1>2, <1>8, <1>11 DEF OthersKept
<1>13. \A q \in Ptr : /\ heap'[q].version = heap[q].version /\ heap'[q].dirty = heap[q].dirty
                      /\ heap[q].version \in Nat
  BY <1>1, <1>10, VersionType DEF SameGraphs, Version
<1>14. ASSUME NEW v \in View PROVE ViewOrder(c, v)' /\ Behind(c, v) /\ ViewGrows(c, v)
  <2>1. CASE v \in S
    <3> DEFINE w == views[c][v]
    <3>1. w # NoView /\ w.name = n
      BY <1>4, <1>6, <2>1 DEF NoView
    <3>2. w.doc \in Ptr /\ w.pointer \in Ptr
      BY <3>1, ViewParts
    <3>3. ViewOrder(c, v)
      BY DEF OrderInv, ClientOrder
    <3>4. /\ HeldFor(n, w.doc) /\ Version(w.doc) <= Version(w.pointer)
          /\ Version(w.pointer) <= Version(p)
      BY <1>4, <3>1, <3>3 DEF ViewOrder
    <3>5. heap[w.doc].version <= heap[p].version /\ heap[w.pointer].version <= heap[p].version
      BY <1>4, <1>13, <3>2, <3>4 DEF Version
    <3>6. ViewGrows(c, v)
      BY <1>4, <1>9, <1>13, <2>1, <3>5 DEF ViewGrows
    <3>7. ViewOrder(c, v)'
      <4>1. files'[n] = files[n] /\ files[n] \in Ptr
        BY <1>1, <1>2, <1>4 DEF HeldFor, ServiceTypes
      <4>2. /\ p # files[n] => heap'[p].dirty
            /\ heap'[p].version <= heap'[files[n]].version
        BY <1>4, <1>13, <4>1 DEF HeldFor, Version
      <4>3. /\ w.doc # files[n] => heap'[w.doc].dirty
            /\ heap'[w.doc].version <= heap'[files[n]].version
            /\ heap'[w.doc].version <= heap'[p].version
        BY <1>4, <1>13, <3>2, <3>4, <3>5, <4>1 DEF HeldFor, Version
      <4>4. /\ views'[c][v].name = n /\ views'[c][v].pointer = p /\ views'[c][v].pending = p
            /\ views'[c][v].doc = w.doc
        BY <1>9, <2>1
      <4> HIDE DEF w
      <4>5. QED
        BY <1>4, <3>2, <4>1, <4>2, <4>3, <4>4 DEF ViewOrder, HeldFor, Version
    <3>8. ASSUME NEW j \in DOMAIN replies'[c], n \in DOMAIN replies'[c][j].pointers
          PROVE  Version(p) <= Version(replies'[c][j].pointers[n])
      <4>1. /\ j + 1 \in DOMAIN replies[c] /\ j \in Nat /\ n \in DOMAIN replies[c][j + 1].pointers
            /\ replies'[c][j].pointers[n] = replies[c][j + 1].pointers[n]
        BY <1>11, <3>8 DEF Drops
      <4>2. j # 0
        <5>1. replies'[c] \in Seq(ReplyMsg)
          BY <1>1, <1>2, ResumeStep
        <5>2. QED
          BY <3>8, <5>1, LenProperties
      <4>3. j + 1 > 1
        BY <4>1, <4>2
      <4>4. QED
        BY <1>4, <4>1, <4>3
    <3>9. Behind(c, v)
      BY <1>9, <2>1, <3>8 DEF Behind
    <3>10. QED
      BY <3>6, <3>7, <3>9
  <2>2. CASE v \notin S
    <3>1. Mild(c, v)
      BY <1>8, <2>2 DEF Mild
    <3>2. QED
      BY <1>10, <1>11, <3>1, MildView
  <2>3. QED
    BY <2>1, <2>2
<1>15. \A m \in Names : CacheOrder(c, m)' /\ CacheGrows(c, m)
  <2>1. \A u \in View : views'[c][u].name = views[c][u].name /\ views'[c][u].root = views[c][u].root
    BY <1>6, <1>8, <1>9
  <2>2. QED
    BY <1>2, <1>14, <2>1, CacheFollows
<1>16. QED
  BY <1>10, <1>11, <1>12, <1>14, <1>15, OneClient

\* A view without proxies is not cached, and goes.
LEMMA CollectViewOrder ==
    ASSUME IInv, OrderInv, NEW c \in Clients, NEW v \in View, CollectView(c, v)
    PROVE  Ordered
<1> DEFINE w == views[c][v]
<1>1. ServiceTypes /\ ClientTypes
  BY DEF IInv
<1>2. /\ views' = [views EXCEPT ![c][v] = NoView] /\ w.root = "gone"
      /\ heap' = [q \in Ptr |-> [heap[q] EXCEPT !.ref =
                    heap[q].ref - (IF q = w.doc THEN 1 ELSE 0) - (IF q = w.pending THEN 1 ELSE 0)]]
      /\ UNCHANGED <<files, loads>> /\ cache' = cache /\ replies' = replies
  BY DEF CollectView, service
<1>3. /\ views'[c][v] = NoView /\ \A e \in Clients \ {c} : views'[e] = views[e]
      /\ \A u \in View \ {v} : views'[c][u] = views[c][u]
  BY <1>1, <1>2, NoViewType, ViewsOne
<1>4. SameGraphs
  <2>1. \A q \in Ptr : \E y : heap'[q] = [heap[q] EXCEPT !.ref = y]
    <3>1. ASSUME NEW q \in Ptr PROVE \E y : heap'[q] = [heap[q] EXCEPT !.ref = y]
      <4> DEFINE y == heap[q].ref - (IF q = w.doc THEN 1 ELSE 0) - (IF q = w.pending THEN 1 ELSE 0)
      <4>1. heap'[q] = [heap[q] EXCEPT !.ref = y]
        BY <1>2
      <4> HIDE DEF y
      <4>2. QED
        BY <4>1
    <3>2. QED
      BY <3>1
  <2>2. QED
    BY <1>1, <1>2, <2>1, CountsChange
<1>5. OthersKept(c) /\ Drops(c, 0)
  BY <1>1, <1>2, <1>3, MailKept DEF OthersKept
<1>6. \A u \in View : Mild(c, u)
  BY <1>3 DEF Mild
<1>7. ASSUME NEW n \in Names, cache[c][n] # Nil
      PROVE  /\ views'[c][cache[c][n]] # NoView /\ views'[c][cache[c][n]].root # "gone"
  <2> DEFINE u == cache[c][n]
  <2>1. u \in View /\ views[c][u].name = n /\ views[c][u].root # "gone"
    BY <1>1, <1>7 DEF ClientTypes, OrderInv, ClientOrder, CacheOrder, Listed
  <2>2. u # v
    BY <1>2, <2>1
  <2>3. QED
    BY <1>3, <2>1, <2>2, ShareTableAssumption DEF NoView
<1>8. \A n \in Names : MildCache(c, n)
  BY <1>2, <1>7 DEF MildCache
<1>9. QED
  BY <1>4, <1>5, <1>6, <1>8, MildStep

\* A box is finalised.
LEMMA FinaliseOrder ==
    ASSUME IInv, OrderInv, NEW c \in Clients, Finalise(c)
    PROVE  Ordered
<1>1. ServiceTypes
  BY DEF IInv
<1>2. PICK p \in Ptr : heap' = DecRef(heap, p)
  BY DEF Finalise
<1>3. UNCHANGED <<files, loads>> /\ UNCHANGED <<views, cache, replies>>
  BY DEF Finalise, service
<1>4. SameGraphs
  <2>1. ASSUME NEW q \in Ptr
        PROVE  heap'[q] = heap[q] \/ \E y : heap'[q] = [heap[q] EXCEPT !.ref = y]
    <3>1. heap'[q] = heap[q] \/ heap'[q] = [heap[q] EXCEPT !.ref = heap[q].ref - 1]
      BY <1>1, <1>2 DEF DecRef, ServiceTypes
    <3>2. QED
      BY <3>1
  <2>2. QED
    BY <1>1, <1>3, <2>1, CountsChange
<1>5. QED
  BY <1>3, <1>4, QuietStep

\* A client exits.
LEMMA ExitOrder ==
    ASSUME IInv, OrderInv, NEW c \in Clients, Exit(c)
    PROVE  Ordered
<1>1. ServiceTypes /\ ClientTypes
  BY DEF IInv
<1>2. /\ heap' = [p \in Ptr |-> [heap[p] EXCEPT !.ref = heap[p].ref - Boxes(c, p)]]
      /\ replies' = [replies EXCEPT ![c] = <<>>]
      /\ views' = [views EXCEPT ![c] = [v \in View |-> NoView]]
      /\ cache' = [cache EXCEPT ![c] = [n \in Names |-> Nil]]
      /\ UNCHANGED <<files, loads>>
  BY DEF Exit, service
<1>3. SameGraphs
  <2>1. \A q \in Ptr : \E y : heap'[q] = [heap[q] EXCEPT !.ref = y]
    BY <1>2
  <2>2. QED
    BY <1>1, <1>2, <2>1, CountsChange
<1>4. /\ \A v \in View : views'[c][v] = NoView /\ \A n \in Names : cache'[c][n] = Nil
      /\ \A n \in Names : cache'[c][n] = Nil
      /\ replies'[c] = <<>> /\ OthersKept(c)
  BY <1>1, <1>2 DEF ClientTypes, OthersKept
<1>5. Drops(c, 0)
  BY <1>4, EmptyAnswer DEF Drops
<1>6. (\A v \in View : Mild(c, v)) /\ \A n \in Names : MildCache(c, n)
  BY <1>4 DEF Mild, MildCache
<1>7. QED
  BY <1>3, <1>4, <1>5, <1>6, MildStep

-----------------------------------------------------------------------------
(* The theorems *)

\* Initially there is nothing to order.
LEMMA InitOrder == Init => OrderInv
<1> SUFFICES ASSUME Init PROVE OrderInv
  OBVIOUS
<1>1. VersionInv
  BY DEF Init, VersionInv, Version, NoGraph
<1>2. ASSUME NEW c \in Clients PROVE ClientOrder(c)
  <2>1. replies[c] = <<>> /\ \A n : n \notin DOMAIN replies[c]
    BY EmptyAnswer DEF Init
  <2>2. \A v \in View : ViewOrder(c, v)
    BY DEF Init, ViewOrder
  <2>3. \A n \in Names : CacheOrder(c, n)
    BY DEF Init, CacheOrder
  <2>4. QED
    BY <2>1, <2>2, <2>3 DEF ClientOrder
<1>3. QED
  BY <1>1, <1>2 DEF OrderInv

\* Every step is ordered.
LEMMA NextOrder == IInv /\ OrderInv /\ [Next]_vars => Ordered
<1> SUFFICES ASSUME IInv, OrderInv, [Next]_vars PROVE Ordered
  OBVIOUS
<1>1. CASE Service
  BY <1>1, ServiceOrder
<1>2. ASSUME UNCHANGED <<files, loads, heap>>, UNCHANGED <<views, cache, replies>> PROVE Ordered
  <2>1. SameGraphs
    BY <1>2 DEF SameGraphs
  <2>2. QED
    BY <1>2, <2>1, QuietStep
<1>3. ASSUME NEW k \in Coroutines, CallLoad(k) \/ CallQuery(k) \/ CallUpdate(k) PROVE Ordered
  <2>1. UNCHANGED <<files, loads, heap>> /\ UNCHANGED <<views, cache, replies>>
    BY <1>3 DEF CallLoad, CallQuery, CallUpdate, service, client
  <2>2. QED
    BY <1>2, <2>1
<1>4. ASSUME NEW c \in Clients, Receive(c) \/ Finalise(c) \/ Exit(c) PROVE Ordered
  BY <1>4, ReturnOrder, BoxCachedOrder, BoxNewOrder, UpdateOrder, FinaliseOrder, ExitOrder DEF Receive
<1>5. ASSUME NEW c \in Clients, NEW v \in View,
             Access(c, v) \/ Nest(c, v) \/ DropNested(c, v) \/ DropRoot(c, v)
                 \/ CollectRoot(c, v) \/ CollectView(c, v)
      PROVE  Ordered
  BY <1>5, AccessOrder, ProxiesOrder, CollectViewOrder
<1>6. CASE UNCHANGED vars
  <2>1. UNCHANGED <<files, loads, heap>> /\ UNCHANGED <<views, cache, replies>>
    BY <1>6 DEF vars, service, client
  <2>2. QED
    BY <1>2, <2>1
<1>7. QED
  BY <1>1, <1>3, <1>4, <1>5, <1>6 DEF Next

\* The order holds in every reachable state.
LEMMA OrderInvariance == Spec => [](IInv /\ OrderInv)
<1>1. Init => IInv /\ OrderInv
  BY InitInv, InitOrder
<1>2. IInv /\ OrderInv /\ [Next]_vars => IInv' /\ OrderInv'
  BY NextInv, NextOrder DEF Ordered
<1>3. QED
  BY <1>1, <1>2, PTL DEF Spec

\* When an update's answer names another graph than a listed view shows, the view's graph
\* is marked dirty: sharedata never refuses the update.
THEOREM UpdatesAllowed == Spec => []UpdateAllowed
<1>1. ASSUME IInv, OrderInv PROVE UpdateAllowed
  <2> SUFFICES ASSUME NEW c \in Clients, Arrived(c, "update"), NEW n \in DOMAIN Answer(c).pointers,
                      NEW v \in Stale(c, n, Answer(c).pointers[n]),
                      ~heap[views[c][v].doc].dirty
               PROVE  FALSE
    BY DEF UpdateAllowed
  <2> DEFINE p == Answer(c).pointers[n]
             w == views[c][v]
  <2>1. ServiceTypes /\ ClientTypes /\ RefInv
    BY <1>1 DEF IInv
  <2>2. v \in View /\ w.name = n /\ w.pointer # p /\ replies[c] # <<>>
    BY DEF Stale, Listed, Arrived
  <2>3. /\ n \in Names /\ p \in Ptr /\ HeldFor(n, p) /\ Version(w.pointer) <= Version(p)
    BY <1>1, <2>2, HeadOrder
  <2>4. w # NoView
    BY <2>2, <2>3, ShareTableAssumption DEF NoView
  <2>5. w.doc \in Ptr /\ w.pointer \in Ptr /\ heap[w.doc].live /\ heap[w.pointer].live
    BY <1>1, <2>2, <2>4, ViewParts
  <2>6. ViewOrder(c, v)
    BY <1>1, <2>2 DEF OrderInv, ClientOrder
  <2>7. w.doc = files[n] /\ Version(w.doc) <= Version(w.pointer) /\ Version(p) <= Version(w.doc)
    BY <2>2, <2>3, <2>4, <2>6 DEF ViewOrder, HeldFor
  <2>8. Version(w.doc) \in Nat /\ Version(w.pointer) \in Nat /\ Version(p) \in Nat
    BY <2>1, <2>3, <2>5, VersionType
  <2>9. Version(p) = Version(w.pointer)
    BY <2>3, <2>7, <2>8
  <2>10. heap[p].live
    <3>1. 1 \in DOMAIN replies[c] /\ Answer(c) = replies[c][1]
      BY <2>1, <2>2, FirstAnswer
    <3>2. QED
      BY <1>1, <3>1, AnswerParts
  <2>11. QED
    BY <1>1, <2>2, <2>3, <2>5, <2>9, <2>10 DEF OrderInv, VersionInv
<1>2. QED
  BY <1>1, OrderInvariance, PTL

\* No view, and nothing query returns, goes back to an older graph.
THEOREM NothingOlder == Spec => NeverOlder
<1>1. IInv /\ OrderInv /\ [Next]_vars =>
        [\A c \in Clients :
            /\ \A v \in View : views[c][v] # NoView /\ views'[c][v] # NoView =>
                  heap[views[c][v].pointer].version <= heap'[views'[c][v].pointer].version
            /\ \A n \in Names : cache[c][n] # Nil /\ cache'[c][n] # Nil =>
                  heap[views[c][cache[c][n]].pointer].version
                    <= heap'[views'[c][cache'[c][n]].pointer].version]_vars
  BY NextOrder DEF Ordered, Grows, ViewGrows, CacheGrows
<1>2. QED
  BY <1>1, OrderInvariance, PTL DEF Spec, NeverOlder

=============================================================================
