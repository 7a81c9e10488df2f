----------------------------- MODULE GraphProofs -----------------------------
(***************************************************************************)
(* Proofs about the two message graphs: the conversation of ChatSync and   *)
(* the operations of CrdtReplicas.                                         *)
(*                                                                         *)
(* Both order a set by taking, again and again, the first message whose    *)
(* parents are taken.  The recursion defines a function, and its result    *)
(* has the whole set, parents first, if every subset has a message that    *)
(* follows none of the subset; by induction on how many are taken, which   *)
(* comes from < being well-founded on the naturals.  That condition is     *)
(* part of the invariants: a message names only messages that were there   *)
(* when it was written.                                                    *)
(*                                                                         *)
(* ChatSync: the invariant says where every message held or on its way     *)
(* comes from, what a delivery in progress has done, and that the agent    *)
(* was given a message at most once, unless the desktop's list was cut.    *)
(*                                                                         *)
(* CrdtReplicas: an author holds all its operations, numbered from one, so *)
(* ids are unique, and a version vector that counts up to the first gap    *)
(* counts nothing a device lacks.                                          *)
(***************************************************************************)
EXTENDS ChatSync, CrdtReplicas, SequenceSets, FiniteSetTheorems, WellFoundedInduction

-----------------------------------------------------------------------------
(* Induction over the naturals, from the well-foundedness of <.            *)

\* A non-empty set of naturals has a least element.
LEMMA LeastExists ==
  ASSUME NEW T \in SUBSET Nat, T # {}
  PROVE  \E x \in T : \A y \in T : x <= y
<1> DEFINE Less == {ss \in Nat \X Nat : ss[1] < ss[2]}
<1>1. IsWellFoundedOn(Less, Nat)
  BY NatLessThanWellFounded, Zenon DEF OpToRel, Less
<1> HIDE DEF Less
<1>2. T \subseteq Nat
  OBVIOUS
<1>3. \E x \in T : \A y \in T : ~(<<y, x>> \in Less)
  BY <1>1, <1>2, WFMin
<1>4. PICK x \in T : \A y \in T : ~(<<y, x>> \in Less)
  BY <1>3
<1>5. \A y \in T : x <= y
  <2> TAKE y \in T
  <2>1. x \in Nat /\ y \in Nat
    BY <1>2
  <2>2. ~(y < x)
    BY <1>4, <2>1 DEF Less
  <2> QED BY <2>1, <2>2
<1> QED BY <1>5

\* A set of naturals with zero and the successor of each member is Nat.
LEMMA SetInduction ==
  ASSUME NEW P \in SUBSET Nat, 0 \in P, \A n \in P : n + 1 \in P
  PROVE  P = Nat
<1> SUFFICES ASSUME Nat \ P # {} PROVE FALSE
  OBVIOUS
<1>1. PICK x \in Nat \ P : \A y \in Nat \ P : x <= y
  <2>1. Nat \ P \in SUBSET Nat
    OBVIOUS
  <2> QED BY <2>1, LeastExists
<1>2. x # 0 /\ x - 1 \in Nat
  BY <1>1
<1>3. x - 1 \in P
  BY <1>1, <1>2
<1>4. (x - 1) + 1 \in P
  BY <1>3
<1> QED BY <1>1, <1>2, <1>4

-----------------------------------------------------------------------------
(* The order of the messages                                               *)

\* The step of Order's recursion.
OrderStep(S, g, n) ==
  IF n = 0 THEN <<>> ELSE Append(g[n - 1], Pick(S, ToSet(g[n - 1])))

\* Order's recursion defines a function: Order(S) is where it stops.
LEMMA OrderRecursion ==
  ASSUME NEW S
  PROVE  \E f : /\ f = [n \in 0..MaxMessages |-> OrderStep(S, f, n)]
                /\ Order(S) = f[Cardinality(S)]
<1> USE ChatAssumption
<1> DEFINE IsOrder(g, m) == g = [n \in 0..m |-> OrderStep(S, g, n)]
           P == {m \in Nat : \E g : IsOrder(g, m)}
           F == CHOOSE g : g = [n \in 0..MaxMessages |-> OrderStep(S, g, n)]
<1>1. 0 \in P
  <2> DEFINE g == [n \in 0..0 |-> <<>>]
  <2>1. IsOrder(g, 0)
    BY DEF OrderStep
  <2> QED BY <2>1
<1>2. ASSUME NEW m \in P PROVE m + 1 \in P
  <2>1. PICK g : IsOrder(g, m)
    OBVIOUS
  <2> DEFINE h == [n \in 0..(m + 1) |-> IF n = m + 1 THEN OrderStep(S, g, m + 1) ELSE g[n]]
  <2>2. \A n \in 0..m : h[n] = g[n]
    OBVIOUS
  <2>3. \A n \in 0..(m + 1) : h[n] = OrderStep(S, h, n)
    <3> TAKE n \in 0..(m + 1)
    <3>1. CASE n = m + 1
      <4>1. h[n - 1] = g[n - 1]
        BY <3>1, <2>2
      <4>2. h[n] = OrderStep(S, g, n)
        BY <3>1
      <4> QED BY <4>1, <4>2 DEF OrderStep
    <3>2. CASE n \in 1..m
      <4>1. h[n - 1] = g[n - 1] /\ h[n] = g[n]
        BY <3>2, <2>2
      <4>2. g[n] = OrderStep(S, g, n)
        BY <3>2, <2>1
      <4> QED BY <4>1, <4>2 DEF OrderStep
    <3>3. CASE n = 0
      <4>1. h[n] = g[n] /\ g[n] = OrderStep(S, g, n)
        BY <3>3, <2>1, <2>2
      <4> QED BY <4>1, <3>3 DEF OrderStep
    <3> QED BY <3>1, <3>2, <3>3
  <2>4. h = [n \in 0..(m + 1) |-> h[n]]
    OBVIOUS
  <2>5. IsOrder(h, m + 1)
    <3> HIDE DEF h
    <3>1. [n \in 0..(m + 1) |-> h[n]] = [n \in 0..(m + 1) |-> OrderStep(S, h, n)]
      BY <2>3, Zenon
    <3> QED BY <2>4, <3>1, Zenon
  <2> HIDE DEF h
  <2>6. \E f : IsOrder(f, m + 1)
    BY <2>5, Zenon
  <2>7. m + 1 \in Nat
    OBVIOUS
  <2> QED BY <2>6, <2>7, Zenon
<1>3. P = Nat
  <2>1. P \in SUBSET Nat
    OBVIOUS
  <2> HIDE DEF P
  <2> QED BY <1>1, <1>2, <2>1, SetInduction
<1>4. \E g : IsOrder(g, MaxMessages)
  BY <1>3
<1>5. F = [n \in 0..MaxMessages |-> OrderStep(S, F, n)]
  BY <1>4
<1>6. Order(S) = F[Cardinality(S)]
  BY DEF Order, OrderStep
<1> HIDE DEF F
<1> QED BY <1>5, <1>6

\* A set of ids has at most MaxMessages of them.
LEMMA SomeIds ==
  ASSUME NEW S \in SUBSET Ids
  PROVE  /\ Ids \subseteq Nat
         /\ IsFiniteSet(S) /\ Cardinality(S) \in 0..MaxMessages
<1>1. MaxMessages \in Nat
  BY ChatAssumption
<1>2. IsFiniteSet(Ids) /\ Cardinality(Ids) = MaxMessages
  <2>1. /\ IsFiniteSet(1..MaxMessages)
        /\ Cardinality(1..MaxMessages) = IF 1 > MaxMessages THEN 0 ELSE MaxMessages - 1 + 1
    BY <1>1, FS_Interval
  <2> QED BY <1>1, <2>1 DEF Ids
<1>3. IsFiniteSet(S) /\ Cardinality(S) <= Cardinality(Ids)
  BY <1>2, FS_Subset
<1>4. Cardinality(S) \in Nat
  BY <1>3, FS_CardinalityType
<1>5. Ids \subseteq Nat
  BY <1>1 DEF Ids
<1> QED BY <1>1, <1>2, <1>3, <1>4, <1>5

\* The least id of a set is in it, and no other is less.
LEMMA LeastId ==
  ASSUME NEW S \in SUBSET Ids, S # {}
  PROVE  Least(S) \in S /\ \A y \in S : Least(S) <= y
<1>1. S \in SUBSET Nat
  BY SomeIds
<1>2. \E x \in S : \A y \in S : x <= y
  BY <1>1, LeastExists
<1> QED BY <1>2 DEF Least

Message == [origin : {"none", "mobile", "host"}, seq : Nat, after : SUBSET Ids]

\* Every set of these messages has one that follows none of the set: what
\* messages written after those they follow satisfy.
Founded(S) == \A T \in SUBSET S : T # {} => \E x \in T : made[x].after \cap T = {}

\* The next message is one not placed, and follows only messages placed.
LEMMA PickNext ==
  ASSUME NEW S \in SUBSET Ids, NEW placed, S \ placed # {}
  PROVE  /\ Pick(S, placed) \in S \ placed
         /\ Founded(S) =>
              /\ Parents(Pick(S, placed), S) \subseteq placed
              /\ \A id \in S \ placed : Parents(id, S) \subseteq placed => Pick(S, placed) <= id
<1> DEFINE ready == {id \in S \ placed : Parents(id, S) \subseteq placed}
<1>1. Pick(S, placed) = IF ready # {} THEN Least(ready) ELSE Least(S \ placed)
  BY DEF Pick
<1>2. ready \in SUBSET Ids /\ S \ placed \in SUBSET Ids /\ ready \subseteq S \ placed
  OBVIOUS
<1>3. ready # {} => Least(ready) \in ready /\ \A id \in ready : Least(ready) <= id
  BY <1>2, LeastId
<1>4. Least(S \ placed) \in S \ placed
  BY <1>2, LeastId
<1>5. ASSUME Founded(S) PROVE ready # {}
  <2>1. PICK x \in S \ placed : made[x].after \cap (S \ placed) = {}
    BY <1>5 DEF Founded
  <2>2. Parents(x, S) \subseteq placed
    BY <2>1 DEF Parents
  <2> QED BY <2>1, <2>2
<1>6. ready # {} => Parents(Least(ready), S) \subseteq placed
  BY <1>3
<1>9. \A id \in S \ placed : Parents(id, S) \subseteq placed => id \in ready
  OBVIOUS
<1> HIDE DEF ready
<1>7. Pick(S, placed) \in S \ placed
  BY <1>1, <1>2, <1>3, <1>4
<1>8. Founded(S) => Parents(Pick(S, placed), S) \subseteq placed
  BY <1>1, <1>5, <1>6
<1>10. Founded(S) => \A id \in ready : Pick(S, placed) <= id
  BY <1>1, <1>3, <1>5
<1> QED BY <1>7, <1>8, <1>9, <1>10

\* A message that follows another of the set comes after it.
Follows(q, S) == \A i \in 1..Len(q) : \A x \in Parents(q[i], S) :
                   \E j \in 1..Len(q) : q[j] = x /\ j < i

\* n messages of S in order
InOrder(q, S, n) == /\ q \in Seq(S) /\ Len(q) = n /\ Distinct(q)
                    /\ IsFiniteSet(ToSet(q)) /\ Cardinality(ToSet(q)) = n
                    /\ Founded(S) => Follows(q, S)
                    /\ \A i \in 1..n : q[i] = Pick(S, {q[k] : k \in 1..(i - 1)})

\* Appending the next message keeps the order.
LEMMA OrderedAppend ==
  ASSUME NEW S \in SUBSET Ids, NEW n \in Nat, n < Cardinality(S), NEW q, InOrder(q, S, n)
  PROVE  InOrder(Append(q, Pick(S, ToSet(q))), S, n + 1)
<1> DEFINE e == Pick(S, ToSet(q))
           r == Append(q, e)
<1>1. q \in Seq(S) /\ Len(q) = n /\ Distinct(q)
  BY DEF InOrder
<1>2. /\ IsFiniteSet(ToSet(q)) /\ Cardinality(ToSet(q)) = n /\ (Founded(S) => Follows(q, S))
      /\ \A i \in 1..n : q[i] = Pick(S, {q[k] : k \in 1..(i - 1)})
  BY DEF InOrder
<1>3. S \ ToSet(q) # {}
  <2> SUFFICES ASSUME S \subseteq ToSet(q) PROVE FALSE
    OBVIOUS
  <2>1. Cardinality(S) <= Cardinality(ToSet(q))
    BY <1>2, FS_Subset
  <2>2. Cardinality(S) \in Nat
    <3>1. Cardinality(S) \in 0..MaxMessages
      BY SomeIds
    <3> QED BY <3>1
  <2> QED BY <1>2, <2>1, <2>2
<1>4. e \in S \ ToSet(q) /\ (Founded(S) => Parents(e, S) \subseteq ToSet(q))
  BY <1>3, PickNext
<1>10. e = Pick(S, ToSet(q))
  OBVIOUS
<1> HIDE DEF e
<1>5. r \in Seq(S) /\ ToSet(r) = ToSet(q) \cup {e} /\ Distinct(r)
  <2>1. e \in S /\ e \notin ToSet(q)
    BY <1>4
  <2>2. /\ Append(q, e) \in Seq(S)
        /\ ToSet(Append(q, e)) = ToSet(q) \cup {e}
        /\ Distinct(q) /\ e \notin ToSet(q) => Distinct(Append(q, e))
    BY <1>1, <2>1, AppendSet
  <2> QED BY <1>1, <2>1, <2>2
<1>6. Len(r) = n + 1 /\ r[n + 1] = e /\ \A i \in 1..n : r[i] = q[i]
  <2>1. e \in S
    BY <1>4
  <2> QED BY <1>1, <2>1
<1>7. IsFiniteSet(ToSet(r)) /\ Cardinality(ToSet(r)) = n + 1
  <2>1. /\ IsFiniteSet(ToSet(q) \cup {e})
        /\ Cardinality(ToSet(q) \cup {e}) = Cardinality(ToSet(q)) + 1
    BY <1>2, <1>4, FS_AddElement
  <2> QED BY <1>2, <1>5, <2>1
<1>8. ASSUME Founded(S) PROVE Follows(r, S)
  <2> SUFFICES ASSUME NEW i \in 1..(n + 1), NEW x \in Parents(r[i], S)
               PROVE  \E j \in 1..(n + 1) : r[j] = x /\ j < i
    BY <1>6 DEF Follows
  <2>1. CASE i = n + 1
    <3>1. x \in ToSet(q)
      BY <1>4, <1>6, <1>8, <2>1
    <3>2. PICK j \in 1..Len(q) : x = q[j]
      BY <1>1, <3>1, Places
    <3>3. j \in 1..n /\ r[j] = x
      BY <1>1, <1>6, <3>2
    <3> QED BY <2>1, <3>3
  <2>2. CASE i \in 1..n
    <3>1. x \in Parents(q[i], S)
      BY <1>6, <2>2
    <3>2. PICK j \in 1..Len(q) : q[j] = x /\ j < i
      BY <1>1, <1>2, <1>8, <2>2, <3>1 DEF Follows
    <3>3. j \in 1..n /\ r[j] = x
      BY <1>1, <1>6, <3>2
    <3> QED BY <3>2, <3>3
  <2>3. i = n + 1 \/ i \in 1..n
    OBVIOUS
  <2> QED BY <2>1, <2>2, <2>3
<1> HIDE DEF r
<1>11. ASSUME NEW i \in 1..(n + 1) PROVE r[i] = Pick(S, {r[k] : k \in 1..(i - 1)})
  <2>1. CASE i = n + 1
    <3>1. ToSet(q) = {q[k] : k \in 1..n}
      <4>1. DOMAIN q = 1..n
        BY <1>1
      <4> QED BY <4>1 DEF ToSet
    <3>2. {r[k] : k \in 1..n} = {q[k] : k \in 1..n}
      BY <1>6
    <3>3. i - 1 = n
      BY <2>1
    <3> QED BY <1>6, <1>10, <2>1, <3>1, <3>2, <3>3
  <2>2. CASE i \in 1..n
    <3>1. \A k \in 1..(i - 1) : k \in 1..n
      BY <2>2
    <3>2. {r[k] : k \in 1..(i - 1)} = {q[k] : k \in 1..(i - 1)}
      BY <1>6, <3>1
    <3> QED BY <1>2, <1>6, <2>2, <3>2
  <2> QED BY <2>1, <2>2
<1>9. InOrder(r, S, n + 1)
  BY <1>5, <1>6, <1>7, <1>8, <1>11 DEF InOrder
<1> QED BY <1>9 DEF r, e

\* Order(S) is S in order.
LEMMA OrderIsOrdered ==
  ASSUME NEW S \in SUBSET Ids
  PROVE  InOrder(Order(S), S, Cardinality(S))
<1>1. PICK f : /\ f = [n \in 0..MaxMessages |-> OrderStep(S, f, n)]
               /\ Order(S) = f[Cardinality(S)]
  BY OrderRecursion
<1>2. Cardinality(S) \in 0..MaxMessages /\ MaxMessages \in Nat
  BY SomeIds, ChatAssumption
<1>3. \A n \in 0..MaxMessages : f[n] = OrderStep(S, f, n)
  BY <1>1
<1> DEFINE P == {n \in Nat : n <= Cardinality(S) => InOrder(f[n], S, n)}
<1>4. 0 \in P
  <2>1. f[0] = <<>>
    BY <1>2, <1>3 DEF OrderStep
  <2>2. InOrder(<<>>, S, 0)
    <3>1. <<>> \in Seq(S) /\ Len(<<>>) = 0
      OBVIOUS
    <3>2. ToSet(<<>>) = {}
      BY DEF ToSet
    <3>3. IsFiniteSet({}) /\ Cardinality({}) = 0
      BY FS_EmptySet
    <3>4. Distinct(<<>>) /\ Follows(<<>>, S)
      BY <3>1 DEF Distinct, Follows
    <3>5. \A i \in 1..0 : <<>>[i] = Pick(S, {<<>>[k] : k \in 1..(i - 1)})
      OBVIOUS
    <3> QED BY <3>1, <3>2, <3>3, <3>4, <3>5 DEF InOrder
  <2> QED BY <2>1, <2>2
<1>5. ASSUME NEW n \in P PROVE n + 1 \in P
  <2> SUFFICES ASSUME n + 1 <= Cardinality(S) PROVE InOrder(f[n + 1], S, n + 1)
    OBVIOUS
  <2>1. n \in Nat /\ n < Cardinality(S)
    BY <1>2
  <2>2. InOrder(f[n], S, n)
    BY <1>2, <2>1
  <2>3. f[n + 1] = Append(f[n], Pick(S, ToSet(f[n])))
    <3>1. n + 1 \in 0..MaxMessages /\ n + 1 # 0 /\ (n + 1) - 1 = n
      BY <1>2, <2>1
    <3>2. f[n + 1] = OrderStep(S, f, n + 1)
      BY <1>3, <3>1
    <3> QED BY <3>1, <3>2 DEF OrderStep
  <2>4. InOrder(Append(f[n], Pick(S, ToSet(f[n]))), S, n + 1)
    BY <2>1, <2>2, OrderedAppend
  <2> QED BY <2>3, <2>4
<1>6. P \in SUBSET Nat
  OBVIOUS
<1>7. P = Nat
  <2> HIDE DEF P
  <2> QED BY <1>4, <1>5, <1>6, SetInduction
<1>8. Cardinality(S) \in P
  BY <1>2, <1>7
<1> QED BY <1>1, <1>2, <1>8

\* Order shows a set of messages, each once, ...
LEMMA OrderSet ==
  ASSUME NEW S \in SUBSET Ids
  PROVE  Order(S) \in Seq(S) /\ Len(Order(S)) = Cardinality(S)
<1> QED BY OrderIsOrdered DEF InOrder

\* ... and after those it follows.
LEMMA OrderFollows ==
  ASSUME NEW S \in SUBSET Ids, Founded(S),
         NEW i \in 1..Len(Order(S)), NEW j \in 1..Len(Order(S)),
         Order(S)[j] \in made[Order(S)[i]].after
  PROVE  j < i
<1> DEFINE q == Order(S)
<1>1. q \in Seq(S) /\ Distinct(q) /\ Follows(q, S)
  BY OrderIsOrdered DEF InOrder
<1>2. q[j] \in Parents(q[i], S)
  BY <1>1 DEF Parents
<1>3. PICK k \in 1..Len(q) : q[k] = q[j] /\ k < i
  BY <1>1, <1>2 DEF Follows
<1>4. k = j
  BY <1>1, <1>3 DEF Distinct
<1> QED BY <1>3, <1>4

\* A message dated before the info message and placed after one dated after
\* it follows such a message itself, or another that does.
LEMMA StraddledBackdated ==
  ASSUME NEW S \in SUBSET Ids, Founded(S), Straddled(S), limit.info \in Nat
  PROVE  \E x \in S : \E y \in Parents(x, S) : x <= limit.info /\ limit.info < y
<1> DEFINE q == Order(S)
<1>1. /\ q \in Seq(S) /\ Distinct(q)
      /\ \A i \in 1..Len(q) : q[i] = Pick(S, {q[k] : k \in 1..(i - 1)})
  BY OrderIsOrdered DEF InOrder
<1>2. PICK i \in 1..Len(q) : \E j \in 1..Len(q) : i < j /\ q[j] <= limit.info /\ limit.info < q[i]
  BY DEF Straddled
<1>3. PICK j \in 1..Len(q) : i < j /\ q[j] <= limit.info /\ limit.info < q[i]
  BY <1>2
<1> HIDE DEF q
<1> DEFINE placed == {q[k] : k \in 1..(i - 1)}
           T == {id \in S \ placed : id <= limit.info}
<1>4. q[j] \in S /\ q[i] \in S /\ S \subseteq Nat
  <2>1. S \subseteq Nat
    BY SomeIds
  <2> QED BY <1>1, <2>1
<1>5. q[j] \notin placed
  <2> SUFFICES ASSUME NEW k \in 1..(i - 1), q[k] = q[j] PROVE FALSE
    OBVIOUS
  <2>1. k \in 1..Len(q) /\ k # j
    BY <1>1, <1>3
  <2> QED BY <1>1, <2>1 DEF Distinct
<1>6. q[i] = Pick(S, placed)
  BY <1>1
<1>7. /\ T \in SUBSET S /\ T # {}
      /\ \A x \in T : x \in S \ placed /\ x <= limit.info
  BY <1>3, <1>4, <1>5
<1>8. S \ placed # {}
  BY <1>4, <1>5
<1>9. \A id \in S \ placed : id \notin T => limit.info < id
  BY <1>4
<1> HIDE DEF placed, T
<1>10. \A id \in S \ placed : Parents(id, S) \subseteq placed => q[i] <= id
  BY <1>6, <1>8, PickNext
<1>11. PICK x \in T : made[x].after \cap T = {}
  BY <1>7 DEF Founded
<1>12. ~(q[i] <= x)
  <2>1. x \in Nat /\ x <= limit.info
    BY <1>4, <1>7
  <2>2. q[i] \in Nat /\ limit.info < q[i]
    BY <1>3, <1>4
  <2> HIDE <1>1, <1>2, <1>3, <1>11
  <2> QED BY <2>1, <2>2
<1>13. PICK y \in Parents(x, S) : y \notin placed
  BY <1>7, <1>10, <1>12
<1>14. y \in S \ placed /\ y \notin T
  BY <1>11, <1>13 DEF Parents
<1> QED BY <1>7, <1>9, <1>13, <1>14

\* Inserting an element in a sequence
LEMMA Inserted ==
  ASSUME NEW U, NEW q \in Seq(U), NEW c \in 0..Len(q), NEW e \in U
  PROVE  /\ InsertAt(q, 1 + c, e) \in Seq(U)
         /\ Len(InsertAt(q, 1 + c, e)) = Len(q) + 1
         /\ \A i \in 1..(Len(q) + 1) :
              InsertAt(q, 1 + c, e)[i] = IF i <= c THEN q[i] ELSE IF i = c + 1 THEN e ELSE q[i - 1]
<1> DEFINE a == SubSeq(q, 1, c)
           b == SubSeq(q, c + 1, Len(q))
           r == a \o <<e>>
           s == r \o b
<1>1. InsertAt(q, 1 + c, e) = s
  <2>1. (1 + c) - 1 = c /\ 1 + c = c + 1
    OBVIOUS
  <2> QED BY <2>1 DEF InsertAt
<1>2. a \in Seq(U) /\ Len(a) = c /\ \A i \in 1..c : a[i] = q[i]
  OBVIOUS
<1>3. /\ b \in Seq(U) /\ Len(b) = Len(q) - c
      /\ \A i \in 1..(Len(q) - c) : b[i] = q[c + i]
  BY RestOf
<1> HIDE DEF a, b
<1>4. /\ r \in Seq(U) /\ Len(r) = c + 1 /\ r[c + 1] = e
      /\ \A i \in 1..c : r[i] = a[i]
  BY <1>2
<1> HIDE DEF r
<1>5. /\ s \in Seq(U) /\ Len(s) = Len(q) + 1
      /\ \A i \in 1..(c + 1) : s[i] = r[i]
      /\ \A i \in (c + 2)..(Len(q) + 1) : s[i] = b[i - (c + 1)]
  <2>6. r \in Seq(U) /\ b \in Seq(U)
    BY <1>3, <1>4
  <2>1. s \in Seq(U) /\ Len(s) = Len(r) + Len(b)
    BY <2>6
  <2>2. Len(s) = Len(q) + 1
    BY <1>3, <1>4, <2>1
  <2>3. \A i \in 1..Len(r) : s[i] = r[i]
    BY <1>3, <1>4
  <2>4. \A i \in (Len(r) + 1)..(Len(r) + Len(b)) : s[i] = b[i - Len(r)]
    BY <1>3, <1>4
  <2>5. Len(r) = c + 1 /\ (Len(r) + 1)..(Len(r) + Len(b)) = (c + 2)..(Len(q) + 1)
    BY <1>3, <1>4
  <2> HIDE DEF s
  <2> QED BY <2>1, <2>2, <2>3, <2>4, <2>5
<1> HIDE DEF s
<1>6. ASSUME NEW i \in 1..(Len(q) + 1)
      PROVE  s[i] = IF i <= c THEN q[i] ELSE IF i = c + 1 THEN e ELSE q[i - 1]
  <2>1. CASE i \in 1..c
    BY <1>2, <1>4, <1>5, <2>1
  <2>2. CASE i = c + 1
    BY <1>4, <1>5, <2>2
  <2>3. CASE i \in (c + 2)..(Len(q) + 1)
    <3>1. i - (c + 1) \in 1..(Len(q) - c) /\ c + (i - (c + 1)) = i - 1
      BY <2>3
    <3> QED BY <1>3, <1>5, <2>3, <3>1
  <2> QED BY <2>1, <2>2, <2>3
<1> QED BY <1>1, <1>5, <1>6

\* The ids dated before the info message are at most those of the set.
LEMMA EarlyCount ==
  ASSUME NEW S \in SUBSET Ids
  PROVE  Cardinality({id \in S : id <= limit.info}) \in 0..Len(Order(S))
<1> DEFINE T == {id \in S : id <= limit.info}
<1>1. IsFiniteSet(S) /\ Cardinality(S) \in 0..MaxMessages /\ Len(Order(S)) = Cardinality(S)
  BY SomeIds, OrderSet
<1>2. T \subseteq S
  OBVIOUS
<1> HIDE DEF T
<1>3. Cardinality(T) <= Cardinality(S) /\ Cardinality(T) \in Nat
  BY <1>1, <1>2, FS_Subset, FS_CardinalityType
<1> QED BY <1>1, <1>3 DEF T

\* A list the mobile shows is of the messages of its session and the info.
LEMMA ListingOf ==
  ASSUME NEW S \in SUBSET Ids, NEW q \in Listings(S)
  PROVE  q \in Seq(S \cup {Info})
<1>1. Order(S) \in Seq(S \cup {Info})
  BY OrderSet
<1>2. CASE ~noted
  BY <1>1, <1>2 DEF Listings
<1>3. CASE noted /\ Straddled(S)
  <2> DEFINE U == S \cup {Info}
  <2>1. q \in SetToSeqs(U)
    BY <1>3 DEF Listings
  <2> HIDE DEF U
  <2>2. q \in [1..Cardinality(U) -> U]
    BY <2>1 DEF SetToSeqs
  <2>3. Cardinality(U) \in Nat
    <3>1. IsFiniteSet(S)
      BY SomeIds
    <3>2. IsFiniteSet(U)
      BY <3>1, FS_AddElement DEF U
    <3> QED BY <3>2, FS_CardinalityType
  <2>4. q \in Seq(U)
    BY <2>2, <2>3
  <2> QED BY <2>4 DEF U
<1>4. CASE noted /\ ~Straddled(S)
  <2> DEFINE c == Cardinality({id \in S : id <= limit.info})
             U == S \cup {Info}
             o == Order(S)
  <2>1. q = InsertAt(o, 1 + c, Info)
    BY <1>4 DEF Listings
  <2>2. c \in 0..Len(o) /\ Info \in U /\ o \in Seq(U)
    BY <1>1, EarlyCount
  <2> HIDE DEF c, U, o
  <2>3. InsertAt(o, 1 + c, Info) \in Seq(U)
    BY <2>2, Inserted
  <2> QED BY <2>1, <2>3 DEF U
<1> QED BY <1>2, <1>3, <1>4

\* Where no message dated before the info message follows one dated after
\* it, every list shows a message after those it follows.
LEMMA ListingInPlace ==
  ASSUME made \in [Ids -> Message], limit.info \in Nat, NEW S \in SUBSET Ids, Founded(S),
         noted => ~ \E x \in S : \E y \in Parents(x, S) : x <= limit.info /\ limit.info < y,
         NEW q \in Listings(S)
  PROVE  InPlace(q)
<1>1. InPlace(Order(S))
  <2> DEFINE r == Order(S)
  <2>1. \A i, j \in 1..Len(r) : r[j] \in made[r[i]].after => j < i
    BY OrderFollows
  <2> QED BY <2>1 DEF InPlace
<1>2. CASE ~noted
  BY <1>1, <1>2 DEF Listings
<1>3. CASE noted
  <2> DEFINE c == Cardinality({id \in S : id <= limit.info})
             U == S \cup {Info}
             o == Order(S)
             n == Len(o)
  <2>1. ~Straddled(S)
    BY <1>3, StraddledBackdated
  <2>2. q = InsertAt(o, 1 + c, Info)
    BY <1>3, <2>1 DEF Listings
  <2>3. c \in 0..n /\ Info \in U /\ o \in Seq(S) /\ o \in Seq(U)
    BY OrderSet, EarlyCount
  <2>4. \A i, j \in 1..n : o[i] # Info /\ o[j] \in made[o[i]].after => j < i
    BY <1>1 DEF InPlace
  <2>5. \A x \in S : x # Info /\ Info \notin made[x].after
    BY DEF Message, Ids, Info
  <2> HIDE DEF c, o, U
  <2>6. /\ Len(q) = n + 1
        /\ \A i \in 1..(n + 1) : q[i] = IF i <= c THEN o[i] ELSE IF i = c + 1 THEN Info ELSE o[i - 1]
    <3>1. /\ Len(InsertAt(o, 1 + c, Info)) = Len(o) + 1
          /\ \A i \in 1..(Len(o) + 1) : InsertAt(o, 1 + c, Info)[i]
                = IF i <= c THEN o[i] ELSE IF i = c + 1 THEN Info ELSE o[i - 1]
      BY <2>3, Inserted
    <3> QED BY <2>2, <3>1
  <2>7. \A i \in 1..n : o[i] \in S
    BY <2>3
  <2>8. n \in Nat
    BY <2>3
  <2> HIDE DEF n
  <2>9. ASSUME NEW i \in 1..(n + 1), NEW j \in 1..(n + 1), q[i] # Info, q[j] \in made[q[i]].after
        PROVE  j < i
    <3> DEFINE p(k) == IF k <= c THEN k ELSE k - 1
    <3> HIDE DEF p
    <3>1. i # c + 1
      BY <2>3, <2>6, <2>8, <2>9
    <3>2. p(i) \in 1..n /\ q[i] = o[p(i)]
      BY <2>3, <2>6, <2>8, <3>1 DEF p
    <3>3. j # c + 1
      <4>1. j = c + 1 => q[j] = Info
        BY <2>3, <2>6, <2>8
      <4>2. q[i] \in S
        BY <2>7, <3>2
      <4> QED BY <2>5, <2>9, <4>1, <4>2
    <3>4. p(j) \in 1..n /\ q[j] = o[p(j)]
      BY <2>3, <2>6, <2>8, <3>3 DEF p
    <3>5. p(j) < p(i)
      <4>1. o[p(i)] # Info /\ o[p(j)] \in made[o[p(i)]].after
        BY <2>9, <3>2, <3>4
      <4> QED BY <2>4, <3>2, <3>4, <4>1
    <3> QED BY <2>3, <2>8, <3>1, <3>3, <3>5 DEF p
  <2> QED BY <2>6, <2>9 DEF InPlace
<1> QED BY <1>2, <1>3

\* The ending of a list
LEMMA EndingOf ==
  ASSUME NEW U, NEW q \in Seq(U), NEW n \in Nat
  PROVE  ToSet(Ending(q, n)) \subseteq U
<1>1. Ending(q, n) \in Seq(U)
  <2>1. CASE Len(q) <= n
    BY <2>1 DEF Ending
  <2>2. CASE ~(Len(q) <= n)
    <3>1. Len(q) - n \in 0..Len(q)
      BY <2>2
    <3>2. SubSeq(q, (Len(q) - n) + 1, Len(q)) \in Seq(U)
      BY <3>1, RestOf
    <3> QED BY <2>2, <3>2 DEF Ending
  <2> QED BY <2>1, <2>2
<1> QED BY <1>1, Places

\* The newest of a set are of the set, and all of it when they fit.
LEMMA NewestOf ==
  ASSUME NEW S \in SUBSET Ids, NEW n \in Nat
  PROVE  /\ Newest(S, n) \subseteq S
         /\ Cardinality(S) <= n => Newest(S, n) = S
<1>1. Order(S) \in Seq(S) /\ Len(Order(S)) = Cardinality(S)
  BY OrderSet
<1>2. Newest(S, n) \subseteq S
  BY <1>1, EndingOf DEF Newest
<1>3. ASSUME Cardinality(S) <= n PROVE Newest(S, n) = S
  <2>1. Newest(S, n) = ToSet(Order(S))
    BY <1>1, <1>3 DEF Newest, Ending
  <2>2. ToSet(Order(S)) \subseteq S /\ Cardinality(ToSet(Order(S))) = Cardinality(S)
    BY <1>1, Places, OrderIsOrdered DEF InOrder
  <2>3. IsFiniteSet(S)
    BY SomeIds
  <2> QED BY <2>1, <2>2, <2>3, FS_Subset
<1> QED BY <1>2, <1>3

\* The length of the list is that of its messages, and of the info.
LEMMA LengthOf ==
  ASSUME NEW S \in SUBSET Ids, NEW id \in Ids
  PROVE  /\ ListLength(S) \in Nat
         /\ ListLength(S \cup {id}) \in Nat /\ ListLength(S \cup {id}) <= ListLength(S) + 1
<1>1. IsFiniteSet(S) /\ Cardinality(S) \in 0..MaxMessages
  BY SomeIds
<1>2. Cardinality(S \cup {id}) = IF id \in S THEN Cardinality(S) ELSE Cardinality(S) + 1
  BY <1>1, FS_AddElement
<1> QED BY <1>1, <1>2 DEF ListLength

\* What is left of a session is of it, and all of it while it fits.
LEMMA CutOf ==
  ASSUME noted \in BOOLEAN, NEW S \in SUBSET Ids, NEW n \in Nat, NEW c \in Cut(S, n)
  PROVE  /\ c = [mine |-> c.mine, noted |-> c.noted]
         /\ c.mine \subseteq S /\ c.noted \in BOOLEAN
         /\ ListLength(S) <= n => c.mine = S
<1>1. CASE ListLength(S) <= n
  <2>1. c = [mine |-> S, noted |-> noted]
    BY <1>1 DEF Cut
  <2> QED BY <2>1
<1>2. CASE ~(ListLength(S) <= n)
  <2>1. PICK q \in Listings(S) :
          c = [mine |-> ToSet(Ending(q, n)) \ {Info}, noted |-> Info \in ToSet(Ending(q, n))]
    BY <1>2 DEF Cut
  <2>2. q \in Seq(S \cup {Info})
    BY ListingOf
  <2>3. ToSet(Ending(q, n)) \subseteq S \cup {Info}
    BY <2>2, EndingOf
  <2> QED BY <1>2, <2>1, <2>3
<1> QED BY <1>1, <1>2

\* So is what is left with a message put in, ...
LEMMA UpsertOf ==
  ASSUME noted \in BOOLEAN, limit.kept \in Nat, NEW S \in SUBSET Ids, NEW id \in Ids,
         NEW c \in Upsert(S, id)
  PROVE  /\ c = [mine |-> c.mine, noted |-> c.noted]
         /\ c.mine \subseteq S \cup {id} /\ c.noted \in BOOLEAN
         /\ ListLength(S) < limit.kept => S \subseteq c.mine
<1> DEFINE all == S \cup {id}
<1>1. c \in Cut(all, limit.kept) /\ all \in SUBSET Ids /\ S \subseteq all
  BY DEF Upsert
<1>2. ListLength(S) < limit.kept => ListLength(all) <= limit.kept
  BY LengthOf
<1> HIDE DEF all
<1>3. /\ c = [mine |-> c.mine, noted |-> c.noted]
      /\ c.mine \subseteq all /\ c.noted \in BOOLEAN
      /\ ListLength(all) <= limit.kept => c.mine = all
  BY <1>1, CutOf
<1>4. ListLength(S) < limit.kept => S \subseteq c.mine
  BY <1>1, <1>2, <1>3
<1> QED BY <1>3, <1>4 DEF all

\* ... or put last.
LEMMA UpsertLastOf ==
  ASSUME noted \in BOOLEAN, limit.kept \in Nat \ {0}, NEW S \in SUBSET Ids, NEW id \in Ids,
         NEW c \in UpsertLast(S, id)
  PROVE  /\ c.mine \subseteq S \cup {id} /\ c.noted \in BOOLEAN
         /\ ListLength(S) < limit.kept => S \subseteq c.mine
<1>1. CASE noted /\ Straddled(S)
  <2>1. c \in Upsert(S, id)
    BY <1>1 DEF UpsertLast
  <2> QED BY <2>1, UpsertOf
<1>2. CASE ~(noted /\ Straddled(S))
  <2>1. PICK d \in Cut(S, limit.kept - 1) : c = [d EXCEPT !.mine = @ \cup {id}]
    BY <1>2 DEF UpsertLast
  <2>2. limit.kept - 1 \in Nat
    OBVIOUS
  <2>3. /\ d = [mine |-> d.mine, noted |-> d.noted]
        /\ d.mine \subseteq S /\ d.noted \in BOOLEAN
        /\ ListLength(S) <= limit.kept - 1 => d.mine = S
    BY <2>2, CutOf
  <2>4. c.mine = d.mine \cup {id} /\ c.noted = d.noted
    BY <2>1, <2>3
  <2>5. ListLength(S) < limit.kept => ListLength(S) <= limit.kept - 1
    <3>1. ListLength(S) \in Nat
      BY LengthOf
    <3> QED BY <3>1
  <2> QED BY <2>3, <2>4, <2>5
<1> QED BY <1>1, <1>2

-----------------------------------------------------------------------------
(* The invariant                                                           *)

Statuses == [Ids -> {"none", "sending", "sent", "failed"}]
Requests == [type : {"sync-request"}, ids : SUBSET Ids]
States == [type : {"sync-state"}, hostSeq : Nat, mobileSeq : Nat]
Words == Chats(Ids) \cup Requests \cup States

Sessions == [mine : SUBSET Ids, noted : BOOLEAN, status : Statuses]

TypeOK ==
  /\ made \in [Ids -> Message]
  /\ mine \in SUBSET Ids /\ noted \in BOOLEAN
  /\ host \in SUBSET Ids /\ saying \in SUBSET Ids /\ unacked \in SUBSET Ids
  /\ status \in Statuses
  /\ tasks \in [Ids -> {"none", "deliver", "settle"}]
  /\ forwarded \in [Ids -> 0..2]
  /\ toHost \in SUBSET Words /\ toMobile \in SUBSET Words
  /\ snapshot \in [open : BOOLEAN, session : Sessions] /\ disk \in Sessions
  /\ excused \in SUBSET Ids
  /\ left \in [faults : Nat, resets : Nat]
  /\ limit \in [messages : Nat, kept : Nat \ {0}, info : Nat]

From(origin) == {id \in Ids : made[id].origin = origin}

\* Only messages of the mobile have a status.
Delivered(s) == \A id \in Ids : s[id] # "none" => id \in From("mobile")

\* Who wrote the messages an end holds, sends or delivers
Origins ==
  /\ mine \subseteq Written /\ host \subseteq Written
  /\ snapshot.session.mine \subseteq Written /\ disk.mine \subseteq Written
  /\ From("none") \cap Written = {}
  /\ unacked \subseteq From("host") /\ saying \subseteq From("host")
  /\ \A id \in Ids : Chat(id) \in toMobile => id \in From("host")
  /\ \A id \in Ids : Chat(id) \in toHost => id \in From("mobile")
  /\ \A id \in Ids : tasks[id] # "none" => id \in From("mobile")
  /\ Delivered(status) /\ Delivered(snapshot.session.status) /\ Delivered(disk.status)

\* A message follows messages written before it.
History ==
  /\ \A id \in Ids : made[id].after \subseteq Written
  /\ Founded(Written)

\* The agent was given messages of the channel only, and each once.
Given == Trimmed \/ \A id \in Ids : forwarded[id] <= IF id \in host THEN 1 ELSE 0

IInv == TypeOK /\ Origins /\ History /\ SendingIsSent /\ Given

-----------------------------------------------------------------------------
(* The numbers of the messages of an origin                                *)

\* The sequence numbers of an end's messages of one origin
Seqs(S, origin) == {made[id].seq : id \in Own(S, origin)}

\* Finitely many naturals have a bound.
LEMMA FiniteBounded ==
  ASSUME NEW S \in SUBSET Nat, IsFiniteSet(S)
  PROVE  \E b \in Nat : \A n \in S : n <= b
<1> DEFINE P == {n \in Nat : \A T \in SUBSET Nat :
                   IsFiniteSet(T) /\ Cardinality(T) = n => \E b \in Nat : \A k \in T : k <= b}
<1>1. 0 \in P
  <2> SUFFICES ASSUME NEW T \in SUBSET Nat, IsFiniteSet(T), Cardinality(T) = 0
               PROVE  \E b \in Nat : \A k \in T : k <= b
    OBVIOUS
  <2>1. T = {}
    BY FS_EmptySet, Zenon
  <2> QED BY <2>1
<1>2. ASSUME NEW n \in P PROVE n + 1 \in P
  <2> SUFFICES ASSUME NEW T \in SUBSET Nat, IsFiniteSet(T), Cardinality(T) = n + 1
               PROVE  \E b \in Nat : \A k \in T : k <= b
    OBVIOUS
  <2>1. PICK x \in T : TRUE
    <3>1. T # {}
      BY FS_EmptySet
    <3> QED BY <3>1
  <2>2. IsFiniteSet(T \ {x}) /\ Cardinality(T \ {x}) = n
    <3>1. n \in Nat
      OBVIOUS
    <3>2. IsFiniteSet(T \ {x}) /\ Cardinality(T \ {x}) = Cardinality(T) - 1
      BY <2>1, FS_RemoveElement
    <3> QED BY <3>1, <3>2
  <2>3. PICK b \in Nat : \A k \in T \ {x} : k <= b
    <3>1. T \ {x} \in SUBSET Nat
      OBVIOUS
    <3> QED BY <2>2, <3>1
  <2>4. CASE x <= b
    BY <2>3, <2>4
  <2>5. CASE ~(x <= b)
    <3>1. x \in Nat
      OBVIOUS
    <3>2. \A k \in T : k <= x
      <4> TAKE k \in T
      <4>1. k \in Nat
        OBVIOUS
      <4> QED BY <2>3, <2>5, <3>1, <4>1
    <3> QED BY <3>1, <3>2
  <2> QED BY <2>4, <2>5
<1>3. P \in SUBSET Nat
  OBVIOUS
<1>4. P = Nat
  <2> HIDE DEF P
  <2> QED BY <1>1, <1>2, <1>3, SetInduction
<1>5. Cardinality(S) \in P
  BY <1>4, FS_CardinalityType
<1> QED BY <1>5

\* They are finitely many naturals.
LEMMA SeqsFinite ==
  ASSUME made \in [Ids -> Message], NEW S \in SUBSET Ids, NEW origin
  PROVE  /\ Seqs(S, origin) \in SUBSET Nat
         /\ IsFiniteSet(Seqs(S, origin)) /\ Cardinality(Seqs(S, origin)) <= MaxMessages
<1> DEFINE O == Own(S, origin)
           f == [id \in O |-> made[id].seq]
<1>1. O \in SUBSET Ids
  BY DEF Own
<1> HIDE DEF O
<1>2. IsFiniteSet(O) /\ Cardinality(O) \in 0..MaxMessages
  BY <1>1, SomeIds
<1>3. Seqs(S, origin) = {made[id].seq : id \in O}
  BY DEF Seqs, O
<1>4. \A id \in O : made[id].seq \in Nat
  BY <1>1 DEF Message
<1>5. Seqs(S, origin) \in SUBSET Nat
  BY <1>3, <1>4
<1>6. f \in Surjection(O, Seqs(S, origin))
  <2> HIDE DEF f
  <2>1. f = [id \in O |-> made[id].seq]
    BY DEF f
  <2>2. f \in [O -> Seqs(S, origin)]
    BY <1>3, <2>1
  <2>3. \A t \in Seqs(S, origin) : \E id \in O : f[id] = t
    BY <1>3, <2>1
  <2> QED BY <2>2, <2>3 DEF Surjection
<1>7. /\ IsFiniteSet(Seqs(S, origin))
      /\ Cardinality(Seqs(S, origin)) <= Cardinality(O)
  BY <1>2, <1>6, FS_Surjection
<1>8. Cardinality(Seqs(S, origin)) \in Nat
  BY <1>7, FS_CardinalityType
<1>9. MaxMessages \in Nat
  BY ChatAssumption
<1> QED BY <1>2, <1>5, <1>7, <1>8, <1>9

\* A number is always found for the next message.
LEMMA NextSeqExists ==
  ASSUME made \in [Ids -> Message], NEW S \in SUBSET Ids, NEW origin
  PROVE  NextOriginSeq(S, origin) \in Nat
<1> DEFINE seqs == Seqs(S, origin)
           B == {k \in Nat : \A n \in seqs : n <= k}
           top == CHOOSE n \in seqs : \A k \in seqs : k <= n
<1>1. seqs \in SUBSET Nat /\ IsFiniteSet(seqs)
  BY SeqsFinite
<1>2. NextOriginSeq(S, origin) = 1 + (IF seqs = {} THEN 0 ELSE top)
  BY DEF NextOriginSeq, Seqs
<1> HIDE DEF seqs
<1>3. CASE seqs = {}
  BY <1>2, <1>3
<1>4. CASE seqs # {}
  <2>1. \E b \in Nat : \A n \in seqs : n <= b
    BY <1>1, FiniteBounded
  <2>2. B # {} /\ B \in SUBSET Nat
    BY <2>1
  <2>3. PICK b \in B : \A k \in B : b <= k
    <3> HIDE DEF B
    <3> QED BY <2>2, LeastExists
  <2>4. b \in seqs
    <3> SUFFICES ASSUME b \notin seqs PROVE FALSE
      OBVIOUS
    <3>1. \A n \in seqs : n \in Nat /\ n < b
      BY <1>1, <2>3
    <3>2. b \in Nat /\ b # 0 /\ b - 1 \in Nat
      BY <1>4, <2>3, <3>1
    <3>3. b - 1 \in B
      BY <3>1, <3>2
    <3> QED BY <2>3, <3>2, <3>3
  <2>5. \A k \in seqs : k <= b
    BY <2>3
  <2>6. top \in seqs
    <3> HIDE DEF B
    <3> QED BY <2>4, <2>5
  <2>7. top \in Nat
    BY <1>1, <2>6
  <2> HIDE DEF top
  <2> QED BY <1>2, <1>4, <2>7
<1> QED BY <1>3, <1>4

\* The run of numbers an end holds has an end.
LEMMA ContiguousExists ==
  ASSUME made \in [Ids -> Message], NEW S \in SUBSET Ids, NEW origin
  PROVE  /\ Contiguous(S, origin) \in 0..MaxMessages
         /\ 1..Contiguous(S, origin) \subseteq Seqs(S, origin)
         /\ Contiguous(S, origin) + 1 \notin Seqs(S, origin)
<1> DEFINE seqs == Seqs(S, origin)
           G == {n \in Nat : n + 1 \notin seqs}
<1>1. /\ seqs \in SUBSET Nat /\ IsFiniteSet(seqs) /\ Cardinality(seqs) <= MaxMessages
      /\ MaxMessages \in Nat
  BY SeqsFinite, ChatAssumption
<1>2. Contiguous(S, origin) =
        CHOOSE n \in 0..MaxMessages : 1..n \subseteq seqs /\ n + 1 \notin seqs
  BY DEF Contiguous, Seqs
<1> HIDE DEF seqs
<1>3. Cardinality(seqs) \in Nat
  BY <1>1, FS_CardinalityType
<1>4. ASSUME NEW n \in Nat, 1..n \subseteq seqs  PROVE n <= MaxMessages
  <2>1. Cardinality(1..n) <= Cardinality(seqs) /\ IsFiniteSet(1..n)
    BY <1>1, <1>4, FS_Subset
  <2>2. Cardinality(1..n) = n
    <3>1. Cardinality(1..n) = IF 1 > n THEN 0 ELSE n - 1 + 1
      BY FS_Interval
    <3> QED BY <3>1
  <2> QED BY <1>1, <1>3, <2>1, <2>2
<1>5. G # {} /\ G \in SUBSET Nat
  <2>1. PICK b \in Nat : \A n \in seqs : n <= b
    BY <1>1, FiniteBounded
  <2>2. b \in G
    BY <1>1, <2>1
  <2> QED BY <2>2
<1>6. PICK n \in G : \A k \in G : n <= k
  <2> HIDE DEF G
  <2> QED BY <1>5, LeastExists
<1>7. n \in Nat /\ n + 1 \notin seqs
  OBVIOUS
<1>8. 1..n \subseteq seqs
  <2> SUFFICES ASSUME NEW k \in 1..n, k \notin seqs PROVE FALSE
    OBVIOUS
  <2>1. k - 1 \in G /\ k - 1 < n
    BY <1>7
  <2> QED BY <1>6, <1>7, <2>1
<1>9. n \in 0..MaxMessages
  BY <1>1, <1>4, <1>7, <1>8
<1> HIDE DEF G
<1>10. /\ Contiguous(S, origin) \in 0..MaxMessages
       /\ 1..Contiguous(S, origin) \subseteq seqs
       /\ Contiguous(S, origin) + 1 \notin seqs
  BY <1>2, <1>7, <1>8, <1>9
<1> QED BY <1>10 DEF seqs

\* Appending keeps a channel of ids, with the appended id and, while there
\* is room, all the others.
LEMMA AppendedOf ==
  ASSUME NEW S \in SUBSET Ids, NEW id \in Ids, limit.kept \in Nat \ {0}
  PROVE  /\ Appended(S, id) \subseteq S \cup {id} /\ id \in Appended(S, id)
         /\ Cardinality(S \cup {id}) <= limit.kept => Appended(S, id) = S \cup {id}
<1>1. CASE id \in S
  BY <1>1 DEF Appended
<1>2. CASE id \notin S
  <2>1. limit.kept - 1 \in Nat
    OBVIOUS
  <2>2. Appended(S, id) = Newest(S, limit.kept - 1) \cup {id}
    BY <1>2 DEF Appended
  <2>3. /\ Newest(S, limit.kept - 1) \subseteq S
        /\ Cardinality(S) <= limit.kept - 1 => Newest(S, limit.kept - 1) = S
    BY <2>1, NewestOf
  <2>4. IsFiniteSet(S) /\ Cardinality(S) \in Nat
    <3>1. IsFiniteSet(S) /\ Cardinality(S) \in 0..MaxMessages
      BY SomeIds
    <3> QED BY <3>1
  <2>5. Cardinality(S \cup {id}) = Cardinality(S) + 1
    BY <1>2, <2>4, FS_AddElement
  <2>6. Cardinality(S \cup {id}) <= limit.kept => Cardinality(S) <= limit.kept - 1
    BY <2>4, <2>5
  <2> QED BY <2>2, <2>3, <2>6
<1> QED BY <1>1, <1>2

-----------------------------------------------------------------------------
(* Words on their way                                                      *)

\* What a word of each kind carries
LEMMA WordKinds ==
  ASSUME NEW w \in Words
  PROVE  /\ w.type \in {"message", "sync-request", "sync-state"}
         /\ w.type = "message" => w.id \in Ids /\ w = Chat(w.id)
         /\ w.type = "sync-request" => w.ids \in SUBSET Ids
         /\ w.type = "sync-state" => w.hostSeq \in Nat /\ w.mobileSeq \in Nat
<1>1. CASE w \in Chats(Ids)
  <2>1. PICK id \in Ids : w = Chat(id)
    BY <1>1 DEF Chats
  <2> QED BY <2>1 DEF Chat
<1>2. CASE w \in Requests
  BY <1>2 DEF Requests
<1>3. CASE w \in States
  BY <1>3 DEF States
<1> QED BY <1>1, <1>2, <1>3 DEF Words

\* A message is told from the other words, and its id from other ids.
LEMMA ChatIs ==
  ASSUME NEW id, NEW S
  PROVE  /\ Chat(id) \in Chats(S) <=> id \in S
         /\ Chat(id) \notin Requests /\ Chat(id) \notin States
<1>1. Chat(id) \in Chats(S) <=> id \in S
  BY DEF Chats, Chat
<1>2. Chat(id).type = "message"
  BY DEF Chat
<1>3. \A w \in Requests : w.type = "sync-request"
  BY DEF Requests
<1>4. \A w \in States : w.type = "sync-state"
  BY DEF States
<1> QED BY <1>1, <1>2, <1>3, <1>4

\* What the ends send is of these kinds.
LEMMA SentWords ==
  ASSUME made \in [Ids -> Message], NEW S \in SUBSET Ids
  PROVE  /\ SyncState(S) \in States
         /\ SyncRequest(S) \subseteq Requests
         /\ Chats(S) \subseteq Words
<1>1. SyncState(S) \in States
  <2>1. Contiguous(S, "host") \in Nat /\ Contiguous(S, "mobile") \in Nat
    <3>1. Contiguous(S, "host") \in 0..MaxMessages /\ Contiguous(S, "mobile") \in 0..MaxMessages
      BY ContiguousExists
    <3> QED BY <3>1
  <2> HIDE DEF States
  <2> QED BY <2>1 DEF SyncState, States
<1>2. SyncRequest(S) \subseteq Requests
  BY DEF SyncRequest, Requests
<1>3. Chats(S) \subseteq Words
  BY DEF Chats, Words
<1> QED BY <1>1, <1>2, <1>3

\* Missing ids are ids.
LEMMA MissingOf ==
  ASSUME made \in [Ids -> Message], NEW old \in SUBSET Ids, NEW new \in SUBSET Ids
  PROVE  NewlyMissing(old, new) \in SUBSET Ids
<1>1. \A id \in new : made[id].after \in SUBSET Ids
  BY DEF Message
<1>2. MissingIds(new) \subseteq Ids
  BY <1>1 DEF MissingIds
<1> QED BY <1>2 DEF NewlyMissing

\* Messages of an origin, above a number or of some ids, are of that origin.
LEMMA OwnOf ==
  ASSUME NEW S \in SUBSET Ids, NEW origin, NEW n, NEW T
  PROVE  Above(S, origin, n) \subseteq From(origin) /\ Own(S, origin) \cap T \subseteq From(origin)
<1> QED BY DEF Above, Own, From

-----------------------------------------------------------------------------
(* What the steps do                                                       *)

Unheld == UNCHANGED <<made, status, tasks, saying, snapshot, disk, excused, limit>>

\* A word the mobile receives adds to its session at most messages of the
\* desktop, and none of a session that is not full is lost.
MobileHears ==
  /\ Unheld /\ UNCHANGED <<host, forwarded>>
  /\ mine' \in SUBSET (mine \cup From("host")) /\ noted' \in BOOLEAN
  /\ ListLength(mine) < limit.kept => mine \subseteq mine'
  /\ unacked' \in SUBSET unacked
  /\ toMobile' \in SUBSET toMobile
  /\ toHost' \in SUBSET (toHost \cup Chats(From("mobile")) \cup Requests \cup States)
  /\ left' \in [faults : Nat, resets : Nat]

\* A word the desktop receives adds to its channel at most messages of the
\* mobile, which it gives to the agent when its channel had them not.
HostHears ==
  /\ Unheld /\ UNCHANGED <<mine, noted, unacked>>
  /\ \/ UNCHANGED <<host, forwarded>>
     \/ \E id \in From("mobile") :
          /\ host' = Appended(host, id)
          /\ IF id \in host THEN UNCHANGED forwarded
             ELSE forwarded' = [forwarded EXCEPT ![id] = IF @ < 2 THEN @ + 1 ELSE @]
  /\ toHost' \in SUBSET toHost
  /\ toMobile' \in SUBSET (toMobile \cup Chats(From("host")) \cup Requests \cup States)
  /\ left' \in [faults : Nat, resets : Nat]

\* A unit of a bound is spent.
LEMMA SpendOf ==
  ASSUME left \in [faults : Nat, resets : Nat], NEW f \in {"faults", "resets"}, Spend(f)
  PROVE  left' \in [faults : Nat, resets : Nat]
<1> QED BY DEF Spend

\* The mobile receives a word.
LEMMA MobileReceivesStep ==
  ASSUME TypeOK, Origins, NEW w \in toMobile, MobileReceives(w)
  PROVE  MobileHears
<1>1. w \in Words /\ made \in [Ids -> Message] /\ mine \in SUBSET Ids /\ noted \in BOOLEAN
  BY DEF TypeOK
<1>2. UNCHANGED <<made, status, tasks, host, saying, forwarded, snapshot, disk, excused, limit>>
  BY DEF MobileReceives
<1>3. toMobile' \in SUBSET toMobile
  BY DEF MobileReceives
<1>4. left' \in [faults : Nat, resets : Nat]
  <2>1. left' = left \/ Spend("faults")
    BY DEF MobileReceives
  <2> QED BY <2>1, SpendOf DEF TypeOK
<1>5. Dispatched(w)
  BY DEF MobileReceives
<1> DEFINE Sent == Chats(From("mobile")) \cup Requests \cup States
<1>6. CASE w.type = "message"
  <2>1. /\ \E c \in Upsert(mine, w.id) : mine' = c.mine /\ noted' = c.noted
        /\ unacked' = unacked \ {w.id}
        /\ toHost' = toHost \cup SyncRequest(NewlyMissing(mine, mine \cup {w.id}))
    BY <1>5, <1>6 DEF Dispatched, MobileChat, Acknowledged
  <2>2. w.id \in Ids /\ w = Chat(w.id)
    BY <1>1, <1>6, WordKinds
  <2>3. w.id \in From("host")
    BY <2>2 DEF Origins
  <2>4. PICK c \in Upsert(mine, w.id) : mine' = c.mine /\ noted' = c.noted
    BY <2>1
  <2>5. /\ c.mine \subseteq mine \cup {w.id} /\ c.noted \in BOOLEAN
        /\ ListLength(mine) < limit.kept => mine \subseteq c.mine
    <3>1. limit.kept \in Nat /\ noted \in BOOLEAN
      BY DEF TypeOK
    <3> QED BY <1>1, <2>2, <3>1, UpsertOf
  <2>6. toHost' \in SUBSET (toHost \cup Sent)
    <3>1. NewlyMissing(mine, mine \cup {w.id}) \in SUBSET Ids
      <4>1. mine \cup {w.id} \in SUBSET Ids
        BY <1>1, <2>2
      <4> QED BY <1>1, <4>1, MissingOf
    <3>2. SyncRequest(NewlyMissing(mine, mine \cup {w.id})) \subseteq Requests
      BY <1>1, <3>1, SentWords
    <3> QED BY <2>1, <3>2
  <2>7. mine' \in SUBSET (mine \cup From("host")) /\ noted' \in BOOLEAN
        /\ (ListLength(mine) < limit.kept => mine \subseteq mine')
    BY <2>3, <2>4, <2>5
  <2> QED BY <1>2, <1>3, <1>4, <2>1, <2>6, <2>7 DEF MobileHears, Unheld
<1>7. CASE w.type = "sync-request"
  <2>1. toHost' = toHost \cup Chats(Own(mine, "mobile") \cap w.ids) /\ UNCHANGED <<mine, noted, unacked>>
    BY <1>5, <1>7 DEF Dispatched, MobileRequest
  <2>2. Own(mine, "mobile") \cap w.ids \subseteq From("mobile")
    BY <1>1, OwnOf
  <2>3. toHost' \in SUBSET (toHost \cup Sent)
    BY <2>1, <2>2 DEF Chats
  <2> QED BY <1>1, <1>2, <1>3, <1>4, <2>1, <2>3 DEF MobileHears, Unheld
<1>8. CASE w.type = "sync-state"
  <2>1. /\ toHost' = toHost \cup Chats(Above(mine, "mobile", w.mobileSeq))
                       \cup (IF w.hostSeq > Contiguous(mine, "host") THEN {SyncState(mine)} ELSE {})
        /\ UNCHANGED <<mine, noted, unacked>>
    BY <1>5, <1>8 DEF Dispatched, MobileState
  <2>2. Above(mine, "mobile", w.mobileSeq) \subseteq From("mobile")
    BY <1>1, OwnOf
  <2>3. SyncState(mine) \in States
    BY <1>1, SentWords
  <2>4. toHost' \in SUBSET (toHost \cup Sent)
    BY <2>1, <2>2, <2>3 DEF Chats
  <2> QED BY <1>1, <1>2, <1>3, <1>4, <2>1, <2>4 DEF MobileHears, Unheld
<1> QED BY <1>1, <1>6, <1>7, <1>8, WordKinds

\* The desktop receives a word.
LEMMA HostReceivesStep ==
  ASSUME TypeOK, Origins, NEW w \in toHost, HostReceives(w)
  PROVE  HostHears
<1>1. w \in Words /\ made \in [Ids -> Message] /\ host \in SUBSET Ids
  BY DEF TypeOK
<1>2. UNCHANGED <<made, mine, noted, status, tasks, saying, unacked, snapshot, disk, excused, limit>>
  BY DEF HostReceives
<1>3. toHost' \in SUBSET toHost
  BY DEF HostReceives
<1>4. left' \in [faults : Nat, resets : Nat]
  <2>1. left' = left \/ Spend("faults")
    BY DEF HostReceives
  <2> QED BY <2>1, SpendOf DEF TypeOK
<1> DEFINE Sent == Chats(From("host")) \cup Requests \cup States
<1>5. CASE w.type = "message"
  <2> DEFINE next == Appended(host, w.id)
  <2>1. /\ host' = next
        /\ IF w.id \in host THEN UNCHANGED forwarded
           ELSE forwarded' = [forwarded EXCEPT ![w.id] = IF @ < 2 THEN @ + 1 ELSE @]
        /\ toMobile' = toMobile \cup SyncRequest(NewlyMissing(host, next))
    BY <1>5 DEF HostReceives, HostChat, Forwards
  <2>2. w.id \in Ids /\ w = Chat(w.id)
    BY <1>1, <1>5, WordKinds
  <2>3. w.id \in From("mobile")
    BY <2>2 DEF Origins
  <2>4. next \in SUBSET Ids
    <3>1. limit.kept \in Nat \ {0}
      BY DEF TypeOK
    <3>2. next \subseteq host \cup {w.id}
      BY <1>1, <2>2, <3>1, AppendedOf
    <3> QED BY <1>1, <2>2, <3>2
  <2>5. toMobile' \in SUBSET (toMobile \cup Sent)
    <3> HIDE DEF next
    <3>1. NewlyMissing(host, next) \in SUBSET Ids
      BY <1>1, <2>4, MissingOf
    <3>2. SyncRequest(NewlyMissing(host, next)) \subseteq Requests
      BY <1>1, <3>1, SentWords
    <3> QED BY <2>1, <3>2
  <2> QED BY <1>2, <1>3, <1>4, <2>1, <2>3, <2>5 DEF HostHears, Unheld
<1>6. CASE w.type = "sync-request"
  <2>1. /\ toMobile' = toMobile \cup Chats(Own(host, "host") \cap w.ids)
        /\ UNCHANGED <<host, forwarded>>
    BY <1>6 DEF HostReceives, HostRequest
  <2>2. Own(host, "host") \cap w.ids \subseteq From("host")
    BY <1>1, OwnOf
  <2>3. toMobile' \in SUBSET (toMobile \cup Sent)
    BY <2>1, <2>2 DEF Chats
  <2> QED BY <1>2, <1>3, <1>4, <2>1, <2>3 DEF HostHears, Unheld
<1>7. CASE w.type = "sync-state"
  <2>1. /\ toMobile' = toMobile \cup Chats(Above(host, "host", w.hostSeq))
                       \cup (IF w.mobileSeq > Contiguous(host, "mobile") THEN {SyncState(host)} ELSE {})
        /\ UNCHANGED <<host, forwarded>>
    BY <1>7 DEF HostReceives, HostState
  <2>2. Above(host, "host", w.hostSeq) \subseteq From("host")
    BY <1>1, OwnOf
  <2>3. SyncState(host) \in States
    BY <1>1, SentWords
  <2>4. toMobile' \in SUBSET (toMobile \cup Sent)
    BY <2>1, <2>2, <2>3 DEF Chats
  <2> QED BY <1>2, <1>3, <1>4, <2>1, <2>4 DEF HostHears, Unheld
<1> QED BY <1>1, <1>5, <1>6, <1>7, WordKinds

-----------------------------------------------------------------------------
(* The invariant is inductive                                              *)

\* A written message follows messages made before, and changes no other.
LEMMA WriteStep ==
  ASSUME TypeOK, History, NEW id \in Ids, NEW origin \in {"mobile", "host"},
         NEW S \in SUBSET Written, Write(id, origin, S)
  PROVE  /\ made' \in [Ids -> Message] /\ History'
         /\ id \notin Written /\ Written' = Written \cup {id}
         /\ made'[id].origin = origin /\ made[id].origin = "none"
         /\ \A x \in Ids \ {id} : made'[x] = made[x]
<1> DEFINE m == [origin |-> origin, seq |-> NextOriginSeq(S, origin), after |-> LeafIds(S)]
<1>1. made \in [Ids -> Message] /\ S \in SUBSET Ids
  BY DEF TypeOK, Written
<1>2. made[id] = Absent /\ made' = [made EXCEPT ![id] = m]
  BY DEF Write
<1>3. m \in Message /\ m.origin = origin /\ m.after = LeafIds(S)
  <2>1. NextOriginSeq(S, origin) \in Nat
    BY <1>1, NextSeqExists
  <2>2. LeafIds(S) \in SUBSET Ids
    BY <1>1 DEF LeafIds
  <2> QED BY <2>1, <2>2 DEF Message
<1> HIDE DEF m
<1>4. made' \in [Ids -> Message]
  BY <1>1, <1>2, <1>3
<1>5. made'[id] = m /\ \A x \in Ids \ {id} : made'[x] = made[x]
  BY <1>1, <1>2
<1>6. Absent.origin = "none" /\ m # Absent
  BY <1>3 DEF Absent
<1>7. id \notin Written
  BY <1>2 DEF Written
<1>8. Written' = Written \cup {id}
  <2>1. \A x \in Ids \ {id} : x \in Written' <=> x \in Written
    BY <1>5 DEF Written
  <2>2. id \in Written'
    BY <1>5, <1>6 DEF Written
  <2>3. Written' \subseteq Ids /\ Written \subseteq Ids
    BY DEF Written
  <2> QED BY <2>1, <2>2, <2>3
<1>9. \A x \in Ids : made'[x].after \subseteq Written
  <2> TAKE x \in Ids
  <2>1. CASE x = id
    <3>1. LeafIds(S) \subseteq S
      BY DEF LeafIds
    <3> QED BY <1>3, <1>5, <2>1, <3>1
  <2>2. CASE x # id
    BY <1>5, <2>2 DEF History
  <2> QED BY <2>1, <2>2
<1>10. Founded(Written)'
  <2> SUFFICES ASSUME NEW T \in SUBSET Written', T # {}
               PROVE  \E x \in T : made'[x].after \cap T = {}
    BY DEF Founded
  <2>1. CASE T = {id}
    <3>1. made'[id].after \cap T = {}
      BY <1>7, <1>9, <2>1
    <3> QED BY <2>1, <3>1
  <2>2. CASE T # {id}
    <3>1. T \ {id} \in SUBSET Written /\ T \ {id} # {}
      BY <1>8, <2>2
    <3>2. PICK x \in T \ {id} : made[x].after \cap (T \ {id}) = {}
      BY <3>1 DEF History, Founded
    <3>3. x \in Ids \ {id}
      BY <3>1 DEF Written
    <3>4. made'[x].after \cap T = {}
      BY <1>5, <1>7, <1>9, <3>2, <3>3
    <3> QED BY <3>2, <3>4
  <2> QED BY <2>1, <2>2
<1>11. History'
  <2>1. \A x \in Ids : made'[x].after \subseteq Written'
    BY <1>8, <1>9
  <2> QED BY <1>10, <2>1 DEF History
<1> QED BY <1>2, <1>3, <1>4, <1>5, <1>6, <1>7, <1>8, <1>11

\* What a step is
Stepped ==
  \/ \E id \in Ids : \/ SendMessage(id) \/ RetryMessage(id) \/ Deliver(id)
                     \/ Settle(id) \/ Fail(id) \/ HostSay(id) \/ HostSaid(id)
                     \/ HostSayFails(id) \/ HostReports(id) \/ HostRetry(id)
  \/ SyncWithDesktop \/ MobileHears \/ HostHears
  \/ \E w \in toHost \cup toMobile : Lose(w)
  \/ SessionSaved \/ Restart \/ RefreshBegins \/ RefreshEnds

\* Every step is one of these.
LEMMA StepKinds ==
  ASSUME TypeOK, Origins, Next
  PROVE  Stepped
<1>1. ASSUME NEW w \in toMobile, MobileReceives(w) PROVE Stepped
  BY <1>1, MobileReceivesStep DEF Stepped
<1>2. ASSUME NEW w \in toHost, HostReceives(w) PROVE Stepped
  BY <1>2, HostReceivesStep DEF Stepped
<1> QED BY <1>1, <1>2 DEF Next, Writing, Receiving, Stepped

\* The first states satisfy the invariant.
LEMMA Initial == Init => IInv
<1> SUFFICES ASSUME Init PROVE IInv
  OBVIOUS
<1>1. Absent \in Message /\ Absent.origin = "none" /\ Absent.after = {}
  BY DEF Absent, Message
<1>2. TypeOK
  <2>1. PICK s \in Scenarios : /\ left = [faults |-> s.faults, resets |-> s.resets]
                               /\ limit = [messages |-> s.messages, kept |-> s.limit, info |-> s.info]
    BY DEF Init
  <2>2. left \in [faults : Nat, resets : Nat] /\ limit \in [messages : Nat, kept : Nat \ {0}, info : Nat]
    BY <2>1, ChatAssumption
  <2>3. made \in [Ids -> Message]
    BY <1>1 DEF Init
  <2>4. snapshot \in [open : BOOLEAN, session : Sessions] /\ disk \in Sessions /\ status \in Statuses
    <3>1. [id \in Ids |-> "none"] \in Statuses
      BY DEF Statuses
    <3>2. disk \in Sessions
      BY <3>1 DEF Init, Sessions
    <3> QED BY <3>1, <3>2 DEF Init
  <2>5. /\ tasks \in [Ids -> {"none", "deliver", "settle"}] /\ forwarded \in [Ids -> 0..2]
        /\ mine = {} /\ noted \in BOOLEAN /\ host = {} /\ saying = {} /\ unacked = {}
        /\ toHost = {} /\ toMobile = {} /\ excused = {}
    BY DEF Init
  <2> QED BY <2>2, <2>3, <2>4, <2>5 DEF TypeOK
<1>3. \A id \in Ids : made[id] = Absent
  BY DEF Init
<1>4. Written = {}
  BY <1>3 DEF Written
<1>5. Origins
  <2>1. /\ \A id \in Ids : status[id] = "none" /\ tasks[id] = "none" /\ disk.status[id] = "none"
        /\ snapshot.session.status = disk.status
    BY DEF Init
  <2>2. /\ mine = {} /\ host = {} /\ snapshot.session.mine = {} /\ disk.mine = {} /\ saying = {}
        /\ unacked = {} /\ toHost = {} /\ toMobile = {}
    BY DEF Init
  <2>3. Delivered(status) /\ Delivered(snapshot.session.status) /\ Delivered(disk.status)
    BY <2>1 DEF Delivered
  <2> QED BY <1>4, <2>1, <2>2, <2>3 DEF Origins
<1>6. History
  <2>1. \A id \in Ids : made[id].after = {}
    BY <1>1, <1>3
  <2>2. Founded(Written)
    BY <1>4 DEF Founded
  <2> QED BY <2>1, <2>2 DEF History
<1>7. SendingIsSent
  BY DEF Init, SendingIsSent
<1>8. Given
  <2>1. \A id \in Ids : forwarded[id] = 0 /\ host = {}
    BY DEF Init
  <2> QED BY <2>1 DEF Given
<1> QED BY <1>2, <1>5, <1>6, <1>7, <1>8 DEF IInv

\* Settled keeps the types of what it changes.
LEMMA SettledStep ==
  ASSUME TypeOK, NEW id \in Ids, NEW result \in {"sent", "failed"}, Settled(id, result)
  PROVE  /\ tasks' \in [Ids -> {"none", "deliver", "settle"}] /\ status' \in Statuses
         /\ tasks'[id] = "none" /\ \A x \in Ids \ {id} : tasks'[x] = tasks[x] /\ status'[x] = status[x]
         /\ status'[id] = IF id \in mine THEN result ELSE status[id]
         /\ UNCHANGED <<made, mine, noted, host, saying, unacked, forwarded, toHost, toMobile,
                        snapshot, disk, excused, limit>>
<1> QED BY DEF TypeOK, Statuses, Settled

\* A message the mobile sends joins its session.
LEMMA SendMessageOf ==
  ASSUME TypeOK, NEW id \in Ids, SendMessage(id)
  PROVE  /\ mine' \subseteq mine \cup {id} /\ noted' \in BOOLEAN
         /\ ListLength(mine) < limit.kept => mine \subseteq mine'
<1>1. PICK c \in UpsertLast(mine, id) : mine' = c.mine /\ noted' = c.noted
  BY DEF SendMessage
<1>2. mine \in SUBSET Ids /\ noted \in BOOLEAN /\ limit.kept \in Nat \ {0}
  BY DEF TypeOK
<1>3. /\ c.mine \subseteq mine \cup {id} /\ c.noted \in BOOLEAN
      /\ ListLength(mine) < limit.kept => mine \subseteq c.mine
  BY <1>2, UpsertLastOf
<1> QED BY <1>1, <1>3

\* Every step keeps the types.
LEMMA TypeStep ==
  ASSUME TypeOK, Origins, History, [Next]_vars
  PROVE  TypeOK'
<1>1. CASE UNCHANGED vars
  BY <1>1 DEF TypeOK, vars
<1>2. ASSUME NEW id \in Ids, SendMessage(id) PROVE TypeOK'
  <2>1. Write(id, "mobile", mine) /\ mine \in SUBSET Written
    BY <1>2 DEF SendMessage, Origins
  <2>2. made' \in [Ids -> Message]
    BY <2>1, WriteStep
  <2>3. mine' \in SUBSET Ids /\ noted' \in BOOLEAN
    <3>1. mine \in SUBSET Ids
      BY DEF TypeOK
    <3> QED BY <1>2, <3>1, SendMessageOf
  <2>4. /\ status' = [status EXCEPT ![id] = "sending"]
        /\ tasks' = [tasks EXCEPT ![id] = "deliver"]
        /\ UNCHANGED <<host, saying, unacked, forwarded, toHost, toMobile, snapshot, disk, excused, left, limit>>
    BY <1>2 DEF SendMessage
  <2>5. status' \in Statuses /\ tasks' \in [Ids -> {"none", "deliver", "settle"}]
    BY <2>4 DEF TypeOK, Statuses
  <2> QED BY <2>2, <2>3, <2>4, <2>5 DEF TypeOK
<1>3. ASSUME NEW id \in Ids, RetryMessage(id) PROVE TypeOK'
  <2>1. /\ status' = [status EXCEPT ![id] = "sending"]
        /\ tasks' = [tasks EXCEPT ![id] = "deliver"]
        /\ UNCHANGED <<made, mine, noted, host, saying, unacked, forwarded, toHost, toMobile, snapshot, disk,
                       excused, left, limit>>
    BY <1>3 DEF RetryMessage
  <2>2. status' \in Statuses /\ tasks' \in [Ids -> {"none", "deliver", "settle"}]
    BY <2>1 DEF TypeOK, Statuses
  <2> QED BY <2>1, <2>2 DEF TypeOK
<1>4. ASSUME NEW id \in Ids, Deliver(id) PROVE TypeOK'
  <2>1. /\ tasks' = [tasks EXCEPT ![id] = "settle"]
        /\ toHost' = toHost \cup {Chat(id)}
        /\ UNCHANGED <<made, mine, noted, status, host, saying, unacked, forwarded, toMobile, snapshot, disk,
                       excused, left, limit>>
    BY <1>4 DEF Deliver
  <2>2. tasks' \in [Ids -> {"none", "deliver", "settle"}]
    BY <2>1 DEF TypeOK
  <2>3. toHost' \in SUBSET Words
    BY <2>1 DEF TypeOK, Words, Chats
  <2> QED BY <2>1, <2>2, <2>3 DEF TypeOK
<1>5. ASSUME NEW id \in Ids, Settle(id) \/ Fail(id) PROVE TypeOK'
  <2>1. \E result \in {"sent", "failed"} : Settled(id, result)
    BY <1>5 DEF Settle, Fail
  <2>2. left' \in [faults : Nat, resets : Nat]
    <3>1. left' = left \/ Spend("faults")
      BY <1>5 DEF Settle, Fail
    <3> QED BY <3>1, SpendOf DEF TypeOK
  <2>3. /\ tasks' \in [Ids -> {"none", "deliver", "settle"}] /\ status' \in Statuses
        /\ UNCHANGED <<made, mine, noted, host, saying, unacked, forwarded, toHost, toMobile,
                       snapshot, disk, excused, limit>>
    BY <2>1, SettledStep
  <2> QED BY <2>2, <2>3 DEF TypeOK
<1>6. ASSUME NEW id \in Ids, HostSay(id) PROVE TypeOK'
  <2>1. Write(id, "host", host) /\ host \in SUBSET Written
    BY <1>6 DEF HostSay, Origins
  <2>2. made' \in [Ids -> Message]
    BY <2>1, WriteStep
  <2>3. /\ saying' = saying \cup {id} /\ unacked' = unacked \cup {id}
        /\ toMobile' = toMobile \cup {Chat(id)}
        /\ UNCHANGED <<mine, noted, status, tasks, host, forwarded, toHost, snapshot, disk,
                       excused, left, limit>>
    BY <1>6 DEF HostSay
  <2>4. saying' \in SUBSET Ids /\ unacked' \in SUBSET Ids /\ toMobile' \in SUBSET Words
    BY <2>3 DEF TypeOK, Words, Chats
  <2> QED BY <2>2, <2>3, <2>4 DEF TypeOK
<1>20. ASSUME NEW id \in Ids PROVE Appended(host, id) \in SUBSET Ids
  <2>1. host \in SUBSET Ids /\ limit.kept \in Nat \ {0}
    BY DEF TypeOK
  <2>2. Appended(host, id) \subseteq host \cup {id}
    BY <2>1, AppendedOf
  <2> QED BY <2>1, <2>2
<1>21. ASSUME NEW id \in Ids, HostReports(id) PROVE TypeOK'
  <2>1. Write(id, "host", host) /\ host \in SUBSET Written
    BY <1>21 DEF HostReports, Origins
  <2>2. made' \in [Ids -> Message]
    BY <2>1, WriteStep
  <2>3. /\ host' = Appended(host, id) /\ unacked' = unacked \cup {id}
        /\ toMobile' = toMobile \cup {Chat(id)}
        /\ UNCHANGED <<mine, noted, status, tasks, saying, forwarded, toHost, snapshot, disk,
                       excused, left, limit>>
    BY <1>21 DEF HostReports
  <2>4. unacked' \in SUBSET Ids /\ toMobile' \in SUBSET Words
    BY <2>3 DEF TypeOK, Words, Chats
  <2> QED BY <1>20, <2>2, <2>3, <2>4 DEF TypeOK
<1>22. ASSUME NEW id \in Ids, HostSaid(id) PROVE TypeOK'
  <2>1. /\ saying' = saying \ {id} /\ host' = Appended(host, id)
        /\ UNCHANGED <<made, mine, noted, status, tasks, unacked, forwarded, toHost, toMobile,
                       snapshot, disk, excused, left, limit>>
    BY <1>22 DEF HostSaid
  <2> QED BY <1>20, <2>1 DEF TypeOK
<1>23. ASSUME NEW id \in Ids, HostSayFails(id) PROVE TypeOK'
  <2>1. /\ saying' = saying \ {id} /\ unacked' = unacked \ {id} /\ toMobile' \subseteq toMobile
        /\ Spend("faults")
        /\ UNCHANGED <<made, mine, noted, status, tasks, host, forwarded, toHost, snapshot, disk,
                       excused, limit>>
    BY <1>23 DEF HostSayFails
  <2>2. left' \in [faults : Nat, resets : Nat]
    BY <2>1, SpendOf DEF TypeOK
  <2> QED BY <2>1, <2>2 DEF TypeOK
<1>7. ASSUME NEW id \in Ids, HostRetry(id) PROVE TypeOK'
  <2>1. /\ toMobile' = toMobile \cup {Chat(id)} /\ Spend("faults")
        /\ UNCHANGED <<made, mine, noted, status, tasks, host, saying, unacked, forwarded, toHost, snapshot, disk,
                       excused, limit>>
    BY <1>7 DEF HostRetry
  <2>2. toMobile' \in SUBSET Words
    BY <2>1 DEF TypeOK, Words, Chats
  <2>3. left' \in [faults : Nat, resets : Nat]
    BY <2>1, SpendOf DEF TypeOK
  <2> QED BY <2>1, <2>2, <2>3 DEF TypeOK
<1>8. CASE SyncWithDesktop
  <2>1. /\ toHost' = toHost \cup {SyncState(mine)}
        /\ UNCHANGED <<made, mine, noted, status, tasks, host, saying, unacked, forwarded, toMobile, snapshot, disk,
                       excused, left, limit>>
    BY <1>8 DEF SyncWithDesktop
  <2>2. SyncState(mine) \in Words
    BY SentWords DEF TypeOK, Words
  <2>3. toHost' \in SUBSET Words
    BY <2>1, <2>2 DEF TypeOK
  <2> QED BY <2>1, <2>3 DEF TypeOK
<1>9. CASE MobileHears
  <2>1. /\ UNCHANGED <<made, status, tasks, host, saying, forwarded, snapshot, disk, excused, limit>>
        /\ left' \in [faults : Nat, resets : Nat]
    BY <1>9 DEF MobileHears, Unheld
  <2>2. /\ mine' \in SUBSET Ids /\ noted' \in BOOLEAN
        /\ unacked' \in SUBSET Ids /\ toMobile' \in SUBSET Words
    BY <1>9 DEF MobileHears, TypeOK, From
  <2>3. toHost' \in SUBSET Words
    <3>1. Chats(From("mobile")) \subseteq Words
      <4>1. From("mobile") \in SUBSET Ids
        BY DEF From
      <4> QED BY <4>1, SentWords DEF TypeOK
    <3> QED BY <1>9, <3>1 DEF MobileHears, TypeOK, Words
  <2> QED BY <2>1, <2>2, <2>3 DEF TypeOK
<1>10. CASE HostHears
  <2>1. /\ UNCHANGED <<made, mine, noted, status, tasks, saying, unacked, snapshot, disk, excused, limit>>
        /\ left' \in [faults : Nat, resets : Nat]
    BY <1>10 DEF HostHears, Unheld
  <2>2. host' \in SUBSET Ids /\ forwarded' \in [Ids -> 0..2]
    <3>1. CASE UNCHANGED <<host, forwarded>>
      BY <3>1 DEF TypeOK
    <3>2. CASE ~UNCHANGED <<host, forwarded>>
      <4>1. PICK id \in From("mobile") :
              /\ host' = Appended(host, id)
              /\ IF id \in host THEN UNCHANGED forwarded
                 ELSE forwarded' = [forwarded EXCEPT ![id] = IF @ < 2 THEN @ + 1 ELSE @]
        BY <1>10, <3>2 DEF HostHears
      <4>2. id \in Ids /\ host \in SUBSET Ids /\ limit.kept \in Nat \ {0}
        BY DEF From, TypeOK
      <4>3. Appended(host, id) \subseteq host \cup {id}
        BY <4>2, AppendedOf
      <4>4. forwarded' \in [Ids -> 0..2]
        BY <4>1, <4>2 DEF TypeOK
      <4> QED BY <4>1, <4>2, <4>3, <4>4
    <3> QED BY <3>1, <3>2
  <2>3. toHost' \in SUBSET Words
    BY <1>10 DEF HostHears, TypeOK
  <2>4. toMobile' \in SUBSET Words
    <3>1. Chats(From("host")) \subseteq Words
      <4>1. From("host") \in SUBSET Ids
        BY DEF From
      <4> QED BY <4>1, SentWords DEF TypeOK
    <3> QED BY <1>10, <3>1 DEF HostHears, TypeOK, Words
  <2> QED BY <2>1, <2>2, <2>3, <2>4 DEF TypeOK
<1>11. ASSUME NEW w \in toHost \cup toMobile, Lose(w) PROVE TypeOK'
  <2>1. /\ toHost' = toHost \ {w} /\ toMobile' = toMobile \ {w} /\ Spend("faults")
        /\ UNCHANGED <<made, mine, noted, status, tasks, host, saying, unacked, forwarded, snapshot, disk, excused, limit>>
    BY <1>11 DEF Lose
  <2>2. left' \in [faults : Nat, resets : Nat]
    BY <2>1, SpendOf DEF TypeOK
  <2> QED BY <2>1, <2>2 DEF TypeOK
<1>12. CASE Restart
  <2>1. /\ mine' = disk.mine /\ noted' = disk.noted /\ status' = disk.status
        /\ tasks' = [id \in Ids |-> "none"]
        /\ excused' = excused \cup {id \in Ids : disk.status[id] = "sending"}
        /\ snapshot' = [snapshot EXCEPT !.open = FALSE] /\ Spend("resets")
        /\ UNCHANGED <<made, host, saying, unacked, forwarded, toHost, toMobile, disk, limit>>
    BY <1>12 DEF Restart
  <2>2. left' \in [faults : Nat, resets : Nat]
    BY <2>1, SpendOf DEF TypeOK
  <2>3. snapshot' \in [open : BOOLEAN, session : Sessions]
    BY <2>1 DEF TypeOK
  <2>4. tasks' \in [Ids -> {"none", "deliver", "settle"}] /\ excused' \in SUBSET Ids
    BY <2>1 DEF TypeOK
  <2>5. mine' \in SUBSET Ids /\ noted' \in BOOLEAN /\ status' \in Statuses
    BY <2>1 DEF TypeOK, Sessions
  <2> QED BY <2>1, <2>2, <2>3, <2>4, <2>5 DEF TypeOK
<1>24. Session \in Sessions
  BY DEF TypeOK, Session, Sessions
<1>25. CASE SessionSaved
  <2>1. /\ disk' = Session
        /\ UNCHANGED <<made, mine, noted, status, tasks, host, saying, unacked, forwarded,
                       toHost, toMobile, snapshot, excused, left, limit>>
    BY <1>25 DEF SessionSaved
  <2> QED BY <1>24, <2>1 DEF TypeOK
<1>13. CASE RefreshBegins
  <2>1. /\ snapshot' = [open |-> TRUE, session |-> Session] /\ Spend("resets")
        /\ UNCHANGED <<made, mine, noted, status, tasks, host, saying, unacked, forwarded, toHost,
                       toMobile, disk, excused, limit>>
    BY <1>13 DEF RefreshBegins
  <2>2. left' \in [faults : Nat, resets : Nat]
    BY <2>1, SpendOf DEF TypeOK
  <2>3. snapshot' \in [open : BOOLEAN, session : Sessions]
    BY <1>24, <2>1
  <2> QED BY <2>1, <2>2, <2>3 DEF TypeOK
<1>14. CASE RefreshEnds
  <2> DEFINE old == snapshot.session
  <2>1. /\ mine' = mine \cup old.mine /\ noted' = (noted \/ old.noted)
        /\ status' = [id \in Ids |-> IF id \in old.mine THEN old.status[id] ELSE status[id]]
        /\ excused' = excused \cup {id \in old.mine : id \notin mine \/ old.status[id] # status[id]}
        /\ snapshot' = [snapshot EXCEPT !.open = FALSE]
        /\ UNCHANGED <<made, tasks, host, saying, unacked, forwarded, toHost, toMobile, disk,
                       left, limit>>
    BY <1>14 DEF RefreshEnds, MergedIds
  <2>2. snapshot' \in [open : BOOLEAN, session : Sessions]
    BY <2>1 DEF TypeOK
  <2>3. /\ old.mine \in SUBSET Ids /\ old.noted \in BOOLEAN /\ old.status \in Statuses
        /\ status \in Statuses
    BY DEF TypeOK, Sessions
  <2> HIDE DEF old
  <2>4. status' \in Statuses
    BY <2>1, <2>3 DEF Statuses
  <2>5. mine' \in SUBSET Ids /\ excused' \in SUBSET Ids
    BY <2>1, <2>3 DEF TypeOK
  <2>6. noted' \in BOOLEAN
    BY <2>1, <2>3 DEF TypeOK
  <2> QED BY <2>1, <2>2, <2>4, <2>5, <2>6 DEF TypeOK
<1>15. Next \/ UNCHANGED vars
  OBVIOUS
<1>16. Next => Stepped
  BY StepKinds
<1> QED BY <1>1, <1>2, <1>3, <1>4, <1>5, <1>6, <1>7, <1>8, <1>9, <1>10, <1>11, <1>12, <1>13, <1>14,
           <1>15, <1>16, <1>21, <1>22, <1>23, <1>25 DEF Stepped

\* A written message joins those of its origin, and no message leaves them.
LEMMA FromStep ==
  ASSUME TypeOK, History, NEW id \in Ids, NEW origin \in {"mobile", "host"},
         NEW S \in SUBSET Written, Write(id, origin, S)
  PROVE  /\ id \in From(origin)'
         /\ From("mobile") \subseteq From("mobile")' /\ From("host") \subseteq From("host")'
         /\ From("none")' = From("none") \ {id}
         /\ id \notin From("mobile") /\ id \notin From("host")
<1>1. /\ made'[id].origin = origin /\ made[id].origin = "none"
      /\ \A x \in Ids \ {id} : made'[x] = made[x]
  BY WriteStep
<1> QED BY <1>1 DEF From

\* The origins of a step that writes and changes no status
LEMMA OriginsKept ==
  ASSUME TypeOK, Origins, History, NEW id \in Ids, NEW S \in SUBSET Written, Write(id, "host", S),
         host' \subseteq host \cup {id}, saying' \subseteq saying \cup {id},
         unacked' = unacked \cup {id}, toMobile' = toMobile \cup {Chat(id)},
         UNCHANGED <<mine, status, tasks, toHost, snapshot, disk>>
  PROVE  Origins'
<1>1. id \notin Written /\ Written' = Written \cup {id}
  BY WriteStep
<1>2. /\ id \in From("host")' /\ From("mobile") \subseteq From("mobile")'
      /\ From("host") \subseteq From("host")' /\ From("none")' = From("none") \ {id}
  BY FromStep
<1>3. /\ mine' \subseteq Written' /\ host' \subseteq Written'
      /\ snapshot'.session.mine \subseteq Written' /\ disk'.mine \subseteq Written'
  BY <1>1 DEF Origins
<1>4. From("none")' \cap Written' = {}
  BY <1>1, <1>2 DEF Origins
<1>5. \A x \in Ids : Chat(x) \in toMobile' => x \in From("host")'
  BY <1>2 DEF Origins, Chat
<1>6. /\ unacked' \subseteq From("host")' /\ saying' \subseteq From("host")'
      /\ \A x \in Ids : Chat(x) \in toHost' => x \in From("mobile")'
  BY <1>2 DEF Origins
<1>7. \A x \in Ids : tasks'[x] # "none" => x \in From("mobile")'
  BY <1>2 DEF Origins
<1>8. /\ Delivered(status)' /\ Delivered(snapshot.session.status)' /\ Delivered(disk.status)'
  BY <1>2 DEF Origins, Delivered
<1> QED BY <1>3, <1>4, <1>5, <1>6, <1>7, <1>8 DEF Origins

\* Every step keeps the origins.
LEMMA OriginsStep ==
  ASSUME TypeOK, Origins, History, [Next]_vars
  PROVE  Origins'
<1>1. CASE UNCHANGED vars
  BY <1>1 DEF Origins, vars, Written, From, Delivered
<1>2. ASSUME NEW id \in Ids, SendMessage(id) PROVE Origins'
  <2>1. Write(id, "mobile", mine) /\ mine \in SUBSET Written
    BY <1>2 DEF SendMessage, Origins
  <2>2. id \notin Written /\ Written' = Written \cup {id}
    BY <2>1, WriteStep
  <2>3. /\ id \in From("mobile")' /\ From("mobile") \subseteq From("mobile")'
        /\ From("host") \subseteq From("host")' /\ From("none")' = From("none") \ {id}
    BY <2>1, FromStep
  <2>4. mine' \subseteq mine \cup {id}
    BY <1>2, SendMessageOf
  <2>5. /\ status' = [status EXCEPT ![id] = "sending"]
        /\ tasks' = [tasks EXCEPT ![id] = "deliver"]
        /\ UNCHANGED <<host, saying, unacked, toHost, toMobile, snapshot, disk>>
    BY <1>2 DEF SendMessage
  <2>6. \A x \in Ids \ {id} : status'[x] = status[x] /\ tasks'[x] = tasks[x]
    BY <2>5 DEF TypeOK, Statuses
  <2>7. /\ \A x \in Ids : tasks'[x] # "none" => x \in From("mobile")'
        /\ Delivered(status)'
    BY <2>3, <2>6 DEF Origins, Delivered
  <2>8. Delivered(snapshot.session.status)' /\ Delivered(disk.status)'
    BY <2>3, <2>5 DEF Origins, Delivered
  <2>9. /\ mine' \subseteq Written' /\ host' \subseteq Written'
        /\ snapshot'.session.mine \subseteq Written' /\ disk'.mine \subseteq Written'
    BY <2>2, <2>4, <2>5 DEF Origins
  <2>10. From("none")' \cap Written' = {}
    BY <2>2, <2>3 DEF Origins
  <2>11. /\ unacked' \subseteq From("host")' /\ saying' \subseteq From("host")'
         /\ \A x \in Ids : Chat(x) \in toMobile' => x \in From("host")'
         /\ \A x \in Ids : Chat(x) \in toHost' => x \in From("mobile")'
    BY <2>3, <2>5 DEF Origins
  <2> QED BY <2>7, <2>8, <2>9, <2>10, <2>11 DEF Origins
<1>20. ASSUME NEW id \in Ids PROVE Appended(host, id) \subseteq host \cup {id}
  <2>1. host \in SUBSET Ids /\ limit.kept \in Nat \ {0}
    BY DEF TypeOK
  <2> QED BY <2>1, AppendedOf
<1>3. ASSUME NEW id \in Ids, HostSay(id) \/ HostReports(id) PROVE Origins'
  <2>1. Write(id, "host", host) /\ host \in SUBSET Written
    BY <1>3 DEF HostSay, HostReports, Origins
  <2>2. host' \subseteq host \cup {id}
    BY <1>3, <1>20 DEF HostSay, HostReports
  <2>3. /\ saying' \subseteq saying \cup {id} /\ unacked' = unacked \cup {id}
        /\ toMobile' = toMobile \cup {Chat(id)}
        /\ UNCHANGED <<mine, status, tasks, toHost, snapshot, disk>>
    BY <1>3 DEF HostSay, HostReports
  <2> QED BY <2>1, <2>2, <2>3, OriginsKept
<1>4. ASSUME UNCHANGED made
      PROVE  /\ Written' = Written /\ From("mobile")' = From("mobile") /\ From("host")' = From("host")
             /\ From("none")' = From("none")
  BY <1>4 DEF Written, From
<1>5. ASSUME NEW id \in Ids, RetryMessage(id) PROVE Origins'
  <2>1. /\ status' = [status EXCEPT ![id] = "sending"] /\ status[id] = "failed"
        /\ tasks' = [tasks EXCEPT ![id] = "deliver"]
        /\ UNCHANGED <<made, mine, host, saying, unacked, toHost, toMobile, snapshot, disk>>
    BY <1>5 DEF RetryMessage
  <2>2. id \in From("mobile")
    BY <2>1 DEF Origins, Delivered
  <2>3. \A x \in Ids \ {id} : status'[x] = status[x] /\ tasks'[x] = tasks[x]
    BY <2>1 DEF TypeOK, Statuses
  <2>4. /\ \A x \in Ids : tasks'[x] # "none" => x \in From("mobile")
        /\ Delivered(status)'
    BY <1>4, <2>1, <2>2, <2>3 DEF Origins, Delivered
  <2>5. Delivered(snapshot.session.status)' /\ Delivered(disk.status)'
    BY <1>4, <2>1 DEF Origins, Delivered
  <2> QED BY <1>4, <2>1, <2>4, <2>5 DEF Origins
<1>6. ASSUME NEW id \in Ids, Deliver(id) PROVE Origins'
  <2>1. /\ tasks' = [tasks EXCEPT ![id] = "settle"] /\ tasks[id] = "deliver"
        /\ toHost' = toHost \cup {Chat(id)}
        /\ UNCHANGED <<made, mine, status, host, saying, unacked, toMobile, snapshot, disk>>
    BY <1>6 DEF Deliver
  <2>2. id \in From("mobile")
    BY <2>1 DEF Origins
  <2>3. \A x \in Ids \ {id} : tasks'[x] = tasks[x]
    BY <2>1 DEF TypeOK
  <2>4. \A x \in Ids : tasks'[x] # "none" => x \in From("mobile")
    BY <2>2, <2>3 DEF Origins
  <2>5. \A x \in Ids : Chat(x) \in toHost' => x \in From("mobile")
    BY <2>1, <2>2 DEF Origins, Chat
  <2>6. Delivered(status)' /\ Delivered(snapshot.session.status)' /\ Delivered(disk.status)'
    BY <1>4, <2>1 DEF Origins, Delivered
  <2> QED BY <1>4, <2>1, <2>4, <2>5, <2>6 DEF Origins
<1>7. ASSUME NEW id \in Ids, Settle(id) \/ Fail(id) PROVE Origins'
  <2>1. PICK result \in {"sent", "failed"} : Settled(id, result)
    BY <1>7 DEF Settle, Fail
  <2>2. tasks[id] # "none"
    BY <1>7 DEF Settle, Fail
  <2>3. /\ \A x \in Ids \ {id} : tasks'[x] = tasks[x] /\ status'[x] = status[x]
        /\ UNCHANGED <<made, mine, noted, host, saying, unacked, forwarded, toHost, toMobile,
                       snapshot, disk, excused, limit>>
    BY <2>1, SettledStep
  <2>4. id \in From("mobile")
    BY <2>2 DEF Origins
  <2>5. /\ \A x \in Ids : tasks'[x] # "none" => x \in From("mobile")
        /\ Delivered(status)'
    BY <1>4, <2>3, <2>4 DEF Origins, Delivered
  <2>6. Delivered(snapshot.session.status)' /\ Delivered(disk.status)'
    BY <1>4, <2>3 DEF Origins, Delivered
  <2> QED BY <1>4, <2>3, <2>5, <2>6 DEF Origins
<1>21. ASSUME UNCHANGED <<made, status, snapshot, disk>>
       PROVE  Delivered(status)' /\ Delivered(snapshot.session.status)' /\ Delivered(disk.status)'
  BY <1>4, <1>21 DEF Origins, Delivered
<1>8. ASSUME NEW id \in Ids, HostRetry(id) PROVE Origins'
  <2>1. /\ toMobile' = toMobile \cup {Chat(id)} /\ id \in unacked
        /\ UNCHANGED <<made, mine, status, tasks, host, saying, unacked, toHost, snapshot, disk>>
    BY <1>8 DEF HostRetry
  <2>2. \A x \in Ids : Chat(x) \in toMobile' => x \in From("host")
    BY <2>1 DEF Origins, Chat
  <2> QED BY <1>4, <1>21, <2>1, <2>2 DEF Origins
<1>22. ASSUME NEW id \in Ids, HostSaid(id) \/ HostSayFails(id) PROVE Origins'
  <2>1. /\ saying' \subseteq saying /\ unacked' \subseteq unacked /\ toMobile' \subseteq toMobile
        /\ id \in saying
        /\ UNCHANGED <<made, mine, status, tasks, toHost, snapshot, disk>>
    BY <1>22 DEF HostSaid, HostSayFails
  <2>2. host' \subseteq host \cup {id}
    BY <1>20, <1>22 DEF HostSaid, HostSayFails
  <2>3. id \in Written
    BY <2>1 DEF Origins, From, Written, Absent
  <2> QED BY <1>4, <1>21, <2>1, <2>2, <2>3 DEF Origins
<1>9. CASE SyncWithDesktop
  <2>1. /\ toHost' = toHost \cup {SyncState(mine)}
        /\ UNCHANGED <<made, mine, status, tasks, host, saying, unacked, toMobile, snapshot, disk>>
    BY <1>9 DEF SyncWithDesktop
  <2>2. SyncState(mine) \in States
    BY SentWords DEF TypeOK
  <2>3. \A x \in Ids : Chat(x) \in toHost' => x \in From("mobile")
    BY <2>1, <2>2, ChatIs DEF Origins
  <2> QED BY <1>4, <1>21, <2>1, <2>3 DEF Origins
<1>10. CASE MobileHears
  <2>1. UNCHANGED <<made, status, tasks, host, saying, snapshot, disk>>
    BY <1>10 DEF MobileHears, Unheld
  <2>2. From("host") \subseteq Written
    BY DEF From, Written, Absent
  <2>3. mine' \subseteq Written
    BY <1>10, <2>2 DEF MobileHears, Origins
  <2>4. \A x \in Ids : Chat(x) \in toHost' => x \in From("mobile")
    BY <1>10, ChatIs DEF MobileHears, Origins
  <2>5. unacked' \subseteq From("host") /\ \A x \in Ids : Chat(x) \in toMobile' => x \in From("host")
    BY <1>10 DEF MobileHears, Origins
  <2> QED BY <1>4, <1>21, <2>1, <2>3, <2>4, <2>5 DEF Origins
<1>11. CASE HostHears
  <2>1. UNCHANGED <<made, mine, status, tasks, saying, unacked, snapshot, disk>>
    BY <1>11 DEF HostHears, Unheld
  <2>2. From("mobile") \subseteq Written
    BY DEF From, Written, Absent
  <2>3. host' \subseteq Written
    <3>1. CASE UNCHANGED host
      BY <3>1 DEF Origins
    <3>2. CASE ~UNCHANGED host
      <4>1. PICK id \in From("mobile") : host' = Appended(host, id)
        BY <1>11, <3>2 DEF HostHears
      <4>2. id \in Ids
        BY DEF From
      <4> QED BY <1>20, <2>2, <4>1, <4>2 DEF Origins
    <3> QED BY <3>1, <3>2
  <2>4. \A x \in Ids : Chat(x) \in toMobile' => x \in From("host")
    BY <1>11, ChatIs DEF HostHears, Origins
  <2>5. \A x \in Ids : Chat(x) \in toHost' => x \in From("mobile")
    BY <1>11 DEF HostHears, Origins
  <2> QED BY <1>4, <1>21, <2>1, <2>3, <2>4, <2>5 DEF Origins
<1>12. ASSUME NEW w \in toHost \cup toMobile, Lose(w) PROVE Origins'
  <2>1. /\ toHost' \subseteq toHost /\ toMobile' \subseteq toMobile
        /\ UNCHANGED <<made, mine, status, tasks, host, saying, unacked, snapshot, disk>>
    BY <1>12 DEF Lose
  <2> QED BY <1>4, <1>21, <2>1 DEF Origins
<1>13. CASE Restart
  <2>1. /\ mine' = disk.mine /\ status' = disk.status /\ tasks' = [id \in Ids |-> "none"]
        /\ snapshot' = [snapshot EXCEPT !.open = FALSE]
        /\ UNCHANGED <<made, host, saying, unacked, toHost, toMobile, disk>>
    BY <1>13 DEF Restart
  <2>2. snapshot'.session = snapshot.session
    BY <2>1 DEF TypeOK
  <2>3. \A x \in Ids : tasks'[x] = "none"
    BY <2>1
  <2>4. Delivered(status)' /\ Delivered(snapshot.session.status)' /\ Delivered(disk.status)'
    BY <1>4, <2>1, <2>2 DEF Origins, Delivered
  <2> QED BY <1>4, <2>1, <2>2, <2>3, <2>4 DEF Origins
<1>23. CASE SessionSaved
  <2>1. /\ disk' = Session
        /\ UNCHANGED <<made, mine, status, tasks, host, saying, unacked, toHost, toMobile, snapshot>>
    BY <1>23 DEF SessionSaved
  <2>2. disk'.mine = mine /\ disk'.status = status
    BY <2>1 DEF Session
  <2>3. Delivered(status)' /\ Delivered(snapshot.session.status)' /\ Delivered(disk.status)'
    BY <1>4, <2>1, <2>2 DEF Origins, Delivered
  <2> QED BY <1>4, <2>1, <2>2, <2>3 DEF Origins
<1>14. CASE RefreshBegins
  <2>1. /\ snapshot' = [open |-> TRUE, session |-> Session]
        /\ UNCHANGED <<made, mine, status, tasks, host, saying, unacked, toHost, toMobile, disk>>
    BY <1>14 DEF RefreshBegins
  <2>2. snapshot'.session.mine = mine /\ snapshot'.session.status = status
    BY <2>1 DEF Session
  <2>3. Delivered(status)' /\ Delivered(snapshot.session.status)' /\ Delivered(disk.status)'
    BY <1>4, <2>1, <2>2 DEF Origins, Delivered
  <2> QED BY <1>4, <2>1, <2>2, <2>3 DEF Origins
<1>15. CASE RefreshEnds
  <2> DEFINE old == snapshot.session
  <2>1. /\ mine' = mine \cup old.mine
        /\ status' = [id \in Ids |-> IF id \in old.mine THEN old.status[id] ELSE status[id]]
        /\ snapshot' = [snapshot EXCEPT !.open = FALSE]
        /\ UNCHANGED <<made, tasks, host, saying, unacked, toHost, toMobile, disk>>
    BY <1>15 DEF RefreshEnds, MergedIds
  <2>2. snapshot'.session = old
    BY <2>1 DEF TypeOK
  <2>3. old.mine \subseteq Written /\ Delivered(old.status)
    BY DEF Origins
  <2> HIDE DEF old
  <2>4. Delivered(status)' /\ Delivered(snapshot.session.status)' /\ Delivered(disk.status)'
    BY <1>4, <2>1, <2>2, <2>3 DEF Origins, Delivered
  <2> QED BY <1>4, <2>1, <2>2, <2>3, <2>4 DEF Origins
<1>16. Next \/ UNCHANGED vars
  OBVIOUS
<1>17. Next => Stepped
  BY StepKinds
<1> QED BY <1>1, <1>2, <1>3, <1>5, <1>6, <1>7, <1>8, <1>9, <1>10, <1>11, <1>12, <1>13, <1>14, <1>15,
           <1>16, <1>17, <1>22, <1>23 DEF Stepped

\* Every step keeps the history.
LEMMA HistoryStep ==
  ASSUME TypeOK, Origins, History, [Next]_vars
  PROVE  History'
<1>1. CASE UNCHANGED made
  BY <1>1 DEF History, Founded, Written
<1>2. ASSUME NEW id \in Ids, SendMessage(id) PROVE History'
  <2>1. Write(id, "mobile", mine) /\ mine \in SUBSET Written
    BY <1>2 DEF SendMessage, Origins
  <2> QED BY <2>1, WriteStep
<1>3. ASSUME NEW id \in Ids, HostSay(id) \/ HostReports(id) PROVE History'
  <2>1. Write(id, "host", host) /\ host \in SUBSET Written
    BY <1>3 DEF HostSay, HostReports, Origins
  <2> QED BY <2>1, WriteStep
<1>4. CASE Stepped
  <2>1. \/ \E id \in Ids : SendMessage(id) \/ HostSay(id) \/ HostReports(id)
        \/ UNCHANGED made
    BY <1>4 DEF Stepped, RetryMessage, Deliver, Settle, Fail, Settled, HostSaid, HostSayFails, HostRetry,
                SyncWithDesktop, MobileHears, HostHears, Unheld, Lose, SessionSaved, Restart,
                RefreshBegins, RefreshEnds
  <2> QED BY <1>1, <1>2, <1>3, <2>1
<1>5. Next \/ UNCHANGED vars
  OBVIOUS
<1>6. Next => Stepped
  BY StepKinds
<1> QED BY <1>1, <1>4, <1>5, <1>6 DEF vars

\* Every step keeps what is shown as being sent under way.
LEMMA SendingStep ==
  ASSUME IInv, [Next]_vars
  PROVE  SendingIsSent'
<1>0. /\ TypeOK /\ Origins /\ History /\ mine \in SUBSET Ids
      /\ \A x \in mine : status[x] = "sending" => tasks[x] # "none" \/ x \in excused
  BY DEF IInv, TypeOK, SendingIsSent
<1>1. CASE UNCHANGED <<mine, noted, status, tasks, excused>>
  BY <1>0, <1>1 DEF SendingIsSent
<1>2. ASSUME NEW id \in Ids, SendMessage(id) PROVE SendingIsSent'
  <2>1. /\ status' = [status EXCEPT ![id] = "sending"]
        /\ tasks' = [tasks EXCEPT ![id] = "deliver"]
        /\ UNCHANGED excused
    BY <1>2 DEF SendMessage
  <2>2. mine' \subseteq mine \cup {id}
    BY <1>0, <1>2, SendMessageOf
  <2>3. tasks'[id] = "deliver" /\ \A x \in Ids \ {id} : status'[x] = status[x] /\ tasks'[x] = tasks[x]
    BY <1>0, <2>1 DEF TypeOK, Statuses
  <2> QED BY <1>0, <2>1, <2>2, <2>3 DEF SendingIsSent
<1>3. ASSUME NEW id \in Ids, RetryMessage(id) PROVE SendingIsSent'
  <2>1. /\ status' = [status EXCEPT ![id] = "sending"]
        /\ tasks' = [tasks EXCEPT ![id] = "deliver"]
        /\ UNCHANGED <<mine, excused>>
    BY <1>3 DEF RetryMessage
  <2>2. tasks'[id] = "deliver" /\ \A x \in Ids \ {id} : status'[x] = status[x] /\ tasks'[x] = tasks[x]
    BY <1>0, <2>1 DEF TypeOK, Statuses
  <2> QED BY <1>0, <2>1, <2>2 DEF SendingIsSent
<1>4. ASSUME NEW id \in Ids, Deliver(id) PROVE SendingIsSent'
  <2>1. tasks' = [tasks EXCEPT ![id] = "settle"] /\ UNCHANGED <<mine, noted, status, excused>>
    BY <1>4 DEF Deliver
  <2>2. tasks'[id] = "settle" /\ \A x \in Ids \ {id} : tasks'[x] = tasks[x]
    BY <1>0, <2>1 DEF TypeOK
  <2> QED BY <1>0, <2>1, <2>2 DEF SendingIsSent
<1>5. ASSUME NEW id \in Ids, Settle(id) \/ Fail(id) PROVE SendingIsSent'
  <2>1. PICK result \in {"sent", "failed"} : Settled(id, result)
    BY <1>5 DEF Settle, Fail
  <2>2. /\ \A x \in Ids \ {id} : tasks'[x] = tasks[x] /\ status'[x] = status[x]
        /\ status'[id] = IF id \in mine THEN result ELSE status[id]
        /\ UNCHANGED <<mine, excused>>
    BY <1>0, <2>1, SettledStep
  <2> QED BY <1>0, <2>2 DEF SendingIsSent
<1>6. CASE MobileHears
  <2>1. UNCHANGED <<status, tasks, excused>> /\ mine' \subseteq mine \cup From("host")
    BY <1>6 DEF MobileHears, Unheld
  <2>2. \A x \in From("host") : status[x] = "none"
    BY <1>0 DEF Origins, Delivered, From
  <2> QED BY <1>0, <2>1, <2>2 DEF SendingIsSent
<1>7. CASE Restart
  <2>1. /\ mine' = disk.mine /\ status' = disk.status
        /\ excused' = excused \cup {id \in Ids : disk.status[id] = "sending"}
    BY <1>7 DEF Restart
  <2>2. disk.mine \in SUBSET Ids
    BY <1>0 DEF TypeOK, Sessions
  <2> QED BY <2>1, <2>2 DEF SendingIsSent
<1>8. CASE RefreshEnds
  <2> DEFINE old == snapshot.session
  <2>1. /\ mine' = mine \cup old.mine
        /\ status' = [id \in Ids |-> IF id \in old.mine THEN old.status[id] ELSE status[id]]
        /\ excused' = excused \cup {id \in old.mine : id \notin mine \/ old.status[id] # status[id]}
        /\ UNCHANGED tasks
    BY <1>8 DEF RefreshEnds, MergedIds
  <2>2. old.mine \in SUBSET Ids
    BY <1>0 DEF TypeOK, Sessions
  <2> HIDE DEF old
  <2>3. ASSUME NEW x \in mine', status'[x] = "sending"
        PROVE  tasks'[x] # "none" \/ x \in excused'
    <3>1. x \in Ids
      BY <1>0, <2>1, <2>2, <2>3
    <3>2. CASE x \in old.mine
      <4>1. CASE x \notin mine \/ old.status[x] # status[x]
        BY <2>1, <3>2, <4>1
      <4>2. CASE x \in mine /\ old.status[x] = status[x]
        <5>1. status[x] = "sending"
          BY <2>1, <2>3, <3>1, <3>2, <4>2
        <5> QED BY <1>0, <2>1, <4>2, <5>1
      <4> QED BY <4>1, <4>2
    <3>3. CASE x \notin old.mine
      <4>1. x \in mine /\ status[x] = "sending"
        BY <2>1, <2>3, <3>1, <3>3
      <4> QED BY <1>0, <2>1, <4>1
    <3> QED BY <3>2, <3>3
  <2> QED BY <2>3 DEF SendingIsSent
<1>9. CASE Stepped
  <2>1. \/ \E id \in Ids : SendMessage(id) \/ RetryMessage(id) \/ Deliver(id) \/ Settle(id) \/ Fail(id)
        \/ MobileHears \/ Restart \/ RefreshEnds
        \/ UNCHANGED <<mine, noted, status, tasks, excused>>
    BY <1>9 DEF Stepped, HostSay, HostSaid, HostSayFails, HostReports, HostRetry, SyncWithDesktop,
                HostHears, Unheld, Lose, SessionSaved, RefreshBegins
  <2> QED BY <1>1, <1>2, <1>3, <1>4, <1>5, <1>6, <1>7, <1>8, <2>1
<1>10. Next \/ UNCHANGED vars
  OBVIOUS
<1>11. Next => Stepped
  BY <1>0, StepKinds
<1> QED BY <1>1, <1>9, <1>10, <1>11 DEF vars

\* While the conversation fits, the channel of the desktop loses nothing.
LEMMA HostFits ==
  ASSUME TypeOK, NEW id \in Ids, host \cup {id} \subseteq Written, ~Trimmed
  PROVE  Appended(host, id) = host \cup {id}
<1>1. /\ host \in SUBSET Ids /\ limit.kept \in Nat \ {0} /\ Written \in SUBSET Ids
  BY DEF TypeOK, Written
<1>2. Cardinality(Written) <= limit.kept /\ Cardinality(Written) \in Nat /\ IsFiniteSet(Written)
  <2>1. IsFiniteSet(Written) /\ Cardinality(Written) \in 0..MaxMessages
    BY <1>1, SomeIds
  <2>2. ~(Cardinality(Written) > limit.kept)
    BY DEF Trimmed, Written
  <2> QED BY <1>1, <2>1, <2>2
<1>3. host \cup {id} \in SUBSET Ids
  BY <1>1
<1>4. Cardinality(host \cup {id}) <= Cardinality(Written)
  BY <1>2, FS_Subset
<1>5. Cardinality(host \cup {id}) \in 0..MaxMessages
  BY <1>3, SomeIds
<1>6. Cardinality(host \cup {id}) <= limit.kept
  BY <1>1, <1>2, <1>4, <1>5
<1> QED BY <1>1, <1>6, AppendedOf

\* A conversation once trimmed stays so.
LEMMA TrimmedStays ==
  ASSUME TypeOK, Written \subseteq Written', made' \in [Ids -> Message], UNCHANGED limit, Trimmed
  PROVE  Trimmed'
<1>1. Written \in SUBSET Ids /\ Written' \in SUBSET Ids
  BY DEF Written
<1>2. /\ IsFiniteSet(Written') /\ Cardinality(Written') \in 0..MaxMessages
      /\ Cardinality(Written) \in 0..MaxMessages
  BY <1>1, SomeIds
<1>3. Cardinality(Written) <= Cardinality(Written')
  BY <1>2, FS_Subset
<1>4. Cardinality(Written) > limit.kept /\ limit.kept \in Nat
  BY DEF Trimmed, Written, TypeOK
<1>5. Cardinality(Written') > limit'.kept
  BY <1>2, <1>3, <1>4
<1> QED BY <1>5 DEF Trimmed, Written

\* Every step keeps what the agent was given.
LEMMA GivenStep ==
  ASSUME IInv, [Next]_vars
  PROVE  Given'
<1>0. TypeOK /\ Origins /\ History /\ Given
  BY DEF IInv
<1>1. CASE UNCHANGED <<made, host, forwarded, limit>>
  BY <1>0, <1>1 DEF Given, Trimmed, Written
<1>2. ASSUME NEW id \in Ids, SendMessage(id) \/ HostSay(id) PROVE Given'
  <2>1. /\ \/ Write(id, "mobile", mine) /\ mine \in SUBSET Written
           \/ Write(id, "host", host) /\ host \in SUBSET Written
        /\ UNCHANGED <<host, forwarded, limit>>
    BY <1>0, <1>2 DEF SendMessage, HostSay, Origins
  <2>2. Written' = Written \cup {id} /\ made' \in [Ids -> Message]
    BY <1>0, <2>1, WriteStep
  <2>3. Trimmed => Trimmed'
    <3>1. Written \subseteq Written'
      BY <2>2
    <3> QED BY <1>0, <2>1, <2>2, <3>1, TrimmedStays
  <2> QED BY <1>0, <2>1, <2>3 DEF Given
<1>8. ASSUME NEW id \in Ids, HostSaid(id) PROVE Given'
  <2>1. id \in saying /\ host' = Appended(host, id) /\ UNCHANGED <<made, forwarded, limit>>
    BY <1>8 DEF HostSaid
  <2>2. Trimmed' = Trimmed
    BY <2>1 DEF Trimmed, Written
  <2>3. CASE Trimmed
    BY <2>2, <2>3 DEF Given
  <2>4. CASE ~Trimmed
    <3>1. host \cup {id} \subseteq Written
      BY <1>0, <2>1 DEF From, Written, Absent, Origins
    <3>2. host' = host \cup {id}
      BY <1>0, <2>1, <2>4, <3>1, HostFits
    <3>3. \A x \in Ids : forwarded[x] \in Nat /\ forwarded[x] <= IF x \in host THEN 1 ELSE 0
      BY <1>0, <2>4 DEF Given, TypeOK
    <3>4. \A x \in Ids : forwarded'[x] <= IF x \in host' THEN 1 ELSE 0
      BY <2>1, <3>2, <3>3
    <3> QED BY <3>4 DEF Given
  <2> QED BY <2>3, <2>4
<1>3. ASSUME NEW id \in Ids, HostReports(id) PROVE Given'
  <2>1. Write(id, "host", host) /\ host \in SUBSET Written
    BY <1>0, <1>3 DEF HostReports, Origins
  <2>2. id \notin Written /\ Written' = Written \cup {id} /\ made' \in [Ids -> Message]
    BY <1>0, <2>1, WriteStep
  <2>3. host' = Appended(host, id) /\ UNCHANGED <<forwarded, limit>>
    BY <1>3 DEF HostReports
  <2>4. Trimmed => Trimmed'
    <3>1. Written \subseteq Written'
      BY <2>2
    <3> QED BY <1>0, <2>2, <2>3, <3>1, TrimmedStays
  <2>5. ASSUME ~Trimmed' PROVE host \subseteq host'
    <3>1. IsFiniteSet(Written) /\ Cardinality(Written) \in 0..MaxMessages /\ Written \in SUBSET Ids
      <4>1. Written \in SUBSET Ids
        BY DEF Written
      <4> QED BY <4>1, SomeIds
    <3>2. limit.kept \in Nat \ {0} /\ host \in SUBSET Ids
      BY <1>0 DEF TypeOK
    <3>3. Cardinality(Written') = Cardinality(Written) + 1
      BY <2>2, <3>1, FS_AddElement
    <3>4. ~(Cardinality(Written') > limit.kept)
      BY <2>3, <2>5 DEF Trimmed, Written
    <3>5. IsFiniteSet(host) /\ Cardinality(host) <= Cardinality(Written)
      BY <2>1, <3>1, FS_Subset
    <3>6. Cardinality(host) \in 0..MaxMessages
      BY <3>2, SomeIds
    <3>7. Cardinality(host \cup {id}) <= limit.kept
      <4>1. Cardinality(host \cup {id})
              = IF id \in host THEN Cardinality(host) ELSE Cardinality(host) + 1
        BY <3>5, FS_AddElement
      <4> QED BY <3>1, <3>2, <3>3, <3>4, <3>5, <3>6, <4>1
    <3>8. Appended(host, id) = host \cup {id}
      BY <3>2, <3>7, AppendedOf
    <3> QED BY <2>3, <3>8
  <2>6. CASE Trimmed'
    BY <2>6 DEF Given
  <2>7. CASE ~Trimmed'
    <3>1. \A x \in Ids : forwarded[x] <= IF x \in host THEN 1 ELSE 0
      BY <1>0, <2>4, <2>7 DEF Given
    <3>2. \A x \in Ids : forwarded[x] \in Nat
      BY <1>0 DEF TypeOK
    <3>3. host \subseteq host'
      BY <2>5, <2>7
    <3>4. \A x \in Ids : forwarded'[x] <= IF x \in host' THEN 1 ELSE 0
      <4> TAKE x \in Ids
      <4>1. forwarded'[x] = forwarded[x]
        BY <2>3
      <4>2. CASE x \in host
        <5>1. x \in host' /\ forwarded[x] <= 1
          BY <3>1, <3>3, <4>2
        <5> QED BY <4>1, <5>1
      <4>3. CASE x \notin host
        <5>1. forwarded[x] = 0
          BY <3>1, <3>2, <4>3
        <5> QED BY <4>1, <5>1
      <4> QED BY <4>2, <4>3
    <3> QED BY <3>4 DEF Given
  <2> QED BY <2>6, <2>7
<1>4. CASE HostHears
  <2>1. UNCHANGED <<made, limit>>
    BY <1>4 DEF HostHears, Unheld
  <2>2. Trimmed' = Trimmed
    BY <2>1 DEF Trimmed, Written
  <2>3. CASE UNCHANGED <<host, forwarded>>
    BY <1>1, <2>1, <2>3
  <2>4. CASE Trimmed
    BY <2>2, <2>4 DEF Given
  <2>5. CASE ~Trimmed /\ ~UNCHANGED <<host, forwarded>>
    <3>1. PICK id \in From("mobile") :
            /\ host' = Appended(host, id)
            /\ IF id \in host THEN UNCHANGED forwarded
               ELSE forwarded' = [forwarded EXCEPT ![id] = IF @ < 2 THEN @ + 1 ELSE @]
      BY <1>4, <2>5 DEF HostHears
    <3>2. id \in Ids /\ host \cup {id} \subseteq Written
      BY <1>0 DEF From, Written, Absent, Origins
    <3>3. host' = host \cup {id}
      BY <1>0, <2>5, <3>1, <3>2, HostFits
    <3>4. \A x \in Ids : forwarded[x] \in 0..2 /\ forwarded[x] <= IF x \in host THEN 1 ELSE 0
      BY <1>0, <2>5 DEF Given, TypeOK
    <3>5. CASE id \in host
      <4>1. UNCHANGED <<host, forwarded>>
        BY <3>1, <3>3, <3>5
      <4> QED BY <2>3, <4>1
    <3>6. CASE id \notin host
      <4>1. forwarded' = [forwarded EXCEPT ![id] = IF @ < 2 THEN @ + 1 ELSE @]
        BY <3>1, <3>6
      <4>2. forwarded[id] = 0
        BY <3>2, <3>4, <3>6
      <4>3. forwarded'[id] = 1 /\ \A x \in Ids \ {id} : forwarded'[x] = forwarded[x]
        BY <1>0, <3>2, <4>1, <4>2 DEF TypeOK
      <4>4. \A x \in Ids : forwarded'[x] <= IF x \in host' THEN 1 ELSE 0
        <5> TAKE x \in Ids
        <5>1. CASE x = id
          BY <3>3, <4>3, <5>1
        <5>2. CASE x # id
          BY <3>3, <3>4, <4>3, <5>2
        <5> QED BY <5>1, <5>2
      <4> QED BY <4>4 DEF Given
    <3> QED BY <3>5, <3>6
  <2> QED BY <2>3, <2>4, <2>5
<1>5. CASE Stepped
  <2>1. \/ \E id \in Ids : SendMessage(id) \/ HostSay(id) \/ HostSaid(id) \/ HostReports(id)
        \/ HostHears \/ UNCHANGED <<made, host, forwarded, limit>>
    BY <1>5 DEF Stepped, RetryMessage, Deliver, Settle, Fail, Settled, HostSayFails, HostRetry,
                SyncWithDesktop, MobileHears, Unheld, Lose, SessionSaved, Restart, RefreshBegins,
                RefreshEnds
  <2> QED BY <1>1, <1>2, <1>3, <1>4, <1>8, <2>1
<1>6. Next \/ UNCHANGED vars
  OBVIOUS
<1>7. Next => Stepped
  BY <1>0, StepKinds
<1> QED BY <1>1, <1>5, <1>6, <1>7 DEF vars

\* A session that is not full loses no message in a step, but for a restart.
LEMMA ForgottenStep ==
  ASSUME IInv, [Next]_vars
  PROVE  [ListLength(mine) < limit.kept => mine \subseteq mine' \/ (Restart /\ disk.mine \subseteq mine')]_mine
<1> SUFFICES ASSUME ListLength(mine) < limit.kept, ~Restart PROVE mine \subseteq mine'
  BY DEF Restart
<1>0. TypeOK /\ Origins
  BY DEF IInv
<1>1. ASSUME NEW id \in Ids, SendMessage(id) PROVE mine \subseteq mine'
  BY <1>0, <1>1, SendMessageOf
<1>2. CASE MobileHears
  BY <1>2 DEF MobileHears
<1>3. CASE RefreshEnds
  BY <1>3 DEF RefreshEnds, MergedIds
<1>4. CASE Stepped
  <2>1. \/ \E id \in Ids : SendMessage(id)
        \/ MobileHears \/ RefreshEnds \/ UNCHANGED mine
    BY <1>4 DEF Stepped, RetryMessage, Deliver, Settle, Fail, Settled, HostSay, HostSaid, HostSayFails,
                HostReports, HostRetry, SyncWithDesktop, HostHears, Unheld, Lose, SessionSaved,
                RefreshBegins
  <2> QED BY <1>1, <1>2, <1>3, <2>1
<1>5. Next \/ UNCHANGED vars
  OBVIOUS
<1>6. Next => Stepped
  BY <1>0, StepKinds
<1> QED BY <1>4, <1>5, <1>6 DEF vars

\* Every step keeps the invariant.
LEMMA Inductive == IInv /\ [Next]_vars => IInv'
<1> SUFFICES ASSUME IInv, [Next]_vars PROVE IInv'
  OBVIOUS
<1>1. TypeOK /\ Origins /\ History
  BY DEF IInv
<1>2. TypeOK'
  BY <1>1, TypeStep
<1>3. Origins'
  BY <1>1, OriginsStep
<1>4. History'
  BY <1>1, HistoryStep
<1>5. SendingIsSent' /\ Given'
  BY SendingStep, GivenStep
<1> QED BY <1>2, <1>3, <1>4, <1>5 DEF IInv

-----------------------------------------------------------------------------
(* The theorems                                                            *)

(* The types of the conversation's state, who wrote what is held or on its *)
(* way, the acyclic history (SessionsContext.tsx, chat.rs).                *)
THEOREM ChatInvariance == Spec => []IInv
<1>1. Init => IInv
  BY Initial
<1>2. IInv /\ [Next]_vars => IInv'
  BY Inductive
<1> QED BY <1>1, <1>2, PTL DEF Spec

(* handleIncomingAppMessage (chat.rs:893): the agent is given a message of *)
(* a conversation that fits at most once, however often it is sent.        *)
THEOREM AgentGivenOnce == Spec => []AgentOnce
<1>1. IInv => AgentOnce
  <2> SUFFICES ASSUME IInv, ~Trimmed, NEW id \in Ids PROVE forwarded[id] <= 1
    BY DEF AgentOnce
  <2>1. forwarded[id] \in 0..2 /\ forwarded[id] <= IF id \in host THEN 1 ELSE 0
    BY DEF IInv, Given, TypeOK
  <2> QED BY <2>1
<1> QED BY <1>1, ChatInvariance, PTL

(* sendMessage (SessionsContext.tsx:1966): a message shown as being sent   *)
(* has a delivery under way, or a restart or a refresh excuses it.         *)
THEOREM SendingHasTask == Spec => []SendingIsSent
<1>1. IInv => SendingIsSent
  BY DEF IInv
<1> QED BY <1>1, ChatInvariance, PTL

(* analyzeOpenClawPairChatGraph (openclaw-chat.ts:101) and                 *)
(* reconcileSessionMessages (chatGraph.ts:143): either end shows a message *)
(* after those it follows, for any clocks and order of arrival, unless a   *)
(* reply dated before the info message follows one dated after it.         *)
THEOREM ShownAfterParents == Spec => []ParentsFirst
<1>1. IInv => ParentsFirst
  <2> SUFFICES ASSUME IInv PROVE ParentsFirst
    OBVIOUS
  <2>1. made \in [Ids -> Message] /\ limit.info \in Nat
    BY DEF IInv, TypeOK
  <2>2. ASSUME NEW S \in {host, mine} PROVE S \in SUBSET Ids /\ Founded(S)
    <3>1. S \in SUBSET Written
      BY DEF IInv, Origins
    <3>2. Written \in SUBSET Ids /\ Founded(Written)
      BY DEF IInv, History, Written
    <3> QED BY <3>1, <3>2 DEF Founded
  <2>3. InPlace(Order(host))
    <3> DEFINE q == Order(host)
    <3>1. host \in SUBSET Ids /\ Founded(host)
      BY <2>2
    <3>2. \A i, j \in 1..Len(q) : q[j] \in made[q[i]].after => j < i
      BY <3>1, OrderFollows
    <3> QED BY <3>2 DEF InPlace
  <2>4. ASSUME ~Backdated, NEW q \in Listings(mine) PROVE InPlace(q)
    <3>1. mine \in SUBSET Ids /\ Founded(mine)
      BY <2>2
    <3>2. noted => ~ \E x \in mine : \E y \in Parents(x, mine) : x <= limit.info /\ limit.info < y
      BY <2>4 DEF Backdated
    <3> QED BY <2>1, <3>1, <3>2, ListingInPlace
  <2> QED BY <2>3, <2>4 DEF ParentsFirst
<1> QED BY <1>1, ChatInvariance, PTL

(* mergeRefreshedSessions (SessionsContext.tsx:143): a session that is not *)
(* full loses no message to a refresh, a late message or a failure, and to *)
(* a restart only what was not saved.                                      *)
THEOREM SessionKeepsMessages == Spec => NothingForgotten
<1>1. IInv /\ [Next]_vars
        => [ListLength(mine) < limit.kept => mine \subseteq mine' \/ (Restart /\ disk.mine \subseteq mine')]_mine
  BY ForgottenStep
<1> QED BY <1>1, ChatInvariance, PTL DEF Spec, NothingForgotten


-----------------------------------------------------------------------------
(* CrdtReplicas: the listing of analyzeCrdtOps.                            *)

\* No two operations of S have one id.
Unique(S) == \A o, p \in S : Id(o) = Id(p) => o = p

\* Every set of these operations has one that follows none of the set.
Acyclic(S) == \A T \in SUBSET S : T # {} => \E o \in T : o.parents \cap KnownIds(T) = {}

\* Operations of one id are one, so the first of any is defined.
LEMMA FirstExists ==
  ASSUME NEW T \in SUBSET Ops, T # {}, Unique(T)
  PROVE  First(T) \in T
<1>1. /\ \A o \in T : o.hlc \in Nat /\ o.seq \in Nat /\ o.author \in Devices
      /\ \A d \in Devices : Rank[d] \in Nat
  BY CrdtAssumption DEF Ops
<1> DEFINE H == {o.hlc : o \in T}
<1>2. PICK h \in H : \A y \in H : h <= y
  <2>1. H \in SUBSET Nat /\ H # {}
    BY <1>1
  <2> HIDE DEF H
  <2> QED BY <2>1, LeastExists
<1> DEFINE R == {Rank[o.author] : o \in {p \in T : p.hlc = h}}
<1>3. PICK r \in R : \A y \in R : r <= y
  <2>1. R \in SUBSET Nat /\ R # {}
    BY <1>1, <1>2
  <2> HIDE DEF R
  <2> QED BY <2>1, LeastExists
<1> DEFINE Q == {o.seq : o \in {p \in T : p.hlc = h /\ Rank[p.author] = r}}
<1>4. PICK q \in Q : \A y \in Q : q <= y
  <2>1. Q \in SUBSET Nat /\ Q # {}
    BY <1>1, <1>3
  <2> HIDE DEF Q
  <2> QED BY <2>1, LeastExists
<1>5. PICK o \in T : o.hlc = h /\ Rank[o.author] = r /\ o.seq = q
  BY <1>4
<1>6. ASSUME NEW p \in T \ {o} PROVE Before(o, p)
  <2>1. h <= p.hlc /\ h \in Nat /\ p.hlc \in Nat
    BY <1>1, <1>2
  <2>2. CASE h # p.hlc
    BY <2>1, <2>2, <1>5 DEF Before
  <2>3. CASE h = p.hlc
    <3>1. r <= Rank[p.author] /\ r \in Nat /\ Rank[p.author] \in Nat
      BY <1>1, <1>3, <2>3
    <3>2. CASE r # Rank[p.author]
      BY <3>1, <3>2, <2>3, <1>5 DEF Before
    <3>3. CASE r = Rank[p.author]
      <4>1. o.author = p.author
        BY <1>1, <1>5, <3>3, CrdtAssumption
      <4>2. q <= p.seq /\ q \in Nat /\ p.seq \in Nat
        BY <1>1, <1>4, <2>3, <3>3
      <4>3. q # p.seq
        BY <1>5, <1>6, <4>1 DEF Unique, Id
      <4> QED BY <1>5, <2>3, <4>1, <4>2, <4>3 DEF Before
    <3> QED BY <3>2, <3>3
  <2> QED BY <2>2, <2>3
<1>7. \E x \in T : \A p \in T \ {x} : Before(x, p)
  BY <1>6
<1> QED BY <1>7 DEF First

\* The step of Ordered's recursion.
ListStep(S, g, rest) ==
  IF rest = {} THEN <<>>
  ELSE IF Ready(S, rest) = {} THEN SetToSortSeq(rest, Before)
  ELSE LET o == First(Ready(S, rest)) IN <<o>> \o g[rest \ {o}]

\* Ordered's recursion over the subsets of a finite set defines a function.
LEMMA ListRecursion ==
  ASSUME NEW S \in SUBSET Ops, IsFiniteSet(S), Unique(S)
  PROVE  \E f : /\ f = [rest \in SUBSET S |-> ListStep(S, f, rest)]
                /\ Ordered(S) = f[S]
<1> DEFINE Small(m) == {T \in SUBSET S : Cardinality(T) <= m}
           IsList(g, m) == g = [rest \in Small(m) |-> ListStep(S, g, rest)]
           P == {m \in Nat : \E g : IsList(g, m)}
           F == CHOOSE g : g = [rest \in SUBSET S |-> ListStep(S, g, rest)]
<1>1. \A T \in SUBSET S : IsFiniteSet(T) /\ Cardinality(T) \in Nat /\ Cardinality(T) <= Cardinality(S)
  BY FS_Subset, FS_CardinalityType
<1>2. ASSUME NEW T \in SUBSET S, T # {}, Ready(S, T) # {}
      PROVE  LET o == First(Ready(S, T))
             IN  T \ {o} \in SUBSET S /\ Cardinality(T \ {o}) = Cardinality(T) - 1
  <2> DEFINE o == First(Ready(S, T))
  <2>1. Ready(S, T) \in SUBSET Ops /\ Unique(Ready(S, T)) /\ Ready(S, T) \subseteq T
    BY DEF Ready, Unique
  <2>2. o \in T
    BY <1>2, <2>1, FirstExists
  <2> HIDE DEF o
  <2>3. Cardinality(T \ {o}) = Cardinality(T) - 1
    BY <1>1, <2>2, FS_RemoveElement
  <2>4. T \ {o} \in SUBSET S
    OBVIOUS
  <2> QED BY <2>3, <2>4 DEF o
<1>3. 0 \in P
  <2> DEFINE g == [rest \in Small(0) |-> <<>>]
  <2>1. \A T \in Small(0) : T = {}
    BY <1>1, FS_EmptySet
  <2>2. \A T \in Small(0) : g[T] = ListStep(S, g, T)
    BY <2>1 DEF ListStep
  <2>3. g = [rest \in Small(0) |-> g[rest]]
    OBVIOUS
  <2>4. IsList(g, 0)
    <3> HIDE DEF g, Small
    <3>1. [rest \in Small(0) |-> g[rest]] = [rest \in Small(0) |-> ListStep(S, g, rest)]
      BY <2>2, Zenon
    <3> QED BY <2>3, <3>1, Zenon
  <2> HIDE DEF g, IsList
  <2> QED BY <2>4
<1>4. ASSUME NEW m \in P PROVE m + 1 \in P
  <2>1. PICK g : IsList(g, m)
    OBVIOUS
  <2>2. m \in Nat
    OBVIOUS
  <2> DEFINE h == [T \in Small(m + 1) |-> IF T \in Small(m) THEN g[T] ELSE ListStep(S, g, T)]
  <2>3. Small(m) \subseteq Small(m + 1)
    BY <1>1, <2>2
  <2>4. \A T \in Small(m) : h[T] = g[T]
    BY <2>3
  <2>5. \A T \in Small(m) : g[T] = ListStep(S, g, T)
    BY <2>1
  <2>6. ASSUME NEW T \in Small(m + 1) PROVE ListStep(S, h, T) = ListStep(S, g, T)
    <3>1. CASE T = {} \/ Ready(S, T) = {}
      BY <3>1 DEF ListStep
    <3>2. CASE T # {} /\ Ready(S, T) # {}
      <4> DEFINE o == First(Ready(S, T))
      <4>1. T \ {o} \in SUBSET S /\ Cardinality(T \ {o}) = Cardinality(T) - 1
        BY <1>2, <3>2
      <4>2. Cardinality(T) \in Nat /\ Cardinality(T) <= m + 1
        BY <1>1
      <4>3. T \ {o} \in Small(m)
        <5> HIDE DEF o
        <5> QED BY <2>2, <4>1, <4>2
      <4>4. h[T \ {o}] = g[T \ {o}]
        BY <2>4, <4>3
      <4> HIDE DEF h
      <4> QED BY <3>2, <4>4, Zenon DEF ListStep
    <3> QED BY <3>1, <3>2
  <2>7. \A T \in Small(m + 1) : h[T] = ListStep(S, h, T)
    <3> TAKE T \in Small(m + 1)
    <3>1. h[T] = ListStep(S, g, T)
      <4>1. CASE T \in Small(m)
        BY <2>4, <2>5, <4>1
      <4>2. CASE T \notin Small(m)
        BY <4>2
      <4> QED BY <4>1, <4>2
    <3>2. ListStep(S, h, T) = ListStep(S, g, T)
      BY <2>6
    <3> QED BY <3>1, <3>2
  <2>8. h = [T \in Small(m + 1) |-> h[T]]
    OBVIOUS
  <2>9. IsList(h, m + 1)
    <3> HIDE DEF h, Small
    <3>1. [T \in Small(m + 1) |-> h[T]] = [T \in Small(m + 1) |-> ListStep(S, h, T)]
      BY <2>7, Zenon
    <3> QED BY <2>8, <3>1, Zenon
  <2> HIDE DEF h, IsList
  <2> QED BY <2>2, <2>9
<1>5. P = Nat
  <2>1. P \in SUBSET Nat
    OBVIOUS
  <2> HIDE DEF P
  <2> QED BY <1>3, <1>4, <2>1, SetInduction
<1>6. \E g : IsList(g, Cardinality(S))
  <2>1. Cardinality(S) \in P
    BY <1>1, <1>5
  <2> QED BY <2>1
<1>7. Small(Cardinality(S)) = SUBSET S
  BY <1>1
<1>8. F = [rest \in SUBSET S |-> ListStep(S, F, rest)]
  BY <1>6, <1>7
<1>9. Ordered(S) = F[S]
  BY DEF Ordered, ListStep
<1> HIDE DEF F
<1> QED BY <1>8, <1>9

-----------------------------------------------------------------------------
\* q lists the operations of T, each after its parents in T.
Listed(q, T) ==
    /\ q \in Seq(T) /\ ToSet(q) = T
    /\ \A i, j \in 1..Len(q) : Id(q[j]) \in q[i].parents => j < i

\* Listing first an operation whose parents are not left keeps the order.
LEMMA ListedFirst ==
  ASSUME NEW T, NEW o \in T, o.parents \cap KnownIds(T) = {},
         NEW q, Listed(q, T \ {o})
  PROVE  Listed(<<o>> \o q, T)
<1> DEFINE r == <<o>> \o q
<1>1. q \in Seq(T) /\ ToSet(q) = T \ {o} /\ Len(q) \in Nat
  <2>1. q \in Seq(T \ {o}) /\ ToSet(q) = T \ {o}
    BY DEF Listed
  <2> QED BY <2>1
<1>2. r \in Seq(T) /\ Len(r) = Len(q) + 1 /\ r[1] = o
  <2>1. <<o>> \in Seq(T) /\ Len(<<o>>) = 1 /\ <<o>>[1] = o
    OBVIOUS
  <2> QED BY <1>1, <2>1
<1>3. \A i \in 1..Len(q) : r[i + 1] = q[i]
  BY <1>1
<1> HIDE DEF r
<1>4. \A i \in 1..Len(r) : i = 1 \/ (i - 1 \in 1..Len(q) /\ r[i] = q[i - 1])
  BY <1>1, <1>2, <1>3
<1>5. ToSet(r) = T
  <2>1. ASSUME NEW x \in T PROVE x \in ToSet(r)
    <3>1. CASE x = o
      <4>1. 1 \in 1..Len(r)
        BY <1>1, <1>2
      <4> QED BY <1>2, <3>1, <4>1, Places
    <3>2. CASE x # o
      <4>1. PICK i \in 1..Len(q) : x = q[i]
        BY <1>1, <3>2, Places
      <4>2. i + 1 \in 1..Len(r) /\ r[i + 1] = x
        BY <1>1, <1>2, <1>3, <4>1
      <4> QED BY <1>2, <4>2, Places
    <3> QED BY <3>1, <3>2
  <2>2. ToSet(r) \subseteq T
    BY <1>2, Places
  <2> QED BY <2>1, <2>2
<1>6. ASSUME NEW i \in 1..Len(r), NEW j \in 1..Len(r), Id(r[j]) \in r[i].parents
      PROVE  j < i
  <2>1. r[j] \in T
    BY <1>2
  <2>2. i # 1
    <3> SUFFICES ASSUME i = 1 PROVE FALSE
      OBVIOUS
    <3>1. Id(r[j]) \in KnownIds(T)
      BY <2>1 DEF KnownIds
    <3> QED BY <1>2, <1>6, <3>1
  <2>3. i - 1 \in 1..Len(q) /\ r[i] = q[i - 1] /\ i \in Nat
    BY <1>4, <2>2
  <2>4. CASE j = 1
    BY <2>2, <2>3, <2>4
  <2>5. CASE j # 1
    <3>1. j - 1 \in 1..Len(q) /\ r[j] = q[j - 1]
      BY <1>4, <2>5
    <3>2. \A a, b \in 1..Len(q) : Id(q[b]) \in q[a].parents => b < a
      BY DEF Listed
    <3>3. Id(q[j - 1]) \in q[i - 1].parents
      BY <1>6, <2>3, <3>1
    <3>4. j - 1 < i - 1
      BY <2>3, <3>1, <3>2, <3>3
    <3> QED BY <3>4
  <2> QED BY <2>4, <2>5
<1>7. Listed(r, T)
  BY <1>2, <1>5, <1>6 DEF Listed
<1> QED BY <1>7 DEF r

\* The order analyzeCrdtOps gives operations that were created one after the
\* other is a listing of them, parents first.
LEMMA OrderedLists ==
  ASSUME NEW S \in SUBSET Ops, IsFiniteSet(S), Unique(S), Acyclic(S)
  PROVE  Listed(Ordered(S), S)
<1>1. PICK f : /\ f = [rest \in SUBSET S |-> ListStep(S, f, rest)]
               /\ Ordered(S) = f[S]
  BY ListRecursion
<1>2. \A T \in SUBSET S : f[T] = ListStep(S, f, T)
  BY <1>1
<1>3. \A T \in SUBSET S : IsFiniteSet(T) /\ Cardinality(T) \in Nat
  BY FS_Subset, FS_CardinalityType
<1> DEFINE P == {m \in Nat : \A T \in SUBSET S : Cardinality(T) = m => Listed(f[T], T)}
<1>4. 0 \in P
  <2> SUFFICES ASSUME NEW T \in SUBSET S, Cardinality(T) = 0 PROVE Listed(f[T], T)
    OBVIOUS
  <2>1. T = {}
    BY <1>3, FS_EmptySet
  <2>2. f[T] = <<>>
    BY <1>2, <2>1 DEF ListStep
  <2>3. <<>> \in Seq({}) /\ ToSet(<<>>) = {} /\ Len(<<>>) = 0
    BY DEF ToSet
  <2> QED BY <2>1, <2>2, <2>3 DEF Listed
<1>5. ASSUME NEW m \in P PROVE m + 1 \in P
  <2> SUFFICES ASSUME NEW T \in SUBSET S, Cardinality(T) = m + 1 PROVE Listed(f[T], T)
    OBVIOUS
  <2> DEFINE ready == Ready(S, T)
             o == First(ready)
  <2>1. T # {}
    <3> SUFFICES ASSUME T = {} PROVE FALSE
      OBVIOUS
    <3>1. Cardinality({}) = 0
      BY FS_EmptySet
    <3> QED BY <3>1
  <2>2. ready # {}
    <3>1. PICK x \in T : x.parents \cap KnownIds(T) = {}
      BY <2>1 DEF Acyclic
    <3>2. x \in ready
      BY <3>1 DEF Ready
    <3> QED BY <3>2
  <2>3. ready \in SUBSET Ops /\ Unique(ready)
    BY DEF Ready, Unique
  <2>4. o \in ready
    BY <2>2, <2>3, FirstExists
  <2>5. o \in T /\ o.parents \cap KnownIds(T) = {}
    <3>1. o \in T /\ o.parents \cap KnownIds(S) \cap KnownIds(T) = {}
      BY <2>4 DEF Ready
    <3>2. KnownIds(T) \subseteq KnownIds(S)
      BY DEF KnownIds
    <3> QED BY <3>1, <3>2
  <2>6. f[T] = <<o>> \o f[T \ {o}]
    BY <1>2, <2>1, <2>2 DEF ListStep
  <2> HIDE DEF o
  <2>7. Listed(f[T \ {o}], T \ {o})
    <3>1. Cardinality(T \ {o}) = Cardinality(T) - 1
      BY <1>3, <2>5, FS_RemoveElement
    <3>2. Cardinality(T \ {o}) = m
      BY <3>1
    <3>3. T \ {o} \in SUBSET S
      OBVIOUS
    <3> QED BY <3>2, <3>3
  <2> QED BY <2>5, <2>6, <2>7, ListedFirst
<1>6. P = Nat
  <2>1. P \in SUBSET Nat
    OBVIOUS
  <2> HIDE DEF P
  <2> QED BY <1>4, <1>5, <2>1, SetInduction
<1>7. Cardinality(S) \in P
  BY <1>3, <1>6
<1> QED BY <1>1, <1>7

-----------------------------------------------------------------------------
(* What a batch takes of the listing.                                      *)

\* q is what list has above v, in the order of list.
Kept(q, list, n, v) ==
    /\ q \in Seq(Ops)
    /\ \A k \in 1..n : list[k].seq > v[list[k].author] => list[k] \in ToSet(q)
    /\ \A i \in 1..Len(q) : \E k \in 1..n : q[i] = list[k]
    /\ \A i \in 1..Len(q), j \in 1..Len(q) : i < j =>
          \E k, l \in 1..n : q[i] = list[k] /\ q[j] = list[l] /\ k < l

\* The step of Filtered's recursion.
FilterStep(list, v, g, n) ==
    IF n = 0 THEN <<>>
    ELSE LET k == g[n - 1]
             o == list[n]
         IN IF o.seq > v[o.author] THEN Append(k, o) ELSE k

\* Filtered keeps what is above v, and its order.
LEMMA FilterKeeps ==
  ASSUME NEW list \in Seq(Ops), NEW v
  PROVE  Kept(Filtered(list, v), list, Len(list), v)
<1> DEFINE N == Len(list)
           F == CHOOSE g : g = [n \in 0..N |-> FilterStep(list, v, g, n)]
           IsKept(g, m) == g = [n \in 0..m |-> FilterStep(list, v, g, n)]
           P == {m \in Nat : \E g : IsKept(g, m)}
<1>0. N \in Nat /\ \A n \in 1..N : list[n] \in Ops
  OBVIOUS
<1>1. 0 \in P
  <2> DEFINE g == [n \in 0..0 |-> <<>>]
  <2>1. IsKept(g, 0)
    BY DEF FilterStep
  <2> QED BY <2>1
<1>2. ASSUME NEW m \in P PROVE m + 1 \in P
  <2>1. PICK g : IsKept(g, m)
    OBVIOUS
  <2> DEFINE h == [n \in 0..(m + 1) |-> IF n = m + 1 THEN FilterStep(list, v, g, m + 1) ELSE g[n]]
  <2>2. \A n \in 0..m : h[n] = g[n]
    OBVIOUS
  <2>8. m \in Nat /\ \A n \in 0..m : g[n] = FilterStep(list, v, g, n)
    <3>2. g = [n \in 0..m |-> FilterStep(list, v, g, n)]
      BY <2>1
    <3>3. \A n \in 0..m : g[n] = FilterStep(list, v, g, n)
      BY <3>2, Zenon
    <3> QED BY <3>3
  <2>3. \A n \in 0..(m + 1) : h[n] = FilterStep(list, v, h, n)
    <3> TAKE n \in 0..(m + 1)
    <3>1. CASE n = m + 1
      <4>1. h[n - 1] = g[n - 1]
        BY <3>1, <2>2
      <4>2. h[n] = FilterStep(list, v, g, n)
        BY <3>1
      <4> QED BY <4>1, <4>2 DEF FilterStep
    <3>2. CASE n \in 1..m
      <4>1. h[n - 1] = g[n - 1] /\ h[n] = g[n]
        BY <3>2, <2>2
      <4>2. g[n] = FilterStep(list, v, g, n)
        BY <3>2, <2>8
      <4> QED BY <4>1, <4>2 DEF FilterStep
    <3>3. CASE n = 0
      <4>1. h[n] = g[n] /\ g[n] = FilterStep(list, v, g, n)
        BY <3>3, <2>8, <2>2
      <4> QED BY <4>1, <3>3 DEF FilterStep
    <3> QED BY <3>1, <3>2, <3>3
  <2>4. h = [n \in 0..(m + 1) |-> h[n]]
    OBVIOUS
  <2>5. IsKept(h, m + 1)
    <3> HIDE DEF h
    <3>1. [n \in 0..(m + 1) |-> h[n]] = [n \in 0..(m + 1) |-> FilterStep(list, v, h, n)]
      BY <2>3, Zenon
    <3> QED BY <2>4, <3>1, Zenon
  <2> HIDE DEF h
  <2>6. \E f : IsKept(f, m + 1)
    BY <2>5, Zenon
  <2>7. m + 1 \in Nat
    OBVIOUS
  <2> QED BY <2>6, <2>7, Zenon
<1>3. P = Nat
  <2>1. P \in SUBSET Nat
    OBVIOUS
  <2> HIDE DEF P
  <2> QED BY <1>1, <1>2, <2>1, SetInduction
<1>4. F = [n \in 0..N |-> FilterStep(list, v, F, n)]
  BY <1>0, <1>3
<1>5. Filtered(list, v) = F[N]
  BY DEF Filtered, FilterStep
<1>6. \A n \in 0..N : F[n] = FilterStep(list, v, F, n)
  <2> HIDE DEF F
  <2> QED BY <1>4
<1> HIDE DEF F, P
<1> DEFINE Q == {n \in Nat : n <= N => Kept(F[n], list, n, v)}
<1>7. 0 \in Q
  <2>1. F[0] = <<>>
    BY <1>0, <1>6 DEF FilterStep
  <2>2. <<>> \in Seq(Ops) /\ Len(<<>>) = 0
    OBVIOUS
  <2>3. Kept(<<>>, list, 0, v)
    <3>1. 1..0 = {}
      OBVIOUS
    <3> QED BY <2>2, <3>1 DEF Kept
  <2> HIDE DEF F
  <2> QED BY <2>1, <2>3
<1>8. ASSUME NEW n \in Q PROVE n + 1 \in Q
  <2> SUFFICES ASSUME n + 1 <= N PROVE Kept(F[n + 1], list, n + 1, v)
    OBVIOUS
  <2> DEFINE q == F[n]
             o == list[n + 1]
  <2>1. n \in Nat /\ n + 1 \in 1..N /\ Kept(q, list, n, v) /\ o \in Ops
    BY <1>0
  <2>2. F[n + 1] = IF o.seq > v[o.author] THEN Append(q, o) ELSE q
    <3>1. n + 1 \in 0..N /\ n + 1 # 0 /\ (n + 1) - 1 = n
      BY <1>0, <2>1
    <3>2. F[n + 1] = FilterStep(list, v, F, n + 1)
      BY <1>6, <3>1
    <3> QED BY <3>1, <3>2 DEF FilterStep
  <2> HIDE DEF q, o
  <2>3. \A k \in 1..(n + 1) : k \in 1..n \/ k = n + 1
    BY <2>1
  <2>4. \A k \in 1..n : k \in 1..(n + 1) /\ k < n + 1
    BY <2>1
  <2>5. q \in Seq(Ops)
    BY <2>1 DEF Kept
  <2>6. CASE ~(o.seq > v[o.author])
    <3>1. Kept(q, list, n + 1, v)
      <4>1. \A k \in 1..(n + 1) : list[k].seq > v[list[k].author] => list[k] \in ToSet(q)
        BY <2>1, <2>3, <2>6 DEF Kept, o
      <4>2. \A i \in 1..Len(q) : \E k \in 1..(n + 1) : q[i] = list[k]
        BY <2>1, <2>4 DEF Kept
      <4>3. ASSUME NEW i \in 1..Len(q), NEW j \in 1..Len(q), i < j
            PROVE  \E k, l \in 1..(n + 1) : q[i] = list[k] /\ q[j] = list[l] /\ k < l
        <5>1. PICK k \in 1..n, l \in 1..n : q[i] = list[k] /\ q[j] = list[l] /\ k < l
          BY <2>1, <4>3 DEF Kept
        <5>2. k \in 1..(n + 1) /\ l \in 1..(n + 1)
          BY <2>4
        <5> QED BY <5>1, <5>2
      <4> QED BY <2>5, <4>1, <4>2, <4>3 DEF Kept
    <3> QED BY <2>2, <2>6, <3>1
  <2>7. CASE o.seq > v[o.author]
    <3> DEFINE r == Append(q, o)
    <3>1. r \in Seq(Ops) /\ ToSet(r) = ToSet(q) \cup {o}
      BY <2>1, <2>5, AppendSet
    <3>2. Len(r) = Len(q) + 1 /\ r[Len(q) + 1] = o /\ \A i \in 1..Len(q) : r[i] = q[i]
      BY <2>1, <2>5
    <3>3. Len(q) \in Nat
      BY <2>5
    <3> HIDE DEF r
    <3>4. \A i \in 1..Len(r) : i \in 1..Len(q) \/ i = Len(q) + 1
      BY <3>2, <3>3
    <3>5. \A k \in 1..(n + 1) : list[k].seq > v[list[k].author] => list[k] \in ToSet(r)
      BY <2>1, <2>3, <3>1 DEF Kept, o
    <3>6. \A i \in 1..Len(r) : \E k \in 1..(n + 1) : r[i] = list[k]
      <4> TAKE i \in 1..Len(r)
      <4>1. CASE i \in 1..Len(q)
        BY <2>1, <2>4, <3>2, <4>1 DEF Kept
      <4>2. CASE i = Len(q) + 1
        BY <2>1, <3>2, <4>2 DEF o
      <4> QED BY <3>4, <4>1, <4>2
    <3>7. ASSUME NEW i \in 1..Len(r), NEW j \in 1..Len(r), i < j
          PROVE  \E k, l \in 1..(n + 1) : r[i] = list[k] /\ r[j] = list[l] /\ k < l
      <4>1. i \in 1..Len(q)
        BY <3>2, <3>3, <3>7
      <4>2. CASE j \in 1..Len(q)
        <5>1. PICK k \in 1..n, l \in 1..n : q[i] = list[k] /\ q[j] = list[l] /\ k < l
          BY <2>1, <3>7, <4>1, <4>2 DEF Kept
        <5> QED BY <2>4, <3>2, <4>1, <4>2, <5>1
      <4>3. CASE j = Len(q) + 1
        <5>1. PICK k \in 1..n : q[i] = list[k]
          BY <2>1, <4>1 DEF Kept
        <5>2. k \in 1..(n + 1) /\ n + 1 \in 1..(n + 1) /\ k < n + 1
          BY <2>1, <2>4
        <5>3. r[i] = list[k] /\ r[j] = list[n + 1]
          BY <3>2, <4>1, <4>3, <5>1 DEF o
        <5> QED BY <5>2, <5>3
      <4> QED BY <3>4, <4>2, <4>3
    <3>8. Kept(r, list, n + 1, v)
      BY <3>1, <3>5, <3>6, <3>7 DEF Kept
    <3> QED BY <2>2, <2>7, <3>8 DEF r
  <2> QED BY <2>6, <2>7
<1>9. Q = Nat
  <2>1. Q \in SUBSET Nat
    OBVIOUS
  <2> HIDE DEF Q
  <2> QED BY <1>7, <1>8, <2>1, SetInduction
<1>10. N \in Q
  BY <1>0, <1>9
<1>11. Kept(F[N], list, N, v)
  BY <1>0, <1>10
<1> QED BY <1>5, <1>11

\* So Filtered has exactly the operations above v.
LEMMA FilteredSet ==
  ASSUME NEW list \in Seq(Ops), NEW v
  PROVE  /\ Filtered(list, v) \in Seq(Ops)
         /\ ToSet(Filtered(list, v)) \subseteq ToSet(list)
         /\ \A o \in ToSet(list) : o.seq > v[o.author] => o \in ToSet(Filtered(list, v))
<1> DEFINE q == Filtered(list, v)
<1>1. Kept(q, list, Len(list), v)
  BY FilterKeeps
<1> HIDE DEF q
<1>2. q \in Seq(Ops)
  BY <1>1 DEF Kept
<1>3. ASSUME NEW x \in ToSet(q) PROVE x \in ToSet(list)
  <2>1. PICK i \in 1..Len(q) : x = q[i]
    BY <1>2, Places
  <2>2. PICK k \in 1..Len(list) : q[i] = list[k]
    BY <1>1 DEF Kept
  <2> QED BY <2>1, <2>2, Places
<1>4. ASSUME NEW o \in ToSet(list), o.seq > v[o.author] PROVE o \in ToSet(q)
  <2>1. PICK k \in 1..Len(list) : o = list[k]
    BY Places
  <2> QED BY <1>1, <1>4, <2>1 DEF Kept
<1> QED BY <1>2, <1>3, <1>4 DEF q

\* The largest number of a set of them up to a bound.
LEMMA MaxOfBounded ==
  ASSUME NEW b \in Nat, NEW T \in SUBSET (0..b), T # {}
  PROVE  Max(T) \in T
<1> DEFINE U == {b - n : n \in T}
<1>1. PICK u \in U : \A y \in U : u <= y
  <2>1. \A n \in T : b - n \in Nat
    OBVIOUS
  <2>2. U \in SUBSET Nat
    BY <2>1
  <2>3. U # {}
    OBVIOUS
  <2> HIDE DEF U
  <2> QED BY <2>2, <2>3, LeastExists
<1>2. PICK m \in T : u = b - m
  OBVIOUS
<1>3. \A n \in T : m >= n
  <2> TAKE n \in T
  <2>1. u <= b - n
    BY <1>1
  <2> QED BY <1>2, <2>1
<1> QED BY <1>3 DEF Max

\* A version vector counts only what is there.
LEMMA VectorCounts ==
  ASSUME NEW S, NEW d \in Devices
  PROVE  /\ VersionVector(S)[d] \in 0..MaxSeq
         /\ \A k \in 1..VersionVector(S)[d] : <<d, k>> \in KnownIds(S)
<1> DEFINE T == {n \in 0..MaxSeq : \A k \in 1..n : <<d, k>> \in KnownIds(S)}
<1>1. MaxSeq \in Nat
  BY CrdtAssumption
<1>2. 0 \in T
  BY <1>1
<1>3. T \in SUBSET (0..MaxSeq)
  OBVIOUS
<1>4. Max(T) \in T
  <2> HIDE DEF T
  <2> QED BY <1>1, <1>2, <1>3, MaxOfBounded
<1>5. VersionVector(S)[d] = Max(T)
  BY DEF VersionVector
<1> HIDE DEF T
<1>6. VersionVector(S)[d] \in T
  BY <1>4, <1>5
<1> QED BY <1>6 DEF T

-----------------------------------------------------------------------------
(* The invariant.                                                          *)

World == UNION {held[d] : d \in Devices}
OwnOps(d) == {o \in held[d] : o.author = d}

CrdtTypeOK ==
    /\ held \in [Devices -> SUBSET Ops]
    /\ asked \in [Pairs -> SUBSET Vectors]
    /\ batches \in [Pairs -> SUBSET SUBSET Ops]

\* A device holds what it wrote, numbered from one.
Numbered ==
    \A d \in Devices :
       /\ IsFiniteSet(held[d])
       /\ {o.seq : o \in OwnOps(d)} = 1..Cardinality(OwnOps(d))
       /\ \A o, p \in OwnOps(d) : o.seq = p.seq => o = p

\* What a device holds, its author holds; what is on its way, its sender holds.
Backed ==
    /\ \A d \in Devices : \A o \in held[d] : o \in held[o.author]
    /\ \A dp \in Pairs : \A b \in batches[dp] : b \subseteq held[dp[2]]

\* An operation names only existing ones, so its parents are older.
Rooted ==
    /\ \A o \in World : o.parents \subseteq KnownIds(World)
    /\ Acyclic(World)

CrdtIInv == CrdtTypeOK /\ Numbered /\ Backed /\ Rooted

\* Ids are unique: they are the author's numbers.
LEMMA WorldUnique ==
  ASSUME CrdtIInv
  PROVE  World \in SUBSET Ops /\ Unique(World)
<1>1. World \in SUBSET Ops
  BY DEF CrdtIInv, CrdtTypeOK, World
<1>2. ASSUME NEW o \in World, NEW p \in World, Id(o) = Id(p) PROVE o = p
  <2>1. o.author = p.author /\ o.seq = p.seq /\ o.author \in Devices
    BY <1>1, <1>2 DEF Id, Ops
  <2>2. o \in held[o.author] /\ p \in held[p.author]
    BY DEF World, CrdtIInv, Backed
  <2>3. o \in OwnOps(o.author) /\ p \in OwnOps(o.author)
    BY <2>1, <2>2 DEF OwnOps
  <2> QED BY <2>1, <2>3 DEF CrdtIInv, Numbered
<1> QED BY <1>1, <1>2 DEF Unique

\* So what a device holds has an order.
LEMMA HeldListed ==
  ASSUME CrdtIInv, NEW d \in Devices
  PROVE  /\ held[d] \in SUBSET World
         /\ Ordered(held[d]) \in Seq(Ops) /\ Listed(Ordered(held[d]), held[d])
<1>1. held[d] \in SUBSET World
  BY DEF World
<1>2. held[d] \in SUBSET Ops /\ Unique(held[d])
  BY <1>1, WorldUnique DEF Unique
<1>3. IsFiniteSet(held[d])
  BY DEF CrdtIInv, Numbered
<1>4. Acyclic(held[d])
  BY <1>1 DEF CrdtIInv, Rooted, Acyclic
<1>5. Listed(Ordered(held[d]), held[d])
  BY <1>2, <1>3, <1>4, OrderedLists
<1>6. Ordered(held[d]) \in Seq(Ops)
  <2>1. Ordered(held[d]) \in Seq(held[d])
    BY <1>5 DEF Listed
  <2> QED BY <1>2, <2>1
<1> QED BY <1>1, <1>5, <1>6

\* An answer takes from what the peer holds, and all that is above the vector.
LEMMA SelectedSet ==
  ASSUME CrdtIInv, NEW d \in Devices, NEW v
  PROVE  /\ Selected(held[d], v) \in Seq(Ops)
         /\ ToSet(Selected(held[d], v)) \subseteq held[d]
         /\ \A o \in held[d] : o.seq > v[o.author] => o \in ToSet(Selected(held[d], v))
<1>1. Ordered(held[d]) \in Seq(Ops) /\ ToSet(Ordered(held[d])) = held[d]
  BY HeldListed DEF Listed
<1> DEFINE list == Ordered(held[d])
<1>2. list \in Seq(Ops) /\ ToSet(list) = held[d]
  BY <1>1
<1> HIDE DEF list
<1>3. /\ Filtered(list, v) \in Seq(Ops)
      /\ ToSet(Filtered(list, v)) \subseteq ToSet(list)
      /\ \A o \in ToSet(list) : o.seq > v[o.author] => o \in ToSet(Filtered(list, v))
  BY <1>2, FilteredSet
<1>4. Selected(held[d], v) = Filtered(list, v)
  BY DEF Selected, list
<1> QED BY <1>2, <1>3, <1>4

\* A device takes operations another one holds.
LEMMA Spread ==
  ASSUME CrdtIInv, NEW d \in Devices, NEW p \in Devices, NEW B \in SUBSET held[p],
         held' = [held EXCEPT ![d] = @ \cup B], batches' \in [Pairs -> SUBSET SUBSET Ops],
         asked' \in [Pairs -> SUBSET Vectors],
         \A dp \in Pairs : batches'[dp] \subseteq batches[dp]
  PROVE  CrdtIInv'
<1>1. held \in [Devices -> SUBSET Ops]
  BY DEF CrdtIInv, CrdtTypeOK
<1>2. \A e \in Devices : held'[e] = IF e = d THEN held[e] \cup B ELSE held[e]
  BY <1>1
<1>3. \A e \in Devices : held[e] \subseteq held'[e]
  BY <1>2
<1>4. World' = World
  BY <1>2 DEF World
<1>5. \A e \in Devices : OwnOps(e)' = OwnOps(e)
  <2> TAKE e \in Devices
  <2>1. \A o \in B : o.author = d => o \in held[d]
    BY DEF CrdtIInv, Backed
  <2> QED BY <1>2, <2>1 DEF OwnOps
<1>6. CrdtTypeOK'
  <2>1. held' \in [Devices -> SUBSET Ops]
    BY <1>1
  <2> QED BY <2>1 DEF CrdtTypeOK
<1>7. Numbered'
  <2>1. \A e \in Devices : IsFiniteSet(held[e])
    BY DEF CrdtIInv, Numbered
  <2>2. IsFiniteSet(B)
    BY <2>1, FS_Subset
  <2>3. IsFiniteSet(held[d] \cup B)
    BY <2>1, <2>2, FS_Union
  <2>4. \A e \in Devices : IsFiniteSet(held'[e])
    BY <1>2, <2>1, <2>3
  <2>5. \A e \in Devices : /\ {o.seq : o \in OwnOps(e)} = 1..Cardinality(OwnOps(e))
                           /\ \A o, q \in OwnOps(e) : o.seq = q.seq => o = q
    BY DEF CrdtIInv, Numbered
  <2>6. ASSUME NEW e \in Devices
        PROVE  /\ {o.seq : o \in OwnOps(e)'} = 1..Cardinality(OwnOps(e)')
               /\ \A o, q \in OwnOps(e)' : o.seq = q.seq => o = q
    <3>1. OwnOps(e)' = OwnOps(e)
      BY <1>5
    <3>2. \A X : X = OwnOps(e) => /\ {o.seq : o \in X} = 1..Cardinality(X)
                                   /\ \A o, q \in X : o.seq = q.seq => o = q
      BY <2>5
    <3> QED BY <3>1, <3>2
  <2> QED BY <2>4, <2>6 DEF Numbered
<1>8. Backed'
  <2>1. ASSUME NEW e \in Devices, NEW o \in held'[e] PROVE o \in held'[o.author]
    <3>1. o \in World
      BY <1>4 DEF World
    <3>2. o \in held[o.author] /\ o.author \in Devices
      BY <3>1, <1>1 DEF World, CrdtIInv, Backed, Ops
    <3> QED BY <1>3, <3>2
  <2>2. \A dp \in Pairs : \A b \in batches'[dp] : b \subseteq held'[dp[2]]
    <3> TAKE dp \in Pairs
    <3>1. dp[2] \in Devices
      BY DEF Pairs
    <3>2. \A b \in batches[dp] : b \subseteq held[dp[2]]
      BY DEF CrdtIInv, Backed
    <3> QED BY <1>3, <3>1, <3>2
  <2> QED BY <2>1, <2>2 DEF Backed
<1>9. Rooted'
  BY <1>4 DEF CrdtIInv, Rooted, Acyclic
<1> QED BY <1>6, <1>7, <1>8, <1>9 DEF CrdtIInv

\* A device creates an operation under its leaves.
LEMMA CreateKeeps ==
  ASSUME CrdtIInv, NEW d \in Devices, NEW t \in 0..MaxTime, Create(d, t)
  PROVE  CrdtIInv'
<1> DEFINE k == Cardinality(OwnOps(d))
           n == [author |-> d, seq |-> k + 1, hlc |-> t, parents |-> Leaves(held[d])]
<1>1. held \in [Devices -> SUBSET Ops] /\ World \in SUBSET Ops
  BY WorldUnique DEF CrdtIInv, CrdtTypeOK
<1>2. /\ IsFiniteSet(OwnOps(d)) /\ k \in Nat
      /\ {o.seq : o \in OwnOps(d)} = 1..k
      /\ \A o, p \in OwnOps(d) : o.seq = p.seq => o = p
  <2>1. IsFiniteSet(held[d]) /\ OwnOps(d) \subseteq held[d]
    BY DEF CrdtIInv, Numbered, OwnOps
  <2>2. IsFiniteSet(OwnOps(d))
    BY <2>1, FS_Subset
  <2> QED BY <2>2, FS_CardinalityType DEF CrdtIInv, Numbered
<1>3. k + 1 \in 1..MaxSeq
  <2>1. k + 1 <= MaxSeq
    BY DEF Create, NextSeq, OwnOps
  <2> QED BY <1>2, <2>1, CrdtAssumption
<1>4. Leaves(held[d]) \subseteq KnownIds(World) /\ KnownIds(World) \subseteq OpIds
  <2>1. KnownIds(held[d]) \subseteq KnownIds(World)
    BY DEF KnownIds, World
  <2>2. KnownIds(World) \subseteq OpIds
    BY <1>1 DEF KnownIds, Id, OpIds, Ops
  <2> QED BY <2>1, <2>2 DEF Leaves
<1>5. n \in Ops
  BY <1>3, <1>4 DEF Ops
<1>6. \A e \in Devices : held'[e] = IF e = d THEN held[e] \cup {n} ELSE held[e]
  <2>1. held' = [held EXCEPT ![d] = @ \cup {n}]
    BY DEF Create, NextSeq, OwnOps
  <2> QED BY <1>1, <2>1
<1>7. held' \in [Devices -> SUBSET Ops]
  <2>1. held' = [held EXCEPT ![d] = @ \cup {n}]
    BY DEF Create, NextSeq, OwnOps
  <2> HIDE DEF n
  <2> QED BY <1>1, <1>5, <2>1
<1>8. n.author = d /\ n.seq = k + 1 /\ n.parents = Leaves(held[d]) /\ Id(n) = <<d, k + 1>>
  BY DEF Id
<1>9. Id(n) \notin KnownIds(World)
  <2> SUFFICES ASSUME NEW o \in World, Id(o) = Id(n) PROVE FALSE
    BY DEF KnownIds
  <2>1. o.author = d /\ o.seq = k + 1
    BY <1>8 DEF Id
  <2>2. o \in held[o.author]
    BY DEF World, CrdtIInv, Backed
  <2>3. o \in OwnOps(d)
    BY <2>1, <2>2 DEF OwnOps
  <2>4. k + 1 \in 1..k
    BY <1>2, <2>1, <2>3
  <2> QED BY <1>2, <2>4
<1> HIDE DEF n
<1>10. World' = World \cup {n}
  BY <1>6 DEF World
<1>11. OwnOps(d)' = OwnOps(d) \cup {n} /\ \A e \in Devices \ {d} : OwnOps(e)' = OwnOps(e)
  BY <1>6, <1>8 DEF OwnOps
<1>12. CrdtTypeOK'
  BY <1>7 DEF CrdtTypeOK, CrdtIInv, Create
<1>13. Numbered'
  <2>1. ASSUME NEW e \in Devices PROVE IsFiniteSet(held'[e])
    <3>1. IsFiniteSet(held[e])
      BY DEF CrdtIInv, Numbered
    <3>2. IsFiniteSet(held[e] \cup {n})
      BY <3>1, FS_AddElement
    <3> QED BY <1>6, <3>1, <3>2
  <2>2. \A e \in Devices \ {d} :
           /\ {o.seq : o \in OwnOps(e)'} = 1..Cardinality(OwnOps(e)')
           /\ \A o, p \in OwnOps(e)' : o.seq = p.seq => o = p
    BY <1>11 DEF CrdtIInv, Numbered
  <2>3. \A o \in OwnOps(d) : o.seq \in 1..k
    BY <1>2
  <2>4. n \notin OwnOps(d)
    BY <1>2, <1>8, <2>3
  <2>5. Cardinality(OwnOps(d)') = k + 1
    <3>1. Cardinality(OwnOps(d) \cup {n}) = Cardinality(OwnOps(d)) + 1
      BY <1>2, <2>4, FS_AddElement
    <3> QED BY <1>11, <3>1
  <2>6. {o.seq : o \in OwnOps(d)'} = 1..(k + 1)
    <3>1. {o.seq : o \in OwnOps(d)'} = {o.seq : o \in OwnOps(d)} \cup {k + 1}
      BY <1>8, <1>11
    <3>2. 1..(k + 1) = 1..k \cup {k + 1}
      BY <1>2
    <3> QED BY <1>2, <3>1, <3>2
  <2>7. \A o, p \in OwnOps(d)' : o.seq = p.seq => o = p
    <3>1. k + 1 \notin 1..k
      BY <1>2
    <3> QED BY <1>2, <1>8, <1>11, <2>3, <3>1
  <2> QED BY <2>1, <2>2, <2>5, <2>6, <2>7 DEF Numbered
<1>14. Backed'
  <2>1. ASSUME NEW e \in Devices, NEW o \in held'[e] PROVE o \in held'[o.author]
    <3>1. CASE o = n
      BY <1>6, <1>8, <3>1
    <3>2. CASE o # n
      <4>1. o \in held[e]
        BY <1>6, <3>2
      <4>2. o \in held[o.author] /\ o.author \in Devices
        BY <1>1, <4>1 DEF CrdtIInv, Backed, Ops
      <4> QED BY <1>6, <4>2
    <3> QED BY <3>1, <3>2
  <2>2. \A dp \in Pairs : \A b \in batches'[dp] : b \subseteq held'[dp[2]]
    <3> TAKE dp \in Pairs
    <3>1. dp[2] \in Devices /\ batches' = batches
      BY DEF Pairs, Create
    <3>2. \A b \in batches[dp] : b \subseteq held[dp[2]]
      BY DEF CrdtIInv, Backed
    <3> QED BY <1>6, <3>1, <3>2
  <2> QED BY <2>1, <2>2 DEF Backed
<1>15. KnownIds(World)' = KnownIds(World) \cup {Id(n)}
  BY <1>10 DEF KnownIds
<1>16. Rooted'
  <2>1. ASSUME NEW o \in World' PROVE o.parents \subseteq KnownIds(World)
    BY <1>4, <1>8, <1>10 DEF CrdtIInv, Rooted
  <2>2. ASSUME NEW T \in SUBSET (World'), T # {}
        PROVE  \E o \in T : o.parents \cap KnownIds(T) = {}
    <3>1. CASE T \ {n} = {}
      <4>1. T = {n}
        BY <2>2, <3>1
      <4>2. KnownIds(T) = {Id(n)}
        BY <4>1 DEF KnownIds
      <4>3. n.parents \cap KnownIds(T) = {}
        BY <1>4, <1>8, <1>9, <4>2
      <4> QED BY <4>1, <4>3
    <3>2. CASE T \ {n} # {}
      <4>1. T \ {n} \in SUBSET World
        BY <1>10
      <4>2. PICK o \in T \ {n} : o.parents \cap KnownIds(T \ {n}) = {}
        BY <3>2, <4>1 DEF CrdtIInv, Rooted, Acyclic
      <4>3. KnownIds(T) \subseteq KnownIds(T \ {n}) \cup {Id(n)}
        BY DEF KnownIds
      <4>4. Id(n) \notin o.parents
        BY <1>9, <2>1, <4>2
      <4>5. o.parents \cap KnownIds(T) = {}
        BY <4>2, <4>3, <4>4
      <4> QED BY <4>2, <4>5
    <3> QED BY <3>1, <3>2
  <2>3. Acyclic(World')
    BY <2>2 DEF Acyclic
  <2>4. \A o \in World' : o.parents \subseteq KnownIds(World')
    BY <1>15, <2>1
  <2> QED BY <2>3, <2>4 DEF Rooted
<1> QED BY <1>12, <1>13, <1>14, <1>16 DEF CrdtIInv

-----------------------------------------------------------------------------
(* The theorems.                                                           *)

\* Replicas start without operations.
LEMMA CrdtInitInv == CrdtInit => CrdtIInv
<1> SUFFICES ASSUME CrdtInit PROVE CrdtIInv
  OBVIOUS
<1>1. \A d \in Devices : held[d] = {}
  BY DEF CrdtInit
<1>2. World = {} /\ \A d \in Devices : OwnOps(d) = {}
  BY <1>1 DEF World, OwnOps
<1>3. CrdtTypeOK
  BY DEF CrdtInit, CrdtTypeOK
<1>4. Numbered
  <2>1. IsFiniteSet({}) /\ Cardinality({}) = 0
    BY FS_EmptySet
  <2>2. 1..0 = {}
    OBVIOUS
  <2> QED BY <1>1, <1>2, <2>1, <2>2 DEF Numbered
<1>5. Backed
  BY <1>1 DEF CrdtInit, Backed
<1>6. Rooted
  BY <1>2 DEF Rooted, Acyclic
<1> QED BY <1>3, <1>4, <1>5, <1>6 DEF CrdtIInv

(* Whatever is created, lost, late or repeated, an operation belongs to    *)
(* its author, under an id of its own and parents that came before         *)
(* (createCrdtOpEnvelope, parseCrdtSyncBatch).                             *)
THEOREM ReplicasInvariance == CrdtSpec => []CrdtIInv
<1>1. CrdtIInv /\ [CrdtNext]_crdtVars => CrdtIInv'
  <2> SUFFICES ASSUME CrdtIInv, [CrdtNext]_crdtVars PROVE CrdtIInv'
    OBVIOUS
  <2>0. /\ held \in [Devices -> SUBSET Ops] /\ asked \in [Pairs -> SUBSET Vectors]
        /\ batches \in [Pairs -> SUBSET SUBSET Ops]
    BY DEF CrdtIInv, CrdtTypeOK
  <2>1. ASSUME NEW d \in Devices, NEW t \in 0..MaxTime, Create(d, t) PROVE CrdtIInv'
    BY <2>1, CreateKeeps
  <2>2. ASSUME NEW d \in Devices, NEW p \in Devices, NEW o \in held[p], Receive(d, o)
        PROVE  CrdtIInv'
    <3>1. {o} \in SUBSET held[p]
      OBVIOUS
    <3>2. held' = [held EXCEPT ![d] = @ \cup {o}] /\ batches' = batches /\ asked' = asked
      BY <2>2 DEF Receive
    <3> QED BY <2>0, <3>1, <3>2, Spread
  <2>3. ASSUME NEW dp \in Pairs, Ask(dp[1], dp[2]) PROVE CrdtIInv'
    <3>1. dp = <<dp[1], dp[2]>> /\ dp[1] \in Devices
      BY DEF Pairs
    <3>2. VersionVector(held[dp[1]]) \in Vectors
      <4> DEFINE v == VersionVector(held[dp[1]])
      <4>1. v = [d \in Devices |-> v[d]]
        BY DEF VersionVector
      <4>2. \A d \in Devices : v[d] \in 0..MaxSeq
        BY VectorCounts
      <4> HIDE DEF v
      <4>3. v \in Vectors
        BY <4>1, <4>2 DEF Vectors
      <4> QED BY <4>3 DEF v
    <3>3. asked' \in [Pairs -> SUBSET Vectors] /\ UNCHANGED <<held, batches>>
      BY <2>0, <2>3, <3>1, <3>2 DEF Ask
    <3> QED BY <3>3 DEF CrdtIInv, CrdtTypeOK, Numbered, Backed, Rooted, World, OwnOps
  <2>4. ASSUME NEW dp \in Pairs, Answer(dp[1], dp[2]) PROVE CrdtIInv'
    <3>1. dp = <<dp[1], dp[2]>> /\ dp[2] \in Devices
      BY DEF Pairs
    <3>2. PICK v \in asked[dp] :
             batches' = [batches EXCEPT ![dp] = {ToSet(Selected(held[dp[2]], v))}]
      BY <2>4, <3>1 DEF Answer
    <3>3. asked' = [asked EXCEPT ![dp] = {}] /\ held' = held
      BY <2>4, <3>1 DEF Answer
    <3> DEFINE b == ToSet(Selected(held[dp[2]], v))
    <3>4. b \subseteq held[dp[2]]
      BY <3>1, SelectedSet
    <3>5. b \in SUBSET Ops
      BY <2>0, <3>1, <3>4
    <3> HIDE DEF b
    <3>6. batches' = [batches EXCEPT ![dp] = {b}]
      BY <3>2 DEF b
    <3>7. CrdtTypeOK'
      BY <2>0, <3>3, <3>5, <3>6 DEF CrdtTypeOK
    <3>8. Backed'
      BY <2>0, <3>3, <3>4, <3>6 DEF CrdtIInv, Backed
    <3>9. Numbered'
      BY <3>3 DEF CrdtIInv, Numbered, OwnOps
    <3>10. Rooted'
      BY <3>3 DEF CrdtIInv, Rooted, World
    <3> QED BY <3>7, <3>8, <3>9, <3>10 DEF CrdtIInv
  <2>5. ASSUME NEW dp \in Pairs, Merge(dp[1], dp[2]) PROVE CrdtIInv'
    <3>1. dp = <<dp[1], dp[2]>> /\ dp[1] \in Devices /\ dp[2] \in Devices
      BY DEF Pairs
    <3>2. PICK b \in batches[dp] : held' = [held EXCEPT ![dp[1]] = @ \cup b]
      BY <2>5, <3>1 DEF Merge
    <3>3. batches' = [batches EXCEPT ![dp] = {}] /\ asked' = asked
      BY <2>5, <3>1 DEF Merge
    <3>4. b \in SUBSET held[dp[2]]
      BY DEF CrdtIInv, Backed
    <3>5. batches' \in [Pairs -> SUBSET SUBSET Ops] /\ \A e \in Pairs : batches'[e] \subseteq batches[e]
      BY <2>0, <3>3
    <3> QED BY <2>0, <3>1, <3>2, <3>3, <3>4, <3>5, Spread
  <2>6. ASSUME NEW dp \in Pairs, LoseSync(dp[1], dp[2]) PROVE CrdtIInv'
    <3>1. dp = <<dp[1], dp[2]>>
      BY DEF Pairs
    <3>2. /\ batches' = [batches EXCEPT ![dp] = {}] /\ asked' = [asked EXCEPT ![dp] = {}]
          /\ held' = held
      BY <2>6, <3>1 DEF LoseSync
    <3>3. CrdtTypeOK'
      BY <2>0, <3>2 DEF CrdtTypeOK
    <3>4. Backed'
      BY <2>0, <3>2 DEF CrdtIInv, Backed
    <3> QED BY <3>2, <3>3, <3>4 DEF CrdtIInv, Numbered, Rooted, World, OwnOps
  <2>7. CASE UNCHANGED crdtVars
    BY <2>7 DEF crdtVars, CrdtIInv, CrdtTypeOK, Numbered, Backed, Rooted, World, OwnOps
  <2> QED BY <2>1, <2>2, <2>3, <2>4, <2>5, <2>6, <2>7 DEF CrdtNext
<1> QED BY <1>1, CrdtInitInv, PTL DEF CrdtSpec

\* What a device lacks is above its version vector.
LEMMA LackedIsMissing ==
  ASSUME CrdtIInv, NEW dp \in Pairs, NEW o \in held[dp[2]] \ held[dp[1]]
  PROVE  o.seq > VersionVector(held[dp[1]])[o.author]
<1> DEFINE v == VersionVector(held[dp[1]])
<1>1. dp[1] \in Devices /\ dp[2] \in Devices /\ o \in World
  BY DEF Pairs, World
<1>2. o.author \in Devices /\ o.seq \in 1..MaxSeq
  BY <1>1, WorldUnique DEF Ops
<1>3. v[o.author] \in 0..MaxSeq /\ \A k \in 1..v[o.author] : <<o.author, k>> \in KnownIds(held[dp[1]])
  BY <1>2, VectorCounts
<1> HIDE DEF v
<1>4. MaxSeq \in Nat
  BY CrdtAssumption
<1>5. ~(o.seq <= v[o.author])
  <2> SUFFICES ASSUME o.seq <= v[o.author] PROVE FALSE
    OBVIOUS
  <2>1. o.seq \in 1..v[o.author]
    BY <1>2, <1>3, <1>4
  <2>2. PICK p \in held[dp[1]] : Id(p) = Id(o)
    BY <1>3, <2>1 DEF KnownIds, Id
  <2>3. p \in World
    BY <1>1 DEF World
  <2>4. p = o
    BY <1>1, <2>2, <2>3, WorldUnique DEF Unique
  <2> QED BY <2>4
<1>6. o.seq > v[o.author]
  BY <1>2, <1>3, <1>4, <1>5
<1> QED BY <1>6 DEF v

(* An answer to a device's version vector leaves out nothing the device    *)
(* lacks, for any number of devices, whatever gaps each of them has        *)
(* (buildContiguousVersionVector, selectCrdtOpsForSync).                   *)
THEOREM AnswersComplete == CrdtSpec => []BatchComplete
<1>1. CrdtIInv => BatchComplete
  <2> SUFFICES ASSUME CrdtIInv, NEW dp \in Pairs, NEW o \in held[dp[2]] \ held[dp[1]]
               PROVE  o \in Batch(dp[1], dp[2])
    BY DEF BatchComplete
  <2>1. dp[2] \in Devices
    BY DEF Pairs
  <2>2. o.seq > VersionVector(held[dp[1]])[o.author]
    BY LackedIsMissing
  <2> QED BY <2>1, <2>2, SelectedSet DEF Batch
<1> QED BY <1>1, ReplicasInvariance, PTL

\* The cut a limit makes is a beginning.
LEMMA CutIsPrefix ==
  ASSUME NEW q \in Seq(Ops), NEW cut \in Nat
  PROVE  LET c == SubSeq(q, 1, Min({cut, Len(q)}))
         IN  \E m \in 0..Len(q) : ToSet(c) = {q[i] : i \in 1..m}
<1> DEFINE m == Min({cut, Len(q)})
           c == SubSeq(q, 1, m)
<1>1. Len(q) \in Nat /\ m \in {cut, Len(q)} /\ m <= Len(q)
  <2>1. Len(q) \in Nat
    OBVIOUS
  <2>2. \E x \in {cut, Len(q)} : \A y \in {cut, Len(q)} : x <= y
    BY <2>1
  <2>3. m \in {cut, Len(q)} /\ \A y \in {cut, Len(q)} : m <= y
    BY <2>2 DEF Min
  <2> QED BY <2>1, <2>3
<1> HIDE DEF m
<1>2. m \in 0..Len(q)
  BY <1>1
<1>3. Len(c) = m /\ \A i \in 1..m : c[i] = q[i]
  BY <1>2
<1>4. c \in Seq(Ops)
  BY <1>2
<1> HIDE DEF c
<1>5. ToSet(c) = {q[i] : i \in 1..m}
  <2>1. ASSUME NEW x \in ToSet(c) PROVE x \in {q[i] : i \in 1..m}
    BY <1>3, <1>4, Places
  <2>2. ASSUME NEW i \in 1..m PROVE q[i] \in ToSet(c)
    BY <1>3, <1>4, Places
  <2> QED BY <2>1, <2>2
<1> QED BY <1>2, <1>5 DEF c, m

(* A batch cut short by any limit has, of every operation in it, the       *)
(* parents that the peer knows and the device lacks: merging it never      *)
(* shows a reply without its original (analyzeCrdtOps before the slice).   *)
THEOREM AnswersCausal == CrdtSpec => []BatchKeepsCausality
<1>1. CrdtIInv => BatchKeepsCausality
  <2> SUFFICES ASSUME CrdtIInv, NEW dp \in Pairs, NEW cut \in 1..MaxOps,
                      NEW o \in ToSet(Limited(held[dp[2]], VersionVector(held[dp[1]]), cut)),
                      NEW p \in held[dp[2]], Id(p) \in o.parents
               PROVE  Id(p) \in KnownIds(ToSet(Limited(held[dp[2]], VersionVector(held[dp[1]]), cut))
                                         \cup held[dp[1]])
    BY DEF BatchKeepsCausality, KnownIds
  <2> DEFINE v == VersionVector(held[dp[1]])
             list == Ordered(held[dp[2]])
             q == Filtered(list, v)
             batch == ToSet(Limited(held[dp[2]], v, cut))
  <2>1. dp[1] \in Devices /\ dp[2] \in Devices /\ cut \in Nat
    BY DEF Pairs
  <2>2. list \in Seq(Ops) /\ Listed(list, held[dp[2]])
    BY <2>1, HeldListed
  <2>3. p \notin held[dp[1]] => p.seq > v[p.author]
    BY LackedIsMissing
  <2>4. o \in batch
    OBVIOUS
  <2>5. batch = ToSet(SubSeq(q, 1, Min({cut, Len(q)})))
    BY DEF Limited, Selected
  <2> HIDE DEF list, v, batch
  <2>6. Kept(q, list, Len(list), v)
    BY <2>2, FilterKeeps
  <2> HIDE DEF q
  <2>7. q \in Seq(Ops)
    BY <2>6 DEF Kept
  <2>8. PICK m \in 0..Len(q) : batch = {q[i] : i \in 1..m}
    BY <2>1, <2>5, <2>7, CutIsPrefix
  <2>9. p \in batch \/ p \in held[dp[1]]
    <3> SUFFICES ASSUME p \notin held[dp[1]], p \notin batch PROVE FALSE
      OBVIOUS
    <3>1. PICK i \in 1..m : o = q[i]
      BY <2>4, <2>8
    <3>2. p \in ToSet(list)
      BY <2>2 DEF Listed
    <3>3. PICK n \in 1..Len(list) : p = list[n]
      BY <2>2, <3>2, Places
    <3>4. p \in ToSet(q)
      BY <2>3, <2>6, <3>3 DEF Kept
    <3>5. PICK j \in 1..Len(q) : p = q[j]
      BY <2>7, <3>4, Places
    <3>6. j \notin 1..m
      BY <2>8, <3>5
    <3>7. Len(q) \in Nat /\ i \in 1..Len(q) /\ i < j
      BY <2>7, <3>6
    <3>8. PICK k \in 1..Len(list), l \in 1..Len(list) : q[i] = list[k] /\ q[j] = list[l] /\ k < l
      BY <2>6, <3>7 DEF Kept
    <3>9. Id(list[l]) \in list[k].parents
      BY <3>1, <3>5, <3>8
    <3>10. l < k
      BY <2>2, <3>9 DEF Listed
    <3> QED BY <3>8, <3>10
  <2>10. Id(p) \in KnownIds(batch \cup held[dp[1]])
    BY <2>9 DEF KnownIds
  <2> QED BY <2>10 DEF batch, v
<1> QED BY <1>1, ReplicasInvariance, PTL
=============================================================================
