----------------------------- MODULE SequenceSets -----------------------------
(***************************************************************************)
(* Queues seen as sets of their elements: what appending, taking the head  *)
(* off and cutting in two do to the set, and to the absence of duplicates. *)
(* Then queues of numbered elements <<sender, number>> and their order.    *)
(***************************************************************************)
EXTENDS Integers, SequencesExt, TLAPS

\* No element is there twice.
Distinct(q) == \A i, j \in 1..Len(q) : q[i] = q[j] => i = j

(* The elements of a sequence are those at its places.                     *)
LEMMA Places ==
    ASSUME NEW S, NEW q \in Seq(S)
    PROVE  /\ \A i \in 1..Len(q) : q[i] \in ToSet(q)
           /\ \A e \in ToSet(q) : \E i \in 1..Len(q) : e = q[i]
           /\ ToSet(q) \subseteq S
<1>1. DOMAIN q = 1..Len(q) /\ \A i \in 1..Len(q) : q[i] \in S
  OBVIOUS
<1>2. \A i \in 1..Len(q) : q[i] \in ToSet(q)
  BY <1>1 DEF ToSet
<1>3. \A e \in ToSet(q) : \E i \in 1..Len(q) : e = q[i]
  BY <1>1 DEF ToSet
<1>4. ToSet(q) \subseteq S
  BY <1>1, <1>3
<1>. QED
  BY <1>2, <1>3, <1>4

(* An appended element joins the set.                                      *)
LEMMA AppendSet ==
    ASSUME NEW S, NEW q \in Seq(S), NEW e \in S
    PROVE  /\ Append(q, e) \in Seq(S)
           /\ ToSet(Append(q, e)) = ToSet(q) \cup {e}
           /\ Distinct(q) /\ e \notin ToSet(q) => Distinct(Append(q, e))
<1>1. Append(q, e) \in Seq(S) /\ Len(Append(q, e)) = Len(q) + 1
  OBVIOUS
<1>2. /\ \A i \in 1..Len(q) : Append(q, e)[i] = q[i]
      /\ Append(q, e)[Len(q) + 1] = e
  OBVIOUS
<1>3. ToSet(Append(q, e)) = ToSet(q) \cup {e}
  <2>1. ASSUME NEW f \in ToSet(Append(q, e))  PROVE f \in ToSet(q) \cup {e}
    <3>1. PICK i \in 1..Len(Append(q, e)) : f = Append(q, e)[i]
      BY <1>1, Places
    <3>2. CASE i \in 1..Len(q)
      BY <1>2, <3>1, <3>2, Places
    <3>3. CASE i \notin 1..Len(q)
      <4>1. i = Len(q) + 1
        BY <1>1, <3>3
      <4>. QED
        BY <1>2, <3>1, <4>1
    <3>. QED
      BY <3>2, <3>3
  <2>2. ASSUME NEW f \in ToSet(q)  PROVE f \in ToSet(Append(q, e))
    <3>1. PICK i \in 1..Len(q) : f = q[i]
      BY Places
    <3>2. i \in 1..Len(Append(q, e)) /\ f = Append(q, e)[i]
      BY <1>1, <1>2, <3>1
    <3>. QED
      BY <1>1, <3>2, Places
  <2>3. e \in ToSet(Append(q, e))
    <3>1. Len(q) + 1 \in 1..Len(Append(q, e))
      BY <1>1
    <3>2. \A i \in 1..Len(Append(q, e)) : Append(q, e)[i] \in ToSet(Append(q, e))
      BY <1>1, Places
    <3>. QED
      BY <1>2, <3>1, <3>2
  <2>. QED
    BY <2>1, <2>2, <2>3
<1>4. ASSUME Distinct(q), e \notin ToSet(q)  PROVE Distinct(Append(q, e))
  <2>. DEFINE r == Append(q, e)
  <2>1. /\ Len(r) = Len(q) + 1 /\ Len(q) \in Nat /\ r[Len(q) + 1] = e
        /\ \A i \in 1..Len(q) : r[i] = q[i] /\ q[i] # e
    BY <1>1, <1>2, <1>4, Places
  <2>. HIDE DEF r
  <2>2. ASSUME NEW i \in 1..Len(r), NEW j \in 1..Len(r), r[i] = r[j]  PROVE i = j
    <3>1. CASE i \in 1..Len(q) /\ j \in 1..Len(q)
      BY <1>4, <2>1, <2>2, <3>1 DEF Distinct
    <3>2. CASE i \notin 1..Len(q) \/ j \notin 1..Len(q)
      BY <2>1, <2>2, <3>2
    <3>. QED
      BY <3>1, <3>2
  <2>. QED
    BY <2>2 DEF Distinct, r
<1>. QED
  BY <1>1, <1>3, <1>4

(* Taking the head off.                                                    *)
LEMMA TailSet ==
    ASSUME NEW S, NEW q \in Seq(S), q # <<>>
    PROVE  /\ Head(q) \in S
           /\ Tail(q) \in Seq(S)
           /\ ToSet(q) = ToSet(Tail(q)) \cup {Head(q)}
           /\ Distinct(q) => Distinct(Tail(q)) /\ Head(q) \notin ToSet(Tail(q))
<1>1. /\ Len(q) \in Nat /\ Len(q) > 0 /\ DOMAIN q = 1..Len(q)
      /\ Head(q) = q[1] /\ Head(q) \in S
      /\ Tail(q) \in Seq(S) /\ Len(Tail(q)) = Len(q) - 1 /\ DOMAIN Tail(q) = 1..(Len(q) - 1)
  OBVIOUS
<1>2. \A i \in 1..(Len(q) - 1) : Tail(q)[i] = q[i + 1]
  OBVIOUS
<1>3. ToSet(q) = ToSet(Tail(q)) \cup {Head(q)}
  <2>1. ASSUME NEW f \in ToSet(q)  PROVE f \in ToSet(Tail(q)) \cup {Head(q)}
    <3>1. PICK i \in 1..Len(q) : f = q[i]
      BY Places
    <3>2. CASE i = 1
      BY <1>1, <3>1, <3>2
    <3>3. CASE i # 1
      <4>1. i - 1 \in 1..Len(Tail(q)) /\ Tail(q)[i - 1] = f
        BY <1>1, <1>2, <3>1, <3>3
      <4>. QED
        BY <1>1, <4>1, Places
    <3>. QED
      BY <3>2, <3>3
  <2>2. ASSUME NEW f \in ToSet(Tail(q))  PROVE f \in ToSet(q)
    <3>1. PICK i \in 1..Len(Tail(q)) : f = Tail(q)[i]
      BY <1>1, Places
    <3>2. i + 1 \in 1..Len(q) /\ f = q[i + 1]
      BY <1>1, <1>2, <3>1
    <3>. QED
      BY <3>2, Places
  <2>3. Head(q) \in ToSet(q)
    <3>1. 1 \in 1..Len(q)
      BY <1>1
    <3>. QED
      BY <1>1, <3>1, Places
  <2>. QED
    BY <2>1, <2>2, <2>3
<1>4. ASSUME Distinct(q)  PROVE Distinct(Tail(q)) /\ Head(q) \notin ToSet(Tail(q))
  <2>. DEFINE r == Tail(q)
  <2>1. /\ Len(r) = Len(q) - 1 /\ Len(q) \in Nat /\ Len(q) > 0 /\ r \in Seq(S)
        /\ \A i \in 1..(Len(q) - 1) : r[i] = q[i + 1]
    BY <1>1, <1>2
  <2>. HIDE DEF r
  <2>2. ASSUME NEW i \in 1..Len(r), NEW j \in 1..Len(r), r[i] = r[j]  PROVE i = j
    <3>1. i + 1 \in 1..Len(q) /\ j + 1 \in 1..Len(q) /\ q[i + 1] = q[j + 1]
      BY <2>1, <2>2
    <3>2. i + 1 = j + 1
      BY <1>4, <3>1 DEF Distinct
    <3>. QED
      BY <2>1, <3>2
  <2>3. ASSUME NEW i \in 1..Len(r)  PROVE r[i] # q[1]
    <3>1. 1 \in 1..Len(q) /\ i + 1 \in 1..Len(q) /\ i + 1 # 1 /\ r[i] = q[i + 1]
      BY <2>1
    <3>. QED
      BY <1>4, <3>1 DEF Distinct
  <2>4. q[1] \notin ToSet(r)
    BY <2>1, <2>3, Places
  <2>. QED
    BY <1>1, <2>2, <2>4 DEF Distinct, r
<1>. QED
  BY <1>1, <1>3, <1>4

(* What is left of a sequence after its first n elements.                 *)
LEMMA RestOf ==
    ASSUME NEW S, NEW q \in Seq(S), NEW n \in 0..Len(q)
    PROVE  /\ SubSeq(q, n + 1, Len(q)) \in Seq(S)
           /\ Len(SubSeq(q, n + 1, Len(q))) = Len(q) - n
           /\ DOMAIN SubSeq(q, n + 1, Len(q)) = 1..(Len(q) - n)
           /\ \A i \in 1..(Len(q) - n) : SubSeq(q, n + 1, Len(q))[i] = q[n + i]
<1>1. SubSeq(q, n + 1, Len(q)) \in Seq(S)
  OBVIOUS
<1>2. Len(SubSeq(q, n + 1, Len(q))) = Len(q) - n
  OBVIOUS
<1>3. ASSUME NEW i \in 1..(Len(q) - n)
      PROVE  SubSeq(q, n + 1, Len(q))[i] = q[n + i]
  OBVIOUS
<1>4. DOMAIN SubSeq(q, n + 1, Len(q)) = 1..(Len(q) - n)
  BY <1>1, <1>2
<1>. QED
  BY <1>1, <1>2, <1>3, <1>4

(* Cutting a sequence in two.                                              *)
LEMMA CutSet ==
    ASSUME NEW S, NEW q \in Seq(S), NEW n \in 0..Len(q)
    PROVE  LET a == SubSeq(q, 1, n)
               b == SubSeq(q, n + 1, Len(q))
           IN  /\ a \in Seq(S) /\ b \in Seq(S)
               /\ ToSet(q) = ToSet(a) \cup ToSet(b)
               /\ Distinct(q) => /\ Distinct(a) /\ Distinct(b)
                                 /\ \A e \in ToSet(a) : e \notin ToSet(b)
<1>. DEFINE a == SubSeq(q, 1, n)
            b == SubSeq(q, n + 1, Len(q))
<1>1. /\ Len(q) \in Nat /\ DOMAIN q = 1..Len(q) /\ n \in Nat /\ n <= Len(q)
  OBVIOUS
<1>2. /\ a \in Seq(S) /\ Len(a) = n /\ DOMAIN a = 1..n
      /\ \A i \in 1..n : a[i] = q[i]
  BY <1>1
<1>3. /\ b \in Seq(S) /\ Len(b) = Len(q) - n /\ DOMAIN b = 1..(Len(q) - n)
      /\ \A i \in 1..(Len(q) - n) : b[i] = q[n + i]
  BY RestOf
<1>. HIDE DEF a, b
<1>4. ToSet(q) = ToSet(a) \cup ToSet(b)
  <2>1. ASSUME NEW f \in ToSet(q)  PROVE f \in ToSet(a) \cup ToSet(b)
    <3>1. PICK i \in 1..Len(q) : f = q[i]
      BY Places
    <3>2. CASE i <= n
      <4>1. i \in 1..Len(a) /\ f = a[i]
        BY <1>1, <1>2, <3>1, <3>2
      <4>. QED
        BY <1>2, <4>1, Places
    <3>3. CASE i > n
      <4>1. i - n \in 1..Len(b) /\ f = b[i - n]
        BY <1>1, <1>3, <3>1, <3>3
      <4>. QED
        BY <1>3, <4>1, Places
    <3>. QED
      BY <1>1, <3>2, <3>3
  <2>2. ASSUME NEW f \in ToSet(a)  PROVE f \in ToSet(q)
    <3>1. PICK i \in 1..Len(a) : f = a[i]
      BY <1>2, Places
    <3>2. i \in 1..Len(q) /\ f = q[i]
      BY <1>1, <1>2, <3>1
    <3>. QED
      BY <3>2, Places
  <2>3. ASSUME NEW f \in ToSet(b)  PROVE f \in ToSet(q)
    <3>1. PICK i \in 1..Len(b) : f = b[i]
      BY <1>3, Places
    <3>2. n + i \in 1..Len(q) /\ f = q[n + i]
      BY <1>1, <1>3, <3>1
    <3>. QED
      BY <3>2, Places
  <2>. QED
    BY <2>1, <2>2, <2>3
<1>5. Distinct(q) => /\ Distinct(a) /\ Distinct(b)
                     /\ \A e \in ToSet(a) : e \notin ToSet(b)
  <2>1. SUFFICES ASSUME Distinct(q)
                 PROVE  /\ Distinct(a) /\ Distinct(b)
                        /\ \A e \in ToSet(a) : e \notin ToSet(b)
    OBVIOUS
  <2>2. Distinct(a)
    BY <1>1, <1>2, <2>1 DEF Distinct
  <2>3. Distinct(b)
    <3>1. ASSUME NEW i \in 1..Len(b), NEW j \in 1..Len(b), b[i] = b[j]  PROVE i = j
      <4>1. /\ n + i \in 1..Len(q) /\ n + j \in 1..Len(q)
            /\ q[n + i] = q[n + j]
        BY <1>1, <1>3, <3>1
      <4>2. n + i = n + j
        BY <2>1, <4>1 DEF Distinct
      <4>. QED
        BY <1>1, <1>3, <4>2
    <3>. QED
      BY <3>1 DEF Distinct
  <2>4. ASSUME NEW i \in 1..n, NEW j \in 1..(Len(q) - n)  PROVE a[i] # b[j]
    <3>1. /\ i \in 1..Len(q) /\ n + j \in 1..Len(q) /\ i # n + j
          /\ a[i] = q[i] /\ b[j] = q[n + j]
      BY <1>1, <1>2, <1>3
    <3>. QED
      BY <2>1, <3>1 DEF Distinct
  <2>5. ASSUME NEW e \in ToSet(a), e \in ToSet(b)  PROVE FALSE
    <3>1. PICK i \in 1..n : e = a[i]
      BY <1>2, Places
    <3>2. PICK j \in 1..(Len(q) - n) : e = b[j]
      BY <1>3, <2>5, Places
    <3>. QED
      BY <2>4, <3>1, <3>2
  <2>. QED
    BY <2>2, <2>3, <2>5
<1>6. a \in Seq(S) /\ b \in Seq(S)
  BY <1>2, <1>3
<1>. QED
  BY <1>4, <1>5, <1>6, Zenon DEF a, b

(* The empty sequence.                                                     *)
LEMMA EmptySet ==
    ASSUME NEW S
    PROVE  <<>> \in Seq(S) /\ ToSet(<<>>) = {} /\ Distinct(<<>>)
<1>1. <<>> \in Seq(S) /\ Len(<<>>) = 0 /\ DOMAIN <<>> = {}
  OBVIOUS
<1>2. ToSet(<<>>) = {}
  BY <1>1 DEF ToSet
<1>3. Distinct(<<>>)
  BY <1>1 DEF Distinct
<1>. QED
  BY <1>1, <1>2, <1>3

-----------------------------------------------------------------------------
(* Numbered elements.                                                      *)

\* The numbers of each sender rise along the queue.
Rising(q) == \A i, j \in 1..Len(q) : i < j /\ q[i][1] = q[j][1] => q[i][2] < q[j][2]

\* What both sets have of one sender is numbered lower in the first.
Below(A, B) == \A e \in A, f \in B : e[1] = f[1] => e[2] < f[2]

(* A higher element is appended.                                           *)
LEMMA RisingAppend ==
    ASSUME NEW S, NEW q \in Seq(S), NEW e \in S, Rising(q), Below(ToSet(q), {e})
    PROVE  Rising(Append(q, e))
<1>1. /\ Len(Append(q, e)) = Len(q) + 1 /\ Len(q) \in Nat
      /\ \A i \in 1..Len(q) : Append(q, e)[i] = q[i]
      /\ Append(q, e)[Len(q) + 1] = e
  OBVIOUS
<1>2. \A i \in 1..Len(q) : q[i] \in ToSet(q)
  BY Places
<1>. DEFINE r == Append(q, e)
<1>. HIDE DEF r
<1>3. ASSUME NEW i \in 1..Len(r), NEW j \in 1..Len(r), i < j, r[i][1] = r[j][1]
      PROVE  r[i][2] < r[j][2]
  <2>1. i \in 1..Len(q) /\ r[i] = q[i]
    BY <1>1, <1>3 DEF r
  <2>2. CASE j \in 1..Len(q)
    <3>1. r[j] = q[j]
      BY <1>1, <2>2 DEF r
    <3>. QED
      BY <1>3, <2>1, <2>2, <3>1 DEF Rising
  <2>3. CASE j \notin 1..Len(q)
    <3>1. j = Len(q) + 1
      BY <1>1, <2>3 DEF r
    <3>2. r[j] = e
      BY <1>1, <3>1 DEF r
    <3>. QED
      BY <1>2, <1>3, <2>1, <3>2 DEF Below
  <2>. QED
    BY <2>2, <2>3
<1>. QED
  BY <1>3 DEF Rising, r

(* The head is lower than the tail.                                        *)
LEMMA RisingTail ==
    ASSUME NEW S, NEW q \in Seq(S), q # <<>>, Rising(q)
    PROVE  Rising(Tail(q)) /\ Below({Head(q)}, ToSet(Tail(q)))
<1>. DEFINE r == Tail(q)
<1>1. /\ Len(q) \in Nat /\ Len(q) > 0 /\ Head(q) = q[1]
      /\ r \in Seq(S) /\ Len(r) = Len(q) - 1
      /\ \A i \in 1..(Len(q) - 1) : r[i] = q[i + 1]
  OBVIOUS
<1>. HIDE DEF r
<1>2. ASSUME NEW i \in 1..Len(r), NEW j \in 1..Len(r), i < j, r[i][1] = r[j][1]
      PROVE  r[i][2] < r[j][2]
  <2>1. /\ i + 1 \in 1..Len(q) /\ j + 1 \in 1..Len(q) /\ i + 1 < j + 1
        /\ r[i] = q[i + 1] /\ r[j] = q[j + 1]
    BY <1>1, <1>2
  <2>2. q[i + 1][1] = q[j + 1][1]
    BY <1>2, <2>1
  <2>3. q[i + 1][2] < q[j + 1][2]
    BY <2>1, <2>2 DEF Rising
  <2>. QED
    BY <2>1, <2>3
<1>3. ASSUME NEW f \in ToSet(r), q[1][1] = f[1]  PROVE q[1][2] < f[2]
  <2>1. PICK j \in 1..Len(r) : f = r[j]
    BY <1>1, Places
  <2>2. 1 \in 1..Len(q) /\ j + 1 \in 1..Len(q) /\ 1 < j + 1 /\ f = q[j + 1]
    BY <1>1, <2>1
  <2>. QED
    BY <1>3, <2>2 DEF Rising
<1>4. Rising(r)
  BY <1>2 DEF Rising
<1>5. Below({Head(q)}, ToSet(r))
  BY <1>1, <1>3 DEF Below
<1>. QED
  BY <1>4, <1>5 DEF r

(* Both parts of a queue rise.                                             *)
LEMMA RisingCut ==
    ASSUME NEW S, NEW q \in Seq(S), NEW n \in 0..Len(q), Rising(q)
    PROVE  Rising(SubSeq(q, 1, n)) /\ Rising(SubSeq(q, n + 1, Len(q)))
<1>. DEFINE a == SubSeq(q, 1, n)
            b == SubSeq(q, n + 1, Len(q))
<1>1. /\ Len(q) \in Nat /\ n \in Nat /\ n <= Len(q)
      /\ Len(a) = n /\ \A i \in 1..n : a[i] = q[i]
  OBVIOUS
<1>2. Len(b) = Len(q) - n /\ \A i \in 1..(Len(q) - n) : b[i] = q[n + i]
  BY RestOf
<1>. HIDE DEF a, b
<1>3. Rising(a)
  BY <1>1 DEF Rising
<1>4. ASSUME NEW i \in 1..Len(b), NEW j \in 1..Len(b), i < j, b[i][1] = b[j][1]
      PROVE  b[i][2] < b[j][2]
  <2>1. /\ n + i \in 1..Len(q) /\ n + j \in 1..Len(q) /\ n + i < n + j
        /\ b[i] = q[n + i] /\ b[j] = q[n + j]
    BY <1>1, <1>2, <1>4
  <2>2. q[n + i][1] = q[n + j][1]
    BY <1>4, <2>1
  <2>3. q[n + i][2] < q[n + j][2]
    BY <2>1, <2>2 DEF Rising
  <2>. QED
    BY <2>1, <2>3
<1>5. Rising(b)
  BY <1>4 DEF Rising
<1>. QED
  BY <1>3, <1>5 DEF a, b

(* A lower queue in front of a higher one.                                 *)
LEMMA RisingConcat ==
    ASSUME NEW S, NEW p \in Seq(S), NEW q \in Seq(S),
           Rising(p), Rising(q), Below(ToSet(p), ToSet(q))
    PROVE  /\ p \o q \in Seq(S) /\ Rising(p \o q)
           /\ ToSet(p \o q) \subseteq ToSet(p) \cup ToSet(q)
<1>. DEFINE r == p \o q
<1>1. /\ r \in Seq(S) /\ Len(r) = Len(p) + Len(q) /\ Len(p) \in Nat /\ Len(q) \in Nat
      /\ \A i \in 1..Len(p) : r[i] = p[i]
      /\ \A i \in 1..(Len(p) + Len(q)) : i > Len(p) => r[i] = q[i - Len(p)]
  OBVIOUS
<1>. HIDE DEF r
<1>2. /\ \A i \in 1..Len(p) : p[i] \in ToSet(p)
      /\ \A i \in 1..Len(q) : q[i] \in ToSet(q)
  BY Places
<1>3. ASSUME NEW i \in 1..Len(r), i > Len(p)
      PROVE  i - Len(p) \in 1..Len(q) /\ r[i] = q[i - Len(p)]
  BY <1>1, <1>3
<1>4. ASSUME NEW i \in 1..Len(r), ~(i > Len(p))
      PROVE  i \in 1..Len(p) /\ r[i] = p[i]
  BY <1>1, <1>4
<1>5. ASSUME NEW i \in 1..Len(r), NEW j \in 1..Len(r), i < j, r[i][1] = r[j][1]
      PROVE  r[i][2] < r[j][2]
  <2>1. CASE i > Len(p)
    <3>1. j > Len(p)
      BY <1>1, <1>5, <2>1
    <3>2. /\ i - Len(p) \in 1..Len(q) /\ r[i] = q[i - Len(p)]
          /\ j - Len(p) \in 1..Len(q) /\ r[j] = q[j - Len(p)]
      BY <1>3, <2>1, <3>1
    <3>3. i - Len(p) < j - Len(p)
      BY <1>1, <1>5
    <3>. QED
      BY <1>5, <3>2, <3>3 DEF Rising
  <2>2. CASE ~(i > Len(p)) /\ j > Len(p)
    <3>1. r[i] \in ToSet(p) /\ r[j] \in ToSet(q)
      BY <1>2, <1>3, <1>4, <2>2
    <3>. QED
      BY <1>5, <3>1 DEF Below
  <2>3. CASE ~(i > Len(p)) /\ ~(j > Len(p))
    BY <1>4, <1>5, <2>3 DEF Rising
  <2>. QED
    BY <2>1, <2>2, <2>3
<1>6. Rising(r)
  BY <1>5 DEF Rising
<1>7. ASSUME NEW e \in ToSet(r)  PROVE e \in ToSet(p) \cup ToSet(q)
  <2>1. PICK i \in 1..Len(r) : e = r[i]
    BY <1>1, Places
  <2>. QED
    BY <1>2, <1>3, <1>4, <2>1
<1>. QED
  BY <1>1, <1>6, <1>7 DEF r

===============================================================================
