-------------------------- MODULE SteamNet_proofs --------------------------
(***************************************************************************)
(* Proofs about SteamNet, for every set of connections, groups, clients    *)
(* and limits and any number of messages: nothing Steam hands out is lost, *)
(* doubled, reordered, attributed to another connection or kept, and       *)
(* nothing sent as reliable is dropped.                                    *)
(***************************************************************************)
EXTENDS SteamNet, SteamInterfaces_proofs, SequenceTheorems, FiniteSetTheorems

-----------------------------------------------------------------------------
(* The invariant.                                                          *)

(* A connection that is not open has nothing waiting in either direction.  *)
OnlyOpenHolds ==
  \A c \in Conns : ~Open(c) => inbox[c] = <<>> /\ wire[c] = <<>>

(* What was received is a beginning of what arrived, and as long as the    *)
(* connection is not closed what waits is all of the rest.                 *)
NothingSkipped ==
  \A c \in Conns :
    /\ state[c] # "closed" => received[c] \o inbox[c] = arrived[c]
    /\ \E rest \in Seq(Messages) : received[c] \o rest = arrived[c]

Sent == [num : Nat \ {0}, flags : {"RELIABLE", "UNRELIABLE"}]

(* Of one connection: w is on the wire, a was asked for, g has reached the *)
(* peer.  Everything on the wire carries what was asked for, in order, and *)
(* comes after what the peer has.                                          *)
InOrder(w, a, g) ==
  /\ \A i \in 1..Len(w) :
       w[i].num <= Len(a) /\ w[i].flags = SendFlags(a[w[i].num])
  /\ \A i, j \in 1..Len(w) : i < j => w[i].num < w[j].num
  /\ \A i \in 1..Len(g) : g[i] <= Len(a)
  /\ \A i, j \in 1..Len(g) : i < j => g[i] < g[j]
  /\ \A i \in 1..Len(g), j \in 1..Len(w) : g[i] < w[j].num

(* No reliable message is missing.                                         *)
Complete(w, a, g) ==
  \A num \in 1..Len(a) :
    a[num] => \/ \E i \in 1..Len(g) : g[i] = num
              \/ \E i \in 1..Len(w) : w[i].num = num

SentIsKept ==
  \A c \in Conns :
    /\ InOrder(wire[c], asked[c], peerGot[c])
    /\ state[c] # "closed" => Complete(wire[c], asked[c], peerGot[c])

NetInv == NothingHeld /\ OnlyOpenHolds /\ NothingSkipped /\ SentIsKept

-----------------------------------------------------------------------------
(* Sending, on one connection.                                             *)

LEMMA InOrderRanges ==
  ASSUME NEW w \in Seq(Sent), NEW a \in Seq(BOOLEAN), NEW g \in Seq(Nat \ {0}),
         InOrder(w, a, g)
  PROVE  /\ Len(w) \in Nat /\ Len(a) \in Nat /\ Len(g) \in Nat
         /\ \A i \in 1..Len(w) : w[i] \in Sent /\ w[i].num \in 1..Len(a)
         /\ \A i \in 1..Len(g) : g[i] \in 1..Len(a)
<1>1. /\ Len(w) \in Nat /\ Len(a) \in Nat /\ Len(g) \in Nat
      /\ \A i \in 1..Len(w) : w[i] \in Sent
      /\ \A i \in 1..Len(g) : g[i] \in Nat \ {0}
  BY LenProperties, ElementOfSeq
<1>2. \A i \in 1..Len(w) : w[i].num \in Nat \ {0}
  BY <1>1 DEF Sent
<1> QED
  BY <1>1, <1>2 DEF InOrder

LEMMA SendKeeps ==
  ASSUME NEW w \in Seq(Sent), NEW a \in Seq(BOOLEAN), NEW g \in Seq(Nat \ {0}),
         InOrder(w, a, g), NEW r \in BOOLEAN,
         NEW m, m = [num |-> Len(a) + 1, flags |-> SendFlags(r)]
  PROVE  /\ m \in Sent
         /\ InOrder(Append(w, m), Append(a, r), g)
         /\ Complete(w, a, g) => Complete(Append(w, m), Append(a, r), g)
<1>1. /\ m \in Sent
      /\ Len(Append(w, m)) = Len(w) + 1 /\ Len(Append(a, r)) = Len(a) + 1
      /\ \A i \in 1..Len(w) : Append(w, m)[i] = w[i]
      /\ Append(w, m)[Len(w) + 1] = m
      /\ \A i \in 1..Len(a) : Append(a, r)[i] = a[i]
      /\ Append(a, r)[Len(a) + 1] = r
  BY AppendProperties DEF Sent, SendFlags
<1>2. \A i \in 1..Len(w) : w[i] \in Sent /\ w[i].num \in 1..Len(a)
  BY InOrderRanges
<1>3. Len(w) \in Nat /\ Len(a) \in Nat /\ \A i \in 1..Len(g) : g[i] \in 1..Len(a)
  BY InOrderRanges
<1>4. InOrder(Append(w, m), Append(a, r), g)
  BY <1>1, <1>2, <1>3 DEF InOrder
<1>5. ASSUME Complete(w, a, g) PROVE Complete(Append(w, m), Append(a, r), g)
  <2>1. ASSUME NEW num \in 1..Len(a), a[num]
        PROVE  \/ \E i \in 1..Len(g) : g[i] = num
               \/ \E i \in 1..Len(w) : w[i].num = num
    BY <1>5, <2>1 DEF Complete
  <2> SUFFICES ASSUME NEW num \in 1..(Len(a) + 1), Append(a, r)[num]
               PROVE  \/ \E i \in 1..Len(g) : g[i] = num
                      \/ \E i \in 1..(Len(w) + 1) : Append(w, m)[i].num = num
    BY <1>1 DEF Complete
  <2>2. CASE num = Len(a) + 1
    <3>1. m.num = num /\ Len(w) + 1 \in 1..(Len(w) + 1)
      BY <1>3, <2>2
    <3> QED
      BY <1>1, <3>1
  <2>3. CASE num # Len(a) + 1
    <3>1. num \in 1..Len(a) /\ a[num]
      BY <1>1, <1>3, <2>3
    <3>2. \A i \in 1..Len(w) : i \in 1..(Len(w) + 1)
      BY <1>3
    <3> QED
      BY <1>1, <2>1, <3>1, <3>2
  <2> QED
    BY <2>2, <2>3
<1> QED
  BY <1>1, <1>4, <1>5

LEMMA ReceiptKeeps ==
  ASSUME NEW w \in Seq(Sent), NEW a \in Seq(BOOLEAN), NEW g \in Seq(Nat \ {0}),
         InOrder(w, a, g), w # <<>>
  PROVE  /\ Head(w).num \in Nat \ {0}
         /\ InOrder(Tail(w), a, Append(g, Head(w).num))
         /\ Complete(w, a, g) => Complete(Tail(w), a, Append(g, Head(w).num))
<1> DEFINE n == Head(w).num
<1>1. /\ Head(w) \in Sent /\ Head(w) = w[1] /\ Len(w) \in Nat \ {0}
      /\ Len(Tail(w)) = Len(w) - 1
      /\ \A i \in 1..Len(Tail(w)) : Tail(w)[i] = w[i + 1]
  BY HeadTailProperties, EmptySeq
<1>2. n \in Nat \ {0} /\ n = w[1].num
  BY <1>1 DEF Sent
<1>3. /\ Len(Append(g, n)) = Len(g) + 1
      /\ \A i \in 1..Len(g) : Append(g, n)[i] = g[i]
      /\ Append(g, n)[Len(g) + 1] = n
  BY <1>2, AppendProperties
<1>4. \A i \in 1..Len(w) : w[i] \in Sent /\ w[i].num \in 1..Len(a)
  BY InOrderRanges
<1>5. Len(a) \in Nat /\ Len(g) \in Nat /\ \A i \in 1..Len(g) : g[i] \in 1..Len(a)
  BY InOrderRanges
<1> HIDE DEF n
<1>6. InOrder(Tail(w), a, Append(g, n))
  <2> DEFINE v == Tail(w)
             h == Append(g, n)
  <2>1. /\ Len(v) = Len(w) - 1 /\ Len(v) \in Nat
        /\ \A i \in 1..Len(v) : v[i] = w[i + 1] /\ i + 1 \in 1..Len(w)
    BY <1>1
  <2>2. /\ Len(h) = Len(g) + 1 /\ h[Len(g) + 1] = n
        /\ \A i \in 1..Len(h) : i \in 1..Len(g) \/ i = Len(g) + 1
        /\ \A i \in 1..Len(g) : h[i] = g[i]
    BY <1>3, <1>5
  <2> HIDE DEF v, h
  <2>3. \A i \in 1..Len(v) : v[i].num <= Len(a) /\ v[i].flags = SendFlags(a[v[i].num])
    BY <2>1 DEF InOrder
  <2>4. \A i, j \in 1..Len(w) : i < j => w[i].num < w[j].num
    BY DEF InOrder
  <2>5. ASSUME NEW i \in 1..Len(v), NEW j \in 1..Len(v), i < j PROVE v[i].num < v[j].num
    <3>1. /\ v[i] = w[i + 1] /\ i + 1 \in 1..Len(w)
          /\ v[j] = w[j + 1] /\ j + 1 \in 1..Len(w) /\ i + 1 < j + 1
      BY <2>1, <2>5
    <3> QED
      BY <2>4, <3>1
  <2>6. \A i \in 1..Len(h) : h[i] <= Len(a)
    BY <1>1, <1>2, <1>4, <1>5, <2>2
  <2>7. ASSUME NEW i \in 1..Len(h), NEW j \in 1..Len(h), i < j PROVE h[i] < h[j]
    <3>1. i \in 1..Len(g) /\ h[i] = g[i] /\ (j \in 1..Len(g) \/ j = Len(g) + 1)
      BY <1>5, <2>2, <2>7
    <3>2. CASE j \in 1..Len(g)
      BY <2>2, <2>7, <3>1, <3>2 DEF InOrder
    <3>3. CASE j = Len(g) + 1
      <4>1. g[i] < w[1].num
        BY <1>1, <3>1 DEF InOrder
      <4> QED
        BY <1>2, <2>2, <3>1, <3>3, <4>1
    <3> QED
      BY <3>1, <3>2, <3>3
  <2>8. ASSUME NEW i \in 1..Len(h), NEW j \in 1..Len(v) PROVE h[i] < v[j].num
    <3>1. v[j] = w[j + 1] /\ j + 1 \in 1..Len(w) /\ 1 \in 1..Len(w) /\ 1 < j + 1
      BY <1>1, <2>1, <2>8
    <3>2. CASE i \in 1..Len(g)
      BY <2>2, <3>1, <3>2 DEF InOrder
    <3>3. CASE i = Len(g) + 1
      BY <1>2, <2>2, <2>4, <3>1, <3>3
    <3> QED
      BY <2>2, <2>8, <3>2, <3>3
  <2>9. InOrder(v, a, h)
    BY <2>3, <2>5, <2>6, <2>7, <2>8 DEF InOrder
  <2> QED
    BY <2>9 DEF v, h
<1>7. ASSUME Complete(w, a, g) PROVE Complete(Tail(w), a, Append(g, n))
  <2> SUFFICES ASSUME NEW num \in 1..Len(a), a[num]
               PROVE  \/ \E i \in 1..Len(Append(g, n)) : Append(g, n)[i] = num
                      \/ \E i \in 1..Len(Tail(w)) : Tail(w)[i].num = num
    BY DEF Complete
  <2>1. CASE \E i \in 1..Len(g) : g[i] = num
    BY <1>3, <1>5, <2>1
  <2>2. ASSUME NEW i \in 1..Len(w), w[i].num = num
        PROVE  \/ \E k \in 1..Len(Append(g, n)) : Append(g, n)[k] = num
               \/ \E k \in 1..Len(Tail(w)) : Tail(w)[k].num = num
    <3>1. CASE i = 1
      BY <1>2, <1>3, <1>5, <2>2, <3>1
    <3>2. CASE i # 1
      <4>1. i - 1 \in 1..Len(Tail(w)) /\ Tail(w)[i - 1] = w[i]
        BY <1>1, <3>2
      <4> QED
        BY <2>2, <4>1
    <3> QED
      BY <3>1, <3>2
  <2> QED
    BY <1>7, <2>1, <2>2 DEF Complete
<1> QED
  BY <1>2, <1>6, <1>7 DEF n

LEMMA LossKeeps ==
  ASSUME NEW w \in Seq(Sent), NEW a \in Seq(BOOLEAN), NEW g \in Seq(Nat \ {0}),
         InOrder(w, a, g), NEW i \in 1..Len(w), w[i].flags # "RELIABLE"
  PROVE  /\ RemoveAt(w, i) \in Seq(Sent)
         /\ InOrder(RemoveAt(w, i), a, g)
         /\ Complete(w, a, g) => Complete(RemoveAt(w, i), a, g)
<1> DEFINE v == RemoveAt(w, i)
<1>0. Len(w) \in Nat
  BY InOrderRanges
<1>1. \A k \in 1..Len(w) : w[k] \in Sent /\ w[k].num \in 1..Len(a)
  BY InOrderRanges
<1>2. /\ SubSeq(w, 1, i - 1) \in Seq(Sent) /\ Len(SubSeq(w, 1, i - 1)) = i - 1
      /\ \A k \in 1..(i - 1) : SubSeq(w, 1, i - 1)[k] = w[k]
  BY <1>1, SubSeqProperties
<1>3. /\ SubSeq(w, i + 1, Len(w)) \in Seq(Sent)
      /\ Len(SubSeq(w, i + 1, Len(w))) = Len(w) - i
      /\ \A k \in 1..(Len(w) - i) : SubSeq(w, i + 1, Len(w))[k] = w[i + k]
  BY <1>1, SubSeqProperties
<1>4. /\ v \in Seq(Sent) /\ Len(v) = Len(w) - 1
      /\ \A k \in 1..(Len(w) - 1) : v[k] = IF k < i THEN w[k] ELSE w[k + 1]
  <2> DEFINE x == SubSeq(w, 1, i - 1)
             y == SubSeq(w, i + 1, Len(w))
  <2>1. Len(w) \in Nat
    BY InOrderRanges
  <2>2. /\ x \o y \in Seq(Sent)
        /\ Len(x \o y) = Len(x) + Len(y)
        /\ \A k \in 1..Len(x) + Len(y) :
             (x \o y)[k] = IF k <= Len(x) THEN x[k] ELSE y[k - Len(x)]
    BY <1>2, <1>3, ConcatProperties
  <2>3. v = x \o y /\ Len(x) = i - 1 /\ Len(y) = Len(w) - i
    BY <1>2, <1>3 DEF RemoveAt
  <2>4. \A k \in 1..(i - 1) : x[k] = w[k]
    BY <1>2
  <2>5. \A k \in 1..(Len(w) - i) : y[k] = w[i + k]
    BY <1>3
  <2> HIDE DEF x, y, v
  <2>6. ASSUME NEW k \in 1..(Len(w) - 1) PROVE v[k] = IF k < i THEN w[k] ELSE w[k + 1]
    <3>1. CASE k < i
      BY <2>1, <2>2, <2>3, <2>4, <3>1
    <3>2. CASE k >= i
      <4>1. k - (i - 1) \in 1..(Len(w) - i) /\ i + (k - (i - 1)) = k + 1
        BY <2>1, <3>2
      <4>2. k \in 1..Len(x) + Len(y) /\ ~(k <= Len(x)) /\ k - Len(x) = k - (i - 1)
        BY <2>1, <2>3, <3>2
      <4>3. v[k] = y[k - (i - 1)]
        BY <2>2, <2>3, <4>2
      <4>4. v[k] = w[k + 1]
        BY <2>5, <4>1, <4>3
      <4> QED
        BY <3>2, <4>4
    <3> QED
      BY <2>1, <3>1, <3>2
  <2>7. Len(v) = Len(w) - 1
    <3>1. Len(v) = Len(x) + Len(y)
      BY <2>2, <2>3
    <3>2. Len(x) + Len(y) = Len(w) - 1
      BY <2>1, <2>3
    <3> QED
      BY <3>1, <3>2
  <2> QED
    BY <2>2, <2>3, <2>6, <2>7
<1> HIDE DEF v
<1>5. Len(a) \in Nat /\ Len(g) \in Nat /\ \A k \in 1..Len(g) : g[k] \in 1..Len(a)
  BY InOrderRanges
<1>6. InOrder(v, a, g)
  <2> DEFINE At(k) == IF k < i THEN k ELSE k + 1
  <2>1. \A k \in 1..Len(v) : At(k) \in 1..Len(w) /\ v[k] = w[At(k)]
    BY <1>0, <1>4
  <2>2. \A k, l \in 1..Len(v) : k < l => At(k) < At(l)
    BY <1>0, <1>4
  <2> HIDE DEF At
  <2> QED
    BY <2>1, <2>2 DEF InOrder
<1>7. ~a[w[i].num]
  BY <1>1 DEF InOrder, SendFlags
<1>8. ASSUME Complete(w, a, g), NEW num \in 1..Len(a), a[num]
      PROVE  (\E k \in 1..Len(g) : g[k] = num) \/ \E k \in 1..Len(v) : v[k].num = num
  <2>1. ASSUME NEW k \in 1..Len(w), w[k].num = num PROVE \E l \in 1..Len(v) : v[l].num = num
    <3>1. k # i
      BY <1>7, <1>8, <2>1
    <3>2. CASE k < i
      BY <1>4, <2>1, <3>2
    <3>3. CASE k > i
      <4>1. k - 1 \in 1..Len(v) /\ v[k - 1] = w[k]
        BY <1>4, <3>3
      <4> QED
        BY <2>1, <4>1
    <3> QED
      BY <3>1, <3>2, <3>3
  <2> QED
    BY <1>8, <2>1 DEF Complete
<1> QED
  BY <1>4, <1>6, <1>8 DEF v, Complete

-----------------------------------------------------------------------------
(* Receiving.                                                              *)

LEMMA FiniteImage ==
  ASSUME NEW S, IsFiniteSet(S), NEW f
  PROVE  IsFiniteSet({f[x] : x \in S})
<1> DEFINE T == {f[x] : x \in S}
           g == [x \in S |-> f[x]]
<1>1. g \in Surjection(S, T)
  BY DEF Surjection
<1> HIDE DEF T, g
<1>2. IsFiniteSet(T)
  BY <1>1, FS_Surjection
<1> QED
  BY <1>2 DEF T

(* Only as many messages as wait are handed out, a finite number.          *)
LEMMA BatchSize ==
  ASSUME NothingHeld, NEW cs \in SUBSET Conns, NEW max \in Int, NEW b \in Batches(cs, max)
  PROVE  \E n \in Nat : b \in [1..n -> Messages]
<1> DEFINE Boxes == {ToSet(inbox[c]) : c \in cs}
           waiting == UNION Boxes
           n == IF max < 1 THEN 0
                ELSE IF Cardinality(waiting) < max THEN Cardinality(waiting) ELSE max
<1>1. inbox \in [Conns -> Seq(Messages)]
  BY DEF NothingHeld, TypeOK
<1>2. ASSUME NEW c \in Conns PROVE IsFiniteSet(ToSet(inbox[c])) /\ ToSet(inbox[c]) \subseteq Messages
  <2>1. /\ Len(inbox[c]) \in Nat /\ DOMAIN inbox[c] = 1..Len(inbox[c])
        /\ \A i \in 1..Len(inbox[c]) : inbox[c][i] \in Messages
    BY <1>1, LenProperties, ElementOfSeq
  <2>2. IsFiniteSet(1..Len(inbox[c]))
    BY <2>1, FS_Interval
  <2>3. ToSet(inbox[c]) = {inbox[c][i] : i \in 1..Len(inbox[c])}
    BY <2>1 DEF ToSet
  <2>4. IsFiniteSet(ToSet(inbox[c]))
    <3> DEFINE box == inbox[c]
    <3>1. IsFiniteSet({box[i] : i \in 1..Len(box)})
      BY <2>2, FiniteImage
    <3> QED
      BY <2>3, <3>1
  <2> QED
    BY <2>1, <2>3, <2>4
<1>3. IsFiniteSet(cs)
  BY NetAssumption, FS_Subset
<1>4. IsFiniteSet(Boxes)
  <2> DEFINE box == [c \in Conns |-> ToSet(inbox[c])]
  <2>1. IsFiniteSet({box[c] : c \in cs})
    BY <1>3, FiniteImage
  <2>2. {box[c] : c \in cs} = Boxes
    OBVIOUS
  <2> QED
    BY <2>1, <2>2
<1>5. IsFiniteSet(waiting)
  BY <1>2, <1>4, FS_UNION
<1>6. n \in Nat
  BY <1>5, FS_CardinalityType
<1>7. waiting \subseteq Messages
  BY <1>2
<1>8. b \in [1..n -> waiting]
  BY DEF Batches
<1> QED
  BY <1>6, <1>7, <1>8

(* A message is copied as it is, and released.                             *)
LEMMA CopiedAndReleased ==
  ASSUME NEW n \in Nat, NEW b \in [1..n -> Messages]
  PROVE  /\ net_messages_to_array(b).entries = b
         /\ net_messages_to_array(b).released = n /\ Len(b) = n
<1>1. \A i \in 1..n : [conn |-> b[i].conn, num |-> b[i].num] = b[i]
  BY DEF Messages
<1>2. [i \in DOMAIN b |-> [conn |-> b[i].conn, num |-> b[i].num]] = b
  BY <1>1
<1>3. b \in Seq(Messages) /\ Len(b) = n
  OBVIOUS
<1> QED
  BY <1>2, <1>3 DEF net_messages_to_array

(* Of each connection a beginning of what waits moves to the script.       *)
Moved(c, n) ==
  /\ received'[c] = received[c] \o SubSeq(inbox[c], 1, n)
  /\ inbox'[c] = SubSeq(inbox[c], n + 1, Len(inbox[c]))

LEMMA ReceiveMoves ==
  ASSUME NothingHeld, NEW cs \in SUBSET Conns, NEW max \in Int, Receive(cs, max)
  PROVE  /\ outstanding' = outstanding
         /\ inbox' = [c \in Conns |-> inbox'[c]]
         /\ received' = [c \in Conns |-> received'[c]]
         /\ \A c \in Conns : \E n \in 0..Len(inbox[c]) : Moved(c, n)
<1>1. PICK b \in Batches(cs, max) :
        LET result == net_messages_to_array(b) IN
          /\ inbox' = [c \in Conns |->
                         SubSeq(inbox[c], Len(From(b, c)) + 1, Len(inbox[c]))]
          /\ received' = [c \in Conns |-> received[c] \o From(result.entries, c)]
          /\ outstanding' = outstanding + Len(b) - result.released
  BY DEF Receive
<1>2. PICK size \in Nat : b \in [1..size -> Messages]
  BY BatchSize
<1>3. outstanding' = outstanding
  <2>1. net_messages_to_array(b).released = size /\ Len(b) = size
    BY <1>2, CopiedAndReleased
  <2>2. outstanding' = outstanding + Len(b) - net_messages_to_array(b).released
    BY <1>1
  <2> QED
    BY <2>1, <2>2 DEF NothingHeld, TypeOK
<1>4. received' = [c \in Conns |-> received[c] \o From(b, c)]
  BY <1>1, <1>2, CopiedAndReleased
<1>5. ASSUME NEW c \in Conns PROVE \E n \in 0..Len(inbox[c]) : Moved(c, n)
  <2>1. inbox[c] \in Seq(Messages) /\ Len(inbox[c]) \in Nat
    BY LenProperties DEF NothingHeld, TypeOK
  <2>2. \E n \in 0..Len(inbox[c]) : From(b, c) = SubSeq(inbox[c], 1, n)
    <3>1. From(b, c) \in Prefixes(IF c \in cs THEN inbox[c] ELSE <<>>)
      BY DEF Batches
    <3>2. CASE c \in cs
      BY <3>1, <3>2 DEF Prefixes
    <3>3. CASE c \notin cs
      <4>1. From(b, c) = SubSeq(<<>>, 1, 0)
        BY <3>1, <3>3 DEF Prefixes
      <4>2. From(b, c) = SubSeq(inbox[c], 1, 0)
        BY <4>1, SubSeqEmpty
      <4> QED
        BY <2>1, <4>2
    <3> QED
      BY <3>2, <3>3
  <2>3. PICK n \in 0..Len(inbox[c]) : From(b, c) = SubSeq(inbox[c], 1, n)
    BY <2>2
  <2>4. Len(From(b, c)) = n
    <3>1. \A i \in 1..n : inbox[c][i] \in Messages
      BY <2>1, ElementOfSeq
    <3>2. Len(SubSeq(inbox[c], 1, n)) = IF 1 <= n THEN n - 1 + 1 ELSE 0
      BY <3>1, SubSeqProperties
    <3> QED
      BY <2>3, <3>2
  <2>5. inbox'[c] = SubSeq(inbox[c], n + 1, Len(inbox[c]))
    BY <1>1, <2>4
  <2>6. received'[c] = received[c] \o SubSeq(inbox[c], 1, n)
    BY <1>4, <2>3
  <2> QED
    BY <2>5, <2>6 DEF Moved
<1>6. /\ inbox' = [c \in Conns |-> inbox'[c]]
      /\ received' = [c \in Conns |-> received'[c]]
  BY <1>1, <1>4
<1> QED
  BY <1>3, <1>5, <1>6

LEMMA Associative ==
  \A x, y, z \in Seq(Messages) : (x \o y) \o z = x \o (y \o z)
BY ConcatAssociative

(* A sequence cut in two.                                                  *)
LEMMA CutInTwo ==
  ASSUME NEW S, NEW s \in Seq(S), NEW n \in 0..Len(s)
  PROVE  /\ SubSeq(s, 1, n) \in Seq(S) /\ SubSeq(s, n + 1, Len(s)) \in Seq(S)
         /\ SubSeq(s, 1, n) \o SubSeq(s, n + 1, Len(s)) = s
<1>1. Len(s) \in Nat /\ \A i \in 1..Len(s) : s[i] \in S
  BY LenProperties, ElementOfSeq
<1>2. SubSeq(s, 1, n) \in Seq(S)
  BY <1>1, SubSeqProperties
<1>3. SubSeq(s, n + 1, Len(s)) \in Seq(S)
  BY <1>1, SubSeqProperties
<1>4. SubSeq(s, 1, n) \o SubSeq(s, n + 1, Len(s)) = SubSeq(s, 1, Len(s))
  <2>1. 1 \in 1..Len(s) + 1 /\ n \in (1 - 1)..Len(s) /\ Len(s) \in n..Len(s)
    BY <1>1
  <2> QED
    BY <2>1, ConcatAdjacentSubSeq
<1> QED
  BY <1>2, <1>3, <1>4, SubSeqFull

LEMMA MovedKeeps ==
  ASSUME NEW r \in Seq(Messages), NEW waiting \in Seq(Messages),
         NEW n \in 0..Len(waiting)
  PROVE  LET read == r \o SubSeq(waiting, 1, n)
             left == SubSeq(waiting, n + 1, Len(waiting))
         IN  /\ read \in Seq(Messages) /\ left \in Seq(Messages)
             /\ read \o left = r \o waiting
             /\ waiting = <<>> => left = <<>> /\ read = r
<1> DEFINE front == SubSeq(waiting, 1, n)
           left == SubSeq(waiting, n + 1, Len(waiting))
<1>1. front \in Seq(Messages) /\ left \in Seq(Messages) /\ front \o left = waiting
  BY CutInTwo
<1> HIDE DEF front, left
<1>2. (r \o front) \o left = r \o waiting
  <2>1. (r \o front) \o left = r \o (front \o left)
    BY <1>1, Associative
  <2> QED
    BY <1>1, <2>1
<1>3. r \o front \in Seq(Messages)
  BY <1>1, ConcatProperties
<1>4. waiting = <<>> => front = <<>> /\ left = <<>>
  BY <1>1, ConcatEqualIffEmpty
<1>5. waiting = <<>> => r \o front = r
  BY <1>4, ConcatEmptySeq
<1> QED
  BY <1>1, <1>2, <1>3, <1>4, <1>5 DEF front, left

-----------------------------------------------------------------------------
(* One step at a time.                                                     *)

LEMMA SocketsResolve == {Sockets, "ISteamNetworkingUtils"} \subseteq Interfaces
BY DEF Sockets, Interfaces, versions

(* The functions and steps that only move handles: no connection is        *)
(* closed, comes back from closed or becomes unused again.                 *)
HandlesMove ==
  /\ IfaceTypeOK'
  /\ listening' \in BOOLEAN
  /\ state' \in [Conns -> States]
  /\ groups' \subseteq Groups /\ pollGroup' \in [Conns -> groups' \cup {NULL}]
  /\ \A c \in Conns :
       /\ state'[c] = "unused" => state[c] = "unused"
       /\ state'[c] = "closed" <=> state[c] = "closed"

LEMMA HandlesKeep ==
  ASSUME NetInv, HandlesMove, UNCHANGED <<inVars, outVars>>
  PROVE  NetInv'
<1>1. NothingHeld'
  BY DEF NetInv, NothingHeld, TypeOK, HandlesMove, inVars, outVars, Messages
<1>2. OnlyOpenHolds'
  BY DEF NetInv, OnlyOpenHolds, Open, HandlesMove, inVars, outVars
<1>3. NothingSkipped'
  BY DEF NetInv, NothingSkipped, HandlesMove, inVars, outVars, Messages
<1>4. SentIsKept'
  BY DEF NetInv, SentIsKept, HandlesMove, inVars, outVars
<1> QED
  BY <1>1, <1>2, <1>3, <1>4 DEF NetInv

LEMMA ResolveKeepsTypes ==
  ASSUME NetInv
  PROVE  /\ NetCall => IfaceTypeOK'
         /\ steamworks_resolve("ISteamNetworkingUtils") => IfaceTypeOK'
         /\ UNCHANGED ifaceVars => IfaceTypeOK'
BY ResolveTypes, SocketsResolve DEF NetInv, NothingHeld, TypeOK, NetCall, ifaceVars, IfaceTypeOK

LEMMA PeersMoveHandles ==
  ASSUME NetInv, NEW c \in Conns,
         PeerConnects(c) \/ ConnectionEstablished(c) \/ PeerCloses(c)
  PROVE  NetInv'
<1>1. IfaceTypeOK'
  BY ResolveKeepsTypes DEF PeerConnects, ConnectionEstablished, PeerCloses
<1>2. \E s \in {"incoming", "connected", "closed_by_peer"} :
        /\ state' = [state EXCEPT ![c] = s]
        /\ state[c] # "closed"
        /\ UNCHANGED <<listening, groups, pollGroup, inVars, outVars>>
  BY DEF PeerConnects, ConnectionEstablished, PeerCloses
<1>3. HandlesMove
  BY <1>1, <1>2 DEF HandlesMove, NetInv, NothingHeld, TypeOK, States
<1> QED
  BY <1>2, <1>3, HandlesKeep

LEMMA FunctionsMoveHandles ==
  ASSUME NetInv,
         \/ steam_net_init_relay_network_access
         \/ steam_net_create_listen_socket_p2p
         \/ steam_net_close_listen_socket
         \/ steam_net_connect_p2p
         \/ steam_net_get_connection_status
         \/ \E g \in Groups : steam_net_create_poll_group(g) \/ steam_net_destroy_poll_group(g)
         \/ \E c \in Conns : steam_net_accept_connection(c)
         \/ \E c \in Conns, g \in Groups \cup {NULL} : steam_net_set_connection_poll_group(c, g)
         \/ \E client \in Clients : steam_init(client)
         \/ UNCHANGED vars
  PROVE  NetInv'
<1> USE DEF NetInv, NothingHeld, TypeOK, HandlesMove
<1>1. CASE \/ steam_net_init_relay_network_access \/ steam_net_get_connection_status
           \/ UNCHANGED vars
  <2>1. IfaceTypeOK' /\ UNCHANGED <<handleVars, inVars, outVars>>
    BY <1>1, ResolveKeepsTypes
       DEF steam_net_init_relay_network_access, steam_net_get_connection_status, vars
  <2> QED
    BY <2>1, HandlesKeep DEF handleVars
<1>2. CASE steam_net_create_listen_socket_p2p \/ steam_net_close_listen_socket
  <2>1. /\ NetCall /\ listening' \in BOOLEAN
        /\ UNCHANGED <<state, groups, pollGroup, inVars, outVars>>
    BY <1>2 DEF steam_net_create_listen_socket_p2p, steam_net_close_listen_socket
  <2> QED
    BY <2>1, ResolveKeepsTypes, HandlesKeep
<1>3. CASE steam_net_connect_p2p \/ \E c \in Conns : steam_net_accept_connection(c)
  <2>1. /\ NetCall
        /\ UNCHANGED <<listening, groups, pollGroup, inVars, outVars>>
        /\ \/ UNCHANGED state
           \/ \E c \in Conns, s \in {"connecting", "connected"} :
                state[c] # "closed" /\ state' = [state EXCEPT ![c] = s]
    BY <1>3 DEF steam_net_connect_p2p, steam_net_accept_connection
  <2>2. HandlesMove
    BY <2>1, ResolveKeepsTypes DEF States
  <2> QED
    BY <2>1, <2>2, HandlesKeep
<1>4. ASSUME NEW g \in Groups, steam_net_create_poll_group(g) PROVE NetInv'
  <2>1. /\ NetCall /\ groups' \in {groups, groups \cup {g}}
        /\ UNCHANGED <<listening, state, pollGroup, inVars, outVars>>
    BY <1>4 DEF steam_net_create_poll_group
  <2>2. HandlesMove
    BY <2>1, ResolveKeepsTypes
  <2> QED
    BY <2>1, <2>2, HandlesKeep
<1>5. ASSUME NEW g \in Groups, steam_net_destroy_poll_group(g) PROVE NetInv'
  <2>1. /\ NetCall /\ UNCHANGED <<listening, state, inVars, outVars>>
        /\ groups' \subseteq Groups /\ pollGroup' \in [Conns -> groups' \cup {NULL}]
    BY <1>5 DEF steam_net_destroy_poll_group
  <2> QED
    BY <2>1, ResolveKeepsTypes, HandlesKeep
<1>6. ASSUME NEW c \in Conns, NEW g \in Groups \cup {NULL},
             steam_net_set_connection_poll_group(c, g)
      PROVE  NetInv'
  <2>1. /\ NetCall /\ UNCHANGED <<listening, state, groups, inVars, outVars>>
        /\ pollGroup' \in [Conns -> groups \cup {NULL}]
    BY <1>6 DEF steam_net_set_connection_poll_group
  <2> QED
    BY <2>1, ResolveKeepsTypes, HandlesKeep
<1>7. ASSUME NEW client \in Clients, steam_init(client) PROVE NetInv'
  <2>1. IfaceTypeOK' /\ UNCHANGED <<handleVars, inVars, outVars>>
    BY <1>7, InitFlatTypes DEF steam_init
  <2> QED
    BY <2>1, HandlesKeep DEF handleVars
<1> QED
  BY <1>1, <1>2, <1>3, <1>4, <1>5, <1>6, <1>7

(* Closing drops what waits in either direction.                           *)
LEMMA ClosingKeeps ==
  ASSUME NetInv, IfaceTypeOK', NEW gone \in SUBSET Conns,
         listening' \in BOOLEAN,
         groups' \subseteq Groups, pollGroup' \in [Conns -> groups' \cup {NULL}],
         state' = [c \in Conns |-> IF c \in gone THEN "closed" ELSE state[c]],
         inbox' \in [Conns -> Seq(Messages)], wire' \in [Conns -> Seq(Sent)],
         \A c \in gone : inbox'[c] = <<>> /\ wire'[c] = <<>>,
         \A c \in Conns \ gone : inbox'[c] = inbox[c] /\ wire'[c] = wire[c],
         UNCHANGED <<outstanding, arrived, received, asked, peerGot>>
  PROVE  NetInv'
<1>1. NothingHeld'
  BY DEF NetInv, NothingHeld, TypeOK, Messages, States, Sent
<1>2. OnlyOpenHolds'
  BY DEF NetInv, OnlyOpenHolds, Open
<1>3. NothingSkipped'
  BY DEF NetInv, NothingSkipped, Messages
<1>4. SentIsKept'
  <2> SUFFICES ASSUME NEW c \in Conns
               PROVE  /\ InOrder(wire[c], asked[c], peerGot[c])'
                      /\ state'[c] # "closed" => Complete(wire[c], asked[c], peerGot[c])'
    BY DEF SentIsKept
  <2>1. InOrder(wire[c], asked[c], peerGot[c])
    BY DEF NetInv, SentIsKept
  <2>2. InOrder(<<>>, asked[c], peerGot[c])
    BY <2>1 DEF InOrder
  <2> QED
    BY <2>1, <2>2 DEF NetInv, SentIsKept
<1> QED
  BY <1>1, <1>2, <1>3, <1>4 DEF NetInv

LEMMA CloseAndShutdown ==
  ASSUME NetInv, steam_shutdown \/ \E c \in Conns : steam_net_close_connection(c)
  PROVE  NetInv'
<1> USE DEF NetInv, NothingHeld, TypeOK, Sent
<1>1. ASSUME NEW c \in Conns, steam_net_close_connection(c) PROVE NetInv'
  <2>1. IfaceTypeOK'
    BY <1>1, ResolveKeepsTypes DEF steam_net_close_connection
  <2>2. CASE Found(Sockets) /\ Open(c)
    <3> DEFINE gone == {c}
    <3>1. /\ state' = [d \in Conns |-> IF d \in gone THEN "closed" ELSE state[d]]
          /\ pollGroup' = [pollGroup EXCEPT ![c] = NULL]
          /\ inbox' = [inbox EXCEPT ![c] = <<>>]
          /\ wire' = [wire EXCEPT ![c] = <<>>]
          /\ UNCHANGED <<listening, groups, outstanding, arrived, received, asked, peerGot>>
      BY <1>1, <2>2 DEF steam_net_close_connection
    <3>2. /\ inbox' \in [Conns -> Seq(Messages)] /\ wire' \in [Conns -> Seq(Sent)]
          /\ pollGroup' \in [Conns -> groups' \cup {NULL}]
      BY <3>1
    <3>3. /\ \A d \in gone : inbox'[d] = <<>> /\ wire'[d] = <<>>
          /\ \A d \in Conns \ gone : inbox'[d] = inbox[d] /\ wire'[d] = wire[d]
      BY <3>1
    <3> HIDE DEF gone
    <3>4. gone \subseteq Conns
      BY DEF gone
    <3> QED
      BY <2>1, <3>1, <3>2, <3>3, <3>4, ClosingKeeps
  <2>3. CASE ~(Found(Sockets) /\ Open(c))
    <3>1. UNCHANGED <<handleVars, inVars, outVars>>
      BY <1>1, <2>3 DEF steam_net_close_connection, handleVars, inVars, outVars
    <3> QED
      BY <2>1, <3>1, HandlesKeep DEF HandlesMove, handleVars
  <2> QED
    BY <2>2, <2>3
<1>2. CASE steam_shutdown
  <2> DEFINE gone == {c \in Conns : Open(c)}
  <2>1. IfaceTypeOK'
    BY <1>2, ShutdownTypes DEF steam_shutdown
  <2>2. /\ state' = [c \in Conns |-> IF c \in gone THEN "closed" ELSE state[c]]
        /\ listening' = FALSE /\ groups' = {} /\ pollGroup' = [c \in Conns |-> NULL]
        /\ inbox' = [c \in Conns |-> <<>>] /\ wire' = [c \in Conns |-> <<>>]
        /\ UNCHANGED <<outstanding, arrived, received, asked, peerGot>>
    BY <1>2 DEF steam_shutdown
  <2>3. /\ inbox' \in [Conns -> Seq(Messages)] /\ wire' \in [Conns -> Seq(Sent)]
        /\ pollGroup' \in [Conns -> groups' \cup {NULL}]
    BY <2>2
  <2>4. /\ \A c \in gone : inbox'[c] = <<>> /\ wire'[c] = <<>>
        /\ \A c \in Conns \ gone : inbox'[c] = inbox[c] /\ wire'[c] = wire[c]
    BY <2>2 DEF OnlyOpenHolds
  <2>5. gone \subseteq Conns
    OBVIOUS
  <2> HIDE DEF gone
  <2> QED
    BY <2>1, <2>2, <2>3, <2>4, <2>5, ClosingKeeps
<1> QED
  BY <1>1, <1>2

-----------------------------------------------------------------------------
(* Messages in.                                                            *)

LEMMA ArrivalKeeps ==
  ASSUME NetInv, NEW c \in Conns, MessageArrives(c)
  PROVE  NetInv'
<1> USE DEF NetInv, NothingHeld, TypeOK
<1> DEFINE m == [conn |-> c, num |-> Len(arrived[c]) + 1]
<1>1. /\ inbox' = [inbox EXCEPT ![c] = Append(@, m)]
      /\ arrived' = [arrived EXCEPT ![c] = Append(@, m)]
      /\ state[c] = "connected"
      /\ UNCHANGED <<ifaceVars, handleVars, outstanding, received, outVars>>
  BY DEF MessageArrives
<1>2. m \in Messages
  BY LenProperties DEF Messages
<1> HIDE DEF m
<1>3. inbox' \in [Conns -> Seq(Messages)] /\ arrived' \in [Conns -> Seq(Messages)]
  BY <1>1, <1>2, AppendProperties
<1>4. NothingHeld'
  BY <1>1, <1>3, ResolveKeepsTypes DEF Messages, handleVars, outVars
<1>5. OnlyOpenHolds'
  BY <1>1 DEF OnlyOpenHolds, Open, handleVars, outVars
<1>6. received[c] \o Append(inbox[c], m) = Append(received[c] \o inbox[c], m)
  <2>1. <<m>> \in Seq(Messages)
    BY <1>2
  <2>2. /\ Append(inbox[c], m) = inbox[c] \o <<m>>
        /\ received[c] \o inbox[c] \in Seq(Messages)
    BY <1>2, AppendIsConcat, ConcatProperties
  <2>3. Append(received[c] \o inbox[c], m) = (received[c] \o inbox[c]) \o <<m>>
    BY <1>2, <2>2, AppendIsConcat
  <2> QED
    BY <2>1, <2>2, <2>3, Associative
<1>7. NothingSkipped'
  <2> SUFFICES ASSUME NEW d \in Conns
               PROVE  /\ state[d] # "closed" => received[d] \o inbox'[d] = arrived'[d]
                      /\ \E rest \in Seq(Messages) : received[d] \o rest = arrived'[d]
    BY <1>1 DEF NothingSkipped, Messages, handleVars
  <2>1. CASE d = c
    <3>1. received[c] \o inbox'[c] = arrived'[c]
      BY <1>1, <1>6 DEF NothingSkipped
    <3> QED
      BY <1>3, <2>1, <3>1
  <2>2. CASE d # c
    BY <1>1, <2>2 DEF NothingSkipped
  <2> QED
    BY <2>1, <2>2
<1>8. SentIsKept'
  BY <1>1 DEF SentIsKept, handleVars, outVars
<1> QED
  BY <1>4, <1>5, <1>7, <1>8

LEMMA ReceiveKeeps ==
  ASSUME NetInv, IfaceTypeOK', NEW cs \in SUBSET Conns, NEW max \in Int, Receive(cs, max),
         UNCHANGED <<handleVars, arrived, outVars>>
  PROVE  NetInv'
<1> USE DEF NetInv
<1>1. /\ outstanding' = outstanding
      /\ inbox' = [c \in Conns |-> inbox'[c]]
      /\ received' = [c \in Conns |-> received'[c]]
      /\ \A c \in Conns : \E n \in 0..Len(inbox[c]) : Moved(c, n)
  BY ReceiveMoves
<1>2. inbox \in [Conns -> Seq(Messages)] /\ received \in [Conns -> Seq(Messages)]
  BY DEF NothingHeld, TypeOK
<1>3. ASSUME NEW c \in Conns
      PROVE  /\ received'[c] \in Seq(Messages) /\ inbox'[c] \in Seq(Messages)
             /\ received'[c] \o inbox'[c] = received[c] \o inbox[c]
             /\ inbox[c] = <<>> => inbox'[c] = <<>> /\ received'[c] = received[c]
  <2>1. PICK n \in 0..Len(inbox[c]) : Moved(c, n)
    BY <1>1
  <2>2. inbox[c] \in Seq(Messages) /\ received[c] \in Seq(Messages)
    BY <1>2
  <2> DEFINE read == received[c] \o SubSeq(inbox[c], 1, n)
             left == SubSeq(inbox[c], n + 1, Len(inbox[c]))
  <2>3. /\ read \in Seq(Messages) /\ left \in Seq(Messages)
        /\ read \o left = received[c] \o inbox[c]
        /\ inbox[c] = <<>> => left = <<>> /\ read = received[c]
    BY <2>2, MovedKeeps
  <2>4. received'[c] = read /\ inbox'[c] = left
    BY <2>1 DEF Moved
  <2> HIDE DEF read, left
  <2> QED
    BY <2>3, <2>4
<1>4. /\ inbox' \in [Conns -> Seq(Messages)] /\ received' \in [Conns -> Seq(Messages)]
  BY <1>1, <1>3
<1>5. NothingHeld'
  BY <1>1, <1>4 DEF NothingHeld, TypeOK, handleVars, outVars, Messages
<1>6. OnlyOpenHolds'
  BY <1>3 DEF OnlyOpenHolds, Open, handleVars, outVars
<1>7. NothingSkipped'
  <2> SUFFICES ASSUME NEW c \in Conns
               PROVE  /\ state[c] # "closed" => received'[c] \o inbox'[c] = arrived[c]
                      /\ \E rest \in Seq(Messages) : received'[c] \o rest = arrived[c]
    BY DEF NothingSkipped, Messages, handleVars
  <2>1. CASE state[c] # "closed"
    BY <1>3, <2>1 DEF NothingSkipped
  <2>2. CASE state[c] = "closed"
    <3>1. inbox[c] = <<>>
      BY <2>2 DEF OnlyOpenHolds, Open
    <3> QED
      BY <1>3, <2>2, <3>1 DEF NothingSkipped
  <2> QED
    BY <2>1, <2>2
<1>8. SentIsKept'
  BY DEF SentIsKept, handleVars, outVars
<1> QED
  BY <1>5, <1>6, <1>7, <1>8

LEMMA ReceiveFunctions ==
  ASSUME NetInv, NEW max \in Maxima,
         \/ \E c \in Conns : steam_net_receive_messages(c, max)
         \/ \E g \in Groups : steam_net_receive_messages_on_poll_group(g, max)
  PROVE  NetInv'
<1>1. NetCall /\ UNCHANGED <<handleVars, arrived, outVars>>
  BY DEF steam_net_receive_messages, steam_net_receive_messages_on_poll_group
<1>2. IfaceTypeOK'
  BY <1>1, ResolveKeepsTypes
<1>3. Clamped(max) \in Int
  BY NetAssumption DEF Clamped
<1>4. CASE ~Found(Sockets)
  <2>1. UNCHANGED <<inbox, received, outstanding>>
    BY <1>4 DEF steam_net_receive_messages, steam_net_receive_messages_on_poll_group
  <2> QED
    BY <1>1, <1>2, <2>1, HandlesKeep
       DEF HandlesMove, handleVars, inVars, NetInv, NothingHeld, TypeOK
<1>5. CASE Found(Sockets)
  <2>1. PICK cs \in SUBSET Conns : Receive(cs, Clamped(max))
    BY <1>5 DEF steam_net_receive_messages, steam_net_receive_messages_on_poll_group
  <2> QED
    BY <1>1, <1>2, <1>3, <2>1, ReceiveKeeps
<1> QED
  BY <1>4, <1>5

-----------------------------------------------------------------------------
(* Messages out.                                                           *)

(* A step that changes what is on its way on one connection, and keeps it  *)
(* in order and complete.                                                  *)
LEMMA WireMoves ==
  ASSUME NetInv, IfaceTypeOK', NEW c \in Conns, Open(c),
         NEW w \in Seq(Sent), NEW a \in Seq(BOOLEAN), NEW g \in Seq(Nat \ {0}),
         InOrder(w, a, g), Complete(wire[c], asked[c], peerGot[c]) => Complete(w, a, g),
         wire' = [wire EXCEPT ![c] = w], asked' = [asked EXCEPT ![c] = a],
         peerGot' = [peerGot EXCEPT ![c] = g],
         UNCHANGED <<handleVars, inVars>>
  PROVE  NetInv'
<1> USE DEF NetInv, NothingHeld, TypeOK
<1>1. NothingHeld'
  BY DEF handleVars, inVars, Messages, Sent
<1>2. OnlyOpenHolds'
  BY DEF OnlyOpenHolds, Open, handleVars, inVars, Sent
<1>3. NothingSkipped'
  BY DEF NothingSkipped, handleVars, inVars, Messages
<1>4. SentIsKept'
  BY DEF SentIsKept, handleVars, Sent
<1> QED
  BY <1>1, <1>2, <1>3, <1>4

LEMMA WireTypes ==
  ASSUME NetInv, NEW c \in Conns
  PROVE  /\ wire[c] \in Seq(Sent) /\ asked[c] \in Seq(BOOLEAN)
         /\ peerGot[c] \in Seq(Nat \ {0})
         /\ InOrder(wire[c], asked[c], peerGot[c])
         /\ wire = [wire EXCEPT ![c] = wire[c]] /\ asked = [asked EXCEPT ![c] = asked[c]]
         /\ peerGot = [peerGot EXCEPT ![c] = peerGot[c]]
<1>1. /\ wire \in [Conns -> Seq(Sent)] /\ asked \in [Conns -> Seq(BOOLEAN)]
      /\ peerGot \in [Conns -> Seq(Nat \ {0})]
  BY DEF NetInv, NothingHeld, TypeOK, Sent
<1> QED
  BY <1>1 DEF NetInv, SentIsKept

LEMMA MessagesOut ==
  ASSUME NetInv, NEW c \in Conns,
         \/ \E reliable \in BOOLEAN : steam_net_send_message(c, reliable)
         \/ PeerReceives(c)
         \/ \E i \in 1..MaxOut : MessageLost(c, i)
  PROVE  NetInv'
<1>1. ASSUME NEW reliable \in BOOLEAN, steam_net_send_message(c, reliable) PROVE NetInv'
  <2> DEFINE m == [num |-> Len(asked[c]) + 1, flags |-> SendFlags(reliable)]
             w == Append(wire[c], m)
             a == Append(asked[c], reliable)
  <2>1. IfaceTypeOK' /\ UNCHANGED <<handleVars, inVars, peerGot>>
    BY <1>1, ResolveKeepsTypes DEF steam_net_send_message
  <2>2. CASE UNCHANGED <<wire, asked>>
    BY <2>1, <2>2, HandlesKeep
       DEF HandlesMove, handleVars, outVars, NetInv, NothingHeld, TypeOK
  <2>3. CASE /\ state[c] = "connected"
             /\ wire' = [wire EXCEPT ![c] = w] /\ asked' = [asked EXCEPT ![c] = a]
    <3>1. m \in Sent /\ InOrder(w, a, peerGot[c])
          /\ (Complete(wire[c], asked[c], peerGot[c]) => Complete(w, a, peerGot[c]))
      BY WireTypes, SendKeeps
    <3>2. w \in Seq(Sent) /\ a \in Seq(BOOLEAN)
      BY <3>1, WireTypes, AppendProperties
    <3>3. Open(c)
      BY <2>3 DEF Open
    <3>4. peerGot' = [peerGot EXCEPT ![c] = peerGot[c]]
      BY <2>1, WireTypes
    <3> HIDE DEF w, a, m
    <3> QED
      BY <2>1, <2>3, <3>1, <3>2, <3>3, <3>4, WireTypes, WireMoves
  <2> QED
    BY <1>1, <2>2, <2>3 DEF steam_net_send_message
<1>2. CASE PeerReceives(c)
  <2> DEFINE w == Tail(wire[c])
             g == Append(peerGot[c], Head(wire[c]).num)
  <2>1. /\ IfaceTypeOK' /\ Open(c) /\ wire[c] # <<>>
        /\ wire' = [wire EXCEPT ![c] = w] /\ peerGot' = [peerGot EXCEPT ![c] = g]
        /\ asked' = asked /\ UNCHANGED <<handleVars, inVars>>
    BY <1>2, ResolveKeepsTypes DEF PeerReceives, Open
  <2>2. Head(wire[c]).num \in Nat \ {0} /\ InOrder(w, asked[c], g)
        /\ (Complete(wire[c], asked[c], peerGot[c]) => Complete(w, asked[c], g))
    BY <2>1, WireTypes, ReceiptKeeps
  <2>3. w \in Seq(Sent) /\ g \in Seq(Nat \ {0})
    BY <2>1, <2>2, WireTypes, HeadTailProperties, AppendProperties
  <2>4. asked' = [asked EXCEPT ![c] = asked[c]]
    BY <2>1, WireTypes
  <2> HIDE DEF w, g
  <2> QED
    BY <2>1, <2>2, <2>3, <2>4, WireTypes, WireMoves
<1>3. ASSUME NEW i \in 1..MaxOut, MessageLost(c, i) PROVE NetInv'
  <2> DEFINE w == RemoveAt(wire[c], i)
  <2>1. /\ IfaceTypeOK' /\ i \in 1..Len(wire[c]) /\ wire[c][i].flags # "RELIABLE"
        /\ wire' = [wire EXCEPT ![c] = w]
        /\ asked' = asked /\ peerGot' = peerGot /\ UNCHANGED <<handleVars, inVars>>
    BY <1>3, WireTypes, LenProperties, ResolveKeepsTypes DEF MessageLost
  <2>2. w \in Seq(Sent) /\ InOrder(w, asked[c], peerGot[c])
        /\ (Complete(wire[c], asked[c], peerGot[c]) => Complete(w, asked[c], peerGot[c]))
    BY <2>1, WireTypes, LossKeeps
  <2>3. Open(c)
    BY <2>1, WireTypes DEF NetInv, OnlyOpenHolds
  <2> DEFINE a == asked[c]
             g == peerGot[c]
  <2>4. asked' = [asked EXCEPT ![c] = a] /\ peerGot' = [peerGot EXCEPT ![c] = g]
    BY <2>1, WireTypes
  <2>5. /\ InOrder(w, a, g) /\ (Complete(wire[c], asked[c], peerGot[c]) => Complete(w, a, g))
        /\ a \in Seq(BOOLEAN) /\ g \in Seq(Nat \ {0})
    BY <2>2, WireTypes
  <2>6. /\ IfaceTypeOK' /\ wire' = [wire EXCEPT ![c] = w]
        /\ UNCHANGED <<handleVars, inVars>> /\ w \in Seq(Sent)
    BY <2>1, <2>2
  <2> HIDE DEF w, a, g
  <2> QED
    BY <2>3, <2>4, <2>5, <2>6, WireMoves
<1> QED
  BY <1>1, <1>2, <1>3

-----------------------------------------------------------------------------
(* The theorems.                                                           *)

LEMMA InitNet == Init => NetInv
<1> SUFFICES ASSUME Init PROVE NetInv
  OBVIOUS
<1> USE DEF Init, Nothing
<1>1. NothingHeld
  <2>1. \A S : [c \in Conns |-> <<>>] \in [Conns -> Seq(S)]
    OBVIOUS
  <2>2. /\ \A box \in {inbox, arrived, received} : box \in [Conns -> Seq(Messages)]
        /\ wire \in [Conns -> Seq([num : Nat \ {0}, flags : {"RELIABLE", "UNRELIABLE"}])]
        /\ asked \in [Conns -> Seq(BOOLEAN)] /\ peerGot \in [Conns -> Seq(Nat \ {0})]
    BY <2>1
  <2>3. /\ listening \in BOOLEAN /\ state \in [Conns -> States] /\ outstanding = 0
        /\ groups \subseteq Groups /\ pollGroup \in [Conns -> groups \cup {NULL}]
    BY DEF States
  <2> QED
    BY <2>2, <2>3, IfaceInitTypes DEF NothingHeld, TypeOK
<1>2. OnlyOpenHolds
  BY DEF OnlyOpenHolds
<1>3. NothingSkipped
  <2>1. <<>> \o <<>> = <<>> /\ <<>> \in Seq(Messages)
    OBVIOUS
  <2> QED
    BY <2>1 DEF NothingSkipped
<1>4. SentIsKept
  BY DEF SentIsKept, InOrder, Complete
<1> QED
  BY <1>1, <1>2, <1>3, <1>4 DEF NetInv

LEMMA NetInductive == NetInv /\ [Next]_vars => NetInv'
BY PeersMoveHandles, FunctionsMoveHandles, CloseAndShutdown, ArrivalKeeps,
   ReceiveFunctions, MessagesOut DEF Next, PeersAct

LEMMA InvariantOfNet == Spec => []NetInv
BY InitNet, NetInductive, PTL DEF Spec

(* However functions, peers and sessions interleave, the types hold and    *)
(* every message that Steam handed out has been released exactly once.     *)
THEOREM EveryMessageReleased == Spec => []NothingHeld
<1>1. NetInv => NothingHeld
  BY DEF NetInv
<1> QED
  BY <1>1, InvariantOfNet, PTL

(* Whichever of the two functions reads, in whatever batches: the script   *)
(* gets the messages of a connection in order, none twice, none skipped.   *)
THEOREM MessagesInOrderOnce == Spec => []ReceivedInOrderOnce
<1>1. ASSUME NetInv, NEW c \in Conns PROVE IsPrefix(received[c], arrived[c])
  <2>1. received[c] \in Seq(Messages)
    BY <1>1 DEF NetInv, NothingHeld, TypeOK
  <2>2. PICK rest \in Seq(Messages) : received[c] \o rest = arrived[c]
    BY <1>1 DEF NetInv, NothingSkipped
  <2>3. /\ Len(arrived[c]) = Len(received[c]) + Len(rest)
        /\ \A i \in 1..Len(received[c]) : arrived[c][i] = received[c][i]
    BY <2>1, <2>2, ConcatProperties
  <2>4. Len(received[c]) <= Len(arrived[c])
    BY <2>1, <2>3
  <2>5. SubSeq(received[c], 1, Len(received[c])) = SubSeq(arrived[c], 1, Len(received[c]))
    BY <2>1, <2>3
  <2> QED
    BY <2>4, <2>5 DEF IsPrefix
<1>2. NetInv => ReceivedInOrderOnce
  BY <1>1 DEF NetInv, NothingSkipped, ReceivedInOrderOnce, Open
<1> QED
  BY <1>2, InvariantOfNet, PTL

(* On a connection that is up, every message sent as reliable has reached  *)
(* the peer or still will, in order, whatever the network loses.           *)
THEOREM ReliableMessagesArrive == Spec => []ReliableArrives
<1>1. ASSUME NetInv, NEW c \in Conns, state[c] = "connected"
      PROVE  LET reached == peerGot[c] \o [i \in DOMAIN wire[c] |-> wire[c][i].num]
                 reliable == {num \in DOMAIN asked[c] : asked[c][num]}
             IN /\ reliable \subseteq ToSet(reached)
                /\ \A i, j \in DOMAIN reached :
                     i < j /\ {reached[i], reached[j]} \subseteq reliable
                       => reached[i] < reached[j]
  <2> DEFINE g == peerGot[c]
             w == wire[c]
             a == asked[c]
             nums == [i \in DOMAIN w |-> w[i].num]
             reached == g \o nums
  <2>1. /\ g \in Seq(Nat \ {0}) /\ w \in Seq(Sent) /\ a \in Seq(BOOLEAN)
        /\ InOrder(w, a, g) /\ Complete(w, a, g)
    BY <1>1, WireTypes DEF NetInv, SentIsKept
  <2>2. /\ Len(w) \in Nat /\ Len(g) \in Nat /\ DOMAIN w = 1..Len(w) /\ DOMAIN a = 1..Len(a)
        /\ \A i \in 1..Len(w) : w[i].num \in Nat \ {0}
    BY <2>1, InOrderRanges, LenProperties DEF Sent
  <2>3. /\ nums \in Seq(Nat \ {0}) /\ Len(nums) = Len(w)
        /\ \A i \in 1..Len(w) : nums[i] = w[i].num
    BY <2>2
  <2> HIDE DEF g, w, a, nums
  <2>4. /\ DOMAIN reached = 1..(Len(g) + Len(w))
        /\ \A i \in 1..(Len(g) + Len(w)) :
             reached[i] = IF i <= Len(g) THEN g[i] ELSE w[i - Len(g)].num
    <3>1. /\ reached \in Seq(Nat \ {0}) /\ Len(reached) = Len(g) + Len(nums)
          /\ \A i \in 1..Len(g) + Len(nums) :
               reached[i] = IF i <= Len(g) THEN g[i] ELSE nums[i - Len(g)]
      BY <2>1, <2>3, ConcatProperties
    <3>2. \A i \in 1..(Len(g) + Len(w)) : ~(i <= Len(g)) => i - Len(g) \in 1..Len(w)
      BY <2>2
    <3>3. DOMAIN reached = 1..Len(reached)
      BY <3>1, LenProperties
    <3> QED
      BY <2>3, <3>1, <3>2, <3>3
  <2> HIDE DEF reached
  <2>5. ASSUME NEW num \in 1..Len(a), a[num] PROVE \E i \in DOMAIN reached : reached[i] = num
    <3>1. ASSUME NEW i \in 1..Len(g), g[i] = num
          PROVE  \E k \in DOMAIN reached : reached[k] = num
      <4>1. i \in 1..(Len(g) + Len(w)) /\ i <= Len(g)
        BY <2>2
      <4> QED
        BY <2>4, <3>1, <4>1
    <3>2. ASSUME NEW i \in 1..Len(w), w[i].num = num
          PROVE  \E k \in DOMAIN reached : reached[k] = num
      <4>1. /\ Len(g) + i \in 1..(Len(g) + Len(w)) /\ ~(Len(g) + i <= Len(g))
            /\ (Len(g) + i) - Len(g) = i
        BY <2>2
      <4> QED
        BY <2>4, <3>2, <4>1
    <3> QED
      BY <2>1, <2>5, <3>1, <3>2 DEF Complete
  <2>6. ASSUME NEW i \in DOMAIN reached, NEW j \in DOMAIN reached, i < j
        PROVE  reached[i] < reached[j]
    <3>1. CASE i <= Len(g) /\ j <= Len(g)
      <4>1. i \in 1..Len(g) /\ j \in 1..Len(g) /\ reached[i] = g[i] /\ reached[j] = g[j]
        BY <2>2, <2>4, <3>1
      <4> QED
        BY <2>1, <2>6, <4>1 DEF InOrder
    <3>2. CASE i <= Len(g) /\ j > Len(g)
      <4>1. /\ i \in 1..Len(g) /\ j - Len(g) \in 1..Len(w)
            /\ reached[i] = g[i] /\ reached[j] = w[j - Len(g)].num
        BY <2>2, <2>4, <3>2
      <4> QED
        BY <2>1, <4>1 DEF InOrder
    <3>3. CASE i > Len(g) /\ j > Len(g)
      <4>1. /\ i - Len(g) \in 1..Len(w) /\ j - Len(g) \in 1..Len(w)
            /\ i - Len(g) < j - Len(g)
            /\ reached[i] = w[i - Len(g)].num /\ reached[j] = w[j - Len(g)].num
        BY <2>2, <2>4, <2>6, <3>3
      <4> QED
        BY <2>1, <4>1 DEF InOrder
    <3> QED
      BY <2>2, <2>4, <2>6, <3>1, <3>2, <3>3
  <2> QED
    BY <2>2, <2>5, <2>6 DEF ToSet, a, g, w, nums, reached
<1>2. NetInv => ReliableArrives
  BY <1>1 DEF ReliableArrives
<1> QED
  BY <1>2, InvariantOfNet, PTL

=============================================================================
