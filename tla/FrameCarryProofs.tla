-------------------------- MODULE FrameCarryProofs --------------------------
(***************************************************************************)
(* FrameCarry for every pair of frame sizes, every queue and every cut of  *)
(* the stream into packets: types, channels, transforms.                   *)
(***************************************************************************)
EXTENDS FrameCarry, TLAPS

USE FormatAssumption, BoundAssumption

-----------------------------------------------------------------------------
(* Arithmetic of whole frames of b bytes. *)

LEMMA Division ==
  ASSUME NEW b \in Nat \ {0}, NEW x \in Nat
  PROVE  /\ x \div b \in Nat /\ x % b \in 0..(b - 1)
         /\ x = (x \div b) * b + (x % b)
         /\ (x \div b) * b \in Nat /\ (x \div b) * b <= x
OBVIOUS

\* Quotient and rest are unique.
LEMMA RestOf ==
  ASSUME NEW b \in Nat \ {0}, NEW q \in Nat, NEW r \in 0..(b - 1)
  PROVE  (q * b + r) % b = r /\ (q * b + r) \div b = q
<1> DEFINE x == q * b + r
           d == x \div b
           m == x % b
<1>1. q * b \in Nat /\ x \in Nat
  BY SMT
<1>2. d \in Nat /\ m \in 0..(b - 1) /\ x = d * b + m
  BY <1>1, Division
<1> HIDE DEF d, m
<1>3. CASE d < q
  <2>1. q - d \in Nat /\ q - d >= 1 /\ (q - d) * b = q * b - d * b
    BY <1>2, <1>3, SMT
  <2>2. (q - d) * b >= b
    BY <2>1, SMT
  <2> QED
    BY <1>1, <1>2, <2>1, <2>2, SMT
<1>4. CASE d > q
  <2>1. d - q \in Nat /\ d - q >= 1 /\ (d - q) * b = d * b - q * b
    BY <1>2, <1>4, SMT
  <2>2. (d - q) * b >= b
    BY <2>1, SMT
  <2> QED
    BY <1>1, <1>2, <2>1, <2>2, SMT
<1>5. CASE d = q
  <2>1. m = r
    BY <1>1, <1>2, <1>5, SMT
  <2> QED
    BY <1>5, <2>1 DEF d, m
<1> QED
  BY <1>2, <1>3, <1>4, <1>5

\* Whole frames before a byte do not change its place.
LEMMA SamePlace ==
  ASSUME NEW b \in Nat \ {0}, NEW q \in Nat, NEW x \in Nat
  PROVE  (q * b + x) % b = x % b
<1>1. /\ x \div b \in Nat /\ x % b \in 0..(b - 1)
      /\ x = (x \div b) * b + (x % b)
  BY Division
<1>2. q * b + x = (q + (x \div b)) * b + (x % b)
  <2> DEFINE d == x \div b
             r == x % b
  <2> HIDE DEF d, r
  <2>1. d \in Nat /\ r \in Nat /\ x = d * b + r
    BY <1>1 DEF d, r
  <2>2. (q + d) * b = q * b + d * b
    BY <2>1, SMT
  <2>3. q * b \in Nat /\ d * b \in Nat
    BY <2>1, SMT
  <2>4. q * b + x = (q + d) * b + r
    BY <2>1, <2>2, <2>3, SMT
  <2> QED
    BY <2>4 DEF d, r
<1> DEFINE e == q + (x \div b)
           m == x % b
<1>3. e \in Nat /\ m \in 0..(b - 1) /\ q * b + x = e * b + m
  BY <1>1, <1>2
<1> HIDE DEF e, m
<1>4. (q * b + x) % b = m
  BY <1>3, RestOf
<1> QED
  BY <1>4 DEF m

\* The k-th of the whole frames of x bytes lies within them.
LEMMA FrameWithin ==
  ASSUME NEW b \in Nat \ {0}, NEW x \in Nat, NEW k \in 1..(x \div b)
  PROVE  /\ (k - 1) * b \in Nat /\ k * b \in Nat
         /\ k * b = (k - 1) * b + b /\ k * b <= x
<1> DEFINE d == x \div b
<1>1. d \in Nat /\ d * b <= x
  BY Division
<1> HIDE DEF d
<1>2. k \in 1..d
  BY DEF d
<1>3. (d - k) * b = d * b - k * b /\ (d - k) * b >= 0
  BY <1>1, <1>2, SMT
<1>4. (k - 1) * b = k * b - b /\ (k - 1) * b >= 0 /\ k * b \in Nat
  BY <1>1, <1>2, SMT
<1> QED
  BY <1>1, <1>3, <1>4, SMT

\* A table is a sequence.
LEMMA TableIsSeq ==
  ASSUME NEW S, NEW n \in Nat, NEW g \in [1..n -> S]
  PROVE  g \in Seq(S) /\ Len(g) = n
OBVIOUS

\* A piece of a sequence.
LEMMA PieceOf ==
  ASSUME NEW w \in Seq(Nat), NEW a \in Nat, NEW n \in Nat, a + n <= Len(w)
  PROVE  /\ SubSeq(w, a + 1, a + n) \in Seq(Nat) /\ Len(SubSeq(w, a + 1, a + n)) = n
         /\ \A i \in 1..n : a + i \in 1..Len(w) /\ SubSeq(w, a + 1, a + n)[i] = w[a + i]
<1>1. \A i \in (a + 1)..(a + n) : w[i] \in Nat
  OBVIOUS
<1>2. SubSeq(w, a + 1, a + n) = [i \in 1..n |-> w[i + (a + 1) - 1]]
  OBVIOUS
<1>3. \A i \in 1..n : i + (a + 1) - 1 = a + i /\ a + i \in 1..Len(w)
  OBVIOUS
<1>4. [i \in 1..n |-> w[i + (a + 1) - 1]] \in [1..n -> Nat]
  BY <1>1, <1>3
<1> QED
  BY <1>2, <1>3, <1>4, TableIsSeq

-----------------------------------------------------------------------------
(* Conversion of one frame. *)

Sizes(f) == f.src \in Nat \ {0} /\ f.dst \in Nat \ {0} /\ f.dsd \in BOOLEAN

LEMMA FormatSizes == \A f \in Formats : Sizes(f)
BY DEF Sizes

LEMMA PlaceWithin ==
  ASSUME fmt \in Formats, NEW j \in 1..fmt.dst
  PROVE  Place(j) \in 0..(fmt.src - 1)
<1>1. CASE packs
  <2>1. 3 * fmt.src = 4 * fmt.dst
    BY <1>1 DEF packs
  <2>2. fmt.src \in Nat /\ fmt.dst \in Nat
    OBVIOUS
  <2> QED
    BY <1>1, <2>1, <2>2 DEF Place
<1>2. CASE ~packs
  BY <1>2 DEF packs, Place
<1> QED
  BY <1>1, <1>2

LEMMA FrameConverted ==
  ASSUME fmt \in Formats, flags \in Transforms, NEW f \in Seq(Nat), Len(f) = fmt.src
  PROVE  /\ Converted(f) \in [bytes : Seq(Nat), by : Transforms]
         /\ Len(Converted(f).bytes) = fmt.dst
         /\ Converted(f).by = IF fmt.dsd THEN flags ELSE Plain
         /\ \A j \in 1..fmt.dst : Converted(f).bytes[j] = f[Place(j) + 1]
<1>1. \A j \in 1..fmt.dst : Place(j) + 1 \in 1..Len(f)
  BY PlaceWithin
<1>2. CASE packs
  <2>a. \A j \in 1..fmt.dst : 4 * ((j - 1) \div 3) + ((j - 1) % 3) + 1 = Place(j) + 1
    BY <1>2, SMTT(30) DEF Place
  <2>0. Packed(f) = [j \in 1..fmt.dst |-> f[Place(j) + 1]]
    BY <2>a DEF Packed
  <2>1. Converted(f).bytes = [j \in 1..fmt.dst |-> f[Place(j) + 1]]
    BY <1>2, <2>0 DEF Converted
  <2> DEFINE g == [j \in 1..fmt.dst |-> f[Place(j) + 1]]
  <2>2. g \in [1..fmt.dst -> Nat] /\ fmt.dst \in Nat
    BY <1>1
  <2> HIDE DEF g
  <2>4. g \in Seq(Nat) /\ Len(g) = fmt.dst
    BY <2>2, TableIsSeq
  <2>3. Converted(f).bytes \in Seq(Nat) /\ Len(Converted(f).bytes) = fmt.dst
    BY <2>1, <2>4 DEF g
  <2> QED
    BY <2>1, <2>3 DEF Converted
<1>3. CASE ~packs
  <2>1. Converted(f).bytes = f /\ fmt.dst = fmt.src
    BY <1>3 DEF Converted, packs
  <2>2. \A j \in 1..fmt.dst : Place(j) + 1 = j
    BY <1>3 DEF Place
  <2> QED
    BY <1>3, <2>1, <2>2 DEF Converted
<1> QED
  BY <1>2, <1>3

(* The whole frames of a run of bytes. *)
LEMMA FramesConverted ==
  ASSUME fmt \in Formats, flags \in Transforms, NEW w \in Seq(Nat)
  PROVE  /\ Frames(w) \in Seq([bytes : Seq(Nat), by : Transforms])
         /\ \A k \in 1..Len(Frames(w)) :
              /\ k \in 1..(Len(w) \div fmt.src)
              /\ Frames(w)[k].by = IF fmt.dsd THEN flags ELSE Plain
              /\ Len(Frames(w)[k].bytes) = fmt.dst
              /\ \A j \in 1..fmt.dst :
                   /\ (k - 1) * fmt.src + Place(j) + 1 \in 1..Len(w)
                   /\ Frames(w)[k].bytes[j] = w[(k - 1) * fmt.src + Place(j) + 1]
<1> DEFINE m == Len(w) \div fmt.src
           Piece(k) == SubSeq(w, (k - 1) * fmt.src + 1, k * fmt.src)
<1>0. fmt.src \in Nat \ {0} /\ Len(w) \in Nat
  OBVIOUS
<1>1. fmt.src \in Nat \ {0} /\ Len(w) \in Nat /\ m \in Nat
  BY <1>0, Division
<1>2. ASSUME NEW k \in 1..m
      PROVE  /\ Piece(k) \in Seq(Nat) /\ Len(Piece(k)) = fmt.src
             /\ \A i \in 1..fmt.src : /\ (k - 1) * fmt.src + i \in 1..Len(w)
                                      /\ Piece(k)[i] = w[(k - 1) * fmt.src + i]
  <2> DEFINE a == (k - 1) * fmt.src
             z == k * fmt.src
  <2>1. a \in Nat /\ z \in Nat /\ z = a + fmt.src /\ z <= Len(w)
    BY <1>1, FrameWithin
  <2> HIDE DEF a, z
  <2>2. /\ SubSeq(w, a + 1, z) \in Seq(Nat) /\ Len(SubSeq(w, a + 1, z)) = fmt.src
        /\ \A i \in 1..fmt.src : a + i \in 1..Len(w) /\ SubSeq(w, a + 1, z)[i] = w[a + i]
    <3>1. /\ SubSeq(w, a + 1, a + fmt.src) \in Seq(Nat)
          /\ Len(SubSeq(w, a + 1, a + fmt.src)) = fmt.src
          /\ \A i \in 1..fmt.src : /\ a + i \in 1..Len(w)
                                   /\ SubSeq(w, a + 1, a + fmt.src)[i] = w[a + i]
      <4> DEFINE n == fmt.src
      <4>1. n \in Nat /\ a + n <= Len(w) /\ a \in Nat
        BY <1>1, <2>1
      <4> HIDE DEF n
      <4>2. /\ SubSeq(w, a + 1, a + n) \in Seq(Nat)
            /\ Len(SubSeq(w, a + 1, a + n)) = n
            /\ \A i \in 1..n : /\ a + i \in 1..Len(w)
                               /\ SubSeq(w, a + 1, a + n)[i] = w[a + i]
        BY <4>1, PieceOf
      <4> QED
        BY <4>2 DEF n
    <3> QED
      BY <2>1, <3>1
  <2> QED
    BY <2>2 DEF a, z
<1>3. Frames(w) = [k \in 1..m |-> Converted(Piece(k))]
  BY DEF Frames
<1> HIDE DEF m, Piece
<1>4. \A k \in 1..m : Converted(Piece(k)) \in [bytes : Seq(Nat), by : Transforms]
  BY <1>2, FrameConverted
<1>5. Frames(w) \in Seq([bytes : Seq(Nat), by : Transforms]) /\ Len(Frames(w)) = m
  BY <1>1, <1>3, <1>4
<1>6. ASSUME NEW k \in 1..m
      PROVE  /\ Frames(w)[k].by = IF fmt.dsd THEN flags ELSE Plain
             /\ Len(Frames(w)[k].bytes) = fmt.dst
             /\ \A j \in 1..fmt.dst :
                   /\ (k - 1) * fmt.src + Place(j) + 1 \in 1..Len(w)
                   /\ Frames(w)[k].bytes[j] = w[(k - 1) * fmt.src + Place(j) + 1]
  <2>1. Frames(w)[k] = Converted(Piece(k))
    BY <1>3
  <2>2. /\ Converted(Piece(k)).by = IF fmt.dsd THEN flags ELSE Plain
        /\ Len(Converted(Piece(k)).bytes) = fmt.dst
        /\ \A j \in 1..fmt.dst : Converted(Piece(k)).bytes[j] = Piece(k)[Place(j) + 1]
    BY <1>2, FrameConverted
  <2>3. ASSUME NEW j \in 1..fmt.dst
        PROVE  /\ (k - 1) * fmt.src + Place(j) + 1 \in 1..Len(w)
               /\ Frames(w)[k].bytes[j] = w[(k - 1) * fmt.src + Place(j) + 1]
    <3> DEFINE p == Place(j)
               a == (k - 1) * fmt.src
    <3>1. p \in Nat /\ p + 1 \in 1..fmt.src
      BY PlaceWithin
    <3>2. a \in Nat
      BY <1>1, FrameWithin DEF m
    <3>3. a + (p + 1) \in 1..Len(w) /\ Piece(k)[p + 1] = w[a + (p + 1)]
      BY <1>2, <3>1
    <3> HIDE DEF p, a
    <3>4. a + (p + 1) = a + p + 1
      BY <3>1, <3>2
    <3>5. Frames(w)[k].bytes[j] = Piece(k)[p + 1]
      BY <2>1, <2>2 DEF p
    <3>6. a + p + 1 \in 1..Len(w) /\ Frames(w)[k].bytes[j] = w[a + p + 1]
      BY <3>3, <3>4, <3>5
    <3> QED
      BY <3>6 DEF a, p
  <2> QED
    BY <2>1, <2>2, <2>3
<1> QED
  BY <1>5, <1>6 DEF m

-----------------------------------------------------------------------------
(* One packet: the run of bytes w that is cut into frames is the carried    *)
(* ones and those after them, and what is left is carried on.               *)

LEMMA Offered ==
  ASSUME pos \in Nat, NEW n \in Nat
  PROVE  /\ NextBytes(n) \in Seq(Nat) /\ Len(NextBytes(n)) = n
         /\ \A i \in 1..n : NextBytes(n)[i] = pos + i - 1
<1>1. \A i \in 1..n : pos + i - 1 \in Nat
  OBVIOUS
<1>2. NextBytes(n) \in [1..n -> Nat] /\ \A i \in 1..n : NextBytes(n)[i] = pos + i - 1
  BY <1>1 DEF NextBytes
<1> QED
  BY <1>2, TableIsSeq

LEMMA Joined ==
  ASSUME NEW S, NEW s \in Seq(S), NEW t \in Seq(S)
  PROVE  /\ s \o t \in Seq(S) /\ Len(s \o t) = Len(s) + Len(t)
         /\ \A i \in 1..(Len(s) + Len(t)) :
              (s \o t)[i] = IF i <= Len(s) THEN s[i] ELSE t[i - Len(s)]
OBVIOUS

(* The bytes w of the frames and the new tail t, with a packet of n bytes. *)
Cut(w, t, n) ==
  /\ w \in Seq(Nat) /\ t \in Seq(Nat) /\ Len(t) < fmt.src
  /\ Len(w) + Len(t) = Len(carry) + n
  /\ \E q \in Nat : Len(w) = q * fmt.src
  /\ \A i \in 1..Len(w) :
       w[i] = IF i <= Len(carry) THEN carry[i] ELSE pos + (i - Len(carry)) - 1
  /\ \A i \in 1..Len(t) : t[i] = pos + n - Len(t) + i - 1

LEMMA Reassembly ==
  ASSUME fmt \in Formats, carry \in Seq(Nat), Len(carry) < fmt.src, pos \in Nat,
         NEW n \in Nat, WholeFramesAndTail(n)
  PROVE  \E w \in Seq(Nat) : queue' = Pushed(Frames(w)) /\ Cut(w, carry', n)
<1> DEFINE src == fmt.src
           bs == NextBytes(n)
           used == IF carry = <<>> THEN 0 ELSE needed
           first == IF carry = <<>> THEN <<>> ELSE carry \o SubSeq(bs, 1, used)
           m == (n - used) \div src
           whole == m * src
           rest == SubSeq(bs, used + 1, used + whole)
           w == first \o rest
           t == SubSeq(bs, used + whole + 1, n)
<1>1. queue' = Pushed(Frames(w)) /\ carry' = t /\ n >= used
  BY DEF WholeFramesAndTail
<1>2. src \in Nat \ {0}
  OBVIOUS
<1>3. bs \in Seq(Nat) /\ Len(bs) = n /\ \A i \in 1..n : bs[i] = pos + i - 1
  BY Offered
<1>4. /\ used \in Nat
      /\ carry = <<>> => used = 0 /\ Len(carry) = 0
      /\ carry # <<>> => used = src - Len(carry) /\ used > 0
  BY DEF needed
<1> HIDE DEF src, bs, used
<1>5. n - used \in Nat
  BY <1>1, <1>4
<1>6. m \in Nat /\ whole \in Nat /\ whole <= n - used /\ n - used - whole < src
  <2> DEFINE x == n - used
             r == x % src
  <2>1. m = x \div src /\ x \in Nat
    BY <1>5
  <2> HIDE DEF x, m, whole
  <2>2. /\ x \div src \in Nat /\ r \in 0..(src - 1)
        /\ x = (x \div src) * src + r /\ (x \div src) * src \in Nat
    BY <1>2, <2>1, Division
  <2> HIDE DEF r
  <2>3. m \in Nat /\ r \in 0..(src - 1) /\ x = whole + r /\ whole \in Nat
    BY <2>1, <2>2 DEF whole
  <2>4. whole <= x /\ x - whole < src
    BY <1>2, <2>1, <2>3
  <2> QED
    BY <2>3, <2>4 DEF x
<1> HIDE DEF m
<1>7. /\ first \in Seq(Nat) /\ Len(first) = Len(carry) + used
      /\ \A i \in 1..Len(first) :
           first[i] = IF i <= Len(carry) THEN carry[i] ELSE pos + (i - Len(carry)) - 1
  <2>1. CASE carry = <<>>
    BY <1>4, <2>1
  <2>2. CASE carry # <<>>
    <3>1. /\ SubSeq(bs, 0 + 1, 0 + used) \in Seq(Nat) /\ Len(SubSeq(bs, 0 + 1, 0 + used)) = used
          /\ \A i \in 1..used : 0 + i \in 1..Len(bs) /\ SubSeq(bs, 0 + 1, 0 + used)[i] = bs[0 + i]
      BY <1>1, <1>3, <1>4, PieceOf
    <3>2. 0 + 1 = 1 /\ 0 + used = used
      BY <1>4
    <3> DEFINE h == SubSeq(bs, 1, used)
    <3>3. h \in Seq(Nat) /\ Len(h) = used /\ \A i \in 1..used : h[i] = pos + i - 1
      <4> DEFINE g == SubSeq(bs, 0 + 1, 0 + used)
      <4>1. h = g /\ 0 + used = used
        BY <3>2
      <4>2. g \in Seq(Nat) /\ Len(g) = used /\ \A i \in 1..used : 0 + i \in 1..n /\ g[i] = bs[0 + i]
        BY <1>3, <3>1
      <4> HIDE DEF g, h
      <4>3. \A i \in 1..used : g[i] = pos + i - 1
        BY <1>3, <1>4, <4>2
      <4> QED
        BY <4>1, <4>2, <4>3
    <3>4. first = carry \o h
      BY <2>2
    <3> HIDE DEF h, first
    <3>5. /\ carry \o h \in Seq(Nat) /\ Len(carry \o h) = Len(carry) + Len(h)
          /\ \A i \in 1..(Len(carry) + Len(h)) :
                (carry \o h)[i] = IF i <= Len(carry) THEN carry[i] ELSE h[i - Len(carry)]
      BY <3>3, Joined
    <3>6. ASSUME NEW i \in 1..(Len(carry) + used)
          PROVE  first[i] = IF i <= Len(carry) THEN carry[i] ELSE pos + (i - Len(carry)) - 1
      BY <1>4, <3>3, <3>4, <3>5
    <3> QED
      BY <3>3, <3>4, <3>5, <3>6
  <2> QED
    BY <2>1, <2>2
<1> HIDE DEF first
<1>8. /\ rest \in Seq(Nat) /\ Len(rest) = whole
      /\ \A i \in 1..whole : rest[i] = pos + used + i - 1
  <2> HIDE DEF whole
  <2>1. /\ SubSeq(bs, used + 1, used + whole) \in Seq(Nat)
        /\ Len(SubSeq(bs, used + 1, used + whole)) = whole
        /\ \A i \in 1..whole : /\ used + i \in 1..Len(bs)
                               /\ SubSeq(bs, used + 1, used + whole)[i] = bs[used + i]
    BY <1>3, <1>4, <1>6, PieceOf
  <2> QED
    BY <1>3, <1>4, <1>6, <2>1
<1>9. /\ t \in Seq(Nat) /\ Len(t) = n - used - whole
      /\ \A i \in 1..Len(t) : t[i] = pos + n - Len(t) + i - 1
  <2> DEFINE a == used + whole
             d == n - used - whole
  <2>1. a \in Nat /\ d \in Nat /\ a + d = n
    BY <1>4, <1>5, <1>6
  <2>2. t = SubSeq(bs, a + 1, n)
    OBVIOUS
  <2> HIDE DEF a, t
  <2>3. d \in Nat /\ a + d <= Len(bs)
    BY <1>3, <2>1
  <2> HIDE DEF d
  <2>4. /\ SubSeq(bs, a + 1, a + d) \in Seq(Nat) /\ Len(SubSeq(bs, a + 1, a + d)) = d
        /\ \A i \in 1..d : /\ a + i \in 1..Len(bs)
                           /\ SubSeq(bs, a + 1, a + d)[i] = bs[a + i]
    BY <1>3, <2>1, <2>3, PieceOf
  <2>5. t \in Seq(Nat) /\ Len(t) = d /\ \A i \in 1..d : t[i] = bs[a + i] /\ a + i \in 1..n
    BY <1>3, <2>1, <2>2, <2>4
  <2>6. \A i \in 1..d : t[i] = pos + n - d + i - 1
    BY <1>3, <2>1, <2>5
  <2> QED
    BY <2>5, <2>6 DEF d
<1> HIDE DEF rest, t
<1>10. /\ w \in Seq(Nat) /\ Len(w) = Len(carry) + used + whole
       /\ \A i \in 1..Len(w) :
            w[i] = IF i <= Len(carry) THEN carry[i] ELSE pos + (i - Len(carry)) - 1
  <2> HIDE DEF whole
  <2>1. /\ first \o rest \in Seq(Nat) /\ Len(first \o rest) = Len(first) + Len(rest)
        /\ \A i \in 1..(Len(first) + Len(rest)) :
             (first \o rest)[i] = IF i <= Len(first) THEN first[i] ELSE rest[i - Len(first)]
    BY <1>7, <1>8, Joined
  <2> HIDE DEF w
  <2>2. w \in Seq(Nat) /\ Len(w) = Len(carry) + used + whole
    BY <1>7, <1>8, <2>1 DEF w
  <2>3. ASSUME NEW i \in 1..Len(w)
        PROVE  w[i] = IF i <= Len(carry) THEN carry[i] ELSE pos + (i - Len(carry)) - 1
    <3>1. Len(carry) \in Nat /\ i \in Nat
      OBVIOUS
    <3>2. CASE i <= Len(first)
      BY <1>7, <1>8, <2>1, <2>2, <3>1, <3>2 DEF w
    <3>3. CASE i > Len(first)
      <4>1. i - Len(first) \in 1..whole /\ Len(first) = Len(carry) + used
        BY <1>4, <1>6, <1>7, <2>2, <3>1, <3>3
      <4>2. w[i] = rest[i - Len(first)]
        BY <1>7, <1>8, <2>1, <2>2, <3>1, <3>3 DEF w
      <4>3. rest[i - Len(first)] = pos + used + (i - Len(first)) - 1
        BY <1>8, <4>1
      <4> QED
        BY <1>4, <3>1, <3>3, <4>1, <4>2, <4>3
    <3> QED
      BY <1>7, <3>1, <3>2, <3>3
  <2> QED
    BY <2>2, <2>3
<1> HIDE DEF w
<1>11. \E q \in Nat : Len(w) = q * src
  <2>1. CASE carry = <<>>
    BY <1>4, <1>6, <1>10, <2>1
  <2>2. CASE carry # <<>>
    <3>1. (m + 1) * src = m * src + src /\ m + 1 \in Nat
      BY <1>2, <1>6
    <3>2. Len(carry) \in Nat /\ Len(carry) + used = src
      BY <1>2, <1>4, <2>2
    <3>3. Len(w) = (m + 1) * src
      BY <1>2, <1>6, <1>10, <3>1, <3>2
    <3> QED
      BY <3>1, <3>3
  <2> QED
    BY <2>1, <2>2
<1>12. Len(t) < src /\ Len(w) + Len(t) = Len(carry) + n
  <2> HIDE DEF whole
  <2>1. Len(carry) \in Nat
    OBVIOUS
  <2> QED
    BY <1>2, <1>4, <1>6, <1>9, <1>10, <2>1
<1>13. Cut(w, t, n)
  BY <1>9, <1>10, <1>11, <1>12 DEF Cut, src
<1> QED
  BY <1>1, <1>10, <1>13

(* What the queue takes of the new frames, at its end. *)
LEMMA PushedIs ==
  ASSUME NEW S, queue \in Seq(S), Len(queue) <= Cap, NEW fs \in Seq(S)
  PROVE  /\ Pushed(fs) \in Seq(S) /\ Len(Pushed(fs)) <= Cap
         /\ Len(queue) <= Len(Pushed(fs))
         /\ \A i \in 1..Len(queue) : Pushed(fs)[i] = queue[i]
         /\ \A i \in 1..Len(Pushed(fs)) : i > Len(queue) =>
              /\ i - Len(queue) \in 1..Len(fs)
              /\ Pushed(fs)[i] = fs[i - Len(queue)]
<1> DEFINE n == Least(Len(fs), Cap - Len(queue))
           h == SubSeq(fs, 1, n)
<1>1. n \in Nat /\ n <= Len(fs) /\ Len(queue) + n <= Cap /\ Len(queue) \in Nat
  BY DEF Least
<1>2. Pushed(fs) = queue \o h
  BY DEF Pushed
<1> HIDE DEF n
<1>3. h \in Seq(S) /\ Len(h) = n /\ \A i \in 1..n : h[i] = fs[i]
  BY <1>1
<1> HIDE DEF h
<1>4. /\ queue \o h \in Seq(S) /\ Len(queue \o h) = Len(queue) + n
      /\ \A i \in 1..Len(queue) : (queue \o h)[i] = queue[i]
      /\ \A i \in 1..(Len(queue) + n) : i > Len(queue) => (queue \o h)[i] = h[i - Len(queue)]
  <2>1. /\ queue \o h \in Seq(S) /\ Len(queue \o h) = Len(queue) + Len(h)
        /\ \A i \in 1..(Len(queue) + Len(h)) :
             (queue \o h)[i] = IF i <= Len(queue) THEN queue[i] ELSE h[i - Len(queue)]
    BY <1>3, Joined
  <2> QED
    BY <1>1, <1>3, <2>1
<1>5. ASSUME NEW i \in 1..Len(Pushed(fs)), i > Len(queue)
      PROVE  /\ i - Len(queue) \in 1..Len(fs)
             /\ Pushed(fs)[i] = fs[i - Len(queue)]
  <2>1. i - Len(queue) \in 1..n
    BY <1>1, <1>2, <1>4, <1>5
  <2> QED
    BY <1>1, <1>2, <1>3, <1>4, <1>5, <2>1
<1> QED
  BY <1>1, <1>2, <1>4, <1>5

-----------------------------------------------------------------------------
(* The invariant. *)

(* A Sync runs with the transform its sink asks for, and what is queued    *)
(* behind the stale frames went through the one in force.  Frames are      *)
(* stale only after a return to Plain.                                     *)
Tagged ==
  /\ ~fmt.dsd => flags = Plain
  /\ flags # Plain => stale = 0
  /\ sync # "none" => flags = Expected
  /\ \A i \in 1..Len(queue) : queue[i].by = flags <=> i > stale

(* The stream is at a frame boundary but for what is carried, and every    *)
(* byte is at the place in its frame that the sender gave it.              *)
Aligned ==
  lost # "bytes" /\ ~torn =>
    /\ \E q \in Nat : pos = q * fmt.src + Len(carry)
    /\ \A i \in 1..Len(carry) : carry[i] % fmt.src = i - 1
    /\ \A i \in 1..Len(queue) :
         \A j \in 1..fmt.dst : queue[i].bytes[j] % fmt.src = Place(j)

(* Nothing is missing: the carry ends where the stream is, and the queued  *)
(* frames are frames of it, in order, all before what is carried.          *)
Exact ==
  lost = "nothing" /\ ~torn =>
    /\ \A i \in 1..Len(carry) : carry[i] = pos - Len(carry) + i - 1
    /\ \A i \in 1..Len(queue) : \E k \in Nat :
         /\ queue[i].bytes = StreamFrame(k) /\ FrameNumber(queue[i]) = k
         /\ (k + 1) * fmt.src <= pos - Len(carry)
    /\ \A i, j \in 1..Len(queue) :
         i < j => FrameNumber(queue[i]) < FrameNumber(queue[j])

IInv == TypeOK /\ Tagged /\ Aligned /\ Exact

LEMMA InitInv == Init => IInv
<1> SUFFICES ASSUME Init PROVE IInv
  OBVIOUS
<1>1. Len(carry) = 0 /\ Len(queue) = 0 /\ fmt.src \in Nat \ {0} /\ Cap \in Nat
  BY DEF Init
<1>a. TypeOK
  <2>1. carry \in Seq(Nat) /\ queue \in Seq([bytes : Seq(Nat), by : Transforms])
    BY DEF Init
  <2>2. fmt \in Formats /\ flags \in Transforms /\ sink \in Transforms
    BY BoundAssumption DEF Init
  <2>3. Len(carry) < fmt.src /\ Len(queue) <= Cap /\ stale \in 0..Len(queue)
    BY <1>1 DEF Init
  <2> QED
    BY <2>1, <2>2, <2>3 DEF Init, TypeOK
<1>b. Tagged
  BY <1>1 DEF Init, Tagged
<1>c. Exact
  BY <1>1 DEF Init, Exact
<1>2. 0 = 0 * fmt.src + Len(carry)
  BY DEF Init
<1>3. Aligned
  BY <1>1, <1>2 DEF Init, Aligned
<1> QED
  BY <1>a, <1>b, <1>c, <1>3 DEF IInv

LEMMA TailIs ==
  ASSUME NEW S, NEW s \in Seq(S), s # <<>>
  PROVE  /\ Tail(s) \in Seq(S) /\ Len(Tail(s)) = Len(s) - 1
         /\ \A i \in 1..Len(Tail(s)) : i + 1 \in 1..Len(s) /\ Tail(s)[i] = s[i + 1]
OBVIOUS

(* A step that takes frames off the front, or all of them, or none. *)
LEMMA FewerFrames ==
  ASSUME IInv, queue' \in {queue, <<>>} \/ (queue # <<>> /\ queue' = Tail(queue))
  PROVE  /\ queue' \in Seq([bytes : Seq(Nat), by : Transforms]) /\ Len(queue') <= Cap
         /\ \E d \in Nat : \A i \in 1..Len(queue') :
              i + d \in 1..Len(queue) /\ queue'[i] = queue[i + d]
<1>1. queue \in Seq([bytes : Seq(Nat), by : Transforms]) /\ Len(queue) <= Cap /\ Cap \in Nat
  BY DEF IInv, TypeOK
<1>2. CASE queue' = queue
  <2>1. \A i \in 1..Len(queue') : i + 0 \in 1..Len(queue) /\ queue'[i] = queue[i + 0]
    BY <1>1, <1>2
  <2> QED
    BY <1>1, <1>2, <2>1
<1>3. CASE queue' = <<>>
  <2>1. \A i \in 1..Len(queue') : i + 0 \in 1..Len(queue) /\ queue'[i] = queue[i + 0]
    BY <1>3
  <2> QED
    BY <1>1, <1>3, <2>1
<1>4. CASE queue # <<>> /\ queue' = Tail(queue)
  <2> DEFINE S == [bytes : Seq(Nat), by : Transforms]
             n == Len(queue)
             t == Tail(queue)
             m == Len(t)
  <2>1. queue \in Seq(S) /\ n \in Nat /\ n <= Cap /\ queue # <<>> /\ queue' = t
    BY <1>1, <1>4
  <2> HIDE DEF S
  <2>2. t \in Seq(S) /\ m = n - 1 /\ \A i \in 1..m : i + 1 \in 1..n /\ t[i] = queue[i + 1]
    BY <2>1, TailIs
  <2> HIDE DEF n, m, t
  <2>3. m <= Cap
    BY <1>1, <2>1, <2>2
  <2>4. queue' \in Seq(S) /\ Len(queue') = m /\ \A i \in 1..m : queue'[i] = queue[i + 1]
    BY <2>1, <2>2 DEF m
  <2>5. \E d \in Nat : \A i \in 1..m : i + d \in 1..n /\ queue'[i] = queue[i + d]
    BY <2>2, <2>4
  <2> QED
    BY <2>3, <2>4, <2>5 DEF S, n
<1> QED
  BY <1>2, <1>3, <1>4

(* Around a packet: the carry and the place in the stream stay, unless the *)
(* history says otherwise, and no frame comes in.                          *)
LEMMA AroundKeeps ==
  ASSUME IInv, fmt' = fmt, pos' = pos, lost' = lost, ~torn' => ~torn /\ carry' = carry,
         queue' \in {queue, <<>>} \/ (queue # <<>> /\ queue' = Tail(queue))
  PROVE  Aligned' /\ Exact'
<1>1. PICK d \in Nat : \A i \in 1..Len(queue') :
        i + d \in 1..Len(queue) /\ queue'[i] = queue[i + d]
  BY FewerFrames
<1>2. Aligned'
  <2> SUFFICES ASSUME lost # "bytes", ~torn, carry' = carry
               PROVE  /\ \E q \in Nat : pos = q * fmt.src + Len(carry)
                      /\ \A i \in 1..Len(carry) : carry[i] % fmt.src = i - 1
                      /\ \A i \in 1..Len(queue') :
                           \A j \in 1..fmt.dst : queue'[i].bytes[j] % fmt.src = Place(j)
    BY DEF Aligned, Place, packs
  <2> QED
    BY <1>1 DEF IInv, Aligned
<1>3. Exact'
  <2> SUFFICES ASSUME lost = "nothing", ~torn, carry' = carry
               PROVE  /\ \A i \in 1..Len(carry) : carry[i] = pos - Len(carry) + i - 1
                      /\ \A i \in 1..Len(queue') : \E k \in Nat :
                           /\ queue'[i].bytes = StreamFrame(k) /\ FrameNumber(queue'[i]) = k
                           /\ (k + 1) * fmt.src <= pos - Len(carry)
                      /\ \A i, j \in 1..Len(queue') :
                           i < j => FrameNumber(queue'[i]) < FrameNumber(queue'[j])
    <3>1. /\ \A k : StreamFrame(k)' = StreamFrame(k)
          /\ \A i : FrameNumber(queue[i])' = FrameNumber(queue'[i])
      BY DEF FrameNumber, StreamFrame, Place, packs
    <3> QED
      BY <3>1, ZenonT(40) DEF Exact
  <2>1. ASSUME NEW i \in 1..Len(queue'), NEW j \in 1..Len(queue'), i < j
        PROVE  FrameNumber(queue'[i]) < FrameNumber(queue'[j])
    <3>1. i + d < j + d
      BY <2>1
    <3> QED
      BY <1>1, <3>1 DEF IInv, Exact
  <2>2. \A i \in 1..Len(carry) : carry[i] = pos - Len(carry) + i - 1
    BY DEF IInv, Exact
  <2>3. ASSUME NEW i \in 1..Len(queue')
        PROVE  \E k \in Nat : /\ queue'[i].bytes = StreamFrame(k) /\ FrameNumber(queue'[i]) = k
                              /\ (k + 1) * fmt.src <= pos - Len(carry)
    <3>1. i + d \in 1..Len(queue) /\ queue'[i] = queue[i + d]
      BY <1>1
    <3> QED
      BY <3>1, ZenonT(40) DEF IInv, Exact
  <2> QED
    BY <2>1, <2>2, <2>3
<1> QED
  BY <1>2, <1>3

LEMMA TypeAround ==
  ASSUME IInv, fmt' = fmt, pos' = pos, lost' = lost, carry' \in {carry, <<>>},
         torn' \in BOOLEAN, flags' \in Transforms, sink' \in Transforms,
         sync' \in {"none", "open", "paused"}, stale' \in 0..Len(queue'),
         queue' \in {queue, <<>>} \/ (queue # <<>> /\ queue' = Tail(queue))
  PROVE  TypeOK'
<1>1. queue' \in Seq([bytes : Seq(Nat), by : Transforms]) /\ Len(queue') <= Cap
  BY FewerFrames
<1>2. carry' \in Seq(Nat) /\ Len(carry') < fmt.src
  <2>1. CASE carry' = carry
    BY <2>1 DEF IInv, TypeOK
  <2>2. CASE carry' = <<>>
    <3>1. fmt.src > 0 /\ <<>> \in Seq(Nat) /\ Len(<<>>) = 0
      BY DEF IInv, TypeOK
    <3> QED
      BY <2>2, <3>1
  <2> QED
    BY <2>1, <2>2
<1>3. /\ fmt' \in Formats
      /\ pos' \in Nat /\ lost' \in {"nothing", "frames", "bytes"}
  BY DEF IInv, TypeOK
<1> QED
  BY <1>1, <1>2, <1>3 DEF TypeOK

LEMMA InstallKeeps == ASSUME IInv, NEW s \in Transforms, Install(s) PROVE IInv'
<1>1. /\ queue' \in {queue, <<>>} /\ (fmt.dsd /\ s # Plain => queue' = <<>>)
      /\ s = Plain => queue' = queue
  BY DEF Install, Kept
<1>2. /\ flags' = (IF fmt.dsd THEN s ELSE flags) /\ sink' = s /\ fmt' = fmt
      /\ stale' = (IF s # Plain THEN 0 ELSE IF flags # Plain THEN Len(queue) ELSE stale)
      /\ fmt.dsd \/ s = Plain
  BY DEF Install, Negotiable
<1>3. /\ queue \in Seq([bytes : Seq(Nat), by : Transforms]) /\ Len(queue) \in Nat
      /\ stale \in 0..Len(queue) /\ flags \in Transforms
  BY DEF IInv, TypeOK
<1>4. /\ ~fmt.dsd => flags = Plain
      /\ flags # Plain => stale = 0
      /\ \A i \in 1..Len(queue) : queue[i].by = flags <=> i > stale
  BY DEF IInv, Tagged
<1>5. flags' = s /\ Expected' = s
  <2>1. flags' = s
    BY <1>2, <1>4
  <2> QED
    BY <1>2, <2>1 DEF Expected
<1>6. CASE s # Plain
  <2>1. queue' = <<>> /\ stale' = 0 /\ Len(queue') = 0 /\ fmt.dsd
    BY <1>1, <1>2, <1>6
  <2>2. Tagged'
    BY <1>2, <1>5, <2>1 DEF Tagged
  <2>3. stale' \in 0..Len(queue')
    BY <2>1
  <2> QED
    BY <1>1, <1>5, <1>2, <2>2, <2>3, AroundKeeps, TypeAround DEF Install, IInv, TypeOK
<1>7. CASE s = Plain
  <2>1. queue' = queue /\ stale' = (IF flags # Plain THEN Len(queue) ELSE stale)
    BY <1>1, <1>2, <1>7
  <2>2. stale' \in 0..Len(queue')
    BY <1>3, <2>1
  <2>3. \A i \in 1..Len(queue) : queue[i].by = Plain <=> i > stale'
    <3>1. CASE flags = Plain
      BY <1>4, <2>1, <3>1
    <3>2. CASE flags # Plain
      <4>1. stale = 0 /\ stale' = Len(queue)
        BY <1>4, <2>1, <3>2
      <4> QED
        BY <1>3, <1>4, <3>2, <4>1
    <3> QED
      BY <3>1, <3>2
  <2>4. Tagged'
    BY <1>2, <1>5, <1>7, <2>1, <2>3 DEF Tagged
  <2> QED
    BY <1>1, <1>5, <1>2, <2>2, <2>4, AroundKeeps, TypeAround DEF Install, IInv, TypeOK
<1> QED
  BY <1>6, <1>7

LEMMA OthersKeep == IInv /\ (Teardown \/ Pause \/ Resume \/ Drain) => IInv'
<1> SUFFICES ASSUME IInv, Teardown \/ Pause \/ Resume \/ Drain PROVE IInv'
  OBVIOUS
<1>1. /\ fmt' = fmt /\ pos' = pos /\ lost' = lost /\ flags' = flags /\ sink' = sink
      /\ carry' \in {carry, <<>>} /\ torn' \in BOOLEAN
      /\ sync' \in {"none", "open", "paused"}
      /\ sync' # "none" => sync # "none"
  BY DEF IInv, TypeOK, Teardown, Pause, Resume, Drain
<1>2. ~torn' => ~torn /\ carry' = carry
  BY DEF Teardown, Pause, Resume, Drain
<1>3. \/ queue' = queue /\ stale' = stale
      \/ queue' = <<>> /\ stale' = 0
      \/ /\ queue # <<>> /\ queue' = Tail(queue)
         /\ stale' = IF stale = 0 THEN 0 ELSE stale - 1
  BY DEF Teardown, Pause, Resume, Drain
<1>4. queue' \in {queue, <<>>} \/ (queue # <<>> /\ queue' = Tail(queue))
  BY <1>3
<1>5. /\ queue \in Seq([bytes : Seq(Nat), by : Transforms]) /\ Len(queue) \in Nat
      /\ stale \in 0..Len(queue)
      /\ \A i \in 1..Len(queue) : queue[i].by = flags <=> i > stale
  BY DEF IInv, TypeOK, Tagged
<1>6. /\ stale' \in 0..Len(queue') /\ (stale = 0 => stale' = 0)
      /\ \A i \in 1..Len(queue') : queue'[i].by = flags <=> i > stale'
  <2>1. CASE queue' = queue /\ stale' = stale
    BY <1>5, <2>1
  <2>2. CASE queue' = <<>> /\ stale' = 0
    BY <2>2
  <2>3. CASE /\ queue # <<>> /\ queue' = Tail(queue)
             /\ stale' = IF stale = 0 THEN 0 ELSE stale - 1
    <3> DEFINE S == [bytes : Seq(Nat), by : Transforms]
               n == Len(queue)
               m == Len(queue')
    <3>1. queue \in Seq(S) /\ n \in Nat /\ stale \in 0..n
      BY <1>5
    <3> HIDE DEF S
    <3>2. m = n - 1 /\ \A i \in 1..m : i + 1 \in 1..n /\ queue'[i] = queue[i + 1]
      BY <2>3, <3>1, TailIs
    <3>3. n # 0
      BY <2>3, <3>1
    <3> HIDE DEF n, m
    <3>4. stale' \in 0..m
      BY <2>3, <3>1, <3>2, <3>3
    <3>5. ASSUME NEW i \in 1..m PROVE queue'[i].by = flags <=> i > stale'
      <4>1. queue[i + 1].by = flags <=> i + 1 > stale
        BY <1>5, <3>2 DEF n
      <4>2. i + 1 > stale <=> i > stale'
        BY <2>3, <3>1
      <4> QED
        BY <3>2, <4>1, <4>2, Zenon
    <3> QED
      BY <2>3, <3>4, <3>5 DEF m
  <2> QED
    BY <1>3, <2>1, <2>2, <2>3
<1>7. TypeOK'
  BY <1>1, <1>4, <1>6, TypeAround DEF IInv, TypeOK
<1>8. Aligned' /\ Exact'
  BY <1>1, <1>2, <1>4, AroundKeeps
<1>9. Tagged'
  <2>1. Expected' = Expected
    BY <1>1 DEF Expected
  <2> QED
    BY <1>1, <1>6, <2>1 DEF IInv, Tagged
<1> QED
  BY <1>7, <1>8, <1>9 DEF IInv

LEMMA FormatChangeKeeps == ASSUME IInv, NEW f \in Formats, FormatChange(f) PROVE IInv'
<1>1. /\ fmt' \in Formats /\ carry' = <<>> /\ queue' = <<>> /\ flags' = Plain
      /\ sync' = "none" /\ sink' = Plain /\ pos' = 0
      /\ lost' = "nothing" /\ torn' = FALSE /\ stale' = 0
  BY DEF FormatChange, FormatChangeDropsTail
<1>2. Len(carry') = 0 /\ Len(queue') = 0 /\ fmt'.src \in Nat \ {0} /\ Cap \in Nat
  BY <1>1
<1>3. TypeOK'
  <2>1. carry' \in Seq(Nat) /\ queue' \in Seq([bytes : Seq(Nat), by : Transforms])
    BY <1>1
  <2>2. Len(carry') < fmt'.src /\ Len(queue') <= Cap
    BY <1>2
  <2>3. flags' \in Transforms /\ sink' \in Transforms /\ pos' \in Nat /\ stale' \in 0..Len(queue')
    BY <1>1, <1>2, BoundAssumption
  <2> QED
    BY <1>1, <2>1, <2>2, <2>3 DEF TypeOK
<1>4. Tagged'
  BY <1>1, <1>2 DEF Tagged
<1>5. Aligned'
  <2>1. 0 = 0 * fmt'.src + Len(carry')
    BY <1>2
  <2> QED
    BY <1>1, <1>2, <2>1 DEF Aligned
<1>6. Exact'
  BY <1>1, <1>2 DEF Exact
<1> QED
  BY <1>3, <1>4, <1>5, <1>6 DEF IInv

(* A lost packet of whole frames moves the stream by whole frames. *)
LEMMA LosePacketKeeps == ASSUME IInv, NEW n \in Nat, LosePacket(n) PROVE IInv'
<1>1. /\ pos' = pos + n /\ fmt' = fmt /\ carry' = carry /\ queue' = queue
      /\ flags' = flags /\ sync' = sync /\ sink' = sink /\ torn' = torn /\ stale' = stale
      /\ lost' \in {"frames", "bytes"}
      /\ lost' # "bytes" => lost # "bytes" /\ n % fmt.src = 0
  BY DEF LosePacket, Sent
<1>2. TypeOK' /\ Tagged' /\ Exact'
  BY <1>1 DEF IInv, TypeOK, Tagged, Expected, Exact
<1>3. Aligned'
  <2> SUFFICES ASSUME lost # "bytes", n % fmt.src = 0, ~torn
               PROVE  \E q \in Nat : pos + n = q * fmt.src + Len(carry)
    BY <1>1 DEF IInv, Aligned, Place, packs
  <2> DEFINE src == fmt.src
             e == n \div src
             c == Len(carry)
  <2>1. src \in Nat \ {0} /\ c \in Nat
    BY DEF IInv, TypeOK
  <2>2. n % src = 0
    OBVIOUS
  <2>3. PICK q \in Nat : pos = q * src + c
    BY DEF IInv, Aligned
  <2> HIDE DEF src, c
  <2>4. e \in Nat /\ n = e * src + (n % src)
    BY <2>1, Division
  <2> HIDE DEF e
  <2>5. (q + e) * src = q * src + e * src /\ q * src \in Nat /\ e * src \in Nat
    BY <2>1, <2>4, SMT
  <2>6. pos + n = (q + e) * src + c
    BY <2>1, <2>2, <2>3, <2>4, <2>5, SMT
  <2>7. q + e \in Nat
    BY <2>4
  <2> QED
    BY <2>6, <2>7 DEF src, c
<1> QED
  BY <1>2, <1>3 DEF IInv

LEMMA StillPartialKeeps ==
  ASSUME IInv, NEW n \in Nat, Packet(n), StillPartial(n)
  PROVE  IInv'
<1>1. /\ pos' = pos + n /\ fmt' = fmt /\ carry' = carry \o NextBytes(n)
      /\ queue' = queue /\ flags' = flags /\ sync' = sync /\ sink' = sink
      /\ lost' = lost /\ torn' = torn /\ stale' = stale /\ n < fmt.src - Len(carry)
  BY DEF Packet, Sent, StillPartial, needed
<1> DEFINE bs == NextBytes(n)
           c == Len(carry)
<1>2. /\ carry \in Seq(Nat) /\ c \in Nat /\ fmt.src \in Nat \ {0} /\ pos \in Nat
      /\ c < fmt.src
  BY DEF IInv, TypeOK
<1>3. bs \in Seq(Nat) /\ Len(bs) = n /\ \A i \in 1..n : bs[i] = pos + i - 1
  BY <1>2, Offered
<1>a. carry' = carry \o bs /\ n < fmt.src - c
  BY <1>1
<1> HIDE DEF bs, c
<1>b. /\ carry \o bs \in Seq(Nat) /\ Len(carry \o bs) = Len(carry) + Len(bs)
      /\ \A i \in 1..(Len(carry) + Len(bs)) :
           (carry \o bs)[i] = IF i <= Len(carry) THEN carry[i] ELSE bs[i - Len(carry)]
  BY <1>2, <1>3, Joined
<1>4. /\ carry' \in Seq(Nat) /\ Len(carry') = c + n
      /\ \A i \in 1..(c + n) : carry'[i] = IF i <= c THEN carry[i] ELSE bs[i - c]
  BY <1>a, <1>b, <1>3 DEF c
<1>5. TypeOK'
  <2>1. Len(carry') < fmt.src /\ pos + n \in Nat
    BY <1>a, <1>2, <1>4
  <2> QED
    BY <1>1, <1>4, <2>1 DEF IInv, TypeOK
<1>6. Tagged'
  BY <1>1 DEF IInv, Tagged, Expected
<1>7. Aligned'
  <2> SUFFICES ASSUME lost # "bytes", ~torn
               PROVE  /\ \E q \in Nat : pos + n = q * fmt.src + Len(carry')
                      /\ \A i \in 1..Len(carry') : carry'[i] % fmt.src = i - 1
    BY <1>1 DEF IInv, Aligned, Place, packs
  <2>1. PICK q \in Nat : pos = q * fmt.src + c
    BY DEF IInv, Aligned, c
  <2> DEFINE src == fmt.src
             y == q * src
  <2>a. src \in Nat \ {0} /\ y \in Nat /\ pos = y + c /\ c + n < src
    BY <1>a, <1>2, <2>1
  <2> HIDE DEF src, y
  <2>2. pos + n = y + Len(carry')
    BY <1>2, <1>4, <2>a
  <2>3. ASSUME NEW i \in 1..Len(carry')
        PROVE  carry'[i] % fmt.src = i - 1
    <3>1. CASE i <= c
      <4>1. i \in 1..c /\ carry'[i] = carry[i]
        BY <1>2, <1>4, <2>3, <3>1
      <4> QED
        BY <4>1 DEF IInv, Aligned, c
    <3>2. CASE i > c
      <4>1. i - 1 \in 0..(src - 1)
        BY <1>2, <1>4, <2>a, <2>3
      <4>2. i - c \in 1..n /\ carry'[i] = bs[i - c]
        BY <1>2, <1>4, <2>3, <3>2
      <4>3. carry'[i] = pos + (i - c) - 1
        BY <1>3, <4>2
      <4>4. carry'[i] = y + (i - 1)
        BY <1>2, <1>4, <2>a, <2>3, <4>3
      <4>5. (q * src + (i - 1)) % src = i - 1
        BY <2>a, <4>1, RestOf
      <4> QED
        BY <4>4, <4>5 DEF src, y
    <3> QED
      BY <1>2, <3>1, <3>2
  <2> QED
    BY <2>2, <2>3 DEF src, y
<1>8. Exact'
  <2>a. pos' - Len(carry') = pos - Len(carry)
    BY <1>1, <1>2, <1>4 DEF c
  <2> SUFFICES ASSUME lost = "nothing", ~torn
               PROVE  /\ \A i \in 1..Len(carry') :
                           carry'[i] = pos' - Len(carry') + i - 1
                      /\ \A i \in 1..Len(queue) : \E k \in Nat :
                           /\ queue[i].bytes = StreamFrame(k) /\ FrameNumber(queue[i]) = k
                           /\ (k + 1) * fmt.src <= pos' - Len(carry')
                      /\ \A i, j \in 1..Len(queue) :
                           i < j => FrameNumber(queue[i]) < FrameNumber(queue[j])
    <3>1. fmt' = fmt /\ queue' = queue /\ lost' = lost /\ torn' = torn
      BY <1>1
    <3>2. /\ \A k : StreamFrame(k)' = StreamFrame(k)
          /\ \A i : FrameNumber(queue[i])' = FrameNumber(queue[i])
      BY <3>1 DEF FrameNumber, StreamFrame, Place, packs
    <3> QED
      BY <3>1, <3>2, Zenon DEF Exact
  <2>1. \A i \in 1..c : carry[i] = pos - c + i - 1
    BY DEF IInv, Exact, c
  <2>2. ASSUME NEW i \in 1..Len(carry')
        PROVE  carry'[i] = pos' - Len(carry') + i - 1
    <3>0. pos' - Len(carry') = pos - c /\ i \in Nat
      BY <1>4, <2>a, <2>2 DEF c
    <3>1. CASE i <= c
      <4>1. i \in 1..c /\ carry'[i] = carry[i]
        BY <1>2, <1>4, <2>2, <3>1
      <4> QED
        BY <2>1, <3>0, <4>1
    <3>2. CASE i > c
      <4>1. i - c \in 1..n /\ carry'[i] = bs[i - c]
        BY <1>2, <1>4, <2>2, <3>2
      <4>2. carry'[i] = pos - c + i - 1
        BY <1>2, <1>3, <3>0, <4>1
      <4> QED
        BY <3>0, <4>2
    <3> QED
      BY <1>2, <3>0, <3>1, <3>2
  <2> QED
    BY <2>a, <2>2 DEF IInv, Exact
<1> QED
  BY <1>5, <1>6, <1>7, <1>8 DEF IInv

(* The new frames and the new tail. *)
LEMMA WholeFramesKeep ==
  ASSUME IInv, NEW n \in Nat, Packet(n), WholeFramesAndTail(n)
  PROVE  IInv'
<1> DEFINE src == fmt.src
           dst == fmt.dst
           c == Len(carry)
           l == Len(queue)
<1>1. /\ pos' = pos + n /\ fmt' = fmt /\ flags' = flags /\ sync' = sync
      /\ sink' = sink /\ lost' = lost /\ torn' = torn /\ stale' = stale
  BY DEF Packet, Sent
<1>2. /\ carry \in Seq(Nat) /\ c \in Nat /\ src \in Nat \ {0} /\ dst \in Nat \ {0}
      /\ pos \in Nat /\ c < src /\ l \in Nat /\ fmt \in Formats /\ flags \in Transforms
      /\ queue \in Seq([bytes : Seq(Nat), by : Transforms]) /\ Len(queue) <= Cap
  BY DEF IInv, TypeOK
<1>3. PICK w \in Seq(Nat) : queue' = Pushed(Frames(w)) /\ Cut(w, carry', n)
  BY <1>2, Reassembly
<1> DEFINE fs == Frames(w)
           t == carry'
           lw == Len(w)
           lt == Len(t)
<1>4. /\ t \in Seq(Nat) /\ lt \in Nat /\ lw \in Nat /\ lt < src /\ lw + lt = c + n
      /\ \A i \in 1..lw : w[i] = IF i <= c THEN carry[i] ELSE pos + (i - c) - 1
      /\ \A i \in 1..lt : t[i] = pos + n - lt + i - 1
  BY <1>3 DEF Cut
<1>5. PICK m \in Nat : lw = m * src
  BY <1>3 DEF Cut
<1>6. /\ fs \in Seq([bytes : Seq(Nat), by : Transforms])
      /\ \A k \in 1..Len(fs) :
           /\ k \in 1..(lw \div src)
           /\ fs[k].by = IF fmt.dsd THEN flags ELSE Plain
           /\ Len(fs[k].bytes) = dst
           /\ \A j \in 1..dst :
                /\ (k - 1) * src + Place(j) + 1 \in 1..lw
                /\ fs[k].bytes[j] = w[(k - 1) * src + Place(j) + 1]
  BY <1>2, FramesConverted
<1> HIDE DEF fs
<1>7. /\ Pushed(fs) \in Seq([bytes : Seq(Nat), by : Transforms]) /\ Len(Pushed(fs)) <= Cap
      /\ l <= Len(Pushed(fs))
      /\ \A i \in 1..l : Pushed(fs)[i] = queue[i]
      /\ \A i \in 1..Len(Pushed(fs)) : i > l =>
           /\ i - l \in 1..Len(fs)
           /\ Pushed(fs)[i] = fs[i - l]
  BY <1>2, <1>6, PushedIs
<1>8. queue' = Pushed(fs)
  BY <1>3 DEF fs
<1>9. /\ queue' \in Seq([bytes : Seq(Nat), by : Transforms]) /\ Len(queue') <= Cap
      /\ l <= Len(queue') /\ Len(queue') \in Nat
      /\ \A i \in 1..l : queue'[i] = queue[i]
      /\ \A i \in 1..Len(queue') : i > l =>
           i - l \in 1..Len(fs) /\ queue'[i] = fs[i - l]
  BY <1>7, <1>8, SMTT(30)
<1> HIDE DEF src, dst, c, l, lw, lt, t
<1>10. TypeOK'
  <2>1. carry' \in Seq(Nat) /\ Len(carry') < fmt.src
    BY <1>4 DEF t, lt, src
  <2>2. pos + n \in Nat
    BY <1>2
  <2>3. stale \in 0..Len(queue')
    <3>1. stale \in 0..l
      BY DEF IInv, TypeOK, l
    <3> QED
      BY <1>2, <1>9, <3>1
  <2> QED
    BY <1>1, <1>9, <2>1, <2>2, <2>3 DEF IInv, TypeOK
<1>11. Tagged'
  <2>0. (IF fmt.dsd THEN flags ELSE Plain) = flags /\ stale \in 0..l
    BY DEF IInv, TypeOK, Tagged, l
  <2>1. ASSUME NEW i \in 1..Len(queue')
        PROVE  queue'[i].by = flags <=> i > stale
    <3>1. CASE i <= l
      <4>1. i \in 1..l /\ queue'[i] = queue[i]
        BY <1>2, <1>9, <3>1
      <4> QED
        BY <4>1 DEF IInv, Tagged, l
    <3>2. CASE i > l
      <4> DEFINE k == i - l
      <4>1. k \in 1..Len(fs) /\ queue'[i] = fs[k]
        BY <1>9, <3>2
      <4>2. i > stale
        BY <1>2, <2>0, <3>2
      <4> HIDE DEF k
      <4>3. fs[k].by = flags
        BY <1>6, <2>0, <4>1
      <4> QED
        BY <4>1, <4>2, <4>3, Zenon
    <3> QED
      BY <1>2, <3>1, <3>2
  <2> QED
    BY <1>1, <2>1 DEF IInv, Tagged, Expected
\* Where a byte of a new frame comes from.
<1>12. ASSUME NEW k \in 1..Len(fs), NEW j \in 1..dst
       PROVE  /\ Place(j) \in 0..(src - 1) /\ (k - 1) * src \in Nat
              /\ k * src = (k - 1) * src + src /\ k * src <= lw
              /\ (k - 1) * src + Place(j) + 1 \in 1..lw
              /\ fs[k].bytes[j] = w[(k - 1) * src + Place(j) + 1]
  <2>1. Place(j) \in 0..(src - 1)
    BY <1>2, PlaceWithin DEF src, dst
  <2>2. k \in 1..(lw \div src)
    BY <1>6
  <2>3. (k - 1) * src \in Nat /\ k * src = (k - 1) * src + src /\ k * src <= lw
    BY <1>2, <1>4, <2>2, FrameWithin
  <2>4. /\ (k - 1) * src + Place(j) + 1 \in 1..lw
        /\ fs[k].bytes[j] = w[(k - 1) * src + Place(j) + 1]
    BY <1>6
  <2> QED
    BY <2>1, <2>3, <2>4
\* The first byte of the run, when the stream is at a frame boundary there.
<1> DEFINE Boundary(q) == pos = q * src + c
<1>13. ASSUME NEW q \in Nat, Boundary(q)
       PROVE  /\ pos' = (q + m) * src + lt /\ (q + m) * src = q * src + lw
              /\ q * src \in Nat /\ q + m \in Nat
              /\ \A i \in 1..lt : t[i] = (q + m) * src + (i - 1)
              /\ \A x \in Nat : x + 1 \in 1..lw /\ x + 1 > c => w[x + 1] = q * src + x
  <2> DEFINE y == q * src
             z == m * src
  <2>1. y \in Nat /\ z \in Nat /\ (q + m) * src = y + z /\ lw = z
    BY <1>2, <1>5, SMT
  <2>2. pos = y + c /\ pos' = pos + n
    BY <1>1, <1>13
  <2> HIDE DEF y, z
  <2>3. pos' = y + z + lt /\ pos + n - lt = y + z
    BY <1>2, <1>4, <2>1, <2>2
  <2>4. \A i \in 1..lt : t[i] = y + z + (i - 1)
    BY <1>2, <1>4, <2>1, <2>2, <2>3
  <2>5. \A x \in Nat : x + 1 \in 1..lw /\ x + 1 > c => w[x + 1] = y + x
    BY <1>2, <1>4, <2>1, <2>2
  <2> QED
    BY <2>1, <2>3, <2>4, <2>5 DEF y
<1> HIDE DEF Boundary
<1>14. Aligned'
  <2> SUFFICES ASSUME lost # "bytes", ~torn
               PROVE  /\ \E q \in Nat : pos' = q * src + lt
                      /\ \A i \in 1..lt : t[i] % src = i - 1
                      /\ \A i \in 1..Len(queue') :
                           \A j \in 1..dst : queue'[i].bytes[j] % src = Place(j)
    BY <1>1 DEF Aligned, Place, packs, src, dst, t, lt
  <2>1. PICK q \in Nat : Boundary(q)
    BY DEF IInv, Aligned, Boundary, src, c
  <2>2. ASSUME NEW i \in 1..lt
        PROVE  t[i] % src = i - 1
    <3> DEFINE e == q + m
               r == i - 1
    <3>1. r \in 0..(src - 1) /\ e \in Nat /\ t[i] = e * src + r
      BY <1>2, <1>4, <1>13, <2>1
    <3> HIDE DEF e, r
    <3>2. (e * src + r) % src = r
      BY <1>2, <3>1, RestOf
    <3> QED
      BY <3>1, <3>2 DEF r
  <2>3. ASSUME NEW i \in 1..Len(queue'), NEW j \in 1..dst
        PROVE  queue'[i].bytes[j] % src = Place(j)
    <3>1. CASE i <= l
      <4>1. i \in 1..l /\ queue'[i] = queue[i]
        BY <1>2, <1>9, <3>1
      <4> QED
        BY <4>1 DEF IInv, Aligned, l, src, dst
    <3>2. CASE i > l
      <4> DEFINE k == i - l
                 p == Place(j)
                 x == (k - 1) * src + p
      <4>1. k \in 1..Len(fs) /\ queue'[i] = fs[k]
        BY <1>9, <3>2
      <4>2. p \in 0..(src - 1) /\ x + 1 \in 1..lw /\ fs[k].bytes[j] = w[x + 1]
        BY <1>12, <4>1
      <4> DEFINE a == k - 1
      <4> HIDE DEF k
      <4>3. a \in Nat /\ a * src \in Nat
        BY <1>12, <4>1
      <4> HIDE DEF p, a
      <4>4. x % src = p /\ x \in Nat
        <5>1. x = a * src + p
          BY DEF a
        <5>2. (a * src + p) % src = p
          BY <1>2, <4>2, <4>3, RestOf
        <5>3. a * src + p \in Nat
          <6> DEFINE u == a * src
          <6>1. u \in Nat /\ p \in Nat
            BY <1>2, <4>2, <4>3
          <6> HIDE DEF u
          <6>2. u + p \in Nat
            BY <6>1
          <6> QED
            BY <6>2 DEF u
        <5> QED
          BY <5>1, <5>2, <5>3, Zenon
      <4> HIDE DEF x
      <4>5. CASE x + 1 <= c
        <5>1. w[x + 1] = carry[x + 1] /\ x + 1 \in 1..c
          BY <1>4, <4>2, <4>4, <4>5
        <5>2. carry[x + 1] % src = x
          BY <4>4, <5>1 DEF IInv, Aligned, c, src
        <5>3. x \in 0..(src - 1) /\ 0 * src + x = x
          BY <1>2, <4>4, <4>5
        <5>4. x % src = x
          BY <1>2, <5>3, RestOf
        <5> QED
          BY <4>1, <4>2, <4>4, <5>1, <5>2, <5>4 DEF p
      <4>6. CASE x + 1 > c
        <5>1. w[x + 1] = q * src + x
          BY <1>13, <2>1, <4>2, <4>4, <4>6
        <5>2. (q * src + x) % src = x % src
          BY <1>2, <4>4, SamePlace
        <5> QED
          BY <4>1, <4>2, <4>4, <5>1, <5>2 DEF p
      <4> QED
        BY <1>2, <4>4, <4>5, <4>6
    <3> QED
      BY <1>2, <3>1, <3>2
  <2>4. q + m \in Nat /\ pos' = (q + m) * src + lt
    BY <1>13, <2>1
  <2> QED
    BY <2>2, <2>3, <2>4
<1>15. Exact'
  <2> DEFINE Number(f) == f.bytes[1] \div src
             Frame(k) == [j \in 1..dst |-> k * src + Place(j)]
  <2> SUFFICES ASSUME lost = "nothing", ~torn
               PROVE  /\ \A i \in 1..lt : t[i] = pos' - lt + i - 1
                      /\ \A i \in 1..Len(queue') : \E k \in Nat :
                           /\ queue'[i].bytes = Frame(k) /\ Number(queue'[i]) = k
                           /\ (k + 1) * src <= pos' - lt
                      /\ \A i, j \in 1..Len(queue') :
                           i < j => Number(queue'[i]) < Number(queue'[j])
    BY <1>1 DEF Exact, FrameNumber, StreamFrame, Place, packs, src, dst, t, lt
  <2>1. /\ \A i \in 1..c : carry[i] = pos - c + i - 1
        /\ \A i \in 1..l : \E k \in Nat :
             /\ queue[i].bytes = Frame(k) /\ Number(queue[i]) = k
             /\ (k + 1) * src <= pos - c
        /\ \A i, j \in 1..l : i < j => Number(queue[i]) < Number(queue[j])
    BY DEF IInv, Exact, FrameNumber, StreamFrame, src, dst, c, l
  <2>2. PICK q \in Nat : Boundary(q)
    BY DEF IInv, Aligned, Boundary, src, c
  <2>3. /\ pos' = (q + m) * src + lt /\ (q + m) * src = q * src + lw
        /\ q * src \in Nat /\ pos - c = q * src /\ pos' - lt = q * src + lw
        /\ \A i \in 1..lt : t[i] = (q + m) * src + (i - 1)
        /\ \A x \in Nat : x + 1 \in 1..lw /\ x + 1 > c => w[x + 1] = q * src + x
    <3> DEFINE y == q * src
               z == (q + m) * src
    <3>1. /\ pos' = z + lt /\ z = y + lw /\ y \in Nat
          /\ \A i \in 1..lt : t[i] = z + (i - 1)
          /\ \A x \in Nat : x + 1 \in 1..lw /\ x + 1 > c => w[x + 1] = y + x
      BY <1>13, <2>2
    <3>2. pos = y + c
      BY <2>2 DEF Boundary
    <3> HIDE DEF y, z
    <3>3. pos - c = y /\ pos' - lt = y + lw
      BY <1>2, <1>4, <3>1, <3>2
    <3> QED
      BY <3>1, <3>3 DEF y, z
  <2>4. \A x \in Nat : x + 1 \in 1..lw => w[x + 1] = q * src + x
    <3> DEFINE y == q * src
    <3>1. /\ y \in Nat /\ pos - c = y
          /\ \A x \in Nat : x + 1 \in 1..lw /\ x + 1 > c => w[x + 1] = y + x
      BY <2>3
    <3> HIDE DEF y
    <3>2. ASSUME NEW x \in Nat, x + 1 \in 1..lw, x + 1 <= c
          PROVE  w[x + 1] = y + x
      <4>1. w[x + 1] = carry[x + 1] /\ x + 1 \in 1..c
        BY <1>2, <1>4, <3>2
      <4> QED
        BY <1>2, <2>1, <3>1, <4>1
    <3> QED
      BY <1>2, <3>1, <3>2 DEF y
  \* The k-th of the new frames.
  <2>5. ASSUME NEW k \in 1..Len(fs)
        PROVE  /\ fs[k].bytes = Frame(q + k - 1) /\ Number(fs[k]) = q + k - 1
               /\ (q + k - 1 + 1) * src <= pos' - lt
    <3> DEFINE r == q + k - 1
               y == q * src
               u == (k - 1) * src
               v == r * src
    <3>1. r \in Nat /\ k - 1 \in Nat /\ 1 \in 1..dst
      BY <1>2
    <3>2. u \in Nat /\ k * src = u + src /\ k * src <= lw
      BY <1>12, <3>1
    <3>3. v = y + u /\ (r + 1) * src = y + k * src
      BY <1>2, SMT
    <3>4. y \in Nat /\ pos' - lt = y + lw /\ \A x \in Nat : x + 1 \in 1..lw => w[x + 1] = y + x
      BY <2>3, <2>4
    <3>5. (r + 1) * src <= pos' - lt
      <4> DEFINE e == k * src
                 g == (r + 1) * src
      <4>1. u \in Nat /\ e = u + src /\ e <= lw /\ g = y + e
        BY <3>2, <3>3
      <4> HIDE DEF e, g, u, y
      <4>2. g <= pos' - lt
        BY <1>2, <1>4, <3>4, <4>1
      <4> QED
        BY <4>2 DEF g
    <3>6. ASSUME NEW j \in 1..dst
          PROVE  fs[k].bytes[j] = v + Place(j) /\ Place(j) \in 0..(src - 1)
      <4> DEFINE p == Place(j)
      <4>1. p \in 0..(src - 1) /\ u + p + 1 \in 1..lw /\ fs[k].bytes[j] = w[u + p + 1]
        BY <1>12
      <4> HIDE DEF p, u, v, y
      <4>2. u + p \in Nat
        BY <1>2, <3>2, <4>1
      <4>3. w[u + p + 1] = y + (u + p)
        BY <3>4, <4>1, <4>2
      <4>4. fs[k].bytes[j] = v + p
        BY <1>2, <3>2, <3>3, <3>4, <4>1, <4>3
      <4> QED
        BY <4>1, <4>4 DEF p
    <3>7. fs[k].bytes \in Seq(Nat) /\ Len(fs[k].bytes) = dst
      <4> DEFINE S == [bytes : Seq(Nat), by : Transforms]
      <4>0. fs \in Seq(S)
        BY <1>6
      <4> HIDE DEF S
      <4>1. fs[k] \in S
        BY <4>0
      <4>2. Len(fs[k].bytes) = dst
        BY <1>6
      <4> QED
        BY <4>1, <4>2 DEF S
    <3>8. fs[k].bytes = Frame(r)
      <4> DEFINE b == fs[k].bytes
                 g == Frame(r)
      <4>1. b \in Seq(Nat) /\ Len(b) = dst /\ \A j \in 1..dst : b[j] = v + Place(j)
        BY <3>6, <3>7
      <4> HIDE DEF b
      <4>2. b = [j \in 1..dst |-> b[j]]
        BY <1>2, <4>1
      <4> QED
        BY <4>1, <4>2 DEF b
    <3>9. Number(fs[k]) = r
      <4>1. Place(1) = 0
        BY DEF Place
      <4>2. fs[k].bytes[1] = v + 0 /\ 0 \in 0..(src - 1)
        BY <3>1, <3>6, <4>1
      <4>3. (r * src + 0) \div src = r
        BY <1>2, <3>1, <4>2, RestOf
      <4> QED
        BY <4>2, <4>3
    <3> QED
      BY <3>5, <3>8, <3>9, Zenon
  <2> HIDE DEF Number, Frame
  <2>6. ASSUME NEW i \in 1..lt
        PROVE  t[i] = pos' - lt + i - 1
    <3> DEFINE z == (q + m) * src
               y == q * src
    <3>1. t[i] = z + (i - 1) /\ pos' - lt = y + lw /\ z = y + lw /\ y \in Nat
      BY <2>3
    <3> HIDE DEF y, z
    <3> QED
      BY <1>4, <3>1
  <2>7. pos - c <= pos' - lt /\ pos - c = q * src
    <3> DEFINE y == q * src
    <3>1. y \in Nat /\ pos - c = y /\ pos' - lt = y + lw
      BY <2>3
    <3> HIDE DEF y
    <3> QED
      BY <1>4, <3>1 DEF y
  <2>8. ASSUME NEW i \in 1..Len(queue')
        PROVE  \E k \in Nat : /\ queue'[i].bytes = Frame(k) /\ Number(queue'[i]) = k
                              /\ (k + 1) * src <= pos' - lt
    <3>1. CASE i <= l
      <4>1. i \in 1..l /\ queue'[i] = queue[i]
        BY <1>2, <1>9, <3>1
      <4>2. PICK k \in Nat : /\ queue[i].bytes = Frame(k) /\ Number(queue[i]) = k
                             /\ (k + 1) * src <= pos - c
        BY <2>1, <4>1
      <4>3. (k + 1) * src <= pos' - lt
        <5> DEFINE e == (k + 1) * src
                   y == q * src
        <5>1. e \in Nat /\ e <= pos - c /\ pos - c = y /\ y \in Nat /\ pos' - lt = y + lw
          BY <1>2, <2>3, <4>2
        <5> HIDE DEF e, y
        <5> QED
          BY <1>4, <5>1 DEF e
      <4> QED
        BY <4>1, <4>2, <4>3
    <3>2. CASE i > l
      <4> DEFINE k == i - l
      <4>1. k \in 1..Len(fs) /\ queue'[i] = fs[k]
        BY <1>9, <3>2
      <4> HIDE DEF k
      <4>2. /\ fs[k].bytes = Frame(q + k - 1) /\ Number(fs[k]) = q + k - 1
            /\ (q + k - 1 + 1) * src <= pos' - lt
        BY <2>5, <4>1
      <4>3. q + k - 1 \in Nat
        BY <4>1
      <4> QED
        BY <4>1, <4>2, <4>3
    <3> QED
      BY <1>2, <3>1, <3>2
  <2>9. ASSUME NEW i \in 1..Len(queue'), NEW j \in 1..Len(queue'), i < j
        PROVE  Number(queue'[i]) < Number(queue'[j])
    <3>1. CASE j <= l
      <4>0. i \in 1..l /\ j \in 1..l
        BY <1>2, <1>9, <2>9, <3>1
      <4>1. queue'[i] = queue[i] /\ queue'[j] = queue[j]
        BY <1>9, <4>0
      <4> QED
        BY <2>1, <2>9, <4>0, <4>1
    <3>2. CASE i > l
      <4>0. i > l /\ j > l
        BY <1>2, <1>9, <2>9, <3>2
      <4>1. /\ i - l \in 1..Len(fs) /\ queue'[i] = fs[i - l]
            /\ j - l \in 1..Len(fs) /\ queue'[j] = fs[j - l]
        BY <1>9, <4>0
      <4>2. Number(queue'[i]) = q + (i - l) - 1 /\ Number(queue'[j]) = q + (j - l) - 1
        BY <2>5, <4>1
      <4> QED
        BY <1>2, <2>9, <4>2
    <3>3. CASE i <= l /\ j > l
      <4> DEFINE k == j - l
      <4>0. i \in 1..l /\ queue'[i] = queue[i]
        BY <1>2, <1>9, <3>3
      <4>1. k \in 1..Len(fs) /\ queue'[j] = fs[k]
        BY <1>2, <1>9, <3>3
      <4> HIDE DEF k
      <4>2. PICK o \in Nat : Number(queue[i]) = o /\ (o + 1) * src <= pos - c
        BY <2>1, <4>0
      <4>3. (o + 1) * src <= q * src
        BY <2>7, <4>2
      <4>4. o + 1 <= q
        <5> SUFFICES ASSUME o + 1 > q PROVE FALSE
          OBVIOUS
        <5>1. o + 1 - q \in Nat /\ o + 1 - q >= 1 /\ (o + 1 - q) * src = (o + 1) * src - q * src
          BY <1>2, SMT
        <5>2. (o + 1 - q) * src >= src
          BY <1>2, <5>1, SMT
        <5> QED
          BY <1>2, <4>3, <5>1, <5>2, SMT
      <4>5. Number(fs[k]) = q + k - 1
        BY <2>5, <4>1
      <4>6. o < q + k - 1
        BY <4>1, <4>4
      <4> QED
        BY <4>0, <4>1, <4>2, <4>5, <4>6
    <3> QED
      BY <1>2, <3>1, <3>2, <3>3
  <2> QED
    BY <2>6, <2>8, <2>9
<1> QED
  BY <1>10, <1>11, <1>14, <1>15 DEF IInv

-----------------------------------------------------------------------------
(* Results. *)

LEMMA NextInv == IInv /\ [Next]_vars => IInv'
<1> SUFFICES ASSUME IInv, [Next]_vars PROVE IInv'
  OBVIOUS
<1>1. CASE UNCHANGED vars
  <2>1. /\ fmt' = fmt /\ carry' = carry /\ queue' = queue /\ flags' = flags /\ sync' = sync
        /\ sink' = sink /\ pos' = pos /\ lost' = lost /\ torn' = torn /\ stale' = stale
    BY <1>1 DEF vars
  <2>2. TypeOK' /\ Tagged'
    BY <2>1 DEF IInv, TypeOK, Tagged, Expected
  <2>3. Aligned' /\ Exact'
    BY <2>1, AroundKeeps
  <2> QED
    BY <2>2, <2>3 DEF IInv
<1>2. ASSUME NEW n \in 1..MaxPacket, Packet(n) PROVE IInv'
  BY <1>2, StillPartialKeeps, WholeFramesKeep DEF Packet
<1>3. ASSUME NEW n \in 1..MaxPacket, LosePacket(n) PROVE IInv'
  BY <1>3, LosePacketKeeps
<1>4. ASSUME NEW f \in Formats, FormatChange(f) PROVE IInv'
  BY <1>4, FormatChangeKeeps
<1>5. ASSUME NEW s \in Transforms, Install(s) PROVE IInv'
  BY <1>5, InstallKeeps
<1>6. CASE Teardown \/ Pause \/ Resume \/ Drain
  BY <1>6, OthersKeep
<1> QED
  BY <1>1, <1>2, <1>3, <1>4, <1>5, <1>6 DEF Next

(* The strengthening holds in every reachable state. *)
THEOREM Invariant == Spec => []IInv
BY InitInv, NextInv, PTL DEF Spec

(* Less than a frame is carried, after any number of packets, losses and   *)
(* format changes, and the queue never holds more than its capacity.       *)
THEOREM TypeCorrect == Spec => []TypeOK
<1>1. IInv => TypeOK
  BY DEF IInv
<1> QED
  BY <1>1, Invariant, PTL

(* finalize_sync_open_on_receiver(): a Sync that plays finds only frames   *)
(* that went through the transform its sink has negotiated in this open,   *)
(* but for those at the head of the queue that a reopen has kept when it   *)
(* went back to no transform; and those, all of them, went through another.*)
THEOREM RightTransformHolds == Spec => []RightTransform
<1>1. IInv => RightTransform
  <2> SUFFICES ASSUME IInv, sync = "open", NEW i \in DOMAIN queue
               PROVE  queue[i].by = Expected <=> i > stale
    BY Zenon DEF RightTransform
  <2>1. i \in 1..Len(queue)
    BY DEF IInv, TypeOK
  <2>2. flags = Expected
    BY DEF IInv, Tagged
  <2> QED
    BY <2>1, <2>2 DEF IInv, Tagged
<1> QED
  BY <1>1, Invariant, PTL

(* diretta_output_send(): a lost packet of whole frames moves no channel,  *)
(* for any frame size and any cut of the stream into packets.              *)
THEOREM InPlaceHolds == Spec => []InPlaceAfterLoss
<1>1. IInv => InPlaceAfterLoss
  <2> SUFFICES ASSUME IInv, lost # "bytes", ~torn, NEW i \in DOMAIN queue
               PROVE  [j \in 1..fmt.dst |-> queue[i].bytes[j] % fmt.src] = StreamFrame(0)
    BY DEF InPlaceAfterLoss, InPlace
  <2>1. i \in 1..Len(queue)
    BY DEF IInv, TypeOK
  <2>2. \A j \in 1..fmt.dst : queue[i].bytes[j] % fmt.src = Place(j)
    BY <2>1 DEF IInv, Aligned
  <2>3. \A j \in 1..fmt.dst : 0 * fmt.src + Place(j) = Place(j)
    <3>1. \A j \in 1..fmt.dst : Place(j) \in Nat /\ fmt.src \in Nat
      BY PlaceWithin DEF IInv, TypeOK
    <3> QED
      BY <3>1
  <2> QED
    BY <2>2, <2>3 DEF StreamFrame
<1> QED
  BY <1>1, Invariant, PTL

(* diretta_output_send(): while nothing is lost, what is queued and what   *)
(* is carried are the stream, however it was cut into packets.             *)
THEOREM LosslessHolds == Spec => []Lossless
<1>1. IInv => Lossless
  <2> SUFFICES ASSUME IInv, lost = "nothing", ~torn
               PROVE  /\ \A i \in DOMAIN queue :
                           queue[i].bytes = StreamFrame(FrameNumber(queue[i]))
                      /\ \A i \in 2..Len(queue) :
                           FrameNumber(queue[i]) > FrameNumber(queue[i - 1])
                      /\ carry = [i \in 1..(pos % fmt.src) |->
                                    pos - (pos % fmt.src) + i - 1]
    BY DEF Lossless
  <2>1. /\ queue \in Seq([bytes : Seq(Nat), by : Transforms]) /\ DOMAIN queue = 1..Len(queue)
        /\ Len(queue) \in Nat
    BY DEF IInv, TypeOK
  <2>2. \A i \in DOMAIN queue : /\ queue[i].bytes = StreamFrame(FrameNumber(queue[i]))
                                /\ FrameNumber(queue[i]) \in Nat
    BY <2>1 DEF IInv, Exact
  <2>3. ASSUME NEW i \in 2..Len(queue)
        PROVE  FrameNumber(queue[i]) > FrameNumber(queue[i - 1])
    <3>1. i - 1 \in 1..Len(queue) /\ i \in 1..Len(queue) /\ i - 1 < i
      BY <2>1
    <3>2. FrameNumber(queue[i - 1]) < FrameNumber(queue[i])
      BY <3>1 DEF IInv, Exact
    <3> QED
      BY <2>1, <2>2, <3>1, <3>2
  <2>4. carry = [i \in 1..(pos % fmt.src) |-> pos - (pos % fmt.src) + i - 1]
    <3> DEFINE src == fmt.src
               c == Len(carry)
    <3>1. /\ src \in Nat \ {0} /\ c \in Nat /\ c < src /\ carry \in Seq(Nat)
      BY DEF IInv, TypeOK
    <3>2. PICK q \in Nat : pos = q * src + c
      BY DEF IInv, Aligned
    <3>3. \A i \in 1..c : carry[i] = pos - c + i - 1
      BY DEF IInv, Exact
    <3>4. carry = [i \in 1..c |-> carry[i]]
      BY <3>1
    <3> HIDE DEF src, c
    <3>5. c \in 0..(src - 1) /\ (q * src + c) % src = c
      BY <3>1, RestOf
    <3>6. carry = [i \in 1..c |-> pos - c + i - 1]
      BY <3>3, <3>4
    <3> QED
      BY <3>2, <3>5, <3>6 DEF src
  <2> QED
    BY <2>2, <2>3, <2>4
<1> QED
  BY <1>1, Invariant, PTL
=============================================================================
