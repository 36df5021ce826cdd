---------------------------- MODULE SerialProofs ----------------------------
(***************************************************************************)
(* Every field of a header reads back as it was written, for bytes of any  *)
(* size and all values of the fields' types.                               *)
(***************************************************************************)
EXTENDS Serial, TLAPS

---------------------------------------------------------------------------
(* Division *)

(* x has the quotient q and the remainder r by P. *)
Divides(x, P, q, r) == q \in Int /\ r \in 0..(P - 1) /\ x = P * q + r

LEMMA DivMod ==
  ASSUME NEW x \in Int, NEW P \in Nat \ {0}
  PROVE  Divides(x, P, x \div P, x % P)
<1>1. PICK q : q = x \div P
  OBVIOUS
<1>2. PICK r : r = x % P
  OBVIOUS
<1>3. q \in Int /\ r \in 0..(P - 1) /\ x = P * q + r
  BY <1>1, <1>2
<1>4. Divides(x, P, q, r)
  BY <1>3 DEF Divides
<1>. QED
  BY <1>1, <1>2, <1>4, Zenon

LEMMA DivModUnique ==
  ASSUME NEW x \in Int, NEW P \in Nat \ {0}, NEW q, NEW r, Divides(x, P, q, r)
  PROVE  x \div P = q /\ x % P = r
BY DEF Divides

LEMMA ProductPositive ==
  ASSUME NEW a \in Nat \ {0}, NEW b \in Nat \ {0}
  PROVE  a * b \in Nat \ {0}
<1>1. a * b \in Int /\ a * b > 0
  BY Z3
<1>. QED
  BY <1>1

(* The weights of bytes *)

LEMMA WeightDef ==
  Weight = [k \in 0..8 |-> IF k = 0 THEN 1 ELSE Base * Weight[k - 1]]
<1>1. PICK g1 : g1 = Base * 1
  OBVIOUS
<1>2. PICK g2 : g2 = Base * g1
  OBVIOUS
<1>3. PICK g3 : g3 = Base * g2
  OBVIOUS
<1>4. PICK g4 : g4 = Base * g3
  OBVIOUS
<1>5. PICK g5 : g5 = Base * g4
  OBVIOUS
<1>6. PICK g6 : g6 = Base * g5
  OBVIOUS
<1>7. PICK g7 : g7 = Base * g6
  OBVIOUS
<1>8. PICK g8 : g8 = Base * g7
  OBVIOUS
<1>. DEFINE Values(k) ==
              CASE k = 0 -> 1  [] k = 1 -> g1 [] k = 2 -> g2 [] k = 3 -> g3
                [] k = 4 -> g4 [] k = 5 -> g5 [] k = 6 -> g6 [] k = 7 -> g7
                [] k = 8 -> g8
<1>9. PICK g : g = [k \in 0..8 |-> Values(k)]
  OBVIOUS
<1>10. g = [k \in 0..8 |-> IF k = 0 THEN 1 ELSE Base * g[k - 1]]
  <2>1. ASSUME NEW k \in 0..8
        PROVE  Values(k) = IF k = 0 THEN 1 ELSE Base * g[k - 1]
    BY <1>1, <1>2, <1>3, <1>4, <1>5, <1>6, <1>7, <1>8, <1>9
  <2>. QED
    BY <1>9, <2>1
<1>. QED
  BY <1>10 DEF Weight

LEMMA WeightNext ==
  /\ Weight[0] = 1
  /\ \A k \in 0..7 : Weight[k + 1] = Base * Weight[k]
<1>1. Weight[0] = 1
  BY WeightDef
<1>2. ASSUME NEW k \in 0..7
      PROVE  Weight[k + 1] = Base * Weight[k]
  <2>1. k + 1 \in 0..8 /\ k + 1 # 0 /\ (k + 1) - 1 = k
    OBVIOUS
  <2>. QED
    BY <2>1, WeightDef
<1>. QED
  BY <1>1, <1>2

LEMMA WeightType == \A k \in 0..8 : Weight[k] \in Nat \ {0}
<1>1. ASSUME NEW k \in 0..7, Weight[k] \in Nat \ {0}
      PROVE  Weight[k + 1] \in Nat \ {0}
  <2>1. PICK w \in Nat \ {0} : w = Weight[k]
    BY <1>1
  <2>2. Base * w \in Nat \ {0}
    BY BaseAssumption, ProductPositive
  <2>. QED
    BY <2>1, <2>2, WeightNext
<1>2. Weight[0] \in Nat \ {0}
  BY WeightNext
<1>3. Weight[1] \in Nat \ {0}
  BY <1>1, <1>2
<1>4. Weight[2] \in Nat \ {0}
  BY <1>1, <1>3
<1>5. Weight[3] \in Nat \ {0}
  BY <1>1, <1>4
<1>6. Weight[4] \in Nat \ {0}
  BY <1>1, <1>5
<1>7. Weight[5] \in Nat \ {0}
  BY <1>1, <1>6
<1>8. Weight[6] \in Nat \ {0}
  BY <1>1, <1>7
<1>9. Weight[7] \in Nat \ {0}
  BY <1>1, <1>8
<1>10. Weight[8] \in Nat \ {0}
  BY <1>1, <1>9
<1>. QED
  BY <1>2, <1>3, <1>4, <1>5, <1>6, <1>7, <1>8, <1>9, <1>10

---------------------------------------------------------------------------
(* Bytes of an integer *)

LEMMA ProductMonotone ==
  ASSUME NEW a \in Nat, NEW b \in Nat, a <= b, NEW c \in Nat
  PROVE  a * c \in Nat /\ a * c <= b * c
<1>1. PICK d \in Nat : b = a + d
  <2>1. b - a \in Nat /\ b = a + (b - a)
    OBVIOUS
  <2>. QED
    BY <2>1
<1>2. d * c \in Nat /\ a * c \in Nat
  OBVIOUS
<1>3. (a + d) * c = a * c + d * c
  OBVIOUS
<1>. QED
  BY <1>1, <1>2, <1>3

LEMMA Regrouped ==
  ASSUME NEW B \in Int, NEW P \in Int, NEW u \in Int, NEW v \in Int,
         NEW r \in Int
  PROVE  P * (B * u + v) + r = (B * P) * u + (r + v * P)
OBVIOUS

(* An integer by a digit and what is below it. *)
LEMMA TwoDigits ==
  ASSUME NEW x \in Int, NEW P \in Nat \ {0}, NEW B \in Nat \ {0},
         NEW q, NEW r, Divides(x, P, q, r), NEW u, NEW v, Divides(q, B, u, v)
  PROVE  Divides(x, B * P, u, r + v * P)
<1>1. /\ q \in Int /\ r \in 0..(P - 1) /\ x = P * q + r
      /\ u \in Int /\ v \in 0..(B - 1) /\ q = B * u + v
  BY DEF Divides
<1>2. PICK R \in Nat \ {0} : R = B * P
  BY ProductPositive
<1>3. v * P \in Nat /\ v * P <= (B - 1) * P
  <2>1. v \in Nat /\ B - 1 \in Nat /\ v <= B - 1
    BY <1>1
  <2>2. PICK b \in Nat : b = B - 1
    BY <2>1
  <2>. QED
    BY <2>1, <2>2, ProductMonotone
<1>4. (B - 1) * P = R - P
  BY <1>2
<1>5. r + v * P \in 0..(R - 1)
  BY <1>1, <1>3, <1>4
<1>6. x = (B * P) * u + (r + v * P)
  BY <1>1, Regrouped
<1>. QED
  BY <1>1, <1>2, <1>5, <1>6 DEF Divides

LEMMA NextByte ==
  ASSUME NEW x \in Int, NEW k \in 0..7
  PROVE  x % Weight[k + 1] = (x % Weight[k]) + Byte(x, k) * Weight[k]
<1>1. PICK P \in Nat \ {0} : P = Weight[k]
  BY WeightType
<1>2. PICK q : q = x \div P
  OBVIOUS
<1>3. PICK r : r = x % P
  OBVIOUS
<1>4. PICK u : u = q \div Base
  OBVIOUS
<1>5. PICK v : v = q % Base
  OBVIOUS
<1>6. Base \in Nat \ {0}
  BY BaseAssumption
<1>7. Divides(x, P, q, r)
  BY <1>2, <1>3, DivMod, Zenon
<1>8. Divides(q, Base, u, v)
  <2>1. q \in Int
    BY <1>7 DEF Divides
  <2>. QED
    BY <1>4, <1>5, <1>6, <2>1, DivMod, Zenon
<1>9. Divides(x, Base * P, u, r + v * P)
  BY <1>6, <1>7, <1>8, TwoDigits, Zenon
<1>10. Base * P \in Nat \ {0}
  BY <1>6, ProductPositive
<1>11. x % (Base * P) = r + v * P
  BY <1>9, <1>10, DivModUnique, Zenon
<1>12. Weight[k + 1] = Base * P
  BY <1>1, WeightNext
<1>13. Byte(x, k) = v
  BY <1>1, <1>2, <1>5, Zenon DEF Byte
<1>. QED
  BY <1>1, <1>3, <1>11, <1>12, <1>13, Zenon

LEMMA ByteType ==
  ASSUME NEW x \in Int, NEW k \in 0..7
  PROVE  Byte(x, k) \in 0..(Base - 1)
<1>1. PICK P \in Nat \ {0} : P = Weight[k]
  BY WeightType
<1>2. PICK q : q = x \div P
  OBVIOUS
<1>3. q \in Int
  BY <1>2
<1>4. q % Base \in 0..(Base - 1)
  BY <1>3, BaseAssumption
<1>. QED
  BY <1>1, <1>2, <1>4 DEF Byte

(* The sum of the bytes of an integer, each with its weight. *)
LEMMA ReadWritten ==
  ASSUME NEW buf, NEW at \in Nat, NEW n \in {4, 8}, NEW x \in Int,
         \A k \in 0..(n - 1) : buf[at + k] = Byte(x, k)
  PROVE  ReadUnsigned(buf, at, n) = x % Weight[n]
<1>. DEFINE Sums(g) ==
              g = [k \in 0..n |->
                     IF k = 0 THEN 0
                     ELSE g[k - 1] + buf[at + k - 1] * Weight[k - 1]]
            sum == CHOOSE g : Sums(g)
<1>1. ReadUnsigned(buf, at, n) = sum[n]
  BY DEF ReadUnsigned
<1>2. PICK f : f = [k \in 0..n |-> x % Weight[k]]
  OBVIOUS
<1>3. ASSUME NEW k \in 0..n
      PROVE  f[k] = IF k = 0 THEN 0
                    ELSE f[k - 1] + buf[at + k - 1] * Weight[k - 1]
  <2>1. CASE k = 0
    BY <1>2, <2>1, WeightNext
  <2>2. CASE k # 0
    <3>1. PICK j \in 0..7 : k = j + 1 /\ j \in 0..(n - 1) /\ j = k - 1
      BY <2>2
    <3>2. buf[at + j] = Byte(x, j) /\ at + k - 1 = at + j
      BY <3>1
    <3>3. x % Weight[j + 1] = (x % Weight[j]) + Byte(x, j) * Weight[j]
      BY NextByte
    <3>4. j \in 0..n /\ k = j + 1 /\ k - 1 = j /\ k # 0
      BY <3>1
    <3>5. f[k] = f[j] + buf[at + j] * Weight[j]
      BY <1>2, <3>2, <3>3, <3>4
    <3>. QED
      BY <3>2, <3>4, <3>5
  <2>. QED
    BY <2>1, <2>2
<1>4. Sums(f)
  BY <1>2, <1>3
<1>5. Sums(sum)
  <2>. HIDE DEF Sums
  <2>. QED
    BY <1>4
<1>6. PICK s : s = sum
  OBVIOUS
<1>7. Sums(s)
  BY <1>5, <1>6
<1>8. s[0] = f[0]
  BY <1>4, <1>7
<1>9. ASSUME NEW k \in 0..(n - 1), s[k] = f[k]
      PROVE  s[k + 1] = f[k + 1]
  <2>1. k + 1 \in 0..n /\ k + 1 # 0 /\ (k + 1) - 1 = k
    OBVIOUS
  <2>. QED
    BY <1>4, <1>7, <1>9, <2>1
<1>10. s[4] = f[4]
  BY <1>8, <1>9
<1>11. n = 8 => s[8] = f[8]
  BY <1>9, <1>10
<1>. QED
  BY <1>1, <1>2, <1>6, <1>10, <1>11

(* A signed integer comes back from its bytes. *)
LEMMA SignedBack ==
  ASSUME NEW x \in -(Weight[8] \div 2)..(Weight[8] \div 2 - 1)
  PROVE  Signed(Unsigned(x, 8), 8) = x
<1>1. PICK W \in Nat \ {0} : W = Weight[8]
  BY WeightType
<1>2. PICK half \in Nat : half = W \div 2 /\ W = 2 * half
  <2>1. PICK h : h = Base \div 4
    OBVIOUS
  <2>2. h \in Nat /\ Base = 4 * h
    BY <2>1, BaseAssumption
  <2>3. PICK w \in Nat : w = Weight[7]
    BY WeightType
  <2>4. W = Base * w
    BY <1>1, <2>3, WeightNext
  <2>5. PICK z \in Nat : z = 2 * h * w
    BY <2>2
  <2>6. W = 2 * z
    BY <2>2, <2>4, <2>5
  <2>. QED
    BY <2>6
<1>3. x \in Int /\ -half <= x /\ x < half
  BY <1>1, <1>2
<1>4. CASE x >= 0
  <2>1. Divides(x, W, 0, x)
    BY <1>2, <1>3, <1>4 DEF Divides
  <2>2. x % W = x
    BY <1>3, <2>1, DivModUnique
  <2>. QED
    BY <1>1, <1>2, <1>3, <1>4, <2>2 DEF Signed, Unsigned
<1>5. CASE x < 0
  <2>1. Divides(x, W, -1, x + W)
    BY <1>2, <1>3, <1>5 DEF Divides
  <2>2. x % W = x + W
    BY <1>3, <2>1, DivModUnique
  <2>. QED
    BY <1>1, <1>2, <1>3, <1>5, <2>2 DEF Signed, Unsigned
<1>. QED
  BY <1>3, <1>4, <1>5

LEMMA ModTwice ==
  ASSUME NEW x \in Int, NEW P \in Nat \ {0}
  PROVE  x % P \in 0..(P - 1) /\ (x % P) % P = x % P
<1>1. PICK r : r = x % P
  OBVIOUS
<1>2. r \in 0..(P - 1) /\ r \in Int
  BY <1>1
<1>3. Divides(r, P, 0, r)
  BY <1>2 DEF Divides
<1>4. r % P = r
  BY <1>2, <1>3, DivModUnique
<1>. QED
  BY <1>1, <1>2, <1>4, Zenon

(* An actor id comes back from its bytes, and -1 from its own. *)
LEMMA ActorBack ==
  ASSUME NEW a \in -1..(Weight[4] - 2), NEW x,
         x = IF a = -1 THEN Unsigned(-1, 4) ELSE Unsigned(a, 4)
  PROVE  /\ x \in Nat
         /\ (IF x % Weight[4] = Unsigned(-1, 4) THEN -1 ELSE x % Weight[4]) = a
<1>1. PICK W \in Nat \ {0} : W = Weight[4]
  BY WeightType
<1>2. Divides(-1, W, -1, W - 1)
  BY DEF Divides
<1>3. Unsigned(-1, 4) = W - 1
  <2>1. -1 \in Int
    OBVIOUS
  <2>2. (-1) % W = W - 1
    BY <1>2, <2>1, DivModUnique, Zenon
  <2>. QED
    BY <1>1, <2>2, Zenon DEF Unsigned
<1>4. ASSUME a # -1
      PROVE  Unsigned(a, 4) = a
  <2>1. a \in Int /\ a \in 0..(W - 2)
    BY <1>1, <1>4
  <2>2. Divides(a, W, 0, a)
    BY <2>1 DEF Divides
  <2>3. a % W = a
    BY <2>1, <2>2, DivModUnique, Zenon
  <2>. QED
    BY <1>1, <2>3, Zenon DEF Unsigned
<1>5. x = IF a = -1 THEN W - 1 ELSE a
  BY <1>3, <1>4
<1>6. x \in Int /\ x \in 0..(W - 1) /\ (x = W - 1 <=> a = -1)
  BY <1>1, <1>5
<1>7. x % W = x
  <2>1. Divides(x, W, 0, x)
    BY <1>6 DEF Divides
  <2>. QED
    BY <1>6, <2>1, DivModUnique, Zenon
<1>. QED
  BY <1>1, <1>3, <1>5, <1>6, <1>7

(* What is written of a size and a mode into two bytes, of which the       *)
(* second held y.                                                          *)
SharedBytes(size, y, mode, low, high, z, w) ==
  /\ low = size % Base
  /\ high = (size \div Base) % 4
  /\ z = 4 * (y \div 4) + high
  /\ w = (z % 4) + mode * 4

(* The byte that the size and the mode share. *)
LEMMA SizeBack ==
  ASSUME NEW size \in 0..(4 * Base - 1), NEW y \in Nat, NEW mode \in Nat,
         NEW low, NEW high, NEW z, NEW w,
         SharedBytes(size, y, mode, low, high, z, w)
  PROVE  /\ low \in Nat /\ z \in Nat /\ w \in Nat
         /\ low + (w % 4) * Base = size
         /\ w \div 4 = mode
<1>0. /\ low = size % Base /\ high = (size \div Base) % 4
      /\ z = 4 * (y \div 4) + high /\ w = (z % 4) + mode * 4
  BY Zenon DEF SharedBytes
<1>1. Base \in Nat \ {0} /\ size \in Int
  BY BaseAssumption
<1>2. PICK q : q = size \div Base
  OBVIOUS
<1>3. Divides(size, Base, q, low)
  BY <1>0, <1>1, <1>2, DivMod, Zenon
<1>4. q \in Int /\ low \in 0..(Base - 1) /\ size = Base * q + low
  BY <1>3 DEF Divides
<1>5. q \in 0..3
  <2>1. ASSUME q >= 4
        PROVE  FALSE
    <3>1. q \in Nat /\ 4 \in Nat /\ 4 <= q /\ Base \in Nat
      BY <1>1, <1>4, <2>1
    <3>2. 4 * Base <= q * Base
      BY <3>1, ProductMonotone
    <3>3. q * Base = Base * q
      BY <1>1, <1>4
    <3>. QED
      BY <1>1, <1>4, <3>2, <3>3
  <2>2. ASSUME q <= -1
        PROVE  FALSE
    <3>1. PICK n \in Nat : n = -q /\ 1 <= n
      BY <1>4, <2>2
    <3>2. 1 * Base <= n * Base
      BY <1>1, <3>1, ProductMonotone
    <3>3. Base * q = -(n * Base)
      BY <1>1, <1>4, <3>1
    <3>. QED
      BY <1>1, <1>4, <3>2, <3>3
  <2>. QED
    BY <1>4, <2>1, <2>2
<1>6. high = q
  <2>1. high = q % 4
    BY <1>0, <1>2, Zenon
  <2>. QED
    BY <1>5, <2>1
<1>7. z \in Nat /\ z % 4 = q
  <2>1. PICK d : d = y \div 4
    OBVIOUS
  <2>2. d \in Nat
    BY <2>1
  <2>3. z = 4 * d + q
    BY <1>0, <1>6, <2>1, Zenon
  <2>. QED
    BY <1>5, <2>2, <2>3
<1>8. w = q + mode * 4
  BY <1>0, <1>7, Zenon
<1>9. w \in Nat /\ w % 4 = q /\ w \div 4 = mode
  BY <1>5, <1>8
<1>10. low + q * Base = size
  BY <1>1, <1>4
<1>11. low \in Nat
  BY <1>1, <1>4
<1>. QED
  BY <1>7, <1>9, <1>10, <1>11, Zenon

---------------------------------------------------------------------------
(* The buffer *)

Buffer == [0..29 -> Nat]

WrittenAt(new, buf, at, n, x) ==
  /\ new \in Buffer
  /\ \A k \in 0..(n - 1) : new[at + k] = Byte(x, k)
  /\ \A b \in 0..29 : b \notin at..(at + n - 1) => new[b] = buf[b]

LEMMA WriteUnsignedEffect ==
  ASSUME NEW buf \in Buffer, NEW at \in 0..26, NEW n \in {4, 8}, at + n <= 30,
         NEW x \in Int
  PROVE  WrittenAt(WriteUnsigned(buf, at, n, x), buf, at, n, x)
<1>0. PICK new : new = WriteUnsigned(buf, at, n, x)
  OBVIOUS
<1>1. DOMAIN buf = 0..29
  BY DEF Buffer
<1>2. new = [b \in 0..29 |-> IF b \in at..(at + n - 1) THEN Byte(x, b - at)
                                                        ELSE buf[b]]
  BY <1>0, <1>1 DEF WriteUnsigned
<1>3. ASSUME NEW k \in 0..(n - 1)
      PROVE  new[at + k] = Byte(x, k)
  <2>1. at + k \in 0..29 /\ at + k \in at..(at + n - 1) /\ (at + k) - at = k
    OBVIOUS
  <2>. QED
    BY <1>2, <2>1
<1>4. ASSUME NEW b \in 0..29
      PROVE  new[b] \in Nat
  <2>1. CASE b \in at..(at + n - 1)
    <3>1. b - at \in 0..7
      BY <2>1
    <3>2. Byte(x, b - at) \in 0..(Base - 1)
      BY <3>1, ByteType
    <3>. QED
      BY <1>2, <2>1, <3>2, BaseAssumption
  <2>2. CASE b \notin at..(at + n - 1)
    BY <1>2, <2>2 DEF Buffer
  <2>. QED
    BY <2>1, <2>2
<1>5. new \in Buffer
  BY <1>2, <1>4 DEF Buffer
<1>6. \A b \in 0..29 : b \notin at..(at + n - 1) => new[b] = buf[b]
  BY <1>2
<1>. QED
  BY <1>0, <1>3, <1>5, <1>6, Zenon DEF WrittenAt

(* Each field is where it was written when the last one has been written. *)
LEMMA WriteMessageBack ==
  ASSUME NEW buf \in Buffer, NEW m \in Message, NEW new,
         new = WriteMessage(buf, m)
  PROVE  /\ new \in Buffer
         /\ ReadMode(new) = m.mode
         /\ ReadIndex(new) = m.index
         /\ ReadTime(new) = m.time
         /\ ReadActor(new) = m.actor
         /\ ReadDataSize(new) = m.size
<1>1. PICK summed : summed = WriteUnsigned(buf, 0, 8, 0)
  OBVIOUS
<1>2. PICK sized : sized = WriteSize(summed, 30 + m.size)
  OBVIOUS
<1>3. PICK moded : moded = WriteMode(sized, m.mode)
  OBVIOUS
<1>4. PICK index : index = Unsigned(m.index, 8)
  OBVIOUS
<1>5. PICK time : time = Unsigned(m.time, 8)
  OBVIOUS
<1>6. PICK actor : actor = IF m.actor = -1 THEN Unsigned(-1, 4)
                                           ELSE Unsigned(m.actor, 4)
  OBVIOUS
<1>7. PICK placed : placed = WriteUnsigned(moded, 10, 8, index)
  OBVIOUS
<1>8. PICK timed : timed = WriteUnsigned(placed, 18, 8, time)
  OBVIOUS
<1>9. new = WriteUnsigned(timed, 26, 4, actor)
  BY <1>1, <1>2, <1>3, <1>4, <1>5, <1>6, <1>7, <1>8, Zenon
     DEF WriteMessage, Checksum, HeaderSize, Index, Time, Actor, Undefined
<1>10. /\ m.mode \in Nat
       /\ m.index \in -(Weight[8] \div 2)..(Weight[8] \div 2 - 1)
       /\ m.time \in -(Weight[8] \div 2)..(Weight[8] \div 2 - 1)
       /\ m.actor \in -1..(Weight[4] - 2)
       /\ m.size \in 0..(4 * Base - 31)
  <2>1. m.mode \in Modes /\ m.index \in Indexes /\ m.time \in Times
        /\ m.actor \in Actors /\ m.size \in DataSizes
    BY DEF Message
  <2>2. m.mode \in Nat
    <3>1. m.mode \in 0..(Base \div 4 - 1)
      BY <2>1, FieldsAssumption, Zenon
    <3>. QED
      BY <3>1, BaseAssumption
  <2>3. m.size \in 0..(4 * Base - 31)
    <3>1. m.size \in 0..(4 * Base - 1 - 30)
      BY <2>1, RangesAssumption, Zenon DEF HeaderSize
    <3>. QED
      BY <3>1, BaseAssumption
  <2>. QED
    BY <2>1, <2>2, <2>3, RangesAssumption, Zenon
<1>11. index \in Nat /\ index % Weight[8] = index
  <2>1. PICK x \in Int : x = m.index
    BY <1>10
  <2>2. PICK P \in Nat \ {0} : P = Weight[8]
    BY WeightType
  <2>3. x % P \in 0..(P - 1) /\ (x % P) % P = x % P
    BY ModTwice
  <2>4. index = x % P
    BY <1>4, <2>1, <2>2, Zenon DEF Unsigned
  <2>5. index \in 0..(P - 1)
    BY <2>3, <2>4, Zenon
  <2>. QED
    BY <2>2, <2>3, <2>4, <2>5
<1>12. time \in Nat /\ time % Weight[8] = time
  <2>1. PICK x \in Int : x = m.time
    BY <1>10
  <2>2. PICK P \in Nat \ {0} : P = Weight[8]
    BY WeightType
  <2>3. x % P \in 0..(P - 1) /\ (x % P) % P = x % P
    BY ModTwice
  <2>4. time = x % P
    BY <1>5, <2>1, <2>2, Zenon DEF Unsigned
  <2>5. time \in 0..(P - 1)
    BY <2>3, <2>4, Zenon
  <2>. QED
    BY <2>2, <2>3, <2>4, <2>5
<1>13. /\ actor \in Nat
       /\ (IF actor % Weight[4] = Unsigned(-1, 4) THEN -1 ELSE actor % Weight[4])
            = m.actor
  BY <1>6, <1>10, ActorBack, Zenon
<1>14. summed \in Buffer
  <2>1. WrittenAt(summed, buf, 0, 8, 0)
    BY <1>1, WriteUnsignedEffect
  <2>. QED
    BY <2>1 DEF WrittenAt
<1>15. PICK size : size = 30 + m.size
  OBVIOUS
<1>16. size \in 0..(4 * Base - 1)
  BY <1>10, <1>15, BaseAssumption
<1>17. PICK y \in Nat : y = summed[9]
  BY <1>14 DEF Buffer
<1>18. PICK low : low = size % Base
  OBVIOUS
<1>19. PICK high : high = (size \div Base) % 4
  OBVIOUS
<1>20. PICK z : z = 4 * (y \div 4) + high
  OBVIOUS
<1>21. PICK w : w = (z % 4) + m.mode * 4
  OBVIOUS
<1>22. /\ low \in Nat /\ z \in Nat /\ w \in Nat
       /\ low + (w % 4) * Base = size
       /\ w \div 4 = m.mode
  <2>1. PICK mode \in Nat : mode = m.mode
    BY <1>10
  <2>2. w = (z % 4) + mode * 4
    BY <1>21, <2>1, Zenon
  <2>3. SharedBytes(size, y, mode, low, high, z, w)
    BY <1>18, <1>19, <1>20, <2>2, Zenon DEF SharedBytes
  <2>4. /\ low \in Nat /\ z \in Nat /\ w \in Nat
        /\ low + (w % 4) * Base = size
        /\ w \div 4 = mode
    BY <1>16, <2>3, SizeBack
  <2>. QED
    BY <2>1, <2>4, Zenon
<1>23. sized = [summed EXCEPT ![8] = low, ![9] = z]
  BY <1>2, <1>14, <1>15, <1>17, <1>18, <1>19, <1>20
     DEF WriteSize, SizeByte, SizeAndMode, Buffer
<1>24. sized \in Buffer /\ sized[8] = low /\ sized[9] = z
  BY <1>14, <1>22, <1>23 DEF Buffer
<1>25. moded = [sized EXCEPT ![9] = w]
  BY <1>3, <1>21, <1>24 DEF WriteMode, SizeAndMode, Buffer
<1>26. moded \in Buffer /\ moded[8] = low /\ moded[9] = w
  BY <1>22, <1>24, <1>25 DEF Buffer
<1>27. /\ placed \in Buffer
       /\ \A k \in 0..7 : placed[10 + k] = Byte(index, k)
       /\ placed[8] = low /\ placed[9] = w
  <2>1. 10 \in 0..26 /\ 8 \in {4, 8} /\ 10 + 8 <= 30 /\ index \in Int
    BY <1>7, <1>11, <1>26
  <2>2. WrittenAt(placed, moded, 10, 8, index)
    BY <1>7, <1>11, <1>26, <2>1, WriteUnsignedEffect
  <2>. QED
    BY <1>26, <2>2 DEF WrittenAt
<1>28. /\ timed \in Buffer
       /\ \A k \in 0..7 : timed[18 + k] = Byte(time, k)
       /\ \A b \in 0..17 : timed[b] = placed[b]
  <2>1. 18 \in 0..26 /\ 8 \in {4, 8} /\ 18 + 8 <= 30 /\ time \in Int
    BY <1>8, <1>12, <1>27
  <2>2. WrittenAt(timed, placed, 18, 8, time)
    BY <1>8, <1>12, <1>27, <2>1, WriteUnsignedEffect
  <2>. QED
    BY <1>27, <2>2 DEF WrittenAt
<1>29. /\ new \in Buffer
       /\ \A k \in 0..3 : new[26 + k] = Byte(actor, k)
       /\ \A b \in 0..25 : new[b] = timed[b]
  <2>1. 26 \in 0..26 /\ 4 \in {4, 8} /\ 26 + 4 <= 30 /\ actor \in Int
    BY <1>9, <1>13, <1>28
  <2>2. WrittenAt(new, timed, 26, 4, actor)
    BY <1>9, <1>13, <1>28, <2>1, WriteUnsignedEffect
  <2>. QED
    BY <1>28, <2>2 DEF WrittenAt
<1>30. new[8] = low /\ new[9] = w
  BY <1>27, <1>28, <1>29
<1>31. ReadMode(new) = m.mode
  BY <1>22, <1>30, Zenon DEF ReadMode, SizeAndMode
<1>32. ReadDataSize(new) = m.size
  <2>1. ReadSize(new) = size
    BY <1>22, <1>30, Zenon DEF ReadSize, SizeByte, SizeAndMode
  <2>. QED
    BY <1>10, <1>15, <2>1, BaseAssumption DEF ReadDataSize, HeaderSize
<1>33. ReadIndex(new) = m.index
  <2>1. \A k \in 0..7 : new[10 + k] = Byte(index, k)
    BY <1>27, <1>28, <1>29
  <2>2. ReadUnsigned(new, 10, 8) = index
    BY <1>11, <2>1, ReadWritten
  <2>. QED
    BY <1>4, <1>10, <2>2, SignedBack, Zenon DEF ReadIndex, Index
<1>34. ReadTime(new) = m.time
  <2>1. \A k \in 0..7 : new[18 + k] = Byte(time, k)
    BY <1>28, <1>29
  <2>2. ReadUnsigned(new, 18, 8) = time
    BY <1>12, <2>1, ReadWritten
  <2>. QED
    BY <1>5, <1>10, <2>2, SignedBack, Zenon DEF ReadTime, Time
<1>35. ReadActor(new) = m.actor
  <2>1. ReadUnsigned(new, 26, 4) = actor % Weight[4]
    BY <1>13, <1>29, ReadWritten
  <2>. QED
    BY <1>13, <2>1, Zenon DEF ReadActor, Actor, Undefined
<1>. QED
  BY <1>29, <1>31, <1>32, <1>33, <1>34, <1>35

(* Whatever a buffer held before and whatever was written into it: the     *)
(* peer_read_message functions give what peer_write_message was given, for *)
(* every value of the fields' types.                                       *)
THEOREM ReadsBackHolds == Spec => []ReadsBack
<1>. DEFINE Inv == buffer \in Buffer /\ ReadsBack
<1>1. Init => Inv
  <2>. SUFFICES ASSUME Init PROVE Inv
    OBVIOUS
  <2>1. buffer \in Buffer
    <3>1. PICK x \in Leftovers : buffer = [b \in 0..(30 - 1) |-> x]
      BY DEF Init, HeaderSize
    <3>2. x \in 0..(Base - 1)
      BY FieldsAssumption, Zenon
    <3>3. x \in Nat
      BY <3>2, BaseAssumption
    <3>. QED
      BY <3>1, <3>3 DEF Buffer
  <2>. QED
    BY <2>1 DEF Init, ReadsBack
<1>2. Inv /\ [Next]_vars => Inv'
  <2>. SUFFICES ASSUME Inv, [Next]_vars PROVE Inv'
    OBVIOUS
  <2>1. CASE UNCHANGED vars
    BY <2>1 DEF vars, ReadsBack, ReadMode, ReadIndex, ReadTime, ReadActor,
       ReadDataSize, ReadSize
  <2>2. ASSUME NEW m \in Message, Write(m)
        PROVE  Inv'
    <3>1. buffer' = WriteMessage(buffer, m) /\ written' = {m}
      BY <2>2 DEF Write
    <3>2. PICK new : new = buffer'
      OBVIOUS
    <3>3. /\ new \in Buffer
          /\ ReadMode(new) = m.mode /\ ReadIndex(new) = m.index
          /\ ReadTime(new) = m.time /\ ReadActor(new) = m.actor
          /\ ReadDataSize(new) = m.size
      BY <3>1, <3>2, WriteMessageBack
    <3>4. m = [mode |-> m.mode, index |-> m.index, time |-> m.time,
               actor |-> m.actor, size |-> m.size]
      BY DEF Message
    <3>5. m = [mode  |-> ReadMode(new),  index |-> ReadIndex(new),
               time  |-> ReadTime(new),  actor |-> ReadActor(new),
               size  |-> ReadDataSize(new)]
      BY <3>3, <3>4, Zenon
    <3>6. ReadsBack'
      BY <3>1, <3>2, <3>5, Zenon DEF ReadsBack
    <3>. QED
      BY <3>2, <3>3, <3>6
  <2>. QED
    BY <2>1, <2>2 DEF Next
<1>3. Inv => ReadsBack
  OBVIOUS
<1>. QED
  BY <1>1, <1>2, <1>3, PTL DEF Spec

===========================================================================
