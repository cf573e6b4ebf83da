------------------------ MODULE SliceTransferProofs ------------------------
(***************************************************************************)
(* A download gives the user the video or an error: SavesTheVideo and      *)
(* FailsForAReason for every size of videos, slices, cipher blocks and     *)
(* ints, and any number of uploads, tabs and failures.                     *)
(***************************************************************************)
EXTENDS SliceTransfer, TLAPS

(***************************************************************************)
(* Arithmetic.                                                             *)
(***************************************************************************)
LEMMA DivMod ==
  ASSUME NEW a \in Int, NEW b \in Nat \ {0}
  PROVE  /\ a \div b \in Int /\ a % b \in Nat /\ a % b < b
         /\ a = b * (a \div b) + (a % b)
OBVIOUS

LEMMA Times ==
  ASSUME NEW a \in Int, NEW c \in Nat
  PROVE  /\ a * c \in Int /\ c * a = a * c
         /\ (a + 1) * c = a * c + c /\ (a - 1) * c = a * c - c
         /\ a \in Nat => a * c \in Nat
OBVIOUS

LEMMA TimesMono ==
  ASSUME NEW a \in Int, NEW b \in Int, a <= b, NEW c \in Nat
  PROVE  a * c <= b * c
OBVIOUS

LEMMA TimesStrict ==
  ASSUME NEW a \in Int, NEW b \in Int, NEW c \in Nat \ {0}, a * c < b * c
  PROVE  a < b
OBVIOUS

LEMMA Quotient ==
  ASSUME NEW a \in Nat, NEW b \in Nat \ {0}
  PROVE  a \div b \in Nat /\ a \div b <= a
<1>1. PICK q \in Int, e \in Nat : q = a \div b /\ e < b /\ a = b * q + e
  <2>1. a \div b \in Int /\ a % b \in Nat /\ a % b < b /\ a = b * (a \div b) + (a % b)
    BY DivMod
  <2> QED BY <2>1
<1>2. (-1) * b < q * b
  BY <1>1
<1>3. q \in Nat
  <2>1. -1 < q
    BY <1>2, TimesStrict
  <2> QED BY <2>1
<1>4. 1 * q <= b * q
  BY <1>3, TimesMono
<1> QED BY <1>1, <1>3, <1>4

LEMMA DivUnique ==
  ASSUME NEW a \in Int, NEW b \in Nat \ {0}, NEW q \in Int, b * q <= a, a < b * q + b
  PROVE  a \div b = q
<1>1. a \div b \in Int /\ a = b * (a \div b) + (a % b) /\ 0 <= a % b /\ a % b < b
  BY DivMod
<1>2. (a \div b) * b < (q + 1) * b /\ q * b < ((a \div b) + 1) * b
  BY <1>1
<1>3. a \div b < q + 1 /\ q < (a \div b) + 1
  BY <1>1, <1>2, TimesStrict
<1> QED BY <1>1, <1>3

LEMMA DivMono ==
  ASSUME NEW a \in Int, NEW c \in Int, a <= c, NEW b \in Nat \ {0}
  PROVE  a \div b <= c \div b
<1>1. /\ a \div b \in Int /\ a = b * (a \div b) + (a % b) /\ 0 <= a % b /\ a % b < b
      /\ c \div b \in Int /\ c = b * (c \div b) + (c % b) /\ 0 <= c % b /\ c % b < b
  BY DivMod
<1>2. (a \div b) * b < ((c \div b) + 1) * b
  BY <1>1
<1>3. a \div b < (c \div b) + 1
  BY <1>1, <1>2, TimesStrict
<1> QED BY <1>1, <1>3

\* Java's int: the value is kept if it fits, and otherwise off by a multiple
\* of the number of ints.
Ints == -Half .. Half - 1

LEMMA HalfType == Half \in Nat \ {0} /\ Cipher \in Nat \ {0} /\ SizeSlice \in Nat \ {0}
BY Bounds

LEMMA ToIntWraps ==
  ASSUME NEW x \in Int
  PROVE  ToInt(x) \in Ints /\ \E m \in Int : ToInt(x) = x + (2 * Half) * m
<1>1. 2 * Half \in Nat \ {0} /\ Half \in Nat \ {0} /\ x + Half \in Int
  BY HalfType
<1>2. PICK q \in Int, e \in Nat :
        /\ e = (x + Half) % (2 * Half) /\ e < 2 * Half
        /\ x + Half = (2 * Half) * q + e
  <2> DEFINE w == 2 * Half
             y == x + Half
  <2>1. w \in Nat \ {0} /\ y \in Int
    BY <1>1
  <2> HIDE DEF w, y
  <2>2. y \div w \in Int /\ y % w \in Nat /\ y % w < w /\ y = w * (y \div w) + (y % w)
    BY <2>1, DivMod
  <2>3. \E q \in Int, e \in Nat : e = y % w /\ e < w /\ y = w * q + e
    BY <2>2
  <2> QED BY <2>3 DEF w, y
<1>3. ToInt(x) = e - Half
  BY <1>2 DEF ToInt
<1>4. PICK m \in Int : m = 0 - q
  OBVIOUS
<1>5. ToInt(x) = x + (2 * Half) * m
  BY <1>1, <1>2, <1>3, <1>4
<1>6. ToInt(x) \in Ints
  BY <1>1, <1>2, <1>3 DEF Ints
<1> QED BY <1>4, <1>5, <1>6

LEMMA ToIntType ==
  ASSUME NEW x \in Int
  PROVE  ToInt(x) \in Int
BY ToIntWraps, HalfType DEF Ints

LEMMA ToIntExact ==
  ASSUME NEW x \in Ints
  PROVE  ToInt(x) = x
<1>0. x \in Int
  BY HalfType DEF Ints
<1>1. PICK m \in Int : ToInt(x) = x + (2 * Half) * m
  BY <1>0, ToIntWraps
<1>2. ToInt(x) \in Ints
  BY <1>0, ToIntWraps
<1>3. m * (2 * Half) < 1 * (2 * Half) /\ (-1) * (2 * Half) < m * (2 * Half)
  BY <1>1, <1>2, HalfType DEF Ints
<1>4. m < 1 /\ -1 < m
  BY <1>3, HalfType, TimesStrict
<1>5. m = 0
  BY <1>4
<1> QED BY <1>0, <1>1, <1>5, HalfType

LEMMA ToIntBelow ==
  ASSUME NEW x \in Nat
  PROVE  ToInt(x) <= x
<1>1. PICK m \in Int : ToInt(x) = x + (2 * Half) * m
  BY ToIntWraps
<1>2. ToInt(x) \in Ints
  BY ToIntWraps
<1>3. m * (2 * Half) < 1 * (2 * Half)
  BY <1>1, <1>2, HalfType DEF Ints
<1>4. m < 1
  BY <1>3, HalfType, TimesStrict
<1>5. m * (2 * Half) <= 0 * (2 * Half)
  BY <1>4, HalfType, TimesMono
<1> QED BY <1>1, <1>5, HalfType

\* A difference of two lengths, the first of which has wrapped.
LEMMA ToIntTwice ==
  ASSUME NEW a \in Int, NEW b \in Int, a - b >= 0
  PROVE  /\ ToInt(ToInt(a) - b) \in Ints /\ ToInt(ToInt(a) - b) <= a - b
         /\ a - b < Half => ToInt(ToInt(a) - b) = a - b
<1>1. PICK m \in Int : ToInt(a) = a + (2 * Half) * m
  BY ToIntWraps
<1>2. ToInt(a) \in Int
  BY <1>1, HalfType
<1>3. PICK n \in Int : ToInt(ToInt(a) - b) = (ToInt(a) - b) + (2 * Half) * n
  BY <1>2, ToIntWraps
<1>4. ToInt(ToInt(a) - b) \in Ints
  BY <1>2, ToIntWraps
<1>5. ToInt(ToInt(a) - b) = (a - b) + (m + n) * (2 * Half)
  BY <1>1, <1>3, HalfType
<1>6. (m + n) * (2 * Half) < 1 * (2 * Half)
  BY <1>4, <1>5, HalfType DEF Ints
<1>7. m + n < 1
  BY <1>6, HalfType, TimesStrict
<1>8. (m + n) * (2 * Half) <= 0 * (2 * Half)
  BY <1>7, HalfType, TimesMono
<1>9. ASSUME a - b < Half PROVE ToInt(ToInt(a) - b) = a - b
  <2>1. (-1) * (2 * Half) < (m + n) * (2 * Half)
    BY <1>4, <1>5, <1>9, HalfType DEF Ints
  <2>2. -1 < m + n
    BY <2>1, HalfType, TimesStrict
  <2>3. m + n = 0
    BY <1>7, <2>2
  <2> QED BY <1>5, <2>3, HalfType
<1> QED BY <1>4, <1>5, <1>8, <1>9, HalfType

\* The average of n encrypted slices.
LEMMA Average ==
  ASSUME NEW n \in Nat \ {0}, NEW p \in Nat \ {0}, NEW z \in Ints, z <= n * p
  PROVE  /\ Div(z, n) \in Ints /\ Div(z, n) <= p
         /\ Div(z, n) = p => z = n * p
         /\ z = n * p => Div(z, n) = p
<1>1. z \in Int
  BY HalfType DEF Ints
<1>2. CASE z >= 0
  <2>1. z \div n \in Int /\ z = n * (z \div n) + (z % n) /\ 0 <= z % n /\ z % n < n
    BY <1>1, DivMod
  <2>2. Div(z, n) = z \div n
    BY <1>2 DEF Div
  <2>3. (z \div n) * n < (p + 1) * n
    BY <2>1, <1>1
  <2>4. z \div n <= p
    <3>1. z \div n < p + 1
      BY <2>1, <2>3, TimesStrict
    <3> QED BY <2>1, <3>1
  <2>5. z = n * p => z \div n = p
    BY <1>1, DivUnique
  <2>6. 0 <= z \div n /\ z \div n <= z
    BY <1>1, <1>2, Quotient
  <2>8. z \div n = p => z = n * p
    BY <1>1, <2>1
  <2> QED BY <2>1, <2>2, <2>4, <2>5, <2>6, <2>8, HalfType DEF Ints
<1>3. CASE z < 0
  <2>0. PICK y \in Nat : y = 0 - z
    BY <1>1, <1>3
  <2>1. y \div n \in Int /\ y = n * (y \div n) + (y % n) /\ 0 <= y % n /\ y % n < n
    BY DivMod
  <2>2. Div(z, n) = -(y \div n)
    BY <1>1, <1>3, <2>0 DEF Div
  <2>3. 0 <= y \div n /\ y \div n <= y
    BY <2>1, Quotient
  <2>5. n * p >= 0
    OBVIOUS
  <2> QED BY <1>1, <1>3, <2>0, <2>1, <2>2, <2>3, <2>5, HalfType DEF Ints
<1> QED BY <1>1, <1>2, <1>3

(***************************************************************************)
(* Slices.  The number of slices is the size divided by SizeSlice, rounded *)
(* up, and all but the last are full.                                      *)
(***************************************************************************)
\* The encrypted size of a full slice, and of the last one.
Full == Padded(SizeSlice)
Last(v) == Padded(SliceLength(v, NumSlice(v) - 1))

LEMMA SliceCount ==
  ASSUME NEW v, size[v] \in Nat
  PROVE  /\ NumSlice(v) \in Nat
         /\ size[v] <= NumSlice(v) * SizeSlice /\ (NumSlice(v) - 1) * SizeSlice < size[v]
<1>1. PICK n \in Nat : n = size[v]
  OBVIOUS
<1>2. PICK S \in Nat \ {0} : S = SizeSlice
  BY HalfType
<1>3. PICK q \in Nat, e \in Nat :
        q = n \div S /\ e = n % S /\ e < S /\ n = S * q + e
  <2>1. n \div S \in Nat /\ n % S \in Nat /\ n % S < S /\ n = S * (n \div S) + (n % S)
    BY DivMod, Quotient
  <2> QED BY <2>1
<1>4. NumSlice(v) = IF e = 0 THEN q ELSE q + 1
  BY <1>1, <1>2, <1>3 DEF NumSlice
<1>5. PICK p \in Nat : p = q * S /\ n = p + e /\ (q - 1) * S = p - S /\ (q + 1) * S = p + S
  <2>1. (q + 1) * S = q * S + S /\ (q - 1) * S = q * S - S /\ S * q = q * S /\ q * S \in Nat
    BY Times
  <2> QED BY <1>3, <2>1
<1>6. CASE e = 0
  <2>1. NumSlice(v) = q
    BY <1>4, <1>6
  <2>2. n <= q * S /\ (q - 1) * S < n
    BY <1>3, <1>5, <1>6
  <2> QED BY <1>1, <1>2, <2>1, <2>2
<1>7. CASE e # 0
  <2>1. NumSlice(v) = q + 1 /\ (q + 1) - 1 = q
    BY <1>4, <1>7
  <2>2. n <= (q + 1) * S /\ q * S < n
    BY <1>3, <1>5, <1>7
  <2>3. (NumSlice(v) - 1) * S = q * S /\ NumSlice(v) * S = (q + 1) * S
    BY <2>1
  <2> QED BY <1>1, <1>2, <2>1, <2>2, <2>3
<1> QED BY <1>6, <1>7

LEMMA InFile ==
  ASSUME NEW v, size[v] \in Nat, NEW k \in Nat, k < NumSlice(v)
  PROVE  k * SizeSlice <= size[v]
<1>1. PICK n \in Nat : n = NumSlice(v) /\ (n - 1) * SizeSlice < size[v]
  BY SliceCount
<1>2. k * SizeSlice <= (n - 1) * SizeSlice
  BY <1>1, HalfType, TimesMono
<1>3. k * SizeSlice \in Int /\ (n - 1) * SizeSlice \in Int
  BY HalfType, Times
<1> QED BY <1>1, <1>2, <1>3

LEMMA SliceSize ==
  ASSUME NEW v, size[v] \in Nat, NEW k \in Nat, k * SizeSlice <= size[v]
  PROVE  /\ SliceLength(v, k) \in Nat /\ SliceLength(v, k) <= SizeSlice
         /\ k * SizeSlice + SliceLength(v, k) <= size[v]
         /\ k + 1 < NumSlice(v) => SliceLength(v, k) = SizeSlice
         /\ k + 1 = NumSlice(v) => k * SizeSlice + SliceLength(v, k) = size[v]
         /\ (k + 1) * SizeSlice <= size[v] => SliceLength(v, k) = SizeSlice
<1>1. PICK n \in Nat : /\ n = NumSlice(v) /\ size[v] <= n * SizeSlice
                       /\ (n - 1) * SizeSlice < size[v]
  BY SliceCount
<1>2. PICK S \in Nat \ {0} : S = SizeSlice
  BY HalfType
<1>3. PICK a \in Nat : a = k * S /\ (k + 1) * S = a + S
  BY Times
<1>4. SliceLength(v, k) = IF a + S >= size[v] THEN size[v] - a ELSE S
  BY <1>2, <1>3 DEF SliceLength
<1>5. ASSUME k + 1 < n PROVE a + S < size[v]
  <2>1. (k + 1) * S <= (n - 1) * S
    BY <1>5, TimesMono
  <2>2. (n - 1) * S \in Int
    BY Times
  <2> QED BY <1>1, <1>2, <1>3, <2>1, <2>2
<1>6. k + 1 = n => a + S >= size[v]
  BY <1>1, <1>2, <1>3
<1>7. PICK l \in Int : /\ l = SliceLength(v, k)
                       /\ l = IF a + S >= size[v] THEN size[v] - a ELSE S
  BY <1>2, <1>4
<1>8. a <= size[v]
  BY <1>2, <1>3
<1>9. /\ l \in Nat /\ l <= S /\ a + l <= size[v]
      /\ k + 1 < n => l = S
      /\ k + 1 = n => a + l = size[v]
      /\ a + S <= size[v] => l = S
  BY <1>2, <1>5, <1>6, <1>7, <1>8
<1> QED BY <1>1, <1>2, <1>3, <1>7, <1>9

LEMMA PaddedType ==
  ASSUME NEW n \in Nat
  PROVE  Padded(n) \in Nat \ {0}
<1>1. PICK q \in Nat : q = n \div Cipher
  BY HalfType, Quotient
<1>2. (q + 1) * Cipher = q * Cipher + Cipher /\ q * Cipher \in Nat
  BY HalfType, Times
<1> QED BY <1>1, <1>2, HalfType DEF Padded

LEMMA PaddedMono ==
  ASSUME NEW m \in Nat, NEW n \in Nat, m <= n
  PROVE  Padded(m) <= Padded(n)
<1>1. PICK p \in Nat, q \in Nat : p = m \div Cipher /\ q = n \div Cipher /\ p <= q
  <2>1. m \div Cipher \in Nat /\ n \div Cipher \in Nat /\ m \div Cipher <= n \div Cipher
    BY HalfType, Quotient, DivMono
  <2> QED BY <2>1
<1>2. p + 1 <= q + 1
  BY <1>1
<1>3. (p + 1) * Cipher <= (q + 1) * Cipher
  BY <1>2, HalfType, TimesMono
<1> QED BY <1>1, <1>3 DEF Padded

\* An encrypted slice is at most as long as a full one, and the last is a full
\* one if the page posts another after it.
LEMMA Encrypted ==
  ASSUME NEW v, size[v] \in Nat
  PROVE  /\ Full \in Nat \ {0}
         /\ \A k \in Nat : k * SizeSlice <= size[v] =>
              /\ Padded(SliceLength(v, k)) \in Nat \ {0}
              /\ Padded(SliceLength(v, k)) <= Full
              /\ k + 1 < NumSlice(v) => Padded(SliceLength(v, k)) = Full
         /\ NumSlice(v) > 0 => Last(v) \in Nat \ {0} /\ Last(v) <= Full
         /\ NumSlice(v) > 0 /\ NumSlice(v) * SizeSlice <= size[v] => Last(v) = Full
<1>1. Full \in Nat \ {0}
  BY PaddedType, HalfType DEF Full
<1>2. ASSUME NEW k \in Nat, k * SizeSlice <= size[v]
      PROVE  /\ Padded(SliceLength(v, k)) \in Nat \ {0}
             /\ Padded(SliceLength(v, k)) <= Full
             /\ k + 1 < NumSlice(v) => Padded(SliceLength(v, k)) = Full
             /\ (k + 1) * SizeSlice <= size[v] => Padded(SliceLength(v, k)) = Full
  BY <1>2, SliceSize, PaddedType, PaddedMono, HalfType DEF Full
<1>3. ASSUME NumSlice(v) > 0
      PROVE  /\ Last(v) \in Nat \ {0} /\ Last(v) <= Full
             /\ NumSlice(v) * SizeSlice <= size[v] => Last(v) = Full
  <2>1. PICK k \in Nat : k = NumSlice(v) - 1 /\ k < NumSlice(v) /\ k + 1 = NumSlice(v)
    BY <1>3, SliceCount
  <2>2. k * SizeSlice <= size[v]
    BY <2>1, InFile
  <2> QED BY <1>2, <2>1, <2>2 DEF Last
<1> QED BY <1>1, <1>2, <1>3

(***************************************************************************)
(* Sequences of bytes.                                                     *)
(***************************************************************************)
Bytes == [video : Videos, at : Nat]
Cells == [video : Videos, slice : Nat, at : Nat]

LEMMA Joined ==
  ASSUME NEW X, NEW s \in Seq(X), NEW u \in Seq(X)
  PROVE  /\ s \o u \in Seq(X) /\ Len(s \o u) = Len(s) + Len(u)
         /\ \A i \in 1 .. Len(s) : (s \o u)[i] = s[i]
         /\ \A i \in 1 .. Len(u) : (s \o u)[Len(s) + i] = u[i]
OBVIOUS

\* The first n bytes of a video.
Prefix(v, n) == [i \in 1 .. n |-> Byte(v, i)]

LEMMA PrefixType ==
  ASSUME NEW v \in Videos, NEW n \in Nat
  PROVE  Prefix(v, n) \in Seq(Bytes) /\ Len(Prefix(v, n)) = n
<1>1. \A i \in 1 .. n : Byte(v, i) \in Bytes
  BY DEF Byte, Bytes
<1> QED BY <1>1 DEF Prefix

LEMMA SliceType ==
  ASSUME NEW v \in Videos, size[v] \in Nat, NEW k \in Nat, k * SizeSlice <= size[v]
  PROVE  Slice(v, k) \in Seq(Bytes) /\ Len(Slice(v, k)) = SliceLength(v, k)
<1>1. SliceLength(v, k) \in Nat /\ k * SizeSlice \in Nat
  BY SliceSize, HalfType, Times
<1>2. \A i \in 1 .. SliceLength(v, k) : Byte(v, k * SizeSlice + i) \in Bytes
  BY <1>1 DEF Byte, Bytes
<1> QED BY <1>1, <1>2 DEF Slice

LEMMA PrefixGrows ==
  ASSUME NEW v \in Videos, size[v] \in Nat, NEW k \in Nat, k * SizeSlice <= size[v]
  PROVE  Prefix(v, k * SizeSlice) \o Slice(v, k)
           = Prefix(v, k * SizeSlice + SliceLength(v, k))
<1>1. PICK a \in Nat, l \in Nat : a = k * SizeSlice /\ l = SliceLength(v, k)
  <2>1. k * SizeSlice \in Nat /\ SliceLength(v, k) \in Nat
    BY SliceSize, HalfType, Times
  <2> QED BY <2>1, Zenon
<1>2. /\ Prefix(v, a) \in Seq(Bytes) /\ Len(Prefix(v, a)) = a
      /\ Slice(v, k) \in Seq(Bytes) /\ Len(Slice(v, k)) = l
      /\ Prefix(v, a + l) \in Seq(Bytes) /\ Len(Prefix(v, a + l)) = a + l
  BY <1>1, PrefixType, SliceType
<1>3. PICK f \in Seq(Bytes) : f = Prefix(v, a) \o Slice(v, k)
  BY <1>2, Joined
<1>4. /\ Len(f) = a + l
      /\ \A i \in 1 .. a : f[i] = Prefix(v, a)[i]
      /\ \A i \in 1 .. l : f[a + i] = Slice(v, k)[i]
  <2>1. PICK p \in Seq(Bytes), q \in Seq(Bytes) : p = Prefix(v, a) /\ q = Slice(v, k)
    BY <1>2, Zenon
  <2>2. Len(p) = a /\ Len(q) = l /\ f = p \o q
    BY <1>2, <1>3, <2>1
  <2>3. /\ Len(p \o q) = Len(p) + Len(q)
        /\ \A i \in 1 .. Len(p) : (p \o q)[i] = p[i]
        /\ \A i \in 1 .. Len(q) : (p \o q)[Len(p) + i] = q[i]
    BY Joined
  <2> QED BY <2>1, <2>2, <2>3
<1>5. ASSUME NEW i \in 1 .. a + l PROVE f[i] = Prefix(v, a + l)[i]
  <2>1. Prefix(v, a + l)[i] = Byte(v, i)
    BY DEF Prefix
  <2>2. CASE i <= a
    BY <1>4, <2>1, <2>2 DEF Prefix
  <2>3. CASE i > a
    <3>1. PICK j \in 1 .. l : i = a + j
      <4>1. i - a \in 1 .. l /\ i = a + (i - a)
        BY <2>3
      <4> QED BY <4>1
    <3>2. Slice(v, k)[j] = Byte(v, a + j)
      BY <1>1 DEF Slice
    <3> QED BY <1>4, <2>1, <3>1, <3>2
  <2> QED BY <2>2, <2>3
<1>6. f = Prefix(v, a + l)
  BY <1>2, <1>4, <1>5, SMTT(30)
<1> QED BY <1>1, <1>3, <1>6

LEMMA EncryptedType ==
  ASSUME NEW v \in Videos, size[v] \in Nat, NEW k \in Nat, k * SizeSlice <= size[v]
  PROVE  /\ EncryptSlice(v, k) \in Seq(Cells)
         /\ Len(EncryptSlice(v, k)) = Padded(SliceLength(v, k))
         /\ \A i \in 1 .. Padded(SliceLength(v, k)) :
              EncryptSlice(v, k)[i] = [video |-> v, slice |-> k, at |-> i]
<1>1. Padded(SliceLength(v, k)) \in Nat
  BY Encrypted
<1>2. \A i \in 1 .. Padded(SliceLength(v, k)) :
        [video |-> v, slice |-> k, at |-> i] \in Cells
  BY <1>1 DEF Cells
<1> QED BY <1>1, <1>2 DEF EncryptSlice

(***************************************************************************)
(* The inductive invariant.                                                *)
(***************************************************************************)
Rows == [sizeFileEnc : Ints, totalSlice : Nat]

Locals == [video : Videos \cup {"none"}, slice : Nat, total : Nat,
           data : Seq(Bytes), file : Seq(Bytes)]

TypeInv ==
  /\ size \in [Videos -> Nat]
  /\ posting \in [Videos -> {"new", "slice", "success", "failed"}]
  /\ current \in [Videos -> Nat]
  /\ disk \in [Videos -> Seq(Cells)]
  /\ row \in [Videos -> SUBSET Rows]
  /\ pc \in [Tabs -> {"idle", "request", "write", "saved", "failed", "blocked", "left"}]
  /\ loc \in [Tabs -> Locals]
  /\ temp \in [Names -> Seq(Bytes)]
  /\ saved \in [Tabs -> Seq(Bytes)]
  /\ disturbed \subseteq Tabs
  /\ faults \in Nat

\* The last slice has been posted, or the upload has failed: no row is made any more.
Known(v) ==
  \/ posting[v] \in {"success", "failed"}
  \/ posting[v] = "slice" /\ current[v] = NumSlice(v)

\* The first n bytes of encrypted slice k are in the file, where they belong if
\* the slices before it are full.
Holds(v, k, n) ==
  \A a \in 1 .. n :
    /\ k * Full + a <= Len(disk[v])
    /\ disk[v][k * Full + a] = [video |-> v, slice |-> k, at |-> a]

\* An upload has stored all slices before the one it posts next.
UploadInv(v) ==
  /\ posting[v] = "new" => current[v] = 0 /\ disk[v] = <<>> /\ row[v] = {}
  /\ posting[v] = "slice" =>
       current[v] * SizeSlice <= size[v] /\ current[v] <= NumSlice(v)
  /\ posting[v] = "slice" /\ current[v] < NumSlice(v) =>
       /\ row[v] = {} /\ Len(disk[v]) = current[v] * Full
       /\ \A k \in Nat : k < current[v] => Holds(v, k, Full)

\* What a row says of the file: an average that is a full slice is right, and
\* then the last slice is complete.
Averaged(v, r) ==
  NumSlice(v) > 1 =>
    /\ r.sizeFileEnc <= Full
    /\ r.sizeFileEnc = Full =>
         Holds(v, NumSlice(v) - 1, Last(v)) /\ (NumSlice(v) - 1) * Full < Half

Single(v, r) ==
  NumSlice(v) = 1 => r.sizeFileEnc <= Len(disk[v]) /\ Holds(v, 0, r.sizeFileEnc)

\* Without failures the row is right, unless an int has overflowed.
Whole(v, r) ==
  faults = 0 /\ WithinInt(v) =>
    /\ Holds(v, NumSlice(v) - 1, Last(v))
    /\ r.sizeFileEnc = IF NumSlice(v) > 1 THEN Full ELSE Last(v)
    /\ Last(v) = Full \/ Len(disk[v]) = (NumSlice(v) - 1) * Full + Last(v)

Registered(v, r) ==
  /\ r.totalSlice = NumSlice(v) /\ NumSlice(v) > 0
  /\ \A k \in Nat : k + 1 < NumSlice(v) => Holds(v, k, Full)
  /\ Averaged(v, r) /\ Single(v, r) /\ Whole(v, r)

RowInv(v) ==
  /\ \A r \in row[v] : Known(v) /\ Registered(v, r)
  /\ \A r, s \in row[v] : r = s

\* The row says that the slices are full, so each begins where it is looked for.
Aligned(v) == NumSlice(v) > 1 /\ \A r \in row[v] : r.sizeFileEnc = Full

\* A page that has got past slice 0 asks for slices that begin where they should.
Asking(t) ==
  /\ pc[t] \in {"request", "write", "saved", "failed"} =>
       loc[t].video \in Videos /\ Known(loc[t].video)
  /\ pc[t] \in {"request", "write"} /\ loc[t].slice > 0 =>
       Aligned(loc[t].video) /\ loc[t].slice < NumSlice(loc[t].video)
  /\ pc[t] = "write" =>
       /\ loc[t].slice < NumSlice(loc[t].video)
       /\ loc[t].data = Slice(loc[t].video, loc[t].slice)
       /\ loc[t].total = NumSlice(loc[t].video)
       /\ loc[t].slice + 1 < loc[t].total => Aligned(loc[t].video)

\* Undisturbed, it has written the slices before.
Written(t) ==
  t \notin disturbed =>
    /\ pc[t] \in {"request", "write"} /\ loc[t].slice > 0 =>
         /\ loc[t].file = Prefix(loc[t].video, loc[t].slice * SizeSlice)
         /\ t \in Chrome => temp[FileName[loc[t].video]] = loc[t].file
    /\ pc[t] = "saved" => saved[t] = Content(loc[t].video)

FailedForAReason(t) ==
  pc[t] = "failed" /\ faults = 0 /\ row[loc[t].video] # {} =>
    ~WithinInt(loc[t].video)

TransferInv ==
  /\ TypeInv
  /\ \A v \in Videos : UploadInv(v) /\ RowInv(v)
  /\ \A t \in Tabs : Asking(t) /\ Written(t) /\ FailedForAReason(t)

(***************************************************************************)
(* What a post stores.                                                     *)
(***************************************************************************)
LEMMA FullStays == Full' = Full
BY DEF Full, Padded

LEMMA SameSize ==
  ASSUME NEW v, size'[v] = size[v]
  PROVE  /\ NumSlice(v)' = NumSlice(v) /\ Last(v)' = Last(v)
         /\ WithinInt(v)' = WithinInt(v) /\ Content(v)' = Content(v)
         /\ \A k \in Nat : Slice(v, k)' = Slice(v, k)
<1>1. NumSlice(v)' = NumSlice(v)
  BY DEF NumSlice
<1>2. \A k \in Int : SliceLength(v, k)' = SliceLength(v, k)
  BY DEF SliceLength
<1>3. Last(v)' = Last(v)
  BY <1>1 DEF Last, Padded, SliceLength
<1>4. WithinInt(v)' = WithinInt(v)
  BY <1>1 DEF WithinInt, Padded
<1>5. Content(v)' = Content(v)
  BY DEF Content, Byte
<1>6. \A k \in Nat : Slice(v, k)' = Slice(v, k)
  BY <1>2 DEF Slice, Byte
<1> QED BY <1>1, <1>3, <1>4, <1>5, <1>6

LEMMA HoldsStays ==
  ASSUME NEW v \in Videos, disk[v] \in Seq(Cells), NEW bytes \in Seq(Cells),
         disk'[v] = disk[v] \o bytes, NEW k \in Nat, NEW n \in Int, Holds(v, k, n)
  PROVE  Holds(v, k, n)'
<1>1. /\ Len(disk'[v]) = Len(disk[v]) + Len(bytes) /\ Len(bytes) \in Nat
      /\ Len(disk[v]) \in Nat
      /\ \A i \in 1 .. Len(disk[v]) : disk'[v][i] = disk[v][i]
  BY Joined
<1>2. PICK c \in Nat : c = k * Full
  <2>1. Full \in Nat
    BY PaddedType, HalfType DEF Full
  <2> QED BY <2>1, Times
<1>3. ASSUME NEW a \in 1 .. n
      PROVE  /\ c + a <= Len(disk'[v])
             /\ disk'[v][c + a] = [video |-> v, slice |-> k, at |-> a]
  <2>1. c + a <= Len(disk[v]) /\ disk[v][c + a] = [video |-> v, slice |-> k, at |-> a]
    BY <1>2 DEF Holds
  <2>2. c + a \in 1 .. Len(disk[v])
    BY <1>1, <2>1
  <2> QED BY <1>1, <2>1, <2>2
<1> QED BY <1>2, <1>3, FullStays DEF Holds

\* The bytes of a slice that are stored after the full ones before it.
LEMMA HoldsNew ==
  ASSUME NEW v \in Videos, disk[v] \in Seq(Cells), NEW k \in Nat,
         Len(disk[v]) = k * Full, NEW bytes \in Seq(Cells),
         disk'[v] = disk[v] \o bytes,
         \A a \in 1 .. Len(bytes) : bytes[a] = [video |-> v, slice |-> k, at |-> a]
  PROVE  Holds(v, k, Len(bytes))' /\ Len(disk'[v]) = k * Full + Len(bytes)
<1>1. /\ Len(disk'[v]) = Len(disk[v]) + Len(bytes) /\ Len(bytes) \in Nat
      /\ Len(disk[v]) \in Nat
      /\ \A i \in 1 .. Len(bytes) : disk'[v][Len(disk[v]) + i] = bytes[i]
  BY Joined
<1>2. PICK c \in Nat : c = k * Full /\ c = Len(disk[v])
  BY <1>1
<1>3. ASSUME NEW a \in 1 .. Len(bytes)
      PROVE  /\ c + a <= Len(disk'[v])
             /\ disk'[v][c + a] = [video |-> v, slice |-> k, at |-> a]
  BY <1>1, <1>2, SMTT(30)
<1>4. \A a \in 1 .. Len(bytes) :
        /\ c + a <= Len(disk'[v])
        /\ disk'[v][c + a] = [video |-> v, slice |-> k, at |-> a]
  BY <1>3
<1>5. \A n : n = Len(bytes) => Holds(v, k, n)'
  BY <1>2, <1>4, FullStays DEF Holds
<1> QED BY <1>1, <1>2, <1>5

\* The row made when m bytes of the last slice have been stored.
LEMMA NewRowRight ==
  ASSUME NEW v \in Videos, size[v] \in Nat, current[v] \in Nat,
         current[v] = NumSlice(v) - 1, NEW m \in Nat, m <= Last(v),
         NEW bytes, Len(bytes) = current[v] * Full + m
  PROVE  /\ NewRow(v, bytes) \in Rows /\ NewRow(v, bytes).totalSlice = NumSlice(v)
         /\ NumSlice(v) > 1 =>
              /\ NewRow(v, bytes).sizeFileEnc <= Full
              /\ NewRow(v, bytes).sizeFileEnc = Full =>
                   m = Last(v) /\ (NumSlice(v) - 1) * Full < Half
         /\ NumSlice(v) = 1 => NewRow(v, bytes).sizeFileEnc <= Len(bytes)
         /\ m = Last(v) /\ WithinInt(v) =>
              NewRow(v, bytes).sizeFileEnc = IF NumSlice(v) > 1 THEN Full ELSE Last(v)
<1>1. PICK n \in Nat : /\ n = current[v] /\ NumSlice(v) = n + 1 /\ n < NumSlice(v)
                       /\ NumSlice(v) > 0 /\ NumSlice(v) - 1 = n
  BY SliceCount
<1>2. PICK l \in Nat \ {0}, p \in Nat \ {0} : l = Last(v) /\ p = Full /\ l <= p
  <2>1. Last(v) \in Nat \ {0} /\ Full \in Nat \ {0} /\ Last(v) <= Full
    BY <1>1, Encrypted, Zenon
  <2> QED BY <2>1, Zenon
<1>3. PICK c \in Nat : c = n * p /\ Len(bytes) = c + m
  <2>1. n * p \in Nat
    BY Times
  <2> QED BY <1>1, <1>2, <2>1
<1>4. Len(EncryptSlice(v, current[v])) = l
  <2>1. n * SizeSlice <= size[v]
    BY <1>1, InFile
  <2> QED BY <1>1, <1>2, <2>1, EncryptedType DEF Last
<1>5. NewRow(v, bytes) =
        [sizeFileEnc |-> IF n + 1 > 1 THEN Div(ToInt(ToInt(c + m) - l), (n + 1) - 1)
                         ELSE ToInt(c + m),
         totalSlice |-> n + 1]
  BY <1>1, <1>3, <1>4 DEF NewRow
<1>6. WithinInt(v) => c + p < Half
  <2>1. (n + 1) * p = n * p + p /\ p * (n + 1) = (n + 1) * p
    BY Times
  <2> QED BY <1>1, <1>2, <1>3, <2>1 DEF WithinInt, Full
<1>7. CASE n = 0
  <2>1. NewRow(v, bytes) = [sizeFileEnc |-> ToInt(c + m), totalSlice |-> n + 1]
    BY <1>5, <1>7
  <2>2. PICK e \in Ints : e = ToInt(c + m) /\ e <= c + m /\ e \in Int
    <3>1. c + m \in Nat /\ c + m \in Int
      OBVIOUS
    <3>2. ToInt(c + m) \in Ints /\ ToInt(c + m) <= c + m
      BY <3>1, ToIntWraps, ToIntBelow
    <3> QED BY <3>2, HalfType DEF Ints
  <2>3. c = 0
    BY <1>3, <1>7
  <2>4. ASSUME m = l, WithinInt(v) PROVE ToInt(c + m) = l
    <3>1. c + m \in Ints
      BY <1>2, <1>6, <2>3, <2>4, HalfType DEF Ints
    <3> QED BY <2>3, <2>4, <3>1, ToIntExact
  <2>5. NewRow(v, bytes) \in Rows /\ NewRow(v, bytes).totalSlice = n + 1
    BY <2>1, <2>2 DEF Rows
  <2>6. NewRow(v, bytes).sizeFileEnc = e
    BY <2>1, <2>2
  <2>7. e <= Len(bytes) /\ (m = l /\ WithinInt(v) => e = l) /\ ~(n + 1 > 1)
    BY <1>3, <1>7, <2>2, <2>4
  <2> QED BY <1>1, <1>2, <2>5, <2>6, <2>7
<1>8. CASE n > 0
  <2> DEFINE z == ToInt(ToInt(c + m) - l)
  <2>1. NewRow(v, bytes) = [sizeFileEnc |-> Div(z, n), totalSlice |-> n + 1]
    BY <1>5, <1>8
  <2>2. c >= p
    <3>1. 1 * p <= n * p
      BY <1>8, TimesMono
    <3> QED BY <1>3, <3>1
  <2>3. /\ z \in Ints /\ z <= (c + m) - l
        /\ (c + m) - l < Half => z = (c + m) - l
    <3>1. c + m \in Int /\ l \in Int /\ (c + m) - l >= 0
      BY <1>2, <2>2
    <3> QED BY <3>1, ToIntTwice
  <2> HIDE DEF z
  <2>4. z \in Int
    BY <2>3, HalfType DEF Ints
  <2>5. z <= n * p
    BY <1>2, <1>3, <2>3, <2>4
  <2>6. /\ Div(z, n) \in Ints /\ Div(z, n) <= p
        /\ Div(z, n) = p => z = n * p
        /\ z = n * p => Div(z, n) = p
    BY <1>8, <2>3, <2>5, Average
  <2>7. ASSUME Div(z, n) = p PROVE m = l /\ c < Half
    BY <1>2, <1>3, <2>3, <2>4, <2>6, <2>7, HalfType DEF Ints
  <2>8. ASSUME m = l, WithinInt(v) PROVE Div(z, n) = p
    <3>1. c \in Int /\ m \in Int /\ l \in Int /\ p \in Int /\ p > 0 /\ Half \in Int
      BY <1>2, <1>3, HalfType
    <3>2. (c + m) - l = c /\ c < Half
      BY <1>6, <2>8, <3>1
    <3>3. z = c
      BY <2>3, <3>2
    <3> QED BY <1>3, <2>6, <3>3
  <2>9. PICK e \in Ints : e = Div(z, n) /\ e <= p
    BY <2>6
  <2>10. NewRow(v, bytes) \in Rows /\ NewRow(v, bytes).totalSlice = n + 1
    BY <2>1, <2>9 DEF Rows
  <2>11. NewRow(v, bytes).sizeFileEnc = e
    BY <2>1, <2>9
  <2>12. n + 1 > 1 /\ n + 1 # 1
    BY <1>8
  <2> QED BY <1>1, <1>2, <1>3, <2>7, <2>8, <2>9, <2>10, <2>11, <2>12
<1> QED BY <1>7, <1>8

\* A row stays right while the file grows: only the page of a last slice that
\* is full posts one more.
LEMMA RegisteredStays ==
  ASSUME NEW v \in Videos, size[v] \in Nat, size'[v] = size[v],
         NEW r \in Rows, Registered(v, r), faults' = 0 => faults = 0,
         \A k \in Nat, n \in Int : Holds(v, k, n) => Holds(v, k, n)',
         Len(disk[v]) \in Nat, Len(disk'[v]) \in Nat, Len(disk[v]) <= Len(disk'[v]),
         Last(v) = Full \/ Len(disk'[v]) = Len(disk[v])
  PROVE  Registered(v, r)'
<1>1. /\ NumSlice(v)' = NumSlice(v) /\ Last(v)' = Last(v)
      /\ WithinInt(v)' = WithinInt(v) /\ Full' = Full
  BY SameSize, FullStays
<1>2. PICK n \in Nat : n = NumSlice(v) - 1 /\ NumSlice(v) = n + 1 /\ NumSlice(v) > 0
  BY SliceCount DEF Registered
<1>3. Full \in Int /\ Last(v) \in Int /\ r.sizeFileEnc \in Int
  <2>1. Full \in Nat \ {0} /\ Last(v) \in Nat \ {0}
    BY Encrypted, <1>2, Zenon
  <2> QED BY <2>1, HalfType DEF Rows, Ints
<1>4. r.totalSlice = NumSlice(v)' /\ NumSlice(v)' > 0
  BY <1>1 DEF Registered
<1>5. \A k \in Nat : k + 1 < NumSlice(v)' => Holds(v, k, Full)'
  BY <1>1, <1>3 DEF Registered
<1>6. Holds(v, n, Last(v)) => Holds(v, n, Last(v))'
  <2>1. PICK l \in Int : l = Last(v) /\ l = Last(v)'
    BY <1>1, <1>3
  <2>2. Holds(v, n, l) => Holds(v, n, l)'
    OBVIOUS
  <2> QED BY <2>1, <2>2
<1>7. Averaged(v, r)'
  BY <1>1, <1>2, <1>6 DEF Registered, Averaged
<1>8. Single(v, r)'
  <2>1. Holds(v, 0, r.sizeFileEnc) => Holds(v, 0, r.sizeFileEnc)'
    BY <1>3
  <2> QED BY <1>1, <1>3, <2>1 DEF Registered, Single
<1>9. Whole(v, r)'
  BY <1>1, <1>2, <1>6 DEF Registered, Whole
<1>10. r' = r
  OBVIOUS
<1> QED BY <1>4, <1>5, <1>7, <1>8, <1>9 DEF Registered

\* What the storage does with the first m bytes of the slice that is posted.
LEMMA Stored ==
  ASSUME NEW v \in Videos, TypeInv, UploadInv(v), RowInv(v), posting[v] = "slice",
         NEW c \in Nat, c = current[v],
         NEW bytes \in Seq(Cells), Len(bytes) <= Padded(SliceLength(v, c)),
         \A a \in 1 .. Len(bytes) : bytes[a] = [video |-> v, slice |-> c, at |-> a],
         Store(v, bytes), size'[v] = size[v],
         faults' = 0 =>
           faults = 0 /\ Len(bytes) = Padded(SliceLength(v, c))
  PROVE  /\ disk' \in [Videos -> Seq(Cells)] /\ row' \in [Videos -> SUBSET Rows]
         /\ \A u \in Videos \ {v} : disk'[u] = disk[u] /\ row'[u] = row[u]
         /\ \A r \in row'[v] : Registered(v, r)'
         /\ \A r, s \in row'[v] : r = s
         /\ c # NumSlice(v) - 1 => row'[v] = row[v]
         /\ c < NumSlice(v) =>
              /\ Len(disk'[v]) = c * Full + Len(bytes)
              /\ \A k \in Nat : k < c => Holds(v, k, Full)'
              /\ Holds(v, c, Len(bytes))'
<1>1. /\ disk[v] \in Seq(Cells) /\ size[v] \in Nat
      /\ row[v] \subseteq Rows /\ faults \in Nat
  BY DEF TypeInv
<1>2. PICK d \in Seq(Cells) : d = disk[v] \o bytes
  BY <1>1, Joined
<1>3. disk' = [disk EXCEPT ![v] = d] /\ Register(v, d)
  BY <1>2 DEF Store
<1>4. disk' \in [Videos -> Seq(Cells)] /\ disk'[v] = disk[v] \o bytes
  BY <1>2, <1>3 DEF TypeInv
<1>5. \A u \in Videos \ {v} : disk'[u] = disk[u] /\ row'[u] = row[u]
  BY <1>3 DEF TypeInv, Register
<1>6. c # NumSlice(v) - 1 => row' = row
  BY <1>3 DEF Register
<1>7. \A k \in Nat, n \in Int : Holds(v, k, n) => Holds(v, k, n)'
  BY <1>1, <1>4, HoldsStays
<1>8. /\ Len(disk[v]) \in Nat /\ Len(disk'[v]) \in Nat /\ Len(bytes) \in Nat
      /\ Len(disk'[v]) = Len(disk[v]) + Len(bytes)
  BY <1>1, <1>4, Joined
<1>9. Full \in Nat \ {0}
  BY PaddedType, HalfType DEF Full
<1>10. ASSUME c < NumSlice(v)
       PROVE  /\ Len(disk'[v]) = c * Full + Len(bytes)
              /\ \A k \in Nat : k < c => Holds(v, k, Full)'
              /\ Holds(v, c, Len(bytes))'
  <2>1. /\ Len(disk[v]) = c * Full
        /\ \A k \in Nat : k < c => Holds(v, k, Full)
    BY <1>10 DEF UploadInv
  <2>2. Len(disk'[v]) = c * Full + Len(bytes) /\ Holds(v, c, Len(bytes))'
    BY <1>1, <1>4, <2>1, HoldsNew
  <2> QED BY <1>7, <1>9, <2>1, <2>2, FullStays
<1>11. c * SizeSlice <= size[v] /\ c <= NumSlice(v)
  BY DEF UploadInv
<1>12. NumSlice(v) \in Nat /\ NumSlice(v)' = NumSlice(v) /\ Last(v)' = Last(v)
  BY <1>1, SliceCount, SameSize
<1>13. CASE c = NumSlice(v) - 1
  <2>1. row' = [row EXCEPT ![v] = {NewRow(v, d)}]
    BY <1>3, <1>13 DEF Register
  <2>2. c < NumSlice(v) /\ NumSlice(v) > 0 /\ NumSlice(v) = c + 1
    BY <1>12, <1>13
  <2>3. Last(v) = Padded(SliceLength(v, c))
    BY <1>13 DEF Last
  <2>4. Len(d) = c * Full + Len(bytes)
    BY <1>2, <1>4, <1>10, <2>2
  <2>5. PICK r \in Rows :
          /\ r = NewRow(v, d) /\ r.totalSlice = NumSlice(v)
          /\ NumSlice(v) > 1 =>
               /\ r.sizeFileEnc <= Full
               /\ r.sizeFileEnc = Full =>
                    Len(bytes) = Last(v) /\ (NumSlice(v) - 1) * Full < Half
          /\ NumSlice(v) = 1 => r.sizeFileEnc <= Len(d)
          /\ Len(bytes) = Last(v) /\ WithinInt(v) =>
               r.sizeFileEnc = IF NumSlice(v) > 1 THEN Full ELSE Last(v)
    <3>1. /\ Len(bytes) \in Nat /\ Len(bytes) <= Last(v)
          /\ current[v] \in Nat /\ current[v] = NumSlice(v) - 1
          /\ Len(d) = current[v] * Full + Len(bytes)
      BY <1>8, <1>13, <2>3, <2>4
    <3>2. /\ NewRow(v, d) \in Rows /\ NewRow(v, d).totalSlice = NumSlice(v)
          /\ NumSlice(v) > 1 =>
               /\ NewRow(v, d).sizeFileEnc <= Full
               /\ NewRow(v, d).sizeFileEnc = Full =>
                    Len(bytes) = Last(v) /\ (NumSlice(v) - 1) * Full < Half
          /\ NumSlice(v) = 1 => NewRow(v, d).sizeFileEnc <= Len(d)
          /\ Len(bytes) = Last(v) /\ WithinInt(v) =>
               NewRow(v, d).sizeFileEnc = IF NumSlice(v) > 1 THEN Full ELSE Last(v)
      BY <1>1, <3>1, NewRowRight
    <3> QED BY <3>2, Zenon
  <2>6. row' \in [Videos -> SUBSET Rows] /\ row'[v] = {r}
    <3>1. {NewRow(v, d)} = {r} /\ {r} \in SUBSET Rows
      BY <2>5
    <3>2. row' = [row EXCEPT ![v] = {r}]
      BY <2>1, <3>1, Zenon
    <3> QED BY <3>1, <3>2 DEF TypeInv
  <2>7. Registered(v, r)'
    <3>1. PICK l \in Nat, e \in Int : /\ l = Last(v) /\ l = Last(v)'
                                      /\ e = r.sizeFileEnc
      <4>1. Last(v) \in Nat \ {0}
        BY <1>1, <2>2, Encrypted, Zenon
      <4>2. r.sizeFileEnc \in Int
        BY HalfType DEF Rows, Ints
      <4> QED BY <1>12, <4>1, <4>2
    <3>2. (NumSlice(v) - 1) * Full = c * Full /\ c * Full \in Nat
      BY <1>9, <1>13, Times
    <3>3. /\ c + 1 > 1 => /\ e <= Full
                          /\ e = Full => Len(bytes) = l /\ c * Full < Half
          /\ c = 0 => e <= Len(bytes)
          /\ Len(bytes) = l /\ WithinInt(v) => e = IF c + 1 > 1 THEN Full ELSE l
      <4>1. c = 0 => Len(d) = Len(bytes)
        BY <1>8, <1>9, <2>4
      <4> QED BY <2>2, <2>5, <3>1, <3>2, <4>1
    <3>4. /\ Len(disk'[v]) = c * Full + Len(bytes) /\ Holds(v, c, Len(bytes))'
          /\ \A k \in Nat : k < c => Holds(v, k, Full)'
          /\ Len(bytes) = l => Holds(v, c, l)'
      BY <1>10, <2>2
    <3>5. /\ Full' = Full /\ WithinInt(v)' = WithinInt(v) /\ NumSlice(v)' = c + 1
          /\ (c + 1) - 1 = c
      BY <1>12, <2>2, FullStays, SameSize
    <3>6. Averaged(v, r)'
      <4>1. SUFFICES ASSUME c + 1 > 1
                     PROVE  e <= Full /\ (e = Full => Holds(v, c, l)' /\ c * Full < Half)
        BY <3>1, <3>5 DEF Averaged
      <4> QED BY <3>3, <3>4, <4>1
    <3>7. Single(v, r)'
      <4>1. SUFFICES ASSUME c = 0 PROVE e <= Len(disk'[v]) /\ Holds(v, 0, e)'
        BY <3>1, <3>5 DEF Single
      <4>2. e <= Len(bytes) /\ Len(disk'[v]) = Len(bytes)
        BY <1>8, <1>9, <3>3, <3>4, <4>1
      <4>3. Holds(v, c, Len(bytes))' => Holds(v, c, e)'
        BY <1>8, <4>2 DEF Holds
      <4> QED BY <3>4, <4>1, <4>2, <4>3
    <3>9. Whole(v, r)'
      <4>1. SUFFICES ASSUME faults' = 0, WithinInt(v)
                     PROVE  /\ Holds(v, c, l)'
                            /\ e = IF c + 1 > 1 THEN Full ELSE l
                            /\ Len(disk'[v]) = c * Full + l
        BY <3>1, <3>5 DEF Whole
      <4>2. Len(bytes) = l
        BY <2>3, <3>1, <4>1
      <4> QED BY <3>3, <3>4, <4>1, <4>2
    <3>8. \A k \in Nat : k + 1 < NumSlice(v)' => Holds(v, k, Full)'
      BY <3>4, <3>5
    <3>10. r.totalSlice = NumSlice(v)' /\ NumSlice(v)' > 0
      BY <1>12, <2>2, <2>5
    <3> QED BY <3>6, <3>7, <3>8, <3>9, <3>10 DEF Registered
  <2> QED BY <1>4, <1>5, <1>10, <1>13, <2>6, <2>7
<1>14. CASE c # NumSlice(v) - 1
  <2>1. row' = row
    BY <1>6, <1>14
  <2>2. ASSUME NEW r \in row[v] PROVE Registered(v, r)'
    <3>1. r \in Rows /\ Known(v) /\ Registered(v, r)
      BY <1>1 DEF RowInv
    <3>2. c = NumSlice(v) /\ NumSlice(v) > 0
      BY <3>1 DEF Known, Registered
    <3>3. Last(v) = Full
      BY <1>1, <1>11, <3>2, Encrypted
    <3>4. Len(disk[v]) <= Len(disk'[v])
      BY <1>8
    <3> QED BY <1>1, <1>7, <1>8, <3>1, <3>3, <3>4, RegisteredStays
  <2>3. \A r, s \in row'[v] : r = s
    BY <2>1 DEF RowInv
  <2> QED BY <1>4, <1>5, <1>10, <1>14, <2>1, <2>2, <2>3 DEF TypeInv
<1> QED BY <1>13, <1>14

(***************************************************************************)
(* What a step of an upload changes.                                       *)
(***************************************************************************)
ServerTypes ==
  /\ size \in [Videos -> Nat]
  /\ posting \in [Videos -> {"new", "slice", "success", "failed"}]
  /\ current \in [Videos -> Nat]
  /\ disk \in [Videos -> Seq(Cells)]
  /\ row \in [Videos -> SUBSET Rows]
  /\ faults \in Nat

\* A step concerns one video; once its last slice is posted, its size stays and
\* its row can only go.
Changes(v) ==
  /\ \A u \in Videos \ {v} :
       /\ size'[u] = size[u] /\ posting'[u] = posting[u] /\ current'[u] = current[u]
       /\ disk'[u] = disk[u] /\ row'[u] = row[u]
  /\ Known(v) => Known(v)' /\ size'[v] = size[v] /\ row'[v] \subseteq row[v]
  /\ faults' = 0 => faults = 0

LEMMA ReadNext ==
  ASSUME NEW v \in Videos, TypeInv, posting[v] = "slice", size'[v] = size[v],
         NEW c \in Nat, c = current[v], ReadNextSlice(v, current[v] + 1)
  PROVE  /\ posting' \in [Videos -> {"new", "slice", "success", "failed"}]
         /\ current' \in [Videos -> Nat]
         /\ \A u \in Videos \ {v} : posting'[u] = posting[u] /\ current'[u] = current[u]
         /\ \/ posting'[v] = "success"
            \/ /\ posting'[v] = "slice" /\ current'[v] = c + 1
               /\ (c + 1) * SizeSlice <= size[v] /\ c + 1 <= NumSlice(v)
         /\ c + 1 >= NumSlice(v) => Known(v)'
<1>1. size[v] \in Nat /\ NumSlice(v) \in Nat /\ NumSlice(v)' = NumSlice(v)
  BY SliceCount, SameSize DEF TypeInv
<1>2. (c + 1) * SizeSlice \in Nat
  BY HalfType, Times
<1>3. CASE (c + 1) * SizeSlice > size[v] \/ c + 1 > NumSlice(v)
  <2>1. posting' = [posting EXCEPT ![v] = "success"] /\ current' = current
    BY <1>3 DEF ReadNextSlice
  <2> QED BY <2>1 DEF TypeInv, Known
<1>4. CASE ~((c + 1) * SizeSlice > size[v] \/ c + 1 > NumSlice(v))
  <2>1. posting' = [posting EXCEPT ![v] = "slice"] /\ current' = [current EXCEPT ![v] = c + 1]
    BY <1>4 DEF ReadNextSlice
  <2>2. posting'[v] = "slice" /\ current'[v] = c + 1
    BY <2>1 DEF TypeInv
  <2>3. c + 1 >= NumSlice(v) => Known(v)'
    BY <1>1, <1>4, <2>2 DEF Known
  <2> QED BY <1>1, <1>2, <1>4, <2>1, <2>2, <2>3 DEF TypeInv
<1> QED BY <1>3, <1>4

LEMMA ChooseStep ==
  ASSUME TransferInv, NEW v \in Videos, Choose(v)
  PROVE  ServerTypes' /\ Changes(v) /\ UploadInv(v)' /\ RowInv(v)'
<1>1. TypeInv /\ UploadInv(v) /\ RowInv(v) /\ posting[v] = "new"
  BY DEF TransferInv, Choose
<1>2. PICK n \in Sizes[v] : size' = [size EXCEPT ![v] = n]
  BY DEF Choose
<1>3. /\ n \in Nat /\ posting' = [posting EXCEPT ![v] = "slice"]
      /\ current' = current /\ disk' = disk /\ row' = row /\ faults' = faults
  BY Bounds DEF Choose, serverVars
<1>4. ServerTypes' /\ size'[v] = n /\ posting'[v] = "slice"
  BY <1>1, <1>2, <1>3 DEF ServerTypes, TypeInv
<1>5. Changes(v)
  BY <1>1, <1>2, <1>3 DEF Changes, TypeInv, Known
<1>6. current'[v] = 0 /\ disk'[v] = <<>> /\ row'[v] = {}
  BY <1>1, <1>3 DEF UploadInv
<1>7. NumSlice(v)' \in Nat
  <2>1. NumSlice(v)' = IF n % SizeSlice = 0 THEN n \div SizeSlice ELSE n \div SizeSlice + 1
    BY <1>4 DEF NumSlice
  <2>2. n \div SizeSlice \in Nat
    BY <1>3, HalfType, Quotient
  <2> QED BY <2>1, <2>2
<1>8. UploadInv(v)'
  <2>1. 0 * SizeSlice = 0 /\ 0 * Full = 0
    <3>1. Full \in Nat \ {0}
      BY PaddedType, HalfType DEF Full
    <3> QED BY <3>1, HalfType
  <2>2. Len(disk'[v]) = 0
    BY <1>6
  <2> QED BY <1>3, <1>4, <1>6, <1>7, <2>1, <2>2, FullStays DEF UploadInv
<1>9. RowInv(v)'
  BY <1>6 DEF RowInv
<1> QED BY <1>4, <1>5, <1>8, <1>9

\* What Stored tells of the three ways in which a post ends.
LEMMA StoredRow ==
  ASSUME TransferInv, NEW v \in Videos, posting[v] = "slice", size'[v] = size[v],
         NEW c \in Nat, c = current[v],
         c # NumSlice(v) - 1 => row'[v] = row[v], Known(v)' \/ c + 1 < NumSlice(v)
  PROVE  /\ row'[v] # {} => Known(v)'
         /\ Known(v) => row'[v] = row[v] /\ c = NumSlice(v)
<1>1. UploadInv(v) /\ size[v] \in Nat /\ NumSlice(v) \in Nat
  BY SliceCount DEF TransferInv, TypeInv
<1>2. c <= NumSlice(v) /\ (c < NumSlice(v) => row[v] = {})
  BY <1>1 DEF UploadInv
<1>3. Known(v) => c = NumSlice(v)
  BY DEF Known
<1> QED BY <1>1, <1>2, <1>3

LEMMA PostStep ==
  ASSUME TransferInv, NEW v \in Videos, Post(v)
  PROVE  ServerTypes' /\ Changes(v) /\ UploadInv(v)' /\ RowInv(v)'
<1>1. /\ TypeInv /\ UploadInv(v) /\ RowInv(v) /\ posting[v] = "slice"
      /\ size' = size /\ faults' = faults /\ faults \in Nat
      /\ ReadNextSlice(v, current[v] + 1)
  BY DEF TransferInv, Post, TypeInv
<1>2. PICK c \in Nat : c = current[v]
  BY <1>1 DEF TypeInv
<1>3. /\ size[v] \in Nat /\ NumSlice(v) \in Nat /\ NumSlice(v)' = NumSlice(v)
      /\ c * SizeSlice <= size[v] /\ c <= NumSlice(v)
  BY <1>1, <1>2, SliceCount, SameSize DEF TypeInv, UploadInv
<1>4. PICK bytes \in Seq(Cells) :
        /\ bytes = EncryptSlice(v, c) /\ Len(bytes) = Padded(SliceLength(v, c))
        /\ Padded(SliceLength(v, c)) \in Nat
        /\ \A i \in 1 .. Len(bytes) : bytes[i] = [video |-> v, slice |-> c, at |-> i]
  <2>1. Padded(SliceLength(v, c)) \in Nat \ {0}
    BY <1>3, Encrypted
  <2> QED BY <1>3, <2>1, EncryptedType
<1>5. Store(v, bytes)
  BY <1>2, <1>4 DEF Post
<1>6. /\ disk' \in [Videos -> Seq(Cells)] /\ row' \in [Videos -> SUBSET Rows]
      /\ \A u \in Videos \ {v} : disk'[u] = disk[u] /\ row'[u] = row[u]
      /\ \A r \in row'[v] : Registered(v, r)'
      /\ \A r, s \in row'[v] : r = s
      /\ c # NumSlice(v) - 1 => row'[v] = row[v]
      /\ c < NumSlice(v) =>
           /\ Len(disk'[v]) = c * Full + Len(bytes)
           /\ \A k \in Nat : k < c => Holds(v, k, Full)'
           /\ Holds(v, c, Len(bytes))'
  BY <1>1, <1>2, <1>4, <1>5, Stored
<1>7. /\ posting' \in [Videos -> {"new", "slice", "success", "failed"}]
      /\ current' \in [Videos -> Nat]
      /\ \A u \in Videos \ {v} : posting'[u] = posting[u] /\ current'[u] = current[u]
      /\ \/ posting'[v] = "success"
         \/ /\ posting'[v] = "slice" /\ current'[v] = c + 1
            /\ (c + 1) * SizeSlice <= size[v] /\ c + 1 <= NumSlice(v)
      /\ c + 1 >= NumSlice(v) => Known(v)'
  BY <1>1, <1>2, ReadNext
<1>8. /\ row'[v] # {} => Known(v)'
      /\ Known(v) => row'[v] = row[v] /\ c = NumSlice(v)
  <2>1. Known(v)' \/ c + 1 < NumSlice(v)
    BY <1>3, <1>7
  <2>2. c # NumSlice(v) - 1 => row'[v] = row[v]
    BY <1>6
  <2> QED BY <1>1, <1>2, <2>1, <2>2, StoredRow
<1>10. ServerTypes'
  BY <1>1, <1>6, <1>7 DEF ServerTypes, TypeInv
<1>11. Changes(v)
  BY <1>1, <1>3, <1>6, <1>7, <1>8 DEF Changes
<1>12. RowInv(v)'
  BY <1>6, <1>8 DEF RowInv
<1>13. UploadInv(v)'
  <2>1. ASSUME posting'[v] = "slice", current'[v] < NumSlice(v)
        PROVE  /\ row'[v] = {} /\ Len(disk'[v]) = current'[v] * Full
               /\ \A k \in Nat : k < current'[v] => Holds(v, k, Full)'
    <3>1. current'[v] = c + 1 /\ c + 1 < NumSlice(v) /\ c < NumSlice(v)
      BY <1>3, <1>7, <2>1
    <3>2. Len(bytes) = Full
      BY <1>3, <1>4, <3>1, Encrypted
    <3>3. Len(disk'[v]) = (c + 1) * Full
      <4>1. Full \in Nat \ {0}
        BY PaddedType, HalfType DEF Full
      <4>2. (c + 1) * Full = c * Full + Full
        BY <4>1, Times
      <4> QED BY <1>6, <3>1, <3>2, <4>2
    <3>4. row'[v] = {}
      BY <1>1, <1>2, <1>3, <1>6, <3>1 DEF UploadInv
    <3>5. ASSUME NEW k \in Nat, k < c + 1 PROVE Holds(v, k, Full)'
      <4>1. CASE k < c
        BY <1>6, <3>1, <4>1
      <4>2. CASE k = c
        BY <1>6, <3>1, <3>2, <4>2, FullStays
      <4> QED BY <3>5, <4>1, <4>2
    <3> QED BY <3>1, <3>3, <3>4, <3>5
  <2>2. posting'[v] = "slice" =>
          current'[v] * SizeSlice <= size'[v] /\ current'[v] <= NumSlice(v)'
    BY <1>1, <1>3, <1>7
  <2>3. posting'[v] # "new"
    BY <1>7
  <2> QED BY <1>3, <2>1, <2>2, <2>3, FullStays DEF UploadInv
<1> QED BY <1>10, <1>11, <1>12, <1>13

LEMMA FaultHappens ==
  ASSUME Fault, faults \in Nat
  PROVE  faults' \in Nat /\ faults' # 0
BY DEF Fault

LEMMA Start ==
  ASSUME NEW X, NEW s \in Seq(X), NEW n \in 0 .. Len(s)
  PROVE  /\ SubSeq(s, 1, n) \in Seq(X) /\ Len(SubSeq(s, 1, n)) = n
         /\ \A i \in 1 .. n : SubSeq(s, 1, n)[i] = s[i]
OBVIOUS

LEMMA PostTornStep ==
  ASSUME TransferInv, NEW v \in Videos, PostTorn(v)
  PROVE  ServerTypes' /\ Changes(v) /\ UploadInv(v)' /\ RowInv(v)'
<1>1. /\ TypeInv /\ UploadInv(v) /\ RowInv(v) /\ posting[v] = "slice"
      /\ faults' \in Nat /\ faults' # 0
  BY FaultHappens DEF TransferInv, PostTorn, TypeInv
<1>2. PICK c \in Nat : c = current[v]
  BY <1>1 DEF TypeInv
<1>3. size' = size
  BY DEF PostTorn, Abandon
<1>4. /\ size[v] \in Nat /\ NumSlice(v) \in Nat /\ NumSlice(v)' = NumSlice(v)
      /\ c * SizeSlice <= size[v] /\ c <= NumSlice(v)
  BY <1>1, <1>2, <1>3, SliceCount, SameSize DEF TypeInv, UploadInv
<1>5. PICK e \in Seq(Cells) :
        /\ e = EncryptSlice(v, c) /\ Len(e) = Padded(SliceLength(v, c))
        /\ Len(e) \in Nat
        /\ \A i \in 1 .. Len(e) : e[i] = [video |-> v, slice |-> c, at |-> i]
  <2>1. Padded(SliceLength(v, c)) \in Nat \ {0}
    BY <1>4, Encrypted
  <2> QED BY <1>4, <2>1, EncryptedType
<1>6. PICK n \in 0 .. Len(e) : Store(v, SubSeq(e, 1, n))
  <2>1. PICK n \in {0, Len(e) \div 2} : Store(v, SubSeq(e, 1, n))
    BY <1>2, <1>5 DEF PostTorn
  <2>2. Len(e) \div 2 \in 0 .. Len(e)
    BY <1>5, Quotient
  <2> QED BY <1>5, <2>1, <2>2
<1>7. PICK bytes \in Seq(Cells) :
        /\ Store(v, bytes) /\ Len(bytes) <= Padded(SliceLength(v, c))
        /\ \A i \in 1 .. Len(bytes) : bytes[i] = [video |-> v, slice |-> c, at |-> i]
  <2>1. /\ SubSeq(e, 1, n) \in Seq(Cells) /\ Len(SubSeq(e, 1, n)) = n
        /\ \A i \in 1 .. n : SubSeq(e, 1, n)[i] = e[i]
    BY Start
  <2>2. PICK b \in Seq(Cells) : b = SubSeq(e, 1, n)
    BY <2>1
  <2>3. Store(v, b)
    BY <1>6, <2>2
  <2>4. /\ Len(b) <= Padded(SliceLength(v, c))
        /\ \A i \in 1 .. Len(b) : b[i] = [video |-> v, slice |-> c, at |-> i]
    BY <1>5, <2>1, <2>2
  <2> QED BY <2>3, <2>4, Zenon
<1>8. /\ disk' \in [Videos -> Seq(Cells)] /\ row' \in [Videos -> SUBSET Rows]
      /\ \A u \in Videos \ {v} : disk'[u] = disk[u] /\ row'[u] = row[u]
      /\ \A r \in row'[v] : Registered(v, r)'
      /\ \A r, s \in row'[v] : r = s
      /\ c # NumSlice(v) - 1 => row'[v] = row[v]
  BY <1>1, <1>2, <1>3, <1>7, Stored
<1>9. /\ posting' \in [Videos -> {"new", "slice", "success", "failed"}]
      /\ current' \in [Videos -> Nat]
      /\ \A u \in Videos \ {v} : posting'[u] = posting[u] /\ current'[u] = current[u]
      /\ Known(v)'
      /\ posting'[v] = "slice" =>
           /\ current'[v] * SizeSlice <= size[v]
           /\ current'[v] = NumSlice(v)
      /\ posting'[v] # "new"
  <2>1. CASE c = NumSlice(v) - 1
    <3>1. ReadNextSlice(v, current[v] + 1)
      BY <1>2, <2>1 DEF PostTorn
    <3>2. /\ posting' \in [Videos -> {"new", "slice", "success", "failed"}]
          /\ current' \in [Videos -> Nat]
          /\ \A u \in Videos \ {v} : posting'[u] = posting[u] /\ current'[u] = current[u]
          /\ \/ posting'[v] = "success"
             \/ /\ posting'[v] = "slice" /\ current'[v] = c + 1
                /\ (c + 1) * SizeSlice <= size[v] /\ c + 1 <= NumSlice(v)
          /\ c + 1 >= NumSlice(v) => Known(v)'
      BY <1>1, <1>2, <1>3, <3>1, ReadNext
    <3> QED BY <1>4, <2>1, <3>2
  <2>2. CASE c # NumSlice(v) - 1
    <3>1. posting' = [posting EXCEPT ![v] = "failed"] /\ current' = current
      BY <1>2, <2>2 DEF PostTorn, Abandon
    <3> QED BY <1>1, <3>1 DEF TypeInv, Known
  <2> QED BY <2>1, <2>2
<1>10. Known(v) => row'[v] = row[v] /\ c = NumSlice(v)
  BY <1>1, <1>2, <1>3, <1>8, <1>9, StoredRow
<1>11. ServerTypes'
  BY <1>1, <1>3, <1>8, <1>9 DEF ServerTypes, TypeInv
<1>12. Changes(v)
  BY <1>1, <1>3, <1>8, <1>9, <1>10 DEF Changes
<1>13. RowInv(v)'
  BY <1>8, <1>9 DEF RowInv
<1>14. UploadInv(v)'
  BY <1>3, <1>4, <1>9 DEF UploadInv
<1> QED BY <1>11, <1>12, <1>13, <1>14

LEMMA PostLostStep ==
  ASSUME TransferInv, NEW v \in Videos, PostLost(v)
  PROVE  ServerTypes' /\ Changes(v) /\ UploadInv(v)' /\ RowInv(v)'
<1>1. /\ TypeInv /\ UploadInv(v) /\ RowInv(v) /\ posting[v] = "slice"
      /\ faults' \in Nat /\ faults' # 0
  BY FaultHappens DEF TransferInv, PostLost, TypeInv
<1>2. PICK c \in Nat : c = current[v]
  BY <1>1 DEF TypeInv
<1>3. size' = size /\ posting' = [posting EXCEPT ![v] = "failed"] /\ current' = current
  BY DEF PostLost, Abandon
<1>4. posting'[v] = "failed" /\ Known(v)'
  BY <1>1, <1>3 DEF TypeInv, Known
<1>5. size[v] \in Nat /\ c * SizeSlice <= size[v] /\ c <= NumSlice(v)
  BY <1>1, <1>2 DEF TypeInv, UploadInv
<1>6. UploadInv(v)'
  BY <1>4 DEF UploadInv
<1>7. CASE Store(v, EncryptSlice(v, current[v]))
  <2>1. PICK bytes \in Seq(Cells) :
          /\ Store(v, bytes) /\ Len(bytes) <= Padded(SliceLength(v, c))
          /\ \A i \in 1 .. Len(bytes) : bytes[i] = [video |-> v, slice |-> c, at |-> i]
    <3>1. Padded(SliceLength(v, c)) \in Nat \ {0}
      BY <1>5, Encrypted
    <3>2. /\ EncryptSlice(v, c) \in Seq(Cells)
          /\ Len(EncryptSlice(v, c)) = Padded(SliceLength(v, c))
          /\ \A i \in 1 .. Padded(SliceLength(v, c)) :
               EncryptSlice(v, c)[i] = [video |-> v, slice |-> c, at |-> i]
      BY <1>5, EncryptedType
    <3>3. PICK e \in Seq(Cells) : e = EncryptSlice(v, c)
      BY <3>2
    <3>4. Store(v, e)
      BY <1>2, <1>7, <3>3
    <3>5. /\ Len(e) <= Padded(SliceLength(v, c))
          /\ \A i \in 1 .. Len(e) : e[i] = [video |-> v, slice |-> c, at |-> i]
      BY <3>1, <3>2, <3>3
    <3> QED BY <3>4, <3>5, Zenon
  <2>2. /\ disk' \in [Videos -> Seq(Cells)] /\ row' \in [Videos -> SUBSET Rows]
        /\ \A u \in Videos \ {v} : disk'[u] = disk[u] /\ row'[u] = row[u]
        /\ \A r \in row'[v] : Registered(v, r)'
        /\ \A r, s \in row'[v] : r = s
        /\ c # NumSlice(v) - 1 => row'[v] = row[v]
    BY <1>1, <1>2, <1>3, <2>1, Stored
  <2>3. Known(v) => row'[v] = row[v]
    BY <1>1, <1>2, <1>3, <1>4, <2>2, StoredRow
  <2>4. ServerTypes'
    BY <1>1, <1>3, <2>2 DEF ServerTypes, TypeInv
  <2>5. Changes(v)
    BY <1>1, <1>3, <1>4, <2>2, <2>3 DEF Changes, TypeInv
  <2>6. RowInv(v)'
    BY <1>4, <2>2 DEF RowInv
  <2> QED BY <1>6, <2>4, <2>5, <2>6
<1>8. CASE UNCHANGED serverVars
  <2>1. disk' = disk /\ row' = row
    BY <1>8 DEF serverVars
  <2>2. ServerTypes'
    BY <1>1, <1>3, <2>1 DEF ServerTypes, TypeInv
  <2>3. Changes(v)
    BY <1>1, <1>3, <1>4, <2>1 DEF Changes, TypeInv
  <2>4. ASSUME NEW r \in row[v] PROVE Registered(v, r)'
    <3>1. r \in Rows /\ Registered(v, r) /\ disk[v] \in Seq(Cells)
      BY <1>1 DEF RowInv, TypeInv
    <3>2. \A k \in Nat, n \in Int : Holds(v, k, n) => Holds(v, k, n)'
      BY <2>1, FullStays DEF Holds
    <3> QED BY <1>1, <1>3, <1>5, <2>1, <3>1, <3>2, RegisteredStays
  <2>5. RowInv(v)'
    BY <1>1, <1>4, <2>1, <2>4 DEF RowInv
  <2> QED BY <1>6, <2>2, <2>3, <2>5
<1> QED BY <1>7, <1>8 DEF PostLost

LEMMA DeleteStep ==
  ASSUME TransferInv, NEW v \in Videos, DeleteVideo(v)
  PROVE  ServerTypes' /\ Changes(v) /\ UploadInv(v)' /\ RowInv(v)'
<1>1. /\ TypeInv /\ UploadInv(v) /\ RowInv(v) /\ faults' = faults
      /\ size' = size /\ posting' = posting /\ current' = current
      /\ row' = [row EXCEPT ![v] = {}] /\ disk' = [disk EXCEPT ![v] = <<>>]
  BY DEF TransferInv, DeleteVideo, uploadVars
<1>2. row[v] # {}
  BY DEF DeleteVideo
<1>3. Known(v)
  BY <1>1, <1>2 DEF RowInv
<1>4. NumSlice(v)' = NumSlice(v)
  BY <1>1, SameSize
<1>5. ServerTypes'
  BY <1>1 DEF ServerTypes, TypeInv
<1>6. row'[v] = {}
  BY <1>1 DEF TypeInv
<1>7. Changes(v)
  BY <1>1, <1>4, <1>6 DEF Changes, TypeInv, Known
<1>8. UploadInv(v)'
  <2>1. posting[v] # "new" /\ (posting[v] = "slice" => current[v] = NumSlice(v))
    BY <1>3 DEF Known
  <2>2. NumSlice(v) \in Nat
    BY <1>1, SliceCount DEF TypeInv
  <2> QED BY <1>1, <1>4, <2>1, <2>2 DEF UploadInv
<1>9. RowInv(v)'
  BY <1>6 DEF RowInv
<1> QED BY <1>5, <1>7, <1>8, <1>9

(***************************************************************************)
(* What a step leaves as it was.                                           *)
(***************************************************************************)
LEMMA SameVideo ==
  ASSUME NEW v \in Videos, TypeInv, UploadInv(v), RowInv(v), faults' = 0 => faults = 0,
         size'[v] = size[v], posting'[v] = posting[v], current'[v] = current[v],
         disk'[v] = disk[v], row'[v] = row[v]
  PROVE  UploadInv(v)' /\ RowInv(v)' /\ (Known(v) => Known(v)')
<1>1. NumSlice(v)' = NumSlice(v) /\ size[v] \in Nat /\ disk[v] \in Seq(Cells)
  BY SameSize DEF TypeInv
<1>2. Known(v) => Known(v)'
  BY <1>1 DEF Known
<1>3. \A k \in Nat, n \in Int : Holds(v, k, n) => Holds(v, k, n)'
  BY FullStays DEF Holds
<1>4. Full \in Int /\ Full' = Full
  BY PaddedType, HalfType, FullStays DEF Full
<1>5. UploadInv(v)'
  <2>1. ASSUME posting'[v] = "slice", current'[v] < NumSlice(v)
        PROVE  /\ row'[v] = {} /\ Len(disk'[v]) = current'[v] * Full
               /\ \A k \in Nat : k < current'[v] => Holds(v, k, Full)'
    BY <1>3, <1>4, <2>1 DEF UploadInv
  <2> QED BY <1>1, <1>4, <2>1 DEF UploadInv
<1>6. RowInv(v)'
  <2>1. ASSUME NEW r \in row[v] PROVE Known(v)' /\ Registered(v, r)'
    <3>1. Known(v) /\ Registered(v, r) /\ r \in Rows
      BY DEF RowInv, TypeInv
    <3> QED BY <1>1, <1>2, <1>3, <3>1, RegisteredStays
  <2> QED BY <2>1 DEF RowInv
<1> QED BY <1>2, <1>5, <1>6

\* What a tab knows of its video stays true, whatever others do.
LEMMA SameTab ==
  ASSUME NEW t \in Tabs, TypeInv, Asking(t), Written(t), FailedForAReason(t),
         pc'[t] = pc[t], loc'[t] = loc[t], saved'[t] = saved[t],
         t \notin disturbed' =>
           /\ t \notin disturbed
           /\ t \in Chrome /\ pc[t] \in {"request", "write"} =>
                temp'[FileName[loc[t].video]] = temp[FileName[loc[t].video]],
         faults' = 0 => faults = 0,
         \A w \in Videos : Known(w) =>
           Known(w)' /\ size'[w] = size[w] /\ row'[w] \subseteq row[w]
  PROVE  Asking(t)' /\ Written(t)' /\ FailedForAReason(t)'
<1>1. PICK l \in Locals : l = loc[t] /\ l = loc'[t]
  BY DEF TypeInv
<1>2. PICK w : w = l.video
  OBVIOUS
<1>3. PICK k \in Nat : k = l.slice
  BY DEF Locals
<1>4. CASE pc[t] \in {"request", "write", "saved", "failed"}
  <2>1. w \in Videos /\ Known(w)
    BY <1>1, <1>2, <1>4 DEF Asking
  <2>2. Known(w)' /\ size'[w] = size[w] /\ row'[w] \subseteq row[w]
    BY <2>1
  <2>3. /\ NumSlice(w)' = NumSlice(w) /\ WithinInt(w)' = WithinInt(w)
        /\ Content(w)' = Content(w) /\ Slice(w, k)' = Slice(w, k)
    BY <2>2, SameSize
  <2>4. Aligned(w) => Aligned(w)'
    BY <2>2, <2>3, FullStays DEF Aligned
  <2>5. Asking(t)'
    <3>1. /\ pc[t] \in {"request", "write"} /\ k > 0 => Aligned(w)' /\ k < NumSlice(w)'
      BY <1>1, <1>2, <1>3, <2>3, <2>4 DEF Asking
    <3>2. pc[t] = "write" =>
            /\ k < NumSlice(w)' /\ l.data = Slice(w, k)' /\ l.total = NumSlice(w)'
            /\ k + 1 < l.total => Aligned(w)'
      BY <1>1, <1>2, <1>3, <2>3, <2>4 DEF Asking
    <3> QED BY <1>1, <1>2, <1>3, <2>1, <2>2, <3>1, <3>2 DEF Asking
  <2>6. Written(t)'
    <3>1. ASSUME t \notin disturbed'
          PROVE  /\ pc[t] \in {"request", "write"} /\ k > 0 =>
                      /\ l.file = Prefix(w, k * SizeSlice)
                      /\ t \in Chrome => temp'[FileName[w]] = l.file
                 /\ pc[t] = "saved" => saved[t] = Content(w)'
      BY <1>1, <1>2, <1>3, <2>3, <3>1 DEF Written
    <3>2. Prefix(w, k * SizeSlice)' = Prefix(w, k * SizeSlice)
      BY DEF Prefix, Byte
    <3> QED BY <1>1, <1>2, <1>3, <3>1, <3>2 DEF Written
  <2>7. FailedForAReason(t)'
    BY <1>1, <1>2, <2>2, <2>3 DEF FailedForAReason
  <2> QED BY <2>5, <2>6, <2>7
<1>5. CASE pc[t] \notin {"request", "write", "saved", "failed"}
  BY <1>5 DEF Asking, Written, FailedForAReason
<1> QED BY <1>4, <1>5

LEMMA UploadKeeps ==
  ASSUME TransferInv, NEW v \in Videos, UNCHANGED tabVars,
         ServerTypes', Changes(v), UploadInv(v)', RowInv(v)'
  PROVE  TransferInv'
<1>1. /\ TypeInv /\ \A u \in Videos : UploadInv(u) /\ RowInv(u)
      /\ \A t \in Tabs : Asking(t) /\ Written(t) /\ FailedForAReason(t)
  BY DEF TransferInv
<1>2. /\ pc' = pc /\ loc' = loc /\ temp' = temp /\ saved' = saved
      /\ disturbed' = disturbed
  BY DEF tabVars
<1>3. TypeInv'
  BY <1>1, <1>2 DEF TypeInv, ServerTypes
<1>4. ASSUME NEW u \in Videos, u # v
      PROVE  UploadInv(u)' /\ RowInv(u)' /\ (Known(u) => Known(u)')
  BY <1>1, <1>4, SameVideo DEF Changes
<1>5. \A w \in Videos : Known(w) => Known(w)' /\ size'[w] = size[w] /\ row'[w] \subseteq row[w]
  BY <1>4 DEF Changes
<1>6. ASSUME NEW t \in Tabs PROVE Asking(t)' /\ Written(t)' /\ FailedForAReason(t)'
  BY <1>1, <1>2, <1>5, SameTab DEF Changes
<1> QED BY <1>3, <1>4, <1>6 DEF TransferInv

LEMMA UploadStep ==
  ASSUME TransferInv, NEW v \in Videos, Upload(v) \/ DeleteVideo(v)
  PROVE  TransferInv'
<1>1. ServerTypes' /\ Changes(v) /\ UploadInv(v)' /\ RowInv(v)'
  BY ChooseStep, PostStep, PostTornStep, PostLostStep, DeleteStep DEF Upload
<1>2. UNCHANGED tabVars
  BY DEF Upload, Choose, Post, PostTorn, PostLost, DeleteVideo
<1> QED BY <1>1, <1>2, UploadKeeps

(***************************************************************************)
(* The slice that is cut out.                                              *)
(***************************************************************************)
LEMMA FirstByte ==
  ASSUME NEW v, size[v] \in Nat, NEW bytes, NEW k \in Decrypts(bytes, v)
  PROVE  /\ k \in Nat /\ k * SizeSlice <= size[v] /\ bytes = EncryptSlice(v, k)
         /\ Padded(SliceLength(v, k)) \in Nat \ {0}
         /\ DOMAIN bytes = 1 .. Padded(SliceLength(v, k))
         /\ bytes[1] = [video |-> v, slice |-> k, at |-> 1]
<1>1. k \in Nat /\ k * SizeSlice <= size[v] /\ bytes = EncryptSlice(v, k)
  BY SliceCount DEF Decrypts
<1>2. Padded(SliceLength(v, k)) \in Nat \ {0}
  BY <1>1, Encrypted
<1> QED BY <1>1, <1>2 DEF EncryptSlice

\* A slice that can be decrypted is the one the page asked for.
LEMMA RightSlice ==
  ASSUME NEW v \in Videos, TypeInv, NEW r \in row[v], Registered(v, r),
         NEW i \in Nat, i > 0 => Aligned(v) /\ i < NumSlice(v),
         NEW bytes \in Cut(v, r, i), NEW k \in Decrypts(bytes, v)
  PROVE  k = i /\ i < NumSlice(v) /\ (NumSlice(v) > 1 => r.sizeFileEnc = Full)
<1>1. /\ size[v] \in Nat /\ NumSlice(v) \in Nat /\ NumSlice(v) > 0
      /\ r \in Rows /\ disk[v] \in Seq(Cells)
  BY SliceCount DEF TypeInv, Registered
<1>2. PICK e \in Ints : e = r.sizeFileEnc /\ e \in Int
  BY <1>1, HalfType DEF Rows, Ints
<1>3. PICK p \in Nat \ {0} : p = Full
  BY PaddedType, HalfType DEF Full
<1>4. PICK f \in Nat : f = Len(disk[v])
  BY <1>1
<1>5. PICK m \in Nat \ {0} :
        /\ m = Padded(SliceLength(v, k)) /\ DOMAIN bytes = 1 .. m
        /\ k \in Nat /\ bytes[1] = [video |-> v, slice |-> k, at |-> 1]
  BY <1>1, FirstByte
<1>6. PICK s \in Int, l \in Int :
        /\ s = ToInt(e * i)
        /\ l = ToInt(IF ToInt(e * (i + 1)) > f THEN f - s ELSE e)
        /\ l >= 0 /\ DOMAIN bytes = 1 .. l
        /\ \A j \in 1 .. l : bytes[j] = IF s + j <= f THEN disk[v][s + j] ELSE Zero
  <2>1. e * i \in Int /\ e * (i + 1) \in Int
    BY <1>2
  <2>2. PICK s \in Int : s = ToInt(e * i)
    BY <2>1, ToIntType
  <2>3. PICK l \in Int : l = ToInt(IF ToInt(e * (i + 1)) > f THEN f - s ELSE e)
    <3>1. (IF ToInt(e * (i + 1)) > f THEN f - s ELSE e) \in Int
      BY <1>2, <1>4, <2>2
    <3> QED BY <3>1, ToIntType
  <2>4. bytes \in IF l < 0 \/ s < 0 THEN {}
                  ELSE {[j \in 1 .. l |-> IF s + j <= f THEN disk[v][s + j] ELSE Zero]}
    BY <1>2, <1>4, <2>2, <2>3 DEF Cut
  <2>5. l >= 0 /\ bytes = [j \in 1 .. l |-> IF s + j <= f THEN disk[v][s + j] ELSE Zero]
    BY <2>3, <2>4
  <2> QED BY <2>2, <2>3, <2>5
<1>7. l = m
  <2>1. m \in 1 .. l /\ (l > 0 => l \in 1 .. m)
    BY <1>5, <1>6
  <2> QED BY <2>1, <1>6
<1>8. CASE i = 0
  <2>1. s = 0 /\ l = ToInt(IF e > f THEN f ELSE e)
    <3>1. e * 0 = 0 /\ e * (0 + 1) = e /\ 0 \in Ints /\ f - 0 = f
      BY <1>2, <1>4, HalfType DEF Ints
    <3>2. ToInt(0) = 0 /\ ToInt(e) = e
      BY <1>2, <3>1, ToIntExact
    <3> QED BY <1>6, <1>8, <3>1, <3>2
  <2>2. 0 * Full = 0
    BY <1>3
  <2>3. CASE NumSlice(v) = 1
    <3>1. e <= f /\ Holds(v, 0, e)
      BY <1>2, <1>4, <2>3 DEF Registered, Single
    <3>2. l = e
      BY <1>2, <1>4, <2>1, <3>1, ToIntExact
    <3>3. 1 <= f /\ disk[v][1] = [video |-> v, slice |-> 0, at |-> 1]
      BY <1>2, <1>4, <1>7, <2>2, <3>1, <3>2 DEF Holds
    <3>4. bytes[1] = disk[v][1]
      BY <1>4, <1>6, <1>7, <2>1, <3>3
    <3> QED BY <1>1, <1>5, <1>8, <2>3, <3>3, <3>4
  <2>4. CASE NumSlice(v) > 1
    <3>1. e <= p /\ Holds(v, 0, p)
      BY <1>2, <1>3, <2>4 DEF Registered, Averaged
    <3>2. /\ p <= f /\ disk[v][1] = [video |-> v, slice |-> 0, at |-> 1]
      <4>1. 1 \in 1 .. p /\ p \in 1 .. p
        BY <1>3
      <4>2. /\ 0 * Full + 1 <= Len(disk[v]) /\ 0 * Full + p <= Len(disk[v])
            /\ disk[v][0 * Full + 1] = [video |-> v, slice |-> 0, at |-> 1]
        BY <3>1, <4>1 DEF Holds
      <4> QED BY <1>3, <1>4, <2>2, <4>2
    <3>3. l = e
      BY <1>2, <1>3, <1>4, <2>1, <3>1, <3>2, ToIntExact
    <3>4. bytes[1] = disk[v][1]
      BY <1>3, <1>4, <1>6, <1>7, <2>1, <3>2
    <3>5. k = 0
      BY <1>5, <3>2, <3>4
    <3>6. m = p
      <4>1. 0 * SizeSlice <= size[v] /\ 0 + 1 < NumSlice(v)
        BY <1>1, <2>4, HalfType
      <4> QED BY <1>1, <1>3, <1>5, <3>5, <4>1, Encrypted
    <3> QED BY <1>1, <1>2, <1>3, <1>7, <1>8, <3>3, <3>5, <3>6
  <2> QED BY <1>1, <2>3, <2>4
<1>9. CASE i > 0
  <2>1. NumSlice(v) > 1 /\ e = p /\ i < NumSlice(v)
    BY <1>2, <1>3, <1>9 DEF Aligned
  <2>2. Holds(v, NumSlice(v) - 1, Last(v)) /\ (NumSlice(v) - 1) * Full < Half
    BY <1>2, <1>3, <2>1 DEF Registered, Averaged
  <2>3. PICK c \in Nat : c = i * p /\ c < Half
    <3>1. i * p <= (NumSlice(v) - 1) * p
      <4>1. i <= NumSlice(v) - 1 /\ NumSlice(v) - 1 \in Int
        BY <1>1, <2>1
      <4> QED BY <4>1, TimesMono
    <3>2. i * p \in Nat /\ (NumSlice(v) - 1) * p \in Int
      BY <1>1, Times
    <3> QED BY <1>3, <2>2, <3>1, <3>2, HalfType
  <2>4. s = c
    <3>1. e * i = c
      BY <2>1, <2>3
    <3>2. c \in Ints
      BY <2>3, HalfType DEF Ints
    <3> QED BY <1>6, <3>1, <3>2, ToIntExact
  <2>5. c + 1 <= f /\ disk[v][c + 1] = [video |-> v, slice |-> i, at |-> 1]
    <3>1. CASE i + 1 < NumSlice(v)
      <4>1. Holds(v, i, Full)
        BY <3>1 DEF Registered
      <4> QED BY <1>3, <1>4, <2>3, <4>1 DEF Holds
    <3>2. CASE i + 1 >= NumSlice(v)
      <4>1. i = NumSlice(v) - 1
        BY <1>1, <2>1, <3>2
      <4>2. Last(v) \in Nat \ {0}
        BY <1>1, Encrypted, Zenon
      <4> QED BY <1>3, <1>4, <2>2, <2>3, <4>1, <4>2 DEF Holds
    <3> QED BY <1>1, <3>1, <3>2
  <2>6. bytes[1] = disk[v][c + 1]
    BY <1>6, <1>7, <2>4, <2>5
  <2> QED BY <1>2, <1>3, <1>5, <2>1, <2>5, <2>6
<1> QED BY <1>8, <1>9

\* Without failures and within int, every slice is cut out whole.
LEMMA RequestWorks ==
  ASSUME NEW v \in Videos, TypeInv, NEW r \in row[v], Registered(v, r),
         faults = 0, WithinInt(v), NEW i \in Nat, i < NumSlice(v)
  PROVE  \E bytes \in Cut(v, r, i) : Decrypts(bytes, v) # {}
<1>1. /\ size[v] \in Nat /\ NumSlice(v) \in Nat /\ NumSlice(v) > 0
      /\ disk[v] \in Seq(Cells) /\ i * SizeSlice <= size[v]
  BY SliceCount, InFile DEF TypeInv, Registered
<1>2. PICK n \in Nat : NumSlice(v) = n + 1 /\ NumSlice(v) - 1 = n
  BY <1>1
<1>3. PICK p \in Nat \ {0}, q \in Nat \ {0} :
        p = Full /\ q = Last(v) /\ q <= p
  <2>1. Full \in Nat \ {0} /\ Last(v) \in Nat \ {0} /\ Last(v) <= Full
    BY <1>1, Encrypted, Zenon
  <2> QED BY <2>1, Zenon
<1>4. PICK f \in Nat : f = Len(disk[v])
  BY <1>1
<1>5. PICK e \in Int : e = r.sizeFileEnc /\ e = IF n + 1 > 1 THEN p ELSE q
  BY <1>2, <1>3 DEF Registered, Whole
<1>6. PICK d \in Nat : d = n * p /\ d + p = (n + 1) * p /\ d + p < Half
  <2>1. n * p \in Nat /\ (n + 1) * p = n * p + p /\ p * (n + 1) = (n + 1) * p
    BY Times
  <2>2. p * (n + 1) < Half
    BY <1>2, <1>3 DEF WithinInt, Full
  <2> QED BY <2>1, <2>2
<1>7. d + q <= f /\ (q = p \/ f = d + q) /\ Holds(v, n, q)
  <2>1. Holds(v, n, q) /\ (q = p \/ f = d + q)
    BY <1>2, <1>3, <1>4, <1>6 DEF Registered, Whole
  <2>2. q \in 1 .. q
    BY <1>3
  <2> QED BY <1>3, <1>4, <1>6, <2>1, <2>2 DEF Holds
<1>8. PICK c \in Nat : c = i * p /\ (i + 1) * p = c + p /\ c <= d
  <2>1. i <= n
    BY <1>2
  <2>2. i * p <= n * p /\ i * p \in Nat /\ (i + 1) * p = i * p + p
    BY <2>1, Times, TimesMono
  <2> QED BY <1>6, <2>2
<1>9. PICK b \in Nat \ {0} : b = Padded(SliceLength(v, i)) /\ Holds(v, i, b)
        /\ b = IF i = n THEN q ELSE p
  <2>1. CASE i = n
    BY <1>2, <1>3, <1>7, <2>1 DEF Last
  <2>2. CASE i # n
    <3>1. i + 1 < NumSlice(v)
      BY <1>2, <2>2
    <3>2. Padded(SliceLength(v, i)) = p
      BY <1>1, <1>3, <3>1, Encrypted
    <3>3. Holds(v, i, p)
      BY <1>3, <3>1 DEF Registered
    <3> QED BY <1>3, <2>2, <3>2, <3>3
  <2> QED BY <2>1, <2>2
<1>10. /\ ToInt(e * i) = c
       /\ ToInt(IF ToInt(e * (i + 1)) > f THEN f - c ELSE e) = b
  <2>1. c \in Ints /\ p \in Ints /\ q \in Ints /\ c + p \in Ints
    BY <1>3, <1>6, <1>8, HalfType DEF Ints
  <2>2. ToInt(c) = c /\ ToInt(p) = p /\ ToInt(q) = q /\ ToInt(c + p) = c + p
    BY <2>1, ToIntExact
  <2>3. CASE n = 0
    <3>1. i = 0 /\ e = q /\ c = 0 /\ b = q /\ q <= f
      BY <1>2, <1>3, <1>5, <1>6, <1>7, <1>8, <1>9, <2>3
    <3>2. e * i = c /\ e * (i + 1) = q
      BY <3>1
    <3> QED BY <2>2, <3>1, <3>2
  <2>4. CASE n > 0
    <3>1. e = p /\ e * i = c /\ e * (i + 1) = c + p
      BY <1>5, <1>8, <2>4
    <3>2. CASE i = n
      <4>1. c = d /\ b = q
        BY <1>6, <1>8, <1>9, <3>2
      <4>2. CASE c + p > f
        <5>1. f - c = q
          BY <1>3, <1>7, <4>1, <4>2
        <5> QED BY <2>2, <3>1, <4>1, <4>2, <5>1
      <4>3. CASE ~(c + p > f)
        <5>1. p = q
          BY <1>3, <1>7, <4>1, <4>3
        <5> QED BY <2>2, <3>1, <4>1, <4>3, <5>1
      <4> QED BY <4>2, <4>3
    <3>3. CASE i # n
      <4>1. (i + 1) * p <= n * p
        <5>1. i + 1 <= n
          BY <1>2, <3>3
        <5> QED BY <5>1, TimesMono
      <4>2. ~(c + p > f) /\ b = p
        BY <1>3, <1>6, <1>7, <1>8, <1>9, <3>3, <4>1
      <4> QED BY <2>2, <3>1, <4>2
    <3> QED BY <3>2, <3>3
  <2> QED BY <2>3, <2>4
<1>11. [j \in 1 .. b |-> IF c + j <= f THEN disk[v][c + j] ELSE Zero] \in Cut(v, r, i)
  <2>1. Cut(v, r, i) =
          IF b < 0 \/ c < 0 THEN {}
          ELSE {[j \in 1 .. b |-> IF c + j <= f THEN disk[v][c + j] ELSE Zero]}
    BY <1>4, <1>5, <1>10 DEF Cut
  <2> QED BY <2>1
<1>12. [j \in 1 .. b |-> IF c + j <= f THEN disk[v][c + j] ELSE Zero] = EncryptSlice(v, i)
  <2>1. \A j \in 1 .. b :
          c + j <= f /\ disk[v][c + j] = [video |-> v, slice |-> i, at |-> j]
    BY <1>3, <1>4, <1>8, <1>9 DEF Holds
  <2> QED BY <1>9, <2>1 DEF EncryptSlice
<1>13. i \in Decrypts(EncryptSlice(v, i), v)
  <2>1. i \in 0 .. NumSlice(v)
    BY <1>1
  <2>2. Len(EncryptSlice(v, i)) = Padded(SliceLength(v, i))
    BY <1>1, EncryptedType
  <2> QED BY <1>1, <2>1, <2>2 DEF Decrypts
<1> QED BY <1>11, <1>12, <1>13

(***************************************************************************)
(* What a step of a tab changes.                                           *)
(***************************************************************************)
TabTypes ==
  /\ pc \in [Tabs -> {"idle", "request", "write", "saved", "failed", "blocked", "left"}]
  /\ loc \in [Tabs -> Locals]
  /\ temp \in [Names -> Seq(Bytes)]
  /\ saved \in [Tabs -> Seq(Bytes)]
  /\ disturbed \subseteq Tabs
  /\ faults \in Nat

\* Who is not disturbed keeps the temporary file.
Leaves(t) ==
  \A u \in Tabs \ {t} :
    /\ pc'[u] = pc[u] /\ loc'[u] = loc[u] /\ saved'[u] = saved[u]
    /\ u \notin disturbed' =>
         /\ u \notin disturbed
         /\ u \in Chrome /\ pc[u] \in {"request", "write"} =>
              temp'[FileName[loc[u].video]] = temp[FileName[loc[u].video]]

LEMMA TabKeeps ==
  ASSUME TransferInv, NEW t \in Tabs, UNCHANGED <<uploadVars, serverVars>>,
         faults' = 0 => faults = 0, TabTypes', Leaves(t),
         Asking(t)', Written(t)', FailedForAReason(t)'
  PROVE  TransferInv'
<1>1. /\ TypeInv /\ \A v \in Videos : UploadInv(v) /\ RowInv(v)
      /\ \A u \in Tabs : Asking(u) /\ Written(u) /\ FailedForAReason(u)
  BY DEF TransferInv
<1>2. /\ size' = size /\ posting' = posting /\ current' = current
      /\ disk' = disk /\ row' = row
  BY DEF uploadVars, serverVars
<1>3. TypeInv'
  BY <1>1, <1>2 DEF TypeInv, TabTypes
<1>4. ASSUME NEW v \in Videos
      PROVE  UploadInv(v)' /\ RowInv(v)' /\ (Known(v) => Known(v)')
  BY <1>1, <1>2, SameVideo
<1>5. \A w \in Videos : Known(w) => Known(w)' /\ size'[w] = size[w] /\ row'[w] \subseteq row[w]
  BY <1>2, <1>4
<1>6. ASSUME NEW u \in Tabs, u # t PROVE Asking(u)' /\ Written(u)' /\ FailedForAReason(u)'
  <2>1. /\ pc'[u] = pc[u] /\ loc'[u] = loc[u] /\ saved'[u] = saved[u]
        /\ u \notin disturbed' =>
             /\ u \notin disturbed
             /\ u \in Chrome /\ pc[u] \in {"request", "write"} =>
                  temp'[FileName[loc[u].video]] = temp[FileName[loc[u].video]]
    BY <1>6 DEF Leaves
  <2> QED BY <1>1, <1>5, <2>1, SameTab
<1> QED BY <1>3, <1>4, <1>6 DEF TransferInv

LEMMA ClickStep ==
  ASSUME TransferInv, NEW t \in Tabs, Click(t)
  PROVE  TransferInv'
<1>1. TypeInv /\ \A v \in Videos : RowInv(v)
  BY DEF TransferInv
<1>2. PICK v \in Videos : row[v] # {} /\ loc' = [loc EXCEPT ![t] = [Idle EXCEPT !.video = v]]
  BY DEF Click
<1>3. /\ pc' = [pc EXCEPT ![t] = "request"] /\ disturbed' = disturbed \ {t}
      /\ UNCHANGED <<uploadVars, serverVars>> /\ temp' = temp /\ saved' = saved
      /\ faults' = faults
  BY DEF Click
<1>4. [Idle EXCEPT !.video = v] \in Locals /\ [Idle EXCEPT !.video = v].video = v
      /\ [Idle EXCEPT !.video = v].slice = 0
  <2>1. [Idle EXCEPT !.video = v]
          = [video |-> v, slice |-> 0, total |-> 0, data |-> <<>>, file |-> <<>>]
    BY DEF Idle
  <2>2. <<>> \in Seq(Bytes) /\ v \in Videos \cup {"none"}
    OBVIOUS
  <2>3. [video |-> v, slice |-> 0, total |-> 0, data |-> <<>>, file |-> <<>>] \in Locals
    BY <2>2 DEF Locals
  <2> QED BY <2>1, <2>3
<1>5. TabTypes'
  BY <1>1, <1>2, <1>3, <1>4 DEF TabTypes, TypeInv
<1>6. Leaves(t)
  BY <1>1, <1>2, <1>3 DEF Leaves, TypeInv
<1>7. pc'[t] = "request" /\ loc'[t].video = v /\ loc'[t].slice = 0
  BY <1>1, <1>2, <1>3, <1>4 DEF TypeInv
<1>8. Known(v)'
  <2>1. Known(v)
    BY <1>1, <1>2 DEF RowInv
  <2>2. size'[v] = size[v] /\ posting' = posting /\ current' = current
    BY <1>3 DEF uploadVars
  <2> QED BY <2>1, <2>2, SameSize DEF Known
<1>9. Asking(t)' /\ Written(t)' /\ FailedForAReason(t)'
  BY <1>7, <1>8 DEF Asking, Written, FailedForAReason
<1> QED BY <1>3, <1>5, <1>6, <1>9, TabKeeps

LEMMA RequestStep ==
  ASSUME TransferInv, NEW t \in Tabs, Request(t)
  PROVE  TransferInv'
<1>1. /\ TypeInv /\ \A v \in Videos : RowInv(v)
      /\ Asking(t) /\ Written(t) /\ pc[t] = "request"
  BY DEF TransferInv, Request
<1>2. PICK l \in Locals : l = loc[t]
  BY <1>1 DEF TypeInv
<1>3. PICK v \in Videos, i \in Nat : v = l.video /\ i = l.slice
  BY <1>1, <1>2 DEF Asking, Locals
<1>4. PICK r \in row[v] : \E bytes \in Cut(v, r, i) : \E k \in Decrypts(bytes, v) :
        loc' = [loc EXCEPT ![t].data = Slice(v, k), ![t].total = r.totalSlice]
  <2>1. loc[t].video = v /\ loc[t].slice = i
    BY <1>2, <1>3
  <2>2. \E r \in row[loc[t].video] : \E bytes \in Cut(loc[t].video, r, loc[t].slice) :
          \E k \in Decrypts(bytes, loc[t].video) :
            loc' = [loc EXCEPT ![t].data = Slice(loc[t].video, k), ![t].total = r.totalSlice]
    BY Zenon DEF Request
  <2> QED BY <2>1, <2>2, ZenonT(60)
<1>5. PICK bytes \in Cut(v, r, i) : \E k \in Decrypts(bytes, v) :
        loc' = [loc EXCEPT ![t].data = Slice(v, k), ![t].total = r.totalSlice]
  BY <1>4
<1>6. PICK k \in Decrypts(bytes, v) :
        loc' = [loc EXCEPT ![t].data = Slice(v, k), ![t].total = r.totalSlice]
  BY <1>5
<1>7. r \in Rows /\ Known(v) /\ Registered(v, r) /\ size[v] \in Nat
  BY <1>1 DEF RowInv, TypeInv
<1>8. i > 0 => Aligned(v) /\ i < NumSlice(v)
  BY <1>1, <1>2, <1>3 DEF Asking
<1>9. k = i /\ i < NumSlice(v) /\ (NumSlice(v) > 1 => r.sizeFileEnc = Full)
  BY <1>1, <1>7, <1>8, RightSlice
<1>10. r.totalSlice = NumSlice(v) /\ NumSlice(v) \in Nat
  BY <1>7, SliceCount DEF Registered
<1>11. PICK d \in Seq(Bytes), n \in Nat : d = Slice(v, i) /\ n = NumSlice(v)
  <2>1. i * SizeSlice <= size[v]
    BY <1>7, <1>9, InFile
  <2>2. Slice(v, i) \in Seq(Bytes)
    BY <1>7, <2>1, SliceType
  <2> QED BY <1>10, <2>2
<1>12. /\ loc' \in [Tabs -> Locals] /\ \A u \in Tabs \ {t} : loc'[u] = loc[u]
       /\ loc'[t].video = v /\ loc'[t].slice = i /\ loc'[t].total = n
       /\ loc'[t].data = d /\ loc'[t].file = l.file
  <2>1. loc' = [loc EXCEPT ![t].data = d, ![t].total = n]
    BY <1>6, <1>9, <1>10, <1>11
  <2>2. loc \in [Tabs -> Locals]
    BY <1>1 DEF TypeInv
  <2> QED BY <1>2, <1>3, <2>1, <2>2 DEF Locals
<1>13. /\ pc' = [pc EXCEPT ![t] = "write"] /\ disturbed' = disturbed
       /\ UNCHANGED <<uploadVars, serverVars>> /\ temp' = temp /\ saved' = saved
       /\ faults' = faults /\ size' = size /\ posting' = posting /\ current' = current
       /\ row' = row
  BY DEF Request, uploadVars, serverVars
<1>14. TabTypes'
  BY <1>1, <1>12, <1>13 DEF TabTypes, TypeInv
<1>15. Leaves(t)
  BY <1>1, <1>12, <1>13 DEF Leaves, TypeInv
<1>16. pc'[t] = "write"
  BY <1>1, <1>13 DEF TypeInv
<1>17. /\ NumSlice(v)' = n /\ Known(v)' /\ Slice(v, i)' = d
       /\ (Aligned(v) => Aligned(v)')
  <2>1. NumSlice(v)' = n /\ Slice(v, i)' = d
    BY <1>11, <1>13, SameSize
  <2> QED BY <1>7, <1>11, <1>13, <2>1, FullStays DEF Known, Aligned
<1>18. i + 1 < n => Aligned(v)
  <2>1. \A s \in row[v] : s = r
    BY <1>1 DEF RowInv
  <2> QED BY <1>9, <1>11, <2>1 DEF Aligned
<1>19. Asking(t)'
  BY <1>8, <1>9, <1>11, <1>12, <1>16, <1>17, <1>18 DEF Asking
<1>20. Written(t)'
  <2>1. ASSUME t \notin disturbed, i > 0
        PROVE  /\ l.file = Prefix(v, i * SizeSlice)
               /\ t \in Chrome => temp[FileName[v]] = l.file
    BY <1>1, <1>2, <1>3, <2>1 DEF Written
  <2>2. Prefix(v, i * SizeSlice)' = Prefix(v, i * SizeSlice)
    BY DEF Prefix, Byte
  <2> QED BY <1>12, <1>13, <1>16, <2>1, <2>2 DEF Written
<1>21. FailedForAReason(t)'
  BY <1>16 DEF FailedForAReason
<1> QED BY <1>13, <1>14, <1>15, <1>19, <1>20, <1>21, TabKeeps

LEMMA FailStep ==
  ASSUME TransferInv, NEW t \in Tabs, RequestFails(t)
  PROVE  TransferInv'
<1>1. /\ TypeInv /\ \A v \in Videos : RowInv(v)
      /\ Asking(t) /\ Written(t) /\ pc[t] = "request"
  BY DEF TransferInv, RequestFails
<1>2. PICK v \in Videos, i \in Nat : v = loc[t].video /\ i = loc[t].slice
  BY <1>1 DEF Asking, TypeInv, Locals
<1>3. /\ pc' = [pc EXCEPT ![t] = "failed"] /\ loc' = loc /\ temp' = temp
      /\ saved' = saved /\ disturbed' = disturbed /\ UNCHANGED <<uploadVars, serverVars>>
      /\ size' = size /\ posting' = posting /\ current' = current /\ row' = row
  BY DEF RequestFails, Fail, uploadVars, serverVars
<1>4. pc[t] = "request" /\ pc'[t] = "failed" /\ faults' = faults /\ faults' \in Nat
  BY <1>1, <1>3 DEF RequestFails, TypeInv
<1>5. TabTypes' /\ Leaves(t)
  BY <1>1, <1>3, <1>4 DEF TabTypes, Leaves, TypeInv
<1>6. Known(v) /\ Known(v)' /\ WithinInt(v)' = WithinInt(v)
  <2>1. Known(v)
    BY <1>1, <1>2, <1>4 DEF Asking
  <2> QED BY <1>3, <2>1, SameSize DEF Known
<1>7. Asking(t)' /\ Written(t)'
  BY <1>2, <1>3, <1>4, <1>6 DEF Asking, Written
<1>8. ASSUME faults = 0, row[v] # {}, WithinInt(v) PROVE FALSE
  <2>1. PICK r \in row[v] : Registered(v, r)
    BY <1>1, <1>8 DEF RowInv
  <2>2. i < NumSlice(v)
    <3>1. i > 0 => i < NumSlice(v)
      BY <1>1, <1>2, <1>4 DEF Asking
    <3> QED BY <2>1, <3>1 DEF Registered
  <2>3. PICK bytes \in Cut(v, r, i) : Decrypts(bytes, v) # {}
    BY <1>1, <1>8, <2>1, <2>2, RequestWorks
  <2>4. \A s \in row[v] : \A b \in Cut(v, s, i) : Decrypts(b, v) = {}
    <3>1. \A s \in row[loc[t].video] : \A b \in Cut(loc[t].video, s, loc[t].slice) :
            Decrypts(b, loc[t].video) = {}
      BY Zenon DEF RequestFails
    <3> QED BY <1>2, <3>1, Zenon
  <2> QED BY <2>3, <2>4
<1>9. FailedForAReason(t)'
  BY <1>2, <1>3, <1>4, <1>6, <1>8 DEF FailedForAReason
<1> QED BY <1>3, <1>4, <1>5, <1>7, <1>9, TabKeeps

\* The page has a slice more, or the file is complete.
LEMMA NextStep ==
  ASSUME TransferInv, NEW t \in Tabs, pc[t] = "write", NEW file \in Seq(Bytes),
         NextSlice(t, file), UNCHANGED <<uploadVars, serverVars, faults>>,
         temp' \in [Names -> Seq(Bytes)], disturbed' \subseteq Tabs,
         t \notin disturbed' =>
           /\ file = IF loc[t].slice = 0 THEN loc[t].data
                     ELSE Prefix(loc[t].video, loc[t].slice * SizeSlice) \o loc[t].data
           /\ t \in Chrome => temp'[FileName[loc[t].video]] = file,
         \A u \in Tabs \ {t} : u \notin disturbed' =>
           /\ u \notin disturbed
           /\ u \in Chrome /\ pc[u] \in {"request", "write"} =>
                temp'[FileName[loc[u].video]] = temp[FileName[loc[u].video]]
  PROVE  TransferInv'
<1>1. /\ TypeInv /\ \A v \in Videos : RowInv(v)
      /\ Asking(t) /\ Written(t)
  BY DEF TransferInv
<1>2. PICK l \in Locals : l = loc[t]
  BY <1>1 DEF TypeInv
<1>3. PICK v \in Videos, i \in Nat, n \in Nat :
        /\ v = l.video /\ i = l.slice /\ n = NumSlice(v) /\ n = l.total /\ size[v] \in Nat
        /\ Known(v) /\ i < n /\ l.data = Slice(v, i) /\ (i + 1 < n => Aligned(v))
  <2>1. /\ l.video \in Videos /\ l.slice \in Nat /\ l.total \in Nat
        /\ l.total = NumSlice(l.video) /\ size[l.video] \in Nat
        /\ Known(l.video) /\ l.slice < l.total /\ l.data = Slice(l.video, l.slice)
        /\ (l.slice + 1 < l.total => Aligned(l.video))
    BY <1>1, <1>2 DEF Asking, Locals, TypeInv
  <2> QED BY <2>1, Zenon
<1>4. /\ size' = size /\ posting' = posting /\ current' = current /\ row' = row
      /\ faults' = faults
  BY DEF uploadVars, serverVars
<1>5. /\ NumSlice(v)' = n /\ Content(v)' = Content(v) /\ Known(v)'
      /\ (Aligned(v) => Aligned(v)')
  <2>1. NumSlice(v)' = n /\ Content(v)' = Content(v)
    BY <1>3, <1>4, SameSize
  <2> QED BY <1>3, <1>4, <2>1, FullStays DEF Known, Aligned
<1>6. i * SizeSlice <= size[v]
  BY <1>3, InFile
<1>7. PICK b \in Nat, m \in Nat : b = i * SizeSlice /\ m = SliceLength(v, i)
  <2>1. i * SizeSlice \in Nat /\ SliceLength(v, i) \in Nat
    BY <1>3, <1>6, HalfType, Times, SliceSize
  <2> QED BY <2>1, Zenon
<1>8. t \notin disturbed' => file = Prefix(v, b + m)
  <2>1. Prefix(v, b) \o Slice(v, i) = Prefix(v, b + m)
    BY <1>3, <1>6, <1>7, PrefixGrows
  <2>2. CASE i = 0
    <3>1. b = 0
      BY <1>7, <2>2, HalfType
    <3>2. Slice(v, i) = Prefix(v, b + m)
      BY <1>7, <2>2, <3>1 DEF Slice, Prefix
    <3> QED BY <1>2, <1>3, <2>2, <3>2
  <2>3. CASE i # 0
    BY <1>2, <1>3, <1>7, <2>1, <2>3
  <2> QED BY <2>2, <2>3
<1>9. CASE i + 1 < n
  <2>1. /\ pc' = [pc EXCEPT ![t] = "request"]
        /\ loc' = [loc EXCEPT ![t].slice = i + 1, ![t].file = file]
        /\ saved' = saved
    BY <1>2, <1>3, <1>9 DEF NextSlice
  <2>2. /\ loc' \in [Tabs -> Locals] /\ \A u \in Tabs \ {t} : loc'[u] = loc[u]
        /\ loc'[t].video = v /\ loc'[t].slice = i + 1 /\ loc'[t].file = file
    <3>1. loc \in [Tabs -> Locals]
      BY <1>1 DEF TypeInv
    <3>2. PICK k \in Nat : k = i + 1
      OBVIOUS
    <3>3. loc' = [loc EXCEPT ![t].slice = k, ![t].file = file]
      BY <2>1, <3>2
    <3> QED BY <1>2, <1>3, <3>1, <3>2, <3>3 DEF Locals
  <2>3. TabTypes' /\ Leaves(t) /\ pc'[t] = "request"
    BY <1>1, <1>4, <2>1, <2>2 DEF TabTypes, Leaves, TypeInv
  <2>4. Asking(t)'
    BY <1>3, <1>5, <1>9, <2>2, <2>3 DEF Asking
  <2>5. Written(t)'
    <3>1. b + m = (i + 1) * SizeSlice
      <4>1. m = SizeSlice
        BY <1>3, <1>6, <1>7, <1>9, SliceSize, ZenonT(60)
      <4>2. (i + 1) * SizeSlice = i * SizeSlice + SizeSlice
        BY HalfType, Times
      <4> QED BY <1>7, <4>1, <4>2
    <3>2. Prefix(v, (i + 1) * SizeSlice)' = Prefix(v, (i + 1) * SizeSlice)
      BY DEF Prefix, Byte
    <3>3. t \notin disturbed' =>
            /\ file = Prefix(v, (i + 1) * SizeSlice)
            /\ t \in Chrome => temp'[FileName[v]] = file
      BY <1>2, <1>3, <1>8, <3>1
    <3> QED BY <2>2, <2>3, <3>2, <3>3 DEF Written
  <2>6. FailedForAReason(t)'
    BY <2>3 DEF FailedForAReason
  <2> QED BY <1>4, <2>3, <2>4, <2>5, <2>6, TabKeeps
<1>10. CASE ~(i + 1 < n)
  <2>1. /\ pc' = [pc EXCEPT ![t] = "saved"] /\ loc' = [loc EXCEPT ![t].file = file]
        /\ saved' = [saved EXCEPT ![t] = file]
    BY <1>2, <1>3, <1>10 DEF NextSlice
  <2>2. /\ loc' \in [Tabs -> Locals] /\ \A u \in Tabs \ {t} : loc'[u] = loc[u]
        /\ loc'[t].video = v
    <3>1. loc \in [Tabs -> Locals]
      BY <1>1 DEF TypeInv
    <3> QED BY <1>2, <1>3, <2>1, <3>1 DEF Locals
  <2>3. TabTypes' /\ Leaves(t) /\ pc'[t] = "saved" /\ saved'[t] = file
    BY <1>1, <1>4, <2>1, <2>2 DEF TabTypes, Leaves, TypeInv
  <2>4. Asking(t)'
    BY <1>5, <2>2, <2>3 DEF Asking
  <2>5. Written(t)'
    <3>1. b + m = size[v]
      <4>1. i + 1 = NumSlice(v)
        BY <1>3, <1>10
      <4> QED BY <1>3, <1>6, <1>7, <4>1, SliceSize
    <3>2. Prefix(v, b + m) = Content(v)
      BY <3>1 DEF Prefix, Content
    <3> QED BY <1>5, <1>8, <2>2, <2>3, <3>2 DEF Written
  <2>6. FailedForAReason(t)'
    BY <2>3 DEF FailedForAReason
  <2> QED BY <1>4, <2>3, <2>4, <2>5, <2>6, TabKeeps
<1> QED BY <1>9, <1>10

LEMMA NameListed ==
  ASSUME NEW v \in Videos
  PROVE  FileName[v] \in Names
BY DEF Names

LEMMA WriteStep ==
  ASSUME TransferInv, NEW t \in Tabs, Write(t)
  PROVE  TransferInv'
<1>1. TypeInv /\ Written(t) /\ pc[t] = "write" /\ t \notin Chrome
  BY DEF TransferInv, Write
<1>2. PICK l \in Locals : l = loc[t]
  BY <1>1 DEF TypeInv
<1>3. PICK file \in Seq(Bytes) :
        NextSlice(t, file) /\ file = IF l.slice = 0 THEN l.data ELSE l.file \o l.data
  <2>1. NextSlice(t, IF l.slice = 0 THEN l.data ELSE l.file \o l.data)
    BY <1>2 DEF Write
  <2>2. (IF l.slice = 0 THEN l.data ELSE l.file \o l.data) \in Seq(Bytes)
    <3>1. l.data \in Seq(Bytes) /\ l.file \in Seq(Bytes)
      BY DEF Locals
    <3> QED BY <3>1, Joined
  <2> QED BY <2>1, <2>2
<1>4. UNCHANGED <<uploadVars, serverVars, faults>> /\ temp' = temp /\ disturbed' = disturbed
  BY DEF Write
<1>5. t \notin disturbed =>
        file = IF l.slice = 0 THEN l.data
               ELSE Prefix(l.video, l.slice * SizeSlice) \o l.data
  BY <1>1, <1>2, <1>3 DEF Written, Locals
<1>6. temp' \in [Names -> Seq(Bytes)] /\ disturbed' \subseteq Tabs
  BY <1>1, <1>4 DEF TypeInv
<1> QED BY <1>1, <1>2, <1>3, <1>4, <1>5, <1>6, NextStep

\* Who is not disturbed by a write of the temporary file has another one.
LEMMA WriteLeaves ==
  ASSUME TransferInv, NEW t \in Tabs, Disturb(t),
         NEW name \in Names, name = FileName[loc[t].video],
         NEW file, temp' = [temp EXCEPT ![name] = file]
  PROVE  /\ disturbed' \subseteq Tabs
         /\ t \notin disturbed' => t \notin disturbed
         /\ \A u \in Tabs \ {t} : u \notin disturbed' =>
              /\ u \notin disturbed
              /\ u \in Chrome /\ pc[u] \in {"request", "write"} =>
                   temp'[FileName[loc[u].video]] = temp[FileName[loc[u].video]]
<1>1. TypeInv /\ \A u \in Tabs : Asking(u)
  BY DEF TransferInv
<1>2. Sharing(t) \subseteq Tabs
  BY Bounds DEF Sharing
<1>3. disturbed' = disturbed \cup Sharing(t) \cup (IF Sharing(t) = {} THEN {} ELSE {t})
  BY DEF Disturb
<1>4. ASSUME NEW u \in Tabs \ {t}, u \notin disturbed', u \in Chrome,
             pc[u] \in {"request", "write"}
      PROVE  temp'[FileName[loc[u].video]] = temp[FileName[loc[u].video]]
  <2>1. FileName[loc[u].video] # name
    BY <1>3, <1>4 DEF Sharing
  <2>2. FileName[loc[u].video] \in Names
    <3>1. loc[u].video \in Videos
      BY <1>1, <1>4 DEF Asking
    <3> QED BY <3>1, NameListed
  <2> QED BY <1>1, <2>1, <2>2 DEF TypeInv
<1> QED BY <1>1, <1>2, <1>3, <1>4 DEF TypeInv

LEMMA WriteChromeStep ==
  ASSUME TransferInv, NEW t \in Tabs, WriteChrome(t)
  PROVE  TransferInv'
<1>1. /\ TypeInv /\ \A u \in Tabs : Asking(u) /\ Written(u)
      /\ pc[t] = "write" /\ t \in Chrome
  BY DEF TransferInv, WriteChrome
<1>2. PICK l \in Locals : l = loc[t]
  BY <1>1 DEF TypeInv
<1>3. PICK name \in Names : name = FileName[l.video]
  BY <1>1, <1>2, NameListed DEF Asking
<1>4. PICK file \in Seq(Bytes) :
        /\ file = IF l.slice = 0 THEN l.data ELSE temp[name] \o l.data
        /\ NextSlice(t, file) /\ temp' = [temp EXCEPT ![name] = file]
  <2>1. /\ NextSlice(t, WrittenChrome(t, temp[name]))
        /\ temp' = [temp EXCEPT ![name] = WrittenChrome(t, temp[name])]
    BY <1>2, <1>3 DEF WriteChrome
  <2>2. WrittenChrome(t, temp[name]) = IF l.slice = 0 THEN l.data ELSE temp[name] \o l.data
    BY <1>2 DEF WrittenChrome
  <2>3. WrittenChrome(t, temp[name]) \in Seq(Bytes)
    <3>1. l.data \in Seq(Bytes) /\ temp[name] \in Seq(Bytes)
      BY <1>1 DEF Locals, TypeInv
    <3> QED BY <2>2, <3>1, Joined
  <2> QED BY <2>1, <2>2, <2>3
<1>5. UNCHANGED <<uploadVars, serverVars, faults>> /\ Disturb(t)
  BY DEF WriteChrome
<1>6. /\ disturbed' \subseteq Tabs
      /\ t \notin disturbed' => t \notin disturbed
      /\ \A u \in Tabs \ {t} : u \notin disturbed' =>
           /\ u \notin disturbed
           /\ u \in Chrome /\ pc[u] \in {"request", "write"} =>
                temp'[FileName[loc[u].video]] = temp[FileName[loc[u].video]]
  BY <1>2, <1>3, <1>4, <1>5, WriteLeaves
<1>7. temp' \in [Names -> Seq(Bytes)] /\ temp'[name] = file
  BY <1>1, <1>4 DEF TypeInv
<1>8. t \notin disturbed' =>
        file = IF l.slice = 0 THEN l.data
               ELSE Prefix(l.video, l.slice * SizeSlice) \o l.data
  <2>1. ASSUME t \notin disturbed', l.slice # 0
        PROVE  temp[name] = Prefix(l.video, l.slice * SizeSlice)
    <3>1. t \notin disturbed /\ l.slice > 0
      BY <1>6, <2>1 DEF Locals
    <3> QED BY <1>1, <1>2, <1>3, <3>1 DEF Written
  <2> QED BY <1>4, <2>1
<1>9. t \notin disturbed' =>
         /\ file = IF loc[t].slice = 0 THEN loc[t].data
                   ELSE Prefix(loc[t].video, loc[t].slice * SizeSlice) \o loc[t].data
         /\ t \in Chrome => temp'[FileName[loc[t].video]] = file
  BY <1>2, <1>3, <1>7, <1>8
<1> QED BY <1>1, <1>4, <1>5, <1>6, <1>7, <1>9, NextStep

\* A failure that hits the page ends its download.
LEMMA FailureStep ==
  ASSUME TransferInv, NEW t \in Tabs, pc[t] \in {"request", "write"}, Fault,
         NEW end \in {"failed", "blocked", "left"}, pc' = [pc EXCEPT ![t] = end],
         UNCHANGED <<loc, saved, uploadVars, serverVars>>,
         temp' \in [Names -> Seq(Bytes)], disturbed' \subseteq Tabs,
         \A u \in Tabs \ {t} : u \notin disturbed' =>
           /\ u \notin disturbed
           /\ u \in Chrome /\ pc[u] \in {"request", "write"} =>
                temp'[FileName[loc[u].video]] = temp[FileName[loc[u].video]]
  PROVE  TransferInv'
<1>1. TypeInv /\ Asking(t) /\ faults' \in Nat /\ faults' # 0
  BY FaultHappens DEF TransferInv, TypeInv
<1>2. TabTypes' /\ Leaves(t) /\ pc'[t] = end
  BY <1>1 DEF TabTypes, Leaves, TypeInv
<1>3. loc[t].video \in Videos /\ Known(loc[t].video)
  BY <1>1 DEF Asking
<1>4. Known(loc[t].video)'
  BY <1>3, SameSize DEF Known, uploadVars
<1>5. Asking(t)' /\ Written(t)' /\ FailedForAReason(t)'
  BY <1>1, <1>2, <1>3, <1>4 DEF Asking, Written, FailedForAReason
<1> QED BY <1>1, <1>2, <1>5, TabKeeps

LEMMA FailStays ==
  ASSUME TransferInv, NEW t \in Tabs, pc[t] \in {"request", "write"}, Fault,
         NEW end \in {"failed", "blocked", "left"}, Fail(t, end)
  PROVE  TransferInv'
<1>1. /\ pc' = [pc EXCEPT ![t] = end] /\ temp' = temp /\ disturbed' = disturbed
      /\ UNCHANGED <<loc, saved, uploadVars, serverVars>>
  BY DEF Fail
<1>2. temp' \in [Names -> Seq(Bytes)] /\ disturbed' \subseteq Tabs
  BY <1>1 DEF TransferInv, TypeInv
<1> QED BY <1>1, <1>2, FailureStep

LEMMA WriteChromeFailsStep ==
  ASSUME TransferInv, NEW t \in Tabs, WriteChromeFails(t)
  PROVE  TransferInv'
<1>1. TypeInv /\ Asking(t) /\ pc[t] = "write" /\ Fault
  BY DEF TransferInv, WriteChromeFails
<1>2. CASE Fail(t, "blocked")
  BY <1>1, <1>2, FailStays
<1>3. CASE ~Fail(t, "blocked")
  <2>1. PICK name \in Names : name = FileName[loc[t].video]
    BY <1>1, NameListed DEF Asking
  <2>2. /\ pc' = [pc EXCEPT ![t] = "failed"] /\ Disturb(t)
        /\ UNCHANGED <<loc, saved, uploadVars, serverVars>>
        /\ \/ temp' = temp
           \/ temp' = [temp EXCEPT ![name] = WrittenChrome(t, temp[name])]
    BY <1>3, <2>1 DEF WriteChromeFails
  <2>3. WrittenChrome(t, temp[name]) \in Seq(Bytes) /\ temp[name] \in Seq(Bytes)
    <3>1. loc[t].data \in Seq(Bytes) /\ temp[name] \in Seq(Bytes)
      BY <1>1 DEF Locals, TypeInv
    <3> QED BY <3>1, Joined DEF WrittenChrome
  <2>4. PICK file \in Seq(Bytes) : temp' = [temp EXCEPT ![name] = file]
    <3>1. temp = [temp EXCEPT ![name] = temp[name]]
      BY <1>1 DEF TypeInv
    <3> QED BY <2>2, <2>3, <3>1
  <2>5. temp' \in [Names -> Seq(Bytes)]
    BY <1>1, <2>4 DEF TypeInv
  <2>6. /\ disturbed' \subseteq Tabs
        /\ \A u \in Tabs \ {t} : u \notin disturbed' =>
             /\ u \notin disturbed
             /\ u \in Chrome /\ pc[u] \in {"request", "write"} =>
                  temp'[FileName[loc[u].video]] = temp[FileName[loc[u].video]]
    BY <2>1, <2>2, <2>4, WriteLeaves
  <2> QED BY <1>1, <2>2, <2>5, <2>6, FailureStep
<1> QED BY <1>2, <1>3

(***************************************************************************)
(* The theorems.                                                           *)
(***************************************************************************)
LEMMA InvInit == Init => TransferInv
<1> SUFFICES ASSUME Init PROVE TransferInv
  OBVIOUS
<1>1. Idle \in Locals
  <2>1. <<>> \in Seq(Bytes)
    OBVIOUS
  <2> QED BY <2>1 DEF Idle, Locals
<1>2. TypeInv
  <2>1. <<>> \in Seq(Bytes) /\ <<>> \in Seq(Cells)
    OBVIOUS
  <2>2. temp \in [Names -> Seq(Bytes)]
    BY <2>1 DEF Init
  <2> QED BY <1>1, <2>1, <2>2 DEF Init, TypeInv
<1>3. ASSUME NEW v \in Videos PROVE UploadInv(v) /\ RowInv(v)
  BY DEF Init, UploadInv, RowInv
<1>4. ASSUME NEW t \in Tabs PROVE Asking(t) /\ Written(t) /\ FailedForAReason(t)
  BY DEF Init, Asking, Written, FailedForAReason
<1> QED BY <1>2, <1>3, <1>4 DEF TransferInv

LEMMA InvNext == TransferInv /\ [Next]_vars => TransferInv'
<1> SUFFICES ASSUME TransferInv, [Next]_vars PROVE TransferInv'
  OBVIOUS
<1>1. ASSUME NEW v \in Videos, Upload(v) \/ DeleteVideo(v) PROVE TransferInv'
  BY <1>1, UploadStep
<1>2. ASSUME NEW t \in Tabs, Click(t) PROVE TransferInv'
  BY <1>2, ClickStep
<1>3. ASSUME NEW t \in Tabs, Request(t) PROVE TransferInv'
  BY <1>3, RequestStep
<1>4. ASSUME NEW t \in Tabs, RequestFails(t) PROVE TransferInv'
  BY <1>4, FailStep
<1>5. ASSUME NEW t \in Tabs, RequestLost(t) PROVE TransferInv'
  BY <1>5, FailStays DEF RequestLost
<1>6. ASSUME NEW t \in Tabs, Write(t) PROVE TransferInv'
  BY <1>6, WriteStep
<1>7. ASSUME NEW t \in Tabs, WriteChrome(t) PROVE TransferInv'
  BY <1>7, WriteChromeStep
<1>8. ASSUME NEW t \in Tabs, WriteChromeFails(t) PROVE TransferInv'
  BY <1>8, WriteChromeFailsStep
<1>9. CASE UNCHANGED vars
  <2>1. /\ size' = size /\ posting' = posting /\ current' = current /\ disk' = disk
        /\ row' = row /\ pc' = pc /\ loc' = loc /\ temp' = temp /\ saved' = saved
        /\ disturbed' = disturbed /\ faults' = faults
    BY <1>9 DEF vars
  <2>2. /\ TypeInv /\ \A v \in Videos : UploadInv(v) /\ RowInv(v)
        /\ \A t \in Tabs : Asking(t) /\ Written(t) /\ FailedForAReason(t)
    BY DEF TransferInv
  <2>3. TypeInv'
    BY <2>1, <2>2 DEF TypeInv
  <2>4. ASSUME NEW v \in Videos
        PROVE  UploadInv(v)' /\ RowInv(v)' /\ (Known(v) => Known(v)')
    BY <2>1, <2>2, SameVideo
  <2>5. ASSUME NEW t \in Tabs PROVE Asking(t)' /\ Written(t)' /\ FailedForAReason(t)'
    BY <2>1, <2>2, <2>4, SameTab
  <2> QED BY <2>3, <2>4, <2>5 DEF TransferInv
<1> QED BY <1>1, <1>2, <1>3, <1>4, <1>5, <1>6, <1>7, <1>8, <1>9 DEF Next, Answer, Keep

LEMMA InvAlways == Spec => []TransferInv
BY InvInit, InvNext, PTL DEF Spec

\* readNextSlice, getElement and FileUtils together: what a download gives the
\* user is the video, byte for byte, whatever failed, was deleted or overflowed
\* on the way; in Chrome, if no other page wrote the temporary file meanwhile.
THEOREM DownloadsSaveTheVideo == Spec => []SavesTheVideo
<1>1. TransferInv => SavesTheVideo
  BY DEF TransferInv, Written, SavesTheVideo
<1> QED BY <1>1, InvAlways, PTL

\* getElement's arithmetic and the page's decryption: if nothing failed, the
\* download of a listed video fails only if its slices do not fit into an int.
THEOREM DownloadsFailForReasons == Spec => []FailsForAReason
<1>1. TransferInv => FailsForAReason
  BY DEF TransferInv, FailedForAReason, FailsForAReason
<1> QED BY <1>1, InvAlways, PTL

=============================================================================
