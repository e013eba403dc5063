--------------------------- MODULE ConsoleProofs ----------------------------
(***************************************************************************)
(* Console, for any number of readers and any size of the ring: no wakeup  *)
(* is lost, and the console is a device that is read by the line.          *)
(***************************************************************************)
EXTENDS Console, WellFoundedInduction, TLAPS

\* INPUT_BUF divides the range of r, w and e, as 128 does 2^32, and is below it; a read asks for
\* something.
ConsoleConstants ==
  /\ INPUT_BUF \in Nat \ {0} /\ UINT \in Nat /\ INPUT_BUF < UINT /\ UINT % INPUT_BUF = 0
  /\ Counts \subseteq Nat \ {0}

-----------------------------------------------------------------------------
\* Quotient and remainder of a division.
LEMMA DivMod ==
  ASSUME NEW m \in Nat \ {0}, NEW a \in Int
  PROVE  /\ a % m \in Int /\ 0 <= a % m /\ a % m < m
         /\ a \div m \in Int /\ a = (m * (a \div m)) + (a % m)
OBVIOUS

\* The only multiple of m between -m and m is 0.
LEMMA Multiple ==
  ASSUME NEW m \in Nat \ {0}, NEW q \in Int, NEW r \in Int, r = m * q, -m < r, r < m
  PROVE  q = 0
<1>1. CASE q >= 1
  <2>1. m * q >= m
    BY <1>1
  <2> QED
    BY <2>1
<1>2. CASE q <= -1
  <2>1. m * q <= -m
    BY <1>2
  <2> QED
    BY <2>1
<1> QED
  BY <1>1, <1>2

\* Numbers that differ by a multiple of m have the same remainder.
LEMMA SameMod ==
  ASSUME NEW m \in Nat \ {0}, NEW a \in Int, NEW b \in Int, NEW k \in Int, a - b = m * k
  PROVE  a % m = b % m
<1> DEFINE qa == a \div m
           qb == b \div m
           ra == a % m
           rb == b % m
<1>1. ra \in Int /\ 0 <= ra /\ ra < m /\ qa \in Int /\ a = (m * qa) + ra
  BY DivMod
<1>2. rb \in Int /\ 0 <= rb /\ rb < m /\ qb \in Int /\ b = (m * qb) + rb
  BY DivMod
<1> HIDE DEF qa, qb, ra, rb
<1>3. ra - rb = m * (k - qa + qb)
  BY <1>1, <1>2
<1>4. k - qa + qb \in Int /\ ra - rb \in Int /\ -m < ra - rb /\ ra - rb < m
  BY <1>1, <1>2
<1>5. k - qa + qb = 0
  BY <1>3, <1>4, Multiple
<1>6. ra = rb
  BY <1>1, <1>2, <1>3, <1>5
<1> QED
  BY <1>6 DEF ra, rb

\* Numbers less than m apart do not.
LEMMA OtherMod ==
  ASSUME NEW m \in Nat \ {0}, NEW a \in Int, NEW b \in Int, a # b, -m < a - b, a - b < m
  PROVE  a % m # b % m
<1> SUFFICES ASSUME a % m = b % m PROVE FALSE
  OBVIOUS
<1> DEFINE qa == a \div m
           qb == b \div m
<1>1. a % m \in Int /\ qa \in Int /\ qb \in Int /\ a = (m * qa) + (a % m) /\ b = (m * qb) + (a % m)
  BY DivMod
<1> HIDE DEF qa, qb
<1>2. a - b = m * (qa - qb)
  BY <1>1
<1>3. qa - qb = 0
  BY <1>1, <1>2, Multiple
<1> QED
  BY <1>1, <1>3

\* A number below m is its own remainder.
LEMMA SmallMod ==
  ASSUME NEW m \in Nat \ {0}, NEW a \in Int, 0 <= a, a < m
  PROVE  a % m = a
<1> DEFINE q == a \div m
           r == a % m
<1>1. r \in Int /\ 0 <= r /\ r < m /\ q \in Int /\ a = (m * q) + r
  BY DivMod
<1> HIDE DEF q, r
<1>2. a - r = m * q
  BY <1>1
<1>3. q = 0
  BY <1>1, <1>2, Multiple
<1>4. a = r
  BY <1>1, <1>3
<1> QED
  BY <1>4 DEF r

\* Only the remainder of a summand counts.
LEMMA SumMod ==
  ASSUME NEW m \in Nat \ {0}, NEW x \in Int, NEW d \in Int
  PROVE  ((x % m) + d) % m = (x + d) % m
<1> DEFINE q == x \div m
           r == x % m
<1>1. q \in Int /\ r \in Int /\ x = (m * q) + r
  BY DivMod
<1> HIDE DEF q, r
<1>2. r + d \in Int /\ x + d \in Int /\ -q \in Int /\ (r + d) - (x + d) = m * (-q)
  BY <1>1
<1>3. (r + d) % m = (x + d) % m
  BY <1>2, SameMod, Zenon
<1> QED
  BY <1>3 DEF r

\* An index that has wrapped points to the same character.
LEMMA Spot ==
  ASSUME ConsoleConstants, NEW x \in Int
  PROVE  (x % UINT) % INPUT_BUF = x % INPUT_BUF
<1> DEFINE q == x \div UINT
           w == UINT \div INPUT_BUF
           r == x % UINT
<1>1. UINT \in Nat \ {0} /\ INPUT_BUF \in Nat \ {0}
  BY DEF ConsoleConstants
<1>2. q \in Int /\ r \in Int /\ x = (UINT * q) + r
  BY <1>1, DivMod
<1>3. w \in Int /\ UINT = INPUT_BUF * w
  BY <1>1, DivMod DEF ConsoleConstants
<1> HIDE DEF q, w, r
<1>4. -(w * q) \in Int
  BY <1>2, <1>3
<1>5. x = ((INPUT_BUF * w) * q) + r
  BY <1>2, <1>3
<1>6. r - x = INPUT_BUF * (-(w * q))
  BY <1>1, <1>2, <1>3, <1>5
<1>7. r % INPUT_BUF = x % INPUT_BUF
  BY <1>1, <1>2, <1>4, <1>6, SameMod, Zenon
<1> QED
  BY <1>7 DEF r

\* The distance of two indices, wrapped or not.
LEMMA Distance ==
  ASSUME ConsoleConstants, NEW x \in Int, NEW c \in Int, 0 <= c, c < UINT
  PROVE  Count(x % UINT, (x + c) % UINT) = c
<1> DEFINE y == x + c
           p == x \div UINT
           q == y \div UINT
           r == x % UINT
           s == y % UINT
<1>1. UINT \in Nat \ {0} /\ y \in Int
  BY DEF ConsoleConstants
<1>2. p \in Int /\ r \in Int /\ x = (UINT * p) + r
  BY <1>1, DivMod
<1>3. q \in Int /\ s \in Int /\ y = (UINT * q) + s
  BY <1>1, DivMod, Zenon
<1>4. y - x = c
  BY <1>1
<1> HIDE DEF p, q, r, s, y
<1>5. (s - r) - c = UINT * (p - q)
  BY <1>1, <1>2, <1>3, <1>4
<1>6. s - r \in Int /\ p - q \in Int
  BY <1>2, <1>3
<1>7. (s - r) % UINT = c % UINT
  BY <1>1, <1>5, <1>6, SameMod, Zenon
<1>8. c % UINT = c
  BY <1>1, SmallMod, Zenon
<1> QED
  BY <1>7, <1>8, Zenon DEF Count, r, s, y

\* The character at index x, and the c characters from there on.
At(f, x) == f[(x % UINT) % INPUT_BUF]
Bytes(f, x, c) == [k \in 1..c |-> At(f, x + k - 1)]
Rings == [0..INPUT_BUF - 1 -> Chars]

\* Wrapping an index changes no character.
LEMMA Wrapped ==
  ASSUME ConsoleConstants, NEW f, NEW x \in Int, NEW d \in Int
  PROVE  At(f, (x % UINT) + d) = At(f, x + d)
<1>1. UINT \in Nat \ {0}
  BY DEF ConsoleConstants
<1>2. ((x % UINT) + d) % UINT = (x + d) % UINT
  BY <1>1, SumMod, Zenon
<1> QED
  BY <1>2, Zenon DEF At

\* ... nor those that follow.
LEMMA BytesWrapped ==
  ASSUME ConsoleConstants, NEW f \in Rings, NEW x \in Int, NEW d \in Int, NEW c \in Int
  PROVE  Bytes(f, (x % UINT) + d, c) = Bytes(f, x + d, c)
<1>1. UINT \in Nat \ {0}
  BY DEF ConsoleConstants
<1>2. ASSUME NEW k \in 1..c PROVE At(f, (x % UINT) + d + k - 1) = At(f, x + d + k - 1)
  <2>1. d + k - 1 \in Int /\ x % UINT \in Int
    BY <1>1, DivMod
  <2>2. (x % UINT) + d + k - 1 = (x % UINT) + (d + k - 1) /\ x + d + k - 1 = x + (d + k - 1)
    BY <2>1
  <2>3. At(f, (x % UINT) + (d + k - 1)) = At(f, x + (d + k - 1))
    BY <2>1, Wrapped, Zenon
  <2> QED
    BY <2>2, <2>3, Zenon
<1> QED
  BY <1>2, Zenon DEF Bytes

\* The characters are a sequence.
LEMMA BytesAre ==
  ASSUME ConsoleConstants, NEW f \in Rings, NEW x \in Int, NEW c \in Nat
  PROVE  /\ Bytes(f, x, c) \in Seq(Chars) /\ Len(Bytes(f, x, c)) = c
         /\ \A k \in 1..c : Bytes(f, x, c)[k] = At(f, x + k - 1)
<1> DEFINE s == Bytes(f, x, c)
<1>1. INPUT_BUF \in Nat \ {0} /\ UINT \in Nat \ {0}
  BY DEF ConsoleConstants
<1>2. ASSUME NEW y \in Int PROVE At(f, y) \in Chars
  <2>1. (y % UINT) % INPUT_BUF \in 0..INPUT_BUF - 1
    <3>1. y % UINT \in Int
      BY <1>1, DivMod
    <3> QED
      BY <1>1, <3>1, DivMod
  <2> QED
    BY <2>1, Zenon DEF At, Rings
<1>3. \A k \in 1..c : x + k - 1 \in Int
  OBVIOUS
<1>4. s \in [1..c -> Chars] /\ \A k \in 1..c : s[k] = At(f, x + k - 1)
  BY <1>2, <1>3, Zenon DEF Bytes
<1> HIDE DEF s
<1>5. s \in Seq(Chars) /\ Len(s) = c
  BY ONLY <1>4, c \in Nat
<1> QED
  BY <1>4, <1>5, Zenon DEF s

\* Sequences are equal if their elements are.
LEMMA Extensional ==
  ASSUME NEW S, NEW s \in Seq(S), NEW t \in Seq(S), Len(s) = Len(t), \A k \in 1..Len(s) : s[k] = t[k]
  PROVE  s = t
OBVIOUS

\* The elements of two sequences in a row.
LEMMA Joined ==
  ASSUME NEW S, NEW s \in Seq(S), NEW t \in Seq(S)
  PROVE  /\ s \o t \in Seq(S) /\ Len(s \o t) = Len(s) + Len(t)
         /\ \A k \in 1..Len(s) + Len(t) : (s \o t)[k] = IF k <= Len(s) THEN s[k] ELSE t[k - Len(s)]
OBVIOUS

\* A part of the characters is a part of the sequence.
LEMMA BytesPart ==
  ASSUME ConsoleConstants, NEW f \in Rings, NEW x \in Int, NEW c \in Nat, NEW t \in 0..c
  PROVE  /\ Bytes(f, x + t, c - t) = SubSeq(Bytes(f, x, c), t + 1, c)
         /\ Bytes(f, x, t) = SubSeq(Bytes(f, x, c), 1, t)
<1>1. PICK s \in Seq(Chars) : s = Bytes(f, x, c) /\ Len(s) = c /\ \A k \in 1..c : s[k] = At(f, x + k - 1)
  BY BytesAre, Zenon
<1>2. x + t \in Int /\ c - t \in Nat /\ t \in Nat
  OBVIOUS
<1>3. PICK u \in Seq(Chars) : u = Bytes(f, x + t, c - t) /\ Len(u) = c - t
                              /\ \A k \in 1..c - t : u[k] = At(f, x + t + k - 1)
  BY <1>2, BytesAre, Zenon
<1>4. PICK v \in Seq(Chars) : v = Bytes(f, x, t) /\ Len(v) = t /\ \A k \in 1..t : v[k] = At(f, x + k - 1)
  BY <1>2, BytesAre, Zenon
<1>5. /\ SubSeq(s, t + 1, c) \in Seq(Chars) /\ Len(SubSeq(s, t + 1, c)) = c - t
      /\ \A k \in 1..c - t : SubSeq(s, t + 1, c)[k] = s[t + k]
  BY ONLY <1>1, <1>2, c \in Nat, t \in 0..c
<1>6. /\ SubSeq(s, 1, t) \in Seq(Chars) /\ Len(SubSeq(s, 1, t)) = t
      /\ \A k \in 1..t : SubSeq(s, 1, t)[k] = s[k]
  BY ONLY <1>1, <1>2, c \in Nat, t \in 0..c
<1>7. \A k \in 1..c - t : t + k \in 1..c /\ x + (t + k) - 1 = x + t + k - 1
  OBVIOUS
<1>8. u = SubSeq(s, t + 1, c)
  <2>1. \A k \in 1..c - t : u[k] = SubSeq(s, t + 1, c)[k]
    BY <1>1, <1>3, <1>5, <1>7, Zenon
  <2> QED
    BY <1>3, <1>5, <2>1, Extensional, Zenon
<1>9. \A k \in 1..t : k \in 1..c
  OBVIOUS
<1>10. v = SubSeq(s, 1, t)
  <2>1. \A k \in 1..t : v[k] = SubSeq(s, 1, t)[k]
    BY <1>1, <1>4, <1>6, <1>9, Zenon
  <2> QED
    BY <1>4, <1>6, <2>1, Extensional, Zenon
<1> QED
  BY <1>1, <1>3, <1>4, <1>8, <1>10, Zenon

\* Characters in a row.
LEMMA BytesJoin ==
  ASSUME ConsoleConstants, NEW f \in Rings, NEW x \in Int, NEW a \in Nat, NEW b \in Nat
  PROVE  Bytes(f, x, a + b) = Bytes(f, x, a) \o Bytes(f, x + a, b)
<1>1. PICK s \in Seq(Chars) : s = Bytes(f, x, a) /\ Len(s) = a /\ \A k \in 1..a : s[k] = At(f, x + k - 1)
  BY BytesAre, Zenon
<1>2. x + a \in Int /\ a + b \in Nat
  OBVIOUS
<1>3. PICK u \in Seq(Chars) : u = Bytes(f, x + a, b) /\ Len(u) = b
                              /\ \A k \in 1..b : u[k] = At(f, x + a + k - 1)
  BY <1>2, BytesAre, Zenon
<1>4. PICK v \in Seq(Chars) : v = Bytes(f, x, a + b) /\ Len(v) = a + b
                              /\ \A k \in 1..a + b : v[k] = At(f, x + k - 1)
  BY <1>2, BytesAre, Zenon
<1>5. s \o u \in Seq(Chars) /\ Len(s \o u) = a + b
      /\ \A k \in 1..a + b : (s \o u)[k] = IF k <= a THEN s[k] ELSE u[k - a]
  <2>1. Len(s) = a /\ Len(u) = b
    BY <1>1, <1>3, Zenon
  <2>2. /\ s \o u \in Seq(Chars) /\ Len(s \o u) = Len(s) + Len(u)
        /\ \A k \in 1..Len(s) + Len(u) : (s \o u)[k] = IF k <= Len(s) THEN s[k] ELSE u[k - Len(s)]
    BY Joined, Zenon
  <2> QED
    BY ONLY <2>1, <2>2
<1>6. ASSUME NEW k \in 1..a + b PROVE (s \o u)[k] = v[k]
  <2>1. CASE k <= a
    <3>1. k \in 1..a
      BY <2>1
    <3> QED
      BY <1>1, <1>4, <1>5, <2>1, <3>1, Zenon
  <2>2. CASE ~(k <= a)
    <3>1. k - a \in 1..b /\ x + a + (k - a) - 1 = x + k - 1
      BY <2>2
    <3> QED
      BY <1>3, <1>4, <1>5, <2>2, <3>1, Zenon
  <2> QED
    BY <2>1, <2>2, Zenon
<1>7. s \o u = v
  BY <1>4, <1>5, <1>6, Extensional, Zenon
<1> QED
  BY <1>1, <1>3, <1>4, <1>7, Zenon

\* The ring with a character put at index y.
Put(f, y, ch) == [f EXCEPT ![(y % UINT) % INPUT_BUF] = ch]

\* A character put after the last of a + b adds one to the b.
Added(f, x, a, b, ch) ==
  /\ Put(f, x + (a + b), ch) \in Rings
  /\ Bytes(Put(f, x + (a + b), ch), x, a) = Bytes(f, x, a)
  /\ Bytes(Put(f, x + (a + b), ch), x + a, b + 1) = Append(Bytes(f, x + a, b), ch)

\* It does when there is room for one more.
LEMMA BytesPut ==
  ASSUME ConsoleConstants, NEW f \in Rings, NEW x \in Int, NEW a \in Nat, NEW b \in Nat, NEW ch \in Chars,
         a + b < INPUT_BUF
  PROVE  Added(f, x, a, b, ch)
<1>a. PICK g \in Rings : g = Put(f, x + (a + b), ch) /\ g = [f EXCEPT ![((x + (a + b)) % UINT) % INPUT_BUF] = ch]
  BY Zenon DEF Put, Rings
<1> DEFINE c == a + b
<1>0. c \in Nat /\ a \in 0..c /\ c - a = b /\ (c - a) + 1 = b + 1
  OBVIOUS
<1>1. INPUT_BUF \in Nat \ {0} /\ UINT \in Nat \ {0}
  BY DEF ConsoleConstants
<1> DEFINE spot(y) == (y % UINT) % INPUT_BUF
<1>2. ASSUME NEW y \in Int PROVE spot(y) \in 0..INPUT_BUF - 1 /\ spot(y) = y % INPUT_BUF
  <2>1. spot(y) = y % INPUT_BUF
    BY Spot, Zenon
  <2> QED
    BY <1>1, <2>1, DivMod
<1>3. x + c \in Int
  OBVIOUS
<1>4. ASSUME NEW j \in 0..c - 1 PROVE At(g, x + j) = At(f, x + j)
  <2>1. /\ x + j \in Int /\ x + j # x + c
        /\ -INPUT_BUF < (x + j) - (x + c) /\ (x + j) - (x + c) < INPUT_BUF
    BY <1>1
  <2>2. (x + j) % INPUT_BUF # (x + c) % INPUT_BUF
    BY <1>1, <1>3, <2>1, OtherMod, Zenon
  <2>3. spot(x + j) # spot(x + c)
    BY <1>2, <1>3, <2>1, <2>2, Zenon
  <2> QED
    BY <1>a, <1>2, <1>3, <2>1, <2>3, Zenon DEF At, Rings
<1>5. At(g, x + c) = ch
  BY <1>a, <1>2, <1>3, Zenon DEF At, Rings
<1>6. Bytes(g, x, a) = Bytes(f, x, a)
  <2>1. \A k \in 1..a : k - 1 \in 0..c - 1 /\ x + k - 1 = x + (k - 1)
    BY <1>0
  <2>2. \A k \in 1..a : At(g, x + k - 1) = At(f, x + k - 1)
    BY <1>4, <2>1, Zenon
  <2> QED
    BY <2>2, Zenon DEF Bytes
<1>7. x + a \in Int /\ c - a \in Nat /\ (c - a) + 1 \in Nat
  BY <1>0
<1>8. PICK u \in Seq(Chars) : u = Bytes(f, x + a, c - a) /\ Len(u) = c - a
                              /\ \A k \in 1..c - a : u[k] = At(f, x + a + k - 1)
  BY <1>7, BytesAre, Zenon
<1>9. PICK v \in Seq(Chars) : v = Bytes(g, x + a, (c - a) + 1) /\ Len(v) = (c - a) + 1
                              /\ \A k \in 1..(c - a) + 1 : v[k] = At(g, x + a + k - 1)
  BY ONLY ConsoleConstants, g \in Rings, <1>7, BytesAre, Zenon
<1>10. /\ Append(u, ch) \in Seq(Chars) /\ Len(Append(u, ch)) = (c - a) + 1
       /\ \A k \in 1..(c - a) + 1 : Append(u, ch)[k] = IF k <= c - a THEN u[k] ELSE ch
  BY ONLY <1>7, <1>8, ch \in Chars
<1>11. ASSUME NEW k \in 1..(c - a) + 1 PROVE v[k] = Append(u, ch)[k]
  <2>1. CASE k <= c - a
    <3>1. a + k - 1 \in 0..c - 1 /\ x + a + k - 1 = x + (a + k - 1) /\ k \in 1..c - a
      BY <2>1
    <3>2. At(g, x + a + k - 1) = At(f, x + a + k - 1)
      BY <1>4, <3>1, Zenon
    <3> QED
      BY <1>8, <1>9, <1>10, <2>1, <3>1, <3>2, Zenon
  <2>2. CASE ~(k <= c - a)
    <3>1. x + a + k - 1 = x + c
      BY <2>2
    <3> QED
      BY <1>5, <1>9, <1>10, <2>2, <3>1, Zenon
  <2> QED
    BY <2>1, <2>2, Zenon
<1>12. v = Append(u, ch)
  BY <1>9, <1>10, <1>11, Extensional, Zenon
<1> QED
  BY <1>a, <1>0, <1>6, <1>8, <1>9, <1>12, Zenon DEF Added

-----------------------------------------------------------------------------
Labels == {"idle", "read", "asleep", "dead"}

Types ==
  /\ input.buf \in Rings /\ input = [buf |-> input.buf, r |-> input.r, w |-> input.w, e |-> input.e]
  /\ pc \in [Readers -> Labels] /\ killed \in [Readers -> BOOLEAN]
  /\ target \in [Readers -> Nat] /\ n \in [Readers -> Nat]

\* r, w and e follow each other around the ring, and nothing in it is overwritten.
Ring ==
  LET a == Count(input.r, input.w)
      b == Count(input.w, input.e)
  IN /\ input.r \in Int /\ 0 <= input.r /\ input.r < UINT
     /\ a \in Nat /\ b \in Nat /\ a + b <= INPUT_BUF
     /\ input.w = (input.r + a) % UINT /\ input.e = (input.r + (a + b)) % UINT

\* A read in progress still wants something, at most what it asked for.
Wanted == \A p \in Readers : pc[p] \in {"read", "asleep"} => n[p] # 0 /\ n[p] <= target[p]

IInv == Types /\ Ring /\ Wanted /\ NoLostWakeup

\* The ring with r = x, a characters to read and b being edited.
Has(i, f, x, a, b) ==
  /\ f \in Rings /\ x \in Int /\ 0 <= x /\ x < UINT /\ a \in Nat /\ b \in Nat /\ a + b <= INPUT_BUF
  /\ i = [buf |-> f, r |-> x, w |-> (x + a) % UINT, e |-> (x + (a + b)) % UINT]

\* What LineDevice sees of it.
LEMMA RingNow ==
  ASSUME ConsoleConstants, Types, Ring
  PROVE  \E f \in Rings, x \in Int, a \in Nat, b \in Nat : Has(input, f, x, a, b)
<1> DEFINE a == Count(input.r, input.w)
           b == Count(input.w, input.e)
<1>1. /\ input.buf \in Rings /\ input = [buf |-> input.buf, r |-> input.r, w |-> input.w, e |-> input.e]
      /\ input.r \in Int /\ 0 <= input.r /\ input.r < UINT
      /\ a \in Nat /\ b \in Nat /\ a + b <= INPUT_BUF
      /\ input.w = (input.r + a) % UINT /\ input.e = (input.r + (a + b)) % UINT
  BY Zenon DEF Types, Ring
<1>2. Has(input, input.buf, input.r, a, b)
  BY <1>1, Zenon DEF Has
<1> QED
  BY <1>1, <1>2, Zenon

\* The distances in such a ring.
LEMMA Distances ==
  ASSUME ConsoleConstants, NEW x \in Int, NEW a \in Nat, NEW b \in Nat, 0 <= x, x < UINT,
         a + b <= INPUT_BUF
  PROVE  /\ Count(x, (x + a) % UINT) = a /\ Count((x + a) % UINT, (x + (a + b)) % UINT) = b
         /\ Count(x, (x + (a + b)) % UINT) = a + b
<1>1. UINT \in Nat \ {0} /\ x % UINT = x
  <2>1. UINT \in Nat \ {0}
    BY DEF ConsoleConstants
  <2> QED
    BY <2>1, SmallMod, Zenon
<1>2. /\ a \in Int /\ b \in Int /\ a + b \in Int /\ 0 <= a /\ 0 <= b /\ 0 <= a + b
      /\ a < UINT /\ b < UINT /\ a + b < UINT /\ x + a \in Int /\ (x + a) + b = x + (a + b)
  BY DEF ConsoleConstants
<1>3. Count(x % UINT, (x + a) % UINT) = a /\ Count(x % UINT, (x + (a + b)) % UINT) = a + b
  BY <1>2, Distance, Zenon
<1>4. Count((x + a) % UINT, ((x + a) + b) % UINT) = b
  BY <1>2, Distance, Zenon
<1> QED
  BY <1>1, <1>2, <1>3, <1>4, Zenon

\* Editing starts at w, wrapped or not.
LEMMA BytesFrom ==
  ASSUME ConsoleConstants, NEW f \in Rings, NEW y \in Int, NEW c \in Int
  PROVE  Bytes(f, y % UINT, c) = Bytes(f, y, c)
<1>1. UINT \in Nat \ {0}
  BY DEF ConsoleConstants
<1>2. PICK d \in Int : d = 0
  OBVIOUS
<1>3. Bytes(f, (y % UINT) + d, c) = Bytes(f, y + d, c)
  BY BytesWrapped, Zenon
<1>4. (y % UINT) + d = y % UINT /\ y + d = y
  BY <1>1, <1>2, DivMod
<1> QED
  BY <1>3, <1>4, Zenon

\* The characters that LineDevice has, for such a ring.
LEMMA Seen ==
  ASSUME ConsoleConstants, NEW f \in Rings, NEW x \in Int, NEW a \in Nat, NEW b \in Nat, Has(input, f, x, a, b)
  PROVE  /\ Ready = Bytes(f, x, a) /\ Editing = Bytes(f, x + a, b)
         /\ Count(input.r, input.w) = a /\ Count(input.w, input.e) = b
         /\ Count(input.r, input.e) = a + b /\ \A y \in Int : Char(y) = At(f, y)
<1>1. /\ f \in Rings /\ x \in Int /\ 0 <= x /\ x < UINT /\ a \in Nat /\ b \in Nat /\ a + b <= INPUT_BUF
      /\ input = [buf |-> f, r |-> x, w |-> (x + a) % UINT, e |-> (x + (a + b)) % UINT]
  BY Zenon DEF Has
<1>2. input.buf = f /\ input.r = x /\ input.w = (x + a) % UINT /\ input.e = (x + (a + b)) % UINT
  BY <1>1
<1>3. /\ Count(input.r, input.w) = a /\ Count(input.w, input.e) = b /\ Count(input.r, input.e) = a + b
  <2>1. /\ Count(x, (x + a) % UINT) = a /\ Count((x + a) % UINT, (x + (a + b)) % UINT) = b
        /\ Count(x, (x + (a + b)) % UINT) = a + b
    BY <1>1, Distances
  <2> QED
    BY <1>2, <2>1, Zenon
<1>4. \A y : Char(y) = At(f, y)
  BY <1>2, Zenon DEF Char, At
<1>5. \A y, z : Between(y, z) = Bytes(f, y, Count(y, z))
  BY <1>4, Zenon DEF Between, Bytes
<1>6. Ready = Bytes(f, x, a) /\ Editing = Bytes(f, (x + a) % UINT, b)
  BY <1>2, <1>3, <1>5, Zenon DEF Ready, Editing
<1>7. Bytes(f, (x + a) % UINT, b) = Bytes(f, x + a, b)
  <2>1. x + a \in Int /\ b \in Int
    BY <1>1
  <2> QED
    BY <1>1, <2>1, BytesFrom, Zenon
<1> QED
  BY <1>3, <1>4, <1>6, <1>7, Zenon

\* The same for the next state.
LEMMA SeenNext ==
  ASSUME ConsoleConstants, NEW f \in Rings, NEW x \in Int, NEW a \in Nat, NEW b \in Nat, Has(input', f, x, a, b)
  PROVE  /\ Ready' = Bytes(f, x, a) /\ Editing' = Bytes(f, x + a, b)
         /\ Ring' /\ input'.buf \in Rings
         /\ input' = [buf |-> input'.buf, r |-> input'.r, w |-> input'.w, e |-> input'.e]
<1>1. /\ f \in Rings /\ x \in Int /\ 0 <= x /\ x < UINT /\ a \in Nat /\ b \in Nat /\ a + b <= INPUT_BUF
      /\ input' = [buf |-> f, r |-> x, w |-> (x + a) % UINT, e |-> (x + (a + b)) % UINT]
  BY Zenon DEF Has
<1>2. input'.buf = f /\ input'.r = x /\ input'.w = (x + a) % UINT /\ input'.e = (x + (a + b)) % UINT
  BY <1>1
<1>3. /\ Count(input'.r, input'.w) = a /\ Count(input'.w, input'.e) = b /\ Count(input'.r, input'.e) = a + b
  <2>1. /\ Count(x, (x + a) % UINT) = a /\ Count((x + a) % UINT, (x + (a + b)) % UINT) = b
        /\ Count(x, (x + (a + b)) % UINT) = a + b
    BY <1>1, Distances
  <2> QED
    BY <1>2, <2>1, Zenon
<1>4. \A y : Char(y)' = At(f, y)
  BY <1>2, Zenon DEF Char, At
<1>5. \A y, z : Between(y, z)' = Bytes(f, y, Count(y, z))
  BY <1>4, Zenon DEF Between, Bytes
<1>6. Ready' = Bytes(f, x, a) /\ Editing' = Bytes(f, (x + a) % UINT, b)
  BY <1>2, <1>3, <1>5, Zenon DEF Ready, Editing
<1>7. Bytes(f, (x + a) % UINT, b) = Bytes(f, x + a, b)
  <2>1. x + a \in Int /\ b \in Int
    BY <1>1
  <2> QED
    BY <1>1, <2>1, BytesFrom, Zenon
<1>8. Ring'
  <2>1. Ring' <=> /\ input'.r \in Int /\ 0 <= input'.r /\ input'.r < UINT
                  /\ a \in Nat /\ b \in Nat /\ a + b <= INPUT_BUF
                  /\ input'.w = (input'.r + a) % UINT /\ input'.e = (input'.r + (a + b)) % UINT
    BY <1>3, Zenon DEF Ring
  <2> QED
    BY <1>1, <1>2, <2>1, Zenon
<1> QED
  BY <1>1, <1>2, <1>6, <1>7, <1>8, Zenon

-----------------------------------------------------------------------------
\* The device that the console is.
LD == INSTANCE LineDevice WITH Size <- INPUT_BUF, ready <- Ready, editing <- Editing

\* An empty ring, and nobody reads.
LEMMA InitHolds ==
  ASSUME ConsoleConstants, Init
  PROVE  IInv /\ LD!Init
<1>1. INPUT_BUF \in Nat \ {0} /\ UINT \in Nat \ {0} /\ 0 < UINT /\ 0 % UINT = 0
  <2>1. INPUT_BUF \in Nat \ {0} /\ UINT \in Nat \ {0} /\ 0 < UINT
    BY DEF ConsoleConstants
  <2> QED
    BY <2>1, SmallMod
<1>2. Has(input, [i \in 0..INPUT_BUF - 1 |-> Nul], 0, 0, 0)
  <2>1. [i \in 0..INPUT_BUF - 1 |-> Nul] \in Rings
    BY Zenon DEF Rings, Chars
  <2>2. (0 + 0) % UINT = 0 /\ (0 + (0 + 0)) % UINT = 0 /\ 0 + 0 <= INPUT_BUF
    BY <1>1
  <2> QED
    BY <1>1, <2>1, <2>2 DEF Init, Has
<1>3. /\ input.r = 0 /\ input.w = 0 /\ input.e = 0 /\ input.buf \in Rings
      /\ input = [buf |-> input.buf, r |-> input.r, w |-> input.w, e |-> input.e]
  BY <1>2 DEF Has, Init
<1>4. Count(0, 0) = 0
  BY <1>1 DEF Count
<1>5. Types
  BY <1>3 DEF Init, Types, Labels
<1>6. Ring
  BY <1>1, <1>3, <1>4 DEF Ring
<1>7. Wanted /\ NoLostWakeup
  BY Zenon DEF Init, Wanted, NoLostWakeup
<1>8. Ready = <<>> /\ Editing = <<>>
  BY <1>3, <1>4 DEF Ready, Editing, Between
<1> QED
  BY <1>5, <1>6, <1>7, <1>8, Zenon DEF IInv, LD!Init, Init

\* consoleintr stores a character: the line grows by it, or is entered with it.
LEMMA RingTyped ==
  ASSUME ConsoleConstants, NEW f \in Rings, NEW x \in Int, NEW a \in Nat, NEW b \in Nat, Has(input, f, x, a, b),
         NEW c \in Letters \cup {"\n", "^D"}, typed(c)
  PROVE  /\ \E g \in Rings : \/ Has(input', g, x, (a + b) + 1, 0) /\ pc' = Woken
                             \/ Has(input', g, x, a, b + 1) /\ pc' = pc
         /\ LD!Type(c)
<1>1. /\ 0 <= x /\ x < UINT /\ a + b <= INPUT_BUF
      /\ input = [buf |-> f, r |-> x, w |-> (x + a) % UINT, e |-> (x + (a + b)) % UINT]
  BY Zenon DEF Has
<1>2. Ready = Bytes(f, x, a) /\ Editing = Bytes(f, x + a, b) /\ Count(input.r, input.e) = a + b
  BY Seen, Zenon
<1>3. a + b < INPUT_BUF
  BY <1>2, Zenon DEF typed, HasRoom
<1>4. c \in Chars
  BY Zenon DEF Chars
<1>5. PICK g \in Rings : /\ g = [f EXCEPT ![((x + (a + b)) % UINT) % INPUT_BUF] = c] /\ Bytes(g, x, a) = Bytes(f, x, a)
                         /\ Bytes(g, x + a, b + 1) = Append(Bytes(f, x + a, b), c)
  <2>1. Added(f, x, a, b, c)
    BY <1>3, <1>4, BytesPut, Zenon
  <2>2. Put(f, x + (a + b), c) = [f EXCEPT ![((x + (a + b)) % UINT) % INPUT_BUF] = c]
    BY Zenon DEF Put
  <2> QED
    BY <2>1, <2>2, Zenon DEF Added
<1>6. Ready = Bytes(g, x, a) /\ Append(Editing, c) = Bytes(g, x + a, b + 1)
  BY <1>2, <1>5, Zenon
<1>7. Len(Ready) = a /\ Len(Editing) = b
  <2>1. x + a \in Int
    OBVIOUS
  <2> QED
    BY <1>2, <2>1, BytesAre, Zenon
<1>8. PICK m \in Nat, t \in Nat, z \in Nat : m = b + 1 /\ t = (a + b) + 1 /\ z = 0
  OBVIOUS
<1>9. /\ UINT \in Nat \ {0} /\ INPUT_BUF \in Nat \ {0} /\ INPUT_BUF < UINT
      /\ t <= INPUT_BUF /\ a + m = t /\ t + z = t
  BY <1>3, <1>8 DEF ConsoleConstants
<1>10. PICK e \in Int : e = (x + t) % UINT
  BY <1>9, DivMod
<1>11. (input.e + 1) % UINT = e
  <2>1. input.e = (x + (a + b)) % UINT
    BY <1>1
  <2>2. PICK d \in Int : d = 1
    OBVIOUS
  <2>3. x + (a + b) \in Int
    OBVIOUS
  <2>4. (((x + (a + b)) % UINT) + d) % UINT = ((x + (a + b)) + d) % UINT
    BY <1>9, <2>3, SumMod, Zenon
  <2>5. (x + (a + b)) + d = x + t
    BY <1>8, <2>2
  <2> QED
    BY <1>10, <2>1, <2>2, <2>4, <2>5, Zenon
<1>12. Len(Append(Editing, c)) = m
  <2>1. x + a \in Int
    OBVIOUS
  <2>2. Len(Bytes(g, x + a, m)) = m
    BY <2>1, BytesAre, Zenon
  <2> QED
    BY <1>6, <1>8, <2>2, Zenon
<1>13. Commits(c, e) <=> c \in {"\n", "^D"} \/ a + m = INPUT_BUF
  <2>1. input.r = x
    BY <1>1
  <2>2. CASE t = INPUT_BUF
    BY <1>9, <1>10, <2>1, <2>2, Zenon DEF Commits
  <2>3. CASE t # INPUT_BUF
    <3>1. /\ x + t \in Int /\ x + INPUT_BUF \in Int /\ x + t # x + INPUT_BUF
          /\ -UINT < (x + t) - (x + INPUT_BUF) /\ (x + t) - (x + INPUT_BUF) < UINT
      BY <1>9, <2>3
    <3>2. e # (x + INPUT_BUF) % UINT
      BY <1>9, <1>10, <3>1, OtherMod, Zenon
    <3> QED
      BY <1>9, <2>1, <2>3, <3>2, Zenon DEF Commits
  <2> QED
    BY <2>2, <2>3, Zenon
<1>14. /\ Commits(c, e) => input' = [buf |-> g, r |-> x, w |-> e, e |-> e] /\ pc' = Woken
       /\ ~Commits(c, e) => input' = [buf |-> g, r |-> x, w |-> (x + a) % UINT, e |-> e] /\ pc' = pc
  <2>1. input.e % INPUT_BUF = ((x + (a + b)) % UINT) % INPUT_BUF /\ input.buf = f
    BY <1>1
  <2>2. [input.buf EXCEPT ![input.e % INPUT_BUF] = c] = g
    BY <1>5, <2>1, Zenon
  <2>3. /\ Commits(c, e) => input' = [input EXCEPT !.buf = g, !.e = e, !.w = e] /\ pc' = Woken
        /\ ~Commits(c, e) => input' = [input EXCEPT !.buf = g, !.e = e] /\ pc' = pc
    BY <1>11, <2>2, Zenon DEF typed
  <2> QED
    BY <1>1, <2>3, Zenon
<1>16. CASE Commits(c, e)
  <2>1. Has(input', g, x, t, z)
    BY <1>1, <1>9, <1>10, <1>14, <1>16, Zenon DEF Has
  <2>2. Ready' = Bytes(g, x, t) /\ Editing' = Bytes(g, x + t, z)
    BY <2>1, SeenNext
  <2>3. Ready' = Ready \o Append(Editing, c)
    <3>1. Bytes(g, x, a + m) = Bytes(g, x, a) \o Bytes(g, x + a, m)
      BY BytesJoin, Zenon
    <3> QED
      BY <1>6, <1>8, <1>9, <2>2, <3>1, Zenon
  <2>4. Editing' = <<>>
    <3>1. \A y : Bytes(g, y, 0) = <<>>
      BY DEF Bytes
    <3> QED
      BY <1>8, <2>2, <3>1, Zenon
  <2>5. LD!Type(c)
    BY <1>3, <1>7, <1>12, <1>13, <1>16, <2>3, <2>4, Zenon DEF LD!Type, typed
  <2> QED
    BY <1>8, <1>14, <1>16, <2>1, <2>5, Zenon
<1>17. CASE ~Commits(c, e)
  <2>1. Has(input', g, x, a, m)
    BY <1>1, <1>9, <1>10, <1>14, <1>17, Zenon DEF Has
  <2>2. Ready' = Ready /\ Editing' = Append(Editing, c)
    <3>1. Ready' = Bytes(g, x, a) /\ Editing' = Bytes(g, x + a, m)
      BY <2>1, SeenNext
    <3> QED
      BY <1>6, <1>8, <3>1, Zenon
  <2>3. LD!Type(c)
    BY <1>3, <1>7, <1>12, <1>13, <1>17, <2>2, Zenon DEF LD!Type, typed
  <2> QED
    BY <1>8, <1>14, <1>17, <2>1, <2>3, Zenon
<1> QED
  BY <1>16, <1>17, Zenon

-----------------------------------------------------------------------------
\* The order of the natural numbers is well-founded: a set of them that is not empty has a least
\* one, and one in 0..b a greatest.
Less == {ij \in Nat \X Nat : ij[1] < ij[2]}

\* The order of the natural numbers is well-founded.
LEMMA LessWellFounded == IsWellFoundedOn(Less, Nat)
  BY NatLessThanWellFounded, Zenon DEF OpToRel, Less

\* Min is the least element of a nonempty set: the byte at which a read ends.
LEMMA Least ==
  ASSUME NEW S \in SUBSET Nat, S # {}
  PROVE  Min(S) \in S /\ \A i \in S : Min(S) <= i
<1>1. PICK l \in S : \A j \in S : ~(<<j, l>> \in Less)
  BY LessWellFounded, WFMin, Zenon
<1>2. ASSUME NEW j \in S PROVE l <= j
  <2>1. l \in Nat /\ j \in Nat
    BY Zenon
  <2>2. ~(j < l)
    BY <1>1, <2>1, Zenon DEF Less
  <2> QED
    BY <2>1, <2>2
<1> QED
  BY <1>2, Zenon DEF Min

\* Max is the greatest element of a nonempty set that is bounded: where control-U stops.
LEMMA Greatest ==
  ASSUME NEW b \in Nat, NEW S \in SUBSET (0..b), S # {}
  PROVE  Max(S) \in S
<1> DEFINE T == {b - k : k \in S}
<1>1. T \in SUBSET Nat /\ T # {}
  <2>1. \A k \in S : b - k \in Nat
    OBVIOUS
  <2> QED
    BY <2>1, Zenon
<1>2. PICK l : l = Min(T) /\ l \in T /\ \A i \in T : l <= i
  BY <1>1, Least, Zenon
<1>3. PICK k \in S : b - k = l
  BY <1>2, Zenon
<1>4. ASSUME NEW j \in S PROVE k >= j
  <2>1. l <= b - j
    BY <1>2, Zenon
  <2>2. j \in 0..b /\ k \in 0..b
    BY Zenon
  <2> QED
    BY <1>3, <2>1, <2>2
<1> QED
  BY <1>4, Zenon DEF Max

\* Min of two numbers.
LEMMA LesserOf ==
  ASSUME NEW a \in Nat, NEW m \in Nat
  PROVE  Min({a, m}) = IF a <= m THEN a ELSE m
<1>1. Min({a, m}) \in {a, m} /\ \A i \in {a, m} : Min({a, m}) <= i
  BY Least
<1> QED
  BY <1>1

\* consoleintr takes t characters of the line back.
LEMMA RingErased ==
  ASSUME ConsoleConstants, NEW f \in Rings, NEW x \in Int, NEW a \in Nat, NEW b \in Nat, Has(input, f, x, a, b),
         NEW t \in 0..b, input' = [input EXCEPT !.e = (@ - t) % UINT], eof' = eof
  PROVE  /\ \E k \in Nat : Has(input', f, x, a, k)
         /\ LD!Erase
<1>1. /\ 0 <= x /\ x < UINT /\ a + b <= INPUT_BUF
      /\ input = [buf |-> f, r |-> x, w |-> (x + a) % UINT, e |-> (x + (a + b)) % UINT]
  BY Zenon DEF Has
<1>2. Ready = Bytes(f, x, a) /\ Editing = Bytes(f, x + a, b)
  BY Seen, Zenon
<1>3. x + a \in Int /\ x + (a + b) \in Int /\ UINT \in Nat \ {0}
  BY DEF ConsoleConstants
<1>4. Len(Editing) = b
  BY <1>2, <1>3, BytesAre, Zenon
<1>5. PICK k \in 0..b, d \in Int : k = b - t /\ d = -t /\ a + k <= INPUT_BUF /\ (x + (a + b)) + d = x + (a + k)
  BY <1>1 DEF ConsoleConstants
<1>6. (input.e - t) % UINT = (x + (a + k)) % UINT
  <2>1. (((x + (a + b)) % UINT) + d) % UINT = ((x + (a + b)) + d) % UINT
    BY <1>3, SumMod, Zenon
  <2>2. input.e = (x + (a + b)) % UINT
    BY <1>1
  <2>3. input.e \in Int
    BY <1>3, <2>2, DivMod
  <2>4. input.e - t = input.e + d
    BY <1>5, <2>3
  <2> QED
    BY <1>5, <2>1, <2>2, <2>4, Zenon
<1>7. Has(input', f, x, a, k) /\ k \in Nat
  <2>1. input' = [buf |-> f, r |-> x, w |-> (x + a) % UINT, e |-> (x + (a + k)) % UINT]
    BY <1>1, <1>6
  <2>2. k \in Nat
    OBVIOUS
  <2> QED
    BY <1>1, <1>5, <2>1, <2>2, Zenon DEF Has
<1>8. Ready' = Bytes(f, x, a) /\ Editing' = Bytes(f, x + a, k)
  BY <1>7, SeenNext
<1>9. Bytes(f, x + a, k) = SubSeq(Bytes(f, x + a, b), 1, k)
  BY <1>3, BytesPart, Zenon
<1> QED
  BY <1>2, <1>4, <1>7, <1>8, <1>9, Zenon DEF LD!Erase

\* consoleread takes t characters out of the ring.
LEMMA RingTaken ==
  ASSUME ConsoleConstants, NEW f \in Rings, NEW x \in Int, NEW a \in Nat, NEW b \in Nat, Has(input, f, x, a, b),
         NEW t \in 0..a, input' = [input EXCEPT !.r = (x + t) % UINT]
  PROVE  /\ \E y \in Int, k \in Nat : Has(input', f, y, k, b)
         /\ Ready' = SubSeq(Ready, t + 1, a) /\ Editing' = Editing
<1>1. /\ 0 <= x /\ x < UINT /\ a + b <= INPUT_BUF
      /\ input = [buf |-> f, r |-> x, w |-> (x + a) % UINT, e |-> (x + (a + b)) % UINT]
  BY Zenon DEF Has
<1>2. Ready = Bytes(f, x, a) /\ Editing = Bytes(f, x + a, b)
  BY Seen, Zenon
<1>3. Bytes(f, x + t, a - t) = SubSeq(Bytes(f, x, a), t + 1, a)
  BY BytesPart, Zenon
<1>4. /\ x + t \in Int /\ UINT \in Nat \ {0} /\ a - t \in Nat /\ (a - t) + b <= INPUT_BUF
      /\ (x + t) + (a - t) = x + a /\ (x + t) + ((a - t) + b) = x + (a + b)
      /\ a - t \in Int /\ (a - t) + b \in Int /\ b \in Int
  BY <1>1 DEF ConsoleConstants
<1>5. PICK y \in Int, k \in Nat : y = (x + t) % UINT /\ 0 <= y /\ y < UINT /\ k = a - t
  <2>1. (x + t) % UINT \in Int /\ 0 <= (x + t) % UINT /\ (x + t) % UINT < UINT
    BY <1>4, DivMod
  <2> QED
    BY <1>4, <2>1, Zenon
<1>6. (y + k) % UINT = (x + a) % UINT /\ (y + (k + b)) % UINT = (x + (a + b)) % UINT
  <2>1. (((x + t) % UINT) + (a - t)) % UINT = ((x + t) + (a - t)) % UINT
    BY <1>4, SumMod, Zenon
  <2>2. (((x + t) % UINT) + ((a - t) + b)) % UINT = ((x + t) + ((a - t) + b)) % UINT
    BY <1>4, SumMod, Zenon
  <2> QED
    BY <1>4, <1>5, <2>1, <2>2, Zenon
<1>7. Has(input', f, y, k, b)
  <2>1. input' = [buf |-> f, r |-> y, w |-> (y + k) % UINT, e |-> (y + (k + b)) % UINT]
    BY <1>1, <1>5, <1>6
  <2> QED
    BY <1>4, <1>5, <2>1, Zenon DEF Has
<1>8. Ready' = Bytes(f, y, k) /\ Editing' = Bytes(f, y + k, b)
  BY <1>7, SeenNext
<1>9. Bytes(f, y, k) = Bytes(f, x + t, k)
  <2>1. k \in Int
    OBVIOUS
  <2> QED
    BY <1>4, <1>5, <2>1, BytesFrom, Zenon
<1>10. Bytes(f, y + k, b) = Bytes(f, x + a, b)
  <2>1. Bytes(f, ((x + t) % UINT) + k, b) = Bytes(f, (x + t) + k, b)
    <3>1. k \in Int
      OBVIOUS
    <3> QED
      BY <1>4, <3>1, BytesWrapped
  <2> QED
    BY <1>4, <1>5, <2>1, Zenon
<1> QED
  BY <1>2, <1>3, <1>5, <1>7, <1>8, <1>9, <1>10, Zenon

\* What it takes is one read of the device, or nothing.
LEMMA ReadTaken ==
  ASSUME ConsoleConstants, NEW f \in Rings, NEW x \in Int, NEW a \in Nat, NEW b \in Nat, Has(input, f, x, a, b),
         NEW t \in 0..a, input' = [input EXCEPT !.r = (x + t) % UINT], eof' = eof,
         \A i \in 1..t : At(f, x + i - 1) # "^D" /\ (At(f, x + i - 1) = "\n" => i = t)
  PROVE  LD!Next \/ UNCHANGED LD!vars
<1>1. Ready' = SubSeq(Ready, t + 1, a) /\ Editing' = Editing
  BY RingTaken, Zenon
<1>2. Ready = Bytes(f, x, a)
  BY Seen, Zenon
<1>3. Ready \in Seq(Chars) /\ Len(Ready) = a /\ \A i \in 1..a : Ready[i] = At(f, x + i - 1)
  BY <1>2, BytesAre, Zenon
<1>4. CASE t = 0
  <2>1. SubSeq(Ready, 1, a) = Ready
    BY <1>3
  <2>2. t + 1 = 1
    BY <1>4
  <2> QED
    BY <1>1, <2>1, <2>2, Zenon DEF LD!vars
<1>5. CASE t # 0
  <2>1. t \in 1..a /\ \A i \in 1..t : i \in 1..a
    BY <1>5
  <2>2. LD!Read(t)
    BY <1>1, <1>3, <2>1, Zenon DEF LD!Read
  <2> QED
    BY <1>3, <2>1, <2>2, Zenon DEF LD!Next
<1> QED
  BY <1>4, <1>5, Zenon

-----------------------------------------------------------------------------
\* A step that keeps r and w, and puts nobody to sleep, loses no wakeup.
LEMMA Silent ==
  ASSUME NoLostWakeup, input'.r = input.r, input'.w = input.w, killed' = killed,
         \A q \in Readers : pc'[q] = "asleep" => pc[q] = "asleep"
  PROVE  NoLostWakeup'
BY Zenon DEF NoLostWakeup

\* consoleintr with a character for which there is room types it, and enters the line if it ends it.
LEMMA TypedStep ==
  ASSUME ConsoleConstants, IInv, NEW c \in Letters \cup {"\n", "^D"}, typed(c)
  PROVE  IInv' /\ LD!Type(c)
<1>1. PICK f \in Rings, x \in Int, a \in Nat, b \in Nat : Has(input, f, x, a, b)
  BY RingNow, Zenon DEF IInv
<1>2. /\ \E g \in Rings : \/ Has(input', g, x, (a + b) + 1, 0) /\ pc' = Woken
                          \/ Has(input', g, x, a, b + 1) /\ pc' = pc
      /\ LD!Type(c)
  BY <1>1, RingTyped, Zenon
<1>3. target' = target /\ n' = n /\ killed' = killed
  BY Zenon DEF typed
<1>4. /\ pc \in [Readers -> Labels]
      /\ pc' # pc => /\ pc' \in [Readers -> Labels]
                     /\ \A q \in Readers : pc'[q] # "asleep" /\ (pc'[q] = "read" => pc[q] \in {"read", "asleep"})
  <2>1. pc \in [Readers -> Labels]
    BY Zenon DEF IInv, Types
  <2>2. /\ Woken \in [Readers -> Labels]
        /\ \A q \in Readers : Woken[q] # "asleep" /\ (Woken[q] = "read" => pc[q] \in {"read", "asleep"})
    BY <2>1 DEF Woken, Labels
  <2> QED
    BY <1>2, <2>1, <2>2, Zenon
<1>5. /\ Ring' /\ input'.buf \in Rings
      /\ input' = [buf |-> input'.buf, r |-> input'.r, w |-> input'.w, e |-> input'.e]
  <2>1. PICK g \in Rings, j \in Nat, k \in Nat : Has(input', g, x, j, k)
    <3>1. (a + b) + 1 \in Nat /\ 0 \in Nat /\ b + 1 \in Nat
      OBVIOUS
    <3> QED
      BY <1>2, <3>1, Zenon
  <2> QED
    BY <2>1, SeenNext
<1>6. Types'
  BY <1>3, <1>4, <1>5, Zenon DEF IInv, Types
<1>7. Wanted'
  BY <1>3, <1>4, Zenon DEF IInv, Wanted
<1>8. NoLostWakeup'
  <2>1. CASE \E g \in Rings : Has(input', g, x, a, b + 1) /\ pc' = pc
    <3>1. input'.r = input.r /\ input'.w = input.w
      BY <1>1, <2>1 DEF Has
    <3> QED
      BY <1>3, <2>1, <3>1, Silent, Zenon DEF IInv
  <2>2. CASE pc' = Woken
    <3>1. \A q \in Readers : pc'[q] # "asleep"
      BY <1>4, <2>2 DEF Woken
    <3> QED
      BY <3>1, Zenon DEF NoLostWakeup
  <2> QED
    BY <1>2, <2>1, <2>2, Zenon
<1> QED
  BY <1>2, <1>5, <1>6, <1>7, <1>8, Zenon DEF IInv

\* consoleintr with backspace or control-U erases the end of the line being typed.
LEMMA EraseStep ==
  ASSUME ConsoleConstants, IInv, backspace \/ killLine
  PROVE  IInv' /\ LD!Erase
<1>1. PICK f \in Rings, x \in Int, a \in Nat, b \in Nat : Has(input, f, x, a, b)
  BY RingNow, Zenon DEF IInv
<1>2. pc' = pc /\ target' = target /\ n' = n /\ killed' = killed /\ eof' = eof
  BY Zenon DEF backspace, killLine
<1>3. PICK t \in 0..b : input' = [input EXCEPT !.e = (@ - t) % UINT]
  <2>1. CASE backspace
    <3>1. b # 0
      BY <1>1, <2>1 DEF Has, backspace
    <3>2. PICK t \in 0..b : t = 1
      BY <3>1
    <3> QED
      BY <2>1, <3>2, Zenon DEF backspace
  <2>2. CASE killLine
    <3>1. Count(input.w, input.e) = b
      BY <1>1, Seen, Zenon
    <3> DEFINE S == {k \in 0..Count(input.w, input.e) : \A j \in 1..k : Char(input.e - j) # "\n"}
    <3>2. S \in SUBSET (0..b) /\ 0 \in S
      BY <3>1
    <3>3. Max(S) \in 0..b
      BY <3>2, Greatest, Zenon
    <3> QED
      BY <2>2, <3>3, Zenon DEF killLine
  <2> QED
    BY <2>1, <2>2, Zenon
<1>4. PICK k \in Nat : Has(input', f, x, a, k)
  BY <1>1, <1>2, <1>3, RingErased
<1>5. LD!Erase
  BY <1>1, <1>2, <1>3, RingErased
<1>6. /\ Ring' /\ input'.buf \in Rings
      /\ input' = [buf |-> input'.buf, r |-> input'.r, w |-> input'.w, e |-> input'.e]
  BY <1>4, SeenNext
<1>7. Types' /\ Wanted'
  BY <1>2, <1>6, Zenon DEF IInv, Types, Wanted
<1>8. NoLostWakeup'
  <2>1. input'.r = input.r /\ input'.w = input.w
    BY <1>1, <1>4 DEF Has
  <2> QED
    BY <1>2, <2>1, Silent, Zenon DEF IInv
<1> QED
  BY <1>5, <1>6, <1>7, <1>8, Zenon DEF IInv

\* A process that is killed, or begins a read, leaves the ring alone.
LEMMA RingKept ==
  ASSUME input' = input, eof' = eof
  PROVE  UNCHANGED LD!vars
BY Zenon DEF LD!vars, Ready, Editing, Between, Char

\* Calling consoleread changes nothing of the device.
LEMMA CallStep ==
  ASSUME ConsoleConstants, IInv, NEW p \in Readers, NEW count \in Counts, call(p, count)
  PROVE  IInv' /\ UNCHANGED LD!vars
<1>1. /\ input' = input /\ killed' = killed /\ eof' = eof /\ pc' = [pc EXCEPT ![p] = "read"]
      /\ target' = [target EXCEPT ![p] = count] /\ n' = [n EXCEPT ![p] = count] /\ pc[p] = "idle"
  BY Zenon DEF call
<1>2. count \in Nat /\ count # 0 /\ count <= count
  BY DEF ConsoleConstants
<1>3. Ring'
  BY <1>1, Zenon DEF IInv, Ring
<1>4. Types'
  BY <1>1, <1>2, Zenon DEF IInv, Types, Labels
<1>5. Wanted'
  BY <1>1, <1>2, Zenon DEF IInv, Types, Wanted
<1>6. NoLostWakeup'
  BY <1>1, Zenon DEF IInv, Types, NoLostWakeup
<1> QED
  BY <1>1, <1>3, <1>4, <1>5, <1>6, RingKept, Zenon DEF IInv

\* kill wakes a reader and changes nothing of the device.
LEMMA KillStep ==
  ASSUME ConsoleConstants, IInv, NEW p \in Readers, kill(p)
  PROVE  IInv' /\ UNCHANGED LD!vars
<1>1. /\ input' = input /\ killed' = [killed EXCEPT ![p] = TRUE] /\ eof' = eof /\ target' = target /\ n' = n
      /\ pc' = [pc EXCEPT ![p] = CASE @ = "asleep" -> "read" [] @ = "idle" -> "dead" [] OTHER -> @]
  BY Zenon DEF kill
<1>2. pc \in [Readers -> Labels] /\ killed \in [Readers -> BOOLEAN]
  BY Zenon DEF IInv, Types
<1>3. /\ pc' \in [Readers -> Labels] /\ pc'[p] # "asleep" /\ (pc'[p] = "read" => pc[p] \in {"read", "asleep"})
      /\ \A q \in Readers : q # p => pc'[q] = pc[q]
  BY <1>1, <1>2 DEF Labels
<1>4. killed' \in [Readers -> BOOLEAN] /\ \A q \in Readers : q # p => killed'[q] = killed[q]
  BY <1>1, <1>2, Zenon
<1>5. Ring'
  BY <1>1, Zenon DEF IInv, Ring
<1>6. Types'
  BY <1>1, <1>3, <1>4, Zenon DEF IInv, Types
<1>7. Wanted'
  <2>1. ASSUME NEW q \in Readers, pc'[q] \in {"read", "asleep"} PROVE n[q] # 0 /\ n[q] <= target[q]
    <3>1. pc[q] \in {"read", "asleep"}
      BY <1>3, <2>1, Zenon
    <3> QED
      BY <3>1, Zenon DEF IInv, Wanted
  <2> QED
    BY <1>1, <2>1, Zenon DEF Wanted
<1>8. NoLostWakeup'
  BY <1>1, <1>3, <1>4, Zenon DEF IInv, NoLostWakeup
<1> QED
  BY <1>1, <1>5, <1>6, <1>7, <1>8, RingKept, Zenon DEF IInv

\* The bytes that would end a read of m bytes, for a ring with a characters to read from x on.
EndsAt(f, x, a, m) == {i \in 1..Min({a, m}) : i = m \/ At(f, x + i - 1) \in {"\n", "^D"}}

\* Without such a byte everything that is there is taken, and it is too little; otherwise the read
\* ends at the first of them.
LEMMA Ending ==
  ASSUME NEW f, NEW x \in Int, NEW a \in Nat, NEW m \in Nat \ {0}
  PROVE  /\ EndsAt(f, x, a, m) = {} => a < m /\ \A i \in 1..a : At(f, x + i - 1) \notin {"\n", "^D"}
         /\ EndsAt(f, x, a, m) # {} =>
              \E l \in 1..a : /\ l = Min(EndsAt(f, x, a, m)) /\ l <= m
                              /\ \A i \in 1..l - 1 : At(f, x + i - 1) \notin {"\n", "^D"}
<1>1. PICK E \in SUBSET Nat, k \in Nat :
        /\ E = EndsAt(f, x, a, m) /\ k = Min({a, m}) /\ k <= a /\ k <= m /\ (k = a \/ k = m)
        /\ E = {i \in 1..k : i = m \/ At(f, x + i - 1) \in {"\n", "^D"}}
  <2>1. Min({a, m}) \in Nat /\ Min({a, m}) <= a /\ Min({a, m}) <= m /\ (Min({a, m}) = a \/ Min({a, m}) = m)
    BY LesserOf
  <2>2. EndsAt(f, x, a, m) \in SUBSET Nat
    BY <2>1 DEF EndsAt
  <2> QED
    BY <2>1, <2>2, Zenon DEF EndsAt
<1>2. CASE E = {}
  <2>1. a < m /\ k = a
    <3>1. m \in 1..m
      OBVIOUS
    <3>2. k # m
      BY <1>1, <1>2, <3>1, Zenon
    <3>3. k \in Nat /\ k <= m /\ (k = a \/ k = m)
      BY <1>1, Zenon
    <3> QED
      BY <3>2, <3>3
  <2>2. \A i \in 1..k : At(f, x + i - 1) \notin {"\n", "^D"}
    BY <1>1, <1>2, Zenon
  <2> QED
    BY <1>1, <1>2, <2>1, <2>2, Zenon
<1>3. CASE E # {}
  <2>1. PICK l \in E : l = Min(E) /\ \A i \in E : l <= i
    BY <1>3, Least, Zenon
  <2>2. l \in 1..k
    BY <1>1, Zenon
  <2>3. l \in 1..a /\ l <= m /\ \A i \in 1..l - 1 : i \in 1..k /\ ~(l <= i)
    BY <1>1, <2>2
  <2>4. ASSUME NEW i \in 1..l - 1 PROVE At(f, x + i - 1) \notin {"\n", "^D"}
    <3>1. i \notin E /\ i \in 1..k
      BY <2>1, <2>3, Zenon
    <3> QED
      BY <1>1, <3>1, Zenon
  <2> QED
    BY <1>1, <1>3, <2>1, <2>3, <2>4, Zenon
<1> QED
  BY <1>2, <1>3, Zenon

\* A read that does not find its end: all is taken, and the reader sleeps unless it was killed.
LEMMA ReadOn ==
  ASSUME ConsoleConstants, IInv, NEW p \in Readers, consoleread(p),
         NEW f \in Rings, NEW x \in Int, NEW a \in Nat, NEW b \in Nat, Has(input, f, x, a, b),
         EndsAt(f, x, a, n[p]) = {}
  PROVE  /\ input' = [input EXCEPT !.r = (x + a) % UINT] /\ input'.r = input'.w
         /\ pc' = IF killed[p] THEN Back(p) ELSE [pc EXCEPT ![p] = "asleep"]
         /\ n' = [n EXCEPT ![p] = IF killed[p] THEN 0 ELSE n[p] - a] /\ eof' = eof
<1>1. /\ Count(input.r, input.w) = a /\ \A y \in Int : Char(y) = At(f, y)
  BY Seen, Zenon
<1>2. input.r = x /\ input.w = (x + a) % UINT
  BY DEF Has
<1>3. {i \in 1..Min({Count(input.r, input.w), n[p]}) : i = n[p] \/ Char(input.r + i - 1) \in {"\n", "^D"}} = {}
  <2>1. \A i \in 1..Min({a, n[p]}) : x + i - 1 \in Int
    OBVIOUS
  <2> QED
    BY <1>1, <1>2, <2>1, Zenon DEF EndsAt
<1>4. /\ input' = [input EXCEPT !.r = input.w]
      /\ pc' = IF killed[p] THEN Back(p) ELSE [pc EXCEPT ![p] = "asleep"]
      /\ n' = [n EXCEPT ![p] = IF killed[p] THEN 0 ELSE n[p] - Count(input.r, input.w)] /\ eof' = eof
  BY <1>3, Zenon DEF consoleread
<1>5. input'.r = input'.w
  BY <1>2, <1>4 DEF Has
<1> QED
  BY <1>1, <1>2, <1>4, <1>5, Zenon

\* A read that finds its end at byte l.
EndsWith(p, f, x, l) ==
  /\ input' = [input EXCEPT !.r = (x + (IF At(f, x + l - 1) = "^D" /\ n[p] - (l - 1) < target[p]
                                        THEN l - 1 ELSE l)) % UINT]
  /\ pc' = Back(p) /\ n' = [n EXCEPT ![p] = 0]
  /\ eof' = IF target[p] - n[p] + (IF At(f, x + l - 1) = "^D" THEN l - 1 ELSE l) = 0 THEN 1 - eof ELSE eof

\* consoleread returns with the byte that ends it.
LEMMA ReadEnds ==
  ASSUME ConsoleConstants, IInv, NEW p \in Readers, consoleread(p),
         NEW f \in Rings, NEW x \in Int, NEW a \in Nat, NEW b \in Nat, Has(input, f, x, a, b),
         NEW l \in 1..a, l = Min(EndsAt(f, x, a, n[p])), EndsAt(f, x, a, n[p]) # {}
  PROVE  EndsWith(p, f, x, l)
<1>1. /\ Count(input.r, input.w) = a /\ \A y \in Int : Char(y) = At(f, y)
  BY Seen, Zenon
<1>2. input.r = x
  BY DEF Has
<1>3. {i \in 1..Min({Count(input.r, input.w), n[p]}) : i = n[p] \/ Char(input.r + i - 1) \in {"\n", "^D"}}
        = EndsAt(f, x, a, n[p])
  <2>1. \A i \in 1..Min({a, n[p]}) : x + i - 1 \in Int
    OBVIOUS
  <2> QED
    BY <1>1, <1>2, <2>1, Zenon DEF EndsAt
<1>4. Char(input.r + l - 1) = At(f, x + l - 1)
  <2>1. x + l - 1 \in Int
    OBVIOUS
  <2> QED
    BY <1>1, <1>2, <2>1, Zenon
<1>5. /\ input' = [input EXCEPT !.r = (input.r + Taken(p, l)) % UINT]
      /\ pc' = Back(p) /\ n' = [n EXCEPT ![p] = 0]
      /\ eof' = IF target[p] - n[p] + (IF Char(input.r + l - 1) = "^D" THEN l - 1 ELSE l) = 0 THEN 1 - eof ELSE eof
  BY <1>3, Zenon DEF consoleread
<1> QED
  BY <1>2, <1>4, <1>5, Zenon DEF Taken, EndsWith

\* consoleread() is a read of the device, the end of a file, or nothing it can see.
LEMMA ReadStep ==
  ASSUME ConsoleConstants, IInv, NEW p \in Readers, consoleread(p)
  PROVE  IInv' /\ (LD!Next \/ UNCHANGED LD!vars)
<1>1. PICK f \in Rings, x \in Int, a \in Nat, b \in Nat : Has(input, f, x, a, b)
  BY RingNow, Zenon DEF IInv
<1>2. /\ pc \in [Readers -> Labels] /\ killed \in [Readers -> BOOLEAN]
      /\ target \in [Readers -> Nat] /\ n \in [Readers -> Nat]
  BY Zenon DEF IInv, Types
<1>3. PICK m \in Nat \ {0}, g \in Nat : m = n[p] /\ g = target[p] /\ m <= g
  <2>1. pc[p] \in {"read", "asleep"}
    BY Zenon DEF consoleread
  <2>2. n[p] # 0 /\ n[p] <= target[p] /\ n[p] \in Nat /\ target[p] \in Nat
    BY <1>2, <2>1, Zenon DEF IInv, Wanted
  <2> QED
    BY <2>2, Zenon
<1>4. killed' = killed /\ target' = [target EXCEPT ![p] = IF pc'[p] = "asleep" THEN @ ELSE 0]
  BY Zenon DEF consoleread
<1>5. /\ Back(p) \in [Readers -> Labels] /\ Back(p)[p] \in {"idle", "dead"}
      /\ \A q \in Readers : q # p => Back(p)[q] = pc[q]
  BY <1>2 DEF Back, Labels
<1>6. CASE EndsAt(f, x, a, n[p]) = {}
  <2>1. /\ input' = [input EXCEPT !.r = (x + a) % UINT] /\ input'.r = input'.w
        /\ pc' = IF killed[p] THEN Back(p) ELSE [pc EXCEPT ![p] = "asleep"]
        /\ n' = [n EXCEPT ![p] = IF killed[p] THEN 0 ELSE n[p] - a] /\ eof' = eof
    BY <1>1, <1>6, ReadOn, Zenon
  <2>2. a < m /\ \A i \in 1..a : At(f, x + i - 1) \notin {"\n", "^D"}
    BY <1>3, <1>6, Ending, Zenon
  <2>3. a \in 0..a
    OBVIOUS
  <2>4. LD!Next \/ UNCHANGED LD!vars
    BY <1>1, <2>1, <2>2, <2>3, ReadTaken, Zenon
  <2>5. PICK y \in Int, k \in Nat : Has(input', f, y, k, b)
    BY <1>1, <2>1, <2>3, RingTaken, Zenon
  <2>6. /\ Ring' /\ input'.buf \in Rings
        /\ input' = [buf |-> input'.buf, r |-> input'.r, w |-> input'.w, e |-> input'.e]
    BY <2>5, SeenNext
  <2>7. m - a \in Nat /\ m - a # 0 /\ m - a <= g
    BY <1>3, <2>2
  <2>8. CASE killed[p]
    <3>1. pc' = Back(p) /\ n' = [n EXCEPT ![p] = 0]
      BY <2>1, <2>8, Zenon
    <3>2. Types'
      BY <1>2, <1>4, <1>5, <2>6, <3>1 DEF Types
    <3>3. Wanted'
      BY <1>2, <1>4, <1>5, <3>1, Zenon DEF IInv, Wanted
    <3>4. NoLostWakeup'
      BY <1>4, <1>5, <2>1, <3>1, Zenon DEF IInv, NoLostWakeup
    <3> QED
      BY <2>4, <2>6, <3>2, <3>3, <3>4, Zenon DEF IInv
  <2>9. CASE ~killed[p]
    <3>1. pc' = [pc EXCEPT ![p] = "asleep"] /\ n' = [n EXCEPT ![p] = m - a] /\ pc'[p] = "asleep"
      BY <1>2, <1>3, <2>1, <2>9, Zenon
    <3>2. target' = target
      BY <1>2, <1>4, <3>1, Zenon
    <3>3. Types'
      BY <1>2, <1>4, <2>6, <2>7, <3>1, <3>2, Zenon DEF Types, Labels
    <3>4. Wanted'
      BY <1>2, <1>3, <2>7, <3>1, <3>2, Zenon DEF IInv, Wanted
    <3>5. NoLostWakeup'
      BY <1>2, <1>4, <2>1, <2>9, <3>1, Zenon DEF IInv, NoLostWakeup
    <3> QED
      BY <2>4, <2>6, <3>3, <3>4, <3>5, Zenon DEF IInv
  <2> QED
    BY <2>8, <2>9, Zenon
<1>7. CASE EndsAt(f, x, a, n[p]) # {}
  <2>1. PICK l \in 1..a : /\ l = Min(EndsAt(f, x, a, n[p])) /\ l <= m
                          /\ \A i \in 1..l - 1 : At(f, x + i - 1) \notin {"\n", "^D"}
    BY <1>3, <1>7, Ending, Zenon
  <2>2. /\ input' = [input EXCEPT !.r = (x + (IF At(f, x + l - 1) = "^D" /\ m - (l - 1) < g
                                               THEN l - 1 ELSE l)) % UINT]
        /\ pc' = Back(p) /\ n' = [n EXCEPT ![p] = 0]
        /\ eof' = IF g - m + (IF At(f, x + l - 1) = "^D" THEN l - 1 ELSE l) = 0 THEN 1 - eof ELSE eof
    <3>1. EndsWith(p, f, x, l)
      BY <1>1, <1>7, <2>1, ReadEnds, Zenon
    <3> QED
      BY <1>3, <3>1, Zenon DEF EndsWith
  <2>3. PICK t \in 0..a : /\ t = IF At(f, x + l - 1) = "^D" /\ m - (l - 1) < g THEN l - 1 ELSE l
                          /\ input' = [input EXCEPT !.r = (x + t) % UINT]
    <3>1. l \in 0..a /\ l - 1 \in 0..a
      OBVIOUS
    <3> QED
      BY <2>2, <3>1, Zenon
  <2>4. PICK y \in Int, k \in Nat : Has(input', f, y, k, b)
    BY <1>1, <2>3, RingTaken, Zenon
  <2>5. /\ Ring' /\ input'.buf \in Rings
        /\ input' = [buf |-> input'.buf, r |-> input'.r, w |-> input'.w, e |-> input'.e]
    BY <2>4, SeenNext
  <2>6. Types'
    BY <1>2, <1>4, <1>5, <2>2, <2>5 DEF Types
  <2>7. Wanted'
    BY <1>2, <1>4, <1>5, <2>2, Zenon DEF IInv, Wanted
  <2>8. \A q \in Readers : pc[q] # "asleep"
    <3>1. input.r = input.w => a = 0
      <4>1. Count(input.r, input.w) = a
        BY <1>1, Seen, Zenon
      <4>2. Count(x, x) = 0
        BY SmallMod DEF Count, ConsoleConstants
      <4>3. input.r = x
        BY <1>1 DEF Has
      <4> QED
        BY <4>1, <4>2, <4>3, Zenon
    <3>2. a # 0
      BY <2>1
    <3> QED
      BY <3>1, <3>2, Zenon DEF IInv, NoLostWakeup
  <2>9. NoLostWakeup'
    BY <1>5, <2>2, <2>8, Zenon DEF NoLostWakeup
  <2>10. LD!Next \/ UNCHANGED LD!vars
    <3>1. CASE At(f, x + l - 1) = "^D" /\ m - (l - 1) < g
      <4>1. t = l - 1 /\ eof' = eof
        <5>1. t = l - 1 /\ eof' = IF (g - m) + (l - 1) = 0 THEN 1 - eof ELSE eof
          BY <2>2, <2>3, <3>1, Zenon
        <5>2. (g - m) + (l - 1) # 0
          BY <3>1
        <5> QED
          BY <5>1, <5>2, Zenon
      <4>2. \A i \in 1..t : At(f, x + i - 1) # "^D" /\ (At(f, x + i - 1) = "\n" => i = t)
        BY <2>1, <4>1, Zenon
      <4> QED
        BY <1>1, <2>3, <4>1, <4>2, ReadTaken
    <3>2. CASE At(f, x + l - 1) = "^D" /\ ~(m - (l - 1) < g)
      <4>1. l = 1 /\ m = g
        BY <1>3, <3>2
      <4>2. t = l /\ eof' = 1 - eof
        <5>1. t = l /\ eof' = IF (g - m) + (l - 1) = 0 THEN 1 - eof ELSE eof
          BY <2>2, <2>3, <3>2, Zenon
        <5>2. (g - m) + (l - 1) = 0
          BY <4>1
        <5> QED
          BY <5>1, <5>2, Zenon
      <4>3. Ready' = SubSeq(Ready, t + 1, a) /\ Editing' = Editing
        BY <1>1, <2>3, RingTaken, Zenon
      <4>4. /\ Ready \in Seq(Chars) /\ Len(Ready) = a /\ Ready[1] = "^D"
        <5>1. Ready = Bytes(f, x, a)
          BY <1>1, Seen
        <5>2. Ready \in Seq(Chars) /\ Len(Ready) = a /\ \A i \in 1..a : Ready[i] = At(f, x + i - 1)
          BY <5>1, BytesAre
        <5> QED
          BY <3>2, <4>1, <5>2, Zenon
      <4>5. Ready # <<>> /\ Head(Ready) = "^D" /\ SubSeq(Ready, 2, a) = Tail(Ready)
        BY <2>1, <4>4
      <4>6. t + 1 = 2
        BY <4>1, <4>2
      <4>7. LD!EndOfFile
        BY <4>2, <4>3, <4>5, <4>6, Zenon DEF LD!EndOfFile
      <4> QED
        BY <4>7, Zenon DEF LD!Next
    <3>3. CASE At(f, x + l - 1) # "^D"
      <4>1. t = l /\ eof' = eof
        <5>1. t = l /\ eof' = IF (g - m) + l = 0 THEN 1 - eof ELSE eof
          BY <2>2, <2>3, <3>3, Zenon
        <5>2. (g - m) + l # 0
          BY <1>3
        <5> QED
          BY <5>1, <5>2, Zenon
      <4>2. \A i \in 1..t : At(f, x + i - 1) # "^D" /\ (At(f, x + i - 1) = "\n" => i = t)
        <5>1. \A i \in 1..l : i = l \/ i \in 1..l - 1
          OBVIOUS
        <5> QED
          BY <2>1, <3>3, <4>1, <5>1, Zenon
      <4> QED
        BY <1>1, <2>3, <4>1, <4>2, ReadTaken
    <3> QED
      BY <3>1, <3>2, <3>3, Zenon
  <2> QED
    BY <2>5, <2>6, <2>7, <2>9, <2>10, Zenon DEF IInv
<1> QED
  BY <1>6, <1>7, Zenon

-----------------------------------------------------------------------------
\* Every step preserves the invariant and is a step of the device, or none.
LEMMA NextStep ==
  ASSUME ConsoleConstants, IInv, [Next]_vars
  PROVE  IInv' /\ [LD!Next]_(LD!vars)
<1>1. ASSUME NEW c \in Letters \cup {"\n", "^D"}, typed(c) PROVE IInv' /\ [LD!Next]_(LD!vars)
  BY <1>1, TypedStep, Zenon DEF LD!Next
<1>2. CASE backspace \/ killLine
  BY <1>2, EraseStep, Zenon DEF LD!Next
<1>3. ASSUME NEW p \in Readers, consoleread(p) PROVE IInv' /\ [LD!Next]_(LD!vars)
  BY <1>3, ReadStep, Zenon
<1>4. ASSUME NEW p \in Readers, kill(p) PROVE IInv' /\ [LD!Next]_(LD!vars)
  BY <1>4, KillStep, Zenon
<1>5. ASSUME NEW p \in Readers, NEW count \in Counts, call(p, count) PROVE IInv' /\ [LD!Next]_(LD!vars)
  BY <1>5, CallStep, Zenon
<1>6. CASE UNCHANGED vars
  <2>1. input' = input /\ eof' = eof /\ pc' = pc /\ target' = target /\ n' = n /\ killed' = killed
    BY <1>6, Zenon DEF vars
  <2>2. IInv'
    BY <2>1, Zenon DEF IInv, Types, Ring, Wanted, NoLostWakeup
  <2> QED
    BY <2>1, <2>2, RingKept, Zenon
<1> QED
  BY <1>1, <1>2, <1>3, <1>4, <1>5, <1>6, Zenon DEF Next

\* No wakeup is lost in the console: consoleread sleeps only while there is nothing to read, and a
\* killed reader does not sleep on; for any number of readers and any ring that divides the range
\* of its indices.
THEOREM ConsoleWakeups ==
  ASSUME ConsoleConstants
  PROVE  Spec => []NoLostWakeup
<1>1. Init => IInv
  BY InitHolds, Zenon
<1>2. IInv /\ [Next]_vars => IInv'
  BY NextStep, Zenon
<1>3. IInv => NoLostWakeup
  BY Zenon DEF IInv
<1> QED
  BY <1>1, <1>2, <1>3, PTL DEF Spec

\* console.c implements LineDevice, with r..w-1 of the ring as what may be read and w..e-1 as the
\* line being edited: what is entered is read in order, each byte once, by the line, and a
\* control-D is one read of nothing.
ConsoleIsLineDevice == LD!Spec

\* consoleintr and consoleread implement the line device, for any number of readers and any ring
\* that divides the range of its indices.
THEOREM ConsoleImplementsLineDevice ==
  ASSUME ConsoleConstants
  PROVE  Spec => ConsoleIsLineDevice
<1>1. Init => IInv /\ LD!Init
  BY InitHolds, Zenon
<1>2. IInv /\ [Next]_vars => IInv' /\ [LD!Next]_(LD!vars)
  BY NextStep, Zenon
<1> QED
  BY <1>1, <1>2, PTL DEF Spec, LD!Spec, ConsoleIsLineDevice
=============================================================================
