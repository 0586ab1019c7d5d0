--------------------------- MODULE ProtocolProofs ---------------------------
(***************************************************************************)
(* A packet that is serialized, sent and parsed field by field arrives as  *)
(* it was, for every size of a byte, every checksum, every name and path   *)
(* and either byte order of each end; and the calls of an object keep one  *)
(* conversation, for any number of threads and any scripts.                *)
(***************************************************************************)
EXTENDS ClientApi, TLAPS, WellFoundedInduction

-----------------------------------------------------------------------------
(***************************************************************************)
(* Numbers                                                                 *)
(***************************************************************************)
LEMMA SetInduction ==
  ASSUME NEW I \in SUBSET Nat, 0 \in I, \A k \in I : k + 1 \in I
  PROVE  I = Nat
<1> SUFFICES ASSUME Nat \ I # {} PROVE FALSE
  OBVIOUS
<1>1. PICK R : R = OpToRel(<, Nat)
  OBVIOUS
<1>2. IsWellFoundedOn(R, Nat)
  BY <1>1, NatLessThanWellFounded
<1>3. PICK x \in Nat \ I : \A y \in Nat \ I : ~ (<<y, x>> \in R)
  <2>1. Nat \ I \in SUBSET Nat
    OBVIOUS
  <2> QED
    BY <1>2, <2>1, WFMin
<1>4. \A y \in Nat : y < x => <<y, x>> \in R
  BY <1>1 DEF OpToRel
<1>5. x # 0
  BY <1>3
<1>6. x - 1 \in Nat /\ x - 1 < x /\ (x - 1) + 1 = x
  BY <1>3, <1>5
<1>7. x - 1 \in I
  BY <1>3, <1>4, <1>6
<1> QED
  BY <1>3, <1>6, <1>7

\* multiplication by hand
LEMMA TimesLess ==
  ASSUME NEW a \in Nat, NEW b \in Nat, NEW d \in Nat, a < b
  PROVE  d * a + d <= d * b
<1>1. d * (b - a - 1) \in Nat /\ d * (b - a - 1) = d*b - d*a - d
  OBVIOUS
<1> QED BY <1>1

LEMMA DivChar ==
  ASSUME NEW v \in Nat, NEW d \in Nat \ {0}
  PROVE  v \div d \in Nat /\ v % d \in 0..(d-1) /\ v = d * (v \div d) + (v % d)
OBVIOUS

\* q and r are quotient and remainder of v and d.
Division(v, d, q, r) ==
  v \in Nat /\ d \in Nat \ {0} /\ q \in Nat /\ r \in 0..(d - 1) /\ v = d * q + r

LEMMA DivUnique ==
  ASSUME NEW v, NEW d, NEW q, NEW r, Division(v, d, q, r)
  PROVE  v \div d = q /\ v % d = r
<1> SUFFICES ASSUME NEW v1 \in Nat, NEW d1 \in Nat \ {0}, NEW q1 \in Nat, NEW r1 \in 0..(d1 - 1),
                    v1 = d1 * q1 + r1
             PROVE  v1 \div d1 = q1 /\ v1 % d1 = r1
  BY DEF Division
<1>1. PICK c \in Nat, e \in 0..(d1 - 1) : c = v1 \div d1 /\ e = v1 % d1 /\ v1 = d1 * c + e
  <2>1. /\ v1 \div d1 \in Nat /\ v1 % d1 \in 0..(d1 - 1)
        /\ v1 = d1 * (v1 \div d1) + (v1 % d1)
    BY DivChar
  <2> QED
    BY <2>1, Zenon
<1>2. ~ (c < q1)
  BY <1>1, TimesLess
<1>3. ~ (q1 < c)
  BY <1>1, TimesLess
<1> QED
  BY <1>1, <1>2, <1>3

\* Dividing by Q is dividing by B times Q, and one digit more.
Nested(v, Q, B) == v \div Q = (v \div (B * Q)) * B + ((v \div Q) % B)

LEMMA DivDiv ==
  ASSUME NEW v \in Nat, NEW Q \in Nat \ {0}, NEW B \in Nat \ {0}
  PROVE  Nested(v, Q, B)
<1>1. PICK q \in Nat, r \in 0..(Q-1) : q = v \div Q /\ r = v % Q /\ v = Q * q + r
  BY DivChar
<1>2. PICK c \in Nat, e \in 0..(B-1) : c = q \div B /\ e = q % B /\ q = B * c + e
  BY DivChar
<1>3. B * Q \in Nat \ {0}
  BY TimesLess
<1>4. v = (B * Q) * c + (Q * e + r)
  <2>1. Q * (B * c + e) = (B * Q) * c + Q * e
    OBVIOUS
  <2>2. Q * q = Q * (B * c + e)
    BY <1>2
  <2>3. v = Q * (B * c + e) + r
    BY <1>1, <2>2
  <2> QED BY <2>1, <2>3
<1>5. Q * e + r \in Nat /\ Q * e + r < B * Q
  <2>1. Q * e + Q <= Q * B
    BY TimesLess
  <2> QED BY <2>1, <1>1
<1>6. v \div (B * Q) = c
  <2>1. PICK z \in Nat : z = Q * e + r
    BY <1>5
  <2>2. PICK D \in Nat \ {0} : D = B * Q
    BY <1>3
  <2>3. Division(v, D, c, z)
    BY <1>4, <1>5, <2>1, <2>2 DEF Division
  <2> QED BY <2>2, <2>3, DivUnique
<1>7. q = c * B + e
  <2>1. B * c = c * B
    OBVIOUS
  <2> QED
    BY <1>2, <2>1
<1> QED
  BY <1>1, <1>2, <1>6, <1>7 DEF Nested
-----------------------------------------------------------------------------
(***************************************************************************)
(* What the recursive functions of the protocol yield: a function that     *)
(* satisfies the recursion has its values.                                 *)
(***************************************************************************)
LEMMA BaseFacts == Base \in Nat \ {0} /\ Base > 4
BY ProtocolAssumption

LEMMA PowFacts ==
  /\ Pow[0] = 1
  /\ \A w \in 1..8 : Pow[w] = Base * Pow[w - 1]
  /\ \A w \in 0..8 : Pow[w] \in Nat \ {0}
<1> DEFINE Rec(f) == f = [w \in 0..8 |-> IF w = 0 THEN 1 ELSE Base * f[w - 1]]
<1>0. Base \in Nat \ {0} /\ \A x \in Nat \ {0} : Base * x \in Nat \ {0}
  BY BaseFacts, TimesLess
<1>1. \E f : Rec(f)
  <2>1. PICK b2 \in Nat \ {0}, b3 \in Nat \ {0}, b4 \in Nat \ {0}, b5 \in Nat \ {0},
             b6 \in Nat \ {0}, b7 \in Nat \ {0}, b8 \in Nat \ {0} :
          /\ b2 = Base * Base /\ b3 = Base * b2 /\ b4 = Base * b3 /\ b5 = Base * b4
          /\ b6 = Base * b5 /\ b7 = Base * b6 /\ b8 = Base * b7
    BY <1>0
  <2>2. PICK g : g = [w \in 0..8 |-> CASE w = 0 -> 1 [] w = 1 -> Base [] w = 2 -> b2
                        [] w = 3 -> b3 [] w = 4 -> b4 [] w = 5 -> b5 [] w = 6 -> b6
                        [] w = 7 -> b7 [] w = 8 -> b8]
    OBVIOUS
  <2>3. /\ g[0] = 1 /\ g[1] = Base /\ g[2] = b2 /\ g[3] = b3 /\ g[4] = b4
        /\ g[5] = b5 /\ g[6] = b6 /\ g[7] = b7 /\ g[8] = b8
    BY <2>2
  <2>4. \A w \in 0..8 : g[w] = IF w = 0 THEN 1 ELSE Base * g[w - 1]
    BY <1>0, <2>1, <2>3
  <2>5. Rec(g)
    BY <2>2, <2>4
  <2> QED
    BY <2>5
<1>2. Rec(CHOOSE f : Rec(f))
  BY <1>1
<1>3. Rec(Pow)
  BY <1>2 DEF Pow
<1>4. PICK f : f = Pow
  OBVIOUS
<1>5. f = [w \in 0..8 |-> IF w = 0 THEN 1 ELSE Base * f[w - 1]]
  BY <1>3, <1>4
<1>6. \A w \in 0..8 : f[w] = IF w = 0 THEN 1 ELSE Base * f[w - 1]
  BY <1>5
<1>7. f[0] = 1 /\ \A w \in 1..8 : f[w] = Base * f[w - 1]
  BY <1>6
<1>8. \A w \in 0..8 : f[w] \in Nat \ {0}
  <2>1. /\ f[0] \in Nat \ {0} /\ f[1] = Base * f[0] /\ f[2] = Base * f[1] /\ f[3] = Base * f[2]
        /\ f[4] = Base * f[3] /\ f[5] = Base * f[4] /\ f[6] = Base * f[5]
        /\ f[7] = Base * f[6] /\ f[8] = Base * f[7]
    BY <1>7
  <2>2. f[1] \in Nat \ {0} /\ f[2] \in Nat \ {0} /\ f[3] \in Nat \ {0} /\ f[4] \in Nat \ {0}
    BY <1>0, <2>1
  <2>3. f[5] \in Nat \ {0} /\ f[6] \in Nat \ {0} /\ f[7] \in Nat \ {0} /\ f[8] \in Nat \ {0}
    BY <1>0, <2>1, <2>2
  <2> QED
    BY <2>1, <2>2, <2>3
<1> QED
  BY <1>4, <1>7, <1>8

LEMMA UnsignedIs ==
  ASSUME NEW s, Len(s) \in Nat, NEW g, DOMAIN g = 0..Len(s), g = [k \in DOMAIN g |-> g[k]],
         g[0] = 0, \A k \in 1..Len(s) : g[k] = g[k - 1] * Base + s[k]
  PROVE  Unsigned(s) = g[Len(s)]
<1> DEFINE Rec(f) == f = [k \in 0..Len(s) |-> IF k = 0 THEN 0 ELSE f[k - 1] * Base + s[k]]
<1>1. Rec(g)
  <2>1. \A k \in 0..Len(s) : g[k] = IF k = 0 THEN 0 ELSE g[k - 1] * Base + s[k]
    OBVIOUS
  <2> QED
    BY <2>1
<1>2. Rec(CHOOSE f : Rec(f))
  BY <1>1
<1>3. PICK f : f = (CHOOSE h : Rec(h))
  OBVIOUS
<1>4. \A k \in 0..Len(s) : f[k] = IF k = 0 THEN 0 ELSE f[k - 1] * Base + s[k]
  <2>1. f = [k \in 0..Len(s) |-> IF k = 0 THEN 0 ELSE f[k - 1] * Base + s[k]]
    BY <1>2, <1>3
  <2> QED
    BY <2>1
<1>5. Unsigned(s) = f[Len(s)]
  BY <1>3 DEF Unsigned
<1> DEFINE I == {k \in Nat : k <= Len(s) => f[k] = g[k]}
<1>6. 0 \in I
  BY <1>4
<1>7. ASSUME NEW k \in I PROVE k + 1 \in I
  <2> SUFFICES ASSUME k + 1 <= Len(s) PROVE f[k + 1] = g[k + 1]
    OBVIOUS
  <2>1. f[k] = g[k]
    OBVIOUS
  <2>2. k + 1 \in 1..Len(s) /\ (k + 1) - 1 = k
    OBVIOUS
  <2>3. f[k + 1] = f[k] * Base + s[k + 1] /\ g[k + 1] = g[k] * Base + s[k + 1]
    BY <1>4, <2>2
  <2> QED
    BY <2>1, <2>3
<1>8. I = Nat
  BY <1>6, <1>7, SetInduction
<1>9. Len(s) \in I
  BY <1>8
<1> QED
  BY <1>5, <1>9

LEMMA FieldsSizeIs ==
  ASSUME NEW t, NEW i \in Nat, NEW j \in Nat, i <= j, NEW g,
         DOMAIN g = (i - 1)..j, g = [k \in DOMAIN g |-> g[k]],
         g[i - 1] = 0, \A k \in i..j : g[k] = g[k - 1] + Size(t, k)
  PROVE  FieldsSize(t, i, j) = g[j]
<1> DEFINE Rec(f) == f = [k \in (i - 1)..j |-> IF k < i THEN 0 ELSE f[k - 1] + Size(t, k)]
<1>1. Rec(g)
  <2>1. \A k \in (i - 1)..j : g[k] = IF k < i THEN 0 ELSE g[k - 1] + Size(t, k)
    <3>1. \A k \in (i - 1)..j : k < i => k = i - 1
      OBVIOUS
    <3>2. \A k \in (i - 1)..j : ~ (k < i) => k \in i..j
      OBVIOUS
    <3> QED
      BY <3>1, <3>2
  <2> QED
    BY <2>1
<1>2. Rec(CHOOSE f : Rec(f))
  BY <1>1
<1>3. PICK f : f = (CHOOSE h : Rec(h))
  OBVIOUS
<1>4. \A k \in (i - 1)..j : f[k] = IF k < i THEN 0 ELSE f[k - 1] + Size(t, k)
  <2>1. f = [k \in (i - 1)..j |-> IF k < i THEN 0 ELSE f[k - 1] + Size(t, k)]
    BY <1>2, <1>3
  <2> QED
    BY <2>1
<1>5. FieldsSize(t, i, j) = f[j]
  BY <1>3 DEF FieldsSize
<1> DEFINE I == {k \in Nat : (i - 1) + k <= j => f[(i - 1) + k] = g[(i - 1) + k]}
<1>6. 0 \in I
  <2>1. i - 1 \in (i - 1)..j /\ i - 1 < i /\ (i - 1) + 0 = i - 1
    OBVIOUS
  <2> QED
    BY <1>4, <2>1
<1>7. ASSUME NEW k \in I PROVE k + 1 \in I
  <2> SUFFICES ASSUME (i - 1) + (k + 1) <= j PROVE f[(i - 1) + (k + 1)] = g[(i - 1) + (k + 1)]
    OBVIOUS
  <2>1. PICK m \in i..j : m = (i - 1) + (k + 1) /\ m - 1 = (i - 1) + k
    OBVIOUS
  <2>2. f[m - 1] = g[m - 1]
    BY <2>1
  <2>3. f[m] = f[m - 1] + Size(t, m) /\ g[m] = g[m - 1] + Size(t, m)
    BY <1>4, <2>1
  <2> QED
    BY <2>1, <2>2, <2>3
<1>8. I = Nat
  BY <1>6, <1>7, SetInduction
<1>9. j - (i - 1) \in I /\ (i - 1) + (j - (i - 1)) = j
  BY <1>8
<1> QED
  BY <1>5, <1>9

LEMMA SameSeq ==
  ASSUME NEW S, NEW s \in Seq(S), NEW R, NEW t \in Seq(R), Len(s) = Len(t),
         \A i \in 1..Len(s) : s[i] = t[i]
  PROVE  s = t
OBVIOUS

LEMMA ConcatAt ==
  ASSUME NEW S, NEW s \in Seq(S), NEW t \in Seq(S)
  PROVE  /\ s \o t \in Seq(S) /\ Len(s \o t) = Len(s) + Len(t)
         /\ \A i \in 1..Len(s) : (s \o t)[i] = s[i]
         /\ \A i \in 1..Len(t) : (s \o t)[Len(s) + i] = t[i]
OBVIOUS

LEMMA PartOf ==
  ASSUME NEW S, NEW s \in Seq(S), NEW a \in Nat \ {0}, NEW b \in Nat, b <= Len(s)
  PROVE  /\ SubSeq(s, a, b) \in Seq(S)
         /\ Len(SubSeq(s, a, b)) = IF a <= b THEN (b - a) + 1 ELSE 0
         /\ \A k \in 1..((b - a) + 1) : SubSeq(s, a, b)[k] = s[(a - 1) + k]
<1>1. SubSeq(s, a, b) \in Seq(S)
  OBVIOUS
<1>2. Len(SubSeq(s, a, b)) = IF a <= b THEN (b - a) + 1 ELSE 0
  OBVIOUS
<1>3. \A k \in 1..((b - a) + 1) : SubSeq(s, a, b)[k] = s[(a - 1) + k]
  OBVIOUS
<1> QED
  BY <1>1, <1>2, <1>3

LEMMA WiderSeq ==
  ASSUME NEW S, NEW R, S \subseteq R, NEW s \in Seq(S)
  PROVE  s \in Seq(R)
OBVIOUS

LEMMA FirstOf ==
  ASSUME NEW S, NEW d \in Seq(S), Len(d) >= 1
  PROVE  SubSeq(d, 1, 1) = <<d[1]>>
<1>0. SubSeq(d, 1, 1) \in Seq(S)
  OBVIOUS
<1>1. PICK a \in Seq(S) : a = SubSeq(d, 1, 1)
  BY <1>0
<1>2. Len(a) = 1
  BY <1>1
<1>3. \A i \in 1..1 : a[i] = d[i]
  BY <1>1
<1>4. a = <<a[1]>>
  BY <1>2
<1> QED
  BY <1>1, <1>3, <1>4

LEMMA FlattenSingles ==
  ASSUME NEW S, NEW d \in Seq(S), Len(d) >= 1,
         NEW q, q = [k \in 1..Len(d) |-> <<d[k]>>]
  PROVE  FlattenSeq(q) = d
<1> DEFINE Rec(f) == f = [i \in 1..Len(q) |-> IF i = 1 THEN q[i] ELSE f[i - 1] \o q[i]]
<1>0. Len(q) = Len(d) /\ Len(d) \in Nat /\ \A k \in 1..Len(d) : q[k] = <<d[k]>> /\ d[k] \in S
  OBVIOUS
<1>1. PICK g : g = [i \in 1..Len(d) |-> SubSeq(d, 1, i)]
  OBVIOUS
<1>2. \A i \in 1..Len(d) : i # 1 => SubSeq(d, 1, i) = SubSeq(d, 1, i - 1) \o <<d[i]>>
  <2> SUFFICES ASSUME NEW i \in 1..Len(d), i # 1
               PROVE  SubSeq(d, 1, i) = SubSeq(d, 1, i - 1) \o <<d[i]>>
    OBVIOUS
  <2> QED
    BY <1>0
<1>3. SubSeq(d, 1, 1) = <<d[1]>> /\ SubSeq(d, 1, Len(d)) = d
  <2>1. SubSeq(d, 1, 1) = <<d[1]>>
    BY <1>0, FirstOf
  <2>2. SubSeq(d, 1, Len(d)) = d
    BY <1>0
  <2> QED
    BY <2>1, <2>2
<1>4. Rec(g)
  <2>1. \A i \in 1..Len(q) : g[i] = IF i = 1 THEN q[i] ELSE g[i - 1] \o q[i]
    <3> SUFFICES ASSUME NEW i \in 1..Len(q)
                 PROVE  g[i] = IF i = 1 THEN q[i] ELSE g[i - 1] \o q[i]
      OBVIOUS
    <3>1. CASE i = 1
      BY <3>1, <1>0, <1>1, <1>3
    <3>2. CASE i # 1
      <4>1. i - 1 \in 1..Len(d) /\ i \in 1..Len(d)
        BY <1>0, <3>2
      <4>2. g[i] = SubSeq(d, 1, i) /\ g[i - 1] = SubSeq(d, 1, i - 1) /\ q[i] = <<d[i]>>
        BY <4>1, <1>0, <1>1
      <4> QED
        BY <3>2, <4>1, <4>2, <1>2
    <3> QED
      BY <3>1, <3>2
  <2> QED
    BY <2>1, <1>0, <1>1
<1>5. Rec(CHOOSE f : Rec(f))
  <2> HIDE DEF Rec
  <2> QED
    BY <1>4, Zenon
<1>6. PICK f : f = (CHOOSE h : Rec(h)) /\ Rec(f)
  BY <1>5
<1>7. \A i \in 1..Len(d) : f[i] = IF i = 1 THEN q[i] ELSE f[i - 1] \o q[i]
  <2>1. f = [i \in 1..Len(q) |-> IF i = 1 THEN q[i] ELSE f[i - 1] \o q[i]]
    BY <1>6
  <2>2. DOMAIN q = 1..Len(d)
    BY <1>0
  <2>3. f = [i \in 1..Len(d) |-> IF i = 1 THEN q[i] ELSE f[i - 1] \o q[i]]
    BY <1>0, <2>1
  <2> QED
    BY <2>3
<1>8. FlattenSeq(q) = f[Len(d)]
  BY <1>0, <1>6 DEF FlattenSeq
<1> DEFINE I == {k \in Nat : k + 1 <= Len(d) => f[k + 1] = SubSeq(d, 1, k + 1)}
<1>9. 0 \in I
  BY <1>0, <1>3, <1>7
<1>10. ASSUME NEW k \in I PROVE k + 1 \in I
  <2> SUFFICES ASSUME (k + 1) + 1 <= Len(d) PROVE f[(k + 1) + 1] = SubSeq(d, 1, (k + 1) + 1)
    OBVIOUS
  <2>1. PICK m \in 1..Len(d) : m = (k + 1) + 1 /\ m - 1 = k + 1 /\ m # 1
    BY <1>0
  <2>2. f[m - 1] = SubSeq(d, 1, m - 1)
    BY <2>1
  <2>3. f[m] = f[m - 1] \o <<d[m]>>
    BY <1>0, <1>7, <2>1
  <2> QED
    BY <2>1, <2>2, <2>3, <1>2
<1>11. I = Nat
  BY <1>9, <1>10, SetInduction
<1>12. PICK k \in Nat : k + 1 = Len(d)
  <2>1. Len(d) - 1 \in Nat /\ (Len(d) - 1) + 1 = Len(d)
    BY <1>0
  <2> QED
    BY <2>1
<1>13. k \in I
  BY <1>11
<1>14. f[k + 1] = SubSeq(d, 1, k + 1)
  BY <1>12, <1>13, <1>0
<1> QED
  BY <1>3, <1>8, <1>12, <1>14

-----------------------------------------------------------------------------
(***************************************************************************)
(* Numbers as bytes                                                        *)
(***************************************************************************)
Byte == 0..(Base - 1)

LEMMA DigitsType ==
  ASSUME NEW v \in Nat, NEW w \in 1..8
  PROVE  /\ Digits(v, w) \in Seq(Byte) /\ Len(Digits(v, w)) = w
<1>1. ASSUME NEW i \in 1..w PROVE ((v % Pow[w]) \div Pow[w - i]) % Base \in Byte
  <2>1. Pow[w] \in Nat \ {0} /\ Pow[w - i] \in Nat \ {0} /\ Base \in Nat \ {0}
    BY PowFacts, BaseFacts
  <2>2. v % Pow[w] \in Nat
    BY <2>1
  <2>3. (v % Pow[w]) \div Pow[w - i] \in Nat
    BY <2>1, <2>2, DivChar
  <2> QED
    BY <2>1, <2>3 DEF Byte
<1> QED
  BY <1>1 DEF Digits

LEMMA DigitAt ==
  ASSUME NEW v, NEW w, NEW i \in 1..w
  PROVE  Digits(v, w)[i] = ((v % Pow[w]) \div Pow[w - i]) % Base
BY DEF Digits

LEMMA UnsignedDigits ==
  ASSUME NEW w \in 1..8, NEW v \in Nat, v < Pow[w]
  PROVE  Unsigned(Digits(v, w)) = v
<1>0. Base \in Nat \ {0} /\ \A k \in 0..w : Pow[w - k] \in Nat \ {0}
  BY PowFacts, BaseFacts
<1>1. PICK s : s = Digits(v, w)
  OBVIOUS
<1>2. Len(s) = w
  BY <1>1, DigitsType
<1>3. v % Pow[w] = v /\ v \div Pow[w] = 0
  <2>1. PICK d \in Nat \ {0} : d = Pow[w]
    BY PowFacts
  <2>2. Division(v, d, 0, v)
    BY <2>1 DEF Division
  <2> QED
    BY <2>1, <2>2, DivUnique
<1>4. PICK g : g = [k \in 0..w |-> v \div Pow[w - k]]
  OBVIOUS
<1>5. g[0] = 0
  BY <1>3, <1>4
<1>6. ASSUME NEW k \in 1..w PROVE g[k] = g[k - 1] * Base + s[k]
  <2>1. PICK Q \in Nat \ {0} : Q = Pow[w - k]
    BY <1>0
  <2>2. Pow[w - (k - 1)] = Base * Q
    <3>1. w - (k - 1) \in 1..8 /\ (w - (k - 1)) - 1 = w - k
      OBVIOUS
    <3> QED
      BY <2>1, <3>1, PowFacts
  <2>3. v \div Q = (v \div (Base * Q)) * Base + ((v \div Q) % Base)
    <3>1. PICK B \in Nat \ {0} : B = Base
      BY <1>0
    <3>2. Nested(v, Q, B)
      BY DivDiv
    <3> QED
      BY <3>1, <3>2 DEF Nested
  <2>4. g[k] = v \div Q /\ g[k - 1] = v \div (Base * Q)
    BY <1>4, <2>1, <2>2
  <2>5. s[k] = (v \div Q) % Base
    <3>1. s[k] = ((v % Pow[w]) \div Pow[w - k]) % Base
      BY <1>1, DigitAt
    <3> QED
      BY <1>3, <2>1, <3>1
  <2> QED
    BY <2>3, <2>4, <2>5
<1>7. Unsigned(s) = g[w]
  <2>1. DOMAIN g = 0..Len(s) /\ g = [k \in DOMAIN g |-> g[k]]
    BY <1>2, <1>4
  <2> QED
    BY <1>2, <1>5, <1>6, <2>1, UnsignedIs
<1>8. g[w] = v
  <2>1. w - w = 0 /\ w \in 0..w /\ v \div 1 = v
    OBVIOUS
  <2>2. Pow[w - w] = 1
    BY <2>1, PowFacts
  <2>3. g[w] = v \div Pow[w - w]
    BY <1>4, <2>1
  <2> QED
    BY <2>1, <2>2, <2>3
<1> QED
  BY <1>1, <1>7, <1>8

\* A number that is positive as a number of w bytes.
Fits(v, w) == v \in Nat /\ 2 * v < Pow[w]

LEMMA SignedDigits ==
  ASSUME NEW w \in 1..8, NEW v, Fits(v, w)
  PROVE  Signed(Digits(v, w)) = v
<1>1. v \in Nat /\ Pow[w] \in Nat /\ 2 * v < Pow[w]
  BY PowFacts DEF Fits
<1>2. v < Pow[w]
  BY <1>1
<1> QED
  BY <1>1, <1>2, UnsignedDigits, DigitsType DEF Signed

LEMMA ReverseTwice ==
  ASSUME NEW S, NEW s \in Seq(S)
  PROVE  /\ Reverse(s) \in Seq(S) /\ Len(Reverse(s)) = Len(s)
         /\ Reverse(Reverse(s)) = s
<1>1. Reverse(s) \in Seq(S) /\ Len(Reverse(s)) = Len(s)
      /\ \A i \in 1..Len(s) : Reverse(s)[i] = s[(Len(s) - i) + 1]
  BY DEF Reverse
<1>2. PICK r \in Seq(S) : r = Reverse(s) /\ Len(r) = Len(s)
  BY <1>1
<1>2a. Reverse(r) \in Seq(S) /\ Len(Reverse(r)) = Len(r)
      /\ \A i \in 1..Len(r) : Reverse(r)[i] = r[(Len(r) - i) + 1]
  BY DEF Reverse
<1>3. \A i \in 1..Len(s) : Reverse(Reverse(s))[i] = s[i]
  <2> TAKE i \in 1..Len(s)
  <2>1. (Len(s) - i) + 1 \in 1..Len(s) /\ (Len(s) - ((Len(s) - i) + 1)) + 1 = i
    OBVIOUS
  <2> QED
    BY <1>1, <1>2, <1>2a, <2>1
<1> QED
  BY <1>1, <1>2, <1>2a, <1>3

\* Whatever its own order, an end writes the most significant byte first, and reads
\* a number as it was written.
LEMMA WrittenIs ==
  ASSUME NEW e, NEW v \in Nat, NEW w \in 1..8
  PROVE  Written(v, w, e) = Digits(v, w)
BY DigitsType, ReverseTwice DEF Written, Swapped, InMemory

LEMMA ReadIs ==
  ASSUME NEW e, NEW s \in Seq(Byte)
  PROVE  Read(s, e) = s
BY ReverseTwice DEF Read, Loaded, Swapped

\* A byte by itself.
LEMMA OneByte ==
  ASSUME NEW b \in Byte
  PROVE  Digits(b, 1) = <<b>> /\ Unsigned(<<b>>) = b
<1>1. Pow[1] = Base /\ Pow[0] = 1 /\ Base \in Nat \ {0} /\ b \in Nat /\ b < Base
  BY PowFacts, BaseFacts DEF Byte
<1>2. b % Base = b /\ b \div 1 = b
  BY <1>1
<1>3. Digits(b, 1)[1] = b
  <2>1. Digits(b, 1)[1] = ((b % Pow[1]) \div Pow[1 - 1]) % Base /\ 1 - 1 = 0
    BY DigitAt
  <2> QED
    BY <1>1, <1>2, <2>1
<1>4. Digits(b, 1) = <<b>>
  BY <1>1, <1>3, DigitsType
<1>5. Unsigned(Digits(b, 1)) = b
  BY <1>1, UnsignedDigits
<1> QED
  BY <1>4, <1>5

\* The two marks read the same from either end.
LEMMA MarkDigits ==
  ASSUME NEW k \in 1..2
  PROVE  /\ Fits(k * HEAD_MARK, 4)
         /\ Digits(k * HEAD_MARK, 4) = <<k, k, k, k>>
<1>1. PICK b \in Nat, b2 \in Nat, b3 \in Nat, b4 \in Nat :
        /\ b = Base /\ b > 4
        /\ b2 = b * b /\ b3 = b * b2 /\ b4 = b * b3
        /\ Pow[0] = 1 /\ Pow[1] = b /\ Pow[2] = b2 /\ Pow[3] = b3 /\ Pow[4] = b4
  BY PowFacts, BaseFacts
<1>2. 5 * b <= b2 /\ 5 * b2 <= b3 /\ 5 * b3 <= b4
  <2>1. \A x \in Nat : 5 * x <= b * x
    <3> TAKE x \in Nat
    <3>1. (b - 5) * x \in Nat /\ (b - 5) * x = b * x - 5 * x
      BY <1>1
    <3> QED
      BY <3>1
  <2> QED
    BY <1>1, <2>1
<1>3. PICK m \in Nat : m = k * HEAD_MARK /\ m = k + k * b + k * b2 + k * b3
  BY <1>1 DEF HEAD_MARK
<1>4. 2 * m < b4
  BY <1>1, <1>2, <1>3
<1>5. m % b4 = m
  BY <1>4
<1>6. (m \div b3) % b = k
  <2>1. Division(m, b3, k, k + k * b + k * b2)
    <3>1. b3 * k = k * b3 /\ k + k * b + k * b2 < b3
      BY <1>1, <1>2
    <3> QED
      BY <1>1, <1>2, <1>3, <3>1 DEF Division
  <2>2. m \div b3 = k
    BY <2>1, DivUnique
  <2> QED
    BY <1>1, <2>2
<1>7. (m \div b2) % b = k
  <2>1. PICK q \in Nat : q = k * b + k
    BY <1>1
  <2>2. b2 * q = k * b3 + k * b2
    BY <1>1, <2>1
  <2>3. Division(m, b2, q, k + k * b)
    <3>1. k + k * b < b2 /\ k + k * b \in Nat
      BY <1>1, <1>2
    <3> QED
      BY <1>1, <1>2, <1>3, <2>2, <3>1 DEF Division
  <2>4. m \div b2 = q
    BY <2>3, DivUnique
  <2>5. Division(q, b, k, k)
    BY <1>1, <2>1 DEF Division
  <2> QED
    BY <2>4, <2>5, DivUnique
<1>8. (m \div b) % b = k
  <2>1. PICK q \in Nat : q = k * b2 + k * b + k
    BY <1>1
  <2>2. b * q = k * b3 + k * b2 + k * b
    BY <1>1, <2>1
  <2>3. Division(m, b, q, k)
    BY <1>1, <1>3, <2>2 DEF Division
  <2>4. m \div b = q
    BY <2>3, DivUnique
  <2>5. PICK p \in Nat : p = k * b + k
    BY <1>1
  <2>6. Division(q, b, p, k)
    <3>1. b * p = k * b2 + k * b
      BY <1>1, <2>5
    <3> QED
      BY <1>1, <2>1, <3>1 DEF Division
  <2> QED
    BY <2>4, <2>6, DivUnique
<1>9. (m \div 1) % b = k
  <2>1. PICK q \in Nat : q = k * b2 + k * b + k
    BY <1>1
  <2>2. b * q = k * b3 + k * b2 + k * b
    BY <1>1, <2>1
  <2>3. Division(m, b, q, k)
    BY <1>1, <1>3, <2>2 DEF Division
  <2>4. m \div 1 = m
    OBVIOUS
  <2> QED
    BY <2>3, <2>4, DivUnique
<1>10. PICK s \in Seq(Byte) : s = Digits(m, 4)
  BY DigitsType
<1>10a. \A i \in 1..4 : s[i] = ((m % Pow[4]) \div Pow[4 - i]) % Base
  BY <1>10, DigitAt
<1>10b. Len(s) = 4
  BY <1>10, DigitsType
<1>11. /\ Len(s) = 4
       /\ s[1] = ((m % Pow[4]) \div Pow[3]) % Base /\ s[2] = ((m % Pow[4]) \div Pow[2]) % Base
       /\ s[3] = ((m % Pow[4]) \div Pow[1]) % Base /\ s[4] = ((m % Pow[4]) \div Pow[0]) % Base
  <2>1. 4 - 1 = 3 /\ 4 - 2 = 2 /\ 4 - 3 = 1 /\ 4 - 4 = 0
    OBVIOUS
  <2>2. 1 \in 1..4 /\ 2 \in 1..4 /\ 3 \in 1..4 /\ 4 \in 1..4
    OBVIOUS
  <2> QED
    BY <1>10a, <1>10b, <2>1, <2>2
<1>12. s[1] = k /\ s[2] = k /\ s[3] = k /\ s[4] = k
  BY <1>1, <1>5, <1>6, <1>7, <1>8, <1>9, <1>11
<1>13. s = <<k, k, k, k>>
  BY <1>11, <1>12
<1> QED
  BY <1>1, <1>3, <1>4, <1>10, <1>13 DEF Fits

LEMMA MarkReversed ==
  ASSUME NEW k
  PROVE  Reverse(<<k, k, k, k>>) = <<k, k, k, k>>
BY DEF Reverse

-----------------------------------------------------------------------------
(***************************************************************************)
(* Packets: where each field lies.  The names of a CONNECT are kept by the *)
(* fields they go with, nm[9] and nm[11]; the other packets have none.     *)
(***************************************************************************)
Packets == {"CONNECT", "CONNECT_RESP", "DISCONNECT"}

\* The terminator of m, and whether field i of m is a name.
End(m) == IF m = "CONNECT" THEN 13 ELSE IF m = "CONNECT_RESP" THEN 10 ELSE 9
IsName(m, i) == m = "CONNECT" /\ i \in {9, 11}

TypeAt(m, i) ==
  IF i = End(m) THEN -1
  ELSE IF IsName(m, i) THEN TYPE_CHAR
  ELSE IF i = FIELD_HCRC \/ i = End(m) - 1 THEN TYPE_LONGLONG
  ELSE IF i <= FIELD_BMARK THEN TYPE_LONG ELSE TYPE_SHORT
CountAt(m, i) == IF i = End(m) THEN 0 ELSE IF IsName(m, i) THEN -1 ELSE 1

Entry == [type : Int, ivalue : Int, data : Seq(Byte) \cup {NoData}, count : Int]

\* t is a table of m, whatever its numbers and names.
Shaped(t, m) ==
  /\ t \in [0..End(m) -> Entry]
  /\ \A i \in 0..End(m) :
       /\ t[i].type = TypeAt(m, i) /\ t[i].count = CountAt(m, i)
       /\ t[i].data = NoData <=> ~IsName(m, i)
       /\ i = End(m) \/ IsName(m, i) => t[i].ivalue = 0

NamesOK(nm) ==
  /\ nm \in [{9, 11} -> Seq(Byte)]
  /\ \A i \in {9, 11} : Len(nm[i]) >= 1 /\ 2 * Len(nm[i]) < Base * Base

SizeAt(m, nm, i) == IF IsName(m, i) THEN Len(nm[i]) ELSE Width[TypeAt(m, i)]

\* Where field i begins in the stream, for the terminator where the stream ends.
At(m, nm, i) ==
  IF i <= FIELD_HCRC THEN 4 * i
  ELSE IF i = 7 THEN 32
  ELSE IF i = 8 THEN 36
  ELSE IF m = "CONNECT" THEN
    IF i = 9 THEN 38
    ELSE IF i = 10 THEN 38 + Len(nm[9])
    ELSE IF i = 11 THEN 40 + Len(nm[9])
    ELSE IF i = 12 THEN 40 + Len(nm[9]) + Len(nm[11])
    ELSE 48 + Len(nm[9]) + Len(nm[11])
  ELSE IF m = "CONNECT_RESP" THEN IF i = 9 THEN 38 ELSE 46
  ELSE 44

\* t is a table of m as it is sent: every number fits its field, and a name is
\* counted by the field before it.
Full(t, m, nm) ==
  /\ Shaped(t, m)
  /\ \A i \in 0..(End(m) - 1) :
       IF IsName(m, i) THEN t[i].data = nm[i] /\ t[i - 1].ivalue = Len(nm[i])
                       ELSE Fits(t[i].ivalue, Width[TypeAt(m, i)])
  /\ t[FIELD_HMARK].ivalue = HEAD_MARK /\ t[FIELD_BMARK].ivalue = BODY_MARK
  /\ t[FIELD_BSIZE].ivalue = At(m, nm, End(m)) - 32

\* The bytes of field i.
Chunk(t, m, i) == IF IsName(m, i) THEN t[i].data ELSE Digits(t[i].ivalue, Width[TypeAt(m, i)])

\* s holds the first k fields of t.
Laid(s, t, m, nm, k) ==
  /\ s \in Seq(Byte) /\ Len(s) = At(m, nm, k)
  /\ \A j \in 0..(k - 1) : \A q \in 1..SizeAt(m, nm, j) : s[At(m, nm, j) + q] = Chunk(t, m, j)[q]

\* The first k fields of two tables are the same.
Alike(t, u, k) == \A j \in 0..(k - 1) : t[j] = u[j]

LEMMA WidthFacts ==
  /\ Width[TYPE_CHAR] = 1 /\ Width[TYPE_SHORT] = 2 /\ Width[TYPE_LONG] = 4
  /\ Width[TYPE_LONGLONG] = 8 /\ ArrayWidth[TYPE_CHAR] = 1
BY DEF Width, ArrayWidth, TYPE_CHAR, TYPE_BYTE, TYPE_SHORT, TYPE_LONG, TYPE_LONGLONG

LEMMA TypeFacts ==
  ASSUME NEW m \in Packets, NEW i \in 0..(End(m) - 1)
  PROVE  /\ End(m) \in {9, 10, 13}
         /\ IsName(m, i) => TypeAt(m, i) = TYPE_CHAR /\ i \in {9, 11} /\ m = "CONNECT"
         /\ ~IsName(m, i) => /\ TypeAt(m, i) \in {TYPE_SHORT, TYPE_LONG, TYPE_LONGLONG}
                             /\ Width[TypeAt(m, i)] \in {2, 4, 8}
         /\ TypeAt(m, i) >= 0 /\ TypeAt(m, End(m)) = -1
<1>1. End(m) \in {9, 10, 13}
  BY DEF End, Packets
<1>2. TypeAt(m, End(m)) = -1
  BY DEF TypeAt
<1>3. IsName(m, i) => TypeAt(m, i) = TYPE_CHAR /\ i \in {9, 11} /\ m = "CONNECT"
  BY <1>1 DEF TypeAt, IsName
<1>4. ~IsName(m, i) => TypeAt(m, i) \in {TYPE_SHORT, TYPE_LONG, TYPE_LONGLONG}
  BY <1>1 DEF TypeAt
<1>5. TypeAt(m, i) >= 0
  BY <1>3, <1>4 DEF TYPE_CHAR, TYPE_SHORT, TYPE_LONG, TYPE_LONGLONG
<1> QED
  BY <1>1, <1>2, <1>3, <1>4, <1>5, WidthFacts

LEMMA AtHeader ==
  ASSUME NEW m, NEW nm, NEW i \in 0..6
  PROVE  At(m, nm, i) = 4 * i
<1>1. i <= 6
  OBVIOUS
<1> QED
  BY <1>1, Zenon DEF At, FIELD_HCRC

LEMMA AtBody ==
  ASSUME NEW m, NEW nm
  PROVE  At(m, nm, 7) = 32 /\ At(m, nm, 8) = 36
BY DEF At, FIELD_HCRC

LEMMA AtConnect ==
  ASSUME NEW nm
  PROVE  /\ At("CONNECT", nm, 9) = 38 /\ At("CONNECT", nm, 10) = 38 + Len(nm[9])
         /\ At("CONNECT", nm, 11) = 40 + Len(nm[9])
         /\ At("CONNECT", nm, 12) = 40 + Len(nm[9]) + Len(nm[11])
         /\ At("CONNECT", nm, 13) = 48 + Len(nm[9]) + Len(nm[11])
BY DEF At, FIELD_HCRC

LEMMA AtOther ==
  ASSUME NEW nm
  PROVE  /\ At("CONNECT_RESP", nm, 9) = 38 /\ At("CONNECT_RESP", nm, 10) = 46
         /\ At("DISCONNECT", nm, 9) = 44
BY DEF At, FIELD_HCRC

LEMMA AtNext ==
  ASSUME NEW m \in Packets, NEW nm, NamesOK(nm), NEW i \in 0..(End(m) - 1)
  PROVE  /\ At(m, nm, i) \in Nat /\ At(m, nm, i + 1) \in Nat
         /\ SizeAt(m, nm, i) \in Nat \ {0}
         /\ At(m, nm, i + 1) = At(m, nm, i) + SizeAt(m, nm, i)
<1>1. PICK a \in Nat \ {0}, b \in Nat \ {0} : a = Len(nm[9]) /\ b = Len(nm[11])
  <2>1. nm[9] \in Seq(Byte) /\ nm[11] \in Seq(Byte) /\ Len(nm[9]) >= 1 /\ Len(nm[11]) >= 1
    BY DEF NamesOK
  <2>2. Len(nm[9]) \in Nat \ {0} /\ Len(nm[11]) \in Nat \ {0}
    BY <2>1
  <2> QED
    BY <2>2
<1>2. /\ SizeAt(m, nm, i) = IF m = "CONNECT" /\ i = 9 THEN a
                            ELSE IF m = "CONNECT" /\ i = 11 THEN b
                            ELSE IF i = 6 \/ i = End(m) - 1 THEN 8 ELSE IF i <= 7 THEN 4 ELSE 2
  BY <1>1, WidthFacts DEF SizeAt, IsName, TypeAt, FIELD_HCRC, FIELD_BMARK, End
<1>3. CASE i \in 0..5
  <2>1. i \in 0..6 /\ i + 1 \in 0..6
    BY <1>3
  <2>2. At(m, nm, i) = 4 * i /\ At(m, nm, i + 1) = 4 * (i + 1)
    BY <2>1, AtHeader
  <2>3. SizeAt(m, nm, i) = 4
    BY <1>2, <1>3 DEF End
  <2> QED
    BY <1>3, <2>2, <2>3
<1>4. CASE i \in {6, 7}
  <2>1. At(m, nm, 6) = 24 /\ At(m, nm, 7) = 32 /\ At(m, nm, 8) = 36
    <3>1. At(m, nm, 6) = 4 * 6
      BY AtHeader
    <3> QED
      BY <3>1, AtBody
  <2>2. SizeAt(m, nm, 6) = 8 \/ i # 6
    BY <1>2
  <2>3. SizeAt(m, nm, 7) = 4 \/ i # 7
    BY <1>2 DEF End
  <2> QED
    BY <1>4, <2>1, <2>2, <2>3
<1>5. CASE i > 7 /\ m = "CONNECT"
  <2>1. i \in 8..12
    BY <1>5 DEF End
  <2>2. /\ At(m, nm, 8) = 36 /\ At(m, nm, 9) = 38 /\ At(m, nm, 10) = 38 + a
        /\ At(m, nm, 11) = 40 + a /\ At(m, nm, 12) = 40 + a + b /\ At(m, nm, 13) = 48 + a + b
    BY <1>1, <1>5, AtBody, AtConnect
  <2>3. SizeAt(m, nm, i) = IF i = 9 THEN a ELSE IF i = 11 THEN b ELSE IF i = 12 THEN 8 ELSE 2
    BY <1>2, <1>5, <2>1 DEF End
  <2> QED
    BY <2>1, <2>2, <2>3
<1>6. CASE i > 7 /\ m = "CONNECT_RESP"
  <2>1. i \in 8..9
    BY <1>6 DEF End
  <2>2. At(m, nm, 8) = 36 /\ At(m, nm, 9) = 38 /\ At(m, nm, 10) = 46
    BY <1>6, AtBody, AtOther
  <2>3. SizeAt(m, nm, i) = IF i = 9 THEN 8 ELSE 2
    BY <1>2, <1>6, <2>1 DEF End
  <2> QED
    BY <2>1, <2>2, <2>3
<1>7. CASE i > 7 /\ m = "DISCONNECT"
  <2>1. i = 8
    BY <1>7 DEF End
  <2>2. At(m, nm, 8) = 36 /\ At(m, nm, 9) = 44
    BY <1>7, AtBody, AtOther
  <2>3. SizeAt(m, nm, i) = 8
    BY <1>2, <1>7, <2>1 DEF End
  <2> QED
    BY <2>1, <2>2, <2>3
<1> QED
  BY <1>3, <1>4, <1>5, <1>6, <1>7 DEF Packets

LEMMA AtOrder ==
  ASSUME NEW m \in Packets, NEW nm, NamesOK(nm), NEW j \in 0..End(m), NEW i \in 0..j
  PROVE  /\ At(m, nm, i) \in Nat /\ At(m, nm, j) \in Nat /\ At(m, nm, i) <= At(m, nm, j)
         /\ At(m, nm, 0) = 0 /\ At(m, nm, 6) = 24 /\ At(m, nm, 7) = 32 /\ End(m) \in {9, 10, 13}
<1>0. End(m) \in {9, 10, 13}
  BY DEF End, Packets
<1> DEFINE I == {k \in Nat : i + k <= End(m) => /\ At(m, nm, i + k) \in Nat
                                               /\ At(m, nm, i) <= At(m, nm, i + k)}
<1>1. At(m, nm, i) \in Nat
  <2>1. CASE i \in 0..(End(m) - 1)
    BY <2>1, AtNext
  <2>2. CASE i = End(m)
    <3>1. End(m) - 1 \in 0..(End(m) - 1) /\ (End(m) - 1) + 1 = i
      BY <1>0, <2>2
    <3> QED
      BY <3>1, AtNext
  <2> QED
    BY <1>0, <2>1, <2>2
<1>2. 0 \in I
  BY <1>1
<1>3. ASSUME NEW k \in I PROVE k + 1 \in I
  <2> SUFFICES ASSUME i + (k + 1) <= End(m)
               PROVE  At(m, nm, i + (k + 1)) \in Nat /\ At(m, nm, i) <= At(m, nm, i + (k + 1))
    OBVIOUS
  <2>1. PICK p \in 0..(End(m) - 1) : p = i + k /\ p + 1 = i + (k + 1)
    BY <1>0
  <2>2. At(m, nm, p) \in Nat /\ At(m, nm, i) <= At(m, nm, p)
    BY <1>0, <2>1
  <2>3. /\ SizeAt(m, nm, p) \in Nat \ {0} /\ At(m, nm, p + 1) \in Nat
        /\ At(m, nm, p + 1) = At(m, nm, p) + SizeAt(m, nm, p)
    BY AtNext
  <2> QED
    BY <1>1, <2>1, <2>2, <2>3
<1>4. I = Nat
  BY <1>2, <1>3, SetInduction
<1>5. PICK k \in Nat : i + k = j /\ j <= End(m)
  <2>1. j - i \in Nat /\ i + (j - i) = j /\ j <= End(m)
    BY <1>0
  <2> QED
    BY <2>1
<1>5a. k \in I
  BY <1>4
<1>6. At(m, nm, j) \in Nat /\ At(m, nm, i) <= At(m, nm, j)
  BY <1>5, <1>5a
<1>7. At(m, nm, 0) = 0 /\ At(m, nm, 6) = 24 /\ At(m, nm, 7) = 32
  BY DEF At, FIELD_HCRC
<1> QED
  BY <1>0, <1>1, <1>6, <1>7

\* The size of a packet fits the four bytes that carry it.
LEMMA EndFits ==
  ASSUME NEW m \in Packets, NEW nm, NamesOK(nm)
  PROVE  Fits(At(m, nm, End(m)) - 32, 4)
<1>1. PICK a \in Nat, c \in Nat : a = Len(nm[9]) /\ c = Len(nm[11])
  <2>1. nm[9] \in Seq(Byte) /\ nm[11] \in Seq(Byte)
    BY DEF NamesOK
  <2> QED
    BY <2>1
<1>2. PICK b \in Nat, b2 \in Nat, b3 \in Nat, b4 \in Nat :
        /\ b = Base /\ b > 4 /\ b2 = b * b /\ b3 = b * b2 /\ b4 = b * b3 /\ Pow[4] = b4
  <2>1. Pow[0] = 1 /\ Pow[1] = Base * Pow[0] /\ Pow[2] = Base * Pow[1]
        /\ Pow[3] = Base * Pow[2] /\ Pow[4] = Base * Pow[3]
    BY PowFacts
  <2>2. Pow[2] \in Nat /\ Pow[3] \in Nat /\ Pow[4] \in Nat
    BY PowFacts
  <2> QED
    BY <2>1, <2>2, BaseFacts
<1>3. 5 * b <= b2 /\ 5 * b2 <= b3 /\ 5 * b3 <= b4
  <2>1. \A x \in Nat : 5 * x <= b * x
    <3> TAKE x \in Nat
    <3>1. (b - 5) * x \in Nat /\ (b - 5) * x = b * x - 5 * x
      BY <1>2
    <3> QED
      BY <3>1
  <2> QED
    BY <1>2, <2>1
<1>4. 2 * a < b2 /\ 2 * c < b2
  BY <1>1, <1>2 DEF NamesOK
<1>5. At(m, nm, End(m)) - 32 \in {16 + a + c, 14, 12}
  <2>1. CASE m = "CONNECT"
    <3>1. End(m) = 13 /\ At(m, nm, 13) = 48 + a + c
      BY <1>1, <2>1, AtConnect DEF End
    <3> QED
      BY <3>1
  <2>2. CASE m # "CONNECT"
    <3>1. \/ End(m) = 10 /\ At(m, nm, 10) = 46
          \/ End(m) = 9 /\ At(m, nm, 9) = 44
      BY <2>2, AtOther DEF End, Packets
    <3> QED
      BY <3>1
  <2> QED
    BY <2>1, <2>2
<1> QED
  BY <1>2, <1>3, <1>4, <1>5 DEF Fits

-----------------------------------------------------------------------------
(***************************************************************************)
(* What the operators of the protocol make of a table                      *)
(***************************************************************************)
LEMMA ShapedFacts ==
  ASSUME NEW m \in Packets, NEW t, Shaped(t, m), NEW i \in 0..(End(m) - 1)
  PROVE  /\ DOMAIN t = 0..End(m) /\ t[i] \in Entry /\ t[i].type = TypeAt(m, i)
         /\ t[i].count = CountAt(m, i) /\ t[i].type >= 0
         /\ t[End(m)].type < 0 /\ t[i].ivalue \in Int
         /\ t[i].data = NoData <=> ~IsName(m, i)
         /\ i \in 0..End(m)
<1>1. i \in 0..End(m) /\ End(m) \in 0..End(m)
  BY TypeFacts
<1> QED
  BY <1>1, TypeFacts DEF Shaped, Entry

LEMMA FieldsLen ==
  ASSUME NEW m \in Packets, NEW t, Shaped(t, m)
  PROVE  FIELDS_LEN(t) = End(m)
<1>0. 0 \in 0..(End(m) - 1) /\ End(m) \in Nat
  BY DEF End, Packets
<1>1. DOMAIN t = 0..End(m) /\ t[End(m)].type < 0
  BY <1>0, ShapedFacts
<1>2. \A i \in 0..(End(m) - 1) : t[i].type >= 0 /\ t[i].type \in Int
  <2> TAKE i \in 0..(End(m) - 1)
  <2> QED
    BY ShapedFacts DEF Entry
<1>3. \A k \in DOMAIN t : t[k].type < 0 => k = End(m)
  BY <1>0, <1>1, <1>2
<1>4. End(m) \in DOMAIN t
  BY <1>0, <1>1
<1> QED
  BY <1>1, <1>3, <1>4 DEF FIELDS_LEN

\* How much a field takes, in the stream and by each of the three walks.
LEMMA FieldSize ==
  ASSUME NEW m \in Packets, NEW nm, NamesOK(nm), NEW t, Shaped(t, m), NEW i \in 0..(End(m) - 1),
         IsName(m, i) => t[i - 1].ivalue = Len(nm[i])
  PROVE  /\ Size(t, i) = SizeAt(m, nm, i) /\ Taken(t, i) = SizeAt(m, nm, i)
         /\ IsName(m, i) => Elements(t, i) = SizeAt(m, nm, i)
<1>1. CASE IsName(m, i)
  <2>1. t[i].count = -1 /\ t[i].type = TYPE_CHAR /\ t[i].data # NoData
    BY <1>1, ShapedFacts, TypeFacts DEF CountAt
  <2>2. i \in {9, 11}
    BY <1>1, TypeFacts
  <2>3. Len(nm[i]) \in Nat /\ Len(nm[i]) >= 1
    BY <2>2 DEF NamesOK
  <2>4. Elements(t, i) = Len(nm[i])
    BY <1>1, <2>1 DEF Elements
  <2> QED
    BY <1>1, <2>1, <2>3, <2>4, WidthFacts DEF Size, Taken, SizeAt
<1>2. CASE ~IsName(m, i)
  BY <1>2, ShapedFacts DEF Size, Taken, SizeAt
<1> QED
  BY <1>1, <1>2

LEMMA HeaderIs ==
  ASSUME NEW m \in Packets, NEW t, Shaped(t, m)
  PROVE  HeaderSize(t) = 32
<1>0. PICK g : g = [k \in -1..6 |-> IF k = 6 THEN 32 ELSE 4 * (k + 1)]
  OBVIOUS
<1>1. g[0 - 1] = 0 /\ g[6] = 32
  BY <1>0
<1>2. ASSUME NEW k \in 0..6 PROVE g[k] = g[k - 1] + Size(t, k)
  <2>1. k \in 0..(End(m) - 1) /\ ~IsName(m, k)
    BY DEF End, IsName, Packets
  <2>2. Size(t, k) = IF k = 6 THEN 8 ELSE 4
    <3>1. t[k].data = NoData /\ t[k].type = TypeAt(m, k)
      BY <2>1, ShapedFacts
    <3>2. TypeAt(m, k) = IF k = 6 THEN TYPE_LONGLONG ELSE TYPE_LONG
      BY <2>1 DEF TypeAt, End, Packets, FIELD_HCRC, FIELD_BMARK
    <3> QED
      BY <3>1, <3>2, WidthFacts DEF Size
  <2>3. k - 1 \in -1..6 /\ k \in -1..6 /\ k - 1 # 6
    OBVIOUS
  <2>4. g[k - 1] = 4 * k
    BY <1>0, <2>3
  <2>5. g[k] = IF k = 6 THEN 32 ELSE 4 * (k + 1)
    BY <1>0, <2>3
  <2> QED
    BY <2>2, <2>4, <2>5
<1>3. PICK z \in Nat : z = 0
  OBVIOUS
<1>4. FieldsSize(t, z, 6) = g[6]
  <2>1. DOMAIN g = (z - 1)..6 /\ g = [k \in DOMAIN g |-> g[k]] /\ g[z - 1] = 0
    BY <1>0, <1>1, <1>3
  <2>2. \A k \in z..6 : g[k] = g[k - 1] + Size(t, k)
    BY <1>2, <1>3
  <2>3. 6 \in Nat /\ z <= 6
    BY <1>3
  <2> QED
    BY <2>1, <2>2, <2>3, FieldsSizeIs
<1> QED
  BY <1>1, <1>3, <1>4 DEF HeaderSize, FIELD_HCRC

LEMMA BodyIs ==
  ASSUME NEW m \in Packets, NEW nm, NamesOK(nm), NEW t, Shaped(t, m),
         \A i \in 0..(End(m) - 1) : IsName(m, i) => t[i - 1].ivalue = Len(nm[i])
  PROVE  BodySize(t) = At(m, nm, End(m)) - 32
<1>0. PICK L \in {9, 10, 13} : L = End(m)
  BY DEF End, Packets
<1>1. PICK g : g = [k \in (7 - 1)..(L - 1) |-> At(m, nm, k + 1) - 32]
  OBVIOUS
<1>2. g[7 - 1] = 0
  <2>1. 7 - 1 \in (7 - 1)..(L - 1) /\ (7 - 1) + 1 = 7
    OBVIOUS
  <2>2. At(m, nm, 7) = 32
    BY DEF At, FIELD_HCRC
  <2> QED
    BY <1>1, <2>1, <2>2
<1>3. ASSUME NEW k \in 7..(L - 1) PROVE g[k] = g[k - 1] + Size(t, k)
  <2>1. /\ k \in 0..(End(m) - 1) /\ k \in (7 - 1)..(L - 1)
        /\ k - 1 \in (7 - 1)..(L - 1) /\ (k - 1) + 1 = k
    BY <1>0
  <2>2. Size(t, k) = SizeAt(m, nm, k)
    BY <2>1, FieldSize
  <2>3. /\ At(m, nm, k) \in Nat /\ SizeAt(m, nm, k) \in Nat
        /\ At(m, nm, k + 1) = At(m, nm, k) + SizeAt(m, nm, k)
    BY <2>1, AtNext
  <2>4. g[k] = At(m, nm, k + 1) - 32 /\ g[k - 1] = At(m, nm, k) - 32
    BY <1>1, <2>1
  <2> QED
    BY <2>2, <2>3, <2>4
<1>4. DOMAIN g = (7 - 1)..(L - 1) /\ g = [k \in DOMAIN g |-> g[k]]
  BY <1>1
<1>5. FieldsSize(t, 7, L - 1) = g[L - 1]
  <2>1. 7 \in Nat /\ L - 1 \in Nat /\ 7 <= L - 1
    OBVIOUS
  <2> QED
    BY <1>2, <1>3, <1>4, <2>1, FieldsSizeIs
<1>6. g[L - 1] = At(m, nm, End(m)) - 32
  <2>1. L - 1 \in (7 - 1)..(L - 1) /\ (L - 1) + 1 = L
    OBVIOUS
  <2> QED
    BY <1>0, <1>1, <2>1
<1>7. FIELDS_LEN(t) - 1 = L - 1
  BY <1>0, FieldsLen
<1> QED
  BY <1>5, <1>6, <1>7 DEF BodySize, FIELD_BMARK

-----------------------------------------------------------------------------
(***************************************************************************)
(* The tables both ends begin with                                         *)
(***************************************************************************)
ScalarEntry(e, k, x) ==
  e \in Entry /\ e.type = k /\ e.ivalue = x /\ e.data = NoData /\ e.count = 1

ArrayEntry(e, k, s) ==
  e \in Entry /\ e.type = k /\ e.ivalue = 0 /\ e.data = s /\ e.data # NoData /\ e.count = -1

LEMMA ScalarIs ==
  ASSUME NEW k \in Int, NEW x \in Int
  PROVE  ScalarEntry(Scalar(k, x), k, x)
BY DEF Scalar, Entry, ScalarEntry

LEMMA ArrayIs ==
  ASSUME NEW k \in Int, NEW s \in Seq(Byte)
  PROVE  ArrayEntry(Array(k, s), k, s)
<1>1. s # NoData
  BY ProtocolAssumption DEF Byte
<1> QED
  BY <1>1 DEF Array, Entry, ArrayEntry

LEMMA MarksInt == HEAD_MARK \in Nat /\ BODY_MARK \in Nat /\ BODY_MARK = 2 * HEAD_MARK
BY PowFacts, BaseFacts DEF HEAD_MARK, BODY_MARK

\* The eight fields every packet begins with.
Heads(h, method, retcode) ==
  /\ h \in Seq(Entry) /\ Len(h) = 8
  /\ \A i \in 1..8 : h[i] \in Entry
  /\ \A i \in 1..8 : /\ h[i].type = (IF i = 7 THEN TYPE_LONGLONG ELSE TYPE_LONG)
                     /\ h[i].count = 1 /\ h[i].data = NoData
  /\ h[1].ivalue = HEAD_MARK /\ h[2].ivalue = method /\ h[3].ivalue = 0
  /\ h[4].ivalue = retcode /\ h[5].ivalue = 7 /\ h[6].ivalue = 1 /\ h[7].ivalue = 0
  /\ h[8].ivalue = BODY_MARK

LEMMA HeaderEntries ==
  ASSUME NEW method \in Nat, NEW retcode \in Nat
  PROVE  Heads(MSG_HEADER(method, retcode), method, retcode)
<1>0. PICK h : h = MSG_HEADER(method, retcode)
  OBVIOUS
<1>1. TYPE_LONG \in Int /\ TYPE_LONGLONG \in Int
  BY DEF TYPE_LONG, TYPE_LONGLONG
<1>2. PICK e1, e2, e3, e4, e5, e6, e7, e8 :
        /\ e1 = Scalar(TYPE_LONG, HEAD_MARK) /\ e2 = Scalar(TYPE_LONG, method)
        /\ e3 = Scalar(TYPE_LONG, 0) /\ e4 = Scalar(TYPE_LONG, retcode)
        /\ e5 = Scalar(TYPE_LONG, 7) /\ e6 = Scalar(TYPE_LONG, 1)
        /\ e7 = Scalar(TYPE_LONGLONG, 0) /\ e8 = Scalar(TYPE_LONG, BODY_MARK)
  OBVIOUS
<1>2a. /\ ScalarEntry(e1, TYPE_LONG, HEAD_MARK) /\ ScalarEntry(e2, TYPE_LONG, method)
       /\ ScalarEntry(e3, TYPE_LONG, 0) /\ ScalarEntry(e4, TYPE_LONG, retcode)
       /\ ScalarEntry(e5, TYPE_LONG, 7) /\ ScalarEntry(e6, TYPE_LONG, 1)
       /\ ScalarEntry(e7, TYPE_LONGLONG, 0) /\ ScalarEntry(e8, TYPE_LONG, BODY_MARK)
  BY <1>1, <1>2, MarksInt, ScalarIs
<1>2b. /\ e1 \in Entry /\ e2 \in Entry /\ e3 \in Entry /\ e4 \in Entry
       /\ e5 \in Entry /\ e6 \in Entry /\ e7 \in Entry /\ e8 \in Entry
  BY <1>2a DEF ScalarEntry
<1>3. h = <<e1, e2, e3, e4, e5, e6, e7, e8>>
  BY <1>0, <1>2 DEF MSG_HEADER
<1>4. h \in Seq(Entry) /\ Len(h) = 8
  BY <1>2b, <1>3
<1>5. /\ h[1] = e1 /\ h[2] = e2 /\ h[3] = e3 /\ h[4] = e4
      /\ h[5] = e5 /\ h[6] = e6 /\ h[7] = e7 /\ h[8] = e8
  BY <1>3
<1>6. \A i \in 1..8 : /\ h[i].type = (IF i = 7 THEN TYPE_LONGLONG ELSE TYPE_LONG)
                      /\ h[i].count = 1 /\ h[i].data = NoData
  <2>1. /\ h[1].type = TYPE_LONG /\ h[2].type = TYPE_LONG /\ h[3].type = TYPE_LONG
        /\ h[4].type = TYPE_LONG /\ h[5].type = TYPE_LONG /\ h[6].type = TYPE_LONG
        /\ h[7].type = TYPE_LONGLONG /\ h[8].type = TYPE_LONG
    BY <1>2a, <1>5 DEF ScalarEntry
  <2>2. /\ h[1].count = 1 /\ h[2].count = 1 /\ h[3].count = 1 /\ h[4].count = 1
        /\ h[5].count = 1 /\ h[6].count = 1 /\ h[7].count = 1 /\ h[8].count = 1
    BY <1>2a, <1>5 DEF ScalarEntry
  <2>3. /\ h[1].data = NoData /\ h[2].data = NoData /\ h[3].data = NoData /\ h[4].data = NoData
        /\ h[5].data = NoData /\ h[6].data = NoData /\ h[7].data = NoData /\ h[8].data = NoData
    BY <1>2a, <1>5 DEF ScalarEntry
  <2> QED
    BY <2>1, <2>2, <2>3
<1>7. /\ h[1].ivalue = HEAD_MARK /\ h[2].ivalue = method /\ h[3].ivalue = 0
      /\ h[4].ivalue = retcode /\ h[5].ivalue = 7 /\ h[6].ivalue = 1 /\ h[7].ivalue = 0
      /\ h[8].ivalue = BODY_MARK
  BY <1>2a, <1>5 DEF ScalarEntry
<1>8. \A i \in 1..8 : h[i] \in Entry
  BY <1>2b, <1>5
<1> QED
  BY <1>0, <1>4, <1>6, <1>7, <1>8 DEF Heads

\* Field i of m, as its declaration has it.
EntryAt(e, m, i) ==
  /\ e \in Entry
  /\ e.type = TypeAt(m, i) /\ e.count = CountAt(m, i)
  /\ e.data = NoData <=> ~IsName(m, i)
  /\ IsName(m, i) => e.ivalue = 0

\* A table of m with the fields b behind its header.
Declared(t, m, method, retcode, b) ==
  /\ Shaped(t, m)
  /\ \A i \in 8..(End(m) - 1) : t[i] = b[i - 7]
  /\ t[0].ivalue = HEAD_MARK /\ t[1].ivalue = method /\ t[2].ivalue = 0
  /\ t[3].ivalue = retcode /\ t[4].ivalue = 7 /\ t[5].ivalue = 1 /\ t[6].ivalue = 0
  /\ t[7].ivalue = BODY_MARK

\* The fields of m behind its header.
Behind(b, m) ==
  /\ b \in Seq(Entry) /\ Len(b) = End(m) - 8
  /\ \A i \in 8..(End(m) - 1) : EntryAt(b[i - 7], m, i)

Joined(s, h, b) ==
  /\ s \in Seq(Entry) /\ Len(s) = Len(h) + Len(b)
  /\ \A i \in 1..Len(h) : s[i] = h[i]
  /\ \A i \in 1..Len(b) : s[Len(h) + i] = b[i]

LEMMA Joins ==
  ASSUME NEW h \in Seq(Entry), NEW b \in Seq(Entry)
  PROVE  Joined(h \o b, h, b)
BY DEF Joined

LEMMA TableShaped ==
  ASSUME NEW m \in Packets, NEW method \in Nat, NEW retcode \in Nat, NEW b, Behind(b, m)
  PROVE  Declared(Table(MSG_HEADER(method, retcode) \o b), m, method, retcode, b)
<1>0. PICK t : t = Table(MSG_HEADER(method, retcode) \o b)
  OBVIOUS
<1>1. PICK h : h = MSG_HEADER(method, retcode)
  OBVIOUS
<1>1e. Heads(h, method, retcode)
  BY <1>1, HeaderEntries
<1>1a. h \in Seq(Entry) /\ Len(h) = 8
  BY <1>1e DEF Heads
<1>1b. \A i \in 1..8 : /\ h[i].type = (IF i = 7 THEN TYPE_LONGLONG ELSE TYPE_LONG)
                       /\ h[i].count = 1 /\ h[i].data = NoData
  BY <1>1e DEF Heads
<1>1c. /\ h[1].ivalue = HEAD_MARK /\ h[2].ivalue = method /\ h[3].ivalue = 0
       /\ h[4].ivalue = retcode /\ h[5].ivalue = 7 /\ h[6].ivalue = 1 /\ h[7].ivalue = 0
       /\ h[8].ivalue = BODY_MARK
  BY <1>1e DEF Heads
<1>1d. \A i \in 1..8 : h[i] \in Entry
  BY <1>1e DEF Heads
<1>. PICK L \in {9, 10, 13} : L = End(m)
  BY DEF End, Packets
<1>2. b \in Seq(Entry) /\ Len(b) = L - 8 /\ \A i \in 8..(L - 1) : EntryAt(b[i - 7], m, i)
  BY DEF Behind
<1>2a. PICK s : s = h \o b
  OBVIOUS
<1>2b. Joined(s, h, b)
  BY <1>1a, <1>2, <1>2a, Joins
<1>3. /\ s \in Seq(Entry) /\ Len(s) = L
      /\ \A i \in 1..8 : s[i] = h[i]
      /\ \A i \in 9..L : s[i] = b[i - 8]
  <2>1. s \in Seq(Entry) /\ Len(s) = L
    BY <1>1a, <1>2, <1>2b DEF Joined
  <2>2. \A i \in 1..8 : s[i] = h[i]
    BY <1>1a, <1>2b DEF Joined
  <2>3. ASSUME NEW i \in 9..L PROVE s[i] = b[i - 8]
    <3>1. PICK k \in 1..(L - 8) : k = i - 8 /\ 8 + k = i
      <4>1. i - 8 \in 1..(L - 8) /\ 8 + (i - 8) = i
        OBVIOUS
      <4> QED
        BY <4>1
    <3>2. s[8 + k] = b[k]
      BY <1>1a, <1>2, <1>2b DEF Joined
    <3> QED
      BY <3>1, <3>2
  <2> QED
    BY <2>1, <2>2, <2>3
<1>4. t = [i \in 0..L |-> IF i < L THEN s[i + 1] ELSE Terminator]
  BY <1>0, <1>1, <1>2a, <1>3 DEF Table
<1>5. \A i \in 0..7 : t[i] = h[i + 1]
  <2> TAKE i \in 0..7
  <2>1. i \in 0..L /\ i < L /\ i + 1 \in 1..8
    OBVIOUS
  <2>2. t[i] = s[i + 1]
    BY <1>4, <2>1
  <2> QED
    BY <1>3, <2>1, <2>2
<1>6. \A i \in 8..(L - 1) : t[i] = b[i - 7]
  <2> TAKE i \in 8..(L - 1)
  <2>1. i \in 0..L /\ i < L /\ i + 1 \in 9..L /\ (i + 1) - 8 = i - 7
    OBVIOUS
  <2>2. t[i] = s[i + 1]
    BY <1>4, <2>1
  <2> QED
    BY <1>3, <2>1, <2>2
<1>7. t[L] = Terminator /\ DOMAIN t = 0..L
  BY <1>4
<1>8. \A i \in 0..7 : /\ t[i].type = (IF i = 6 THEN TYPE_LONGLONG ELSE TYPE_LONG)
                      /\ t[i].count = 1 /\ t[i].data = NoData
  <2> TAKE i \in 0..7
  <2>1. i + 1 \in 1..8 /\ t[i] = h[i + 1] /\ (i = 6 <=> i + 1 = 7)
    BY <1>5
  <2> QED
    BY <1>1b, <2>1
<1>9. /\ t[0].ivalue = HEAD_MARK /\ t[1].ivalue = method /\ t[2].ivalue = 0
      /\ t[3].ivalue = retcode /\ t[4].ivalue = 7 /\ t[5].ivalue = 1 /\ t[6].ivalue = 0
      /\ t[7].ivalue = BODY_MARK
  <2>1. /\ t[0] = h[1] /\ t[1] = h[2] /\ t[2] = h[3] /\ t[3] = h[4]
        /\ t[4] = h[5] /\ t[5] = h[6] /\ t[6] = h[7] /\ t[7] = h[8]
    BY <1>5
  <2> QED
    BY <1>1c, <2>1
<1>10. ASSUME NEW i \in 0..(L - 1) PROVE EntryAt(t[i], m, i)
  <2>1. CASE i \in 0..7
    <3>1. /\ t[i].type = (IF i = 6 THEN TYPE_LONGLONG ELSE TYPE_LONG)
          /\ t[i].count = 1 /\ t[i].data = NoData
      BY <2>1, <1>8
    <3>2. ~IsName(m, i) /\ CountAt(m, i) = 1
      BY <2>1 DEF IsName, CountAt
    <3>3. TypeAt(m, i) = IF i = 6 THEN TYPE_LONGLONG ELSE TYPE_LONG
      BY <2>1, <3>2 DEF TypeAt, FIELD_HCRC, FIELD_BMARK
    <3>4. t[i] \in Entry
      <4>1. i + 1 \in 1..8 /\ t[i] = h[i + 1]
        BY <1>5, <2>1
      <4> QED
        BY <1>1d, <4>1
    <3> QED
      BY <3>1, <3>2, <3>3, <3>4 DEF EntryAt
  <2>2. CASE i \in 8..(L - 1)
    BY <1>2, <1>6, <2>2
  <2> QED
    BY <2>1, <2>2
<1>11. /\ Terminator \in Entry /\ Terminator.type = -1 /\ Terminator.count = 0
       /\ Terminator.data = NoData /\ Terminator.ivalue = 0
  BY DEF Terminator, Entry
<1>12. ~IsName(m, L) /\ TypeAt(m, L) = -1 /\ CountAt(m, L) = 0
  BY DEF IsName, TypeAt, CountAt, End
<1>13. \A i \in 0..L : t[i] \in Entry
  <2> TAKE i \in 0..L
  <2>1. i = L \/ i \in 0..(L - 1)
    OBVIOUS
  <2> QED
    BY <2>1, <1>7, <1>10, <1>11 DEF EntryAt
<1>14. t \in [0..End(m) -> Entry]
  BY <1>4, <1>13
<1>15. ASSUME NEW i \in 0..End(m)
       PROVE  /\ t[i].type = TypeAt(m, i) /\ t[i].count = CountAt(m, i)
              /\ t[i].data = NoData <=> ~IsName(m, i)
              /\ i = End(m) \/ IsName(m, i) => t[i].ivalue = 0
  <2>1. CASE i = L
    BY <2>1, <1>7, <1>11, <1>12
  <2>2. CASE i # L
    <3>1. i \in 0..(L - 1) /\ i # End(m)
      BY <2>2
    <3> QED
      BY <3>1, <1>10 DEF EntryAt
  <2> QED
    BY <2>1, <2>2
<1>16. Shaped(t, m)
  BY <1>14, <1>15 DEF Shaped
<1> QED
  BY <1>0, <1>6, <1>9, <1>16 DEF Declared

Associates(h, s, t, u) == ((h \o s) \o t) \o u = h \o ((s \o t) \o u)

LEMMA JoinThree ==
  ASSUME NEW h \in Seq(Entry), NEW s \in Seq(Entry), NEW t \in Seq(Entry), NEW u \in Seq(Entry)
  PROVE  Associates(h, s, t, u)
<1>0. s \o t \in Seq(Entry)
  OBVIOUS
<1>1. PICK r \in Seq(Entry) : r = s \o t
  BY <1>0
<1>2. (h \o s) \o t = h \o r
  <2>1. (h \o s) \o t = h \o (s \o t)
    OBVIOUS
  <2> QED
    BY <1>1, <2>1
<1>3. (h \o r) \o u = h \o (r \o u)
  OBVIOUS
<1> QED
  BY <1>1, <1>2, <1>3 DEF Associates

LEMMA JoinPair ==
  ASSUME NEW h \in Seq(Entry), NEW e \in Entry, NEW f \in Entry
  PROVE  (h \o <<e>>) \o <<f>> = h \o <<e, f>>
<1>0. <<e>> \in Seq(Entry) /\ <<f>> \in Seq(Entry) /\ <<e, f>> \in Seq(Entry)
  OBVIOUS
<1>1. PICK s \in Seq(Entry), t \in Seq(Entry), u \in Seq(Entry) :
        s = <<e>> /\ t = <<f>> /\ u = <<e, f>>
  BY <1>0
<1>2. /\ Len(s) = 1 /\ Len(t) = 1 /\ Len(u) = 2
      /\ s[1] = e /\ t[1] = f /\ u[1] = e /\ u[2] = f
  BY <1>1
<1>3. PICK r : r = s \o t
  OBVIOUS
<1>3a. Joined(r, s, t)
  BY <1>3, Joins
<1>3b. r \in Seq(Entry) /\ Len(r) = 2
  BY <1>2, <1>3a DEF Joined
<1>4. r[1] = e /\ r[2] = f
  <2>1. 1 \in 1..1 /\ 1 + 1 = 2
    OBVIOUS
  <2> QED
    BY <1>2, <1>3a, <2>1 DEF Joined
<1>5. \A i \in 1..2 : r[i] = u[i]
  <2>1. \A i \in 1..2 : i = 1 \/ i = 2
    OBVIOUS
  <2> QED
    BY <1>2, <1>4, <2>1
<1>6. s \o t = u
  BY <1>2, <1>3, <1>3b, <1>5, SameSeq
<1>7. (h \o s) \o t = h \o (s \o t)
  BY <1>2
<1> QED
  BY <1>1, <1>6, <1>7

LEMMA JoinFive ==
  ASSUME NEW e1 \in Entry, NEW e2 \in Entry, NEW e3 \in Entry, NEW e4 \in Entry, NEW e5 \in Entry
  PROVE  (<<e1, e2>> \o <<e3, e4>>) \o <<e5>> = <<e1, e2, e3, e4, e5>>
<1>0. /\ <<e1, e2>> \in Seq(Entry) /\ <<e3, e4>> \in Seq(Entry) /\ <<e5>> \in Seq(Entry)
      /\ <<e1, e2, e3, e4, e5>> \in Seq(Entry)
  OBVIOUS
<1>1. PICK s \in Seq(Entry), t \in Seq(Entry), u \in Seq(Entry), b \in Seq(Entry) :
        s = <<e1, e2>> /\ t = <<e3, e4>> /\ u = <<e5>> /\ b = <<e1, e2, e3, e4, e5>>
  BY <1>0
<1>2. /\ Len(s) = 2 /\ Len(t) = 2 /\ Len(u) = 1 /\ Len(b) = 5
  BY <1>1
<1>3. /\ s[1] = e1 /\ s[2] = e2 /\ t[1] = e3 /\ t[2] = e4 /\ u[1] = e5
      /\ b[1] = e1 /\ b[2] = e2 /\ b[3] = e3 /\ b[4] = e4 /\ b[5] = e5
  BY <1>1
<1>4. PICK r : r = s \o t
  OBVIOUS
<1>4a. Joined(r, s, t)
  BY <1>4, Joins
<1>5. r \in Seq(Entry) /\ Len(r) = 4
  BY <1>2, <1>4a DEF Joined
<1>6. r[1] = e1 /\ r[2] = e2 /\ r[3] = e3 /\ r[4] = e4
  <2>1. 1 \in 1..2 /\ 2 \in 1..2 /\ 2 + 1 = 3 /\ 2 + 2 = 4
    OBVIOUS
  <2> QED
    BY <1>2, <1>3, <1>4a, <2>1 DEF Joined
<1>7. PICK q : q = r \o u
  OBVIOUS
<1>7a. Joined(q, r, u)
  BY <1>5, <1>7, Joins
<1>7b. q \in Seq(Entry) /\ Len(q) = 5
  BY <1>2, <1>5, <1>7a DEF Joined
<1>8. q[1] = e1 /\ q[2] = e2 /\ q[3] = e3 /\ q[4] = e4 /\ q[5] = e5
  <2>1. /\ 1 \in 1..4 /\ 2 \in 1..4 /\ 3 \in 1..4 /\ 4 \in 1..4
        /\ 1 \in 1..1 /\ 4 + 1 = 5
    OBVIOUS
  <2> QED
    BY <1>2, <1>3, <1>5, <1>6, <1>7a, <2>1 DEF Joined
<1>9. \A i \in 1..5 : q[i] = b[i]
  <2>1. \A i \in 1..5 : i = 1 \/ i = 2 \/ i = 3 \/ i = 4 \/ i = 5
    OBVIOUS
  <2> QED
    BY <1>3, <1>8, <2>1
<1>10. r \o u = b
  BY <1>2, <1>7, <1>7b, <1>9, SameSeq
<1> QED
  BY <1>1, <1>4, <1>10

LEMMA CommonTable ==
  ASSUME NEW method \in Nat
  PROVE  Declared(MSG_COMMON_REQ_FIELDS(method), "DISCONNECT", method, 0, MSG_TAIL)
<1>1. PICK e \in Entry : /\ e = Scalar(TYPE_LONGLONG, 0)
                         /\ e.type = TYPE_LONGLONG /\ e.count = 1 /\ e.data = NoData
  <2>1. TYPE_LONGLONG \in Int
    BY DEF TYPE_LONGLONG
  <2>2. ScalarEntry(Scalar(TYPE_LONGLONG, 0), TYPE_LONGLONG, 0)
    BY <2>1, ScalarIs
  <2> QED
    BY <2>2 DEF ScalarEntry
<1>2. MSG_TAIL = <<e>> /\ <<e>> \in Seq(Entry) /\ Len(<<e>>) = 1 /\ <<e>>[1] = e
  BY <1>1 DEF MSG_TAIL
<1>3. Behind(MSG_TAIL, "DISCONNECT")
  <2>1. End("DISCONNECT") = 9 /\ TypeAt("DISCONNECT", 8) = TYPE_LONGLONG
        /\ CountAt("DISCONNECT", 8) = 1 /\ ~IsName("DISCONNECT", 8)
    BY DEF End, TypeAt, CountAt, IsName, FIELD_HCRC, FIELD_BMARK
  <2>2. EntryAt(e, "DISCONNECT", 8)
    BY <1>1, <2>1 DEF EntryAt
  <2>3. \A i \in 8..(9 - 1) : i = 8 /\ i - 7 = 1
    OBVIOUS
  <2> QED
    BY <1>2, <2>1, <2>2, <2>3 DEF Behind
<1> QED
  BY <1>3, TableShaped DEF MSG_COMMON_REQ_FIELDS, Packets

LEMMA RespTable ==
  ASSUME NEW retcode \in Nat, NEW priv \in Nat
  PROVE  Declared(MSG_CONNECT_RESP_FIELDS(retcode, priv), "CONNECT_RESP", MSG_CONNECT, retcode,
                  <<Scalar(TYPE_SHORT, priv), Scalar(TYPE_LONGLONG, 0)>>)
<1>1. PICK e \in Entry, f \in Entry :
        /\ e = Scalar(TYPE_SHORT, priv) /\ f = Scalar(TYPE_LONGLONG, 0)
        /\ e.type = TYPE_SHORT /\ e.count = 1 /\ e.data = NoData
        /\ f.type = TYPE_LONGLONG /\ f.count = 1 /\ f.data = NoData
  <2>1. TYPE_SHORT \in Int /\ TYPE_LONGLONG \in Int
    BY DEF TYPE_SHORT, TYPE_LONGLONG
  <2>2. /\ ScalarEntry(Scalar(TYPE_SHORT, priv), TYPE_SHORT, priv)
        /\ ScalarEntry(Scalar(TYPE_LONGLONG, 0), TYPE_LONGLONG, 0)
    BY <2>1, ScalarIs
  <2> QED
    BY <2>2 DEF ScalarEntry
<1>2. PICK b : b = <<e, f>>
  OBVIOUS
<1>3. b \in Seq(Entry) /\ Len(b) = 2 /\ b[1] = e /\ b[2] = f
  BY <1>2
<1>4. Behind(b, "CONNECT_RESP")
  <2>1. /\ End("CONNECT_RESP") = 10
        /\ TypeAt("CONNECT_RESP", 8) = TYPE_SHORT /\ TypeAt("CONNECT_RESP", 9) = TYPE_LONGLONG
        /\ CountAt("CONNECT_RESP", 8) = 1 /\ ~IsName("CONNECT_RESP", 8)
        /\ CountAt("CONNECT_RESP", 9) = 1 /\ ~IsName("CONNECT_RESP", 9)
    BY DEF End, TypeAt, CountAt, IsName, FIELD_HCRC, FIELD_BMARK
  <2>2. EntryAt(e, "CONNECT_RESP", 8) /\ EntryAt(f, "CONNECT_RESP", 9)
    BY <1>1, <2>1 DEF EntryAt
  <2>3. \A i \in 8..(10 - 1) : (i = 8 /\ i - 7 = 1) \/ (i = 9 /\ i - 7 = 2)
    OBVIOUS
  <2>4. \A i \in 8..(10 - 1) : EntryAt(b[i - 7], "CONNECT_RESP", i)
    BY <1>3, <2>2, <2>3
  <2> QED
    BY <1>3, <2>1, <2>4 DEF Behind
<1>5. MSG_CONNECT_RESP_FIELDS(retcode, priv) = Table(MSG_HEADER(MSG_CONNECT, retcode) \o b)
  <2>1. MSG_HEADER(MSG_CONNECT, retcode) \in Seq(Entry)
    BY HeaderEntries DEF MSG_CONNECT, Heads
  <2>2. PICK h \in Seq(Entry) : h = MSG_HEADER(MSG_CONNECT, retcode)
    BY <2>1
  <2>3. (h \o <<e>>) \o <<f>> = h \o <<e, f>>
    BY JoinPair
  <2> QED
    BY <1>1, <1>2, <2>2, <2>3 DEF MSG_CONNECT_RESP_FIELDS, MSG_TAIL
<1>6. "CONNECT_RESP" \in Packets /\ MSG_CONNECT \in Nat
  BY DEF Packets, MSG_CONNECT
<1>7. Declared(Table(MSG_HEADER(MSG_CONNECT, retcode) \o b), "CONNECT_RESP", MSG_CONNECT,
               retcode, b)
  BY <1>4, <1>6, TableShaped
<1> QED
  BY <1>1, <1>2, <1>5, <1>7

ConnectBody(c, p) ==
  <<Scalar(TYPE_SHORT, Len(c) + 1), Array(TYPE_CHAR, Append(c, 0)),
    Scalar(TYPE_SHORT, Len(p) + 1), Array(TYPE_CHAR, Append(p, 0)), Scalar(TYPE_LONGLONG, 0)>>

LEMMA ConnectTable ==
  ASSUME NEW c \in Seq(Byte), NEW p \in Seq(Byte)
  PROVE  /\ Declared(MSG_CONNECT_FIELDS(c, p), "CONNECT", MSG_CONNECT, 0, ConnectBody(c, p))
         /\ ConnectBody(c, p)[1].ivalue = Len(c) + 1 /\ ConnectBody(c, p)[2].data = Append(c, 0)
         /\ ConnectBody(c, p)[3].ivalue = Len(p) + 1 /\ ConnectBody(c, p)[4].data = Append(p, 0)
         /\ ConnectBody(c, p)[5].ivalue = 0
<1>0. Append(c, 0) \in Seq(Byte) /\ Append(p, 0) \in Seq(Byte)
  <2>1. 0 \in Byte
    BY BaseFacts DEF Byte
  <2> QED
    BY <2>1
<1>1. PICK e1, e2, e3, e4, e5 :
        /\ e1 = Scalar(TYPE_SHORT, Len(c) + 1) /\ e2 = Array(TYPE_CHAR, Append(c, 0))
        /\ e3 = Scalar(TYPE_SHORT, Len(p) + 1) /\ e4 = Array(TYPE_CHAR, Append(p, 0))
        /\ e5 = Scalar(TYPE_LONGLONG, 0)
  OBVIOUS
<1>1a. /\ ScalarEntry(e1, TYPE_SHORT, Len(c) + 1) /\ ScalarEntry(e3, TYPE_SHORT, Len(p) + 1)
       /\ ScalarEntry(e5, TYPE_LONGLONG, 0)
  <2>1. Len(c) + 1 \in Int /\ Len(p) + 1 \in Int /\ TYPE_SHORT \in Int /\ TYPE_LONGLONG \in Int
    BY DEF TYPE_SHORT, TYPE_LONGLONG
  <2> QED
    BY <1>1, <2>1, ScalarIs
<1>1b. ArrayEntry(e2, TYPE_CHAR, Append(c, 0)) /\ ArrayEntry(e4, TYPE_CHAR, Append(p, 0))
  <2>1. TYPE_CHAR \in Int
    BY DEF TYPE_CHAR
  <2> QED
    BY <1>0, <1>1, <2>1, ArrayIs
<1>2. /\ e1.type = TYPE_SHORT /\ e1.count = 1 /\ e1.data = NoData /\ e1.ivalue = Len(c) + 1
      /\ e3.type = TYPE_SHORT /\ e3.count = 1 /\ e3.data = NoData /\ e3.ivalue = Len(p) + 1
      /\ e5.type = TYPE_LONGLONG /\ e5.count = 1 /\ e5.data = NoData /\ e5.ivalue = 0
  BY <1>1a DEF ScalarEntry
<1>3. /\ e2.type = TYPE_CHAR /\ e2.count = -1 /\ e2.data = Append(c, 0) /\ e2.data # NoData
      /\ e2.ivalue = 0
      /\ e4.type = TYPE_CHAR /\ e4.count = -1 /\ e4.data = Append(p, 0) /\ e4.data # NoData
      /\ e4.ivalue = 0
  BY <1>1b DEF ArrayEntry
<1>3a. e1 \in Entry /\ e2 \in Entry /\ e3 \in Entry /\ e4 \in Entry /\ e5 \in Entry
  BY <1>1a, <1>1b DEF ScalarEntry, ArrayEntry
<1>4. PICK b : b = <<e1, e2, e3, e4, e5>>
  OBVIOUS
<1>5. /\ b \in Seq(Entry) /\ Len(b) = 5
      /\ b[1] = e1 /\ b[2] = e2 /\ b[3] = e3 /\ b[4] = e4 /\ b[5] = e5
  BY <1>3a, <1>4
<1>6. b = ConnectBody(c, p)
  BY <1>1, <1>4 DEF ConnectBody
<1>7. Behind(b, "CONNECT")
  <2>1. /\ End("CONNECT") = 13
        /\ TypeAt("CONNECT", 8) = TYPE_SHORT /\ TypeAt("CONNECT", 9) = TYPE_CHAR
        /\ TypeAt("CONNECT", 10) = TYPE_SHORT /\ TypeAt("CONNECT", 11) = TYPE_CHAR
        /\ TypeAt("CONNECT", 12) = TYPE_LONGLONG
    BY DEF End, TypeAt, IsName, FIELD_HCRC, FIELD_BMARK
  <2>2. /\ CountAt("CONNECT", 8) = 1 /\ CountAt("CONNECT", 9) = -1 /\ CountAt("CONNECT", 10) = 1
        /\ CountAt("CONNECT", 11) = -1 /\ CountAt("CONNECT", 12) = 1
        /\ ~IsName("CONNECT", 8) /\ IsName("CONNECT", 9) /\ ~IsName("CONNECT", 10)
        /\ IsName("CONNECT", 11) /\ ~IsName("CONNECT", 12)
    BY DEF End, CountAt, IsName
  <2>3. /\ EntryAt(e1, "CONNECT", 8) /\ EntryAt(e2, "CONNECT", 9) /\ EntryAt(e3, "CONNECT", 10)
        /\ EntryAt(e4, "CONNECT", 11) /\ EntryAt(e5, "CONNECT", 12)
    BY <1>2, <1>3, <1>3a, <2>1, <2>2 DEF EntryAt
  <2>4. \A i \in 8..(13 - 1) :
          \/ i = 8 /\ i - 7 = 1
          \/ i = 9 /\ i - 7 = 2
          \/ i = 10 /\ i - 7 = 3
          \/ i = 11 /\ i - 7 = 4
          \/ i = 12 /\ i - 7 = 5
    OBVIOUS
  <2>5. \A i \in 8..(13 - 1) : EntryAt(b[i - 7], "CONNECT", i)
    BY <1>5, <2>3, <2>4
  <2> QED
    BY <1>5, <2>1, <2>5 DEF Behind
<1>8. MSG_CONNECT_FIELDS(c, p) = Table(MSG_HEADER(MSG_CONNECT, 0) \o b)
  <2>1. MSG_HEADER(MSG_CONNECT, 0) \in Seq(Entry)
    BY HeaderEntries DEF MSG_CONNECT, Heads
  <2>2. PICK h \in Seq(Entry) : h = MSG_HEADER(MSG_CONNECT, 0)
    BY <2>1
  <2>4. <<e1, e2>> \in Seq(Entry) /\ <<e3, e4>> \in Seq(Entry) /\ <<e5>> \in Seq(Entry)
    BY <1>3a
  <2>3. PICK s \in Seq(Entry), t \in Seq(Entry), u \in Seq(Entry) :
          s = <<e1, e2>> /\ t = <<e3, e4>> /\ u = <<e5>>
    BY <2>4
  <2>5. Named(c) = s /\ Named(p) = t /\ MSG_TAIL = u
    BY <1>1, <2>3 DEF Named, MSG_TAIL
  <2>6. ((h \o s) \o t) \o u = h \o ((s \o t) \o u)
    <3>1. Associates(h, s, t, u)
      BY JoinThree
    <3> QED
      BY <3>1 DEF Associates
  <2>7. (s \o t) \o u = b
    BY <1>3a, <1>4, <2>3, JoinFive
  <2> QED
    BY <2>2, <2>5, <2>6, <2>7 DEF MSG_CONNECT_FIELDS
<1>9. "CONNECT" \in Packets /\ MSG_CONNECT \in Nat
  BY DEF Packets, MSG_CONNECT
<1>10. Declared(Table(MSG_HEADER(MSG_CONNECT, 0) \o b), "CONNECT", MSG_CONNECT, 0, b)
  BY <1>7, <1>9, TableShaped
<1> QED
  BY <1>2, <1>3, <1>5, <1>6, <1>8, <1>10

-----------------------------------------------------------------------------
(***************************************************************************)
(* The inductive invariant                                                 *)
(***************************************************************************)
Names == [i \in {9, 11} |-> IF i = 9 THEN Append(host, 0) ELSE Append(ProcessName, 0)]

\* The sender has written the first k fields of the table f to the stream s.
Sending(m, nm, k, f, s, base) ==
  /\ Full(f, m, nm) /\ k \in 0..End(m)
  /\ Laid(s, f, m, nm, k)
  /\ base = IF k < FIELD_BMARK THEN 0 ELSE 32
  /\ k > FIELD_HCRC => f[FIELD_HCRC].ivalue = Crc(SubSeq(s, 1, 24))
  /\ k = End(m) => f[End(m) - 1].ivalue = Crc(SubSeq(s, 33, At(m, nm, End(m) - 1)))

\* The receiver, at field k and place p, has the fields behind it as they were sent.
Receiving(m, nm, a, k, p, r, h, o, f) ==
  /\ Shaped(h, "DISCONNECT") /\ Shaped(o, m)
  /\ a \in {"write", "head"} => o[FIELD_METHOD].ivalue = f[FIELD_METHOD].ivalue
  /\ a = "write" => p = 0 /\ r = "none"
  /\ a = "head" => /\ k \in 0..FIELD_HCRC /\ p = At(m, nm, k) /\ r = "none"
                   /\ Alike(h, f, k)
  /\ a = "body" => /\ k \in FIELD_BMARK..End(m) /\ p = At(m, nm, k) - 32 /\ r = "none"
                   /\ Alike(h, f, 7) /\ Alike(o, f, k)
  /\ a = "end"  => /\ k = End(m) /\ p = At(m, nm, k) - 32 /\ r = "ok"
                   /\ Alike(h, f, 7) /\ o = f

EndsInv ==
  /\ little \in [{"client", "server"} -> BOOLEAN]
  /\ host \in HostNames /\ path \in Paths

Idle ==
  /\ msg = "none" /\ at = "end" /\ ret = "none" /\ n = 0 /\ pos = 0 /\ bodyBase = 0 /\ out = <<>>
  /\ Shaped(fields, "DISCONNECT") /\ Shaped(header, "DISCONNECT") /\ Shaped(robj, "DISCONNECT")

Underway ==
  /\ msg \in Packets /\ at \in {"write", "head", "body", "end"}
  /\ Sending(msg, Names, IF at = "write" THEN n ELSE End(msg), fields, out, bodyBase)
  /\ Receiving(msg, Names, at, n, pos, ret, header, robj, fields)

PacketInv == EndsInv /\ (Idle \/ Underway)

\* A sum is a number of four bytes.
CrcIsLong == \A s \in Seq(0..(Base - 1)) : Crc(s) \in 0..(Pow[4] - 1)

-----------------------------------------------------------------------------
(***************************************************************************)
(* The tables of the sender                                                *)
(***************************************************************************)
LEMMA SmallFits ==
  ASSUME NEW v \in 0..7, NEW w \in {2, 4, 8}
  PROVE  Fits(v, w)
<1>1. PICK b \in Nat, b2 \in Nat, b3 \in Nat, b4 \in Nat,
           b5 \in Nat, b6 \in Nat, b7 \in Nat, b8 \in Nat :
        /\ b = Base /\ b > 4 /\ b2 = b * b /\ b3 = b * b2 /\ b4 = b * b3
        /\ b5 = b * b4 /\ b6 = b * b5 /\ b7 = b * b6 /\ b8 = b * b7
        /\ Pow[2] = b2 /\ Pow[4] = b4 /\ Pow[8] = b8
  <2>1. /\ Pow[0] = 1 /\ Pow[1] = Base * Pow[0] /\ Pow[2] = Base * Pow[1]
        /\ Pow[3] = Base * Pow[2] /\ Pow[4] = Base * Pow[3] /\ Pow[5] = Base * Pow[4]
        /\ Pow[6] = Base * Pow[5] /\ Pow[7] = Base * Pow[6] /\ Pow[8] = Base * Pow[7]
    BY PowFacts
  <2>2. /\ Pow[2] \in Nat /\ Pow[3] \in Nat /\ Pow[4] \in Nat /\ Pow[5] \in Nat
        /\ Pow[6] \in Nat /\ Pow[7] \in Nat /\ Pow[8] \in Nat
    BY PowFacts
  <2> QED
    BY <2>1, <2>2, BaseFacts
<1>2. \A x \in Nat : 5 * x <= b * x
  <2> TAKE x \in Nat
  <2>1. (b - 5) * x \in Nat /\ (b - 5) * x = b * x - 5 * x
    BY <1>1
  <2> QED
    BY <2>1
<1>3. /\ 5 * b <= b2 /\ 5 * b2 <= b3 /\ 5 * b3 <= b4 /\ 5 * b4 <= b5 /\ 5 * b5 <= b6
      /\ 5 * b6 <= b7 /\ 5 * b7 <= b8
  BY <1>1, <1>2
<1>4. 14 < b2 /\ 14 < b4 /\ 14 < b8
  BY <1>1, <1>3
<1> QED
  BY <1>1, <1>4 DEF Fits

LEMMA SumFits ==
  ASSUME NEW v \in 0..(Pow[4] - 1)
  PROVE  Fits(v, 8)
<1>1. PICK b \in Nat, b4 \in Nat \ {0}, b5 \in Nat, b6 \in Nat, b7 \in Nat, b8 \in Nat :
        /\ b = Base /\ b > 4 /\ b5 = b * b4 /\ b6 = b * b5 /\ b7 = b * b6 /\ b8 = b * b7
        /\ Pow[4] = b4 /\ Pow[8] = b8
  <2>1. /\ Pow[5] = Base * Pow[4] /\ Pow[6] = Base * Pow[5] /\ Pow[7] = Base * Pow[6]
        /\ Pow[8] = Base * Pow[7]
    BY PowFacts
  <2>2. /\ Pow[4] \in Nat \ {0} /\ Pow[5] \in Nat /\ Pow[6] \in Nat /\ Pow[7] \in Nat
        /\ Pow[8] \in Nat
    BY PowFacts
  <2> QED
    BY <2>1, <2>2, BaseFacts
<1>2. \A x \in Nat : 5 * x <= b * x
  <2> TAKE x \in Nat
  <2>1. (b - 5) * x \in Nat /\ (b - 5) * x = b * x - 5 * x
    BY <1>1
  <2> QED
    BY <2>1
<1>3. 5 * b4 <= b5 /\ 5 * b5 <= b6 /\ 5 * b6 <= b7 /\ 5 * b7 <= b8
  BY <1>1, <1>2
<1>4. v \in Nat /\ v < b4
  BY <1>1
<1> QED
  BY <1>1, <1>3, <1>4 DEF Fits

\* What a name is made of.
Char == 1..(Base - 1)

LEMMA NamesFit ==
  ASSUME EndsInv
  PROVE  /\ NamesOK(Names) /\ host \in Seq(Byte) /\ ProcessName \in Seq(Byte)
         /\ Names[9] = Append(host, 0) /\ Names[11] = Append(ProcessName, 0)
         /\ Len(ProcessName) >= Len(Preset)
<1>1. PICK h \in Seq(Char), p \in Seq(Char), q \in Seq(Char) :
        /\ h = host /\ p = path /\ q = Preset
        /\ 2 * (Len(h) + 1) < Base * Base /\ 2 * (Len(p) + 1) < Base * Base
        /\ 2 * (Len(q) + 1) < Base * Base
  BY ProtocolAssumption DEF EndsInv, Char
<1>a. Len(p) + 1 \in Nat \ {0} /\ Len(q) \in Nat
  OBVIOUS
<1>2. PICK a \in Nat \ {0}, b \in Nat : a = Len(p) + 1 /\ b = Len(q)
  BY <1>a
<1>3. /\ SubSeq(q, a, b) \in Seq(Char)
      /\ Len(SubSeq(q, a, b)) = IF a <= b THEN (b - a) + 1 ELSE 0
  BY <1>2, PartOf
<1>4. PICK r \in Seq(Char) : /\ r = SubSeq(q, a, b) /\ r = SubSeq(q, Len(p) + 1, Len(q))
                                      /\ Len(r) = IF a <= b THEN (b - a) + 1 ELSE 0
  BY <1>2, <1>3
<1>5. p \o r \in Seq(Char) /\ Len(p \o r) = Len(p) + Len(r)
  OBVIOUS
<1>6. PICK x \in Seq(Char) : x = ProcessName /\ x = p \o r
  BY <1>1, <1>4, <1>5 DEF ProcessName
<1>7. 2 * (Len(x) + 1) < Base * Base /\ Len(x) >= Len(q)
  <2>1. Len(r) = IF Len(p) < Len(q) THEN Len(q) - Len(p) ELSE 0
    BY <1>2, <1>4
  <2>2. Len(x) = Len(p) + Len(r)
    BY <1>5, <1>6
  <2>3. (Len(x) = Len(p) /\ Len(p) >= Len(q)) \/ Len(x) = Len(q)
    BY <2>1, <2>2
  <2>4. Len(x) >= Len(q)
    <3>1. Len(q) \in Nat
      OBVIOUS
    <3> QED
      BY <2>3, <3>1
  <2>5. Len(x) = Len(p) \/ Len(x) = Len(q)
    BY <2>3
  <2>6. 2 * (Len(x) + 1) < Base * Base
    BY <1>1, <2>5
  <2> QED
    BY <2>4, <2>6
<1>8. 0 \in Byte /\ Char \subseteq Byte
  BY BaseFacts DEF Byte, Char
<1>9. h \in Seq(Byte) /\ x \in Seq(Byte)
  BY <1>8, WiderSeq
<1>10. /\ Append(h, 0) \in Seq(Byte) /\ Len(Append(h, 0)) = Len(h) + 1
       /\ Append(x, 0) \in Seq(Byte) /\ Len(Append(x, 0)) = Len(x) + 1
  BY <1>8, <1>9
<1>11. PICK nm : nm = [i \in {9, 11} |-> IF i = 9 THEN Append(h, 0) ELSE Append(x, 0)]
  OBVIOUS
<1>12. nm[9] = Append(h, 0) /\ nm[11] = Append(x, 0) /\ nm \in [{9, 11} -> Seq(Byte)]
  BY <1>10, <1>11
<1>13. NamesOK(nm)
  <2>1. /\ Len(nm[9]) >= 1 /\ 2 * Len(nm[9]) < Base * Base
        /\ Len(nm[11]) >= 1 /\ 2 * Len(nm[11]) < Base * Base
    BY <1>1, <1>7, <1>10, <1>12
  <2> QED
    BY <1>12, <2>1 DEF NamesOK
<1>14. nm = Names
  BY <1>1, <1>6, <1>11 DEF Names
<1> QED
  BY <1>1, <1>6, <1>7, <1>9, <1>12, <1>13, <1>14

\* A number of a table is replaced.
Sets(u, t, i, v) == u = [t EXCEPT ![i].ivalue = v]
Replaced(u, t, m, i, v) ==
  /\ Shaped(u, m) /\ u[i].ivalue = v
  /\ \A j \in 0..End(m) : j # i => u[j] = t[j]

LEMMA SetShaped ==
  ASSUME NEW m \in Packets, NEW t, Shaped(t, m), NEW i \in Nat, i < End(m), ~IsName(m, i),
         NEW v \in Int, NEW u, Sets(u, t, i, v)
  PROVE  Replaced(u, t, m, i, v)
<1>0. PICK L \in {9, 10, 13} : L = End(m)
  BY DEF End, Packets
<1>1. /\ t \in [0..End(m) -> Entry] /\ i \in 0..(End(m) - 1) /\ i \in 0..End(m) /\ i # End(m)
  BY <1>0 DEF Shaped
<1>1a. t[i] \in Entry
  BY <1>1
<1>2. \A j \in 0..End(m) : j # i => u[j] = t[j]
  BY <1>1 DEF Sets
<1>3. u[i] = [t[i] EXCEPT !.ivalue = v]
  BY <1>1 DEF Sets
<1>4. /\ u[i].type = t[i].type /\ u[i].count = t[i].count /\ u[i].data = t[i].data
      /\ u[i].ivalue = v /\ u[i] \in Entry
  BY <1>1a, <1>3 DEF Entry
<1>5. u \in [0..End(m) -> Entry]
  BY <1>1, <1>4 DEF Sets
<1>6. Shaped(u, m)
  BY <1>1, <1>2, <1>4, <1>5 DEF Shaped
<1> QED
  BY <1>2, <1>4, <1>6 DEF Replaced

SumField(m, i) == i = FIELD_HCRC \/ i = End(m) - 1

LEMMA SumFieldIs ==
  ASSUME NEW m \in Packets, NEW i \in Nat, SumField(m, i)
  PROVE  /\ i \in 0..(End(m) - 1) /\ ~IsName(m, i) /\ Width[TypeAt(m, i)] = 8
         /\ i # FIELD_HMARK /\ i # FIELD_BMARK /\ i # FIELD_BSIZE
         /\ \A j \in 0..(End(m) - 1) : IsName(m, j) => j - 1 # i
<1>1. PICK L \in {9, 10, 13} : L = End(m) /\ (L = 13 <=> m = "CONNECT")
  BY DEF End, Packets
<1>2. i = 6 \/ i = L - 1
  BY <1>1 DEF SumField, FIELD_HCRC
<1>3. i \in {6, 8, 9, 12}
  BY <1>1, <1>2
<1>4. ~IsName(m, i)
  BY <1>1, <1>2 DEF IsName
<1>5. TypeAt(m, i) = TYPE_LONGLONG
  BY <1>1, <1>2, <1>4 DEF TypeAt, FIELD_HCRC
<1>6. \A j \in 0..(End(m) - 1) : IsName(m, j) => j - 1 # i
  BY <1>1, <1>2 DEF IsName
<1> QED
  BY <1>1, <1>2, <1>4, <1>5, <1>6, WidthFacts DEF FIELD_HMARK, FIELD_BMARK, FIELD_BSIZE

\* The sum that is entered keeps the table full.
LEMMA SumFull ==
  ASSUME NEW m \in Packets, NEW nm, NEW t, Full(t, m, nm), NEW i \in Nat, SumField(m, i),
         NEW v \in 0..(Pow[4] - 1), NEW u, Sets(u, t, i, v)
  PROVE  /\ Full(u, m, nm) /\ u[i].ivalue = v
         /\ \A j \in 0..End(m) : j # i => u[j] = t[j]
<1>0. PICK L \in {9, 10, 13} : L = End(m)
  BY DEF End, Packets
<1>1. /\ i \in 0..(End(m) - 1) /\ ~IsName(m, i) /\ Width[TypeAt(m, i)] = 8
      /\ i # FIELD_HMARK /\ i # FIELD_BMARK /\ i # FIELD_BSIZE
      /\ \A j \in 0..(End(m) - 1) : IsName(m, j) => j - 1 # i
  BY SumFieldIs
<1>2. v \in Int
  BY PowFacts
<1>3. Shaped(t, m)
  BY DEF Full
<1>4. Shaped(u, m) /\ u[i].ivalue = v /\ \A j \in 0..End(m) : j # i => u[j] = t[j]
  <2>1. i < End(m)
    BY <1>0, <1>1
  <2>2. Replaced(u, t, m, i, v)
    BY <1>1, <1>2, <1>3, <2>1, SetShaped
  <2> QED
    BY <2>2 DEF Replaced
<1>6. ASSUME NEW j \in 0..(End(m) - 1)
      PROVE  IF IsName(m, j) THEN u[j].data = nm[j] /\ u[j - 1].ivalue = Len(nm[j])
                             ELSE Fits(u[j].ivalue, Width[TypeAt(m, j)])
  <2>1. IF IsName(m, j) THEN t[j].data = nm[j] /\ t[j - 1].ivalue = Len(nm[j])
                        ELSE Fits(t[j].ivalue, Width[TypeAt(m, j)])
    BY DEF Full
  <2>2. CASE j = i
    BY <1>1, <1>4, <2>2, SumFits
  <2>3. CASE j # i
    <3>1. j \in 0..End(m) /\ u[j] = t[j]
      BY <1>4, <1>0, <2>3
    <3>2. CASE IsName(m, j)
      <4>1. j - 1 \in 0..End(m) /\ j - 1 # i
        BY <1>1, <1>0, <3>2 DEF IsName
      <4>2. u[j - 1] = t[j - 1]
        BY <1>4, <4>1
      <4> QED
        BY <2>1, <3>1, <3>2, <4>2
    <3>3. CASE ~IsName(m, j)
      BY <2>1, <3>1, <3>3
    <3> QED
      BY <3>2, <3>3
  <2> QED
    BY <2>2, <2>3
<1>7. /\ FIELD_HMARK \in 0..End(m) /\ FIELD_BMARK \in 0..End(m) /\ FIELD_BSIZE \in 0..End(m)
  BY <1>0 DEF FIELD_HMARK, FIELD_BMARK, FIELD_BSIZE
<1>8. /\ u[FIELD_HMARK].ivalue = HEAD_MARK /\ u[FIELD_BMARK].ivalue = BODY_MARK
      /\ u[FIELD_BSIZE].ivalue = At(m, nm, End(m)) - 32
  <2>1. /\ t[FIELD_HMARK].ivalue = HEAD_MARK /\ t[FIELD_BMARK].ivalue = BODY_MARK
        /\ t[FIELD_BSIZE].ivalue = At(m, nm, End(m)) - 32
    BY DEF Full
  <2>2. u[FIELD_HMARK] = t[FIELD_HMARK] /\ u[FIELD_BMARK] = t[FIELD_BMARK]
        /\ u[FIELD_BSIZE] = t[FIELD_BSIZE]
    BY <1>1, <1>4, <1>7
  <2> QED
    BY <2>1, <2>2
<1>9. Full(u, m, nm)
  BY <1>4, <1>6, <1>8 DEF Full
<1> QED
  BY <1>4, <1>9

\* What is behind the header of a table that is sent.
Sends(b, m, nm) ==
  \A i \in 8..(End(m) - 1) :
    IF IsName(m, i) THEN b[i - 7].data = nm[i] /\ b[(i - 1) - 7].ivalue = Len(nm[i])
                    ELSE Fits(b[i - 7].ivalue, Width[TypeAt(m, i)])

LEMMA DeclaredFull ==
  ASSUME NEW m \in Packets, NEW nm, NamesOK(nm), NEW method \in 0..7, NEW retcode \in 0..7,
         NEW b, NEW t, Declared(t, m, method, retcode, b), Sends(b, m, nm),
         NEW u, Sets(u, t, FIELD_BSIZE, BodySize(t))
  PROVE  Full(u, m, nm)
<1>1. PICK L \in {9, 10, 13} : L = End(m)
  BY DEF End, Packets
<1>2. Shaped(t, m) /\ \A i \in 8..(L - 1) : t[i] = b[i - 7]
  BY <1>1 DEF Declared
<1>3. \A i \in 8..(L - 1) :
        IF IsName(m, i) THEN t[i].data = nm[i] /\ t[i - 1].ivalue = Len(nm[i])
                        ELSE Fits(t[i].ivalue, Width[TypeAt(m, i)])
  <2> TAKE i \in 8..(L - 1)
  <2>1. IF IsName(m, i) THEN b[i - 7].data = nm[i] /\ b[(i - 1) - 7].ivalue = Len(nm[i])
                        ELSE Fits(b[i - 7].ivalue, Width[TypeAt(m, i)])
    BY <1>1 DEF Sends
  <2>2. IsName(m, i) => i - 1 \in 8..(L - 1)
    BY DEF IsName
  <2>3. IsName(m, i) => t[i - 1] = b[(i - 1) - 7]
    BY <1>2, <2>2
  <2>4. t[i] = b[i - 7]
    BY <1>2
  <2> QED
    BY <2>1, <2>3, <2>4
<1>4. \A i \in 0..7 : ~IsName(m, i) /\ Fits(t[i].ivalue, Width[TypeAt(m, i)])
  <2> TAKE i \in 0..7
  <2>1. ~IsName(m, i)
    BY DEF IsName
  <2>2. i \in 0..(End(m) - 1)
    BY <1>1
  <2>3. Width[TypeAt(m, i)] \in {2, 4, 8}
    BY <2>1, <2>2, TypeFacts
  <2>4. TypeAt(m, i) = IF i = 6 THEN TYPE_LONGLONG ELSE TYPE_LONG
    BY <1>1, <2>1 DEF TypeAt, FIELD_HCRC, FIELD_BMARK
  <2>5. CASE i \in {0, 7}
    <3>1. t[i].ivalue = HEAD_MARK \/ t[i].ivalue = BODY_MARK
      BY <2>5 DEF Declared
    <3>2. Width[TypeAt(m, i)] = 4
      BY <2>4, <2>5, WidthFacts
    <3>3. Fits(1 * HEAD_MARK, 4) /\ Fits(2 * HEAD_MARK, 4)
      BY MarkDigits
    <3>4. 1 * HEAD_MARK = HEAD_MARK /\ 2 * HEAD_MARK = BODY_MARK
      BY MarksInt
    <3> QED
      BY <2>1, <3>1, <3>2, <3>3, <3>4
  <2>6. CASE i \in 1..6
    <3>1. t[i].ivalue \in 0..7
      BY <2>6 DEF Declared
    <3> QED
      BY <2>1, <2>3, <3>1, SmallFits
  <2> QED
    BY <2>5, <2>6
<1>5. \A i \in 0..(End(m) - 1) :
        IF IsName(m, i) THEN t[i].data = nm[i] /\ t[i - 1].ivalue = Len(nm[i])
                        ELSE Fits(t[i].ivalue, Width[TypeAt(m, i)])
  <2>1. \A i \in 0..(L - 1) : i \in 0..7 \/ i \in 8..(L - 1)
    BY <1>1
  <2> QED
    BY <1>1, <1>3, <1>4, <2>1
<1>6. BodySize(t) = At(m, nm, End(m)) - 32
  <2>1. \A i \in 0..(End(m) - 1) : IsName(m, i) => t[i - 1].ivalue = Len(nm[i])
    BY <1>5
  <2> QED
    BY <1>2, <2>1, BodyIs
<1>7. PICK v \in Nat : v = BodySize(t) /\ Fits(v, 4)
  BY <1>6, EndFits DEF Fits
<1>8. FIELD_BSIZE \in Nat /\ FIELD_BSIZE < End(m) /\ ~IsName(m, FIELD_BSIZE)
  BY <1>1 DEF FIELD_BSIZE, IsName
<1>9. v \in Int /\ Sets(u, t, FIELD_BSIZE, v)
  BY <1>7
<1>10. /\ Shaped(u, m) /\ u[FIELD_BSIZE].ivalue = v
       /\ \A j \in 0..End(m) : j # FIELD_BSIZE => u[j] = t[j]
  <2>1. Replaced(u, t, m, FIELD_BSIZE, v)
    BY <1>2, <1>8, <1>9, SetShaped
  <2> QED
    BY <2>1 DEF Replaced
<1>11. Width[TypeAt(m, FIELD_BSIZE)] = 4
  BY <1>1, <1>8, WidthFacts DEF TypeAt, FIELD_HCRC, FIELD_BMARK, FIELD_BSIZE
<1>12. ASSUME NEW j \in 0..(End(m) - 1)
       PROVE  IF IsName(m, j) THEN u[j].data = nm[j] /\ u[j - 1].ivalue = Len(nm[j])
                              ELSE Fits(u[j].ivalue, Width[TypeAt(m, j)])
  <2>1. CASE j = FIELD_BSIZE
    BY <1>7, <1>8, <1>10, <1>11, <2>1
  <2>2. CASE j # FIELD_BSIZE
    <3>1. u[j] = t[j]
      BY <1>1, <1>10, <2>2
    <3>2. IsName(m, j) => u[j - 1] = t[j - 1]
      <4>1. IsName(m, j) => j - 1 \in 0..End(m) /\ j - 1 # FIELD_BSIZE
        BY <1>1 DEF IsName, FIELD_BSIZE
      <4> QED
        BY <1>10, <4>1
    <3> QED
      BY <1>5, <3>1, <3>2
  <2> QED
    BY <2>1, <2>2
<1>13. u[FIELD_HMARK].ivalue = HEAD_MARK /\ u[FIELD_BMARK].ivalue = BODY_MARK
  <2>1. /\ FIELD_HMARK \in 0..End(m) /\ FIELD_HMARK # FIELD_BSIZE
        /\ FIELD_BMARK \in 0..End(m) /\ FIELD_BMARK # FIELD_BSIZE
    BY <1>1 DEF FIELD_HMARK, FIELD_BMARK, FIELD_BSIZE
  <2>2. t[FIELD_HMARK].ivalue = HEAD_MARK /\ t[FIELD_BMARK].ivalue = BODY_MARK
    BY DEF Declared, FIELD_HMARK, FIELD_BMARK
  <2> QED
    BY <1>10, <2>1, <2>2
<1> QED
  BY <1>6, <1>7, <1>10, <1>12, <1>13 DEF Full

\* A packet is sent with everything its declaration has, the size of its body included.
LEMMA OutgoingFull ==
  ASSUME EndsInv, NEW m \in Packets
  PROVE  Full(Sent(m), m, Names)
<1>1. /\ NamesOK(Names) /\ host \in Seq(Byte) /\ ProcessName \in Seq(Byte)
      /\ Names[9] = Append(host, 0) /\ Names[11] = Append(ProcessName, 0)
  BY NamesFit
<1>2. PICK t : t = Outgoing(m)
  OBVIOUS
<1>3. Sets(Sent(m), t, FIELD_BSIZE, BodySize(t))
  BY <1>2 DEF Sets, Sent
<1>4. /\ MSG_CONNECT \in 0..7 /\ MSG_DISCONNECT \in 0..7
      /\ MSG_CONNECT \in Nat /\ MSG_DISCONNECT \in Nat
  BY DEF MSG_CONNECT, MSG_DISCONNECT
<1>5. CASE m = "CONNECT"
  <2>1. PICK c \in Seq(Byte), p \in Seq(Byte) : c = host /\ p = ProcessName
    BY <1>1
  <2>2. t = MSG_CONNECT_FIELDS(c, p)
    BY <1>2, <1>5, <2>1 DEF Outgoing
  <2>3. PICK b : b = ConnectBody(c, p)
    OBVIOUS
  <2>4. /\ Declared(t, m, MSG_CONNECT, 0, b)
        /\ b[1].ivalue = Len(c) + 1 /\ b[2].data = Append(c, 0)
        /\ b[3].ivalue = Len(p) + 1 /\ b[4].data = Append(p, 0) /\ b[5].ivalue = 0
    BY <1>5, <2>2, <2>3, ConnectTable
  <2>5. PICK l9 \in Nat, l11 \in Nat :
          /\ l9 = Len(Names[9]) /\ l11 = Len(Names[11])
          /\ b[1].ivalue = l9 /\ b[3].ivalue = l11
          /\ 2 * l9 < Base * Base /\ 2 * l11 < Base * Base
    <3>1. Len(Append(c, 0)) = Len(c) + 1 /\ Len(Append(p, 0)) = Len(p) + 1
      OBVIOUS
    <3>2. Len(c) + 1 \in Nat /\ Len(p) + 1 \in Nat
      OBVIOUS
    <3>3. 2 * Len(Names[9]) < Base * Base /\ 2 * Len(Names[11]) < Base * Base
      BY <1>1 DEF NamesOK
    <3> QED
      BY <1>1, <2>1, <2>4, <3>1, <3>2, <3>3
  <2>6. Pow[2] = Base * Base
    <3>1. Pow[0] = 1 /\ Pow[1] = Base * Pow[0] /\ Pow[2] = Base * Pow[1]
      BY PowFacts
    <3> QED
      BY <3>1, BaseFacts
  <2>7. Fits(l9, 2) /\ Fits(l11, 2) /\ Fits(0, 8)
    <3>1. Fits(0, 8)
      BY SmallFits
    <3> QED
      BY <2>5, <2>6, <3>1 DEF Fits
  <2>8. /\ ~IsName(m, 8) /\ IsName(m, 9) /\ ~IsName(m, 10) /\ IsName(m, 11) /\ ~IsName(m, 12)
        /\ TypeAt(m, 8) = TYPE_SHORT /\ TypeAt(m, 10) = TYPE_SHORT
        /\ TypeAt(m, 12) = TYPE_LONGLONG /\ End(m) = 13
    BY <1>5 DEF IsName, TypeAt, End, FIELD_HCRC, FIELD_BMARK
  <2>9. ASSUME NEW i \in 8..(13 - 1)
        PROVE  IF IsName(m, i)
               THEN b[i - 7].data = Names[i] /\ b[(i - 1) - 7].ivalue = Len(Names[i])
               ELSE Fits(b[i - 7].ivalue, Width[TypeAt(m, i)])
    <3>1. CASE i = 8
      <4>1. i - 7 = 1
        BY <3>1
      <4> QED
        BY <2>5, <2>7, <2>8, <3>1, <4>1, WidthFacts
    <3>2. CASE i = 9
      <4>1. i - 7 = 2 /\ (i - 1) - 7 = 1
        BY <3>2
      <4> QED
        BY <1>1, <2>1, <2>4, <2>5, <2>8, <3>2, <4>1
    <3>3. CASE i = 10
      <4>1. i - 7 = 3
        BY <3>3
      <4> QED
        BY <2>5, <2>7, <2>8, <3>3, <4>1, WidthFacts
    <3>4. CASE i = 11
      <4>1. i - 7 = 4 /\ (i - 1) - 7 = 3
        BY <3>4
      <4> QED
        BY <1>1, <2>1, <2>4, <2>5, <2>8, <3>4, <4>1
    <3>5. CASE i = 12
      <4>1. i - 7 = 5
        BY <3>5
      <4> QED
        BY <2>4, <2>7, <2>8, <3>5, <4>1, WidthFacts
    <3> QED
      BY <3>1, <3>2, <3>3, <3>4, <3>5
  <2>10. Sends(b, m, Names)
    BY <2>8, <2>9 DEF Sends
  <2>11. NamesOK(Names) /\ Declared(t, m, MSG_CONNECT, 0, b) /\ MSG_CONNECT \in 0..7
    BY <1>1, <1>4, <2>4
  <2> QED
    BY <1>3, <2>10, <2>11, DeclaredFull
<1>6. CASE m = "CONNECT_RESP"
  <2>1. PICK b : b = <<Scalar(TYPE_SHORT, 1), Scalar(TYPE_LONGLONG, 0)>>
    OBVIOUS
  <2>2. Declared(t, m, MSG_CONNECT, 0, b)
    BY <1>2, <1>6, <2>1, RespTable DEF Outgoing
  <2>3. b[1].ivalue = 1 /\ b[2].ivalue = 0
    BY <2>1 DEF Scalar
  <2>4. /\ ~IsName(m, 8) /\ ~IsName(m, 9) /\ End(m) = 10
        /\ TypeAt(m, 8) = TYPE_SHORT /\ TypeAt(m, 9) = TYPE_LONGLONG
    BY <1>6 DEF IsName, TypeAt, End, FIELD_HCRC, FIELD_BMARK
  <2>5. Fits(1, 2) /\ Fits(0, 8)
    BY SmallFits
  <2>6. \A i \in 8..(10 - 1) : (i = 8 /\ i - 7 = 1) \/ (i = 9 /\ i - 7 = 2)
    OBVIOUS
  <2>7. Sends(b, m, Names)
    BY <2>3, <2>4, <2>5, <2>6, WidthFacts DEF Sends
  <2> QED
    BY <1>1, <1>3, <1>4, <2>2, <2>7, DeclaredFull
<1>7. CASE m = "DISCONNECT"
  <2>1. PICK b : b = MSG_TAIL
    OBVIOUS
  <2>2. Declared(t, m, MSG_DISCONNECT, 0, b)
    BY <1>2, <1>4, <1>7, <2>1, CommonTable DEF Outgoing
  <2>3. b[1].ivalue = 0
    BY <2>1 DEF MSG_TAIL, Scalar
  <2>4. ~IsName(m, 8) /\ End(m) = 9 /\ TypeAt(m, 8) = TYPE_LONGLONG
    BY <1>7 DEF IsName, TypeAt, End, FIELD_HCRC, FIELD_BMARK
  <2>5. Fits(0, 8)
    BY SmallFits
  <2>6. \A i \in 8..(9 - 1) : i = 8 /\ i - 7 = 1
    OBVIOUS
  <2>7. Sends(b, m, Names)
    BY <2>3, <2>4, <2>5, <2>6, WidthFacts DEF Sends
  <2> QED
    BY <1>1, <1>3, <1>4, <2>2, <2>7, DeclaredFull
<1> QED
  BY <1>5, <1>6, <1>7 DEF Packets

LEMMA IncomingShaped ==
  ASSUME NEW m \in Packets
  PROVE  Shaped(Incoming(m), m) /\ Shaped(MSG_COMMON_REQ_FIELDS(MSG_COMMON), "DISCONNECT")
<1>1. MSG_CONNECT \in Nat /\ MSG_DISCONNECT \in Nat /\ MSG_COMMON \in Nat
  BY DEF MSG_CONNECT, MSG_DISCONNECT, MSG_COMMON
<1>2. <<>> \in Seq(Byte)
  OBVIOUS
<1>3. Shaped(MSG_COMMON_REQ_FIELDS(MSG_COMMON), "DISCONNECT")
  BY <1>1, CommonTable DEF Declared
<1>4. CASE m = "CONNECT"
  <2>1. PICK z \in Seq(Byte) : z = <<>>
    BY <1>2
  <2>2. Declared(MSG_CONNECT_FIELDS(z, z), "CONNECT", MSG_CONNECT, 0, ConnectBody(z, z))
    BY ConnectTable
  <2> QED
    BY <1>3, <1>4, <2>1, <2>2 DEF Incoming, Declared
<1>5. CASE m = "CONNECT_RESP"
  <2>1. Shaped(MSG_CONNECT_RESP_FIELDS(0, 0), "CONNECT_RESP")
    BY RespTable DEF Declared
  <2> QED
    BY <1>3, <1>5, <2>1 DEF Incoming
<1>6. CASE m = "DISCONNECT"
  <2>1. Shaped(MSG_COMMON_REQ_FIELDS(MSG_DISCONNECT), "DISCONNECT")
    BY <1>1, CommonTable DEF Declared
  <2> QED
    BY <1>3, <1>6, <2>1 DEF Incoming
<1> QED
  BY <1>4, <1>5, <1>6 DEF Packets

\* The receiver's table is declared for the method the sender's has.
LEMMA MethodsAgree ==
  ASSUME EndsInv, NEW m \in Packets
  PROVE  Incoming(m)[FIELD_METHOD].ivalue = Sent(m)[FIELD_METHOD].ivalue
<1>1. host \in Seq(Byte) /\ ProcessName \in Seq(Byte) /\ <<>> \in Seq(Byte)
  BY NamesFit
<1>2. MSG_CONNECT \in Nat /\ MSG_DISCONNECT \in Nat
  BY DEF MSG_CONNECT, MSG_DISCONNECT
<1>3. PICK t : t = Outgoing(m)
  OBVIOUS
<1>4. Shaped(t, m) /\ Incoming(m)[1].ivalue = t[1].ivalue
  <2>1. CASE m = "CONNECT"
    <3>1. PICK c \in Seq(Byte), p \in Seq(Byte), z \in Seq(Byte) :
            c = host /\ p = ProcessName /\ z = <<>>
      BY <1>1
    <3>2. /\ Declared(MSG_CONNECT_FIELDS(c, p), "CONNECT", MSG_CONNECT, 0, ConnectBody(c, p))
          /\ Declared(MSG_CONNECT_FIELDS(z, z), "CONNECT", MSG_CONNECT, 0, ConnectBody(z, z))
      BY ConnectTable
    <3> QED
      BY <1>3, <2>1, <3>1, <3>2 DEF Declared, Outgoing, Incoming
  <2>2. CASE m = "CONNECT_RESP"
    <3>1. /\ Declared(MSG_CONNECT_RESP_FIELDS(0, 1), "CONNECT_RESP", MSG_CONNECT, 0,
                      <<Scalar(TYPE_SHORT, 1), Scalar(TYPE_LONGLONG, 0)>>)
          /\ Declared(MSG_CONNECT_RESP_FIELDS(0, 0), "CONNECT_RESP", MSG_CONNECT, 0,
                      <<Scalar(TYPE_SHORT, 0), Scalar(TYPE_LONGLONG, 0)>>)
      BY RespTable
    <3> QED
      BY <1>3, <2>2, <3>1 DEF Declared, Outgoing, Incoming
  <2>3. CASE m = "DISCONNECT"
    <3>1. Declared(MSG_COMMON_REQ_FIELDS(MSG_DISCONNECT), "DISCONNECT", MSG_DISCONNECT, 0, MSG_TAIL)
      BY <1>2, CommonTable
    <3> QED
      BY <1>3, <2>3, <3>1 DEF Declared, Outgoing, Incoming
  <2> QED
    BY <2>1, <2>2, <2>3 DEF Packets
<1>5. Sent(m)[1] = t[1]
  <2>1. Sent(m) = [t EXCEPT ![FIELD_BSIZE].ivalue = BodySize(t)]
    BY <1>3 DEF Sent
  <2>2. 1 \in DOMAIN t
    BY <1>4 DEF Shaped, End
  <2> QED
    BY <2>1, <2>2 DEF FIELD_BSIZE
<1> QED
  BY <1>4, <1>5 DEF FIELD_METHOD


-----------------------------------------------------------------------------
(***************************************************************************)
(* One field: what is written, and what is read back                       *)
(***************************************************************************)
LEMMA ChunkIs ==
  ASSUME NEW m \in Packets, NEW nm, NamesOK(nm), NEW t, Full(t, m, nm),
         NEW i \in 0..(End(m) - 1), NEW e
  PROVE  /\ Chunk(t, m, i) \in Seq(Byte) /\ Len(Chunk(t, m, i)) = SizeAt(m, nm, i)
         /\ Bytes(t, i, e) = Chunk(t, m, i)
<1>1. Shaped(t, m)
  BY DEF Full
<1>2. /\ t[i].type = TypeAt(m, i) /\ t[i].ivalue \in Int
      /\ t[i].data = NoData <=> ~IsName(m, i)
  BY <1>1, ShapedFacts
<1>3. IF IsName(m, i) THEN t[i].data = nm[i] /\ t[i - 1].ivalue = Len(nm[i])
                      ELSE Fits(t[i].ivalue, Width[TypeAt(m, i)])
  BY DEF Full
<1>4. CASE IsName(m, i)
  <2>1. PICK d \in Seq(Byte) : d = nm[i] /\ Len(d) >= 1
    BY <1>4 DEF NamesOK, IsName
  <2>2. Elements(t, i) = SizeAt(m, nm, i)
    BY <1>1, <1>3, <1>4, FieldSize
  <2>3. SizeAt(m, nm, i) = Len(d)
    BY <1>4, <2>1 DEF SizeAt
  <2>4. ArrayWidth[t[i].type] = 1
    BY <1>2, <1>4, TypeFacts, WidthFacts
  <2>5. \A k \in 1..Len(d) : Written(d[k], 1, e) = <<d[k]>>
    <3> TAKE k \in 1..Len(d)
    <3>1. PICK c \in Byte : c = d[k]
      OBVIOUS
    <3>2. c \in Nat
      BY BaseFacts DEF Byte
    <3>3. Written(c, 1, e) = Digits(c, 1)
      <4>1. PICK w \in 1..8 : w = 1
        OBVIOUS
      <4> QED
        BY <3>2, <4>1, WrittenIs
    <3>4. Digits(c, 1) = <<c>>
      BY OneByte
    <3> QED
      BY <3>1, <3>3, <3>4
  <2>6. PICK q : q = [k \in 1..Len(d) |-> <<d[k]>>]
    OBVIOUS
  <2>7. [k \in 1..Len(d) |-> Written(d[k], 1, e)] = q
    BY <2>5, <2>6
  <2>8. FlattenSeq(q) = d
    BY <2>1, <2>6, FlattenSingles
  <2>9. t[i].data = d /\ t[i].data # NoData
    BY <1>2, <1>3, <1>4, <2>1
  <2>10. Bytes(t, i, e) = FlattenSeq([k \in 1..Len(d) |-> Written(d[k], 1, e)])
    BY <2>2, <2>3, <2>4, <2>9 DEF Bytes
  <2>11. Chunk(t, m, i) = d
    BY <1>4, <2>9 DEF Chunk
  <2> QED
    BY <2>3, <2>7, <2>8, <2>10, <2>11
<1>5. CASE ~IsName(m, i)
  <2>1. PICK w \in {2, 4, 8} : w = Width[TypeAt(m, i)] /\ w \in 1..8
    BY <1>5, TypeFacts
  <2>2. PICK v \in Nat : v = t[i].ivalue
    BY <1>3, <1>5 DEF Fits
  <2>3. /\ Digits(v, w) \in Seq(Byte) /\ Len(Digits(v, w)) = w /\ Written(v, w, e) = Digits(v, w)
    BY <2>1, <2>2, DigitsType, WrittenIs
  <2>4. Chunk(t, m, i) = Digits(v, w) /\ SizeAt(m, nm, i) = w
    BY <1>5, <2>1, <2>2 DEF Chunk, SizeAt
  <2>5. Bytes(t, i, e) = Written(v, w, e)
    BY <1>2, <1>5, <2>1, <2>2 DEF Bytes
  <2> QED
    BY <2>3, <2>4, <2>5
<1> QED
  BY <1>4, <1>5

\* s holds the bytes b from place p on.
Holds(s, p, b) ==
  /\ s \in Seq(Byte) /\ p \in Nat /\ p + Len(b) <= Len(s)
  /\ \A q \in 1..Len(b) : s[p + q] = b[q]

LEMMA PartIs ==
  ASSUME NEW s, NEW p, NEW b \in Seq(Byte), Holds(s, p, b)
  PROVE  SubSeq(s, p + 1, p + Len(b)) = b
<1>1. /\ s \in Seq(Byte) /\ p \in Nat /\ p + Len(b) <= Len(s)
      /\ \A q \in 1..Len(b) : s[p + q] = b[q]
  BY DEF Holds
<1>2. PICK x \in Nat \ {0}, y \in Nat, l \in Nat :
        /\ l = Len(b) /\ x = p + 1 /\ y = p + l /\ y <= Len(s)
        /\ x = p + 1 /\ y = p + Len(b)
  <2>1. Len(b) \in Nat
    OBVIOUS
  <2> QED
    BY <1>1, <2>1
<1>3. PICK r : r = SubSeq(s, x, y)
  OBVIOUS
<1>4. /\ r \in Seq(Byte) /\ Len(r) = IF x <= y THEN (y - x) + 1 ELSE 0
      /\ \A k \in 1..((y - x) + 1) : r[k] = s[(x - 1) + k]
  BY <1>1, <1>2, <1>3, PartOf
<1>5. Len(r) = Len(b)
  BY <1>1, <1>2, <1>4
<1>6. \A k \in 1..Len(r) : r[k] = b[k]
  <2> TAKE k \in 1..Len(r)
  <2>1. k \in 1..((y - x) + 1) /\ (x - 1) + k = p + k /\ k \in 1..Len(b)
    BY <1>1, <1>2, <1>5
  <2> QED
    BY <1>1, <1>4, <2>1
<1>7. r = b
  BY <1>4, <1>5, <1>6, SameSeq
<1> QED
  BY <1>2, <1>3, <1>7

\* A field that was laid into the part s is parsed as it was.
ReadBack(t, u, m, i, s, e) ==
  /\ Parsed(t, i, s, e) = [t EXCEPT ![i] = u[i]]
  /\ Taken(t, i) = Len(Chunk(u, m, i)) /\ ~Uncounted(t, i)

LEMMA ParsedIs ==
  ASSUME NEW m \in Packets, NEW nm, NamesOK(nm), NEW f, Full(f, m, nm),
         NEW i \in 0..(End(m) - 1), NEW t, i \in DOMAIN t, EntryAt(t[i], m, i),
         IsName(m, i) => t[i - 1] = f[i - 1],
         NEW s, Holds(s, pos, Chunk(f, m, i)), NEW e
  PROVE  ReadBack(t, f, m, i, s, e)
<1>1. Shaped(f, m)
  BY DEF Full
<1>2. /\ f[i].type = TypeAt(m, i) /\ f[i].ivalue \in Int /\ f[i] \in Entry
      /\ f[i].count = CountAt(m, i)
      /\ f[i].data = NoData <=> ~IsName(m, i)
  BY <1>1, ShapedFacts
<1>3. IF IsName(m, i) THEN f[i].data = nm[i] /\ f[i - 1].ivalue = Len(nm[i])
                      ELSE Fits(f[i].ivalue, Width[TypeAt(m, i)])
  BY DEF Full
<1>4. /\ t[i] \in Entry /\ t[i].type = TypeAt(m, i) /\ t[i].count = CountAt(m, i)
      /\ t[i].data = NoData <=> ~IsName(m, i)
      /\ IsName(m, i) => t[i].ivalue = 0
  BY DEF EntryAt
<1>5. PICK b \in Seq(Byte) : b = Chunk(f, m, i) /\ Len(b) = SizeAt(m, nm, i)
  BY ChunkIs
<1>6. SubSeq(s, pos + 1, pos + Len(b)) = b
  BY <1>5, PartIs
<1>7. CASE IsName(m, i)
  <2>1. b = f[i].data
    BY <1>5, <1>7 DEF Chunk
  <2>2. PICK l \in Nat : l = Len(b) /\ Len(b) = Len(nm[i])
    BY <1>5, <1>7 DEF SizeAt
  <2>3. t[i - 1] = f[i - 1] /\ t[i - 1].ivalue = l
    BY <1>3, <1>7, <2>2
  <2>4. /\ Elements(t, i) = l /\ t[i].type = TYPE_CHAR /\ t[i].data # NoData /\ t[i].count = -1
    BY <1>4, <1>7, <2>3, TypeFacts DEF Elements, CountAt
  <2>5. Width[t[i].type] = 1 /\ ArrayWidth[t[i].type] = 1
    BY <2>4, WidthFacts
  <2>6. Taken(t, i) = l
    BY <2>4, <2>5 DEF Taken
  <2>7. \A k \in 1..l : SubSeq(b, (k - 1) * 1 + 1, k * 1) = <<b[k]>>
    <3> TAKE k \in 1..l
    <3>1. PICK a \in Nat \ {0} : a = k /\ (k - 1) * 1 + 1 = a /\ k * 1 = a /\ a <= Len(b)
      BY <2>2
    <3>2. PICK r : r = SubSeq(b, a, a)
      OBVIOUS
    <3>3. /\ r \in Seq(Byte) /\ Len(r) = IF a <= a THEN (a - a) + 1 ELSE 0
          /\ \A j \in 1..((a - a) + 1) : r[j] = b[(a - 1) + j]
      BY <3>1, <3>2, PartOf
    <3>4. Len(r) = 1 /\ r[1] = b[a]
      BY <3>1, <3>3
    <3>5. r = <<b[a]>>
      BY <3>3, <3>4
    <3> QED
      BY <3>1, <3>2, <3>5
  <2>8. \A k \in 1..l : Unsigned(Read(SubSeq(b, (k - 1) * 1 + 1, k * 1), e)) = b[k]
    <3> TAKE k \in 1..l
    <3>1. PICK c \in Byte : c = b[k]
      BY <2>2
    <3>2. <<c>> \in Seq(Byte)
      OBVIOUS
    <3>3. Read(<<c>>, e) = <<c>>
      BY <3>2, ReadIs
    <3>4. Unsigned(<<c>>) = c
      BY OneByte
    <3> QED
      BY <2>7, <3>1, <3>3, <3>4
  <2>9. [k \in 1..l |-> Unsigned(Read(SubSeq(b, (k - 1) * 1 + 1, k * 1), e))] = b
    <3>1. [k \in 1..l |-> Unsigned(Read(SubSeq(b, (k - 1) * 1 + 1, k * 1), e))]
          = [k \in 1..l |-> b[k]]
      BY <2>8
    <3>2. [k \in 1..l |-> b[k]] = b
      BY <2>2
    <3> QED
      BY <3>1, <3>2
  <2>10. SubSeq(s, pos + 1, pos + Taken(t, i)) = b
    BY <1>6, <2>2, <2>6
  <2>11. Parsed(t, i, s, e) = [t EXCEPT ![i].data = b]
    BY <2>4, <2>5, <2>9, <2>10 DEF Parsed
  <2>12. [t[i] EXCEPT !.data = b] = f[i]
    <3>1. f[i].ivalue = 0 /\ t[i].ivalue = 0
      BY <1>1, <1>4, <1>7, ShapedFacts DEF Shaped
    <3>2. PICK x \in Entry, y \in Entry : x = t[i] /\ y = f[i]
      BY <1>2, <1>4
    <3>3. x.type = y.type /\ x.count = y.count /\ x.ivalue = y.ivalue /\ b = y.data
      <4>1. x.type = y.type
        BY <1>2, <1>4, <3>2
      <4>2. x.count = y.count
        BY <1>2, <1>4, <3>2
      <4>3. x.ivalue = y.ivalue /\ b = y.data
        BY <2>1, <3>1, <3>2
      <4> QED
        BY <4>1, <4>2, <4>3
    <3>4. [x EXCEPT !.data = b] = y
      BY <3>3 DEF Entry
    <3> QED
      BY <3>2, <3>4
  <2>13. [t EXCEPT ![i].data = b] = [t EXCEPT ![i] = f[i]]
    BY <2>12
  <2>14. ~Uncounted(t, i)
    <3>1. TypeAt(m, i - 1) = TYPE_SHORT /\ ~IsName(m, i - 1) /\ i - 1 \in 0..(End(m) - 1)
      BY <1>7 DEF TypeAt, IsName, End, FIELD_HCRC, FIELD_BMARK
    <3>2. f[i - 1].type = TYPE_SHORT /\ f[i - 1].data = NoData
      BY <1>1, <3>1, ShapedFacts
    <3> QED
      BY <2>3, <3>2 DEF Uncounted, Unnumbered
  <2> QED
    BY <1>5, <2>2, <2>6, <2>11, <2>13, <2>14 DEF ReadBack
<1>8. CASE ~IsName(m, i)
  <2>1. PICK w \in {2, 4, 8} : w = Width[TypeAt(m, i)] /\ w \in 1..8
    BY <1>8, TypeFacts
  <2>2. PICK v \in Nat : v = f[i].ivalue /\ Fits(v, w)
    BY <1>3, <1>8, <2>1 DEF Fits
  <2>3. b = Digits(v, w) /\ Len(b) = w
    BY <1>5, <1>8, <2>1, <2>2 DEF Chunk, SizeAt
  <2>4. Taken(t, i) = w
    BY <1>4, <1>8, <2>1 DEF Taken
  <2>5. Signed(Read(b, e)) = v
    BY <2>1, <2>2, <2>3, ReadIs, SignedDigits
  <2>6. SubSeq(s, pos + 1, pos + Taken(t, i)) = b
    BY <1>6, <2>3, <2>4
  <2>7. Parsed(t, i, s, e) = [t EXCEPT ![i].ivalue = v]
    BY <1>4, <1>8, <2>5, <2>6 DEF Parsed
  <2>8. [t[i] EXCEPT !.ivalue = v] = f[i]
    BY <1>2, <1>4, <1>8, <2>2 DEF Entry
  <2>9. [t EXCEPT ![i].ivalue = v] = [t EXCEPT ![i] = f[i]]
    BY <2>8
  <2>10. ~Uncounted(t, i)
    BY <1>4, <1>8 DEF Uncounted
  <2> QED
    BY <1>5, <2>3, <2>4, <2>7, <2>9, <2>10 DEF ReadBack
<1> QED
  BY <1>7, <1>8

-----------------------------------------------------------------------------
(***************************************************************************)
(* Streams                                                                 *)
(***************************************************************************)
LEMMA PartOfPart ==
  ASSUME NEW s \in Seq(Byte), NEW a \in Nat, NEW b \in Nat, NEW c \in Nat,
         a + c <= b, b <= Len(s)
  PROVE  SubSeq(SubSeq(s, a + 1, b), 1, c) = SubSeq(s, a + 1, a + c)
<1>1. PICK x \in Nat \ {0}, y \in Nat, o \in Nat \ {0} :
        x = a + 1 /\ y = a + c /\ o = 1 /\ y <= Len(s) /\ y <= b
  BY SMT
<1>2. PICK r : r = SubSeq(s, x, b)
  OBVIOUS
<1>3. /\ r \in Seq(Byte) /\ Len(r) = IF x <= b THEN (b - x) + 1 ELSE 0
      /\ \A k \in 1..((b - x) + 1) : r[k] = s[(x - 1) + k]
  BY <1>2, PartOf
<1>4. Len(r) = b - a /\ c <= Len(r)
  BY <1>1, <1>3
<1>5. PICK u : u = SubSeq(r, o, c)
  OBVIOUS
<1>6. /\ u \in Seq(Byte) /\ Len(u) = IF o <= c THEN (c - o) + 1 ELSE 0
      /\ \A k \in 1..((c - o) + 1) : u[k] = r[(o - 1) + k]
  BY <1>3, <1>4, <1>5, PartOf
<1>7. PICK v : v = SubSeq(s, x, y)
  OBVIOUS
<1>8. /\ v \in Seq(Byte) /\ Len(v) = IF x <= y THEN (y - x) + 1 ELSE 0
      /\ \A k \in 1..((y - x) + 1) : v[k] = s[(x - 1) + k]
  BY <1>1, <1>7, PartOf
<1>9. Len(u) = c /\ Len(v) = c
  BY <1>1, <1>6, <1>8
<1>10. \A k \in 1..Len(u) : u[k] = v[k]
  <2> TAKE k \in 1..Len(u)
  <2>1. u[k] = r[k]
    BY <1>1, <1>6, <1>9
  <2>2. r[k] = s[(x - 1) + k]
    BY <1>1, <1>3, <1>9
  <2>3. v[k] = s[(x - 1) + k]
    BY <1>1, <1>8, <1>9
  <2> QED
    BY <2>1, <2>2, <2>3
<1>11. u = v
  BY <1>6, <1>8, <1>9, <1>10, SameSeq
<1> QED
  BY <1>1, <1>2, <1>5, <1>7, <1>11

LEMMA PartOfMore ==
  ASSUME NEW s \in Seq(Byte), NEW c \in Seq(Byte), NEW x \in Nat \ {0}, NEW b \in Nat,
         b <= Len(s)
  PROVE  SubSeq(s \o c, x, b) = SubSeq(s, x, b)
<1>1. PICK t : t = s \o c
  OBVIOUS
<1>2. /\ t \in Seq(Byte) /\ Len(t) = Len(s) + Len(c)
      /\ \A i \in 1..Len(s) : t[i] = s[i]
  BY <1>1, ConcatAt
<1>3. Len(s) \in Nat /\ Len(c) \in Nat /\ b <= Len(t)
  <2>1. Len(s) \in Nat /\ Len(c) \in Nat
    OBVIOUS
  <2>2. b <= Len(s) + Len(c)
    BY <2>1
  <2>3. b <= Len(t)
    BY <1>2, <2>2
  <2> QED
    BY <2>1, <2>3
<1>5. PICK u : u = SubSeq(s, x, b)
  OBVIOUS
<1>6. /\ u \in Seq(Byte) /\ Len(u) = IF x <= b THEN (b - x) + 1 ELSE 0
      /\ \A k \in 1..((b - x) + 1) : u[k] = s[(x - 1) + k]
  BY <1>3, <1>5, PartOf
<1>7. PICK v : v = SubSeq(t, x, b)
  OBVIOUS
<1>8. /\ v \in Seq(Byte) /\ Len(v) = IF x <= b THEN (b - x) + 1 ELSE 0
      /\ \A k \in 1..((b - x) + 1) : v[k] = t[(x - 1) + k]
  BY <1>2, <1>3, <1>7, PartOf
<1>10. \A k \in 1..Len(u) : u[k] = v[k]
  <2> TAKE k \in 1..Len(u)
  <2>1. k \in 1..((b - x) + 1) /\ (x - 1) + k \in 1..Len(s)
    BY <1>3, <1>6
  <2> QED
    BY <1>2, <1>6, <1>8, <2>1
<1>11. u = v
  BY <1>6, <1>8, <1>10, SameSeq
<1> QED
  BY <1>1, <1>3, <1>5, <1>7, <1>11

LEMMA WholePart ==
  ASSUME NEW s \in Seq(Byte)
  PROVE  SubSeq(s, 1, Len(s)) = s
<1>1. PICK o \in Nat \ {0}, l \in Nat : o = 1 /\ l = Len(s) /\ l <= Len(s)
  <2>1. 1 \in Nat \ {0} /\ Len(s) \in Nat /\ Len(s) <= Len(s)
    OBVIOUS
  <2> QED
    BY <2>1
<1>2. PICK u : u = SubSeq(s, o, l)
  OBVIOUS
<1>3. /\ u \in Seq(Byte) /\ Len(u) = IF o <= l THEN (l - o) + 1 ELSE 0
      /\ \A k \in 1..((l - o) + 1) : u[k] = s[(o - 1) + k]
  BY <1>1, <1>2, PartOf
<1>4. Len(u) = Len(s) /\ \A k \in 1..Len(u) : u[k] = s[k]
  BY <1>1, <1>3
<1>5. u = s
  BY <1>3, <1>4, SameSeq
<1> QED
  BY <1>1, <1>2, <1>5

LEMMA ChunkSame ==
  ASSUME NEW t, NEW u, NEW m, NEW i, t[i] = u[i]
  PROVE  Chunk(t, m, i) = Chunk(u, m, i)
BY DEF Chunk

LEMMA LaidSame ==
  ASSUME NEW m, NEW nm, NEW k \in Nat, NEW s, NEW t, NEW u, Laid(s, t, m, nm, k), Alike(t, u, k)
  PROVE  Laid(s, u, m, nm, k)
<1>1. ASSUME NEW j \in 0..(k - 1), NEW q \in 1..SizeAt(m, nm, j)
      PROVE  s[At(m, nm, j) + q] = Chunk(u, m, j)[q]
  <2>1. s[At(m, nm, j) + q] = Chunk(t, m, j)[q]
    BY DEF Laid
  <2>2. t[j] = u[j]
    BY DEF Alike
  <2>3. Chunk(t, m, j) = Chunk(u, m, j)
    BY <2>2, ChunkSame
  <2> QED
    BY <2>1, <2>3
<1> QED
  BY <1>1 DEF Laid

LEMMA LaidNext ==
  ASSUME NEW m \in Packets, NEW nm, NamesOK(nm), NEW t, Full(t, m, nm),
         NEW k \in 0..(End(m) - 1), NEW s, Laid(s, t, m, nm, k),
         NEW c, c = Chunk(t, m, k)
  PROVE  Laid(s \o c, t, m, nm, k + 1)
<1>0. c \in Seq(Byte) /\ Len(c) = SizeAt(m, nm, k)
  BY ChunkIs
<1>1. /\ At(m, nm, k) \in Nat /\ SizeAt(m, nm, k) \in Nat
      /\ At(m, nm, k + 1) = At(m, nm, k) + SizeAt(m, nm, k)
  BY AtNext
<1>2. s \in Seq(Byte) /\ Len(s) = At(m, nm, k)
  BY DEF Laid
<1>3. PICK r : r = s \o c
  OBVIOUS
<1>4. /\ r \in Seq(Byte) /\ Len(r) = Len(s) + Len(c)
      /\ \A i \in 1..Len(s) : r[i] = s[i]
      /\ \A i \in 1..Len(c) : r[Len(s) + i] = c[i]
  <2>1. PICK s0 \in Seq(Byte), c0 \in Seq(Byte) : s0 = s /\ c0 = c
    BY <1>0, <1>2
  <2>2. /\ s0 \o c0 \in Seq(Byte) /\ Len(s0 \o c0) = Len(s0) + Len(c0)
        /\ \A i \in 1..Len(s0) : (s0 \o c0)[i] = s0[i]
        /\ \A i \in 1..Len(c0) : (s0 \o c0)[Len(s0) + i] = c0[i]
    BY ConcatAt
  <2> QED
    BY <1>3, <2>1, <2>2
<1>5. Len(r) = At(m, nm, k + 1)
  BY <1>0, <1>1, <1>2, <1>4
<1>e. PICK L \in {9, 10, 13} : L = End(m)
  BY DEF End, Packets
<1>6. ASSUME NEW j \in 0..k, NEW q \in 1..SizeAt(m, nm, j)
      PROVE  r[At(m, nm, j) + q] = Chunk(t, m, j)[q]
  <2>1. CASE j = k
    BY <1>0, <1>2, <1>4, <2>1
  <2>2. CASE j # k
    <3>1. j \in 0..(End(m) - 1) /\ j + 1 \in 0..k /\ k \in 0..End(m) /\ j \in 0..(k - 1)
      BY <1>e, <2>2
    <3>2. /\ At(m, nm, j) \in Nat /\ SizeAt(m, nm, j) \in Nat
          /\ At(m, nm, j + 1) = At(m, nm, j) + SizeAt(m, nm, j)
      BY <3>1, AtNext
    <3>3. At(m, nm, j + 1) <= At(m, nm, k)
      BY <3>1, AtOrder
    <3>4. At(m, nm, j) + q \in 1..Len(s)
      BY <1>1, <1>2, <3>2, <3>3
    <3>5. s[At(m, nm, j) + q] = Chunk(t, m, j)[q]
      BY <3>1 DEF Laid
    <3> QED
      BY <1>4, <3>4, <3>5
  <2> QED
    BY <2>1, <2>2
<1>7. (k + 1) - 1 = k
  OBVIOUS
<1> QED
  BY <1>3, <1>4, <1>5, <1>6, <1>7 DEF Laid

\* A part of the stream holds the fields that lie in it.
LEMMA PartHolds ==
  ASSUME NEW m \in Packets, NEW nm, NamesOK(nm), NEW f, Full(f, m, nm),
         NEW s, Laid(s, f, m, nm, End(m)), NEW i \in 0..(End(m) - 1),
         NEW a \in Nat, NEW b \in Nat, a <= At(m, nm, i), At(m, nm, i + 1) <= b, b <= Len(s)
  PROVE  Holds(SubSeq(s, a + 1, b), At(m, nm, i) - a, Chunk(f, m, i))
<1>1. PICK c \in Seq(Byte) : c = Chunk(f, m, i) /\ Len(c) = SizeAt(m, nm, i)
  BY ChunkIs
<1>2. PICK p \in Nat, l \in Nat : /\ p = At(m, nm, i) /\ l = SizeAt(m, nm, i) /\ l = Len(c)
                                  /\ At(m, nm, i + 1) = p + l
  BY <1>1, AtNext
<1>3. s \in Seq(Byte) /\ \A q \in 1..l : s[p + q] = c[q]
  <2>1. PICK L \in {9, 10, 13} : L = End(m)
    BY DEF End, Packets
  <2>2. i \in 0..(End(m) - 1)
    OBVIOUS
  <2> QED
    BY <1>1, <1>2, <2>2 DEF Laid
<1>4. PICK x \in Nat \ {0}, y \in Nat : x = a + 1 /\ y = p - a /\ a <= p /\ p + l <= b
  <2>1. a <= p /\ p + l <= b
    BY <1>2
  <2>2. a + 1 \in Nat \ {0} /\ p - a \in Nat
    BY <2>1
  <2> QED
    BY <2>1, <2>2
<1>5. PICK r : r = SubSeq(s, x, b)
  OBVIOUS
<1>6. /\ r \in Seq(Byte) /\ Len(r) = IF x <= b THEN (b - x) + 1 ELSE 0
      /\ \A k \in 1..((b - x) + 1) : r[k] = s[(x - 1) + k]
  BY <1>3, <1>5, PartOf
<1>7. Len(r) = b - a
  <2>1. b < x => b = a
    BY <1>4
  <2>2. x <= b => (b - x) + 1 = b - a
    BY <1>4
  <2> QED
    BY <1>4, <1>6, <2>1, <2>2
<1>8. y + l <= Len(r)
  BY <1>4, <1>7
<1>9. \A q \in 1..l : r[y + q] = c[q]
  <2> TAKE q \in 1..l
  <2>1. y + q \in 1..((b - x) + 1) /\ (x - 1) + (y + q) = p + q
    BY <1>4
  <2> QED
    BY <1>3, <1>6, <2>1
<1>10. Holds(r, y, c)
  BY <1>2, <1>6, <1>8, <1>9 DEF Holds
<1> QED
  BY <1>1, <1>2, <1>4, <1>5, <1>10

-----------------------------------------------------------------------------
(***************************************************************************)
(* The steps of a packet keep the invariant                                *)
(***************************************************************************)
LEMMA PacketStarts ==
  ASSUME PacketInv, NEW m \in Packets, Starts(m)
  PROVE  PacketInv'
<1>1. EndsInv /\ EndsInv' /\ Names' = Names
  BY DEF PacketInv, EndsInv, Names, ProcessName, Starts
<1>2. PICK nm : nm = Names
  OBVIOUS
<1>3. /\ msg' = m /\ at' = "write" /\ n' = 0 /\ fields' = Sent(m) /\ out' = <<>>
      /\ bodyBase' = 0 /\ header' = MSG_COMMON_REQ_FIELDS(MSG_COMMON)
      /\ robj' = Incoming(m) /\ pos' = 0 /\ ret' = "none"
  BY DEF Starts
<1>4. Full(Sent(m), m, nm)
  BY <1>1, <1>2, OutgoingFull
<1>5. Laid(<<>>, Sent(m), m, nm, 0)
  <2>1. <<>> \in Seq(Byte) /\ Len(<<>>) = 0
    OBVIOUS
  <2>2. At(m, nm, 0) = 0
    BY AtHeader
  <2>3. \A j \in 0..(0 - 1) : FALSE
    OBVIOUS
  <2> QED
    BY <2>1, <2>2, <2>3 DEF Laid
<1>6. Sending(m, nm, 0, Sent(m), <<>>, 0)
  <2>1. 0 \in 0..End(m) /\ 0 # End(m)
    BY DEF End, Packets
  <2> QED
    BY <1>4, <1>5, <2>1 DEF Sending, FIELD_BMARK, FIELD_HCRC
<1>7. Receiving(m, nm, "write", 0, 0, "none", MSG_COMMON_REQ_FIELDS(MSG_COMMON), Incoming(m),
                Sent(m))
  BY <1>1, IncomingShaped, MethodsAgree DEF Receiving
<1>8. Underway'
  BY <1>1, <1>2, <1>3, <1>6, <1>7 DEF Underway
<1> QED
  BY <1>1, <1>8 DEF PacketInv

\* What every step of a packet starts from.
LEMMA Started ==
  ASSUME PacketInv, msg # "none" \/ at # "end"
  PROVE  /\ EndsInv /\ msg \in Packets /\ at \in {"write", "head", "body", "end"}
         /\ NamesOK(Names)
         /\ Sending(msg, Names, IF at = "write" THEN n ELSE End(msg), fields, out, bodyBase)
         /\ Receiving(msg, Names, at, n, pos, ret, header, robj, fields)
BY NamesFit DEF PacketInv, Idle, Underway

LEMMA NoTerminator ==
  ASSUME NEW m \in Packets, NEW t, Shaped(t, m), NEW k \in 0..End(m)
  PROVE  /\ t[k].type >= 0 => k \in 0..(End(m) - 1)
         /\ t[k].type < 0 => k = End(m)
<1>1. PICK L \in {9, 10, 13} : L = End(m)
  BY DEF End, Packets
<1>2. k \in 0..(L - 1) \/ k = L
  BY <1>1
<1>3. CASE k = L
  <2>1. t[k].type = -1
    BY <1>1, <1>3 DEF Shaped, TypeAt
  <2> QED
    BY <1>1, <1>3, <2>1
<1>4. CASE k \in 0..(L - 1)
  <2>1. PICK j \in 0..(End(m) - 1) : j = k /\ j # End(m)
    <3>1. k \in 0..(End(m) - 1) /\ k # End(m)
      BY <1>1, <1>4
    <3> QED
      BY <3>1
  <2>2. t[j].type >= 0 /\ t[j] \in Entry
    BY ShapedFacts
  <2>3. t[j].type \in Int
    BY <2>2 DEF Entry
  <2>4. ~(t[j].type < 0)
    BY <2>2, <2>3
  <2> QED
    BY <2>1, <2>4
<1> QED
  BY <1>2, <1>3, <1>4

LEMMA AllSerialized ==
  ASSUME PacketInv, SerializeEnds
  PROVE  PacketInv'
<1>1. /\ at = "write" /\ fields[n].type < 0 /\ at' = "head" /\ n' = 0
      /\ UNCHANGED <<little, host, path, msg, fields, out, bodyBase, header, robj, pos, ret>>
  BY DEF SerializeEnds
<1>0. PICK nm : nm = Names
  OBVIOUS
<1>2. PICK m \in Packets : m = msg /\ nm = Names
  BY <1>0, <1>1, Started
<1>3. /\ EndsInv /\ Sending(m, nm, n, fields, out, bodyBase)
      /\ Receiving(m, nm, "write", n, pos, ret, header, robj, fields)
  BY <1>1, <1>2, Started
<1>4. n = End(m)
  BY <1>1, <1>3, NoTerminator DEF Sending, Full
<1>5. Sending(m, nm, End(m), fields, out, bodyBase)
  BY <1>3, <1>4
<1>6. Receiving(m, nm, "head", 0, pos, ret, header, robj, fields)
  <2>1. At(m, nm, 0) = 0
    BY AtHeader
  <2>2. Alike(header, fields, 0)
    <3>1. \A j \in 0..(0 - 1) : FALSE
      OBVIOUS
    <3> QED
      BY <3>1 DEF Alike
  <2> QED
    BY <1>3, <2>1, <2>2 DEF Receiving, FIELD_HCRC
<1>7. EndsInv' /\ Names' = nm /\ msg' = m
  BY <1>1, <1>2, <1>3 DEF EndsInv, Names, ProcessName
<1>8. Underway'
  BY <1>1, <1>5, <1>6, <1>7 DEF Underway
<1> QED
  BY <1>7, <1>8 DEF PacketInv

\* The table with the sum that belongs into field k, the stream s written so far.
Sum(s, base, m, k) == IF k = FIELD_HCRC THEN Crc(s) ELSE Crc(SubSeq(s, base + 1, Len(s)))

Entered(g, f, s, base, m, k) ==
  IF SumField(m, k) THEN Sets(g, f, k, Sum(s, base, m, k)) ELSE g = f

LEMMA SumIsLong ==
  ASSUME CrcIsLong, NEW s \in Seq(Byte), NEW base \in {0, 32}, NEW m, NEW k
  PROVE  Sum(s, base, m, k) \in 0..(Pow[4] - 1)
<1>1. PICK a \in Nat \ {0}, l \in Nat : a = base + 1 /\ l = Len(s) /\ l <= Len(s)
  <2>1. base + 1 \in Nat \ {0} /\ Len(s) \in Nat /\ Len(s) <= Len(s)
    OBVIOUS
  <2> QED
    BY <2>1
<1>2. SubSeq(s, a, l) \in Seq(Byte)
  BY <1>1, PartOf
<1>3. \A x \in Seq(Byte) : Crc(x) \in 0..(Pow[4] - 1)
  BY DEF CrcIsLong, Byte
<1> QED
  BY <1>1, <1>2, <1>3 DEF Sum

LEMMA SendingNext ==
  ASSUME CrcIsLong, NEW m \in Packets, NEW nm, NamesOK(nm), NEW k \in 0..(End(m) - 1),
         NEW f, NEW s, NEW base, Sending(m, nm, k, f, s, base),
         NEW g, Entered(g, f, s, base, m, k), NEW t, t = s \o Chunk(g, m, k)
  PROVE  /\ Full(g, m, nm)
         /\ Sending(m, nm, k + 1, g, t, IF k = FIELD_BMARK - 1 THEN Len(t) ELSE base)
<1>1. PICK L \in {9, 10, 13} : L = End(m)
  BY DEF End, Packets
<1>2. /\ Full(f, m, nm) /\ Laid(s, f, m, nm, k)
      /\ base = IF k < FIELD_BMARK THEN 0 ELSE 32
      /\ k > FIELD_HCRC => f[FIELD_HCRC].ivalue = Crc(SubSeq(s, 1, 24))
  BY DEF Sending
<1>3. s \in Seq(Byte) /\ Len(s) = At(m, nm, k)
  BY <1>2 DEF Laid
<1>4. /\ Full(g, m, nm)
      /\ SumField(m, k) => g[k].ivalue = Sum(s, base, m, k)
      /\ \A j \in 0..End(m) : j # k => g[j] = f[j]
  <2>1. CASE SumField(m, k)
    <3>1. Sum(s, base, m, k) \in 0..(Pow[4] - 1)
      BY <1>2, <1>3, SumIsLong
    <3>2. Sets(g, f, k, Sum(s, base, m, k)) /\ k \in Nat
      BY <2>1 DEF Entered
    <3> QED
      BY <1>2, <2>1, <3>1, <3>2, SumFull
  <2>2. CASE ~SumField(m, k)
    BY <1>2, <2>2 DEF Entered
  <2> QED
    BY <2>1, <2>2
<1>5. Alike(f, g, k)
  <2>1. \A j \in 0..(k - 1) : j \in 0..End(m) /\ j # k
    BY <1>1
  <2> QED
    BY <1>4, <2>1 DEF Alike
<1>6. Laid(s, g, m, nm, k)
  BY <1>2, <1>5, LaidSame
<1>7. PICK c \in Seq(Byte) : c = Chunk(g, m, k) /\ Len(c) = SizeAt(m, nm, k)
  BY <1>4, ChunkIs
<1>8. t = s \o c /\ Laid(t, g, m, nm, k + 1)
  BY <1>4, <1>6, <1>7, LaidNext
<1>9. Len(t) = At(m, nm, k + 1)
  BY <1>8 DEF Laid
<1>10. PICK b : b = IF k = FIELD_BMARK - 1 THEN Len(t) ELSE base
  OBVIOUS
<1>11. b = IF k + 1 < FIELD_BMARK THEN 0 ELSE 32
  <2>1. k = 6 => Len(t) = 32
    BY <1>9, AtBody
  <2> QED
    BY <1>2, <1>10, <2>1 DEF FIELD_BMARK
<1>12. k + 1 > FIELD_HCRC => g[FIELD_HCRC].ivalue = Crc(SubSeq(t, 1, 24))
  <2>1. CASE k = 6
    <3>1. g[6].ivalue = Crc(s)
      BY <1>4, <2>1 DEF Sum, SumField, FIELD_HCRC
    <3>2. Len(s) = 24
      BY <1>3, <2>1, AtHeader
    <3>3. SubSeq(t, 1, 24) = s
      <4>1. SubSeq(s \o c, 1, 24) = SubSeq(s, 1, 24)
        <5>1. PICK o \in Nat \ {0}, h \in Nat : o = 1 /\ h = 24 /\ h <= Len(s)
          BY <3>2
        <5>2. SubSeq(s \o c, o, h) = SubSeq(s, o, h)
          BY <1>3, <5>1, PartOfMore
        <5> QED
          BY <5>1, <5>2
      <4>2. SubSeq(s, 1, 24) = s
        BY <1>3, <3>2, WholePart
      <4> QED
        BY <1>8, <4>1, <4>2
    <3> QED
      BY <3>1, <3>3 DEF FIELD_HCRC
  <2>2. CASE k > 6
    <3>1. g[6] = f[6]
      BY <1>1, <1>4, <2>2
    <3>2. 24 <= Len(s)
      <4>1. k \in 0..End(m) /\ 7 \in 0..k
        BY <1>1, <2>2
      <4>2. At(m, nm, 7) = 32 /\ At(m, nm, 7) <= At(m, nm, k) /\ At(m, nm, k) \in Nat
        BY <4>1, AtOrder
      <4> QED
        BY <1>3, <4>2
    <3>3. SubSeq(t, 1, 24) = SubSeq(s, 1, 24)
      <4>1. SubSeq(s \o c, 1, 24) = SubSeq(s, 1, 24)
        <5>1. PICK o \in Nat \ {0}, h \in Nat : o = 1 /\ h = 24 /\ h <= Len(s)
          BY <3>2
        <5>2. SubSeq(s \o c, o, h) = SubSeq(s, o, h)
          BY <1>3, <5>1, PartOfMore
        <5> QED
          BY <5>1, <5>2
      <4> QED
        BY <1>8, <4>1
    <3> QED
      BY <1>2, <2>2, <3>1, <3>3 DEF FIELD_HCRC
  <2> QED
    BY <2>1, <2>2 DEF FIELD_HCRC
<1>13. k + 1 = End(m) => g[End(m) - 1].ivalue = Crc(SubSeq(t, 33, At(m, nm, End(m) - 1)))
  <2> SUFFICES ASSUME k + 1 = End(m)
               PROVE  g[k].ivalue = Crc(SubSeq(t, 33, Len(s)))
    <3>1. k + 1 = End(m) => k = End(m) - 1
      BY <1>1
    <3> QED
      BY <1>3, <3>1
  <2>1. k = L - 1 /\ SumField(m, k) /\ k # 6 /\ k >= 7
    BY <1>1 DEF SumField
  <2>2. base = 32
    BY <1>2, <2>1 DEF FIELD_BMARK
  <2>3. g[k].ivalue = Crc(SubSeq(s, 33, Len(s)))
    <3>1. g[k].ivalue = Crc(SubSeq(s, base + 1, Len(s)))
      BY <1>4, <2>1 DEF Sum, FIELD_HCRC
    <3>2. base + 1 = 33
      BY <2>2
    <3> QED
      BY <3>1, <3>2
  <2>4. SubSeq(t, 33, Len(s)) = SubSeq(s, 33, Len(s))
    <3>1. PICK l \in Nat : l = Len(s) /\ l <= Len(s)
      <4>1. Len(s) \in Nat /\ Len(s) <= Len(s)
        BY <1>3
      <4> QED
        BY <4>1
    <3>2. PICK x \in Nat \ {0} : x = 33
      OBVIOUS
    <3>3. SubSeq(s \o c, x, l) = SubSeq(s, x, l)
      BY <1>3, <3>1, PartOfMore
    <3> QED
      BY <1>8, <3>1, <3>2, <3>3
  <2> QED
    BY <2>3, <2>4
<1>14. k + 1 \in 0..End(m)
  BY <1>1
<1> QED
  BY <1>4, <1>8, <1>10, <1>11, <1>12, <1>13, <1>14 DEF Sending

\* A name is counted by the number before it, so that no table fails to be written.
LEMMA Numbered ==
  ASSUME PacketInv, at = "write"
  PROVE  /\ ret = "none"
         /\ fields[n].type >= 0 =>
              ~(fields[n].data # NoData /\ fields[n].count <= 0 /\ Unnumbered(fields, n))
<1>1. PICK m \in Packets : m = msg
  BY Started
<1>2. /\ Shaped(fields, m) /\ n \in 0..End(m) /\ ret = "none"
  BY <1>1, Started DEF Sending, Full, Receiving
<1>3. ASSUME fields[n].type >= 0, fields[n].data # NoData
      PROVE  ~Unnumbered(fields, n)
  <2>1. n \in 0..(End(m) - 1)
    BY <1>2, <1>3, NoTerminator
  <2>2. IsName(m, n)
    BY <1>2, <1>3, <2>1, ShapedFacts
  <2>3. TypeAt(m, n - 1) = TYPE_SHORT /\ n - 1 \in 0..(End(m) - 1)
    BY <2>1, <2>2 DEF TypeAt, IsName, End, FIELD_HCRC, FIELD_BMARK
  <2>4. fields[n - 1].type = TYPE_SHORT
    BY <1>2, <2>3, ShapedFacts
  <2> QED
    BY <2>4 DEF Unnumbered
<1> QED
  BY <1>2, <1>3

LEMMA FieldSerialized ==
  ASSUME CrcIsLong, PacketInv, SerializeField
  PROVE  PacketInv'
<1>0. /\ at = "write" /\ fields[n].type >= 0 /\ fields' = Summed(n)
      /\ UNCHANGED <<little, host, path, msg, header, robj, pos>>
  BY DEF SerializeField
<1>1. PICK nm : nm = Names
  OBVIOUS
<1>2. PICK m \in Packets : m = msg
  BY <1>0, Started
<1>3. /\ EndsInv /\ NamesOK(nm) /\ Sending(m, nm, n, fields, out, bodyBase)
      /\ Receiving(m, nm, "write", n, pos, ret, header, robj, fields)
  BY <1>0, <1>1, <1>2, Started
<1>4. Shaped(fields, m) /\ n \in 0..End(m)
  BY <1>3 DEF Sending, Full
<1>5. n \in 0..(End(m) - 1)
  BY <1>0, <1>4, NoTerminator
<1>s. /\ out' = out \o Bytes(fields', n, Sender(msg))
      /\ bodyBase' = IF n = FIELD_BMARK - 1 THEN Len(out') ELSE bodyBase
      /\ n' = n + 1 /\ at' = at /\ ret' = ret
  BY <1>0, Numbered DEF SerializeField
<1>6. PICK g : g = fields'
  OBVIOUS
<1>7. Entered(g, fields, out, bodyBase, m, n)
  <2>1. FIELDS_LEN(fields) = End(m)
    BY <1>4, FieldsLen
  <2> QED
    BY <1>0, <1>6, <2>1 DEF Entered, Summed, SumField, Sum, Sets
<1>8. PICK t : t = out \o Chunk(g, m, n)
  OBVIOUS
<1>9. /\ Full(g, m, nm)
      /\ Sending(m, nm, n + 1, g, t, IF n = FIELD_BMARK - 1 THEN Len(t) ELSE bodyBase)
  BY <1>3, <1>5, <1>7, <1>8, SendingNext
<1>10. out' = t
  BY <1>s, <1>3, <1>5, <1>6, <1>8, <1>9, ChunkIs
<1>11. Sending(m, nm, n', fields', out', bodyBase')
  BY <1>s, <1>6, <1>9, <1>10
<1>12. Receiving(m, nm, "write", n', pos, ret, header, robj, fields')
  <2>1. g[FIELD_METHOD] = fields[FIELD_METHOD]
    <3>1. SumField(m, n) => n # 1 /\ 1 \in DOMAIN fields
      BY <1>4 DEF SumField, FIELD_HCRC, Shaped, End
    <3> QED
      BY <1>7, <3>1 DEF Entered, Sets, FIELD_METHOD
  <2> QED
    BY <1>3, <1>6, <2>1 DEF Receiving
<1>13. EndsInv' /\ Names' = nm /\ msg' = m
  BY <1>0, <1>1, <1>2, <1>3 DEF EndsInv, Names, ProcessName
<1>14. Underway'
  BY <1>0, <1>s, <1>11, <1>12, <1>13 DEF Underway
<1> QED
  BY <1>13, <1>14 DEF PacketInv

\* The header of every packet is declared alike.
LEMMA HeaderEntry ==
  ASSUME NEW m \in Packets, NEW t, Shaped(t, m), NEW o \in Packets, NEW i \in 0..7
  PROVE  EntryAt(t[i], o, i) /\ t[i].type > 0 /\ i \in 0..(End(m) - 1) /\ i \in 0..(End(o) - 1)
<1>1. PICK L \in {9, 10, 13}, K \in {9, 10, 13} : L = End(m) /\ K = End(o)
  BY DEF End, Packets
<1>2. i \in 0..(End(m) - 1) /\ i \in 0..(End(o) - 1)
  BY <1>1
<1>3. ~IsName(m, i) /\ ~IsName(o, i)
  BY DEF IsName
<1>4. /\ t[i] \in Entry /\ t[i].type = TypeAt(m, i) /\ t[i].count = CountAt(m, i)
      /\ t[i].data = NoData
  BY <1>2, <1>3, ShapedFacts
<1>5. TypeAt(m, i) = TypeAt(o, i) /\ CountAt(m, i) = CountAt(o, i) /\ TypeAt(m, i) > 0
  <2>1. /\ i # End(m) /\ i # End(o) /\ i # End(m) - 1 /\ i # End(o) - 1 /\ i <= 7
    BY <1>1
  <2>2. TypeAt(m, i) = (IF i = 6 THEN 4 ELSE 3) /\ CountAt(m, i) = 1
    BY <1>3, <2>1 DEF TypeAt, CountAt, FIELD_HCRC, FIELD_BMARK, TYPE_LONG, TYPE_LONGLONG
  <2>3. TypeAt(o, i) = (IF i = 6 THEN 4 ELSE 3) /\ CountAt(o, i) = 1
    BY <1>3, <2>1 DEF TypeAt, CountAt, FIELD_HCRC, FIELD_BMARK, TYPE_LONG, TYPE_LONGLONG
  <2> QED
    BY <2>2, <2>3
<1> QED
  BY <1>2, <1>3, <1>4, <1>5 DEF EntryAt

LEMMA FullEntry ==
  ASSUME NEW m \in Packets, NEW t, Shaped(t, m), NEW i \in 0..(End(m) - 1)
  PROVE  EntryAt(t[i], m, i)
<1>1. i \in 0..End(m)
  BY ShapedFacts
<1>2. IsName(m, i) => t[i].ivalue = 0
  BY <1>1 DEF Shaped
<1> QED
  BY <1>2, ShapedFacts DEF EntryAt

\* A field of a table is filled.
Put(u, t, i, e) == u = [t EXCEPT ![i] = e]
Filled(u, t, m, i, e) ==
  /\ Shaped(u, m) /\ u[i] = e
  /\ \A j \in 0..End(m) : j # i => u[j] = t[j]

LEMMA PutShaped ==
  ASSUME NEW m \in Packets, NEW t, Shaped(t, m), NEW i \in 0..(End(m) - 1),
         NEW e, EntryAt(e, m, i), NEW u, Put(u, t, i, e)
  PROVE  Filled(u, t, m, i, e)
<1>1. PICK L \in {9, 10, 13} : L = End(m)
  BY DEF End, Packets
<1>2. t \in [0..End(m) -> Entry] /\ i \in 0..End(m) /\ i # End(m)
  BY <1>1 DEF Shaped
<1>3. u \in [0..End(m) -> Entry] /\ u[i] = e /\ \A j \in 0..End(m) : j # i => u[j] = t[j]
  BY <1>2 DEF Put, EntryAt
<1>4. ASSUME NEW j \in 0..End(m)
      PROVE  /\ u[j].type = TypeAt(m, j) /\ u[j].count = CountAt(m, j)
             /\ u[j].data = NoData <=> ~IsName(m, j)
             /\ j = End(m) \/ IsName(m, j) => u[j].ivalue = 0
  <2>1. CASE j = i
    BY <1>2, <1>3, <2>1 DEF EntryAt
  <2>2. CASE j # i
    BY <1>3, <2>2 DEF Shaped
  <2> QED
    BY <2>1, <2>2
<1>5. Shaped(u, m)
  BY <1>3, <1>4 DEF Shaped
<1> QED
  BY <1>3, <1>5 DEF Filled

LEMMA AlikeNext ==
  ASSUME NEW m \in Packets, NEW i \in 0..(End(m) - 1), NEW t, NEW f, Alike(t, f, i),
         NEW u, Filled(u, t, m, i, f[i])
  PROVE  Alike(u, f, i + 1)
<1>1. PICK L \in {9, 10, 13} : L = End(m)
  BY DEF End, Packets
<1>2. \A j \in 0..((i + 1) - 1) : j = i \/ (j \in 0..(i - 1) /\ j # i /\ j \in 0..End(m))
  BY <1>1
<1> QED
  BY <1>2 DEF Alike, Filled

\* Both marks read as they were written, whichever end they are read from.
LEMMA MarkReads ==
  ASSUME NEW k \in 1..2, NEW s, Holds(s, 0, Digits(k * HEAD_MARK, 4))
  PROVE  ~MarkFails(s, k * HEAD_MARK)
<1>1. PICK v \in Nat : v = k * HEAD_MARK /\ Fits(v, 4) /\ Digits(v, 4) = <<k, k, k, k>>
  BY MarkDigits DEF Fits
<1>2. PICK d \in Seq(Byte) : d = Digits(v, 4) /\ Len(d) = 4
  BY <1>1, DigitsType
<1>3. SubSeq(s, 0 + 1, 0 + Len(d)) = d
  BY <1>1, <1>2, PartIs
<1>4. SubSeq(s, 1, 4) = d
  BY <1>2, <1>3
<1>5. Loaded(d, Receiver(msg)) = d
  BY <1>1, <1>2, MarkReversed DEF Loaded
<1>6. Unsigned(d) = v
  <2>1. v < Pow[4]
    <3>1. Pow[4] \in Nat
      <4>1. PICK w \in 0..8 : w = 4
        OBVIOUS
      <4>2. Pow[w] \in Nat
        BY PowFacts
      <4> QED
        BY <4>1, <4>2
    <3>2. 2 * v < Pow[4]
      BY <1>1 DEF Fits
    <3> QED
      BY <3>1, <3>2
  <2> QED
    BY <1>2, <2>1, UnsignedDigits
<1> QED
  BY <1>1, <1>4, <1>5, <1>6 DEF MarkFails

\* The parts of the stream that the receiver parses.
LEMMA Parts ==
  ASSUME PacketInv, msg # "none" \/ at # "end", at # "write"
  PROVE  /\ HeaderPart = SubSeq(out, 1, 32) /\ HeaderPart \in Seq(Byte) /\ Len(HeaderPart) = 32
         /\ out \in Seq(Byte) /\ Len(out) = At(msg, Names, End(msg)) /\ 32 <= Len(out)
         /\ Laid(out, fields, msg, Names, End(msg))
         /\ at \in {"body", "end"} =>
              /\ BodyPart = SubSeq(out, 33, Len(out)) /\ BodyPart \in Seq(Byte)
              /\ Len(BodyPart) = Len(out) - 32
<1>0. PICK nm : nm = Names
  OBVIOUS
<1>1. PICK m \in Packets : m = msg
  BY Started
<1>2. /\ NamesOK(nm) /\ Sending(m, nm, End(m), fields, out, bodyBase)
      /\ Receiving(m, nm, at, n, pos, ret, header, robj, fields)
  BY <1>0, <1>1, Started
<1>3. PICK L \in {9, 10, 13} : L = End(m)
  BY DEF End, Packets
<1>4. /\ Full(fields, m, nm) /\ Laid(out, fields, m, nm, End(m))
      /\ out \in Seq(Byte) /\ Len(out) = At(m, nm, End(m))
  BY <1>2 DEF Sending, Laid
<1>5. PICK l \in Nat : l = Len(out) /\ l <= Len(out) /\ 32 <= l
  <2>1. 7 \in 0..End(m) /\ End(m) \in 0..End(m)
    BY <1>3
  <2>2. At(m, nm, 7) = 32 /\ At(m, nm, 7) <= At(m, nm, End(m)) /\ At(m, nm, End(m)) \in Nat
    BY <1>2, <2>1, AtOrder
  <2> QED
    BY <1>4, <2>2
<1>6. HeaderSize(header) = 32
  <2>1. Shaped(header, "DISCONNECT") /\ "DISCONNECT" \in Packets
    BY <1>2 DEF Receiving, Packets
  <2> QED
    BY <2>1, HeaderIs
<1>7. HeaderPart = SubSeq(out, 1, 32)
  BY <1>6 DEF HeaderPart
<1>8. HeaderPart \in Seq(Byte) /\ Len(HeaderPart) = 32
  <2>1. PICK o \in Nat \ {0}, h \in Nat : o = 1 /\ h = 32 /\ h <= Len(out)
    BY <1>5
  <2>2. PICK s \in Seq(Byte) : s = out /\ h <= Len(s)
    BY <1>4, <2>1
  <2>3. /\ SubSeq(s, o, h) \in Seq(Byte)
        /\ Len(SubSeq(s, o, h)) = IF o <= h THEN (h - o) + 1 ELSE 0
    BY <2>2, PartOf
  <2> QED
    BY <1>7, <2>1, <2>2, <2>3
<1>9. ASSUME at \in {"body", "end"}
      PROVE  /\ BodyPart = SubSeq(out, 33, Len(out)) /\ BodyPart \in Seq(Byte)
             /\ Len(BodyPart) = Len(out) - 32
  <2>1. header[FIELD_BSIZE].ivalue = l - 32
    <3>1. Alike(header, fields, 7)
      BY <1>2, <1>9 DEF Receiving
    <3>2. header[2] = fields[2]
      BY <3>1 DEF Alike
    <3>3. fields[2].ivalue = At(m, nm, End(m)) - 32
      BY <1>4 DEF Full, FIELD_BSIZE
    <3> QED
      BY <1>4, <1>5, <3>2, <3>3 DEF FIELD_BSIZE
  <2>2. PICK x \in Nat \ {0} : x = 33 /\ 32 + 1 = x /\ 32 + (l - 32) = l
    BY <1>5
  <2>3. BodyPart = SubSeq(out, x, l)
    BY <1>6, <2>1, <2>2 DEF BodyPart
  <2>4. /\ SubSeq(out, x, l) \in Seq(Byte)
        /\ Len(SubSeq(out, x, l)) = IF x <= l THEN (l - x) + 1 ELSE 0
    BY <1>4, <1>5, <2>2, PartOf
  <2>5. PICK b \in Seq(Byte) : b = BodyPart /\ Len(b) = IF x <= l THEN (l - x) + 1 ELSE 0
    BY <2>3, <2>4
  <2>6. Len(b) = l - 32
    <3>1. (IF x <= l THEN (l - x) + 1 ELSE 0) = l - 32
      <4>1. l \in Nat /\ 32 <= l /\ x = 33
        BY <1>5, <2>2
      <4> QED
        BY <4>1
    <3> QED
      BY <2>5, <3>1
  <2> QED
    BY <1>5, <2>2, <2>3, <2>5, <2>6
<1> QED
  BY <1>0, <1>1, <1>4, <1>5, <1>7, <1>8, <1>9

\* A field of the header is read back as it was sent, and lies in its part.
LEMMA HeaderReads ==
  ASSUME PacketInv, at = "head", NEW e
  PROVE  /\ ReadBack(header, fields, msg, n, HeaderPart, e)
         /\ Holds(HeaderPart, pos, Chunk(fields, msg, n))
         /\ Taken(header, n) = 4 \/ (n = FIELD_HCRC /\ Taken(header, n) = 8)
         /\ pos = 4 * n /\ n \in 0..FIELD_HCRC
<1>0. PICK nm : nm = Names
  OBVIOUS
<1>1. PICK m \in Packets : m = msg
  BY Started
<1>2. /\ NamesOK(nm) /\ Sending(m, nm, End(m), fields, out, bodyBase)
      /\ Receiving(m, nm, "head", n, pos, ret, header, robj, fields)
  BY <1>0, <1>1, Started
<1>3. PICK L \in {9, 10, 13} : L = End(m)
  BY DEF End, Packets
<1>4. Full(fields, m, nm) /\ Laid(out, fields, m, nm, End(m))
  BY <1>2 DEF Sending
<1>5. PICK i \in 0..6 : i = n
  BY <1>2 DEF Receiving, FIELD_HCRC
<1>6. /\ pos = At(m, nm, n) /\ At(m, nm, n) = 4 * i /\ pos \in Nat /\ pos = 4 * i
  <2>1. At(m, nm, i) = 4 * i
    BY AtHeader
  <2> QED
    BY <1>2, <1>5, <2>1 DEF Receiving
<1>7. Shaped(header, "DISCONNECT") /\ "DISCONNECT" \in Packets
  BY <1>2 DEF Receiving, Packets
<1>8. /\ EntryAt(header[n], m, n) /\ i \in 0..(End(m) - 1) /\ n \in DOMAIN header
      /\ ~IsName(m, n)
  <2>1. i \in 0..7 /\ i \in 0..9
    OBVIOUS
  <2>2. EntryAt(header[i], m, i) /\ i \in 0..(End(m) - 1)
    BY <1>7, <2>1, HeaderEntry
  <2>3. DOMAIN header = 0..9
    BY <1>7 DEF Shaped, End
  <2> QED
    BY <1>5, <2>1, <2>2, <2>3 DEF IsName
<1>9. Holds(HeaderPart, pos, Chunk(fields, m, n))
  <2>1. HeaderPart = SubSeq(out, 1, 32) /\ 32 <= Len(out)
    BY Parts
  <2>2. PICK a \in Nat, b \in Nat : a = 0 /\ b = 32 /\ b <= Len(out)
    BY <2>1
  <2>3. At(m, nm, i + 1) <= b
    <3>1. i + 1 \in 0..7 /\ 7 \in 0..End(m)
      BY <1>3
    <3>2. At(m, nm, i + 1) <= At(m, nm, 7) /\ At(m, nm, 7) = 32
      BY <1>2, <3>1, AtOrder
    <3> QED
      BY <2>2, <3>2
  <2>4. a <= At(m, nm, i)
    BY <1>5, <1>6, <2>2
  <2>5. Holds(SubSeq(out, a + 1, b), At(m, nm, i) - a, Chunk(fields, m, i))
    BY <1>2, <1>4, <1>8, <2>2, <2>3, <2>4, PartHolds
  <2>6. a + 1 = 1 /\ At(m, nm, i) - a = pos
    BY <1>5, <1>6, <2>2
  <2> QED
    BY <1>5, <2>1, <2>2, <2>5, <2>6
<1>10. ReadBack(header, fields, m, n, HeaderPart, e)
  BY <1>2, <1>4, <1>5, <1>8, <1>9, ParsedIs
<1>11. Taken(header, n) = 4 \/ (n = FIELD_HCRC /\ Taken(header, n) = 8)
  <2>1. Taken(header, n) = Width[header[n].type] /\ header[n].type = TypeAt(m, n)
    BY <1>8 DEF Taken, EntryAt
  <2>2. TypeAt(m, n) = IF n = 6 THEN TYPE_LONGLONG ELSE TYPE_LONG
    <3>1. i # End(m) /\ i # End(m) - 1 /\ i <= 7
      BY <1>3
    <3> QED
      BY <1>5, <1>8, <3>1 DEF TypeAt, FIELD_HCRC, FIELD_BMARK
  <2> QED
    BY <2>1, <2>2, WidthFacts DEF FIELD_HCRC
<1> QED
  BY <1>1, <1>5, <1>6, <1>9, <1>10, <1>11 DEF FIELD_HCRC

LEMMA HeaderFieldParsed ==
  ASSUME PacketInv, UnserializeHeaderField
  PROVE  PacketInv'
<1>0. at = "head" /\ UNCHANGED <<little, host, path, msg, fields, out, bodyBase>>
  BY DEF UnserializeHeaderField
<1>1. PICK nm : nm = Names
  OBVIOUS
<1>2. PICK m \in Packets : m = msg
  BY <1>0, Started
<1>3. /\ EndsInv /\ NamesOK(nm) /\ Sending(m, nm, End(m), fields, out, bodyBase)
      /\ Receiving(m, nm, "head", n, pos, ret, header, robj, fields)
  BY <1>0, <1>1, <1>2, Started
<1>4. PICK e : e = Receiver(msg)
  OBVIOUS
<1>5. /\ ReadBack(header, fields, m, n, HeaderPart, e)
      /\ Holds(HeaderPart, pos, Chunk(fields, m, n))
      /\ Taken(header, n) = 4 \/ (n = FIELD_HCRC /\ Taken(header, n) = 8)
      /\ pos = 4 * n /\ n \in 0..FIELD_HCRC
  BY <1>0, <1>2, HeaderReads
<1>h. PICK h : h = header'
  OBVIOUS
<1>6. PICK i \in 0..6 : h = header' /\ i = n
  BY <1>5, <1>h DEF FIELD_HCRC
<1>7. Put(h, header, i, fields[i])
  BY <1>0, <1>4, <1>5, <1>6 DEF Put, ReadBack, UnserializeHeaderField
<1>8. /\ Shaped(header, "DISCONNECT") /\ Shaped(robj, m) /\ Alike(header, fields, i) /\ ret = "none"
      /\ Full(fields, m, nm) /\ Shaped(fields, m)
  BY <1>3, <1>6 DEF Receiving, Sending, Full
<1>9. PICK d \in Packets : d = "DISCONNECT" /\ End(d) = 9
  BY DEF Packets, End
<1>10. i \in 0..7 /\ i \in 0..(End(d) - 1)
  BY <1>9
<1>11. Filled(h, header, d, i, fields[i])
  <2>1. EntryAt(fields[i], d, i)
    BY <1>8, <1>10, HeaderEntry
  <2> QED
    BY <1>7, <1>8, <1>9, <1>10, <2>1, PutShaped
<1>12. Alike(h, fields, i + 1)
  BY <1>8, <1>10, <1>11, AlikeNext
<1>13. Shaped(h, "DISCONNECT") /\ h[i] = fields[i]
  BY <1>9, <1>11 DEF Filled
<1>14. n = FIELD_HMARK => ~MarkFails(HeaderPart, HEAD_MARK) /\ h[n].ivalue = HEAD_MARK
  <2> SUFFICES ASSUME n = FIELD_HMARK
               PROVE  ~MarkFails(HeaderPart, HEAD_MARK) /\ h[n].ivalue = HEAD_MARK
    OBVIOUS
  <2>1. i = 0 /\ pos = 0
    BY <1>5, <1>6 DEF FIELD_HMARK
  <2>2. fields[0].ivalue = HEAD_MARK
    BY <1>8 DEF Full, FIELD_HMARK
  <2>3. Chunk(fields, m, 0) = Digits(1 * HEAD_MARK, 4)
    <3>1. ~IsName(m, 0) /\ TypeAt(m, 0) = TYPE_LONG
      BY DEF IsName, TypeAt, End, FIELD_HCRC, FIELD_BMARK
    <3>2. 1 * HEAD_MARK = HEAD_MARK
      BY MarksInt
    <3> QED
      BY <2>2, <3>1, <3>2, WidthFacts DEF Chunk
  <2>4. PICK one \in 1..2 : one = 1
    OBVIOUS
  <2>5. Holds(HeaderPart, 0, Digits(one * HEAD_MARK, 4))
    BY <1>5, <1>6, <2>1, <2>3, <2>4
  <2>6. ~MarkFails(HeaderPart, one * HEAD_MARK)
    BY <2>5, MarkReads
  <2>7. one * HEAD_MARK = HEAD_MARK
    BY <2>4, MarksInt
  <2> QED
    BY <1>6, <1>13, <2>1, <2>2, <2>6, <2>7
<1>15. n = FIELD_HCRC => h[n].ivalue = Crc(SubSeq(HeaderPart, 1, pos))
  <2> SUFFICES ASSUME n = FIELD_HCRC
               PROVE  h[n].ivalue = Crc(SubSeq(HeaderPart, 1, pos))
    OBVIOUS
  <2>1. i = 6 /\ pos = 24
    BY <1>5, <1>6 DEF FIELD_HCRC
  <2>2. fields[6].ivalue = Crc(SubSeq(out, 1, 24))
    <3>1. End(m) > 6
      BY DEF End, Packets
    <3> QED
      BY <1>3, <3>1 DEF Sending, FIELD_HCRC
  <2>3. HeaderPart = SubSeq(out, 1, 32) /\ out \in Seq(Byte) /\ 32 <= Len(out)
    BY <1>0, Parts
  <2>4. SubSeq(SubSeq(out, 1, 32), 1, 24) = SubSeq(out, 1, 24)
    <3>1. PICK a \in Nat, b \in Nat, c \in Nat : /\ a = 0 /\ b = 32 /\ c = 24
                                                 /\ a + c <= b /\ b <= Len(out)
                                                 /\ a + 1 = 1 /\ a + c = 24
      BY <2>3
    <3>2. SubSeq(SubSeq(out, a + 1, b), 1, c) = SubSeq(out, a + 1, a + c)
      BY <2>3, <3>1, PartOfPart
    <3> QED
      BY <3>1, <3>2
  <2> QED
    BY <1>6, <1>13, <2>1, <2>2, <2>3, <2>4
<1>m. ~(n < FIELD_HCRC) => h[FIELD_METHOD].ivalue = robj[FIELD_METHOD].ivalue
  <2> SUFFICES ASSUME ~(n < FIELD_HCRC)
               PROVE  h[FIELD_METHOD].ivalue = robj[FIELD_METHOD].ivalue
    OBVIOUS
  <2>1. 1 \in 0..((i + 1) - 1)
    BY <1>6 DEF FIELD_HCRC
  <2>2. h[1] = fields[1]
    BY <1>12, <2>1 DEF Alike
  <2> QED
    BY <1>3, <2>2 DEF Receiving, FIELD_METHOD
<1>16. IF n < FIELD_HCRC
       THEN n' = n + 1 /\ pos' = pos + Taken(header, n) /\ UNCHANGED <<at, robj, ret>>
       ELSE /\ at' = "body" /\ n' = FIELD_BMARK /\ pos' = 0
            /\ robj' = CopyFields(robj, h)
            /\ UNCHANGED ret
  BY <1>6, <1>14, <1>15, <1>m DEF UnserializeHeaderField
<1>17. EndsInv' /\ Names' = nm /\ msg' = m
  BY <1>0, <1>1, <1>2, <1>3 DEF EndsInv, Names, ProcessName
<1>18. CASE n < FIELD_HCRC
  <2>1. at' = "head" /\ n' = i + 1 /\ pos' = pos + 4 /\ robj' = robj /\ ret' = "none"
    BY <1>0, <1>5, <1>6, <1>8, <1>16, <1>18 DEF FIELD_HCRC
  <2>2. pos' = At(m, nm, i + 1) /\ i + 1 \in 0..6
    <3>1. i + 1 \in 0..6
      BY <1>6, <1>18 DEF FIELD_HCRC
    <3>2. At(m, nm, i + 1) = 4 * (i + 1)
      BY <3>1, AtHeader
    <3> QED
      BY <1>5, <1>6, <2>1, <3>1, <3>2
  <2>3. Receiving(m, nm, "head", n', pos', ret', h, robj', fields)
    BY <1>3, <1>8, <1>12, <1>13, <2>1, <2>2 DEF Receiving, FIELD_HCRC
  <2>4. Underway'
    BY <1>0, <1>3, <1>6, <1>17, <2>1, <2>3 DEF Underway
  <2> QED
    BY <1>17, <2>4 DEF PacketInv
<1>19. CASE ~(n < FIELD_HCRC)
  <2>1. i = 6
    BY <1>5, <1>6, <1>19 DEF FIELD_HCRC
  <2>2. at' = "body" /\ n' = 7 /\ pos' = 0 /\ robj' = CopyFields(robj, h) /\ ret' = "none"
    BY <1>8, <1>16, <1>19 DEF FIELD_BMARK
  <2>3. PICK o : o = robj'
    OBVIOUS
  <2>4. Alike(h, fields, 7)
    BY <1>12, <2>1
  <2>5. \A j \in 0..6 : h[j] = fields[j]
    BY <2>4 DEF Alike
  <2>6. \A j \in 0..6 : h[j].type > 0 /\ EntryAt(fields[j], m, j)
    <3> TAKE j \in 0..6
    <3>1. j \in 0..7
      OBVIOUS
    <3>2. h[j].type > 0
      BY <1>9, <1>13, <3>1, HeaderEntry
    <3>3. EntryAt(fields[j], m, j)
      BY <1>8, <3>1, HeaderEntry
    <3> QED
      BY <3>2, <3>3
  <2>7. PICK L \in {9, 10, 13} : L = End(m)
    BY DEF End, Packets
  <2>8. DOMAIN robj = 0..L /\ robj \in [0..L -> Entry]
    BY <1>8, <2>7 DEF Shaped
  <2>9. o = [j \in 0..L |-> IF j <= 6 THEN fields[j] ELSE robj[j]]
    <3>1. o = [j \in 0..L |-> IF j <= 6 /\ (\A q \in 0..j : h[q].type > 0) THEN h[j] ELSE robj[j]]
      BY <2>2, <2>3, <2>8 DEF CopyFields, FIELD_HCRC
    <3>2. \A j \in 0..L : j <= 6 => (\A q \in 0..j : h[q].type > 0) /\ h[j] = fields[j]
      BY <2>5, <2>6
    <3> QED
      BY <3>1, <3>2
  <2>10. Shaped(o, m)
    <3>1. ASSUME NEW j \in 0..L
          PROVE  /\ o[j] \in Entry /\ o[j].type = TypeAt(m, j) /\ o[j].count = CountAt(m, j)
                 /\ o[j].data = NoData <=> ~IsName(m, j)
                 /\ j = L \/ IsName(m, j) => o[j].ivalue = 0
      <4>1. CASE j <= 6
        <5>1. o[j] = fields[j] /\ j \in 0..6 /\ j # L
          BY <2>9, <4>1
        <5>2. EntryAt(o[j], m, j)
          BY <2>6, <5>1
        <5> QED
          BY <5>1, <5>2 DEF EntryAt
      <4>2. CASE ~(j <= 6)
        <5>1. o[j] = robj[j] /\ robj[j] \in Entry
          BY <2>8, <2>9, <4>2
        <5> QED
          BY <1>8, <2>7, <5>1 DEF Shaped
      <4> QED
        BY <4>1, <4>2
    <3>2. o \in [0..L -> Entry]
      BY <2>9, <3>1
    <3> QED
      BY <2>7, <3>1, <3>2 DEF Shaped
  <2>11. Alike(o, fields, 7)
    <3>1. \A j \in 0..(7 - 1) : j \in 0..L /\ j <= 6
      OBVIOUS
    <3> QED
      BY <2>9, <3>1 DEF Alike
  <2>12. At(m, nm, 7) - 32 = 0 /\ 7 \in FIELD_BMARK..End(m)
    BY <2>7, AtBody DEF FIELD_BMARK
  <2>13. Receiving(m, nm, "body", 7, 0, "none", h, o, fields)
    BY <1>13, <2>4, <2>10, <2>11, <2>12 DEF Receiving
  <2>14. Underway'
    BY <1>0, <1>3, <1>6, <1>17, <2>2, <2>3, <2>13 DEF Underway
  <2> QED
    BY <1>17, <2>14 DEF PacketInv
<1> QED
  BY <1>18, <1>19

\* A field of the body is read back as it was sent, and lies in its part.
LEMMA BodyReads ==
  ASSUME PacketInv, at = "body", robj[n].type >= 0, NEW e
  PROVE  /\ ReadBack(robj, fields, msg, n, BodyPart, e)
         /\ Holds(BodyPart, pos, Chunk(fields, msg, n))
         /\ Taken(robj, n) = SizeAt(msg, Names, n)
         /\ n \in 7..(End(msg) - 1) /\ pos = At(msg, Names, n) - 32
<1>0. PICK nm : nm = Names
  OBVIOUS
<1>1. PICK m \in Packets : m = msg
  BY Started
<1>2. /\ NamesOK(nm) /\ Sending(m, nm, End(m), fields, out, bodyBase)
      /\ Receiving(m, nm, "body", n, pos, ret, header, robj, fields)
  BY <1>0, <1>1, Started
<1>3. PICK L \in {9, 10, 13} : L = End(m)
  BY DEF End, Packets
<1>4. Full(fields, m, nm) /\ Laid(out, fields, m, nm, End(m))
  BY <1>2 DEF Sending
<1>5. /\ Shaped(robj, m) /\ n \in 7..End(m) /\ pos = At(m, nm, n) - 32 /\ Alike(robj, fields, n)
  BY <1>2 DEF Receiving, FIELD_BMARK
<1>6. PICK i \in 0..(End(m) - 1) : i = n
  <2>1. n \in 0..End(m)
    BY <1>3, <1>5
  <2>2. n \in 0..(End(m) - 1)
    BY <1>5, <2>1, NoTerminator
  <2> QED
    BY <2>2
<1>7. /\ i \in 7..(L - 1) /\ n \in 7..(End(m) - 1) /\ i \in 0..End(m) /\ i + 1 \in 0..End(m)
      /\ i \in 0..(i + 1) /\ i + 1 \in 0..L
  BY <1>3, <1>5, <1>6
<1>8. EntryAt(robj[i], m, i) /\ i \in DOMAIN robj
  BY <1>5, <1>7, FullEntry DEF Shaped
<1>9. IsName(m, i) => robj[i - 1] = fields[i - 1]
  <2>1. i - 1 \in 0..(i - 1)
    BY <1>7
  <2> QED
    BY <1>5, <1>6, <2>1 DEF Alike
<1>10. PICK p \in Nat, q \in Nat, l \in Nat :
         /\ p = At(m, nm, i) /\ q = At(m, nm, i + 1) /\ 32 <= p
         /\ l = Len(out) /\ l <= Len(out) /\ q <= l
  <2>1. 7 \in 0..i
    BY <1>7
  <2>2. At(m, nm, 7) = 32 /\ At(m, nm, 7) <= At(m, nm, i) /\ At(m, nm, i) \in Nat
    BY <1>2, <1>7, <2>1, AtOrder
  <2>3. End(m) \in 0..End(m) /\ i + 1 \in 0..End(m)
    BY <1>3, <1>7
  <2>4. /\ At(m, nm, i + 1) <= At(m, nm, End(m))
        /\ At(m, nm, End(m)) \in Nat /\ At(m, nm, i + 1) \in Nat
    BY <1>2, <2>3, AtOrder
  <2>5. Len(out) = At(m, nm, End(m))
    BY <1>4 DEF Laid
  <2> QED
    BY <2>2, <2>4, <2>5
<1>11. Holds(BodyPart, pos, Chunk(fields, m, i))
  <2>1. PICK a \in Nat : a = 32 /\ a + 1 = 33
    OBVIOUS
  <2>2. a <= At(m, nm, i) /\ At(m, nm, i + 1) <= l
    BY <1>10, <2>1
  <2>3. Holds(SubSeq(out, a + 1, l), At(m, nm, i) - a, Chunk(fields, m, i))
    BY <1>2, <1>4, <1>10, <2>2, PartHolds
  <2>4. BodyPart = SubSeq(out, 33, Len(out))
    BY Parts
  <2> QED
    BY <1>5, <1>6, <1>10, <2>1, <2>3, <2>4
<1>12. ReadBack(robj, fields, m, i, BodyPart, e)
  BY <1>2, <1>4, <1>8, <1>9, <1>11, ParsedIs
<1>13. Taken(robj, i) = SizeAt(m, nm, i)
  <2>1. Taken(robj, i) = Len(Chunk(fields, m, i))
    BY <1>12 DEF ReadBack
  <2>2. Len(Chunk(fields, m, i)) = SizeAt(m, nm, i)
    BY <1>2, <1>4, ChunkIs
  <2> QED
    BY <2>1, <2>2
<1> QED
  BY <1>0, <1>1, <1>5, <1>6, <1>7, <1>11, <1>12, <1>13

LEMMA BodyFieldParsed ==
  ASSUME PacketInv, UnserializeBodyField
  PROVE  PacketInv'
<1>0. /\ at = "body" /\ robj[n].type >= 0
      /\ UNCHANGED <<little, host, path, msg, fields, out, bodyBase, header>>
  BY DEF UnserializeBodyField
<1>1. PICK nm : nm = Names
  OBVIOUS
<1>2. PICK m \in Packets : m = msg
  BY <1>0, Started
<1>3. /\ EndsInv /\ NamesOK(nm) /\ Sending(m, nm, End(m), fields, out, bodyBase)
      /\ Receiving(m, nm, "body", n, pos, ret, header, robj, fields)
  BY <1>0, <1>1, <1>2, Started
<1>4. PICK e : e = Receiver(msg)
  OBVIOUS
<1>5. /\ ReadBack(robj, fields, m, n, BodyPart, e)
      /\ Holds(BodyPart, pos, Chunk(fields, m, n))
      /\ Taken(robj, n) = SizeAt(m, nm, n)
      /\ n \in 7..(End(m) - 1) /\ pos = At(m, nm, n) - 32
  BY <1>0, <1>1, <1>2, BodyReads
<1>l. PICK L \in {9, 10, 13} : L = End(m)
  BY DEF End, Packets
<1>6. PICK i \in 0..(End(m) - 1) : i = n /\ i \in 7..(L - 1)
  <2>1. n \in 0..(End(m) - 1) /\ n \in 7..(L - 1)
    BY <1>5, <1>l
  <2> QED
    BY <2>1
<1>o. PICK o : o = robj'
  OBVIOUS
<1>7. Put(o, robj, i, fields[i])
  BY <1>0, <1>4, <1>5, <1>6, <1>o DEF Put, ReadBack, UnserializeBodyField
<1>8. /\ Shaped(header, "DISCONNECT") /\ Shaped(robj, m) /\ Alike(header, fields, 7)
      /\ Alike(robj, fields, i) /\ ret = "none"
      /\ Full(fields, m, nm) /\ Shaped(fields, m)
  BY <1>3, <1>6 DEF Receiving, Sending, Full
<1>9. Filled(o, robj, m, i, fields[i])
  <2>1. EntryAt(fields[i], m, i)
    BY <1>8, FullEntry
  <2> QED
    BY <1>7, <1>8, <2>1, PutShaped
<1>10. Alike(o, fields, i + 1)
  BY <1>8, <1>9, AlikeNext
<1>11. Shaped(o, m) /\ o[i] = fields[i]
  BY <1>9 DEF Filled
<1>12. n = FIELD_BMARK => ~MarkFails(BodyPart, BODY_MARK)
  <2> SUFFICES ASSUME n = FIELD_BMARK
               PROVE  ~MarkFails(BodyPart, BODY_MARK)
    OBVIOUS
  <2>1. i = 7 /\ pos = 0
    <3>1. i = 7
      BY <1>6 DEF FIELD_BMARK
    <3>2. At(m, nm, 7) = 32
      BY AtBody
    <3> QED
      BY <1>5, <1>6, <3>1, <3>2
  <2>2. fields[7].ivalue = BODY_MARK
    BY <1>8 DEF Full, FIELD_BMARK
  <2>3. Chunk(fields, m, 7) = Digits(2 * HEAD_MARK, 4)
    <3>1. ~IsName(m, 7) /\ TypeAt(m, 7) = TYPE_LONG
      <4>1. 7 # L /\ 7 # L - 1
        OBVIOUS
      <4> QED
        BY <1>l, <4>1 DEF IsName, TypeAt, FIELD_HCRC, FIELD_BMARK
    <3>2. 2 * HEAD_MARK = BODY_MARK
      BY MarksInt
    <3> QED
      BY <2>2, <3>1, <3>2, WidthFacts DEF Chunk
  <2>4. PICK two \in 1..2 : two = 2
    OBVIOUS
  <2>5. Holds(BodyPart, 0, Digits(two * HEAD_MARK, 4))
    BY <1>5, <1>6, <2>1, <2>3, <2>4
  <2>6. ~MarkFails(BodyPart, two * HEAD_MARK)
    BY <2>5, MarkReads
  <2>7. two * HEAD_MARK = BODY_MARK
    BY <2>4, MarksInt
  <2> QED
    BY <2>6, <2>7
<1>13. n = FIELDS_LEN(robj) - 1 => o[n].ivalue = Crc(SubSeq(BodyPart, 1, pos))
  <2> SUFFICES ASSUME n = FIELDS_LEN(robj) - 1
               PROVE  o[n].ivalue = Crc(SubSeq(BodyPart, 1, pos))
    OBVIOUS
  <2>1. i = L - 1 /\ i = End(m) - 1
    BY <1>6, <1>8, <1>l, FieldsLen
  <2>2. fields[i].ivalue = Crc(SubSeq(out, 33, At(m, nm, i)))
    BY <1>3, <2>1 DEF Sending
  <2>3. /\ BodyPart = SubSeq(out, 33, Len(out)) /\ out \in Seq(Byte)
        /\ Len(out) = At(m, nm, End(m))
    BY <1>0, <1>1, <1>2, Parts
  <2>4. PICK a \in Nat, b \in Nat, c \in Nat :
          /\ a = 32 /\ b = Len(out) /\ c = pos /\ a + c <= b /\ b <= Len(out)
          /\ a + 1 = 33 /\ a + c = At(m, nm, i)
    <3>1. i \in 0..End(m) /\ End(m) \in 0..End(m) /\ 7 \in 0..i
      BY <1>6, <1>l
    <3>2. /\ At(m, nm, i) <= At(m, nm, End(m)) /\ At(m, nm, i) \in Nat /\ At(m, nm, End(m)) \in Nat
      BY <1>3, <3>1, AtOrder
    <3>3. At(m, nm, 7) <= At(m, nm, i) /\ At(m, nm, 7) = 32
      BY <1>3, <3>1, AtOrder
    <3>4. PICK p \in Nat, q \in Nat : p = At(m, nm, i) /\ q = At(m, nm, End(m)) /\ p <= q /\ 32 <= p
      BY <3>2, <3>3
    <3>5. Len(out) = q /\ pos = p - 32 /\ pos \in Nat /\ 32 + (p - 32) = p
      BY <1>5, <1>6, <2>3, <3>4
    <3> QED
      BY <3>4, <3>5
  <2>5. SubSeq(SubSeq(out, a + 1, b), 1, c) = SubSeq(out, a + 1, a + c)
    BY <2>3, <2>4, PartOfPart
  <2> QED
    BY <1>6, <1>11, <2>2, <2>3, <2>4, <2>5
<1>14. n' = n + 1 /\ pos' = pos + Taken(robj, n) /\ UNCHANGED <<at, ret>>
  BY <1>5, <1>12, <1>13, <1>o DEF UnserializeBodyField, ReadBack
<1>15. EndsInv' /\ Names' = nm /\ msg' = m
  BY <1>0, <1>1, <1>2, <1>3 DEF EndsInv, Names, ProcessName
<1>16. i + 1 \in FIELD_BMARK..End(m) /\ pos' = At(m, nm, i + 1) - 32
  <2>1. /\ At(m, nm, i) \in Nat /\ SizeAt(m, nm, i) \in Nat
        /\ At(m, nm, i + 1) = At(m, nm, i) + SizeAt(m, nm, i)
    BY <1>3, AtNext
  <2>2. i + 1 \in FIELD_BMARK..End(m)
    BY <1>6, <1>l DEF FIELD_BMARK
  <2> QED
    BY <1>5, <1>6, <1>14, <2>1, <2>2
<1>17. Receiving(m, nm, "body", i + 1, pos', ret, header, o, fields)
  BY <1>8, <1>10, <1>11, <1>16 DEF Receiving
<1>18. Underway'
  BY <1>0, <1>3, <1>6, <1>14, <1>15, <1>17, <1>o DEF Underway
<1> QED
  BY <1>15, <1>18 DEF PacketInv

LEMMA AllUnserialized ==
  ASSUME PacketInv, UnserializeEnds
  PROVE  PacketInv'
<1>0. /\ at = "body" /\ robj[n].type < 0 /\ at' = "end" /\ ret' = "ok"
      /\ UNCHANGED <<little, host, path, msg, n, fields, out, bodyBase, header, robj, pos>>
  BY DEF UnserializeEnds, Ends
<1>1. PICK nm : nm = Names
  OBVIOUS
<1>2. PICK m \in Packets : m = msg
  BY <1>0, Started
<1>3. /\ EndsInv /\ NamesOK(nm) /\ Sending(m, nm, End(m), fields, out, bodyBase)
      /\ Receiving(m, nm, "body", n, pos, ret, header, robj, fields)
  BY <1>0, <1>1, <1>2, Started
<1>4. PICK L \in {9, 10, 13} : L = End(m)
  BY DEF End, Packets
<1>5. /\ Shaped(header, "DISCONNECT") /\ Shaped(robj, m) /\ Alike(header, fields, 7)
      /\ Alike(robj, fields, n) /\ Shaped(fields, m) /\ pos = At(m, nm, n) - 32
      /\ n \in 7..End(m)
  BY <1>3 DEF Receiving, Sending, Full, FIELD_BMARK
<1>6. n = End(m)
  <2>1. n \in 0..End(m)
    BY <1>4, <1>5
  <2> QED
    BY <1>0, <1>5, <2>1, NoTerminator
<1>7. robj = fields
  <2>1. robj \in [0..L -> Entry] /\ fields \in [0..L -> Entry]
    BY <1>4, <1>5 DEF Shaped
  <2>2. robj[L] = fields[L]
    <3>1. PICK x \in Entry, y \in Entry : x = robj[L] /\ y = fields[L]
      BY <2>1
    <3>2. /\ x.type = y.type /\ x.count = y.count /\ x.ivalue = y.ivalue /\ x.data = y.data
      <4>1. L \in 0..End(m) /\ ~IsName(m, L)
        BY <1>4 DEF IsName, End, Packets
      <4>2. /\ x.type = TypeAt(m, L) /\ x.count = CountAt(m, L) /\ x.data = NoData /\ x.ivalue = 0
        BY <1>4, <1>5, <3>1, <4>1 DEF Shaped
      <4>3. /\ y.type = TypeAt(m, L) /\ y.count = CountAt(m, L) /\ y.data = NoData /\ y.ivalue = 0
        BY <1>4, <1>5, <3>1, <4>1 DEF Shaped
      <4> QED
        BY <4>2, <4>3
    <3>3. x = y
      BY <3>2 DEF Entry
    <3> QED
      BY <3>1, <3>3
  <2>3. \A j \in 0..L : robj[j] = fields[j]
    <3>1. \A j \in 0..(L - 1) : robj[j] = fields[j]
      BY <1>4, <1>5, <1>6 DEF Alike
    <3>2. \A j \in 0..L : j \in 0..(L - 1) \/ j = L
      OBVIOUS
    <3> QED
      BY <2>2, <3>1, <3>2
  <2> QED
    BY <2>1, <2>3
<1>8. Receiving(m, nm, "end", n, pos, "ok", header, robj, fields)
  BY <1>5, <1>6, <1>7 DEF Receiving
<1>9. EndsInv' /\ Names' = nm /\ msg' = m
  BY <1>0, <1>1, <1>2, <1>3 DEF EndsInv, Names, ProcessName
<1>10. Underway'
  BY <1>0, <1>3, <1>8, <1>9 DEF Underway
<1> QED
  BY <1>9, <1>10 DEF PacketInv

-----------------------------------------------------------------------------
(***************************************************************************)
(* The theorems                                                            *)
(***************************************************************************)
\* What a thread or the server does to a packet.
Steps == \/ UNCHANGED packetVars
         \/ \E m \in Packets : Starts(m)
         \/ SerializeEnds
         \/ FieldStep

LEMMA OnlySteps ==
  ASSUME [Next]_vars
  PROVE  Steps
<1>1. "CONNECT" \in Packets /\ "CONNECT_RESP" \in Packets /\ "DISCONNECT" \in Packets
  BY DEF Packets
<1>2. ASSUME NEW t \in Threads, ThreadStep(t)
      PROVE  Steps
  <2>1. CASE Call(t) \/ Lock(t) \/ ConnectThrows(t) \/ ConnectRefused(t) \/ RecvConnect(t)
             \/ RecvThrows(t) \/ DisconnectIdle(t) \/ DisconnectAgain(t)
    BY <2>1 DEF Call, Lock, ConnectThrows, ConnectRefused, RecvConnect, RecvThrows, DisconnectIdle,
                DisconnectAgain, Steps
  <2>2. CASE Connect(t) \/ Disconnect(t)
    BY <1>1, <2>2 DEF Connect, Disconnect, Steps
  <2>3. CASE SendConnect(t) \/ SendDisconnect(t) \/ ClientField(t)
    <3>1. UNCHANGED packetVars \/ SerializeEnds \/ FieldStep
      BY <2>3 DEF SendConnect, SendDisconnect, ClientField
    <3> QED
      BY <3>1 DEF Steps
  <2> QED
    BY <1>2, <2>1, <2>2, <2>3 DEF ThreadStep
<1>3. ASSUME ServerStep
      PROVE  Steps
  BY <1>1, <1>3 DEF ServerStep, ServerField, ServerAnswers, ServerSends, Steps
<1>4. ASSUME ServerEnds \/ UNCHANGED vars
      PROVE  Steps
  BY <1>4 DEF ServerEnds, vars, Steps
<1> QED
  BY <1>2, <1>3, <1>4 DEF Next

LEMMA PacketStutters ==
  ASSUME PacketInv, UNCHANGED packetVars
  PROVE  PacketInv'
<1>1. /\ msg' = msg /\ at' = at /\ n' = n /\ fields' = fields /\ out' = out /\ bodyBase' = bodyBase
      /\ header' = header /\ robj' = robj /\ pos' = pos /\ ret' = ret
      /\ little' = little /\ host' = host /\ path' = path
  BY DEF packetVars
<1>2. EndsInv' /\ Names' = Names
  BY <1>1 DEF PacketInv, EndsInv, Names, ProcessName
<1>3. CASE Idle
  BY <1>1, <1>2, <1>3 DEF Idle, PacketInv
<1>4. CASE Underway
  <2>1. Underway'
    BY <1>1, <1>2, <1>4 DEF Underway
  <2> QED
    BY <1>2, <2>1 DEF PacketInv
<1> QED
  BY <1>3, <1>4 DEF PacketInv

LEMMA PacketInitially ==
  ASSUME Init
  PROVE  PacketInv
<1>1. "DISCONNECT" \in Packets
  BY DEF Packets
<1>2. Shaped(MSG_COMMON_REQ_FIELDS(MSG_COMMON), "DISCONNECT")
  BY <1>1, IncomingShaped
<1> QED
  BY <1>2 DEF Init, PacketInit, PacketInv, EndsInv, Idle

LEMMA PacketKept ==
  ASSUME CrcIsLong, PacketInv, [Next]_vars
  PROVE  PacketInv'
BY OnlySteps, PacketStutters, PacketStarts, AllSerialized, FieldSerialized, HeaderFieldParsed,
   BodyFieldParsed, AllUnserialized DEF Steps, FieldStep

\* The invariant of the packets: between two steps of either end the stream holds the
\* fields already written as they were, and the reader the fields already read.
THEOREM PacketAlways ==
  ASSUME CrcIsLong
  PROVE  Spec => []PacketInv
<1>1. Init => PacketInv
  BY PacketInitially
<1>2. PacketInv /\ [Next]_vars => PacketInv'
  BY PacketKept
<1> QED
  BY <1>1, <1>2, PTL DEF Spec

LEMMA InvRoundTrip ==
  ASSUME PacketInv
  PROVE  RoundTrip
<1> SUFFICES ASSUME msg # "none", at = "end"
             PROVE  ret = "ok" /\ robj = fields
  BY DEF RoundTrip
<1> QED
  BY DEF PacketInv, Idle, Underway, Receiving

\* Whatever the names and the byte orders of the two ends: every packet comes back as
\* it was sent, and no check fails.
THEOREM PacketsComeBack ==
  ASSUME CrcIsLong
  PROVE  Spec => []RoundTrip
<1>1. PacketInv => RoundTrip
  BY InvRoundTrip
<1> QED
  BY <1>1, PacketAlways, PTL

LEMMA InvServerLearnsClient ==
  ASSUME PacketInv
  PROVE  ServerLearnsClient
<1> SUFFICES ASSUME msg = "CONNECT", at = "end"
             PROVE  /\ robj[9].data = Append(host, 0)
                    /\ Len(path) >= Len(Preset) => robj[11].data = Append(path, 0)
  BY DEF ServerLearnsClient
<1>1. /\ EndsInv /\ Sending(msg, Names, End(msg), fields, out, bodyBase)
      /\ Receiving(msg, Names, "end", n, pos, ret, header, robj, fields)
  BY Started
<1>2. robj = fields /\ Full(fields, msg, Names)
  BY <1>1 DEF Receiving, Sending
<1>3. IsName(msg, 9) /\ IsName(msg, 11) /\ 9 \in 0..(End(msg) - 1) /\ 11 \in 0..(End(msg) - 1)
  BY DEF IsName, End
<1>4. robj[9].data = Names[9] /\ robj[11].data = Names[11]
  BY <1>2, <1>3 DEF Full
<1>5. Names[9] = Append(host, 0) /\ Names[11] = Append(ProcessName, 0)
  BY <1>1, NamesFit
<1>6. ASSUME Len(path) >= Len(Preset)
      PROVE  ProcessName = path
  <2>1. PICK p \in Seq(Char), q \in Seq(Char) : p = path /\ q = Preset
    BY <1>1, ProtocolAssumption DEF EndsInv, Char
  <2>2. PICK a \in Nat \ {0}, b \in Nat : a = Len(p) + 1 /\ b = Len(q) /\ b <= Len(q) /\ a > b
    <3>1. Len(p) + 1 \in Nat \ {0} /\ Len(q) \in Nat /\ Len(p) + 1 > Len(q)
      BY <1>6, <2>1
    <3> QED
      BY <3>1
  <2>3. PICK r : r = SubSeq(q, a, b)
    OBVIOUS
  <2>4. r \in Seq(Char) /\ Len(r) = IF a <= b THEN (b - a) + 1 ELSE 0
    BY <2>2, <2>3, PartOf
  <2>5. Len(r) = 0
    BY <2>2, <2>4
  <2>6. r = <<>>
    BY <2>4, <2>5
  <2>7. p \o <<>> = p
    OBVIOUS
  <2> QED
    BY <2>1, <2>2, <2>3, <2>6, <2>7 DEF ProcessName
<1> QED
  BY <1>4, <1>5, <1>6

\* Whatever the host's name and the path of the program: the server is told them,
\* unless the path is shorter than the preset text.
THEOREM ServerIsTold ==
  ASSUME CrcIsLong
  PROVE  Spec => []ServerLearnsClient
<1>1. PacketInv => ServerLearnsClient
  BY InvServerLearnsClient
<1> QED
  BY <1>1, PacketAlways, PTL

\* Every number of a field fits its type.
LEMMA ShapedFields ==
  ASSUME NEW m \in Packets, NEW t, Shaped(t, m)
  PROVE  t \in [DOMAIN t -> Field]
<1>1. PICK L \in {9, 10, 13} : L = End(m)
  BY DEF End, Packets
<1>2. t \in [0..L -> Entry]
  BY <1>1 DEF Shaped
<1>3. ASSUME NEW i \in 0..L
      PROVE  t[i] \in Field
  <2>1. PICK x \in Entry : x = t[i]
    BY <1>2
  <2>2. x.type = TypeAt(m, i) /\ x.count = CountAt(m, i)
    BY <1>1, <2>1 DEF Shaped
  <2>3. TypeAt(m, i) \in -1..4 /\ CountAt(m, i) \in {-1, 0, 1}
    BY DEF TypeAt, CountAt, TYPE_CHAR, TYPE_SHORT, TYPE_LONG, TYPE_LONGLONG
  <2> QED
    BY <2>1, <2>2, <2>3 DEF Entry, Field, Byte, TYPE_LONGLONG
<1> QED
  BY <1>2, <1>3

LEMMA InvPacketTypeOK ==
  ASSUME PacketInv
  PROVE  PacketTypeOK
<1>1. CASE Idle
  <2>1. PICK m \in Packets : m = "DISCONNECT"
    BY DEF Packets
  <2>2. \A t \in {fields, header, robj} : t \in [DOMAIN t -> Field]
    BY <1>1, <2>1, ShapedFields DEF Idle
  <2>3. <<>> \in Seq(0..(Base - 1)) /\ 0 \in 0..Len(<<>>)
    OBVIOUS
  <2> QED
    BY <1>1, <2>2, <2>3 DEF Idle, PacketTypeOK
<1>2. CASE Underway
  <2>1. PICK m \in Packets : m = msg
    BY <1>2 DEF Underway
  <2>2. PICK k \in 0..End(m) : /\ k = (IF at = "write" THEN n ELSE End(m))
                               /\ Sending(m, Names, k, fields, out, bodyBase)
    BY <1>2, <2>1 DEF Underway, Sending
  <2>3. Receiving(m, Names, at, n, pos, ret, header, robj, fields) /\ NamesOK(Names)
    BY <1>2, <2>1, NamesFit DEF Underway, PacketInv
  <2>4. PICK L \in {9, 10, 13} : L = End(m)
    BY DEF End, Packets
  <2>5. \A t \in {fields, header, robj} : t \in [DOMAIN t -> Field]
    <3>1. PICK d \in Packets : d = "DISCONNECT"
      BY DEF Packets
    <3>2. Shaped(fields, m) /\ Shaped(header, d) /\ Shaped(robj, m)
      BY <2>2, <2>3, <3>1 DEF Sending, Full, Receiving
    <3> QED
      BY <3>2, ShapedFields
  <2>6. out \in Seq(Byte) /\ Len(out) = At(m, Names, k)
    BY <2>2 DEF Sending, Laid
  <2>7. bodyBase \in 0..Len(out)
    <3>1. bodyBase = IF k < 7 THEN 0 ELSE 32
      BY <2>2 DEF Sending, FIELD_BMARK
    <3>2. k >= 7 => 32 <= Len(out)
      <4>1. k >= 7 => 7 \in 0..k
        BY <2>4
      <4>2. k >= 7 => At(m, Names, 7) = 32 /\ At(m, Names, 7) <= At(m, Names, k)
        BY <2>3, <4>1, AtOrder
      <4> QED
        BY <2>6, <4>2
    <3> QED
      BY <2>4, <2>6, <3>1, <3>2
  <2>8. n \in Nat /\ pos \in Nat
    <3>1. CASE at = "write"
      BY <2>2, <2>3, <2>4, <3>1 DEF Receiving
    <3>2. CASE at = "head"
      <4>1. PICK i \in 0..6 : i = n /\ pos = At(m, Names, i)
        BY <2>3, <3>2 DEF Receiving, FIELD_HCRC
      <4>2. At(m, Names, i) = 4 * i
        BY AtHeader
      <4> QED
        BY <4>1, <4>2
    <3>3. CASE at \in {"body", "end"}
      <4>1. n \in 7..L /\ n \in 0..End(m) /\ pos = At(m, Names, n) - 32 /\ 7 \in 0..n
        BY <2>3, <2>4, <3>3 DEF Receiving, FIELD_BMARK
      <4>2. /\ At(m, Names, 7) = 32 /\ At(m, Names, 7) <= At(m, Names, n)
            /\ At(m, Names, n) \in Nat
        BY <2>3, <4>1, AtOrder
      <4> QED
        BY <4>1, <4>2
    <3> QED
      BY <1>2, <3>1, <3>2, <3>3 DEF Underway
  <2>9. ret \in {"none", "ok"}
    BY <1>2, <2>3 DEF Receiving, Underway
  <2> QED
    BY <1>2, <2>1, <2>5, <2>6, <2>7, <2>8, <2>9 DEF Underway, PacketTypeOK, Packets, Byte
<1> QED
  BY <1>1, <1>2 DEF PacketInv

\* The bytes a table takes are those fields_size counts.
LEMMA Room ==
  ASSUME NEW m \in Packets, NEW nm, NamesOK(nm), NEW t, Full(t, m, nm)
  PROVE  HeaderSize(t) + BodySize(t) = At(m, nm, End(m))
<1>1. Shaped(t, m) /\ \A i \in 0..(End(m) - 1) : IsName(m, i) => t[i - 1].ivalue = Len(nm[i])
  BY DEF Full
<1>2. HeaderSize(t) = 32 /\ BodySize(t) = At(m, nm, End(m)) - 32
  BY <1>1, HeaderIs, BodyIs
<1>3. At(m, nm, End(m)) \in Nat
  <2>1. End(m) \in 0..End(m)
    BY DEF End, Packets
  <2> QED
    BY <2>1, AtOrder
<1> QED
  BY <1>2, <1>3

LEMMA IdleRoom ==
  ASSUME EndsInv, NEW t, Shaped(t, "DISCONNECT")
  PROVE  HeaderSize(t) + BodySize(t) = 44
<1>1. PICK m \in Packets : m = "DISCONNECT" /\ End(m) = 9
  BY DEF Packets, End
<1>2. NamesOK(Names)
  BY NamesFit
<1>3. \A i \in 0..(End(m) - 1) : IsName(m, i) => t[i - 1].ivalue = Len(Names[i])
  BY <1>1 DEF IsName
<1>4. HeaderSize(t) = 32 /\ BodySize(t) = At(m, Names, End(m)) - 32
  BY <1>1, <1>2, <1>3, HeaderIs, BodyIs
<1>5. At(m, Names, End(m)) = 44
  BY <1>1, AtOther
<1> QED
  BY <1>4, <1>5

LEMMA InvStreamsFit ==
  ASSUME PacketInv
  PROVE  StreamsFit
<1> DEFINE room == HeaderSize(fields) + BodySize(fields)
<1>1. CASE Idle
  <2>1. room = 44
    BY <1>1, IdleRoom DEF Idle, PacketInv
  <2>2. Len(out) = 0
    BY <1>1 DEF Idle
  <2> QED
    BY <1>1, <2>1, <2>2 DEF Idle, StreamsFit
<1>2. CASE Underway
  <2>0. PICK nm : nm = Names
    OBVIOUS
  <2>1. PICK m \in Packets : m = msg
    BY <1>2 DEF Underway
  <2>2. PICK k \in 0..End(m) : /\ k = (IF at = "write" THEN n ELSE End(m))
                               /\ Sending(m, nm, k, fields, out, bodyBase)
    BY <1>2, <2>0, <2>1 DEF Underway, Sending
  <2>3. /\ Receiving(m, nm, at, n, pos, ret, header, robj, fields) /\ NamesOK(nm)
        /\ msg # "none" /\ at \in {"write", "head", "body", "end"}
    BY <1>2, <2>0, <2>1, NamesFit DEF Underway, PacketInv, Packets
  <2>4. PICK L \in {9, 10, 13} : L = End(m)
    BY DEF End, Packets
  <2>5. Full(fields, m, nm) /\ Len(out) = At(m, nm, k)
    BY <2>2 DEF Sending, Laid
  <2>6. room = At(m, nm, End(m))
    BY <2>3, <2>5, Room
  <2>7. PICK q \in Nat : q = At(m, nm, End(m)) /\ Len(out) <= q /\ 32 <= q
    <3>1. k \in 0..End(m) /\ End(m) \in 0..End(m) /\ 7 \in 0..End(m)
      BY <2>4
    <3>2. /\ At(m, nm, k) <= At(m, nm, End(m)) /\ At(m, nm, End(m)) \in Nat
          /\ At(m, nm, 7) <= At(m, nm, End(m)) /\ At(m, nm, 7) = 32
      BY <2>3, <3>1, AtOrder
    <3> QED
      BY <2>5, <3>2
  <2>8. at # "write" => Len(out) = room
    BY <2>2, <2>5, <2>6
  <2>9. ASSUME at = "head"
        PROVE  pos + Taken(header, n) <= Len(HeaderPart) /\ ~Underflows(header, n, HeaderPart)
    <3>1. PICK l \in Nat : l = Taken(header, n) /\ pos + l <= Len(HeaderPart) /\ pos \in Nat
      <4>1. Taken(header, n) = Len(Chunk(fields, msg, n)) /\ Taken(header, n) \in Nat
        BY <2>9, HeaderReads DEF ReadBack
      <4>2. pos + Len(Chunk(fields, msg, n)) <= Len(HeaderPart) /\ pos \in Nat
        BY <2>9, HeaderReads DEF Holds
      <4> QED
        BY <4>1, <4>2
    <3>2. Len(HeaderPart) = 32
      BY <2>3, <2>9, Parts
    <3> QED
      BY <2>9, <3>1, <3>2 DEF Underflows, StreamEnd
  <2>10. ASSUME at = "body", robj[n].type >= 0
         PROVE  pos + Taken(robj, n) <= Len(BodyPart) /\ ~Underflows(robj, n, BodyPart)
    <3>0. PICK i \in 0..(End(m) - 1) : i = n
      <4>1. n \in 7..(End(m) - 1)
        BY <2>1, <2>10, BodyReads
      <4>2. n \in 0..(End(m) - 1)
        BY <2>4, <4>1
      <4> QED
        BY <4>2
    <3>1. PICK l \in Nat : l = Taken(robj, n) /\ pos + l <= Len(BodyPart) /\ pos \in Nat
      <4>1. Taken(robj, n) = Len(Chunk(fields, msg, n)) /\ Taken(robj, n) = SizeAt(m, nm, i)
        BY <2>0, <2>1, <2>10, <3>0, BodyReads DEF ReadBack
      <4>2. pos + Len(Chunk(fields, msg, n)) <= Len(BodyPart) /\ pos \in Nat
        BY <2>10, BodyReads DEF Holds
      <4>3. SizeAt(m, nm, i) \in Nat
        BY <2>3, AtNext
      <4> QED
        BY <4>1, <4>2, <4>3
    <3>2. Len(BodyPart) = q - 32
      <4>1. Len(BodyPart) = Len(out) - 32 /\ Len(out) = At(msg, Names, End(msg))
        BY <2>3, <2>10, Parts
      <4> QED
        BY <2>0, <2>1, <2>7, <4>1
    <3>3. CASE Receiver(msg) = "client"
      <4>1. m = "CONNECT_RESP" /\ End(m) = 10
        BY <2>1, <3>3 DEF Receiver, End
      <4>2. q = 46
        BY <2>7, <4>1, AtOther
      <4>3. HeaderSize(header) = 32
        <5>1. Shaped(header, "DISCONNECT") /\ "DISCONNECT" \in Packets
          BY <2>3 DEF Receiving, Packets
        <5> QED
          BY <5>1, HeaderIs
      <4>4. StreamEnd(BodyPart) = 32
        BY <2>10, <3>3, <4>3 DEF StreamEnd
      <4>5. pos + l <= 14
        BY <3>1, <3>2, <4>2
      <4> QED
        BY <3>1, <4>4, <4>5 DEF Underflows
    <3>4. CASE Receiver(msg) # "client"
      <4>1. StreamEnd(BodyPart) = Len(BodyPart)
        BY <3>4 DEF StreamEnd
      <4> QED
        BY <2>7, <3>1, <3>2, <4>1 DEF Underflows
    <3> QED
      BY <3>3, <3>4
  <2>11. ASSUME ret = "ok"
         PROVE  pos = Len(BodyPart)
    <3>1. at = "end"
      BY <2>3, <2>11 DEF Receiving
    <3>2. pos = At(m, nm, End(m)) - 32
      BY <2>3, <3>1 DEF Receiving
    <3>3. Len(BodyPart) = Len(out) - 32 /\ Len(out) = At(msg, Names, End(msg))
      BY <2>3, <3>1, Parts
    <3> QED
      BY <2>0, <2>1, <3>2, <3>3
  <2>12. Len(out) <= room
    BY <2>6, <2>7
  <2> QED
    BY <2>8, <2>9, <2>10, <2>11, <2>12 DEF StreamsFit
<1> QED
  BY <1>1, <1>2 DEF PacketInv

\* Whatever the packet: the three walks over a table agree on every size, and no
\* parser reads past its stream.
THEOREM StreamsAlwaysFit ==
  ASSUME CrcIsLong
  PROVE  Spec => []StreamsFit
<1>1. PacketInv => StreamsFit
  BY InvStreamsFit
<1> QED
  BY <1>1, PacketAlways, PTL

-----------------------------------------------------------------------------
(***************************************************************************)
(* The calls of the object                                                 *)
(***************************************************************************)
Places == {"outside", "lock", "connect", "send", "recv", "disconnect", "leave"}
Inside == {"connect", "send", "recv", "disconnect", "leave"}
Exchanging == {"send", "recv", "leave"}

ApiTypeOK ==
  /\ calls \in [Threads -> Seq({"connect", "disconnect"})]
  /\ where \in [Threads -> Places]
  /\ results \in [Threads -> Seq(Outcomes)]
  /\ m_mutex_lock \in Threads \cup {Nobody}
  /\ m_socket \in {"new", "open", "connected"}
  /\ stream \in Seq({"CONNECT", "DISCONNECT"}) /\ up \in BOOLEAN

\* Whoever is inside a call holds the mutex, and has that call to return from.
OneInside ==
  \A t \in Threads : /\ where[t] \in Inside <=> m_mutex_lock = t
                     /\ where[t] # "outside" => calls[t] # <<>>

\* How far the conversation is.  Without a connection it has not begun.
Conversation ==
  /\ m_socket # "connected" =>
       msg = "none" /\ stream = <<>> /\ \A t \in Threads : where[t] \notin Exchanging
  /\ Left => msg = "DISCONNECT"
  /\ \A t \in Threads :
       /\ where[t] = "send" => msg = "CONNECT" /\ at = "write" /\ stream = <<>>
       /\ where[t] = "recv" => (msg = "CONNECT" /\ at # "write") \/ msg = "CONNECT_RESP"
       /\ where[t] = "leave" => msg = "DISCONNECT" /\ at = "write" /\ ~Left
  /\ m_socket = "connected" /\ up /\ (\A t \in Threads : where[t] \notin Exchanging) =>
       Left \/ (msg = "CONNECT_RESP" /\ at = "end")

ApiInv == ApiTypeOK /\ OneInside /\ Conversation

LEMMA TailOf ==
  ASSUME NEW S, NEW s \in Seq(S), s # <<>>
  PROVE  Head(s) \in S /\ Tail(s) \in Seq(S)
OBVIOUS

LEMMA Returned ==
  ASSUME ApiInv, NEW t \in Threads, where[t] # "outside",
         NEW r \in Outcomes, Returns(t, r)
  PROVE  /\ calls' \in [Threads -> Seq({"connect", "disconnect"})]
         /\ where' \in [Threads -> Places]
         /\ results' \in [Threads -> Seq(Outcomes)]
         /\ m_mutex_lock' = Nobody /\ where'[t] = "outside"
         /\ \A u \in Threads : u # t => where'[u] = where[u] /\ calls'[u] = calls[u]
<1>1. /\ calls \in [Threads -> Seq({"connect", "disconnect"})] /\ where \in [Threads -> Places]
      /\ results \in [Threads -> Seq(Outcomes)]
      /\ calls[t] # <<>>
  BY DEF ApiInv, ApiTypeOK, OneInside
<1>2. /\ where' = [where EXCEPT ![t] = "outside"] /\ calls' = [calls EXCEPT ![t] = Tail(calls[t])]
      /\ results' = [results EXCEPT ![t] = Append(results[t], r)] /\ m_mutex_lock' = Nobody
  BY DEF Returns, Goes
<1>3. Tail(calls[t]) \in Seq({"connect", "disconnect"})
  BY <1>1, TailOf
<1>4. Append(results[t], r) \in Seq(Outcomes)
  BY <1>1
<1> QED
  BY <1>1, <1>2, <1>3, <1>4 DEF Places

\* The others are outside of calls or at the lock while one is inside.
LEMMA Others ==
  ASSUME ApiInv, NEW t \in Threads, where[t] \in Inside
  PROVE  /\ m_mutex_lock = t
         /\ \A u \in Threads : u # t => where[u] \in {"outside", "lock"}
<1>1. m_mutex_lock = t
  BY DEF ApiInv, OneInside
<1>2. ASSUME NEW u \in Threads, u # t
      PROVE  where[u] \in {"outside", "lock"}
  <2>1. where[u] \notin Inside /\ where[u] \in Places
    BY <1>1, <1>2 DEF ApiInv, ApiTypeOK, OneInside
  <2> QED
    BY <2>1 DEF Inside, Places
<1> QED
  BY <1>1, <1>2

\* A call returns: the mutex is free, and nobody is inside.
LEMMA ReturnedInside ==
  ASSUME ApiInv, NEW t \in Threads, where[t] \in Inside,
         NEW r \in Outcomes, Returns(t, r)
  PROVE  /\ OneInside'
         /\ \A u \in Threads : where'[u] \in {"outside", "lock"} /\ where'[u] \notin Exchanging
         /\ calls' \in [Threads -> Seq({"connect", "disconnect"})]
         /\ where' \in [Threads -> Places]
         /\ results' \in [Threads -> Seq(Outcomes)]
         /\ m_mutex_lock' = Nobody
<1>1. where[t] # "outside"
  BY DEF Inside
<1>2. /\ calls' \in [Threads -> Seq({"connect", "disconnect"})]
      /\ where' \in [Threads -> Places]
      /\ results' \in [Threads -> Seq(Outcomes)]
      /\ m_mutex_lock' = Nobody /\ where'[t] = "outside"
      /\ \A u \in Threads : u # t => where'[u] = where[u] /\ calls'[u] = calls[u]
  BY <1>1, Returned
<1>3. \A u \in Threads : where'[u] \in {"outside", "lock"}
  BY <1>2, Others
<1>4. \A u \in Threads : where'[u] # "outside" => calls'[u] # <<>>
  BY <1>2 DEF ApiInv, OneInside
<1>5. OneInside'
  BY <1>2, <1>3, <1>4, ApiAssumption DEF OneInside, Inside
<1> QED
  BY <1>2, <1>3, <1>5 DEF Exchanging

LEMMA FieldKeeps ==
  ASSUME PacketInv, FieldStep
  PROVE  msg' = msg /\ at # "end" /\ (at = "write" <=> at' = "write")
<1>1. CASE SerializeField
  BY <1>1, Numbered DEF SerializeField
<1>2. CASE UnserializeHeaderField
  BY <1>2 DEF UnserializeHeaderField, Ends
<1>3. CASE UnserializeBodyField
  BY <1>3 DEF UnserializeBodyField, Ends
<1>4. CASE UnserializeEnds
  BY <1>4 DEF UnserializeEnds, Ends
<1> QED
  BY <1>1, <1>2, <1>3, <1>4 DEF FieldStep

LEMMA FieldCalls ==
  ASSUME PacketInv, ApiInv, FieldStep, UNCHANGED apiVars
  PROVE  ApiInv'
<1>1. /\ calls' = calls /\ where' = where /\ results' = results /\ m_mutex_lock' = m_mutex_lock
      /\ m_socket' = m_socket /\ stream' = stream /\ (Left' <=> Left) /\ up' = up
  BY DEF apiVars, Left
<1>2. msg' = msg /\ at # "end" /\ (at = "write" <=> at' = "write")
  BY FieldKeeps
<1>3. ApiTypeOK' /\ OneInside'
  BY <1>1 DEF ApiInv, ApiTypeOK, OneInside
<1>4. Conversation'
  BY <1>1, <1>2 DEF ApiInv, Conversation
<1> QED
  BY <1>3, <1>4 DEF ApiInv

LEMMA CallCalls ==
  ASSUME ApiInv, NEW t \in Threads, Call(t)
  PROVE  ApiInv'
<1>1. /\ where[t] = "outside" /\ calls[t] # <<>> /\ where' = [where EXCEPT ![t] = "lock"]
      /\ calls' = calls /\ results' = results /\ m_mutex_lock' = m_mutex_lock
      /\ m_socket' = m_socket /\ stream' = stream /\ (Left' <=> Left) /\ up' = up
      /\ msg' = msg /\ at' = at
  BY DEF Call, Goes, packetVars, Left
<1>2. ApiTypeOK'
  BY <1>1 DEF ApiInv, ApiTypeOK, Places
<1>3. /\ where'[t] = "lock" /\ \A u \in Threads : u # t => where'[u] = where[u]
  BY <1>1 DEF ApiInv, ApiTypeOK
<1>4. OneInside'
  BY <1>1, <1>3 DEF ApiInv, OneInside, Inside
<1>5. Conversation'
  BY <1>1, <1>3 DEF ApiInv, Conversation, Exchanging
<1> QED
  BY <1>2, <1>4, <1>5 DEF ApiInv

LEMMA LockCalls ==
  ASSUME ApiInv, NEW t \in Threads, Lock(t)
  PROVE  ApiInv'
<1>1. /\ where[t] = "lock" /\ m_mutex_lock = Nobody /\ m_mutex_lock' = t
      /\ where' = [where EXCEPT ![t] = Head(calls[t])]
      /\ calls' = calls /\ results' = results
      /\ m_socket' = m_socket /\ stream' = stream /\ (Left' <=> Left) /\ up' = up
      /\ msg' = msg /\ at' = at
  BY DEF Lock, Goes, packetVars, Left
<1>2. /\ where \in [Threads -> Places] /\ calls[t] # <<>>
      /\ calls \in [Threads -> Seq({"connect", "disconnect"})]
  BY <1>1 DEF ApiInv, ApiTypeOK, OneInside
<1>3. Head(calls[t]) \in {"connect", "disconnect"}
  BY <1>2, TailOf
<1>4. where'[t] \in {"connect", "disconnect"} /\ \A u \in Threads : u # t => where'[u] = where[u]
  BY <1>1, <1>2, <1>3
<1>5. ApiTypeOK'
  BY <1>1, <1>2, <1>3 DEF ApiInv, ApiTypeOK, Places
<1>6. OneInside'
  <2>1. \A u \in Threads : where[u] \notin Inside
    BY <1>1, ApiAssumption DEF ApiInv, OneInside
  <2> QED
    BY <1>1, <1>2, <1>4, <2>1 DEF ApiInv, OneInside, Inside
<1>7. Conversation'
  BY <1>1, <1>4 DEF ApiInv, Conversation, Exchanging
<1> QED
  BY <1>5, <1>6, <1>7 DEF ApiInv

\* A call that ends without a packet: nothing of the conversation changes.
LEMMA QuietReturn ==
  ASSUME ApiInv, NEW t \in Threads, where[t] \in {"connect", "disconnect"},
         NEW r \in {"ok", "refused", "threw"}, Returns(t, r),
         UNCHANGED <<packetVars, stream, up>>,
         m_socket' = m_socket \/ (m_socket = "new" /\ m_socket' = "open")
  PROVE  ApiInv'
<1>1. msg' = msg /\ at' = at /\ stream' = stream /\ (Left' <=> Left) /\ up' = up
  BY DEF packetVars, Left
<1>2. where[t] \in Inside /\ where[t] \notin Exchanging
      /\ r \in Outcomes
  BY DEF Inside, Exchanging, Outcomes
<1>3. /\ OneInside'
      /\ \A u \in Threads : where'[u] \in {"outside", "lock"} /\ where'[u] \notin Exchanging
      /\ calls' \in [Threads -> Seq({"connect", "disconnect"})]
      /\ where' \in [Threads -> Places]
      /\ results' \in [Threads -> Seq(Outcomes)]
      /\ m_mutex_lock' = Nobody
  BY <1>2, ReturnedInside
<1>4. ApiTypeOK'
  BY <1>1, <1>3 DEF ApiInv, ApiTypeOK
<1>5. \A u \in Threads : where[u] \notin Exchanging
  BY <1>2, Others DEF Exchanging
<1>6. Conversation'
  <2>1. m_socket' # "connected" => msg' = "none" /\ stream' = <<>>
    BY <1>1 DEF ApiInv, Conversation
  <2>2. Left' => msg' = "DISCONNECT"
    BY <1>1 DEF ApiInv, Conversation
  <2>3. m_socket' = "connected" /\ up' => Left' \/ (msg' = "CONNECT_RESP" /\ at' = "end")
    BY <1>1, <1>5 DEF ApiInv, Conversation
  <2>4. \A u \in Threads : where'[u] # "send" /\ where'[u] # "recv" /\ where'[u] # "leave"
    BY <1>3
  <2> QED
    BY <1>3, <2>1, <2>2, <2>3, <2>4 DEF Conversation
<1> QED
  BY <1>3, <1>4, <1>6 DEF ApiInv

\* A packet begins: nobody but t is inside.
LEMMA ConnectCalls ==
  ASSUME ApiInv, NEW t \in Threads, Connect(t)
  PROVE  ApiInv' /\ msg = "none" /\ msg' = "CONNECT"
<1>1. /\ where[t] = "connect" /\ m_socket = "new" /\ up /\ m_socket' = "connected"
      /\ msg' = "CONNECT" /\ at' = "write" /\ where' = [where EXCEPT ![t] = "send"]
      /\ calls' = calls /\ results' = results /\ m_mutex_lock' = m_mutex_lock
      /\ stream' = stream /\ (Left' <=> Left) /\ up' = up
  BY DEF Connect, OpenThrows, Starts, Goes, Left
<1>2. where[t] \in Inside
  BY <1>1 DEF Inside
<1>3. where'[t] = "send" /\ \A u \in Threads : u # t => where'[u] = where[u]
  BY <1>1 DEF ApiInv, ApiTypeOK
<1>4. \A u \in Threads : u # t => where'[u] \in {"outside", "lock"}
  BY <1>2, <1>3, Others
<1>5. ApiTypeOK'
  BY <1>1 DEF ApiInv, ApiTypeOK, Places
<1>6. OneInside'
  BY <1>1, <1>2, <1>3 DEF ApiInv, OneInside, Inside
<1>7. Conversation'
  <2>1. msg = "none" /\ stream = <<>> /\ ~Left
    BY <1>1 DEF ApiInv, Conversation, Left
  <2>2. \A u \in Threads : u = t \/ where'[u] \in {"outside", "lock"}
    BY <1>4
  <2> QED
    BY <1>1, <1>3, <2>1, <2>2 DEF Conversation, Exchanging
<1> QED
  BY <1>1, <1>5, <1>6, <1>7 DEF ApiInv, Conversation

LEMMA DisconnectCalls ==
  ASSUME ApiInv, PacketInv, NEW t \in Threads, Disconnect(t)
  PROVE  ApiInv' /\ msg = "CONNECT_RESP" /\ at = "end" /\ ret = "ok" /\ msg' = "DISCONNECT"
<1>1. /\ where[t] = "disconnect" /\ m_socket = "connected" /\ ~Left /\ up
      /\ msg' = "DISCONNECT" /\ at' = "write" /\ where' = [where EXCEPT ![t] = "leave"]
      /\ calls' = calls /\ results' = results /\ m_mutex_lock' = m_mutex_lock
      /\ m_socket' = m_socket /\ stream' = stream /\ (Left' <=> Left) /\ up' = up
  BY DEF Disconnect, Starts, Goes, Left
<1>2. where[t] \in Inside
  BY <1>1 DEF Inside
<1>3. where'[t] = "leave" /\ \A u \in Threads : u # t => where'[u] = where[u]
  BY <1>1 DEF ApiInv, ApiTypeOK
<1>4. \A u \in Threads : u # t =>
        where[u] \in {"outside", "lock"} /\ where'[u] \in {"outside", "lock"}
  BY <1>2, <1>3, Others
<1>5. ApiTypeOK'
  BY <1>1 DEF ApiInv, ApiTypeOK, Places
<1>6. OneInside'
  BY <1>1, <1>2, <1>3 DEF ApiInv, OneInside, Inside
<1>7. Conversation'
  <2>1. \A u \in Threads : u = t \/ where'[u] \in {"outside", "lock"}
    BY <1>4
  <2> QED
    BY <1>1, <1>3, <2>1 DEF Conversation, Exchanging
<1>8. msg = "CONNECT_RESP" /\ at = "end"
  <2>1. \A u \in Threads : where[u] \notin Exchanging
    BY <1>1, <1>4 DEF Exchanging
  <2> QED
    BY <1>1, <2>1 DEF ApiInv, Conversation
<1>9. ret = "ok"
  BY <1>8, InvRoundTrip DEF RoundTrip
<1> QED
  BY <1>1, <1>5, <1>6, <1>7, <1>8, <1>9 DEF ApiInv

\* What a write puts on the connection.
LEMMA FarewellWritten ==
  ASSUME ApiInv, Writes("DISCONNECT")
  PROVE  Left' /\ stream' \in Seq({"CONNECT", "DISCONNECT"})
<1>1. stream \in Seq({"CONNECT", "DISCONNECT"}) /\ stream' = Append(stream, "DISCONNECT")
  BY DEF ApiInv, ApiTypeOK, Writes
<1>2. Len(stream) + 1 \in DOMAIN stream' /\ stream'[Len(stream) + 1] = "DISCONNECT"
  BY <1>1
<1> QED
  BY <1>1, <1>2 DEF Left

LEMMA ConnectWritten ==
  ASSUME stream = <<>>, Writes("CONNECT")
  PROVE  ~Left' /\ stream' = <<"CONNECT">> /\ stream' \in Seq({"CONNECT", "DISCONNECT"})
<1>1. stream' = <<"CONNECT">>
  BY DEF Writes
<1>2. \A i \in DOMAIN <<"CONNECT">> : <<"CONNECT">>[i] = "CONNECT"
  OBVIOUS
<1> QED
  BY <1>1, <1>2 DEF Left

LEMMA SendConnectCalls ==
  ASSUME PacketInv, ApiInv, NEW t \in Threads, SendConnect(t)
  PROVE  ApiInv' /\ msg' = msg
<1>0. /\ where[t] = "send" /\ at = "write" /\ stream = <<>> /\ ret = "none"
  <2>1. where[t] = "send" /\ at = "write" /\ stream = <<>>
    BY DEF SendConnect, ApiInv, Conversation
  <2> QED
    BY <2>1, Numbered
<1>1. /\ where[t] = "send" /\ at = "write" /\ at' = "head" /\ msg' = msg
      /\ m_socket' = m_socket /\ up' = up
  BY <1>0 DEF SendConnect, SerializeEnds
<1>2. where[t] \in Inside /\ m_socket = "connected" /\ msg = "CONNECT" /\ ~Left
  BY <1>0, <1>1 DEF ApiInv, ApiTypeOK, Conversation, Inside, Exchanging, Left
<1>3. \A u \in Threads : u # t => where[u] \in {"outside", "lock"}
  BY <1>2, Others
<1>4. CASE Writes("CONNECT") /\ Goes(t, "recv") /\ UNCHANGED <<calls, results, m_mutex_lock>>
  <2>w. ~Left' /\ stream' = <<"CONNECT">> /\ stream' \in Seq({"CONNECT", "DISCONNECT"})
    BY <1>0, <1>4, ConnectWritten
  <2>1. /\ where'[t] = "recv" /\ \A u \in Threads : u # t => where'[u] = where[u]
        /\ calls' = calls /\ results' = results /\ m_mutex_lock' = m_mutex_lock
    BY <1>4 DEF ApiInv, ApiTypeOK, Goes
  <2>2. ApiTypeOK'
    BY <1>1, <1>4, <2>w DEF ApiInv, ApiTypeOK, Places, Goes
  <2>3. OneInside'
    BY <1>2, <2>1 DEF ApiInv, OneInside, Inside
  <2>4. \A u \in Threads : u = t \/ where'[u] \in {"outside", "lock"}
    BY <1>3, <2>1
  <2>5. Conversation'
    BY <1>1, <1>2, <2>w, <2>1, <2>4 DEF Conversation, Exchanging
  <2> QED
    BY <1>1, <2>2, <2>3, <2>5 DEF ApiInv
<1>5. CASE ~up /\ Returns(t, "send") /\ UNCHANGED stream
  <2>w. stream' = stream /\ (Left' <=> Left)
    BY <1>5 DEF Left
  <2>1. /\ OneInside'
        /\ \A u \in Threads : where'[u] \in {"outside", "lock"} /\ where'[u] \notin Exchanging
        /\ calls' \in [Threads -> Seq({"connect", "disconnect"})]
        /\ where' \in [Threads -> Places]
        /\ results' \in [Threads -> Seq(Outcomes)]
        /\ m_mutex_lock' = Nobody
    BY <1>2, <1>5, ReturnedInside DEF Outcomes
  <2>2. ApiTypeOK'
    BY <1>1, <2>w, <2>1 DEF ApiInv, ApiTypeOK
  <2>3. \A u \in Threads : where'[u] # "send" /\ where'[u] # "recv" /\ where'[u] # "leave"
    BY <2>1
  <2>4. Conversation'
    BY <1>0, <1>1, <1>2, <1>5, <2>w, <2>1, <2>3 DEF Conversation
  <2> QED
    BY <1>1, <2>1, <2>2, <2>4 DEF ApiInv
<1> QED
  BY <1>0, <1>4, <1>5 DEF SendConnect

LEMMA RecvCalls ==
  ASSUME ApiInv, PacketInv, NEW t \in Threads, RecvConnect(t) \/ RecvThrows(t)
  PROVE  ApiInv' /\ msg' = msg
<1>1. /\ where[t] = "recv" /\ msg' = msg /\ at' = at
      /\ m_socket' = m_socket /\ stream' = stream /\ (Left' <=> Left) /\ up' = up
  BY DEF RecvConnect, RecvThrows, packetVars, Left
<1>2. PICK r \in {"ok", "threw"} :
        Returns(t, r) /\ (~up \/ (msg = "CONNECT_RESP" /\ at = "end"))
  <2>1. CASE RecvConnect(t)
    <3>1. Returns(t, ret) /\ msg = "CONNECT_RESP" /\ at = "end"
      BY <2>1 DEF RecvConnect, Answered
    <3>2. ret = "ok"
      BY <3>1, InvRoundTrip DEF RoundTrip
    <3> QED
      BY <3>1, <3>2
  <2>2. CASE RecvThrows(t)
    BY <2>2 DEF RecvThrows
  <2> QED
    BY <2>1, <2>2
<1>3. /\ where[t] \in Inside /\ m_socket = "connected"
      /\ r \in Outcomes
  BY <1>1, <1>2 DEF ApiInv, ApiTypeOK, Conversation, Inside, Exchanging, Outcomes
<1>4. /\ OneInside'
      /\ \A u \in Threads : where'[u] \in {"outside", "lock"} /\ where'[u] \notin Exchanging
      /\ calls' \in [Threads -> Seq({"connect", "disconnect"})]
      /\ where' \in [Threads -> Places]
      /\ results' \in [Threads -> Seq(Outcomes)]
      /\ m_mutex_lock' = Nobody
  BY <1>2, <1>3, ReturnedInside
<1>5. ApiTypeOK'
  BY <1>1, <1>4 DEF ApiInv, ApiTypeOK
<1>6. Left' => msg' = "DISCONNECT"
  BY <1>1 DEF ApiInv, Conversation
<1>7. \A u \in Threads : where'[u] # "send" /\ where'[u] # "recv" /\ where'[u] # "leave"
  BY <1>4
<1>8. Conversation'
  BY <1>1, <1>2, <1>3, <1>4, <1>6, <1>7 DEF Conversation
<1> QED
  BY <1>1, <1>4, <1>5, <1>8 DEF ApiInv

LEMMA SendDisconnectCalls ==
  ASSUME PacketInv, ApiInv, NEW t \in Threads, SendDisconnect(t)
  PROVE  ApiInv' /\ msg' = msg
<1>0. where[t] = "leave" /\ ret = "none"
  <2>1. where[t] = "leave" /\ at = "write"
    BY DEF SendDisconnect, ApiInv, Conversation
  <2> QED
    BY <2>1, Numbered
<1>1. /\ where[t] = "leave" /\ at' = "head" /\ msg' = msg
      /\ m_socket' = m_socket /\ up' = up /\ Returns(t, "ok")
      /\ Writes("DISCONNECT") \/ (~up /\ stream' = stream)
  BY <1>0 DEF SendDisconnect, SerializeEnds
<1>2. where[t] \in Inside /\ m_socket = "connected" /\ msg = "DISCONNECT"
  BY <1>1 DEF ApiInv, ApiTypeOK, Conversation, Inside, Exchanging
<1>4. /\ OneInside'
      /\ \A u \in Threads : where'[u] \in {"outside", "lock"} /\ where'[u] \notin Exchanging
      /\ calls' \in [Threads -> Seq({"connect", "disconnect"})]
      /\ where' \in [Threads -> Places]
      /\ results' \in [Threads -> Seq(Outcomes)]
      /\ m_mutex_lock' = Nobody
  BY <1>1, <1>2, ReturnedInside DEF Outcomes
<1>w. /\ stream' \in Seq({"CONNECT", "DISCONNECT"})
      /\ up' => Left'
  BY <1>1, FarewellWritten DEF ApiInv, ApiTypeOK
<1>5. ApiTypeOK'
  BY <1>1, <1>w, <1>4 DEF ApiInv, ApiTypeOK
<1>7. \A u \in Threads : where'[u] # "send" /\ where'[u] # "recv" /\ where'[u] # "leave"
  BY <1>4
<1>8. Conversation'
  BY <1>1, <1>w, <1>2, <1>4, <1>7 DEF Conversation
<1> QED
  BY <1>1, <1>4, <1>5, <1>8 DEF ApiInv

LEMMA DisconnectAgainCalls ==
  ASSUME ApiInv, NEW t \in Threads, DisconnectAgain(t)
  PROVE  ApiInv' /\ msg' = msg
<1>1. /\ where[t] = "disconnect" /\ m_socket = "connected" /\ Left /\ msg' = msg /\ at' = at
      /\ m_socket' = m_socket /\ up' = up /\ Returns(t, "ok")
      /\ Writes("DISCONNECT") \/ stream' = stream
  BY DEF DisconnectAgain, packetVars
<1>2. where[t] \in Inside /\ msg = "DISCONNECT"
  BY <1>1 DEF ApiInv, Conversation, Inside
<1>3. Left' /\ stream' \in Seq({"CONNECT", "DISCONNECT"})
  <2>1. CASE Writes("DISCONNECT")
    BY <2>1, FarewellWritten
  <2>2. CASE stream' = stream
    BY <1>1, <2>2 DEF ApiInv, ApiTypeOK, Left
  <2> QED
    BY <1>1, <2>1, <2>2
<1>4. /\ OneInside'
      /\ \A u \in Threads : where'[u] \in {"outside", "lock"} /\ where'[u] \notin Exchanging
      /\ calls' \in [Threads -> Seq({"connect", "disconnect"})]
      /\ where' \in [Threads -> Places]
      /\ results' \in [Threads -> Seq(Outcomes)]
      /\ m_mutex_lock' = Nobody
  BY <1>1, <1>2, ReturnedInside DEF Outcomes
<1>5. ApiTypeOK'
  BY <1>1, <1>3, <1>4 DEF ApiInv, ApiTypeOK
<1>6. \A u \in Threads : where'[u] # "send" /\ where'[u] # "recv" /\ where'[u] # "leave"
  BY <1>4
<1>7. Conversation'
  BY <1>1, <1>2, <1>3, <1>6 DEF Conversation
<1> QED
  BY <1>1, <1>4, <1>5, <1>7 DEF ApiInv

LEMMA AnswerCalls ==
  ASSUME ApiInv, ServerAnswers
  PROVE  ApiInv' /\ msg = "CONNECT" /\ at = "end" /\ ret = "ok" /\ msg' = "CONNECT_RESP"
<1>1. /\ calls' = calls /\ where' = where /\ results' = results /\ m_mutex_lock' = m_mutex_lock
      /\ m_socket' = m_socket /\ stream' = stream /\ (Left' <=> Left) /\ up' = up /\ up
      /\ msg = "CONNECT" /\ at = "end" /\ ret = "ok" /\ msg' = "CONNECT_RESP" /\ at' = "write"
  BY DEF apiVars, ServerAnswers, Starts, Left
<1>2. ApiTypeOK' /\ OneInside'
  BY <1>1 DEF ApiInv, ApiTypeOK, OneInside
<1>3. m_socket = "connected" /\ ~Left /\ ~(\A t \in Threads : where[t] \notin Exchanging)
  BY <1>1 DEF ApiInv, Conversation
<1>4. \A t \in Threads : where[t] # "send" /\ where[t] # "leave"
  BY <1>1 DEF ApiInv, Conversation
<1>5. Conversation'
  BY <1>1, <1>3, <1>4 DEF Conversation
<1> QED
  BY <1>1, <1>2, <1>5 DEF ApiInv

LEMMA ServerSendCalls ==
  ASSUME ApiInv, ServerSends
  PROVE  ApiInv' /\ msg' = msg
<1>1. /\ calls' = calls /\ where' = where /\ results' = results /\ m_mutex_lock' = m_mutex_lock
      /\ m_socket' = m_socket /\ stream' = stream /\ (Left' <=> Left) /\ up' = up
      /\ at = "write" /\ at' = "head" /\ msg' = msg
  BY DEF apiVars, ServerSends, SerializeEnds, Left
<1>2. ApiTypeOK' /\ OneInside'
  BY <1>1 DEF ApiInv, ApiTypeOK, OneInside
<1>3. msg = "CONNECT_RESP"
  <2>1. Sender(msg) = "server"
    BY <1>1 DEF ServerSends, Working
  <2> QED
    BY <2>1 DEF Sender
<1>4. Conversation'
  BY <1>1, <1>3 DEF ApiInv, Conversation
<1> QED
  BY <1>1, <1>2, <1>4 DEF ApiInv

LEMMA StillCalls ==
  ASSUME ApiInv, ServerEnds \/ UNCHANGED vars
  PROVE  ApiInv' /\ msg' = msg
<1>1. /\ calls' = calls /\ where' = where /\ results' = results /\ m_mutex_lock' = m_mutex_lock
      /\ m_socket' = m_socket /\ stream' = stream /\ (Left' <=> Left) /\ (up' = up \/ up' = FALSE)
      /\ at' = at /\ msg' = msg
  BY DEF vars, apiVars, packetVars, ServerEnds, Left
<1>2. ApiTypeOK' /\ OneInside'
  BY <1>1 DEF ApiInv, ApiTypeOK, OneInside
<1>3. Conversation'
  BY <1>1 DEF ApiInv, Conversation
<1> QED
  BY <1>1, <1>2, <1>3 DEF ApiInv

\* What a step does to the packet under way.
Converses ==
  \/ msg' = msg
  \/ msg = "none" /\ msg' = "CONNECT"
  \/ at = "end" /\ ret = "ok" /\ msg = "CONNECT" /\ msg' = "CONNECT_RESP"
  \/ at = "end" /\ ret = "ok" /\ msg = "CONNECT_RESP" /\ msg' = "DISCONNECT"

LEMMA ApiKept ==
  ASSUME PacketInv, ApiInv, [Next]_vars
  PROVE  ApiInv' /\ Converses
<1>1. ASSUME NEW t \in Threads, ThreadStep(t)
      PROVE  ApiInv' /\ Converses
  <2>1. CASE Call(t) \/ Lock(t)
    <3>1. msg' = msg
      BY <2>1 DEF Call, Lock, packetVars
    <3> QED
      BY <2>1, <3>1, CallCalls, LockCalls DEF Converses
  <2>2. CASE ConnectThrows(t)
    <3>1. /\ where[t] \in {"connect", "disconnect"} /\ Returns(t, "threw") /\ m_socket' = m_socket
          /\ UNCHANGED <<packetVars, stream, up>> /\ msg' = msg
      BY <2>2 DEF ConnectThrows, packetVars
    <3> QED
      BY <3>1, QuietReturn DEF Converses
  <2>3. CASE ConnectRefused(t)
    <3>1. /\ where[t] \in {"connect", "disconnect"} /\ Returns(t, "refused")
          /\ m_socket = "new" /\ m_socket' = "open"
          /\ UNCHANGED <<packetVars, stream, up>> /\ msg' = msg
      BY <2>3 DEF ConnectRefused, OpenThrows, packetVars
    <3> QED
      BY <3>1, QuietReturn DEF Converses
  <2>4. CASE DisconnectIdle(t)
    <3>1. /\ where[t] \in {"connect", "disconnect"} /\ Returns(t, "ok") /\ m_socket' = m_socket
          /\ UNCHANGED <<packetVars, stream, up>> /\ msg' = msg
      BY <2>4 DEF DisconnectIdle, packetVars
    <3> QED
      BY <3>1, QuietReturn DEF Converses
  <2>5. CASE Connect(t) \/ Disconnect(t)
    BY <2>5, ConnectCalls, DisconnectCalls DEF Converses
  <2>6. CASE SendConnect(t) \/ RecvConnect(t) \/ RecvThrows(t)
    BY <2>6, SendConnectCalls, RecvCalls DEF Converses
  <2>8. CASE SendDisconnect(t) \/ DisconnectAgain(t)
    BY <2>8, SendDisconnectCalls, DisconnectAgainCalls DEF Converses
  <2>7. CASE ClientField(t)
    BY <2>7, FieldCalls, FieldKeeps DEF ClientField, Converses
  <2> QED
    BY <1>1, <2>1, <2>2, <2>3, <2>4, <2>5, <2>6, <2>7, <2>8 DEF ThreadStep
<1>2. ASSUME ServerStep
      PROVE  ApiInv' /\ Converses
  <2>1. CASE ServerField
    BY <2>1, FieldCalls, FieldKeeps DEF ServerField, Converses
  <2>2. CASE ServerAnswers
    BY <2>2, AnswerCalls DEF Converses
  <2>3. CASE ServerSends
    BY <2>3, ServerSendCalls DEF Converses
  <2> QED
    BY <1>2, <2>1, <2>2, <2>3 DEF ServerStep
<1>3. ASSUME ServerEnds \/ UNCHANGED vars
      PROVE  ApiInv' /\ Converses
  BY <1>3, StillCalls DEF Converses
<1> QED
  BY <1>1, <1>2, <1>3 DEF Next

\* What a step does to the connection.
Speaks ==
  \/ stream' = stream
  \/ stream = <<>> /\ stream' = <<"CONNECT">>
  \/ msg = "DISCONNECT" /\ stream' = Append(stream, "DISCONNECT")

LEMMA StreamKept ==
  ASSUME ApiInv, [Next]_vars
  PROVE  Speaks
<1>1. ASSUME NEW t \in Threads, ThreadStep(t)
      PROVE  Speaks
  <2>1. CASE SendConnect(t)
    <3>1. stream = <<>> /\ (stream' = stream \/ Writes("CONNECT"))
      BY <2>1 DEF SendConnect, ApiInv, Conversation
    <3> QED
      BY <3>1, ConnectWritten DEF Speaks
  <2>2. CASE SendDisconnect(t) \/ DisconnectAgain(t)
    <3>1. msg = "DISCONNECT" /\ (stream' = stream \/ Writes("DISCONNECT"))
      BY <2>2 DEF SendDisconnect, DisconnectAgain, ApiInv, Conversation
    <3> QED
      BY <3>1 DEF Speaks, Writes
  <2>3. CASE \/ Call(t) \/ Lock(t) \/ ConnectThrows(t) \/ ConnectRefused(t) \/ Connect(t)
             \/ RecvConnect(t) \/ RecvThrows(t) \/ DisconnectIdle(t) \/ Disconnect(t)
             \/ ClientField(t)
    BY <2>3 DEF Call, Lock, ConnectThrows, ConnectRefused, Connect, RecvConnect, RecvThrows,
                DisconnectIdle, Disconnect, ClientField, apiVars, Speaks
  <2> QED
    BY <1>1, <2>1, <2>2, <2>3 DEF ThreadStep
<1>2. ASSUME ServerStep \/ ServerEnds \/ UNCHANGED vars
      PROVE  Speaks
  BY <1>2 DEF ServerStep, ServerField, ServerAnswers, ServerSends, ServerEnds, vars, apiVars, Speaks
<1> QED
  BY <1>1, <1>2 DEF Next

LEMMA ApiInitially ==
  ASSUME Init
  PROVE  ApiInv
<1>1. /\ calls = Script /\ where = [t \in Threads |-> "outside"]
      /\ results = [t \in Threads |-> <<>>] /\ m_mutex_lock = Nobody
      /\ m_socket = "new" /\ stream = <<>> /\ up = TRUE /\ msg = "none"
  BY DEF Init, PacketInit
<1>2. <<>> \in Seq(Outcomes) /\ <<>> \in Seq({"CONNECT", "DISCONNECT"}) /\ DOMAIN <<>> = {}
  OBVIOUS
<1>3. ApiTypeOK
  BY <1>1, <1>2, ApiAssumption DEF ApiTypeOK, Places
<1>4. OneInside
  BY <1>1, ApiAssumption DEF OneInside, Inside
<1>5. Conversation
  BY <1>1, <1>2 DEF Conversation, Exchanging, Left
<1> QED
  BY <1>3, <1>4, <1>5 DEF ApiInv

\* That invariant, and that of the object's threads: one of them is inside at most, and
\* where it stands says what the client and the server last agreed on.
THEOREM ApiAlways ==
  ASSUME CrcIsLong
  PROVE  Spec => [](PacketInv /\ ApiInv)
<1>1. Init => PacketInv /\ ApiInv
  BY PacketInitially, ApiInitially
<1>2. PacketInv /\ ApiInv /\ [Next]_vars => PacketInv' /\ ApiInv'
  BY PacketKept, ApiKept
<1> QED
  BY <1>1, <1>2, PTL DEF Spec

LEMMA RoomLeft ==
  ASSUME NEW k \in Nat, NEW l \in Nat, k >= 1, l >= 15
  PROVE  (48 + k + l) - 32 >= 32
OBVIOUS

\* The body of a CONNECT is never shorter than a header, as the program's preset path
\* has fifteen characters: a buffer that was resized to it has room for a header.
THEOREM ConnectHoldsHeader ==
  ASSUME CrcIsLong, Len(Preset) >= 14
  PROVE  Spec => [](msg = "CONNECT" => fields[FIELD_BSIZE].ivalue >= HeaderSize(fields))
<1>1. ASSUME PacketInv, msg = "CONNECT"
      PROVE  fields[FIELD_BSIZE].ivalue >= HeaderSize(fields)
  <2>1. PICK m \in Packets : m = "CONNECT" /\ m = msg
    BY <1>1 DEF Packets
  <2>2. Full(fields, m, Names) /\ Shaped(fields, m)
    BY <1>1, <2>1, Started DEF Sending, Full
  <2>3. PICK x \in Seq(Byte), y \in Seq(Byte) :
          /\ Names[9] = Append(x, 0) /\ Names[11] = Append(y, 0) /\ Len(y) >= 14
    <3>1. Len(Preset) \in Nat /\ Len(ProcessName) \in Nat
      BY <1>1, NamesFit, ProtocolAssumption DEF PacketInv
    <3>2. Len(ProcessName) >= 14
      BY <1>1, <3>1, NamesFit DEF PacketInv
    <3> QED
      BY <1>1, <3>2, NamesFit DEF PacketInv
  <2>4. PICK k \in Nat, l \in Nat : k = Len(Names[9]) /\ l = Len(Names[11]) /\ k >= 1 /\ l >= 15
    <3>1. 0 \in Byte
      BY BaseFacts DEF Byte
    <3>2. Len(Append(x, 0)) = Len(x) + 1 /\ Len(Append(y, 0)) = Len(y) + 1
      BY <3>1
    <3>3. Len(x) \in Nat /\ Len(y) \in Nat
      OBVIOUS
    <3> QED
      BY <2>3, <3>2, <3>3
  <2>5. fields[FIELD_BSIZE].ivalue = (48 + k + l) - 32
    <3>1. End(m) = 13
      BY <2>1 DEF End
    <3>2. At(m, Names, 13) = 48 + k + l
      BY <2>1, <2>4, AtConnect
    <3> QED
      BY <2>2, <3>1, <3>2 DEF Full
  <2>6. HeaderSize(fields) = 32
    BY <2>2, HeaderIs
  <2>7. (48 + k + l) - 32 >= 32
    BY <2>4, RoomLeft
  <2> QED
    BY <2>5, <2>6, <2>7
<1> QED
  BY <1>1, ApiAlways, PTL

\* The client, its packets and the object it shares always have their types.
THEOREM ProtocolTypes ==
  ASSUME CrcIsLong
  PROVE  Spec => []TypeOK
<1>1. PacketInv /\ ApiInv => TypeOK
  BY InvPacketTypeOK DEF ApiInv, ApiTypeOK, Places, TypeOK
<1> QED
  BY <1>1, ApiAlways, PTL

\* Whatever any number of threads call, while the server runs: a packet begins only
\* when the one before it was dealt with, in the order of one conversation, and on the
\* connection nothing goes between a CONNECT and the end of its answer, whatever
\* number of farewells goes after that.
THEOREM ConversationsNeverMix ==
  ASSUME CrcIsLong
  PROVE  Spec => OneConversation
<1>1. PacketInv /\ ApiInv /\ [Next]_vars =>
        [up =>
           /\ msg' # msg =>
                \/ msg = "none" /\ msg' = "CONNECT"
                \/ at = "end" /\ ret = "ok" /\ <<msg, msg'>> \in {<<"CONNECT", "CONNECT_RESP">>,
                                                                  <<"CONNECT_RESP", "DISCONNECT">>}
           /\ stream' # stream =>
                \/ stream = <<>> /\ stream' = <<"CONNECT">>
                \/ msg = "DISCONNECT" /\ stream' = Append(stream, "DISCONNECT")]_vars
  BY ApiKept, StreamKept DEF Converses, Speaks
<1> QED
  BY <1>1, ApiAlways, PTL DEF Spec, OneConversation
=============================================================================
