---------------------------- MODULE WireFormatProofs ----------------------------
(***************************************************************************)
(* The codec of WireFormat proved for every format: what is decoded is     *)
(* what was encoded, truncated as the serializer truncates it.  With it,   *)
(* the invariants of the datagram's way for every value of the constants.  *)
(***************************************************************************)
EXTENDS WireFormat, SequenceTheorems, WellFoundedInduction, TLAPS

(* A set of numbers that has a member has a least one.                     *)
LEMMA LeastNumber ==
  ASSUME NEW S \in SUBSET Nat, S # {}
  PROVE  \E n \in S : \A m \in S : n <= m
<1>1. IsWellFoundedOn(OpToRel(<, Nat), Nat)
  BY NatLessThanWellFounded
<1>2. PICK n \in S : \A m \in S : <<m, n>> \notin OpToRel(<, Nat)
  BY <1>1, WFMin
<1>3. \A m \in S : ~(m < n)
  BY <1>2 DEF OpToRel
<1> QED BY <1>3

(* Induction over a set instead of a predicate, which a lemma cannot be    *)
(* given here: what the recursive functions of the codec compute is proved *)
(* with it.                                                                *)
LEMMA Induction ==
  ASSUME NEW S, 0 \in S, \A n \in Nat : n \in S => n + 1 \in S
  PROVE  Nat \subseteq S
<1> SUFFICES ASSUME Nat \ S # {} PROVE FALSE
    OBVIOUS
<1>1. PICK n \in Nat \ S : \A m \in Nat \ S : n <= m
  BY LeastNumber
<1>2. n # 0 /\ n - 1 \in Nat /\ n - 1 + 1 = n
  BY <1>1
<1>3. n - 1 \in S
  BY <1>1, <1>2
<1> QED BY <1>1, <1>2, <1>3

(* The beginnings of a concatenation, as FlattenSeq builds them one part   *)
(* after the other.                                                        *)
Joined(s, p) ==
  p = [i \in 1..Len(s) |-> IF i = 1 THEN s[i] ELSE p[i - 1] \o s[i]]

(* There is such a function for every sequence, so the recursive function  *)
(* that flattens it is one and not an arbitrary value.                     *)
LEMMA JoinedExists ==
  ASSUME NEW s, Len(s) \in Nat
  PROVE  \E p : Joined(s, p)
<1> DEFINE Good(n) == \E p : p = [i \in 1..n |-> IF i = 1 THEN s[i] ELSE p[i - 1] \o s[i]]
           S == {n \in Nat : Good(n)}
<1>1. 0 \in S
  <2>1. Good(0)
    <3> DEFINE p == [i \in 1..0 |-> s[i]]
    <3>1. p = [i \in 1..0 |-> IF i = 1 THEN s[i] ELSE p[i - 1] \o s[i]]
      OBVIOUS
    <3> QED BY <3>1
  <2> QED BY <2>1
<1>2. ASSUME NEW n \in Nat, n \in S PROVE n + 1 \in S
  <2>1. PICK p : p = [i \in 1..n |-> IF i = 1 THEN s[i] ELSE p[i - 1] \o s[i]]
    BY <1>2
  <2> DEFINE q == [i \in 1..(n + 1) |-> IF i \in 1..n THEN p[i]
                                        ELSE IF i = 1 THEN s[i] ELSE p[i - 1] \o s[i]]
  <2>2. ASSUME NEW i \in 1..(n + 1)
        PROVE  q[i] = IF i = 1 THEN s[i] ELSE q[i - 1] \o s[i]
    <3>1. CASE i \in 1..n
      <4>1. i # 1 => i - 1 \in 1..n
        BY <3>1
      <4>2. p[i] = IF i = 1 THEN s[i] ELSE p[i - 1] \o s[i]
        BY <2>1, <3>1
      <4>3. i # 1 => q[i - 1] = p[i - 1]
        BY <4>1
      <4>4. q[i] = p[i]
        BY <3>1
      <4> HIDE DEF q
      <4> QED BY <4>2, <4>3, <4>4
    <3>2. CASE i \notin 1..n
      <4>1. i # 1 => i - 1 \in 1..n
        BY <3>2
      <4>2. i # 1 => q[i - 1] = p[i - 1]
        BY <4>1
      <4>3. q[i] = IF i = 1 THEN s[i] ELSE p[i - 1] \o s[i]
        BY <3>2
      <4> HIDE DEF q
      <4> QED BY <4>2, <4>3
    <3> QED BY <3>1, <3>2
  <2>3. q = [i \in 1..(n + 1) |-> IF i = 1 THEN s[i] ELSE q[i - 1] \o s[i]]
    <3>1. q = [i \in 1..(n + 1) |-> q[i]]
      OBVIOUS
    <3> HIDE DEF q
    <3> QED BY <2>2, <3>1
  <2>4. Good(n + 1)
    <3> HIDE DEF q
    <3> QED BY <2>3
  <2> HIDE DEF Good
  <2> QED BY <2>4
<1>3. Nat \subseteq S
  <2> HIDE DEF S
  <2> QED BY <1>1, <1>2, Induction
<1>4. Good(Len(s))
  BY <1>3
<1> QED BY <1>4 DEF Joined

(* FlattenSeq gives the last of the beginnings.                            *)
LEMMA FlattenIsJoined ==
  ASSUME NEW s, Len(s) \in Nat \ {0}
  PROVE  \E p : Joined(s, p) /\ FlattenSeq(s) = p[Len(s)]
<1> DEFINE p == CHOOSE p : Joined(s, p)
<1>1. Joined(s, p)
  BY JoinedExists
<1>2. FlattenSeq(s) = p[Len(s)]
  BY DEF FlattenSeq, Joined
<1> QED BY <1>1, <1>2

-----------------------------------------------------------------------------
(* The values of a byte.                                                   *)
Byte == 0..(Base - 1)

(* A value is truncated to its length modulo what its prefix can count,    *)
(* and kept if it fits.                                                    *)
LEMMA FieldTypes ==
  ASSUME NEW v \in Seq(Byte), NEW k \in {0, 1, 2}
  PROVE  /\ Truncated(v, k) \in Seq(Byte)
         /\ Len(Truncated(v, k)) <= Len(v)
         /\ k # 0 => Len(Truncated(v, k)) = Len(v) % Place[k + 1]
         /\ (k = 0 \/ Len(v) < Place[k + 1]) => Truncated(v, k) = v
<1>1. Base \in Nat /\ Base >= 16 /\ Base * Base \in Nat /\ Base * Base > 0
  BY ByteAssumption
<1>2. Len(v) \in Nat /\ \A i \in 1..Len(v) : v[i] \in Byte
  BY LenProperties, ElementOfSeq
<1>3. CASE k = 0
  BY <1>2, <1>3 DEF Truncated
<1>4. CASE k # 0
  <2> DEFINE n == Len(v) % Place[k + 1]
  <2>1. Place[k + 1] \in Nat /\ Place[k + 1] > 0
    BY <1>1, <1>4 DEF Place
  <2>2. n \in Nat /\ n <= Len(v) /\ (Len(v) < Place[k + 1] => n = Len(v))
    BY <1>2, <2>1
  <2> HIDE DEF n
  <2>3. Truncated(v, k) = SubSeq(v, 1, n)
    BY <1>4 DEF Truncated, n
  <2>4. SubSeq(v, 1, n) \in Seq(Byte) /\ Len(SubSeq(v, 1, n)) = n
    BY <1>2, <2>2, SubSeqProperties
  <2>5. n = Len(v) => SubSeq(v, 1, n) = v
    BY SubSeqFull
  <2> QED BY <1>4, <2>2, <2>3, <2>4, <2>5 DEF n
<1> QED BY <1>3, <1>4

(* A length that fits its bytes can be read from them: what the            *)
(* serializer's shifts write, the deserializer's shifts add up again.      *)
LEMMA LengthWritten ==
  ASSUME NEW k \in {1, 2}, NEW n \in Nat, n < Place[k + 1]
  PROVE  /\ LittleEndian(n, k) \in Seq(Byte)
         /\ Len(LittleEndian(n, k)) = k
         /\ LittleEndian(n, k)[1] + (IF k = 2 THEN Base * LittleEndian(n, k)[2] ELSE 0) = n
<1>1. Base \in Nat /\ Base >= 16
  BY ByteAssumption
<1>2. n % Base \in Byte /\ n \div Base \in Nat /\ n = (Base * (n \div Base)) + (n % Base)
  BY <1>1 DEF Byte
<1>3. CASE k = 1
  <2>1. n % Base = n
    BY <1>1, <1>3 DEF Place
  <2>2. n \div 1 = n
    OBVIOUS
  <2>3. LittleEndian(n, k) = <<n % Base>>
    BY <1>3, <2>2 DEF LittleEndian, Place
  <2>4. <<n>> \in Seq(Byte) /\ Len(<<n>>) = 1 /\ <<n>>[1] = n
    BY <1>2, <2>1
  <2>5. LittleEndian(n, k) = <<n>>
    BY <2>1, <2>3
  <2>6. LittleEndian(n, k)[1] + (IF k = 2 THEN Base * LittleEndian(n, k)[2] ELSE 0) = n
    BY <1>3, <2>4, <2>5
  <2>7. LittleEndian(n, k) \in Seq(Byte) /\ Len(LittleEndian(n, k)) = k
    BY <1>3, <2>4, <2>5
  <2> QED BY <2>6, <2>7
<1>4. CASE k = 2
  <2>1. n \div Base < Base
    BY <1>1, <1>4 DEF Place
  <2>2. (n \div Base) % Base = n \div Base /\ n \div Base \in Byte
    BY <1>1, <1>2, <2>1 DEF Byte
  <2>3. n \div 1 = n
    OBVIOUS
  <2>4. LittleEndian(n, k) = <<n % Base, n \div Base>>
    BY <1>4, <2>2, <2>3 DEF LittleEndian, Place
  <2> DEFINE low == n % Base
             high == n \div Base
  <2>5. low \in Byte /\ high \in Byte /\ low + (Base * high) = n
    BY <1>1, <1>2, <2>2 DEF Byte
  <2> HIDE DEF low, high
  <2>6. <<low, high>> \in Seq(Byte) /\ Len(<<low, high>>) = 2
    BY <2>5
  <2>7. LittleEndian(n, k) = <<low, high>>
    BY <2>4 DEF low, high
  <2>8. LittleEndian(n, k)[1] = low /\ LittleEndian(n, k)[2] = high
    BY <2>7
  <2>9. LittleEndian(n, k)[1] + (IF k = 2 THEN Base * LittleEndian(n, k)[2] ELSE 0) = n
    BY <1>4, <2>5, <2>8
  <2>10. LittleEndian(n, k) \in Seq(Byte) /\ Len(LittleEndian(n, k)) = k
    BY <1>4, <2>6, <2>7
  <2> QED BY <2>9, <2>10
<1> QED BY <1>3, <1>4

(* The part stands in the buffer behind the first "at" bytes.              *)
Carries(buffer, at, part) ==
  \A i \in 1..Len(part) : at + i \in DOMAIN buffer /\ buffer[at + i] = part[i]

(* What a buffer carries it still carries when bytes are appended.         *)
LEMMA CarriesFront ==
  ASSUME NEW S, NEW a \in Seq(S), NEW b \in Seq(S), NEW part \in Seq(S), NEW at \in Nat,
         Carries(a, at, part)
  PROVE  Carries(a \o b, at, part)
<1> SUFFICES ASSUME NEW i \in 1..Len(part)
             PROVE  at + i \in DOMAIN (a \o b) /\ (a \o b)[at + i] = part[i]
  BY DEF Carries
<1> DEFINE k == at + i
<1>1. k \in DOMAIN a /\ a[k] = part[i]
  BY DEF Carries
<1>2. DOMAIN a = 1..Len(a) /\ Len(a) \in Nat /\ Len(b) \in Nat
  BY LenProperties
<1>3. a \o b \in Seq(S) /\ Len(a \o b) = Len(a) + Len(b)
  BY ConcatProperties
<1>4. DOMAIN (a \o b) = 1..(Len(a) + Len(b))
  BY <1>3, LenProperties
<1> HIDE DEF k
<1>5. k \in 1..(Len(a) + Len(b)) /\ k <= Len(a)
  BY <1>1, <1>2
<1>6. (a \o b)[k] = a[k]
  BY <1>5, ConcatProperties
<1> QED BY <1>1, <1>4, <1>5, <1>6 DEF k

(* What is appended is carried at the end.                                 *)
LEMMA CarriesBack ==
  ASSUME NEW S, NEW a \in Seq(S), NEW part \in Seq(S)
  PROVE  Carries(a \o part, Len(a), part)
<1> SUFFICES ASSUME NEW i \in 1..Len(part)
             PROVE  Len(a) + i \in DOMAIN (a \o part) /\ (a \o part)[Len(a) + i] = part[i]
  BY DEF Carries
<1> DEFINE k == Len(a) + i
<1>1. Len(a) \in Nat /\ Len(part) \in Nat
  BY LenProperties
<1>2. a \o part \in Seq(S) /\ Len(a \o part) = Len(a) + Len(part)
  BY ConcatProperties
<1>3. DOMAIN (a \o part) = 1..(Len(a) + Len(part))
  BY <1>2, LenProperties
<1>4. k \in 1..(Len(a) + Len(part)) /\ ~(k <= Len(a)) /\ k - Len(a) = i
  BY <1>1
<1> HIDE DEF k
<1>5. (a \o part)[k] = part[i]
  BY <1>4, ConcatProperties
<1> QED BY <1>3, <1>4, <1>5 DEF k

(* A field is its prefix and as much of its value as the prefix tells.     *)
LEMMA FieldWritten ==
  ASSUME NEW v \in Seq(Byte), NEW k \in {0, 1, 2}
  PROVE  /\ EncodeField(v, k) \in Seq(Byte)
         /\ Len(EncodeField(v, k)) = k + Len(Truncated(v, k))
         /\ k = 0 => EncodeField(v, k) = Truncated(v, k)
         /\ k # 0 => Len(Truncated(v, k)) < Place[k + 1]
         /\ k # 0 => EncodeField(v, k) = LittleEndian(Len(Truncated(v, k)), k) \o Truncated(v, k)
<1>1. Truncated(v, k) \in Seq(Byte) /\ Len(Truncated(v, k)) \in Nat
  <2>1. Truncated(v, k) \in Seq(Byte)
    BY FieldTypes
  <2> QED BY <2>1, LenProperties
<1>2. CASE k = 0
  BY <1>1, <1>2 DEF EncodeField, Truncated
<1>3. CASE k # 0
  <2> DEFINE n == Len(Truncated(v, k))
  <2>1. n = Len(v) % Place[k + 1]
    BY <1>3, FieldTypes
  <2>2. Len(v) \in Nat /\ Place[k + 1] \in Nat \ {0}
    BY <1>3, LenProperties, ByteAssumption DEF Place
  <2>3. n \in Nat /\ n < Place[k + 1]
    BY <2>1, <2>2
  <2>4. EncodeField(v, k) = LittleEndian(n, k) \o Truncated(v, k)
    BY <1>3, <2>1 DEF EncodeField, Truncated
  <2>5. LittleEndian(n, k) \in Seq(Byte) /\ Len(LittleEndian(n, k)) = k
    BY <1>3, <2>3, LengthWritten
  <2> HIDE DEF n
  <2>6. EncodeField(v, k) \in Seq(Byte) /\ Len(EncodeField(v, k)) = k + Len(Truncated(v, k))
    BY <1>1, <2>4, <2>5, ConcatProperties
  <2> QED BY <1>3, <2>3, <2>4, <2>6 DEF n
<1> QED BY <1>2, <1>3

(* A field read where it was written gives the truncated value, and the    *)
(* pointer moves by what was written.  The rest of the buffer does not     *)
(* matter.                                                                 *)
LEMMA FieldRead ==
  ASSUME NEW v \in Seq(Byte), NEW k \in {0, 1, 2}, k = 0 => Len(v) = FixedSize,
         NEW buffer, NEW at \in Nat, Carries(buffer, at, EncodeField(v, k))
  PROVE  /\ LengthAt(buffer, at + 1, k) = Len(Truncated(v, k))
         /\ ValueAt(buffer, at + 1, k) = Truncated(v, k)
<1> DEFINE field == EncodeField(v, k)
           value == Truncated(v, k)
<1>1. /\ field \in Seq(Byte) /\ Len(field) = k + Len(value)
      /\ value \in Seq(Byte) /\ Len(value) \in Nat /\ k \in Nat
  <2>1. field \in Seq(Byte) /\ Len(field) = k + Len(value)
    BY FieldWritten
  <2>2. value \in Seq(Byte)
    BY FieldTypes
  <2> HIDE DEF field, value
  <2> QED BY <2>1, <2>2, LenProperties
<1>2. ASSUME NEW i \in 1..Len(field)
      PROVE  ByteAt(buffer, at + i) = field[i]
  BY <1>2 DEF Carries, ByteAt
<1>3. LengthAt(buffer, at + 1, k) = Len(value)
  <2>1. CASE k = 0
    BY <2>1 DEF LengthAt, Truncated
  <2>2. CASE k # 0
    <3> DEFINE digits == LittleEndian(Len(value), k)
    <3>1. /\ Len(value) < Place[k + 1] /\ field = digits \o value
      BY <2>2, FieldWritten
    <3>2. /\ digits \in Seq(Byte) /\ Len(digits) = k
          /\ digits[1] + (IF k = 2 THEN Base * digits[2] ELSE 0) = Len(value)
      BY <1>1, <2>2, <3>1, LengthWritten
    <3> HIDE DEF digits, field, value
    <3>3. field[1] = digits[1] /\ (k = 2 => field[2] = digits[2])
      BY <1>1, <2>2, <3>1, <3>2, ConcatProperties
    <3>4. ByteAt(buffer, at + 1) = field[1] /\ (k = 2 => ByteAt(buffer, at + 2) = field[2])
      BY <1>1, <1>2, <2>2
    <3>5. at + 1 + 1 = at + 2
      BY <1>1
    <3> QED BY <2>2, <3>2, <3>3, <3>4, <3>5 DEF LengthAt
  <2> QED BY <2>1, <2>2
<1>4. ASSUME NEW j \in 1..Len(value)
      PROVE  ByteAt(buffer, at + 1 + k + j - 1) = value[j]
  <2>1. field[k + j] = value[j]
    <3>1. CASE k = 0
      BY <3>1, FieldWritten
    <3>2. CASE k # 0
      <4> DEFINE digits == LittleEndian(Len(value), k)
      <4>1. /\ Len(value) < Place[k + 1] /\ field = digits \o value
        BY <3>2, FieldWritten
      <4>2. digits \in Seq(Byte) /\ Len(digits) = k
        BY <1>1, <3>2, <4>1, LengthWritten
      <4> HIDE DEF digits, field, value
      <4> QED BY <1>1, <1>4, <3>2, <4>1, <4>2, ConcatProperties
    <3> QED BY <3>1, <3>2
  <2>2. k + j \in 1..Len(field) /\ at + 1 + k + j - 1 = at + (k + j)
    BY <1>1, <1>4
  <2> HIDE DEF field, value
  <2> QED BY <1>2, <2>1, <2>2
<1>5. ValueAt(buffer, at + 1, k) = [j \in 1..Len(value) |-> value[j]]
  <2> HIDE DEF value
  <2> QED BY <1>3, <1>4 DEF ValueAt
<1>6. value = [j \in 1..Len(value) |-> value[j]]
  <2> HIDE DEF value
  <2> QED BY <1>1, LenProperties
<1> QED BY <1>3, <1>5, <1>6

-----------------------------------------------------------------------------
(* The beginning the i-th part is appended to.                             *)
Before(p, i) == IF i = 1 THEN <<>> ELSE p[i - 1]

(* One step of the recursion.                                              *)
LEMMA JoinedStep ==
  ASSUME NEW s, NEW p, Joined(s, p), NEW i \in 1..Len(s)
  PROVE  p[i] = IF i = 1 THEN s[i] ELSE p[i - 1] \o s[i]
<1> DEFINE f == [k \in 1..Len(s) |-> IF k = 1 THEN s[k] ELSE p[k - 1] \o s[k]]
<1>1. f[i] = IF i = 1 THEN s[i] ELSE p[i - 1] \o s[i]
  OBVIOUS
<1>2. p = f
  BY DEF Joined
<1> HIDE DEF f
<1> QED BY <1>1, <1>2

(* It determines the beginnings.                                           *)
LEMMA JoinedUnique ==
  ASSUME NEW s, Len(s) \in Nat, NEW p, NEW r, Joined(s, p), Joined(s, r)
  PROVE  \A i \in 1..Len(s) : p[i] = r[i]
<1> DEFINE G == {n \in Nat : n \in 1..Len(s) => p[n] = r[n]}
<1>1. 0 \in G
  OBVIOUS
<1>2. ASSUME NEW n \in Nat, n \in G PROVE n + 1 \in G
  <2>1. ASSUME n + 1 \in 1..Len(s) PROVE p[n + 1] = r[n + 1]
    <3> DEFINE m == n + 1
    <3>1. m \in 1..Len(s) /\ m - 1 = n
      BY <2>1
    <3>2. m # 1 => n \in 1..Len(s)
      BY <2>1
    <3>3. m # 1 => p[n] = r[n]
      <4> HIDE DEF m
      <4> QED BY <1>2, <3>2
    <3> HIDE DEF m, G
    <3>4. p[m] = IF m = 1 THEN s[m] ELSE p[m - 1] \o s[m]
      BY <3>1, JoinedStep
    <3>5. r[m] = IF m = 1 THEN s[m] ELSE r[m - 1] \o s[m]
      BY <3>1, JoinedStep
    <3>6. p[m] = r[m]
      BY <3>1, <3>3, <3>4, <3>5
    <3> QED BY <3>6 DEF m
  <2> QED BY <2>1
<1> HIDE DEF G
<1>3. Nat \subseteq G
  BY <1>1, <1>2, Induction
<1>4. ASSUME NEW i \in 1..Len(s) PROVE p[i] = r[i]
  <2>1. i \in G
    BY <1>3
  <2> QED BY <2>1 DEF G
<1> QED BY <1>4

(* Every beginning is a sequence: the one before with a field appended.    *)
LEMMA JoinedTypes ==
  ASSUME NEW S, NEW s \in Seq(Seq(S)), NEW p, Joined(s, p)
  PROVE  \A i \in 1..Len(s) : /\ p[i] \in Seq(S)
                              /\ Before(p, i) \in Seq(S)
                              /\ p[i] = Before(p, i) \o s[i]
<1> DEFINE Good(i) == p[i] \in Seq(S) /\ Before(p, i) \in Seq(S) /\ p[i] = Before(p, i) \o s[i]
           G == {n \in Nat : n \in 1..Len(s) => Good(n)}
<1>0. Len(s) \in Nat /\ \A i \in 1..Len(s) : s[i] \in Seq(S)
  BY LenProperties, ElementOfSeq
<1>1. 0 \in G
  OBVIOUS
<1>2. ASSUME NEW n \in Nat, n \in G PROVE n + 1 \in G
  <2>1. ASSUME n + 1 \in 1..Len(s) PROVE Good(n + 1)
    <3> DEFINE m == n + 1
    <3>1. m \in 1..Len(s) /\ m - 1 = n
      BY <2>1
    <3>2. n # 0 => n \in 1..Len(s) /\ m # 1
      BY <2>1
    <3>3. n # 0 => p[n] \in Seq(S)
      BY <1>2, <3>2
    <3>4. n = 0 => m = 1
      OBVIOUS
    <3> HIDE DEF m, G
    <3>5. s[m] \in Seq(S) /\ p[m] = IF m = 1 THEN s[m] ELSE p[m - 1] \o s[m]
      BY <1>0, <3>1, JoinedStep
    <3>6. CASE n = 0
      <4>1. Before(p, m) = <<>> /\ p[m] = s[m]
        BY <3>4, <3>5, <3>6 DEF Before
      <4>2. <<>> \in Seq(S)
        OBVIOUS
      <4>3. Good(m)
        BY <3>5, <4>1, <4>2, ConcatEmptySeq
      <4> QED BY <4>3 DEF m
    <3>7. CASE n # 0
      <4>1. Before(p, m) = p[n] /\ p[m] = p[n] \o s[m]
        BY <3>1, <3>2, <3>5, <3>7 DEF Before
      <4>2. Good(m)
        BY <3>3, <3>5, <3>7, <4>1, ConcatProperties
      <4> QED BY <4>2 DEF m
    <3> QED BY <3>6, <3>7
  <2> HIDE DEF Good
  <2> QED BY <2>1
<1> HIDE DEF G
<1>3. Nat \subseteq G
  BY <1>1, <1>2, Induction
<1>4. ASSUME NEW i \in 1..Len(s) PROVE Good(i)
  <2>1. i \in G
    BY <1>3
  <2> HIDE DEF Good
  <2> QED BY <2>1 DEF G
<1> QED BY <1>4

(* Every beginning carries each of its parts where the one before ended.   *)
LEMMA JoinedCarries ==
  ASSUME NEW S, NEW s \in Seq(Seq(S)), NEW p, Joined(s, p)
  PROVE  \A n \in 1..Len(s) : \A i \in 1..n : Carries(p[n], Len(Before(p, i)), s[i])
<1> DEFINE Good(n) == \A i \in 1..n : Carries(p[n], Len(Before(p, i)), s[i])
           G == {n \in Nat : n \in 1..Len(s) => Good(n)}
<1> Len(s) \in Nat
  BY LenProperties
<1>0. \A i \in 1..Len(s) : /\ p[i] \in Seq(S) /\ Before(p, i) \in Seq(S)
                            /\ p[i] = Before(p, i) \o s[i] /\ s[i] \in Seq(S)
  BY JoinedTypes, ElementOfSeq
<1>1. 0 \in G
  OBVIOUS
<1>2. ASSUME NEW n \in Nat, n \in G PROVE n + 1 \in G
  <2>1. ASSUME n + 1 \in 1..Len(s), NEW i \in 1..(n + 1)
        PROVE  Carries(p[n + 1], Len(Before(p, i)), s[i])
    <3> DEFINE m == n + 1
    <3>1. m \in 1..Len(s) /\ i \in 1..Len(s) /\ m - 1 = n
      BY <2>1
    <3>2. i # m => n \in 1..Len(s) /\ i \in 1..n /\ m # 1
      BY <2>1
    <3>3. i # m => Carries(p[n], Len(Before(p, i)), s[i])
      <4> HIDE DEF m
      <4> QED BY <1>2, <3>2
    <3> DEFINE a == Before(p, m)
               part == s[i]
    <3>4. /\ a \in Seq(S) /\ part \in Seq(S) /\ p[m] = a \o s[m] /\ s[m] \in Seq(S)
          /\ Len(Before(p, i)) \in Nat
      <4> HIDE DEF m
      <4> QED BY <1>0, <3>1, LenProperties
    <3>5. i # m => a = p[n]
      <4> HIDE DEF m
      <4> QED BY <3>1, <3>2 DEF Before
    <3> HIDE DEF m, G, a, part
    <3>6. CASE i = m
      <4>1. Carries(a \o part, Len(a), part)
        BY <3>4, CarriesBack
      <4> QED BY <3>4, <3>6, <4>1 DEF a, part, m
    <3>7. CASE i # m
      <4>1. Carries(a, Len(Before(p, i)), part)
        BY <3>3, <3>5, <3>7 DEF part
      <4>2. Carries(a \o s[m], Len(Before(p, i)), part)
        BY <3>4, <4>1, CarriesFront
      <4> QED BY <3>4, <4>2 DEF part, m
    <3> QED BY <3>6, <3>7
  <2>2. n + 1 \in 1..Len(s) => Good(n + 1)
    BY <2>1
  <2> HIDE DEF Good
  <2> QED BY <2>2
<1> HIDE DEF G
<1>3. Nat \subseteq G
  BY <1>1, <1>2, Induction
<1>4. ASSUME NEW n \in 1..Len(s) PROVE Good(n)
  <2>1. n \in G
    BY <1>3
  <2> HIDE DEF Good
  <2> QED BY <2>1 DEF G
<1> QED BY <1>4

(* Part by part not longer, not longer as a whole.                         *)
LEMMA JoinedLengths ==
  ASSUME NEW S, NEW s \in Seq(Seq(S)), NEW p, Joined(s, p),
         NEW t \in Seq(Seq(S)), NEW q, Joined(t, q),
         Len(t) = Len(s), \A i \in 1..Len(s) : Len(s[i]) <= Len(t[i])
  PROVE  \A i \in 1..Len(s) : Len(p[i]) <= Len(q[i])
<1> DEFINE G == {n \in Nat : n \in 1..Len(s) => Len(p[n]) <= Len(q[n])}
<1> Len(s) \in Nat
  BY LenProperties
<1>0. \A i \in 1..Len(s) : /\ Before(p, i) \in Seq(S) /\ p[i] = Before(p, i) \o s[i]
                            /\ Before(q, i) \in Seq(S) /\ q[i] = Before(q, i) \o t[i]
  <2>1. \A i \in 1..Len(s) : p[i] \in Seq(S) /\ Before(p, i) \in Seq(S) /\ p[i] = Before(p, i) \o s[i]
    BY JoinedTypes, ZenonT(60)
  <2>2. \A i \in 1..Len(t) : q[i] \in Seq(S) /\ Before(q, i) \in Seq(S) /\ q[i] = Before(q, i) \o t[i]
    BY JoinedTypes, SMTT(30)
  <2> QED BY <2>1, <2>2
<1>1. 0 \in G
  OBVIOUS
<1>2. ASSUME NEW n \in Nat, n \in G PROVE n + 1 \in G
  <2>1. ASSUME n + 1 \in 1..Len(s) PROVE Len(p[n + 1]) <= Len(q[n + 1])
    <3> DEFINE m == n + 1
    <3>1. m \in 1..Len(s) /\ m - 1 = n
      BY <2>1
    <3>2. m # 1 => n \in 1..Len(s)
      BY <2>1
    <3>3. m # 1 => Len(p[n]) <= Len(q[n])
      <4> HIDE DEF m
      <4> QED BY <1>2, <3>2
    <3> HIDE DEF m, G
    <3>4. Len(Before(p, m)) <= Len(Before(q, m))
      BY <3>1, <3>3 DEF Before
    <3> DEFINE a == Before(p, m)
               b == Before(q, m)
    <3>5. a \in Seq(S) /\ b \in Seq(S) /\ s[m] \in Seq(S) /\ t[m] \in Seq(S)
      BY <1>0, <3>1, ElementOfSeq
    <3>6. p[m] = a \o s[m] /\ q[m] = b \o t[m]
      BY <1>0, <3>1
    <3>7. Len(a) <= Len(b) /\ Len(s[m]) <= Len(t[m])
      BY <3>1, <3>4
    <3> HIDE DEF a, b
    <3>8. Len(p[m]) = Len(a) + Len(s[m]) /\ Len(q[m]) = Len(b) + Len(t[m])
      BY <3>5, <3>6, ConcatProperties
    <3>9. Len(a) \in Nat /\ Len(b) \in Nat /\ Len(s[m]) \in Nat /\ Len(t[m]) \in Nat
      BY <3>5, LenProperties
    <3>10. Len(p[m]) <= Len(q[m])
      BY <3>7, <3>8, <3>9
    <3> QED BY <3>10 DEF m
  <2> QED BY <2>1
<1> HIDE DEF G
<1>3. Nat \subseteq G
  BY <1>1, <1>2, Induction
<1>4. ASSUME NEW i \in 1..Len(s) PROVE Len(p[i]) <= Len(q[i])
  <2>1. i \in G
    BY <1>3
  <2> QED BY <2>1 DEF G
<1> QED BY <1>4

-----------------------------------------------------------------------------
(* A function that moves like the deserializer's pointer is the pointer.   *)
LEMMA StartsAre ==
  ASSUME NEW format, Len(format) \in Nat, NEW buffer, NEW w,
         w = [i \in 1..(Len(format) + 1) |->
                IF i = 1 THEN 1
                ELSE w[i - 1] + format[i - 1].prefix
                       + LengthAt(buffer, w[i - 1], format[i - 1].prefix)]
  PROVE  Starts(format, buffer) = w
<1> DEFINE n == Len(format) + 1
           Behind(g, i) == IF i = 1 THEN 1
                          ELSE g[i - 1] + format[i - 1].prefix
                                 + LengthAt(buffer, g[i - 1], format[i - 1].prefix)
           s == Starts(format, buffer)
<1>1. s = [i \in 1..n |-> Behind(s, i)]
  <2>1. s = CHOOSE g : g = [i \in 1..n |-> Behind(g, i)]
    BY DEF Starts
  <2>2. \E g : g = [i \in 1..n |-> Behind(g, i)]
    OBVIOUS
  <2> HIDE DEF s, Behind
  <2> QED BY <2>1, <2>2
<1>2. w = [i \in 1..n |-> Behind(w, i)]
  OBVIOUS
<1> DEFINE G == {i \in Nat : i \in 1..n => s[i] = w[i]}
<1>3. 0 \in G
  OBVIOUS
<1>4. ASSUME NEW i \in Nat, i \in G PROVE i + 1 \in G
  <2>1. ASSUME i + 1 \in 1..n PROVE s[i + 1] = w[i + 1]
    <3> DEFINE m == i + 1
    <3>1. m \in 1..n /\ m - 1 = i
      BY <2>1
    <3>2. m # 1 => i \in 1..n
      BY <2>1
    <3>3. m # 1 => s[i] = w[i]
      <4> HIDE DEF m, s, n
      <4> QED BY <1>4, <3>2
    <3>4. s[m] = Behind(s, m) /\ w[m] = Behind(w, m)
      <4> HIDE DEF m, s, n, Behind
      <4> QED BY <1>1, <1>2, <3>1
    <3>5. Behind(s, m) = Behind(w, m)
      <4> HIDE DEF m, s, n, G
      <4> QED BY <3>1, <3>3
    <3> HIDE DEF s, Behind, n
    <3> QED BY <3>4, <3>5
  <2> HIDE DEF s, n
  <2> QED BY <2>1
<1> HIDE DEF G
<1>5. Nat \subseteq G
  BY <1>3, <1>4, Induction
<1>6. \A i \in 1..n : s[i] = w[i]
  <2> HIDE DEF s, n
  <2>1. n \in Nat
    BY DEF n
  <2>2. \A i \in 1..n : i \in Nat
    BY <2>1
  <2> QED BY <1>5, <2>2 DEF G
<1>7. s = [i \in 1..n |-> s[i]] /\ w = [i \in 1..n |-> w[i]]
  <2> HIDE DEF s, n, Behind
  <2> QED BY <1>1, <1>2
<1> HIDE DEF n, s
<1>8. s = w
  BY <1>6, <1>7
<1> QED BY <1>8 DEF s

(* What the codec expects of a format: some fields, named differently,     *)
ProperFormat(format) ==
  /\ Len(format) \in Nat \ {0} /\ DOMAIN format = 1..Len(format)
  /\ \A i \in DOMAIN format : format[i].prefix \in {0, 1, 2}
  /\ \A i, j \in DOMAIN format : format[i].name = format[j].name => i = j

(* and of the values: bytes, and of the fixed size where nothing tells it. *)
ProperValues(format, values) ==
  \A i \in DOMAIN format :
    /\ values[format[i].name] \in Seq(Byte)
    /\ format[i].prefix = 0 => Len(values[format[i].name]) = FixedSize

(* The fields as Encode writes them,                                       *)
Fields(format, values) ==
  [i \in DOMAIN format |-> EncodeField(values[format[i].name], format[i].prefix)]

(* and the room it makes for them.                                         *)
Zeros(format, values) ==
  [i \in DOMAIN format |-> Bytes(0, format[i].prefix + Len(values[format[i].name]))]

(* The fields and the room made for them, field by field large enough.     *)
LEMMA FieldsTypes ==
  ASSUME NEW format, NEW values, ProperFormat(format), ProperValues(format, values)
  PROVE  /\ Fields(format, values) \in Seq(Seq(Byte))
         /\ Len(Fields(format, values)) = Len(format)
         /\ Zeros(format, values) \in Seq(Seq(Byte))
         /\ Len(Zeros(format, values)) = Len(format)
         /\ \A i \in 1..Len(format) :
              /\ Len(Zeros(format, values)[i]) = format[i].prefix + Len(values[format[i].name])
              /\ Len(Fields(format, values)[i]) <= Len(Zeros(format, values)[i])
<1> DEFINE n == Len(format)
           v(i) == values[format[i].name]
           k(i) == format[i].prefix
<1>1. n \in Nat /\ DOMAIN format = 1..n
  BY DEF ProperFormat
<1>2. ASSUME NEW i \in 1..n
      PROVE  /\ EncodeField(v(i), k(i)) \in Seq(Byte)
             /\ Bytes(0, k(i) + Len(v(i))) \in Seq(Byte)
             /\ Len(Bytes(0, k(i) + Len(v(i)))) = k(i) + Len(v(i))
             /\ Len(EncodeField(v(i), k(i))) <= k(i) + Len(v(i))
  <2> DEFINE vi == v(i)
             ki == k(i)
  <2>1. vi \in Seq(Byte) /\ ki \in {0, 1, 2}
    BY <1>1 DEF ProperFormat, ProperValues
  <2> HIDE DEF vi, ki
  <2>2. EncodeField(vi, ki) \in Seq(Byte) /\ Len(EncodeField(vi, ki)) = ki + Len(Truncated(vi, ki))
    BY <2>1, FieldWritten
  <2>3. Truncated(vi, ki) \in Seq(Byte) /\ Len(Truncated(vi, ki)) <= Len(vi)
    BY <2>1, FieldTypes
  <2>4. Len(vi) \in Nat /\ Len(Truncated(vi, ki)) \in Nat /\ ki \in Nat
    BY <2>1, <2>3, LenProperties
  <2>5. ki + Len(vi) \in Nat
    BY <2>4
  <2>6. 0 \in Byte
    BY ByteAssumption DEF Byte
  <2>7. Bytes(0, ki + Len(vi)) \in Seq(Byte) /\ Len(Bytes(0, ki + Len(vi))) = ki + Len(vi)
    BY <2>5, <2>6 DEF Bytes
  <2> QED BY <2>2, <2>3, <2>4, <2>7 DEF vi, ki
<1>3. Fields(format, values) = [i \in 1..n |-> EncodeField(v(i), k(i))]
  BY <1>1 DEF Fields
<1>4. Zeros(format, values) = [i \in 1..n |-> Bytes(0, k(i) + Len(v(i)))]
  BY <1>1 DEF Zeros
<1> HIDE DEF n, v, k
<1>5. Fields(format, values) \in Seq(Seq(Byte)) /\ Len(Fields(format, values)) = n
  BY <1>1, <1>2, <1>3
<1>6. Zeros(format, values) \in Seq(Seq(Byte)) /\ Len(Zeros(format, values)) = n
  BY <1>1, <1>2, <1>4
<1>7. \A i \in 1..n : /\ Len(Zeros(format, values)[i]) = k(i) + Len(v(i))
                      /\ Len(Fields(format, values)[i]) <= Len(Zeros(format, values)[i])
  BY <1>2, <1>3, <1>4
<1> QED BY <1>5, <1>6, <1>7 DEF n, v, k

(* An encoding carries each field behind the one before; it has room for   *)
(* every value as it was, and nothing but the fields in it if none was     *)
(* truncated.                                                              *)
LEMMA EncodeShape ==
  ASSUME NEW format, NEW values, ProperFormat(format), ProperValues(format, values),
         NEW p, Joined(Fields(format, values), p)
  PROVE  LET n == Len(format)
             buffer == Encode(format, values)
         IN  /\ buffer \in Seq(Byte)
             /\ Len(p[n]) <= Len(buffer)
             /\ \A i \in 1..n : format[i].prefix + Len(values[format[i].name]) <= Len(buffer)
             /\ \A i \in 1..n : Carries(buffer, Len(Before(p, i)), Fields(format, values)[i])
             /\ (\A i \in 1..n : Len(Fields(format, values)[i]) =
                                  format[i].prefix + Len(values[format[i].name]))
                  => buffer = p[n]
<1> DEFINE n == Len(format)
           fields == Fields(format, values)
           zeros == Zeros(format, values)
           buffer == Encode(format, values)
<1>1. n \in 1..n /\ n \in Nat \ {0}
  BY DEF ProperFormat
<1>2. /\ fields \in Seq(Seq(Byte)) /\ Len(fields) = n
      /\ zeros \in Seq(Seq(Byte)) /\ Len(zeros) = n
      /\ \A i \in 1..n : Len(zeros[i]) = format[i].prefix + Len(values[format[i].name])
      /\ \A i \in 1..n : Len(fields[i]) <= Len(zeros[i])
  BY FieldsTypes
<1>3. PICK q : Joined(zeros, q) /\ FlattenSeq(zeros) = q[n]
  <2> HIDE DEF zeros, n
  <2> QED BY <1>1, <1>2, FlattenIsJoined
<1>4. FlattenSeq(fields) = p[n]
  <2>1. Len(fields) = n /\ n \in Nat \ {0} /\ Joined(fields, p)
    BY <1>1, <1>2
  <2> HIDE DEF fields, n
  <2>2. PICK r : Joined(fields, r) /\ FlattenSeq(fields) = r[n]
    BY <2>1, FlattenIsJoined
  <2>3. \A i \in 1..Len(fields) : p[i] = r[i]
    BY <2>1, <2>2, JoinedUnique
  <2> QED BY <1>1, <2>1, <2>2, <2>3
<1> DEFINE a == p[n]
           z == q[n]
<1>5. buffer = a \o SubSeq(z, Len(a) + 1, Len(z))
  BY <1>3, <1>4 DEF Encode, Fields, Zeros
<1> HIDE DEF n, fields, zeros, buffer
<1>6. /\ \A i \in 1..n : p[i] \in Seq(Byte) /\ Before(p, i) \in Seq(Byte) /\ fields[i] \in Seq(Byte)
      /\ \A i \in 1..n : q[i] \in Seq(Byte) /\ Before(q, i) \in Seq(Byte) /\ zeros[i] \in Seq(Byte)
  <2>1. \A i \in 1..Len(fields) : p[i] \in Seq(Byte) /\ Before(p, i) \in Seq(Byte)
    BY <1>2, JoinedTypes DEF fields
  <2>2. \A i \in 1..Len(zeros) : q[i] \in Seq(Byte) /\ Before(q, i) \in Seq(Byte)
    BY <1>2, <1>3, JoinedTypes
  <2> QED BY <1>2, <2>1, <2>2, ElementOfSeq
<1>7. a \in Seq(Byte) /\ z \in Seq(Byte)
  BY <1>1, <1>6
<1>8. Len(a) <= Len(z)
  <2>1. \A i \in 1..Len(fields) : Len(p[i]) <= Len(q[i])
    BY <1>2, <1>3, JoinedLengths DEF fields
  <2> QED BY <1>1, <1>2, <2>1
<1>9. Len(a) \in Nat /\ Len(z) \in Nat
  BY <1>7, LenProperties
<1>10. \A i \in 1..n : Carries(a, Len(Before(p, i)), fields[i])
  <2>1. \A m \in 1..Len(fields) : \A i \in 1..m : Carries(p[m], Len(Before(p, i)), fields[i])
    BY <1>2, JoinedCarries DEF fields
  <2> QED BY <1>1, <1>2, <2>1
<1>11. \A i \in 1..n : Carries(z, Len(Before(q, i)), zeros[i])
  <2>1. \A m \in 1..Len(zeros) : \A i \in 1..m : Carries(q[m], Len(Before(q, i)), zeros[i])
    BY <1>2, <1>3, JoinedCarries
  <2> QED BY <1>1, <1>2, <2>1
<1> DEFINE rest == SubSeq(z, Len(a) + 1, Len(z))
<1> HIDE DEF a, z
<1>12. rest \in Seq(Byte) /\ Len(rest) = Len(z) - Len(a)
  <2>1. \A i \in (Len(a) + 1)..Len(z) : z[i] \in Byte
    BY <1>7, <1>9, ElementOfSeq
  <2>2. rest \in Seq(Byte) /\ Len(rest) = IF Len(a) + 1 <= Len(z) THEN Len(z) - (Len(a) + 1) + 1 ELSE 0
    BY <1>9, <2>1, SubSeqProperties
  <2> HIDE DEF rest
  <2> QED BY <1>8, <1>9, <2>2
<1> HIDE DEF rest
<1>13. buffer = a \o rest
  BY <1>5 DEF rest
<1>14. buffer \in Seq(Byte) /\ Len(buffer) = Len(z)
  BY <1>7, <1>8, <1>9, <1>12, <1>13, ConcatProperties
<1>15. ASSUME NEW i \in 1..n
       PROVE  Carries(buffer, Len(Before(p, i)), fields[i])
  <2> DEFINE part == fields[i]
             at == Len(Before(p, i))
  <2>1. part \in Seq(Byte) /\ at \in Nat /\ Carries(a, at, part)
    BY <1>6, <1>10, LenProperties
  <2> HIDE DEF part, at
  <2>2. Carries(buffer, at, part)
    BY <1>7, <1>12, <1>13, <2>1, CarriesFront
  <2> QED BY <2>2 DEF part, at
<1>16. ASSUME NEW i \in 1..n
       PROVE  Len(zeros[i]) <= Len(buffer)
  <2> DEFINE l == Len(zeros[i])
             at == Len(Before(q, i))
  <2>1. l \in Nat /\ at \in Nat
    BY <1>6, LenProperties
  <2>2. \A j \in 1..l : at + j \in DOMAIN z
    BY <1>11 DEF Carries
  <2>3. DOMAIN z = 1..Len(z)
    BY <1>7, LenProperties
  <2> HIDE DEF l, at
  <2>4. l # 0 => at + l \in 1..Len(z)
    BY <2>1, <2>2, <2>3
  <2>5. l <= Len(z)
    BY <1>9, <2>1, <2>4
  <2> QED BY <1>14, <2>5 DEF l
<1>17. ASSUME \A i \in 1..n : Len(fields[i]) = format[i].prefix + Len(values[format[i].name])
       PROVE  buffer = a
  <2>0. Len(buffer) = Len(a)
    <3>1. \A i \in 1..Len(zeros) : Len(zeros[i]) <= Len(fields[i])
      <4>1. \A i \in 1..n : fields[i] \in Seq(Byte) /\ Len(fields[i]) = Len(zeros[i])
        BY <1>2, <1>6, <1>17
      <4>2. \A i \in 1..n : Len(fields[i]) \in Nat
        BY <4>1, LenProperties
      <4> QED BY <1>2, <4>1, <4>2
    <3>2. Joined(fields, p)
      BY DEF fields
    <3>3. \A i \in 1..Len(zeros) : Len(q[i]) <= Len(p[i])
      BY <1>2, <1>3, <3>1, <3>2, JoinedLengths
    <3>4. Len(z) <= Len(a)
      BY <1>1, <1>2, <3>3 DEF a, z
    <3> QED BY <1>8, <1>9, <1>14, <3>4
  <2>1. Len(buffer) = Len(a) => Len(rest) = 0
    BY <1>9, <1>12, <1>14
  <2>2. Len(rest) = 0 => rest = <<>>
    BY <1>12, EmptySeq
  <2> QED BY <1>7, <1>13, <2>0, <2>1, <2>2, ConcatEmptySeq
<1>18. \A i \in 1..n : format[i].prefix + Len(values[format[i].name]) <= Len(buffer)
  BY <1>2, <1>16
<1> QED BY <1>8, <1>14, <1>15, <1>17, <1>18 DEF a, n, buffer, fields

(* The same without naming the beginnings.                                 *)
LEMMA EncodeTypes ==
  ASSUME NEW format, NEW values, ProperFormat(format), ProperValues(format, values)
  PROVE  /\ Encode(format, values) \in Seq(Byte)
         /\ \A i \in DOMAIN format :
              format[i].prefix + Len(values[format[i].name]) <= Len(Encode(format, values))
<1>1. Fields(format, values) \in Seq(Seq(Byte)) /\ DOMAIN format = 1..Len(format)
  BY FieldsTypes DEF ProperFormat
<1>2. PICK p : Joined(Fields(format, values), p)
  BY <1>1, JoinedExists, LenProperties
<1> QED BY <1>1, <1>2, EncodeShape

(* For every format with distinct names and every values: decoding what    *)
(* was encoded gives each value as its prefix truncates it, and does not   *)
(* read past the end.  (MessageSerializer and MessageDeserializer are      *)
(* inverse but for that truncation.)                                       *)
THEOREM RoundTrip ==
  ASSUME NEW format, NEW values, ProperFormat(format), ProperValues(format, values)
  PROVE  LET buffer == Encode(format, values)
             decoded == Decode(format, buffer)
         IN  /\ decoded.values = [name \in {format[i].name : i \in DOMAIN format} |->
                                    decoded.values[name]]
             /\ \A i \in DOMAIN format :
                  decoded.values[format[i].name] =
                    Truncated(values[format[i].name], format[i].prefix)
             /\ Fits(decoded, buffer)
<1> DEFINE n == Len(format)
           fields == Fields(format, values)
           buffer == Encode(format, values)
           v(i) == values[format[i].name]
           k(i) == format[i].prefix
<1>1. DOMAIN format = 1..n /\ n \in Nat \ {0} /\ n \in 1..n
  BY DEF ProperFormat
<1>2. fields \in Seq(Seq(Byte)) /\ Len(fields) = n /\ n \in Nat
  BY <1>1, FieldsTypes
<1>3. PICK p : Joined(fields, p)
  <2> HIDE DEF fields, n
  <2> QED BY <1>2, JoinedExists
<1>4. /\ buffer \in Seq(Byte) /\ Len(p[n]) <= Len(buffer)
      /\ \A i \in 1..n : Carries(buffer, Len(Before(p, i)), fields[i])
  BY <1>3, EncodeShape
<1>5. \A i \in 1..n : /\ p[i] \in Seq(Byte) /\ Before(p, i) \in Seq(Byte)
                       /\ p[i] = Before(p, i) \o fields[i] /\ fields[i] \in Seq(Byte)
  <2> HIDE DEF fields, n
  <2>1. \A i \in 1..Len(fields) : /\ p[i] \in Seq(Byte) /\ Before(p, i) \in Seq(Byte)
                                  /\ p[i] = Before(p, i) \o fields[i]
    BY <1>2, <1>3, JoinedTypes, ZenonT(60)
  <2> QED BY <1>2, <2>1, ElementOfSeq
<1>6. ASSUME NEW i \in 1..n
      PROVE  /\ LengthAt(buffer, Len(Before(p, i)) + 1, k(i)) = Len(Truncated(v(i), k(i)))
             /\ ValueAt(buffer, Len(Before(p, i)) + 1, k(i)) = Truncated(v(i), k(i))
             /\ Len(p[i]) = Len(Before(p, i)) + k(i) + Len(Truncated(v(i), k(i)))
             /\ Len(Before(p, i)) \in Nat
  <2> DEFINE vi == v(i)
             ki == k(i)
             at == Len(Before(p, i))
  <2>1. vi \in Seq(Byte) /\ ki \in {0, 1, 2} /\ (ki = 0 => Len(vi) = FixedSize)
    BY <1>1 DEF ProperFormat, ProperValues
  <2>2. fields[i] = EncodeField(vi, ki)
    BY <1>1 DEF Fields
  <2>3. at \in Nat
    BY <1>5, LenProperties
  <2>4. Carries(buffer, at, fields[i])
    BY <1>4
  <2>5. Len(p[i]) = at + Len(fields[i])
    BY <1>5, ConcatProperties, ZenonT(60)
  <2> HIDE DEF vi, ki, at, fields, buffer
  <2>6. Len(fields[i]) = ki + Len(Truncated(vi, ki))
    BY <2>1, <2>2, FieldWritten
  <2>7. Truncated(vi, ki) \in Seq(Byte)
    BY <2>1, FieldTypes
  <2>8. Len(Truncated(vi, ki)) \in Nat /\ ki \in Nat
    BY <2>1, <2>7, LenProperties
  <2>9. LengthAt(buffer, at + 1, ki) = Len(Truncated(vi, ki)) /\ ValueAt(buffer, at + 1, ki) = Truncated(vi, ki)
    BY <2>1, <2>2, <2>3, <2>4, FieldRead
  <2>10. Len(p[i]) = at + ki + Len(Truncated(vi, ki))
    BY <2>3, <2>5, <2>6, <2>8
  <2> QED BY <2>3, <2>9, <2>10 DEF vi, ki, at
<1> DEFINE w == [i \in 1..(n + 1) |-> Len(Before(p, i)) + 1]
<1>7. ASSUME NEW i \in 1..(n + 1)
      PROVE  w[i] = IF i = 1 THEN 1
                    ELSE w[i - 1] + k(i - 1) + LengthAt(buffer, w[i - 1], k(i - 1))
  <2>1. CASE i = 1
    BY <2>1 DEF Before
  <2>2. CASE i # 1
    <3> DEFINE j == i - 1
    <3>1. j \in 1..n /\ j \in 1..(n + 1)
      BY <1>1, <2>2
    <3>2. Before(p, i) = p[j]
      BY <2>2 DEF Before
    <3>3. w[i] = Len(p[j]) + 1 /\ w[j] = Len(Before(p, j)) + 1
      BY <3>1, <3>2
    <3> HIDE DEF w, j, buffer, v
    <3>4. LengthAt(buffer, w[j], k(j)) = Len(Truncated(v(j), k(j)))
      BY <1>6, <3>1, <3>3
    <3>5. k(j) \in Nat /\ Len(Truncated(v(j), k(j))) \in Nat
      <4> DEFINE vj == v(j)
                 kj == k(j)
      <4>1. kj \in {0, 1, 2} /\ vj \in Seq(Byte)
        BY <1>1, <3>1 DEF ProperFormat, ProperValues, v
      <4> HIDE DEF vj, kj
      <4>2. Truncated(vj, kj) \in Seq(Byte)
        BY <4>1, FieldTypes
      <4>3. kj \in Nat /\ Len(Truncated(vj, kj)) \in Nat
        BY <4>1, <4>2, LenProperties
      <4> QED BY <4>3 DEF vj, kj
    <3>6. Len(p[j]) = Len(Before(p, j)) + k(j) + Len(Truncated(v(j), k(j))) /\ Len(Before(p, j)) \in Nat
      BY <1>6, <3>1
    <3> HIDE DEF k
    <3>7. w[i] = w[j] + k(j) + LengthAt(buffer, w[j], k(j))
      BY <3>3, <3>4, <3>5, <3>6
    <3> QED BY <2>2, <3>7 DEF j
  <2> QED BY <2>1, <2>2
<1>8. w = [i \in 1..(n + 1) |-> IF i = 1 THEN 1
                                ELSE w[i - 1] + k(i - 1) + LengthAt(buffer, w[i - 1], k(i - 1))]
  <2>1. w = [i \in 1..(n + 1) |-> w[i]]
    OBVIOUS
  <2> HIDE DEF w, k, buffer, n
  <2> QED BY <1>7, <2>1
<1>9. Starts(format, buffer) = w
  <2> HIDE DEF w, buffer
  <2> QED BY <1>1, <1>8, StartsAre, SMTT(30)
<1> DEFINE index(name) == CHOOSE i \in DOMAIN format : format[i].name = name
           names == {format[i].name : i \in DOMAIN format}
           decoded == Decode(format, buffer)
<1>10. /\ decoded.end = w[n + 1] - 1
       /\ decoded.values = [name \in names |-> ValueAt(buffer, w[index(name)], format[index(name)].prefix)]
  <2> HIDE DEF w, buffer
  <2> QED BY <1>9 DEF Decode
<1>11. ASSUME NEW i \in 1..n PROVE index(format[i].name) = i /\ format[i].name \in names
  BY <1>1 DEF ProperFormat
<1>12. decoded.values = [name \in names |-> decoded.values[name]]
  <2> HIDE DEF decoded, names, w, buffer, index
  <2> QED BY <1>10
<1>13. ASSUME NEW i \in 1..n PROVE decoded.values[format[i].name] = Truncated(v(i), k(i))
  <2>1. w[i] = Len(Before(p, i)) + 1
    BY <1>1
  <2> HIDE DEF decoded, names, w, buffer, index, v
  <2>2. decoded.values[format[i].name] = ValueAt(buffer, w[i], k(i))
    BY <1>10, <1>11
  <2> QED BY <1>6, <2>1, <2>2
<1>14. decoded.end <= Len(buffer)
  <2>1. w[n + 1] = Len(Before(p, n + 1)) + 1
    BY <1>1
  <2>2. Before(p, n + 1) = p[n]
    BY <1>1 DEF Before
  <2>3. Len(p[n]) \in Nat
    BY <1>1, <1>5, LenProperties
  <2> HIDE DEF decoded, w, buffer, n
  <2> QED BY <1>4, <1>10, <2>1, <2>2, <2>3
<1> HIDE DEF decoded, buffer, n, names, v, k
<1>15. \A i \in DOMAIN format :
         decoded.values[format[i].name] = Truncated(values[format[i].name], format[i].prefix)
  BY <1>1, <1>13 DEF v, k
<1> QED BY <1>12, <1>14, <1>15 DEF Fits, decoded, buffer, names

-----------------------------------------------------------------------------
(* The three formats: prefixes of no, one or two bytes and no name twice.  *)
LEMMA FormatsAreProper ==
  /\ ProperFormat(MessageFormat) /\ DOMAIN MessageFormat = 1..10
  /\ ProperFormat(SignedFormat) /\ DOMAIN SignedFormat = 1..2
  /\ ProperFormat(MetadataFormat) /\ DOMAIN MetadataFormat = 1..2
<1>1. ProperFormat(MessageFormat) /\ DOMAIN MessageFormat = 1..10
  BY DEF ProperFormat, MessageFormat
<1>2. ProperFormat(SignedFormat) /\ DOMAIN SignedFormat = 1..2
  BY DEF ProperFormat, SignedFormat
<1>3. ProperFormat(MetadataFormat) /\ DOMAIN MetadataFormat = 1..2
  BY DEF ProperFormat, MetadataFormat
<1> QED BY <1>1, <1>2, <1>3

(* The fields of a message, one by one.                                    *)
LEMMA MessageFields ==
  /\ MessageFormat[1].name = "id" /\ MessageFormat[1].prefix = 0
  /\ MessageFormat[2].name = "source_ip" /\ MessageFormat[2].prefix = 1
  /\ MessageFormat[3].name = "source_port" /\ MessageFormat[3].prefix = 0
  /\ MessageFormat[4].name = "source_login" /\ MessageFormat[4].prefix = 1
  /\ MessageFormat[5].name = "source_public_key" /\ MessageFormat[5].prefix = 2
  /\ MessageFormat[6].name = "destination_ip" /\ MessageFormat[6].prefix = 1
  /\ MessageFormat[7].name = "destination_port" /\ MessageFormat[7].prefix = 0
  /\ MessageFormat[8].name = "destination_login" /\ MessageFormat[8].prefix = 1
  /\ MessageFormat[9].name = "destination_public_key" /\ MessageFormat[9].prefix = 2
  /\ MessageFormat[10].name = "payload" /\ MessageFormat[10].prefix = 2
BY DEF MessageFormat

(* Contents are bytes.                                                     *)
LEMMA BytesTypes ==
  ASSUME NEW b \in 1..8, NEW n \in Nat
  PROVE  Bytes(b, n) \in Seq(Byte) /\ Len(Bytes(b, n)) = n
<1>1. b \in Byte
  BY ByteAssumption DEF Byte
<1> QED BY <1>1 DEF Bytes

(* Keys and signatures are two bytes.                                      *)
LEMMA KeyTypes ==
  ASSUME NEW p \in Peer
  PROVE  /\ Key(p) \in Seq(Byte) /\ Len(Key(p)) = 2
         /\ Signature(p) \in Seq(Byte) /\ Len(Signature(p)) = 2
<1>1. p \in Byte /\ 10 \in Byte /\ 9 \in Byte
  BY ByteAssumption DEF Byte, Peer
<1> QED BY <1>1 DEF Key, Signature

(* Every message there is to send can be encoded.                          *)
LEMMA MessageTypes ==
  ASSUME NEW m \in Messages
  PROVE  /\ ProperValues(MessageFormat, m)
         /\ DOMAIN m = {MessageFormat[i].name : i \in DOMAIN MessageFormat}
         /\ "id" \in DOMAIN m /\ "login" \notin DOMAIN m
         /\ m.source_public_key = Key(12)
         /\ m.destination_public_key \in {Key(Me), Key(13)}
         /\ m.payload \in Seq(Byte)
<1>1. PICK i \in IpLength, j \in IpLength, l \in LoginLength, o \in LoginLength,
           n \in PayloadLength, p \in {Me, 13} :
         m = [id |-> Bytes(1, FixedSize), source_ip |-> Bytes(2, i), source_port |-> Bytes(3, FixedSize),
              source_login |-> Bytes(4, l), source_public_key |-> Key(12),
              destination_ip |-> Bytes(5, j), destination_port |-> Bytes(6, FixedSize),
              destination_login |-> Bytes(7, o), destination_public_key |-> Key(p),
              payload |-> Bytes(8, n)]
  BY DEF Messages
<1>2. i \in Nat /\ j \in Nat /\ l \in Nat /\ o \in Nat /\ n \in Nat /\ FixedSize \in Nat
  BY LengthAssumption, FixedAssumption
<1>3. p \in Peer /\ 12 \in Peer
  BY DEF Me, Peer
<1>4. /\ Bytes(1, FixedSize) \in Seq(Byte) /\ Len(Bytes(1, FixedSize)) = FixedSize
      /\ Bytes(3, FixedSize) \in Seq(Byte) /\ Len(Bytes(3, FixedSize)) = FixedSize
      /\ Bytes(6, FixedSize) \in Seq(Byte) /\ Len(Bytes(6, FixedSize)) = FixedSize
      /\ Bytes(2, i) \in Seq(Byte) /\ Bytes(4, l) \in Seq(Byte) /\ Bytes(5, j) \in Seq(Byte)
      /\ Bytes(7, o) \in Seq(Byte) /\ Bytes(8, n) \in Seq(Byte)
  <2>1. \A b \in 1..8 : \A x \in Nat : Bytes(b, x) \in Seq(Byte) /\ Len(Bytes(b, x)) = x
    BY BytesTypes
  <2>2. 1 \in 1..8 /\ 2 \in 1..8 /\ 3 \in 1..8 /\ 4 \in 1..8 /\ 5 \in 1..8
        /\ 6 \in 1..8 /\ 7 \in 1..8 /\ 8 \in 1..8
    OBVIOUS
  <2> QED BY <1>2, <2>1, <2>2
<1>5. Key(12) \in Seq(Byte) /\ Key(p) \in Seq(Byte)
  BY <1>3, KeyTypes
<1> HIDE DEF Messages
<1>6. DOMAIN m = {"id", "source_ip", "source_port", "source_login", "source_public_key",
                  "destination_ip", "destination_port", "destination_login",
                  "destination_public_key", "payload"}
  BY <1>1
<1>7. {MessageFormat[x].name : x \in 1..10} =
         {"id", "source_ip", "source_port", "source_login", "source_public_key",
          "destination_ip", "destination_port", "destination_login",
          "destination_public_key", "payload"}
  BY DEF MessageFormat
<1>8. ProperValues(MessageFormat, m)
  <2> SUFFICES ASSUME NEW x \in 1..10
               PROVE  /\ m[MessageFormat[x].name] \in Seq(Byte)
                      /\ MessageFormat[x].prefix = 0 => Len(m[MessageFormat[x].name]) = FixedSize
    BY FormatsAreProper DEF ProperValues
  <2>1. /\ m.id = Bytes(1, FixedSize) /\ m.source_ip = Bytes(2, i) /\ m.source_port = Bytes(3, FixedSize)
        /\ m.source_login = Bytes(4, l) /\ m.source_public_key = Key(12)
        /\ m.destination_ip = Bytes(5, j) /\ m.destination_port = Bytes(6, FixedSize)
        /\ m.destination_login = Bytes(7, o) /\ m.destination_public_key = Key(p)
        /\ m.payload = Bytes(8, n)
    BY <1>1
  <2>2. \/ x = 1 \/ x = 2 \/ x = 3 \/ x = 4 \/ x = 5
        \/ x = 6 \/ x = 7 \/ x = 8 \/ x = 9 \/ x = 10
    OBVIOUS
  <2>3. \A name \in DOMAIN m : m[name] \in Seq(Byte)
    BY <1>4, <1>5, <1>6, <2>1
  <2>4. \A name \in {"id", "source_port", "destination_port"} : Len(m[name]) = FixedSize
    BY <1>4, <2>1
  <2>5. MessageFormat[x].name \in DOMAIN m
    BY <1>6, <2>2, MessageFields
  <2>6. MessageFormat[x].prefix = 0 => MessageFormat[x].name \in {"id", "source_port", "destination_port"}
    BY <2>2, MessageFields
  <2> QED BY <2>3, <2>4, <2>5, <2>6
<1> QED BY <1>1, <1>4, <1>6, <1>7, <1>8, FormatsAreProper

(* The fields of a signed message and of a hole punch, one by one.         *)
LEMMA SignedFields ==
  /\ SignedFormat[1].name = "message" /\ SignedFormat[1].prefix = 2
  /\ SignedFormat[2].name = "signature" /\ SignedFormat[2].prefix = 2
  /\ MetadataFormat[1].name = "login" /\ MetadataFormat[1].prefix = 2
  /\ MetadataFormat[2].name = "public_key" /\ MetadataFormat[2].prefix = 2
BY DEF SignedFormat, MetadataFormat

(* The bytes MessageSender sends of a message,                             *)
Datagram(m) ==
  signed_message_to_buffer([message |-> message_to_buffer(m), signature |-> Signature(12)])

(* A message decoded gives the fields as the serializer truncated them,    *)
(* and the size check does not fail.                                       *)
LEMMA MessageDecoded ==
  ASSUME NEW m \in Messages
  PROVE  LET decoded == message_from_buffer(message_to_buffer(m))
         IN  /\ decoded.values = Received(m)
             /\ Fits(decoded, message_to_buffer(m))
<1> DEFINE decoded == message_from_buffer(message_to_buffer(m))
<1>1. /\ ProperFormat(MessageFormat) /\ ProperValues(MessageFormat, m)
      /\ DOMAIN m = {MessageFormat[i].name : i \in DOMAIN MessageFormat}
  BY FormatsAreProper, MessageTypes
<1>2. /\ decoded.values = [name \in {MessageFormat[i].name : i \in DOMAIN MessageFormat} |->
                             decoded.values[name]]
      /\ \A i \in DOMAIN MessageFormat :
           decoded.values[MessageFormat[i].name] =
             Truncated(m[MessageFormat[i].name], MessageFormat[i].prefix)
      /\ Fits(decoded, message_to_buffer(m))
  BY <1>1, RoundTrip DEF message_from_buffer, message_to_buffer
<1> DEFINE field(name) == CHOOSE f \in ToSet(MessageFormat) : f.name = name
<1>3. ASSUME NEW i \in DOMAIN MessageFormat
      PROVE  field(MessageFormat[i].name) = MessageFormat[i]
  <2>1. \E f \in ToSet(MessageFormat) : f.name = MessageFormat[i].name
    BY DEF ToSet
  <2>2. PICK j \in DOMAIN MessageFormat : field(MessageFormat[i].name) = MessageFormat[j]
    BY <2>1 DEF ToSet
  <2>3. field(MessageFormat[i].name).name = MessageFormat[i].name
    BY <2>1
  <2>4. j = i
    BY <1>1, <2>2, <2>3 DEF ProperFormat
  <2> QED BY <2>2, <2>4
<1>4. Received(m) = [name \in DOMAIN m |-> Truncated(m[name], field(name).prefix)]
  BY DEF Received
<1> HIDE DEF decoded, field
<1>5. ASSUME NEW name \in DOMAIN m PROVE decoded.values[name] = Received(m)[name]
  <2>1. PICK i \in DOMAIN MessageFormat : name = MessageFormat[i].name
    BY <1>1
  <2> QED BY <1>2, <1>3, <1>4, <2>1
<1>6. decoded.values = [name \in DOMAIN m |-> decoded.values[name]]
  BY <1>1, <1>2
<1>7. Received(m) = [name \in DOMAIN m |-> Received(m)[name]]
  BY <1>4
<1> QED BY <1>2, <1>5, <1>6, <1>7 DEF decoded

(* The signed message around it is not truncated if UDP can carry it at    *)
(* all: the bytes that were signed are the bytes that are checked.         *)
LEMMA DatagramDecoded ==
  ASSUME NEW m \in Messages, Len(Datagram(m)) <= MaxDatagram
  PROVE  LET decoded == signed_message_from_buffer(Datagram(m))
         IN  /\ Fits(decoded, Datagram(m))
             /\ decoded.values.message = message_to_buffer(m)
             /\ decoded.values.signature = Signature(12)
             /\ Len(m.payload) < Base * Base
<1> DEFINE values == [message |-> message_to_buffer(m), signature |-> Signature(12)]
           decoded == signed_message_from_buffer(Datagram(m))
<1>1. MaxDatagram \in Nat /\ MaxDatagram < Base * Base /\ Base \in Nat /\ Base * Base \in Nat
      /\ 2 < Base * Base
  BY DatagramAssumption, ByteAssumption
<1>3. /\ message_to_buffer(m) \in Seq(Byte)
      /\ 2 + Len(m.payload) <= Len(message_to_buffer(m))
  <2>1. /\ Encode(MessageFormat, m) \in Seq(Byte)
        /\ \A i \in DOMAIN MessageFormat :
             MessageFormat[i].prefix + Len(m[MessageFormat[i].name]) <= Len(Encode(MessageFormat, m))
    BY FormatsAreProper, MessageTypes, EncodeTypes
  <2>2. 10 \in DOMAIN MessageFormat
    BY FormatsAreProper
  <2> QED BY <2>1, <2>2, MessageFields DEF message_to_buffer
<1>4. Signature(12) \in Seq(Byte) /\ Len(Signature(12)) = 2
  BY KeyTypes DEF Peer
<1>5. ProperValues(SignedFormat, values)
  <2>1. /\ values[SignedFormat[1].name] \in Seq(Byte) /\ values[SignedFormat[2].name] \in Seq(Byte)
    BY <1>3, <1>4, SignedFields
  <2>2. \A i \in DOMAIN SignedFormat : i = 1 \/ i = 2
    BY FormatsAreProper
  <2> HIDE DEF values
  <2> QED BY <2>1, <2>2, SignedFields DEF ProperValues
<1>7. Datagram(m) = Encode(SignedFormat, values)
  BY DEF Datagram, signed_message_to_buffer
<1>8. 2 + Len(message_to_buffer(m)) <= Len(Datagram(m)) /\ Datagram(m) \in Seq(Byte)
  <2> HIDE DEF values
  <2>1. /\ Encode(SignedFormat, values) \in Seq(Byte)
        /\ \A i \in DOMAIN SignedFormat :
          SignedFormat[i].prefix + Len(values[SignedFormat[i].name]) <= Len(Encode(SignedFormat, values))
    BY <1>5, FormatsAreProper, EncodeTypes
  <2>2. 1 \in DOMAIN SignedFormat
    BY FormatsAreProper
  <2>3. 2 + Len(values["message"]) <= Len(Encode(SignedFormat, values))
    BY <2>1, <2>2, SignedFields
  <2> QED BY <1>7, <2>1, <2>3 DEF values
<1>9. /\ Len(Datagram(m)) \in Nat /\ Len(message_to_buffer(m)) \in Nat /\ Len(m.payload) \in Nat
  BY <1>3, <1>8, LenProperties, MessageTypes
<1>10. Len(message_to_buffer(m)) < Base * Base /\ Len(m.payload) < Base * Base
  BY <1>1, <1>3, <1>8, <1>9
<1>11. /\ \A i \in DOMAIN SignedFormat :
            decoded.values[SignedFormat[i].name] =
              Truncated(values[SignedFormat[i].name], SignedFormat[i].prefix)
       /\ Fits(decoded, Datagram(m))
  <2> HIDE DEF values
  <2>1. /\ \A i \in DOMAIN SignedFormat :
              Decode(SignedFormat, Encode(SignedFormat, values)).values[SignedFormat[i].name] =
                Truncated(values[SignedFormat[i].name], SignedFormat[i].prefix)
        /\ Fits(Decode(SignedFormat, Encode(SignedFormat, values)), Encode(SignedFormat, values))
    BY <1>5, FormatsAreProper, RoundTrip
  <2>2. decoded = Decode(SignedFormat, Encode(SignedFormat, values))
    BY <1>7 DEF signed_message_from_buffer
  <2> HIDE DEF decoded
  <2> QED BY <1>7, <2>1, <2>2
<1>12. /\ Truncated(message_to_buffer(m), 2) = message_to_buffer(m)
       /\ Truncated(Signature(12), 2) = Signature(12)
  <2>1. Place[2 + 1] = Base * Base
    BY DEF Place
  <2>2. \A v \in Seq(Byte) : Len(v) < Base * Base => Truncated(v, 2) = v
    BY <2>1, FieldTypes
  <2> QED BY <1>1, <1>3, <1>4, <1>10, <2>2
<1>13. decoded.values["message"] = message_to_buffer(m) /\ decoded.values["signature"] = Signature(12)
  <2> HIDE DEF decoded
  <2>1. 1 \in DOMAIN SignedFormat /\ 2 \in DOMAIN SignedFormat
    BY FormatsAreProper
  <2>2. values["message"] = message_to_buffer(m) /\ values["signature"] = Signature(12)
    OBVIOUS
  <2> HIDE DEF values
  <2> QED BY <1>11, <1>12, <2>1, <2>2, SignedFields
<1> QED BY <1>10, <1>11, <1>13

(* What the receiver decides by came intact: the keys are short, and a     *)
(* payload too long for its prefix would have been too long for UDP.       *)
LEMMA ReceivedShows ==
  ASSUME NEW m \in Messages, Len(m.payload) < Base * Base
  PROVE  /\ Received(m).source_public_key = Key(12)
         /\ Received(m).destination_public_key = m.destination_public_key
         /\ Received(m).payload = m.payload
<1>1. /\ m.source_public_key = Key(12) /\ m.destination_public_key \in {Key(Me), Key(13)}
      /\ m.payload \in Seq(Byte)
      /\ DOMAIN m = {MessageFormat[i].name : i \in DOMAIN MessageFormat}
  BY MessageTypes
<1>2. ASSUME NEW i \in 1..10, MessageFormat[i].prefix = 2,
             m[MessageFormat[i].name] \in Seq(Byte), Len(m[MessageFormat[i].name]) < Base * Base
      PROVE  Received(m)[MessageFormat[i].name] = m[MessageFormat[i].name]
  <2> DEFINE name == MessageFormat[i].name
             f == CHOOSE g \in ToSet(MessageFormat) : g.name = name
  <2>1. \E g \in ToSet(MessageFormat) : g.name = name
    BY FormatsAreProper DEF ToSet
  <2>2. f \in ToSet(MessageFormat) /\ f.name = name
    BY <2>1
  <2>3. PICK j \in DOMAIN MessageFormat : f = MessageFormat[j]
    BY <2>2 DEF ToSet
  <2>4. f.prefix = 2
    BY <1>2, <2>2, <2>3, FormatsAreProper DEF ProperFormat
  <2>5. name \in DOMAIN m
    BY <1>1, FormatsAreProper
  <2>6. Received(m)[name] = Truncated(m[name], f.prefix)
    BY <2>5 DEF Received
  <2>7. Place[2 + 1] = Base * Base
    BY DEF Place
  <2> HIDE DEF name, f
  <2>8. Truncated(m[name], 2) = m[name]
    BY <1>2, <2>7, FieldTypes DEF name
  <2> QED BY <2>4, <2>6, <2>8 DEF name
<1>3. /\ Key(12) \in Seq(Byte) /\ Len(Key(12)) = 2 /\ Key(13) \in Seq(Byte) /\ Len(Key(13)) = 2
      /\ Key(Me) \in Seq(Byte) /\ Len(Key(Me)) = 2 /\ 2 < Base * Base
  <2>1. 12 \in Peer /\ 13 \in Peer /\ Me \in Peer
    BY DEF Peer, Me
  <2> QED BY <2>1, KeyTypes, ByteAssumption
<1>4. Received(m)["source_public_key"] = m["source_public_key"]
  <2>1. m["source_public_key"] \in Seq(Byte) /\ Len(m["source_public_key"]) < Base * Base
    BY <1>1, <1>3
  <2> QED BY <1>2, <2>1, MessageFields, SMTT(30)
<1>5. Received(m)["destination_public_key"] = m["destination_public_key"]
  <2>1. m["destination_public_key"] \in Seq(Byte) /\ Len(m["destination_public_key"]) < Base * Base
    BY <1>1, <1>3
  <2> QED BY <1>2, <2>1, MessageFields, SMTT(30)
<1>6. Received(m)["payload"] = m["payload"]
  BY <1>1, <1>2, MessageFields
<1> QED BY <1>1, <1>4, <1>5, <1>6

-----------------------------------------------------------------------------
(* and those UdpHolePuncher sends.                                         *)
Punched(o) == metadata_to_buffer(o.login, o.public_key)

(* Every hole punch there is to send.                                      *)
LEMMA PunchTypes ==
  ASSUME NEW o \in Punches
  PROVE  /\ o.login \in Seq(Byte) /\ o.public_key = Key(12)
         /\ "id" \notin DOMAIN o /\ "login" \in DOMAIN o
<1>1. PICK l \in LoginLength : o = [login |-> Bytes(4, l), public_key |-> Key(12)]
  BY DEF Punches
<1>2. l \in Nat
  BY LengthAssumption
<1>3. Bytes(4, l) \in Seq(Byte)
  BY <1>2, BytesTypes
<1> QED BY <1>1, <1>3

(* A hole punch that UDP can carry is the login with its length and, of    *)
(* the key, the length and what the missing byte has left.                 *)
LEMMA PunchShape ==
  ASSUME NEW o \in Punches, Len(Punched(o)) <= MaxDatagram
  PROVE  /\ Punched(o) = EncodeField(o.login, 2) \o <<2, 0, 12>>
         /\ Truncated(o.login, 2) = o.login
<1> DEFINE values == [login |-> o.login, public_key |-> o.public_key]
           B == Encode(MetadataFormat, values)
           a == EncodeField(o.login, 2)
           c == EncodeField(Key(12), 2)
<1>1. /\ o.login \in Seq(Byte) /\ Len(o.login) \in Nat /\ o.public_key = Key(12)
      /\ Key(12) \in Seq(Byte) /\ Len(Key(12)) = 2
  BY PunchTypes, KeyTypes, LenProperties DEF Peer
<1>2. Base \in Nat /\ Base >= 16 /\ Base * Base \in Nat /\ 2 < Base * Base /\ Place[2 + 1] = Base * Base
  BY ByteAssumption DEF Place
<1>3. /\ values["login"] = o.login /\ values["public_key"] = Key(12)
      /\ ProperValues(MetadataFormat, values)
  <2>1. values["login"] = o.login /\ values["public_key"] = Key(12)
    BY <1>1
  <2>2. \A i \in DOMAIN MetadataFormat : i = 1 \/ i = 2
    BY FormatsAreProper
  <2> HIDE DEF values
  <2> QED BY <1>1, <2>1, <2>2, SignedFields DEF ProperValues
<1>4. Punched(o) = Front(B)
  BY DEF Punched, metadata_to_buffer
<1> HIDE DEF values
<1>5. Len(MetadataFormat) = 2
  BY DEF MetadataFormat
<1> DEFINE fields == Fields(MetadataFormat, values)
<1>6. fields \in Seq(Seq(Byte)) /\ Len(fields) = 2 /\ fields[1] = a /\ fields[2] = c
  <2>1. fields \in Seq(Seq(Byte)) /\ Len(fields) = 2
    BY <1>3, <1>5, FormatsAreProper, FieldsTypes
  <2>2. fields[1] = a /\ fields[2] = c
    BY <1>3, FormatsAreProper, SignedFields DEF Fields
  <2> QED BY <2>1, <2>2
<1>7. PICK p : Joined(fields, p)
  <2> HIDE DEF fields
  <2> QED BY <1>6, JoinedExists
<1>8. /\ B \in Seq(Byte)
      /\ \A i \in 1..2 : MetadataFormat[i].prefix + Len(values[MetadataFormat[i].name]) <= Len(B)
      /\ (\A i \in 1..2 : Len(fields[i]) = MetadataFormat[i].prefix + Len(values[MetadataFormat[i].name]))
            => B = p[2]
  <2>1. LET n == Len(MetadataFormat)
        IN  /\ B \in Seq(Byte)
            /\ \A i \in 1..n : MetadataFormat[i].prefix + Len(values[MetadataFormat[i].name]) <= Len(B)
            /\ (\A i \in 1..n : Len(fields[i]) = MetadataFormat[i].prefix + Len(values[MetadataFormat[i].name]))
                => B = p[n]
    BY <1>3, <1>7, FormatsAreProper, EncodeShape
  <2> HIDE DEF B, fields
  <2> QED BY <1>5, <2>1
<1> HIDE DEF B, fields
<1>9. Len(B) \in Nat /\ 2 + Len(o.login) <= Len(B)
  BY <1>3, <1>8, LenProperties, SignedFields
<1>10. Front(B) \in Seq(Byte) /\ Len(Front(B)) = Len(B) - 1 /\ \A i \in 1..(Len(B) - 1) : Front(B)[i] = B[i]
  <2>1. \A i \in 1..(Len(B) - 1) : B[i] \in Byte
    BY <1>8, <1>9, ElementOfSeq
  <2>2. /\ SubSeq(B, 1, Len(B) - 1) \in Seq(Byte)
        /\ Len(SubSeq(B, 1, Len(B) - 1)) = IF 1 <= Len(B) - 1 THEN Len(B) - 1 - 1 + 1 ELSE 0
        /\ \A i \in 1..(Len(B) - 1 - 1 + 1) : SubSeq(B, 1, Len(B) - 1)[i] = B[1 + i - 1]
    BY <1>9, <2>1, SubSeqProperties
  <2> QED BY <1>1, <1>9, <2>2 DEF Front
<1>11. Len(o.login) < Base * Base
  <2>1. Len(B) - 1 <= MaxDatagram
    BY <1>4, <1>10
  <2>2. MaxDatagram \in Nat /\ MaxDatagram < Base * Base
    BY DatagramAssumption
  <2> QED BY <1>1, <1>2, <1>9, <2>1, <2>2
<1>12. Truncated(o.login, 2) = o.login /\ Truncated(Key(12), 2) = Key(12)
  <2>1. \A v \in Seq(Byte) : Len(v) < Base * Base => Truncated(v, 2) = v
    BY <1>2, FieldTypes
  <2> QED BY <1>1, <1>2, <1>11, <2>1
<1>13. /\ a \in Seq(Byte) /\ Len(a) = 2 + Len(o.login)
       /\ c \in Seq(Byte) /\ Len(c) = 2 + 2 /\ c = LittleEndian(2, 2) \o Key(12)
  <2>1. \A v \in Seq(Byte) : Truncated(v, 2) = v =>
                /\ EncodeField(v, 2) \in Seq(Byte) /\ Len(EncodeField(v, 2)) = 2 + Len(v)
                /\ EncodeField(v, 2) = LittleEndian(Len(v), 2) \o v
    <3> SUFFICES ASSUME NEW v \in Seq(Byte), Truncated(v, 2) = v
                 PROVE  /\ EncodeField(v, 2) \in Seq(Byte) /\ Len(EncodeField(v, 2)) = 2 + Len(v)
                        /\ EncodeField(v, 2) = LittleEndian(Len(v), 2) \o v
      OBVIOUS
    <3>1. 2 \in {0, 1, 2} /\ 2 # 0
      OBVIOUS
    <3>2. /\ EncodeField(v, 2) \in Seq(Byte)
          /\ Len(EncodeField(v, 2)) = 2 + Len(Truncated(v, 2))
          /\ EncodeField(v, 2) = LittleEndian(Len(Truncated(v, 2)), 2) \o Truncated(v, 2)
      BY <3>1, FieldWritten
    <3> QED BY <3>2
  <2> QED BY <1>1, <1>12, <2>1
<1>14. LittleEndian(2, 2) = <<2, 0>>
  <2>1. 2 \div 1 = 2 /\ 2 % Base = 2 /\ 2 \div Base = 0 /\ 0 % Base = 0
    BY <1>2
  <2>2. LittleEndian(2, 2) = <<(2 \div 1) % Base, (2 \div Base) % Base>>
    BY DEF LittleEndian, Place
  <2> QED BY <2>1, <2>2
<1>15. c[1] = 2 /\ c[2] = 0 /\ c[3] = 12
  <2> DEFINE u == <<2, 0>>
  <2>1. u \in Seq(Byte) /\ Len(u) = 2 /\ u[1] = 2 /\ u[2] = 0
    BY <1>2 DEF Byte
  <2>2. c = u \o Key(12)
    BY <1>13, <1>14
  <2> HIDE DEF u, c
  <2> DEFINE k == Key(12)
  <2>3. k \in Seq(Byte) /\ Len(k) = 2 /\ k[1] = 12
    BY <1>1 DEF Key
  <2>4. u \in Seq(Byte) /\ Len(u) = 2
    BY <2>1
  <2> HIDE DEF k
  <2>5. \A i \in 1..(Len(u) + Len(k)) : (u \o k)[i] = IF i <= Len(u) THEN u[i] ELSE k[i - Len(u)]
    BY <2>3, <2>4, ConcatProperties
  <2>6. (u \o k)[1] = 2 /\ (u \o k)[2] = 0 /\ (u \o k)[3] = 12
    BY <2>1, <2>3, <2>5
  <2> QED BY <2>2, <2>6 DEF k
<1>16. B = a \o c
  <2>1. \A i \in 1..2 : Len(fields[i]) = MetadataFormat[i].prefix + Len(values[MetadataFormat[i].name])
    <3>1. MetadataFormat[1].prefix + Len(values[MetadataFormat[1].name]) = 2 + Len(o.login)
      BY <1>3, SignedFields
    <3>2. MetadataFormat[2].prefix + Len(values[MetadataFormat[2].name]) = 2 + 2
      BY <1>1, <1>3, SignedFields
    <3> HIDE DEF a, c
    <3>3. Len(fields[1]) = 2 + Len(o.login) /\ Len(fields[2]) = 2 + 2
      BY <1>6, <1>13
    <3>4. \A i \in 1..2 : i = 1 \/ i = 2
      OBVIOUS
    <3> QED BY <3>1, <3>2, <3>3, <3>4
  <2>2. B = p[2]
    BY <1>8, <2>1
  <2>3. p[1] = fields[1] /\ p[2] = p[1] \o fields[2]
    <3>1. 1 \in 1..Len(fields) /\ 2 \in 1..Len(fields) /\ 2 - 1 = 1 /\ 2 # 1
      BY <1>6
    <3>2. \A i \in 1..Len(fields) : p[i] = IF i = 1 THEN fields[i] ELSE p[i - 1] \o fields[i]
      BY <1>7, JoinedStep
    <3> QED BY <3>1, <3>2
  <2> QED BY <1>6, <2>2, <2>3
<1> HIDE DEF a, c
<1> DEFINE d == a \o <<2, 0, 12>>
<1>17. <<2, 0, 12>> \in Seq(Byte) /\ Len(<<2, 0, 12>>) = 3
  BY <1>2 DEF Byte
<1>18. d \in Seq(Byte) /\ Len(d) = Len(a) + 3 /\ Len(a) \in Nat
  BY <1>13, <1>17, ConcatProperties, LenProperties
<1>19. Len(B) = Len(a) + 4
  BY <1>13, <1>16, ConcatProperties
<1>20. ASSUME NEW i \in 1..Len(d) PROVE Front(B)[i] = d[i]
  <2>1. i \in 1..(Len(a) + 3) /\ i \in 1..(Len(a) + 4) /\ i \in 1..(Len(B) - 1)
    BY <1>18, <1>19
  <2>2. Front(B)[i] = B[i]
    BY <1>10, <2>1
  <2>3. B[i] = IF i <= Len(a) THEN a[i] ELSE c[i - Len(a)]
    <3>1. \A j \in 1..(Len(a) + Len(c)) : (a \o c)[j] = IF j <= Len(a) THEN a[j] ELSE c[j - Len(a)]
      <4>1. a \in Seq(Byte) /\ c \in Seq(Byte)
        BY <1>13
      <4> QED BY <4>1, ConcatProperties
    <3>2. i \in 1..(Len(a) + Len(c))
      BY <1>13, <2>1
    <3> QED BY <1>16, <3>1, <3>2
  <2>4. d[i] = IF i <= Len(a) THEN a[i] ELSE <<2, 0, 12>>[i - Len(a)]
    <3> DEFINE e == <<2, 0, 12>>
    <3>1. e \in Seq(Byte) /\ Len(e) = 3 /\ d = a \o e
      BY <1>17
    <3> HIDE DEF e, d
    <3>2. \A j \in 1..(Len(a) + Len(e)) : (a \o e)[j] = IF j <= Len(a) THEN a[j] ELSE e[j - Len(a)]
      <4>1. a \in Seq(Byte) /\ e \in Seq(Byte)
        BY <1>13, <3>1
      <4> QED BY <4>1, ConcatProperties
    <3>3. d[i] = IF i <= Len(a) THEN a[i] ELSE e[i - Len(a)]
      BY <2>1, <3>1, <3>2
    <3> QED BY <3>3 DEF e
  <2>5. ~(i <= Len(a)) => i - Len(a) \in {1, 2, 3}
    BY <1>18, <2>1
  <2> HIDE DEF d
  <2>6. \A j \in {1, 2, 3} : c[j] = <<2, 0, 12>>[j]
    BY <1>15
  <2> QED BY <2>2, <2>3, <2>4, <2>5, <2>6
<1>21. Front(B) = d
  <2> HIDE DEF d
  <2>1. Len(Front(B)) = Len(d)
    BY <1>10, <1>18, <1>19
  <2> QED BY <1>10, <1>18, <1>20, <2>1, SeqEqual
<1> QED BY <1>4, <1>12, <1>21 DEF a

(* Taken for a signed message it is one byte too short, whatever its       *)
(* login: the missing byte is what tells the two apart.  Taken for a hole  *)
(* punch it gives the login, and a key whose last byte is the stray one.   *)
LEMMA PunchRead ==
  ASSUME NEW o \in Punches, Len(Punched(o)) <= MaxDatagram
  PROVE  /\ ~Fits(signed_message_from_buffer(Punched(o)), Punched(o))
         /\ metadata_from_buffer(Punched(o)).login = o.login
         /\ Owns(12, metadata_from_buffer(Punched(o)).public_key)
<1> DEFINE d == Punched(o)
           a == EncodeField(o.login, 2)
           e == <<2, 0, 12>>
           l == Len(o.login)
<1>1. /\ o.login \in Seq(Byte) /\ l \in Nat /\ Truncated(o.login, 2) = o.login
  BY PunchTypes, PunchShape, LenProperties
<1>2. a \in Seq(Byte) /\ Len(a) = 2 + l
  BY <1>1, FieldWritten
<1>3. e \in Seq(Byte) /\ Len(e) = 3 /\ e[1] = 2 /\ e[2] = 0 /\ e[3] = 12
  BY ByteAssumption DEF Byte
<1>4. d = a \o e
  BY PunchShape
<1> HIDE DEF d, a, e
<1>5. /\ d \in Seq(Byte) /\ Len(d) = l + 5 /\ DOMAIN d = 1..(l + 5)
  <2>1. a \o e \in Seq(Byte) /\ Len(a \o e) = Len(a) + Len(e)
    BY <1>2, <1>3, ConcatProperties
  <2>2. Len(d) = l + 5
    BY <1>1, <1>2, <1>3, <1>4, <2>1
  <2> QED BY <1>4, <2>1, <2>2, LenProperties
<1>6. Carries(d, 0, a)
  <2>1. Carries(a, 0, a)
    <3>1. DOMAIN a = 1..Len(a) /\ Len(a) \in Nat
      BY <1>2, LenProperties
    <3> QED BY <3>1 DEF Carries
  <2>2. Carries(a \o e, 0, a)
    BY <1>2, <1>3, <2>1, CarriesFront
  <2> QED BY <1>4, <2>2
<1>7. /\ LengthAt(d, 1, 2) = l /\ ValueAt(d, 1, 2) = o.login
  <2>1. LengthAt(d, 0 + 1, 2) = Len(Truncated(o.login, 2)) /\ ValueAt(d, 0 + 1, 2) = Truncated(o.login, 2)
    BY <1>1, <1>6, FieldRead DEF a
  <2> QED BY <1>1, <2>1
<1>8. /\ ByteAt(d, l + 3) = 2 /\ ByteAt(d, l + 4) = 0
      /\ ByteAt(d, l + 5) = 12 /\ ByteAt(d, l + 6) = stray
  <2>1. Carries(a \o e, Len(a), e)
    BY <1>2, <1>3, CarriesBack
  <2>2. \A i \in 1..3 : (2 + l) + i \in DOMAIN d /\ d[(2 + l) + i] = e[i]
    BY <1>2, <1>3, <1>4, <2>1 DEF Carries
  <2>3. /\ d[(2 + l) + 1] = 2 /\ d[(2 + l) + 2] = 0 /\ d[(2 + l) + 3] = 12
    BY <1>3, <2>2
  <2>4. (2 + l) + 1 = l + 3 /\ (2 + l) + 2 = l + 4 /\ (2 + l) + 3 = l + 5
    BY <1>1
  <2>5. /\ l + 3 \in DOMAIN d /\ l + 4 \in DOMAIN d /\ l + 5 \in DOMAIN d /\ l + 6 \notin DOMAIN d
    BY <1>1, <1>5
  <2> QED BY <2>3, <2>4, <2>5 DEF ByteAt
<1>9. LengthAt(d, l + 3, 2) = 2
  <2>1. l + 3 + 1 = l + 4 /\ 2 + Base * 0 = 2
    BY <1>1, ByteAssumption
  <2> QED BY <1>8, <2>1 DEF LengthAt
<1>10. Len(SignedFormat) = 2 /\ Len(MetadataFormat) = 2
  BY DEF SignedFormat, MetadataFormat
<1>11. ASSUME NEW format \in {SignedFormat, MetadataFormat}
       PROVE  Starts(format, d) = <<1, l + 3, l + 7>>
  <2>0. Len(format) = 2 /\ format[1].prefix = 2 /\ format[2].prefix = 2
    BY <1>10, SignedFields
  <2> DEFINE w == <<1, l + 3, l + 7>>
  <2>1. w[1] = 1 /\ w[2] = l + 3 /\ w[3] = l + 7 /\ w = [i \in 1..3 |-> w[i]]
    OBVIOUS
  <2>2. 1 + 2 + l = l + 3 /\ l + 3 + 2 + 2 = l + 7
    BY <1>1
  <2> HIDE DEF w, l
  <2>3. \A i \in 1..3 : w[i] = IF i = 1 THEN 1
                               ELSE w[i - 1] + format[i - 1].prefix
                                      + LengthAt(d, w[i - 1], format[i - 1].prefix)
    <3>1. \A i \in 1..3 : i = 1 \/ (i = 2 /\ i - 1 = 1) \/ (i = 3 /\ i - 1 = 2)
      OBVIOUS
    <3>2. w[1] + format[1].prefix + LengthAt(d, w[1], format[1].prefix) = w[2]
      BY <1>7, <2>0, <2>1, <2>2
    <3>3. w[2] + format[2].prefix + LengthAt(d, w[2], format[2].prefix) = w[3]
      BY <1>9, <2>0, <2>1, <2>2
    <3> QED BY <2>1, <3>1, <3>2, <3>3
  <2>4. w = [i \in 1..(Len(format) + 1) |->
               IF i = 1 THEN 1
               ELSE w[i - 1] + format[i - 1].prefix
                      + LengthAt(d, w[i - 1], format[i - 1].prefix)]
    <3>1. Len(format) + 1 = 3
      BY <2>0
    <3> QED BY <2>1, <2>3, <3>1
  <2>5. Starts(format, d) = w
    <3>1. Len(format) \in Nat
      BY <2>0
    <3> QED BY <2>4, <3>1, StartsAre
  <2> QED BY <2>5 DEF w
<1>12. Starts(SignedFormat, d) = <<1, l + 3, l + 7>> /\ Starts(MetadataFormat, d) = <<1, l + 3, l + 7>>
  BY <1>11
<1>13. ~Fits(signed_message_from_buffer(d), d)
  <2>1. signed_message_from_buffer(d).end = Starts(SignedFormat, d)[Len(SignedFormat) + 1] - 1
    BY DEF signed_message_from_buffer, Decode
  <2>2. signed_message_from_buffer(d).end = l + 6
    BY <1>1, <1>10, <1>12, <2>1
  <2> HIDE DEF l
  <2> QED BY <1>1, <1>5, <2>2 DEF Fits
<1> DEFINE index(name) == CHOOSE i \in DOMAIN MetadataFormat : MetadataFormat[i].name = name
           values == metadata_from_buffer(d)
<1>14. index("login") = 1 /\ index("public_key") = 2
  BY FormatsAreProper, SignedFields
<1>15. {MetadataFormat[i].name : i \in DOMAIN MetadataFormat} = {"login", "public_key"}
  <2>1. \A i \in DOMAIN MetadataFormat : i = 1 \/ i = 2
    BY FormatsAreProper
  <2>2. 1 \in DOMAIN MetadataFormat /\ 2 \in DOMAIN MetadataFormat
    BY FormatsAreProper
  <2> QED BY <2>1, <2>2, SignedFields
<1>16. values = [name \in {"login", "public_key"} |->
                   ValueAt(d, Starts(MetadataFormat, d)[index(name)], MetadataFormat[index(name)].prefix)]
  <2> HIDE DEF index
  <2>1. values = [name \in {MetadataFormat[i].name : i \in DOMAIN MetadataFormat} |->
                   ValueAt(d, Starts(MetadataFormat, d)[index(name)], MetadataFormat[index(name)].prefix)]
    BY DEF metadata_from_buffer, Decode, index
  <2> QED BY <1>15, <2>1
<1>17. values["login"] = o.login
  <2> HIDE DEF index, values, l
  <2>1. values["login"] = ValueAt(d, <<1, l + 3, l + 7>>[1], 2)
    BY <1>12, <1>14, <1>16, SignedFields
  <2> QED BY <1>7, <2>1
<1>18. Owns(12, values["public_key"])
  <2> HIDE DEF index, values, l
  <2>1. values["public_key"] = ValueAt(d, <<1, l + 3, l + 7>>[2], 2)
    BY <1>12, <1>14, <1>16, SignedFields
  <2>2. values["public_key"] = ValueAt(d, l + 3, 2)
    BY <2>1
  <2>3. ValueAt(d, l + 3, 2) = [k \in 1..2 |-> ByteAt(d, l + 3 + 2 + k - 1)]
    BY <1>9 DEF ValueAt
  <2>4. l + 3 + 2 + 1 - 1 = l + 5
    BY <1>1
  <2> QED BY <1>8, <2>2, <2>3, <2>4 DEF Owns
<1> QED BY <1>13, <1>17, <1>18 DEF d

-----------------------------------------------------------------------------
(* What is sent of an original.                                            *)
Sent(o) == IF "id" \in DOMAIN o THEN Datagram(o) ELSE Punched(o)

(* The inductive invariant: a datagram under way is the encoding of its    *)
(* original, so what the receiver makes of it follows from the codec       *)
(* alone.                                                                  *)
Transit ==
  /\ TypeOK
  /\ datagram # <<>> => datagram = Sent(original)
  /\ MessageArrives
  /\ PunchArrives

(* Transit holds at the beginning.                                         *)
LEMMA TransitInit == Init => Transit
<1> SUFFICES ASSUME Init PROVE Transit
  OBVIOUS
<1>1. TypeOK
  BY DatagramAssumption DEF Init, TypeOK
<1> QED BY <1>1 DEF Init, Transit, MessageArrives, PunchArrives

(* What is sent are bytes.                                                 *)
LEMMA SentTypes ==
  ASSUME NEW o \in Messages \cup Punches
  PROVE  Sent(o) \in Seq(Byte)
<1>1. CASE o \in Messages
  <2>1. message_to_buffer(o) \in Seq(Byte)
    BY <1>1, MessageTypes, FormatsAreProper, EncodeTypes DEF message_to_buffer
  <2> DEFINE values == [message |-> message_to_buffer(o), signature |-> Signature(12)]
  <2>2. values[SignedFormat[1].name] \in Seq(Byte) /\ values[SignedFormat[2].name] \in Seq(Byte)
    BY <2>1, KeyTypes, SignedFields DEF Peer
  <2>3. Sent(o) = Encode(SignedFormat, values)
    BY <1>1, MessageTypes DEF Sent, Datagram, signed_message_to_buffer
  <2> HIDE DEF values
  <2>4. ProperValues(SignedFormat, values)
    <3>1. \A i \in DOMAIN SignedFormat : i = 1 \/ i = 2
      BY FormatsAreProper
    <3> QED BY <2>2, <3>1, SignedFields DEF ProperValues
  <2> QED BY <2>3, <2>4, FormatsAreProper, EncodeTypes
<1>2. CASE o \in Punches
  <2> DEFINE values == [login |-> o.login, public_key |-> o.public_key]
             B == Encode(MetadataFormat, values)
  <2>1. values[MetadataFormat[1].name] \in Seq(Byte) /\ values[MetadataFormat[2].name] \in Seq(Byte)
    BY <1>2, PunchTypes, KeyTypes, SignedFields DEF Peer
  <2>2. Sent(o) = Front(B)
    BY <1>2, PunchTypes DEF Sent, Punched, metadata_to_buffer
  <2> HIDE DEF values
  <2>3. ProperValues(MetadataFormat, values)
    <3>1. \A i \in DOMAIN MetadataFormat : i = 1 \/ i = 2
      BY FormatsAreProper
    <3> QED BY <2>1, <3>1, SignedFields DEF ProperValues
  <2>4. B \in Seq(Byte)
    BY <2>3, FormatsAreProper, EncodeTypes
  <2> HIDE DEF B
  <2>5. Len(B) - 1 \in Int /\ \A i \in 1..(Len(B) - 1) : B[i] \in Byte
    BY <2>4, LenProperties, ElementOfSeq
  <2> QED BY <2>2, <2>5, SubSeqProperties DEF Front
<1> QED BY <1>1, <1>2

(* Sending keeps it: the buffer is what the original is encoded as.        *)
LEMMA SendSends ==
  ASSUME Transit, NEW buffer \in Seq(Byte), Send(buffer), outcome.as = "none", buffer = Sent(original)
  PROVE  Transit'
<1>1. original' = original /\ stray' = stray /\ Len(buffer) \in Nat
  BY LenProperties DEF Send
<1>2. CASE Len(buffer) > MaxDatagram
  <2>1. outcome' = [as |-> "not sent"] /\ datagram' = datagram
    BY <1>2 DEF Send
  <2>2. outcome'.as = "not sent"
    BY <2>1
  <2> QED BY <1>1, <2>1, <2>2 DEF Transit, TypeOK, MessageArrives, PunchArrives, Sent, Datagram, Punched
<1>3. CASE ~(Len(buffer) > MaxDatagram)
  <2>1. datagram' = buffer /\ outcome' = outcome
    BY <1>3 DEF Send
  <2>2. Len(buffer) <= MaxDatagram
    BY <1>3, DatagramAssumption
  <2>3. TypeOK'
    BY <1>1, <2>1, <2>2 DEF Transit, TypeOK, Byte
  <2> QED BY <1>1, <2>1, <2>3 DEF Transit, MessageArrives, PunchArrives
<1> QED BY <1>2, <1>3

(* Receiving keeps it: a message is decoded to its fields and a hole punch *)
(* falls through to the catch block.                                       *)
LEMMA ReceiveReads ==
  ASSUME Transit, Receive
  PROVE  Transit'
<1> DEFINE decoded == signed_message_from_buffer(datagram)
           signed == decoded.values
           message == message_from_buffer(signed.message)
<1>1. /\ original' = original /\ stray' = stray /\ datagram' = datagram /\ datagram # <<>>
      /\ datagram = Sent(original) /\ Len(datagram) <= MaxDatagram
      /\ original \in Messages \cup Punches
      /\ outcome' = IF ~Fits(decoded, datagram) THEN AsPunch
                    ELSE IF message.values.destination_public_key = Key(Me) THEN AsMine(signed)
                    ELSE AsOthers(signed)
  BY DEF Receive, Transit, TypeOK
<1>2. CASE original \in Messages
  <2> DEFINE m == original
  <2>1. datagram = Datagram(m) /\ Len(Datagram(m)) <= MaxDatagram
    BY <1>1, <1>2, MessageTypes DEF Sent
  <2>2. /\ Fits(decoded, datagram)
        /\ signed.message = message_to_buffer(m) /\ signed.signature = Signature(12)
        /\ Len(m.payload) < Base * Base
    BY <1>2, <2>1, DatagramDecoded
  <2>3. message.values = Received(m) /\ Fits(message, signed.message)
    BY <1>2, <2>2, MessageDecoded
  <2>4. /\ message.values.source_public_key = Key(12)
        /\ message.values.destination_public_key = m.destination_public_key
        /\ message.values.payload = m.payload
    BY <1>2, <2>2, <2>3, ReceivedShows
  <2>5. Owns(12, Key(12)) /\ IsKey(Key(12)) /\ 12 \in Peer
    BY DEF Owns, IsKey, Key, Peer
  <2>6. check_signature(signed, message.values.source_public_key)
    BY <1>2, <2>2, <2>4, <2>5, MessageTypes DEF check_signature
  <2> HIDE DEF decoded, signed
  <2>7. outcome' = IF m.destination_public_key = Key(Me)
                     THEN [as |-> "message", values |-> Received(m)]
                     ELSE [as |-> "others", values |-> Received(m)]
    <3>1. AsMine(signed) = [as |-> "message", values |-> Received(m)]
      BY <2>3, <2>4, <2>6 DEF AsMine
    <3>2. AsOthers(signed) = [as |-> "others", values |-> Received(m)]
      BY <2>3, <2>4, <2>5, <2>6 DEF AsOthers
    <3> QED BY <1>1, <2>2, <2>4, <3>1, <3>2
  <2>8. /\ outcome'.as = IF original.destination_public_key = Key(Me) THEN "message" ELSE "others"
        /\ outcome'.values = Received(original)
    BY <2>7
  <2>11. Received(original)' = Received(original) /\ Key(Me)' = Key(Me)
    BY <1>1 DEF Received, Key
  <2>12. MessageArrives'
    BY <1>1, <2>8, <2>11 DEF MessageArrives
  <2>9. PunchArrives'
    BY <1>1, <1>2, MessageTypes DEF PunchArrives
  <2>10. TypeOK'
    BY <1>1, <2>8 DEF Transit, TypeOK
  <2> QED BY <1>1, <2>9, <2>10, <2>12 DEF Transit
<1>3. CASE original \in Punches
  <2> DEFINE punch == metadata_from_buffer(datagram)
  <2>1. datagram = Punched(original) /\ Len(Punched(original)) <= MaxDatagram
    BY <1>1, <1>3, PunchTypes DEF Sent
  <2>2. ~Fits(decoded, datagram) /\ punch.login = original.login /\ Owns(12, punch.public_key)
    BY <1>3, <2>1, PunchRead
  <2>3. IsKey(punch.public_key)
    BY <2>2 DEF IsKey, Peer
  <2> HIDE DEF decoded
  <2>4. outcome' = [as |-> "punch", values |-> punch]
    BY <1>1, <2>2, <2>3 DEF AsPunch
  <2> HIDE DEF punch
  <2>5. outcome'.as = "punch" /\ outcome'.values = punch
    BY <2>4
  <2>6. PunchArrives'
    BY <1>1, <2>2, <2>5 DEF PunchArrives, Owns
  <2>7. MessageArrives'
    BY <1>1, <1>3, PunchTypes DEF MessageArrives
  <2>8. TypeOK'
    BY <1>1, <2>5 DEF Transit, TypeOK
  <2> QED BY <1>1, <2>6, <2>7, <2>8 DEF Transit
<1> QED BY <1>1, <1>2, <1>3

(* So does every step.                                                     *)
LEMMA TransitStep == Transit /\ [Next]_vars => Transit'
<1> SUFFICES ASSUME Transit, [Next]_vars PROVE Transit'
  OBVIOUS
<1>0. original \in Messages \cup Punches
  BY DEF Transit, TypeOK
<1>1. CASE SendMessage
  <2> DEFINE buffer == Datagram(original)
  <2>1. Send(buffer) /\ outcome.as = "none" /\ buffer = Sent(original)
    BY <1>1 DEF SendMessage, Sent, Datagram
  <2>2. buffer \in Seq(Byte)
    BY <1>0, <2>1, SentTypes
  <2> HIDE DEF buffer
  <2> QED BY <2>1, <2>2, SendSends
<1>2. CASE HolePunch
  <2> DEFINE buffer == Punched(original)
  <2>1. Send(buffer) /\ outcome.as = "none" /\ "login" \in DOMAIN original
    BY <1>2 DEF HolePunch, Punched
  <2>2. buffer = Sent(original)
    BY <1>0, <2>1, MessageTypes, PunchTypes DEF Sent
  <2>3. buffer \in Seq(Byte)
    BY <1>0, <2>2, SentTypes
  <2> HIDE DEF buffer
  <2> QED BY <2>1, <2>2, <2>3, SendSends
<1>3. CASE Receive
  BY <1>3, ReceiveReads
<1>4. CASE UNCHANGED vars
  <2>1. original' = original /\ stray' = stray /\ datagram' = datagram /\ outcome' = outcome
    BY <1>4 DEF vars
  <2>2. Received(original)' = Received(original)
    BY <2>1 DEF Received
  <2>3. MessageArrives'
    BY <2>1, <2>2 DEF Transit, MessageArrives, Key
  <2>4. PunchArrives'
    BY <2>1 DEF Transit, PunchArrives, Owns
  <2>5. TypeOK'
    BY <2>1 DEF Transit, TypeOK
  <2>6. (datagram # <<>> => datagram = Sent(original))'
    BY <2>1 DEF Transit, Sent, Datagram, Punched
  <2> QED BY <2>3, <2>4, <2>5, <2>6 DEF Transit
<1> QED BY <1>1, <1>2, <1>3, <1>4 DEF Next

(* Transit is an invariant.                                                *)
LEMMA TransitHolds == Spec => []Transit
BY TransitInit, TransitStep, PTL DEF Spec

(* TypeOK: buffers of bytes, and never one UDP cannot carry.               *)
THEOREM WireKeepsTypes == Spec => []TypeOK
<1>1. Transit => TypeOK
  BY DEF Transit
<1> QED BY <1>1, TransitHolds, PTL

(* MessageArrives for every byte size, lengths and stray byte: a message   *)
(* that is sent is taken for one, with its fields intact.                  *)
THEOREM EveryMessageArrives == Spec => []MessageArrives
<1>1. Transit => MessageArrives
  BY DEF Transit
<1> QED BY <1>1, TransitHolds, PTL

(* PunchArrives likewise: every hole punch is taken for one.               *)
THEOREM EveryPunchArrives == Spec => []PunchArrives
<1>1. Transit => PunchArrives
  BY DEF Transit
<1> QED BY <1>1, TransitHolds, PTL
=============================================================================
