-------------------------- MODULE PackedWireProofs --------------------------
(***************************************************************************)
(* The contract reads the batch that was planned, and accepts no other     *)
(* bytes for it; and the Rust executor writes and accepts what Python      *)
(* writes and the contract accepts.  For bytes, widths and limits of any   *)
(* size.                                                                   *)
(*                                                                         *)
(* What the codec builds by recursion is reasoned about by induction over  *)
(* a set of naturals (Induct): there is a function that satisfies the      *)
(* recursive definition, and the one CHOOSE picks is such a function.  So  *)
(* digits are the digits of their number and the number is the value of    *)
(* its digits, flattening takes concatenation to concatenation, and a      *)
(* reader placed before a field that fits stands behind it afterwards.     *)
(* Reading back follows field by field, leg by leg, candidate by           *)
(* candidate.  That nothing else is accepted needs an invariant of the     *)
(* reader: as long as no check failed, what it has read is what would be   *)
(* written for its fields (Faithful).                                      *)
(*                                                                         *)
(* The Rust validator keeps the same offset as that reader, field group by *)
(* field group, and is refused where the reader fails a check.  Its        *)
(* encoder differs in the amounts only: every digit it takes in leaves the *)
(* shortest bytes of the number so far (Shortest), so the padded result is *)
(* what Python writes, and one byte too many means the amount is too big.  *)
(*                                                                         *)
(* None of it says anything of a plan; that every plan is one of the batches  *)
(* these results are about follows from the invariant of the planner.      *)
(***************************************************************************)
EXTENDS PackedWire, PackedBatchPlanProofs, WellFoundedInduction

-----------------------------------------------------------------------------
(* Induction and recursion over the naturals.                              *)

LEMMA LeastNatural ==
  ASSUME NEW T \in SUBSET Nat, T # {}
  PROVE  \E x \in T : \A y \in T : x <= y
<1>1. PICK x \in T : \A y \in T : ~ (<<y, x>> \in {p \in Nat \X Nat : p[1] < p[2]})
  BY NatLessThanWellFounded, WFMin, Zenon DEF OpToRel
<1>2. ASSUME NEW y \in T
      PROVE  x <= y
  <2>1. <<y, x>> \in Nat \X Nat /\ <<y, x>>[1] = y /\ <<y, x>>[2] = x
    OBVIOUS
  <2>2. ~(y < x)
    BY <1>1, <2>1
  <2> QED
    BY <2>2
<1> QED
  BY <1>2

\* A set of naturals that holds 0 and each successor holds all.
LEMMA Induct ==
  ASSUME NEW S, 0 \in S, \A n \in Nat : n \in S => n + 1 \in S
  PROVE  \A n \in Nat : n \in S
<1> SUFFICES ASSUME Nat \ S # {} PROVE FALSE
  OBVIOUS
<1>1. PICK x \in Nat \ S : \A y \in Nat \ S : x <= y
  <2>1. Nat \ S \in SUBSET Nat
    OBVIOUS
  <2> QED
    BY <2>1, LeastNatural
<1>2. x \in Nat /\ x # 0 /\ x - 1 \in Nat /\ x = (x - 1) + 1
  BY <1>1
<1>3. x - 1 \in S
  BY <1>1, <1>2
<1> QED
  BY <1>1, <1>2, <1>3

\* g is f on first .. k, with the value v for k + 1.
Extended(first, k, f, v, g) ==
  /\ g = [m \in first .. k + 1 |-> g[m]]
  /\ \A m \in first .. k : g[m] = f[m]
  /\ g[k + 1] = v

LEMMA Longer ==
  ASSUME NEW first \in 0 .. 1, NEW k \in Nat, NEW f, NEW v
  PROVE  \E g : Extended(first, k, f, v, g)
<1> DEFINE g == [m \in first .. k + 1 |-> IF m <= k THEN f[m] ELSE v]
<1>1. g = [m \in first .. k + 1 |-> g[m]]
  OBVIOUS
<1>2. \A m \in first .. k : g[m] = f[m]
  OBVIOUS
<1>3. g[k + 1] = v
  OBVIOUS
<1> QED
  BY <1>1, <1>2, <1>3 DEF Extended

-----------------------------------------------------------------------------
(* Powers.                                                                 *)

Powers(b, n, f) == f = [i \in 0 .. n |-> IF i = 0 THEN 1 ELSE b * f[i - 1]]

LEMMA PowersExist ==
  ASSUME NEW b, NEW n \in Nat
  PROVE  \E f : Powers(b, n, f)
<1> DEFINE S == {k \in Nat : \E f : Powers(b, k, f)}
<1>1. 0 \in S
  <2> DEFINE f == [i \in 0 .. 0 |-> 1]
  <2>1. f = [i \in 0 .. 0 |-> IF i = 0 THEN 1 ELSE b * f[i - 1]]
    OBVIOUS
  <2> QED
    BY <2>1 DEF Powers
<1>2. ASSUME NEW k \in Nat, k \in S PROVE k + 1 \in S
  <2>1. PICK f : Powers(b, k, f)
    BY <1>2
  <2>2. PICK g : Extended(0, k, f, b * f[k], g)
    BY Longer
  <2>3. ASSUME NEW m \in 0 .. k + 1 PROVE g[m] = IF m = 0 THEN 1 ELSE b * g[m - 1]
    <3>1. CASE m \in 0 .. k
      <4>1. f[m] = IF m = 0 THEN 1 ELSE b * f[m - 1]
        BY <2>1, <3>1 DEF Powers
      <4>2. m # 0 => m - 1 \in 0 .. k
        BY <3>1
      <4> QED
        BY <2>2, <3>1, <4>1, <4>2 DEF Extended
    <3>2. CASE m \notin 0 .. k
      <4>1. m = k + 1 /\ m - 1 = k /\ m # 0 /\ k \in 0 .. k
        BY <3>2
      <4> QED
        BY <2>2, <4>1 DEF Extended
    <3> QED
      BY <3>1, <3>2
  <2>4. Powers(b, k + 1, g)
    BY <2>2, <2>3 DEF Powers, Extended
  <2> QED
    BY <2>4
<1> HIDE DEF S
<1>3. n \in S
  BY <1>1, <1>2, Induct
<1> QED
  BY <1>3 DEF S

LEMMA PowerIsLast ==
  ASSUME NEW b, NEW n \in Nat
  PROVE  \E f : Powers(b, n, f) /\ Power(b, n) = f[n]
<1> DEFINE upTo == CHOOSE f : Powers(b, n, f)
<1>1. Powers(b, n, upTo)
  BY PowersExist
<1>2. Power(b, n) = upTo[n]
  BY DEF Power, Powers
<1> QED
  BY <1>1, <1>2

\* However far it is computed, a power is the same.
LEMMA OnePower ==
  ASSUME NEW b, NEW n \in Nat, NEW f, Powers(b, n, f), NEW k \in 0 .. n
  PROVE  f[k] = Power(b, k)
<1>1. PICK g : Powers(b, k, g) /\ Power(b, k) = g[k]
  BY PowerIsLast
<1> DEFINE S == {m \in Nat : m <= k => f[m] = g[m]}
<1>2. 0 \in S
  BY <1>1 DEF Powers
<1>3. ASSUME NEW m \in Nat, m \in S PROVE m + 1 \in S
  <2> SUFFICES ASSUME m + 1 <= k PROVE f[m + 1] = g[m + 1]
    OBVIOUS
  <2>1. f[m] = g[m]
    BY <1>3
  <2>2. m + 1 \in 0 .. n /\ m + 1 \in 0 .. k /\ m + 1 # 0 /\ (m + 1) - 1 = m
    OBVIOUS
  <2>3. f[m + 1] = b * f[m]
    BY <2>2 DEF Powers
  <2>4. g[m + 1] = b * g[m]
    BY <1>1, <2>2 DEF Powers
  <2> QED
    BY <2>1, <2>3, <2>4
<1> HIDE DEF S
<1>4. k \in S
  BY <1>2, <1>3, Induct
<1> QED
  BY <1>1, <1>4 DEF S

LEMMA PowerSteps ==
  ASSUME NEW b
  PROVE  /\ Power(b, 0) = 1
         /\ \A n \in Nat : Power(b, n + 1) = b * Power(b, n)
<1>1. Power(b, 0) = 1
  <2>1. PICK f : Powers(b, 0, f) /\ Power(b, 0) = f[0]
    BY PowerIsLast
  <2> QED
    BY <2>1 DEF Powers
<1>2. ASSUME NEW n \in Nat PROVE Power(b, n + 1) = b * Power(b, n)
  <2>1. n + 1 \in Nat
    OBVIOUS
  <2>2. PICK f : Powers(b, n + 1, f) /\ Power(b, n + 1) = f[n + 1]
    BY <2>1, PowerIsLast
  <2>3. n \in 0 .. n + 1 /\ n + 1 \in 0 .. n + 1 /\ n + 1 # 0 /\ (n + 1) - 1 = n
    OBVIOUS
  <2>4. f[n + 1] = b * f[n]
    BY <2>2, <2>3 DEF Powers, Extended
  <2>5. f[n] = Power(b, n)
    BY <2>1, <2>2, <2>3, OnePower
  <2> QED
    BY <2>2, <2>4, <2>5
<1> QED
  BY <1>1, <1>2

LEMMA PowerIsPositive ==
  ASSUME NEW b \in Nat \ {0}, NEW n \in Nat
  PROVE  Power(b, n) \in Nat \ {0}
<1> DEFINE S == {k \in Nat : Power(b, k) \in Nat \ {0}}
<1>1. 0 \in S
  BY PowerSteps
<1>2. ASSUME NEW k \in Nat, k \in S PROVE k + 1 \in S
  <2>1. Power(b, k + 1) = b * Power(b, k) /\ Power(b, k) \in Nat \ {0}
    BY <1>2, PowerSteps
  <2>2. \A x \in Nat \ {0}, y \in Nat \ {0} : x * y \in Nat \ {0}
    OBVIOUS
  <2> QED
    BY <2>1, <2>2
<1> HIDE DEF S
<1>3. n \in S
  BY <1>1, <1>2, Induct
<1> QED
  BY <1>3 DEF S

-----------------------------------------------------------------------------
(* Bytes and the numbers they stand for.                                   *)

Byte == 0 .. Base - 1

LEMMA DivideTwice ==
  ASSUME NEW a \in Nat, NEW b \in Nat \ {0}, NEW c \in Nat \ {0}
  PROVE  (a \div b) \div c = a \div (c * b)
  OBVIOUS

LEMMA DivideBack ==
  ASSUME NEW a \in Nat, NEW b \in Nat \ {0}, NEW d \in 0 .. b - 1
  PROVE  (a * b + d) \div b = a /\ (a * b + d) % b = d
  OBVIOUS

LEMMA DivideAndBack ==
  ASSUME NEW a \in Nat, NEW b \in Nat \ {0}
  PROVE  /\ (a \div b) * b + (a % b) = a
         /\ a \div b \in Nat /\ a % b \in 0 .. b - 1
  OBVIOUS

LEMMA BaseIsNat == Base \in Nat \ {0} /\ Base > 1
  BY PackedCodecAssumption

Counts(bytes, n, f) ==
  f = [i \in 0 .. n |-> IF i = 0 THEN 0 ELSE f[i - 1] * Base + bytes[i]]

LEMMA CountsExist ==
  ASSUME NEW bytes, NEW n \in Nat
  PROVE  \E f : Counts(bytes, n, f)
<1> DEFINE S == {k \in Nat : \E f : Counts(bytes, k, f)}
<1>1. 0 \in S
  <2> DEFINE f == [i \in 0 .. 0 |-> 0]
  <2>1. f = [i \in 0 .. 0 |-> IF i = 0 THEN 0 ELSE f[i - 1] * Base + bytes[i]]
    OBVIOUS
  <2> QED
    BY <2>1 DEF Counts
<1>2. ASSUME NEW k \in Nat, k \in S PROVE k + 1 \in S
  <2>1. PICK f : Counts(bytes, k, f)
    BY <1>2
  <2>2. PICK g : Extended(0, k, f, f[k] * Base + bytes[k + 1], g)
    BY Longer
  <2>3. ASSUME NEW m \in 0 .. k + 1
        PROVE  g[m] = IF m = 0 THEN 0 ELSE g[m - 1] * Base + bytes[m]
    <3>1. CASE m \in 0 .. k
      <4>1. f[m] = IF m = 0 THEN 0 ELSE f[m - 1] * Base + bytes[m]
        BY <2>1, <3>1 DEF Counts
      <4>2. m # 0 => m - 1 \in 0 .. k
        BY <3>1
      <4> QED
        BY <2>2, <3>1, <4>1, <4>2 DEF Extended
    <3>2. CASE m \notin 0 .. k
      <4>1. m = k + 1 /\ m - 1 = k /\ m # 0 /\ k \in 0 .. k
        BY <3>2
      <4> QED
        BY <2>2, <4>1 DEF Extended
    <3> QED
      BY <3>1, <3>2
  <2>4. Counts(bytes, k + 1, g)
    BY <2>2, <2>3 DEF Counts, Extended
  <2> QED
    BY <2>4
<1> HIDE DEF S
<1>3. n \in S
  BY <1>1, <1>2, Induct
<1> QED
  BY <1>3 DEF S

LEMMA ValueIsLast ==
  ASSUME NEW bytes, Len(bytes) \in Nat
  PROVE  \E f : /\ f[0] = 0
                /\ \A i \in 1 .. Len(bytes) : f[i] = f[i - 1] * Base + bytes[i]
                /\ Value(bytes) = f[Len(bytes)]
<1> DEFINE n == Len(bytes)
           upTo == CHOOSE f : Counts(bytes, n, f)
<1>1. Counts(bytes, n, upTo)
  <2> HIDE DEF n
  <2>1. n \in Nat
    BY DEF n
  <2> QED
    BY <2>1, CountsExist
<1>2. Value(bytes) = upTo[n]
  BY DEF Value, Counts
<1> HIDE DEF upTo
<1>3. upTo[0] = 0
  BY <1>1 DEF Counts
<1>4. ASSUME NEW i \in 1 .. n PROVE upTo[i] = upTo[i - 1] * Base + bytes[i]
  <2>1. i \in 0 .. n /\ i # 0
    OBVIOUS
  <2> QED
    BY <1>1, <2>1 DEF Counts
<1> QED
  BY <1>2, <1>3, <1>4

\* As many bytes as asked for.
LEMMA WrittenBytes ==
  ASSUME NEW v \in Nat, NEW n \in Nat
  PROVE  /\ _u(v, n) \in Seq(Byte) /\ Len(_u(v, n)) = n
         /\ \A i \in 1 .. n : _u(v, n)[i] = (v \div Power(Base, n - i)) % Base
<1>1. ASSUME NEW i \in 1 .. n PROVE (v \div Power(Base, n - i)) % Base \in Byte
  <2>1. n - i \in Nat
    OBVIOUS
  <2>2. Power(Base, n - i) \in Nat \ {0}
    BY <2>1, BaseIsNat, PowerIsPositive
  <2>3. v \div Power(Base, n - i) \in Nat
    BY <2>2, DivideAndBack
  <2> QED
    BY <2>3, BaseIsNat, DivideAndBack DEF Byte
<1>2. _u(v, n) \in [1 .. n -> Byte]
  BY <1>1 DEF _u
<1> QED
  BY <1>2, SeqDef, LenProperties DEF _u

\* A number that fits is read back (_decodePacked of _u).
LEMMA ValueOfWritten ==
  ASSUME NEW n \in Nat, NEW v \in Nat, v < Power(Base, n)
  PROVE  Value(_u(v, n)) = v
<1> DEFINE bytes == _u(v, n)
<1>1. Len(bytes) = n /\ \A i \in 1 .. n : bytes[i] = (v \div Power(Base, n - i)) % Base
  BY WrittenBytes
<1> HIDE DEF bytes
<1>2. PICK f : /\ f[0] = 0
               /\ \A i \in 1 .. n : f[i] = f[i - 1] * Base + bytes[i]
               /\ Value(bytes) = f[n]
  BY <1>1, ValueIsLast
<1> DEFINE S == {k \in Nat : k <= n => f[k] = v \div Power(Base, n - k)}
<1>3. 0 \in S
  <2>1. Power(Base, n) \in Nat \ {0}
    BY BaseIsNat, PowerIsPositive
  <2>2. \A p \in Nat \ {0} : v < p => v \div p = 0
    OBVIOUS
  <2>3. v \div Power(Base, n) = 0
    BY <2>1, <2>2
  <2>4. n - 0 = n
    OBVIOUS
  <2> QED
    BY <1>2, <2>3, <2>4
<1>4. ASSUME NEW k \in Nat, k \in S PROVE k + 1 \in S
  <2> SUFFICES ASSUME k + 1 <= n PROVE f[k + 1] = v \div Power(Base, n - (k + 1))
    OBVIOUS
  <2>1. k + 1 \in 1 .. n /\ (k + 1) - 1 = k /\ n - (k + 1) \in Nat /\ n - k = (n - (k + 1)) + 1
    OBVIOUS
  <2> DEFINE p == Power(Base, n - (k + 1))
             q == v \div p
  <2>2. p \in Nat \ {0}
    BY <2>1, BaseIsNat, PowerIsPositive
  <2>3. Power(Base, n - k) = Base * p
    BY <2>1, PowerSteps
  <2>4. bytes[k + 1] = q % Base
    BY <1>1, <2>1
  <2>5. f[k] = v \div (Base * p)
    BY <1>4, <2>3
  <2>6. f[k + 1] = f[k] * Base + bytes[k + 1]
    BY <1>2, <2>1
  <2> HIDE DEF p
  <2>7. q \in Nat /\ q \div Base = v \div (Base * p)
    BY <2>2, BaseIsNat, DivideTwice, DivideAndBack
  <2> HIDE DEF q
  <2>8. (q \div Base) * Base + (q % Base) = q
    BY <2>7, BaseIsNat, DivideAndBack
  <2>9. f[k + 1] = q
    BY <2>4, <2>5, <2>6, <2>7, <2>8
  <2> QED
    BY <2>9 DEF q, p
<1> HIDE DEF S
<1>5. n \in S
  BY <1>3, <1>4, Induct
<1>6. f[n] = v \div Power(Base, n - n)
  BY <1>5 DEF S
<1>7. n - n = 0 /\ v \div 1 = v
  OBVIOUS
<1>8. f[n] = v
  BY <1>6, <1>7, PowerSteps
<1> QED
  BY <1>2, <1>8 DEF bytes

\* Bytes that were read are the ones the number is written with.
LEMMA WrittenOfValue ==
  ASSUME NEW bytes \in Seq(Byte)
  PROVE  /\ Value(bytes) \in Nat
         /\ _u(Value(bytes), Len(bytes)) = bytes
<1> DEFINE n == Len(bytes)
<1>1. n \in Nat /\ \A i \in 1 .. n : bytes[i] \in Byte
  BY LenProperties, ElementOfSeq
<1> HIDE DEF n
<1>2. PICK f : /\ f[0] = 0
               /\ \A i \in 1 .. n : f[i] = f[i - 1] * Base + bytes[i]
               /\ Value(bytes) = f[n]
  BY <1>1, ValueIsLast DEF n
<1> DEFINE S == {k \in Nat : k <= n => f[k] \in Nat}
<1>3. 0 \in S
  BY <1>2
<1>4. ASSUME NEW k \in Nat, k \in S PROVE k + 1 \in S
  <2> SUFFICES ASSUME k + 1 <= n PROVE f[k + 1] \in Nat
    OBVIOUS
  <2>1. k + 1 \in 1 .. n /\ (k + 1) - 1 = k /\ f[k] \in Nat
    BY <1>1, <1>4
  <2>2. f[k + 1] = f[k] * Base + bytes[k + 1] /\ bytes[k + 1] \in Nat
    BY <1>1, <1>2, <2>1, BaseIsNat DEF Byte
  <2>3. \A x \in Nat, y \in Nat, z \in Nat : x * y + z \in Nat
    OBVIOUS
  <2> QED
    BY <2>1, <2>2, <2>3, BaseIsNat
<1> HIDE DEF S
<1>5. \A k \in 0 .. n : f[k] \in Nat
  <2>1. \A k \in Nat : k \in S
    BY <1>3, <1>4, Induct
  <2> QED
    BY <1>1, <2>1 DEF S
<1>6. \A i \in 1 .. n : f[i] \div Base = f[i - 1] /\ f[i] % Base = bytes[i]
  <2> TAKE i \in 1 .. n
  <2>1. f[i - 1] \in Nat /\ bytes[i] \in 0 .. Base - 1
    BY <1>1, <1>5 DEF Byte
  <2>2. f[i] = f[i - 1] * Base + bytes[i]
    BY <1>2
  <2>3. /\ (f[i - 1] * Base + bytes[i]) \div Base = f[i - 1]
        /\ (f[i - 1] * Base + bytes[i]) % Base = bytes[i]
    BY <2>1, BaseIsNat, DivideBack
  <2> QED
    BY <2>2, <2>3
<1> DEFINE T == {j \in Nat : j <= n => f[n] \div Power(Base, j) = f[n - j]}
<1>7. 0 \in T
  <2>1. f[n] \in Nat /\ n - 0 = n
    BY <1>1, <1>5
  <2>2. f[n] \div 1 = f[n]
    BY <2>1
  <2> QED
    BY <2>1, <2>2, PowerSteps
<1>8. ASSUME NEW j \in Nat, j \in T PROVE j + 1 \in T
  <2> SUFFICES ASSUME j + 1 <= n PROVE f[n] \div Power(Base, j + 1) = f[n - (j + 1)]
    OBVIOUS
  <2>1. n - j \in 1 .. n /\ (n - j) - 1 = n - (j + 1) /\ j <= n
    BY <1>1
  <2>2. f[n] \div Power(Base, j) = f[n - j]
    BY <1>8, <2>1
  <2>3. f[n - j] \div Base = f[n - (j + 1)]
    BY <1>6, <2>1
  <2>4. f[n] \in Nat /\ Power(Base, j) \in Nat \ {0}
    BY <1>1, <1>5, BaseIsNat, PowerIsPositive
  <2>5. (f[n] \div Power(Base, j)) \div Base = f[n] \div (Base * Power(Base, j))
    BY <2>4, BaseIsNat, DivideTwice
  <2> QED
    BY <2>2, <2>3, <2>5, PowerSteps
<1> HIDE DEF T
<1>9. \A j \in Nat : j \in T
  BY <1>7, <1>8, Induct
<1>10. \A i \in 1 .. n : (f[n] \div Power(Base, n - i)) % Base = bytes[i]
  <2> TAKE i \in 1 .. n
  <2>1. n - i \in Nat /\ n - i <= n /\ n - (n - i) = i
    BY <1>1
  <2>2. f[n] \div Power(Base, n - i) = f[i]
    BY <1>9, <2>1 DEF T
  <2> QED
    BY <1>6, <2>2
<1>11. f[n] \in Nat
  BY <1>1, <1>5
<1>12. _u(f[n], n) = bytes
  <2>1. /\ _u(f[n], n) \in Seq(Byte) /\ Len(_u(f[n], n)) = n
        /\ \A i \in 1 .. n : _u(f[n], n)[i] = (f[n] \div Power(Base, n - i)) % Base
    BY <1>1, <1>11, WrittenBytes
  <2>2. \A i \in 1 .. n : _u(f[n], n)[i] = bytes[i]
    BY <1>10, <2>1
  <2> QED
    BY <2>1, <2>2, SeqEqual DEF n
<1> QED
  BY <1>2, <1>11, <1>12 DEF n

-----------------------------------------------------------------------------
(* Sequences strung together.                                              *)

Grouped(S) == \A a, b, c \in Seq(S) : a \o (b \o c) = (a \o b) \o c

LEMMA Regrouped == ASSUME NEW S PROVE Grouped(S)
  BY ConcatAssociative DEF Grouped

Strings(seqs, n, f) ==
  f = [i \in 1 .. n |-> IF i = 1 THEN seqs[i] ELSE f[i - 1] \o seqs[i]]

LEMMA StringsExist ==
  ASSUME NEW seqs, NEW n \in Nat
  PROVE  \E f : Strings(seqs, n, f)
<1> DEFINE S == {k \in Nat : \E f : Strings(seqs, k, f)}
<1>1. 0 \in S
  <2> DEFINE f == [i \in 1 .. 0 |-> seqs[i]]
  <2>1. f = [i \in 1 .. 0 |-> IF i = 1 THEN seqs[i] ELSE f[i - 1] \o seqs[i]]
    OBVIOUS
  <2> QED
    BY <2>1 DEF Strings
<1>2. ASSUME NEW k \in Nat, k \in S PROVE k + 1 \in S
  <2>1. PICK f : Strings(seqs, k, f)
    BY <1>2
  <2>2. PICK g : Extended(1, k, f, IF k = 0 THEN seqs[1] ELSE f[k] \o seqs[k + 1], g)
    BY Longer
  <2>3. ASSUME NEW m \in 1 .. k + 1
        PROVE  g[m] = IF m = 1 THEN seqs[m] ELSE g[m - 1] \o seqs[m]
    <3>1. CASE m \in 1 .. k
      <4>1. f[m] = IF m = 1 THEN seqs[m] ELSE f[m - 1] \o seqs[m]
        BY <2>1, <3>1 DEF Strings
      <4>2. m # 1 => m - 1 \in 1 .. k
        BY <3>1
      <4> QED
        BY <2>2, <3>1, <4>1, <4>2 DEF Extended
    <3>2. CASE m \notin 1 .. k
      <4>1. m = k + 1 /\ m - 1 = k /\ (k # 0 => m # 1 /\ k \in 1 .. k) /\ (k = 0 => m = 1)
        BY <3>2
      <4> QED
        BY <2>2, <4>1 DEF Extended
    <3> QED
      BY <3>1, <3>2
  <2>4. Strings(seqs, k + 1, g)
    BY <2>2, <2>3 DEF Strings, Extended
  <2> QED
    BY <2>4
<1> HIDE DEF S
<1>3. n \in S
  BY <1>1, <1>2, Induct
<1> QED
  BY <1>3 DEF S

LEMMA FlattenIsLast ==
  ASSUME NEW seqs, Len(seqs) \in Nat \ {0}
  PROVE  \E f : /\ f[1] = seqs[1]
                /\ \A i \in 2 .. Len(seqs) : f[i] = f[i - 1] \o seqs[i]
                /\ FlattenSeq(seqs) = f[Len(seqs)]
<1> DEFINE n == Len(seqs)
           flatten == CHOOSE f : Strings(seqs, n, f)
<1>1. Strings(seqs, n, flatten)
  <2> HIDE DEF n
  <2>1. n \in Nat
    BY DEF n
  <2> QED
    BY <2>1, StringsExist
<1>2. FlattenSeq(seqs) = flatten[n]
  BY DEF FlattenSeq, Strings
<1> HIDE DEF flatten
<1>3. flatten[1] = seqs[1]
  <2>1. 1 \in 1 .. n
    OBVIOUS
  <2> QED
    BY <1>1, <2>1 DEF Strings
<1>4. ASSUME NEW i \in 2 .. n PROVE flatten[i] = flatten[i - 1] \o seqs[i]
  <2>1. i \in 1 .. n /\ i # 1
    OBVIOUS
  <2> QED
    BY <1>1, <2>1 DEF Strings
<1> QED
  BY <1>2, <1>3, <1>4

LEMMA FlattenNothing == FlattenSeq(<<>>) = <<>>
  BY EmptySeq DEF FlattenSeq

\* What is strung together is a sequence, and one more is added at the end.
LEMMA FlattenAppend ==
  ASSUME NEW S, NEW seqs \in Seq(Seq(S)), NEW x \in Seq(S)
  PROVE  /\ FlattenSeq(seqs) \in Seq(S)
         /\ FlattenSeq(Append(seqs, x)) = FlattenSeq(seqs) \o x
<1> DEFINE n == Len(seqs)
           more == Append(seqs, x)
<1>1. n \in Nat /\ \A i \in 1 .. n : seqs[i] \in Seq(S)
  BY LenProperties, ElementOfSeq
<1>2. Len(more) = n + 1 /\ more[n + 1] = x /\ \A i \in 1 .. n : more[i] = seqs[i]
  BY AppendProperties
<1>3. Len(more) \in Nat \ {0}
  BY <1>1, <1>2
<1> HIDE DEF n, more
<1>4. PICK f : /\ f[1] = more[1]
               /\ \A i \in 2 .. n + 1 : f[i] = f[i - 1] \o more[i]
               /\ FlattenSeq(more) = f[n + 1]
  BY <1>2, <1>3, FlattenIsLast
<1>5. CASE n = 0
  <2>1. seqs = <<>>
    BY <1>5, EmptySeq DEF n
  <2>2. FlattenSeq(seqs) = <<>>
    BY <2>1, FlattenNothing
  <2>3. FlattenSeq(more) = x
    BY <1>2, <1>4, <1>5
  <2> QED
    BY <2>2, <2>3, EmptySeq, ConcatEmptySeq DEF more
<1>6. CASE n # 0
  <2>1. n \in Nat \ {0}
    BY <1>1, <1>6
  <2>2. PICK g : /\ g[1] = seqs[1]
                 /\ \A i \in 2 .. n : g[i] = g[i - 1] \o seqs[i]
                 /\ FlattenSeq(seqs) = g[n]
    BY <2>1, FlattenIsLast DEF n
  <2> DEFINE T == {k \in Nat : k + 1 <= n => f[k + 1] = g[k + 1] /\ g[k + 1] \in Seq(S)}
  <2>3. 0 \in T
    BY <1>1, <1>2, <1>4, <2>1, <2>2
  <2>4. ASSUME NEW k \in Nat, k \in T PROVE k + 1 \in T
    <3> SUFFICES ASSUME k + 2 <= n PROVE f[k + 2] = g[k + 2] /\ g[k + 2] \in Seq(S)
      OBVIOUS
    <3>1. k + 2 \in 2 .. n /\ k + 2 \in 2 .. n + 1 /\ k + 2 \in 1 .. n /\ (k + 2) - 1 = k + 1 /\ k + 1 <= n
      BY <2>1
    <3>2. f[k + 2] = f[k + 1] \o seqs[k + 2]
      BY <1>2, <1>4, <3>1
    <3>3. g[k + 2] = g[k + 1] \o seqs[k + 2]
      BY <2>2, <3>1
    <3>4. f[k + 1] = g[k + 1] /\ g[k + 1] \in Seq(S)
      BY <2>4, <3>1
    <3>5. seqs[k + 2] \in Seq(S)
      BY <1>1, <3>1
    <3> QED
      BY <3>2, <3>3, <3>4, <3>5, ConcatProperties
  <2> HIDE DEF T
  <2>5. n - 1 \in T
    <3>1. n - 1 \in Nat
      BY <2>1
    <3> QED
      BY <2>3, <2>4, <3>1, Induct
  <2>6. f[n] = g[n] /\ g[n] \in Seq(S)
    <3>1. n - 1 \in Nat /\ (n - 1) + 1 = n
      BY <2>1
    <3> QED
      BY <2>5, <3>1 DEF T
  <2>7. n + 1 \in 2 .. n + 1 /\ (n + 1) - 1 = n
    BY <2>1
  <2>8. FlattenSeq(more) = f[n] \o x
    BY <1>2, <1>4, <2>7
  <2> QED
    BY <2>2, <2>6, <2>8 DEF more
<1> QED
  BY <1>5, <1>6

LEMMA FlattenOne ==
  ASSUME NEW S, NEW x \in Seq(S)
  PROVE  FlattenSeq(<<x>>) = x
<1>1. <<>> \in Seq(Seq(S)) /\ <<x>> = Append(<<>>, x)
  OBVIOUS
<1>2. FlattenSeq(Append(<<>>, x)) = FlattenSeq(<<>>) \o x
  BY <1>1, FlattenAppend
<1> QED
  BY <1>1, <1>2, FlattenNothing, ConcatEmptySeq

LEMMA FlattenConcat ==
  ASSUME NEW S, NEW s \in Seq(Seq(S)), NEW t \in Seq(Seq(S))
  PROVE  FlattenSeq(s \o t) = FlattenSeq(s) \o FlattenSeq(t)
<1> DEFINE T == {k \in Nat : \A u \in Seq(Seq(S)) :
                   Len(u) = k => FlattenSeq(s \o u) = FlattenSeq(s) \o FlattenSeq(u)}
<1>0. FlattenSeq(s) \in Seq(S)
  BY EmptySeq, FlattenAppend
<1>1. 0 \in T
  <2> SUFFICES ASSUME NEW u \in Seq(Seq(S)), Len(u) = 0
               PROVE  FlattenSeq(s \o u) = FlattenSeq(s) \o FlattenSeq(u)
    OBVIOUS
  <2>1. u = <<>>
    BY EmptySeq
  <2> QED
    BY <1>0, <2>1, FlattenNothing, ConcatEmptySeq
<1>2. ASSUME NEW k \in Nat, k \in T PROVE k + 1 \in T
  <2> SUFFICES ASSUME NEW u \in Seq(Seq(S)), Len(u) = k + 1
               PROVE  FlattenSeq(s \o u) = FlattenSeq(s) \o FlattenSeq(u)
    OBVIOUS
  <2>1. u # <<>>
    BY EmptySeq
  <2>2. PICK w \in Seq(Seq(S)), x \in Seq(S) : u = Append(w, x)
    BY <2>1, SequenceEmptyOrAppend
  <2>3. Len(w) = k
    BY <2>2, AppendProperties, LenProperties
  <2>4. FlattenSeq(s \o w) = FlattenSeq(s) \o FlattenSeq(w)
    BY <1>2, <2>3
  <2>5. s \o u = Append(s \o w, x) /\ s \o w \in Seq(Seq(S))
    <3>1. u = w \o <<x>> /\ <<x>> \in Seq(Seq(S))
      BY <2>2, AppendIsConcat
    <3>2. s \o w \in Seq(Seq(S))
      BY ConcatProperties
    <3>3. Append(s \o w, x) = (s \o w) \o <<x>>
      BY <3>2, AppendIsConcat
    <3>4. Grouped(Seq(S))
      BY Regrouped
    <3>5. s \o (w \o <<x>>) = (s \o w) \o <<x>>
      BY <3>1, <3>4 DEF Grouped
    <3> QED
      BY <3>1, <3>2, <3>3, <3>5
  <2>6. FlattenSeq(s \o u) = FlattenSeq(s \o w) \o x
    BY <2>5, FlattenAppend
  <2>7. FlattenSeq(u) = FlattenSeq(w) \o x /\ FlattenSeq(w) \in Seq(S)
    BY <2>2, FlattenAppend
  <2>8. FlattenSeq(s) \o (FlattenSeq(w) \o x) = (FlattenSeq(s) \o FlattenSeq(w)) \o x
    <3>1. Grouped(S)
      BY Regrouped
    <3> QED
      BY <1>0, <2>7, <3>1 DEF Grouped
  <2> QED
    BY <2>4, <2>6, <2>7, <2>8
<1> HIDE DEF T
<1>3. Len(t) \in T
  BY <1>1, <1>2, Induct, LenProperties
<1> QED
  BY <1>3 DEF T

-----------------------------------------------------------------------------
(* Fields, as they are written.                                            *)

Entries == Nat \X Nat
Fitting == {f \in Entries : f[2] < Power(Base, f[1])}

Parts(fields) == [i \in DOMAIN fields |-> _u(fields[i][2], fields[i][1])]

LEMMA PartsAreBytes ==
  ASSUME NEW a \in Seq(Entries)
  PROVE  /\ Parts(a) \in Seq(Seq(Byte)) /\ Len(Parts(a)) = Len(a)
         /\ \A i \in 1 .. Len(a) : Parts(a)[i] = _u(a[i][2], a[i][1])
<1>1. Len(a) \in Nat /\ DOMAIN a = 1 .. Len(a)
  BY LenProperties
<1>2. ASSUME NEW i \in 1 .. Len(a) PROVE _u(a[i][2], a[i][1]) \in Seq(Byte)
  <2>1. a[i] \in Entries
    BY ElementOfSeq
  <2>2. a[i][1] \in Nat /\ a[i][2] \in Nat
    BY <2>1 DEF Entries
  <2> QED
    BY <2>2, WrittenBytes
<1>3. Parts(a) \in [1 .. Len(a) -> Seq(Byte)]
  BY <1>1, <1>2 DEF Parts
<1>4. Parts(a) \in Seq(Seq(Byte))
  BY <1>1, <1>3, SeqDef
<1>5. Len(Parts(a)) = Len(a)
  BY <1>1, <1>3, <1>4, LenProperties
<1> QED
  BY <1>1, <1>4, <1>5 DEF Parts

LEMMA WrittenTogether ==
  ASSUME NEW a \in Seq(Entries), NEW b \in Seq(Entries)
  PROVE  /\ Written(a) \in Seq(Byte)
         /\ Written(a \o b) = Written(a) \o Written(b)
<1>1. a \o b \in Seq(Entries) /\ Len(a \o b) = Len(a) + Len(b)
  BY ConcatProperties
<1>2. /\ Parts(a) \in Seq(Seq(Byte)) /\ Parts(b) \in Seq(Seq(Byte))
      /\ Len(Parts(a)) = Len(a) /\ Len(Parts(b)) = Len(b)
      /\ Parts(a \o b) \in Seq(Seq(Byte)) /\ Len(Parts(a \o b)) = Len(a) + Len(b)
  BY <1>1, PartsAreBytes
<1>3. Parts(a \o b) = Parts(a) \o Parts(b)
  <2> DEFINE p == Parts(a \o b)
             q == Parts(a) \o Parts(b)
  <2>1. q \in Seq(Seq(Byte)) /\ Len(q) = Len(a) + Len(b)
    BY <1>2, ConcatProperties
  <2>2. ASSUME NEW i \in 1 .. Len(a) + Len(b) PROVE p[i] = q[i]
    <3>0. Len(a) \in Nat /\ Len(b) \in Nat
      BY LenProperties
    <3>1. p[i] = _u((a \o b)[i][2], (a \o b)[i][1])
      BY <1>1, PartsAreBytes
    <3>2. (a \o b)[i] = IF i <= Len(a) THEN a[i] ELSE b[i - Len(a)]
      BY ConcatProperties
    <3>3. q[i] = IF i <= Len(a) THEN Parts(a)[i] ELSE Parts(b)[i - Len(a)]
      BY <1>2, ConcatProperties
    <3>4. CASE i <= Len(a)
      <4>1. i \in 1 .. Len(a)
        BY <3>0, <3>4
      <4>2. Parts(a)[i] = _u(a[i][2], a[i][1])
        BY <4>1, PartsAreBytes
      <4> QED
        BY <3>1, <3>2, <3>3, <3>4, <4>2
    <3>5. CASE ~(i <= Len(a))
      <4>1. i - Len(a) \in 1 .. Len(b)
        BY <3>0, <3>5
      <4>2. Parts(b)[i - Len(a)] = _u(b[i - Len(a)][2], b[i - Len(a)][1])
        BY <4>1, PartsAreBytes
      <4> QED
        BY <3>1, <3>2, <3>3, <3>5, <4>2
    <3> QED
      BY <3>4, <3>5
  <2>3. p \in Seq(Seq(Byte)) /\ Len(p) = Len(a) + Len(b)
    BY <1>2
  <2> HIDE DEF p, q
  <2>4. p = q
    BY <2>1, <2>2, <2>3, SeqEqual
  <2> QED
    BY <2>4 DEF p, q
<1>4. \A x : Written(x) = FlattenSeq(Parts(x))
  BY DEF Written, Parts
<1>5. Written(a) \in Seq(Byte)
  BY <1>2, <1>4, EmptySeq, FlattenAppend
<1>6. FlattenSeq(Parts(a) \o Parts(b)) = FlattenSeq(Parts(a)) \o FlattenSeq(Parts(b))
  BY <1>2, FlattenConcat
<1> QED
  BY <1>3, <1>4, <1>5, <1>6

LEMMA WrittenNothing == Written(<<>>) = <<>>
<1>1. Parts(<<>>) = <<>>
  BY PartsAreBytes, EmptySeq
<1> QED
  BY <1>1, FlattenNothing DEF Written, Parts

LEMMA WrittenOne ==
  ASSUME NEW f \in Entries
  PROVE  Written(<<f>>) = _u(f[2], f[1])
<1> DEFINE w == _u(f[2], f[1])
<1>1. w \in Seq(Byte)
  BY WrittenBytes DEF Entries
<1>2. Parts(<<f>>) = <<w>>
  <2> DEFINE g == <<f>>
  <2>1. g \in Seq(Entries) /\ Len(g) = 1 /\ g[1] = f /\ 1 \in 1 .. 1
    OBVIOUS
  <2> HIDE DEF w, g
  <2>2. /\ Parts(g) \in Seq(Seq(Byte)) /\ Len(Parts(g)) = 1
        /\ \A i \in 1 .. 1 : Parts(g)[i] = _u(g[i][2], g[i][1])
    BY <2>1, PartsAreBytes
  <2>3. Parts(g) \in Seq(Seq(Byte)) /\ Len(Parts(g)) = 1 /\ Parts(g)[1] = w
    BY <2>1, <2>2 DEF w
  <2>4. <<w>> \in Seq(Seq(Byte)) /\ Len(<<w>>) = 1 /\ <<w>>[1] = w
    BY <1>1
  <2>5. Parts(g) = <<w>>
    BY <2>3, <2>4, SeqEqual
  <2> QED
    BY <2>5 DEF g
<1> HIDE DEF w
<1>3. Written(<<f>>) = FlattenSeq(<<w>>)
  BY <1>2 DEF Written, Parts
<1> QED
  BY <1>1, <1>3, FlattenOne DEF w

-----------------------------------------------------------------------------
(* What was written is read back (_decodePacked of encode_packed_batch).   *)

\* A reader of the fields done and todo that has read the first of them.
Stage(done, todo) ==
  [p |-> Written(done \o todo), o |-> Len(Written(done)), fields |-> done, ok |-> TRUE]

Joins(S) ==
  \A a, b \in Seq(S) :
    /\ a \o b \in Seq(S)
    /\ Len(a \o b) = Len(a) + Len(b)
    /\ \A i \in 1 .. Len(a) : (a \o b)[i] = a[i]
    /\ \A i \in 1 .. Len(b) : (a \o b)[Len(a) + i] = b[i]

LEMMA Joined == ASSUME NEW S PROVE Joins(S)
<1> SUFFICES ASSUME NEW a \in Seq(S), NEW b \in Seq(S)
             PROVE  /\ a \o b \in Seq(S)
                    /\ Len(a \o b) = Len(a) + Len(b)
                    /\ \A i \in 1 .. Len(a) : (a \o b)[i] = a[i]
                    /\ \A i \in 1 .. Len(b) : (a \o b)[Len(a) + i] = b[i]
  BY DEF Joins
<1>1. Len(a) \in Nat /\ Len(b) \in Nat
  BY LenProperties
<1>2. /\ a \o b \in Seq(S)
      /\ Len(a \o b) = Len(a) + Len(b)
      /\ \A i \in 1 .. Len(a) + Len(b) :
           (a \o b)[i] = IF i <= Len(a) THEN a[i] ELSE b[i - Len(a)]
  BY ConcatProperties
<1>3. ASSUME NEW i \in 1 .. Len(a) PROVE (a \o b)[i] = a[i]
  BY <1>1, <1>2
<1>4. ASSUME NEW i \in 1 .. Len(b) PROVE (a \o b)[Len(a) + i] = b[i]
  <2>1. Len(a) + i \in 1 .. Len(a) + Len(b) /\ ~(Len(a) + i <= Len(a)) /\ (Len(a) + i) - Len(a) = i
    BY <1>1
  <2> QED
    BY <1>2, <2>1
<1> QED
  BY <1>2, <1>3, <1>4

LEMMA MiddlePart ==
  ASSUME NEW S, NEW a \in Seq(S), NEW w \in Seq(S), NEW r \in Seq(S)
  PROVE  /\ Len(a \o (w \o r)) = Len(a) + Len(w) + Len(r)
         /\ SubSeq(a \o (w \o r), Len(a) + 1, Len(a) + Len(w)) = w
<1>1. Len(a) \in Nat /\ Len(w) \in Nat /\ Len(r) \in Nat
  BY LenProperties
<1> DEFINE x == w \o r
           y == a \o x
           la == Len(a)
           lw == Len(w)
           z == SubSeq(y, la + 1, la + lw)
<1>0. Joins(S)
  BY Joined
<1>2. x \in Seq(S) /\ Len(x) = lw + Len(r) /\ \A i \in 1 .. lw : x[i] = w[i]
  BY <1>0 DEF Joins
<1> HIDE DEF x
<1>3. y \in Seq(S) /\ Len(y) = la + Len(x) /\ \A i \in 1 .. Len(x) : y[la + i] = x[i]
  BY <1>0, <1>2 DEF Joins
<1> HIDE DEF y, la, lw
<1>4. la \in Nat /\ lw \in Nat /\ Len(r) \in Nat
  BY <1>1 DEF la, lw
<1>5. \A i \in la + 1 .. la + lw : y[i] \in S
  <2> TAKE i \in la + 1 .. la + lw
  <2>1. i \in 1 .. Len(y)
    BY <1>2, <1>3, <1>4
  <2> QED
    BY <1>3, <2>1, ElementOfSeq
<1>6. /\ z \in Seq(S) /\ Len(z) = lw
      /\ \A i \in 1 .. lw : z[i] = y[la + i]
  <2> DEFINE m == la + 1
             n == la + lw
  <2>1. m \in Int /\ n \in Int /\ n - m + 1 = lw /\ (m <= n \/ lw = 0)
    BY <1>4
  <2>2. \A i \in 1 .. lw : m + i - 1 = la + i
    BY <1>4
  <2>3. \A i \in m .. n : y[i] \in S
    BY <1>5
  <2>4. z = SubSeq(y, m, n)
    OBVIOUS
  <2> HIDE DEF m, n, z
  <2>5. /\ z \in Seq(S) /\ Len(z) = IF m <= n THEN n - m + 1 ELSE 0
        /\ \A i \in 1 .. n - m + 1 : z[i] = y[m + i - 1]
    BY <2>1, <2>3, <2>4, SubSeqProperties
  <2>6. Len(z) = lw
    BY <2>1, <2>5
  <2> QED
    BY <2>1, <2>2, <2>5, <2>6
<1> HIDE DEF z
<1>7. ASSUME NEW i \in 1 .. lw PROVE z[i] = w[i]
  <2>1. i \in 1 .. Len(x)
    BY <1>2, <1>4
  <2> QED
    BY <1>2, <1>3, <1>6, <2>1
<1>8. z = w
  BY <1>6, <1>7, SeqEqual DEF lw
<1>9. Len(y) = la + lw + Len(r)
  BY <1>2, <1>3, <1>4
<1> QED
  BY <1>8, <1>9 DEF z, y, x, la, lw

\* A field is read as it was written.
LEMMA ReadTakes ==
  ASSUME NEW done \in Seq(Entries), NEW f \in Fitting, NEW rest \in Seq(Entries)
  PROVE  Read(Stage(done, <<f>> \o rest), f[1]) = Stage(done \o <<f>>, rest)
<1>1. f \in Entries /\ f[1] \in Nat /\ f[2] \in Nat /\ f = <<f[1], f[2]>>
      /\ f[2] < Power(Base, f[1])
  BY DEF Fitting, Entries
<1> DEFINE one == <<f>>
           a == Written(done)
           w == _u(f[2], f[1])
           r == Written(rest)
           p == Written(done \o (one \o rest))
<1>2. one \in Seq(Entries) /\ Written(one) = w
  BY <1>1, WrittenOne
<1>3. w \in Seq(Byte) /\ Len(w) = f[1] /\ Value(w) = f[2]
  BY <1>1, WrittenBytes, ValueOfWritten
<1>4. Append(done, f) = done \o one
  BY <1>1, AppendIsConcat
<1> HIDE DEF one, w
<1>5. one \o rest \in Seq(Entries)
  BY <1>2, ConcatProperties
<1>6. p = a \o (w \o r)
  <2>1. p = a \o Written(one \o rest)
    BY <1>5, WrittenTogether
  <2>2. Written(one \o rest) = w \o r
    BY <1>2, WrittenTogether
  <2> QED
    BY <2>1, <2>2
<1>7. a \in Seq(Byte) /\ r \in Seq(Byte)
  BY WrittenTogether
<1>8. p = Written((done \o one) \o rest)
  <2>1. Grouped(Entries)
    BY Regrouped
  <2>2. done \o (one \o rest) = (done \o one) \o rest
    BY <1>2, <2>1 DEF Grouped
  <2> QED
    BY <2>2
<1>9. Len(Written(done \o one)) = Len(a) + f[1]
  <2>1. Written(done \o one) = a \o w
    BY <1>2, WrittenTogether
  <2>2. Len(a \o w) = Len(a) + Len(w)
    BY <1>3, <1>7, ConcatProperties
  <2> QED
    BY <1>3, <2>1, <2>2
<1> HIDE DEF a, r
<1>10. Len(a) \in Nat /\ Len(r) \in Nat
  BY <1>7, LenProperties
<1>11. /\ Len(p) = Len(a) + Len(w) + Len(r)
       /\ SubSeq(p, Len(a) + 1, Len(a) + Len(w)) = w
  <2> DEFINE q == a \o (w \o r)
  <2>1. /\ Len(q) = Len(a) + Len(w) + Len(r)
        /\ SubSeq(q, Len(a) + 1, Len(a) + Len(w)) = w
    BY <1>3, <1>7, MiddlePart
  <2>2. p = q
    BY <1>6
  <2> HIDE DEF p, q
  <2> QED
    BY <2>1, <2>2
<1> DEFINE s == Stage(done, one \o rest)
<1>12. s = [p |-> p, o |-> Len(a), fields |-> done, ok |-> TRUE]
  BY DEF Stage, a
<1> HIDE DEF p, s
<1>13. s.o + f[1] <= Len(s.p) /\ SubSeq(s.p, s.o + 1, s.o + f[1]) = w
  <2>1. s.p = p /\ s.o = Len(a)
    BY <1>12
  <2>2. Len(a) + f[1] <= Len(p)
    <3> DEFINE la == Len(a)
               lr == Len(r)
               n == f[1]
               all == Len(p)
    <3>1. la \in Nat /\ lr \in Nat /\ n \in Nat /\ all = la + n + lr
      BY <1>1, <1>3, <1>10, <1>11
    <3> HIDE DEF la, lr, n, all
    <3>2. la + n <= all
      BY <3>1
    <3> QED
      BY <3>2 DEF la, n, all
  <2>3. SubSeq(p, Len(a) + 1, Len(a) + f[1]) = w
    BY <1>3, <1>11
  <2> QED
    BY <2>1, <2>2, <2>3
<1>14. Read(s, f[1]) =
         [s EXCEPT !.o = @ + f[1], !.fields = Append(@, <<f[1], f[2]>>)]
  <2>1. ~(s.o + f[1] > Len(s.p))
    <3> DEFINE la == Len(a)
               lr == Len(r)
               n == f[1]
               all == Len(p)
    <3>1. la \in Nat /\ lr \in Nat /\ n \in Nat /\ all = la + n + lr
      BY <1>1, <1>3, <1>10, <1>11
    <3>2. s.o = la /\ Len(s.p) = all
      BY <1>12
    <3> HIDE DEF la, lr, n, all
    <3>3. ~(la + n > all)
      BY <3>1
    <3> QED
      BY <3>2, <3>3 DEF n
  <2> QED
    BY <1>3, <1>13, <2>1 DEF Read
<1>15. Read(s, f[1]) = [p |-> p, o |-> Len(a) + f[1], fields |-> done \o one, ok |-> TRUE]
  BY <1>1, <1>4, <1>12, <1>14
<1>16. Stage(done \o one, rest) =
         [p |-> p, o |-> Len(a) + f[1], fields |-> done \o one, ok |-> TRUE]
  BY <1>8, <1>9 DEF Stage, p
<1> QED
  BY <1>15, <1>16 DEF s, one

Reads(s, widths, n, f) ==
  f = [i \in 0 .. n |-> IF i = 0 THEN s ELSE Read(f[i - 1], widths[i])]

LEMMA ReadsExist ==
  ASSUME NEW s, NEW widths, NEW n \in Nat
  PROVE  \E f : Reads(s, widths, n, f)
<1> DEFINE S == {k \in Nat : \E f : Reads(s, widths, k, f)}
<1>1. 0 \in S
  <2> DEFINE f == [i \in 0 .. 0 |-> s]
  <2>1. f = [i \in 0 .. 0 |-> IF i = 0 THEN s ELSE Read(f[i - 1], widths[i])]
    OBVIOUS
  <2> QED
    BY <2>1 DEF Reads
<1>2. ASSUME NEW k \in Nat, k \in S PROVE k + 1 \in S
  <2>1. PICK f : Reads(s, widths, k, f)
    BY <1>2
  <2>2. PICK g : Extended(0, k, f, Read(f[k], widths[k + 1]), g)
    BY Longer
  <2>3. ASSUME NEW m \in 0 .. k + 1
        PROVE  g[m] = IF m = 0 THEN s ELSE Read(g[m - 1], widths[m])
    <3>1. CASE m \in 0 .. k
      <4>1. f[m] = IF m = 0 THEN s ELSE Read(f[m - 1], widths[m])
        BY <2>1, <3>1 DEF Reads
      <4>2. m # 0 => m - 1 \in 0 .. k
        BY <3>1
      <4> QED
        BY <2>2, <3>1, <4>1, <4>2 DEF Extended
    <3>2. CASE m \notin 0 .. k
      <4>1. m = k + 1 /\ m - 1 = k /\ m # 0 /\ k \in 0 .. k
        BY <3>2
      <4> QED
        BY <2>2, <4>1 DEF Extended
    <3> QED
      BY <3>1, <3>2
  <2>4. Reads(s, widths, k + 1, g)
    BY <2>2, <2>3 DEF Reads, Extended
  <2> QED
    BY <2>4
<1> HIDE DEF S
<1>3. n \in S
  BY <1>1, <1>2, Induct
<1> QED
  BY <1>3 DEF S

LEMMA ReadAllIsLast ==
  ASSUME NEW s, NEW widths, Len(widths) \in Nat
  PROVE  \E f : /\ f[0] = s
                /\ \A i \in 1 .. Len(widths) : f[i] = Read(f[i - 1], widths[i])
                /\ ReadAll(s, widths) = f[Len(widths)]
<1> DEFINE n == Len(widths)
           upTo == CHOOSE f : Reads(s, widths, n, f)
<1>1. Reads(s, widths, n, upTo)
  <2> HIDE DEF n
  <2>1. n \in Nat
    BY DEF n
  <2> QED
    BY <2>1, ReadsExist
<1>2. ReadAll(s, widths) = upTo[n]
  BY DEF ReadAll, Reads
<1> HIDE DEF upTo
<1>3. upTo[0] = s
  BY <1>1 DEF Reads
<1>4. ASSUME NEW i \in 1 .. n PROVE upTo[i] = Read(upTo[i - 1], widths[i])
  <2>1. i \in 0 .. n /\ i # 0
    OBVIOUS
  <2> QED
    BY <1>1, <2>1 DEF Reads
<1> QED
  BY <1>2, <1>3, <1>4

\* A sequence cut before its (i + 1)-st element, and after it.
LEMMA CutAround ==
  ASSUME NEW S, NEW q \in Seq(S), NEW i \in Nat, i < Len(q)
  PROVE  /\ q[i + 1] \in S
         /\ SubSeq(q, 1, i) \in Seq(S) /\ SubSeq(q, i + 2, Len(q)) \in Seq(S)
         /\ SubSeq(q, i + 1, Len(q)) = <<q[i + 1]>> \o SubSeq(q, i + 2, Len(q))
         /\ SubSeq(q, 1, i + 1) = SubSeq(q, 1, i) \o <<q[i + 1]>>
<1> DEFINE n == Len(q)
<1>1. n \in Nat /\ i + 1 \in 1 .. n /\ n \in i + 1 .. n /\ 1 \in 1 .. n /\ i + 1 \in 1 .. i + 1
      /\ (i + 1) + 1 = i + 2 /\ (i + 1) - 1 = i
  BY LenProperties
<1>2. \A j \in 1 .. n : q[j] \in S
  BY ElementOfSeq
<1> HIDE DEF n
<1>3. SubSeq(q, 1, i) \in Seq(S)
  <2>1. \A j \in 1 .. i : q[j] \in S
    BY <1>1, <1>2
  <2> QED
    BY <2>1, SubSeqProperties
<1>4. SubSeq(q, i + 2, n) \in Seq(S)
  <2>1. \A j \in i + 2 .. n : q[j] \in S
    BY <1>1, <1>2
  <2>2. i + 2 \in Int /\ n \in Int
    BY <1>1
  <2> QED
    BY <2>1, <2>2, SubSeqProperties
<1>5. SubSeq(q, i + 1, n) = <<q[i + 1]>> \o SubSeq(q, i + 2, n)
  BY <1>1, SubSeqRecursiveFirst DEF n
<1>6. SubSeq(q, 1, i + 1) = SubSeq(q, 1, i) \o <<q[i + 1]>>
  <2>1. i + 1 \in 1 .. n
    BY <1>1
  <2> QED
    BY <1>1, <2>1, SubSeqRecursiveSecond DEF n
<1> QED
  BY <1>1, <1>2, <1>3, <1>4, <1>5, <1>6 DEF n

\* So are several.
LEMMA ReadAllTakes ==
  ASSUME NEW done \in Seq(Entries), NEW fs \in Seq(Fitting), NEW rest \in Seq(Entries),
         NEW widths, Len(widths) = Len(fs), \A i \in 1 .. Len(fs) : widths[i] = fs[i][1]
  PROVE  ReadAll(Stage(done, fs \o rest), widths) = Stage(done \o fs, rest)
<1> DEFINE n == Len(fs)
           before(i) == SubSeq(fs, 1, i)
           after(i) == SubSeq(fs, i + 1, n)
           at(i) == Stage(done \o before(i), after(i) \o rest)
<1>1. n \in Nat /\ Len(widths) = n /\ \A i \in 1 .. n : fs[i] \in Fitting /\ widths[i] = fs[i][1]
  BY LenProperties, ElementOfSeq
<1>2. fs \in Seq(Entries) /\ Fitting \subseteq Entries
  <2>1. Fitting \subseteq Entries
    BY DEF Fitting
  <2> QED
    BY <2>1, SeqMonotonic
<1> HIDE DEF n
<1>3. PICK f : /\ f[0] = Stage(done, fs \o rest)
               /\ \A i \in 1 .. n : f[i] = Read(f[i - 1], widths[i])
               /\ ReadAll(Stage(done, fs \o rest), widths) = f[n]
  <2> DEFINE s == Stage(done, fs \o rest)
  <2> HIDE DEF s
  <2>1. Len(widths) = n /\ Len(widths) \in Nat
    BY <1>1
  <2>2. \E f : /\ f[0] = s
               /\ \A i \in 1 .. Len(widths) : f[i] = Read(f[i - 1], widths[i])
               /\ ReadAll(s, widths) = f[Len(widths)]
    BY <2>1, ReadAllIsLast
  <2> QED
    BY <2>1, <2>2 DEF s
<1>4. at(0) = Stage(done, fs \o rest)
  <2>1. before(0) = <<>>
    BY SubSeqEmpty
  <2>2. after(0) = fs
    BY SubSeqFull DEF n
  <2>3. done \o <<>> = done
    BY ConcatEmptySeq
  <2> HIDE DEF before, after
  <2> QED
    BY <2>1, <2>2, <2>3
<1>5. at(n) = Stage(done \o fs, rest)
  <2>1. before(n) = fs
    BY SubSeqFull DEF n
  <2>2. after(n) = <<>>
    BY <1>1, SubSeqEmpty
  <2>3. <<>> \o rest = rest
    BY ConcatEmptySeq
  <2> HIDE DEF before, after
  <2> QED
    BY <2>1, <2>2, <2>3
<1> DEFINE T == {k \in Nat : k <= n => f[k] = at(k)}
<1>6. 0 \in T
  BY <1>3, <1>4
<1>7. ASSUME NEW k \in Nat, k \in T PROVE k + 1 \in T
  <2> SUFFICES ASSUME k + 1 <= n PROVE f[k + 1] = at(k + 1)
    OBVIOUS
  <2> DEFINE e == fs[k + 1]
             d == done \o before(k)
             tail == SubSeq(fs, k + 2, n)
             t == tail \o rest
             one == <<e>>
  <2>1. k < n /\ k <= n /\ k + 1 \in 1 .. n /\ (k + 1) - 1 = k /\ (k + 1) + 1 = k + 2
    BY <1>1
  <2>2. /\ before(k) \in Seq(Entries) /\ tail \in Seq(Entries)
        /\ after(k) = one \o tail
        /\ before(k + 1) = before(k) \o one
    BY <1>2, <2>1, CutAround DEF n
  <2>3. after(k + 1) = tail
    BY <2>1
  <2>4. e \in Fitting /\ widths[k + 1] = e[1] /\ e \in Entries
    BY <1>1, <1>2, <2>1
  <2>5. f[k] = at(k) /\ f[k + 1] = Read(f[k], widths[k + 1])
    BY <1>3, <1>7, <2>1
  <2>6. one \in Seq(Entries)
    BY <2>4
  <2>7. Grouped(Entries)
    BY Regrouped
  <2> HIDE DEF before, after, tail, one, T, e
  <2>8. at(k) = Stage(d, one \o t)
    <3>1. one \o (tail \o rest) = (one \o tail) \o rest
      BY <2>2, <2>6, <2>7 DEF Grouped
    <3> QED
      BY <2>2, <3>1
  <2>9. at(k + 1) = Stage(d \o one, t)
    <3>1. done \o (before(k) \o one) = (done \o before(k)) \o one
      BY <2>2, <2>6, <2>7 DEF Grouped
    <3> QED
      BY <2>2, <2>3, <3>1
  <2>10. d \in Seq(Entries) /\ t \in Seq(Entries)
    BY <2>2, ConcatProperties
  <2> HIDE DEF at, d, t
  <2>11. Read(Stage(d, <<e>> \o t), e[1]) = Stage(d \o <<e>>, t)
    BY <2>4, <2>10, ReadTakes
  <2> QED
    BY <2>4, <2>5, <2>8, <2>9, <2>11 DEF one
<1> HIDE DEF T
<1>8. n \in T
  BY <1>1, <1>6, <1>7, Induct
<1> QED
  BY <1>3, <1>5, <1>8 DEF T

\* What the request of a batch may look like.
LegShape ==
  [adapter : Nat, token_in : Nat, token_out : Nat, min_out : Nat, data : Nat \X Nat]
CandidateShape == [candidate_id : Nat, min_profit : Nat, legs : Seq(LegShape)]
BatchShape ==
  [asset : Nat, amount : Nat, target_block : Nat, deadline : Nat,
   candidates : Seq(CandidateShape)]

LegHead(leg) ==
  <<<<Address, leg.adapter>>, <<Address, leg.token_in>>, <<Address, leg.token_out>>,
    <<Word, leg.min_out>>, <<Length, leg.data[1]>>>>

LEMMA LastOfJoined ==
  ASSUME NEW S, NEW a \in Seq(S), NEW b \in Seq(S), Len(b) # 0
  PROVE  Last(a \o b) = b[Len(b)]
<1>1. Len(a) \in Nat /\ Len(b) \in Nat \ {0}
  BY LenProperties
<1>2. Joins(S)
  BY Joined
<1>3. Len(b) \in 1 .. Len(b)
  BY <1>1
<1>4. Len(a \o b) = Len(a) + Len(b) /\ (a \o b)[Len(a) + Len(b)] = b[Len(b)]
  BY <1>2, <1>3 DEF Joins
<1> QED
  BY <1>4 DEF Last

LEMMA WidthsAreNat ==
  Address \in Nat /\ Word \in Nat /\ Block \in Nat /\ Length \in Nat
  BY PackedCodecAssumption

LEMMA LegFieldsAreEntries ==
  ASSUME NEW leg \in LegShape
  PROVE  /\ LegFields(leg) \in Seq(Entries) /\ LegHead(leg) \in Seq(Entries)
         /\ leg.data \in Entries
         /\ LegFields(leg) = LegHead(leg) \o <<leg.data>>
         /\ Len(LegHead(leg)) = 5 /\ LegHead(leg)[5] = <<Length, leg.data[1]>>
         /\ \A i \in 1 .. 5 : LegHead(leg)[i] = LegFields(leg)[i]
         /\ LegFields(leg)[6] = leg.data /\ Len(LegFields(leg)) = 6
         /\ \A i \in 1 .. 5 : <<Address, Address, Address, Word, Length>>[i] = LegHead(leg)[i][1]
<1>1. /\ leg.adapter \in Nat /\ leg.token_in \in Nat /\ leg.token_out \in Nat
      /\ leg.min_out \in Nat /\ leg.data \in Nat \X Nat /\ leg.data[1] \in Nat
  BY DEF LegShape
<1> DEFINE e1 == <<Address, leg.adapter>>
           e2 == <<Address, leg.token_in>>
           e3 == <<Address, leg.token_out>>
           e4 == <<Word, leg.min_out>>
           e5 == <<Length, leg.data[1]>>
           e6 == leg.data
<1>2. e1 \in Entries /\ e2 \in Entries /\ e3 \in Entries /\ e4 \in Entries
      /\ e5 \in Entries /\ e6 \in Entries
  BY <1>1, WidthsAreNat DEF Entries
<1>3. LegHead(leg) = <<e1, e2, e3, e4, e5>> /\ LegFields(leg) = <<e1, e2, e3, e4, e5, e6>>
  BY DEF LegHead, LegFields
<1>4. e1[1] = Address /\ e2[1] = Address /\ e3[1] = Address /\ e4[1] = Word /\ e5[1] = Length
  OBVIOUS
<1>5. e5 = <<Length, leg.data[1]>> /\ e6 = leg.data
  OBVIOUS
<1> HIDE DEF e1, e2, e3, e4, e5, e6
<1>6. <<e1, e2, e3, e4, e5>> \in Seq(Entries) /\ <<e1, e2, e3, e4, e5, e6>> \in Seq(Entries)
  BY <1>2
<1>7. <<e1, e2, e3, e4, e5, e6>> = <<e1, e2, e3, e4, e5>> \o <<e6>>
  OBVIOUS
<1>8. ASSUME NEW i \in 1 .. 5
      PROVE  /\ <<e1, e2, e3, e4, e5>>[i] = <<e1, e2, e3, e4, e5, e6>>[i]
             /\ <<Address, Address, Address, Word, Length>>[i] = <<e1, e2, e3, e4, e5>>[i][1]
  BY <1>4
<1> QED
  BY <1>2, <1>3, <1>5, <1>6, <1>7, <1>8

\* The contract reads a leg as it was written.
LEMMA ReadLegTakes ==
  ASSUME NEW done \in Seq(Entries), NEW rest \in Seq(Entries), NEW leg \in LegShape,
         LegFields(leg) \in Seq(Fitting), leg.data[1] <= MAX_PACKED_LEG_DATA
  PROVE  ReadLeg(Stage(done, LegFields(leg) \o rest)) = Stage(done \o LegFields(leg), rest)
<1> DEFINE head == LegHead(leg)
           e == leg.data
           one == <<e>>
           widths == <<Address, Address, Address, Word, Length>>
           t == Stage(done \o head, one \o rest)
<1>1. /\ head \in Seq(Entries) /\ e \in Entries /\ LegFields(leg) = head \o one
      /\ Len(head) = 5 /\ head[5] = <<Length, e[1]>>
      /\ \A i \in 1 .. 5 : widths[i] = head[i][1]
  BY LegFieldsAreEntries
<1>2. Len(widths) = 5
  OBVIOUS
<1>3. /\ \A i \in 1 .. 5 : head[i] = LegFields(leg)[i]
      /\ LegFields(leg)[6] = e /\ Len(LegFields(leg)) = 6
  BY LegFieldsAreEntries
<1>4. e \in Fitting /\ \A i \in 1 .. 5 : head[i] \in Fitting
  <2>1. \A i \in 1 .. 6 : LegFields(leg)[i] \in Fitting
    BY <1>3, ElementOfSeq
  <2> HIDE DEF head, e
  <2> QED
    BY <1>3, <2>1
<1>5. one \in Seq(Entries)
  BY <1>1
<1> HIDE DEF head, e, one, widths
<1>6. head \in Seq(Fitting)
  <2>1. head \in [1 .. 5 -> Fitting]
    BY <1>1, <1>4, LenProperties
  <2> QED
    BY <2>1, SeqDef
<1>7. ReadAll(Stage(done, head \o (one \o rest)), widths) = t
  <2> DEFINE tail == one \o rest
  <2>1. tail \in Seq(Entries)
    BY <1>5, ConcatProperties
  <2>2. Len(widths) = Len(head) /\ \A i \in 1 .. Len(head) : widths[i] = head[i][1]
    BY <1>1, <1>2
  <2> HIDE DEF tail
  <2>3. ReadAll(Stage(done, head \o tail), widths) = Stage(done \o head, tail)
    BY <1>6, <2>1, <2>2, ReadAllTakes
  <2> QED
    BY <2>3 DEF tail
<1>8. Grouped(Entries)
  BY Regrouped
<1>9. head \o (one \o rest) = LegFields(leg) \o rest
  <2>1. head \o (one \o rest) = (head \o one) \o rest
    BY <1>1, <1>5, <1>8 DEF Grouped
  <2> QED
    BY <1>1, <2>1
<1>10. (done \o head) \o one = done \o LegFields(leg)
  <2>1. done \o (head \o one) = (done \o head) \o one
    BY <1>1, <1>5, <1>8 DEF Grouped
  <2> QED
    BY <1>1, <2>1
<1>11. t.ok /\ t.fields = done \o head
  BY DEF Stage
<1>12. LastRead(t) = e[1]
  <2>1. Len(head) = 5 /\ Len(head) # 0
    BY <1>1
  <2>2. Last(done \o head) = <<Length, e[1]>>
    BY <1>1, <2>1, LastOfJoined
  <2> QED
    BY <1>11, <2>2 DEF LastRead
<1>13. Read(t, e[1]) = Stage((done \o head) \o one, rest)
  <2>1. done \o head \in Seq(Entries)
    BY <1>1, ConcatProperties
  <2> QED
    BY <1>4, <2>1, ReadTakes DEF one
<1>14. ReadLeg(Stage(done, LegFields(leg) \o rest)) = Read(t, e[1])
  <2>1. e[1] <= MAX_PACKED_LEG_DATA
    BY DEF e
  <2>2. ReadAll(Stage(done, LegFields(leg) \o rest), <<Address, Address, Address, Word, Length>>) = t
    BY <1>7, <1>9 DEF widths
  <2> HIDE DEF t
  <2> QED
    BY <1>11, <1>12, <2>1, <2>2 DEF ReadLeg
<1> QED
  BY <1>10, <1>13, <1>14

\* A reader of what done, parts and rest were written from, past i of the parts.
Past(done, parts, rest, i) ==
  Stage(done \o FlattenSeq(SubSeq(parts, 1, i)),
        FlattenSeq(SubSeq(parts, i + 1, Len(parts))) \o rest)

Parted(done, parts, rest) ==
  /\ Past(done, parts, rest, 0) = Stage(done, FlattenSeq(parts) \o rest)
  /\ Past(done, parts, rest, Len(parts)) = Stage(done \o FlattenSeq(parts), rest)
  /\ \A i \in Nat : i < Len(parts) =>
       \E d, t \in Seq(Entries) :
         /\ Past(done, parts, rest, i) = Stage(d, parts[i + 1] \o t)
         /\ Past(done, parts, rest, i + 1) = Stage(d \o parts[i + 1], t)

LEMMA PartByPart ==
  ASSUME NEW done \in Seq(Entries), NEW rest \in Seq(Entries), NEW parts \in Seq(Seq(Entries))
  PROVE  Parted(done, parts, rest)
<1> DEFINE n == Len(parts)
           before(i) == SubSeq(parts, 1, i)
           after(i) == SubSeq(parts, i + 1, n)
<1>1. n \in Nat
  BY LenProperties
<1>2. Past(done, parts, rest, 0) = Stage(done, FlattenSeq(parts) \o rest)
  <2>1. before(0) = <<>>
    BY SubSeqEmpty
  <2>2. after(0) = parts
    BY SubSeqFull
  <2>3. done \o <<>> = done
    BY ConcatEmptySeq
  <2>4. Past(done, parts, rest, 0) = Stage(done \o FlattenSeq(before(0)), FlattenSeq(after(0)) \o rest)
    BY DEF Past
  <2> HIDE DEF before, after
  <2> QED
    BY <2>1, <2>2, <2>3, <2>4, FlattenNothing
<1>3. Past(done, parts, rest, n) = Stage(done \o FlattenSeq(parts), rest)
  <2>1. before(n) = parts
    BY SubSeqFull
  <2>2. after(n) = <<>>
    BY <1>1, SubSeqEmpty
  <2>3. <<>> \o rest = rest
    BY ConcatEmptySeq
  <2>4. Past(done, parts, rest, n) = Stage(done \o FlattenSeq(before(n)), FlattenSeq(after(n)) \o rest)
    BY DEF Past
  <2> HIDE DEF before, after, n
  <2> QED
    BY <2>1, <2>2, <2>3, <2>4, FlattenNothing
<1>4. ASSUME NEW i \in Nat, i < n
      PROVE  \E d, t \in Seq(Entries) :
               /\ Past(done, parts, rest, i) = Stage(d, parts[i + 1] \o t)
               /\ Past(done, parts, rest, i + 1) = Stage(d \o parts[i + 1], t)
  <2> DEFINE e == parts[i + 1]
             one == <<e>>
             tail == SubSeq(parts, i + 2, n)
             d == done \o FlattenSeq(before(i))
             t == FlattenSeq(tail) \o rest
  <2>1. (i + 1) + 1 = i + 2
    OBVIOUS
  <2>2. /\ e \in Seq(Entries)
        /\ before(i) \in Seq(Seq(Entries)) /\ tail \in Seq(Seq(Entries))
        /\ after(i) = one \o tail
        /\ before(i + 1) = before(i) \o one
    BY <1>4, CutAround
  <2>3. after(i + 1) = tail
    BY <2>1
  <2>4. /\ Past(done, parts, rest, i) = Stage(done \o FlattenSeq(before(i)), FlattenSeq(after(i)) \o rest)
        /\ Past(done, parts, rest, i + 1) =
             Stage(done \o FlattenSeq(before(i + 1)), FlattenSeq(after(i + 1)) \o rest)
    BY DEF Past
  <2>5. one \in Seq(Seq(Entries)) /\ FlattenSeq(one) = e
    BY <2>2, FlattenOne
  <2> HIDE DEF e, one, before, after, tail, n
  <2>6. FlattenSeq(after(i)) = e \o FlattenSeq(tail)
    <3>1. FlattenSeq(one \o tail) = FlattenSeq(one) \o FlattenSeq(tail)
      BY <2>2, <2>5, FlattenConcat
    <3> QED
      BY <2>2, <2>5, <3>1
  <2>7. FlattenSeq(before(i + 1)) = FlattenSeq(before(i)) \o e
    <3>1. FlattenSeq(before(i) \o one) = FlattenSeq(before(i)) \o FlattenSeq(one)
      BY <2>2, <2>5, FlattenConcat
    <3> QED
      BY <2>2, <2>5, <3>1
  <2>8. FlattenSeq(before(i)) \in Seq(Entries) /\ FlattenSeq(tail) \in Seq(Entries)
    BY <2>2, FlattenAppend
  <2>9. Grouped(Entries) /\ Joins(Entries)
    BY Regrouped, Joined
  <2> DEFINE x == FlattenSeq(before(i))
             y == FlattenSeq(tail)
  <2>10. x \in Seq(Entries) /\ y \in Seq(Entries) /\ e \in Seq(Entries)
    BY <2>2, <2>8
  <2>11. /\ Past(done, parts, rest, i) = Stage(done \o x, (e \o y) \o rest)
         /\ Past(done, parts, rest, i + 1) = Stage(done \o (x \o e), y \o rest)
    BY <2>3, <2>4, <2>6, <2>7
  <2>12. d = done \o x /\ t = y \o rest
    OBVIOUS
  <2> HIDE DEF x, y, d, t
  <2>13. d \in Seq(Entries) /\ t \in Seq(Entries)
    BY <2>9, <2>10, <2>12 DEF Joins
  <2>14. e \o (y \o rest) = (e \o y) \o rest
    BY <2>9, <2>10 DEF Grouped
  <2>15. done \o (x \o e) = (done \o x) \o e
    BY <2>9, <2>10 DEF Grouped
  <2>16. /\ Past(done, parts, rest, i) = Stage(d, e \o t)
         /\ Past(done, parts, rest, i + 1) = Stage(d \o e, t)
    BY <2>11, <2>12, <2>14, <2>15
  <2> QED
    BY <2>13, <2>16 DEF e
<1> QED
  BY <1>2, <1>3, <1>4 DEF Parted

LEMMA FunctionIsSeq ==
  ASSUME NEW T, NEW n \in Nat, NEW e \in [1 .. n -> T]
  PROVE  e \in Seq(T)
  BY SeqDef

LEMMA BothHalves ==
  ASSUME NEW S, NEW T, NEW a \in Seq(S), NEW b \in Seq(S), a \o b \in Seq(T)
  PROVE  a \in Seq(T) /\ b \in Seq(T)
<1> DEFINE z == a \o b
           la == Len(a)
           lb == Len(b)
<1>1. la \in Nat /\ lb \in Nat /\ DOMAIN a = 1 .. la /\ DOMAIN b = 1 .. lb
      /\ a \in [1 .. la -> S] /\ b \in [1 .. lb -> S]
  BY LenProperties
<1>2. Joins(S)
  BY Joined
<1>3. /\ Len(z) = la + lb
      /\ \A i \in 1 .. la : z[i] = a[i]
      /\ \A i \in 1 .. lb : z[la + i] = b[i]
  BY <1>2 DEF Joins
<1>4. \A i \in 1 .. Len(z) : z[i] \in T
  BY ElementOfSeq
<1> HIDE DEF z, la, lb
<1>5. ASSUME NEW i \in 1 .. la PROVE a[i] \in T
  <2>1. i \in 1 .. Len(z)
    BY <1>1, <1>3
  <2> QED
    BY <1>3, <1>4, <2>1
<1>6. ASSUME NEW i \in 1 .. lb PROVE b[i] \in T
  <2>1. la + i \in 1 .. Len(z)
    BY <1>1, <1>3
  <2> QED
    BY <1>3, <1>4, <2>1
<1>7. a \in [1 .. la -> T] /\ b \in [1 .. lb -> T]
  BY <1>1, <1>5, <1>6
<1> QED
  BY <1>1, <1>7, FunctionIsSeq

\* What holds of all elements of a whole holds of the elements of its parts.
LEMMA ElementsOfParts ==
  ASSUME NEW S, NEW T, NEW parts \in Seq(Seq(S)), FlattenSeq(parts) \in Seq(T),
         NEW i \in 1 .. Len(parts)
  PROVE  parts[i] \in Seq(T)
<1> DEFINE n == Len(parts)
           before == SubSeq(parts, 1, i - 1)
           e == parts[i]
           one == <<e>>
           tail == SubSeq(parts, i + 1, n)
<1>1. n \in Nat /\ i - 1 \in Nat /\ i - 1 < n /\ (i - 1) + 1 = i /\ (i - 1) + 2 = i + 1 /\ 1 \in 1 .. n
      /\ i \in 1 .. n /\ n \in 1 .. n
  BY LenProperties
<1>2. /\ e \in Seq(S) /\ before \in Seq(Seq(S)) /\ tail \in Seq(Seq(S))
      /\ SubSeq(parts, i, n) = one \o tail
  <2> DEFINE j == i - 1
  <2>1. j \in Nat /\ j < n /\ j + 1 = i /\ j + 2 = i + 1
    BY <1>1
  <2> HIDE DEF j
  <2>2. /\ parts[j + 1] \in Seq(S)
        /\ SubSeq(parts, 1, j) \in Seq(Seq(S)) /\ SubSeq(parts, j + 2, n) \in Seq(Seq(S))
        /\ SubSeq(parts, j + 1, n) = <<parts[j + 1]>> \o SubSeq(parts, j + 2, n)
    BY <2>1, CutAround
  <2> QED
    BY <2>1, <2>2 DEF j
<1>3. before \o SubSeq(parts, i, n) = parts
  <2> DEFINE k == i - 1
  <2>1. 1 \in 1 .. n + 1 /\ k \in 1 - 1 .. n /\ n \in k .. n /\ k + 1 = i
    BY <1>1
  <2> HIDE DEF k
  <2>2. SubSeq(parts, 1, k) \o SubSeq(parts, k + 1, n) = SubSeq(parts, 1, n)
    BY <2>1, ConcatAdjacentSubSeq
  <2>3. SubSeq(parts, 1, n) = parts
    BY SubSeqFull
  <2> QED
    BY <2>1, <2>2, <2>3 DEF k
<1>4. one \in Seq(Seq(S)) /\ FlattenSeq(one) = e
  BY <1>2, FlattenOne
<1> HIDE DEF n, before, e, one, tail
<1> DEFINE x == FlattenSeq(before)
           y == FlattenSeq(tail)
<1>5. x \in Seq(S) /\ y \in Seq(S)
  BY <1>2, FlattenAppend
<1>6. FlattenSeq(parts) = x \o (e \o y)
  <2>1. one \o tail \in Seq(Seq(S))
    BY <1>2, <1>4, ConcatProperties
  <2>2. FlattenSeq(before \o (one \o tail)) = x \o FlattenSeq(one \o tail)
    BY <1>2, <2>1, FlattenConcat
  <2>3. FlattenSeq(one \o tail) = FlattenSeq(one) \o y
    BY <1>2, <1>4, FlattenConcat
  <2> HIDE DEF x, y
  <2> QED
    BY <1>2, <1>3, <1>4, <2>2, <2>3
<1> HIDE DEF x, y
<1>7. x \o (e \o y) \in Seq(T)
  BY <1>6
<1> DEFINE ey == e \o y
<1>8. ey \in Seq(S)
  BY <1>2, <1>5, ConcatProperties
<1>9. x \o ey \in Seq(T)
  BY <1>7
<1> HIDE DEF ey
<1>10. ey \in Seq(T)
  BY <1>5, <1>8, <1>9, BothHalves
<1>11. e \o y \in Seq(T)
  BY <1>10 DEF ey
<1>12. e \in Seq(T)
  BY <1>2, <1>5, <1>11, BothHalves
<1> QED
  BY <1>12 DEF e

CandidateHead(candidate) ==
  <<<<Word, candidate.candidate_id>>, <<Word, candidate.min_profit>>,
    <<1, Len(candidate.legs)>>>>

LegParts(candidate) ==
  [i \in DOMAIN candidate.legs |-> LegFields(candidate.legs[i])]

LEMMA CandidateIsItsParts ==
  ASSUME NEW candidate \in CandidateShape
  PROVE  /\ CandidateFields(candidate) =
              CandidateHead(candidate) \o FlattenSeq(LegParts(candidate))
         /\ CandidateFields(candidate) \in Seq(Entries)
         /\ CandidateHead(candidate) \in Seq(Entries) /\ Len(CandidateHead(candidate)) = 3
         /\ CandidateHead(candidate)[3] = <<1, Len(candidate.legs)>>
         /\ \A i \in 1 .. 3 : <<Word, Word, 1>>[i] = CandidateHead(candidate)[i][1]
         /\ LegParts(candidate) \in Seq(Seq(Entries))
         /\ FlattenSeq(LegParts(candidate)) \in Seq(Entries)
         /\ Len(LegParts(candidate)) = Len(candidate.legs) /\ Len(candidate.legs) \in Nat
         /\ \A i \in 1 .. Len(candidate.legs) : /\ candidate.legs[i] \in LegShape
                                                /\ LegParts(candidate)[i] = LegFields(candidate.legs[i])
<1> DEFINE legs == candidate.legs
           parts == LegParts(candidate)
           head == CandidateHead(candidate)
<1>1. candidate.candidate_id \in Nat /\ candidate.min_profit \in Nat /\ legs \in Seq(LegShape)
  BY DEF CandidateShape
<1>2. Len(legs) \in Nat /\ DOMAIN legs = 1 .. Len(legs) /\ \A i \in 1 .. Len(legs) : legs[i] \in LegShape
  BY <1>1, LenProperties, ElementOfSeq
<1>3. parts = [i \in 1 .. Len(legs) |-> LegFields(legs[i])]
  BY <1>2 DEF LegParts
<1>4. \A i \in 1 .. Len(legs) : LegFields(legs[i]) \in Seq(Entries)
  BY <1>2, LegFieldsAreEntries
<1> HIDE DEF legs
<1>5. parts \in [1 .. Len(legs) -> Seq(Entries)] /\ \A i \in 1 .. Len(legs) : parts[i] = LegFields(legs[i])
  BY <1>3, <1>4
<1> HIDE DEF parts
<1>6. parts \in Seq(Seq(Entries))
  BY <1>2, <1>5, FunctionIsSeq
<1>7. Len(parts) = Len(legs)
  BY <1>2, <1>5, <1>6, LenProperties
<1>8. FlattenSeq(parts) \in Seq(Entries)
  BY <1>6, EmptySeq, FlattenAppend
<1> DEFINE e1 == <<Word, candidate.candidate_id>>
           e2 == <<Word, candidate.min_profit>>
           e3 == <<1, Len(candidate.legs)>>
<1>9. e1 \in Entries /\ e2 \in Entries /\ e3 \in Entries /\ e1[1] = Word /\ e2[1] = Word /\ e3[1] = 1
  BY <1>1, <1>2, WidthsAreNat DEF Entries, legs
<1>10. head = <<e1, e2, e3>>
  BY DEF CandidateHead
<1>11. CandidateFields(candidate) = head \o FlattenSeq(parts)
  BY DEF CandidateFields, CandidateHead, LegParts, parts
<1>12. e3 = <<1, Len(legs)>>
  BY DEF legs
<1> HIDE DEF e1, e2, e3, head
<1>13. <<e1, e2, e3>> \in Seq(Entries)
  BY <1>9
<1>14. /\ head \in Seq(Entries) /\ Len(head) = 3 /\ head[3] = <<1, Len(legs)>>
       /\ \A i \in 1 .. 3 : <<Word, Word, 1>>[i] = head[i][1]
  BY <1>9, <1>10, <1>12, <1>13
<1>15. head \o FlattenSeq(parts) \in Seq(Entries)
  BY <1>8, <1>14, ConcatProperties
<1> QED
  BY <1>2, <1>5, <1>6, <1>7, <1>8, <1>11, <1>14, <1>15 DEF head, parts, legs

LegReads(t, n, f) == f = [i \in 0 .. n |-> IF i = 0 THEN t ELSE ReadLeg(f[i - 1])]

LEMMA LegReadsExist ==
  ASSUME NEW t, NEW n \in Nat
  PROVE  \E f : LegReads(t, n, f)
<1> DEFINE S == {k \in Nat : \E f : LegReads(t, k, f)}
<1>1. 0 \in S
  <2> DEFINE f == [i \in 0 .. 0 |-> t]
  <2>1. f = [i \in 0 .. 0 |-> IF i = 0 THEN t ELSE ReadLeg(f[i - 1])]
    OBVIOUS
  <2> QED
    BY <2>1 DEF LegReads
<1>2. ASSUME NEW k \in Nat, k \in S PROVE k + 1 \in S
  <2>1. PICK f : LegReads(t, k, f)
    BY <1>2
  <2>2. PICK g : Extended(0, k, f, ReadLeg(f[k]), g)
    BY Longer
  <2>3. ASSUME NEW m \in 0 .. k + 1
        PROVE  g[m] = IF m = 0 THEN t ELSE ReadLeg(g[m - 1])
    <3>1. CASE m \in 0 .. k
      <4>1. f[m] = IF m = 0 THEN t ELSE ReadLeg(f[m - 1])
        BY <2>1, <3>1 DEF LegReads
      <4>2. m # 0 => m - 1 \in 0 .. k
        BY <3>1
      <4> QED
        BY <2>2, <3>1, <4>1, <4>2 DEF Extended
    <3>2. CASE m \notin 0 .. k
      <4>1. m = k + 1 /\ m - 1 = k /\ m # 0 /\ k \in 0 .. k
        BY <3>2
      <4> QED
        BY <2>2, <4>1 DEF Extended
    <3> QED
      BY <3>1, <3>2
  <2>4. LegReads(t, k + 1, g)
    BY <2>2, <2>3 DEF LegReads, Extended
  <2> QED
    BY <2>4
<1> HIDE DEF S
<1>3. n \in S
  BY <1>1, <1>2, Induct
<1> QED
  BY <1>3 DEF S

LEMMA ReadCandidateSteps ==
  ASSUME NEW s
  PROVE  LET t == ReadAll(s, <<Word, Word, 1>>)
         IN \E f : /\ f[0] = t
                   /\ \A i \in 1 .. MAX_PACKED_LEGS : f[i] = ReadLeg(f[i - 1])
                   /\ ReadCandidate(s) =
                        IF t.ok /\ LastRead(t) \in 2 .. MAX_PACKED_LEGS THEN f[LastRead(t)]
                        ELSE Checked(t, FALSE)
<1> DEFINE t == ReadAll(s, <<Word, Word, 1>>)
           upTo == CHOOSE f : LegReads(t, MAX_PACKED_LEGS, f)
<1>1. MAX_PACKED_LEGS \in Nat
  BY PackedCodecAssumption
<1>2. LegReads(t, MAX_PACKED_LEGS, upTo)
  <2> HIDE DEF t
  <2> QED
    BY <1>1, LegReadsExist
<1>3. ReadCandidate(s) =
        IF t.ok /\ LastRead(t) \in 2 .. MAX_PACKED_LEGS THEN upTo[LastRead(t)]
        ELSE Checked(t, FALSE)
  BY DEF ReadCandidate, LegReads
<1> HIDE DEF upTo, t
<1>4. upTo[0] = t
  BY <1>1, <1>2 DEF LegReads
<1>5. ASSUME NEW i \in 1 .. MAX_PACKED_LEGS PROVE upTo[i] = ReadLeg(upTo[i - 1])
  <2>1. i \in 0 .. MAX_PACKED_LEGS /\ i # 0
    BY <1>1
  <2> QED
    BY <1>2, <2>1 DEF LegReads
<1> QED
  BY <1>3, <1>4, <1>5 DEF t

LegsFit(legs) ==
  /\ Len(legs) \in 2 .. MAX_PACKED_LEGS
  /\ \A j \in 1 .. Len(legs) : legs[j].data[1] <= MAX_PACKED_LEG_DATA

\* The contract reads a candidate as it was written.
LEMMA ReadCandidateTakes ==
  ASSUME NEW done \in Seq(Entries), NEW rest \in Seq(Entries),
         NEW candidate \in CandidateShape, CandidateFields(candidate) \in Seq(Fitting),
         LegsFit(candidate.legs)
  PROVE  ReadCandidate(Stage(done, CandidateFields(candidate) \o rest)) =
           Stage(done \o CandidateFields(candidate), rest)
<1> DEFINE head == CandidateHead(candidate)
           legs == candidate.legs
           parts == LegParts(candidate)
           body == FlattenSeq(parts)
           all == CandidateFields(candidate)
           widths == <<Word, Word, 1>>
           n == Len(legs)
           tail == body \o rest
           s == Stage(done, all \o rest)
           t == Stage(done \o head, tail)
<1>1. /\ all = head \o body
      /\ head \in Seq(Entries) /\ Len(head) = 3 /\ head[3] = <<1, n>>
      /\ \A i \in 1 .. 3 : widths[i] = head[i][1]
      /\ parts \in Seq(Seq(Entries)) /\ body \in Seq(Entries)
      /\ Len(parts) = n /\ n \in Nat
      /\ \A i \in 1 .. n : legs[i] \in LegShape /\ parts[i] = LegFields(legs[i])
  BY CandidateIsItsParts
<1>2. Len(widths) = 3
  OBVIOUS
<1>3. all \in Seq(Fitting) /\ n \in 2 .. MAX_PACKED_LEGS
      /\ \A j \in 1 .. n : legs[j].data[1] <= MAX_PACKED_LEG_DATA
  BY DEF LegsFit
<1> HIDE DEF head, legs, all, widths, n
<1>4. head \in Seq(Fitting) /\ \A i \in 1 .. n : parts[i] \in Seq(Fitting)
  <2> HIDE DEF body
  <2>1. head \in Seq(Entries) /\ body \in Seq(Entries)
    BY <1>1
  <2>2. head \o body \in Seq(Fitting)
    BY <1>1, <1>3
  <2>3. head \in Seq(Fitting) /\ body \in Seq(Fitting)
    BY <2>1, <2>2, BothHalves
  <2>4. \A i \in 1 .. n : parts[i] \in Seq(Fitting)
    <3>1. FlattenSeq(parts) \in Seq(Fitting)
      BY <2>3 DEF body
    <3> HIDE DEF parts
    <3> TAKE i \in 1 .. n
    <3>2. i \in 1 .. Len(parts)
      BY <1>1
    <3> QED
      BY <1>1, <3>1, <3>2, ElementsOfParts
  <2> QED
    BY <2>3, <2>4
<1> HIDE DEF body, parts
<1>5. Grouped(Entries) /\ Joins(Entries)
  BY Regrouped, Joined
<1>6. all \o rest = head \o tail
  <2>1. head \o (body \o rest) = (head \o body) \o rest
    BY <1>1, <1>5 DEF Grouped
  <2> QED
    BY <1>1, <2>1
<1>7. tail \in Seq(Entries) /\ done \o head \in Seq(Entries)
  BY <1>1, <1>5 DEF Joins
<1>8. ReadAll(s, widths) = t
  <2> HIDE DEF tail
  <2>1. Len(widths) = Len(head) /\ \A i \in 1 .. Len(head) : widths[i] = head[i][1]
    BY <1>1, <1>2
  <2>2. ReadAll(Stage(done, head \o tail), widths) = Stage(done \o head, tail)
    BY <1>4, <1>7, <2>1, ReadAllTakes
  <2> QED
    BY <1>6, <2>2
<1>9. t.ok /\ t.fields = done \o head
  BY DEF Stage
<1>10. LastRead(t) = n
  <2>1. Len(head) = 3 /\ Len(head) # 0
    BY <1>1
  <2>2. Last(done \o head) = <<1, n>>
    BY <1>1, <2>1, LastOfJoined
  <2> QED
    BY <1>9, <2>2 DEF LastRead
<1> DEFINE past(i) == Past(done \o head, parts, rest, i)
<1>11. /\ past(0) = t
       /\ past(n) = Stage((done \o head) \o body, rest)
       /\ \A i \in Nat : i < n =>
            \E d, u \in Seq(Entries) : /\ past(i) = Stage(d, parts[i + 1] \o u)
                                       /\ past(i + 1) = Stage(d \o parts[i + 1], u)
  <2> DEFINE d == done \o head
  <2>1. d \in Seq(Entries)
    BY <1>7
  <2> HIDE DEF d
  <2>2. parts \in Seq(Seq(Entries)) /\ Len(parts) = n
    BY <1>1
  <2>3. Parted(d, parts, rest)
    BY <2>1, <2>2, PartByPart
  <2> QED
    BY <2>2, <2>3 DEF Parted, d, body
<1> HIDE DEF s, t, past
<1>12. PICK f : /\ f[0] = t
                /\ \A i \in 1 .. MAX_PACKED_LEGS : f[i] = ReadLeg(f[i - 1])
                /\ ReadCandidate(s) =
                     IF t.ok /\ LastRead(t) \in 2 .. MAX_PACKED_LEGS THEN f[LastRead(t)]
                     ELSE Checked(t, FALSE)
  <2>1. ReadAll(s, <<Word, Word, 1>>) = t
    BY <1>8 DEF widths
  <2> QED
    BY <2>1, ReadCandidateSteps
<1>13. ReadCandidate(s) = f[n]
  BY <1>3, <1>9, <1>10, <1>12
<1> DEFINE T == {k \in Nat : k <= n => f[k] = past(k)}
<1>14. 0 \in T
  BY <1>11, <1>12
<1>15. ASSUME NEW k \in Nat, k \in T PROVE k + 1 \in T
  <2> SUFFICES ASSUME k + 1 <= n PROVE f[k + 1] = past(k + 1)
    OBVIOUS
  <2>1. k < n /\ k <= n /\ k + 1 \in 1 .. n /\ k + 1 \in 1 .. MAX_PACKED_LEGS /\ (k + 1) - 1 = k
    <3>1. n \in 2 .. MAX_PACKED_LEGS /\ MAX_PACKED_LEGS \in Nat
      BY <1>3, PackedCodecAssumption
    <3> QED
      BY <3>1
  <2>2. PICK d \in Seq(Entries), u \in Seq(Entries) :
          past(k) = Stage(d, parts[k + 1] \o u) /\ past(k + 1) = Stage(d \o parts[k + 1], u)
    BY <1>11, <2>1
  <2> DEFINE leg == legs[k + 1]
  <2>3. leg \in LegShape /\ parts[k + 1] = LegFields(leg) /\ LegFields(leg) \in Seq(Fitting)
        /\ leg.data[1] <= MAX_PACKED_LEG_DATA
    BY <1>1, <1>3, <1>4, <2>1
  <2>4. f[k + 1] = ReadLeg(past(k))
    BY <1>12, <1>15, <2>1
  <2> HIDE DEF leg
  <2>5. ReadLeg(Stage(d, LegFields(leg) \o u)) = Stage(d \o LegFields(leg), u)
    BY <2>3, ReadLegTakes
  <2> QED
    BY <2>2, <2>3, <2>4, <2>5
<1> HIDE DEF T
<1>16. n \in T
  BY <1>1, <1>14, <1>15, Induct
<1>17. f[n] = Stage((done \o head) \o body, rest)
  BY <1>1, <1>11, <1>16 DEF T
<1>18. (done \o head) \o body = done \o all
  <2>1. done \o (head \o body) = (done \o head) \o body
    BY <1>1, <1>5 DEF Grouped
  <2> QED
    BY <1>1, <2>1
<1>19. ReadCandidate(s) = Stage(done \o all, rest)
  BY <1>13, <1>17, <1>18
<1> QED
  BY <1>19 DEF s, all

CandidateReads(t, n, f) ==
  f = [i \in 0 .. n |-> IF i = 0 THEN t ELSE ReadCandidate(f[i - 1])]

LEMMA CandidateReadsExist ==
  ASSUME NEW t, NEW n \in Nat
  PROVE  \E f : CandidateReads(t, n, f)
<1> DEFINE S == {k \in Nat : \E f : CandidateReads(t, k, f)}
<1>1. 0 \in S
  <2> DEFINE f == [i \in 0 .. 0 |-> t]
  <2>1. f = [i \in 0 .. 0 |-> IF i = 0 THEN t ELSE ReadCandidate(f[i - 1])]
    OBVIOUS
  <2> QED
    BY <2>1 DEF CandidateReads
<1>2. ASSUME NEW k \in Nat, k \in S PROVE k + 1 \in S
  <2>1. PICK f : CandidateReads(t, k, f)
    BY <1>2
  <2>2. PICK g : Extended(0, k, f, ReadCandidate(f[k]), g)
    BY Longer
  <2>3. ASSUME NEW m \in 0 .. k + 1
        PROVE  g[m] = IF m = 0 THEN t ELSE ReadCandidate(g[m - 1])
    <3>1. CASE m \in 0 .. k
      <4>1. f[m] = IF m = 0 THEN t ELSE ReadCandidate(f[m - 1])
        BY <2>1, <3>1 DEF CandidateReads
      <4>2. m # 0 => m - 1 \in 0 .. k
        BY <3>1
      <4> QED
        BY <2>2, <3>1, <4>1, <4>2 DEF Extended
    <3>2. CASE m \notin 0 .. k
      <4>1. m = k + 1 /\ m - 1 = k /\ m # 0 /\ k \in 0 .. k
        BY <3>2
      <4> QED
        BY <2>2, <4>1 DEF Extended
    <3> QED
      BY <3>1, <3>2
  <2>4. CandidateReads(t, k + 1, g)
    BY <2>2, <2>3 DEF CandidateReads, Extended
  <2> QED
    BY <2>4
<1> HIDE DEF S
<1>3. n \in S
  BY <1>1, <1>2, Induct
<1> QED
  BY <1>3 DEF S

\* The three readers before the candidates (_decodePacked).
Unread(p) == [p |-> p, o |-> 0, fields |-> <<>>, ok |-> TRUE]
Version(p) == Read(Unread(p), 1)
Count(p) == Read(Checked(Version(p), LastRead(Version(p)) = PACKED_VERSION), 1)
Header(p) ==
  ReadAll(Checked(Count(p), LastRead(Count(p)) \in 1 .. MAX_PACKED_CANDIDATES),
          <<Address, Word, Block, Block>>)

LEMMA DecodeSteps ==
  ASSUME NEW p
  PROVE  \E f : /\ f[0] = Header(p)
                /\ \A i \in 1 .. MAX_PACKED_CANDIDATES : f[i] = ReadCandidate(f[i - 1])
                /\ _decodePacked(p) =
                     IF Header(p).ok /\ AllRead(f[LastRead(Count(p))])
                     THEN f[LastRead(Count(p))].fields ELSE Refused
<1> DEFINE upTo == CHOOSE f : CandidateReads(Header(p), MAX_PACKED_CANDIDATES, f)
<1>1. MAX_PACKED_CANDIDATES \in Nat
  BY PackedCodecAssumption
<1>2. CandidateReads(Header(p), MAX_PACKED_CANDIDATES, upTo)
  BY <1>1, CandidateReadsExist
<1>3. _decodePacked(p) =
        IF Header(p).ok /\ AllRead(upTo[LastRead(Count(p))])
        THEN upTo[LastRead(Count(p))].fields ELSE Refused
  BY DEF _decodePacked, CandidateReads, Header, Count, Version, Unread
<1> HIDE DEF upTo
<1>4. upTo[0] = Header(p)
  BY <1>1, <1>2 DEF CandidateReads
<1>5. ASSUME NEW i \in 1 .. MAX_PACKED_CANDIDATES PROVE upTo[i] = ReadCandidate(upTo[i - 1])
  <2>1. i \in 0 .. MAX_PACKED_CANDIDATES /\ i # 0
    BY <1>1
  <2> QED
    BY <1>2, <2>1 DEF CandidateReads
<1> QED
  BY <1>3, <1>4, <1>5

LoanFields(batch) ==
  <<<<Address, batch.asset>>, <<Word, batch.amount>>, <<Block, batch.target_block>>,
    <<Block, batch.deadline>>>>

CandidateParts(batch) ==
  [i \in DOMAIN batch.candidates |-> CandidateFields(batch.candidates[i])]

Six(v, c, e1, e2, e3, e4) == <<v, c, e1, e2, e3, e4>>
OneOneFour(v, c, e1, e2, e3, e4) == <<v>> \o (<<c>> \o <<e1, e2, e3, e4>>)

LEMMA HeadOfSix ==
  ASSUME NEW S, NEW v \in S, NEW c \in S, NEW e1 \in S, NEW e2 \in S, NEW e3 \in S, NEW e4 \in S
  PROVE  Six(v, c, e1, e2, e3, e4) = OneOneFour(v, c, e1, e2, e3, e4)
<1> DEFINE loan == <<e1, e2, e3, e4>>
           one == <<c>>
           first == <<v>>
           x == one \o loan
           y == first \o x
           z == <<v, c, e1, e2, e3, e4>>
<1>1. /\ loan \in Seq(S) /\ Len(loan) = 4
      /\ loan[1] = e1 /\ loan[2] = e2 /\ loan[3] = e3 /\ loan[4] = e4
  OBVIOUS
<1>2. one \in Seq(S) /\ Len(one) = 1 /\ one[1] = c
  OBVIOUS
<1>3. first \in Seq(S) /\ Len(first) = 1 /\ first[1] = v
  OBVIOUS
<1>4. z \in Seq(S) /\ Len(z) = 6
  OBVIOUS
<1>5. z[1] = v /\ z[2] = c /\ z[3] = e1 /\ z[4] = e2 /\ z[5] = e3 /\ z[6] = e4
  OBVIOUS
<1> HIDE DEF loan, one, first, z
<1>6. Joins(S)
  BY Joined
<1>7. /\ x \in Seq(S) /\ Len(x) = Len(one) + Len(loan)
      /\ \A i \in 1 .. Len(one) : x[i] = one[i]
      /\ \A i \in 1 .. Len(loan) : x[Len(one) + i] = loan[i]
  BY <1>1, <1>2, <1>6 DEF Joins
<1> HIDE DEF x
<1>8. /\ x \in Seq(S) /\ Len(x) = 5
      /\ x[1] = c /\ x[2] = e1 /\ x[3] = e2 /\ x[4] = e3 /\ x[5] = e4
  <2>1. 1 \in 1 .. 1 /\ 1 \in 1 .. 4 /\ 2 \in 1 .. 4 /\ 3 \in 1 .. 4 /\ 4 \in 1 .. 4
    OBVIOUS
  <2>2. 1 + 1 = 2 /\ 1 + 2 = 3 /\ 1 + 3 = 4 /\ 1 + 4 = 5
    OBVIOUS
  <2> QED
    BY <1>1, <1>2, <1>7, <2>1, <2>2
<1>9. /\ y \in Seq(S) /\ Len(y) = Len(first) + Len(x)
      /\ \A i \in 1 .. Len(first) : y[i] = first[i]
      /\ \A i \in 1 .. Len(x) : y[Len(first) + i] = x[i]
  BY <1>3, <1>6, <1>8 DEF Joins
<1> HIDE DEF y
<1>10. /\ y \in Seq(S) /\ Len(y) = 6
       /\ y[1] = v /\ y[2] = c /\ y[3] = e1 /\ y[4] = e2 /\ y[5] = e3 /\ y[6] = e4
  <2>1. 1 \in 1 .. 1 /\ 1 \in 1 .. 5 /\ 2 \in 1 .. 5 /\ 3 \in 1 .. 5 /\ 4 \in 1 .. 5 /\ 5 \in 1 .. 5
    OBVIOUS
  <2>2. 1 + 1 = 2 /\ 1 + 2 = 3 /\ 1 + 3 = 4 /\ 1 + 4 = 5 /\ 1 + 5 = 6
    OBVIOUS
  <2> QED
    BY <1>3, <1>8, <1>9, <2>1, <2>2
<1>11. \A i \in 1 .. 6 : z[i] = y[i]
  BY <1>5, <1>10
<1>12. z = y
  BY <1>4, <1>10, <1>11, SeqEqual
<1> QED
  BY <1>12 DEF Six, OneOneFour, z, y, x, first, one, loan

LEMMA BatchIsItsParts ==
  ASSUME NEW batch \in BatchShape
  PROVE  LET v == <<1, PACKED_VERSION>>
             c == <<1, Len(batch.candidates)>>
             loan == LoanFields(batch)
             parts == CandidateParts(batch)
         IN /\ Fields(batch) = <<v>> \o (<<c>> \o (loan \o FlattenSeq(parts)))
            /\ Fields(batch) \in Seq(Entries)
            /\ v \in Entries /\ c \in Entries /\ loan \in Seq(Entries) /\ Len(loan) = 4
            /\ \A i \in 1 .. 4 : <<Address, Word, Block, Block>>[i] = loan[i][1]
            /\ parts \in Seq(Seq(Entries)) /\ FlattenSeq(parts) \in Seq(Entries)
            /\ Len(parts) = Len(batch.candidates) /\ Len(batch.candidates) \in Nat
            /\ \A i \in 1 .. Len(batch.candidates) :
                 /\ batch.candidates[i] \in CandidateShape
                 /\ parts[i] = CandidateFields(batch.candidates[i])
<1> DEFINE v == <<1, PACKED_VERSION>>
           c == <<1, Len(batch.candidates)>>
           loan == LoanFields(batch)
           candidates == batch.candidates
           parts == CandidateParts(batch)
           n == Len(candidates)
           e1 == <<Address, batch.asset>>
           e2 == <<Word, batch.amount>>
           e3 == <<Block, batch.target_block>>
           e4 == <<Block, batch.deadline>>
<1>1. /\ batch.asset \in Nat /\ batch.amount \in Nat /\ batch.target_block \in Nat
      /\ batch.deadline \in Nat /\ candidates \in Seq(CandidateShape)
  BY DEF BatchShape
<1>2. n \in Nat /\ DOMAIN candidates = 1 .. n /\ \A i \in 1 .. n : candidates[i] \in CandidateShape
  BY <1>1, LenProperties, ElementOfSeq
<1>3. PACKED_VERSION \in Nat
  BY PackedCodecAssumption
<1>4. /\ v \in Entries /\ c \in Entries /\ e1 \in Entries /\ e2 \in Entries /\ e3 \in Entries
      /\ e4 \in Entries /\ e1[1] = Address /\ e2[1] = Word /\ e3[1] = Block /\ e4[1] = Block
  BY <1>1, <1>2, <1>3, WidthsAreNat DEF Entries
<1>5. loan = <<e1, e2, e3, e4>>
  BY DEF LoanFields
<1>6. parts = [i \in 1 .. n |-> CandidateFields(candidates[i])]
  BY <1>2 DEF CandidateParts
<1>7. \A i \in 1 .. n : CandidateFields(candidates[i]) \in Seq(Entries)
  BY <1>2, CandidateIsItsParts
<1>8. Fields(batch) = <<v, c, e1, e2, e3, e4>> \o FlattenSeq(parts)
  BY DEF Fields, CandidateParts
<1> HIDE DEF v, c, loan, candidates, parts, e1, e2, e3, e4
<1>9. parts \in [1 .. n -> Seq(Entries)] /\ \A i \in 1 .. n : parts[i] = CandidateFields(candidates[i])
  BY <1>6, <1>7
<1>10. parts \in Seq(Seq(Entries)) /\ Len(parts) = n
  <2>1. parts \in Seq(Seq(Entries))
    BY <1>2, <1>9, FunctionIsSeq
  <2> HIDE DEF n
  <2> QED
    BY <1>2, <1>9, <2>1, LenProperties
<1>11. FlattenSeq(parts) \in Seq(Entries)
  BY <1>10, EmptySeq, FlattenAppend
<1>12. /\ <<e1, e2, e3, e4>> \in Seq(Entries) /\ Len(<<e1, e2, e3, e4>>) = 4
       /\ \A i \in 1 .. 4 : <<Address, Word, Block, Block>>[i] = <<e1, e2, e3, e4>>[i][1]
  BY <1>4
<1>13. <<v>> \in Seq(Entries) /\ <<c>> \in Seq(Entries)
  BY <1>4
<1>14. <<v, c, e1, e2, e3, e4>> = <<v>> \o (<<c>> \o <<e1, e2, e3, e4>>)
  <2>1. Six(v, c, e1, e2, e3, e4) = OneOneFour(v, c, e1, e2, e3, e4)
    BY <1>4, HeadOfSix
  <2> QED
    BY <2>1 DEF Six, OneOneFour
<1> DEFINE body == FlattenSeq(parts)
           vs == <<v>>
           cs == <<c>>
<1>15. vs \o (cs \o (loan \o body)) = (vs \o (cs \o loan)) \o body
  <2>1. Grouped(Entries) /\ Joins(Entries)
    BY Regrouped, Joined
  <2>2. vs \in Seq(Entries) /\ cs \in Seq(Entries) /\ loan \in Seq(Entries) /\ body \in Seq(Entries)
    BY <1>5, <1>11, <1>12, <1>13
  <2> HIDE DEF vs, cs, body
  <2>3. cs \o (loan \o body) = (cs \o loan) \o body
    BY <2>1, <2>2 DEF Grouped
  <2>4. cs \o loan \in Seq(Entries)
    BY <2>1, <2>2 DEF Joins
  <2> DEFINE cl == cs \o loan
  <2> HIDE DEF cl
  <2>5. vs \o (cl \o body) = (vs \o cl) \o body
    BY <2>1, <2>2, <2>4 DEF Grouped, cl
  <2> QED
    BY <2>3, <2>5 DEF cl
<1>16. Fields(batch) = vs \o (cs \o (loan \o body))
  BY <1>5, <1>8, <1>14, <1>15
<1>17. Fields(batch) \in Seq(Entries)
  <2>1. <<v, c, e1, e2, e3, e4>> \in Seq(Entries)
    BY <1>4
  <2> DEFINE h == <<v, c, e1, e2, e3, e4>>
  <2> HIDE DEF h, body
  <2>2. h \o body \in Seq(Entries)
    BY <1>11, <2>1, ConcatProperties DEF h, body
  <2> QED
    BY <1>8, <2>2 DEF h, body
<1> QED
  BY <1>2, <1>4, <1>5, <1>9, <1>10, <1>11, <1>12, <1>16, <1>17 DEF v, c, loan, candidates, parts

LEMMA CheckedPasses ==
  ASSUME NEW done, NEW todo, NEW condition, condition = TRUE
  PROVE  Checked(Stage(done, todo), condition) = Stage(done, todo)
  BY DEF Checked, Stage

LEMMA NothingRead ==
  ASSUME NEW all \in Seq(Entries)
  PROVE  Unread(Written(all)) = Stage(<<>>, all)
<1>1. <<>> \o all = all
  BY ConcatEmptySeq
<1>2. Len(<<>>) = 0
  OBVIOUS
<1> QED
  BY <1>1, <1>2, WrittenNothing DEF Unread, Stage

LEMMA EverythingRead ==
  ASSUME NEW all \in Seq(Entries)
  PROVE  AllRead(Stage(all, <<>>)) /\ Stage(all, <<>>).fields = all
<1>1. all \o <<>> = all
  BY ConcatEmptySeq
<1> QED
  BY <1>1 DEF AllRead, Stage

\* What the encoder accepts fits its fields, and has legs the reader accepts.
LEMMA EncodableFits ==
  ASSUME NEW batch \in BatchShape, Encodable(batch)
  PROVE  /\ Fields(batch) \in Seq(Fitting)
         /\ Len(batch.candidates) \in 1 .. MAX_PACKED_CANDIDATES
         /\ \A i \in 1 .. Len(batch.candidates) : LegsFit(batch.candidates[i].legs)
<1> DEFINE all == Fields(batch)
           candidates == batch.candidates
<1>1. all \in Seq(Entries)
  BY BatchIsItsParts
<1>2. candidates \in Seq(CandidateShape)
  BY DEF BatchShape
<1>3. \A i \in DOMAIN all : all[i][2] < Power(Base, all[i][1])
  BY DEF Encodable
<1>4. Len(candidates) \in 1 .. MAX_PACKED_CANDIDATES
  BY DEF Encodable
<1>5. \A i \in DOMAIN candidates :
        LET legs == candidates[i].legs
        IN /\ Len(legs) \in 2 .. MAX_PACKED_LEGS
           /\ \A j \in DOMAIN legs : /\ legs[j].token_in # legs[j].token_out
                                     /\ legs[j].data[1] <= MAX_PACKED_LEG_DATA
  BY DEF Encodable
<1> HIDE DEF all, candidates
<1>6. all \in Seq(Fitting)
  <2>1. Len(all) \in Nat /\ DOMAIN all = 1 .. Len(all) /\ all \in [1 .. Len(all) -> Entries]
    BY <1>1, LenProperties
  <2>2. \A i \in 1 .. Len(all) : all[i] \in Fitting
    BY <1>3, <2>1 DEF Fitting
  <2>3. all \in [1 .. Len(all) -> Fitting]
    BY <2>1, <2>2
  <2> QED
    BY <2>1, <2>3, FunctionIsSeq
<1>7. ASSUME NEW i \in 1 .. Len(candidates) PROVE LegsFit(candidates[i].legs)
  <2> DEFINE legs == candidates[i].legs
  <2>1. i \in DOMAIN candidates
    BY <1>2, LenProperties
  <2>0. candidates[i] \in CandidateShape
    BY <1>2, ElementOfSeq
  <2>2. legs \in Seq(LegShape)
    BY <2>0 DEF CandidateShape
  <2>3. /\ Len(legs) \in 2 .. MAX_PACKED_LEGS
        /\ \A j \in DOMAIN legs : legs[j].data[1] <= MAX_PACKED_LEG_DATA
    BY <1>5, <2>1
  <2> HIDE DEF legs
  <2>4. DOMAIN legs = 1 .. Len(legs)
    BY <2>2, LenProperties
  <2>5. LegsFit(legs)
    BY <2>3, <2>4 DEF LegsFit
  <2> QED
    BY <2>5 DEF legs
<1> QED
  BY <1>4, <1>6, <1>7 DEF all, candidates

\* The header of a batch is read as it was written.
LEMMA HeaderTakes ==
  ASSUME NEW batch \in BatchShape, Fields(batch) \in Seq(Fitting),
         Len(batch.candidates) \in 1 .. MAX_PACKED_CANDIDATES
  PROVE  LET p == Written(Fields(batch))
             parts == CandidateParts(batch)
         IN /\ LastRead(Count(p)) = Len(batch.candidates)
            /\ \A i \in 1 .. Len(parts) : parts[i] \in Seq(Fitting)
            /\ \E done \in Seq(Entries) :
                 /\ Header(p) = Stage(done, FlattenSeq(parts) \o <<>>)
                 /\ done \o FlattenSeq(parts) = Fields(batch)
<1> DEFINE n == Len(batch.candidates)
           v == <<1, PACKED_VERSION>>
           c == <<1, n>>
           loan == LoanFields(batch)
           parts == CandidateParts(batch)
           body == FlattenSeq(parts)
           all == Fields(batch)
           p == Written(all)
           vs == <<v>>
           cs == <<c>>
           widths == <<Address, Word, Block, Block>>
<1>1. /\ all = vs \o (cs \o (loan \o body)) /\ all \in Seq(Entries)
      /\ v \in Entries /\ c \in Entries /\ loan \in Seq(Entries) /\ Len(loan) = 4
      /\ \A i \in 1 .. 4 : widths[i] = loan[i][1]
      /\ parts \in Seq(Seq(Entries)) /\ body \in Seq(Entries)
      /\ Len(parts) = n /\ n \in Nat
  BY BatchIsItsParts
<1>2. all \in Seq(Fitting) /\ n \in 1 .. MAX_PACKED_CANDIDATES
  OBVIOUS
<1>3. v[1] = 1 /\ v[2] = PACKED_VERSION /\ c[1] = 1 /\ c[2] = n /\ Len(widths) = 4
  OBVIOUS
<1> HIDE DEF n, v, c, loan, parts, all, widths
<1>4. vs \in Seq(Entries) /\ cs \in Seq(Entries) /\ Len(vs) = 1 /\ Len(cs) = 1 /\ vs[1] = v /\ cs[1] = c
  BY <1>1
<1> DEFINE lb == loan \o body
           clb == cs \o lb
<1>5. Grouped(Entries) /\ Joins(Entries)
  BY Regrouped, Joined
<1> HIDE DEF vs, cs, body
<1>6. lb \in Seq(Entries)
  BY <1>1, <1>5 DEF Joins
<1> HIDE DEF lb
<1>7. clb \in Seq(Entries)
  BY <1>4, <1>5, <1>6 DEF Joins
<1>8. all = vs \o clb
  BY <1>1 DEF lb
<1> HIDE DEF clb
<1>9. v \in Fitting /\ c \in Fitting /\ loan \in Seq(Fitting) /\ body \in Seq(Fitting)
  <2>1. vs \o clb \in Seq(Fitting)
    BY <1>2, <1>8
  <2>2. vs \in Seq(Fitting) /\ clb \in Seq(Fitting)
    BY <1>4, <1>7, <2>1, BothHalves
  <2>3. cs \o lb \in Seq(Fitting)
    BY <2>2 DEF clb
  <2>4. cs \in Seq(Fitting) /\ lb \in Seq(Fitting)
    BY <1>4, <1>6, <2>3, BothHalves
  <2>5. loan \o body \in Seq(Fitting)
    BY <2>4 DEF lb
  <2>6. loan \in Seq(Fitting) /\ body \in Seq(Fitting)
    BY <1>1, <2>5, BothHalves
  <2>7. 1 \in 1 .. 1
    OBVIOUS
  <2>8. v \in Fitting /\ c \in Fitting
    BY <1>4, <2>2, <2>4, <2>7, ElementOfSeq
  <2> QED
    BY <2>6, <2>8
<1>10. \A i \in 1 .. n : parts[i] \in Seq(Fitting)
  <2>1. FlattenSeq(parts) \in Seq(Fitting)
    BY <1>9 DEF body
  <2> TAKE i \in 1 .. n
  <2>2. i \in 1 .. Len(parts)
    BY <1>1
  <2> QED
    BY <1>1, <2>1, <2>2, ElementsOfParts
<1>11. Version(p) = Stage(vs, clb)
  <2>1. Unread(p) = Stage(<<>>, vs \o clb)
    BY <1>1, <1>8, NothingRead
  <2>2. Read(Stage(<<>>, <<v>> \o clb), v[1]) = Stage(<<>> \o <<v>>, clb)
    BY <1>7, <1>9, EmptySeq, ReadTakes
  <2>3. <<>> \o vs = vs
    BY <1>4, ConcatEmptySeq
  <2>4. Read(Stage(<<>>, vs \o clb), 1) = Stage(<<>> \o vs, clb)
    BY <1>3, <2>2 DEF vs
  <2> HIDE DEF p
  <2> QED
    BY <2>1, <2>3, <2>4 DEF Version
<1>12. LastRead(Version(p)) = PACKED_VERSION
  <2>1. Version(p).fields = vs
    BY <1>11 DEF Stage
  <2>2. Last(vs) = v
    BY <1>4 DEF Last
  <2> HIDE DEF p
  <2> QED
    BY <1>3, <2>1, <2>2 DEF LastRead
<1>13. Count(p) = Stage(vs \o cs, lb)
  <2> DEFINE condition == LastRead(Version(p)) = PACKED_VERSION
  <2>1. condition = TRUE
    BY <1>12
  <2>2. Count(p) = Read(Checked(Version(p), condition), 1)
    BY DEF Count
  <2> HIDE DEF p, condition
  <2>3. Checked(Stage(vs, clb), condition) = Stage(vs, clb)
    BY <2>1, CheckedPasses
  <2>4. Read(Stage(vs, <<c>> \o lb), c[1]) = Stage(vs \o <<c>>, lb)
    BY <1>4, <1>6, <1>9, ReadTakes
  <2>5. Read(Stage(vs, cs \o lb), 1) = Stage(vs \o cs, lb)
    BY <1>3, <2>4 DEF cs
  <2>6. Read(Stage(vs, clb), 1) = Stage(vs \o cs, lb)
    BY <2>5 DEF clb
  <2> QED
    BY <1>11, <2>2, <2>3, <2>6
<1>14. LastRead(Count(p)) = n
  <2>1. Count(p).fields = vs \o cs
    BY <1>13 DEF Stage
  <2>2. Last(vs \o cs) = c
    <3>1. Len(cs) # 0
      BY <1>4
    <3> QED
      BY <1>4, <3>1, LastOfJoined
  <2> HIDE DEF p
  <2> QED
    BY <1>3, <2>1, <2>2 DEF LastRead
<1> DEFINE vc == vs \o cs
<1>15. vc \in Seq(Entries)
  BY <1>4, <1>5 DEF Joins
<1>16. Header(p) = Stage(vc \o loan, body)
  <2> DEFINE condition == LastRead(Count(p)) \in 1 .. MAX_PACKED_CANDIDATES
  <2>1. condition = TRUE
    <3> HIDE DEF p
    <3> QED
      BY <1>2, <1>14
  <2>2. Header(p) = ReadAll(Checked(Count(p), condition), widths)
    BY DEF Header, widths
  <2> HIDE DEF p, condition, vc
  <2>3. Checked(Stage(vc, lb), condition) = Stage(vc, lb)
    BY <2>1, CheckedPasses
  <2>4. Len(widths) = Len(loan) /\ \A i \in 1 .. Len(loan) : widths[i] = loan[i][1]
    BY <1>1, <1>3
  <2>5. ReadAll(Stage(vc, loan \o body), widths) = Stage(vc \o loan, body)
    <3>1. loan \in Seq(Fitting) /\ body \in Seq(Entries)
      BY <1>1, <1>9
    <3> QED
      BY <1>15, <2>4, <3>1, ReadAllTakes
  <2>6. ReadAll(Stage(vc, lb), widths) = Stage(vc \o loan, body)
    BY <2>5 DEF lb
  <2>7. Count(p) = Stage(vc, lb)
    BY <1>13 DEF vc
  <2> QED
    BY <2>2, <2>3, <2>6, <2>7
<1> HIDE DEF p, vc
<1>17. vc \o loan \in Seq(Entries)
  BY <1>1, <1>5, <1>15 DEF Joins
<1>18. (vc \o loan) \o body = all
  <2>0. loan \in Seq(Entries) /\ body \in Seq(Entries) /\ Grouped(Entries)
    BY <1>1, <1>5
  <2>1. vc \o (loan \o body) = (vc \o loan) \o body
    BY <1>15, <2>0 DEF Grouped
  <2>2. vs \o (cs \o lb) = (vs \o cs) \o lb
    BY <1>4, <1>5, <1>6 DEF Grouped
  <2>3. vc \o lb = (vc \o loan) \o body
    BY <2>1 DEF lb
  <2>4. all = vc \o lb
    BY <1>8, <2>2 DEF vc, clb
  <2> QED
    BY <2>3, <2>4
<1>19. body \o <<>> = body
  BY <1>1, ConcatEmptySeq
<1>20. \E done \in Seq(Entries) :
         Header(p) = Stage(done, body \o <<>>) /\ done \o body = all
  BY <1>16, <1>17, <1>18, <1>19
<1> QED
  BY <1>1, <1>10, <1>14, <1>20 DEF p, all, parts, n, body

\* The contract reads a batch as it was written.
LEMMA DecodesWhatWasEncoded ==
  ASSUME NEW batch \in BatchShape, Encodable(batch)
  PROVE  _decodePacked(encode_packed_batch(batch)) = Fields(batch)
<1> DEFINE n == Len(batch.candidates)
           parts == CandidateParts(batch)
           body == FlattenSeq(parts)
           all == Fields(batch)
           p == Written(all)
<1>1. /\ all \in Seq(Entries) /\ parts \in Seq(Seq(Entries)) /\ Len(parts) = n /\ n \in Nat
      /\ \A i \in 1 .. n : /\ batch.candidates[i] \in CandidateShape
                           /\ parts[i] = CandidateFields(batch.candidates[i])
  BY BatchIsItsParts
<1>2. /\ all \in Seq(Fitting) /\ n \in 1 .. MAX_PACKED_CANDIDATES
      /\ \A i \in 1 .. n : LegsFit(batch.candidates[i].legs)
  BY EncodableFits
<1>3. encode_packed_batch(batch) = p
  BY DEF encode_packed_batch
<1>4. /\ LastRead(Count(p)) = n
      /\ \A i \in 1 .. n : parts[i] \in Seq(Fitting)
      /\ \E done \in Seq(Entries) :
           Header(p) = Stage(done, body \o <<>>) /\ done \o body = all
  BY <1>1, <1>2, HeaderTakes
<1>5. PICK done \in Seq(Entries) : Header(p) = Stage(done, body \o <<>>) /\ done \o body = all
  BY <1>4
<1>6. PICK f : /\ f[0] = Header(p)
               /\ \A i \in 1 .. MAX_PACKED_CANDIDATES : f[i] = ReadCandidate(f[i - 1])
               /\ _decodePacked(p) =
                    IF Header(p).ok /\ AllRead(f[LastRead(Count(p))])
                    THEN f[LastRead(Count(p))].fields ELSE Refused
  BY DecodeSteps
<1> DEFINE past(i) == Past(done, parts, <<>>, i)
<1> HIDE DEF p, all, parts, n
<1>7. /\ past(0) = Stage(done, body \o <<>>)
      /\ past(n) = Stage(done \o body, <<>>)
      /\ \A i \in Nat : i < n =>
           \E d, u \in Seq(Entries) : /\ past(i) = Stage(d, parts[i + 1] \o u)
                                      /\ past(i + 1) = Stage(d \o parts[i + 1], u)
  <2>1. <<>> \in Seq(Entries)
    BY EmptySeq
  <2>2. Parted(done, parts, <<>>)
    BY <1>1, <2>1, PartByPart
  <2> QED
    BY <1>1, <2>2 DEF Parted
<1> HIDE DEF past, body
<1> DEFINE T == {k \in Nat : k <= n => f[k] = past(k)}
<1>8. 0 \in T
  BY <1>5, <1>6, <1>7
<1>9. ASSUME NEW k \in Nat, k \in T PROVE k + 1 \in T
  <2> SUFFICES ASSUME k + 1 <= n PROVE f[k + 1] = past(k + 1)
    OBVIOUS
  <2>1. k < n /\ k <= n /\ k + 1 \in 1 .. n /\ k + 1 \in 1 .. MAX_PACKED_CANDIDATES /\ (k + 1) - 1 = k
    <3>1. n \in 1 .. MAX_PACKED_CANDIDATES /\ MAX_PACKED_CANDIDATES \in Nat
      BY <1>2, PackedCodecAssumption
    <3> QED
      BY <3>1
  <2>2. PICK d \in Seq(Entries), u \in Seq(Entries) :
          past(k) = Stage(d, parts[k + 1] \o u) /\ past(k + 1) = Stage(d \o parts[k + 1], u)
    BY <1>7, <2>1
  <2> DEFINE candidate == batch.candidates[k + 1]
  <2>3. /\ candidate \in CandidateShape /\ parts[k + 1] = CandidateFields(candidate)
        /\ CandidateFields(candidate) \in Seq(Fitting) /\ LegsFit(candidate.legs)
    BY <1>1, <1>2, <1>4, <2>1
  <2>4. f[k + 1] = ReadCandidate(past(k))
    BY <1>6, <1>9, <2>1
  <2> HIDE DEF candidate
  <2>5. ReadCandidate(Stage(d, CandidateFields(candidate) \o u)) =
          Stage(d \o CandidateFields(candidate), u)
    BY <2>3, ReadCandidateTakes
  <2> QED
    BY <2>2, <2>3, <2>4, <2>5
<1> HIDE DEF T
<1>10. n \in T
  BY <1>1, <1>8, <1>9, Induct
<1>11. f[n] = Stage(all, <<>>)
  BY <1>1, <1>5, <1>7, <1>10 DEF T
<1>12. AllRead(f[n]) /\ f[n].fields = all
  BY <1>1, <1>11, EverythingRead
<1>13. Header(p).ok
  BY <1>5 DEF Stage
<1>14. _decodePacked(p) = all
  BY <1>4, <1>6, <1>12, <1>13
<1> QED
  BY <1>3, <1>14 DEF all

-----------------------------------------------------------------------------
(* What is accepted is what is written (_decodePacked).                    *)

Readers(p) == [p : {p}, o : Nat, fields : Seq(Entries), ok : BOOLEAN]

\* Until a check fails, the fields stand for the bytes read.
Faithful(p, s) ==
  /\ s \in Readers(p)
  /\ s.ok => s.o <= Len(p) /\ SubSeq(p, 1, s.o) = Written(s.fields)

Follows(p, s, t) == Faithful(p, t) /\ (t.ok => s.ok)

LEMMA ReadFollows ==
  ASSUME NEW p \in Seq(Byte), NEW s, Faithful(p, s), NEW n \in Nat
  PROVE  /\ Follows(p, s, Read(s, n))
         /\ Len(Read(s, n).fields) # 0
<1> DEFINE t == Read(s, n)
           o == s.o
           fields == s.fields
           w == SubSeq(p, o + 1, o + n)
<1>1. /\ s \in Readers(p) /\ s.p = p /\ o \in Nat /\ fields \in Seq(Entries) /\ s.ok \in BOOLEAN
      /\ s = [p |-> p, o |-> o, fields |-> fields, ok |-> s.ok]
  BY DEF Faithful, Readers
<1>2. Len(p) \in Nat /\ \A i \in 1 .. Len(p) : p[i] \in Byte
  BY LenProperties, ElementOfSeq
<1>3. CASE o + n > Len(p)
  <2> DEFINE e == <<n, 0>>
  <2>1. e \in Entries
    BY DEF Entries
  <2> HIDE DEF e
  <2>2. Append(fields, e) \in Seq(Entries) /\ Len(Append(fields, e)) # 0
    BY <1>1, <2>1, AppendProperties, LenProperties
  <2>3. t = [p |-> p, o |-> o, fields |-> Append(fields, e), ok |-> FALSE]
    BY <1>1, <1>3 DEF Read, e
  <2> HIDE DEF t
  <2> QED
    BY <1>1, <2>2, <2>3 DEF Follows, Faithful, Readers, t
<1>4. CASE ~(o + n > Len(p))
  <2>1. /\ o + n <= Len(p) /\ o + n \in Nat /\ o <= o + n /\ (o + n) - (o + 1) + 1 = n
        /\ o + 1 \in Int /\ (o + 1 <= o + n \/ n = 0)
        /\ 1 \in 1 .. Len(p) + 1 /\ o \in 1 - 1 .. Len(p) /\ o + n \in o .. Len(p)
        /\ \A i \in o + 1 .. o + n : i \in 1 .. Len(p)
    <3> DEFINE size == Len(p)
    <3>1. o \in Nat /\ size \in Nat /\ ~(o + n > size)
      BY <1>1, <1>2, <1>4
    <3> HIDE DEF o, size
    <3>2. /\ o + n <= size /\ o + n \in Nat /\ o <= o + n /\ (o + n) - (o + 1) + 1 = n
          /\ o + 1 \in Int /\ (o + 1 <= o + n \/ n = 0)
      BY <3>1
    <3>3. 1 \in 1 .. size + 1 /\ o \in 1 - 1 .. size /\ o + n \in o .. size
      BY <3>1
    <3>4. \A i \in o + 1 .. o + n : i \in 1 .. size
      BY <3>1
    <3> QED
      BY <3>2, <3>3, <3>4 DEF size
  <2>2. w \in Seq(Byte) /\ Len(w) = n
    <3>1. \A i \in o + 1 .. o + n : p[i] \in Byte
      BY <1>2, <2>1
    <3> DEFINE a == o + 1
               b == o + n
    <3>2. a \in Int /\ b \in Int /\ b - a + 1 = n /\ (a <= b \/ n = 0)
      BY <2>1
    <3>3. \A i \in a .. b : p[i] \in Byte
      BY <3>1
    <3>4. w = SubSeq(p, a, b)
      OBVIOUS
    <3> HIDE DEF a, b, w
    <3>5. w \in Seq(Byte) /\ Len(w) = IF a <= b THEN b - a + 1 ELSE 0
      BY <3>2, <3>3, <3>4, SubSeqProperties
    <3> QED
      BY <3>2, <3>5
  <2> HIDE DEF w
  <2> DEFINE value == Value(w)
             e == <<n, value>>
             one == <<e>>
  <2>3. value \in Nat /\ _u(value, n) = w
    BY <2>2, WrittenOfValue
  <2> HIDE DEF value
  <2>4. e \in Entries /\ e[1] = n /\ e[2] = value
    BY <2>3 DEF Entries
  <2> HIDE DEF e
  <2>5. Append(fields, e) = fields \o one /\ one \in Seq(Entries)
        /\ Append(fields, e) \in Seq(Entries) /\ Len(Append(fields, e)) # 0
    BY <1>1, <2>4, AppendIsConcat, AppendProperties, LenProperties
  <2>6. Written(one) = w
    BY <2>3, <2>4, WrittenOne
  <2> HIDE DEF one
  <2>7. Written(Append(fields, e)) = Written(fields) \o w
    <3>1. Written(fields \o one) = Written(fields) \o Written(one)
      BY <1>1, <2>5, WrittenTogether
    <3> QED
      BY <2>5, <2>6, <3>1
  <2>8. t = [p |-> p, o |-> o + n, fields |-> Append(fields, e), ok |-> s.ok]
    BY <1>1, <1>4 DEF Read, e, value, w
  <2>9. ASSUME s.ok PROVE SubSeq(p, 1, o + n) = Written(Append(fields, e))
    <3>1. SubSeq(p, 1, o) = Written(fields)
      BY <2>9 DEF Faithful
    <3> DEFINE b == o + n
    <3>2. 1 \in 1 .. Len(p) + 1 /\ o \in 1 - 1 .. Len(p) /\ b \in o .. Len(p)
      BY <2>1
    <3> HIDE DEF b, o
    <3>3. SubSeq(p, 1, o) \o SubSeq(p, o + 1, b) = SubSeq(p, 1, b)
      BY <3>2, ConcatAdjacentSubSeq
    <3>4. w = SubSeq(p, o + 1, b)
      BY DEF w, b
    <3> QED
      BY <2>7, <3>1, <3>3, <3>4 DEF b
  <2> HIDE DEF t, o, fields
  <2>10. t \in Readers(p)
    BY <1>1, <2>1, <2>5, <2>8 DEF Readers
  <2>11. t.ok = s.ok /\ t.o = o + n /\ t.fields = Append(fields, e)
    BY <2>8
  <2>12. Faithful(p, t)
    BY <2>1, <2>9, <2>10, <2>11 DEF Faithful
  <2>13. Follows(p, s, t) /\ Len(t.fields) # 0
    BY <2>5, <2>11, <2>12 DEF Follows
  <2> QED
    BY <2>13 DEF t
<1> QED
  BY <1>3, <1>4

LEMMA LastReadIsNat ==
  ASSUME NEW p, NEW s, Faithful(p, s), Len(s.fields) # 0
  PROVE  LastRead(s) \in Nat
<1>1. s.fields \in Seq(Entries)
  BY DEF Faithful, Readers
<1>2. Len(s.fields) \in 1 .. Len(s.fields)
  BY <1>1, LenProperties
<1>3. s.fields[Len(s.fields)] \in Entries
  BY <1>1, <1>2, ElementOfSeq
<1> QED
  BY <1>3 DEF LastRead, Last, Entries

LEMMA CheckFollows ==
  ASSUME NEW p, NEW s, Faithful(p, s), NEW condition \in BOOLEAN
  PROVE  /\ Follows(p, s, Checked(s, condition))
         /\ Checked(s, condition).fields = s.fields
         /\ Checked(s, condition).ok => condition
<1> DEFINE t == Checked(s, condition)
<1>1. s \in Readers(p) /\ s.p = p /\ s.o \in Nat /\ s.fields \in Seq(Entries) /\ s.ok \in BOOLEAN
      /\ s = [p |-> p, o |-> s.o, fields |-> s.fields, ok |-> s.ok]
  BY DEF Faithful, Readers
<1>2. t = [p |-> p, o |-> s.o, fields |-> s.fields, ok |-> s.ok /\ condition]
  BY <1>1 DEF Checked
<1> HIDE DEF t
<1>3. t.p = p /\ t.o = s.o /\ t.fields = s.fields /\ t.ok = (s.ok /\ condition)
  BY <1>2
<1>4. t \in Readers(p)
  BY <1>1, <1>2 DEF Readers
<1>5. t.ok => s.ok /\ condition
  BY <1>3
<1>6. Faithful(p, t)
  BY <1>3, <1>4, <1>5 DEF Faithful
<1> QED
  BY <1>3, <1>5, <1>6 DEF Follows, t

LEMMA ReadAllFollows ==
  ASSUME NEW p \in Seq(Byte), NEW s, Faithful(p, s), NEW widths \in Seq(Nat), Len(widths) # 0
  PROVE  /\ Follows(p, s, ReadAll(s, widths))
         /\ Len(ReadAll(s, widths).fields) # 0
<1> DEFINE n == Len(widths)
<1>1. n \in Nat /\ n # 0 /\ \A i \in 1 .. n : widths[i] \in Nat
  BY LenProperties, ElementOfSeq
<1>2. PICK f : /\ f[0] = s
               /\ \A i \in 1 .. n : f[i] = Read(f[i - 1], widths[i])
               /\ ReadAll(s, widths) = f[n]
  BY <1>1, ReadAllIsLast
<1> HIDE DEF n
<1> DEFINE T == {k \in Nat : k <= n => Follows(p, s, f[k]) /\ (k # 0 => Len(f[k].fields) # 0)}
<1>3. 0 \in T
  BY <1>2 DEF Follows
<1>4. ASSUME NEW k \in Nat, k \in T PROVE k + 1 \in T
  <2> SUFFICES ASSUME k + 1 <= n
               PROVE  Follows(p, s, f[k + 1]) /\ (k + 1 # 0 => Len(f[k + 1].fields) # 0)
    OBVIOUS
  <2>1. k <= n /\ k + 1 \in 1 .. n /\ (k + 1) - 1 = k
    BY <1>1
  <2>2. f[k + 1] = Read(f[k], widths[k + 1]) /\ widths[k + 1] \in Nat
    BY <1>1, <1>2, <2>1
  <2>3. Follows(p, s, f[k])
    BY <1>4, <2>1
  <2> HIDE DEF T
  <2>4. Faithful(p, f[k])
    BY <2>3 DEF Follows
  <2>5. Follows(p, f[k], f[k + 1]) /\ Len(f[k + 1].fields) # 0
    BY <2>2, <2>4, ReadFollows
  <2> QED
    BY <2>3, <2>5 DEF Follows
<1> HIDE DEF T
<1>5. n \in T
  BY <1>1, <1>3, <1>4, Induct
<1>6. Follows(p, s, f[n]) /\ Len(f[n].fields) # 0
  BY <1>1, <1>5 DEF T
<1> QED
  BY <1>2, <1>6

LEMMA ReadLegFollows ==
  ASSUME NEW p \in Seq(Byte), NEW s, Faithful(p, s)
  PROVE  Follows(p, s, ReadLeg(s))
<1> DEFINE widths == <<Address, Address, Address, Word, Length>>
           t == ReadAll(s, widths)
<1>1. widths \in Seq(Nat) /\ Len(widths) = 5 /\ Len(widths) # 0
  BY WidthsAreNat
<1>2. ReadLeg(s) = IF t.ok /\ LastRead(t) <= MAX_PACKED_LEG_DATA THEN Read(t, LastRead(t))
                   ELSE Checked(t, FALSE)
  BY DEF ReadLeg
<1> HIDE DEF widths
<1>3. Follows(p, s, t) /\ Len(t.fields) # 0
  BY <1>1, ReadAllFollows
<1> HIDE DEF t
<1>4. Faithful(p, t)
  BY <1>3 DEF Follows
<1>5. LastRead(t) \in Nat
  BY <1>3, <1>4, LastReadIsNat
<1>6. Follows(p, t, Read(t, LastRead(t))) /\ Follows(p, t, Checked(t, FALSE))
  BY <1>4, <1>5, ReadFollows, CheckFollows
<1>7. Follows(p, t, ReadLeg(s))
  BY <1>2, <1>6
<1> QED
  BY <1>3, <1>7 DEF Follows

LEMMA LimitsAreNat == MAX_PACKED_LEGS \in Nat /\ MAX_PACKED_CANDIDATES \in Nat
  BY PackedCodecAssumption

LEMMA ReadCandidateFollows ==
  ASSUME NEW p \in Seq(Byte), NEW s, Faithful(p, s)
  PROVE  Follows(p, s, ReadCandidate(s))
<1> DEFINE widths == <<Word, Word, 1>>
           t == ReadAll(s, widths)
<1>1. widths \in Seq(Nat) /\ Len(widths) = 3 /\ Len(widths) # 0
  BY WidthsAreNat
<1>2. PICK f : /\ f[0] = t
               /\ \A i \in 1 .. MAX_PACKED_LEGS : f[i] = ReadLeg(f[i - 1])
               /\ ReadCandidate(s) =
                    IF t.ok /\ LastRead(t) \in 2 .. MAX_PACKED_LEGS THEN f[LastRead(t)]
                    ELSE Checked(t, FALSE)
  BY ReadCandidateSteps
<1> HIDE DEF widths
<1>3. Follows(p, s, t)
  BY <1>1, ReadAllFollows
<1> HIDE DEF t
<1> DEFINE T == {k \in Nat : k <= MAX_PACKED_LEGS => Follows(p, s, f[k])}
<1>4. 0 \in T
  BY <1>2, <1>3
<1>5. ASSUME NEW k \in Nat, k \in T PROVE k + 1 \in T
  <2> SUFFICES ASSUME k + 1 <= MAX_PACKED_LEGS PROVE Follows(p, s, f[k + 1])
    OBVIOUS
  <2>1. k <= MAX_PACKED_LEGS /\ k + 1 \in 1 .. MAX_PACKED_LEGS /\ (k + 1) - 1 = k
    BY LimitsAreNat
  <2>2. f[k + 1] = ReadLeg(f[k])
    BY <1>2, <2>1
  <2>3. Follows(p, s, f[k])
    BY <1>5, <2>1
  <2> HIDE DEF T
  <2>4. Faithful(p, f[k])
    BY <2>3 DEF Follows
  <2>5. Follows(p, f[k], f[k + 1])
    BY <2>2, <2>4, ReadLegFollows
  <2> QED
    BY <2>3, <2>5 DEF Follows
<1> HIDE DEF T
<1>6. ASSUME NEW k \in Nat PROVE k \in T
  BY <1>4, <1>5, Induct
<1>7. LastRead(t) \in 2 .. MAX_PACKED_LEGS => Follows(p, s, f[LastRead(t)])
  <2> DEFINE k == LastRead(t)
  <2> HIDE DEF k
  <2>1. k \in 2 .. MAX_PACKED_LEGS => k \in Nat /\ k <= MAX_PACKED_LEGS
    BY LimitsAreNat
  <2>2. k \in 2 .. MAX_PACKED_LEGS => Follows(p, s, f[k])
    BY <1>6, <2>1 DEF T
  <2> QED
    BY <2>2 DEF k
<1>8. Follows(p, s, Checked(t, FALSE))
  <2>1. Faithful(p, t)
    BY <1>3 DEF Follows
  <2>2. Follows(p, t, Checked(t, FALSE))
    BY <2>1, CheckFollows
  <2> QED
    BY <1>3, <2>2 DEF Follows
<1> QED
  BY <1>2, <1>7, <1>8

\* Bytes the contract accepts are the ones the encoder writes for the fields
\* it read in them.
LEMMA AcceptedWasWritten ==
  ASSUME NEW p \in Seq(Byte), _decodePacked(p) # Refused
  PROVE  p = Written(_decodePacked(p))
<1> DEFINE first == Unread(p)
           version == Version(p)
           one == Checked(version, LastRead(version) = PACKED_VERSION)
           count == Count(p)
           many == Checked(count, LastRead(count) \in 1 .. MAX_PACKED_CANDIDATES)
           header == Header(p)
           widths == <<Address, Word, Block, Block>>
<1>1. Faithful(p, first)
  <2>1. first \in Readers(p)
    <3>1. <<>> \in Seq(Entries)
      BY EmptySeq
    <3> QED
      BY <3>1 DEF Unread, Readers
  <2>2. SubSeq(p, 1, 0) = <<>>
    BY SubSeqEmpty
  <2>3. Len(p) \in Nat
    BY LenProperties
  <2>4. first.o = 0 /\ first.fields = <<>>
    BY DEF Unread
  <2> HIDE DEF first
  <2>5. SubSeq(p, 1, first.o) = Written(first.fields)
    BY <2>2, <2>4, WrittenNothing
  <2>6. first.o <= Len(p)
    BY <2>3, <2>4
  <2> QED
    BY <2>1, <2>5, <2>6 DEF Faithful
<1>2. Faithful(p, version)
  <2>1. version = Read(first, 1)
    BY DEF Version
  <2> HIDE DEF first, version
  <2>2. Follows(p, first, version)
    BY <1>1, <2>1, ReadFollows
  <2> QED
    BY <2>2 DEF Follows
<1>3. Faithful(p, count) /\ Len(count.fields) # 0
  <2>1. count = Read(one, 1)
    BY DEF Count
  <2> DEFINE condition == LastRead(version) = PACKED_VERSION
  <2>2. condition \in BOOLEAN /\ one = Checked(version, condition)
    OBVIOUS
  <2> HIDE DEF version, count, one, condition
  <2>3. Faithful(p, one)
    BY <1>2, <2>2, CheckFollows DEF Follows
  <2>4. Follows(p, one, count) /\ Len(count.fields) # 0
    BY <2>1, <2>3, ReadFollows
  <2> QED
    BY <2>4 DEF Follows
<1>4. Faithful(p, header) /\ (header.ok => LastRead(count) \in 1 .. MAX_PACKED_CANDIDATES)
  <2>1. header = ReadAll(many, widths)
    BY DEF Header
  <2> DEFINE condition == LastRead(count) \in 1 .. MAX_PACKED_CANDIDATES
  <2>2. condition \in BOOLEAN /\ many = Checked(count, condition)
    OBVIOUS
  <2>3. widths \in Seq(Nat) /\ Len(widths) = 4 /\ Len(widths) # 0
    BY WidthsAreNat
  <2> HIDE DEF count, many, header, condition, widths
  <2>4. Faithful(p, many) /\ (many.ok => condition)
    BY <1>3, <2>2, CheckFollows DEF Follows
  <2>5. Follows(p, many, header)
    BY <2>1, <2>3, <2>4, ReadAllFollows
  <2>6. Faithful(p, header) /\ (header.ok => condition)
    BY <2>4, <2>5 DEF Follows
  <2> QED
    BY <2>6 DEF condition
<1>5. PICK f : /\ f[0] = header
               /\ \A i \in 1 .. MAX_PACKED_CANDIDATES : f[i] = ReadCandidate(f[i - 1])
               /\ _decodePacked(p) =
                    IF header.ok /\ AllRead(f[LastRead(count)])
                    THEN f[LastRead(count)].fields ELSE Refused
  BY DecodeSteps
<1> HIDE DEF header, count
<1> DEFINE T == {k \in Nat : k <= MAX_PACKED_CANDIDATES => Faithful(p, f[k])}
<1>6. 0 \in T
  BY <1>4, <1>5
<1>7. ASSUME NEW k \in Nat, k \in T PROVE k + 1 \in T
  <2> SUFFICES ASSUME k + 1 <= MAX_PACKED_CANDIDATES PROVE Faithful(p, f[k + 1])
    OBVIOUS
  <2>1. k <= MAX_PACKED_CANDIDATES /\ k + 1 \in 1 .. MAX_PACKED_CANDIDATES /\ (k + 1) - 1 = k
    BY LimitsAreNat
  <2>2. f[k + 1] = ReadCandidate(f[k])
    BY <1>5, <2>1
  <2>3. Faithful(p, f[k])
    BY <1>7, <2>1
  <2> HIDE DEF T
  <2>4. Follows(p, f[k], f[k + 1])
    BY <2>2, <2>3, ReadCandidateFollows
  <2> QED
    BY <2>4 DEF Follows
<1> HIDE DEF T
<1>8. ASSUME NEW k \in Nat PROVE k \in T
  BY <1>6, <1>7, Induct
<1> DEFINE n == LastRead(count)
<1>9. header.ok /\ AllRead(f[n]) /\ _decodePacked(p) = f[n].fields
  BY <1>5
<1>10. n \in Nat /\ n <= MAX_PACKED_CANDIDATES
  <2>1. n \in 1 .. MAX_PACKED_CANDIDATES /\ MAX_PACKED_CANDIDATES \in Nat
    BY <1>4, <1>9, PackedCodecAssumption
  <2> QED
    BY <2>1
<1> HIDE DEF n
<1>11. Faithful(p, f[n])
  BY <1>8, <1>10 DEF T
<1>12. f[n].ok /\ f[n].o = Len(p)
  <2>1. f[n].p = p
    BY <1>11 DEF Faithful, Readers
  <2> QED
    BY <1>9, <2>1 DEF AllRead
<1>13. SubSeq(p, 1, Len(p)) = Written(f[n].fields)
  BY <1>11, <1>12 DEF Faithful
<1>14. SubSeq(p, 1, Len(p)) = p
  BY SubSeqFull
<1> QED
  BY <1>9, <1>13, <1>14

-----------------------------------------------------------------------------
(* The batches that are planned.                                           *)

LEMMA FieldFits ==
  ASSUME NEW bytes \in Nat, NEW value \in Within(bytes)
  PROVE  <<bytes, value>> \in Fitting /\ value \in Nat
<1>1. Power(Base, bytes) \in Nat
  BY BaseIsNat, PowerIsPositive
<1>2. value \in Nat /\ value < Power(Base, bytes)
  BY <1>1 DEF Within
<1> QED
  BY <1>2 DEF Fitting, Entries

LEMMA ByteFits ==
  ASSUME NEW value \in Byte
  PROVE  <<1, value>> \in Fitting
<1>1. Power(Base, 1) = Base
  <2>1. Power(Base, 0) = 1 /\ Power(Base, 0 + 1) = Base * Power(Base, 0) /\ 0 + 1 = 1
    BY BaseIsNat, PowerSteps
  <2> QED
    BY <2>1, BaseIsNat
<1>2. value \in Within(1)
  BY <1>1, BaseIsNat DEF Within, Byte
<1> QED
  BY <1>2, FieldFits

\* The legs of a cycle, as the assumption describes them.
FitLegs(legs) ==
  /\ legs \in Seq(LegTypes) /\ Len(legs) \in 2 .. MAX_PACKED_LEGS
  /\ \A i \in DOMAIN legs :
       /\ legs[i].token_in # legs[i].token_out
       /\ legs[i].data[1] <= MAX_PACKED_LEG_DATA
       /\ legs[i].data[2] \in Within(legs[i].data[1])

LEMMA LegFieldsFit ==
  ASSUME NEW leg \in LegTypes, leg.data[1] <= MAX_PACKED_LEG_DATA,
         leg.data[2] \in Within(leg.data[1])
  PROVE  leg \in LegShape /\ LegFields(leg) \in Seq(Fitting)
<1>1. /\ leg.adapter \in Within(Address) /\ leg.token_in \in Within(Address)
      /\ leg.token_out \in Within(Address) /\ leg.min_out \in Within(Word)
      /\ leg.data \in Nat \X Nat
      /\ leg = [adapter |-> leg.adapter, token_in |-> leg.token_in, token_out |-> leg.token_out,
                min_out |-> leg.min_out, data |-> leg.data]
  BY DEF LegTypes
<1>2. leg.data[1] \in Nat /\ leg.data = <<leg.data[1], leg.data[2]>>
  BY <1>1
<1>3. /\ <<Address, leg.adapter>> \in Fitting /\ leg.adapter \in Nat
      /\ <<Address, leg.token_in>> \in Fitting /\ leg.token_in \in Nat
      /\ <<Address, leg.token_out>> \in Fitting /\ leg.token_out \in Nat
      /\ <<Word, leg.min_out>> \in Fitting /\ leg.min_out \in Nat
  BY <1>1, WidthsAreNat, FieldFits
<1>4. leg.data \in Fitting
  BY <1>2, FieldFits
<1>5. <<Length, leg.data[1]>> \in Fitting
  <2>1. MAX_PACKED_LEG_DATA \in 0 .. Power(Base, Length) - 1 /\ Power(Base, Length) \in Nat
    BY PackedCodecAssumption, BaseIsNat, WidthsAreNat, PowerIsPositive
  <2> DEFINE d == leg.data[1]
             top == Power(Base, Length)
  <2>2. d \in Nat /\ d <= MAX_PACKED_LEG_DATA /\ MAX_PACKED_LEG_DATA \in 0 .. top - 1 /\ top \in Nat
    BY <1>2, <2>1
  <2> HIDE DEF d, top
  <2>3. d \in 0 .. top - 1
    BY <2>2
  <2>4. d \in Within(Length)
    BY <2>3 DEF Within, top
  <2>5. <<Length, d>> \in Fitting
    BY <2>4, WidthsAreNat, FieldFits
  <2> QED
    BY <2>5 DEF d
<1>6. leg \in LegShape
  BY <1>1, <1>3 DEF LegShape
<1> DEFINE e1 == <<Address, leg.adapter>>
           e2 == <<Address, leg.token_in>>
           e3 == <<Address, leg.token_out>>
           e4 == <<Word, leg.min_out>>
           e5 == <<Length, leg.data[1]>>
           e6 == leg.data
<1>7. LegFields(leg) = <<e1, e2, e3, e4, e5, e6>>
  BY DEF LegFields
<1>8. e1 \in Fitting /\ e2 \in Fitting /\ e3 \in Fitting /\ e4 \in Fitting
      /\ e5 \in Fitting /\ e6 \in Fitting
  BY <1>3, <1>4, <1>5
<1> HIDE DEF e1, e2, e3, e4, e5, e6
<1>9. <<e1, e2, e3, e4, e5, e6>> \in Seq(Fitting)
  BY <1>8
<1> QED
  BY <1>6, <1>7, <1>9

FitCandidate(candidate) ==
  /\ candidate \in [candidate_id : Within(Word), min_profit : Within(Word), legs : Seq(LegTypes)]
  /\ FitLegs(candidate.legs)

LEMMA LegsAreFit ==
  ASSUME NEW legs, FitLegs(legs)
  PROVE  /\ legs \in Seq(LegShape) /\ Len(legs) \in Byte
         /\ DOMAIN legs = 1 .. Len(legs)
         /\ \A i \in 1 .. Len(legs) : LegFields(legs[i]) \in Seq(Fitting)
<1> DEFINE n == Len(legs)
<1>1. legs \in Seq(LegTypes) /\ n \in 2 .. MAX_PACKED_LEGS
      /\ \A i \in DOMAIN legs : /\ legs[i].data[1] <= MAX_PACKED_LEG_DATA
                                /\ legs[i].data[2] \in Within(legs[i].data[1])
  BY DEF FitLegs
<1>2. n \in Nat /\ DOMAIN legs = 1 .. n /\ \A i \in 1 .. n : legs[i] \in LegTypes
  BY <1>1, LenProperties, ElementOfSeq
<1>3. legs \in [1 .. n -> LegTypes]
  BY <1>1, LenProperties
<1> HIDE DEF n
<1>4. \A i \in 1 .. n : legs[i] \in LegShape /\ LegFields(legs[i]) \in Seq(Fitting)
  BY <1>1, <1>2, LegFieldsFit
<1>5. legs \in [1 .. n -> LegShape]
  BY <1>3, <1>4
<1>6. legs \in Seq(LegShape)
  BY <1>2, <1>5, FunctionIsSeq
<1>7. n \in Byte
  <2>1. MAX_PACKED_LEGS \in 1 .. Base - 1
    BY PackedCodecAssumption
  <2> QED
    BY <1>1, <2>1, BaseIsNat DEF Byte
<1> QED
  BY <1>2, <1>4, <1>6, <1>7 DEF n

LEMMA CandidateFits ==
  ASSUME NEW candidate, FitCandidate(candidate)
  PROVE  candidate \in CandidateShape /\ CandidateFields(candidate) \in Seq(Fitting)
<1> DEFINE legs == candidate.legs
           id == candidate.candidate_id
           least == candidate.min_profit
           parts == LegParts(candidate)
<1>1. /\ id \in Within(Word) /\ least \in Within(Word) /\ FitLegs(legs)
      /\ candidate = [candidate_id |-> id, min_profit |-> least, legs |-> legs]
  BY DEF FitCandidate
<1>2. /\ legs \in Seq(LegShape) /\ Len(legs) \in Byte /\ DOMAIN legs = 1 .. Len(legs)
      /\ \A i \in 1 .. Len(legs) : LegFields(legs[i]) \in Seq(Fitting)
  BY <1>1, LegsAreFit
<1>3. <<Word, id>> \in Fitting /\ id \in Nat /\ <<Word, least>> \in Fitting /\ least \in Nat
  BY <1>1, WidthsAreNat, FieldFits
<1>4. <<1, Len(legs)>> \in Fitting
  BY <1>2, ByteFits
<1>5. candidate \in CandidateShape
  BY <1>1, <1>2, <1>3 DEF CandidateShape
<1>6. CandidateFields(candidate) = CandidateHead(candidate) \o FlattenSeq(parts)
  BY <1>5, CandidateIsItsParts
<1>7. CandidateHead(candidate) \in Seq(Fitting)
  <2> DEFINE e1 == <<Word, id>>
             e2 == <<Word, least>>
             e3 == <<1, Len(legs)>>
  <2>1. CandidateHead(candidate) = <<e1, e2, e3>>
    BY DEF CandidateHead
  <2>2. e1 \in Fitting /\ e2 \in Fitting /\ e3 \in Fitting
    BY <1>3, <1>4
  <2> HIDE DEF e1, e2, e3
  <2>3. <<e1, e2, e3>> \in Seq(Fitting)
    BY <2>2
  <2> QED
    BY <2>1, <2>3
<1>8. parts \in Seq(Seq(Fitting))
  <2>1. parts = [i \in 1 .. Len(legs) |-> LegFields(legs[i])]
    BY <1>2 DEF LegParts
  <2>2. Len(legs) \in Nat
    BY <1>2, LenProperties
  <2> HIDE DEF parts, legs
  <2>3. parts \in [1 .. Len(legs) -> Seq(Fitting)]
    BY <1>2, <2>1
  <2> QED
    BY <2>2, <2>3, FunctionIsSeq
<1> DEFINE body == FlattenSeq(parts)
           head == CandidateHead(candidate)
<1> HIDE DEF parts
<1>9. body \in Seq(Fitting)
  BY <1>8, EmptySeq, FlattenAppend
<1>10. head \in Seq(Fitting) /\ Joins(Fitting)
  BY <1>7, Joined
<1> HIDE DEF body, head
<1>11. head \o body \in Seq(Fitting)
  BY <1>9, <1>10 DEF Joins
<1> QED
  BY <1>5, <1>6, <1>11 DEF head, body

\* A batch whose fields all fit.
FitBatch(b) ==
  /\ b \in [asset : Within(Address), amount : Within(Word), target_block : Within(Block),
            deadline : Within(Block), candidates : Seq(CandidateShape)]
  /\ Len(b.candidates) \in 1 .. MAX_PACKED_CANDIDATES
  /\ \A i \in 1 .. Len(b.candidates) : FitCandidate(b.candidates[i])

LEMMA BatchFits ==
  ASSUME NEW b, FitBatch(b)
  PROVE  b \in BatchShape /\ Encodable(b)
<1> DEFINE candidates == b.candidates
           n == Len(candidates)
           parts == CandidateParts(b)
           v == <<1, PACKED_VERSION>>
           c == <<1, n>>
           loan == LoanFields(b)
           body == FlattenSeq(parts)
           all == Fields(b)
<1>1. /\ b.asset \in Within(Address) /\ b.amount \in Within(Word)
      /\ b.target_block \in Within(Block) /\ b.deadline \in Within(Block)
      /\ candidates \in Seq(CandidateShape) /\ n \in 1 .. MAX_PACKED_CANDIDATES
      /\ b = [asset |-> b.asset, amount |-> b.amount, target_block |-> b.target_block,
              deadline |-> b.deadline, candidates |-> candidates]
      /\ \A i \in 1 .. n : FitCandidate(candidates[i])
  BY DEF FitBatch
<1>2. /\ <<Address, b.asset>> \in Fitting /\ b.asset \in Nat
      /\ <<Word, b.amount>> \in Fitting /\ b.amount \in Nat
      /\ <<Block, b.target_block>> \in Fitting /\ b.target_block \in Nat
      /\ <<Block, b.deadline>> \in Fitting /\ b.deadline \in Nat
  BY <1>1, WidthsAreNat, FieldFits
<1>3. b \in BatchShape
  BY <1>1, <1>2 DEF BatchShape
<1>4. all = <<v>> \o (<<c>> \o (loan \o body)) /\ all \in Seq(Entries)
  BY <1>3, BatchIsItsParts
<1>5. v \in Fitting /\ c \in Fitting
  <2>1. PACKED_VERSION \in 1 .. Base - 1 /\ MAX_PACKED_CANDIDATES \in 1 .. Base - 1
    BY PackedCodecAssumption
  <2>2. PACKED_VERSION \in Byte
    BY <2>1, BaseIsNat DEF Byte
  <2> HIDE DEF n
  <2>3. n \in Byte
    BY <1>1, <2>1, BaseIsNat DEF Byte
  <2> QED
    BY <2>2, <2>3, ByteFits
<1>6. loan \in Seq(Fitting)
  <2> DEFINE e1 == <<Address, b.asset>>
             e2 == <<Word, b.amount>>
             e3 == <<Block, b.target_block>>
             e4 == <<Block, b.deadline>>
  <2>1. loan = <<e1, e2, e3, e4>>
    BY DEF LoanFields
  <2>2. e1 \in Fitting /\ e2 \in Fitting /\ e3 \in Fitting /\ e4 \in Fitting
    BY <1>2
  <2> HIDE DEF e1, e2, e3, e4, loan
  <2>3. <<e1, e2, e3, e4>> \in Seq(Fitting)
    BY <2>2
  <2> QED
    BY <2>1, <2>3
<1>7. n \in Nat /\ DOMAIN candidates = 1 .. n
  BY <1>1, LenProperties
<1>8. parts \in Seq(Seq(Fitting))
  <2>1. parts = [i \in 1 .. n |-> CandidateFields(candidates[i])]
    BY <1>7 DEF CandidateParts
  <2> HIDE DEF parts, candidates, n
  <2>2. \A i \in 1 .. n : CandidateFields(candidates[i]) \in Seq(Fitting)
    BY <1>1, CandidateFits
  <2>3. parts \in [1 .. n -> Seq(Fitting)]
    BY <2>1, <2>2
  <2> QED
    BY <1>7, <2>3, FunctionIsSeq
<1> HIDE DEF parts, v, c, loan, all, candidates, n
<1>9. body \in Seq(Fitting)
  BY <1>8, EmptySeq, FlattenAppend
<1>10. all \in Seq(Fitting)
  <2> DEFINE vs == <<v>>
             cs == <<c>>
             lb == loan \o body
             clb == cs \o lb
  <2>1. Joins(Fitting)
    BY Joined
  <2>2. vs \in Seq(Fitting) /\ cs \in Seq(Fitting)
    BY <1>5
  <2> HIDE DEF vs, cs, body
  <2>3. lb \in Seq(Fitting)
    BY <1>6, <1>9, <2>1 DEF Joins
  <2> HIDE DEF lb
  <2>4. clb \in Seq(Fitting)
    BY <2>1, <2>2, <2>3 DEF Joins
  <2> HIDE DEF clb
  <2>5. vs \o clb \in Seq(Fitting)
    BY <2>1, <2>2, <2>4 DEF Joins
  <2>6. all = vs \o clb
    BY <1>4 DEF vs, cs, lb, clb
  <2> QED
    BY <2>5, <2>6
<1>11. \A i \in DOMAIN all : all[i][2] < Power(Base, all[i][1])
  <2>1. DOMAIN all = 1 .. Len(all) /\ \A i \in 1 .. Len(all) : all[i] \in Fitting
    BY <1>10, LenProperties, ElementOfSeq
  <2> QED
    BY <2>1 DEF Fitting
<1>12. ASSUME NEW i \in 1 .. n
       PROVE  LET legs == candidates[i].legs
              IN /\ Len(legs) \in 2 .. MAX_PACKED_LEGS
                 /\ \A j \in DOMAIN legs : /\ legs[j].token_in # legs[j].token_out
                                           /\ legs[j].data[1] <= MAX_PACKED_LEG_DATA
  <2>1. FitLegs(candidates[i].legs)
    BY <1>1 DEF FitCandidate
  <2> QED
    BY <2>1 DEF FitLegs
<1>13. Encodable(b)
  BY <1>1, <1>7, <1>11, <1>12 DEF Encodable, all, candidates, n
<1> QED
  BY <1>3, <1>13

\* A plan whose batch is packed is one of the batches of the instance.
LEMMA PlanIsABatch ==
  ASSUME IInv, Packed
  PROVE  Batch \in Batches
<1> DEFINE m == plan.menu
           n == Len(m)
           first == m[1]
           gain == [i \in DOMAIN m |-> task[m[i]].profit]
<1>1. /\ m \in Seq(Routes) /\ m # <<>> /\ n <= MaxMenu /\ asset \in Assets
      /\ Ranked(m) /\ Timed /\ Typed /\ observed \in Observations
  BY DEF IInv, Packed, Settled, Typed
<1>2. n \in Nat /\ DOMAIN m = 1 .. n /\ m \in [1 .. n -> Routes] /\ n # 0 /\ n \in 1 .. MaxMenu
      /\ 1 \in 1 .. n
  <2>1. n \in Nat /\ DOMAIN m = 1 .. n /\ m \in [1 .. n -> Routes] /\ n # 0
    BY <1>1, LenProperties, EmptySeq
  <2> HIDE DEF n
  <2>2. n \in 1 .. MaxMenu /\ 1 \in 1 .. n
    BY <1>1, <2>1, BoundsAreNat
  <2> QED
    BY <2>1, <2>2
<1>3. /\ \A i \in 1 .. n : m[i] \in Eligible
      /\ \A i, j \in 1 .. n : Compatible(m[i], m[j])
      /\ \A i, j \in 1 .. n : i < j => Better(m[i], m[j])
  BY <1>1 DEF Ranked
<1> HIDE DEF m, n
<1>4. \A r \in Eligible : /\ task[r].amount \in Amounts /\ task[r].profit \in Gains
                          /\ task[r].seen \in 0 .. MaxBlock /\ task[r].seen \in Nat
                          /\ task[r].net \in Int /\ r \in Nat /\ r \in Routes
  BY <1>1, EligibleTask, PackedBatchPlanAssumption
<1>5. \A i, j \in 1 .. n : i # j => m[i] # m[j]
  <2>1. ASSUME NEW i \in 1 .. n, NEW j \in 1 .. n, i < j PROVE m[i] # m[j]
    <3>1. Better(m[i], m[j]) /\ m[i] \in Eligible
      BY <1>3, <2>1
    <3>2. task[m[i]].net \in Int /\ m[i] \in Nat
      BY <1>4, <3>1
    <3>3. ~Better(m[i], m[i])
      BY <3>2 DEF Better
    <3> QED
      BY <3>1, <3>3
  <2>2. ASSUME NEW i \in 1 .. n, NEW j \in 1 .. n, i # j PROVE m[i] # m[j]
    <3>1. i < j \/ j < i
      BY <1>2, <2>2
    <3> QED
      BY <2>1, <3>1
  <2> QED
    BY <2>2
<1>6. m \in Menus
  BY <1>2, <1>5 DEF Menus
<1>7. asset[first] \in SharedTokens(m)
  <2>1. \A i \in DOMAIN m : asset[m[i]] = asset[m[1]]
    BY <1>2, <1>3 DEF Compatible
  <2> QED
    BY <1>1, <2>1 DEF SharedTokens
<1>8. first \in Eligible /\ task[first].amount \in Amounts
  BY <1>2, <1>3, <1>4
<1>9. task[first].target \in Targets
  <2> DEFINE seen == task[first].seen
  <2>1. task[first].target = target_block(seen)
    BY <1>1, <1>4, <1>8 DEF Timed
  <2>2. seen \in 0 .. MaxBlock /\ seen \in Nat
    BY <1>4, <1>8
  <2> HIDE DEF seen
  <2>3. observed \in Observations /\ (observed \in Nat \/ observed = None)
    BY <1>1, PackedBatchPlanAssumption
  <2>4. CASE observed = None \/ observed = 0 \/ observed <= seen
    <3>1. seen + 1 \in 1 .. MaxBlock + 1
      BY <2>2, BoundsAreNat
    <3> QED
      BY <2>1, <2>4, <3>1 DEF target_block, Targets
  <2>5. CASE ~(observed = None \/ observed = 0 \/ observed <= seen)
    <3>1. observed \in Nat /\ observed > 0 /\ observed # None
      BY <2>3, <2>5
    <3> QED
      BY <2>1, <2>3, <2>5, <3>1 DEF target_block, Targets
  <2> QED
    BY <2>4, <2>5
<1>10. gain \in [DOMAIN m -> {p \in Profits : p > 0}]
  <2>1. \A i \in DOMAIN m : task[m[i]].profit \in Gains
    BY <1>2, <1>3, <1>4
  <2> QED
    BY <2>1 DEF Gains
<1>11. Batch = PackedBatch(m, asset[first], task[first].amount, task[first].target, gain)
  BY DEF Batch, m
<1> HIDE DEF gain, first
<1> QED
  BY <1>6, <1>7, <1>8, <1>9, <1>10, <1>11 DEF Batches

\* Every batch of the instance is one the encoder accepts.
LEMMA BatchesFit ==
  ASSUME NEW b \in Batches
  PROVE  FitBatch(b)
<1>0. PICK m \in Menus :
        \E token \in SharedTokens(m), amount \in Amounts, target \in Targets,
           gain \in [DOMAIN m -> {p \in Profits : p > 0}] :
          b = PackedBatch(m, token, amount, target, gain)
  BY DEF Batches
<1>1. PICK token \in SharedTokens(m), amount \in Amounts, target \in Targets,
           gain \in [DOMAIN m -> {p \in Profits : p > 0}] :
        b = PackedBatch(m, token, amount, target, gain)
  BY <1>0
<1>2. PICK n \in 1 .. MaxMenu : m \in [1 .. n -> Routes]
  BY <1>1 DEF Menus
<1>3. PICK a \in Assets : token = a[m[1]] /\ \A i \in DOMAIN m : a[m[i]] = a[m[1]]
  BY <1>1 DEF SharedTokens
<1>4. n \in Nat /\ n \in 1 .. MAX_PACKED_CANDIDATES /\ DOMAIN m = 1 .. n /\ 1 \in 1 .. n
  BY <1>2, BoundsAreNat, LimitsAreNat, PackedWireAssumption
<1>5. /\ Routes \subseteq Within(Word) /\ Amounts \subseteq Within(Word)
      /\ {p \in Profits : p > 0} \subseteq Within(Word)
      /\ Targets \subseteq Within(Block) /\ Deadline \in Within(Block)
      /\ \A r \in Routes : AddressOf[a[r]] \in Within(Address) /\ FitLegs(Legs[r][a[r]])
  BY PackedWireAssumption DEF FitLegs
<1> DEFINE candidate(i) == _to_candidate(m[i], token, gain[i])
           candidates == [i \in DOMAIN m |-> candidate(i)]
<1>6. ASSUME NEW i \in 1 .. n PROVE FitCandidate(candidate(i)) /\ candidate(i) \in CandidateShape
  <2> DEFINE r == m[i]
             legs == Legs[r][token]
  <2>1. r \in Routes /\ token = a[r]
    BY <1>2, <1>3, <1>4
  <2>2. FitLegs(legs) /\ legs \in Seq(LegTypes)
    BY <1>5, <2>1 DEF FitLegs
  <2>3. r \in Within(Word) /\ gain[i] \in Within(Word)
    BY <1>1, <1>4, <1>5, <2>1
  <2>4. candidate(i) = [candidate_id |-> r, min_profit |-> gain[i], legs |-> legs]
    BY DEF _to_candidate
  <2> HIDE DEF candidate, legs, r
  <2>5. FitCandidate(candidate(i))
    BY <2>2, <2>3, <2>4 DEF FitCandidate
  <2> QED
    BY <2>5, CandidateFits
<1>7. /\ b.asset = AddressOf[token] /\ b.amount = amount /\ b.target_block = target
      /\ b.deadline = Deadline /\ b.candidates = candidates
      /\ b = [asset |-> AddressOf[token], amount |-> amount, target_block |-> target,
              deadline |-> Deadline, candidates |-> candidates]
  BY <1>1 DEF PackedBatch
<1> HIDE DEF candidate
<1>8. candidates \in [1 .. n -> CandidateShape] /\ \A i \in 1 .. n : candidates[i] = candidate(i)
  BY <1>4, <1>6
<1> HIDE DEF candidates
<1>9. candidates \in Seq(CandidateShape)
  BY <1>4, <1>8, FunctionIsSeq
<1>10. Len(candidates) = n
  BY <1>4, <1>8, <1>9, LenProperties
<1>11. AddressOf[token] \in Within(Address)
  BY <1>2, <1>3, <1>4, <1>5
<1>12. amount \in Within(Word) /\ target \in Within(Block) /\ Deadline \in Within(Block)
  BY <1>5
<1> QED
  BY <1>4, <1>6, <1>7, <1>8, <1>9, <1>10, <1>11, <1>12 DEF FitBatch

LEMMA DamagedAreBytes ==
  ASSUME NEW p \in Seq(Byte), NEW q \in Damaged(p)
  PROVE  q \in Seq(Byte)
<1>1. Len(p) \in Nat /\ DOMAIN p = 1 .. Len(p) /\ \A i \in 1 .. Len(p) : p[i] \in Byte
  BY LenProperties, ElementOfSeq
<1>2. CASE \E n \in 0 .. Len(p) - 1 : q = SubSeq(p, 1, n)
  <2>1. PICK n \in 0 .. Len(p) - 1 : q = SubSeq(p, 1, n)
    BY <1>2
  <2>2. n \in Nat /\ \A i \in 1 .. n : i \in 1 .. Len(p)
    BY <1>1
  <2>3. \A i \in 1 .. n : p[i] \in Byte
    BY <1>1, <2>2
  <2> QED
    BY <2>1, <2>2, <2>3, SubSeqProperties
<1>3. CASE \E byte \in {0, Base - 1} : q = Append(p, byte)
  <2>1. PICK byte \in {0, Base - 1} : q = Append(p, byte)
    BY <1>3
  <2>2. byte \in Byte
    BY BaseIsNat DEF Byte
  <2> QED
    BY <2>1, <2>2, AppendProperties
<1>4. CASE \E i \in DOMAIN p, k \in {1, Base - 1} : q = [p EXCEPT ![i] = (@ + k) % Base]
  <2>1. PICK i \in DOMAIN p, k \in {1, Base - 1} : q = [p EXCEPT ![i] = (@ + k) % Base]
    BY <1>4
  <2> DEFINE x == (p[i] + k) % Base
  <2>2. x \in Byte
    <3> DEFINE y == p[i] + k
    <3>1. y \in Nat
      BY <1>1, BaseIsNat DEF Byte
    <3> HIDE DEF y
    <3>2. (y % Base) \in Byte
      BY <3>1, BaseIsNat DEF Byte
    <3> QED
      BY <3>2 DEF y
  <2>3. q = [p EXCEPT ![i] = x]
    BY <2>1
  <2> HIDE DEF x
  <2>4. p \in [1 .. Len(p) -> Byte]
    BY LenProperties
  <2>5. q \in [1 .. Len(p) -> Byte]
    BY <2>2, <2>3, <2>4
  <2> QED
    BY <1>1, <2>5, FunctionIsSeq
<1> QED
  BY <1>2, <1>3, <1>4 DEF Damaged

-----------------------------------------------------------------------------
(* Bytes are valid exactly if they can be read (validate_batch_bytes).     *)

LEMMA RefusedIsNoNumber == Refused \notin Nat
  BY PackedCodecAssumption

\* The reader of the contract and the offset of the Rust executor.
Abreast(p, s, o) ==
  /\ s \in Readers(p)
  /\ s.ok = (o # Refused)
  /\ s.ok => o = s.o /\ o <= Len(p)

LEMMA AbreastOffset ==
  ASSUME NEW p, NEW s, NEW o, Abreast(p, s, o)
  PROVE  o # Refused => o \in Nat /\ o <= Len(p) /\ s.o = o
  BY DEF Abreast, Readers

\* Taking twice is taking once as much.
LEMMA TakeTwice ==
  ASSUME NEW p, Len(p) \in Nat, NEW o \in Nat \cup {Refused}, NEW a \in Nat, NEW b \in Nat
  PROVE  take(p, take(p, o, a), b) = take(p, o, a + b)
<1>1. CASE o = Refused
  BY <1>1 DEF take
<1>2. CASE o # Refused
  <2>1. o \in Nat
    BY <1>2
  <2>2. take(p, o, a) = IF o + a > Len(p) THEN Refused ELSE o + a
    BY <1>2 DEF take
  <2>3. take(p, o, a + b) = IF o + (a + b) > Len(p) THEN Refused ELSE o + (a + b)
    BY <1>2 DEF take
  <2>4. CASE o + a > Len(p)
    <3>1. o + (a + b) > Len(p)
      BY <2>1, <2>4
    <3> QED
      BY <2>2, <2>3, <2>4, <3>1 DEF take
  <2>5. CASE ~(o + a > Len(p))
    <3>1. o + a \in Nat /\ (o + a) + b = o + (a + b)
      BY <2>1
    <3>2. o + a # Refused
      BY <3>1, RefusedIsNoNumber
    <3>3. take(p, o + a, b) = IF (o + a) + b > Len(p) THEN Refused ELSE (o + a) + b
      BY <3>2 DEF take
    <3> QED
      BY <2>2, <2>3, <2>5, <3>1, <3>3
  <2> QED
    BY <2>4, <2>5
<1> QED
  BY <1>1, <1>2

LEMMA ReadAbreast ==
  ASSUME NEW p \in Seq(Byte), NEW s, NEW o, Abreast(p, s, o), NEW n \in Nat
  PROVE  /\ Abreast(p, Read(s, n), take(p, o, n))
         /\ Read(s, n).ok => /\ LastRead(Read(s, n)) = Value(SubSeq(p, o + 1, o + n))
                             /\ LastRead(Read(s, n)) \in Nat
<1> DEFINE t == Read(s, n)
           fields == s.fields
           w == SubSeq(p, s.o + 1, s.o + n)
           value == Value(w)
<1>1. /\ s.p = p /\ s.o \in Nat /\ fields \in Seq(Entries) /\ s.ok \in BOOLEAN
      /\ s = [p |-> p, o |-> s.o, fields |-> fields, ok |-> s.ok]
      /\ s.ok = (o # Refused) /\ (s.ok => o = s.o /\ o <= Len(p))
  BY DEF Abreast, Readers
<1>2. Len(p) \in Nat /\ \A i \in 1 .. Len(p) : p[i] \in Byte
  BY LenProperties, ElementOfSeq
<1>3. CASE s.o + n > Len(p)
  <2> DEFINE e == <<n, 0>>
  <2>1. e \in Entries
    BY DEF Entries
  <2> HIDE DEF e
  <2>2. Append(fields, e) \in Seq(Entries)
    BY <1>1, <2>1, AppendProperties
  <2>3. t = [p |-> p, o |-> s.o, fields |-> Append(fields, e), ok |-> FALSE]
    BY <1>1, <1>3 DEF Read, e
  <2>4. take(p, o, n) = Refused
    BY <1>1, <1>3 DEF take
  <2> HIDE DEF t, fields
  <2>5. t \in Readers(p) /\ t.ok = FALSE
    BY <1>1, <2>2, <2>3 DEF Readers
  <2>6. Abreast(p, t, take(p, o, n))
    BY <2>4, <2>5 DEF Abreast
  <2> QED
    BY <2>5, <2>6 DEF t
<1>4. CASE ~(s.o + n > Len(p))
  <2>1. value \in Nat
    <3> DEFINE a == s.o + 1
               b == s.o + n
    <3>1. a \in Int /\ b \in Int /\ \A i \in a .. b : i \in 1 .. Len(p)
      BY <1>1, <1>2, <1>4
    <3>2. \A i \in a .. b : p[i] \in Byte
      BY <1>2, <3>1
    <3>3. w = SubSeq(p, a, b)
      OBVIOUS
    <3> HIDE DEF a, b, w
    <3>4. w \in Seq(Byte)
      BY <3>1, <3>2, <3>3, SubSeqProperties
    <3> QED
      BY <3>4, WrittenOfValue
  <2> DEFINE e == <<n, value>>
  <2>2. t = [p |-> p, o |-> s.o + n, fields |-> Append(fields, e), ok |-> s.ok]
    BY <1>1, <1>4 DEF Read
  <2> HIDE DEF value
  <2>3. e \in Entries /\ e[2] = value
    BY <2>1 DEF Entries
  <2> HIDE DEF e, fields, t
  <2>4. Append(fields, e) \in Seq(Entries) /\ Len(Append(fields, e)) = Len(fields) + 1
        /\ Append(fields, e)[Len(fields) + 1] = e
    BY <1>1, <2>3, AppendProperties
  <2>5. t.ok = s.ok /\ t.o = s.o + n /\ t.fields = Append(fields, e) /\ t \in Readers(p)
    BY <1>1, <2>2, <2>4 DEF Readers
  <2>6. LastRead(t) = value
    BY <2>3, <2>4, <2>5 DEF LastRead, Last
  <2>7. s.ok => take(p, o, n) = s.o + n /\ s.o + n # Refused /\ s.o + n <= Len(p)
    BY <1>1, <1>2, <1>4, RefusedIsNoNumber DEF take
  <2>8. ~s.ok => take(p, o, n) = Refused
    BY <1>1 DEF take
  <2>9. Abreast(p, t, take(p, o, n))
    BY <1>1, <2>5, <2>7, <2>8 DEF Abreast
  <2>10. t.ok => LastRead(t) = Value(SubSeq(p, o + 1, o + n)) /\ LastRead(t) \in Nat
    BY <1>1, <2>1, <2>5, <2>6 DEF value, w
  <2> QED
    BY <2>9, <2>10 DEF t
<1> QED
  BY <1>3, <1>4

LEMMA LargestDataIsNat == MAX_PACKED_LEG_DATA \in Nat
<1>1. Power(Base, Length) \in Nat
  BY BaseIsNat, WidthsAreNat, PowerIsPositive
<1> QED
  BY <1>1, PackedCodecAssumption

LEMMA CheckAbreast ==
  ASSUME NEW p, NEW s, NEW o, Abreast(p, s, o), NEW condition \in BOOLEAN
  PROVE  /\ Abreast(p, Checked(s, condition), IF condition THEN o ELSE Refused)
         /\ Checked(s, condition).ok = (s.ok /\ condition)
<1> DEFINE t == Checked(s, condition)
<1>1. /\ s.p = p /\ s.o \in Nat /\ s.fields \in Seq(Entries) /\ s.ok \in BOOLEAN
      /\ s = [p |-> p, o |-> s.o, fields |-> s.fields, ok |-> s.ok]
      /\ s.ok = (o # Refused) /\ (s.ok => o = s.o /\ o <= Len(p))
  BY DEF Abreast, Readers
<1>2. t = [p |-> p, o |-> s.o, fields |-> s.fields, ok |-> s.ok /\ condition]
  BY <1>1 DEF Checked
<1> HIDE DEF t
<1>3. t \in Readers(p) /\ t.ok = (s.ok /\ condition) /\ t.o = s.o
  BY <1>1, <1>2 DEF Readers
<1>4. Abreast(p, t, IF condition THEN o ELSE Refused)
  BY <1>1, <1>3 DEF Abreast
<1> QED
  BY <1>3, <1>4 DEF t

\* A leg is skipped exactly if it is read.
LEMMA LegAbreast ==
  ASSUME NEW p \in Seq(Byte), NEW s, NEW o, Abreast(p, s, o)
  PROVE  Abreast(p, ReadLeg(s), skip_leg(p, o))
<1> DEFINE widths == <<Address, Address, Address, Word, Length>>
           t == ReadAll(s, widths)
           fixed == take(p, o, 3 * Address + Word)
           data == take(p, fixed, Length)
<1>1. Len(widths) = 5 /\ widths[1] = Address /\ widths[2] = Address /\ widths[3] = Address
      /\ widths[4] = Word /\ widths[5] = Length
  OBVIOUS
<1>2. ReadLeg(s) = IF t.ok /\ LastRead(t) <= MAX_PACKED_LEG_DATA THEN Read(t, LastRead(t))
                   ELSE Checked(t, FALSE)
  BY DEF ReadLeg
<1>3. skip_leg(p, o) =
        IF data = Refused THEN Refused
        ELSE IF Value(SubSeq(p, fixed + 1, data)) > MAX_PACKED_LEG_DATA THEN Refused
             ELSE take(p, data, Value(SubSeq(p, fixed + 1, data)))
  BY DEF skip_leg
<1> HIDE DEF widths
<1>4. PICK f : /\ f[0] = s
               /\ \A i \in 1 .. 5 : f[i] = Read(f[i - 1], widths[i])
               /\ t = f[5]
  <2>1. Len(widths) \in Nat
    BY <1>1
  <2>2. \E f : /\ f[0] = s
               /\ \A i \in 1 .. Len(widths) : f[i] = Read(f[i - 1], widths[i])
               /\ t = f[Len(widths)]
    BY <2>1, ReadAllIsLast
  <2> HIDE DEF t
  <2> QED
    BY <1>1, <2>2
<1> HIDE DEF t
<1>5. /\ f[1] = Read(s, Address) /\ f[2] = Read(f[1], Address) /\ f[3] = Read(f[2], Address)
      /\ f[4] = Read(f[3], Word) /\ t = Read(f[4], Length)
  <2>1. 1 \in 1 .. 5 /\ 2 \in 1 .. 5 /\ 3 \in 1 .. 5 /\ 4 \in 1 .. 5 /\ 5 \in 1 .. 5
        /\ 1 - 1 = 0 /\ 2 - 1 = 1 /\ 3 - 1 = 2 /\ 4 - 1 = 3 /\ 5 - 1 = 4
    OBVIOUS
  <2> QED
    BY <1>1, <1>4, <2>1
<1> DEFINE o1 == take(p, o, Address)
           o2 == take(p, o1, Address)
           o3 == take(p, o2, Address)
           o4 == take(p, o3, Word)
<1>6. Abreast(p, f[1], o1)
  BY <1>5, WidthsAreNat, ReadAbreast
<1> HIDE DEF o1
<1>7. Abreast(p, f[2], o2)
  BY <1>5, <1>6, WidthsAreNat, ReadAbreast
<1> HIDE DEF o2
<1>8. Abreast(p, f[3], o3)
  BY <1>5, <1>7, WidthsAreNat, ReadAbreast
<1> HIDE DEF o3
<1>9. Abreast(p, f[4], o4)
  BY <1>5, <1>8, WidthsAreNat, ReadAbreast
<1>10. o4 = fixed
  <2>1. o \in Nat \cup {Refused} /\ Len(p) \in Nat
    BY AbreastOffset, LenProperties
  <2>0. \A x, y \in Nat : take(p, take(p, o, x), y) = take(p, o, x + y)
    BY <2>1, TakeTwice
  <2>2. o2 = take(p, o, Address + Address)
    BY <2>0, WidthsAreNat DEF o2, o1
  <2> DEFINE a == Address + Address
  <2>3. a \in Nat /\ o2 = take(p, o, a)
    BY <2>2, WidthsAreNat
  <2> HIDE DEF a
  <2>4. o3 = take(p, o, a + Address)
    <3>1. take(p, take(p, o, a), Address) = take(p, o, a + Address)
      BY <2>0, <2>3, WidthsAreNat
    <3> QED
      BY <2>3, <3>1 DEF o3
  <2> DEFINE b == a + Address
  <2>5. b \in Nat /\ o3 = take(p, o, b)
    BY <2>3, <2>4, WidthsAreNat
  <2> HIDE DEF b
  <2>6. o4 = take(p, o, b + Word)
    <3>1. take(p, take(p, o, b), Word) = take(p, o, b + Word)
      BY <2>0, <2>5, WidthsAreNat
    <3> QED
      BY <2>5, <3>1
  <2>7. b + Word = 3 * Address + Word
    BY WidthsAreNat DEF a, b
  <2> QED
    BY <2>6, <2>7
<1>11. Abreast(p, f[4], fixed)
  BY <1>9, <1>10
<1> HIDE DEF o4, fixed
<1>12. /\ Abreast(p, t, data)
       /\ t.ok => /\ LastRead(t) = Value(SubSeq(p, fixed + 1, fixed + Length))
                  /\ LastRead(t) \in Nat
  BY <1>5, <1>11, WidthsAreNat, ReadAbreast
<1>13. data # Refused => data = fixed + Length
  BY DEF take
<1> HIDE DEF data
<1>14. t.ok = (data # Refused) /\ t.ok \in BOOLEAN
  BY <1>12 DEF Abreast, Readers
<1> DEFINE n == LastRead(t)
           v == Value(SubSeq(p, fixed + 1, data))
<1>15. t.ok => n = v /\ n \in Nat
  BY <1>12, <1>13, <1>14
<1> HIDE DEF n, v
<1>16. CASE t.ok /\ n <= MAX_PACKED_LEG_DATA
  <2>1. ReadLeg(s) = Read(t, n)
    BY <1>2, <1>16 DEF n
  <2>2. ~(n > MAX_PACKED_LEG_DATA)
    BY <1>15, <1>16, LargestDataIsNat
  <2>3. skip_leg(p, o) = take(p, data, n)
    BY <1>3, <1>14, <1>15, <1>16, <2>2 DEF v
  <2> QED
    BY <1>12, <1>15, <1>16, <2>1, <2>3, ReadAbreast
<1>17. CASE ~(t.ok /\ n <= MAX_PACKED_LEG_DATA)
  <2>1. ReadLeg(s) = Checked(t, FALSE)
    BY <1>2, <1>17 DEF n
  <2>2. Abreast(p, Checked(t, FALSE), Refused)
    BY <1>12, CheckAbreast
  <2>3. data # Refused => v > MAX_PACKED_LEG_DATA
    <3> SUFFICES ASSUME data # Refused PROVE v > MAX_PACKED_LEG_DATA
      OBVIOUS
    <3>1. t.ok
      BY <1>14
    <3>2. n = v /\ n \in Nat /\ ~(n <= MAX_PACKED_LEG_DATA)
      BY <1>15, <1>17, <3>1
    <3> QED
      BY <3>2, LargestDataIsNat
  <2>4. skip_leg(p, o) = Refused
    BY <1>3, <2>3 DEF v
  <2> QED
    BY <2>1, <2>2, <2>4
<1> QED
  BY <1>16, <1>17

SkipsLegs(p, o, n, g) == g = [i \in 0 .. n |-> IF i = 0 THEN o ELSE skip_leg(p, g[i - 1])]

LEMMA LegSkipsExist ==
  ASSUME NEW p, NEW o, NEW n \in Nat
  PROVE  \E f : SkipsLegs(p, o, n, f)
<1> DEFINE S == {k \in Nat : \E f : SkipsLegs(p, o, k, f)}
<1>1. 0 \in S
  <2> DEFINE f == [i \in 0 .. 0 |-> o]
  <2>1. f = [i \in 0 .. 0 |-> IF i = 0 THEN o ELSE skip_leg(p, f[i - 1])]
    OBVIOUS
  <2> QED
    BY <2>1 DEF SkipsLegs
<1>2. ASSUME NEW k \in Nat, k \in S PROVE k + 1 \in S
  <2>1. PICK f : SkipsLegs(p, o, k, f)
    BY <1>2
  <2>2. PICK g : Extended(0, k, f, skip_leg(p, f[k]), g)
    BY Longer
  <2>3. ASSUME NEW m \in 0 .. k + 1
        PROVE  g[m] = IF m = 0 THEN o ELSE skip_leg(p, g[m - 1])
    <3>1. CASE m \in 0 .. k
      <4>1. f[m] = IF m = 0 THEN o ELSE skip_leg(p, f[m - 1])
        BY <2>1, <3>1 DEF SkipsLegs
      <4>2. m # 0 => m - 1 \in 0 .. k
        BY <3>1
      <4> QED
        BY <2>2, <3>1, <4>1, <4>2 DEF Extended
    <3>2. CASE m \notin 0 .. k
      <4>1. m = k + 1 /\ m - 1 = k /\ m # 0 /\ k \in 0 .. k
        BY <3>2
      <4> QED
        BY <2>2, <4>1 DEF Extended
    <3> QED
      BY <3>1, <3>2
  <2>4. SkipsLegs(p, o, k + 1, g)
    BY <2>2, <2>3 DEF SkipsLegs, Extended
  <2> QED
    BY <2>4
<1> HIDE DEF S
<1>3. n \in S
  BY <1>1, <1>2, Induct
<1> QED
  BY <1>3 DEF S

LEMMA SkipCandidateSteps ==
  ASSUME NEW p, NEW o
  PROVE  LET legs == take(p, take(p, o, 2 * Word), 1)
         IN \E g : /\ g[0] = legs
                   /\ \A i \in 1 .. MAX_PACKED_LEGS : g[i] = skip_leg(p, g[i - 1])
                   /\ skip_candidate(p, o) =
                        IF legs = Refused THEN Refused
                        ELSE IF p[legs] \in 2 .. MAX_PACKED_LEGS THEN g[p[legs]] ELSE Refused
<1> DEFINE legs == take(p, take(p, o, 2 * Word), 1)
           upTo == CHOOSE g : SkipsLegs(p, legs, MAX_PACKED_LEGS, g)
<1>1. SkipsLegs(p, legs, MAX_PACKED_LEGS, upTo)
  <2> HIDE DEF legs
  <2> QED
    BY LimitsAreNat, LegSkipsExist
<1>2. skip_candidate(p, o) =
        IF legs = Refused THEN Refused
        ELSE IF p[legs] \in 2 .. MAX_PACKED_LEGS THEN upTo[p[legs]] ELSE Refused
  BY DEF skip_candidate, SkipsLegs
<1> HIDE DEF upTo, legs
<1>3. upTo[0] = legs
  BY <1>1, LimitsAreNat DEF SkipsLegs
<1>4. ASSUME NEW i \in 1 .. MAX_PACKED_LEGS PROVE upTo[i] = skip_leg(p, upTo[i - 1])
  <2>1. i \in 0 .. MAX_PACKED_LEGS /\ i # 0
    BY LimitsAreNat
  <2> QED
    BY <1>1, <2>1 DEF SkipsLegs
<1> QED
  BY <1>2, <1>3, <1>4 DEF legs

\* The value of one byte is the byte.
LEMMA ValueOfOne ==
  ASSUME NEW p \in Seq(Byte), NEW i \in 1 .. Len(p)
  PROVE  Value(SubSeq(p, i, i)) = p[i] /\ p[i] \in Nat
<1> DEFINE w == SubSeq(p, i, i)
<1>1. p[i] \in Byte /\ p[i] \in Nat
  BY BaseIsNat, ElementOfSeq DEF Byte
<1>2. i \in Int /\ i <= i /\ i - i + 1 = 1 /\ 1 \in 1 .. i - i + 1 /\ i + 1 - 1 = i
      /\ \A j \in i .. i : p[j] \in Byte
  BY <1>1
<1>3. Len(w) = 1 /\ w[1] = p[i]
  BY <1>2, SubSeqProperties
<1> HIDE DEF w
<1>4. Len(w) \in Nat
  BY <1>3
<1>5. PICK f : /\ f[0] = 0
               /\ \A j \in 1 .. Len(w) : f[j] = f[j - 1] * Base + w[j]
               /\ Value(w) = f[Len(w)]
  BY <1>4, ValueIsLast
<1>6. f[1] = f[0] * Base + w[1]
  <2>1. 1 \in 1 .. Len(w) /\ 1 - 1 = 0
    BY <1>3
  <2> QED
    BY <1>5, <2>1
<1>7. 0 * Base + p[i] = p[i]
  BY <1>1, BaseIsNat
<1> QED
  BY <1>1, <1>3, <1>5, <1>6, <1>7 DEF w

\* So is a candidate.
LEMMA CandidateAbreast ==
  ASSUME NEW p \in Seq(Byte), NEW s, NEW o, Abreast(p, s, o)
  PROVE  Abreast(p, ReadCandidate(s), skip_candidate(p, o))
<1> DEFINE widths == <<Word, Word, 1>>
           t == ReadAll(s, widths)
           legs == take(p, take(p, o, 2 * Word), 1)
<1>1. Len(widths) = 3 /\ widths[1] = Word /\ widths[2] = Word /\ widths[3] = 1
  OBVIOUS
<1>2. PICK f : /\ f[0] = t
               /\ \A i \in 1 .. MAX_PACKED_LEGS : f[i] = ReadLeg(f[i - 1])
               /\ ReadCandidate(s) =
                    IF t.ok /\ LastRead(t) \in 2 .. MAX_PACKED_LEGS THEN f[LastRead(t)]
                    ELSE Checked(t, FALSE)
  BY ReadCandidateSteps
<1>3. PICK g : /\ g[0] = legs
               /\ \A i \in 1 .. MAX_PACKED_LEGS : g[i] = skip_leg(p, g[i - 1])
               /\ skip_candidate(p, o) =
                    IF legs = Refused THEN Refused
                    ELSE IF p[legs] \in 2 .. MAX_PACKED_LEGS THEN g[p[legs]] ELSE Refused
  BY SkipCandidateSteps
<1> HIDE DEF widths
<1>4. PICK h : /\ h[0] = s
               /\ \A i \in 1 .. 3 : h[i] = Read(h[i - 1], widths[i])
               /\ t = h[3]
  <2>1. Len(widths) \in Nat
    BY <1>1
  <2>2. \E h : /\ h[0] = s
               /\ \A i \in 1 .. Len(widths) : h[i] = Read(h[i - 1], widths[i])
               /\ t = h[Len(widths)]
    BY <2>1, ReadAllIsLast
  <2> HIDE DEF t
  <2> QED
    BY <1>1, <2>2
<1> HIDE DEF t
<1>5. h[1] = Read(s, Word) /\ h[2] = Read(h[1], Word) /\ t = Read(h[2], 1)
  <2>1. 1 \in 1 .. 3 /\ 2 \in 1 .. 3 /\ 3 \in 1 .. 3 /\ 1 - 1 = 0 /\ 2 - 1 = 1 /\ 3 - 1 = 2
    OBVIOUS
  <2> QED
    BY <1>1, <1>4, <2>1
<1> DEFINE o1 == take(p, o, Word)
           o2 == take(p, o1, Word)
<1>6. Abreast(p, h[1], o1)
  BY <1>5, WidthsAreNat, ReadAbreast
<1> HIDE DEF o1
<1>7. Abreast(p, h[2], o2)
  BY <1>5, <1>6, WidthsAreNat, ReadAbreast
<1>8. o2 = take(p, o, 2 * Word)
  <2>1. o \in Nat \cup {Refused} /\ Len(p) \in Nat
    BY AbreastOffset, LenProperties
  <2>2. take(p, take(p, o, Word), Word) = take(p, o, Word + Word)
    BY <2>1, WidthsAreNat, TakeTwice
  <2>3. Word + Word = 2 * Word
    BY WidthsAreNat
  <2> QED
    BY <2>2, <2>3 DEF o1
<1> HIDE DEF o2
<1>9. /\ Abreast(p, t, take(p, o2, 1))
      /\ t.ok => /\ LastRead(t) = Value(SubSeq(p, o2 + 1, o2 + 1))
                 /\ LastRead(t) \in Nat
  <2>1. 1 \in Nat
    OBVIOUS
  <2> QED
    BY <1>5, <1>7, <2>1, ReadAbreast
<1>10. legs = take(p, o2, 1)
  BY <1>8
<1>11. legs # Refused => legs = o2 + 1
  BY <1>10 DEF take
<1> HIDE DEF legs
<1>12. Abreast(p, t, legs) /\ t.ok = (legs # Refused) /\ t.ok \in BOOLEAN
  BY <1>9, <1>10 DEF Abreast, Readers
<1> DEFINE n == LastRead(t)
<1>13. t.ok => n = p[legs] /\ n \in Nat
  <2> SUFFICES ASSUME t.ok PROVE n = p[legs] /\ n \in Nat
    OBVIOUS
  <2>1. legs \in Nat /\ legs <= Len(p) /\ legs = o2 + 1 /\ o2 # Refused
    <3>1. legs \in Nat /\ legs <= Len(p) /\ legs = o2 + 1
      BY <1>11, <1>12, AbreastOffset
    <3>2. o2 # Refused
      BY <1>10, <1>12 DEF take
    <3> QED
      BY <3>1, <3>2
  <2>2. o2 \in Nat
    BY <1>7, <2>1, AbreastOffset
  <2>3. legs \in 1 .. Len(p)
    BY <2>1, <2>2, LenProperties
  <2> QED
    BY <1>9, <2>1, <2>3, ValueOfOne
<1> HIDE DEF n
<1> DEFINE T == {k \in Nat : k <= MAX_PACKED_LEGS => Abreast(p, f[k], g[k])}
<1>14. 0 \in T
  BY <1>2, <1>3, <1>12
<1>15. ASSUME NEW k \in Nat, k \in T PROVE k + 1 \in T
  <2> SUFFICES ASSUME k + 1 <= MAX_PACKED_LEGS PROVE Abreast(p, f[k + 1], g[k + 1])
    OBVIOUS
  <2>1. k <= MAX_PACKED_LEGS /\ k + 1 \in 1 .. MAX_PACKED_LEGS /\ (k + 1) - 1 = k
    BY LimitsAreNat
  <2>2. f[k + 1] = ReadLeg(f[k]) /\ g[k + 1] = skip_leg(p, g[k])
    BY <1>2, <1>3, <2>1
  <2>3. Abreast(p, f[k], g[k])
    BY <1>15, <2>1
  <2> HIDE DEF T
  <2> QED
    BY <2>2, <2>3, LegAbreast
<1> HIDE DEF T
<1>16. ASSUME NEW k \in Nat PROVE k \in T
  BY <1>14, <1>15, Induct
<1>17. CASE t.ok /\ n \in 2 .. MAX_PACKED_LEGS
  <2>1. n \in Nat /\ n <= MAX_PACKED_LEGS
    BY <1>17, LimitsAreNat
  <2>2. Abreast(p, f[n], g[n])
    BY <1>16, <2>1 DEF T
  <2>3. ReadCandidate(s) = f[n]
    BY <1>2, <1>17 DEF n
  <2>4. skip_candidate(p, o) = g[n]
    BY <1>3, <1>12, <1>13, <1>17
  <2> QED
    BY <2>2, <2>3, <2>4
<1>18. CASE ~(t.ok /\ n \in 2 .. MAX_PACKED_LEGS)
  <2>1. ReadCandidate(s) = Checked(t, FALSE)
    BY <1>2, <1>18 DEF n
  <2>2. Abreast(p, Checked(t, FALSE), Refused)
    BY <1>12, CheckAbreast
  <2>3. skip_candidate(p, o) = Refused
    <3>1. CASE t.ok
      BY <1>3, <1>13, <1>18, <3>1
    <3>2. CASE ~t.ok
      BY <1>3, <1>12, <3>2
    <3> QED
      BY <3>1, <3>2
  <2> QED
    BY <2>1, <2>2, <2>3
<1> QED
  BY <1>17, <1>18

SkipsCandidates(p, o, n, g) ==
  g = [i \in 0 .. n |-> IF i = 0 THEN o ELSE skip_candidate(p, g[i - 1])]

LEMMA CandidateSkipsExist ==
  ASSUME NEW p, NEW o, NEW n \in Nat
  PROVE  \E f : SkipsCandidates(p, o, n, f)
<1> DEFINE S == {k \in Nat : \E f : SkipsCandidates(p, o, k, f)}
<1>1. 0 \in S
  <2> DEFINE f == [i \in 0 .. 0 |-> o]
  <2>1. f = [i \in 0 .. 0 |-> IF i = 0 THEN o ELSE skip_candidate(p, f[i - 1])]
    OBVIOUS
  <2> QED
    BY <2>1 DEF SkipsCandidates
<1>2. ASSUME NEW k \in Nat, k \in S PROVE k + 1 \in S
  <2>1. PICK f : SkipsCandidates(p, o, k, f)
    BY <1>2
  <2>2. PICK g : Extended(0, k, f, skip_candidate(p, f[k]), g)
    BY Longer
  <2>3. ASSUME NEW m \in 0 .. k + 1
        PROVE  g[m] = IF m = 0 THEN o ELSE skip_candidate(p, g[m - 1])
    <3>1. CASE m \in 0 .. k
      <4>1. f[m] = IF m = 0 THEN o ELSE skip_candidate(p, f[m - 1])
        BY <2>1, <3>1 DEF SkipsCandidates
      <4>2. m # 0 => m - 1 \in 0 .. k
        BY <3>1
      <4> QED
        BY <2>2, <3>1, <4>1, <4>2 DEF Extended
    <3>2. CASE m \notin 0 .. k
      <4>1. m = k + 1 /\ m - 1 = k /\ m # 0 /\ k \in 0 .. k
        BY <3>2
      <4> QED
        BY <2>2, <4>1 DEF Extended
    <3> QED
      BY <3>1, <3>2
  <2>4. SkipsCandidates(p, o, k + 1, g)
    BY <2>2, <2>3 DEF SkipsCandidates, Extended
  <2> QED
    BY <2>4
<1> HIDE DEF S
<1>3. n \in S
  BY <1>1, <1>2, Induct
<1> QED
  BY <1>3 DEF S

\* The bytes before the candidates.
HeaderSize == 2 + Address + Word + 2 * Block

HeaderValid(p) ==
  Len(p) >= HeaderSize /\ VersionKnown(p) /\ p[2] \in 1 .. MAX_PACKED_CANDIDATES

LEMMA ValidateSteps ==
  ASSUME NEW p
  PROVE  \E g : /\ g[0] = HeaderSize
                /\ \A i \in 1 .. MAX_PACKED_CANDIDATES : g[i] = skip_candidate(p, g[i - 1])
                /\ validate_batch_bytes(p) <=> HeaderValid(p) /\ g[p[2]] = Len(p)
<1> DEFINE upTo == CHOOSE g : SkipsCandidates(p, HeaderSize, MAX_PACKED_CANDIDATES, g)
<1>1. SkipsCandidates(p, HeaderSize, MAX_PACKED_CANDIDATES, upTo)
  BY LimitsAreNat, CandidateSkipsExist
<1>2. validate_batch_bytes(p) <=> HeaderValid(p) /\ upTo[p[2]] = Len(p)
  BY DEF validate_batch_bytes, SkipsCandidates, HeaderValid, HeaderSize
<1> HIDE DEF upTo
<1>3. upTo[0] = HeaderSize
  BY <1>1, LimitsAreNat DEF SkipsCandidates
<1>4. ASSUME NEW i \in 1 .. MAX_PACKED_CANDIDATES PROVE upTo[i] = skip_candidate(p, upTo[i - 1])
  <2>1. i \in 0 .. MAX_PACKED_CANDIDATES /\ i # 0
    BY LimitsAreNat
  <2> QED
    BY <1>1, <2>1 DEF SkipsCandidates
<1> QED
  BY <1>2, <1>3, <1>4

LEMMA LoanAbreast ==
  ASSUME NEW p \in Seq(Byte), NEW s, NEW o, Abreast(p, s, o)
  PROVE  Abreast(p, ReadAll(s, <<Address, Word, Block, Block>>),
                 take(p, o, Address + Word + 2 * Block))
<1> DEFINE widths == <<Address, Word, Block, Block>>
           t == ReadAll(s, widths)
<1>1. Len(widths) = 4 /\ widths[1] = Address /\ widths[2] = Word /\ widths[3] = Block
      /\ widths[4] = Block
  OBVIOUS
<1> HIDE DEF widths
<1>2. PICK h : /\ h[0] = s
               /\ \A i \in 1 .. 4 : h[i] = Read(h[i - 1], widths[i])
               /\ t = h[4]
  <2>1. Len(widths) \in Nat
    BY <1>1
  <2>2. \E h : /\ h[0] = s
               /\ \A i \in 1 .. Len(widths) : h[i] = Read(h[i - 1], widths[i])
               /\ t = h[Len(widths)]
    BY <2>1, ReadAllIsLast
  <2> HIDE DEF t
  <2> QED
    BY <1>1, <2>2
<1> HIDE DEF t
<1>3. h[1] = Read(s, Address) /\ h[2] = Read(h[1], Word) /\ h[3] = Read(h[2], Block)
      /\ t = Read(h[3], Block)
  <2>1. 1 \in 1 .. 4 /\ 2 \in 1 .. 4 /\ 3 \in 1 .. 4 /\ 4 \in 1 .. 4
        /\ 1 - 1 = 0 /\ 2 - 1 = 1 /\ 3 - 1 = 2 /\ 4 - 1 = 3
    OBVIOUS
  <2> QED
    BY <1>1, <1>2, <2>1
<1> DEFINE o1 == take(p, o, Address)
           o2 == take(p, o1, Word)
           o3 == take(p, o2, Block)
           o4 == take(p, o3, Block)
<1>4. Abreast(p, h[1], o1)
  BY <1>3, WidthsAreNat, ReadAbreast
<1> HIDE DEF o1
<1>5. Abreast(p, h[2], o2)
  BY <1>3, <1>4, WidthsAreNat, ReadAbreast
<1> HIDE DEF o2
<1>6. Abreast(p, h[3], o3)
  BY <1>3, <1>5, WidthsAreNat, ReadAbreast
<1> HIDE DEF o3
<1>7. Abreast(p, t, o4)
  BY <1>3, <1>6, WidthsAreNat, ReadAbreast
<1>8. o4 = take(p, o, Address + Word + 2 * Block)
  <2>1. o \in Nat \cup {Refused} /\ Len(p) \in Nat
    BY AbreastOffset, LenProperties
  <2>2. \A x, y \in Nat : take(p, take(p, o, x), y) = take(p, o, x + y)
    BY <2>1, TakeTwice
  <2>3. o2 = take(p, o, Address + Word)
    BY <2>2, WidthsAreNat DEF o2, o1
  <2> DEFINE a == Address + Word
             b == a + Block
  <2>4. a \in Nat /\ o2 = take(p, o, a)
    BY <2>3, WidthsAreNat
  <2> HIDE DEF a
  <2>5. b \in Nat /\ o3 = take(p, o, b)
    BY <2>2, <2>4, WidthsAreNat DEF o3
  <2> HIDE DEF b
  <2>6. o4 = take(p, o, b + Block)
    BY <2>2, <2>5, WidthsAreNat
  <2>7. b + Block = Address + Word + 2 * Block
    BY WidthsAreNat DEF a, b
  <2> QED
    BY <2>6, <2>7
<1> QED
  BY <1>7, <1>8 DEF t, widths

\* And so is the header.
LEMMA HeaderAbreast ==
  ASSUME NEW p \in Seq(Byte)
  PROVE  /\ Abreast(p, Header(p), IF HeaderValid(p) THEN HeaderSize ELSE Refused)
         /\ HeaderValid(p) => LastRead(Count(p)) = p[2]
<1> DEFINE first == Unread(p)
           version == Version(p)
           c1 == LastRead(version) = PACKED_VERSION
           one == Checked(version, c1)
           count == Count(p)
           c2 == LastRead(count) \in 1 .. MAX_PACKED_CANDIDATES
           many == Checked(count, c2)
           header == Header(p)
           o1 == take(p, 0, 1)
           q1 == IF c1 THEN o1 ELSE Refused
           o2 == take(p, q1, 1)
           q2 == IF c2 THEN o2 ELSE Refused
           size == Address + Word + 2 * Block
           o3 == take(p, q2, size)
<1>1. version = Read(first, 1) /\ count = Read(one, 1)
      /\ header = ReadAll(many, <<Address, Word, Block, Block>>)
  BY DEF Version, Count, Header
<1>2. Abreast(p, first, 0)
  <2>1. <<>> \in Seq(Entries) /\ Len(p) \in Nat
    BY EmptySeq, LenProperties
  <2>2. first \in Readers(p) /\ first.ok = TRUE /\ first.o = 0
    BY <2>1 DEF Unread, Readers
  <2>3. 0 # Refused /\ 0 <= Len(p)
    BY <2>1, RefusedIsNoNumber
  <2> HIDE DEF first
  <2> QED
    BY <2>2, <2>3 DEF Abreast
<1>3. c1 \in BOOLEAN /\ c2 \in BOOLEAN /\ 1 \in Nat
  OBVIOUS
<1> HIDE DEF first, version, count, header
<1>4. /\ Abreast(p, version, o1)
      /\ version.ok => LastRead(version) = Value(SubSeq(p, 0 + 1, 0 + 1))
  BY <1>1, <1>2, <1>3, ReadAbreast
<1> HIDE DEF o1, c1
<1>5. Abreast(p, one, q1) /\ one.ok = (version.ok /\ c1)
  BY <1>3, <1>4, CheckAbreast
<1> HIDE DEF one, q1
<1>6. /\ Abreast(p, count, o2)
      /\ count.ok => LastRead(count) = Value(SubSeq(p, q1 + 1, q1 + 1))
  BY <1>1, <1>3, <1>5, ReadAbreast
<1> HIDE DEF o2, c2
<1>7. Abreast(p, many, q2)
  BY <1>3, <1>6, CheckAbreast
<1> HIDE DEF many, q2
<1>8. Abreast(p, header, o3)
  BY <1>1, <1>7, LoanAbreast
<1>9. /\ version.ok = (o1 # Refused) /\ count.ok = (o2 # Refused)
      /\ version.ok \in BOOLEAN /\ count.ok \in BOOLEAN
  BY <1>4, <1>6 DEF Abreast, Readers
<1>10. size \in Nat /\ 2 + size = HeaderSize /\ Len(p) \in Nat
  BY WidthsAreNat, LenProperties DEF HeaderSize
<1> HIDE DEF size
<1>11. 0 # Refused /\ 1 # Refused /\ 2 # Refused /\ HeaderSize # Refused
  <2>1. HeaderSize \in Nat
    BY WidthsAreNat DEF HeaderSize
  <2> QED
    BY <2>1, RefusedIsNoNumber
<1>12. o1 = IF Len(p) >= 1 THEN 1 ELSE Refused
  BY <1>10, <1>11 DEF o1, take
<1>13. version.ok => Len(p) >= 1 /\ (c1 <=> VersionKnown(p))
  <2> SUFFICES ASSUME version.ok PROVE Len(p) >= 1 /\ (c1 <=> VersionKnown(p))
    OBVIOUS
  <2>1. Len(p) >= 1
    BY <1>9, <1>12
  <2>2. 0 + 1 = 1 /\ 1 \in 1 .. Len(p)
    BY <1>10, <2>1
  <2>3. LastRead(version) = p[1]
    BY <1>4, <2>2, ValueOfOne
  <2> QED
    BY <2>1, <2>3 DEF c1, VersionKnown
<1>14. q1 = IF Len(p) >= 1 /\ VersionKnown(p) THEN 1 ELSE Refused
  BY <1>9, <1>11, <1>12, <1>13 DEF q1
<1>15. o2 = IF Len(p) >= 2 /\ VersionKnown(p) THEN 2 ELSE Refused
  <2>1. CASE Len(p) >= 1 /\ VersionKnown(p)
    <3>1. q1 = 1
      BY <1>14, <2>1
    <3>2. 1 + 1 = 2 /\ (1 + 1 > Len(p) <=> ~(Len(p) >= 2))
      BY <1>10
    <3> QED
      BY <1>11, <2>1, <3>1, <3>2 DEF o2, take
  <2>2. CASE ~(Len(p) >= 1 /\ VersionKnown(p))
    <3>1. q1 = Refused
      BY <1>14, <2>2
    <3>2. Len(p) >= 2 => Len(p) >= 1
      BY <1>10
    <3> QED
      BY <2>2, <3>1, <3>2 DEF o2, take
  <2> QED
    BY <2>1, <2>2
<1>16. count.ok => LastRead(count) = p[2]
  <2> SUFFICES ASSUME count.ok PROVE LastRead(count) = p[2]
    OBVIOUS
  <2>1. Len(p) >= 2 /\ VersionKnown(p)
    BY <1>9, <1>15
  <2>2. 1 + 1 = 2 /\ 2 \in 1 .. Len(p) /\ Len(p) >= 1
    BY <1>10, <2>1
  <2>3. q1 = 1
    BY <1>14, <2>1, <2>2
  <2> QED
    BY <1>6, <2>2, <2>3, ValueOfOne
<1> DEFINE fine == Len(p) >= 2 /\ VersionKnown(p) /\ p[2] \in 1 .. MAX_PACKED_CANDIDATES
<1>17. q2 = IF fine THEN 2 ELSE Refused
  BY <1>9, <1>11, <1>15, <1>16 DEF q2, c2
<1>18. HeaderValid(p) <=> fine /\ Len(p) >= HeaderSize
  BY <1>10 DEF HeaderValid
<1> HIDE DEF fine
<1>19. o3 = IF HeaderValid(p) THEN HeaderSize ELSE Refused
  <2>1. CASE fine
    <3>1. q2 = 2
      BY <1>17, <2>1
    <3>2. 2 + size > Len(p) <=> ~(Len(p) >= HeaderSize)
      BY <1>10
    <3> QED
      BY <1>10, <1>11, <1>18, <2>1, <3>1, <3>2 DEF take
  <2>2. CASE ~fine
    <3>1. q2 = Refused
      BY <1>17, <2>2
    <3> QED
      BY <1>18, <2>2, <3>1 DEF take
  <2> QED
    BY <2>1, <2>2
<1>20. HeaderValid(p) => LastRead(count) = p[2]
  <2> SUFFICES ASSUME HeaderValid(p) PROVE LastRead(count) = p[2]
    OBVIOUS
  <2>1. Len(p) >= 2 /\ VersionKnown(p)
    BY <1>18 DEF fine
  <2>2. count.ok
    BY <1>9, <1>11, <1>15, <2>1
  <2> QED
    BY <1>16, <2>2
<1> QED
  BY <1>8, <1>19, <1>20 DEF header, count

LEMMA ValidIsAccepted ==
  ASSUME NEW p \in Seq(Byte)
  PROVE  validate_batch_bytes(p) <=> _decodePacked(p) # Refused
<1> DEFINE n == LastRead(Count(p))
<1>1. PICK f : /\ f[0] = Header(p)
               /\ \A i \in 1 .. MAX_PACKED_CANDIDATES : f[i] = ReadCandidate(f[i - 1])
               /\ _decodePacked(p) =
                    IF Header(p).ok /\ AllRead(f[n]) THEN f[n].fields ELSE Refused
  BY DecodeSteps
<1>2. PICK g : /\ g[0] = HeaderSize
               /\ \A i \in 1 .. MAX_PACKED_CANDIDATES : g[i] = skip_candidate(p, g[i - 1])
               /\ validate_batch_bytes(p) <=> HeaderValid(p) /\ g[p[2]] = Len(p)
  BY ValidateSteps
<1>3. /\ Abreast(p, Header(p), IF HeaderValid(p) THEN HeaderSize ELSE Refused)
      /\ HeaderValid(p) => n = p[2]
  BY HeaderAbreast
<1> HIDE DEF n
<1>4. CASE ~HeaderValid(p)
  <2>1. Header(p).ok = FALSE
    BY <1>3, <1>4 DEF Abreast
  <2> QED
    BY <1>1, <1>2, <1>4, <2>1
<1>5. CASE HeaderValid(p)
  <2>1. Abreast(p, Header(p), HeaderSize) /\ n = p[2] /\ n \in 1 .. MAX_PACKED_CANDIDATES
    BY <1>3, <1>5 DEF HeaderValid
  <2>2. Header(p).ok
    <3>1. HeaderSize \in Nat
      BY WidthsAreNat DEF HeaderSize
    <3> QED
      BY <2>1, <3>1, RefusedIsNoNumber DEF Abreast
  <2> DEFINE T == {k \in Nat : k <= MAX_PACKED_CANDIDATES => Abreast(p, f[k], g[k])}
  <2>3. 0 \in T
    BY <1>1, <1>2, <2>1
  <2>4. ASSUME NEW k \in Nat, k \in T PROVE k + 1 \in T
    <3> SUFFICES ASSUME k + 1 <= MAX_PACKED_CANDIDATES PROVE Abreast(p, f[k + 1], g[k + 1])
      OBVIOUS
    <3>1. k <= MAX_PACKED_CANDIDATES /\ k + 1 \in 1 .. MAX_PACKED_CANDIDATES /\ (k + 1) - 1 = k
      BY LimitsAreNat
    <3>2. f[k + 1] = ReadCandidate(f[k]) /\ g[k + 1] = skip_candidate(p, g[k])
      BY <1>1, <1>2, <3>1
    <3>3. Abreast(p, f[k], g[k])
      BY <2>4, <3>1
    <3> HIDE DEF T
    <3> QED
      BY <3>2, <3>3, CandidateAbreast
  <2> HIDE DEF T
  <2>5. n \in Nat /\ n <= MAX_PACKED_CANDIDATES
    BY <2>1, LimitsAreNat
  <2>6. n \in T
    BY <2>3, <2>4, <2>5, Induct
  <2>7. Abreast(p, f[n], g[n])
    BY <2>5, <2>6 DEF T
  <2>8. /\ f[n].p = p /\ f[n].fields \in Seq(Entries) /\ f[n].ok \in BOOLEAN
        /\ f[n].ok = (g[n] # Refused) /\ (f[n].ok => g[n] = f[n].o)
    BY <2>7 DEF Abreast, Readers
  <2>9. f[n].fields # Refused /\ Len(p) # Refused
    BY <2>8, LenProperties, PackedCodecAssumption DEF Entries
  <2>10. AllRead(f[n]) <=> g[n] = Len(p)
    BY <2>8, <2>9 DEF AllRead
  <2> QED
    BY <1>1, <1>2, <1>5, <2>1, <2>2, <2>9, <2>10
<1> QED
  BY <1>4, <1>5

-----------------------------------------------------------------------------
(* Amounts, digit by digit (decimal_to_be_bytes, parse_uint).              *)

LEMMA RadixIsNat == Radix \in Nat \ {0} /\ Radix >= 2 /\ Radix <= Base
  BY PackedCodecAssumption

LEMMA PowerGrows ==
  ASSUME NEW b \in Nat, b >= 2, NEW n \in Nat
  PROVE  n < Power(b, n)
<1> DEFINE S == {k \in Nat : k < Power(b, k)}
<1>1. 0 \in S
  BY PowerSteps
<1>2. ASSUME NEW k \in Nat, k \in S PROVE k + 1 \in S
  <2> DEFINE x == Power(b, k)
  <2>1. Power(b, k + 1) = b * x /\ k < x
    BY <1>2, PowerSteps
  <2>2. x \in Nat
    BY PowerIsPositive
  <2> HIDE DEF x
  <2>3. b * x >= 2 * x
    BY <2>2
  <2>4. b * x \in Nat
    BY <2>2
  <2>5. k + 1 < b * x
    BY <2>1, <2>2, <2>3, <2>4
  <2> QED
    BY <2>1, <2>5
<1> HIDE DEF S
<1>3. n \in S
  BY <1>1, <1>2, Induct
<1> QED
  BY <1>3 DEF S

LEMMA PowersAreOrdered ==
  ASSUME NEW b \in Nat \ {0}, NEW m \in Nat, NEW n \in Nat, m <= n
  PROVE  Power(b, m) <= Power(b, n)
<1> DEFINE S == {k \in Nat : Power(b, m) <= Power(b, m + k)}
<1>1. 0 \in S
  <2>1. m + 0 = m /\ Power(b, m) \in Nat
    BY PowerIsPositive
  <2> QED
    BY <2>1
<1>2. ASSUME NEW k \in Nat, k \in S PROVE k + 1 \in S
  <2> DEFINE x == Power(b, m + k)
             y == Power(b, m)
  <2>1. m + k \in Nat /\ m + (k + 1) = (m + k) + 1
    OBVIOUS
  <2>2. Power(b, m + (k + 1)) = b * x /\ y <= x
    BY <1>2, <2>1, PowerSteps
  <2>3. x \in Nat /\ y \in Nat
    BY <2>1, PowerIsPositive
  <2> HIDE DEF x, y
  <2>4. b * x >= x /\ b * x \in Nat
    BY <2>3
  <2>5. y <= b * x
    BY <2>2, <2>3, <2>4
  <2> QED
    BY <2>2, <2>5 DEF y
<1> HIDE DEF S
<1>3. n - m \in Nat /\ m + (n - m) = n
  OBVIOUS
<1>4. n - m \in S
  BY <1>1, <1>2, <1>3, Induct
<1> QED
  BY <1>3, <1>4 DEF S

\* x counts up to value along digits.
CountsUp(digits, value, x) ==
  /\ x[0] = 0 /\ x[Len(digits)] = value
  /\ \A i \in 1 .. Len(digits) : /\ digits[i] \in 0 .. Radix - 1
                                 /\ x[i - 1] \in Nat
                                 /\ x[i] = x[i - 1] * Radix + digits[i]

LEMMA DigitsCountUp ==
  ASSUME NEW value \in Nat
  PROVE  Len(Digits(value)) \in Nat \ {0} /\ \E x : CountsUp(Digits(value), value, x)
<1> DEFINE Enough(n) == /\ value < Power(Radix, n)
                        /\ n = 1 \/ value >= Power(Radix, n - 1)
           size == CHOOSE n \in 1 .. value + 1 : Enough(n)
           digits == Digits(value)
<1>0. \A n \in Nat : Power(Radix, n) \in Nat \ {0}
  BY RadixIsNat, PowerIsPositive
<1>1. \E n \in 1 .. value + 1 : Enough(n)
  <2> DEFINE T == {n \in Nat : n >= 1 /\ value < Power(Radix, n)}
  <2>1. value + 1 \in T
    <3> DEFINE v == value + 1
    <3>1. v \in Nat /\ v >= 1 /\ value < v
      OBVIOUS
    <3> HIDE DEF v
    <3>2. v < Power(Radix, v)
      BY <3>1, RadixIsNat, PowerGrows
    <3>3. value < Power(Radix, v)
      BY <1>0, <3>1, <3>2
    <3> QED
      BY <3>1, <3>3 DEF v
  <2>2. PICK n \in T : \A m \in T : n <= m
    <3>1. T \in SUBSET Nat /\ T # {}
      BY <2>1
    <3> HIDE DEF T
    <3> QED
      BY <3>1, LeastNatural
  <2>3. n \in Nat /\ n >= 1 /\ value < Power(Radix, n) /\ n <= value + 1
    BY <2>1, <2>2
  <2>4. n = 1 \/ value >= Power(Radix, n - 1)
    <3> SUFFICES ASSUME n # 1 PROVE value >= Power(Radix, n - 1)
      OBVIOUS
    <3>1. n - 1 \in Nat /\ n - 1 >= 1 /\ ~(n <= n - 1)
      BY <2>3
    <3>2. ~(value < Power(Radix, n - 1))
      BY <2>2, <3>1
    <3> QED
      BY <1>0, <3>1, <3>2
  <2>5. n \in 1 .. value + 1
    BY <2>3
  <2> QED
    BY <2>3, <2>4, <2>5
<1>2. size \in 1 .. value + 1 /\ value < Power(Radix, size)
  BY <1>1
<1>3. digits = [i \in 1 .. size |-> (value \div Power(Radix, size - i)) % Radix]
  BY DEF Digits
<1> HIDE DEF size, digits
<1>4. size \in Nat \ {0}
  BY <1>2
<1> DEFINE x == [i \in 0 .. size |-> value \div Power(Radix, size - i)]
<1>5. ASSUME NEW i \in 1 .. size
      PROVE  /\ (value \div Power(Radix, size - i)) % Radix \in 0 .. Radix - 1
             /\ x[i - 1] \in Nat
             /\ x[i] = x[i - 1] * Radix + ((value \div Power(Radix, size - i)) % Radix)
  <2> DEFINE w == Power(Radix, size - i)
             q == value \div w
  <2>1. size - i \in Nat /\ size - (i - 1) = (size - i) + 1 /\ i - 1 \in 0 .. size /\ i \in 0 .. size
    BY <1>4
  <2>2. w \in Nat \ {0} /\ Power(Radix, size - (i - 1)) = Radix * w
    BY <1>0, <2>1, PowerSteps
  <2>3. x[i] = q /\ x[i - 1] = value \div (Radix * w)
    BY <2>1, <2>2
  <2> HIDE DEF w, x
  <2>4. q \in Nat /\ q \div Radix = value \div (Radix * w)
    BY <2>2, RadixIsNat, DivideTwice, DivideAndBack
  <2> HIDE DEF q
  <2>5. /\ (q \div Radix) * Radix + (q % Radix) = q
        /\ q \div Radix \in Nat /\ q % Radix \in 0 .. Radix - 1
    BY <2>4, RadixIsNat, DivideAndBack
  <2> QED
    BY <2>3, <2>4, <2>5 DEF q, w
<1>6. x[0] = 0
  <2> DEFINE w == Power(Radix, size)
  <2>1. w \in Nat \ {0} /\ value < w
    BY <1>0, <1>2, <1>4
  <2>2. size - 0 = size /\ 0 \in 0 .. size
    BY <1>4
  <2>3. x[0] = value \div w
    BY <2>2
  <2> HIDE DEF w, x
  <2>4. value \div w = 0
    BY <2>1
  <2> QED
    BY <2>3, <2>4
<1>7. x[size] = value
  <2>1. size - size = 0 /\ size \in 0 .. size
    BY <1>4
  <2>2. x[size] = value \div 1
    BY <2>1, PowerSteps
  <2>3. value \div 1 = value
    OBVIOUS
  <2> QED
    BY <2>2, <2>3
<1> HIDE DEF x
<1>8. Len(digits) = size
  BY <1>3, <1>4
<1>9. \A i \in 1 .. size : digits[i] = (value \div Power(Radix, size - i)) % Radix
  BY <1>3
<1>10. CountsUp(digits, value, x)
  BY <1>5, <1>6, <1>7, <1>8, <1>9 DEF CountsUp
<1> QED
  BY <1>4, <1>8, <1>10 DEF digits

\* The value of bytes followed by others.
LEMMA ValueConcat ==
  ASSUME NEW a \in Seq(Byte), NEW b \in Seq(Byte)
  PROVE  Value(a \o b) = Value(a) * Power(Base, Len(b)) + Value(b)
<1> DEFINE la == Len(a)
           lb == Len(b)
           ab == a \o b
<1>1. la \in Nat /\ lb \in Nat /\ Joins(Byte)
  BY LenProperties, Joined
<1>2. /\ Len(ab) = la + lb
      /\ \A i \in 1 .. la : ab[i] = a[i]
      /\ \A i \in 1 .. lb : ab[la + i] = b[i]
  BY <1>1 DEF Joins
<1>3. /\ \A i \in 1 .. la : a[i] \in Nat
      /\ \A i \in 1 .. lb : b[i] \in Nat
  BY BaseIsNat, ElementOfSeq DEF Byte
<1> HIDE DEF la, lb, ab
<1>4. PICK f : /\ f[0] = 0
               /\ \A i \in 1 .. la : f[i] = f[i - 1] * Base + a[i]
               /\ Value(a) = f[la]
  BY <1>1, ValueIsLast DEF la
<1>5. PICK g : /\ g[0] = 0
               /\ \A i \in 1 .. lb : g[i] = g[i - 1] * Base + b[i]
               /\ Value(b) = g[lb]
  BY <1>1, ValueIsLast DEF lb
<1>6. PICK h : /\ h[0] = 0
               /\ \A i \in 1 .. la + lb : h[i] = h[i - 1] * Base + ab[i]
               /\ Value(ab) = h[la + lb]
  <2>1. Len(ab) \in Nat
    BY <1>1, <1>2
  <2>2. \E h : /\ h[0] = 0
               /\ \A i \in 1 .. Len(ab) : h[i] = h[i - 1] * Base + ab[i]
               /\ Value(ab) = h[Len(ab)]
    BY <2>1, ValueIsLast
  <2> QED
    BY <1>2, <2>2
<1> DEFINE S == {k \in Nat : k <= la => h[k] = f[k]}
<1>7. 0 \in S
  BY <1>4, <1>6
<1>8. ASSUME NEW k \in Nat, k \in S PROVE k + 1 \in S
  <2> SUFFICES ASSUME k + 1 <= la PROVE h[k + 1] = f[k + 1]
    OBVIOUS
  <2>1. k <= la /\ k + 1 \in 1 .. la /\ k + 1 \in 1 .. la + lb /\ (k + 1) - 1 = k
    BY <1>1
  <2>2. h[k] = f[k]
    BY <1>8, <2>1
  <2>3. h[k + 1] = h[k] * Base + ab[k + 1] /\ f[k + 1] = f[k] * Base + a[k + 1]
    BY <1>4, <1>6, <2>1
  <2> QED
    BY <1>2, <2>1, <2>2, <2>3
<1> HIDE DEF S
<1>9. la \in S
  BY <1>1, <1>7, <1>8, Induct
<1>10. h[la] = f[la]
  BY <1>1, <1>9 DEF S
<1>11. f[la] \in Nat
  BY <1>4, WrittenOfValue
<1> DEFINE T == {k \in Nat : k <= lb => h[la + k] = f[la] * Power(Base, k) + g[k] /\ g[k] \in Nat}
<1>12. 0 \in T
  <2>1. la + 0 = la /\ f[la] * 1 + 0 = f[la]
    BY <1>1, <1>11
  <2>2. Power(Base, 0) = 1
    BY PowerSteps
  <2> QED
    BY <1>5, <1>10, <2>1, <2>2
<1>13. ASSUME NEW k \in Nat, k \in T PROVE k + 1 \in T
  <2> SUFFICES ASSUME k + 1 <= lb
               PROVE  h[la + (k + 1)] = f[la] * Power(Base, k + 1) + g[k + 1] /\ g[k + 1] \in Nat
    OBVIOUS
  <2>1. /\ k <= lb /\ k + 1 \in 1 .. lb /\ la + (k + 1) \in 1 .. la + lb
        /\ (k + 1) - 1 = k /\ (la + (k + 1)) - 1 = la + k
    BY <1>1
  <2> DEFINE w == Power(Base, k)
             x == f[la]
             y == g[k]
             z == b[k + 1]
  <2>2. h[la + k] = x * w + y /\ y \in Nat
    BY <1>13, <2>1
  <2>3. g[k + 1] = y * Base + z
    BY <1>5, <2>1
  <2>4. h[la + (k + 1)] = h[la + k] * Base + z
    BY <1>2, <1>6, <2>1
  <2>5. Power(Base, k + 1) = Base * w
    BY PowerSteps
  <2>6. w \in Nat /\ x \in Nat /\ z \in Nat
    BY <1>3, <1>11, <2>1, BaseIsNat, PowerIsPositive
  <2> HIDE DEF w, x, y, z
  <2>7. y * Base + z \in Nat
    BY <2>2, <2>6, BaseIsNat
  <2>8. (x * w + y) * Base + z = x * (Base * w) + (y * Base + z)
    BY <2>2, <2>6, BaseIsNat
  <2> QED
    BY <2>2, <2>3, <2>4, <2>5, <2>7, <2>8 DEF x
<1> HIDE DEF T
<1>14. lb \in T
  BY <1>1, <1>12, <1>13, Induct
<1>15. h[la + lb] = f[la] * Power(Base, lb) + g[lb]
  BY <1>1, <1>14 DEF T
<1> QED
  BY <1>4, <1>5, <1>6, <1>15 DEF ab, lb

\* So many bytes hold so much, and a first byte other than 0 is not in vain.
LEMMA ValueBounds ==
  ASSUME NEW w \in Seq(Byte)
  PROVE  /\ Value(w) < Power(Base, Len(w))
         /\ Len(w) >= 1 /\ w[1] > 0 => Value(w) >= Power(Base, Len(w) - 1)
<1> DEFINE n == Len(w)
<1>1. n \in Nat /\ \A i \in 1 .. n : w[i] \in Nat /\ w[i] <= Base - 1
  BY BaseIsNat, LenProperties, ElementOfSeq DEF Byte
<1> HIDE DEF n
<1>2. PICK f : /\ f[0] = 0
               /\ \A i \in 1 .. n : f[i] = f[i - 1] * Base + w[i]
               /\ Value(w) = f[n]
  BY <1>1, ValueIsLast DEF n
<1>3. \A k \in Nat : Power(Base, k) \in Nat \ {0} /\ Power(Base, k + 1) = Base * Power(Base, k)
  BY BaseIsNat, PowerIsPositive, PowerSteps
<1> DEFINE S == {k \in Nat : k <= n => f[k] \in Nat /\ f[k] < Power(Base, k)}
<1>4. 0 \in S
  <2>1. Power(Base, 0) = 1 /\ 0 < 1
    BY PowerSteps
  <2> QED
    BY <1>2, <2>1
<1>5. ASSUME NEW k \in Nat, k \in S PROVE k + 1 \in S
  <2> SUFFICES ASSUME k + 1 <= n PROVE f[k + 1] \in Nat /\ f[k + 1] < Power(Base, k + 1)
    OBVIOUS
  <2>1. k <= n /\ k + 1 \in 1 .. n /\ (k + 1) - 1 = k
    BY <1>1
  <2> DEFINE x == f[k]
             y == Power(Base, k)
             z == w[k + 1]
  <2>2. x \in Nat /\ x < y
    BY <1>5, <2>1
  <2>3. f[k + 1] = x * Base + z /\ Power(Base, k + 1) = Base * y
    BY <1>2, <1>3, <2>1
  <2>4. z \in Nat /\ z <= Base - 1 /\ y \in Nat
    BY <1>1, <1>3, <2>1
  <2> HIDE DEF x, y, z
  <2>5. x * Base + z \in Nat
    BY <2>2, <2>4, BaseIsNat
  <2>6. x * Base + z < (x + 1) * Base
    BY <2>2, <2>4, BaseIsNat
  <2>7. (x + 1) * Base <= Base * y
    <3>1. \A u, v, b \in Nat : u <= v => u * b <= b * v
      OBVIOUS
    <3>2. x + 1 \in Nat /\ x + 1 <= y
      BY <2>2, <2>4
    <3> QED
      BY <2>4, <3>1, <3>2, BaseIsNat
  <2>8. (x + 1) * Base \in Nat /\ Base * y \in Nat
    BY <2>2, <2>4, BaseIsNat
  <2> QED
    BY <2>3, <2>5, <2>6, <2>7, <2>8
<1> HIDE DEF S
<1>6. ASSUME NEW k \in Nat PROVE k \in S
  BY <1>4, <1>5, Induct
<1>7. f[n] < Power(Base, n)
  BY <1>1, <1>6 DEF S
<1> DEFINE T == {k \in Nat : k + 1 <= n => f[k + 1] >= Power(Base, k)}
<1>8. ASSUME n >= 1, w[1] > 0 PROVE f[n] >= Power(Base, n - 1)
  <2>1. 0 \in T
    <3> SUFFICES ASSUME 1 <= n PROVE f[1] >= 1
      BY PowerSteps
    <3>1. 1 \in 1 .. n /\ 1 - 1 = 0 /\ 0 * Base = 0
      BY <1>1, BaseIsNat
    <3>2. f[1] = 0 * Base + w[1]
      BY <1>2, <3>1
    <3> QED
      BY <1>1, <1>8, <3>1, <3>2
  <2>2. ASSUME NEW k \in Nat, k \in T PROVE k + 1 \in T
    <3> SUFFICES ASSUME k + 2 <= n PROVE f[k + 2] >= Power(Base, k + 1)
      OBVIOUS
    <3>1. k + 1 <= n /\ k + 1 \in Nat /\ k + 2 \in 1 .. n /\ (k + 2) - 1 = k + 1
      BY <1>1
    <3> DEFINE x == f[k + 1]
               y == Power(Base, k)
               z == w[k + 2]
    <3>2. x >= y
      BY <2>2, <3>1
    <3>3. f[k + 2] = x * Base + z /\ Power(Base, k + 1) = Base * y
      BY <1>2, <1>3, <3>1
    <3>4. z \in Nat /\ y \in Nat /\ x \in Nat
      BY <1>1, <1>3, <1>6, <3>1 DEF S
    <3> HIDE DEF x, y, z
    <3>5. x * Base >= Base * y
      <4>1. \A u, v, b \in Nat : u <= v => v * b >= b * u
        OBVIOUS
      <4> QED
        BY <3>2, <3>4, <4>1, BaseIsNat
    <3>6. x * Base \in Nat /\ Base * y \in Nat
      BY <3>4, BaseIsNat
    <3> QED
      BY <3>3, <3>4, <3>5, <3>6
  <2> HIDE DEF T
  <2>3. n - 1 \in Nat /\ (n - 1) + 1 = n
    BY <1>1, <1>8
  <2>4. n - 1 \in T
    BY <2>1, <2>2, <2>3, Induct
  <2> QED
    BY <1>1, <2>3, <2>4 DEF T
<1> QED
  BY <1>2, <1>7, <1>8 DEF n

CarriesUp(out, digit, n, m, g) ==
  g = [j \in 0 .. m |-> IF j = 0 THEN digit
                        ELSE (out[n - j + 1] * Radix + g[j - 1]) \div Base]

Carries(out, digit, n, f) ==
  f = [i \in 0 .. n |-> IF i = n THEN digit ELSE (out[i + 1] * Radix + f[i + 1]) \div Base]

\* From the last byte to the first.
LEMMA CarriesUpExist ==
  ASSUME NEW out, NEW digit, NEW n \in Nat, NEW m \in 0 .. n
  PROVE  \E g : CarriesUp(out, digit, n, m, g)
<1> DEFINE S == {k \in Nat : \E g : CarriesUp(out, digit, n, k, g)}
<1>1. 0 \in S
  <2> DEFINE f == [i \in 0 .. 0 |-> digit]
  <2>1. CarriesUp(out, digit, n, 0, f)
    BY DEF CarriesUp
  <2> QED
    BY <2>1
<1>2. ASSUME NEW k \in Nat, k \in S PROVE k + 1 \in S
  <2>1. PICK f : CarriesUp(out, digit, n, k, f)
    BY <1>2
  <2>2. PICK g : Extended(0, k, f, (out[n - (k + 1) + 1] * Radix + f[k]) \div Base, g)
    BY Longer
  <2>3. ASSUME NEW i \in 0 .. k + 1
        PROVE  g[i] = IF i = 0 THEN digit ELSE (out[n - i + 1] * Radix + g[i - 1]) \div Base
    <3>1. CASE i \in 0 .. k
      <4>1. f[i] = IF i = 0 THEN digit ELSE (out[n - i + 1] * Radix + f[i - 1]) \div Base
        BY <2>1, <3>1 DEF CarriesUp
      <4>2. i # 0 => i - 1 \in 0 .. k
        BY <3>1
      <4> QED
        BY <2>2, <3>1, <4>1, <4>2 DEF Extended
    <3>2. CASE i \notin 0 .. k
      <4>1. i = k + 1 /\ i - 1 = k /\ i # 0 /\ k \in 0 .. k
        BY <3>2
      <4> QED
        BY <2>2, <4>1 DEF Extended
    <3> QED
      BY <3>1, <3>2
  <2>4. CarriesUp(out, digit, n, k + 1, g)
    BY <2>2, <2>3 DEF CarriesUp, Extended
  <2> QED
    BY <2>4
<1> HIDE DEF S
<1>3. m \in S
  BY <1>1, <1>2, Induct
<1> QED
  BY <1>3 DEF S

LEMMA CarriesExist ==
  ASSUME NEW out, NEW digit, NEW n \in Nat
  PROVE  \E f : Carries(out, digit, n, f)
<1>1. PICK g : CarriesUp(out, digit, n, n, g)
  <2>1. n \in 0 .. n
    OBVIOUS
  <2> QED
    BY <2>1, CarriesUpExist
<1> DEFINE f == [i \in 0 .. n |-> g[n - i]]
<1>2. ASSUME NEW i \in 0 .. n
      PROVE  f[i] = IF i = n THEN digit ELSE (out[i + 1] * Radix + f[i + 1]) \div Base
  <2>1. /\ n - i \in 0 .. n /\ n - (n - i) + 1 = i + 1 /\ (n - i = 0 <=> i = n)
        /\ (i # n => i + 1 \in 0 .. n /\ n - (i + 1) = (n - i) - 1)
    OBVIOUS
  <2>2. g[n - i] = IF n - i = 0 THEN digit
                   ELSE (out[n - (n - i) + 1] * Radix + g[(n - i) - 1]) \div Base
    BY <1>1, <2>1 DEF CarriesUp
  <2>3. f[i] = g[n - i] /\ (i # n => f[i + 1] = g[(n - i) - 1])
    BY <2>1
  <2> HIDE DEF f
  <2> QED
    BY <2>1, <2>2, <2>3
<1>3. f = [i \in 0 .. n |-> f[i]]
  OBVIOUS
<1> HIDE DEF f
<1>4. Carries(out, digit, n, f)
  BY <1>2, <1>3 DEF Carries
<1> QED
  BY <1>4

Shifted(out, n, carry) == [i \in 1 .. n |-> (out[i] * Radix + carry[i]) % Base]

LEMMA WithDigitSteps ==
  ASSUME NEW out, NEW digit, Len(out) \in Nat
  PROVE  \E carry : /\ carry[Len(out)] = digit
                    /\ \A i \in 1 .. Len(out) :
                         carry[i - 1] = (out[i] * Radix + carry[i]) \div Base
                    /\ WithDigit(out, digit) =
                         IF carry[0] > 0 THEN <<carry[0]>> \o Shifted(out, Len(out), carry)
                         ELSE Shifted(out, Len(out), carry)
<1> DEFINE n == Len(out)
           carry == CHOOSE f : Carries(out, digit, n, f)
<1>1. Carries(out, digit, n, carry)
  <2> HIDE DEF n
  <2>1. n \in Nat
    BY DEF n
  <2> QED
    BY <2>1, CarriesExist
<1>2. WithDigit(out, digit) = IF carry[0] > 0 THEN <<carry[0]>> \o Shifted(out, n, carry)
                              ELSE Shifted(out, n, carry)
  BY DEF WithDigit, Carries, Shifted
<1> HIDE DEF carry
<1>3. carry[n] = digit
  BY <1>1 DEF Carries
<1>4. ASSUME NEW i \in 1 .. n
      PROVE  carry[i - 1] = (out[i] * Radix + carry[i]) \div Base
  <2>1. i - 1 \in 0 .. n /\ i - 1 # n /\ (i - 1) + 1 = i
    OBVIOUS
  <2> QED
    BY <1>1, <2>1 DEF Carries
<1> QED
  BY <1>2, <1>3, <1>4

\* The shortest bytes that stand for a number.
Shortest(out, x) ==
  /\ out \in Seq(Byte) /\ Len(out) >= 1 /\ Value(out) = x
  /\ Len(out) = 1 \/ out[1] > 0

\* One more digit yields the shortest bytes again.
LEMMA WithDigitShortest ==
  ASSUME NEW out, NEW x, Shortest(out, x), NEW digit \in 0 .. Radix - 1
  PROVE  Shortest(WithDigit(out, digit), x * Radix + digit)
<1> DEFINE n == Len(out)
<1>1. n \in Nat /\ n >= 1 /\ out \in Seq(Byte) /\ \A i \in 1 .. n : out[i] \in Byte
  BY LenProperties, ElementOfSeq DEF Shortest
<1>2. PICK carry : /\ carry[n] = digit
                   /\ \A i \in 1 .. n : carry[i - 1] = (out[i] * Radix + carry[i]) \div Base
                   /\ WithDigit(out, digit) =
                        IF carry[0] > 0 THEN <<carry[0]>> \o Shifted(out, n, carry)
                        ELSE Shifted(out, n, carry)
  BY <1>1, WithDigitSteps
<1>3. PICK f : /\ f[0] = 0
               /\ \A i \in 1 .. n : f[i] = f[i - 1] * Base + out[i]
               /\ Value(out) = f[n]
  BY <1>1, ValueIsLast
<1>4. Value(out) = x /\ x \in Nat /\ (n = 1 \/ out[1] > 0)
  BY <1>1, WrittenOfValue DEF Shortest
<1> DEFINE r == Shifted(out, n, carry)
<1> HIDE DEF n
\* A carry is less than Radix.
<1>5. \A k \in 0 .. n : carry[k] \in 0 .. Radix - 1
  <2> DEFINE S == {j \in Nat : j <= n => carry[n - j] \in 0 .. Radix - 1}
  <2>1. 0 \in S
    <3>1. n - 0 = n
      BY <1>1
    <3> QED
      BY <1>2, <3>1
  <2>2. ASSUME NEW j \in Nat, j \in S PROVE j + 1 \in S
    <3> SUFFICES ASSUME j + 1 <= n PROVE carry[n - (j + 1)] \in 0 .. Radix - 1
      OBVIOUS
    <3>1. j <= n /\ n - j \in 1 .. n /\ (n - j) - 1 = n - (j + 1)
      BY <1>1
    <3> DEFINE c == carry[n - j]
               b == out[n - j]
               y == b * Radix + c
    <3>2. c \in 0 .. Radix - 1 /\ b \in 0 .. Base - 1
      BY <1>1, <2>2, <3>1 DEF Byte
    <3>3. carry[n - (j + 1)] = y \div Base
      BY <1>2, <3>1
    <3> HIDE DEF c, b
    <3>4. y \in Nat /\ y < Radix * Base
      <4>1. b * Radix <= (Base - 1) * Radix
        <5>1. \A u, v, w \in Nat : u <= v => u * w <= v * w
          OBVIOUS
        <5>2. b \in Nat /\ Base - 1 \in Nat /\ b <= Base - 1
          BY <3>2, BaseIsNat
        <5> QED
          BY <5>1, <5>2, RadixIsNat
      <4>2. (Base - 1) * Radix = Radix * Base - Radix
        BY RadixIsNat, BaseIsNat
      <4>3. b * Radix \in Nat /\ Radix * Base \in Nat /\ c \in Nat /\ c <= Radix - 1
        BY <3>2, RadixIsNat, BaseIsNat
      <4> DEFINE u == b * Radix
                 v == Radix * Base
                 t == (Base - 1) * Radix
      <4>4. u <= t /\ t = v - Radix /\ u \in Nat /\ v \in Nat /\ y = u + c
        BY <4>1, <4>2, <4>3
      <4> HIDE DEF u, v, t, y
      <4>5. y \in Nat /\ y < v
        BY <4>3, <4>4, RadixIsNat
      <4> QED
        BY <4>5 DEF v
    <3> HIDE DEF y
    <3>5. y \div Base \in Nat /\ (y \div Base) * Base <= y
      <4>1. (y \div Base) * Base + (y % Base) = y /\ y \div Base \in Nat /\ y % Base \in 0 .. Base - 1
        BY <3>4, BaseIsNat, DivideAndBack
      <4> DEFINE q == y \div Base
                 m == y % Base
      <4>2. q \in Nat /\ m \in Nat /\ q * Base + m = y
        BY <4>1, BaseIsNat
      <4> HIDE DEF q, m
      <4>3. q * Base \in Nat
        BY <4>2, BaseIsNat
      <4>4. q * Base <= y
        BY <4>2, <4>3
      <4> QED
        BY <4>2, <4>4 DEF q
    <3> DEFINE q == y \div Base
    <3>6. q \in Nat /\ q * Base < Radix * Base
      <4>1. q * Base <= y /\ q \in Nat
        BY <3>5
      <4> HIDE DEF q
      <4>2. q * Base \in Nat /\ Radix * Base \in Nat
        BY <4>1, RadixIsNat, BaseIsNat
      <4> QED
        BY <3>4, <4>1, <4>2
    <3> HIDE DEF q
    <3>7. q < Radix
      <4>1. \A u, v, w \in Nat : u <= v => u * w <= v * w
        OBVIOUS
      <4>2. ASSUME Radix <= q PROVE FALSE
        <5>1. Radix * Base <= q * Base
          BY <3>6, <4>1, <4>2, RadixIsNat, BaseIsNat
        <5>2. Radix * Base \in Nat /\ q * Base \in Nat
          BY <3>6, RadixIsNat, BaseIsNat
        <5> QED
          BY <3>6, <5>1, <5>2
      <4> QED
        BY <3>6, <4>2, RadixIsNat
    <3>8. q \in 0 .. Radix - 1
      BY <3>6, <3>7, RadixIsNat
    <3> QED
      BY <3>3, <3>8 DEF q
  <2> HIDE DEF S
  <2>3. ASSUME NEW k \in 0 .. n PROVE carry[k] \in 0 .. Radix - 1
    <3>1. n - k \in Nat /\ n - k <= n /\ n - (n - k) = k
      BY <1>1
    <3>2. n - k \in S
      BY <2>1, <2>2, <3>1, Induct
    <3> QED
      BY <3>1, <3>2 DEF S
  <2> QED
    BY <2>3
\* A byte and what it carries are what it was made from.
<1>6. ASSUME NEW i \in 1 .. n
      PROVE  /\ r[i] \in Byte
             /\ carry[i - 1] * Base + r[i] = out[i] * Radix + carry[i]
  <2> DEFINE y == out[i] * Radix + carry[i]
  <2>1. carry[i] \in Nat /\ out[i] \in Nat /\ i \in 0 .. n
    BY <1>1, <1>5, RadixIsNat, BaseIsNat DEF Byte
  <2>2. r[i] = (y % Base)
    BY DEF Shifted
  <2>3. carry[i - 1] = y \div Base
    BY <1>2
  <2>4. y \in Nat
    BY <2>1, RadixIsNat
  <2> HIDE DEF y, r
  <2>5. (y \div Base) * Base + (y % Base) = y /\ (y % Base) \in 0 .. Base - 1
    BY <2>4, BaseIsNat, DivideAndBack
  <2> QED
    BY <2>2, <2>3, <2>5 DEF y, Byte
<1>7. r \in Seq(Byte) /\ Len(r) = n
  <2>1. r \in [1 .. n -> Byte]
    <3>1. r = [i \in 1 .. n |-> r[i]]
      BY DEF Shifted
    <3> HIDE DEF r
    <3> QED
      BY <1>6, <3>1
  <2> HIDE DEF r
  <2>2. r \in Seq(Byte)
    BY <1>1, <2>1, FunctionIsSeq
  <2> QED
    BY <1>1, <2>1, <2>2, LenProperties
<1> HIDE DEF r
<1>8. PICK g : /\ g[0] = 0
               /\ \A i \in 1 .. n : g[i] = g[i - 1] * Base + r[i]
               /\ Value(r) = g[n]
  BY <1>1, <1>7, ValueIsLast
<1> DEFINE T == {k \in Nat : k <= n => /\ f[k] \in Nat /\ g[k] \in Nat
                                       /\ f[k] * Radix + carry[k] = carry[0] * Power(Base, k) + g[k]}
<1>9. 0 \in T
  <2>1. 0 \in 0 .. n
    BY <1>1
  <2> DEFINE c == carry[0]
  <2>2. c \in Nat
    BY <1>5, <2>1, RadixIsNat
  <2>3. Power(Base, 0) = 1
    BY PowerSteps
  <2> HIDE DEF c
  <2>4. 0 * Radix + c = c * 1 + 0
    BY <2>2, RadixIsNat
  <2> QED
    BY <1>3, <1>8, <2>3, <2>4 DEF c
<1>10. ASSUME NEW k \in Nat, k \in T PROVE k + 1 \in T
  <2> SUFFICES ASSUME k + 1 <= n
               PROVE  /\ f[k + 1] \in Nat /\ g[k + 1] \in Nat
                      /\ f[k + 1] * Radix + carry[k + 1] =
                           carry[0] * Power(Base, k + 1) + g[k + 1]
    OBVIOUS
  <2>1. k <= n /\ k + 1 \in 1 .. n /\ k + 1 \in 0 .. n /\ k \in 0 .. n /\ 0 \in 0 .. n
        /\ (k + 1) - 1 = k
    BY <1>1
  <2> DEFINE a == f[k]
             b == out[k + 1]
             c == carry[k]
             d == carry[k + 1]
             h == carry[0]
             w == Power(Base, k)
             y == g[k]
             z == r[k + 1]
  <2>2. a \in Nat /\ y \in Nat /\ a * Radix + c = h * w + y
    BY <1>10, <2>1
  <2>3. f[k + 1] = a * Base + b /\ g[k + 1] = y * Base + z /\ Power(Base, k + 1) = Base * w
    BY <1>3, <1>8, <2>1, PowerSteps
  <2>4. c * Base + z = b * Radix + d
    BY <1>6, <2>1
  <2>5. b \in Nat /\ c \in Nat /\ d \in Nat /\ h \in Nat /\ z \in Nat /\ w \in Nat
    <3>1. b \in Nat /\ z \in Nat
      BY <1>1, <1>6, <2>1, BaseIsNat DEF Byte
    <3>2. c \in Nat /\ d \in Nat /\ h \in Nat
      BY <1>5, <2>1, RadixIsNat
    <3> QED
      BY <3>1, <3>2, BaseIsNat, PowerIsPositive
  <2> HIDE DEF a, b, c, d, h, w, y, z
  <2>6. a * Base + b \in Nat /\ y * Base + z \in Nat
    BY <2>2, <2>5, BaseIsNat
  <2>7. (a * Base + b) * Radix + d = h * (Base * w) + (y * Base + z)
    <3>1. (a * Base + b) * Radix + d = (a * Radix) * Base + (b * Radix + d)
      BY <2>2, <2>5, BaseIsNat, RadixIsNat
    <3>2. (a * Radix) * Base + (c * Base + z) = (a * Radix + c) * Base + z
      BY <2>2, <2>5, BaseIsNat, RadixIsNat
    <3>3. (h * w + y) * Base + z = h * (Base * w) + (y * Base + z)
      BY <2>2, <2>5, BaseIsNat
    <3> QED
      BY <2>2, <2>4, <3>1, <3>2, <3>3
  <2> QED
    BY <2>3, <2>6, <2>7 DEF d, h
<1> HIDE DEF T
<1>11. x * Radix + digit = carry[0] * Power(Base, n) + Value(r)
  <2>1. n \in T
    BY <1>1, <1>9, <1>10, Induct
  <2>2. f[n] * Radix + carry[n] = carry[0] * Power(Base, n) + g[n]
    BY <1>1, <2>1 DEF T
  <2> QED
    BY <1>2, <1>3, <1>4, <1>8, <2>2
<1>12. 0 \in 0 .. n /\ 1 \in 1 .. n /\ 1 \in 0 .. n /\ 1 - 1 = 0
  BY <1>1
<1>13. carry[0] \in Nat /\ carry[0] \in Byte
  <2>1. carry[0] \in 0 .. Radix - 1
    BY <1>5, <1>12
  <2> QED
    BY <2>1, RadixIsNat, BaseIsNat DEF Byte
<1>14. Power(Base, n) \in Nat /\ Value(r) \in Nat
  BY <1>1, <1>7, BaseIsNat, PowerIsPositive, WrittenOfValue
<1>15. CASE carry[0] > 0
  <2> DEFINE c == carry[0]
             one == <<c>>
             all == one \o r
  <2>1. c \in Byte /\ c \in Nat /\ c > 0
    BY <1>13, <1>15
  <2> HIDE DEF c
  <2>2. one \in Seq(Byte) /\ Len(one) = 1 /\ one[1] = c
    BY <2>1
  <2>3. Value(one) = c
    <3> HIDE DEF one
    <3>1. SubSeq(one, 1, Len(one)) = one
      BY <2>2, SubSeqFull
    <3>2. 1 \in 1 .. Len(one)
      BY <2>2
    <3>3. Value(SubSeq(one, 1, 1)) = one[1]
      BY <2>2, <3>2, ValueOfOne
    <3> QED
      BY <2>2, <3>1, <3>3
  <2> HIDE DEF one
  <2>4. all \in Seq(Byte) /\ Len(all) = 1 + n /\ all[1] = c
    <3>1. Joins(Byte)
      BY Joined
    <3>2. /\ one \o r \in Seq(Byte)
          /\ Len(one \o r) = Len(one) + Len(r)
          /\ \A i \in 1 .. Len(one) : (one \o r)[i] = one[i]
      BY <1>7, <2>2, <3>1 DEF Joins
    <3>3. 1 \in 1 .. Len(one)
      BY <2>2
    <3> QED
      BY <1>7, <2>2, <3>2, <3>3
  <2>5. Value(all) = c * Power(Base, n) + Value(r)
    BY <1>7, <2>2, <2>3, ValueConcat
  <2>6. WithDigit(out, digit) = all
    BY <1>2, <1>15 DEF r, one, c
  <2>7. Len(all) >= 1
    BY <1>1, <2>4
  <2> HIDE DEF all
  <2> QED
    BY <1>11, <2>1, <2>4, <2>5, <2>6, <2>7 DEF Shortest, c
<1>16. CASE ~(carry[0] > 0)
  <2>1. carry[0] = 0
    BY <1>13, <1>16
  <2>2. WithDigit(out, digit) = r
    BY <1>2, <1>16 DEF r
  <2>3. Value(r) = x * Radix + digit
    <3>1. 0 * Power(Base, n) + Value(r) = Value(r)
      BY <1>14
    <3> QED
      BY <1>11, <2>1, <3>1
  <2>4. n = 1 \/ r[1] > 0
    <3> SUFFICES ASSUME out[1] > 0 PROVE r[1] > 0
      BY <1>4
    <3> DEFINE b == out[1]
               c == carry[1]
               z == r[1]
    <3>1. 0 * Base + z = b * Radix + c
      BY <1>6, <1>12, <2>1
    <3>2. b \in Nat /\ b > 0 /\ c \in Nat /\ z \in Nat
      BY <1>1, <1>5, <1>6, <1>12, BaseIsNat, RadixIsNat DEF Byte
    <3> HIDE DEF b, c, z
    <3>3. b * Radix \in Nat /\ b * Radix > 0
      BY <3>2, RadixIsNat
    <3>4. z = b * Radix + c
      BY <3>1, <3>2, BaseIsNat
    <3>5. z > 0
      BY <3>2, <3>3, <3>4
    <3> QED
      BY <3>5 DEF z
  <2> QED
    BY <1>1, <1>7, <2>2, <2>3, <2>4 DEF Shortest
<1> QED
  BY <1>15, <1>16

LEMMA BytesAreNotRefused ==
  ASSUME NEW w \in Seq(Byte)
  PROVE  w # Refused
<1> DEFINE n == Len(w)
<1>1. n \in Nat /\ w \in [1 .. n -> Byte]
  BY LenProperties
<1> HIDE DEF n
<1>2. w \in [1 .. n -> Nat]
  BY <1>1, BaseIsNat DEF Byte
<1>3. w \in Seq(Nat)
  BY <1>1, <1>2, FunctionIsSeq
<1> QED
  BY <1>3, PackedCodecAssumption

OneMore(o, digit, bytes) ==
  IF o = Refused THEN Refused
  ELSE LET next == WithDigit(o, digit) IN IF Len(next) > bytes THEN Refused ELSE next

Outs(digits, bytes, n, f) ==
  f = [i \in 0 .. n |-> IF i = 0 THEN <<0>> ELSE OneMore(f[i - 1], digits[i], bytes)]

LEMMA OutsExist ==
  ASSUME NEW digits, NEW bytes, NEW n \in Nat
  PROVE  \E f : Outs(digits, bytes, n, f)
<1> DEFINE S == {k \in Nat : \E f : Outs(digits, bytes, k, f)}
<1>1. 0 \in S
  <2> DEFINE f == [i \in 0 .. 0 |-> <<0>>]
  <2>1. f = [i \in 0 .. 0 |-> IF i = 0 THEN <<0>> ELSE OneMore(f[i - 1], digits[i], bytes)]
    OBVIOUS
  <2> QED
    BY <2>1 DEF Outs
<1>2. ASSUME NEW k \in Nat, k \in S PROVE k + 1 \in S
  <2>1. PICK f : Outs(digits, bytes, k, f)
    BY <1>2
  <2>2. PICK g : Extended(0, k, f, OneMore(f[k], digits[k + 1], bytes), g)
    BY Longer
  <2>3. ASSUME NEW m \in 0 .. k + 1
        PROVE  g[m] = IF m = 0 THEN <<0>> ELSE OneMore(g[m - 1], digits[m], bytes)
    <3>1. CASE m \in 0 .. k
      <4>1. f[m] = IF m = 0 THEN <<0>> ELSE OneMore(f[m - 1], digits[m], bytes)
        BY <2>1, <3>1 DEF Outs
      <4>2. m # 0 => m - 1 \in 0 .. k
        BY <3>1
      <4> QED
        BY <2>2, <3>1, <4>1, <4>2 DEF Extended
    <3>2. CASE m \notin 0 .. k
      <4>1. m = k + 1 /\ m - 1 = k /\ m # 0 /\ k \in 0 .. k
        BY <3>2
      <4> QED
        BY <2>2, <4>1 DEF Extended
    <3> QED
      BY <3>1, <3>2
  <2>4. Outs(digits, bytes, k + 1, g)
    BY <2>2, <2>3 DEF Outs, Extended
  <2> QED
    BY <2>4
<1> HIDE DEF S
<1>3. n \in S
  BY <1>1, <1>2, Induct
<1> QED
  BY <1>3 DEF S

LEMMA DecimalSteps ==
  ASSUME NEW digits, Len(digits) \in Nat, NEW bytes
  PROVE  \E f : /\ f[0] = <<0>>
                /\ \A i \in 1 .. Len(digits) : f[i] = OneMore(f[i - 1], digits[i], bytes)
                /\ decimal_to_be_bytes(digits, bytes) = f[Len(digits)]
<1> DEFINE n == Len(digits)
           out == CHOOSE f : Outs(digits, bytes, n, f)
<1>1. Outs(digits, bytes, n, out)
  <2> HIDE DEF n
  <2>1. n \in Nat
    BY DEF n
  <2> QED
    BY <2>1, OutsExist
<1>2. decimal_to_be_bytes(digits, bytes) = out[n]
  BY DEF decimal_to_be_bytes, Outs, OneMore
<1> HIDE DEF out
<1>3. out[0] = <<0>>
  BY <1>1 DEF Outs
<1>4. ASSUME NEW i \in 1 .. n PROVE out[i] = OneMore(out[i - 1], digits[i], bytes)
  <2>1. i \in 0 .. n /\ i # 0
    OBVIOUS
  <2> QED
    BY <1>1, <2>1 DEF Outs
<1> QED
  BY <1>2, <1>3, <1>4

\* What has been converted after some digits: shortest, or too long.
Converted(o, x, bytes) ==
  /\ x \in Nat
  /\ \/ o = Refused /\ x >= Power(Base, bytes)
     \/ o # Refused /\ Shortest(o, x) /\ Len(o) <= bytes

LEMMA ConvertsOneMore ==
  ASSUME NEW bytes \in Nat \ {0}, NEW o, NEW x, Converted(o, x, bytes),
         NEW digit \in 0 .. Radix - 1
  PROVE  Converted(OneMore(o, digit, bytes), x * Radix + digit, bytes)
<1> DEFINE y == x * Radix + digit
           top == Power(Base, bytes)
           next == WithDigit(o, digit)
<1>1. x \in Nat /\ digit \in Nat /\ top \in Nat
  BY RadixIsNat, BaseIsNat, PowerIsPositive DEF Converted
<1>2. y \in Nat /\ y >= x
  <2>1. x * Radix \in Nat /\ x * Radix >= x
    <3>1. \A u, v \in Nat : v >= 1 => u * v >= u /\ u * v \in Nat
      OBVIOUS
    <3> QED
      BY <1>1, <3>1, RadixIsNat
  <2> QED
    BY <1>1, <2>1
<1> HIDE DEF y, top
<1>3. CASE o = Refused
  <2>1. x >= top
    BY <1>3 DEF Converted, top
  <2>2. y >= top
    BY <1>1, <1>2, <2>1
  <2>3. OneMore(o, digit, bytes) = Refused
    BY <1>3 DEF OneMore
  <2> QED
    BY <1>2, <2>2, <2>3 DEF Converted, y, top
<1>4. CASE o # Refused
  <2>1. Shortest(next, y)
    BY <1>4, WithDigitShortest DEF Converted, y
  <2>2. OneMore(o, digit, bytes) = IF Len(next) > bytes THEN Refused ELSE next
    BY <1>4 DEF OneMore
  <2> HIDE DEF next
  <2>3. next \in Seq(Byte) /\ Len(next) \in Nat /\ Value(next) = y /\ next # Refused
        /\ (Len(next) = 1 \/ next[1] > 0) /\ Len(next) >= 1
    BY <2>1, LenProperties, BytesAreNotRefused DEF Shortest
  <2>4. CASE Len(next) > bytes
    <3>1. Len(next) # 1 /\ bytes <= Len(next) - 1 /\ Len(next) - 1 \in Nat
      BY <2>3, <2>4
    <3>2. y >= Power(Base, Len(next) - 1)
      BY <2>3, <3>1, ValueBounds
    <3>3. top <= Power(Base, Len(next) - 1) /\ Power(Base, Len(next) - 1) \in Nat
      BY <3>1, BaseIsNat, PowersAreOrdered, PowerIsPositive DEF top
    <3>4. y >= top
      BY <1>1, <1>2, <3>2, <3>3
    <3> QED
      BY <1>2, <2>2, <2>4, <3>4 DEF Converted, y, top
  <2>5. CASE ~(Len(next) > bytes)
    <3>1. Len(next) <= bytes
      BY <2>3, <2>5
    <3> QED
      BY <1>2, <2>1, <2>2, <2>3, <2>5, <3>1 DEF Converted, y
  <2> QED
    BY <2>4, <2>5
<1> QED
  BY <1>3, <1>4

LEMMA DecimalConverts ==
  ASSUME NEW value \in Nat, NEW bytes \in Nat \ {0}
  PROVE  Converted(decimal_to_be_bytes(Digits(value), bytes), value, bytes)
<1> DEFINE digits == Digits(value)
           n == Len(digits)
<1>1. n \in Nat /\ \E x : CountsUp(digits, value, x)
  BY DigitsCountUp
<1>2. PICK x : CountsUp(digits, value, x)
  BY <1>1
<1> HIDE DEF digits
<1>3. /\ x[0] = 0 /\ x[n] = value
      /\ \A i \in 1 .. n : /\ digits[i] \in 0 .. Radix - 1
                           /\ x[i] = x[i - 1] * Radix + digits[i]
  BY <1>2 DEF CountsUp
<1>4. PICK f : /\ f[0] = <<0>>
               /\ \A i \in 1 .. n : f[i] = OneMore(f[i - 1], digits[i], bytes)
               /\ decimal_to_be_bytes(digits, bytes) = f[n]
  BY <1>1, DecimalSteps
<1> HIDE DEF n
<1> DEFINE S == {k \in Nat : k <= n => Converted(f[k], x[k], bytes)}
<1>5. 0 \in S
  <2> DEFINE z == <<0>>
  <2>1. z \in Seq(Byte) /\ Len(z) = 1 /\ z[1] = 0
    <3>1. 0 \in Byte
      BY BaseIsNat DEF Byte
    <3> QED
      BY <3>1
  <2> HIDE DEF z
  <2>2. Value(z) = 0
    <3>1. SubSeq(z, 1, Len(z)) = z
      BY <2>1, SubSeqFull
    <3>2. 1 \in 1 .. Len(z)
      BY <2>1
    <3>3. Value(SubSeq(z, 1, 1)) = z[1]
      BY <2>1, <3>2, ValueOfOne
    <3> QED
      BY <2>1, <3>1, <3>3
  <2>3. Converted(z, 0, bytes)
    BY <2>1, <2>2, BytesAreNotRefused DEF Converted, Shortest
  <2> QED
    BY <1>3, <1>4, <2>3 DEF z
<1>6. ASSUME NEW k \in Nat, k \in S PROVE k + 1 \in S
  <2> SUFFICES ASSUME k + 1 <= n PROVE Converted(f[k + 1], x[k + 1], bytes)
    OBVIOUS
  <2>1. k <= n /\ k + 1 \in 1 .. n /\ (k + 1) - 1 = k
    BY <1>1
  <2>2. Converted(f[k], x[k], bytes)
    BY <1>6, <2>1
  <2> HIDE DEF S
  <2>3. /\ digits[k + 1] \in 0 .. Radix - 1
        /\ x[k + 1] = x[k] * Radix + digits[k + 1]
        /\ f[k + 1] = OneMore(f[k], digits[k + 1], bytes)
    BY <1>3, <1>4, <2>1
  <2> QED
    BY <2>2, <2>3, ConvertsOneMore
<1> HIDE DEF S
<1>7. n \in S
  BY <1>1, <1>5, <1>6, Induct
<1>8. Converted(f[n], value, bytes)
  BY <1>1, <1>3, <1>7 DEF S
<1> QED
  BY <1>4, <1>8 DEF digits

\* Digit by digit the same bytes are found, if there are as many.
LEMMA ParsedIsWritten ==
  ASSUME NEW value \in Nat, NEW bytes \in Nat \ {0}
  PROVE  parse_uint(value, bytes) = IF value < Power(Base, bytes) THEN _u(value, bytes)
                                    ELSE Refused
<1> DEFINE decoded == decimal_to_be_bytes(Digits(value), bytes)
           n == Len(decoded)
           zeros == [i \in 1 .. bytes - n |-> 0]
           whole == zeros \o decoded
<1>1. Converted(decoded, value, bytes)
  BY DecimalConverts
<1>2. parse_uint(value, bytes) = IF decoded = Refused THEN Refused ELSE whole
  BY DEF parse_uint
<1>3. \A k \in Nat : Power(Base, k) \in Nat
  BY BaseIsNat, PowerIsPositive
<1> HIDE DEF decoded
<1>4. CASE decoded = Refused
  <2>1. value >= Power(Base, bytes)
    BY <1>1, <1>4 DEF Converted
  <2>2. ~(value < Power(Base, bytes))
    BY <1>3, <2>1
  <2> QED
    BY <1>2, <1>4, <2>2
<1>5. CASE decoded # Refused
  <2>1. Shortest(decoded, value) /\ n <= bytes
    BY <1>1, <1>5 DEF Converted
  <2>2. decoded \in Seq(Byte) /\ n \in Nat /\ Value(decoded) = value
    BY <2>1, LenProperties DEF Shortest
  <2> HIDE DEF n
  <2>3. bytes - n \in Nat /\ bytes - n + n = bytes
    BY <2>1, <2>2
  <2>4. zeros \in Seq(Byte) /\ Len(zeros) = bytes - n
    <3>1. 0 \in Byte
      BY BaseIsNat DEF Byte
    <3>2. zeros \in [1 .. bytes - n -> Byte]
      BY <3>1
    <3> HIDE DEF zeros
    <3>3. zeros \in Seq(Byte)
      BY <2>3, <3>2, FunctionIsSeq
    <3> QED
      BY <2>3, <3>2, <3>3, LenProperties
  <2>5. Value(zeros) = 0
    <3> DEFINE k == bytes - n
    <3>1. k \in Nat
      BY <2>3
    <3>2. \A i \in 1 .. k : zeros[i] = 0
      OBVIOUS
    <3> HIDE DEF k, zeros
    <3>3. 0 < Power(Base, k)
      BY <3>1, BaseIsNat, PowerIsPositive
    <3>4. /\ _u(0, k) \in Seq(Byte) /\ Len(_u(0, k)) = k
          /\ \A i \in 1 .. k : _u(0, k)[i] = (0 \div Power(Base, k - i)) % Base
      BY <3>1, WrittenBytes
    <3>5. \A i \in 1 .. k : _u(0, k)[i] = 0
      <4> TAKE i \in 1 .. k
      <4>1. k - i \in Nat
        BY <3>1
      <4> DEFINE w == Power(Base, k - i)
      <4>2. w \in Nat \ {0}
        BY <4>1, BaseIsNat, PowerIsPositive
      <4>3. _u(0, k)[i] = (0 \div w) % Base
        BY <3>4
      <4> HIDE DEF w
      <4>4. 0 \div w = 0
        BY <4>2
      <4>5. 0 % Base = 0
        BY BaseIsNat
      <4> QED
        BY <4>3, <4>4, <4>5
    <3>6. zeros = _u(0, k)
      BY <2>4, <3>1, <3>2, <3>4, <3>5, SeqEqual DEF k
    <3>7. Value(_u(0, k)) = 0
      BY <3>1, <3>3, ValueOfWritten
    <3> QED
      BY <3>6, <3>7
  <2> HIDE DEF zeros
  <2>6. whole \in Seq(Byte) /\ Len(whole) = bytes
    <3>1. Joins(Byte)
      BY Joined
    <3>2. zeros \o decoded \in Seq(Byte) /\ Len(zeros \o decoded) = Len(zeros) + Len(decoded)
      BY <2>2, <2>4, <3>1 DEF Joins
    <3> QED
      BY <2>3, <2>4, <3>2 DEF n
  <2>7. Value(whole) = value
    <3>1. Value(whole) = Value(zeros) * Power(Base, n) + Value(decoded)
      BY <2>2, <2>4, ValueConcat DEF n
    <3>2. 0 * Power(Base, n) + value = value
      BY <1>3, <2>2
    <3> QED
      BY <2>2, <2>5, <3>1, <3>2
  <2> HIDE DEF whole
  <2>8. whole = _u(value, bytes)
    BY <2>6, <2>7, WrittenOfValue
  <2>9. value < Power(Base, bytes)
    BY <2>6, <2>7, ValueBounds
  <2> QED
    BY <1>2, <1>5, <2>8, <2>9
<1> QED
  BY <1>4, <1>5

-----------------------------------------------------------------------------
(* Both encoders write the same bytes (encode_batch, encode_packed_batch). *)

LEMMA WrittenMore ==
  ASSUME NEW a \in Seq(Entries), NEW f \in Entries
  PROVE  Written(Append(a, f)) = Written(a) \o _u(f[2], f[1])
<1> DEFINE one == <<f>>
<1>1. one \in Seq(Entries) /\ Append(a, f) = a \o one
  BY AppendIsConcat
<1>2. Written(one) = _u(f[2], f[1])
  BY WrittenOne
<1> HIDE DEF one
<1>3. Written(a \o one) = Written(a) \o Written(one)
  BY <1>1, WrittenTogether
<1> QED
  BY <1>1, <1>2, <1>3

Bytes(f) == _u(f[2], f[1])

LEMMA WrittenThree ==
  ASSUME NEW e1 \in Entries, NEW e2 \in Entries, NEW e3 \in Entries
  PROVE  Written(<<e1, e2, e3>>) = (Bytes(e1) \o Bytes(e2)) \o Bytes(e3)
<1>1. /\ <<e1>> \in Seq(Entries) /\ <<e1, e2>> \in Seq(Entries)
      /\ <<e1, e2>> = Append(<<e1>>, e2) /\ <<e1, e2, e3>> = Append(<<e1, e2>>, e3)
  OBVIOUS
<1>2. Written(<<e1>>) = Bytes(e1)
  BY WrittenOne DEF Bytes
<1>3. Written(Append(<<e1>>, e2)) = Written(<<e1>>) \o Bytes(e2)
  BY <1>1, WrittenMore DEF Bytes
<1>4. Written(Append(<<e1, e2>>, e3)) = Written(<<e1, e2>>) \o Bytes(e3)
  BY <1>1, WrittenMore DEF Bytes
<1> QED
  BY <1>1, <1>2, <1>3, <1>4

LEMMA OneByte ==
  ASSUME NEW b \in Byte
  PROVE  _u(b, 1) = <<b>>
<1> DEFINE w == _u(b, 1)
           one == <<b>>
<1>1. b \in Nat /\ b < Base /\ 1 \in Nat /\ 1 - 1 = 0 /\ 1 \in 1 .. 1
  BY BaseIsNat DEF Byte
<1>2. w \in Seq(Byte) /\ Len(w) = 1 /\ w[1] = (b \div Power(Base, 1 - 1)) % Base
  BY <1>1, WrittenBytes
<1>3. (b \div 1) % Base = b
  <2>1. b \div 1 = b
    BY <1>1
  <2>2. b % Base = b
    BY <1>1, BaseIsNat
  <2> QED
    BY <2>1, <2>2
<1>4. w[1] = b
  BY <1>1, <1>2, <1>3, PowerSteps
<1>5. one \in Seq(Byte) /\ Len(one) = 1 /\ one[1] = b
  OBVIOUS
<1> HIDE DEF w, one
<1>6. \A i \in 1 .. 1 : w[i] = one[i]
  BY <1>4, <1>5
<1>7. w = one
  BY <1>2, <1>5, <1>6, SeqEqual
<1> QED
  BY <1>7 DEF w, one

AllWritten(parts) == [i \in 1 .. Len(parts) |-> Written(parts[i])]

LEMMA AllWrittenAreBytes ==
  ASSUME NEW parts \in Seq(Seq(Entries))
  PROVE  AllWritten(parts) \in Seq(Seq(Byte)) /\ Len(AllWritten(parts)) = Len(parts)
<1> DEFINE n == Len(parts)
           w == AllWritten(parts)
<1>1. n \in Nat /\ \A i \in 1 .. n : parts[i] \in Seq(Entries)
  BY LenProperties, ElementOfSeq
<1>2. \A i \in 1 .. n : Written(parts[i]) \in Seq(Byte)
  BY <1>1, EmptySeq, WrittenTogether
<1>3. w = [i \in 1 .. n |-> Written(parts[i])]
  BY DEF AllWritten
<1> HIDE DEF n, w
<1>4. w \in [1 .. n -> Seq(Byte)]
  BY <1>2, <1>3
<1>5. w \in Seq(Seq(Byte))
  BY <1>1, <1>4, FunctionIsSeq
<1>6. Len(w) = n
  BY <1>1, <1>4, <1>5, LenProperties
<1> QED
  BY <1>5, <1>6 DEF n, w

\* Parts written one after the other are their fields written.
LEMMA WrittenFlattened ==
  ASSUME NEW parts \in Seq(Seq(Entries))
  PROVE  Written(FlattenSeq(parts)) = FlattenSeq(AllWritten(parts))
<1> DEFINE T == {k \in Nat : \A u \in Seq(Seq(Entries)) :
                   Len(u) = k => Written(FlattenSeq(u)) = FlattenSeq(AllWritten(u))}
<1>1. 0 \in T
  <2> SUFFICES ASSUME NEW u \in Seq(Seq(Entries)), Len(u) = 0
               PROVE  Written(FlattenSeq(u)) = FlattenSeq(AllWritten(u))
    OBVIOUS
  <2>1. u = <<>>
    BY EmptySeq
  <2>2. AllWritten(u) \in Seq(Seq(Byte)) /\ Len(AllWritten(u)) = 0
    BY AllWrittenAreBytes
  <2>3. AllWritten(u) = <<>>
    BY <2>2, EmptySeq
  <2> QED
    BY <2>1, <2>3, FlattenNothing, WrittenNothing
<1>2. ASSUME NEW k \in Nat, k \in T PROVE k + 1 \in T
  <2> SUFFICES ASSUME NEW u \in Seq(Seq(Entries)), Len(u) = k + 1
               PROVE  Written(FlattenSeq(u)) = FlattenSeq(AllWritten(u))
    OBVIOUS
  <2>1. u # <<>>
    BY EmptySeq
  <2>2. PICK w \in Seq(Seq(Entries)), x \in Seq(Entries) : u = Append(w, x)
    BY <2>1, SequenceEmptyOrAppend
  <2>3. /\ Len(u) = Len(w) + 1 /\ u[Len(w) + 1] = x
        /\ \A i \in 1 .. Len(w) : u[i] = w[i]
        /\ Len(w) \in Nat
    BY <2>2, AppendProperties, LenProperties
  <2>4. Len(w) = k
    BY <2>3
  <2>5. Written(FlattenSeq(w)) = FlattenSeq(AllWritten(w))
    BY <1>2, <2>4
  <2> HIDE DEF T
  <2>6. FlattenSeq(u) = FlattenSeq(w) \o x /\ FlattenSeq(w) \in Seq(Entries)
    BY <2>2, FlattenAppend
  <2>7. Written(FlattenSeq(u)) = Written(FlattenSeq(w)) \o Written(x) /\ Written(x) \in Seq(Byte)
    BY <2>6, EmptySeq, WrittenTogether
  <2> DEFINE a == AllWritten(u)
             b == Append(AllWritten(w), Written(x))
  <2>8. a \in Seq(Seq(Byte)) /\ Len(a) = k + 1
    BY <2>3, <2>4, AllWrittenAreBytes
  <2>9. AllWritten(w) \in Seq(Seq(Byte)) /\ Len(AllWritten(w)) = k
    BY <2>4, AllWrittenAreBytes
  <2>10. /\ b \in Seq(Seq(Byte)) /\ Len(b) = k + 1 /\ b[k + 1] = Written(x)
         /\ \A i \in 1 .. k : b[i] = AllWritten(w)[i]
    BY <2>7, <2>9, AppendProperties
  <2>11. \A i \in 1 .. k + 1 : a[i] = Written(u[i])
    BY <2>3, <2>4 DEF AllWritten
  <2>12. \A i \in 1 .. k : AllWritten(w)[i] = Written(w[i])
    BY <2>4 DEF AllWritten
  <2> HIDE DEF a, b
  <2>13. \A i \in 1 .. k + 1 : a[i] = b[i]
    <3> TAKE i \in 1 .. k + 1
    <3>1. CASE i = k + 1
      BY <2>3, <2>4, <2>10, <2>11, <3>1
    <3>2. CASE i # k + 1
      <4>1. i \in 1 .. k
        BY <3>2
      <4> QED
        BY <2>3, <2>4, <2>10, <2>11, <2>12, <4>1
    <3> QED
      BY <3>1, <3>2
  <2>14. a = b
    BY <2>8, <2>10, <2>13, SeqEqual
  <2>15. FlattenSeq(b) = FlattenSeq(AllWritten(w)) \o Written(x)
    BY <2>7, <2>9, FlattenAppend DEF b
  <2> QED
    BY <2>5, <2>7, <2>14, <2>15 DEF a
<1> HIDE DEF T
<1>3. Len(parts) \in T
  BY <1>1, <1>2, Induct, LenProperties
<1> QED
  BY <1>3 DEF T

\* What a request carries: addresses and ids as so many bytes, blocks as u64,
\* amounts as the digits of any number, the data of a leg as so many bytes.
RequestLegs ==
  [adapter : Within(Address), token_in : Within(Address), token_out : Within(Address),
   min_out : Nat, data : {d \in Nat \X Nat : d[2] \in Within(d[1])}]
RequestCandidates ==
  [candidate_id : Within(Word), min_profit : Nat, legs : Seq(RequestLegs)]
Requests ==
  [asset : Within(Address), amount : Nat, target_block : Within(Block),
   deadline : Within(Block), candidates : Seq(RequestCandidates)]

LEMMA WithinAreNat ==
  ASSUME NEW bytes \in Nat
  PROVE  Within(bytes) \subseteq Nat
<1>1. Power(Base, bytes) \in Nat
  BY BaseIsNat, PowerIsPositive
<1> QED
  BY <1>1 DEF Within

LEMMA RequestsAreShaped ==
  /\ RequestLegs \subseteq LegShape
  /\ RequestCandidates \subseteq CandidateShape
  /\ Requests \subseteq BatchShape
<1>1. Within(Address) \subseteq Nat /\ Within(Word) \subseteq Nat /\ Within(Block) \subseteq Nat
  BY WidthsAreNat, WithinAreNat
<1>2. RequestLegs \subseteq LegShape
  BY <1>1 DEF RequestLegs, LegShape
<1>3. \A S, T : S \subseteq T => Seq(S) \subseteq Seq(T)
  <2> TAKE S, T
  <2> SUFFICES ASSUME S \subseteq T, NEW s \in Seq(S) PROVE s \in Seq(T)
    OBVIOUS
  <2>1. Len(s) \in Nat /\ s \in [1 .. Len(s) -> S]
    BY LenProperties
  <2>2. s \in [1 .. Len(s) -> T]
    BY <2>1
  <2> QED
    BY <2>1, <2>2, FunctionIsSeq
<1>4. Seq(RequestLegs) \subseteq Seq(LegShape)
  BY <1>2, <1>3
<1>5. RequestCandidates \subseteq CandidateShape
  BY <1>1, <1>4 DEF RequestCandidates, CandidateShape
<1>6. Seq(RequestCandidates) \subseteq Seq(CandidateShape)
  BY <1>3, <1>5
<1>7. Requests \subseteq BatchShape
  BY <1>1, <1>6 DEF Requests, BatchShape
<1> QED
  BY <1>2, <1>5, <1>7

LEMMA ParsedWord ==
  ASSUME NEW value \in Nat
  PROVE  /\ parse_uint(value, Word) # Refused <=> value < Power(Base, Word)
         /\ parse_uint(value, Word) # Refused => parse_uint(value, Word) = _u(value, Word)
         /\ parse_uint(value, Word) # Refused => value \in Within(Word)
<1>1. Word \in Nat \ {0} /\ Word \in Nat
  BY PackedCodecAssumption
<1>2. parse_uint(value, Word) = IF value < Power(Base, Word) THEN _u(value, Word) ELSE Refused
  BY <1>1, ParsedIsWritten
<1>3. _u(value, Word) # Refused
  BY <1>1, WrittenBytes, BytesAreNotRefused
<1>4. Power(Base, Word) \in Nat
  BY <1>1, BaseIsNat, PowerIsPositive
<1>5. value < Power(Base, Word) => value \in Within(Word)
  BY <1>4 DEF Within
<1> QED
  BY <1>2, <1>3, <1>5

LEMMA LegIsWritten ==
  ASSUME NEW leg \in RequestLegs, parse_uint(leg.min_out, Word) # Refused
  PROVE  LegBytes(leg) = Written(LegFields(leg))
<1> DEFINE e1 == <<Address, leg.adapter>>
           e2 == <<Address, leg.token_in>>
           e3 == <<Address, leg.token_out>>
           e4 == <<Word, leg.min_out>>
           e5 == <<Length, leg.data[1]>>
           e6 == leg.data
<1>1. leg \in LegShape /\ leg.min_out \in Nat
  BY RequestsAreShaped DEF LegShape
<1>2. /\ leg.adapter \in Nat /\ leg.token_in \in Nat /\ leg.token_out \in Nat
      /\ leg.data \in Nat \X Nat /\ leg.data[1] \in Nat
  BY <1>1 DEF LegShape
<1>3. e1 \in Entries /\ e2 \in Entries /\ e3 \in Entries /\ e4 \in Entries
      /\ e5 \in Entries /\ e6 \in Entries
  BY <1>1, <1>2, WidthsAreNat DEF Entries
<1>4. LegFields(leg) = Six(e1, e2, e3, e4, e5, e6)
  BY DEF LegFields, Six
<1>5. parse_uint(leg.min_out, Word) = _u(leg.min_out, Word)
  BY <1>1, ParsedWord
<1>6. /\ Bytes(e1) = _u(leg.adapter, Address) /\ Bytes(e2) = _u(leg.token_in, Address)
      /\ Bytes(e3) = _u(leg.token_out, Address) /\ Bytes(e4) = parse_uint(leg.min_out, Word)
      /\ Bytes(e5) = _u(leg.data[1], Length) /\ Bytes(e6) = _u(leg.data[2], leg.data[1])
  BY <1>5 DEF Bytes
<1> HIDE DEF e1, e2, e3, e4, e5, e6
<1>7. LegBytes(leg) =
        (((((Bytes(e1) \o Bytes(e2)) \o Bytes(e3)) \o Bytes(e4)) \o Bytes(e5)) \o Bytes(e6))
  BY <1>6 DEF LegBytes
<1>8. Written(Six(e1, e2, e3, e4, e5, e6)) =
        (((((Bytes(e1) \o Bytes(e2)) \o Bytes(e3)) \o Bytes(e4)) \o Bytes(e5)) \o Bytes(e6))
  <2> DEFINE s3 == <<e1, e2, e3>>
             s4 == Append(s3, e4)
             s5 == Append(s4, e5)
  <2>1. Written(s3) = (Bytes(e1) \o Bytes(e2)) \o Bytes(e3)
    BY <1>3, WrittenThree
  <2>2. s3 \in Seq(Entries) /\ Six(e1, e2, e3, e4, e5, e6) = Append(s5, e6)
    BY <1>3 DEF Six
  <2> HIDE DEF s3
  <2>3. Written(s4) = Written(s3) \o Bytes(e4) /\ s4 \in Seq(Entries)
    BY <1>3, <2>2, WrittenMore, AppendProperties DEF Bytes
  <2> HIDE DEF s4
  <2>4. Written(s5) = Written(s4) \o Bytes(e5) /\ s5 \in Seq(Entries)
    BY <1>3, <2>3, WrittenMore, AppendProperties DEF Bytes
  <2> HIDE DEF s5
  <2>5. Written(Append(s5, e6)) = Written(s5) \o Bytes(e6)
    BY <1>3, <2>4, WrittenMore DEF Bytes
  <2> QED
    BY <2>1, <2>2, <2>3, <2>4, <2>5
<1> QED
  BY <1>4, <1>7, <1>8

\* The amounts of a candidate fit, and its legs may be encoded.
Takeable(candidate) ==
  /\ parse_uint(candidate.min_profit, Word) # Refused
  /\ Len(candidate.legs) \in 2 .. MAX_PACKED_LEGS
  /\ \A j \in 1 .. Len(candidate.legs) :
       /\ candidate.legs[j].token_in # candidate.legs[j].token_out
       /\ candidate.legs[j].data[1] <= MAX_PACKED_LEG_DATA
       /\ parse_uint(candidate.legs[j].min_out, Word) # Refused

LEMMA CandidateIsWritten ==
  ASSUME NEW candidate \in RequestCandidates, Takeable(candidate)
  PROVE  CandidateBytes(candidate) = Written(CandidateFields(candidate))
<1> DEFINE legs == candidate.legs
           n == Len(legs)
           parts == LegParts(candidate)
           e1 == <<Word, candidate.candidate_id>>
           e2 == <<Word, candidate.min_profit>>
           e3 == <<1, n>>
           head == CandidateHead(candidate)
           bytes == [i \in DOMAIN legs |-> LegBytes(legs[i])]
<1>1. candidate \in CandidateShape /\ candidate.min_profit \in Nat /\ candidate.candidate_id \in Nat
      /\ legs \in Seq(RequestLegs)
  <2>1. candidate \in CandidateShape
    BY RequestsAreShaped
  <2>2. legs \in Seq(RequestLegs)
    BY DEF RequestCandidates
  <2> QED
    BY <2>1, <2>2 DEF CandidateShape
<1>2. /\ CandidateFields(candidate) = head \o FlattenSeq(parts)
      /\ head \in Seq(Entries) /\ parts \in Seq(Seq(Entries))
      /\ FlattenSeq(parts) \in Seq(Entries)
      /\ Len(parts) = n /\ n \in Nat
      /\ \A i \in 1 .. n : parts[i] = LegFields(legs[i])
  BY <1>1, CandidateIsItsParts
<1>3. DOMAIN legs = 1 .. n /\ \A i \in 1 .. n : legs[i] \in RequestLegs
  BY <1>1, LenProperties, ElementOfSeq
<1>4. \A i \in 1 .. n : LegBytes(legs[i]) = Written(parts[i])
  <2> TAKE i \in 1 .. n
  <2>1. legs[i] \in RequestLegs /\ parse_uint(legs[i].min_out, Word) # Refused
    BY <1>3 DEF Takeable
  <2>2. LegBytes(legs[i]) = Written(LegFields(legs[i]))
    BY <2>1, LegIsWritten
  <2> QED
    BY <1>2, <2>2
<1>5. bytes = AllWritten(parts)
  <2>1. bytes = [i \in 1 .. n |-> LegBytes(legs[i])]
    BY <1>3
  <2>2. AllWritten(parts) = [i \in 1 .. n |-> Written(parts[i])]
    BY <1>2 DEF AllWritten
  <2> HIDE DEF bytes, parts, legs, n
  <2> QED
    BY <1>4, <2>1, <2>2
<1>6. head = <<e1, e2, e3>>
  BY DEF CandidateHead
<1>7. e1 \in Entries /\ e2 \in Entries /\ e3 \in Entries
  BY <1>1, <1>2, WidthsAreNat DEF Entries
<1>8. /\ Bytes(e1) = _u(candidate.candidate_id, Word)
      /\ Bytes(e2) = parse_uint(candidate.min_profit, Word)
      /\ Bytes(e3) = <<n>>
  <2>1. parse_uint(candidate.min_profit, Word) = _u(candidate.min_profit, Word)
    BY <1>1, ParsedWord DEF Takeable
  <2>2. n \in Byte
    <3>1. MAX_PACKED_LEGS \in 1 .. Base - 1 /\ n \in 2 .. MAX_PACKED_LEGS
      BY PackedCodecAssumption DEF Takeable
    <3> HIDE DEF n
    <3> QED
      BY <3>1, BaseIsNat DEF Byte
  <2>3. _u(n, 1) = <<n>>
    BY <2>2, OneByte
  <2> QED
    BY <2>1, <2>3 DEF Bytes
<1>9. CandidateBytes(candidate) =
        ((_u(candidate.candidate_id, Word) \o parse_uint(candidate.min_profit, Word)) \o <<n>>)
          \o FlattenSeq(bytes)
  BY DEF CandidateBytes
<1> HIDE DEF e1, e2, e3, bytes, parts, legs, n, head
<1>10. Written(head) = (Bytes(e1) \o Bytes(e2)) \o Bytes(e3)
  BY <1>6, <1>7, WrittenThree
<1>11. FlattenSeq(bytes) = Written(FlattenSeq(parts))
  BY <1>2, <1>5, WrittenFlattened
<1>12. Written(head \o FlattenSeq(parts)) = Written(head) \o Written(FlattenSeq(parts))
  BY <1>2, WrittenTogether
<1> QED
  BY <1>2, <1>8, <1>9, <1>10, <1>11, <1>12

LEMMA TakeableFits ==
  ASSUME NEW candidate \in RequestCandidates
  PROVE  Takeable(candidate) => FitCandidate(candidate)
<1> SUFFICES ASSUME Takeable(candidate) PROVE FitCandidate(candidate)
  OBVIOUS
<1> DEFINE legs == candidate.legs
           n == Len(legs)
<1>1. /\ candidate.candidate_id \in Within(Word) /\ candidate.min_profit \in Nat
      /\ legs \in Seq(RequestLegs)
      /\ candidate = [candidate_id |-> candidate.candidate_id,
                      min_profit |-> candidate.min_profit, legs |-> legs]
  BY DEF RequestCandidates
<1>2. candidate.min_profit \in Within(Word)
  BY <1>1, ParsedWord DEF Takeable
<1>3. n \in Nat /\ DOMAIN legs = 1 .. n /\ legs \in [1 .. n -> RequestLegs]
      /\ \A i \in 1 .. n : legs[i] \in RequestLegs
  BY <1>1, LenProperties, ElementOfSeq
<1>4. /\ n \in 2 .. MAX_PACKED_LEGS
      /\ \A j \in 1 .. n : /\ legs[j].token_in # legs[j].token_out
                           /\ legs[j].data[1] <= MAX_PACKED_LEG_DATA
                           /\ parse_uint(legs[j].min_out, Word) # Refused
  BY DEF Takeable
<1>5. \A i \in 1 .. n : legs[i] \in LegTypes /\ legs[i].data[2] \in Within(legs[i].data[1])
  <2> TAKE i \in 1 .. n
  <2> DEFINE leg == legs[i]
  <2>1. leg \in RequestLegs /\ parse_uint(leg.min_out, Word) # Refused
    BY <1>3, <1>4
  <2> HIDE DEF leg
  <2>2. leg.min_out \in Nat /\ leg.data \in Nat \X Nat /\ leg.data[2] \in Within(leg.data[1])
    BY <2>1 DEF RequestLegs
  <2>3. leg.min_out \in Within(Word)
    BY <2>1, <2>2, ParsedWord
  <2>4. leg \in LegTypes
    BY <2>1, <2>2, <2>3 DEF RequestLegs, LegTypes
  <2> QED
    BY <2>2, <2>4 DEF leg
<1>6. legs \in Seq(LegTypes)
  <2> HIDE DEF legs, n
  <2>1. legs \in [1 .. n -> LegTypes]
    BY <1>3, <1>5
  <2> QED
    BY <1>3, <2>1, FunctionIsSeq
<1>7. FitLegs(legs)
  BY <1>3, <1>4, <1>5, <1>6 DEF FitLegs
<1> HIDE DEF legs, n
<1> QED
  BY <1>1, <1>2, <1>6, <1>7 DEF FitCandidate, legs

BatchHead(batch) ==
  Six(<<1, PACKED_VERSION>>, <<1, Len(batch.candidates)>>, <<Address, batch.asset>>,
      <<Word, batch.amount>>, <<Block, batch.target_block>>, <<Block, batch.deadline>>)

LEMMA BatchIsHeadAndParts ==
  ASSUME NEW batch \in BatchShape
  PROVE  /\ Fields(batch) = BatchHead(batch) \o FlattenSeq(CandidateParts(batch))
         /\ BatchHead(batch) \in Seq(Entries) /\ Len(BatchHead(batch)) = 6
         /\ BatchHead(batch)[4] = <<Word, batch.amount>>
         /\ FlattenSeq(CandidateParts(batch)) \in Seq(Entries)
<1> DEFINE v == <<1, PACKED_VERSION>>
           c == <<1, Len(batch.candidates)>>
           e1 == <<Address, batch.asset>>
           e2 == <<Word, batch.amount>>
           e3 == <<Block, batch.target_block>>
           e4 == <<Block, batch.deadline>>
<1>1. /\ v \in Entries /\ c \in Entries /\ FlattenSeq(CandidateParts(batch)) \in Seq(Entries)
  BY BatchIsItsParts
<1>2. e1 \in Entries /\ e2 \in Entries /\ e3 \in Entries /\ e4 \in Entries
  BY WidthsAreNat DEF BatchShape, Entries
<1>3. Fields(batch) = BatchHead(batch) \o FlattenSeq(CandidateParts(batch))
  BY DEF Fields, BatchHead, Six, CandidateParts
<1>4. BatchHead(batch) = <<v, c, e1, e2, e3, e4>>
  BY DEF BatchHead, Six
<1> HIDE DEF v, c, e1, e2, e3, e4
<1>5. <<v, c, e1, e2, e3, e4>> \in Seq(Entries) /\ Len(<<v, c, e1, e2, e3, e4>>) = 6
      /\ <<v, c, e1, e2, e3, e4>>[4] = e2
  BY <1>1, <1>2
<1> QED
  BY <1>1, <1>3, <1>4, <1>5 DEF e2

\* What encode_batch asks of a request, candidate by candidate.
LEMMA AcceptedIsTakeable ==
  ASSUME NEW b \in Requests
  PROVE  Accepted(b) <=>
           /\ Len(b.candidates) \in 1 .. MAX_PACKED_CANDIDATES
           /\ parse_uint(b.amount, Word) # Refused
           /\ \A i \in 1 .. Len(b.candidates) : Takeable(b.candidates[i])
<1> DEFINE candidates == b.candidates
           n == Len(candidates)
           legs(i) == candidates[i].legs
           Fits(value) == parse_uint(value, Word) # Refused
<1>1. candidates \in Seq(RequestCandidates)
  BY DEF Requests
<1>2. n \in Nat /\ DOMAIN candidates = 1 .. n /\ \A i \in 1 .. n : candidates[i] \in RequestCandidates
  BY <1>1, LenProperties, ElementOfSeq
<1>3. \A i \in 1 .. n : DOMAIN legs(i) = 1 .. Len(legs(i))
  <2> TAKE i \in 1 .. n
  <2>1. candidates[i] \in RequestCandidates
    BY <1>2
  <2>2. legs(i) \in Seq(RequestLegs)
    BY <2>1 DEF RequestCandidates
  <2> QED
    BY <2>2, LenProperties
<1>4. Amounted(b) =
        {b.amount} \cup UNION {{candidates[i].min_profit} \cup
          {legs(i)[j].min_out : j \in DOMAIN legs(i)} : i \in DOMAIN candidates}
  BY DEF Amounted
<1>5. (\A value \in Amounted(b) : Fits(value)) <=>
        /\ Fits(b.amount)
        /\ \A i \in 1 .. n : /\ Fits(candidates[i].min_profit)
                             /\ \A j \in 1 .. Len(legs(i)) : Fits(legs(i)[j].min_out)
  <2>1. ASSUME \A value \in Amounted(b) : Fits(value)
        PROVE  Fits(b.amount)
    <3>1. b.amount \in Amounted(b)
      BY <1>4
    <3> QED
      BY <2>1, <3>1
  <2>2. ASSUME \A value \in Amounted(b) : Fits(value), NEW i \in 1 .. n
        PROVE  /\ Fits(candidates[i].min_profit)
               /\ \A j \in 1 .. Len(legs(i)) : Fits(legs(i)[j].min_out)
    <3>1. candidates[i].min_profit \in Amounted(b)
      BY <1>2, <1>4
    <3>2. ASSUME NEW j \in 1 .. Len(legs(i)) PROVE legs(i)[j].min_out \in Amounted(b)
      <4>1. i \in DOMAIN candidates /\ j \in DOMAIN legs(i)
        BY <1>2, <1>3
      <4> QED
        BY <1>4, <4>1
    <3> HIDE DEF Fits, legs, candidates
    <3> QED
      BY <2>2, <3>1, <3>2
  <2>3. ASSUME Fits(b.amount),
               \A i \in 1 .. n : /\ Fits(candidates[i].min_profit)
                                 /\ \A j \in 1 .. Len(legs(i)) : Fits(legs(i)[j].min_out),
               NEW value \in Amounted(b)
        PROVE  Fits(value)
    <3>1. \/ value = b.amount
          \/ \E i \in DOMAIN candidates :
               \/ value = candidates[i].min_profit
               \/ \E j \in DOMAIN legs(i) : value = legs(i)[j].min_out
      BY <1>4
    <3> HIDE DEF Fits, legs, candidates, n
    <3> QED
      BY <1>2, <1>3, <2>3, <3>1
  <2> HIDE DEF Fits, legs, candidates, n
  <2> QED
    BY <2>1, <2>2, <2>3
<1>6. Accepted(b) <=>
        /\ n \in 1 .. MAX_PACKED_CANDIDATES
        /\ \A i \in DOMAIN candidates :
             /\ Len(legs(i)) \in 2 .. MAX_PACKED_LEGS
             /\ \A j \in DOMAIN legs(i) : /\ legs(i)[j].token_in # legs(i)[j].token_out
                                          /\ legs(i)[j].data[1] <= MAX_PACKED_LEG_DATA
        /\ \A value \in Amounted(b) : Fits(value)
  BY DEF Accepted
<1>7. \A i \in 1 .. n : Takeable(candidates[i]) <=>
        /\ Fits(candidates[i].min_profit)
        /\ Len(legs(i)) \in 2 .. MAX_PACKED_LEGS
        /\ \A j \in 1 .. Len(legs(i)) : /\ legs(i)[j].token_in # legs(i)[j].token_out
                                        /\ legs(i)[j].data[1] <= MAX_PACKED_LEG_DATA
                                        /\ Fits(legs(i)[j].min_out)
  BY DEF Takeable
<1> HIDE DEF Fits, legs, candidates, n
<1>8. Accepted(b) <=>
        /\ n \in 1 .. MAX_PACKED_CANDIDATES
        /\ Fits(b.amount)
        /\ \A i \in 1 .. n :
             /\ Fits(candidates[i].min_profit)
             /\ Len(legs(i)) \in 2 .. MAX_PACKED_LEGS
             /\ \A j \in 1 .. Len(legs(i)) : /\ legs(i)[j].token_in # legs(i)[j].token_out
                                             /\ legs(i)[j].data[1] <= MAX_PACKED_LEG_DATA
                                             /\ Fits(legs(i)[j].min_out)
  BY <1>2, <1>3, <1>5, <1>6
<1> QED
  BY <1>7, <1>8 DEF Fits, candidates, n

LEMMA AcceptedIsEncodable ==
  ASSUME NEW b \in Requests, Accepted(b)
  PROVE  Encodable(b)
<1> DEFINE n == Len(b.candidates)
<1>1. /\ n \in 1 .. MAX_PACKED_CANDIDATES /\ parse_uint(b.amount, Word) # Refused
      /\ \A i \in 1 .. n : Takeable(b.candidates[i])
  BY AcceptedIsTakeable
<1>2. /\ b.asset \in Within(Address) /\ b.amount \in Nat /\ b.target_block \in Within(Block)
      /\ b.deadline \in Within(Block) /\ b.candidates \in Seq(RequestCandidates)
      /\ b = [asset |-> b.asset, amount |-> b.amount, target_block |-> b.target_block,
              deadline |-> b.deadline, candidates |-> b.candidates]
  BY DEF Requests
<1>3. b.amount \in Within(Word)
  BY <1>1, <1>2, ParsedWord
<1>4. b.candidates \in Seq(CandidateShape)
  BY RequestsAreShaped DEF BatchShape
<1>5. \A i \in 1 .. n : FitCandidate(b.candidates[i])
  <2> TAKE i \in 1 .. n
  <2>1. b.candidates[i] \in RequestCandidates
    BY <1>2, ElementOfSeq
  <2> QED
    BY <1>1, <2>1, TakeableFits
<1>6. FitBatch(b)
  BY <1>1, <1>2, <1>3, <1>4, <1>5 DEF FitBatch
<1> QED
  BY <1>6, BatchFits

LEMMA FittingWord ==
  ASSUME NEW value \in Nat, <<Word, value>> \in Fitting
  PROVE  parse_uint(value, Word) # Refused
<1>1. value < Power(Base, Word)
  BY DEF Fitting
<1> QED
  BY <1>1, ParsedWord

LEMMA FittingIsTakeable ==
  ASSUME NEW candidate \in RequestCandidates, CandidateFields(candidate) \in Seq(Fitting),
         Len(candidate.legs) \in 2 .. MAX_PACKED_LEGS,
         \A j \in 1 .. Len(candidate.legs) :
           /\ candidate.legs[j].token_in # candidate.legs[j].token_out
           /\ candidate.legs[j].data[1] <= MAX_PACKED_LEG_DATA
  PROVE  Takeable(candidate)
<1> DEFINE legs == candidate.legs
           n == Len(legs)
           head == CandidateHead(candidate)
           parts == LegParts(candidate)
           body == FlattenSeq(parts)
<1>1. candidate \in CandidateShape /\ candidate.min_profit \in Nat
  BY RequestsAreShaped DEF CandidateShape
<1>2. /\ CandidateFields(candidate) = head \o body
      /\ head \in Seq(Entries) /\ Len(head) = 3 /\ parts \in Seq(Seq(Entries))
      /\ body \in Seq(Entries) /\ Len(parts) = n
      /\ \A i \in 1 .. n : legs[i] \in LegShape /\ parts[i] = LegFields(legs[i])
  BY <1>1, CandidateIsItsParts
<1>3. head[2] = <<Word, candidate.min_profit>>
  BY DEF CandidateHead
<1> HIDE DEF head, parts, legs, n
<1>4. head \o body \in Seq(Fitting)
  BY <1>2
<1>5. head \in Seq(Fitting) /\ body \in Seq(Fitting)
  <2> HIDE DEF body
  <2> QED
    BY <1>2, <1>4, BothHalves
<1>6. parse_uint(candidate.min_profit, Word) # Refused
  <2>1. 2 \in 1 .. Len(head)
    BY <1>2
  <2>2. head[2] \in Fitting
    BY <1>5, <2>1, ElementOfSeq
  <2> QED
    BY <1>1, <1>3, <2>2, FittingWord
<1>7. \A j \in 1 .. n : parse_uint(legs[j].min_out, Word) # Refused
  <2> TAKE j \in 1 .. n
  <2>1. j \in 1 .. Len(parts) /\ FlattenSeq(parts) \in Seq(Fitting)
    BY <1>2, <1>5
  <2>2. parts[j] \in Seq(Fitting)
    BY <1>2, <2>1, ElementsOfParts
  <2> DEFINE leg == legs[j]
  <2>3. leg \in LegShape /\ LegFields(leg) \in Seq(Fitting)
    BY <1>2, <2>2
  <2> HIDE DEF leg
  <2>4. leg.min_out \in Nat
    BY <2>3 DEF LegShape
  <2>5. LegFields(leg)[4] = <<Word, leg.min_out>> /\ Len(LegFields(leg)) = 6
    BY DEF LegFields
  <2>6. 4 \in 1 .. Len(LegFields(leg))
    BY <2>5
  <2>7. LegFields(leg)[4] \in Fitting
    BY <2>3, <2>6, ElementOfSeq
  <2>8. parse_uint(leg.min_out, Word) # Refused
    BY <2>4, <2>5, <2>7, FittingWord
  <2> QED
    BY <2>8 DEF leg
<1> QED
  BY <1>6, <1>7 DEF Takeable, legs, n

LEMMA EncodableIsAccepted ==
  ASSUME NEW b \in Requests, Encodable(b)
  PROVE  Accepted(b)
<1> DEFINE candidates == b.candidates
           n == Len(candidates)
           head == BatchHead(b)
           parts == CandidateParts(b)
           body == FlattenSeq(parts)
<1>1. b \in BatchShape /\ candidates \in Seq(RequestCandidates) /\ b.amount \in Nat
  BY RequestsAreShaped DEF Requests
<1>2. Fields(b) \in Seq(Fitting) /\ n \in 1 .. MAX_PACKED_CANDIDATES
  BY <1>1, EncodableFits
<1>3. /\ Fields(b) = head \o body /\ head \in Seq(Entries) /\ Len(head) = 6
      /\ head[4] = <<Word, b.amount>> /\ body \in Seq(Entries)
  BY <1>1, BatchIsHeadAndParts
<1>4. parts \in Seq(Seq(Entries)) /\ Len(parts) = n
      /\ \A i \in 1 .. n : parts[i] = CandidateFields(candidates[i])
  BY <1>1, BatchIsItsParts
<1>5. \A i \in DOMAIN candidates :
        /\ Len(candidates[i].legs) \in 2 .. MAX_PACKED_LEGS
        /\ \A j \in DOMAIN candidates[i].legs :
             /\ candidates[i].legs[j].token_in # candidates[i].legs[j].token_out
             /\ candidates[i].legs[j].data[1] <= MAX_PACKED_LEG_DATA
  BY DEF Encodable
<1> HIDE DEF candidates, n, head, parts
<1>6. head \o body \in Seq(Fitting)
  BY <1>2, <1>3
<1>7. head \in Seq(Fitting) /\ body \in Seq(Fitting)
  <2> HIDE DEF body
  <2> QED
    BY <1>3, <1>6, BothHalves
<1>8. parse_uint(b.amount, Word) # Refused
  <2>1. 4 \in 1 .. Len(head)
    BY <1>3
  <2>2. head[4] \in Fitting
    BY <1>7, <2>1, ElementOfSeq
  <2> QED
    BY <1>1, <1>3, <2>2, FittingWord
<1>9. \A i \in 1 .. n : Takeable(candidates[i])
  <2> TAKE i \in 1 .. n
  <2>1. i \in 1 .. Len(parts) /\ FlattenSeq(parts) \in Seq(Fitting)
    BY <1>4, <1>7
  <2>2. parts[i] \in Seq(Fitting)
    BY <1>4, <2>1, ElementsOfParts
  <2> DEFINE candidate == candidates[i]
  <2>3. i \in DOMAIN candidates /\ candidate \in RequestCandidates
    BY <1>1, LenProperties, ElementOfSeq DEF n
  <2>4. CandidateFields(candidate) \in Seq(Fitting)
    BY <1>4, <2>2
  <2>5. /\ Len(candidate.legs) \in 2 .. MAX_PACKED_LEGS
        /\ \A j \in DOMAIN candidate.legs :
             /\ candidate.legs[j].token_in # candidate.legs[j].token_out
             /\ candidate.legs[j].data[1] <= MAX_PACKED_LEG_DATA
    BY <1>5, <2>3
  <2> HIDE DEF candidate
  <2>6. candidate.legs \in Seq(RequestLegs)
    BY <2>3 DEF RequestCandidates
  <2>7. DOMAIN candidate.legs = 1 .. Len(candidate.legs)
    BY <2>6, LenProperties
  <2>8. Takeable(candidate)
    BY <2>3, <2>4, <2>5, <2>7, FittingIsTakeable
  <2> QED
    BY <2>8 DEF candidate
<1> QED
  BY <1>2, <1>8, <1>9, AcceptedIsTakeable DEF n, candidates

LEMMA TwoBytes ==
  ASSUME NEW a \in Byte, NEW b \in Byte
  PROVE  <<a>> \o <<b>> = <<a, b>>
<1> DEFINE s == <<a>>
           t == <<a>> \o <<b>>
           u == <<a, b>>
<1>1. s \in Seq(Byte) /\ <<b>> \in Seq(Byte) /\ u \in Seq(Byte)
  OBVIOUS
<1>2. /\ t \in Seq(Byte) /\ Len(t) = 2
      /\ t[1] = a /\ t[2] = b
  BY <1>1, ConcatProperties
<1>3. Len(u) = 2 /\ u[1] = a /\ u[2] = b
  OBVIOUS
<1> HIDE DEF s, t, u
<1>4. \A i \in 1 .. 2 : t[i] = u[i]
  BY <1>2, <1>3
<1>5. t = u
  BY <1>1, <1>2, <1>3, <1>4, SeqEqual
<1> QED
  BY <1>5 DEF t, u

LEMMA HeadIsWritten ==
  ASSUME NEW b \in Requests, parse_uint(b.amount, Word) # Refused,
         Len(b.candidates) \in 1 .. MAX_PACKED_CANDIDATES
  PROVE  Written(BatchHead(b)) =
           (((<<PACKED_VERSION, Len(b.candidates)>> \o _u(b.asset, Address))
             \o parse_uint(b.amount, Word)) \o _u(b.target_block, Block)) \o _u(b.deadline, Block)
<1> DEFINE n == Len(b.candidates)
           v == <<1, PACKED_VERSION>>
           c == <<1, n>>
           e1 == <<Address, b.asset>>
           e2 == <<Word, b.amount>>
           e3 == <<Block, b.target_block>>
           e4 == <<Block, b.deadline>>
<1>1. b \in BatchShape
  BY RequestsAreShaped
<1>2. v \in Entries /\ c \in Entries
  BY <1>1, BatchIsItsParts
<1>3. e1 \in Entries /\ e2 \in Entries /\ e3 \in Entries /\ e4 \in Entries /\ b.amount \in Nat
  BY <1>1, WidthsAreNat DEF BatchShape, Entries
<1>4. BatchHead(b) = Six(v, c, e1, e2, e3, e4)
  BY DEF BatchHead
<1>5. PACKED_VERSION \in Byte /\ n \in Byte
  <2>1. PACKED_VERSION \in 1 .. Base - 1 /\ MAX_PACKED_CANDIDATES \in 1 .. Base - 1
        /\ n \in 1 .. MAX_PACKED_CANDIDATES
    BY PackedCodecAssumption
  <2> HIDE DEF n
  <2> QED
    BY <2>1, BaseIsNat DEF Byte
<1>6. /\ Bytes(v) = _u(PACKED_VERSION, 1) /\ Bytes(c) = _u(n, 1)
      /\ Bytes(e1) = _u(b.asset, Address) /\ Bytes(e2) = _u(b.amount, Word)
      /\ Bytes(e3) = _u(b.target_block, Block) /\ Bytes(e4) = _u(b.deadline, Block)
  BY DEF Bytes
<1>7. parse_uint(b.amount, Word) = _u(b.amount, Word)
  BY <1>3, ParsedWord
<1> HIDE DEF n, v, c, e1, e2, e3, e4
<1>8. Bytes(v) = <<PACKED_VERSION>> /\ Bytes(c) = <<n>>
  BY <1>5, <1>6, OneByte
<1>9. Bytes(v) \o Bytes(c) = <<PACKED_VERSION, n>>
  BY <1>5, <1>8, TwoBytes
<1> DEFINE s3 == <<v, c, e1>>
           s4 == Append(s3, e2)
           s5 == Append(s4, e3)
<1>10. Written(s3) = (Bytes(v) \o Bytes(c)) \o Bytes(e1)
  BY <1>2, <1>3, WrittenThree
<1>11. s3 \in Seq(Entries) /\ Six(v, c, e1, e2, e3, e4) = Append(s5, e4)
  BY <1>2, <1>3 DEF Six
<1> HIDE DEF s3
<1>12. Written(s4) = Written(s3) \o Bytes(e2) /\ s4 \in Seq(Entries)
  BY <1>3, <1>11, WrittenMore, AppendProperties DEF Bytes
<1> HIDE DEF s4
<1>13. Written(s5) = Written(s4) \o Bytes(e3) /\ s5 \in Seq(Entries)
  BY <1>3, <1>12, WrittenMore, AppendProperties DEF Bytes
<1> HIDE DEF s5
<1>14. Written(Append(s5, e4)) = Written(s5) \o Bytes(e4)
  BY <1>3, <1>13, WrittenMore DEF Bytes
<1>15. Written(BatchHead(b)) =
         (((<<PACKED_VERSION, n>> \o _u(b.asset, Address)) \o parse_uint(b.amount, Word))
           \o _u(b.target_block, Block)) \o _u(b.deadline, Block)
  BY <1>4, <1>6, <1>7, <1>9, <1>10, <1>11, <1>12, <1>13, <1>14
<1> QED
  BY <1>15 DEF n

\* Requests that are accepted are written byte for byte as Python writes them.
LEMMA SameBytes ==
  ASSUME NEW b \in Requests
  PROVE  encode_batch(b) = encode_packed_batch(b)
<1>1. Accepted(b) <=> Encodable(b)
  BY AcceptedIsEncodable, EncodableIsAccepted
<1>2. CASE ~Accepted(b)
  BY <1>1, <1>2 DEF encode_batch, encode_packed_batch
<1>3. CASE Accepted(b)
  <2> DEFINE candidates == b.candidates
             n == Len(candidates)
             parts == CandidateParts(b)
             bytes == [i \in DOMAIN candidates |-> CandidateBytes(candidates[i])]
             head == BatchHead(b)
             written == (((<<PACKED_VERSION, n>> \o _u(b.asset, Address))
                           \o parse_uint(b.amount, Word)) \o _u(b.target_block, Block))
                         \o _u(b.deadline, Block)
  <2>1. /\ n \in 1 .. MAX_PACKED_CANDIDATES /\ parse_uint(b.amount, Word) # Refused
        /\ \A i \in 1 .. n : Takeable(candidates[i])
    BY <1>3, AcceptedIsTakeable
  <2>2. b \in BatchShape /\ candidates \in Seq(RequestCandidates)
    BY RequestsAreShaped DEF Requests
  <2>3. DOMAIN candidates = 1 .. n /\ \A i \in 1 .. n : candidates[i] \in RequestCandidates
    BY <2>2, LenProperties, ElementOfSeq
  <2>4. Fields(b) = head \o FlattenSeq(parts) /\ head \in Seq(Entries) /\ FlattenSeq(parts) \in Seq(Entries)
    BY <2>2, BatchIsHeadAndParts
  <2>5. parts \in Seq(Seq(Entries)) /\ Len(parts) = n
        /\ \A i \in 1 .. n : parts[i] = CandidateFields(candidates[i])
    BY <2>2, BatchIsItsParts
  <2>6. Written(head) = written
    BY <2>1, HeadIsWritten
  <2>7. \A i \in 1 .. n : CandidateBytes(candidates[i]) = Written(parts[i])
    <3> TAKE i \in 1 .. n
    <3>1. CandidateBytes(candidates[i]) = Written(CandidateFields(candidates[i]))
      BY <2>1, <2>3, CandidateIsWritten
    <3> QED
      BY <2>5, <3>1
  <2>8. bytes = AllWritten(parts)
    <3>1. bytes = [i \in 1 .. n |-> CandidateBytes(candidates[i])]
      BY <2>3
    <3>2. AllWritten(parts) = [i \in 1 .. n |-> Written(parts[i])]
      BY <2>5 DEF AllWritten
    <3> HIDE DEF bytes, parts, candidates, n
    <3> QED
      BY <2>7, <3>1, <3>2
  <2>9. encode_batch(b) = written \o FlattenSeq(bytes)
    BY <1>3 DEF encode_batch
  <2>10. encode_packed_batch(b) = Written(Fields(b))
    BY <1>1, <1>3 DEF encode_packed_batch
  <2> HIDE DEF candidates, n, parts, bytes, head, written
  <2>11. FlattenSeq(bytes) = Written(FlattenSeq(parts))
    BY <2>5, <2>8, WrittenFlattened
  <2>12. Written(head \o FlattenSeq(parts)) = Written(head) \o Written(FlattenSeq(parts))
    BY <2>4, WrittenTogether
  <2> QED
    BY <2>4, <2>6, <2>9, <2>10, <2>11, <2>12
<1> QED
  BY <1>2, <1>3

\* The batches of the instance, and what RustAgrees makes of them, are requests.
LEMMA ShorterLegs ==
  ASSUME NEW s \in Seq(RequestLegs), Len(s) >= 1
  PROVE  SubSeq(s, 1, 1) \in Seq(RequestLegs)
<1>1. 1 \in 1 .. Len(s) /\ \A i \in 1 .. 1 : s[i] \in RequestLegs
  <2>1. Len(s) \in Nat
    BY LenProperties
  <2>2. 1 \in 1 .. Len(s)
    BY <2>1
  <2> QED
    BY <2>2, ElementOfSeq
<1> QED
  BY <1>1, SubSeqProperties

LEMMA FitIsRequest ==
  ASSUME NEW b, FitBatch(b)
  PROVE  /\ b \in Requests
         /\ Len(b.candidates) >= 1 /\ b.candidates[1].legs \in Seq(RequestLegs)
         /\ Len(b.candidates[1].legs) >= 2
<1> DEFINE candidates == b.candidates
           n == Len(candidates)
<1>1. /\ b.asset \in Within(Address) /\ b.amount \in Within(Word) /\ b.target_block \in Within(Block)
      /\ b.deadline \in Within(Block) /\ candidates \in Seq(CandidateShape)
      /\ b = [asset |-> b.asset, amount |-> b.amount, target_block |-> b.target_block,
              deadline |-> b.deadline, candidates |-> candidates]
      /\ n \in 1 .. MAX_PACKED_CANDIDATES
      /\ \A i \in 1 .. n : FitCandidate(candidates[i])
  BY DEF FitBatch
<1>2. Within(Word) \subseteq Nat
  BY WidthsAreNat, WithinAreNat
<1>3. \A i \in 1 .. n : /\ candidates[i] \in RequestCandidates
                        /\ candidates[i].legs \in Seq(RequestLegs)
                        /\ Len(candidates[i].legs) >= 2
  <2> TAKE i \in 1 .. n
  <2> DEFINE candidate == candidates[i]
             legs == candidate.legs
             k == Len(legs)
  <2>1. FitCandidate(candidate)
    BY <1>1
  <2>2. /\ candidate.candidate_id \in Within(Word) /\ candidate.min_profit \in Within(Word)
        /\ legs \in Seq(LegTypes)
        /\ candidate = [candidate_id |-> candidate.candidate_id,
                        min_profit |-> candidate.min_profit, legs |-> legs]
        /\ FitLegs(legs)
    BY <2>1 DEF FitCandidate
  <2>3. k \in 2 .. MAX_PACKED_LEGS
        /\ \A j \in DOMAIN legs : legs[j].data[2] \in Within(legs[j].data[1])
    BY <2>2 DEF FitLegs
  <2> HIDE DEF candidate
  <2>4. k \in Nat /\ DOMAIN legs = 1 .. k /\ legs \in [1 .. k -> LegTypes]
    BY <2>2, LenProperties
  <2> HIDE DEF legs, k
  <2>5. \A j \in 1 .. k : legs[j] \in RequestLegs
    <3> TAKE j \in 1 .. k
    <3>1. legs[j] \in LegTypes /\ legs[j].data[2] \in Within(legs[j].data[1])
      BY <2>3, <2>4
    <3> QED
      BY <1>2, <3>1 DEF LegTypes, RequestLegs
  <2>6. legs \in [1 .. k -> RequestLegs]
    BY <2>4, <2>5
  <2>7. legs \in Seq(RequestLegs)
    BY <2>4, <2>6, FunctionIsSeq
  <2>8. candidate \in RequestCandidates
    BY <1>2, <2>2, <2>7 DEF RequestCandidates, legs
  <2>9. k >= 2
    BY <2>3, <2>4
  <2> QED
    BY <2>7, <2>8, <2>9 DEF candidate, legs, k
<1>4. n \in Nat /\ candidates \in [1 .. n -> CandidateShape]
  BY <1>1, LenProperties
<1> HIDE DEF candidates, n
<1>5. candidates \in [1 .. n -> RequestCandidates]
  BY <1>3, <1>4
<1>6. candidates \in Seq(RequestCandidates)
  BY <1>4, <1>5, FunctionIsSeq
<1>7. b \in Requests
  BY <1>1, <1>2, <1>6 DEF Requests
<1>8. 1 \in 1 .. n /\ n >= 1
  BY <1>1, <1>4
<1> QED
  BY <1>3, <1>7, <1>8 DEF candidates, n

LEMMA SeqWith ==
  ASSUME NEW S, NEW s \in Seq(S), NEW x \in S, NEW i \in Nat, i >= 1, i <= Len(s)
  PROVE  [s EXCEPT ![i] = x] \in Seq(S) /\ s[i] \in S
<1>1. Len(s) \in Nat /\ s \in [1 .. Len(s) -> S] /\ \A k \in 1 .. Len(s) : s[k] \in S
  BY LenProperties, ElementOfSeq
<1> DEFINE n == Len(s)
<1> HIDE DEF n
<1>2. n \in Nat /\ s \in [1 .. n -> S] /\ i \in 1 .. n
  BY <1>1 DEF n
<1>3. [s EXCEPT ![i] = x] \in [1 .. n -> S]
  BY <1>2
<1>4. [s EXCEPT ![i] = x] \in Seq(S)
  BY <1>2, <1>3, FunctionIsSeq
<1> QED
  BY <1>1, <1>2, <1>4 DEF n

LEMMA WithCandidate ==
  ASSUME NEW b \in Requests, NEW candidate \in RequestCandidates, Len(b.candidates) >= 1
  PROVE  [b EXCEPT !.candidates = [b.candidates EXCEPT ![1] = candidate]] \in Requests
<1>1. b.candidates \in Seq(RequestCandidates)
  BY DEF Requests
<1> DEFINE candidates == [b.candidates EXCEPT ![1] = candidate]
<1>2. candidates \in Seq(RequestCandidates)
  BY <1>1, SeqWith
<1> HIDE DEF candidates
<1>3. [b EXCEPT !.candidates = candidates] \in Requests
  BY <1>2 DEF Requests
<1> QED
  BY <1>3 DEF candidates

LEMMA VariantsAreRequests ==
  ASSUME NEW b, FitBatch(b), NEW v \in Variants(b)
  PROVE  v \in Requests
<1> DEFINE first == b.candidates[1]
           legs == first.legs
           With(l) == [b EXCEPT !.candidates[1].legs = l]
           poor == [b EXCEPT !.candidates[1].min_profit = Power(Base, Word)]
           long == MAX_PACKED_LEG_DATA + 1
           shorted == SubSeq(legs, 1, 1)
           doubled == legs \o legs
           looped == [legs EXCEPT ![1].token_out = legs[1].token_in]
           stuffed == [legs EXCEPT ![2].data = <<long, 0>>]
<1>1. /\ b \in Requests /\ Len(b.candidates) >= 1 /\ legs \in Seq(RequestLegs) /\ Len(legs) >= 2
  BY FitIsRequest
<1>2. Power(Base, Word) \in Nat /\ Power(Base, Word) - 1 \in Nat
  <2>1. Power(Base, Word) \in Nat \ {0}
    BY BaseIsNat, WidthsAreNat, PowerIsPositive
  <2> DEFINE top == Power(Base, Word)
  <2> HIDE DEF top
  <2>2. top \in Nat /\ top - 1 \in Nat
    BY <2>1 DEF top
  <2> QED
    BY <2>2 DEF top
<1>3. first \in RequestCandidates
  <2>1. b.candidates \in Seq(RequestCandidates)
    BY <1>1 DEF Requests
  <2>2. Len(b.candidates) \in Nat
    BY <2>1, LenProperties
  <2>3. 1 \in 1 .. Len(b.candidates)
    BY <1>1, <2>2
  <2> QED
    BY <2>1, <2>3, ElementOfSeq
<1>4. \A amount \in Nat : [b EXCEPT !.amount = amount] \in Requests
  BY <1>1 DEF Requests
<1>5. [b EXCEPT !.candidates = <<>>] \in Requests
  <2>1. <<>> \in Seq(RequestCandidates)
    BY EmptySeq
  <2> QED
    BY <1>1, <2>1 DEF Requests
<1> HIDE DEF first
<1>6. poor \in Requests
  <2> DEFINE changed == [first EXCEPT !.min_profit = Power(Base, Word)]
  <2>1. changed \in RequestCandidates
    BY <1>2, <1>3 DEF RequestCandidates
  <2>2. poor = [b EXCEPT !.candidates = [b.candidates EXCEPT ![1] = changed]]
    BY DEF first
  <2> HIDE DEF changed
  <2>3. [b EXCEPT !.candidates = [b.candidates EXCEPT ![1] = changed]] \in Requests
    BY <1>1, <2>1, WithCandidate
  <2> QED
    BY <2>2, <2>3
<1>7. ASSUME NEW l \in Seq(RequestLegs) PROVE With(l) \in Requests
  <2> DEFINE changed == [first EXCEPT !.legs = l]
  <2>1. changed \in RequestCandidates
    BY <1>3 DEF RequestCandidates
  <2>2. With(l) = [b EXCEPT !.candidates = [b.candidates EXCEPT ![1] = changed]]
    BY DEF first
  <2> HIDE DEF changed
  <2>3. [b EXCEPT !.candidates = [b.candidates EXCEPT ![1] = changed]] \in Requests
    BY <1>1, <2>1, WithCandidate
  <2> QED
    BY <2>2, <2>3
<1> DEFINE all == {b, [b EXCEPT !.amount = Power(Base, Word) - 1],
                    [b EXCEPT !.amount = Power(Base, Word)], poor,
                    [b EXCEPT !.candidates = <<>>],
                    With(shorted), With(doubled), With(looped), With(stuffed)}
<1>8. v \in all
  <2>1. Variants(b) = all
    BY Zenon DEF Variants, first
  <2> HIDE DEF all
  <2> QED
    BY <2>1
<1> HIDE DEF With, poor, legs
<1>9. Len(legs) \in Nat /\ Len(legs) >= 1 /\ 1 \in 1 .. Len(legs) /\ 2 \in 1 .. Len(legs)
  <2> DEFINE k == Len(legs)
  <2>1. k \in Nat /\ k >= 2
    BY <1>1, LenProperties
  <2> HIDE DEF k
  <2>2. k \in Nat /\ k >= 1 /\ 1 \in 1 .. k /\ 2 \in 1 .. k
    BY <2>1
  <2> QED
    BY <2>2 DEF k
<1>10. legs[1] \in RequestLegs /\ legs[2] \in RequestLegs
  BY <1>1, <1>9, ElementOfSeq
<1>11. shorted \in Seq(RequestLegs)
  BY <1>1, <1>9, ShorterLegs
<1>12. doubled \in Seq(RequestLegs)
  BY <1>1, ConcatProperties
<1>13. looped \in Seq(RequestLegs)
  <2> DEFINE leg == [legs[1] EXCEPT !.token_out = legs[1].token_in]
  <2>1. leg \in RequestLegs
    BY <1>10 DEF RequestLegs
  <2>2. looped = [legs EXCEPT ![1] = leg]
    OBVIOUS
  <2> HIDE DEF leg
  <2> QED
    BY <1>1, <1>9, <2>1, <2>2, SeqWith
<1>14. stuffed \in Seq(RequestLegs)
  <2> DEFINE leg == [legs[2] EXCEPT !.data = <<long, 0>>]
  <2>1. long \in Nat
    BY LimitsAreNat, BaseIsNat, WidthsAreNat, PackedCodecAssumption, PowerIsPositive
  <2>2. 0 \in Within(long)
    <3> DEFINE top == Power(Base, long)
    <3>1. top \in Nat \ {0}
      BY <2>1, BaseIsNat, PowerIsPositive
    <3> HIDE DEF top
    <3>2. 0 \in 0 .. top - 1
      BY <3>1
    <3> QED
      BY <3>2 DEF Within, top
  <2> HIDE DEF long
  <2>3. leg \in RequestLegs
    BY <1>10, <2>1, <2>2 DEF RequestLegs
  <2>4. stuffed = [legs EXCEPT ![2] = leg]
    OBVIOUS
  <2> HIDE DEF leg
  <2>5. 2 \in Nat /\ 2 >= 1 /\ 2 <= Len(legs)
    BY <1>1
  <2>6. [legs EXCEPT ![2] = leg] \in Seq(RequestLegs)
    BY <1>1, <2>3, <2>5, SeqWith
  <2> QED
    BY <2>4, <2>6
<1> HIDE DEF shorted, doubled, looped, stuffed
<1> QED
  BY <1>1, <1>2, <1>4, <1>5, <1>6, <1>7, <1>8, <1>11, <1>12, <1>13, <1>14

-----------------------------------------------------------------------------
(* The theorems.                                                           *)

\* Whatever fits its fields is read as it was encoded: loan, blocks, and the
\* candidates in order, with their legs and data (encode_packed_batch in
\* packed_batch.py, _decodePacked in BaseArbExecutor.sol).
THEOREM ReadsWhatWasEncoded ==
  ASSUME NEW b \in BatchShape, Encodable(b)
  PROVE  _decodePacked(encode_packed_batch(b)) = Fields(b)
  BY DecodesWhatWasEncoded

\* Any bytes the contract accepts are the one encoding of the fields it reads
\* in them, so no two byte strings stand for one batch (_decodePacked in
\* BaseArbExecutor.sol, whose usedBatchHashes keeps hashes of the bytes).
THEOREM OneEncoding ==
  /\ \A p \in Seq(Byte) : _decodePacked(p) # Refused => p = Written(_decodePacked(p))
  /\ \A p, q \in Seq(Byte) :
       _decodePacked(p) # Refused /\ _decodePacked(p) = _decodePacked(q) => p = q
<1>1. ASSUME NEW p \in Seq(Byte), _decodePacked(p) # Refused
      PROVE  p = Written(_decodePacked(p))
  BY <1>1, AcceptedWasWritten
<1>2. ASSUME NEW p \in Seq(Byte), NEW q \in Seq(Byte),
             _decodePacked(p) # Refused, _decodePacked(p) = _decodePacked(q)
      PROVE  p = q
  BY <1>1, <1>2
<1> QED
  BY <1>1, <1>2

\* The contract reads exactly the batch that was planned and simulated
\* (encode_packed_batch, _decodePacked).
THEOREM PlansAreReadBack == Spec => []PlanIsReadBack
<1>1. IInv => PlanIsReadBack
  <2> SUFFICES ASSUME IInv, Packed PROVE Batch \in ReadBack
    BY DEF PlanIsReadBack
  <2>1. Batch \in Batches
    BY PlanIsABatch
  <2> DEFINE b == Batch
  <2> HIDE DEF b
  <2>2. b \in Batches
    BY <2>1 DEF b
  <2>3. b \in BatchShape /\ Encodable(b)
    BY <2>2, BatchesFit, BatchFits
  <2>4. _decodePacked(encode_packed_batch(b)) = Fields(b)
    BY <2>3, DecodesWhatWasEncoded
  <2>5. b \in ReadBack
    BY <2>2, <2>4 DEF ReadBack
  <2> QED
    BY <2>5 DEF b
<1> QED
  BY <1>1, PlanInvariance, PTL

\* Bytes near those of a planned batch are refused, or encode another batch
\* (_decodePacked).
THEOREM PlansAreCanonical == Spec => []BytesAreCanonical
<1>1. IInv => BytesAreCanonical
  <2> SUFFICES ASSUME IInv, Packed PROVE Batch \in Canonical
    BY DEF BytesAreCanonical
  <2>1. Batch \in Batches
    BY PlanIsABatch
  <2> DEFINE b == Batch
             whole == encode_packed_batch(b)
  <2> HIDE DEF b
  <2>2. b \in Batches
    BY <2>1 DEF b
  <2>3. b \in BatchShape /\ Encodable(b)
    BY <2>2, BatchesFit, BatchFits
  <2>4. whole = Written(Fields(b))
    BY <2>3 DEF encode_packed_batch
  <2>5. whole \in Seq(Byte)
    <3>1. Fields(b) \in Seq(Entries)
      BY <2>3, BatchIsItsParts
    <3> QED
      BY <2>4, <3>1, WrittenTogether
  <2> HIDE DEF whole
  <2>6. ASSUME NEW p \in Damaged(whole), p # whole, _decodePacked(p) # Refused
        PROVE  _decodePacked(p) # Fields(b) /\ p = Written(_decodePacked(p))
    <3>1. p \in Seq(Byte)
      BY <2>5, DamagedAreBytes
    <3>2. p = Written(_decodePacked(p))
      BY <2>6, <3>1, AcceptedWasWritten
    <3> QED
      BY <2>4, <2>6, <3>2
  <2>7. b \in Canonical
    BY <2>2, <2>6 DEF Canonical, whole
  <2> QED
    BY <2>7 DEF b
<1> QED
  BY <1>1, PlanInvariance, PTL

\* For every request, the Rust executor writes the bytes Python writes, and
\* refuses what Python refuses, though it turns amounts into bytes digit by
\* digit (encode_batch and decimal_to_be_bytes in packed.rs, encode_packed_batch
\* in packed_batch.py).
THEOREM RustWritesTheSame ==
  ASSUME NEW b \in Requests
  PROVE  encode_batch(b) = encode_packed_batch(b)
  BY SameBytes

\* For any bytes, the Rust executor calls them valid exactly if the contract
\* can read them, though it looks only at lengths, the version and counts
\* (validate_batch_bytes in packed.rs, _decodePacked in BaseArbExecutor.sol).
THEOREM RustAcceptsTheSame ==
  \A p \in Seq(Byte) : validate_batch_bytes(p) <=> _decodePacked(p) # Refused
  BY ValidIsAccepted

\* The planned batches, those that must be refused and the damaged bytes are
\* such requests and such bytes (encode_batch, validate_batch_bytes).
THEOREM PlansAreAgreed == Spec => []RustAgrees
<1>1. IInv => RustAgrees
  <2> SUFFICES ASSUME IInv, Packed PROVE Batch \in Agreed
    BY DEF RustAgrees
  <2>1. Batch \in Batches
    BY PlanIsABatch
  <2> DEFINE b == Batch
             whole == encode_packed_batch(b)
  <2> HIDE DEF b
  <2>2. b \in Batches
    BY <2>1 DEF b
  <2>3. FitBatch(b) /\ b \in BatchShape /\ Encodable(b)
    BY <2>2, BatchesFit, BatchFits
  <2>4. whole = Written(Fields(b))
    BY <2>3 DEF encode_packed_batch
  <2>5. whole \in Seq(Byte)
    <3>1. Fields(b) \in Seq(Entries)
      BY <2>3, BatchIsItsParts
    <3> QED
      BY <2>4, <3>1, WrittenTogether
  <2> HIDE DEF whole
  <2>6. ASSUME NEW v \in Variants(b) PROVE encode_batch(v) = encode_packed_batch(v)
    <3>1. v \in Requests
      BY <2>3, VariantsAreRequests
    <3> QED
      BY <3>1, SameBytes
  <2>7. ASSUME NEW p \in Damaged(whole) \cup {whole}
        PROVE  validate_batch_bytes(p) <=> _decodePacked(p) # Refused
    <3>1. p \in Seq(Byte)
      BY <2>5, DamagedAreBytes
    <3> QED
      BY <3>1, ValidIsAccepted
  <2>8. b \in Agreed
    BY <2>2, <2>6, <2>7 DEF Agreed, whole
  <2> QED
    BY <2>8 DEF b
<1> QED
  BY <1>1, PlanInvariance, PTL
=============================================================================
