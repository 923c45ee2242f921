----------------------------- MODULE DerProofs -----------------------------
(***************************************************************************)
(* Proofs about Der, for every bound on numbers, every message with        *)
(* lengths of at most four bytes and every alteration of one byte: the TLV *)
(* the writer writes is the TLV the reader reads, a cut message is never   *)
(* read, reading never leaves the buffer, and what arrives whole is read   *)
(* as the values that were sent.                                           *)
(***************************************************************************)
EXTENDS Der, SequenceTheorems, FiniteSetTheorems, WellFoundedInduction, TLAPS

-----------------------------------------------------------------------------
(***************************************************************************)
(* Recursive functions on 0..N.  Every byte string of a message, and every *)
(* state of the OID reader, is one; the steps are given as a function, so  *)
(* that one lemma says for all of them that the recursion has a solution.  *)
(***************************************************************************)
\* What holds of a number as soon as it holds of all smaller ones, holds up to N.
LEMMA UpTo ==
  ASSUME NEW N \in Nat, NEW T,
         \A n \in 0..N : (\A m \in 0..N : m < n => m \in T) => n \in T
  PROVE  \A n \in 0..N : n \in T
  <1> DEFINE U == 0..N \ T
             R == StrictSubsetOrdering(Nat)
             F == FiniteSubsetsOf(Nat)
             Starts == {0..k : k \in U}
  <1> SUFFICES ASSUME U # {}
               PROVE  FALSE
    OBVIOUS
  <1>1. Starts \subseteq F
    <2> SUFFICES ASSUME NEW k \in 0..N
                 PROVE  0..k \in F
      OBVIOUS
    <2>1. IsFiniteSet(0..k)
      BY FS_Interval
    <2>2. 0..k \in SUBSET Nat
      OBVIOUS
    <2> QED
      BY <2>1, <2>2 DEF FiniteSubsetsOf
  <1>2. \E x \in Starts : \A y \in Starts : <<y, x>> \notin R
    <2>1. IsWellFoundedOn(R, F)
      BY FS_StrictSubsetOrderingWellFounded
    <2>2. Starts # {}
      OBVIOUS
    <2> HIDE DEF Starts, R, F
    <2> QED
      BY <1>1, <2>1, <2>2, WFMin
  <1>3. PICK k \in U : \A m \in U : <<0..m, 0..k>> \notin R
    <2> HIDE DEF U, R
    <2> QED
      BY <1>2
  <1>4. PICK m \in U : m < k
    OBVIOUS
  <1>5. 0..m \in SUBSET Nat /\ 0..k \in SUBSET Nat
    OBVIOUS
  <1>6. 0..m \subseteq 0..k /\ k \in 0..k /\ k \notin 0..m
    BY <1>4
  <1>7. <<0..m, 0..k>> \in R
    BY <1>5, <1>6 DEF StrictSubsetOrdering
  <1> QED
    BY <1>3, <1>7

\* f[0] is a, and the step from before[n] to n is taken by g[n].
Descends(before, N) == \A n \in 1..N : before[n] < n

Recurs(f, N, a, before, g) == f[0] = a /\ \A n \in 1..N : f[n] = g[n][f[before[n]]]

LEMMA Recursion ==
  ASSUME NEW N \in Nat, NEW S, NEW a \in S,
         NEW before \in [1..N -> 0..N], Descends(before, N),
         NEW g \in [1..N -> [S -> S]]
  PROVE  \E f \in [0..N -> S] : Recurs(f, N, a, before, g)
  <1> DEFINE Solves(f, n) == f[0] = a /\ \A k \in 1..n : f[k] = g[k][f[before[k]]]
             T == {n \in 0..N : \E f \in [0..n -> S] : Solves(f, n)}
  <1> USE DEF Descends
  <1>1. ASSUME NEW n \in 0..N, \A m \in 0..N : m < n => m \in T
        PROVE  n \in T
    <2>1. CASE n = 0
      <3>1. [k \in 0..0 |-> a] \in [0..0 -> S] /\ Solves([k \in 0..0 |-> a], 0)
        OBVIOUS
      <3> QED
        BY <2>1, <3>1
    <2>2. CASE n # 0
      <3>1. n - 1 \in T
        <4>1. n - 1 \in 0..N /\ n - 1 < n
          BY <2>2
        <4> HIDE DEF T
        <4> QED
          BY <1>1, <4>1
      <3>2. PICK f \in [0..(n - 1) -> S] : Solves(f, n - 1)
        BY <3>1
      <3> DEFINE new == [k \in 0..n |-> IF k = n THEN g[n][f[before[n]]] ELSE f[k]]
      <3>3. n \in 1..N /\ before[n] \in 0..(n - 1)
        BY <2>2
      <3>4. g[n][f[before[n]]] \in S
        BY <3>3
      <3>5. new \in [0..n -> S]
        BY <3>3, <3>4
      <3>6. \A k \in 0..(n - 1) : new[k] = f[k]
        BY <3>3
      <3>7. ASSUME NEW k \in 1..n
            PROVE  new[k] = g[k][new[before[k]]]
        <4>1. k \in 1..N /\ before[k] \in 0..(n - 1)
          BY <3>3, SMT
        <4>2. new[before[k]] = f[before[k]]
          BY <3>6, <4>1
        <4>3. CASE k = n
          BY <4>2, <4>3
        <4>4. CASE k # n
          <5>1. k \in 1..(n - 1)
            BY <4>4
          <5> QED
            BY <3>2, <3>6, <4>2, <5>1
        <4> QED
          BY <4>3, <4>4
      <3>8. new[0] = a
        BY <3>2, <3>3
      <3> QED
        BY <3>5, <3>7, <3>8
    <2> QED
      BY <2>1, <2>2
  <1> HIDE DEF T
  <1>2. \A n \in 0..N : n \in T
    BY <1>1, UpTo
  <1>3. N \in 0..N
    OBVIOUS
  <1> QED
    BY <1>2, <1>3 DEF T, Recurs

-----------------------------------------------------------------------------
(***************************************************************************)
(* Digits, and the numbers they are read as.                               *)
(***************************************************************************)
LEMMA Divide ==
  \A n \in Nat : /\ /\ n \div 128 \in Nat /\ n % 128 \in 0..127
                    /\ n = 128 * (n \div 128) + (n % 128)
                    /\ n # 0 => n \div 128 < n
                 /\ /\ n \div 256 \in Nat /\ n % 256 \in 0..255
                    /\ n = 256 * (n \div 256) + (n % 256)
                    /\ n # 0 => n \div 256 < n
  <1>1. \A n \in Nat : /\ n \div 128 \in Nat /\ n % 128 \in 0..127
                       /\ n = 128 * (n \div 128) + (n % 128)
                       /\ n # 0 => n \div 128 < n
    BY SMT
  <1>2. \A n \in Nat : /\ n \div 256 \in Nat /\ n % 256 \in 0..255
                       /\ n = 256 * (n \div 256) + (n % 256)
                       /\ n # 0 => n \div 256 < n
    BY SMT
  <1> QED
    BY <1>1, <1>2

\* The two bases there are.
Base(base, mark) == (base = 128 /\ mark = 128) \/ (base = 256 /\ mark = 0)

AreDigits(D, base, mark, n) ==
    /\ D \in [0..n -> Seq(Byte)] /\ D[0] = <<>>
    /\ \A a \in 1..n : D[a] = Append(D[a \div base], mark + (a % base))

LEMMA DigitsAre ==
  ASSUME NEW base, NEW mark, Base(base, mark), NEW n \in Nat
  PROVE  AreDigits(Digits(base, mark, n), base, mark, n)
  <1> DEFINE D == Digits(base, mark, n)
             before == [a \in 1..n |-> a \div base]
             g == [a \in 1..n |-> [s \in Seq(Byte) |-> Append(s, mark + (a % base))]]
             Eq(f) == f = [a \in 0..n |-> IF a = 0 THEN <<>>
                                           ELSE Append(f[a \div base], mark + (a % base))]
  <1>1. \A a \in 1..n : a \div base \in 0..n /\ a \div base < a /\ mark + (a % base) \in Byte
    <2>1. CASE base = 128 /\ mark = 128
      <3>1. \A a \in 1..n : a \div 128 \in 0..n /\ a \div 128 < a /\ 128 + (a % 128) \in Byte
        BY SMT, Divide DEF Byte
      <3> QED
        BY <2>1, <3>1
    <2>2. CASE base = 256 /\ mark = 0
      <3>1. \A a \in 1..n : a \div 256 \in 0..n /\ a \div 256 < a /\ 0 + (a % 256) \in Byte
        BY SMT, Divide DEF Byte
      <3> QED
        BY <2>2, <3>1
    <2> QED
      BY <2>1, <2>2 DEF Base
  <1>2. before \in [1..n -> 0..n] /\ Descends(before, n)
    BY <1>1 DEF Descends
  <1>3. g \in [1..n -> [Seq(Byte) -> Seq(Byte)]]
    BY <1>1, AppendProperties
  <1>4. <<>> \in Seq(Byte)
    BY SMT
  <1>5. PICK f \in [0..n -> Seq(Byte)] : Recurs(f, n, <<>>, before, g)
    <2> HIDE DEF g, before, Eq
    <2> QED
      BY <1>2, <1>3, <1>4, Recursion
  <1>6. f[0] = <<>> /\ \A a \in 1..n : f[a] = Append(f[a \div base], mark + (a % base))
    BY <1>1, <1>5 DEF Recurs
  <1>7. /\ \A a \in 0..n : a # 0 => a \in 1..n
        /\ \A a \in 1..n : a \in 0..n /\ a # 0
        /\ 0 \in 0..n
    BY SMT
  <1>8. Eq(f)
    BY <1>6, <1>7
  <1>9. D = CHOOSE h : Eq(h)
    BY DEF Digits
  <1>10. Eq(D)
    <2> HIDE DEF Eq, D
    <2> QED
      BY <1>8, <1>9
  <1> HIDE DEF before, g, D
  <1>11. D[0] = <<>>
    BY <1>7, <1>10
  <1>12. \A a \in 1..n : D[a] = Append(D[a \div base], mark + (a % base))
    BY <1>7, <1>10
  <1>13. \A a \in 0..n : D[a] \in Seq(Byte)
    <2> DEFINE T == {a \in 0..n : D[a] \in Seq(Byte)}
    <2>1. ASSUME NEW a \in 0..n, \A m \in 0..n : m < a => m \in T
          PROVE  a \in T
      <3>1. CASE a = 0
        BY <1>4, <1>11, <3>1
      <3>2. CASE a # 0
        <4>1. a \in 1..n /\ D[a \div base] \in Seq(Byte) /\ mark + (a % base) \in Byte
          BY <1>1, <1>7, <2>1, <3>2
        <4>2. Append(D[a \div base], mark + (a % base)) \in Seq(Byte)
          BY <4>1, AppendProperties
        <4> QED
          BY <1>12, <4>1, <4>2
      <3> QED
        BY <3>1, <3>2
    <2> HIDE DEF T
    <2>2. \A a \in 0..n : a \in T
      BY <2>1, UpTo
    <2> QED
      BY <2>2 DEF T
  <1>14. D \in [0..n -> Seq(Byte)]
    BY <1>10, <1>13
  <1> QED
    BY <1>11, <1>12, <1>14 DEF D, AreDigits

\* The marked base-128 digits of a number.
LEMMA MarkedIs ==
  ASSUME NEW arc \in Nat
  PROVE  /\ Marked(arc) \in [0..arc -> Seq(Byte)]
         /\ Marked(arc)[0] = <<>>
         /\ \A a \in 1..arc : Marked(arc)[a] = Append(Marked(arc)[a \div 128], 128 + (a % 128))
  <1>1. Base(128, 128)
    BY DEF Base
  <1>2. AreDigits(Digits(128, 128, arc), 128, 128, arc)
    BY <1>1, DigitsAre
  <1> QED
    BY <1>2 DEF Marked, AreDigits

\* The bytes of all numbers up to n.
BytesUpTo(n) == Digits(256, 0, n)

AreBytes(D, n) ==
    /\ D \in [0..n -> Seq(Byte)] /\ D[0] = <<>>
    /\ \A a \in 1..n : /\ D[a] = Append(D[a \div 256], a % 256)
                       /\ a \div 256 \in 0..n /\ a \div 256 < a /\ a % 256 \in Byte

LEMMA BytesAre ==
  ASSUME NEW n \in Nat
  PROVE  /\ AreBytes(BytesUpTo(n), n)
         /\ to_bytes(n) = BytesUpTo(n)[n] /\ to_bytes(n) \in Seq(Byte)
  <1> DEFINE D == BytesUpTo(n)
  <1>1. Base(256, 0)
    BY DEF Base
  <1>2. AreDigits(D, 256, 0, n)
    BY <1>1, DigitsAre DEF BytesUpTo
  <1>3. \A a \in 1..n : a \div 256 \in 0..n /\ a \div 256 < a /\ a % 256 \in Byte
    BY SMT, Divide DEF Byte
  <1>4. to_bytes(n) = D[n]
    BY DEF to_bytes, BytesUpTo
  <1> HIDE DEF D
  <1>5. AreBytes(D, n)
    <2>1. ASSUME NEW a \in 1..n
          PROVE  D[a] = Append(D[a \div 256], a % 256)
      <3> DEFINE x == 0 + (a % 256)
      <3>1. D[a] = Append(D[a \div 256], x)
        BY <1>2 DEF AreDigits
      <3>2. x = a % 256
        BY <1>3, SMT DEF Byte
      <3> HIDE DEF x
      <3> QED
        BY <3>1, <3>2
    <2> QED
      BY <1>2, <1>3, <2>1 DEF AreDigits, AreBytes
  <1>6. n \in 0..n
    BY SMT
  <1>7. D[n] \in Seq(Byte)
    BY <1>5, <1>6 DEF AreBytes
  <1> QED
    BY <1>4, <1>5, <1>7 DEF D

\* The first byte of a number is not 0.
LEMMA FirstByte ==
  ASSUME NEW n \in Nat, n # 0
  PROVE  Len(to_bytes(n)) >= 1 /\ to_bytes(n)[1] \in Byte /\ to_bytes(n)[1] > 0
  <1> DEFINE D == BytesUpTo(n)
             T == {a \in 0..n : a # 0 => Len(D[a]) >= 1 /\ D[a][1] \in Byte /\ D[a][1] > 0}
  <1>1. AreBytes(D, n) /\ to_bytes(n) = D[n]
    BY BytesAre
  <1> HIDE DEF D
  <1> USE DEF AreBytes
  <1>2. ASSUME NEW a \in 0..n, \A m \in 0..n : m < a => m \in T, a # 0
        PROVE  Len(D[a]) >= 1 /\ D[a][1] \in Byte /\ D[a][1] > 0
    <2> DEFINE q == a \div 256
               r == a % 256
    <2>1. a \in 1..n /\ a \in Nat
      BY <1>2, SMT
    <2>2. a = 256 * q + r
      BY <2>1, Divide
    <2>3. D[a] = Append(D[q], r) /\ q \in 0..n /\ q < a /\ r \in Byte
      BY <1>1, <2>1
    <2> HIDE DEF q, r
    <2>4. q \in T /\ D[q] \in Seq(Byte)
      BY <1>1, <1>2, <2>3
    <2>5. CASE q = 0
      <3>1. r > 0
        BY <1>2, <2>1, <2>2, <2>3, <2>5, SMT DEF Byte
      <3>2. D[a] = <<r>>
        <4>1. D[q] = <<>>
          BY <1>1, <2>5
        <4>2. Append(<<>>, r) = <<r>>
          BY <2>3, SMT
        <4> QED
          BY <2>3, <4>1, <4>2
      <3> QED
        BY <2>3, <3>1, <3>2, SMT
    <2>6. CASE q # 0
      <3> DEFINE s == D[q]
      <3>1. Len(s) >= 1 /\ s[1] \in Byte /\ s[1] > 0 /\ s \in Seq(Byte)
        BY <2>4, <2>6
      <3> HIDE DEF s
      <3>2. Len(Append(s, r)) >= 1 /\ Append(s, r)[1] = s[1]
        BY <2>3, <3>1, SMT
      <3> QED
        BY <2>3, <3>1, <3>2 DEF s
    <2> QED
      BY <2>5, <2>6
  <1>3. \A a \in 0..n : (\A m \in 0..n : m < a => m \in T) => a \in T
    BY <1>2
  <1>4. n \in T
    <2> HIDE DEF T
    <2>1. n \in 0..n
      BY SMT
    <2> QED
      BY <1>3, <2>1, UpTo
  <1> QED
    BY <1>1, <1>4

\* A number that takes four base-256 digits has four bytes at most.
LEMMA FourBytes ==
  ASSUME NEW n \in Nat, n \div (256 * 256 * 256) < 256
  PROVE  Len(to_bytes(n)) \in 0..4
  <1> DEFINE D == BytesUpTo(n)
             C == 256 * 256 * 256
  <1>1. AreBytes(D, n) /\ to_bytes(n) = D[n]
    BY BytesAre
  <1> HIDE DEF D
  <1> USE DEF AreBytes
  <1>2. ASSUME NEW a \in 1..n
        PROVE  Len(D[a]) = Len(D[a \div 256]) + 1 /\ Len(D[a \div 256]) \in Nat
    <2> DEFINE s == D[a \div 256]
               e == a % 256
               q == a \div 256
    <2>1. D[a] = Append(s, e) /\ q \in 0..n /\ e \in Byte
      BY <1>1
    <2>3. s \in Seq(Byte)
      <3>1. D[q] \in Seq(Byte)
        <4> HIDE DEF q
        <4> QED
          BY <1>1, <2>1
      <3> QED
        BY <3>1
    <2> HIDE DEF s, e
    <2>2. Len(D[a]) = Len(s) + 1 /\ Len(s) \in Nat
      BY <2>1, <2>3, AppendProperties, LenProperties
    <2> QED
      BY <2>2 DEF s
  <1>3. Len(D[0]) = 0
    BY <1>1, SMT
  <1>4. \A a \in 0..n : a < 256 => Len(D[a]) \in 0..1
    <2> TAKE a \in 0..n
    <2> HAVE a < 256
    <2>1. CASE a = 0
      BY <1>3, <2>1, SMT
    <2>2. CASE a # 0
      <3>1. a \in 1..n /\ a \div 256 = 0
        BY <2>2, SMT
      <3>2. Len(D[a]) = 0 + 1
        BY <1>2, <1>3, <3>1
      <3> QED
        BY <3>2, SMT
    <2> QED
      BY <2>1, <2>2
  <1>5. \A a \in 0..n : a < 256 * 256 => Len(D[a]) \in 0..2
    <2> TAKE a \in 0..n
    <2> HAVE a < 256 * 256
    <2>1. CASE a = 0
      BY <1>3, <2>1, SMT
    <2>2. CASE a # 0
      <3> DEFINE q == a \div 256
      <3>1. a \in 1..n /\ q < 256 /\ q \in 0..n
        BY <1>1, <2>2, SMT
      <3> DEFINE l == Len(D[q])
      <3>2. Len(D[a]) = l + 1 /\ l \in 0..1
        <4>1. Len(D[a]) = Len(D[q]) + 1
          BY <1>2, <3>1
        <4> HIDE DEF q
        <4> QED
          BY <1>4, <3>1, <4>1
      <3> HIDE DEF l
      <3> QED
        BY <3>2, SMT
    <2> QED
      BY <2>1, <2>2
  <1>6. \A a \in 0..n : a < 256 * 256 * 256 => Len(D[a]) \in 0..3
    <2> TAKE a \in 0..n
    <2> HAVE a < 256 * 256 * 256
    <2>1. CASE a = 0
      BY <1>3, <2>1, SMT
    <2>2. CASE a # 0
      <3> DEFINE q == a \div 256
      <3>1. a \in 1..n /\ q < 256 * 256 /\ q \in 0..n
        BY <1>1, <2>2, SMT
      <3> DEFINE l == Len(D[q])
      <3>2. Len(D[a]) = l + 1 /\ l \in 0..2
        <4>1. Len(D[a]) = Len(D[q]) + 1
          BY <1>2, <3>1
        <4> HIDE DEF q
        <4> QED
          BY <1>5, <3>1, <4>1
      <3> HIDE DEF l
      <3> QED
        BY <3>2, SMT
    <2> QED
      BY <2>1, <2>2
  <1>7. CASE n = 0
    BY <1>1, <1>3, <1>7, SMT
  <1>8. CASE n # 0
    <2> DEFINE q == n \div 256
    <2>1. n \in 1..n
      BY <1>8, SMT
    <2>2. q < 256 * 256 * 256
      BY SMT
    <2>3. q \in 0..n
      BY <1>1, <2>1
    <2>4. Len(D[n]) = Len(D[q]) + 1
      BY <1>2, <2>1
    <2> HIDE DEF q
    <2> DEFINE l == Len(D[q])
    <2>5. l \in 0..3
      BY <1>6, <2>2, <2>3
    <2>6. Len(to_bytes(n)) = l + 1
      BY <1>1, <2>4
    <2> HIDE DEF l
    <2> QED
      BY <2>5, <2>6, SMT
  <1> QED
    BY <1>7, <1>8

(***************************************************************************)
(* Reading a number, from 0 or from -1.                                    *)
(***************************************************************************)
Reads(A, first, bytes, S) ==
    /\ A \in [0..Len(bytes) -> S] /\ A[0] = first
    /\ \A n \in 1..Len(bytes) : A[n] = Capped(256 * A[n - 1] + bytes[n])

LEMMA NumberIs ==
  ASSUME NEW S, S = Nat \/ S = Int, NEW first \in S, NEW bytes \in Seq(Byte)
  PROVE  Reads(NumberAfter(first, bytes), first, bytes, S)
  <1> DEFINE A == NumberAfter(first, bytes)
             N == Len(bytes)
             before == [n \in 1..N |-> n - 1]
             g == [n \in 1..N |-> [x \in S |-> Capped(256 * x + bytes[n])]]
             Eq(f) == f = [n \in 0..N |-> IF n = 0 THEN first ELSE Capped(256 * f[n - 1] + bytes[n])]
  <1>1. N \in Nat /\ \A n \in 1..N : bytes[n] \in Byte
    BY LenProperties, ElementOfSeq
  <1>2. \A x \in S, b \in Byte : Capped(256 * x + b) \in S
    <2>1. \A x \in Nat, b \in Byte : Capped(256 * x + b) \in Nat
      BY BeyondAssumption, SMT DEF Capped, Byte
    <2>2. \A x \in Int, b \in Byte : Capped(256 * x + b) \in Int
      BY BeyondAssumption, SMT DEF Capped, Byte
    <2> QED
      BY <2>1, <2>2
  <1>3. A = CHOOSE h : Eq(h)
    BY DEF NumberAfter
  <1> HIDE DEF N, A
  <1>4. /\ \A n \in 1..N : n - 1 \in 0..N /\ n - 1 < n /\ n \in 0..N /\ n # 0
        /\ \A n \in 0..N : n # 0 => n \in 1..N
        /\ 0 \in 0..N
    BY <1>1, SMT
  <1>5. before \in [1..N -> 0..N] /\ Descends(before, N)
    BY <1>4 DEF Descends
  <1>6. g \in [1..N -> [S -> S]]
    BY <1>1, <1>2
  <1>7. PICK f \in [0..N -> S] : Recurs(f, N, first, before, g)
    <2> HIDE DEF g, before, Eq
    <2> QED
      BY <1>1, <1>5, <1>6, Recursion
  <1>8. f[0] = first /\ \A n \in 1..N : f[n] = Capped(256 * f[n - 1] + bytes[n])
    <2>1. ASSUME NEW n \in 1..N
          PROVE  f[n] = Capped(256 * f[n - 1] + bytes[n])
      <3>1. f[n] = g[n][f[before[n]]] /\ before[n] = n - 1
        BY <1>7 DEF Recurs
      <3>2. f[n - 1] \in S
        BY <1>4
      <3> DEFINE x == f[n - 1]
      <3>3. f[n] = g[n][x] /\ x \in S
        BY <3>1, <3>2
      <3> HIDE DEF x
      <3>4. f[n] = Capped(256 * x + bytes[n])
        BY <3>3
      <3> QED
        BY <3>4 DEF x
    <2> QED
      BY <1>7, <2>1 DEF Recurs
  <1>9. Eq(f)
    BY <1>4, <1>8
  <1>10. Eq(A)
    <2> HIDE DEF Eq
    <2> QED
      BY <1>3, <1>9
  <1> HIDE DEF before, g
  <1>11. A[0] = first
    BY <1>4, <1>10
  <1>12. \A n \in 1..N : A[n] = Capped(256 * A[n - 1] + bytes[n])
    BY <1>4, <1>10
  <1>13. \A n \in 0..N : A[n] \in S
    <2> DEFINE T == {n \in 0..N : A[n] \in S}
    <2>1. ASSUME NEW n \in 0..N, \A m \in 0..N : m < n => m \in T
          PROVE  n \in T
      <3>1. CASE n = 0
        BY <1>11, <3>1
      <3>2. CASE n # 0
        <4>1. n \in 1..N /\ A[n - 1] \in S /\ bytes[n] \in Byte
          BY <1>1, <1>4, <2>1, <3>2
        <4>2. A[n] = Capped(256 * A[n - 1] + bytes[n])
          BY <1>12, <4>1
        <4> DEFINE x == A[n - 1]
        <4>3. Capped(256 * x + bytes[n]) \in S
          <5> HIDE DEF x
          <5> QED
            BY <1>2, <4>1 DEF x
        <4> QED
          BY <4>2, <4>3
      <3> QED
        BY <3>1, <3>2
    <2> HIDE DEF T
    <2>2. \A n \in 0..N : n \in T
      BY <1>1, <2>1, UpTo
    <2> QED
      BY <2>2 DEF T
  <1>14. A \in [0..N -> S]
    BY <1>10, <1>13
  <1> QED
    BY <1>11, <1>12, <1>14 DEF A, N, Reads

LEMMA FromBytesTyped ==
  ASSUME NEW bytes \in Seq(Byte)
  PROVE  from_bytes(bytes) \in Nat
  <1>1. NumberAfter(0, bytes) \in [0..Len(bytes) -> Nat] /\ Len(bytes) \in Nat
    <2>1. 0 \in Nat
      OBVIOUS
    <2>2. Reads(NumberAfter(0, bytes), 0, bytes, Nat)
      BY <2>1, NumberIs
    <2> QED
      BY <2>2, LenProperties DEF Reads
  <1>2. Len(bytes) \in Nat => Len(bytes) \in 0..Len(bytes)
    <2> DEFINE n == Len(bytes)
    <2> HIDE DEF n
    <2>1. n \in Nat => n \in 0..n
      BY SMT
    <2> QED
      BY <2>1 DEF n
  <1> QED
    BY <1>1, <1>2 DEF from_bytes

\* Bytes that are found at an offset of others.
Stands(t, b, o) == o + Len(t) <= Len(b) /\ \A i \in 1..Len(t) : b[o + i] = t[i]

\* Bytes that stand somewhere without the last of them, and the last.
LEMMA AppendStands ==
  ASSUME NEW t \in Seq(Byte), NEW e \in Byte, NEW c \in Seq(Byte), NEW o \in Nat,
         Stands(Append(t, e), c, o)
  PROVE  /\ Stands(t, c, o) /\ Len(t) \in Nat
         /\ Len(Append(t, e)) = Len(t) + 1
         /\ o + Len(t) + 1 <= Len(c) /\ c[o + Len(t) + 1] = e
  <1> DEFINE u == Append(t, e)
  <1>1. /\ Len(u) = Len(t) + 1 /\ Len(t) \in Nat /\ u[Len(t) + 1] = e
        /\ \A i \in 1..Len(t) : u[i] = t[i]
    BY SMT
  <1>2. o + Len(u) <= Len(c) /\ \A i \in 1..Len(u) : c[o + i] = u[i]
    BY DEF Stands
  <1> HIDE DEF u
  <1>3. Len(c) \in Nat
    BY LenProperties
  <1> DEFINE n == Len(t)
             l == Len(c)
  <1>4. n \in Nat /\ l \in Nat /\ Len(u) = n + 1 /\ o + Len(u) <= l
    BY <1>1, <1>2, <1>3
  <1> HIDE DEF n, l
  <1>5. /\ o + n <= l /\ o + n + 1 <= l /\ o + n + 1 = o + (n + 1)
        /\ n + 1 \in 1..Len(u) /\ \A i \in 1..n : i \in 1..Len(u)
    BY <1>4, SMT
  <1>6. c[o + n + 1] = e
    BY <1>1, <1>2, <1>5 DEF n
  <1>7. \A i \in 1..n : c[o + i] = t[i]
    BY <1>1, <1>2, <1>5 DEF n
  <1> QED
    BY <1>1, <1>5, <1>6, <1>7 DEF Stands, u, n, l

\* Where 0 has been read, the bytes of a number are read as the number.
LEMMA NumberRead ==
  ASSUME NEW n \in Nat, n <= Beyond, NEW first \in Int, NEW c \in Seq(Byte), NEW p \in Nat,
         NumberAfter(first, c)[p] = 0, Stands(to_bytes(n), c, p)
  PROVE  NumberAfter(first, c)[p + Len(to_bytes(n))] = n
  <1> DEFINE A == NumberAfter(first, c)
             D == BytesUpTo(n)
             T == {a \in 0..n : Stands(D[a], c, p) => A[p + Len(D[a])] = a}
  <1>1. AreBytes(D, n) /\ to_bytes(n) = D[n]
    BY BytesAre
  <1>2. \A k \in 1..Len(c) : A[k] = Capped(256 * A[k - 1] + c[k])
    <2>1. Reads(A, first, c, Int)
      BY NumberIs
    <2> HIDE DEF A
    <2> QED
      BY <2>1 DEF Reads
  <1>3. A[p] = 0
    OBVIOUS
  <1> HIDE DEF A, D
  <1> USE DEF AreBytes
  <1>4. ASSUME NEW a \in 0..n, \A m \in 0..n : m < a => m \in T, Stands(D[a], c, p)
        PROVE  A[p + Len(D[a])] = a
    <2>1. CASE a = 0
      <3>1. Len(<<>>) = 0 /\ p + 0 = p
        BY SMT
      <3> QED
        BY <1>1, <1>3, <2>1, <3>1
    <2>2. CASE a # 0
      <3> DEFINE q == a \div 256
                 r == a % 256
      <3>1. a \in 1..n /\ a \in Nat /\ a <= Beyond
        BY <2>2, BeyondAssumption, SMT
      <3>2. a = 256 * q + r
        BY <3>1, Divide
      <3>3. D[a] = Append(D[q], r) /\ q \in 0..n /\ q < a /\ r \in Byte
        <4>1. /\ D[a] = Append(D[a \div 256], a % 256)
              /\ a \div 256 \in 0..n /\ a \div 256 < a /\ a % 256 \in Byte
          BY <1>1, <3>1
        <4> QED
          BY <4>1
      <3> HIDE DEF q, r
      <3> DEFINE l == Len(D[q])
      <3>4. D[q] \in Seq(Byte)
        BY <1>1, <3>3
      <3>5. /\ Stands(D[q], c, p) /\ l \in Nat /\ Len(D[a]) = l + 1
            /\ p + l + 1 <= Len(c) /\ c[p + l + 1] = r
        <4> DEFINE t == D[q]
        <4>1. t \in Seq(Byte) /\ Stands(Append(t, r), c, p)
          BY <1>4, <3>3, <3>4
        <4> HIDE DEF t
        <4>2. /\ Stands(t, c, p) /\ Len(t) \in Nat
              /\ Len(Append(t, r)) = Len(t) + 1
              /\ p + Len(t) + 1 <= Len(c) /\ c[p + Len(t) + 1] = r
          BY <3>3, <4>1, AppendStands
        <4> QED
          BY <3>3, <4>2 DEF t
      <3>6. A[p + l] = q
        <4>1. q \in T
          BY <1>4, <3>3
        <4> QED
          BY <3>5, <4>1
      <3> HIDE DEF l
      <3>7. /\ p + (l + 1) \in 1..Len(c) /\ (p + (l + 1)) - 1 = p + l
            /\ p + (l + 1) = p + l + 1
        <4>1. Len(c) \in Nat
          BY LenProperties
        <4> QED
          BY <3>5, <4>1, SMT
      <3>8. A[p + (l + 1)] = Capped(256 * q + r)
        <4>1. A[p + (l + 1)] = Capped(256 * A[(p + (l + 1)) - 1] + c[p + (l + 1)])
          BY <1>2, <3>7
        <4> QED
          BY <3>5, <3>6, <3>7, <4>1
      <3>9. Capped(a) = a
        BY <3>1, BeyondAssumption, SMT DEF Capped
      <3> QED
        BY <3>2, <3>5, <3>8, <3>9
    <2> QED
      BY <2>1, <2>2
  <1>5. \A a \in 0..n : (\A m \in 0..n : m < a => m \in T) => a \in T
    BY <1>4
  <1>6. n \in T
    <2> HIDE DEF T
    <2>1. n \in 0..n
      BY SMT
    <2> QED
      BY <1>5, <2>1, UpTo
  <1> QED
    BY <1>1, <1>6 DEF A

LEMMA ToBytes ==
  ASSUME NEW n \in Nat, n <= Beyond
  PROVE  to_bytes(n) \in Seq(Byte) /\ from_bytes(to_bytes(n)) = n
  <1> DEFINE t == to_bytes(n)
  <1>2. t \in Seq(Byte)
    BY BytesAre
  <1>3. Stands(t, t, 0) /\ Len(t) \in Nat
    <2> HIDE DEF t
    <2> QED
      BY <1>2, SMT DEF Stands
  <1>4. NumberAfter(0, t)[0] = 0
    <2>1. 0 \in Int
      OBVIOUS
    <2> HIDE DEF t
    <2>2. Reads(NumberAfter(0, t), 0, t, Int)
      BY <1>2, <2>1, NumberIs
    <2> QED
      BY <2>2 DEF Reads
  <1>5. NumberAfter(0, t)[0 + Len(t)] = n
    BY <1>2, <1>3, <1>4, NumberRead
  <1>6. 0 + Len(t) = Len(t)
    <2> HIDE DEF t
    <2> QED
      BY <1>3, SMT
  <1> QED
    BY <1>2, <1>5, <1>6 DEF from_bytes

-----------------------------------------------------------------------------
(***************************************************************************)
(* Lengths.                                                                *)
(***************************************************************************)
\* An encoded length: how long it is and how it starts.
LEMMA EncodedLength ==
  ASSUME NEW n \in Nat, Fits(n)
  PROVE  /\ encode_length(n) \in Seq(Byte)
         /\ Len(encode_length(n)) \in 1..5
         /\ n < 128 => encode_length(n) = <<n>>
         /\ n >= 128 => LET w == Len(to_bytes(n))
                        IN  /\ w \in 1..4
                            /\ Len(encode_length(n)) = 1 + w
                            /\ encode_length(n)[1] = 128 + w
                            /\ SubSeq(encode_length(n), 2, 1 + w) = to_bytes(n)
  <1>1. CASE n < 128
    BY SMT, <1>1 DEF encode_length, Byte
  <1>2. CASE n >= 128
    <2> DEFINE body == to_bytes(n)
               w == Len(body)
    <2>1. w \in 1..4 /\ body \in Seq(Byte)
      <3>1. w \in 0..4
        BY FourBytes DEF Fits
      <3>2. n # 0
        BY <1>2, SMT
      <3>3. w >= 1
        BY <3>2, FirstByte
      <3>4. body \in Seq(Byte)
        BY BytesAre
      <3> HIDE DEF w, body
      <3> QED
        BY <3>1, <3>3, <3>4, SMT
    <2>2. encode_length(n) = <<128 + w>> \o body
      <3>1. ~(n < 128)
        BY <1>2, SMT
      <3> QED
        BY <3>1 DEF encode_length
    <2> HIDE DEF body
    <2>3. 128 + w \in Byte
      <3> HIDE DEF w
      <3> QED
        BY SMT, <2>1 DEF Byte
    <2> DEFINE h == 128 + w
    <2>4. /\ <<h>> \o body \in Seq(Byte) /\ Len(<<h>> \o body) = 1 + w
          /\ (<<h>> \o body)[1] = h
          /\ SubSeq(<<h>> \o body, 2, 1 + w) = body
      <3>1. h \in Byte
        BY <2>3
      <3> HIDE DEF h
      <3> QED
        BY SMT, <2>1, <3>1
    <2> HIDE DEF h
    <2>5. encode_length(n) = <<h>> \o body
      BY <2>2 DEF h
    <2>6. 1 + w \in 1..5 /\ ~(n < 128)
      <3> HIDE DEF w
      <3> QED
        BY <1>2, <2>1, SMT
    <2> QED
      BY <2>1, <2>4, <2>5, <2>6 DEF w, body, h
  <1> QED
    BY SMT, <1>1, <1>2

(***************************************************************************)
(* What the reader computes, in terms of SubSeq and without the offset 0.  *)
(***************************************************************************)
LEMMA SliceIs ==
  ASSUME NEW b \in Seq(Byte), NEW h \in Nat, NEW e \in Nat, h <= e, e <= Len(b)
  PROVE  Slice(b, h, e) = SubSeq(b, h + 1, e)
  BY SMT DEF Slice

LEMMA SliceAll ==
  ASSUME NEW b \in Seq(Byte)
  PROVE  Slice(b, 0, Len(b)) = b
  BY SMT DEF Slice

LEMMA ShortEnd ==
  ASSUME NEW b \in Seq(Byte), LengthByte(b, 0) \in Nat, LengthByte(b, 0) < 128
  PROVE  HeaderLen(b, 0) = 2 /\ End(b, 0) = 2 + LengthByte(b, 0)
  BY SMT DEF End, HeaderLen

LEMMA LongEnd ==
  ASSUME NEW b \in Seq(Byte), LengthByte(b, 0) \in 129..132, NEW n \in Nat,
         from_bytes(Slice(b, 2, HeaderLen(b, 0))) = n
  PROVE  End(b, 0) = HeaderLen(b, 0) + n
  BY SMT DEF End, HeaderLen

LEMMA ReadableWhole ==
  ASSUME NEW b \in Seq(Byte), 1 < Len(b), b[1] % 32 # 31,
         LengthByte(b, 0) # 128 /\ LengthByte(b, 0) <= 132,
         HeaderLen(b, 0) \in Nat, HeaderLen(b, 0) <= Len(b), End(b, 0) = Len(b)
  PROVE  Readable(b, 0)
  <1>1. 0 + 1 = 1 /\ 0 + 1 < Len(b)
    BY SMT
  <1>2. 0 + HeaderLen(b, 0) <= Len(b) /\ End(b, 0) <= Len(b)
    BY SMT
  <1> QED
    BY <1>1, <1>2, Zenon DEF Readable

(***************************************************************************)
(* The bytes of a TLV, part by part.                                       *)
(***************************************************************************)
LEMMA HeaderRead ==
  ASSUME NEW n \in Nat, Fits(n), NEW b \in Seq(Byte), NEW l,
         l = encode_length(n), Len(b) = 1 + Len(l) + n,
         \A k \in 1..Len(l) : b[1 + k] = l[k]
  PROVE  /\ HeaderLen(b, 0) = 1 + Len(l)
         /\ LengthByte(b, 0) # 128 /\ LengthByte(b, 0) <= 132
         /\ End(b, 0) = Len(b)
  <1>1. l \in Seq(Byte) /\ Len(l) \in 1..5
    BY EncodedLength
  <1>2. LengthByte(b, 0) = l[1]
    BY SMT, <1>1 DEF LengthByte
  <1>3. CASE n < 128
    <2>1. l = <<n>>
      BY <1>3, EncodedLength
    <2>2. LengthByte(b, 0) = n /\ Len(l) = 1
      BY SMT, <1>2, <2>1
    <2>3. HeaderLen(b, 0) = 2 /\ End(b, 0) = 2 + n
      BY <1>3, <2>2, ShortEnd
    <2>4. HeaderLen(b, 0) = 1 + Len(l) /\ End(b, 0) = Len(b)
      BY SMT, <2>2, <2>3
    <2>5. LengthByte(b, 0) # 128 /\ LengthByte(b, 0) <= 132
      BY SMT, <1>3, <2>2
    <2> QED
      BY <2>4, <2>5
  <1>4. CASE n >= 128
    <2> DEFINE w == Len(to_bytes(n))
    <2>1. /\ l[1] = 128 + w /\ Len(l) = 1 + w /\ w \in 1..4
          /\ SubSeq(l, 2, 1 + w) = to_bytes(n)
      BY <1>4, EncodedLength
    <2> HIDE DEF w
    <2>2. from_bytes(to_bytes(n)) = n
      BY ToBytes DEF Fits
    <2>3. HeaderLen(b, 0) = 1 + Len(l) /\ LengthByte(b, 0) \in 129..132
      BY SMT, <1>2, <2>1 DEF HeaderLen
    <2>4. SubSeq(b, 3, 1 + Len(l)) = SubSeq(l, 2, Len(l))
      BY SMT, <1>1
    <2>5. Slice(b, 2, HeaderLen(b, 0)) = SubSeq(b, 3, 1 + Len(l))
      BY SMT, <1>1, <2>3 DEF Slice
    <2>6. from_bytes(Slice(b, 2, HeaderLen(b, 0))) = n
      BY <2>1, <2>2, <2>4, <2>5
    <2>7. LengthByte(b, 0) \in 129..132
      BY <2>3
    <2>8. End(b, 0) = HeaderLen(b, 0) + n
      BY <2>6, <2>7, LongEnd
    <2>9. End(b, 0) = Len(b)
      BY SMT, <1>1, <2>3, <2>8
    <2>10. LengthByte(b, 0) # 128 /\ LengthByte(b, 0) <= 132
      BY SMT, <2>7
    <2> QED
      BY <2>3, <2>9, <2>10
  <1> QED
    BY SMT, <1>3, <1>4

(***************************************************************************)
(* The TLV that encode_tlv writes is the one read_tlv reads: its header,   *)
(* its end, its content (asn1.py).                                         *)
(***************************************************************************)
THEOREM WrittenIsRead ==
  ASSUME NEW tag \in Byte, tag % 32 # 31,
         NEW bytes \in Seq(Byte), Fits(Len(bytes))
  PROVE  /\ encode_tlv(tag, bytes) \in Seq(Byte)
         /\ Readable(encode_tlv(tag, bytes), 0)
         /\ read_tlv(encode_tlv(tag, bytes), 0) =
              [tag |-> tag, content |-> bytes, full |-> encode_tlv(tag, bytes),
               end |-> Len(encode_tlv(tag, bytes))]
  <1> DEFINE n == Len(bytes)
             l == encode_length(n)
             b == encode_tlv(tag, bytes)
  <1>1. n \in Nat
    BY LenProperties
  <1>2. b = (<<tag>> \o l) \o bytes
    BY DEF encode_tlv
  <1>3. Fits(n)
    OBVIOUS
  <1>4. l \in Seq(Byte) /\ Len(l) \in 1..5
    <2> HIDE DEF n
    <2> QED
      BY <1>1, <1>3, EncodedLength
  <1> HIDE DEF l, b
  <1>5. b \in Seq(Byte) /\ Len(b) = 1 + Len(l) + n
    BY SMT, <1>2, <1>4
  <1>6. b[1] = tag /\ \A k \in 1..Len(l) : b[1 + k] = l[k]
    BY SMT, <1>1, <1>2, <1>4
  <1>7. SubSeq(b, 2 + Len(l), Len(b)) = bytes
    BY SMT, <1>1, <1>2, <1>4, <1>5
  <1> HIDE DEF n
  <1>8. /\ HeaderLen(b, 0) = 1 + Len(l)
        /\ LengthByte(b, 0) # 128 /\ LengthByte(b, 0) <= 132
        /\ End(b, 0) = Len(b)
    BY <1>1, <1>3, <1>5, <1>6, HeaderRead DEF l
  <1>9. Slice(b, 0, End(b, 0)) = b
    BY <1>5, <1>8, SliceAll
  <1>10. Slice(b, HeaderLen(b, 0), End(b, 0)) = bytes
    <2>1. /\ HeaderLen(b, 0) \in Nat /\ End(b, 0) \in Nat
          /\ HeaderLen(b, 0) <= End(b, 0) /\ End(b, 0) <= Len(b)
      BY SMT, <1>1, <1>4, <1>5, <1>8
    <2>2. Slice(b, HeaderLen(b, 0), End(b, 0)) = SubSeq(b, HeaderLen(b, 0) + 1, End(b, 0))
      BY <1>5, <2>1, SliceIs
    <2>3. HeaderLen(b, 0) + 1 = 2 + Len(l)
      BY SMT, <1>4, <1>8
    <2> QED
      BY <1>7, <1>8, <2>2, <2>3
  <1>11. Readable(b, 0)
    <2>1. 1 < Len(b) /\ HeaderLen(b, 0) \in Nat /\ HeaderLen(b, 0) <= Len(b)
      BY SMT, <1>1, <1>4, <1>5, <1>8
    <2>2. b[1] % 32 # 31
      BY <1>6
    <2> QED
      BY <1>5, <1>8, <2>1, <2>2, ReadableWhole
  <1>12. 0 + 1 = 1 /\ 0 + HeaderLen(b, 0) = HeaderLen(b, 0)
    BY SMT, <1>4, <1>8
  <1>13. read_tlv(b, 0) = [tag |-> tag, content |-> bytes, full |-> b, end |-> Len(b)]
    BY <1>6, <1>8, <1>9, <1>10, <1>12, Zenon DEF read_tlv
  <1> QED
    BY <1>5, <1>11, <1>13 DEF b

-----------------------------------------------------------------------------
(***************************************************************************)
(* What read_tlv computes on any bytes, before it is known to be readable: *)
(* its header has at least two bytes, and its end is behind them.          *)
(***************************************************************************)
LEMMA ByteIs ==
  ASSUME NEW x \in Byte
  PROVE  x \in Nat /\ x <= 255
  BY SMT DEF Byte

LEMMA SliceTyped ==
  ASSUME NEW b \in Seq(Byte), NEW h \in Nat, NEW e \in Nat
  PROVE  Slice(b, h, e) \in Seq(Byte)
  BY SMT DEF Slice

LEMMA EndTyped ==
  ASSUME NEW b \in Seq(Byte), NEW o \in Nat, o + 1 < Len(b)
  PROVE  /\ LengthByte(b, o) \in Byte /\ b[o + 1] \in Byte
         /\ LengthByte(b, o) # 128 => /\ HeaderLen(b, o) \in Nat /\ HeaderLen(b, o) >= 2
                                      /\ End(b, o) \in Nat
                                      /\ End(b, o) >= o + HeaderLen(b, o)
  <1>1. o + 1 \in 1..Len(b) /\ o + 2 \in 1..Len(b)
    BY SMT, LenProperties
  <1>2. LengthByte(b, o) \in Byte /\ b[o + 1] \in Byte
    BY <1>1, ElementOfSeq DEF LengthByte
  <1>3. ASSUME LengthByte(b, o) # 128
        PROVE  /\ HeaderLen(b, o) \in Nat /\ HeaderLen(b, o) >= 2
               /\ End(b, o) \in Nat /\ End(b, o) >= o + HeaderLen(b, o)
    <2> DEFINE v == from_bytes(Slice(b, o + 2, o + HeaderLen(b, o)))
    <2>1. HeaderLen(b, o) \in Nat /\ HeaderLen(b, o) >= 2
      <3> DEFINE x == LengthByte(b, o)
      <3>1. x \in Nat
        BY <1>2, ByteIs
      <3>2. HeaderLen(b, o) = IF x < 128 THEN 2 ELSE x - 126
        BY DEF HeaderLen
      <3> HIDE DEF x
      <3> QED
        BY SMT, <3>1, <3>2
    <2>2. v \in Nat
      <3>1. o + 2 \in Nat /\ o + HeaderLen(b, o) \in Nat
        BY SMT, <2>1
      <3> QED
        BY <3>1, SliceTyped, FromBytesTyped
    <2>3. End(b, o) = o + HeaderLen(b, o)
                      + (IF LengthByte(b, o) < 128 THEN LengthByte(b, o) ELSE v)
      BY DEF End
    <2> HIDE DEF v
    <2> DEFINE w == IF LengthByte(b, o) < 128 THEN LengthByte(b, o) ELSE v
    <2>4. w \in Nat
      BY <1>2, <2>2, ByteIs
    <2>5. End(b, o) = o + HeaderLen(b, o) + w
      BY <2>3
    <2> HIDE DEF w
    <2> QED
      BY SMT, <2>1, <2>4, <2>5
  <1> QED
    BY <1>2, <1>3

LEMMA ReadTyped ==
  ASSUME NEW b \in Seq(Byte), NEW o \in Nat, Readable(b, o)
  PROVE  /\ read_tlv(b, o) \in Child
         /\ o + 2 <= read_tlv(b, o).end
         /\ read_tlv(b, o).end \in 0..Len(b)
  <1>1. /\ o + 1 < Len(b) /\ LengthByte(b, o) # 128
        /\ End(b, o) <= Len(b)
    BY DEF Readable
  <1>2. /\ b[o + 1] \in Byte /\ HeaderLen(b, o) \in Nat /\ HeaderLen(b, o) >= 2
        /\ End(b, o) \in Nat /\ End(b, o) >= o + HeaderLen(b, o)
    BY <1>1, EndTyped
  <1>3. o + HeaderLen(b, o) \in Nat
    BY SMT, <1>2
  <1>4. /\ Slice(b, o + HeaderLen(b, o), End(b, o)) \in Seq(Byte)
        /\ Slice(b, o, End(b, o)) \in Seq(Byte)
    BY <1>2, <1>3, SliceTyped
  <1>5. read_tlv(b, o) \in Child
    BY <1>2, <1>4 DEF read_tlv, Child
  <1>6. o + 2 <= End(b, o) /\ End(b, o) \in 0..Len(b)
    BY SMT, <1>1, <1>2, LenProperties
  <1> QED
    BY <1>5, <1>6 DEF read_tlv

(***************************************************************************)
(* A TLV that ends where the bytes end is not readable in fewer of them:   *)
(* what is left of the header says the same end.                           *)
(***************************************************************************)
LEMMA CutIsUnreadable ==
  ASSUME NEW b \in Seq(Byte), End(b, 0) = Len(b), NEW n \in 0..(Len(b) - 1)
  PROVE  ~Readable(SubSeq(b, 1, n), 0)
  <1> DEFINE c == SubSeq(b, 1, n)
  <1>1. Len(b) \in Nat /\ n \in Nat /\ n < Len(b)
    BY SMT, LenProperties
  <1>2. c \in Seq(Byte) /\ Len(c) = n /\ \A k \in 1..n : c[k] = b[k]
    BY SMT, <1>1
  <1> SUFFICES ASSUME Readable(c, 0)
               PROVE  FALSE
    OBVIOUS
  <1> HIDE DEF c
  <1>3. /\ 0 + 1 < Len(c) /\ LengthByte(c, 0) # 128
        /\ 0 + HeaderLen(c, 0) <= Len(c) /\ End(c, 0) <= Len(c)
    BY DEF Readable
  <1>4. 1 < n
    BY SMT, <1>2, <1>3
  <1>5. LengthByte(c, 0) = LengthByte(b, 0)
    <2>1. 0 + 2 \in 1..n
      BY SMT, <1>1, <1>4
    <2> QED
      BY <1>2, <2>1 DEF LengthByte
  <1>6. HeaderLen(c, 0) = HeaderLen(b, 0)
    BY <1>5 DEF HeaderLen
  <1>7. HeaderLen(c, 0) \in Nat /\ HeaderLen(c, 0) >= 2
    BY <1>2, <1>3, EndTyped
  <1>8. HeaderLen(c, 0) <= n
    BY SMT, <1>2, <1>3, <1>7
  <1>9. Slice(c, 0 + 2, 0 + HeaderLen(c, 0)) = Slice(b, 0 + 2, 0 + HeaderLen(b, 0))
    <2> DEFINE h == HeaderLen(c, 0)
    <2>1. h \in Nat /\ 2 <= h /\ h <= n
      BY <1>7, <1>8
    <2> HIDE DEF h
    <2>2. 0 + 2 = 2 /\ 0 + h = h /\ h <= Len(b)
      BY SMT, <1>1, <2>1
    <2>3. Slice(c, 2, h) = SubSeq(c, 2 + 1, h) /\ Slice(b, 2, h) = SubSeq(b, 2 + 1, h)
      BY <1>2, <2>1, <2>2, SliceIs
    <2>4. SubSeq(c, 2 + 1, h) = SubSeq(b, 2 + 1, h)
      <3>1. h <= Len(c) /\ 2 + 1 \in Int
        BY SMT, <1>2, <2>1
      <3> QED
        BY SMT, <1>1, <1>2, <2>1, <2>2, <3>1
    <2> QED
      BY <1>6, <2>2, <2>3, <2>4 DEF h
  <1>10. End(c, 0) = End(b, 0)
    BY <1>5, <1>6, <1>9 DEF End
  <1> QED
    BY SMT, <1>1, <1>2, <1>3, <1>10

-----------------------------------------------------------------------------
(***************************************************************************)
(* Bytes put one behind the other.                                         *)
(***************************************************************************)
\* What has been joined up to each piece.
LEMMA JoinedIs ==
  ASSUME NEW first \in Seq(Byte), NEW pieces \in Seq(Seq(Byte))
  PROVE  /\ Joined(first, pieces) \in [0..Len(pieces) -> Seq(Byte)]
         /\ Joined(first, pieces)[0] = first
         /\ \A n \in 1..Len(pieces) :
               Joined(first, pieces)[n] = Joined(first, pieces)[n - 1] \o pieces[n]
  <1> DEFINE N == Len(pieces)
             J == Joined(first, pieces)
             before == [n \in 1..N |-> n - 1]
             g == [n \in 1..N |-> [s \in Seq(Byte) |-> s \o pieces[n]]]
             Eq(f) == f = [n \in 0..N |-> IF n = 0 THEN first ELSE f[n - 1] \o pieces[n]]
  <1>1. N \in Nat /\ \A n \in 1..N : pieces[n] \in Seq(Byte)
    BY LenProperties, ElementOfSeq
  <1>2. J = CHOOSE h : Eq(h)
    BY DEF Joined
  <1> HIDE DEF N, J
  <1>3. \A n \in 1..N : n \in 0..N /\ n # 0 /\ n - 1 \in 0..N /\ n - 1 < n
    BY <1>1, SMT
  <1>4. \A n \in 0..N : n # 0 => n \in 1..N
    BY <1>1, SMT
  <1>5. before \in [1..N -> 0..N] /\ Descends(before, N)
    BY <1>3 DEF Descends
  <1>6. \A s \in Seq(Byte), t \in Seq(Byte) : s \o t \in Seq(Byte)
    BY ConcatProperties
  <1>7. g \in [1..N -> [Seq(Byte) -> Seq(Byte)]]
    BY <1>1, <1>6
  <1>8. PICK f \in [0..N -> Seq(Byte)] : Recurs(f, N, first, before, g)
    <2> HIDE DEF g, before, Eq
    <2> QED
      BY <1>1, <1>5, <1>7, Recursion
  <1>9. f[0] = first /\ \A n \in 1..N : f[n] = f[n - 1] \o pieces[n]
    BY <1>3, <1>8 DEF Recurs
  <1>10. Eq(f)
    BY <1>4, <1>9
  <1>11. Eq(J)
    <2> HIDE DEF Eq
    <2> QED
      BY <1>2, <1>10
  <1> HIDE DEF before, g
  <1>12. J[0] = first
    BY <1>1, <1>11
  <1>13. \A n \in 1..N : J[n] = J[n - 1] \o pieces[n]
    BY <1>3, <1>11
  <1>14. \A n \in 0..N : J[n] \in Seq(Byte)
    <2> DEFINE T == {n \in 0..N : J[n] \in Seq(Byte)}
    <2>1. ASSUME NEW n \in 0..N, \A m \in 0..N : m < n => m \in T
          PROVE  n \in T
      <3>1. CASE n = 0
        BY <1>12, <3>1
      <3>2. CASE n # 0
        <4>1. n \in 1..N
          BY <1>4, <3>2
        <4>2. J[n - 1] \in Seq(Byte)
          BY <1>3, <2>1, <4>1
        <4> QED
          BY <1>1, <1>6, <1>13, <4>1, <4>2
      <3> QED
        BY <3>1, <3>2
    <2> HIDE DEF T
    <2>2. \A n \in 0..N : n \in T
      BY <1>1, <2>1, UpTo
    <2> QED
      BY <2>2 DEF T
  <1>15. J \in [0..N -> Seq(Byte)]
    BY <1>11, <1>14
  <1> QED
    BY <1>12, <1>13, <1>15 DEF J, N

LEMMA ConcatIs ==
  ASSUME NEW s \in Seq(Byte), NEW t \in Seq(Byte), NEW u, u = s \o t
  PROVE  /\ u \in Seq(Byte) /\ Len(u) = Len(s) + Len(t) /\ Len(s) \in Nat /\ Len(t) \in Nat
         /\ \A i \in 1..Len(s) : u[i] = s[i]
         /\ \A i \in 1..Len(t) : u[Len(s) + i] = t[i] /\ Len(s) + i \in 1..Len(u)
  BY SMT

\* Each piece is found again behind what was joined before it.
LEMMA PieceFound ==
  ASSUME NEW first \in Seq(Byte), NEW pieces \in Seq(Seq(Byte)), NEW k \in 0..Len(pieces)
  PROVE  LET J == Joined(first, pieces)
             N == Len(pieces)
         IN  /\ Len(J[k]) <= Len(J[N])
             /\ \A i \in 1..Len(J[k]) : J[N][i] = J[k][i]
             /\ k < N => /\ Len(J[k + 1]) = Len(J[k]) + Len(pieces[k + 1])
                         /\ Len(J[k + 1]) <= Len(J[N])
                         /\ \A i \in 1..Len(pieces[k + 1]) :
                               J[N][Len(J[k]) + i] = pieces[k + 1][i]
  <1> DEFINE J == Joined(first, pieces)
             N == Len(pieces)
             Begins(m, n) == Len(J[m]) <= Len(J[n]) /\ \A i \in 1..Len(J[m]) : J[n][i] = J[m][i]
  <1>1. N \in Nat /\ \A n \in 1..N : pieces[n] \in Seq(Byte)
    BY LenProperties, ElementOfSeq
  <1>2. J \in [0..N -> Seq(Byte)] /\ \A n \in 1..N : J[n] = J[n - 1] \o pieces[n]
    BY JoinedIs
  <1> HIDE DEF J, N
  <1>4. ASSUME NEW m \in 0..N
        PROVE  \A n \in 0..N : m <= n => Begins(m, n)
    <2> DEFINE T == {n \in 0..N : m <= n => Begins(m, n)}
    <2>1. ASSUME NEW n \in 0..N, \A x \in 0..N : x < n => x \in T
          PROVE  n \in T
      <3>1. CASE m > n
        BY <1>1, <3>1, SMT
      <3>2. CASE m = n
        BY <1>2, <3>2, LenProperties
      <3>3. CASE m < n
        <4>1. n \in 1..N /\ n - 1 \in 0..N /\ n - 1 < n /\ m <= n - 1
          BY <1>1, <3>3, SMT
        <4>2. Begins(m, n - 1)
          BY <2>1, <4>1
        <4>3. J[n] = J[n - 1] \o pieces[n] /\ J[n - 1] \in Seq(Byte) /\ pieces[n] \in Seq(Byte)
          BY <1>1, <1>2, <4>1
        <4>4. /\ Len(J[n]) = Len(J[n - 1]) + Len(pieces[n])
              /\ Len(J[n - 1]) \in Nat /\ Len(pieces[n]) \in Nat
              /\ \A i \in 1..Len(J[n - 1]) : J[n][i] = J[n - 1][i]
          <5> DEFINE s == J[n - 1]
                     t == pieces[n]
                     u == J[n]
          <5>1. s \in Seq(Byte) /\ t \in Seq(Byte) /\ u = s \o t
            BY <4>3
          <5> HIDE DEF s, t, u
          <5>2. /\ Len(u) = Len(s) + Len(t) /\ Len(s) \in Nat /\ Len(t) \in Nat
                /\ \A i \in 1..Len(s) : u[i] = s[i]
            BY <5>1, ConcatIs
          <5> QED
            BY <5>2 DEF s, t, u
        <4>5. J[m] \in Seq(Byte)
          BY <1>2
        <4>6. Len(J[m]) \in Nat
          BY <4>5, LenProperties
        <4>7. Len(J[m]) <= Len(J[n]) /\ \A i \in 1..Len(J[m]) : i \in 1..Len(J[n - 1])
          <5>1. Len(J[m]) <= Len(J[n - 1])
            BY <4>2
          <5>2. Len(J[n]) = Len(J[n - 1]) + Len(pieces[n]) /\ Len(J[n - 1]) \in Nat /\ Len(pieces[n]) \in Nat
            BY <4>4
          <5> DEFINE x == Len(J[m])
                     y == Len(J[n - 1])
                     z == Len(pieces[n])
          <5>3. x \in Nat /\ y \in Nat /\ z \in Nat /\ x <= y
            BY <4>6, <5>1, <5>2, Zenon
          <5> HIDE DEF x, y, z
          <5>4. x <= y + z /\ \A i \in 1..x : i \in 1..y
            BY <5>3, SMT
          <5> QED
            BY <5>2, <5>4, Zenon DEF x, y, z
        <4> QED
          BY <4>2, <4>4, <4>7
      <3> QED
        BY <1>1, <3>1, <3>2, <3>3, SMT
    <2> HIDE DEF T
    <2>2. \A n \in 0..N : n \in T
      BY <1>1, <2>1, UpTo
    <2> QED
      BY <2>2 DEF T
  <1>5. k \in 0..N /\ N \in 0..N /\ k <= N
    BY <1>1, SMT DEF N
  <1>6. Begins(k, N)
    BY <1>4, <1>5
  <1>7. ASSUME k < N
        PROVE  /\ Len(J[k + 1]) = Len(J[k]) + Len(pieces[k + 1])
               /\ Len(J[k + 1]) <= Len(J[N])
               /\ \A i \in 1..Len(pieces[k + 1]) : J[N][Len(J[k]) + i] = pieces[k + 1][i]
    <2>1. k + 1 \in 1..N /\ k + 1 \in 0..N /\ k + 1 <= N /\ (k + 1) - 1 = k
      BY <1>1, <1>5, <1>7, SMT
    <2>2. Begins(k + 1, N)
      BY <1>4, <1>5, <2>1
    <2>3. J[k + 1] = J[k] \o pieces[k + 1] /\ J[k] \in Seq(Byte) /\ pieces[k + 1] \in Seq(Byte)
      BY <1>1, <1>2, <1>5, <2>1
    <2>4. /\ Len(J[k + 1]) = Len(J[k]) + Len(pieces[k + 1])
          /\ Len(J[k]) \in Nat /\ Len(pieces[k + 1]) \in Nat
          /\ \A i \in 1..Len(pieces[k + 1]) : J[k + 1][Len(J[k]) + i] = pieces[k + 1][i]
      <3> DEFINE s == J[k]
                 t == pieces[k + 1]
                 u == J[k + 1]
      <3>1. s \in Seq(Byte) /\ t \in Seq(Byte) /\ u = s \o t
        BY <2>3
      <3> HIDE DEF s, t, u
      <3>2. /\ Len(u) = Len(s) + Len(t) /\ Len(s) \in Nat /\ Len(t) \in Nat
            /\ \A i \in 1..Len(t) : u[Len(s) + i] = t[i]
        BY <3>1, ConcatIs
      <3> QED
        BY <3>2 DEF s, t, u
    <2>5. \A i \in 1..Len(pieces[k + 1]) : Len(J[k]) + i \in 1..Len(J[k + 1])
      BY <2>3, ConcatIs
    <2> QED
      BY <2>2, <2>4, <2>5
  <1> QED
    BY <1>6, <1>7 DEF J, N

-----------------------------------------------------------------------------
(***************************************************************************)
(* What a value is written as: a tag, a length, and this content.          *)
(***************************************************************************)
ValuePieces(values) == [n \in 1..Len(values) |-> Encoded(values[n])]

ArcPieces(arcs) == [n \in 1..(Len(arcs) - 2) |-> Chunk(arcs[n + 2])]

LEMMA TlvTyped ==
  ASSUME NEW tag \in Byte, NEW bytes \in Seq(Byte), Fits(Len(bytes))
  PROVE  /\ encode_tlv(tag, bytes) \in Seq(Byte)
         /\ Len(bytes) + 2 <= Len(encode_tlv(tag, bytes))
  <1> DEFINE n == Len(bytes)
             l == encode_length(n)
  <1>1. n \in Nat /\ Fits(n)
    BY LenProperties
  <1>2. l \in Seq(Byte) /\ Len(l) \in 1..5
    <2> HIDE DEF n
    <2> QED
      BY <1>1, EncodedLength
  <1> HIDE DEF l
  <1>3. encode_tlv(tag, bytes) = (<<tag>> \o l) \o bytes
    BY DEF encode_tlv, l
  <1>4. Len(l) >= 1
    <2>1. \A k \in 1..5 : k >= 1
      BY SMT
    <2> QED
      BY <1>2, <2>1
  <1> QED
    BY <1>2, <1>3, <1>4, SMT DEF n

\* An integer is at least one byte, the first of which is no sign.
LEMMA IntegerIs ==
  ASSUME NEW n \in Nat
  PROVE  /\ IntegerBytes(n) \in Seq(Byte) /\ Len(IntegerBytes(n)) >= 1
         /\ IntegerBytes(n)[1] < 128
         /\ \/ n = 0 /\ IntegerBytes(n) = <<0>>
            \/ n # 0 /\ IntegerBytes(n) = to_bytes(n)
            \/ n # 0 /\ IntegerBytes(n) = <<0>> \o to_bytes(n) /\ to_bytes(n)[1] >= 128
  <1>1. CASE n = 0
    <2>1. IntegerBytes(n) = <<0>>
      BY <1>1 DEF IntegerBytes
    <2>2. <<0>> \in Seq(Byte) /\ Len(<<0>>) = 1 /\ <<0>>[1] < 128
      BY SMT DEF Byte
    <2> DEFINE b == IntegerBytes(n)
    <2>3. b = <<0>>
      BY <2>1
    <2> HIDE DEF b
    <2>4. b \in Seq(Byte) /\ Len(b) >= 1 /\ b[1] < 128
      <3>1. Len(<<0>>) >= 1
        BY <2>2
      <3> QED
        BY <2>2, <2>3, <3>1
    <2> QED
      BY <1>1, <2>3, <2>4 DEF b
  <1>2. CASE n # 0
    <2> DEFINE t == to_bytes(n)
    <2>1. t \in Seq(Byte) /\ Len(t) >= 1 /\ t[1] \in Byte
      BY <1>2, BytesAre, FirstByte
    <2>2. IntegerBytes(n) = IF t[1] >= 128 THEN <<0>> \o t ELSE t
      BY <1>2 DEF IntegerBytes
    <2> HIDE DEF t
    <2>3. CASE t[1] >= 128
      <3>1. <<0>> \o t \in Seq(Byte) /\ Len(<<0>> \o t) >= 1 /\ (<<0>> \o t)[1] < 128
        BY <2>1, SMT DEF Byte
      <3> QED
        BY <1>2, <2>2, <2>3, <3>1 DEF t
    <2>4. CASE ~(t[1] >= 128)
      <3>1. t[1] < 128
        <4> DEFINE e == t[1]
        <4>1. e \in Byte /\ ~(e >= 128)
          BY <2>1, <2>4
        <4> HIDE DEF e
        <4>2. e < 128
          BY <4>1, SMT DEF Byte
        <4> QED
          BY <4>2 DEF e
      <3> QED
        BY <1>2, <2>1, <2>2, <2>4, <3>1 DEF t
    <2> QED
      BY <2>3, <2>4
  <1> QED
    BY <1>1, <1>2

\* The digits of an arc, the last one not marked.
LEMMA ChunkIs ==
  ASSUME NEW arc \in Nat
  PROVE  /\ arc \div 128 \in 0..arc /\ arc % 128 \in 0..127 /\ arc % 128 \in Byte
         /\ Marked(arc)[arc \div 128] \in Seq(Byte)
         /\ Chunk(arc) = Append(Marked(arc)[arc \div 128], arc % 128)
         /\ Chunk(arc) \in Seq(Byte)
         /\ Len(Chunk(arc)) = Len(Marked(arc)[arc \div 128]) + 1
         /\ Chunk(arc)[Len(Chunk(arc))] = arc % 128
  <1> DEFINE q == arc \div 128
             r == arc % 128
             d == Marked(arc)[q]
  <1>1. q \in 0..arc /\ r \in 0..127 /\ r \in Byte
    BY Divide, SMT DEF Byte
  <1>2. d \in Seq(Byte)
    <2> HIDE DEF q
    <2>1. Marked(arc) \in [0..arc -> Seq(Byte)]
      BY MarkedIs
    <2> QED
      BY <1>1, <2>1
  <1>3. Chunk(arc) = Append(d, r)
    BY DEF Chunk
  <1> HIDE DEF q, r, d
  <1>4. /\ Append(d, r) \in Seq(Byte) /\ Len(Append(d, r)) = Len(d) + 1
        /\ Append(d, r)[Len(Append(d, r))] = r
    BY <1>1, <1>2, SMT
  <1> QED
    BY <1>1, <1>2, <1>3, <1>4 DEF q, r, d

LEMMA OidIs ==
  ASSUME NEW arcs \in Oid
  PROVE  /\ arcs \in Seq(Nat) /\ Len(arcs) \in Nat /\ Len(arcs) >= 2
         /\ arcs[1] \in 0..2 /\ arcs[2] \in 0..39 /\ 40 * arcs[1] + arcs[2] \in 0..119
         /\ <<40 * arcs[1] + arcs[2]>> \in Seq(Byte)
         /\ Len(arcs) - 2 \in Nat /\ Len(ArcPieces(arcs)) = Len(arcs) - 2
         /\ ArcPieces(arcs) \in Seq(Seq(Byte))
         /\ \A n \in 1..(Len(arcs) - 2) : /\ arcs[n + 2] \in Nat
                                          /\ ArcPieces(arcs)[n] = Chunk(arcs[n + 2])
         /\ OidBytes(arcs) = Joined(<<40 * arcs[1] + arcs[2]>>, ArcPieces(arcs))
  <1>1. /\ arcs \in Seq(Nat) /\ Len(arcs) \in Nat /\ Len(arcs) >= 2
        /\ arcs[1] <= 2 /\ arcs[2] < 40
    BY LenProperties DEF Oid
  <1>2. 1 \in 1..Len(arcs) /\ 2 \in 1..Len(arcs) /\ Len(arcs) - 2 \in Nat
        /\ \A n \in 1..(Len(arcs) - 2) : n + 2 \in 1..Len(arcs)
    BY <1>1, SMT
  <1>3. arcs[1] \in Nat /\ arcs[2] \in Nat /\ \A n \in 1..(Len(arcs) - 2) : arcs[n + 2] \in Nat
    BY <1>1, <1>2, ElementOfSeq
  <1>4. arcs[1] \in 0..2 /\ arcs[2] \in 0..39 /\ 40 * arcs[1] + arcs[2] \in 0..119
    <2> DEFINE x == arcs[1]
               y == arcs[2]
    <2>1. x \in Nat /\ x <= 2 /\ y \in Nat /\ y < 40
      BY <1>1, <1>3
    <2> HIDE DEF x, y
    <2>2. x \in 0..2 /\ y \in 0..39 /\ 40 * x + y \in 0..119
      BY <2>1, SMT
    <2> QED
      BY <2>2 DEF x, y
  <1>5. <<40 * arcs[1] + arcs[2]>> \in Seq(Byte)
    <2> DEFINE x == 40 * arcs[1] + arcs[2]
    <2>1. x \in 0..119
      BY <1>4
    <2> HIDE DEF x
    <2>2. x \in Byte
      BY <2>1, SMT DEF Byte
    <2>3. <<x>> \in Seq(Byte)
      BY <2>2
    <2> QED
      BY <2>3 DEF x
  <1>6. \A n \in 1..(Len(arcs) - 2) : Chunk(arcs[n + 2]) \in Seq(Byte)
    BY <1>3, ChunkIs
  <1>7. ArcPieces(arcs) \in [1..(Len(arcs) - 2) -> Seq(Byte)]
    BY <1>6 DEF ArcPieces
  <1>8. ArcPieces(arcs) \in Seq(Seq(Byte)) /\ Len(ArcPieces(arcs)) = Len(arcs) - 2
    <2> DEFINE N == Len(arcs) - 2
               S == Seq(Byte)
    <2>1. ArcPieces(arcs) \in [1..N -> S] /\ N \in Nat
      BY <1>2, <1>7
    <2> HIDE DEF N, S
    <2>2. ArcPieces(arcs) \in Seq(S) /\ Len(ArcPieces(arcs)) = N
      BY <2>1, SMT
    <2> QED
      BY <2>2 DEF N, S
  <1> QED
    BY <1>1, <1>2, <1>3, <1>4, <1>5, <1>8 DEF ArcPieces, OidBytes

\* A value is written as its tag and its content, of bytes.
LEMMA ValueIs ==
  ASSUME NEW v \in Value
  PROVE  /\ v = [tag |-> v.tag, of |-> v.of]
         /\ v.tag \in {TAG_INTEGER, TAG_OID, TAG_OCTET_STRING}
         /\ v.tag \in Byte /\ v.tag % 32 # 31
         /\ v.tag = TAG_INTEGER => v.of = <<v.of[1]>> /\ v.of[1] \in Nat /\ v.of[1] <= Beyond
         /\ v.tag = TAG_OID => v.of \in Oid
         /\ v.tag = TAG_OCTET_STRING => v.of \in Seq(Byte)
         /\ ValueContent(v) \in Seq(Byte) /\ Fits(Len(ValueContent(v)))
         /\ Encoded(v) = encode_tlv(v.tag, ValueContent(v))
         /\ Encoded(v) \in Seq(Byte)
         /\ Len(ValueContent(v)) + 2 <= Len(Encoded(v))
  <1> USE DEF TAG_INTEGER, TAG_OID, TAG_OCTET_STRING
  <1>1. v = [tag |-> v.tag, of |-> v.of] /\ v.tag \in {TAG_INTEGER, TAG_OID, TAG_OCTET_STRING}
    BY DEF Value
  <1>2. v.tag = TAG_INTEGER => v.of \in [1..1 -> 0..Beyond]
    BY DEF Value
  <1>3. v.tag = TAG_INTEGER => v.of = <<v.of[1]>> /\ v.of[1] \in Nat /\ v.of[1] <= Beyond
    BY <1>2, BeyondAssumption, SMT
  <1>4. v.tag = TAG_OID => v.of \in Oid
    BY DEF Value
  <1>5. v.tag = TAG_OCTET_STRING => v.of \in Seq(Byte)
    BY DEF Value
  <1>6. v.tag \in Byte /\ v.tag % 32 # 31
    BY <1>1, SMT DEF Byte
  <1>7. ASSUME v.tag = TAG_INTEGER
        PROVE  /\ ValueContent(v) = IntegerBytes(v.of[1]) /\ ValueContent(v) \in Seq(Byte)
               /\ Encoded(v) = encode_tlv(v.tag, ValueContent(v))
    <2> DEFINE n == v.of[1]
    <2>1. n \in Nat
      BY <1>3, <1>7
    <2>2. ValueContent(v) = IntegerBytes(n) /\ Encoded(v) = encode_tlv(TAG_INTEGER, IntegerBytes(n))
      BY <1>7 DEF ValueContent, Encoded, encode_integer
    <2> HIDE DEF n
    <2>3. IntegerBytes(n) \in Seq(Byte)
      BY <2>1, IntegerIs
    <2> QED
      BY <1>7, <2>2, <2>3 DEF n
  <1>8. ASSUME v.tag = TAG_OID
        PROVE  /\ ValueContent(v) \in Seq(Byte)
               /\ Encoded(v) = encode_tlv(v.tag, ValueContent(v))
    <2> DEFINE a == v.of
               N == Len(a) - 2
    <2>1. a \in Oid
      BY <1>4, <1>8
    <2>2. ValueContent(v) = OidBytes(a)[N] /\ Encoded(v) = encode_tlv(TAG_OID, OidBytes(a)[N])
      BY <1>8 DEF ValueContent, Encoded, encode_oid
    <2> HIDE DEF a
    <2>3. OidBytes(a) \in [0..N -> Seq(Byte)] /\ N \in Nat
      <3> DEFINE first == <<40 * a[1] + a[2]>>
                 pieces == ArcPieces(a)
      <3>1. /\ first \in Seq(Byte) /\ pieces \in Seq(Seq(Byte)) /\ N \in Nat /\ Len(pieces) = N
            /\ OidBytes(a) = Joined(first, pieces)
        BY <2>1, OidIs
      <3> HIDE DEF first, pieces, N
      <3> QED
        BY <3>1, JoinedIs
    <2> HIDE DEF N
    <2>4. OidBytes(a)[N] \in Seq(Byte)
      BY <2>3, SMT
    <2> QED
      BY <1>8, <2>2, <2>4
  <1>9. ASSUME v.tag = TAG_OCTET_STRING
        PROVE  /\ ValueContent(v) \in Seq(Byte)
               /\ Encoded(v) = encode_tlv(v.tag, ValueContent(v))
    BY <1>5, <1>9 DEF ValueContent, Encoded
  <1>10. ValueContent(v) \in Seq(Byte) /\ Encoded(v) = encode_tlv(v.tag, ValueContent(v))
    BY <1>1, <1>7, <1>8, <1>9
  <1>11. Fits(Len(ValueContent(v)))
    BY DEF Value
  <1>12. Encoded(v) \in Seq(Byte) /\ Len(ValueContent(v)) + 2 <= Len(Encoded(v))
    BY <1>6, <1>10, <1>11, TlvTyped
  <1> QED
    BY <1>1, <1>3, <1>4, <1>5, <1>6, <1>10, <1>11, <1>12

-----------------------------------------------------------------------------
(***************************************************************************)
(* The body of a message: its values, one behind the other, each of which  *)
(* is read where the one before it ends.                                   *)
(***************************************************************************)
LEMMA BodyIs ==
  ASSUME NEW m \in Seq(Value)
  PROVE  /\ Len(m) \in Nat /\ \A n \in 1..Len(m) : m[n] \in Value
         /\ ValuePieces(m) \in Seq(Seq(Byte)) /\ Len(ValuePieces(m)) = Len(m)
         /\ \A n \in 1..Len(m) : ValuePieces(m)[n] = Encoded(m[n])
         /\ ValueBytes(m) = Joined(<<>>, ValuePieces(m))
         /\ ValueBytes(m) \in [0..Len(m) -> Seq(Byte)]
         /\ ValueBytes(m)[0] = <<>>
         /\ Body(m) = ValueBytes(m)[Len(m)] /\ Body(m) \in Seq(Byte)
  <1> DEFINE P == ValuePieces(m)
             N == Len(m)
  <1>1. N \in Nat /\ \A n \in 1..N : m[n] \in Value
    BY LenProperties, ElementOfSeq
  <1>2. \A n \in 1..N : Encoded(m[n]) \in Seq(Byte)
    BY <1>1, ValueIs
  <1>3. P \in [1..N -> Seq(Byte)] /\ \A n \in 1..N : P[n] = Encoded(m[n])
    BY <1>2 DEF ValuePieces
  <1>4. P \in Seq(Seq(Byte)) /\ Len(P) = N
    <2> DEFINE S == Seq(Byte)
    <2>1. P \in [1..N -> S]
      BY <1>3
    <2> HIDE DEF N, S, P
    <2>2. P \in Seq(S) /\ Len(P) = N
      BY <1>1, <2>1, SMT
    <2> QED
      BY <2>2 DEF S
  <1>5. ValueBytes(m) = Joined(<<>>, P)
    BY DEF ValueBytes, ValuePieces
  <1>6. <<>> \in Seq(Byte)
    BY SMT
  <1>7. ValueBytes(m) \in [0..N -> Seq(Byte)] /\ ValueBytes(m)[0] = <<>>
    <2> HIDE DEF P, N
    <2>1. Joined(<<>>, P) \in [0..Len(P) -> Seq(Byte)] /\ Joined(<<>>, P)[0] = <<>>
      BY <1>4, <1>6, JoinedIs
    <2> QED
      BY <1>4, <1>5, <2>1
  <1>8. Body(m) = ValueBytes(m)[N]
    BY DEF Body
  <1>9. N \in 0..N
    BY <1>1, SMT
  <1>10. Body(m) \in Seq(Byte)
    BY <1>7, <1>8, <1>9
  <1> QED
    BY <1>1, <1>3, <1>4, <1>5, <1>7, <1>8, <1>10

-----------------------------------------------------------------------------
(***************************************************************************)
(* The inductive invariant: before it is opened, what arrives is the       *)
(* encoding of what was sent, whole, or cut short; and nothing has been    *)
(* read of it.                                                             *)
(***************************************************************************)
Arrived ==
    step = "open" =>
        /\ off = 0
        /\ fate = "whole" => buf = encode_sequence(sent)
        /\ fate = "truncated" =>
              \E n \in 0..(Len(encode_sequence(sent)) - 1) :
                  buf = SubSeq(encode_sequence(sent), 1, n)

IInv == TypeOK /\ Arrived /\ TruncationSeen

LEMMA MessageEncoded ==
  ASSUME NEW m \in Messages
  PROVE  encode_sequence(m) \in Seq(Byte) /\ End(encode_sequence(m), 0) = Len(encode_sequence(m))
  <1> DEFINE b == encode_tlv(TAG_SEQUENCE, Body(m))
  <1>1. TAG_SEQUENCE \in Byte /\ TAG_SEQUENCE % 32 # 31
    BY SMT DEF TAG_SEQUENCE, Byte
  <1>2. Body(m) \in Seq(Byte) /\ Fits(Len(Body(m)))
    BY MessagesAssumption, BodyIs
  <1>3. /\ b \in Seq(Byte)
        /\ read_tlv(b, 0) = [tag |-> TAG_SEQUENCE, content |-> Body(m), full |-> b, end |-> Len(b)]
    BY <1>1, <1>2, WrittenIsRead
  <1> HIDE DEF b
  <1>4. read_tlv(b, 0).end = Len(b)
    BY <1>3
  <1>5. End(b, 0) = Len(b)
    BY <1>4 DEF read_tlv
  <1> QED
    BY <1>3, <1>5 DEF b, encode_sequence

LEMMA InitIInv == Init => IInv
  <1> SUFFICES ASSUME Init
               PROVE  IInv
    OBVIOUS
  <1>1. sent \in Messages /\ buf \in Seq(Byte)
    BY MessageEncoded DEF Init
  <1>2. content \in Seq(Byte) /\ out \in Seq(Child)
    BY SMT DEF Init
  <1>3. off \in 0..Len(content)
    BY SMT DEF Init
  <1>4. TypeOK
    BY <1>1, <1>2, <1>3 DEF Init, TypeOK
  <1> QED
    BY <1>4 DEF Init, IInv, Arrived, TruncationSeen

LEMMA NextIInv == IInv /\ [Next]_vars => IInv'
  <1> SUFFICES ASSUME IInv, [Next]_vars
               PROVE  IInv'
    OBVIOUS
  <1> USE DEF IInv
  <1>1. ASSUME NEW n \in 0..(Len(buf) - 1), Arrives("truncated", SubSeq(buf, 1, n))
        PROVE  IInv'
    <2>1. buf' = SubSeq(encode_sequence(sent), 1, n) /\ n \in 0..(Len(encode_sequence(sent)) - 1)
      BY <1>1 DEF Arrives, Arrived
    <2>2. buf' \in Seq(Byte)
      BY SMT, <1>1 DEF Arrives, TypeOK
    <2> QED
      BY <1>1, <2>1, <2>2 DEF Arrives, TypeOK, Arrived, TruncationSeen
  <1>2. ASSUME NEW n \in 1..Len(buf), NEW o \in Octets, Arrives("altered", [buf EXCEPT ![n] = o])
        PROVE  IInv'
    <2>1. buf' \in Seq(Byte)
      BY <1>2, OctetsAssumption, ExceptSeq DEF Arrives, TypeOK
    <2> QED
      BY <1>2, <2>1 DEF Arrives, TypeOK, Arrived, TruncationSeen
  <1>3. ASSUME NEW o \in Octets, Arrives("extended", Append(buf, o))
        PROVE  IInv'
    <2>1. buf' \in Seq(Byte)
      BY <1>3, OctetsAssumption, AppendProperties DEF Arrives, TypeOK
    <2> QED
      BY <1>3, <2>1 DEF Arrives, TypeOK, Arrived, TruncationSeen
  <1>4. CASE DerError
    BY <1>4 DEF DerError, TypeOK, Arrived, TruncationSeen
  <1>5. ASSUME step = "open", Readable(buf, 0),
               step' = "children", content' = read_tlv(buf, 0).content,
               UNCHANGED <<sent, buf, fate, off, out>>
        PROVE  IInv'
    <2>1. read_tlv(buf, 0) \in Child
      BY <1>5, ReadTyped DEF TypeOK
    <2>2. content' \in Seq(Byte)
      BY <1>5, <2>1 DEF Child
    <2>3. off = 0 /\ 0 \in 0..Len(content')
      BY SMT, <1>5, <2>2, LenProperties DEF Arrived
    <2>4. fate # "truncated"
      <3> SUFFICES ASSUME fate = "truncated"
                   PROVE  FALSE
        OBVIOUS
      <3>1. PICK n \in 0..(Len(encode_sequence(sent)) - 1) :
                buf = SubSeq(encode_sequence(sent), 1, n)
        BY <1>5 DEF Arrived
      <3>2. sent \in Messages
        BY DEF TypeOK
      <3> QED
        BY <1>5, <3>1, <3>2, MessageEncoded, CutIsUnreadable
    <2> QED
      BY <1>5, <2>2, <2>3, <2>4 DEF TypeOK, Arrived, TruncationSeen
  <1>6. ASSUME step = "children", Readable(content, off),
               out' = Append(out, read_tlv(content, off)), off' = read_tlv(content, off).end,
               UNCHANGED <<sent, buf, fate, step, content>>
        PROVE  IInv'
    <2>1. content \in Seq(Byte) /\ off \in Nat
      BY SMT DEF TypeOK
    <2>2. read_tlv(content, off) \in Child /\ off' \in 0..Len(content)
      BY <1>6, <2>1, ReadTyped
    <2>3. out' \in Seq(Child)
      BY <1>6, <2>2, AppendProperties DEF TypeOK
    <2> QED
      BY <1>6, <2>2, <2>3 DEF TypeOK, Arrived, TruncationSeen
  <1>7. CASE AllRead \/ (step = "decode" /\ step' = "read"
                         /\ UNCHANGED <<sent, buf, fate, content, off, out>>)
    BY <1>7 DEF AllRead, TypeOK, Arrived, TruncationSeen
  <1>8. CASE UNCHANGED vars
    BY <1>8 DEF vars, TypeOK, Arrived, TruncationSeen
  <1> QED
    BY <1>1, <1>2, <1>3, <1>4, <1>5, <1>6, <1>7, <1>8
       DEF Next, Truncate, Alter, Extend, Read, Open, ReadChild, AllRead, Decode, Answered

LEMMA Invariant == Spec => []IInv
  BY InitIInv, NextIInv, PTL DEF Spec

(***************************************************************************)
(* Whatever bytes arrive, reading stays within them: the types, and with   *)
(* them the offset (asn1.py, read_children).                               *)
(***************************************************************************)
THEOREM TypeCorrect == Spec => []TypeOK
  BY Invariant, PTL DEF IInv

(***************************************************************************)
(* A message cut off anywhere is a DerError, whatever it carried           *)
(* (asn1.py, read_tlv: "truncated DER").                                   *)
(***************************************************************************)
THEOREM CutIsSeen == Spec => []TruncationSeen
  BY Invariant, PTL DEF IInv

(***************************************************************************)
(* Each child read takes at least a header and stays within the content    *)
(* (asn1.py, read_children): the loop ends.                                *)
(***************************************************************************)
THEOREM ReadingAdvances == Spec => Advances
  <1> DEFINE A == out' # out => off + 2 <= off' /\ off' <= Len(content)
  <1>1. ASSUME IInv, [Next]_vars
        PROVE  [A]_vars
    <2> SUFFICES ASSUME out' # out, Next
                 PROVE  off + 2 <= off' /\ off' <= Len(content)
      BY <1>1
    <2>1. Readable(content, off) /\ off' = read_tlv(content, off).end
      BY DEF Next, Truncate, Alter, Extend, Arrives, Read, Open, ReadChild, AllRead, Decode,
             DerError, Answered, vars
    <2>2. content \in Seq(Byte) /\ off \in Nat
      BY SMT, <1>1 DEF IInv, TypeOK
    <2>3. off + 2 <= off' /\ off' \in 0..Len(content)
      BY <2>1, <2>2, ReadTyped
    <2> QED
      BY SMT, <2>2, <2>3, LenProperties
  <1> QED
    BY <1>1, Invariant, PTL DEF Spec, Advances

-----------------------------------------------------------------------------
(***************************************************************************)
(* The children take up the content: each is its header and its content,   *)
(* and starts where the one before it ends.                                *)
(***************************************************************************)
Tile(child, c, o) ==
    /\ child.full = SubSeq(c, o + 1, child.end)
    /\ Len(child.full) = HeaderLen(c, o) + Len(child.content)
    /\ IsSuffix(child.content, child.full)

Start(children, k) == IF k = 1 THEN 0 ELSE children[k - 1].end

TilesUp(children, c) == \A k \in DOMAIN children : Tile(children[k], c, Start(children, k))

ReadSoFar(children) == IF children = <<>> THEN 0 ELSE Last(children).end

(***************************************************************************)
(* The inductive strengthening: while children are read, off is where the  *)
(* last of them ends, and the loop is left at the end of the content only. *)
(***************************************************************************)
Covering ==
    /\ TilesUp(out, content)
    /\ step = "open" => out = <<>>
    /\ step \in {"children", "decode", "read"} => off = ReadSoFar(out)
    /\ step \in {"decode", "read"} => off >= Len(content)

LEMMA SliceElements ==
  ASSUME NEW b \in Seq(Byte), NEW h \in Nat, NEW e \in Nat, h <= e, e <= Len(b)
  PROVE  /\ SubSeq(b, h + 1, e) \in Seq(Byte)
         /\ Len(SubSeq(b, h + 1, e)) = e - h
         /\ \A k \in 1..(e - h) : SubSeq(b, h + 1, e)[k] = b[h + k]
  BY SMT

LEMMA SuffixOfSlice ==
  ASSUME NEW b \in Seq(Byte), NEW o \in Nat, NEW h \in Nat, NEW e \in Nat,
         o <= h, h <= e, e <= Len(b)
  PROVE  IsSuffix(SubSeq(b, h + 1, e), SubSeq(b, o + 1, e))
  <1> DEFINE short == SubSeq(b, h + 1, e)
             long  == SubSeq(b, o + 1, e)
             rs == Reverse(short)
             rl == Reverse(long)
  <1>0. o <= e
    BY SMT
  <1>1. /\ short \in Seq(Byte) /\ Len(short) = e - h
        /\ \A k \in 1..(e - h) : short[k] = b[h + k]
    BY SliceElements
  <1>2. /\ long \in Seq(Byte) /\ Len(long) = e - o
        /\ \A k \in 1..(e - o) : long[k] = b[o + k]
    BY <1>0, SliceElements
  <1>3. /\ rs = [k \in 1..Len(short) |-> short[(Len(short) - k) + 1]]
        /\ rl = [k \in 1..Len(long) |-> long[(Len(long) - k) + 1]]
    BY DEF Reverse
  <1> HIDE DEF short, long, rs, rl
  <1>4. /\ e - h \in Nat /\ e - o \in Nat /\ e - h <= e - o
    BY SMT
  <1>5. rs = [k \in 1..(e - h) |-> short[((e - h) - k) + 1]]
    BY <1>1, <1>3
  <1>6. rl = [k \in 1..(e - o) |-> long[((e - o) - k) + 1]]
    BY <1>2, <1>3
  <1>7. \A k \in 1..(e - h) : rs[k] \in Byte /\ rs[k] = b[(e - k) + 1]
    <2> TAKE k \in 1..(e - h)
    <2>1. ((e - h) - k) + 1 \in 1..(e - h) /\ h + (((e - h) - k) + 1) = (e - k) + 1
      BY SMT, <1>4
    <2>2. rs[k] = short[((e - h) - k) + 1]
      BY <1>5
    <2>3. short[((e - h) - k) + 1] \in Byte
      BY <1>1, <2>1, ElementOfSeq
    <2> QED
      BY <1>1, <2>1, <2>2, <2>3
  <1>8. \A k \in 1..(e - o) : rl[k] \in Byte /\ rl[k] = b[(e - k) + 1]
    <2> TAKE k \in 1..(e - o)
    <2>1. ((e - o) - k) + 1 \in 1..(e - o) /\ o + (((e - o) - k) + 1) = (e - k) + 1
      BY SMT, <1>4
    <2>2. rl[k] = long[((e - o) - k) + 1]
      BY <1>6
    <2>3. long[((e - o) - k) + 1] \in Byte
      BY <1>2, <2>1, ElementOfSeq
    <2> QED
      BY <1>2, <2>1, <2>2, <2>3
  <1>9. rs \in Seq(Byte) /\ Len(rs) = e - h
    <2>1. rs \in [1..(e - h) -> Byte]
      BY <1>5, <1>7
    <2> QED
      BY <1>4, <2>1
  <1>10. rl \in Seq(Byte) /\ Len(rl) = e - o
    <2>1. rl \in [1..(e - o) -> Byte]
      BY <1>6, <1>8
    <2> QED
      BY <1>4, <2>1
  <1>11. \A k \in 1..(e - h) : rs[k] = rl[k]
    <2> TAKE k \in 1..(e - h)
    <2>1. k \in 1..(e - o)
      BY SMT, <1>4
    <2> QED
      BY <1>7, <1>8, <2>1
  <1>12. SubSeq(rs, 1, Len(rs)) = SubSeq(rl, 1, Len(rs))
    BY SMT, <1>4, <1>9, <1>10, <1>11
  <1>13. Len(rs) <= Len(rl)
    BY <1>4, <1>9, <1>10
  <1> QED
    BY <1>12, <1>13 DEF IsSuffix, IsPrefix, rs, rl, short, long

\* What is read at an offset is a tile there.
LEMMA ReadIsTile ==
  ASSUME NEW b \in Seq(Byte), NEW o \in Nat, Readable(b, o)
  PROVE  Tile(read_tlv(b, o), b, o)
  <1> DEFINE h == HeaderLen(b, o)
             e == End(b, o)
             t == read_tlv(b, o)
  <1>1. /\ o + 1 < Len(b) /\ LengthByte(b, o) # 128 /\ e <= Len(b)
    BY DEF Readable
  <1>2. h \in Nat /\ e \in Nat /\ o + h <= e
    BY SMT, <1>1, EndTyped
  <1>3. t.full = Slice(b, o, e) /\ t.content = Slice(b, o + h, e) /\ t.end = e
    BY DEF read_tlv
  <1> HIDE DEF h, e, t
  <1>4. o + h \in Nat /\ o <= o + h /\ o <= e
    BY SMT, <1>2
  <1>5. t.full = SubSeq(b, o + 1, e) /\ t.content = SubSeq(b, (o + h) + 1, e)
    BY <1>1, <1>2, <1>3, <1>4, SliceIs
  <1>6. Len(t.full) = e - o /\ Len(t.content) = e - (o + h)
    BY <1>1, <1>2, <1>4, <1>5, SliceElements
  <1>7. Len(t.full) = h + Len(t.content)
    BY SMT, <1>2, <1>6
  <1>8. IsSuffix(t.content, t.full)
    BY <1>1, <1>2, <1>4, <1>5, SuffixOfSlice
  <1> QED
    BY <1>3, <1>5, <1>7, <1>8 DEF Tile, h, e, t

\* The next child, read where the last one ends, is one more tile.
LEMMA TileAppended ==
  ASSUME NEW children \in Seq(Child), NEW c, NEW t \in Child,
         TilesUp(children, c), Tile(t, c, ReadSoFar(children))
  PROVE  /\ TilesUp(Append(children, t), c)
         /\ ReadSoFar(Append(children, t)) = t.end
  <1> DEFINE new == Append(children, t)
             len == Len(children)
  <1>1. /\ len \in Nat /\ new \in Seq(Child) /\ Len(new) = len + 1
        /\ \A k \in 1..len : new[k] = children[k]
        /\ new[len + 1] = t
    BY SMT
  <1>2. DOMAIN children = 1..len /\ DOMAIN new = 1..(len + 1)
    BY <1>1
  <1>3. children = <<>> <=> len = 0
    BY SMT
  <1> HIDE DEF new
  <1>4. ReadSoFar(new) = t.end
    <2>1. new # <<>>
      BY SMT, <1>1
    <2> QED
      BY <1>1, <2>1 DEF ReadSoFar, Last
  <1>5. ASSUME NEW k \in 1..(len + 1)
        PROVE  Tile(new[k], c, Start(new, k))
    <2>1. CASE k = len + 1
      <3>1. Start(new, k) = ReadSoFar(children)
        <4>1. CASE len = 0
          BY <1>3, <2>1, <4>1 DEF Start, ReadSoFar
        <4>2. CASE len # 0
          <5>1. k # 1 /\ k - 1 = len /\ len \in 1..len
            BY SMT, <1>1, <2>1, <4>2
          <5> QED
            BY <1>1, <1>3, <4>2, <5>1 DEF Start, ReadSoFar, Last
        <4> QED
          BY <4>1, <4>2
      <3> QED
        BY <1>1, <2>1, <3>1
    <2>2. CASE k # len + 1
      <3>1. k \in 1..len
        BY SMT, <1>1, <2>2
      <3>2. Start(new, k) = Start(children, k)
        <4>1. k # 1 => k - 1 \in 1..len
          BY SMT, <1>1, <3>1
        <4> QED
          BY <1>1, <4>1 DEF Start
      <3> QED
        BY <1>1, <1>2, <3>1, <3>2 DEF TilesUp
    <2> QED
      BY <2>1, <2>2
  <1>6. TilesUp(new, c)
    BY <1>2, <1>5 DEF TilesUp
  <1> QED
    BY <1>4, <1>6 DEF new

LEMMA NothingTiled ==
  ASSUME NEW c
  PROVE  TilesUp(<<>>, c) /\ ReadSoFar(<<>>) = 0
  <1>1. DOMAIN <<>> = {}
    BY SMT
  <1> QED
    BY <1>1 DEF TilesUp, ReadSoFar

LEMMA CoveringKeeps ==
  ASSUME IInv, Covering, [Next]_vars
  PROVE  Covering'
  <1>1. CASE Truncate \/ Alter \/ Extend \/ DerError \/ UNCHANGED vars
    BY <1>1 DEF Truncate, Alter, Extend, Arrives, DerError, vars, Covering
  <1>2. ASSUME step = "open", step' = "children", UNCHANGED <<sent, buf, fate, off, out>>
        PROVE  Covering'
    BY <1>2, NothingTiled DEF Covering, IInv, Arrived
  <1>3. ASSUME step = "children", Readable(content, off),
               out' = Append(out, read_tlv(content, off)), off' = read_tlv(content, off).end,
               UNCHANGED <<sent, buf, fate, step, content>>
        PROVE  Covering'
    <2>1. content \in Seq(Byte) /\ off \in Nat /\ out \in Seq(Child)
      BY SMT DEF IInv, TypeOK
    <2>2. read_tlv(content, off) \in Child /\ Tile(read_tlv(content, off), content, off)
      BY <1>3, <2>1, ReadTyped, ReadIsTile
    <2>3. off = ReadSoFar(out)
      BY <1>3 DEF Covering
    <2>4. TilesUp(out', content) /\ ReadSoFar(out') = off'
      BY <1>3, <2>1, <2>2, <2>3, TileAppended DEF Covering
    <2> QED
      BY <1>3, <2>4 DEF Covering
  <1>4. CASE AllRead
    BY <1>4 DEF AllRead, Covering
  <1>5. CASE step = "decode" /\ step' = "read" /\ UNCHANGED <<sent, buf, fate, content, off, out>>
    BY <1>5 DEF Covering
  <1> QED
    BY <1>1, <1>2, <1>3, <1>4, <1>5
       DEF Next, Read, Open, ReadChild, Decode, Answered

(***************************************************************************)
(* Whatever arrives, the children read of it take up the content of the    *)
(* SEQUENCE, without a gap or an overlap, up to its last byte (asn1.py,    *)
(* read_tlv and the loop of read_children).                                *)
(***************************************************************************)
THEOREM ChildrenTile == Spec => []Tiled
  <1>1. Init => Covering
    BY NothingTiled DEF Init, Covering
  <1>2. IInv /\ Covering /\ [Next]_vars => Covering'
    BY CoveringKeeps
  <1>3. IInv /\ Covering => Tiled
    <2> SUFFICES ASSUME IInv, Covering
                 PROVE  Tiled
      OBVIOUS
    <2>1. ASSUME step \in {"decode", "read"}, content # <<>>
          PROVE  Last(out).end = Len(content)
      <3>1. off \in 0..Len(content) /\ off >= Len(content) /\ off = ReadSoFar(out)
            /\ content \in Seq(Byte)
        BY <2>1 DEF IInv, TypeOK, Covering
      <3>2. off = Len(content) /\ off # 0
        BY SMT, <2>1, <3>1
      <3> QED
        BY <3>1, <3>2 DEF ReadSoFar
    <2> QED
      BY <2>1 DEF Covering, Tiled, TilesUp, Tile, Start
  <1> QED
    BY <1>1, <1>2, <1>3, Invariant, PTL DEF Spec

-----------------------------------------------------------------------------
(***************************************************************************)
(* A TLV is read as it was written wherever it stands and whatever follows *)
(* it.                                                                     *)
(***************************************************************************)
ReadsAs(b, o, tag, bytes, end) ==
    /\ Readable(b, o)
    /\ read_tlv(b, o).tag = tag /\ read_tlv(b, o).content = bytes
    /\ read_tlv(b, o).end = end

LEMMA SliceThere ==
  ASSUME NEW b \in Seq(Byte), NEW t \in Seq(Byte), NEW o \in Nat, NEW x \in Nat, NEW y \in Nat,
         x <= y, y <= Len(t), Stands(t, b, o)
  PROVE  Slice(b, o + x, o + y) = Slice(t, x, y)
  <1> USE DEF Stands
  <1>1. Len(t) \in Nat /\ Len(b) \in Nat
    BY LenProperties
  <1>2. /\ o + x \in Nat /\ o + y \in Nat /\ o + x <= o + y /\ o + y <= Len(b)
        /\ (o + y) - (o + x) = y - x
    BY <1>1, SMT
  <1> DEFINE p == SubSeq(b, (o + x) + 1, o + y)
             q == SubSeq(t, x + 1, y)
  <1>3. /\ p \in Seq(Byte) /\ Len(p) = y - x
        /\ \A k \in 1..(y - x) : p[k] = b[(o + x) + k]
    <2> DEFINE f == o + x
               e == o + y
    <2>1. f \in Nat /\ e \in Nat /\ f <= e /\ e <= Len(b) /\ e - f = y - x
      BY <1>2
    <2> HIDE DEF f, e
    <2>2. /\ SubSeq(b, f + 1, e) \in Seq(Byte) /\ Len(SubSeq(b, f + 1, e)) = e - f
          /\ \A k \in 1..(e - f) : SubSeq(b, f + 1, e)[k] = b[f + k]
      BY <2>1, SliceElements
    <2> QED
      BY <2>1, <2>2 DEF f, e
  <1>4. /\ q \in Seq(Byte) /\ Len(q) = y - x
        /\ \A k \in 1..(y - x) : q[k] = t[x + k]
    BY SliceElements
  <1>5. Slice(b, o + x, o + y) = p /\ Slice(t, x, y) = q
    BY <1>2, SliceIs
  <1>6. \A k \in 1..(y - x) : x + k \in 1..Len(t) /\ (o + x) + k = o + (x + k)
    BY <1>1, SMT
  <1>7. \A k \in 1..(y - x) : p[k] = q[k]
    BY <1>3, <1>4, <1>6
  <1> HIDE DEF p, q
  <1>8. p = q
    <2> DEFINE n == y - x
    <2>1. /\ p \in Seq(Byte) /\ Len(p) = n /\ q \in Seq(Byte) /\ Len(q) = n
          /\ \A k \in 1..n : p[k] = q[k]
      BY <1>3, <1>4, <1>7
    <2> HIDE DEF n
    <2> QED
      BY <2>1, SeqEqual
  <1> QED
    BY <1>5, <1>8

LEMMA ReadThere ==
  ASSUME NEW tag \in Byte, tag % 32 # 31, NEW bytes \in Seq(Byte), Fits(Len(bytes)),
         NEW b \in Seq(Byte), NEW o \in Nat, NEW t, t = encode_tlv(tag, bytes), Stands(t, b, o)
  PROVE  ReadsAs(b, o, tag, bytes, o + Len(t))
  <1> DEFINE h == HeaderLen(t, 0)
             L == Len(t)
             w == IF LengthByte(t, 0) < 128 THEN LengthByte(t, 0)
                  ELSE from_bytes(Slice(t, 0 + 2, 0 + h))
  <1>1. /\ t \in Seq(Byte) /\ Readable(t, 0)
        /\ read_tlv(t, 0) = [tag |-> tag, content |-> bytes, full |-> t, end |-> L]
    BY WrittenIsRead
  <1>2. t[0 + 1] = tag /\ End(t, 0) = L /\ Slice(t, 0 + h, End(t, 0)) = bytes
    BY <1>1 DEF read_tlv
  <1>3. /\ 0 + 1 < L /\ t[0 + 1] % 32 # 31
        /\ LengthByte(t, 0) # 128 /\ LengthByte(t, 0) <= 132
        /\ 0 + h <= L
    BY <1>1 DEF Readable
  <1>4. h \in Nat /\ h >= 2 /\ L \in Nat /\ Len(b) \in Nat
    BY <1>1, <1>3, EndTyped, LenProperties
  <1>5. 0 + h = h /\ 0 + 1 = 1 /\ 0 + 2 = 2 /\ 1 \in 1..L /\ 2 \in 1..L
    BY <1>3, <1>4, SMT
  <1>6. b[o + 1] = tag /\ LengthByte(b, o) = LengthByte(t, 0)
    BY <1>2, <1>5 DEF LengthByte, Stands
  <1>7. HeaderLen(b, o) = h
    BY <1>6 DEF HeaderLen
  <1>8. Slice(b, o + 2, o + h) = Slice(t, 2, h)
    <2>1. 2 <= h /\ h <= Len(t)
      BY <1>3, <1>4, <1>5
    <2> HIDE DEF h
    <2> QED
      BY <1>1, <1>4, <2>1, SliceThere
  <1>9. End(t, 0) = 0 + h + w
    BY DEF End
  <1>10. End(b, o) = o + h + w
    BY <1>5, <1>6, <1>7, <1>8 DEF End
  <1>11. w \in Nat
    <2>1. LengthByte(t, 0) \in Byte
      BY <1>1, <1>3, EndTyped
    <2>2. Slice(t, 0 + 2, 0 + h) \in Seq(Byte)
      BY <1>1, <1>4, <1>5, SliceTyped
    <2> QED
      BY <2>1, <2>2, ByteIs, FromBytesTyped
  <1> HIDE DEF h, w
  <1>12. End(b, o) = o + L
    <2>1. L = 0 + h + w
      BY <1>2, <1>9
    <2> HIDE DEF L
    <2> QED
      BY <1>4, <1>10, <1>11, <2>1, SMT
  <1>13. Readable(b, o)
    <2>1. /\ o + 1 < Len(b) /\ o + h <= Len(b) /\ o + L <= Len(b)
      BY <1>3, <1>4, <1>5, SMT DEF Stands
    <2> QED
      BY <1>2, <1>3, <1>6, <1>7, <1>12, <2>1 DEF Readable
  <1>14. Slice(b, o + h, o + L) = bytes
    <2>1. h <= L /\ L <= Len(t)
      BY <1>3, <1>4, <1>5
    <2>2. Slice(b, o + h, o + L) = Slice(t, h, L)
      <3> HIDE DEF L
      <3> QED
        BY <1>1, <1>4, <2>1, SliceThere
    <2> QED
      BY <1>2, <1>5, <2>2
  <1>15. /\ read_tlv(b, o).tag = tag /\ read_tlv(b, o).content = bytes
         /\ read_tlv(b, o).end = o + L
    BY <1>6, <1>7, <1>12, <1>14 DEF read_tlv
  <1> QED
    BY <1>13, <1>15 DEF ReadsAs

LEMMA ValueThere ==
  ASSUME NEW m \in Messages, NEW k \in 0..Len(m), k < Len(m)
  PROVE  LET J == ValueBytes(m)
             o == Len(J[k])
             v == m[k + 1]
         IN  /\ k + 1 \in 1..Len(m) /\ o \in Nat
             /\ o < Len(J[k + 1]) /\ Len(J[k + 1]) <= Len(Body(m))
             /\ ReadsAs(Body(m), o, v.tag, ValueContent(v), Len(J[k + 1]))
  <1> DEFINE J == ValueBytes(m)
             N == Len(m)
             P == ValuePieces(m)
             o == Len(J[k])
             v == m[k + 1]
             t == Encoded(v)
             c == ValueContent(v)
             B == Body(m)
  <1>1. m \in Seq(Value)
    BY MessagesAssumption
  <1>2. /\ N \in Nat /\ (\A n \in 1..N : m[n] \in Value)
        /\ P \in Seq(Seq(Byte)) /\ Len(P) = N /\ (\A n \in 1..N : P[n] = Encoded(m[n]))
        /\ J = Joined(<<>>, P) /\ J \in [0..N -> Seq(Byte)]
        /\ B = J[N] /\ B \in Seq(Byte)
    BY <1>1, BodyIs
  <1>3. k + 1 \in 1..N /\ k \in 0..N
    BY <1>2, SMT
  <1>4. v \in Value /\ P[k + 1] = t
    BY <1>2, <1>3
  <1>5. o \in Nat
    <2>1. J[k] \in Seq(Byte)
      BY <1>2
    <2> QED
      BY <2>1, LenProperties
  <1>6. /\ Len(J[k + 1]) = o + Len(t) /\ Len(J[k + 1]) <= Len(B)
        /\ \A i \in 1..Len(t) : B[o + i] = t[i]
    <2>1. <<>> \in Seq(Byte)
      BY SMT
    <2> DEFINE K == Joined(<<>>, P)
    <2>2. k < N => /\ Len(K[k + 1]) = Len(K[k]) + Len(P[k + 1])
                   /\ Len(K[k + 1]) <= Len(K[N])
                   /\ \A i \in 1..Len(P[k + 1]) : K[N][Len(K[k]) + i] = P[k + 1][i]
      <3> HIDE DEF P, N
      <3>1. k \in 0..Len(P)
        BY <1>2, <1>3
      <3> QED
        BY <1>2, <2>1, <3>1, PieceFound
    <2>3. k < N
      OBVIOUS
    <2> HIDE DEF K, P, N, B, t
    <2>4. /\ Len(K[k + 1]) = Len(K[k]) + Len(P[k + 1])
          /\ Len(K[k + 1]) <= Len(K[N])
          /\ \A i \in 1..Len(P[k + 1]) : K[N][Len(K[k]) + i] = P[k + 1][i]
      BY <2>2, <2>3
    <2>5. K = J
      BY <1>2 DEF K
    <2> QED
      BY <1>2, <1>4, <2>4, <2>5
  <1>7. /\ c \in Seq(Byte) /\ t = encode_tlv(v.tag, c) /\ t \in Seq(Byte) /\ Len(c) + 2 <= Len(t)
        /\ Fits(Len(c)) /\ v.tag \in Byte /\ v.tag % 32 # 31
    BY <1>4, ValueIs
  <1> HIDE DEF J, N, o, v, t, c, B
  <1>8. Len(c) \in Nat /\ Len(t) \in Nat /\ Len(B) \in Nat
    BY <1>2, <1>7, LenProperties
  <1>10. o < Len(J[k + 1]) /\ o + Len(t) <= Len(B)
    <2> DEFINE e == Len(J[k + 1])
    <2>1. e = o + Len(t) /\ e <= Len(B)
      BY <1>6 DEF B
    <2> HIDE DEF e
    <2>2. o < e /\ o + Len(t) <= Len(B)
      BY <1>5, <1>7, <1>8, <2>1, SMT
    <2> QED
      BY <2>2 DEF e
  <1>11. Stands(t, B, o)
    BY <1>6, <1>10 DEF Stands
  <1>12. ReadsAs(B, o, v.tag, c, o + Len(t))
    <2> DEFINE g == v.tag
    <2>1. g \in Byte /\ g % 32 # 31 /\ t = encode_tlv(g, c)
      BY <1>7
    <2> HIDE DEF g
    <2>2. B \in Seq(Byte) /\ c \in Seq(Byte) /\ o \in Nat /\ Fits(Len(c))
      BY <1>2, <1>5, <1>7 DEF B
    <2>3. ReadsAs(B, o, g, c, o + Len(t))
      BY <1>11, <2>1, <2>2, ReadThere
    <2> QED
      BY <2>3 DEF g
  <1> QED
    BY <1>3, <1>5, <1>6, <1>10, <1>12 DEF J, N, o, v, t, c, B

-----------------------------------------------------------------------------
(***************************************************************************)
(* Integers: their bytes, and what they are read as.                       *)
(***************************************************************************)
LEMMA IntegerShortest ==
  ASSUME NEW n \in Nat
  PROVE  Shortest(IntegerBytes(n))
  <1> DEFINE b == IntegerBytes(n)
             t == to_bytes(n)
  <1>1. /\ b \in Seq(Byte) /\ b[1] < 128 /\ Len(b) >= 1
        /\ \/ n = 0 /\ b = <<0>>
           \/ n # 0 /\ b = t
           \/ n # 0 /\ b = <<0>> \o t /\ t[1] >= 128
    BY IntegerIs
  <1>2. n # 0 => t \in Seq(Byte) /\ Len(t) >= 1 /\ t[1] \in Byte /\ t[1] > 0
    BY BytesAre, FirstByte
  <1> HIDE DEF b, t
  <1>3. b[1] \in Byte
    BY <1>1, SMT
  <1>4. b[1] # 255
    BY <1>1, <1>3, SMT DEF Byte
  <1>5. Len(b) > 1 => b[1] # 0 \/ ~(b[2] < 128)
    <2>1. CASE n = 0
      <3>1. b = <<0>>
        BY <1>1, <2>1
      <3> QED
        BY <3>1, SMT
    <2>2. CASE n # 0 /\ b = t
      BY <1>2, <2>2, SMT DEF Byte
    <2>3. CASE n # 0 /\ b = <<0>> \o t /\ t[1] >= 128
      <3>1. b[2] = t[1]
        BY <1>2, <2>3, SMT DEF Byte
      <3> DEFINE e == t[1]
      <3>2. e \in Byte /\ e >= 128 /\ b[2] = e
        BY <1>2, <2>3, <3>1
      <3> HIDE DEF e
      <3> QED
        BY <3>2, SMT DEF Byte
    <2> QED
      BY <1>1, <2>1, <2>2, <2>3
  <1>6. Shortest(b)
    BY <1>4, <1>5 DEF Shortest
  <1> QED
    BY <1>6 DEF b

LEMMA IntegerReadBack ==
  ASSUME NEW n \in Nat, n <= Beyond
  PROVE  IntegerBytes(n) # <<>> /\ decode_integer(IntegerBytes(n)) = n
  <1> DEFINE b == IntegerBytes(n)
             t == to_bytes(n)
             A == NumberAfter(0, b)
  <1>1. /\ b \in Seq(Byte) /\ b[1] < 128 /\ Len(b) >= 1
        /\ \/ n = 0 /\ b = <<0>>
           \/ n # 0 /\ b = t
           \/ n # 0 /\ b = <<0>> \o t /\ t[1] >= 128
    BY IntegerIs
  <1>2. t \in Seq(Byte)
    BY BytesAre
  <1>3. decode_integer(b) = A[Len(b)]
    BY <1>1 DEF decode_integer
  <1> HIDE DEF b, t
  <1>4. 0 \in Int /\ 0 \in Nat /\ 1 \in Nat
    OBVIOUS
  <1>5. Reads(A, 0, b, Int)
    BY <1>1, <1>4, NumberIs
  <1>6. A[0] = 0 /\ \A k \in 1..Len(b) : A[k] = Capped(256 * A[k - 1] + b[k])
    BY <1>5 DEF Reads
  <1>7. Capped(256 * 0 + 0) = 0
    BY BeyondAssumption, SMT DEF Capped
  <1>8. ASSUME NEW p \in Nat, A[p] = 0, Stands(t, b, p), Len(b) = p + Len(t)
        PROVE  A[Len(b)] = n
    <2>1. A[p + Len(t)] = n
      BY <1>1, <1>4, <1>8, NumberRead DEF t
    <2> QED
      BY <1>8, <2>1
  <1> HIDE DEF A
  <1>9. b[1] = 0 => A[1] = 0
    <2>1. 1 \in 1..Len(b) /\ 1 - 1 = 0
      BY <1>1, LenProperties, SMT
    <2>2. A[1] = Capped(256 * A[0] + b[1])
      BY <1>6, <2>1
    <2> QED
      BY <1>6, <1>7, <2>2
  <1>10. A[Len(b)] = n
    <2>1. CASE n = 0 /\ b = <<0>>
      <3>1. Len(b) = 1 /\ b[1] = 0
        BY <2>1, SMT
      <3> QED
        BY <1>9, <2>1, <3>1
    <2>2. CASE n # 0 /\ b = t
      <3>1. Stands(t, b, 0) /\ Len(b) = 0 + Len(t)
        BY <1>2, <2>2, SMT DEF Stands
      <3> QED
        BY <1>4, <1>6, <1>8, <3>1
    <2>3. CASE n # 0 /\ b = <<0>> \o t /\ t[1] >= 128
      <3>1. Stands(t, b, 1) /\ Len(b) = 1 + Len(t) /\ b[1] = 0
        BY <1>2, <2>3, SMT DEF Stands
      <3> QED
        BY <1>4, <1>8, <1>9, <3>1
    <2> QED
      BY <1>1, <2>1, <2>2, <2>3
  <1>11. b # <<>>
    BY <1>1, SMT
  <1> QED
    BY <1>3, <1>10, <1>11 DEF b, A

-----------------------------------------------------------------------------
(***************************************************************************)
(* Object identifiers: the reader takes up the digits of an arc, and then  *)
(* the arc, as they were written.                                          *)
(***************************************************************************)
OidState == [arcs: Seq(Nat), val: Nat]

LEMMA TakenTyped ==
  ASSUME NEW s \in OidState, NEW b \in Byte
  PROVE  Taken(s, b) \in OidState
  <1> DEFINE v == 128 * s.val + (b % 128)
  <1>1. s.arcs \in Seq(Nat) /\ s.val \in Nat
    BY DEF OidState
  <1>2. b \in Nat
    BY ByteIs
  <1>3. v \in Nat
    <2>1. b % 128 \in Nat
      BY <1>2, Divide
    <2> DEFINE r == b % 128
               x == s.val
    <2>2. r \in Nat /\ x \in Nat
      BY <1>1, <2>1
    <2> HIDE DEF r, x
    <2>3. 128 * x + r \in Nat
      BY <2>2, SMT
    <2> QED
      BY <2>3 DEF r, x
  <1>4. Taken(s, b) = IF b < 128 THEN [arcs |-> Append(s.arcs, v), val |-> 0]
                                 ELSE [arcs |-> s.arcs, val |-> v]
    BY DEF Taken
  <1> HIDE DEF v
  <1>5. Append(s.arcs, v) \in Seq(Nat)
    BY <1>1, <1>3, AppendProperties
  <1> QED
    BY <1>1, <1>3, <1>4, <1>5 DEF OidState

LEMMA ArcsAfterIs ==
  ASSUME NEW c \in Seq(Byte), Len(c) >= 1
  PROVE  /\ ArcsAfter(c) \in [0..(Len(c) - 1) -> OidState]
         /\ ArcsAfter(c)[0] = [arcs |-> <<c[1] \div 40, c[1] % 40>>, val |-> 0]
         /\ \A n \in 1..(Len(c) - 1) : ArcsAfter(c)[n] = Taken(ArcsAfter(c)[n - 1], c[n + 1])
  <1> DEFINE N == Len(c) - 1
             A == ArcsAfter(c)
             first == [arcs |-> <<c[1] \div 40, c[1] % 40>>, val |-> 0]
             before == [n \in 1..N |-> n - 1]
             g == [n \in 1..N |-> [s \in OidState |-> Taken(s, c[n + 1])]]
             Eq(f) == f = [n \in 0..N |-> IF n = 0 THEN first ELSE Taken(f[n - 1], c[n + 1])]
  <1>1. N \in Nat /\ 1 \in 1..Len(c) /\ \A n \in 1..N : n + 1 \in 1..Len(c)
    BY LenProperties, SMT
  <1>2. c[1] \in Byte /\ \A n \in 1..N : c[n + 1] \in Byte
    BY <1>1, ElementOfSeq
  <1>3. A = CHOOSE h : Eq(h)
    BY DEF ArcsAfter
  <1>4. first \in OidState
    <2> DEFINE x == c[1]
    <2>1. x \in Nat
      BY <1>2, ByteIs
    <2> HIDE DEF x
    <2>2. x \div 40 \in Nat /\ x % 40 \in Nat
      BY <2>1, SMT
    <2> DEFINE y == x \div 40
               z == x % 40
    <2> HIDE DEF y, z
    <2>3. <<y, z>> \in Seq(Nat) /\ 0 \in Nat
      BY <2>2 DEF y, z
    <2>4. [arcs |-> <<y, z>>, val |-> 0] \in OidState
      BY <2>3 DEF OidState
    <2> QED
      BY <2>4 DEF x, y, z
  <1> HIDE DEF N, A, first
  <1>5. \A n \in 1..N : n \in 0..N /\ n # 0 /\ n - 1 \in 0..N /\ n - 1 < n
    BY <1>1, SMT
  <1>6. \A n \in 0..N : n # 0 => n \in 1..N
    BY <1>1, SMT
  <1>7. before \in [1..N -> 0..N] /\ Descends(before, N)
    BY <1>5 DEF Descends
  <1>8. g \in [1..N -> [OidState -> OidState]]
    BY <1>2, TakenTyped
  <1>9. PICK f \in [0..N -> OidState] : Recurs(f, N, first, before, g)
    <2> HIDE DEF g, before, Eq
    <2> QED
      BY <1>1, <1>4, <1>7, <1>8, Recursion
  <1>10. f[0] = first /\ \A n \in 1..N : f[n] = Taken(f[n - 1], c[n + 1])
    BY <1>5, <1>9 DEF Recurs
  <1>11. Eq(f)
    BY <1>6, <1>10
  <1>12. Eq(A)
    <2> HIDE DEF Eq
    <2> QED
      BY <1>3, <1>11
  <1> HIDE DEF before, g
  <1>13. A[0] = first
    BY <1>1, <1>12
  <1>14. \A n \in 1..N : A[n] = Taken(A[n - 1], c[n + 1])
    BY <1>5, <1>12
  <1>15. \A n \in 0..N : A[n] \in OidState
    <2> DEFINE T == {n \in 0..N : A[n] \in OidState}
    <2>1. ASSUME NEW n \in 0..N, \A m \in 0..N : m < n => m \in T
          PROVE  n \in T
      <3>1. CASE n = 0
        BY <1>4, <1>13, <3>1
      <3>2. CASE n # 0
        <4>1. n \in 1..N
          BY <1>6, <3>2
        <4>2. A[n - 1] \in OidState
          BY <1>5, <2>1, <4>1
        <4> QED
          BY <1>2, <1>14, <4>1, <4>2, TakenTyped
      <3> QED
        BY <3>1, <3>2
    <2> HIDE DEF T
    <2>2. \A n \in 0..N : n \in T
      BY <1>1, <2>1, UpTo
    <2> QED
      BY <2>2 DEF T
  <1>16. A \in [0..N -> OidState]
    BY <1>12, <1>15
  <1> QED
    BY <1>13, <1>14, <1>16 DEF N, A, first

LEMMA TakenIs ==
  ASSUME NEW s, NEW r \in 0..127
  PROVE  /\ Taken(s, 128 + r) = [arcs |-> s.arcs, val |-> 128 * s.val + r]
         /\ Taken(s, r) = [arcs |-> Append(s.arcs, 128 * s.val + r), val |-> 0]
  <1>1. ~(128 + r < 128) /\ (128 + r) % 128 = r /\ r < 128 /\ r % 128 = r
    BY SMT
  <1>2. Taken(s, 128 + r) = [arcs |-> s.arcs, val |-> 128 * s.val + r]
    BY <1>1 DEF Taken
  <1>3. Taken(s, r) = [arcs |-> Append(s.arcs, 128 * s.val + r), val |-> 0]
    BY <1>1 DEF Taken
  <1> QED
    BY <1>2, <1>3

\* After n bytes behind the first: the arcs read, and what has been read of the next.
After(c, n, arcs, val) == ArcsAfter(c)[n] = [arcs |-> arcs, val |-> val]

\* Read from where no arc has begun, the marked digits of a number give the number.
LEMMA DigitsRead ==
  ASSUME NEW arc \in Nat, NEW c \in Seq(Byte), Len(c) >= 1, NEW p \in Nat, NEW x,
         After(c, p, x, 0)
  PROVE  \A a \in 0..arc :
            Stands(Marked(arc)[a], c, p + 1) => After(c, p + Len(Marked(arc)[a]), x, a)
  <1> DEFINE A == ArcsAfter(c)
             M == Marked(arc)
             T == {a \in 0..arc : Stands(M[a], c, p + 1) => A[p + Len(M[a])] = [arcs |-> x, val |-> a]}
  <1>1. /\ M \in [0..arc -> Seq(Byte)] /\ M[0] = <<>>
        /\ \A a \in 1..arc : M[a] = Append(M[a \div 128], 128 + (a % 128))
    BY MarkedIs
  <1>2. \A n \in 1..(Len(c) - 1) : A[n] = Taken(A[n - 1], c[n + 1])
    BY ArcsAfterIs
  <1>3. A[p] = [arcs |-> x, val |-> 0]
    BY DEF After
  <1> HIDE DEF A, M
  <1>4. ASSUME NEW a \in 0..arc, \A m \in 0..arc : m < a => m \in T, Stands(M[a], c, p + 1)
        PROVE  A[p + Len(M[a])] = [arcs |-> x, val |-> a]
    <2>1. CASE a = 0
      <3>1. Len(<<>>) = 0 /\ p + 0 = p
        BY SMT
      <3> QED
        BY <1>1, <1>3, <2>1, <3>1
    <2>2. CASE a # 0
      <3> DEFINE q == a \div 128
                 r == a % 128
                 l == Len(M[q])
      <3>1. a \in 1..arc /\ a \in Nat
        BY <2>2, SMT
      <3>2. q \in Nat /\ r \in 0..127 /\ a = 128 * q + r /\ q < a
        BY <2>2, <3>1, Divide
      <3>3. M[a] = Append(M[q], 128 + r)
        BY <1>1, <3>1
      <3> HIDE DEF q, r
      <3>4. q \in 0..arc /\ 128 + r \in Byte /\ p + 1 \in Nat
        BY <3>2, SMT DEF Byte
      <3>5. M[q] \in Seq(Byte)
        BY <1>1, <3>4
      <3>6. /\ Stands(M[q], c, p + 1) /\ l \in Nat /\ Len(M[a]) = l + 1
            /\ (p + 1) + l + 1 <= Len(c) /\ c[(p + 1) + l + 1] = 128 + r
        <4> DEFINE t == M[q]
                   e == 128 + r
                   o == p + 1
        <4>1. t \in Seq(Byte) /\ e \in Byte /\ o \in Nat /\ Stands(Append(t, e), c, o)
          BY <1>4, <3>3, <3>4, <3>5
        <4> HIDE DEF t, e, o
        <4>2. /\ Stands(t, c, o) /\ Len(t) \in Nat
              /\ Len(Append(t, e)) = Len(t) + 1
              /\ o + Len(t) + 1 <= Len(c) /\ c[o + Len(t) + 1] = e
          BY <4>1, AppendStands
        <4> QED
          BY <3>3, <4>2 DEF t, e, o
      <3>7. A[p + l] = [arcs |-> x, val |-> q]
        <4>1. q \in T
          BY <1>4, <3>2, <3>4
        <4> QED
          BY <3>6, <4>1
      <3> HIDE DEF l
      <3>8. /\ p + (l + 1) \in 1..(Len(c) - 1) /\ (p + (l + 1)) - 1 = p + l
            /\ (p + (l + 1)) + 1 = (p + 1) + l + 1
        <4>1. Len(c) \in Nat
          BY LenProperties
        <4>2. l \in Nat /\ (p + 1) + l + 1 <= Len(c)
          BY <3>6
        <4> QED
          BY <4>1, <4>2, SMT
      <3>9. A[p + (l + 1)] = Taken([arcs |-> x, val |-> q], 128 + r)
        <4>1. A[p + (l + 1)] = Taken(A[(p + (l + 1)) - 1], c[(p + (l + 1)) + 1])
          BY <1>2, <3>8
        <4> QED
          BY <3>6, <3>7, <3>8, <4>1
      <3> QED
        <4> DEFINE s == [arcs |-> x, val |-> q]
        <4>1. s = [arcs |-> x, val |-> q] /\ s.arcs = x /\ s.val = q
          OBVIOUS
        <4> HIDE DEF s
        <4>2. Taken(s, 128 + r) = [arcs |-> s.arcs, val |-> 128 * s.val + r]
          BY <3>2, TakenIs
        <4> QED
          BY <3>2, <3>6, <3>9, <4>1, <4>2
    <2> QED
      BY <2>1, <2>2
  <1>5. \A a \in 0..arc : (\A m \in 0..arc : m < a => m \in T) => a \in T
    BY <1>4
  <1>6. \A a \in 0..arc : a \in T
    <2> HIDE DEF T
    <2> QED
      BY <1>5, UpTo
  <1> QED
    BY <1>6 DEF A, M, After

LEMMA ChunkRead ==
  ASSUME NEW arc \in Nat, NEW c \in Seq(Byte), Len(c) >= 1, NEW p \in Nat, NEW x,
         After(c, p, x, 0), Stands(Chunk(arc), c, p + 1)
  PROVE  After(c, p + Len(Chunk(arc)), Append(x, arc), 0)
  <1> DEFINE A == ArcsAfter(c)
             q == arc \div 128
             r == arc % 128
             t == Marked(arc)[q]
             l == Len(t)
  <1>1. /\ q \in 0..arc /\ r \in 0..127 /\ r \in Byte /\ t \in Seq(Byte)
        /\ Chunk(arc) = Append(t, r)
    BY ChunkIs
  <1>2. arc = 128 * q + r
    BY Divide
  <1>3. Stands(t, c, p + 1) => A[p + l] = [arcs |-> x, val |-> q]
    <2>1. \A a \in 0..arc :
            Stands(Marked(arc)[a], c, p + 1) => After(c, p + Len(Marked(arc)[a]), x, a)
      BY DigitsRead
    <2> HIDE DEF q
    <2>2. Stands(t, c, p + 1) => After(c, p + l, x, q)
      BY <1>1, <2>1
    <2> QED
      BY <2>2 DEF After
  <1>4. \A n \in 1..(Len(c) - 1) : A[n] = Taken(A[n - 1], c[n + 1])
    BY ArcsAfterIs
  <1> HIDE DEF A, q, r, t
  <1>5. p + 1 \in Nat /\ q \in Nat
    BY <1>1, SMT
  <1>6. /\ Stands(t, c, p + 1) /\ l \in Nat /\ Len(Chunk(arc)) = l + 1
        /\ (p + 1) + l + 1 <= Len(c) /\ c[(p + 1) + l + 1] = r
    <2> DEFINE o == p + 1
    <2>1. o \in Nat /\ Stands(Append(t, r), c, o)
      BY <1>1, <1>5
    <2> HIDE DEF o
    <2>2. /\ Stands(t, c, o) /\ Len(t) \in Nat
          /\ Len(Append(t, r)) = Len(t) + 1
          /\ o + Len(t) + 1 <= Len(c) /\ c[o + Len(t) + 1] = r
      BY <1>1, <2>1, AppendStands
    <2> QED
      BY <1>1, <2>2 DEF o
  <1>7. A[p + l] = [arcs |-> x, val |-> q]
    BY <1>3, <1>6
  <1> HIDE DEF l
  <1>8. /\ p + (l + 1) \in 1..(Len(c) - 1) /\ (p + (l + 1)) - 1 = p + l
        /\ (p + (l + 1)) + 1 = (p + 1) + l + 1
    <2>1. Len(c) \in Nat
      BY LenProperties
    <2> QED
      BY <1>6, <2>1, SMT
  <1>9. A[p + (l + 1)] = Taken([arcs |-> x, val |-> q], r)
    <2>1. A[p + (l + 1)] = Taken(A[(p + (l + 1)) - 1], c[(p + (l + 1)) + 1])
      BY <1>4, <1>8
    <2> QED
      BY <1>6, <1>7, <1>8, <2>1
  <1>10. Taken([arcs |-> x, val |-> q], r) = [arcs |-> Append(x, arc), val |-> 0]
    <2> DEFINE s == [arcs |-> x, val |-> q]
    <2>1. s = [arcs |-> x, val |-> q] /\ s.arcs = x /\ s.val = q
      OBVIOUS
    <2> HIDE DEF s
    <2>2. Taken(s, r) = [arcs |-> Append(s.arcs, 128 * s.val + r), val |-> 0]
      BY <1>1, TakenIs
    <2> QED
      BY <1>2, <2>1, <2>2
  <1> QED
    BY <1>6, <1>9, <1>10 DEF A, After

\* The bytes of an identifier: not none, and the last of them not marked.
LEMMA OidBytesEnd ==
  ASSUME NEW arcs \in Oid, NEW n \in 0..(Len(arcs) - 2)
  PROVE  /\ OidBytes(arcs)[n] \in Seq(Byte) /\ Len(OidBytes(arcs)[n]) \in Nat
         /\ Len(OidBytes(arcs)[n]) >= 1
         /\ OidBytes(arcs)[n][Len(OidBytes(arcs)[n])] < 128
  <1> DEFINE first == <<40 * arcs[1] + arcs[2]>>
             P == ArcPieces(arcs)
             N == Len(arcs) - 2
             J == OidBytes(arcs)
  <1>1. /\ 40 * arcs[1] + arcs[2] \in 0..119
        /\ first \in Seq(Byte) /\ N \in Nat /\ Len(P) = N /\ P \in Seq(Seq(Byte))
        /\ (\A k \in 1..N : arcs[k + 2] \in Nat /\ P[k] = Chunk(arcs[k + 2]))
        /\ J = Joined(first, P)
    BY OidIs
  <1> DEFINE f == 40 * arcs[1] + arcs[2]
  <1>2. first = <<f>> /\ f \in 0..119
    BY <1>1
  <1> HIDE DEF f, first, P, N
  <1>3. /\ J \in [0..N -> Seq(Byte)] /\ J[0] = first
        /\ \A k \in 1..N : J[k] = J[k - 1] \o P[k]
    <2>1. /\ Joined(first, P) \in [0..Len(P) -> Seq(Byte)] /\ Joined(first, P)[0] = first
          /\ \A k \in 1..Len(P) : Joined(first, P)[k] = Joined(first, P)[k - 1] \o P[k]
      BY <1>1, JoinedIs
    <2> QED
      BY <1>1, <2>1
  <1>4. n \in 0..N
    BY DEF N
  <1> HIDE DEF J
  <1>5. J[n] \in Seq(Byte) /\ Len(J[n]) \in Nat
    BY <1>3, <1>4, LenProperties
  <1>6. CASE n = 0
    <2>1. Len(<<f>>) = 1 /\ <<f>>[1] = f /\ f < 128
      BY <1>2, SMT
    <2>2. J[n] = <<f>>
      BY <1>2, <1>3, <1>6
    <2>3. Len(J[n]) = 1 /\ J[n][1] < 128 /\ 1 >= 1
      BY <2>1, <2>2
    <2> QED
      BY <1>5, <2>3 DEF J
  <1>7. CASE n # 0
    <2>1. n \in 1..N /\ n - 1 \in 0..N
      BY <1>1, <1>4, <1>7, SMT
    <2> DEFINE s == J[n - 1]
               t == P[n]
               u == J[n]
    <2>2. s \in Seq(Byte) /\ u = s \o t
      BY <1>3, <2>1
    <2>3. t \in Seq(Byte) /\ Len(t) >= 1 /\ t[Len(t)] < 128
      <3> DEFINE a == arcs[n + 2]
                 d == Marked(a)[a \div 128]
                 r == a % 128
      <3>1. a \in Nat /\ t = Chunk(a)
        BY <1>1, <2>1
      <3>2. /\ r \in 0..127 /\ d \in Seq(Byte) /\ Chunk(a) \in Seq(Byte)
            /\ Len(Chunk(a)) = Len(d) + 1 /\ Chunk(a)[Len(Chunk(a))] = r
        BY <3>1, ChunkIs
      <3>3. Len(d) \in Nat
        BY <3>2, LenProperties
      <3> HIDE DEF t, d, r
      <3>4. r < 128 /\ Len(d) + 1 >= 1
        BY <3>2, <3>3, SMT
      <3> QED
        BY <3>1, <3>2, <3>4
    <2> HIDE DEF s, t, u
    <2>4. /\ Len(u) = Len(s) + Len(t) /\ Len(s) \in Nat /\ Len(t) \in Nat
          /\ \A i \in 1..Len(t) : u[Len(s) + i] = t[i]
      BY <2>2, <2>3, ConcatIs
    <2>5. Len(t) \in 1..Len(t) /\ Len(s) + Len(t) >= 1
      BY <2>3, <2>4, SMT
    <2>6. u[Len(u)] = t[Len(t)]
      BY <2>4, <2>5
    <2>7. Len(u) >= 1 /\ u[Len(u)] < 128
      BY <2>3, <2>4, <2>5, <2>6
    <2> QED
      BY <1>5, <2>7 DEF u, J
  <1> QED
    BY <1>6, <1>7

LEMMA FirstTwo ==
  ASSUME NEW s \in Seq(Nat), Len(s) >= 2
  PROVE  SubSeq(s, 1, 2) = <<s[1], s[2]>>
  <1>1. Len(s) \in Nat
    BY LenProperties
  <1>2. 1 \in 1..Len(s) /\ 2 \in 1..Len(s)
    BY <1>1, SMT
  <1>3. s[1] \in Nat /\ s[2] \in Nat
    BY <1>2, ElementOfSeq
  <1> DEFINE p == SubSeq(s, 1, 2)
             q == <<s[1], s[2]>>
  <1>4. p \in Seq(Nat) /\ Len(p) = 2 /\ p[1] = s[1] /\ p[2] = s[2]
    BY <1>1, SMT
  <1>5. q \in Seq(Nat) /\ Len(q) = 2 /\ q[1] = s[1] /\ q[2] = s[2]
    BY <1>3, SMT
  <1>6. \A i \in 1..2 : i = 1 \/ i = 2
    BY SMT
  <1> HIDE DEF p, q
  <1>7. \A i \in 1..2 : p[i] = q[i]
    BY <1>4, <1>5, <1>6
  <1>8. p = q
    BY <1>4, <1>5, <1>7, SeqEqual
  <1> QED
    BY <1>8 DEF p, q

\* Arc by arc, the identifier is read as the one that was written.
LEMMA OidReadBack ==
  ASSUME NEW arcs \in Oid
  PROVE  decode_oid(OidBytes(arcs)[Len(arcs) - 2]) = arcs
  <1> DEFINE f == 40 * arcs[1] + arcs[2]
             first == <<f>>
             P == ArcPieces(arcs)
             N == Len(arcs) - 2
             J == OidBytes(arcs)
             c == J[N]
             Upto(n) == SubSeq(arcs, 1, n + 2)
             Starts(n) == Len(J[n]) <= Len(c) /\ \A i \in 1..Len(J[n]) : c[i] = J[n][i]
             Goes(n) == /\ Len(J[n + 1]) = Len(J[n]) + Len(P[n + 1])
                        /\ Len(J[n + 1]) <= Len(c)
                        /\ \A i \in 1..Len(P[n + 1]) : c[Len(J[n]) + i] = P[n + 1][i]
             T == {n \in 0..N : After(c, Len(J[n]) - 1, Upto(n), 0)}
  <1>1. /\ arcs \in Seq(Nat) /\ Len(arcs) \in Nat /\ Len(arcs) >= 2
        /\ arcs[1] \in 0..2 /\ arcs[2] \in 0..39
        /\ first \in Seq(Byte) /\ N \in Nat /\ Len(P) = N /\ P \in Seq(Seq(Byte))
        /\ (\A k \in 1..N : arcs[k + 2] \in Nat /\ P[k] = Chunk(arcs[k + 2]))
        /\ J = Joined(first, P)
    BY OidIs
  <1>2. N + 2 = Len(arcs) /\ N \in 0..N
    BY <1>1, SMT
  <1>3. \A n \in 0..N : J[n] \in Seq(Byte) /\ Len(J[n]) \in Nat /\ Len(J[n]) >= 1
    BY OidBytesEnd
  <1> HIDE DEF first, P, N
  <1>4. J[0] = first
    <2>1. Joined(first, P)[0] = first
      BY <1>1, JoinedIs
    <2> QED
      BY <1>1, <2>1
  <1>5. \A n \in 0..N : Starts(n) /\ (n < N => Goes(n))
    <2> TAKE n \in 0..N
    <2> DEFINE K == Joined(first, P)
    <2>1. n \in 0..Len(P)
      BY <1>1
    <2>2. /\ Len(K[n]) <= Len(K[Len(P)]) /\ (\A i \in 1..Len(K[n]) : K[Len(P)][i] = K[n][i])
          /\ n < Len(P) => /\ Len(K[n + 1]) = Len(K[n]) + Len(P[n + 1])
                           /\ Len(K[n + 1]) <= Len(K[Len(P)])
                           /\ \A i \in 1..Len(P[n + 1]) : K[Len(P)][Len(K[n]) + i] = P[n + 1][i]
      BY <1>1, <2>1, PieceFound
    <2>3. K = J
      BY <1>1
    <2> HIDE DEF K, J
    <2> QED
      BY <1>1, <2>2, <2>3
  <1> HIDE DEF J, Starts, Goes
  <1>6. c \in Seq(Byte) /\ Len(c) \in Nat /\ Len(c) >= 1
    BY <1>2, <1>3
  <1> HIDE DEF c
  <1>7. ASSUME NEW n \in 0..N, \A m \in 0..N : m < n => m \in T
        PROVE  After(c, Len(J[n]) - 1, Upto(n), 0)
    <2>1. CASE n = 0
      <3>1. f \in Nat /\ f \div 40 = arcs[1] /\ f % 40 = arcs[2]
        <4> DEFINE x == arcs[1]
                   y == arcs[2]
        <4>1. x \in 0..2 /\ y \in 0..39
          BY <1>1
        <4> HIDE DEF x, y
        <4>2. 40 * x + y \in Nat /\ (40 * x + y) \div 40 = x /\ (40 * x + y) % 40 = y
          BY <4>1, SMT
        <4> QED
          BY <4>2 DEF x, y
      <3> HIDE DEF f
      <3>2. Len(<<f>>) = 1 /\ <<f>>[1] = f /\ 1 - 1 = 0 /\ 1 \in 1..1
        BY <3>1, SMT
      <3>3. J[0] = <<f>> /\ 0 \in 0..N
        BY <1>4, <2>1 DEF first
      <3>4. c[1] = f
        <4>1. \A i \in 1..Len(J[0]) : c[i] = J[0][i]
          <5>1. Starts(0)
            BY <1>5, <3>3
          <5> QED
            BY <5>1 DEF Starts
        <4> QED
          BY <3>2, <3>3, <4>1
      <3>5. ArcsAfter(c)[0] = [arcs |-> <<c[1] \div 40, c[1] % 40>>, val |-> 0]
        BY <1>6, ArcsAfterIs
      <3>6. Upto(0) = <<arcs[1], arcs[2]>>
        <4>1. 0 + 2 = 2
          BY SMT
        <4>2. SubSeq(arcs, 1, 2) = <<arcs[1], arcs[2]>>
          BY <1>1, FirstTwo
        <4> QED
          BY <4>1, <4>2
      <3> QED
        BY <2>1, <3>1, <3>2, <3>3, <3>4, <3>5, <3>6 DEF After
    <2>2. CASE n # 0
      <3> DEFINE m == n - 1
                 a == arcs[n + 2]
                 o == Len(J[m])
                 p == o - 1
                 l == Len(Chunk(a))
      <3>1. n \in 1..N /\ m \in 0..N /\ m < n /\ m < N /\ m + 1 = n
        BY <1>1, <2>2, SMT
      <3>2. a \in Nat /\ P[n] = Chunk(a)
        BY <1>1, <3>1
      <3> HIDE DEF m, a
      <3>3. After(c, p, Upto(m), 0)
        BY <1>7, <3>1
      <3>4. o \in Nat /\ o >= 1
        BY <1>3, <3>1
      <3>5. l \in Nat
        <4>1. Chunk(a) \in Seq(Byte)
          BY <3>2, ChunkIs
        <4> QED
          BY <4>1, LenProperties
      <3>6. /\ Len(J[n]) = o + l /\ Len(J[n]) <= Len(c)
            /\ \A i \in 1..l : c[o + i] = Chunk(a)[i]
        <4>1. /\ Len(J[m + 1]) = Len(J[m]) + Len(P[m + 1])
              /\ Len(J[m + 1]) <= Len(c)
              /\ \A i \in 1..Len(P[m + 1]) : c[Len(J[m]) + i] = P[m + 1][i]
          <5>1. Goes(m)
            BY <1>5, <3>1
          <5> QED
            BY <5>1 DEF Goes
        <4> QED
          BY <3>1, <3>2, <4>1
      <3> HIDE DEF o, l
      <3>7. p \in Nat /\ p + 1 = o /\ (o + l) - 1 = p + l
        BY <3>4, <3>5, SMT
      <3>8. Stands(Chunk(a), c, p + 1)
        BY <3>6, <3>7 DEF Stands, l
      <3> HIDE DEF p
      <3>9. After(c, p + l, Append(Upto(m), a), 0)
        <4> DEFINE x == Upto(m)
        <4>1. After(c, p, x, 0)
          BY <3>3
        <4> HIDE DEF x
        <4>2. After(c, p + l, Append(x, a), 0)
          BY <1>6, <3>2, <3>7, <3>8, <4>1, ChunkRead DEF l
        <4> QED
          BY <4>2 DEF x
      <3>10. Append(Upto(m), a) = Upto(n)
        <4> DEFINE k == n + 2
        <4>1. k \in 1..Len(arcs) /\ m + 2 = k - 1
          BY <1>2, <3>1, SMT DEF m
        <4>2. a = arcs[k]
          BY DEF a
        <4> HIDE DEF k
        <4>3. Append(SubSeq(arcs, 1, k - 1), arcs[k]) = SubSeq(arcs, 1, k)
          BY <1>1, <4>1, SMT
        <4> QED
          BY <4>1, <4>2, <4>3 DEF k
      <3> QED
        BY <3>6, <3>7, <3>9, <3>10
    <2> QED
      BY <2>1, <2>2
  <1>8. \A n \in 0..N : (\A m \in 0..N : m < n => m \in T) => n \in T
    BY <1>7
  <1>9. \A n \in 0..N : n \in T
    <2> HIDE DEF T
    <2> QED
      BY <1>1, <1>8, UpTo
  <1>10. After(c, Len(J[N]) - 1, Upto(N), 0)
    BY <1>2, <1>9
  <1>11. Upto(N) = arcs
    <2>1. SubSeq(arcs, 1, Len(arcs)) = arcs
      BY <1>1, SMT
    <2> QED
      BY <1>2, <2>1
  <1>12. decode_oid(c) = arcs
    <2>1. ArcsAfter(c)[Len(c) - 1] = [arcs |-> arcs, val |-> 0]
      BY <1>10, <1>11 DEF After, c
    <2> QED
      BY <2>1 DEF decode_oid
  <1> QED
    BY <1>12 DEF c, J, N

\* A child with a value's tag and content can be decoded, to that value.
LEMMA ValueDecoded ==
  ASSUME NEW v \in Value, NEW child, child.tag = v.tag, child.content = ValueContent(v)
  PROVE  Decodable(child) /\ Decoded(child) = v
  <1>1. /\ v = [tag |-> v.tag, of |-> v.of]
        /\ v.tag \in {TAG_INTEGER, TAG_OID, TAG_OCTET_STRING}
        /\ v.tag = TAG_INTEGER => v.of = <<v.of[1]>> /\ v.of[1] \in Nat /\ v.of[1] <= Beyond
        /\ v.tag = TAG_OID => v.of \in Oid
    BY ValueIs
  <1> DEFINE w == CASE child.tag = TAG_INTEGER -> <<decode_integer(child.content)>>
                    [] child.tag = TAG_OID     -> decode_oid(child.content)
                    [] OTHER                   -> child.content
  <1>2. TAG_INTEGER # TAG_OID /\ TAG_INTEGER # TAG_OCTET_STRING /\ TAG_OID # TAG_OCTET_STRING
    BY SMT DEF TAG_INTEGER, TAG_OID, TAG_OCTET_STRING
  <1>3. Decodable(child) /\ w = v.of
    <2>1. CASE v.tag = TAG_INTEGER
      <3> DEFINE n == v.of[1]
      <3>1. n \in Nat /\ n <= Beyond /\ v.of = <<n>>
        BY <1>1, <2>1
      <3>2. child.content = IntegerBytes(n) /\ child.tag = TAG_INTEGER
        BY <1>2, <2>1 DEF ValueContent
      <3> HIDE DEF n
      <3>3. child.content # <<>> /\ decode_integer(child.content) = n
        BY <3>1, <3>2, IntegerReadBack
      <3> QED
        BY <1>2, <3>1, <3>2, <3>3 DEF Decodable
    <2>2. CASE v.tag = TAG_OID
      <3> DEFINE arcs == v.of
                 c == OidBytes(arcs)[Len(arcs) - 2]
      <3>1. arcs \in Oid
        BY <1>1, <2>2
      <3>2. child.content = c /\ child.tag = TAG_OID
        BY <1>2, <2>2 DEF ValueContent
      <3> HIDE DEF arcs
      <3>3. Len(arcs) - 2 \in 0..(Len(arcs) - 2)
        <4>1. Len(arcs) - 2 \in Nat
          BY <3>1, OidIs
        <4> DEFINE N == Len(arcs) - 2
        <4> HIDE DEF N
        <4>2. N \in Nat => N \in 0..N
          BY SMT
        <4> QED
          BY <4>1, <4>2 DEF N
      <3>4. c \in Seq(Byte) /\ Len(c) >= 1 /\ c[Len(c)] < 128
        BY <3>1, <3>3, OidBytesEnd
      <3>5. decode_oid(c) = arcs
        BY <3>1, OidReadBack
      <3> HIDE DEF c
      <3>6. c # <<>>
        BY <3>4, SMT
      <3> QED
        BY <1>2, <3>2, <3>4, <3>5, <3>6 DEF Decodable, Last, arcs
    <2>3. CASE v.tag = TAG_OCTET_STRING
      <3>1. child.content = v.of /\ child.tag = TAG_OCTET_STRING
        BY <1>2, <2>3 DEF ValueContent
      <3> QED
        BY <1>2, <3>1 DEF Decodable
    <2> QED
      BY <1>1, <2>1, <2>2, <2>3
  <1>4. Decoded(child) = [tag |-> child.tag, of |-> w]
    BY DEF Decoded
  <1> QED
    BY <1>1, <1>3, <1>4

LEMMA MessageIs ==
  ASSUME NEW m \in Messages
  PROVE  /\ m \in Seq(Value) /\ Len(m) \in Nat /\ DOMAIN m = 1..Len(m)
         /\ \A k \in 1..Len(m) : m[k] \in Value
         /\ Body(m) \in Seq(Byte) /\ Fits(Len(Body(m)))
  <1>1. m \in Seq(Value) /\ Fits(Len(Body(m)))
    BY MessagesAssumption
  <1>2. Len(m) \in Nat /\ Body(m) \in Seq(Byte) /\ \A k \in 1..Len(m) : m[k] \in Value
    BY <1>1, BodyIs
  <1> QED
    BY <1>1, <1>2, LenProperties

-----------------------------------------------------------------------------
(***************************************************************************)
(* Reading back.  The children read so far are the first values of the     *)
(* message, and the offset is where the bytes of the next one begin.       *)
(***************************************************************************)
Begun(values, children) ==
    /\ Len(children) <= Len(values)
    /\ \A k \in 1..Len(children) :
          children[k].tag = values[k].tag /\ children[k].content = ValueContent(values[k])

ReadOn ==
    content = Body(sent) /\ Begun(sent, out) /\ off = Len(ValueBytes(sent)[Len(out)])

ReadBack ==
    fate \in {"whole", "extended"} =>
        /\ step # "DerError"
        /\ step = "open" => out = <<>> /\ off = 0 /\ Stands(encode_sequence(sent), buf, 0)
        /\ step # "open" => ReadOn
        /\ step \in {"decode", "read"} => Len(out) = Len(sent)

LEMMA BegunOne ==
  ASSUME NEW m \in Messages, NEW children \in Seq(Child), NEW t \in Child,
         Begun(m, children), Len(children) < Len(m),
         t.tag = m[Len(children) + 1].tag, t.content = ValueContent(m[Len(children) + 1])
  PROVE  Begun(m, Append(children, t)) /\ Len(Append(children, t)) = Len(children) + 1
  <1> DEFINE new == Append(children, t)
             len == Len(children)
  <1>1. /\ len \in Nat /\ Len(new) = len + 1
        /\ \A k \in 1..len : new[k] = children[k]
        /\ new[len + 1] = t
    BY SMT
  <1>2. Len(m) \in Nat
    BY MessageIs
  <1> HIDE DEF new, len
  <1>3. len + 1 <= Len(m) /\ \A k \in 1..(len + 1) : k \in 1..len \/ k = len + 1
    BY <1>1, <1>2, SMT DEF len
  <1>4. \A k \in 1..len :
           children[k].tag = m[k].tag /\ children[k].content = ValueContent(m[k])
    BY DEF Begun, len
  <1>5. t.tag = m[len + 1].tag /\ t.content = ValueContent(m[len + 1])
    BY DEF len
  <1>6. ASSUME NEW k \in 1..Len(new)
        PROVE  new[k].tag = m[k].tag /\ new[k].content = ValueContent(m[k])
    BY <1>1, <1>3, <1>4, <1>5
  <1>7. Begun(m, new) /\ Len(new) = len + 1
    BY <1>1, <1>3, <1>6 DEF Begun
  <1> QED
    BY <1>7 DEF new, len

LEMMA ReadBackInit == Init => ReadBack
  <1> SUFFICES ASSUME Init
               PROVE  ReadBack
    OBVIOUS
  <1> DEFINE t == encode_sequence(sent)
  <1>1. sent \in Messages /\ buf = t /\ step = "open" /\ out = <<>> /\ off = 0
    BY DEF Init
  <1>2. t \in Seq(Byte)
    BY <1>1, MessageEncoded
  <1> HIDE DEF t
  <1>3. Stands(t, t, 0)
    BY <1>2, SMT DEF Stands
  <1> QED
    BY <1>1, <1>3 DEF ReadBack, t

LEMMA ReadBackNext ==
  ASSUME IInv, ReadBack, [Next]_vars
  PROVE  ReadBack'
  <1> SUFFICES ASSUME fate' \in {"whole", "extended"}
               PROVE  /\ step' # "DerError"
                      /\ step' = "open" =>
                            out' = <<>> /\ off' = 0 /\ Stands(encode_sequence(sent'), buf', 0)
                      /\ step' # "open" => ReadOn'
                      /\ step' \in {"decode", "read"} => Len(out') = Len(sent')
    BY DEF ReadBack
  <1>1. /\ sent \in Messages /\ buf \in Seq(Byte) /\ content \in Seq(Byte)
        /\ off \in Nat /\ off <= Len(content) /\ out \in Seq(Child) /\ Len(out) \in Nat
    BY LenProperties, SMT DEF IInv, TypeOK
  <1>2. /\ Len(sent) \in Nat /\ Body(sent) \in Seq(Byte) /\ Fits(Len(Body(sent)))
        /\ \A k \in 1..Len(sent) : sent[k] \in Value
    BY <1>1, MessageIs
  <1>3. CASE Truncate \/ Alter
    <2>1. fate' \in {"truncated", "altered"}
      BY <1>3 DEF Truncate, Alter, Arrives
    <2> QED
      BY <2>1
  <1>4. CASE Extend
    <2>1. PICK o \in Octets : Arrives("extended", Append(buf, o))
      BY <1>4 DEF Extend
    <2>2. /\ step = "open" /\ fate = "whole" /\ buf' = Append(buf, o)
          /\ UNCHANGED <<sent, step, content, off, out>>
      BY <2>1 DEF Arrives
    <2> DEFINE t == encode_sequence(sent)
    <2>3. Stands(t, buf, 0) /\ out = <<>> /\ off = 0
      BY <2>2 DEF ReadBack
    <2>4. t \in Seq(Byte) /\ o \in Byte
      BY <1>1, MessageEncoded, OctetsAssumption
    <2> HIDE DEF t
    <2>5. Stands(t, Append(buf, o), 0)
      BY <1>1, <2>3, <2>4, SMT DEF Stands
    <2> QED
      BY <2>2, <2>3, <2>5 DEF t
  <1>5. CASE Open
    <2>1. step = "open" /\ fate \in {"whole", "extended"}
      BY <1>5 DEF Open, DerError
    <2> DEFINE t == encode_sequence(sent)
    <2>2. Stands(t, buf, 0) /\ out = <<>> /\ off = 0
      BY <2>1 DEF ReadBack
    <2>3. t = encode_tlv(TAG_SEQUENCE, Body(sent))
      BY DEF encode_sequence
    <2>4. TAG_SEQUENCE \in Byte /\ TAG_SEQUENCE % 32 # 31 /\ 0 \in Nat
      BY SMT DEF TAG_SEQUENCE, Byte
    <2> HIDE DEF t
    <2>5. ReadsAs(buf, 0, TAG_SEQUENCE, Body(sent), 0 + Len(t))
      BY <1>1, <1>2, <2>2, <2>3, <2>4, ReadThere
    <2>6. /\ Readable(buf, 0) /\ read_tlv(buf, 0).tag = TAG_SEQUENCE
          /\ read_tlv(buf, 0).content = Body(sent)
      BY <2>5 DEF ReadsAs
    <2>7. /\ step' = "children" /\ content' = Body(sent)
          /\ UNCHANGED <<sent, buf, fate, off, out>>
      BY <1>5, <2>6 DEF Open
    <2>8. Begun(sent, <<>>) /\ Len(ValueBytes(sent)[Len(<<>>)]) = 0
      <3>1. ValueBytes(sent)[0] = <<>>
        BY <1>1, MessageIs, BodyIs
      <3>2. Len(<<>>) = 0 /\ 1..0 = {}
        BY SMT
      <3>3. 0 <= Len(sent)
        BY <1>2, SMT
      <3> QED
        BY <3>1, <3>2, <3>3 DEF Begun
    <2>9. ReadOn'
      BY <2>2, <2>7, <2>8 DEF ReadOn
    <2> QED
      BY <2>7, <2>9
  <1>6. CASE ReadChild
    <2>1. step = "children" /\ off < Len(content) /\ fate \in {"whole", "extended"}
      BY <1>6 DEF ReadChild, DerError
    <2>2. content = Body(sent) /\ Begun(sent, out) /\ off = Len(ValueBytes(sent)[Len(out)])
      BY <2>1 DEF ReadBack, ReadOn
    <2> DEFINE k == Len(out)
               v == sent[k + 1]
               e == Len(ValueBytes(sent)[k + 1])
    <2>3. k \in 0..Len(sent) /\ k < Len(sent)
      <3>1. k # Len(sent)
        <4>1. Body(sent) = ValueBytes(sent)[Len(sent)]
          BY <1>1, MessageIs, BodyIs
        <4>2. Len(Body(sent)) \in Nat
          BY <1>2, LenProperties
        <4>3. Len(Body(sent)) < Len(Body(sent)) => FALSE
          BY <4>2, SMT
        <4> QED
          BY <2>1, <2>2, <4>1, <4>3
      <3>2. k <= Len(sent)
        BY <2>2 DEF Begun
      <3> QED
        BY <1>1, <1>2, <3>1, <3>2, SMT
    <2>4. ReadsAs(content, off, v.tag, ValueContent(v), e)
      BY <1>1, <2>2, <2>3, ValueThere
    <2> HIDE DEF v, e
    <2>5. /\ Readable(content, off) /\ read_tlv(content, off).tag = v.tag
          /\ read_tlv(content, off).content = ValueContent(v)
          /\ read_tlv(content, off).end = e
      BY <2>4 DEF ReadsAs
    <2>6. /\ out' = Append(out, read_tlv(content, off)) /\ off' = e
          /\ UNCHANGED <<sent, buf, fate, step, content>>
      BY <1>6, <2>5 DEF ReadChild
    <2>7. read_tlv(content, off) \in Child
      BY <1>1, <2>5, ReadTyped
    <2>8. Begun(sent, out') /\ Len(out') = k + 1
      BY <1>1, <2>2, <2>3, <2>5, <2>6, <2>7, BegunOne DEF v
    <2>9. ReadOn'
      BY <2>2, <2>6, <2>8 DEF ReadOn, e
    <2> QED
      BY <2>1, <2>6, <2>9
  <1>7. CASE AllRead
    <2>1. /\ step = "children" /\ off >= Len(content) /\ step' = "decode"
          /\ UNCHANGED <<sent, buf, fate, content, off, out>>
      BY <1>7 DEF AllRead
    <2>2. ReadOn
      BY <2>1 DEF ReadBack
    <2> DEFINE k == Len(out)
    <2>3. k = Len(sent)
      <3> SUFFICES ASSUME k # Len(sent)
                   PROVE  FALSE
        OBVIOUS
      <3>1. k <= Len(sent)
        BY <2>2 DEF ReadOn, Begun
      <3>2. k \in 0..Len(sent) /\ k < Len(sent)
        BY <1>1, <1>2, <3>1, SMT
      <3> DEFINE o == Len(ValueBytes(sent)[k])
                 e == Len(ValueBytes(sent)[k + 1])
                 l == Len(Body(sent))
      <3>3. o \in Nat /\ o < e /\ e <= l
        BY <1>1, <3>2, ValueThere
      <3>4. o >= l
        BY <2>1, <2>2 DEF ReadOn
      <3>5. e \in Nat /\ l \in Nat
        <4>1. ValueBytes(sent) \in [0..Len(sent) -> Seq(Byte)]
          BY <1>1, MessageIs, BodyIs
        <4>2. k + 1 \in 0..Len(sent)
          BY <1>1, <1>2, <3>2, SMT
        <4>3. ValueBytes(sent)[k + 1] \in Seq(Byte)
          BY <4>1, <4>2
        <4> QED
          BY <1>2, <4>3, LenProperties
      <3> HIDE DEF o, e, l
      <3> QED
        BY <3>3, <3>4, <3>5, SMT
    <2>4. ReadOn'
      BY <2>1, <2>2 DEF ReadOn
    <2> QED
      BY <2>1, <2>3, <2>4
  <1>8. CASE Decode
    <2>1. step = "decode" /\ fate \in {"whole", "extended"}
      BY <1>8 DEF Decode, DerError
    <2>2. ReadOn /\ Len(out) = Len(sent)
      BY <2>1 DEF ReadBack
    <2>3. ASSUME NEW k \in DOMAIN out
          PROVE  Decodable(out[k])
      <3>1. k \in 1..Len(out) /\ k \in 1..Len(sent)
        BY <1>1, <2>2, LenProperties
      <3>2. out[k].tag = sent[k].tag /\ out[k].content = ValueContent(sent[k])
        BY <2>2, <3>1 DEF ReadOn, Begun
      <3> QED
        BY <1>2, <3>1, <3>2, ValueDecoded
    <2>4. step' = "read" /\ UNCHANGED <<sent, buf, fate, content, off, out>>
      BY <1>8, <2>3 DEF Decode
    <2>5. ReadOn'
      BY <2>2, <2>4 DEF ReadOn
    <2> QED
      BY <2>2, <2>4, <2>5
  <1>9. CASE UNCHANGED vars
    BY <1>9 DEF vars, ReadBack, ReadOn
  <1> QED
    BY <1>3, <1>4, <1>5, <1>6, <1>7, <1>8, <1>9 DEF Next, Read, Answered

LEMMA ReadingBack == Spec => []ReadBack
  <1>1. IInv /\ ReadBack /\ [Next]_vars => ReadBack'
    BY ReadBackNext
  <1> QED
    BY <1>1, ReadBackInit, Invariant, PTL DEF Spec

(***************************************************************************)
(* A message that arrives whole, with or without bytes behind it, is read  *)
(* without an error, and as the integers, object identifiers and octet     *)
(* strings that were written: encode_integer, encode_oid and               *)
(* encode_sequence against read_tlv, read_children, decode_integer and     *)
(* decode_oid of asn1.py.                                                  *)
(***************************************************************************)
THEOREM ReadAsWritten == Spec => []RoundTrip
  <1>1. IInv /\ ReadBack => RoundTrip
    <2> SUFFICES ASSUME IInv, ReadBack, fate \in {"whole", "extended"}
                 PROVE  /\ step # "DerError"
                        /\ step = "read" => [k \in DOMAIN out |-> Decoded(out[k])] = sent
      BY DEF RoundTrip
    <2>1. sent \in Messages /\ out \in Seq(Child)
      BY DEF IInv, TypeOK
    <2>2. ASSUME step = "read"
          PROVE  [k \in DOMAIN out |-> Decoded(out[k])] = sent
      <3>1. ReadOn /\ Len(out) = Len(sent)
        BY <2>2 DEF ReadBack
      <3>2. DOMAIN out = 1..Len(sent) /\ DOMAIN sent = 1..Len(sent) /\ sent \in Seq(Value)
        BY <2>1, <3>1, MessageIs, LenProperties
      <3>3. ASSUME NEW k \in 1..Len(sent)
            PROVE  Decoded(out[k]) = sent[k]
        <4>1. out[k].tag = sent[k].tag /\ out[k].content = ValueContent(sent[k])
          BY <3>1 DEF ReadOn, Begun
        <4>2. sent[k] \in Value
          BY <2>1, MessageIs
        <4> QED
          BY <4>1, <4>2, ValueDecoded
      <3>4. sent = [k \in 1..Len(sent) |-> sent[k]]
        BY <3>2, LenProperties
      <3> QED
        BY <3>2, <3>3, <3>4
    <2> QED
      BY <2>2 DEF ReadBack
  <1> QED
    BY <1>1, Invariant, ReadingBack, PTL

(***************************************************************************)
(* Every integer of a message is written in the fewest bytes: the byte of  *)
(* zeros stands only where the first bit would be taken for a sign         *)
(* (asn1.py, encode_integer).                                              *)
(***************************************************************************)
THEOREM FewestBytes == Spec => []IntegersShortest
  <1>1. IInv /\ ReadBack => IntegersShortest
    <2> SUFFICES ASSUME IInv, ReadBack, fate = "whole",
                        NEW k \in DOMAIN out, out[k].tag = TAG_INTEGER
                 PROVE  Shortest(out[k].content)
      BY DEF IntegersShortest
    <2>1. sent \in Messages /\ out \in Seq(Child)
      BY DEF IInv, TypeOK
    <2>2. k \in 1..Len(out)
      BY <2>1, LenProperties
    <2>3. step # "open"
      <3>1. 1..Len(<<>>) = {}
        BY SMT
      <3> QED
        BY <2>2, <3>1 DEF ReadBack
    <2>4. Begun(sent, out)
      BY <2>3 DEF ReadBack, ReadOn
    <2>5. k \in 1..Len(sent)
      <3>1. Len(out) \in Nat /\ Len(sent) \in Nat /\ Len(out) <= Len(sent)
        BY <2>1, <2>4, MessageIs, LenProperties DEF Begun
      <3> QED
        BY <2>2, <3>1, SMT
    <2>6. sent[k] \in Value /\ sent[k].tag = TAG_INTEGER
          /\ out[k].content = ValueContent(sent[k])
      BY <2>1, <2>2, <2>4, <2>5, MessageIs DEF Begun
    <2>7. sent[k].of[1] \in Nat
      BY <2>6, ValueIs
    <2>8. out[k].content = IntegerBytes(sent[k].of[1])
      <3>1. TAG_INTEGER # TAG_OID /\ TAG_INTEGER # TAG_OCTET_STRING
        BY SMT DEF TAG_INTEGER, TAG_OID, TAG_OCTET_STRING
      <3> QED
        BY <2>6, <3>1 DEF ValueContent
    <2> QED
      BY <2>7, <2>8, IntegerShortest
  <1> QED
    BY <1>1, Invariant, ReadingBack, PTL

=============================================================================
