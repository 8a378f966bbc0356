------------------------------- MODULE Csw_proofs -------------------------------
(***************************************************************************)
(* Proofs about Csw.  Numbers are written in digits of 16, of which the    *)
(* codec uses two, four or eight; a text of digits is cut into bytes, and  *)
(* a byte that is not two digits cuts it short.                            *)
(***************************************************************************)
EXTENDS Csw, WellFoundedInduction, TLAPS

Digit == 0..15
Char == Digit \cup {Bad}

-----------------------------------------------------------------------------
(* Digits *)

LEMMA Powers ==
  /\ 16^0 = 1 /\ 16^1 = 16 /\ 16^2 = 256 /\ 16^3 = 4096 /\ 16^4 = 65536 /\ 16^5 = 1048576
  /\ 16^6 = 16777216 /\ 16^7 = 268435456 /\ 16^8 = 4294967296
OBVIOUS

\* The solver computes a power of literals and knows nothing of another.
Pow(k) == 16^k

LEMMA PowersGrow ==
  \A i, j \in 0..8 : /\ 16^i \in Nat /\ 16^i >= 1
                     /\ i <= j => 16^i <= 16^j
<1>1. /\ Pow(0) = 1 /\ Pow(1) = 16 /\ Pow(2) = 256 /\ Pow(3) = 4096 /\ Pow(4) = 65536
      /\ Pow(5) = 1048576 /\ Pow(6) = 16777216 /\ Pow(7) = 268435456 /\ Pow(8) = 4294967296
  BY DEF Pow
<1>2. \A i, j \in 0..8 : Pow(i) \in Nat /\ Pow(i) >= 1 /\ (i <= j => Pow(i) <= Pow(j))
  <2> TAKE i, j \in 0..8
  <2>1. i \in {0, 1, 2, 3, 4, 5, 6, 7, 8} /\ j \in {0, 1, 2, 3, 4, 5, 6, 7, 8}
    OBVIOUS
  <2> QED
    BY <1>1, <2>1
<1> QED
  BY <1>2, Zenon DEF Pow

\* A number below a power has no digit at its place.
LEMMA NoDigit ==
  ASSUME NEW num \in Nat, NEW i \in 0..7, num < 16^i
  PROVE  (num \div 16^i) % 16 = 0
<1>1. i \in {0, 1, 2, 3, 4, 5, 6, 7}
  OBVIOUS
<1> QED
  BY <1>1, Powers

LEMMA DigitType ==
  ASSUME NEW num \in Nat, NEW i \in 0..7
  PROVE  (num \div 16^i) % 16 \in Digit
<1>1. i \in {0, 1, 2, 3, 4, 5, 6, 7}
  OBVIOUS
<1> QED
  BY <1>1, Powers DEF Digit

LEMMA DigitsType ==
  ASSUME NEW num \in Nat, NEW k \in 0..8
  PROVE  Digits(num, k) \in Seq(Digit) /\ Len(Digits(num, k)) = k
<1>1. \A i \in 1..k : (num \div 16^(k - i)) % 16 \in Digit
  <2> TAKE i \in 1..k
  <2>1. k - i \in 0..7
    OBVIOUS
  <2> QED
    BY <2>1, DigitType
<1> QED
  BY <1>1 DEF Digits

LeastDigits(num) == CHOOSE k \in 1..8 : (k = 8 \/ 16^k > num) /\ (k = 1 \/ 16^(k-1) <= num)

LEMMA LeastDigitsExist ==
  ASSUME NEW num \in Nat
  PROVE  /\ LeastDigits(num) \in 1..8
         /\ LeastDigits(num) = 8 \/ 16^LeastDigits(num) > num
         /\ LeastDigits(num) = 1 \/ 16^(LeastDigits(num) - 1) <= num
         /\ toString16(num) = Digits(num, LeastDigits(num))
<1>1. \E k \in 1..8 : (k = 8 \/ 16^k > num) /\ (k = 1 \/ 16^(k-1) <= num)
  <2>1. CASE num < 16
    <3>1. 1 \in 1..8 /\ 16^1 > num
      BY <2>1, Powers
    <3> QED
      BY <3>1
  <2>2. \A k \in 2..8 : 16^(k-1) <= num /\ (k = 8 \/ num < 16^k)
                          => \E j \in 1..8 : (j = 8 \/ 16^j > num) /\ (j = 1 \/ 16^(j-1) <= num)
    <3> TAKE k \in 2..8
    <3> HAVE 16^(k-1) <= num /\ (k = 8 \/ num < 16^k)
    <3>1. k \in 1..8 /\ (k = 8 \/ 16^k > num)
      BY PowersGrow
    <3> QED
      BY <3>1
  <2>3. CASE num >= 16
    <3>1. \E k \in 2..8 : 16^(k-1) <= num /\ (k = 8 \/ num < 16^k)
      <4>1. CASE num < 16^2
        BY <4>1, <2>3, Powers
      <4>2. CASE num >= 16^2 /\ num < 16^3
        BY <4>2, Powers
      <4>3. CASE num >= 16^3 /\ num < 16^4
        BY <4>3, Powers
      <4>4. CASE num >= 16^4 /\ num < 16^5
        BY <4>4, Powers
      <4>5. CASE num >= 16^5 /\ num < 16^6
        BY <4>5, Powers
      <4>6. CASE num >= 16^6 /\ num < 16^7
        BY <4>6, Powers
      <4>7. CASE num >= 16^7
        BY <4>7, Powers
      <4> QED
        BY <4>1, <4>2, <4>3, <4>4, <4>5, <4>6, <4>7, Powers
    <3> QED
      BY <3>1, <2>2
  <2> QED
    BY <2>1, <2>3
<1> QED
  BY <1>1, Zenon DEF LeastDigits, toString16

\* A number that fits is written with zeros before its digits.
LEMMA Padded ==
  ASSUME NEW len \in {2, 4, 8}, NEW num \in Nat, num < 16^len
  PROVE  hexFromNumber(num, len) = Digits(num, len)
<1> DEFINE K == LeastDigits(num)
<1>1. K \in 1..8 /\ (K = 8 \/ 16^K > num) /\ (K = 1 \/ 16^(K - 1) <= num)
  BY LeastDigitsExist
<1>2. toString16(num) = Digits(num, K)
  BY LeastDigitsExist
<1> HIDE DEF K
<1>3. K <= len
  <2> SUFFICES ASSUME K > len PROVE FALSE
    BY <1>1
  <2>1. len \in 0..8 /\ K - 1 \in 0..8 /\ len <= K - 1 /\ K # 1
    BY <1>1
  <2>2. 16^len <= 16^(K - 1) /\ 16^len \in Nat /\ 16^(K - 1) \in Nat
    BY <2>1, PowersGrow
  <2> QED
    BY <1>1, <2>1, <2>2
<1>4. K = len \/ num < 16^K
  BY <1>1, <1>3
<1>5. ~(num > 0 /\ num \div 16^(len - 1) >= 16)
  <2>1. CASE len = 2
    <3>1. num < 16^2
      BY <2>1, Zenon
    <3>2. ~(num \div 16^(2 - 1) >= 16)
      BY <3>1, Powers
    <3> QED
      BY <2>1, <3>2
  <2>2. CASE len = 4
    <3>1. num < 16^4
      BY <2>2, Zenon
    <3>2. ~(num \div 16^(4 - 1) >= 16)
      BY <3>1, Powers
    <3> QED
      BY <2>2, <3>2
  <2>3. CASE len = 8
    <3>1. num < 16^8
      BY <2>3, Zenon
    <3>2. ~(num \div 16^(8 - 1) >= 16)
      BY <3>1, Powers
    <3> QED
      BY <2>3, <3>2
  <2> QED
    BY <2>1, <2>2, <2>3
<1>6. Signed(num) = Digits(num, K)
  BY <1>2 DEF Signed
<1>7. padStart(Digits(num, K), len) = Digits(num, len)
  <2>0. K \in 0..8 /\ len \in 0..8 /\ K \in Nat /\ len \in Nat
    BY <1>1
  <2> DEFINE zeros == [i \in 1..(len - K) |-> 0]
  <2>1. zeros \in Seq(Digit) /\ Len(zeros) = len - K /\ \A i \in 1..(len - K) : zeros[i] = 0
    BY <1>1, <1>3 DEF Digit
  <2>2. Digits(num, K) \in Seq(Digit) /\ Len(Digits(num, K)) = K
    BY <2>0, DigitsType, Zenon
  <2>3. Digits(num, len) \in Seq(Digit) /\ Len(Digits(num, len)) = len
    BY <2>0, DigitsType, Zenon
  <2>4. padStart(Digits(num, K), len) = zeros \o Digits(num, K)
    BY <2>2 DEF padStart
  <2> HIDE DEF zeros
  <2>5. zeros \o Digits(num, K) \in Seq(Digit) /\ Len(zeros \o Digits(num, K)) = len
    BY <1>1, <1>3, <2>1, <2>2
  <2>6. ASSUME NEW i \in 1..len
        PROVE  (zeros \o Digits(num, K))[i] = Digits(num, len)[i]
    <3>1. Digits(num, len)[i] = (num \div 16^(len - i)) % 16
      BY DEF Digits
    <3>2. CASE i <= len - K
      <4>1. (zeros \o Digits(num, K))[i] = 0
        BY <3>2, <1>1, <1>3, <2>1, <2>2
      <4>2. K # len /\ len - i \in 0..7 /\ len - i \in 0..8 /\ K \in 0..8 /\ K <= len - i
        BY <3>2, <1>1, <1>3
      <4>3. 16^K <= 16^(len - i) /\ 16^K \in Nat /\ 16^(len - i) \in Nat
        BY <4>2, PowersGrow, Zenon
      <4>4. num < 16^(len - i)
        BY <4>2, <4>3, <1>4
      <4> QED
        BY <3>1, <4>1, <4>2, <4>4, NoDigit
    <3>3. CASE i > len - K
      <4> DEFINE j == i - (len - K)
      <4>1. j \in 1..K /\ K - j = len - i
        BY <3>3, <1>1, <1>3
      <4>2. (zeros \o Digits(num, K))[i] = Digits(num, K)[j]
        BY <3>3, <1>1, <1>3, <2>1, <2>2
      <4>3. Digits(num, K)[j] = (num \div 16^(K - j)) % 16
        BY <4>1 DEF Digits
      <4> QED
        BY <3>1, <4>1, <4>2, <4>3
    <3>4. i <= len - K \/ i > len - K
      BY <2>0
    <3> QED
      BY <3>2, <3>3, <3>4, Zenon
  <2>7. zeros \o Digits(num, K) = Digits(num, len)
    BY <2>3, <2>5, <2>6
  <2> QED
    BY <2>4, <2>7
<1> QED
  BY <1>5, <1>6, <1>7 DEF hexFromNumber

LEMMA toString16Type ==
  ASSUME NEW num \in Nat
  PROVE  toString16(num) \in Seq(Digit) /\ Len(toString16(num)) \in 1..8
<1>1. LeastDigits(num) \in 1..8 /\ toString16(num) = Digits(num, LeastDigits(num))
  BY LeastDigitsExist
<1>2. LeastDigits(num) \in 0..8
  BY <1>1
<1> QED
  BY <1>1, <1>2, DigitsType

-----------------------------------------------------------------------------
(* Texts that are cut *)

\* One of the first k characters is no digit.
CutWithin(text, k) == text \in Seq(Char) /\ \E i \in 1..k : i <= Len(text) /\ text[i] = Bad

LEMMA CutWider ==
  ASSUME NEW s, NEW k \in Nat, CutWithin(s, k), NEW m \in Nat, k <= m
  PROVE  CutWithin(s, m)
BY SMT DEF CutWithin

LEMMA CutOn ==
  ASSUME NEW s, NEW k \in Nat, CutWithin(s, k), NEW t \in Seq(Char)
  PROVE  CutWithin(s \o t, k)
<1>1. s \in Seq(Char)
  BY DEF CutWithin
<1>2. PICK i \in 1..k : i <= Len(s) /\ s[i] = Bad
  BY DEF CutWithin
<1>3. s \o t \in Seq(Char) /\ Len(s \o t) = Len(s) + Len(t) /\ (s \o t)[i] = s[i]
  BY <1>1, <1>2
<1>4. i <= Len(s \o t)
  BY <1>1, <1>2, <1>3
<1> QED
  BY <1>2, <1>3, <1>4, Zenon DEF CutWithin

LEMMA CutAfter ==
  ASSUME NEW s \in Seq(Char), NEW t, NEW k \in Nat, CutWithin(t, k)
  PROVE  CutWithin(s \o t, Len(s) + k)
<1>1. t \in Seq(Char)
  BY DEF CutWithin
<1>2. PICK i \in 1..k : i <= Len(t) /\ t[i] = Bad
  BY DEF CutWithin
<1>3. s \o t \in Seq(Char) /\ Len(s \o t) = Len(s) + Len(t)
  BY <1>1
<1>4. Len(s) + i \in 1..(Len(s) + k) /\ Len(s) + i <= Len(s \o t) /\ (s \o t)[Len(s) + i] = Bad
  BY <1>1, <1>2, <1>3
<1> QED
  BY <1>3, <1>4, Zenon DEF CutWithin

LEMMA Greatest ==
  ASSUME NEW n \in Nat, NEW S \in SUBSET (0..n), S # {}
  PROVE  \E m \in S : \A k \in S : k <= m
<1> DEFINE R == {p \in Nat \X Nat : p[1] < p[2]}
           T == {d \in 0..n : n - d \in S}
<1>1. IsWellFoundedOn(R, Nat)
  BY NatLessThanWellFounded DEF OpToRel
<1>2. \A k, m \in Nat : k < m => <<k, m>> \in R
  OBVIOUS
<1>3. T \in SUBSET Nat /\ T # {}
  <2>1. PICK k \in S : TRUE
    OBVIOUS
  <2>2. n - k \in 0..n /\ n - (n - k) = k
    BY <2>1
  <2>3. n - k \in T
    BY <2>1, <2>2
  <2>4. T \subseteq 0..n /\ 0..n \subseteq Nat
    OBVIOUS
  <2> HIDE DEF T
  <2> QED
    BY <2>3, <2>4
<1>4. \A d \in T : d \in 0..n /\ n - d \in S
  OBVIOUS
<1>5. \A k \in S : n - k \in T
  <2> TAKE k \in S
  <2>1. n - k \in 0..n /\ n - (n - k) = k
    OBVIOUS
  <2> QED
    BY <2>1
<1> HIDE DEF R, T
<1>6. PICK d \in T : \A e \in T : <<e, d>> \notin R
  BY <1>1, <1>3, WFMin
<1>7. ASSUME NEW k \in S PROVE k <= n - d
  <2>1. d \in Nat /\ n - k \in Nat /\ k \in Nat
    BY <1>4
  <2>2. ~(n - k < d)
    BY <1>2, <1>5, <1>6, <2>1
  <2> QED
    BY <2>1, <2>2
<1> QED
  BY <1>4, <1>7

\* What Buffer.from makes of a text: as many bytes as there are pairs of digits at
\* its front.
Pairs(text) == {k \in 0..(Len(text) \div 2) : \A i \in 1..(2 * k) : text[i] # Bad}
PairsAtFront(text) == CHOOSE k \in Pairs(text) : \A j \in Pairs(text) : j <= k

LEMMA FrontOfText ==
  ASSUME NEW text \in Seq(Char)
  PROVE  /\ PairsAtFront(text) \in Pairs(text)
         /\ \A j \in Pairs(text) : j <= PairsAtFront(text)
         /\ Bytes(text) = [i \in 1..PairsAtFront(text) |-> 16 * text[2 * i - 1] + text[2 * i]]
<1>1. Len(text) \div 2 \in Nat
  OBVIOUS
<1>2. Pairs(text) \in SUBSET (0..(Len(text) \div 2)) /\ Pairs(text) # {}
  <2>1. 0 \in 0..(Len(text) \div 2) /\ \A i \in 1..(2 * 0) : text[i] # Bad
    BY <1>1
  <2> QED
    BY <2>1 DEF Pairs
<1>3. \E m \in Pairs(text) : \A j \in Pairs(text) : j <= m
  BY <1>1, <1>2, Greatest
<1>4. Bytes(text) = [i \in 1..PairsAtFront(text) |-> 16 * text[2 * i - 1] + text[2 * i]]
  BY Zenon DEF Bytes, PairsAtFront, Pairs
<1> QED
  BY <1>3, <1>4, Zenon DEF PairsAtFront

\* A text whose first 38 characters are not all digits makes fewer than 19 bytes.
LEMMA CutBytes ==
  ASSUME NEW text, NEW k \in 0..38, CutWithin(text, k)
  PROVE  Len(Bytes(text)) < 19
<1> DEFINE n == PairsAtFront(text)
<1>1. text \in Seq(Char)
  BY DEF CutWithin
<1>2. PICK i \in 1..k : i <= Len(text) /\ text[i] = Bad
  BY DEF CutWithin
<1>3. n \in Nat /\ \A j \in 1..(2 * n) : text[j] # Bad
  <2>1. n \in Pairs(text)
    BY <1>1, FrontOfText
  <2>2. Len(text) \div 2 \in Nat
    BY <1>1
  <2> HIDE DEF n
  <2> QED
    BY <2>1, <2>2 DEF Pairs
<1>4. Bytes(text) = [j \in 1..n |-> 16 * text[2 * j - 1] + text[2 * j]]
  BY <1>1, FrontOfText
<1> HIDE DEF n
<1>5. Len(Bytes(text)) = n
  BY <1>3, <1>4
<1>6. ~(i \in 1..(2 * n))
  BY <1>2, <1>3
<1> QED
  BY <1>2, <1>3, <1>5, <1>6

LEMMA BytePair ==
  \A d, e \in Digit : 16 * d + e \in Byte
BY DEF Digit, Byte

\* A text of digits alone makes all its bytes.
LEMMA WholeBytes ==
  ASSUME NEW n \in Nat, NEW text \in Seq(Digit), Len(text) = 2 * n
  PROVE  /\ Bytes(text) \in Seq(Byte) /\ Len(Bytes(text)) = n
         /\ \A i \in 1..n : Bytes(text)[i] = 16 * text[2 * i - 1] + text[2 * i]
<1>1. text \in Seq(Char)
  BY DEF Char
<1>2. Len(text) \div 2 = n
  OBVIOUS
<1>3. \A i \in 1..(2 * n) : text[i] # Bad
  BY DEF Digit, Bad
<1>4. n \in Pairs(text) /\ \A j \in Pairs(text) : j <= n
  BY <1>2, <1>3 DEF Pairs
<1>5. PairsAtFront(text) = n
  <2>1. PairsAtFront(text) \in Pairs(text) /\ \A j \in Pairs(text) : j <= PairsAtFront(text)
    BY <1>1, FrontOfText
  <2>2. PairsAtFront(text) \in Nat
    BY <2>1, <1>2 DEF Pairs
  <2> QED
    BY <1>4, <2>1, <2>2
<1>6. Bytes(text) = [i \in 1..n |-> 16 * text[2 * i - 1] + text[2 * i]]
  BY <1>1, <1>5, FrontOfText
<1>7. \A i \in 1..n : 16 * text[2 * i - 1] + text[2 * i] \in Byte
  <2> TAKE i \in 1..n
  <2>1. 2 * i - 1 \in 1..Len(text) /\ 2 * i \in 1..Len(text)
    OBVIOUS
  <2>2. text[2 * i - 1] \in Digit /\ text[2 * i] \in Digit
    BY <2>1
  <2> QED
    BY <2>2, BytePair
<1> QED
  BY <1>6, <1>7

-----------------------------------------------------------------------------
(* What the numbers of a change packet are written as *)

LEMMA DigitsAreChars == \A s \in Seq(Digit) : s \in Seq(Char)
BY DEF Char

\* The sign of a negative number is no digit, and stands before it.
LEMMA NegativeCut ==
  ASSUME NEW num \in Int, num < 0, NEW len \in Nat, len > 1
  PROVE  CutWithin(hexFromNumber(num, len), len)
<1> DEFINE t == toString16(-num)
           text == <<Bad>> \o t
           more == len - Len(text)
           zeros == [i \in 1..more |-> 0]
<1>1. t \in Seq(Digit) /\ Len(t) \in 1..8
  <2>1. -num \in Nat
    OBVIOUS
  <2> QED
    BY <2>1, toString16Type
<1>2. hexFromNumber(num, len) = zeros \o text
  <2>1. Signed(num) = text
    BY DEF Signed
  <2>2. hexFromNumber(num, len) = padStart(Signed(num), len)
    <3>1. ~(num > 0)
      OBVIOUS
    <3> QED
      BY <3>1, Zenon DEF hexFromNumber
  <2> QED
    BY <2>1, <2>2, Zenon DEF padStart
<1> HIDE DEF t
<1>3. t \in Seq(Char) /\ Bad \in Char /\ 0 \in Char
  BY <1>1, DigitsAreChars DEF Char, Digit
<1>4. text \in Seq(Char) /\ Len(text) = 1 + Len(t) /\ text[1] = Bad
  BY <1>3
<1>5. CutWithin(text, 1)
  BY <1>1, <1>4 DEF CutWithin
<1>6. more \in Int /\ more <= len - 1
  BY <1>1, <1>4
<1> HIDE DEF text, more
<1>7. zeros \in Seq(Char) /\ Len(zeros) \in 0..(len - 1)
  <2>1. CASE more <= 0
    <3>1. zeros = << >>
      BY <1>6, <2>1
    <3>2. << >> \in Seq(Char) /\ Len(<< >>) = 0 /\ 0 \in 0..(len - 1)
      OBVIOUS
    <3> HIDE DEF zeros
    <3> QED
      BY <3>1, <3>2
  <2>2. CASE more > 0
    BY <1>3, <1>6, <2>2
  <2> HIDE DEF zeros
  <2> QED
    BY <1>6, <2>1, <2>2
<1> HIDE DEF zeros
<1>8. CutWithin(zeros \o text, Len(zeros) + 1)
  BY <1>5, <1>7, CutAfter
<1>9. Len(zeros) + 1 \in 1..len
  BY <1>7
<1> QED
  BY <1>2, <1>8, <1>9 DEF CutWithin

LEMMA FrequencyText ==
  ASSUME NEW hz \in Frequency, hz # Exact(0)
  PROVE  /\ HoldsFrequency(hz) => hz.f \in Nat /\ hz.f < 16^8 /\ hexFromFrequency(hz) = Digits(hz.f, 8)
         /\ ~HoldsFrequency(hz) => \/ hexFromFrequency(hz) = Throws
                                   \/ CutWithin(hexFromFrequency(hz), 9)
<1>1. hz.f \in Int /\ hz.exact \in BOOLEAN /\ (hz.exact => hz.f # 0)
  BY DEF Frequency, Exact
<1>2. ASSUME HoldsFrequency(hz)
      PROVE  hz.f \in Nat /\ hz.f < 16^8 /\ hexFromFrequency(hz) = Digits(hz.f, 8)
  <2>1. hz.exact /\ hz.f > 0 /\ hz.f \div 16^7 < 16
    BY <1>2 DEF HoldsFrequency
  <2>2. hz.f \in Nat /\ hz.f < 16^8
    BY <1>1, <2>1, Powers
  <2>3. hexFromNumber(hz.f, 8) = Digits(hz.f, 8)
    BY <2>2, Padded
  <2> QED
    BY <2>1, <2>2, <2>3, Zenon DEF hexFromFrequency
<1>3. ASSUME hz.f > 0, hz.f \div 16^7 >= 16
      PROVE  hexFromFrequency(hz) = Throws
  <2>1. hexFromNumber(hz.f, 8) = Throws
    BY <1>1, <1>3 DEF hexFromNumber
  <2> QED
    BY <1>3, <2>1, Zenon DEF hexFromFrequency
<1>4. hz.f < 0 => ~(hz.f \div 16^7 >= 16)
  BY <1>1, Powers
<1>5. ASSUME hz.exact, hz.f < 0
      PROVE  CutWithin(hexFromFrequency(hz), 9)
  <2>1. CutWithin(hexFromNumber(hz.f, 8), 8)
    BY <1>1, <1>5, NegativeCut
  <2>2. hexFromFrequency(hz) = hexFromNumber(hz.f, 8)
    BY <1>5, Zenon DEF hexFromFrequency
  <2> QED
    BY <2>1, <2>2 DEF CutWithin
<1>6. ASSUME ~hz.exact, ~(hz.f \div 16^7 >= 16)
      PROVE  CutWithin(hexFromFrequency(hz), 9)
  <2>1. hexFromFrequency(hz) = Signed(hz.f) \o <<Bad>>
    BY <1>6, Zenon DEF hexFromFrequency
  <2>2. <<Bad>> \in Seq(Char) /\ CutWithin(<<Bad>>, 1)
    BY DEF CutWithin, Char
  <2>3. CASE hz.f < 0
    <3>1. Signed(hz.f) = <<Bad>> \o toString16(-hz.f)
      BY <2>3 DEF Signed
    <3>2. toString16(-hz.f) \in Seq(Char)
      <4>1. -hz.f \in Nat
        BY <1>1, <2>3
      <4> QED
        BY <4>1, toString16Type, DigitsAreChars
    <3>3. CutWithin(Signed(hz.f), 1)
      BY <2>2, <3>1, <3>2, CutOn
    <3>4. CutWithin(Signed(hz.f) \o <<Bad>>, 1)
      BY <2>2, <3>3, CutOn
    <3> QED
      BY <2>1, <3>4 DEF CutWithin
  <2>4. CASE hz.f >= 0
    <3>1. Signed(hz.f) = toString16(hz.f)
      BY <2>4, <1>1 DEF Signed
    <3>2. Signed(hz.f) \in Seq(Char) /\ Len(Signed(hz.f)) \in 1..8
      BY <1>1, <2>4, <3>1, toString16Type, DigitsAreChars
    <3>3. CutWithin(Signed(hz.f) \o <<Bad>>, Len(Signed(hz.f)) + 1)
      BY <2>2, <3>2, CutAfter
    <3>4. Len(Signed(hz.f)) + 1 \in 1..9
      <4> DEFINE n == Len(Signed(hz.f))
      <4>1. n \in 1..8
        BY <3>2
      <4> HIDE DEF n
      <4>2. n + 1 \in 1..9
        BY <4>1
      <4> QED
        BY <4>2 DEF n
    <3> DEFINE m == Len(Signed(hz.f)) + 1
    <3>5. CutWithin(hexFromFrequency(hz), m) /\ m \in 1..9
      BY <2>1, <3>3, <3>4
    <3> HIDE DEF m
    <3>6. m \in Nat /\ m <= 9
      BY <3>5
    <3> QED
      BY <3>5, <3>6, CutWider
  <2> QED
    BY <1>1, <2>3, <2>4
<1>7. ASSUME ~HoldsFrequency(hz)
      PROVE  hexFromFrequency(hz) = Throws \/ CutWithin(hexFromFrequency(hz), 9)
  <2>1. CASE hz.exact /\ hz.f < 0
    BY <1>5, <2>1
  <2>2. CASE hz.f > 0 /\ hz.f \div 16^7 >= 16
    BY <1>3, <2>2
  <2>3. CASE ~hz.exact /\ ~(hz.f \div 16^7 >= 16)
    BY <1>6, <2>3
  <2>4. hz.f = 0 => ~(hz.f \div 16^7 >= 16)
    BY Powers
  <2>5. \/ hz.exact /\ hz.f < 0
        \/ hz.f > 0 /\ hz.f \div 16^7 >= 16
        \/ ~hz.exact /\ ~(hz.f \div 16^7 >= 16)
    BY <1>1, <1>4, <1>7, <2>4, Powers DEF HoldsFrequency
  <2> QED
    BY <2>1, <2>2, <2>3, <2>5
<1> QED
  BY <1>2, <1>7

\* Levels and inputs.
LEMMA ByteText ==
  ASSUME NEW num \in Int
  PROVE  /\ num \in Byte => num \in Nat /\ num < 16^2 /\ hexFromNumber(num, 2) = Digits(num, 2)
         /\ num \notin Byte => \/ hexFromNumber(num, 2) = Throws
                               \/ CutWithin(hexFromNumber(num, 2), 2)
<1>1. ASSUME num \in Byte
      PROVE  num \in Nat /\ num < 16^2 /\ hexFromNumber(num, 2) = Digits(num, 2)
  <2>1. num \in Nat /\ num < 16^2
    BY <1>1, Powers DEF Byte
  <2> QED
    BY <2>1, Padded
<1>2. ASSUME num > 255
      PROVE  hexFromNumber(num, 2) = Throws
  <2>1. num > 0 /\ num \div 16^(2 - 1) >= 16
    BY <1>2, Powers
  <2> QED
    BY <2>1, Zenon DEF hexFromNumber
<1>3. ASSUME num < 0
      PROVE  CutWithin(hexFromNumber(num, 2), 2)
  BY <1>3, NegativeCut
<1> QED
  BY <1>1, <1>2, <1>3 DEF Byte

Pow2(k) == 2^k

LEMMA BitsOfPowers ==
  /\ \A bit \in 0..7 : 2^bit \in 1..128
  /\ \A i \in 1..8 : ~((0 \div 2^(i - 1)) % 2 = 1)
  /\ \A bit \in 0..7, i \in 1..8 : (2^bit \div 2^(i - 1)) % 2 = 1 <=> i = bit + 1
<1>1. /\ Pow2(0) = 1 /\ Pow2(1) = 2 /\ Pow2(2) = 4 /\ Pow2(3) = 8 /\ Pow2(4) = 16
      /\ Pow2(5) = 32 /\ Pow2(6) = 64 /\ Pow2(7) = 128
  BY DEF Pow2
<1>2. \A bit \in 0..7 : Pow2(bit) \in 1..128
  <2> TAKE bit \in 0..7
  <2>1. bit \in {0, 1, 2, 3, 4, 5, 6, 7}
    OBVIOUS
  <2> QED
    BY <1>1, <2>1
<1>3. \A i \in 1..8 : ~((0 \div Pow2(i - 1)) % 2 = 1)
  <2> TAKE i \in 1..8
  <2>1. i - 1 \in {0, 1, 2, 3, 4, 5, 6, 7}
    OBVIOUS
  <2> QED
    BY <1>1, <2>1
<1>4. \A bit \in 0..7, i \in 1..8 : (Pow2(bit) \div Pow2(i - 1)) % 2 = 1 <=> i = bit + 1
  <2> TAKE bit \in 0..7, i \in 1..8
  <2>1. i - 1 \in {0, 1, 2, 3, 4, 5, 6, 7} /\ bit \in {0, 1, 2, 3, 4, 5, 6, 7}
    OBVIOUS
  <2> QED
    BY <1>1, <2>1
<1> QED
  BY <1>2, <1>3, <1>4, Zenon DEF Pow2

\* The bits of a byte, and the name it is read as.
BitsOf(RBW) == {i \in 1..8 : (RBW \div 2^(i - 1)) % 2 = 1}

LEMMA NameOfByte ==
  /\ fromRBWHex(0) = Rbw(0, "undefined")
  /\ \A bit \in 0..7 : fromRBWHex(2^bit) = enumRBW[bit + 1]
<1>1. BitsOf(0) = {}
  BY BitsOfPowers, Zenon DEF BitsOf
<1>2. fromRBWHex(0) = Rbw(0, "undefined")
  BY <1>1, Zenon DEF fromRBWHex, BitsOf
<1>3. ASSUME NEW bit \in 0..7 PROVE fromRBWHex(2^bit) = enumRBW[bit + 1]
  <2>1. bit + 1 \in 1..8 /\ bit + 1 <= bit + 1
    OBVIOUS
  <2>2. BitsOf(2^bit) = {bit + 1}
    <3>1. \A i \in BitsOf(2^bit) : i = bit + 1
      BY BitsOfPowers, Zenon DEF BitsOf
    <3>2. bit + 1 \in BitsOf(2^bit)
      BY <2>1, BitsOfPowers, Zenon DEF BitsOf
    <3> QED
      BY <3>1, <3>2, Zenon
  <2>3. (CHOOSE i \in BitsOf(2^bit) : \A j \in BitsOf(2^bit) : i <= j) = bit + 1
    BY <2>1, <2>2
  <2>4. fromRBWHex(2^bit) = IF BitsOf(2^bit) = {} THEN Rbw(0, "undefined")
                            ELSE enumRBW[CHOOSE i \in BitsOf(2^bit) : \A j \in BitsOf(2^bit) : i <= j]
    BY Zenon DEF fromRBWHex, BitsOf
  <2> QED
    BY <2>2, <2>3, <2>4, Zenon
<1> QED
  BY <1>2, <1>3

\* The name that the byte of a bandwidth is read as: no name for RESERVED, its own
\* if the list has it, and the last of the list if not.
NamedBy(name, rbw) ==
  \/ name = Rbw(0, "undefined") /\ rbw.unit = "RESERVED"
  \/ name = normalizeRBW(rbw) /\ PlacesOf(rbw) # {} /\ rbw.unit # "RESERVED"
  \/ name = Rbw(3, "M") /\ PlacesOf(rbw) = {} /\ rbw.unit # "RESERVED"

\* A bandwidth is written as a byte that is read as one of these, or not at all.
LEMMA BandwidthText ==
  ASSUME NEW rbw
  PROVE  /\ rbw.unit # "RESERVED" /\ rbw.n = 0 => toRBWHex(rbw) = Throws
         /\ rbw.unit = "RESERVED" \/ rbw.n # 0 =>
              \E value \in Byte : /\ toRBWHex(rbw) = Digits(value, 2)
                                 /\ NamedBy(fromRBWHex(value), rbw)
<1>1. ASSUME rbw.unit # "RESERVED", rbw.n = 0 PROVE toRBWHex(rbw) = Throws
  BY <1>1, Zenon DEF toRBWHex
<1>2. ASSUME rbw.unit = "RESERVED"
      PROVE  \E value \in Byte : /\ toRBWHex(rbw) = Digits(value, 2)
                                /\ NamedBy(fromRBWHex(value), rbw)
  <2>1. Digits(0, 2) = <<0, 0>>
    <3>1. \A i \in 1..2 : (0 \div 16^(2 - i)) % 16 = 0
      <4>1. \A i \in 1..2 : 2 - i \in 0..7 /\ 0 < 16^(2 - i)
        <5> TAKE i \in 1..2
        <5>1. 2 - i \in 0..8 /\ 2 - i \in 0..7
          OBVIOUS
        <5>2. 16^(2 - i) \in Nat /\ 16^(2 - i) >= 1
          BY <5>1, PowersGrow, Zenon
        <5> QED
          BY <5>1, <5>2
      <4> QED
        BY <4>1, NoDigit
    <3>2. Digits(0, 2) = [i \in 1..2 |-> 0]
      BY <3>1, Zenon DEF Digits
    <3> QED
      BY <3>2
  <2>2. toRBWHex(rbw) = Digits(0, 2)
    BY <1>2, <2>1, Zenon DEF toRBWHex
  <2>3. NamedBy(fromRBWHex(0), rbw)
    BY <1>2, NameOfByte, Zenon DEF NamedBy
  <2>4. 0 \in Byte
    BY DEF Byte
  <2> QED
    BY <2>2, <2>3, <2>4, Zenon
<1>3. ASSUME rbw.unit # "RESERVED", rbw.n # 0
      PROVE  \E value \in Byte : /\ toRBWHex(rbw) = Digits(value, 2)
                                /\ NamedBy(fromRBWHex(value), rbw)
  <2> DEFINE bit == bitOfRBW(rbw)
  <2>1. bit \in 0..7 /\ NamedBy(enumRBW[bit + 1], rbw)
    <3>1. CASE PlacesOf(rbw) = {}
      <4>1. bit = 7
        BY <3>1, Zenon DEF bitOfRBW
      <4>2. enumRBW[8] = Rbw(3, "M")
        BY DEF enumRBW
      <4>3. NamedBy(Rbw(3, "M"), rbw)
        BY <1>3, <3>1, Zenon DEF NamedBy
      <4> HIDE DEF bit
      <4>4. bit \in 0..7 /\ bit + 1 = 8
        BY <4>1
      <4> QED
        BY <4>2, <4>3, <4>4, Zenon
    <3>2. CASE PlacesOf(rbw) # {}
      <4>1. PICK i \in PlacesOf(rbw) : i = CHOOSE j \in PlacesOf(rbw) : TRUE
        BY <3>2, Zenon
      <4>2. i \in 1..8 /\ enumRBW[i] = normalizeRBW(rbw)
        BY <4>1, Zenon DEF PlacesOf
      <4>3. bit = i - 1
        BY <3>2, <4>1, Zenon DEF bitOfRBW
      <4> HIDE DEF bit
      <4>4. bit \in 0..7 /\ bit + 1 = i
        BY <4>2, <4>3
      <4>5. NamedBy(normalizeRBW(rbw), rbw)
        BY <1>3, <3>2, Zenon DEF NamedBy
      <4> QED
        BY <4>2, <4>4, <4>5, Zenon
    <3> QED
      BY <3>1, <3>2
  <2> HIDE DEF bit
  <2>2. 2^bit \in 1..128
    BY <2>1, BitsOfPowers, Zenon
  <2> DEFINE value == 2^bit
  <2>3. toRBWHex(rbw) = hexFromNumber(value, 2)
    BY <1>3, Zenon DEF toRBWHex, bit
  <2>4. NamedBy(fromRBWHex(value), rbw)
    BY <2>1, NameOfByte, Zenon
  <2>5. value \in 1..128
    BY <2>2
  <2> HIDE DEF value
  <2>6. value \in Byte /\ value \in Int
    BY <2>5 DEF Byte
  <2>7. hexFromNumber(value, 2) = Digits(value, 2)
    BY <2>6, ByteText
  <2> QED
    BY <2>3, <2>4, <2>6, <2>7, Zenon
<1> QED
  BY <1>1, <1>2, <1>3, Zenon

-----------------------------------------------------------------------------
(* The bytes of whole numbers *)

LEMMA DigitsJoined ==
  \A s, t \in Seq(Digit) :
    /\ s \o t \in Seq(Digit) /\ Len(s \o t) = Len(s) + Len(t)
    /\ \A i \in 1..(Len(s) + Len(t)) :
         (s \o t)[i] = IF i <= Len(s) THEN s[i] ELSE t[i - Len(s)]
OBVIOUS

LEMMA BytesJoin ==
  ASSUME NEW n \in Nat, NEW k \in Nat, NEW s \in Seq(Digit), NEW t \in Seq(Digit),
         Len(s) = 2 * n, Len(t) = 2 * k
  PROVE  /\ s \o t \in Seq(Digit) /\ Len(s \o t) = 2 * (n + k)
         /\ Bytes(s \o t) \in Seq(Byte) /\ Len(Bytes(s \o t)) = n + k
         /\ \A i \in 1..n : Bytes(s \o t)[i] = Bytes(s)[i]
         /\ \A i \in 1..k : Bytes(s \o t)[n + i] = Bytes(t)[i]
<1>1. s \o t \in Seq(Digit) /\ Len(s \o t) = 2 * (n + k) /\ n + k \in Nat
  OBVIOUS
<1>2. /\ Bytes(s) \in Seq(Byte) /\ Len(Bytes(s)) = n
      /\ \A i \in 1..n : Bytes(s)[i] = 16 * s[2 * i - 1] + s[2 * i]
  BY WholeBytes
<1>3. /\ Bytes(t) \in Seq(Byte) /\ Len(Bytes(t)) = k
      /\ \A i \in 1..k : Bytes(t)[i] = 16 * t[2 * i - 1] + t[2 * i]
  BY WholeBytes
<1>4. /\ Bytes(s \o t) \in Seq(Byte) /\ Len(Bytes(s \o t)) = n + k
      /\ \A i \in 1..(n + k) : Bytes(s \o t)[i] = 16 * (s \o t)[2 * i - 1] + (s \o t)[2 * i]
  BY <1>1, WholeBytes
<1>5. ASSUME NEW i \in 1..n PROVE Bytes(s \o t)[i] = Bytes(s)[i]
  <2>1. (s \o t)[2 * i - 1] = s[2 * i - 1] /\ (s \o t)[2 * i] = s[2 * i]
    OBVIOUS
  <2>2. i \in 1..(n + k)
    OBVIOUS
  <2> QED
    BY <1>2, <1>4, <2>1, <2>2
<1>6. ASSUME NEW i \in 1..k PROVE Bytes(s \o t)[n + i] = Bytes(t)[i]
  <2>1. (s \o t)[2 * (n + i) - 1] = t[2 * i - 1] /\ (s \o t)[2 * (n + i)] = t[2 * i]
    <3>1. /\ 2 * (n + i) - 1 \in 1..(Len(s) + Len(t)) /\ 2 * (n + i) \in 1..(Len(s) + Len(t))
          /\ 2 * (n + i) - 1 > Len(s) /\ 2 * (n + i) > Len(s)
          /\ 2 * (n + i) - 1 - Len(s) = 2 * i - 1 /\ 2 * (n + i) - Len(s) = 2 * i
      OBVIOUS
    <3>2. ASSUME NEW j \in 1..(Len(s) + Len(t)), j > Len(s) PROVE (s \o t)[j] = t[j - Len(s)]
      BY <3>2
    <3>3. (s \o t)[2 * (n + i) - 1] = t[2 * (n + i) - 1 - Len(s)]
      BY <3>1, <3>2
    <3>4. (s \o t)[2 * (n + i)] = t[2 * (n + i) - Len(s)]
      BY <3>1, <3>2
    <3> QED
      BY <3>1, <3>3, <3>4, Zenon
  <2>2. n + i \in 1..(n + k)
    OBVIOUS
  <2> QED
    BY <1>3, <1>4, <2>1, <2>2
<1> QED
  BY <1>1, <1>4, <1>5, <1>6

LEMMA LastDigit ==
  \A n \in Nat : n \div 16 \in Nat /\ n % 16 \in 0..15 /\ n = 16 * (n \div 16) + (n % 16)
BY SMT

LEMMA Shifts ==
  ASSUME NEW n \in Nat
  PROVE  /\ n \div 256 = (n \div 16) \div 16
         /\ n \div 4096 = (n \div 256) \div 16
         /\ n \div 65536 = (n \div 4096) \div 16
         /\ n \div 1048576 = (n \div 65536) \div 16
         /\ n \div 16777216 = (n \div 1048576) \div 16
         /\ n \div 268435456 = (n \div 16777216) \div 16
<1>1. n \div 256 = (n \div 16) \div 16
  BY SMT
<1>2. n \div 4096 = (n \div 256) \div 16
  BY SMT
<1>3. n \div 65536 = (n \div 4096) \div 16
  BY SMT
<1>4. n \div 1048576 = (n \div 65536) \div 16
  BY SMT
<1>5. n \div 16777216 = (n \div 1048576) \div 16
  BY SMT
<1>6. n \div 268435456 = (n \div 16777216) \div 16
  BY SMT
<1> QED
  BY <1>1, <1>2, <1>3, <1>4, <1>5, <1>6, SMT

\* A number of two digits is one byte, and one of eight is four.
LEMMA OneByte ==
  ASSUME NEW num \in Byte
  PROVE  /\ Digits(num, 2) \in Seq(Digit) /\ Len(Digits(num, 2)) = 2
         /\ Bytes(Digits(num, 2)) = <<num>>
<1>1. num \in Nat /\ num < 256
  BY DEF Byte
<1>2. Digits(num, 2) \in Seq(Digit) /\ Len(Digits(num, 2)) = 2 * 1
  BY <1>1, DigitsType
<1>3. /\ Bytes(Digits(num, 2)) \in Seq(Byte) /\ Len(Bytes(Digits(num, 2))) = 1
      /\ Bytes(Digits(num, 2))[1] = 16 * Digits(num, 2)[2 * 1 - 1] + Digits(num, 2)[2 * 1]
  <2>1. 1 \in Nat /\ 1 \in 1..1
    OBVIOUS
  <2> QED
    BY <1>2, <2>1, WholeBytes, Zenon
<1>4. Digits(num, 2)[1] = (num \div 16) % 16 /\ Digits(num, 2)[2] = num % 16
  BY <1>1, Powers DEF Digits
<1>5. 16 * ((num \div 16) % 16) + (num % 16) = num
  BY <1>1
<1> QED
  BY <1>2, <1>3, <1>4, <1>5

LEMMA FourBytes ==
  ASSUME NEW num \in Nat, num < 16^8
  PROVE  LET b == Bytes(Digits(num, 8))
         IN /\ Digits(num, 8) \in Seq(Digit) /\ Len(Digits(num, 8)) = 8
            /\ b \in Seq(Byte) /\ Len(b) = 4
            /\ 65536 * (256 * b[1] + b[2]) + (256 * b[3] + b[4]) = num
<1> DEFINE d == Digits(num, 8)
           b == Bytes(d)
<1>1. d \in Seq(Digit) /\ Len(d) = 2 * 4
  BY DigitsType
<1>2. /\ d[1] = (num \div 268435456) % 16 /\ d[2] = (num \div 16777216) % 16
      /\ d[3] = (num \div 1048576) % 16 /\ d[4] = (num \div 65536) % 16
      /\ d[5] = (num \div 4096) % 16 /\ d[6] = (num \div 256) % 16
      /\ d[7] = (num \div 16) % 16 /\ d[8] = num % 16
  BY Powers, SMT DEF Digits
<1> HIDE DEF d
<1>3. b \in Seq(Byte) /\ Len(b) = 4 /\ \A i \in 1..4 : b[i] = 16 * d[2 * i - 1] + d[2 * i]
  BY <1>1, WholeBytes
<1> HIDE DEF b
<1>4. /\ b[1] = 16 * d[1] + d[2] /\ b[2] = 16 * d[3] + d[4] /\ b[3] = 16 * d[5] + d[6]
      /\ b[4] = 16 * d[7] + d[8]
  BY <1>3
<1>5. num < 4294967296
  BY Powers, SMT
<1>6. 65536 * (256 * (16 * ((num \div 268435456) % 16) + ((num \div 16777216) % 16))
                 + (16 * ((num \div 1048576) % 16) + ((num \div 65536) % 16)))
        + (256 * (16 * ((num \div 4096) % 16) + ((num \div 256) % 16))
             + (16 * ((num \div 16) % 16) + (num % 16))) = num
  <2> DEFINE q1 == num \div 16
             q2 == num \div 256
             q3 == num \div 4096
             q4 == num \div 65536
             q5 == num \div 1048576
             q6 == num \div 16777216
             q7 == num \div 268435456
  <2>1. /\ q2 = q1 \div 16 /\ q3 = q2 \div 16 /\ q4 = q3 \div 16 /\ q5 = q4 \div 16
        /\ q6 = q5 \div 16 /\ q7 = q6 \div 16 /\ q1 \in Nat
    BY Shifts, LastDigit, SMT
  <2>2. q7 \in 0..15
    BY <1>5, SMT
  <2>0. q1 = num \div 16
    OBVIOUS
  <2> HIDE DEF q1, q2, q3, q4, q5, q6, q7
  <2>3. /\ num = 16 * q1 + (num % 16) /\ num % 16 \in 0..15
        /\ q1 = 16 * q2 + (q1 % 16) /\ q1 % 16 \in 0..15 /\ q2 \in Nat
    BY <2>0, <2>1, LastDigit
  <2>4. /\ q2 = 16 * q3 + (q2 % 16) /\ q2 % 16 \in 0..15 /\ q3 \in Nat
    BY <2>1, <2>3, LastDigit
  <2>5. /\ q3 = 16 * q4 + (q3 % 16) /\ q3 % 16 \in 0..15 /\ q4 \in Nat
    BY <2>1, <2>4, LastDigit
  <2>6. /\ q4 = 16 * q5 + (q4 % 16) /\ q4 % 16 \in 0..15 /\ q5 \in Nat
    BY <2>1, <2>5, LastDigit
  <2>7. /\ q5 = 16 * q6 + (q5 % 16) /\ q5 % 16 \in 0..15 /\ q6 \in Nat
    BY <2>1, <2>6, LastDigit
  <2>8. /\ q6 = 16 * q7 + (q6 % 16) /\ q6 % 16 \in 0..15
        /\ q7 % 16 = q7
    <3>1. q6 = 16 * q7 + (q6 % 16) /\ q6 % 16 \in 0..15
      BY <2>1, <2>7, LastDigit
    <3>2. q7 % 16 = q7
      BY <2>2
    <3> QED
      BY <3>1, <3>2
  <2>9. 65536 * (256 * (16 * (q7 % 16) + (q6 % 16)) + (16 * (q5 % 16) + (q4 % 16)))
          + (256 * (16 * (q3 % 16) + (q2 % 16)) + (16 * (q1 % 16) + (num % 16))) = num
    BY <2>2, <2>3, <2>4, <2>5, <2>6, <2>7, <2>8, SMT
  <2> QED
    BY <2>9, SMT DEF q1, q2, q3, q4, q5, q6, q7
<1>7. 65536 * (256 * b[1] + b[2]) + (256 * b[3] + b[4]) = num
  BY <1>2, <1>4, <1>6, SMT
<1> QED
  BY <1>1, <1>3, <1>7 DEF b, d

-----------------------------------------------------------------------------
(* The text of a change packet *)

Front == <<0, STX>> \o toLEN(16) \o <<0, DTYPES.CHANGE_REQ>>
Text(cf, sp, rl, rbw, rfinput) ==
  Front \o cf \o sp \o rl \o rbw \o rfinput \o hexFromNumber(0, 2) \o hexFromNumber(0, 4) \o <<0, ETX>>

LEMMA FrontText ==
  Front \in Seq(Digit) /\ Len(Front) = 8 /\ Bytes(Front) = <<2, 0, 16, 4>>
<1>1. toLEN(16) = <<0, 0, 1, 0>>
  <2>1. 16 \in Nat /\ 16 < 16^4 /\ 4 \in {2, 4, 8} /\ 4 \in 0..8
    BY Powers
  <2>2. toLEN(16) = Digits(16, 4)
    BY <2>1, Padded, Zenon DEF toLEN
  <2>3. Digits(16, 4) \in Seq(Digit) /\ Len(Digits(16, 4)) = 4
    BY <2>1, DigitsType, Zenon
  <2>4. /\ Digits(16, 4)[1] = 0 /\ Digits(16, 4)[2] = 0 /\ Digits(16, 4)[3] = 1
        /\ Digits(16, 4)[4] = 0
    BY Powers DEF Digits
  <2> QED
    BY <2>2, <2>3, <2>4
<1> DEFINE t1 == <<0, 2>>
           t2 == <<0, 0, 1, 0>>
           t3 == <<0, 4>>
<1>2. /\ t1 \in Seq(Digit) /\ Len(t1) = 2 /\ t1[1] = 0 /\ t1[2] = 2
      /\ t2 \in Seq(Digit) /\ Len(t2) = 4 /\ t2[1] = 0 /\ t2[2] = 0 /\ t2[3] = 1 /\ t2[4] = 0
      /\ t3 \in Seq(Digit) /\ Len(t3) = 2 /\ t3[1] = 0 /\ t3[2] = 4
  BY DEF Digit
<1>3. Front = (t1 \o t2) \o t3
  BY <1>1 DEF Front, STX, DTYPES
<1> HIDE DEF t1, t2, t3
<1> DEFINE u == t1 \o t2
<1>4. /\ u \in Seq(Digit) /\ Len(u) = 6
      /\ u[1] = 0 /\ u[2] = 2 /\ u[3] = 0 /\ u[4] = 0 /\ u[5] = 1 /\ u[6] = 0
  <2>1. /\ t1 \o t2 \in Seq(Digit) /\ Len(t1 \o t2) = 6
        /\ \A i \in 1..6 : (t1 \o t2)[i] = IF i <= 2 THEN t1[i] ELSE t2[i - 2]
    <3>1. /\ t1 \o t2 \in Seq(Digit) /\ Len(t1 \o t2) = Len(t1) + Len(t2)
          /\ \A i \in 1..(Len(t1) + Len(t2)) :
               (t1 \o t2)[i] = IF i <= Len(t1) THEN t1[i] ELSE t2[i - Len(t1)]
      BY <1>2, DigitsJoined, Zenon
    <3>2. Len(t1) = 2 /\ Len(t2) = 4 /\ 2 + 4 = 6
      BY <1>2
    <3> QED
      BY <3>1, <3>2, Zenon
  <2> QED
    BY <1>2, <2>1
<1> HIDE DEF u
<1>5. Front = u \o t3
  BY <1>3 DEF u
<1>6. /\ Front \in Seq(Digit) /\ Len(Front) = 2 * 4
      /\ \A i \in 1..8 : Front[i] = IF i <= 6 THEN u[i] ELSE t3[i - 6]
  <2>1. /\ u \o t3 \in Seq(Digit) /\ Len(u \o t3) = Len(u) + Len(t3)
        /\ \A i \in 1..(Len(u) + Len(t3)) :
             (u \o t3)[i] = IF i <= Len(u) THEN u[i] ELSE t3[i - Len(u)]
    BY <1>2, <1>4, DigitsJoined, Zenon
  <2>2. Len(u) = 6 /\ Len(t3) = 2 /\ 6 + 2 = 8 /\ 2 * 4 = 8
    BY <1>2, <1>4
  <2> QED
    BY <1>5, <2>1, <2>2, Zenon
<1>7. /\ Front[1] = 0 /\ Front[2] = 2 /\ Front[3] = 0 /\ Front[4] = 0 /\ Front[5] = 1
      /\ Front[6] = 0 /\ Front[7] = 0 /\ Front[8] = 4
  BY <1>2, <1>4, <1>6
<1>8. /\ Bytes(Front) \in Seq(Byte) /\ Len(Bytes(Front)) = 4
      /\ \A i \in 1..4 : Bytes(Front)[i] = 16 * Front[2 * i - 1] + Front[2 * i]
  BY <1>6, WholeBytes
<1>9. /\ Bytes(Front)[1] = 2 /\ Bytes(Front)[2] = 0 /\ Bytes(Front)[3] = 16 /\ Bytes(Front)[4] = 4
  BY <1>7, <1>8
<1> QED
  BY <1>6, <1>8, <1>9

LEMMA TailText ==
  /\ hexFromNumber(0, 2) \in Seq(Digit) /\ Len(hexFromNumber(0, 2)) = 2
  /\ Bytes(hexFromNumber(0, 2)) = <<0>>
  /\ hexFromNumber(0, 4) \in Seq(Digit) /\ Len(hexFromNumber(0, 4)) = 4
  /\ Bytes(hexFromNumber(0, 4)) = <<0, 0>>
  /\ <<0, ETX>> \in Seq(Digit) /\ Len(<<0, ETX>>) = 2 /\ Bytes(<<0, ETX>>) = <<3>>
<1>1. 0 \in Byte /\ 0 \in Int
  BY DEF Byte
<1>2. hexFromNumber(0, 2) = Digits(0, 2)
  BY <1>1, ByteText
<1>3. /\ hexFromNumber(0, 2) \in Seq(Digit) /\ Len(hexFromNumber(0, 2)) = 2
      /\ Bytes(hexFromNumber(0, 2)) = <<0>>
  BY <1>1, <1>2, OneByte
<1>4. hexFromNumber(0, 4) = <<0, 0, 0, 0>>
  <2>1. 0 \in Nat /\ 0 < 16^4 /\ 4 \in {2, 4, 8} /\ 4 \in 0..8
    BY Powers
  <2>2. hexFromNumber(0, 4) = Digits(0, 4)
    BY <2>1, Padded, Zenon
  <2>3. Digits(0, 4) \in Seq(Digit) /\ Len(Digits(0, 4)) = 4
    BY <2>1, DigitsType, Zenon
  <2>4. Digits(0, 4)[1] = 0 /\ Digits(0, 4)[2] = 0 /\ Digits(0, 4)[3] = 0 /\ Digits(0, 4)[4] = 0
    BY Powers DEF Digits
  <2> QED
    BY <2>2, <2>3, <2>4
<1>5. <<0, 0, 0, 0>> \in Seq(Digit) /\ Bytes(<<0, 0, 0, 0>>) = <<0, 0>>
  <2> DEFINE t == <<0, 0, 0, 0>>
  <2>1. t \in Seq(Digit) /\ Len(t) = 2 * 2 /\ 2 \in Nat
    BY DEF Digit
  <2>2. /\ t[2 * 1 - 1] = 0 /\ t[2 * 1] = 0 /\ t[2 * 2 - 1] = 0 /\ t[2 * 2] = 0
    OBVIOUS
  <2> HIDE DEF t
  <2>3. /\ Bytes(t) \in Seq(Byte) /\ Len(Bytes(t)) = 2
        /\ \A i \in 1..2 : Bytes(t)[i] = 16 * t[2 * i - 1] + t[2 * i]
    BY <2>1, WholeBytes
  <2>4. Bytes(t)[1] = 0 /\ Bytes(t)[2] = 0
    BY <2>2, <2>3
  <2>5. Bytes(t) = <<0, 0>>
    BY <2>3, <2>4
  <2> QED
    BY <2>1, <2>5 DEF t
<1>6. <<0, ETX>> \in Seq(Digit) /\ Bytes(<<0, ETX>>) = <<3>>
  <2> DEFINE t == <<0, 3>>
  <2>1. t \in Seq(Digit) /\ Len(t) = 2 * 1 /\ 1 \in Nat
    BY DEF Digit
  <2>2. t[2 * 1 - 1] = 0 /\ t[2 * 1] = 3
    OBVIOUS
  <2> HIDE DEF t
  <2>3. /\ Bytes(t) \in Seq(Byte) /\ Len(Bytes(t)) = 1
        /\ \A i \in 1..1 : Bytes(t)[i] = 16 * t[2 * i - 1] + t[2 * i]
    BY <2>1, WholeBytes
  <2>4. Bytes(t)[1] = 3
    BY <2>2, <2>3
  <2>5. Bytes(t) = <<3>>
    BY <2>3, <2>4
  <2> QED
    BY <2>1, <2>5 DEF t, ETX
<1>7. Len(<<0, 0, 0, 0>>) = 4 /\ Len(<<0, ETX>>) = 2
  OBVIOUS
<1> QED
  BY <1>3, <1>4, <1>5, <1>6, <1>7

\* A text of n bytes, and the place of some bytes in others.
Spells(text, n) == text \in Seq(Digit) /\ Len(text) = 2 * n
Stands(b, within, at, n) == \A i \in 1..n : within[at + i] = b[i]

LEMMA TextJoin ==
  \A n, k \in Nat : \A s, t :
    Spells(s, n) /\ Spells(t, k) =>
      /\ Spells(s \o t, n + k)
      /\ Stands(Bytes(s), Bytes(s \o t), 0, n)
      /\ Stands(Bytes(t), Bytes(s \o t), n, k)
<1> SUFFICES ASSUME NEW n \in Nat, NEW k \in Nat, NEW s, NEW t, Spells(s, n), Spells(t, k)
             PROVE  /\ Spells(s \o t, n + k)
                    /\ Stands(Bytes(s), Bytes(s \o t), 0, n)
                    /\ Stands(Bytes(t), Bytes(s \o t), n, k)
  OBVIOUS
<1>1. s \in Seq(Digit) /\ t \in Seq(Digit) /\ Len(s) = 2 * n /\ Len(t) = 2 * k
  BY DEF Spells
<1>2. /\ s \o t \in Seq(Digit) /\ Len(s \o t) = 2 * (n + k)
      /\ \A i \in 1..n : Bytes(s \o t)[i] = Bytes(s)[i]
      /\ \A i \in 1..k : Bytes(s \o t)[n + i] = Bytes(t)[i]
  BY <1>1, BytesJoin
<1>3. \A i \in 1..n : 0 + i = i
  OBVIOUS
<1> QED
  BY <1>2, <1>3 DEF Spells, Stands

\* The packet of whole numbers, byte for byte.
Carries(p, cf, sp, rl, rbw, rfinput) ==
  /\ p \in Seq(Byte) /\ Len(p) = 19
  /\ p[1] = 2 /\ p[2] = 0 /\ p[3] = 16 /\ p[4] = 4
  /\ uint32(p, 5) = cf /\ uint32(p, 9) = sp
  /\ p[13] = rl /\ p[14] = rbw /\ p[15] = rfinput /\ p[16] = 0 /\ p[19] = 3

LEMMA WholePacket ==
  ASSUME NEW cf \in Nat, cf < 16^8, NEW sp \in Nat, sp < 16^8,
         NEW rl \in Byte, NEW rbw \in Byte, NEW rfinput \in Byte
  PROVE  Carries(Bytes(Text(Digits(cf, 8), Digits(sp, 8), Digits(rl, 2), Digits(rbw, 2),
                            Digits(rfinput, 2))), cf, sp, rl, rbw, rfinput)
<1> DEFINE t1 == Front \o Digits(cf, 8)
           t2 == t1 \o Digits(sp, 8)
           t3 == t2 \o Digits(rl, 2)
           t4 == t3 \o Digits(rbw, 2)
           t5 == t4 \o Digits(rfinput, 2)
           t6 == t5 \o hexFromNumber(0, 2)
           t7 == t6 \o hexFromNumber(0, 4)
           t8 == t7 \o <<0, ETX>>
           c == Bytes(Digits(cf, 8))
           d == Bytes(Digits(sp, 8))
<1>1. Text(Digits(cf, 8), Digits(sp, 8), Digits(rl, 2), Digits(rbw, 2), Digits(rfinput, 2)) = t8
  BY Zenon DEF Text
<1>2. /\ Spells(Digits(cf, 8), 4)
      /\ 65536 * (256 * c[1] + c[2]) + (256 * c[3] + c[4]) = cf
  BY FourBytes DEF Spells
<1>3. /\ Spells(Digits(sp, 8), 4)
      /\ 65536 * (256 * d[1] + d[2]) + (256 * d[3] + d[4]) = sp
  BY FourBytes DEF Spells
<1>4. /\ Spells(Front, 4)
      /\ Spells(Digits(rl, 2), 1) /\ Spells(Digits(rbw, 2), 1) /\ Spells(Digits(rfinput, 2), 1)
      /\ Spells(hexFromNumber(0, 2), 1) /\ Spells(hexFromNumber(0, 4), 2) /\ Spells(<<0, ETX>>, 1)
      /\ Spells(Digits(cf, 8), 4) /\ Spells(Digits(sp, 8), 4)
  BY <1>2, <1>3, FrontText, TailText, OneByte DEF Spells
<1> HIDE DEF t1, t2, t3, t4, t5, t6, t7, t8, c, d
<1>5. /\ Spells(t1, 8)
      /\ Stands(Bytes(Front), Bytes(t1), 0, 4) /\ Stands(Bytes(Digits(cf, 8)), Bytes(t1), 4, 4)
  BY <1>4, <1>4, TextJoin DEF t1
<1>6. /\ Spells(t2, 12)
      /\ Stands(Bytes(t1), Bytes(t2), 0, 8) /\ Stands(Bytes(Digits(sp, 8)), Bytes(t2), 8, 4)
  BY <1>5, <1>4, TextJoin DEF t2
<1>7. /\ Spells(t3, 13)
      /\ Stands(Bytes(t2), Bytes(t3), 0, 12) /\ Stands(Bytes(Digits(rl, 2)), Bytes(t3), 12, 1)
  BY <1>6, <1>4, TextJoin DEF t3
<1>8. /\ Spells(t4, 14)
      /\ Stands(Bytes(t3), Bytes(t4), 0, 13) /\ Stands(Bytes(Digits(rbw, 2)), Bytes(t4), 13, 1)
  BY <1>7, <1>4, TextJoin DEF t4
<1>9. /\ Spells(t5, 15)
      /\ Stands(Bytes(t4), Bytes(t5), 0, 14) /\ Stands(Bytes(Digits(rfinput, 2)), Bytes(t5), 14, 1)
  BY <1>8, <1>4, TextJoin DEF t5
<1>10. /\ Spells(t6, 16)
      /\ Stands(Bytes(t5), Bytes(t6), 0, 15) /\ Stands(Bytes(hexFromNumber(0, 2)), Bytes(t6), 15, 1)
  BY <1>9, <1>4, TextJoin DEF t6
<1>11. /\ Spells(t7, 18)
      /\ Stands(Bytes(t6), Bytes(t7), 0, 16) /\ Stands(Bytes(hexFromNumber(0, 4)), Bytes(t7), 16, 2)
  BY <1>10, <1>4, TextJoin DEF t7
<1>12. /\ Spells(t8, 19)
      /\ Stands(Bytes(t7), Bytes(t8), 0, 18) /\ Stands(Bytes(<<0, ETX>>), Bytes(t8), 18, 1)
  BY <1>11, <1>4, TextJoin DEF t8
<1>13. Bytes(t8) \in Seq(Byte) /\ Len(Bytes(t8)) = 19
  <2>1. 19 \in Nat /\ t8 \in Seq(Digit) /\ Len(t8) = 2 * 19
    BY <1>12 DEF Spells
  <2> QED
    BY <2>1, WholeBytes
<1>14. \A i \in 1..12 : Bytes(t8)[i] = Bytes(t2)[i]
  BY <1>7, <1>8, <1>9, <1>10, <1>11, <1>12 DEF Stands
<1>15. \A i \in 1..4 : Bytes(t2)[i] = Bytes(Front)[i] /\ Bytes(t2)[4 + i] = c[i] /\ Bytes(t2)[8 + i] = d[i]
  BY <1>5, <1>6 DEF Stands, c, d
<1>16. /\ Bytes(t8)[1] = 2 /\ Bytes(t8)[2] = 0 /\ Bytes(t8)[3] = 16 /\ Bytes(t8)[4] = 4
  BY <1>14, <1>15, FrontText
<1>17. uint32(Bytes(t8), 5) = cf
  <2>1. Bytes(t2)[4 + 1] = c[1] /\ Bytes(t2)[4 + 2] = c[2] /\ Bytes(t2)[4 + 3] = c[3] /\ Bytes(t2)[4 + 4] = c[4]
    BY <1>15
  <2>2. Bytes(t8)[5] = c[1] /\ Bytes(t8)[6] = c[2] /\ Bytes(t8)[7] = c[3] /\ Bytes(t8)[8] = c[4]
    BY <1>14, <2>1
  <2> QED
    BY <1>2, <2>2 DEF uint32, uint16
<1>18. uint32(Bytes(t8), 9) = sp
  <2>1. Bytes(t2)[8 + 1] = d[1] /\ Bytes(t2)[8 + 2] = d[2] /\ Bytes(t2)[8 + 3] = d[3] /\ Bytes(t2)[8 + 4] = d[4]
    BY <1>15
  <2>2. Bytes(t8)[9] = d[1] /\ Bytes(t8)[10] = d[2] /\ Bytes(t8)[11] = d[3] /\ Bytes(t8)[12] = d[4]
    BY <1>14, <2>1
  <2> QED
    BY <1>3, <2>2 DEF uint32, uint16
<1>19. /\ Bytes(t3)[13] = rl /\ Bytes(t4)[14] = rbw /\ Bytes(t5)[15] = rfinput
       /\ Bytes(t6)[16] = 0 /\ Bytes(t8)[19] = 3
  <2>1. /\ Bytes(Digits(rl, 2))[1] = rl /\ Bytes(Digits(rbw, 2))[1] = rbw
        /\ Bytes(Digits(rfinput, 2))[1] = rfinput /\ Bytes(hexFromNumber(0, 2))[1] = 0
        /\ Bytes(<<0, ETX>>)[1] = 3
    BY OneByte, TailText
  <2>2. /\ Bytes(t3)[12 + 1] = rl /\ Bytes(t4)[13 + 1] = rbw /\ Bytes(t5)[14 + 1] = rfinput
        /\ Bytes(t6)[15 + 1] = 0 /\ Bytes(t8)[18 + 1] = 3
    BY <2>1, <1>7, <1>8, <1>9, <1>10, <1>12 DEF Stands
  <2> QED
    BY <2>2
<1>20. /\ Bytes(t8)[13] = rl /\ Bytes(t8)[14] = rbw /\ Bytes(t8)[15] = rfinput
       /\ Bytes(t8)[16] = 0
  BY <1>8, <1>9, <1>10, <1>11, <1>12, <1>19 DEF Stands
<1> QED
  BY <1>1, <1>13, <1>16, <1>17, <1>18, <1>19, <1>20, Zenon DEF Carries

-----------------------------------------------------------------------------
(* A change of the configuration *)

LEMMA CharsJoined ==
  \A s, t \in Seq(Char) : s \o t \in Seq(Char) /\ Len(s \o t) = Len(s) + Len(t)
OBVIOUS

\* A text with a field that is cut, its fields before it whole, is cut there.
LEMMA CutText ==
  ASSUME NEW cf \in Seq(Char), NEW sp \in Seq(Char), NEW rl \in Seq(Char), NEW rbw \in Seq(Char),
         NEW rfinput \in Seq(Char),
         \/ CutWithin(cf, 9)
         \/ Len(cf) = 8 /\ CutWithin(sp, 9)
         \/ Len(cf) = 8 /\ Len(sp) = 8 /\ CutWithin(rl, 2)
         \/ Len(cf) = 8 /\ Len(sp) = 8 /\ Len(rl) = 2 /\ Len(rbw) = 2 /\ CutWithin(rfinput, 2)
  PROVE  Len(Bytes(Text(cf, sp, rl, rbw, rfinput))) < 19
<1> DEFINE t1 == Front \o cf
           t2 == t1 \o sp
           t3 == t2 \o rl
           t4 == t3 \o rbw
           t5 == t4 \o rfinput
           t6 == t5 \o hexFromNumber(0, 2)
           t7 == t6 \o hexFromNumber(0, 4)
           t8 == t7 \o <<0, ETX>>
<1>1. Text(cf, sp, rl, rbw, rfinput) = t8
  BY Zenon DEF Text
<1>2. /\ Front \in Seq(Char) /\ Len(Front) = 8
      /\ hexFromNumber(0, 2) \in Seq(Char) /\ hexFromNumber(0, 4) \in Seq(Char)
      /\ <<0, ETX>> \in Seq(Char)
  BY FrontText, TailText, DigitsAreChars
<1> HIDE DEF t1, t2, t3, t4, t5, t6, t7, t8
<1>3. t1 \in Seq(Char) /\ Len(t1) = Len(Front) + Len(cf)
  BY <1>2, CharsJoined, Zenon DEF t1
<1>4. t2 \in Seq(Char) /\ Len(t2) = Len(t1) + Len(sp)
  BY <1>3, CharsJoined, Zenon DEF t2
<1>5. t3 \in Seq(Char) /\ Len(t3) = Len(t2) + Len(rl)
  BY <1>4, CharsJoined, Zenon DEF t3
<1>6. t4 \in Seq(Char) /\ Len(t4) = Len(t3) + Len(rbw)
  BY <1>5, CharsJoined, Zenon DEF t4
<1>7. ASSUME NEW k \in Nat, CutWithin(t5, k) PROVE CutWithin(t8, k)
  <2>1. CutWithin(t6, k)
    BY <1>2, <1>7, CutOn DEF t6
  <2>2. CutWithin(t7, k)
    BY <1>2, <2>1, CutOn DEF t7
  <2> QED
    BY <1>2, <2>2, CutOn DEF t8
<1>8. ASSUME NEW k \in Nat, CutWithin(t3, k) PROVE CutWithin(t8, k)
  <2>1. CutWithin(t4, k)
    BY <1>8, CutOn DEF t4
  <2>2. CutWithin(t5, k)
    BY <2>1, CutOn DEF t5
  <2> QED
    BY <1>7, <2>2
<1>9. ASSUME NEW k \in Nat, CutWithin(t2, k) PROVE CutWithin(t8, k)
  <2>1. CutWithin(t3, k)
    BY <1>9, CutOn DEF t3
  <2> QED
    BY <1>8, <2>1
<1>10. \E k \in 0..38 : CutWithin(t8, k)
  <2>1. CASE CutWithin(cf, 9)
    <3>1. CutWithin(t1, Len(Front) + 9)
      BY <1>2, <2>1, CutAfter DEF t1
    <3>2. Len(Front) + 9 = 17
      BY <1>2
    <3>3. CutWithin(t2, 17)
      BY <3>1, <3>2, CutOn DEF t2
    <3> QED
      BY <1>9, <3>3
  <2>2. CASE Len(cf) = 8 /\ CutWithin(sp, 9)
    <3>1. CutWithin(t2, Len(t1) + 9)
      BY <1>3, <2>2, CutAfter DEF t2
    <3>2. Len(t1) + 9 = 25
      BY <1>2, <1>3, <2>2
    <3> QED
      BY <1>9, <3>1, <3>2
  <2>3. CASE Len(cf) = 8 /\ Len(sp) = 8 /\ CutWithin(rl, 2)
    <3>1. CutWithin(t3, Len(t2) + 2)
      BY <1>4, <2>3, CutAfter DEF t3
    <3>2. Len(t2) + 2 = 26
      BY <1>2, <1>3, <1>4, <2>3
    <3> QED
      BY <1>8, <3>1, <3>2
  <2>4. CASE Len(cf) = 8 /\ Len(sp) = 8 /\ Len(rl) = 2 /\ Len(rbw) = 2 /\ CutWithin(rfinput, 2)
    <3>1. CutWithin(t5, Len(t4) + 2)
      BY <1>6, <2>4, CutAfter DEF t5
    <3>2. Len(t4) + 2 = 30
      BY <1>2, <1>3, <1>4, <1>5, <1>6, <2>4
    <3> QED
      BY <1>7, <3>1, <3>2
  <2> QED
    BY <2>1, <2>2, <2>3, <2>4
<1> QED
  BY <1>1, <1>10, CutBytes

\* The values of a change, its replacements made, that its packet holds.
HoldsValues(m) ==
  /\ HoldsFrequency(m.cf) /\ HoldsFrequency(m.sp) /\ m.rl \in Byte /\ m.rfinput \in Byte
  /\ m.rbw.unit = "RESERVED" \/ m.rbw.n # 0

\* Of what is asked for and is not 0 the number is not 0 either.
LEMMA Read ==
  ASSUME NEW hz \in Asked
  PROVE  /\ normalizeHz(hz) \in Frequency
         /\ hz # Number(0) => normalizeHz(hz) # Exact(0)
         /\ normalizeHz(hz).f = hz.f
<1>1. hz.f \in Int /\ hz.exact \in BOOLEAN /\ (hz.f = 0 => hz.scale = 0)
  BY DEF Asked
<1>2. hz.f = 0 /\ hz.exact => hz = Number(0)
  BY <1>1 DEF Asked, Number
<1>3. normalizeHz(hz) \in Frequency /\ normalizeHz(hz).f = hz.f
  BY <1>1 DEF normalizeHz, Frequency
<1>4. normalizeHz(hz) = Exact(0) => hz.f = 0 /\ hz.exact
  BY <1>1 DEF normalizeHz, Exact
<1> QED
  BY <1>2, <1>3, <1>4

\* A frequency that its field holds, and that is not 0.
FitsField(f) ==
  f \in Int /\ Exact(f).f = f /\ Exact(f) \in Frequency /\ Exact(f) # Exact(0) /\ HoldsFrequency(Exact(f))

LEMMA DefaultsFit == FitsField(DefaultCF) /\ FitsField(DefaultSP)
<1>1. ASSUME NEW f \in 1..16^7 PROVE FitsField(f)
  BY <1>1, Powers, SMT DEF FitsField, Exact, Frequency, HoldsFrequency
<1>2. DefaultCF \in 1..16^7 /\ DefaultSP \in 1..16^7
  BY Powers, SMT DEF toCSW, DefaultCF, DefaultSP
<1> QED
  BY <1>1, <1>2, Zenon

\* The fields of a change, its replacements made.
LEMMA Replaced ==
  \A a : LET m == WithDefaults(a)
         IN /\ m.cf = IF a.cf = Number(0) THEN Exact(DefaultCF) ELSE normalizeHz(a.cf)
            /\ m.sp = IF a.sp = Number(0) THEN Exact(DefaultSP) ELSE normalizeHz(a.sp)
            /\ m.rl = IF a.rl = 0 THEN 50 ELSE a.rl
            /\ m.rfinput = IF a.rfinput = 0 THEN 10 ELSE a.rfinput
            /\ m.rbw = IF a.rbw = Rbw(0, "") THEN Rbw(1, "M") ELSE a.rbw
BY SMT DEF WithDefaults

LEMMA Defaults ==
  ASSUME NEW a \in Args
  PROVE  LET m == WithDefaults(a)
         IN /\ m.cf \in Frequency /\ m.cf # Exact(0) /\ m.sp \in Frequency /\ m.sp # Exact(0)
            /\ m.rl \in Int /\ m.rfinput \in Int
<1> DEFINE m == WithDefaults(a)
<1>1. a.cf \in Asked /\ a.sp \in Asked /\ a.rl \in Int /\ a.rfinput \in Int
  BY DEF Args
<1>2. /\ Exact(DefaultCF) \in Frequency /\ Exact(DefaultCF) # Exact(0)
      /\ Exact(DefaultSP) \in Frequency /\ Exact(DefaultSP) # Exact(0)
  BY DefaultsFit, Zenon DEF FitsField
<1>3. /\ normalizeHz(a.cf) \in Frequency /\ (a.cf # Number(0) => normalizeHz(a.cf) # Exact(0))
      /\ normalizeHz(a.sp) \in Frequency /\ (a.sp # Number(0) => normalizeHz(a.sp) # Exact(0))
  BY <1>1, Read, Zenon
<1>4. /\ m.cf = IF a.cf = Number(0) THEN Exact(DefaultCF) ELSE normalizeHz(a.cf)
      /\ m.sp = IF a.sp = Number(0) THEN Exact(DefaultSP) ELSE normalizeHz(a.sp)
      /\ m.rl = IF a.rl = 0 THEN 50 ELSE a.rl
      /\ m.rfinput = IF a.rfinput = 0 THEN 10 ELSE a.rfinput
  BY Replaced, Zenon
<1> HIDE DEF m
<1>5. m.rl \in Int /\ m.rfinput \in Int
  BY <1>1, <1>4
<1>6. m.cf \in Frequency /\ m.cf # Exact(0) /\ m.sp \in Frequency /\ m.sp # Exact(0)
  BY <1>2, <1>3, <1>4, Zenon
<1> QED
  BY <1>5, <1>6, Zenon DEF m

\* The arguments a packet is made whole of are those whose values it holds.
LEMMA ValuesHeld ==
  ASSUME NEW a \in Args
  PROVE  Holds(a) <=> HoldsValues(WithDefaults(a))
<1> DEFINE m == WithDefaults(a)
<1>1. a.rl \in Int /\ a.rfinput \in Int
  BY DEF Args
<1>2. HoldsFrequency(Exact(DefaultCF)) /\ HoldsFrequency(Exact(DefaultSP))
  BY DefaultsFit, Zenon DEF FitsField
<1>3. /\ m.cf = IF a.cf = Number(0) THEN Exact(DefaultCF) ELSE normalizeHz(a.cf)
      /\ m.sp = IF a.sp = Number(0) THEN Exact(DefaultSP) ELSE normalizeHz(a.sp)
      /\ m.rl = IF a.rl = 0 THEN 50 ELSE a.rl
      /\ m.rfinput = IF a.rfinput = 0 THEN 10 ELSE a.rfinput
      /\ m.rbw = IF a.rbw = Rbw(0, "") THEN Rbw(1, "M") ELSE a.rbw
  BY Replaced, Zenon
<1> HIDE DEF m
<1>4. /\ HoldsFrequency(m.cf) <=> a.cf = Number(0) \/ HoldsFrequency(normalizeHz(a.cf))
      /\ HoldsFrequency(m.sp) <=> a.sp = Number(0) \/ HoldsFrequency(normalizeHz(a.sp))
  BY <1>2, <1>3, Zenon
<1>5. (m.rl \in Byte <=> a.rl \in Byte) /\ (m.rfinput \in Byte <=> a.rfinput \in Byte)
  <2>1. 50 \in Byte /\ 10 \in Byte /\ 0 \in Byte
    BY DEF Byte
  <2> QED
    BY <1>3, <2>1, Zenon
<1>6. (m.rbw.unit = "RESERVED" \/ m.rbw.n # 0) <=> (a.rbw.n = 0 => a.rbw.unit \in {"", "RESERVED"})
  <2>1. Rbw(1, "M").n # 0 /\ Rbw(0, "").n = 0 /\ Rbw(0, "").unit = ""
    BY DEF Rbw
  <2>2. a.rbw.n = 0 /\ a.rbw.unit = "" => a.rbw = Rbw(0, "")
    BY DEF Args, Rbw
  <2> QED
    BY <1>3, <2>1, <2>2, Zenon
<1> QED
  BY <1>4, <1>5, <1>6, Zenon DEF Holds, HoldsValues, m

LEMMA Made ==
  ASSUME NEW a
  PROVE  LET m == WithDefaults(a)
             cf == hexFromFrequency(m.cf)
             sp == hexFromFrequency(m.sp)
             rl == hexFromNumber(m.rl, 2)
             rbw == toRBWHex(m.rbw)
             rfinput == hexFromNumber(m.rfinput, 2)
         IN makeChangeConfig(a) = IF Throws \in {cf, sp, rl, rbw, rfinput} THEN Throws
                                  ELSE Bytes(Text(cf, sp, rl, rbw, rfinput))
BY Zenon DEF makeChangeConfig, Text, Front

\* Values a packet can hold make the packet of them.
LEMMA HeldChange ==
  ASSUME NEW a \in Args, Holds(a)
  PROVE  LET m == WithDefaults(a)
             p == makeChangeConfig(a)
         IN /\ p \in Seq(Byte) /\ Len(p) = 19
            /\ p[1] = 2 /\ p[2] = 0 /\ p[3] = 16 /\ p[4] = 4 /\ p[19] = 3
            /\ uint32(p, 5) = m.cf.f /\ uint32(p, 9) = m.sp.f
            /\ p[13] = m.rl /\ p[15] = m.rfinput /\ p[16] = 0
            /\ NamedBy(fromRBWHex(p[14]), m.rbw)
<1> DEFINE m == WithDefaults(a)
<1>1. /\ m.cf \in Frequency /\ m.cf # Exact(0) /\ m.sp \in Frequency /\ m.sp # Exact(0)
      /\ m.rl \in Int /\ m.rfinput \in Int
  BY Defaults
<1>2. /\ HoldsFrequency(m.cf) /\ HoldsFrequency(m.sp) /\ m.rl \in Byte /\ m.rfinput \in Byte
      /\ (m.rbw.unit = "RESERVED" \/ m.rbw.n # 0)
  BY ValuesHeld, Zenon DEF HoldsValues
<1> DEFINE cf == hexFromFrequency(m.cf)
           sp == hexFromFrequency(m.sp)
           rl == hexFromNumber(m.rl, 2)
           rbw == toRBWHex(m.rbw)
           rfinput == hexFromNumber(m.rfinput, 2)
<1>3. makeChangeConfig(a) = IF Throws \in {cf, sp, rl, rbw, rfinput} THEN Throws
                            ELSE Bytes(Text(cf, sp, rl, rbw, rfinput))
  BY Made
<1> HIDE DEF m
<1>4. m.cf.f \in Nat /\ m.cf.f < 16^8 /\ cf = Digits(m.cf.f, 8)
  BY <1>1, <1>2, FrequencyText, Zenon
<1>5. m.sp.f \in Nat /\ m.sp.f < 16^8 /\ sp = Digits(m.sp.f, 8)
  BY <1>1, <1>2, FrequencyText, Zenon
<1>6. rl = Digits(m.rl, 2) /\ rfinput = Digits(m.rfinput, 2)
  BY <1>1, <1>2, ByteText, Zenon
<1>7. PICK value \in Byte : rbw = Digits(value, 2) /\ NamedBy(fromRBWHex(value), m.rbw)
  BY <1>2, BandwidthText, Zenon
<1> HIDE DEF cf, sp, rl, rbw, rfinput
<1>8. Throws \notin {cf, sp, rl, rbw, rfinput}
  <2>1. Len(cf) = 8 /\ Len(sp) = 8
    BY <1>4, <1>5, FourBytes
  <2>2. Len(rl) = 2 /\ Len(rbw) = 2 /\ Len(rfinput) = 2
    BY <1>2, <1>6, <1>7, OneByte
  <2>3. Len(Throws) = 0
    BY DEF Throws
  <2> QED
    BY <2>1, <2>2, <2>3
<1>9. makeChangeConfig(a) = Bytes(Text(cf, sp, rl, rbw, rfinput))
  BY <1>3, <1>8, Zenon
<1> DEFINE p == Bytes(Text(Digits(m.cf.f, 8), Digits(m.sp.f, 8), Digits(m.rl, 2), Digits(value, 2),
                           Digits(m.rfinput, 2)))
<1>10. /\ p \in Seq(Byte) /\ Len(p) = 19
       /\ p[1] = 2 /\ p[2] = 0 /\ p[3] = 16 /\ p[4] = 4
       /\ uint32(p, 5) = m.cf.f /\ uint32(p, 9) = m.sp.f
       /\ p[13] = m.rl /\ p[14] = value /\ p[15] = m.rfinput /\ p[16] = 0 /\ p[19] = 3
  <2>1. Carries(p, m.cf.f, m.sp.f, m.rl, value, m.rfinput)
    BY <1>2, <1>4, <1>5, WholePacket
  <2> HIDE DEF p
  <2> QED
    BY <2>1, Zenon DEF Carries
<1>11. makeChangeConfig(a) = p
  BY <1>4, <1>5, <1>6, <1>7, <1>9, Zenon
<1> HIDE DEF p
<1>12. NamedBy(fromRBWHex(p[14]), m.rbw)
  BY <1>7, <1>10, Zenon
<1> QED
  BY <1>10, <1>11, <1>12, Zenon DEF m

\* Values a packet cannot hold make a text that is cut, or none.
LEMMA CutChange ==
  ASSUME NEW a \in Args, ~Holds(a)
  PROVE  Len(makeChangeConfig(a)) < 19
<1> DEFINE m == WithDefaults(a)
<1>1. /\ m.cf \in Frequency /\ m.cf # Exact(0) /\ m.sp \in Frequency /\ m.sp # Exact(0)
      /\ m.rl \in Int /\ m.rfinput \in Int
  BY Defaults
<1> DEFINE cf == hexFromFrequency(m.cf)
           sp == hexFromFrequency(m.sp)
           rl == hexFromNumber(m.rl, 2)
           rbw == toRBWHex(m.rbw)
           rfinput == hexFromNumber(m.rfinput, 2)
<1>2. makeChangeConfig(a) = IF Throws \in {cf, sp, rl, rbw, rfinput} THEN Throws
                            ELSE Bytes(Text(cf, sp, rl, rbw, rfinput))
  BY Made
<1>3. CASE Throws \in {cf, sp, rl, rbw, rfinput}
  <2>1. makeChangeConfig(a) = Throws
    BY <1>2, <1>3, Zenon
  <2> QED
    BY <2>1 DEF Throws
<1>4. CASE Throws \notin {cf, sp, rl, rbw, rfinput}
  <2>1. ~(HoldsFrequency(m.cf) /\ HoldsFrequency(m.sp) /\ m.rl \in Byte /\ m.rfinput \in Byte
          /\ (m.rbw.unit = "RESERVED" \/ m.rbw.n # 0))
    BY ValuesHeld, Zenon DEF HoldsValues
  <2> HIDE DEF m
  <2>2. IF HoldsFrequency(m.cf) THEN cf \in Seq(Char) /\ Len(cf) = 8 ELSE CutWithin(cf, 9)
    <3>1. CASE HoldsFrequency(m.cf)
      <4>1. m.cf.f \in Nat /\ m.cf.f < 16^8 /\ cf = Digits(m.cf.f, 8)
        BY <3>1, <1>1, FrequencyText, Zenon
      <4>2. cf \in Seq(Digit) /\ Len(cf) = 8
        BY <4>1, FourBytes
      <4> QED
        BY <3>1, <4>2, DigitsAreChars, Zenon
    <3>2. CASE ~HoldsFrequency(m.cf)
      BY <3>2, <1>1, <1>4, FrequencyText, Zenon
    <3> QED
      BY <3>1, <3>2, Zenon
  <2>3. IF HoldsFrequency(m.sp) THEN sp \in Seq(Char) /\ Len(sp) = 8 ELSE CutWithin(sp, 9)
    <3>1. CASE HoldsFrequency(m.sp)
      <4>1. m.sp.f \in Nat /\ m.sp.f < 16^8 /\ sp = Digits(m.sp.f, 8)
        BY <3>1, <1>1, FrequencyText, Zenon
      <4>2. sp \in Seq(Digit) /\ Len(sp) = 8
        BY <4>1, FourBytes
      <4> QED
        BY <3>1, <4>2, DigitsAreChars, Zenon
    <3>2. CASE ~HoldsFrequency(m.sp)
      BY <3>2, <1>1, <1>4, FrequencyText, Zenon
    <3> QED
      BY <3>1, <3>2, Zenon
  <2>4. ASSUME NEW num \in Int, hexFromNumber(num, 2) # Throws
        PROVE  IF num \in Byte
               THEN hexFromNumber(num, 2) \in Seq(Char) /\ Len(hexFromNumber(num, 2)) = 2
               ELSE CutWithin(hexFromNumber(num, 2), 2)
    <3>1. CASE num \in Byte
      <4>1. hexFromNumber(num, 2) = Digits(num, 2)
        BY <3>1, ByteText, Zenon
      <4>2. Digits(num, 2) \in Seq(Digit) /\ Len(Digits(num, 2)) = 2
        BY <3>1, OneByte, Zenon
      <4> QED
        BY <3>1, <4>1, <4>2, DigitsAreChars, Zenon
    <3>2. CASE num \notin Byte
      BY <3>2, <2>4, ByteText, Zenon
    <3> QED
      BY <3>1, <3>2, Zenon
  <2>5. IF m.rl \in Byte THEN rl \in Seq(Char) /\ Len(rl) = 2 ELSE CutWithin(rl, 2)
    BY <1>1, <1>4, <2>4, Zenon
  <2>6. IF m.rfinput \in Byte THEN rfinput \in Seq(Char) /\ Len(rfinput) = 2 ELSE CutWithin(rfinput, 2)
    BY <1>1, <1>4, <2>4, Zenon
  <2>7. /\ rbw \in Seq(Char) /\ Len(rbw) = 2
        /\ m.rbw.unit = "RESERVED" \/ m.rbw.n # 0
    <3>1. m.rbw.unit = "RESERVED" \/ m.rbw.n # 0
      BY <1>4, BandwidthText, Zenon
    <3>2. PICK value \in Byte : rbw = Digits(value, 2)
      BY <3>1, BandwidthText, Zenon
    <3>3. Digits(value, 2) \in Seq(Digit) /\ Len(Digits(value, 2)) = 2
      BY OneByte, Zenon
    <3> QED
      BY <3>1, <3>2, <3>3, DigitsAreChars, Zenon
  <2> HIDE DEF cf, sp, rl, rbw, rfinput
  <2>8. \A t, k : CutWithin(t, k) => t \in Seq(Char)
    BY Zenon DEF CutWithin
  <2>9. /\ cf \in Seq(Char) /\ sp \in Seq(Char) /\ rl \in Seq(Char) /\ rbw \in Seq(Char)
        /\ rfinput \in Seq(Char)
    BY <2>2, <2>3, <2>5, <2>6, <2>7, <2>8, Zenon
  <2>10. \/ CutWithin(cf, 9)
         \/ Len(cf) = 8 /\ CutWithin(sp, 9)
         \/ Len(cf) = 8 /\ Len(sp) = 8 /\ CutWithin(rl, 2)
         \/ Len(cf) = 8 /\ Len(sp) = 8 /\ Len(rl) = 2 /\ Len(rbw) = 2 /\ CutWithin(rfinput, 2)
    BY <2>1, <2>2, <2>3, <2>5, <2>6, <2>7, Zenon
  <2>11. Len(Bytes(Text(cf, sp, rl, rbw, rfinput))) < 19
    BY <2>9, <2>10, CutText, Zenon
  <2> QED
    BY <1>2, <1>4, <2>11, Zenon
<1> QED
  BY <1>3, <1>4, Zenon

\* The fields of a packet that is whole say what was asked for, or its replacement.
LEMMA ValuesSay ==
  ASSUME NEW a \in Args, NEW name, NamedBy(name, WithDefaults(a).rbw)
  PROVE  LET m == WithDefaults(a)
         IN /\ SaysFrequency(m.cf.f, a.cf, DefaultCF) /\ SaysFrequency(m.sp.f, a.sp, DefaultSP)
            /\ SaysNumber(m.rl, a.rl, 50) /\ SaysNumber(m.rfinput, a.rfinput, 10)
            /\ SaysRBW(name, a.rbw)
<1> DEFINE m == WithDefaults(a)
<1>1. a.cf \in Asked /\ a.sp \in Asked
  BY DEF Args
<1>2. /\ m.cf = IF a.cf = Number(0) THEN Exact(DefaultCF) ELSE normalizeHz(a.cf)
      /\ m.sp = IF a.sp = Number(0) THEN Exact(DefaultSP) ELSE normalizeHz(a.sp)
      /\ m.rl = IF a.rl = 0 THEN 50 ELSE a.rl
      /\ m.rfinput = IF a.rfinput = 0 THEN 10 ELSE a.rfinput
      /\ m.rbw = IF a.rbw = Rbw(0, "") THEN Rbw(1, "M") ELSE a.rbw
  BY Replaced, Zenon
<1>3. NamedBy(name, m.rbw)
  OBVIOUS
<1> HIDE DEF m
<1>4. Exact(DefaultCF).f = DefaultCF /\ Exact(DefaultSP).f = DefaultSP
  BY DefaultsFit, Zenon DEF FitsField
<1>5. SaysFrequency(m.cf.f, a.cf, DefaultCF)
  <2>1. normalizeHz(a.cf).f = a.cf.f
    BY <1>1, Read, Zenon
  <2> QED
    BY <1>2, <1>4, <2>1, Zenon DEF SaysFrequency
<1>6. SaysFrequency(m.sp.f, a.sp, DefaultSP)
  <2>1. normalizeHz(a.sp).f = a.sp.f
    BY <1>1, Read, Zenon
  <2> QED
    BY <1>2, <1>4, <2>1, Zenon DEF SaysFrequency
<1>7. SaysNumber(m.rl, a.rl, 50) /\ SaysNumber(m.rfinput, a.rfinput, 10)
  BY <1>2 DEF SaysNumber
<1>8. CASE a.rbw = Rbw(0, "")
  <2>1. m.rbw = Rbw(1, "M")
    BY <1>2, <1>8, Zenon
  <2>2. Rbw(1, "M").unit = "M" /\ Rbw(1, "M").n = 1 /\ enumRBW[7] = Rbw(1, "M")
    BY DEF Rbw, enumRBW
  <2>3. normalizeRBW(Rbw(1, "M")) = Rbw(1, "M")
    BY <2>2 DEF normalizeRBW
  <2>4. 7 \in PlacesOf(Rbw(1, "M"))
    BY <2>2, <2>3 DEF PlacesOf
  <2>5. name = Rbw(1, "M")
    BY <1>3, <2>1, <2>2, <2>3, <2>4 DEF NamedBy
  <2> QED
    BY <1>5, <1>6, <1>7, <1>8, <2>5, Zenon DEF SaysRBW, m
<1>9. CASE a.rbw # Rbw(0, "")
  <2>1. m.rbw = a.rbw
    BY <1>2, <1>9, Zenon
  <2>2. SaysRBW(name, a.rbw)
    BY <1>3, <1>9, <2>1, Zenon DEF NamedBy, SaysRBW
  <2> QED
    BY <1>5, <1>6, <1>7, <2>2, Zenon DEF m
<1> QED
  BY <1>8, <1>9, Zenon

\* Every change of the configuration, whatever its arguments, is accepted if they or
\* their replacements are such as a packet holds, and then says of each argument
\* what was asked for or the replacement the source names for it: lib/request.js:88
\* read by lib/request.js:55.
LEMMA ChangesRead == \A a \in Args : ChangeReads(a)
<1> SUFFICES ASSUME NEW a \in Args PROVE ChangeReads(a)
  OBVIOUS
<1> DEFINE m == WithDefaults(a)
           p == makeChangeConfig(a)
<1>1. CASE ~Holds(a)
  <2>1. Len(p) < 19
    BY <1>1, CutChange
  <2>2. ~acceptsChangeConfig(p)
    <3>1. p \in Seq(Byte) \/ TRUE
      OBVIOUS
    <3> QED
      BY <2>1 DEF acceptsChangeConfig
  <2> QED
    BY <1>1, <2>2, Zenon DEF ChangeReads
<1>2. CASE Holds(a)
  <2>1. /\ p \in Seq(Byte) /\ Len(p) = 19
        /\ p[1] = 2 /\ p[2] = 0 /\ p[3] = 16 /\ p[4] = 4 /\ p[19] = 3
        /\ uint32(p, 5) = m.cf.f /\ uint32(p, 9) = m.sp.f
        /\ p[13] = m.rl /\ p[15] = m.rfinput /\ p[16] = 0
        /\ NamedBy(fromRBWHex(p[14]), m.rbw)
    BY <1>2, HeldChange, Zenon
  <2>2. acceptsChangeConfig(p)
    <3>1. uint16(p, 2) = 16
      BY <2>1 DEF uint16
    <3> QED
      BY <2>1, <3>1 DEF acceptsChangeConfig, STX, ETX, DTYPES
  <2>3. /\ SaysFrequency(m.cf.f, a.cf, DefaultCF) /\ SaysFrequency(m.sp.f, a.sp, DefaultSP)
        /\ SaysNumber(m.rl, a.rl, 50) /\ SaysNumber(m.rfinput, a.rfinput, 10)
        /\ SaysRBW(fromRBWHex(p[14]), a.rbw)
    BY <2>1, ValuesSay
  <2> DEFINE r == _parserChangeConfig(p)
  <2>4. /\ r.CF = uint32(p, 5) /\ r.SP = uint32(p, 9) /\ r.RL = p[13] /\ r.RBW = p[14]
        /\ r.RF = p[15] /\ r.LNB = p[16]
    BY DEF _parserChangeConfig
  <2> HIDE DEF p, m, r
  <2>5. /\ SaysFrequency(r.CF, a.cf, DefaultCF) /\ SaysFrequency(r.SP, a.sp, DefaultSP)
        /\ SaysNumber(r.RL, a.rl, 50) /\ SaysNumber(r.RF, a.rfinput, 10)
        /\ SaysRBW(fromRBWHex(r.RBW), a.rbw)
        /\ r.LNB = 0
    BY <2>1, <2>3, <2>4, Zenon
  <2> QED
    BY <1>2, <2>2, <2>5, Zenon DEF ChangeReads, p, r
<1> QED
  BY <1>1, <1>2, Zenon

-----------------------------------------------------------------------------
(* Packets in a stream *)

\* What frames a packet: its first byte, its last, and a length that says where.
Framed(p) ==
  /\ p \in Seq(Byte) /\ Len(p) >= 5
  /\ p[1] = STX /\ p[Len(p)] = ETX
  /\ uint16(p, 2) = Len(p) - 3

\* The start of a stream, as far as it has come.
LEMMA StreamStart ==
  ASSUME NEW p \in Seq(Byte), NEW next \in Seq(Byte), NEW k \in 0..Len(p \o next)
  PROVE  /\ Len(SubSeq(p \o next, 1, k)) = k
         /\ \A i \in 1..k : i <= Len(p) => SubSeq(p \o next, 1, k)[i] = p[i]
<1> DEFINE s == p \o next
<1>1. s \in Seq(Byte) /\ \A i \in 1..Len(p) : s[i] = p[i]
  OBVIOUS
<1> HIDE DEF s
<1>2. Len(SubSeq(s, 1, k)) = k /\ \A i \in 1..k : SubSeq(s, 1, k)[i] = s[i]
  BY <1>1 DEF s
<1> QED
  BY <1>1, <1>2 DEF s

LEMMA ConsumedAtEnd ==
  ASSUME NEW p, Framed(p), NEW next \in Seq(Byte), NEW k \in 0..Len(p \o next)
  PROVE  Consumed(SubSeq(p \o next, 1, k), Len(p) - 5) = IF k >= Len(p) THEN Len(p) ELSE 0
<1> DEFINE b == SubSeq(p \o next, 1, k)
<1>1. p \in Seq(Byte) /\ Len(p) >= 5 /\ p[1] = STX /\ p[Len(p)] = ETX /\ Len(p) \in Nat
  BY DEF Framed
<1>2. Len(b) = k /\ k \in Nat /\ \A i \in 1..k : i <= Len(p) => b[i] = p[i]
  BY <1>1, StreamStart
<1> HIDE DEF b
<1>3. 5 + (Len(p) - 5) = Len(p)
  BY <1>1
<1>4. Consumed(b, Len(p) - 5) = IF Len(b) >= Len(p) /\ b[1] = STX /\ b[Len(p)] = ETX
                               THEN Len(p) ELSE 0
  BY <1>3, Zenon DEF Consumed
<1>5. k >= Len(p) => b[1] = p[1] /\ b[Len(p)] = p[Len(p)]
  BY <1>1, <1>2
<1> QED
  BY <1>1, <1>2, <1>4, <1>5 DEF b

LEMMA LengthRead ==
  ASSUME NEW p, Framed(p), NEW next \in Seq(Byte), NEW k \in 0..Len(p \o next), k >= 4
  PROVE  LET b == SubSeq(p \o next, 1, k)
         IN uint16(b, 2) = uint16(p, 2) /\ b[4] = p[4] /\ ~(Len(b) < 4)
<1> DEFINE b == SubSeq(p \o next, 1, k)
<1>1. p \in Seq(Byte) /\ Len(p) >= 5
  BY DEF Framed
<1>2. Len(b) = k /\ k \in Nat /\ \A i \in 1..k : i <= Len(p) => b[i] = p[i]
  BY <1>1, StreamStart
<1> HIDE DEF b
<1>3. b[2] = p[2] /\ b[3] = p[3] /\ b[4] = p[4]
  BY <1>1, <1>2
<1> QED
  BY <1>2, <1>3 DEF b, uint16

\* parseTester cuts every packet that is framed.
LEMMA TesterCuts ==
  ASSUME NEW p, Framed(p), NEW next \in Seq(Byte)
  PROVE  CutsAt(parseTester, p, next)
<1> SUFFICES ASSUME NEW k \in 0..Len(p \o next)
             PROVE  parseTester(SubSeq(p \o next, 1, k)) = IF k >= Len(p) THEN Len(p) ELSE 0
  BY DEF CutsAt
<1>1. p \in Seq(Byte) /\ Len(p) >= 5 /\ Len(p) \in Nat /\ uint16(p, 2) = Len(p) - 3
  BY DEF Framed
<1>2. Len(SubSeq(p \o next, 1, k)) = k
  BY <1>1, StreamStart
<1>3. k \in Nat
  OBVIOUS
<1>4. CASE k < 4
  BY <1>1, <1>2, <1>3, <1>4 DEF parseTester
<1>5. CASE k >= 4
  <2> DEFINE b == SubSeq(p \o next, 1, k)
  <2>1. uint16(b, 2) = uint16(p, 2) /\ ~(Len(b) < 4)
    BY <1>5, LengthRead
  <2>2. Consumed(b, Len(p) - 5) = IF k >= Len(p) THEN Len(p) ELSE 0
    BY ConsumedAtEnd
  <2> HIDE DEF b
  <2>3. uint16(b, 2) - 2 = Len(p) - 5
    BY <1>1, <2>1
  <2>4. parseTester(b) = Consumed(b, Len(p) - 5)
    BY <2>1, <2>3, Zenon DEF parseTester
  <2> QED
    BY <2>2, <2>4, Zenon DEF b
<1> QED
  BY <1>3, <1>4, <1>5

\* The parser cuts one whose fields fill its body.
LEMMA ParserCuts ==
  ASSUME NEW p, Framed(p), NEW next \in Seq(Byte), DTYPE_PKT(p[4], uint16(p, 2)) = Len(p) - 5
  PROVE  CutsAt(parser, p, next)
<1> SUFFICES ASSUME NEW k \in 0..Len(p \o next)
             PROVE  parser(SubSeq(p \o next, 1, k)) = IF k >= Len(p) THEN Len(p) ELSE 0
  BY DEF CutsAt
<1>1. p \in Seq(Byte) /\ Len(p) >= 5 /\ Len(p) \in Nat
  BY DEF Framed
<1>2. Len(SubSeq(p \o next, 1, k)) = k
  BY <1>1, StreamStart
<1>3. k \in Nat
  OBVIOUS
<1>4. CASE k < 4
  BY <1>1, <1>2, <1>3, <1>4 DEF parser
<1>5. CASE k >= 4
  <2> DEFINE b == SubSeq(p \o next, 1, k)
  <2>1. uint16(b, 2) = uint16(p, 2) /\ b[4] = p[4] /\ ~(Len(b) < 4)
    BY <1>5, LengthRead
  <2>2. Consumed(b, Len(p) - 5) = IF k >= Len(p) THEN Len(p) ELSE 0
    BY ConsumedAtEnd
  <2> HIDE DEF b
  <2>3. parser(b) = Consumed(b, Len(p) - 5)
    BY <2>1, Zenon DEF parser
  <2> QED
    BY <2>2, <2>3, Zenon DEF b
<1> QED
  BY <1>3, <1>4, <1>5

\* A body whose length, with command and ETX, goes into two bytes.
Fits(body) == Len(body) < 65534

LEMMA LengthBytes ==
  \A n \in Nat : n < 65534 =>
    /\ (n + 2) \div 256 \in Byte /\ (n + 2) % 256 \in Byte
    /\ 256 * ((n + 2) \div 256) + ((n + 2) % 256) = n + 2
BY SMT DEF Byte

LEMMA BodyLength ==
  ASSUME NEW body \in Seq(Byte), Fits(body)
  PROVE  \E n \in Nat, h \in Byte, l \in Byte :
           n = Len(body) /\ h = (n + 2) \div 256 /\ l = (n + 2) % 256 /\ 256 * h + l = n + 2
<1>1. Len(body) \in Nat
  BY SMT
<1>2. PICK n \in Nat : n = Len(body)
  BY <1>1, Zenon
<1>3. n < 65534
  BY <1>2, SMT DEF Fits
<1>4. /\ (n + 2) \div 256 \in Byte /\ (n + 2) % 256 \in Byte
      /\ 256 * ((n + 2) \div 256) + ((n + 2) % 256) = n + 2
  BY <1>3, LengthBytes, SMT
<1> QED
  BY <1>2, <1>4, SMT

LEMMA BytesJoined ==
  \A s, t \in Seq(Byte) :
    /\ s \o t \in Seq(Byte) /\ Len(s \o t) = Len(s) + Len(t)
    /\ \A i \in 1..Len(s) : (s \o t)[i] = s[i]
    /\ \A i \in 1..Len(t) : (s \o t)[Len(s) + i] = t[i]
OBVIOUS

Beginning(h, l, DTYPE) == <<STX, h, l, DTYPE>>

LEMMA FrontOfPacket ==
  ASSUME NEW h \in Byte, NEW l \in Byte, NEW DTYPE \in Byte
  PROVE  LET f == Beginning(h, l, DTYPE)
         IN f \in Seq(Byte) /\ Len(f) = 4 /\ f[1] = STX /\ f[2] = h /\ f[3] = l /\ f[4] = DTYPE
<1>1. <<STX, h, l, DTYPE>> \in Seq(Byte)
  BY DEF STX, Byte
<1> QED
  BY <1>1 DEF Beginning

LEMMA EndOfPacket ==
  <<ETX>> \in Seq(Byte) /\ Len(<<ETX>>) = 1 /\ <<ETX>>[1] = ETX
BY DEF ETX, Byte

\* A packet of a body is framed, and says its command.
LEMMA PacketFramed ==
  ASSUME NEW DTYPE \in Byte, NEW body \in Seq(Byte), Fits(body)
  PROVE  LET p == Packet(DTYPE, body)
         IN Framed(p) /\ Len(p) = Len(body) + 5 /\ p[4] = DTYPE /\ uint16(p, 2) = Len(body) + 2
<1>1. PICK n \in Nat, h \in Byte, l \in Byte :
        n = Len(body) /\ h = (n + 2) \div 256 /\ l = (n + 2) % 256 /\ 256 * h + l = n + 2
  BY BodyLength, Zenon
<1>2. PICK f \in Seq(Byte) : /\ f = Beginning(h, l, DTYPE) /\ Len(f) = 4
                             /\ f[1] = STX /\ f[2] = h /\ f[3] = l /\ f[4] = DTYPE
  <2>1. /\ Beginning(h, l, DTYPE) \in Seq(Byte) /\ Len(Beginning(h, l, DTYPE)) = 4
        /\ Beginning(h, l, DTYPE)[1] = STX /\ Beginning(h, l, DTYPE)[2] = h
        /\ Beginning(h, l, DTYPE)[3] = l /\ Beginning(h, l, DTYPE)[4] = DTYPE
    BY FrontOfPacket
  <2> QED
    BY <2>1, Zenon
<1>3. PICK e \in Seq(Byte) : e = <<ETX>> /\ Len(e) = 1 /\ e[1] = ETX
  BY EndOfPacket, Zenon
<1>4. PICK g \in Seq(Byte) : /\ g = f \o body /\ Len(g) = Len(f) + Len(body)
                             /\ \A i \in 1..Len(f) : g[i] = f[i]
  BY BytesJoined, Zenon
<1>5. PICK p \in Seq(Byte) : /\ p = g \o e /\ Len(p) = Len(g) + Len(e)
                             /\ \A i \in 1..Len(g) : p[i] = g[i]
                             /\ \A i \in 1..Len(e) : p[Len(g) + i] = e[i]
  BY BytesJoined, Zenon
<1>6. Packet(DTYPE, body) = p
  BY <1>1, <1>2, <1>3, <1>4, <1>5, Zenon DEF Packet, Beginning
<1>7. Len(g) = n + 4 /\ Len(p) = n + 5
  <2>1. Len(f) = 4 /\ Len(e) = 1 /\ Len(body) = n
    BY <1>1, <1>2, <1>3, Zenon
  <2>2. Len(g) = Len(f) + Len(body) /\ Len(p) = Len(g) + Len(e)
    BY <1>4, <1>5, Zenon
  <2> QED
    BY <2>1, <2>2
<1>8. \A i \in 1..4 : p[i] = f[i]
  <2> TAKE i \in 1..4
  <2>1. i \in 1..Len(f) /\ i \in 1..Len(g)
    BY <1>2, <1>7
  <2> QED
    BY <2>1, <1>4, <1>5
<1>9. p[n + 5] = ETX
  <2>1. 1 \in 1..Len(e) /\ Len(g) + 1 = n + 5
    BY <1>3, <1>7
  <2>2. p[Len(g) + 1] = e[1]
    BY <2>1, <1>5, Zenon
  <2> QED
    BY <2>1, <2>2, <1>3, Zenon
<1>10. p[1] = STX /\ p[2] = h /\ p[3] = l /\ p[4] = DTYPE
  BY <1>2, <1>8
<1>11. uint16(p, 2) = n + 2
  BY <1>1, <1>10 DEF uint16
<1>12. Framed(p)
  BY <1>7, <1>9, <1>10, <1>11 DEF Framed
<1> QED
  BY <1>1, <1>6, <1>7, <1>10, <1>11, <1>12, Zenon

\* The fields of every response fill its body.
LEMMA FieldsFill ==
  ASSUME NEW DTYPE, NEW body \in Seq(Byte), IsResponse(DTYPE, body)
  PROVE  /\ DTYPE \in Byte /\ Fits(body)
         /\ DTYPE_PKT(DTYPE, Len(body) + 2) = Len(body)
<1>1. Len(body) \in Nat
  OBVIOUS
<1>2. CASE DTYPE = 7 /\ Len(body) = 83
  BY <1>2 DEF DTYPE_PKT, DTYPES, parserHardwareInfo, Byte, Fits
<1>3. CASE DTYPE = 13 /\ Len(body) = 43
  BY <1>3 DEF DTYPE_PKT, DTYPES, parserPowerLNB, Byte, Fits
<1>4. CASE DTYPE = 9 /\ Len(body) = 339
  BY <1>4 DEF DTYPE_PKT, DTYPES, parserWaveformData, Byte, Fits
<1>5. CASE DTYPE = 8 /\ Len(body) = 1
  BY <1>5 DEF DTYPE_PKT, DTYPES, parserUnknownPacket, Byte, Fits
<1>6. CASE DTYPE = 96 /\ Len(body) < 65534
  BY <1>1, <1>6 DEF DTYPE_PKT, DTYPES, parserTextMessage, Byte, Fits
<1> QED
  BY <1>2, <1>3, <1>4, <1>5, <1>6 DEF IsResponse, DTYPES

\* Both parsers cut every response exactly at its end: lib/response.js:168 and 198.
THEOREM ResponsesCut ==
  \A DTYPE : \A body, next \in Seq(Byte) : CutsResponse(DTYPE, body, next)
<1> SUFFICES ASSUME NEW DTYPE, NEW body \in Seq(Byte), NEW next \in Seq(Byte),
                    IsResponse(DTYPE, body)
             PROVE  /\ CutsAt(parser, Packet(DTYPE, body), next)
                    /\ CutsAt(parseTester, Packet(DTYPE, body), next)
  BY DEF CutsResponse
<1> DEFINE p == Packet(DTYPE, body)
<1>1. /\ DTYPE \in Byte /\ Fits(body) /\ Len(body) \in Nat
      /\ DTYPE_PKT(DTYPE, Len(body) + 2) = Len(body)
  BY FieldsFill
<1>2. Framed(p) /\ Len(p) = Len(body) + 5 /\ p[4] = DTYPE /\ uint16(p, 2) = Len(body) + 2
  BY <1>1, PacketFramed
<1> HIDE DEF p
<1>3. DTYPE_PKT(p[4], uint16(p, 2)) = Len(p) - 5
  <2>1. Len(p) - 5 = Len(body)
    BY <1>1, <1>2
  <2>2. DTYPE_PKT(p[4], uint16(p, 2)) = DTYPE_PKT(DTYPE, Len(body) + 2)
    BY <1>2, Zenon
  <2> QED
    BY <1>1, <2>1, <2>2, Zenon
<1>4. CutsAt(parser, p, next)
  BY <1>2, <1>3, ParserCuts
<1>5. CutsAt(parseTester, p, next)
  BY <1>2, TesterCuts
<1> QED
  BY <1>4, <1>5 DEF p

LEMMA RequestsFramed ==
  Framed(makeHardwareInfo) /\ Framed(makeLNBPower)
<1>1. Framed(makeHardwareInfo)
  <2> DEFINE p == makeHardwareInfo
  <2>1. /\ p \in Seq(Byte) /\ Len(p) = 6
        /\ p[1] = 2 /\ p[2] = 0 /\ p[3] = 3 /\ p[6] = 3
    BY DEF makeHardwareInfo, STX, ETX, DTYPES, Byte
  <2> HIDE DEF p
  <2> QED
    BY <2>1 DEF Framed, STX, ETX, uint16, p
<1>2. Framed(makeLNBPower)
  <2> DEFINE p == makeLNBPower
  <2>1. /\ p \in Seq(Byte) /\ Len(p) = 5
        /\ p[1] = 2 /\ p[2] = 0 /\ p[3] = 2 /\ p[5] = 3
    BY DEF makeLNBPower, STX, ETX, DTYPES, Byte
  <2> HIDE DEF p
  <2> QED
    BY <2>1 DEF Framed, STX, ETX, uint16, p
<1> QED
  BY <1>1, <1>2

\* The length and the resolution of the request of the trace.
LEMMA WaveformTexts ==
  /\ Spells(<<0, STX>>, 1) /\ Bytes(<<0, STX>>)[1] = 2
  /\ Spells(<<0, DTYPES.WDR_REQ>>, 1) /\ Bytes(<<0, DTYPES.WDR_REQ>>)[1] = 3
  /\ Spells(hexFromNumber(3, 2), 1) /\ Bytes(hexFromNumber(3, 2))[1] = 3
  /\ Spells(toLEN(3), 2) /\ Bytes(toLEN(3))[1] = 0 /\ Bytes(toLEN(3))[2] = 3
  /\ Spells(<<0, ETX>>, 1) /\ Bytes(<<0, ETX>>)[1] = 3
<1>1. ASSUME NEW d \in Digit
      PROVE  Spells(<<0, d>>, 1) /\ Bytes(<<0, d>>)[1] = d
  <2> DEFINE t == <<0, d>>
  <2>1. t \in Seq(Digit) /\ Len(t) = 2 * 1 /\ 1 \in Nat
    BY DEF Digit
  <2>2. t[2 * 1 - 1] = 0 /\ t[2 * 1] = d
    OBVIOUS
  <2> HIDE DEF t
  <2>3. \A i \in 1..1 : Bytes(t)[i] = 16 * t[2 * i - 1] + t[2 * i]
    BY <2>1, WholeBytes
  <2>4. Bytes(t)[1] = d
    BY <2>2, <2>3 DEF Digit
  <2> QED
    BY <2>1, <2>4 DEF t, Spells
<1>2. 2 \in Digit /\ 3 \in Digit
  BY DEF Digit
<1>3. Spells(<<0, 2>>, 1) /\ Bytes(<<0, 2>>)[1] = 2 /\ Spells(<<0, 3>>, 1) /\ Bytes(<<0, 3>>)[1] = 3
  BY <1>1, <1>2
<1>4. Spells(hexFromNumber(3, 2), 1) /\ Bytes(hexFromNumber(3, 2))[1] = 3
  <2>1. 3 \in Byte /\ 3 \in Int
    BY DEF Byte
  <2>2. hexFromNumber(3, 2) = Digits(3, 2)
    BY <2>1, ByteText
  <2>3. Digits(3, 2) \in Seq(Digit) /\ Len(Digits(3, 2)) = 2 /\ Bytes(Digits(3, 2)) = <<3>>
    BY <2>1, OneByte
  <2> QED
    BY <2>2, <2>3 DEF Spells
<1>5. Spells(toLEN(3), 2) /\ Bytes(toLEN(3))[1] = 0 /\ Bytes(toLEN(3))[2] = 3
  <2> DEFINE t == toLEN(3)
  <2>1. 3 \in Nat /\ 3 < 16^4 /\ 4 \in {2, 4, 8} /\ 4 \in 0..8
    BY Powers
  <2>2. t = Digits(3, 4)
    BY <2>1, Padded, Zenon DEF toLEN
  <2>3. Digits(3, 4) \in Seq(Digit) /\ Len(Digits(3, 4)) = 4
    BY <2>1, DigitsType, Zenon
  <2>4. /\ Digits(3, 4)[1] = 0 /\ Digits(3, 4)[2] = 0 /\ Digits(3, 4)[3] = 0
        /\ Digits(3, 4)[4] = 3
    BY Powers DEF Digits
  <2> HIDE DEF t
  <2>5. t \in Seq(Digit) /\ Len(t) = 2 * 2 /\ t[1] = 0 /\ t[2] = 0 /\ t[3] = 0 /\ t[4] = 3
    BY <2>2, <2>3, <2>4
  <2>6. \A i \in 1..2 : Bytes(t)[i] = 16 * t[2 * i - 1] + t[2 * i]
    BY <2>5, WholeBytes
  <2>7. Bytes(t)[1] = 0 /\ Bytes(t)[2] = 3
    BY <2>5, <2>6
  <2> QED
    BY <2>5, <2>7 DEF t, Spells
<1> QED
  BY <1>3, <1>4, <1>5 DEF STX, ETX, DTYPES

LEMMA WaveformFramed == Framed(makeWaveformData)
<1> DEFINE a1 == <<0, STX>>
           a2 == toLEN(3)
           a3 == <<0, DTYPES.WDR_REQ>>
           a4 == hexFromNumber(3, 2)
           a5 == <<0, ETX>>
           t2 == a1 \o a2
           t3 == t2 \o a3
           t4 == t3 \o a4
           t5 == t4 \o a5
<1>1. makeWaveformData = Bytes(t5)
  BY Zenon DEF makeWaveformData
<1>2. /\ Spells(a1, 1) /\ Spells(a2, 2) /\ Spells(a3, 1) /\ Spells(a4, 1) /\ Spells(a5, 1)
      /\ Bytes(a1)[1] = 2 /\ Bytes(a2)[1] = 0 /\ Bytes(a2)[2] = 3 /\ Bytes(a3)[1] = 3
      /\ Bytes(a4)[1] = 3 /\ Bytes(a5)[1] = 3
  BY WaveformTexts
<1> HIDE DEF a1, a2, a3, a4, a5, t2, t3, t4, t5
<1>3. /\ Spells(t2, 3)
      /\ Stands(Bytes(a1), Bytes(t2), 0, 1) /\ Stands(Bytes(a2), Bytes(t2), 1, 2)
  BY <1>2, TextJoin DEF t2
<1>4. /\ Spells(t3, 4)
      /\ Stands(Bytes(t2), Bytes(t3), 0, 3) /\ Stands(Bytes(a3), Bytes(t3), 3, 1)
  BY <1>2, <1>3, TextJoin DEF t3
<1>5. /\ Spells(t4, 5)
      /\ Stands(Bytes(t3), Bytes(t4), 0, 4) /\ Stands(Bytes(a4), Bytes(t4), 4, 1)
  BY <1>2, <1>4, TextJoin DEF t4
<1>6. /\ Spells(t5, 6)
      /\ Stands(Bytes(t4), Bytes(t5), 0, 5) /\ Stands(Bytes(a5), Bytes(t5), 5, 1)
  BY <1>2, <1>5, TextJoin DEF t5
<1>7. Bytes(t5) \in Seq(Byte) /\ Len(Bytes(t5)) = 6
  <2>1. 6 \in Nat /\ t5 \in Seq(Digit) /\ Len(t5) = 2 * 6
    BY <1>6 DEF Spells
  <2> QED
    BY <2>1, WholeBytes
<1>8. Bytes(t2)[0 + 1] = 2 /\ Bytes(t2)[1 + 1] = 0 /\ Bytes(t2)[1 + 2] = 3
  BY <1>2, <1>3 DEF Stands
<1>9. \A i \in 1..3 : Bytes(t5)[i] = Bytes(t2)[i]
  BY <1>4, <1>5, <1>6 DEF Stands
<1>10. Bytes(t5)[5 + 1] = 3
  BY <1>2, <1>6 DEF Stands
<1>11. Bytes(t5)[1] = 2 /\ Bytes(t5)[2] = 0 /\ Bytes(t5)[3] = 3 /\ Bytes(t5)[6] = 3
  BY <1>8, <1>9, <1>10
<1> QED
  BY <1>1, <1>7, <1>11 DEF Framed, STX, ETX, uint16

LEMMA ChangeFramed ==
  ASSUME NEW a \in Args, Holds(a)
  PROVE  Framed(makeChangeConfig(a))
<1> DEFINE p == makeChangeConfig(a)
<1>1. /\ p \in Seq(Byte) /\ Len(p) = 19
      /\ p[1] = 2 /\ p[2] = 0 /\ p[3] = 16 /\ p[19] = 3
  BY HeldChange, Zenon
<1> HIDE DEF p
<1> QED
  BY <1>1 DEF Framed, STX, ETX, uint16, p

\* The test parser of lib/response.js cuts the fixed requests, and every change
\* that is made whole, exactly at its end, whatever follows: lib/request.js:28-175
\* read by lib/response.js:198.  Of a change that is cut short it says nothing.
THEOREM RequestsCut == \A next \in Seq(Byte) : CutsRequests(next)
<1> TAKE next \in Seq(Byte)
<1>1. ASSUME NEW a \in ChangeArgs, Holds(a)
      PROVE  CutsAt(parseTester, makeChangeConfig(a), next)
  <2>1. a \in Args
    BY ArgsAssumption
  <2>2. Framed(makeChangeConfig(a))
    BY <1>1, <2>1, ChangeFramed
  <2> QED
    BY <2>2, TesterCuts
<1>2. /\ CutsAt(parseTester, makeHardwareInfo, next) /\ CutsAt(parseTester, makeLNBPower, next)
      /\ CutsAt(parseTester, makeWaveformData, next)
  BY RequestsFramed, WaveformFramed, TesterCuts
<1> QED
  BY <1>1, <1>2, Zenon DEF CutsRequests
=============================================================================
