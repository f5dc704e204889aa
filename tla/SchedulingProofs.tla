-------------------------- MODULE SchedulingProofs --------------------------
(***************************************************************************)
(* Proofs about when a feed is polled.                                     *)
(*                                                                         *)
(* PollTiming, for every width of the integers, every choice of base and   *)
(* maximum and every share of jitter: the types, the bounds of a delay,    *)
(* that nothing but changed content shortens it, and how long a change     *)
(* goes unfetched.                                                         *)
(*                                                                         *)
(* Backlog, for every finite set of feeds and every limit that leaves room *)
(* beside the feeds that keep failing: the types and the order of the due  *)
(* feeds, and how many ticks leave a due feed out.                         *)
(***************************************************************************)
EXTENDS PollTiming, Backlog, FiniteSetTheorems, TLAPS

----------------------------------------------------------------------------
(* PollTiming: the inductive invariant. *)

\* A change that is pending was seen by no HEAD yet, and will be by the next
\* one, or a HEAD saw it and the next request fetches it.
Unseen ==
  pending =>
    \/ stale = 0 /\ (link.phase = "NeedsInitialGet" \/ Differs(link.etag, version))
    \/ (Fits => stale <= Longest) /\ link.phase = "NeedsGet"

NextInRange == Fits => link.next <= Longest

IInv == TypeOK /\ DelayBounded /\ NextInRange /\ Unseen

----------------------------------------------------------------------------
(***************************************************************************)
(* Powers of two.  They are numbers of sets, so that they are positive and *)
(* grow needs no induction: 1..m has more subsets the larger m is.         *)
(***************************************************************************)

LEMMA PowIsCount ==
  ASSUME NEW n \in Nat
  PROVE  /\ IsFiniteSet(SUBSET (1..n))
         /\ Cardinality(SUBSET (1..n)) = 2 ^ n
<1>1. IsFiniteSet(1..n) /\ Cardinality(1..n) = n
  BY FS_Interval
<1> QED
  BY <1>1, FS_SUBSET

LEMMA PowPositive ==
  ASSUME NEW n \in Nat
  PROVE  2 ^ n \in Nat \ {0}
<1>1. SUBSET (1..n) # {}
  OBVIOUS
<1> QED
  BY <1>1, PowIsCount, FS_CardinalityType, FS_EmptySet

LEMMA PowGrows ==
  ASSUME NEW m \in Nat, NEW n \in Nat, m < n
  PROVE  2 ^ m < 2 ^ n
<1>1. SUBSET (1..m) \in SUBSET (SUBSET (1..n))
  OBVIOUS
<1>2. 1..n \in SUBSET (1..n) /\ 1..n \notin SUBSET (1..m)
  OBVIOUS
<1>3. Cardinality(SUBSET (1..m)) <= Cardinality(SUBSET (1..n))
      /\ Cardinality(SUBSET (1..m)) # Cardinality(SUBSET (1..n))
  BY <1>1, <1>2, PowIsCount, FS_Subset
<1>4. 2 ^ m <= 2 ^ n /\ 2 ^ m # 2 ^ n
  BY <1>3, PowIsCount
<1> QED
  BY <1>4, PowPositive

LEMMA Widths ==
  /\ U64Max \in Nat \ {0} /\ I64Max \in Nat
  /\ \A n \in Nat : n < U64Bits => 2 ^ n <= U64Max
<1> DEFINE b == U64Bits - 1
           half == 2 ^ b
<1>1. b \in Nat /\ half \in Nat \ {0}
  BY PowPositive, PollTimingAssumption
<1>2. I64Max = half - 1 /\ U64Max = 2 * I64Max + 1
  BY DEF I64Max, U64Max
<1>3. ASSUME NEW n \in Nat, n < U64Bits
      PROVE  2 ^ n <= half /\ 2 ^ n \in Nat
  <2>1. n = b \/ n < b
    BY <1>3, PollTimingAssumption
  <2> HIDE DEF b
  <2> QED
    BY <2>1, <1>1, PowPositive, PowGrows
<1> HIDE DEF half
<1> QED
  BY <1>1, <1>2, <1>3

----------------------------------------------------------------------------
(* The arithmetic of compute_delay_seconds. *)

LEMMA SatPow2Grows ==
  ASSUME NEW m \in Nat, NEW n \in Nat, m <= n
  PROVE  /\ SatPow2(m) \in Nat \ {0}
         /\ SatPow2(m) <= SatPow2(n)
<1>1. SatPow2(m) \in Nat \ {0} /\ SatPow2(n) \in Nat \ {0}
  BY PowPositive, Widths DEF SatPow2
<1>2. CASE m < U64Bits /\ n < U64Bits
  <2>1. m = n \/ 2 ^ m < 2 ^ n
    BY PowGrows
  <2> QED
    BY <2>1, <1>1, <1>2 DEF SatPow2
<1>3. CASE m < U64Bits /\ ~(n < U64Bits)
  <2>1. 2 ^ m <= U64Max
    BY <1>3, Widths
  <2>2. SatPow2(m) = 2 ^ m /\ SatPow2(n) = U64Max
    BY <1>3 DEF SatPow2
  <2> QED
    BY <2>1, <2>2, <1>1
<1>4. CASE ~(m < U64Bits)
  BY <1>4, <1>1, PollTimingAssumption DEF SatPow2
<1> QED
  BY <1>1, <1>2, <1>3, <1>4

LEMMA ProductGrows ==
  ASSUME NEW x \in Nat, NEW y \in Nat, NEW z \in Nat, x <= y
  PROVE  x * z \in Nat /\ y * z \in Nat /\ x * z <= y * z
<1>1. x * z \in Nat /\ y * z \in Nat /\ (y - x) * z \in Nat
  OBVIOUS
<1>2. y * z = x * z + (y - x) * z
  OBVIOUS
<1> QED
  BY <1>1, <1>2

LEMMA ProductMonotonic ==
  ASSUME NEW z \in Nat, NEW x \in Nat, NEW y \in Nat, x <= y
  PROVE  z * x \in Nat /\ z * y \in Nat /\ z * x <= z * y
<1>1. z * x = x * z /\ z * y = y * z
  OBVIOUS
<1> QED
  BY <1>1, ProductGrows

\* The delay before jitter grows with the backoff index, and lies between the
\* smaller of base and maximum, and the maximum.
LEMMA ClampedGrows ==
  ASSUME base \in Nat, max \in Nat, base <= U64Max, NEW m \in Nat, NEW n \in Nat, m <= n
  PROVE  /\ Clamped(m) \in Nat
         /\ Smaller(base, max) <= Clamped(m)
         /\ Clamped(m) <= Clamped(n)
         /\ Clamped(n) <= max
<1> DEFINE p == SatPow2(m)
           q == SatPow2(n)
<1>1. p \in Nat \ {0} /\ q \in Nat \ {0} /\ p <= q
  BY SatPow2Grows
<1> HIDE DEF p, q
<1>2. base * p \in Nat /\ base * q \in Nat /\ base * p <= base * q
  BY <1>1, ProductMonotonic
<1>3. base <= base * p
  <2>1. base * 1 <= base * p
    BY <1>1, ProductMonotonic
  <2> QED
    BY <2>1, <1>2
<1>4. U64Max \in Nat
  BY Widths
<1> DEFINE bp == base * p
           bq == base * q
<1>5. bp \in Nat /\ bq \in Nat /\ bp <= bq /\ base <= bp
  BY <1>2, <1>3
<1>6. Clamped(m) = Smaller(Smaller(bp, U64Max), max) /\ Clamped(n) = Smaller(Smaller(bq, U64Max), max)
  BY DEF Clamped, SatMul, p, q
<1> HIDE DEF bp, bq
<1> QED
  BY <1>4, <1>5, <1>6 DEF Smaller

LEMMA RoundingGrows ==
  ASSUME NEW x \in Nat, NEW y \in Nat, x <= y
  PROVE  /\ (x + 100) \div 200 \in Nat
         /\ (x + 100) \div 200 <= (y + 100) \div 200
OBVIOUS

LEMMA RoundedShift ==
  ASSUME NEW x \in Nat, NEW y \in Nat, NEW k \in Nat, y <= x + 200 * k
  PROVE  (y + 100) \div 200 <= (x + 100) \div 200 + k
OBVIOUS

LEMMA RoundedAtLeast ==
  ASSUME NEW k \in Nat, NEW x \in Nat, 200 * k <= x
  PROVE  k <= (x + 100) \div 200
OBVIOUS

LEMMA JitterGrows ==
  ASSUME NEW d \in Nat, NEW e \in Nat, d <= e
  PROVE  /\ Jitter(d) \in Nat
         /\ Jitter(d) <= Jitter(e)
<1> DEFINE x == 2 * d * JitterPercent
           y == 2 * e * JitterPercent
<1>1. x \in Nat /\ y \in Nat /\ x <= y
  <2>1. 2 * d \in Nat /\ 2 * e \in Nat /\ 2 * d <= 2 * e
    OBVIOUS
  <2> QED
    BY <2>1, ProductGrows, PollTimingAssumption
<1>2. Jitter(d) = (x + 100) \div 200 /\ Jitter(e) = (y + 100) \div 200
  BY DEF Jitter
<1> HIDE DEF x, y
<1> QED
  BY <1>1, <1>2, RoundingGrows

\* What is computed from a delay before jitter that lies between Smaller(base, max)
\* and max, as long as nothing overflows.
LEMMA DelayRange ==
  ASSUME NEW low \in Nat, NEW d \in Nat, NEW top \in Nat, low <= d, d <= top,
         NEW j \in -Jitter(d)..Jitter(d)
  PROVE  /\ Larger(0, d + j) \in Nat
         /\ low - Jitter(low) <= Larger(0, d + j)
         /\ Larger(0, d + j) <= top + Jitter(top)
<1> DEFINE J == JitterPercent
           jl == Jitter(low)
           jd == Jitter(d)
           jt == Jitter(top)
<1>1. jl \in Nat /\ jd \in Nat /\ jt \in Nat /\ jd <= jt
  BY JitterGrows
<1>2. J \in Nat
  BY PollTimingAssumption
<1>3. low - jl <= 0 \/ low - jl <= d - jd
  <2> DEFINE x == 2 * low * J
             y == 2 * d * J
             k == d - low
             z == 2 * k * J
  <2>1. k \in Nat /\ 2 * k \in Nat
    OBVIOUS
  <2>2. x \in Nat /\ y \in Nat /\ z \in Nat /\ y = x + z
    <3>1. x \in Nat /\ y \in Nat /\ z \in Nat
      BY <1>2, <2>1
    <3>2. 2 * d = 2 * low + 2 * k
      OBVIOUS
    <3>3. (2 * low + 2 * k) * J = (2 * low) * J + (2 * k) * J
      BY <1>2, <2>1
    <3> QED
      BY <3>1, <3>2, <3>3
  <2>3. jl = (x + 100) \div 200 /\ jd = (y + 100) \div 200
    BY DEF Jitter
  <2>4. CASE J <= 100
    <3>1. z <= 200 * k
      <4>1. (2 * k) * J <= (2 * k) * 100
        BY <1>2, <2>1, <2>4, ProductMonotonic
      <4> QED
        BY <4>1, <2>1
    <3> HIDE DEF x, y, z, jl, jd, J
    <3>2. jd <= jl + k
      <4> HIDE DEF k
      <4> QED
        BY <3>1, <2>1, <2>2, <2>3, RoundedShift
    <3> QED
      BY <3>2, <1>1
  <2>5. CASE J > 100
    <3>1. (2 * low) * 100 <= (2 * low) * J
      BY <1>2, <2>5, ProductMonotonic
    <3>2. 200 * low <= x
      BY <3>1
    <3> HIDE DEF x, y, z, jl, jd, J, k
    <3>3. low <= jl
      BY <3>2, <2>2, <2>3, RoundedAtLeast
    <3> QED
      BY <3>3, <1>1
  <2> QED
    BY <1>2, <2>4, <2>5
<1>4. j \in Int /\ -jd <= j /\ j <= jd
  BY <1>1
<1> HIDE DEF jl, jd, jt, J
<1>5. /\ Larger(0, d + j) \in Nat
      /\ low - jl <= Larger(0, d + j)
      /\ Larger(0, d + j) <= top + jt
  BY <1>1, <1>3, <1>4 DEF Larger
<1> QED
  BY <1>5 DEF jl, jt

LEMMA Remainder ==
  ASSUME NEW y \in Int, NEW m \in Nat \ {0}
  PROVE  /\ y % m \in Int /\ 0 <= y % m /\ y % m < m
         /\ 0 <= y /\ y < m => y % m = y
<1>1. y % m \in Int /\ 0 <= y % m /\ y % m < m
  OBVIOUS
<1>2. y \in Nat /\ y < m => y % m = y
  OBVIOUS
<1> QED
  BY <1>1, <1>2

\* Wrapping keeps what an i64 holds, and gives an i64.
LEMMA Wrapped ==
  ASSUME NEW x \in Int
  PROVE  /\ WrapI64(x) \in (-I64Max - 1)..I64Max
         /\ x \in (-I64Max - 1)..I64Max => WrapI64(x) = x
<1> DEFINE m == U64Max + 1
           y == x + I64Max + 1
           r == y % m
<1>1. m \in Nat \ {0} /\ y \in Int /\ I64Max \in Nat /\ m = 2 * I64Max + 2
  BY Widths DEF U64Max
<1>2. WrapI64(x) = r - (I64Max + 1)
  BY DEF WrapI64
<1>3. r \in Int /\ 0 <= r /\ r < m /\ (0 <= y /\ y < m => r = y)
  <2> HIDE DEF m, y
  <2> QED
    BY <1>1, Remainder
<1>4. y = x + I64Max + 1
  OBVIOUS
<1> HIDE DEF m, y, r
<1> QED
  BY <1>1, <1>2, <1>3, <1>4

----------------------------------------------------------------------------
(* PollTiming: types, and how the link state moves. *)

\* The part of TypeOK about the fixed configuration.
LEMMA Configured ==
  ASSUME TypeOK
  PROVE  /\ base \in Nat /\ base <= U64Max
         /\ max \in Nat /\ max <= I64Max
         /\ Smaller(base, max) \in Nat /\ Smaller(base, max) <= max
<1>1. base \in 0..U64Max /\ max \in 0..I64Max
  BY PollTimingAssumption DEF TypeOK
<1> QED
  BY <1>1, Widths DEF Smaller

\* Every wait has its type, and as long as nothing overflows it is within the
\* bounds of the delay.
LEMMA WaitsBounded ==
  ASSUME TypeOK, NEW n \in 0..U32Max, NEW d \in Waits(n)
  PROVE  /\ d \in Times
         /\ Fits => d \in (MsPerSecond * (Smaller(base, max) - Jitter(Smaller(base, max))))..Longest
<1> DEFINE low == Smaller(base, max)
           c == Clamped(n)
           M == MsPerSecond
<1>1. n \in Nat
  BY U32MaxAssumption
<1>2. low \in Nat /\ c \in Nat /\ max \in Nat /\ low <= c /\ c <= max
  BY <1>1, Configured, ClampedGrows
<1>3. PICK now \in Instants, total \in Delays(n) : d = Wait(now, total)
  BY DEF Waits
<1>4. PICK k \in Jitters(c) : total = Larger(0, WrapI64(c + k))
  BY <1>3 DEF Delays
<1>5. PICK j \in -Jitter(c)..Jitter(c) : k = Smaller(Larger(j, -I64Max - 1), I64Max)
  BY <1>4 DEF Jitters
<1>6. now \in Nat /\ now <= I64Max /\ I64Max \in Nat /\ M \in Nat \ {0}
  BY PollTimingAssumption, Widths
<1>7. Jitter(low) \in Nat /\ Jitter(c) \in Nat /\ Jitter(max) \in Nat /\ Jitter(c) <= Jitter(max)
  BY <1>2, JitterGrows
<1>8. j \in Int /\ k \in Int /\ -Jitter(c) <= j /\ j <= Jitter(c)
  BY <1>5, <1>6, <1>7 DEF Smaller, Larger
<1> HIDE DEF low, c, M
<1>9. total \in Nat
  <2>1. WrapI64(c + k) \in Int
    BY <1>2, <1>6, <1>8, Wrapped
  <2> QED
    BY <2>1, <1>4 DEF Larger
<1> DEFINE p == total * M
<1>10. p \in Nat
  BY <1>6, <1>9
<1>11. d = WrapI64(now + WrapI64(p)) - now
  BY <1>3 DEF Wait, M
<1> HIDE DEF p
<1>12. WrapI64(p) \in Int /\ WrapI64(now + WrapI64(p)) \in (-I64Max - 1)..I64Max
  <2>1. WrapI64(p) \in Int
    BY <1>6, <1>10, Wrapped
  <2> QED
    BY <2>1, <1>6, Wrapped
<1>13. d \in Times
  BY <1>6, <1>11, <1>12 DEF Times
<1>14. ASSUME Fits
       PROVE  d \in (M * (low - Jitter(low)))..(M * (max + Jitter(max)))
  <2> DEFINE top == max + Jitter(max)
             bottom == low - Jitter(low)
  <2>1. top \in Nat /\ bottom \in Int /\ c + Jitter(c) <= top
    BY <1>2, <1>7
  <2>2. now + M * top <= I64Max
    BY <1>14 DEF Fits, Longest, M
  <2> HIDE DEF top, bottom
  <2>3. M * top \in Nat /\ top <= M * top
    <3>1. top * 1 <= top * M /\ top * M \in Nat /\ top * M = M * top
      BY <2>1, <1>6, ProductMonotonic
    <3> QED
      BY <3>1, <2>1
  <2>4. top <= I64Max /\ M * top <= I64Max
    BY <2>1, <2>2, <2>3, <1>6
  <2>5. k = j
    BY <2>1, <2>4, <1>2, <1>5, <1>6, <1>7, <1>8 DEF Smaller, Larger
  <2>6. WrapI64(c + k) = c + j
    <3>1. c + j \in (-I64Max - 1)..I64Max
      BY <2>1, <2>4, <1>2, <1>6, <1>7, <1>8
    <3> QED
      BY <3>1, <2>5, Wrapped
  <2>7. total = Larger(0, c + j)
    BY <2>6, <1>4
  <2>8. bottom <= total /\ total <= top
    BY <2>7, <1>2, <1>7, <1>8, DelayRange DEF top, bottom
  <2>9. M * bottom <= p /\ p <= M * top /\ M * bottom \in Int
    <3>1. M * total <= M * top
      BY <2>1, <2>8, <1>6, <1>9, ProductMonotonic
    <3>2. M * total = p
      BY <1>6, <1>9 DEF p
    <3>3. M * (total - bottom) = M * total - M * bottom /\ M * bottom \in Int /\ M * total \in Int
      BY <2>1, <1>6, <1>9
    <3>4. M * (total - bottom) >= 0
      <4>1. total - bottom \in Nat
        BY <2>1, <2>8, <1>9
      <4> QED
        BY <4>1, <1>6, ProductMonotonic
    <3> DEFINE a == M * (total - bottom)
               b == M * total
               e == M * bottom
    <3>5. a = b - e /\ e \in Int /\ b \in Int /\ a >= 0
      BY <3>3, <3>4
    <3>6. e <= b
      <4> HIDE DEF a, b, e
      <4> QED
        BY <3>5
    <3> QED
      BY <3>1, <3>2, <3>3, <3>6
  <2>10. WrapI64(p) = p
    BY <2>4, <2>9, <2>3, <1>6, <1>10, Wrapped
  <2>11. WrapI64(now + p) = now + p
    BY <2>2, <2>3, <2>9, <1>6, <1>10, Wrapped
  <2>12. d = p
    BY <2>10, <2>11, <1>6, <1>10, <1>11
  <2> DEFINE lo == M * bottom
             hi == M * top
  <2>13. lo <= p /\ p <= hi /\ lo \in Int /\ hi \in Int
    BY <2>3, <2>9
  <2>14. d \in lo..hi
    <3> HIDE DEF lo, hi
    <3> QED
      BY <2>12, <2>13, <1>10
  <2> QED
    BY <2>14 DEF top, bottom
<1> QED
  BY <1>13, <1>14 DEF low, M, Longest

\* The longest interval.
LEMMA LongestType ==
  ASSUME TypeOK
  PROVE  Longest \in Nat
<1>1. max \in Nat
  BY Configured
<1>2. Jitter(max) \in Nat
  BY <1>1, JitterGrows
<1> QED
  BY <1>1, <1>2, PollTimingAssumption DEF Longest

\* The answers of the origin.
Answers == {Good} \cup Bad
Codes == {None, 200, 500}
Tags == {None, 1, 2}
States == LinkStates(Codes, Tags, Times)

LEMMA AnswerTypes ==
  ASSUME TypeOK, NEW r \in Answers
  PROVE  /\ r.status \in Codes /\ r.etag \in Tags /\ r.lastModified = None
         /\ r = Good => ~IsError(r) /\ r.etag = version
         /\ r \in Bad => IsError(r)
<1>1. CASE r = Good
  BY <1>1 DEF Good, Bad, IsError, IsErrorStatus, TypeOK, Codes, Tags, None
<1>2. CASE r \in Bad
  BY <1>2 DEF Good, Bad, IsError, IsErrorStatus, TypeOK, Codes, Tags, None
<1> QED
  BY <1>1, <1>2 DEF Answers

LEMMA SatIncUp ==
  ASSUME NEW n \in 0..U32Max
  PROVE  SatInc(n) \in 0..U32Max /\ n <= SatInc(n)
BY U32MaxAssumption DEF SatInc

\* What the link state is after a HEAD.
LEMMA AfterHead ==
  ASSUME TypeOK, NEW r \in Answers, NEW d \in Times, NEW s, s = ApplyHeadResult(link, r, 0, d)
  PROVE  /\ s \in States
         /\ s.next = d /\ s.backoff = HeadBackoff(link, r)
         /\ s.backoff \in 0..U32Max /\ link.backoff <= s.backoff
         /\ r = Good /\ Differs(link.etag, version) => s.phase = "NeedsGet"
<1>1. /\ link \in States /\ link.backoff \in 0..U32Max /\ link.errors \in 0..U32Max
      /\ link.etag \in Tags /\ link.lastModified \in Tags
      /\ link.headStatus \in Codes /\ link.getStatus \in Codes
  BY DEF TypeOK, States, LinkStates, Codes, Tags
<1>2. d \in Int /\ 0 + d = d
  BY Widths DEF Times
<1>3. HeadBackoff(link, r) \in 0..U32Max /\ link.backoff <= HeadBackoff(link, r)
  BY <1>1, SatIncUp, U32MaxAssumption DEF HeadBackoff
<1>4. ErrorsAfter(link, r) \in 0..U32Max
  BY <1>1, U32MaxAssumption DEF ErrorsAfter, SatInc
<1>5. HeadPhase(link, r) \in LinkPhase
  BY DEF HeadPhase, LinkPhase
<1>6. Learn(link.etag, r.etag) \in Tags /\ Learn(link.lastModified, r.lastModified) \in Tags
  BY <1>1, AnswerTypes DEF Learn
<1> DEFINE p == HeadPhase(link, r)
           code == r.status
           b == HeadBackoff(link, r)
           e == Learn(link.etag, r.etag)
           m == Learn(link.lastModified, r.lastModified)
           c == ErrorsAfter(link, r)
<1>7. s = [link EXCEPT !.phase = p, !.headStatus = code, !.backoff = b, !.etag = e,
                       !.lastModified = m, !.next = d, !.errors = c]
  BY <1>2 DEF ApplyHeadResult
<1>8. p \in LinkPhase /\ code \in Codes /\ b \in 0..U32Max /\ e \in Tags /\ m \in Tags /\ c \in 0..U32Max
  BY <1>3, <1>4, <1>5, <1>6, AnswerTypes
<1>9. s \in States /\ s.phase = p /\ s.headStatus = code /\ s.backoff = b /\ s.next = d /\ s.errors = c
  <2> HIDE DEF p, code, b, e, m, c
  <2> QED
    BY <1>1, <1>7, <1>8 DEF States, LinkStates
<1>11. ASSUME r = Good, Differs(link.etag, version)
       PROVE  s.phase = "NeedsGet"
  <2>1. ~IsError(r) /\ HasChanged(link, r)
    BY <1>11, AnswerTypes DEF HasChanged
  <2> QED
    BY <2>1, <1>9 DEF HeadPhase
<1> QED
  BY <1>3, <1>9, <1>11

\* And after a GET.
LEMMA AfterGet ==
  ASSUME TypeOK, NEW r \in Answers, NEW d \in Times, NEW changed \in BOOLEAN,
         NEW s, s = ApplyGetResult(link, r, 0, changed, d)
  PROVE  /\ s \in States
         /\ s.next = d /\ s.backoff = GetBackoff(link, r, changed)
         /\ s.backoff \in 0..U32Max
         /\ link.backoff <= s.backoff \/ r = Good
         /\ r = Good => s.phase = "NeedsHead"
<1>1. /\ link \in States /\ link.backoff \in 0..U32Max /\ link.errors \in 0..U32Max
      /\ link.etag \in Tags /\ link.lastModified \in Tags
      /\ link.headStatus \in Codes /\ link.getStatus \in Codes
  BY DEF TypeOK, States, LinkStates, Codes, Tags
<1>2. d \in Int /\ 0 + d = d
  BY Widths DEF Times
<1>3. GetBackoff(link, r, changed) \in 0..U32Max
  BY <1>1, SatIncUp, U32MaxAssumption DEF GetBackoff
<1>4. link.backoff <= GetBackoff(link, r, changed) \/ r = Good
  BY <1>1, SatIncUp, AnswerTypes DEF GetBackoff, Answers
<1>5. ErrorsAfter(link, r) \in 0..U32Max
  BY <1>1, U32MaxAssumption DEF ErrorsAfter, SatInc
<1>6. Learn(link.etag, r.etag) \in Tags /\ Learn(link.lastModified, r.lastModified) \in Tags
  BY <1>1, AnswerTypes DEF Learn
<1> DEFINE p == IF IsError(r) THEN "ErrorBackoff" ELSE "NeedsHead"
           code == r.status
           b == GetBackoff(link, r, changed)
           e == Learn(link.etag, r.etag)
           m == Learn(link.lastModified, r.lastModified)
           c == ErrorsAfter(link, r)
<1>7. s = [link EXCEPT !.phase = p, !.getStatus = code, !.backoff = b, !.etag = e,
                       !.lastModified = m, !.next = d, !.errors = c]
  BY <1>2 DEF ApplyGetResult
<1>8. p \in LinkPhase /\ code \in Codes /\ b \in 0..U32Max /\ e \in Tags /\ m \in Tags /\ c \in 0..U32Max
  BY <1>3, <1>5, <1>6, AnswerTypes DEF LinkPhase
<1>10. s \in States /\ s.phase = p /\ s.getStatus = code /\ s.backoff = b /\ s.next = d /\ s.errors = c
  <2> HIDE DEF p, code, b, e, m, c
  <2> QED
    BY <1>1, <1>7, <1>8 DEF States, LinkStates
<1>12. r = Good => s.phase = "NeedsHead"
  BY <1>10, AnswerTypes DEF p
<1> QED
  BY <1>3, <1>4, <1>10, <1>12

\* Which request is due follows from the phase.
LEMMA RequestByPhase ==
  ASSUME TypeOK
  PROVE  /\ link.phase \in {"NeedsInitialGet", "NeedsGet"} => Gets
         /\ Heads => link.phase \notin {"NeedsInitialGet", "NeedsGet"}
<1> DEFINE s == [link EXCEPT !.next = 0]
<1>1. s.next = 0 /\ s.phase = link.phase
  BY DEF TypeOK, LinkStates
<1> QED
  BY <1>1 DEF Heads, Gets, Action, DecideNextAction

----------------------------------------------------------------------------
(* PollTiming: the invariant in every step. *)

LEMMA InvInit == Init => IInv
<1> SUFFICES ASSUME Init PROVE IInv
  OBVIOUS
<1>1. base \in 0..U64Max /\ max \in 0..I64Max
  BY PollTimingAssumption DEF Init
<1>2. I64Max \in Nat
  BY Widths
<1>4. 0 \in Times
  BY <1>2 DEF Times
<1>5. link \in LinkStates({None, 200, 500}, {None, 1, 2}, Times) /\ link.next = 0
  BY <1>4, U32MaxAssumption DEF Init, Initial, LinkStates, LinkPhase, None
<1>6. TypeOK
  BY <1>5 DEF Init, TypeOK
<1>7. Unseen
  BY DEF Init, Initial, Unseen
<1>8. 0 <= Longest
  BY <1>6, LongestType
<1> QED
  BY <1>5, <1>6, <1>7, <1>8 DEF IInv, DelayBounded, NextInRange, Init

\* The configuration is fixed, and what is computed from it.
LEMMA SameBounds ==
  ASSUME UNCHANGED configVars
  PROVE  /\ Longest' = Longest /\ Fits' = Fits
         /\ NextInRange' <=> (Fits => link'.next <= Longest)
         /\ DelayBounded' <=>
              (Fits /\ link' # Initial(0) =>
                 link'.next \in (MsPerSecond * (Smaller(base, max) - Jitter(Smaller(base, max))))..Longest)
BY DEF configVars, Longest, Fits, NextInRange, DelayBounded, Jitter, Smaller

\* A request whose answer is r, and the delay it is followed by.
LEMMA AfterRequest ==
  ASSUME TypeOK, UNCHANGED configVars, NEW n \in 0..U32Max, NEW d \in Waits(n),
         link' \in States, link'.next = d
  PROVE  DelayBounded' /\ NextInRange'
<1>1. Fits => d \in (MsPerSecond * (Smaller(base, max) - Jitter(Smaller(base, max))))..Longest
  BY WaitsBounded
<1>2. Fits => d <= Longest
  BY <1>1
<1> QED
  BY <1>1, <1>2, SameBounds

LEMMA BackoffTypes ==
  ASSUME TypeOK
  PROVE  \A r \in Answers : HeadBackoff(link, r) \in 0..U32Max
                            /\ \A b \in BOOLEAN : GetBackoff(link, r, b) \in 0..U32Max
BY SatIncUp, U32MaxAssumption DEF TypeOK, LinkStates, HeadBackoff, GetBackoff

\* The parts of a request: what follows a HEAD, and what follows a GET.
LEMMA HeadStep ==
  ASSUME TypeOK, UNCHANGED configVars, NEW r \in Answers, NEW d \in Waits(HeadBackoff(link, r)),
         link' = ApplyHeadResult(link, r, 0, d)
  PROVE  /\ link' \in States /\ DelayBounded' /\ NextInRange'
         /\ link.backoff <= link'.backoff /\ link'.backoff \in 0..U32Max
         /\ r = Good /\ Differs(link.etag, version) => link'.phase = "NeedsGet"
<1>1. HeadBackoff(link, r) \in 0..U32Max
  BY BackoffTypes
<1>2. d \in Times
  BY <1>1, WaitsBounded
<1>3. /\ link' \in States /\ link'.next = d /\ link.backoff <= link'.backoff
      /\ link'.backoff \in 0..U32Max
      /\ r = Good /\ Differs(link.etag, version) => link'.phase = "NeedsGet"
  BY <1>2, AfterHead
<1> QED
  BY <1>1, <1>3, AfterRequest

LEMMA GetStep ==
  ASSUME TypeOK, UNCHANGED configVars, NEW r \in Answers, NEW b \in BOOLEAN,
         NEW d \in Waits(GetBackoff(link, r, b)),
         link' = ApplyGetResult(link, r, 0, b, d)
  PROVE  /\ link' \in States /\ DelayBounded' /\ NextInRange'
         /\ link'.backoff \in 0..U32Max
         /\ link.backoff <= link'.backoff \/ r = Good
         /\ r = Good => link'.phase = "NeedsHead"
<1>1. GetBackoff(link, r, b) \in 0..U32Max
  BY BackoffTypes
<1>2. d \in Times
  BY <1>1, WaitsBounded
<1>3. /\ link' \in States /\ link'.next = d /\ link'.backoff \in 0..U32Max
      /\ link.backoff <= link'.backoff \/ r = Good
      /\ r = Good => link'.phase = "NeedsHead"
  BY <1>2, AfterGet
<1> QED
  BY <1>1, <1>3, AfterRequest

LEMMA InvNext == IInv /\ [Next]_vars => IInv'
<1> SUFFICES ASSUME IInv, [Next]_vars PROVE IInv'
  OBVIOUS
<1> USE DEF IInv
<1>1. /\ base \in Bases /\ max \in Maxima /\ version \in {1, 2} /\ pending \in BOOLEAN
      /\ stale \in Nat /\ link \in States /\ link.next \in Int /\ Longest \in Nat /\ checkGet \in BOOLEAN
  <2>1. link.next \in Times /\ Longest \in Nat
    BY LongestType DEF TypeOK, LinkStates
  <2> QED
    BY <2>1, Widths DEF TypeOK, States, Codes, Tags, Times
<1>2. CASE Publish
  <2>1. Differs(link'.etag, version')
    BY <1>1, <1>2 DEF Publish, Differs, None
  <2>2. TypeOK' /\ DelayBounded' /\ NextInRange'
    BY <1>1, <1>2, SameBounds DEF Publish, TypeOK, DelayBounded, NextInRange, configVars
  <2>3. Unseen'
    BY <2>1, <1>2 DEF Publish, Unseen
  <2> QED
    BY <2>2, <2>3
<1>3. CASE HeadSucceeds
  <2>1. PICK d \in Waits(HeadBackoff(link, Good)) : link' = ApplyHeadResult(link, Good, 0, d)
    BY <1>3 DEF HeadSucceeds
  <2>2. /\ link' \in States /\ DelayBounded' /\ NextInRange'
        /\ Differs(link.etag, version) => link'.phase = "NeedsGet"
    BY <2>1, <1>3, HeadStep DEF HeadSucceeds, Answers
  <2>3. stale' \in Nat /\ TypeOK'
    <3>1. stale' \in Nat
      BY <1>1, <1>3 DEF HeadSucceeds, Watch, Larger
    <3> QED
      BY <3>1, <2>2, <1>1, <1>3 DEF HeadSucceeds, configVars, TypeOK, States, Codes, Tags
  <2>4. Unseen'
    <3> SUFFICES ASSUME pending PROVE (Fits' => stale' <= Longest') /\ link'.phase = "NeedsGet"
      BY <1>3 DEF HeadSucceeds, Unseen
    <3>1. link.phase \notin {"NeedsInitialGet", "NeedsGet"}
      BY <1>3, RequestByPhase DEF HeadSucceeds
    <3>2. stale = 0 /\ Differs(link.etag, version)
      BY <3>1 DEF Unseen
    <3>3. stale' = Larger(0, link.next)
      BY <3>2, <1>1, <1>3 DEF HeadSucceeds, Watch, Larger
    <3>4. Longest' = Longest /\ Fits' = Fits
      BY <1>3, SameBounds DEF HeadSucceeds
    <3> QED
      BY <1>1, <2>2, <3>2, <3>3, <3>4 DEF NextInRange, Larger
  <2> QED
    BY <2>2, <2>3, <2>4
<1>4. CASE GetSucceeds
  <2>1. PICK b \in BOOLEAN : \E d \in Waits(GetBackoff(link, Good, b)) :
          link' = ApplyGetResult(link, Good, 0, b, d)
    BY <1>4 DEF GetSucceeds
  <2>2. link' \in States /\ DelayBounded' /\ NextInRange'
    BY <2>1, <1>4, GetStep DEF GetSucceeds, Answers
  <2>3. TypeOK' /\ Unseen'
    BY <2>2, <1>1, <1>4 DEF GetSucceeds, configVars, TypeOK, States, Codes, Tags, Unseen
  <2> QED
    BY <2>2, <2>3
<1>5. CASE RequestFails
  <2>1. PICK r \in Bad :
          \/ \E d \in Waits(HeadBackoff(link, r)) : link' = ApplyHeadResult(link, r, 0, d)
          \/ \E d \in Waits(GetBackoff(link, r, FALSE)) : link' = ApplyGetResult(link, r, 0, FALSE, d)
    BY <1>5 DEF RequestFails
  <2>2. link' \in States /\ DelayBounded' /\ NextInRange'
    <3>1. r \in Answers /\ FALSE \in BOOLEAN
      BY DEF Answers
    <3>2. UNCHANGED configVars
      BY <1>5 DEF RequestFails
    <3> QED
      BY <2>1, <3>1, <3>2, HeadStep, GetStep
  <2>3. TypeOK' /\ Unseen'
    BY <2>2, <1>1, <1>5 DEF RequestFails, configVars, TypeOK, States, Codes, Tags, Unseen
  <2> QED
    BY <2>2, <2>3
<1>6. CASE UNCHANGED vars
  BY <1>6, SameBounds DEF vars, configVars, TypeOK, DelayBounded, NextInRange, Unseen, Times
<1> QED
  BY <1>2, <1>3, <1>4, <1>5, <1>6 DEF Next

\* The invariant in the reachable states.
LEMMA Invariance == Spec => []IInv
BY InvInit, InvNext, PTL DEF Spec

----------------------------------------------------------------------------
(* The results about PollTiming. *)

\* The types, also where the arithmetic wraps: the next instant is one of the
\* code's (link_state.rs:221-223, 325-327, 376-408), and validators and statuses
\* are those of answers.
THEOREM TypeCorrect == Spec => []TypeOK
<1>1. IInv => TypeOK
  BY DEF IInv
<1> QED
  BY <1>1, Invariance, PTL

\* No run of quiet or failing requests makes the wait collapse or exceed the
\* maximum, jitter aside, if no sum or product of i64 can overflow at the maximum:
\* the products before the clamp may (link_state.rs:221-223, 383-402).
THEOREM DelayIsBounded == Spec => []DelayBounded
<1>1. IInv => DelayBounded
  BY DEF IInv
<1> QED
  BY <1>1, Invariance, PTL

\* A change waits for its GET for two of the longest intervals at most, while
\* the requests succeed (link_state.rs:142-178).
THEOREM StalenessIsBounded == Spec => []StalenessBounded
<1>1. IInv => StalenessBounded
  <2> SUFFICES ASSUME IInv, Fits, pending PROVE stale + link.next <= 2 * Longest
    BY DEF StalenessBounded
  <2>1. Longest \in Nat /\ link.next \in Int /\ stale \in Nat
    BY LongestType, Widths DEF IInv, TypeOK, LinkStates, Times
  <2>2. link.next <= Longest /\ stale <= Longest
    BY <2>1 DEF IInv, NextInRange, Unseen
  <2> QED
    BY <2>1, <2>2
<1> QED
  BY <1>1, Invariance, PTL

\* Only a GET whose body changed shortens the interval: errors, HEADs and
\* saturation never do (link_state.rs:142-178, 245-284, 383-402).
THEOREM SpeedsUpOnlyOnChange == Spec => OnlyChangeSpeedsUp
<1> DEFINE Slower == Clamped(link.backoff) <= Clamped(link'.backoff)
           SpeedsUp == Gets /\ link'.phase = "NeedsHead"
<1>1. IInv /\ [Next]_vars =>
        [Clamped(link'.backoff) < Clamped(link.backoff) => SpeedsUp]_vars
  <2> SUFFICES ASSUME IInv, Next, Clamped(link'.backoff) < Clamped(link.backoff)
               PROVE  SpeedsUp
    OBVIOUS
  <2>1. TypeOK /\ link.backoff \in 0..U32Max
    BY DEF IInv, TypeOK, LinkStates
  <2>2. ~(link'.backoff \in 0..U32Max /\ link.backoff <= link'.backoff)
    <3> SUFFICES ASSUME link'.backoff \in 0..U32Max, link.backoff <= link'.backoff PROVE FALSE
      OBVIOUS
    <3> DEFINE m == link.backoff
               n == link'.backoff
    <3>1. m \in Nat /\ n \in Nat /\ m <= n
      BY <2>1, U32MaxAssumption
    <3>2. base \in Nat /\ max \in Nat /\ base <= U64Max
      BY <2>1, Configured
    <3> HIDE DEF m, n
    <3>3. Clamped(m) \in Nat /\ Clamped(n) \in Nat /\ Clamped(m) <= Clamped(n)
      BY <3>1, <3>2, ClampedGrows
    <3>4. Clamped(n) < Clamped(m)
      BY DEF m, n
    <3> QED
      BY <3>3, <3>4
  <2>3. CASE Publish
    BY <2>1, <2>2, <2>3, U32MaxAssumption DEF Publish
  <2>4. CASE HeadSucceeds
    BY <2>1, <2>2, <2>4, HeadStep DEF HeadSucceeds, Answers
  <2>5. CASE GetSucceeds
    <3>1. PICK b \in BOOLEAN : \E d \in Waits(GetBackoff(link, Good, b)) :
            link' = ApplyGetResult(link, Good, 0, b, d)
      BY <2>5 DEF GetSucceeds
    <3>2. link'.phase = "NeedsHead"
      BY <2>1, <3>1, <2>5, GetStep DEF GetSucceeds, Answers
    <3> QED
      BY <3>2, <2>1, <2>5, RequestByPhase DEF GetSucceeds
  <2>6. CASE RequestFails
    <3>1. PICK r \in Bad :
            \/ \E d \in Waits(HeadBackoff(link, r)) : link' = ApplyHeadResult(link, r, 0, d)
            \/ \E d \in Waits(GetBackoff(link, r, FALSE)) : link' = ApplyGetResult(link, r, 0, FALSE, d)
      BY <2>6 DEF RequestFails
    <3>2. r \in Answers /\ FALSE \in BOOLEAN /\ r # Good
      BY <2>1, AnswerTypes DEF Answers
    <3>3. UNCHANGED configVars
      BY <2>6 DEF RequestFails
    <3> QED
      BY <2>1, <2>2, <3>1, <3>2, <3>3, HeadStep, GetStep
  <2> QED
    BY <2>3, <2>4, <2>5, <2>6 DEF Next
<1> QED
  BY <1>1, Invariance, PTL DEF Spec, OnlyChangeSpeedsUp

----------------------------------------------------------------------------
(* Backlog: the order of the due feeds and their places. *)

LEMMA FeedSets ==
  ASSUME NEW S \in SUBSET Feeds
  PROVE  IsFiniteSet(S) /\ Cardinality(S) \in Nat /\ Cardinality(S) <= Cardinality(Feeds)
<1>1. IsFiniteSet(S) /\ Cardinality(S) <= Cardinality(Feeds)
  BY FS_Subset, BacklogAssumption
<1> QED
  BY <1>1, FS_CardinalityType

\* What the query returns is part of the line, as large as the limit allows, and
\* leaves out nothing that sorts before a feed it contains.
LEMMA TakenIsFirst ==
  ASSUME NEW line \in SUBSET Feeds, NEW before, NEW some \in Taken(line, before)
  PROVE  /\ some \subseteq line
         /\ Cardinality(some) <= Limit
         /\ some # line => Cardinality(some) = Limit
         /\ \A f \in some : before[f] \subseteq some
<1>1. /\ some \subseteq line /\ Cardinality(some) = Size(Cardinality(line))
      /\ \A f \in some : before[f] \subseteq some
  BY DEF Taken
<1>2. Cardinality(line) \in Nat /\ IsFiniteSet(line)
  BY FeedSets
<1>3. Limit \in Nat
  BY BacklogAssumption
<1>4. some # line => Cardinality(some) # Cardinality(line)
  BY <1>1, <1>2, FS_Subset
<1> QED
  BY <1>1, <1>2, <1>3, <1>4 DEF Size

\* A set of instants that are not equal orders the feeds.
LEMMA OrderedInit == BacklogInit => Ordered
<1> SUFFICES ASSUME BacklogInit PROVE Ordered
  OBVIOUS
<1>1. PICK at \in [Feeds -> 1..Cardinality(Feeds)] :
        ahead = [f \in Feeds |-> IF f \in Due THEN {g \in Due : at[g] < at[f]} ELSE {}]
  BY DEF BacklogInit
<1>2. \A f \in Feeds : at[f] \in Int
  BY <1>1, FeedSets
<1>3. Due \subseteq Feeds
  BY DEF Due
<1>4. \A f \in Feeds : ahead[f] = IF f \in Due THEN {g \in Due : at[g] < at[f]} ELSE {}
  BY <1>1
<1> SUFFICES ASSUME NEW f \in Feeds
             PROVE  /\ ahead[f] \subseteq Due \ {f}
                    /\ f \notin Due => ahead[f] = {}
                    /\ \A g \in ahead[f] : ahead[g] \subseteq ahead[f]
                    /\ f \in Due => \A g \in Due :
                         g \in ahead[f] \/ f \in ahead[g] \/ ahead[f] = ahead[g]
  BY DEF Ordered
<1>5. ahead[f] \subseteq Due \ {f} /\ (f \notin Due => ahead[f] = {})
  <2>1. f \notin Due => ahead[f] = {}
    BY <1>4
  <2>2. ASSUME NEW g \in ahead[f] PROVE g \in Due \ {f}
    <3>1. g \in Due /\ at[g] < at[f]
      BY <1>4, <2>2
    <3>2. ~(at[f] < at[f])
      BY <1>2
    <3> QED
      BY <3>1, <3>2
  <2> QED
    BY <2>1, <2>2
<1>6. ASSUME NEW g \in ahead[f], NEW h \in ahead[g]
      PROVE  h \in ahead[f]
  <2>1. f \in Due /\ g \in Due /\ g \in Feeds
    BY <1>3, <1>4, <1>6
  <2>2. h \in Due /\ h \in Feeds /\ at[h] < at[g] /\ at[g] < at[f]
    BY <1>3, <1>4, <1>6, <2>1
  <2>3. at[h] < at[f]
    BY <1>2, <2>1, <2>2
  <2>4. ahead[f] = {x \in Due : at[x] < at[f]}
    BY <1>4, <2>1
  <2> QED
    BY <2>2, <2>3, <2>4
<1>7. ASSUME f \in Due, NEW g \in Due
      PROVE  g \in ahead[f] \/ f \in ahead[g] \/ ahead[f] = ahead[g]
  <2>1. g \in Feeds /\ (at[g] < at[f] \/ at[f] < at[g] \/ at[f] = at[g])
    BY <1>2, <1>3
  <2>2. ahead[f] = {x \in Due : at[x] < at[f]} /\ ahead[g] = {x \in Due : at[x] < at[g]}
    BY <1>4, <1>7, <2>1
  <2>3. CASE at[f] = at[g]
    BY <2>2, <2>3
  <2> QED
    BY <2>1, <2>2, <2>3, <1>7
<1> QED
  BY <1>5, <1>6, <1>7

\* Feeds whose instant comes together join the order, at its end or in between.
LEMMA OrderedInsert ==
  ASSUME BacklogTypeOK, NEW now \in SUBSET asleep, NEW before \in SUBSET Due, NEW level \in SUBSET Due,
         \A g \in Due \ before : before \subseteq ahead[g],
         level \in {{}, {g \in Due \ before : ahead[g] = before}},
         asleep' = asleep \ now, ahead' = Inserted(now, before, level), UNCHANGED <<fresh, excluded>>
  PROVE  /\ Due' = Due \cup now /\ Due \cap now = {}
         /\ ahead' \in [Feeds -> SUBSET Feeds]
         /\ Ordered'
<1>1. /\ Due \subseteq Feeds /\ now \subseteq Feeds /\ Due' = Due \cup now /\ Due \cap now = {}
  BY DEF BacklogTypeOK, Due
<1> DEFINE rest == Due \ (before \cup level)
<1>2. \A f \in Feeds : /\ f \in now => ahead'[f] = before
                       /\ f \in rest => ahead'[f] = ahead[f] \cup now
                       /\ f \notin now \cup rest => ahead'[f] = ahead[f]
  BY <1>1 DEF Inserted
<1>3. ahead' \in [Feeds -> SUBSET Feeds]
  <2>1. \A f \in Feeds : ahead'[f] \subseteq Feeds
    BY <1>1, <1>2 DEF BacklogTypeOK
  <2>2. ahead' = [f \in Feeds |-> ahead'[f]]
    BY DEF Inserted
  <2> QED
    BY <2>1, <2>2
<1>4. \A f \in Feeds :
        /\ ahead[f] \subseteq Due \ {f}
        /\ f \notin Due => ahead[f] = {}
        /\ \A g \in ahead[f] : ahead[g] \subseteq ahead[f]
        /\ f \in Due => \A g \in Due : g \in ahead[f] \/ f \in ahead[g] \/ ahead[f] = ahead[g]
  BY DEF BacklogTypeOK, Ordered
<1>5. \A g \in before : ahead[g] \subseteq before
  <2> SUFFICES ASSUME NEW g \in before, NEW h \in ahead[g], h \notin before PROVE FALSE
    OBVIOUS
  <2>1. g \in Feeds /\ h \in Due /\ h \in Feeds
    BY <1>1, <1>4
  <2>2. g \in ahead[h]
    BY <2>1
  <2>3. g \in ahead[g]
    BY <2>1, <2>2, <1>4
  <2> QED
    BY <2>1, <2>3, <1>4
<1>6. /\ level \cap before = {}
      /\ \A g \in level : ahead[g] = before
      /\ \A g \in rest : before \subseteq ahead[g]
      /\ level # {} => \A g \in rest : ahead[g] # before
  OBVIOUS
<1>7. before \subseteq Feeds /\ level \subseteq Feeds /\ rest \subseteq Feeds /\ rest \subseteq Due
  BY <1>1
<1>8. \A f \in Due : f \in before \/ f \in level \/ f \in rest
  OBVIOUS
<1>9. rest \cap (before \cup level) = {}
  OBVIOUS
<1> HIDE DEF rest
<1>10. ASSUME NEW f \in Feeds
       PROVE  /\ ahead'[f] \subseteq Due' \ {f}
              /\ f \notin Due' => ahead'[f] = {}
              /\ \A g \in ahead'[f] : ahead'[g] \subseteq ahead'[f]
              /\ f \in Due' => \A g \in Due' :
                   g \in ahead'[f] \/ f \in ahead'[g] \/ ahead'[f] = ahead'[g]
  <2>1. ahead'[f] \subseteq Due' \ {f}
    <3>1. CASE f \in now
      BY <3>1, <1>1, <1>2
    <3>2. CASE f \notin now
      BY <3>2, <1>1, <1>2, <1>4, <1>7
    <3> QED
      BY <3>1, <3>2
  <2>2. f \notin Due' => ahead'[f] = {}
    BY <1>1, <1>2, <1>4, <1>7
  <2>3. ASSUME NEW g \in ahead'[f] PROVE ahead'[g] \subseteq ahead'[f]
    <3>1. g \in Feeds
      BY <2>1, <2>3, <1>1
    <3>2. CASE f \in now
      <4>1. g \in before /\ ahead'[f] = before
        BY <3>2, <2>3, <1>2
      <4>2. ahead'[g] = ahead[g]
        BY <4>1, <3>1, <1>1, <1>2, <1>9
      <4> QED
        BY <4>1, <4>2, <1>5
    <3>3. CASE f \in rest
      <4>1. ahead'[f] = ahead[f] \cup now
        BY <3>3, <1>2
      <4>2. CASE g \in now
        BY <4>1, <4>2, <3>1, <3>3, <1>2, <1>6
      <4>3. CASE g \notin now
        <5>1. g \in ahead[f] /\ ahead[g] \subseteq ahead[f]
          BY <4>1, <4>3, <2>3, <1>4
        <5>2. ahead'[g] \subseteq ahead[g] \cup now
          BY <3>1, <4>3, <1>2
        <5> QED
          BY <4>1, <5>1, <5>2
      <4> QED
        BY <4>2, <4>3
    <3>4. CASE f \notin now /\ f \notin rest
      <4>1. ahead'[f] = ahead[f] /\ g \in ahead[f] /\ g \in Due /\ g \notin now
        BY <3>4, <2>3, <1>1, <1>2, <1>4
      <4>2. f \in before \/ f \in level
        BY <4>1, <3>4, <1>4, <1>8
      <4>3. g \in before
        BY <4>1, <4>2, <1>5, <1>6
      <4>4. ahead'[g] = ahead[g]
        BY <4>1, <4>3, <3>1, <1>2, <1>9
      <4> QED
        BY <4>1, <4>4, <1>4
    <3> QED
      BY <3>2, <3>3, <3>4
  <2>4. ASSUME f \in Due', NEW g \in Due'
        PROVE  g \in ahead'[f] \/ f \in ahead'[g] \/ ahead'[f] = ahead'[g]
    <3>1. g \in Feeds /\ (f \in Due \/ f \in now) /\ (g \in Due \/ g \in now)
      BY <2>4, <1>1
    <3>2. ASSUME NEW x \in now, NEW y \in Due
          PROVE  y \in ahead'[x] \/ x \in ahead'[y] \/ ahead'[x] = ahead'[y]
      <4>1. x \in Feeds /\ y \in Feeds /\ y \notin now /\ ahead'[x] = before
        BY <1>1, <1>2
      <4>2. CASE y \in before
        BY <4>1, <4>2
      <4>3. CASE y \in level
        BY <4>1, <4>3, <1>2, <1>6, <1>9
      <4>4. CASE y \in rest
        BY <4>1, <4>4, <1>2
      <4> QED
        BY <4>2, <4>3, <4>4, <1>8
    <3>3. CASE f \in now /\ g \in now
      BY <3>1, <3>3, <1>2
    <3>4. CASE f \in now /\ g \in Due
      BY <3>2, <3>4
    <3>5. CASE f \in Due /\ g \in now
      BY <3>2, <3>5
    <3>6. CASE f \in Due /\ g \in Due
      <4>1. ahead[f] \subseteq ahead'[f] /\ ahead[g] \subseteq ahead'[g]
        BY <3>1, <3>6, <1>1, <1>2
      <4>2. g \in ahead[f] \/ f \in ahead[g] \/ ahead[f] = ahead[g]
        BY <3>1, <3>6, <1>4
      <4>3. ASSUME g \notin ahead[f], f \notin ahead[g], ahead[f] = ahead[g]
            PROVE  f \in rest <=> g \in rest
        <5>1. f \in before => g \in before
          BY <4>3, <3>6
        <5>2. g \in before => f \in before
          BY <4>3, <3>6
        <5>3. f \in level /\ g \in rest => FALSE
          BY <4>3, <1>6
        <5>4. g \in level /\ f \in rest => FALSE
          BY <4>3, <1>6
        <5> QED
          BY <5>1, <5>2, <5>3, <5>4, <3>6, <1>8, <1>9
      <4>4. f \notin now /\ g \notin now
        BY <3>6, <1>1
      <4> QED
        BY <4>1, <4>2, <4>3, <4>4, <3>1, <1>2
    <3> QED
      BY <3>1, <3>3, <3>4, <3>5, <3>6
  <2>5. \A g \in ahead'[f] : ahead'[g] \subseteq ahead'[f]
    BY <2>3
  <2> QED
    BY <2>1, <2>2, <2>4, <2>5
<1> QED
  BY <1>1, <1>3, <1>10 DEF Ordered

LEMMA OrderedJoin ==
  ASSUME BacklogTypeOK, NEW now \in SUBSET asleep,
         asleep' = asleep \ now, ahead' = Joined(now), UNCHANGED <<fresh, excluded>>
  PROVE  /\ Due' = Due \cup now /\ Due \cap now = {}
         /\ ahead' \in [Feeds -> SUBSET Feeds]
         /\ Ordered'
<1> DEFINE none == {}
<1>1. ahead' = Inserted(now, Due, none) /\ Due \in SUBSET Due /\ none \in SUBSET Due
  BY DEF Joined
<1>2. \A g \in Due \ Due : Due \subseteq ahead[g]
  OBVIOUS
<1>3. none \in {{}, {g \in Due \ Due : ahead[g] = Due}}
  OBVIOUS
<1> HIDE DEF none
<1> QED
  BY <1>1, <1>2, <1>3, OrderedInsert

\* What the order at the end of the others is.
LEMMA JoinedIs ==
  ASSUME BacklogTypeOK, NEW now \in SUBSET asleep, NEW f \in Feeds
  PROVE  Joined(now)[f] = IF f \in now THEN Due ELSE ahead[f]
  BY DEF Joined, Inserted

\* A feed that wakes goes behind the feeds that are not recent, whose places stay.
LEMMA WakeStep ==
  ASSUME BacklogTypeOK, NEW now \in SUBSET asleep, Wake(now)
  PROVE  /\ Due' = Due \cup now /\ Due \cap now = {}
         /\ ahead' \in [Feeds -> SUBSET Feeds]
         /\ Ordered'
         /\ \A f \in Due, g \in Feeds :
              /\ f \in ahead[g] => f \in ahead'[g]
              /\ f \notin recent /\ g \in now => f \in ahead'[g]
<1>1. Due \subseteq Feeds /\ now \subseteq Feeds /\ Due \cap now = {}
  BY DEF BacklogTypeOK, Due
<1>2. asleep' = asleep \ now /\ UNCHANGED <<fresh, excluded>>
  BY DEF Wake
<1>3. CASE ahead' = Joined(now)
  <2>1. \A g \in Feeds : ahead'[g] = IF g \in now THEN Due ELSE ahead[g]
    BY <1>3, JoinedIs
  <2>2. \A g \in now : ahead[g] = {}
    BY <1>1 DEF BacklogTypeOK, Ordered
  <2> QED
    BY <1>1, <1>2, <1>3, <2>1, <2>2, OrderedJoin
<1>4. ASSUME NEW before \in SUBSET Due, NEW level \in SUBSET Due,
             InBetween(before, level), ahead' = Inserted(now, before, level)
      PROVE  /\ Due' = Due \cup now
             /\ ahead' \in [Feeds -> SUBSET Feeds]
             /\ Ordered'
             /\ \A f \in Due, g \in Feeds :
                  /\ f \in ahead[g] => f \in ahead'[g]
                  /\ f \notin recent /\ g \in now => f \in ahead'[g]
  <2>1. /\ \A g \in Due \ before : before \subseteq ahead[g]
        /\ level \in {{}, {g \in Due \ before : ahead[g] = before}}
        /\ Due \ recent \subseteq before
    BY <1>4 DEF InBetween
  <2>2. Due' = Due \cup now /\ ahead' \in [Feeds -> SUBSET Feeds] /\ Ordered'
    BY <1>2, <1>4, <2>1, OrderedInsert
  <2>3. \A g \in now : ahead[g] = {}
    BY <1>1 DEF BacklogTypeOK, Ordered
  <2>4. \A g \in Feeds : /\ g \in now => ahead'[g] = before
                         /\ g \notin now => ahead[g] \subseteq ahead'[g]
    BY <1>1, <1>4 DEF Inserted
  <2> QED
    BY <2>1, <2>2, <2>3, <2>4
<1> QED
  BY <1>1, <1>3, <1>4 DEF Wake

\* A processed feed leaves the order.
LEMMA OrderedLeave ==
  ASSUME BacklogTypeOK, NEW f \in Feeds, Processed(f)
  PROVE  /\ Due' = Due \ {f}
         /\ ahead' \in [Feeds -> SUBSET Feeds]
         /\ Ordered'
<1>1. Due \subseteq Feeds /\ Due' = Due \ {f}
  BY DEF BacklogTypeOK, Due, Processed
<1>2. \A g \in Feeds : ahead'[g] = IF g = f THEN {} ELSE ahead[g] \ {f}
  BY DEF Processed
<1>3. ahead' \in [Feeds -> SUBSET Feeds]
  BY DEF BacklogTypeOK, Processed
<1>4. \A g \in Feeds :
        /\ ahead[g] \subseteq Due \ {g}
        /\ g \notin Due => ahead[g] = {}
        /\ \A h \in ahead[g] : ahead[h] \subseteq ahead[g]
        /\ g \in Due => \A h \in Due : h \in ahead[g] \/ g \in ahead[h] \/ ahead[g] = ahead[h]
  BY DEF BacklogTypeOK, Ordered
<1>5. ASSUME NEW g \in Feeds
      PROVE  /\ ahead'[g] \subseteq Due' \ {g}
             /\ g \notin Due' => ahead'[g] = {}
             /\ \A h \in ahead'[g] : ahead'[h] \subseteq ahead'[g]
             /\ g \in Due' => \A h \in Due' :
                  h \in ahead'[g] \/ g \in ahead'[h] \/ ahead'[g] = ahead'[h]
  <2>1. ahead'[g] \subseteq Due' \ {g} /\ (g \notin Due' => ahead'[g] = {})
    <3>1. CASE g = f
      BY <3>1, <1>2
    <3>2. CASE g # f
      <4>1. ahead'[g] = ahead[g] \ {f}
        BY <3>2, <1>2
      <4>2. ahead[g] \subseteq Due \ {g} /\ (g \notin Due => ahead[g] = {})
        BY <1>4
      <4> QED
        BY <4>1, <4>2, <3>2, <1>1
    <3> QED
      BY <3>1, <3>2
  <2>2. ASSUME NEW h \in ahead'[g]
        PROVE  ahead'[h] \subseteq ahead'[g]
    <3>1. g # f /\ ahead'[g] = ahead[g] \ {f}
      BY <2>2, <1>2
    <3>2. h \in ahead[g] /\ h # f
      BY <2>2, <3>1
    <3>3. h \in Feeds /\ ahead[h] \subseteq ahead[g]
      BY <3>2, <1>1, <1>4
    <3>4. ahead'[h] = ahead[h] \ {f}
      BY <3>2, <3>3, <1>2
    <3> QED
      BY <3>1, <3>3, <3>4
  <2>3. \A h \in ahead'[g] : ahead'[h] \subseteq ahead'[g]
    BY <2>2
  <2>4. ASSUME g \in Due', NEW h \in Due'
        PROVE  h \in ahead'[g] \/ g \in ahead'[h] \/ ahead'[g] = ahead'[h]
    <3>1. h \in Feeds /\ h # f /\ g # f /\ g \in Due /\ h \in Due
      BY <2>4, <1>1
    <3>2. ahead'[g] = ahead[g] \ {f} /\ ahead'[h] = ahead[h] \ {f}
      BY <3>1, <1>2
    <3>3. h \in ahead[g] \/ g \in ahead[h] \/ ahead[g] = ahead[h]
      BY <3>1, <1>4
    <3> QED
      BY <3>1, <3>2, <3>3
  <2> QED
    BY <2>1, <2>3, <2>4
<1> QED
  BY <1>1, <1>3, <1>5 DEF Ordered

LEMMA BacklogTypeInit == BacklogInit => BacklogTypeOK
<1> SUFFICES ASSUME BacklogInit PROVE BacklogTypeOK
  OBVIOUS
<1>1. Cardinality({}) = 0 /\ Limit \in Nat
  BY FS_EmptySet, BacklogAssumption
<1>2. PICK at \in [Feeds -> 1..Cardinality(Feeds)] :
        ahead = [f \in Feeds |-> IF f \in Due THEN {g \in Due : at[g] < at[f]} ELSE {}]
  BY DEF BacklogInit
<1>3. ahead \in [Feeds -> SUBSET Feeds]
  BY <1>2 DEF Due
<1>4. Ordered
  BY OrderedInit
<1>5. /\ fresh \subseteq Feeds /\ asleep \subseteq Feeds /\ excluded = {}
      /\ fresh \cap asleep = {} /\ batch = {} /\ recent = {}
      /\ missed \in [Feeds -> Nat]
  BY DEF BacklogInit
<1> QED
  BY <1>1, <1>3, <1>4, <1>5 DEF BacklogTypeOK

\* What a tick does, for the feeds that wake just then.
LEMMA TickStep ==
  ASSUME BacklogTypeOK, Tick
  PROVE  \E now \in SUBSET asleep :
           /\ batch = {} /\ asleep' = asleep \ now /\ ahead' = Joined(now) /\ recent' = {}
           /\ UNCHANGED <<fresh, excluded>>
           /\ Due' = Due \cup now
           /\ batch' \subseteq Due \cup now \cup fresh
           /\ Cardinality(batch') <= Limit
           /\ batch' # Due \cup now \cup fresh => Cardinality(batch') = Limit
           /\ \A f \in batch' : IF f \in now \cup fresh THEN Due \subseteq batch' ELSE ahead[f] \subseteq batch'
           /\ missed' = [f \in Feeds |-> IF f \in (Due \cup now) \ batch' THEN missed[f] + 1 ELSE 0]
<1>1. PICK now \in SUBSET asleep :
        /\ batch = {}
        /\ batch' \in Taken(Due \cup now \cup fresh,
                            [f \in Due \cup now \cup fresh |-> IF f \in fresh THEN Due ELSE Joined(now)[f]])
        /\ asleep' = asleep \ now /\ ahead' = Joined(now) /\ recent' = {}
        /\ missed' = [f \in Feeds |-> IF f \in (Due \cup now) \ batch' THEN missed[f] + 1 ELSE 0]
        /\ UNCHANGED <<fresh, excluded>>
  BY DEF Tick, WithoutRow
<1> DEFINE line == Due \cup now \cup fresh
           before == [f \in line |-> IF f \in fresh THEN Due ELSE Joined(now)[f]]
<1>2. line \in SUBSET Feeds
  BY DEF Due, BacklogTypeOK
<1>3. \A f \in line : before[f] = IF f \in now \cup fresh THEN Due ELSE ahead[f]
  BY <1>2, JoinedIs
<1> HIDE DEF before
<1>4. batch' \in Taken(line, before)
  BY <1>1 DEF before
<1> HIDE DEF line
<1>5. /\ batch' \subseteq line /\ Cardinality(batch') <= Limit
      /\ batch' # line => Cardinality(batch') = Limit
      /\ \A f \in batch' : before[f] \subseteq batch'
  BY <1>2, <1>4, TakenIsFirst
<1>6. \A f \in batch' : IF f \in now \cup fresh THEN Due \subseteq batch' ELSE ahead[f] \subseteq batch'
  BY <1>3, <1>5
<1>7. Due' = Due \cup now
  BY <1>1, OrderedJoin
<1> QED
  BY <1>1, <1>5, <1>6, <1>7 DEF line

LEMMA BacklogTypeNext == BacklogTypeOK /\ [BacklogNext]_backlogVars => BacklogTypeOK'
<1> SUFFICES ASSUME BacklogTypeOK, [BacklogNext]_backlogVars PROVE BacklogTypeOK'
  OBVIOUS
<1>1. CASE Tick
  <2>1. PICK now \in SUBSET asleep :
           /\ asleep' = asleep \ now /\ ahead' = Joined(now) /\ recent' = {}
           /\ UNCHANGED <<fresh, excluded>>
           /\ Due' = Due \cup now
           /\ batch' \subseteq Due \cup now \cup fresh
           /\ Cardinality(batch') <= Limit
           /\ missed' = [f \in Feeds |-> IF f \in (Due \cup now) \ batch' THEN missed[f] + 1 ELSE 0]
    BY <1>1, TickStep
  <2>2. ahead' \in [Feeds -> SUBSET Feeds] /\ Ordered'
    BY <2>1, OrderedJoin
  <2>3. missed' \in [Feeds -> Nat]
    BY <2>1 DEF BacklogTypeOK
  <2> QED
    BY <2>1, <2>2, <2>3 DEF BacklogTypeOK
<1>2. ASSUME NEW f \in Feeds, Processed(f) PROVE BacklogTypeOK'
  <2>1. Due' = Due \ {f} /\ ahead' \in [Feeds -> SUBSET Feeds] /\ Ordered'
    BY <1>2, OrderedLeave
  <2>2. batch' \in SUBSET batch /\ batch \in SUBSET Feeds
    BY <1>2 DEF Processed, BacklogTypeOK, Due
  <2>3. IsFiniteSet(batch) /\ Cardinality(batch) \in Nat /\ Cardinality(batch') \in Nat
    BY <2>2, FeedSets
  <2>4. Cardinality(batch') <= Limit
    <3>1. Cardinality(batch') <= Cardinality(batch)
      BY <2>2, <2>3, FS_Subset
    <3> QED
      BY <3>1, <2>3, BacklogAssumption DEF BacklogTypeOK
  <2>5. batch' \subseteq Due' \cup fresh'
    BY <1>2, <2>1 DEF Processed, BacklogTypeOK
  <2> QED
    BY <1>2, <2>1, <2>4, <2>5 DEF Processed, BacklogTypeOK, Due
<1>3. ASSUME NEW f \in Feeds, Fails(f) PROVE BacklogTypeOK'
  <2>2. batch' \in SUBSET batch /\ batch \in SUBSET Feeds
    BY <1>3 DEF Fails, BacklogTypeOK, Due
  <2>3. IsFiniteSet(batch) /\ Cardinality(batch) \in Nat /\ Cardinality(batch') \in Nat
    BY <2>2, FeedSets
  <2>4. Cardinality(batch') <= Limit
    <3>1. Cardinality(batch') <= Cardinality(batch)
      BY <2>2, <2>3, FS_Subset
    <3> QED
      BY <3>1, <2>3, BacklogAssumption DEF BacklogTypeOK
  <2>5. Due' = Due /\ UNCHANGED <<fresh, asleep, excluded, ahead, recent, missed>>
    BY <1>3 DEF Fails, Due
  <2>6. Ordered'
    BY <2>5 DEF Ordered, BacklogTypeOK
  <2> QED
    BY <2>2, <2>4, <2>5, <2>6 DEF BacklogTypeOK
<1>4. ASSUME NEW now \in SUBSET asleep, Wake(now) PROVE BacklogTypeOK'
  <2>1. Due' = Due \cup now /\ ahead' \in [Feeds -> SUBSET Feeds] /\ Ordered'
    BY <1>4, WakeStep
  <2>2. recent' \subseteq Feeds
    BY <1>4 DEF Wake, BacklogTypeOK
  <2> QED
    BY <1>4, <2>1, <2>2 DEF Wake, BacklogTypeOK
<1>5. CASE UNCHANGED backlogVars
  BY <1>5 DEF backlogVars, BacklogTypeOK, Ordered, Due
<1> QED
  BY <1>1, <1>2, <1>3, <1>4, <1>5 DEF BacklogNext, Work

----------------------------------------------------------------------------
(***************************************************************************)
(* Backlog: how long a due feed waits.  Each tick that leaves it out fills *)
(* its batch with feeds due no later.  Those that do not fail are behind   *)
(* it from then on, so there are fewer rivals for the next tick.           *)
(***************************************************************************)

\* The due feeds with a row that no tick works on.
Waiting == Due \ batch

\* How many places of a batch without f are left by feeds that keep failing.
Share(f) == Limit - Cardinality(Poison \ {f})

\* The waiting feeds that the query may take before f, but for the failing ones.
Rivals(f) == {g \in Waiting \ Poison : g # f /\ f \notin ahead[g]}

Others(f) == Feeds \ (Poison \cup {f})

PatienceOf(f) ==
  IF f \in Waiting THEN missed[f] * Share(f) + Cardinality(Rivals(f)) <= Cardinality(Others(f))
  ELSE missed[f] = 0

Patience == \A f \in Feeds : PatienceOf(f)

\* A feed that was polled, or came due, since the last tick was not left out by it.
Unmissed == \A f \in recent : missed[f] = 0

LEMMA ShareType ==
  ASSUME NEW f \in Feeds
  PROVE  /\ Share(f) \in Nat /\ Cardinality(Others(f)) \in Nat
         /\ Cardinality(Poison \ {f}) \in Nat /\ Cardinality(Poison \ {f}) <= Cardinality(Poison)
<1>1. Poison \in SUBSET Feeds /\ Poison \ {f} \in SUBSET Poison /\ Poison \ {f} \in SUBSET Feeds
      /\ Others(f) \in SUBSET Feeds
  BY BacklogAssumption DEF Others
<1>2. /\ Cardinality(Poison) \in Nat /\ Cardinality(Poison \ {f}) \in Nat
      /\ Cardinality(Others(f)) \in Nat /\ IsFiniteSet(Poison)
  BY <1>1, FeedSets
<1>3. Cardinality(Poison \ {f}) <= Cardinality(Poison)
  BY <1>1, <1>2, FS_Subset
<1> QED
  BY <1>2, <1>3, BacklogAssumption DEF Share

\* One more miss is paid for by the rivals that were taken.
LEMMA OneMissMore ==
  ASSUME NEW m \in Nat, NEW s \in Nat, NEW n \in Nat, NEW r \in Nat, NEW t \in Nat, NEW q \in Nat,
         m * s + r <= n, t + q <= r, s <= t
  PROVE  (m + 1) * s + q <= n
<1>1. m * s \in Nat /\ (m + 1) * s = m * s + s
  OBVIOUS
<1> DEFINE p == m * s
<1>2. p \in Nat /\ p + r <= n /\ (m + 1) * s = p + s
  BY <1>1
<1> HIDE DEF p
<1> QED
  BY <1>2

\* A full batch without f takes Share(f) feeds at least that do not fail.
LEMMA TakenOthers ==
  ASSUME NEW f \in Feeds, NEW some \in SUBSET Feeds, f \notin some, Cardinality(some) = Limit
  PROVE  /\ IsFiniteSet(some \ Poison)
         /\ Cardinality(some \ Poison) \in Nat
         /\ Share(f) <= Cardinality(some \ Poison)
<1> DEFINE good == some \ Poison
           bad == some \cap Poison
<1>1. good \in SUBSET Feeds /\ bad \in SUBSET Feeds /\ Poison \ {f} \in SUBSET Feeds
      /\ bad \in SUBSET (Poison \ {f})
  BY BacklogAssumption
<1>2. /\ IsFiniteSet(good) /\ Cardinality(good) \in Nat
      /\ IsFiniteSet(bad) /\ Cardinality(bad) \in Nat
      /\ IsFiniteSet(Poison \ {f}) /\ Cardinality(Poison \ {f}) \in Nat
  BY <1>1, FeedSets
<1>3. Cardinality(bad) <= Cardinality(Poison \ {f})
  BY <1>1, <1>2, FS_Subset
<1>4. Limit = Cardinality(good) + Cardinality(bad)
  <2>1. some = good \cup bad /\ good \cap bad = {}
    OBVIOUS
  <2>2. Cardinality(good \cap bad) = 0
    BY <2>1, FS_EmptySet
  <2>3. Cardinality(good \cup bad) = Cardinality(good) + Cardinality(bad) - Cardinality(good \cap bad)
    BY <1>2, FS_Union
  <2> HIDE DEF good, bad
  <2>4. Cardinality(some) = Cardinality(good) + Cardinality(bad) - Cardinality(good \cap bad)
    BY <2>1, <2>3
  <2> QED
    BY <2>2, <2>4, <1>2
<1>5. Share(f) = Limit - Cardinality(Poison \ {f}) /\ Limit \in Nat
  BY BacklogAssumption DEF Share
<1> QED
  BY <1>2, <1>3, <1>4, <1>5

\* Two disjoint parts of a set of feeds.
LEMMA Parts ==
  ASSUME NEW U \in SUBSET Feeds, NEW S \in SUBSET U, NEW T \in SUBSET U, S \cap T = {}
  PROVE  /\ Cardinality(S) \in Nat /\ Cardinality(T) \in Nat /\ Cardinality(U) \in Nat
         /\ Cardinality(S) + Cardinality(T) <= Cardinality(U)
<1>1. S \in SUBSET Feeds /\ T \in SUBSET Feeds /\ S \cup T \in SUBSET U /\ S \cup T \in SUBSET Feeds
  OBVIOUS
<1>2. /\ IsFiniteSet(S) /\ IsFiniteSet(T) /\ IsFiniteSet(U)
      /\ Cardinality(S) \in Nat /\ Cardinality(T) \in Nat /\ Cardinality(U) \in Nat
  BY <1>1, FeedSets
<1>3. Cardinality(S \cup T) <= Cardinality(U)
  BY <1>1, <1>2, FS_Subset
<1>4. Cardinality(S \cup T) = Cardinality(S) + Cardinality(T) - Cardinality(S \cap T)
  BY <1>2, FS_Union
<1>5. Cardinality(S \cap T) = 0
  BY FS_EmptySet
<1> QED
  BY <1>2, <1>3, <1>4, <1>5

LEMMA PatienceInit == BacklogInit => Patience
<1> SUFFICES ASSUME BacklogInit, NEW f \in Feeds PROVE PatienceOf(f)
  BY DEF Patience
<1>1. missed[f] = 0
  BY DEF BacklogInit
<1>2. Rivals(f) \in SUBSET Others(f) /\ Others(f) \in SUBSET Feeds /\ {} \in SUBSET Others(f)
  BY DEF Rivals, Others, Waiting, Due
<1>3. /\ Cardinality(Rivals(f)) \in Nat /\ Cardinality(Others(f)) \in Nat
      /\ Cardinality(Rivals(f)) + Cardinality({}) <= Cardinality(Others(f))
  BY <1>2, Parts
<1>4. Cardinality(Rivals(f)) <= Cardinality(Others(f))
  BY <1>3, FS_EmptySet
<1>5. Share(f) \in Nat
  BY ShareType
<1>6. missed[f] * Share(f) = 0
  BY <1>1, <1>5
<1> QED
  BY <1>1, <1>3, <1>4, <1>6 DEF PatienceOf

\* A feed that was not left out yet has as many rivals as there are feeds at most.
LEMMA PatienceReturned ==
  ASSUME NEW f \in Feeds, f \in Waiting', missed'[f] = 0
  PROVE  PatienceOf(f)'
<1> DEFINE R == Rivals(f)'
<1>1. R \in SUBSET Others(f) /\ {} \in SUBSET Others(f) /\ Others(f) \in SUBSET Feeds
  BY DEF Rivals, Others, Waiting, Due
<1>2. /\ Cardinality(R) \in Nat /\ Cardinality(Others(f)) \in Nat
      /\ Cardinality(R) + Cardinality({}) <= Cardinality(Others(f))
  BY <1>1, Parts
<1>3. Cardinality(R) <= Cardinality(Others(f))
  BY <1>2, FS_EmptySet
<1>4. Share(f) \in Nat
  BY ShareType
<1>5. missed'[f] * Share(f) = 0
  BY <1>4
<1>6. PatienceOf(f)' <=> (missed'[f] * Share(f) + Cardinality(R) <= Cardinality(Others(f)))
  BY DEF PatienceOf, Share, Others
<1> QED
  BY <1>2, <1>3, <1>5, <1>6

\* The bound on f is kept by a step that does not change how often f was left
\* out and adds no rival.
LEMMA PatienceKept ==
  ASSUME BacklogTypeOK, NEW f \in Feeds, PatienceOf(f),
         f \in Waiting', f \in Waiting, missed'[f] = missed[f],
         NEW R, R = Rivals(f)', R \subseteq Rivals(f)
  PROVE  PatienceOf(f)'
<1>1. Rivals(f) \in SUBSET Feeds /\ R \in SUBSET Rivals(f) /\ {} \in SUBSET Rivals(f)
  BY DEF Rivals, Waiting, Due
<1>2. /\ Cardinality(R) \in Nat /\ Cardinality(Rivals(f)) \in Nat
      /\ Cardinality(R) + Cardinality({}) <= Cardinality(Rivals(f))
  BY <1>1, Parts
<1>3. Cardinality(R) <= Cardinality(Rivals(f))
  BY <1>2, FS_EmptySet
<1>4. Share(f) \in Nat /\ Cardinality(Others(f)) \in Nat /\ missed[f] \in Nat
  BY ShareType DEF BacklogTypeOK
<1> DEFINE p == missed[f] * Share(f)
           n == Cardinality(Others(f))
<1>5. p \in Nat /\ p + Cardinality(Rivals(f)) <= n
  BY <1>4 DEF PatienceOf
<1>6. p + Cardinality(R) <= n
  <2> HIDE DEF p, n
  <2> QED
    BY <1>2, <1>3, <1>4, <1>5 DEF n
<1>7. PatienceOf(f)' <=> (missed'[f] * Share(f) + Cardinality(R) <= Cardinality(Others(f)))
  BY DEF PatienceOf, Share, Others
<1> QED
  BY <1>6, <1>7

\* A tick: if f is left out, the batch is full of feeds due no later.
LEMMA PatienceTick ==
  ASSUME BacklogTypeOK, Patience, Tick, NEW f \in Feeds
  PROVE  PatienceOf(f)'
<1>1. PICK now \in SUBSET asleep :
           /\ batch = {} /\ asleep' = asleep \ now /\ ahead' = Joined(now) /\ recent' = {}
           /\ UNCHANGED <<fresh, excluded>>
           /\ Due' = Due \cup now
           /\ batch' \subseteq Due \cup now \cup fresh
           /\ batch' # Due \cup now \cup fresh => Cardinality(batch') = Limit
           /\ \A g \in batch' : IF g \in now \cup fresh THEN Due \subseteq batch' ELSE ahead[g] \subseteq batch'
           /\ missed' = [g \in Feeds |-> IF g \in (Due \cup now) \ batch' THEN missed[g] + 1 ELSE 0]
  BY TickStep
<1>2. Waiting' = (Due \cup now) \ batch' /\ Waiting = Due /\ Due \subseteq Feeds /\ now \subseteq Feeds
  BY <1>1 DEF Waiting, Due, BacklogTypeOK
<1>3. missed'[f] = IF f \in Waiting' THEN missed[f] + 1 ELSE 0
  BY <1>1, <1>2
<1>4. CASE f \notin Waiting'
  <2>1. missed'[f] = 0
    BY <1>3, <1>4
  <2> QED
    BY <1>4, <2>1 DEF PatienceOf
<1>5. CASE f \in Waiting'
  <2> DEFINE R == Rivals(f)'
             T == batch' \ Poison
             m == missed[f]
             s == Share(f)
             n == Cardinality(Others(f))
             t == Cardinality(T)
             q == Cardinality(R)
  <2>1. f \notin batch' /\ Cardinality(batch') = Limit /\ batch' \in SUBSET Feeds
    BY <1>1, <1>2, <1>5 DEF BacklogTypeOK
  <2>2. s <= t
    BY <2>1, TakenOthers
  <2>3. \A g \in Feeds : ahead'[g] = IF g \in now THEN Due ELSE ahead[g]
    BY <1>1, JoinedIs
  <2>4. R = {g \in Waiting' \ Poison : g # f /\ f \notin ahead'[g]}
    BY DEF Rivals
  <2>5. R \cap T = {}
    BY <2>4, <1>2
  <2>6. R \in SUBSET Others(f) /\ T \in SUBSET Others(f) /\ Others(f) \in SUBSET Feeds
    BY <2>1, <2>4, <1>2 DEF Others
  <2>7. m \in Nat /\ s \in Nat /\ n \in Nat
    BY ShareType DEF BacklogTypeOK
  <2>8. PICK r \in Nat : /\ t \in Nat /\ q \in Nat
                         /\ m * s + r <= n /\ t + q <= r
    <3>1. CASE f \in Due
      <4>1. m * s + Cardinality(Rivals(f)) <= n
        BY <3>1, <1>2 DEF Patience, PatienceOf
      <4>2. R \in SUBSET Rivals(f) /\ T \in SUBSET Rivals(f) /\ Rivals(f) \in SUBSET Feeds
        <5>1. Rivals(f) = {g \in Due \ Poison : g # f /\ f \notin ahead[g]}
          BY <1>2 DEF Rivals
        <5>2. ASSUME NEW g \in R PROVE g \in Rivals(f)
          <6>1. g \in Feeds /\ g \in Due \cup now /\ g \notin Poison /\ g # f /\ f \notin ahead'[g]
            BY <5>2, <2>4, <1>2
          <6>2. g \notin now
            BY <6>1, <2>3, <3>1
          <6> QED
            BY <6>1, <6>2, <5>1, <2>3
        <5>3. ASSUME NEW g \in T PROVE g \in Rivals(f)
          <6>1. g \in batch' /\ g \notin Poison /\ g # f
            BY <5>3, <2>1
          <6>2. g \notin now \cup fresh /\ f \notin ahead[g]
            BY <6>1, <1>1, <2>1, <3>1
          <6> QED
            BY <6>1, <6>2, <5>1, <1>1
        <5> QED
          BY <5>1, <5>2, <5>3, <1>2
      <4>3. /\ t \in Nat /\ q \in Nat /\ Cardinality(Rivals(f)) \in Nat
            /\ q + t <= Cardinality(Rivals(f))
        BY <4>2, <2>5, Parts
      <4> HIDE DEF R, T, m, s, n, t, q
      <4> QED
        BY <4>1, <4>3
    <3>2. CASE f \notin Due
      <4>1. m = 0
        BY <3>2, <1>2 DEF Patience, PatienceOf
      <4>2. t \in Nat /\ q \in Nat /\ q + t <= n
        BY <2>5, <2>6, Parts
      <4> HIDE DEF R, T, m, s, n, t, q
      <4>3. m * s = 0
        BY <4>1, <2>7
      <4> QED
        BY <4>2, <4>3, <2>7
    <3> QED
      BY <3>1, <3>2
  <2>9. (m + 1) * s + q <= n
    <3> HIDE DEF R, T, m, s, n, t, q
    <3> QED
      BY <2>2, <2>7, <2>8, OneMissMore
  <2>10. PatienceOf(f)' <=> (missed'[f] * s + q <= n)
    BY <1>5 DEF PatienceOf, Share, Others
  <2> QED
    BY <2>9, <2>10, <1>3, <1>5
<1> QED
  BY <1>4, <1>5

LEMMA PatienceNext ==
  BacklogTypeOK /\ Patience /\ Unmissed /\ [BacklogNext]_backlogVars => Patience'
<1> SUFFICES ASSUME BacklogTypeOK, Patience, Unmissed, [BacklogNext]_backlogVars, NEW f \in Feeds
             PROVE  PatienceOf(f)'
  BY DEF Patience
<1> USE DEF Patience
<1>1. CASE Tick
  BY <1>1, PatienceTick
<1>2. ASSUME NEW x \in Feeds, Processed(x) PROVE PatienceOf(f)'
  <2>1. Due' = Due \ {x} /\ batch' = batch \ {x} /\ x \in batch /\ missed' = missed
    BY <1>2, OrderedLeave DEF Processed
  <2>2. Waiting' = Waiting /\ x \notin Waiting
    BY <2>1 DEF Waiting
  <2>3. CASE f \in Waiting
    <3>1. \A g \in Waiting : f \in ahead[g] => f \in ahead'[g]
      BY <2>2, <2>3, <1>2 DEF Waiting, Due, Processed
    <3>2. Rivals(f)' \subseteq Rivals(f)
      BY <3>1, <2>2 DEF Rivals
    <3> QED
      BY <3>2, <2>1, <2>2, <2>3, PatienceKept
  <2>4. CASE f \notin Waiting
    BY <2>1, <2>2, <2>4 DEF PatienceOf
  <2> QED
    BY <2>3, <2>4
<1>3. ASSUME NEW x \in Feeds, Fails(x) PROVE PatienceOf(f)'
  <2>1. Due' = Due /\ batch' = batch \ {x} /\ x \in Poison /\ x \in batch /\ missed' = missed /\ ahead' = ahead
    BY <1>3 DEF Fails, Due
  <2>2. Waiting \subseteq Waiting' /\ Waiting' \subseteq Waiting \cup {x}
    BY <2>1 DEF Waiting
  <2>3. CASE f \in Waiting
    <3>1. Rivals(f)' \subseteq Rivals(f)
      BY <2>1, <2>2 DEF Rivals
    <3> QED
      BY <3>1, <2>1, <2>2, <2>3, PatienceKept
  <2>4. CASE f \notin Waiting /\ f \in Waiting'
    <3>1. missed[f] = 0
      BY <2>4 DEF PatienceOf
    <3> QED
      BY <3>1, <2>1, <2>4, PatienceReturned
  <2>5. CASE f \notin Waiting'
    <3>1. missed[f] = 0
      BY <2>2, <2>5 DEF PatienceOf
    <3> QED
      BY <3>1, <2>1, <2>5 DEF PatienceOf
  <2> QED
    BY <2>3, <2>4, <2>5
<1>4. ASSUME NEW now \in SUBSET asleep, Wake(now) PROVE PatienceOf(f)'
  <2>1. Due' = Due \cup now /\ batch' = batch /\ missed' = missed /\ Due \subseteq Feeds /\ now \subseteq Feeds
        /\ Due \cap now = {}
    BY <1>4, WakeStep DEF Wake, Due, BacklogTypeOK
  <2>2. Waiting \subseteq Waiting' /\ Waiting' \subseteq Waiting \cup now
    BY <2>1 DEF Waiting
  <2>3. CASE f \in Waiting /\ f \notin recent
    <3>1. f \in Due /\ Waiting' \subseteq Feeds
      BY <2>1, <2>3 DEF Waiting
    <3>2. \A g \in Feeds : /\ f \in ahead[g] => f \in ahead'[g]
                           /\ g \in now => f \in ahead'[g]
      BY <3>1, <2>3, <1>4, WakeStep
    <3>3. Rivals(f)' \subseteq Rivals(f)
      <4> SUFFICES ASSUME NEW g \in Rivals(f)' PROVE g \in Rivals(f)
        OBVIOUS
      <4>1. g \in Waiting' /\ g \notin Poison /\ g # f /\ f \notin ahead'[g]
        BY DEF Rivals
      <4>2. g \in Feeds /\ g \notin now /\ f \notin ahead[g]
        BY <4>1, <3>1, <3>2
      <4> QED
        BY <4>1, <4>2, <2>2 DEF Rivals
    <3> QED
      BY <3>3, <2>1, <2>2, <2>3, PatienceKept
  <2>4. CASE f \in Waiting' /\ (f \notin Waiting \/ f \in recent)
    <3>1. missed[f] = 0
      BY <2>4 DEF PatienceOf, Unmissed
    <3> QED
      BY <3>1, <2>1, <2>4, PatienceReturned
  <2>5. CASE f \notin Waiting'
    <3>1. missed[f] = 0
      BY <2>2, <2>5 DEF PatienceOf
    <3> QED
      BY <3>1, <2>1, <2>5 DEF PatienceOf
  <2> QED
    BY <2>2, <2>3, <2>4, <2>5
<1>5. CASE UNCHANGED backlogVars
  BY <1>5 DEF backlogVars, PatienceOf, Waiting, Rivals, Due, Share, Others
<1> QED
  BY <1>1, <1>2, <1>3, <1>4, <1>5 DEF BacklogNext, Work

LEMMA UnmissedNext == BacklogTypeOK /\ Patience /\ Unmissed /\ [BacklogNext]_backlogVars => Unmissed'
<1> SUFFICES ASSUME BacklogTypeOK, Patience, Unmissed, [BacklogNext]_backlogVars PROVE Unmissed'
  OBVIOUS
<1>1. CASE Tick
  BY <1>1 DEF Tick, Unmissed
<1>2. ASSUME NEW f \in Feeds, Processed(f) PROVE Unmissed'
  <2>1. f \in batch /\ recent' = recent \cup {f} /\ missed' = missed
    BY <1>2 DEF Processed
  <2>2. missed[f] = 0
    BY <2>1 DEF Patience, PatienceOf, Waiting
  <2> QED
    BY <2>1, <2>2 DEF Unmissed
<1>3. ASSUME NEW f \in Feeds, Fails(f) PROVE Unmissed'
  BY <1>3 DEF Fails, Unmissed
<1>4. ASSUME NEW now \in SUBSET asleep, Wake(now) PROVE Unmissed'
  <2>1. recent' = recent \cup now /\ missed' = missed /\ now \subseteq Feeds
    BY <1>4 DEF Wake, BacklogTypeOK
  <2>2. \A f \in now : missed[f] = 0
    BY <2>1 DEF Patience, PatienceOf, Waiting, Due
  <2> QED
    BY <2>1, <2>2 DEF Unmissed
<1>5. CASE UNCHANGED backlogVars
  BY <1>5 DEF backlogVars, Unmissed
<1> QED
  BY <1>1, <1>2, <1>3, <1>4, <1>5 DEF BacklogNext, Work

\* What Share and Others come to, for a feed that may fail and for one that does not.
LEMMA Places ==
  ASSUME NEW f \in Feeds, NEW N, NEW P, N = Cardinality(Feeds), P = Cardinality(Poison)
  PROVE  /\ N \in Nat /\ P \in Nat /\ P + 1 <= N /\ Limit \in Nat /\ P + 1 <= Limit
         /\ f \in Poison => Share(f) = Limit - P + 1 /\ Cardinality(Others(f)) = N - P
         /\ f \notin Poison => Share(f) = Limit - P /\ Cardinality(Others(f)) = N - P - 1
<1> DEFINE rest == Feeds \ Poison
<1>1. /\ IsFiniteSet(Feeds) /\ N \in Nat /\ IsFiniteSet(Poison) /\ P \in Nat
      /\ IsFiniteSet(rest) /\ Cardinality(rest) \in Nat
  BY FeedSets, BacklogAssumption
<1>2. Cardinality(rest) = N - P
  <2>1. Feeds = rest \cup Poison /\ rest \cap Poison = {}
    BY BacklogAssumption
  <2>2. Cardinality(rest \cap Poison) = 0
    BY <2>1, FS_EmptySet
  <2> HIDE DEF rest
  <2>3. Cardinality(Feeds) = Cardinality(rest) + Cardinality(Poison) - Cardinality(rest \cap Poison)
    BY <2>1, <1>1, FS_Union
  <2> QED
    BY <2>2, <2>3, <1>1
<1>3. Cardinality(rest) # 0
  <2>1. rest # {}
    BY BacklogAssumption
  <2> QED
    BY <2>1, <1>1, FS_EmptySet
<1>4. Limit \in Nat /\ P + 1 <= Limit
  BY <1>1, BacklogAssumption
<1>5. Others(f) = rest \ {f}
  BY DEF Others
<1>6. Cardinality(Others(f)) = IF f \in Poison THEN N - P ELSE N - P - 1
  <2>1. Cardinality(rest \ {f}) = IF f \in rest THEN Cardinality(rest) - 1 ELSE Cardinality(rest)
    BY <1>1, FS_RemoveElement, Zenon
  <2>2. f \in rest <=> f \notin Poison
    OBVIOUS
  <2> HIDE DEF rest
  <2> QED
    BY <2>1, <2>2, <1>1, <1>2, <1>5
<1>7. Cardinality(Poison \ {f}) = IF f \in Poison THEN P - 1 ELSE P
  BY <1>1, FS_RemoveElement, Zenon
<1>8. Share(f) = IF f \in Poison THEN Limit - P + 1 ELSE Limit - P
  BY <1>1, <1>4, <1>7 DEF Share
<1> HIDE DEF rest
<1> QED
  BY <1>1, <1>2, <1>3, <1>4, <1>6, <1>8

\* Ticks that x feeds each have a share in, out of y feeds.
LEMMA Quotient ==
  ASSUME NEW m \in Nat, NEW x \in Nat \ {0}, NEW y \in Nat, m * x <= y
  PROVE  m <= y \div x
<1> DEFINE q == y \div x
           r == y % x
<1>1. q \in Int /\ r \in Int /\ y = x * q + r /\ r < x
  OBVIOUS
<1> HIDE DEF q, r
<1>2. SUFFICES ASSUME q + 1 <= m PROVE FALSE
  BY <1>1 DEF q
<1>3. (q + 1) * x <= m * x
  <2>1. (m - (q + 1)) * x >= 0
    BY <1>1, <1>2
  <2>2. (m - (q + 1)) * x = m * x - (q + 1) * x
    BY <1>1
  <2>3. m * x \in Int /\ (q + 1) * x \in Int
    BY <1>1
  <2> QED
    BY <2>1, <2>2, <2>3
<1>4. (q + 1) * x = x * q + x
  BY <1>1
<1> QED
  BY <1>1, <1>3, <1>4

\* Fewer places and one feed less: the bound for the feeds that may fail is the
\* sharper one.
LEMMA OneShareLess ==
  ASSUME NEW m \in Nat, NEW x \in Nat, NEW y \in Nat, 1 <= y, m * (x + 1) <= y
  PROVE  m * x <= y - 1
<1>1. CASE m = 0
  BY <1>1
<1>2. CASE m # 0
  <2>1. m * (x + 1) = m * x + m /\ m * x \in Nat
    OBVIOUS
  <2> QED
    BY <2>1, <1>2
<1> QED
  BY <1>1, <1>2

LEMMA PatienceBounds == BacklogTypeOK /\ Patience => WaitBounded
<1> DEFINE N == Cardinality(Feeds)
           P == Cardinality(Poison)
<1> SUFFICES ASSUME BacklogTypeOK, Patience, NEW f \in Feeds
             PROVE  missed[f] <= (N - 1 - P) \div (Limit - P)
  BY DEF WaitBounded
<1> DEFINE m == missed[f]
           x == Limit - P
           y == N - 1 - P
<1>1. N \in Nat /\ P \in Nat /\ P + 1 <= N /\ Limit \in Nat /\ P + 1 <= Limit
  BY Places
<1>2. m \in Nat
  BY DEF BacklogTypeOK
<1>3. x \in Nat \ {0} /\ y \in Nat
  <2> HIDE DEF N, P
  <2> QED
    BY <1>1
<1>4. m * x <= y
  <2>1. CASE f \in Waiting
    <3> DEFINE s == Share(f)
               o == Cardinality(Others(f))
               r == Cardinality(Rivals(f))
    <3>1. m * s + r <= o
      BY <2>1 DEF Patience, PatienceOf
    <3>2. s \in Nat /\ o \in Nat
      BY ShareType
    <3>3. r \in Nat
      <4>1. Rivals(f) \in SUBSET Feeds
        BY DEF Rivals, Waiting, Due
      <4> QED
        BY <4>1, FeedSets
    <3>4. /\ f \in Poison => s = Limit - P + 1 /\ o = N - P
          /\ f \notin Poison => s = Limit - P /\ o = N - P - 1
      BY Places
    <3> HIDE DEF s, o, r, N, P, m
    <3>5. m * s <= o
      <4> DEFINE p == m * s
      <4>1. p \in Int
        BY <1>2, <3>2
      <4> HIDE DEF p
      <4>2. p + r <= o
        BY <3>1 DEF p
      <4>3. p <= o
        BY <4>1, <4>2, <3>2, <3>3
      <4> QED
        BY <4>3 DEF p
    <3>6. CASE f \notin Poison
      <4>1. s = x /\ o = y
        BY <3>4, <3>6, <1>1
      <4> QED
        BY <4>1, <3>5
    <3>7. CASE f \in Poison
      <4>1. s = x + 1 /\ y = o - 1 /\ 1 <= o
        BY <3>4, <3>7, <1>1
      <4> HIDE DEF x, y
      <4>2. m * (x + 1) <= o
        BY <4>1, <3>5
      <4> QED
        BY <4>1, <4>2, <1>2, <1>3, <3>2, OneShareLess
    <3> QED
      BY <3>6, <3>7
  <2>2. CASE f \notin Waiting
    <3>1. m = 0
      BY <2>2 DEF Patience, PatienceOf
    <3> HIDE DEF m, x, y
    <3> QED
      BY <3>1, <1>3
  <2> QED
    BY <2>1, <2>2
<1>5. m <= y \div x
  <2> HIDE DEF m, x, y
  <2> QED
    BY <1>2, <1>3, <1>4, Quotient
<1> QED
  BY <1>5

----------------------------------------------------------------------------
(* The results about Backlog. *)

\* The invariant in the reachable states.
LEMMA BacklogInvariance == BacklogSpec => [](BacklogTypeOK /\ Patience /\ Unmissed)
<1>1. BacklogInit => BacklogTypeOK /\ Patience /\ Unmissed
  BY BacklogTypeInit, PatienceInit DEF BacklogInit, Unmissed
<1>2. BacklogTypeOK /\ Patience /\ Unmissed /\ [BacklogNext]_backlogVars
        => (BacklogTypeOK /\ Patience /\ Unmissed)'
  BY BacklogTypeNext, PatienceNext, UnmissedNext
<1> QED
  BY <1>1, <1>2, PTL DEF BacklogSpec

\* No feed is due and asleep or excluded at once, the due feeds stay ordered by
\* their instants, and a batch holds due feeds and new ones, no more than the
\* limit (feeds.rs:142-186).
THEOREM BacklogTypeCorrect == BacklogSpec => []BacklogTypeOK
BY BacklogInvariance, PTL

\* A due feed that has a row is taken after a bounded number of ticks, whatever
\* else is due (feeds.rs:150-165, processing.rs:51-69).
THEOREM WaitIsBounded == BacklogSpec => []WaitBounded
BY BacklogInvariance, PatienceBounds, PTL

\* The safety part of NewFeedServed: a tick with room takes a new feed that does
\* not fail, if there is one, and no feed ever becomes new again, so that as many
\* such ticks as there are new feeds serve them all.
NewFeedsTaken ==
  [][/\ fresh' \subseteq fresh
     /\ Room /\ fresh \ Poison # {} => batch' \cap (fresh \ Poison) # {}]_backlogVars

LEMMA RoomForNew ==
  ASSUME BacklogTypeOK, Room, fresh \ Poison # {}
  PROVE  batch' \cap (fresh \ Poison) # {}
<1>1. PICK now \in SUBSET asleep :
        /\ asleep' = asleep \ now
        /\ batch' \subseteq Due \cup now \cup fresh
        /\ batch' # Due \cup now \cup fresh => Cardinality(batch') = Limit
  BY TickStep DEF Room
<1> DEFINE old == Poison \cap fresh
           rows == Due \cup now
<1> SUFFICES ASSUME batch' \subseteq rows \cup old PROVE FALSE
  BY <1>1
<1>2. /\ Due \in SUBSET Feeds /\ now \in SUBSET Feeds /\ old \in SUBSET Feeds
      /\ rows \in SUBSET Feeds /\ rows \cup old \in SUBSET Feeds
  BY DEF BacklogTypeOK, Due
<1>3. /\ IsFiniteSet(Due) /\ IsFiniteSet(now) /\ IsFiniteSet(old) /\ IsFiniteSet(rows)
      /\ Cardinality(Due) \in Nat /\ Cardinality(now) \in Nat /\ Cardinality(old) \in Nat
      /\ Cardinality(rows) \in Nat /\ Cardinality(rows \cup old) \in Nat /\ IsFiniteSet(rows \cup old)
      /\ Cardinality(Due \cap now) \in Nat /\ Cardinality(rows \cap old) \in Nat
  BY <1>2, FeedSets
<1>4. Cardinality(Due) + Cardinality(now) + Cardinality(old) < Limit
  <2>1. asleep \ asleep' = now
    BY <1>1 DEF BacklogTypeOK
  <2> QED
    BY <2>1 DEF Room
<1>5. Cardinality(rows) <= Cardinality(Due) + Cardinality(now)
  <2>1. Cardinality(Due \cup now) = Cardinality(Due) + Cardinality(now) - Cardinality(Due \cap now)
    BY <1>3, FS_Union
  <2> QED
    BY <2>1, <1>3
<1>6. Cardinality(rows \cup old) <= Cardinality(rows) + Cardinality(old)
  <2> HIDE DEF rows, old
  <2>1. Cardinality(rows \cup old) = Cardinality(rows) + Cardinality(old) - Cardinality(rows \cap old)
    BY <1>3, FS_Union
  <2> QED
    BY <2>1, <1>3
<1>7. Limit \in Nat
  BY BacklogAssumption
<1>8. Cardinality(rows \cup old) < Limit
  <2> HIDE DEF rows, old
  <2> QED
    BY <1>3, <1>4, <1>5, <1>6, <1>7
<1>9. batch' \in SUBSET (rows \cup old)
  OBVIOUS
<1>10. Cardinality(batch') <= Cardinality(rows \cup old) /\ Cardinality(batch') \in Nat
  <2>1. Cardinality(batch') <= Cardinality(rows \cup old)
    BY <1>3, <1>9, FS_Subset
  <2>2. batch' \in SUBSET Feeds
    BY <1>2, <1>9
  <2> QED
    BY <2>1, <2>2, FeedSets
<1>11. Cardinality(batch') # Limit
  BY <1>3, <1>7, <1>8, <1>10
<1>12. batch' = rows \cup fresh
  BY <1>1, <1>11
<1> QED
  BY <1>9, <1>12 DEF BacklogTypeOK, Due

\* With room in a tick a new feed is served, and it is not new any more once it
\* has been processed (feeds.rs:142-186, processing.rs:51-69).
THEOREM RoomServesNew == BacklogSpec => NewFeedsTaken
<1>1. BacklogTypeOK /\ [BacklogNext]_backlogVars =>
        [/\ fresh' \subseteq fresh
         /\ Room /\ fresh \ Poison # {} => batch' \cap (fresh \ Poison) # {}]_backlogVars
  <2> SUFFICES ASSUME BacklogTypeOK, BacklogNext
               PROVE  /\ fresh' \subseteq fresh
                      /\ Room /\ fresh \ Poison # {} => batch' \cap (fresh \ Poison) # {}
    OBVIOUS
  <2>1. fresh' \subseteq fresh
    BY DEF BacklogNext, Work, Tick, Processed, Fails, Wake
  <2> QED
    BY <2>1, RoomForNew
<1> QED
  BY <1>1, BacklogInvariance, PTL DEF BacklogSpec, NewFeedsTaken
=============================================================================
