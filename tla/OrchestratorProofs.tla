------------------------- MODULE OrchestratorProofs -------------------------
(***************************************************************************)
(* Proofs about Orchestrator, for every number of categories and every     *)
(* length of a batch: missed ticks are never replayed, only failures of    *)
(* the first category lengthen the pause, the pause has a maximum, and so  *)
(* has, without failures, the time between two looks at a category.        *)
(***************************************************************************)
EXTENDS Orchestrator, TLAPS

\* The part of TypeOK the results rest on.
Counters ==
  /\ errors \in Nat
  /\ late \in Int
  /\ position \in 0..(TickInterval - 1)
  /\ ticked \in BOOLEAN

\* The interval's grid: the deadline stands at the same place in the period as
\* the clock of the history, and after a tick the next deadline is the next
\* multiple of the period.
OnGrid ==
  /\ late % TickInterval = position
  /\ ticked => late = position - TickInterval

\* A category after the first is reached only through a success.
FreshAfterFirst == phase = "running" /\ category # 1 => errors = 0

IInv == Counters /\ OnGrid /\ FreshAfterFirst /\ OnlyFirstAddsUp

LEMMA InvInit == Init => IInv
<1> SUFFICES ASSUME Init PROVE IInv
  OBVIOUS
<1>1. Counters
  <2>1. ticked \in BOOLEAN
    BY Zenon DEF Init
  <2>2. errors \in Nat /\ late \in Int /\ position \in 0..(TickInterval - 1)
    BY DEF Init, TickInterval
  <2> QED
    BY <2>1, <2>2 DEF Counters
<1>2. OnGrid
  BY DEF Init, OnGrid, TickInterval
<1>3. FreshAfterFirst /\ OnlyFirstAddsUp
  BY DEF Init, FreshAfterFirst, OnlyFirstAddsUp
<1> QED
  BY <1>1, <1>2, <1>3 DEF IInv

\* A tick never finds its period ticked already.
LEMMA TickIsFirst == IInv /\ Tick => ~ticked
  BY DEF IInv, Counters, OnGrid, Tick, TickInterval

LEMMA TickKeepsGrid == IInv /\ Tick => late' \in Int /\ OnGrid'
<1> SUFFICES ASSUME IInv, Tick PROVE late' \in Int /\ OnGrid'
  OBVIOUS
<1>1. late' = position - 5 /\ position' = position /\ position \in 0..4
  BY DEF IInv, Counters, OnGrid, Tick, Reschedule, TickInterval
<1>2. (position - 5) % 5 = position
  BY <1>1
<1> QED
  BY <1>1, <1>2 DEF OnGrid, TickInterval

\* Time moves the clock and the deadline alike.
LEMMA ElapseKeepsGrid ==
  IInv /\ Elapse => late' \in Int /\ position' \in 0..(TickInterval - 1) /\ OnGrid'
<1> SUFFICES ASSUME IInv, Elapse
             PROVE  /\ late' \in Int /\ position' \in 0..(TickInterval - 1)
                    /\ OnGrid'
  OBVIOUS
<1>1. /\ late' = late + 1 /\ position' = (position + 1) % 5
      /\ late \in Int /\ position \in 0..4 /\ late % 5 = position
      /\ ticked => late = position - 5
      /\ ticked' => ticked /\ position' # 0
  BY DEF IInv, Counters, OnGrid, Elapse, TickInterval
<1>2. position' \in 0..(TickInterval - 1) /\ late' \in Int
  BY <1>1 DEF TickInterval
<1>3. late' % 5 = position'
  BY <1>1
<1>4. ticked' => late' = position' - 5
  <2>1. position' # 0 => position' = position + 1
    BY <1>1
  <2> QED
    BY <1>1, <2>1
<1> QED
  BY <1>2, <1>3, <1>4 DEF OnGrid, TickInterval

LEMMA InvStep == IInv /\ [Next]_vars => IInv'
<1> SUFFICES ASSUME IInv, [Next]_vars PROVE IInv'
  OBVIOUS
<1> USE DEF IInv, Counters, FreshAfterFirst, OnlyFirstAddsUp
<1>1. CASE Tick
  BY <1>1, TickKeepsGrid DEF Tick
<1>2. CASE Elapse
  BY <1>2, ElapseKeepsGrid DEF Elapse
<1>3. CASE PauseEnds
  BY <1>3 DEF PauseEnds, history, OnGrid
<1>4. CASE RunTickFails
  <2>1. errors' \in Nat /\ (errors' > 1 => errors # 0)
    BY <1>4 DEF RunTickFails, Smaller, RetryExpCap
  <2> QED
    BY <1>4, <2>1 DEF RunTickFails, OnGrid
<1>5. ASSUME NEW c \in Categories, RunTickEnds(c) PROVE IInv'
  BY <1>5 DEF RunTickEnds, ErrorsAfterSuccess, OnGrid
<1>6. CASE UNCHANGED vars
  BY <1>6 DEF vars, history, OnGrid
<1> QED
  BY <1>1, <1>2, <1>3, <1>4, <1>5, <1>6 DEF Next

LEMMA Invariance == Spec => []IInv
  BY InvInit, InvStep, PTL DEF Spec

\* Ticks missed during a pause or a long batch are skipped and never replayed:
\* no period of the interval sees two (orchestrator.rs:60-66).
THEOREM NoBurst == Spec => OneTickPerPeriod
<1>1. IInv /\ [Next]_vars => [Tick => ~ticked]_vars
  BY TickIsFirst
<1> QED
  BY <1>1, Invariance, PTL DEF Spec, OneTickPerPeriod

\* Only failures of the first category add up to longer pauses, since every
\* other is reached through a success (orchestrator.rs:87-112).
THEOREM OnlyFirstLengthensPauses == Spec => []OnlyFirstAddsUp
  BY Invariance, PTL DEF IInv

----------------------------------------------------------------------------
(* Types. *)

Types == TypeOK /\ late + TickInterval >= 0

\* 2 * 2^n, cut off at RetryMax.
LEMMA BackoffBounded == ASSUME NEW n \in 1..(RetryExpCap + 1) PROVE RetryBackoff(n) \in 0..RetryMax
<1>1. Smaller(n, RetryExpCap) \in {1, 2, 3, 4, 5}
  BY DEF Smaller, RetryExpCap
<1>2. 2 ^ 1 = 2 /\ 2 ^ 2 = 4 /\ 2 ^ 3 = 8 /\ 2 ^ 4 = 16 /\ 2 ^ 5 = 32
  OBVIOUS
<1>3. ASSUME NEW k \in {1, 2, 3, 4, 5} PROVE 2 ^ k = 2 \/ 2 ^ k = 4 \/ 2 ^ k = 8 \/ 2 ^ k = 16 \/ 2 ^ k = 32
  BY <1>2, Zenon
<1> DEFINE power == 2 ^ Smaller(n, RetryExpCap)
<1>4. power \in 0..32
  <2>1. power = 2 \/ power = 4 \/ power = 8 \/ power = 16 \/ power = 32
    BY <1>1, <1>3, Zenon
  <2> HIDE DEF power
  <2> QED
    BY <2>1
<1>5. RetryBackoff(n) = Smaller(RetryBase * power, RetryMax)
  BY DEF RetryBackoff
<1> HIDE DEF power
<1> QED
  BY <1>4, <1>5 DEF RetryBase, RetryMax, Smaller

LEMMA TypesInit == Init => Types
<1> SUFFICES ASSUME Init PROVE Types
  OBVIOUS
<1>1. ticked \in BOOLEAN
  BY Zenon DEF Init
<1> QED
  BY <1>1, OrchestratorAssumption
  DEF Types, TypeOK, Init, Phases, Categories, TickInterval, RetryExpCap, RetryMax

LEMMA ElapseCounts ==
  ASSUME Elapse
  PROVE  /\ left' = left \/ (left > 0 /\ left' = left - 1)
         /\ spent' = spent \/ (spent < MaxBatch /\ spent' = spent + 1)
  BY DEF Elapse

LEMMA TypesStep == Types /\ [Next]_vars => Types'
<1> SUFFICES ASSUME Types, [Next]_vars PROVE Types'
  OBVIOUS
<1> USE OrchestratorAssumption DEF Types, TypeOK, Phases, Categories, TickInterval
<1>0. 1 \in Categories /\ 0 \in 0..MaxBatch /\ 0 \in 0..RetryExpCap
  BY DEF RetryExpCap
<1>1. CASE Tick
  <2>1. ticked' \in BOOLEAN
    BY <1>1, Zenon DEF Tick
  <2>2. late' \in Int /\ late' + 5 >= 0
    BY <1>1 DEF Tick, Reschedule
  <2> QED
    BY <1>0, <1>1, <2>1, <2>2 DEF Tick
<1>2. CASE PauseEnds
  BY <1>0, <1>2 DEF PauseEnds, history
<1>3. CASE Elapse
  <2>1. ticked' \in BOOLEAN
    BY <1>3, Zenon DEF Elapse, TypeOK
  <2>2. position' \in 0..(TickInterval - 1)
    BY <1>3 DEF Elapse
  <2>3. gap' \in [Categories -> Nat]
    BY <1>3 DEF Elapse
  <2>4. left' \in 0..RetryMax
    <3>1. left' = left \/ (left > 0 /\ left' = left - 1)
      BY <1>3, ElapseCounts
    <3>2. left \in 0..60
      BY DEF RetryMax
    <3> HIDE DEF Types, TypeOK
    <3> QED
      BY <3>1, <3>2 DEF RetryMax
  <2>5. spent' \in 0..MaxBatch
    <3>1. spent' = spent \/ (spent < MaxBatch /\ spent' = spent + 1)
      BY <1>3, ElapseCounts
    <3> QED
      BY <3>1
  <2>6. late' \in Int /\ late' + TickInterval >= 0
    BY <1>3 DEF Elapse
  <2>7. phase' \in Phases /\ category' \in Categories /\ errors' \in 0..RetryExpCap
    BY <1>3 DEF Elapse
  <2> QED
    BY <2>1, <2>2, <2>3, <2>4, <2>5, <2>6, <2>7, Zenon
<1>4. CASE RunTickFails
  <2>1. errors + 1 \in 1..(RetryExpCap + 1)
    BY DEF RetryExpCap
  <2>2. left' \in 0..RetryMax
    BY <1>4, <2>1, BackoffBounded DEF RunTickFails
  <2>3. errors' \in 0..RetryExpCap
    BY <1>4 DEF RunTickFails, Smaller, RetryExpCap
  <2> QED
    BY <1>0, <1>4, <2>2, <2>3 DEF RunTickFails
<1>5. ASSUME NEW c \in Categories, RunTickEnds(c) PROVE Types'
  <2>1. category' \in Categories
    BY <1>0, <1>5 DEF RunTickEnds, IsLast
  <2>2. phase' \in {"waiting", "running", "pausing"} /\ errors' = 0 /\ spent' = 0
    BY <1>5 DEF RunTickEnds, ErrorsAfterSuccess
  <2>3. gap' \in [Categories -> Nat]
    BY <1>5 DEF RunTickEnds
  <2>4. late' = late /\ left' = left /\ position' = position /\ ticked' = ticked
    BY <1>5 DEF RunTickEnds
  <2> QED
    BY <1>0, <2>1, <2>2, <2>3, <2>4
<1>6. CASE UNCHANGED vars
  BY <1>6 DEF vars, history
<1> QED
  BY <1>1, <1>2, <1>3, <1>4, <1>5, <1>6 DEF Next

LEMMA TypesAlways == Spec => []Types
  BY TypesInit, TypesStep, PTL DEF Spec

\* The pause stays below its maximum, and every count within its bounds.
THEOREM TypeCorrect == Spec => []TypeOK
  BY TypesAlways, PTL DEF Types

----------------------------------------------------------------------------
(* The time between two looks at a category. *)

\* What k batches take at most.
Batches(k) == k * MaxBatch

\* Waiting, every category was begun, or the gaps reset, since the last tick; a wait
\* that is over its deadline began behind it, with the last batch.
GapKept(c) ==
  /\ phase = "pausing" => gap[c] = 0
  /\ phase = "waiting" =>
       gap[c] <= late + TickInterval /\ (late <= 0 \/ gap[c] <= Batches(N - c + 1))
  /\ phase = "running" /\ c <= category =>
       gap[c] <= late + TickInterval /\ gap[c] <= Batches(category - c) + spent
  /\ phase = "running" /\ c > category =>
       \/ gap[c] <= TickInterval + Batches(category - 1) + spent
       \/ gap[c] <= Batches(N - c + 1) + Batches(category - 1) + spent

GapsKept == \A c \in Categories : GapKept(c)

LEMMA BatchesTyped == ASSUME NEW k \in Nat PROVE Batches(k) \in Nat
  BY OrchestratorAssumption DEF Batches

LEMMA BatchesNext == ASSUME NEW k \in Nat PROVE Batches(k + 1) = Batches(k) + MaxBatch
  BY OrchestratorAssumption DEF Batches

LEMMA BatchesAdd == ASSUME NEW k \in Nat, NEW l \in Nat PROVE Batches(k) + Batches(l) = Batches(k + l)
  BY OrchestratorAssumption DEF Batches

LEMMA BatchesNone == Batches(0) = 0
  BY OrchestratorAssumption DEF Batches

LEMMA BatchesGrow == ASSUME NEW k \in Nat, NEW l \in Nat, k <= l PROVE Batches(k) <= Batches(l)
<1>1. l - k \in Nat /\ k + (l - k) = l
  OBVIOUS
<1>2. Batches(k) + Batches(l - k) = Batches(l)
  BY <1>1, BatchesAdd
<1>3. Batches(l - k) \in Nat /\ Batches(k) \in Nat /\ Batches(l) \in Nat
  BY <1>1, BatchesTyped
<1> QED
  BY <1>2, <1>3

LEMMA GapsStep == Types /\ GapsKept /\ [Next]_vars => GapsKept'
<1> SUFFICES ASSUME Types, GapsKept, [Next]_vars, NEW c \in Categories PROVE GapKept(c)'
  BY DEF GapsKept
<1> USE OrchestratorAssumption DEF Types, TypeOK, Phases, TickInterval
<1>a. /\ c \in Nat /\ 1 <= c /\ c <= N /\ N \in Nat
      /\ category \in Nat /\ 1 <= category /\ category <= N
      /\ gap[c] \in Nat /\ late \in Int /\ late + 5 >= 0 /\ spent \in Nat /\ spent <= MaxBatch
      /\ 1 \in Categories
  BY DEF Categories
<1>b. /\ Batches(0) = 0 /\ Batches(N - c + 1) \in Nat
      /\ N - c \in Nat /\ Batches(N - c + 1) = Batches(N - c) + MaxBatch
      /\ category - 1 \in Nat /\ Batches(category - 1) \in Nat
      /\ Batches(category) = Batches(category - 1) + MaxBatch
  <2>1. N - c \in Nat /\ category - 1 \in Nat /\ (category - 1) + 1 = category
    BY <1>a
  <2>2. Batches(N - c) \in Nat /\ Batches(category - 1) \in Nat
    BY <2>1, BatchesTyped
  <2>3. Batches(N - c + 1) = Batches(N - c) + MaxBatch
    BY <2>1, BatchesNext
  <2>4. Batches((category - 1) + 1) = Batches(category - 1) + MaxBatch
    BY <2>1, BatchesNext
  <2> QED
    BY <2>1, <2>2, <2>3, <2>4, BatchesNone
<1>c. /\ phase = "pausing" => gap[c] = 0
      /\ phase = "waiting" => gap[c] <= late + 5 /\ (late <= 0 \/ gap[c] <= Batches(N - c + 1))
      /\ phase = "running" /\ c <= category => gap[c] <= late + 5 /\ gap[c] <= Batches(category - c) + spent
      /\ phase = "running" /\ c > category =>
           \/ gap[c] <= 5 + Batches(category - 1) + spent
           \/ gap[c] <= Batches(N - c + 1) + Batches(category - 1) + spent
  BY DEF GapsKept, GapKept
<1>1. CASE Tick
  <2>1. /\ phase' = "running" /\ category' = 1 /\ spent' = 0 /\ phase = "waiting" /\ late >= 0
        /\ late' \in Int /\ late' + 5 >= 0
        /\ gap' = [gap EXCEPT ![1] = 0]
    BY <1>1 DEF Tick, Reschedule
  <2>2. CASE c = 1
    <3>1. gap'[c] = 0 /\ category' - c = 0
      BY <2>1, <2>2, <1>a
    <3>2. Batches(category' - c) = 0
      BY <3>1, BatchesNone
    <3>3. phase' = "running" /\ spent' = 0
      BY <2>1
    <3>5. late' \in Int /\ late' + 5 >= 0
      BY <2>1
    <3>4. ~(c > category')
      BY <2>1, <2>2
    <3>6. gap'[c] <= late' + TickInterval
      BY <3>1, <3>5
    <3>7. gap'[c] <= Batches(category' - c) + spent'
      BY <3>1, <3>2, <3>3
    <3>8. phase' # "pausing" /\ phase' # "waiting"
      BY <3>3
    <3> QED
      BY <3>4, <3>6, <3>7, <3>8, Zenon DEF GapKept
  <2>3. CASE c # 1
    <3>1. gap'[c] = gap[c] /\ c > category' /\ category' - 1 = 0
      BY <1>a, <2>1, <2>3
    <3> QED
      BY <1>a, <1>b, <1>c, <2>1, <3>1 DEF GapKept
  <2> QED
    BY <2>2, <2>3
<1>2. CASE PauseEnds
  BY <1>2, <1>a, <1>b, <1>c DEF PauseEnds, history, GapKept
<1>3. CASE Elapse
  <2>1. phase' = phase /\ category' = category /\ late' = late + 1
    BY <1>3 DEF Elapse
  <2>2. gap'[c] = IF phase = "pausing" THEN gap[c] ELSE gap[c] + 1
    BY <1>3 DEF Elapse
  <2>3. phase = "running" => spent' = spent + 1
    BY <1>3 DEF Elapse
  <2>4. phase = "waiting" => late < 0
    BY <1>3 DEF Elapse
  <2>5. ASSUME c <= category PROVE category - c \in Nat /\ Batches(category - c) \in Nat
    <3>1. category - c \in Nat
      BY <2>5, <1>a
    <3> QED
      BY <3>1, BatchesTyped
  <2>6. CASE phase = "pausing"
    BY <1>c, <2>1, <2>2, <2>6 DEF GapKept
  <2>7. CASE phase = "waiting"
    BY <1>a, <1>c, <2>1, <2>2, <2>4, <2>7 DEF GapKept
  <2>8. CASE phase = "running"
    BY <1>a, <1>b, <1>c, <2>1, <2>2, <2>3, <2>5, <2>8 DEF GapKept
  <2> QED
    BY <2>6, <2>7, <2>8
<1>4. CASE RunTickFails
  BY <1>4 DEF RunTickFails, GapKept
<1>5. ASSUME NEW d \in Categories, RunTickEnds(d) PROVE GapKept(c)'
  <2>1. phase = "running" /\ category = d /\ spent' = 0 /\ late' = late
    BY <1>5 DEF RunTickEnds
  <2>2. ASSUME c <= d
        PROVE  d - c \in Nat /\ Batches(d - c) \in Nat /\ Batches(d - c + 1) = Batches(d - c) + MaxBatch
    <3>1. d - c \in Nat
      BY <1>a, <2>1, <2>2
    <3> QED
      BY <3>1, BatchesTyped, BatchesNext
  <2>3. CASE d = N
    <3>1. phase' = "waiting" /\ gap' = gap
      BY <1>5, <2>3 DEF RunTickEnds, IsLast
    <3> QED
      BY <1>a, <1>c, <2>1, <2>2, <2>3, <3>1 DEF GapKept
  <2>4. CASE d # N
    <3>1. phase' = "running" /\ category' = d + 1 /\ gap' = [gap EXCEPT ![d + 1] = 0]
      BY <1>5, <2>1, <2>4 DEF RunTickEnds, IsLast
    <3>2. CASE c = d + 1
      <4>1. gap'[c] = 0 /\ category' - c = 0
        BY <1>a, <2>1, <3>1, <3>2
      <4> QED
        BY <1>a, <1>b, <2>1, <3>1, <3>2, <4>1 DEF GapKept
    <3>3. CASE c <= d
      <4>1. gap'[c] = gap[c] /\ category' - c = d - c + 1
        BY <1>a, <2>1, <3>1, <3>3
      <4> QED
        BY <1>a, <1>c, <2>1, <2>2, <3>1, <3>3, <4>1 DEF GapKept
    <3>4. CASE c > d + 1
      <4>1. gap'[c] = gap[c] /\ category' - 1 = d /\ c > category'
        BY <1>a, <2>1, <3>1, <3>4
      <4> QED
        BY <1>a, <1>b, <1>c, <2>1, <3>1, <3>4, <4>1 DEF GapKept
    <3> QED
      BY <1>a, <2>1, <3>2, <3>3, <3>4
  <2> QED
    BY <2>3, <2>4
<1>6. CASE UNCHANGED vars
  BY <1>6, <1>c DEF vars, history, GapKept
<1> QED
  BY <1>1, <1>2, <1>3, <1>4, <1>5, <1>6 DEF Next

LEMMA GapsBounded == Types /\ GapsKept => GapBounded
<1> DEFINE longest == IF MaxBatch > TickInterval THEN MaxBatch ELSE TickInterval
<1> SUFFICES ASSUME Types, GapsKept, NEW c \in Categories
             PROVE  gap[c] <= Batches(N - 1) + longest
  BY DEF GapBounded, Batches
<1> USE OrchestratorAssumption DEF Types, TypeOK, Phases, TickInterval
<1>a. /\ c \in Nat /\ 1 <= c /\ c <= N /\ N \in Nat
      /\ category \in Nat /\ 1 <= category /\ category <= N
      /\ gap[c] \in Nat /\ late \in Int /\ spent \in Nat /\ spent <= MaxBatch
  BY DEF Categories
<1>b. longest \in Nat /\ longest >= MaxBatch /\ longest >= 5
  OBVIOUS
<1>c. /\ phase = "pausing" => gap[c] = 0
      /\ phase = "waiting" => gap[c] <= late + 5 /\ (late <= 0 \/ gap[c] <= Batches(N - c + 1))
      /\ phase = "running" /\ c <= category => gap[c] <= Batches(category - c) + spent
      /\ phase = "running" /\ c > category =>
           \/ gap[c] <= 5 + Batches(category - 1) + spent
           \/ gap[c] <= Batches(N - c + 1) + Batches(category - 1) + spent
  BY DEF GapsKept, GapKept
<1>d. /\ Batches(N - 1) \in Nat /\ Batches(N) = Batches(N - 1) + MaxBatch
      /\ Batches(N - c + 1) <= Batches(N)
  <2>1. N - 1 \in Nat /\ (N - 1) + 1 = N /\ N - c + 1 \in Nat /\ N - c + 1 <= N
    BY <1>a
  <2>2. Batches(N - 1) \in Nat /\ Batches((N - 1) + 1) = Batches(N - 1) + MaxBatch
    BY <2>1, BatchesTyped, BatchesNext
  <2>3. Batches(N - c + 1) <= Batches(N)
    BY <1>a, <2>1, BatchesGrow
  <2> QED
    BY <2>1, <2>2, <2>3
<1> HIDE DEF longest
<1>1. CASE phase = "pausing"
  BY <1>1, <1>b, <1>c, <1>d
<1>2. CASE phase = "waiting"
  <2>1. N - c + 1 \in Nat
    BY <1>a
  <2>2. Batches(N - c + 1) \in Nat
    BY <2>1, BatchesTyped
  <2> QED
    BY <1>2, <1>a, <1>b, <1>c, <1>d, <2>2
<1>3. CASE phase = "running" /\ c <= category
  <2>1. category - c \in Nat /\ category - c <= N - 1 /\ N - 1 \in Nat
    BY <1>3, <1>a
  <2>2. Batches(category - c) \in Nat /\ Batches(category - c) <= Batches(N - 1)
    BY <2>1, BatchesTyped, BatchesGrow
  <2> QED
    BY <1>3, <1>a, <1>b, <1>c, <1>d, <2>2
<1>4. CASE phase = "running" /\ c > category
  <2>1. /\ category - 1 \in Nat /\ (category - 1) + 1 = category /\ category <= c - 1
        /\ c - 1 \in Nat /\ c - 1 <= N - 1 /\ N - 1 \in Nat
        /\ N - c + 1 \in Nat /\ (N - c + 1) + (c - 1) = N
    BY <1>4, <1>a
  <2>2. /\ Batches(category - 1) \in Nat /\ Batches(c - 1) \in Nat /\ Batches(N - c + 1) \in Nat
        /\ Batches(category) = Batches(category - 1) + MaxBatch
        /\ Batches(category) <= Batches(c - 1) /\ Batches(c - 1) <= Batches(N - 1)
        /\ Batches(N - c + 1) + Batches(c - 1) = Batches(N)
    <3>1. Batches((category - 1) + 1) = Batches(category - 1) + MaxBatch
      BY <2>1, BatchesNext
    <3>2. Batches(N - c + 1) + Batches(c - 1) = Batches((N - c + 1) + (c - 1))
      BY <2>1, BatchesAdd
    <3>3. Batches(category) <= Batches(c - 1) /\ Batches(c - 1) <= Batches(N - 1)
      BY <1>a, <2>1, BatchesGrow
    <3> QED
      BY <2>1, <3>1, <3>2, <3>3, BatchesTyped
  <2> QED
    BY <1>4, <1>a, <1>b, <1>c, <1>d, <2>2
<1> QED
  BY <1>1, <1>2, <1>3, <1>4, <1>a

\* While no due query fails, a look at a category comes within the time of one round
\* of batches, or of the others and a period (orchestrator.rs:53-117).
THEOREM GapsAreBounded == Spec => []GapBounded
<1>1. Init => GapsKept
  <2> SUFFICES ASSUME Init, NEW c \in Categories
               PROVE  gap[c] = 0 /\ phase = "waiting" /\ late = 0
    BY DEF GapsKept, GapKept, TickInterval
  <2> QED
    BY DEF Init
<1> QED
  BY <1>1, TypesAlways, GapsStep, GapsBounded, PTL DEF Spec
============================================================================
