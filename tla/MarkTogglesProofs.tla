-------------------------- MODULE MarkTogglesProofs --------------------------
(***************************************************************************)
(* Proofs about MarkToggles, for every number of requests under way and of *)
(* faults: the types, and that a mark that has settled is shown as the     *)
(* server has it, toggled one request at a time or, a favourite, twice.    *)
(*                                                                         *)
(* What is shown agrees with the server only once everything has settled,  *)
(* so the invariant says what holds on the way there: which requests are   *)
(* unanswered, which answers are refusals, and what the last of them will  *)
(* put right (Single, Pair); and that the load of the login brings what    *)
(* the server has unless something happened since it read it (LoadKept).   *)
(*                                                                         *)
(* The provers take a truth value either as a formula or as a value, so    *)
(* the two values have names here, and what follows does not open them.    *)
(***************************************************************************)
EXTENDS MarkToggles, TLAPS

\* The requests and their answers are counted, and bounded together.
Counted ==
  /\ sent \in [BOOLEAN -> Nat]
  /\ answered \in [BOOLEAN -> [BOOLEAN -> Nat]]
  /\ Unanswered <= MaxInFlight

\* One request less and one answer more, for any two truth values.
LEMMA OneAnswer ==
  ASSUME NEW T, NEW F, T # F, NEW s \in [{T, F} -> Nat], NEW a \in [{T, F} -> [{T, F} -> Nat]],
         NEW w \in {T, F}, NEW k \in {T, F}, s[w] > 0, NEW r, NEW b,
         r = [s EXCEPT ![w] = @ - 1], b = [a EXCEPT ![w][k] = @ + 1]
  PROVE  /\ r \in [{T, F} -> Nat] /\ b \in [{T, F} -> [{T, F} -> Nat]]
         /\ \A v \in {T, F} : r[v] = IF v = w THEN s[v] - 1 ELSE s[v]
         /\ \A v, j \in {T, F} : b[v][j] = IF v = w /\ j = k THEN a[v][j] + 1 ELSE a[v][j]
         /\ r[T] + r[F] + b[T][T] + b[T][F] + b[F][T] + b[F][F]
              = s[T] + s[F] + a[T][T] + a[T][F] + a[F][T] + a[F][F]
<1>1. r \in [{T, F} -> Nat] /\ b \in [{T, F} -> [{T, F} -> Nat]]
  OBVIOUS
<1>2. \A v \in {T, F} : r[v] = IF v = w THEN s[v] - 1 ELSE s[v]
  OBVIOUS
<1>3. \A v, j \in {T, F} : b[v][j] = IF v = w /\ j = k THEN a[v][j] + 1 ELSE a[v][j]
  OBVIOUS
<1>4. /\ s[T] \in Nat /\ s[F] \in Nat
      /\ a[T][T] \in Nat /\ a[T][F] \in Nat /\ a[F][T] \in Nat /\ a[F][F] \in Nat
  OBVIOUS
<1>5. /\ r[T] = IF T = w THEN s[T] - 1 ELSE s[T]
      /\ r[F] = IF F = w THEN s[F] - 1 ELSE s[F]
      /\ b[T][T] = IF T = w /\ T = k THEN a[T][T] + 1 ELSE a[T][T]
      /\ b[T][F] = IF T = w /\ F = k THEN a[T][F] + 1 ELSE a[T][F]
      /\ b[F][T] = IF F = w /\ T = k THEN a[F][T] + 1 ELSE a[F][T]
      /\ b[F][F] = IF F = w /\ F = k THEN a[F][F] + 1 ELSE a[F][F]
  BY <1>2, <1>3
<1> HIDE <1>2, <1>3
<1>6. r[T] + r[F] + b[T][T] + b[T][F] + b[F][T] + b[F][F]
        = s[T] + s[F] + a[T][T] + a[T][F] + a[F][T] + a[F][F]
  <2>1. CASE w = T /\ k = T
    BY <1>4, <1>5, <2>1
  <2>2. CASE w = T /\ k = F
    BY <1>4, <1>5, <2>2
  <2>3. CASE w = F /\ k = T
    BY <1>4, <1>5, <2>3
  <2>4. CASE w = F /\ k = F
    <3>1. /\ r[T] = s[T] /\ r[F] = s[F] - 1 /\ b[T][T] = a[T][T] /\ b[T][F] = a[T][F]
          /\ b[F][T] = a[F][T] /\ b[F][F] = a[F][F] + 1
      BY <1>5, <2>4
    <3> QED
      BY <1>4, <3>1
  <2> QED
    BY <2>1, <2>2, <2>3, <2>4
<1> QED
  BY <1>1, <1>2, <1>3, <1>6

\* The truth values, as any two values.
Set == TRUE
Clear == FALSE

LEMMA Truth == BOOLEAN = {Set, Clear} /\ Set # Clear
  BY Zenon DEF Set, Clear

LEMMA AnswerCounts ==
  ASSUME Counted, NEW w \in BOOLEAN, NEW k \in BOOLEAN, Answer(w, k)
  PROVE  /\ Counted' /\ Unanswered' = Unanswered
         /\ \A v \in BOOLEAN : sent'[v] = IF v = w THEN sent[v] - 1 ELSE sent[v]
         /\ \A v, j \in BOOLEAN : answered'[v][j] =
              IF v = w /\ j = k THEN answered[v][j] + 1 ELSE answered[v][j]
<1>1. /\ sent \in [{Set, Clear} -> Nat] /\ answered \in [{Set, Clear} -> [{Set, Clear} -> Nat]]
      /\ w \in {Set, Clear} /\ k \in {Set, Clear}
  BY Truth, Zenon DEF Counted
<1>2. /\ sent[w] > 0 /\ sent' = [sent EXCEPT ![w] = @ - 1]
      /\ answered' = [answered EXCEPT ![w][k] = @ + 1]
  BY Zenon DEF Answer
<1>3. /\ sent' \in [{Set, Clear} -> Nat] /\ answered' \in [{Set, Clear} -> [{Set, Clear} -> Nat]]
      /\ \A v \in {Set, Clear} : sent'[v] = IF v = w THEN sent[v] - 1 ELSE sent[v]
      /\ \A v, j \in {Set, Clear} :
           answered'[v][j] = IF v = w /\ j = k THEN answered[v][j] + 1 ELSE answered[v][j]
      /\ sent'[Set] + sent'[Clear] + answered'[Set][Set] + answered'[Set][Clear]
           + answered'[Clear][Set] + answered'[Clear][Clear]
           = sent[Set] + sent[Clear] + answered[Set][Set] + answered[Set][Clear]
               + answered[Clear][Set] + answered[Clear][Clear]
  BY <1>1, <1>2, Truth, OneAnswer
<1>4. Unanswered' = Unanswered
  BY <1>3, Zenon DEF Unanswered, Set, Clear
<1>5. Counted'
  BY <1>3, <1>4, Truth, Zenon DEF Counted
<1> QED
  BY <1>3, <1>4, <1>5, Truth, Zenon

Flip(v) == IF v = Set THEN Clear ELSE Set

LEMMA TruthMeans ==
  ASSUME NEW b \in BOOLEAN
  PROVE  b \in {Set, Clear} /\ (b <=> b = Set) /\ (~b <=> b = Clear) /\ (~b) = Flip(b)
<1>1. CASE b = TRUE
  BY <1>1, Zenon DEF Set, Clear, Flip
<1>2. CASE b = FALSE
  BY <1>2, Zenon DEF Set, Clear, Flip
<1> QED
  BY <1>1, <1>2, Zenon

----------------------------------------------------------------------------
(* Types. *)

Bits ==
  /\ kind \in Kinds
  /\ on \in BOOLEAN /\ shown \in BOOLEAN /\ reach \in BOOLEAN /\ listed \in BOOLEAN
  /\ touched \in BOOLEAN /\ disturbed \in BOOLEAN /\ cut \in BOOLEAN /\ failed \in BOOLEAN

Counters ==
  /\ load \in {"reading", "event", "over"}
  /\ snapshot \in {"listed", "cut", "absent"}
  /\ burst \in 0..3
  /\ faults \in 0..MaxFaults

\* What a reader cannot reach is not shown as read, and no list of it is loaded.
Reached == kind = "read" /\ (shown = Set \/ listed = Set) => reach = Set

Types == Counted /\ Bits /\ Counters /\ Reached

LEMMA InitTypes == Init => Types
<1> SUFFICES ASSUME Init PROVE Types
  OBVIOUS
<1>1. /\ sent = [v \in {Set, Clear} |-> 0]
      /\ answered = [v \in {Set, Clear} |-> [j \in {Set, Clear} |-> 0]]
  BY Truth, Zenon DEF Init
<1>2. /\ sent \in [{Set, Clear} -> Nat] /\ answered \in [{Set, Clear} -> [{Set, Clear} -> Nat]]
      /\ sent[Set] + sent[Clear] + answered[Set][Set] + answered[Set][Clear]
           + answered[Clear][Set] + answered[Clear][Clear] = 0
  BY <1>1
<1>3. Unanswered = 0
  BY <1>2, Zenon DEF Unanswered, Set, Clear
<1>4. Counted
  <2>1. Unanswered <= MaxInFlight
    BY <1>3, MarkTogglesAssumption
  <2> QED
    BY <1>2, <2>1, Truth, Zenon DEF Counted
<1>5. Bits
  BY Zenon DEF Init, Bits
<1>6. Counters
  BY MarkTogglesAssumption DEF Init, Counters
<1>7. Reached
  <2>1. shown = Clear /\ listed = Clear
    BY Zenon DEF Init, Clear
  <2> QED
    BY <2>1, Truth DEF Reached
<1> QED
  BY <1>4, <1>5, <1>6, <1>7 DEF Types

\* What a key does.
LEMMA ToggleEffect ==
  ASSUME Types, Toggle
  PROVE  /\ Counted' /\ Unanswered' = Unanswered + 1 /\ Unanswered < MaxInFlight
         /\ reach = Set /\ shown' = Flip(shown) /\ touched' = Set
         /\ \A v \in BOOLEAN : sent'[v] = IF v = Flip(shown) THEN sent[v] + 1 ELSE sent[v]
         /\ answered' = answered
         /\ burst' = IF burst < 2 THEN IF Unanswered = 0 THEN 1 ELSE burst + 1 ELSE 3
<1>1. shown \in {Set, Clear} /\ (~shown) = Flip(shown) /\ reach = Set
  BY Truth, TruthMeans, Zenon DEF Types, Bits, Toggle
<1>2. shown' = Flip(shown) /\ touched' = Set /\ answered' = answered
  BY <1>1, Zenon DEF Toggle, Set
<1>3. sent' = [sent EXCEPT ![Flip(shown)] = @ + 1]
  <2>1. sent' = [sent EXCEPT ![shown'] = @ + 1]
    BY Zenon DEF Toggle
  <2> QED
    BY <1>2, <2>1
<1>4. Flip(shown) \in {Set, Clear}
  BY DEF Flip
<1>5. /\ sent \in [{Set, Clear} -> Nat] /\ answered \in [{Set, Clear} -> [{Set, Clear} -> Nat]]
      /\ Unanswered < MaxInFlight
  BY Truth, Zenon DEF Types, Counted, Toggle
<1>6. /\ sent' \in [{Set, Clear} -> Nat]
      /\ \A v \in {Set, Clear} : sent'[v] = IF v = Flip(shown) THEN sent[v] + 1 ELSE sent[v]
  BY <1>3, <1>4, <1>5
<1>7. sent'[Set] + sent'[Clear] = sent[Set] + sent[Clear] + 1
  BY <1>4, <1>5, <1>6, Truth
<1>8. /\ Unanswered \in Nat /\ Unanswered' = Unanswered + 1
  <2>1. /\ sent[Set] \in Nat /\ sent[Clear] \in Nat /\ sent'[Set] \in Nat /\ sent'[Clear] \in Nat
        /\ answered[Set][Set] \in Nat /\ answered[Set][Clear] \in Nat
        /\ answered[Clear][Set] \in Nat /\ answered[Clear][Clear] \in Nat
    BY <1>5, <1>6
  <2>2. /\ Unanswered = sent[Set] + sent[Clear] + answered[Set][Set] + answered[Set][Clear]
                          + answered[Clear][Set] + answered[Clear][Clear]
        /\ Unanswered' = sent'[Set] + sent'[Clear] + answered[Set][Set] + answered[Set][Clear]
                          + answered[Clear][Set] + answered[Clear][Clear]
    BY <1>2, Zenon DEF Unanswered, Set, Clear
  <2> QED
    BY <1>7, <2>1, <2>2
<1>9. Counted'
  <2>1. Unanswered' <= MaxInFlight
    BY <1>5, <1>8, MarkTogglesAssumption
  <2> QED
    BY <1>2, <1>5, <1>6, <2>1, Truth, Zenon DEF Counted
<1>10. burst' = IF burst < 2 THEN IF Unanswered = 0 THEN 1 ELSE burst + 1 ELSE 3
  <2>1. burst \in 0..3
    BY DEF Types, Counters
  <2> QED
    BY <1>8, <2>1 DEF Toggle
<1> QED
  BY <1>1, <1>2, <1>5, <1>6, <1>8, <1>9, <1>10, Truth, Zenon

\* What the answer to a request does.
LEMMA ApplyEffect ==
  ASSUME Types, NEW w \in BOOLEAN, NEW k \in BOOLEAN, ApplyAnswer(w, k)
  PROVE  /\ Counted' /\ Unanswered' = Unanswered - 1
         /\ answered[w][k] > 0 /\ sent' = sent
         /\ \A v, j \in BOOLEAN : answered'[v][j] =
              IF v = w /\ j = k THEN answered[v][j] - 1 ELSE answered[v][j]
         /\ k = Set => shown' = shown
         /\ k = Clear => shown' = IF kind = "read" /\ reach = Clear THEN shown ELSE Flip(w)
<1>1. /\ sent \in [{Set, Clear} -> Nat] /\ answered \in [{Set, Clear} -> [{Set, Clear} -> Nat]]
      /\ w \in {Set, Clear} /\ k \in {Set, Clear}
  BY Truth, Zenon DEF Types, Counted
<1>2. /\ answered[w][k] > 0 /\ answered' = [answered EXCEPT ![w][k] = @ - 1] /\ sent' = sent
  BY Zenon DEF ApplyAnswer
<1>3. /\ answered' \in [{Set, Clear} -> [{Set, Clear} -> Nat]]
      /\ \A v, j \in {Set, Clear} : answered'[v][j] =
           IF v = w /\ j = k THEN answered[v][j] - 1 ELSE answered[v][j]
  <2>1. answered[w] \in [{Set, Clear} -> Nat] /\ answered[w][k] - 1 \in Nat
    BY <1>1, <1>2
  <2> QED
    BY <1>1, <1>2, <2>1
<1>4. Unanswered \in Nat /\ Unanswered' = Unanswered - 1
  <2>1. /\ sent[Set] \in Nat /\ sent[Clear] \in Nat
        /\ answered[Set][Set] \in Nat /\ answered[Set][Clear] \in Nat
        /\ answered[Clear][Set] \in Nat /\ answered[Clear][Clear] \in Nat
    BY <1>1
  <2>2. /\ answered'[Set][Set] = IF Set = w /\ Set = k THEN answered[Set][Set] - 1 ELSE answered[Set][Set]
        /\ answered'[Set][Clear] = IF Set = w /\ Clear = k THEN answered[Set][Clear] - 1 ELSE answered[Set][Clear]
        /\ answered'[Clear][Set] = IF Clear = w /\ Set = k THEN answered[Clear][Set] - 1 ELSE answered[Clear][Set]
        /\ answered'[Clear][Clear] = IF Clear = w /\ Clear = k THEN answered[Clear][Clear] - 1 ELSE answered[Clear][Clear]
    BY <1>3
  <2>3. answered'[Set][Set] + answered'[Set][Clear] + answered'[Clear][Set] + answered'[Clear][Clear]
          = answered[Set][Set] + answered[Set][Clear] + answered[Clear][Set] + answered[Clear][Clear] - 1
    <3>1. CASE w = Set /\ k = Set
      BY <2>1, <2>2, <3>1, Truth
    <3>2. CASE w = Set /\ k = Clear
      BY <2>1, <2>2, <3>2, Truth
    <3>3. CASE w = Clear /\ k = Set
      BY <2>1, <2>2, <3>3, Truth
    <3>4. CASE w = Clear /\ k = Clear
      BY <2>1, <2>2, <3>4, Truth
    <3> QED
      BY <1>1, <3>1, <3>2, <3>3, <3>4
  <2>4. /\ Unanswered = sent[Set] + sent[Clear] + answered[Set][Set] + answered[Set][Clear]
                          + answered[Clear][Set] + answered[Clear][Clear]
        /\ Unanswered' = sent[Set] + sent[Clear] + answered'[Set][Set] + answered'[Set][Clear]
                          + answered'[Clear][Set] + answered'[Clear][Clear]
    BY <1>2, Zenon DEF Unanswered, Set, Clear
  <2>5. /\ answered'[Set][Set] \in Nat /\ answered'[Set][Clear] \in Nat
        /\ answered'[Clear][Set] \in Nat /\ answered'[Clear][Clear] \in Nat
    BY <1>3
  <2> HIDE <2>2
  <2>6. /\ Unanswered \in Nat
        /\ Unanswered' = sent[Set] + sent[Clear] + (answered'[Set][Set] + answered'[Set][Clear]
                            + answered'[Clear][Set] + answered'[Clear][Clear])
        /\ Unanswered = sent[Set] + sent[Clear] + (answered[Set][Set] + answered[Set][Clear]
                            + answered[Clear][Set] + answered[Clear][Clear])
    BY <2>1, <2>4, <2>5
  <2> QED
    BY <2>1, <2>3, <2>6
<1>5. Counted'
  <2>1. Unanswered' <= MaxInFlight
    <3>1. Unanswered <= MaxInFlight
      BY DEF Types, Counted
    <3> QED
      BY <1>4, <3>1, MarkTogglesAssumption
  <2> QED
    BY <1>1, <1>2, <1>3, <2>1, Truth, Zenon DEF Counted
<1>6. k = Set => shown' = shown
  BY Zenon DEF ApplyAnswer, Set
<1>7. ASSUME k = Clear PROVE shown' = IF kind = "read" /\ reach = Clear THEN shown ELSE Flip(w)
  <2>1. shown' = Rollback(w)
    BY <1>7, Zenon DEF ApplyAnswer, Clear
  <2>2. (~w) = Flip(w) /\ (~reach <=> reach = Clear)
    BY TruthMeans DEF Types, Bits
  <2> QED
    BY <2>1, <2>2, Zenon DEF Rollback
<1> QED
  BY <1>2, <1>3, <1>4, <1>5, <1>6, <1>7, Truth, Zenon

\* What the server does: it takes a request, or refuses it and changes nothing.
LEMMA ServeEffect ==
  ASSUME Types, NEW w \in BOOLEAN, Serve(w)
  PROVE  \E k \in BOOLEAN :
           /\ Answer(w, k)
           /\ k = Set => ~Refuses(w) /\ on' = w
           /\ k = Clear => Refuses(w) /\ on' = on
<1>1. CASE Refuses(w)
  <2>1. (~Refuses(w)) = Clear
    BY <1>1, Zenon DEF Clear
  <2> QED
    BY <1>1, <2>1, Truth, Zenon DEF Serve
<1>2. CASE ~Refuses(w)
  <2>1. (~Refuses(w)) = Set
    BY <1>2, Zenon DEF Set
  <2> QED
    BY <1>2, <2>1, Truth, Zenon DEF Serve
<1> QED
  BY <1>1, <1>2

\* It refuses only what it has already, and a favourite always then.
LEMMA RefusesMeans ==
  ASSUME Types, NEW w \in BOOLEAN
  PROVE  /\ Refuses(w) => on = w
         /\ kind = "favorite" /\ on = w => Refuses(w)
<1>1. (w <=> w = Set) /\ (on <=> on = Set) /\ w \in {Set, Clear} /\ on \in {Set, Clear}
  BY TruthMeans DEF Types, Bits
<1> QED
  BY <1>1, Truth DEF Refuses

\* The counts one by one.
SetSent == sent[Set]
ClearSent == sent[Clear]
SetTaken == answered[Set][Set]
ClearTaken == answered[Clear][Set]
SetRefused == answered[Set][Clear]
ClearRefused == answered[Clear][Clear]

Counts ==
  /\ SetSent \in Nat /\ ClearSent \in Nat /\ SetTaken \in Nat /\ ClearTaken \in Nat
  /\ SetRefused \in Nat /\ ClearRefused \in Nat /\ Unanswered \in Nat
  /\ Unanswered = SetSent + ClearSent + SetTaken + SetRefused + ClearTaken + ClearRefused

LEMMA CountsNow == Counted => Counts
<1> SUFFICES ASSUME Counted PROVE Counts
  OBVIOUS
<1>1. /\ SetSent \in Nat /\ ClearSent \in Nat /\ SetTaken \in Nat /\ ClearTaken \in Nat
      /\ SetRefused \in Nat /\ ClearRefused \in Nat
  BY Truth, Zenon DEF Counted, SetSent, ClearSent, SetTaken, ClearTaken, SetRefused, ClearRefused
<1>2. Unanswered = SetSent + ClearSent + SetTaken + SetRefused + ClearTaken + ClearRefused
  BY Zenon DEF Unanswered, Set, Clear, SetSent, ClearSent, SetTaken, ClearTaken, SetRefused, ClearRefused
<1> QED
  BY <1>1, <1>2 DEF Counts

\* A step that moves no request moves no count.
LEMMA CountsStay ==
  ASSUME Types, UNCHANGED requests
  PROVE  Counted' /\ Unanswered' = Unanswered /\ sent' = sent /\ answered' = answered
BY Zenon DEF Types, Counted, Unanswered, requests
----------------------------------------------------------------------------
\* Each step keeps the types.
LEMMA TypesStep == ASSUME Types, [Next]_vars PROVE Types'
<1> USE DEF Types
<1>a. /\ Counted /\ Bits /\ Counters /\ Reached
  OBVIOUS
<1>b. (shown = Set <=> shown) /\ (reach = Set <=> reach) /\ (listed = Set <=> listed)
  BY <1>a, TruthMeans, Zenon DEF Bits
<1>1. CASE Toggle
  <2>1. Counted' /\ reach = Set /\ shown' = Flip(shown) /\ touched' = Set
    BY <1>1, ToggleEffect
  <2>2. Bits'
    <3>1. shown' \in BOOLEAN /\ touched' \in BOOLEAN
      BY <2>1, Truth, Zenon DEF Flip
    <3> QED
      BY <1>1, <1>a, <3>1, Zenon DEF Toggle, Bits, loading
  <2>3. Counters'
    <3>1. burst \in 0..3 /\ burst' = IF burst < 2 THEN IF Unanswered = 0 THEN 1 ELSE burst + 1 ELSE 3
      BY <1>1, <1>a, ToggleEffect DEF Counters
    <3>2. burst' \in 0..3
      BY <3>1
    <3> QED
      BY <1>1, <1>a, <3>2, Zenon DEF Toggle, Counters, loading
  <2>4. Reached'
    BY <1>1, <2>1, Zenon DEF Toggle, Reached
  <2> QED
    BY <2>1, <2>2, <2>3, <2>4
<1>2. ASSUME NEW want \in BOOLEAN, Serve(want) PROVE Types'
  <2>1. PICK k \in BOOLEAN : Answer(want, k)
    BY <1>2, ServeEffect, Zenon
  <2>2. Counted'
    BY <2>1, <1>a, AnswerCounts, Zenon
  <2>3. Bits'
    BY <1>2, <1>a, Zenon DEF Serve, Bits, client, loading, history
  <2>4. Counters' /\ Reached'
    BY <1>2, <1>a, Zenon DEF Serve, Counters, Reached, client, loading, history
  <2> QED
    BY <2>2, <2>3, <2>4
<1>3. ASSUME NEW want \in BOOLEAN, Fail(want) PROVE Types'
  <2>1. Answer(want, Clear)
    BY <1>3, Zenon DEF Fail, Clear
  <2>2. Counted'
    BY <2>1, <1>a, Truth, AnswerCounts, Zenon
  <2>3. Bits'
    BY <1>3, <1>a, Zenon DEF Fail, Bits, client, loading
  <2>4. faults' \in 0..MaxFaults
    BY <1>3, <1>a, MarkTogglesAssumption DEF Fail, Fault, Counters
  <2>5. Counters' /\ Reached'
    BY <1>3, <1>a, <2>4, Zenon DEF Fail, Counters, Reached, client, loading
  <2> QED
    BY <2>2, <2>3, <2>5
<1>4. ASSUME NEW want \in BOOLEAN, LoseAnswer(want) PROVE Types'
  <2>1. Answer(want, Clear)
    BY <1>4, Zenon DEF LoseAnswer, Clear
  <2>2. Counted'
    BY <2>1, <1>a, Truth, AnswerCounts, Zenon
  <2>3. Bits'
    BY <1>4, <1>a, Zenon DEF LoseAnswer, Bits, client, loading
  <2>4. faults' \in 0..MaxFaults
    BY <1>4, <1>a, MarkTogglesAssumption DEF LoseAnswer, Fault, Counters
  <2>5. Counters' /\ Reached'
    BY <1>4, <1>a, <2>4, Zenon DEF LoseAnswer, Counters, Reached, client, loading
  <2> QED
    BY <2>2, <2>3, <2>5
<1>5. ASSUME NEW want \in BOOLEAN, NEW ok \in BOOLEAN, ApplyAnswer(want, ok) PROVE Types'
  <2>1. /\ Counted'
        /\ ok = Set => shown' = shown
        /\ ok = Clear => shown' = IF kind = "read" /\ reach = Clear THEN shown ELSE Flip(want)
    BY <1>5, ApplyEffect, Zenon
  <2>2. ok = Set \/ ok = Clear
    BY TruthMeans, Zenon
  <2>3. reach = Set \/ reach = Clear
    BY <1>a, TruthMeans, Zenon DEF Bits
  <2>4. shown' \in BOOLEAN
    BY <1>a, <2>1, <2>2, Truth, Zenon DEF Bits, Flip
  <2>5. Bits'
    BY <1>5, <1>a, <2>4, Zenon DEF ApplyAnswer, Bits, loading, history
  <2>6. Counters'
    BY <1>5, <1>a, Zenon DEF ApplyAnswer, Counters, loading, history
  <2>7. Reached'
    BY <1>5, <1>a, <2>1, <2>2, <2>3, Zenon DEF ApplyAnswer, Reached
  <2> QED
    BY <2>1, <2>5, <2>6, <2>7
<1>6. CASE ChangeElsewhere
  <2>1. Counted'
    BY <1>6, CountsStay, Zenon DEF ChangeElsewhere
  <2>2. Bits'
    BY <1>6, <1>a, Zenon DEF ChangeElsewhere, Bits, client, loading
  <2>3. faults' \in 0..MaxFaults
    BY <1>6, <1>a, MarkTogglesAssumption DEF ChangeElsewhere, Fault, Counters
  <2>4. Counters' /\ Reached'
    BY <1>6, <1>a, <2>3, Zenon DEF ChangeElsewhere, Counters, Reached, client, loading
  <2> QED
    BY <2>1, <2>2, <2>4
<1>7. CASE ReloadFeeds
  <2>1. Counted'
    BY <1>7, CountsStay, Zenon DEF ReloadFeeds
  <2>2. Bits' /\ Counters'
    BY <1>7, <1>a, Zenon DEF ReloadFeeds, Bits, Counters, loading, history
  <2>3. Reached'
    BY <1>7, Zenon DEF ReloadFeeds, Reached
  <2> QED
    BY <2>1, <2>2, <2>3
<1>8. CASE ReloadMarks
  <2>1. Counted'
    BY <1>8, CountsStay, Zenon DEF ReloadMarks
  <2>2. Bits'
    <3>1. PICK reading \in Readings : Replace(reading, Unanswered > 0)
      BY <1>8, Zenon DEF ReloadMarks
    <3>2. shown' \in BOOLEAN /\ disturbed' \in BOOLEAN /\ cut' \in BOOLEAN
      BY <3>1 DEF Replace
    <3>3. failed' \in BOOLEAN
      BY <3>1, Zenon DEF Replace
    <3> QED
      BY <1>8, <1>a, <3>2, <3>3, Zenon DEF ReloadMarks, Bits
  <2>3. Counters'
    <3>1. burst' \in 0..3
      BY <1>8 DEF ReloadMarks, Replace
    <3> QED
      BY <1>8, <1>a, <3>1, Zenon DEF ReloadMarks, Counters, loading
  <2>4. Reached'
    BY <1>8, Zenon DEF ReloadMarks, Reached
  <2> QED
    BY <2>1, <2>2, <2>3, <2>4
<1>9. CASE ReloadEntries
  <2>1. Counted'
    BY <1>9, CountsStay, Zenon DEF ReloadEntries
  <2>2. /\ reach' \in BOOLEAN /\ listed' \in BOOLEAN /\ shown' \in BOOLEAN /\ disturbed' \in BOOLEAN
        /\ cut' \in BOOLEAN /\ failed' \in BOOLEAN
    <3>1. shown' \in BOOLEAN /\ disturbed' \in BOOLEAN /\ cut' \in BOOLEAN
      BY <1>9 DEF ReloadEntries, Replace
    <3> QED
      BY <1>9, <3>1, Zenon DEF ReloadEntries, Replace
  <2>3. Bits'
    BY <1>9, <1>a, <2>2, Zenon DEF ReloadEntries, Bits, loading
  <2>4. Counters'
    <3>1. burst' \in 0..3
      BY <1>9 DEF ReloadEntries, Replace
    <3> QED
      BY <1>9, <1>a, <3>1, Zenon DEF ReloadEntries, Counters, loading
  <2>5. Reached'
    <3>1. (shown' => reach') /\ listed' = reach'
      <4>1. shown' = ((IF on /\ reach' THEN "listed" ELSE "absent") = "listed") /\ listed' = reach'
        BY <1>9, Zenon DEF ReloadEntries, Replace
      <4> QED
        BY <4>1
    <3>2. (shown' = Set <=> shown') /\ (reach' = Set <=> reach')
      BY <2>2, TruthMeans, Zenon
    <3> QED
      BY <3>1, <3>2, Zenon DEF Reached
  <2> QED
    BY <2>1, <2>3, <2>4, <2>5
<1>10. CASE LoadRead
  <2>1. Counted'
    BY <1>10, CountsStay, Zenon DEF LoadRead
  <2>2. Bits'
    <3>1. touched' \in BOOLEAN
      BY <1>10 DEF LoadRead
    <3> QED
      BY <1>10, <1>a, <3>1, Zenon DEF LoadRead, Bits, client
  <2>3. snapshot' \in {"listed", "cut", "absent"}
    BY <1>10 DEF LoadRead, Readings
  <2>4. Counters' /\ Reached'
    BY <1>10, <1>a, <2>3, Zenon DEF LoadRead, Counters, Reached, client
  <2> QED
    BY <2>1, <2>2, <2>4
<1>11. CASE LoadFails
  <2>1. Counted'
    BY <1>11, CountsStay, Zenon DEF LoadFails
  <2>2. faults' \in 0..MaxFaults
    BY <1>11, <1>a, MarkTogglesAssumption DEF LoadFails, Fault, Counters
  <2>3. Bits' /\ Counters' /\ Reached'
    BY <1>11, <1>a, <2>2, Zenon DEF LoadFails, Bits, Counters, Reached, client, history
  <2> QED
    BY <2>1, <2>3
<1>12. CASE ApplyLoad
  <2>1. Counted'
    BY <1>12, CountsStay, Zenon DEF ApplyLoad
  <2>2. CASE kind = "read"
    BY <1>12, <1>a, <2>1, <2>2, Zenon DEF ApplyLoad, Bits, Counters, Reached, client
  <2>3. CASE kind # "read"
    <3>1. burst' \in 0..3
      BY <1>12, <2>3 DEF ApplyLoad, Replace
    <3>2. Counters'
      BY <1>12, <1>a, <3>1, Zenon DEF ApplyLoad, Counters
    <3>3. shown' \in BOOLEAN /\ cut' \in BOOLEAN
      BY <1>12, <2>3 DEF ApplyLoad, Replace
    <3>4. Bits'
      BY <1>12, <1>a, <2>3, <3>3, Zenon DEF ApplyLoad, Replace, Bits
    <3>5. Reached'
      BY <1>12, <2>3, Zenon DEF ApplyLoad, Reached
    <3> QED
      BY <2>1, <3>2, <3>4, <3>5
  <2> QED
    BY <2>2, <2>3
<1>13. CASE UNCHANGED vars
  <2>1. Counted'
    BY <1>13, CountsStay, Zenon DEF vars
  <2>2. Bits'
    BY <1>13, <1>a, Zenon DEF vars, client, history, Bits
  <2>3. Counters'
    BY <1>13, <1>a, Zenon DEF vars, loading, history, Counters
  <2>4. Reached'
    BY <1>13, <1>a, Zenon DEF vars, client, Reached
  <2> QED
    BY <2>1, <2>2, <2>3, <2>4
<1> QED
  BY <1>1, <1>2, <1>3, <1>4, <1>5, <1>6, <1>7, <1>8, <1>9, <1>10, <1>11, <1>12, <1>13, Zenon DEF Next

\* What the types say includes the type invariant of the model.
LEMMA TypesSuffice == Types => TypeOK
<1> SUFFICES ASSUME Types PROVE TypeOK
  OBVIOUS
<1>1. Counts /\ Unanswered <= MaxInFlight
  BY CountsNow DEF Types, Counted
<1>2. sent \in [{Set, Clear} -> Nat] /\ answered \in [{Set, Clear} -> [{Set, Clear} -> Nat]]
  BY Truth, Zenon DEF Types, Counted
<1>3. /\ sent[Set] \in 0..MaxInFlight /\ sent[Clear] \in 0..MaxInFlight
      /\ answered[Set][Set] \in 0..MaxInFlight /\ answered[Set][Clear] \in 0..MaxInFlight
      /\ answered[Clear][Set] \in 0..MaxInFlight /\ answered[Clear][Clear] \in 0..MaxInFlight
  BY <1>1, MarkTogglesAssumption
     DEF Counts, SetSent, ClearSent, SetTaken, ClearTaken, SetRefused, ClearRefused
<1>4. /\ sent \in [{Set, Clear} -> 0..MaxInFlight]
      /\ answered \in [{Set, Clear} -> [{Set, Clear} -> 0..MaxInFlight]]
  <2>1. sent \in [{Set, Clear} -> 0..MaxInFlight]
    BY <1>2, <1>3
  <2>2. /\ answered[Set] \in [{Set, Clear} -> 0..MaxInFlight]
        /\ answered[Clear] \in [{Set, Clear} -> 0..MaxInFlight]
    BY <1>2, <1>3
  <2> QED
    BY <1>2, <2>1, <2>2
<1>5. kind = "read" /\ shown => reach
  <2>1. (shown <=> shown = Set) /\ (reach <=> reach = Set)
    BY TruthMeans, Zenon DEF Types, Bits
  <2> QED
    BY <2>1, Zenon DEF Types, Reached
<1>6. {on, shown, reach, listed, touched, disturbed, cut, failed} \subseteq BOOLEAN
  BY Zenon DEF Types, Bits
<1> QED
  BY <1>4, <1>5, <1>6, Truth, Zenon DEF TypeOK, Types, Bits, Counters
\* Every count stays in its bounds, and an unreachable entry is not shown as read.
THEOREM TypeCorrect == Spec => []TypeOK
<1>1. Init => Types
  BY InitTypes
<1>2. Types /\ [Next]_vars => Types'
  BY TypesStep
<1> QED
  BY <1>1, <1>2, TypesSuffice, PTL DEF Spec

----------------------------------------------------------------------------
(* One request at a time. *)

\* The load will bring what the server has, unless something was going on.
LoadKept ==
  load = "event" /\ touched = Clear =>
    /\ Unanswered = 0
    /\ on = IF snapshot = "absent" THEN Clear ELSE Set
    /\ snapshot = "cut" => kind = "favorite"

\* The one request asks for what is shown and the server lacks; if it failed, the
\* server still lacks it, and taking it back shows what the server has.
Single ==
  /\ Unanswered <= 1 /\ (burst = 0 => Unanswered = 0)
  /\ SetSent > 0 => shown = Set /\ on = Clear
  /\ ClearSent > 0 => shown = Clear /\ on = Set
  /\ SetRefused > 0 => on = Clear
  /\ ClearRefused > 0 => on = Set
  /\ SetSent = 0 /\ ClearSent = 0 /\ SetRefused = 0 /\ ClearRefused = 0 => shown = on

\* What the last list had no room for stays set at the server, and the one request
\* can only be one to set it, which will be refused and taken back.
Hidden ==
  /\ Unanswered <= 1 /\ (burst = 0 => Unanswered = 0)
  /\ kind = "favorite" /\ on = Set
  /\ ClearSent = 0 /\ ClearRefused = 0
  /\ SetSent > 0 => shown = Set
  /\ SetSent = 0 /\ SetRefused = 0 => shown = Clear

SingleKept ==
  listed = Set /\ disturbed = Clear /\ burst <= 1 => IF cut = Set THEN Hidden ELSE Single

\* Two requests for a favourite, none of which has failed: at most one of them
\* is refused, the one that asks for what the server has when both are on the way.
Pair ==
  /\ Unanswered <= 2 /\ (burst <= 1 => Unanswered <= 1) /\ (burst = 0 => Unanswered = 0)
  /\ burst <= 1 => SetRefused = 0 /\ ClearRefused = 0
  /\ SetSent <= 1 /\ ClearSent <= 1
  /\ (SetRefused = 0 /\ ClearRefused <= 1) \/ (SetRefused <= 1 /\ ClearRefused = 0)
  /\ SetSent > 0 /\ ClearSent > 0 => shown = on
  /\ SetSent > 0 /\ ClearSent = 0 =>
       on = Clear /\ SetRefused = 0 /\ (ClearRefused = 0 => shown = Set)
  /\ ClearSent > 0 /\ SetSent = 0 =>
       on = Set /\ ClearRefused = 0 /\ (SetRefused = 0 => shown = Clear)
  /\ SetSent = 0 /\ ClearSent = 0 =>
       /\ SetRefused > 0 => on = Clear
       /\ ClearRefused > 0 => on = Set
       /\ SetRefused = 0 /\ ClearRefused = 0 => shown = on

PairKept ==
  kind = "favorite" /\ listed = Set /\ disturbed = Clear /\ cut = Clear /\ failed = Clear
    /\ burst <= 2 => Pair

Kept == LoadKept /\ SingleKept /\ PairKept

Marks == /\ on \in {Set, Clear} /\ shown \in {Set, Clear} /\ Set # Clear
         /\ burst \in 0..3

LEMMA MarksNow == Types => Marks
BY Truth, Zenon DEF Types, Bits, Counters, Marks

LEMMA MarksNext == Types' => Marks'
BY Truth, Zenon DEF Types, Bits, Counters, Marks

LEMMA ToggleKeeps == ASSUME Types, Types', Kept, Toggle PROVE Kept'
<1>1. /\ Unanswered' = Unanswered + 1
      /\ shown' = Flip(shown) /\ touched' = Set
      /\ \A v \in {Set, Clear} : sent'[v] = IF v = Flip(shown) THEN sent[v] + 1 ELSE sent[v]
      /\ answered' = answered
      /\ burst' = IF burst < 2 THEN IF Unanswered = 0 THEN 1 ELSE burst + 1 ELSE 3
  BY ToggleEffect, Truth, Zenon
<1>2. Counts /\ Marks /\ Marks'
  BY CountsNow, MarksNow, MarksNext DEF Types
<1>3. /\ kind' = kind /\ on' = on /\ listed' = listed /\ disturbed' = disturbed /\ failed' = failed
      /\ cut' = cut
  BY Zenon DEF Toggle
<1>4. /\ SetSent' = IF Set = Flip(shown) THEN SetSent + 1 ELSE SetSent
      /\ ClearSent' = IF Clear = Flip(shown) THEN ClearSent + 1 ELSE ClearSent
      /\ SetTaken' = SetTaken /\ ClearTaken' = ClearTaken
      /\ SetRefused' = SetRefused /\ ClearRefused' = ClearRefused
  BY <1>1, Zenon DEF SetSent, ClearSent, SetTaken, ClearTaken, SetRefused, ClearRefused
<1>5. LoadKept'
  BY <1>1, Truth, Zenon DEF LoadKept
<1>h. ASSUME listed' = Set, disturbed' = Clear, burst' <= 1, cut' = Set PROVE Hidden'
  <2>1. burst <= 1 /\ listed = Set /\ disturbed = Clear /\ cut = Set
    BY <1>h, <1>1, <1>2, <1>3 DEF Marks
  <2>2. Hidden
    BY <2>1 DEF Kept, SingleKept
  <2>3. Unanswered = 0 /\ burst' = 1
    BY <1>h, <1>1, <1>2, <2>1, <2>2 DEF Hidden, Marks, Counts
  <2>4. SetSent = 0 /\ ClearSent = 0 /\ SetRefused = 0 /\ ClearRefused = 0
    BY <1>2, <2>3 DEF Counts
  <2>5. shown = Clear /\ shown' = Set
    BY <1>1, <1>2, <2>2, <2>4 DEF Hidden, Flip, Marks
  <2>6. SetSent' = 1 /\ ClearSent' = 0 /\ SetRefused' = 0 /\ ClearRefused' = 0 /\ Unanswered' = 1
    BY <1>1, <1>2, <1>4, <2>3, <2>4, <2>5 DEF Flip, Marks
  <2> QED
    BY <1>2, <1>3, <2>2, <2>3, <2>5, <2>6 DEF Hidden, Marks
<1>6. SingleKept'
  <2> SUFFICES ASSUME listed' = Set /\ disturbed' = Clear /\ burst' <= 1, ~(cut' = Set)
               PROVE  Single'
    BY <1>h, Zenon DEF SingleKept
  <2>1. burst <= 1 /\ listed = Set /\ disturbed = Clear /\ ~(cut = Set)
    BY <1>1, <1>2, <1>3 DEF Marks
  <2>2. Single
    BY <2>1 DEF Kept, SingleKept
  <2>3. Unanswered = 0 /\ burst' = 1
    BY <1>1, <1>2, <2>1, <2>2 DEF Single, Marks, Counts
  <2>4. shown = on
    BY <1>2, <2>2, <2>3 DEF Single, Counts
  <2>5. SetSent = 0 /\ ClearSent = 0 /\ SetRefused = 0 /\ ClearRefused = 0
    BY <1>2, <2>3 DEF Counts
  <2>6. CASE shown = Set
    <3>1. shown' = Clear /\ on' = Set
      BY <1>1, <1>3, <2>4, <2>6 DEF Flip
    <3>2. SetSent' = 0 /\ ClearSent' = 1 /\ SetRefused' = 0 /\ ClearRefused' = 0 /\ Unanswered' = 1
      BY <1>1, <1>2, <1>4, <2>3, <2>5, <2>6 DEF Flip, Marks
    <3> QED
      BY <1>2, <2>3, <3>1, <3>2 DEF Single, Marks
  <2>7. CASE shown = Clear
    <3>1. shown' = Set /\ on' = Clear
      BY <1>1, <1>2, <1>3, <2>4, <2>7 DEF Flip, Marks
    <3>2. SetSent' = 1 /\ ClearSent' = 0 /\ SetRefused' = 0 /\ ClearRefused' = 0 /\ Unanswered' = 1
      BY <1>1, <1>2, <1>4, <2>3, <2>5, <2>7 DEF Flip, Marks
    <3> QED
      BY <1>2, <2>3, <3>1, <3>2 DEF Single, Marks
  <2> QED
    BY <1>2, <2>6, <2>7 DEF Marks
<1>7. PairKept'
  <2> SUFFICES ASSUME kind' = "favorite", listed' = Set, disturbed' = Clear, cut' = Clear, failed' = Clear,
                      burst' <= 2
               PROVE  Pair'
    BY Zenon DEF PairKept
  <2>1. burst <= 1
    BY <1>1, <1>2 DEF Marks
  <2>2. Pair
    BY <1>2, <1>3, <2>1 DEF Kept, PairKept, Marks
  <2>3. CASE Unanswered = 0
    <3>1. SetSent = 0 /\ ClearSent = 0 /\ SetRefused = 0 /\ ClearRefused = 0
      BY <1>2, <2>3 DEF Counts
    <3>2. shown = on /\ burst' = 1
      BY <1>1, <1>2, <2>1, <2>2, <2>3, <3>1 DEF Pair, Marks
    <3>3. CASE shown = Set
      <4>1. shown' = Clear /\ on' = Set
        BY <1>1, <1>3, <3>2, <3>3 DEF Flip
      <4>2. SetSent' = 0 /\ ClearSent' = 1 /\ SetRefused' = 0 /\ ClearRefused' = 0 /\ Unanswered' = 1
        BY <1>1, <1>2, <1>4, <2>3, <3>1, <3>3 DEF Flip, Marks
      <4> QED
        BY <1>2, <3>2, <4>1, <4>2 DEF Pair, Marks
    <3>4. CASE shown = Clear
      <4>1. shown' = Set /\ on' = Clear
        BY <1>1, <1>2, <1>3, <3>2, <3>4 DEF Flip, Marks
      <4>2. SetSent' = 1 /\ ClearSent' = 0 /\ SetRefused' = 0 /\ ClearRefused' = 0 /\ Unanswered' = 1
        BY <1>1, <1>2, <1>4, <2>3, <3>1, <3>4 DEF Flip, Marks
      <4> QED
        BY <1>2, <3>2, <4>1, <4>2 DEF Pair, Marks
    <3> QED
      BY <1>2, <3>3, <3>4 DEF Marks
  <2>4. CASE Unanswered = 1
    <3>1. burst' = 2 /\ Unanswered' = 2 /\ SetRefused = 0 /\ ClearRefused = 0
      BY <1>1, <1>2, <2>1, <2>2, <2>4 DEF Pair, Marks
    <3>2. SetRefused' = 0 /\ ClearRefused' = 0 /\ on' = on
      BY <1>3, <1>4, <3>1
    <3>3. \/ SetSent = 1 /\ ClearSent = 0
          \/ SetSent = 0 /\ ClearSent = 1
          \/ SetSent = 0 /\ ClearSent = 0
      BY <1>2, <2>4 DEF Counts
    <3>4. CASE SetSent = 1 /\ ClearSent = 0
      <4>1. shown = Set /\ on = Clear
        BY <2>2, <3>1, <3>4 DEF Pair
      <4>2. shown' = Clear /\ SetSent' = 1 /\ ClearSent' = 1
        BY <1>1, <1>2, <1>4, <3>4, <4>1 DEF Flip, Marks
      <4> QED
        BY <3>1, <3>2, <4>1, <4>2 DEF Pair
    <3>5. CASE SetSent = 0 /\ ClearSent = 1
      <4>1. shown = Clear /\ on = Set
        BY <2>2, <3>1, <3>5 DEF Pair
      <4>2. shown' = Set /\ SetSent' = 1 /\ ClearSent' = 1
        BY <1>1, <1>2, <1>4, <3>5, <4>1 DEF Flip, Marks
      <4> QED
        BY <3>1, <3>2, <4>1, <4>2 DEF Pair
    <3>6. CASE SetSent = 0 /\ ClearSent = 0
      <4>1. shown = on
        BY <2>2, <3>1, <3>6 DEF Pair
      <4>2. CASE shown = Set
        <5>1. shown' = Clear /\ SetSent' = 0 /\ ClearSent' = 1
          BY <1>1, <1>2, <1>4, <3>6, <4>2 DEF Flip, Marks
        <5> QED
          BY <3>1, <3>2, <4>1, <4>2, <5>1 DEF Pair
      <4>3. CASE shown = Clear
        <5>1. shown' = Set /\ SetSent' = 1 /\ ClearSent' = 0
          BY <1>1, <1>2, <1>4, <3>6, <4>3 DEF Flip, Marks
        <5> QED
          BY <3>1, <3>2, <4>1, <4>3, <5>1 DEF Pair
      <4> QED
        BY <1>2, <4>2, <4>3 DEF Marks
    <3> QED
      BY <3>3, <3>4, <3>5, <3>6
  <2>5. Unanswered = 0 \/ Unanswered = 1
    BY <1>2, <2>1, <2>2 DEF Pair, Counts, Marks
  <2> QED
    BY <2>3, <2>4, <2>5
<1> QED
  BY <1>5, <1>6, <1>7 DEF Kept

\* How an answer moves the counts.
LEMMA AnswerMoves ==
  ASSUME Counted, NEW w \in BOOLEAN, NEW k \in BOOLEAN, Answer(w, k)
  PROVE  /\ w \in {Set, Clear} /\ k \in {Set, Clear} /\ Unanswered' = Unanswered
         /\ SetSent' = IF Set = w THEN SetSent - 1 ELSE SetSent
         /\ ClearSent' = IF Clear = w THEN ClearSent - 1 ELSE ClearSent
         /\ SetTaken' = IF Set = w /\ Set = k THEN SetTaken + 1 ELSE SetTaken
         /\ ClearTaken' = IF Clear = w /\ Set = k THEN ClearTaken + 1 ELSE ClearTaken
         /\ SetRefused' = IF Set = w /\ Clear = k THEN SetRefused + 1 ELSE SetRefused
         /\ ClearRefused' = IF Clear = w /\ Clear = k THEN ClearRefused + 1 ELSE ClearRefused
         /\ (w = Set => SetSent > 0) /\ (w = Clear => ClearSent > 0)
<1>1. w \in {Set, Clear} /\ k \in {Set, Clear}
  BY Truth, Zenon
<1>2. /\ Unanswered' = Unanswered
      /\ \A v \in {Set, Clear} : sent'[v] = IF v = w THEN sent[v] - 1 ELSE sent[v]
      /\ \A v, j \in {Set, Clear} : answered'[v][j] =
           IF v = w /\ j = k THEN answered[v][j] + 1 ELSE answered[v][j]
  BY AnswerCounts, Truth, Zenon
<1>3. sent[w] > 0
  BY Zenon DEF Answer
<1> QED
  BY <1>1, <1>2, <1>3, Zenon
     DEF SetSent, ClearSent, SetTaken, ClearTaken, SetRefused, ClearRefused

LEMMA ServeKeeps == ASSUME Types, Types', Kept, NEW want \in BOOLEAN, Serve(want) PROVE Kept'
<1>1. PICK k \in BOOLEAN :
        /\ Answer(want, k)
        /\ k = Set => ~Refuses(want) /\ on' = want
        /\ k = Clear => Refuses(want) /\ on' = on
  BY ServeEffect, Zenon
<1>2. /\ want \in {Set, Clear} /\ k \in {Set, Clear} /\ Unanswered' = Unanswered
      /\ SetSent' = IF Set = want THEN SetSent - 1 ELSE SetSent
      /\ ClearSent' = IF Clear = want THEN ClearSent - 1 ELSE ClearSent
      /\ SetTaken' = IF Set = want /\ Set = k THEN SetTaken + 1 ELSE SetTaken
      /\ ClearTaken' = IF Clear = want /\ Set = k THEN ClearTaken + 1 ELSE ClearTaken
      /\ SetRefused' = IF Set = want /\ Clear = k THEN SetRefused + 1 ELSE SetRefused
      /\ ClearRefused' = IF Clear = want /\ Clear = k THEN ClearRefused + 1 ELSE ClearRefused
      /\ (want = Set => SetSent > 0) /\ (want = Clear => ClearSent > 0)
  BY <1>1, AnswerMoves, Zenon DEF Types
<1>3. Counts /\ Marks /\ Marks'
  BY CountsNow, MarksNow, MarksNext DEF Types
<1>4. /\ (Refuses(want) => on = want) /\ (kind = "favorite" /\ on = want => Refuses(want))
  BY RefusesMeans
<1>5. /\ kind' = kind /\ shown' = shown /\ listed' = listed /\ disturbed' = disturbed /\ failed' = failed
      /\ burst' = burst /\ load' = load /\ snapshot' = snapshot /\ touched' = touched /\ cut' = cut
  BY Zenon DEF Serve, client, loading, history
<1>6. LoadKept'
  <2>1. Unanswered > 0
    BY <1>2, <1>3 DEF Counts
  <2>2. ~(load = "event" /\ touched = Clear)
    BY <1>3, <2>1 DEF Kept, LoadKept, Counts
  <2> QED
    BY <1>5, <2>2, Zenon DEF LoadKept
<1>h. ASSUME listed' = Set, disturbed' = Clear, burst' <= 1, cut' = Set PROVE Hidden'
  <2>1. Hidden
    BY <1>h, <1>5 DEF Kept, SingleKept
  <2>2. want = Set /\ on = Set
    BY <1>2, <1>3, <2>1 DEF Hidden, Counts
  <2>3. k = Clear /\ on' = Set
    BY <1>1, <1>2, <1>4, <2>1, <2>2 DEF Hidden
  <2> QED
    BY <1>2, <1>3, <1>5, <2>1, <2>2, <2>3 DEF Hidden, Counts, Marks
<1>7. SingleKept'
  <2> SUFFICES ASSUME listed' = Set /\ disturbed' = Clear /\ burst' <= 1, ~(cut' = Set)
               PROVE  Single'
    BY <1>h, Zenon DEF SingleKept
  <2>1. Single
    BY <1>5 DEF Kept, SingleKept
  <2>2. shown = want /\ on # want
    BY <1>2, <1>3, <2>1 DEF Single, Marks
  <2>3. k = Set /\ on' = want
    BY <1>1, <1>2, <1>4, <2>2
  <2>4. SetRefused = 0 /\ ClearRefused = 0
    BY <1>2, <1>3, <2>1 DEF Single, Counts
  <2>5. SetRefused' = 0 /\ ClearRefused' = 0
    BY <1>2, <1>3, <2>3, <2>4 DEF Marks
  <2>6. SetSent' = 0 /\ ClearSent' = 0
    BY <1>2, <1>3, <2>1 DEF Single, Counts, Marks
  <2> QED
    BY <1>2, <1>3, <1>5, <2>1, <2>2, <2>3, <2>5, <2>6 DEF Single
<1>8. PairKept'
  <2> SUFFICES ASSUME kind' = "favorite", listed' = Set, disturbed' = Clear, cut' = Clear, failed' = Clear,
                      burst' <= 2
               PROVE  Pair'
    BY Zenon DEF PairKept
  <2>1. Pair /\ kind = "favorite"
    BY <1>5 DEF Kept, PairKept
  <2>2. CASE on = want
    <3>1. k = Clear /\ on' = on
      BY <1>1, <1>2, <1>4, <2>1, <2>2
    <3>2. SetSent > 0 /\ ClearSent > 0
      BY <1>2, <1>3, <2>1, <2>2 DEF Pair, Counts, Marks
    <3>3. SetSent = 1 /\ ClearSent = 1 /\ SetRefused = 0 /\ ClearRefused = 0 /\ Unanswered = 2
      BY <1>3, <2>1, <3>2 DEF Pair, Counts
    <3>4. burst' <= 2 /\ ~(burst' <= 1) /\ Unanswered' = 2
      BY <1>2, <1>3, <1>5, <2>1, <3>3 DEF Pair, Marks
    <3>5. shown' = on' /\ on' = want
      BY <1>5, <2>1, <2>2, <3>1, <3>2 DEF Pair
    <3>6. CASE want = Set
      <4>1. SetSent' = 0 /\ ClearSent' = 1 /\ SetRefused' = 1 /\ ClearRefused' = 0
        BY <1>2, <1>3, <3>1, <3>3, <3>6 DEF Marks
      <4> QED
        BY <3>4, <3>5, <3>6, <4>1, <1>3 DEF Pair, Marks
    <3>7. CASE want = Clear
      <4>1. SetSent' = 1 /\ ClearSent' = 0 /\ SetRefused' = 0 /\ ClearRefused' = 1
        BY <1>2, <1>3, <3>1, <3>3, <3>7 DEF Marks
      <4> QED
        BY <3>4, <3>5, <3>7, <4>1, <1>3 DEF Pair, Marks
    <3> QED
      BY <1>2, <3>6, <3>7
  <2>3. CASE on # want
    <3>1. k = Set /\ on' = want
      BY <1>1, <1>2, <1>4, <2>3
    <3>2. SetRefused' = SetRefused /\ ClearRefused' = ClearRefused
      BY <1>2, <1>3, <3>1 DEF Marks
    <3>b. /\ Unanswered' <= 2 /\ (burst' <= 1 => Unanswered' <= 1) /\ (burst' = 0 => Unanswered' = 0)
          /\ burst' = burst /\ shown' = shown
      BY <1>2, <1>5, <2>1 DEF Pair
    <3>3. CASE want = Set
      <4>1. SetSent = 1 /\ SetSent' = 0 /\ ClearSent' = ClearSent
        BY <1>2, <1>3, <2>1, <3>3 DEF Pair, Counts, Marks
      <4>2. on = Clear /\ on' = Set
        BY <1>3, <2>3, <3>1, <3>3 DEF Marks
      <4>3. CASE ClearSent = 0
        BY <1>3, <2>1, <3>2, <3>b, <4>1, <4>2, <4>3 DEF Pair, Marks
      <4>4. CASE ClearSent > 0
        <5>1. shown = Clear /\ SetRefused = 0 /\ ClearRefused = 0
          BY <1>3, <2>1, <4>1, <4>2, <4>4 DEF Pair, Counts
        <5> QED
          BY <1>3, <2>1, <3>2, <3>b, <4>1, <4>2, <4>4, <5>1 DEF Pair, Counts, Marks
      <4> QED
        BY <1>3, <4>3, <4>4 DEF Counts
    <3>4. CASE want = Clear
      <4>1. ClearSent = 1 /\ ClearSent' = 0 /\ SetSent' = SetSent
        BY <1>2, <1>3, <2>1, <3>4 DEF Pair, Counts, Marks
      <4>2. on = Set /\ on' = Clear
        BY <1>3, <2>3, <3>1, <3>4 DEF Marks
      <4>3. CASE SetSent = 0
        BY <1>3, <2>1, <3>2, <3>b, <4>1, <4>2, <4>3 DEF Pair, Marks
      <4>4. CASE SetSent > 0
        <5>1. shown = Set /\ SetRefused = 0 /\ ClearRefused = 0
          BY <1>3, <2>1, <4>1, <4>2, <4>4 DEF Pair, Counts
        <5> QED
          BY <1>3, <2>1, <3>2, <3>b, <4>1, <4>2, <4>4, <5>1 DEF Pair, Counts, Marks
      <4> QED
        BY <1>3, <4>3, <4>4 DEF Counts
    <3> QED
      BY <1>2, <3>3, <3>4
  <2> QED
    BY <2>2, <2>3
<1> QED
  BY <1>6, <1>7, <1>8 DEF Kept

LEMMA FailKeeps == ASSUME Types, Types', Kept, NEW want \in BOOLEAN, Fail(want) PROVE Kept'
<1>1. Answer(want, Clear) /\ Clear \in BOOLEAN
  BY Zenon DEF Fail, Clear
<1>2. /\ want \in {Set, Clear} /\ Unanswered' = Unanswered
      /\ SetSent' = IF Set = want THEN SetSent - 1 ELSE SetSent
      /\ ClearSent' = IF Clear = want THEN ClearSent - 1 ELSE ClearSent
      /\ SetRefused' = IF Set = want THEN SetRefused + 1 ELSE SetRefused
      /\ ClearRefused' = IF Clear = want THEN ClearRefused + 1 ELSE ClearRefused
      /\ (want = Set => SetSent > 0) /\ (want = Clear => ClearSent > 0)
  BY <1>1, AnswerMoves DEF Types
<1>3. Counts /\ Marks /\ Marks'
  BY CountsNow, MarksNow, MarksNext DEF Types
<1>4. /\ failed' = Set /\ kind' = kind
      /\ on' = on /\ shown' = shown /\ listed' = listed /\ disturbed' = disturbed
      /\ burst' = burst /\ load' = load /\ snapshot' = snapshot /\ touched' = touched /\ cut' = cut
  BY Zenon DEF Fail, client, loading, Set
<1>5. LoadKept'
  BY <1>2, <1>4 DEF Kept, LoadKept
<1>h. ASSUME listed' = Set, disturbed' = Clear, burst' <= 1, cut' = Set PROVE Hidden'
  <2>1. Hidden
    BY <1>h, <1>4 DEF Kept, SingleKept
  <2> QED
    BY <1>2, <1>3, <1>4, <2>1 DEF Hidden, Counts, Marks
<1>6. SingleKept'
  <2> SUFFICES ASSUME listed' = Set /\ disturbed' = Clear /\ burst' <= 1, ~(cut' = Set)
               PROVE  Single'
    BY <1>h, Zenon DEF SingleKept
  <2>1. Single
    BY <1>4 DEF Kept, SingleKept
  <2> QED
    BY <1>2, <1>3, <1>4, <2>1 DEF Single, Counts, Marks
<1>7. PairKept'
  BY <1>4, Truth, Zenon DEF PairKept
<1> QED
  BY <1>5, <1>6, <1>7 DEF Kept

\* A lost answer and another client leave nothing promised.
LEMMA DisturbedKeeps ==
  ASSUME Types, Types', NEW want \in BOOLEAN, LoseAnswer(want) \/ ChangeElsewhere
  PROVE  Kept'
<1>1. touched' = Set /\ disturbed' = Set
  BY Zenon DEF LoseAnswer, ChangeElsewhere, Set
<1> QED
  BY <1>1, Truth, Zenon DEF Kept, LoadKept, SingleKept, PairKept

LEMMA ApplyKeeps ==
  ASSUME Types, Types', Kept, NEW want \in BOOLEAN, NEW ok \in BOOLEAN, ApplyAnswer(want, ok)
  PROVE  Kept'
<1>1. /\ Unanswered' = Unanswered - 1
      /\ answered[want][ok] > 0 /\ sent' = sent
      /\ \A v, j \in {Set, Clear} : answered'[v][j] =
           IF v = want /\ j = ok THEN answered[v][j] - 1 ELSE answered[v][j]
      /\ ok = Set => shown' = shown
      /\ ok = Clear => shown' = IF kind = "read" /\ reach = Clear THEN shown ELSE Flip(want)
      /\ want \in {Set, Clear} /\ ok \in {Set, Clear}
  BY ApplyEffect, Truth, Zenon
<1>2. Counts /\ Marks /\ Marks'
  BY CountsNow, MarksNow, MarksNext DEF Types
<1>3. /\ kind' = kind /\ on' = on /\ listed' = listed /\ disturbed' = disturbed /\ failed' = failed
      /\ burst' = burst /\ load' = load /\ snapshot' = snapshot /\ touched' = touched /\ cut' = cut
  BY Zenon DEF ApplyAnswer, loading, history
<1>4. /\ SetSent' = SetSent /\ ClearSent' = ClearSent
      /\ SetTaken' = IF Set = want /\ Set = ok THEN SetTaken - 1 ELSE SetTaken
      /\ ClearTaken' = IF Clear = want /\ Set = ok THEN ClearTaken - 1 ELSE ClearTaken
      /\ SetRefused' = IF Set = want /\ Clear = ok THEN SetRefused - 1 ELSE SetRefused
      /\ ClearRefused' = IF Clear = want /\ Clear = ok THEN ClearRefused - 1 ELSE ClearRefused
      /\ (want = Set /\ ok = Set => SetTaken > 0) /\ (want = Clear /\ ok = Set => ClearTaken > 0)
      /\ (want = Set /\ ok = Clear => SetRefused > 0) /\ (want = Clear /\ ok = Clear => ClearRefused > 0)
  BY <1>1, Zenon DEF SetSent, ClearSent, SetTaken, ClearTaken, SetRefused, ClearRefused
<1>5. Unanswered > 0
  BY <1>1, <1>2, <1>4 DEF Counts
<1>6. LoadKept'
  <2>1. ~(load = "event" /\ touched = Clear)
    BY <1>2, <1>5 DEF Kept, LoadKept, Counts
  <2> QED
    BY <1>3, <2>1, Zenon DEF LoadKept
<1>h. ASSUME listed' = Set, disturbed' = Clear, burst' <= 1, cut' = Set PROVE Hidden'
  <2>1. Hidden
    BY <1>h, <1>3 DEF Kept, SingleKept
  <2>2. ~(kind = "read" /\ reach = Clear)
    BY <1>h, <1>3, Truth, Zenon DEF Types, Reached
  <2>3. Hidden'
    BY <1>1, <1>2, <1>3, <1>4, <1>5, <2>1, <2>2 DEF Hidden, Counts, Marks, Flip
  <2> QED
    BY <2>3
<1>7. SingleKept'
  <2> SUFFICES ASSUME listed' = Set /\ disturbed' = Clear /\ burst' <= 1, ~(cut' = Set)
               PROVE  Single'
    BY <1>h, Zenon DEF SingleKept
  <2>1. Single
    BY <1>3 DEF Kept, SingleKept
  <2>2. ~(kind = "read" /\ reach = Clear)
    BY <1>3, Truth, Zenon DEF Types, Reached
  <2>3. CASE ok = Set
    BY <1>1, <1>2, <1>3, <1>4, <1>5, <2>1, <2>3 DEF Single, Counts, Marks
  <2>4. CASE ok = Clear
    <3>1. shown' = Flip(want)
      BY <1>1, <2>2, <2>4, Zenon
    <3>2. on # want
      BY <1>1, <1>2, <1>4, <2>1, <2>4 DEF Single, Marks
    <3> QED
      BY <1>1, <1>2, <1>3, <1>4, <2>1, <2>4, <3>1, <3>2 DEF Single, Counts, Marks, Flip
  <2> QED
    BY <1>1, <2>3, <2>4
<1>8. PairKept'
  <2> SUFFICES ASSUME kind' = "favorite", listed' = Set, disturbed' = Clear, cut' = Clear, failed' = Clear,
                      burst' <= 2
               PROVE  Pair'
    BY Zenon DEF PairKept
  <2>1. Pair /\ kind = "favorite"
    BY <1>3 DEF Kept, PairKept
  <2>2. CASE ok = Set
    <3>1. SetRefused' = SetRefused /\ ClearRefused' = ClearRefused /\ shown' = shown
      BY <1>1, <1>2, <1>4, <2>2 DEF Marks
    <3>2. /\ Unanswered' <= 2 /\ (burst' <= 1 => Unanswered' <= 1) /\ (burst' = 0 => Unanswered' = 0)
      BY <1>1, <1>2, <1>3, <1>5, <2>1 DEF Pair, Counts, Marks
    <3> QED
      BY <1>3, <1>4, <2>1, <3>1, <3>2 DEF Pair
  <2>3. CASE ok = Clear
    <3>1. shown' = Flip(want)
      BY <1>1, <2>1, <2>3, Zenon
    <3>2. /\ Unanswered' <= 2 /\ (burst' <= 1 => Unanswered' <= 1) /\ (burst' = 0 => Unanswered' = 0)
      BY <1>1, <1>2, <1>3, <1>5, <2>1 DEF Pair, Counts, Marks
    <3>3. SetSent' = SetSent /\ ClearSent' = ClearSent /\ on' = on
      BY <1>3, <1>4
    <3>4. CASE want = Set
      <4>1. SetRefused = 1 /\ ClearRefused = 0 /\ ~(SetSent > 0 /\ ClearSent > 0)
        BY <1>2, <1>4, <2>1, <2>3, <3>4 DEF Pair, Counts
      <4>2. SetRefused' = 0 /\ ClearRefused' = 0 /\ shown' = Clear
        BY <1>2, <1>4, <2>3, <3>1, <3>4, <4>1 DEF Flip, Marks
      <4> QED
        BY <1>2, <2>1, <3>2, <3>3, <4>1, <4>2 DEF Pair, Counts
    <3>5. CASE want = Clear
      <4>1. SetRefused = 0 /\ ClearRefused = 1 /\ ~(SetSent > 0 /\ ClearSent > 0)
        BY <1>2, <1>4, <2>1, <2>3, <3>5 DEF Pair, Counts
      <4>2. SetRefused' = 0 /\ ClearRefused' = 0 /\ shown' = Set
        BY <1>2, <1>4, <2>3, <3>1, <3>5, <4>1 DEF Flip, Marks
      <4> QED
        BY <1>2, <2>1, <3>2, <3>3, <4>1, <4>2 DEF Pair, Counts
    <3> QED
      BY <1>1, <3>4, <3>5
  <2> QED
    BY <1>1, <2>2, <2>3
<1> QED
  BY <1>6, <1>7, <1>8 DEF Kept

\* What moves no request and no mark leaves what is promised.
LEMMA StillKept ==
  ASSUME Types, SingleKept, PairKept, UNCHANGED requests,
         UNCHANGED <<kind, on, shown, listed, disturbed, cut, failed, burst>>
  PROVE  SingleKept' /\ PairKept'
<1>1. /\ SetSent' = SetSent /\ ClearSent' = ClearSent /\ SetRefused' = SetRefused
      /\ ClearRefused' = ClearRefused /\ Unanswered' = Unanswered
  BY CountsStay, Zenon DEF SetSent, ClearSent, SetRefused, ClearRefused
<1>2. /\ kind' = kind /\ on' = on /\ shown' = shown /\ listed' = listed /\ disturbed' = disturbed
      /\ cut' = cut /\ failed' = failed /\ burst' = burst
  OBVIOUS
<1>3. (Single => Single') /\ (Hidden => Hidden') /\ (Pair => Pair')
  BY <1>1, <1>2 DEF Single, Hidden, Pair
<1> QED
  BY <1>2, <1>3, Zenon DEF SingleKept, PairKept

\* A list that replaces the mark promises what it brings, with nothing on the way.
LEMMA ReplacedKept ==
  ASSUME Types, UNCHANGED requests, burst' = 0,
         NEW reading \in {"listed", "cut", "absent"},
         shown' = (reading = "listed"), cut' = (reading = "cut"),
         disturbed' = Clear /\ listed' = Set =>
           /\ Unanswered = 0
           /\ on' = IF reading = "absent" THEN Clear ELSE Set
           /\ reading = "cut" => kind' = "favorite"
  PROVE  SingleKept' /\ PairKept'
<1> SUFFICES ASSUME disturbed' = Clear, listed' = Set
             PROVE  (IF cut' = Set THEN Hidden' ELSE Single') /\ (cut' = Clear => Pair')
  BY Zenon DEF SingleKept, PairKept
<1>1. Counts
  BY CountsNow DEF Types
<1>2. Unanswered = 0 /\ on' = IF reading = "absent" THEN Clear ELSE Set
  OBVIOUS
<1>3. SetSent = 0 /\ ClearSent = 0 /\ SetRefused = 0 /\ ClearRefused = 0
  BY <1>1, <1>2 DEF Counts
<1>4. SetSent' = 0 /\ ClearSent' = 0 /\ SetRefused' = 0 /\ ClearRefused' = 0 /\ Unanswered' = 0
  BY <1>2, <1>3, CountsStay, Zenon DEF SetSent, ClearSent, SetRefused, ClearRefused
<1>5. /\ shown' = IF reading = "listed" THEN Set ELSE Clear
      /\ cut' = IF reading = "cut" THEN Set ELSE Clear
  <2>1. shown' \in BOOLEAN /\ cut' \in BOOLEAN
    OBVIOUS
  <2>2. (shown' <=> shown' = Set) /\ (~shown' <=> shown' = Clear)
        /\ (cut' <=> cut' = Set) /\ (~cut' <=> cut' = Clear)
    BY <2>1, TruthMeans, Zenon
  <2>3. (shown' <=> reading = "listed") /\ (cut' <=> reading = "cut")
    OBVIOUS
  <2> QED
    BY <2>2, <2>3, Zenon
<1>6. CASE reading = "cut"
  <2>1. kind' = "favorite" /\ on' = Set /\ shown' = Clear /\ cut' = Set
    BY <1>2, <1>5, <1>6
  <2> QED
    BY <1>4, <2>1, Truth DEF Hidden
<1>7. CASE reading # "cut"
  <2>1. shown' = on' /\ cut' = Clear
    BY <1>2, <1>5, <1>7
  <2> QED
    BY <1>4, <2>1, Truth DEF Single, Pair
<1> QED
  BY <1>6, <1>7

\* What the server lists, and what it leaves out.
LEMMA ReadingsMean ==
  ASSUME Types, NEW reading \in Readings
  PROVE  /\ reading \in {"listed", "cut", "absent"}
         /\ on = IF reading = "absent" THEN Clear ELSE Set
         /\ reading = "cut" => kind = "favorite"
<1>1. (on <=> on = Set) /\ (~on <=> on = Clear)
  BY TruthMeans DEF Types, Bits
<1>2. CASE on
  BY <1>1, <1>2 DEF Readings
<1>3. CASE ~on
  BY <1>1, <1>3 DEF Readings
<1> QED
  BY <1>2, <1>3

LEMMA ReloadKeeps ==
  ASSUME Types, Types', Kept, ReloadMarks \/ ReloadEntries
  PROVE  Kept'
<1>1. /\ UNCHANGED requests /\ UNCHANGED <<kind, on, loading, touched>>
      /\ burst' = 0 /\ disturbed' = (Unanswered > 0)
  BY Zenon DEF ReloadMarks, ReloadEntries, Replace
<1>2. disturbed' = Clear => Unanswered = 0
  <2>1. ASSUME disturbed' = Clear PROVE ~(Unanswered > 0)
    BY <1>1, <2>1, Zenon DEF Clear
  <2> QED
    BY <2>1, CountsNow DEF Types, Counts
<1>3. SingleKept' /\ PairKept'
  <2>1. CASE ReloadMarks
    <3>1. PICK reading \in Readings : shown' = (reading = "listed") /\ cut' = (reading = "cut")
      BY <2>1, Zenon DEF ReloadMarks, Replace
    <3>2. /\ reading \in {"listed", "cut", "absent"}
          /\ on = IF reading = "absent" THEN Clear ELSE Set
          /\ reading = "cut" => kind = "favorite"
      BY ReadingsMean
    <3> QED
      BY <1>1, <1>2, <3>1, <3>2, ReplacedKept
  <2>2. CASE ReloadEntries
    <3> DEFINE reading == IF on /\ reach' THEN "listed" ELSE "absent"
    <3>1. /\ shown' = (reading = "listed") /\ cut' = (reading = "cut")
          /\ reading \in {"listed", "cut", "absent"} /\ reading # "cut"
      BY <2>2 DEF ReloadEntries, Replace
    <3>2. listed' = Set => on' = IF reading = "absent" THEN Clear ELSE Set
      <4> SUFFICES ASSUME listed' = Set PROVE on' = IF reading = "absent" THEN Clear ELSE Set
        OBVIOUS
      <4>1. reach' = TRUE
        BY <2>2, Zenon DEF ReloadEntries, Set
      <4>2. (on <=> on = Set) /\ (~on <=> on = Clear)
        BY TruthMeans DEF Types, Bits
      <4> QED
        BY <1>1, <4>1, <4>2
    <3> HIDE DEF reading
    <3> QED
      BY <1>1, <1>2, <3>1, <3>2, ReplacedKept
  <2> QED
    BY <2>1, <2>2
<1>4. LoadKept'
  <2>1. Unanswered' = Unanswered
    BY <1>1, CountsStay, Zenon
  <2> QED
    BY <1>1, <2>1, Zenon DEF Kept, LoadKept, loading
<1> QED
  BY <1>3, <1>4 DEF Kept

LEMMA LoadReadKeeps == ASSUME Types, Kept, LoadRead PROVE Kept'
<1>1. /\ UNCHANGED requests /\ UNCHANGED <<kind, on, shown, listed, disturbed, cut, failed, burst>>
      /\ snapshot' \in Readings /\ touched' = (Unanswered > 0)
  BY Zenon DEF LoadRead, client
<1>2. SingleKept' /\ PairKept'
  BY <1>1, StillKept, Zenon DEF Kept
<1>3. touched' = Clear => Unanswered = 0
  <2>1. ASSUME touched' = Clear PROVE ~(Unanswered > 0)
    BY <1>1, <2>1, Zenon DEF Clear
  <2> QED
    BY <2>1, CountsNow DEF Types, Counts
<1>4. Unanswered' = Unanswered
  BY <1>1, CountsStay, Zenon
<1>5. /\ on = IF snapshot' = "absent" THEN Clear ELSE Set
      /\ snapshot' = "cut" => kind = "favorite"
  BY <1>1, ReadingsMean, Zenon
<1>6. LoadKept'
  BY <1>1, <1>3, <1>4, <1>5, Zenon DEF LoadKept
<1> QED
  BY <1>2, <1>6 DEF Kept

LEMMA ApplyLoadKeeps == ASSUME Types, Kept, ApplyLoad PROVE Kept'
<1>1. UNCHANGED requests /\ UNCHANGED <<kind, on>> /\ load = "event"
  BY Zenon DEF ApplyLoad
<1>2. LoadKept'
  BY DEF ApplyLoad, LoadKept
<1>3. CASE kind = "read"
  <2>1. UNCHANGED <<shown, listed, disturbed, cut, failed, burst>>
    BY <1>3, Zenon DEF ApplyLoad, client
  <2> QED
    BY <1>1, <1>2, <2>1, StillKept, Zenon DEF Kept
<1>4. CASE kind # "read"
  <2>1. /\ burst' = 0 /\ disturbed' = touched
        /\ shown' = (snapshot = "listed") /\ cut' = (snapshot = "cut")
    BY <1>4, Zenon DEF ApplyLoad, Replace, FromSnapshot
  <2>2. disturbed' = Clear =>
          /\ Unanswered = 0
          /\ on' = IF snapshot = "absent" THEN Clear ELSE Set
          /\ snapshot = "cut" => kind' = "favorite"
    BY <1>1, <2>1, Zenon DEF Kept, LoadKept
  <2>3. snapshot \in {"listed", "cut", "absent"}
    BY DEF Types, Counters
  <2>4. SingleKept' /\ PairKept'
    BY <1>1, <2>1, <2>2, <2>3, ReplacedKept
  <2> QED
    BY <1>2, <2>4 DEF Kept
<1> QED
  BY <1>3, <1>4

LEMMA InitKept == Init => Kept
<1> SUFFICES ASSUME Init PROVE Kept
  OBVIOUS
<1>1. listed = Clear /\ load = "reading"
  BY Zenon DEF Init, Clear
<1> QED
  BY <1>1, Truth DEF Kept, LoadKept, SingleKept, PairKept

LEMMA KeptStep == ASSUME Types, Kept, [Next]_vars PROVE Kept'
<1>1. Types'
  BY TypesStep
<1>2. CASE Toggle
  BY <1>1, <1>2, ToggleKeeps
<1>3. ASSUME NEW want \in BOOLEAN, Serve(want) \/ Fail(want) \/ LoseAnswer(want) PROVE Kept'
  BY <1>1, <1>3, ServeKeeps, FailKeeps, DisturbedKeeps, Zenon
<1>4. ASSUME NEW want \in BOOLEAN, NEW ok \in BOOLEAN, ApplyAnswer(want, ok) PROVE Kept'
  BY <1>1, <1>4, ApplyKeeps, Zenon
<1>5. CASE ChangeElsewhere
  <2>1. TRUE \in BOOLEAN
    OBVIOUS
  <2> QED
    BY <1>1, <1>5, <2>1, DisturbedKeeps, Zenon
<1>6. CASE ReloadMarks \/ ReloadEntries
  BY <1>1, <1>6, ReloadKeeps
<1>7. CASE LoadRead
  BY <1>7, LoadReadKeeps
<1>8. CASE ApplyLoad
  BY <1>8, ApplyLoadKeeps
<1>9. CASE ReloadFeeds \/ LoadFails \/ UNCHANGED vars
  <2>1. UNCHANGED requests /\ UNCHANGED <<kind, on, shown, listed, disturbed, cut, failed, burst>>
    BY <1>9, Zenon DEF ReloadFeeds, LoadFails, vars, client, history
  <2>2. SingleKept' /\ PairKept'
    BY <2>1, StillKept, Zenon DEF Kept
  <2>3. Unanswered' = Unanswered
    BY <2>1, CountsStay, Zenon
  <2>4. load' = "over" \/ UNCHANGED <<load, snapshot, touched>>
    BY <1>9, Zenon DEF ReloadFeeds, LoadFails, vars, loading, history
  <2>5. LoadKept'
    <3>1. CASE load' = "over"
      BY <3>1 DEF LoadKept
    <3>2. CASE UNCHANGED <<load, snapshot, touched>>
      BY <2>1, <2>3, <3>2, Zenon DEF Kept, LoadKept
    <3> QED
      BY <2>4, <3>1, <3>2
  <2> QED
    BY <2>2, <2>5 DEF Kept
<1> QED
  BY <1>2, <1>3, <1>4, <1>5, <1>6, <1>7, <1>8, <1>9, Zenon DEF Next

----------------------------------------------------------------------------
\* Nothing on the way, and no refusal waits: what is promised is what is shown.
LEMMA KeptAgrees ==
  ASSUME Types, Kept
  PROVE  SettledAgrees /\ FavoriteStandsOvertaking
<1>1. ASSUME Settled PROVE listed = Set /\ disturbed = Clear /\ Unanswered = 0
  BY <1>1, TruthMeans, Zenon DEF Settled, Types, Bits
<1>2. ASSUME Unanswered = 0 PROVE SetSent = 0 /\ ClearSent = 0 /\ SetRefused = 0 /\ ClearRefused = 0
  <2>1. Counts
    BY CountsNow DEF Types
  <2> QED
    BY <1>2, <2>1 DEF Counts
<1>3. ASSUME Settled, burst <= 1 PROVE IF cut THEN on /\ ~shown ELSE Agrees
  <2>1. /\ (cut <=> cut = Set) /\ (on <=> on = Set) /\ (~shown <=> shown = Clear)
    BY TruthMeans, Zenon DEF Types, Bits
  <2>2. CASE cut
    <3>1. Hidden
      BY <1>1, <1>3, <2>1, <2>2, Zenon DEF Kept, SingleKept
    <3> QED
      BY <1>1, <1>2, <1>3, <2>1, <2>2, <3>1, Zenon DEF Hidden
  <2>3. CASE ~cut
    <3>1. Single
      BY <1>1, <1>3, <2>1, <2>3, Zenon DEF Kept, SingleKept
    <3> QED
      BY <1>1, <1>2, <1>3, <2>3, <3>1, Zenon DEF Single, Agrees
  <2> QED
    BY <2>2, <2>3
<1>4. ASSUME kind = "favorite", Settled, ~cut, ~failed, burst <= 2 PROVE Agrees
  <2>1. failed = Clear /\ cut = Clear
    BY <1>4, TruthMeans, Zenon DEF Types, Bits
  <2>2. Pair
    BY <1>1, <1>4, <2>1, Zenon DEF Kept, PairKept
  <2> QED
    BY <1>1, <1>2, <1>4, <2>2, Zenon DEF Pair, Agrees
<1> QED
  BY <1>3, <1>4, Zenon DEF SettledAgrees, FavoriteStandsOvertaking

LEMMA AlwaysKept == Spec => [](Types /\ Kept)
<1>1. Init => Types /\ Kept
  BY InitTypes, InitKept
<1>2. Types /\ Kept /\ [Next]_vars => Types' /\ Kept'
  BY TypesStep, KeptStep
<1> QED
  BY <1>1, <1>2, PTL DEF Spec

\* Toggled one request at a time, a mark comes to agree with the server.
THEOREM MarksSettle == Spec => []SettledAgrees
<1>1. Types /\ Kept => SettledAgrees
  BY KeptAgrees
<1> QED
  BY <1>1, AlwaysKept, PTL

\* Two requests for a favourite may overtake one another: it agrees all the same.
THEOREM FavoritesSettle == Spec => []FavoriteStandsOvertaking
<1>1. Types /\ Kept => FavoriteStandsOvertaking
  BY KeptAgrees
<1> QED
  BY <1>1, AlwaysKept, PTL
==============================================================================
