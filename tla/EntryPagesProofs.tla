-------------------------- MODULE EntryPagesProofs ---------------------------
(***************************************************************************)
(* Proof that paging skips no more entries than have left the scope, for   *)
(* every set of entries, page size and limit of the server.                *)
(***************************************************************************)
EXTENDS EntryPages, FiniteSetTheorems, WellFoundedInduction, TLAPS

----------------------------------------------------------------------------
(* Ranks: the position of an entry in the order of the server.  They number *)
(* the entries of a set without gaps, from 0.                               *)

LEMMA RankType ==
  ASSUME NEW S \in SUBSET Nat, IsFiniteSet(S), NEW i
  PROVE  Rank(i, S) \in Nat
  BY FS_Subset, FS_CardinalityType DEF Rank

LEMMA RankDecreases ==
  ASSUME NEW S \in SUBSET Nat, IsFiniteSet(S), NEW i \in S, NEW j \in S, i < j
  PROVE  Rank(j, S) < Rank(i, S)
<1> DEFINE Above(k) == {l \in S : l > k}
<1>1. IsFiniteSet(Above(i)) /\ IsFiniteSet(Above(j))
  BY FS_Subset
<1>2. Above(j) \cup {j} \subseteq Above(i) /\ j \notin Above(j)
  <2>1. i \in Nat /\ j \in Nat /\ \A l \in S : l \in Nat
    OBVIOUS
  <2>2. \A l \in S : l > j => l > i
    BY <2>1
  <2>3. ~(j > j) /\ j > i
    BY <2>1
  <2> QED
    BY <2>2, <2>3
<1>3. Cardinality(Above(j) \cup {j}) = Cardinality(Above(j)) + 1 /\ IsFiniteSet(Above(j) \cup {j})
  BY <1>1, <1>2, FS_AddElement
<1>4. Cardinality(Above(j) \cup {j}) <= Cardinality(Above(i))
  BY <1>1, <1>2, FS_Subset
<1>5. Cardinality(Above(i)) \in Nat /\ Cardinality(Above(j)) \in Nat
  BY <1>1, FS_CardinalityType
<1> QED
  BY <1>3, <1>4, <1>5 DEF Rank

\* No more than k entries have their ranks in an interval of length k.
LEMMA FewInInterval ==
  ASSUME NEW S \in SUBSET Nat, IsFiniteSet(S), NEW T \in SUBSET S, NEW a \in Nat, NEW k \in Nat,
         \A i \in T : a <= Rank(i, S) /\ Rank(i, S) < a + k
  PROVE  IsFiniteSet(T) /\ Cardinality(T) \in Nat /\ Cardinality(T) <= k
<1> DEFINE R == a..(a + k - 1)
           f == [i \in T |-> Rank(i, S)]
<1>1. IsFiniteSet(T) /\ Cardinality(T) \in Nat
  BY FS_Subset, FS_CardinalityType
<1>2. IsFiniteSet(R) /\ Cardinality(R) = k
  <2>1. a \in Int /\ a + k - 1 \in Int
    OBVIOUS
  <2>2. Cardinality(R) = IF a > a + k - 1 THEN 0 ELSE (a + k - 1) - a + 1
    BY <2>1, FS_Interval
  <2> QED
    BY <2>1, <2>2, FS_Interval
<1>3. f \in [T -> R]
  <2>1. \A i \in T : Rank(i, S) \in R
    BY RankType
  <2> QED
    BY <2>1
<1>4. ASSUME Cardinality(T) > k PROVE FALSE
  <2> HIDE DEF R, f
  <2>1. Cardinality(R) < Cardinality(T)
    BY <1>1, <1>2, <1>4
  <2>2. \E x, y \in T : x # y /\ f[x] = f[y]
    BY <1>1, <1>2, <1>3, <2>1, FS_PigeonHole
  <2> USE DEF f
  <2>3. PICK x, y \in T : x # y /\ Rank(x, S) = Rank(y, S)
    BY <2>2
  <2>4. x \in Nat /\ y \in Nat /\ Rank(x, S) \in Nat /\ Rank(y, S) \in Nat
    BY <2>3, RankType
  <2> QED
    BY <2>3, <2>4, RankDecreases
<1> QED
  BY <1>1, <1>4

\* An entry behind a place in the order means that there is one at that place.
LEMMA NoGap ==
  ASSUME NEW S \in SUBSET Nat, IsFiniteSet(S), NEW o \in Nat, NEW i \in S, o <= Rank(i, S)
  PROVE  \E j \in S : Rank(j, S) = o
<1> DEFINE Ranks == {Rank(k, S) : k \in {l \in S : o <= Rank(l, S)}}
<1>1. Ranks \subseteq Nat /\ Ranks # {}
  BY RankType
<1>2. PICK m \in Ranks : \A n \in Ranks : ~(n < m)
  <2>1. PICK m \in Ranks : \A n \in Ranks : <<n, m>> \notin OpToRel(<, Nat)
    BY <1>1, WFMin, NatLessThanWellFounded
  <2> QED
    BY <1>1, <2>1 DEF OpToRel
<1>3. PICK j \in S : Rank(j, S) = m /\ o <= m
  BY <1>2
<1>4. CASE m = o
  BY <1>3, <1>4
<1>5. CASE m # o
  <2> DEFINE T == {k \in S : k > j}
  <2>1. m \in Nat /\ o < m
    BY <1>1, <1>3, <1>5
  <2>2. \A k \in T : 0 <= Rank(k, S) /\ Rank(k, S) < 0 + o
    <3>1. TAKE k \in T
    <3>2. Rank(k, S) \in Nat /\ Rank(k, S) < m
      BY <1>3, RankType, RankDecreases
    <3>3. Rank(k, S) \notin Ranks
      BY <1>2, <3>2
    <3> QED
      BY <3>2, <3>3
  <2>3. Cardinality(T) \in Nat /\ Cardinality(T) <= o
    BY <2>2, FewInInterval
  <2> QED
    BY <1>3, <2>1, <2>3 DEF Rank
<1> QED
  BY <1>4, <1>5

----------------------------------------------------------------------------
(* What one page and the next offset have to do with each other. *)

LEMMA LimitType == Limit \in Nat \ {0}
  BY EntryPagesAssumption DEF Limit

LEMMA PageSmall ==
  ASSUME NEW S \in SUBSET Nat, IsFiniteSet(S), NEW o \in Nat
  PROVE  Cardinality(Page(S, o)) \in Nat /\ Cardinality(Page(S, o)) <= Limit
<1>1. Page(S, o) \in SUBSET S
  BY DEF Page
<1>2. \A i \in Page(S, o) : o <= Rank(i, S) /\ Rank(i, S) < o + Limit
  BY DEF Page
<1> QED
  BY <1>1, <1>2, LimitType, FewInInterval

LEMMA NextOffsetType ==
  ASSUME NEW S \in SUBSET Nat, IsFiniteSet(S), NEW o \in Nat, NextOffset(Page(S, o), o) # None
  PROVE  NextOffset(Page(S, o), o) \in Nat /\ o <= NextOffset(Page(S, o), o)
  BY PageSmall DEF NextOffset

\* Of the entries that are not on the page at o, the pages that follow leave out no
\* others than those before o.
LEMMA NothingBetween ==
  ASSUME NEW S \in SUBSET Nat, IsFiniteSet(S), NEW o \in Nat, NEW i \in S \ Page(S, o),
         NextOffset(Page(S, o), o) = None \/ Rank(i, S) < NextOffset(Page(S, o), o)
  PROVE  Rank(i, S) < o
<1>1. Rank(i, S) \in Nat /\ Limit \in Nat /\ 0 < Limit
  BY RankType, LimitType
<1>2. CASE Page(S, o) = {}
  <2>1. ASSUME o <= Rank(i, S) PROVE FALSE
    <3>1. PICK j \in S : Rank(j, S) = o
      BY <2>1, NoGap
    <3>2. o <= Rank(j, S) /\ Rank(j, S) < o + Limit
      BY <1>1, <3>1
    <3> QED
      BY <1>2, <3>2 DEF Page
  <2> QED
    BY <1>1, <2>1
<1>3. CASE Page(S, o) # {}
  <2>1. NextOffset(Page(S, o), o) = o + Cardinality(Page(S, o))
    BY <1>3 DEF NextOffset
  <2>2. Cardinality(Page(S, o)) \in Nat /\ Cardinality(Page(S, o)) <= Limit
    BY PageSmall
  <2>3. Rank(i, S) < o + Cardinality(Page(S, o))
    BY <2>1, <2>2, EntryPagesAssumption
  <2>4. Rank(i, S) < o \/ o + Limit <= Rank(i, S)
    BY <1>1 DEF Page
  <2> QED
    BY <1>1, <2>2, <2>3, <2>4
<1> QED
  BY <1>2, <1>3

----------------------------------------------------------------------------
(* The invariant, and the steps of the client. *)

IInv == TypeOK /\ SkipsOnlyForDeparted

LEMMA ScopeFinite ==
  ASSUME TypeOK, NEW m, NEW f
  PROVE  Selected(m, f) \in SUBSET Nat /\ IsFiniteSet(Selected(m, f))
  BY EntryPagesAssumption, FS_Subset DEF TypeOK, Selected

LEMMA SkippedFinite ==
  ASSUME TypeOK, walking
  PROVE  IsFiniteSet(due) /\ IsFiniteSet(Skipped) /\ Skipped \subseteq due
<1>1. due \subseteq Selected(mode, filter)
  BY DEF TypeOK
<1>2. IsFiniteSet(due) /\ Skipped \subseteq due
  BY <1>1, ScopeFinite, FS_Subset DEF Skipped
<1> QED
  BY <1>2, FS_Subset

\* An answer at the first page, or at a place that is not beyond the next page.
LEMMA LoadedIInv ==
  ASSUME IInv, NEW m \in Modes, NEW f \in Filters, NEW o \in Nat,
         o = 0 \/ (m = mode /\ f = filter /\ (next # None => o <= next)),
         mode' = m, filter' = f, offset' = o, tab' \in BOOLEAN,
         UNCHANGED <<tables, changes>>, Loaded(m, f, o)
  PROVE  IInv'
<1> DEFINE S == Selected(m, f)
<1>1. S \in SUBSET Nat /\ IsFiniteSet(S)
  BY ScopeFinite DEF IInv
<1>2. Selected(mode, filter)' = S
  BY DEF Selected, InScope, Passes, tables
<1>3. /\ next' = NextOffset(Page(S, o), o)
      /\ walking' = (o = 0 \/ walking)
      /\ due' = IF o = 0 THEN S \ Page(S, o) ELSE due \ Page(S, o)
      /\ departed' = IF o = 0 THEN 0 ELSE departed
  BY DEF Loaded
<1> HIDE DEF S
<1>4. walking' => due' \subseteq S
  <2>1. CASE o = 0
    BY <1>3, <2>1
  <2>2. CASE o # 0
    BY <1>3, <2>2 DEF IInv, TypeOK, S
  <2> QED
    BY <2>1, <2>2
<1>5. TypeOK'
  <2>1. next' # None => next' \in Nat /\ o <= next'
    BY <1>1, <1>3, NextOffsetType
  <2>2. due' \subseteq IF walking' THEN S ELSE {}
    BY <1>3, <1>4 DEF IInv, TypeOK
  <2>3. m # None
    BY EntryPagesAssumption DEF Modes
  <2> QED
    BY <1>2, <1>3, <2>1, <2>2, <2>3 DEF IInv, TypeOK, tables
<1>6. ASSUME walking' PROVE Cardinality(Skipped') <= departed'
  <2>1. \A i \in Skipped' : i \in due' /\ i \in S \ Page(S, o) /\ Rank(i, S) < o
    <3>1. TAKE i \in Skipped'
    <3>2. i \in due' /\ (next' = None \/ Rank(i, S) < next')
      BY <1>2, <3>1 DEF Skipped
    <3>3. i \in S \ Page(S, o)
      BY <1>3, <1>4, <1>6, <3>2
    <3> QED
      BY <1>1, <1>3, <3>2, <3>3, NothingBetween
  <2>2. CASE o = 0
    <3>1. Skipped' = {}
      BY <1>1, <2>1, <2>2, RankType
    <3> QED
      BY <1>3, <2>2, <3>1, FS_EmptySet
  <2>3. CASE o # 0
    <3>1. walking /\ m = mode /\ f = filter /\ (next # None => o <= next)
      BY <1>3, <1>6, <2>3
    <3>2. Skipped' \subseteq Skipped
      <4>1. SUFFICES ASSUME NEW i \in Skipped' PROVE i \in Skipped
        OBVIOUS
      <4>2. i \in due /\ Rank(i, S) < o /\ Rank(i, S) \in Nat
        BY <1>1, <1>3, <2>1, <2>3, RankType
      <4>3. next # None => Rank(i, S) < next
        BY <3>1, <4>2 DEF IInv, TypeOK
      <4> QED
        BY <3>1, <4>2, <4>3 DEF Skipped, S
    <3>3. Cardinality(Skipped') <= Cardinality(Skipped) /\ Cardinality(Skipped') \in Nat
          /\ Cardinality(Skipped) \in Nat
      BY <3>1, <3>2, SkippedFinite, FS_Subset, FS_CardinalityType DEF IInv
    <3> QED
      BY <1>3, <2>3, <3>1, <3>3 DEF IInv, SkipsOnlyForDeparted, TypeOK
  <2> QED
    BY <2>2, <2>3
<1> QED
  BY <1>5, <1>6 DEF IInv, SkipsOnlyForDeparted

\* No answer: what was loaded before still stands, or the walk is over.
LEMMA NotLoadedIInv ==
  ASSUME IInv, NEW m \in Modes \cup {None}, NEW f \in Filters, NEW o \in Nat,
         next # None => o <= next, m = None => o = 0 /\ next = None,
         mode' = m, filter' = f, offset' = o, tab' \in BOOLEAN,
         UNCHANGED <<tables, changes>>, NotLoaded(m, f)
  PROVE  IInv'
<1>1. CASE walking /\ m = mode /\ f = filter
  <2>1. UNCHANGED <<tables, changes, mode, filter, next, walking, due, departed>>
    BY <1>1 DEF NotLoaded
  <2> QED
    BY <2>1 DEF IInv, TypeOK, SkipsOnlyForDeparted, Skipped, Selected, InScope, Passes, Rank, tables
<1>2. CASE ~(walking /\ m = mode /\ f = filter)
  <2>1. /\ walking' = FALSE /\ due' = {} /\ departed' = 0
        /\ UNCHANGED <<tables, changes, next>>
    BY <1>2 DEF NotLoaded
  <2> QED
    BY <2>1 DEF IInv, TypeOK, SkipsOnlyForDeparted, tables
<1> QED
  BY <1>1, <1>2

LEMMA ShowIInv ==
  ASSUME IInv, NEW m \in Modes, NEW f \in Filters, NEW o \in Nat,
         o = 0 \/ (m = mode /\ f = filter /\ (next # None => o <= next)),
         tab' \in BOOLEAN, Show(m, f, o)
  PROVE  IInv'
<1>1. next # None => o <= next
  BY DEF IInv, TypeOK
<1>2. CASE Loaded(m, f, o)
  BY <1>2, LoadedIInv DEF Show
<1>3. CASE NotLoaded(m, f)
  <2>1. m # None
    BY EntryPagesAssumption DEF Modes
  <2> QED
    BY <1>1, <1>3, <2>1, NotLoadedIInv DEF Show
<1> QED
  BY <1>2, <1>3 DEF Show

----------------------------------------------------------------------------
(* The changes of the tables. *)

\* Entries that come can only raise the rank of another; each one that goes lowers
\* it by one at most.
LEMMA RankFalls ==
  ASSUME NEW S \in SUBSET Nat, IsFiniteSet(S), NEW T \in SUBSET Nat, IsFiniteSet(T), NEW i
  PROVE  Rank(i, S) <= Rank(i, T) + Cardinality(S \ T)
<1> DEFINE above == {j \in S : j > i}
           still == {j \in T : j > i}
<1>1. IsFiniteSet(above) /\ IsFiniteSet(still) /\ IsFiniteSet(S \ T)
  BY FS_Subset
<1>2. above \subseteq still \cup (S \ T)
  OBVIOUS
<1>3. IsFiniteSet(still \cup (S \ T))
  BY <1>1, FS_Union
<1>4. Cardinality(still \cup (S \ T))
        = Cardinality(still) + Cardinality(S \ T) - Cardinality(still \cap (S \ T))
  BY <1>1, FS_Union
<1>5. IsFiniteSet(still \cap (S \ T))
  BY <1>1, FS_Subset
<1>6. /\ Cardinality(above) \in Nat /\ Cardinality(still) \in Nat /\ Cardinality(S \ T) \in Nat
      /\ Cardinality(still \cap (S \ T)) \in Nat
  BY <1>1, <1>5, FS_CardinalityType
<1>7. Cardinality(above) <= Cardinality(still \cup (S \ T))
  BY <1>2, <1>3, FS_Subset
<1> QED
  BY <1>4, <1>6, <1>7 DEF Rank

LEMMA ChangeIInv ==
  ASSUME IInv, stored' \subseteq Ids, read' \subseteq stored', folder' \subseteq Feeds, Change
  PROVE  IInv'
<1> DEFINE S == Selected(mode, filter)
           T == Selected(mode, filter)'
           gone == IF walking THEN S \ T ELSE {}
<1>1. /\ UNCHANGED <<tab, mode, filter, offset, next, walking>>
      /\ due' = due \ gone /\ departed' = departed + Cardinality(gone)
      /\ changes' \in 0..MaxChanges
  BY EntryPagesAssumption DEF Change, screen, IInv, TypeOK
<1>2. S \in SUBSET Nat /\ IsFiniteSet(S)
  BY ScopeFinite DEF IInv
<1>3. T \in SUBSET Nat /\ IsFiniteSet(T)
  <2>1. T \subseteq Ids
    BY DEF Selected
  <2> QED
    BY <2>1, EntryPagesAssumption, FS_Subset
<1>4. IsFiniteSet(gone) /\ Cardinality(gone) \in Nat
  BY <1>2, FS_Subset, FS_EmptySet, FS_CardinalityType
<1>5. walking => due \subseteq S
  BY DEF IInv, TypeOK
<1> HIDE DEF S, T
<1>6. TypeOK'
  <2>1. due' \subseteq IF walking' THEN T ELSE {}
    BY <1>1, <1>5 DEF IInv, TypeOK
  <2>2. departed' \in Nat
    BY <1>1, <1>4 DEF IInv, TypeOK
  <2> QED
    BY <1>1, <2>1, <2>2 DEF IInv, TypeOK, T
<1>7. ASSUME walking' PROVE Cardinality(Skipped') <= departed'
  <2>1. walking /\ gone = S \ T
    BY <1>1, <1>7
  <2> HIDE DEF gone
  <2>2. Cardinality(Skipped) <= departed /\ departed \in Nat
    BY <2>1 DEF IInv, SkipsOnlyForDeparted, TypeOK
  <2>3. IsFiniteSet(Skipped) /\ Cardinality(Skipped) \in Nat
    BY <2>1, SkippedFinite, FS_CardinalityType DEF IInv
  <2>4. Skipped' \subseteq due' /\ IsFiniteSet(due')
    <3>1. IsFiniteSet(due')
      BY <1>1, <2>1, SkippedFinite, FS_Subset DEF IInv
    <3> QED
      BY <3>1 DEF Skipped
  <2>5. CASE next = None
    <3>1. Skipped' \subseteq Skipped
      BY <1>1, <2>4, <2>5 DEF Skipped
    <3>2. Cardinality(Skipped') <= Cardinality(Skipped) /\ Cardinality(Skipped') \in Nat
      BY <2>3, <3>1, FS_Subset, FS_CardinalityType
    <3> QED
      BY <1>1, <1>4, <2>2, <2>3, <3>2
  <2>6. CASE next # None
    <3> DEFINE fresh == {i \in due : next <= Rank(i, S) /\ Rank(i, S) < next + Cardinality(gone)}
    <3>1. next \in Nat
      BY <2>6 DEF IInv, TypeOK
    <3>2. Skipped' \subseteq Skipped \cup fresh
      <4>1. SUFFICES ASSUME NEW i \in Skipped', i \notin Skipped PROVE i \in fresh
        OBVIOUS
      <4>2. i \in due /\ Rank(i, T) < next
        BY <1>1, <2>6, <4>1 DEF Skipped, T
      <4>3. ~(Rank(i, S) < next)
        BY <2>6, <4>1, <4>2 DEF Skipped, S
      <4>4. Rank(i, S) \in Nat /\ Rank(i, T) \in Nat /\ Rank(i, S) <= Rank(i, T) + Cardinality(gone)
        BY <1>2, <1>3, <2>1, RankType, RankFalls
      <4> QED
        BY <1>4, <3>1, <4>2, <4>3, <4>4
    <3>3. IsFiniteSet(fresh) /\ Cardinality(fresh) \in Nat /\ Cardinality(fresh) <= Cardinality(gone)
      <4>1. fresh \in SUBSET S
        BY <1>5, <2>1
      <4>2. \A i \in fresh : next <= Rank(i, S) /\ Rank(i, S) < next + Cardinality(gone)
        OBVIOUS
      <4> HIDE DEF fresh
      <4> QED
        BY <1>2, <1>4, <3>1, <4>1, <4>2, FewInInterval
    <3> HIDE DEF fresh
    <3>4. IsFiniteSet(Skipped \cup fresh)
          /\ Cardinality(Skipped \cup fresh)
               = Cardinality(Skipped) + Cardinality(fresh) - Cardinality(Skipped \cap fresh)
      BY <2>3, <3>3, FS_Union
    <3>5. Cardinality(Skipped \cap fresh) \in Nat
      BY <2>3, FS_Subset, FS_CardinalityType
    <3>6. Cardinality(Skipped') <= Cardinality(Skipped \cup fresh) /\ Cardinality(Skipped') \in Nat
      BY <3>2, <3>4, FS_Subset, FS_CardinalityType
    <3> QED
      BY <1>1, <1>4, <2>2, <2>3, <3>3, <3>4, <3>5, <3>6
  <2> QED
    BY <2>5, <2>6
<1> QED
  BY <1>6, <1>7 DEF IInv, SkipsOnlyForDeparted

----------------------------------------------------------------------------
LEMMA InitIInv == Init => IInv
<1>1. ASSUME Init PROVE TypeOK
  <2>1. stored \subseteq Ids /\ read \subseteq stored /\ folder \subseteq Feeds
    BY <1>1 DEF Init
  <2>2. changes \in 0..MaxChanges
    BY <1>1, EntryPagesAssumption DEF Init
  <2> QED
    BY <1>1, <2>1, <2>2 DEF Init, TypeOK, Filters
<1>2. Init => ~walking
  BY DEF Init
<1> QED
  BY <1>1, <1>2 DEF IInv, SkipsOnlyForDeparted

LEMMA StepIInv == ASSUME IInv, [Next]_vars PROVE IInv'
<1> USE DEF IInv
<1>1. ASSUME NEW m \in Modes, Open(m) PROVE IInv'
  BY <1>1, ShowIInv DEF Open, TypeOK
<1>2. CASE Refresh
  BY <1>2, ShowIInv DEF Refresh, TypeOK
<1>3. CASE NextPage
  <2>1. next \in Nat /\ mode \in Modes
    BY <1>3 DEF NextPage, TypeOK
  <2> QED
    BY <1>3, <2>1, ShowIInv DEF NextPage, TypeOK
<1>4. CASE PrevPage
  <2> DEFINE o == IF offset > PageSize THEN offset - PageSize ELSE 0
  <2>1. o \in Nat /\ o <= offset /\ mode \in Modes /\ filter \in Filters /\ tab' \in BOOLEAN
    BY <1>4, EntryPagesAssumption DEF PrevPage, TypeOK
  <2>2. next # None => o <= next
    BY <2>1 DEF TypeOK
  <2>3. Show(mode, filter, o)
    BY <1>4 DEF PrevPage
  <2> HIDE DEF o
  <2> QED
    BY <2>1, <2>2, <2>3, ShowIInv
<1>5. CASE ToggleFilter
  BY <1>5, ShowIInv, NotLoadedIInv DEF ToggleFilter, NextFilter, Filters, TypeOK
<1>6. CASE SwitchTab
  BY <1>6 DEF SwitchTab, TypeOK, SkipsOnlyForDeparted, Skipped, Selected, InScope, Passes, Rank,
              tables, walk
<1>7. ASSUME NEW i \in Ids, Store(i) PROVE IInv'
  BY <1>7, ChangeIInv DEF Store, TypeOK
<1>8. ASSUME NEW R \in SUBSET stored, NEW asRead \in BOOLEAN, Mark(R, asRead) PROVE IInv'
  BY <1>8, ChangeIInv DEF Mark, TypeOK
<1>9. ASSUME NEW f \in Feeds, Assign(f) PROVE IInv'
  BY <1>9, ChangeIInv DEF Assign, TypeOK
<1>10. CASE UNCHANGED vars
  BY <1>10 DEF vars, TypeOK, SkipsOnlyForDeparted, Skipped, Selected, InScope, Passes, Rank,
               tables, screen, walk
<1> QED
  BY <1>1, <1>2, <1>3, <1>4, <1>5, <1>6, <1>7, <1>8, <1>9, <1>10 DEF Next

LEMMA Invariance == Spec => []IInv
  BY InitIInv, StepIInv, PTL DEF Spec

\* The place of the next page is never before the page that is shown, and the
\* entries still due are in scope.
THEOREM TypeCorrect == Spec => []TypeOK
<1>1. IInv => TypeOK
  BY DEF IInv
<1> QED
  BY <1>1, Invariance, PTL

\* From the first page on, the next pages leave out at most as many entries as have
\* left the scope meanwhile.
THEOREM SkipsBounded == Spec => []SkipsOnlyForDeparted
<1>1. IInv => SkipsOnlyForDeparted
  BY DEF IInv
<1> QED
  BY <1>1, Invariance, PTL
=============================================================================
