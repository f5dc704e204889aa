-------------------------- MODULE TickBatchProofs --------------------------
(***************************************************************************)
(* Proofs about TickBatch: permits are conserved, nobody waits for a       *)
(* global permit, and the caps of BoundedFetch are kept, for every finite  *)
(* set of feeds and every configuration of limits.                         *)
(***************************************************************************)
EXTENDS TickBatch, FiniteSetTheorems, TLAPS

\* The invariant behind the caps: as many futures run as the stream is wide,
\* a future waits at the global semaphore only if there is one, and the
\* semaphore of a domain exists before anyone asks it for a permit.
RunningBounded == Cardinality(Running) <= Parallelism

GlobalHasCap == \A f \in Feeds : pc[f] = "global" => globalCap # NoCap

KnownWhenAsked ==
  \A f \in Feeds : pc[f] \in {"global", "domain", "fetching"} => DomainOf[f] \in known

IInv ==
  /\ TypeOK
  /\ PermitsConserved
  /\ RunningBounded
  /\ GlobalHasCap
  /\ KnownWhenAsked

----------------------------------------------------------------------------
(* What one step of a future does to the sets of futures. *)

LEMMA SubsetFinite ==
  ASSUME NEW S \in SUBSET Feeds
  PROVE  IsFiniteSet(S) /\ Cardinality(S) \in Nat
  BY TickBatchAssumption, FS_Subset, FS_CardinalityType

LEMMA LimitType == \A d \in Domains : Limit(d) \in Nat \ {0}
  BY TickBatchAssumption DEF Limit

\* Adding and removing one future, counted.
LEMMA CountStep ==
  ASSUME NEW S \in SUBSET Feeds, NEW f \in Feeds
  PROVE  /\ f \notin S => Cardinality(S \cup {f}) = Cardinality(S) + 1
         /\ f \in S => Cardinality(S \ {f}) = Cardinality(S) - 1
         /\ f \in S => S \cup {f} = S
         /\ f \notin S => S \ {f} = S
  BY SubsetFinite, FS_AddElement, FS_RemoveElement

\* A step that stays outside (or inside) both kinds of holders changes neither.
LEMMA HoldersKept ==
  ASSUME TypeOK, NEW f \in Feeds, NEW step \in Steps, Goto(f, step),
         globalCap' = globalCap,
         pc[f] \notin {"domain", "fetching"},
         step \notin {"domain", "fetching"} \/ (step = "domain" /\ globalCap = NoCap)
  PROVE  HoldGlobal' = HoldGlobal /\ \A d : HoldDomain(d)' = HoldDomain(d)
<1>1. At({"fetching"})' = At({"fetching"})
  BY DEF TypeOK, Goto, At
<1>2. globalCap # NoCap => At({"domain", "fetching"})' = At({"domain", "fetching"})
  BY DEF TypeOK, Goto, At
<1> QED
  BY <1>1, <1>2 DEF HoldGlobal, HoldDomain

\* So conservation only depends on the steps that touch the semaphores.
LEMMA ConservedKept ==
  ASSUME IInv, HoldGlobal' = HoldGlobal, \A d : HoldDomain(d)' = HoldDomain(d),
         UNCHANGED <<globalCap, globalFree, domainFree, known>>
  PROVE  PermitsConserved'
  BY DEF IInv, PermitsConserved, Limit

\* A future that goes on running leaves the number of running ones alone.
LEMMA RunningKept ==
  ASSUME IInv, NEW f \in Feeds, NEW step \in Steps \ {"idle", "queued"},
         Goto(f, step), pc[f] \notin {"idle", "queued"}, globalCap' = globalCap
  PROVE  RunningBounded'
<1>1. Running' = Running
  BY DEF IInv, TypeOK, Goto, Running, At
<1> QED
  BY <1>1 DEF IInv, RunningBounded, Parallelism

LEMMA RunningShrinks ==
  ASSUME IInv, NEW f \in Feeds, Goto(f, "idle"), globalCap' = globalCap
  PROVE  RunningBounded'
<1>1. Running' \subseteq Running /\ Running \subseteq Feeds
  BY DEF IInv, TypeOK, Goto, Running, At
<1>2. Cardinality(Running') <= Cardinality(Running)
  BY <1>1, SubsetFinite, FS_Subset
<1>3. Cardinality(Running) \in Nat /\ Cardinality(Running') \in Nat
  BY <1>1, SubsetFinite
<1>4. Parallelism \in Nat
  BY TickBatchAssumption DEF IInv, TypeOK, Parallelism
<1> QED
  BY <1>2, <1>3, <1>4 DEF IInv, RunningBounded, Parallelism

----------------------------------------------------------------------------
(* Type correctness. *)

LEMMA TypeInit == Init => TypeOK
<1> SUFFICES ASSUME Init PROVE TypeOK
  OBVIOUS
<1>1. globalFree \in Nat /\ globalCap \in GlobalCaps
  BY TickBatchAssumption DEF Init
<1>2. domainFree \in [Domains -> Nat]
  BY LimitType DEF Init
<1> QED
  BY <1>1, <1>2, TickBatchAssumption DEF Init, TypeOK, Steps

LEMMA BeginAcquireType ==
  ASSUME TypeOK, NEW f \in Feeds, BeginAcquire(f)
  PROVE  /\ pc' \in [Feeds -> Steps] /\ globalQueue' \in Seq(Feeds)
         /\ domainQueue' \in [Domains -> Seq(Feeds)]
<1> DEFINE d == DomainOf[f]
<1>1. \A q \in Seq(Feeds) : Append(q, f) \in Seq(Feeds)
  OBVIOUS
<1>2. pc' \in [Feeds -> Steps]
  BY DEF TypeOK, BeginAcquire, Goto, Steps
<1>3. globalQueue' \in Seq(Feeds)
  BY <1>1 DEF TypeOK, BeginAcquire
<1>4. domainQueue' \in [Domains -> Seq(Feeds)]
  <2>1. Append(domainQueue[d], f) \in Seq(Feeds)
    BY <1>1, TickBatchAssumption DEF TypeOK
  <2>2. \/ domainQueue' = domainQueue
        \/ domainQueue' = [domainQueue EXCEPT ![d] = Append(domainQueue[d], f)]
    BY DEF BeginAcquire
  <2> QED
    BY <2>1, <2>2 DEF TypeOK
<1> QED
  BY <1>2, <1>3, <1>4

LEMMA TypeStep == TypeOK /\ [Next]_vars => TypeOK'
<1> SUFFICES ASSUME TypeOK, [Next]_vars PROVE TypeOK'
  OBVIOUS
<1> USE DEF semaphores
<1>1. ASSUME NEW due \in SUBSET Feeds, BeginBatch(due) PROVE TypeOK'
  BY <1>1 DEF TypeOK, BeginBatch, Steps
<1>2. ASSUME NEW f \in Feeds, StartFeed(f) \/ Poll(f) PROVE TypeOK'
  <2>0. DomainOf[f] \in Domains
    BY TickBatchAssumption
  <2>1. CASE StartFeed(f) \/ DecideRequest(f) \/ DecideNothing(f) \/ LookupMiss(f)
    BY <2>1
    DEF TypeOK, StartFeed, DecideRequest, DecideNothing, LookupMiss, Goto, Steps
  <2>2. CASE LookupHit(f)
    BY <2>2, BeginAcquireType DEF TypeOK, LookupHit
  <2>3. CASE Create(f)
    <3>1. domainFree' \in [Domains -> Nat] /\ known' \subseteq Domains
      BY <2>0, <2>3, LimitType DEF TypeOK, Create
    <3> QED
      BY <2>3, <3>1, BeginAcquireType DEF TypeOK, Create
  <2>4. CASE AcquireGlobal(f)
    BY <2>0, <2>4 DEF TypeOK, AcquireGlobal, Goto, Steps
  <2>5. CASE AcquireDomain(f)
    BY <2>0, <2>5 DEF TypeOK, AcquireDomain, Goto, Steps
  <2>6. CASE Finish(f)
    BY <2>0, <2>6 DEF TypeOK, Finish, Goto, Steps
  <2> QED
    BY <1>2, <2>1, <2>2, <2>3, <2>4, <2>5, <2>6 DEF Poll
<1>3. CASE UNCHANGED vars
  BY <1>3 DEF TypeOK, vars
<1> QED
  BY <1>1, <1>2, <1>3 DEF Next

----------------------------------------------------------------------------
(* The inductive invariant. *)

LEMMA InvInit == Init => IInv
<1> SUFFICES ASSUME Init PROVE IInv
  OBVIOUS
<1>1. \A S : S \cap {"idle"} = {} => At(S) = {}
  BY DEF Init, At
<1>2. HoldGlobal = {} /\ Running = {} /\ \A d : HoldDomain(d) = {}
  BY <1>1 DEF HoldGlobal, Running, HoldDomain
<1>3. Cardinality({}) = 0
  BY FS_EmptySet
<1>4. Parallelism \in Nat /\ globalCap \in Nat
  BY TickBatchAssumption DEF Init, Parallelism
<1>5. PermitsConserved
  <2>1. globalFree + Cardinality(HoldGlobal) = globalCap
    BY <1>2, <1>3, <1>4 DEF Init
  <2>2. ASSUME NEW d \in known
        PROVE  domainFree[d] + Cardinality(HoldDomain(d)) = Limit(d)
    <3>1. d \in Domains /\ domainFree[d] = Limit(d)
      BY TickBatchAssumption DEF Init
    <3>2. Cardinality(HoldDomain(d)) = 0
      BY <1>2, <1>3
    <3> QED
      BY <3>1, <3>2, LimitType
  <2> QED
    BY <2>1, <2>2 DEF PermitsConserved
<1>6. RunningBounded
  BY <1>2, <1>3, <1>4 DEF RunningBounded
<1> QED
  BY <1>5, <1>6, TypeInit DEF IInv, Init, GlobalHasCap, KnownWhenAsked

\* A future that holds nothing begins to wait: at the global semaphore if there
\* is one, else at its domain's.  The holders stay the same.
LEMMA BeginAcquireKeeps ==
  ASSUME TypeOK, NEW f \in Feeds, BeginAcquire(f), globalCap' = globalCap,
         pc[f] \in {"lookup", "creating"}
  PROVE  /\ HoldGlobal' = HoldGlobal /\ \A d : HoldDomain(d)' = HoldDomain(d)
         /\ \E step \in {"global", "domain"} :
               Goto(f, step) /\ (step = "global" => globalCap # NoCap)
<1>1. CASE globalCap # NoCap
  <2>1. Goto(f, "global")
    BY <1>1 DEF BeginAcquire
  <2> QED
    BY <1>1, <2>1, HoldersKept DEF Steps
<1>2. CASE globalCap = NoCap
  <2>1. Goto(f, "domain")
    BY <1>2 DEF BeginAcquire
  <2> QED
    BY <1>2, <2>1, HoldersKept DEF Steps
<1> QED
  BY <1>1, <1>2

\* A future with the global permit moves from one semaphore to the next.
LEMMA AcquireGlobalConserves ==
  ASSUME IInv, NEW f \in Feeds, AcquireGlobal(f)
  PROVE  PermitsConserved'
<1>1. globalCap # NoCap /\ pc[f] = "global"
  BY DEF IInv, GlobalHasCap, AcquireGlobal
<1>2. HoldGlobal' = HoldGlobal \cup {f} /\ f \notin HoldGlobal /\ HoldGlobal \subseteq Feeds
  BY <1>1 DEF IInv, TypeOK, AcquireGlobal, Goto, HoldGlobal, At
<1>3. \A d : HoldDomain(d)' = HoldDomain(d)
  BY <1>1 DEF IInv, TypeOK, AcquireGlobal, Goto, HoldDomain, At
<1>4. Cardinality(HoldGlobal') = Cardinality(HoldGlobal) + 1
  BY <1>2, CountStep
<1>5. Cardinality(HoldGlobal) \in Nat /\ globalFree \in Nat /\ globalCap \in Nat
  BY <1>2, SubsetFinite, TickBatchAssumption DEF IInv, TypeOK
<1>6. globalFree' + Cardinality(HoldGlobal') = globalCap'
  BY <1>1, <1>4, <1>5 DEF IInv, PermitsConserved, AcquireGlobal
<1> QED
  BY <1>3, <1>6 DEF IInv, PermitsConserved, AcquireGlobal, Limit

LEMMA AcquireDomainConserves ==
  ASSUME IInv, NEW f \in Feeds, AcquireDomain(f)
  PROVE  PermitsConserved'
<1> DEFINE e == DomainOf[f]
<1>1. pc[f] = "domain" /\ e \in Domains
  BY TickBatchAssumption DEF AcquireDomain
<1>2. HoldGlobal' = HoldGlobal
  BY <1>1 DEF IInv, TypeOK, AcquireDomain, Goto, HoldGlobal, At
<1>3. globalCap' # NoCap => globalFree' + Cardinality(HoldGlobal') = globalCap'
  BY <1>2 DEF IInv, PermitsConserved, AcquireDomain
<1>4. ASSUME NEW d \in known'
      PROVE  domainFree'[d] + Cardinality(HoldDomain(d)') = Limit(d)
  <2>1. d \in Domains /\ domainFree \in [Domains -> Nat] /\ d \in known
    BY DEF IInv, TypeOK, AcquireDomain
  <2>2. domainFree[d] + Cardinality(HoldDomain(d)) = Limit(d)
    BY <2>1 DEF IInv, PermitsConserved
  <2>3. CASE d = e
    <3>1. /\ HoldDomain(d)' = HoldDomain(d) \cup {f} /\ f \notin HoldDomain(d)
          /\ HoldDomain(d) \subseteq Feeds
      BY <1>1, <2>3 DEF IInv, TypeOK, AcquireDomain, Goto, HoldDomain, At
    <3>2. Cardinality(HoldDomain(d)') = Cardinality(HoldDomain(d)) + 1
      BY <3>1, CountStep
    <3>3. domainFree'[d] = domainFree[d] - 1
      BY <2>1, <2>3 DEF AcquireDomain
    <3>4. Cardinality(HoldDomain(d)) \in Nat
      BY <3>1, SubsetFinite
    <3> QED
      BY <2>1, <2>2, <3>2, <3>3, <3>4
  <2>4. CASE d # e
    <3>1. HoldDomain(d)' = HoldDomain(d)
      BY <1>1, <2>4 DEF IInv, TypeOK, AcquireDomain, Goto, HoldDomain, At
    <3> QED
      BY <2>1, <2>2, <2>4, <3>1 DEF AcquireDomain
  <2> QED
    BY <2>3, <2>4
<1> QED
  BY <1>3, <1>4 DEF PermitsConserved, Limit

LEMMA FinishConserves ==
  ASSUME IInv, NEW f \in Feeds, Finish(f)
  PROVE  PermitsConserved'
<1> DEFINE e == DomainOf[f]
<1>1. pc[f] = "fetching" /\ e \in Domains
  BY TickBatchAssumption DEF Finish
<1>2. ASSUME globalCap' # NoCap
      PROVE  globalFree' + Cardinality(HoldGlobal') = globalCap'
  <2>1. globalCap # NoCap /\ globalCap' = globalCap /\ globalFree' = globalFree + 1
    BY <1>2 DEF Finish
  <2>2. HoldGlobal' = HoldGlobal \ {f} /\ f \in HoldGlobal /\ HoldGlobal \subseteq Feeds
    BY <1>1, <2>1 DEF IInv, TypeOK, Finish, Goto, HoldGlobal, At
  <2>3. Cardinality(HoldGlobal') = Cardinality(HoldGlobal) - 1
    BY <2>2, CountStep
  <2>4. Cardinality(HoldGlobal) \in Nat /\ globalFree \in Nat
    BY <2>2, SubsetFinite DEF IInv, TypeOK
  <2> QED
    BY <2>1, <2>3, <2>4 DEF IInv, PermitsConserved
<1>3. ASSUME NEW d \in known'
      PROVE  domainFree'[d] + Cardinality(HoldDomain(d)') = Limit(d)
  <2>1. d \in Domains /\ domainFree \in [Domains -> Nat] /\ d \in known
    BY DEF IInv, TypeOK, Finish
  <2>2. domainFree[d] + Cardinality(HoldDomain(d)) = Limit(d)
    BY <2>1 DEF IInv, PermitsConserved
  <2>3. CASE d = e
    <3>1. /\ HoldDomain(d)' = HoldDomain(d) \ {f} /\ f \in HoldDomain(d)
          /\ HoldDomain(d) \subseteq Feeds
      BY <1>1, <2>3 DEF IInv, TypeOK, Finish, Goto, HoldDomain, At
    <3>2. Cardinality(HoldDomain(d)') = Cardinality(HoldDomain(d)) - 1
      BY <3>1, CountStep
    <3>3. domainFree'[d] = domainFree[d] + 1
      BY <2>1, <2>3 DEF Finish
    <3>4. Cardinality(HoldDomain(d)) \in Nat
      BY <3>1, SubsetFinite
    <3> QED
      BY <2>1, <2>2, <3>2, <3>3, <3>4
  <2>4. CASE d # e
    <3>1. HoldDomain(d)' = HoldDomain(d)
      BY <1>1, <2>4 DEF IInv, TypeOK, Finish, Goto, HoldDomain, At
    <3> QED
      BY <2>1, <2>2, <2>4, <3>1 DEF Finish
  <2> QED
    BY <2>3, <2>4
<1> QED
  BY <1>2, <1>3 DEF PermitsConserved, Limit

\* A semaphore that is made is made full, and nobody holds a permit of it: two
\* futures that both found none in the map end up with the same one.
LEMMA CreateConserves ==
  ASSUME IInv, NEW f \in Feeds, Create(f)
  PROVE  PermitsConserved'
<1> DEFINE e == DomainOf[f]
<1>1. pc[f] = "creating" /\ e \in Domains /\ globalCap' = globalCap
  BY TickBatchAssumption DEF Create
<1>2. HoldGlobal' = HoldGlobal /\ \A d : HoldDomain(d)' = HoldDomain(d)
  BY <1>1, BeginAcquireKeeps DEF IInv, Create
<1>3. ASSUME NEW d \in known'
      PROVE  domainFree'[d] + Cardinality(HoldDomain(d)) = Limit(d)
  <2>1. CASE d \in known
    BY <1>1, <2>1 DEF IInv, TypeOK, PermitsConserved, Create
  <2>2. CASE d \notin known
    <3>1. d = e /\ domainFree'[d] = Limit(d)
      BY <1>1, <1>3, <2>2 DEF IInv, TypeOK, Create
    <3>2. HoldDomain(d) = {}
      BY <2>2 DEF IInv, KnownWhenAsked, HoldDomain, At
    <3> QED
      BY <1>1, <3>1, <3>2, FS_EmptySet, LimitType
  <2> QED
    BY <2>1, <2>2
<1> QED
  BY <1>1, <1>2, <1>3 DEF IInv, PermitsConserved, Create, Limit

LEMMA InvStep == IInv /\ [Next]_vars => IInv'
<1> SUFFICES ASSUME IInv, [Next]_vars PROVE IInv'
  OBVIOUS
<1>0. TypeOK /\ TypeOK'
  BY TypeStep DEF IInv
<1>1. ASSUME NEW due \in SUBSET Feeds, BeginBatch(due) PROVE IInv'
  <2>1. /\ At({"domain", "fetching"}) = {} /\ At({"domain", "fetching"})' = {}
        /\ At({"fetching"}) = {} /\ At({"fetching"})' = {}
        /\ Running' = {}
    BY <1>1 DEF BeginBatch, At, Running
  <2>2. PermitsConserved'
    BY <1>1, <2>1, ConservedKept DEF BeginBatch, semaphores, HoldGlobal, HoldDomain
  <2>3. RunningBounded'
    <3>1. Parallelism' \in Nat
      BY <1>0, TickBatchAssumption DEF TypeOK, Parallelism
    <3> QED
      BY <2>1, <3>1, FS_EmptySet DEF RunningBounded
  <2> QED
    BY <1>0, <1>1, <2>2, <2>3 DEF IInv, BeginBatch, GlobalHasCap, KnownWhenAsked
<1>2. ASSUME NEW f \in Feeds, StartFeed(f) PROVE IInv'
  <2>1. pc[f] = "queued" /\ Goto(f, "reading") /\ globalCap' = globalCap
    BY <1>2 DEF StartFeed
  <2>2. PermitsConserved'
    BY <1>0, <1>2, <2>1, HoldersKept, ConservedKept DEF StartFeed, semaphores, Steps
  <2>3. RunningBounded'
    <3>1. Running' = Running \cup {f} /\ f \notin Running /\ Running \subseteq Feeds
      BY <1>0, <2>1 DEF TypeOK, Goto, Running, At, Steps
    <3>2. Cardinality(Running') = Cardinality(Running) + 1
      BY <3>1, CountStep
    <3>3. Cardinality(Running) \in Nat /\ Parallelism \in Nat
      BY <1>0, <3>1, SubsetFinite, TickBatchAssumption DEF TypeOK, Parallelism
    <3> QED
      BY <1>2, <3>2, <3>3 DEF StartFeed, RunningBounded, Parallelism
  <2> QED
    BY <1>0, <1>2, <2>1, <2>2, <2>3
    DEF IInv, TypeOK, StartFeed, semaphores, Goto, GlobalHasCap, KnownWhenAsked
<1>3. ASSUME NEW f \in Feeds, DecideRequest(f) \/ DecideNothing(f) \/ LookupMiss(f)
      PROVE  IInv'
  <2>1. /\ UNCHANGED <<globalCap, semaphores>>
        /\ pc[f] \in {"reading", "lookup"}
        /\ Goto(f, "lookup") \/ Goto(f, "idle") \/ Goto(f, "creating")
    BY <1>3 DEF DecideRequest, DecideNothing, LookupMiss
  <2>2. PermitsConserved'
    BY <1>0, <2>1, HoldersKept, ConservedKept DEF semaphores, Steps
  <2>3. RunningBounded'
    BY <2>1, RunningKept, RunningShrinks DEF Steps
  <2> QED
    BY <1>0, <2>1, <2>2, <2>3
    DEF IInv, TypeOK, semaphores, Goto, GlobalHasCap, KnownWhenAsked
<1>4. ASSUME NEW f \in Feeds, LookupHit(f) \/ Create(f) PROVE IInv'
  <2>1. /\ BeginAcquire(f) /\ globalCap' = globalCap
        /\ pc[f] \in {"lookup", "creating"}
        /\ known \subseteq known' /\ DomainOf[f] \in known'
    BY <1>4 DEF LookupHit, Create
  <2>2. PermitsConserved'
    <3>1. CASE LookupHit(f)
      BY <1>0, <2>1, <3>1, BeginAcquireKeeps, ConservedKept DEF LookupHit
    <3>2. CASE Create(f)
      BY <3>2, CreateConserves
    <3> QED
      BY <1>4, <3>1, <3>2
  <2>3. PICK step \in {"global", "domain"} :
          Goto(f, step) /\ (step = "global" => globalCap # NoCap)
    BY <1>0, <2>1, BeginAcquireKeeps
  <2>4. RunningBounded'
    BY <2>1, <2>3, RunningKept DEF Steps
  <2> QED
    BY <1>0, <2>1, <2>2, <2>3, <2>4
    DEF IInv, TypeOK, Goto, GlobalHasCap, KnownWhenAsked
<1>5. ASSUME NEW f \in Feeds, AcquireGlobal(f) \/ AcquireDomain(f) \/ Finish(f)
      PROVE  IInv'
  <2>1. /\ pc[f] \in {"global", "domain", "fetching"}
        /\ Goto(f, "domain") \/ Goto(f, "fetching") \/ Goto(f, "idle")
        /\ UNCHANGED <<globalCap, known>>
    BY <1>5 DEF AcquireGlobal, AcquireDomain, Finish
  <2>2. PermitsConserved'
    BY <1>5, AcquireGlobalConserves, AcquireDomainConserves, FinishConserves
  <2>3. RunningBounded'
    BY <2>1, RunningKept, RunningShrinks DEF Steps
  <2> QED
    BY <1>0, <2>1, <2>2, <2>3
    DEF IInv, TypeOK, Goto, GlobalHasCap, KnownWhenAsked
<1>6. CASE UNCHANGED vars
  <2>1. Running' = Running /\ HoldGlobal' = HoldGlobal /\ \A d : HoldDomain(d)' = HoldDomain(d)
    BY <1>6 DEF vars, Running, HoldGlobal, HoldDomain, At
  <2> QED
    BY <1>0, <1>6, <2>1, ConservedKept
    DEF IInv, vars, semaphores, RunningBounded, Parallelism, GlobalHasCap,
        KnownWhenAsked
<1> QED
  BY <1>1, <1>2, <1>3, <1>4, <1>5, <1>6 DEF Next, Poll

LEMMA Invariance == Spec => []IInv
  BY InvInit, InvStep, PTL DEF Spec

----------------------------------------------------------------------------
(* The results. *)

\* Every variable of a batch stays in its type.
THEOREM TypeCorrect == Spec => []TypeOK
  BY Invariance, PTL DEF IInv

\* Permits are neither lost nor made up, even when two futures make the
\* semaphore of their domain at the same time (concurrency.rs:61-92).
THEOREM PermitsAreConserved == Spec => []PermitsConserved
  BY Invariance, PTL DEF IInv

\* Who asks for a global permit finds one: all who hold one are running futures
\* other than the one that asks, and the stream is as wide as the semaphore.
LEMMA GlobalPermitLeft == IInv => GlobalNeverWaits
<1> SUFFICES ASSUME IInv, NEW f \in Feeds, pc[f] = "global" PROVE globalFree > 0
  BY DEF GlobalNeverWaits
<1>1. globalCap # NoCap /\ globalCap \in Nat /\ globalFree \in Nat
  BY TickBatchAssumption DEF IInv, GlobalHasCap, TypeOK
<1>2. HoldGlobal \subseteq Running \ {f} /\ f \in Running /\ Running \subseteq Feeds
  BY DEF HoldGlobal, Running, At, Steps
<1>3. Cardinality(Running \ {f}) = Cardinality(Running) - 1
  BY <1>2, CountStep
<1>4. Cardinality(HoldGlobal) <= Cardinality(Running \ {f})
  BY <1>2, SubsetFinite, FS_Subset
<1>5. Cardinality(Running) <= globalCap
  BY <1>1 DEF IInv, RunningBounded, Parallelism
<1>6. globalFree + Cardinality(HoldGlobal) = globalCap
  BY <1>1 DEF IInv, PermitsConserved
<1>7. /\ Cardinality(Running) \in Nat /\ Cardinality(HoldGlobal) \in Nat
      /\ Cardinality(Running \ {f}) \in Nat
  BY <1>2, SubsetFinite
<1> QED
  BY <1>1, <1>3, <1>4, <1>5, <1>6, <1>7

\* Holding the global permit while waiting for a domain's blocks nobody at the
\* global semaphore (processing.rs:93-95, concurrency.rs:109-136).
THEOREM GlobalWaitsNowhere == Spec => []GlobalNeverWaits
  BY Invariance, GlobalPermitLeft, PTL

\* Cardinality as BoundedFetch has it is Cardinality.
LEMMA SameCardinality == \A S : Bounded!Cardinality(S) = Cardinality(S)
  BY Zenon DEF Bounded!Cardinality, Cardinality

\* A request begins only below the global cap and below its domain's limit.
LEMMA BeginAllowed ==
  ASSUME IInv, NEW f \in Feeds, AcquireDomain(f)
  PROVE  Bounded!Begin(f)
<1> DEFINE active == At({"fetching"})
           d == DomainOf[f]
<1>1. pc[f] = "domain" /\ d \in known /\ domainFree[d] > 0
  BY DEF IInv, KnownWhenAsked, AcquireDomain
<1>2. f \notin active /\ active' = active \cup {f} /\ active \subseteq Feeds
  BY <1>1 DEF IInv, TypeOK, AcquireDomain, Goto, At
<1>3. ASSUME globalCap # 0 PROVE Cardinality(active) < globalCap
  <2>1. /\ active \subseteq HoldGlobal \ {f} /\ f \in HoldGlobal
        /\ HoldGlobal \subseteq Feeds
    BY <1>1, <1>3 DEF HoldGlobal, At, NoCap
  <2>2. Cardinality(HoldGlobal \ {f}) = Cardinality(HoldGlobal) - 1
    BY <2>1, CountStep
  <2>3. Cardinality(active) <= Cardinality(HoldGlobal \ {f})
    BY <2>1, SubsetFinite, FS_Subset
  <2>4. globalFree + Cardinality(HoldGlobal) = globalCap
    BY <1>3 DEF IInv, PermitsConserved, NoCap
  <2>5. /\ Cardinality(HoldGlobal) \in Nat /\ Cardinality(active) \in Nat
        /\ Cardinality(HoldGlobal \ {f}) \in Nat
        /\ globalFree \in Nat /\ globalCap \in Nat
    BY <1>2, <2>1, SubsetFinite, TickBatchAssumption DEF IInv, TypeOK
  <2> QED
    BY <2>2, <2>3, <2>4, <2>5
<1>4. Cardinality(Bounded!InDomain(active, d)) < Limit(d)
  <2>1. Bounded!InDomain(active, d) = HoldDomain(d) /\ HoldDomain(d) \subseteq Feeds
    BY DEF Bounded!InDomain, HoldDomain, At
  <2>2. domainFree[d] + Cardinality(HoldDomain(d)) = Limit(d)
    BY <1>1 DEF IInv, PermitsConserved
  <2>3. Cardinality(HoldDomain(d)) \in Nat /\ domainFree[d] \in Nat
    BY <1>1, <2>1, SubsetFinite DEF IInv, TypeOK
  <2> QED
    BY <1>1, <2>1, <2>2, <2>3
<1>5. UNCHANGED globalCap
  BY DEF AcquireDomain
<1> QED
  BY <1>2, <1>3, <1>4, <1>5, SameCardinality DEF Bounded!Begin

LEMMA StepSimulation ==
  IInv /\ [Next]_vars => [Bounded!BNext]_<<globalCap, At({"fetching"})>>
<1> SUFFICES ASSUME IInv, [Next]_vars
             PROVE  [Bounded!BNext]_<<globalCap, At({"fetching"})>>
  OBVIOUS
<1>1. ASSUME NEW due \in SUBSET Feeds, BeginBatch(due)
      PROVE  UNCHANGED <<globalCap, At({"fetching"})>>
  BY <1>1 DEF BeginBatch, At
<1>2. ASSUME NEW f \in Feeds,
             StartFeed(f) \/ DecideRequest(f) \/ DecideNothing(f) \/ LookupMiss(f)
      PROVE  UNCHANGED <<globalCap, At({"fetching"})>>
  BY <1>2
  DEF IInv, TypeOK, StartFeed, DecideRequest, DecideNothing, LookupMiss, Goto, At
<1>3. ASSUME NEW f \in Feeds, LookupHit(f) \/ Create(f) \/ AcquireGlobal(f)
      PROVE  UNCHANGED <<globalCap, At({"fetching"})>>
  BY <1>3
  DEF IInv, TypeOK, LookupHit, Create, AcquireGlobal, BeginAcquire, Goto, At
<1>4. ASSUME NEW f \in Feeds, AcquireDomain(f) PROVE Bounded!BNext
  BY <1>4, BeginAllowed DEF Bounded!BNext
<1>5. ASSUME NEW f \in Feeds, Finish(f) PROVE Bounded!BNext
  <2>1. /\ f \in At({"fetching"}) /\ At({"fetching"})' = At({"fetching"}) \ {f}
        /\ UNCHANGED globalCap
    BY <1>5 DEF IInv, TypeOK, Finish, Goto, At
  <2> QED
    BY <2>1 DEF Bounded!BNext, Bounded!End
<1>6. CASE UNCHANGED vars
  BY <1>6 DEF vars, At
<1> QED
  BY <1>1, <1>2, <1>3, <1>4, <1>5, <1>6 DEF Next, Poll

\* The semaphores implement the promise of bounded parallelism: never more
\* requests on the way than the global cap and the domain's limit allow.
THEOREM Implementation == Spec => ImplementsBounded
<1>1. Init => Bounded!BInit
  BY TickBatchAssumption DEF Init, At, Bounded!BInit
<1>2. IInv /\ [Next]_vars => [Bounded!BNext]_<<globalCap, At({"fetching"})>>
  BY StepSimulation
<1> QED
  BY <1>1, <1>2, Invariance, PTL DEF Spec, ImplementsBounded, Bounded!BSpec

----------------------------------------------------------------------------
(***************************************************************************)
(* No deadlock.  ENABLED is out of the prover's reach, so the guards of    *)
(* the futures are written out here.                                       *)
(***************************************************************************)

\* The queue q holds each element of S, in one place.
Lists(q, S) ==
  /\ q \in Seq(S)
  /\ \A i, j \in 1..Len(q) : q[i] = q[j] => i = j
  /\ \A x \in S : \E i \in 1..Len(q) : q[i] = x

WaitDomain(d) == {f \in At({"domain"}) : DomainOf[f] = d}

\* Who waits at a semaphore is in its queue, and nobody else is.
Queued ==
  /\ Lists(globalQueue, At({"global"}))
  /\ \A d \in Domains : Lists(domainQueue[d], WaitDomain(d))

LEMMA Enqueued ==
  ASSUME NEW S, NEW q, Lists(q, S), NEW f, f \notin S
  PROVE  Lists(Append(q, f), S \cup {f})
<1> DEFINE p == Append(q, f)
<1>1. q \in Seq(S) /\ Len(q) \in Nat /\ \A i \in 1..Len(q) : q[i] \in S
  BY DEF Lists
<1>2. q \in Seq(S \cup {f})
  BY <1>1
<1>3. p \in Seq(S \cup {f}) /\ Len(p) = Len(q) + 1
  BY <1>2
<1>4. \A i \in 1..Len(p) : p[i] = IF i = Len(q) + 1 THEN f ELSE q[i]
  BY <1>1, <1>2, <1>3
<1> HIDE DEF p
<1>5. ASSUME NEW i \in 1..Len(p), NEW j \in 1..Len(p), p[i] = p[j] PROVE i = j
  <2>1. \A k \in 1..Len(p) : k # Len(q) + 1 => k \in 1..Len(q) /\ p[k] = q[k] /\ q[k] # f
    BY <1>1, <1>3, <1>4
  <2>2. \A k \in 1..Len(p) : k = Len(q) + 1 => p[k] = f
    BY <1>4
  <2>3. CASE i = Len(q) + 1 \/ j = Len(q) + 1
    BY <2>1, <2>2, <2>3, <1>5
  <2>4. CASE i # Len(q) + 1 /\ j # Len(q) + 1
    <3>1. i \in 1..Len(q) /\ j \in 1..Len(q) /\ q[i] = q[j]
      BY <2>1, <2>4, <1>5
    <3> QED
      BY <3>1 DEF Lists
  <2> QED
    BY <2>3, <2>4
<1>6. ASSUME NEW x \in S \cup {f} PROVE \E i \in 1..Len(p) : p[i] = x
  <2>1. CASE x = f
    <3>1. Len(q) + 1 \in 1..Len(p)
      BY <1>1, <1>3
    <3> QED
      BY <3>1, <2>1, <1>4
  <2>2. CASE x \in S
    <3>1. PICK i \in 1..Len(q) : q[i] = x
      BY <2>2 DEF Lists
    <3>2. i \in 1..Len(p) /\ i # Len(q) + 1
      BY <1>1, <1>3
    <3> QED
      BY <3>1, <3>2, <1>4
  <2> QED
    BY <2>1, <2>2
<1> QED
  BY <1>3, <1>5, <1>6 DEF Lists, p

LEMMA Dequeued ==
  ASSUME NEW S, NEW q, Lists(q, S), q # <<>>
  PROVE  Head(q) \in S /\ Lists(Tail(q), S \ {Head(q)})
<1> DEFINE p == Tail(q)
           h == Head(q)
<1>1. q \in Seq(S) /\ Len(q) \in Nat \ {0} /\ \A i \in 1..Len(q) : q[i] \in S
  BY DEF Lists
<1>2. h = q[1] /\ h \in S
  BY <1>1
<1>3. p \in Seq(S) /\ Len(p) = Len(q) - 1 /\ \A i \in 1..Len(p) : p[i] = q[i + 1]
  BY <1>1
<1> HIDE DEF p, h
<1>4. \A i \in 1..Len(p) : i + 1 \in 1..Len(q) /\ i + 1 # 1
  BY <1>1, <1>3
<1>5. \A i \in 1..Len(p) : p[i] \in S \ {h}
  <2> SUFFICES ASSUME NEW i \in 1..Len(p) PROVE p[i] \in S \ {h}
    OBVIOUS
  <2>1. p[i] = q[i + 1] /\ i + 1 \in 1..Len(q) /\ i + 1 # 1 /\ 1 \in 1..Len(q)
    BY <1>1, <1>3, <1>4
  <2>2. q[i + 1] # q[1]
    BY <2>1 DEF Lists
  <2> QED
    BY <2>1, <2>2, <1>1, <1>2
<1>6. p \in Seq(S \ {h})
  BY <1>3, <1>5
<1>7. ASSUME NEW i \in 1..Len(p), NEW j \in 1..Len(p), p[i] = p[j] PROVE i = j
  <2>1. i + 1 \in 1..Len(q) /\ j + 1 \in 1..Len(q) /\ q[i + 1] = q[j + 1]
    BY <1>3, <1>4, <1>7
  <2>2. i + 1 = j + 1
    BY <2>1 DEF Lists
  <2> QED
    BY <2>2
<1>8. ASSUME NEW x \in S \ {h} PROVE \E i \in 1..Len(p) : p[i] = x
  <2>1. PICK k \in 1..Len(q) : q[k] = x
    BY DEF Lists
  <2>2. k # 1
    BY <2>1, <1>2, <1>8
  <2>3. k - 1 \in 1..Len(p) /\ (k - 1) + 1 = k
    BY <2>2, <1>1, <1>3
  <2>4. p[k - 1] = x
    BY <2>1, <2>3, <1>3
  <2> QED
    BY <2>3, <2>4
<1> QED
  BY <1>2, <1>6, <1>7, <1>8 DEF Lists, p, h

LEMMA QueuedInit == Init => Queued
<1> SUFFICES ASSUME Init PROVE Queued
  OBVIOUS
<1>1. At({"global"}) = {} /\ \A d : WaitDomain(d) = {}
  BY DEF Init, At, WaitDomain
<1>2. Lists(<<>>, {})
  BY DEF Lists
<1> QED
  BY <1>1, <1>2 DEF Init, Queued

\* A step of a future between places where nobody waits.
LEMMA QueuedKept ==
  ASSUME TypeOK, Queued, NEW f \in Feeds, NEW step \in Steps \ {"global", "domain"},
         pc[f] \notin {"global", "domain"}, Goto(f, step), UNCHANGED <<globalQueue, domainQueue>>
  PROVE  Queued'
<1>1. At({"global"})' = At({"global"}) /\ At({"domain"})' = At({"domain"})
  BY DEF TypeOK, Goto, At
<1>2. \A d : WaitDomain(d)' = WaitDomain(d)
  BY <1>1 DEF WaitDomain
<1> QED
  BY <1>1, <1>2 DEF Queued

\* A future that joins the queue of its domain.
LEMMA DomainJoined ==
  ASSUME TypeOK, Queued, NEW f \in Feeds, pc[f] # "domain", Goto(f, "domain"),
         domainQueue' = [domainQueue EXCEPT ![DomainOf[f]] = Append(@, f)]
  PROVE  \A d \in Domains : Lists(domainQueue[d]', WaitDomain(d)')
<1> SUFFICES ASSUME NEW d \in Domains PROVE Lists(domainQueue[d]', WaitDomain(d)')
  OBVIOUS
<1>1. f \notin WaitDomain(d) /\ DomainOf[f] \in Domains /\ Lists(domainQueue[d], WaitDomain(d))
  BY TickBatchAssumption DEF WaitDomain, At, Queued
<1>2. CASE d = DomainOf[f]
  <2>1. WaitDomain(d)' = WaitDomain(d) \cup {f}
    BY <1>2 DEF TypeOK, Goto, WaitDomain, At
  <2>2. domainQueue'[d] = Append(domainQueue[d], f)
    BY <1>1, <1>2 DEF TypeOK
  <2> QED
    BY <2>1, <2>2, <1>1, Enqueued
<1>3. CASE d # DomainOf[f]
  <2>1. WaitDomain(d)' = WaitDomain(d)
    BY <1>3 DEF TypeOK, Goto, WaitDomain, At
  <2>2. domainQueue'[d] = domainQueue[d]
    BY <1>3 DEF TypeOK
  <2> QED
    BY <2>1, <2>2, <1>1
<1> QED
  BY <1>2, <1>3

LEMMA QueuedAcquire ==
  ASSUME TypeOK, Queued, NEW f \in Feeds, pc[f] \in {"lookup", "creating"}, BeginAcquire(f)
  PROVE  Queued'
<1>1. CASE globalCap # NoCap
  <2>1. Goto(f, "global") /\ globalQueue' = Append(globalQueue, f) /\ domainQueue' = domainQueue
    BY <1>1 DEF BeginAcquire
  <2>2. At({"global"})' = At({"global"}) \cup {f} /\ f \notin At({"global"})
        /\ At({"domain"})' = At({"domain"})
    BY <2>1 DEF TypeOK, Goto, At
  <2>3. \A d : WaitDomain(d)' = WaitDomain(d)
    BY <2>2 DEF WaitDomain
  <2>4. Lists(globalQueue', At({"global"})')
    BY <2>1, <2>2, Enqueued DEF Queued
  <2> QED
    BY <2>1, <2>3, <2>4 DEF Queued
<1>2. CASE ~(globalCap # NoCap)
  <2>1. /\ Goto(f, "domain") /\ globalQueue' = globalQueue
        /\ domainQueue' = [domainQueue EXCEPT ![DomainOf[f]] = Append(@, f)]
    BY <1>2 DEF BeginAcquire
  <2>2. At({"global"})' = At({"global"})
    BY <2>1 DEF TypeOK, Goto, At
  <2>3. \A d \in Domains : Lists(domainQueue[d]', WaitDomain(d)')
    BY <2>1, DomainJoined
  <2> QED
    BY <2>1, <2>2, <2>3 DEF Queued
<1> QED
  BY <1>1, <1>2

LEMMA QueuedNext == TypeOK /\ Queued /\ [Next]_vars => Queued'
<1> SUFFICES ASSUME TypeOK, Queued, [Next]_vars PROVE Queued'
  OBVIOUS
<1>1. ASSUME NEW due \in SUBSET Feeds, BeginBatch(due) PROVE Queued'
  <2>1. At({"global"})' = At({"global"}) /\ At({"domain"})' = At({"domain"})
    BY <1>1 DEF BeginBatch, At
  <2>2. \A d : WaitDomain(d)' = WaitDomain(d)
    BY <2>1 DEF WaitDomain
  <2> QED
    BY <1>1, <2>1, <2>2 DEF BeginBatch, semaphores, Queued
<1>2. ASSUME NEW f \in Feeds,
             StartFeed(f) \/ DecideRequest(f) \/ DecideNothing(f) \/ LookupMiss(f) \/ Finish(f)
      PROVE  Queued'
  <2>1. PICK step \in {"reading", "lookup", "idle", "creating"} :
          /\ pc[f] \in {"queued", "reading", "lookup", "fetching"}
          /\ Goto(f, step) /\ UNCHANGED <<globalQueue, domainQueue>>
    BY <1>2 DEF StartFeed, DecideRequest, DecideNothing, LookupMiss, Finish, semaphores
  <2>2. step \in Steps \ {"global", "domain"} /\ pc[f] \notin {"global", "domain"}
    BY <2>1 DEF Steps
  <2> QED
    BY <2>1, <2>2, QueuedKept
<1>3. ASSUME NEW f \in Feeds, LookupHit(f) \/ Create(f) PROVE Queued'
  BY <1>3, QueuedAcquire DEF LookupHit, Create
<1>4. ASSUME NEW f \in Feeds, AcquireGlobal(f) PROVE Queued'
  <2>1. /\ pc[f] = "global" /\ globalQueue # <<>> /\ Head(globalQueue) = f
        /\ globalQueue' = Tail(globalQueue) /\ Goto(f, "domain")
        /\ domainQueue' = [domainQueue EXCEPT ![DomainOf[f]] = Append(@, f)]
    BY <1>4 DEF AcquireGlobal
  <2>2. At({"global"})' = At({"global"}) \ {f}
    BY <2>1 DEF TypeOK, Goto, At
  <2>3. Lists(globalQueue', At({"global"})')
    BY <2>1, <2>2, Dequeued DEF Queued
  <2>4. \A d \in Domains : Lists(domainQueue[d]', WaitDomain(d)')
    BY <2>1, DomainJoined
  <2> QED
    BY <2>3, <2>4 DEF Queued
<1>5. ASSUME NEW f \in Feeds, AcquireDomain(f) PROVE Queued'
  <2> DEFINE e == DomainOf[f]
  <2>1. /\ pc[f] = "domain" /\ domainQueue[e] # <<>> /\ Head(domainQueue[e]) = f
        /\ domainQueue' = [domainQueue EXCEPT ![e] = Tail(@)]
        /\ Goto(f, "fetching") /\ globalQueue' = globalQueue
    BY <1>5 DEF AcquireDomain
  <2>2. At({"global"})' = At({"global"})
    BY <2>1 DEF TypeOK, Goto, At
  <2>3. ASSUME NEW d \in Domains PROVE Lists(domainQueue[d]', WaitDomain(d)')
    <3>1. e \in Domains /\ Lists(domainQueue[d], WaitDomain(d))
      BY TickBatchAssumption DEF Queued
    <3>2. CASE d = e
      <4>1. WaitDomain(d)' = WaitDomain(d) \ {f}
        BY <2>1, <3>2 DEF TypeOK, Goto, WaitDomain, At
      <4>2. domainQueue'[d] = Tail(domainQueue[d])
        BY <2>1, <3>1, <3>2 DEF TypeOK
      <4> QED
        BY <4>1, <4>2, <3>1, <3>2, <2>1, Dequeued
    <3>3. CASE d # e
      <4>1. WaitDomain(d)' = WaitDomain(d)
        BY <2>1, <3>3 DEF TypeOK, Goto, WaitDomain, At
      <4>2. domainQueue'[d] = domainQueue[d]
        BY <2>1, <3>3 DEF TypeOK
      <4> QED
        BY <4>1, <4>2, <3>1
    <3> QED
      BY <3>2, <3>3
  <2> QED
    BY <2>1, <2>2, <2>3 DEF Queued
<1>6. CASE UNCHANGED vars
  <2>1. At({"global"})' = At({"global"}) /\ \A d : WaitDomain(d)' = WaitDomain(d)
    BY <1>6 DEF vars, At, WaitDomain
  <2> QED
    BY <2>1, <1>6 DEF vars, semaphores, Queued
<1> QED
  BY <1>1, <1>2, <1>3, <1>4, <1>5, <1>6 DEF Next, Poll

\* The guards of the steps of the future of f, its start included.
CanStep(f) ==
  \/ pc[f] = "queued" /\ Cardinality(Running) < Parallelism
  \/ pc[f] \in {"reading", "lookup", "creating", "fetching"}
  \/ pc[f] = "global" /\ globalQueue # <<>> /\ Head(globalQueue) = f /\ globalFree > 0
  \/ /\ pc[f] = "domain"
     /\ domainQueue[DomainOf[f]] # <<>> /\ Head(domainQueue[DomainOf[f]]) = f
     /\ domainFree[DomainOf[f]] > 0

\* While a batch is not done, one of its feeds can go on.
NeverStuck == (\E f \in Feeds : pc[f] # "idle") => \E f \in Feeds : CanStep(f)

LEMMA SomeoneSteps == IInv /\ Queued => NeverStuck
<1> SUFFICES ASSUME IInv, Queued, \A f \in Feeds : ~CanStep(f)
             PROVE  \A f \in Feeds : pc[f] = "idle"
  BY DEF NeverStuck
<1>1. TypeOK /\ PermitsConserved /\ KnownWhenAsked
  BY DEF IInv
<1>2. \A f \in Feeds : pc[f] \notin {"reading", "lookup", "creating", "fetching"} /\ pc[f] \in Steps
  BY <1>1 DEF CanStep, TypeOK
<1>3. \A f \in Feeds : pc[f] # "domain"
  <2> SUFFICES ASSUME NEW f \in Feeds, pc[f] = "domain" PROVE FALSE
    OBVIOUS
  <2> DEFINE d == DomainOf[f]
             q == domainQueue[d]
  <2>1. d \in Domains /\ d \in known /\ f \in WaitDomain(d)
    BY <1>1, TickBatchAssumption DEF KnownWhenAsked, WaitDomain, At
  <2>2. Lists(q, WaitDomain(d))
    BY <2>1 DEF Queued
  <2>3. q # <<>>
    BY <2>1, <2>2 DEF Lists
  <2>4. Head(q) \in WaitDomain(d)
    BY <2>2, <2>3, Dequeued
  <2>5. HoldDomain(d) = {}
    BY <1>2 DEF HoldDomain, At
  <2>6. domainFree[d] = Limit(d) /\ Limit(d) \in Nat \ {0}
    <3>1. domainFree[d] + Cardinality(HoldDomain(d)) = Limit(d) /\ domainFree[d] \in Nat
      BY <1>1, <2>1 DEF PermitsConserved, TypeOK
    <3>2. Cardinality(HoldDomain(d)) = 0
      BY <2>5, FS_EmptySet
    <3> QED
      BY <3>1, <3>2, <2>1, LimitType
  <2>7. PICK g \in Feeds : g = Head(q) /\ pc[g] = "domain" /\ DomainOf[g] = d
    BY <2>4 DEF WaitDomain, At
  <2>8. domainFree[d] > 0
    BY <2>6
  <2>9. CanStep(g)
    BY <2>3, <2>7, <2>8 DEF CanStep
  <2> QED
    BY <2>9
<1>4. \A f \in Feeds : pc[f] # "global"
  <2> SUFFICES ASSUME NEW f \in Feeds, pc[f] = "global" PROVE FALSE
    OBVIOUS
  <2>1. f \in At({"global"}) /\ Lists(globalQueue, At({"global"}))
    BY DEF At, Queued
  <2>2. globalQueue # <<>>
    BY <2>1 DEF Lists
  <2>3. Head(globalQueue) \in At({"global"})
    BY <2>1, <2>2, Dequeued
  <2>4. globalFree > 0
    BY GlobalPermitLeft DEF GlobalNeverWaits
  <2>5. CanStep(Head(globalQueue)) /\ Head(globalQueue) \in Feeds
    BY <2>2, <2>3, <2>4 DEF CanStep, At
  <2> QED
    BY <2>5
<1>5. \A f \in Feeds : pc[f] \in {"idle", "queued"}
  BY <1>2, <1>3, <1>4 DEF Steps
<1>6. Running = {}
  BY <1>5 DEF Running, At
<1>7. Cardinality(Running) < Parallelism
  <2>1. Cardinality(Running) = 0
    BY <1>6, FS_EmptySet
  <2>2. Parallelism \in Nat \ {0}
    BY <1>1, TickBatchAssumption DEF Parallelism, TypeOK, NoCap
  <2> QED
    BY <2>1, <2>2
<1> QED
  BY <1>5, <1>7 DEF CanStep

\* A batch never deadlocks: holding the global permit while waiting for the one
\* of a domain leaves somebody who can go on, whatever the limits
\* (concurrency.rs:109-136, processing.rs:93-95).
THEOREM NoDeadlock == Spec => []NeverStuck
<1>1. Spec => []Queued
  BY QueuedInit, QueuedNext, TypeCorrect, PTL DEF Spec
<1> QED
  BY <1>1, Invariance, SomeoneSteps, PTL
============================================================================
