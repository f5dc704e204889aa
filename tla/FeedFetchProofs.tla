-------------------------- MODULE FeedFetchProofs --------------------------
(***************************************************************************)
(* Proofs about FeedFetch: its invariants, the finality of exclusion, that *)
(* polling implements FeedService, that no update of a row is lost, and    *)
(* what that means for dead feeds and for changes, for every number of     *)
(* versions, faults and errors and for every set of feeds and watches.     *)
(***************************************************************************)
EXTENDS FeedFetch, TLAPS

\* The answers the origin can give to the request that is being made.
Answers == {Served(method)} \cup Failures(method) \cup Deviations(method)

LinkType == LinkStates(Statuses, Tags, {0, 1})

\* The counters of a link state saturate, so an increment stays in range.
LEMMA SatIncType == ASSUME NEW n \in 0..U32Max PROVE SatInc(n) \in 0..U32Max
  BY U32MaxAssumption DEF SatInc

\* A HEAD's answer moves a link state to a link state.
LEMMA ApplyHeadType ==
  ASSUME NEW s \in LinkType, NEW r \in AnswerType, NEW next \in {0, 1}
  PROVE  ApplyHeadResult(s, r, 0, next) \in LinkType
<1>1. s.backoff \in 0..U32Max /\ s.errors \in 0..U32Max
  BY DEF LinkType, LinkStates
<1>2. HeadBackoff(s, r) \in 0..U32Max
  BY <1>1, SatIncType DEF HeadBackoff
<1>3. ErrorsAfter(s, r) \in 0..U32Max
  BY <1>1, SatIncType, U32MaxAssumption DEF ErrorsAfter
<1>4. HeadPhase(s, r) \in LinkPhase
  BY DEF HeadPhase, LinkPhase
<1>5. /\ r.status \in Statuses
      /\ Learn(s.etag, r.etag) \in Tags
      /\ Learn(s.lastModified, r.lastModified) \in Tags
  BY DEF LinkType, LinkStates, AnswerType, Learn
<1>6. 0 + next \in {0, 1}
  OBVIOUS
<1> QED
  BY <1>2, <1>3, <1>4, <1>5, <1>6 DEF ApplyHeadResult, LinkType, LinkStates

\* So does a GET's, whatever became of the body.
LEMMA ApplyGetType ==
  ASSUME NEW s \in LinkType, NEW r \in AnswerType, NEW next \in {0, 1},
         NEW bodyChanged \in BOOLEAN
  PROVE  ApplyGetResult(s, r, 0, bodyChanged, next) \in LinkType
<1>1. s.backoff \in 0..U32Max /\ s.errors \in 0..U32Max
  BY DEF LinkType, LinkStates
<1>2. GetBackoff(s, r, bodyChanged) \in 0..U32Max
  BY <1>1, SatIncType, U32MaxAssumption DEF GetBackoff
<1>3. ErrorsAfter(s, r) \in 0..U32Max
  BY <1>1, SatIncType, U32MaxAssumption DEF ErrorsAfter
<1>4. (IF IsError(r) THEN "ErrorBackoff" ELSE "NeedsHead") \in LinkPhase
  BY DEF LinkPhase
<1>5. /\ r.status \in Statuses
      /\ Learn(s.etag, r.etag) \in Tags
      /\ Learn(s.lastModified, r.lastModified) \in Tags
  BY DEF LinkType, LinkStates, AnswerType, Learn
<1>6. 0 + next \in {0, 1}
  OBVIOUS
<1> QED
  BY <1>2, <1>3, <1>4, <1>5, <1>6 DEF ApplyGetResult, LinkType, LinkStates

LEMMA InitialType == Initial(0) \in LinkType
  BY U32MaxAssumption
  DEF Initial, LinkType, LinkStates, LinkPhase, Statuses, Tags, None

\* Every answer is well typed and stands for a version that has been published,
\* or for none.
LEMMA AnswersType ==
  ASSUME TypeOK, NEW r \in Answers
  PROVE  r \in AnswerType /\ r.of \in {None} \cup 1..version
<1>1. NoAnswer \in AnswerType /\ NoAnswer.of = None
  BY DEF NoAnswer, AnswerType, Statuses, Tags, Bodies
<1>2. version \in Versions /\ version \in 1..version
  BY FeedFetchAssumption DEF TypeOK, Versions
<1>3. source.content \in {"feed", "page"}
  BY FeedFetchAssumption DEF TypeOK, SourceType
<1>4. Served(method) \in AnswerType /\ Served(method).of = version
  BY <1>2, <1>3 DEF Served, AnswerType, Statuses, Tags, Bodies
<1>5. CASE r \in Failures(method)
  <2>1. CASE r = [NoAnswer EXCEPT !.error = TRUE]
    BY <1>1, <2>1 DEF AnswerType
  <2>2. CASE r # [NoAnswer EXCEPT !.error = TRUE]
    <3>1. PICK c \in ErrorStatuses,
               tags \in {<<None, None>>, <<Served(method).etag, Served(method).lastModified>>,
                        <<Foreign, Foreign>>} :
            r = [status |-> c, error |-> TRUE, etag |-> tags[1], lastModified |-> tags[2],
                 body |-> IF method = "GET" THEN "page" ELSE "none", of |-> None]
      BY <1>5, <2>2 DEF Failures
    <3>2. c \in Statuses
      BY DEF Statuses
    <3>3. tags[1] \in Tags /\ tags[2] \in Tags
      BY <1>4 DEF Tags, AnswerType
    <3> QED
      BY <3>1, <3>2, <3>3 DEF AnswerType, Bodies
  <2> QED
    BY <2>1, <2>2
<1>6. CASE r \in Deviations(method)
  <2> DEFINE full == Served(method)
  <2>1. \/ r = [full EXCEPT !.status = 304]
        \/ r = [full EXCEPT !.status = 304, !.body = "empty", !.of = None]
        \/ r = [full EXCEPT !.body = "none"]
    BY <1>6 DEF Deviations
  <2>2. full \in AnswerType /\ full.of \in {None} \cup 1..version
    BY <1>2, <1>4
  <2>3. 304 \in Statuses /\ "empty" \in Bodies /\ "none" \in Bodies
    BY DEF Statuses, Bodies
  <2> HIDE DEF full
  <2>4. CASE r = [full EXCEPT !.status = 304]
    BY <2>2, <2>3, <2>4 DEF AnswerType
  <2>5. CASE r = [full EXCEPT !.status = 304, !.body = "empty", !.of = None]
    BY <2>2, <2>3, <2>5 DEF AnswerType
  <2>6. CASE r = [full EXCEPT !.body = "none"]
    BY <2>2, <2>3, <2>6 DEF AnswerType
  <2> QED
    BY <2>1, <2>4, <2>5, <2>6
<1> QED
  BY <1>2, <1>4, <1>5, <1>6 DEF Answers

----------------------------------------------------------------------------
(* Type correctness. *)

\* The three ways a request can end deliver one of the origin's answers.
LEMMA RequestStep ==
  ASSUME TypeOK, RequestServed \/ RequestFails \/ RequestDeviates
  PROVE  /\ pc = "requesting"
         /\ faults' \in 0..MaxFaults
         /\ \E r \in Answers : Receive(r)
<1>1. faults \in 0..MaxFaults /\ MaxFaults \in Nat
  BY FeedFetchAssumption DEF TypeOK
<1>2. CASE RequestServed
  BY <1>1, <1>2 DEF RequestServed, Answers
<1>3. CASE RequestFails
  BY <1>1, <1>3 DEF RequestFails, Answers
<1>4. CASE RequestDeviates
  BY <1>1, <1>4 DEF RequestDeviates, Answers
<1> QED
  BY <1>2, <1>3, <1>4

\* The locals a finished process leaves behind are well typed.
LEMMA ReturnType ==
  ASSUME Return
  PROVE  /\ pc' = "idle"
         /\ method' \in {"HEAD", "GET"} /\ link' \in LinkType
         /\ answer' \in AnswerType /\ emit' \in BOOLEAN
  BY InitialType DEF Return, NoAnswer, AnswerType, Statuses, Tags, Bodies

\* What an answer does to the locals is well typed.
LEMMA ReceiveType ==
  ASSUME TypeOK, NEW r \in Answers, Receive(r)
  PROVE  link' \in LinkType /\ answer' \in AnswerType /\ emit' \in BOOLEAN
<1>1. PICK next \in {0, 1} :
        /\ answer' = r
        /\ IF method = "HEAD"
           THEN /\ emit' = FALSE
                /\ link' = ApplyHeadResult(link, r, 0, next)
           ELSE /\ emit' = Emits(link, r)
                /\ link' = ApplyGetResult(link, r, 0, BodyChanged(link, r), next)
  BY DEF Receive
<1>2. r \in AnswerType /\ link \in LinkType
  BY AnswersType DEF TypeOK, LinkType
<1>3. BodyChanged(link, r) \in BOOLEAN
  <2>1. CASE source.watch
    BY <2>1 DEF BodyChanged
  <2>2. CASE ~source.watch
    BY <2>2 DEF BodyChanged
  <2> QED
    BY <2>1, <2>2
<1>4. Emits(link, r) \in BOOLEAN
  BY Zenon DEF Emits
<1>5. CASE method = "HEAD"
  BY <1>1, <1>2, <1>5, ApplyHeadType
<1>6. CASE method # "HEAD"
  BY <1>1, <1>2, <1>3, <1>4, <1>6, ApplyGetType
<1> QED
  BY <1>5, <1>6

\* TypeOK is inductive on its own.
LEMMA TypeStep == TypeOK /\ [Next]_vars => TypeOK'
<1> SUFFICES ASSUME TypeOK, [Next]_vars PROVE TypeOK'
  OBVIOUS
<1> USE DEF LinkType
<1>1. CASE Publish
  BY <1>1, FeedFetchAssumption
  DEF TypeOK, Publish, Versions, dbVars, localVars
<1>2. CASE Vanish
  BY <1>2 DEF TypeOK, Vanish, dbVars, localVars
<1>3. CASE Wake
  <2>1. row' \in LinkType
    BY <1>3 DEF TypeOK, Wake, LinkStates
  <2> QED
    BY <1>3, <2>1 DEF TypeOK, Wake, originVars, localVars
<1>4. CASE Dispatch
  BY <1>4 DEF TypeOK, Dispatch, Goto, Steps, originVars, dbVars, localVars
<1>5. CASE ReadState
  <2>1. CASE DecideNextAction(row, 0) = "SleepUntil"
    BY <1>5, <2>1, ReturnType
    DEF TypeOK, ReadState, Steps, originVars, dbVars
  <2>2. CASE DecideNextAction(row, 0) # "SleepUntil"
    BY <1>5, <2>2 DEF TypeOK, ReadState, Steps, originVars, dbVars
  <2> QED
    BY <2>1, <2>2
<1>6. CASE RequestServed \/ RequestFails \/ RequestDeviates
  <2>1. PICK r \in Answers : Receive(r)
    BY <1>6, RequestStep
  <2>2. /\ faults' \in 0..MaxFaults
        /\ link' \in LinkType /\ answer' \in AnswerType /\ emit' \in BOOLEAN
    BY <1>6, <2>1, RequestStep, ReceiveType
  <2> QED
    BY <2>1, <2>2 DEF TypeOK, Receive, Steps, originVars, dbVars
<1>7. CASE InsertEvent
  BY <1>7
  DEF TypeOK, InsertEvent, Goto, AfterCookies, Steps, originVars, dbVars, localVars
<1>8. CASE PersistCookies
  BY <1>8
  DEF TypeOK, PersistCookies, Goto, AfterCookies, Steps, originVars, dbVars, localVars
<1>9. CASE InsertPayload
  BY <1>9
  DEF TypeOK, InsertPayload, Goto, Steps, AnswerType, originVars, localVars
<1>10. CASE InsertState
  <2>1. row' \in LinkType /\ acked' \subseteq {None} \cup Versions
    BY <1>10 DEF TypeOK, InsertState, AnswerType
  <2>2. CASE ShouldMark(link, answer)
    BY <1>10, <2>1, <2>2
    DEF TypeOK, InsertState, Goto, Steps, originVars, localVars
  <2>3. CASE ~ShouldMark(link, answer)
    BY <1>10, <2>1, <2>3, ReturnType
    DEF TypeOK, InsertState, Steps, originVars
  <2> QED
    BY <2>2, <2>3
<1>11. CASE MarkFeedError
  BY <1>11, ReturnType DEF TypeOK, MarkFeedError, Steps, originVars
<1>12. CASE Abort
  <2>1. faults' \in 0..MaxFaults
    BY <1>12, FeedFetchAssumption DEF TypeOK, Abort
  <2> QED
    BY <1>12, <2>1, ReturnType DEF TypeOK, Abort, Steps, originVars, dbVars
<1>13. CASE UNCHANGED vars
  BY <1>13 DEF TypeOK, vars, originVars, dbVars, localVars
<1> QED
  BY <1>1, <1>2, <1>3, <1>4, <1>5, <1>6, <1>7, <1>8, <1>9, <1>10, <1>11,
     <1>12, <1>13
  DEF Next, Proceed

LEMMA TypeInit == Init => TypeOK
<1>1. NoAnswer \in AnswerType
  BY DEF NoAnswer, AnswerType, Statuses, Tags, Bodies
<1>2. 1 \in Versions /\ MaxFaults \in 0..MaxFaults
  BY FeedFetchAssumption DEF Versions
<1> QED
  BY <1>1, <1>2, InitialType DEF Init, TypeOK, LinkType, Steps

\* Every variable of a feed's polling stays in its type, for every number of
\* versions and faults and every set of feeds.
THEOREM TypeCorrect == Spec => []TypeOK
  BY TypeInit, TypeStep, PTL DEF Spec

----------------------------------------------------------------------------
(* The inductive invariant.  What makes AckedIsStored and MarkJustified      *)
(* hold is what the process knows between two of its statements.             *)

\* The answer stands for a published version (or none), and its payload is in
\* the database by the time the state is to be written.
AnswerPublished == answer.of \in {None} \cup 1..version

PayloadBeforeState == pc = "state" /\ emit => answer.of \in stored

\* The link state to be written shows the status of the answer.
StatusKept ==
  pc \in {"event", "cookies", "payload", "state"} =>
    answer.status \in {link.headStatus, link.getStatus}

\* A mark about to be written is justified by the row already.
JustifiedBeforeMark == pc = "mark" => ShowsWhy(row)

\* Nothing runs for an excluded feed.
ExcludedIsIdle == marked => pc = "idle"

IInv ==
  /\ TypeOK
  /\ AckedIsStored
  /\ MarkJustified
  /\ AnswerPublished
  /\ PayloadBeforeState
  /\ StatusKept
  /\ JustifiedBeforeMark
  /\ ExcludedIsIdle

LEMMA InvInit == Init => IInv
  BY TypeInit
  DEF IInv, Init, AckedIsStored, MarkJustified, AnswerPublished,
      PayloadBeforeState, StatusKept, JustifiedBeforeMark, ExcludedIsIdle,
      NoAnswer

\* An answer's status goes into the link state, whichever the method.
LEMMA ReceiveKeepsStatus ==
  ASSUME TypeOK, NEW r \in Answers, Receive(r)
  PROVE  answer' = r /\ answer'.status \in {link'.headStatus, link'.getStatus}
<1>1. link \in LinkType
  BY DEF TypeOK, LinkType
<1>2. \A next \in {0, 1} :
        ApplyHeadResult(link, r, 0, next).headStatus = r.status
  BY <1>1 DEF ApplyHeadResult, LinkType, LinkStates
<1>3. \A next \in {0, 1}, b \in BOOLEAN :
        ApplyGetResult(link, r, 0, b, next).getStatus = r.status
  BY <1>1 DEF ApplyGetResult, LinkType, LinkStates
<1>4. BodyChanged(link, r) \in BOOLEAN
  <2>1. CASE source.watch
    BY <2>1 DEF BodyChanged
  <2>2. CASE ~source.watch
    BY <2>2 DEF BodyChanged
  <2> QED
    BY <2>1, <2>2
<1> QED
  BY <1>2, <1>3, <1>4 DEF Receive

\* A row that shows the errors or the status that ShouldMark looks for.
LEMMA ShouldMarkShows ==
  ASSUME NEW s, NEW r, ShouldMark(s, r), r.status \in {s.headStatus, s.getStatus}
  PROVE  ShowsWhy(s)
  BY DEF ShouldMark, ShowsWhy

LEMMA InvStep == IInv /\ [Next]_vars => IInv'
<1> SUFFICES ASSUME IInv, [Next]_vars PROVE IInv'
  OBVIOUS
<1>0. TypeOK /\ TypeOK'
  BY TypeStep DEF IInv
<1> USE DEF IInv, AckedIsStored, MarkJustified, AnswerPublished,
            PayloadBeforeState, StatusKept, JustifiedBeforeMark, ExcludedIsIdle
<1>1. CASE Publish
  BY <1>0, <1>1 DEF Publish, dbVars, localVars, TypeOK, Versions
<1>2. CASE Vanish
  BY <1>0, <1>2 DEF Vanish, dbVars, localVars
<1>3. CASE Wake
  <2>1. row'.errors = row.errors /\ row'.headStatus = row.headStatus
        /\ row'.getStatus = row.getStatus
    BY <1>0, <1>3 DEF Wake, TypeOK, LinkStates
  <2> QED
    BY <1>0, <1>3, <2>1 DEF Wake, originVars, localVars, ShowsWhy
<1>4. CASE Dispatch
  BY <1>0, <1>4 DEF Dispatch, Goto, Due, originVars, dbVars, localVars
<1>5. CASE ReadState
  BY <1>0, <1>5 DEF ReadState, Return, NoAnswer, originVars, dbVars
<1>6. CASE RequestServed \/ RequestFails \/ RequestDeviates
  <2>1. PICK r \in Answers : Receive(r)
    BY <1>0, <1>6, RequestStep
  <2>2. answer' = r /\ answer'.status \in {link'.headStatus, link'.getStatus}
    BY <1>0, <2>1, ReceiveKeepsStatus
  <2>3. r.of \in {None} \cup 1..version
    BY <1>0, AnswersType
  <2>4. pc = "requesting" /\ pc' = "event" /\ UNCHANGED <<originVars, dbVars>>
    BY <1>0, <1>6, <2>1, RequestStep DEF Receive
  <2> QED
    BY <1>0, <2>2, <2>3, <2>4 DEF originVars, dbVars
<1>7. CASE InsertEvent
  BY <1>0, <1>7
  DEF InsertEvent, Goto, AfterCookies, originVars, dbVars, localVars
<1>8. CASE PersistCookies
  BY <1>0, <1>8
  DEF PersistCookies, Goto, AfterCookies, originVars, dbVars, localVars
<1>9. CASE InsertPayload
  BY <1>0, <1>9 DEF InsertPayload, Goto, originVars, localVars
<1>10. CASE InsertState
  <2>1. ~marked /\ ~marked' /\ acked' \subseteq stored'
    BY <1>0, <1>10 DEF InsertState, TypeOK
  <2>2. CASE ShouldMark(link, answer)
    <3>1. ShowsWhy(row')
      BY <1>10, <2>2, ShouldMarkShows DEF InsertState
    <3> QED
      BY <1>0, <1>10, <2>1, <2>2, <3>1
      DEF InsertState, Goto, originVars, localVars, ShowsWhy
  <2>3. CASE ~ShouldMark(link, answer)
    BY <1>0, <1>10, <2>1, <2>3 DEF InsertState, Return, NoAnswer, originVars
  <2> QED
    BY <2>2, <2>3
<1>11. CASE MarkFeedError
  BY <1>0, <1>11 DEF MarkFeedError, Return, NoAnswer, originVars, ShowsWhy
<1>12. CASE Abort
  BY <1>0, <1>12 DEF Abort, Return, NoAnswer, originVars, dbVars, ShowsWhy
<1>13. CASE UNCHANGED vars
  BY <1>0, <1>13 DEF vars, originVars, dbVars, localVars, ShowsWhy
<1> QED
  BY <1>1, <1>2, <1>3, <1>4, <1>5, <1>6, <1>7, <1>8, <1>9, <1>10, <1>11,
     <1>12, <1>13
  DEF Next, Proceed

LEMMA Invariance == Spec => []IInv
  BY InvInit, InvStep, PTL DEF Spec

----------------------------------------------------------------------------
(* The results. *)

\* What a written row relies on is stored, whatever statement fails and
\* wherever the fetcher is killed (actions.rs:268-301).
THEOREM NothingAckedIsLost == Spec => []AckedIsStored
  BY Invariance, PTL DEF IInv

\* A feed in error_feeds has a stored row that shows why (actions.rs:963-1040).
THEOREM MarksAreJustified == Spec => []MarkJustified
  BY Invariance, PTL DEF IInv

\* No step polls an excluded feed or changes what is stored of it.
LEMMA ExcludedStep ==
  ASSUME IInv, [Next]_vars, marked
  PROVE  UNCHANGED <<pc, marked, stored, acked>>
<1>1. pc = "idle"
  BY DEF IInv, ExcludedIsIdle
<1>2. ~Dispatch
  BY DEF Dispatch, Due
<1>3. ~Proceed
  BY <1>1
  DEF Proceed, ReadState, RequestServed, RequestFails, RequestDeviates,
      InsertEvent, PersistCookies, InsertPayload, InsertState, MarkFeedError,
      Abort
<1>4. CASE Publish \/ Vanish \/ Wake
  BY <1>4 DEF Publish, Vanish, Wake, dbVars
<1>5. CASE UNCHANGED vars
  BY <1>5 DEF vars, dbVars
<1> QED
  BY <1>2, <1>3, <1>4, <1>5 DEF Next

\* Exclusion is permanent (feeds.rs: due_feeds leaves out error_feeds).
THEOREM ExclusionIsFinal == Spec => ExcludedForGood
<1>1. IInv /\ [Next]_vars
        => [marked => UNCHANGED <<pc, marked, stored, acked>>]_<<pc, dbVars>>
  BY ExcludedStep
<1> QED
  BY <1>1, Invariance, PTL DEF Spec, ExcludedForGood

\* Each step of a feed's polling is a step of the abstract service or none.
LEMMA StepSimulation ==
  IInv /\ [Next]_vars => [Service!ANext]_(Service!abstractVars)
<1> SUFFICES ASSUME IInv, [Next]_vars
             PROVE  [Service!ANext]_(Service!abstractVars)
  OBVIOUS
<1> USE DEF Service!ANext, Service!abstractVars
<1>1. CASE Publish
  BY <1>1 DEF Publish, dbVars, Service!APublish
<1>2. CASE Vanish \/ Wake \/ UNCHANGED vars
  BY <1>2 DEF Vanish, Wake, vars, originVars, dbVars
<1>3. CASE Dispatch \/ ReadState \/ InsertEvent \/ PersistCookies \/ Abort
  BY <1>3
  DEF Dispatch, ReadState, InsertEvent, PersistCookies, Abort, originVars, dbVars
<1>4. CASE RequestServed \/ RequestFails \/ RequestDeviates
  <2>1. \E r \in Answers : Receive(r)
    BY <1>4, RequestStep DEF IInv
  <2> QED
    BY <2>1 DEF Receive, originVars, dbVars
<1>5. CASE InsertPayload
  <2>1. ~marked /\ answer.of \in {None} \cup 1..version
    BY <1>5 DEF IInv, ExcludedIsIdle, AnswerPublished, InsertPayload
  <2> QED
    BY <1>5, <2>1 DEF InsertPayload, originVars, Service!Store
<1>6. CASE InsertState
  <2>1. ~marked
    BY <1>6 DEF IInv, ExcludedIsIdle, InsertState
  <2>2. CASE emit
    <3>1. answer.of \in stored
      BY <1>6, <2>2 DEF IInv, PayloadBeforeState, InsertState
    <3> QED
      BY <1>6, <2>1, <2>2, <3>1 DEF InsertState, originVars, Service!Acknowledge
  <2>3. CASE ~emit
    BY <1>6, <2>3 DEF InsertState, originVars
  <2> QED
    BY <2>2, <2>3
<1>7. CASE MarkFeedError
  BY <1>7 DEF MarkFeedError, originVars, Service!Exclude
<1> QED
  BY <1>1, <1>2, <1>3, <1>4, <1>5, <1>6, <1>7 DEF Next, Proceed

\* Polling one feed implements the abstract service: only published content is
\* stored, it is stored before it is acknowledged, and exclusion is final.
THEOREM Implementation == Spec => ImplementsService
<1>1. Init => Service!AInit
  BY DEF Init, Service!AInit
<1>2. IInv /\ [Next]_vars => [Service!ANext]_(Service!abstractVars)
  BY StepSimulation
<1> QED
  BY <1>1, <1>2, Invariance, PTL DEF Spec, ImplementsService, Service!ASpec

----------------------------------------------------------------------------
(***************************************************************************)
(* What a poll writes is about the row it replaces, though it was computed *)
(* before the process waited for permits, an answer and several            *)
(* statements.  With it come the safety parts of the liveness properties:  *)
(* how a dead feed is counted out, and which row lets go of a change.      *)
(***************************************************************************)

Fetching == {"NeedsInitialGet", "NeedsGet"}
Writing == {"event", "cookies", "payload", "state"}

\* The link state s after the answer at hand.
Applied(s) ==
  IF method = "HEAD" THEN ApplyHeadResult(s, answer, 0, link.next)
  ELSE ApplyGetResult(s, answer, 0, BodyChanged(s, answer), link.next)

\* The locals are those of the row as it stands, whatever happened since it was
\* read.
WorksOnCurrent ==
  /\ pc = "requesting" => link = [row EXCEPT !.next = 0]
  /\ pc \in Writing => link = Applied(row)

GetsWhatIsDue ==
  pc \in {"requesting"} \cup Writing => (row.phase \in Fetching => method = "GET")

Working == WorksOnCurrent /\ GetsWhatIsDue

LEMMA WorkingInit == Init => Working
  BY DEF Init, Working, WorksOnCurrent, GetsWhatIsDue, Initial,
         NoAnswer, Writing

\* An answer moves a link state whatever its instant is.
LEMMA InstantIrrelevant ==
  ASSUME NEW s \in LinkType, NEW t \in LinkType, NEW n, t = [s EXCEPT !.next = n],
         NEW r, NEW changed, NEW delay
  PROVE  /\ ApplyHeadResult(t, r, 0, delay) = ApplyHeadResult(s, r, 0, delay)
         /\ ApplyGetResult(t, r, 0, changed, delay) = ApplyGetResult(s, r, 0, changed, delay)
         /\ BodyChanged(t, r) = BodyChanged(s, r)
<1>1. /\ t.phase = s.phase /\ t.headStatus = s.headStatus /\ t.getStatus = s.getStatus
      /\ t.etag = s.etag /\ t.lastModified = s.lastModified
      /\ t.backoff = s.backoff /\ t.errors = s.errors
  BY DEF LinkType, LinkStates
<1>2. /\ HeadPhase(t, r) = HeadPhase(s, r) /\ HeadBackoff(t, r) = HeadBackoff(s, r)
      /\ GetBackoff(t, r, changed) = GetBackoff(s, r, changed)
      /\ ErrorsAfter(t, r) = ErrorsAfter(s, r)
  BY <1>1 DEF HeadPhase, HeadBackoff, GetBackoff, HasChanged, ErrorsAfter
<1>3. ApplyHeadResult(t, r, 0, delay) = ApplyHeadResult(s, r, 0, delay)
  BY <1>1, <1>2 DEF ApplyHeadResult, LinkType, LinkStates
<1>4. ApplyGetResult(t, r, 0, changed, delay) = ApplyGetResult(s, r, 0, changed, delay)
  BY <1>1, <1>2 DEF ApplyGetResult, LinkType, LinkStates
<1>5. BodyChanged(t, r) = BodyChanged(s, r)
  BY <1>1 DEF BodyChanged
<1> QED
  BY <1>3, <1>4, <1>5

\* A step that leaves the locals and all of the row but its instant alone.
LEMMA WorkingKept ==
  ASSUME TypeOK, Working, UNCHANGED <<source, method, link, answer>>,
         NEW n \in {0, 1}, row' = row \/ row' = [row EXCEPT !.next = n],
         pc' = pc \/ (pc \in Writing /\ pc' \in Writing) \/ pc' \in {"reading", "mark"}
  PROVE  Working'
<1>1. row \in LinkType
  BY DEF TypeOK, LinkType
<1>2. /\ row'.phase = row.phase /\ row'.etag = row.etag
      /\ row'.lastModified = row.lastModified
      /\ [row' EXCEPT !.next = 0] = [row EXCEPT !.next = 0]
  BY <1>1 DEF LinkType, LinkStates
<1>3. BodyChanged(row', answer) = BodyChanged(row, answer) /\ BodyChanged(row, answer)' = BodyChanged(row', answer)
  BY <1>2 DEF BodyChanged
<1>4. /\ ApplyHeadResult(row', answer, 0, link.next) = ApplyHeadResult(row, answer, 0, link.next)
      /\ ApplyGetResult(row', answer, 0, BodyChanged(row, answer), link.next)
           = ApplyGetResult(row, answer, 0, BodyChanged(row, answer), link.next)
  <2>1. CASE row' = row
    BY <2>1
  <2>2. CASE row' = [row EXCEPT !.next = n]
    <3>1. row' \in LinkType
      BY <1>1, <2>2 DEF LinkType, LinkStates
    <3> QED
      BY <1>1, <2>2, <3>1, InstantIrrelevant
  <2> QED
    BY <2>1, <2>2
<1>5. Applied(row)' = Applied(row)
  BY <1>3, <1>4 DEF Applied
<1>6. pc' \in {"requesting"} \cup Writing => pc \in {"requesting"} \cup Writing /\ (pc' = "requesting" <=> pc = "requesting")
  BY DEF Writing
<1> QED
  BY <1>2, <1>5, <1>6 DEF Working, WorksOnCurrent, GetsWhatIsDue, Writing, IsError

\* Nothing is at hand.
LEMMA WorkingIdle ==
  ASSUME Return
  PROVE  Working'
  BY DEF Return, NoAnswer, Working, WorksOnCurrent, GetsWhatIsDue, Writing

\* The answer to a request about the row that was read.
LEMMA WorkingReceive ==
  ASSUME TypeOK, Working, pc = "requesting", NEW r \in Answers, Receive(r)
  PROVE  Working'
<1>1. PICK next \in {0, 1} :
        /\ answer' = r /\ pc' = "event" /\ UNCHANGED <<originVars, dbVars, method>>
        /\ link' = IF method = "HEAD" THEN ApplyHeadResult(link, r, 0, next)
                   ELSE ApplyGetResult(link, r, 0, BodyChanged(link, r), next)
  BY DEF Receive
<1>2. row \in LinkType /\ link \in LinkType /\ link = [row EXCEPT !.next = 0]
  BY DEF TypeOK, LinkType, Working, WorksOnCurrent
<1>3. BodyChanged(link, r) = BodyChanged(row, r)
  BY <1>2, InstantIrrelevant
<1>4. /\ ApplyHeadResult(link, r, 0, next) = ApplyHeadResult(row, r, 0, next)
      /\ ApplyGetResult(link, r, 0, BodyChanged(row, r), next)
           = ApplyGetResult(row, r, 0, BodyChanged(row, r), next)
  <2> DEFINE changed == BodyChanged(row, r)
  <2> HIDE DEF changed
  <2>1. /\ ApplyHeadResult(link, r, 0, next) = ApplyHeadResult(row, r, 0, next)
        /\ ApplyGetResult(link, r, 0, changed, next) = ApplyGetResult(row, r, 0, changed, next)
    BY <1>2, InstantIrrelevant
  <2> QED
    BY <2>1 DEF changed
<1>5. link'.next = next
  <2>1. 0 + next = next
    OBVIOUS
  <2>2. /\ ApplyHeadResult(row, r, 0, next).next = next
        /\ ApplyGetResult(row, r, 0, BodyChanged(row, r), next).next = next
    BY <1>2, <2>1 DEF ApplyHeadResult, ApplyGetResult, LinkType, LinkStates
  <2> QED
    BY <1>1, <1>3, <1>4, <2>2
<1>6. BodyChanged(row, answer)' = BodyChanged(row, r)
  BY <1>1 DEF BodyChanged, originVars, dbVars
<1>7. link' = Applied(row)'
  BY <1>1, <1>3, <1>4, <1>5, <1>6 DEF Applied, dbVars
<1> QED
  BY <1>1, <1>7
  DEF Working, WorksOnCurrent, GetsWhatIsDue, Writing, originVars, dbVars, IsError

\* What a written row learns from the answer.
LEMMA WrittenValidators ==
  ASSUME TypeOK, Working, pc = "state"
  PROVE  /\ link.etag = Learn(row.etag, answer.etag)
         /\ link.lastModified = Learn(row.lastModified, answer.lastModified)
         /\ link.errors = ErrorsAfter(row, answer)
         /\ method = "HEAD" => link.phase = HeadPhase(row, answer)
<1>1. row \in LinkType /\ link = Applied(row)
  BY DEF TypeOK, LinkType, Working, WorksOnCurrent, Writing
<1>2. CASE method = "HEAD"
  BY <1>1, <1>2 DEF Applied, ApplyHeadResult, LinkType, LinkStates
<1>3. CASE method # "HEAD"
  BY <1>1, <1>3 DEF Applied, ApplyGetResult, LinkType, LinkStates
<1> QED
  BY <1>2, <1>3

LEMMA WorkingStep == TypeOK /\ Working /\ [Next]_vars => Working'
<1> SUFFICES ASSUME TypeOK, Working, [Next]_vars PROVE Working'
  OBVIOUS
<1>1. CASE Publish \/ Vanish \/ UNCHANGED vars
  BY <1>1, WorkingKept DEF Publish, Vanish, vars, originVars, dbVars, localVars
<1>2. CASE Wake
  BY <1>2, WorkingKept DEF Wake, originVars, localVars
<1>3. CASE Dispatch
  BY <1>3, WorkingKept DEF Dispatch, Goto, originVars, dbVars, localVars
<1>4. CASE ReadState
  <2>1. UNCHANGED <<source, row>>
    BY <1>4 DEF ReadState, originVars, dbVars
  <2>2. CASE DecideNextAction(row, 0) = "SleepUntil"
    BY <1>4, <2>1, <2>2, WorkingIdle DEF ReadState, Working
  <2>3. CASE DecideNextAction(row, 0) # "SleepUntil"
    <3>1. /\ pc' = "requesting" /\ link' = row /\ answer' = answer
          /\ method' = IF DecideNextAction(row, 0) = "DoHead" /\ ~(source.watch /\ source.checkGet)
                       THEN "HEAD" ELSE "GET"
      BY <1>4, <2>3 DEF ReadState
    <3>2. row \in LinkType /\ row.next = 0
      BY <2>3 DEF TypeOK, LinkType, LinkStates, DecideNextAction
    <3>3. row.phase \in Fetching => method' = "GET"
      BY <3>1, <3>2 DEF DecideNextAction, Fetching
    <3>4. row = [row EXCEPT !.next = 0]
      BY <3>2 DEF LinkType, LinkStates
    <3> QED
      BY <2>1, <3>1, <3>3, <3>4
      DEF Working, WorksOnCurrent, GetsWhatIsDue, Writing, IsError
  <2> QED
    BY <2>2, <2>3
<1>5. CASE RequestServed \/ RequestFails \/ RequestDeviates
  BY <1>5, RequestStep, WorkingReceive
<1>6. CASE InsertEvent \/ PersistCookies \/ InsertPayload
  <2>1. pc \in Writing /\ pc' \in Writing /\ UNCHANGED <<source, row, method, link, answer>>
    BY <1>6
    DEF InsertEvent, PersistCookies, InsertPayload, Goto, AfterCookies, Writing,
        originVars, dbVars, localVars
  <2> QED
    BY <2>1, WorkingKept
<1>7. CASE InsertState
  <2>1. row' = link /\ UNCHANGED source
    BY <1>7 DEF InsertState, originVars
  <2>3. CASE ShouldMark(link, answer)
    <3>1. pc' = "mark" /\ answer' = answer
      BY <1>7, <2>3 DEF InsertState, Goto, localVars
    <3> QED
      BY <2>1, <3>1
      DEF Working, WorksOnCurrent, GetsWhatIsDue, Writing, IsError
  <2>4. CASE ~ShouldMark(link, answer)
    BY <1>7, <2>4, WorkingIdle DEF InsertState
  <2> QED
    BY <2>3, <2>4
<1>8. CASE MarkFeedError \/ Abort
  BY <1>8, WorkingIdle DEF MarkFeedError, Abort, originVars, dbVars, Working
<1> QED
  BY <1>1, <1>2, <1>3, <1>4, <1>5, <1>6, <1>7, <1>8 DEF Next, Proceed

LEMMA WorkingInvariance == Spec => [](TypeOK /\ Working)
  BY TypeInit, TypeStep, WorkingInit, WorkingStep, PTL DEF Spec

----------------------------------------------------------------------------
(* What follows for the rows. *)

\* No update of a row is lost: what is written is the answer applied to the row
\* it replaces.
RowsFollow == [][InsertState => row' = Applied(row)]_vars

\* process_feed reads the row before it waits for anything, and do_head and
\* do_get write it when all that is done: whatever came in between, kills
\* included, the row they replace is the one read (processing.rs:312-335,
\* actions.rs:285-301).
THEOREM NoUpdateLost == Spec => RowsFollow
<1>1. TypeOK /\ Working /\ [Next]_vars => [InsertState => row' = Applied(row)]_vars
  BY DEF InsertState, Working, WorksOnCurrent, Writing
<1> QED
  BY <1>1, WorkingInvariance, PTL DEF Spec, RowsFollow

\* The origin is gone, and no answer from before that is on its way.
Dead == gone /\ (pc \in Writing \cup {"mark"} => IsError(answer))

\* A feed whose origin is gone is counted out: its count of errors never falls,
\* every row written adds to it, and one that reaches the maximum is followed by
\* the mark.
DeadCounts ==
  [][Dead =>
       /\ Dead'
       /\ row'.errors >= row.errors
       /\ InsertState =>
            /\ row'.errors = SatInc(row.errors)
            /\ MaxConsecutiveErrors > 0 /\ row'.errors >= MaxConsecutiveErrors => pc' = "mark"]_vars

LEMMA DeadStep ==
  ASSUME TypeOK, Working, [Next]_vars, Dead
  PROVE  /\ Dead'
         /\ row'.errors >= row.errors
         /\ InsertState =>
              /\ row'.errors = SatInc(row.errors)
              /\ MaxConsecutiveErrors > 0 /\ row'.errors >= MaxConsecutiveErrors => pc' = "mark"
<1>0. row \in LinkType /\ row.errors \in 0..U32Max /\ gone
  BY DEF TypeOK, LinkType, LinkStates, Dead
<1>1. CASE Publish \/ Vanish
  BY <1>0, <1>1 DEF Publish, Vanish
<1>2. CASE InsertState
  <2>1. /\ pc = "state" /\ row' = link /\ gone'
        /\ IF ShouldMark(link, answer) THEN Goto({"mark"}) ELSE Return
    BY <1>0, <1>2 DEF InsertState, originVars
  <2>2. row'.errors = SatInc(row.errors)
    BY <2>1, WrittenValidators DEF Dead, ErrorsAfter, Writing
  <2>3. row.errors <= SatInc(row.errors)
    BY <1>0 DEF SatInc
  <2>4. MaxConsecutiveErrors > 0 /\ row'.errors >= MaxConsecutiveErrors => pc' = "mark"
    BY <2>1 DEF ShouldMark, Goto
  <2>5. Dead'
    <3>1. CASE ShouldMark(link, answer)
      BY <2>1, <3>1 DEF Dead, Goto, localVars, IsError, Writing
    <3>2. CASE ~ShouldMark(link, answer)
      BY <2>1, <3>2 DEF Dead, Return, Writing
    <3> QED
      BY <3>1, <3>2
  <2> QED
    BY <1>0, <2>2, <2>3, <2>4, <2>5
<1> SUFFICES ASSUME ~InsertState, ~Publish, ~Vanish
             PROVE  Dead' /\ row'.errors >= row.errors
  BY <1>1, <1>2
<1>3. CASE RequestServed \/ RequestFails \/ RequestDeviates
  <2>1. RequestFails
    BY <1>0, <1>3 DEF RequestServed, RequestDeviates
  <2>2. PICK r \in Failures(method) : Receive(r)
    BY <2>1 DEF RequestFails
  <2>3. r.error
    BY DEF Failures, NoAnswer
  <2>4. answer' = r /\ UNCHANGED <<gone, row>>
    BY <2>2 DEF Receive, originVars, dbVars
  <2> QED
    BY <1>0, <2>3, <2>4 DEF Dead, IsError
<1>4. CASE Wake
  <2>1. row'.errors = row.errors
    BY <1>0, <1>4 DEF Wake, LinkType, LinkStates
  <2> QED
    BY <1>0, <1>4, <2>1 DEF Wake, Dead, originVars, localVars, IsError
<1>5. CASE Dispatch \/ ReadState \/ MarkFeedError \/ Abort
  <2>1. UNCHANGED <<gone, row>> /\ pc' \in {"idle", "reading", "requesting"}
    BY <1>5 DEF Dispatch, Goto, ReadState, MarkFeedError, Abort, Return, originVars, dbVars
  <2> QED
    BY <1>0, <2>1 DEF Dead, Writing
<1>6. CASE InsertEvent \/ PersistCookies \/ InsertPayload
  <2>1. UNCHANGED <<gone, row, answer>> /\ pc \in Writing
    BY <1>6
    DEF InsertEvent, PersistCookies, InsertPayload, Goto, Writing, originVars, dbVars, localVars
  <2> QED
    BY <1>0, <2>1 DEF Dead, IsError
<1>7. CASE UNCHANGED vars
  BY <1>0, <1>7 DEF vars, originVars, dbVars, localVars, Dead, IsError
<1> QED
  BY <1>3, <1>4, <1>5, <1>6, <1>7 DEF Next, Proceed

\* The safety part of DeadFeedExcluded (link_state.rs:147-178, 254-284,
\* actions.rs:963-1040): kills and failed statements may repeat a request, but
\* never take back a count.
THEOREM DeadFeedCountsUp == Spec => DeadCounts
<1>1. TypeOK /\ Working /\ [Next]_vars =>
        [Dead =>
           /\ Dead'
           /\ row'.errors >= row.errors
           /\ InsertState =>
                /\ row'.errors = SatInc(row.errors)
                /\ MaxConsecutiveErrors > 0 /\ row'.errors >= MaxConsecutiveErrors => pc' = "mark"]_vars
  BY DeadStep
<1> QED
  BY <1>1, WorkingInvariance, PTL DEF Spec, DeadCounts

\* The row has every validator that the origin sends, of some content.
HasValidators ==
  /\ "etag" \in source.validators => row.etag # None
  /\ "lastModified" \in source.validators => row.lastModified # None

\* Once a row has validators, no HEAD that succeeds lets go of a change: content
\* that is not stored becomes old news only by the row of a GET that had nothing
\* of it to store, or by an error answer that carries its validators.
LostOnlyByGet ==
  [][\A v \in Versions \ stored :
       HasValidators /\ ~KnowsValidators(v) /\ KnowsValidators(v)' =>
         /\ InsertState
         /\ method = "GET" \/ IsError(answer)
         /\ ~(emit /\ answer.of = v)]_vars

LEMMA HeadNotices ==
  ASSUME TypeOK, Working, pc = "state", method = "HEAD", ~IsError(answer), HasValidators,
         NEW v \in Versions, ~KnowsValidators(v),
         link.phase \notin Fetching,
         "etag" \in source.validators => link.etag = v,
         "lastModified" \in source.validators => link.lastModified = v
  PROVE  FALSE
<1>1. row.phase \notin Fetching
  BY DEF Working, GetsWhatIsDue, Writing
<1>2. /\ link.etag = Learn(row.etag, answer.etag)
      /\ link.lastModified = Learn(row.lastModified, answer.lastModified)
      /\ link.phase = HeadPhase(row, answer)
  BY WrittenValidators
<1>3. ~HasChanged(row, answer)
  BY <1>2 DEF HeadPhase, Fetching
<1>4. CASE "etag" \in source.validators /\ row.etag # v
  <2>1. answer.etag = v /\ answer.etag # None
    BY <1>2, <1>4 DEF Learn
  <2>2. HasChanged(row, answer)
    BY <2>1, <1>4 DEF HasValidators, HasChanged, Differs
  <2> QED
    BY <2>2, <1>3
<1>5. CASE "lastModified" \in source.validators /\ row.lastModified # v
  <2>1. answer.lastModified = v /\ answer.lastModified # None
    BY <1>2, <1>5 DEF Learn
  <2>2. HasChanged(row, answer)
    BY <2>1, <1>5 DEF HasValidators, HasChanged, Differs
  <2> QED
    BY <2>2, <1>3
<1> QED
  BY <1>1, <1>4, <1>5 DEF KnowsValidators, Fetching

LEMMA LetGo ==
  ASSUME IInv, Working, [Next]_vars, NEW v \in Versions \ stored,
         HasValidators, ~KnowsValidators(v), KnowsValidators(v)'
  PROVE  /\ InsertState
         /\ method = "GET" \/ IsError(answer)
         /\ ~(emit /\ answer.of = v)
<1>1. TypeOK /\ row \in LinkType
  BY DEF IInv, TypeOK, LinkType
<1>2. UNCHANGED source
  <2>1. CASE RequestServed \/ RequestFails \/ RequestDeviates
    BY <1>1, <2>1, RequestStep DEF Receive, originVars
  <2> QED
    BY <2>1
    DEF Next, Proceed, Publish, Vanish, Wake, Dispatch, ReadState, InsertEvent,
        PersistCookies, InsertPayload, InsertState, MarkFeedError, Abort, vars, originVars
<1>3. ~(row'.phase = row.phase /\ row'.etag = row.etag /\ row'.lastModified = row.lastModified)
  BY <1>2 DEF KnowsValidators
<1>4. ~Wake
  BY <1>1, <1>3 DEF Wake, LinkType, LinkStates
<1>5. InsertState
  <2>1. CASE RequestServed \/ RequestFails \/ RequestDeviates
    BY <1>1, <1>3, <2>1, RequestStep DEF Receive, dbVars
  <2> QED
    BY <2>1, <1>3, <1>4
    DEF Next, Proceed, Publish, Vanish, Dispatch, ReadState, InsertEvent,
        PersistCookies, InsertPayload, MarkFeedError, Abort, vars, dbVars
<1>6. pc = "state" /\ row' = link
  BY <1>5 DEF InsertState
<1>7. ~(emit /\ answer.of = v)
  BY <1>6 DEF IInv, PayloadBeforeState
<1>8. method # "HEAD" \/ IsError(answer)
  BY <1>1, <1>2, <1>6, HeadNotices DEF KnowsValidators, Fetching
<1> QED
  BY <1>1, <1>5, <1>7, <1>8 DEF TypeOK

\* The safety part of UnstoredIsNoticed (link_state.rs:142-178, 204-218,
\* 341-367): a HEAD that succeeds compares with what the row knows, so it can miss
\* a change only for a row that lacks a validator, as one whose first GET failed.
\* An error is not compared, and teaches its validators all the same.
THEOREM HeadLetsNothingGo == Spec => LostOnlyByGet
<1>1. IInv /\ Working /\ [Next]_vars =>
        [\A v \in Versions \ stored :
           HasValidators /\ ~KnowsValidators(v) /\ KnowsValidators(v)' =>
             /\ InsertState
             /\ method = "GET" \/ IsError(answer)
             /\ ~(emit /\ answer.of = v)]_vars
  BY LetGo
<1> QED
  BY <1>1, Invariance, WorkingInvariance, PTL DEF Spec, LostOnlyByGet
============================================================================
