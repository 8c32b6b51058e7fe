--------------------------- MODULE IntentsProofs ---------------------------
(***************************************************************************)
(* Proofs about Intents, for every finite set of events, every set of      *)
(* receivers, every cap and page size.                                     *)
(***************************************************************************)
EXTENDS Intents, FiniteSetTheorems, TLAPS

Expired(e) == expiresAt[e] # 0 /\ expiresAt[e] <= now

(* A row is of an emitted event, and a number names one row.               *)
RowInv ==
    /\ \A e \in Stored : expiresAt[e] # 0
    /\ \A e, f \in Stored : stored[e] = stored[f] => e = f

(* What a receiver got is behind its cursor, or expired for good: an       *)
(* expired event that is inserted again is pruned in the same transaction. *)
GotInv ==
    \A r \in Receivers, e \in Events : received[r][e] > 0 =>
        Expired(e) \/ (e \in Stored /\ stored[e] <= cursor[r])

(* A page on its way holds nothing its receiver got before, and every      *)
(* event that is not expired from the cursor up to its last number.        *)
PageFits(r) ==
    /\ cursor[r] <= page[r].last /\ page[r].last <= accountSeq
    /\ \A e \in page[r].events :
          /\ received[r][e] = 0
          /\ Expired(e) \/ (e \in Stored /\ stored[e] <= page[r].last)
    /\ \A e \in Live :
          cursor[r] < stored[e] /\ stored[e] <= page[r].last => e \in page[r].events

PageInv == \A r \in Receivers : page[r] # NoPage => PageFits(r)

IInv ==
    /\ TypeOK
    /\ RowInv
    /\ GotInv
    /\ PageInv
    /\ DeliveredOnce
    /\ NoneMissed

-----------------------------------------------------------------------------
(* Pages and batches *)

(* The first events of a set are closed downward in their numbers.         *)
LEMMA FirstDownward ==
    ASSUME TypeOK, NEW E \in SUBSET Events, NEW e \in First(E), NEW f \in E,
           stored[f] <= stored[e]
    PROVE  f \in First(E)
<1> DEFINE Below(x) == {g \in E : stored[g] < stored[x]}
<1>1. IsFiniteSet(Below(e)) /\ IsFiniteSet(Below(f))
  BY EventsFinite, FS_Subset
<1>2. Below(f) \in SUBSET Below(e)
  <2>1. \A g \in Events : stored[g] \in Nat
    BY DEF TypeOK
  <2>2. e \in Events /\ f \in Events
    BY DEF First
  <2> QED
    BY <2>1, <2>2
<1>3. Cardinality(Below(f)) <= Cardinality(Below(e))
  BY <1>1, <1>2, FS_Subset
<1>4. Cardinality(Below(f)) \in Nat /\ Cardinality(Below(e)) \in Nat
  BY <1>1, FS_CardinalityType
<1>5. Cardinality(Below(e)) < PageLimit
  BY DEF First
<1> QED
  BY <1>3, <1>4, <1>5, LimitsNat DEF First

(* What a batch does to the rows: events that were not there get numbers   *)
(* above the counter, one each, and no expired event is left.              *)
LEMMA InsertSteps ==
    ASSUME TypeOK, RowInv, NEW B \in SUBSET Emitted, InsertIntents(B),
           UNCHANGED <<now, expiresAt>>
    PROVE  /\ accountSeq' \in Nat /\ accountSeq <= accountSeq'
           /\ stored' \in [Events -> 0..accountSeq']
           /\ numbered' \in [Events -> Nat]
           /\ RowInv'
           /\ \A e \in Events :
                 \/ stored'[e] = 0 /\ (Expired(e) \/ stored[e] = 0)
                 \/ stored'[e] = stored[e]
                 \/ /\ e \in New(B) /\ ~Expired(e) /\ stored'[e] > accountSeq
<1> DEFINE N == New(B)
           n == Cardinality(N)
<1>1. IsFiniteSet(N) /\ n \in Nat
  <2>1. N \in SUBSET Events
    BY DEF New, Emitted
  <2> QED
    BY <2>1, EventsFinite, FS_Subset, FS_CardinalityType
<1>2. PICK seqOf \in [N -> (accountSeq + 1)..(accountSeq + n)] :
        /\ \A e, f \in N : seqOf[e] = seqOf[f] => e = f
        /\ accountSeq' = accountSeq + n
        /\ numbered' = [e \in Events |-> numbered[e] + (IF e \in N THEN 1 ELSE 0)]
        /\ stored' = [e \in Events |->
               IF expiresAt[e] <= now THEN 0
               ELSE IF e \in N THEN seqOf[e] ELSE stored[e]]
  BY DEF InsertIntents
<1>3. accountSeq \in Nat /\ accountSeq' \in Nat /\ accountSeq <= accountSeq'
  BY <1>1, <1>2 DEF TypeOK
<1>4. \A e \in N : /\ seqOf[e] \in Nat /\ seqOf[e] > accountSeq /\ seqOf[e] <= accountSeq'
                   /\ stored[e] = 0 /\ expiresAt[e] # 0 /\ e \in Events
  BY <1>1, <1>2, <1>3 DEF New, Emitted, Stored
<1>5. stored' \in [Events -> 0..accountSeq']
  BY <1>2, <1>3, <1>4 DEF TypeOK
<1>6. numbered' \in [Events -> Nat]
  BY <1>2 DEF TypeOK
<1>7. \A e \in Events : expiresAt[e] = 0 => stored[e] = 0 /\ e \notin N
  BY <1>4 DEF RowInv, Stored
<1>8. \A e \in Events :
          \/ stored'[e] = 0 /\ (Expired(e) \/ stored[e] = 0)
          \/ stored'[e] = stored[e]
          \/ /\ e \in N /\ ~Expired(e) /\ stored'[e] > accountSeq
  BY <1>2, <1>4, <1>7 DEF Expired
<1>9. RowInv'
  <2>1. \A e \in Stored' : stored'[e] = (IF e \in N THEN seqOf[e] ELSE stored[e])
                           /\ e \in Events
    BY <1>2 DEF Stored
  <2>2. \A e \in Stored' : expiresAt[e] # 0
    BY <1>7, <2>1 DEF Stored
  <2>3. ASSUME NEW e \in Stored', NEW f \in Stored', stored'[e] = stored'[f]
        PROVE  e = f
    <3>1. CASE e \in N /\ f \in N
      BY <1>2, <2>1, <2>3, <3>1
    <3>2. CASE e \notin N /\ f \notin N
      BY <2>1, <2>3, <3>2 DEF RowInv, Stored
    <3>3. \A x \in Events \ N : stored[x] <= accountSeq
      BY DEF TypeOK
    <3>4. CASE e \in N /\ f \notin N
      BY <1>3, <1>4, <2>1, <2>3, <3>3, <3>4 DEF TypeOK
    <3>5. CASE e \notin N /\ f \in N
      BY <1>3, <1>4, <2>1, <2>3, <3>3, <3>5 DEF TypeOK
    <3> QED
      BY <3>1, <3>2, <3>4, <3>5
  <2> QED
    BY <2>2, <2>3 DEF RowInv
<1> QED
  BY <1>3, <1>5, <1>6, <1>8, <1>9

-----------------------------------------------------------------------------
(* Types *)

(* The bound on numbers keeps the counter in its type. *)
LEMMA CounterBound ==
    ASSUME accountSeq' \in Nat, outbox' \in SUBSET Events, WithinBound
    PROVE  accountSeq' \in 0..MaxSeq
<1>1. Cardinality(outbox') \in Nat
  BY EventsFinite, FS_Subset, FS_CardinalityType
<1> QED
  BY <1>1, BoundsNat DEF WithinBound

LEMMA TypeStep == TypeOK /\ RowInv /\ PageInv /\ [Next]_vars => TypeOK'
<1> SUFFICES ASSUME TypeOK, RowInv, PageInv, [Next]_vars PROVE TypeOK'
  OBVIOUS
<1> USE BoundsNat DEF TypeOK, clientVars
<1>1. ASSUME NEW e \in Events, NEW t \in 1..MaxNow, Emit(e, t) PROVE TypeOK'
  BY <1>1 DEF Emit
<1>2. ASSUME NEW B \in SUBSET Emitted, PostAnswered(B) \/ PostUnanswered(B)
      PROVE  TypeOK'
  <2>1. /\ InsertIntents(B) /\ WithinBound /\ outbox' \in SUBSET outbox
        /\ UNCHANGED <<now, expiresAt, cursor, page, received>>
    BY <1>2 DEF PostAnswered, PostUnanswered, Post
  <2>2. /\ accountSeq' \in Nat /\ accountSeq <= accountSeq'
        /\ stored' \in [Events -> 0..accountSeq']
        /\ numbered' \in [Events -> Nat]
    BY <2>1, InsertSteps
  <2>3. accountSeq' \in 0..MaxSeq
    BY <2>1, <2>2, CounterBound
  <2> QED
    BY <2>1, <2>2, <2>3
<1>3. CASE TakeSeqElsewhere
  <2>1. accountSeq' \in 0..MaxSeq
    BY <1>3, CounterBound DEF TakeSeqElsewhere
  <2> QED
    BY <1>3, <2>1 DEF TakeSeqElsewhere
<1>4. ASSUME NEW r \in Receivers, List(r) PROVE TypeOK'
  <2>1. PICK e \in First(Newer(cursor[r])) :
          page' = [page EXCEPT ![r] =
              [events |-> First(Newer(cursor[r])), last |-> stored[e]]]
    BY <1>4 DEF List
  <2>2. First(Newer(cursor[r])) \in SUBSET Events
    BY DEF First, Newer, Live, Stored
  <2>3. [events |-> First(Newer(cursor[r])), last |-> stored[e]] \in Page
    BY <2>1, <2>2 DEF Page
  <2> QED
    BY <1>4, <2>1, <2>3 DEF List
<1>5. ASSUME NEW r \in Receivers, Receive(r) PROVE TypeOK'
  <2>1. page[r].last \in 0..accountSeq
    BY <1>5 DEF Receive, PageInv, PageFits, Page
  <2>2. NoPage \in Page
    BY DEF NoPage, Page
  <2> QED
    BY <1>5, <2>1, <2>2 DEF Receive
<1>6. ASSUME NEW r \in Receivers, LosePage(r) PROVE TypeOK'
  BY <1>6 DEF LosePage, NoPage, Page
<1>7. CASE Tick
  BY <1>7 DEF Tick
<1>8. CASE UNCHANGED vars
  BY <1>8 DEF vars
<1> QED
  BY <1>1, <1>2, <1>3, <1>4, <1>5, <1>6, <1>7, <1>8 DEF Next

-----------------------------------------------------------------------------
(* What receivers got and missed *)

(* Time, senders and other users of the counter take nothing from what     *)
(* holds of the receivers.                                                 *)
LEMMA ServerSteps ==
    ASSUME IInv, TypeOK', UNCHANGED clientVars,
           now <= now', accountSeq <= accountSeq',
           \A e \in Events : expiresAt[e] # 0 => expiresAt'[e] = expiresAt[e],
           \A e \in Events :
              \/ stored'[e] = 0 /\ (Expired(e) \/ stored[e] = 0)
              \/ stored'[e] = stored[e]
              \/ stored[e] = 0 /\ ~Expired(e) /\ stored'[e] > accountSeq
    PROVE  GotInv' /\ PageInv' /\ DeliveredOnce' /\ NoneMissed'
<1> UNCHANGED <<cursor, page, received>>
  BY DEF clientVars
<1>1. \A e \in Events : Expired(e) => Expired(e)'
  BY DEF Expired, IInv, TypeOK
<1>2. \A e \in Events : Expired(e) \/ e \in Stored =>
          Expired(e)' \/ (e \in Stored' /\ stored'[e] = stored[e])
  BY <1>1 DEF Stored, IInv, TypeOK
<1>3. \A e \in Live' : stored'[e] <= accountSeq => e \in Live /\ stored'[e] = stored[e]
  <2> SUFFICES ASSUME NEW e \in Live', stored'[e] <= accountSeq
               PROVE  e \in Live /\ stored'[e] = stored[e]
    OBVIOUS
  <2>1. e \in Events /\ stored'[e] # 0 /\ expiresAt'[e] > now'
    BY DEF Live, Stored
  <2>2. stored'[e] = stored[e]
    BY <2>1 DEF IInv, TypeOK
  <2>3. expiresAt'[e] = expiresAt[e]
    BY <2>1, <2>2 DEF IInv, RowInv, Stored
  <2> QED
    BY <2>1, <2>2, <2>3 DEF Live, Stored, IInv, TypeOK
<1>4. GotInv'
  <2> SUFFICES ASSUME NEW r \in Receivers, NEW e \in Events, received[r][e] > 0
               PROVE  (Expired(e) \/ (e \in Stored /\ stored[e] <= cursor[r]))'
    BY DEF GotInv
  <2>1. Expired(e) \/ (e \in Stored /\ stored[e] <= cursor[r])
    BY DEF IInv, GotInv
  <2>2. Expired(e)' \/ (e \in Stored' /\ stored'[e] = stored[e])
    BY <1>2, <2>1
  <2> QED
    BY <1>1, <2>1, <2>2
<1>5. PageInv'
  <2> SUFFICES ASSUME NEW r \in Receivers, page[r] # NoPage PROVE PageFits(r)'
    BY DEF PageInv
  <2>1. PageFits(r) /\ page[r] \in Page
    BY DEF IInv, PageInv, TypeOK
  <2>2. \A e \in page[r].events : Expired(e)' \/ (e \in Stored' /\ stored'[e] <= page[r].last)
    BY <1>1, <1>2, <2>1 DEF PageFits, Page
  <2>3. \A e \in Live' : stored'[e] <= page[r].last => stored'[e] <= accountSeq
    BY <2>1 DEF PageFits, Page, IInv, TypeOK, Live, Stored
  <2>4. \A e \in Live' : cursor[r] < stored'[e] /\ stored'[e] <= page[r].last
                             => e \in page[r].events
    BY <1>3, <2>1, <2>3 DEF PageFits
  <2>5. page[r].last <= accountSeq'
    BY <2>1 DEF PageFits, Page, IInv, TypeOK
  <2> QED
    BY <2>1, <2>2, <2>4, <2>5 DEF PageFits
<1>6. DeliveredOnce'
  BY DEF IInv, DeliveredOnce
<1>7. NoneMissed'
  <2>1. \A r \in Receivers, e \in Live' : stored'[e] <= cursor[r] => stored'[e] <= accountSeq
    BY DEF IInv, TypeOK, Live, Stored
  <2> QED
    BY <1>3, <2>1 DEF IInv, NoneMissed
<1> QED
  BY <1>4, <1>5, <1>6, <1>7

(* A page answered holds the next events of a receiver, without a gap and  *)
(* without one it got.                                                     *)
LEMMA ListSteps ==
    ASSUME IInv, NEW r \in Receivers, List(r)
    PROVE  PageInv'
<1> USE DEF IInv
<1>1. PICK e \in First(Newer(cursor[r])) :
          /\ \A f \in First(Newer(cursor[r])) : stored[f] <= stored[e]
          /\ page' = [page EXCEPT ![r] =
                 [events |-> First(Newer(cursor[r])), last |-> stored[e]]]
  BY DEF List
<1>2. UNCHANGED <<now, expiresAt, accountSeq, stored, cursor, received>>
  BY DEF List
<1>3. \A f \in First(Newer(cursor[r])) : /\ f \in Live /\ f \in Stored /\ f \in Events
                                         /\ stored[f] > cursor[r]
  BY DEF First, Newer, Live, Stored
<1>4. \A q \in Receivers, f \in Events : cursor[q] \in Nat /\ stored[f] \in Nat
          /\ stored[f] <= accountSeq /\ received[q][f] \in Nat
          /\ expiresAt[f] \in Nat /\ now \in Nat /\ accountSeq \in Nat
  BY DEF TypeOK
<1>5. \A f \in First(Newer(cursor[r])) : received[r][f] = 0
  BY <1>3, <1>4 DEF GotInv, Live, Expired
<1>6. \A f \in Live : cursor[r] < stored[f] /\ stored[f] <= stored[e]
                          => f \in First(Newer(cursor[r]))
  <2> SUFFICES ASSUME NEW f \in Live, cursor[r] < stored[f], stored[f] <= stored[e]
               PROVE  f \in First(Newer(cursor[r]))
    OBVIOUS
  <2>1. f \in Newer(cursor[r]) /\ Newer(cursor[r]) \in SUBSET Events
    BY <1>4 DEF Newer, Live, Stored
  <2> QED
    BY <2>1, FirstDownward
<1>7. page'[r].events = First(Newer(cursor[r])) /\ page'[r].last = stored[e]
  BY <1>1 DEF TypeOK
<1>8. PageFits(r)'
  BY <1>1, <1>2, <1>3, <1>4, <1>5, <1>6, <1>7 DEF PageFits, Live, Stored
<1>9. ASSUME NEW q \in Receivers, q # r, page'[q] # NoPage PROVE PageFits(q)'
  <2>1. page'[q] = page[q]
    BY <1>1, <1>9 DEF TypeOK
  <2>2. PageFits(q)
    BY <1>9, <2>1 DEF PageInv
  <2> QED
    BY <1>2, <2>1, <2>2 DEF PageFits, Expired, Live, Stored
<1> QED
  BY <1>8, <1>9 DEF PageInv

(* A page that arrives gives its receiver each of its events for the first *)
(* time, and no live event is left between the old cursor and the new one. *)
LEMMA ReceiveSteps ==
    ASSUME IInv, NEW r \in Receivers, Receive(r)
    PROVE  GotInv' /\ PageInv' /\ DeliveredOnce' /\ NoneMissed'
<1> USE DEF IInv
<1>1. UNCHANGED <<now, expiresAt, accountSeq, stored>>
  BY DEF Receive
<1>2. PageFits(r)
  BY DEF Receive, PageInv
<1>3. /\ cursor'[r] = page[r].last
      /\ \A e \in Events :
            received'[r][e] = received[r][e] + (IF e \in page[r].events THEN 1 ELSE 0)
  BY DEF Receive, TypeOK
<1>4. \A q \in Receivers \ {r} : /\ cursor'[q] = cursor[q] /\ page'[q] = page[q]
                                 /\ received'[q] = received[q]
  BY DEF Receive, TypeOK
<1>5. \A q \in Receivers, e \in Events :
          /\ cursor[q] \in Nat /\ stored[e] \in Nat /\ received[q][e] \in Nat
          /\ page[q].last \in Nat
  BY DEF TypeOK, Page
<1>6. GotInv'
  <2> SUFFICES ASSUME NEW q \in Receivers, NEW e \in Events, received'[q][e] > 0
               PROVE  Expired(e)' \/ (e \in Stored' /\ stored'[e] <= cursor'[q])
    BY DEF GotInv
  <2>1. CASE q # r
    BY <1>1, <1>4, <2>1 DEF GotInv, Expired, Stored
  <2>2. CASE q = r /\ e \in page[r].events
    BY <1>1, <1>2, <1>3, <2>2 DEF PageFits, Expired, Stored
  <2>3. CASE q = r /\ e \notin page[r].events
    <3>1. received[r][e] > 0
      BY <1>3, <1>5, <2>3
    <3>2. Expired(e) \/ (e \in Stored /\ stored[e] <= cursor[r])
      BY <3>1 DEF GotInv
    <3>3. cursor[r] <= page[r].last
      BY <1>2 DEF PageFits
    <3> QED
      BY <1>1, <1>3, <1>5, <2>3, <3>2, <3>3 DEF Expired, Stored
  <2> QED
    BY <2>1, <2>2, <2>3
<1>7. PageInv'
  <2> SUFFICES ASSUME NEW q \in Receivers, page'[q] # NoPage PROVE PageFits(q)'
    BY DEF PageInv
  <2>1. q # r
    BY DEF Receive, TypeOK
  <2>2. PageFits(q)
    BY <1>4, <2>1 DEF PageInv
  <2> QED
    BY <1>1, <1>4, <2>1, <2>2 DEF PageFits, Expired, Live, Stored
<1>8. DeliveredOnce'
  <2> SUFFICES ASSUME NEW q \in Receivers, NEW e \in Events PROVE received'[q][e] <= 1
    BY DEF DeliveredOnce
  <2>1. CASE q # r
    BY <1>4, <2>1 DEF DeliveredOnce
  <2>2. CASE q = r
    BY <1>2, <1>3, <1>5, <2>2 DEF PageFits, DeliveredOnce
  <2> QED
    BY <2>1, <2>2
<1>9. NoneMissed'
  <2> SUFFICES ASSUME NEW q \in Receivers, NEW e \in Live', stored'[e] <= cursor'[q]
               PROVE  received'[q][e] > 0
    BY DEF NoneMissed
  <2>1. e \in Live /\ e \in Events
    BY <1>1 DEF Live, Stored
  <2>2. CASE q # r
    BY <1>1, <1>4, <2>1, <2>2 DEF NoneMissed
  <2>3. CASE q = r /\ stored[e] <= cursor[r]
    <3>1. received[r][e] > 0
      BY <2>1, <2>3 DEF NoneMissed
    <3> QED
      BY <1>3, <1>5, <2>1, <2>3, <3>1
  <2>4. CASE q = r /\ ~(stored[e] <= cursor[r])
    <3>1. e \in page[r].events
      BY <1>1, <1>2, <1>3, <1>5, <2>1, <2>4 DEF PageFits
    <3> QED
      BY <1>3, <1>5, <2>1, <2>4, <3>1
  <2> QED
    BY <2>2, <2>3, <2>4
<1> QED
  BY <1>6, <1>7, <1>8, <1>9

-----------------------------------------------------------------------------
(* The inductive invariant *)

LEMMA InitIInv == Init => IInv
<1> SUFFICES ASSUME Init PROVE IInv
  OBVIOUS
<1> USE BoundsNat DEF Init
<1>1. TypeOK
  BY DEF TypeOK, Page, NoPage
<1>2. RowInv /\ GotInv /\ DeliveredOnce
  BY DEF RowInv, GotInv, DeliveredOnce, Stored
<1>3. PageInv /\ NoneMissed
  BY DEF PageInv, NoneMissed, Live, Stored
<1> QED
  BY <1>1, <1>2, <1>3 DEF IInv

LEMMA NextIInv == IInv /\ [Next]_vars => IInv'
<1> SUFFICES ASSUME IInv, [Next]_vars PROVE IInv'
  OBVIOUS
<1>1. TypeOK'
  BY TypeStep DEF IInv
<1>2. \A e \in Events : /\ expiresAt[e] \in Nat /\ expiresAt'[e] \in Nat
                        /\ stored[e] \in Nat /\ stored'[e] \in Nat
  BY <1>1 DEF IInv, TypeOK
<1>3. now \in Nat /\ accountSeq \in Nat
  BY DEF IInv, TypeOK
<1>4. ASSUME NEW e \in Events, NEW t \in 1..MaxNow, Emit(e, t) PROVE IInv'
  <2>1. /\ expiresAt[e] = 0 /\ UNCHANGED <<now, accountSeq, stored, clientVars>>
        /\ \A f \in Events : f # e => expiresAt'[f] = expiresAt[f]
    BY <1>4 DEF Emit, IInv, TypeOK
  <2>2. stored[e] = 0
    BY <2>1 DEF IInv, RowInv, Stored
  <2>3. RowInv'
    BY <2>1, <2>2 DEF IInv, RowInv, Stored
  <2>4. GotInv' /\ PageInv' /\ DeliveredOnce' /\ NoneMissed'
    BY <1>1, <1>3, <2>1, ServerSteps
  <2> QED
    BY <1>1, <2>3, <2>4 DEF IInv
<1>5. ASSUME NEW B \in SUBSET Emitted, PostAnswered(B) \/ PostUnanswered(B)
      PROVE  IInv'
  <2>1. InsertIntents(B) /\ UNCHANGED <<now, expiresAt, clientVars>>
    BY <1>5 DEF PostAnswered, PostUnanswered, Post
  <2>2. /\ accountSeq <= accountSeq'
        /\ RowInv'
        /\ \A e \in Events :
              \/ stored'[e] = 0 /\ (Expired(e) \/ stored[e] = 0)
              \/ stored'[e] = stored[e]
              \/ e \in New(B) /\ ~Expired(e) /\ stored'[e] > accountSeq
    BY <2>1, InsertSteps DEF IInv
  <2>3. \A e \in New(B) : stored[e] = 0
    BY DEF New, Emitted, Stored
  <2>4. GotInv' /\ PageInv' /\ DeliveredOnce' /\ NoneMissed'
    BY <1>1, <1>3, <2>1, <2>2, <2>3, ServerSteps
  <2> QED
    BY <1>1, <2>2, <2>4 DEF IInv
<1>6. CASE TakeSeqElsewhere \/ Tick
  <2>1. /\ now <= now' /\ accountSeq <= accountSeq'
        /\ UNCHANGED <<expiresAt, stored, clientVars>>
    BY <1>3, <1>6 DEF TakeSeqElsewhere, Tick
  <2>2. RowInv'
    BY <2>1 DEF IInv, RowInv, Stored
  <2>3. GotInv' /\ PageInv' /\ DeliveredOnce' /\ NoneMissed'
    BY <1>1, <2>1, ServerSteps
  <2> QED
    BY <1>1, <2>2, <2>3 DEF IInv
<1>7. ASSUME NEW r \in Receivers, List(r) PROVE IInv'
  <2>1. UNCHANGED <<now, expiresAt, stored, cursor, received>>
    BY <1>7 DEF List
  <2>2. RowInv' /\ GotInv' /\ DeliveredOnce' /\ NoneMissed'
    BY <2>1 DEF IInv, RowInv, GotInv, DeliveredOnce, NoneMissed, Live, Stored, Expired
  <2> QED
    BY <1>1, <1>7, <2>2, ListSteps DEF IInv
<1>8. ASSUME NEW r \in Receivers, Receive(r) PROVE IInv'
  <2>1. RowInv'
    BY <1>8 DEF Receive, IInv, RowInv, Stored
  <2> QED
    BY <1>1, <1>8, <2>1, ReceiveSteps DEF IInv
<1>9. ASSUME NEW r \in Receivers, LosePage(r) PROVE IInv'
  <2>1. /\ UNCHANGED <<now, expiresAt, accountSeq, stored, cursor, received>>
        /\ \A q \in Receivers : page'[q] = page[q] \/ page'[q] = NoPage
    BY <1>9 DEF LosePage, IInv, TypeOK
  <2>2. RowInv' /\ GotInv' /\ DeliveredOnce' /\ NoneMissed'
    BY <2>1 DEF IInv, RowInv, GotInv, DeliveredOnce, NoneMissed, Live, Stored, Expired
  <2>3. PageInv'
    BY <2>1 DEF IInv, PageInv, PageFits, Live, Stored, Expired
  <2> QED
    BY <1>1, <2>2, <2>3 DEF IInv
<1>10. CASE UNCHANGED vars
  <2>1. RowInv' /\ GotInv' /\ DeliveredOnce' /\ NoneMissed'
    BY <1>10 DEF vars, IInv, RowInv, GotInv, DeliveredOnce, NoneMissed, Live, Stored, Expired
  <2>2. PageInv'
    BY <1>10 DEF vars, IInv, PageInv, PageFits, Live, Stored, Expired
  <2> QED
    BY <1>1, <2>1, <2>2 DEF IInv
<1> QED
  BY <1>4, <1>5, <1>6, <1>7, <1>8, <1>9, <1>10 DEF Next

(* The inductive invariant holds: what receivers got, what is on its way   *)
(* to them and what is in the table fit together in every state.           *)
THEOREM Invariance == Spec => []IInv
<1>1. Init => IInv
  BY InitIInv
<1>2. IInv /\ [Next]_vars => IInv'
  BY NextIInv
<1> QED
  BY <1>1, <1>2, PTL DEF Spec

(* Every variable of the intents keeps its type. *)
THEOREM TypeCorrect == Spec => []TypeOK
<1>1. IInv => TypeOK
  BY DEF IInv
<1> QED
  BY <1>1, Invariance, PTL

(* No receiver gets an event twice, though its post may be repeated and    *)
(* its row pruned and inserted again under another number.                 *)
THEOREM DeliveredOnceHolds == Spec => []DeliveredOnce
<1>1. IInv => DeliveredOnce
  BY DEF IInv
<1> QED
  BY <1>1, Invariance, PTL

(* No cursor passes an event that is not expired and that its receiver did *)
(* not get, whatever the page size and whoever else takes numbers.         *)
THEOREM NoneMissedHolds == Spec => []NoneMissed
<1>1. IInv => NoneMissed
  BY DEF IInv
<1> QED
  BY <1>1, Invariance, PTL

-----------------------------------------------------------------------------
(* The volume cap *)

LEMMA SmallerWithinCap ==
    ASSUME VolumeWithinCap, Live' \subseteq Live
    PROVE  VolumeWithinCap'
<1>1. Live \subseteq Events /\ IsFiniteSet(Live)
  BY EventsFinite, FS_Subset DEF Live, Stored
<1>2. Cardinality(Live') <= Cardinality(Live) /\ Cardinality(Live') \in Nat
  BY <1>1, FS_Subset, FS_CardinalityType
<1>3. Cardinality(Live) \in Nat /\ Cardinality(Live) <= Cap
  BY <1>1, FS_CardinalityType DEF VolumeWithinCap, Live
<1> QED
  BY <1>2, <1>3, LimitsNat DEF VolumeWithinCap, Live

LEMMA InsertWithinCap ==
    ASSUME IInv, VolumeWithinCap, NEW B \in SUBSET Emitted, Post(B)
    PROVE  VolumeWithinCap'
<1>1. UNCHANGED <<now, expiresAt>> /\ InsertIntents(B) /\ Admits(B)
  BY DEF Post
<1>2. Live' \subseteq Live \cup New(B)
  BY <1>1, InsertSteps DEF IInv, Live, Stored
<1>3. CASE New(B) = {}
  BY <1>2, <1>3, SmallerWithinCap
<1>4. CASE New(B) # {}
  <2>1. IsFiniteSet(Live) /\ IsFiniteSet(New(B))
    <3>1. Live \subseteq Events /\ New(B) \subseteq Events
      BY DEF Live, Stored, New, Emitted
    <3> QED
      BY <3>1, EventsFinite, FS_Subset
  <2>2. /\ IsFiniteSet(Live \cup New(B))
        /\ Cardinality(Live \cup New(B)) <= Cardinality(Live) + Cardinality(New(B))
    <3>1. Live \cap New(B) = {}
      BY DEF Live, New
    <3>2. Cardinality(Live \cap New(B)) = 0
      BY <3>1, FS_EmptySet, Zenon
    <3>3. Cardinality(Live) \in Nat /\ Cardinality(New(B)) \in Nat
      BY <2>1, FS_CardinalityType
    <3>4. /\ IsFiniteSet(Live \cup New(B))
          /\ Cardinality(Live \cup New(B))
               = Cardinality(Live) + Cardinality(New(B)) - Cardinality(Live \cap New(B))
      BY <2>1, FS_Union
    <3> QED
      BY <3>2, <3>3, <3>4
  <2>3. Cardinality(Live') <= Cardinality(Live \cup New(B)) /\ IsFiniteSet(Live')
    BY <1>2, <2>2, FS_Subset
  <2>4. Cardinality(Live) + Cardinality(New(B)) <= Cap
    BY <1>1, <1>4 DEF Admits, Counted
  <2>5. /\ Cardinality(Live) \in Nat /\ Cardinality(New(B)) \in Nat
        /\ Cardinality(Live') \in Nat /\ Cardinality(Live \cup New(B)) \in Nat
    BY <2>1, <2>2, <2>3, FS_CardinalityType
  <2>6. Cardinality(Live') <= Cap
    BY <2>2, <2>3, <2>4, <2>5, LimitsNat
  <2> QED
    BY <2>6 DEF VolumeWithinCap, Live
<1> QED
  BY <1>3, <1>4

(* The events that are not expired never exceed the cap, however batches   *)
(* mix new events, re-sent ones and ones that are stored but expired.      *)
THEOREM VolumeWithinCapHolds == Spec => []VolumeWithinCap
<1>1. Init => VolumeWithinCap
  <2> SUFFICES ASSUME Init PROVE Cardinality({e \in Stored : expiresAt[e] > now}) <= Cap
    BY DEF VolumeWithinCap
  <2>1. {e \in Stored : expiresAt[e] > now} = {}
    BY DEF Init, Stored
  <2> QED
    BY <2>1, FS_EmptySet, LimitsNat
<1>2. IInv /\ VolumeWithinCap /\ [Next]_vars => VolumeWithinCap'
  <2> SUFFICES ASSUME IInv, VolumeWithinCap, [Next]_vars PROVE VolumeWithinCap'
    OBVIOUS
  <2>1. ASSUME NEW e \in Events, NEW t \in 1..MaxNow, Emit(e, t)
        PROVE  Live' \subseteq Live
    BY <2>1 DEF Emit, IInv, TypeOK, RowInv, Live, Stored
  <2>2. ASSUME NEW B \in SUBSET Emitted, PostAnswered(B) \/ PostUnanswered(B)
        PROVE  VolumeWithinCap'
    BY <2>2, InsertWithinCap DEF PostAnswered, PostUnanswered
  <2>3. CASE TakeSeqElsewhere
    BY <2>3, SmallerWithinCap DEF TakeSeqElsewhere, Live, Stored
  <2>4. ASSUME NEW r \in Receivers, List(r) \/ Receive(r) \/ LosePage(r)
        PROVE  Live' \subseteq Live
    BY <2>4 DEF List, Receive, LosePage, Live, Stored
  <2>5. CASE Tick
    <3>1. Live' \subseteq Live
      BY <2>5 DEF Tick, IInv, TypeOK, Live, Stored
    <3> QED
      BY <3>1, SmallerWithinCap
  <2>6. CASE UNCHANGED vars
    BY <2>6, SmallerWithinCap DEF vars, Live, Stored
  <2> QED
    BY <2>1, <2>2, <2>3, <2>4, <2>5, <2>6, SmallerWithinCap DEF Next
<1> QED
  BY <1>1, <1>2, Invariance, PTL DEF Spec

-----------------------------------------------------------------------------
(* Numbers *)

(* An event that was numbered has its row until it expires.                *)
NumberedInv ==
    \A e \in Events : numbered[e] > 0 => Expired(e) \/ e \in Stored

(* What a batch does to the numbers: only events without a row get one.    *)
LEMMA InsertNumbers ==
    ASSUME TypeOK, RowInv, NEW B \in SUBSET Emitted, InsertIntents(B),
           UNCHANGED <<now, expiresAt>>, NEW e \in Events
    PROVE  /\ numbered'[e] # numbered[e] => e \notin Stored
           /\ e \in New(B) => Expired(e) \/ e \in Stored'
           /\ e \in Stored => Expired(e) \/ e \in Stored'
           /\ e \notin New(B) => numbered'[e] = numbered[e]
<1> DEFINE N == New(B)
           n == Cardinality(N)
<1>1. IsFiniteSet(N) /\ n \in Nat
  <2>1. N \in SUBSET Events
    BY DEF New, Emitted
  <2> QED
    BY <2>1, EventsFinite, FS_Subset, FS_CardinalityType
<1>2. PICK seqOf \in [N -> (accountSeq + 1)..(accountSeq + n)] :
        /\ numbered' = [f \in Events |-> numbered[f] + (IF f \in N THEN 1 ELSE 0)]
        /\ stored' = [f \in Events |->
               IF expiresAt[f] <= now THEN 0
               ELSE IF f \in N THEN seqOf[f] ELSE stored[f]]
  BY DEF InsertIntents
<1>3. e \in N => seqOf[e] # 0 /\ e \notin Stored /\ expiresAt[e] # 0
  BY <1>1, <1>2 DEF New, Emitted, TypeOK
<1>4. e \in Stored => expiresAt[e] # 0
  BY DEF RowInv
<1>5. numbered[e] \in Nat
  BY DEF TypeOK
<1> QED
  BY <1>2, <1>3, <1>4, <1>5 DEF Expired, Stored

(* A step leaves the numbers alone, or posts a batch.                      *)
LEMMA OtherStepsNumberNothing ==
    ASSUME IInv, [Next]_vars, \A B \in SUBSET Emitted : ~(PostAnswered(B) \/ PostUnanswered(B))
    PROVE  /\ UNCHANGED <<numbered, stored>> /\ now <= now'
           /\ \A e \in Events : expiresAt[e] # 0 => expiresAt'[e] = expiresAt[e]
<1>1. now \in Nat /\ expiresAt \in [Events -> 0..MaxNow]
  BY DEF IInv, TypeOK
<1>2. ASSUME NEW e \in Events, NEW t \in 1..MaxNow, Emit(e, t)
      PROVE  /\ UNCHANGED <<numbered, stored, now>>
             /\ \A f \in Events : expiresAt[f] # 0 => expiresAt'[f] = expiresAt[f]
  BY <1>1, <1>2 DEF Emit
<1>3. CASE TakeSeqElsewhere \/ Tick \/ UNCHANGED vars
  BY <1>1, <1>3 DEF TakeSeqElsewhere, Tick, vars
<1>4. CASE \E r \in Receivers : List(r) \/ Receive(r) \/ LosePage(r)
  BY <1>1, <1>4 DEF List, Receive, LosePage
<1> QED
  BY <1>1, <1>2, <1>3, <1>4 DEF Next

(* So it stays, and a number is given only to an event that has none, or   *)
(* that expired.                                                           *)
LEMMA NumberedStep ==
    ASSUME IInv, NumberedInv, [Next]_vars, NEW e \in Events
    PROVE  /\ (numbered[e] > 0 => Expired(e) \/ e \in Stored)'
           /\ numbered'[e] # numbered[e] => numbered[e] = 0 \/ expiresAt[e] <= now
<1>1. /\ numbered[e] \in Nat /\ (numbered[e] > 0 => Expired(e) \/ e \in Stored)
      /\ now \in Nat /\ expiresAt[e] \in Nat
  BY DEF IInv, TypeOK, NumberedInv
<1>2. ASSUME NEW B \in SUBSET Emitted, PostAnswered(B) \/ PostUnanswered(B)
      PROVE  /\ (numbered[e] > 0 => Expired(e) \/ e \in Stored)'
             /\ numbered'[e] # numbered[e] => numbered[e] = 0 \/ expiresAt[e] <= now
  <2>1. InsertIntents(B) /\ UNCHANGED <<now, expiresAt>>
    BY <1>2 DEF PostAnswered, PostUnanswered, Post
  <2>2. /\ numbered'[e] # numbered[e] => e \notin Stored
        /\ e \in New(B) => Expired(e) \/ e \in Stored'
        /\ e \in Stored => Expired(e) \/ e \in Stored'
        /\ e \notin New(B) => numbered'[e] = numbered[e]
    BY <2>1, InsertNumbers DEF IInv
  <2> QED
    BY <1>1, <2>1, <2>2 DEF Expired
<1>3. CASE \A B \in SUBSET Emitted : ~(PostAnswered(B) \/ PostUnanswered(B))
  <2>1. /\ UNCHANGED <<numbered, stored>> /\ now <= now' /\ now' \in Nat
        /\ expiresAt[e] # 0 => expiresAt'[e] = expiresAt[e]
    BY <1>3, OtherStepsNumberNothing, TypeStep DEF IInv, TypeOK
  <2> QED
    BY <1>1, <2>1 DEF Expired, Stored
<1> QED
  BY <1>2, <1>3

LEMMA NumberedKept == ASSUME IInv, NumberedInv, [Next]_vars PROVE NumberedInv'
BY NumberedStep DEF NumberedInv

(* An event takes another number only once it has expired: until then its  *)
(* row is there to be found, through repeated posts and prunes.            *)
THEOREM ResendOfLiveTakesNoSeqHolds == Spec => ResendOfLiveTakesNoSeq
<1>1. Init => NumberedInv
  BY DEF Init, NumberedInv
<1>2. IInv /\ NumberedInv /\ [Next]_vars => NumberedInv'
  BY NumberedKept
<1>3. IInv /\ NumberedInv /\ [Next]_vars =>
          [\A e \in Events :
              numbered'[e] # numbered[e] => numbered[e] = 0 \/ expiresAt[e] <= now]_vars
  BY NumberedStep
<1> QED
  BY <1>1, <1>2, <1>3, Invariance, PTL DEF Spec, ResendOfLiveTakesNoSeq

-----------------------------------------------------------------------------
(* The mailbox *)

Accepted == {e \in Events : numbered[e] > 0}
ExpiredSet == {e \in Events : Expired(e)}
DueTo(r) == {e \in Live : stored[e] > cursor[r]} \cup page[r].events

(* A step that accepts and delivers nothing is one of time: what receivers *)
(* are no longer due has expired.                                          *)
LEMMA QuietStep ==
    ASSUME TypeOK, UNCHANGED <<numbered, received>>, ExpiredSet \subseteq ExpiredSet',
           \A r \in Receivers : /\ DueTo(r)' \subseteq DueTo(r)
                                /\ DueTo(r) \ DueTo(r)' \subseteq ExpiredSet'
    PROVE  Promise!Expire
<1> DEFINE late == [r \in Receivers |-> DueTo(r) \ DueTo(r)']
<1>1. late \in [Receivers -> SUBSET ExpiredSet']
  OBVIOUS
<1>2. Due' = [r \in Receivers |-> Due[r] \ late[r]]
  <2>1. \A r \in Receivers : DueTo(r)' = DueTo(r) \ (DueTo(r) \ DueTo(r)')
    OBVIOUS
  <2>2. Due = [r \in Receivers |-> DueTo(r)] /\ Due' = [r \in Receivers |-> DueTo(r)']
    BY DEF Due, DueTo
  <2> HIDE DEF DueTo
  <2> QED
    BY <2>1, <2>2
<1>3. ExpiredSet' \subseteq Events
  BY DEF ExpiredSet
<1> HIDE DEF late
<1>4. Accepted' = Accepted /\ UNCHANGED received
  BY DEF Accepted
<1> QED
  BY <1>1, <1>2, <1>3, <1>4 DEF Promise!Expire, Accepted, ExpiredSet, Expired

(* A post is an acceptance of those of its events that have no number yet. *)
LEMMA PostAccepts ==
    ASSUME IInv, NumberedInv, NEW B \in SUBSET Emitted, Post(B)
    PROVE  Promise!Accept
<1> DEFINE S == {e \in New(B) : numbered[e] = 0}
<1>1. InsertIntents(B) /\ UNCHANGED <<now, expiresAt, cursor, page, received>>
  BY DEF Post, clientVars
<1>2. \A e \in New(B) : e \in Events /\ e \notin Stored
  BY DEF New, Emitted
<1>3. Accepted' = Accepted \cup S
  <2>1. \A e \in Events :
            numbered[e] \in Nat /\ numbered'[e] = numbered[e] + (IF e \in New(B) THEN 1 ELSE 0)
    BY <1>1 DEF InsertIntents, IInv, TypeOK
  <2>2. \A e \in Events : numbered'[e] > 0 <=> numbered[e] > 0 \/ e \in S
    BY <2>1
  <2> QED
    BY <1>2, <2>2 DEF Accepted
<1>4. S \in SUBSET (Events \ Accepted)
  BY <1>2 DEF Accepted
<1>5. ASSUME NEW r \in Receivers
      PROVE  DueTo(r)' = DueTo(r) \cup (S \ ExpiredSet)
  <2>1. cursor[r] \in Nat /\ cursor[r] <= accountSeq /\ accountSeq \in Nat
    BY DEF IInv, TypeOK
  <2>2. ASSUME NEW e \in Events
        PROVE  (e \in Live' /\ stored'[e] > cursor[r])
                   <=> \/ e \in Live /\ stored[e] > cursor[r]
                       \/ e \in S \ ExpiredSet
    <3>1. /\ \/ stored'[e] = 0 /\ (Expired(e) \/ stored[e] = 0)
             \/ stored'[e] = stored[e]
             \/ e \in New(B) /\ ~Expired(e) /\ stored'[e] > accountSeq
          /\ stored[e] \in Nat /\ stored'[e] \in Nat
      BY <1>1, InsertSteps DEF IInv, TypeOK
    <3>2. e \in New(B) => Expired(e) \/ e \in Stored'
      BY <1>1, InsertNumbers DEF IInv
    <3>3. e \in Stored \/ e \in New(B) => expiresAt[e] # 0
      BY DEF IInv, RowInv, New, Emitted
    <3>4. e \in New(B) /\ ~Expired(e) => e \in S
      <4>1. numbered[e] > 0 => Expired(e) \/ e \in Stored
        BY DEF NumberedInv
      <4>2. numbered[e] \in Nat
        BY DEF IInv, TypeOK
      <4> QED
        BY <1>2, <4>1, <4>2
    <3>5. e \in Live <=> e \in Stored /\ ~Expired(e)
      BY <3>3 DEF Live, Expired, IInv, TypeOK
    <3>6. e \in Live' <=> e \in Stored' /\ expiresAt[e] > now
      BY <1>1 DEF Live
    <3>7. (e \in Stored <=> stored[e] # 0) /\ (e \in Stored' <=> stored'[e] # 0)
      BY DEF Stored
    <3>8. Expired(e) <=> expiresAt[e] # 0 /\ ~(expiresAt[e] > now)
      BY DEF Expired, IInv, TypeOK
    <3>9. e \in ExpiredSet <=> Expired(e)
      BY DEF ExpiredSet
    <3>10. CASE e \in New(B)
      <4>1. e \notin Stored
        BY <1>2, <3>10
      <4>2. e \in Live' <=> ~Expired(e)
        BY <3>1, <3>2, <3>3, <3>6, <3>7, <3>8, <3>10
      <4>3. ~Expired(e) => stored'[e] > cursor[r]
        BY <2>1, <3>1, <3>2, <3>7, <3>10, <4>1
      <4> QED
        BY <3>4, <3>5, <3>9, <3>10, <4>1, <4>2, <4>3
    <3>11. CASE e \notin New(B)
      <4>1. e \notin S
        BY <3>11
      <4>2. e \in Live' <=> e \in Live
        BY <3>1, <3>3, <3>5, <3>6, <3>7, <3>8, <3>11
      <4>3. e \in Live => stored'[e] = stored[e]
        BY <3>1, <3>5, <3>7, <3>11
      <4> QED
        BY <4>1, <4>2, <4>3
    <3> QED
      BY <3>10, <3>11
  <2>3. Live \subseteq Events /\ Live' \subseteq Events /\ S \subseteq Events
    BY <1>2 DEF Live, Stored
  <2>4. cursor'[r] = cursor[r] /\ page'[r] = page[r]
    BY <1>1
  <2> HIDE DEF S
  <2> QED
    BY <2>2, <2>3, <2>4 DEF DueTo
<1>6. Due' = [r \in Receivers |-> Due[r] \cup (S \ ExpiredSet)]
  <2>1. Due = [r \in Receivers |-> DueTo(r)] /\ Due' = [r \in Receivers |-> DueTo(r)']
    BY DEF Due, DueTo
  <2> HIDE DEF DueTo, S
  <2> QED
    BY <1>5, <2>1
<1>7. ExpiredSet' = ExpiredSet /\ UNCHANGED received
  BY <1>1 DEF ExpiredSet, Expired
<1> HIDE DEF S
<1> QED
  BY <1>3, <1>4, <1>6, <1>7 DEF Promise!Accept, Accepted, ExpiredSet, Expired

(* A page that arrives delivers its events, all of them due.               *)
LEMMA ReceiveDelivers ==
    ASSUME IInv, NEW r \in Receivers, Receive(r)
    PROVE  Promise!Deliver(r)
<1> DEFINE S == page[r].events
<1>1. UNCHANGED <<now, expiresAt, accountSeq, stored, numbered>>
  BY DEF Receive
<1>2. PageFits(r) /\ page[r] \in Page
  BY DEF IInv, TypeOK, Receive, PageInv
<1>3. /\ cursor' = [cursor EXCEPT ![r] = page[r].last]
      /\ page' = [page EXCEPT ![r] = NoPage]
      /\ received' = [received EXCEPT ![r] =
             [e \in Events |-> @[e] + (IF e \in S THEN 1 ELSE 0)]]
  BY DEF Receive
<1>4. /\ cursor'[r] = page[r].last /\ page'[r] = NoPage
      /\ \A q \in Receivers \ {r} : cursor'[q] = cursor[q] /\ page'[q] = page[q]
  BY <1>3 DEF IInv, TypeOK
<1>5. \A e \in Events : stored[e] \in Nat /\ cursor[r] \in Nat /\ page[r].last \in Nat
  BY <1>2 DEF IInv, TypeOK, Page
<1>6. DueTo(r)' = DueTo(r) \ S
  <2>1. \A e \in Live : e \in Events /\ e \in Stored /\ ~Expired(e)
    BY DEF Live, Stored, Expired, IInv, TypeOK
  <2>2. \A e \in Live : stored[e] > page[r].last => stored[e] > cursor[r] /\ e \notin S
    BY <1>2, <1>5, <2>1 DEF PageFits
  <2>3. \A e \in Live : stored[e] > cursor[r] /\ e \notin S => stored[e] > page[r].last
    BY <1>2, <1>5, <2>1 DEF PageFits
  <2>4. DueTo(r)' = {e \in Live : stored[e] > page[r].last}
    BY <1>1, <1>4 DEF DueTo, NoPage, Live, Stored
  <2> HIDE DEF Live
  <2> QED
    BY <2>2, <2>3, <2>4 DEF DueTo
<1>7. \A q \in Receivers \ {r} : DueTo(q)' = DueTo(q)
  BY <1>1, <1>4 DEF DueTo, Live, Stored
<1>8. Due = [q \in Receivers |-> DueTo(q)] /\ Due' = [q \in Receivers |-> DueTo(q)']
  BY DEF Due, DueTo
<1>9. S \in SUBSET Due[r]
  BY <1>8 DEF DueTo
<1>10. Due' = [Due EXCEPT ![r] = @ \ S]
  <2> HIDE DEF DueTo, S
  <2> QED
    BY <1>6, <1>7, <1>8
<1>11. Accepted' = Accepted /\ ExpiredSet' = ExpiredSet
  BY <1>1 DEF Accepted, ExpiredSet, Expired
<1> HIDE DEF S
<1> QED
  BY <1>3, <1>9, <1>10, <1>11 DEF Promise!Deliver, Accepted, ExpiredSet, Expired

(* The table, the cursors and the pages implement the mailbox: batches,    *)
(* repeated posts, prunes, lost pages and the numbers of others come down  *)
(* to one acceptance, at most one delivery to each receiver, and expiry.   *)
THEOREM ImplementsMailboxHolds == Spec => ImplementsMailbox
<1>1. Init => Promise!MailInit
  <2> SUFFICES ASSUME Init PROVE Promise!MailInit
    OBVIOUS
  <2>1. {e \in Events : numbered[e] > 0} = {}
    BY DEF Init
  <2>2. {e \in Events : expiresAt[e] # 0 /\ expiresAt[e] <= now} = {}
    BY DEF Init
  <2>3. Due = [r \in Receivers |-> {}]
    BY DEF Init, Due, Live, Stored, NoPage
  <2> QED
    BY <2>1, <2>2, <2>3 DEF Init, Promise!MailInit
<1>2. Init => NumberedInv
  BY DEF Init, NumberedInv
<1>3. IInv /\ NumberedInv /\ [Next]_vars
          => NumberedInv' /\ [Promise!MailNext]_(Promise!mailVars)
  <2> SUFFICES ASSUME IInv, NumberedInv, [Next]_vars
               PROVE  NumberedInv' /\ [Promise!MailNext]_(Promise!mailVars)
    OBVIOUS
  <2>0. NumberedInv'
    BY NumberedKept
  <2>1. ASSUME NEW B \in SUBSET Emitted, PostAnswered(B) \/ PostUnanswered(B)
        PROVE  Promise!MailNext
    BY <2>1, PostAccepts DEF PostAnswered, PostUnanswered, Promise!MailNext
  <2>2. ASSUME NEW r \in Receivers, Receive(r)
        PROVE  Promise!MailNext
    BY <2>2, ReceiveDelivers DEF Promise!MailNext
  <2>3. ASSUME NEW e \in Events, NEW t \in 1..MaxNow, Emit(e, t)
        PROVE  Promise!Expire
    <3>1. /\ expiresAt[e] = 0 /\ UNCHANGED <<now, stored, numbered, cursor, page, received>>
          /\ \A f \in Events : f # e => expiresAt'[f] = expiresAt[f]
      BY <2>3 DEF Emit, clientVars, IInv, TypeOK
    <3>2. stored[e] = 0
      BY <3>1 DEF IInv, RowInv, Stored
    <3>3. Live' = Live
      BY <3>1, <3>2 DEF Live, Stored
    <3>4. \A r \in Receivers : DueTo(r)' = DueTo(r)
      BY <3>1, <3>3 DEF DueTo
    <3>5. ExpiredSet \subseteq ExpiredSet'
      BY <3>1 DEF ExpiredSet, Expired
    <3> QED
      BY <3>1, <3>4, <3>5, QuietStep DEF IInv
  <2>4. ASSUME TakeSeqElsewhere \/ Tick
        PROVE  Promise!Expire
    <3>1. UNCHANGED <<expiresAt, stored, numbered, cursor, page, received>> /\ now <= now'
      BY <2>4 DEF TakeSeqElsewhere, Tick, clientVars, IInv, TypeOK
    <3>2. \A e \in Events : expiresAt[e] \in Nat /\ now \in Nat /\ now' \in Nat
      BY TypeStep DEF IInv, TypeOK
    <3>3. ExpiredSet \subseteq ExpiredSet'
      BY <3>1, <3>2 DEF ExpiredSet, Expired
    <3>4. Live' \subseteq Live /\ Live \ Live' \subseteq ExpiredSet'
      <4>1. \A e \in Stored : e \in Events /\ expiresAt[e] # 0
        BY DEF Stored, IInv, RowInv
      <4>2. Stored' = Stored
        BY <3>1 DEF Stored
      <4> QED
        BY <3>1, <3>2, <4>1, <4>2 DEF Live, ExpiredSet, Expired
    <3>5. \A r \in Receivers : /\ DueTo(r)' \subseteq DueTo(r)
                               /\ DueTo(r) \ DueTo(r)' \subseteq ExpiredSet'
      BY <3>1, <3>4 DEF DueTo
    <3>6. TypeOK /\ UNCHANGED <<numbered, received>>
      BY <3>1 DEF IInv
    <3> HIDE DEF DueTo, ExpiredSet
    <3> QED
      BY <3>3, <3>5, <3>6, QuietStep
  <2>5. ASSUME NEW r \in Receivers, List(r)
        PROVE  Promise!Expire
    <3>1. UNCHANGED <<now, expiresAt, stored, numbered, cursor, received>> /\ page[r] = NoPage
      BY <2>5 DEF List
    <3>2. page'[r].events \subseteq {e \in Live : stored[e] > cursor[r]}
          /\ \A q \in Receivers \ {r} : page'[q] = page[q]
      <4>1. PICK e \in First(Newer(cursor[r])) :
                page' = [page EXCEPT ![r] =
                    [events |-> First(Newer(cursor[r])), last |-> stored[e]]]
        BY <2>5 DEF List
      <4> QED
        BY <4>1 DEF First, Newer, IInv, TypeOK
    <3>3. Live' = Live
      BY <3>1 DEF Live, Stored
    <3>4. \A q \in Receivers : DueTo(q)' = DueTo(q)
      BY <3>1, <3>2, <3>3 DEF DueTo, NoPage
    <3>5. ExpiredSet' = ExpiredSet
      BY <3>1 DEF ExpiredSet, Expired
    <3> QED
      BY <3>1, <3>4, <3>5, QuietStep DEF IInv
  <2>6. ASSUME NEW r \in Receivers, LosePage(r)
        PROVE  Promise!Expire
    <3>1. UNCHANGED <<now, expiresAt, stored, numbered, cursor, received>>
          /\ page'[r] = NoPage /\ \A q \in Receivers \ {r} : page'[q] = page[q]
      BY <2>6 DEF LosePage, IInv, TypeOK
    <3>2. PageFits(r) /\ page[r] \in Page
      BY <2>6 DEF LosePage, IInv, PageInv, TypeOK
    <3>3. Live' = Live
      BY <3>1 DEF Live, Stored
    <3>4. \A e \in page[r].events :
              e \in Events /\ (e \in ExpiredSet \/ (e \in Live /\ stored[e] > cursor[r]))
      <4>0. \A e \in page[r].events : e \in Events
        BY <3>2 DEF Page
      <4>1. ASSUME NEW e \in page[r].events, ~Expired(e)
            PROVE  e \in Live /\ stored[e] > cursor[r]
        <5>1. e \in Events /\ e \in Stored /\ received[r][e] = 0
          BY <3>2, <4>0, <4>1 DEF PageFits
        <5>2. e \in Live
          BY <4>1, <5>1 DEF Live, Expired, IInv, RowInv, TypeOK
        <5>3. ~(stored[e] <= cursor[r])
          BY <5>1, <5>2 DEF IInv, NoneMissed
        <5>4. stored[e] \in Nat /\ cursor[r] \in Nat
          BY <5>1 DEF IInv, TypeOK
        <5> QED
          BY <5>2, <5>3, <5>4
      <4>2. \A e \in Events : Expired(e) => e \in ExpiredSet
        BY DEF ExpiredSet
      <4> QED
        BY <4>0, <4>1, <4>2
    <3>5. ExpiredSet' = ExpiredSet
      BY <3>1 DEF ExpiredSet, Expired
    <3>6. \A q \in Receivers : /\ DueTo(q)' \subseteq DueTo(q)
                               /\ DueTo(q) \ DueTo(q)' \subseteq ExpiredSet'
      BY <3>1, <3>3, <3>4, <3>5 DEF DueTo, NoPage
    <3> QED
      BY <3>1, <3>5, <3>6, QuietStep DEF IInv
  <2>7. ASSUME UNCHANGED vars
        PROVE  UNCHANGED Promise!mailVars
    <3>1. UNCHANGED <<now, expiresAt, stored, numbered, cursor, page, received>>
      BY <2>7 DEF vars
    <3>2. Accepted' = Accepted /\ ExpiredSet' = ExpiredSet
      BY <3>1 DEF Accepted, ExpiredSet, Expired
    <3>3. Due' = Due
      BY <3>1 DEF Due, Live, Stored
    <3> QED
      BY <3>1, <3>2, <3>3 DEF Promise!mailVars, Accepted, ExpiredSet, Expired
  <2> QED
    BY <2>0, <2>1, <2>2, <2>3, <2>4, <2>5, <2>6, <2>7, Zenon DEF Next, Promise!MailNext
<1> QED
  BY <1>1, <1>2, <1>3, Invariance, PTL DEF Spec, ImplementsMailbox, Promise!MailSpec

(* What the mailbox may owe: only what it accepted and did not deliver.    *)
MailInv ==
    /\ received \in [Receivers -> [Events -> {0, 1}]]
    /\ \A r \in Receivers, e \in Events :
          /\ e \in Due[r] => e \in Accepted /\ received[r][e] = 0
          /\ received[r][e] = 1 => e \in Accepted
          /\ e \in Accepted => \/ received[r][e] = 1 \/ e \in Due[r] \/ e \in ExpiredSet

(* The mailbox keeps its promise: everything accepted is delivered once to *)
(* each receiver, or still due to it, or expired.                          *)
THEOREM PromiseKept == Promise!MailSpec => []Promise!OnceUnlessExpired
<1>1. Promise!MailInit => MailInv
  <2> SUFFICES ASSUME Promise!MailInit PROVE MailInv
    OBVIOUS
  <2>1. Accepted = {} /\ Due = [r \in Receivers |-> {}]
        /\ received = [r \in Receivers |-> [e \in Events |-> 0]]
    BY DEF Promise!MailInit, Accepted
  <2> HIDE DEF Promise!MailInit
  <2> QED
    BY <2>1 DEF MailInv
<1>2. MailInv /\ [Promise!MailNext]_(Promise!mailVars) => MailInv'
  <2> SUFFICES ASSUME MailInv, [Promise!MailNext]_(Promise!mailVars) PROVE MailInv'
    OBVIOUS
  <2>1. CASE Promise!Accept
    <3>1. PICK S \in SUBSET (Events \ Accepted) :
            /\ Accepted' = Accepted \cup S
            /\ Due' = [r \in Receivers |-> Due[r] \cup (S \ ExpiredSet)]
            /\ ExpiredSet' = ExpiredSet /\ UNCHANGED received
      BY <2>1 DEF Promise!Accept, Accepted, ExpiredSet, Expired
    <3>2. ASSUME NEW r \in Receivers, NEW e \in S
          PROVE  received[r][e] = 0
      BY <3>1, <3>2 DEF MailInv
    <3> QED
      BY <3>1, <3>2 DEF MailInv
  <2>2. CASE Promise!Expire
    <3>1. PICK late \in [Receivers -> SUBSET ExpiredSet'] :
            /\ Due' = [r \in Receivers |-> Due[r] \ late[r]]
            /\ ExpiredSet \subseteq ExpiredSet'
            /\ Accepted' = Accepted /\ UNCHANGED received
      BY <2>2 DEF Promise!Expire, Accepted, ExpiredSet, Expired
    <3> QED
      BY <3>1 DEF MailInv
  <2>3. ASSUME NEW r \in Receivers, Promise!Deliver(r)
        PROVE  MailInv'
    <3>1. PICK S \in SUBSET Due[r] :
            /\ Due' = [Due EXCEPT ![r] = @ \ S]
            /\ received' = [received EXCEPT ![r] =
                   [e \in Events |-> @[e] + (IF e \in S THEN 1 ELSE 0)]]
            /\ Accepted' = Accepted /\ ExpiredSet' = ExpiredSet
      BY <2>3 DEF Promise!Deliver, Accepted, ExpiredSet, Expired
    <3>2. Due = [q \in Receivers |-> Due[q]]
      BY DEF Due
    <3>3. /\ Due'[r] = Due[r] \ S
          /\ \A q \in Receivers \ {r} : Due'[q] = Due[q] /\ received'[q] = received[q]
      BY <3>1, <3>2 DEF MailInv
    <3>4. \A e \in Events : received'[r][e] = IF e \in S THEN 1 ELSE received[r][e]
      <4>1. \A e \in Events : received[r][e] \in {0, 1} /\ (e \in S => received[r][e] = 0)
        BY <3>1 DEF MailInv
      <4>2. \A e \in Events :
                received'[r][e] = received[r][e] + (IF e \in S THEN 1 ELSE 0)
        BY <3>1 DEF MailInv
      <4> QED
        BY <4>1, <4>2
    <3>5. received' \in [Receivers -> [Events -> {0, 1}]]
      <4>1. \A e \in Events : received'[r][e] \in {0, 1}
        BY <3>4 DEF MailInv
      <4>2. received'[r] = [e \in Events |-> received'[r][e]]
        BY <3>1 DEF MailInv
      <4>3. received'[r] \in [Events -> {0, 1}]
        BY <4>1, <4>2
      <4>4. received' = [received EXCEPT ![r] = received'[r]]
        BY <3>1 DEF MailInv
      <4> QED
        BY <4>3, <4>4 DEF MailInv
    <3> QED
      BY <3>1, <3>3, <3>4, <3>5 DEF MailInv
  <2>4. CASE UNCHANGED Promise!mailVars
    <3>1. Accepted' = Accepted /\ ExpiredSet' = ExpiredSet /\ Due' = Due /\ UNCHANGED received
      BY <2>4 DEF Promise!mailVars, Accepted, ExpiredSet, Expired
    <3> QED
      BY <3>1 DEF MailInv
  <2> QED
    BY <2>1, <2>2, <2>3, <2>4 DEF Promise!MailNext
<1>3. MailInv => Promise!OnceUnlessExpired
  BY DEF MailInv, Promise!OnceUnlessExpired, Accepted, ExpiredSet, Expired
<1> QED
  BY <1>1, <1>2, <1>3, PTL DEF Promise!MailSpec
=============================================================================
