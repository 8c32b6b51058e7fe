-------------------------- MODULE SyncStoreProofs --------------------------
(***************************************************************************)
(* Proofs about SyncStore, for every set of apps, keys, devices and        *)
(* envelopes and every page and batch size.                                *)
(*                                                                         *)
(* The invariant behind all of them is IInv: what an open transaction and  *)
(* a page in flight may differ by from the committed rows.                 *)
(***************************************************************************)
EXTENDS SyncStore, FiniteSetTheorems, TLAPS

(* The open transaction's rows differ from the committed ones only by rows *)
(* numbered above the committed counter; outside a transaction they agree. *)
DraftInv ==
    /\ accountSeq <= draftSeq
    /\ lock = None => draft = rows /\ draftSeq = accountSeq
    /\ \A k \in Keys : draft[k].seq <= draftSeq
    /\ \A k \in Keys : draft[k] = rows[k] \/ draft[k].seq > accountSeq
    /\ \A j, k \in Keys :
            draft[j].seq = draft[k].seq /\ draft[k].seq > 0 => j = k

(* No cursor is above the counter, no report above a cursor. *)
CursorInv ==
    \A d \in Devices, a \in Apps :
        lastSeen[d] <= cursor[d][a] /\ cursor[d][a] <= accountSeq

(* A page in flight was read above the cursor it will replace: of the rows *)
(* between the cursor and the page's last row it has every one that was    *)
(* not rewritten since, and when it is the final page it has every row     *)
(* that was committed when it was read and not rewritten since.            *)
PageFits(d) ==
    /\ draining[d] # None
    /\ cursor[d][draining[d]] <= page[d].last
    /\ page[d].last <= accountSeq /\ page[d].asOf <= accountSeq
    /\ \A k \in Keys : page[d].rows[k] # Absent =>
            /\ AppOf[k] = draining[d]
            /\ cursor[d][draining[d]] < page[d].rows[k].seq
            /\ page[d].rows[k].seq <= rows[k].seq
    /\ \A k \in Keys :
            /\ AppOf[k] = draining[d]
            /\ cursor[d][draining[d]] < rows[k].seq
            /\ \/ rows[k].seq <= page[d].last
               \/ ~page[d].more /\ rows[k].seq <= page[d].asOf
            => page[d].rows[k] = rows[k]

PageInv == \A d \in Devices : answered[d] => PageFits(d)

IInv ==
    /\ TypeOK
    /\ SeqNamesOneRow
    /\ DraftInv
    /\ CursorInv
    /\ CursorCovers
    /\ PageInv

-----------------------------------------------------------------------------
(* Type correctness *)

(* Every variable of the sync store stays in its type, whatever the        *)
(* endpoints and devices do.                                               *)
THEOREM TypeCorrect == Spec => []TypeOK
<1> USE AppOfType, NoneNoApp, BoundsNat DEF TypeOK, Row, Page, Absent
<1>1. Init => TypeOK
  BY DEF Init, EmptyPage
<1>2. TypeOK /\ [Next]_vars => TypeOK'
  <2> SUFFICES ASSUME TypeOK, [Next]_vars PROVE TypeOK'
    OBVIOUS
  <2>1. ASSUME NEW a \in Apps, BeginBatch(a) PROVE TypeOK'
    BY <2>1 DEF BeginBatch, deviceVars
  <2>2. ASSUME NEW k \in Keys, NEW in \in RowInput, PutRow(k, in) PROVE TypeOK'
    BY <2>2 DEF PutRow, RowInput, NextSeq, deviceVars
  <2>3. CASE CommitBatch
    BY <2>3 DEF CommitBatch, deviceVars
  <2>4. CASE RollbackBatch
    BY <2>4 DEF RollbackBatch, deviceVars
  <2>5. ASSUME NEW k \in Keys, SoftDeleteRow(k) PROVE TypeOK'
    BY <2>5 DEF SoftDeleteRow, NextSeq, deviceVars
  <2>6. CASE TakeSeqElsewhere
    BY <2>6 DEF TakeSeqElsewhere, NextSeq, deviceVars
  <2>7. ASSUME NEW d \in Devices, NEW a \in Apps, Poll(d, a) PROVE TypeOK'
    BY <2>7 DEF Poll, serverVars
  <2>8. ASSUME NEW d \in Devices, List(d) PROVE TypeOK'
    <3> DEFINE newer == Newer(draining[d], cursor[d][draining[d]])
               here == First(newer)
    <3>1. here \in SUBSET Keys
      BY DEF First, Newer
    <3>2. PICK last \in {cursor[d][draining[d]]} \cup {rows[k].seq : k \in here} :
             page' = [page EXCEPT ![d] =
                 [rows |-> [k \in Keys |-> IF k \in here THEN rows[k] ELSE Absent],
                  last |-> last, more |-> HasMore(newer), asOf |-> accountSeq]]
      BY <2>8 DEF List
    <3>3. last \in Nat
      BY <2>8, <3>1 DEF List
    <3>4. HasMore(newer) \in BOOLEAN
      BY DEF HasMore
    <3>5. page' \in [Devices -> Page]
      BY <3>2, <3>3, <3>4
    <3> QED
      BY <2>8, <3>5 DEF List, serverVars
  <2>9. ASSUME NEW d \in Devices, ApplyPage(d) PROVE TypeOK'
    BY <2>9 DEF ApplyPage, CursorAfter, EmptyPage, serverVars
  <2>10. ASSUME NEW d \in Devices, AbandonDrain(d) PROVE TypeOK'
    BY <2>10 DEF AbandonDrain, serverVars
  <2>11. ASSUME NEW d \in Devices, UpdateDeviceCursor(d) PROVE TypeOK'
    BY <2>11 DEF UpdateDeviceCursor, MergeCursor, deviceVars
  <2>12. CASE UNCHANGED vars
    BY <2>12 DEF vars
  <2> QED
    BY <2>1, <2>2, <2>3, <2>4, <2>5, <2>6, <2>7, <2>8, <2>9, <2>10, <2>11, <2>12
       DEF Next, Write, Drain
<1> QED
  BY <1>1, <1>2, PTL DEF Spec

-----------------------------------------------------------------------------
(* Lemmas *)

(* A page is downward closed: a row numbered no higher than a row of the   *)
(* page is on the page too.  (LIMIT after ORDER BY seq.)                   *)
LEMMA FirstDownward ==
    ASSUME NEW S \in SUBSET Keys, NEW j \in First(S), NEW k \in S,
           rows \in [Keys -> Row], rows[k].seq <= rows[j].seq
    PROVE  k \in First(S)
<1> DEFINE UpTo(n) == {i \in S : rows[i].seq <= n}
<1>1. UpTo(rows[k].seq) \subseteq UpTo(rows[j].seq)
  BY DEF First, Row
<1>2. IsFiniteSet(UpTo(rows[j].seq))
  BY KeysFinite, FS_Subset
<1>3. IsFiniteSet(UpTo(rows[k].seq))
  BY KeysFinite, FS_Subset
<1>4. Cardinality(UpTo(rows[k].seq)) <= Cardinality(UpTo(rows[j].seq))
  BY <1>1, <1>2, FS_Subset
<1>5. Cardinality(UpTo(rows[j].seq)) <= PageLimit
  BY DEF First
<1>6. Cardinality(UpTo(rows[k].seq)) <= PageLimit
  BY <1>2, <1>3, <1>4, <1>5, FS_CardinalityType, BoundsNat
<1> QED
  BY <1>6 DEF First

(* Whatever a write step publishes is numbered above the counter it        *)
(* started from, and a write moves nothing of a device.                    *)
PublishesAbove ==
    /\ accountSeq <= accountSeq'
    /\ \A k \in Keys : rows'[k] = rows[k] \/ rows'[k].seq > accountSeq
    /\ UNCHANGED <<cursor, replica, draining, answered, page, lastSeen>>

LEMMA WriteSteps ==
    ASSUME IInv, Write
    PROVE  PublishesAbove /\ SeqNamesOneRow' /\ DraftInv'
<1>0. /\ accountSeq \in Nat /\ draftSeq \in Nat
      /\ \A k \in Keys : rows[k].seq \in Nat /\ draft[k].seq \in Nat
      /\ rows \in [Keys -> Row] /\ draft \in [Keys -> Row]
  BY DEF IInv, TypeOK, Row
<1>a. SeqNamesOneRow /\ DraftInv
  BY DEF IInv
<1> USE <1>0, <1>a DEF deviceVars, PublishesAbove
<1>1. ASSUME NEW a \in Apps, BeginBatch(a)
      PROVE  PublishesAbove /\ SeqNamesOneRow' /\ DraftInv'
  BY <1>1, NoneNoApp DEF BeginBatch, DraftInv, SeqNamesOneRow
<1>2. ASSUME NEW k \in Keys, NEW in \in RowInput, PutRow(k, in)
      PROVE  PublishesAbove /\ SeqNamesOneRow' /\ DraftInv'
  <2>1. PublishesAbove /\ SeqNamesOneRow'
    BY <1>2 DEF PutRow, SeqNamesOneRow
  <2>2. /\ draft'[k].seq = draftSeq + 1
        /\ \A j \in Keys \ {k} : draft'[j] = draft[j]
        /\ draftSeq' = draftSeq + 1
        /\ UNCHANGED <<rows, accountSeq, lock>>
    BY <1>2 DEF PutRow, NextSeq
  <2>3. lock' # None
    BY <1>2, AppOfType, NoneNoApp DEF PutRow
  <2>4. \A j \in Keys : draft'[j].seq <= draftSeq'
    BY <2>2 DEF DraftInv
  <2>5. \A j \in Keys : draft'[j] = rows'[j] \/ draft'[j].seq > accountSeq'
    BY <2>2 DEF DraftInv
  <2>6. \A i, j \in Keys :
            draft'[i].seq = draft'[j].seq /\ draft'[j].seq > 0 => i = j
    BY <2>2 DEF DraftInv
  <2> QED
    BY <2>1, <2>2, <2>3, <2>4, <2>5, <2>6 DEF DraftInv
<1>3. CASE CommitBatch
  <2>1. /\ rows' = draft /\ accountSeq' = draftSeq
        /\ UNCHANGED <<draft, draftSeq, cursor, replica, draining, answered, page,
                       lastSeen>>
    BY <1>3 DEF CommitBatch
  <2>2. PublishesAbove
    BY <2>1 DEF DraftInv
  <2>3. SeqNamesOneRow'
    BY <2>1 DEF DraftInv, SeqNamesOneRow
  <2>4. DraftInv'
    BY <2>1 DEF DraftInv
  <2> QED
    BY <2>2, <2>3, <2>4
<1>4. CASE RollbackBatch
  BY <1>4 DEF RollbackBatch, DraftInv, SeqNamesOneRow
<1>5. ASSUME NEW k \in Keys, SoftDeleteRow(k)
      PROVE  PublishesAbove /\ SeqNamesOneRow' /\ DraftInv'
  <2>1. /\ rows'[k].seq = accountSeq + 1
        /\ \A j \in Keys \ {k} : rows'[j] = rows[j]
        /\ accountSeq' = accountSeq + 1
        /\ draft' = rows' /\ draftSeq' = accountSeq'
        /\ UNCHANGED <<cursor, replica, draining, answered, page, lastSeen>>
    BY <1>5 DEF SoftDeleteRow, NextSeq
  <2>2. PublishesAbove
    BY <2>1
  <2>3. /\ \A j \in Keys : rows'[j].seq <= accountSeq'
        /\ \A i, j \in Keys :
              rows'[i].seq = rows'[j].seq /\ rows'[j].seq > 0 => i = j
    BY <2>1 DEF SeqNamesOneRow
  <2> QED
    BY <2>1, <2>2, <2>3 DEF DraftInv, SeqNamesOneRow
<1>6. CASE TakeSeqElsewhere
  <2>1. /\ accountSeq' = accountSeq + 1 /\ draftSeq' = accountSeq'
        /\ draft = rows
        /\ UNCHANGED <<rows, draft, lock, cursor, replica, draining, answered, page,
                       lastSeen>>
    BY <1>6 DEF TakeSeqElsewhere, NextSeq, DraftInv
  <2>2. \A j \in Keys : rows'[j].seq <= accountSeq'
    BY <2>1 DEF SeqNamesOneRow
  <2> QED
    BY <2>1, <2>2 DEF DraftInv, SeqNamesOneRow
<1> QED
  BY <1>1, <1>2, <1>3, <1>4, <1>5, <1>6 DEF Write

(* What the devices hold, and the pages on their way, survive any write    *)
(* that publishes above the counter.                                       *)
LEMMA WritesKeepDevices ==
    ASSUME IInv, TypeOK', PublishesAbove
    PROVE  CursorInv' /\ CursorCovers' /\ PageInv'
<1>0. /\ \A k \in Keys : /\ rows[k].seq \in Nat /\ rows'[k].seq \in Nat
                       /\ rows[k].seq <= accountSeq /\ rows[k].seq <= rows'[k].seq
      /\ accountSeq \in Nat /\ accountSeq' \in Nat
  <2>1. \A k \in Keys : rows[k].seq \in Nat /\ rows'[k].seq \in Nat
    BY DEF IInv, TypeOK, Row
  <2>2. accountSeq \in Nat /\ accountSeq' \in Nat
    BY DEF IInv, TypeOK
  <2>3. \A k \in Keys : rows[k].seq <= accountSeq
    BY DEF IInv, SeqNamesOneRow
  <2> QED
    BY <2>1, <2>2, <2>3 DEF PublishesAbove
<1> USE AppOfType DEF IInv, TypeOK, Row, Page, PublishesAbove
<1>1. CursorInv'
  BY DEF CursorInv
<1>2. CursorCovers'
  BY DEF CursorCovers, CursorInv
<1>3. PageInv'
  <2> SUFFICES ASSUME NEW d \in Devices, answered[d] PROVE PageFits(d)'
    BY DEF PageInv
  <2> DEFINE a == draining[d]
             c == cursor[d][a]
             p == page[d]
  <2>1. PageFits(d) /\ a \in Apps /\ p \in Page /\ c \in Nat
    BY DEF PageInv, PageFits
  <2>3. UNCHANGED <<cursor, draining, page>>
    OBVIOUS
  <2>4. \A k \in Keys : p.rows[k] # Absent =>
            AppOf[k] = a /\ c < p.rows[k].seq /\ p.rows[k].seq <= rows'[k].seq
    BY <1>0, <2>1 DEF PageFits
  <2>5. \A k \in Keys :
            (/\ AppOf[k] = a
             /\ c < rows'[k].seq
             /\ \/ rows'[k].seq <= p.last
                \/ ~p.more /\ rows'[k].seq <= p.asOf)
            => p.rows[k] = rows'[k]
    <3> SUFFICES ASSUME NEW k \in Keys, AppOf[k] = a, c < rows'[k].seq,
                        \/ rows'[k].seq <= p.last
                        \/ ~p.more /\ rows'[k].seq <= p.asOf
                 PROVE  p.rows[k] = rows'[k]
      OBVIOUS
    <3>1. p.last <= accountSeq /\ p.asOf <= accountSeq /\ p.last \in Nat /\ p.asOf \in Nat
      BY <2>1 DEF PageFits
    <3>2. rows'[k] = rows[k]
      BY <1>0, <3>1
    <3> QED
      BY <2>1, <3>2 DEF PageFits
  <2>6. p.last <= accountSeq' /\ p.asOf <= accountSeq' /\ c <= p.last /\ a # None
    BY <2>1 DEF PageFits
  <2> QED
    BY ONLY <2>3, <2>4, <2>5, <2>6 DEF PageFits
<1> QED
  BY <1>1, <1>2, <1>3

(* The page a list answers with fits the cursor it was read above.         *)
LEMMA ListFits ==
    ASSUME IInv, TypeOK', NEW d \in Devices, List(d)
    PROVE  PageFits(d)'
<1> DEFINE a == draining[d]
           c == cursor[d][a]
           newer == Newer(a, c)
           here == First(newer)
           p == page'[d]
<1>1. /\ a \in Apps /\ c \in Nat /\ accountSeq \in Nat
      /\ rows \in [Keys -> Row] /\ \A k \in Keys : rows[k].seq \in Nat
  BY DEF IInv, TypeOK, List, Row
<1>2. here \subseteq newer /\ newer \subseteq Keys
  BY DEF First, Newer
<1>3. /\ UNCHANGED <<accountSeq, rows, cursor, draining>>
      /\ \A k \in Keys : p.rows[k] = IF k \in here THEN rows[k] ELSE Absent
      /\ p.more = HasMore(newer) /\ p.asOf = accountSeq
      /\ p.last \in {c} \cup {rows[k].seq : k \in here}
      /\ \A k \in here : rows[k].seq <= p.last
  BY DEF List, serverVars, IInv, TypeOK
<1>4. \A k \in Keys : k \in newer <=> AppOf[k] = a /\ rows[k].seq > c
  BY DEF Newer
<1>5. /\ c <= p.last /\ p.last <= accountSeq /\ p.asOf <= accountSeq /\ a # None
  BY <1>1, <1>2, <1>3, <1>4 DEF IInv, CursorInv, SeqNamesOneRow, List
<1>6. \A k \in Keys : p.rows[k] # Absent =>
          /\ AppOf[k] = a /\ c < p.rows[k].seq /\ p.rows[k].seq <= rows[k].seq
  BY <1>1, <1>2, <1>3, <1>4
<1>7. \A k \in Keys : (/\ AppOf[k] = a /\ c < rows[k].seq
                       /\ rows[k].seq <= p.last) => k \in here
  <2> SUFFICES ASSUME NEW k \in Keys, AppOf[k] = a, c < rows[k].seq,
                      rows[k].seq <= p.last
               PROVE  k \in here
    OBVIOUS
  <2>1. k \in newer
    BY <1>1, <1>4
  <2>2. PICK j \in here : p.last = rows[j].seq
    BY <1>1, <1>3
  <2> QED
    BY <1>1, <1>2, <2>1, <2>2, FirstDownward
<1>8. ~p.more => newer \subseteq here
  BY <1>3 DEF HasMore
<1>9. \A k \in Keys :
        (/\ AppOf[k] = a /\ c < rows[k].seq
         /\ \/ rows[k].seq <= p.last
            \/ ~p.more /\ rows[k].seq <= p.asOf)
        => p.rows[k] = rows[k]
  BY <1>1, <1>3, <1>4, <1>7, <1>8
<1> QED
  BY <1>3, <1>5, <1>6, <1>9 DEF PageFits

(* What a device does to itself keeps its cursor honest and leaves the     *)
(* pages of the others alone.                                              *)
LEMMA DrainSteps ==
    ASSUME IInv, TypeOK', NEW d \in Devices, Drain(d)
    PROVE  CursorInv' /\ CursorCovers' /\ PageInv' /\ SeqNamesOneRow' /\ DraftInv'
<1>1. ASSUME NEW a \in Apps, Poll(d, a)
      PROVE  CursorInv' /\ CursorCovers' /\ PageInv' /\ SeqNamesOneRow' /\ DraftInv'
  <2>1. ~answered[d]
    BY <1>1 DEF IInv, PageInv, PageFits, Poll
  <2>2. PageInv'
    <3> SUFFICES ASSUME NEW o \in Devices, answered'[o] PROVE PageFits(o)'
      BY DEF PageInv
    <3>1. o # d /\ PageFits(o)
      BY <1>1, <2>1 DEF Poll, IInv, PageInv
    <3> QED
      BY <1>1, <3>1 DEF Poll, serverVars, PageFits, IInv, TypeOK
  <2> QED
    BY <1>1, <2>2
       DEF Poll, serverVars, IInv, CursorInv, CursorCovers, SeqNamesOneRow, DraftInv
<1>2. CASE List(d)
  <2>1. PageInv'
    <3> SUFFICES ASSUME NEW o \in Devices, answered'[o] PROVE PageFits(o)'
      BY DEF PageInv
    <3>1. CASE o = d
      BY <1>2, <3>1, ListFits
    <3>2. CASE o # d
      <4>1. answered[o] /\ PageFits(o) /\ page'[o] = page[o]
        BY <1>2, <3>2 DEF List, IInv, TypeOK, PageInv
      <4> QED
        BY <1>2, <4>1 DEF List, serverVars, PageFits
    <3> QED
      BY <3>1, <3>2
  <2> QED
    BY <1>2, <2>1
       DEF List, serverVars, IInv, CursorInv, CursorCovers, SeqNamesOneRow, DraftInv
<1>3. CASE ApplyPage(d)
  <2> DEFINE a == draining[d]
             p == page[d]
  <2>1. PageFits(d) /\ a \in Apps /\ UNCHANGED <<accountSeq, rows, lock, draft, draftSeq, lastSeen>>
    BY <1>3 DEF ApplyPage, IInv, PageInv, TypeOK, serverVars
  <2>2. /\ cursor'[d][a] = p.last
        /\ \A b \in Apps \ {a} : cursor'[d][b] = cursor[d][b]
        /\ \A o \in Devices \ {d} : cursor'[o] = cursor[o] /\ replica'[o] = replica[o]
        /\ \A k \in Keys : replica'[d][k] =
                IF p.rows[k] # Absent THEN p.rows[k] ELSE replica[d][k]
    BY <1>3, <2>1 DEF ApplyPage, CursorAfter, IInv, TypeOK
  <2>3. /\ \A k \in Keys : rows[k].seq \in Nat
        /\ \A o \in Devices, b \in Apps : cursor[o][b] \in Nat /\ lastSeen[o] \in Nat
        /\ p.last \in Nat /\ accountSeq \in Nat
    BY <2>1 DEF IInv, TypeOK, Row, Page
  <2>4. CursorInv'
    <3>1. cursor[d][a] <= p.last /\ p.last <= accountSeq
      BY <2>1 DEF PageFits
    <3>2. \A o \in Devices, b \in Apps :
              lastSeen[o] <= cursor[o][b] /\ cursor[o][b] <= accountSeq
      BY DEF IInv, CursorInv
    <3> SUFFICES ASSUME NEW o \in Devices, NEW b \in Apps
                 PROVE  lastSeen[o] <= cursor'[o][b] /\ cursor'[o][b] <= accountSeq
      BY <2>1 DEF CursorInv
    <3>3. CASE o = d /\ b = a
      BY <2>1, <2>2, <2>3, <3>1, <3>2, <3>3
    <3>4. CASE ~(o = d /\ b = a)
      BY <2>2, <3>2, <3>4
    <3> QED
      BY <3>3, <3>4
  <2>5. CursorCovers'
    <3> SUFFICES ASSUME NEW o \in Devices, NEW k \in Keys,
                        rows[k].seq <= cursor'[o][AppOf[k]]
                 PROVE  replica'[o][k] = rows[k]
      BY <2>1 DEF CursorCovers
    <3> AppOf[k] \in Apps
      BY AppOfType
    <3>1. rows[k].seq <= cursor[o][AppOf[k]] => replica[o][k] = rows[k]
      BY DEF IInv, CursorCovers
    <3>2. CASE o # d
      BY <2>2, <3>1, <3>2
    <3>3. CASE o = d /\ rows[k].seq <= cursor[d][AppOf[k]]
      <4>1. p.rows[k] = Absent
        BY <2>1, <2>3, <3>3, AppOfType DEF PageFits, IInv, TypeOK, Page, Row
      <4> QED
        BY <2>2, <3>1, <3>3, <4>1
    <3>4. CASE o = d /\ ~(rows[k].seq <= cursor[d][AppOf[k]])
      <4>1. AppOf[k] = a /\ rows[k].seq <= p.last /\ cursor[d][a] < rows[k].seq
        BY <2>2, <2>3, <3>4
      <4>2. p.rows[k] = rows[k]
        BY <2>1, <4>1 DEF PageFits
      <4>3. rows[k] # Absent
        BY <2>3, <4>1 DEF Absent
      <4> QED
        BY <2>2, <3>4, <4>2, <4>3
    <3> QED
      BY <3>2, <3>3, <3>4
  <2>6. PageInv'
    <3> SUFFICES ASSUME NEW o \in Devices, answered'[o] PROVE PageFits(o)'
      BY DEF PageInv
    <3>1. o # d /\ PageFits(o)
      BY <1>3 DEF ApplyPage, IInv, TypeOK, PageInv
    <3>2. UNCHANGED <<page[o], cursor[o], draining[o]>>
      BY <1>3, <3>1 DEF ApplyPage, IInv, TypeOK
    <3> QED
      BY <2>1, <3>1, <3>2 DEF PageFits
  <2> QED
    BY <2>1, <2>4, <2>5, <2>6 DEF IInv, SeqNamesOneRow, DraftInv
<1>4. CASE AbandonDrain(d)
  <2>1. PageInv'
    <3> SUFFICES ASSUME NEW o \in Devices, answered'[o] PROVE PageFits(o)'
      BY DEF PageInv
    <3>1. o # d /\ PageFits(o)
      BY <1>4 DEF AbandonDrain, IInv, PageInv
    <3> QED
      BY <1>4, <3>1 DEF AbandonDrain, serverVars, PageFits, IInv, TypeOK
  <2> QED
    BY <1>4, <2>1
       DEF AbandonDrain, serverVars, IInv, CursorInv, CursorCovers, SeqNamesOneRow, DraftInv
<1>5. CASE UpdateDeviceCursor(d)
  <2>1. CursorInv'
    BY <1>5 DEF UpdateDeviceCursor, MergeCursor, deviceVars, IInv, TypeOK, CursorInv
  <2>2. PageInv'
    BY <1>5 DEF UpdateDeviceCursor, deviceVars, IInv, PageInv, PageFits
  <2> QED
    BY <1>5, <2>1, <2>2
       DEF UpdateDeviceCursor, deviceVars, IInv, CursorCovers, SeqNamesOneRow, DraftInv
<1> QED
  BY <1>1, <1>2, <1>3, <1>4, <1>5 DEF Drain

-----------------------------------------------------------------------------
(* The inductive invariant and the properties it gives *)

LEMMA Inductive == IInv /\ TypeOK' /\ [Next]_vars => IInv'
<1> SUFFICES ASSUME IInv, TypeOK', [Next]_vars PROVE IInv'
  OBVIOUS
<1>1. CASE Write
  BY <1>1, WriteSteps, WritesKeepDevices DEF IInv
<1>2. ASSUME NEW d \in Devices, Drain(d) PROVE IInv'
  BY <1>2, DrainSteps DEF IInv
<1>3. CASE UNCHANGED vars
  BY <1>3 DEF vars, IInv, TypeOK, SeqNamesOneRow, DraftInv, CursorInv, CursorCovers,
              PageInv, PageFits
<1> QED
  BY <1>1, <1>2, <1>3 DEF Next

LEMMA InitIInv == Init /\ TypeOK => IInv
<1> SUFFICES ASSUME Init, TypeOK PROVE IInv
  OBVIOUS
<1>1. SeqNamesOneRow /\ DraftInv
  BY DEF Init, Absent, SeqNamesOneRow, DraftInv
<1>2. CursorInv /\ CursorCovers
  BY AppOfType DEF Init, Absent, CursorInv, CursorCovers
<1>3. PageInv
  BY DEF Init, PageInv
<1> QED
  BY <1>1, <1>2, <1>3 DEF IInv

(* IInv holds in every reachable state.                                    *)
THEOREM Invariance == Spec => []IInv
<1>1. TypeOK /\ Init => IInv
  BY InitIInv
<1>2. IInv /\ TypeOK' /\ [Next]_vars => IInv'
  BY Inductive
<1> QED
  BY <1>1, <1>2, TypeCorrect, PTL DEF Spec

(* Sequence numbers name at most one row and none is above the counter.    *)
THEOREM SeqNamesOneRowHolds == Spec => []SeqNamesOneRow
<1>1. IInv => SeqNamesOneRow
  BY DEF IInv
<1> QED
  BY <1>1, Invariance, PTL

(* No row at or below a device's cursor is missed or out of date on it.    *)
THEOREM CursorCoversHolds == Spec => []CursorCovers
<1>1. IInv => CursorCovers
  BY DEF IInv
<1> QED
  BY <1>1, Invariance, PTL

(* What is at or below an acknowledged position is held by the device.     *)
THEOREM AckedIsHeldHolds == Spec => []AckedIsHeld
<1>1. IInv => AckedIsHeld
  <2> SUFFICES ASSUME IInv, NEW d \in Devices, NEW k \in Keys,
                      rows[k].seq <= lastSeen[d]
               PROVE  replica[d][k] = rows[k]
    BY DEF AckedIsHeld
  <2>1. AppOf[k] \in Apps
    BY AppOfType
  <2>2. /\ lastSeen[d] <= cursor[d][AppOf[k]]
        /\ rows[k].seq \in Nat /\ lastSeen[d] \in Nat /\ cursor[d][AppOf[k]] \in Nat
    BY <2>1 DEF IInv, CursorInv, TypeOK, Row
  <2>3. rows[k].seq <= cursor[d][AppOf[k]]
    BY <2>2
  <2> QED
    BY <2>3 DEF IInv, CursorCovers
<1> QED
  BY <1>1, Invariance, PTL

(* Reports in any order only move the device table forward.                *)
THEOREM AckNeverBackwardHolds == Spec => AckNeverBackward
<1>1. TypeOK /\ [Next]_vars => [\A d \in Devices : lastSeen'[d] >= lastSeen[d]]_vars
  <2> SUFFICES ASSUME TypeOK, Next, NEW d \in Devices
               PROVE  lastSeen'[d] >= lastSeen[d]
    OBVIOUS
  <2>1. lastSeen[d] \in Nat
    BY DEF TypeOK
  <2>2. CASE Write
    BY <2>1, <2>2 DEF Write, BeginBatch, PutRow, CommitBatch, RollbackBatch,
                      SoftDeleteRow, TakeSeqElsewhere
  <2>3. ASSUME NEW o \in Devices, UpdateDeviceCursor(o)
        PROVE  lastSeen'[d] >= lastSeen[d]
    BY <2>1, <2>3 DEF UpdateDeviceCursor, MergeCursor, TypeOK
  <2>4. ASSUME NEW o \in Devices, Drain(o), ~UpdateDeviceCursor(o)
        PROVE  lastSeen'[d] >= lastSeen[d]
    BY <2>1, <2>4 DEF Drain, Poll, List, ApplyPage, AbandonDrain, serverVars
  <2> QED
    BY <2>2, <2>3, <2>4 DEF Next
<1> QED
  BY <1>1, TypeCorrect, PTL DEF Spec, AckNeverBackward

(* A drain that ends has all that was committed when its last page was     *)
(* read.                                                                   *)
THEOREM DrainIsCompleteHolds == Spec => DrainIsComplete
<1> DEFINE Complete ==
        \A d \in Devices : (answered[d] /\ draining'[d] = None) =>
            \A k \in Keys : (AppOf[k] = draining[d] /\ rows[k].seq <= page[d].asOf)
                => replica'[d][k] = rows[k]
<1>1. IInv /\ IInv' /\ [Next]_vars => [Complete]_vars
  <2> SUFFICES ASSUME IInv, IInv', Next, NEW d \in Devices, NEW k \in Keys,
                      answered[d], draining'[d] = None,
                      AppOf[k] = draining[d], rows[k].seq <= page[d].asOf
               PROVE  replica'[d][k] = rows[k]
    OBVIOUS
  <2>1. draining[d] # None
    BY AppOfType, NoneNoApp
  <2>2. ~Write
    BY <2>1 DEF Write, BeginBatch, PutRow, CommitBatch, RollbackBatch, SoftDeleteRow,
                TakeSeqElsewhere, deviceVars
  <2>3. PICK o \in Devices : Drain(o)
    BY <2>2 DEF Next
  <2>4. ApplyPage(d) /\ ~page[d].more
    <3>1. o = d
      BY <2>1, <2>3 DEF Drain, Poll, List, ApplyPage, AbandonDrain, UpdateDeviceCursor,
                        deviceVars, IInv, TypeOK
    <3>2. ApplyPage(d)
      BY <2>1, <2>3, <3>1 DEF Drain, Poll, List, AbandonDrain, UpdateDeviceCursor,
                              deviceVars, IInv, TypeOK
    <3> QED
      BY <2>1, <3>2 DEF ApplyPage, IInv, TypeOK
  <2>5. /\ rows[k].seq \in Nat /\ cursor[d][draining[d]] \in Nat
        /\ PageFits(d)
    BY <2>1 DEF IInv, TypeOK, Row, PageInv
  <2>6. replica'[d][k] = IF page[d].rows[k] # Absent THEN page[d].rows[k]
                                                    ELSE replica[d][k]
    BY <2>4 DEF ApplyPage, IInv, TypeOK
  <2>7. CASE rows[k].seq <= cursor[d][draining[d]]
    <3>1. replica[d][k] = rows[k]
      BY <2>7 DEF IInv, CursorCovers
    <3>2. page[d].rows[k] = Absent
      BY <2>5, <2>7 DEF PageFits, IInv, TypeOK, Page, Row
    <3> QED
      BY <2>6, <3>1, <3>2
  <2>8. CASE cursor[d][draining[d]] < rows[k].seq
    <3>1. page[d].rows[k] = rows[k]
      BY <2>4, <2>5, <2>8 DEF PageFits
    <3>2. rows[k] # Absent
      BY <2>5, <2>8 DEF Absent
    <3> QED
      BY <2>6, <3>1, <3>2
  <2> QED
    BY <2>5, <2>7, <2>8
<1> QED
  BY <1>1, Invariance, PTL DEF Spec, DrainIsComplete

(* No step renumbers a tombstone whose envelope it leaves alone.           *)
THEOREM TombstonesStayQuietHolds == Spec => TombstonesStayQuiet
<1> DEFINE Quiet == \A k \in Keys :
        (draft[k].deleted /\ draft'[k].deleted /\ draft'[k].env = draft[k].env)
            => draft'[k].seq <= draft[k].seq
<1>1. IInv /\ [Next]_vars => [Quiet]_vars
  <2> SUFFICES ASSUME IInv, Next, NEW k \in Keys,
                      draft[k].deleted, draft'[k].deleted,
                      draft'[k].env = draft[k].env
               PROVE  draft'[k].seq <= draft[k].seq
    OBVIOUS
  <2>1. draft[k].seq \in Nat /\ rows[k].seq \in Nat /\ accountSeq \in Nat
    BY DEF IInv, TypeOK, Row
  <2>2. CASE draft' = draft
    BY <2>1, <2>2
  <2>3. ASSUME NEW j \in Keys, NEW in \in RowInput, PutRow(j, in)
        PROVE  draft'[k].seq <= draft[k].seq
    <3>1. CASE j = k
      BY <2>3, <3>1 DEF PutRow, Skips, IInv, TypeOK
    <3>2. CASE j # k
      BY <2>1, <2>3, <3>2 DEF PutRow, IInv, TypeOK
    <3> QED
      BY <3>1, <3>2
  <2>4. CASE RollbackBatch
    <3>1. rows[k].seq <= accountSeq
      BY DEF IInv, SeqNamesOneRow
    <3>2. draft[k] = rows[k] \/ draft[k].seq > accountSeq
      BY DEF IInv, DraftInv
    <3> QED
      BY <2>1, <2>4, <3>1, <3>2 DEF RollbackBatch
  <2>5. ASSUME NEW j \in Keys, SoftDeleteRow(j)
        PROVE  draft'[k].seq <= draft[k].seq
    <3>1. draft = rows
      BY <2>5 DEF SoftDeleteRow, IInv, DraftInv
    <3>2. j # k
      BY <2>5, <3>1 DEF SoftDeleteRow
    <3> QED
      BY <2>1, <2>5, <3>1, <3>2 DEF SoftDeleteRow, IInv, TypeOK
  <2>6. CASE Next /\ ~RollbackBatch /\ (\A j \in Keys : ~SoftDeleteRow(j))
             /\ (\A j \in Keys, in \in RowInput : ~PutRow(j, in))
    BY <2>2, <2>6 DEF Next, Write, Drain, BeginBatch, CommitBatch, TakeSeqElsewhere,
          Poll, List, ApplyPage, AbandonDrain, UpdateDeviceCursor, serverVars
  <2> QED
    BY <2>3, <2>4, <2>5, <2>6
<1> QED
  BY <1>1, Invariance, PTL DEF Spec, TombstonesStayQuiet

-----------------------------------------------------------------------------
(* The refinement: writes publish, an applied page serves, the rest        *)
(* stutters.                                                               *)

LEMMA WritePublishes == ASSUME IInv, TypeOK', PublishesAbove PROVE Feed!Publish
<1> DEFINE S == {k \in Keys : rows'[k] # rows[k]}
<1>1. /\ accountSeq \in Nat /\ \A k \in Keys : rows[k].seq \in Nat
      /\ \A d \in Devices, a \in Apps : cursor[d][a] \in Nat /\ cursor[d][a] <= accountSeq
  BY DEF IInv, TypeOK, Row, CursorInv
<1>2. \A k \in S : rows'[k].seq > accountSeq
  BY DEF PublishesAbove
<1>3. ASSUME NEW d \in Devices
      PROVE  {k \in Keys : rows'[k].seq > cursor'[d][AppOf[k]]}
               = {k \in Keys : rows[k].seq > cursor[d][AppOf[k]]} \cup S
  <2>1. cursor' = cursor /\ \A k \in Keys : AppOf[k] \in Apps
    BY AppOfType DEF PublishesAbove
  <2>2. ASSUME NEW k \in Keys
        PROVE  (rows'[k].seq > cursor[d][AppOf[k]])
                  <=> (rows[k].seq > cursor[d][AppOf[k]] \/ rows'[k] # rows[k])
    <3>1. cursor[d][AppOf[k]] \in Nat /\ cursor[d][AppOf[k]] <= accountSeq
      BY <1>1, <2>1
    <3>2. CASE rows'[k] = rows[k]
      BY <3>2
    <3>3. CASE rows'[k] # rows[k] /\ rows'[k].seq \in Int
      BY <1>1, <1>2, <3>1, <3>3
    <3>4. rows'[k].seq \in Int
      BY DEF TypeOK, Row
    <3> QED
      BY <3>2, <3>3, <3>4
  <2> QED
    BY <2>1, <2>2
<1>4. Owed' = [d \in Devices |-> Owed[d] \cup S]
  BY <1>3 DEF Owed
<1> QED
  BY <1>4 DEF Feed!Publish, PublishesAbove

LEMMA ApplyServes ==
    ASSUME IInv, IInv', NEW d \in Devices, ApplyPage(d)
    PROVE  Feed!Serve(d)
<1> DEFINE a == draining[d]
           S == {k \in Owed[d] : rows[k].seq <= cursor'[d][AppOf[k]]}
<1>1. PageFits(d) /\ a \in Apps /\ UNCHANGED rows
  BY DEF ApplyPage, IInv, PageInv, TypeOK, serverVars
<1>2. /\ cursor'[d][a] = page[d].last
      /\ \A b \in Apps \ {a} : cursor'[d][b] = cursor[d][b]
      /\ \A o \in Devices \ {d} : cursor'[o] = cursor[o] /\ replica'[o] = replica[o]
      /\ \A k \in Keys : replica'[d][k] =
            IF page[d].rows[k] # Absent THEN page[d].rows[k] ELSE replica[d][k]
  BY <1>1 DEF ApplyPage, CursorAfter, IInv, TypeOK
<1>3. /\ \A k \in Keys : rows[k].seq \in Nat /\ AppOf[k] \in Apps
      /\ \A b \in Apps : cursor[d][b] \in Nat /\ cursor'[d][b] \in Nat
                         /\ cursor[d][b] <= cursor'[d][b]
  <2>1. /\ \A k \in Keys : rows[k].seq \in Nat /\ AppOf[k] \in Apps
        /\ \A b \in Apps : cursor[d][b] \in Nat /\ cursor'[d][b] \in Nat
    BY AppOfType DEF IInv, TypeOK, Row
  <2>2. cursor[d][a] <= cursor'[d][a]
    BY <1>1, <1>2 DEF PageFits
  <2> QED
    BY <1>2, <2>1, <2>2
<1>4. S \in SUBSET Owed[d] /\ Owed[d] \subseteq Keys
  BY DEF Owed
<1>5. Owed' = [Owed EXCEPT ![d] = @ \ S]
  <2>1. \A o \in Devices \ {d} : Owed'[o] = Owed[o]
    BY <1>1, <1>2 DEF Owed
  <2>2. Owed'[d] = Owed[d] \ S
    BY <1>1, <1>3 DEF Owed
  <2> QED
    BY <2>1, <2>2 DEF Owed
<1>6. \A k \in S : replica'[d][k] = rows[k]
  BY <1>1, <1>4 DEF IInv, CursorCovers
<1>7. ASSUME NEW k \in Keys \ Owed[d] PROVE replica'[d][k] = replica[d][k]
  <2>1. rows[k].seq <= cursor[d][AppOf[k]]
    BY <1>3 DEF Owed
  <2>2. page[d].rows[k] = Absent
    <3>1. page[d].rows[k].seq \in Nat /\ cursor[d][a] \in Nat
      BY <1>1 DEF IInv, TypeOK, Page, Row
    <3> QED
      BY <1>1, <1>3, <2>1, <3>1 DEF PageFits
  <2> QED
    BY <1>2, <2>2
<1> QED
  BY <1>1, <1>2, <1>4, <1>5, <1>6, <1>7 DEF Feed!Serve

(* Every behaviour of the sync endpoints and the devices that drain them   *)
(* is a behaviour of the feed.                                             *)
THEOREM ImplementsFeedHolds == Spec => ImplementsFeed
<1>1. Init => Feed!FeedInit
  <2> SUFFICES ASSUME Init PROVE Feed!FeedInit
    OBVIOUS
  <2>1. \A d \in Devices : {k \in Keys : rows[k].seq > cursor[d][AppOf[k]]} = {}
    BY AppOfType DEF Init, Absent
  <2> QED
    BY <2>1 DEF Init, Owed, Feed!FeedInit
<1>2. IInv /\ IInv' /\ [Next]_vars => [Feed!FeedNext]_(Feed!feedVars)
  <2> SUFFICES ASSUME IInv, IInv', [Next]_vars
               PROVE  Feed!FeedNext \/ UNCHANGED <<rows, replica, Owed>>
    BY DEF Feed!feedVars
  <2>1. CASE Write
    BY <2>1, WriteSteps, WritePublishes DEF Feed!FeedNext, IInv
  <2>2. ASSUME NEW d \in Devices, ApplyPage(d) PROVE Feed!FeedNext
    BY <2>2, ApplyServes DEF Feed!FeedNext
  <2>3. ASSUME NEW d \in Devices, Drain(d), ~ApplyPage(d)
        PROVE  UNCHANGED <<rows, replica, Owed>>
    BY <2>3 DEF Drain, Poll, List, AbandonDrain, UpdateDeviceCursor, serverVars,
                deviceVars, Owed
  <2>4. CASE UNCHANGED vars
    BY <2>4 DEF vars, Owed
  <2> QED
    BY <2>1, <2>2, <2>3, <2>4 DEF Next
<1> QED
  BY <1>1, <1>2, Invariance, PTL DEF Spec, ImplementsFeed, Feed!FeedSpec
=============================================================================
