------------------------------ MODULE Intents ------------------------------
(***************************************************************************)
(* The intents of one account: the intent_events table with its            *)
(* expirations, the batch endpoint with its volume cap, the list endpoint, *)
(* and the clients on both ends.  A sender keeps an event in its outbox    *)
(* until a post of it is answered, and posts it again when the answer was  *)
(* lost; old posts can also arrive again.  A receiver pulls pages.         *)
(*                                                                         *)
(* The clients are not in the repository: they follow sections 7.5 and 7.6 *)
(* of its specification.  The envelope and the time an event expires are   *)
(* fixed when the event is emitted.                                        *)
(***************************************************************************)
EXTENDS Integers, FiniteSets

CONSTANTS
    Events,     \* event ids
    Receivers,
    Cap,        \* quota on events that are not expired
    PageLimit,  \* events per page
    MaxNow,     \* BOUND: the last instant of the clock
    MaxSeq      \* BOUND: highest sequence number handed out

ASSUME EventsFinite == IsFiniteSet(Events)
ASSUME LimitsNat == Cap \in Nat /\ PageLimit \in Nat \ {0}
ASSUME BoundsNat == MaxNow \in Nat \ {0} /\ MaxSeq \in Nat

VARIABLES
    now,        \* the server's clock
    expiresAt,  \* expiresAt[e]: when e expires, 0 before it is emitted
    outbox,     \* the events whose sender has no answer yet
    accountSeq, \* the account's counter
    stored,     \* stored[e]: the seq of e's row, 0 if it has none
    numbered,   \* numbered[e]: how many numbers e was given (history)
    cursor,     \* cursor[r]: the `since` of r's next list
    page,       \* the answer on its way to r, NoPage if there is none
    received    \* received[r][e]: how often r got e

clientVars == <<cursor, page, received>>
vars == <<now, expiresAt, outbox, accountSeq, stored, numbered,
          cursor, page, received>>

-----------------------------------------------------------------------------
Page == [events : SUBSET Events, last : Nat]
NoPage == [events |-> {}, last |-> 0]

TypeOK ==
    /\ now \in 0..MaxNow
    /\ expiresAt \in [Events -> 0..MaxNow]
    /\ outbox \in SUBSET {e \in Events : expiresAt[e] # 0}
    /\ accountSeq \in 0..MaxSeq
    /\ stored \in [Events -> 0..accountSeq]
    /\ numbered \in [Events -> Nat]
    /\ cursor \in [Receivers -> 0..accountSeq]
    /\ page \in [Receivers -> Page]
    /\ received \in [Receivers -> [Events -> Nat]]

Init ==
    /\ now = 0
    /\ expiresAt = [e \in Events |-> 0]
    /\ outbox = {}
    /\ accountSeq = 0
    /\ stored = [e \in Events |-> 0]
    /\ numbered = [e \in Events |-> 0]
    /\ cursor = [r \in Receivers |-> 0]
    /\ page = [r \in Receivers |-> NoPage]
    /\ received = [r \in Receivers |-> [e \in Events |-> 0]]

Stored == {e \in Events : stored[e] # 0}
Live == {e \in Stored : expiresAt[e] > now}

-----------------------------------------------------------------------------
(* The batch endpoint.  Only which events it has and in which order they   *)
(* are inserted matter, so a batch is a set.                               *)

(* Insert-only: an event that has a row is skipped. *)
NewAll(B) == B
New(B) == B \ Stored

(* What the volume cap counts as used. *)
CountedStored == Cardinality(Stored)
Counted == Cardinality(Live)

AdmitsAnyNewcomers(B) == New(B) = {} \/ Counted < Cap
(* The cap, on the events of the batch that have no row. *)
Admits(B) == New(B) = {} \/ Counted + Cardinality(New(B)) <= Cap

(* One transaction: each new event gets the next number, in the order of   *)
(* the batch, and then the expired events of the account are pruned.       *)
InsertIntents(B) ==
    \E seqOf \in [New(B) -> (accountSeq + 1)..(accountSeq + Cardinality(New(B)))] :
        /\ \A e, f \in New(B) : seqOf[e] = seqOf[f] => e = f
        /\ accountSeq' = accountSeq + Cardinality(New(B))
        /\ numbered' = [e \in Events |-> numbered[e] + (IF e \in New(B) THEN 1 ELSE 0)]
        /\ stored' = [e \in Events |->
               IF expiresAt[e] <= now THEN 0
               ELSE IF e \in New(B) THEN seqOf[e] ELSE stored[e]]

(* BOUND: the numbers used leave one for each event still to be answered. *)
WithinBound == accountSeq' + Cardinality(outbox') <= MaxSeq

(* POST /intents/batch, for the first time or again.  A rejected batch     *)
(* changes nothing and stays in the outbox.                                *)
Post(B) ==
    /\ Admits(B)
    /\ InsertIntents(B)
    /\ UNCHANGED <<now, expiresAt, clientVars>>

PostAnswered(B) == Post(B) /\ outbox' = outbox \ B /\ WithinBound
PostUnanswered(B) == Post(B) /\ UNCHANGED outbox /\ WithinBound

(* A sync write or a release of a blob takes a number of the account. *)
TakeSeqElsewhere ==
    /\ accountSeq' = accountSeq + 1
    /\ UNCHANGED <<now, expiresAt, outbox, stored, numbered, clientVars>>
    /\ WithinBound

-----------------------------------------------------------------------------
(* The list endpoint *)

NewerOrExpired(since) == {e \in Stored : stored[e] > since}
Newer(since) == {e \in Live : stored[e] > since}
Latest(E) == {e \in E : Cardinality({f \in E : stored[f] > stored[e]}) < PageLimit}
(* The first PageLimit events of a set in the order of their numbers. *)
First(E) == {e \in E : Cardinality({f \in E : stored[f] < stored[e]}) < PageLimit}

(* GET /intents/list answers receiver r. *)
List(r) ==
    /\ page[r] = NoPage
    /\ \E e \in First(Newer(cursor[r])) :
          /\ \A f \in First(Newer(cursor[r])) : stored[f] <= stored[e]
          /\ page' = [page EXCEPT ![r] =
                 [events |-> First(Newer(cursor[r])), last |-> stored[e]]]
    /\ UNCHANGED <<now, expiresAt, outbox, accountSeq, stored, numbered, cursor, received>>

(* The page arrives: its events are handled and the cursor follows. *)
Receive(r) ==
    /\ page[r] # NoPage
    /\ received' = [received EXCEPT ![r] =
           [e \in Events |-> @[e] + (IF e \in page[r].events THEN 1 ELSE 0)]]
    /\ cursor' = [cursor EXCEPT ![r] = page[r].last]
    /\ page' = [page EXCEPT ![r] = NoPage]
    /\ UNCHANGED <<now, expiresAt, outbox, accountSeq, stored, numbered>>

(* The page is lost. *)
LosePage(r) ==
    /\ page[r] # NoPage
    /\ page' = [page EXCEPT ![r] = NoPage]
    /\ UNCHANGED <<now, expiresAt, outbox, accountSeq, stored, numbered, cursor, received>>

-----------------------------------------------------------------------------
(* A sender emits an event into its outbox.  Its clock may be off, so the  *)
(* event may be expired before it is sent.                                 *)
Emit(e, t) ==
    /\ expiresAt[e] = 0
    /\ expiresAt' = [expiresAt EXCEPT ![e] = t]
    /\ outbox' = outbox \cup {e}
    /\ UNCHANGED <<now, accountSeq, stored, numbered, clientVars>>
    /\ WithinBound

Tick ==
    /\ now < MaxNow
    /\ now' = now + 1
    /\ UNCHANGED <<expiresAt, outbox, accountSeq, stored, numbered, clientVars>>

Emitted == {e \in Events : expiresAt[e] # 0}

Next ==
    \/ \E e \in Events, t \in 1..MaxNow : Emit(e, t)
    \/ \E B \in (SUBSET Emitted) \ {{}} : PostAnswered(B) \/ PostUnanswered(B)
    \/ TakeSeqElsewhere
    \/ \E r \in Receivers : List(r) \/ Receive(r) \/ LosePage(r)
    \/ Tick

Spec == Init /\ [][Next]_vars

(* Time passes, and a sender that keeps trying to post an event the cap    *)
(* lets through gets an answer once.                                       *)
FlushOf(e) == e \in outbox /\ PostAnswered({e})
FairSpec == Spec /\ WF_vars(Tick) /\ \A e \in Events : SF_vars(FlushOf(e))

-----------------------------------------------------------------------------
(* A receiver gets an event at most once, however often and however late   *)
(* it is posted, pruned and posted again: insert-only does not survive the *)
(* prune, but the prune and the filter of the list see the same time.      *)
DeliveredOnce == \A r \in Receivers, e \in Events : received[r][e] <= 1

(* A receiver's cursor passes no event that is not expired without the     *)
(* receiver getting it: the events of other numbers, those that expired    *)
(* and those that were pruned between two pages take nothing with them.    *)
NoneMissed ==
    \A r \in Receivers : \A e \in Live : stored[e] <= cursor[r] => received[r][e] > 0

(* The events that are not expired stay within the cap, re-sent ones and   *)
(* ones that are stored but expired discounted.                            *)
VolumeWithinCap == Cardinality({e \in Stored : expiresAt[e] > now}) <= Cap

(* The volume cap heals itself: every event a sender keeps trying to post  *)
(* leaves its outbox, though pruning happens on an admitted write only.    *)
OutboxDrains == \A e \in Events : e \in outbox ~> e \notin outbox

(* "A re-sent event_id is a strict no-op and consumes no seq": an event is *)
(* numbered again only after it expired, when the prune may have taken the *)
(* row that would have told, and then it is delivered to nobody.           *)
ResendOfLiveTakesNoSeq ==
    [][\A e \in Events :
          numbered'[e] # numbered[e] => numbered[e] = 0 \/ expiresAt[e] <= now]_vars

(***************************************************************************)
(* The rows, cursors and pages implement the mailbox: a receiver is due    *)
(* what a list would still give it and what is on its way to it.           *)
(***************************************************************************)
Due ==
    [r \in Receivers |-> {e \in Live : stored[e] > cursor[r]} \cup page[r].events]

Promise == INSTANCE Mailbox WITH
    accepted <- {e \in Events : numbered[e] > 0},
    expired <- {e \in Events : expiresAt[e] # 0 /\ expiresAt[e] <= now},
    due <- Due,
    got <- received

(* Posts that are repeated, prunes, lost pages and foreign numbers in      *)
(* between come down to one acceptance, one delivery each, and expiry.     *)
ImplementsMailbox == Promise!MailSpec
=============================================================================
