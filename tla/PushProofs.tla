----------------------------- MODULE PushProofs -----------------------------
(***************************************************************************)
(* Theorems about Push, for any number of devices, connections and writes. *)
(*                                                                         *)
(* Told is kept because no two devices listen on one connection, so that   *)
(* nobody else takes a device's frames, and because a device never has     *)
(* more than the account, so that a `ready` frame it may ignore is one     *)
(* that tells it nothing.                                                  *)
(***************************************************************************)
EXTENDS Push, TLAPS

OwnStream ==
    \A d, e \in Devices : live[d] = live[e] /\ live[d] # None => d = e

NotAhead == \A d \in Devices : have[d] <= content

IInv == TypeOK /\ OwnStream /\ NotAhead /\ Told

-----------------------------------------------------------------------------
LEMMA InitHolds == Init => IInv
<1> SUFFICES ASSUME Init PROVE IInv OBVIOUS
<1>1. TypeOK
    BY PlacesNat DEF Init, TypeOK, StreamStates
<1>2. OwnStream /\ NotAhead /\ Told
    BY DEF Init, OwnStream, NotAhead, Told
<1> QED BY <1>1, <1>2 DEF IInv

\* A nudge, sent or not, keeps the types and takes no frame from a stream that
\* is open, opens none, and puts what it says on all of them.
LEMMA NudgeKeeps ==
    ASSUME TypeOK, NEW c \in 0..MaxContent, NEW emits \in BOOLEAN, Nudge(emits, c)
    PROVE  /\ stream' \in [Streams -> StreamStates] /\ pipe' \in [Streams -> SUBSET Frame]
           /\ \A s \in Streams : stream'[s] = "open" =>
                  /\ stream[s] = "open" /\ pipe[s] \subseteq pipe'[s]
                  /\ emits => \E frame \in pipe'[s] : frame.content = c
<1>1. CASE emits
    <2> DEFINE f == [event |-> "activity", content |-> c]
    <2>1. f \in Frame /\ f.content = c
        BY DEF Frame
    <2>2. /\ stream' = stream
          /\ pipe' = [s \in Streams |-> IF stream[s] = "open" THEN pipe[s] \cup {f} ELSE pipe[s]]
        BY <1>1 DEF Nudge, Publish
    <2> HIDE DEF f
    <2> QED BY <2>1, <2>2 DEF TypeOK, StreamStates
<1>2. CASE ~emits
    BY <1>2 DEF Nudge, hubVars, TypeOK
<1> QED BY <1>1, <1>2

\* A change of content, announced or not.
LEMMA CommitKeeps ==
    ASSUME IInv, Commit(TRUE)
    PROVE  IInv'
<1> USE DEF IInv
<1>1. content' = content + 1 /\ content' \in 0..MaxContent /\ UNCHANGED <<live, have, due, chores>>
    BY PlacesNat DEF Commit, deviceVars, TypeOK
<1>2. NotAhead' /\ OwnStream'
    BY <1>1 DEF NotAhead, OwnStream, TypeOK
<1>3. CASE Nudge(TRUE, content')
    <2>1. /\ stream' \in [Streams -> StreamStates] /\ pipe' \in [Streams -> SUBSET Frame]
          /\ \A s \in Streams : stream'[s] = "open" => \E frame \in pipe'[s] : frame.content = content'
        BY <1>1, <1>3, NudgeKeeps
    <2>2. TypeOK'
        BY <1>1, <2>1 DEF TypeOK
    <2>3. Told'
        BY <1>1, <2>1 DEF Told, TypeOK
    <2> QED BY <1>2, <2>2, <2>3
<1>4. CASE Die
    <2>1. TypeOK'
        BY <1>1, <1>4 DEF TypeOK, Die, StreamStates
    <2>2. Told'
        BY <1>1, <1>4 DEF Told, Die, TypeOK
    <2> QED BY <1>2, <2>1, <2>2
<1> QED BY <1>3, <1>4 DEF Commit

LEMMA StepKeeps ==
    ASSUME IInv, [Next]_vars
    PROVE  IInv'
<1> USE DEF IInv
<1>1. CASE UNCHANGED vars
    BY <1>1 DEF vars, hubVars, deviceVars, TypeOK, OwnStream, NotAhead, Told
<1>2. CASE Write
    BY <1>2, CommitKeeps
    DEF Write, WriteRows, InsertIntents, DeleteRow, BatchEmits, IntentsEmit, DeleteEmits
<1>3. ASSUME NEW d \in Devices, Connect(d) PROVE IInv'
    <2> DEFINE f == [event |-> "ready", content |-> content]
    <2>1. PICK s \in Streams :
            /\ live[d] = None /\ \A e \in Devices : live[e] # s
            /\ stream' = [stream EXCEPT ![s] = "open"]
            /\ pipe' = [pipe EXCEPT ![s] = {f}]
            /\ live' = [live EXCEPT ![d] = s]
            /\ UNCHANGED <<content, have, due, chores>>
        BY <1>3 DEF Connect, ReadyContent, deviceVars
    <2>2. f \in Frame /\ f.content = content
        BY DEF Frame, TypeOK
    <2> HIDE DEF f
    <2>3. TypeOK'
        BY <2>1, <2>2 DEF TypeOK, StreamStates
    <2>4. OwnStream' /\ NotAhead'
        BY <2>1, NoneIsNothing DEF TypeOK, OwnStream, NotAhead
    <2>5. Told'
        BY <2>1, <2>2 DEF TypeOK, Told
    <2> QED BY <2>3, <2>4, <2>5
<1>4. ASSUME NEW d \in Devices, ConnectThrows(d) PROVE IInv'
    <2>1. PICK s \in Streams :
            /\ stream' = [stream EXCEPT ![s] = "lost"]
            /\ UNCHANGED <<content, pipe, live, have, due, chores>>
        BY <1>4 DEF ConnectThrows, deviceVars
    <2>2. TypeOK'
        BY <2>1 DEF TypeOK, StreamStates
    <2>3. OwnStream' /\ NotAhead' /\ Told'
        BY <2>1 DEF TypeOK, OwnStream, NotAhead, Told
    <2> QED BY <2>2, <2>3
<1>5. ASSUME NEW d \in Devices, Notice(d) PROVE IInv'
    BY <1>5 DEF Notice, hubVars, deviceVars, TypeOK, OwnStream, NotAhead, Told
<1>6. ASSUME NEW d \in Devices, Receive(d) PROVE IInv'
    <2>1. PICK frame \in pipe[live[d]], drains \in BOOLEAN :
            /\ frame.event = "activity" \/ frame.content > have[d] => drains
            /\ pipe' = [pipe EXCEPT ![live[d]] = @ \ {frame}]
            /\ due' = [due EXCEPT ![d] = @ \/ drains]
        BY <1>6 DEF Receive
    <2>2. live[d] \in Streams /\ live[d] # None /\ UNCHANGED <<content, stream, live, have, chores>>
        BY <1>6 DEF Receive, TypeOK
    <2>3. due' \in [Devices -> BOOLEAN] /\ (due'[d] <=> due[d] \/ drains)
          /\ \A e \in Devices \ {d} : due'[e] = due[e]
        BY <2>1, Zenon DEF TypeOK
    <2>4. pipe' \in [Streams -> SUBSET Frame] /\ pipe'[live[d]] = pipe[live[d]] \ {frame}
          /\ \A s \in Streams \ {live[d]} : pipe'[s] = pipe[s]
        BY <2>1, <2>2 DEF TypeOK
    <2>5. TypeOK'
        BY <2>2, <2>3, <2>4 DEF TypeOK
    <2>6. OwnStream' /\ NotAhead'
        BY <2>2 DEF OwnStream, NotAhead
    <2>7. ASSUME NEW e \in Devices \ {d}, live'[e] # None, stream'[live'[e]] = "open"
          PROVE  have'[e] = content' \/ due'[e] \/ \E g \in pipe'[live'[e]] : g.content = content'
        <3>1. live[e] \in Streams \ {live[d]}
            BY <2>2, <2>7 DEF OwnStream, TypeOK
        <3> QED BY <2>2, <2>3, <2>4, <2>7, <3>1 DEF Told
    <2>8. ASSUME stream'[live'[d]] = "open"
          PROVE  have'[d] = content' \/ due'[d] \/ \E g \in pipe'[live'[d]] : g.content = content'
        <3>1. frame \in Frame
            BY <2>1, <2>2 DEF TypeOK
        <3>2. CASE frame.content = content
            <4>1. frame.content > have[d] \/ have[d] = content
                BY <3>2 DEF NotAhead, TypeOK
            <4>2. drains \/ have[d] = content
                BY <2>1, <4>1
            <4> QED BY <2>2, <2>3, <4>2
        <3>3. CASE frame.content # content
            BY <2>2, <2>3, <2>4, <2>8, <3>3 DEF Told
        <3> QED BY <3>2, <3>3
    <2>9. Told'
        BY <2>7, <2>8 DEF Told
    <2> QED BY <2>5, <2>6, <2>9
<1>7. ASSUME NEW d \in Devices, Drain(d) PROVE IInv'
    <2>1. /\ due' = [due EXCEPT ![d] = FALSE] /\ have' = [have EXCEPT ![d] = content]
          /\ chores' = [chores EXCEPT ![d] = TRUE]
          /\ UNCHANGED <<content, stream, pipe, live>>
        BY <1>7 DEF Drain, hubVars
    <2>2. TypeOK'
        BY <2>1 DEF TypeOK
    <2>3. OwnStream' /\ NotAhead' /\ Told'
        BY <2>1 DEF TypeOK, OwnStream, NotAhead, Told
    <2> QED BY <2>2, <2>3
<1>8. ASSUME NEW d \in Devices, Housekeep(d) PROVE IInv'
    <2>1. PICK emits \in BOOLEAN : Nudge(emits, content)
        BY <1>8 DEF Housekeep, ReportCursor, Bookkeep, EnsureRows, ResendIntents, DeleteAgain,
                    ReportEmits, BatchEmits, IntentsEmit, DeleteEmits
    <2>2. content \in 0..MaxContent
        BY DEF TypeOK
    <2>3. /\ stream' \in [Streams -> StreamStates] /\ pipe' \in [Streams -> SUBSET Frame]
          /\ \A s \in Streams : stream'[s] = "open" => stream[s] = "open" /\ pipe[s] \subseteq pipe'[s]
        BY <2>1, <2>2, NudgeKeeps
    <2>4. chores' = [chores EXCEPT ![d] = FALSE] /\ UNCHANGED <<content, live, have, due>>
        BY <1>8 DEF Housekeep
    <2>5. TypeOK'
        BY <2>3, <2>4 DEF TypeOK
    <2>6. OwnStream' /\ NotAhead'
        BY <2>4 DEF OwnStream, NotAhead
    <2>7. Told'
        BY <2>3, <2>4 DEF Told, TypeOK
    <2> QED BY <2>5, <2>6, <2>7
<1>9. ASSUME NEW s \in Streams, Cut(s) \/ CloseEvent(s) PROVE IInv'
    <2>1. /\ \A t \in Streams : stream'[t] = "open" => stream[t] = "open" /\ pipe'[t] = pipe[t]
          /\ UNCHANGED <<content, live, have, due, chores>>
        BY <1>9 DEF Cut, CloseEvent, Cleanup, deviceVars, TypeOK
    <2>2. TypeOK'
        BY <1>9 DEF Cut, CloseEvent, Cleanup, deviceVars, TypeOK, StreamStates
    <2>3. OwnStream' /\ NotAhead' /\ Told'
        BY <2>1 DEF TypeOK, OwnStream, NotAhead, Told
    <2> QED BY <2>2, <2>3
<1>10. CASE Crash
    <2>1. (\A t \in Streams : stream'[t] = "free") /\ UNCHANGED <<content, live, have, due, chores>>
        BY <1>10 DEF Crash, Die, deviceVars
    <2>2. TypeOK'
        BY <1>10 DEF Crash, Die, deviceVars, TypeOK, StreamStates
    <2>3. OwnStream' /\ NotAhead' /\ Told'
        BY <2>1 DEF TypeOK, OwnStream, NotAhead, Told
    <2> QED BY <2>2, <2>3
<1> QED
    BY <1>1, <1>2, <1>3, <1>4, <1>5, <1>6, <1>7, <1>8, <1>9, <1>10 DEF Next

LEMMA Invariance == Spec => []IInv
<1> QED BY InitHolds, StepKeeps, PTL DEF Spec

\* The variables keep their types: no frame announces content there is not.
THEOREM TypeCorrect == Spec => []TypeOK
<1>1. IInv => TypeOK BY DEF IInv
<1> QED BY <1>1, Invariance, PTL

\* No connected device misses a change of content without being owed a drain or a
\* frame, for any number of devices and connections, whatever breaks.
THEOREM ToldHolds == Spec => []Told
<1>1. IInv => Told BY DEF IInv
<1> QED BY <1>1, Invariance, PTL
=============================================================================
