-------------------------------- MODULE Push --------------------------------
(***************************************************************************)
(* Real-time push for one account: the write endpoints that nudge, the hub *)
(* that fans a nudge out, the event streams with their `ready` frame, and  *)
(* the devices that drain when they are told to and then write again.      *)
(*                                                                         *)
(* What the account holds is `content`, the number of changes another      *)
(* device has to fetch.  Bookkeeping writes take a sequence number but     *)
(* change no content, so the frames of the model carry content instead of  *)
(* the number.  A handler commits, nudges and answers in one turn of the   *)
(* event loop; the process may die between the commit and the nudge.       *)
(***************************************************************************)
EXTENDS Integers, FiniteSets

CONSTANTS
    Devices,
    Streams,        \* connections the server can tell apart
    MaxPerAccount,  \* streams the hub admits
    MaxContent,     \* BOUND: content changes
    None            \* no stream

ASSUME PlacesNat == MaxPerAccount \in Nat /\ MaxContent \in Nat
ASSUME NoneIsNothing == None \notin Streams

VARIABLES
    content,    \* content changes committed
    stream,     \* stream[s]: what the server has for connection s
    pipe,       \* pipe[s]: the frames on their way to the client of s
    live,       \* live[d]: the stream d listens on
    have,       \* have[d]: the content d has drained
    due,        \* due[d]: has d been told to drain?
    chores      \* chores[d]: has d drained and not yet written after it?

hubVars == <<stream, pipe>>
deviceVars == <<have, due, chores>>
vars == <<content, hubVars, live, deviceVars>>

-----------------------------------------------------------------------------
(* A stream is free, open, cut (the connection is gone and the server has  *)
(* not noticed) or lost (the connection is gone and nothing will notice).  *)
(* All but the free ones are on the hub and take a place.                  *)
StreamStates == {"free", "open", "cut", "lost"}
Frame == [event : {"ready", "activity"}, content : 0..MaxContent]

TypeOK ==
    /\ content \in 0..MaxContent
    /\ stream \in [Streams -> StreamStates]
    /\ pipe \in [Streams -> SUBSET Frame]
    /\ live \in [Devices -> Streams \cup {None}]
    /\ have \in [Devices -> 0..MaxContent]
    /\ due \in [Devices -> BOOLEAN]
    /\ chores \in [Devices -> BOOLEAN]

Init ==
    /\ content = 0
    /\ stream = [s \in Streams |-> "free"]
    /\ pipe = [s \in Streams |-> {}]
    /\ live = [d \in Devices |-> None]
    /\ have = [d \in Devices |-> 0]
    /\ due = [d \in Devices |-> FALSE]
    /\ chores = [d \in Devices |-> FALSE]

-----------------------------------------------------------------------------
(* The hub.                                                                *)

(* publish(): every subscriber gets the frame; what is written to a        *)
(* connection that is gone is lost.  The eviction of a subscriber whose    *)
(* delivery throws is never reached: deliver() throws only when the        *)
(* response has been ended, every res.end() comes after the subscription   *)
(* was removed, and a write to a destroyed response does not throw.        *)
Publish(frame) ==
    /\ pipe' = [s \in Streams |-> IF stream[s] = "open" THEN pipe[s] \cup {frame} ELSE pipe[s]]
    /\ UNCHANGED stream

Nudge(emits, c) ==
    IF emits THEN Publish([event |-> "activity", content |-> c]) ELSE UNCHANGED hubVars

(* The process dies: hub and streams are gone. *)
Die ==
    /\ stream' = [s \in Streams |-> "free"]
    /\ pipe' = [s \in Streams |-> {}]

-----------------------------------------------------------------------------
(* The write endpoints.                                                    *)

BatchEmitsAlways(notify, assigned) == assigned
BatchEmits(notify, assigned) == notify /\ assigned
IntentsEmit(assigned) == assigned
DeleteEmitsOnRepeat(alreadyDeleted) == alreadyDeleted
DeleteEmits(alreadyDeleted) == ~alreadyDeleted
ReportEmits == FALSE

(* A change of content is committed, and then announced unless the process *)
(* dies first.                                                             *)
Commit(emits) ==
    /\ content < MaxContent
    /\ content' = content + 1
    /\ Nudge(emits, content') \/ Die
    /\ UNCHANGED <<live, deviceVars>>

(* POST /:app/batch with rows that are written, `notify` left at its       *)
(* default.                                                                *)
WriteRows == Commit(BatchEmits(TRUE, TRUE))

(* POST /intents/batch with an event that was not there. *)
InsertIntents == Commit(IntentsEmit(TRUE))

(* DELETE /:app/:entityId of a row that is not deleted. *)
DeleteRow == Commit(DeleteEmits(FALSE))

-----------------------------------------------------------------------------
(* GET /events.                                                            *)

HasPlace == Cardinality({s \in Streams : stream[s] # "free"}) < MaxPerAccount

(* latestSeq() as `ready` reports it *)
ReadyContent == content

(* Subscribed, headers, `ready`, close handler: one turn. *)
Connect(d) ==
    \E s \in Streams :
        /\ live[d] = None
        /\ stream[s] = "free" /\ \A e \in Devices : live[e] # s
        /\ HasPlace
        /\ stream' = [stream EXCEPT ![s] = "open"]
        /\ pipe' = [pipe EXCEPT ![s] = {[event |-> "ready", content |-> ReadyContent]}]
        /\ live' = [live EXCEPT ![d] = s]
        /\ UNCHANGED <<content, deviceVars>>

(* latestSeq() throws: the stream is subscribed, its headers are sent, and *)
(* the error handler of the framework destroys the connection before there *)
(* is a close handler or a heartbeat.  The response is not ended, so the   *)
(* stream stays on the hub for as long as the process lives (or until its  *)
(* credential is revoked, which is in Accounts).                           *)
ConnectThrows(d) ==
    \E s \in Streams :
        /\ live[d] = None
        /\ stream[s] = "free" /\ \A e \in Devices : live[e] # s
        /\ HasPlace
        /\ stream' = [stream EXCEPT ![s] = "lost"]
        /\ UNCHANGED <<content, pipe, live, deviceVars>>

(* The connection breaks; what is on its way is lost. *)
Cut(s) ==
    /\ stream[s] = "open"
    /\ stream' = [stream EXCEPT ![s] = "cut"]
    /\ pipe' = [pipe EXCEPT ![s] = {}]
    /\ UNCHANGED <<content, live, deviceVars>>

CleanupHeartbeatOnly(s) == "cut"
(* cleanup(): the heartbeat stops and the subscription is removed. *)
Cleanup(s) == "free"

(* The close event of the response, or a heartbeat that cannot be written. *)
CloseEvent(s) ==
    /\ stream[s] = "cut"
    /\ stream' = [stream EXCEPT ![s] = Cleanup(s)]
    /\ UNCHANGED <<content, pipe, live, deviceVars>>

Crash == Die /\ UNCHANGED <<content, live, deviceVars>>

-----------------------------------------------------------------------------
(* The devices.                                                            *)

(* The client finds its connection closed. *)
Notice(d) ==
    /\ live[d] # None /\ stream[live[d]] # "open"
    /\ live' = [live EXCEPT ![d] = None]
    /\ UNCHANGED <<content, hubVars, deviceVars>>

(* A nudge makes a device drain; a `ready` frame does when it is ahead of  *)
(* the device, and also when only bookkeeping is.                          *)
Receive(d) ==
    /\ live[d] # None /\ stream[live[d]] = "open"
    /\ \E frame \in pipe[live[d]], drains \in BOOLEAN :
        /\ frame.event = "activity" \/ frame.content > have[d] => drains
        /\ pipe' = [pipe EXCEPT ![live[d]] = @ \ {frame}]
        /\ due' = [due EXCEPT ![d] = @ \/ drains]
    /\ UNCHANGED <<content, stream, live, have, chores>>

(* The drain of every app and of the intents. *)
Drain(d) ==
    /\ due[d] /\ ~chores[d]
    /\ due' = [due EXCEPT ![d] = FALSE]
    /\ have' = [have EXCEPT ![d] = content]
    /\ chores' = [chores EXCEPT ![d] = TRUE]
    /\ UNCHANGED <<content, hubVars, live>>

(* What devices write after a drain, and whether it nudges: the report of  *)
(* the cursor, a row of bookkeeping, a batch of insert-only rows that are  *)
(* there, intents sent again, and the deletion of a row that arrived       *)
(* deleted.                                                                *)
ReportCursor == Nudge(ReportEmits, content)
Bookkeep == Nudge(BatchEmits(FALSE, TRUE), content)
EnsureRows == Nudge(BatchEmits(TRUE, FALSE), content)
ResendIntents == Nudge(IntentsEmit(FALSE), content)
DeleteAgain(d) == have[d] > 0 /\ Nudge(DeleteEmits(TRUE), content)

Housekeep(d) ==
    /\ chores[d]
    /\ ReportCursor \/ Bookkeep \/ EnsureRows \/ ResendIntents \/ DeleteAgain(d)
    /\ chores' = [chores EXCEPT ![d] = FALSE]
    /\ UNCHANGED <<content, live, have, due>>

-----------------------------------------------------------------------------
Write == WriteRows \/ InsertIntents \/ DeleteRow

Next ==
    \/ Write
    \/ \E d \in Devices : \/ Connect(d) \/ ConnectThrows(d) \/ Notice(d)
                          \/ Receive(d) \/ Drain(d) \/ Housekeep(d)
    \/ \E s \in Streams : Cut(s) \/ CloseEvent(s)
    \/ Crash

Spec == Init /\ [][Next]_vars

(* Frames on a connection that holds arrive; a broken one is noticed at    *)
(* both ends, and the client tries again; a device does what it is due to  *)
(* do.  Nothing polls.                                                     *)
Fairness ==
    /\ \A s \in Streams : WF_vars(CloseEvent(s))
    /\ \A d \in Devices :
        /\ WF_vars(Notice(d)) /\ WF_vars(Connect(d))
        /\ WF_vars(Receive(d)) /\ WF_vars(Drain(d)) /\ WF_vars(Housekeep(d))

FairSpec == Spec /\ Fairness

-----------------------------------------------------------------------------
(* A device whose stream is open has the latest content, is about to drain *)
(* it, or has a frame on the way that says so: no write falls between the  *)
(* subscription and `ready`, goes past a stream that takes its place among *)
(* broken ones, or is committed unannounced by a process that goes on.     *)
Told ==
    \A d \in Devices :
        live[d] # None /\ stream[live[d]] = "open" =>
            \/ have[d] = content
            \/ due[d]
            \/ \E frame \in pipe[live[d]] : frame.content = content

Connected(d) == live[d] # None /\ stream[live[d]] = "open"

(* What keeps the system busy from outside: changes of content, and        *)
(* connections that break.                                                 *)
Disturb ==
    \/ Write \/ Crash
    \/ \E s \in Streams : Cut(s)
    \/ \E d \in Devices : ConnectThrows(d)

(* When that stops, the nudges stop: what devices write after a drain      *)
(* (reports, bookkeeping, insert-only rows, intents sent again, deletions  *)
(* of what is deleted) wakes nobody, "the SSE self-nudge loop".            *)
NudgesSettle ==
    <>[][~Disturb]_vars =>
        <>[](\A d \in Devices : /\ ~due[d] /\ ~chores[d]
                                /\ live[d] # None => pipe[live[d]] = {})

(* The places that streams whose set-up threw have taken for good. *)
Lost == {s \in Streams : stream[s] = "lost"}

(* And every device is connected and has all content, by push alone: the   *)
(* places of broken connections come free, and those that failed set-ups   *)
(* took do no harm as long as they leave one to each device.               *)
EveryoneCurrent ==
    (/\ <>[][~Disturb]_vars
     /\ <>[](Cardinality(Lost) + Cardinality(Devices) <= MaxPerAccount))
        => <>[](\A d \in Devices : Connected(d) /\ have[d] = content)
=============================================================================
