------------------------------ MODULE Mailbox ------------------------------
(***************************************************************************)
(* What the intents endpoints promise to the devices of one account, with  *)
(* no sequence numbers, cursors, pages, batches or prunes in it.           *)
(*                                                                         *)
(* An event is accepted once, for all receivers at once.  Each of them is  *)
(* due it until it is delivered to them.  An event whose time is over may  *)
(* be taken off what a receiver is due, and nothing else takes it off.     *)
(***************************************************************************)
EXTENDS Integers

CONSTANTS
    Events,
    Receivers

VARIABLES
    accepted,   \* the events accepted so far
    expired,    \* the events whose time is over
    due,        \* due[r]: what may still be delivered to r
    got         \* got[r][e]: how often e was delivered to r

mailVars == <<accepted, expired, due, got>>

MailInit ==
    /\ accepted = {}
    /\ expired = {}
    /\ due = [r \in Receivers |-> {}]
    /\ got = [r \in Receivers |-> [e \in Events |-> 0]]

(* Some events are accepted; those whose time is over reach nobody. *)
Accept ==
    \E S \in SUBSET (Events \ accepted) :
        /\ accepted' = accepted \cup S
        /\ due' = [r \in Receivers |-> due[r] \cup (S \ expired)]
        /\ UNCHANGED <<expired, got>>

(* Time passes: receivers are no longer due some of what expired. *)
Expire ==
    /\ expired \subseteq expired' /\ expired' \subseteq Events
    /\ \E late \in [Receivers -> SUBSET expired'] :
           due' = [r \in Receivers |-> due[r] \ late[r]]
    /\ UNCHANGED <<accepted, got>>

(* Some of what r is due is delivered to it. *)
Deliver(r) ==
    \E S \in SUBSET due[r] :
        /\ due' = [due EXCEPT ![r] = @ \ S]
        /\ got' = [got EXCEPT ![r] = [e \in Events |-> @[e] + (IF e \in S THEN 1 ELSE 0)]]
        /\ UNCHANGED <<accepted, expired>>

MailNext == Accept \/ Expire \/ \E r \in Receivers : Deliver(r)

MailSpec == MailInit /\ [][MailNext]_mailVars

(* The promise: every receiver gets an accepted event once, or is due it,  *)
(* or its time is over.                                                    *)
OnceUnlessExpired ==
    \A r \in Receivers, e \in Events :
        /\ got[r][e] \in {0, 1}
        /\ e \in accepted /\ got[r][e] = 0 => e \in due[r] \cup expired
=============================================================================
