---------------------------- MODULE ReplicaFeed ----------------------------
(***************************************************************************)
(* What the sync endpoints promise to the devices of one account, with no  *)
(* sequence numbers, transactions or pages in it.                          *)
(*                                                                         *)
(* The server keeps one current version per key.  For each device it owes  *)
(* a set of keys: those whose current version the device may not hold yet. *)
(* Publishing a key makes every device be owed it; serving a device takes  *)
(* keys off what it is owed, and a key comes off only with its current     *)
(* version.  While a key is owed the device's copy of it may be anything   *)
(* older; once it is not owed the copy is current.                         *)
(***************************************************************************)
EXTENDS TLAPS

CONSTANTS
    Keys,       \* everything that can be synced
    Devices,    \* the devices that pull
    Empty       \* the version of a key nobody has published

VARIABLES
    store,      \* store[k]: the current version of k
    view,       \* view[d][k]: the copy of k that d holds
    owed        \* owed[d]: the keys d may hold an out-of-date copy of

feedVars == <<store, view, owed>>

FeedInit ==
    /\ store = [k \in Keys |-> Empty]
    /\ view = [d \in Devices |-> [k \in Keys |-> Empty]]
    /\ owed = [d \in Devices |-> {}]

(* New versions of some keys become current, all at once, and every device *)
(* is owed each of them.                                                   *)
Publish ==
    \E S \in SUBSET Keys :
        /\ \A k \in Keys \ S : store'[k] = store[k]
        /\ owed' = [d \in Devices |-> owed[d] \cup S]
        /\ UNCHANGED view

(* A device is brought up to date on some of what it is owed, perhaps on   *)
(* none of it: copies of keys that stay owed may change too.               *)
Serve(d) ==
    \E S \in SUBSET owed[d] :
        /\ owed' = [owed EXCEPT ![d] = @ \ S]
        /\ \A k \in S : view'[d][k] = store[k]
        /\ \A k \in Keys \ owed[d] : view'[d][k] = view[d][k]
        /\ \A o \in Devices \ {d} : view'[o] = view[o]
        /\ UNCHANGED store

FeedNext == Publish \/ \E d \in Devices : Serve(d)

FeedSpec == FeedInit /\ [][FeedNext]_feedVars

(* The promise: a device that is not owed a key holds its current version. *)
HeldUnlessOwed ==
    \A d \in Devices : \A k \in Keys \ owed[d] : view[d][k] = store[k]

(* The feed keeps its promise, for any keys and devices.                   *)
THEOREM PromiseKept == FeedSpec => []HeldUnlessOwed
<1> DEFINE Kept == /\ HeldUnlessOwed
                   /\ owed = [d \in Devices |-> owed[d]]
<1>1. FeedInit => Kept
  BY DEF FeedInit, HeldUnlessOwed
<1>2. Kept /\ [FeedNext]_feedVars => Kept'
  <2> SUFFICES ASSUME Kept, [FeedNext]_feedVars PROVE Kept'
    OBVIOUS
  <2>1. CASE Publish
    BY <2>1 DEF Publish, HeldUnlessOwed
  <2>2. ASSUME NEW d \in Devices, Serve(d) PROVE Kept'
    <3>1. PICK S \in SUBSET owed[d] :
            /\ owed' = [owed EXCEPT ![d] = @ \ S]
            /\ \A k \in S : view'[d][k] = store[k]
            /\ \A k \in Keys \ owed[d] : view'[d][k] = view[d][k]
            /\ \A o \in Devices \ {d} : view'[o] = view[o]
            /\ UNCHANGED store
      BY <2>2 DEF Serve
    <3>2. owed'[d] = owed[d] \ S /\ \A o \in Devices \ {d} : owed'[o] = owed[o]
      BY <3>1
    <3>3. HeldUnlessOwed'
      BY <3>1, <3>2 DEF HeldUnlessOwed
    <3>4. (owed = [o \in Devices |-> owed[o]])'
      BY <3>1
    <3> QED
      BY <3>3, <3>4
  <2>3. CASE UNCHANGED feedVars
    BY <2>3 DEF feedVars, HeldUnlessOwed
  <2> QED
    BY <2>1, <2>2, <2>3 DEF FeedNext
<1> QED
  BY <1>1, <1>2, PTL DEF FeedSpec
=============================================================================
