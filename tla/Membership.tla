----------------------------- MODULE Membership -----------------------------
(***************************************************************************)
(* What enrollment, revocation and push promise to the devices of the      *)
(* accounts, with no keys, rotations, heartbeats, close events or restarts *)
(* in it.                                                                  *)
(*                                                                         *)
(* A device of an account is a member with one credential, or none.  It    *)
(* joins with a credential nobody had before, which takes the place of the *)
(* one it had.  Only members start to listen, and those that are put out   *)
(* stop listening at that moment.                                          *)
(***************************************************************************)
EXTENDS Integers

CONSTANTS
    Accounts,
    Devices,
    Credentials,
    Streams,
    None

VARIABLES
    issued,     \* the credentials issued so far
    member,     \* member[a][d]: the credential d is a member of a with, or None
    listening   \* listening[s]: the credential stream s listens with, or None

memberVars == <<issued, member, listening>>

MemberInit ==
    /\ issued = {}
    /\ member = [a \in Accounts |-> [d \in Devices |-> None]]
    /\ listening = [s \in Streams |-> None]

Join(a, d) ==
    \E c \in Credentials \ issued :
        /\ issued' = issued \cup {c}
        /\ member' = [member EXCEPT ![a][d] = c]
        /\ UNCHANGED listening

PutOut(a) ==
    \E D \in SUBSET Devices :
        /\ member' = [member EXCEPT ![a] =
               [d \in Devices |-> IF d \in D THEN None ELSE member[a][d]]]
        /\ listening' = [s \in Streams |->
               IF listening[s] \in {member[a][d] : d \in D} THEN None ELSE listening[s]]
        /\ UNCHANGED issued

Listen(s) ==
    \E a \in Accounts, d \in Devices :
        /\ listening[s] = None /\ member[a][d] # None
        /\ listening' = [listening EXCEPT ![s] = member[a][d]]
        /\ UNCHANGED <<issued, member>>

(* A stream may end at any time, one whose device joined again included. *)
Stop(S) ==
    /\ listening' = [s \in Streams |-> IF s \in S THEN None ELSE listening[s]]
    /\ UNCHANGED <<issued, member>>

MemberNext ==
    \/ \E a \in Accounts, d \in Devices : Join(a, d)
    \/ \E a \in Accounts : PutOut(a)
    \/ \E s \in Streams : Listen(s)
    \/ \E S \in SUBSET Streams : Stop(S)

MemberSpec == MemberInit /\ [][MemberNext]_memberVars

(* The promise: no two devices are members with one credential, of one     *)
(* account or of two, and nobody listens without one that was issued.      *)
OneDevicePerCredential ==
    /\ \A a, b \in Accounts, d, e \in Devices :
           member[a][d] # None /\ member[a][d] = member[b][e] => a = b /\ d = e
    /\ \A s \in Streams : listening[s] \in issued \cup {None}
=============================================================================
