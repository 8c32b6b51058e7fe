------------------------------ MODULE Accounts ------------------------------
(***************************************************************************)
(* Who may act on an account, in per-account mode with account keys: the   *)
(* account registry and its enrollment keys, the device credentials, the   *)
(* requests that were authenticated and are still being received, and the  *)
(* push streams with the hub they are registered in.                       *)
(*                                                                         *)
(* Authentication happens when a request's headers are there.  A request   *)
(* with a body is handled in a later turn of the event loop, when the body *)
(* is complete; one without (a connect) is handled in the same turn.       *)
(***************************************************************************)
EXTENDS Integers, FiniteSets

CONSTANTS
    AccountIds,
    DeviceIds,
    CredentialIds,  \* each minted once
    Streams,        \* connections to GET /events
    Requests,       \* requests with a body
    None,
    MaxAccounts,    \* GLANCEVAULT_MAX_ACCOUNTS
    MaxPerAccount,  \* the hub's cap on streams of one account
    MaxTotal,       \* the hub's cap on all streams
    MaxKeys         \* BOUND: account keys ever minted

ASSUME NoneUnused == None \notin CredentialIds
ASSUME StreamsFinite == IsFiniteSet(Streams)
ASSUME Caps == {MaxAccounts, MaxPerAccount, MaxTotal, MaxKeys} \subseteq Nat

VARIABLES
    minted,         \* account keys minted so far: keys are 1, 2, ...
    key,            \* key[a]: the key of account a, 0 if a is not registered
    contained,      \* contained[a]: the key of a's last rotation that also
                    \* signed its devices out (history)
    credentials,    \* credentials[c]: what c is bound to, None before it is minted
    state,          \* state[c]: active, or why it is no longer
    data,           \* data[a]: whether the database has rows of a
    requests,       \* requests[r]: the credential r was authenticated with
    streams,        \* streams[s]: the credential s was opened with
    open,           \* the streams whose response is not over
    wired,          \* the streams with a heartbeat and a close handler
    hub,            \* the streams registered in the hub
    total           \* the hub's own count of them

registryVars == <<minted, key, contained>>
credentialVars == <<credentials, state>>
streamVars == <<streams, open, wired, hub, total>>
vars == <<minted, key, contained, credentials, state, data, requests,
          streams, open, wired, hub, total>>

-----------------------------------------------------------------------------
Credential == [account : AccountIds, device : DeviceIds, key : 1..MaxKeys]

ASSUME NoneNoCredential == None \notin Credential

(* "revoked" stands for revoked by an administrator or gone with its       *)
(* account, "superseded" for revoked by a later enrollment of its device.  *)
(* The code only knows whether a credential is active.                     *)
States == {"unminted", "active", "revoked", "superseded"}

TypeOK ==
    /\ minted \in 0..MaxKeys
    /\ key \in [AccountIds -> 0..minted]
    /\ contained \in [AccountIds -> 0..minted]
    /\ credentials \in [CredentialIds -> Credential \cup {None}]
    /\ state \in [CredentialIds -> States]
    /\ data \in [AccountIds -> BOOLEAN]
    /\ requests \in [Requests -> CredentialIds \cup {None}]
    /\ streams \in [Streams -> CredentialIds \cup {None}]
    /\ open \in SUBSET Streams /\ wired \in SUBSET Streams /\ hub \in SUBSET Streams
    /\ total \in Nat
    /\ \A c \in CredentialIds : state[c] # "unminted" => credentials[c] # None
    /\ \A s \in open \cup wired \cup hub : streams[s] # None

Init ==
    /\ minted = 0
    /\ key = [a \in AccountIds |-> 0]
    /\ contained = [a \in AccountIds |-> 0]
    /\ credentials = [c \in CredentialIds |-> None]
    /\ state = [c \in CredentialIds |-> "unminted"]
    /\ data = [a \in AccountIds |-> FALSE]
    /\ requests = [r \in Requests |-> None]
    /\ streams = [s \in Streams |-> None]
    /\ open = {} /\ wired = {} /\ hub = {} /\ total = 0

Active == {c \in CredentialIds : state[c] = "active"}
ActiveOf(a) == {c \in Active : credentials[c].account = a}
StreamsOf(C) == {s \in hub : streams[s] \in C}

-----------------------------------------------------------------------------
(* The hub *)

(* Taking a stream off the hub counts only if it was on it. *)
Unsubscribe(s) ==
    /\ hub' = hub \ {s}
    /\ total' = IF s \in hub THEN total - 1 ELSE total

DisconnectNone(C) == UNCHANGED streamVars
DisconnectUncounted(C) ==
    /\ hub' = hub \ StreamsOf(C)
    /\ open' = open \ StreamsOf(C)
    /\ UNCHANGED <<streams, wired, total>>
(* disconnectCredential, for each of a set of credentials: their streams   *)
(* leave the hub and their responses are ended.                            *)
Disconnect(C) ==
    /\ hub' = hub \ StreamsOf(C)
    /\ total' = total - Cardinality(StreamsOf(C))
    /\ open' = open \ StreamsOf(C)
    /\ UNCHANGED <<streams, wired>>

(* Both caps of the hub leave room for one more stream of an account.      *)
Admits(a) ==
    /\ total < MaxTotal
    /\ Cardinality({s \in hub : credentials[streams[s]].account = a}) < MaxPerAccount

ConnectSuperseded(s, c) ==
    /\ s \notin open \cup wired \cup hub
    /\ state[c] \in {"active", "superseded"}
    /\ Admits(credentials[c].account)
    /\ streams' = [streams EXCEPT ![s] = c]
    /\ hub' = hub \cup {s} /\ total' = total + 1
    /\ open' = open \cup {s} /\ wired' = wired \cup {s}
    /\ UNCHANGED <<registryVars, credentialVars, data, requests>>
(* GET /events of an active credential, under both caps.  The stream is    *)
(* registered, the current seq is read and sent, and only then are the     *)
(* heartbeat and the close handler in place: after a read that throws the  *)
(* connection is destroyed without them, and the stream stays on the hub   *)
(* until its credential is revoked or the process restarts.                *)
Connect(s, c) ==
    /\ s \notin open \cup wired \cup hub
    /\ c \in Active
    /\ Admits(credentials[c].account)
    /\ streams' = [streams EXCEPT ![s] = c]
    /\ hub' = hub \cup {s} /\ total' = total + 1
    /\ \/ open' = open \cup {s} /\ wired' = wired \cup {s}
       \/ UNCHANGED <<open, wired>>
    /\ UNCHANGED <<registryVars, credentialVars, data, requests>>

(* The client goes away. *)
Drop(s) ==
    /\ s \in open
    /\ open' = open \ {s}
    /\ UNCHANGED <<registryVars, credentialVars, data, requests, streams, wired, hub, total>>

CloseEventForgets(s) ==
    /\ s \in wired /\ s \notin open
    /\ wired' = wired \ {s}
    /\ UNCHANGED <<registryVars, credentialVars, data, requests, streams, open, hub, total>>
(* The close event of a response that is over runs its cleanup. *)
CloseEvent(s) ==
    /\ s \in wired /\ s \notin open
    /\ wired' = wired \ {s}
    /\ Unsubscribe(s)
    /\ streams' = [streams EXCEPT ![s] = None]
    /\ UNCHANGED <<registryVars, credentialVars, data, requests, open>>

HeartbeatBlind(s) == s \in wired /\ s \notin open /\ CloseEvent(s)
(* A heartbeat that finds the credential no longer active ends the stream. *)
(* (One that cannot tell, for a storage error, leaves it to the next.)     *)
Heartbeat(s) ==
    /\ s \in wired /\ streams[s] \notin Active
    /\ wired' = wired \ {s} /\ open' = open \ {s}
    /\ Unsubscribe(s)
    /\ streams' = [streams EXCEPT ![s] = None]
    /\ UNCHANGED <<registryVars, credentialVars, data, requests>>

-----------------------------------------------------------------------------
(* The account registry and the credentials *)

(* POST /admin/accounts.  An id that holds data already is adopted. *)
CreateAccount(a) ==
    /\ key[a] = 0 /\ minted < MaxKeys
    /\ Cardinality({b \in AccountIds : key[b] # 0}) < MaxAccounts
    /\ minted' = minted + 1
    /\ key' = [key EXCEPT ![a] = minted']
    /\ UNCHANGED <<contained, credentialVars, data, requests, streamVars>>

(* POST rotate-key, which signs all devices out if asked to. *)
RotateAccountKey(a, revokeDevices) ==
    /\ key[a] # 0 /\ minted < MaxKeys
    /\ minted' = minted + 1
    /\ key' = [key EXCEPT ![a] = minted']
    /\ IF revokeDevices
       THEN /\ contained' = [contained EXCEPT ![a] = minted']
            /\ state' = [c \in CredentialIds |->
                   IF c \in ActiveOf(a) THEN "revoked" ELSE state[c]]
            /\ Disconnect(ActiveOf(a))
       ELSE UNCHANGED <<contained, state, streamVars>>
    /\ UNCHANGED <<credentials, data, requests>>

DeleteAccountKeepsCredentials(a) ==
    /\ key[a] # 0
    /\ key' = [key EXCEPT ![a] = 0]
    /\ data' = [data EXCEPT ![a] = FALSE]
    /\ UNCHANGED <<minted, contained, credentialVars, requests, streamVars>>
(* DELETE /admin/accounts/:accountId takes every row of the account, its   *)
(* credentials too, and cuts the streams of those that were active.        *)
DeleteAccount(a) ==
    /\ key[a] # 0
    /\ key' = [key EXCEPT ![a] = 0]
    /\ data' = [data EXCEPT ![a] = FALSE]
    /\ state' = [c \in CredentialIds |->
           IF c \in ActiveOf(a) THEN "revoked" ELSE state[c]]
    /\ Disconnect(ActiveOf(a))
    /\ UNCHANGED <<minted, contained, credentials, requests>>

IssueAlongside(a, d, k, c) ==
    /\ credentials' = [credentials EXCEPT ![c] = [account |-> a, device |-> d, key |-> k]]
    /\ state' = [state EXCEPT ![c] = "active"]
(* issueCredential: a fresh credential, and in the same transaction the    *)
(* device's older ones are revoked.  Their streams are left to the         *)
(* heartbeat.                                                              *)
IssueCredential(a, d, k, c) ==
    /\ credentials' = [credentials EXCEPT ![c] = [account |-> a, device |-> d, key |-> k]]
    /\ state' = [o \in CredentialIds |->
           IF o = c THEN "active"
           ELSE IF o \in ActiveOf(a) /\ credentials[o].device = d THEN "superseded"
           ELSE state[o]]

EnrollWithOldKey(k, d, c) ==
    /\ state[c] = "unminted"
    /\ \E a \in AccountIds : key[a] # 0 /\ key[a] >= k /\ IssueCredential(a, d, k, c)
    /\ UNCHANGED <<registryVars, data, requests, streamVars>>
(* POST /enroll with account key k: the account is looked up by its key,   *)
(* and the credential issued in the same turn.                             *)
Enroll(k, d, c) ==
    /\ state[c] = "unminted"
    /\ \E a \in AccountIds : key[a] = k /\ IssueCredential(a, d, k, c)
    /\ UNCHANGED <<registryVars, data, requests, streamVars>>

(* POST /admin/credentials/:id/revoke.  Revoking again changes nothing. *)
RevokeCredential(c) ==
    /\ c \in Active
    /\ state' = [state EXCEPT ![c] = "revoked"]
    /\ Disconnect({c})
    /\ UNCHANGED <<registryVars, credentials, data, requests>>

-----------------------------------------------------------------------------
(* Requests with a body *)

(* The headers of a request are there and its credential is active. *)
Authenticate(r, c) ==
    /\ requests[r] = None /\ c \in Active
    /\ requests' = [requests EXCEPT ![r] = c]
    /\ UNCHANGED <<registryVars, credentialVars, data, streamVars>>

(* The body is complete and the handler writes rows of the account the     *)
(* credential was bound to when it was authenticated.                      *)
HandleWrite(r) ==
    /\ requests[r] # None
    /\ data' = [data EXCEPT ![credentials[requests[r]].account] = TRUE]
    /\ requests' = [requests EXCEPT ![r] = None]
    /\ UNCHANGED <<registryVars, credentialVars, streamVars>>

(* The client gives up before the body is complete. *)
AbortRequest(r) ==
    /\ requests[r] # None
    /\ requests' = [requests EXCEPT ![r] = None]
    /\ UNCHANGED <<registryVars, credentialVars, data, streamVars>>

(* The process restarts: only the database is left. *)
Restart ==
    /\ requests' = [r \in Requests |-> None]
    /\ streams' = [s \in Streams |-> None]
    /\ open' = {} /\ wired' = {} /\ hub' = {} /\ total' = 0
    /\ UNCHANGED <<registryVars, credentialVars, data>>

-----------------------------------------------------------------------------
Administer ==
    \/ \E a \in AccountIds : CreateAccount(a)
    \/ \E a \in AccountIds, revokeDevices \in BOOLEAN : RotateAccountKey(a, revokeDevices)
    \/ \E a \in AccountIds : DeleteAccount(a)
    \/ \E c \in CredentialIds : RevokeCredential(c)

Stream(s) ==
    \/ \E c \in CredentialIds : Connect(s, c)
    \/ Drop(s)
    \/ CloseEvent(s)
    \/ Heartbeat(s)

Serve(r) ==
    \/ \E c \in CredentialIds : Authenticate(r, c)
    \/ HandleWrite(r)
    \/ AbortRequest(r)

Next ==
    \/ Administer
    \/ \E k \in 1..minted, d \in DeviceIds, c \in CredentialIds : Enroll(k, d, c)
    \/ \E s \in Streams : Stream(s)
    \/ \E r \in Requests : Serve(r)
    \/ Restart

Spec == Init /\ [][Next]_vars

(* Close events fire, and heartbeats do while their stream lives. *)
Fairness == \A s \in Streams : WF_vars(CloseEvent(s)) /\ WF_vars(Heartbeat(s))

FairSpec == Spec /\ Fairness

-----------------------------------------------------------------------------
(* Enrolling a device again is rotation: at no time do two credentials of  *)
(* one device of one account work.                                         *)
OneCredentialPerDevice ==
    \A c, o \in Active :
        (/\ credentials[c].account = credentials[o].account
         /\ credentials[c].device = credentials[o].device) => c = o

(* Rotating a leaked key with revokeDevices contains it: no credential     *)
(* that works was enrolled with a key from before.                         *)
LeakedKeyContained ==
    \A c \in Active : credentials[c].key >= contained[credentials[c].account]

(* A credential that works belongs to an account that is registered, and   *)
(* was enrolled with a key this registration had.                          *)
CredentialsHaveAccount ==
    \A c \in Active : key[credentials[c].account] >= credentials[c].key

(* What an administrator revokes, rotates away or deletes has no stream on *)
(* the hub, whatever the streams and their close events were doing.        *)
RevokedHaveNoStream == \A s \in hub : state[streams[s]] # "revoked"

(* The hub's count is the number of streams on it, however often each was  *)
(* taken off: it guards the cap on all connections.                        *)
CountIsExact == total = Cardinality(hub)

(* A stream whose credential is no longer active, superseded ones too, is  *)
(* taken off the hub within a heartbeat, once its heartbeat is in place.   *)
InactiveStreamsEnd ==
    \A s \in Streams :
        (s \in hub \cap wired /\ streams[s] \notin Active)
            ~> (s \notin hub \/ streams[s] \in Active)

(* "A dead connection never leaks in the hub", if its stream got as far as *)
(* the close handler and the heartbeat.                                    *)
DroppedStreamsLeave ==
    \A s \in Streams :
        (s \in hub \cap wired /\ s \notin open) ~> (s \notin hub \/ s \in open)

(* Deleting an account removes it "and ALL of its data". *)
DeletedIsGone == \A a \in AccountIds : key[a] = 0 => ~data[a]

(***************************************************************************)
(* Registry, credentials and hub implement a membership of devices: who is *)
(* in, with which credential, and who listens.                             *)
(***************************************************************************)
ActiveFor(a, d) == {c \in ActiveOf(a) : credentials[c].device = d}
TheOne(C) == IF C = {} THEN None ELSE CHOOSE c \in C : TRUE

Issued == {c \in CredentialIds : state[c] # "unminted"}
MemberOf == [a \in AccountIds |-> [d \in DeviceIds |-> TheOne(ActiveFor(a, d))]]
Listening == [s \in Streams |-> IF s \in hub THEN streams[s] ELSE None]

Members == INSTANCE Membership WITH
    Accounts <- AccountIds,
    Devices <- DeviceIds,
    Credentials <- CredentialIds,
    issued <- Issued,
    member <- MemberOf,
    listening <- Listening

(* Enrolling and enrolling again, rotations, revocations and deletions, in *)
(* any order with streams that open, die, throw and are swept, come down   *)
(* to joining, being put out and listening: whoever is put out is off the  *)
(* hub in the same step, and only members get on it.                       *)
ImplementsMembership == Members!MemberSpec
=============================================================================
