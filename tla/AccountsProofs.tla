--------------------------- MODULE AccountsProofs ---------------------------
(***************************************************************************)
(* Proofs about Accounts, for every set of accounts, devices, credentials  *)
(* and requests, every finite set of streams and every cap.                *)
(***************************************************************************)
EXTENDS Accounts, FiniteSetTheorems, TLAPS

(* The key of a registered account is no older than the last rotation that *)
(* signed the account's devices out, earlier registrations included.       *)
KeyIsNewest == \A a \in AccountIds : key[a] # 0 => key[a] >= contained[a]

RegistryInv ==
    /\ OneCredentialPerDevice
    /\ LeakedKeyContained
    /\ CredentialsHaveAccount
    /\ KeyIsNewest

IInv ==
    /\ TypeOK
    /\ CountIsExact
    /\ RevokedHaveNoStream
    /\ RegistryInv

-----------------------------------------------------------------------------
(* The hub *)

(* The hub is a finite set, and its subsets are counted by numbers.        *)
LEMMA HubFinite ==
    ASSUME TypeOK
    PROVE  /\ IsFiniteSet(hub) /\ Cardinality(hub) \in Nat
           /\ \A S \in SUBSET hub : IsFiniteSet(S) /\ Cardinality(S) \in Nat
<1>1. hub \in SUBSET Streams
  BY DEF TypeOK
<1>2. \A S \in SUBSET hub : S \in SUBSET Streams
  BY <1>1
<1> QED
  BY <1>1, <1>2, StreamsFinite, FS_Subset, FS_CardinalityType

(* Disconnecting credentials removes as many streams from the count as it  *)
(* removes from the hub.                                                   *)
LEMMA DisconnectCounts ==
    ASSUME NEW C, TypeOK, CountIsExact, Disconnect(C)
    PROVE  /\ CountIsExact' /\ total' \in Nat
           /\ hub' \in SUBSET Streams /\ open' \in SUBSET Streams
           /\ \A s \in hub' : s \in hub /\ streams[s] \notin C
<1> DEFINE gone == StreamsOf(C)
<1>1. gone \in SUBSET hub
  BY DEF StreamsOf
<1>2. Cardinality(hub \ gone) = Cardinality(hub) - Cardinality(hub \cap gone)
  BY HubFinite, FS_Difference
<1>3. hub \cap gone = gone
  BY <1>1
<1>4. hub' = hub \ gone /\ total' = total - Cardinality(gone) /\ open' = open \ gone
  BY DEF Disconnect
<1>5. CountIsExact'
  BY <1>2, <1>3, <1>4 DEF CountIsExact
<1>6. Cardinality(hub \ gone) \in Nat
  BY HubFinite
<1>7. total' \in Nat
  BY <1>4, <1>5, <1>6 DEF CountIsExact
<1> QED
  BY <1>4, <1>5, <1>7 DEF StreamsOf, TypeOK

(* Taking a stream off the hub counts it once, on the hub or not.          *)
LEMMA UnsubscribeCounts ==
    ASSUME NEW s \in Streams, TypeOK, CountIsExact, Unsubscribe(s)
    PROVE  CountIsExact' /\ total' \in Nat
<1>1. Cardinality(hub \ {s}) = IF s \in hub THEN Cardinality(hub) - 1 ELSE Cardinality(hub)
  BY HubFinite, FS_RemoveElement
<1>2. Cardinality(hub \ {s}) \in Nat
  BY HubFinite
<1> QED
  BY <1>1, <1>2 DEF Unsubscribe, CountIsExact

(* A stream that connects is counted.                                      *)
LEMMA ConnectCounts ==
    ASSUME NEW s \in Streams, NEW c \in CredentialIds,
           TypeOK, CountIsExact, Connect(s, c)
    PROVE  CountIsExact' /\ total' \in Nat
<1>1. s \notin hub /\ hub' = hub \cup {s} /\ total' = total + 1
  BY DEF Connect
<1>2. Cardinality(hub \cup {s}) = Cardinality(hub) + 1
  BY <1>1, HubFinite, FS_AddElement
<1> QED
  BY <1>1, <1>2, HubFinite DEF CountIsExact

-----------------------------------------------------------------------------
(* Types *)

LEMMA TypeStep == TypeOK /\ CountIsExact /\ [Next]_vars => TypeOK'
<1> SUFFICES ASSUME TypeOK, CountIsExact, [Next]_vars PROVE TypeOK'
  OBVIOUS
<1> USE NoneUnused, NoneNoCredential, Caps
        DEF TypeOK, registryVars, credentialVars, streamVars
<1>1. ASSUME NEW a \in AccountIds, CreateAccount(a) PROVE TypeOK'
  BY <1>1 DEF CreateAccount
<1>2. ASSUME NEW a \in AccountIds, NEW revokeDevices \in BOOLEAN,
             RotateAccountKey(a, revokeDevices)
      PROVE  TypeOK'
  <2>1. CASE revokeDevices
    <3>1. Disconnect(ActiveOf(a))
      BY <1>2, <2>1 DEF RotateAccountKey
    <3>2. total' \in Nat /\ hub' \in SUBSET Streams /\ open' \in SUBSET Streams
      BY <3>1, DisconnectCounts
    <3>3. hub' \subseteq hub /\ open' \subseteq open /\ UNCHANGED <<streams, wired>>
      BY <3>1 DEF Disconnect
    <3>4. state' \in [CredentialIds -> States]
          /\ \A c \in CredentialIds : state'[c] # "unminted" => state[c] # "unminted"
      BY <1>2, <2>1 DEF RotateAccountKey, States, ActiveOf, Active
    <3>5. minted' \in 0..MaxKeys /\ key' \in [AccountIds -> 0..minted']
          /\ contained' \in [AccountIds -> 0..minted']
      BY <1>2, <2>1 DEF RotateAccountKey
    <3> QED
      BY <1>2, <3>2, <3>3, <3>4, <3>5 DEF RotateAccountKey
  <2>2. CASE ~revokeDevices
    BY <1>2, <2>2 DEF RotateAccountKey
  <2> QED
    BY <2>1, <2>2
<1>3. ASSUME NEW a \in AccountIds, DeleteAccount(a) PROVE TypeOK'
  <2>1. Disconnect(ActiveOf(a))
    BY <1>3 DEF DeleteAccount
  <2>2. total' \in Nat /\ hub' \in SUBSET Streams /\ open' \in SUBSET Streams
    BY <2>1, DisconnectCounts
  <2>3. hub' \subseteq hub /\ open' \subseteq open /\ UNCHANGED <<streams, wired>>
    BY <2>1 DEF Disconnect
  <2>4. state' \in [CredentialIds -> States]
        /\ \A c \in CredentialIds : state'[c] # "unminted" => state[c] # "unminted"
    BY <1>3 DEF DeleteAccount, States, ActiveOf, Active
  <2> QED
    BY <1>3, <2>2, <2>3, <2>4 DEF DeleteAccount
<1>4. ASSUME NEW c \in CredentialIds, RevokeCredential(c) PROVE TypeOK'
  <2>1. Disconnect({c})
    BY <1>4 DEF RevokeCredential
  <2>2. total' \in Nat /\ hub' \in SUBSET Streams /\ open' \in SUBSET Streams
    BY <2>1, DisconnectCounts
  <2>3. hub' \subseteq hub /\ open' \subseteq open /\ UNCHANGED <<streams, wired>>
    BY <2>1 DEF Disconnect
  <2> QED
    BY <1>4, <2>2, <2>3 DEF RevokeCredential, States, Active
<1>5. ASSUME NEW k \in 1..minted, NEW d \in DeviceIds, NEW c \in CredentialIds,
             Enroll(k, d, c)
      PROVE  TypeOK'
  <2>1. PICK a \in AccountIds : IssueCredential(a, d, k, c)
    BY <1>5 DEF Enroll
  <2>2. [account |-> a, device |-> d, key |-> k] \in Credential
    BY DEF Credential
  <2>3. credentials' \in [CredentialIds -> Credential \cup {None}]
        /\ state' \in [CredentialIds -> States]
    BY <2>1, <2>2 DEF IssueCredential, States
  <2>4. \A o \in CredentialIds : state'[o] # "unminted" => credentials'[o] # None
    BY <2>1, <2>2 DEF IssueCredential, ActiveOf, Active
  <2> QED
    BY <1>5, <2>3, <2>4 DEF Enroll
<1>6. ASSUME NEW s \in Streams, NEW c \in CredentialIds, Connect(s, c) PROVE TypeOK'
  <2>1. total' \in Nat
    BY <1>6, ConnectCounts
  <2> QED
    BY <1>6, <2>1 DEF Connect
<1>7. ASSUME NEW s \in Streams, Drop(s) PROVE TypeOK'
  BY <1>7 DEF Drop
<1>8. ASSUME NEW s \in Streams, CloseEvent(s) PROVE TypeOK'
  <2>1. total' \in Nat
    BY <1>8, UnsubscribeCounts DEF CloseEvent
  <2> QED
    BY <1>8, <2>1 DEF CloseEvent, Unsubscribe
<1>9. ASSUME NEW s \in Streams, Heartbeat(s) PROVE TypeOK'
  <2>1. total' \in Nat
    BY <1>9, UnsubscribeCounts DEF Heartbeat
  <2> QED
    BY <1>9, <2>1 DEF Heartbeat, Unsubscribe
<1>10. ASSUME NEW r \in Requests, Serve(r) PROVE TypeOK'
  <2>1. /\ UNCHANGED <<registryVars, credentialVars, streamVars>>
        /\ requests' \in [Requests -> CredentialIds \cup {None}]
    BY <1>10 DEF Serve, Authenticate, HandleWrite, AbortRequest, Active
  <2>2. data' \in [AccountIds -> BOOLEAN]
    BY <1>10 DEF Serve, Authenticate, HandleWrite, AbortRequest
  <2> QED
    BY <2>1, <2>2
<1>11. CASE Restart
  BY <1>11 DEF Restart
<1>12. CASE UNCHANGED vars
  BY <1>12 DEF vars
<1> QED
  BY <1>1, <1>2, <1>3, <1>4, <1>5, <1>6, <1>7, <1>8, <1>9, <1>10, <1>11, <1>12
     DEF Next, Administer, Stream

-----------------------------------------------------------------------------
(* The registry and the credentials *)

(* Credentials that stop working break no promise about those that work.   *)
LEMMA FewerActive ==
    ASSUME RegistryInv, UNCHANGED <<contained, credentials>>,
           Active' \subseteq Active,
           \A c \in Active' : key'[credentials[c].account] >= key[credentials[c].account],
           TypeOK, TypeOK'
    PROVE  OneCredentialPerDevice' /\ LeakedKeyContained' /\ CredentialsHaveAccount'
<1>1. OneCredentialPerDevice' /\ LeakedKeyContained'
  BY DEF RegistryInv, OneCredentialPerDevice, LeakedKeyContained
<1>2. ASSUME NEW c \in Active'
      PROVE  key'[credentials[c].account] >= credentials[c].key
  <2>1. c \in CredentialIds /\ credentials[c] \in Credential
    BY <1>2 DEF Active, TypeOK
  <2>2. key[credentials[c].account] \in Nat /\ key'[credentials[c].account] \in Nat
        /\ credentials[c].key \in Nat
    BY <2>1 DEF TypeOK, Credential
  <2> QED
    BY <1>2, <2>2 DEF RegistryInv, CredentialsHaveAccount
<1> QED
  BY <1>1, <1>2 DEF CredentialsHaveAccount

LEMMA RegistryStep == IInv /\ TypeOK' /\ [Next]_vars => RegistryInv'
<1> SUFFICES ASSUME IInv, TypeOK', [Next]_vars PROVE RegistryInv'
  OBVIOUS
<1> TypeOK /\ RegistryInv
  BY DEF IInv
<1>1. ASSUME NEW a \in AccountIds, CreateAccount(a) PROVE RegistryInv'
  <2>1. /\ \A b \in AccountIds : key'[b] >= key[b]
        /\ key'[a] >= contained[a]
        /\ \A b \in AccountIds \ {a} : key'[b] = key[b]
        /\ UNCHANGED <<contained, credentials, state>>
    BY <1>1 DEF CreateAccount, credentialVars, TypeOK
  <2>2. \A c \in Active' : credentials[c].account \in AccountIds /\ c \in Active
    BY <2>1 DEF Active, TypeOK, Credential
  <2>3. OneCredentialPerDevice' /\ LeakedKeyContained' /\ CredentialsHaveAccount'
    BY <2>1, <2>2, FewerActive
  <2>4. KeyIsNewest'
    BY <2>1 DEF KeyIsNewest, RegistryInv
  <2> QED
    BY <2>3, <2>4 DEF RegistryInv
<1>2. ASSUME NEW a \in AccountIds, NEW revokeDevices \in BOOLEAN,
             RotateAccountKey(a, revokeDevices)
      PROVE  RegistryInv'
  <2>1. /\ key'[a] = minted'
        /\ \A b \in AccountIds : key'[b] >= key[b]
        /\ \A b \in AccountIds \ {a} : key'[b] = key[b]
        /\ UNCHANGED credentials
    BY <1>2 DEF RotateAccountKey, TypeOK
  <2>2. KeyIsNewest'
    <3>1. CASE revokeDevices
      BY <1>2, <2>1, <3>1 DEF RotateAccountKey, KeyIsNewest, RegistryInv, TypeOK
    <3>2. CASE ~revokeDevices
      BY <1>2, <2>1, <3>2 DEF RotateAccountKey, KeyIsNewest, RegistryInv, TypeOK
    <3> QED
      BY <3>1, <3>2
  <2>3. CASE ~revokeDevices
    <3>1. UNCHANGED <<contained, state>>
      BY <1>2, <2>3 DEF RotateAccountKey
    <3>2. \A c \in Active' : credentials[c].account \in AccountIds /\ c \in Active
      BY <3>1, <2>1 DEF Active, TypeOK, Credential
    <3> QED
      BY <2>1, <2>2, <3>1, <3>2, FewerActive DEF RegistryInv
  <2>4. CASE revokeDevices
    <3>1. state' = [c \in CredentialIds |-> IF c \in ActiveOf(a) THEN "revoked" ELSE state[c]]
          /\ contained' = [contained EXCEPT ![a] = minted']
      BY <1>2, <2>4 DEF RotateAccountKey
    <3>2. \A c \in Active' : /\ c \in Active
                             /\ credentials[c].account \in AccountIds \ {a}
      BY <3>1 DEF Active, ActiveOf, TypeOK, Credential
    <3>3. OneCredentialPerDevice'
      BY <2>1, <3>2 DEF RegistryInv, OneCredentialPerDevice
    <3>4. LeakedKeyContained'
      BY <2>1, <3>1, <3>2 DEF RegistryInv, LeakedKeyContained, TypeOK
    <3>5. CredentialsHaveAccount'
      BY <2>1, <3>2 DEF RegistryInv, CredentialsHaveAccount
    <3> QED
      BY <2>2, <3>3, <3>4, <3>5 DEF RegistryInv
  <2> QED
    BY <2>3, <2>4
<1>3. ASSUME NEW a \in AccountIds, DeleteAccount(a) PROVE RegistryInv'
  <2>1. /\ key' = [key EXCEPT ![a] = 0]
        /\ state' = [c \in CredentialIds |-> IF c \in ActiveOf(a) THEN "revoked" ELSE state[c]]
        /\ UNCHANGED <<contained, credentials>>
    BY <1>3 DEF DeleteAccount
  <2>2. \A c \in Active' : /\ c \in Active
                           /\ credentials[c].account \in AccountIds \ {a}
    BY <2>1 DEF Active, ActiveOf, TypeOK, Credential
  <2>3. \A b \in AccountIds \ {a} : key'[b] = key[b] /\ key[b] \in Nat
    BY <2>1 DEF TypeOK
  <2>4. KeyIsNewest'
    BY <2>1 DEF KeyIsNewest, RegistryInv, TypeOK
  <2>5. \A c \in Active' : key'[credentials[c].account] >= key[credentials[c].account]
    BY <2>2, <2>3
  <2> QED
    BY <2>1, <2>2, <2>4, <2>5, FewerActive DEF RegistryInv
<1>4. ASSUME NEW c \in CredentialIds, RevokeCredential(c) PROVE RegistryInv'
  <2>1. UNCHANGED <<key, contained, credentials>> /\ Active' \subseteq Active
    BY <1>4 DEF RevokeCredential, registryVars, Active, TypeOK
  <2>2. \A o \in Active' : key'[credentials[o].account] >= key[credentials[o].account]
    BY <2>1 DEF Active, TypeOK, Credential
  <2>3. KeyIsNewest'
    BY <2>1 DEF KeyIsNewest, RegistryInv
  <2> QED
    BY <2>1, <2>2, <2>3, FewerActive DEF RegistryInv
<1>5. ASSUME NEW k \in 1..minted, NEW d \in DeviceIds, NEW c \in CredentialIds,
             Enroll(k, d, c)
      PROVE  RegistryInv'
  <2>1. PICK a \in AccountIds : key[a] = k /\ IssueCredential(a, d, k, c)
    BY <1>5 DEF Enroll
  <2>2. UNCHANGED <<key, contained>> /\ c \notin Active
    BY <1>5 DEF Enroll, registryVars, Active
  <2>3. /\ credentials'[c] = [account |-> a, device |-> d, key |-> k]
        /\ \A o \in CredentialIds \ {c} : credentials'[o] = credentials[o]
    BY <2>1 DEF IssueCredential, TypeOK
  <2>4. \A o \in Active' \ {c} :
            /\ o \in Active
            /\ ~(credentials[o].account = a /\ credentials[o].device = d)
    BY <2>1 DEF IssueCredential, Active, ActiveOf
  <2>5. OneCredentialPerDevice'
    BY <2>3, <2>4 DEF OneCredentialPerDevice, RegistryInv, Active
  <2>6. LeakedKeyContained'
    <3>1. k >= contained[a]
      BY <2>1 DEF RegistryInv, KeyIsNewest, TypeOK
    <3> QED
      BY <2>2, <2>3, <2>4, <3>1 DEF LeakedKeyContained, RegistryInv, Active
  <2>7. CredentialsHaveAccount'
    BY <2>1, <2>2, <2>3, <2>4 DEF CredentialsHaveAccount, RegistryInv, Active
  <2>8. KeyIsNewest'
    BY <2>2 DEF KeyIsNewest, RegistryInv
  <2> QED
    BY <2>5, <2>6, <2>7, <2>8 DEF RegistryInv
<1>6. CASE UNCHANGED <<registryVars, credentialVars>>
  BY <1>6 DEF registryVars, credentialVars, RegistryInv, OneCredentialPerDevice,
              LeakedKeyContained, CredentialsHaveAccount, KeyIsNewest, Active
<1>7. ASSUME NEW s \in Streams, Stream(s) PROVE UNCHANGED <<registryVars, credentialVars>>
  BY <1>7 DEF Stream, Connect, Drop, CloseEvent, Heartbeat
<1>8. ASSUME NEW r \in Requests, Serve(r) PROVE UNCHANGED <<registryVars, credentialVars>>
  BY <1>8 DEF Serve, Authenticate, HandleWrite, AbortRequest
<1>9. CASE Restart
  BY <1>6, <1>9 DEF Restart
<1>10. CASE UNCHANGED vars
  BY <1>6, <1>10 DEF vars, registryVars, credentialVars
<1> QED
  BY <1>1, <1>2, <1>3, <1>4, <1>5, <1>6, <1>7, <1>8, <1>9, <1>10 DEF Next, Administer

-----------------------------------------------------------------------------
(* The hub and the streams *)

LEMMA HubStep == IInv /\ [Next]_vars => (CountIsExact /\ RevokedHaveNoStream)'
<1> SUFFICES ASSUME IInv, [Next]_vars
             PROVE  CountIsExact' /\ RevokedHaveNoStream'
  OBVIOUS
<1> TypeOK /\ CountIsExact /\ RevokedHaveNoStream
  BY DEF IInv
<1>0. \A s \in hub : s \in Streams /\ streams[s] \in CredentialIds
  BY DEF TypeOK
(* Credentials that are revoked while their streams are cut off. *)
<1>a. ASSUME NEW C \in SUBSET CredentialIds, Disconnect(C),
             \A c \in CredentialIds \ C : state'[c] = "revoked" => state[c] = "revoked"
      PROVE  CountIsExact' /\ RevokedHaveNoStream'
  <2>1. CountIsExact' /\ \A s \in hub' : s \in hub /\ streams[s] \notin C
    BY <1>a, DisconnectCounts
  <2>2. UNCHANGED streams
    BY <1>a DEF Disconnect
  <2> QED
    BY <1>0, <1>a, <2>1, <2>2 DEF RevokedHaveNoStream
(* Steps that touch neither the hub nor what is revoked. *)
<1>b. ASSUME UNCHANGED <<streams, hub, total>>,
             \A c \in CredentialIds : state'[c] = "revoked" => state[c] = "revoked"
      PROVE  CountIsExact' /\ RevokedHaveNoStream'
  BY <1>0, <1>b DEF CountIsExact, RevokedHaveNoStream
<1>1. ASSUME NEW a \in AccountIds, CreateAccount(a)
      PROVE  CountIsExact' /\ RevokedHaveNoStream'
  BY <1>1, <1>b DEF CreateAccount, credentialVars, streamVars
<1>2. ASSUME NEW a \in AccountIds, NEW revokeDevices \in BOOLEAN,
             RotateAccountKey(a, revokeDevices)
      PROVE  CountIsExact' /\ RevokedHaveNoStream'
  <2>1. CASE revokeDevices
    <3>1. Disconnect(ActiveOf(a)) /\ ActiveOf(a) \in SUBSET CredentialIds
      BY <1>2, <2>1 DEF RotateAccountKey, ActiveOf, Active
    <3>2. \A c \in CredentialIds \ ActiveOf(a) : state'[c] = state[c]
      BY <1>2, <2>1 DEF RotateAccountKey
    <3> QED
      BY <1>a, <3>1, <3>2
  <2>2. CASE ~revokeDevices
    BY <1>2, <1>b, <2>2 DEF RotateAccountKey, streamVars
  <2> QED
    BY <2>1, <2>2
<1>3. ASSUME NEW a \in AccountIds, DeleteAccount(a)
      PROVE  CountIsExact' /\ RevokedHaveNoStream'
  <2>1. Disconnect(ActiveOf(a)) /\ ActiveOf(a) \in SUBSET CredentialIds
    BY <1>3 DEF DeleteAccount, ActiveOf, Active
  <2>2. \A c \in CredentialIds \ ActiveOf(a) : state'[c] = state[c]
    BY <1>3 DEF DeleteAccount
  <2> QED
    BY <1>a, <2>1, <2>2
<1>4. ASSUME NEW c \in CredentialIds, RevokeCredential(c)
      PROVE  CountIsExact' /\ RevokedHaveNoStream'
  <2>1. Disconnect({c}) /\ \A o \in CredentialIds \ {c} : state'[o] = state[o]
    BY <1>4 DEF RevokeCredential, TypeOK
  <2> QED
    BY <1>a, <2>1
<1>5. ASSUME NEW k \in 1..minted, NEW d \in DeviceIds, NEW c \in CredentialIds,
             Enroll(k, d, c)
      PROVE  CountIsExact' /\ RevokedHaveNoStream'
  <2>1. PICK a \in AccountIds : IssueCredential(a, d, k, c)
    BY <1>5 DEF Enroll
  <2>2. \A o \in CredentialIds : state'[o] = "revoked" => state[o] = "revoked"
    BY <2>1 DEF IssueCredential
  <2> QED
    BY <1>5, <1>b, <2>2 DEF Enroll, streamVars
<1>6. ASSUME NEW s \in Streams, NEW c \in CredentialIds, Connect(s, c)
      PROVE  CountIsExact' /\ RevokedHaveNoStream'
  <2>1. /\ hub' = hub \cup {s} /\ streams' = [streams EXCEPT ![s] = c]
        /\ state[c] = "active" /\ UNCHANGED state
    BY <1>6 DEF Connect, Active, credentialVars
  <2>2. RevokedHaveNoStream'
    BY <1>0, <2>1 DEF RevokedHaveNoStream, TypeOK
  <2> QED
    BY <1>6, <2>2, ConnectCounts
<1>7. ASSUME NEW s \in Streams, CloseEvent(s) \/ Heartbeat(s)
      PROVE  CountIsExact' /\ RevokedHaveNoStream'
  <2>1. /\ Unsubscribe(s) /\ streams' = [streams EXCEPT ![s] = None]
        /\ UNCHANGED state
    BY <1>7 DEF CloseEvent, Heartbeat, credentialVars
  <2>2. RevokedHaveNoStream'
    BY <1>0, <2>1 DEF Unsubscribe, RevokedHaveNoStream, TypeOK
  <2> QED
    BY <2>1, <2>2, UnsubscribeCounts
<1>8. ASSUME NEW s \in Streams, Drop(s) PROVE CountIsExact' /\ RevokedHaveNoStream'
  BY <1>8, <1>b DEF Drop, credentialVars
<1>9. ASSUME NEW r \in Requests, Serve(r) PROVE CountIsExact' /\ RevokedHaveNoStream'
  BY <1>9, <1>b DEF Serve, Authenticate, HandleWrite, AbortRequest,
                    credentialVars, streamVars
<1>10. CASE Restart
  BY <1>10, FS_EmptySet DEF Restart, CountIsExact, RevokedHaveNoStream
<1>11. CASE UNCHANGED vars
  BY <1>11, <1>b DEF vars
<1> QED
  BY <1>1, <1>2, <1>3, <1>4, <1>5, <1>6, <1>7, <1>8, <1>9, <1>10, <1>11
     DEF Next, Administer, Stream

-----------------------------------------------------------------------------
(* The inductive invariant and what it implies *)

LEMMA InitIInv == Init => IInv
<1> SUFFICES ASSUME Init PROVE IInv
  OBVIOUS
<1>1. TypeOK
  BY Caps DEF Init, TypeOK, States
<1>2. CountIsExact
  BY FS_EmptySet DEF Init, CountIsExact
<1>3. RevokedHaveNoStream /\ RegistryInv
  BY DEF Init, RevokedHaveNoStream, RegistryInv, OneCredentialPerDevice,
         LeakedKeyContained, CredentialsHaveAccount, KeyIsNewest, Active
<1> QED
  BY <1>1, <1>2, <1>3 DEF IInv

(* The registry, the credentials and the hub stay consistent, through      *)
(* enrollments, rotations, deletions, registrations and restarts.          *)
THEOREM Invariance == Spec => []IInv
<1>1. IInv /\ [Next]_vars => IInv'
  BY TypeStep, RegistryStep, HubStep DEF IInv
<1> QED
  BY InitIInv, <1>1, PTL DEF Spec

(* Every variable of the registry, the requests and the hub has its type;  *)
(* above all the hub's count never falls below zero.                       *)
THEOREM TypeCorrect == Spec => []TypeOK
<1>1. IInv => TypeOK
  BY DEF IInv
<1> QED
  BY <1>1, Invariance, PTL

(* Enrolling a device again never leaves two working credentials of it.    *)
THEOREM OneCredentialPerDeviceHolds == Spec => []OneCredentialPerDevice
<1>1. IInv => OneCredentialPerDevice
  BY DEF IInv, RegistryInv
<1> QED
  BY <1>1, Invariance, PTL

(* No credential of a leaked key survives the rotation that contains it.   *)
THEOREM LeakedKeyContainedHolds == Spec => []LeakedKeyContained
<1>1. IInv => LeakedKeyContained
  BY DEF IInv, RegistryInv
<1> QED
  BY <1>1, Invariance, PTL

(* A working credential belongs to an account that is registered, and no   *)
(* credential of an earlier registration works.                            *)
THEOREM CredentialsHaveAccountHolds == Spec => []CredentialsHaveAccount
<1>1. IInv => CredentialsHaveAccount
  BY DEF IInv, RegistryInv
<1> QED
  BY <1>1, Invariance, PTL

(* No stream of a revoked credential is on the hub.                        *)
THEOREM RevokedHaveNoStreamHolds == Spec => []RevokedHaveNoStream
<1>1. IInv => RevokedHaveNoStream
  BY DEF IInv
<1> QED
  BY <1>1, Invariance, PTL

(* The hub counts its streams exactly, however they come and go.           *)
THEOREM CountIsExactHolds == Spec => []CountIsExact
<1>1. IInv => CountIsExact
  BY DEF IInv
<1> QED
  BY <1>1, Invariance, PTL

-----------------------------------------------------------------------------
(* The membership *)

(* Of a device that has a working credential, that one is the member.      *)
LEMMA TheOneIs ==
    ASSUME NEW C, NEW c \in C, \A o \in C : o = c
    PROVE  TheOne(C) = c
BY DEF TheOne

LEMMA MemberIs ==
    ASSUME IInv, NEW c \in Active
    PROVE  LET a == credentials[c].account  d == credentials[c].device
           IN a \in AccountIds /\ d \in DeviceIds /\ ActiveFor(a, d) = {c} /\ MemberOf[a][d] = c
<1> DEFINE a == credentials[c].account  d == credentials[c].device
<1>1. c \in CredentialIds /\ credentials[c] \in Credential
  BY DEF IInv, TypeOK, Active
<1>2. a \in AccountIds /\ d \in DeviceIds
  BY <1>1 DEF Credential
<1>3. ActiveFor(a, d) = {c}
  BY DEF IInv, RegistryInv, OneCredentialPerDevice, ActiveFor, ActiveOf, Active
<1>4. TheOne({c}) = c
  BY TheOneIs
<1> HIDE DEF a, d
<1>5. MemberOf[a][d] = c
  BY <1>2, <1>3, <1>4 DEF MemberOf
<1> QED
  BY <1>2, <1>3, <1>5 DEF a, d

(* As long as the credentials stay as they are, so do the members.         *)
LEMMA SameMembers ==
    ASSUME UNCHANGED credentialVars
    PROVE  MemberOf' = MemberOf /\ Issued' = Issued
<1>1. credentials' = credentials /\ state' = state
  BY DEF credentialVars
<1>2. \A a, d : ActiveFor(a, d)' = ActiveFor(a, d)
  BY <1>1 DEF ActiveFor, ActiveOf, Active
<1> QED
  BY <1>1, <1>2 DEF MemberOf, Issued

(* A device that enrolls joins with the fresh credential.                  *)
LEMMA EnrollJoins ==
    ASSUME IInv, NEW a \in AccountIds, NEW d \in DeviceIds, NEW c \in CredentialIds, NEW k,
           state[c] = "unminted", IssueCredential(a, d, k, c), UNCHANGED streamVars
    PROVE  Members!Join(a, d)
<1>1. /\ \A o \in CredentialIds \ {c} :
             /\ credentials'[o] = credentials[o]
             /\ state'[o] = IF o \in ActiveFor(a, d) THEN "superseded" ELSE state[o]
      /\ credentials'[c].account = a /\ credentials'[c].device = d /\ state'[c] = "active"
  BY DEF IssueCredential, IInv, TypeOK, ActiveFor, ActiveOf, Active
<1>2. c \notin Active
  BY DEF Active
<1>3. ActiveFor(a, d)' = {c}
  BY <1>1, <1>2 DEF ActiveFor, ActiveOf, Active
<1>4. ASSUME NEW b \in AccountIds, NEW e \in DeviceIds, b # a \/ e # d
      PROVE  ActiveFor(b, e)' = ActiveFor(b, e)
  BY <1>1, <1>2, <1>4 DEF ActiveFor, ActiveOf, Active
<1>5. MemberOf' = [MemberOf EXCEPT ![a][d] = c]
  <2>1. TheOne({c}) = c
    BY TheOneIs
  <2>2. MemberOf' = [b \in AccountIds |-> [e \in DeviceIds |-> TheOne(ActiveFor(b, e)')]]
    BY DEF MemberOf, TheOne
  <2>3. \A b \in AccountIds, e \in DeviceIds :
            TheOne(ActiveFor(b, e)') = IF b = a /\ e = d THEN c ELSE MemberOf[b][e]
    BY <1>3, <1>4, <2>1 DEF MemberOf
  <2>4. \A b \in AccountIds : DOMAIN MemberOf[b] = DeviceIds
    BY DEF MemberOf
  <2>5. MemberOf = [b \in AccountIds |-> MemberOf[b]]
    BY DEF MemberOf
  <2>6. \A b \in AccountIds : MemberOf[b] = [e \in DeviceIds |-> MemberOf[b][e]]
    BY DEF MemberOf
  <2> HIDE DEF MemberOf
  <2> QED
    BY <2>2, <2>3, <2>5, <2>6
<1>6. Issued' = Issued \cup {c} /\ c \in CredentialIds \ Issued
  BY <1>1 DEF Issued, ActiveFor, ActiveOf, Active
<1>7. Listening' = Listening
  BY DEF Listening, streamVars
<1> QED
  BY <1>5, <1>6, <1>7 DEF Members!Join

(* Devices whose credentials are revoked are put out, with their streams.  *)
LEMMA RevokePutsOut ==
    ASSUME IInv, NEW a \in AccountIds, NEW D \in SUBSET DeviceIds, NEW C,
           C = {c \in ActiveOf(a) : credentials[c].device \in D},
           \A c \in CredentialIds : state'[c] = IF c \in C THEN "revoked" ELSE state[c],
           UNCHANGED credentials, Disconnect(C)
    PROVE  Members!PutOut(a)
<1>1. C \subseteq Active
  BY DEF ActiveOf
<1>2. ASSUME NEW b \in AccountIds, NEW e \in DeviceIds
      PROVE  ActiveFor(b, e)' = IF b = a /\ e \in D THEN {} ELSE ActiveFor(b, e)
  BY DEF ActiveFor, ActiveOf, Active
<1>3. MemberOf' = [MemberOf EXCEPT ![a] =
          [d \in DeviceIds |-> IF d \in D THEN None ELSE MemberOf[a][d]]]
  <2>1. TheOne({}) = None
    BY DEF TheOne
  <2>2. MemberOf' = [b \in AccountIds |-> [e \in DeviceIds |-> TheOne(ActiveFor(b, e)')]]
    BY DEF MemberOf, TheOne
  <2>3. \A b \in AccountIds, e \in DeviceIds :
            TheOne(ActiveFor(b, e)') = IF b = a /\ e \in D THEN None ELSE MemberOf[b][e]
    BY <1>2, <2>1 DEF MemberOf
  <2>4. MemberOf = [b \in AccountIds |-> MemberOf[b]]
        /\ \A b \in AccountIds : MemberOf[b] = [e \in DeviceIds |-> MemberOf[b][e]]
    BY DEF MemberOf
  <2> HIDE DEF MemberOf
  <2> QED
    BY <2>2, <2>3, <2>4
<1>4. \A x \in CredentialIds : x \in C <=> x \in {MemberOf[a][d] : d \in D}
  <2>1. ASSUME NEW x \in C
        PROVE  \E d \in D : x = MemberOf[a][d]
    BY <1>1, <2>1, MemberIs DEF ActiveOf
  <2>2. ASSUME NEW d \in D, MemberOf[a][d] \in CredentialIds
        PROVE  MemberOf[a][d] \in C
    <3>1. ActiveFor(a, d) # {} /\ MemberOf[a][d] \in ActiveFor(a, d)
      BY <2>2, NoneUnused DEF MemberOf, TheOne
    <3> QED
      BY <3>1 DEF ActiveFor
  <2> QED
    BY <2>1, <2>2
<1>5. Listening' = [s \in Streams |->
          IF Listening[s] \in {MemberOf[a][d] : d \in D} THEN None ELSE Listening[s]]
  <2>1. /\ hub' = {s \in hub : streams[s] \notin C} /\ UNCHANGED streams
        /\ \A s \in hub : s \in Streams /\ streams[s] \in CredentialIds
    BY DEF Disconnect, StreamsOf, IInv, TypeOK
  <2> HIDE DEF MemberOf
  <2> QED
    BY <1>4, <2>1 DEF Listening
<1>6. Issued' = Issued
  BY <1>1 DEF Issued, Active
<1> QED
  BY <1>3, <1>5, <1>6 DEF Members!PutOut

(* A stream that connects listens for the member its credential is of.     *)
LEMMA ConnectListens ==
    ASSUME IInv, NEW s \in Streams, NEW c \in CredentialIds, Connect(s, c)
    PROVE  Members!Listen(s)
<1> DEFINE a == credentials[c].account  d == credentials[c].device
<1>1. s \notin hub /\ c \in Active /\ hub' = hub \cup {s}
      /\ streams' = [streams EXCEPT ![s] = c] /\ UNCHANGED credentialVars
  BY DEF Connect
<1>2. MemberOf' = MemberOf /\ Issued' = Issued
  BY <1>1, SameMembers
<1>3. a \in AccountIds /\ d \in DeviceIds /\ MemberOf[a][d] = c
  BY <1>1, MemberIs
<1>4. Listening[s] = None /\ Listening' = [Listening EXCEPT ![s] = c]
  BY <1>1 DEF Listening, IInv, TypeOK
<1>5. c # None
  BY NoneUnused
<1> HIDE DEF a, d
<1> QED
  BY <1>2, <1>3, <1>4, <1>5 DEF Members!Listen

(* The streams of some connections end, whoever they were opened by.       *)
LEMMA StreamsStop ==
    ASSUME NEW S \in SUBSET Streams, hub' = hub \ S,
           \A s \in Streams \ S : streams'[s] = streams[s],
           UNCHANGED credentialVars
    PROVE  Members!Stop(S)
<1>1. Listening' = [s \in Streams |-> IF s \in S THEN None ELSE Listening[s]]
  BY DEF Listening
<1> QED
  BY <1>1, SameMembers DEF Members!Stop

(* Registry, credentials and hub implement the membership: enrolling again *)
(* replaces, what is revoked is off the hub at once, and whoever gets on   *)
(* the hub is a member.                                                    *)
THEOREM ImplementsMembershipHolds == Spec => ImplementsMembership
<1>1. Init => Members!MemberInit
  <2> SUFFICES ASSUME Init PROVE Members!MemberInit
    OBVIOUS
  <2>1. Issued = {}
    BY DEF Init, Issued
  <2>2. MemberOf = [a \in AccountIds |-> [d \in DeviceIds |-> None]]
    BY DEF Init, MemberOf, TheOne, ActiveFor, ActiveOf, Active
  <2>3. Listening = [s \in Streams |-> None]
    BY DEF Init, Listening
  <2> QED
    BY <2>1, <2>2, <2>3 DEF Members!MemberInit
<1>2. IInv /\ [Next]_vars => [Members!MemberNext]_(Members!memberVars)
  <2> SUFFICES ASSUME IInv, [Next]_vars
               PROVE  [Members!MemberNext]_(Members!memberVars)
    OBVIOUS
  <2>1. ASSUME UNCHANGED credentialVars, UNCHANGED <<streams, hub>>
        PROVE  UNCHANGED Members!memberVars
    BY <2>1, SameMembers DEF Members!memberVars, Listening
  <2>2. ASSUME NEW a \in AccountIds, NEW revokeDevices \in BOOLEAN,
               RotateAccountKey(a, revokeDevices)
        PROVE  [Members!MemberNext]_(Members!memberVars)
    <3>1. CASE revokeDevices
      <4>1. ActiveOf(a) = {c \in ActiveOf(a) : credentials[c].device \in DeviceIds}
        BY DEF IInv, TypeOK, ActiveOf, Active, Credential
      <4>2. \A c \in CredentialIds :
                state'[c] = IF c \in ActiveOf(a) THEN "revoked" ELSE state[c]
        BY <2>2, <3>1 DEF RotateAccountKey
      <4>3. UNCHANGED credentials /\ Disconnect(ActiveOf(a))
        BY <2>2, <3>1 DEF RotateAccountKey
      <4>4. Members!PutOut(a)
        BY <4>1, <4>2, <4>3, RevokePutsOut
      <4> QED
        BY <4>4 DEF Members!MemberNext
    <3>2. CASE ~revokeDevices
      BY <2>1, <2>2, <3>2 DEF RotateAccountKey, credentialVars, streamVars
    <3> QED
      BY <3>1, <3>2
  <2>3. ASSUME NEW a \in AccountIds, DeleteAccount(a)
        PROVE  Members!MemberNext
    <3>1. ActiveOf(a) = {c \in ActiveOf(a) : credentials[c].device \in DeviceIds}
      BY DEF IInv, TypeOK, ActiveOf, Active, Credential
    <3>2. \A c \in CredentialIds :
              state'[c] = IF c \in ActiveOf(a) THEN "revoked" ELSE state[c]
      BY <2>3 DEF DeleteAccount
    <3>3. UNCHANGED credentials /\ Disconnect(ActiveOf(a))
      BY <2>3 DEF DeleteAccount
    <3>4. Members!PutOut(a)
      BY <3>1, <3>2, <3>3, RevokePutsOut
    <3> QED
      BY <3>4 DEF Members!MemberNext
  <2>4. ASSUME NEW c \in CredentialIds, RevokeCredential(c)
        PROVE  Members!MemberNext
    <3> DEFINE a == credentials[c].account  d == credentials[c].device
    <3>1. c \in Active /\ UNCHANGED credentials /\ Disconnect({c})
          /\ state' = [state EXCEPT ![c] = "revoked"]
      BY <2>4 DEF RevokeCredential
    <3>2. a \in AccountIds /\ d \in DeviceIds /\ ActiveFor(a, d) = {c}
      BY <3>1, MemberIs
    <3>3. \A o \in CredentialIds : state'[o] = IF o \in {c} THEN "revoked" ELSE state[o]
      BY <3>1 DEF IInv, TypeOK
    <3> HIDE DEF a, d
    <3>4. {c} = {o \in ActiveOf(a) : credentials[o].device \in {d}}
      BY <3>2 DEF ActiveFor
    <3>5. Members!PutOut(a)
      BY <3>1, <3>2, <3>3, <3>4, RevokePutsOut
    <3> QED
      BY <3>2, <3>5 DEF Members!MemberNext
  <2>5. ASSUME NEW k \in 1..minted, NEW d \in DeviceIds, NEW c \in CredentialIds,
               Enroll(k, d, c)
        PROVE  Members!MemberNext
    <3>1. PICK a \in AccountIds : IssueCredential(a, d, k, c)
      BY <2>5 DEF Enroll
    <3>2. Members!Join(a, d)
      BY <2>5, <3>1, EnrollJoins DEF Enroll
    <3> QED
      BY <3>2 DEF Members!MemberNext
  <2>6. ASSUME NEW s \in Streams, NEW c \in CredentialIds, Connect(s, c)
        PROVE  Members!MemberNext
    BY <2>6, ConnectListens DEF Members!MemberNext
  <2>7. ASSUME NEW s \in Streams, CloseEvent(s) \/ Heartbeat(s)
        PROVE  Members!MemberNext
    <3>1. /\ hub' = hub \ {s} /\ UNCHANGED credentialVars
          /\ \A r \in Streams \ {s} : streams'[r] = streams[r]
      BY <2>7 DEF CloseEvent, Heartbeat, Unsubscribe, IInv, TypeOK
    <3>2. Members!Stop({s})
      BY <3>1, StreamsStop
    <3> QED
      BY <3>2 DEF Members!MemberNext
  <2>8. CASE Restart
    <3>1. hub' = hub \ Streams /\ UNCHANGED credentialVars
      BY <2>8 DEF Restart, IInv, TypeOK
    <3>2. Members!Stop(Streams)
      BY <3>1, StreamsStop
    <3> QED
      BY <3>2 DEF Members!MemberNext
  <2>9. ASSUME NEW s \in Streams, Drop(s) PROVE UNCHANGED Members!memberVars
    BY <2>1, <2>9 DEF Drop
  <2>10. ASSUME NEW a \in AccountIds, CreateAccount(a) PROVE UNCHANGED Members!memberVars
    BY <2>1, <2>10 DEF CreateAccount, streamVars
  <2>11. ASSUME NEW r \in Requests, Serve(r) PROVE UNCHANGED Members!memberVars
    BY <2>1, <2>11 DEF Serve, Authenticate, HandleWrite, AbortRequest, streamVars
  <2>12. CASE UNCHANGED vars
    BY <2>1, <2>12 DEF vars, credentialVars
  <2> QED
    BY <2>2, <2>3, <2>4, <2>5, <2>6, <2>7, <2>8, <2>9, <2>10, <2>11, <2>12
       DEF Next, Administer, Stream
<1> QED
  BY <1>1, <1>2, Invariance, PTL DEF Spec, ImplementsMembership, Members!MemberSpec

(* What the promise rests on: a credential nobody was issued is no member. *)
MembersInv ==
    /\ Issued \subseteq CredentialIds
    /\ MemberOf \in [AccountIds -> [DeviceIds -> Issued \cup {None}]]
    /\ Listening \in [Streams -> Issued \cup {None}]
    /\ Members!OneDevicePerCredential

(* The membership keeps its promise: a credential is of one device of one  *)
(* account, through every joining again.                                   *)
THEOREM PromiseKept == Members!MemberSpec => []Members!OneDevicePerCredential
<1>1. Members!MemberInit => MembersInv
  <2> SUFFICES ASSUME Members!MemberInit PROVE MembersInv
    OBVIOUS
  <2>1. /\ Issued = {} /\ Listening = [s \in Streams |-> None]
        /\ MemberOf = [a \in AccountIds |-> [d \in DeviceIds |-> None]]
    BY DEF Members!MemberInit
  <2> HIDE DEF Issued, Listening, MemberOf
  <2> QED
    BY <2>1 DEF MembersInv, Members!OneDevicePerCredential
<1>2. MembersInv /\ [Members!MemberNext]_(Members!memberVars) => MembersInv'
  <2> SUFFICES ASSUME MembersInv, [Members!MemberNext]_(Members!memberVars)
               PROVE  MembersInv'
    OBVIOUS
  <2> USE DEF MembersInv, Members!OneDevicePerCredential
  <2> HIDE DEF Issued, Listening, MemberOf
  <2>1. ASSUME NEW a \in AccountIds, NEW d \in DeviceIds, Members!Join(a, d)
        PROVE  MembersInv'
    <3>1. PICK c \in CredentialIds \ Issued :
              /\ Issued' = Issued \cup {c}
              /\ MemberOf' = [MemberOf EXCEPT ![a][d] = c]
              /\ Listening' = Listening
      BY <2>1 DEF Members!Join
    <3>2. \A b \in AccountIds, e \in DeviceIds :
              /\ MemberOf'[b][e] = IF b = a /\ e = d THEN c ELSE MemberOf[b][e]
              /\ MemberOf[b][e] # c
      BY <3>1, NoneUnused
    <3>3. MemberOf' \in [AccountIds -> [DeviceIds -> Issued' \cup {None}]]
      BY <3>1
    <3>4. Issued' \subseteq CredentialIds /\ Listening' \in [Streams -> Issued' \cup {None}]
      BY <3>1
    <3>5. \A b, o \in AccountIds, e, f \in DeviceIds :
              MemberOf'[b][e] # None /\ MemberOf'[b][e] = MemberOf'[o][f] => b = o /\ e = f
      BY <3>2
    <3> QED
      BY <3>3, <3>4, <3>5
  <2>2. ASSUME NEW a \in AccountIds, Members!PutOut(a)
        PROVE  MembersInv'
    <3>1. PICK D \in SUBSET DeviceIds :
              /\ MemberOf' = [MemberOf EXCEPT ![a] =
                     [d \in DeviceIds |-> IF d \in D THEN None ELSE MemberOf[a][d]]]
              /\ Listening' = [s \in Streams |->
                     IF Listening[s] \in {MemberOf[a][d] : d \in D} THEN None
                     ELSE Listening[s]]
              /\ Issued' = Issued
      BY <2>2 DEF Members!PutOut
    <3>2. \A b \in AccountIds, e \in DeviceIds :
              MemberOf'[b][e] = IF b = a /\ e \in D THEN None ELSE MemberOf[b][e]
      BY <3>1
    <3>3. MemberOf' \in [AccountIds -> [DeviceIds -> Issued' \cup {None}]]
      BY <3>1
    <3>4. Listening' \in [Streams -> Issued' \cup {None}]
      BY <3>1
    <3>5. \A b, o \in AccountIds, e, f \in DeviceIds :
              MemberOf'[b][e] # None /\ MemberOf'[b][e] = MemberOf'[o][f] => b = o /\ e = f
      BY <3>2
    <3> QED
      BY <3>1, <3>3, <3>4, <3>5
  <2>3. ASSUME NEW s \in Streams, Members!Listen(s)
        PROVE  MembersInv'
    <3>1. PICK a \in AccountIds, d \in DeviceIds :
              /\ Listening' = [Listening EXCEPT ![s] = MemberOf[a][d]]
              /\ Issued' = Issued /\ MemberOf' = MemberOf
      BY <2>3 DEF Members!Listen
    <3>2. MemberOf[a][d] \in Issued \cup {None}
      OBVIOUS
    <3> QED
      BY <3>1, <3>2
  <2>4. ASSUME NEW S \in SUBSET Streams, Members!Stop(S)
        PROVE  MembersInv'
    <3>1. /\ Listening' = [s \in Streams |-> IF s \in S THEN None ELSE Listening[s]]
          /\ Issued' = Issued /\ MemberOf' = MemberOf
      BY <2>4 DEF Members!Stop
    <3> QED
      BY <3>1
  <2>5. CASE UNCHANGED Members!memberVars
    BY <2>5 DEF Members!memberVars
  <2> QED
    BY <2>1, <2>2, <2>3, <2>4, <2>5 DEF Members!MemberNext
<1>3. MembersInv => Members!OneDevicePerCredential
  BY DEF MembersInv
<1> QED
  BY <1>1, <1>2, <1>3, PTL DEF Members!MemberSpec

-----------------------------------------------------------------------------
(* The caps *)

(* Every stream on the hub was opened with a credential that was issued.   *)
StreamsIssued == \A s \in hub : state[streams[s]] # "unminted"

OnHub(a) == {s \in hub : credentials[streams[s]].account = a}

(* "the per-account cap alone does not bound the registry": both caps hold *)
(* of the streams that are on the hub, not of the hub's count alone.       *)
HubWithinCaps ==
    /\ Cardinality(hub) <= MaxTotal
    /\ \A a \in AccountIds : Cardinality(OnHub(a)) <= MaxPerAccount

(* Streams that leave the hub make no cap fail.                            *)
LEMMA FewerWithinCaps ==
    ASSUME TypeOK, HubWithinCaps, hub' \subseteq hub,
           \A s \in hub' : credentials'[streams'[s]] = credentials[streams[s]]
    PROVE  HubWithinCaps'
<1>1. Cardinality(hub') <= Cardinality(hub) /\ Cardinality(hub') \in Nat
  BY HubFinite, FS_Subset
<1>2. ASSUME NEW a \in AccountIds
      PROVE  Cardinality(OnHub(a)') <= MaxPerAccount
  <2>1. OnHub(a)' \subseteq OnHub(a) /\ OnHub(a) \in SUBSET hub /\ OnHub(a)' \in SUBSET hub
    BY DEF OnHub
  <2>2. /\ Cardinality(OnHub(a)') <= Cardinality(OnHub(a))
        /\ Cardinality(OnHub(a)) \in Nat /\ Cardinality(OnHub(a)') \in Nat
    BY <2>1, HubFinite, FS_Subset
  <2>3. Cardinality(OnHub(a)) <= MaxPerAccount
    BY DEF HubWithinCaps
  <2> QED
    BY <2>2, <2>3, Caps
<1>3. Cardinality(hub) \in Nat /\ Cardinality(hub) <= MaxTotal
  BY HubFinite DEF HubWithinCaps
<1> QED
  BY <1>1, <1>2, <1>3, Caps DEF HubWithinCaps

(* A stream that is admitted takes one place of each cap.                  *)
LEMMA ConnectWithinCaps ==
    ASSUME IInv, HubWithinCaps, NEW s \in Streams, NEW c \in CredentialIds, Connect(s, c)
    PROVE  HubWithinCaps'
<1> DEFINE a == credentials[c].account
<1>1. /\ s \notin hub /\ hub' = hub \cup {s} /\ streams' = [streams EXCEPT ![s] = c]
      /\ UNCHANGED credentials /\ Admits(a)
  BY DEF Connect, credentialVars
<1>2. \A r \in hub : r \in Streams /\ streams'[r] = streams[r]
  BY <1>1 DEF IInv, TypeOK
<1>3. streams'[s] = c
  BY <1>1 DEF IInv, TypeOK
<1>4. Cardinality(hub') <= MaxTotal
  <2>1. Cardinality(hub') = Cardinality(hub) + 1
    BY <1>1, HubFinite, FS_AddElement DEF IInv
  <2>2. Cardinality(hub) < MaxTotal
    BY <1>1 DEF Admits, IInv, CountIsExact
  <2> QED
    BY <2>1, <2>2, HubFinite, Caps DEF IInv
<1>5. ASSUME NEW b \in AccountIds
      PROVE  Cardinality(OnHub(b)') <= MaxPerAccount
  <2>1. OnHub(b) \in SUBSET hub
    BY DEF OnHub
  <2>2. IsFiniteSet(OnHub(b)) /\ Cardinality(OnHub(b)) \in Nat
    BY <2>1, HubFinite DEF IInv
  <2>3. CASE b = a
    <3>1. OnHub(b)' = OnHub(b) \cup {s} /\ s \notin OnHub(b)
      BY <1>1, <1>2, <1>3, <2>3 DEF OnHub
    <3>2. Cardinality(OnHub(b) \cup {s}) = Cardinality(OnHub(b)) + 1
      BY <2>2, <3>1, FS_AddElement
    <3>3. Cardinality(OnHub(b)) < MaxPerAccount
      BY <1>1, <2>3 DEF Admits, OnHub
    <3> QED
      BY <2>2, <3>1, <3>2, <3>3, Caps
  <2>4. CASE b # a
    <3>1. OnHub(b)' = OnHub(b)
      BY <1>1, <1>2, <1>3, <2>4 DEF OnHub
    <3> QED
      BY <3>1 DEF HubWithinCaps
  <2> QED
    BY <2>3, <2>4
<1> QED
  BY <1>4, <1>5 DEF HubWithinCaps

(* No sequence of connects, drops, errors, revocations and enrollments     *)
(* puts more streams on the hub than its caps allow, of one account or of  *)
(* all: what counts is the account a stream's credential was issued for.   *)
THEOREM HubWithinCapsHolds == Spec => []HubWithinCaps
<1>1. Init => StreamsIssued /\ HubWithinCaps
  <2> SUFFICES ASSUME Init PROVE StreamsIssued /\ HubWithinCaps
    OBVIOUS
  <2>1. hub = {} /\ \A a \in AccountIds : OnHub(a) = {}
    BY DEF Init, OnHub
  <2>2. Cardinality({}) = 0
    BY FS_EmptySet
  <2>3. HubWithinCaps
    BY <2>1, <2>2, Caps DEF HubWithinCaps
  <2> QED
    BY <2>1, <2>3 DEF StreamsIssued
<1>2. ASSUME IInv, StreamsIssued, HubWithinCaps, [Next]_vars
      PROVE  StreamsIssued' /\ HubWithinCaps'
  <2> USE <1>2
  <2>1. \A s \in hub : s \in Streams /\ streams[s] \in CredentialIds
    BY DEF IInv, TypeOK
  <2>2. ASSUME hub' \subseteq hub, \A s \in hub' : streams'[s] = streams[s],
               UNCHANGED credentials,
               \A c \in CredentialIds : state'[c] = "unminted" => state[c] = "unminted"
        PROVE  StreamsIssued' /\ HubWithinCaps'
    <3>1. StreamsIssued'
      BY <2>1, <2>2 DEF StreamsIssued
    <3>2. HubWithinCaps'
      BY <2>2, FewerWithinCaps DEF IInv
    <3> QED
      BY <3>1, <3>2
  <2>3. ASSUME NEW s \in Streams, NEW c \in CredentialIds, Connect(s, c)
        PROVE  StreamsIssued' /\ HubWithinCaps'
    <3>1. /\ hub' = hub \cup {s} /\ streams' = [streams EXCEPT ![s] = c]
          /\ state[c] = "active" /\ UNCHANGED state
      BY <2>3 DEF Connect, Active, credentialVars
    <3>2. StreamsIssued'
      BY <3>1 DEF StreamsIssued, IInv, TypeOK
    <3> QED
      BY <2>3, <3>2, ConnectWithinCaps
  <2>4. ASSUME NEW k \in 1..minted, NEW d \in DeviceIds, NEW c \in CredentialIds,
               Enroll(k, d, c)
        PROVE  StreamsIssued' /\ HubWithinCaps'
    <3>1. PICK a \in AccountIds : IssueCredential(a, d, k, c)
      BY <2>4 DEF Enroll
    <3>2. state[c] = "unminted" /\ UNCHANGED <<hub, streams>>
      BY <2>4 DEF Enroll, streamVars
    <3>3. \A o \in CredentialIds \ {c} :
              credentials'[o] = credentials[o]
              /\ (state'[o] = "unminted" => state[o] = "unminted")
      BY <3>1 DEF IssueCredential, IInv, TypeOK
    <3>4. \A s \in hub : streams[s] \in CredentialIds \ {c}
      BY <2>1, <3>2 DEF StreamsIssued
    <3>5. StreamsIssued'
      BY <3>2, <3>3, <3>4 DEF StreamsIssued
    <3>6. HubWithinCaps'
      BY <3>2, <3>3, <3>4, FewerWithinCaps DEF IInv
    <3> QED
      BY <3>5, <3>6
  <2>5. ASSUME NEW a \in AccountIds,
               DeleteAccount(a) \/ \E revokeDevices \in BOOLEAN : RotateAccountKey(a, revokeDevices)
        PROVE  StreamsIssued' /\ HubWithinCaps'
    BY <2>2, <2>5 DEF DeleteAccount, RotateAccountKey, Disconnect, streamVars
  <2>6. ASSUME NEW c \in CredentialIds, RevokeCredential(c)
        PROVE  StreamsIssued' /\ HubWithinCaps'
    <3>1. /\ hub' \subseteq hub /\ UNCHANGED <<streams, credentials>>
          /\ state' = [state EXCEPT ![c] = "revoked"]
      BY <2>6 DEF RevokeCredential, Disconnect
    <3>2. \A o \in CredentialIds : state'[o] = "unminted" => state[o] = "unminted"
      BY <3>1 DEF IInv, TypeOK
    <3> QED
      BY <2>2, <3>1, <3>2
  <2>7. ASSUME NEW s \in Streams, CloseEvent(s) \/ Heartbeat(s)
        PROVE  StreamsIssued' /\ HubWithinCaps'
    <3>1. /\ hub' = hub \ {s} /\ streams' = [streams EXCEPT ![s] = None]
          /\ UNCHANGED credentialVars
      BY <2>7 DEF CloseEvent, Heartbeat, Unsubscribe
    <3>2. \A r \in hub' : streams'[r] = streams[r]
      BY <2>1, <3>1 DEF IInv, TypeOK
    <3> QED
      BY <2>2, <3>1, <3>2 DEF credentialVars
  <2>8. CASE Restart
    BY <2>2, <2>8 DEF Restart, credentialVars
  <2>9. ASSUME NEW s \in Streams, Drop(s) PROVE StreamsIssued' /\ HubWithinCaps'
    BY <2>2, <2>9 DEF Drop, credentialVars
  <2>10. ASSUME NEW a \in AccountIds, CreateAccount(a)
         PROVE  StreamsIssued' /\ HubWithinCaps'
    BY <2>2, <2>10 DEF CreateAccount, credentialVars, streamVars
  <2>11. ASSUME NEW r \in Requests, Serve(r) PROVE StreamsIssued' /\ HubWithinCaps'
    BY <2>2, <2>11 DEF Serve, Authenticate, HandleWrite, AbortRequest, credentialVars, streamVars
  <2>12. CASE UNCHANGED vars
    BY <2>2, <2>12 DEF vars
  <2> QED
    BY <2>3, <2>4, <2>5, <2>6, <2>7, <2>8, <2>9, <2>10, <2>11, <2>12
       DEF Next, Administer, Stream
<1> QED
  BY <1>1, <1>2, Invariance, PTL DEF Spec
=============================================================================
