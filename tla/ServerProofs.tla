---------------------------- MODULE ServerProofs ----------------------------
(***************************************************************************)
(* Theorems about Server, for any number of processes, builds, migrations, *)
(* blobs and pieces of a file, and any deployment.                         *)
(*                                                                         *)
(* The invariant has three independent parts.  The schema: a process has   *)
(* read a version that the database has not gone below, and passes a       *)
(* migration only when it is applied.  The configuration: a process that   *)
(* is up runs what the operator's settings load to, and a request holds a  *)
(* proof that this configuration opens.  The disk: a piece that a file of  *)
(* a blob lacks is one that some process will still write into that same   *)
(* file, unless a process died storing the blob.                           *)
(***************************************************************************)
EXTENDS Server, TLAPS

-----------------------------------------------------------------------------
(* The invariant.                                                          *)

\* No process is further than the database, or serves without its migrations.
Behind ==
    \A p \in Processes :
        /\ phase[p] # "down" => next[p] \in 1..version + 1
        /\ phase[p] \in {"serving", "draining"} => next[p] > Target[p]

Configured ==
    \A p \in Processes :
        /\ phase[p] # "down" => config[p] = LoadConfig(settings) /\ config[p] # Fatal
        /\ request[p] # None => phase[p] # "down" /\ request[p] \in OpenedBy(config[p])

\* A process has a file open only for the blob it is storing, and that file is
\* there if it has a name.
HandlesHold ==
    \A p \in Processes :
        /\ put[p] # None => put[p] \in Stores[p]
        /\ file[p].name # "none" => put[p] # None
        /\ file[p].name = "none" => file[p].written = {}
        /\ file[p].name = "temp" => temp[put[p]] # Absent
        /\ file[p].name = "blob" => blob[put[p]] # Absent

\* p will still write piece c into the file of h that has this kind of name.
WillWrite(p, h, name, c) ==
    put[p] = h /\ file[p].name = name /\ c \notin file[p].written

GapsAreFilled ==
    \A h \in Hashes \ torn : \A c \in Chunks :
        /\ temp[h] # Absent /\ temp[h][c] # h
             => \E p \in Processes : WillWrite(p, h, "temp", c)
        /\ blob[h] # Absent /\ blob[h][c] # h
             => \E p \in Processes : WillWrite(p, h, "blob", c)

\* A blob that is stored through one process only is written by it alone.
OneWriter ==
    \A h \in Hashes : StoredThroughOne(h) =>
        /\ blob[h] \in {Absent, Whole(h)}
        /\ \A p \in Processes : put[p] = h =>
               /\ file[p].name \in {"none", "temp"}
               /\ \A c \in file[p].written : temp[h][c] = h

DiskHolds == HandlesHold /\ GapsAreFilled /\ OneWriter

IInv == TypeOK /\ SchemaWhole /\ Behind /\ Configured /\ DiskHolds

-----------------------------------------------------------------------------
(* The configuration.                                                      *)

LEMMA NormalizeInModes ==
    ASSUME NEW v, NEW modes, NEW default \in modes
    PROVE  Normalize(v, modes, default) \in modes \cup {Fatal}
BY DEF Normalize

\* What loads is a configuration.
LEMMA LoadConfigType ==
    ASSUME NEW s, LoadConfig(s) # Fatal
    PROVE  LoadConfig(s) \in ConfigRecord
<1>1. ~Refused(s) /\ LoadConfig(s) = [authMode |-> AuthMode(s), enrollmentMode |-> EnrollmentMode(s)]
    BY DEF LoadConfig
<1>2. AuthMode(s) \in AuthModes
    <2>1. "shared" \in AuthModes BY DEF AuthModes
    <2>2. AuthMode(s) \in AuthModes \cup {Fatal} BY <2>1, NormalizeInModes DEF AuthMode
    <2> QED BY <1>1, <2>2 DEF Refused
<1>3. EnrollmentMode(s) \in EnrollmentModes
    <2>1. "bootstrap" \in EnrollmentModes BY DEF EnrollmentModes
    <2>2. EnrollmentMode(s) \in EnrollmentModes \cup {Fatal} BY <2>1, NormalizeInModes DEF EnrollmentMode
    <2> QED BY <1>1, <2>2 DEF Refused
<1> QED BY <1>1, <1>2, <1>3 DEF ConfigRecord

\* A setting that loads as the default was not asked to be anything else.
LEMMA DefaultIsAsked ==
    ASSUME settings \in Settings, NEW n \in Names, NEW modes, NEW default \in modes,
           ReadFileConfig(settings) # Fatal, default # Fatal,
           settings.fileState # "garbled" \/ settings.requested,
           Normalize(Setting(settings, n), modes, default) = default
    PROVE  Asked(n) \in {Unset, Blank, default}
<1>1. settings.fileState \in {"missing", "garbled", "valid"} /\ settings.requested \in BOOLEAN
    BY DEF Settings
<1>2. Setting(settings, n) \in {Unset, Blank, default}
    BY DEF Normalize, Given
<1>3. CASE Given(settings.env[n])
    BY <1>2, <1>3 DEF Asked, Given, Setting, WithoutBlankSettings
<1>4. CASE ~Given(settings.env[n])
    <2>1. Setting(settings, n) = ReadFileConfig(settings)[n]
        BY <1>4 DEF Given, Setting, WithoutBlankSettings
    <2>2. CASE settings.fileState = "valid"
        BY <1>2, <1>4, <2>1, <2>2 DEF Asked, ReadFileConfig
    <2>3. CASE settings.fileState # "valid"
        BY <1>1, <1>4, <2>3 DEF Asked, ReadFileConfig
    <2> QED BY <2>2, <2>3
<1> QED BY <1>3, <1>4

-----------------------------------------------------------------------------
(* The invariant is kept.                                                  *)

LEMMA InitHolds == Init => IInv
<1> SUFFICES ASSUME Init PROVE IInv OBVIOUS
<1>1. TypeOK
    BY BuildsCarryMigrations, DeploymentsAreSettings DEF Init, TypeOK, Handle, NoHandle, Migrations
<1>2. SchemaWhole
    BY BuildsCarryMigrations DEF Init, SchemaWhole, Migrations
<1>3. Behind /\ Configured
    BY DEF Init, Behind, Configured
<1>4. DiskHolds
    BY ModelValuesDiffer DEF Init, DiskHolds, HandlesHold, GapsAreFilled, OneWriter, NoHandle
<1> QED BY <1>1, <1>2, <1>3, <1>4 DEF IInv

\* What is left when a process ends.
LEMMA GoneType ==
    ASSUME IInv, NEW p \in Processes, Gone(p), UNCHANGED dbVars
    PROVE  TypeOK'
<1> USE DEF IInv, TypeOK, dbVars
<1>1. phase' \in [Processes -> {"down", "migrating", "serving", "draining"}]
      /\ config' \in [Processes -> ConfigRecord \cup {None}]
      /\ next' \in [Processes -> 0..Latest + 1]
      /\ request' \in [Processes -> Proofs \cup {None}]
    BY BuildsCarryMigrations DEF Gone
<1>2. put' \in [Processes -> Hashes \cup {None}] /\ file' \in [Processes -> Handle] /\ torn' \in SUBSET Hashes
    BY DEF Gone, Handle, NoHandle
<1> QED BY <1>1, <1>2 DEF Gone

LEMMA TypeStep ==
    ASSUME IInv, [Next]_vars
    PROVE  TypeOK'
<1> USE DEF IInv
<1>1. CASE UNCHANGED vars
    BY <1>1 DEF vars, dbVars, diskVars, TypeOK
<1>2. ASSUME NEW p \in Processes, Boot(p) PROVE TypeOK'
    <2>1. LoadConfig(settings) \in ConfigRecord
        BY <1>2, LoadConfigType DEF Boot
    <2>2. version + 1 \in 0..Latest + 1
        BY BuildsCarryMigrations DEF TypeOK
    <2> QED BY <1>2, <2>1, <2>2 DEF Boot, StartAt, TypeOK, dbVars, diskVars
<1>3. ASSUME NEW p \in Processes, Migrate(p) PROVE TypeOK'
    <2>1. phase[p] = "migrating" /\ next[p] <= Target[p]
        BY <1>3 DEF Migrate
    <2>2. next[p] \in 1..version + 1 /\ version \in 0..Latest /\ Target[p] \in 0..Latest
        BY <2>1, BuildsCarryMigrations DEF Behind, TypeOK
    <2>3. next[p] \in 1..Latest /\ next[p] + 1 \in 0..Latest + 1
        BY <2>1, <2>2, BuildsCarryMigrations
    <2> QED BY <1>3, <2>3 DEF Migrate, Apply, TypeOK, diskVars, Migrations
<1>4. ASSUME NEW p \in Processes, MigrateThrows(p) PROVE TypeOK'
    BY <1>4, GoneType DEF MigrateThrows
<1>5. ASSUME NEW p \in Processes, Listen(p) PROVE TypeOK'
    BY <1>5 DEF Listen, TypeOK, dbVars, diskVars
<1>6. ASSUME NEW p \in Processes, NEW proof \in Proofs, Accept(p, proof) PROVE TypeOK'
    BY <1>6 DEF Accept, TypeOK, dbVars, diskVars
<1>7. ASSUME NEW p \in Processes, EndRequest(p) PROVE TypeOK'
    BY <1>7 DEF EndRequest, TypeOK, dbVars, diskVars
<1>8. ASSUME NEW p \in Processes, NEW h \in Stores[p], BeginPut(p, h) PROVE TypeOK'
    <2>1. h \in Hashes BY StoresHashes
    <2> QED BY <1>8, <2>1 DEF BeginPut, TypeOK, dbVars
<1>9. ASSUME NEW p \in Processes, NEW h \in Hashes, RemoveBlob(p, h) PROVE TypeOK'
    <2>1. file' \in [Processes -> Handle]
        BY <1>9 DEF RemoveBlob, TypeOK, Handle
    <2> QED BY <1>9, <2>1 DEF RemoveBlob, TypeOK, dbVars
<1>10. ASSUME NEW p \in Processes, OpenTemp(p) PROVE TypeOK'
    <2>1. file' \in [Processes -> Handle]
        BY <1>10 DEF OpenTemp, TypeOK, Handle
    <2>2. temp' \in [Hashes -> Content \cup {Absent}]
        BY <1>10 DEF OpenTemp, TypeOK, TempName, Content, Empty
    <2> QED BY <1>10, <2>1, <2>2 DEF OpenTemp, TypeOK, dbVars
<1>11. ASSUME NEW p \in Processes, WriteChunk(p) PROVE TypeOK'
    <2>1. PICK c \in Chunks \ file[p].written :
            /\ file[p].name # "none"
            /\ file' = [file EXCEPT ![p].written = @ \cup {c}]
            /\ temp' = IF file[p].name = "temp" THEN [temp EXCEPT ![put[p]][c] = put[p]] ELSE temp
            /\ blob' = IF file[p].name = "blob" THEN [blob EXCEPT ![put[p]][c] = put[p]] ELSE blob
            /\ UNCHANGED <<settings, phase, config, next, request, dbVars, put, torn>>
        BY <1>11 DEF WriteChunk, TempName
    <2>2. put[p] \in Hashes
        BY <2>1 DEF DiskHolds, HandlesHold, TypeOK
    <2>3. file' \in [Processes -> Handle]
        BY <2>1 DEF TypeOK, Handle
    <2>4. temp' \in [Hashes -> Content \cup {Absent}]
        <3>1. CASE file[p].name = "temp"
            <4>1. temp[put[p]] \in Content
                BY <2>2, <3>1 DEF DiskHolds, HandlesHold, TypeOK
            <4>2. [temp[put[p]] EXCEPT ![c] = put[p]] \in Content
                BY <2>2, <4>1 DEF Content
            <4>3. temp' = [temp EXCEPT ![put[p]] = [temp[put[p]] EXCEPT ![c] = put[p]]]
                BY <2>1, <2>2, <3>1 DEF TypeOK
            <4> QED BY <2>2, <4>2, <4>3 DEF TypeOK
        <3>2. CASE file[p].name # "temp"
            BY <2>1, <3>2 DEF TypeOK
        <3> QED BY <3>1, <3>2
    <2>5. blob' \in [Hashes -> Content \cup {Absent}]
        <3>1. CASE file[p].name = "blob"
            <4>1. blob[put[p]] \in Content
                BY <2>2, <3>1 DEF DiskHolds, HandlesHold, TypeOK
            <4>2. [blob[put[p]] EXCEPT ![c] = put[p]] \in Content
                BY <2>2, <4>1 DEF Content
            <4>3. blob' = [blob EXCEPT ![put[p]] = [blob[put[p]] EXCEPT ![c] = put[p]]]
                BY <2>1, <2>2, <3>1 DEF TypeOK
            <4> QED BY <2>2, <4>2, <4>3 DEF TypeOK
        <3>2. CASE file[p].name # "blob"
            BY <2>1, <3>2 DEF TypeOK
        <3> QED BY <3>1, <3>2
    <2> QED BY <2>1, <2>3, <2>4, <2>5 DEF TypeOK, dbVars
<1>12. ASSUME NEW p \in Processes, Rename(p) PROVE TypeOK'
    <2>1. put[p] \in Hashes
        BY <1>12 DEF Rename, TypeOK
    <2>2. \A q \in Processes : Renamed(p, q) \in Handle
        BY DEF Renamed, TypeOK, Handle, NoHandle
    <2>3. file' \in [Processes -> Handle]
        BY <1>12, <2>2 DEF Rename, TypeOK, Handle, NoHandle
    <2>4. blob' \in [Hashes -> Content \cup {Absent}] /\ temp' \in [Hashes -> Content \cup {Absent}]
        BY <1>12, <2>1 DEF Rename, TempName, TypeOK
    <2> QED BY <1>12, <2>3, <2>4 DEF Rename, TypeOK, dbVars
<1>13. ASSUME NEW p \in Processes, Shutdown(p) PROVE TypeOK'
    BY <1>13 DEF Shutdown, TypeOK, dbVars, diskVars
<1>14. ASSUME NEW p \in Processes, Drained(p) \/ KillDraining(p) \/ Crash(p) PROVE TypeOK'
    BY <1>14, GoneType DEF Drained, KillDraining, Crash
<1> QED
    BY <1>1, <1>2, <1>3, <1>4, <1>5, <1>6, <1>7, <1>8, <1>9, <1>10, <1>11, <1>12, <1>13, <1>14 DEF Next

\* The schema and the versions the processes have read.
LEMMA SchemaStep ==
    ASSUME IInv, [Next]_vars
    PROVE  SchemaWhole' /\ Behind'
<1> USE DEF IInv, SchemaWhole, Behind
<1> USE BuildsCarryMigrations
<1>1. CASE UNCHANGED <<phase, next, version, applied>>
    BY <1>1
<1>2. ASSUME NEW p \in Processes, Boot(p) PROVE SchemaWhole' /\ Behind'
    BY <1>2 DEF Boot, StartAt, TypeOK, dbVars
<1>3. ASSUME NEW p \in Processes, Migrate(p) PROVE SchemaWhole' /\ Behind'
    <2>1. next[p] \in 1..Latest /\ ~applied[next[p]] /\ next[p] \in 1..version + 1
        BY <1>3 DEF Migrate, Apply, TypeOK
    <2>2. next[p] = version + 1
        BY <2>1 DEF TypeOK, Migrations
    <2>3. version' = version + 1 /\ applied' = [applied EXCEPT ![version + 1] = TRUE]
        BY <1>3, <2>2 DEF Migrate, Apply
    <2>4. SchemaWhole'
        BY <2>1, <2>2, <2>3 DEF TypeOK, Migrations
    <2>5. phase' = phase /\ next' = [next EXCEPT ![p] = next[p] + 1]
        BY <1>3 DEF Migrate
    <2>6. Behind'
        BY <1>3, <2>1, <2>2, <2>3, <2>5 DEF Migrate, TypeOK
    <2> QED BY <2>4, <2>6
<1>4. ASSUME NEW p \in Processes, Gone(p), UNCHANGED dbVars PROVE SchemaWhole' /\ Behind'
    BY <1>4 DEF Gone, TypeOK, dbVars
<1>5. ASSUME NEW p \in Processes, Listen(p) PROVE SchemaWhole' /\ Behind'
    BY <1>5 DEF Listen, TypeOK, dbVars
<1>6. ASSUME NEW p \in Processes, Shutdown(p) PROVE SchemaWhole' /\ Behind'
    BY <1>6 DEF Shutdown, TypeOK, dbVars
<1>7. ASSUME NEW p \in Processes,
             \/ \E proof \in Proofs : Accept(p, proof)
             \/ EndRequest(p) \/ OpenTemp(p) \/ WriteChunk(p) \/ Rename(p)
             \/ \E h \in Stores[p] : BeginPut(p, h)
             \/ \E h \in Hashes : RemoveBlob(p, h)
      PROVE  UNCHANGED <<phase, next, version, applied>>
    BY <1>7 DEF Accept, EndRequest, OpenTemp, WriteChunk, Rename, BeginPut, RemoveBlob, dbVars
<1> QED
    BY <1>1, <1>2, <1>3, <1>4, <1>5, <1>6, <1>7
    DEF Next, vars, dbVars, MigrateThrows, Drained, KillDraining, Crash

\* What the processes run and what their requests hold.
LEMMA ConfigStep ==
    ASSUME IInv, [Next]_vars
    PROVE  Configured'
<1> USE DEF IInv, Configured
<1>1. CASE UNCHANGED <<settings, phase, config, request>>
    BY <1>1
<1>2. ASSUME NEW p \in Processes, Boot(p) PROVE Configured'
    BY <1>2 DEF Boot, TypeOK
<1>3. ASSUME NEW p \in Processes, Gone(p) PROVE Configured'
    BY <1>3 DEF Gone, TypeOK
<1>4. ASSUME NEW p \in Processes, Listen(p) \/ Shutdown(p) PROVE Configured'
    BY <1>4 DEF Listen, Shutdown, TypeOK
<1>5. ASSUME NEW p \in Processes, NEW proof \in Proofs, Accept(p, proof) PROVE Configured'
    BY <1>5 DEF Accept, TypeOK
<1>6. ASSUME NEW p \in Processes, EndRequest(p) PROVE Configured'
    BY <1>6 DEF EndRequest, TypeOK
<1>7. ASSUME NEW p \in Processes,
             \/ Migrate(p) \/ OpenTemp(p) \/ WriteChunk(p) \/ Rename(p)
             \/ \E h \in Stores[p] : BeginPut(p, h)
             \/ \E h \in Hashes : RemoveBlob(p, h)
      PROVE  UNCHANGED <<settings, phase, config, request>>
    BY <1>7 DEF Migrate, OpenTemp, WriteChunk, Rename, BeginPut, RemoveBlob
<1> QED
    BY <1>1, <1>2, <1>3, <1>4, <1>5, <1>6, <1>7
    DEF Next, vars, MigrateThrows, Drained, KillDraining, Crash

-----------------------------------------------------------------------------
(* The disk.                                                               *)

LEMMA HandlesStep ==
    ASSUME IInv, [Next]_vars
    PROVE  HandlesHold'
<1> USE DEF IInv, DiskHolds, HandlesHold
<1>1. CASE UNCHANGED diskVars
    BY <1>1 DEF diskVars
<1>2. ASSUME NEW p \in Processes, NEW h \in Stores[p], BeginPut(p, h) PROVE HandlesHold'
    BY <1>2 DEF BeginPut, Idle, TypeOK
<1>3. ASSUME NEW p \in Processes, OpenTemp(p) PROVE HandlesHold'
    <2>1. put[p] \in Hashes /\ file[p] = NoHandle
        BY <1>3 DEF OpenTemp, TypeOK
    <2>2. temp' = [temp EXCEPT ![put[p]] = Empty] /\ Empty # Absent
        BY <1>3, AbsentIsNoFile DEF OpenTemp, TempName, Empty, Content
    <2>3. file' = [file EXCEPT ![p].name = "temp"] /\ UNCHANGED <<put, blob>>
        BY <1>3 DEF OpenTemp
    <2>4. \A h \in Hashes : temp[h] # Absent => temp'[h] # Absent
        BY <2>2 DEF TypeOK
    <2>5. temp'[put[p]] # Absent
        BY <2>1, <2>2 DEF TypeOK
    <2>6. put[p] # None /\ file'[p].name = "temp" /\ file'[p].written = file[p].written
        BY <1>3, <2>3 DEF OpenTemp, TypeOK, Handle
    <2>7. \A q \in Processes \ {p} : file'[q] = file[q]
        BY <2>3 DEF TypeOK
    <2> QED BY <2>3, <2>4, <2>5, <2>6, <2>7 DEF TypeOK
<1>4. ASSUME NEW p \in Processes, WriteChunk(p) PROVE HandlesHold'
    <2>1. put[p] \in Hashes /\ file[p].name # "none"
        BY <1>4 DEF WriteChunk, TypeOK
    <2>2. PICK c \in Chunks : file' = [file EXCEPT ![p].written = @ \cup {c}]
        BY <1>4 DEF WriteChunk
    <2>3. \A h \in Hashes : (temp[h] # Absent => temp'[h] # Absent) /\ (blob[h] # Absent => blob'[h] # Absent)
        BY <1>4, <2>1, AbsentIsNoFile DEF WriteChunk, TempName, TypeOK, Content
    <2>4. UNCHANGED put
        BY <1>4 DEF WriteChunk
    <2> QED BY <2>1, <2>2, <2>3, <2>4 DEF TypeOK, Handle
<1>5. ASSUME NEW p \in Processes, Rename(p) PROVE HandlesHold'
    <2>1. put[p] \in Hashes /\ put' = [put EXCEPT ![p] = None]
        BY <1>5 DEF Rename, TypeOK
    <2>2. CASE temp[put[p]] # Absent
        <3>1. /\ blob' = [blob EXCEPT ![put[p]] = temp[put[p]]]
              /\ temp' = [temp EXCEPT ![put[p]] = Absent]
              /\ file' = [q \in Processes |-> Renamed(p, q)]
            BY <1>5, <2>2 DEF Rename, TempName
        <3> QED BY <2>1, <2>2, <3>1 DEF TypeOK, Renamed, TempName, NoHandle, Handle
    <2>3. CASE temp[put[p]] = Absent
        <3>1. file' = [file EXCEPT ![p] = NoHandle] /\ UNCHANGED <<blob, temp>>
            BY <1>5, <2>3 DEF Rename, TempName
        <3> QED BY <2>1, <3>1 DEF TypeOK, NoHandle, Handle
    <2> QED BY <2>2, <2>3
<1>6. ASSUME NEW p \in Processes, NEW h \in Hashes, RemoveBlob(p, h) PROVE HandlesHold'
    BY <1>6 DEF RemoveBlob, TypeOK, Handle
<1>7. ASSUME NEW p \in Processes, Gone(p) PROVE HandlesHold'
    BY <1>7 DEF Gone, TypeOK, NoHandle
<1>8. ASSUME NEW p \in Processes,
             \/ Boot(p) \/ Migrate(p) \/ Listen(p) \/ EndRequest(p) \/ Shutdown(p)
             \/ \E proof \in Proofs : Accept(p, proof)
      PROVE  UNCHANGED diskVars
    BY <1>8 DEF Boot, Migrate, Listen, EndRequest, Shutdown, Accept
<1> QED
    BY <1>1, <1>2, <1>3, <1>4, <1>5, <1>6, <1>7, <1>8
    DEF Next, vars, MigrateThrows, Drained, KillDraining, Crash

LEMMA GapsStep ==
    ASSUME IInv, [Next]_vars
    PROVE  GapsAreFilled'
<1> USE DEF IInv, DiskHolds
<1>0. None \notin Hashes BY ModelValuesDiffer
<1>1. CASE UNCHANGED diskVars
    BY <1>1 DEF diskVars, GapsAreFilled, WillWrite
<1>2. ASSUME NEW p \in Processes, NEW h \in Stores[p], BeginPut(p, h) PROVE GapsAreFilled'
    <2>1. put[p] = None /\ put' = [put EXCEPT ![p] = h] /\ UNCHANGED <<file, blob, temp, torn>>
        BY <1>2 DEF BeginPut, Idle
    <2>2. \A q \in Processes, g \in Hashes, name \in {"temp", "blob"}, c \in Chunks :
              WillWrite(q, g, name, c) => WillWrite(q, g, name, c)'
        BY <1>0, <2>1 DEF WillWrite, TypeOK
    <2> QED BY <2>1, <2>2 DEF GapsAreFilled
<1>3. ASSUME NEW p \in Processes, OpenTemp(p) PROVE GapsAreFilled'
    <2>1. put[p] \in Hashes /\ file[p] = NoHandle
        BY <1>3 DEF OpenTemp, TypeOK
    <2>2. /\ temp' = [temp EXCEPT ![put[p]] = Empty]
          /\ file' = [file EXCEPT ![p].name = "temp"]
          /\ UNCHANGED <<put, blob, torn>>
        BY <1>3 DEF OpenTemp, TempName
    <2>3. \A c \in Chunks : WillWrite(p, put[p], "temp", c)'
        BY <2>1, <2>2 DEF WillWrite, TypeOK, Handle, NoHandle
    <2>4. \A q \in Processes, g \in Hashes, name \in {"temp", "blob"}, c \in Chunks :
              WillWrite(q, g, name, c) => WillWrite(q, g, name, c)'
        BY <2>1, <2>2 DEF WillWrite, TypeOK, NoHandle
    <2>5. \A g \in Hashes \ {put[p]} : temp'[g] = temp[g]
        BY <2>2 DEF TypeOK
    <2> QED BY <2>1, <2>2, <2>3, <2>4, <2>5 DEF GapsAreFilled
<1>4. ASSUME NEW p \in Processes, WriteChunk(p) PROVE GapsAreFilled'
    <2>1. PICK c \in Chunks \ file[p].written :
            /\ file[p].name # "none"
            /\ file' = [file EXCEPT ![p].written = @ \cup {c}]
            /\ temp' = IF file[p].name = "temp" THEN [temp EXCEPT ![put[p]][c] = put[p]] ELSE temp
            /\ blob' = IF file[p].name = "blob" THEN [blob EXCEPT ![put[p]][c] = put[p]] ELSE blob
            /\ UNCHANGED <<put, torn>>
        BY <1>4 DEF WriteChunk, TempName
    <2>2. put[p] \in Hashes
        BY <2>1 DEF HandlesHold, TypeOK
    <2>3. \A q \in Processes, g \in Hashes, name \in {"temp", "blob"}, d \in Chunks :
              WillWrite(q, g, name, d) =>
                  WillWrite(q, g, name, d)' \/ (q = p /\ g = put[p] /\ name = file[p].name /\ d = c)
        BY <2>1 DEF WillWrite, TypeOK, Handle
    <2>4. \A g \in Hashes, d \in Chunks : temp'[g] # Absent /\ temp'[g][d] # g =>
              /\ temp[g] # Absent /\ temp[g][d] # g
              /\ ~(g = put[p] /\ file[p].name = "temp" /\ d = c)
        <3>1. CASE file[p].name = "temp"
            <4>1. temp[put[p]] \in Content /\ temp[put[p]] # Absent
                BY <2>2, <3>1 DEF HandlesHold, TypeOK
            <4>2. temp' = [temp EXCEPT ![put[p]] = [temp[put[p]] EXCEPT ![c] = put[p]]]
                BY <2>1, <2>2, <3>1 DEF TypeOK
            <4> QED BY <2>1, <2>2, <4>1, <4>2 DEF TypeOK, Content
        <3>2. CASE file[p].name # "temp"
            BY <2>1, <3>2
        <3> QED BY <3>1, <3>2
    <2>5. \A g \in Hashes, d \in Chunks : blob'[g] # Absent /\ blob'[g][d] # g =>
              /\ blob[g] # Absent /\ blob[g][d] # g
              /\ ~(g = put[p] /\ file[p].name = "blob" /\ d = c)
        <3>1. CASE file[p].name = "blob"
            <4>1. blob[put[p]] \in Content /\ blob[put[p]] # Absent
                BY <2>2, <3>1 DEF HandlesHold, TypeOK
            <4>2. blob' = [blob EXCEPT ![put[p]] = [blob[put[p]] EXCEPT ![c] = put[p]]]
                BY <2>1, <2>2, <3>1 DEF TypeOK
            <4> QED BY <2>1, <2>2, <4>1, <4>2 DEF TypeOK, Content
        <3>2. CASE file[p].name # "blob"
            BY <2>1, <3>2
        <3> QED BY <3>1, <3>2
    <2>6. torn' = torn BY <2>1
    <2> QED BY <2>3, <2>4, <2>5, <2>6 DEF GapsAreFilled
<1>5. ASSUME NEW p \in Processes, Rename(p) PROVE GapsAreFilled'
    <2>1. /\ put[p] \in Hashes /\ put' = [put EXCEPT ![p] = None]
          /\ file[p].written = Chunks /\ torn' = torn
        BY <1>5 DEF Rename, Complete, TypeOK
    <2>2. CASE temp[put[p]] # Absent
        <3>1. /\ blob' = [blob EXCEPT ![put[p]] = temp[put[p]]]
              /\ temp' = [temp EXCEPT ![put[p]] = Absent]
              /\ file' = [q \in Processes |-> Renamed(p, q)]
            BY <1>5, <2>2 DEF Rename, TempName
        <3>2. PICK h \in Hashes : h = put[p]
            BY <2>1
        <3>3. ASSUME NEW q \in Processes, NEW c \in Chunks, WillWrite(q, h, "temp", c)
              PROVE  WillWrite(q, h, "blob", c)'
            <4>1. q # p /\ put[q] = put[p] /\ put[q] # None /\ file[q].name = "temp" /\ c \notin file[q].written
                BY <1>0, <2>1, <3>2, <3>3 DEF WillWrite
            <4>2. Renamed(p, q) = [file[q] EXCEPT !.name = "blob"]
                BY <4>1 DEF Renamed, TempName
            <4>3. file'[q].name = "blob" /\ file'[q].written = file[q].written
                BY <3>1, <4>2 DEF TypeOK, Handle
            <4>4. put'[q] = h
                BY <2>1, <3>2, <4>1 DEF TypeOK
            <4> QED BY <4>1, <4>3, <4>4 DEF WillWrite
        <3>4. \A q \in Processes, g \in Hashes \ {h}, name \in {"temp", "blob"}, c \in Chunks :
                  WillWrite(q, g, name, c) => WillWrite(q, g, name, c)'
            BY <2>1, <3>1, <3>2 DEF WillWrite, Renamed, TempName, TypeOK
        <3>5. \A g \in Hashes \ {h} : temp'[g] = temp[g] /\ blob'[g] = blob[g]
            BY <3>1, <3>2 DEF TypeOK
        <3>6. temp'[h] = Absent /\ blob'[h] = temp[h]
            BY <2>1, <3>1, <3>2 DEF TypeOK
        <3>7. ASSUME NEW g \in Hashes \ torn', NEW c \in Chunks, g # h
              PROVE  /\ temp'[g] # Absent /\ temp'[g][c] # g => \E q \in Processes : WillWrite(q, g, "temp", c)'
                     /\ blob'[g] # Absent /\ blob'[g][c] # g => \E q \in Processes : WillWrite(q, g, "blob", c)'
            BY <2>1, <3>4, <3>5, <3>7 DEF GapsAreFilled
        <3>8. ASSUME NEW c \in Chunks, h \notin torn', blob'[h] # Absent, blob'[h][c] # h
              PROVE  \E q \in Processes : WillWrite(q, h, "blob", c)'
            BY <2>1, <2>2, <3>2, <3>3, <3>6, <3>8 DEF GapsAreFilled
        <3> QED BY <3>2, <3>6, <3>7, <3>8 DEF GapsAreFilled
    <2>3. CASE temp[put[p]] = Absent
        <3>1. file' = [file EXCEPT ![p] = NoHandle] /\ UNCHANGED <<blob, temp>>
            BY <1>5, <2>3 DEF Rename, TempName
        <3>2. \A q \in Processes, g \in Hashes, name \in {"temp", "blob"}, c \in Chunks :
                  WillWrite(q, g, name, c) => WillWrite(q, g, name, c)'
            BY <2>1, <3>1 DEF WillWrite, TypeOK
        <3> QED BY <2>1, <3>1, <3>2 DEF GapsAreFilled
    <2> QED BY <2>2, <2>3
<1>6. ASSUME NEW p \in Processes, NEW h \in Hashes, RemoveBlob(p, h) PROVE GapsAreFilled'
    <2>1. /\ blob' = [blob EXCEPT ![h] = Absent] /\ UNCHANGED <<put, temp, torn>>
          /\ file' = [q \in Processes |->
                IF file[q].name = "blob" /\ put[q] = h THEN [file[q] EXCEPT !.name = "gone"] ELSE file[q]]
        BY <1>6 DEF RemoveBlob
    <2>2. \A q \in Processes, g \in Hashes, c \in Chunks :
              /\ WillWrite(q, g, "temp", c) => WillWrite(q, g, "temp", c)'
              /\ WillWrite(q, g, "blob", c) /\ g # h => WillWrite(q, g, "blob", c)'
        BY <2>1 DEF WillWrite, TypeOK
    <2>3. blob'[h] = Absent /\ \A g \in Hashes \ {h} : blob'[g] = blob[g]
        BY <2>1 DEF TypeOK
    <2> QED BY <2>1, <2>2, <2>3 DEF GapsAreFilled
<1>7. ASSUME NEW p \in Processes, Gone(p) PROVE GapsAreFilled'
    <2>1. /\ put' = [put EXCEPT ![p] = None] /\ file' = [file EXCEPT ![p] = NoHandle]
          /\ torn' = torn \cup ({put[p]} \ {None}) /\ UNCHANGED <<blob, temp>>
        BY <1>7 DEF Gone
    <2>2. \A q \in Processes, g \in Hashes \ torn', name \in {"temp", "blob"}, c \in Chunks :
              WillWrite(q, g, name, c) => WillWrite(q, g, name, c)'
        BY <1>0, <2>1 DEF WillWrite, TypeOK
    <2> QED BY <2>1, <2>2 DEF GapsAreFilled
<1>8. ASSUME NEW p \in Processes,
             \/ Boot(p) \/ Migrate(p) \/ Listen(p) \/ EndRequest(p) \/ Shutdown(p)
             \/ \E proof \in Proofs : Accept(p, proof)
      PROVE  UNCHANGED diskVars
    BY <1>8 DEF Boot, Migrate, Listen, EndRequest, Shutdown, Accept
<1> QED
    BY <1>1, <1>2, <1>3, <1>4, <1>5, <1>6, <1>7, <1>8
    DEF Next, vars, MigrateThrows, Drained, KillDraining, Crash

LEMMA OneWriterStep ==
    ASSUME IInv, [Next]_vars
    PROVE  OneWriter'
<1> USE DEF IInv, DiskHolds
<1>0. None \notin Hashes BY ModelValuesDiffer
<1>a. SUFFICES ASSUME NEW h \in Hashes, StoredThroughOne(h)
               PROVE  /\ blob'[h] \in {Absent, Whole(h)}
                      /\ \A p \in Processes : put'[p] = h =>
                             /\ file'[p].name \in {"none", "temp"}
                             /\ \A c \in file'[p].written : temp'[h][c] = h
    BY DEF OneWriter, StoredThroughOne, Whole
<1>b. /\ blob[h] \in {Absent, Whole(h)}
      /\ \A p \in Processes : put[p] = h =>
             /\ file[p].name \in {"none", "temp"}
             /\ \A c \in file[p].written : temp[h][c] = h
    BY <1>a DEF OneWriter
<1>c. \A p, q \in Processes : put[p] = h /\ put[q] = h => p = q
    BY <1>0, <1>a DEF StoredThroughOne, HandlesHold
<1> DEFINE Kept(p) == put'[p] = h =>
                          /\ file'[p].name \in {"none", "temp"}
                          /\ \A c \in file'[p].written : temp'[h][c] = h
<1>1. CASE UNCHANGED diskVars
    BY <1>1, <1>b DEF diskVars
<1>2. ASSUME NEW p \in Processes, NEW g \in Stores[p], BeginPut(p, g)
      PROVE  blob'[h] \in {Absent, Whole(h)} /\ \A q \in Processes : Kept(q)
    <2>1. /\ put[p] = None /\ put' = [put EXCEPT ![p] = g] /\ UNCHANGED <<file, blob, temp>>
        BY <1>2 DEF BeginPut, Idle
    <2>2. file[p].name = "none" /\ file[p].written = {}
        BY <2>1 DEF HandlesHold, TypeOK, Handle
    <2> QED BY <1>b, <2>1, <2>2 DEF TypeOK
<1>3. ASSUME NEW p \in Processes, OpenTemp(p)
      PROVE  blob'[h] \in {Absent, Whole(h)} /\ \A q \in Processes : Kept(q)
    <2>1. /\ file[p] = NoHandle /\ put[p] \in Hashes
          /\ temp' = [temp EXCEPT ![put[p]] = Empty]
          /\ file' = [file EXCEPT ![p].name = "temp"] /\ UNCHANGED <<put, blob>>
        BY <1>3 DEF OpenTemp, TempName, TypeOK
    <2>2. Kept(p)
        BY <2>1 DEF TypeOK, NoHandle
    <2>3. ASSUME NEW q \in Processes \ {p} PROVE Kept(q)
        BY <1>b, <1>c, <2>1 DEF TypeOK
    <2> QED BY <1>b, <2>1, <2>2, <2>3
<1>4. ASSUME NEW p \in Processes, WriteChunk(p)
      PROVE  blob'[h] \in {Absent, Whole(h)} /\ \A q \in Processes : Kept(q)
    <2>1. PICK c \in Chunks \ file[p].written :
            /\ file[p].name # "none"
            /\ file' = [file EXCEPT ![p].written = @ \cup {c}]
            /\ temp' = IF file[p].name = "temp" THEN [temp EXCEPT ![put[p]][c] = put[p]] ELSE temp
            /\ blob' = IF file[p].name = "blob" THEN [blob EXCEPT ![put[p]][c] = put[p]] ELSE blob
            /\ UNCHANGED put
        BY <1>4 DEF WriteChunk, TempName
    <2>2. CASE put[p] = h
        <3>1. file[p].name = "temp" /\ temp[h] \in Content
            BY <1>b, <2>1, <2>2 DEF HandlesHold, TypeOK
        <3>2. temp' = [temp EXCEPT ![h] = [temp[h] EXCEPT ![c] = h]] /\ blob' = blob
            BY <2>1, <2>2, <3>1 DEF TypeOK
        <3>3. temp'[h] = [temp[h] EXCEPT ![c] = h]
            BY <3>2 DEF TypeOK
        <3>4. Kept(p)
            BY <1>b, <2>1, <2>2, <3>1, <3>3 DEF TypeOK, Handle, Content
        <3>5. ASSUME NEW q \in Processes \ {p} PROVE Kept(q)
            BY <1>c, <2>1, <2>2
        <3> QED BY <1>b, <3>2, <3>4, <3>5
    <2>3. CASE put[p] # h
        <3>1. temp'[h] = temp[h] /\ blob'[h] = blob[h]
            BY <2>1, <2>3 DEF TypeOK
        <3>2. \A q \in Processes \ {p} : file'[q] = file[q]
            BY <2>1 DEF TypeOK
        <3> QED BY <1>b, <2>1, <2>3, <3>1, <3>2
    <2> QED BY <2>2, <2>3
<1>5. ASSUME NEW p \in Processes, Rename(p)
      PROVE  blob'[h] \in {Absent, Whole(h)} /\ \A q \in Processes : Kept(q)
    <2>1. /\ put[p] \in Hashes /\ put' = [put EXCEPT ![p] = None]
          /\ file[p].written = Chunks /\ file[p].name # "none"
        BY <1>5 DEF Rename, Complete, TypeOK
    <2>2. put'[p] # h
        BY <1>0, <2>1 DEF TypeOK
    <2>3. CASE put[p] = h
        <3>1. temp[h] \in Content /\ temp[h] # Absent /\ \A c \in Chunks : temp[h][c] = h
            BY <1>b, <2>1, <2>3 DEF HandlesHold, TypeOK
        <3>2. temp[h] = Whole(h)
            BY <3>1 DEF Content, Whole
        <3>3. blob' = [blob EXCEPT ![h] = temp[h]]
            BY <1>5, <2>3, <3>1 DEF Rename, TempName
        <3>4. \A q \in Processes : put'[q] # h
            BY <1>c, <2>1, <2>2, <2>3 DEF TypeOK
        <3> QED BY <3>2, <3>3, <3>4 DEF TypeOK
    <2>4. CASE put[p] # h
        <3>1. temp'[h] = temp[h] /\ blob'[h] = blob[h]
            BY <1>5, <2>1, <2>4 DEF Rename, TempName, TypeOK
        <3>2. ASSUME NEW q \in Processes, put'[q] = h PROVE put[q] = h /\ file'[q] = file[q]
            <4>1. q # p /\ put[q] = h
                BY <2>1, <2>2, <3>2 DEF TypeOK
            <4>2. Renamed(p, q) = file[q]
                BY <2>4, <4>1 DEF Renamed, TempName
            <4> QED BY <1>5, <4>1, <4>2 DEF Rename, TypeOK
        <3> QED BY <1>b, <3>1, <3>2
    <2> QED BY <2>3, <2>4
<1>6. ASSUME NEW p \in Processes, NEW g \in Hashes, RemoveBlob(p, g)
      PROVE  blob'[h] \in {Absent, Whole(h)} /\ \A q \in Processes : Kept(q)
    <2>1. /\ blob' = [blob EXCEPT ![g] = Absent] /\ UNCHANGED <<put, temp>>
          /\ file' = [q \in Processes |->
                IF file[q].name = "blob" /\ put[q] = g THEN [file[q] EXCEPT !.name = "gone"] ELSE file[q]]
        BY <1>6 DEF RemoveBlob
    <2>2. \A q \in Processes : put[q] = h => file'[q] = file[q]
        BY <1>b, <2>1
    <2> QED BY <1>b, <2>1, <2>2 DEF TypeOK
<1>7. ASSUME NEW p \in Processes, Gone(p)
      PROVE  blob'[h] \in {Absent, Whole(h)} /\ \A q \in Processes : Kept(q)
    BY <1>0, <1>7, <1>b DEF Gone, TypeOK
<1>8. ASSUME NEW p \in Processes,
             \/ Boot(p) \/ Migrate(p) \/ Listen(p) \/ EndRequest(p) \/ Shutdown(p)
             \/ \E proof \in Proofs : Accept(p, proof)
      PROVE  UNCHANGED diskVars
    BY <1>8 DEF Boot, Migrate, Listen, EndRequest, Shutdown, Accept
<1> QED
    BY <1>1, <1>2, <1>3, <1>4, <1>5, <1>6, <1>7, <1>8
    DEF Next, vars, MigrateThrows, Drained, KillDraining, Crash

-----------------------------------------------------------------------------
(* The theorems.                                                           *)

LEMMA Invariance == Spec => []IInv
<1>1. Init => IInv
    BY InitHolds
<1>2. IInv /\ [Next]_vars => IInv'
    BY TypeStep, SchemaStep, ConfigStep, HandlesStep, GapsStep, OneWriterStep DEF IInv, DiskHolds
<1> QED BY <1>1, <1>2, PTL DEF Spec

\* The variables keep their types: no process runs a configuration that is not
\* one, and no version or migration counter leaves its range.
THEOREM TypeCorrect == Spec => []TypeOK
<1>1. IInv => TypeOK BY DEF IInv
<1> QED BY <1>1, Invariance, PTL

\* The schema is exactly the migrations up to its version, whatever processes of
\* whatever builds boot together or die while they migrate.
THEOREM SchemaWholeHolds == Spec => []SchemaWhole
<1>1. IInv => SchemaWhole BY DEF IInv
<1> QED BY <1>1, Invariance, PTL

\* A process that serves has every migration its build knows.
THEOREM ServesOnItsSchemaHolds == Spec => []ServesOnItsSchema
<1>1. IInv => ServesOnItsSchema
    <2> SUFFICES ASSUME IInv, NEW p \in Processes, phase[p] \in {"serving", "draining"}, NEW m \in 1..Target[p]
                 PROVE  applied[m]
        BY DEF ServesOnItsSchema
    <2>1. next[p] > Target[p] /\ next[p] <= version + 1 /\ next[p] \in Nat
        BY DEF IInv, Behind, TypeOK
    <2>2. Target[p] \in 0..Latest /\ version \in 0..Latest
        BY BuildsCarryMigrations DEF IInv, TypeOK
    <2>3. m \in Migrations /\ m <= version
        BY <2>1, <2>2, BuildsCarryMigrations DEF Migrations
    <2> QED BY <2>3 DEF IInv, SchemaWhole
<1> QED BY <1>1, Invariance, PTL

\* Every proof a running server accepts is one its operator asked for, for any
\* settings whose file is read or refused.
THEOREM AskedModeEnforcedHolds == Spec => []AskedModeEnforced
<1>1. IInv => AskedModeEnforced
    <2> SUFFICES ASSUME IInv, NEW p \in Processes, request[p] # None,
                        settings.fileState # "garbled" \/ settings.requested
                 PROVE  AsAsked(request[p])
        BY DEF AskedModeEnforced, IInv, TypeOK, Settings
    <2>1. settings \in Settings
        BY DeploymentsAreSettings DEF IInv, TypeOK
    <2>2. config[p] = LoadConfig(settings) /\ LoadConfig(settings) # Fatal /\ request[p] \in OpenedBy(config[p])
        BY DEF IInv, Configured
    <2>3. /\ ~Refused(settings) /\ ReadFileConfig(settings) # Fatal
          /\ config[p] = [authMode |-> AuthMode(settings), enrollmentMode |-> EnrollmentMode(settings)]
        BY <2>2 DEF LoadConfig, Refused
    <2>4. config[p].authMode \in AuthModes /\ config[p].enrollmentMode \in EnrollmentModes
        BY <2>2, LoadConfigType DEF ConfigRecord
    <2>5. "shared" \in AuthModes /\ "bootstrap" \in EnrollmentModes /\ Fatal # "shared" /\ Fatal # "bootstrap"
        BY ModelValuesDiffer DEF AuthModes, EnrollmentModes
    <2>6. CASE request[p] = "deviceToken"
        <3>1. AuthMode(settings) = "shared"
            BY <2>2, <2>3, <2>4, <2>6 DEF OpenedBy, AuthModes
        <3>2. Asked("authMode") \in {Unset, Blank, "shared"}
            BY <2>1, <2>3, <2>5, <3>1, DefaultIsAsked DEF AuthMode, Names
        <3> QED BY <2>6, <3>2 DEF AsAsked
    <2>7. CASE request[p] = "enrollmentSecret"
        <3>1. EnrollmentMode(settings) = "bootstrap"
            BY <2>2, <2>3, <2>4, <2>7 DEF OpenedBy, EnrollmentModes
        <3>2. Asked("enrollmentMode") \in {Unset, Blank, "bootstrap"}
            BY <2>1, <2>3, <2>5, <3>1, DefaultIsAsked DEF EnrollmentMode, Names
        <3> QED BY <2>7, <3>2 DEF AsAsked
    <2> QED BY <2>6, <2>7 DEF AsAsked
<1> QED BY <1>1, Invariance, PTL

\* A blob stored through one process is whole at every instant, whoever dies; one
\* stored through several is whole unless a process is storing it or died storing it.
THEOREM BlobsAreWholeHolds == Spec => []BlobsAreWhole
<1>1. IInv => BlobsAreWhole
    <2> SUFFICES ASSUME IInv, NEW h \in Hashes, blob[h] \notin {Absent, Whole(h)}
                 PROVE  ~StoredThroughOne(h) /\ (h \in torn \/ \E p \in Processes : put[p] = h)
        BY DEF BlobsAreWhole
    <2>1. ~StoredThroughOne(h)
        BY DEF IInv, DiskHolds, OneWriter
    <2>2. blob[h] \in Content
        BY DEF IInv, TypeOK
    <2>3. PICK c \in Chunks : blob[h][c] # h
        BY <2>2 DEF Content, Whole
    <2>4. h \in torn \/ \E p \in Processes : put[p] = h
        BY <2>3 DEF IInv, DiskHolds, GapsAreFilled, WillWrite
    <2> QED BY <2>1, <2>4
<1> QED BY <1>1, Invariance, PTL

=============================================================================
