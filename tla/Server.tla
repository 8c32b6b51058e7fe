------------------------------- MODULE Server -------------------------------
(***************************************************************************)
(* Server processes from boot to exit, on one mounted volume: the          *)
(* configuration is loaded, the database is migrated, the process listens, *)
(* stores blobs, drains its connections on a signal, and may die at any    *)
(* step.  A supervisor starts it again.                                    *)
(*                                                                         *)
(* The database file and the blob directory are the only things the        *)
(* processes share.  A process is one thread: while it writes a file it    *)
(* does nothing else, but the other processes do, and it may die.          *)
(***************************************************************************)
EXTENDS Integers, Config

CONSTANTS
    Processes,
    Latest,     \* the migrations of the newest build
    Target,     \* Target[p]: how many of them p's build carries
    Hashes,
    Stores,     \* Stores[p]: the hashes of the blobs clients upload through p
    Deployments,\* what the operator may have set; one of them, for all processes
    Chunks,     \* the pieces a file is written in; a blob is all of them
    Absent,     \* no such file
    None

ASSUME BuildsCarryMigrations == Latest \in Nat /\ Target \in [Processes -> 0..Latest]
ASSUME DeploymentsAreSettings == Deployments \subseteq Settings
ASSUME StoresHashes == Stores \in [Processes -> SUBSET Hashes]
ASSUME ModelValuesDiffer ==
    /\ Unset # Blank /\ Typo \notin {Unset, Blank} /\ Fatal \notin {Unset, Blank, Typo}
    /\ {Unset, Blank, Typo, Fatal} \cap (AuthModes \cup EnrollmentModes \cup {"given"}) = {}
    /\ Fatal \notin ConfigRecord /\ Fatal \notin [Names -> Values]
    /\ None \notin ConfigRecord /\ None \notin Proofs /\ None \notin Hashes

VARIABLES
    settings,   \* what the operator set
    phase,      \* phase[p] \in {"down", "migrating", "serving", "draining"}
    config,     \* config[p]: what p loaded when it last booted
    next,       \* next[p]: the migration p applies next
    version,    \* user_version of the database
    applied,    \* applied[m]: is what migration m creates in the schema?
    request,    \* request[p]: the proof behind a request p is handling, or None
    put,        \* put[p]: the hash p is storing, or None
    file,       \* file[p]: the file p has open for it, and what it has written
    blob,       \* blob[h]: the file under the final name of h, Absent if none
    temp,       \* temp[n]: the file under the temporary name n, Absent if none
    torn        \* the hashes a process died storing (history)

dbVars == <<version, applied>>
diskVars == <<put, file, blob, temp, torn>>
vars == <<settings, phase, config, next, request, dbVars, diskVars>>

-----------------------------------------------------------------------------
Migrations == 1..Latest

\* A file, by the blob whose byte each piece of it holds: None where nothing was
\* written.
Content == [Chunks -> Hashes \cup {None}]
Whole(h) == [c \in Chunks |-> h]
Empty == [c \in Chunks |-> None]

\* The temporary name put() writes a blob under.
OneTempName(h) == CHOOSE g \in Hashes : TRUE
TempName(h) == h

ASSUME AbsentIsNoFile == Absent \notin Content

Handle == [name : {"none", "temp", "blob", "gone"}, written : SUBSET Chunks]
NoHandle == [name |-> "none", written |-> {}]

TypeOK ==
    /\ settings \in Deployments
    /\ phase \in [Processes -> {"down", "migrating", "serving", "draining"}]
    /\ config \in [Processes -> ConfigRecord \cup {None}]
    /\ next \in [Processes -> 0..Latest + 1]
    /\ version \in 0..Latest
    /\ applied \in [Migrations -> BOOLEAN]
    /\ request \in [Processes -> Proofs \cup {None}]
    /\ put \in [Processes -> Hashes \cup {None}]
    /\ file \in [Processes -> Handle]
    /\ blob \in [Hashes -> Content \cup {Absent}]
    /\ temp \in [Hashes -> Content \cup {Absent}]
    /\ torn \in SUBSET Hashes

\* A fresh, empty volume and nothing running.
Init ==
    /\ settings \in Deployments
    /\ phase = [p \in Processes |-> "down"]
    /\ config = [p \in Processes |-> None]
    /\ next = [p \in Processes |-> 0]
    /\ version = 0
    /\ applied = [m \in Migrations |-> FALSE]
    /\ request = [p \in Processes |-> None]
    /\ put = [p \in Processes |-> None]
    /\ file = [p \in Processes |-> NoHandle]
    /\ blob = [h \in Hashes |-> Absent]
    /\ temp = [h \in Hashes |-> Absent]
    /\ torn = {}

-----------------------------------------------------------------------------
(* Boot.                                                                   *)

\* What a process leaves behind when it ends, however it ends.
Gone(p) ==
    /\ phase' = [phase EXCEPT ![p] = "down"]
    /\ config' = [config EXCEPT ![p] = None]
    /\ next' = [next EXCEPT ![p] = 0]
    /\ request' = [request EXCEPT ![p] = None]
    /\ put' = [put EXCEPT ![p] = None]
    /\ file' = [file EXCEPT ![p] = NoHandle]
    /\ torn' = torn \cup ({put[p]} \ {None})
    /\ UNCHANGED <<settings, blob, temp>>

\* The version is read once, before the first migration.
StartAtOne == 1
StartAt == version + 1

\* loadConfig, then the database is opened.  A process that refuses its
\* configuration exits and has changed nothing, which is no step.
Boot(p) ==
    /\ phase[p] = "down"
    /\ LoadConfig(settings) # Fatal
    /\ phase' = [phase EXCEPT ![p] = "migrating"]
    /\ config' = [config EXCEPT ![p] = LoadConfig(settings)]
    /\ next' = [next EXCEPT ![p] = StartAt]
    /\ UNCHANGED <<settings, request, dbVars, diskVars>>

\* One migration is one transaction: its statements, which fail on what exists,
\* and the new version.
ApplyIfMissing(p) ==
    /\ applied' = [applied EXCEPT ![next[p]] = TRUE]
    /\ version' = next[p]
ApplyAndFinish(p) ==
    /\ ~applied[next[p]]
    /\ applied' = [applied EXCEPT ![next[p]] = TRUE]
    /\ version' = Target[p]
Apply(p) ==
    /\ ~applied[next[p]]
    /\ applied' = [applied EXCEPT ![next[p]] = TRUE]
    /\ version' = next[p]

Migrate(p) ==
    /\ phase[p] = "migrating"
    /\ next[p] <= Target[p]
    /\ Apply(p)
    /\ next' = [next EXCEPT ![p] = @ + 1]
    /\ UNCHANGED <<settings, phase, config, request, diskVars>>

\* Another process has applied it: the statement throws, the transaction rolls
\* back, and main() ends with the exception.
MigrateThrows(p) ==
    /\ phase[p] = "migrating"
    /\ next[p] <= Target[p]
    /\ applied[next[p]]
    /\ Gone(p)
    /\ UNCHANGED dbVars

Listen(p) ==
    /\ phase[p] = "migrating"
    /\ next[p] > Target[p]
    /\ phase' = [phase EXCEPT ![p] = "serving"]
    /\ UNCHANGED <<settings, config, next, request, dbVars, diskVars>>

-----------------------------------------------------------------------------
(* Serving.                                                                *)

Idle(p) == put[p] = None

\* A request, or a push stream, that the middleware let through.
Accept(p, proof) ==
    /\ phase[p] = "serving" /\ Idle(p)
    /\ request[p] = None
    /\ proof \in OpenedBy(config[p])
    /\ request' = [request EXCEPT ![p] = proof]
    /\ UNCHANGED <<settings, phase, config, next, dbVars, diskVars>>

EndRequest(p) ==
    /\ request[p] # None /\ Idle(p)
    /\ request' = [request EXCEPT ![p] = None]
    /\ UNCHANGED <<settings, phase, config, next, dbVars, diskVars>>

\* put(): nothing to do when the blob is there.
BeginPut(p, h) ==
    /\ request[p] \in {"deviceToken", "credential"} /\ Idle(p)
    /\ blob[h] = Absent
    /\ put' = [put EXCEPT ![p] = h]
    /\ UNCHANGED <<settings, phase, config, next, request, dbVars, file, blob, temp, torn>>

\* Opening for writing empties the file that has the name already, the same
\* file another process may have open.
OpenTemp(p) ==
    /\ put[p] # None /\ file[p] = NoHandle
    /\ temp' = [temp EXCEPT ![TempName(put[p])] = Empty]
    /\ file' = [file EXCEPT ![p].name = "temp"]
    /\ UNCHANGED <<settings, phase, config, next, request, dbVars, put, blob, torn>>

WriteChunk(p) ==
    \E c \in Chunks \ file[p].written :
        /\ file[p].name # "none"
        /\ \A d \in Chunks \ file[p].written : c <= d
        /\ file' = [file EXCEPT ![p].written = @ \cup {c}]
        /\ temp' = IF file[p].name = "temp" THEN [temp EXCEPT ![TempName(put[p])][c] = put[p]] ELSE temp
        /\ blob' = IF file[p].name = "blob" THEN [blob EXCEPT ![put[p]][c] = put[p]] ELSE blob
        /\ UNCHANGED <<settings, phase, config, next, request, dbVars, put, torn>>

\* The others that have the file open keep it, under its new name; those that
\* had the file it replaces keep one without a name.
Renamed(p, q) ==
    IF q = p THEN NoHandle
    ELSE IF file[q].name = "temp" /\ put[q] # None /\ TempName(put[q]) = TempName(put[p])
         THEN [file[q] EXCEPT !.name = IF put[q] = put[p] THEN "blob" ELSE "gone"]
    ELSE IF file[q].name = "blob" /\ put[q] = put[p] THEN [file[q] EXCEPT !.name = "gone"]
    ELSE file[q]

Complete(p) == file[p].name # "none" /\ file[p].written = Chunks

\* renameSync throws when another process has taken the name away: the request
\* fails and nothing changes on disk.
Rename(p) ==
    /\ put[p] # None /\ Complete(p)
    /\ \/ /\ temp[TempName(put[p])] # Absent
          /\ blob' = [blob EXCEPT ![put[p]] = temp[TempName(put[p])]]
          /\ temp' = [temp EXCEPT ![TempName(put[p])] = Absent]
          /\ file' = [q \in Processes |-> Renamed(p, q)]
       \/ /\ temp[TempName(put[p])] = Absent
          /\ file' = [file EXCEPT ![p] = NoHandle]
          /\ UNCHANGED <<blob, temp>>
    /\ put' = [put EXCEPT ![p] = None]
    /\ UNCHANGED <<settings, phase, config, next, request, dbVars, torn>>

\* delete(), for the reclaim sweep and the deletion of an account.
RemoveBlob(p, h) ==
    /\ phase[p] \in {"serving", "draining"} /\ Idle(p)
    /\ blob[h] # Absent
    /\ blob' = [blob EXCEPT ![h] = Absent]
    /\ file' = [q \in Processes |->
                   IF file[q].name = "blob" /\ put[q] = h THEN [file[q] EXCEPT !.name = "gone"] ELSE file[q]]
    /\ UNCHANGED <<settings, phase, config, next, request, dbVars, put, temp, torn>>

-----------------------------------------------------------------------------
(* The end of a process.                                                   *)

\* SIGTERM: nothing new is accepted.
Shutdown(p) ==
    /\ phase[p] = "serving" /\ Idle(p)
    /\ phase' = [phase EXCEPT ![p] = "draining"]
    /\ UNCHANGED <<settings, config, next, request, dbVars, diskVars>>

\* server.close() calls back when the last connection is gone.
Drained(p) ==
    /\ phase[p] = "draining" /\ request[p] = None
    /\ Gone(p)
    /\ UNCHANGED dbVars

\* A push stream ends when its client goes; the supervisor does not wait for it.
KillDraining(p) ==
    /\ phase[p] = "draining"
    /\ Gone(p)
    /\ UNCHANGED dbVars

Crash(p) ==
    /\ phase[p] # "down"
    /\ Gone(p)
    /\ UNCHANGED dbVars

Next == \E p \in Processes :
    \/ Boot(p) \/ Migrate(p) \/ MigrateThrows(p) \/ Listen(p)
    \/ \E proof \in Proofs : Accept(p, proof)
    \/ EndRequest(p)
    \/ \E h \in Stores[p] : BeginPut(p, h)
    \/ \E h \in Hashes : RemoveBlob(p, h)
    \/ OpenTemp(p) \/ WriteChunk(p) \/ Rename(p)
    \/ Shutdown(p) \/ Drained(p) \/ KillDraining(p) \/ Crash(p)

Spec == Init /\ [][Next]_vars

\* A process that can go on does, the supervisor starts what is down and kills
\* what does not drain.  Nothing is assumed of requests.
Fairness == \A p \in Processes :
    /\ WF_vars(Boot(p))
    /\ WF_vars(Migrate(p) \/ MigrateThrows(p) \/ Listen(p))
    /\ WF_vars(KillDraining(p))

FairSpec == Spec /\ Fairness

-----------------------------------------------------------------------------
(* What is promised.                                                       *)

\* Two processes that boot at once, die in the middle or carry different builds
\* leave a schema of exactly the migrations up to its version: none is missing
\* below it, applied above it, or lost by a version that goes back.
SchemaWhole == \A m \in Migrations : applied[m] <=> m <= version

\* No process answers a request on a schema that lacks what its build needs,
\* although the version was read before another process migrated.
ServesOnItsSchema ==
    \A p \in Processes :
        phase[p] \in {"serving", "draining"} => \A m \in 1..Target[p] : applied[m]

\* What the operator asked for, where it can be read: the environment if it
\* says anything, else the file.
Asked(n) ==
    IF Given(settings.env[n]) THEN settings.env[n]
    ELSE IF settings.fileState = "missing" THEN Unset ELSE settings.file[n]

\* The shared token opens a server only if its operator asked for shared mode or
\* for nothing, and the bootstrap secret enrolls only if they did not ask for
\* account keys.
AsAsked(proof) ==
    /\ proof = "deviceToken" => Asked("authMode") \in {Unset, Blank, "shared"}
    /\ proof = "enrollmentSecret" => Asked("enrollmentMode") \in {Unset, Blank, "bootstrap"}

\* No typo, blank variable, missing file or file asked for by name makes a
\* server accept a proof that its operator did not ask for.  (A config.json at
\* the default path that does not parse is the exception: it counts as missing.)
AskedModeEnforced ==
    \A p \in Processes :
        request[p] # None =>
            \/ AsAsked(request[p])
            \/ settings.fileState = "garbled" /\ ~settings.requested

\* A file under the name of a blob is all of the blob and nothing else, whatever
\* dies while it is written and whatever other blobs are being written.  Only
\* processes that store the same blob, and so share its temporary name, can
\* tear it: one of them is then still writing it, or died writing it.
StoredThroughOne(h) == \A p, q \in Processes : h \in Stores[p] /\ h \in Stores[q] => p = q
BlobsAreWhole ==
    \A h \in Hashes :
        \/ blob[h] \in {Absent, Whole(h)}
        \/ ~StoredThroughOne(h) /\ (h \in torn \/ \E p \in Processes : put[p] = h)

\* A process is stopped from outside: by a signal, or by dying where it would not
\* have ended by itself.
Stop == \E p \in Processes : Shutdown(p) \/ (Crash(p) /\ ~MigrateThrows(p))

\* If processes stop being stopped, all of them come to serve, whatever the
\* stopped ones left behind: no schema makes a boot throw for ever.
EveryoneServes ==
    LoadConfig(settings) # Fatal =>
        (<>[][~Stop]_vars => <>[](\A p \in Processes : phase[p] = "serving"))
=============================================================================
