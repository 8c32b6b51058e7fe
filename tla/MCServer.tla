------------------------------ MODULE MCServer ------------------------------
(* Two processes, one of an older build, that may upload the same blob;   *)
(* the deployments in which a mode is asked for in one place and blank,    *)
(* mistyped or missing in the other.                                       *)
EXTENDS Server, TLC

CONSTANTS p1, p2, h1, h2

MCProcesses == {p1, p2}
MCTarget == p1 :> 1 @@ p2 :> 2
MCStores == p1 :> {h1, h2} @@ p2 :> {h2}

Sets(auth, enroll) ==
    [n \in Names |-> CASE n = "authMode" -> auth
                       [] n = "enrollmentMode" -> enroll
                       [] OTHER -> "given"]
Nothing == [n \in Names |-> Unset]

\* Account keys asked for in the file alone, in the environment alone, and with
\* a typo in either; nothing asked for at all.
AccountKeys == Sets("per-account", "account-key")
MCDeployments ==
    {[env |-> e, file |-> f, fileState |-> "valid", requested |-> FALSE] :
        e \in {Sets(Blank, Unset), Sets(Typo, Blank), Sets(Unset, Typo)}, f \in {AccountKeys, Sets(Typo, Unset)}}
    \cup
    {[env |-> e, file |-> Nothing, fileState |-> "missing", requested |-> FALSE] :
        e \in {Sets("per-account", Unset), Sets(Unset, Unset)}}
    \cup
    {[env |-> Sets(Unset, Unset), file |-> AccountKeys, fileState |-> "garbled", requested |-> TRUE]}
=============================================================================
