----------------------------- MODULE MediaShelf -----------------------------
(***************************************************************************)
(* What the blob endpoints promise to the accounts of a server that keeps  *)
(* what it stores (reclaim off), with no uploads, files, references, hash  *)
(* checks or crashes in it.                                                *)
(*                                                                         *)
(* An account has a shelf of blobs it can download whole.  A blob gets on  *)
(* the shelf in one step, if the account sent all of it itself and the     *)
(* shelf stays within the quota.  Nothing but the deletion of the account  *)
(* takes anything off, and nobody touches the shelf of another.            *)
(***************************************************************************)
EXTENDS Integers, FiniteSetsExt

CONSTANTS
    Accounts,
    Hashes,
    Chunks,
    Content,    \* Content[h]: the chunks blob h is made of
    Size,       \* Size[h]: its length
    Quota

VARIABLES
    sent,       \* sent[a]: the chunks a has sent
    shelf       \* shelf[a]: the blobs a can download

shelfVars == <<sent, shelf>>

ShelfInit ==
    /\ sent = [a \in Accounts |-> {}]
    /\ shelf = [a \in Accounts |-> {}]

Send(a) ==
    \E c \in Chunks :
        /\ sent' = [sent EXCEPT ![a] = @ \cup {c}]
        /\ UNCHANGED shelf

Put(a) ==
    \E h \in Hashes :
        /\ Content[h] \subseteq sent[a]
        /\ SumFunctionOnSet(Size, shelf[a] \cup {h}) <= Quota
        /\ shelf' = [shelf EXCEPT ![a] = @ \cup {h}]
        /\ UNCHANGED sent

Clear(a) ==
    /\ sent' = [sent EXCEPT ![a] = {}]
    /\ shelf' = [shelf EXCEPT ![a] = {}]

ShelfNext == \E a \in Accounts : Send(a) \/ Put(a) \/ Clear(a)

ShelfSpec == ShelfInit /\ [][ShelfNext]_shelfVars

(* The promise: what is on a shelf the account sent, all of it, and it     *)
(* fits the quota.                                                         *)
SentAndPaid ==
    \A a \in Accounts :
        /\ \A h \in shelf[a] : Content[h] \subseteq sent[a]
        /\ SumFunctionOnSet(Size, shelf[a]) <= Quota
=============================================================================
