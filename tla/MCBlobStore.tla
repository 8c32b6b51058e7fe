---------------------------- MODULE MCBlobStore ----------------------------
(* Instances of BlobStore: one account whose quota admits either of two    *)
(* blobs but not both, and one blob that one or two accounts hold.         *)
EXTENDS BlobStore

CONSTANTS x, y, u1, u2, d1, d2, h1, h2, c1, c2

OneAccount == {x}
TwoAccounts == {x, y}
OneUpload == {u1}
TwoUploads == {u1, u2}
TwoDevices == {d1, d2}

UnitOne == c1 :> 1
Unit == c1 :> 1 @@ c2 :> 1
Single == h1 :> <<c1>>
Double == h1 :> <<c1, c2>>
Both == h1 :> <<c1, c2>> @@ h2 :> <<c2>>

(* No account, upload or device is told from another by its name. *)
Symmetry == Permutations(TwoAccounts) \cup Permutations(TwoUploads)
                \cup Permutations(TwoDevices)
=============================================================================
