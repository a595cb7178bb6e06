----------------------------- MODULE MCErasure -----------------------------
(* Instances of Erasure for TLC. *)
EXTENDS Erasure, TLC

CONSTANTS h1, h2

\* One thread resolves and erases while the other files tickets.
OneDirectoryThread == (h1 :> {"contact", "erase"}) @@ (h2 :> {"file"})

\* Two threads resolve and erase.
TwoDirectoryThreads == [h \in Handlers |-> {"contact", "erase"}]

\* OpenFGA, Vault, the grant and the body's encryption may raise, and so may the disk
\* under an erasure.
CallsFail ==
    {"erase"} \X {"open", "write", "replace", "read", "delete", "destroy"}
    \cup {"file"} \X {"grant", "encrypt"} \cup {<<"contact", "grant">>}

NothingFails == {}

\* So may the disk under a first contact.
DiskFails == CallsFail \cup {"contact"} \X {"open", "write", "replace"}

=============================================================================
