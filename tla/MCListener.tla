----------------------------- MODULE MCListener -----------------------------
(* CommitListener with one request to the wallet and one to another wallet. *)
EXTENDS CommitListener
=============================================================================
