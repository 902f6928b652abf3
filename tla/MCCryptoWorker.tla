--------------------------- MODULE MCCryptoWorker ---------------------------
(* CryptoWorker with two calls and two workers, with the two retries of the code. *)
EXTENDS CryptoWorker
=============================================================================
