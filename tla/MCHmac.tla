------------------------------- MODULE MCHmac -------------------------------
(* Values for the constants of Hmac and SrsHash. *)
EXTENDS SrsHash

\* Every length of a string up to two small blocks and a byte.
AllLens == 0..(2 * SHA_BLOCKSIZE + 1)
=============================================================================
