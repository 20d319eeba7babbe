----------------------------- MODULE MCKeyStore -----------------------------
(* TLC runs KeyStore as it is.                                             *)
EXTENDS KeyStore
=============================================================================
