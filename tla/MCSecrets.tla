----------------------------- MODULE MCSecrets ------------------------------
(* Model values for checking Secrets.                                      *)
EXTENDS Secrets, TLC
CONSTANTS h1, h2
MCHandler == {h1, h2}
MCOneHandler == {h1}
=============================================================================
