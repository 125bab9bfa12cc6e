----------------------------- MODULE MCStartup ------------------------------
(* Two processes of a new binary and one of an old one on one database.    *)
EXTENDS Startup, TLC
CONSTANTS old, new, newer
MCProcess == {old, new, newer}
MCVersion == (old :> 1) @@ (new :> 3) @@ (newer :> 3)
=============================================================================
