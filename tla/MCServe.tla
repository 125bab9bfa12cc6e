------------------------------ MODULE MCServe -------------------------------
(* Model values for checking Serve.                                        *)
EXTENDS Serve, TLC
CONSTANTS fsq, tripit, ot, main, signal
MCLoop == {fsq, tripit}
MCServer == {ot, main}
MCOrder == <<ot, fsq, tripit, main, signal>>
=============================================================================
