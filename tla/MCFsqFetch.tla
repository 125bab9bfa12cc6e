----------------------------- MODULE MCFsqFetch -----------------------------
(* Model values for checking FsqFetch.                                     *)
EXTENDS FsqFetch, TLC
CONSTANTS c1, c2, c3
MCCheckin == {c1, c2, c3}
MCDeletable == {c1}
=============================================================================
