----------------------------- MODULE MCFsqStore -----------------------------
(* Model values for checking FsqStore.                                     *)
EXTENDS FsqStore, TLC
CONSTANTS serve, cli, ann, v1, v2
MCLoop == {serve}
MCCli == {cli}
MCPerson == {ann}
MCVenue == {v1, v2}
MCWith == [c \in 1..N |-> {ann}]
=============================================================================
