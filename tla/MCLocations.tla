---------------------------- MODULE MCLocations -----------------------------
(* Messages and takeout files for checking Locations: a good file of two   *)
(* records, and one whose second record is off the map.                    *)
EXTENDS Locations, TLC
CONSTANTS ping, broken, bare, status
MCMessage == {ping, broken}
MCKind == (ping :> "location") @@ (broken :> "broken")
MCOddMessage == {bare, status}
MCOddKind == (bare :> "bare") @@ (status :> "other")
Record(t, v) == [time |-> t, valid |-> v]
MCFile == {<<Record(1, TRUE), Record(2, TRUE)>>, <<Record(1, TRUE), Record(1, FALSE)>>}
=============================================================================
