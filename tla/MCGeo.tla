-------------------------------- MODULE MCGeo --------------------------------
(***************************************************************************)
(* An instance of Geo for TLC.                                             *)
(***************************************************************************)
EXTENDS Geo

\* A zone for each place, and the first taken off the list.
Home == [name |-> "home", area |-> {"here"}]
Away == [name |-> "away", area |-> {"there"}]
Lists == {<<Home, Away>>, <<Away>>}

AllModes == {"unset", "fixed", "ip", "geoclue", "other"}
=============================================================================
