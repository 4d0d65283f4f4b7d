-------------------------------- MODULE MCApi --------------------------------
(***************************************************************************)
(* Two clients. The first makes one request of any kind, the second two    *)
(* that are right; one thing of each kind.                                 *)
(***************************************************************************)
EXTENDS Api

MCClients     == {1, 2}
MCThings      == DOMAIN ROUTES
MCAsks        == <<1, 2>>
MCFollowed    == {"expr", "tz", "brief", "enabled", "name", "description", "version", "newSpec"}
MCOtherFields == {"expr", "tz", "brief", "enabled", "description", "newSpec", "name"}
==============================================================================
