----------------------------- MODULE MCLibgomp ------------------------------
(* Programs for the model checker: what the members of a team meet.        *)
EXTENDS Libgomp

NoConstructs == <<>>
OneBarrier == <<"barrier">>
SyncRegion == <<"barrier", "single", "sections", "sections", "single">>
=============================================================================
