------------------------- MODULE MCRequestPipeline -------------------------
(* One connection for two requests and a probe: everybody waits for somebody. *)
(* The methods: the greeter's, UpdateCampaign and CreateEvent, and            *)
(* DeleteCampaign; every other campaign method is a part of one of them.      *)
EXTENDS RequestPipeline

CONSTANTS r1, r2, p1

Called == {<<>>, <<"read", "write">>, <<"delete">>}
=============================================================================
