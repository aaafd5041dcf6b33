------------------------------- MODULE MCStores -------------------------------
(* Three callers and four changes of the file: one write in flight, one queued *)
(* behind it and one coalesced into the queued one.  One request with two tool *)
(* calls, and one with none.                                                   *)
EXTENDS ServerStores, TLC

CONSTANTS call1, call2, post1

MCOf == (call1 :> post1) @@ (call2 :> post1)
===============================================================================
