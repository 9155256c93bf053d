---------------------------- MODULE MCIndexShim ----------------------------
(* One collection of two documents and two models.  Two requests put d1 and  *)
(* forget all; the third puts d2, searches or asks for the health.  While    *)
(* none is under way and nothing is stored, one text is written.             *)
EXTENDS IndexShim, ChunkText, TLC

CONSTANTS d1, d2, r1, r2, r3, MaxText

MCCollections == {{d1, d2}}

MCRequests == {r1, r2, r3}

MCModels == <<"bge-m3", "text-embedding-3-small">>

Forget == Asked("forget", {d1, d2}, 0)

MCJobs ==
  (r1 :> {Asked("put", {d1}, 1), Forget}) @@ (r2 :> {Asked("put", {d1}, 2), Forget}) @@
  (r3 :> {Asked("put", {d2}, 1), Asked("search", {d1, d2}, 0), Asked("health", {}, 0)})

MCInit == Init /\ text = NoText

Requesting == Next /\ text = NoText /\ UNCHANGED text

WritesOn ==
  /\ rows = {} /\ preferred = NoModel /\ req = [r \in Requests |-> Idle]
  /\ Writes /\ text'.length <= MaxText
  /\ UNCHANGED vars

Rests == PutsAway /\ UNCHANGED vars

MCSpec == MCInit /\ [][Requesting \/ WritesOn \/ Rests]_<<vars, text>> /\ Fairness
=============================================================================
