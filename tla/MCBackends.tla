----------------------------- MODULE MCBackends -----------------------------
(* The two shims in front of backends on the GPU nodes.  They share no state: *)
(* a behaviour is one of either, the other never moves.                       *)
EXTENDS ImagePool, WhisperShim, TLC

CONSTANTS p1, p2, p3, u1, u2, u3

VARIABLE shim

MCPictures == {p1, p2, p3}

MCUploads == {u1, u2, u3}

Init == shim \in {"images", "speech"} /\ ImagesInit /\ SpeechInit

Next ==
  /\ UNCHANGED shim
  /\ \/ shim = "images" /\ ImagesNext /\ UNCHANGED speechVars
     \/ shim = "speech" /\ SpeechNext /\ UNCHANGED imageVars

Spec == Init /\ [][Next]_<<shim, imageVars, speechVars>>

Symmetry == Permutations(MCPictures) \cup Permutations(MCUploads)
=============================================================================
