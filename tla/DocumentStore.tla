--------------------------- MODULE DocumentStore ---------------------------
(***************************************************************************)
(* What the retrieval index promises: a document is there whole or not at  *)
(* all, one put replaces it as a whole, and only a request to forget it    *)
(* takes it away.                                                          *)
(***************************************************************************)
CONSTANTS Docs, Versions, Nothing

VARIABLES content,      \* the version of each document, or Nothing
          forgetting    \* the documents somebody is forgetting

vars == <<content, forgetting>>

Init == content = [d \in Docs |-> Nothing] /\ forgetting = {}

Replace(d) == \E v \in Versions : content' = [content EXCEPT ![d] = v]

Forget(D) == content' = [d \in Docs |-> IF d \in D THEN Nothing ELSE content[d]]

Next ==
  /\ forgetting' \in SUBSET Docs
  /\ \/ \E d \in Docs : Replace(d)
     \/ \E D \in SUBSET forgetting : Forget(D)

Spec == Init /\ [][Next]_vars
=============================================================================
