----------------------------- MODULE MCPlanner -----------------------------
(* Small instances of Planner: three models on three nodes of one or two     *)
(* cards.                                                                  *)
EXTENDS Planner

\* The 27B chat model: dense, cache that grows with the context.
Chat == [weight |-> 20, activation |-> Undeclared, pooling |-> FALSE, kv |-> 1, slide |-> 0,
         sessions |-> 4, floor |-> 2, target |-> 8, tp |-> 1, heads |-> 4,
         priority |-> 20, share |-> 1, placement |-> "any", arches |-> {}]

\* A model for the pool, with a declared activation, before the chat model.
Flash == [Chat EXCEPT !.weight = 50, !.activation = 6, !.priority = 30, !.placement = "pool"]

\* A model over two cards, its cache on one head.
Sharded == [Chat EXCEPT !.weight = 40, !.tp = 2, !.heads = 1, !.priority = 10, !.slide = 2]

\* Retrieval: no cache, on the head node.
Embed == [Chat EXCEPT !.weight = 2, !.pooling = TRUE, !.target = 3, !.priority = 5,
          !.placement = "head"]

\* A second chat model that the first competes with.
Coder == [Chat EXCEPT !.weight = 30, !.share = 2, !.priority = 20, !.arches = {"arm64"}]

SomeCatalogues ==
  {[m \in Models |-> CASE m = 1 -> a [] m = 2 -> b [] OTHER -> c] :
     a \in {Chat, Coder}, b \in {Flash, Sharded, Coder}, c \in {Embed, Chat}}

Card96 == [class |-> "supported", total |-> 96, usable |-> Physical, cards |-> 1,
           foreign |-> [c \in Cards |-> 0], arch |-> "amd64", carries |-> Models]
Two32 == [Card96 EXCEPT !.total = 32, !.cards = 2]
Two96 == [Card96 EXCEPT !.cards = 2, !.foreign = [c \in Cards |-> IF c = 0 THEN 40 ELSE 0]]
Unified == [Card96 EXCEPT !.total = 120, !.usable = 108, !.arch = "arm64"]
Lacking == [Card96 EXCEPT !.carries = {1, 3}]
Strange == [Card96 EXCEPT !.class = "unsupported"]

\* Nothing, or every model on one node.
SomeDeployments ==
  {[m \in Models |-> {}]} \cup {[m \in Models |-> {n}] : n \in Nodes}

SomeClusters == [Nodes -> {Card96, Two32, Two96, Unified, Lacking, Strange}]
=============================================================================
