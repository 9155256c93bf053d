------------------------------ MODULE Planner ------------------------------
(***************************************************************************)
(* scheduler/planner.py: which models run on which cards, in four phases:  *)
(* coverage, restoration, replication and restoration again.  The planner  *)
(* keeps no state of its own between runs; what it reads back is the list  *)
(* of models each node runs already, so a plan is followed by a plan over  *)
(* what it deployed.                                                       *)
(*                                                                         *)
(* Memory is counted in GiB, contexts in thousands of tokens.  A node is   *)
(* named by the place of its id in the order of ids, a model by its place  *)
(* in VLLM_MODELS.  A card that a node does not have has no memory free.   *)
(***************************************************************************)
EXTENDS Integers, FiniteSetsExt

CONSTANTS Models, Nodes, Cards,
          Head,          \* the first node in NODES_VLLM
          Catalogues,    \* the models' records a plan may be made for
          Clusters,      \* the nodes' records a probe may report
          Caps,          \* what --replicas may say
          Deployments    \* what the nodes may run before the first plan

NoCap == 0               \* no --replicas: instances fill spare capacity
Undeclared == -1         \* an activation that the catalogue does not give
Physical == -1           \* a node without a ceiling below its cards' memory

CatalogueType ==
  [Models -> [weight : Nat, activation : Nat \cup {Undeclared}, pooling : BOOLEAN,
              kv : Nat, slide : Nat, sessions : Nat, floor : Nat \ {0},
              target : Nat \ {0}, tp : Nat \ {0}, heads : Nat \ {0},
              priority : Int, share : Nat \ {0},
              placement : {"any", "head", "pool"}, arches : SUBSET STRING]]

ClusterType ==
  [Nodes -> [class : {"supported", "unsupported", "silent"},
             total : Nat, usable : Nat \cup {Physical}, cards : Nat \ {0},
             foreign : [Cards -> Nat], arch : STRING, carries : SUBSET Models]]

ASSUME NamesType ==
  /\ Models \subseteq Nat /\ IsFiniteSet(Models)
  /\ Nodes \subseteq Nat /\ IsFiniteSet(Nodes)
  /\ Cards \subseteq Nat /\ IsFiniteSet(Cards)
  /\ Head \in Nodes /\ Caps \subseteq Nat

ASSUME InputsType ==
  /\ Catalogues \subseteq CatalogueType
  /\ Clusters \subseteq ClusterType
  /\ Deployments \subseteq [Models -> SUBSET Nodes]
  /\ \A spec \in Catalogues, m \in Models : spec[m].floor <= spec[m].target
  /\ \A node \in Clusters, n \in Nodes : node[n].usable <= node[n].total

VARIABLES
  spec,       \* the models, their metadata bound
  node,       \* the probed nodes
  replicas,   \* cap on the instances of a model
  deployed,   \* the nodes that run each model when the plan is made
  phase,
  todo,       \* the models that coverage has not come to
  seat,       \* the placements: seat[m][n]
  free,       \* free memory of each card
  turn        \* the place of the next placement in the plan's list

inputVars == <<spec, node, replicas, deployed>>
vars == <<inputVars, phase, todo, seat, free, turn>>

Smaller(a, b) == IF a <= b THEN a ELSE b
Larger(a, b) == IF a >= b THEN a ELSE b
Ceil(a, b) == (a + b - 1) \div b

(********************************* the nodes ********************************)

\* default_reserve_bytes: 8% of a card, at least 1 and at most 8 GiB.
Reserve(total) == IF total = 0 THEN 0 ELSE Larger(1, Smaller(8, (total * 8) \div 100))

CardsOf(n) == {c \in Cards : c < node[n].cards}

\* card_budget_bytes
Budget(n) ==
  IF node[n].usable = Physical
  THEN Larger(0, node[n].total - Reserve(node[n].total))
  ELSE node[n].usable \div node[n].cards

\* card_free_bytes
CardFree(n) ==
  [c \in Cards |-> IF c \in CardsOf(n) THEN Larger(0, Budget(n) - node[n].foreign[c]) ELSE 0]

Usable == {n \in Nodes : node[n].class = "supported"}

\* _eligible: a cluster of one node has no head and no pool.
Eligible(m) ==
  {n \in Usable : \/ Nodes = {Head}
                  \/ spec[m].placement = "any"
                  \/ spec[m].placement = "head" /\ n = Head
                  \/ spec[m].placement = "pool" /\ n # Head}

Carries(n, m) == m \in node[n].carries

RunsOn(m, n) == spec[m].arches = {} \/ node[n].arch = "" \/ node[n].arch \in spec[m].arches

(********************************** sizing **********************************)

\* kv_bytes: every session's cache with a margin of 10%.
KvBytes(m, ctx, sessions) ==
  IF spec[m].pooling THEN 0
  ELSE ((spec[m].kv * ctx + spec[m].slide) * sessions * 11) \div 10

\* activation_bytes: by runner, capped at 12% of a card's budget.
Activation(m, n) ==
  IF spec[m].activation # Undeclared THEN spec[m].activation
  ELSE Smaller(IF spec[m].pooling THEN 2 ELSE 10, Larger(1, (Budget(n) * 12) \div 100))

\* per_gpu_need_bytes
Need(m, n, ctx, sessions) ==
  spec[m].weight \div spec[m].tp + Activation(m, n)
    + KvBytes(m, ctx, sessions) \div Smaller(spec[m].tp, spec[m].heads)

\* A bug: the share is rounded down.
UtilRoundedDown(n, need) == Smaller(95, Larger(5, (need * 100) \div node[n].total))

\* gpu_util_for, in hundredths of a card.
Util(n, need) == Smaller(95, Larger(5, Ceil(need * 100, node[n].total)))

\* allocation: what vLLM takes of a card once the share is rounded up.
Taken(n, need) ==
  IF node[n].total = 0 THEN need
  ELSE Larger(need, Ceil(Util(n, need) * node[n].total, 100))

Charge(m, n, ctx, sessions) == Taken(n, Need(m, n, ctx, sessions))

\* _assign_cards: enough cards with room, on a node that can serve the model.
Roomy(m, n, sessions, room) ==
  {c \in CardsOf(n) : room[n][c] >= Charge(m, n, spec[m].floor, sessions)}

Seats(m, n, sessions, room) ==
  /\ RunsOn(m, n)
  /\ spec[m].tp <= node[n].cards
  /\ Charge(m, n, spec[m].floor, sessions) <= Budget(n)
  /\ Cardinality(Roomy(m, n, sessions, room)) >= spec[m].tp

Emptier(n, c, d) == free[n][c] > free[n][d] \/ (free[n][c] = free[n][d] /\ c < d)

\* The emptiest cards, as many as the model is sharded over.
CardsFor(m, n, sessions) ==
  LET roomy == Roomy(m, n, sessions, free)
  IN {c \in roomy : Cardinality({d \in roomy : Emptier(n, d, c)}) < spec[m].tp}

\* _fit_sessions: the declared sessions, halved until the model fits.
Halvings(m) ==
  LET declared == Larger(1, spec[m].sessions)
  IN {s \in 1..declared : \E i \in 0..declared : s = declared \div (2 ^ i)}

Fits(m, n, room) == \E s \in Halvings(m) : Seats(m, n, s, room)

MostSessions(m, n, s) ==
  /\ s \in Halvings(m) /\ Seats(m, n, s, free)
  /\ \A t \in Halvings(m) : Seats(m, n, t, free) => t <= s

(******************************** placements ********************************)

NoSeat == [cards |-> {}, charge |-> 0, ctx |-> 0, sessions |-> 0, turn |-> 0]

Placed(m) == {n \in Nodes : seat[m][n] # NoSeat}

Total(n) == SumFunctionOnSet(free[n], Cards)

\* Differences of a GiB do not decide.
Tied(nodes) == {n \in nodes : \A k \in nodes : Total(k) - Total(n) <= 1}

\* A bug: the nodes that do not run the model yet win.
Newcomers(nodes, incumbents) ==
  IF Tied(nodes) \ incumbents # {} THEN Tied(nodes) \ incumbents ELSE Tied(nodes)

Preferred(nodes, incumbents) ==
  IF Tied(nodes) \cap incumbents # {} THEN Tied(nodes) \cap incumbents ELSE Tied(nodes)

\* _worst_fit
WorstFit(n, nodes, incumbents) ==
  n \in Preferred(nodes, incumbents) /\ \A k \in Preferred(nodes, incumbents) : n <= k

Less(n, cards, amount) ==
  [free EXCEPT ![n] = [c \in Cards |-> IF c \in cards THEN @[c] - amount ELSE @[c]]]

NewSeat(m, n, sessions) ==
  [cards |-> CardsFor(m, n, sessions), charge |-> Charge(m, n, spec[m].floor, sessions),
   ctx |-> spec[m].floor, sessions |-> sessions, turn |-> turn]

SeatOn(m, n) ==
  \E s \in Halvings(m) :
    LET new == NewSeat(m, n, s)
    IN /\ MostSessions(m, n, s)
       /\ seat' = [seat EXCEPT ![m][n] = new]
       /\ free' = Less(n, new.cards, new.charge)
       /\ turn' = turn + 1

(********************************* coverage *********************************)

\* need_bytes at the floor, with the full activation.
Size(m) ==
  LET activation == IF spec[m].activation # Undeclared THEN spec[m].activation
                    ELSE IF spec[m].pooling THEN 2 ELSE 10
      kv == KvBytes(m, spec[m].floor, Larger(1, spec[m].sessions))
  IN (spec[m].weight \div spec[m].tp + activation
        + kv \div Smaller(spec[m].tp, spec[m].heads)) * spec[m].tp

Before(m, k) ==
  \/ spec[m].priority > spec[k].priority
  \/ spec[m].priority = spec[k].priority /\ Size(m) > Size(k)
  \/ spec[m].priority = spec[k].priority /\ Size(m) = Size(k) /\ m < k

\* A bug: the largest model first, priorities only break ties.
LargestFirst(m) ==
  \A k \in todo \ {m} : Size(m) > Size(k) \/ (Size(m) = Size(k) /\ Before(m, k))

ComesFirst(m) == \A k \in todo \ {m} : Before(m, k)

Holders(m) == {n \in Eligible(m) : Carries(n, m)}

Candidates(m) == {n \in Holders(m) : Fits(m, n, free)}

Covers(m) ==
  /\ phase = "cover"
  /\ m \in todo /\ ComesFirst(m)
  /\ todo' = todo \ {m}
  /\ UNCHANGED <<inputVars, phase>>

Cover(m) ==
  /\ Covers(m)
  /\ \E n \in Candidates(m) :
       WorstFit(n, Candidates(m), deployed[m]) /\ SeatOn(m, n)

\* The model is left to OpenRouter.
Delegate(m) ==
  /\ Covers(m)
  /\ Candidates(m) = {}
  /\ UNCHANGED <<seat, free, turn>>

EndCoverage ==
  /\ phase = "cover" /\ todo = {}
  /\ phase' = "restore"
  /\ UNCHANGED <<inputVars, todo, seat, free, turn>>

(******************************** restoration *******************************)

Longer(m, n) == Smaller(spec[m].target, 2 * seat[m][n].ctx)

Grown(m, n) == Charge(m, n, Longer(m, n), seat[m][n].sessions)

Extra(m, n) == Grown(m, n) - seat[m][n].charge

\* A bug: one card with room is enough for a sharded model to grow.
SomeCardHasRoom(m, n) == \E c \in seat[m][n].cards : free[n][c] >= Extra(m, n)

CardsHaveRoom(m, n) == \A c \in seat[m][n].cards : free[n][c] >= Extra(m, n)

\* A placement whose longer context takes no more of the card is passed over.
Growable(m, n) ==
  /\ n \in Placed(m)
  /\ seat[m][n].ctx < spec[m].target
  /\ Grown(m, n) <= Budget(n)
  /\ Extra(m, n) > 0
  /\ CardsHaveRoom(m, n)

\* A bug: the placement is made longer, its charge is not.
OnlyLonger(m, n) == [seat[m][n] EXCEPT !.ctx = Longer(m, n)]

GrownSeat(m, n) == [seat[m][n] EXCEPT !.ctx = Longer(m, n), !.charge = Grown(m, n)]

Further(m, k, n) ==
  LET mine == seat[m][n].ctx * spec[k].target
      other == seat[k][n].ctx * spec[m].target
  IN mine < other \/ (mine = other /\ seat[m][n].turn < seat[k][n].turn)

Restoring == phase \in {"restore", "refill"}

\* The furthest from its target that can grow does; nodes do not disturb each
\* other, so it does not matter which is next.
Restore(m, n) ==
  /\ Restoring
  /\ Growable(m, n)
  /\ \A k \in Models \ {m} : Growable(k, n) => Further(m, k, n)
  /\ free' = Less(n, seat[m][n].cards, Extra(m, n))
  /\ seat' = [seat EXCEPT ![m][n] = GrownSeat(m, n)]
  /\ UNCHANGED <<inputVars, phase, todo, turn>>

EndRestoration ==
  /\ Restoring
  /\ \A m \in Models, n \in Nodes : ~Growable(m, n)
  /\ phase' = IF phase = "restore" /\ replicas # 1 THEN "replicate" ELSE "done"
  /\ UNCHANGED <<inputVars, todo, seat, free, turn>>

(******************************** replication *******************************)

Instances(m) == Cardinality(Placed(m))

\* A bug: the checkpoint is not asked for again.
OthersEligible(m) == {n \in Eligible(m) \ Placed(m) : Fits(m, n, free)}

Others(m) == Candidates(m) \ Placed(m)

Deepens(m) ==
  /\ Placed(m) # {}
  /\ replicas = NoCap \/ Instances(m) < replicas
  /\ Others(m) # {}

Needier(m, k) ==
  LET mine == Instances(m) * spec[k].share
      other == Instances(k) * spec[m].share
  IN \/ mine < other
     \/ mine = other /\ spec[m].priority > spec[k].priority
     \/ mine = other /\ spec[m].priority = spec[k].priority /\ m < k

\* A bug: the phase ends when the neediest model has no place.
NeediestIsStuck ==
  \A m \in Models :
    (\A k \in Models \ {m} : Placed(k) # {} => Needier(m, k)) => ~Deepens(m)

NoneDeepens == \A m \in Models : ~Deepens(m)

Replicate(m) ==
  /\ phase = "replicate"
  /\ Deepens(m)
  /\ \A k \in Models \ {m} : Deepens(k) => Needier(m, k)
  /\ \E n \in Others(m) : WorstFit(n, Others(m), {}) /\ SeatOn(m, n)
  /\ UNCHANGED <<inputVars, phase, todo>>

EndReplication ==
  /\ phase = "replicate"
  /\ NoneDeepens
  /\ phase' = "refill"
  /\ UNCHANGED <<inputVars, todo, seat, free, turn>>

(********************************** a plan **********************************)

Nothing == [m \in Models |-> [n \in Nodes |-> NoSeat]]

Init ==
  /\ spec \in Catalogues /\ node \in Clusters /\ replicas \in Caps
  /\ deployed \in Deployments
  /\ phase = "cover" /\ todo = Models
  /\ seat = Nothing
  /\ free = [n \in Nodes |-> CardFree(n)]
  /\ turn = 1

\* The plan was applied and the nodes are probed again.
PlanAgain ==
  /\ phase = "done"
  /\ deployed' = [m \in Models |-> Placed(m)]
  /\ phase' = "cover" /\ todo' = Models
  /\ seat' = Nothing
  /\ free' = [n \in Nodes |-> CardFree(n)]
  /\ turn' = 1
  /\ UNCHANGED <<spec, node, replicas>>

Next ==
  \/ EndCoverage \/ EndRestoration \/ EndReplication \/ PlanAgain
  \/ \E m \in Models : Cover(m) \/ Delegate(m) \/ Replicate(m)
  \/ \E m \in Models, n \in Nodes : Restore(m, n)

Spec == Init /\ [][Next]_vars
-----------------------------------------------------------------------------
\* The placements on a card and what is left of it add up to what the probe
\* found: no card is promised twice, however placements grow and multiply.
On(n, c) == {m \in Models : c \in seat[m][n].cards}

CardsAddUp ==
  \A n \in Nodes, c \in Cards :
    free[n][c] + SumFunctionOnSet([m \in Models |-> seat[m][n].charge], On(n, c))
      = CardFree(n)[c]

\* The shares of a card that its instances are started with never add up past the
\* card, and each covers what the instance needs at its context and sessions, or is
\* the largest that is given.
Share(m, n) == Util(n, Need(m, n, seat[m][n].ctx, seat[m][n].sessions))

SharesFit ==
  \A n \in Nodes : node[n].total > 0 =>
    /\ \A c \in CardsOf(n) :
         SumFunctionOnSet([m \in Models |-> Share(m, n)], On(n, c)) <= 100
    /\ \A m \in Models : n \in Placed(m) =>
         \/ Share(m, n) * node[n].total
              >= 100 * Need(m, n, seat[m][n].ctx, seat[m][n].sessions)
         \/ Share(m, n) = 95

\* Every instance, the first and those that spare room allows, is on a node that
\* may serve it and holds its weights, has a context between its floor and its
\* target, and is charged for just that context and its sessions.
SeatsAreSound ==
  \A m \in Models : \A n \in Placed(m) :
    /\ n \in Holders(m) /\ RunsOn(m, n)
    /\ spec[m].floor <= seat[m][n].ctx /\ seat[m][n].ctx <= spec[m].target
    /\ seat[m][n].charge = Charge(m, n, seat[m][n].ctx, seat[m][n].sessions)
    /\ seat[m][n].charge <= Budget(n)

\* A model goes to OpenRouter only if it had no place beside the models that
\* go before it: neither a longer context nor another instance nor a model of
\* lower priority costs a model its only instance.
First(m) == Min({seat[m][n].turn : n \in Placed(m)})

RoomBeside(m) ==
  [n \in Nodes |-> [c \in Cards |->
     CardFree(n)[c] - SumFunctionOnSet(
       [k \in Models |-> Charge(k, n, spec[k].floor, seat[k][n].sessions)],
       {k \in On(n, c) : Before(k, m) /\ seat[k][n].turn = First(k)})]]

DelegatedForLackOfRoom ==
  phase = "done" =>
    \A m \in Models : Placed(m) = {} =>
      \A n \in Holders(m) : ~Fits(m, n, RoomBeside(m))

\* A finished plan has no place left for another instance.
NoIdleRoom ==
  phase = "done" /\ replicas = NoCap =>
    \A m \in Models : Placed(m) # {} => Others(m) = {}

\* Planning over what was deployed comes to rest, whatever ran at first: only
\* finitely often does a plan move, stop or add an instance.  One plan is not
\* enough: a replica may make another node the incumbent of the next.
PlansSettle == <>[][deployed' = deployed]_vars

\* A plan ends, whatever its models and nodes are: each step of its loops, of the
\* restorations with their doublings and of the replication that may go on between
\* them without a cap, leaves less to do than there was.
PhasesLeft ==
  CASE phase = "cover" -> 4 [] phase = "restore" -> 3 [] phase = "replicate" -> 2
    [] phase = "refill" -> 1 [] OTHER -> 0

WorkLeft ==
  Cardinality(todo) + PhasesLeft
    + SumFunctionOnSet([at \in Models \X Nodes |-> spec[at[1]].target - seat[at[1]][at[2]].ctx],
                       Models \X Nodes)

PlanEnds ==
  [][phase # "done" => WorkLeft \in Nat /\ WorkLeft' \in Nat /\ WorkLeft' < WorkLeft]_vars

\* planner.py: "Restoration - leftover capacity raises contexts toward their
\* targets": no context is left short that its cards have room to double.
ContextRestored ==
  phase = "done" =>
    \A m \in Models : \A n \in Placed(m) :
      ~(/\ seat[m][n].ctx < spec[m].target
        /\ Grown(m, n) <= Budget(n)
        /\ CardsHaveRoom(m, n))
=============================================================================
