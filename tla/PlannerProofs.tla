---------------------------- MODULE PlannerProofs ----------------------------
(***************************************************************************)
(* For any catalogue, cluster, cap and first deployment, and over any      *)
(* number of plans: every placement is on a node that may serve it, with   *)
(* the context and the charge it must have; the charges and the shares on  *)
(* a card add up to no more than the card; a finished plan leaves no room  *)
(* that another instance could use, and leaves a model out only for lack   *)
(* of room beside the models that go before it. Every step of a plan has   *)
(* less left to do than the one before it, so that every plan ends.        *)
(*                                                                         *)
(* Sums over sets are compared by smallest counterexample: the least set   *)
(* of models, in size, for which a fact about its sum would fail.          *)
(***************************************************************************)
EXTENDS Planner, FiniteSetTheorems, WellFoundedInduction, TLAPS

SeatType ==
  [cards : SUBSET Cards, charge : Int, ctx : Nat, sessions : Nat, turn : Nat]

InputsInv ==
  /\ spec \in CatalogueType /\ node \in ClusterType /\ replicas \in Nat
  /\ \A m \in Models : spec[m].floor <= spec[m].target
  /\ \A n \in Nodes : node[n].usable <= node[n].total

TypeInv ==
  /\ InputsInv
  /\ phase \in {"cover", "restore", "replicate", "refill", "done"}
  /\ seat \in [Models -> [Nodes -> SeatType]]
  /\ free \in [Nodes -> [Cards -> Int]]
  /\ turn \in Nat

SoundSeat(m, n) ==
  /\ n \in Holders(m) /\ RunsOn(m, n)
  /\ spec[m].floor <= seat[m][n].ctx /\ seat[m][n].ctx <= spec[m].target
  /\ seat[m][n].charge = Charge(m, n, seat[m][n].ctx, seat[m][n].sessions)
  /\ seat[m][n].charge <= Budget(n)

SeatsInv == \A m \in Models, n \in Nodes : seat[m][n] # NoSeat => SoundSeat(m, n)

\* From the end of replication on there is no room for another instance.
RoomInv ==
  phase \in {"refill", "done"} /\ replicas = NoCap =>
    \A m \in Models, n \in Nodes :
      seat[m][n] = NoSeat /\ Placed(m) # {} => n \notin Candidates(m)

Inv == TypeInv /\ SeatsInv

(********************************* numbers *********************************)

LEMMA DivType ==
  ASSUME NEW a \in Nat, NEW b \in Nat, b > 0
  PROVE  a \div b \in Nat
OBVIOUS

LEMMA CeilType ==
  ASSUME NEW a \in Nat, NEW b \in Nat, b > 0
  PROVE  Ceil(a, b) \in Nat
<1>1. a + b - 1 \in Nat
  OBVIOUS
<1> QED
  BY <1>1, DivType DEF Ceil

LEMMA PickType ==
  ASSUME NEW a \in Nat, NEW b \in Nat
  PROVE  Smaller(a, b) \in Nat /\ Larger(a, b) \in Nat
BY DEF Smaller, Larger

\* The fields of a model and of a node.
LEMMA SpecType ==
  ASSUME InputsInv, NEW m \in Models
  PROVE  /\ spec[m].weight \in Nat /\ spec[m].activation \in Nat \cup {Undeclared}
         /\ spec[m].pooling \in BOOLEAN /\ spec[m].kv \in Nat /\ spec[m].slide \in Nat
         /\ spec[m].sessions \in Nat /\ spec[m].floor \in Nat \ {0}
         /\ spec[m].target \in Nat \ {0} /\ spec[m].tp \in Nat \ {0}
         /\ spec[m].heads \in Nat \ {0} /\ spec[m].floor <= spec[m].target
BY DEF InputsInv, CatalogueType

LEMMA NodeType ==
  ASSUME InputsInv, NEW n \in Nodes
  PROVE  /\ node[n].total \in Nat /\ node[n].usable \in Nat \cup {Physical}
         /\ node[n].cards \in Nat \ {0} /\ node[n].foreign \in [Cards -> Nat]
BY DEF InputsInv, ClusterType

LEMMA BudgetType ==
  ASSUME InputsInv, NEW n \in Nodes
  PROVE  Budget(n) \in Nat
<1>1. node[n].total \in Nat /\ node[n].cards \in Nat /\ node[n].cards > 0
  BY NodeType
<1>2. Reserve(node[n].total) \in Nat
  <2>1. (node[n].total * 8) \div 100 \in Nat
    BY <1>1, DivType
  <2> QED
    BY <2>1, PickType DEF Reserve
<1>3. CASE node[n].usable = Physical
  BY <1>1, <1>2, <1>3 DEF Budget, Larger
<1>4. CASE node[n].usable # Physical
  <2>1. node[n].usable \in Nat
    BY <1>4, NodeType
  <2> QED
    BY <1>1, <1>4, <2>1, DivType DEF Budget
<1> QED
  BY <1>3, <1>4

LEMMA KvType ==
  ASSUME InputsInv, NEW m \in Models, NEW ctx \in Nat, NEW sessions \in Nat
  PROVE  KvBytes(m, ctx, sessions) \in Nat
<1> DEFINE kv == spec[m].kv
           slide == spec[m].slide
<1>1. kv \in Nat /\ slide \in Nat
  BY SpecType
<1>2. KvBytes(m, ctx, sessions) =
        IF spec[m].pooling THEN 0 ELSE ((kv * ctx + slide) * sessions * 11) \div 10
  BY DEF KvBytes
<1> HIDE DEF kv, slide
<1>3. kv * ctx \in Nat
  BY <1>1
<1>4. (kv * ctx + slide) \in Nat
  BY <1>1, <1>3
<1>5. (kv * ctx + slide) * sessions \in Nat
  BY <1>4
<1>6. (kv * ctx + slide) * sessions * 11 \in Nat
  BY <1>5
<1> QED
  BY <1>2, <1>6, DivType

LEMMA ActivationType ==
  ASSUME InputsInv, NEW m \in Models, NEW n \in Nodes
  PROVE  Activation(m, n) \in Nat
<1>1. (Budget(n) * 12) \div 100 \in Nat
  BY BudgetType, DivType
<1>2. Larger(1, (Budget(n) * 12) \div 100) \in Nat
  BY <1>1, PickType
<1>3. Smaller(IF spec[m].pooling THEN 2 ELSE 10, Larger(1, (Budget(n) * 12) \div 100)) \in Nat
  BY <1>2, PickType
<1> QED
  BY <1>3, SpecType DEF Activation

LEMMA NeedType ==
  ASSUME InputsInv, NEW m \in Models, NEW n \in Nodes, NEW ctx \in Nat, NEW sessions \in Nat
  PROVE  Need(m, n, ctx, sessions) \in Nat
<1>1. spec[m].weight \div spec[m].tp \in Nat
  <2>1. spec[m].weight \in Nat /\ spec[m].tp \in Nat /\ spec[m].tp > 0
    BY SpecType
  <2> QED
    BY <2>1, DivType
<1>2. Smaller(spec[m].tp, spec[m].heads) \in Nat /\ Smaller(spec[m].tp, spec[m].heads) > 0
  BY SpecType DEF Smaller
<1>3. KvBytes(m, ctx, sessions) \div Smaller(spec[m].tp, spec[m].heads) \in Nat
  BY <1>2, KvType, DivType
<1> QED
  BY <1>1, <1>3, ActivationType DEF Need

LEMMA ChargeType ==
  ASSUME InputsInv, NEW m \in Models, NEW n \in Nodes, NEW ctx \in Nat, NEW sessions \in Nat
  PROVE  Charge(m, n, ctx, sessions) \in Nat
<1> DEFINE need == Need(m, n, ctx, sessions)
           total == node[n].total
<1>1. need \in Nat /\ total \in Nat
  BY NeedType, NodeType
<1>2. Charge(m, n, ctx, sessions) = Taken(n, need)
  BY DEF Charge
<1>3. CASE total = 0
  BY <1>1, <1>2, <1>3 DEF Taken
<1>4. CASE total # 0
  <2>1. Util(n, need) \in Nat
    <3>1. Ceil(need * 100, total) \in Nat
      BY <1>1, <1>4, CeilType
    <3> QED
      BY <3>1, PickType DEF Util
  <2>2. Ceil(Util(n, need) * total, 100) \in Nat
    <3>1. Util(n, need) * total \in Nat
      BY <1>1, <2>1
    <3> QED
      BY <3>1, CeilType
  <2> QED
    BY <1>1, <1>2, <1>4, <2>2, PickType DEF Taken
<1> QED
  BY <1>3, <1>4

(********************************** a seat *********************************)

\* What depends on the catalogue and the nodes only does not change.
LEMMA SameSizes ==
  ASSUME UNCHANGED <<spec, node>>, NEW m, NEW n, NEW ctx, NEW sessions
  PROVE  /\ Charge(m, n, ctx, sessions)' = Charge(m, n, ctx, sessions)
         /\ Budget(n)' = Budget(n)
BY DEF Charge, Taken, Util, Need, KvBytes, Activation, Budget, Reserve

LEMMA SameHolders ==
  ASSUME UNCHANGED <<spec, node>>, NEW m, NEW n
  PROVE  Holders(m)' = Holders(m) /\ (RunsOn(m, n)' <=> RunsOn(m, n))
BY DEF Holders, Eligible, Usable, Carries, RunsOn

LEMMA SoundKept ==
  ASSUME UNCHANGED <<spec, node>>, NEW m \in Models, NEW n \in Nodes, NEW s,
         seat'[m][n] = s, n \in Holders(m), RunsOn(m, n),
         spec[m].floor <= s.ctx, s.ctx <= spec[m].target,
         s.charge = Charge(m, n, s.ctx, s.sessions), s.charge <= Budget(n)
  PROVE  SoundSeat(m, n)'
<1>1. s.charge = Charge(m, n, s.ctx, s.sessions)' /\ Budget(n)' = Budget(n)
  BY SameSizes
<1>2. n \in Holders(m)' /\ RunsOn(m, n)'
  BY SameHolders
<1>3. seat'[m][n].charge = Charge(m, n, seat[m][n].ctx, seat[m][n].sessions)'
  BY <1>1 DEF Charge, Taken, Util, Need, KvBytes, Activation, Budget, Reserve
<1> QED
  BY <1>1, <1>2, <1>3 DEF SoundSeat

LEMMA LessType ==
  ASSUME TypeInv, NEW n \in Nodes, NEW cards, NEW amount \in Int
  PROVE  /\ Less(n, cards, amount) \in [Nodes -> [Cards -> Int]]
         /\ \A k \in Nodes, c \in Cards :
              Less(n, cards, amount)[k][c] =
                IF k = n /\ c \in cards THEN free[k][c] - amount ELSE free[k][c]
<1>1. free \in [Nodes -> [Cards -> Int]]
  BY DEF TypeInv
<1>2. \A k \in Nodes, c \in Cards :
        Less(n, cards, amount)[k][c] =
          IF k = n /\ c \in cards THEN free[k][c] - amount ELSE free[k][c]
  BY <1>1 DEF Less
<1>3. \A k \in Nodes : Less(n, cards, amount)[k] \in [Cards -> Int]
  BY <1>1 DEF Less
<1>4. Less(n, cards, amount) \in [Nodes -> [Cards -> Int]]
  BY <1>1, <1>3 DEF Less
<1> QED
  BY <1>2, <1>4

\* What a new placement is.
LEMMA SeatOnIs ==
  ASSUME TypeInv, NEW m \in Models, NEW n \in Candidates(m), SeatOn(m, n)
  PROVE  \E s \in SeatType :
           /\ seat' = [seat EXCEPT ![m][n] = s]
           /\ s.ctx = spec[m].floor /\ s.charge = Charge(m, n, s.ctx, s.sessions)
           /\ s.charge <= Budget(n) /\ RunsOn(m, n)
           /\ n \in Holders(m) /\ n \in Nodes
           /\ free' \in [Nodes -> [Cards -> Int]] /\ turn' \in Nat
           /\ free' = Less(n, s.cards, s.charge) /\ s.charge \in Nat
           /\ \A c \in s.cards : free[n][c] >= s.charge
           /\ s.turn = turn /\ turn' = turn + 1
<1>1. n \in Holders(m) /\ n \in Nodes
  BY DEF Candidates, Holders, Eligible, Usable
<1>2. PICK sessions \in Halvings(m) :
        LET new == NewSeat(m, n, sessions)
        IN /\ MostSessions(m, n, sessions)
           /\ seat' = [seat EXCEPT ![m][n] = new]
           /\ free' = Less(n, new.cards, new.charge)
           /\ turn' = turn + 1
  BY DEF SeatOn
<1>3. Seats(m, n, sessions, free)
  BY <1>2 DEF MostSessions
<1>4. sessions \in Nat
  BY SpecType DEF TypeInv, Halvings, Larger
<1> DEFINE s == NewSeat(m, n, sessions)
<1>5. /\ s.cards = CardsFor(m, n, sessions)
      /\ s.charge = Charge(m, n, spec[m].floor, sessions)
      /\ s.ctx = spec[m].floor /\ s.sessions = sessions /\ s.turn = turn
  BY DEF NewSeat
<1>6. Charge(m, n, spec[m].floor, sessions) \in Nat
  <2>1. InputsInv /\ spec[m].floor \in Nat
    BY SpecType DEF TypeInv
  <2> QED
    BY <1>1, <1>4, <2>1, ChargeType
<1>7. CardsFor(m, n, sessions) \subseteq Cards
  BY DEF CardsFor, Roomy, CardsOf
<1>8. s \in SeatType
  <2>1. turn \in Nat /\ spec[m].floor \in Nat
    BY SpecType DEF TypeInv
  <2> QED
    BY <1>4, <1>6, <1>7, <2>1 DEF NewSeat, SeatType
<1>9. seat' = [seat EXCEPT ![m][n] = s] /\ free' = Less(n, s.cards, s.charge) /\ turn' = turn + 1
  BY <1>2
<1> HIDE DEF s
<1>10. free' \in [Nodes -> [Cards -> Int]]
  BY <1>1, <1>5, <1>6, <1>9, LessType
<1>11. turn' \in Nat
  BY <1>9 DEF TypeInv
<1>12. s.charge <= Budget(n) /\ RunsOn(m, n)
  BY <1>3, <1>5 DEF Seats
<1>13. s.charge = Charge(m, n, s.ctx, s.sessions) /\ s.charge \in Nat
  BY <1>5, <1>6
<1>14. \A c \in s.cards : free[n][c] >= s.charge
  BY <1>5 DEF CardsFor, Roomy
<1> QED
  BY <1>1, <1>5, <1>8, <1>9, <1>10, <1>11, <1>12, <1>13, <1>14

(********************************** steps **********************************)

LEMMA CardFreeType ==
  ASSUME InputsInv, NEW n \in Nodes
  PROVE  CardFree(n) \in [Cards -> Int]
<1>1. node[n].foreign \in [Cards -> Nat] /\ Budget(n) \in Nat
  BY NodeType, BudgetType
<1>2. \A c \in Cards : Larger(0, Budget(n) - node[n].foreign[c]) \in Int
  BY <1>1 DEF Larger
<1> QED
  BY <1>2 DEF CardFree

\* The start of a plan.
LEMMA FreshPlan ==
  ASSUME InputsInv,
         NEW s, s = Nothing,
         NEW f, f = [n \in Nodes |-> CardFree(n)]
  PROVE  /\ s \in [Models -> [Nodes -> SeatType]]
         /\ \A m \in Models, n \in Nodes : s[m][n] = NoSeat
         /\ f \in [Nodes -> [Cards -> Int]]
<1>1. NoSeat \in SeatType
  BY DEF NoSeat, SeatType
<1>2. \A m \in Models : s[m] = [n \in Nodes |-> NoSeat]
  BY DEF Nothing
<1>3. s \in [Models -> [Nodes -> SeatType]]
  BY <1>1 DEF Nothing
<1> QED
  BY <1>2, <1>3, CardFreeType

LEMMA InitOK == Init => Inv
<1> SUFFICES ASSUME Init PROVE Inv
  OBVIOUS
<1>1. InputsInv
  BY NamesType, InputsType DEF Init, InputsInv
<1>2. seat = Nothing /\ free = [n \in Nodes |-> CardFree(n)] /\ turn = 1 /\ phase = "cover"
  BY DEF Init
<1>3. /\ seat \in [Models -> [Nodes -> SeatType]]
      /\ \A m \in Models, n \in Nodes : seat[m][n] = NoSeat
      /\ free \in [Nodes -> [Cards -> Int]]
  BY <1>1, <1>2, FreshPlan
<1> QED
  BY <1>1, <1>2, <1>3 DEF Inv, TypeInv, SeatsInv

LEMMA PlanAgainKeeps ==
  ASSUME Inv, PlanAgain
  PROVE  Inv'
<1>1. /\ seat' = Nothing /\ turn' = 1 /\ phase' = "cover" /\ UNCHANGED <<spec, node, replicas>>
      /\ free' = [n \in Nodes |-> CardFree(n)']
  BY DEF PlanAgain, CardFree, CardsOf, Budget, Reserve
<1>2. free' = [n \in Nodes |-> CardFree(n)]
  BY <1>1 DEF CardFree, CardsOf, Budget, Reserve
<1>3. InputsInv /\ InputsInv'
  BY <1>1 DEF Inv, TypeInv, InputsInv
<1>4. /\ seat' \in [Models -> [Nodes -> SeatType]]
      /\ \A m \in Models, n \in Nodes : seat'[m][n] = NoSeat
      /\ free' \in [Nodes -> [Cards -> Int]]
  BY <1>1, <1>2, <1>3, FreshPlan
<1> QED
  BY <1>1, <1>3, <1>4 DEF Inv, TypeInv, SeatsInv, NoSeat

\* Steps that leave the placements alone.
LEMMA PhaseStep ==
  ASSUME Inv, UNCHANGED <<spec, node, replicas, seat, free, turn>>,
         phase' \in {"cover", "restore", "replicate", "refill", "done"}
  PROVE  Inv'
<1>1. TypeInv'
  BY DEF Inv, TypeInv, InputsInv
<1>2. SeatsInv'
  <2> SUFFICES ASSUME NEW m \in Models, NEW n \in Nodes, seat[m][n] # NoSeat
               PROVE  SoundSeat(m, n)'
    BY DEF SeatsInv, NoSeat
  <2>1. SoundSeat(m, n)
    BY DEF Inv, SeatsInv
  <2>2. PICK s : s = seat[m][n]
    OBVIOUS
  <2> QED
    BY <2>1, <2>2, SoundKept DEF SoundSeat
<1> QED
  BY <1>1, <1>2 DEF Inv

\* One placement is made or changed.
LEMMA SeatStep ==
  ASSUME Inv, UNCHANGED <<spec, node, replicas>>, NEW m \in Models, NEW n \in Nodes,
         NEW s \in SeatType, seat' = [seat EXCEPT ![m][n] = s],
         n \in Holders(m), RunsOn(m, n),
         spec[m].floor <= s.ctx, s.ctx <= spec[m].target,
         s.charge = Charge(m, n, s.ctx, s.sessions), s.charge <= Budget(n),
         free' \in [Nodes -> [Cards -> Int]], turn' \in Nat,
         phase' \in {"cover", "restore", "replicate", "refill", "done"}
  PROVE  Inv'
<1>1. seat \in [Models -> [Nodes -> SeatType]]
  BY DEF Inv, TypeInv
<1>2. /\ seat' \in [Models -> [Nodes -> SeatType]]
      /\ seat'[m][n] = s
      /\ \A k \in Models, l \in Nodes : k # m \/ l # n => seat'[k][l] = seat[k][l]
  BY <1>1
<1>3. TypeInv'
  BY <1>2 DEF Inv, TypeInv, InputsInv
<1>4. SeatsInv'
  <2> SUFFICES ASSUME NEW k \in Models, NEW l \in Nodes, seat'[k][l] # NoSeat
               PROVE  SoundSeat(k, l)'
    BY DEF SeatsInv, NoSeat
  <2>1. CASE k = m /\ l = n
    BY <1>2, <2>1, SoundKept
  <2>2. CASE k # m \/ l # n
    <3>1. seat'[k][l] = seat[k][l] /\ SoundSeat(k, l)
      BY <1>2, <2>2 DEF Inv, SeatsInv
    <3>2. PICK r : r = seat[k][l]
      OBVIOUS
    <3> QED
      BY <3>1, <3>2, SoundKept DEF SoundSeat
  <2> QED
    BY <2>1, <2>2
<1> QED
  BY <1>3, <1>4 DEF Inv

\* A first or another instance.
LEMMA NewSeatKeeps ==
  ASSUME Inv, UNCHANGED inputVars, NEW m \in Models, NEW n \in Candidates(m), SeatOn(m, n),
         UNCHANGED phase
  PROVE  Inv'
<1>1. UNCHANGED <<spec, node, replicas>>
  BY DEF inputVars
<1>2. PICK s \in SeatType :
        /\ seat' = [seat EXCEPT ![m][n] = s]
        /\ s.ctx = spec[m].floor /\ s.charge = Charge(m, n, s.ctx, s.sessions)
        /\ s.charge <= Budget(n) /\ RunsOn(m, n)
        /\ n \in Holders(m) /\ n \in Nodes
        /\ free' \in [Nodes -> [Cards -> Int]] /\ turn' \in Nat
  BY SeatOnIs DEF Inv
<1>3. spec[m].floor \in Nat /\ spec[m].floor <= spec[m].target
  BY SpecType DEF Inv, TypeInv
<1>4. spec[m].floor <= s.ctx /\ s.ctx <= spec[m].target
  BY <1>2, <1>3
<1>5. phase' \in {"cover", "restore", "replicate", "refill", "done"}
  BY DEF Inv, TypeInv
<1> QED
  BY <1>1, <1>2, <1>4, <1>5, SeatStep

\* What restoration does to a placement.
LEMMA RestoreIs ==
  ASSUME Inv, NEW m \in Models, NEW n \in Nodes, Restore(m, n)
  PROVE  \E s \in SeatType :
           /\ seat' = [seat EXCEPT ![m][n] = s] /\ seat[m][n] # NoSeat
           /\ spec[m].floor <= s.ctx /\ s.ctx <= spec[m].target
           /\ s.charge = Charge(m, n, s.ctx, s.sessions) /\ s.charge <= Budget(n)
           /\ free' = Less(n, seat[m][n].cards, Extra(m, n))
           /\ Extra(m, n) \in Int /\ Extra(m, n) > 0
           /\ n \in Holders(m) /\ RunsOn(m, n)
           /\ s.cards = seat[m][n].cards /\ s.sessions = seat[m][n].sessions
           /\ s.turn = seat[m][n].turn
           /\ Extra(m, n) = s.charge - seat[m][n].charge
           /\ \A c \in s.cards : free[n][c] >= Extra(m, n)
<1> DEFINE old == seat[m][n]
           s == GrownSeat(m, n)
<1>1. /\ seat' = [seat EXCEPT ![m][n] = s] /\ Growable(m, n)
      /\ free' = Less(n, old.cards, Extra(m, n))
  BY DEF Restore
<1>2. old \in SeatType /\ old # NoSeat /\ SoundSeat(m, n)
  BY <1>1 DEF Growable, Placed, Inv, TypeInv, SeatsInv
<1>3. /\ s.cards = old.cards /\ s.charge = Grown(m, n) /\ s.ctx = Longer(m, n)
      /\ s.sessions = old.sessions /\ s.turn = old.turn
  BY <1>2 DEF GrownSeat, SeatType
<1>4. /\ old.ctx \in Nat /\ old.sessions \in Nat /\ old.charge \in Int
      /\ spec[m].floor <= old.ctx /\ old.ctx <= spec[m].target
      /\ spec[m].floor \in Nat /\ spec[m].target \in Nat
  BY <1>2, SpecType DEF SeatType, SoundSeat, Inv, TypeInv
<1>5. /\ Longer(m, n) \in Nat /\ spec[m].floor <= Longer(m, n)
      /\ Longer(m, n) <= spec[m].target
  BY <1>4 DEF Longer, Smaller
<1>6. Grown(m, n) = Charge(m, n, Longer(m, n), old.sessions) /\ Grown(m, n) \in Nat
  BY <1>4, <1>5, ChargeType DEF Grown, Inv, TypeInv
<1>7. Extra(m, n) \in Int
  BY <1>4, <1>6 DEF Extra
<1>8. s \in SeatType
  <2>1. s = [old EXCEPT !.ctx = Longer(m, n), !.charge = Grown(m, n)]
    BY DEF GrownSeat
  <2>2. Longer(m, n) \in Nat /\ Grown(m, n) \in Int /\ old \in SeatType
    BY <1>2, <1>5, <1>6
  <2> HIDE DEF s, old
  <2> QED
    BY <2>1, <2>2 DEF SeatType
<1>9. Grown(m, n) <= Budget(n) /\ Extra(m, n) > 0
  BY <1>1 DEF Growable
<1>10. n \in Holders(m) /\ RunsOn(m, n)
  BY <1>2 DEF SoundSeat
<1> HIDE DEF s
<1>11. s.charge = Charge(m, n, s.ctx, s.sessions)
  BY <1>3, <1>6
<1>12. Extra(m, n) = s.charge - old.charge
  BY <1>3 DEF Extra
<1>13. \A c \in s.cards : free[n][c] >= Extra(m, n)
  BY <1>1, <1>3 DEF Growable, CardsHaveRoom
<1> QED
  BY <1>1, <1>2, <1>3, <1>5, <1>7, <1>8, <1>9, <1>10, <1>11, <1>12, <1>13

LEMMA RestoreKeeps ==
  ASSUME Inv, NEW m \in Models, NEW n \in Nodes, Restore(m, n)
  PROVE  Inv'
<1>1. PICK s \in SeatType :
        /\ seat' = [seat EXCEPT ![m][n] = s] /\ seat[m][n] # NoSeat
        /\ spec[m].floor <= s.ctx /\ s.ctx <= spec[m].target
        /\ s.charge = Charge(m, n, s.ctx, s.sessions) /\ s.charge <= Budget(n)
        /\ free' = Less(n, seat[m][n].cards, Extra(m, n))
        /\ Extra(m, n) \in Int /\ Extra(m, n) > 0
        /\ n \in Holders(m) /\ RunsOn(m, n)
  BY RestoreIs
<1>2. free' \in [Nodes -> [Cards -> Int]]
  BY <1>1, LessType DEF Inv
<1>3. UNCHANGED <<spec, node, replicas, phase, turn>>
  BY DEF Restore, inputVars
<1>4. turn' \in Nat /\ phase' \in {"cover", "restore", "replicate", "refill", "done"}
  BY <1>3 DEF Inv, TypeInv
<1> QED
  BY <1>1, <1>2, <1>3, <1>4, SeatStep

LEMMA StepOK == Inv /\ [Next]_vars => Inv'
<1> SUFFICES ASSUME Inv, [Next]_vars PROVE Inv'
  OBVIOUS
<1>1. CASE EndCoverage \/ EndRestoration \/ EndReplication
  <2>1. UNCHANGED <<spec, node, replicas, seat, free, turn>>
    BY <1>1 DEF EndCoverage, EndRestoration, EndReplication, inputVars
  <2>2. phase' \in {"cover", "restore", "replicate", "refill", "done"}
    BY <1>1 DEF EndCoverage, EndRestoration, EndReplication
  <2> QED
    BY <2>1, <2>2, PhaseStep
<1>2. CASE PlanAgain
  BY <1>2, PlanAgainKeeps
<1>3. ASSUME NEW m \in Models, Cover(m) PROVE Inv'
  <2>1. PICK n \in Candidates(m) : SeatOn(m, n)
    BY <1>3 DEF Cover
  <2>2. UNCHANGED inputVars /\ UNCHANGED phase
    BY <1>3 DEF Cover, Covers
  <2> QED
    BY <2>1, <2>2, NewSeatKeeps
<1>4. ASSUME NEW m \in Models, Replicate(m) PROVE Inv'
  <2>1. PICK n \in Others(m) : SeatOn(m, n)
    BY <1>4 DEF Replicate
  <2>2. UNCHANGED inputVars /\ UNCHANGED phase
    BY <1>4 DEF Replicate
  <2> QED
    BY <2>1, <2>2, NewSeatKeeps DEF Others
<1>5. ASSUME NEW m \in Models, Delegate(m) PROVE Inv'
  <2>1. UNCHANGED <<spec, node, replicas, phase, seat, free, turn>>
    BY <1>5 DEF Delegate, Covers, inputVars
  <2>2. phase' \in {"cover", "restore", "replicate", "refill", "done"}
    BY <2>1 DEF Inv, TypeInv
  <2> QED
    BY <2>1, <2>2, PhaseStep
<1>6. ASSUME NEW m \in Models, NEW n \in Nodes, Restore(m, n) PROVE Inv'
  BY <1>6, RestoreKeeps
<1>7. CASE UNCHANGED vars
  <2>1. UNCHANGED <<spec, node, replicas, phase, seat, free, turn>>
    BY <1>7 DEF vars, inputVars
  <2>2. phase' \in {"cover", "restore", "replicate", "refill", "done"}
    BY <2>1 DEF Inv, TypeInv
  <2> QED
    BY <2>1, <2>2, PhaseStep
<1> QED
  BY <1>1, <1>2, <1>3, <1>4, <1>5, <1>6, <1>7 DEF Next

LEMMA Invariance == Spec => []Inv
BY InitOK, StepOK, PTL DEF Spec

\* planner.py, whatever the phases did and however often it planned: a placement
\* is on a node that may serve the model, with a context between its floor and
\* its target, charged for just that context and its sessions, within the budget.
THEOREM PlacementsAreSound == Spec => []SeatsAreSound
<1>1. Inv => SeatsAreSound
  BY DEF Inv, SeatsInv, SoundSeat, SeatsAreSound, Placed
<1> QED
  BY <1>1, Invariance, PTL

(******************************** the room left ****************************)

LEMMA RoomyIsFinite ==
  ASSUME NEW m, NEW n, NEW sessions, NEW room
  PROVE  IsFiniteSet(Roomy(m, n, sessions, room))
<1>1. Roomy(m, n, sessions, room) \subseteq Cards
  BY DEF Roomy, CardsOf
<1> QED
  BY <1>1, NamesType, FS_Subset

\* Less free memory never makes room for an instance.
LEMMA NoRoomByLess ==
  ASSUME TypeInv, NEW m \in Models, NEW n \in Nodes,
         NEW less \in [Nodes -> [Cards -> Int]], NEW more \in [Nodes -> [Cards -> Int]],
         \A c \in Cards : less[n][c] <= more[n][c], Fits(m, n, less)
  PROVE  Fits(m, n, more)
<1>1. PICK s \in Halvings(m) : Seats(m, n, s, less)
  BY DEF Fits
<1>2. s \in Nat /\ spec[m].floor \in Nat /\ spec[m].tp \in Nat
  BY SpecType DEF TypeInv, Halvings, Larger
<1>3. Charge(m, n, spec[m].floor, s) \in Nat
  BY <1>2, ChargeType DEF TypeInv
<1>4. Roomy(m, n, s, less) \subseteq Roomy(m, n, s, more)
  <2> SUFFICES ASSUME NEW c \in Roomy(m, n, s, less) PROVE c \in Roomy(m, n, s, more)
    OBVIOUS
  <2>1. c \in CardsOf(n) /\ c \in Cards /\ less[n][c] >= Charge(m, n, spec[m].floor, s)
    BY DEF Roomy, CardsOf
  <2>2. less[n][c] \in Int /\ more[n][c] \in Int
    BY <2>1
  <2>3. more[n][c] >= Charge(m, n, spec[m].floor, s)
    BY <1>3, <2>1, <2>2
  <2> QED
    BY <2>1, <2>3 DEF Roomy
<1>5. /\ Cardinality(Roomy(m, n, s, less)) <= Cardinality(Roomy(m, n, s, more))
      /\ Cardinality(Roomy(m, n, s, less)) \in Nat
      /\ Cardinality(Roomy(m, n, s, more)) \in Nat
  BY <1>4, RoomyIsFinite, FS_Subset, FS_CardinalityType
<1>6. Seats(m, n, s, more)
  BY <1>1, <1>2, <1>5 DEF Seats
<1> QED
  BY <1>6 DEF Fits

LEMMA SameFits ==
  ASSUME UNCHANGED <<spec, node>>, NEW m, NEW n, NEW room
  PROVE  Fits(m, n, room)' <=> Fits(m, n, room)
<1>1. Halvings(m)' = Halvings(m)
  BY DEF Halvings
<1>2. ASSUME NEW s
      PROVE  Seats(m, n, s, room)' <=> Seats(m, n, s, room)
  <2>1. Charge(m, n, spec[m].floor, s)' = Charge(m, n, spec[m].floor, s)
    BY DEF Charge, Taken, Util, Need, KvBytes, Activation, Budget, Reserve
  <2>2. Budget(n)' = Budget(n) /\ CardsOf(n)' = CardsOf(n) /\ (RunsOn(m, n)' <=> RunsOn(m, n))
    BY SameSizes, SameHolders DEF CardsOf
  <2>3. Roomy(m, n, s, room)' = Roomy(m, n, s, room)
    BY <2>1, <2>2 DEF Roomy
  <2> QED
    BY <2>1, <2>2, <2>3 DEF Seats
<1> QED
  BY <1>1, <1>2 DEF Fits

\* A node that fits after a step that took memory fitted before it.
LEMMA FewerCandidates ==
  ASSUME TypeInv, UNCHANGED <<spec, node>>, NEW m \in Models, NEW n \in Nodes,
         free' \in [Nodes -> [Cards -> Int]],
         \A c \in Cards : free'[n][c] <= free[n][c], n \in Candidates(m)'
  PROVE  n \in Candidates(m)
<1>1. n \in Holders(m)
  BY SameHolders DEF Candidates
<1>2. PICK less : less = free'
  OBVIOUS
<1>3. Fits(m, n, less)'
  BY <1>2 DEF Candidates, Fits, Seats, Roomy
<1>4. Fits(m, n, less)
  BY <1>3, SameFits
<1>5. free \in [Nodes -> [Cards -> Int]]
  BY DEF TypeInv
<1>6. Fits(m, n, free)
  BY <1>2, <1>4, <1>5, NoRoomByLess
<1> QED
  BY <1>1, <1>6 DEF Candidates

LEMMA RoomKept ==
  ASSUME Inv, RoomInv, UNCHANGED <<spec, node, replicas, seat, free>>,
         phase' \in {"refill", "done"} => phase \in {"refill", "done"}
  PROVE  RoomInv'
<1> SUFFICES ASSUME phase \in {"refill", "done"}, replicas = NoCap,
                    NEW m \in Models, NEW n \in Nodes,
                    seat[m][n] = NoSeat, Placed(m)' # {}, n \in Candidates(m)'
             PROVE  FALSE
  BY DEF RoomInv, NoSeat, NoCap
<1>1. Placed(m) # {}
  BY DEF Placed, NoSeat
<1>2. free' \in [Nodes -> [Cards -> Int]] /\ \A c \in Cards : free'[n][c] <= free[n][c]
  BY DEF Inv, TypeInv
<1>3. n \in Candidates(m)
  BY <1>2, FewerCandidates DEF Inv
<1> QED
  BY <1>1, <1>3 DEF RoomInv

\* Restoration takes memory and moves nothing.
LEMMA RestoreRoom ==
  ASSUME Inv, RoomInv, NEW k \in Models, NEW l \in Nodes, Restore(k, l)
  PROVE  RoomInv'
<1>1. PICK s \in SeatType :
        /\ seat' = [seat EXCEPT ![k][l] = s] /\ seat[k][l] # NoSeat
        /\ spec[k].floor <= s.ctx
        /\ free' = Less(l, seat[k][l].cards, Extra(k, l))
        /\ Extra(k, l) \in Int /\ Extra(k, l) > 0
  BY RestoreIs
<1>2. UNCHANGED <<spec, node, replicas, phase>>
  BY DEF Restore, inputVars
<1>3. s # NoSeat
  <2>1. spec[k].floor \in Nat \ {0} /\ s.ctx \in Nat
    BY SpecType DEF Inv, TypeInv, SeatType
  <2>2. s.ctx # 0
    BY <1>1, <2>1
  <2> QED
    BY <2>2 DEF NoSeat
<1>4. seat \in [Models -> [Nodes -> SeatType]]
  BY DEF Inv, TypeInv
<1>5. \A m \in Models, n \in Nodes : seat'[m][n] = NoSeat <=> seat[m][n] = NoSeat
  BY <1>1, <1>3, <1>4
<1>6. \A m \in Models : Placed(m)' = Placed(m)
  BY <1>5 DEF Placed, NoSeat
<1>7. /\ free' \in [Nodes -> [Cards -> Int]]
      /\ \A n \in Nodes, c \in Cards : free'[n][c] <= free[n][c]
  <2> DEFINE extra == Extra(k, l)
             cards == seat[k][l].cards
  <2>1. extra \in Int /\ extra > 0 /\ free' = Less(l, cards, extra)
    BY <1>1
  <2> HIDE DEF extra, cards
  <2>2. /\ free' \in [Nodes -> [Cards -> Int]]
        /\ \A n \in Nodes, c \in Cards :
             free'[n][c] = IF n = l /\ c \in cards THEN free[n][c] - extra ELSE free[n][c]
    BY <2>1, LessType DEF Inv
  <2>3. free \in [Nodes -> [Cards -> Int]]
    BY DEF Inv, TypeInv
  <2> QED
    BY <2>1, <2>2, <2>3
<1> SUFFICES ASSUME phase \in {"refill", "done"}, replicas = NoCap,
                    NEW m \in Models, NEW n \in Nodes,
                    seat[m][n] = NoSeat, Placed(m) # {}, n \in Candidates(m)'
             PROVE  FALSE
  BY <1>2, <1>5, <1>6 DEF RoomInv, NoSeat, NoCap
<1>8. n \in Candidates(m)
  BY <1>2, <1>7, FewerCandidates DEF Inv
<1> QED
  BY <1>8 DEF RoomInv

\* Replication ends when no model that is placed has another place.
LEMMA EndReplicationRoom ==
  ASSUME Inv, EndReplication
  PROVE  RoomInv'
<1>1. UNCHANGED <<spec, node, replicas, seat, free>> /\ NoneDeepens
  BY DEF EndReplication, inputVars
<1> SUFFICES ASSUME replicas = NoCap, NEW m \in Models, NEW n \in Nodes,
                    seat[m][n] = NoSeat, Placed(m)' # {}, n \in Candidates(m)'
             PROVE  FALSE
  BY <1>1 DEF RoomInv, NoSeat, NoCap
<1>2. Placed(m) # {} /\ n \notin Placed(m)
  BY <1>1 DEF Placed, NoSeat
<1>3. free' \in [Nodes -> [Cards -> Int]] /\ \A c \in Cards : free'[n][c] <= free[n][c]
  BY <1>1 DEF Inv, TypeInv
<1>4. n \in Candidates(m)
  BY <1>1, <1>3, FewerCandidates DEF Inv
<1> QED
  BY <1>1, <1>2, <1>4 DEF NoneDeepens, Deepens, Others

LEMMA RoomStep == Inv /\ RoomInv /\ [Next]_vars => RoomInv'
<1> SUFFICES ASSUME Inv, RoomInv, [Next]_vars PROVE RoomInv'
  OBVIOUS
<1>1. CASE EndReplication
  BY <1>1, EndReplicationRoom
<1>2. CASE EndRestoration
  <2>1. UNCHANGED <<spec, node, replicas, seat, free>>
    BY <1>2 DEF EndRestoration, inputVars
  <2>2. CASE phase = "restore" /\ replicas = 1
    BY <2>1, <2>2 DEF RoomInv, NoCap
  <2>3. CASE ~(phase = "restore" /\ replicas = 1)
    <3>1. phase' \in {"refill", "done"} => phase \in {"refill", "done"}
      BY <1>2, <2>3 DEF EndRestoration, Restoring
    <3> QED
      BY <2>1, <3>1, RoomKept
  <2> QED
    BY <2>2, <2>3
<1>3. CASE EndCoverage \/ PlanAgain
  BY <1>3 DEF EndCoverage, PlanAgain, RoomInv
<1>4. ASSUME NEW m \in Models, Cover(m) \/ Delegate(m) PROVE RoomInv'
  BY <1>4 DEF Cover, Delegate, Covers, RoomInv
<1>5. ASSUME NEW m \in Models, Replicate(m) PROVE RoomInv'
  BY <1>5 DEF Replicate, RoomInv
<1>6. ASSUME NEW m \in Models, NEW n \in Nodes, Restore(m, n) PROVE RoomInv'
  BY <1>6, RestoreRoom
<1>7. CASE UNCHANGED vars
  <2>1. UNCHANGED <<spec, node, replicas, seat, free, phase>>
    BY <1>7 DEF vars, inputVars
  <2> QED
    BY <2>1, RoomKept
<1> QED
  BY <1>1, <1>2, <1>3, <1>4, <1>5, <1>6, <1>7 DEF Next

\* planner.py, _replicate: a finished plan without a cap on instances has no node
\* left that could hold another instance of a model it placed; what restoration
\* takes after replication only makes room scarcer.
THEOREM NoRoomIsIdle == Spec => []NoIdleRoom
<1>1. Init => RoomInv
  BY DEF Init, RoomInv
<1>2. RoomInv => NoIdleRoom
  <2> SUFFICES ASSUME RoomInv, phase = "done", replicas = NoCap,
                      NEW m \in Models, Placed(m) # {}, NEW n \in Others(m)
               PROVE  FALSE
    BY DEF NoIdleRoom
  <2>1. n \in Nodes /\ n \in Candidates(m) /\ n \notin Placed(m)
    BY DEF Others, Candidates, Holders, Eligible, Usable
  <2> QED
    BY <2>1 DEF Placed, RoomInv
<1> QED
  BY <1>1, <1>2, RoomStep, Invariance, PTL DEF Spec

(******************************** the cards ********************************)

\* What the probe found on a card is enough for what is left of it and for any
\* two instances on it.
CardHolds(n, c) ==
  /\ 0 <= free[n][c] /\ free[n][c] <= CardFree(n)[c]
  /\ \A m \in Models : c \in seat[m][n].cards =>
       free[n][c] + seat[m][n].charge <= CardFree(n)[c]
  /\ \A m, k \in Models : m # k /\ c \in seat[m][n].cards /\ c \in seat[k][n].cards =>
       free[n][c] + seat[m][n].charge + seat[k][n].charge <= CardFree(n)[c]

CardsInv == \A n \in Nodes, c \in Cards : CardHolds(n, c)

LEMMA SameCards ==
  ASSUME UNCHANGED <<spec, node>>, NEW n
  PROVE  CardFree(n)' = CardFree(n)
BY DEF CardFree, CardsOf, Budget, Reserve

\* The start of a plan.
LEMMA FreshCards ==
  ASSUME InputsInv, NEW s, s = Nothing, NEW f, f = [n \in Nodes |-> CardFree(n)]
  PROVE  \A n \in Nodes, c \in Cards :
           /\ f[n][c] = CardFree(n)[c] /\ f[n][c] \in Int /\ 0 <= f[n][c]
           /\ \A m \in Models : s[m][n].cards = {}
<1> SUFFICES ASSUME NEW n \in Nodes, NEW c \in Cards
             PROVE  /\ f[n][c] = CardFree(n)[c] /\ f[n][c] \in Int /\ 0 <= f[n][c]
                    /\ \A m \in Models : s[m][n].cards = {}
  OBVIOUS
<1>1. node[n].foreign[c] \in Nat /\ Budget(n) \in Nat
  BY NodeType, BudgetType
<1>2. CardFree(n)[c] \in Int /\ 0 <= CardFree(n)[c]
  BY <1>1 DEF CardFree, Larger
<1> QED
  BY <1>2 DEF Nothing, NoSeat

\* Steps that leave the placements alone.
LEMMA CardsStay ==
  ASSUME CardsInv, UNCHANGED <<spec, node, seat, free>>
  PROVE  CardsInv'
<1> SUFFICES ASSUME NEW n \in Nodes, NEW c \in Cards PROVE CardHolds(n, c)'
  BY DEF CardsInv
<1>1. CardHolds(n, c) /\ CardFree(n)' = CardFree(n)
  BY SameCards DEF CardsInv
<1> QED
  BY <1>1 DEF CardHolds

\* A placement takes amount from its cards: all that it is charged, or what it is
\* charged now beyond what it was charged before.
LEMMA CardsTaken ==
  ASSUME TypeInv, CardsInv, UNCHANGED <<spec, node>>,
         NEW m \in Models, NEW n \in Nodes, NEW s \in SeatType, NEW amount \in Nat,
         seat' = [seat EXCEPT ![m][n] = s],
         free' = Less(n, s.cards, amount),
         \A c \in s.cards : free[n][c] >= amount,
         \/ amount = s.charge
         \/ amount = s.charge - seat[m][n].charge /\ s.cards = seat[m][n].cards
  PROVE  CardsInv'
<1>1. seat \in [Models -> [Nodes -> SeatType]] /\ free \in [Nodes -> [Cards -> Int]]
  BY DEF TypeInv
<1>2. seat'[m][n] = s /\ \A k \in Models, l \in Nodes : k # m \/ l # n => seat'[k][l] = seat[k][l]
  BY <1>1
<1>3. \A l \in Nodes, c \in Cards :
        free'[l][c] = IF l = n /\ c \in s.cards THEN free[l][c] - amount ELSE free[l][c]
  BY LessType
<1> SUFFICES ASSUME NEW l \in Nodes, NEW c \in Cards PROVE CardHolds(l, c)'
  BY DEF CardsInv
<1>4. CardHolds(l, c) /\ CardFree(l)' = CardFree(l)
  BY SameCards DEF CardsInv
<1>5. free[l][c] \in Int /\ \A k \in Models : seat[k][l].charge \in Int
  BY <1>1 DEF SeatType
<1>6. CardFree(l)[c] \in Int
  BY CardFreeType DEF TypeInv
<1> DEFINE F == CardFree(l)[c]
           before == free[l][c]
           after == free'[l][c]
<1>7. CASE l # n
  <2>1. after = before /\ \A k \in Models : seat'[k][l] = seat[k][l]
    BY <1>2, <1>3, <1>7
  <2> QED
    BY <1>4, <2>1 DEF CardHolds
<1>8. CASE l = n /\ c \notin s.cards
  <2>1. after = before /\ \A k \in Models : c \in seat'[k][l].cards => k # m
    BY <1>2, <1>3, <1>8
  <2>2. \A k \in Models : k # m => seat'[k][l] = seat[k][l]
    BY <1>2
  <2>3. 0 <= after /\ after <= F
    BY <1>4, <2>1 DEF CardHolds
  <2>4. \A k \in Models : c \in seat'[k][l].cards => after + seat'[k][l].charge <= F
    BY <1>4, <2>1, <2>2 DEF CardHolds
  <2>5. \A k, j \in Models : k # j /\ c \in seat'[k][l].cards /\ c \in seat'[j][l].cards =>
          after + seat'[k][l].charge + seat'[j][l].charge <= F
    BY <1>4, <2>1, <2>2 DEF CardHolds
  <2> QED
    BY <1>4, <2>3, <2>4, <2>5 DEF CardHolds
<1>9. CASE l = n /\ c \in s.cards
  <2>1. after = before - amount /\ before >= amount /\ s.charge \in Int
    BY <1>3, <1>9 DEF SeatType
  <2>2. 0 <= after /\ after <= F
    BY <1>4, <1>5, <1>6, <2>1 DEF CardHolds
  <2>3. after + s.charge <= F
    BY <1>4, <1>5, <1>6, <1>9, <2>1 DEF CardHolds
  <2>4. ASSUME NEW k \in Models, k # m, c \in seat[k][l].cards
        PROVE  /\ after + seat[k][l].charge <= F
               /\ after + s.charge + seat[k][l].charge <= F
    <3>1. seat[k][l].charge \in Int /\ before + seat[k][l].charge <= F
      BY <1>4, <1>5, <2>4 DEF CardHolds
    <3>2. CASE amount = s.charge
      BY <1>5, <1>6, <2>1, <3>1, <3>2
    <3>3. CASE amount = s.charge - seat[m][l].charge /\ c \in seat[m][l].cards
      <4>1. before + seat[m][l].charge + seat[k][l].charge <= F /\ seat[m][l].charge \in Int
        BY <1>4, <1>5, <2>4, <3>3 DEF CardHolds
      <4> QED
        BY <1>5, <1>6, <2>1, <3>1, <3>3, <4>1
    <3> QED
      BY <1>9, <3>2, <3>3
  <2>5. ASSUME NEW k \in Models, NEW j \in Models, k # j, k # m, j # m,
               c \in seat[k][l].cards, c \in seat[j][l].cards
        PROVE  after + seat[k][l].charge + seat[j][l].charge <= F
    <3>1. before + seat[k][l].charge + seat[j][l].charge <= F
      BY <1>4, <2>5 DEF CardHolds
    <3> QED
      BY <1>5, <1>6, <2>1, <3>1
  <2>6. seat'[m][l] = s /\ \A k \in Models : k # m => seat'[k][l] = seat[k][l]
    BY <1>2, <1>9
  <2>7. \A k \in Models : c \in seat'[k][l].cards => after + seat'[k][l].charge <= F
    BY <2>3, <2>4, <2>6
  <2>8. ASSUME NEW k \in Models, NEW j \in Models, k # j,
               c \in seat'[k][l].cards, c \in seat'[j][l].cards
        PROVE  after + seat'[k][l].charge + seat'[j][l].charge <= F
    <3>1. CASE k = m
      BY <2>4, <2>6, <2>8, <3>1
    <3>2. CASE j = m
      <4>1. after + s.charge + seat[k][l].charge <= F /\ seat[k][l].charge \in Int
        BY <1>5, <2>4, <2>6, <2>8, <3>2
      <4>2. after \in Int
        BY <1>5, <2>1
      <4>3. seat'[k][l].charge = seat[k][l].charge /\ seat'[j][l].charge = s.charge
        BY <2>6, <2>8, <3>2
      <4> QED
        BY <2>1, <4>1, <4>2, <4>3
    <3>3. CASE k # m /\ j # m
      BY <2>5, <2>6, <2>8, <3>3
    <3> QED
      BY <3>1, <3>2, <3>3
  <2> QED
    BY <1>4, <2>2, <2>7, <2>8 DEF CardHolds
<1> QED
  BY <1>7, <1>8, <1>9

\* A new instance takes its charge from cards that have it.
LEMMA SeatOnTakes ==
  ASSUME TypeInv, CardsInv, UNCHANGED <<spec, node>>,
         NEW m \in Models, NEW n \in Candidates(m), SeatOn(m, n)
  PROVE  CardsInv'
<1>1. PICK s \in SeatType :
        /\ seat' = [seat EXCEPT ![m][n] = s] /\ n \in Nodes
        /\ free' = Less(n, s.cards, s.charge) /\ s.charge \in Nat
        /\ \A c \in s.cards : free[n][c] >= s.charge
  BY SeatOnIs
<1> QED
  BY <1>1, CardsTaken

\* A placement grows only where all of its cards have room.
LEMMA RestoreTakes ==
  ASSUME Inv, CardsInv, NEW m \in Models, NEW n \in Nodes, Restore(m, n)
  PROVE  CardsInv'
<1>1. PICK s \in SeatType :
        /\ seat' = [seat EXCEPT ![m][n] = s] /\ s.cards = seat[m][n].cards
        /\ free' = Less(n, seat[m][n].cards, Extra(m, n))
        /\ Extra(m, n) \in Int /\ Extra(m, n) > 0
        /\ Extra(m, n) = s.charge - seat[m][n].charge
        /\ \A c \in s.cards : free[n][c] >= Extra(m, n)
  BY RestoreIs
<1>2. UNCHANGED <<spec, node>> /\ TypeInv
  BY DEF Restore, inputVars, Inv
<1>3. PICK amount \in Nat : amount = Extra(m, n)
  BY <1>1
<1> QED
  BY <1>1, <1>2, <1>3, CardsTaken

LEMMA CardsInit == Init => CardsInv
<1> SUFFICES ASSUME Init, NEW n \in Nodes, NEW c \in Cards PROVE CardHolds(n, c)
  BY DEF CardsInv
<1>1. InputsInv /\ seat = Nothing /\ free = [k \in Nodes |-> CardFree(k)]
  BY InitOK DEF Init, Inv, TypeInv
<1>2. /\ free[n][c] = CardFree(n)[c] /\ free[n][c] \in Int /\ 0 <= free[n][c]
      /\ \A m \in Models : seat[m][n].cards = {}
  BY <1>1, FreshCards
<1> QED
  BY <1>2 DEF CardHolds

LEMMA CardsStep == Inv /\ CardsInv /\ [Next]_vars => CardsInv'
<1> SUFFICES ASSUME Inv, CardsInv, [Next]_vars PROVE CardsInv'
  OBVIOUS
<1>1. CASE EndCoverage \/ EndRestoration \/ EndReplication \/ UNCHANGED vars
  <2>1. UNCHANGED <<spec, node, seat, free>>
    BY <1>1 DEF EndCoverage, EndRestoration, EndReplication, inputVars, vars
  <2> QED
    BY <2>1, CardsStay
<1>2. CASE PlanAgain
  <2>1. seat' = Nothing /\ UNCHANGED <<spec, node>> /\ free' = [n \in Nodes |-> CardFree(n)]
    BY <1>2, SameCards DEF PlanAgain
  <2> SUFFICES ASSUME NEW n \in Nodes, NEW c \in Cards PROVE CardHolds(n, c)'
    BY DEF CardsInv
  <2>2. /\ free'[n][c] = CardFree(n)[c] /\ free'[n][c] \in Int /\ 0 <= free'[n][c]
        /\ \A m \in Models : seat'[m][n].cards = {}
    BY <2>1, FreshCards DEF Inv, TypeInv
  <2>3. CardFree(n)' = CardFree(n)
    BY <2>1, SameCards
  <2> QED
    BY <2>2, <2>3 DEF CardHolds
<1>3. ASSUME NEW m \in Models, Cover(m) PROVE CardsInv'
  <2>1. PICK n \in Candidates(m) : SeatOn(m, n)
    BY <1>3 DEF Cover
  <2>2. UNCHANGED <<spec, node>>
    BY <1>3 DEF Cover, Covers, inputVars
  <2> QED
    BY <2>1, <2>2, SeatOnTakes DEF Inv
<1>4. ASSUME NEW m \in Models, Replicate(m) PROVE CardsInv'
  <2>1. PICK n \in Others(m) : SeatOn(m, n)
    BY <1>4 DEF Replicate
  <2>2. UNCHANGED <<spec, node>> /\ n \in Candidates(m)
    BY <1>4 DEF Replicate, inputVars, Others
  <2> QED
    BY <2>1, <2>2, SeatOnTakes DEF Inv
<1>5. ASSUME NEW m \in Models, Delegate(m) PROVE CardsInv'
  <2>1. UNCHANGED <<spec, node, seat, free>>
    BY <1>5 DEF Delegate, Covers, inputVars
  <2> QED
    BY <2>1, CardsStay
<1>6. ASSUME NEW m \in Models, NEW n \in Nodes, Restore(m, n) PROVE CardsInv'
  BY <1>6, RestoreTakes
<1> QED
  BY <1>1, <1>2, <1>3, <1>4, <1>5, <1>6 DEF Next

\* planner.py, through coverage, restoration and replication: of no card is more
\* taken than it had, and two instances that share a card never have more of it
\* between them than the probe found free.
THEOREM NoCardOverdrawn == Spec => []CardsInv
BY InitOK, StepOK, CardsInit, CardsStep, PTL DEF Spec

(*********************************** sums **********************************)

\* A set of numbers that is not empty has a least one: induction, as it is used here.
LEMMA LeastExists ==
  ASSUME NEW S, S \subseteq Nat, S # {}
  PROVE  \E n \in S : \A m \in S : n <= m
<1> DEFINE R == {ss \in Nat \X Nat : ss[1] < ss[2]}
<1>1. IsWellFoundedOn(R, Nat)
  BY NatLessThanWellFounded DEF OpToRel
<1>2. PICK n \in S : \A m \in S : <<m, n>> \notin R
  <2> HIDE DEF R
  <2> QED
    BY <1>1, WFMin
<1>3. ASSUME NEW m \in S PROVE ~(m < n)
  <2>1. <<m, n>> \in Nat \X Nat /\ <<m, n>>[1] = m /\ <<m, n>>[2] = n
    OBVIOUS
  <2> QED
    BY <1>2, <2>1
<1> QED
  BY <1>3

\* If a set of finite sets is not empty, one of them is smallest.
LEMMA SmallestExists ==
  ASSUME NEW T, T # {}, \A s \in T : IsFiniteSet(s)
  PROVE  \E s \in T : \A t \in T : Cardinality(s) <= Cardinality(t)
<1> DEFINE sizes == {Cardinality(s) : s \in T}
<1>1. sizes \subseteq Nat /\ sizes # {}
  BY FS_CardinalityType
<1>2. PICK n \in sizes : \A m \in sizes : n <= m
  <2> HIDE DEF sizes
  <2> QED
    BY <1>1, LeastExists
<1> QED
  BY <1>2

Pick(s) == CHOOSE x \in s : TRUE

Rest(s) == s \ {Pick(s)}

\* What the fold of SumFunctionOnSet is computed with.
Adds(f, S, g) == g = [s \in SUBSET S |-> IF s = {} THEN 0 ELSE f[Pick(s)] + g[Rest(s)]]

LEMMA PickFacts ==
  ASSUME NEW s, s # {}
  PROVE  Pick(s) \in s /\ Rest(s) \subseteq s /\ Pick(s) \notin Rest(s)
BY DEF Pick, Rest

LEMMA RestSmaller ==
  ASSUME NEW s, IsFiniteSet(s), s # {}
  PROVE  IsFiniteSet(Rest(s)) /\ Cardinality(Rest(s)) < Cardinality(s)
<1>1. IsFiniteSet(Rest(s)) /\ Cardinality(Rest(s)) = Cardinality(s) - 1
  BY PickFacts, FS_RemoveElement DEF Rest
<1>2. Cardinality(s) \in Nat
  BY FS_CardinalityType
<1> QED
  BY <1>1, <1>2

\* The subsets of S of n elements at most.
UpTo(S, n) == {s \in SUBSET S : Cardinality(s) <= n}

\* There is such a function for every finite set, one size after the other.
LEMMA AddsExists ==
  ASSUME NEW f, NEW S, IsFiniteSet(S)
  PROVE  \E g : Adds(f, S, g)
<1> DEFINE Step(g, s) == IF s = {} THEN 0 ELSE f[Pick(s)] + g[Rest(s)]
           Some(n, g) == g = [s \in UpTo(S, n) |-> Step(g, s)]
           bad == {n \in Nat : ~\E g : Some(n, g)}
<1>1. \A s \in SUBSET S : IsFiniteSet(s) /\ Cardinality(s) \in Nat /\ Cardinality(s) <= Cardinality(S)
  BY FS_Subset, FS_CardinalityType
<1>2. \A s \in SUBSET S : s # {} => Rest(s) \in SUBSET S /\ Cardinality(Rest(s)) < Cardinality(s)
  BY <1>1, PickFacts, RestSmaller
<1>3. 0 \notin bad
  <2> DEFINE g == [s \in UpTo(S, 0) |-> 0]
  <2>1. \A s \in UpTo(S, 0) : s = {}
    BY <1>1, FS_EmptySet DEF UpTo
  <2>2. \A s \in UpTo(S, 0) : Step(g, s) = 0
    BY <2>1
  <2>3. Some(0, g)
    BY <2>2
  <2> QED
    BY <2>3
<1>4. ASSUME NEW n \in Nat, n \notin bad PROVE n + 1 \notin bad
  <2>1. PICK g : Some(n, g)
    BY <1>4
  <2> DEFINE h == [s \in UpTo(S, n + 1) |-> Step(g, s)]
  <2>2. \A s \in UpTo(S, n) : s \in UpTo(S, n + 1) /\ g[s] = Step(g, s)
    BY <1>1, <2>1 DEF UpTo
  <2>3. \A s \in UpTo(S, n + 1) : s # {} => Rest(s) \in UpTo(S, n)
    BY <1>1, <1>2 DEF UpTo
  <2>4. \A s \in UpTo(S, n) : h[s] = g[s]
    BY <2>2
  <2>5. \A s \in UpTo(S, n + 1) : Step(h, s) = Step(g, s)
    BY <2>3, <2>4
  <2>6. Some(n + 1, h)
    BY <2>5
  <2> HIDE DEF h, Some
  <2> QED
    BY <2>6
<1>5. bad = {}
  <2> SUFFICES ASSUME bad # {} PROVE FALSE
    OBVIOUS
  <2>1. PICK n \in bad : \A m \in bad : n <= m
    <3>1. bad \subseteq Nat
      OBVIOUS
    <3> HIDE DEF bad
    <3> QED
      BY <3>1, LeastExists
  <2>2. n \in Nat
    OBVIOUS
  <2> HIDE DEF bad
  <2>3. n # 0 /\ n - 1 \in Nat /\ n - 1 \notin bad
    BY <1>3, <2>1, <2>2
  <2>4. n - 1 + 1 \notin bad
    BY <1>4, <2>3
  <2> QED
    BY <2>1, <2>2, <2>4
<1>6. Cardinality(S) \in Nat
  BY FS_CardinalityType
<1>7. PICK g : Some(Cardinality(S), g)
  BY <1>5, <1>6
<1>8. UpTo(S, Cardinality(S)) = SUBSET S
  BY <1>1 DEF UpTo
<1>9. Adds(f, S, g)
  BY <1>7, <1>8 DEF Adds
<1> QED
  BY <1>9

LEMMA SumIs ==
  ASSUME NEW f, NEW S, IsFiniteSet(S)
  PROVE  \E g : Adds(f, S, g) /\ SumFunctionOnSet(f, S) = g[S]
<1> DEFINE it == CHOOSE g : Adds(f, S, g)
<1>1. Adds(f, S, it)
  BY AddsExists
<1>2. SumFunctionOnSet(f, S) = it[S]
  BY DEF SumFunctionOnSet, FoldFunctionOnSet, MapThenFoldSet, Adds, Pick, Rest
<1> QED
  BY <1>1, <1>2

LEMMA AddsType ==
  ASSUME NEW f, NEW S, IsFiniteSet(S), \A x \in S : f[x] \in Int, NEW g, Adds(f, S, g)
  PROVE  \A s \in SUBSET S : g[s] \in Int
<1> DEFINE bad == {s \in SUBSET S : g[s] \notin Int}
<1> SUFFICES ASSUME bad # {} PROVE FALSE
  OBVIOUS
<1>1. \A s \in SUBSET S : IsFiniteSet(s) /\ Cardinality(s) \in Nat
  BY FS_Subset, FS_CardinalityType
<1>2. PICK s \in bad : \A t \in bad : Cardinality(s) <= Cardinality(t)
  <2>1. \A t \in bad : IsFiniteSet(t)
    BY <1>1
  <2> HIDE DEF bad
  <2> QED
    BY <2>1, SmallestExists
<1>3. s \in SUBSET S /\ g[s] = IF s = {} THEN 0 ELSE f[Pick(s)] + g[Rest(s)]
  BY DEF Adds
<1>4. CASE s = {}
  BY <1>3, <1>4
<1>5. CASE s # {}
  <2>1. Rest(s) \in SUBSET S /\ Cardinality(Rest(s)) < Cardinality(s) /\ Pick(s) \in S
    BY <1>1, <1>3, <1>5, PickFacts, RestSmaller
  <2>2. Rest(s) \notin bad
    BY <1>1, <1>2, <1>3, <2>1
  <2>3. g[Rest(s)] \in Int
    BY <2>1, <2>2
  <2> QED
    BY <1>3, <1>5, <2>1, <2>3
<1> QED
  BY <1>4, <1>5

\* It does not matter which element is taken first.
LEMMA AddsAny ==
  ASSUME NEW f, NEW S, IsFiniteSet(S), \A x \in S : f[x] \in Int, NEW g, Adds(f, S, g)
  PROVE  \A s \in SUBSET S : \A x \in s : g[s] = f[x] + g[s \ {x}]
<1> DEFINE bad == {s \in SUBSET S : \E x \in s : g[s] # f[x] + g[s \ {x}]}
<1> SUFFICES ASSUME bad # {} PROVE FALSE
  OBVIOUS
<1>1. \A s \in SUBSET S : IsFiniteSet(s) /\ Cardinality(s) \in Nat
  BY FS_Subset, FS_CardinalityType
<1>2. PICK s \in bad : \A t \in bad : Cardinality(s) <= Cardinality(t)
  <2>1. \A t \in bad : IsFiniteSet(t)
    BY <1>1
  <2> HIDE DEF bad
  <2> QED
    BY <2>1, SmallestExists
<1>3. s \in SUBSET S /\ (s # {} => g[s] = f[Pick(s)] + g[Rest(s)])
  BY DEF Adds
<1>4. PICK x \in s : g[s] # f[x] + g[s \ {x}]
  OBVIOUS
<1> DEFINE p == Pick(s)
           both == s \ {x, p}
<1>5. p \in s /\ Rest(s) = s \ {p} /\ g[s] = f[p] + g[s \ {p}]
  BY <1>3, <1>4, PickFacts DEF Rest
<1>6. x # p
  BY <1>4, <1>5
<1>7. \A y \in s : Cardinality(s \ {y}) < Cardinality(s)
  BY <1>1, <1>3, FS_RemoveElement
<1>8. s \ {p} \notin bad /\ s \ {x} \notin bad
  <2>1. \A y \in s : Cardinality(s \ {y}) \in Nat /\ Cardinality(s) \in Nat
    BY <1>1, <1>3
  <2> HIDE DEF bad, p
  <2> QED
    BY <1>2, <1>5, <1>7, <2>1
<1>9. g[s \ {p}] = f[x] + g[(s \ {p}) \ {x}]
  BY <1>3, <1>5, <1>6, <1>8
<1>10. g[s \ {x}] = f[p] + g[(s \ {x}) \ {p}]
  BY <1>3, <1>5, <1>6, <1>8
<1>11. (s \ {p}) \ {x} = both /\ (s \ {x}) \ {p} = both
  OBVIOUS
<1>12. g[both] \in Int /\ f[x] \in Int /\ f[p] \in Int
  BY <1>3, <1>5, AddsType
<1>13. f[p] + (f[x] + g[both]) = f[x] + (f[p] + g[both])
  BY <1>12
<1> HIDE DEF p, both
<1>14. g[s] = f[p] + (f[x] + g[both])
  BY <1>5, <1>9, <1>11
<1>15. f[x] + g[s \ {x}] = f[x] + (f[p] + g[both])
  BY <1>10, <1>11
<1> QED
  BY <1>4, <1>13, <1>14, <1>15

\* Nor which set the function was made for, nor what is added outside it.
LEMMA AddsSame ==
  ASSUME NEW f, NEW S, IsFiniteSet(S), NEW g, Adds(f, S, g),
         NEW e, NEW T, IsFiniteSet(T), NEW h, Adds(e, T, h),
         NEW r, r \subseteq S, r \subseteq T, \A x \in r : f[x] = e[x]
  PROVE  g[r] = h[r]
<1> DEFINE bad == {s \in SUBSET r : g[s] # h[s]}
<1> SUFFICES ASSUME bad # {} PROVE FALSE
  OBVIOUS
<1>1. \A s \in SUBSET r : IsFiniteSet(s) /\ Cardinality(s) \in Nat
  BY FS_Subset, FS_CardinalityType
<1>2. PICK s \in bad : \A t \in bad : Cardinality(s) <= Cardinality(t)
  <2>1. \A t \in bad : IsFiniteSet(t)
    BY <1>1
  <2> HIDE DEF bad
  <2> QED
    BY <2>1, SmallestExists
<1>3. /\ s \in SUBSET r
      /\ g[s] = IF s = {} THEN 0 ELSE f[Pick(s)] + g[Rest(s)]
      /\ h[s] = IF s = {} THEN 0 ELSE e[Pick(s)] + h[Rest(s)]
  BY DEF Adds
<1>4. s # {}
  BY <1>3
<1>5. Rest(s) \in SUBSET r /\ Cardinality(Rest(s)) < Cardinality(s) /\ Pick(s) \in r
  BY <1>1, <1>3, <1>4, PickFacts, RestSmaller
<1>6. g[Rest(s)] = h[Rest(s)]
  BY <1>1, <1>2, <1>3, <1>5
<1> QED
  BY <1>3, <1>4, <1>5, <1>6

LEMMA SumNothing ==
  ASSUME NEW f
  PROVE  SumFunctionOnSet(f, {}) = 0
<1>1. PICK g : Adds(f, {}, g) /\ SumFunctionOnSet(f, {}) = g[{}]
  BY SumIs, FS_EmptySet
<1> QED
  BY <1>1 DEF Adds

LEMMA SumType ==
  ASSUME NEW f, NEW S, IsFiniteSet(S), \A x \in S : f[x] \in Int
  PROVE  SumFunctionOnSet(f, S) \in Int
<1>1. PICK g : Adds(f, S, g) /\ SumFunctionOnSet(f, S) = g[S]
  BY SumIs
<1>2. S \in SUBSET S
  OBVIOUS
<1> QED
  BY <1>1, <1>2, AddsType

\* Sums over the same elements with the same values.
LEMMA SumSame ==
  ASSUME NEW f, NEW e, NEW S, IsFiniteSet(S), \A x \in S : f[x] = e[x]
  PROVE  SumFunctionOnSet(f, S) = SumFunctionOnSet(e, S)
<1>1. PICK g : Adds(f, S, g) /\ SumFunctionOnSet(f, S) = g[S]
  BY SumIs
<1>2. PICK h : Adds(e, S, h) /\ SumFunctionOnSet(e, S) = h[S]
  BY SumIs
<1>3. S \subseteq S
  OBVIOUS
<1>4. g[S] = h[S]
  BY <1>1, <1>2, <1>3, AddsSame
<1> QED
  BY <1>1, <1>2, <1>4

LEMMA SumTake ==
  ASSUME NEW f, NEW S, IsFiniteSet(S), \A y \in S : f[y] \in Int, NEW x \in S
  PROVE  SumFunctionOnSet(f, S) = f[x] + SumFunctionOnSet(f, S \ {x})
<1>1. PICK g : Adds(f, S, g) /\ SumFunctionOnSet(f, S) = g[S]
  BY SumIs
<1>2. IsFiniteSet(S \ {x})
  BY FS_RemoveElement
<1>3. PICK h : Adds(f, S \ {x}, h) /\ SumFunctionOnSet(f, S \ {x}) = h[S \ {x}]
  BY <1>2, SumIs
<1>4. S \ {x} \subseteq S /\ S \ {x} \subseteq S \ {x} /\ \A y \in S \ {x} : f[y] = f[y]
  OBVIOUS
<1>5. g[S \ {x}] = h[S \ {x}]
  BY <1>1, <1>2, <1>3, <1>4, AddsSame
<1>6. g[S] = f[x] + g[S \ {x}]
  BY <1>1, AddsAny
<1> QED
  BY <1>1, <1>3, <1>5, <1>6

LEMMA SumPut ==
  ASSUME NEW f, NEW S, IsFiniteSet(S), NEW x, x \notin S, \A y \in S \cup {x} : f[y] \in Int
  PROVE  SumFunctionOnSet(f, S \cup {x}) = SumFunctionOnSet(f, S) + f[x]
<1>1. IsFiniteSet(S \cup {x}) /\ (S \cup {x}) \ {x} = S /\ x \in S \cup {x}
  BY FS_AddElement
<1>2. SumFunctionOnSet(f, S \cup {x}) = f[x] + SumFunctionOnSet(f, (S \cup {x}) \ {x})
  BY <1>1, SumTake
<1>3. SumFunctionOnSet(f, S) \in Int /\ f[x] \in Int
  BY SumType
<1>4. SumFunctionOnSet(f, S \cup {x}) = f[x] + SumFunctionOnSet(f, S)
  BY <1>1, <1>2
<1>5. \A i, j \in Int : i + j = j + i
  OBVIOUS
<1> QED
  BY <1>3, <1>4, <1>5

\* A bound on each element is one on the sums.
LEMMA SumBound ==
  ASSUME NEW f, NEW e, NEW S, IsFiniteSet(S), NEW a \in Int, NEW b \in Int,
         \A x \in S : f[x] \in Int /\ e[x] \in Int /\ a * f[x] <= b * e[x]
  PROVE  a * SumFunctionOnSet(f, S) <= b * SumFunctionOnSet(e, S)
<1> DEFINE F(s) == SumFunctionOnSet(f, s)
           E(s) == SumFunctionOnSet(e, s)
           bad == {s \in SUBSET S : ~(a * F(s) <= b * E(s))}
<1> SUFFICES ASSUME bad # {} PROVE FALSE
  OBVIOUS
<1>1. \A s \in SUBSET S : IsFiniteSet(s) /\ Cardinality(s) \in Nat
  BY FS_Subset, FS_CardinalityType
<1>2. PICK s \in bad : \A t \in bad : Cardinality(s) <= Cardinality(t)
  <2>1. \A t \in bad : IsFiniteSet(t)
    BY <1>1
  <2> HIDE DEF bad
  <2> QED
    BY <2>1, SmallestExists
<1>3. s \in SUBSET S /\ IsFiniteSet(s) /\ ~(a * F(s) <= b * E(s))
  BY <1>1
<1>4. s # {}
  <2>1. F({}) = 0 /\ E({}) = 0
    BY SumNothing
  <2>2. a * 0 <= b * 0
    OBVIOUS
  <2> HIDE DEF F, E
  <2> QED
    BY <1>3, <2>1, <2>2
<1>5. Rest(s) \in SUBSET S /\ Cardinality(Rest(s)) < Cardinality(s) /\ Pick(s) \in s /\ Pick(s) \in S
  BY <1>3, <1>4, PickFacts, RestSmaller
<1>6. a * F(Rest(s)) <= b * E(Rest(s))
  <2>1. Rest(s) \notin bad
    <3>1. Cardinality(Rest(s)) \in Nat /\ Cardinality(s) \in Nat
      BY <1>1, <1>3, <1>5
    <3> HIDE DEF bad
    <3> QED
      BY <1>2, <1>5, <3>1
  <2> QED
    BY <1>5, <2>1
<1>7. F(s) = f[Pick(s)] + F(Rest(s)) /\ E(s) = e[Pick(s)] + E(Rest(s))
  BY <1>3, <1>5, SumTake DEF Rest
<1>8. F(Rest(s)) \in Int /\ E(Rest(s)) \in Int
  BY <1>1, <1>5, SumType
<1>9. /\ f[Pick(s)] \in Int /\ e[Pick(s)] \in Int
      /\ a * f[Pick(s)] <= b * e[Pick(s)]
  BY <1>5
<1> HIDE DEF F, E, bad
<1>10. a * F(s) = a * f[Pick(s)] + a * F(Rest(s)) /\ b * E(s) = b * e[Pick(s)] + b * E(Rest(s))
  BY <1>7, <1>8, <1>9
<1> QED
  BY <1>3, <1>6, <1>8, <1>9, <1>10

(****************************** all of a card *******************************)

\* What is charged to a card by the placements s.
OnOf(s, n, c) == {m \in Models : c \in s[m][n].cards}

Charged(s, n, c) == SumFunctionOnSet([m \in Models |-> s[m][n].charge], OnOf(s, n, c))

Seating == [Models -> [Nodes -> SeatType]]

LEMMA OnOfFinite ==
  ASSUME NEW s, NEW n, NEW c
  PROVE  IsFiniteSet(OnOf(s, n, c)) /\ OnOf(s, n, c) \subseteq Models
BY NamesType, FS_Subset DEF OnOf

LEMMA ChargedType ==
  ASSUME NEW s \in Seating, NEW n \in Nodes, NEW c
  PROVE  Charged(s, n, c) \in Int
<1> DEFINE f == [m \in Models |-> s[m][n].charge]
<1>1. IsFiniteSet(OnOf(s, n, c)) /\ OnOf(s, n, c) \subseteq Models
  BY OnOfFinite
<1>2. \A m \in OnOf(s, n, c) : f[m] \in Int
  BY <1>1 DEF Seating, SeatType
<1> HIDE DEF f
<1>3. SumFunctionOnSet(f, OnOf(s, n, c)) \in Int
  BY <1>1, <1>2, SumType
<1> QED
  BY <1>3 DEF f, Charged

\* A card that none of the changed placements is on.
LEMMA ChargedSame ==
  ASSUME NEW s, NEW t, NEW n, NEW c, OnOf(s, n, c) = OnOf(t, n, c),
         \A m \in OnOf(s, n, c) : s[m][n].charge = t[m][n].charge
  PROVE  Charged(s, n, c) = Charged(t, n, c)
<1> DEFINE f == [m \in Models |-> s[m][n].charge]
           e == [m \in Models |-> t[m][n].charge]
<1>1. IsFiniteSet(OnOf(s, n, c)) /\ OnOf(s, n, c) \subseteq Models
  BY OnOfFinite
<1>2. \A m \in OnOf(s, n, c) : f[m] = e[m]
  BY <1>1
<1> HIDE DEF f, e
<1>3. SumFunctionOnSet(f, OnOf(s, n, c)) = SumFunctionOnSet(e, OnOf(s, n, c))
  BY <1>1, <1>2, SumSame
<1> QED
  BY <1>3 DEF f, e, Charged

\* A placement comes to a card.
LEMMA ChargedPut ==
  ASSUME NEW s \in Seating, NEW t \in Seating, NEW n \in Nodes, NEW c,
         NEW m \in Models, c \notin s[m][n].cards, c \in t[m][n].cards,
         \A k \in Models : k # m => t[k][n] = s[k][n]
  PROVE  Charged(t, n, c) = Charged(s, n, c) + t[m][n].charge
<1> DEFINE f == [k \in Models |-> s[k][n].charge]
           e == [k \in Models |-> t[k][n].charge]
           S == OnOf(s, n, c)
<1>1. IsFiniteSet(S) /\ S \subseteq Models
  BY OnOfFinite
<1>2. OnOf(t, n, c) = S \cup {m} /\ m \notin S
  BY DEF OnOf
<1>3. \A k \in S \cup {m} : e[k] \in Int
  BY <1>1 DEF Seating, SeatType
<1>4. \A k \in S : e[k] = f[k]
  BY <1>1, <1>2
<1>5. e[m] = t[m][n].charge
  OBVIOUS
<1>6. Charged(s, n, c) = SumFunctionOnSet(f, S)
      /\ Charged(t, n, c) = SumFunctionOnSet(e, OnOf(t, n, c))
  BY DEF Charged
<1> HIDE DEF f, e, S
<1>7. SumFunctionOnSet(e, S \cup {m}) = SumFunctionOnSet(e, S) + e[m]
  BY <1>1, <1>2, <1>3, SumPut
<1>8. SumFunctionOnSet(e, S) = SumFunctionOnSet(f, S)
  BY <1>1, <1>4, SumSame
<1> QED
  BY <1>2, <1>5, <1>6, <1>7, <1>8

\* A placement on the card is charged more.
LEMMA ChargedMore ==
  ASSUME NEW s \in Seating, NEW t \in Seating, NEW n \in Nodes, NEW c,
         NEW m \in Models, c \in s[m][n].cards, c \in t[m][n].cards,
         \A k \in Models : k # m => t[k][n] = s[k][n]
  PROVE  Charged(t, n, c) = Charged(s, n, c) + (t[m][n].charge - s[m][n].charge)
<1> DEFINE f == [k \in Models |-> s[k][n].charge]
           e == [k \in Models |-> t[k][n].charge]
           S == OnOf(s, n, c)
<1>1. IsFiniteSet(S) /\ S \subseteq Models /\ m \in S
  BY OnOfFinite DEF OnOf
<1>2. OnOf(t, n, c) = S
  BY DEF OnOf
<1>3. \A k \in S : e[k] \in Int /\ f[k] \in Int
  BY <1>1 DEF Seating, SeatType
<1>4. \A k \in S \ {m} : e[k] = f[k]
  BY <1>1
<1>5. e[m] = t[m][n].charge /\ f[m] = s[m][n].charge
  OBVIOUS
<1>6. Charged(s, n, c) = SumFunctionOnSet(f, S)
      /\ Charged(t, n, c) = SumFunctionOnSet(e, OnOf(t, n, c))
  BY DEF Charged
<1> HIDE DEF f, e, S
<1>7. SumFunctionOnSet(e, S) = e[m] + SumFunctionOnSet(e, S \ {m})
  BY <1>1, <1>3, SumTake
<1>8. SumFunctionOnSet(f, S) = f[m] + SumFunctionOnSet(f, S \ {m})
  BY <1>1, <1>3, SumTake
<1>9. IsFiniteSet(S \ {m})
  BY <1>1, FS_RemoveElement
<1>10. SumFunctionOnSet(e, S \ {m}) = SumFunctionOnSet(f, S \ {m})
  BY <1>4, <1>9, SumSame
<1>11. SumFunctionOnSet(f, S \ {m}) \in Int /\ e[m] \in Int /\ f[m] \in Int
  BY <1>1, <1>3, <1>9, SumType
<1> QED
  BY <1>2, <1>5, <1>6, <1>7, <1>8, <1>10, <1>11

\* CardsAddUp, as the lemmas speak of it.
LEMMA AddUpIs ==
  CardsAddUp <=> \A n \in Nodes, c \in Cards :
                   free[n][c] + Charged(seat, n, c) = CardFree(n)[c]
BY DEF CardsAddUp, Charged, On, OnOf

LEMMA AddUpIsNext ==
  CardsAddUp' <=> \A n \in Nodes, c \in Cards :
                    free'[n][c] + Charged(seat', n, c) = CardFree(n)'[c]
BY DEF CardsAddUp, Charged, On, OnOf, CardFree, CardsOf, Budget, Reserve

\* What is charged to a card after one placement is made or changed.
LEMMA ChargedNext ==
  ASSUME NEW r \in Seating, NEW t \in Seating, NEW m \in Models, NEW n \in Nodes,
         \A k \in Models, l \in Nodes : k # m \/ l # n => t[k][l] = r[k][l],
         NEW amount \in Int,
         \/ amount = t[m][n].charge /\ r[m][n].cards = {}
         \/ amount = t[m][n].charge - r[m][n].charge /\ t[m][n].cards = r[m][n].cards,
         NEW l \in Nodes, NEW c
  PROVE  Charged(t, l, c) =
           IF l = n /\ c \in t[m][n].cards THEN Charged(r, l, c) + amount ELSE Charged(r, l, c)
<1>1. \A k \in Models : k # m \/ l # n => t[k][l] = r[k][l]
  OBVIOUS
<1>2. CASE l # n
  <2>1. OnOf(r, l, c) = OnOf(t, l, c) /\ \A k \in OnOf(r, l, c) : r[k][l].charge = t[k][l].charge
    BY <1>1, <1>2 DEF OnOf
  <2> QED
    BY <1>2, <2>1, ChargedSame
<1>3. CASE l = n /\ c \notin t[m][n].cards
  <2>1. c \notin r[m][n].cards
    BY <1>3
  <2>2. OnOf(r, l, c) = OnOf(t, l, c) /\ \A k \in OnOf(r, l, c) : r[k][l].charge = t[k][l].charge
    BY <1>1, <1>3, <2>1 DEF OnOf
  <2> QED
    BY <1>3, <2>2, ChargedSame
<1>4. CASE l = n /\ c \in t[m][n].cards
  <2>1. \A k \in Models : k # m => t[k][n] = r[k][n]
    BY <1>1, <1>4
  <2>2. CASE amount = t[m][n].charge /\ r[m][n].cards = {}
    <3>1. c \notin r[m][n].cards
      BY <2>2
    <3>2. Charged(t, n, c) = Charged(r, n, c) + t[m][n].charge
      BY <1>4, <2>1, <3>1, ChargedPut
    <3> QED
      BY <1>4, <2>2, <3>2
  <2>3. CASE amount = t[m][n].charge - r[m][n].charge /\ t[m][n].cards = r[m][n].cards
    <3>1. Charged(t, n, c) = Charged(r, n, c) + (t[m][n].charge - r[m][n].charge)
      BY <1>4, <2>1, <2>3, ChargedMore
    <3> QED
      BY <1>4, <2>3, <3>1
  <2> QED
    BY <2>2, <2>3
<1> QED
  BY <1>2, <1>3, <1>4

\* As CardsTaken, for all placements on a card together.
LEMMA SumTaken ==
  ASSUME TypeInv, CardsAddUp, UNCHANGED <<spec, node>>,
         NEW m \in Models, NEW n \in Nodes, NEW s \in SeatType, NEW amount \in Int,
         seat' = [seat EXCEPT ![m][n] = s],
         free' = Less(n, s.cards, amount),
         \/ amount = s.charge /\ seat[m][n] = NoSeat
         \/ amount = s.charge - seat[m][n].charge /\ s.cards = seat[m][n].cards
  PROVE  CardsAddUp'
<1>1. seat \in Seating /\ free \in [Nodes -> [Cards -> Int]]
  BY DEF TypeInv, Seating
<1>2. /\ seat' \in Seating /\ seat'[m][n] = s
      /\ \A k \in Models, l \in Nodes : k # m \/ l # n => seat'[k][l] = seat[k][l]
  BY <1>1 DEF Seating
<1>3. \A l \in Nodes, c \in Cards :
        free'[l][c] = IF l = n /\ c \in s.cards THEN free[l][c] - amount ELSE free[l][c]
  BY LessType
<1>4. \/ amount = seat'[m][n].charge /\ seat[m][n].cards = {}
      \/ /\ amount = seat'[m][n].charge - seat[m][n].charge
         /\ seat'[m][n].cards = seat[m][n].cards
  BY <1>2 DEF NoSeat
<1> SUFFICES ASSUME NEW l \in Nodes, NEW c \in Cards
             PROVE  free'[l][c] + Charged(seat', l, c) = CardFree(l)[c]
  BY AddUpIsNext, SameCards
<1>5. /\ free[l][c] + Charged(seat, l, c) = CardFree(l)[c]
      /\ free[l][c] \in Int /\ Charged(seat, l, c) \in Int
  BY <1>1, AddUpIs, ChargedType
<1>6. Charged(seat', l, c) = IF l = n /\ c \in s.cards THEN Charged(seat, l, c) + amount
                            ELSE Charged(seat, l, c)
  <2> PICK r \in Seating, t \in Seating : r = seat /\ t = seat'
    BY <1>1, <1>2
  <2>1. /\ \A k \in Models, j \in Nodes : k # m \/ j # n => t[k][j] = r[k][j]
        /\ \/ amount = t[m][n].charge /\ r[m][n].cards = {}
           \/ amount = t[m][n].charge - r[m][n].charge /\ t[m][n].cards = r[m][n].cards
        /\ t[m][n] = s
    BY <1>2, <1>4
  <2>2. Charged(t, l, c) = IF l = n /\ c \in t[m][n].cards THEN Charged(r, l, c) + amount
                          ELSE Charged(r, l, c)
    BY ONLY <2>1, ChargedNext, m \in Models, n \in Nodes, l \in Nodes, amount \in Int
  <2> QED
    BY <2>1, <2>2
<1> QED
  BY <1>3, <1>5, <1>6

(**************************** who has been placed ***************************)

\* Coverage takes the models in their order: those it has come to go before those
\* it has not, which have no place; until it ends each has one place at most, at its
\* floor.  Places are counted in the order they are given.
TodoInv ==
  /\ todo \subseteq Models /\ (phase # "cover" => todo = {})
  /\ \A k \in Models \ todo, j \in todo : Before(k, j)
  /\ \A m \in todo, n \in Nodes : seat[m][n] = NoSeat

OnceInv ==
  phase = "cover" =>
    \A m \in Models, n \in Nodes : seat[m][n] # NoSeat =>
      /\ seat[m][n].ctx = spec[m].floor
      /\ \A k \in Nodes : seat[m][k] # NoSeat => k = n

TurnInv == \A m \in Models, n \in Nodes : seat[m][n] # NoSeat => seat[m][n].turn < turn

OrderInv == TodoInv /\ OnceInv /\ TurnInv

LEMMA SameOrder ==
  ASSUME UNCHANGED spec, NEW m, NEW k
  PROVE  Before(m, k)' <=> Before(m, k)
BY DEF Before, Size, KvBytes

\* A placement is not NoSeat.
LEMMA SeatIsOne ==
  ASSUME InputsInv, NEW m \in Models, NEW s \in SeatType, spec[m].floor <= s.ctx
  PROVE  s # NoSeat
<1>1. spec[m].floor \in Nat \ {0} /\ s.ctx \in Nat
  BY SpecType DEF SeatType
<1>2. s.ctx # 0
  BY <1>1
<1> QED
  BY <1>2 DEF NoSeat

LEMMA OrderInit == Init => OrderInv
<1> SUFFICES ASSUME Init PROVE OrderInv
  OBVIOUS
<1>1. phase = "cover" /\ todo = Models /\ seat = Nothing
  BY DEF Init
<1>2. \A m \in Models, n \in Nodes : seat[m][n] = NoSeat
  BY <1>1 DEF Nothing
<1> QED
  BY <1>1, <1>2 DEF OrderInv, TodoInv, OnceInv, TurnInv

\* Coverage comes to a model.
LEMMA TodoNext ==
  ASSUME OrderInv, NEW m \in Models, Covers(m),
         \A k \in Models, n \in Nodes : k # m => seat'[k][n] = seat[k][n]
  PROVE  TodoInv'
<1>1. /\ todo' = todo \ {m} /\ m \in todo /\ UNCHANGED spec /\ phase = "cover" /\ phase' = "cover"
      /\ \A k \in todo \ {m} : Before(m, k)
  BY DEF Covers, ComesFirst, inputVars
<1>2. \A k \in Models \ todo', j \in todo' : Before(k, j)
  BY <1>1 DEF OrderInv, TodoInv
<1>3. \A k \in Models \ todo', j \in todo' : Before(k, j)'
  BY <1>1, <1>2, SameOrder
<1>4. \A k \in todo', n \in Nodes : seat'[k][n] = NoSeat
  BY <1>1 DEF OrderInv, TodoInv
<1> QED
  BY <1>1, <1>3, <1>4 DEF OrderInv, TodoInv, NoSeat

LEMMA CoverOrder ==
  ASSUME Inv, OrderInv, NEW m \in Models, Cover(m)
  PROVE  OrderInv'
<1>1. PICK n \in Candidates(m) : SeatOn(m, n)
  BY DEF Cover
<1>2. Covers(m) /\ UNCHANGED spec /\ phase = "cover" /\ m \in todo
  BY DEF Cover, Covers, inputVars
<1>3. PICK s \in SeatType :
        /\ seat' = [seat EXCEPT ![m][n] = s] /\ n \in Nodes
        /\ s.ctx = spec[m].floor /\ s.turn = turn /\ turn' = turn + 1
  BY <1>1, SeatOnIs DEF Inv
<1>4. seat \in [Models -> [Nodes -> SeatType]] /\ turn \in Nat
  BY DEF Inv, TypeInv
<1>5. /\ seat'[m][n] = s
      /\ \A k \in Models, l \in Nodes : k # m \/ l # n => seat'[k][l] = seat[k][l]
  BY <1>3, <1>4
<1>6. TodoInv'
  BY <1>2, <1>5, TodoNext
<1>7. \A l \in Nodes : seat[m][l] = NoSeat
  BY <1>2 DEF OrderInv, TodoInv
<1>8. OnceInv'
  <2> SUFFICES ASSUME NEW k \in Models, NEW l \in Nodes, seat'[k][l] # NoSeat
               PROVE  /\ seat'[k][l].ctx = spec[k].floor
                      /\ \A j \in Nodes : seat'[k][j] # NoSeat => j = l
    BY <1>2 DEF OnceInv, NoSeat
  <2>1. CASE k = m
    <3>1. \A j \in Nodes : j # n => seat'[m][j] = NoSeat
      BY <1>5, <1>7
    <3> QED
      BY <1>3, <1>5, <2>1, <3>1
  <2>2. CASE k # m
    <3>1. \A j \in Nodes : seat'[k][j] = seat[k][j]
      BY <1>5, <2>2
    <3> QED
      BY <1>2, <3>1 DEF OrderInv, OnceInv
  <2> QED
    BY <2>1, <2>2
<1>9. TurnInv'
  <2> SUFFICES ASSUME NEW k \in Models, NEW l \in Nodes, seat'[k][l] # NoSeat
               PROVE  seat'[k][l].turn < turn'
    BY DEF TurnInv, NoSeat
  <2>1. CASE k = m /\ l = n
    BY <1>3, <1>4, <1>5, <2>1
  <2>2. CASE k # m \/ l # n
    <3>1. seat'[k][l] = seat[k][l] /\ seat[k][l].turn < turn /\ seat[k][l].turn \in Nat
      BY <1>4, <1>5, <2>2 DEF OrderInv, TurnInv, SeatType
    <3> QED
      BY <1>3, <1>4, <3>1
  <2> QED
    BY <2>1, <2>2
<1> QED
  BY <1>6, <1>8, <1>9 DEF OrderInv

\* Steps outside coverage: they may add to what is placed, but not before.
LEMMA LaterOrder ==
  ASSUME OrderInv, phase # "cover", phase' # "cover", UNCHANGED <<spec, todo>>,
         \A k \in Models, l \in Nodes : seat'[k][l] # NoSeat => seat'[k][l].turn < turn'
  PROVE  OrderInv'
<1>1. todo = {} /\ todo' = {}
  BY DEF OrderInv, TodoInv
<1>2. TodoInv'
  BY <1>1 DEF TodoInv
<1>3. OnceInv' /\ TurnInv'
  BY DEF OnceInv, TurnInv, NoSeat
<1> QED
  BY <1>2, <1>3 DEF OrderInv

LEMMA RestoreOrder ==
  ASSUME Inv, OrderInv, NEW m \in Models, NEW n \in Nodes, Restore(m, n)
  PROVE  OrderInv'
<1>1. PICK s \in SeatType :
        /\ seat' = [seat EXCEPT ![m][n] = s] /\ seat[m][n] # NoSeat
        /\ s.turn = seat[m][n].turn
  BY RestoreIs
<1>2. phase # "cover" /\ phase' = phase /\ UNCHANGED <<spec, todo, turn>>
  BY DEF Restore, Restoring, inputVars
<1>3. seat \in [Models -> [Nodes -> SeatType]]
  BY DEF Inv, TypeInv
<1>4. \A k \in Models, l \in Nodes : seat'[k][l] # NoSeat => seat'[k][l].turn < turn'
  <2> SUFFICES ASSUME NEW k \in Models, NEW l \in Nodes, seat'[k][l] # NoSeat
               PROVE  seat'[k][l].turn < turn
    BY <1>2
  <2>1. CASE k = m /\ l = n
    BY <1>1, <1>3, <2>1 DEF OrderInv, TurnInv
  <2>2. CASE k # m \/ l # n
    BY <1>1, <1>3, <2>2 DEF OrderInv, TurnInv
  <2> QED
    BY <2>1, <2>2
<1> QED
  BY <1>2, <1>4, LaterOrder

LEMMA ReplicateOrder ==
  ASSUME Inv, OrderInv, NEW m \in Models, Replicate(m)
  PROVE  OrderInv'
<1>1. PICK n \in Others(m) : SeatOn(m, n)
  BY DEF Replicate
<1>2. n \in Candidates(m) /\ phase # "cover" /\ phase' = phase /\ UNCHANGED <<spec, todo>>
  BY DEF Replicate, Others, inputVars
<1>3. PICK s \in SeatType :
        /\ seat' = [seat EXCEPT ![m][n] = s] /\ n \in Nodes
        /\ s.turn = turn /\ turn' = turn + 1
  BY <1>1, <1>2, SeatOnIs DEF Inv
<1>4. seat \in [Models -> [Nodes -> SeatType]] /\ turn \in Nat
  BY DEF Inv, TypeInv
<1>5. \A k \in Models, l \in Nodes : seat'[k][l] # NoSeat => seat'[k][l].turn < turn'
  <2> SUFFICES ASSUME NEW k \in Models, NEW l \in Nodes, seat'[k][l] # NoSeat
               PROVE  seat'[k][l].turn < turn'
    OBVIOUS
  <2>1. CASE k = m /\ l = n
    BY <1>3, <1>4, <2>1
  <2>2. CASE k # m \/ l # n
    <3>1. seat'[k][l] = seat[k][l]
      BY <1>3, <1>4, <2>2
    <3>2. seat[k][l].turn < turn /\ seat[k][l].turn \in Nat
      BY <1>4, <3>1 DEF OrderInv, TurnInv, SeatType
    <3> QED
      BY <1>3, <1>4, <3>1, <3>2
  <2> QED
    BY <2>1, <2>2
<1> QED
  BY <1>2, <1>5, LaterOrder

LEMMA OrderStep == Inv /\ OrderInv /\ [Next]_vars => OrderInv'
<1> SUFFICES ASSUME Inv, OrderInv, [Next]_vars PROVE OrderInv'
  OBVIOUS
<1>1. CASE EndCoverage
  <2>1. phase = "cover" /\ todo = {} /\ phase' # "cover" /\ UNCHANGED <<spec, todo, seat, turn>>
    BY <1>1 DEF EndCoverage, inputVars
  <2>2. TodoInv' /\ OnceInv' /\ TurnInv'
    BY <2>1 DEF OrderInv, TodoInv, OnceInv, TurnInv, NoSeat
  <2> QED
    BY <2>2 DEF OrderInv
<1>2. CASE EndRestoration \/ EndReplication
  <2>1. phase # "cover" /\ phase' # "cover" /\ UNCHANGED <<spec, todo, seat, turn>>
    BY <1>2 DEF EndRestoration, EndReplication, Restoring, inputVars
  <2> QED
    BY <2>1, LaterOrder DEF OrderInv, TurnInv
<1>3. CASE PlanAgain
  <2>1. phase' = "cover" /\ todo' = Models /\ seat' = Nothing
    BY <1>3 DEF PlanAgain, Nothing, NoSeat
  <2>2. \A m \in Models, n \in Nodes : seat'[m][n] = NoSeat
    BY <2>1 DEF Nothing
  <2>3. TodoInv' /\ OnceInv' /\ TurnInv'
    BY <2>1, <2>2 DEF TodoInv, OnceInv, TurnInv, NoSeat
  <2> QED
    BY <2>3 DEF OrderInv
<1>4. ASSUME NEW m \in Models, Cover(m) PROVE OrderInv'
  BY <1>4, CoverOrder
<1>5. ASSUME NEW m \in Models, Delegate(m) PROVE OrderInv'
  <2>1. Covers(m) /\ UNCHANGED <<spec, phase, seat, turn>>
    BY <1>5 DEF Delegate, Covers, inputVars
  <2>2. TodoInv'
    BY <2>1, TodoNext
  <2>3. OnceInv' /\ TurnInv'
    BY <2>1 DEF OrderInv, OnceInv, TurnInv, NoSeat
  <2> QED
    BY <2>2, <2>3 DEF OrderInv
<1>6. ASSUME NEW m \in Models, Replicate(m) PROVE OrderInv'
  BY <1>6, ReplicateOrder
<1>7. ASSUME NEW m \in Models, NEW n \in Nodes, Restore(m, n) PROVE OrderInv'
  BY <1>7, RestoreOrder
<1>8. CASE UNCHANGED vars
  <2>1. UNCHANGED <<spec, todo, phase, seat, turn>>
    BY <1>8 DEF vars, inputVars
  <2>2. \A k, j : Before(k, j)' <=> Before(k, j)
    BY <2>1, SameOrder
  <2>3. TodoInv' /\ OnceInv' /\ TurnInv'
    BY <2>1, <2>2 DEF OrderInv, TodoInv, OnceInv, TurnInv, NoSeat
  <2> QED
    BY <2>3 DEF OrderInv
<1> QED
  BY <1>1, <1>2, <1>3, <1>4, <1>5, <1>6, <1>7, <1>8 DEF Next

(************************** no card promised twice **************************)

LEMMA SeatOnAdds ==
  ASSUME TypeInv, CardsAddUp, UNCHANGED <<spec, node>>,
         NEW m \in Models, NEW n \in Candidates(m), SeatOn(m, n), seat[m][n] = NoSeat
  PROVE  CardsAddUp'
<1>1. PICK s \in SeatType :
        /\ seat' = [seat EXCEPT ![m][n] = s] /\ n \in Nodes
        /\ free' = Less(n, s.cards, s.charge) /\ s.charge \in Nat
  BY SeatOnIs
<1>2. PICK amount \in Int : amount = s.charge
  BY <1>1
<1> QED
  BY <1>1, <1>2, SumTaken

LEMMA RestoreAdds ==
  ASSUME Inv, CardsAddUp, NEW m \in Models, NEW n \in Nodes, Restore(m, n)
  PROVE  CardsAddUp'
<1>1. PICK s \in SeatType :
        /\ seat' = [seat EXCEPT ![m][n] = s] /\ s.cards = seat[m][n].cards
        /\ free' = Less(n, seat[m][n].cards, Extra(m, n)) /\ Extra(m, n) \in Int
        /\ Extra(m, n) = s.charge - seat[m][n].charge
  BY RestoreIs
<1>2. UNCHANGED <<spec, node>> /\ TypeInv
  BY DEF Restore, inputVars, Inv
<1> QED
  BY <1>1, <1>2, SumTaken

\* Nothing is charged at the start of a plan.
LEMMA FreshSum ==
  ASSUME InputsInv, NEW s, s = Nothing, NEW f, f = [n \in Nodes |-> CardFree(n)]
  PROVE  \A n \in Nodes, c \in Cards : f[n][c] + Charged(s, n, c) = CardFree(n)[c]
<1> SUFFICES ASSUME NEW n \in Nodes, NEW c \in Cards
             PROVE  f[n][c] + Charged(s, n, c) = CardFree(n)[c]
  OBVIOUS
<1>1. /\ f[n][c] = CardFree(n)[c] /\ f[n][c] \in Int
      /\ \A m \in Models : s[m][n].cards = {}
  BY FreshCards
<1>2. OnOf(s, n, c) = {}
  BY <1>1 DEF OnOf
<1>3. Charged(s, n, c) = 0
  BY <1>2, SumNothing DEF Charged
<1> QED
  BY <1>1, <1>3

LEMMA SumStays ==
  ASSUME CardsAddUp, UNCHANGED <<spec, node, seat, free>>
  PROVE  CardsAddUp'
<1> SUFFICES ASSUME NEW n \in Nodes, NEW c \in Cards
             PROVE  free'[n][c] + Charged(seat', n, c) = CardFree(n)[c]
  BY AddUpIsNext, SameCards
<1> QED
  BY AddUpIs

LEMMA SumStep == Inv /\ OrderInv /\ CardsAddUp /\ [Next]_vars => CardsAddUp'
<1> SUFFICES ASSUME Inv, OrderInv, CardsAddUp, [Next]_vars PROVE CardsAddUp'
  OBVIOUS
<1>1. CASE EndCoverage \/ EndRestoration \/ EndReplication \/ UNCHANGED vars
  <2>1. UNCHANGED <<spec, node, seat, free>>
    BY <1>1 DEF EndCoverage, EndRestoration, EndReplication, inputVars, vars
  <2> QED
    BY <2>1, SumStays
<1>2. CASE PlanAgain
  <2>1. seat' = Nothing /\ UNCHANGED <<spec, node>> /\ free' = [n \in Nodes |-> CardFree(n)]
    BY <1>2, SameCards DEF PlanAgain
  <2>2. \A n \in Nodes, c \in Cards : free'[n][c] + Charged(seat', n, c) = CardFree(n)[c]
    BY <2>1, FreshSum DEF Inv, TypeInv
  <2> SUFFICES ASSUME NEW n \in Nodes, NEW c \in Cards
               PROVE  free'[n][c] + Charged(seat', n, c) = CardFree(n)[c]
    BY <2>1, AddUpIsNext, SameCards
  <2> QED
    BY <2>2
<1>3. ASSUME NEW m \in Models, Cover(m) PROVE CardsAddUp'
  <2>1. PICK n \in Candidates(m) : SeatOn(m, n)
    BY <1>3 DEF Cover
  <2>2. UNCHANGED <<spec, node>> /\ m \in todo /\ n \in Nodes
    BY <1>3 DEF Cover, Covers, inputVars, Candidates, Holders, Eligible, Usable
  <2>3. seat[m][n] = NoSeat
    BY <2>2 DEF OrderInv, TodoInv
  <2> QED
    BY <2>1, <2>2, <2>3, SeatOnAdds DEF Inv
<1>4. ASSUME NEW m \in Models, Replicate(m) PROVE CardsAddUp'
  <2>1. PICK n \in Others(m) : SeatOn(m, n)
    BY <1>4 DEF Replicate
  <2>2. UNCHANGED <<spec, node>> /\ n \in Candidates(m) /\ n \in Nodes
    BY <1>4 DEF Replicate, inputVars, Others, Candidates, Holders, Eligible, Usable
  <2>3. seat[m][n] = NoSeat
    BY <2>2 DEF Others, Placed
  <2> QED
    BY <2>1, <2>2, <2>3, SeatOnAdds DEF Inv
<1>5. ASSUME NEW m \in Models, Delegate(m) PROVE CardsAddUp'
  <2>1. UNCHANGED <<spec, node, seat, free>>
    BY <1>5 DEF Delegate, Covers, inputVars
  <2> QED
    BY <2>1, SumStays
<1>6. ASSUME NEW m \in Models, NEW n \in Nodes, Restore(m, n) PROVE CardsAddUp'
  BY <1>6, RestoreAdds
<1> QED
  BY <1>1, <1>2, <1>3, <1>4, <1>5, <1>6 DEF Next

LEMMA SumInit == Init => CardsAddUp
<1> SUFFICES ASSUME Init PROVE CardsAddUp
  OBVIOUS
<1>1. InputsInv /\ seat = Nothing /\ free = [k \in Nodes |-> CardFree(k)]
  BY InitOK DEF Init, Inv, TypeInv
<1>2. PICK s, f : s = seat /\ f = free
  OBVIOUS
<1>3. \A n \in Nodes, c \in Cards : f[n][c] + Charged(s, n, c) = CardFree(n)[c]
  BY <1>1, <1>2, FreshSum
<1> QED
  BY <1>2, <1>3, AddUpIs

\* planner.py, through coverage, restoration and replication: what is left of every
\* card and what the instances on it are charged add up to what the probe found.
THEOREM NoCardPromisedTwice == Spec => []CardsAddUp
BY InitOK, StepOK, OrderInit, OrderStep, SumInit, SumStep, PTL DEF Spec

(********************************* the shares *******************************)

LEMMA DivBounds ==
  ASSUME NEW a \in Nat, NEW b \in Nat, b > 0
  PROVE  b * (a \div b) <= a /\ a < b * (a \div b) + b
OBVIOUS

LEMMA DivLess ==
  ASSUME NEW a \in Nat, NEW b \in Nat, b > 0
  PROVE  a \div b <= a
<1> DEFINE q == a \div b
<1>1. q \in Nat /\ b * q <= a
  BY DivType, DivBounds
<1> HIDE DEF q
<1>2. q <= b * q
  <2>1. PICK d \in Nat : b = d + 1
    BY b - 1 \in Nat, b = (b - 1) + 1
  <2>2. b * q = d * q + q /\ d * q \in Nat
    BY <1>1, <2>1
  <2> QED
    BY <1>1, <2>2
<1>3. b * q \in Nat
  BY <1>1
<1> QED
  BY <1>1, <1>2, <1>3 DEF q

\* Rounding up covers what is rounded.
LEMMA CeilCovers ==
  ASSUME NEW a \in Nat, NEW b \in Nat, b > 0
  PROVE  a <= b * Ceil(a, b)
<1>1. a + b - 1 \in Nat
  OBVIOUS
<1> DEFINE q == (a + b - 1) \div b
<1>2. a + b - 1 < b * q + b /\ q \in Nat
  BY <1>1, DivBounds, DivType
<1>3. Ceil(a, b) = q
  BY DEF Ceil
<1> HIDE DEF q
<1>4. b * q \in Nat
  BY <1>2
<1> QED
  BY <1>2, <1>3, <1>4

\* No card is planned past its memory.
LEMMA BudgetBound ==
  ASSUME InputsInv, NEW n \in Nodes
  PROVE  Budget(n) <= node[n].total
<1>1. /\ node[n].total \in Nat /\ node[n].cards \in Nat /\ node[n].cards > 0
      /\ node[n].usable <= node[n].total
  BY NodeType DEF InputsInv
<1>2. CASE node[n].usable = Physical
  <2>1. (node[n].total * 8) \div 100 \in Nat
    BY <1>1, DivType
  <2>2. Reserve(node[n].total) \in Nat
    BY <2>1, PickType DEF Reserve
  <2> QED
    BY <1>1, <1>2, <2>2 DEF Budget, Larger
<1>3. CASE node[n].usable # Physical
  <2>1. node[n].usable \in Nat
    BY <1>3, NodeType
  <2>2. node[n].usable \div node[n].cards <= node[n].usable /\ node[n].usable \div node[n].cards \in Nat
    BY <1>1, <2>1, DivLess, DivType
  <2> QED
    BY <1>1, <1>3, <2>1, <2>2 DEF Budget
<1> QED
  BY <1>2, <1>3

LEMMA CardFreeBound ==
  ASSUME InputsInv, NEW n \in Nodes, NEW c \in Cards
  PROVE  CardFree(n)[c] <= node[n].total
<1>1. /\ node[n].foreign[c] \in Nat /\ Budget(n) \in Nat /\ node[n].total \in Nat
      /\ Budget(n) <= node[n].total
  BY NodeType, BudgetType, BudgetBound
<1>2. CardFree(n)[c] = IF c \in CardsOf(n) THEN Larger(0, Budget(n) - node[n].foreign[c]) ELSE 0
  BY DEF CardFree
<1> QED
  BY <1>1, <1>2 DEF Larger

LEMMA UtilType ==
  ASSUME InputsInv, NEW n \in Nodes, node[n].total > 0, NEW need \in Nat
  PROVE  /\ Util(n, need) \in Nat
         /\ need * 100 <= Util(n, need) * node[n].total \/ Util(n, need) = 95
<1> DEFINE total == node[n].total
           up == Ceil(need * 100, total)
<1>1. total \in Nat /\ total > 0 /\ need * 100 \in Nat
  BY NodeType
<1>2. up \in Nat /\ need * 100 <= total * up
  BY <1>1, CeilType, CeilCovers
<1>3. Util(n, need) = Smaller(95, Larger(5, up))
  BY DEF Util
<1> HIDE DEF total, up
<1>4. Util(n, need) \in Nat
  BY <1>2, <1>3, PickType
<1>5. CASE up >= 95
  BY <1>2, <1>3, <1>4, <1>5 DEF Smaller, Larger
<1>6. CASE up < 95
  <2>1. up <= Util(n, need)
    BY <1>2, <1>3, <1>6 DEF Smaller, Larger
  <2>2. PICK d \in Nat : Util(n, need) = up + d
    BY <1>2, <1>4, <2>1, Util(n, need) - up \in Nat, Util(n, need) = up + (Util(n, need) - up)
  <2>3. Util(n, need) * total = total * up + d * total /\ d * total \in Nat /\ total * up \in Nat
    BY <1>1, <1>2, <2>2
  <2>4. need * 100 <= Util(n, need) * total
    BY <1>1, <1>2, <2>3
  <2> QED
    BY <1>4, <2>4 DEF total
<1> QED
  BY <1>2, <1>5, <1>6

\* What is charged covers the share of the card.
LEMMA ChargeCovers ==
  ASSUME InputsInv, NEW m \in Models, NEW n \in Nodes, node[n].total > 0,
         NEW ctx \in Nat, NEW sessions \in Nat
  PROVE  node[n].total * Util(n, Need(m, n, ctx, sessions)) <= 100 * Charge(m, n, ctx, sessions)
<1> DEFINE need == Need(m, n, ctx, sessions)
           total == node[n].total
           util == Util(n, need)
<1>1. need \in Nat /\ total \in Nat /\ total > 0
  BY NeedType, NodeType
<1>2. util \in Nat
  BY <1>1, UtilType
<1>3. Charge(m, n, ctx, sessions) = Larger(need, Ceil(util * total, 100))
  BY <1>1 DEF Charge, Taken
<1> HIDE DEF need, total, util
<1>4. util * total \in Nat /\ util * total = total * util
  BY <1>1, <1>2
<1>5. Ceil(util * total, 100) \in Nat /\ util * total <= 100 * Ceil(util * total, 100)
  BY <1>4, CeilType, CeilCovers
<1>6. Ceil(util * total, 100) <= Charge(m, n, ctx, sessions) /\ Charge(m, n, ctx, sessions) \in Nat
  BY <1>1, <1>3, <1>5 DEF Larger
<1>7. total * util <= 100 * Charge(m, n, ctx, sessions)
  BY <1>4, <1>5, <1>6
<1> QED
  BY <1>7 DEF total, util, need

LEMMA SharesHold == Inv /\ CardsInv /\ CardsAddUp => SharesFit
<1> SUFFICES ASSUME Inv, CardsInv, CardsAddUp, NEW n \in Nodes, node[n].total > 0
             PROVE  /\ \A c \in CardsOf(n) :
                         SumFunctionOnSet([m \in Models |-> Share(m, n)], On(n, c)) <= 100
                    /\ \A m \in Models : n \in Placed(m) =>
                         \/ Share(m, n) * node[n].total
                              >= 100 * Need(m, n, seat[m][n].ctx, seat[m][n].sessions)
                         \/ Share(m, n) = 95
  BY DEF SharesFit
<1> DEFINE total == node[n].total
<1>1. InputsInv /\ total \in Nat /\ total > 0 /\ seat \in [Models -> [Nodes -> SeatType]]
  BY NodeType DEF Inv, TypeInv
<1>2. ASSUME NEW m \in Models
      PROVE  /\ seat[m][n].ctx \in Nat /\ seat[m][n].sessions \in Nat /\ seat[m][n].charge \in Int
             /\ Need(m, n, seat[m][n].ctx, seat[m][n].sessions) \in Nat
             /\ Share(m, n) \in Nat
  <2>1. seat[m][n].ctx \in Nat /\ seat[m][n].sessions \in Nat /\ seat[m][n].charge \in Int
    BY <1>1 DEF SeatType
  <2>2. Need(m, n, seat[m][n].ctx, seat[m][n].sessions) \in Nat
    BY <1>1, <2>1, NeedType
  <2> QED
    BY <1>1, <2>1, <2>2, UtilType DEF Share
<1>3. ASSUME NEW c \in CardsOf(n)
      PROVE  SumFunctionOnSet([m \in Models |-> Share(m, n)], On(n, c)) <= 100
  <2> DEFINE f == [m \in Models |-> Share(m, n)]
             e == [m \in Models |-> seat[m][n].charge]
             S == On(n, c)
  <2>1. c \in Cards /\ IsFiniteSet(S) /\ S \subseteq Models
    BY NamesType, FS_Subset DEF CardsOf, On
  <2>2. ASSUME NEW m \in S
        PROVE  f[m] \in Int /\ e[m] \in Int /\ total * f[m] <= 100 * e[m]
    <3>1. m \in Models /\ f[m] = Share(m, n) /\ e[m] = seat[m][n].charge
      BY DEF On
    <3>2. seat[m][n] # NoSeat
      BY DEF On, NoSeat
    <3>3. seat[m][n].charge = Charge(m, n, seat[m][n].ctx, seat[m][n].sessions)
      BY <3>1, <3>2 DEF Inv, SeatsInv, SoundSeat
    <3>4. total * Share(m, n) <= 100 * seat[m][n].charge
      BY <1>1, <1>2, <3>1, <3>3, ChargeCovers DEF Share
    <3> QED
      BY <1>2, <3>1, <3>4
  <2>3. free[n][c] + SumFunctionOnSet(e, S) = CardFree(n)[c]
    BY <2>1 DEF CardsAddUp
  <2>4. 0 <= free[n][c] /\ free[n][c] \in Int /\ CardFree(n)[c] \in Int /\ CardFree(n)[c] <= total
    BY <1>1, <2>1, CardFreeType, CardFreeBound DEF CardsInv, CardHolds, Inv, TypeInv
  <2> HIDE DEF f, e, S, total
  <2>5. total * SumFunctionOnSet(f, S) <= 100 * SumFunctionOnSet(e, S)
    BY <1>1, <2>1, <2>2, SumBound
  <2>6. SumFunctionOnSet(f, S) \in Int /\ SumFunctionOnSet(e, S) \in Int
    BY <2>1, <2>2, SumType
  <2> PICK x, y : x = SumFunctionOnSet(f, S) /\ y = SumFunctionOnSet(e, S)
    OBVIOUS
  <2>7. x \in Int /\ y \in Int /\ total * x <= 100 * y /\ y <= total
    <3>1. y <= total
      BY <2>3, <2>4, <2>6, <1>1
    <3>2. total * x <= 100 * y
      BY <2>5
    <3> QED
      BY <2>6, <3>1, <3>2
  <2>8. x <= 100
    <3> SUFFICES ASSUME x > 100 PROVE FALSE
      BY <2>7
    <3>1. PICK d \in Nat : x = 101 + d
      BY <2>7, x - 101 \in Nat, x = 101 + (x - 101)
    <3>2. total * x = 101 * total + total * d /\ total * d \in Nat
      BY <1>1, <3>1
    <3> QED
      BY <1>1, <2>7, <3>2
  <2> QED
    BY <2>8 DEF f, S
<1>4. ASSUME NEW m \in Models
      PROVE  \/ Share(m, n) * node[n].total
                  >= 100 * Need(m, n, seat[m][n].ctx, seat[m][n].sessions)
             \/ Share(m, n) = 95
  <2> DEFINE need == Need(m, n, seat[m][n].ctx, seat[m][n].sessions)
  <2>1. need \in Nat /\ Share(m, n) = Util(n, need)
    BY <1>2 DEF Share
  <2> HIDE DEF need
  <2>2. need * 100 <= Util(n, need) * node[n].total \/ Util(n, need) = 95
    BY <1>1, <2>1, UtilType
  <2>3. Util(n, need) * node[n].total \in Nat /\ need * 100 = 100 * need
    BY <1>1, <1>2, <2>1
  <2>4. Share(m, n) * node[n].total >= 100 * need \/ Share(m, n) = 95
    BY <2>1, <2>2, <2>3
  <2> QED
    BY <2>4 DEF need
<1> QED
  BY <1>3, <1>4

\* planner.py, gpu_util_for and allocation: the shares that the instances on a card
\* are started with never add up past the card, and each covers what the instance
\* needs, or is the largest that is given.
THEOREM CardsAreShared == Spec => []SharesFit
BY InitOK, StepOK, OrderInit, OrderStep, CardsInit, CardsStep, SumInit, SumStep,
   SharesHold, PTL DEF Spec

(******************************* left to others *****************************)

\* The order of coverage is one: no two models each go before the other.
LEMMA SizeType ==
  ASSUME InputsInv, NEW m \in Models
  PROVE  Size(m) \in Nat
<1>1. /\ spec[m].weight \in Nat /\ spec[m].tp \in Nat /\ spec[m].tp > 0 /\ spec[m].floor \in Nat
      /\ Larger(1, spec[m].sessions) \in Nat
  BY SpecType DEF Larger
<1>2. spec[m].weight \div spec[m].tp \in Nat
  BY <1>1, DivType
<1>3. Smaller(spec[m].tp, spec[m].heads) \in Nat /\ Smaller(spec[m].tp, spec[m].heads) > 0
  BY SpecType DEF Smaller
<1> DEFINE kv == KvBytes(m, spec[m].floor, Larger(1, spec[m].sessions))
                   \div Smaller(spec[m].tp, spec[m].heads)
           activation == IF spec[m].activation # Undeclared THEN spec[m].activation
                         ELSE IF spec[m].pooling THEN 2 ELSE 10
           weight == spec[m].weight \div spec[m].tp
           tp == spec[m].tp
<1>4. kv \in Nat
  BY <1>1, <1>3, KvType, DivType
<1>5. activation \in Nat
  BY SpecType
<1>6. Size(m) = (weight + activation + kv) * tp
  BY DEF Size
<1>7. weight \in Nat /\ tp \in Nat
  BY <1>1, <1>2
<1> HIDE DEF kv, activation, weight, tp
<1>8. weight + activation + kv \in Nat
  BY <1>4, <1>5, <1>7
<1> QED
  BY <1>6, <1>7, <1>8

LEMMA NotBoth ==
  ASSUME InputsInv, NEW m \in Models, NEW k \in Models, Before(m, k)
  PROVE  ~Before(k, m)
<1>1. spec[m].priority \in Int /\ spec[k].priority \in Int
  BY DEF InputsInv, CatalogueType
<1>2. Size(m) \in Nat /\ Size(k) \in Nat /\ m \in Nat /\ k \in Nat
  BY SizeType, NamesType
<1> QED
  BY <1>1, <1>2 DEF Before

\* A model's first place, among the placements s, and the room beside the first
\* places of the models that go before m.
FirstOf(s, k) == Min({s[k][n].turn : n \in {l \in Nodes : s[k][l] # NoSeat}})

Leads(s, k, n, c) == c \in s[k][n].cards /\ s[k][n].turn = FirstOf(s, k)

LeadersOn(s, m, n, c) == {k \in Models : Before(k, m) /\ Leads(s, k, n, c)}

AtFloor(s, n) == [k \in Models |-> Charge(k, n, spec[k].floor, s[k][n].sessions)]

Beside(s, m) ==
  [n \in Nodes |-> [c \in Cards |->
     CardFree(n)[c] - SumFunctionOnSet(AtFloor(s, n), LeadersOn(s, m, n, c))]]

LEMMA FirstIs ==
  ASSUME NEW k
  PROVE  First(k) = FirstOf(seat, k)
BY DEF First, FirstOf, Placed

LEMMA BesideIs ==
  ASSUME NEW m
  PROVE  RoomBeside(m) = Beside(seat, m)
<1>1. ASSUME NEW n, NEW c
      PROVE  {k \in On(n, c) : Before(k, m) /\ seat[k][n].turn = First(k)}
               = LeadersOn(seat, m, n, c)
  BY FirstIs DEF On, LeadersOn, Leads
<1> QED
  BY <1>1 DEF RoomBeside, Beside, AtFloor

LEMMA FirstIsNext ==
  ASSUME NEW k
  PROVE  First(k)' = FirstOf(seat', k)
BY DEF First, FirstOf, Placed, NoSeat

LEMMA BesideIsNext ==
  ASSUME UNCHANGED <<spec, node>>, NEW m
  PROVE  RoomBeside(m)' = Beside(seat', m)
<1>1. ASSUME NEW n, NEW c
      PROVE  {k \in On(n, c) : Before(k, m) /\ seat[k][n].turn = First(k)}'
               = LeadersOn(seat', m, n, c)
  BY FirstIsNext, SameOrder DEF On, LeadersOn, Leads
<1>2. ASSUME NEW n \in Nodes
      PROVE  [k \in Models |-> Charge(k, n, spec[k].floor, seat[k][n].sessions)]'
               = AtFloor(seat', n)
  BY DEF AtFloor, Charge, Taken, Util, Need, KvBytes, Activation, Budget, Reserve
<1>3. \A n \in Nodes : CardFree(n)' = CardFree(n)
  BY SameCards
<1> QED
  BY <1>1, <1>2, <1>3 DEF RoomBeside, Beside

\* The room beside the others is the same if their first places are.
LEMMA BesideSame ==
  ASSUME NEW s, NEW t, NEW m,
         \A k \in Models, n \in Nodes, c \in Cards : Before(k, m) =>
           /\ Leads(s, k, n, c) <=> Leads(t, k, n, c)
           /\ Leads(s, k, n, c) => s[k][n].sessions = t[k][n].sessions
  PROVE  Beside(s, m) = Beside(t, m)
<1>1. ASSUME NEW n \in Nodes, NEW c \in Cards
      PROVE  SumFunctionOnSet(AtFloor(s, n), LeadersOn(s, m, n, c))
               = SumFunctionOnSet(AtFloor(t, n), LeadersOn(t, m, n, c))
  <2> DEFINE f == AtFloor(s, n)
             e == AtFloor(t, n)
             S == LeadersOn(s, m, n, c)
  <2>1. S = LeadersOn(t, m, n, c)
    BY DEF LeadersOn
  <2>2. IsFiniteSet(S)
    <3>1. S \subseteq Models
      BY DEF LeadersOn
    <3> QED
      BY <3>1, NamesType, FS_Subset
  <2>3. ASSUME NEW k \in S PROVE f[k] = e[k]
    <3>1. k \in Models /\ s[k][n].sessions = t[k][n].sessions
      BY DEF LeadersOn
    <3> QED
      BY <3>1 DEF AtFloor
  <2> HIDE DEF f, e, S
  <2>4. SumFunctionOnSet(f, S) = SumFunctionOnSet(e, S)
    BY <2>2, <2>3, SumSame
  <2> QED
    BY <2>1, <2>4 DEF f, e, S
<1> QED
  BY <1>1 DEF Beside

\* A place later than all that a model has is not its first.
LEMMA FirstStays ==
  ASSUME NEW S, S \subseteq Nat, S # {}, NEW x \in Nat, \A y \in S : y < x
  PROVE  Min(S \cup {x}) = Min(S) /\ Min(S) # x
<1>1. PICK least \in S : \A y \in S : least <= y
  BY LeastExists
<1>2. least \in Nat /\ least < x
  OBVIOUS
<1>3. \A y \in S \cup {x} : least <= y
  BY <1>1, <1>2
<1>4. \A z \in S \cup {x} : (\A y \in S \cup {x} : z <= y) => z = least
  BY <1>1, <1>2, <1>3
<1>5. \A z \in S : (\A y \in S : z <= y) => z = least
  BY <1>1, <1>2
<1>6. Min(S) = least
  BY <1>1, <1>5 DEF Min
<1>7. Min(S \cup {x}) = least
  BY <1>1, <1>3, <1>4 DEF Min
<1> QED
  BY <1>2, <1>6, <1>7

LEMMA MinOfOne ==
  ASSUME NEW x \in Nat
  PROVE  Min({x}) = x
<1>1. \E z \in {x} : \A y \in {x} : z <= y
  OBVIOUS
<1>2. Min({x}) \in {x}
  BY <1>1 DEF Min
<1> QED
  BY <1>2

\* What coverage finds free when it comes to m is just the room beside the models
\* that go before it.
LEMMA FreeIsBeside ==
  ASSUME Inv, OrderInv, CardsAddUp, phase = "cover", NEW m \in todo
  PROVE  Beside(seat, m) = free
<1>1. /\ seat \in [Models -> [Nodes -> SeatType]] /\ free \in [Nodes -> [Cards -> Int]]
      /\ InputsInv /\ m \in Models
  BY DEF Inv, TypeInv, OrderInv, TodoInv
<1>2. ASSUME NEW k \in Models, NEW n \in Nodes, seat[k][n] # NoSeat
      PROVE  /\ Before(k, m) /\ seat[k][n].turn = FirstOf(seat, k)
             /\ seat[k][n].charge = Charge(k, n, spec[k].floor, seat[k][n].sessions)
  <2>1. k \notin todo
    BY <1>2 DEF OrderInv, TodoInv
  <2>2. Before(k, m)
    BY <2>1 DEF OrderInv, TodoInv
  <2>3. seat[k][n].ctx = spec[k].floor /\ \A l \in Nodes : seat[k][l] # NoSeat => l = n
    BY <1>2 DEF OrderInv, OnceInv
  <2>4. {l \in Nodes : seat[k][l] # NoSeat} = {n}
    BY <1>2, <2>3
  <2>5. {seat[k][j].turn : j \in {l \in Nodes : seat[k][l] # NoSeat}} = {seat[k][n].turn}
    BY <2>4
  <2>6. seat[k][n].turn \in Nat
    BY <1>1 DEF SeatType
  <2>7. FirstOf(seat, k) = seat[k][n].turn
    BY <2>5, <2>6, MinOfOne DEF FirstOf
  <2>8. seat[k][n].charge = Charge(k, n, seat[k][n].ctx, seat[k][n].sessions)
    BY <1>2 DEF Inv, SeatsInv, SoundSeat
  <2> QED
    BY <2>2, <2>3, <2>7, <2>8
<1>3. ASSUME NEW n \in Nodes, NEW c \in Cards
      PROVE  CardFree(n)[c] - SumFunctionOnSet(AtFloor(seat, n), LeadersOn(seat, m, n, c))
               = free[n][c]
  <2> DEFINE f == AtFloor(seat, n)
             e == [k \in Models |-> seat[k][n].charge]
             S == OnOf(seat, n, c)
  <2>1. IsFiniteSet(S) /\ S \subseteq Models
    BY OnOfFinite
  <2>2. \A k \in S : seat[k][n] # NoSeat
    BY DEF OnOf, NoSeat
  <2>3. LeadersOn(seat, m, n, c) = S
    <3>1. LeadersOn(seat, m, n, c) \subseteq S
      BY DEF LeadersOn, Leads, OnOf
    <3>2. \A k \in S : k \in LeadersOn(seat, m, n, c)
      BY <1>2, <2>1, <2>2 DEF LeadersOn, Leads, OnOf
    <3> QED
      BY <3>1, <3>2
  <2>4. ASSUME NEW k \in S PROVE f[k] = e[k] /\ e[k] \in Int
    <3>1. k \in Models /\ seat[k][n].charge \in Int
      BY <1>1, <2>1 DEF SeatType
    <3>2. seat[k][n].charge = Charge(k, n, spec[k].floor, seat[k][n].sessions)
      BY <1>2, <2>2, <3>1
    <3> QED
      BY <3>1, <3>2 DEF AtFloor
  <2>5. free[n][c] + SumFunctionOnSet(e, S) = CardFree(n)[c]
    BY DEF CardsAddUp, OnOf, On
  <2> HIDE DEF f, e, S
  <2>6. SumFunctionOnSet(f, S) = SumFunctionOnSet(e, S) /\ SumFunctionOnSet(e, S) \in Int
    BY <2>1, <2>4, SumSame, SumType
  <2>7. free[n][c] \in Int
    BY <1>1
  <2>8. CardFree(n)[c] - SumFunctionOnSet(e, S) = free[n][c]
    BY <2>5, <2>6, <2>7
  <2> QED
    BY <2>3, <2>6, <2>8 DEF f
<1>4. Beside(seat, m) = [n \in Nodes |-> [c \in Cards |-> free[n][c]]]
  BY <1>3 DEF Beside
<1> QED
  BY <1>1, <1>4

(* A model has gone to OpenRouter for lack of room, and stays there. *)
Lacks(m) == \A n \in Holders(m) : ~Fits(m, n, RoomBeside(m))

LackInv == \A m \in Models \ todo : Placed(m) = {} => Lacks(m)

LEMMA LacksNext ==
  ASSUME UNCHANGED <<spec, node>>, NEW m, NEW r, Beside(seat', m) = r,
         \A n \in Holders(m) : ~Fits(m, n, r)
  PROVE  Lacks(m)'
<1> SUFFICES ASSUME NEW n \in Holders(m), Fits(m, n, RoomBeside(m))' PROVE FALSE
  BY SameHolders DEF Lacks
<1>1. RoomBeside(m)' = r
  BY BesideIsNext
<1>2. Fits(m, n, r)'
  BY <1>1 DEF Fits, Seats, Roomy
<1>3. Fits(m, n, r)
  BY <1>2, SameFits
<1> QED
  BY <1>3

LEMMA LacksStays ==
  ASSUME UNCHANGED <<spec, node>>, NEW m \in Models, Lacks(m),
         Beside(seat', m) = Beside(seat, m)
  PROVE  Lacks(m)'
<1>1. PICK r : r = Beside(seat, m)
  OBVIOUS
<1>2. RoomBeside(m) = r /\ Beside(seat', m) = r
  BY <1>1, BesideIs
<1>3. \A n \in Holders(m) : ~Fits(m, n, r)
  BY <1>2 DEF Lacks
<1> QED
  BY <1>2, <1>3, LacksNext

\* Only the placements of one model change, which another that has none does not
\* see: it goes after that one, or the first places stay.
LEMMA LackStep ==
  ASSUME Inv, LackInv, UNCHANGED <<spec, node>>, NEW j \in Models,
         \A k \in Models, l \in Nodes : k # j => seat'[k][l] = seat[k][l],
         NEW m \in Models, m \notin todo, m # j, Placed(m)' = {},
         \/ ~Before(j, m)
         \/ \A l \in Nodes, c \in Cards :
              /\ Leads(seat', j, l, c) <=> Leads(seat, j, l, c)
              /\ Leads(seat, j, l, c) => seat'[j][l].sessions = seat[j][l].sessions
  PROVE  Lacks(m)'
<1>1. Placed(m) = {}
  BY DEF Placed, NoSeat
<1>2. Lacks(m)
  BY <1>1 DEF LackInv
<1>3. PICK s, t : s = seat /\ t = seat'
  OBVIOUS
<1>4. ASSUME NEW k \in Models, NEW n \in Nodes, NEW c \in Cards, Before(k, m)
      PROVE  /\ Leads(s, k, n, c) <=> Leads(t, k, n, c)
             /\ Leads(s, k, n, c) => s[k][n].sessions = t[k][n].sessions
  <2>1. CASE k = j
    BY <1>3, <1>4, <2>1
  <2>2. CASE k # j
    <3>1. \A l \in Nodes : t[k][l] = s[k][l]
      BY <1>3, <2>2
    <3>2. {l \in Nodes : t[k][l] # NoSeat} = {l \in Nodes : s[k][l] # NoSeat}
      BY <3>1
    <3>3. {t[k][i].turn : i \in {l \in Nodes : t[k][l] # NoSeat}}
            = {s[k][i].turn : i \in {l \in Nodes : s[k][l] # NoSeat}}
      BY <3>1, <3>2
    <3>4. FirstOf(t, k) = FirstOf(s, k)
      BY <3>3 DEF FirstOf
    <3> QED
      BY <3>1, <3>4 DEF Leads
  <2> QED
    BY <2>1, <2>2
<1>5. Beside(s, m) = Beside(t, m)
  BY <1>4, BesideSame
<1> QED
  BY <1>2, <1>3, <1>5, LacksStays

LEMMA CoverLack ==
  ASSUME Inv, OrderInv, LackInv, NEW j \in Models, Cover(j)
  PROVE  LackInv'
<1>1. PICK n \in Candidates(j) : SeatOn(j, n)
  BY DEF Cover
<1>2. UNCHANGED <<spec, node>> /\ todo' = todo \ {j} /\ j \in todo /\ InputsInv
  BY DEF Cover, Covers, inputVars, Inv, TypeInv
<1>3. PICK s \in SeatType :
        /\ seat' = [seat EXCEPT ![j][n] = s] /\ n \in Nodes /\ s.ctx = spec[j].floor
  BY <1>1, SeatOnIs DEF Inv
<1>4. seat \in [Models -> [Nodes -> SeatType]]
  BY DEF Inv, TypeInv
<1>5. seat'[j][n] = s /\ \A k \in Models, l \in Nodes : k # j => seat'[k][l] = seat[k][l]
  BY <1>3, <1>4
<1>6. s # NoSeat
  <2>1. spec[j].floor \in Nat
    BY <1>2, SpecType
  <2> QED
    BY <1>2, <1>3, <2>1, SeatIsOne
<1> SUFFICES ASSUME NEW m \in Models, m \notin todo', Placed(m)' = {} PROVE Lacks(m)'
  BY DEF LackInv
<1>7. m # j
  BY <1>3, <1>5, <1>6 DEF Placed, NoSeat
<1>8. m \notin todo /\ Before(m, j)
  BY <1>2, <1>7 DEF OrderInv, TodoInv
<1>9. ~Before(j, m)
  BY <1>2, <1>8, NotBoth
<1> QED
  BY <1>2, <1>5, <1>7, <1>8, <1>9, LackStep

LEMMA DelegateLack ==
  ASSUME Inv, OrderInv, CardsAddUp, LackInv, NEW j \in Models, Delegate(j)
  PROVE  LackInv'
<1>1. /\ UNCHANGED <<spec, node, seat, free>> /\ todo' = todo \ {j} /\ j \in todo
      /\ phase = "cover" /\ Candidates(j) = {}
  BY DEF Delegate, Covers, inputVars
<1> SUFFICES ASSUME NEW m \in Models, m \notin todo', Placed(m)' = {} PROVE Lacks(m)'
  BY DEF LackInv
<1>2. CASE m = j
  <2>1. PICK r : r = free
    OBVIOUS
  <2>2. Beside(seat', j) = r
    BY <1>1, <2>1, FreeIsBeside
  <2>3. \A n \in Holders(j) : ~Fits(j, n, r)
    BY <1>1, <2>1 DEF Candidates
  <2> QED
    BY <1>1, <1>2, <2>2, <2>3, LacksNext
<1>3. CASE m # j
  <2>1. Placed(m) = {} /\ m \notin todo
    BY <1>1, <1>3 DEF Placed, NoSeat
  <2>2. Lacks(m)
    BY <2>1 DEF LackInv
  <2> QED
    BY <1>1, <2>2, LacksStays
<1> QED
  BY <1>2, <1>3

\* Another instance comes later than the first.
LEMMA ReplicateLack ==
  ASSUME Inv, OrderInv, LackInv, NEW j \in Models, Replicate(j)
  PROVE  LackInv'
<1>1. PICK n \in Others(j) : SeatOn(j, n)
  BY DEF Replicate
<1>2. /\ UNCHANGED <<spec, node, todo>> /\ n \in Candidates(j) /\ n \notin Placed(j)
      /\ Placed(j) # {} /\ InputsInv
  BY DEF Replicate, Deepens, Others, inputVars, Inv, TypeInv
<1>3. PICK s \in SeatType :
        /\ seat' = [seat EXCEPT ![j][n] = s] /\ n \in Nodes /\ s.ctx = spec[j].floor
        /\ s.turn = turn
  BY <1>1, <1>2, SeatOnIs DEF Inv
<1>4. seat \in [Models -> [Nodes -> SeatType]] /\ turn \in Nat
  BY DEF Inv, TypeInv
<1>5. /\ seat'[j][n] = s /\ \A l \in Nodes : l # n => seat'[j][l] = seat[j][l]
      /\ \A k \in Models, l \in Nodes : k # j => seat'[k][l] = seat[k][l]
  BY <1>3, <1>4
<1>6. s # NoSeat
  <2>1. spec[j].floor \in Nat
    BY <1>2, SpecType
  <2> QED
    BY <1>2, <1>3, <2>1, SeatIsOne
<1>7. seat[j][n] = NoSeat
  BY <1>2, <1>3 DEF Placed
<1> DEFINE turns == {seat[j][l].turn : l \in {i \in Nodes : seat[j][i] # NoSeat}}
<1>8. turns \subseteq Nat /\ turns # {} /\ \A y \in turns : y < turn
  <2>1. \A l \in Nodes : seat[j][l].turn \in Nat
    BY <1>4 DEF SeatType
  <2>2. \E l \in Nodes : seat[j][l] # NoSeat
    BY <1>2 DEF Placed
  <2>3. \A l \in Nodes : seat[j][l] # NoSeat => seat[j][l].turn < turn
    BY DEF OrderInv, TurnInv
  <2> QED
    BY <2>1, <2>2, <2>3
<1>9. {i \in Nodes : seat'[j][i] # NoSeat} = {i \in Nodes : seat[j][i] # NoSeat} \cup {n}
  BY <1>3, <1>5, <1>6, <1>7
<1>10. {seat'[j][l].turn : l \in {i \in Nodes : seat'[j][i] # NoSeat}} = turns \cup {turn}
  <2>1. \A l \in {i \in Nodes : seat[j][i] # NoSeat} : seat'[j][l].turn = seat[j][l].turn
    BY <1>5, <1>7
  <2> QED
    BY <1>3, <1>5, <1>9, <2>1
<1>11. FirstOf(seat', j) = FirstOf(seat, j) /\ FirstOf(seat, j) # turn
  <2>1. FirstOf(seat, j) = Min(turns) /\ FirstOf(seat', j) = Min(turns \cup {turn})
    BY <1>10 DEF FirstOf
  <2> HIDE DEF turns
  <2> QED
    BY <1>4, <1>8, <2>1, FirstStays
<1>12. ASSUME NEW l \in Nodes, NEW c \in Cards
       PROVE  /\ Leads(seat', j, l, c) <=> Leads(seat, j, l, c)
              /\ Leads(seat, j, l, c) => seat'[j][l].sessions = seat[j][l].sessions
  <2>1. CASE l = n
    BY <1>3, <1>5, <1>7, <1>11, <2>1 DEF Leads, NoSeat
  <2>2. CASE l # n
    BY <1>5, <1>11, <2>2 DEF Leads
  <2> QED
    BY <2>1, <2>2
<1> SUFFICES ASSUME NEW m \in Models, m \notin todo', Placed(m)' = {} PROVE Lacks(m)'
  BY DEF LackInv
<1>13. m # j /\ m \notin todo
  BY <1>2, <1>3, <1>5, <1>6 DEF Placed, NoSeat
<1> QED
  BY <1>2, <1>5, <1>12, <1>13, LackStep

LEMMA RestoreLack ==
  ASSUME Inv, LackInv, NEW j \in Models, NEW n \in Nodes, Restore(j, n)
  PROVE  LackInv'
<1>1. PICK s \in SeatType :
        /\ seat' = [seat EXCEPT ![j][n] = s] /\ seat[j][n] # NoSeat
        /\ spec[j].floor <= s.ctx /\ s.cards = seat[j][n].cards
        /\ s.sessions = seat[j][n].sessions /\ s.turn = seat[j][n].turn
  BY RestoreIs
<1>2. UNCHANGED <<spec, node, todo>> /\ InputsInv
  BY DEF Restore, inputVars, Inv, TypeInv
<1>3. seat \in [Models -> [Nodes -> SeatType]]
  BY DEF Inv, TypeInv
<1>4. s # NoSeat
  BY <1>1, <1>2, SeatIsOne
<1>5. /\ seat'[j][n] = s
      /\ \A k \in Models, l \in Nodes : k # j => seat'[k][l] = seat[k][l]
      /\ \A l \in Nodes : /\ seat'[j][l].cards = seat[j][l].cards
                          /\ seat'[j][l].sessions = seat[j][l].sessions
                          /\ seat'[j][l].turn = seat[j][l].turn
                          /\ seat'[j][l] # NoSeat <=> seat[j][l] # NoSeat
  BY <1>1, <1>3, <1>4
<1>6. {i \in Nodes : seat'[j][i] # NoSeat} = {i \in Nodes : seat[j][i] # NoSeat}
  BY <1>5
<1>7. {seat'[j][l].turn : l \in {i \in Nodes : seat'[j][i] # NoSeat}}
        = {seat[j][l].turn : l \in {i \in Nodes : seat[j][i] # NoSeat}}
  BY <1>5, <1>6
<1>8. FirstOf(seat', j) = FirstOf(seat, j)
  BY <1>7 DEF FirstOf
<1>9. ASSUME NEW l \in Nodes, NEW c \in Cards
      PROVE  /\ Leads(seat', j, l, c) <=> Leads(seat, j, l, c)
             /\ Leads(seat, j, l, c) => seat'[j][l].sessions = seat[j][l].sessions
  BY <1>5, <1>8 DEF Leads
<1> SUFFICES ASSUME NEW m \in Models, m \notin todo', Placed(m)' = {} PROVE Lacks(m)'
  BY DEF LackInv
<1>10. m # j /\ m \notin todo
  BY <1>2, <1>4, <1>5 DEF Placed, NoSeat
<1> QED
  BY <1>2, <1>5, <1>9, <1>10, LackStep

LEMMA LackInvStep == Inv /\ OrderInv /\ CardsAddUp /\ LackInv /\ [Next]_vars => LackInv'
<1> SUFFICES ASSUME Inv, OrderInv, CardsAddUp, LackInv, [Next]_vars PROVE LackInv'
  OBVIOUS
<1>1. CASE EndCoverage \/ EndRestoration \/ EndReplication \/ UNCHANGED vars
  <2>1. UNCHANGED <<spec, node, seat, todo>>
    BY <1>1 DEF EndCoverage, EndRestoration, EndReplication, inputVars, vars
  <2> SUFFICES ASSUME NEW m \in Models, m \notin todo, Placed(m)' = {} PROVE Lacks(m)'
    BY <2>1 DEF LackInv
  <2>2. Placed(m) = {}
    BY <2>1 DEF Placed, NoSeat
  <2>3. Lacks(m)
    BY <2>2 DEF LackInv
  <2> QED
    BY <2>1, <2>3, LacksStays
<1>2. CASE PlanAgain
  BY <1>2 DEF PlanAgain, LackInv
<1>3. ASSUME NEW m \in Models, Cover(m) PROVE LackInv'
  BY <1>3, CoverLack
<1>4. ASSUME NEW m \in Models, Delegate(m) PROVE LackInv'
  BY <1>4, DelegateLack
<1>5. ASSUME NEW m \in Models, Replicate(m) PROVE LackInv'
  BY <1>5, ReplicateLack
<1>6. ASSUME NEW m \in Models, NEW n \in Nodes, Restore(m, n) PROVE LackInv'
  BY <1>6, RestoreLack
<1> QED
  BY <1>1, <1>2, <1>3, <1>4, <1>5, <1>6 DEF Next

\* planner.py, plan, its first phase: a model that a finished plan leaves to OpenRouter has
\* no place beside the first instances, at their floors, of the models that go
\* before it: no longer context, no further instance and no model that goes after it
\* has cost it its place.
THEOREM OnlyForLackOfRoom == Spec => []DelegatedForLackOfRoom
<1>1. Init => LackInv
  BY DEF Init, LackInv
<1>2. OrderInv /\ LackInv => DelegatedForLackOfRoom
  BY DEF OrderInv, TodoInv, LackInv, Lacks, DelegatedForLackOfRoom
<1> QED
  BY <1>1, <1>2, InitOK, StepOK, OrderInit, OrderStep, SumInit, SumStep, LackInvStep,
     PTL DEF Spec

(******************************* a plan ends *******************************)

Pairs == Models \X Nodes

\* By how much each context is short of its target.
Short(s) == [at \in Pairs |-> spec[at[1]].target - s[at[1]][at[2]].ctx]

LEMMA PairsFinite == IsFiniteSet(Pairs)
BY NamesType, FS_Product DEF Pairs

LEMMA ShortType ==
  ASSUME Inv, NEW m \in Models, NEW n \in Nodes
  PROVE  /\ spec[m].target \in Nat /\ seat[m][n].ctx \in Nat
         /\ seat[m][n].ctx <= spec[m].target
<1>1. spec[m].target \in Nat /\ seat[m][n].ctx \in Nat
  BY SpecType DEF Inv, TypeInv, SeatType
<1>2. CASE seat[m][n] = NoSeat
  BY <1>1, <1>2 DEF NoSeat
<1>3. CASE seat[m][n] # NoSeat
  BY <1>1, <1>3 DEF Inv, SeatsInv, SoundSeat
<1> QED
  BY <1>1, <1>2, <1>3

LEMMA SumOfNats ==
  ASSUME NEW f, NEW S, IsFiniteSet(S), \A x \in S : f[x] \in Nat
  PROVE  SumFunctionOnSet(f, S) \in Nat
<1>1. SumFunctionOnSet(f, S) \in Int
  BY SumType
<1>2. \A x \in S : f[x] \in Int /\ 0 * f[x] <= 1 * f[x]
  OBVIOUS
<1>3. 0 * SumFunctionOnSet(f, S) <= 1 * SumFunctionOnSet(f, S)
  BY <1>2, SumBound
<1> QED
  BY <1>1, <1>3

\* A sum with one element made less is less.
LEMMA SumLess ==
  ASSUME NEW f, NEW e, NEW S, IsFiniteSet(S), \A y \in S : f[y] \in Int /\ e[y] \in Int,
         NEW x \in S, e[x] < f[x], \A y \in S \ {x} : e[y] = f[y]
  PROVE  SumFunctionOnSet(e, S) < SumFunctionOnSet(f, S)
<1>1. IsFiniteSet(S \ {x})
  BY FS_RemoveElement
<1>2. /\ SumFunctionOnSet(f, S) = f[x] + SumFunctionOnSet(f, S \ {x})
      /\ SumFunctionOnSet(e, S) = e[x] + SumFunctionOnSet(e, S \ {x})
  BY SumTake
<1>3. SumFunctionOnSet(e, S \ {x}) = SumFunctionOnSet(f, S \ {x})
  BY <1>1, SumSame
<1>4. SumFunctionOnSet(f, S \ {x}) \in Int
  BY <1>1, SumType
<1>5. f[x] \in Int /\ e[x] \in Int
  OBVIOUS
<1> QED
  BY <1>2, <1>3, <1>4, <1>5

LEMMA ShortSum ==
  ASSUME Inv
  PROVE  SumFunctionOnSet(Short(seat), Pairs) \in Nat
<1>1. \A at \in Pairs : Short(seat)[at] \in Nat
  BY ShortType DEF Short, Pairs
<1> QED
  BY <1>1, PairsFinite, SumOfNats

\* A placement is made, or made longer.
LEMMA SeatShortens ==
  ASSUME Inv, NEW m \in Models, NEW n \in Nodes, NEW s \in SeatType,
         seat' = [seat EXCEPT ![m][n] = s],
         seat[m][n].ctx < s.ctx, s.ctx <= spec[m].target
  PROVE  /\ SumFunctionOnSet(Short(seat'), Pairs) \in Nat
         /\ SumFunctionOnSet(Short(seat'), Pairs) < SumFunctionOnSet(Short(seat), Pairs)
<1>1. seat \in [Models -> [Nodes -> SeatType]] /\ s.ctx \in Nat
  BY DEF Inv, TypeInv, SeatType
<1>2. seat'[m][n] = s /\ \A k \in Models, l \in Nodes : k # m \/ l # n => seat'[k][l] = seat[k][l]
  BY <1>1
<1> DEFINE f == Short(seat)
           e == Short(seat')
<1>3. ASSUME NEW at \in Pairs
      PROVE  /\ f[at] = spec[at[1]].target - seat[at[1]][at[2]].ctx
             /\ e[at] = spec[at[1]].target - seat'[at[1]][at[2]].ctx
  BY DEF Short
<1>4. \A at \in Pairs : f[at] \in Nat
  BY <1>3, ShortType DEF Pairs
<1>5. <<m, n>> \in Pairs /\ \A at \in Pairs \ {<<m, n>>} : at[1] # m \/ at[2] # n
  BY DEF Pairs
<1>6. ASSUME NEW at \in Pairs \ {<<m, n>>} PROVE e[at] = f[at]
  <2>1. at[1] \in Models /\ at[2] \in Nodes
    BY DEF Pairs
  <2>2. seat'[at[1]][at[2]] = seat[at[1]][at[2]]
    BY <1>2, <1>5, <2>1
  <2>3. at \in Pairs
    OBVIOUS
  <2> HIDE DEF f, e
  <2>4. /\ f[at] = spec[at[1]].target - seat[at[1]][at[2]].ctx
        /\ e[at] = spec[at[1]].target - seat'[at[1]][at[2]].ctx
    BY ONLY <1>3, <2>3
  <2> QED
    BY ONLY <2>2, <2>4
<1>7. e[<<m, n>>] \in Nat /\ e[<<m, n>>] < f[<<m, n>>]
  <2>1. e[<<m, n>>] = spec[m].target - s.ctx /\ f[<<m, n>>] = spec[m].target - seat[m][n].ctx
    BY <1>2, <1>3, <1>5
  <2>2. spec[m].target \in Nat /\ seat[m][n].ctx \in Nat
    BY ShortType
  <2> QED
    BY <1>1, <2>1, <2>2
<1> HIDE DEF f, e
<1>8. \A at \in Pairs : e[at] \in Nat
  BY <1>4, <1>6, <1>7
<1>9. \A at \in Pairs : f[at] \in Int /\ e[at] \in Int
  BY <1>4, <1>8
<1>10. SumFunctionOnSet(e, Pairs) \in Nat
  BY <1>8, PairsFinite, SumOfNats
<1>11. SumFunctionOnSet(e, Pairs) < SumFunctionOnSet(f, Pairs)
  BY <1>5, <1>6, <1>7, <1>9, PairsFinite, SumLess
<1> QED
  BY <1>10, <1>11 DEF f, e

LEMMA SeatOnShortens ==
  ASSUME Inv, NEW m \in Models, NEW n \in Candidates(m), SeatOn(m, n), seat[m][n] = NoSeat
  PROVE  /\ SumFunctionOnSet(Short(seat'), Pairs) \in Nat
         /\ SumFunctionOnSet(Short(seat'), Pairs) < SumFunctionOnSet(Short(seat), Pairs)
<1>1. PICK s \in SeatType :
        seat' = [seat EXCEPT ![m][n] = s] /\ s.ctx = spec[m].floor /\ n \in Nodes
  BY SeatOnIs DEF Inv
<1>2. spec[m].floor \in Nat \ {0} /\ spec[m].floor <= spec[m].target
  BY SpecType DEF Inv, TypeInv
<1>3. seat[m][n].ctx = 0
  BY DEF NoSeat
<1>4. seat[m][n].ctx < s.ctx /\ s.ctx <= spec[m].target
  BY <1>1, <1>2, <1>3
<1> QED
  BY <1>1, <1>4, SeatShortens

LEMMA RestoreShortens ==
  ASSUME Inv, NEW m \in Models, NEW n \in Nodes, Restore(m, n)
  PROVE  /\ SumFunctionOnSet(Short(seat'), Pairs) \in Nat
         /\ SumFunctionOnSet(Short(seat'), Pairs) < SumFunctionOnSet(Short(seat), Pairs)
<1>1. PICK s \in SeatType :
        seat' = [seat EXCEPT ![m][n] = s] /\ seat[m][n] # NoSeat /\ s.ctx <= spec[m].target
  BY RestoreIs
<1>2. seat \in [Models -> [Nodes -> SeatType]] /\ seat[m][n] \in SeatType
  BY DEF Inv, TypeInv
<1>3. seat' = [seat EXCEPT ![m][n] = GrownSeat(m, n)] /\ seat[m][n].ctx < spec[m].target
  BY DEF Restore, Growable
<1>4. s = GrownSeat(m, n)
  BY <1>1, <1>2, <1>3
<1>5. s.ctx = Longer(m, n)
  BY <1>2, <1>4 DEF GrownSeat, SeatType
<1>6. spec[m].floor \in Nat \ {0} /\ spec[m].target \in Nat /\ seat[m][n].ctx \in Nat
      /\ spec[m].floor <= seat[m][n].ctx
  BY <1>1, ShortType, SpecType DEF Inv, TypeInv, SeatsInv, SoundSeat
<1>7. seat[m][n].ctx < Longer(m, n)
  BY <1>3, <1>6 DEF Longer, Smaller
<1> QED
  BY <1>1, <1>5, <1>7, SeatShortens

LEMMA WorkIs ==
  /\ WorkLeft = Cardinality(todo) + PhasesLeft + SumFunctionOnSet(Short(seat), Pairs)
  /\ spec' = spec => WorkLeft' = Cardinality(todo') + PhasesLeft'
                        + SumFunctionOnSet(Short(seat'), Pairs)
BY DEF WorkLeft, Short, Pairs

LEMMA TodoFinite ==
  ASSUME NEW S \in SUBSET Models
  PROVE  IsFiniteSet(S) /\ Cardinality(S) \in Nat
BY NamesType, FS_Subset, FS_CardinalityType

LEMMA PhasesType ==
  ASSUME NEW p \in {"cover", "restore", "replicate", "refill", "done"}, p = phase
  PROVE  PhasesLeft \in Nat
BY DEF PhasesLeft

LEMMA SumShrinks ==
  ASSUME NEW t \in Nat, NEW p \in Nat, NEW f \in Nat, NEW u \in Nat, NEW q \in Nat, NEW e \in Nat,
         u <= t, q <= p, e <= f, u < t \/ q < p \/ e < f
  PROVE  u + q + e \in Nat /\ u + q + e < t + p + f
OBVIOUS

LEMMA LessIsLeft ==
  ASSUME Inv, OrderInv, Next, phase # "done"
  PROVE  WorkLeft \in Nat /\ WorkLeft' \in Nat /\ WorkLeft' < WorkLeft
<1> DEFINE t == Cardinality(todo)
           u == Cardinality(todo')
           f == SumFunctionOnSet(Short(seat), Pairs)
           e == SumFunctionOnSet(Short(seat'), Pairs)
           Shrinks == WorkLeft' \in Nat /\ WorkLeft' < WorkLeft
<1>1. t \in Nat /\ PhasesLeft \in Nat /\ f \in Nat
  BY ShortSum, TodoFinite, PhasesType DEF OrderInv, TodoInv, Inv, TypeInv
<1>2. ~PlanAgain
  BY DEF PlanAgain
<1>3. spec' = spec
  <2>1. ASSUME NEW m \in Models, Cover(m) PROVE spec' = spec
    BY <2>1 DEF Cover, Covers, inputVars
  <2>2. ASSUME NEW m \in Models, Delegate(m) PROVE spec' = spec
    BY <2>2 DEF Delegate, Covers, inputVars
  <2>3. ASSUME NEW m \in Models, Replicate(m) PROVE spec' = spec
    BY <2>3 DEF Replicate, inputVars
  <2>4. ASSUME NEW m \in Models, NEW n \in Nodes, Restore(m, n) PROVE spec' = spec
    BY <2>4 DEF Restore, inputVars
  <2>5. CASE EndCoverage \/ EndRestoration \/ EndReplication
    BY <2>5 DEF EndCoverage, EndRestoration, EndReplication, inputVars
  <2> QED
    BY <1>2, <2>1, <2>2, <2>3, <2>4, <2>5 DEF Next
<1>4. WorkLeft = t + PhasesLeft + f /\ WorkLeft' = u + PhasesLeft' + e
  BY <1>3, WorkIs
<1>5. ASSUME u \in Nat, PhasesLeft' \in Nat, e \in Nat,
             u <= t, PhasesLeft' <= PhasesLeft, e <= f,
             u < t \/ PhasesLeft' < PhasesLeft \/ e < f
      PROVE  Shrinks
  <2> HIDE DEF t, u, f, e
  <2>1. PICK p \in Nat, q \in Nat : p = PhasesLeft /\ q = PhasesLeft'
    BY <1>1, <1>5
  <2>2. u + q + e \in Nat /\ u + q + e < t + p + f
    BY <1>1, <1>5, <2>1, SumShrinks
  <2> QED
    BY <1>4, <2>1, <2>2
<1>6. ASSUME EndCoverage \/ EndRestoration \/ EndReplication PROVE Shrinks
  <2>1. u = t /\ e = f
    BY <1>6 DEF EndCoverage, EndRestoration, EndReplication
  <2>2. PhasesLeft' \in Nat /\ PhasesLeft' < PhasesLeft
    BY <1>6 DEF EndCoverage, EndRestoration, EndReplication, Restoring, PhasesLeft
  <2> HIDE DEF t, u, f, e, Shrinks
  <2> QED
    BY <1>1, <1>5, <2>1, <2>2
<1>7. ASSUME NEW m \in Models, Covers(m)
      PROVE  u \in Nat /\ u < t /\ PhasesLeft' = PhasesLeft
  <2>1. todo' = todo \ {m} /\ m \in todo /\ IsFiniteSet(todo)
    BY <1>7, TodoFinite DEF Covers, OrderInv, TodoInv
  <2>2. Cardinality(todo \ {m}) = Cardinality(todo) - 1
        /\ Cardinality(todo \ {m}) \in Nat
    BY <2>1, FS_RemoveElement, FS_CardinalityType
  <2>3. u = t - 1 /\ u \in Nat
    BY <2>1, <2>2
  <2>4. PhasesLeft' = PhasesLeft
    BY <1>7 DEF Covers, PhasesLeft
  <2> HIDE DEF t, u
  <2> QED
    BY <1>1, <2>3, <2>4
<1>8. ASSUME NEW m \in Models, Delegate(m) PROVE Shrinks
  <2>1. Covers(m) /\ e = f
    BY <1>8 DEF Delegate
  <2>2. u \in Nat /\ u < t /\ PhasesLeft' = PhasesLeft
    BY <1>7, <2>1
  <2> HIDE DEF t, u, f, e, Shrinks
  <2> QED
    BY <1>1, <1>5, <2>1, <2>2
<1>9. ASSUME NEW m \in Models, Cover(m) PROVE Shrinks
  <2>1. PICK n \in Candidates(m) : SeatOn(m, n)
    BY <1>9 DEF Cover
  <2>2. Covers(m) /\ m \in todo /\ n \in Nodes
    BY <1>9 DEF Cover, Covers, Candidates, Holders, Eligible, Usable
  <2>3. seat[m][n] = NoSeat
    BY <2>2 DEF OrderInv, TodoInv
  <2>4. e \in Nat /\ e < f
    BY <2>1, <2>3, SeatOnShortens
  <2>5. u \in Nat /\ u < t /\ PhasesLeft' = PhasesLeft
    BY <1>7, <2>2
  <2> HIDE DEF t, u, f, e, Shrinks
  <2> QED
    BY <1>1, <1>5, <2>4, <2>5
<1>10. ASSUME e \in Nat, e < f, UNCHANGED <<todo, phase>> PROVE Shrinks
  <2>1. u = t /\ PhasesLeft' = PhasesLeft
    BY <1>10 DEF PhasesLeft
  <2> HIDE DEF t, u, f, e, Shrinks
  <2> QED
    BY <1>1, <1>5, <1>10, <2>1
<1>11. ASSUME NEW m \in Models, Replicate(m) PROVE Shrinks
  <2>1. PICK n \in Others(m) : SeatOn(m, n)
    BY <1>11 DEF Replicate
  <2>2. n \in Candidates(m) /\ n \in Nodes /\ seat[m][n] = NoSeat
    BY DEF Others, Placed, Candidates, Holders, Eligible, Usable
  <2>3. e \in Nat /\ e < f
    BY <2>1, <2>2, SeatOnShortens
  <2>4. UNCHANGED <<todo, phase>>
    BY <1>11 DEF Replicate
  <2> HIDE DEF t, u, f, e, Shrinks
  <2> QED
    BY <1>10, <2>3, <2>4
<1>12. ASSUME NEW m \in Models, NEW n \in Nodes, Restore(m, n) PROVE Shrinks
  <2>1. e \in Nat /\ e < f
    BY <1>12, RestoreShortens
  <2>2. UNCHANGED <<todo, phase>>
    BY <1>12 DEF Restore
  <2> HIDE DEF t, u, f, e, Shrinks
  <2> QED
    BY <1>10, <2>1, <2>2
<1>13. WorkLeft \in Nat
  <2> HIDE DEF t, f
  <2> QED
    BY <1>1, <1>4
<1> HIDE DEF t, u, f, e, Shrinks
<1>14. Shrinks
  BY <1>2, <1>6, <1>8, <1>9, <1>11, <1>12 DEF Next
<1> QED
  BY <1>13, <1>14 DEF Shrinks

\* planner.py, plan: coverage, the loop of each restoration and the loop of replication
\* end, for any models, nodes and cap.
THEOREM EveryPlanEnds == Spec => PlanEnds
<1>1. Inv /\ OrderInv /\ [Next]_vars
        => [phase # "done" => WorkLeft \in Nat /\ WorkLeft' \in Nat /\ WorkLeft' < WorkLeft]_vars
  BY LessIsLeft
<1> QED
  BY <1>1, InitOK, StepOK, OrderInit, OrderStep, PTL DEF Spec, PlanEnds
=============================================================================
