----------------------------- MODULE ImagePool -----------------------------
(***************************************************************************)
(* services/imagegen-shim: app.py and pool.py.  Several backends draw for  *)
(* one model; a request is handed from one to the next while they refuse   *)
(* the connection.  A step lasts from one await to the next: the order is  *)
(* computed once, before the first.                                        *)
(***************************************************************************)
EXTENDS Integers, Sequences, FiniteSets

CONSTANTS PictureRequests,
          Urls,          \* how many backends the model has
          COOLDOWN       \* in steps of the clock

ASSUME PoolType == Urls \in Nat \ {0} /\ COOLDOWN \in Nat \ {0}

Pool == 1..Urls

VARIABLES
  busy,       \* pool.busy
  cooling,    \* how long each is still out: _down_until, less the time
  turn,       \* _turn
  drawing     \* each request: the order, how far it is, who refused

imageVars == <<busy, cooling, turn, drawing>>

NotDrawing == [order |-> <<>>, at |-> 0, refused |-> {}]

ImagesInit ==
  /\ busy = [b \in Pool |-> 0] /\ cooling = [b \in Pool |-> 0] /\ turn = 0
  /\ drawing = [r \in PictureRequests |-> NotDrawing]

On(r) == drawing[r].order[drawing[r].at]

Drawing == {r \in PictureRequests : drawing[r].at > 0}

(********************************* pool.py *******************************)

Out(b) == cooling[b] > 0

FromTurn(b) == (b - 1 - turn) % Urls

\* A bug: the load is compared before the cooldown is.
BusyFirst(a, b) ==
  IF busy[a] # busy[b] THEN busy[a] < busy[b]
  ELSE IF Out(a) # Out(b) THEN Out(b) ELSE FromTurn(a) < FromTurn(b)

Better(a, b) ==
  IF Out(a) # Out(b) THEN Out(b)
  ELSE IF busy[a] # busy[b] THEN busy[a] < busy[b] ELSE FromTurn(a) < FromTurn(b)

\* A bug: a backend in its cooldown is not tried at all.
OnlyThoseIn == IF {b \in Pool : ~Out(b)} = {} THEN Pool ELSE {b \in Pool : ~Out(b)}

Listed == Pool

\* sorted: Listed, each once, the better before the worse.
Sorted(order) ==
  /\ {order[i] : i \in DOMAIN order} = Listed
  /\ \A i, j \in DOMAIN order : i < j => Better(order[i], order[j])

Orders == {order \in [1..Cardinality(Listed) -> Listed] : Sorted(order)}

(**************************** chat_completions ***************************)

Asks(r) ==
  /\ drawing[r] = NotDrawing
  /\ \E order \in Orders :
       /\ drawing' = [drawing EXCEPT ![r] = [order |-> order, at |-> 1, refused |-> {}]]
       /\ busy' = [busy EXCEPT ![order[1]] = @ + 1]
  /\ turn' = (turn + 1) % Urls
  /\ UNCHANGED cooling

Ends(r) == drawing' = [drawing EXCEPT ![r] = NotDrawing] /\ busy' = [busy EXCEPT ![On(r)] = @ - 1]

\* Any answer, also an error, ends a cooldown.
Draws(r) ==
  /\ r \in Drawing
  /\ Ends(r)
  /\ cooling' = [cooling EXCEPT ![On(r)] = 0]
  /\ UNCHANGED turn

\* Lost on the way: 502 without another try.
Breaks(r) == r \in Drawing /\ Ends(r) /\ UNCHANGED <<cooling, turn>>

MarkDown(b) == cooling' = [cooling EXCEPT ![b] = COOLDOWN]

\* The backend does not accept the connection.
Refuses(r) ==
  /\ r \in Drawing /\ drawing[r].at < Len(drawing[r].order)
  /\ MarkDown(On(r))
  /\ drawing' = [drawing EXCEPT ![r].at = @ + 1, ![r].refused = @ \cup {On(r)}]
  /\ busy' = [busy EXCEPT ![On(r)] = @ - 1, ![drawing[r].order[drawing[r].at + 1]] = @ + 1]
  /\ UNCHANGED turn

\* Nor did any other: 502.
GivesUp(r) ==
  /\ r \in Drawing /\ drawing[r].at = Len(drawing[r].order)
  /\ MarkDown(On(r))
  /\ Ends(r)
  /\ UNCHANGED turn

Cools ==
  /\ \E b \in Pool : Out(b)
  /\ cooling' = [b \in Pool |-> IF Out(b) THEN cooling[b] - 1 ELSE 0]
  /\ UNCHANGED <<busy, turn, drawing>>

ImagesNext == Cools \/ \E r \in PictureRequests :
  Asks(r) \/ Draws(r) \/ Breaks(r) \/ Refuses(r) \/ GivesUp(r)

ImagesSpec == ImagesInit /\ [][ImagesNext]_imageVars
-----------------------------------------------------------------------------
InFlight(b) == Cardinality({r \in Drawing : On(r) = b})

\* A picture is first sent where fewest are really in flight, among those that
\* are not in their cooldown; to one that is, only if all are.
FirstTryLeastBusy ==
  [][\A r \in PictureRequests : drawing[r].at = 0 /\ drawing'[r].at = 1 =>
       LET b == drawing'[r].order[1] IN
       \A o \in Pool : IF Out(b) THEN Out(o) /\ InFlight(b) <= InFlight(o)
                       ELSE Out(o) \/ InFlight(b) <= InFlight(o)]_imageVars

\* "Unreachable" is said only after every backend has refused the request, also
\* those in their cooldown, and no request meets a refusal twice.
GivesUpAfterAll ==
  [][\A r \in PictureRequests :
       /\ GivesUp(r) => drawing[r].refused \cup {On(r)} = Pool
       /\ r \in Drawing => On(r) \notin drawing[r].refused]_imageVars
=============================================================================
