---------------------------- MODULE SearchShim ----------------------------
(***************************************************************************)
(* services/search-shim: /search in front of SearXNG.  A request is        *)
(* answered from the result cache, or joins the call for its key that is   *)
(* in flight, or starts one.  A call runs as a task of its own behind the  *)
(* gate.  All of it is one event loop: a step lasts from one await to the  *)
(* next, and a task's done callback runs a little after its last step.     *)
(*                                                                         *)
(* A key stands for a normalised request, an answer for its kind: with     *)
(* "results", or "other" (empty, or a 4xx of SearXNG), or an UpstreamError *)
(* ("busy", "failed").                                                     *)
(***************************************************************************)
EXTENDS Integers, FiniteSets, SequencesExt

CONSTANTS Callers, Keys,
          Calls,                      \* the tasks there can be at a time
          MAX_CONCURRENT_SEARCHES, CACHE_TTL_S, STALE_TTL_S, CACHE_MAX_ENTRIES,
          AgeCap,                     \* ages are counted up to here
          None

ASSUME LimitsType ==
  /\ MAX_CONCURRENT_SEARCHES \in Nat \ {0} /\ CACHE_MAX_ENTRIES \in Nat \ {0}
  /\ CACHE_TTL_S \in Nat /\ STALE_TTL_S \in Nat

ASSUME NoneIsNone == None \notin Keys \cup Calls

VARIABLES
  age,        \* of a key's row in the cache, or Absent
  order,      \* the keys of the rows, as the OrderedDict lists them
  inflight,   \* Coalescer._inflight: the key's task, or None
  calls,      \* what each task does
  active,     \* gate.active
  caller      \* what each request does

vars == <<age, order, inflight, calls, active, caller>>

Larger(a, b) == IF a >= b THEN a ELSE b

stale_ttl == Larger(CACHE_TTL_S, STALE_TTL_S)

ASSUME AgeCapType == AgeCap \in Nat /\ AgeCap > stale_ttl

Absent == -1
Answers == {"results", "other"}
Errors == {"busy", "failed"}

NoCall == [at |-> "free", key |-> None, out |-> "none"]
Queued(k) == [at |-> "queued", key |-> k, out |-> "none"]
Waiting(k, t) == [at |-> "waiting", key |-> k, call |-> t, got |-> "none"]
Resuming(k, out) == [at |-> "resuming", key |-> k, call |-> None, got |-> out]
Answered(got) == [at |-> "answered", key |-> None, call |-> None, got |-> got]
Away == [at |-> "away", key |-> None, call |-> None, got |-> "none"]

Init ==
  /\ age = [k \in Keys |-> Absent] /\ order = <<>>
  /\ inflight = [k \in Keys |-> None]
  /\ calls = [t \in Calls |-> NoCall] /\ active = 0
  /\ caller = [c \in Callers |-> Away]

(****************************** ResultCache *******************************)

Place(k) == CHOOSE i \in DOMAIN order : order[i] = k

Without(k) ==
  IF \E i \in DOMAIN order : order[i] = k THEN RemoveAt(order, Place(k)) ELSE order

Fresh(k) == age[k] # Absent /\ age[k] <= CACHE_TTL_S

\* A bug: a row is good for as long as it is there.
NeverTooOld(k) == FALSE

TooOld(k) == age[k] > stale_ttl

\* A bug: a row that is used again keeps its old place.
PlaceKept(k) == IF \E i \in DOMAIN order : order[i] = k THEN order ELSE Append(order, k)

\* move_to_end
NewestLast(k) == Append(Without(k), k)

\* popitem(last=False)
Evicted(queue) == Head(queue)

\* put, with the loop that drops what is past the limit.
Put(k) ==
  LET queue == NewestLast(k) IN
  IF Len(queue) <= CACHE_MAX_ENTRIES
  THEN order' = queue /\ age' = [age EXCEPT ![k] = 0]
  ELSE /\ order' = Tail(queue)
       /\ age' = [age EXCEPT ![k] = 0, ![Evicted(queue)] = Absent]

(******************************* _search **********************************)

FromCache(c, k) ==
  /\ caller[c].at = "away" /\ Fresh(k)
  /\ caller' = [caller EXCEPT ![c] = Answered("fresh")]
  /\ order' = NewestLast(k)
  /\ UNCHANGED <<age, inflight, calls, active>>

\* A bug: a task is looked for under no key.
NeverJoins(k) == TRUE

Alone(k) == inflight[k] = None

\* Coalescer.run without a task: one is created and begins with the gate.
Start(c, k) ==
  /\ caller[c].at = "away" /\ ~Fresh(k) /\ Alone(k)
  /\ \E t \in Calls :
       /\ calls[t].at = "free"
       /\ calls' = [calls EXCEPT ![t] = Queued(k)]
       /\ inflight' = [inflight EXCEPT ![k] = t]
       /\ caller' = [caller EXCEPT ![c] = Waiting(k, t)]
  /\ UNCHANGED <<age, order, active>>

\* With a task: its outcome is shared, at once if it has just ended.
Join(c, k) ==
  /\ caller[c].at = "away" /\ ~Fresh(k) /\ ~Alone(k)
  /\ LET t == inflight[k] IN
     caller' = [caller EXCEPT ![c] =
       IF calls[t].at = "ended"
       THEN Resuming(k, calls[t].out) ELSE Waiting(k, t)]
  /\ UNCHANGED <<age, order, inflight, calls, active>>

\* A bug: the task is awaited without the shield and dies with its caller.
CancelledWith(c) ==
  [t \in Calls |-> IF t = caller[c].call /\ calls[t].at = "queued"
                   THEN [calls[t] EXCEPT !.at = "lost"] ELSE calls[t]]

CallsWithout(c) == calls

\* The client is gone; shield keeps the task.
Depart(c) ==
  /\ caller[c].at = "waiting"
  /\ calls' = CallsWithout(c)
  /\ caller' = [caller EXCEPT ![c] = Away]
  /\ UNCHANGED <<age, order, inflight, active>>

\* The task's answer, else a stale row, else the error; a row past its time is
\* dropped on the way.
Resume(c) ==
  /\ caller[c].at = "resuming"
  /\ LET k == caller[c].key
         stale == caller[c].got \in Errors /\ age[k] # Absent
     IN IF stale /\ TooOld(k)
        THEN /\ age' = [age EXCEPT ![k] = Absent] /\ order' = Without(k)
             /\ caller' = [caller EXCEPT ![c] = Answered(caller[c].got)]
        ELSE /\ caller' = [caller EXCEPT ![c] =
                             Answered(IF stale THEN "stale" ELSE caller[c].got)]
             /\ UNCHANGED <<age, order>>
  /\ UNCHANGED <<inflight, calls, active>>

Reply(c) ==
  /\ caller[c].at = "answered"
  /\ caller' = [caller EXCEPT ![c] = Away]
  /\ UNCHANGED <<age, order, inflight, calls, active>>

(************************** _fetch, in its task ***************************)

Acquire(t) ==
  /\ calls[t].at = "queued" /\ active < MAX_CONCURRENT_SEARCHES
  /\ calls' = [calls EXCEPT ![t].at = "upstream"]
  /\ active' = active + 1
  /\ UNCHANGED <<age, order, inflight, caller>>

\* The task ends: its outcome is there for everyone who awaits it.
Ends(t, out) ==
  /\ calls' = [calls EXCEPT ![t].at = "ended", ![t].out = out]
  /\ caller' = [c \in Callers |->
       IF caller[c].at = "waiting" /\ caller[c].call = t
       THEN Resuming(caller[c].key, out) ELSE caller[c]]

\* A timeout in the turn a slot comes back counts as one just before it.
QueueTimeout(t) ==
  /\ calls[t].at = "queued" /\ active = MAX_CONCURRENT_SEARCHES
  /\ Ends(t, "busy")
  /\ UNCHANGED <<age, order, inflight, active>>

Kept(out) == out = "results"

\* A bug: the slot comes back only with an answer.
ReleasedOnAnswer(out) == IF out \in Answers THEN active - 1 ELSE active

Released(out) == active - 1

\* SearXNG answers, or fails, or takes too long.
Upstream(t) ==
  /\ calls[t].at = "upstream"
  /\ \E out \in Answers \cup {"failed"} :
       /\ Ends(t, out)
       /\ active' = Released(out)
       /\ IF Kept(out) THEN Put(calls[t].key) ELSE UNCHANGED <<age, order>>
  /\ UNCHANGED inflight

\* Coalescer._done
Done(t) ==
  /\ calls[t].at = "ended"
  /\ inflight' = [k \in Keys |-> IF inflight[k] = t THEN None ELSE inflight[k]]
  /\ calls' = [calls EXCEPT ![t] = NoCall]
  /\ UNCHANGED <<age, order, active, caller>>

\* Time passes while the loop has nothing left to run.
Tick ==
  /\ \A c \in Callers : caller[c].at # "resuming"
  /\ \A t \in Calls : calls[t].at # "ended"
  /\ age' = [k \in Keys |-> IF age[k] = Absent \/ age[k] = AgeCap THEN age[k] ELSE age[k] + 1]
  /\ UNCHANGED <<order, inflight, calls, active, caller>>

CallStep(t) == Acquire(t) \/ QueueTimeout(t) \/ Upstream(t) \/ Done(t)

Next ==
  \/ \E c \in Callers, k \in Keys : FromCache(c, k) \/ Start(c, k) \/ Join(c, k)
  \/ \E c \in Callers : Depart(c) \/ Resume(c) \/ Reply(c)
  \/ \E t \in Calls : CallStep(t)
  \/ Tick

\* Tasks and coroutines that can run do; the wait for a slot and SearXNG's
\* answer are under timeouts.
Fairness ==
  /\ \A t \in Calls : WF_vars(CallStep(t))
  /\ \A c \in Callers : WF_vars(Resume(c))

Spec == Init /\ [][Next]_vars

FairSpec == Spec /\ Fairness
-----------------------------------------------------------------------------
CallType == [at : {"free", "queued", "upstream", "ended"},
             key : Keys \cup {None}, out : Answers \cup Errors \cup {"none"}]

\* SearXNG never runs the same search twice at once for the shim's callers.
OneCallPerKey ==
  \A t, u \in Calls :
    /\ calls[t].at \in {"queued", "upstream"} /\ calls[u].at \in {"queued", "upstream"}
    /\ calls[t].key = calls[u].key
    => t = u

\* The searches that reach SearXNG at once implement Slots: every outcome of a
\* call gives its slot back, whether or not anyone still waits for it.
SearchGate == INSTANCE Slots WITH
  Users <- Calls, Limit <- MAX_CONCURRENT_SEARCHES,
  holders <- {t \in Calls : calls[t].at = "upstream"}, count <- active

SlotsKept == SearchGate!Spec

\* Nobody is told an error while the cache holds an answer up to STALE_TTL_S
\* old; an older one is never served, and one past CACHE_TTL_S only to a caller
\* whose own call failed.
StaleRatherThanError ==
  [][\A c \in Callers :
       caller[c].at = "resuming" /\ caller'[c].at = "answered" /\ caller[c].got \in Errors
       => LET a == age[caller[c].key] IN
          caller'[c].got = "stale" <=> a # Absent /\ a <= STALE_TTL_S]_vars

\* Whoever waits, waits for a call of its own query that is under way, though the
\* caller that started it may have left and others may have searched since.
CallsUnderWay ==
  \A c \in Callers : caller[c].at = "waiting" =>
    LET t == caller[c].call
    IN t \in Calls /\ calls[t].key = caller[c].key /\ calls[t].at \in {"queued", "upstream"}

\* Every caller is answered unless it leaves, also when the one that started
\* the call has left.
EveryoneAnswered ==
  \A c \in Callers : caller[c].at = "waiting" ~> caller[c].at # "waiting"
=============================================================================
