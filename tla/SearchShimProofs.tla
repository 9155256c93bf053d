-------------------------- MODULE SearchShimProofs --------------------------
(***************************************************************************)
(* For any callers, keys, tasks and limits: no key has two calls in        *)
(* flight, the gate in front of SearXNG implements Slots, the cache keeps  *)
(* the rows used last and never more than it may hold, an error is told    *)
(* exactly when the cache has no answer young enough, and nobody waits for *)
(* a call that is over.                                                    *)
(***************************************************************************)
EXTENDS SearchShimHistory, FiniteSetTheorems, SequenceTheorems, TLAPS

Upstreaming == {t \in Calls : calls[t].at = "upstream"}

CallsInv ==
  /\ calls \in [Calls -> CallType]
  /\ inflight \in [Keys -> Calls \cup {None}]

\* A task is registered under its key from its creation until its done
\* callback, so a key with a task is never Alone.
Registered ==
  \A t \in Calls : calls[t].at # "free" =>
    calls[t].key \in Keys /\ inflight[calls[t].key] = t

\* gate.active counts the tasks between acquire and release.
SlotInv ==
  /\ IsFiniteSet(Upstreaming)
  /\ active = Cardinality(Upstreaming)
  /\ active <= MAX_CONCURRENT_SEARCHES

Inv == CallsInv /\ Registered /\ SlotInv

(*********************************** slots *********************************)

LEMMA SameSlots ==
  ASSUME SlotInv, Upstreaming' = Upstreaming, active' = active
  PROVE  SlotInv'
BY DEF SlotInv

LEMMA OneEnters ==
  ASSUME SlotInv, active < MAX_CONCURRENT_SEARCHES, NEW t, t \notin Upstreaming,
         Upstreaming' = Upstreaming \cup {t}, active' = active + 1
  PROVE  SlotInv'
<1>1. IsFiniteSet(Upstreaming') /\ Cardinality(Upstreaming') = Cardinality(Upstreaming) + 1
  BY FS_AddElement DEF SlotInv
<1>2. Cardinality(Upstreaming) \in Nat
  BY FS_CardinalityType DEF SlotInv
<1> QED
  BY <1>1, <1>2, LimitsType DEF SlotInv

LEMMA OneLeaves ==
  ASSUME SlotInv, NEW t, t \in Upstreaming,
         Upstreaming' = Upstreaming \ {t}, active' = active - 1
  PROVE  SlotInv'
<1>1. IsFiniteSet(Upstreaming') /\ Cardinality(Upstreaming') = Cardinality(Upstreaming) - 1
  BY FS_RemoveElement DEF SlotInv
<1>2. Cardinality(Upstreaming) \in Nat
  BY FS_CardinalityType DEF SlotInv
<1> QED
  BY <1>1, <1>2, LimitsType DEF SlotInv

(********************************** steps **********************************)

LEMMA InitOK == Init => Inv
<1> SUFFICES ASSUME Init PROVE Inv
  OBVIOUS
<1>1. CallsInv
  BY DEF CallsInv, Init, CallType, NoCall
<1>2. Registered
  BY DEF Registered, Init, NoCall
<1>3. Upstreaming = {}
  BY DEF Upstreaming, Init, NoCall
<1>4. SlotInv
  BY <1>3, FS_EmptySet, LimitsType DEF SlotInv, Init
<1> QED
  BY <1>1, <1>2, <1>4 DEF Inv

\* A step outside the tasks.
LEMMA CallerStep ==
  ASSUME Inv, UNCHANGED <<inflight, calls, active>>
  PROVE  Inv'
BY SameSlots DEF Inv, CallsInv, Registered, Upstreaming

\* Only the task that is named changes, and keeps its key.
LEMMA MoveFacts ==
  ASSUME CallsInv, NEW t \in Calls, NEW at \in {"upstream", "ended"},
         NEW out \in Answers \cup Errors \cup {"none"},
         calls' = [calls EXCEPT ![t].at = at, ![t].out = out]
  PROVE  /\ calls' \in [Calls -> CallType]
         /\ calls'[t].at = at /\ calls'[t].key = calls[t].key
         /\ \A u \in Calls : u # t => calls'[u] = calls[u]
BY DEF CallsInv, CallType

LEMMA StartKeeps ==
  ASSUME Inv, NEW c \in Callers, NEW k \in Keys, Start(c, k)
  PROVE  Inv'
<1>1. PICK t \in Calls :
        /\ calls[t].at = "free"
        /\ calls' = [calls EXCEPT ![t] = Queued(k)]
        /\ inflight' = [inflight EXCEPT ![k] = t]
  BY DEF Start
<1>2. Queued(k) \in CallType /\ Queued(k).at = "queued" /\ Queued(k).key = k
  BY DEF Queued, CallType
<1>3. /\ calls'[t] = Queued(k) /\ \A u \in Calls : u # t => calls'[u] = calls[u]
      /\ CallsInv'
  BY <1>1, <1>2 DEF Inv, CallsInv
<1>4. inflight[k] = None
  BY DEF Start, Alone
<1>5. Registered'
  <2> SUFFICES ASSUME NEW u \in Calls, calls'[u].at # "free"
               PROVE  calls'[u].key \in Keys /\ inflight'[calls'[u].key] = u
    BY DEF Registered
  <2>1. CASE u = t
    BY <1>1, <1>2, <1>3, <2>1 DEF Inv, CallsInv
  <2>2. CASE u # t
    <3>1. calls[u].key \in Keys /\ inflight[calls[u].key] = u
      BY <1>3, <2>2 DEF Inv, Registered
    <3>2. calls[u].key # k
      BY <3>1, <1>4, NoneIsNone
    <3> QED
      BY <1>1, <1>3, <2>2, <3>1, <3>2 DEF Inv, CallsInv
  <2> QED
    BY <2>1, <2>2
<1>6. Upstreaming' = Upstreaming
  BY <1>1, <1>2, <1>3 DEF Upstreaming
<1>7. UNCHANGED active
  BY DEF Start
<1> QED
  BY <1>3, <1>5, <1>6, <1>7, SameSlots DEF Inv

LEMMA AcquireKeeps ==
  ASSUME Inv, NEW t \in Calls, Acquire(t)
  PROVE  Inv'
<1>1. /\ calls[t].at = "queued" /\ active < MAX_CONCURRENT_SEARCHES /\ active' = active + 1
      /\ UNCHANGED inflight
      /\ calls' = [calls EXCEPT ![t].at = "upstream"]
  BY DEF Acquire
<1>2. /\ calls' \in [Calls -> CallType]
      /\ calls'[t].at = "upstream" /\ calls'[t].key = calls[t].key
      /\ \A u \in Calls : u # t => calls'[u] = calls[u]
  BY <1>1 DEF Inv, CallsInv, CallType
<1>3. CallsInv' /\ Registered'
  BY <1>1, <1>2 DEF Inv, CallsInv, Registered
<1>4. t \notin Upstreaming /\ Upstreaming' = Upstreaming \cup {t}
  BY <1>1, <1>2 DEF Upstreaming
<1> QED
  BY <1>1, <1>3, <1>4, OneEnters DEF Inv

LEMMA QueueTimeoutKeeps ==
  ASSUME Inv, NEW t \in Calls, QueueTimeout(t)
  PROVE  Inv'
<1>1. /\ calls[t].at = "queued" /\ UNCHANGED <<inflight, active>>
      /\ calls' = [calls EXCEPT ![t].at = "ended", ![t].out = "busy"]
  BY DEF QueueTimeout, Ends
<1>2. /\ calls' \in [Calls -> CallType]
      /\ calls'[t].at = "ended" /\ calls'[t].key = calls[t].key
      /\ \A u \in Calls : u # t => calls'[u] = calls[u]
  BY <1>1, MoveFacts DEF Inv, Errors
<1>3. CallsInv' /\ Registered'
  BY <1>1, <1>2 DEF Inv, CallsInv, Registered
<1>4. Upstreaming' = Upstreaming
  BY <1>1, <1>2 DEF Upstreaming
<1> QED
  BY <1>1, <1>3, <1>4, SameSlots DEF Inv

LEMMA UpstreamKeeps ==
  ASSUME Inv, NEW t \in Calls, Upstream(t)
  PROVE  Inv'
<1>1. PICK out \in Answers \cup {"failed"} : Ends(t, out) /\ active' = Released(out)
  BY DEF Upstream
<1>2. calls[t].at = "upstream" /\ UNCHANGED inflight /\ active' = active - 1
  BY <1>1 DEF Upstream, Released
<1>3. /\ calls' \in [Calls -> CallType]
      /\ calls'[t].at = "ended" /\ calls'[t].key = calls[t].key
      /\ \A u \in Calls : u # t => calls'[u] = calls[u]
  BY <1>1, MoveFacts DEF Inv, Errors, Ends
<1>4. CallsInv' /\ Registered'
  BY <1>2, <1>3 DEF Inv, CallsInv, Registered
<1>5. t \in Upstreaming /\ Upstreaming' = Upstreaming \ {t}
  BY <1>2, <1>3 DEF Upstreaming
<1> QED
  BY <1>2, <1>4, <1>5, OneLeaves DEF Inv

LEMMA DoneKeeps ==
  ASSUME Inv, NEW t \in Calls, Done(t)
  PROVE  Inv'
<1>1. /\ calls[t].at = "ended" /\ UNCHANGED active
      /\ inflight' = [k \in Keys |-> IF inflight[k] = t THEN None ELSE inflight[k]]
      /\ calls' = [calls EXCEPT ![t] = NoCall]
  BY DEF Done
<1>2. NoCall \in CallType /\ NoCall.at = "free"
  BY DEF NoCall, CallType
<1>3. /\ calls'[t] = NoCall /\ \A u \in Calls : u # t => calls'[u] = calls[u]
      /\ CallsInv'
  BY <1>1, <1>2 DEF Inv, CallsInv
<1>4. Registered'
  BY <1>1, <1>2, <1>3 DEF Inv, CallsInv, Registered
<1>5. Upstreaming' = Upstreaming
  BY <1>1, <1>2, <1>3 DEF Upstreaming
<1> QED
  BY <1>1, <1>3, <1>4, <1>5, SameSlots DEF Inv

LEMMA StepOK == Inv /\ [Next]_vars => Inv'
<1> SUFFICES ASSUME Inv, [Next]_vars PROVE Inv'
  OBVIOUS
<1>1. ASSUME NEW c \in Callers, NEW k \in Keys, FromCache(c, k) \/ Start(c, k) \/ Join(c, k)
      PROVE  Inv'
  BY <1>1, StartKeeps, CallerStep DEF FromCache, Join
<1>2. ASSUME NEW c \in Callers, Depart(c) \/ Resume(c) \/ Reply(c) PROVE Inv'
  BY <1>2, CallerStep DEF Depart, CallsWithout, Resume, Reply
<1>3. ASSUME NEW t \in Calls, CallStep(t) PROVE Inv'
  BY <1>3, AcquireKeeps, QueueTimeoutKeeps, UpstreamKeeps, DoneKeeps DEF CallStep
<1>4. CASE Tick \/ UNCHANGED vars
  BY <1>4, CallerStep DEF Tick, vars
<1> QED
  BY <1>1, <1>2, <1>3, <1>4 DEF Next

LEMMA Invariance == Spec => []Inv
BY InitOK, StepOK, PTL DEF Spec

(********************************* results *********************************)

\* Coalescing holds for any traffic: a search is never in flight twice.
THEOREM SearchedOnce == Spec => []OneCallPerKey
<1>1. Inv => OneCallPerKey
  BY DEF Inv, Registered, OneCallPerKey
<1> QED
  BY <1>1, Invariance, PTL

LEMMA GateStep ==
  ASSUME Inv, Inv', [Next]_vars
  PROVE  [SearchGate!Next]_(SearchGate!vars)
<1>1. /\ active = Cardinality(Upstreaming) /\ active' = Cardinality(Upstreaming')
      /\ active' <= MAX_CONCURRENT_SEARCHES /\ active \in Nat /\ active' \in Nat
      /\ IsFiniteSet(Upstreaming) /\ IsFiniteSet(Upstreaming')
  BY FS_CardinalityType DEF Inv, SlotInv
<1>2. ASSUME UNCHANGED <<calls, active>> PROVE UNCHANGED SearchGate!vars
  BY <1>2 DEF SearchGate!vars
<1>3. ASSUME NEW t \in Calls, \A u \in Calls : u # t => calls'[u] = calls[u]
      PROVE  [SearchGate!Next]_(SearchGate!vars)
  <2>1. CASE t \in Upstreaming <=> t \in Upstreaming'
    <3>1. Upstreaming' = Upstreaming
      BY <1>3, <2>1 DEF Upstreaming
    <3> QED
      BY <3>1, <1>1 DEF SearchGate!vars, Upstreaming
  <2>2. CASE t \in Upstreaming /\ t \notin Upstreaming'
    <3>1. Upstreaming' = Upstreaming \ {t}
      BY <1>3, <2>2 DEF Upstreaming
    <3>2. SearchGate!Leave(t)
      BY <3>1, <2>2, <1>1, FS_RemoveElement DEF SearchGate!Leave, Upstreaming
    <3> QED
      BY <3>2 DEF SearchGate!Next
  <2>3. CASE t \notin Upstreaming /\ t \in Upstreaming'
    <3>1. Upstreaming' = Upstreaming \cup {t}
      BY <1>3, <2>3 DEF Upstreaming
    <3>2. active' = active + 1
      BY <3>1, <2>3, <1>1, FS_AddElement
    <3>3. SearchGate!Enter(t)
      BY <3>1, <3>2, <2>3, <1>1, LimitsType DEF SearchGate!Enter, Upstreaming
    <3> QED
      BY <3>3 DEF SearchGate!Next
  <2> QED
    BY <2>1, <2>2, <2>3
<1>4. ASSUME NEW c \in Callers, NEW k \in Keys, FromCache(c, k) \/ Start(c, k) \/ Join(c, k)
      PROVE  [SearchGate!Next]_(SearchGate!vars)
  <2>1. CASE Start(c, k)
    BY <2>1, <1>3 DEF Start, Inv, CallsInv
  <2>2. CASE FromCache(c, k) \/ Join(c, k)
    BY <2>2, <1>2 DEF FromCache, Join
  <2> QED
    BY <1>4, <2>1, <2>2
<1>5. ASSUME NEW c \in Callers, Depart(c) \/ Resume(c) \/ Reply(c)
      PROVE  [SearchGate!Next]_(SearchGate!vars)
  BY <1>5, <1>2 DEF Depart, CallsWithout, Resume, Reply
<1>6. ASSUME NEW t \in Calls, CallStep(t) PROVE [SearchGate!Next]_(SearchGate!vars)
  BY <1>6, <1>3 DEF CallStep, Acquire, QueueTimeout, Upstream, Ends, Done, Inv, CallsInv
<1>7. CASE Tick \/ UNCHANGED vars
  BY <1>7, <1>2 DEF Tick, vars
<1> QED
  BY <1>4, <1>5, <1>6, <1>7 DEF Next

\* Gate of store.py, used by _fetch inside its task, implements the abstract
\* slots also when every caller of the task has gone.
THEOREM SearchGateIsSlots == Spec => SlotsKept
<1>1. Init => SearchGate!Init
  BY DEF Init, NoCall, SearchGate!Init
<1> QED
  BY <1>1, Invariance, GateStep, PTL DEF Spec, SlotsKept, SearchGate!Spec

(****************************** the cache's rows ****************************)

\* The queue is a list of R, each member once.
Lists(queue, R) ==
  /\ queue \in Seq(Keys) /\ R \subseteq Keys
  /\ \A i, j \in 1..Len(queue) : queue[i] = queue[j] => i = j
  /\ \A i \in 1..Len(queue) : queue[i] \in R
  /\ \A k \in R : \E i \in 1..Len(queue) : queue[i] = k
  /\ IsFiniteSet(R) /\ Cardinality(R) = Len(queue)

Cached == {k \in Keys : age[k] # Absent}

RowsInv ==
  /\ age \in [Keys -> {Absent} \cup 0..AgeCap]
  /\ Lists(order, Cached)
  /\ Len(order) <= CACHE_MAX_ENTRIES

LEMMA ListsLen ==
  ASSUME NEW queue, NEW R, Lists(queue, R)
  PROVE  Len(queue) \in Nat /\ DOMAIN queue = 1..Len(queue)
BY LenProperties DEF Lists

LEMMA AppendLists ==
  ASSUME NEW queue, NEW R, Lists(queue, R), NEW k \in Keys, k \notin R
  PROVE  /\ Lists(Append(queue, k), R \cup {k})
         /\ Len(Append(queue, k)) = Len(queue) + 1
         /\ Append(queue, k)[Len(queue) + 1] = k
<1> DEFINE longer == Append(queue, k)
<1>1. /\ longer \in Seq(Keys) /\ Len(longer) = Len(queue) + 1
      /\ \A i \in 1..Len(queue) : longer[i] = queue[i]
      /\ longer[Len(queue) + 1] = k
  BY AppendProperties DEF Lists
<1>2. Len(queue) \in Nat
  BY ListsLen
<1>3. IsFiniteSet(R \cup {k}) /\ Cardinality(R \cup {k}) = Len(longer)
  BY <1>1, FS_AddElement DEF Lists
<1> HIDE DEF longer
<1>4. \A i \in 1..Len(longer) : longer[i] \in R \cup {k}
  BY <1>1, <1>2 DEF Lists
<1>5. \A j \in R \cup {k} : \E i \in 1..Len(longer) : longer[i] = j
  <2> SUFFICES ASSUME NEW j \in R \cup {k}
               PROVE  \E i \in 1..Len(longer) : longer[i] = j
    OBVIOUS
  <2>1. CASE j = k
    BY <1>1, <1>2, <2>1
  <2>2. CASE j \in R
    <3>1. PICK i \in 1..Len(queue) : queue[i] = j
      BY <2>2 DEF Lists
    <3> QED
      BY <1>1, <1>2, <3>1
  <2> QED
    BY <2>1, <2>2
<1>6. \A i, j \in 1..Len(longer) : longer[i] = longer[j] => i = j
  <2> SUFFICES ASSUME NEW i \in 1..Len(longer), NEW j \in 1..Len(longer),
                      longer[i] = longer[j]
               PROVE  i = j
    OBVIOUS
  <2>1. \A n \in 1..Len(queue) : queue[n] # k
    BY DEF Lists
  <2>2. \A m, n \in 1..Len(queue) : queue[m] = queue[n] => m = n
    BY DEF Lists
  <2> QED
    BY <1>1, <1>2, <2>1, <2>2
<1>7. R \cup {k} \subseteq Keys
  BY DEF Lists
<1>8. Lists(longer, R \cup {k})
  BY <1>1, <1>3, <1>4, <1>5, <1>6, <1>7 DEF Lists
<1> QED
  BY <1>1, <1>8 DEF longer

LEMMA TailLists ==
  ASSUME NEW queue, NEW R, Lists(queue, R), Len(queue) > 0
  PROVE  /\ Lists(Tail(queue), R \ {Head(queue)})
         /\ Len(Tail(queue)) = Len(queue) - 1
         /\ Head(queue) \in R
<1> DEFINE rest == Tail(queue)
           first == Head(queue)
<1>1. Len(queue) \in Nat /\ queue \in Seq(Keys) /\ queue # <<>>
  BY ListsLen, EmptySeq DEF Lists
<1>2. /\ rest \in Seq(Keys) /\ Len(rest) = Len(queue) - 1
      /\ \A i \in 1..Len(rest) : rest[i] = queue[i + 1]
  BY <1>1, HeadTailProperties
<1>3. first = queue[1]
  BY <1>1
<1> HIDE DEF rest, first
<1>4. first \in R
  BY <1>1, <1>3 DEF Lists
<1>5. \A i, j \in 1..Len(queue) : queue[i] = queue[j] => i = j
  BY DEF Lists
<1>6. \A i \in 1..Len(rest) : i + 1 \in 1..Len(queue) /\ i + 1 # 1
  BY <1>1, <1>2
<1>7. \A i \in 1..Len(rest) : rest[i] \in R \ {first}
  <2> SUFFICES ASSUME NEW i \in 1..Len(rest) PROVE rest[i] \in R \ {first}
    OBVIOUS
  <2>1. queue[i + 1] \in R
    BY <1>6 DEF Lists
  <2>2. queue[i + 1] # queue[1]
    BY <1>1, <1>5, <1>6
  <2> QED
    BY <1>2, <1>3, <2>1, <2>2
<1>8. \A k \in R \ {first} : \E i \in 1..Len(rest) : rest[i] = k
  <2> SUFFICES ASSUME NEW k \in R \ {first} PROVE \E i \in 1..Len(rest) : rest[i] = k
    OBVIOUS
  <2>1. PICK n \in 1..Len(queue) : queue[n] = k
    BY DEF Lists
  <2>2. n # 1
    BY <1>3, <2>1
  <2>3. n - 1 \in 1..Len(rest) /\ (n - 1) + 1 = n
    BY <1>1, <1>2, <2>2
  <2> QED
    BY <1>2, <2>1, <2>3
<1>9. \A i, j \in 1..Len(rest) : rest[i] = rest[j] => i = j
  <2> SUFFICES ASSUME NEW i \in 1..Len(rest), NEW j \in 1..Len(rest), rest[i] = rest[j]
               PROVE  i = j
    OBVIOUS
  <2>1. queue[i + 1] = queue[j + 1]
    BY <1>2
  <2>2. i + 1 = j + 1
    BY <1>5, <1>6, <2>1
  <2> QED
    BY <1>2, <1>1, <2>2
<1>10. /\ IsFiniteSet(R \ {first}) /\ Cardinality(R \ {first}) = Len(rest)
       /\ R \ {first} \subseteq Keys
  BY <1>2, <1>4, FS_RemoveElement DEF Lists
<1>11. Lists(rest, R \ {first})
  BY <1>2, <1>7, <1>8, <1>9, <1>10 DEF Lists
<1> QED
  BY <1>2, <1>4, <1>11 DEF rest, first

\* What RemoveAt does to a sequence.
LEMMA RemoveAtIs ==
  ASSUME NEW queue \in Seq(Keys), NEW n \in 1..Len(queue)
  PROVE  /\ RemoveAt(queue, n) \in Seq(Keys)
         /\ Len(RemoveAt(queue, n)) = Len(queue) - 1
         /\ \A i \in 1..(Len(queue) - 1) :
              RemoveAt(queue, n)[i] = queue[IF i < n THEN i ELSE i + 1]
<1> DEFINE front == SubSeq(queue, 1, n - 1)
           back == SubSeq(queue, n + 1, Len(queue))
<1>1. Len(queue) \in Nat /\ \A i \in 1..Len(queue) : queue[i] \in Keys
  BY LenProperties
<1>2. /\ front \in Seq(Keys) /\ Len(front) = n - 1
      /\ \A i \in 1..(n - 1) : front[i] = queue[i]
  <2>1. 1 \in Int /\ n - 1 \in Int /\ \A i \in 1..(n - 1) : queue[i] \in Keys
    BY <1>1
  <2>2. /\ front \in Seq(Keys)
        /\ Len(front) = IF 1 <= n - 1 THEN (n - 1) - 1 + 1 ELSE 0
        /\ \A i \in 1..((n - 1) - 1 + 1) : front[i] = queue[1 + i - 1]
    BY <2>1, SubSeqProperties
  <2> HIDE DEF front
  <2> QED
    BY <1>1, <2>2
<1>3. /\ back \in Seq(Keys) /\ Len(back) = Len(queue) - n
      /\ \A i \in 1..(Len(queue) - n) : back[i] = queue[n + i]
  <2>1. n + 1 \in Int /\ Len(queue) \in Int /\ \A i \in (n + 1)..Len(queue) : queue[i] \in Keys
    BY <1>1
  <2>2. /\ back \in Seq(Keys)
        /\ Len(back) = IF n + 1 <= Len(queue) THEN Len(queue) - (n + 1) + 1 ELSE 0
        /\ \A i \in 1..(Len(queue) - (n + 1) + 1) : back[i] = queue[(n + 1) + i - 1]
    BY <2>1, SubSeqProperties
  <2> HIDE DEF back
  <2> QED
    BY <1>1, <2>2
<1> HIDE DEF front, back
<1>4. /\ front \o back \in Seq(Keys)
      /\ Len(front \o back) = Len(front) + Len(back)
      /\ \A i \in 1..(Len(front) + Len(back)) :
           (front \o back)[i] = IF i <= Len(front) THEN front[i] ELSE back[i - Len(front)]
  BY <1>2, <1>3, ConcatProperties
<1>5. RemoveAt(queue, n) = front \o back
  BY DEF RemoveAt, front, back
<1>6. Len(front) + Len(back) = Len(queue) - 1
  BY <1>1, <1>2, <1>3
<1>7. ASSUME NEW i \in 1..(Len(queue) - 1)
      PROVE  (front \o back)[i] = queue[IF i < n THEN i ELSE i + 1]
  <2>1. (front \o back)[i] = IF i <= Len(front) THEN front[i] ELSE back[i - Len(front)]
    BY <1>4, <1>6
  <2>2. CASE i < n
    BY <1>1, <1>2, <2>1, <2>2
  <2>3. CASE ~(i < n)
    <3>1. i - (n - 1) \in 1..(Len(queue) - n) /\ n + (i - (n - 1)) = i + 1
      BY <1>1, <2>3
    <3> QED
      BY <1>1, <1>2, <1>3, <2>1, <2>3, <3>1
  <2> QED
    BY <2>2, <2>3
<1> QED
  BY <1>4, <1>5, <1>6, <1>7

LEMMA WithoutLists ==
  ASSUME NEW R, Lists(order, R), NEW k
  PROVE  /\ Lists(Without(k), R \ {k})
         /\ Len(Without(k)) = IF k \in R THEN Len(order) - 1 ELSE Len(order)
<1>1. Len(order) \in Nat /\ DOMAIN order = 1..Len(order)
  BY ListsLen
<1>2. CASE k \notin R
  <2>1. Without(k) = order /\ R \ {k} = R
    BY <1>1, <1>2 DEF Without, Lists
  <2> QED
    BY <1>2, <2>1
<1>3. CASE k \in R
  <2>1. Place(k) \in 1..Len(order) /\ order[Place(k)] = k
    BY <1>1, <1>3 DEF Place, Lists
  <2> DEFINE n == Place(k)
             rest == RemoveAt(order, n)
  <2>2. Without(k) = rest
    BY <1>1, <2>1 DEF Without
  <2>3. /\ rest \in Seq(Keys) /\ Len(rest) = Len(order) - 1
        /\ \A i \in 1..(Len(order) - 1) : rest[i] = order[IF i < n THEN i ELSE i + 1]
    BY <2>1, RemoveAtIs DEF Lists
  <2> HIDE DEF n, rest
  <2>4. n \in 1..Len(order) /\ order[n] = k
    BY <2>1 DEF n
  <2>5. \A i, j \in 1..Len(order) : order[i] = order[j] => i = j
    BY DEF Lists
  <2>6. \A i \in 1..Len(rest) : /\ (IF i < n THEN i ELSE i + 1) \in 1..Len(order)
                                /\ (IF i < n THEN i ELSE i + 1) # n
    BY <1>1, <2>3, <2>4
  <2>7. \A i \in 1..Len(rest) : rest[i] \in R \ {k}
    <3> SUFFICES ASSUME NEW i \in 1..Len(rest) PROVE rest[i] \in R \ {k}
      OBVIOUS
    <3> DEFINE m == IF i < n THEN i ELSE i + 1
    <3>1. rest[i] = order[m] /\ m \in 1..Len(order) /\ m # n
      BY <2>3, <2>6
    <3> HIDE DEF m
    <3>2. order[m] \in R
      BY <3>1 DEF Lists
    <3>3. order[m] # k
      BY <2>4, <2>5, <3>1
    <3> QED
      BY <3>1, <3>2, <3>3
  <2>8. \A j \in R \ {k} : \E i \in 1..Len(rest) : rest[i] = j
    <3> SUFFICES ASSUME NEW j \in R \ {k} PROVE \E i \in 1..Len(rest) : rest[i] = j
      OBVIOUS
    <3>1. PICK m \in 1..Len(order) : order[m] = j
      BY DEF Lists
    <3>2. m # n
      BY <2>4, <3>1
    <3>3. CASE m < n
      BY <1>1, <2>3, <2>4, <3>1, <3>3
    <3>4. CASE m > n
      <4>1. m - 1 \in 1..Len(rest) /\ ~(m - 1 < n) /\ (m - 1) + 1 = m
        BY <1>1, <2>3, <2>4, <3>4
      <4> QED
        BY <2>3, <3>1, <4>1
    <3> QED
      BY <1>1, <2>4, <3>2, <3>3, <3>4
  <2>9. \A i, j \in 1..Len(rest) : rest[i] = rest[j] => i = j
    <3> SUFFICES ASSUME NEW i \in 1..Len(rest), NEW j \in 1..Len(rest), rest[i] = rest[j]
                 PROVE  i = j
      OBVIOUS
    <3>1. order[IF i < n THEN i ELSE i + 1] = order[IF j < n THEN j ELSE j + 1]
      BY <2>3
    <3>2. (IF i < n THEN i ELSE i + 1) = (IF j < n THEN j ELSE j + 1)
      BY <2>5, <2>6, <3>1
    <3> QED
      BY <1>1, <2>3, <2>4, <3>2
  <2>10. /\ IsFiniteSet(R \ {k}) /\ Cardinality(R \ {k}) = Len(rest)
         /\ R \ {k} \subseteq Keys
    BY <1>3, <2>3, FS_RemoveElement DEF Lists
  <2>11. Lists(rest, R \ {k})
    BY <2>3, <2>7, <2>8, <2>9, <2>10 DEF Lists
  <2> QED
    BY <1>3, <2>2, <2>3, <2>11
<1> QED
  BY <1>2, <1>3

LEMMA NewestLists ==
  ASSUME NEW R, Lists(order, R), NEW k \in Keys
  PROVE  /\ Lists(NewestLast(k), R \cup {k})
         /\ Len(NewestLast(k)) = IF k \in R THEN Len(order) ELSE Len(order) + 1
         /\ Len(NewestLast(k)) > 0
<1> DEFINE left == Without(k)
<1>1. Lists(left, R \ {k}) /\ Len(left) = IF k \in R THEN Len(order) - 1 ELSE Len(order)
  BY WithoutLists
<1>2. NewestLast(k) = Append(left, k)
  BY DEF NewestLast
<1> HIDE DEF left
<1>3. Lists(Append(left, k), (R \ {k}) \cup {k}) /\ Len(Append(left, k)) = Len(left) + 1
  BY <1>1, AppendLists
<1>4. (R \ {k}) \cup {k} = R \cup {k}
  OBVIOUS
<1>5. Lists(NewestLast(k), R \cup {k}) /\ Len(NewestLast(k)) = Len(left) + 1
  BY <1>2, <1>3, <1>4
<1>6. Len(order) \in Nat
  BY ListsLen
<1>7. Len(left) \in Nat
  BY <1>1, ListsLen
<1> HIDE DEF left
<1>8. CASE k \in R
  BY <1>1, <1>5, <1>6, <1>7, <1>8
<1>9. CASE k \notin R
  BY <1>1, <1>5, <1>6, <1>7, <1>9
<1> QED
  BY <1>8, <1>9

LEMMA RowsInit == Init => RowsInv
<1> SUFFICES ASSUME Init PROVE RowsInv
  OBVIOUS
<1>1. order = <<>> /\ age = [k \in Keys |-> Absent]
  BY DEF Init
<1>2. age \in [Keys -> {Absent} \cup 0..AgeCap] /\ Cached = {}
  BY <1>1 DEF Cached
<1>3. order \in Seq(Keys) /\ Len(order) = 0
  BY <1>1, EmptySeq
<1>4. Lists(order, Cached)
  BY <1>2, <1>3, FS_EmptySet DEF Lists
<1> QED
  BY <1>2, <1>3, <1>4, LimitsType DEF RowsInv

LEMMA RowsKept ==
  ASSUME RowsInv, UNCHANGED <<age, order>>
  PROVE  RowsInv'
BY DEF RowsInv, Cached, Lists

\* A hit moves a row that is there.
LEMMA HitKeepsRows ==
  ASSUME RowsInv, NEW c \in Callers, NEW k \in Keys, FromCache(c, k)
  PROVE  RowsInv'
<1>1. k \in Cached /\ order' = NewestLast(k) /\ age' = age
  BY DEF FromCache, Fresh, Cached
<1>2. Lists(order, Cached) /\ Len(order) <= CACHE_MAX_ENTRIES
  BY DEF RowsInv
<1>3. Lists(NewestLast(k), Cached \cup {k}) /\ Len(NewestLast(k)) = Len(order)
  BY <1>1, <1>2, NewestLists
<1>4. Cached \cup {k} = Cached /\ Cached' = Cached
  BY <1>1 DEF Cached
<1>5. Lists(order', Cached')
  BY <1>1, <1>3, <1>4 DEF Lists
<1> QED
  BY <1>1, <1>2, <1>3, <1>5 DEF RowsInv

LEMMA ZeroAge == 0 \in {Absent} \cup 0..AgeCap /\ Absent \in {Absent} \cup 0..AgeCap /\ 0 # Absent
BY AgeCapType DEF Absent

LEMMA PutKeepsRows ==
  ASSUME RowsInv, NEW k \in Keys, Put(k)
  PROVE  RowsInv'
<1> DEFINE queue == NewestLast(k)
<1>1. Lists(order, Cached) /\ Len(order) <= CACHE_MAX_ENTRIES /\ Len(order) \in Nat
  BY ListsLen DEF RowsInv
<1>2. age \in [Keys -> {Absent} \cup 0..AgeCap]
  BY DEF RowsInv
<1>3. /\ Lists(queue, Cached \cup {k})
      /\ Len(queue) <= Len(order) + 1 /\ Len(queue) > 0 /\ Len(queue) \in Nat
  BY <1>1, NewestLists, ListsLen
<1>4. IF Len(queue) <= CACHE_MAX_ENTRIES
      THEN order' = queue /\ age' = [age EXCEPT ![k] = 0]
      ELSE /\ order' = Tail(queue)
           /\ age' = [age EXCEPT ![k] = 0, ![Head(queue)] = Absent]
  BY DEF Put, Evicted
<1> HIDE DEF queue
<1>5. CASE Len(queue) <= CACHE_MAX_ENTRIES
  <2>1. order' = queue /\ age' = [age EXCEPT ![k] = 0]
    BY <1>4, <1>5
  <2>2. age' \in [Keys -> {Absent} \cup 0..AgeCap] /\ Cached' = Cached \cup {k}
    BY <1>2, <2>1, ZeroAge DEF Cached
  <2>3. Lists(order', Cached')
    BY <1>3, <2>1, <2>2
  <2> QED
    BY <1>5, <2>1, <2>2, <2>3 DEF RowsInv, Lists
<1>6. CASE ~(Len(queue) <= CACHE_MAX_ENTRIES)
  <2> DEFINE first == Head(queue)
             rest == Tail(queue)
  <2>1. /\ Lists(rest, (Cached \cup {k}) \ {first})
        /\ Len(rest) = Len(queue) - 1
        /\ first \in Cached \cup {k}
    BY <1>3, TailLists
  <2>2. order' = rest /\ age' = [age EXCEPT ![k] = 0, ![first] = Absent]
    BY <1>4, <1>6
  <2> HIDE DEF first, rest
  <2>3. first \in Keys
    BY <2>1 DEF Cached
  <2>4. age' \in [Keys -> {Absent} \cup 0..AgeCap] /\ Cached' = (Cached \cup {k}) \ {first}
    BY <1>2, <2>2, <2>3, ZeroAge DEF Cached
  <2>5. Lists(order', Cached')
    BY <2>1, <2>2, <2>4
  <2>6. Len(order') <= CACHE_MAX_ENTRIES
    BY <1>1, <1>3, <2>1, <2>2, LimitsType
  <2> QED
    BY <2>4, <2>5, <2>6 DEF RowsInv, Lists
<1> QED
  BY <1>5, <1>6

\* A row past its time is deleted.
LEMMA ResumeKeepsRows ==
  ASSUME RowsInv, NEW c \in Callers, Resume(c)
  PROVE  RowsInv'
<1> DEFINE k == caller[c].key
<1>1. CASE UNCHANGED <<age, order>>
  BY <1>1, RowsKept
<1>2. CASE ~UNCHANGED <<age, order>>
  <2>1. age' = [age EXCEPT ![k] = Absent] /\ order' = Without(k)
    BY <1>2 DEF Resume
  <2>2. Lists(order, Cached) /\ Len(order) <= CACHE_MAX_ENTRIES /\ Len(order) \in Nat
    BY ListsLen DEF RowsInv
  <2> HIDE DEF k
  <2>3. /\ Lists(Without(k), Cached \ {k})
        /\ Len(Without(k)) = IF k \in Cached THEN Len(order) - 1 ELSE Len(order)
    BY <2>2, WithoutLists
  <2>4. age' \in [Keys -> {Absent} \cup 0..AgeCap] /\ Cached' = Cached \ {k}
    BY <2>1, ZeroAge DEF RowsInv, Cached
  <2>5. Lists(order', Cached')
    BY <2>1, <2>3, <2>4
  <2>6. Len(order') <= CACHE_MAX_ENTRIES
    BY <2>1, <2>2, <2>3, LimitsType, ListsLen
  <2> QED
    BY <2>4, <2>5, <2>6 DEF RowsInv, Lists
<1> QED
  BY <1>1, <1>2

LEMMA TickKeepsRows ==
  ASSUME RowsInv, Tick
  PROVE  RowsInv'
<1>1. /\ UNCHANGED order
      /\ age' = [k \in Keys |-> IF age[k] = Absent \/ age[k] = AgeCap
                                THEN age[k] ELSE age[k] + 1]
  BY DEF Tick
<1>2. age \in [Keys -> {Absent} \cup 0..AgeCap]
  BY DEF RowsInv
<1>3. \A k \in Keys : /\ age'[k] \in {Absent} \cup 0..AgeCap
                      /\ age'[k] = Absent <=> age[k] = Absent
  BY <1>1, <1>2, AgeCapType DEF Absent
<1>4. age' \in [Keys -> {Absent} \cup 0..AgeCap] /\ Cached' = Cached
  BY <1>1, <1>3 DEF Cached
<1> QED
  BY <1>1, <1>4 DEF RowsInv, Lists

LEMMA RowsStep == Inv /\ RowsInv /\ [Next]_vars => RowsInv'
<1> SUFFICES ASSUME Inv, RowsInv, [Next]_vars PROVE RowsInv'
  OBVIOUS
<1>1. ASSUME NEW c \in Callers, NEW k \in Keys, FromCache(c, k) \/ Start(c, k) \/ Join(c, k)
      PROVE  RowsInv'
  BY <1>1, HitKeepsRows, RowsKept DEF Start, Join
<1>2. ASSUME NEW c \in Callers, Depart(c) \/ Resume(c) \/ Reply(c) PROVE RowsInv'
  BY <1>2, ResumeKeepsRows, RowsKept DEF Depart, Reply
<1>3. ASSUME NEW t \in Calls, CallStep(t) PROVE RowsInv'
  <2>1. CASE Upstream(t)
    <3>1. calls[t].key \in Keys
      BY <1>3, <2>1 DEF Upstream, Inv, Registered
    <3> QED
      BY <2>1, <3>1, PutKeepsRows, RowsKept DEF Upstream
  <2> QED
    BY <1>3, <2>1, RowsKept DEF CallStep, Acquire, QueueTimeout, Done
<1>4. CASE Tick
  BY <1>4, TickKeepsRows
<1>5. CASE UNCHANGED vars
  BY <1>5, RowsKept DEF vars
<1> QED
  BY <1>1, <1>2, <1>3, <1>4, <1>5 DEF Next

LEMMA RowsInvariance == Spec => []RowsInv
BY InitOK, StepOK, RowsInit, RowsStep, PTL DEF Spec

(************************ the rows that must be there ***********************)

\* Whatever is behind a row that is due has been used after it.
Behind(queue, s) ==
  \A i, j \in 1..Len(queue) :
    i < j /\ queue[i] \notin s[queue[i]] => queue[j] \in s[queue[i]]

Within(short, long) ==
  \A i, j \in 1..Len(short) :
    i < j => \E m, n \in 1..Len(long) : m < n /\ short[i] = long[m] /\ short[j] = long[n]

RecentInv ==
  /\ since \in [Keys -> SUBSET Keys]
  /\ \A k \in Keys :
       Due(k) => /\ age[k] # Absent
                 /\ IsFiniteSet(since[k]) /\ Cardinality(since[k]) < CACHE_MAX_ENTRIES
  /\ Behind(order, since)

LEMMA BehindWithin ==
  ASSUME NEW short, NEW long, NEW s, Behind(long, s), Within(short, long)
  PROVE  Behind(short, s)
<1> SUFFICES ASSUME NEW i \in 1..Len(short), NEW j \in 1..Len(short),
                    i < j, short[i] \notin s[short[i]]
             PROVE  short[j] \in s[short[i]]
  BY DEF Behind
<1>1. \E m, n \in 1..Len(long) : m < n /\ short[i] = long[m] /\ short[j] = long[n]
  BY DEF Within
<1> QED
  BY <1>1 DEF Behind

LEMMA WithoutWithin ==
  ASSUME NEW R, Lists(order, R), NEW k
  PROVE  Within(Without(k), order)
<1>1. Len(order) \in Nat /\ DOMAIN order = 1..Len(order) /\ order \in Seq(Keys)
  BY ListsLen DEF Lists
<1>2. CASE \A i \in DOMAIN order : order[i] # k
  BY <1>1, <1>2 DEF Without, Within
<1>3. CASE \E i \in DOMAIN order : order[i] = k
  <2>1. Place(k) \in 1..Len(order)
    BY <1>1, <1>3 DEF Place
  <2> DEFINE n == Place(k)
             rest == RemoveAt(order, n)
  <2>2. Without(k) = rest
    BY <1>3 DEF Without
  <2>3. /\ Len(rest) = Len(order) - 1 /\ n \in 1..Len(order)
        /\ \A i \in 1..(Len(order) - 1) : rest[i] = order[IF i < n THEN i ELSE i + 1]
    BY <1>1, <2>1, RemoveAtIs
  <2> HIDE DEF n, rest
  <2>4. ASSUME NEW i \in 1..Len(rest), NEW j \in 1..Len(rest), i < j
        PROVE  \E m, p \in 1..Len(order) : m < p /\ rest[i] = order[m] /\ rest[j] = order[p]
    <3> DEFINE m == IF i < n THEN i ELSE i + 1
               p == IF j < n THEN j ELSE j + 1
    <3>1. m \in 1..Len(order) /\ p \in 1..Len(order) /\ m < p
      BY <1>1, <2>3, <2>4
    <3>2. rest[i] = order[m] /\ rest[j] = order[p]
      BY <2>3
    <3> HIDE DEF m, p
    <3> QED
      BY <3>1, <3>2
  <2> QED
    BY <2>2, <2>4 DEF Within
<1> QED
  BY <1>1, <1>2, <1>3

LEMMA TailWithin ==
  ASSUME NEW R, NEW queue, Lists(queue, R), Len(queue) > 0
  PROVE  Within(Tail(queue), queue)
<1>1. Len(queue) \in Nat /\ queue \in Seq(Keys) /\ queue # <<>>
  BY ListsLen, EmptySeq DEF Lists
<1> DEFINE rest == Tail(queue)
<1>2. Len(rest) = Len(queue) - 1 /\ \A i \in 1..Len(rest) : rest[i] = queue[i + 1]
  BY <1>1, HeadTailProperties
<1> HIDE DEF rest
<1>3. ASSUME NEW i \in 1..Len(rest), NEW j \in 1..Len(rest), i < j
      PROVE  \E m, n \in 1..Len(queue) : m < n /\ rest[i] = queue[m] /\ rest[j] = queue[n]
  <2>1. i + 1 \in 1..Len(queue) /\ j + 1 \in 1..Len(queue) /\ i + 1 < j + 1
    BY <1>1, <1>2, <1>3
  <2> QED
    BY <1>2, <2>1
<1> QED
  BY <1>3 DEF Within, rest

\* What a use does to the row used and to the others.
LEMMA UseOf ==
  ASSUME RecentInv, NEW k \in Keys, Uses(k)
  PROVE  /\ since' \in [Keys -> SUBSET Keys] /\ since'[k] = {}
         /\ \A j \in Keys \ {k} : j \notin since'[j] =>
              /\ Due(j) /\ since'[j] = since[j] \cup {k}
              /\ IsFiniteSet(since'[j]) /\ Cardinality(since'[j]) < CACHE_MAX_ENTRIES
<1>1. since \in [Keys -> SUBSET Keys]
  BY DEF RecentInv
<1>2. ASSUME NEW j \in Keys
      PROVE  since'[j] = IF j = k THEN {}
                         ELSE IF Due(j) /\ Cardinality(since[j] \cup {k}) < CACHE_MAX_ENTRIES
                              THEN since[j] \cup {k} ELSE {j}
  BY DEF Uses
<1>3. since' \in [Keys -> SUBSET Keys]
  BY <1>1 DEF Uses
<1>4. ASSUME NEW j \in Keys \ {k}, j \notin since'[j]
      PROVE  /\ Due(j) /\ since'[j] = since[j] \cup {k}
             /\ IsFiniteSet(since'[j]) /\ Cardinality(since'[j]) < CACHE_MAX_ENTRIES
  <2>1. Due(j) /\ Cardinality(since[j] \cup {k}) < CACHE_MAX_ENTRIES
        /\ since'[j] = since[j] \cup {k}
    BY <1>2, <1>4
  <2>2. IsFiniteSet(since[j] \cup {k})
    BY <2>1, FS_AddElement DEF RecentInv
  <2> QED
    BY <2>1, <2>2
<1> QED
  BY <1>2, <1>3, <1>4

LEMMA UsedBehind ==
  ASSUME RecentInv, NEW R, Lists(order, R), NEW k \in Keys, Uses(k)
  PROVE  Behind(NewestLast(k), since')
<1> DEFINE left == Without(k)
           queue == NewestLast(k)
<1>1. Lists(left, R \ {k}) /\ Within(left, order)
  BY WithoutLists, WithoutWithin
<1>2. queue = Append(left, k)
  BY DEF NewestLast
<1> HIDE DEF left, queue
<1>3. Len(left) \in Nat /\ left \in Seq(Keys) /\ \A i \in 1..Len(left) : left[i] \in Keys \ {k}
  BY <1>1, ListsLen DEF Lists
<1>4. /\ Len(queue) = Len(left) + 1 /\ queue[Len(left) + 1] = k
      /\ \A i \in 1..Len(left) : queue[i] = left[i]
  BY <1>2, <1>3, AppendProperties
<1>5. Behind(left, since)
  BY <1>1, BehindWithin DEF RecentInv
<1>6. ASSUME NEW i \in 1..Len(queue), NEW j \in 1..Len(queue), i < j,
             queue[i] \notin since'[queue[i]]
      PROVE  queue[j] \in since'[queue[i]]
  <2>1. i \in 1..Len(left) /\ queue[i] = left[i] /\ left[i] \in Keys \ {k}
    BY <1>3, <1>4, <1>6
  <2>2. Due(left[i]) /\ since'[left[i]] = since[left[i]] \cup {k}
    BY <1>6, <2>1, UseOf
  <2>3. CASE j = Len(left) + 1
    BY <1>4, <2>1, <2>2, <2>3
  <2>4. CASE j # Len(left) + 1
    <3>1. j \in 1..Len(left) /\ queue[j] = left[j]
      BY <1>3, <1>4, <2>4
    <3>2. left[j] \in since[left[i]]
      BY <1>5, <1>6, <2>1, <2>2, <3>1 DEF Behind, Due
    <3> QED
      BY <2>1, <2>2, <3>1, <3>2
  <2> QED
    BY <2>3, <2>4
<1> QED
  BY <1>6 DEF Behind, queue

LEMMA RecentInit == HistoryInit => RecentInv
<1> SUFFICES ASSUME HistoryInit PROVE RecentInv
  OBVIOUS
<1>1. order = <<>> /\ since = [k \in Keys |-> {k}]
  BY DEF HistoryInit, Init
<1>2. since \in [Keys -> SUBSET Keys] /\ \A k \in Keys : ~Due(k)
  BY <1>1 DEF Due
<1>3. Behind(order, since)
  BY <1>1, EmptySeq DEF Behind
<1> QED
  BY <1>2, <1>3 DEF RecentInv

LEMMA RecentKept ==
  ASSUME RecentInv, UNCHANGED <<order, since>>, {k \in Keys : age'[k] # Absent} = Cached
  PROVE  RecentInv'
<1>1. \A k \in Keys : age[k] # Absent => age'[k] # Absent
  BY DEF Cached
<1>2. \A k \in Keys : Due(k)' = Due(k)
  BY DEF Due
<1> QED
  BY <1>1, <1>2 DEF RecentInv, Behind

LEMMA HitKeepsRecent ==
  ASSUME RowsInv, RecentInv, NEW c \in Callers, NEW k \in Keys, FromCache(c, k), Uses(k)
  PROVE  RecentInv'
<1>1. k \in Cached /\ order' = NewestLast(k) /\ age' = age /\ age[k] # Absent
  BY DEF FromCache, Fresh, Cached
<1>2. Behind(order', since')
  BY <1>1, UsedBehind DEF RowsInv
<1>3. IsFiniteSet({}) /\ Cardinality({}) < CACHE_MAX_ENTRIES
  BY FS_EmptySet, LimitsType
<1>4. ASSUME NEW j \in Keys, j \notin since'[j]
      PROVE  /\ age'[j] # Absent
             /\ IsFiniteSet(since'[j]) /\ Cardinality(since'[j]) < CACHE_MAX_ENTRIES
  <2>1. CASE j = k
    BY <1>1, <1>3, <2>1, UseOf
  <2>2. CASE j # k
    BY <1>1, <1>4, <2>2, UseOf DEF RecentInv
  <2> QED
    BY <2>1, <2>2
<1>5. since' \in [Keys -> SUBSET Keys]
  BY UseOf
<1> QED
  BY <1>2, <1>4, <1>5 DEF RecentInv, Due

LEMMA PutKeepsRecent ==
  ASSUME RowsInv, RecentInv, NEW k \in Keys, Put(k), Uses(k)
  PROVE  RecentInv'
<1> DEFINE queue == NewestLast(k)
<1>1. Lists(order, Cached) /\ Len(order) <= CACHE_MAX_ENTRIES /\ Len(order) \in Nat
  BY ListsLen DEF RowsInv
<1>2. age \in [Keys -> {Absent} \cup 0..AgeCap]
  BY DEF RowsInv
<1>3. /\ Lists(queue, Cached \cup {k}) /\ Behind(queue, since')
      /\ Len(queue) <= Len(order) + 1 /\ Len(queue) > 0 /\ Len(queue) \in Nat
  BY <1>1, NewestLists, ListsLen, UsedBehind
<1>4. IF Len(queue) <= CACHE_MAX_ENTRIES
      THEN order' = queue /\ age' = [age EXCEPT ![k] = 0]
      ELSE /\ order' = Tail(queue)
           /\ age' = [age EXCEPT ![k] = 0, ![Head(queue)] = Absent]
  BY DEF Put, Evicted
<1> HIDE DEF queue
<1>5. since' \in [Keys -> SUBSET Keys]
  BY UseOf
<1>6. ASSUME NEW j \in Keys, j \notin since'[j]
      PROVE  /\ IsFiniteSet(since'[j]) /\ Cardinality(since'[j]) < CACHE_MAX_ENTRIES
             /\ j = k \/ age[j] # Absent
  <2>1. CASE j = k
    BY <2>1, UseOf, FS_EmptySet, LimitsType
  <2>2. CASE j # k
    BY <1>6, <2>2, UseOf DEF RecentInv
  <2> QED
    BY <2>1, <2>2
<1>7. CASE Len(queue) <= CACHE_MAX_ENTRIES
  <2>1. order' = queue /\ age' = [age EXCEPT ![k] = 0]
    BY <1>4, <1>7
  <2>2. \A j \in Keys : j = k \/ age[j] # Absent => age'[j] # Absent
    BY <1>2, <2>1, ZeroAge
  <2>3. \A j \in Keys : Due(j)' => /\ age'[j] # Absent /\ IsFiniteSet(since'[j])
                                   /\ Cardinality(since'[j]) < CACHE_MAX_ENTRIES
    BY <1>6, <2>2 DEF Due
  <2>4. Behind(order', since')
    BY <1>3, <2>1
  <2> QED
    BY <1>5, <2>3, <2>4 DEF RecentInv
<1>8. CASE ~(Len(queue) <= CACHE_MAX_ENTRIES)
  <2> DEFINE first == Head(queue)
             rest == Tail(queue)
             others == (Cached \cup {k}) \ {first}
  <2>a. Lists(rest, others) /\ Len(rest) = Len(queue) - 1 /\ first \in Cached \cup {k}
    BY <1>3, TailLists
  <2>b. Within(rest, queue)
    BY <1>3, TailWithin
  <2>c. queue \in Seq(Keys)
    BY <1>3 DEF Lists
  <2>1. /\ Lists(rest, others) /\ Len(rest) = Len(queue) - 1
        /\ first \in Cached \cup {k} /\ Within(rest, queue) /\ first = queue[1]
    BY <1>3, <2>a, <2>b, <2>c
  <2>2. order' = rest /\ age' = [age EXCEPT ![k] = 0, ![first] = Absent]
    BY <1>4, <1>8
  <2>3. \A i \in 1..Len(rest) : rest[i] = queue[i + 1]
    BY <1>3, HeadTailProperties, EmptySeq DEF Lists
  <2> HIDE DEF first, rest, others
  <2>4. first \in Keys
    BY <2>1 DEF Cached
  <2>5. Len(rest) = CACHE_MAX_ENTRIES /\ CACHE_MAX_ENTRIES \in Nat
    BY <1>1, <1>3, <1>8, <2>1, LimitsType
  \* Everything that stays was used after the row that goes: it was not due.
  <2>6. first \in since'[first]
    <3> SUFFICES ASSUME first \notin since'[first] PROVE FALSE
      OBVIOUS
    <3>1. \A i \in 1..Len(rest) : rest[i] \in since'[first]
      <4> SUFFICES ASSUME NEW i \in 1..Len(rest) PROVE rest[i] \in since'[first]
        OBVIOUS
      <4>1. 1 \in 1..Len(queue) /\ i + 1 \in 1..Len(queue) /\ 1 < i + 1
        BY <1>3, <2>1
      <4> QED
        BY <1>3, <2>1, <2>3, <4>1 DEF Behind
    <3>2. others \subseteq since'[first]
      BY <2>1, <3>1 DEF Lists
    <3>3. IsFiniteSet(since'[first]) /\ Cardinality(since'[first]) < CACHE_MAX_ENTRIES
      BY <1>6, <2>4
    <3>4. IsFiniteSet(others) /\ Cardinality(others) = CACHE_MAX_ENTRIES
      BY <2>1, <2>5 DEF Lists
    <3>5. Cardinality(others) <= Cardinality(since'[first]) /\ Cardinality(since'[first]) \in Nat
      BY <3>2, <3>3, FS_Subset, FS_CardinalityType
    <3> QED
      BY <2>5, <3>3, <3>4, <3>5
  <2>7. \A j \in Keys \ {first} : j = k \/ age[j] # Absent => age'[j] # Absent
    BY <1>2, <2>2, ZeroAge
  <2>8. \A j \in Keys : Due(j)' => /\ age'[j] # Absent /\ IsFiniteSet(since'[j])
                                   /\ Cardinality(since'[j]) < CACHE_MAX_ENTRIES
    BY <1>6, <2>6, <2>7 DEF Due
  <2>9. Behind(order', since')
    BY <1>3, <2>1, <2>2, BehindWithin
  <2> QED
    BY <1>5, <2>8, <2>9 DEF RecentInv
<1> QED
  BY <1>7, <1>8

LEMMA Emptied ==
  ASSUME NEW S, NEW f \in [S -> SUBSET S], NEW k \in S
  PROVE  [f EXCEPT ![k] = {k}] \in [S -> SUBSET S]
<1>1. {k} \in SUBSET S
  OBVIOUS
<1> QED
  BY <1>1

LEMMA ResumeKeepsRecent ==
  ASSUME RowsInv, RecentInv, NEW c \in Callers, Resume(c),
         since' = IF Outlived(c) THEN [since EXCEPT ![caller[c].key] = {caller[c].key}] ELSE since
  PROVE  RecentInv'
<1> DEFINE k == caller[c].key
<1>1. since \in [Keys -> SUBSET Keys] /\ Behind(order, since) /\ age \in [Keys -> {Absent} \cup 0..AgeCap]
  BY DEF RecentInv, RowsInv
<1>2. since' = since \/ (Outlived(c) /\ since' = [since EXCEPT ![k] = {k}])
  OBVIOUS
<1>3. UNCHANGED <<age, order>> \/ (Outlived(c) /\ age' = [age EXCEPT ![k] = Absent] /\ order' = Without(k))
  BY DEF Resume, Outlived, TooOld
<1>4. Outlived(c) <=> since' = [since EXCEPT ![k] = {k}] /\ Outlived(c)
  OBVIOUS
<1> HIDE DEF k
<1>5. since' \in [Keys -> SUBSET Keys]
      /\ \A j \in Keys : j \notin since'[j] => since'[j] = since[j] /\ j \notin since[j]
  <2>1. CASE since' = since
    BY <1>1, <2>1
  <2>2. CASE since' = [since EXCEPT ![k] = {k}]
    <3>1. \A j \in Keys : since'[j] = IF j = k THEN {k} ELSE since[j]
      BY <1>1, <2>2
    <3>2. ASSUME k \in Keys PROVE since' \in [Keys -> SUBSET Keys]
      BY ONLY <1>1, <2>2, <3>2, Emptied
    <3>3. ASSUME k \notin Keys PROVE since' = since
      BY <1>1, <2>2, <3>3
    <3> QED
      BY <1>1, <3>1, <3>2, <3>3
  <2> QED
    BY <1>2, <2>1, <2>2
<1>6. Within(order', order)
  <2>1. CASE order' = order
    BY <2>1 DEF Within
  <2>2. CASE order' = Without(k)
    BY <2>2, WithoutWithin DEF RowsInv
  <2> QED
    BY <1>3, <2>1, <2>2
<1>7. Behind(order', since)
  BY <1>1, <1>6, BehindWithin
<1>8. \A i \in 1..Len(order') : order'[i] \in Keys
  <2>1. order \in Seq(Keys) /\ Without(k) \in Seq(Keys)
    BY WithoutLists DEF RowsInv, Lists
  <2> QED
    BY <1>3, <2>1
<1>9. Behind(order', since')
  BY <1>5, <1>7, <1>8 DEF Behind
<1>10. \A j \in Keys : j \notin since'[j] => age'[j] = age[j]
  BY <1>1, <1>2, <1>3, <1>4
<1>11. \A j \in Keys : Due(j)' => /\ age'[j] # Absent /\ IsFiniteSet(since'[j])
                                  /\ Cardinality(since'[j]) < CACHE_MAX_ENTRIES
  BY <1>5, <1>10 DEF Due, RecentInv
<1> QED
  BY <1>5, <1>9, <1>11 DEF RecentInv

LEMMA HistoryStep ==
  Inv /\ RowsInv /\ RecentInv /\ [HistoryNext]_historyVars => RecentInv' /\ [Next]_vars
<1> SUFFICES ASSUME Inv, RowsInv, RecentInv, [HistoryNext]_historyVars
             PROVE  RecentInv' /\ [Next]_vars
  OBVIOUS
<1>1. ASSUME NEW c \in Callers, NEW k \in Keys, FromCache(c, k), Uses(k)
      PROVE  RecentInv' /\ Next
  BY <1>1, HitKeepsRecent DEF Next
<1>2. ASSUME NEW c \in Callers, NEW k \in Keys, Start(c, k) \/ Join(c, k), UNCHANGED since
      PROVE  RecentInv' /\ Next
  <2>1. UNCHANGED <<age, order>>
    BY <1>2 DEF Start, Join
  <2> QED
    BY <1>2, <2>1, RecentKept DEF Cached, Next
<1>3. ASSUME NEW c \in Callers, Depart(c) \/ Reply(c), UNCHANGED since
      PROVE  RecentInv' /\ Next
  <2>1. UNCHANGED <<age, order>>
    BY <1>3 DEF Depart, Reply
  <2> QED
    BY <1>3, <2>1, RecentKept DEF Cached, Next
<1>4. ASSUME NEW c \in Callers, Resume(c),
             since' = IF Outlived(c)
                      THEN [since EXCEPT ![caller[c].key] = {caller[c].key}] ELSE since
      PROVE  RecentInv' /\ Next
  BY <1>4, ResumeKeepsRecent DEF Next
<1>5. ASSUME NEW t \in Calls, Acquire(t) \/ QueueTimeout(t) \/ Done(t), UNCHANGED since
      PROVE  RecentInv' /\ Next
  <2>1. UNCHANGED <<age, order>>
    BY <1>5 DEF Acquire, QueueTimeout, Done
  <2> QED
    BY <1>5, <2>1, RecentKept DEF Cached, Next, CallStep
<1>6. ASSUME NEW t \in Calls, Upstream(t),
             IF calls'[t].out = "results" THEN Uses(calls[t].key) ELSE UNCHANGED since
      PROVE  RecentInv' /\ Next
  <2>1. calls[t].at # "free" /\ calls[t].key \in Keys /\ calls \in [Calls -> CallType]
    BY <1>6 DEF Upstream, Inv, Registered, CallsInv
  <2>2. PICK out \in Answers \cup {"failed"} :
          /\ calls' = [calls EXCEPT ![t].at = "ended", ![t].out = out]
          /\ IF Kept(out) THEN Put(calls[t].key) ELSE UNCHANGED <<age, order>>
    BY <1>6 DEF Upstream, Ends
  <2>3. calls'[t].out = out
    BY <2>1, <2>2 DEF CallType
  <2>4. ASSUME out = "results" PROVE RecentInv'
    <3>1. Put(calls[t].key) /\ Uses(calls[t].key)
      BY <1>6, <2>2, <2>3, <2>4 DEF Kept
    <3> QED
      BY <2>1, <3>1, PutKeepsRecent
  <2>5. ASSUME out # "results" PROVE RecentInv'
    <3>1. UNCHANGED <<age, order, since>>
      BY <1>6, <2>2, <2>3, <2>5 DEF Kept
    <3> QED
      BY <3>1, RecentKept DEF Cached
  <2>6. Next
    BY <1>6 DEF Next, CallStep
  <2> QED
    BY <2>4, <2>5, <2>6
<1>7. ASSUME Tick, UNCHANGED since PROVE RecentInv' /\ Next
  <2>1. \A k \in Keys : age'[k] # Absent <=> age[k] # Absent
    BY <1>7, AgeCapType DEF Tick, RowsInv, Absent
  <2>2. order' = order
    BY <1>7 DEF Tick
  <2> QED
    BY <1>7, <2>1, <2>2, RecentKept DEF Cached, Next
<1>8. CASE UNCHANGED historyVars
  BY <1>8, RecentKept DEF historyVars, vars, Cached
<1> QED
  BY <1>1, <1>2, <1>3, <1>4, <1>5, <1>6, <1>7, <1>8 DEF HistoryNext

\* ResultCache.put and fresh: for any keys, ages and limit, whatever was put, hit,
\* evicted and deleted before, no row goes before CACHE_MAX_ENTRIES other keys have
\* been used after it, unless a lookup found it past its stale time; and the cache
\* never holds more rows than that.
THEOREM CacheKeepsRecent == HistorySpec => []RecentlyUsedStay
<1>1. HistoryInit => Inv /\ RowsInv /\ RecentInv
  BY InitOK, RowsInit, RecentInit DEF HistoryInit
<1>2. (Inv /\ RowsInv /\ RecentInv) /\ [HistoryNext]_historyVars => (Inv /\ RowsInv /\ RecentInv)'
  BY HistoryStep, StepOK, RowsStep
<1>3. RowsInv /\ RecentInv => RecentlyUsedStay
  BY DEF RowsInv, RecentInv, Lists, Cached, RecentlyUsedStay
<1> QED
  BY <1>1, <1>2, <1>3, PTL DEF HistorySpec

(************************ an error only without a row ***********************)

CallerType ==
  [at : {"away", "waiting", "resuming", "answered"}, key : Keys \cup {None},
   call : Calls \cup {None},
   got : Answers \cup Errors \cup {"none", "fresh", "stale"}]

Running(t) == calls[t].at \in {"queued", "upstream"}

\* A registered task is there, and is the key's.
Known == \A k \in Keys : inflight[k] # None =>
           calls[inflight[k]].at # "free" /\ calls[inflight[k]].key = k

\* Whoever waits, waits for a task that runs, for its own key.
WaitersInv == \A c \in Callers : caller[c].at = "waiting" =>
  /\ caller[c].key \in Keys /\ caller[c].call \in Calls
  /\ Running(caller[c].call) /\ calls[caller[c].call].key = caller[c].key

\* A task was started without a fresh row, and until it brings one there is none.
NoRowYet == \A t \in Calls :
  Running(t) \/ (calls[t].at = "ended" /\ calls[t].out \in Errors)
  => ~Fresh(calls[t].key)

\* So the row that a caller finds after an error is past CACHE_TTL_S, gone, or
\* was put this very turn, by a later task for the key.
SettledAge(a) == a = Absent \/ a = 0 \/ a > CACHE_TTL_S

LateRows == \A c \in Callers : caller[c].at = "resuming" =>
  /\ caller[c].key \in Keys
  /\ caller[c].got \in Errors => SettledAge(age[caller[c].key])

StaleInv ==
  /\ caller \in [Callers -> CallerType]
  /\ Known /\ WaitersInv /\ NoRowYet /\ LateRows

LEMMA StaleInit == Init => StaleInv
<1> SUFFICES ASSUME Init PROVE StaleInv
  OBVIOUS
<1>1. caller \in [Callers -> CallerType] /\ \A c \in Callers : caller[c].at = "away"
  BY DEF Init, Away, CallerType
<1>2. \A t \in Calls : calls[t].at = "free"
  BY DEF Init, NoCall
<1>3. Known
  BY DEF Known, Init
<1> QED
  BY <1>1, <1>2, <1>3 DEF StaleInv, WaitersInv, NoRowYet, LateRows, Running

\* One caller moves, and no row appears or grows older.
LEMMA CallerMoves ==
  ASSUME StaleInv, NEW c \in Callers, NEW r \in CallerType,
         caller' = [caller EXCEPT ![c] = r], UNCHANGED <<inflight, calls>>,
         \A k \in Keys : age'[k] = age[k] \/ age'[k] = Absent,
         Inv,
         r.at = "waiting" => /\ r.key \in Keys /\ r.call \in Calls
                             /\ Running(r.call) /\ calls[r.call].key = r.key,
         r.at = "resuming" => /\ r.key \in Keys
                              /\ r.got \in Errors => SettledAge(age[r.key])
  PROVE  StaleInv'
<1>1. /\ caller' \in [Callers -> CallerType] /\ caller'[c] = r
      /\ \A d \in Callers : d # c => caller'[d] = caller[d]
  BY DEF StaleInv
<1>2. Known'
  BY DEF StaleInv, Known
<1>3. WaitersInv'
  BY <1>1 DEF StaleInv, WaitersInv, Running
<1>4. NoRowYet'
  <2> SUFFICES ASSUME NEW t \in Calls,
                      Running(t) \/ (calls[t].at = "ended" /\ calls[t].out \in Errors)
               PROVE  ~(Fresh(calls[t].key))'
    BY DEF NoRowYet, Running
  <2>1. calls[t].key \in Keys
    BY DEF Inv, Registered, Running
  <2>2. ~Fresh(calls[t].key)
    BY DEF StaleInv, NoRowYet
  <2>3. age'[calls[t].key] = age[calls[t].key] \/ age'[calls[t].key] = Absent
    BY <2>1
  <2> QED
    BY <2>2, <2>3 DEF Fresh
<1>5. LateRows'
  <2> SUFFICES ASSUME NEW d \in Callers, caller'[d].at = "resuming"
               PROVE  /\ caller'[d].key \in Keys
                      /\ caller'[d].got \in Errors => SettledAge(age'[caller'[d].key])
    BY DEF LateRows, SettledAge
  <2>1. /\ caller'[d].key \in Keys
        /\ caller'[d].got \in Errors => SettledAge(age[caller'[d].key])
    BY <1>1 DEF StaleInv, LateRows
  <2>2. age'[caller'[d].key] = age[caller'[d].key] \/ age'[caller'[d].key] = Absent
    BY <2>1
  <2> QED
    BY <2>1, <2>2 DEF SettledAge
<1> QED
  BY <1>1, <1>2, <1>3, <1>4, <1>5 DEF StaleInv

LEMMA SettledIfNotFresh ==
  ASSUME RowsInv, NEW k \in Keys, ~Fresh(k)
  PROVE  SettledAge(age[k])
BY LimitsType DEF SettledAge, Fresh, RowsInv, Absent

LEMMA StartStale ==
  ASSUME Inv, StaleInv, NEW c \in Callers, NEW k \in Keys, Start(c, k)
  PROVE  StaleInv'
<1>1. PICK t \in Calls :
        /\ calls[t].at = "free"
        /\ calls' = [calls EXCEPT ![t] = Queued(k)]
        /\ inflight' = [inflight EXCEPT ![k] = t]
        /\ caller' = [caller EXCEPT ![c] = Waiting(k, t)]
  BY DEF Start
<1>2. UNCHANGED age /\ ~Fresh(k) /\ inflight[k] = None
  BY DEF Start, Alone
<1>3. /\ calls'[t].at = "queued" /\ calls'[t].key = k
      /\ \A u \in Calls : u # t => calls'[u] = calls[u]
  BY <1>1 DEF Inv, CallsInv, Queued
<1>4. /\ inflight'[k] = t
      /\ \A j \in Keys : j # k => inflight'[j] = inflight[j]
  BY <1>1 DEF Inv, CallsInv
<1>5. /\ caller' \in [Callers -> CallerType]
      /\ caller'[c].at = "waiting" /\ caller'[c].key = k /\ caller'[c].call = t
      /\ \A d \in Callers : d # c => caller'[d] = caller[d]
  BY <1>1 DEF StaleInv, CallerType, Waiting
<1>6. Known'
  <2> SUFFICES ASSUME NEW j \in Keys, inflight'[j] # None
               PROVE  calls'[inflight'[j]].at # "free" /\ calls'[inflight'[j]].key = j
    BY DEF Known
  <2>1. CASE j = k
    BY <1>3, <1>4, <2>1
  <2>2. CASE j # k
    <3>1. /\ inflight[j] \in Calls /\ calls[inflight[j]].at # "free"
          /\ calls[inflight[j]].key = j
      BY <1>4, <2>2 DEF StaleInv, Known, Inv, CallsInv
    <3>2. inflight[j] # t
      BY <1>1, <3>1
    <3> QED
      BY <1>3, <1>4, <2>2, <3>1, <3>2
  <2> QED
    BY <2>1, <2>2
<1>7. WaitersInv'
  <2> SUFFICES ASSUME NEW d \in Callers, caller'[d].at = "waiting"
               PROVE  /\ caller'[d].key \in Keys /\ caller'[d].call \in Calls
                      /\ calls'[caller'[d].call].at \in {"queued", "upstream"}
                      /\ calls'[caller'[d].call].key = caller'[d].key
    BY DEF WaitersInv, Running
  <2>1. CASE d = c
    BY <1>3, <1>5, <2>1
  <2>2. CASE d # c
    <3>1. /\ caller[d].key \in Keys /\ caller[d].call \in Calls
          /\ calls[caller[d].call].at \in {"queued", "upstream"}
          /\ calls[caller[d].call].key = caller[d].key
      BY <1>5, <2>2 DEF StaleInv, WaitersInv, Running
    <3> QED
      BY <1>1, <1>3, <1>5, <2>2, <3>1
  <2> QED
    BY <2>1, <2>2
<1>8. NoRowYet'
  BY <1>2, <1>3 DEF StaleInv, NoRowYet, Running, Fresh
<1>9. LateRows'
  BY <1>2, <1>5 DEF StaleInv, LateRows
<1> QED
  BY <1>5, <1>6, <1>7, <1>8, <1>9 DEF StaleInv

LEMMA JoinStale ==
  ASSUME Inv, RowsInv, StaleInv, NEW c \in Callers, NEW k \in Keys, Join(c, k)
  PROVE  StaleInv'
<1> DEFINE t == inflight[k]
<1>1. /\ ~Fresh(k) /\ t # None /\ UNCHANGED <<age, inflight, calls>>
      /\ caller' = [caller EXCEPT ![c] =
                      IF calls[t].at = "ended" THEN Resuming(k, calls[t].out) ELSE Waiting(k, t)]
  BY DEF Join, Alone
<1>2. t \in Calls /\ calls[t].at # "free" /\ calls[t].key = k
  BY <1>1 DEF Inv, CallsInv, StaleInv, Known
<1>3. calls[t] \in CallType
  BY <1>2 DEF Inv, CallsInv
<1>a. UNCHANGED <<inflight, calls>> /\ \A j \in Keys : age'[j] = age[j] \/ age'[j] = Absent
  BY <1>1
<1> HIDE DEF t
<1>4. CASE calls[t].at = "ended"
  <2> DEFINE r == Resuming(k, calls[t].out)
  <2>1. r \in CallerType /\ r.at = "resuming" /\ r.at # "waiting" /\ r.key = k
    BY <1>3 DEF Resuming, CallerType, CallType
  <2>2. SettledAge(age[k])
    BY <1>1, SettledIfNotFresh
  <2>3. caller' = [caller EXCEPT ![c] = r]
    BY <1>1, <1>4
  <2> HIDE DEF r
  <2> QED
    BY <1>a, <2>1, <2>2, <2>3, CallerMoves
<1>5. CASE calls[t].at # "ended"
  <2> DEFINE r == Waiting(k, t)
  <2>1. /\ r \in CallerType /\ r.at = "waiting" /\ r.at # "resuming"
        /\ r.key = k /\ r.call = t
    BY <1>2 DEF Waiting, CallerType
  <2>2. Running(t)
    BY <1>2, <1>3, <1>5 DEF Running, CallType
  <2>3. caller' = [caller EXCEPT ![c] = r]
    BY <1>1, <1>5
  <2> HIDE DEF r
  <2> QED
    BY <1>a, <1>2, <2>1, <2>2, <2>3, CallerMoves
<1> QED
  BY <1>4, <1>5

\* A task ends; only a task that brings results puts a row, for its key.
LEMMA EndStale ==
  ASSUME Inv, RowsInv, StaleInv, Inv',
         NEW t \in Calls, Running(t), NEW out \in Answers \cup Errors,
         Ends(t, out), UNCHANGED inflight,
         \A k \in Keys : \/ age'[k] = age[k] \/ age'[k] = Absent
                         \/ k = calls[t].key /\ age'[k] = 0 /\ out \notin Errors
  PROVE  StaleInv'
<1>1. /\ calls' = [calls EXCEPT ![t].at = "ended", ![t].out = out]
      /\ caller' = [c \in Callers |->
           IF caller[c].at = "waiting" /\ caller[c].call = t
           THEN Resuming(caller[c].key, out) ELSE caller[c]]
  BY DEF Ends
<1>2. /\ calls'[t].at = "ended" /\ calls'[t].key = calls[t].key /\ calls'[t].out = out
      /\ \A u \in Calls : u # t => calls'[u] = calls[u]
  <2>1. calls[t] \in CallType /\ calls \in [Calls -> CallType]
    BY DEF Inv, CallsInv
  <2> QED
    BY <1>1, <2>1 DEF CallType
<1>3. calls[t].key \in Keys /\ ~Fresh(calls[t].key)
  BY DEF Inv, Registered, Running, StaleInv, NoRowYet
<1>4. ASSUME NEW c \in Callers
      PROVE  \/ /\ caller[c].at = "waiting" /\ caller[c].call = t
                /\ caller[c].key = calls[t].key
                /\ caller'[c] = Resuming(calls[t].key, out)
             \/ /\ caller'[c] = caller[c]
                /\ ~(caller[c].at = "waiting" /\ caller[c].call = t)
  BY <1>1, <1>4 DEF StaleInv, WaitersInv
<1>5. Resuming(calls[t].key, out) \in CallerType
  BY <1>3 DEF Resuming, CallerType
<1>6. caller' \in [Callers -> CallerType]
  <2>1. \A c \in Callers : caller'[c] \in CallerType
    BY <1>4, <1>5 DEF StaleInv
  <2> QED
    BY <1>1, <2>1
<1>7. Known'
  BY <1>2 DEF StaleInv, Known, Inv, CallsInv
<1>8. WaitersInv'
  <2> SUFFICES ASSUME NEW c \in Callers, caller'[c].at = "waiting"
               PROVE  /\ caller'[c].key \in Keys /\ caller'[c].call \in Calls
                      /\ calls'[caller'[c].call].at \in {"queued", "upstream"}
                      /\ calls'[caller'[c].call].key = caller'[c].key
    BY DEF WaitersInv, Running
  <2>1. caller'[c] = caller[c] /\ caller[c].call # t
    BY <1>4 DEF Resuming
  <2>2. /\ caller[c].key \in Keys /\ caller[c].call \in Calls
        /\ calls[caller[c].call].at \in {"queued", "upstream"}
        /\ calls[caller[c].call].key = caller[c].key
    BY <2>1 DEF StaleInv, WaitersInv, Running
  <2> QED
    BY <1>2, <2>1, <2>2
<1>9. NoRowYet'
  <2> SUFFICES ASSUME NEW u \in Calls,
                      \/ calls'[u].at \in {"queued", "upstream"}
                      \/ calls'[u].at = "ended" /\ calls'[u].out \in Errors
               PROVE  ~(age'[calls'[u].key] # Absent /\ age'[calls'[u].key] <= CACHE_TTL_S)
    BY DEF NoRowYet, Running, Fresh
  <2>1. CASE u = t
    <3>1. out \in Errors
      BY <1>2, <2>1
    <3>2. age'[calls[t].key] = age[calls[t].key] \/ age'[calls[t].key] = Absent
      BY <1>3, <3>1
    <3> QED
      BY <1>2, <1>3, <2>1, <3>2 DEF Fresh
  <2>2. CASE u # t
    <3>1. calls[u].key \in Keys /\ calls[u].key # calls[t].key
      BY <1>2, <2>2 DEF Inv, Registered, Running
    <3>2. ~Fresh(calls[u].key)
      BY <1>2, <2>2 DEF StaleInv, NoRowYet, Running
    <3>3. age'[calls[u].key] = age[calls[u].key] \/ age'[calls[u].key] = Absent
      BY <3>1
    <3> QED
      BY <1>2, <2>2, <3>2, <3>3 DEF Fresh
  <2> QED
    BY <2>1, <2>2
<1>10. LateRows'
  <2> SUFFICES ASSUME NEW c \in Callers, caller'[c].at = "resuming"
               PROVE  /\ caller'[c].key \in Keys
                      /\ caller'[c].got \in Errors => SettledAge(age'[caller'[c].key])
    BY DEF LateRows, SettledAge
  <2>1. CASE caller'[c] = Resuming(calls[t].key, out)
    <3>1. caller'[c].key = calls[t].key /\ caller'[c].got = out
      BY <2>1 DEF Resuming
    <3>2. SettledAge(age[calls[t].key])
      BY <1>3, SettledIfNotFresh
    <3>3. age'[calls[t].key] \in {age[calls[t].key], Absent, 0}
      BY <1>3
    <3> QED
      BY <1>3, <3>1, <3>2, <3>3 DEF SettledAge
  <2>2. CASE caller'[c] = caller[c]
    <3>1. /\ caller[c].key \in Keys
          /\ caller[c].got \in Errors => SettledAge(age[caller[c].key])
      BY <2>2 DEF StaleInv, LateRows
    <3>2. age'[caller[c].key] \in {age[caller[c].key], Absent, 0}
      BY <3>1
    <3> QED
      BY <2>2, <3>1, <3>2 DEF SettledAge
  <2> QED
    BY <1>4, <2>1, <2>2
<1> QED
  BY <1>6, <1>7, <1>8, <1>9, <1>10 DEF StaleInv

LEMMA UpstreamStale ==
  ASSUME Inv, RowsInv, StaleInv, Inv', NEW t \in Calls, Upstream(t)
  PROVE  StaleInv'
<1>1. PICK out \in Answers \cup {"failed"} :
        /\ Ends(t, out)
        /\ IF Kept(out) THEN Put(calls[t].key) ELSE UNCHANGED <<age, order>>
  BY DEF Upstream
<1>2. Running(t) /\ UNCHANGED inflight /\ out \in Answers \cup Errors
  BY DEF Upstream, Running, Errors
<1>3. calls[t].key \in Keys
  BY <1>2 DEF Inv, Registered, Running
<1>4. age \in [Keys -> {Absent} \cup 0..AgeCap]
  BY DEF RowsInv
<1>5. CASE Kept(out)
  <2>1. Put(calls[t].key) /\ out \notin Errors
    BY <1>1, <1>5 DEF Kept, Errors
  <2>2. \A k \in Keys : \/ age'[k] = age[k] \/ age'[k] = Absent
                        \/ k = calls[t].key /\ age'[k] = 0
    BY <1>4, <2>1 DEF Put
  <2> QED
    BY <1>1, <1>2, <2>1, <2>2, EndStale
<1>6. CASE ~Kept(out)
  BY <1>1, <1>2, <1>6, EndStale
<1> QED
  BY <1>5, <1>6

LEMMA AcquireStale ==
  ASSUME Inv, StaleInv, NEW t \in Calls, Acquire(t)
  PROVE  StaleInv'
<1>1. /\ calls[t].at = "queued" /\ calls' = [calls EXCEPT ![t].at = "upstream"]
      /\ UNCHANGED <<age, inflight, caller>>
  BY DEF Acquire
<1>2. /\ calls'[t].at = "upstream" /\ calls'[t].key = calls[t].key
      /\ calls'[t].out = calls[t].out
      /\ \A u \in Calls : u # t => calls'[u] = calls[u]
  BY <1>1 DEF Inv, CallsInv, CallType
<1>3. Known'
  BY <1>1, <1>2 DEF StaleInv, Known, Inv, CallsInv
<1>4. WaitersInv'
  <2> SUFFICES ASSUME NEW c \in Callers, caller[c].at = "waiting"
               PROVE  /\ caller[c].key \in Keys /\ caller[c].call \in Calls
                      /\ calls'[caller[c].call].at \in {"queued", "upstream"}
                      /\ calls'[caller[c].call].key = caller[c].key
    BY <1>1 DEF WaitersInv, Running
  <2>1. /\ caller[c].key \in Keys /\ caller[c].call \in Calls
        /\ calls[caller[c].call].at \in {"queued", "upstream"}
        /\ calls[caller[c].call].key = caller[c].key
    BY DEF StaleInv, WaitersInv, Running
  <2> QED
    BY <1>2, <2>1
<1>5. NoRowYet'
  BY <1>1, <1>2 DEF StaleInv, NoRowYet, Running, Fresh
<1>6. LateRows'
  BY <1>1 DEF StaleInv, LateRows
<1> QED
  BY <1>1, <1>3, <1>4, <1>5, <1>6 DEF StaleInv

LEMMA DoneStale ==
  ASSUME Inv, StaleInv, NEW t \in Calls, Done(t)
  PROVE  StaleInv'
<1>1. /\ calls[t].at = "ended" /\ calls' = [calls EXCEPT ![t] = NoCall]
      /\ inflight' = [k \in Keys |-> IF inflight[k] = t THEN None ELSE inflight[k]]
      /\ UNCHANGED <<age, caller>>
  BY DEF Done
<1>2. calls'[t].at = "free" /\ \A u \in Calls : u # t => calls'[u] = calls[u]
  BY <1>1 DEF Inv, CallsInv, NoCall
<1>3. Known'
  <2> SUFFICES ASSUME NEW k \in Keys, inflight'[k] # None
               PROVE  calls'[inflight'[k]].at # "free" /\ calls'[inflight'[k]].key = k
    BY DEF Known
  <2>1. inflight'[k] = inflight[k] /\ inflight[k] # t /\ inflight[k] \in Calls
    BY <1>1 DEF Inv, CallsInv
  <2>2. calls[inflight[k]].at # "free" /\ calls[inflight[k]].key = k
    BY <2>1 DEF StaleInv, Known
  <2> QED
    BY <1>2, <2>1, <2>2
<1>4. WaitersInv'
  <2> SUFFICES ASSUME NEW c \in Callers, caller[c].at = "waiting"
               PROVE  /\ caller[c].key \in Keys /\ caller[c].call \in Calls
                      /\ calls'[caller[c].call].at \in {"queued", "upstream"}
                      /\ calls'[caller[c].call].key = caller[c].key
    BY <1>1 DEF WaitersInv, Running
  <2>1. /\ caller[c].key \in Keys /\ caller[c].call \in Calls
        /\ calls[caller[c].call].at \in {"queued", "upstream"}
        /\ calls[caller[c].call].key = caller[c].key
    BY DEF StaleInv, WaitersInv, Running
  <2>2. caller[c].call # t
    BY <1>1, <2>1
  <2> QED
    BY <1>2, <2>1, <2>2
<1>5. NoRowYet'
  BY <1>1, <1>2 DEF StaleInv, NoRowYet, Running, Fresh
<1>6. LateRows'
  BY <1>1 DEF StaleInv, LateRows
<1> QED
  BY <1>1, <1>3, <1>4, <1>5, <1>6 DEF StaleInv

\* Time passes only when nobody is resuming and no task has just ended.
LEMMA TickStale ==
  ASSUME RowsInv, Inv, StaleInv, Tick
  PROVE  StaleInv'
<1>1. /\ UNCHANGED <<inflight, calls, caller>>
      /\ \A c \in Callers : caller[c].at # "resuming"
      /\ \A t \in Calls : calls[t].at # "ended"
      /\ age' = [k \in Keys |-> IF age[k] = Absent \/ age[k] = AgeCap
                                THEN age[k] ELSE age[k] + 1]
  BY DEF Tick
<1>2. Known' /\ LateRows' /\ WaitersInv'
  BY <1>1 DEF StaleInv, Known, LateRows, WaitersInv, Running
<1>3. \A k \in Keys : ~Fresh(k) => ~(Fresh(k))'
  <2> SUFFICES ASSUME NEW k \in Keys, ~Fresh(k) PROVE ~(Fresh(k))'
    OBVIOUS
  <2>1. age[k] \in {Absent} \cup 0..AgeCap
    BY DEF RowsInv
  <2>2. age'[k] = IF age[k] = Absent \/ age[k] = AgeCap THEN age[k] ELSE age[k] + 1
    BY <1>1
  <2> QED
    BY <2>1, <2>2, LimitsType, AgeCapType DEF Fresh, Absent
<1>4. NoRowYet'
  <2> SUFFICES ASSUME NEW t \in Calls, Running(t) PROVE ~(Fresh(calls[t].key))'
    BY <1>1 DEF NoRowYet, Running
  <2>1. calls[t].key \in Keys /\ ~Fresh(calls[t].key)
    BY DEF Running, StaleInv, NoRowYet, Inv, Registered
  <2> QED
    BY <1>1, <1>3, <2>1 DEF Fresh
<1> QED
  BY <1>1, <1>2, <1>4 DEF StaleInv

\* What a caller is told after its task: always something it can be told.
LEMMA ResumeMoves ==
  ASSUME Inv, RowsInv, StaleInv, NEW c \in Callers, Resume(c)
  PROVE  StaleInv'
<1>1. caller[c].at = "resuming" /\ caller[c].key \in Keys /\ caller[c] \in CallerType
  BY DEF Resume, StaleInv, LateRows
<1>2. PICK got \in Answers \cup Errors \cup {"none", "fresh", "stale"} :
        caller' = [caller EXCEPT ![c] = Answered(got)]
  BY <1>1 DEF Resume, CallerType
<1>3. Answered(got) \in CallerType /\ Answered(got).at = "answered"
  BY DEF Answered, CallerType
<1>4. \A k \in Keys : age'[k] = age[k] \/ age'[k] = Absent
  BY <1>1 DEF Resume, RowsInv
<1>5. UNCHANGED <<inflight, calls>>
  BY DEF Resume
<1> QED
  BY <1>2, <1>3, <1>4, <1>5, CallerMoves

LEMMA StaleStep == Inv /\ Inv' /\ RowsInv /\ StaleInv /\ [Next]_vars => StaleInv'
<1> SUFFICES ASSUME Inv, Inv', RowsInv, StaleInv, [Next]_vars PROVE StaleInv'
  OBVIOUS
<1>1. ASSUME NEW c \in Callers, NEW k \in Keys, FromCache(c, k) PROVE StaleInv'
  <2>1. Answered("fresh") \in CallerType /\ Answered("fresh").at = "answered"
    BY DEF Answered, CallerType
  <2>2. caller' = [caller EXCEPT ![c] = Answered("fresh")] /\ UNCHANGED <<age, inflight, calls>>
    BY <1>1 DEF FromCache
  <2> QED
    BY <2>1, <2>2, CallerMoves
<1>2. ASSUME NEW c \in Callers, NEW k \in Keys, Start(c, k) \/ Join(c, k) PROVE StaleInv'
  BY <1>2, StartStale, JoinStale
<1>3. ASSUME NEW c \in Callers, Depart(c) \/ Reply(c) PROVE StaleInv'
  <2>1. Away \in CallerType /\ Away.at = "away"
    BY DEF Away, CallerType
  <2>2. caller' = [caller EXCEPT ![c] = Away] /\ UNCHANGED <<age, inflight, calls>>
    BY <1>3 DEF Depart, CallsWithout, Reply
  <2> QED
    BY <2>1, <2>2, CallerMoves
<1>4. ASSUME NEW c \in Callers, Resume(c) PROVE StaleInv'
  BY <1>4, ResumeMoves
<1>5. ASSUME NEW t \in Calls, QueueTimeout(t) PROVE StaleInv'
  <2>1. Running(t) /\ Ends(t, "busy") /\ UNCHANGED <<age, inflight>> /\ "busy" \in Answers \cup Errors
    BY <1>5 DEF QueueTimeout, Running, Errors
  <2> QED
    BY <2>1, EndStale
<1>6. ASSUME NEW t \in Calls, CallStep(t) PROVE StaleInv'
  BY <1>5, <1>6, AcquireStale, UpstreamStale, DoneStale DEF CallStep
<1>7. CASE Tick
  BY <1>7, TickStale
<1>8. CASE UNCHANGED vars
  BY <1>8 DEF vars, StaleInv, Known, WaitersInv, NoRowYet, LateRows, Running, Fresh, SettledAge
<1> QED
  BY <1>1, <1>2, <1>3, <1>4, <1>6, <1>7, <1>8 DEF Next

LEMMA StaleInvariance == Spec => [](Inv /\ RowsInv /\ StaleInv)
<1>1. Init => Inv /\ RowsInv /\ StaleInv
  BY InitOK, RowsInit, StaleInit
<1>2. (Inv /\ RowsInv /\ StaleInv) /\ [Next]_vars => (Inv /\ RowsInv /\ StaleInv)'
  BY StepOK, RowsStep, StaleStep
<1> QED
  BY <1>1, <1>2, PTL DEF Spec

\* What a resuming caller is told follows from the age of the row alone.
LEMMA ToldByAge ==
  ASSUME Inv, RowsInv, StaleInv, NEW c \in Callers, Resume(c), caller[c].got \in Errors
  PROVE  LET a == age[caller[c].key] IN
         caller'[c].got = "stale" <=> a # Absent /\ a <= STALE_TTL_S
<1> DEFINE k == caller[c].key
           a == age[k]
<1>1. k \in Keys /\ SettledAge(a)
  BY DEF Resume, StaleInv, LateRows
<1>2. a \in {Absent} \cup 0..AgeCap
  BY <1>1 DEF RowsInv
<1>3. caller'[c].got = IF a # Absent /\ ~TooOld(k) THEN "stale" ELSE caller[c].got
  BY DEF Resume, Answered, StaleInv
<1>4. caller[c].got # "stale"
  BY DEF Errors
<1>5. caller'[c].got = "stale" <=> a # Absent /\ ~(a > stale_ttl)
  BY <1>3, <1>4 DEF TooOld
<1> HIDE DEF k, a
<1>6. a # Absent => (a <= stale_ttl <=> a <= STALE_TTL_S)
  BY <1>1, <1>2, LimitsType DEF SettledAge, stale_ttl, Larger, Absent
<1>7. a # Absent => (~(a > stale_ttl) <=> a <= stale_ttl)
  BY <1>2, LimitsType DEF stale_ttl, Larger, Absent
<1> QED
  BY <1>5, <1>6, <1>7 DEF k, a

\* Whatever other calls for the key, evictions and deletes happened while its
\* call was under way, a caller is told an error exactly when the cache has no
\* answer up to STALE_TTL_S old.
THEOREM StaleServedExactly == Spec => StaleRatherThanError
<1> DEFINE Told ==
      \A c \in Callers :
        caller[c].at = "resuming" /\ caller'[c].at = "answered" /\ caller[c].got \in Errors
        => LET a == age[caller[c].key] IN
           caller'[c].got = "stale" <=> a # Absent /\ a <= STALE_TTL_S
<1>1. ASSUME Inv, RowsInv, StaleInv, [Next]_vars PROVE [Told]_vars
  <2> SUFFICES ASSUME Next, NEW c \in Callers, caller[c].at = "resuming",
                      caller'[c].at = "answered", caller[c].got \in Errors
               PROVE  LET a == age[caller[c].key] IN
                      caller'[c].got = "stale" <=> a # Absent /\ a <= STALE_TTL_S
    BY <1>1
  <2>1. Resume(c)
    <3>1. \A t \in Calls, out \in Answers \cup Errors : ~Ends(t, out)
      BY DEF Ends
    <3>2. ASSUME NEW d \in Callers, d # c, NEW r, caller' = [caller EXCEPT ![d] = r] PROVE FALSE
      BY <3>2 DEF StaleInv
    <3> QED
      BY <1>1, <3>1, <3>2 DEF Next, FromCache, Start, Join, Depart, Resume, Reply, CallStep,
         Acquire, QueueTimeout, Upstream, Done, Tick, Errors
  <2> QED
    BY <1>1, <2>1, ToldByAge
<1> QED
  BY <1>1, StaleInvariance, PTL DEF Spec, StaleRatherThanError

\* Joined, left or timed out in any order, nobody waits for a call that is over.
THEOREM NobodyWaitsInVain == Spec => []CallsUnderWay
<1>1. StaleInv => CallsUnderWay
  BY DEF StaleInv, WaitersInv, Running, CallsUnderWay
<1> QED
  BY <1>1, StaleInvariance, PTL
=============================================================================
