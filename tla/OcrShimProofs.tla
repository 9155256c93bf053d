--------------------------- MODULE OcrShimProofs ---------------------------
(***************************************************************************)
(* Both gates of the OCR shim implement Slots, for any number of requests. *)
(* Each counter is the number of its holders; to know that a thread starts *)
(* for a request that has none yet takes the queue: who is in it waits,    *)
(* and is in it once.  load_page serves exactly the pages that are there,  *)
(* can be read and are within the limits.  And the lines of any page are   *)
(* read once, those of a level page in order.                              *)
(***************************************************************************)
EXTENDS OcrShim, PageLoad, PageLayout, FiniteSetTheorems, WellFoundedInduction, TLAPS

Working == At({"working", "orphan"})

Admitted == At(Read)

WorkersInv ==
  /\ IsFiniteSet(Working) /\ free \in 0..CONCURRENCY
  /\ CONCURRENCY - free = Cardinality(Working)

AdmissionInv ==
  /\ IsFiniteSet(Admitted) /\ admitted \in 0..ADMIT
  /\ admitted = Cardinality(Admitted)

QueueInv ==
  /\ waiters \in Seq(Requests)
  /\ \A i \in 1..Len(waiters) : at[waiters[i]] = "waiting"
  /\ \A i, j \in 1..Len(waiters) : i # j => waiters[i] # waiters[j]

Inv == at \in [Requests -> Stages] /\ WorkersInv /\ AdmissionInv /\ QueueInv

LEMMA AdmitType == ADMIT \in Nat /\ CONCURRENCY \in Nat \ {0}
BY LimitsType DEF ADMIT

LEMMA InitOK == Init => Inv /\ Workers!Init /\ Admission!Init
<1> SUFFICES ASSUME Init PROVE Inv /\ Workers!Init /\ Admission!Init
  OBVIOUS
<1>1. Working = {} /\ Admitted = {}
  BY DEF Init, Working, Admitted, At, Read
<1>2. WorkersInv /\ AdmissionInv
  BY <1>1, AdmitType, FS_EmptySet DEF Init, WorkersInv, AdmissionInv
<1>3. QueueInv
  BY DEF Init, QueueInv
<1>4. Workers!Init /\ Admission!Init
  BY <1>1, AdmitType DEF Init, Workers!Init, Admission!Init, Working, Admitted
<1> QED
  BY <1>2, <1>3, <1>4 DEF Init, Inv, Stages

(********************************* a step ********************************)

\* One request goes to another stage.
LEMMA Moved ==
  ASSUME at \in [Requests -> Stages], NEW r \in Requests, NEW s \in Stages, To(r, s),
         NEW CONSTANT S
  PROVE  /\ at' \in [Requests -> Stages] /\ at'[r] = s
         /\ \A q \in Requests : q # r => at'[q] = at[q]
         /\ At(S)' = IF s \in S THEN At(S) \cup {r} ELSE At(S) \ {r}
         /\ r \in At(S) <=> at[r] \in S
<1>1. at' \in [Requests -> Stages] /\ at'[r] = s
      /\ \A q \in Requests : q # r => at'[q] = at[q]
  BY DEF To
<1> QED
  BY <1>1 DEF At

\* A thread begins or ends, or none does.
LEMMA WorkersMove ==
  ASSUME Inv, NEW r \in Requests, NEW s \in Stages, To(r, s),
         \/ (at[r] \in {"working", "orphan"} <=> s \in {"working", "orphan"}) /\ free' = free
         \/ /\ at[r] \notin {"working", "orphan"} /\ s \in {"working", "orphan"}
            /\ free > 0 /\ free' = free - 1
         \/ /\ at[r] \in {"working", "orphan"} /\ s \notin {"working", "orphan"}
            /\ free' = free + 1
  PROVE  WorkersInv' /\ [Workers!Next]_(Workers!vars)
<1> DEFINE W == {"working", "orphan"}
<1>1. /\ Working' = IF s \in W THEN Working \cup {r} ELSE Working \ {r}
      /\ r \in Working <=> at[r] \in W
  BY Moved DEF Inv, Working
<1>2. /\ IsFiniteSet(Working) /\ free \in 0..CONCURRENCY
      /\ CONCURRENCY - free = Cardinality(Working) /\ Cardinality(Working) \in Nat
  BY FS_CardinalityType DEF Inv, WorkersInv
<1>3. CASE (at[r] \in W <=> s \in W) /\ free' = free
  <2>1. Working' = Working
    BY <1>1, <1>3
  <2> QED
    BY <1>2, <1>3, <2>1 DEF WorkersInv, Workers!vars, Working
<1>4. CASE at[r] \notin W /\ s \in W /\ free > 0 /\ free' = free - 1
  <2>1. r \notin Working /\ Working' = Working \cup {r}
    BY <1>1, <1>4
  <2>2. IsFiniteSet(Working') /\ Cardinality(Working') = Cardinality(Working) + 1
    BY <1>2, <2>1, FS_AddElement
  <2>3. WorkersInv'
    BY <1>2, <1>4, <2>2, AdmitType DEF WorkersInv
  <2>4. CONCURRENCY - free < CONCURRENCY /\ CONCURRENCY - free' = (CONCURRENCY - free) + 1
    BY <1>2, <1>4, AdmitType
  <2>5. Workers!Enter(r)
    BY <2>1, <2>4 DEF Workers!Enter, Working
  <2> QED
    BY <2>3, <2>5 DEF Workers!Next
<1>5. CASE at[r] \in W /\ s \notin W /\ free' = free + 1
  <2>1. r \in Working /\ Working' = Working \ {r}
    BY <1>1, <1>5
  <2>2. IsFiniteSet(Working') /\ Cardinality(Working') = Cardinality(Working) - 1
    BY <1>2, <2>1, FS_RemoveElement
  <2>3. Cardinality(Working') \in Nat
    BY <2>2, FS_CardinalityType
  <2>4. WorkersInv'
    BY <1>2, <1>5, <2>2, <2>3, AdmitType DEF WorkersInv
  <2>5. CONCURRENCY - free' = (CONCURRENCY - free) - 1
    BY <1>2, <1>5, AdmitType
  <2>6. Workers!Leave(r)
    BY <2>1, <2>5 DEF Workers!Leave, Working
  <2> QED
    BY <2>4, <2>6 DEF Workers!Next
<1> QED
  BY <1>3, <1>4, <1>5

\* A request is let in or leaves, or neither.
LEMMA AdmissionMove ==
  ASSUME Inv, NEW r \in Requests, NEW s \in Stages, To(r, s),
         \/ (at[r] \in Read <=> s \in Read) /\ admitted' = admitted
         \/ at[r] \notin Read /\ s \in Read /\ HasRoom /\ admitted' = admitted + 1
         \/ at[r] \in Read /\ s \notin Read /\ Leave
  PROVE  AdmissionInv' /\ [Admission!Next]_(Admission!vars)
<1>1. /\ Admitted' = IF s \in Read THEN Admitted \cup {r} ELSE Admitted \ {r}
      /\ r \in Admitted <=> at[r] \in Read
  BY Moved DEF Inv, Admitted, Read
<1>2. /\ IsFiniteSet(Admitted) /\ admitted \in 0..ADMIT
      /\ admitted = Cardinality(Admitted) /\ Cardinality(Admitted) \in Nat
  BY FS_CardinalityType DEF Inv, AdmissionInv
<1>3. CASE (at[r] \in Read <=> s \in Read) /\ admitted' = admitted
  <2>1. Admitted' = Admitted
    BY <1>1, <1>3
  <2> QED
    BY <1>2, <1>3, <2>1 DEF AdmissionInv, Admission!vars, Admitted
<1>4. CASE at[r] \notin Read /\ s \in Read /\ HasRoom /\ admitted' = admitted + 1
  <2>1. r \notin Admitted /\ Admitted' = Admitted \cup {r}
    BY <1>1, <1>4
  <2>2. IsFiniteSet(Admitted') /\ Cardinality(Admitted') = Cardinality(Admitted) + 1
    BY <1>2, <2>1, FS_AddElement
  <2>3. AdmissionInv'
    BY <1>2, <1>4, <2>2, AdmitType DEF AdmissionInv, HasRoom
  <2>4. Admission!Enter(r)
    BY <1>4, <2>1 DEF Admission!Enter, Admitted, HasRoom
  <2> QED
    BY <2>3, <2>4 DEF Admission!Next
<1>5. CASE at[r] \in Read /\ s \notin Read /\ Leave
  <2>1. r \in Admitted /\ Admitted' = Admitted \ {r}
    BY <1>1, <1>5
  <2>2. IsFiniteSet(Admitted') /\ Cardinality(Admitted') = Cardinality(Admitted) - 1
    BY <1>2, <2>1, FS_RemoveElement
  <2>3. Cardinality(Admitted') \in Nat
    BY <2>2, FS_CardinalityType
  <2>4. admitted' = admitted - 1
    BY <1>2, <1>5, <2>2, <2>3 DEF Leave, Less
  <2>5. AdmissionInv'
    BY <1>2, <2>2, <2>3, <2>4, AdmitType DEF AdmissionInv
  <2>6. Admission!Leave(r)
    BY <2>1, <2>4 DEF Admission!Leave, Admitted
  <2> QED
    BY <2>5, <2>6 DEF Admission!Next
<1> QED
  BY <1>3, <1>4, <1>5

\* The queue stays as it is while somebody outside it moves.
LEMMA QueueStays ==
  ASSUME Inv, NEW r \in Requests, NEW s \in Stages, To(r, s), at[r] # "waiting",
         UNCHANGED waiters
  PROVE  QueueInv'
<1>1. \A q \in Requests : q # r => at'[q] = at[q]
  BY Moved DEF Inv
<1> QED
  BY <1>1 DEF Inv, QueueInv

LEMMA QueueGrows ==
  ASSUME Inv, NEW r \in Requests, BodyRead(r)
  PROVE  QueueInv'
<1>1. /\ at[r] = "body" /\ waiters' = Append(waiters, r) /\ at'[r] = "waiting"
      /\ \A q \in Requests : q # r => at'[q] = at[q]
  BY Moved DEF Inv, BodyRead, Queued, Stages
<1>2. waiters \in Seq(Requests) /\ Len(waiters) \in Nat
      /\ \A i \in 1..Len(waiters) : waiters[i] \in Requests /\ waiters[i] # r
  BY <1>1 DEF Inv, QueueInv
<1>3. /\ waiters' \in Seq(Requests) /\ Len(waiters') = Len(waiters) + 1
      /\ waiters'[Len(waiters) + 1] = r
      /\ \A i \in 1..Len(waiters) : waiters'[i] = waiters[i]
  BY <1>1, <1>2
<1>4. \A i \in 1..Len(waiters') : i \in 1..Len(waiters) \/ i = Len(waiters) + 1
  BY <1>2, <1>3
<1> QED
  BY <1>1, <1>2, <1>3, <1>4 DEF Inv, QueueInv

LEMMA QueueShrinks ==
  ASSUME Inv, NEW r \in Requests, StartThread(r)
  PROVE  QueueInv' /\ at[r] = "waiting"
<1>1. /\ waiters # <<>> /\ r = Head(waiters) /\ waiters' = Tail(waiters)
      /\ \A q \in Requests : q # r => at'[q] = at[q]
  BY Moved DEF Inv, StartThread, Stages
<1>2. /\ waiters \in Seq(Requests) /\ Len(waiters) \in Nat \ {0} /\ r = waiters[1]
      /\ \A i \in 1..Len(waiters) : waiters[i] \in Requests
  BY <1>1 DEF Inv, QueueInv
<1>3. /\ waiters' \in Seq(Requests) /\ Len(waiters') = Len(waiters) - 1
      /\ \A i \in 1..Len(waiters') :
           waiters'[i] = waiters[i + 1] /\ i + 1 \in 1..Len(waiters) /\ i + 1 # 1
  BY <1>1, <1>2
<1>4. at[r] = "waiting" /\ 1 \in 1..Len(waiters)
  BY <1>2 DEF Inv, QueueInv
<1>5. \A i \in 1..Len(waiters') : waiters'[i] # r /\ at'[waiters'[i]] = "waiting"
  BY <1>1, <1>2, <1>3, <1>4 DEF Inv, QueueInv
<1>6. \A i, j \in 1..Len(waiters') : i # j => i + 1 # j + 1
  OBVIOUS
<1> QED
  BY <1>3, <1>4, <1>5, <1>6 DEF Inv, QueueInv

LEMMA ProceedKeeps ==
  ASSUME Inv, NEW r \in Requests, Admit(r) \/ Proceed(r)
  PROVE  Inv' /\ [Workers!Next]_(Workers!vars) /\ [Admission!Next]_(Admission!vars)
<1> DEFINE Goal ==
      Inv' /\ [Workers!Next]_(Workers!vars) /\ [Admission!Next]_(Admission!vars)
<1>1. ASSUME NEW s \in Stages, To(r, s), QueueInv',
             WorkersInv' /\ [Workers!Next]_(Workers!vars),
             AdmissionInv' /\ [Admission!Next]_(Admission!vars)
      PROVE  Goal
  BY <1>1, Moved DEF Inv
<1>2. CASE Admit(r)
  <2>1. To(r, "body") /\ "body" \in Stages /\ QueueInv'
    BY <1>2, QueueStays DEF Admit, Stages
  <2>2. WorkersInv' /\ [Workers!Next]_(Workers!vars)
    BY <1>2, <2>1, WorkersMove DEF Admit
  <2>3. AdmissionInv' /\ [Admission!Next]_(Admission!vars)
    BY <1>2, <2>1, AdmissionMove DEF Admit, Read
  <2> QED
    BY <1>1, <2>1, <2>2, <2>3
<1>3. CASE BodyRefused(r)
  <2>1. To(r, "idle") /\ "idle" \in Stages /\ QueueInv'
    BY <1>3, QueueStays DEF BodyRefused, Stages
  <2>2. WorkersInv' /\ [Workers!Next]_(Workers!vars)
    BY <1>3, <2>1, WorkersMove DEF BodyRefused
  <2>3. AdmissionInv' /\ [Admission!Next]_(Admission!vars)
    BY <1>3, <2>1, AdmissionMove DEF BodyRefused, LeaveUnread, Read
  <2> QED
    BY <1>1, <2>1, <2>2, <2>3
<1>4. CASE BodyRead(r)
  <2>1. To(r, "waiting") /\ "waiting" \in Stages /\ QueueInv'
    BY <1>4, QueueGrows DEF BodyRead, Stages
  <2>2. WorkersInv' /\ [Workers!Next]_(Workers!vars)
    BY <1>4, <2>1, WorkersMove DEF BodyRead
  <2>3. AdmissionInv' /\ [Admission!Next]_(Admission!vars)
    BY <1>4, <2>1, AdmissionMove DEF BodyRead, Read
  <2> QED
    BY <1>1, <2>1, <2>2, <2>3
<1>5. CASE StartThread(r)
  <2>1. To(r, "working") /\ "working" \in Stages /\ QueueInv' /\ at[r] = "waiting"
    BY <1>5, QueueShrinks DEF StartThread, Stages
  <2>2. WorkersInv' /\ [Workers!Next]_(Workers!vars)
    BY <1>5, <2>1, WorkersMove DEF StartThread
  <2>3. AdmissionInv' /\ [Admission!Next]_(Admission!vars)
    BY <1>5, <2>1, AdmissionMove DEF StartThread, Read
  <2> QED
    BY <1>1, <2>1, <2>2, <2>3
<1>6. CASE ThreadEnds(r)
  <2>1. PICK s \in Stages : To(r, s) /\ s = IF at[r] = "working" THEN "ended" ELSE "idle"
    BY <1>6 DEF ThreadEnds, Stages
  <2>2. QueueInv'
    BY <1>6, <2>1, QueueStays DEF ThreadEnds
  <2>3. WorkersInv' /\ [Workers!Next]_(Workers!vars)
    BY <1>6, <2>1, WorkersMove DEF ThreadEnds
  <2>4. AdmissionInv' /\ [Admission!Next]_(Admission!vars)
    BY <1>6, <2>1, AdmissionMove DEF ThreadEnds, Read
  <2> QED
    BY <1>1, <2>1, <2>2, <2>3, <2>4
<1>7. CASE Answer(r)
  <2>1. To(r, "idle") /\ "idle" \in Stages /\ QueueInv'
    BY <1>7, QueueStays DEF Answer, Stages
  <2>2. WorkersInv' /\ [Workers!Next]_(Workers!vars)
    BY <1>7, <2>1, WorkersMove DEF Answer
  <2>3. AdmissionInv' /\ [Admission!Next]_(Admission!vars)
    BY <1>7, <2>1, AdmissionMove DEF Answer, Read
  <2> QED
    BY <1>1, <2>1, <2>2, <2>3
<1>8. CASE TimesOut(r)
  <2>1. PICK s \in Stages : To(r, s) /\ s = IF at[r] = "working" THEN "orphan" ELSE "idle"
    BY <1>8 DEF TimesOut, Stages
  <2>2. QueueInv'
    BY <1>8, <2>1, QueueStays DEF TimesOut
  <2>3. WorkersInv' /\ [Workers!Next]_(Workers!vars)
    BY <1>8, <2>1, WorkersMove DEF TimesOut, FreeAtTimeout
  <2>4. AdmissionInv' /\ [Admission!Next]_(Admission!vars)
    BY <1>8, <2>1, AdmissionMove DEF TimesOut, Read
  <2> QED
    BY <1>1, <2>1, <2>2, <2>3, <2>4
<1> QED
  BY <1>2, <1>3, <1>4, <1>5, <1>6, <1>7, <1>8 DEF Proceed

LEMMA RestartKeeps ==
  ASSUME Restart
  PROVE  Inv' /\ [Workers!Next]_(Workers!vars) /\ [Admission!Next]_(Admission!vars)
<1>1. Working' = {} /\ Admitted' = {}
  BY DEF Restart, Working, Admitted, At, Read
<1>2. WorkersInv' /\ AdmissionInv'
  BY <1>1, AdmitType, FS_EmptySet DEF Restart, WorkersInv, AdmissionInv
<1>3. QueueInv' /\ (at \in [Requests -> Stages])'
  BY DEF Restart, QueueInv, Stages
<1>4. Workers!LeaveAll /\ Admission!LeaveAll
  BY <1>1, AdmitType DEF Restart, Workers!LeaveAll, Admission!LeaveAll, Working, Admitted
<1> QED
  BY <1>2, <1>3, <1>4 DEF Inv, Workers!Next, Admission!Next

LEMMA StutterKeeps ==
  ASSUME Inv, UNCHANGED vars
  PROVE  Inv' /\ [Workers!Next]_(Workers!vars) /\ [Admission!Next]_(Admission!vars)
<1>1. Working' = Working /\ Admitted' = Admitted
  BY DEF vars, Working, Admitted, At, Read
<1>2. WorkersInv' /\ AdmissionInv' /\ QueueInv'
  BY <1>1 DEF Inv, vars, WorkersInv, AdmissionInv, QueueInv
<1> QED
  BY <1>1, <1>2 DEF Inv, vars, Workers!vars, Admission!vars, Working, Admitted

LEMMA StepOK ==
  Inv /\ [Next]_vars
    => Inv' /\ [Workers!Next]_(Workers!vars) /\ [Admission!Next]_(Admission!vars)
BY ProceedKeeps, RestartKeeps, StutterKeeps DEF Next, Upload, Busy

(******************************** results ********************************)

\* The semaphore of _run and the counter of _admitted_body implement Slots for
\* any number of requests: over refusals, time limits in any order with the ends
\* of threads, and restarts.
THEOREM GatesAreSlots == Spec => GatesKept
BY InitOK, StepOK, PTL DEF Spec, GatesKept, Workers!Spec, Admission!Spec

LEMMA FewBodies == Inv => BodiesInMemory
<1> SUFFICES ASSUME Inv PROVE BodiesInMemory
  OBVIOUS
<1>1. At(Read \cup {"orphan"}) \subseteq Working \cup Admitted
  BY DEF At, Working, Admitted
<1>2. IsFiniteSet(Working) /\ IsFiniteSet(Admitted)
  BY DEF Inv, WorkersInv, AdmissionInv
<1>3. Cardinality(Working) <= CONCURRENCY /\ Cardinality(Admitted) <= ADMIT
      /\ Cardinality(Working) \in Nat /\ Cardinality(Admitted) \in Nat
  BY AdmitType DEF Inv, WorkersInv, AdmissionInv
<1>4. IsFiniteSet(Working \cup Admitted) /\ IsFiniteSet(Working \cap Admitted)
  BY <1>2, FS_Union, FS_Intersection
<1>5. Cardinality(Working \cup Admitted) =
        Cardinality(Working) + Cardinality(Admitted) - Cardinality(Working \cap Admitted)
  BY <1>2, FS_Union
<1>6. Cardinality(Working \cap Admitted) \in Nat
  BY <1>4, FS_CardinalityType
<1>7. Cardinality(At(Read \cup {"orphan"})) <= Cardinality(Working \cup Admitted)
      /\ Cardinality(At(Read \cup {"orphan"})) \in Nat
  BY <1>1, <1>4, FS_Subset, FS_CardinalityType
<1> QED
  BY <1>3, <1>5, <1>6, <1>7, AdmitType DEF BodiesInMemory

\* However many requests come, and however many of their pages run out of time, no
\* more bodies are held than admission and the threads allow.
THEOREM BodiesBounded == Spec => []BodiesInMemory
BY InitOK, StepOK, FewBodies, PTL DEF Spec

\* Who waits is in the queue.
InQueue == \A r \in Requests : at[r] = "waiting" => \E i \in 1..Len(waiters) : waiters[i] = r

LEMMA InQueueStays ==
  ASSUME Inv, InQueue, NEW r \in Requests, NEW s \in Stages, To(r, s), s # "waiting",
         UNCHANGED waiters
  PROVE  InQueue'
BY Moved DEF Inv, InQueue

LEMMA InQueueGrows ==
  ASSUME Inv, InQueue, NEW r \in Requests, BodyRead(r)
  PROVE  InQueue'
<1>1. /\ waiters' = Append(waiters, r)
      /\ \A q \in Requests : q # r => at'[q] = at[q]
  BY Moved DEF Inv, BodyRead, Queued, Stages
<1>2. /\ Len(waiters) \in Nat /\ Len(waiters') = Len(waiters) + 1
      /\ waiters'[Len(waiters) + 1] = r
      /\ \A i \in 1..Len(waiters) : waiters'[i] = waiters[i]
  BY <1>1 DEF Inv, QueueInv
<1>3. Len(waiters) + 1 \in 1..Len(waiters') /\ 1..Len(waiters) \subseteq 1..Len(waiters')
  BY <1>2
<1>4. ASSUME NEW q \in Requests, at'[q] = "waiting"
      PROVE  \E i \in 1..Len(waiters') : waiters'[i] = q
  <2>1. CASE q = r
    BY <1>2, <1>3, <2>1
  <2>2. CASE q # r
    <3>1. PICK i \in 1..Len(waiters) : waiters[i] = q
      BY <1>1, <1>4, <2>2 DEF InQueue
    <3> QED
      BY <1>2, <1>3, <3>1
  <2> QED
    BY <2>1, <2>2
<1> QED
  BY <1>4 DEF InQueue

LEMMA InQueueShrinks ==
  ASSUME Inv, InQueue, NEW r \in Requests, StartThread(r)
  PROVE  InQueue'
<1>1. /\ waiters # <<>> /\ r = Head(waiters) /\ waiters' = Tail(waiters) /\ at'[r] = "working"
      /\ \A q \in Requests : q # r => at'[q] = at[q]
  BY Moved DEF Inv, StartThread, Stages
<1>2. /\ Len(waiters) \in Nat /\ r = waiters[1] /\ Len(waiters') = Len(waiters) - 1
      /\ \A i \in 1..Len(waiters') : waiters'[i] = waiters[i + 1]
  BY <1>1 DEF Inv, QueueInv
<1>3. ASSUME NEW q \in Requests, at'[q] = "waiting"
      PROVE  \E i \in 1..Len(waiters') : waiters'[i] = q
  <2>1. q # r
    BY <1>1, <1>3
  <2>2. PICK i \in 1..Len(waiters) : waiters[i] = q
    BY <1>1, <1>3, <2>1 DEF InQueue
  <2>3. i - 1 \in 1..Len(waiters') /\ i = (i - 1) + 1
    BY <1>2, <2>1, <2>2
  <2> QED
    BY <1>2, <2>2, <2>3
<1> QED
  BY <1>3 DEF InQueue

LEMMA InQueueStep == Inv /\ InQueue /\ [Next]_vars => InQueue'
<1> SUFFICES ASSUME Inv, InQueue, [Next]_vars PROVE InQueue'
  OBVIOUS
<1>1. CASE Restart \/ UNCHANGED vars
  BY <1>1 DEF Restart, vars, InQueue
<1>2. ASSUME NEW r \in Requests, Upload(r) \/ Proceed(r) PROVE InQueue'
  <2>1. CASE Busy(r)
    BY <2>1 DEF Busy, vars, InQueue
  <2>2. CASE BodyRead(r) \/ StartThread(r)
    BY <2>2, InQueueGrows, InQueueShrinks
  <2>3. CASE Admit(r) \/ BodyRefused(r) \/ ThreadEnds(r) \/ Answer(r) \/ TimesOut(r)
    <3>1. PICK s \in Stages \ {"waiting"} : To(r, s) /\ UNCHANGED waiters
      BY <2>3 DEF Admit, BodyRefused, ThreadEnds, Answer, TimesOut, Stages
    <3> QED
      BY <3>1, InQueueStays
  <2> QED
    BY <1>2, <2>1, <2>2, <2>3 DEF Upload, Proceed
<1> QED
  BY <1>1, <1>2 DEF Next

\* Nobody is in the queue twice, and all who are in it were let in.
LEMMA ShortQueue ==
  ASSUME Inv
  PROVE  Len(waiters) \in Nat /\ Len(waiters) <= ADMIT
<1>1. waiters \in Seq(Requests) /\ Len(waiters) \in Nat
  BY DEF Inv, QueueInv
<1> DEFINE places == 1..Len(waiters)
           f == [i \in places |-> waiters[i]]
<1>2. \A i \in places : waiters[i] \in Admitted
  BY <1>1 DEF Inv, QueueInv, Admitted, At, Read
<1>3. f \in Injection(places, Admitted)
  BY <1>2 DEF Inv, QueueInv, Injection, IsInjective
<1>4. IsFiniteSet(Admitted) /\ Cardinality(Admitted) <= ADMIT
  BY AdmitType DEF Inv, AdmissionInv
<1>5. Cardinality(places) <= Cardinality(Admitted)
  <2> HIDE DEF places, f
  <2> QED
    BY <1>3, <1>4, FS_Injection
<1>6. Cardinality(places) = Len(waiters)
  <2>1. PICK n \in Nat : n = Len(waiters)
    BY <1>1
  <2>2. Cardinality(1..n) = n
    BY FS_Interval
  <2> QED
    BY ONLY <2>1, <2>2
<1>7. Cardinality(Admitted) \in Nat /\ ADMIT \in Nat
  BY <1>4, FS_CardinalityType, AdmitType
<1> HIDE DEF places
<1> QED
  BY <1>1, <1>4, <1>5, <1>6, <1>7

LEMMA NobodyIsForgotten == Inv /\ InQueue => NobodyForgotten
<1> SUFFICES ASSUME Inv, InQueue, NEW r \in Requests, at[r] = "waiting"
             PROVE  /\ \E i \in 1..ADMIT : i <= Len(waiters) /\ waiters[i] = r
                    /\ free > 0 \/ Cardinality(At({"working", "orphan"})) = CONCURRENCY
  BY DEF NobodyForgotten
<1>1. PICK i \in 1..Len(waiters) : waiters[i] = r
  BY DEF InQueue
<1>2. i \in 1..ADMIT /\ i <= Len(waiters)
  BY ShortQueue, AdmitType
<1>3. free > 0 \/ Cardinality(Working) = CONCURRENCY
  BY AdmitType DEF Inv, WorkersInv
<1> QED
  BY <1>1, <1>2, <1>3 DEF Working

\* Whatever time limits and restarts come between, who waits for a thread has its place
\* in a queue no longer than admission allows.
THEOREM NobodyLost == Spec => []NobodyForgotten
<1>1. Init => Inv /\ InQueue
  BY InitOK DEF Init, InQueue
<1> QED
  BY <1>1, StepOK, InQueueStep, NobodyIsForgotten, PTL DEF Spec

(******************************* load_page *******************************)

\* A set of numbers that is not empty has a least one: induction, as it is used here.
LEMMA LeastExists ==
  ASSUME NEW S, S \subseteq Nat, S # {}
  PROVE  \E n \in S : \A m \in S : n <= m
<1> DEFINE R == {ss \in Nat \X Nat : ss[1] < ss[2]}
<1>1. IsWellFoundedOn(R, Nat)
  BY NatLessThanWellFounded DEF OpToRel
<1>2. PICK n \in S : \A m \in S : <<m, n>> \notin R
  <2> HIDE DEF R
  <2> QED
    BY <1>1, WFMin
<1>3. ASSUME NEW m \in S PROVE ~(m < n)
  <2>1. <<m, n>> \in Nat \X Nat /\ <<m, n>>[1] = m /\ <<m, n>>[2] = n
    OBVIOUS
  <2> QED
    BY <1>2, <2>1
<1> QED
  BY <1>3

LEMMA UploadIs ==
  ASSUME NEW doc \in Uploads
  PROVE  /\ doc.kind \in {"pdf", "picture", "other"} /\ doc.fails \in {"never", "open", "count"}
         /\ doc.sheets \in Seq(Sheets) /\ Len(doc.sheets) \in Nat
         /\ doc.kind = "picture" => 1 \in 1..Len(doc.sheets)
         /\ \A i \in 1..Len(doc.sheets) :
              /\ doc.sheets[i].wide \in Nat /\ doc.sheets[i].high \in Nat
              /\ doc.sheets[i].fails \in {"never", "load", "draw"}
<1>1. /\ doc.kind \in {"pdf", "picture", "other"} /\ doc.fails \in {"never", "open", "count"}
      /\ doc.sheets \in Seq(Sheets)
      /\ doc.kind = "picture" => doc.sheets # <<>>
  BY UploadsType
<1> DEFINE sheets == doc.sheets
<1>2. sheets \in Seq(Sheets)
  BY <1>1
<1> HIDE DEF sheets
<1>3. Len(sheets) \in Nat /\ (sheets # <<>> => 1 \in 1..Len(sheets))
  BY <1>2
<1>4. \A i \in 1..Len(sheets) : sheets[i] \in Sheets
  BY <1>2
<1>5. \A i \in 1..Len(sheets) : /\ sheets[i].wide \in Nat /\ sheets[i].high \in Nat
                                 /\ sheets[i].fails \in {"never", "load", "draw"}
  BY <1>4 DEF Sheets
<1> QED
  BY <1>1, <1>3, <1>5 DEF sheets

LEMMA TimesMonotone ==
  ASSUME NEW a \in Nat, NEW b \in Nat, NEW x \in Nat, NEW y \in Nat, a <= x, b <= y
  PROVE  a * b <= x * y
<1>1. a * b <= x * b
  OBVIOUS
<1>2. x * b <= x * y
  OBVIOUS
<1>3. a * b \in Nat /\ x * b \in Nat /\ x * y \in Nat
  OBVIOUS
<1> QED
  BY <1>1, <1>2, <1>3

\* A factor that is not zero does not matter.
LEMMA TimesCancels ==
  ASSUME NEW a \in Nat, NEW b \in Nat, NEW n \in Nat, n # 0, a * n <= b * n
  PROVE  a <= b
<1> SUFFICES ASSUME b + 1 <= a PROVE FALSE
  OBVIOUS
<1>1. (b + 1) * n <= a * n
  BY TimesMonotone
<1>2. (b + 1) * n = b * n + n /\ b * n \in Nat /\ a * n \in Nat
  OBVIOUS
<1> QED
  BY <1>1, <1>2

\* The sides of a page that is not scaled down, each a little too large.
LEMMA RoundedArea ==
  ASSUME NEW a \in Nat, NEW b \in Nat, NEW x \in Nat, NEW y \in Nat,
         NEW unit \in Nat \ {0}, NEW most \in Nat,
         a * unit <= x, b * unit <= y, x * y <= most * (unit * unit)
  PROVE  a * b <= most
<1>1. (a * unit) * (b * unit) <= x * y
  <2>1. a * unit \in Nat /\ b * unit \in Nat
    OBVIOUS
  <2> QED
    BY <2>1, TimesMonotone
<1>2. (a * unit) * (b * unit) = (a * b) * (unit * unit)
  OBVIOUS
<1>3. a * b \in Nat /\ unit * unit \in Nat /\ unit * unit # 0 /\ x * y \in Nat
      /\ (a * b) * (unit * unit) \in Nat /\ most * (unit * unit) \in Nat
  OBVIOUS
<1>4. (a * b) * (unit * unit) <= most * (unit * unit)
  BY <1>1, <1>2, <1>3
<1> QED
  BY <1>3, <1>4, TimesCancels

\* And of one that is.
LEMMA FittedArea ==
  ASSUME NEW a \in Nat, NEW b \in Nat, NEW w \in Nat \ {0}, NEW h \in Nat \ {0},
         NEW most \in Nat, a * a * h <= most * w, b * b * w <= most * h
  PROVE  a * b <= most
<1> DEFINE n == a * b
<1>1. (a * a * h) * (b * b * w) <= (most * w) * (most * h)
  <2>1. a * a * h \in Nat /\ b * b * w \in Nat /\ most * w \in Nat /\ most * h \in Nat
    OBVIOUS
  <2> QED
    BY <2>1, TimesMonotone
<1>2. (a * a * h) * (b * b * w) = (n * n) * (w * h)
  OBVIOUS
<1>3. (most * w) * (most * h) = (most * most) * (w * h)
  OBVIOUS
<1>4. n \in Nat /\ n * n \in Nat /\ most * most \in Nat /\ w * h \in Nat /\ w * h # 0
  OBVIOUS
<1>5. n * n <= most * most
  <2> HIDE DEF n
  <2>1. (n * n) * (w * h) <= (most * most) * (w * h)
    BY <1>1, <1>2, <1>3
  <2> QED
    BY <1>4, <2>1, TimesCancels
<1> HIDE DEF n
<1>6. ASSUME most + 1 <= n PROVE FALSE
  <2>1. (most + 1) * (most + 1) <= n * n
    BY <1>4, <1>6, TimesMonotone
  <2>2. (most + 1) * (most + 1) = most * most + 2 * most + 1
    OBVIOUS
  <2> QED
    BY <1>4, <1>5, <2>1, <2>2
<1>7. n <= most
  BY <1>4, <1>6
<1> QED
  BY <1>7 DEF n

\* Whatever the renderer makes of a page is in full.
LEMMA DrawnInFull ==
  ASSUME NEW sheet, sheet.wide \in Nat \ {0}, sheet.high \in Nat \ {0},
         NEW dpi \in Nat \ {0}, NEW answer \in Drawn(sheet, dpi), NEW kind, kind # "picture"
  PROVE  answer.status = 200 /\ answer.why = "served" /\ InFull(sheet, kind, dpi, answer)
<1> DEFINE w == sheet.wide
           h == sheet.high
           x == w * dpi
           y == h * dpi
<1>1. w \in Nat \ {0} /\ h \in Nat \ {0} /\ x \in Nat /\ y \in Nat
      /\ PerInch \in Nat \ {0} /\ MAX_PIXELS \in Nat
  BY PageLimits
<1>2. Fits(sheet, dpi) <=> x * y <= MAX_PIXELS * (PerInch * PerInch)
  BY DEF Fits
<1>3. CASE Fits(sheet, dpi)
  <2>1. PICK s \in Rounded(x, PerInch), t \in Rounded(y, PerInch) : answer = Loaded(s, t)
    BY <1>3 DEF Drawn
  <2> HIDE DEF x, y
  <2>2. /\ s \in Int /\ s >= 1 /\ (s - 1) * PerInch <= x /\ x <= s * PerInch
        /\ t \in Int /\ t >= 1 /\ (t - 1) * PerInch <= y /\ y <= t * PerInch
    BY <1>1 DEF Rounded
  <2>3. s - 1 \in Nat /\ t - 1 \in Nat
    BY <2>2
  <2>4. (s - 1) * (t - 1) <= MAX_PIXELS
    BY <1>1, <1>2, <1>3, <2>2, <2>3, RoundedArea
  <2> QED
    BY <2>1, <2>2, <2>4 DEF InFull, Loaded, x, y
<1>4. CASE ~Fits(sheet, dpi)
  <2>1. PICK s \in Fitted(w, h), t \in Fitted(h, w) : answer = Loaded(s, t)
    BY <1>4 DEF Drawn
  <2>2. /\ s \in Int /\ s >= 1 /\ (s - 1) * (s - 1) * h <= MAX_PIXELS * w
        /\ t \in Int /\ t >= 1 /\ (t - 1) * (t - 1) * w <= MAX_PIXELS * h
    BY <1>1 DEF Fitted
  <2>3. s - 1 \in Nat /\ t - 1 \in Nat
    BY <2>2
  <2>4. (s - 1) * (t - 1) <= MAX_PIXELS
    <3> HIDE DEF w, h
    <3> QED
      BY <1>1, <2>2, <2>3, FittedArea
  <2>5. ~(x * y <= MAX_PIXELS * (PerInch * PerInch))
    BY <1>2, <1>4
  <2> QED
    BY <2>1, <2>4, <2>5 DEF InFull, Loaded
<1> QED
  BY <1>3, <1>4

\* A page that is not served.
LEMMA RefusedRightly ==
  ASSUME NEW doc, NEW page, NEW dpi, NEW answer,
         ~(Sound(doc, page) /\ WithinLimits(doc, page)), answer.status # 200,
         answer.why = "no_such_page" => ~There(doc, page),
         answer.status = 500 => doc.kind = "pdf" /\ doc.sheets[page].fails # "never"
  PROVE  RightAnswer(doc, page, dpi, answer)
BY DEF RightAnswer

\* And one that is.
LEMMA ServedRightly ==
  ASSUME NEW doc, NEW page, NEW dpi, NEW answer,
         Sound(doc, page), WithinLimits(doc, page), answer.status = 200, answer.why = "served",
         InFull(doc.sheets[page], doc.kind, dpi, answer)
  PROVE  RightAnswer(doc, page, dpi, answer)
BY DEF RightAnswer

LEMMA PdfServed ==
  ASSUME NEW doc \in Uploads, doc.kind = "pdf", NEW page \in Pages, NEW dpi \in Resolutions,
         NEW answer \in RenderPdf(doc, page, dpi)
  PROVE  RightAnswer(doc, page, dpi, answer)
<1> DEFINE pages == Len(doc.sheets)
           sheet == doc.sheets[page]
<1>1. pages \in Nat /\ MAX_PAGES \in Nat /\ page \in Int /\ dpi \in Nat \ {0}
  BY UploadIs, UploadsType, PageLimits
<1>2. There(doc, page) <=> page \in 1..pages
  BY DEF There
<1>3. WithinLimits(doc, page) <=> pages <= MAX_PAGES
  BY DEF WithinLimits
<1>4. Sound(doc, page) <=> /\ doc.fails = "never" /\ page \in 1..pages /\ sheet.fails = "never"
                           /\ sheet.wide > 0 /\ sheet.high > 0
  BY <1>2 DEF Sound
<1>5. page \in 1..pages => /\ sheet.wide \in Nat /\ sheet.high \in Nat
                           /\ sheet.fails \in {"never", "load", "draw"}
  BY UploadIs
<1>6. CASE doc.fails # "never"
  <2>1. answer = Refused(422, "unreadable_pdf")
    BY <1>6 DEF RenderPdf
  <2>2. answer.status = 422 /\ answer.why = "unreadable_pdf"
    BY <2>1 DEF Refused
  <2> QED
    BY <1>4, <1>6, <2>2, RefusedRightly
<1>7. CASE doc.fails = "never" /\ pages > MAX_PAGES
  <2>1. answer = Refused(413, "too_many_pages")
    BY <1>7 DEF RenderPdf
  <2>2. answer.status = 413 /\ answer.why = "too_many_pages"
    BY <2>1 DEF Refused
  <2>3. ~(pages <= MAX_PAGES)
    BY <1>1, <1>7
  <2> QED
    BY <1>3, <2>2, <2>3, RefusedRightly
<1>8. CASE doc.fails = "never" /\ ~(pages > MAX_PAGES) /\ page \notin 1..pages
  <2>1. answer = Refused(422, "no_such_page")
    BY <1>8 DEF RenderPdf
  <2>2. answer.status = 422
    BY <2>1 DEF Refused
  <2> QED
    BY <1>2, <1>4, <1>8, <2>2, RefusedRightly
<1>9. CASE doc.fails = "never" /\ ~(pages > MAX_PAGES) /\ page \in 1..pages
  <2>1. answer \in IF sheet.fails = "load" THEN {Failed}
                   ELSE IF sheet.wide = 0 \/ sheet.high = 0 THEN {Refused(422, "unreadable_pdf")}
                   ELSE IF sheet.fails = "draw" THEN {Failed}
                   ELSE Drawn(sheet, dpi)
    BY <1>9 DEF RenderPdf
  <2>2. CASE sheet.fails = "load" \/ (sheet.fails = "draw" /\ ~(sheet.wide = 0 \/ sheet.high = 0))
    <3>1. answer = Failed
      BY <2>1, <2>2
    <3>2. answer.status # 200 /\ answer.why # "no_such_page"
      BY <3>1 DEF Failed, Refused
    <3>3. doc.sheets[page].fails # "never"
      BY <2>2
    <3>4. ~Sound(doc, page)
      BY <3>3 DEF Sound
    <3> QED
      BY <3>2, <3>3, <3>4, RefusedRightly
  <2>3. CASE sheet.fails # "load" /\ (sheet.wide = 0 \/ sheet.high = 0)
    <3>1. answer = Refused(422, "unreadable_pdf")
      BY <2>1, <2>3
    <3>2. answer.status = 422 /\ answer.why = "unreadable_pdf"
      BY <3>1 DEF Refused
    <3>3. ~(sheet.wide > 0 /\ sheet.high > 0)
      BY <2>3
    <3> QED
      BY <1>4, <3>2, <3>3, RefusedRightly
  <2>5. CASE sheet.fails \notin {"load", "draw"} /\ ~(sheet.wide = 0 \/ sheet.high = 0)
    <3>1. answer \in Drawn(sheet, dpi)
      BY <2>1, <2>5
    <3>2. /\ sheet.wide \in Nat \ {0} /\ sheet.high \in Nat \ {0} /\ sheet.fails = "never"
          /\ sheet.wide > 0 /\ sheet.high > 0
      BY <1>5, <1>9, <2>5
    <3>3. answer.status = 200 /\ answer.why = "served" /\ InFull(sheet, doc.kind, dpi, answer)
      BY <1>1, <3>1, <3>2, DrawnInFull
    <3>4. Sound(doc, page) /\ WithinLimits(doc, page)
      BY <1>1, <1>3, <1>4, <1>9, <3>2
    <3>5. InFull(doc.sheets[page], doc.kind, dpi, answer)
      BY <3>3
    <3> QED
      BY <3>3, <3>4, <3>5, ServedRightly
  <2> QED
    BY <2>2, <2>3, <2>5
<1> QED
  BY <1>6, <1>7, <1>8, <1>9

LEMMA PictureServed ==
  ASSUME NEW doc \in Uploads, doc.kind = "picture", NEW page \in Pages, NEW dpi
  PROVE  RightAnswer(doc, page, dpi, OpenImage(doc, page))
<1> DEFINE pages == Len(doc.sheets)
           frames == CountFrames(pages)
           first == Area(doc.sheets[1])
           frame == doc.sheets[page]
           answer == OpenImage(doc, page)
<1>1. pages \in Nat /\ MAX_PAGES \in Nat /\ page \in Int /\ MAX_PIXELS \in Nat
      /\ 1 \in 1..pages /\ doc.fails \in {"never", "open", "count"}
  BY UploadIs, UploadsType, PageLimits
<1>2. /\ first \in Nat
      /\ page \in 1..pages => /\ Area(frame) \in Nat
                              /\ frame.fails \in {"never", "load", "draw"}
  BY <1>1, UploadIs DEF Area
<1>3. There(doc, page) <=> page \in 1..pages
  BY DEF There
<1>4. WithinLimits(doc, page) <=>
        pages <= MAX_PAGES /\ first <= 2 * MAX_PIXELS /\ Area(frame) <= MAX_PIXELS
  BY DEF WithinLimits
<1>5. Sound(doc, page) <=> doc.fails = "never" /\ page \in 1..pages /\ frame.fails = "never"
  BY <1>3 DEF Sound
<1>6. (frames > MAX_PAGES <=> pages > MAX_PAGES) /\ (~(frames > MAX_PAGES) => frames = pages)
  BY <1>1 DEF CountFrames
<1>7. answer =
        IF doc.fails = "open" THEN Refused(422, "unreadable_image")
        ELSE IF first > 2 * MAX_PIXELS THEN Refused(413, "too_many_pixels")
        ELSE IF doc.fails = "count" THEN Refused(422, "unreadable_image")
        ELSE IF frames > MAX_PAGES THEN Refused(413, "too_many_pages")
        ELSE IF page \notin 1..frames THEN Refused(422, "no_such_page")
        ELSE IF frame.fails = "load" THEN Refused(422, "unreadable_image")
        ELSE IF Area(frame) > MAX_PIXELS THEN Refused(413, "too_many_pixels")
        ELSE IF frame.fails = "draw" THEN Refused(422, "unreadable_image")
        ELSE Loaded(frame.wide, frame.high)
  BY DEF OpenImage
<1> HIDE DEF answer, frames, first, pages
<1> DEFINE served == /\ doc.fails = "never" /\ first <= 2 * MAX_PIXELS /\ pages <= MAX_PAGES
                     /\ page \in 1..pages /\ frame.fails = "never" /\ Area(frame) <= MAX_PIXELS
<1>8. served <=> Sound(doc, page) /\ WithinLimits(doc, page)
  BY <1>4, <1>5
<1> HIDE DEF frame
<1>9. CASE served
  <2>1. answer = Loaded(frame.wide, frame.high)
    BY <1>1, <1>2, <1>6, <1>7, <1>9
  <2>2. Sound(doc, page) /\ WithinLimits(doc, page)
    BY <1>8, <1>9
  <2>3. answer.status = 200 /\ answer.why = "served"
    BY <2>1 DEF Loaded
  <2>4. InFull(doc.sheets[page], doc.kind, dpi, answer)
    BY <2>1 DEF InFull, frame
  <2>5. RightAnswer(doc, page, dpi, answer)
    BY <2>2, <2>3, <2>4, ServedRightly
  <2> QED
    BY <2>5 DEF answer
<1>10. CASE ~served
  <2>1. \/ answer = Refused(422, "unreadable_image")
        \/ answer = Refused(413, "too_many_pixels")
        \/ answer = Refused(413, "too_many_pages")
        \/ answer = Refused(422, "no_such_page") /\ page \notin 1..pages
    BY <1>1, <1>2, <1>6, <1>7, <1>10
  <2>2. answer.status # 200 /\ answer.status # 500
    BY <2>1 DEF Refused
  <2>3. answer.why = "no_such_page" => page \notin 1..pages
    BY <2>1 DEF Refused
  <2> QED
    BY <1>3, <1>8, <1>10, <2>2, <2>3, RefusedRightly DEF answer
<1> QED
  BY <1>9, <1>10

\* app.py, load_page: for every upload, page, dpi and limit, _render_pdf and _open_image
\* serve exactly the pages that are there, can be read and are within the limits, each
\* in full and none with more pixels than that but for rounding; and a page that is
\* there is never said to be missing.
THEOREM PagesServedIffThere == AnyPage => []ServedIffThere
<1> DEFINE J == loaded = NoPage \/ RightAnswer(loaded.doc, loaded.page, loaded.dpi, loaded.answer)
<1>1. loaded = NoPage => J
  OBVIOUS
<1>2. J /\ [Loads \/ Returns]_loaded => J'
  <2> SUFFICES ASSUME J, [Loads \/ Returns]_loaded PROVE J'
    OBVIOUS
  <2>1. CASE Loads
    <3>1. PICK doc \in Uploads, page \in Pages, dpi \in Resolutions :
            \E answer \in LoadPage(doc, page, dpi) :
              loaded' = [doc |-> doc, page |-> page, dpi |-> dpi, answer |-> answer]
      BY <2>1 DEF Loads
    <3>2. PICK answer \in LoadPage(doc, page, dpi) :
            loaded' = [doc |-> doc, page |-> page, dpi |-> dpi, answer |-> answer]
      BY <3>1
    <3>3. RightAnswer(doc, page, dpi, answer)
      <4>1. CASE doc.kind = "pdf"
        BY <3>2, <4>1, PdfServed DEF LoadPage
      <4>2. CASE doc.kind = "picture"
        <5>1. answer = OpenImage(doc, page)
          BY <3>2, <4>2 DEF LoadPage
        <5> QED
          BY <4>2, <5>1, PictureServed
      <4>3. CASE doc.kind = "other"
        <5>1. answer = Refused(415, "unsupported")
          BY <3>2, <4>3 DEF LoadPage
        <5>2. answer.status = 415 /\ answer.why = "unsupported"
          BY <5>1 DEF Refused
        <5>3. ~Sound(doc, page)
          BY <4>3 DEF Sound
        <5> QED
          BY <5>2, <5>3, RefusedRightly
      <4> QED
        BY <4>1, <4>2, <4>3, UploadIs
    <3>4. /\ loaded'.doc = doc /\ loaded'.page = page /\ loaded'.dpi = dpi
          /\ loaded'.answer = answer
      BY <3>2
    <3> QED
      BY <3>3, <3>4
  <2>2. CASE Returns
    BY <2>2 DEF Returns
  <2>3. CASE UNCHANGED loaded
    BY <2>3
  <2> QED
    BY <2>1, <2>2, <2>3
<1>3. J => ServedIffThere
  BY DEF ServedIffThere
<1> QED
  BY <1>1, <1>2, <1>3, PTL DEF AnyPage

(* A side there is for every rounding, so every request has an answer. *)

LEMMA RoundedIs ==
  ASSUME NEW side \in Nat, NEW unit \in Nat \ {0}
  PROVE  Rounded(side, unit) # {}
<1> DEFINE q == side \div unit
<1>1. q \in Nat /\ q * unit <= side /\ side < (q + 1) * unit
  <2>1. side = unit * q + (side % unit) /\ side % unit \in 0..(unit - 1) /\ q \in Nat
    OBVIOUS
  <2>2. unit * q = q * unit /\ (q + 1) * unit = q * unit + unit /\ q * unit \in Nat
    BY <2>1
  <2> QED
    BY <2>1, <2>2
<1>2. q + 1 \in 1..(side \div unit + 1) /\ (q + 1) - 1 = q
  BY <1>1
<1>3. ((q + 1) - 1) * unit <= side /\ side <= (q + 1) * unit
  BY <1>1, <1>2
<1>4. q + 1 \in Rounded(side, unit)
  BY <1>2, <1>3 DEF Rounded
<1> QED
  BY <1>4

LEMMA FittedIs ==
  ASSUME NEW side \in Nat \ {0}, NEW other \in Nat \ {0}
  PROVE  Fitted(side, other) # {}
<1> DEFINE all == MAX_PIXELS * side
           large == {s \in Nat : all <= s * s * other}
<1>1. all \in Nat \ {0}
  BY PageLimits
<1> HIDE DEF all
<1>2. all + 1 \in large
  <2>1. (all + 1) * (all + 1) \in Nat /\ all <= (all + 1) * (all + 1)
    BY <1>1
  <2>2. ((all + 1) * (all + 1)) * 1 <= ((all + 1) * (all + 1)) * other
    BY <2>1, TimesMonotone
  <2>3. ((all + 1) * (all + 1)) * other \in Nat
    BY <2>1
  <2> QED
    BY <1>1, <2>1, <2>2, <2>3
<1>3. PICK s \in large : \A n \in large : s <= n
  <2> HIDE DEF large
  <2>1. large \subseteq Nat
    BY DEF large
  <2> QED
    BY <1>2, <2>1, LeastExists
<1>4. s \in Nat /\ all <= s * s * other /\ s <= all + 1
  BY <1>2, <1>3
<1>5. s # 0
  BY <1>1, <1>4
<1>6. s - 1 \in Nat /\ s - 1 \notin large
  <2> HIDE DEF large
  <2>1. s - 1 \in Nat /\ ~(s <= s - 1)
    BY <1>4, <1>5
  <2> QED
    BY <1>3, <2>1
<1>7. (s - 1) * (s - 1) * other <= all
  <2>1. ~(all <= (s - 1) * (s - 1) * other)
    BY <1>6
  <2>2. (s - 1) * (s - 1) \in Nat
    BY <1>6
  <2>3. (s - 1) * (s - 1) * other \in Nat
    BY <2>2
  <2> QED
    BY <1>1, <2>1, <2>3
<1>8. s \in 1..(all + 1)
  BY <1>1, <1>4, <1>5
<1>9. s \in Fitted(side, other)
  BY <1>4, <1>7, <1>8 DEF Fitted, all
<1> QED
  BY <1>9

\* app.py, load_page: every request for a page has an answer, whatever has to be rounded.
THEOREM EveryPageIsAnswered ==
  ASSUME NEW doc \in Uploads, NEW page \in Pages, NEW dpi \in Resolutions
  PROVE  LoadPage(doc, page, dpi) # {}
<1>1. CASE doc.kind # "pdf"
  BY <1>1 DEF LoadPage
<1>2. CASE doc.kind = "pdf"
  <2>1. LoadPage(doc, page, dpi) = RenderPdf(doc, page, dpi)
    BY <1>2 DEF LoadPage
  <2> DEFINE sheet == doc.sheets[page]
             drawn == Drawn(sheet, dpi)
  <2>0. \/ RenderPdf(doc, page, dpi) # {}
        \/ /\ page \in 1..Len(doc.sheets) /\ sheet.wide # 0 /\ sheet.high # 0
           /\ RenderPdf(doc, page, dpi) = drawn
    <3> HIDE DEF drawn
    <3>1. RenderPdf(doc, page, dpi) =
            IF doc.fails # "never" THEN {Refused(422, "unreadable_pdf")}
            ELSE IF Len(doc.sheets) > MAX_PAGES THEN {Refused(413, "too_many_pages")}
            ELSE IF page \notin 1..Len(doc.sheets) THEN {Refused(422, "no_such_page")}
            ELSE IF sheet.fails = "load" THEN {Failed}
            ELSE IF sheet.wide = 0 \/ sheet.high = 0 THEN {Refused(422, "unreadable_pdf")}
            ELSE IF sheet.fails = "draw" THEN {Failed}
            ELSE drawn
      BY DEF RenderPdf, drawn
    <3>2. /\ {Failed} # {} /\ {Refused(422, "unreadable_pdf")} # {}
          /\ {Refused(413, "too_many_pages")} # {} /\ {Refused(422, "no_such_page")} # {}
      OBVIOUS
    <3> QED
      BY <3>1, <3>2
  <2>2. CASE /\ page \in 1..Len(doc.sheets) /\ sheet.wide # 0 /\ sheet.high # 0
    <3>1. /\ sheet.wide \in Nat \ {0} /\ sheet.high \in Nat \ {0} /\ dpi \in Nat \ {0}
          /\ PerInch \in Nat \ {0}
      BY <2>2, UploadIs, UploadsType, PageLimits
    <3>2. drawn # {}
      <4> HIDE DEF sheet
      <4>1. sheet.wide * dpi \in Nat /\ sheet.high * dpi \in Nat
        BY <3>1
      <4>2. PICK w \in Rounded(sheet.wide * dpi, PerInch) : TRUE
        BY <3>1, <4>1, RoundedIs
      <4>3. PICK h \in Rounded(sheet.high * dpi, PerInch) : TRUE
        BY <3>1, <4>1, RoundedIs
      <4>4. PICK v \in Fitted(sheet.wide, sheet.high) : TRUE
        BY <3>1, FittedIs
      <4>5. PICK k \in Fitted(sheet.high, sheet.wide) : TRUE
        BY <3>1, FittedIs
      <4>6. CASE Fits(sheet, dpi)
        <5>1. Loaded(w, h) \in drawn
          BY <4>2, <4>3, <4>6 DEF Drawn
        <5> QED
          BY <5>1
      <4>7. CASE ~Fits(sheet, dpi)
        <5>1. Loaded(v, k) \in drawn
          BY <4>4, <4>5, <4>7 DEF Drawn
        <5> QED
          BY <5>1
      <4> QED
        BY <4>6, <4>7
    <3> HIDE DEF drawn
    <3> QED
      BY <2>0, <2>1, <3>2
  <2>3. CASE ~(/\ page \in 1..Len(doc.sheets) /\ sheet.wide # 0 /\ sheet.high # 0)
    BY <2>0, <2>1, <2>3
  <2> QED
    BY <2>2, <2>3
<1> QED
  BY <1>1, <1>2

(******************************* finite sets *******************************)

\* If a set of finite sets is not empty, one of them is smallest.
LEMMA SmallestExists ==
  ASSUME NEW T, T # {}, \A s \in T : IsFiniteSet(s)
  PROVE  \E s \in T : \A t \in T : Cardinality(s) <= Cardinality(t)
<1> DEFINE sizes == {Cardinality(s) : s \in T}
<1>1. sizes \subseteq Nat /\ sizes # {}
  BY FS_CardinalityType
<1>2. PICK n \in sizes : \A m \in sizes : n <= m
  <2> HIDE DEF sizes
  <2> QED
    BY <1>1, LeastExists
<1> QED
  BY <1>2

\* A set within another is not larger, and smaller if an element is missing.
LEMMA FewerWithout ==
  ASSUME NEW S, IsFiniteSet(S), NEW T, T \subseteq S, NEW x \in S, x \notin T
  PROVE  IsFiniteSet(T) /\ Cardinality(T) < Cardinality(S)
<1>1. IsFiniteSet(T) /\ Cardinality(T) <= Cardinality(S) /\ (Cardinality(S) = Cardinality(T) => S = T)
  BY FS_Subset
<1>2. Cardinality(S) \in Nat /\ Cardinality(T) \in Nat
  BY <1>1, FS_CardinalityType
<1> QED
  BY <1>1, <1>2

\* Of finitely many values one is greatest.
LEMMA GreatestExists ==
  ASSUME NEW S, IsFiniteSet(S), S # {}, NEW v, \A x \in S : v[x] \in Int
  PROVE  \E x \in S : \A y \in S : v[y] <= v[x]
<1> DEFINE over(x) == {y \in S : v[y] > v[x]}
           T == {over(x) : x \in S}
<1>1. \A x \in S : IsFiniteSet(over(x))
  BY FS_Subset
<1>2. PICK s \in T : \A t \in T : Cardinality(s) <= Cardinality(t)
  <2>1. T # {} /\ \A t \in T : IsFiniteSet(t)
    BY <1>1
  <2> HIDE DEF T
  <2> QED
    BY <2>1, SmallestExists
<1>3. PICK x \in S : s = over(x)
  OBVIOUS
<1>4. ASSUME NEW y \in S, ~(v[y] <= v[x]) PROVE FALSE
  <2>1. y \in over(x) /\ y \notin over(y) /\ over(y) \subseteq over(x)
    BY <1>4
  <2>2. Cardinality(over(y)) < Cardinality(over(x))
    <3> HIDE DEF over
    <3> QED
      BY <1>1, <2>1, FewerWithout
  <2>3. Cardinality(over(y)) \in Nat /\ Cardinality(over(x)) \in Nat
    BY <1>1, FS_CardinalityType
  <2>4. Cardinality(over(x)) <= Cardinality(over(y))
    BY <1>2, <1>3
  <2> HIDE DEF over
  <2> QED
    BY <2>2, <2>3, <2>4
<1> QED
  BY <1>4

\* And one is least.
LEMMA LowestExists ==
  ASSUME NEW S, IsFiniteSet(S), S # {}, NEW v, \A x \in S : v[x] \in Int
  PROVE  \E x \in S : \A y \in S : v[x] <= v[y]
<1> DEFINE w == [x \in S |-> 0 - v[x]]
<1>1. \A x \in S : w[x] = 0 - v[x] /\ w[x] \in Int
  OBVIOUS
<1>2. PICK x \in S : \A y \in S : w[y] <= w[x]
  <2> HIDE DEF w
  <2> QED
    BY <1>1, GreatestExists
<1>3. ASSUME NEW y \in S PROVE v[x] <= v[y]
  <2>1. w[y] <= w[x] /\ w[y] = 0 - v[y] /\ w[x] = 0 - v[x] /\ v[x] \in Int /\ v[y] \in Int
    BY <1>1, <1>2
  <2> HIDE DEF w
  <2> QED
    BY <2>1
<1> QED
  BY <1>3

(******************************** sequences ********************************)

\* What a text is made of while anything is left: give of what is left, then the rest.
Unfolds(S, take, give, g) ==
  g = [s \in SUBSET S |-> IF s = {} THEN <<>> ELSE give[s] \o g[s \ take[s]]]

\* The subsets of S of n elements at most.
UpTo(S, n) == {s \in SUBSET S : Cardinality(s) <= n}

\* There is such a function for every finite set, one size after the other.
LEMMA UnfoldsExists ==
  ASSUME NEW S, IsFiniteSet(S), NEW take, NEW give,
         \A s \in SUBSET S : s # {} => \E x \in s : x \in take[s]
  PROVE  \E g : Unfolds(S, take, give, g)
<1> DEFINE Step(g, s) == IF s = {} THEN <<>> ELSE give[s] \o g[s \ take[s]]
           Some(n, g) == g = [s \in UpTo(S, n) |-> Step(g, s)]
           bad == {n \in Nat : ~\E g : Some(n, g)}
<1>1. \A s \in SUBSET S : IsFiniteSet(s) /\ Cardinality(s) \in Nat /\ Cardinality(s) <= Cardinality(S)
  BY FS_Subset, FS_CardinalityType
<1>2. ASSUME NEW s \in SUBSET S, s # {}
      PROVE  s \ take[s] \in SUBSET S /\ Cardinality(s \ take[s]) < Cardinality(s)
  <2>1. PICK x \in s : x \in take[s]
    BY <1>2
  <2> QED
    BY <1>1, <2>1, FewerWithout
<1>3. 0 \notin bad
  <2> DEFINE g == [s \in UpTo(S, 0) |-> <<>>]
  <2>1. \A s \in UpTo(S, 0) : s = {}
    BY <1>1, FS_EmptySet DEF UpTo
  <2>2. \A s \in UpTo(S, 0) : Step(g, s) = <<>>
    BY <2>1
  <2>3. Some(0, g)
    BY <2>2
  <2> QED
    BY <2>3
<1>4. ASSUME NEW n \in Nat, n \notin bad PROVE n + 1 \notin bad
  <2>1. PICK g : Some(n, g)
    BY <1>4
  <2> DEFINE h == [s \in UpTo(S, n + 1) |-> Step(g, s)]
  <2>2. ASSUME NEW s \in UpTo(S, n) PROVE s \in UpTo(S, n + 1) /\ g[s] = Step(g, s)
    <3>1. s \in UpTo(S, n + 1)
      BY <1>1 DEF UpTo
    <3>2. g = [r \in UpTo(S, n) |-> Step(g, r)]
      BY <2>1
    <3> HIDE DEF Step
    <3> QED
      BY <3>1, <3>2
  <2>3. \A s \in UpTo(S, n + 1) : s # {} => s \ take[s] \in UpTo(S, n)
    BY <1>1, <1>2 DEF UpTo
  <2>4. \A s \in UpTo(S, n) : h[s] = g[s]
    BY <2>2
  <2>5. ASSUME NEW s \in UpTo(S, n + 1) PROVE Step(h, s) = Step(g, s)
    <3>1. s # {} => h[s \ take[s]] = g[s \ take[s]]
      BY <2>3, <2>4
    <3> HIDE DEF h
    <3> QED
      BY <3>1
  <2>6. Some(n + 1, h)
    <3> HIDE DEF Step
    <3> QED
      BY <2>5
  <2> HIDE DEF h, Some
  <2> QED
    BY <2>6
<1>5. bad = {}
  <2> SUFFICES ASSUME bad # {} PROVE FALSE
    OBVIOUS
  <2>1. PICK n \in bad : \A m \in bad : n <= m
    <3>1. bad \subseteq Nat
      OBVIOUS
    <3> HIDE DEF bad
    <3> QED
      BY <3>1, LeastExists
  <2>2. n \in Nat
    OBVIOUS
  <2> HIDE DEF bad
  <2>3. n # 0 /\ n - 1 \in Nat /\ n - 1 \notin bad
    BY <1>3, <2>1, <2>2
  <2>4. n - 1 + 1 \notin bad
    BY <1>4, <2>3
  <2> QED
    BY <2>1, <2>2, <2>4
<1>6. Cardinality(S) \in Nat
  BY FS_CardinalityType
<1>7. PICK g : Some(Cardinality(S), g)
  BY <1>5, <1>6
<1>8. UpTo(S, Cardinality(S)) = SUBSET S
  BY <1>1 DEF UpTo
<1>9. Unfolds(S, take, give, g)
  BY <1>7, <1>8 DEF Unfolds
<1> QED
  BY <1>9

(******************************* the lines *********************************)

PageInv == box \in Seq(Boxes) /\ tables \in Seq(Boxes)

LEMMA LineTypes ==
  ASSUME PageInv
  PROVE  /\ Lines = 1..Len(box) /\ IsFiniteSet(Lines) /\ Len(box) \in Nat
         /\ \A l \in Lines : /\ box[l].x0 \in Int /\ box[l].x1 \in Int
                             /\ box[l].y0 \in Int /\ box[l].y1 \in Int
<1>1. Lines = 1..Len(box) /\ Len(box) \in Nat /\ \A l \in Lines : box[l] \in Boxes
  BY DEF PageInv, Lines
<1>2. \A b \in Boxes : b.x0 \in Int /\ b.x1 \in Int /\ b.y0 \in Int /\ b.y1 \in Int
  BY PageType
<1>3. IsFiniteSet(Lines)
  BY <1>1, FS_Interval
<1> QED
  BY <1>1, <1>2, <1>3

LEMMA TableTypes ==
  ASSUME PageInv
  PROVE  /\ DOMAIN tables = 1..Len(tables) /\ Len(tables) \in Nat
         /\ \A i \in DOMAIN tables : /\ tables[i].x0 \in Int /\ tables[i].x1 \in Int
                                     /\ tables[i].y0 \in Int /\ tables[i].y1 \in Int
<1>1. /\ DOMAIN tables = 1..Len(tables) /\ Len(tables) \in Nat
      /\ \A i \in DOMAIN tables : tables[i] \in Boxes
  BY DEF PageInv
<1>2. \A b \in Boxes : b.x0 \in Int /\ b.x1 \in Int /\ b.y0 \in Int /\ b.y1 \in Int
  BY PageType
<1> QED
  BY <1>1, <1>2

LEMMA MeasureTypes ==
  ASSUME PageInv
  PROVE  \A l \in Lines : /\ Top(l) \in Int /\ Width(l) \in Int
                          /\ Height(l) \in Nat \ {0} /\ CenterY2(l) \in Int
BY LineTypes DEF Top, Width, Height, CenterY2

\* A rank has a height of one of the lines.
LEMMA RankedIs ==
  ASSUME PageInv, NEW S \in SUBSET Lines, NEW k \in 1..Cardinality(S)
  PROVE  \E u \in S : Ranked(S, k) = Height(u)
<1> DEFINE below(h) == {l \in S : Height(l) < h}
           upto(h) == {l \in S : Height(l) <= h}
           enough == {l \in S : k <= Cardinality(upto(Height(l)))}
           v == [l \in S |-> Height(l)]
<1>1. IsFiniteSet(S) /\ \A l \in S : Height(l) \in Nat
  BY LineTypes, MeasureTypes, FS_Subset
<1>2. \A h : IsFiniteSet(below(h)) /\ IsFiniteSet(upto(h))
  BY <1>1, FS_Subset
<1>3. S # {}
  BY FS_EmptySet
<1>4. IsFiniteSet(enough) /\ enough \subseteq S
  BY <1>1, FS_Subset
<1>5. enough # {}
  <2>1. PICK t \in S : \A y \in S : v[y] <= v[t]
    <3>1. \A x \in S : v[x] \in Int
      BY <1>1
    <3> HIDE DEF v
    <3> QED
      BY <1>1, <1>3, <3>1, GreatestExists
  <2>2. upto(Height(t)) = S
    BY <2>1
  <2>3. k <= Cardinality(S)
    BY <1>1, FS_CardinalityType
  <2> QED
    BY <2>2, <2>3
<1>6. PICK u \in enough : \A y \in enough : v[u] <= v[y]
  <2>1. \A x \in enough : v[x] \in Int
    BY <1>1
  <2> HIDE DEF v, enough
  <2> QED
    BY <1>4, <1>5, <2>1, LowestExists
<1>7. k <= Cardinality(upto(Height(u))) /\ u \in S
  OBVIOUS
<1>8. Cardinality(below(Height(u))) < k
  <2>1. CASE below(Height(u)) = {}
    BY <2>1, FS_EmptySet
  <2>2. CASE below(Height(u)) # {}
    <3>1. PICK t \in below(Height(u)) : \A y \in below(Height(u)) : v[y] <= v[t]
      <4>1. \A x \in below(Height(u)) : v[x] \in Int
        BY <1>1
      <4> HIDE DEF v, below
      <4> QED
        BY <1>2, <2>2, <4>1, GreatestExists
    <3>2. upto(Height(t)) = below(Height(u))
      BY <1>1, <1>7, <3>1
    <3>3. t \notin enough
      BY <1>1, <1>6, <1>7, <3>1
    <3>4. ~(k <= Cardinality(below(Height(u))))
      BY <3>2, <3>3
    <3>5. Cardinality(below(Height(u))) \in Nat
      BY <1>2, FS_CardinalityType
    <3> HIDE DEF below
    <3> QED
      BY <3>4, <3>5
  <2> QED
    BY <2>1, <2>2
<1> DEFINE heights == {Height(l) : l \in S}
<1>9. /\ Height(u) \in heights
      /\ Cardinality(below(Height(u))) < k /\ k <= Cardinality(upto(Height(u)))
  BY <1>7, <1>8
<1>10. Ranked(S, k) \in heights
  BY <1>9 DEF Ranked
<1> QED
  BY <1>10

\* Twice the median is the sum of two heights.
LEMMA Tall2Is ==
  ASSUME PageInv, NEW S \in SUBSET Lines, S # {}
  PROVE  \E u, w \in S : Tall2(S) = Height(u) + Height(w)
<1> DEFINE n == Cardinality(S)
<1>1. IsFiniteSet(S)
  BY LineTypes, FS_Subset
<1>2. n \in Nat \ {0}
  BY <1>1, FS_CardinalityType, FS_EmptySet
<1>3. (n + 1) \div 2 \in 1..n /\ n \div 2 + 1 \in 1..n
  <2> HIDE DEF n
  <2> QED
    BY <1>2
<1>4. PICK u \in S : Ranked(S, (n + 1) \div 2) = Height(u)
  BY <1>3, RankedIs
<1>5. PICK w \in S : Ranked(S, n \div 2 + 1) = Height(w)
  BY <1>3, RankedIs
<1> QED
  BY <1>4, <1>5 DEF Tall2

LEMMA Tall2Type ==
  ASSUME PageInv, NEW S \in SUBSET Lines, S # {}
  PROVE  Tall2(S) \in Nat
<1>1. PICK u, w \in S : Tall2(S) = Height(u) + Height(w)
  BY Tall2Is
<1>2. Height(u) \in Nat /\ Height(w) \in Nat
  BY MeasureTypes
<1> QED
  BY <1>1, <1>2

LEMMA HighestIs ==
  ASSUME PageInv, NEW S \in SUBSET Lines, S # {}
  PROVE  Highest(S) \in S /\ \A l \in S : CenterY2(Highest(S)) <= CenterY2(l)
<1> DEFINE v == [l \in S |-> CenterY2(l)]
           w == [l \in S |-> l]
<1>1. IsFiniteSet(S) /\ \A l \in S : CenterY2(l) \in Int /\ l \in Int
  BY LineTypes, MeasureTypes, FS_Subset
<1>2. PICK h \in S : \A l \in S : v[h] <= v[l]
  <2>1. \A l \in S : v[l] \in Int
    BY <1>1
  <2> HIDE DEF v
  <2> QED
    BY <1>1, <2>1, LowestExists
<1> DEFINE T == {l \in S : CenterY2(l) = CenterY2(h)}
<1>3. PICK f \in T : \A l \in T : w[f] <= w[l]
  <2>1. IsFiniteSet(T) /\ T # {} /\ \A l \in T : w[l] \in Int
    BY <1>1, FS_Subset
  <2> HIDE DEF w, T
  <2> QED
    BY <2>1, LowestExists
<1>4. \A l \in S : CenterY2(f) < CenterY2(l) \/ (CenterY2(f) = CenterY2(l) /\ f <= l)
  BY <1>1, <1>2, <1>3
<1>5. /\ Highest(S) \in S
      /\ \A l \in S : \/ CenterY2(Highest(S)) < CenterY2(l)
                      \/ CenterY2(Highest(S)) = CenterY2(l) /\ Highest(S) <= l
  BY <1>3, <1>4 DEF Highest
<1> QED
  BY <1>1, <1>5

LEMMA LeftmostIs ==
  ASSUME PageInv, NEW S \in SUBSET Lines, S # {}
  PROVE  Leftmost(S) \in S
<1> DEFINE v == [l \in S |-> box[l].x0]
           w == [l \in S |-> CenterY2(l)]
           z == [l \in S |-> l]
<1>1. IsFiniteSet(S) /\ \A l \in S : box[l].x0 \in Int /\ CenterY2(l) \in Int /\ l \in Int
  BY LineTypes, MeasureTypes, FS_Subset
<1>2. PICK h \in S : \A l \in S : v[h] <= v[l]
  <2>1. \A l \in S : v[l] \in Int
    BY <1>1
  <2> HIDE DEF v
  <2> QED
    BY <1>1, <2>1, LowestExists
<1> DEFINE T == {l \in S : box[l].x0 = box[h].x0}
<1>3. PICK g \in T : \A l \in T : w[g] <= w[l]
  <2>1. IsFiniteSet(T) /\ T # {} /\ \A l \in T : w[l] \in Int
    BY <1>1, FS_Subset
  <2> HIDE DEF w, T
  <2> QED
    BY <2>1, LowestExists
<1> DEFINE U == {l \in T : CenterY2(l) = CenterY2(g)}
<1>4. PICK f \in U : \A l \in U : z[f] <= z[l]
  <2>1. IsFiniteSet(T)
    BY <1>1, FS_Subset
  <2>2. IsFiniteSet(U) /\ U # {} /\ \A l \in U : z[l] \in Int
    <3> HIDE DEF T
    <3>1. IsFiniteSet(U) /\ U # {}
      BY <2>1, <1>3, FS_Subset
    <3>2. T \subseteq S
      BY DEF T
    <3> QED
      BY <1>1, <3>1, <3>2
  <2> HIDE DEF z, U
  <2> QED
    BY <2>2, LowestExists
<1>5. \A l \in S : v[h] <= v[l] /\ v[h] \in Int /\ v[l] \in Int /\ v[l] = box[l].x0
  BY <1>1, <1>2
<1>6. \A l \in S : \/ box[f].x0 < box[l].x0
                   \/ box[f].x0 = box[l].x0 /\ CenterY2(f) < CenterY2(l)
                   \/ box[f].x0 = box[l].x0 /\ CenterY2(f) = CenterY2(l) /\ f <= l
  <2> SUFFICES ASSUME NEW l \in S, ~(box[f].x0 < box[l].x0)
               PROVE  \/ box[f].x0 = box[l].x0 /\ CenterY2(f) < CenterY2(l)
                      \/ box[f].x0 = box[l].x0 /\ CenterY2(f) = CenterY2(l) /\ f <= l
    OBVIOUS
  <2>1. box[f].x0 = box[h].x0 /\ f \in S
    BY <1>4
  <2>2. l \in T
    BY <1>1, <1>5, <2>1
  <2>3. CenterY2(g) <= CenterY2(l) /\ CenterY2(f) = CenterY2(g)
    BY <1>3, <1>4, <2>2
  <2>4. CenterY2(f) = CenterY2(l) => f <= l
    BY <1>4, <2>2, <2>3
  <2> HIDE DEF v, w, z
  <2> QED
    BY <1>1, <2>1, <2>2, <2>3, <2>4
<1>7. f \in S
  BY <1>4
<1> HIDE DEF U, T, v, w, z
<1> QED
  BY <1>6, <1>7 DEF Leftmost

(********************************* the texts *******************************)

\* A text has every line of S in one row, and no other.
ReadOnce(T, S) ==
  /\ T \in Seq(SUBSET S)
  /\ \A l \in S : \E i \in 1..Len(T) : l \in T[i]
  /\ \A i, j \in 1..Len(T) : \A l \in T[i] : l \in T[j] => i = j

LEMMA AllRead ==
  ASSUME NEW T, NEW S, ReadOnce(T, S)
  PROVE  UNION {T[i] : i \in 1..Len(T)} = S
BY DEF ReadOnce

LEMMA OneRow ==
  ASSUME NEW row
  PROVE  ReadOnce(<<row>>, row)
<1>1. Len(<<row>>) = 1 /\ <<row>>[1] = row /\ <<row>> \in Seq(SUBSET row)
  <2>1. row \in SUBSET row
    OBVIOUS
  <2> QED
    BY <2>1
<1> QED
  BY <1>1 DEF ReadOnce

\* Two texts, one after the other.
LEMMA Behind ==
  ASSUME NEW S, NEW A \in Seq(S), NEW B \in Seq(S), NEW T, T = A \o B
  PROVE  /\ T \in Seq(S) /\ Len(A) \in Nat /\ Len(B) \in Nat /\ Len(T) = Len(A) + Len(B)
         /\ \A i \in 1..Len(A) : i \in 1..Len(T) /\ T[i] = A[i]
         /\ \A i \in 1..Len(B) : Len(A) + i \in 1..Len(T) /\ T[Len(A) + i] = B[i]
         /\ \A i \in 1..Len(T) : \/ i \in 1..Len(A)
                                 \/ i > Len(A) /\ i - Len(A) \in 1..Len(B) /\ T[i] = B[i - Len(A)]
<1>1. T \in Seq(S) /\ Len(A) \in Nat /\ Len(B) \in Nat /\ Len(T) = Len(A) + Len(B)
  OBVIOUS
<1>2. \A i \in 1..Len(A) : i \in 1..Len(T) /\ T[i] = A[i]
  OBVIOUS
<1>3. \A i \in 1..Len(B) : Len(A) + i \in 1..Len(T) /\ T[Len(A) + i] = B[i]
  OBVIOUS
<1>4. ASSUME NEW i \in 1..Len(T), i \notin 1..Len(A)
      PROVE  i > Len(A) /\ i - Len(A) \in 1..Len(B) /\ T[i] = B[i - Len(A)]
  <2>1. i > Len(A) /\ i - Len(A) \in 1..Len(B) /\ Len(A) + (i - Len(A)) = i
    BY <1>1, <1>4
  <2> QED
    BY <1>3, <2>1
<1> QED
  BY <1>1, <1>2, <1>3, <1>4

LEMMA ReadBehind ==
  ASSUME NEW S, NEW L \in SUBSET S, NEW A, NEW B, ReadOnce(A, L), ReadOnce(B, S \ L)
  PROVE  ReadOnce(A \o B, S)
<1> DEFINE T == A \o B
<1>1. A \in Seq(SUBSET S) /\ B \in Seq(SUBSET S)
  BY DEF ReadOnce
<1>2. /\ T \in Seq(SUBSET S) /\ Len(A) \in Nat /\ Len(B) \in Nat /\ Len(T) = Len(A) + Len(B)
      /\ \A i \in 1..Len(A) : i \in 1..Len(T) /\ T[i] = A[i]
      /\ \A i \in 1..Len(B) : Len(A) + i \in 1..Len(T) /\ T[Len(A) + i] = B[i]
      /\ \A i \in 1..Len(T) : \/ i \in 1..Len(A)
                              \/ i > Len(A) /\ i - Len(A) \in 1..Len(B) /\ T[i] = B[i - Len(A)]
  <2> HIDE DEF T
  <2>1. T = A \o B
    BY DEF T
  <2> QED
    BY ONLY <1>1, <2>1, Behind
<1> HIDE DEF T
<1>3. /\ \A i \in 1..Len(A) : A[i] \subseteq L
      /\ \A i \in 1..Len(B) : B[i] \subseteq S \ L
  BY DEF ReadOnce
<1>4. ASSUME NEW l \in S PROVE \E i \in 1..Len(T) : l \in T[i]
  <2>1. CASE l \in L
    BY <1>2, <2>1 DEF ReadOnce
  <2>2. CASE l \notin L
    BY <1>2, <2>2 DEF ReadOnce
  <2> QED
    BY <2>1, <2>2
<1>5. ASSUME NEW i \in 1..Len(T), NEW j \in 1..Len(T), NEW l \in T[i], l \in T[j]
      PROVE  i = j
  <2>1. CASE l \in L
    <3>1. i \in 1..Len(A) /\ j \in 1..Len(A) /\ l \in A[i] /\ l \in A[j]
      BY <1>2, <1>3, <1>5, <2>1
    <3> QED
      BY <3>1 DEF ReadOnce
  <2>2. CASE l \notin L
    <3>1. i \notin 1..Len(A) /\ j \notin 1..Len(A)
      BY <1>2, <1>3, <1>5, <2>2
    <3>2. /\ i - Len(A) \in 1..Len(B) /\ l \in B[i - Len(A)]
          /\ j - Len(A) \in 1..Len(B) /\ l \in B[j - Len(A)]
      BY <1>2, <1>5, <3>1
    <3>3. i - Len(A) = j - Len(A)
      BY <3>2 DEF ReadOnce
    <3> QED
      BY <1>2, <3>3
  <2> QED
    BY <2>1, <2>2
<1>6. ReadOnce(T, S)
  BY <1>2, <1>4, <1>5 DEF ReadOnce
<1> QED
  BY <1>6 DEF T

(******************************** the rows *********************************)

RowOf(s, tall2) == {l \in s : Joins(l, Highest(s), tall2)}

RowsAre(S, g) ==
  g = [s \in SUBSET S |-> IF s = {} THEN <<>>
                          ELSE <<RowOf(s, Tall2(S))>> \o g[s \ RowOf(s, Tall2(S))]]

LEMMA RowTaken ==
  ASSUME PageInv, NEW S \in SUBSET Lines, S # {}, NEW t \in Nat
  PROVE  /\ RowOf(S, t) \subseteq S /\ Highest(S) \in RowOf(S, t)
         /\ \A l \in RowOf(S, t) : /\ CenterY2(Highest(S)) <= CenterY2(l)
                                   /\ 2 * (CenterY2(l) - CenterY2(Highest(S))) <= t
         /\ \A l \in S \ RowOf(S, t) : 2 * (CenterY2(l) - CenterY2(Highest(S))) > t
<1> DEFINE h == Highest(S)
<1>1. h \in S /\ \A l \in S : CenterY2(h) <= CenterY2(l)
  BY HighestIs
<1>2. \A l \in S : CenterY2(l) \in Int
  BY MeasureTypes
<1>3. \A l \in S : l \in RowOf(S, t) <=> 2 * Distance(CenterY2(l), CenterY2(h)) <= t
  BY DEF RowOf, Joins
<1>4. \A l \in S : Distance(CenterY2(l), CenterY2(h)) = CenterY2(l) - CenterY2(h)
  <2> HIDE DEF h
  <2> QED
    BY <1>1, <1>2 DEF Distance
<1>5. RowOf(S, t) \subseteq S
  BY DEF RowOf
<1> HIDE DEF h
<1>6. h \in RowOf(S, t)
  BY <1>1, <1>2, <1>3, <1>4
<1>7. \A l \in S : l \in RowOf(S, t) <=> 2 * (CenterY2(l) - CenterY2(h)) <= t
  BY <1>3, <1>4
<1>8. \A l \in S \ RowOf(S, t) : 2 * (CenterY2(l) - CenterY2(h)) > t
  BY <1>1, <1>2, <1>7
<1>9. \A l \in RowOf(S, t) : CenterY2(h) <= CenterY2(l) /\ 2 * (CenterY2(l) - CenterY2(h)) <= t
  BY <1>1, <1>5, <1>7
<1> QED
  BY <1>5, <1>6, <1>8, <1>9 DEF h

LEMMA RowsIs ==
  ASSUME PageInv, NEW S \in SUBSET Lines
  PROVE  \E g : RowsAre(S, g) /\ Rows(S) = g[S]
<1> DEFINE t == Tall2(S)
           take == [s \in SUBSET S |-> RowOf(s, t)]
           give == [s \in SUBSET S |-> <<RowOf(s, t)>>]
           it == CHOOSE g : RowsAre(S, g)
<1>1. CASE S = {}
  <2>1. RowsAre(S, [s \in SUBSET S |-> <<>>])
    BY <1>1 DEF RowsAre
  <2>2. RowsAre(S, it)
    BY <2>1
  <2>3. Rows(S) = it[S]
    BY DEF Rows, RowsAre, RowOf
  <2> QED
    BY <2>2, <2>3
<1>2. CASE S # {}
  <2>1. t \in Nat
    BY <1>2, Tall2Type
  <2>2. \A s \in SUBSET S : s # {} => \E x \in s : x \in take[s]
    <3> SUFFICES ASSUME NEW s \in SUBSET S, s # {} PROVE \E x \in s : x \in take[s]
      OBVIOUS
    <3>1. s \in SUBSET Lines
      OBVIOUS
    <3> HIDE DEF t
    <3>2. RowOf(s, t) \subseteq s /\ Highest(s) \in RowOf(s, t)
      BY <2>1, <3>1, RowTaken
    <3> QED
      BY <3>2
  <2>3. IsFiniteSet(S)
    BY LineTypes, FS_Subset
  <2>4. PICK g : Unfolds(S, take, give, g)
    <3> HIDE DEF take, give
    <3> QED
      BY <2>2, <2>3, UnfoldsExists
  <2>5. RowsAre(S, g)
    BY <2>4 DEF Unfolds, RowsAre
  <2>6. RowsAre(S, it)
    BY <2>5
  <2>7. Rows(S) = it[S]
    BY DEF Rows, RowsAre, RowOf
  <2> QED
    BY <2>6, <2>7
<1> QED
  BY <1>1, <1>2

\* The lines of S by rows from the top: each in one, the row as far as half the
\* height t reaches from its first line, and every later line farther.
Grouped(S, t, R) ==
  /\ ReadOnce(R, S)
  /\ \A i \in 1..Len(R) : \E h \in R[i] :
       /\ \A l \in R[i] : CenterY2(h) <= CenterY2(l) /\ 2 * (CenterY2(l) - CenterY2(h)) <= t
       /\ \A j \in 1..Len(R) : \A l \in R[j] : i < j => 2 * (CenterY2(l) - CenterY2(h)) > t

\* One row more, above the others.
LEMMA GroupedMore ==
  ASSUME PageInv, NEW S \in SUBSET Lines, S # {}, NEW t \in Nat,
         NEW R, Grouped(S \ RowOf(S, t), t, R)
  PROVE  Grouped(S, t, <<RowOf(S, t)>> \o R)
<1> DEFINE row == RowOf(S, t)
           rest == S \ row
           Q == <<row>> \o R
<1>1. ReadOnce(R, rest) /\ R \in Seq(SUBSET rest)
  BY DEF Grouped, ReadOnce
<1>2. /\ row \subseteq S /\ Highest(S) \in row
      /\ \A l \in row : CenterY2(Highest(S)) <= CenterY2(l) /\ 2 * (CenterY2(l) - CenterY2(Highest(S))) <= t
      /\ \A l \in rest : 2 * (CenterY2(l) - CenterY2(Highest(S))) > t
  BY RowTaken
<1>3. ReadOnce(Q, S)
  <2> HIDE DEF row
  <2> QED
    BY <1>1, <1>2, OneRow, ReadBehind
<1>4. /\ Len(R) \in Nat /\ Len(Q) = Len(R) + 1 /\ Q[1] = row
      /\ \A i \in 1..Len(R) : R[i] \in SUBSET rest
      /\ \A i \in 2..Len(Q) : i - 1 \in 1..Len(R) /\ Q[i] = R[i - 1]
  <2> HIDE DEF row, rest
  <2>1. Len(R) \in Nat /\ Len(Q) = Len(R) + 1 /\ Q[1] = row
        /\ \A i \in 1..Len(R) : Q[i + 1] = R[i] /\ R[i] \in SUBSET rest
    BY <1>1
  <2>2. ASSUME NEW i \in 2..Len(Q) PROVE i - 1 \in 1..Len(R) /\ Q[i] = R[i - 1]
    <3> HIDE DEF Q
    <3>1. i - 1 \in 1..Len(R) /\ i - 1 + 1 = i
      BY <2>1
    <3> QED
      BY <2>1, <3>1
  <2> QED
    BY <2>1, <2>2
<1> HIDE DEF Q
<1>5. ASSUME NEW i \in 1..Len(Q)
      PROVE  \E h \in Q[i] :
               /\ \A l \in Q[i] : CenterY2(h) <= CenterY2(l) /\ 2 * (CenterY2(l) - CenterY2(h)) <= t
               /\ \A j \in 1..Len(Q) : \A l \in Q[j] : i < j => 2 * (CenterY2(l) - CenterY2(h)) > t
  <2>1. CASE i = 1
    <3>1. \A j \in 1..Len(Q) : \A l \in Q[j] : 1 < j => l \in rest
      <4> SUFFICES ASSUME NEW j \in 1..Len(Q), NEW l \in Q[j], 1 < j PROVE l \in rest
        OBVIOUS
      <4>1. j \in 2..Len(Q)
        BY <1>4
      <4> QED
        BY <1>4, <4>1
    <3> HIDE DEF row, rest
    <3> QED
      BY <1>2, <1>4, <2>1, <3>1
  <2>2. CASE i # 1
    <3>1. i \in 2..Len(Q)
      BY <1>4, <2>2
    <3>2. i - 1 \in 1..Len(R) /\ Q[i] = R[i - 1]
      BY <1>4, <3>1
    <3>3. PICK h \in R[i - 1] :
            /\ \A l \in R[i - 1] : CenterY2(h) <= CenterY2(l) /\ 2 * (CenterY2(l) - CenterY2(h)) <= t
            /\ \A j \in 1..Len(R) : \A l \in R[j] : i - 1 < j => 2 * (CenterY2(l) - CenterY2(h)) > t
      BY <3>2 DEF Grouped
    <3>4. ASSUME NEW j \in 1..Len(Q), NEW l \in Q[j], i < j
          PROVE  2 * (CenterY2(l) - CenterY2(h)) > t
      <4>1. j \in 2..Len(Q) /\ i - 1 < j - 1
        BY <1>4, <3>1, <3>4
      <4>2. j - 1 \in 1..Len(R) /\ l \in R[j - 1]
        BY <1>4, <4>1, <3>4
      <4> QED
        BY <3>3, <4>1, <4>2
    <3> QED
      BY <3>2, <3>3, <3>4
  <2> QED
    BY <2>1, <2>2
<1>6. Grouped(S, t, Q)
  BY <1>3, <1>5 DEF Grouped
<1> QED
  BY <1>6 DEF Q

LEMMA RowsGrouped ==
  ASSUME PageInv, NEW S \in SUBSET Lines
  PROVE  Grouped(S, Tall2(S), Rows(S))
<1> DEFINE t == Tall2(S)
<1>1. PICK g : RowsAre(S, g) /\ Rows(S) = g[S]
  BY RowsIs
<1> DEFINE bad == {s \in SUBSET S : ~Grouped(s, t, g[s])}
<1> SUFFICES ASSUME bad # {} PROVE FALSE
  BY <1>1
<1>2. \A s \in SUBSET S : IsFiniteSet(s) /\ Cardinality(s) \in Nat
  BY LineTypes, FS_Subset, FS_CardinalityType
<1>3. PICK s \in bad : \A r \in bad : Cardinality(s) <= Cardinality(r)
  <2>1. \A r \in bad : IsFiniteSet(r)
    BY <1>2
  <2> HIDE DEF bad
  <2> QED
    BY <2>1, SmallestExists
<1>4. s \in SUBSET S /\ ~Grouped(s, t, g[s])
  OBVIOUS
<1>5. CASE s = {}
  <2>1. g[s] = <<>>
    BY <1>1, <1>4, <1>5 DEF RowsAre
  <2> QED
    BY <1>4, <1>5, <2>1 DEF Grouped, ReadOnce
<1>6. CASE s # {}
  <2>1. S # {} /\ t \in Nat
    BY <1>4, <1>6, Tall2Type
  <2> DEFINE rest == s \ RowOf(s, t)
  <2>2. g[s] = <<RowOf(s, t)>> \o g[rest]
    BY <1>1, <1>4, <1>6 DEF RowsAre
  <2> HIDE DEF t
  <2>3. Highest(s) \in s /\ Highest(s) \in RowOf(s, t)
    BY <1>4, <1>6, <2>1, RowTaken, HighestIs
  <2>4. rest \in SUBSET S /\ Cardinality(rest) < Cardinality(s)
    BY <1>2, <1>4, <2>3, FewerWithout
  <2>5. Cardinality(rest) \in Nat /\ Cardinality(s) \in Nat
    BY <1>2, <1>4, <2>4
  <2>6. rest \notin bad
    <3> HIDE DEF bad, rest
    <3> QED
      BY <1>3, <2>4, <2>5
  <2>7. Grouped(rest, t, g[rest])
    BY <2>4, <2>6
  <2>8. s \in SUBSET Lines
    BY <1>4
  <2>9. Grouped(s, t, <<RowOf(s, t)>> \o g[rest])
    BY <1>6, <2>1, <2>7, <2>8, GroupedMore
  <2> QED
    BY <1>4, <2>2, <2>9
<1> QED
  BY <1>5, <1>6

\* What the other lemmas use of it.
LEMMA RowsFacts ==
  ASSUME PageInv, NEW S \in SUBSET Lines, NEW R, R = Rows(S)
  PROVE  /\ R \in Seq(SUBSET S) /\ Len(R) \in Nat /\ DOMAIN R = 1..Len(R)
         /\ \A i \in 1..Len(R) : R[i] \in SUBSET S /\ R[i] # {}
         /\ \A l \in S : \E i \in 1..Len(R) : l \in R[i]
         /\ \A i, j \in 1..Len(R) : \A l \in R[i] : l \in R[j] => i = j
<1>1. Grouped(S, Tall2(S), R)
  BY RowsGrouped
<1>2. R \in Seq(SUBSET S)
  BY <1>1 DEF Grouped, ReadOnce
<1>3. Len(R) \in Nat /\ DOMAIN R = 1..Len(R) /\ \A i \in 1..Len(R) : R[i] \in SUBSET S
  BY <1>2
<1>4. \A i \in 1..Len(R) : R[i] # {}
  BY <1>1 DEF Grouped
<1> QED
  BY <1>1, <1>2, <1>3, <1>4 DEF Grouped, ReadOnce

\* The lines are of one size, more or less.
OneSize == \A a, b \in Lines : box[a].y0 < box[a].y1 /\ Height(a) < 2 * Height(b)

LEMMA TallIs ==
  ASSUME PageInv, OneSize, NEW l \in Lines
  PROVE  /\ 2 * box[l].y0 = CenterY2(l) - Height(l) /\ 2 * box[l].y1 = CenterY2(l) + Height(l)
         /\ Height(l) = box[l].y1 - box[l].y0
BY LineTypes DEF OneSize, Height, CenterY2

\* Where the middles are, by the edges.
LEMMA Apart ==
  ASSUME NEW p \in Int, NEW q \in Int, NEW m \in Int, NEW n \in Int, NEW g \in Nat, NEW h \in Nat,
         p <= q, 2 * q = n - h, 2 * p = m + g
  PROVE  n - m >= g + h
OBVIOUS

LEMMA Descends ==
  ASSUME NEW p \in Int, NEW q \in Int, NEW r \in Int, NEW m \in Int, NEW n \in Int,
         NEW g \in Nat, NEW h \in Nat,
         m - g <= n, 2 * p = m - g, 2 * r = n + h, r <= q
  PROVE  p <= q
OBVIOUS

\* A line above another is in an earlier row.
LEMMA AboveEarlier ==
  ASSUME PageInv, OneSize, NEW S \in SUBSET Lines, NEW R, R = Rows(S),
         NEW i \in 1..Len(R), NEW j \in 1..Len(R), NEW a \in R[i], NEW b \in R[j], Above(a, b)
  PROVE  i < j
<1> DEFINE t == Tall2(S)
<1>1. Grouped(S, t, R)
  BY RowsGrouped
<1>2. a \in S /\ b \in S /\ Len(R) \in Nat
  BY RowsFacts
<1>3. PICK u, w \in S : t = Height(u) + Height(w)
  BY <1>2, Tall2Is
<1>4. /\ Height(a) \in Nat /\ Height(b) \in Nat /\ Height(u) \in Nat /\ Height(w) \in Nat
      /\ CenterY2(a) \in Int /\ CenterY2(b) \in Int
  BY <1>2, MeasureTypes
<1>5. Height(u) < 2 * Height(a) /\ Height(w) < 2 * Height(b)
  BY <1>2 DEF OneSize
<1>6. CenterY2(b) - CenterY2(a) >= Height(a) + Height(b)
  <2>1. /\ box[a].y1 <= box[b].y0 /\ box[a].y1 \in Int /\ box[b].y0 \in Int
        /\ 2 * box[b].y0 = CenterY2(b) - Height(b) /\ 2 * box[a].y1 = CenterY2(a) + Height(a)
    BY <1>2, TallIs, LineTypes DEF Above
  <2> QED
    BY <1>4, <2>1, Apart
<1>7. PICK h \in R[j] :
        /\ \A l \in R[j] : CenterY2(h) <= CenterY2(l) /\ 2 * (CenterY2(l) - CenterY2(h)) <= t
        /\ \A k \in 1..Len(R) : \A l \in R[k] : j < k => 2 * (CenterY2(l) - CenterY2(h)) > t
  BY <1>1 DEF Grouped
<1>8. h \in Lines /\ CenterY2(h) \in Int
  BY RowsFacts, MeasureTypes
<1>9. CenterY2(h) <= CenterY2(b) /\ 2 * (CenterY2(b) - CenterY2(h)) <= t
  BY <1>7
<1> HIDE DEF t
<1>10. t < 2 * (CenterY2(b) - CenterY2(a))
  BY <1>3, <1>4, <1>5, <1>6
<1>11. i # j
  <2> SUFFICES ASSUME i = j PROVE FALSE
    OBVIOUS
  <2>1. CenterY2(h) <= CenterY2(a)
    BY <1>7
  <2> QED
    BY <1>3, <1>4, <1>8, <1>9, <1>10, <2>1
<1>12. ~(j < i)
  <2> SUFFICES ASSUME j < i PROVE FALSE
    OBVIOUS
  <2>1. 2 * (CenterY2(a) - CenterY2(h)) > t
    BY <1>7
  <2> QED
    BY <1>3, <1>4, <1>8, <1>9, <1>10, <2>1
<1> QED
  BY <1>2, <1>11, <1>12

LEMMA LevelFacts ==
  ASSUME PageInv, Level
  PROVE  /\ OneSize /\ Loose \subseteq Lines
         /\ \A a, b \in Loose : Beside(a, b) \/ Above(a, b) \/ Above(b, a)
BY DEF Level, OneSize, Loose, In

\* The rows of a level page begin one below the other.
LEMMA TopsDescend ==
  ASSUME PageInv, Level, NEW R, R = Rows(Loose),
         NEW i \in 1..Len(R), NEW j \in 1..Len(R), NEW a \in R[i], NEW b \in R[j], i < j
  PROVE  Top(a) <= Top(b)
<1> DEFINE t == Tall2(Loose)
<1>1. OneSize /\ Loose \in SUBSET Lines
  BY LevelFacts
<1>2. Grouped(Loose, t, R)
  BY <1>1, RowsGrouped
<1>3. PICK h \in R[i] :
        /\ \A l \in R[i] : CenterY2(h) <= CenterY2(l) /\ 2 * (CenterY2(l) - CenterY2(h)) <= t
        /\ \A k \in 1..Len(R) : \A l \in R[k] : i < k => 2 * (CenterY2(l) - CenterY2(h)) > t
  BY <1>2 DEF Grouped
<1>4. a \in Loose /\ b \in Loose /\ h \in Loose /\ a \in Lines /\ b \in Lines /\ h \in Lines
  BY <1>1, RowsFacts
<1>5. PICK u, w \in Loose : t = Height(u) + Height(w)
  BY <1>1, <1>4, Tall2Is
<1>6. /\ Height(u) \in Nat /\ Height(w) \in Nat /\ u \in Lines /\ w \in Lines
      /\ CenterY2(a) \in Int /\ CenterY2(b) \in Int /\ CenterY2(h) \in Int /\ Height(a) \in Nat
      /\ Height(b) \in Nat /\ Height(h) \in Nat
  BY <1>1, <1>4, MeasureTypes
<1>7. 2 * (CenterY2(b) - CenterY2(h)) > Height(u) + Height(w)
  BY <1>3, <1>5
<1> HIDE DEF t
<1>8. ~Above(b, h)
  BY <1>1, <1>4, AboveEarlier, RowsFacts
<1>9. ~Beside(h, b)
  <2> SUFFICES ASSUME Beside(h, b) PROVE FALSE
    OBVIOUS
  <2>1. Distance(CenterY2(h), CenterY2(b)) <= Height(u) /\ Distance(CenterY2(h), CenterY2(b)) <= Height(w)
    BY <1>6 DEF Beside
  <2> QED
    BY <1>6, <1>7, <2>1 DEF Distance
<1>10. Above(h, b)
  BY <1>4, <1>8, <1>9, LevelFacts
<1>11. ~Above(a, h) /\ ~Above(h, a)
  BY <1>1, <1>4, AboveEarlier, RowsFacts
<1>12. Distance(CenterY2(a), CenterY2(h)) <= Height(a)
  BY <1>4, <1>11, LevelFacts DEF Beside
<1>13. CenterY2(a) - Height(a) <= CenterY2(h)
  BY <1>6, <1>12 DEF Distance
<1>14. /\ box[a].y0 \in Int /\ box[b].y0 \in Int /\ box[h].y1 \in Int
       /\ 2 * box[a].y0 = CenterY2(a) - Height(a) /\ 2 * box[h].y1 = CenterY2(h) + Height(h)
       /\ box[h].y1 <= box[b].y0
  BY <1>1, <1>4, <1>10, TallIs, LineTypes DEF Above
<1> QED
  BY <1>6, <1>13, <1>14, Descends DEF Top

(******************************* the columns *******************************)

LEMMA GutterType ==
  ASSUME PageInv, NEW S \in SUBSET Lines
  PROVE  Gutter(S) \in Int
<1> DEFINE narrow == {l \in S : 100 * Width(l) < 48 * WIDTH}
           left(x) == {l \in narrow : box[l].x1 <= x}
           right(x) == {l \in narrow : box[l].x0 >= x}
           balance(x) == Smaller(Cardinality(left(x)), Cardinality(right(x)))
           first == (35 * WIDTH) \div 100
           last == (65 * WIDTH) \div 100 - 1
           step == IF WIDTH < 200 THEN 1 ELSE WIDTH \div 200
           splits == {x \in first .. last :
                        /\ (x - first) % step = 0
                        /\ \A l \in narrow : ~(box[l].x0 < x /\ x < box[l].x1)
                        /\ balance(x) >= 4 /\ Prose(left(x)) /\ Prose(right(x))}
           v == [x \in splits |-> balance(x)]
           z == [x \in splits |-> x]
<1>1. first \in Int /\ last \in Int
  BY PageType
<1>2. IsFiniteSet(splits) /\ splits \subseteq Int
  <2>1. splits \subseteq first .. last
    OBVIOUS
  <2>2. IsFiniteSet(first .. last)
    <3> HIDE DEF first, last
    <3> QED
      BY <1>1, FS_Interval
  <2> HIDE DEF splits, first, last
  <2>3. splits \in SUBSET (first .. last)
    BY <2>1
  <2>4. IsFiniteSet(splits)
    BY <2>2, <2>3, FS_Subset
  <2> QED
    BY <2>1, <2>4
<1>3. \A x : balance(x) \in Int
  <2>1. IsFiniteSet(S)
    BY LineTypes, FS_Subset
  <2>2. \A x : IsFiniteSet(left(x)) /\ IsFiniteSet(right(x))
    BY <2>1, FS_Subset
  <2>3. \A x : Cardinality(left(x)) \in Nat /\ Cardinality(right(x)) \in Nat
    BY <2>2, FS_CardinalityType
  <2> HIDE DEF left, right
  <2> QED
    BY <2>3 DEF Smaller
<1>4. CASE Cardinality(narrow) < 8 \/ splits = {}
  <2>1. Gutter(S) = NoGutter
    BY <1>4 DEF Gutter
  <2> QED
    BY <2>1 DEF NoGutter
<1>5. CASE ~(Cardinality(narrow) < 8 \/ splits = {})
  <2>1. PICK x \in splits : \A y \in splits : v[y] <= v[x]
    <3>1. \A y \in splits : v[y] \in Int
      BY <1>3
    <3> HIDE DEF v, splits
    <3> QED
      BY <1>2, <1>5, <3>1, GreatestExists
  <2> DEFINE T == {y \in splits : balance(y) = balance(x)}
  <2>2. PICK f \in T : \A y \in T : z[f] <= z[y]
    <3>1. IsFiniteSet(T)
      <4> HIDE DEF splits, balance
      <4> QED
        BY <1>2, FS_Subset
    <3>2. T # {} /\ \A y \in T : z[y] \in Int
      <4> HIDE DEF splits, balance
      <4> QED
        BY <1>2
    <3> HIDE DEF z, T
    <3> QED
      BY <3>1, <3>2, LowestExists
  <2>3. f \in splits /\ \A y \in splits : balance(y) < balance(f) \/ (balance(y) = balance(f) /\ f <= y)
    <3> HIDE DEF splits, balance
    <3> QED
      BY <1>2, <1>3, <2>1, <2>2
  <2> DEFINE best == CHOOSE y \in splits : \A o \in splits :
                       balance(o) < balance(y) \/ (balance(o) = balance(y) /\ y <= o)
  <2>4. best \in splits
    <3> HIDE DEF splits, balance
    <3> QED
      BY <2>3
  <2>5. Gutter(S) = best
    BY <1>5 DEF Gutter
  <2> HIDE DEF best, splits
  <2> QED
    BY <1>2, <2>4, <2>5
<1> QED
  BY <1>4, <1>5

(********************************* the flow ********************************)

LooseRows == Rows(Loose)

Split == Gutter(Loose)

Alone == {k \in DOMAIN LooseRows : Split = NoGutter \/ Spans(LooseRows[k], Split)}

Begins == {k \in DOMAIN LooseRows \ Alone : k = 1 \/ k - 1 \in Alone}

Reach(k) == {j \in DOMAIN LooseRows : k <= j /\ k..j \cap Alone = {}}

Stretch(k) == UNION {LooseRows[i] : i \in Reach(k)}

\* The rows of the page that are in a block of the flow.
Covered(b) == IF b.at \in Alone THEN {b.at} ELSE Reach(b.at)

LEMMA FlowIs ==
  Flow(Loose) = {RowBlock(LooseRows[k], k) : k \in Alone}
                  \cup {StretchBlock(Stretch(k), Split, k) : k \in Begins}
BY DEF Flow, LooseRows, Split, Alone, Begins, Reach, Stretch

LEMMA LooseRowsFacts ==
  ASSUME PageInv
  PROVE  /\ Len(LooseRows) \in Nat /\ DOMAIN LooseRows = 1..Len(LooseRows)
         /\ \A i \in 1..Len(LooseRows) :
              /\ LooseRows[i] \in SUBSET Loose /\ LooseRows[i] # {}
              /\ LooseRows[i] \in SUBSET Lines
         /\ \A l \in Loose : \E i \in 1..Len(LooseRows) : l \in LooseRows[i]
         /\ \A i, j \in 1..Len(LooseRows) : \A l \in LooseRows[i] : l \in LooseRows[j] => i = j
         /\ Loose \in SUBSET Lines
<1>1. Loose \in SUBSET Lines
  BY DEF Loose, In
<1> QED
  BY <1>1, RowsFacts DEF LooseRows

LEMMA ReachFacts ==
  ASSUME PageInv, NEW k \in Begins
  PROVE  /\ k \in 1..Len(LooseRows) /\ k \notin Alone /\ k \in Reach(k)
         /\ Reach(k) \subseteq 1..Len(LooseRows) /\ Reach(k) \cap Alone = {}
         /\ Stretch(k) \in SUBSET Loose /\ Stretch(k) \in SUBSET Lines /\ Stretch(k) # {}
<1>1. k \in 1..Len(LooseRows) /\ k \notin Alone
  BY LooseRowsFacts DEF Begins
<1>2. k \in Reach(k)
  <2>1. k <= k /\ k..k = {k}
    BY <1>1
  <2> QED
    BY <1>1, <2>1, LooseRowsFacts DEF Reach
<1>3. Reach(k) \subseteq 1..Len(LooseRows)
  BY LooseRowsFacts DEF Reach
<1>4. ASSUME NEW j \in Reach(k) PROVE j \notin Alone
  <2>1. j \in k..j
    BY <1>1, <1>3, <1>4 DEF Reach
  <2> QED
    BY <1>4, <2>1 DEF Reach
<1>5. Stretch(k) \in SUBSET Loose /\ Stretch(k) \in SUBSET Lines
  BY <1>3, LooseRowsFacts DEF Stretch
<1>6. Stretch(k) # {}
  BY <1>1, <1>2, LooseRowsFacts DEF Stretch
<1> QED
  BY <1>1, <1>2, <1>3, <1>4, <1>5, <1>6

\* Every row is in a block.
LEMMA RowCovered ==
  ASSUME PageInv, NEW j \in 1..Len(LooseRows)
  PROVE  \E b \in Flow(Loose) : b.at \in 1..Len(LooseRows) /\ j \in Covered(b)
<1>1. CASE j \in Alone
  <2> DEFINE b == RowBlock(LooseRows[j], j)
  <2>1. b \in Flow(Loose)
    BY <1>1, FlowIs
  <2>2. b.at = j
    BY DEF RowBlock
  <2> HIDE DEF b
  <2> QED
    BY <1>1, <2>1, <2>2 DEF Covered
<1>2. CASE j \notin Alone
  <2> DEFINE from == {k \in 1..j : k..j \cap Alone = {}}
  <2>1. j \in from
    <3>1. j..j = {j} /\ j \in 1..j
      BY LooseRowsFacts
    <3> QED
      BY <1>2, <3>1
  <2>2. PICK k \in from : \A m \in from : k <= m
    <3>1. from \subseteq Nat
      BY LooseRowsFacts
    <3> HIDE DEF from
    <3> QED
      BY <2>1, <3>1, LeastExists
  <2>3. k \in 1..j /\ k..j \cap Alone = {} /\ k \in 1..Len(LooseRows)
    BY LooseRowsFacts
  <2>4. k \notin Alone
    <3>1. k \in k..j
      BY <2>3, LooseRowsFacts
    <3> QED
      BY <2>3, <3>1
  <2>5. k = 1 \/ k - 1 \in Alone
    <3> SUFFICES ASSUME k # 1, k - 1 \notin Alone PROVE FALSE
      OBVIOUS
    <3>1. k - 1 \in 1..j /\ k - 1 < k /\ (k - 1)..j = {k - 1} \cup k..j
      BY <2>3, LooseRowsFacts
    <3>2. k - 1 \in from
      BY <2>3, <3>1
    <3>3. k <= k - 1
      <4> HIDE DEF from
      <4> QED
        BY <2>2, <3>2
    <3> QED
      BY <2>3, <3>1, <3>3
  <2>6. k \in Begins
    BY <2>3, <2>4, <2>5, LooseRowsFacts DEF Begins
  <2>7. j \in Reach(k)
    BY <2>3, LooseRowsFacts DEF Reach
  <2> DEFINE b == StretchBlock(Stretch(k), Split, k)
  <2>8. b \in Flow(Loose)
    BY <2>6, FlowIs
  <2>9. b.at = k
    BY DEF StretchBlock
  <2> HIDE DEF b, from
  <2> QED
    BY <2>3, <2>4, <2>7, <2>8, <2>9 DEF Covered
<1> QED
  BY <1>1, <1>2

\* A block of the flow is a row that stands alone or a stretch.
LEMMA FlowKinds ==
  ASSUME PageInv, NEW b \in Flow(Loose)
  PROVE  \/ b.at \in Alone /\ b = RowBlock(LooseRows[b.at], b.at)
         \/ b.at \in Begins /\ b = StretchBlock(Stretch(b.at), Split, b.at)
<1>1. CASE \E k \in Alone : b = RowBlock(LooseRows[k], k)
  BY <1>1 DEF RowBlock
<1>2. CASE \E k \in Begins : b = StretchBlock(Stretch(k), Split, k)
  BY <1>2 DEF StretchBlock
<1> QED
  BY <1>1, <1>2, FlowIs

\* Where a row is in two blocks, they are one; the block of a later row comes later.
LEMMA BlocksApart ==
  ASSUME PageInv, NEW b \in Flow(Loose), NEW c \in Flow(Loose),
         NEW i \in Covered(b), NEW j \in Covered(c)
  PROVE  /\ b.at \in 1..Len(LooseRows) /\ i \in b.at..Len(LooseRows)
         /\ i <= j => b = c \/ (b.at < c.at /\ i < c.at)
<1>1. \A d \in Flow(Loose) : d.at \in Alone \/ d.at \in Begins
  BY FlowKinds
<1>2. /\ Alone \subseteq 1..Len(LooseRows) /\ Begins \subseteq 1..Len(LooseRows)
      /\ Begins \cap Alone = {} /\ Len(LooseRows) \in Nat
  BY LooseRowsFacts DEF Alone, Begins
<1>3. ASSUME NEW d \in Flow(Loose), NEW k \in Covered(d)
      PROVE  d.at \in 1..Len(LooseRows) /\ k \in d.at..Len(LooseRows)
  <2>1. d.at \in 1..Len(LooseRows)
    BY <1>1, <1>2
  <2>2. CASE d.at \in Alone
    BY <1>2, <1>3, <2>1, <2>2 DEF Covered
  <2>3. CASE d.at \notin Alone
    <3>1. k \in Reach(d.at)
      BY <1>3, <2>3 DEF Covered
    <3> QED
      BY <1>2, <2>1, <3>1, LooseRowsFacts DEF Reach
  <2> QED
    BY <2>1, <2>2, <2>3
<1>4. b.at = c.at => b = c
  BY <1>1, <1>2, FlowKinds
<1>5. ASSUME i <= j, b # c PROVE b.at < c.at /\ i < c.at
  <2>1. /\ b.at \in 1..Len(LooseRows) /\ i \in b.at..Len(LooseRows)
        /\ c.at \in 1..Len(LooseRows) /\ j \in c.at..Len(LooseRows) /\ b.at # c.at
    BY <1>3, <1>4, <1>5
  <2>2. CASE c.at \in Alone
    <3>1. j = c.at
      BY <2>2 DEF Covered
    <3>2. b.at < c.at
      BY <1>2, <1>5, <2>1, <3>1
    <3>3. i # c.at
      <4> SUFFICES ASSUME i = c.at PROVE FALSE
        OBVIOUS
      <4>1. b.at \notin Alone
        BY <2>1 DEF Covered
      <4>2. i \in Reach(b.at)
        BY <4>1 DEF Covered
      <4>3. i \in b.at..i
        BY <1>2, <2>1
      <4> QED
        BY <2>2, <4>2, <4>3 DEF Reach
    <3> QED
      BY <1>2, <1>5, <2>1, <3>1, <3>2, <3>3
  <2>3. CASE c.at \notin Alone
    <3>1. j \in Reach(c.at) /\ c.at \in Begins
      BY <1>1, <2>3 DEF Covered
    <3>2. i < c.at
      <4> SUFFICES ASSUME ~(i < c.at) PROVE FALSE
        OBVIOUS
      <4>1. i \in c.at..j
        BY <1>2, <1>5, <2>1
      <4>2. i \notin Alone
        BY <3>1, <4>1 DEF Reach
      <4>3. b.at \notin Alone /\ i \in Reach(b.at) /\ b.at \in Begins
        BY <1>1, <4>2 DEF Covered
      <4>4. CASE b.at < c.at
        <5>1. c.at - 1 \in Alone
          BY <1>2, <2>1, <3>1, <4>4 DEF Begins
        <5>2. c.at - 1 \in b.at..i
          BY <1>2, <2>1, <4>1, <4>4
        <5> QED
          BY <4>3, <5>1, <5>2 DEF Reach
      <4>5. CASE c.at < b.at
        <5>1. b.at - 1 \in Alone
          BY <1>2, <2>1, <4>3, <4>5 DEF Begins
        <5>2. b.at - 1 \in c.at..j
          BY <1>2, <1>5, <2>1, <4>5
        <5> QED
          BY <3>1, <5>1, <5>2 DEF Reach
      <4> QED
        BY <1>2, <2>1, <4>4, <4>5
    <3> QED
      BY <1>2, <2>1, <3>2
  <2> QED
    BY <2>2, <2>3
<1> QED
  BY <1>3, <1>5

(**************************** a block's text *******************************)

LEMMA RowsReadOnce ==
  ASSUME PageInv, NEW S \in SUBSET Lines
  PROVE  ReadOnce(Rows(S), S)
BY RowsFacts DEF ReadOnce

LeftOf(S) == {l \in S : box[l].x1 <= Split}

LEMMA StretchText ==
  ASSUME NEW S, NEW k, NEW b, b = StretchBlock(S, Split, k)
  PROVE  b.text = Rows(LeftOf(S)) \o Rows(S \ LeftOf(S))
BY DEF StretchBlock, LeftOf

Held(b) == UNION {LooseRows[j] : j \in Covered(b)}

LEMMA FlowText ==
  ASSUME PageInv, NEW b \in Flow(Loose)
  PROVE  ReadOnce(b.text, Held(b)) /\ Held(b) \in SUBSET Loose
<1>1. CASE b.at \in Alone /\ b = RowBlock(LooseRows[b.at], b.at)
  <2>1. b.text = <<LooseRows[b.at]>>
    BY <1>1 DEF RowBlock
  <2>2. Held(b) = LooseRows[b.at]
    BY <1>1 DEF Held, Covered
  <2>3. b.at \in 1..Len(LooseRows)
    BY <1>1, LooseRowsFacts DEF Alone
  <2> HIDE DEF Held
  <2>4. ReadOnce(<<LooseRows[b.at]>>, LooseRows[b.at])
    BY OneRow
  <2> QED
    BY <2>1, <2>2, <2>3, <2>4, LooseRowsFacts
<1>2. CASE b.at \in Begins /\ b = StretchBlock(Stretch(b.at), Split, b.at)
  <2> DEFINE S == Stretch(b.at)
             L == LeftOf(S)
  <2>1. b.text = Rows(L) \o Rows(S \ L)
    BY <1>2, StretchText
  <2>2. b.at \notin Alone /\ S \in SUBSET Loose /\ S \in SUBSET Lines
    BY <1>2, ReachFacts
  <2>3. Held(b) = S
    BY <2>2 DEF Held, Covered, Stretch
  <2>4. L \in SUBSET S
    BY DEF LeftOf
  <2> HIDE DEF S, L
  <2>5. ReadOnce(Rows(L), L) /\ ReadOnce(Rows(S \ L), S \ L)
    BY <2>2, <2>4, RowsReadOnce
  <2>6. ReadOnce(Rows(L) \o Rows(S \ L), S)
    BY ONLY <2>4, <2>5, ReadBehind
  <2> QED
    BY ONLY <2>1, <2>2, <2>3, <2>6
<1> QED
  BY <1>1, <1>2, FlowKinds

\* In a block of the flow the upper of two lines is read first: in a stretch no line
\* reaches over the gutter, so of two in different columns none is over the other.
LEMMA FlowReadsDown ==
  ASSUME PageInv, OneSize, NEW b \in Flow(Loose), NEW p \in 1..Len(b.text), NEW q \in 1..Len(b.text),
         NEW a \in b.text[p], NEW c \in b.text[q], Over(a, c)
  PROVE  p < q
<1>1. CASE b.at \in Alone /\ b = RowBlock(LooseRows[b.at], b.at)
  <2>1. b.text = <<LooseRows[b.at]>> /\ b.at \in 1..Len(LooseRows)
    BY <1>1, LooseRowsFacts DEF RowBlock, Alone
  <2>2. a \in LooseRows[b.at] /\ c \in LooseRows[b.at]
    BY <2>1
  <2>3. b.at < b.at
    BY <2>1, <2>2, LooseRowsFacts, AboveEarlier DEF LooseRows, Over
  <2> QED
    BY <2>1, <2>3, LooseRowsFacts
<1>2. CASE b.at \in Begins /\ b = StretchBlock(Stretch(b.at), Split, b.at)
  <2> DEFINE S == Stretch(b.at)
             L == LeftOf(S)
             A == Rows(L)
             B == Rows(S \ L)
             T == b.text
  <2>1. T = A \o B
    BY <1>2, StretchText
  <2>2. S \in SUBSET Lines /\ L \in SUBSET S
    BY <1>2, ReachFacts DEF LeftOf
  <2>3. \A l \in S : \E i \in Reach(b.at) : l \in LooseRows[i]
    BY DEF Stretch
  <2> HIDE DEF S, L, A, B, T
  <2>4. A \in Seq(SUBSET L) /\ B \in Seq(SUBSET (S \ L))
    BY <2>2, RowsReadOnce DEF ReadOnce, A, B
  <2>5. A \in Seq(SUBSET S) /\ B \in Seq(SUBSET S)
    BY <2>2, <2>4
  <2>6. /\ Len(A) \in Nat /\ Len(B) \in Nat /\ Len(T) = Len(A) + Len(B)
        /\ \A i \in 1..Len(A) : i \in 1..Len(T) /\ T[i] = A[i]
        /\ \A i \in 1..Len(T) : \/ i \in 1..Len(A)
                                \/ i > Len(A) /\ i - Len(A) \in 1..Len(B) /\ T[i] = B[i - Len(A)]
    BY ONLY <2>1, <2>5, Behind
  <2>7. \A i \in 1..Len(A) : A[i] \subseteq L
    BY <2>4
  <2>8. \A i \in 1..Len(B) : B[i] \subseteq S \ L
    BY <2>4
  <2>9. p \in 1..Len(T) /\ q \in 1..Len(T) /\ a \in T[p] /\ c \in T[q]
    BY DEF T
  <2>10. a \in S /\ c \in S
    BY <2>2, <2>6, <2>7, <2>8, <2>9
  <2>11. ASSUME NEW l \in S PROVE ~(box[l].x0 < Split /\ Split < box[l].x1)
    <3>1. PICK i \in Reach(b.at) : l \in LooseRows[i]
      BY <2>3
    <3>2. i \in 1..Len(LooseRows) /\ i \notin Alone
      BY <1>2, ReachFacts
    <3> QED
      BY <3>1, <3>2, LooseRowsFacts DEF Alone, Spans
  <2>12. Split \in Int /\ \A l \in S : box[l].x0 \in Int /\ box[l].x1 \in Int
    BY <2>2, LineTypes, GutterType, LooseRowsFacts DEF Split
  <2>13. a \in L <=> c \in L
    BY <2>10, <2>11, <2>12 DEF LeftOf, Over, L
  <2>14. CASE a \in L
    <3>1. p \in 1..Len(A) /\ q \in 1..Len(A) /\ a \in A[p] /\ c \in A[q]
      BY <2>6, <2>8, <2>9, <2>13, <2>14
    <3>2. L \in SUBSET Lines
      BY <2>2
    <3> QED
      BY <3>1, <3>2, AboveEarlier DEF A, Over
  <2>15. CASE a \notin L
    <3>1. p \notin 1..Len(A) /\ q \notin 1..Len(A)
      BY <2>6, <2>7, <2>9, <2>13, <2>15
    <3>2. /\ p - Len(A) \in 1..Len(B) /\ a \in B[p - Len(A)]
          /\ q - Len(A) \in 1..Len(B) /\ c \in B[q - Len(A)]
      BY <2>6, <2>9, <3>1
    <3>3. S \ L \in SUBSET Lines
      BY <2>2
    <3>4. p - Len(A) < q - Len(A)
      BY <3>2, <3>3, AboveEarlier DEF B, Over
    <3> QED
      BY <2>6, <2>9, <3>4
  <2> QED
    BY <2>14, <2>15
<1> QED
  BY <1>1, <1>2, FlowKinds

\* The top of a block of the flow is that of one of its lines, and of every row of it
\* some line begins no higher.
LEMMA FlowTop ==
  ASSUME PageInv, NEW b \in Flow(Loose)
  PROVE  /\ b.top \in Int
         /\ \E j \in Covered(b) : \E l \in LooseRows[j] : b.top = Top(l)
         /\ \A j \in Covered(b) : \E l \in LooseRows[j] : b.top <= Top(l)
<1>1. CASE b.at \in Alone /\ b = RowBlock(LooseRows[b.at], b.at)
  <2>1. b.at \in 1..Len(LooseRows) /\ Covered(b) = {b.at}
    BY <1>1, LooseRowsFacts DEF Alone, Covered
  <2> DEFINE l == Leftmost(LooseRows[b.at])
  <2>2. b.top = Top(l)
    BY <1>1 DEF RowBlock
  <2>3. l \in LooseRows[b.at] /\ l \in Lines
    BY <2>1, LooseRowsFacts, LeftmostIs
  <2>4. Top(l) \in Int
    BY <2>3, MeasureTypes
  <2> HIDE DEF l
  <2> QED
    BY <2>1, <2>2, <2>3, <2>4
<1>2. CASE b.at \in Begins /\ b = StretchBlock(Stretch(b.at), Split, b.at)
  <2> DEFINE S == Stretch(b.at)
             tops == {Top(l) : l \in S}
             v == [l \in S |-> Top(l)]
  <2>1. b.top = Min(tops)
    BY <1>2 DEF StretchBlock
  <2>2. S \in SUBSET Lines /\ S # {} /\ Covered(b) = Reach(b.at) /\ b.at \in Reach(b.at)
        /\ Reach(b.at) \subseteq 1..Len(LooseRows)
    BY <1>2, ReachFacts DEF Covered
  <2>3. \A l \in S : \E j \in Reach(b.at) : l \in LooseRows[j]
    BY DEF Stretch
  <2>4. \A j \in Reach(b.at) : LooseRows[j] \subseteq S /\ LooseRows[j] # {}
    BY <2>2, LooseRowsFacts DEF Stretch
  <2> HIDE DEF S
  <2>5. IsFiniteSet(S) /\ \A l \in S : Top(l) \in Int /\ v[l] = Top(l)
    BY <2>2, LineTypes, MeasureTypes, FS_Subset
  <2>6. PICK f \in S : \A l \in S : v[f] <= v[l]
    <3> HIDE DEF v
    <3> QED
      BY <2>2, <2>5, LowestExists
  <2>7. Top(f) \in tops /\ \A x \in tops : Top(f) <= x
    BY <2>5, <2>6
  <2>8. Min(tops) \in tops /\ \A x \in tops : Min(tops) <= x
    <3> HIDE DEF tops
    <3> QED
      BY <2>7 DEF Min
  <2>9. PICK l \in S : b.top = Top(l)
    BY <2>1, <2>8
  <2>10. \A m \in S : b.top <= Top(m)
    BY <2>1, <2>8
  <2> HIDE DEF tops, v
  <2> QED
    BY <2>2, <2>3, <2>4, <2>5, <2>9, <2>10
<1> QED
  BY <1>1, <1>2, FlowKinds

(******************************* the page text *****************************)

Contents(b) == UNION {b.text[p] : p \in 1..Len(b.text)}

\* Blocks that differ have no line in common and another place in the list.
Different(B) ==
  /\ IsFiniteSet(B)
  /\ \A b \in B : b.top \in Int /\ b.at \in Int /\ ReadOnce(b.text, Contents(b))
  /\ \A b, c \in B : b # c => b.at # c.at /\ Contents(b) \cap Contents(c) = {}

LEMMA FirstIs ==
  ASSUME NEW B, Different(B), B # {}
  PROVE  First(B) \in B /\ \A c \in B \ {First(B)} : Sooner(First(B), c)
<1> DEFINE v == [b \in B |-> b.top]
           w == [b \in B |-> b.at]
<1>1. IsFiniteSet(B) /\ \A b \in B : b.top \in Int /\ b.at \in Int
  BY DEF Different
<1>2. PICK h \in B : \A b \in B : v[h] <= v[b]
  <2>1. \A b \in B : v[b] \in Int
    BY <1>1
  <2> HIDE DEF v
  <2> QED
    BY <1>1, <2>1, LowestExists
<1> DEFINE T == {b \in B : b.top = h.top}
<1>3. PICK f \in T : \A b \in T : w[f] <= w[b]
  <2>1. IsFiniteSet(T) /\ T # {} /\ \A b \in T : w[b] \in Int
    BY <1>1, FS_Subset
  <2> HIDE DEF w, T
  <2> QED
    BY <2>1, LowestExists
<1>4. f \in B /\ f.top = h.top
  OBVIOUS
<1>5. ASSUME NEW c \in B \ {f} PROVE Sooner(f, c)
  <2>1. f.top <= c.top
    BY <1>2, <1>4
  <2>2. c.top = f.top => f.at <= c.at
    BY <1>3, <1>4
  <2>3. c.at # f.at
    BY <1>4 DEF Different
  <2> HIDE DEF T, v, w
  <2> QED
    BY <1>1, <1>4, <2>1, <2>2, <2>3 DEF Sooner
<1> HIDE DEF T
<1> QED
  BY <1>4, <1>5 DEF First

\* The blocks B are told one after the other.
Told(B, T) ==
  /\ ReadOnce(T, UNION {Contents(b) : b \in B})
  /\ \A b, c \in B : \A p \in 1..Len(b.text), q \in 1..Len(c.text) :
       \A k \in b.text[p], l \in c.text[q] :
         Sooner(b, c) \/ (b = c /\ p < q) =>
           \E i, j \in 1..Len(T) : i < j /\ k \in T[i] /\ l \in T[j]

LEMMA ToldMore ==
  ASSUME NEW B, Different(B), B # {}, NEW T, Told(B \ {First(B)}, T)
  PROVE  Told(B, First(B).text \o T)
<1> DEFINE f == First(B)
           rest == B \ {f}
           A == f.text
           Q == A \o T
           S == UNION {Contents(b) : b \in B}
<1>1. f \in B /\ \A c \in rest : Sooner(f, c)
  BY FirstIs
<1>2. ReadOnce(A, Contents(f)) /\ Contents(f) \in SUBSET S
  BY <1>1 DEF Different
<1>3. S \ Contents(f) = UNION {Contents(b) : b \in rest}
  <2>1. \A b \in rest : b \in B /\ Contents(b) \cap Contents(f) = {}
    BY <1>1 DEF Different
  <2> HIDE DEF f
  <2> QED
    BY <1>1, <2>1
<1>4. ReadOnce(T, S \ Contents(f))
  BY <1>3 DEF Told
<1>5. ReadOnce(Q, S)
  <2> HIDE DEF A, S, f
  <2> QED
    BY <1>2, <1>4, ReadBehind
<1>6. A \in Seq(SUBSET S) /\ T \in Seq(SUBSET S)
  <2>1. A \in Seq(SUBSET Contents(f)) /\ T \in Seq(SUBSET (S \ Contents(f)))
    BY <1>2, <1>4 DEF ReadOnce
  <2> HIDE DEF A, S, f
  <2> QED
    BY <1>2, <2>1
<1>7. /\ Len(A) \in Nat /\ Len(T) \in Nat /\ Len(Q) = Len(A) + Len(T)
      /\ \A i \in 1..Len(A) : i \in 1..Len(Q) /\ Q[i] = A[i]
      /\ \A i \in 1..Len(T) : Len(A) + i \in 1..Len(Q) /\ Q[Len(A) + i] = T[i]
  <2> HIDE DEF A, S, f, Q
  <2>1. Q = A \o T
    BY DEF Q
  <2> QED
    BY ONLY <1>6, <2>1, Behind
<1> HIDE DEF Q
<1>8. ASSUME NEW b \in B, NEW c \in B, NEW p \in 1..Len(b.text), NEW q \in 1..Len(c.text),
             NEW k \in b.text[p], NEW l \in c.text[q], Sooner(b, c) \/ (b = c /\ p < q)
      PROVE  \E i, j \in 1..Len(Q) : i < j /\ k \in Q[i] /\ l \in Q[j]
  <2>1. CASE b = f /\ c = f
    <3>1. b.top \in Int /\ b.at \in Int
      BY DEF Different
    <3>2. ~Sooner(b, c)
      BY <2>1, <3>1 DEF Sooner
    <3>3. p < q /\ p \in 1..Len(A) /\ q \in 1..Len(A) /\ k \in A[p] /\ l \in A[q]
      BY <1>8, <2>1, <3>2
    <3> QED
      BY <1>7, <3>3
  <2>2. CASE b = f /\ c # f
    <3>1. p \in 1..Len(A) /\ k \in A[p]
      BY <2>2
    <3>2. c \in rest /\ l \in Contents(c)
      BY <2>2 DEF Contents
    <3>3. PICK j \in 1..Len(T) : l \in T[j]
      BY <1>3, <1>4, <3>2 DEF ReadOnce
    <3>4. /\ p \in 1..Len(Q) /\ k \in Q[p] /\ Len(A) + j \in 1..Len(Q) /\ l \in Q[Len(A) + j]
          /\ p < Len(A) + j
      BY <1>7, <3>1, <3>3
    <3> QED
      BY <3>4
  <2>3. CASE b # f /\ c = f
    <3>1. Sooner(f, b) /\ Sooner(b, f)
      BY <1>1, <1>8, <2>3
    <3>2. f.top \in Int /\ f.at \in Int /\ b.top \in Int /\ b.at \in Int
      BY <1>1 DEF Different
    <3> HIDE DEF f
    <3> QED
      BY <3>1, <3>2 DEF Sooner
  <2>4. CASE b # f /\ c # f
    <3>1. b \in rest /\ c \in rest
      BY <2>4
    <3>2. PICK i, j \in 1..Len(T) : i < j /\ k \in T[i] /\ l \in T[j]
      BY <1>8, <3>1 DEF Told
    <3> HIDE DEF A, S, f
    <3>3. Len(A) + i \in 1..Len(Q) /\ k \in Q[Len(A) + i]
      BY <1>7, <3>2
    <3>4. Len(A) + j \in 1..Len(Q) /\ l \in Q[Len(A) + j]
      BY <1>7, <3>2
    <3>5. Len(A) + i < Len(A) + j
      BY <1>7, <3>2
    <3> QED
      BY <3>3, <3>4, <3>5
  <2> QED
    BY <2>1, <2>2, <2>3, <2>4
<1>9. Told(B, Q)
  BY <1>5, <1>8 DEF Told
<1> QED
  BY <1>9 DEF Q

TextIs(g) ==
  g = [s \in SUBSET Blocks |-> IF s = {} THEN <<>> ELSE First(s).text \o g[s \ {First(s)}]]

LEMMA DifferentWithin ==
  ASSUME NEW B, Different(B), NEW s \in SUBSET B
  PROVE  Different(s)
<1>1. IsFiniteSet(s)
  BY FS_Subset DEF Different
<1> QED
  BY <1>1 DEF Different

LEMMA PageTextIs ==
  ASSUME Different(Blocks)
  PROVE  \E g : TextIs(g) /\ PageText = g[Blocks]
<1> DEFINE take == [s \in SUBSET Blocks |-> {First(s)}]
           give == [s \in SUBSET Blocks |-> First(s).text]
           it == CHOOSE g : TextIs(g)
<1>1. \A s \in SUBSET Blocks : s # {} => \E b \in s : b \in take[s]
  <2> SUFFICES ASSUME NEW s \in SUBSET Blocks, s # {} PROVE \E b \in s : b \in take[s]
    OBVIOUS
  <2>1. First(s) \in s
    BY DifferentWithin, FirstIs
  <2> QED
    BY <2>1
<1>2. IsFiniteSet(Blocks)
  BY DEF Different
<1>3. PICK g : Unfolds(Blocks, take, give, g)
  <2> HIDE DEF take, give
  <2> QED
    BY <1>1, <1>2, UnfoldsExists
<1>4. TextIs(g)
  BY <1>3 DEF Unfolds, TextIs
<1>5. TextIs(it)
  BY <1>4
<1>6. PageText = it[Blocks]
  BY DEF PageText, TextIs
<1> QED
  BY <1>5, <1>6

LEMMA PageTold ==
  ASSUME Different(Blocks)
  PROVE  Told(Blocks, PageText)
<1>1. PICK g : TextIs(g) /\ PageText = g[Blocks]
  BY PageTextIs
<1> DEFINE bad == {s \in SUBSET Blocks : ~Told(s, g[s])}
<1> SUFFICES ASSUME bad # {} PROVE FALSE
  BY <1>1
<1>2. \A s \in SUBSET Blocks : IsFiniteSet(s) /\ Cardinality(s) \in Nat
  BY FS_Subset, FS_CardinalityType DEF Different
<1>3. PICK s \in bad : \A r \in bad : Cardinality(s) <= Cardinality(r)
  <2>1. \A r \in bad : IsFiniteSet(r)
    BY <1>2
  <2> HIDE DEF bad
  <2> QED
    BY <2>1, SmallestExists
<1>4. s \in SUBSET Blocks /\ ~Told(s, g[s]) /\ Different(s)
  BY DifferentWithin
<1>5. CASE s = {}
  <2>1. g[s] = <<>>
    BY <1>1, <1>4, <1>5 DEF TextIs
  <2>2. UNION {Contents(b) : b \in s} = {}
    BY <1>5
  <2>3. ReadOnce(<<>>, {})
    BY DEF ReadOnce
  <2> QED
    BY <1>4, <1>5, <2>1, <2>2, <2>3 DEF Told
<1>6. CASE s # {}
  <2> DEFINE rest == s \ {First(s)}
  <2>1. g[s] = First(s).text \o g[rest]
    BY <1>1, <1>4, <1>6 DEF TextIs
  <2>2. First(s) \in s
    BY <1>4, <1>6, FirstIs
  <2>3. rest \in SUBSET Blocks /\ Cardinality(rest) < Cardinality(s)
    BY <1>2, <1>4, <2>2, FewerWithout
  <2>4. Cardinality(rest) \in Nat /\ Cardinality(s) \in Nat
    BY <1>2, <1>4, <2>3
  <2>5. rest \notin bad
    <3> HIDE DEF bad, rest
    <3> QED
      BY <1>3, <2>3, <2>4
  <2>6. Told(rest, g[rest])
    BY <2>3, <2>5
  <2>7. Told(s, First(s).text \o g[rest])
    BY <1>4, <1>6, <2>6, ToldMore
  <2> QED
    BY <1>4, <2>1, <2>7
<1> QED
  BY <1>5, <1>6

(****************************** all the blocks *****************************)

\* There are no more rows than lines.
LEMMA RowsFew ==
  ASSUME PageInv
  PROVE  Len(LooseRows) <= Len(box)
<1> DEFINE n == Len(LooseRows)
           f == [l \in Loose |-> CHOOSE i \in 1..n : l \in LooseRows[i]]
<1>1. \A l \in Loose : f[l] \in 1..n /\ l \in LooseRows[f[l]]
  BY LooseRowsFacts
<1>2. \A i \in 1..n : \E l \in Loose : f[l] = i
  <2> SUFFICES ASSUME NEW i \in 1..n PROVE \E l \in Loose : f[l] = i
    OBVIOUS
  <2>1. PICK l \in LooseRows[i] : l \in Loose
    BY LooseRowsFacts
  <2> HIDE DEF f
  <2>2. f[l] = i
    BY <1>1, <2>1, LooseRowsFacts
  <2> QED
    BY <2>1, <2>2
<1>3. f \in Surjection(Loose, 1..n)
  <2>1. f \in [Loose -> 1..n]
    BY <1>1
  <2> HIDE DEF f
  <2> QED
    BY <1>2, <2>1 DEF Surjection
<1>4. IsFiniteSet(Loose) /\ Cardinality(Loose) <= Cardinality(Lines)
  BY LineTypes, LooseRowsFacts, FS_Subset
<1>5. Cardinality(1..n) <= Cardinality(Loose)
  <2> HIDE DEF f
  <2> QED
    BY <1>3, <1>4, FS_Surjection
<1>6. n \in Nat /\ Len(box) \in Nat /\ Lines = 1..Len(box)
  BY LooseRowsFacts, LineTypes
<1> HIDE DEF n
<1>7. Cardinality(1..n) = n /\ Cardinality(Lines) = Len(box)
  <2>1. Cardinality(1..n) = IF 1 > n THEN 0 ELSE n - 1 + 1
    BY <1>6, FS_Interval
  <2>2. Cardinality(1..Len(box)) = IF 1 > Len(box) THEN 0 ELSE Len(box) - 1 + 1
    BY <1>6, FS_Interval
  <2> QED
    BY <1>6, <2>1, <2>2
<1>8. Cardinality(Loose) \in Nat
  BY <1>4, FS_CardinalityType
<1> QED
  BY <1>4, <1>5, <1>6, <1>7, <1>8 DEF n

TableBlocks == {TableBlock(i) : i \in {j \in DOMAIN tables : In(j) # {}}}

\* A line is in one table or in none.
LEMMA TableOfType ==
  ASSUME PageInv, NEW l \in Lines
  PROVE  /\ TableOf(l) \in 0..Len(tables)
         /\ TableOf(l) # 0 => TableOf(l) \in DOMAIN tables /\ Inside(l, tables[TableOf(l)])
<1> DEFINE holding == {i \in DOMAIN tables : Inside(l, tables[i])}
<1>1. DOMAIN tables = 1..Len(tables) /\ Len(tables) \in Nat
  BY TableTypes
<1>2. CASE holding = {}
  BY <1>1, <1>2 DEF TableOf
<1>3. CASE holding # {}
  <2>1. PICK n \in holding : \A m \in holding : n <= m
    <3>1. holding \subseteq Nat
      BY <1>1
    <3> HIDE DEF holding
    <3> QED
      BY <1>3, <3>1, LeastExists
  <2>2. Min(holding) \in holding
    <3> HIDE DEF holding
    <3> QED
      BY <2>1 DEF Min
  <2>3. TableOf(l) = Min(holding)
    BY <1>3 DEF TableOf
  <2>4. TableOf(l) \in holding
    BY <2>2, <2>3
  <2>5. TableOf(l) \in DOMAIN tables /\ Inside(l, tables[TableOf(l)])
    BY <2>4
  <2> QED
    BY <1>1, <2>5
<1> QED
  BY <1>2, <1>3

LEMMA TableBlockFacts ==
  ASSUME PageInv, NEW b \in TableBlocks
  PROVE  LET i == b.at - Len(box)
         IN /\ i \in DOMAIN tables /\ b = TableBlock(i) /\ b.at \in Int /\ b.at > Len(box)
            /\ b.top = tables[i].y0 /\ b.top \in Int /\ b.text = Rows(In(i))
            /\ In(i) \in SUBSET Lines /\ Contents(b) = In(i) /\ ReadOnce(b.text, In(i))
<1>1. PICK i \in DOMAIN tables : b = TableBlock(i)
  BY DEF TableBlocks
<1>2. b.at = Len(box) + i /\ b.top = tables[i].y0 /\ b.text = Rows(In(i))
  BY <1>1 DEF TableBlock
<1>3. i \in Nat \ {0} /\ Len(box) \in Nat
  BY TableTypes, LineTypes
<1>4. b.at - Len(box) = i /\ b.at \in Int /\ b.at > Len(box)
  BY <1>2, <1>3
<1>5. In(i) \in SUBSET Lines
  BY DEF In
<1>6. ReadOnce(b.text, In(i))
  BY <1>2, <1>5, RowsReadOnce
<1>7. Contents(b) = In(i)
  BY <1>6, AllRead DEF Contents
<1>8. b.top \in Int
  BY <1>2, TableTypes
<1> QED
  BY <1>1, <1>2, <1>4, <1>5, <1>6, <1>7, <1>8

LEMMA FlowFacts ==
  ASSUME PageInv, NEW b \in Flow(Loose)
  PROVE  /\ b.at \in 1..Len(box) /\ b.at \in 1..Len(LooseRows) /\ b.top \in Int
         /\ Contents(b) = Held(b) /\ Contents(b) \in SUBSET Loose /\ ReadOnce(b.text, Contents(b))
<1>1. b.at \in 1..Len(LooseRows)
  BY FlowKinds, LooseRowsFacts DEF Alone, Begins
<1>2. b.at \in 1..Len(box)
  BY <1>1, RowsFew, LooseRowsFacts, LineTypes
<1>3. ReadOnce(b.text, Held(b)) /\ Held(b) \in SUBSET Loose
  BY FlowText
<1>4. Contents(b) = Held(b)
  BY <1>3, AllRead DEF Contents
<1> QED
  BY <1>1, <1>2, <1>3, <1>4, FlowTop

LEMMA BlocksDiffer ==
  ASSUME PageInv
  PROVE  Different(Blocks)
<1>1. Blocks = Flow(Loose) \cup TableBlocks
  BY DEF Blocks, TableBlocks
<1>2. Len(box) \in Nat /\ Len(tables) \in Nat /\ DOMAIN tables = 1..Len(tables)
  BY LineTypes, TableTypes
<1>3. \A l \in Loose : TableOf(l) = 0
  BY DEF Loose, In
<1>4. ASSUME NEW b \in Flow(Loose), NEW c \in Flow(Loose), b # c
      PROVE  b.at # c.at /\ Contents(b) \cap Contents(c) = {}
  <2>1. b.at # c.at
    BY <1>4, FlowKinds DEF Begins
  <2>2. ASSUME NEW l \in Contents(b), l \in Contents(c) PROVE FALSE
    <3>1. PICK i \in Covered(b) : l \in LooseRows[i]
      BY FlowFacts DEF Held
    <3>2. PICK j \in Covered(c) : l \in LooseRows[j]
      BY <2>2, FlowFacts DEF Held
    <3>3. i \in 1..Len(LooseRows) /\ j \in 1..Len(LooseRows)
      BY BlocksApart, LooseRowsFacts
    <3>4. i = j
      BY <3>1, <3>2, <3>3, LooseRowsFacts
    <3>5. b.at < c.at /\ c.at < b.at /\ b.at \in Nat /\ c.at \in Nat
      BY <1>4, <3>3, <3>4, BlocksApart
    <3> QED
      BY <3>5
  <2> QED
    BY <2>1, <2>2
<1>5. ASSUME NEW b \in Flow(Loose), NEW c \in TableBlocks
      PROVE  b.at # c.at /\ Contents(b) \cap Contents(c) = {}
  <2>1. b.at # c.at
    BY <1>2, FlowFacts, TableBlockFacts
  <2>2. \A l \in Contents(b) : TableOf(l) = 0
    BY <1>3, FlowFacts
  <2>3. \A l \in Contents(c) : TableOf(l) # 0
    <3> DEFINE i == c.at - Len(box)
    <3>1. i \in DOMAIN tables /\ Contents(c) = In(i)
      BY TableBlockFacts
    <3> HIDE DEF i
    <3>2. i # 0
      BY <1>2, <3>1
    <3> QED
      BY <3>1, <3>2 DEF In
  <2> QED
    BY <2>1, <2>2, <2>3
<1>6. ASSUME NEW b \in TableBlocks, NEW c \in TableBlocks, b # c
      PROVE  b.at # c.at /\ Contents(b) \cap Contents(c) = {}
  <2>1. b.at # c.at
    BY <1>6, TableBlockFacts
  <2>2. b.at - Len(box) # c.at - Len(box)
    BY <1>2, <2>1, TableBlockFacts
  <2> QED
    BY <2>1, <2>2, TableBlockFacts DEF In
<1>7. \A b, c \in Blocks : b # c => b.at # c.at /\ Contents(b) \cap Contents(c) = {}
  BY <1>1, <1>4, <1>5, <1>6
<1>8. \A b \in Blocks : b.top \in Int /\ b.at \in Int /\ ReadOnce(b.text, Contents(b))
  <2>1. \A b \in Flow(Loose) : b.top \in Int /\ b.at \in Int /\ ReadOnce(b.text, Contents(b))
    BY FlowFacts
  <2>2. \A b \in TableBlocks : b.top \in Int /\ b.at \in Int /\ ReadOnce(b.text, Contents(b))
    BY TableBlockFacts
  <2> QED
    BY <1>1, <2>1, <2>2
<1>9. IsFiniteSet(Blocks)
  <2> DEFINE most == Len(box) + Len(tables)
             f == [b \in Blocks |-> b.at]
  <2>1. \A b \in Flow(Loose) : b.at \in 1..most
    BY <1>2, FlowFacts
  <2>2. \A b \in TableBlocks : b.at \in 1..most
    <3> SUFFICES ASSUME NEW b \in TableBlocks PROVE b.at \in 1..most
      OBVIOUS
    <3>1. b.at - Len(box) \in 1..Len(tables) /\ b.at \in Int
      BY <1>2, TableBlockFacts
    <3> QED
      BY <1>2, <3>1
  <2>3. f \in [Blocks -> 1..most]
    BY <1>1, <2>1, <2>2
  <2>4. f \in Injection(Blocks, 1..most)
    <3>1. \A b, c \in Blocks : f[b] = f[c] => b = c
      BY <1>7
    <3> HIDE DEF f, most
    <3> QED
      BY <2>3, <3>1 DEF Injection, IsInjective
  <2>5. IsFiniteSet(1..most)
    <3>1. most \in Int
      BY <1>2
    <3> HIDE DEF most
    <3> QED
      BY <3>1, FS_Interval
  <2> HIDE DEF f, most
  <2> QED
    BY <2>4, <2>5, FS_Injection
<1> QED
  BY <1>7, <1>8, <1>9 DEF Different

\* The block of a line.
LEMMA BlockOf ==
  ASSUME PageInv, NEW l \in Lines
  PROVE  \/ /\ l \in Loose
            /\ \E b \in Flow(Loose) : \E i \in Covered(b) :
                 l \in Contents(b) /\ i \in 1..Len(LooseRows) /\ l \in LooseRows[i]
         \/ /\ l \notin Loose /\ TableOf(l) \in DOMAIN tables /\ Inside(l, tables[TableOf(l)])
            /\ \E b \in TableBlocks : l \in Contents(b) /\ b.at - Len(box) = TableOf(l)
<1>1. CASE l \in Loose
  <2>1. PICK i \in 1..Len(LooseRows) : l \in LooseRows[i]
    BY <1>1, LooseRowsFacts
  <2>2. PICK b \in Flow(Loose) : i \in Covered(b)
    BY RowCovered
  <2>3. l \in Contents(b)
    BY <2>1, <2>2, FlowFacts DEF Held
  <2> QED
    BY <1>1, <2>1, <2>2, <2>3
<1>2. CASE l \notin Loose
  <2> DEFINE i == TableOf(l)
             b == TableBlock(i)
  <2>1. i \in DOMAIN tables /\ Inside(l, tables[i]) /\ l \in In(i)
    BY <1>2, TableOfType DEF Loose, In
  <2>2. b \in TableBlocks
    BY <2>1 DEF TableBlocks
  <2>3. b.at = Len(box) + i
    BY DEF TableBlock
  <2>4. i \in Nat /\ Len(box) \in Nat
    BY <2>1, TableTypes, LineTypes
  <2> HIDE DEF b, i
  <2>5. b.at - Len(box) = i
    BY <2>3, <2>4
  <2>6. l \in Contents(b)
    BY <2>1, <2>2, <2>5, TableBlockFacts
  <2> QED
    BY <1>2, <2>1, <2>2, <2>5, <2>6 DEF i
<1> QED
  BY <1>1, <1>2

\* Every line is read, and once.
LEMMA LinesReadOnce ==
  ASSUME PageInv
  PROVE  ReadOnce(PageText, Lines)
<1>1. Told(Blocks, PageText)
  BY BlocksDiffer, PageTold
<1>2. Blocks = Flow(Loose) \cup TableBlocks
  BY DEF Blocks, TableBlocks
<1>3. \A b \in Flow(Loose) : Contents(b) \in SUBSET Lines
  BY FlowFacts, LooseRowsFacts
<1>4. \A b \in TableBlocks : Contents(b) \in SUBSET Lines
  BY TableBlockFacts
<1>5. \A l \in Lines : \E b \in Blocks : l \in Contents(b)
  BY <1>2, BlockOf
<1>6. UNION {Contents(b) : b \in Blocks} = Lines
  BY <1>2, <1>3, <1>4, <1>5
<1> QED
  BY <1>1, <1>6 DEF Told

(*************************** the order of two lines ************************)

TextSays(a, b) ==
  \E i, j \in DOMAIN PageText : i < j /\ a \in PageText[i] /\ b \in PageText[j]

\* A line in a block that comes sooner is read sooner.
LEMMA SoonerRead ==
  ASSUME PageInv, NEW b \in Blocks, NEW c \in Blocks, NEW k \in Contents(b), NEW l \in Contents(c),
         Sooner(b, c)
  PROVE  TextSays(k, l)
<1>1. Told(Blocks, PageText)
  BY BlocksDiffer, PageTold
<1>2. PICK p \in 1..Len(b.text) : k \in b.text[p]
  BY DEF Contents
<1>3. PICK q \in 1..Len(c.text) : l \in c.text[q]
  BY DEF Contents
<1>4. \E i, j \in 1..Len(PageText) : i < j /\ k \in PageText[i] /\ l \in PageText[j]
  BY <1>1, <1>2, <1>3 DEF Told
<1>5. DOMAIN PageText = 1..Len(PageText)
  BY LinesReadOnce DEF ReadOnce
<1> QED
  BY <1>4, <1>5 DEF TextSays

\* And so is a line of an earlier row of the same block.
LEMMA EarlierRead ==
  ASSUME PageInv, NEW b \in Blocks, NEW p \in 1..Len(b.text), NEW q \in 1..Len(b.text),
         NEW k \in b.text[p], NEW l \in b.text[q], p < q
  PROVE  TextSays(k, l)
<1>1. Told(Blocks, PageText)
  BY BlocksDiffer, PageTold
<1>2. \E i, j \in 1..Len(PageText) : i < j /\ k \in PageText[i] /\ l \in PageText[j]
  BY <1>1 DEF Told
<1>3. DOMAIN PageText = 1..Len(PageText)
  BY LinesReadOnce DEF ReadOnce
<1> QED
  BY <1>2, <1>3 DEF TextSays

\* Two lines that no table holds.
LEMMA LooseInOrder ==
  ASSUME PageInv, Level, NEW a \in Loose, NEW b \in Loose, Over(a, b)
  PROVE  TextSays(a, b)
<1>1. OneSize /\ a \in Lines /\ b \in Lines /\ Loose \in SUBSET Lines
  BY LevelFacts
<1>2. PICK f \in Flow(Loose) : \E i \in Covered(f) :
        a \in Contents(f) /\ i \in 1..Len(LooseRows) /\ a \in LooseRows[i]
  BY <1>1, BlockOf
<1>2a. PICK i \in Covered(f) :
        a \in Contents(f) /\ i \in 1..Len(LooseRows) /\ a \in LooseRows[i]
  BY <1>2
<1>3. PICK g \in Flow(Loose) : \E j \in Covered(g) :
        b \in Contents(g) /\ j \in 1..Len(LooseRows) /\ b \in LooseRows[j]
  BY <1>1, BlockOf
<1>3a. PICK j \in Covered(g) :
        b \in Contents(g) /\ j \in 1..Len(LooseRows) /\ b \in LooseRows[j]
  BY <1>3
<1>4. i < j
  BY <1>1, <1>2a, <1>3a, AboveEarlier DEF Over, LooseRows
<1>5. f \in Blocks /\ g \in Blocks
  BY DEF Blocks
<1>6. CASE f = g
  <2>1. PICK p \in 1..Len(f.text) : a \in f.text[p]
    BY <1>2a DEF Contents
  <2>2. PICK q \in 1..Len(f.text) : b \in f.text[q]
    BY <1>3a, <1>6 DEF Contents
  <2>3. p < q
    BY <1>1, <2>1, <2>2, FlowReadsDown
  <2> QED
    BY <1>5, <2>1, <2>2, <2>3, EarlierRead
<1>7. CASE f # g
  <2>1. Len(LooseRows) \in Nat
    BY LooseRowsFacts
  <2>2. f.at < g.at /\ i < g.at
    BY <1>2a, <1>3a, <1>4, <1>7, <2>1, BlocksApart
  <2>3. PICK k \in LooseRows[i] : f.top <= Top(k)
    BY <1>2a, FlowTop
  <2>4. PICK m \in Covered(g) : \E l \in LooseRows[m] : g.top = Top(l)
    BY FlowTop
  <2>4a. PICK l \in LooseRows[m] : g.top = Top(l)
    BY <2>4
  <2>5. m \in 1..Len(LooseRows) /\ i < m
    <3>1. g.at \in 1..Len(LooseRows) /\ m \in g.at..Len(LooseRows)
      BY <2>4a, BlocksApart
    <3> QED
      BY <1>2a, <2>1, <2>2, <3>1
  <2>6. Top(k) <= Top(l)
    BY <1>2a, <2>3, <2>4a, <2>5, TopsDescend DEF LooseRows
  <2>7. f.top \in Int /\ g.top \in Int /\ Top(k) \in Int /\ Top(l) \in Int
    BY <1>2a, <2>3, <2>4a, <2>5, FlowTop, LooseRowsFacts, MeasureTypes
  <2>8. Sooner(f, g)
    BY <2>2, <2>3, <2>4a, <2>6, <2>7 DEF Sooner
  <2> QED
    BY <1>2a, <1>3a, <1>5, <2>8, SoonerRead
<1> QED
  BY <1>6, <1>7

\* A line inside a table is neither above the table nor below it.
LEMMA InsideReaches ==
  ASSUME PageInv, OneSize, NEW l \in Lines, NEW i \in DOMAIN tables, Inside(l, tables[i])
  PROVE  box[l].y0 < tables[i].y1 /\ tables[i].y0 < box[l].y1
<1>1. /\ box[l].y0 \in Int /\ box[l].y1 \in Int /\ box[l].y0 < box[l].y1
      /\ tables[i].y0 \in Int /\ tables[i].y1 \in Int
  BY LineTypes, TableTypes DEF OneSize
<1>2. 2 * tables[i].y0 <= box[l].y0 + box[l].y1 /\ box[l].y0 + box[l].y1 <= 2 * tables[i].y1
  BY DEF Inside, CenterY2
<1> QED
  BY <1>1, <1>2

\* The lines of a row lie on one side of a table.
LEMMA RowBeside ==
  ASSUME PageInv, Level, NEW j \in 1..Len(LooseRows), NEW k \in LooseRows[j], NEW l \in LooseRows[j],
         NEW i \in DOMAIN tables
  PROVE  box[k].y1 <= tables[i].y0 <=> box[l].y1 <= tables[i].y0
<1>1. OneSize /\ k \in Loose /\ l \in Loose /\ k \in Lines /\ l \in Lines /\ Loose \in SUBSET Lines
  BY LevelFacts, LooseRowsFacts
<1>2. tables[i].y0 < tables[i].y1 /\ tables[i].y0 \in Int /\ tables[i].y1 \in Int
  BY TableTypes DEF Level
<1>3. \A m \in Loose : box[m].y1 <= tables[i].y0 \/ tables[i].y1 <= box[m].y0
  BY DEF Level
<1>4. ~Above(k, l) /\ ~Above(l, k)
  <2>1. ~(j < j)
    BY LooseRowsFacts
  <2> QED
    BY <1>1, <2>1, AboveEarlier DEF LooseRows
<1>5. /\ box[k].y0 \in Int /\ box[k].y1 \in Int /\ box[l].y0 \in Int /\ box[l].y1 \in Int
      /\ box[k].y0 < box[k].y1 /\ box[l].y0 < box[l].y1
  BY <1>1, LineTypes DEF OneSize
<1>6. ~(box[k].y1 <= box[l].y0) /\ ~(box[l].y1 <= box[k].y0)
  BY <1>4 DEF Above
<1> QED
  BY <1>1, <1>2, <1>3, <1>5, <1>6

\* A line over the line of a table.
LEMMA OverTable ==
  ASSUME PageInv, Level, NEW a \in Loose, NEW b \in Lines, b \notin Loose, Over(a, b)
  PROVE  TextSays(a, b)
<1>1. OneSize /\ a \in Lines /\ Loose \in SUBSET Lines
  BY LevelFacts
<1>2. PICK f \in Flow(Loose) : \E i \in Covered(f) :
        a \in Contents(f) /\ i \in 1..Len(LooseRows) /\ a \in LooseRows[i]
  BY <1>1, BlockOf
<1>2a. PICK i \in Covered(f) :
        a \in Contents(f) /\ i \in 1..Len(LooseRows) /\ a \in LooseRows[i]
  BY <1>2
<1> DEFINE t == TableOf(b)
<1>3. t \in DOMAIN tables /\ Inside(b, tables[t])
  BY BlockOf
<1>4. PICK g \in TableBlocks : b \in Contents(g) /\ g.at - Len(box) = t
  BY BlockOf
<1> HIDE DEF t
<1>5. box[b].y0 < tables[t].y1
  BY <1>1, <1>3, InsideReaches
<1>6. /\ box[a].y0 \in Int /\ box[a].y1 \in Int /\ box[b].y0 \in Int
      /\ tables[t].y0 \in Int /\ tables[t].y1 \in Int
      /\ box[a].y0 < box[a].y1 /\ box[a].y1 <= box[b].y0
  BY <1>1, <1>3, LineTypes, TableTypes DEF OneSize, Over, Above
<1>7. box[a].y1 <= tables[t].y0
  BY <1>3, <1>5, <1>6 DEF Level
<1>8. PICK l \in LooseRows[i] : f.top <= Top(l)
  BY <1>2a, FlowTop
<1>9. l \in Lines /\ box[l].y1 <= tables[t].y0
  BY <1>2a, <1>3, <1>7, <1>8, RowBeside, LooseRowsFacts
<1>10. box[l].y0 \in Int /\ box[l].y1 \in Int /\ box[l].y0 < box[l].y1
  BY <1>1, <1>9, LineTypes DEF OneSize
<1>11. f.top \in Int /\ g.top = tables[t].y0
  BY <1>4, FlowTop, TableBlockFacts
<1>12. f.top < g.top
  BY <1>6, <1>8, <1>9, <1>10, <1>11 DEF Top
<1>13. f \in Blocks /\ g \in Blocks
  BY DEF Blocks, TableBlocks
<1> QED
  BY <1>2a, <1>4, <1>12, <1>13, SoonerRead DEF Sooner

\* From a row above the table down to the line's own, no row stands alone.
LEMMA CutsIs ==
  ASSUME PageInv, NEW i, NEW b
  PROVE  Cuts(i, b) <=>
           /\ Split # NoGutter
           /\ \E k, j \in 1..Len(LooseRows) :
                /\ k <= j /\ b \in LooseRows[j] /\ k..j \cap Alone = {}
                /\ \E l \in LooseRows[k] : box[l].y1 <= tables[i].y0
<1> DEFINE across(l) == box[l].x0 < Split /\ Split < box[l].x1
<1>1. Cuts(i, b) <=>
        /\ Split # NoGutter
        /\ \E k, j \in DOMAIN LooseRows :
             /\ k <= j /\ b \in LooseRows[j]
             /\ \E l \in LooseRows[k] : box[l].y1 <= tables[i].y0
             /\ \A m \in k..j : \A l \in LooseRows[m] : ~across(l)
  BY DEF Cuts, LooseRows, Split
<1>2. ASSUME Split # NoGutter, NEW k \in 1..Len(LooseRows), NEW j \in 1..Len(LooseRows)
      PROVE  k..j \cap Alone = {} <=> \A m \in k..j : \A l \in LooseRows[m] : ~across(l)
  <2>1. \A m \in 1..Len(LooseRows) : m \in Alone <=> \E l \in LooseRows[m] : across(l)
    BY <1>2, LooseRowsFacts DEF Alone, Spans
  <2>2. Alone \subseteq 1..Len(LooseRows)
    BY LooseRowsFacts DEF Alone
  <2>3. k..j \subseteq 1..Len(LooseRows)
    BY LooseRowsFacts
  <2> HIDE DEF across
  <2> QED
    BY <2>1, <2>2, <2>3
<1>3. DOMAIN LooseRows = 1..Len(LooseRows)
  BY LooseRowsFacts
<1> HIDE DEF across
<1> QED
  BY <1>1, <1>2, <1>3

\* The line of a table over a line, the table between no columns.
LEMMA TableOver ==
  ASSUME PageInv, Level, NEW a \in Lines, a \notin Loose, NEW b \in Loose, Over(a, b),
         ~Cuts(TableOf(a), b)
  PROVE  TextSays(a, b)
<1>1. OneSize /\ b \in Lines /\ Loose \in SUBSET Lines
  BY LevelFacts
<1>2. PICK g \in Flow(Loose) : \E j \in Covered(g) :
        b \in Contents(g) /\ j \in 1..Len(LooseRows) /\ b \in LooseRows[j]
  BY <1>1, BlockOf
<1>2a. PICK j \in Covered(g) :
        b \in Contents(g) /\ j \in 1..Len(LooseRows) /\ b \in LooseRows[j]
  BY <1>2
<1> DEFINE t == TableOf(a)
<1>3. t \in DOMAIN tables /\ Inside(a, tables[t]) /\ ~Cuts(t, b)
  BY BlockOf
<1>4. PICK f \in TableBlocks : a \in Contents(f) /\ f.at - Len(box) = t
  BY BlockOf
<1> HIDE DEF t
<1>5. tables[t].y0 < box[a].y1
  BY <1>1, <1>3, InsideReaches
<1>6. /\ box[b].y0 \in Int /\ box[b].y1 \in Int /\ box[a].y1 \in Int
      /\ tables[t].y0 \in Int /\ tables[t].y1 \in Int /\ tables[t].y0 < tables[t].y1
      /\ box[b].y0 < box[b].y1 /\ box[a].y1 <= box[b].y0
  BY <1>1, <1>3, LineTypes, TableTypes DEF OneSize, Over, Above, Level
<1>7. ~(box[b].y1 <= tables[t].y0) /\ tables[t].y0 < box[b].y0
  BY <1>5, <1>6
<1>8. f.top = tables[t].y0 /\ g.top \in Int
  BY <1>4, FlowTop, TableBlockFacts
<1>9. ASSUME ~(f.top < g.top) PROVE FALSE
  <2>1. PICK m \in Covered(g) : \E l \in LooseRows[m] : g.top = Top(l)
    BY FlowTop
  <2>2. PICK l \in LooseRows[m] : g.top = Top(l)
    BY <2>1
  <2>3. /\ Len(LooseRows) \in Nat /\ g.at \in 1..Len(LooseRows)
        /\ m \in g.at..Len(LooseRows) /\ j \in g.at..Len(LooseRows)
    BY <1>2a, LooseRowsFacts, BlocksApart
  <2>4. m \in 1..Len(LooseRows)
    BY <2>3
  <2>5. l \in Loose /\ l \in Lines /\ box[l].y0 \in Int /\ box[l].y1 \in Int
    BY <1>1, <2>4, LooseRowsFacts, LineTypes
  <2>6. box[l].y0 <= tables[t].y0
    BY <1>6, <1>8, <1>9, <2>2, <2>5 DEF Top
  <2>7. box[l].y1 <= tables[t].y0
    BY <1>3, <1>6, <2>5, <2>6 DEF Level
  <2>8. m # j
    BY <1>2a, <1>3, <1>7, <2>4, <2>7, RowBeside
  <2>9. g.at \notin Alone /\ Covered(g) = Reach(g.at)
    BY <1>2a, <2>8 DEF Covered
  <2>10. Split # NoGutter
    BY <2>3, <2>9, LooseRowsFacts DEF Alone
  <2>11. m <= j
    <3> SUFFICES ASSUME j < m PROVE FALSE
      BY <2>3
    <3>1. Top(b) <= Top(l)
      BY <1>2a, <2>4, TopsDescend DEF LooseRows
    <3> QED
      BY <1>6, <1>7, <2>5, <2>6, <3>1 DEF Top
  <2>12. m..j \cap Alone = {}
    <3>1. g.at..j \cap Alone = {}
      BY <1>2a, <2>9 DEF Reach
    <3>2. m..j \subseteq g.at..j
      BY <2>3
    <3> QED
      BY <3>1, <3>2
  <2>13. Cuts(t, b)
    BY <1>2a, <2>4, <2>7, <2>10, <2>11, <2>12, CutsIs
  <2> QED
    BY <1>3, <2>13
<1>10. f \in Blocks /\ g \in Blocks
  BY DEF Blocks, TableBlocks
<1> QED
  BY <1>2a, <1>4, <1>9, <1>10, SoonerRead DEF Sooner

\* And a table inside two columns: their stretch begins above it, and so is read first.
LEMMA TableAfter ==
  ASSUME PageInv, Level, NEW a \in Lines, a \notin Loose, NEW b \in Loose,
         Cuts(TableOf(a), b)
  PROVE  TextSays(b, a)
<1>1. OneSize /\ b \in Lines /\ Loose \in SUBSET Lines
  BY LevelFacts
<1>2. PICK g \in Flow(Loose) : \E j \in Covered(g) :
        b \in Contents(g) /\ j \in 1..Len(LooseRows) /\ b \in LooseRows[j]
  BY <1>1, BlockOf
<1>2a. PICK j \in Covered(g) :
        b \in Contents(g) /\ j \in 1..Len(LooseRows) /\ b \in LooseRows[j]
  BY <1>2
<1> DEFINE t == TableOf(a)
<1>3. t \in DOMAIN tables /\ Cuts(t, b)
  BY BlockOf
<1>4. PICK f \in TableBlocks : a \in Contents(f) /\ f.at - Len(box) = t
  BY BlockOf
<1> HIDE DEF t
<1>5. PICK k \in 1..Len(LooseRows) : \E i \in 1..Len(LooseRows) :
        /\ k <= i /\ b \in LooseRows[i] /\ k..i \cap Alone = {}
        /\ \E l \in LooseRows[k] : box[l].y1 <= tables[t].y0
  BY <1>3, CutsIs
<1>6. k <= j /\ k..j \cap Alone = {}
  <2>1. PICK i \in 1..Len(LooseRows) : k <= i /\ b \in LooseRows[i] /\ k..i \cap Alone = {}
    BY <1>5
  <2>2. i = j
    BY <1>2a, <2>1, LooseRowsFacts
  <2> QED
    BY <2>1, <2>2
<1>7. PICK c \in LooseRows[k] : box[c].y1 <= tables[t].y0
  BY <1>5
<1>8. PICK h \in Flow(Loose) : h.at \in 1..Len(LooseRows) /\ k \in Covered(h)
  BY RowCovered
<1>9. k \in Covered(g)
  <2> SUFFICES ASSUME h # g PROVE FALSE
    BY <1>8
  <2>1. /\ h.at < g.at /\ k < g.at /\ g.at \in 1..Len(LooseRows)
        /\ j \in g.at..Len(LooseRows) /\ Len(LooseRows) \in Nat
    BY <1>2a, <1>6, <1>8, BlocksApart, LooseRowsFacts
  <2>2. j \notin Alone
    BY <1>6, <2>1
  <2>3. g.at \in Begins
    BY <1>2a, <2>2, FlowKinds DEF Covered
  <2>4. g.at - 1 \in Alone
    BY <1>8, <2>1, <2>3 DEF Begins
  <2>5. g.at - 1 \in k..j
    BY <2>1
  <2> QED
    BY <1>6, <2>4, <2>5
<1>10. PICK l \in LooseRows[k] : g.top <= Top(l)
  BY <1>9, FlowTop
<1>11. l \in Lines /\ box[l].y1 <= tables[t].y0
  BY <1>3, <1>7, <1>10, RowBeside, LooseRowsFacts
<1>12. /\ box[l].y0 \in Int /\ box[l].y1 \in Int /\ box[l].y0 < box[l].y1
       /\ tables[t].y0 \in Int
  BY <1>1, <1>3, <1>11, LineTypes, TableTypes DEF OneSize
<1>13. g.top \in Int /\ f.top = tables[t].y0
  BY <1>4, FlowTop, TableBlockFacts
<1>14. g.top < f.top
  BY <1>10, <1>11, <1>12, <1>13 DEF Top
<1>15. f \in Blocks /\ g \in Blocks
  BY DEF Blocks, TableBlocks
<1> QED
  BY <1>2a, <1>4, <1>14, <1>15, SoonerRead DEF Sooner

\* Two lines in tables.
LEMMA TablesInOrder ==
  ASSUME PageInv, Level, NEW a \in Lines, a \notin Loose, NEW b \in Lines, b \notin Loose, Over(a, b)
  PROVE  TextSays(a, b)
<1>1. OneSize
  BY LevelFacts
<1> DEFINE s == TableOf(a)
           t == TableOf(b)
<1>2. s \in DOMAIN tables /\ Inside(a, tables[s]) /\ t \in DOMAIN tables /\ Inside(b, tables[t])
  BY BlockOf
<1>3. PICK f \in TableBlocks : a \in Contents(f) /\ f.at - Len(box) = s
  BY BlockOf
<1>4. PICK g \in TableBlocks : b \in Contents(g) /\ g.at - Len(box) = t
  BY BlockOf
<1> HIDE DEF s, t
<1>5. f \in Blocks /\ g \in Blocks
  BY DEF Blocks, TableBlocks
<1>6. CASE s = t
  <2>1. f = g /\ f.text = Rows(In(s)) /\ In(s) \in SUBSET Lines /\ Contents(f) = In(s)
    BY <1>3, <1>4, <1>6, TableBlockFacts
  <2>2. PICK p \in 1..Len(f.text) : a \in f.text[p]
    BY <1>3 DEF Contents
  <2>3. PICK q \in 1..Len(f.text) : b \in f.text[q]
    BY <1>4, <2>1 DEF Contents
  <2>4. p < q
    BY <1>1, <2>1, <2>2, <2>3, AboveEarlier DEF Over
  <2> QED
    BY <1>5, <2>2, <2>3, <2>4, EarlierRead
<1>7. CASE s # t
  <2>1. /\ tables[s].y0 \in Int /\ tables[s].y1 \in Int /\ tables[t].y0 \in Int
        /\ tables[t].y1 \in Int /\ tables[s].y0 < tables[s].y1
        /\ tables[s].y1 <= tables[t].y0 \/ tables[t].y1 <= tables[s].y0
    BY <1>2, <1>7, TableTypes DEF Level
  <2>2. tables[s].y0 < box[a].y1 /\ box[b].y0 < tables[t].y1
    BY <1>1, <1>2, InsideReaches
  <2>3. box[a].y1 \in Int /\ box[b].y0 \in Int /\ box[a].y1 <= box[b].y0
    BY LineTypes DEF Over, Above
  <2>4. f.top = tables[s].y0 /\ g.top = tables[t].y0
    BY <1>3, <1>4, TableBlockFacts
  <2>5. f.top < g.top
    BY <2>1, <2>2, <2>3, <2>4
  <2> QED
    BY <1>3, <1>4, <1>5, <2>5, SoonerRead DEF Sooner
<1> QED
  BY <1>6, <1>7

LEMMA ReadInOrder ==
  ASSUME PageInv
  PROVE  LinesReadInOrder
<1>1. ASSUME NEW l \in Lines
      PROVE  \E i \in DOMAIN PageText : \A j \in DOMAIN PageText : l \in PageText[j] <=> j = i
  <2>1. DOMAIN PageText = 1..Len(PageText)
    BY LinesReadOnce DEF ReadOnce
  <2>2. PICK i \in 1..Len(PageText) : l \in PageText[i]
    BY LinesReadOnce DEF ReadOnce
  <2>3. \A j \in 1..Len(PageText) : l \in PageText[j] <=> j = i
    BY <2>2, LinesReadOnce DEF ReadOnce
  <2> QED
    BY <2>1, <2>3
<1>2. \A a, b : ReadBefore(PageText, a, b) <=> TextSays(a, b)
  BY DEF ReadBefore, TextSays
<1>3. ASSUME Level, NEW a \in Lines, NEW b \in Lines, Over(a, b)
      PROVE  IF TableOf(a) # 0 /\ b \in Loose /\ Cuts(TableOf(a), b)
             THEN TextSays(b, a)
             ELSE TextSays(a, b)
  <2>1. a \in Loose <=> TableOf(a) = 0
    BY DEF Loose, In
  <2>2. CASE a \in Loose
    BY <1>3, <2>1, <2>2, LooseInOrder, OverTable
  <2>3. CASE a \notin Loose /\ b \in Loose
    BY <1>3, <2>1, <2>3, TableOver, TableAfter
  <2>4. CASE a \notin Loose /\ b \notin Loose
    BY <1>3, <2>4, TablesInOrder
  <2> QED
    BY <2>2, <2>3, <2>4
<1> QED
  BY <1>1, <1>2, <1>3 DEF LinesReadInOrder

\* layout.py, page_text: whatever lines and tables are found on a page, every line is
\* read exactly once, and on a level page the upper of two lines is read first; a table
\* that lies inside two columns, and no other, is read after the lines below it in them.
THEOREM PageReadInOrder == AnyLayout => []LinesReadInOrder
<1>1. Blank => PageInv
  <2>1. <<>> \in Seq(Boxes)
    OBVIOUS
  <2> QED
    BY <2>1 DEF Blank, PageInv
<1>2. PageInv /\ [(\E lines, ruled \in Seq(Boxes) : Finds(lines, ruled)) \/ TurnsOver]_pageVars
        => PageInv'
  <2> SUFFICES ASSUME PageInv,
                      [(\E lines, ruled \in Seq(Boxes) : Finds(lines, ruled)) \/ TurnsOver]_pageVars
               PROVE  PageInv'
    OBVIOUS
  <2>1. ASSUME NEW lines \in Seq(Boxes), NEW ruled \in Seq(Boxes), Finds(lines, ruled)
        PROVE  PageInv'
    BY <2>1 DEF PageInv, Finds
  <2>2. CASE TurnsOver
    <3>1. <<>> \in Seq(Boxes)
      OBVIOUS
    <3> QED
      BY <2>2, <3>1 DEF PageInv, TurnsOver
  <2>3. CASE UNCHANGED pageVars
    BY <2>3 DEF PageInv, pageVars
  <2> QED
    BY <2>1, <2>2, <2>3
<1>3. PageInv => LinesReadInOrder
  BY ReadInOrder
<1> QED
  BY <1>1, <1>2, <1>3, PTL DEF AnyLayout
=============================================================================
