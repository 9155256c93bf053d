------------------------------ MODULE OcrShim ------------------------------
(***************************************************************************)
(* services/ocr-shim/app.py: a page is read in a worker thread, which      *)
(* nothing can stop.  A request passes two gates: _admitted, before its    *)
(* body is read, and _GATE, the semaphore of the worker threads.  A step   *)
(* lasts from one await of the event loop to the next.                     *)
(*                                                                         *)
(* A request and its thread have one name, free again when both are over.  *)
(***************************************************************************)
EXTENDS Integers, Sequences, FiniteSets

CONSTANTS Requests, CONCURRENCY, OCR_QUEUE

ASSUME LimitsType == CONCURRENCY \in Nat \ {0} /\ OCR_QUEUE \in Nat

ADMIT == CONCURRENCY + OCR_QUEUE

VARIABLES
  at,          \* where each request is, see Stages
  admitted,    \* the counter _admitted
  free,        \* the value of _GATE
  waiters      \* who awaits _GATE, in order

vars == <<at, admitted, free, waiters>>

\* A request reads its body, waits for a thread, and has one at work; the thread
\* has ended before its handler runs again, or goes on after the answer 504.
Stages == {"idle", "body", "waiting", "working", "ended", "orphan"}

At(stages) == {r \in Requests : at[r] \in stages}

To(r, stage) == at' = [at EXCEPT ![r] = stage]

Init ==
  /\ at = [r \in Requests |-> "idle"]
  /\ admitted = 0 /\ free = CONCURRENCY /\ waiters = <<>>

(******************************* admission *******************************)

\* A bug: the request that fills the queue is one too many.
HasRoomForOneMore == admitted <= ADMIT

HasRoom == admitted < ADMIT

Admit(r) ==
  /\ at[r] = "idle" /\ HasRoom
  /\ admitted' = admitted + 1
  /\ To(r, "body")
  /\ UNCHANGED <<free, waiters>>

\* 503 before a byte of the body is read.
Busy(r) == at[r] = "idle" /\ ~HasRoom /\ UNCHANGED vars

Less(n) == IF admitted < n THEN 0 ELSE admitted - n

Leave == admitted' = Less(1)

\* A bug: the handler's finally leaves a second time.
LeaveTwice == admitted' = Less(2)

LeaveUnread == Leave

\* _body: too large, empty, or the client has gone.
BodyRefused(r) ==
  /\ at[r] = "body"
  /\ LeaveUnread
  /\ To(r, "idle")
  /\ UNCHANGED <<free, waiters>>

(**************************** worker threads *****************************)

\* A bug: the newest waiter is served first.
NewestFirst(queue, r) == <<r>> \o queue

Queued(queue, r) == Append(queue, r)

\* A free semaphore is taken without an await; the step of its own adds
\* behaviours and removes none.
BodyRead(r) ==
  /\ at[r] = "body"
  /\ waiters' = Queued(waiters, r)
  /\ To(r, "waiting")
  /\ UNCHANGED <<admitted, free>>

StartThread(r) ==
  /\ waiters # <<>> /\ r = Head(waiters) /\ free > 0
  /\ free' = free - 1 /\ waiters' = Tail(waiters)
  /\ To(r, "working")
  /\ UNCHANGED admitted

\* The done callback.  Of a request already answered nobody reads the result.
ThreadEnds(r) ==
  /\ at[r] \in {"working", "orphan"}
  /\ free' = free + 1
  /\ To(r, IF at[r] = "working" THEN "ended" ELSE "idle")
  /\ UNCHANGED <<admitted, waiters>>

Answer(r) == at[r] = "ended" /\ Leave /\ To(r, "idle") /\ UNCHANGED <<free, waiters>>

\* A bug: the slot is given back with the answer.
FreeEarly(r) == IF at[r] = "working" THEN free + 1 ELSE free

FreeAtTimeout(r) == free

\* wait_for runs out: 504.  The thread may have ended in the same instant.
TimesOut(r) ==
  /\ at[r] \in {"working", "ended"}
  /\ free' = FreeAtTimeout(r)
  /\ Leave
  /\ To(r, IF at[r] = "working" THEN "orphan" ELSE "idle")
  /\ UNCHANGED waiters

\* The container is started again: threads, queue and counters go with it, and
\* the models are loaded before the first request.
Restart ==
  /\ at' = [r \in Requests |-> "idle"]
  /\ admitted' = 0 /\ free' = CONCURRENCY /\ waiters' = <<>>

Upload(r) == Admit(r) \/ Busy(r)

Proceed(r) ==
  BodyRefused(r) \/ BodyRead(r) \/ StartThread(r) \/ ThreadEnds(r) \/ Answer(r) \/ TimesOut(r)

Next == Restart \/ \E r \in Requests : Upload(r) \/ Proceed(r)

Spec == Init /\ [][Next]_vars

\* Bodies end, the reader returns, and the event loop runs what is ready.  The
\* time limit is no progress: it never frees a thread.
Fairness ==
  \A r \in Requests :
    /\ WF_vars(BodyRefused(r) \/ BodyRead(r))
    /\ WF_vars(StartThread(r))
    /\ WF_vars(ThreadEnds(r))
    /\ WF_vars(Answer(r) \/ TimesOut(r))

FairSpec == Spec /\ Fairness
-----------------------------------------------------------------------------
Read == {"body", "waiting", "working", "ended"}

Workers == INSTANCE Slots WITH
  Users <- Requests, Limit <- CONCURRENCY,
  holders <- At({"working", "orphan"}), count <- CONCURRENCY - free

Admission == INSTANCE Slots WITH
  Users <- Requests, Limit <- ADMIT, holders <- At(Read), count <- admitted

\* Work past its time limit does not pile up: the semaphore implements Slots,
\* held by the threads that really run, the orphans of a 504 among them.  And
\* admission implements Slots: whichever of the six ways a request ends, it
\* leaves once, so that the floor at zero in _leave never hides a second time.
GatesKept == Workers!Spec /\ Admission!Spec

\* "A queue of large documents never sits in memory": with the threads of answered
\* requests counted, there are never more bodies than ADMIT + CONCURRENCY.
BodiesInMemory == Cardinality(At(Read \cup {"orphan"})) <= ADMIT + CONCURRENCY

\* Whoever waits for a thread is in the queue, with less than ADMIT others before it,
\* and a thread is free or CONCURRENCY of them run and will hand theirs on.
NobodyForgotten ==
  \A r \in Requests : at[r] = "waiting" =>
    /\ \E i \in 1..ADMIT : i <= Len(waiters) /\ waiters[i] = r
    /\ free > 0 \/ Cardinality(At({"working", "orphan"})) = CONCURRENCY

\* Whoever was let in is answered, though others come and time out all the
\* while: no limit bounds the wait for a thread but the order of the waiters.
PagesAnswered == \A r \in Requests : at[r] \in Read ~> at[r] \in {"idle", "orphan"}
=============================================================================
