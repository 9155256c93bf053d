-------------------------- MODULE PageFetchProofs --------------------------
(***************************************************************************)
(* For any number of scrapes, slots and failures: PageFetch keeps its      *)
(* types, gives up a browser only after it was lost and leaves no lock and *)
(* no gap behind, tells only a scrape that met two failures that there is  *)
(* none, and its render gate implements Slots.                             *)
(***************************************************************************)
EXTENDS PageFetch, FiniteSetTheorems, TLAPS

(************************* the inductive invariant *************************)

\* The state with the slots left to SlotInv.
TypeInv ==
  /\ process \in {"up", "down"}
  /\ crawler \in Nat \cup {NoBrowser} /\ generation \in Nat
  /\ dead \in SUBSET Nat /\ hung \in SUBSET Nat /\ unstarted \in SUBSET Nat
  /\ dead_in_a_row \in 0..EXIT_LIMIT
  /\ lock \in Callers \cup {Nobody}
  /\ call \in [Callers -> CallType]
  /\ trouble \in 0..MaxTrouble
  /\ hits \in [Scrapes -> 0..2]

FlagInv == fresh \in BOOLEAN

\* gate.active counts the scrapes between acquire and release.
SlotInv ==
  /\ IsFiniteSet(Holders)
  /\ active = Cardinality(Holders)
  /\ active <= MAX_CONCURRENT_PAGES

\* restart_lock is held exactly by the caller inside _restart_browser.
LockInv == \A c \in Callers : call[c].at \in Restarting <=> lock = c

\* What stands in for the browser: the one of this generation, or nothing
\* while it is being replaced and after a start that failed.
PlaceInv ==
  /\ crawler \in {NoBrowser, generation}
  /\ lock # Nobody => (call[lock].at = "probe" <=> crawler # NoBrowser)
  /\ process = "up" /\ crawler = NoBrowser /\ lock = Nobody => generation \in unstarted

\* A process that is down has nothing under way.
DownInv ==
  process = "down" => /\ crawler = NoBrowser /\ generation = 0 /\ lock = Nobody
         /\ call = [c \in Callers |-> Idle]

Inv == TypeInv /\ FlagInv /\ SlotInv /\ LockInv /\ PlaceInv /\ DownInv /\ ReplacedOnlyIfLost

(*********************** what a coroutine is doing ************************)

LEMMA DoingType ==
  ASSUME NEW stage \in {"idle", "queued", "unavailable", "check", "recheck"} \cup Holding,
         NEW seen \in Nat, NEW on \in Nat \cup {NoBrowser}, NEW attempt \in {1, 2}
  PROVE  /\ Doing(stage, seen, on, attempt) \in CallType
         /\ Doing(stage, seen, on, attempt).at = stage
         /\ Doing(stage, seen, on, attempt).seen = seen
         /\ Doing(stage, seen, on, attempt).on = on
         /\ Doing(stage, seen, on, attempt).attempt = attempt
BY DEF Doing, CallType

LEMMA IdleType == Idle \in CallType /\ Idle.at = "idle"
BY DEF Idle, Doing, CallType

\* A caller that goes on to another stage keeps the rest of what it knows.
LEMMA StageType ==
  ASSUME NEW q \in CallType,
         NEW stage \in {"idle", "queued", "unavailable", "check", "recheck"} \cup Holding
  PROVE  /\ [q EXCEPT !.at = stage] \in CallType
         /\ [q EXCEPT !.at = stage].at = stage
         /\ [q EXCEPT !.at = stage].seen = q.seen
         /\ [q EXCEPT !.at = stage].on = q.on
         /\ [q EXCEPT !.at = stage].attempt = q.attempt
BY DEF CallType

\* The answer of _restart_browser lets a scrape render or ends it, and lets the
\* watcher look once more or sleep.
LEMMA ReturnedType ==
  ASSUME NEW c, NEW ok \in BOOLEAN, NEW b \in Nat \cup {NoBrowser}, generation \in Nat
  PROVE  /\ Returned(c, ok, b) \in CallType
         /\ Returned(c, ok, b).at \in {"idle", "recheck", "render", "unavailable"}
         /\ c # Watcher /\ ok => Returned(c, ok, b).at = "render"
         /\ c # Watcher /\ ~ok => Returned(c, ok, b).at = "unavailable"
BY DEF Returned, Doing, Idle, CallType, Holding, NoBrowser

\* Only the caller's own entry changes.
LEMMA SetFacts ==
  ASSUME NEW c \in Callers, NEW q \in CallType, TypeInv, call' = [call EXCEPT ![c] = q]
  PROVE  /\ call' \in [Callers -> CallType]
         /\ call'[c] = q
         /\ \A d \in Callers : d # c => call'[d] = call[d]
BY DEF TypeInv

LEMMA MoveFacts ==
  ASSUME NEW c \in Callers, TypeInv,
         NEW stage \in {"idle", "queued", "unavailable", "check", "recheck"} \cup Holding,
         call' = [call EXCEPT ![c].at = stage]
  PROVE  /\ call' \in [Callers -> CallType]
         /\ call'[c].at = stage
         /\ call'[c].seen = call[c].seen /\ call'[c].on = call[c].on
         /\ call'[c].attempt = call[c].attempt
         /\ \A d \in Callers : d # c => call'[d] = call[d]
<1> DEFINE q == [call[c] EXCEPT !.at = stage]
<1>1. /\ q \in CallType /\ q.at = stage
      /\ q.seen = call[c].seen /\ q.on = call[c].on /\ q.attempt = call[c].attempt
  BY StageType DEF TypeInv
<1>2. call' = [call EXCEPT ![c] = q]
  OBVIOUS
<1> HIDE DEF q
<1> QED
  BY <1>1, <1>2, SetFacts

(************************* slots taken and returned ************************)

\* A step that moves nobody in or out of the slots keeps their count.
LEMMA SameHolders ==
  ASSUME SlotInv, Holders' = Holders, active' = active
  PROVE  SlotInv'
BY DEF SlotInv

\* gate.acquire: one more holder, one more in the counter.
LEMMA OneEnters ==
  ASSUME SlotInv, active < MAX_CONCURRENT_PAGES,
         NEW s, s \notin Holders,
         Holders' = Holders \cup {s}, active' = active + 1
  PROVE  SlotInv'
<1>1. IsFiniteSet(Holders') /\ Cardinality(Holders') = Cardinality(Holders) + 1
  BY FS_AddElement DEF SlotInv
<1>2. Cardinality(Holders) \in Nat
  BY FS_CardinalityType DEF SlotInv
<1> QED
  BY <1>1, <1>2, LimitsType DEF SlotInv

\* gate.release: one holder less, one less in the counter.
LEMMA OneLeaves ==
  ASSUME SlotInv, NEW s, s \in Holders,
         Holders' = Holders \ {s}, active' = active - 1
  PROVE  SlotInv'
<1>1. IsFiniteSet(Holders') /\ Cardinality(Holders') = Cardinality(Holders) - 1
  BY FS_RemoveElement DEF SlotInv
<1>2. Cardinality(Holders) \in Nat
  BY FS_CardinalityType DEF SlotInv
<1> QED
  BY <1>1, <1>2, LimitsType DEF SlotInv

\* A caller that stays inside, or outside, its slot.
LEMMA SameSide ==
  ASSUME NEW c \in Callers, \A d \in Callers : d # c => call'[d] = call[d],
         c \in Scrapes => (call'[c].at \in Holding <=> call[c].at \in Holding)
  PROVE  Holders' = Holders
BY DEF Holders, Callers

\* What answering a caller of _restart_browser does.
LEMMA AnswerFacts ==
  ASSUME TypeInv, NEW c \in Callers, call[c].at \in Holding, NEW ok \in BOOLEAN,
         NEW b \in Nat \cup {NoBrowser}, Answer(c, ok, b)
  PROVE  /\ call' \in [Callers -> CallType]
         /\ call'[c].at \in {"idle", "recheck", "render", "unavailable"}
         /\ \A d \in Callers : d # c => call'[d] = call[d]
         /\ SlotInv => SlotInv'
<1>1. Returned(c, ok, b) \in CallType /\ call' = [call EXCEPT ![c] = Returned(c, ok, b)]
  BY ReturnedType DEF Answer, TypeInv
<1>2. /\ call' \in [Callers -> CallType] /\ call'[c] = Returned(c, ok, b)
      /\ \A d \in Callers : d # c => call'[d] = call[d]
  BY <1>1, SetFacts
<1>3. ASSUME c \notin Scrapes \/ ok, SlotInv PROVE SlotInv'
  <2>1. Holders' = Holders
    <3>1. c \in Scrapes => call'[c].at = "render"
      BY <1>2, <1>3, ReturnedType, CallersDiffer DEF TypeInv
    <3> QED
      BY <3>1, <1>2, SameSide DEF Holding
  <2>2. active' = active
    BY <1>3 DEF Answer, SlotAfter
  <2> QED
    BY <2>1, <2>2, <1>3, SameHolders
<1>4. ASSUME c \in Scrapes, ~ok, SlotInv PROVE SlotInv'
  <2>1. call'[c].at = "unavailable"
    BY <1>2, <1>4, ReturnedType, CallersDiffer DEF TypeInv
  <2>2. Holders' = Holders \ {c} /\ c \in Holders
    BY <2>1, <1>2, <1>4 DEF Holders, Callers, Holding
  <2>3. active' = active - 1
    BY <1>4 DEF Answer, SlotAfter
  <2> QED
    BY <2>2, <2>3, <1>4, OneLeaves
<1> QED
  BY <1>2, <1>3, <1>4, ReturnedType DEF TypeInv

(********************************** steps **********************************)

LEMMA InitOK == Init => Inv
<1> SUFFICES ASSUME Init PROVE Inv
  OBVIOUS
<1>1. TypeInv
  BY LimitsType, IdleType DEF TypeInv, NoBrowser, Init, Down
<1>2. FlagInv
  BY DEF FlagInv, Init, Down
<1>3. Holders = {}
  BY IdleType DEF Holders, Callers, Init, Down, Holding
<1>4. SlotInv
  BY <1>3, FS_EmptySet, LimitsType DEF SlotInv, Init, Down
<1>5. LockInv /\ PlaceInv /\ DownInv /\ ReplacedOnlyIfLost
  BY CallersDiffer, IdleType DEF LockInv, PlaceInv, DownInv, ReplacedOnlyIfLost, Restarting,
     Init, Down
<1> QED
  BY <1>1, <1>2, <1>4, <1>5 DEF Inv

LEMMA ReuseKeeps ==
  ASSUME Inv, NEW c \in Callers, Reuse(c)
  PROVE  Inv'
<1>1. /\ call' \in [Callers -> CallType]
      /\ call'[c].at \in {"idle", "recheck", "render", "unavailable"}
      /\ \A d \in Callers : d # c => call'[d] = call[d]
      /\ SlotInv'
  <2>1. /\ Answer(c, Reusable, crawler) /\ call[c].at \in Holding /\ Reusable \in BOOLEAN
        /\ crawler \in Nat \cup {NoBrowser}
    BY DEF Reuse, Holding, Reusable, Inv, TypeInv
  <2> QED
    BY <2>1, AnswerFacts DEF Inv
<1>2. TypeInv' /\ FlagInv'
  BY <1>1 DEF Inv, TypeInv, FlagInv, Reuse, browserVars, countVars
<1>3. process = "up"
  BY IdleType DEF Inv, DownInv, Reuse, TypeInv
<1>4. LockInv' /\ PlaceInv'
  BY <1>1, CallersDiffer DEF Inv, LockInv, PlaceInv, Restarting, Reuse, browserVars
<1>5. DownInv' /\ ReplacedOnlyIfLost'
  BY <1>3 DEF Inv, DownInv, ReplacedOnlyIfLost, Reuse, browserVars
<1> QED
  BY <1>1, <1>2, <1>4, <1>5 DEF Inv
LEMMA AcquireKeeps ==
  ASSUME Inv, NEW c \in Callers, Acquire(c)
  PROVE  Inv'
<1>1. \E stage \in {"start", "probe"} :
        /\ call' = [call EXCEPT ![c].at = stage]
        /\ stage = "start" => /\ crawler = NoBrowser /\ crawler' = NoBrowser
                              /\ generation' = generation + 1
        /\ stage = "probe" => crawler # NoBrowser /\ UNCHANGED <<crawler, generation>>
  BY DEF Acquire, Discard, browserVars
<1>2. PICK stage \in {"start", "probe"} :
        /\ call' = [call EXCEPT ![c].at = stage]
        /\ stage = "start" => /\ crawler = NoBrowser /\ crawler' = NoBrowser
                              /\ generation' = generation + 1
        /\ stage = "probe" => crawler # NoBrowser /\ UNCHANGED <<crawler, generation>>
  BY <1>1
<1>3. /\ call' \in [Callers -> CallType] /\ call'[c].at = stage
      /\ \A d \in Callers : d # c => call'[d] = call[d]
  BY <1>2, MoveFacts DEF Inv, Holding
<1>4. /\ call[c].at = "lock" /\ lock = Nobody /\ lock' = c
      /\ UNCHANGED <<process, dead, hung, unstarted, countVars, active, trouble, hits>>
  BY DEF Acquire, Discard, browserVars
<1>5. TypeInv' /\ FlagInv'
  BY <1>2, <1>3, <1>4 DEF Inv, TypeInv, FlagInv, countVars, NoBrowser
<1>6. SlotInv'
  <2>1. Holders' = Holders
    BY <1>3, <1>4, SameSide DEF Holding
  <2> QED
    BY <2>1, <1>4, SameHolders DEF Inv
<1>7. process = "up"
  BY <1>4, IdleType DEF Inv, DownInv, TypeInv
<1>8. LockInv'
  BY <1>3, <1>4, CallersDiffer DEF Inv, LockInv, Restarting
<1>9. PlaceInv'
  BY <1>2, <1>3, <1>4, CallersDiffer DEF Inv, PlaceInv, TypeInv
<1>10. DownInv'
  BY <1>4, <1>7 DEF DownInv
<1>11. ReplacedOnlyIfLost'
  BY <1>2, <1>4, <1>7 DEF Inv, ReplacedOnlyIfLost, PlaceInv, TypeInv
<1> QED
  BY <1>5, <1>6, <1>8, <1>9, <1>10, <1>11 DEF Inv

\* Inside the lock something stands behind the caller's stage.
LEMMA InsideLock ==
  ASSUME Inv, NEW c \in Callers, call[c].at \in Restarting
  PROVE  /\ lock = c /\ process = "up"
         /\ call[c].at = "probe" => crawler = generation
         /\ call[c].at \in {"close", "start"} => crawler = NoBrowser
<1>1. lock = c /\ lock # Nobody
  BY CallersDiffer DEF Inv, LockInv
<1>2. process = "up"
  BY <1>1 DEF Inv, DownInv, TypeInv
<1> QED
  BY <1>1, <1>2 DEF Inv, PlaceInv, Restarting

LEMMA KeepKeeps ==
  ASSUME Inv, NEW c \in Callers, Keep(c)
  PROVE  Inv'
<1>1. /\ call' \in [Callers -> CallType]
      /\ call'[c].at \in {"idle", "recheck", "render", "unavailable"}
      /\ \A d \in Callers : d # c => call'[d] = call[d]
      /\ SlotInv'
  <2>1. /\ Answer(c, TRUE, crawler) /\ call[c].at \in Holding
        /\ crawler \in Nat \cup {NoBrowser}
    BY DEF Keep, Holding, Inv, TypeInv
  <2> QED
    BY <2>1, AnswerFacts DEF Inv
<1>2. /\ lock = c /\ process = "up" /\ crawler = generation /\ lock' = Nobody
      /\ UNCHANGED <<browserVars, countVars, trouble, hits>>
  BY InsideLock DEF Keep, Restarting
<1>3. TypeInv' /\ FlagInv'
  BY <1>1, <1>2 DEF Inv, TypeInv, FlagInv, browserVars, countVars
<1>4. LockInv'
  BY <1>1, <1>2, CallersDiffer DEF Inv, LockInv, Restarting
<1>5. PlaceInv'
  BY <1>2 DEF Inv, PlaceInv, TypeInv, browserVars, NoBrowser
<1>6. DownInv' /\ ReplacedOnlyIfLost'
  BY <1>2 DEF Inv, DownInv, ReplacedOnlyIfLost, browserVars
<1> QED
  BY <1>1, <1>3, <1>4, <1>5, <1>6 DEF Inv

LEMMA ReplaceKeeps ==
  ASSUME Inv, NEW c \in Callers, Replace(c)
  PROVE  Inv'
<1>1. /\ lock = c /\ process = "up" /\ crawler = generation /\ call[c].at = "probe"
      /\ crawler' = NoBrowser /\ generation' = generation + 1
      /\ UNCHANGED <<process, dead, hung, unstarted, countVars, lock, active, trouble, hits>>
  BY InsideLock DEF Replace, Discard, Restarting
<1>2. /\ call' \in [Callers -> CallType] /\ call'[c].at = "close"
      /\ \A d \in Callers : d # c => call'[d] = call[d]
  BY MoveFacts DEF Inv, Holding, Replace, Discard
<1>3. generation \in dead \cup hung
  BY <1>1 DEF Replace, KeepsBrowser, Renders, IsConnected, Works
<1>4. TypeInv' /\ FlagInv'
  BY <1>1, <1>2 DEF Inv, TypeInv, FlagInv, countVars
<1>5. SlotInv'
  <2>1. Holders' = Holders
    BY <1>1, <1>2, SameSide DEF Holding
  <2> QED
    BY <2>1, <1>1, SameHolders DEF Inv
<1>6. LockInv'
  BY <1>1, <1>2 DEF Inv, LockInv, Restarting
<1>7. PlaceInv'
  BY <1>1, <1>2, CallersDiffer DEF Inv, PlaceInv
<1>8. DownInv' /\ ReplacedOnlyIfLost'
  BY <1>1, <1>3 DEF Inv, DownInv, ReplacedOnlyIfLost, TypeInv
<1> QED
  BY <1>4, <1>5, <1>6, <1>7, <1>8 DEF Inv

LEMMA ClosedKeeps ==
  ASSUME Inv, NEW c \in Callers, Closed(c)
  PROVE  Inv'
<1>1. /\ lock = c /\ process = "up" /\ crawler = NoBrowser /\ call[c].at = "close"
      /\ UNCHANGED <<browserVars, countVars, lock, active, trouble, hits>>
  BY InsideLock DEF Closed, Restarting
<1>2. /\ call' \in [Callers -> CallType] /\ call'[c].at = "start"
      /\ \A d \in Callers : d # c => call'[d] = call[d]
  BY MoveFacts DEF Inv, Holding, Closed
<1>3. TypeInv' /\ FlagInv'
  BY <1>1, <1>2 DEF Inv, TypeInv, FlagInv, browserVars, countVars
<1>4. SlotInv'
  <2>1. Holders' = Holders
    BY <1>1, <1>2, SameSide DEF Holding
  <2> QED
    BY <2>1, <1>1, SameHolders DEF Inv
<1>5. LockInv' /\ PlaceInv'
  BY <1>1, <1>2 DEF Inv, LockInv, PlaceInv, Restarting, browserVars
<1>6. DownInv' /\ ReplacedOnlyIfLost'
  BY <1>1 DEF Inv, DownInv, ReplacedOnlyIfLost, browserVars
<1> QED
  BY <1>3, <1>4, <1>5, <1>6 DEF Inv

LEMMA StartedKeeps ==
  ASSUME Inv, NEW c \in Callers, Started(c)
  PROVE  Inv'
<1>1. /\ call' \in [Callers -> CallType]
      /\ call'[c].at \in {"idle", "recheck", "render", "unavailable"}
      /\ \A d \in Callers : d # c => call'[d] = call[d]
      /\ SlotInv'
  <2>1. /\ Answer(c, TRUE, generation) /\ call[c].at \in Holding
        /\ generation \in Nat \cup {NoBrowser}
    BY DEF Started, Holding, Inv, TypeInv
  <2> QED
    BY <2>1, AnswerFacts DEF Inv
<1>2. /\ lock = c /\ process = "up" /\ lock' = Nobody /\ crawler' = generation
      /\ UNCHANGED <<process, generation, dead, hung, unstarted, dead_in_a_row, fresh,
                     trouble, hits>>
  BY InsideLock DEF Started, Restarting
<1>3. TypeInv'
  BY <1>1, <1>2 DEF Inv, TypeInv
<1>4. FlagInv'
  BY <1>2 DEF Inv, FlagInv
<1>5. LockInv'
  BY <1>1, <1>2, CallersDiffer DEF Inv, LockInv, Restarting
<1>6. PlaceInv'
  BY <1>2 DEF Inv, PlaceInv, TypeInv, NoBrowser
<1>7. DownInv' /\ ReplacedOnlyIfLost'
  BY <1>2 DEF Inv, DownInv, ReplacedOnlyIfLost
<1> QED
  BY <1>1, <1>3, <1>4, <1>5, <1>6, <1>7 DEF Inv

LEMMA StartFailsKeeps ==
  ASSUME Inv, NEW c \in Callers, StartFails(c)
  PROVE  Inv'
<1>1. /\ call' \in [Callers -> CallType]
      /\ call'[c].at \in {"idle", "recheck", "render", "unavailable"}
      /\ \A d \in Callers : d # c => call'[d] = call[d]
      /\ SlotInv'
  <2>1. /\ Answer(c, FALSE, NoBrowser) /\ call[c].at \in Holding
        /\ NoBrowser \in Nat \cup {NoBrowser}
    BY DEF StartFails, Holding, Inv, TypeInv
  <2> QED
    BY <2>1, AnswerFacts DEF Inv
<1>2. /\ lock = c /\ process = "up" /\ crawler = NoBrowser /\ lock' = Nobody
      /\ unstarted' = unstarted \cup {generation}
      /\ UNCHANGED <<process, crawler, generation, dead, hung, dead_in_a_row, fresh>>
  BY InsideLock DEF StartFails, Restarting
<1>3. trouble' \in 0..MaxTrouble /\ hits' \in [Scrapes -> 0..2]
  BY LimitsType DEF Inv, TypeInv, StartFails, Trouble, Hurt
<1>4. TypeInv'
  BY <1>1, <1>2, <1>3 DEF Inv, TypeInv
<1>5. FlagInv'
  BY <1>2 DEF Inv, FlagInv
<1>6. LockInv'
  BY <1>1, <1>2, CallersDiffer DEF Inv, LockInv, Restarting
<1>7. PlaceInv'
  BY <1>2 DEF Inv, PlaceInv, TypeInv, NoBrowser
<1>8. DownInv' /\ ReplacedOnlyIfLost'
  BY <1>2 DEF Inv, DownInv, ReplacedOnlyIfLost
<1> QED
  BY <1>1, <1>4, <1>5, <1>6, <1>7, <1>8 DEF Inv
\* A coroutine that changes neither the browser nor the lock.
LEMMA OwnStep ==
  ASSUME Inv, NEW c \in Callers, process = "up",
         call' \in [Callers -> CallType],
         \A d \in Callers : d # c => call'[d] = call[d],
         call[c].at \notin Restarting, call'[c].at \notin Restarting,
         UNCHANGED <<browserVars, lock>>,
         dead_in_a_row' \in 0..EXIT_LIMIT, fresh' \in BOOLEAN,
         trouble' \in 0..MaxTrouble, hits' \in [Scrapes -> 0..2],
         SlotInv'
  PROVE  Inv'
<1>1. TypeInv' /\ FlagInv'
  BY DEF Inv, TypeInv, FlagInv, browserVars
<1>2. LockInv'
  BY DEF Inv, LockInv
<1>3. PlaceInv'
  <2>1. lock # Nobody => lock # c /\ lock \in Callers
    BY DEF Inv, LockInv, TypeInv
  <2> QED
    BY <2>1 DEF Inv, PlaceInv, browserVars
<1>4. DownInv' /\ ReplacedOnlyIfLost'
  BY DEF Inv, DownInv, ReplacedOnlyIfLost, browserVars
<1> QED
  BY <1>1, <1>2, <1>3, <1>4 DEF Inv

\* Counting a failure, or clearing the count, keeps the counters' types.
LEMMA CountFacts ==
  ASSUME Inv, CountFailure \/ MarkOk \/ UNCHANGED countVars
  PROVE  dead_in_a_row' \in 0..EXIT_LIMIT /\ fresh' \in BOOLEAN
<1>1. dead_in_a_row' \in 0..EXIT_LIMIT
  BY LimitsType DEF Inv, TypeInv, CountFailure, OneMore, MarkOk, countVars
<1>2. fresh' \in BOOLEAN
  BY DEF Inv, FlagInv, CountFailure, MarkOk, countVars
<1> QED
  BY <1>1, <1>2

LEMMA Busy ==
  ASSUME Inv, NEW c \in Callers, call[c].at # "idle"
  PROVE  process = "up"
BY IdleType DEF Inv, DownInv, TypeInv

LEMMA ArriveKeeps ==
  ASSUME Inv, NEW s \in Scrapes, Arrive(s)
  PROVE  Inv'
<1> USE DEF Callers
<1>1. /\ call' \in [Callers -> CallType] /\ call'[s].at = "queued"
      /\ \A d \in Callers : d # s => call'[d] = call[d]
  BY MoveFacts DEF Inv, Arrive
<1>2. call[s].at = "idle" /\ UNCHANGED active
  BY DEF Arrive
<1>3. SlotInv'
  BY <1>1, <1>2, SameSide, SameHolders DEF Inv, Holding
<1>4. /\ process = "up" /\ UNCHANGED <<browserVars, lock, trouble, hits>>
      /\ UNCHANGED countVars
  BY DEF Arrive
<1> QED
  BY <1>1, <1>2, <1>3, <1>4, OwnStep, CountFacts DEF Restarting, Inv, TypeInv

LEMMA AdmitKeeps ==
  ASSUME Inv, NEW s \in Scrapes, Admit(s)
  PROVE  Inv'
<1> USE DEF Callers
<1> DEFINE q == Doing(IF crawler = NoBrowser THEN "lock" ELSE "render", generation, crawler, 1)
<1>1. q \in CallType /\ q.at \in {"lock", "render"}
  BY DEF Inv, TypeInv, Holding, Doing, CallType
<1>2. call' = [call EXCEPT ![s] = q]
  BY DEF Admit
<1> HIDE DEF q
<1>3. /\ call' \in [Callers -> CallType] /\ call'[s] = q
      /\ \A d \in Callers : d # s => call'[d] = call[d]
  BY <1>1, <1>2, SetFacts DEF Inv
<1>4. /\ call[s].at = "queued" /\ active < MAX_CONCURRENT_PAGES /\ active' = active + 1
      /\ CountFailure \/ UNCHANGED countVars
      /\ UNCHANGED <<browserVars, lock, trouble>>
  BY DEF Admit
<1>5. SlotInv'
  <2>1. s \notin Holders /\ Holders' = Holders \cup {s}
    BY <1>1, <1>3, <1>4 DEF Holders, Holding
  <2> QED
    BY <2>1, <1>4, OneEnters DEF Inv
<1>6. hits' \in [Scrapes -> 0..2]
  BY DEF Admit, Inv, TypeInv
<1>7. process = "up"
  BY <1>4, Busy
<1> QED
  BY <1>1, <1>3, <1>4, <1>5, <1>6, <1>7, OwnStep, CountFacts DEF Restarting, Inv, TypeInv

\* A scrape that ends its turn at the gate without or with its slot.
LEMMA EndKeeps ==
  ASSUME Inv, NEW s \in Scrapes, NEW q \in CallType, call[s].at \in {"render", "queued"},
         q.at \in {"idle", "unavailable"}, call' = [call EXCEPT ![s] = q],
         active' = (IF call[s].at = "render" THEN active - 1 ELSE active),
         UNCHANGED <<browserVars, lock>>,
         CountFailure \/ MarkOk \/ UNCHANGED countVars,
         trouble' \in 0..MaxTrouble, hits' \in [Scrapes -> 0..2]
  PROVE  Inv'
<1> USE DEF Callers
<1>1. /\ call' \in [Callers -> CallType] /\ call'[s] = q
      /\ \A d \in Callers : d # s => call'[d] = call[d]
  BY SetFacts DEF Inv
<1>2. SlotInv'
  <2>1. CASE call[s].at = "render"
    <3>1. s \in Holders /\ Holders' = Holders \ {s}
      BY <1>1, <2>1 DEF Holders, Holding
    <3> QED
      BY <3>1, <2>1, OneLeaves DEF Inv
  <2>2. CASE call[s].at = "queued"
    <3>1. Holders' = Holders
      BY <1>1, <2>2, SameSide DEF Holding
    <3> QED
      BY <3>1, <2>2, SameHolders DEF Inv
  <2> QED
    BY <2>1, <2>2
<1>3. process = "up"
  BY Busy
<1> QED
  BY <1>1, <1>2, <1>3, OwnStep, CountFacts DEF Restarting

LEMMA RefuseKeeps ==
  ASSUME Inv, NEW s \in Scrapes, Refuse(s)
  PROVE  Inv'
BY EndKeeps, IdleType DEF Refuse, CountWhenRefused, Inv, TypeInv

LEMMA AnsweredKeeps ==
  ASSUME Inv, NEW s \in Scrapes, Answered(s) \/ PageError(s)
  PROVE  Inv'
BY EndKeeps, IdleType DEF Answered, PageError, EndScrape, Inv, TypeInv

\* A failed attempt leaves the slot alone when it goes on to the restart.
LEMMA AttemptKeeps ==
  ASSUME Inv, NEW s \in Scrapes, call[s].at = "render", AttemptFailed(s),
         UNCHANGED <<browserVars, lock>>,
         trouble' \in 0..MaxTrouble, hits' \in [Scrapes -> 0..2]
  PROVE  Inv'
<1> USE DEF Callers
<1>1. CASE call[s].attempt = 1
  <2>1. call' = [call EXCEPT ![s].at = "lock"] /\ UNCHANGED active /\ CountFailure
    BY <1>1 DEF AttemptFailed
  <2>2. /\ call' \in [Callers -> CallType] /\ call'[s].at = "lock"
        /\ \A d \in Callers : d # s => call'[d] = call[d]
    BY <2>1, MoveFacts DEF Inv, Holding
  <2>3. SlotInv'
    BY <2>1, <2>2, SameSide, SameHolders DEF Inv, Holding
  <2> QED
    BY <2>1, <2>2, <2>3, Busy, OwnStep, CountFacts DEF Restarting
<1>2. CASE call[s].attempt # 1
  <2> DEFINE q == Doing("unavailable", 0, NoBrowser, 1)
  <2>1. q \in CallType /\ q.at = "unavailable"
    BY DEF Doing, CallType
  <2>2. call' = [call EXCEPT ![s] = q] /\ active' = active - 1 /\ CountFailure
    BY <1>2 DEF AttemptFailed
  <2> HIDE DEF q
  <2> QED
    BY <2>1, <2>2, EndKeeps
<1> QED
  BY <1>1, <1>2

LEMMA BrowserGoneKeeps ==
  ASSUME Inv, NEW s \in Scrapes, BrowserGone(s)
  PROVE  Inv'
BY AttemptKeeps DEF BrowserGone, Inv, TypeInv

LEMMA TargetClosedKeeps ==
  ASSUME Inv, NEW s \in Scrapes, TargetClosed(s)
  PROVE  Inv'
<1>1. trouble' \in 0..MaxTrouble /\ hits' \in [Scrapes -> 0..2]
  BY LimitsType DEF TargetClosed, Trouble, Inv, TypeInv
<1> QED
  BY <1>1, AttemptKeeps DEF TargetClosed

LEMMA ReplyKeeps ==
  ASSUME Inv, NEW s \in Scrapes, Reply(s)
  PROVE  Inv'
<1> USE DEF Callers
<1>1. /\ call' \in [Callers -> CallType] /\ call'[s] = Idle
      /\ \A d \in Callers : d # s => call'[d] = call[d]
  BY SetFacts, IdleType DEF Inv, Reply
<1>2. SlotInv'
  BY <1>1, IdleType, SameSide, SameHolders DEF Inv, Holding, Reply
<1> QED
  BY <1>1, <1>2, IdleType, Busy, OwnStep, CountFacts DEF Restarting, Reply, Inv, TypeInv
\* A step that touches no coroutine and leaves the browser in its place.
LEMMA OutsideStep ==
  ASSUME Inv, UNCHANGED <<process, crawler, generation, lock, call, active, dead_in_a_row>>,
         dead \subseteq dead', hung \subseteq hung', unstarted \subseteq unstarted',
         dead' \in SUBSET Nat, hung' \in SUBSET Nat, unstarted' \in SUBSET Nat,
         fresh' \in BOOLEAN, trouble' \in 0..MaxTrouble, hits' \in [Scrapes -> 0..2]
  PROVE  Inv'
<1>1. TypeInv' /\ FlagInv'
  BY DEF Inv, TypeInv, FlagInv
<1>2. SlotInv'
  BY SameHolders DEF Inv, Holders
<1>3. LockInv' /\ PlaceInv' /\ DownInv'
  BY DEF Inv, LockInv, PlaceInv, DownInv
<1>4. ReplacedOnlyIfLost'
  BY DEF Inv, ReplacedOnlyIfLost
<1> QED
  BY <1>1, <1>2, <1>3, <1>4 DEF Inv

\* One failure more keeps the budget and the histories in their types.
LEMMA TroubleFacts ==
  ASSUME Inv, Trouble, Hurt \/ UNCHANGED hits
  PROVE  trouble' \in 0..MaxTrouble /\ hits' \in [Scrapes -> 0..2]
BY LimitsType DEF Inv, TypeInv, Trouble, Hurt

LEMMA DiesKeeps ==
  ASSUME Inv, Dies
  PROVE  Inv'
<1>1. dead' = dead \cup {crawler} /\ crawler \in Nat
  BY DEF Dies, Inv, TypeInv
<1>2. UNCHANGED <<process, crawler, generation, hung, unstarted, countVars, lock, call, active>>
  BY DEF Dies
<1>3. trouble' \in 0..MaxTrouble /\ hits' \in [Scrapes -> 0..2]
  BY TroubleFacts DEF Dies
<1> QED
  BY <1>1, <1>2, <1>3, OutsideStep DEF countVars, Inv, TypeInv, FlagInv

LEMMA HangsKeeps ==
  ASSUME Inv, Hangs
  PROVE  Inv'
<1>1. hung' = hung \cup {crawler} /\ crawler \in Nat
  BY DEF Hangs, Inv, TypeInv
<1>2. UNCHANGED <<process, crawler, generation, dead, unstarted, countVars, lock, call, active>>
  BY DEF Hangs
<1>3. trouble' \in 0..MaxTrouble /\ hits' \in [Scrapes -> 0..2]
  BY TroubleFacts DEF Hangs
<1> QED
  BY <1>1, <1>2, <1>3, OutsideStep DEF countVars, Inv, TypeInv, FlagInv

LEMMA TimePassesKeeps ==
  ASSUME Inv, TimePasses
  PROVE  Inv'
<1>1. fresh' \in BOOLEAN
  BY DEF TimePasses
<1>2. UNCHANGED <<browserVars, dead_in_a_row, lock, call, active, trouble, hits>>
  BY DEF TimePasses
<1> QED
  BY <1>1, <1>2, OutsideStep DEF browserVars, Inv, TypeInv

LEMMA BootKeeps ==
  ASSUME Inv, Boot \/ BootFails
  PROVE  Inv'
<1>1. CASE Boot
  <2>1. /\ process = "down" /\ process' = "up" /\ crawler' = 0 /\ generation = 0
        /\ lock = Nobody
        /\ UNCHANGED <<generation, dead, hung, unstarted, dead_in_a_row, lock, call,
                       active, trouble, hits>>
    BY <1>1 DEF Boot, countVars, Inv, DownInv
  <2>2. UNCHANGED fresh
    BY <1>1 DEF Boot, countVars
  <2>3. TypeInv'
    BY <2>1 DEF Inv, TypeInv
  <2>4. FlagInv'
    BY <2>2 DEF Inv, FlagInv
  <2>5. SlotInv'
    BY <2>1, SameHolders DEF Inv, Holders
  <2>6. LockInv' /\ PlaceInv' /\ DownInv'
    BY <2>1 DEF Inv, LockInv, PlaceInv, DownInv, NoBrowser
  <2>7. ReplacedOnlyIfLost'
    BY <2>1 DEF Inv, ReplacedOnlyIfLost
  <2> QED
    BY <2>3, <2>4, <2>5, <2>6, <2>7 DEF Inv
<1>2. CASE BootFails
  <2>1. trouble' \in 0..MaxTrouble /\ hits' \in [Scrapes -> 0..2]
    BY <1>2, TroubleFacts DEF BootFails
  <2>2. UNCHANGED <<browserVars, lock, call, active, hits, dead_in_a_row>>
    BY <1>2 DEF BootFails, countVars
  <2>3. UNCHANGED fresh
    BY <1>2 DEF BootFails, countVars
  <2> QED
    BY <2>1, <2>2, <2>3, OutsideStep DEF browserVars, Inv, TypeInv, FlagInv
<1> QED
  BY <1>1, <1>2

\* The exit drops everything the process had.
LEMMA GoesDownKeeps ==
  ASSUME Inv, GoesDown, UNCHANGED trouble
  PROVE  Inv'
<1>1. TypeInv'
  BY LimitsType, IdleType DEF GoesDown, Inv, TypeInv, NoBrowser
<1>2. FlagInv'
  BY DEF GoesDown, FlagInv
<1>3. Holders' = {}
  BY IdleType DEF GoesDown, Holders, Callers, Holding
<1>4. SlotInv'
  BY <1>3, FS_EmptySet, LimitsType DEF GoesDown, SlotInv
<1>5. LockInv' /\ PlaceInv' /\ DownInv' /\ ReplacedOnlyIfLost'
  BY CallersDiffer, IdleType DEF GoesDown, LockInv, PlaceInv, DownInv, ReplacedOnlyIfLost,
     Restarting
<1> QED
  BY <1>1, <1>2, <1>4, <1>5 DEF Inv

\* The watcher's own steps move no slot.
LEMMA WatcherStep ==
  ASSUME Inv, NEW q \in CallType, q.at \in {"idle", "check", "lock"},
         call[Watcher].at \notin Restarting, process = "up",
         call' = [call EXCEPT ![Watcher] = q],
         UNCHANGED <<browserVars, lock, active, trouble, hits>>,
         CountFailure \/ MarkOk \/ UNCHANGED countVars
  PROVE  Inv'
<1> USE DEF Callers
<1>1. /\ call' \in [Callers -> CallType] /\ call'[Watcher] = q
      /\ \A d \in Callers : d # Watcher => call'[d] = call[d]
  BY SetFacts DEF Inv
<1>2. SlotInv'
  BY <1>1, CallersDiffer, SameSide, SameHolders DEF Inv
<1> QED
  BY <1>1, <1>2, OwnStep, CountFacts DEF Restarting, Inv, TypeInv

LEMMA CheckFailedKeeps ==
  ASSUME Inv, NEW seen \in Nat, CheckFailed(seen), UNCHANGED trouble, process = "up",
         call[Watcher].at \notin Restarting
  PROVE  Inv'
<1>1. CASE OneMore(dead_in_a_row) >= EXIT_LIMIT
  BY <1>1, GoesDownKeeps DEF CheckFailed
<1>2. CASE ~(OneMore(dead_in_a_row) >= EXIT_LIMIT)
  <2> DEFINE q == Doing("lock", seen, NoBrowser, 1)
  <2>1. q \in CallType /\ q.at = "lock"
    BY DEF Doing, CallType, Holding
  <2>2. /\ call' = [call EXCEPT ![Watcher] = q] /\ CountFailure
        /\ UNCHANGED <<browserVars, lock, active, hits>>
    BY <1>2 DEF CheckFailed
  <2> HIDE DEF q
  <2> QED
    BY <2>1, <2>2, WatcherStep
<1> QED
  BY <1>1, <1>2

LEMMA WatchKeeps ==
  ASSUME Inv, Watch
  PROVE  Inv'
<1>1. generation \in Nat /\ call[Watcher] \in CallType /\ call[Watcher].seen \in Nat
  BY DEF Inv, TypeInv, Callers, CallType
<1>2. CASE Wake
  <2>1. process = "up" /\ call[Watcher].at = "idle" /\ UNCHANGED trouble
    BY <1>2 DEF Wake
  <2>2. CASE crawler = NoBrowser
    BY <1>1, <1>2, <2>1, <2>2, CheckFailedKeeps DEF Wake, Restarting
  <2>3. CASE crawler # NoBrowser
    <3> DEFINE q == Doing("check", generation, crawler, 1)
    <3>1. q \in CallType /\ q.at = "check"
      BY <1>1 DEF Doing, CallType, Inv, TypeInv
    <3>2. /\ call' = [call EXCEPT ![Watcher] = q]
          /\ UNCHANGED <<browserVars, countVars, lock, active, hits>>
      BY <1>2, <2>3 DEF Wake
    <3> HIDE DEF q
    <3> QED
      BY <2>1, <3>1, <3>2, WatcherStep DEF Restarting
  <2> QED
    BY <2>2, <2>3
<1>3. CASE CheckEnds
  <2>1. call[Watcher].at = "check" /\ UNCHANGED trouble /\ process = "up"
    BY <1>3, Busy DEF CheckEnds, Callers
  <2>2. CASE Renders(call[Watcher].on)
    BY <1>3, <2>1, <2>2, WatcherStep, IdleType DEF CheckEnds, Restarting
  <2>3. CASE ~Renders(call[Watcher].on)
    BY <1>1, <1>3, <2>1, <2>3, CheckFailedKeeps DEF CheckEnds, Restarting
  <2> QED
    BY <2>2, <2>3
<1>4. CASE RecheckEnds
  <2>1. call[Watcher].at = "recheck" /\ process = "up"
    BY <1>4, Busy DEF RecheckEnds, Callers
  <2>2. MarkOk \/ UNCHANGED countVars
    BY <1>4 DEF RecheckEnds
  <2> QED
    BY <1>4, <2>1, <2>2, WatcherStep, IdleType DEF RecheckEnds, Restarting
<1> QED
  BY <1>2, <1>3, <1>4 DEF Watch

LEMMA StutterKeeps ==
  ASSUME Inv, UNCHANGED vars
  PROVE  Inv'
<1>1. UNCHANGED fresh
  BY DEF vars, countVars
<1>2. UNCHANGED <<browserVars, dead_in_a_row, lock, call, active, trouble, hits>>
  BY DEF vars, countVars
<1> QED
  BY <1>1, <1>2, OutsideStep DEF browserVars, Inv, TypeInv, FlagInv

LEMMA StepOK == Inv /\ [Next]_vars => Inv'
<1> SUFFICES ASSUME Inv, [Next]_vars PROVE Inv'
  OBVIOUS
<1>1. CASE Boot \/ BootFails
  BY <1>1, BootKeeps
<1>2. CASE Dies \/ Hangs \/ TimePasses \/ Watch
  BY <1>2, DiesKeeps, HangsKeeps, TimePassesKeeps, WatchKeeps
<1>3. ASSUME NEW c \in Callers, Restart(c) PROVE Inv'
  BY <1>3, ReuseKeeps, AcquireKeeps, KeepKeeps, ReplaceKeeps, ClosedKeeps, StartedKeeps,
     StartFailsKeeps DEF Restart
<1>4. ASSUME NEW s \in Scrapes, Arrive(s) \/ Admit(s) \/ Refuse(s) \/ RenderEnds(s) \/ Reply(s)
      PROVE Inv'
  BY <1>4, ArriveKeeps, AdmitKeeps, RefuseKeeps, AnsweredKeeps, BrowserGoneKeeps,
     TargetClosedKeeps, ReplyKeeps DEF RenderEnds
<1>5. CASE UNCHANGED vars
  BY <1>5, StutterKeeps
<1> QED
  BY <1>1, <1>2, <1>3, <1>4, <1>5 DEF Next

LEMMA Invariance == Spec => []Inv
<1> QED
  BY InitOK, StepOK, PTL DEF Spec

(********************************* results *********************************)

\* The shim's state keeps its types; in particular gate.active never passes the
\* number of pages and never falls below zero, whichever way scrapes end.
THEOREM TypeCorrect == Spec => []TypeOK
<1>1. Inv => TypeOK
  <2> SUFFICES ASSUME Inv PROVE TypeOK
    OBVIOUS
  <2>1. active \in 0..MAX_CONCURRENT_PAGES
    BY FS_CardinalityType, LimitsType DEF Inv, SlotInv
  <2>2. fresh \in BOOLEAN
    BY DEF Inv, FlagInv
  <2>3. TypeInv
    BY DEF Inv
  <2> QED
    BY <2>1, <2>2, <2>3 DEF TypeInv, TypeOK
<1> QED
  BY <1>1, Invariance, PTL

\* _restart_browser never gives up a browser that was not lost, however many
\* scrapes report it and whatever the watcher does meanwhile.
THEOREM LostBeforeReplaced == Spec => []ReplacedOnlyIfLost
<1>1. Inv => ReplacedOnlyIfLost
  BY DEF Inv
<1> QED
  BY <1>1, Invariance, PTL
(***************************** the render gate *****************************)

\* _restart_browser: whatever dies, hangs or does not start, and however late it is
\* reported, the lock is never left taken, and a shim without a browser is making one,
\* unless the start of the last one has failed.
THEOREM NeverAbandoned == Spec => []RepairUnderWay
<1>1. Inv => RepairUnderWay
  <2> SUFFICES ASSUME Inv PROVE RepairUnderWay
    OBVIOUS
  <2>1. lock # Nobody => lock \in Callers /\ call[lock].at \in Restarting
    BY DEF Inv, TypeInv, LockInv
  <2>2. lock # Nobody /\ crawler = NoBrowser => call[lock].at \in {"close", "start"}
    BY <2>1 DEF Inv, PlaceInv, Restarting
  <2> QED
    BY <2>1, <2>2 DEF Inv, PlaceInv, RepairUnderWay
<1> QED
  BY <1>1, Invariance, PTL

\* At most one coroutine moves.
OneMoves == \E c \in Callers : \A d \in Callers : d # c => call'[d] = call[d]

LEMMA MovesOrEnds ==
  ASSUME Inv, Next
  PROVE  OneMoves \/ call' = [c \in Callers |-> Idle]
<1> USE DEF OneMoves, Callers
<1>1. CASE Boot \/ BootFails \/ Dies \/ Hangs \/ TimePasses
  BY <1>1 DEF Boot, BootFails, Dies, Hangs, TimePasses
<1>2. CASE Watch
  BY <1>2 DEF Watch, Wake, CheckEnds, RecheckEnds, CheckFailed, GoesDown, Inv, TypeInv
<1>3. ASSUME NEW c \in Callers, Restart(c) PROVE OneMoves
  BY <1>3 DEF Restart, Reuse, Acquire, Keep, Replace, Closed, Started, StartFails, Answer,
     Discard, Inv, TypeInv
<1>4. ASSUME NEW s \in Scrapes, Arrive(s) \/ Admit(s) \/ Refuse(s) \/ RenderEnds(s) \/ Reply(s)
      PROVE OneMoves
  BY <1>4 DEF Arrive, Admit, Refuse, RenderEnds, Answered, PageError, BrowserGone,
     TargetClosed, AttemptFailed, EndScrape, Reply, Inv, TypeInv
<1> QED
  BY <1>1, <1>2, <1>3, <1>4 DEF Next

LEMMA GateStep ==
  ASSUME Inv, Inv', OneMoves \/ call' = [c \in Callers |-> Idle]
  PROVE  [RenderGate!Next]_(RenderGate!vars)
<1>1. /\ active = Cardinality(Holders) /\ active' = Cardinality(Holders')
      /\ active' <= MAX_CONCURRENT_PAGES /\ active \in Nat /\ active' \in Nat
      /\ IsFiniteSet(Holders) /\ IsFiniteSet(Holders')
  BY FS_CardinalityType DEF Inv, SlotInv
<1>2. CASE Holders' = {}
  <2>1. RenderGate!LeaveAll
    BY <1>1, <1>2, FS_EmptySet DEF RenderGate!LeaveAll
  <2> QED
    BY <2>1 DEF RenderGate!Next
<1>3. CASE OneMoves
  <2>1. PICK c \in Callers : \A d \in Callers : d # c => call'[d] = call[d]
    BY <1>3 DEF OneMoves
  <2>2. CASE c \notin Scrapes \/ (c \in Holders <=> c \in Holders')
    <3>1. Holders' = Holders
      BY <2>1, <2>2 DEF Holders, Callers
    <3> QED
      BY <3>1, <1>1 DEF RenderGate!vars
  <2>3. CASE c \in Scrapes /\ c \in Holders /\ c \notin Holders'
    <3>1. Holders' = Holders \ {c}
      BY <2>1, <2>3 DEF Holders, Callers
    <3>2. RenderGate!Leave(c)
      BY <3>1, <2>3, <1>1, FS_RemoveElement DEF RenderGate!Leave
    <3> QED
      BY <3>2, <2>3 DEF RenderGate!Next
  <2>4. CASE c \in Scrapes /\ c \notin Holders /\ c \in Holders'
    <3>1. Holders' = Holders \cup {c}
      BY <2>1, <2>4 DEF Holders, Callers
    <3>2. active' = active + 1
      BY <3>1, <2>4, <1>1, FS_AddElement
    <3>3. RenderGate!Enter(c)
      BY <3>1, <3>2, <2>4, <1>1, LimitsType DEF RenderGate!Enter
    <3> QED
      BY <3>3, <2>4 DEF RenderGate!Next
  <2> QED
    BY <2>2, <2>3, <2>4
<1>4. CASE call' = [c \in Callers |-> Idle]
  <2>1. Holders' = {}
    BY <1>4, IdleType DEF Holders, Callers, Holding
  <2> QED
    BY <2>1, <1>2
<1> QED
  BY <1>3, <1>4

\* Gate of gate.py, used by _scrape through every return, exception and retry
\* and cut off by an exit, implements the abstract slots.
THEOREM RenderGateIsSlots == Spec => SlotsKept
<1>1. Init => RenderGate!Init
  <2> SUFFICES ASSUME Init PROVE RenderGate!Init
    OBVIOUS
  <2>1. Holders = {}
    BY IdleType DEF Holders, Callers, Init, Down, Holding
  <2> QED
    BY <2>1 DEF RenderGate!Init, Init, Down
<1>2. Inv /\ Inv' /\ [Next]_vars => [RenderGate!Next]_(RenderGate!vars)
  <2> SUFFICES ASSUME Inv, Inv', [Next]_vars PROVE [RenderGate!Next]_(RenderGate!vars)
    OBVIOUS
  <2>1. CASE Next
    BY <2>1, MovesOrEnds, GateStep
  <2>2. CASE UNCHANGED vars
    BY <2>2 DEF vars, RenderGate!vars, Holders
  <2> QED
    BY <2>1, <2>2
<1> QED
  BY <1>1, <1>2, Invariance, PTL DEF Spec, SlotsKept, RenderGate!Spec

(***************************** two failures each ***************************)

\* The browsers that were lost, one way or the other.
Lost == dead \cup hung \cup unstarted

\* Only browsers that were there are lost; one that died or hangs stays in place
\* until it is given up, one that did not start leaves its place empty.
LostInv ==
  /\ Lost \subseteq 0..generation
  /\ generation \in dead \cup hung => crawler = generation
  /\ generation \in unstarted => crawler = NoBrowser /\ lock = Nobody
  /\ process = "down" => unstarted = {}

\* The failures a scrape must have met by where it is: one to leave its first
\* attempt, one for the browser it renders on being lost, and both once the
\* browser that took the place of its first one is lost as well.
AttemptInv(s) ==
  /\ call[s].attempt = 2 => call[s].at = "render"
  /\ call[s].at = "unavailable" => hits[s] = 2
  /\ call[s].at \in Holding => call[s].seen \in 0..generation
  /\ call[s].at \in Holding \ {"render"} => hits[s] >= 1
  /\ call[s].at = "render" =>
       /\ call[s].on \in 0..generation /\ call[s].on \notin unstarted
       /\ call[s].on = generation => crawler = generation
       /\ call[s].attempt = 1 => call[s].on = call[s].seen
       /\ call[s].attempt = 2 => hits[s] >= 1
       /\ call[s].on \in Lost => hits[s] >= call[s].attempt
  /\ (call[s].at \in {"render", "lock"} /\ call[s].attempt = 1
       /\ call[s].seen # generation /\ generation \in Lost) => hits[s] = 2

HitsInv == LostInv /\ \A s \in Scrapes : AttemptInv(s)

LEMMA ScrapeFacts ==
  ASSUME Inv, NEW s \in Scrapes
  PROVE  /\ s \in Callers /\ s # Watcher
         /\ call[s].seen \in Nat /\ call[s].attempt \in {1, 2}
         /\ call[s].on \in Nat \cup {NoBrowser}
         /\ hits[s] \in 0..2
         /\ generation \in Nat /\ NoBrowser \notin Nat
         /\ crawler \in {NoBrowser, generation}
BY CallersDiffer DEF Inv, TypeInv, PlaceInv, Callers, CallType, NoBrowser

\* A scrape that neither holds a slot nor was refused a browser.
LEMMA AtRest ==
  ASSUME NEW s, call[s].at \notin Holding \cup {"unavailable"}, call[s].attempt = 1
  PROVE  AttemptInv(s)
BY DEF AttemptInv, Holding

\* What a step does to the browser: nothing, give it up, put the next one in
\* place, or lose the one of this generation, which hurts who holds a slot.
Stays == UNCHANGED <<crawler, generation, dead, hung, unstarted>>

GivesUp == /\ crawler' = NoBrowser /\ generation' = generation + 1
           /\ UNCHANGED <<dead, hung, unstarted>>

ComesUp == /\ crawler = NoBrowser /\ crawler' = generation
           /\ UNCHANGED <<generation, dead, hung, unstarted>>

Harmless == Stays \/ GivesUp \/ ComesUp

Breaks == /\ Lost' = Lost \cup {generation} /\ Hurt
          /\ UNCHANGED <<crawler, generation>>
          /\ \/ UNCHANGED unstarted
             \/ crawler = NoBrowser /\ unstarted' = unstarted \cup {generation}

\* Whatever happens to the browser, a scrape that does not move keeps pace.
LEMMA BystanderKeeps ==
  ASSUME Inv, LostInv, NEW s \in Scrapes, AttemptInv(s), call'[s] = call[s],
         (Harmless /\ hits'[s] = hits[s]) \/ Breaks
  PROVE  AttemptInv(s)'
<1>0. /\ call[s].seen \in Nat /\ call[s].attempt \in {1, 2}
      /\ hits[s] \in 0..2 /\ generation \in Nat
      /\ crawler \in {NoBrowser, generation} /\ NoBrowser \notin Nat
  BY ScrapeFacts
<1>1. CASE Stays /\ hits'[s] = hits[s]
  BY <1>1 DEF Stays, AttemptInv, Lost
<1>2. CASE GivesUp /\ hits'[s] = hits[s]
  <2>1. generation + 1 \notin Lost
    BY <1>0 DEF LostInv
  <2> QED
    BY <1>0, <1>2, <2>1 DEF GivesUp, AttemptInv, Lost
<1>3. CASE ComesUp /\ hits'[s] = hits[s]
  BY <1>0, <1>3 DEF ComesUp, AttemptInv, Lost
<1>4. CASE Breaks
  <2>1. /\ Lost' = Lost \cup {generation} /\ UNCHANGED <<crawler, generation>>
        /\ call[s].at \in Holding /\ hits[s] < 2 => hits'[s] = hits[s] + 1
        /\ ~(call[s].at \in Holding /\ hits[s] < 2) => hits'[s] = hits[s]
    BY <1>4 DEF Breaks, Hurt, Holders
  <2>2. hits'[s] \in 0..2 /\ hits'[s] >= hits[s]
        /\ (call[s].at \in Holding => hits'[s] >= 1)
        /\ (call[s].at \in Holding /\ hits[s] >= 1 => hits'[s] = 2)
    BY <1>0, <2>1
  <2>3. CASE call[s].at \notin Holding
    BY <1>0, <2>1, <2>2, <2>3 DEF AttemptInv, Holding
  <2>4. CASE call[s].at \in Holding \ {"render"}
    <3>1. hits'[s] = 2
      BY <2>2, <2>4 DEF AttemptInv
    <3> QED
      BY <1>0, <2>1, <2>4, <3>1 DEF AttemptInv, Holding
  <2>5. CASE call[s].at = "render"
    <3>1. call[s].on \notin unstarted'
      BY <1>0, <1>4, <2>5 DEF Breaks, AttemptInv
    <3>2. call[s].attempt = 2 => hits'[s] = 2
      BY <2>2, <2>5 DEF AttemptInv, Holding
    <3>3. call[s].attempt = 1 /\ call[s].seen # generation => hits'[s] = 2
      <4> SUFFICES ASSUME call[s].attempt = 1, call[s].seen # generation
                   PROVE  hits'[s] = 2
        OBVIOUS
      <4>1. call[s].seen \in 0..(generation - 1) /\ call[s].on = call[s].seen
        BY <1>0, <2>5 DEF AttemptInv, Holding
      <4>2. call[s].on \in Lost
        BY <4>1 DEF Inv, ReplacedOnlyIfLost, Lost
      <4> QED
        BY <2>2, <2>5, <4>2 DEF AttemptInv, Holding
    <3> QED
      BY <1>0, <2>1, <2>2, <2>5, <3>1, <3>2, <3>3 DEF AttemptInv, Holding
  <2> QED
    BY <2>3, <2>4, <2>5 DEF Holding
<1> QED
  BY <1>1, <1>2, <1>3, <1>4 DEF Harmless

\* Renders on the browser in place, which the caller got from _restart_browser.
LEMMA SecondAttempt ==
  ASSUME NEW s \in Scrapes, Inv', LostInv',
         call'[s] = Doing("render", generation', crawler', 2),
         crawler' # NoBrowser, hits'[s] >= 1,
         generation' \in Lost' => hits'[s] = 2
  PROVE  AttemptInv(s)'
<1> DEFINE c == call'[s]
<1>1. c.at = "render" /\ c.on = crawler' /\ c.attempt = 2 /\ c.seen = generation'
  BY DEF Doing
<1>2. crawler' = generation' /\ generation' \in Nat
  BY DEF Inv, PlaceInv, TypeInv
<1>3. crawler' \notin unstarted'
  BY <1>2 DEF LostInv
<1> QED
  BY <1>1, <1>2, <1>3 DEF AttemptInv

\* The caller that answers "browser unavailable" has met two failures.
LEMMA GivenUp ==
  ASSUME NEW s \in Scrapes, call'[s] = Doing("unavailable", 0, NoBrowser, 1), hits'[s] = 2
  PROVE  AttemptInv(s)'
BY DEF Doing, AttemptInv, Holding

LEMMA AnswerToScrape ==
  ASSUME Inv, NEW s \in Scrapes, NEW ok \in BOOLEAN, NEW b, Answer(s, ok, b)
  PROVE  /\ ok => call'[s] = Doing("render", generation, b, 2)
         /\ ~ok => call'[s] = Doing("unavailable", 0, NoBrowser, 1)
BY ScrapeFacts DEF Answer, Returned, Inv, TypeInv

\* Who is in _restart_browser moves alone and does one thing to the browser.
LEMMA RestartMoves ==
  ASSUME Inv, LostInv, NEW c \in Callers, Restart(c)
  PROVE  /\ \A d \in Callers : d # c => call'[d] = call[d]
         /\ (Harmless /\ UNCHANGED hits) \/ Breaks
         /\ LostInv'
<1>0. /\ generation \in Nat /\ crawler \in {NoBrowser, generation} /\ NoBrowser \notin Nat
      /\ process = "up"
  <2>1. call[c].at # "idle"
    BY DEF Restart, Reuse, Acquire, Keep, Replace, Closed, Started, StartFails
  <2> QED
    BY <2>1, Busy DEF Inv, TypeInv, PlaceInv, NoBrowser
<1>1. \A d \in Callers : d # c => call'[d] = call[d]
  BY DEF Restart, Reuse, Acquire, Keep, Replace, Closed, Started, StartFails, Answer,
     Discard, Inv, TypeInv
<1>2. CASE Reuse(c) \/ Keep(c) \/ Closed(c)
  <2>1. Stays /\ UNCHANGED <<process, hits>>
    BY <1>2 DEF Reuse, Keep, Closed, Stays, browserVars
  <2>2. lock = Nobody => lock' = Nobody
    BY <1>2 DEF Reuse, Keep, Closed
  <2> QED
    BY <1>1, <2>1, <2>2 DEF Harmless, Stays, LostInv, Lost
<1>3. CASE Acquire(c)
  <2>1. CASE crawler = NoBrowser
    <3>1. GivesUp /\ UNCHANGED <<process, hits>>
      BY <1>3, <2>1 DEF Acquire, Discard, GivesUp
    <3>2. LostInv'
      BY <1>0, <3>1 DEF GivesUp, LostInv, Lost
    <3> QED
      BY <1>1, <3>1, <3>2 DEF Harmless
  <2>2. CASE crawler # NoBrowser
    <3>1. Stays /\ UNCHANGED <<process, hits>>
      BY <1>3, <2>2 DEF Acquire, Stays, browserVars
    <3>2. LostInv'
      BY <2>2, <3>1 DEF Stays, LostInv, Lost
    <3> QED
      BY <1>1, <3>1, <3>2 DEF Harmless
  <2> QED
    BY <2>1, <2>2
<1>4. CASE Replace(c)
  <2>1. GivesUp /\ UNCHANGED <<process, hits>>
    BY <1>4 DEF Replace, Discard, GivesUp
  <2> QED
    BY <1>0, <1>1, <2>1 DEF Harmless, GivesUp, LostInv, Lost
<1>5. CASE Started(c)
  <2>1. crawler = NoBrowser /\ lock = c /\ lock # Nobody
    BY <1>5, InsideLock, CallersDiffer DEF Started, Restarting
  <2>2. ComesUp /\ UNCHANGED <<process, hits>>
    BY <1>5, <2>1 DEF Started, ComesUp
  <2> QED
    BY <1>0, <1>1, <2>1, <2>2 DEF Harmless, ComesUp, LostInv, Lost
<1>6. CASE StartFails(c)
  <2>1. crawler = NoBrowser
    BY <1>6, InsideLock DEF StartFails, Restarting
  <2>2. Breaks /\ process' = process /\ lock' = Nobody
    BY <1>6, <2>1 DEF StartFails, Breaks, Lost
  <2>3. UNCHANGED <<dead, hung, generation, crawler>>
        /\ unstarted' = unstarted \cup {generation}
    BY <1>6 DEF StartFails
  <2> QED
    BY <1>0, <1>1, <2>1, <2>2, <2>3 DEF LostInv, Lost
<1> QED
  BY <1>2, <1>3, <1>4, <1>5, <1>6 DEF Restart

\* A scrape's own way through _restart_browser.
LEMMA RestartAttempt ==
  ASSUME Inv, LostInv, NEW s \in Scrapes, AttemptInv(s), Restart(s), Inv', LostInv'
  PROVE  AttemptInv(s)'
<1>0. /\ call[s].seen \in Nat /\ call[s].attempt \in {1, 2} /\ s \in Callers
      /\ hits[s] \in 0..2 /\ generation \in Nat
      /\ crawler \in {NoBrowser, generation} /\ NoBrowser \notin Nat
  BY ScrapeFacts
<1>1. call[s].at \in Holding \ {"render"}
  BY DEF Restart, Reuse, Acquire, Keep, Replace, Closed, Started, StartFails, Holding
<1>2. call[s].attempt = 1 /\ hits[s] >= 1 /\ call[s].seen \in 0..generation
  BY <1>0, <1>1 DEF AttemptInv
<1>3. CASE Reuse(s)
  <2>1. /\ Answer(s, Reusable, crawler) /\ Reusable \in BOOLEAN
        /\ call[s].at = "lock" /\ lock = Nobody /\ generation # call[s].seen
        /\ UNCHANGED <<browserVars, hits>>
    BY <1>3 DEF Reuse, Reusable
  <2>2. generation \in Lost => hits[s] = 2
    BY <1>2, <2>1 DEF AttemptInv
  <2>3. CASE crawler # NoBrowser
    <3>1. call'[s] = Doing("render", generation, crawler, 2)
      BY <2>1, <2>3, AnswerToScrape DEF Reusable
    <3> QED
      BY <1>2, <2>1, <2>2, <2>3, <3>1, SecondAttempt DEF browserVars, Lost
  <2>4. CASE crawler = NoBrowser
    <3>1. call'[s] = Doing("unavailable", 0, NoBrowser, 1)
      BY <2>1, <2>4, AnswerToScrape DEF Reusable
    <3>2. process = "up"
      BY <1>0, <2>1, Busy
    <3>3. generation \in Lost
      BY <2>1, <2>4, <3>2 DEF Inv, PlaceInv, Lost
    <3> QED
      BY <2>1, <2>2, <3>1, <3>3, GivenUp
  <2> QED
    BY <2>3, <2>4
<1>4. CASE Acquire(s) \/ Replace(s) \/ Closed(s)
  <2>1. PICK stage \in {"start", "probe", "close"} : call' = [call EXCEPT ![s].at = stage]
    BY <1>4 DEF Acquire, Replace, Closed, Discard
  <2>2. /\ call'[s].at = stage /\ call'[s].attempt = 1 /\ call'[s].seen = call[s].seen
    BY <1>0, <1>2, <2>1, MoveFacts DEF Inv, Holding
  <2>3. hits' = hits /\ generation' \in {generation, generation + 1}
    BY <1>4 DEF Acquire, Replace, Closed, Discard, browserVars
  <2> QED
    BY <1>0, <1>2, <2>2, <2>3 DEF AttemptInv, Holding
<1>5. CASE Keep(s)
  <2>1. crawler = generation /\ Renders(crawler) /\ UNCHANGED <<browserVars, hits>>
        /\ Answer(s, TRUE, crawler)
    BY <1>0, <1>5, InsideLock DEF Keep, KeepsBrowser, Restarting
  <2>2. generation \notin Lost
    BY <1>0, <2>1 DEF Renders, Works, Lost, LostInv
  <2>3. call'[s] = Doing("render", generation, crawler, 2)
    BY <2>1, AnswerToScrape
  <2> QED
    BY <1>0, <1>2, <2>1, <2>2, <2>3, SecondAttempt DEF browserVars, Lost
<1>6. CASE Started(s)
  <2>1. /\ crawler = NoBrowser /\ lock # Nobody /\ crawler' = generation
        /\ UNCHANGED <<generation, dead, hung, unstarted, hits>>
        /\ Answer(s, TRUE, generation)
    BY <1>0, <1>6, InsideLock, CallersDiffer DEF Started, Restarting
  <2>2. generation \notin Lost
    BY <1>0, <2>1 DEF Lost, LostInv
  <2>3. call'[s] = Doing("render", generation, generation, 2)
    BY <2>1, AnswerToScrape
  <2> QED
    BY <1>0, <1>2, <2>1, <2>2, <2>3, SecondAttempt DEF Lost
<1>7. CASE StartFails(s)
  <2>1. Answer(s, FALSE, NoBrowser) /\ Hurt
    BY <1>7 DEF StartFails
  <2>2. call'[s] = Doing("unavailable", 0, NoBrowser, 1)
    BY <2>1, AnswerToScrape
  <2>3. hits'[s] = 2
    BY <1>0, <1>1, <1>2, <2>1 DEF Hurt, Holders
  <2> QED
    BY <2>2, <2>3, GivenUp
<1> QED
  BY <1>3, <1>4, <1>5, <1>6, <1>7 DEF Restart

\* A scrape's other steps touch neither the browser nor the others.
LEMMA ScrapeMoves ==
  ASSUME Inv, NEW s \in Scrapes,
         Arrive(s) \/ Admit(s) \/ Refuse(s) \/ RenderEnds(s) \/ Reply(s)
  PROVE  /\ UNCHANGED <<browserVars, lock>>
         /\ \A t \in Scrapes : t # s => call'[t] = call[t] /\ hits'[t] = hits[t]
<1>1. UNCHANGED <<browserVars, lock>>
  BY DEF Arrive, Admit, Refuse, RenderEnds, Answered, PageError, BrowserGone,
         TargetClosed, AttemptFailed, EndScrape, Reply
<1>2. \A t \in Scrapes : t # s => call'[t] = call[t]
  BY DEF Arrive, Admit, Refuse, RenderEnds, Answered, PageError, BrowserGone,
         TargetClosed, AttemptFailed, EndScrape, Reply, Inv, TypeInv, Callers
<1>3. \A t \in Scrapes : t # s => hits'[t] = hits[t]
  BY DEF Arrive, Admit, Refuse, RenderEnds, Answered, PageError, BrowserGone,
         TargetClosed, Reply, Inv, TypeInv
<1> QED
  BY <1>1, <1>2, <1>3

\* The step from the first attempt to the restart, and from the second to the
\* answer, with the failure that ended the attempt.
LEMMA FailedAttempt ==
  ASSUME Inv, LostInv, NEW s \in Scrapes, AttemptInv(s), call[s].at = "render",
         AttemptFailed(s), UNCHANGED browserVars,
         hits'[s] \in 0..2, hits'[s] >= hits[s], hits'[s] >= call[s].attempt
  PROVE  AttemptInv(s)'
<1>0. /\ call[s].seen \in Nat /\ call[s].attempt \in {1, 2} /\ s \in Callers
      /\ hits[s] \in 0..2 /\ generation \in Nat
  BY ScrapeFacts
<1>1. CASE call[s].attempt = 1
  <2>1. call' = [call EXCEPT ![s].at = "lock"]
    BY <1>1 DEF AttemptFailed
  <2>2. /\ call'[s].at = "lock" /\ call'[s].seen = call[s].seen
        /\ call'[s].attempt = 1
    BY <1>0, <1>1, <2>1, MoveFacts DEF Inv, Holding
  <2>3. UNCHANGED <<crawler, generation, Lost>>
    BY DEF browserVars, Lost
  <2>4. call[s].seen # generation /\ generation \in Lost => hits'[s] = 2
    BY <1>0, <1>1 DEF AttemptInv
  <2> QED
    BY <1>0, <1>1, <2>2, <2>3, <2>4 DEF AttemptInv, Holding
<1>2. CASE call[s].attempt = 2
  <2>1. call'[s] = Doing("unavailable", 0, NoBrowser, 1)
    BY <1>0, <1>2 DEF AttemptFailed, Inv, TypeInv
  <2>2. hits'[s] = 2
    BY <1>2
  <2> QED
    BY <2>1, <2>2, GivenUp
<1> QED
  BY <1>0, <1>1, <1>2

LEMMA ScrapeAttempt ==
  ASSUME Inv, LostInv, NEW s \in Scrapes, AttemptInv(s),
         Arrive(s) \/ Admit(s) \/ Refuse(s) \/ RenderEnds(s) \/ Reply(s)
  PROVE  AttemptInv(s)'
<1>0. /\ call[s].seen \in Nat /\ call[s].attempt \in {1, 2} /\ s \in Callers
      /\ call[s].on \in Nat \cup {NoBrowser}
      /\ hits[s] \in 0..2 /\ generation \in Nat
      /\ crawler \in {NoBrowser, generation} /\ NoBrowser \notin Nat
  BY ScrapeFacts
<1>1. UNCHANGED browserVars
  BY ScrapeMoves
<1>2. CASE Arrive(s)
  <2>1. call[s].at = "idle" /\ call' = [call EXCEPT ![s].at = "queued"]
    BY <1>2 DEF Arrive
  <2>2. call'[s].at = "queued" /\ call'[s].attempt = 1
    BY <1>0, <2>1, MoveFacts DEF Inv, AttemptInv
  <2> QED
    BY <2>2, AtRest DEF AttemptInv, Holding
<1>3. CASE Refuse(s) \/ Answered(s) \/ PageError(s) \/ Reply(s)
  <2>1. call'[s] = Idle
    BY <1>0, <1>3 DEF Refuse, Answered, PageError, EndScrape, Reply, Inv, TypeInv
  <2> QED
    BY <2>1 DEF Idle, Doing, AttemptInv, Holding
<1>4. CASE Admit(s)
  <2>1. /\ call'[s] = Doing(IF crawler = NoBrowser THEN "lock" ELSE "render",
                            generation, crawler, 1)
        /\ hits'[s] = IF crawler # NoBrowser /\ Works(crawler) THEN 0 ELSE 1
    BY <1>0, <1>4 DEF Admit, Inv, TypeInv
  <2>2. CASE crawler = NoBrowser
    <3>1. /\ call'[s].at = "lock" /\ call'[s].seen = generation
          /\ call'[s].attempt = 1 /\ hits'[s] = 1
      BY <2>1, <2>2 DEF Doing
    <3> QED
      BY <1>0, <1>1, <3>1 DEF AttemptInv, Holding, browserVars
  <2>3. CASE crawler # NoBrowser
    <3>1. /\ call'[s].at = "render" /\ call'[s].seen = generation
          /\ call'[s].on = generation /\ call'[s].attempt = 1
          /\ hits'[s] \in {0, 1} /\ (hits'[s] = 0 => Works(crawler))
      BY <1>0, <2>1, <2>3 DEF Doing
    <3>2. generation \notin unstarted
      BY <2>3 DEF LostInv
    <3>3. generation \in Lost => hits'[s] = 1
      BY <1>0, <2>3, <3>1, <3>2 DEF Lost, Works
    <3>4. UNCHANGED <<crawler, generation, unstarted, Lost>>
      BY <1>1 DEF browserVars, Lost
    <3> QED
      BY <1>0, <2>3, <3>1, <3>2, <3>3, <3>4 DEF AttemptInv, Holding
  <2> QED
    BY <2>2, <2>3
<1>5. CASE BrowserGone(s)
  <2>1. call[s].on \in Lost
    <3>1. CASE call[s].on \in dead
      BY <3>1 DEF Lost
    <3>2. CASE call[s].on # crawler
      <4>1. call[s].on \in 0..(generation - 1)
        BY <1>0, <1>5, <3>2 DEF BrowserGone, AttemptInv
      <4> QED
        BY <4>1 DEF Inv, ReplacedOnlyIfLost, Lost
    <3> QED
      BY <1>5, <3>1, <3>2 DEF BrowserGone
  <2>2. hits' = hits /\ call[s].at = "render" /\ AttemptFailed(s)
    BY <1>5 DEF BrowserGone
  <2>3. hits[s] >= call[s].attempt
    BY <2>1, <2>2 DEF AttemptInv
  <2> QED
    BY <1>0, <1>1, <2>2, <2>3, FailedAttempt
<1>6. CASE TargetClosed(s)
  <2>1. /\ call[s].at = "render" /\ AttemptFailed(s)
        /\ hits'[s] = IF hits[s] < 2 THEN hits[s] + 1 ELSE hits[s]
    BY <1>6 DEF TargetClosed, Inv, TypeInv
  <2>2. call[s].attempt = 2 => hits[s] >= 1
    BY <2>1 DEF AttemptInv
  <2>3. hits'[s] \in 0..2 /\ hits'[s] >= hits[s] /\ hits'[s] >= call[s].attempt
    BY <1>0, <2>1, <2>2
  <2> QED
    BY <1>1, <2>1, <2>3, FailedAttempt
<1> QED
  BY <1>2, <1>3, <1>4, <1>5, <1>6 DEF RenderEnds

LEMMA HitsInit == Init => HitsInv
<1> SUFFICES ASSUME Init PROVE HitsInv
  OBVIOUS
<1>1. \A s \in Scrapes : call[s] = Idle
  BY DEF Init, Down, Callers
<1>2. \A s \in Scrapes : AttemptInv(s)
  BY <1>1 DEF Idle, Doing, AttemptInv, Holding
<1> QED
  BY <1>2 DEF HitsInv, LostInv, Lost, Init, Down

\* The exit and the start of the process leave nothing of what was.
LEMMA HitsAfresh ==
  ASSUME Inv, HitsInv, GoesDown \/ Boot \/ BootFails
  PROVE  HitsInv'
<1>1. CASE GoesDown
  <2>1. \A s \in Scrapes : call'[s] = Idle
    BY <1>1 DEF GoesDown, Callers
  <2>2. \A s \in Scrapes : AttemptInv(s)'
    BY <2>1 DEF Idle, Doing, AttemptInv, Holding
  <2> QED
    BY <1>1, <2>2 DEF HitsInv, LostInv, Lost, GoesDown
<1>2. CASE Boot
  <2>1. /\ generation = 0 /\ crawler = NoBrowser /\ lock = Nobody /\ unstarted = {}
        /\ NoBrowser # 0
    BY <1>2 DEF Boot, Inv, DownInv, HitsInv, LostInv, NoBrowser
  <2>2. \A s \in Scrapes : call'[s] = Idle
    BY <1>2 DEF Boot, Callers, Inv, DownInv
  <2>3. \A s \in Scrapes : AttemptInv(s)'
    BY <2>2 DEF Idle, Doing, AttemptInv, Holding
  <2>4. LostInv'
    BY <1>2, <2>1 DEF Boot, HitsInv, LostInv, Lost
  <2> QED
    BY <2>3, <2>4 DEF HitsInv
<1>3. CASE BootFails
  BY <1>3 DEF BootFails, browserVars, HitsInv, LostInv, Lost, AttemptInv
<1> QED
  BY <1>1, <1>2, <1>3

\* Chromium dies or hangs: who holds a slot is hurt.
LEMMA HitsOfTrouble ==
  ASSUME Inv, HitsInv, Dies \/ Hangs
  PROVE  HitsInv'
<1>1. crawler = generation /\ generation \in Nat
  BY DEF Dies, Hangs, Inv, PlaceInv, TypeInv
<1>2. Breaks /\ UNCHANGED <<process, lock, call>>
  BY <1>1 DEF Dies, Hangs, Breaks, Lost
<1>3. LostInv'
  BY <1>1, <1>2 DEF HitsInv, LostInv, Lost, Breaks, Dies, Hangs
<1>4. \A s \in Scrapes : AttemptInv(s)'
  BY <1>2, BystanderKeeps DEF HitsInv
<1> QED
  BY <1>3, <1>4 DEF HitsInv

\* The watcher's own steps, and time, leave the scrapes and the browser alone,
\* unless they end the process.
LEMMA WatchHits ==
  ASSUME Inv, HitsInv, Watch \/ TimePasses
  PROVE  HitsInv'
<1>1. \/ GoesDown
      \/ /\ UNCHANGED <<browserVars, lock, hits>>
         /\ \A s \in Scrapes : call'[s] = call[s]
  BY CallersDiffer DEF Watch, Wake, CheckEnds, RecheckEnds, CheckFailed, TimePasses,
     Callers, Inv, TypeInv
<1>2. CASE GoesDown
  BY <1>2, HitsAfresh
<1>3. CASE /\ UNCHANGED <<browserVars, lock, hits>>
           /\ \A s \in Scrapes : call'[s] = call[s]
  <2>1. \A s \in Scrapes : AttemptInv(s)'
    BY <1>3, BystanderKeeps DEF HitsInv, Harmless, Stays, browserVars
  <2> QED
    BY <1>3, <2>1 DEF HitsInv, LostInv, Lost, browserVars
<1> QED
  BY <1>1, <1>2, <1>3

LEMMA HitsStep == Inv /\ HitsInv /\ Inv' /\ [Next]_vars => HitsInv'
<1> SUFFICES ASSUME Inv, HitsInv, Inv', [Next]_vars PROVE HitsInv'
  OBVIOUS
<1> USE DEF HitsInv
<1>1. CASE Boot \/ BootFails
  BY <1>1, HitsAfresh
<1>2. CASE Dies \/ Hangs
  BY <1>2, HitsOfTrouble
<1>3. CASE TimePasses \/ Watch
  BY <1>3, WatchHits
<1>4. ASSUME NEW c \in Callers, Restart(c) PROVE HitsInv'
  <2>1. /\ \A d \in Callers : d # c => call'[d] = call[d]
        /\ (Harmless /\ UNCHANGED hits) \/ Breaks
        /\ LostInv'
    BY <1>4, RestartMoves
  <2>2. ASSUME NEW s \in Scrapes, s # c PROVE AttemptInv(s)'
    BY <2>1, <2>2, BystanderKeeps DEF Callers
  <2>3. ASSUME NEW s \in Scrapes, s = c PROVE AttemptInv(s)'
    BY <1>4, <2>1, <2>3, RestartAttempt
  <2> QED
    BY <2>1, <2>2, <2>3
<1>5. ASSUME NEW s \in Scrapes, Arrive(s) \/ Admit(s) \/ Refuse(s) \/ RenderEnds(s) \/ Reply(s)
      PROVE HitsInv'
  <2>1. /\ UNCHANGED <<browserVars, lock>>
        /\ \A t \in Scrapes : t # s => call'[t] = call[t] /\ hits'[t] = hits[t]
    BY <1>5, ScrapeMoves
  <2>2. ASSUME NEW t \in Scrapes, t # s PROVE AttemptInv(t)'
    BY <2>1, <2>2, BystanderKeeps DEF Harmless, Stays, browserVars
  <2>3. AttemptInv(s)'
    BY <1>5, ScrapeAttempt
  <2>4. LostInv'
    BY <2>1 DEF LostInv, Lost, browserVars
  <2> QED
    BY <2>2, <2>3, <2>4
<1>6. CASE UNCHANGED vars
  BY <1>6 DEF vars, browserVars, LostInv, Lost, AttemptInv
<1> QED
  BY <1>1, <1>2, <1>3, <1>4, <1>5, <1>6 DEF Next

\* "browser unavailable" goes to a scrape that met two failures only: with any
\* number of scrapes, restarts and breakdowns, one breakdown costs nobody.
THEOREM OneBreakdownCostsNobody == Spec => []OneBreakdownIsAbsorbed
<1>1. HitsInv => OneBreakdownIsAbsorbed
  BY DEF HitsInv, AttemptInv, OneBreakdownIsAbsorbed
<1> QED
  BY <1>1, HitsInit, HitsStep, Invariance, PTL DEF Spec
=============================================================================
