----------------------------- MODULE PageFetch -----------------------------
(***************************************************************************)
(* services/crawl4ai-shim/app.py: one Chromium shared by all scrapes.      *)
(* Scrapes and the watcher are coroutines of one event loop; a step lasts  *)
(* from one await to the next.  Whoever finds the browser dead calls       *)
(* _restart_browser, which replaces it under restart_lock.                 *)
(*                                                                         *)
(* A browser is named by the generation it was started in.  Chromium       *)
(* (external) may die, which fails every call with an error that           *)
(* _browser_gone knows, or hang, which lets calls time out.                *)
(* Answers served from the page cache never reach the browser.             *)
(***************************************************************************)
EXTENDS Integers, FiniteSets

CONSTANTS Scrapes, Watcher, Nobody,
          MAX_CONCURRENT_PAGES,
          EXIT_LIMIT,
          MaxTrouble            \* bounds what may go wrong with browsers

Callers == Scrapes \cup {Watcher}

ASSUME CallersDiffer == Watcher \notin Scrapes /\ Nobody \notin Callers
ASSUME LimitsType ==
  /\ MAX_CONCURRENT_PAGES \in Nat \ {0}
  /\ EXIT_LIMIT \in Nat \ {0}
  /\ MaxTrouble \in Nat

NoBrowser == -1

VARIABLES
  process,        \* "up" while it serves, else "down"
  crawler,        \* the browser in place, or NoBrowser
  generation,
  dead, hung,     \* the browsers that died, that hung
  unstarted,      \* the generations whose browser did not start
  dead_in_a_row,  \* counts up to EXIT_LIMIT
  fresh,          \* last_ok is less than PROBE_INTERVAL_S old
  lock,           \* who holds restart_lock
  call,           \* what each coroutine is doing
  active,         \* gate.active
  trouble,        \* how often the outside world has failed
  hits            \* history: failures a scrape met, see Hurt

browserVars == <<process, crawler, generation, dead, hung, unstarted>>
countVars == <<dead_in_a_row, fresh>>
vars == <<browserVars, countVars, lock, call, active, trouble, hits>>

\* A coroutine awaits: a slot ("queued"), arun ("render"), restart_lock ("lock"),
\* a local render ("probe", "check", "recheck"), the old browser's close, the
\* new one's start.
Doing(stage, seen, on, attempt) ==
  [at |-> stage, seen |-> seen, on |-> on, attempt |-> attempt]

Idle == Doing("idle", 0, NoBrowser, 1)

Holding == {"render", "lock", "probe", "close", "start"}
Holders == {s \in Scrapes : call[s].at \in Holding}
Restarting == {"probe", "close", "start"}

Down ==
  /\ crawler = NoBrowser /\ generation = 0
  /\ dead = {} /\ hung = {} /\ unstarted = {}
  /\ dead_in_a_row = 0 /\ fresh = TRUE
  /\ lock = Nobody /\ active = 0
  /\ call = [c \in Callers |-> Idle] /\ hits = [s \in Scrapes |-> 0]

Init == process = "down" /\ trouble = 0 /\ Down

GoesDown ==
  /\ process' = "down"
  /\ crawler' = NoBrowser /\ generation' = 0
  /\ dead' = {} /\ hung' = {} /\ unstarted' = {}
  /\ dead_in_a_row' = 0 /\ fresh' = TRUE
  /\ lock' = Nobody /\ active' = 0
  /\ call' = [c \in Callers |-> Idle] /\ hits' = [s \in Scrapes |-> 0]

Trouble == trouble < MaxTrouble /\ trouble' = trouble + 1

\* Every scrape that is under way has met one failure more; two are enough.
Hurt == hits' = [s \in Scrapes |->
                   IF s \in Holders /\ hits[s] < 2 THEN hits[s] + 1 ELSE hits[s]]

\* lifespan: nothing is served before the first browser runs.  If it does not
\* start the process ends, and Docker starts the container again.
Boot ==
  /\ process = "down"
  /\ process' = "up" /\ crawler' = 0
  /\ UNCHANGED <<generation, dead, hung, unstarted, countVars, lock, call, active,
                 trouble, hits>>

BootFails ==
  /\ process = "down" /\ Trouble
  /\ UNCHANGED <<browserVars, countVars, lock, call, active, hits>>

(******************************* Chromium ********************************)

Dies ==
  /\ crawler # NoBrowser /\ crawler \notin dead
  /\ Trouble /\ Hurt
  /\ dead' = dead \cup {crawler}
  /\ UNCHANGED <<process, crawler, generation, hung, unstarted, countVars, lock, call, active>>

Hangs ==
  /\ crawler # NoBrowser /\ crawler \notin dead \cup hung
  /\ Trouble /\ Hurt
  /\ hung' = hung \cup {crawler}
  /\ UNCHANGED <<process, crawler, generation, dead, unstarted, countVars, lock, call, active>>

TimePasses ==
  /\ process = "up" /\ fresh
  /\ fresh' = FALSE
  /\ UNCHANGED <<browserVars, dead_in_a_row, lock, call, active, trouble, hits>>

(******************************** counters *******************************)

MarkOk == dead_in_a_row' = 0 /\ fresh' = TRUE

OneMore(n) == IF n < EXIT_LIMIT THEN n + 1 ELSE n

CountFailure == dead_in_a_row' = OneMore(dead_in_a_row) /\ UNCHANGED fresh

Works(b) == b \notin dead \cup hung

\* browser.is_connected(): a hung browser is connected too.
IsConnected(b) == b \notin dead

\* _renders: a context, a page and its text; a hang runs into PROBE_TIMEOUT_S.
Renders(b) == IsConnected(b) /\ Works(b)

(**************************** _restart_browser ****************************)

\* A bug: the replacement another caller has made is not used.
NotReusable == FALSE

Reusable == crawler # NoBrowser

\* A bug: the slot is kept when the browser is unavailable.
SlotKept(c, ok) == active

\* _scrape's finally: the slot is returned on every way out.
SlotAfter(c, ok) == IF c \in Scrapes /\ ~ok THEN active - 1 ELSE active

\* What the caller does with the answer, up to its next await.
Returned(c, ok, browser) ==
  IF c = Watcher
  THEN IF ok THEN Doing("recheck", 0, browser, 1) ELSE Idle
  ELSE IF ok THEN Doing("render", generation, browser, 2)
             ELSE Doing("unavailable", 0, NoBrowser, 1)

Answer(c, ok, browser) ==
  /\ call' = [call EXCEPT ![c] = Returned(c, ok, browser)]
  /\ active' = SlotAfter(c, ok)

\* A free lock is taken without an await; the step of its own adds behaviours
\* and removes none.  Somebody else has left the generation the caller saw:
Reuse(c) ==
  /\ call[c].at = "lock" /\ lock = Nobody /\ generation # call[c].seen
  /\ Answer(c, Reusable, crawler)
  /\ UNCHANGED <<browserVars, countVars, lock, trouble, hits>>

\* old, crawler = crawler, None; generation += 1
Discard(c, next) ==
  /\ crawler' = NoBrowser /\ generation' = generation + 1
  /\ call' = [call EXCEPT ![c].at = next]
  /\ UNCHANGED <<process, dead, hung, unstarted>>

Acquire(c) ==
  /\ call[c].at = "lock" /\ lock = Nobody /\ generation = call[c].seen
  /\ lock' = c
  /\ IF crawler = NoBrowser
     THEN Discard(c, "start")
     ELSE call' = [call EXCEPT ![c].at = "probe"] /\ UNCHANGED browserVars
  /\ UNCHANGED <<countVars, active, trouble, hits>>

\* A bug: the caller's word is taken for it that the browser is unusable.
KeepsNone == FALSE

KeepsBrowser == Renders(crawler)

Keep(c) ==
  /\ call[c].at = "probe" /\ KeepsBrowser
  /\ Answer(c, TRUE, crawler)
  /\ lock' = Nobody
  /\ UNCHANGED <<browserVars, countVars, trouble, hits>>

Replace(c) ==
  /\ call[c].at = "probe" /\ ~KeepsBrowser
  /\ Discard(c, "close")
  /\ UNCHANGED <<countVars, lock, active, trouble, hits>>

Closed(c) ==
  /\ call[c].at = "close"
  /\ call' = [call EXCEPT ![c].at = "start"]
  /\ UNCHANGED <<browserVars, countVars, lock, active, trouble, hits>>

Started(c) ==
  /\ call[c].at = "start"
  /\ crawler' = generation /\ lock' = Nobody
  /\ Answer(c, TRUE, generation)
  /\ UNCHANGED <<process, generation, dead, hung, unstarted, dead_in_a_row, fresh, trouble, hits>>

StartFails(c) ==
  /\ call[c].at = "start" /\ Trouble /\ Hurt
  /\ unstarted' = unstarted \cup {generation}
  /\ lock' = Nobody
  /\ Answer(c, FALSE, NoBrowser)
  /\ UNCHANGED <<process, crawler, generation, dead, hung, dead_in_a_row, fresh>>

Restart(c) ==
  Reuse(c) \/ Acquire(c) \/ Keep(c) \/ Replace(c) \/ Closed(c) \/ Started(c) \/ StartFails(c)

(******************************** a scrape ********************************)

Arrive(s) ==
  /\ process = "up" /\ call[s].at = "idle"
  /\ call' = [call EXCEPT ![s].at = "queued"]
  /\ UNCHANGED <<browserVars, countVars, lock, active, trouble, hits>>

\* A slot is free: the first attempt begins.
Admit(s) ==
  /\ call[s].at = "queued" /\ active < MAX_CONCURRENT_PAGES
  /\ active' = active + 1
  /\ call' = [call EXCEPT ![s] =
       Doing(IF crawler = NoBrowser THEN "lock" ELSE "render", generation, crawler, 1)]
  /\ hits' = [hits EXCEPT ![s] = IF crawler # NoBrowser /\ Works(crawler) THEN 0 ELSE 1]
  /\ IF crawler = NoBrowser THEN CountFailure ELSE UNCHANGED countVars
  /\ UNCHANGED <<browserVars, lock, trouble>>

\* A bug: a refused scrape returns a slot it never had.
CountAfterRefusal == active - 1

CountWhenRefused == active

Refuse(s) ==
  /\ call[s].at = "queued" /\ active = MAX_CONCURRENT_PAGES
  /\ call' = [call EXCEPT ![s] = Idle]
  /\ active' = CountWhenRefused
  /\ UNCHANGED <<browserVars, countVars, lock, trouble, hits>>

EndScrape(s) ==
  /\ call' = [call EXCEPT ![s] = Idle]
  /\ active' = active - 1

\* The browser answered, even if the page failed.
Answered(s) ==
  /\ call[s].at = "render" /\ Works(call[s].on)
  /\ MarkOk
  /\ EndScrape(s)
  /\ UNCHANGED <<browserVars, lock, trouble, hits>>

\* A timeout, or an error that says nothing of the browser.
PageError(s) ==
  /\ call[s].at = "render"
  /\ EndScrape(s)
  /\ UNCHANGED <<browserVars, countVars, lock, trouble, hits>>

\* The failed attempt is counted; the first one asks for a restart.
AttemptFailed(s) ==
  /\ CountFailure
  /\ IF call[s].attempt = 1
     THEN call' = [call EXCEPT ![s].at = "lock"] /\ UNCHANGED active
     ELSE call' = [call EXCEPT ![s] = Doing("unavailable", 0, NoBrowser, 1)]
          /\ active' = active - 1

\* The browser is dead, or was closed by a restart.
BrowserGone(s) ==
  /\ call[s].at = "render"
  /\ call[s].on \in dead \/ call[s].on # crawler
  /\ AttemptFailed(s)
  /\ UNCHANGED <<browserVars, lock, trouble, hits>>

\* One page's target closes under a browser that works.
TargetClosed(s) ==
  /\ call[s].at = "render" /\ Works(call[s].on)
  /\ Trouble
  /\ hits' = [hits EXCEPT ![s] = IF @ < 2 THEN @ + 1 ELSE @]
  /\ AttemptFailed(s)
  /\ UNCHANGED <<browserVars, lock>>

Reply(s) ==
  /\ call[s].at = "unavailable"
  /\ call' = [call EXCEPT ![s] = Idle]
  /\ UNCHANGED <<browserVars, countVars, lock, active, trouble, hits>>

(******************************* the watcher ******************************)

\* _check has found the browser unusable.
CheckFailed(seen) ==
  IF OneMore(dead_in_a_row) >= EXIT_LIMIT
  THEN GoesDown
  ELSE /\ CountFailure
       /\ call' = [call EXCEPT ![Watcher] = Doing("lock", seen, NoBrowser, 1)]
       /\ UNCHANGED <<browserVars, lock, active, hits>>

\* A sleep of PROBE_INTERVAL_S has ended and no render showed the browser working.
Wake ==
  /\ process = "up" /\ call[Watcher].at = "idle" /\ ~fresh
  /\ IF crawler = NoBrowser
     THEN CheckFailed(generation)
     ELSE /\ call' = [call EXCEPT ![Watcher] = Doing("check", generation, crawler, 1)]
          /\ UNCHANGED <<browserVars, countVars, lock, active, hits>>
  /\ UNCHANGED trouble

CheckEnds ==
  /\ call[Watcher].at = "check"
  /\ IF Renders(call[Watcher].on)
     THEN /\ MarkOk
          /\ call' = [call EXCEPT ![Watcher] = Idle]
          /\ UNCHANGED <<browserVars, lock, active, hits>>
     ELSE CheckFailed(call[Watcher].seen)
  /\ UNCHANGED trouble

RecheckEnds ==
  /\ call[Watcher].at = "recheck"
  /\ IF Renders(call[Watcher].on) THEN MarkOk ELSE UNCHANGED countVars
  /\ call' = [call EXCEPT ![Watcher] = Idle]
  /\ UNCHANGED <<browserVars, lock, active, trouble, hits>>

RenderEnds(s) == Answered(s) \/ PageError(s) \/ BrowserGone(s) \/ TargetClosed(s)

Watch == Wake \/ CheckEnds \/ RecheckEnds

Next ==
  \/ Boot \/ BootFails \/ Dies \/ Hangs \/ TimePasses \/ Watch
  \/ \E c \in Callers : Restart(c)
  \/ \E s \in Scrapes : Arrive(s) \/ Admit(s) \/ Refuse(s) \/ RenderEnds(s) \/ Reply(s)

\* The watcher keeps waking and its checks end, as do the steps of a restart
\* (each await is under a timeout); restart_lock is granted in FIFO order, and
\* Docker restarts the container.  Nothing is asked of the scrapes.
Fairness ==
  /\ WF_vars(Boot) /\ WF_vars(TimePasses) /\ WF_vars(Watch)
  /\ SF_vars(Reuse(Watcher) \/ Acquire(Watcher))
  /\ WF_vars(\E c \in Callers : Keep(c) \/ Replace(c) \/ Closed(c) \/ Started(c) \/ StartFails(c))

Spec == Init /\ [][Next]_vars

FairSpec == Spec /\ Fairness
-----------------------------------------------------------------------------
CallType ==
  [at : {"idle", "queued", "unavailable", "check", "recheck"} \cup Holding,
   seen : Nat, on : Nat \cup {NoBrowser}, attempt : {1, 2}]

TypeOK ==
  /\ process \in {"up", "down"}
  /\ crawler \in Nat \cup {NoBrowser} /\ generation \in Nat
  /\ dead \in SUBSET Nat /\ hung \in SUBSET Nat /\ unstarted \in SUBSET Nat
  /\ dead_in_a_row \in 0..EXIT_LIMIT
  /\ fresh \in BOOLEAN
  /\ lock \in Callers \cup {Nobody}
  /\ call \in [Callers -> CallType]
  /\ active \in 0..MAX_CONCURRENT_PAGES
  /\ trouble \in 0..MaxTrouble
  /\ hits \in [Scrapes -> 0..2]

\* A browser is given up only if it was lost: however many scrapes report the
\* same death late, while it is being replaced or after, every generation that
\* was left had a browser that died, hung or never started.
ReplacedOnlyIfLost ==
  \A g \in 0..(generation - 1) : g \in dead \cup hung \cup unstarted

\* One breakdown costs no request its answer: "browser unavailable" goes only to
\* a scrape that met two failures, counting a browser already broken when its
\* first attempt began.
OneBreakdownIsAbsorbed ==
  \A s \in Scrapes : call[s].at = "unavailable" => hits[s] = 2

\* The render gate, with a restart of the process, implements Slots: a slot
\* comes back on every way out, and the counter is the number of holders.
RenderGate == INSTANCE Slots WITH
  Users <- Scrapes, Limit <- MAX_CONCURRENT_PAGES,
  holders <- Holders, count <- active

SlotsKept == RenderGate!Spec

\* restart_lock is never left behind: whoever has it is at a step of the restart that
\* ends.  And while the process serves, no browser is in place only where one is
\* being made or could not be started, so that the next scrape or check asks for one.
RepairUnderWay ==
  /\ lock # Nobody => call[lock].at \in Restarting
  /\ process = "up" /\ crawler = NoBrowser =>
       \/ \E c \in Callers : call[c].at \in {"close", "start"} /\ lock = c
       \/ generation \in unstarted

\* When nothing breaks any more, a browser that works is in place for good:
\* also after a death no scrape met, a hang, failed starts or an exit.
BrowserComesBack == <>[](process = "up" /\ crawler # NoBrowser /\ Works(crawler))
=============================================================================
