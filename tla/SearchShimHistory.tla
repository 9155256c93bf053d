------------------------- MODULE SearchShimHistory -------------------------
(***************************************************************************)
(* The search shim with a history of its cache: which rows are due, and    *)
(* what was used after each.  Nothing reads it, so the shim behaves as in  *)
(* SearchShim.  A row is used by a put and by a hit.                       *)
(***************************************************************************)
EXTENDS SearchShim

VARIABLE since   \* of a key, the keys used after it; or itself, if no row is due

historyVars == <<vars, since>>

HistoryInit == Init /\ since = [k \in Keys |-> {k}]

Due(k) == k \notin since[k]

\* A row is due until CACHE_MAX_ENTRIES other keys have been used after it.
Uses(k) ==
  since' = [j \in Keys |->
    LET others == since[j] \cup {k}
    IN IF j = k THEN {}
       ELSE IF Due(j) /\ Cardinality(others) < CACHE_MAX_ENTRIES THEN others ELSE {j}]

\* The lookup after a failure may drop a row past its stale time.
Outlived(c) == caller[c].got \in Errors /\ age[caller[c].key] > stale_ttl

HistoryNext ==
  \/ \E c \in Callers, k \in Keys : FromCache(c, k) /\ Uses(k)
  \/ \E c \in Callers, k \in Keys : (Start(c, k) \/ Join(c, k)) /\ UNCHANGED since
  \/ \E c \in Callers : (Depart(c) \/ Reply(c)) /\ UNCHANGED since
  \/ \E c \in Callers :
       /\ Resume(c)
       /\ LET k == caller[c].key
          IN since' = IF Outlived(c) THEN [since EXCEPT ![k] = {k}] ELSE since
  \/ \E t \in Calls : (Acquire(t) \/ QueueTimeout(t) \/ Done(t)) /\ UNCHANGED since
  \/ \E t \in Calls :
       /\ Upstream(t)
       /\ IF calls'[t].out = "results" THEN Uses(calls[t].key) ELSE UNCHANGED since
  \/ Tick /\ UNCHANGED since

HistorySpec == HistoryInit /\ [][HistoryNext]_historyVars

FairHistorySpec == HistorySpec /\ Fairness
-----------------------------------------------------------------------------
\* The cache at its limit: a row once put is there until CACHE_MAX_ENTRIES other
\* keys have been used since it was last put or hit, or a lookup finds it past its
\* stale time; and there are never more than CACHE_MAX_ENTRIES rows.  So the row
\* just put stays, and what makes place for it is the row longest unused.
RecentlyUsedStay ==
  /\ Cardinality({k \in Keys : age[k] # Absent}) <= CACHE_MAX_ENTRIES
  /\ \A k \in Keys : Due(k) => age[k] # Absent
=============================================================================
