--------------------------- MODULE BackendsProofs ---------------------------
(***************************************************************************)
(* Where work goes among several backends, for any number of requests and  *)
(* of backends.  Speech: a backend found up has not been silent for longer *)
(* than its check is old, and the counter of a backend is the number of    *)
(* its uploads.  Images: so is pool.busy, and what a request has still to  *)
(* try and has been refused by are together every backend of the pool.     *)
(***************************************************************************)
EXTENDS WhisperShim, ImagePool, FiniteSetTheorems, WellFoundedInduction, TLAPS

TTL == HEALTH_CACHE_TTL_SEC
PROBE == HEALTH_PROBE_TIMEOUT_SEC

Under(b) == {u \in Uploads : upload[u] = b}

TypeInv ==
  /\ dead \in [Whispers -> 0..AgeCap] /\ checked \in 0..AgeCap
  /\ health \in SUBSET Whispers
  /\ probing \in 0..PROBE
  /\ verdict \in [Whispers -> {"none", "up", "down"}]
  /\ prober = NoUpload => verdict = NoVerdict

\* The changes of a backend are seen by its next check only.
AgesInv ==
  /\ \A b \in Whispers : verdict[b] = "up" => dead[b] <= probing + 1
  /\ \A b \in health : dead[b] <= checked + PROBE + 1

CountsInv ==
  /\ inflight \in [Whispers -> Nat]
  /\ upload \in [Uploads -> {Away, Picking, Reporting} \cup Whispers]
  /\ \A b \in Whispers : IsFiniteSet(Under(b)) /\ inflight[b] = Cardinality(Under(b))

Inv == TypeInv /\ AgesInv /\ CountsInv

LEMMA Times ==
  /\ TTL \in Nat /\ TTL > 0 /\ PROBE \in Nat /\ AgeCap \in Nat
  /\ Backends \in Nat \ {0} /\ 1 \in Whispers /\ Whispers \subseteq Nat
  /\ \A u \in Uploads : u # NoUpload
BY TimesType DEF TTL, PROBE, Whispers

LEMMA Apart ==
  /\ Away \notin Whispers /\ Picking \notin Whispers /\ Reporting \notin Whispers
  /\ Away # Picking /\ Away # Reporting /\ Reporting # Picking
BY DEF Away, Picking, Reporting, Whispers

LEMMA InitOK == SpeechInit => Inv
<1> SUFFICES ASSUME SpeechInit PROVE Inv
  OBVIOUS
<1>1. TypeInv /\ AgesInv
  BY Times DEF SpeechInit, TypeInv, AgesInv, NoVerdict
<1>2. \A b \in Whispers : Under(b) = {}
  BY Apart DEF SpeechInit, Under
<1>3. CountsInv
  BY <1>2, FS_EmptySet DEF SpeechInit, CountsInv
<1> QED
  BY <1>1, <1>3 DEF Inv

(***************************** _pick_backend *****************************)

LEMMA LeastExists ==
  ASSUME NEW S, S \subseteq Nat, S # {}
  PROVE  \E n \in S : \A m \in S : n <= m
<1> DEFINE R == {ss \in Nat \X Nat : ss[1] < ss[2]}
<1>1. IsWellFoundedOn(R, Nat)
  BY NatLessThanWellFounded DEF OpToRel
<1>2. PICK n \in S : \A m \in S : <<m, n>> \notin R
  <2> HIDE DEF R
  <2> QED
    BY <1>1, WFMin
<1>3. ASSUME NEW m \in S PROVE ~(m < n)
  <2>1. <<m, n>> \in Nat \X Nat /\ <<m, n>>[1] = m /\ <<m, n>>[2] = n
    OBVIOUS
  <2> QED
    BY <1>2, <2>1
<1> QED
  BY <1>3

\* The backend picked is one found up, if there is one, and least busy of them.
LEMMA PickIsLeastBusy ==
  ASSUME inflight \in [Whispers -> Nat], NEW healthy \in SUBSET Whispers
  PROVE  /\ Pick(healthy) \in Whispers
         /\ healthy # {} =>
              Pick(healthy) \in healthy
                /\ \A o \in healthy : inflight[Pick(healthy)] <= inflight[o]
<1>1. CASE healthy = {}
  BY <1>1, Times DEF Pick
<1>2. CASE healthy # {}
  <2> DEFINE loads == {inflight[b] : b \in healthy}
  <2>1. loads \subseteq Nat /\ loads # {}
    BY <1>2
  <2>2. PICK n \in loads : \A m \in loads : n <= m
    <3> HIDE DEF loads
    <3> QED
      BY <2>1, LeastExists
  <2>3. LeastBusy(healthy) \subseteq Nat /\ LeastBusy(healthy) # {}
    <3>1. PICK b \in healthy : n = inflight[b]
      OBVIOUS
    <3>2. \A o \in healthy : inflight[o] \in loads
      OBVIOUS
    <3>3. b \in LeastBusy(healthy)
      BY <2>2, <3>1, <3>2 DEF LeastBusy
    <3> QED
      BY <3>3, Times DEF LeastBusy
  <2>4. \E b \in LeastBusy(healthy) : \A o \in LeastBusy(healthy) : b <= o
    BY <2>3, LeastExists
  <2>5. FirstOf(LeastBusy(healthy)) \in LeastBusy(healthy)
    BY <2>4 DEF FirstOf
  <2> QED
    BY <1>2, <2>5 DEF Pick, LeastBusy
<1> QED
  BY <1>1, <1>2

(********************************* counts ********************************)

LEMMA SendCounts ==
  ASSUME CountsInv, NEW u \in Uploads, NEW b \in Whispers, upload[u] \notin Whispers, Send(u, b)
  PROVE  CountsInv'
<1>1. /\ upload' \in [Uploads -> {Away, Picking, Reporting} \cup Whispers]
      /\ inflight' \in [Whispers -> Nat]
      /\ inflight'[b] = inflight[b] + 1
      /\ \A o \in Whispers : o # b => inflight'[o] = inflight[o]
  BY DEF CountsInv, Send
<1>2. /\ u \notin Under(b) /\ Under(b)' = Under(b) \cup {u}
      /\ \A o \in Whispers : o # b => Under(o)' = Under(o)
  BY DEF CountsInv, Send, Under
<1>3. IsFiniteSet(Under(b)') /\ Cardinality(Under(b)') = Cardinality(Under(b)) + 1
  BY <1>2, FS_AddElement DEF CountsInv
<1> QED
  BY <1>1, <1>2, <1>3 DEF CountsInv

LEMMA TranscribedCounts ==
  ASSUME CountsInv, NEW u \in Uploads, Transcribed(u)
  PROVE  CountsInv'
<1>1. PICK b \in Whispers :
        /\ upload[u] = b /\ upload' = [upload EXCEPT ![u] = Away]
        /\ inflight' = [inflight EXCEPT ![b] = CountWithout(b)]
  BY DEF Transcribed
<1>2. /\ u \in Under(b) /\ Under(b)' = Under(b) \ {u}
      /\ \A o \in Whispers : o # b => Under(o)' = Under(o)
  BY <1>1, Apart DEF CountsInv, Under
<1>3. /\ IsFiniteSet(Under(b)') /\ Cardinality(Under(b)') = Cardinality(Under(b)) - 1
      /\ Cardinality(Under(b)') \in Nat
  BY <1>1, <1>2, FS_RemoveElement, FS_CardinalityType DEF CountsInv
<1>4. inflight[b] = Cardinality(Under(b)) /\ inflight[b] \in Nat
  BY <1>1 DEF CountsInv
<1>5. CountWithout(b) = inflight[b] - 1 /\ CountWithout(b) \in Nat
  BY <1>3, <1>4 DEF CountWithout
<1>6. /\ inflight' \in [Whispers -> Nat] /\ inflight'[b] = Cardinality(Under(b)')
      /\ \A o \in Whispers : o # b => inflight'[o] = inflight[o]
  BY <1>1, <1>3, <1>4, <1>5 DEF CountsInv
<1>7. upload' \in [Uploads -> {Away, Picking, Reporting} \cup Whispers]
  BY <1>1 DEF CountsInv
<1> QED
  BY <1>1, <1>2, <1>3, <1>6, <1>7 DEF CountsInv

\* A request that is at no backend goes to none.
LEMMA ElsewhereCounts ==
  ASSUME CountsInv, UNCHANGED inflight, NEW u \in Uploads, NEW s \in {Away, Picking, Reporting},
         upload[u] \notin Whispers, upload' = [upload EXCEPT ![u] = s]
  PROVE  CountsInv'
<1>1. upload' \in [Uploads -> {Away, Picking, Reporting} \cup Whispers]
  BY DEF CountsInv
<1>2. \A b \in Whispers : Under(b)' = Under(b)
  BY Apart DEF CountsInv, Under
<1> QED
  BY <1>1, <1>2 DEF CountsInv

LEMMA SameCounts ==
  ASSUME CountsInv, UNCHANGED <<inflight, upload>>
  PROVE  CountsInv'
BY DEF CountsInv, Under

LEMMA ProceedsCounts ==
  ASSUME CountsInv, NEW u \in Uploads, NEW healthy \in SUBSET Whispers,
         Waits(u), Proceeds(u, healthy)
  PROVE  CountsInv'
<1>1. upload[u] \notin Whispers
  BY Apart DEF Waits
<1>2. CASE upload[u] = Picking
  BY <1>1, <1>2, SendCounts, PickIsLeastBusy DEF Proceeds, CountsInv
<1>3. CASE upload[u] # Picking
  BY <1>1, <1>3, ElsewhereCounts DEF Proceeds
<1> QED
  BY <1>2, <1>3

(********************************** steps ********************************)

\* The requests in a round of checks are still waiting when it ends.
ProberInv == \A u \in Uploads : prober = u => upload[u] \in {Picking, Reporting}

LEMMA Quiet ==
  ASSUME TypeInv, AgesInv, UNCHANGED <<dead, health, checked, prober, probing, verdict>>
  PROVE  TypeInv' /\ AgesInv'
BY DEF TypeInv, AgesInv, NoVerdict

LEMMA RequestKeeps ==
  ASSUME Inv, ProberInv, NEW u \in Uploads,
         Arrive(u) \/ AsksHealth(u) \/ TakesChecks(u) \/ BeginsRound(u) \/ EndsRound(u) \/ Transcribed(u)
  PROVE  Inv' /\ ProberInv'
<1>1. CASE Arrive(u)
  <2>1. CountsInv'
    <3>1. upload[u] \notin Whispers
      BY <1>1, Apart DEF Arrive
    <3> QED
      BY <1>1, <3>1, SendCounts, ElsewhereCounts, Times DEF Arrive, Inv
  <2>2. ProberInv'
    <3>1. prober # u /\ UNCHANGED prober /\ \A v \in Uploads : v # u => upload'[v] = upload[v]
      BY <1>1, Apart DEF Arrive, Send, ProberInv, Inv, CountsInv
    <3> QED
      BY <3>1 DEF ProberInv
  <2> QED
    BY <1>1, <2>1, <2>2, Quiet DEF Arrive, Inv
<1>2. CASE AsksHealth(u)
  <2>1. CountsInv'
    BY <1>2, ElsewhereCounts, Apart DEF AsksHealth, Inv
  <2>2. ProberInv'
    BY <1>2, Apart DEF AsksHealth, ProberInv, Inv, CountsInv
  <2> QED
    BY <1>2, <2>1, <2>2, Quiet DEF AsksHealth, Inv
<1>3. CASE TakesChecks(u)
  <2>1. CountsInv'
    BY <1>3, ProceedsCounts DEF TakesChecks, Inv, TypeInv
  <2>2. ProberInv'
    BY <1>3, Times DEF TakesChecks, Waits, ProberInv
  <2> QED
    BY <1>3, <2>1, <2>2, Quiet DEF TakesChecks, Inv
<1>4. CASE BeginsRound(u)
  <2>1. CountsInv'
    BY <1>4, SameCounts DEF BeginsRound, Inv
  <2>2. ProberInv'
    BY <1>4 DEF BeginsRound, Waits, ProberInv
  <2>3. TypeInv' /\ AgesInv'
    BY <1>4, Times DEF BeginsRound, Inv, TypeInv, AgesInv, NoVerdict
  <2> QED
    BY <2>1, <2>2, <2>3 DEF Inv
<1>5. CASE EndsRound(u)
  <2>1. health' \in SUBSET Whispers /\ Proceeds(u, health') /\ prober' = NoUpload
        /\ checked' = 0 /\ probing' = 0 /\ verdict' = NoVerdict /\ dead' = dead
    BY <1>5 DEF EndsRound
  <2>2. upload[u] \in {Picking, Reporting} /\ upload[u] \notin Whispers
    BY <1>5, Apart DEF EndsRound, ProberInv
  <2>3. CountsInv'
    <3>1. CASE upload[u] = Picking
      BY <2>1, <2>2, <3>1, SendCounts, PickIsLeastBusy DEF Proceeds, Inv, CountsInv
    <3>2. CASE upload[u] # Picking
      BY <2>1, <2>2, <3>2, ElsewhereCounts DEF Proceeds, Inv
    <3> QED
      BY <3>1, <3>2
  <2>4. ProberInv'
    BY <2>1, Times DEF ProberInv
  <2>5. AgesInv'
    <3>1. \A b \in health' : dead[b] <= probing + 1
      BY <1>5 DEF EndsRound, Inv, AgesInv
    <3>2. \A b \in health' : dead[b] \in Nat
      BY <2>1, Times DEF Inv, TypeInv
    <3> QED
      BY <2>1, <3>1, <3>2, Times DEF AgesInv, NoVerdict, Inv, TypeInv
  <2>6. TypeInv'
    BY <2>1, Times DEF TypeInv, Inv, NoVerdict
  <2> QED
    BY <2>3, <2>4, <2>5, <2>6 DEF Inv
<1>6. CASE Transcribed(u)
  <2>1. CountsInv'
    BY <1>6, TranscribedCounts DEF Inv
  <2>2. ProberInv'
    BY <1>6, Apart DEF Transcribed, ProberInv, Inv, CountsInv
  <2> QED
    BY <1>6, <2>1, <2>2, Quiet DEF Transcribed, Inv
<1> QED
  BY <1>1, <1>2, <1>3, <1>4, <1>5, <1>6

LEMMA WorldKeeps ==
  ASSUME Inv, ProberInv,
         Second \/ UNCHANGED speechVars \/ \E b \in Whispers : CheckBack(b) \/ Changes(b)
  PROVE  Inv' /\ ProberInv'
<1>1. UNCHANGED <<inflight, upload, prober>>
  BY DEF Second, speechVars, CheckBack, Changes
<1>2. CountsInv' /\ ProberInv'
  BY <1>1, SameCounts DEF Inv, ProberInv
<1>3. CASE Second
  <2>1. /\ \A b \in Whispers : dead[b] \in 0..AgeCap /\ dead'[b] \in 0..AgeCap
        /\ \A b \in Whispers : dead'[b] <= dead[b] + 1
        /\ dead' = [b \in Whispers |-> dead'[b]]
        /\ checked \in 0..AgeCap /\ checked' \in 0..AgeCap
        /\ checked' = checked + 1 \/ checked' = AgeCap
    BY <1>3, Times DEF Second, Older, Inv, TypeInv
  <2>2. /\ probing' \in 0..PROBE
        /\ prober # NoUpload => probing' = probing + 1
        /\ prober = NoUpload => verdict = NoVerdict
        /\ UNCHANGED <<verdict, health, prober>>
    BY <1>3, Times DEF Second, Inv, TypeInv, PROBE
  <2>3. TypeInv'
    BY <2>1, <2>2 DEF Inv, TypeInv, NoVerdict
  <2>4. AgesInv'
    BY <2>1, <2>2, Times DEF Inv, TypeInv, AgesInv, NoVerdict
  <2> QED
    BY <1>2, <2>3, <2>4 DEF Inv
<1>4. ASSUME NEW b \in Whispers, CheckBack(b) PROVE TypeInv' /\ AgesInv'
  BY <1>4, Times DEF CheckBack, Inv, TypeInv, AgesInv
<1>5. ASSUME NEW b \in Whispers, Changes(b) PROVE TypeInv' /\ AgesInv'
  <2>1. /\ dead' \in [Whispers -> 0..AgeCap]
        /\ \A o \in Whispers : dead'[o] = dead[o] \/ dead'[o] \in {0, 1}
        /\ UNCHANGED <<health, checked, prober, probing, verdict>>
    BY <1>5, TimesType DEF Changes, Inv, TypeInv
  <2> QED
    BY <2>1, Times DEF Inv, TypeInv, AgesInv, NoVerdict
<1>6. CASE UNCHANGED speechVars
  BY <1>2, <1>6, Quiet DEF speechVars, Inv
<1> QED
  BY <1>2, <1>3, <1>4, <1>5, <1>6 DEF Inv

LEMMA Invariance == SpeechSpec => [](Inv /\ ProberInv)
<1>1. SpeechInit => ProberInv
  BY Times DEF SpeechInit, ProberInv
<1>2. Inv /\ ProberInv /\ [SpeechNext]_speechVars => Inv' /\ ProberInv'
  BY RequestKeeps, WorldKeeps DEF SpeechNext
<1> QED
  BY InitOK, <1>1, <1>2, PTL DEF SpeechSpec

(********************************* results *******************************)

\* An upload is sent on only from fresh checks, or at the end of a round.
LEMMA SentByChecks ==
  ASSUME Inv, ProberInv, [SpeechNext]_speechVars, NEW u \in Uploads, NEW b \in Whispers,
         upload[u] = Picking, upload'[u] = b
  PROVE  /\ health' \in SUBSET Whispers /\ b = Pick(health')
         /\ \A o \in health' : dead[o] <= TTL + PROBE
<1>1. b # Picking /\ upload' # upload
  BY Apart
<1>2. PICK v \in Uploads :
        Arrive(v) \/ AsksHealth(v) \/ TakesChecks(v) \/ BeginsRound(v) \/ EndsRound(v) \/ Transcribed(v)
  BY <1>1 DEF SpeechNext, speechVars, Second, CheckBack, Changes
<1>3. v = u
  BY <1>1, <1>2 DEF Arrive, AsksHealth, TakesChecks, BeginsRound, EndsRound, Transcribed,
                   Send, Proceeds, Inv, CountsInv
<1>4. TakesChecks(u) \/ EndsRound(u)
  BY <1>1, <1>2, <1>3, Apart DEF Arrive, AsksHealth, BeginsRound, Transcribed
<1>5. health' \in SUBSET Whispers /\ b = Pick(health')
  BY <1>4 DEF TakesChecks, EndsRound, Proceeds, Send, Inv, TypeInv, CountsInv
<1>6. CASE TakesChecks(u)
  <2>1. health' = health /\ checked < TTL /\ checked \in Nat
    BY <1>6, Times DEF TakesChecks, Fresh, Inv, TypeInv, TTL
  <2>2. \A o \in health' : dead[o] \in Nat /\ dead[o] <= checked + PROBE + 1
    BY <1>5, <2>1, Times DEF Inv, TypeInv, AgesInv
  <2>3. TTL \in Nat /\ PROBE \in Nat
    BY Times
  <2>4. ASSUME NEW o \in health' PROVE dead[o] <= TTL + PROBE
    BY <2>1, <2>2, <2>3
  <2> QED
    BY <1>5, <2>4
<1>7. CASE EndsRound(u)
  <2>1. \A o \in health' : dead[o] \in Nat /\ dead[o] <= probing + 1
    BY <1>5, <1>7, Times DEF EndsRound, Inv, TypeInv, AgesInv
  <2> QED
    BY <1>5, <2>1, Times DEF Inv, TypeInv
<1> QED
  BY <1>4, <1>6, <1>7

\* No upload to a backend that has been silent for longer than the TTL and a
\* round of checks, unless no backend answered its check.
THEOREM SilentAvoided == SpeechSpec => DeadAvoided
<1>1. Inv /\ ProberInv /\ [SpeechNext]_speechVars =>
        [\A u \in Uploads, b \in Whispers :
           upload[u] = Picking /\ upload'[u] = b =>
             \/ dead[b] <= HEALTH_CACHE_TTL_SEC + HEALTH_PROBE_TIMEOUT_SEC
             \/ health' = {}]_speechVars
  BY SentByChecks, PickIsLeastBusy DEF Inv, CountsInv, TTL, PROBE
<1> QED
  BY <1>1, Invariance, PTL DEF SpeechSpec, DeadAvoided

\* The least busy backend by the counters is the one with the fewest uploads
\* under way, also when many uploads waited for one round of checks.
THEOREM LoadSpread == SpeechSpec => UploadsSpread
<1>1. ASSUME Inv, ProberInv, [SpeechNext]_speechVars, NEW u \in Uploads,
             NEW b \in Whispers, NEW o \in Whispers,
             upload[u] = Picking, upload'[u] = b, o \in health'
      PROVE  Cardinality({v \in Uploads : upload[v] = b})
               <= Cardinality({v \in Uploads : upload[v] = o})
  <2>1. inflight[b] <= inflight[o]
    BY <1>1, SentByChecks, PickIsLeastBusy DEF Inv, CountsInv
  <2>2. inflight[b] = Cardinality(Under(b)) /\ inflight[o] = Cardinality(Under(o))
    BY <1>1 DEF Inv, CountsInv
  <2> QED
    BY <2>1, <2>2 DEF Under
<1>2. Inv /\ ProberInv /\ [SpeechNext]_speechVars =>
        [\A u \in Uploads, b, o \in Whispers :
           upload[u] = Picking /\ upload'[u] = b /\ o \in health' =>
             \/ b \notin health'
             \/ Cardinality({v \in Uploads : upload[v] = b})
                  <= Cardinality({v \in Uploads : upload[v] = o})]_speechVars
  BY <1>1
<1> QED
  BY <1>2, Invariance, PTL DEF SpeechSpec, UploadsSpread

(****************************** the image pool *****************************)

\* Where the picture of a request is being drawn.
Where(r) == IF drawing[r].at > 0 THEN On(r) ELSE 0

At(b) == {r \in PictureRequests : Where(r) = b}

\* The order of a request is all of the pool, each backend once, and those
\* before the one it is at have refused it.
Ordered(d) ==
  d = NotDrawing \/
    /\ d \in [order : [1..Urls -> Pool], at : 1..Urls, refused : SUBSET Pool]
    /\ \A b \in Pool : \E i \in 1..Urls : d.order[i] = b
    /\ \A i, j \in 1..Urls : i < j => d.order[i] # d.order[j]
    /\ d.refused = {d.order[i] : i \in 1..(d.at - 1)}

BusyInv ==
  /\ busy \in [Pool -> Nat]
  /\ \A b \in Pool : IsFiniteSet(At(b)) /\ busy[b] = Cardinality(At(b))

PoolInv ==
  /\ cooling \in [Pool -> Nat] /\ turn \in Int
  /\ drawing = [r \in PictureRequests |-> drawing[r]]
  /\ \A r \in PictureRequests : Ordered(drawing[r])
  /\ BusyInv

LEMMA PoolFacts ==
  /\ Urls \in Nat /\ Urls > 0 /\ COOLDOWN \in Nat
  /\ Pool \subseteq Nat /\ 0 \notin Pool /\ 1 \in Pool
  /\ IsFiniteSet(Pool) /\ Cardinality(Pool) = Urls
<1>1. Urls \in Nat /\ Urls > 0 /\ COOLDOWN \in Nat
  BY PoolType
<1>2. IsFiniteSet(1..Urls) /\ Cardinality(1..Urls) = Urls
  BY <1>1, FS_Interval
<1> QED
  BY <1>1, <1>2 DEF Pool

LEMMA TurnType ==
  ASSUME turn \in Int, NEW b \in Pool
  PROVE  FromTurn(b) \in Int
<1>1. Urls \in Nat /\ Urls > 0 /\ b \in Int
  BY PoolFacts
<1>2. b - 1 - turn \in Int
  BY <1>1
<1>3. \A x \in Int : x % Urls \in Int
  BY <1>1
<1> QED
  BY <1>2, <1>3 DEF FromTurn

\* What pool.order() may return.
LEMMA OrderFacts ==
  ASSUME busy \in [Pool -> Nat], turn \in Int, NEW order \in Orders
  PROVE  /\ order \in [1..Urls -> Pool]
         /\ \A b \in Pool : \E i \in 1..Urls : order[i] = b
         /\ \A i, j \in 1..Urls : i < j => order[i] # order[j]
         /\ \A i \in 1..Urls : i # 1 => Better(order[1], order[i])
<1>1. order \in [1..Urls -> Pool] /\ Sorted(order)
  BY PoolFacts DEF Orders, Listed
<1>2. \A b \in Pool : \E i \in 1..Urls : order[i] = b
  BY <1>1 DEF Sorted, Listed
<1>3. \A i, j \in 1..Urls : i < j => Better(order[i], order[j])
  BY <1>1 DEF Sorted
<1>4. \A b \in Pool : ~Better(b, b)
  <2> SUFFICES ASSUME NEW b \in Pool, Better(b, b) PROVE FALSE
    OBVIOUS
  <2>1. FromTurn(b) < FromTurn(b)
    BY DEF Better
  <2> QED
    BY <2>1, TurnType
<1>5. ASSUME NEW i \in 1..Urls, NEW j \in 1..Urls, i < j PROVE order[i] # order[j]
  <2>1. order[i] \in Pool /\ Better(order[i], order[j])
    BY <1>1, <1>3, <1>5
  <2> QED
    BY <2>1, <1>4
<1>6. ASSUME NEW i \in 1..Urls, i # 1 PROVE Better(order[1], order[i])
  BY <1>3, <1>6, PoolFacts
<1> QED
  BY <1>1, <1>2, <1>5, <1>6

\* One request goes from where it is to somewhere else, or nowhere, and is
\* counted so.
LEMMA BusyMoves ==
  ASSUME BusyInv, NEW r \in PictureRequests,
         \A q \in PictureRequests : q # r => Where(q)' = Where(q),
         busy' \in [Pool -> Int],
         \A b \in Pool :
           busy'[b] = busy[b] - (IF Where(r) = b THEN 1 ELSE 0)
                              + (IF Where(r)' = b THEN 1 ELSE 0)
  PROVE  BusyInv'
<1> SUFFICES ASSUME NEW b \in Pool
             PROVE  /\ busy'[b] \in Nat
                    /\ IsFiniteSet(At(b)') /\ busy'[b] = Cardinality(At(b)')
  BY DEF BusyInv
<1>1. IsFiniteSet(At(b)) /\ busy[b] = Cardinality(At(b)) /\ busy[b] \in Nat
  BY DEF BusyInv
<1>2. CASE (Where(r) = b) <=> (Where(r)' = b)
  <2>1. At(b)' = At(b)
    BY <1>2 DEF At
  <2> QED
    BY <1>1, <1>2, <2>1
<1>3. CASE Where(r) = b /\ Where(r)' # b
  <2>1. r \in At(b) /\ At(b)' = At(b) \ {r}
    BY <1>3 DEF At
  <2>2. IsFiniteSet(At(b)') /\ Cardinality(At(b)') = Cardinality(At(b)) - 1
    BY <1>1, <2>1, FS_RemoveElement
  <2>3. Cardinality(At(b)') \in Nat
    BY <2>2, FS_CardinalityType
  <2> QED
    BY <1>1, <1>3, <2>2, <2>3
<1>4. CASE Where(r) # b /\ Where(r)' = b
  <2>1. r \notin At(b) /\ At(b)' = At(b) \cup {r}
    BY <1>4 DEF At
  <2>2. IsFiniteSet(At(b)') /\ Cardinality(At(b)') = Cardinality(At(b)) + 1
    BY <1>1, <2>1, FS_AddElement
  <2> QED
    BY <1>1, <1>4, <2>2
<1> QED
  BY <1>2, <1>3, <1>4

\* A step of one request.
LEMMA RequestStep ==
  ASSUME PoolInv, NEW r \in PictureRequests, NEW d, drawing' = [drawing EXCEPT ![r] = d],
         Ordered(d), cooling' \in [Pool -> Nat], turn' \in Int,
         busy' \in [Pool -> Int],
         \A b \in Pool :
           busy'[b] = busy[b] - (IF Where(r) = b THEN 1 ELSE 0)
                              + (IF Where(r)' = b THEN 1 ELSE 0)
  PROVE  PoolInv'
<1>1. \A q \in PictureRequests : q # r => drawing'[q] = drawing[q]
  BY DEF PoolInv
<1>2. \A q \in PictureRequests : q # r => Where(q)' = Where(q)
  BY <1>1 DEF Where, On
<1>3. \A q \in PictureRequests : Ordered(drawing'[q])
  <2>1. drawing'[r] = d
    BY DEF PoolInv
  <2> QED
    BY <1>1, <2>1 DEF PoolInv
<1>4. drawing' = [q \in PictureRequests |-> drawing'[q]]
  BY DEF PoolInv
<1>5. BusyInv'
  BY <1>2, BusyMoves DEF PoolInv
<1> QED
  BY <1>3, <1>4, <1>5 DEF PoolInv

\* The counters of the backends that a request comes to, leaves, or both.
LEMMA ComesTo ==
  ASSUME NEW f \in [Pool -> Nat], NEW y \in Pool, NEW g, g = [f EXCEPT ![y] = @ + 1]
  PROVE  /\ g \in [Pool -> Int]
         /\ \A b \in Pool : g[b] = f[b] - (IF 0 = b THEN 1 ELSE 0) + (IF y = b THEN 1 ELSE 0)
BY PoolFacts

LEMMA Leaves ==
  ASSUME NEW f \in [Pool -> Nat], NEW x \in Pool, NEW g, g = [f EXCEPT ![x] = @ - 1]
  PROVE  /\ g \in [Pool -> Int]
         /\ \A b \in Pool : g[b] = f[b] - (IF x = b THEN 1 ELSE 0) + (IF 0 = b THEN 1 ELSE 0)
BY PoolFacts

LEMMA GoesOn ==
  ASSUME NEW f \in [Pool -> Nat], NEW x \in Pool, NEW y \in Pool, x # y,
         NEW g, g = [f EXCEPT ![x] = @ - 1, ![y] = @ + 1]
  PROVE  /\ g \in [Pool -> Int]
         /\ \A b \in Pool : g[b] = f[b] - (IF x = b THEN 1 ELSE 0) + (IF y = b THEN 1 ELSE 0)
BY PoolFacts

LEMMA AsksKeeps ==
  ASSUME PoolInv, NEW r \in PictureRequests, Asks(r)
  PROVE  PoolInv'
<1>1. PICK order \in Orders :
        /\ drawing' = [drawing EXCEPT ![r] = [order |-> order, at |-> 1, refused |-> {}]]
        /\ busy' = [busy EXCEPT ![order[1]] = @ + 1]
  BY DEF Asks
<1> DEFINE d == [order |-> order, at |-> 1, refused |-> {}]
<1>2. /\ order \in [1..Urls -> Pool]
      /\ \A b \in Pool : \E i \in 1..Urls : order[i] = b
      /\ \A i, j \in 1..Urls : i < j => order[i] # order[j]
  BY OrderFacts DEF PoolInv, BusyInv
<1>3. drawing'[r] = d /\ 1 \in 1..Urls /\ order[1] \in Pool
  BY <1>1, <1>2, PoolFacts DEF PoolInv
<1>4. Ordered(d)
  <2>1. {order[i] : i \in 1..(1 - 1)} = {}
    OBVIOUS
  <2> QED
    BY <1>2, <1>3, <2>1 DEF Ordered
<1>5. Where(r) = 0 /\ Where(r)' = order[1]
  BY <1>3 DEF Asks, Where, On, NotDrawing
<1>6. busy \in [Pool -> Nat]
  BY DEF PoolInv, BusyInv
<1>7. /\ busy' \in [Pool -> Int]
      /\ \A b \in Pool :
           busy'[b] = busy[b] - (IF Where(r) = b THEN 1 ELSE 0)
                              + (IF Where(r)' = b THEN 1 ELSE 0)
  <2>1. /\ busy' \in [Pool -> Int]
        /\ \A b \in Pool :
             busy'[b] = busy[b] - (IF 0 = b THEN 1 ELSE 0) + (IF order[1] = b THEN 1 ELSE 0)
    <3>1. PICK y \in Pool : y = order[1]
      BY <1>3
    <3>2. busy' = [busy EXCEPT ![y] = @ + 1]
      BY <1>1, <3>1
    <3> QED
      BY <1>6, <3>1, <3>2, ComesTo
  <2> QED
    BY <1>3, <1>5, <2>1
<1>8. cooling' \in [Pool -> Nat] /\ turn' \in Int
  BY PoolFacts DEF Asks, PoolInv
<1> QED
  BY <1>1, <1>4, <1>7, <1>8, RequestStep

\* Every way out of a request.
LEMMA EndsKeeps ==
  ASSUME PoolInv, NEW r \in PictureRequests, r \in Drawing, Ends(r),
         cooling' \in [Pool -> Nat], turn' \in Int
  PROVE  PoolInv'
<1>1. drawing' = [drawing EXCEPT ![r] = NotDrawing] /\ busy' = [busy EXCEPT ![On(r)] = @ - 1]
  BY DEF Ends
<1>2. Ordered(drawing[r]) /\ drawing[r].at > 0 /\ drawing[r] # NotDrawing
  BY DEF PoolInv, Drawing, NotDrawing
<1>3. On(r) \in Pool /\ Where(r) = On(r)
  BY <1>2 DEF Ordered, On, Where
<1>4. drawing'[r] = NotDrawing
  BY <1>1 DEF PoolInv
<1>5. Ordered(NotDrawing) /\ Where(r)' = 0
  BY <1>4 DEF Ordered, Where, NotDrawing
<1>6. busy \in [Pool -> Nat]
  BY DEF PoolInv, BusyInv
<1>7. /\ busy' \in [Pool -> Int]
      /\ \A b \in Pool :
           busy'[b] = busy[b] - (IF Where(r) = b THEN 1 ELSE 0)
                              + (IF Where(r)' = b THEN 1 ELSE 0)
  <2>1. /\ busy' \in [Pool -> Int]
        /\ \A b \in Pool :
             busy'[b] = busy[b] - (IF On(r) = b THEN 1 ELSE 0) + (IF 0 = b THEN 1 ELSE 0)
    <3>1. PICK x \in Pool : x = On(r)
      BY <1>3
    <3>2. busy' = [busy EXCEPT ![x] = @ - 1]
      BY <1>1, <3>1
    <3> QED
      BY <1>6, <3>1, <3>2, Leaves
  <2> QED
    BY <1>3, <1>5, <2>1
<1> QED
  BY <1>1, <1>5, <1>7, RequestStep

\* A refused connection, and the next backend of the order.
LEMMA RefusesKeeps ==
  ASSUME PoolInv, NEW r \in PictureRequests, Refuses(r)
  PROVE  PoolInv'
<1> DEFINE old == drawing[r]
           next == old.order[old.at + 1]
           d == [old EXCEPT !.at = @ + 1, !.refused = @ \cup {On(r)}]
<1>1. /\ r \in Drawing /\ old.at < Len(old.order)
      /\ drawing' = [drawing EXCEPT ![r] = d]
      /\ busy' = [busy EXCEPT ![On(r)] = @ - 1, ![next] = @ + 1]
      /\ cooling' = [cooling EXCEPT ![On(r)] = COOLDOWN] /\ turn' = turn
  BY DEF Refuses, MarkDown, PoolInv
<1>2. Ordered(old) /\ old.at > 0 /\ old # NotDrawing
  BY <1>1 DEF PoolInv, Drawing, NotDrawing
<1>3. /\ old \in [order : [1..Urls -> Pool], at : 1..Urls, refused : SUBSET Pool]
      /\ \A b \in Pool : \E i \in 1..Urls : old.order[i] = b
      /\ \A i, j \in 1..Urls : i < j => old.order[i] # old.order[j]
      /\ old.refused = {old.order[i] : i \in 1..(old.at - 1)}
  BY <1>2 DEF Ordered
<1>4. Len(old.order) = Urls /\ old.at + 1 \in 1..Urls
  <2>1. old.order \in [1..Urls -> Pool] /\ old.at \in 1..Urls
    BY <1>3
  <2>2. Len(old.order) = Urls
    BY <2>1, PoolFacts
  <2> QED
    BY <1>1, <2>1, <2>2, PoolFacts
<1>5. On(r) = old.order[old.at] /\ On(r) \in Pool /\ next \in Pool /\ On(r) # next
  <2>1. old.at \in 1..Urls /\ old.at < old.at + 1
    BY <1>3, PoolFacts
  <2> QED
    BY <1>3, <1>4, <2>1 DEF On
<1>6. /\ drawing'[r] = d /\ d.order = old.order /\ d.at = old.at + 1
      /\ d.refused = old.refused \cup {On(r)}
  BY <1>1, <1>3 DEF PoolInv
<1>7. {old.order[i] : i \in 1..(old.at + 1 - 1)} = {old.order[i] : i \in 1..(old.at - 1)} \cup {On(r)}
  <2>1. 1..(old.at + 1 - 1) = 1..(old.at - 1) \cup {old.at}
    BY <1>3, PoolFacts
  <2> QED
    BY <1>5, <2>1
<1>8. d \in [order : [1..Urls -> Pool], at : 1..Urls, refused : SUBSET Pool]
  BY <1>3, <1>4, <1>5
<1> HIDE DEF d
<1>9. Ordered(d)
  <2>1. /\ \A b \in Pool : \E i \in 1..Urls : d.order[i] = b
        /\ \A i, j \in 1..Urls : i < j => d.order[i] # d.order[j]
    BY <1>3, <1>6
  <2>2. d.refused = {d.order[i] : i \in 1..(d.at - 1)}
    <3>1. d.at - 1 = old.at + 1 - 1
      <4>1. d.at \in 1..Urls /\ old.at \in 1..Urls /\ d.at = old.at + 1
        BY <1>3, <1>6, <1>8
      <4> QED
        BY <4>1, PoolFacts
    <3>2. {d.order[i] : i \in 1..(d.at - 1)} = {old.order[i] : i \in 1..(old.at + 1 - 1)}
      BY <1>6, <3>1
    <3> QED
      BY <1>3, <1>6, <1>7, <3>2
  <2> QED
    BY <1>8, <2>1, <2>2 DEF Ordered
<1>10. Where(r) = On(r) /\ Where(r)' = next
  BY <1>2, <1>3, <1>4, <1>6, PoolFacts DEF Where, On
<1>11. busy \in [Pool -> Nat]
  BY DEF PoolInv, BusyInv
<1>12. /\ busy' \in [Pool -> Int]
       /\ \A b \in Pool :
            busy'[b] = busy[b] - (IF Where(r) = b THEN 1 ELSE 0)
                               + (IF Where(r)' = b THEN 1 ELSE 0)
  <2>1. /\ busy' \in [Pool -> Int]
        /\ \A b \in Pool :
             busy'[b] = busy[b] - (IF On(r) = b THEN 1 ELSE 0) + (IF next = b THEN 1 ELSE 0)
    BY <1>1, <1>5, <1>11, GoesOn
  <2> QED
    BY <1>10, <2>1
<1>13. cooling' \in [Pool -> Nat] /\ turn' \in Int
  BY <1>1, <1>5, PoolFacts DEF PoolInv
<1> QED
  BY <1>1, <1>9, <1>12, <1>13, RequestStep

LEMMA PoolInit == ImagesInit => PoolInv
<1> SUFFICES ASSUME ImagesInit PROVE PoolInv
  OBVIOUS
<1>1. \A r \in PictureRequests : drawing[r] = NotDrawing
  BY DEF ImagesInit
<1>2. \A b \in Pool : At(b) = {}
  BY <1>1, PoolFacts DEF At, Where, NotDrawing
<1>3. BusyInv
  BY <1>2, FS_EmptySet DEF ImagesInit, BusyInv
<1> QED
  BY <1>1, <1>3 DEF ImagesInit, PoolInv, Ordered

LEMMA PoolStep == PoolInv /\ [ImagesNext]_imageVars => PoolInv'
<1> SUFFICES ASSUME PoolInv, [ImagesNext]_imageVars PROVE PoolInv'
  OBVIOUS
<1>1. CASE Cools \/ UNCHANGED imageVars
  <2>1. cooling' \in [Pool -> Nat] /\ UNCHANGED <<busy, turn, drawing>>
    BY <1>1 DEF Cools, imageVars, PoolInv, Out
  <2>2. BusyInv'
    BY <2>1 DEF PoolInv, BusyInv, At, Where, On
  <2> QED
    BY <2>1, <2>2 DEF PoolInv
<1> SUFFICES ASSUME NEW r \in PictureRequests,
                    Asks(r) \/ Draws(r) \/ Breaks(r) \/ Refuses(r) \/ GivesUp(r)
             PROVE  PoolInv'
  BY <1>1 DEF ImagesNext
<1>2. COOLDOWN \in Nat /\ cooling \in [Pool -> Nat] /\ turn \in Int
  BY PoolFacts DEF PoolInv
<1>3. CASE Draws(r) \/ Breaks(r) \/ GivesUp(r)
  <2>1. r \in Drawing /\ Ends(r)
    BY <1>3 DEF Draws, Breaks, GivesUp
  <2>2. cooling' \in [Pool -> Nat] /\ turn' \in Int
    BY <1>2, <1>3 DEF Draws, Breaks, GivesUp, MarkDown
  <2> QED
    BY <2>1, <2>2, EndsKeeps
<1> QED
  BY <1>3, AsksKeeps, RefusesKeeps

LEMMA PoolInvariance == ImagesSpec => []PoolInv
BY PoolInit, PoolStep, PTL DEF ImagesSpec

\* Only a request that asks is at its first try after the step.
LEMMA FirstTries ==
  ASSUME PoolInv, [ImagesNext]_imageVars, NEW r \in PictureRequests,
         drawing[r].at = 0, drawing'[r].at = 1
  PROVE  Asks(r)
<1>1. drawing = [q \in PictureRequests |-> drawing[q]]
  BY DEF PoolInv
<1>2. drawing'[r] # drawing[r]
  OBVIOUS
<1>3. PICK q \in PictureRequests :
        Asks(q) \/ Draws(q) \/ Breaks(q) \/ Refuses(q) \/ GivesUp(q)
  BY <1>2 DEF ImagesNext, Cools, imageVars
<1>4. q = r
  BY <1>1, <1>2, <1>3 DEF Asks, Draws, Breaks, Refuses, GivesUp, Ends
<1> QED
  BY <1>3, <1>4 DEF Draws, Breaks, Refuses, GivesUp, Drawing

\* pool.busy counts the requests that are really at a backend.
LEMMA Counted ==
  ASSUME BusyInv, NEW b \in Pool
  PROVE  InFlight(b) = busy[b] /\ busy[b] \in Nat
<1>1. ASSUME NEW r \in PictureRequests PROVE (r \in Drawing /\ On(r) = b) <=> Where(r) = b
  BY PoolFacts DEF Where, Drawing
<1>2. {r \in Drawing : On(r) = b} = At(b)
  BY <1>1 DEF At, Drawing
<1> QED
  BY <1>2 DEF InFlight, BusyInv

\* pool.py and app.py of the image shim: however counts and cooldowns change
\* between the order and the try, a picture is first sent where fewest are really
\* in flight among the backends that are in, and to one that is out only if all are.
THEOREM FirstTryIsLeastBusy == ImagesSpec => FirstTryLeastBusy
<1> DEFINE Best(b, o) == IF Out(b) THEN Out(o) /\ InFlight(b) <= InFlight(o)
                         ELSE Out(o) \/ InFlight(b) <= InFlight(o)
<1>1. ASSUME PoolInv, [ImagesNext]_imageVars, NEW r \in PictureRequests,
             drawing[r].at = 0, drawing'[r].at = 1, NEW o \in Pool
      PROVE  Best(drawing'[r].order[1], o)
  <2>1. Asks(r)
    BY <1>1, FirstTries
  <2>2. PICK order \in Orders : drawing'[r].order = order
    <3>1. PICK order \in Orders :
            drawing' = [drawing EXCEPT ![r] = [order |-> order, at |-> 1, refused |-> {}]]
      BY <2>1 DEF Asks
    <3> QED
      BY <1>1, <3>1 DEF PoolInv
  <2>3. /\ order[1] \in Pool
        /\ o = order[1] \/ Better(order[1], o)
    <3>1. busy \in [Pool -> Nat] /\ turn \in Int
      BY <1>1 DEF PoolInv, BusyInv
    <3>2. /\ order \in [1..Urls -> Pool]
          /\ \A b \in Pool : \E i \in 1..Urls : order[i] = b
          /\ \A i \in 1..Urls : i # 1 => Better(order[1], order[i])
      BY <2>2, <3>1, OrderFacts
    <3>3. PICK i \in 1..Urls : order[i] = o
      BY <3>2
    <3>4. 1 \in 1..Urls
      BY PoolFacts
    <3> QED
      BY <3>2, <3>3, <3>4
  <2>4. \A b \in Pool : InFlight(b) = busy[b] /\ busy[b] \in Nat
    BY <1>1, Counted DEF PoolInv
  <2>5. Best(order[1], o)
    <3> DEFINE b == order[1]
    <3>1. CASE o = b
      BY <2>3, <2>4, <3>1
    <3>2. CASE Better(b, o)
      <4>1. InFlight(b) = busy[b] /\ InFlight(o) = busy[o] /\ busy[b] \in Nat /\ busy[o] \in Nat
        BY <2>3, <2>4
      <4>2. cooling[b] \in Nat /\ cooling[o] \in Nat
        BY <1>1, <2>3 DEF PoolInv
      <4>3. Out(b) => Out(o)
        BY <3>2, <4>2 DEF Better, Out
      <4>4. Out(b) = Out(o) => busy[b] <= busy[o]
        BY <3>2, <4>1, <4>2 DEF Better
      <4> QED
        BY <4>1, <4>2, <4>3, <4>4 DEF Out
    <3> QED
      BY <2>3, <3>1, <3>2
  <2> QED
    BY <2>2, <2>5
<1>2. PoolInv /\ [ImagesNext]_imageVars =>
        [\A r \in PictureRequests : drawing[r].at = 0 /\ drawing'[r].at = 1 =>
           \A o \in Pool : Best(drawing'[r].order[1], o)]_imageVars
  BY <1>1
<1> QED
  BY <1>2, PoolInvariance, PTL DEF ImagesSpec, FirstTryLeastBusy

\* Of the backends of its order a request has asked those before the one it is at
\* and been refused by them: at the last one, that is all the others, and it has
\* asked none of them twice.
THEOREM AllAskedBeforeGivingUp == ImagesSpec => GivesUpAfterAll
<1>1. ASSUME PoolInv, NEW r \in PictureRequests, r \in Drawing
      PROVE  /\ On(r) \notin drawing[r].refused
             /\ drawing[r].at = Len(drawing[r].order) => drawing[r].refused \cup {On(r)} = Pool
  <2> DEFINE d == drawing[r]
  <2>1. Ordered(d) /\ d # NotDrawing
    BY <1>1 DEF PoolInv, Drawing, NotDrawing
  <2>2. /\ d \in [order : [1..Urls -> Pool], at : 1..Urls, refused : SUBSET Pool]
        /\ \A b \in Pool : \E i \in 1..Urls : d.order[i] = b
        /\ \A i, j \in 1..Urls : i < j => d.order[i] # d.order[j]
        /\ d.refused = {d.order[i] : i \in 1..(d.at - 1)}
    BY <2>1 DEF Ordered
  <2>3. On(r) = d.order[d.at] /\ On(r) \in Pool
    BY <2>2 DEF On
  <2>4. On(r) \notin d.refused
    <3>1. d.at \in 1..Urls
      BY <2>2
    <3>2. \A i \in 1..(d.at - 1) : i \in 1..Urls /\ i < d.at
      BY <3>1, PoolFacts
    <3> QED
      BY <2>2, <2>3, <3>1, <3>2
  <2>5. ASSUME d.at = Len(d.order) PROVE d.refused \cup {On(r)} = Pool
    <3>1. d.at = Urls
      BY <2>2, <2>5, PoolFacts
    <3>2. ASSUME NEW b \in Pool PROVE b \in d.refused \cup {On(r)}
      <4>1. PICK i \in 1..Urls : d.order[i] = b
        BY <2>2
      <4>2. i = d.at \/ i \in 1..(d.at - 1)
        BY <3>1, PoolFacts
      <4> QED
        BY <2>2, <2>3, <4>1, <4>2
    <3> QED
      BY <2>2, <2>3, <3>2
  <2> QED
    BY <2>4, <2>5
<1>2. PoolInv /\ [ImagesNext]_imageVars =>
        [\A r \in PictureRequests :
           /\ GivesUp(r) => drawing[r].refused \cup {On(r)} = Pool
           /\ r \in Drawing => On(r) \notin drawing[r].refused]_imageVars
  BY <1>1 DEF GivesUp
<1> QED
  BY <1>2, PoolInvariance, PTL DEF ImagesSpec, GivesUpAfterAll
=============================================================================
