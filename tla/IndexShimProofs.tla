-------------------------- MODULE IndexShimProofs --------------------------
(***************************************************************************)
(* The rows of the index implement a store of whole documents, for any     *)
(* number of requests, documents and models.  What makes it so: requests   *)
(* delete whole documents, no two of them the same one, and a put that     *)
(* finds the unique index clear finds no row of its document.  Requests    *)
(* never all wait, and a collection of one model keeps it unless a put     *)
(* finds nothing in it.  And chunk_text cuts every text into pieces that   *)
(* leave no passage out.                                                   *)
(***************************************************************************)
EXTENDS IndexShim, ChunkText, FiniteSetTheorems, WellFoundedInduction, TLAPS

Sizes == {job.pieces : job \in UNION {Jobs[r] : r \in Requests}}

Row == [doc : Docs, ordinal : Nat \ {0}, of : Nat \ {0}, model : Models]

\* A document is there as one put left it, or not at all.
Complete(d, table) ==
  In({d}, table) = {} \/ \E n \in Sizes \ {0}, m \in Models : In({d}, table) = Version(d, n, m)

\* Rows of whole documents.
Part(S, table) ==
  S \subseteq table /\ \A d \in Docs : In({d}, S) = {} \/ In({d}, S) = In({d}, table)

Stages == {"idle", "pool", "delete", "embed", "insert", "select"}

Request ==
  [at : Stages, op : {"none", "put", "forget", "search", "health"}, docs : SUBSET Docs,
   pieces : Nat, todo : SUBSET Row, gone : SUBSET Row,
   model : Models \cup {NoModel}, others : SUBSET Models]

Good(x, table) ==
  /\ x \in Request
  /\ Part(x.todo, table) /\ Part(x.gone, table)
  /\ \A row \in x.todo \cup x.gone : row.doc \in x.docs
  /\ x.op = "put" => x.pieces \in Sizes \ {0} /\ \E d \in Docs : x.docs = {d}
  /\ x.at \in {"embed", "insert"} => x.model \in Models
  /\ x.at = "insert" => x.op = "put"

RowsInv == rows \subseteq Row /\ \A d \in Docs : Complete(d, rows)

RequestsInv ==
  /\ DOMAIN req = Requests /\ req = [r \in Requests |-> req[r]]
  /\ \A r \in Requests : Good(req[r], rows)

ApartInv == \A q, r \in Requests : q # r => req[q].gone \cap req[r].gone = {}

Inv ==
  /\ RowsInv /\ RequestsInv /\ ApartInv
  /\ preferred \in Models \cup {NoModel}

(****************************** the operators ****************************)

\* A set of numbers that is not empty has a least one: induction, as it is used here.
LEMMA LeastExists ==
  ASSUME NEW S, S \subseteq Nat, S # {}
  PROVE  \E n \in S : \A m \in S : n <= m
<1> DEFINE R == {ss \in Nat \X Nat : ss[1] < ss[2]}
<1>1. IsWellFoundedOn(R, Nat)
  BY NatLessThanWellFounded DEF OpToRel
<1>2. PICK n \in S : \A m \in S : <<m, n>> \notin R
  <2> HIDE DEF R
  <2> QED
    BY <1>1, WFMin
<1>3. ASSUME NEW m \in S PROVE ~(m < n)
  <2>1. <<m, n>> \in Nat \X Nat /\ <<m, n>>[1] = m /\ <<m, n>>[2] = n
    OBVIOUS
  <2> QED
    BY <1>2, <2>1
<1>4. ASSUME NEW m \in S PROVE n <= m
  <2>1. m \in Nat /\ n \in Nat /\ ~(m < n)
    BY <1>3
  <2> QED
    BY <2>1
<1> QED
  BY <1>4

LEMMA FirstIn ==
  ASSUME NEW some, some \subseteq Models, some # {}
  PROVE  First(some) \in some
<1> DEFINE places == {i \in DOMAIN EMBED_MODELS : EMBED_MODELS[i] \in some}
<1>1. DOMAIN EMBED_MODELS = 1..Len(EMBED_MODELS) /\ Len(EMBED_MODELS) \in Nat
  BY LimitsType
<1>2. places \subseteq Nat /\ places # {}
  BY <1>1 DEF Models
<1>3. PICK n \in places : \A m \in places : n <= m
  BY <1>2, LeastExists
<1>4. \A j \in 1..(n - 1) : EMBED_MODELS[j] \notin some
  BY <1>1, <1>3
<1> QED
  BY <1>3, <1>4 DEF First

LEMMA ModelsThere == Models # {} /\ NoModel \notin Models /\ First(Models) \in Models
<1>1. 1 \in DOMAIN EMBED_MODELS
  BY LimitsType
<1>2. Models # {}
  BY <1>1 DEF Models
<1> QED
  BY <1>2, FirstIn, JobsType

LEMMA SizesType == Sizes \subseteq Nat
BY JobsType DEF Sizes

LEMMA ContentOf ==
  ASSUME NEW d, NEW table, NEW n \in Sizes \ {0}, NEW m \in Models,
         In({d}, table) = Version(d, n, m)
  PROVE  Content(d, table) = <<n, m>>
<1> DEFINE whole == {v \in Versions : In({d}, table) = Version(d, v[1], v[2])}
<1>0. 1 \in 1..n
  BY SizesType
<1>1. [doc |-> d, ordinal |-> 1, of |-> n, model |-> m] \in In({d}, table)
  BY <1>0 DEF Version
<1>2. <<n, m>> \in whole
  BY DEF Versions, Sizes
<1>3. ASSUME NEW v \in whole PROVE v = <<n, m>>
  <2>1. [doc |-> d, ordinal |-> 1, of |-> n, model |-> m] \in Version(d, v[1], v[2])
    BY <1>1
  <2>2. v[1] = n /\ v[2] = m
    BY <2>1 DEF Version
  <2> QED
    BY <2>2 DEF Versions
<1>4. (CHOOSE v \in whole : TRUE) = <<n, m>>
  BY <1>2, <1>3
<1> QED
  BY <1>1, <1>2, <1>4 DEF Content

LEMMA ContentSame ==
  ASSUME NEW d, NEW t1, NEW t2, In({d}, t1) = In({d}, t2)
  PROVE  Content(d, t1) = Content(d, t2)
BY DEF Content

\* Every model asked is one of the configured ones.
LEMMA CollectionModelsType ==
  ASSUME NEW c, NEW table, table \subseteq Row
  PROVE  CollectionModels(c, table) \subseteq Models \cup {NoModel}
<1>1. \A row \in In(c, table) : row.model \in Models
  BY DEF In, Row
<1> QED
  BY <1>1 DEF CollectionModels

LEMMA PartEmpty == \A table : Part({}, table)
BY DEF Part, In

\* A request that is over, or has just been made, has nothing deleted.
LEMMA FreshIsGood ==
  /\ \A table : Good(Idle, table)
  /\ \A r \in Requests : \A job \in Jobs[r] : \A table : Good(job, table) /\ job.gone = {}
<1>1. ASSUME NEW op \in {"none", "put", "forget", "search", "health"},
             NEW docs \in SUBSET Docs, NEW pieces \in Nat,
             op = "put" => pieces \in Sizes \ {0} /\ \E d \in Docs : docs = {d},
             NEW table, NEW stage \in {"idle", "pool"}
      PROVE  Good([Asked(op, docs, pieces) EXCEPT !.at = stage], table)
  BY <1>1, PartEmpty DEF Good, Asked, Request, Stages
<1>2. \A table : Good(Idle, table)
  BY <1>1 DEF Idle
<1>3. ASSUME NEW r \in Requests, NEW job \in Jobs[r], NEW table
      PROVE  Good(job, table) /\ job.gone = {}
  <2>1. job = [Asked(job.op, job.docs, job.pieces) EXCEPT !.at = "pool"] /\ job.gone = {}
    BY JobsType DEF Asked
  <2>2. job.op \in {"none", "put", "forget", "search", "health"} /\ job.docs \in SUBSET Docs
        /\ job.pieces \in Nat /\ job.pieces \in Sizes
        /\ (job.op = "put" => job.pieces > 0 /\ \E d \in Docs : job.docs = {d})
    BY JobsType DEF Sizes
  <2>3. Good([Asked(job.op, job.docs, job.pieces) EXCEPT !.at = "pool"], table)
    <3> HIDE DEF Sizes
    <3>1. job.op = "put" => job.pieces \in Sizes \ {0}
      BY <2>2
    <3> QED
      BY <1>1, <2>2, <3>1
  <2> QED
    BY <2>1, <2>3
<1> QED
  BY <1>2, <1>3

(******************************** one request ****************************)

\* What the store sees of a step that commits nothing.
Unseen == [Store!Next]_(Store!vars)

\* One request goes on, and the rows stay.
LEMMA OneMoves ==
  ASSUME Inv, NEW r \in Requests, NEW x, req' = [req EXCEPT ![r] = x], rows' = rows,
         preferred' \in Models \cup {NoModel},
         Good(x, rows), \A q \in Requests \ {r} : x.gone \cap req[q].gone = {}
  PROVE  Inv' /\ Unseen
<1>1. req'[r] = x /\ \A q \in Requests \ {r} : req'[q] = req[q]
  BY DEF Inv, RequestsInv
<1>2. RowsInv'
  BY DEF Inv, RowsInv, Complete, In
<1>3. RequestsInv'
  BY <1>1 DEF Inv, RequestsInv
<1>4. ApartInv'
  BY <1>1 DEF Inv, ApartInv
<1>5. Inv'
  BY <1>2, <1>3, <1>4 DEF Inv
<1>6. (UNION {req[q].docs : q \in {p \in Requests : req[p].op = "forget"}})' \in SUBSET Docs
  BY <1>3 DEF RequestsInv, Good, Request
<1>7. [d \in Docs |-> Content(d, rows)]' = [d \in Docs |-> Content(d, rows)]
  OBVIOUS
<1>8. Store!Forget({})
  BY <1>7 DEF Store!Forget
<1> QED
  BY <1>5, <1>6, <1>8 DEF Unseen, Store!Next

LEMMA Facts ==
  ASSUME Inv, NEW r \in Requests
  PROVE  /\ Good(req[r], rows) /\ req[r] \in Request /\ rows \subseteq Row
         /\ \A q \in Requests \ {r} : req[r].gone \cap req[q].gone = {}
         /\ preferred \in Models \cup {NoModel}
BY DEF Inv, RequestsInv, RowsInv, ApartInv, Good

\* Only what a request asks for next is changed.
Alike(x, y) ==
  y.op = x.op /\ y.docs = x.docs /\ y.pieces = x.pieces /\ y.todo = x.todo /\ y.gone = x.gone

LEMMA StillGood ==
  ASSUME NEW x, NEW table, Good(x, table), NEW y \in Request, Alike(x, y),
         y.at \in {"embed", "insert"} => y.model \in Models,
         y.at = "insert" => y.op = "put"
  PROVE  Good(y, table) /\ y.gone = x.gone
BY DEF Good, Alike

LEMMA EmbeddingIsGood ==
  ASSUME Inv, NEW r \in Requests, NEW pinned \in Models \cup {NoModel}
  PROVE  Good(Embedding(r, pinned), rows) /\ Embedding(r, pinned).gone = req[r].gone
<1>1. Good(req[r], rows) /\ preferred \in Models \cup {NoModel} /\ "embed" \in Stages
      /\ req[r] \in Request
  BY Facts DEF Stages
<1>2. CASE pinned # NoModel
  <2>1. pinned \in Models /\ {} \in SUBSET Models
    BY <1>2
  <2>2. Embedding(r, pinned) =
          [req[r] EXCEPT !.at = "embed", !.model = pinned, !.others = {}]
    BY <1>2 DEF Embedding, Asking
  <2>3. Embedding(r, pinned) \in Request /\ Alike(req[r], Embedding(r, pinned))
        /\ Embedding(r, pinned).at = "embed" /\ Embedding(r, pinned).model \in Models
    BY <1>1, <2>1, <2>2 DEF Request, Alike
  <2> QED
    BY <1>1, <2>3, StillGood
<1>3. CASE pinned = NoModel
  <2> DEFINE m == IF preferred # NoModel THEN preferred ELSE First(Models)
  <2>1. m \in Models
    BY <1>1, ModelsThere
  <2>2. Embedding(r, pinned) =
          [req[r] EXCEPT !.at = "embed", !.model = m, !.others = Models \ {m}]
    BY <1>3 DEF Embedding, Asking
  <2>3. Models \ {m} \in SUBSET Models
    OBVIOUS
  <2> HIDE DEF m
  <2>4. Embedding(r, pinned) \in Request /\ Alike(req[r], Embedding(r, pinned))
        /\ Embedding(r, pinned).at = "embed" /\ Embedding(r, pinned).model \in Models
    BY <1>1, <2>1, <2>2, <2>3 DEF Request, Alike
  <2> QED
    BY <1>1, <2>4, StillGood
<1> QED
  BY <1>2, <1>3

LEMMA Ends ==
  ASSUME Inv, NEW r \in Requests, req' = [req EXCEPT ![r] = Idle], rows' = rows,
         preferred' \in Models \cup {NoModel}
  PROVE  Inv' /\ Unseen
<1>1. Idle.gone = {}
  BY DEF Idle, Asked
<1> QED
  BY <1>1, FreshIsGood, OneMoves

LEMMA AskKeeps ==
  ASSUME Inv, NEW r \in Requests, Ask(r)
  PROVE  Inv' /\ Unseen
<1>1. PICK job \in Jobs[r] : req' = [req EXCEPT ![r] = job]
  BY DEF Ask
<1>2. Good(job, rows) /\ job.gone = {}
  BY FreshIsGood
<1>3. rows' = rows /\ preferred' \in Models \cup {NoModel}
  BY Facts DEF Ask
<1> QED
  BY <1>1, <1>2, <1>3, OneMoves

LEMMA EmbedsKeeps ==
  ASSUME Inv, NEW r \in Requests, Embeds(r)
  PROVE  Inv' /\ Unseen
<1>1. Good(req[r], rows) /\ req[r] \in Request /\ req[r].model \in Models
      /\ \A q \in Requests \ {r} : req[r].gone \cap req[q].gone = {}
  BY Facts DEF Good, Embeds
<1>2. rows' = rows /\ preferred' \in Models \cup {NoModel}
      /\ req' = [req EXCEPT ![r] = After(r)]
  BY <1>1, Facts DEF Embeds
<1>3. CASE req[r].op = "put"
  <2> DEFINE x == [req[r] EXCEPT !.at = "insert", !.model = req[r].model, !.others = {}]
  <2>1. After(r) = x
    BY <1>1, <1>3 DEF After, Request
  <2>2. x \in Request /\ Alike(req[r], x) /\ x.at = "insert" /\ x.model \in Models
        /\ x.op = "put"
    BY <1>1, <1>3 DEF Request, Alike, Stages
  <2> HIDE DEF x
  <2>3. Good(x, rows) /\ x.gone = req[r].gone
    BY <1>1, <2>2, StillGood
  <2> QED
    BY <1>1, <1>2, <2>1, <2>3, OneMoves
<1>4. CASE req[r].op = "search"
  <2> DEFINE x == [req[r] EXCEPT !.at = "select", !.model = req[r].model, !.others = req[r].others]
  <2>1. After(r) = x
    BY <1>1, <1>4 DEF After, Request
  <2>2. x \in Request /\ Alike(req[r], x) /\ x.at = "select"
    BY <1>1 DEF Request, Alike, Stages
  <2> HIDE DEF x
  <2>3. Good(x, rows) /\ x.gone = req[r].gone
    BY <1>1, <2>2, StillGood
  <2> QED
    BY <1>1, <1>2, <2>1, <2>3, OneMoves
<1>5. CASE req[r].op \notin {"put", "search"}
  <2>1. After(r) = Idle
    BY <1>5 DEF After
  <2> QED
    BY <1>2, <2>1, Ends
<1> QED
  BY <1>3, <1>4, <1>5

LEMMA EmbedFailsKeeps ==
  ASSUME Inv, NEW r \in Requests, EmbedFails(r)
  PROVE  Inv' /\ Unseen
<1> DEFINE left == req[r].others
<1>1. Good(req[r], rows) /\ req[r] \in Request /\ left \subseteq Models /\ "embed" \in Stages
      /\ \A q \in Requests \ {r} : req[r].gone \cap req[q].gone = {}
  BY Facts DEF Request, Stages
<1>2. rows' = rows /\ preferred' \in Models \cup {NoModel}
  BY Facts DEF EmbedFails
<1>3. CASE left = {}
  <2>1. req' = [req EXCEPT ![r] = Idle]
    BY <1>3 DEF EmbedFails
  <2> QED
    BY <1>2, <2>1, Ends
<1>4. CASE left # {}
  <2> DEFINE m == First(left)
             x == [req[r] EXCEPT !.at = "embed", !.model = m, !.others = left \ {m}]
  <2>1. req' = [req EXCEPT ![r] = x]
    BY <1>4 DEF EmbedFails, Asking
  <2>2. m \in Models /\ left \ {m} \in SUBSET Models
    BY <1>1, <1>4, FirstIn
  <2> HIDE DEF m
  <2>4. x \in Request /\ Alike(req[r], x) /\ x.at = "embed" /\ x.model \in Models
    BY <1>1, <2>2 DEF Request, Alike
  <2> HIDE DEF x
  <2>3. Good(x, rows) /\ x.gone = req[r].gone
    BY <1>1, <2>4, StillGood
  <2> QED
    BY <1>1, <1>2, <2>1, <2>3, OneMoves
<1> QED
  BY <1>3, <1>4

LEMMA BeginKeeps ==
  ASSUME Inv, NEW r \in Requests, Begin(r)
  PROVE  Inv' /\ Unseen
<1>1. Good(req[r], rows) /\ req[r] \in Request /\ rows \subseteq Row
      /\ \A q \in Requests \ {r} : req[r].gone \cap req[q].gone = {}
  BY Facts
<1>2. rows' = rows /\ preferred' \in Models \cup {NoModel}
  BY Facts DEF Begin
<1>3. CASE req[r].op \in {"put", "forget"}
           /\ req' = [req EXCEPT ![r].at = "delete", ![r].todo = In(req[r].docs, rows)]
  <2> DEFINE found == In(req[r].docs, rows)
             x == [req[r] EXCEPT !.at = "delete", !.todo = found]
  <2>1. req' = [req EXCEPT ![r] = x]
    BY <1>3
  <2>2. Part(found, rows) /\ found \subseteq Row /\ \A row \in found : row.doc \in req[r].docs
    BY <1>1 DEF Part, In
  <2> HIDE DEF found
  <2>3. x \in Request /\ x.at = "delete" /\ x.todo = found /\ x.gone = req[r].gone
        /\ x.op = req[r].op /\ x.docs = req[r].docs /\ x.pieces = req[r].pieces
    BY <1>1, <2>2 DEF Request, Stages
  <2> HIDE DEF x
  <2>4. Good(x, rows)
    BY <1>1, <2>2, <2>3 DEF Good
  <2> QED
    BY <1>1, <1>2, <2>1, <2>3, <2>4, OneMoves
<1>4. CASE \E m \in CollectionModels(req[r].docs, rows) :
             req' = [req EXCEPT ![r] = IF m = NoModel THEN Idle ELSE Embedding(r, m)]
  <2>1. PICK m \in Models \cup {NoModel} :
          req' = [req EXCEPT ![r] = IF m = NoModel THEN Idle ELSE Embedding(r, m)]
    BY <1>1, <1>4, CollectionModelsType
  <2>2. CASE m = NoModel
    BY <1>2, <2>1, <2>2, Ends
  <2>3. CASE m # NoModel
    BY <1>1, <1>2, <2>1, <2>3, EmbeddingIsGood, OneMoves
  <2> QED
    BY <2>2, <2>3
<1>5. CASE req' = [req EXCEPT ![r] = Embedding(r, NoModel)]
  BY <1>1, <1>2, <1>5, EmbeddingIsGood, OneMoves
<1> QED
  BY <1>3, <1>4, <1>5 DEF Begin

LEMMA DeleteKeeps ==
  ASSUME Inv, NEW r \in Requests, NEW d \in Docs, Delete(r, d)
  PROVE  Inv' /\ Unseen
<1> DEFINE reached == In({d}, req[r].todo)
           left == req[r].todo \ reached
           done == req[r].gone \cup reached
           x == [req[r] EXCEPT !.todo = left, !.gone = done]
<1>1. Good(req[r], rows) /\ req[r] \in Request
      /\ \A q \in Requests \ {r} : req[r].gone \cap req[q].gone = {}
  BY Facts
<1>2. rows' = rows /\ preferred' \in Models \cup {NoModel}
  BY Facts DEF Delete
<1>3. req' = [req EXCEPT ![r] = x]
  BY DEF Delete
<1>4. Part(left, rows) /\ Part(done, rows)
  <2>1. Part(req[r].todo, rows) /\ Part(req[r].gone, rows)
    BY <1>1 DEF Good
  <2>2. ASSUME NEW e \in Docs, e # d
        PROVE  In({e}, left) = In({e}, req[r].todo) /\ In({e}, done) = In({e}, req[r].gone)
    BY <2>2 DEF In
  <2>3. In({d}, left) = {} /\ In({d}, done) = In({d}, req[r].gone) \cup In({d}, req[r].todo)
    BY DEF In
  <2>4. left \subseteq rows /\ done \subseteq rows
    BY <2>1 DEF Part, In
  <2>5. \A e \in Docs : In({e}, left) = {} \/ In({e}, left) = In({e}, rows)
    BY <2>1, <2>2, <2>3 DEF Part
  <2>6. \A e \in Docs : In({e}, done) = {} \/ In({e}, done) = In({e}, rows)
    BY <2>1, <2>2, <2>3 DEF Part
  <2> QED
    BY <2>4, <2>5, <2>6 DEF Part
<1>5. left \subseteq Row /\ done \subseteq Row /\ left \cup done = req[r].todo \cup req[r].gone
  BY <1>1 DEF Request, In
<1>6. \A q \in Requests \ {r} : done \cap req[q].gone = {}
  <2>1. reached \cap Locked(r) = {}
    BY DEF Delete
  <2> QED
    BY <1>1, <2>1 DEF Locked
<1> HIDE DEF left, done
<1>7. x \in Request /\ x.at = req[r].at /\ x.todo = left /\ x.gone = done
      /\ x.op = req[r].op /\ x.docs = req[r].docs /\ x.pieces = req[r].pieces
      /\ x.model = req[r].model
  BY <1>1, <1>5 DEF Request
<1> HIDE DEF x
<1>8. Good(x, rows)
  BY <1>1, <1>4, <1>5, <1>7 DEF Good
<1> QED
  BY <1>2, <1>3, <1>6, <1>7, <1>8, OneMoves

LEMMA PinKeeps ==
  ASSUME Inv, NEW r \in Requests, Pin(r)
  PROVE  Inv' /\ Unseen
<1>1. rows' = rows /\ preferred' \in Models \cup {NoModel}
      /\ \A q \in Requests \ {r} : req[r].gone \cap req[q].gone = {}
  BY Facts DEF Pin, TableBeforeInsert
<1>2. Seen(r) \subseteq Row
  BY Facts DEF Seen
<1>3. PICK d \in req[r].docs : \E m \in CollectionModels(CollectionOf(d), Seen(r)) :
        req' = [req EXCEPT ![r] = Embedding(r, m)]
  BY DEF Pin
<1>4. PICK m \in Models \cup {NoModel} : req' = [req EXCEPT ![r] = Embedding(r, m)]
  BY <1>2, <1>3, CollectionModelsType
<1> QED
  BY <1>1, <1>4, EmbeddingIsGood, OneMoves

LEMMA OverKeeps ==
  ASSUME Inv, NEW r \in Requests, InsertFails(r) \/ Deadlocked(r) \/ Select(r)
  PROVE  Inv' /\ Unseen
<1>1. req' = [req EXCEPT ![r] = Idle] /\ rows' = rows /\ preferred' \in Models \cup {NoModel}
  BY Facts DEF InsertFails, Deadlocked, Select
<1> QED
  BY <1>1, Ends

(******************************** commits ********************************)

\* The new rows of a put, whose document has no row but those it has deleted.
Clear(r, d, new) ==
  \/ new = {}
  \/ /\ d \in Docs /\ In({d}, rows \ req[r].gone) = {}
     /\ \E n \in Sizes \ {0}, m \in Models : new = Version(d, n, m)

LEMMA VersionRows ==
  ASSUME NEW d \in Docs, NEW n \in Sizes \ {0}, NEW m \in Models
  PROVE  /\ Version(d, n, m) \subseteq Row /\ In({d}, Version(d, n, m)) = Version(d, n, m)
         /\ \A e \in Docs \ {d} : In({e}, Version(d, n, m)) = {}
         /\ [doc |-> d, ordinal |-> 1, of |-> n, model |-> m] \in Version(d, n, m)
<1>1. n \in Nat \ {0} /\ 1 \in 1..n
  BY SizesType
<1> QED
  BY <1>1 DEF Version, Row, In

\* What a commit leaves of each document.
LEMMA CommitRows ==
  ASSUME Inv, NEW r \in Requests, NEW d, NEW new, Commit(r, new), Clear(r, d, new)
  PROVE  /\ rows' \subseteq Row
         /\ \A e : In({e}, rows') = (In({e}, rows) \ In({e}, req[r].gone)) \cup In({e}, new)
         /\ new # {} => In({d}, rows') = new
         /\ \A e \in Docs : new = {} \/ e # d => In({e}, new) = {}
<1>1. rows' = (rows \ req[r].gone) \cup new /\ rows \subseteq Row
  BY Facts DEF Commit
<1>2. new # {} => new \subseteq Row /\ In({d}, new) = new /\ \A e \in Docs \ {d} : In({e}, new) = {}
  BY VersionRows DEF Clear
<1>3. \A e : In({e}, rows') = (In({e}, rows) \ In({e}, req[r].gone)) \cup In({e}, new)
  BY <1>1 DEF In
<1>4. \A e : In({e}, {}) = {}
  BY DEF In
<1>5. new # {} => In({d}, rows \ req[r].gone) = {}
  BY DEF Clear
<1>6. new # {} => In({d}, rows) \ In({d}, req[r].gone) = {}
  BY <1>5 DEF In
<1>7. rows' \subseteq Row
  BY <1>1, <1>2
<1>8. new # {} => In({d}, rows') = new
  BY <1>2, <1>3, <1>6
<1>9. \A e \in Docs : new = {} \/ e # d => In({e}, new) = {}
  BY <1>2, <1>4
<1> QED
  BY <1>3, <1>7, <1>8, <1>9

LEMMA WhatIsLeft ==
  ASSUME Inv, NEW r \in Requests, NEW d, NEW new, Commit(r, new), Clear(r, d, new),
         NEW e \in Docs, new = {} \/ e # d
  PROVE  In({e}, rows') = IF In({e}, req[r].gone) = {} THEN In({e}, rows) ELSE {}
<1>1. In({e}, rows') = (In({e}, rows) \ In({e}, req[r].gone)) \cup In({e}, new)
  BY CommitRows
<1>2. In({e}, new) = {}
  <2>1. \A f \in Docs : new = {} \/ f # d => In({f}, new) = {}
    BY CommitRows
  <2> QED
    BY <2>1
<1>3. In({e}, req[r].gone) = {} \/ In({e}, req[r].gone) = In({e}, rows)
  BY Facts DEF Good, Part
<1> QED
  BY <1>1, <1>2, <1>3

\* What another request has found or deleted is still of whole documents, less what
\* is gone.
LEMMA PartAfter ==
  ASSUME Inv, NEW r \in Requests, NEW d, NEW new, Commit(r, new), Clear(r, d, new),
         NEW S, Part(S, rows)
  PROVE  Part(S \ req[r].gone, rows')
<1>1. rows' = (rows \ req[r].gone) \cup new
  BY DEF Commit
<1>2. ASSUME NEW e \in Docs
      PROVE  In({e}, S \ req[r].gone) = {} \/ In({e}, S \ req[r].gone) = In({e}, rows')
  <2>1. In({e}, S) = {} \/ In({e}, S) = In({e}, rows)
    BY DEF Part
  <2>2. In({e}, S \ req[r].gone) = In({e}, S) \ In({e}, req[r].gone)
    BY DEF In
  <2>3. CASE new # {} /\ e = d
    <3>1. In({d}, rows \ req[r].gone) = {}
      BY <2>3 DEF Clear
    <3>2. S \subseteq rows
      BY DEF Part
    <3> QED
      BY <2>3, <3>1, <3>2 DEF In
  <2>4. CASE new = {} \/ e # d
    <3>1. In({e}, rows') = IF In({e}, req[r].gone) = {} THEN In({e}, rows) ELSE {}
      BY <2>4, WhatIsLeft
    <3>2. In({e}, req[r].gone) = {} \/ In({e}, req[r].gone) = In({e}, rows)
      BY Facts DEF Good, Part
    <3> QED
      BY <2>1, <2>2, <3>1, <3>2
  <2> QED
    BY <2>3, <2>4
<1>3. S \ req[r].gone \subseteq rows'
  BY <1>1 DEF Part
<1> QED
  BY <1>2, <1>3 DEF Part

LEMMA CommitKeeps ==
  ASSUME Inv, NEW r \in Requests, NEW d, NEW new, Commit(r, new), Clear(r, d, new)
  PROVE  Inv'
<1> DEFINE out == req[r].gone
           y(q) == [req[q] EXCEPT !.todo = @ \ out]
<1>1. req' = [q \in Requests |-> IF q = r THEN Idle ELSE y(q)] /\ preferred' = preferred
  BY DEF Commit
<1>2. RowsInv'
  <2>1. rows' \subseteq Row
    BY CommitRows
  <2>2. ASSUME NEW e \in Docs PROVE Complete(e, rows')
    <3>1. CASE new # {} /\ e = d
      <4>1. In({e}, rows') = new
        BY <3>1, CommitRows
      <4> QED
        BY <3>1, <4>1 DEF Clear, Complete
    <3>2. CASE new = {} \/ e # d
      <4>1. In({e}, rows') = In({e}, rows) \/ In({e}, rows') = {}
        BY <3>2, WhatIsLeft
      <4>2. Complete(e, rows)
        BY DEF Inv, RowsInv
      <4> QED
        BY <4>1, <4>2 DEF Complete
    <3> QED
      BY <3>1, <3>2
  <2> QED
    BY <2>1, <2>2 DEF RowsInv
<1>3. ASSUME NEW q \in Requests, q # r
      PROVE  Good(y(q), rows') /\ y(q).gone = req[q].gone
  <2>1. Good(req[q], rows) /\ req[q] \in Request /\ req[q].gone \cap out = {}
    BY <1>3, Facts
  <2>2. y(q) \in Request /\ y(q).todo = req[q].todo \ out /\ y(q).gone = req[q].gone
        /\ y(q).op = req[q].op /\ y(q).docs = req[q].docs /\ y(q).pieces = req[q].pieces
        /\ y(q).at = req[q].at /\ y(q).model = req[q].model
    BY <2>1 DEF Request
  <2>3. Part(req[q].todo, rows) /\ Part(req[q].gone, rows)
    BY <2>1 DEF Good
  <2>4. req[q].gone \ out = req[q].gone
    BY <2>1
  <2>5. Part(req[q].todo \ out, rows') /\ Part(req[q].gone, rows')
    BY <2>3, <2>4, PartAfter
  <2> HIDE DEF y, out
  <2>6. Good(y(q), rows')
    BY <2>1, <2>2, <2>5 DEF Good
  <2> QED
    BY <2>2, <2>6
<1>4. Good(Idle, rows') /\ Idle.gone = {}
  BY FreshIsGood DEF Idle, Asked
<1> HIDE DEF y
<1>5. RequestsInv'
  BY <1>1, <1>3, <1>4 DEF RequestsInv
<1>6. ApartInv'
  BY <1>1, <1>3, <1>4 DEF Inv, ApartInv
<1> QED
  BY <1>1, <1>2, <1>5, <1>6 DEF Inv

LEMMA ForgettingType ==
  ASSUME Inv'
  PROVE  (UNION {req[q].docs : q \in {p \in Requests : req[p].op = "forget"}})' \in SUBSET Docs
BY DEF Inv, RequestsInv, Good, Request

LEMMA ForgottenKeeps ==
  ASSUME Inv, NEW r \in Requests, Forgotten(r)
  PROVE  Inv' /\ Unseen
<1>1. Commit(r, {}) /\ Clear(r, {}, {}) /\ req[r].op = "forget"
  BY DEF Forgotten, Clear
<1>2. Inv'
  BY <1>1, CommitKeeps
<1> DEFINE D == {e \in Docs : In({e}, req[r].gone) # {}}
           forgetting == UNION {req[q].docs : q \in {p \in Requests : req[p].op = "forget"}}
<1>3. D \subseteq forgetting
  <2>1. \A row \in req[r].gone : row.doc \in req[r].docs
    BY Facts DEF Good
  <2>2. D \subseteq req[r].docs
    BY <2>1 DEF In
  <2> QED
    BY <1>1, <2>2
<1>4. ASSUME NEW e \in Docs
      PROVE  Content(e, rows') = IF e \in D THEN Nothing ELSE Content(e, rows)
  <2>1. CASE e \in D
    <3>1. In({e}, rows') = {}
      BY <1>1, <2>1, WhatIsLeft
    <3> QED
      BY <2>1, <3>1 DEF Content
  <2>2. CASE e \notin D
    <3>0. In({e}, req[r].gone) = {}
      BY <2>2
    <3>1. In({e}, rows') = In({e}, rows)
      BY <1>1, <3>0, WhatIsLeft
    <3> QED
      BY <2>2, <3>1, ContentSame
  <2> QED
    BY <2>1, <2>2
<1> HIDE DEF D
<1>5. [e \in Docs |-> Content(e, rows)]' =
        [e \in Docs |-> IF e \in D THEN Nothing ELSE [f \in Docs |-> Content(f, rows)][e]]
  BY <1>4
<1>6. Store!Forget(D)
  BY <1>5 DEF Store!Forget
<1> QED
  BY <1>2, <1>3, <1>6, ForgettingType DEF Unseen, Store!Next

LEMMA InsertKeeps ==
  ASSUME Inv, NEW r \in Requests, Insert(r)
  PROVE  Inv' /\ Unseen
<1>1. Good(req[r], rows) /\ req[r].op = "put" /\ req[r].model \in Models
      /\ req[r].pieces \in Sizes \ {0}
  BY Facts DEF Insert, Good
<1>2. PICK d \in Docs : req[r].docs = {d}
  BY <1>1 DEF Good
<1> DEFINE n == req[r].pieces
           m == req[r].model
           new == Version(d, n, m)
           first == [doc |-> d, ordinal |-> 1, of |-> n, model |-> m]
<1>3. NewRows(r) = new
  BY <1>2 DEF NewRows
<1>4. Commit(r, new) /\ Conflicting(r) = {}
  BY <1>3 DEF Insert
<1>5. first \in new /\ new # {}
  BY <1>1, VersionRows
<1>6. In({d}, rows \ req[r].gone) = {}
  <2>1. In({d}, req[r].gone) = {} \/ In({d}, req[r].gone) = In({d}, rows)
    BY <1>1 DEF Good, Part
  <2>2. CASE In({d}, req[r].gone) = In({d}, rows)
    BY <2>2 DEF In
  <2>3. CASE In({d}, req[r].gone) = {} /\ In({d}, rows) # {}
    <3>1. Complete(d, rows)
      BY DEF Inv, RowsInv
    <3>2. PICK k \in Sizes \ {0}, o \in Models : In({d}, rows) = Version(d, k, o)
      BY <2>3, <3>1 DEF Complete
    <3> DEFINE other == [doc |-> d, ordinal |-> 1, of |-> k, model |-> o]
    <3>3. other \in In({d}, rows)
      BY <3>2, VersionRows
    <3>4. other \in Seen(r)
      BY <2>3, <3>3 DEF In, Seen
    <3>5. other \in Conflicting(r)
      BY <1>3, <1>5, <3>4 DEF Conflicting
    <3> QED
      BY <1>4, <3>5
  <2>4. CASE In({d}, rows) = {}
    BY <2>4 DEF In
  <2> QED
    BY <2>1, <2>2, <2>3, <2>4
<1>7. Clear(r, d, new)
  BY <1>1, <1>6 DEF Clear
<1>8. Inv'
  BY <1>4, <1>7, CommitKeeps
<1>9. Content(d, rows') = <<n, m>>
  <2>1. In({d}, rows') = new
    BY <1>4, <1>5, <1>7, CommitRows
  <2> QED
    BY <1>1, <2>1, ContentOf
<1>10. ASSUME NEW e \in Docs, e # d PROVE Content(e, rows') = Content(e, rows)
  <2>1. In({e}, req[r].gone) = {}
    BY <1>1, <1>2, <1>10 DEF Good, In
  <2>2. In({e}, rows') = In({e}, rows)
    BY <1>4, <1>7, <1>10, <2>1, WhatIsLeft
  <2> QED
    BY <2>2, ContentSame
<1>11. <<n, m>> \in Versions
  BY <1>1 DEF Versions, Sizes
<1>12. [e \in Docs |-> Content(e, rows)]' = [[e \in Docs |-> Content(e, rows)] EXCEPT ![d] = <<n, m>>]
  BY <1>9, <1>10
<1>13. Store!Replace(d)
  BY <1>11, <1>12 DEF Store!Replace
<1> QED
  BY <1>8, <1>13, ForgettingType DEF Unseen, Store!Next

(********************************* results *******************************)

LEMMA InitOK == Init => Inv /\ Store!Init
<1> SUFFICES ASSUME Init PROVE Inv /\ Store!Init
  OBVIOUS
<1>1. RowsInv
  BY DEF Init, RowsInv, Complete, In
<1>2. RequestsInv
  BY FreshIsGood DEF Init, RequestsInv
<1>3. ApartInv
  BY DEF Init, ApartInv, Idle, Asked
<1>4. Inv
  BY <1>1, <1>2, <1>3 DEF Init, Inv
<1>5. \A d \in Docs : Content(d, rows) = Nothing
  BY DEF Init, Content, In
<1>6. UNION {req[q].docs : q \in {p \in Requests : req[p].op = "forget"}} = {}
  BY DEF Init, Idle, Asked
<1> QED
  BY <1>4, <1>5, <1>6 DEF Store!Init

LEMMA RestartKeeps ==
  ASSUME Inv, Restart
  PROVE  Inv' /\ Unseen
<1>1. RowsInv'
  BY DEF Restart, Inv, RowsInv, Complete, In
<1>2. RequestsInv' /\ ApartInv'
  BY FreshIsGood DEF Restart, RequestsInv, ApartInv, Idle, Asked
<1>3. Inv'
  BY <1>1, <1>2 DEF Restart, Inv
<1>4. [d \in Docs |-> Content(d, rows)]' = [d \in Docs |-> Content(d, rows)]
  BY DEF Restart
<1>5. Store!Forget({})
  BY <1>4 DEF Store!Forget
<1> QED
  BY <1>3, <1>5, ForgettingType DEF Unseen, Store!Next

LEMMA StutterKeeps ==
  ASSUME Inv, UNCHANGED vars
  PROVE  Inv' /\ Unseen
<1>1. rows' = rows /\ req' = req /\ preferred' = preferred
  BY DEF vars
<1>2. Inv'
  BY <1>1 DEF Inv, RowsInv, Complete, In, RequestsInv, ApartInv
<1>3. UNCHANGED Store!vars
  BY <1>1 DEF Store!vars
<1> QED
  BY <1>2, <1>3 DEF Unseen

LEMMA StepOK == Inv /\ [Next]_vars => Inv' /\ Unseen
<1> SUFFICES ASSUME Inv, [Next]_vars PROVE Inv' /\ Unseen
  OBVIOUS
<1>1. CASE Restart \/ UNCHANGED vars
  BY <1>1, RestartKeeps, StutterKeeps
<1>2. ASSUME NEW r \in Requests, Ask(r) \/ Begin(r)
      PROVE  Inv' /\ Unseen
  BY <1>2, AskKeeps, BeginKeeps
<1>3. ASSUME NEW r \in Requests, Proceed(r)
      PROVE  Inv' /\ Unseen
  BY <1>3, EmbedsKeeps, EmbedFailsKeeps, ForgottenKeeps, PinKeeps, InsertKeeps, OverKeeps,
     DeleteKeeps DEF Proceed
<1> QED
  BY <1>1, <1>2, <1>3 DEF Next

\* Whatever puts, deletes, failures, deadlocks and restarts meet in put_document and
\* the deletes, the rows of the index implement a store of whole documents.
THEOREM DocumentsKeptWhole == Spec => StoreKept
BY InitOK, StepOK, PTL DEF Spec, StoreKept, Store!Spec, Unseen

(******************************* going on ********************************)

Holders == {r \in Requests : HasConnection(r)}

\* Only a put or a delete deletes rows, and gives them up with its transaction.
Placed(x) ==
  /\ x.at = "idle" => x = Idle
  /\ x.at = "delete" => x.op \in {"put", "forget"}
  /\ x.gone # {} => x.at \in {"delete", "embed", "insert"} /\ x.op # "search"

GoInv == IsFiniteSet(Holders) /\ \A r \in Requests : Placed(req[r])

LEMMA IdleIsPlaced ==
  Placed(Idle) /\ Idle.at = "idle" /\ Idle.gone = {} /\ Idle.op = "none"
BY DEF Idle, Asked, Placed

LEMMA FewHolders ==
  ASSUME IsFiniteSet(Holders), NEW r \in Requests,
         \A q \in Requests \ {r} : HasConnection(q)' => HasConnection(q)
  PROVE  IsFiniteSet(Holders)'
<1>1. IsFiniteSet(Holders \cup {r})
  BY FS_AddElement
<1>2. Holders' \subseteq Holders \cup {r}
  BY DEF Holders
<1> QED
  BY <1>1, <1>2, FS_Subset

LEMMA OneGoesOn ==
  ASSUME Inv, GoInv, NEW r \in Requests, NEW x, Placed(x), req' = [req EXCEPT ![r] = x]
  PROVE  GoInv'
<1>1. DOMAIN req = Requests
  BY DEF Inv, RequestsInv
<1>2. \A q \in Requests : req'[q] = IF q = r THEN x ELSE req[q]
  BY <1>1
<1>3. \A q \in Requests \ {r} : HasConnection(q)' => HasConnection(q)
  BY <1>2 DEF HasConnection
<1>4. IsFiniteSet(Holders)'
  BY <1>3, FewHolders DEF GoInv
<1> QED
  BY <1>2, <1>4 DEF GoInv

LEMMA AskGoesOn ==
  ASSUME Inv, GoInv, NEW r \in Requests, Ask(r)
  PROVE  GoInv'
<1>1. PICK job \in Jobs[r] : req' = [req EXCEPT ![r] = job]
  BY DEF Ask
<1>2. job = Asked(job.op, job.docs, job.pieces)
  BY JobsType
<1>3. job.at = "pool" /\ job.gone = {}
  BY <1>2 DEF Asked
<1>4. Placed(job)
  BY <1>3 DEF Placed
<1> QED
  BY <1>1, <1>4, OneGoesOn

LEMMA EmbeddingIsPlaced ==
  ASSUME Inv, GoInv, NEW r \in Requests, NEW m, NEW others,
         req[r].at \in {"delete", "embed"} \/ req[r].gone = {}
  PROVE  Placed(Asking(req[r], m, others))
<1>1. req[r] \in Request /\ Placed(req[r])
  BY Facts DEF GoInv
<1>2. /\ Asking(req[r], m, others).at = "embed"
      /\ Asking(req[r], m, others).op = req[r].op
      /\ Asking(req[r], m, others).gone = req[r].gone
  BY <1>1 DEF Asking, Request
<1> QED
  BY <1>1, <1>2 DEF Placed

LEMMA EmbedsGoesOn ==
  ASSUME Inv, GoInv, NEW r \in Requests, Embeds(r)
  PROVE  GoInv'
<1>1. req[r] \in Request /\ Placed(req[r])
  BY Facts DEF GoInv
<1>2. req' = [req EXCEPT ![r] = After(r)]
  BY DEF Embeds
<1>3. Placed(After(r))
  <2>1. CASE req[r].op = "put"
    <3>1. After(r) = [req[r] EXCEPT !.at = "insert", !.others = {}]
      BY <2>1 DEF After
    <3>2. After(r).at = "insert" /\ After(r).op = "put"
      BY <1>1, <2>1, <3>1 DEF Request
    <3> QED
      BY <3>2 DEF Placed
  <2>2. CASE req[r].op = "search"
    <3>1. After(r) = [req[r] EXCEPT !.at = "select"]
      BY <2>2 DEF After
    <3>2. After(r).at = "select" /\ After(r).gone = req[r].gone
      BY <1>1, <3>1 DEF Request
    <3> QED
      BY <1>1, <2>2, <3>2 DEF Placed
  <2>3. CASE req[r].op \notin {"put", "search"}
    BY <2>3, IdleIsPlaced DEF After
  <2> QED
    BY <2>1, <2>2, <2>3
<1> QED
  BY <1>2, <1>3, OneGoesOn

LEMMA EmbedFailsGoesOn ==
  ASSUME Inv, GoInv, NEW r \in Requests, EmbedFails(r)
  PROVE  GoInv'
<1> DEFINE left == req[r].others
<1>1. CASE left = {}
  BY <1>1, IdleIsPlaced, OneGoesOn DEF EmbedFails
<1>2. CASE left # {}
  <2>1. req' = [req EXCEPT ![r] = Asking(req[r], First(left), left \ {First(left)})]
    BY <1>2 DEF EmbedFails
  <2>2. Placed(Asking(req[r], First(left), left \ {First(left)}))
    BY EmbeddingIsPlaced DEF EmbedFails
  <2> QED
    BY <2>1, <2>2, OneGoesOn
<1> QED
  BY <1>1, <1>2

LEMMA BeginGoesOn ==
  ASSUME Inv, GoInv, NEW r \in Requests, Begin(r)
  PROVE  GoInv'
<1>1. req[r] \in Request /\ Placed(req[r]) /\ req[r].at = "pool" /\ req[r].gone = {}
  BY Facts DEF GoInv, Begin, Placed
<1>2. \A m : Placed(Embedding(r, m))
  BY <1>1, EmbeddingIsPlaced DEF Embedding
<1>3. CASE req[r].op \in {"put", "forget"}
           /\ req' = [req EXCEPT ![r].at = "delete", ![r].todo = In(req[r].docs, rows)]
  <2> DEFINE x == [req[r] EXCEPT !.at = "delete", !.todo = In(req[r].docs, rows)]
  <2>1. req' = [req EXCEPT ![r] = x]
    BY <1>3
  <2>2. x.at = "delete" /\ x.op = req[r].op
    BY <1>1 DEF Request
  <2>3. Placed(x)
    <3> HIDE DEF x
    <3> QED
      BY <1>3, <2>2 DEF Placed
  <2> QED
    BY <2>1, <2>3, OneGoesOn
<1>4. CASE \E m : req' = [req EXCEPT ![r] = IF m = NoModel THEN Idle ELSE Embedding(r, m)]
  BY <1>2, <1>4, IdleIsPlaced, OneGoesOn
<1>5. CASE req' = [req EXCEPT ![r] = Embedding(r, NoModel)]
  BY <1>2, <1>5, OneGoesOn
<1> QED
  BY <1>3, <1>4, <1>5 DEF Begin

LEMMA DeleteGoesOn ==
  ASSUME Inv, GoInv, NEW r \in Requests, NEW d, Delete(r, d)
  PROVE  GoInv'
<1> DEFINE reached == In({d}, req[r].todo)
           x == [req[r] EXCEPT !.todo = @ \ reached, !.gone = @ \cup reached]
<1>1. req[r] \in Request /\ Placed(req[r]) /\ req[r].at = "delete"
  BY Facts DEF GoInv, Delete
<1>2. req' = [req EXCEPT ![r] = x]
  BY DEF Delete
<1>3. x.at = "delete" /\ x.op = req[r].op
  BY <1>1 DEF Request
<1>4. Placed(x)
  <2> HIDE DEF x
  <2> QED
    BY <1>1, <1>3 DEF Placed
<1> QED
  BY <1>2, <1>4, OneGoesOn

LEMMA PinGoesOn ==
  ASSUME Inv, GoInv, NEW r \in Requests, Pin(r)
  PROVE  GoInv'
<1>1. \A m : Placed(Embedding(r, m))
  BY EmbeddingIsPlaced DEF Embedding, Pin
<1> QED
  BY <1>1, OneGoesOn DEF Pin

LEMMA CommitGoesOn ==
  ASSUME Inv, GoInv, NEW r \in Requests, NEW new, Commit(r, new)
  PROVE  GoInv'
<1> DEFINE y(q) == [req[q] EXCEPT !.todo = @ \ req[r].gone]
<1>1. \A q \in Requests : req'[q] = IF q = r THEN Idle ELSE y(q)
  BY DEF Commit
<1>2. ASSUME NEW q \in Requests
      PROVE  y(q).at = req[q].at /\ y(q).op = req[q].op /\ y(q).gone = req[q].gone
             /\ (req[q] = Idle => y(q) = Idle)
  <2>1. req[q] \in Request
    BY Facts
  <2>2. Idle = [Idle EXCEPT !.todo = @ \ req[r].gone]
    <3>1. Idle = [at |-> "idle", op |-> "none", docs |-> {}, pieces |-> 0, todo |-> {},
                  gone |-> {}, model |-> NoModel, others |-> {}]
      BY DEF Idle, Asked
    <3> QED
      BY <3>1
  <2>3. y(q).at = req[q].at /\ y(q).op = req[q].op /\ y(q).gone = req[q].gone
    BY <2>1 DEF Request
  <2> QED
    BY <2>2, <2>3
<1>3. ASSUME NEW q \in Requests PROVE Placed(y(q))
  <2>1. Placed(req[q])
    BY DEF GoInv
  <2> HIDE DEF y
  <2> QED
    BY <1>2, <2>1 DEF Placed
<1>4. \A q \in Requests \ {r} : HasConnection(q)' => HasConnection(q)
  <2> HIDE DEF y
  <2> QED
    BY <1>1, <1>2 DEF HasConnection
<1>5. IsFiniteSet(Holders)'
  BY <1>4, FewHolders DEF GoInv
<1> HIDE DEF y
<1> QED
  BY <1>1, <1>3, <1>5, IdleIsPlaced DEF GoInv

LEMMA GoStep == Inv /\ GoInv /\ [Next]_vars => GoInv'
<1> SUFFICES ASSUME Inv, GoInv, [Next]_vars PROVE GoInv'
  OBVIOUS
<1>1. CASE Restart
  <2>1. \A r \in Requests : req'[r] = Idle
    BY <1>1 DEF Restart
  <2>2. Holders' = {}
    BY <2>1, IdleIsPlaced DEF Holders, HasConnection
  <2> QED
    BY <2>1, <2>2, IdleIsPlaced, FS_EmptySet DEF GoInv
<1>2. CASE UNCHANGED vars
  BY <1>2 DEF vars, GoInv, Holders, HasConnection
<1>3. ASSUME NEW r \in Requests, Ask(r) \/ Begin(r) PROVE GoInv'
  BY <1>3, AskGoesOn, BeginGoesOn
<1>4. ASSUME NEW r \in Requests, Proceed(r) PROVE GoInv'
  <2>1. CASE InsertFails(r) \/ Deadlocked(r) \/ Select(r)
    BY <2>1, IdleIsPlaced, OneGoesOn DEF InsertFails, Deadlocked, Select
  <2>2. CASE Forgotten(r) \/ Insert(r)
    BY <2>2, CommitGoesOn DEF Forgotten, Insert
  <2> QED
    BY <1>4, <2>1, <2>2, EmbedsGoesOn, EmbedFailsGoesOn, PinGoesOn, DeleteGoesOn DEF Proceed
<1> QED
  BY <1>1, <1>2, <1>3, <1>4 DEF Next

LEMMA GoInit == Init => GoInv
<1> SUFFICES ASSUME Init PROVE GoInv
  OBVIOUS
<1>1. \A r \in Requests : req[r] = Idle
  BY DEF Init
<1>2. Holders = {}
  BY <1>1, IdleIsPlaced DEF Holders, HasConnection
<1> QED
  BY <1>1, <1>2, IdleIsPlaced, FS_EmptySet DEF GoInv

\* A delete that cannot go on waits for another request's rows.
LEMMA DeleteIsBlocked ==
  ASSUME Inv, NEW r \in Requests, req[r].at = "delete", ~CanGoOn(r)
  PROVE  \E q \in Requests : Blocks(q, r)
<1>1. /\ req[r].todo # {} \/ (req[r].op = "put" /\ ~OwnConnection)
      /\ \A d \in Docs : In({d}, req[r].todo) = {} \/ In({d}, req[r].todo) \cap Locked(r) # {}
  BY DEF CanGoOn
<1>2. PICK row \in req[r].todo : TRUE
  BY <1>1 DEF OwnConnection
<1>3. row.doc \in Docs /\ row \in In({row.doc}, req[r].todo)
  BY Facts DEF Request, Row, In
<1>4. In({row.doc}, req[r].todo) \cap Locked(r) # {}
  BY <1>3 DEF CanGoOn
<1>5. PICK q \in Requests : req[r].todo \cap req[q].gone # {}
  BY <1>4 DEF In, Locked
<1> QED
  BY <1>5 DEF Blocks

\* An insert that waits has deleted nothing: of a document it has deleted, it sees no row.
LEMMA InsertHoldsNothing ==
  ASSUME Inv, NEW r \in Requests, req[r].at = "insert", ~CanGoOn(r)
  PROVE  req[r].gone = {}
<1>1. Good(req[r], rows) /\ Conflicting(r) # {}
  BY Facts DEF CanGoOn
<1>2. PICK d \in Docs : req[r].docs = {d}
  BY <1>1 DEF Good
<1>3. PICK row \in rows \ req[r].gone : row.doc = d
  <2>1. PICK row \in Seen(r) : \E new \in NewRows(r) : new.doc = row.doc
    BY <1>1 DEF Conflicting
  <2>2. row.doc = d
    BY <1>2, <2>1 DEF NewRows, Version
  <2> QED
    BY <2>1, <2>2 DEF Seen
<1>4. In({d}, req[r].gone) # In({d}, rows)
  BY <1>3 DEF In
<1>5. In({d}, req[r].gone) = {}
  BY <1>1, <1>4 DEF Good, Part
<1> QED
  BY <1>1, <1>2, <1>5 DEF Good, In

\* Of finitely many that are each blocked by one of them, somebody waits for itself: the
\* smallest set that leads nowhere else is a circle.
LEMMA SomeCircle ==
  ASSUME NEW D \in SUBSET Requests, IsFiniteSet(D), D # {},
         \A r \in D : \E q \in Requests : Blocks(q, r),
         \A r \in D : \A q \in Requests : Blocks(q, r) => q \in D
  PROVE  \E r \in D : WaitsForItself(r)
<1> DEFINE Closed(V) == \A r \in V : \A q \in Requests : Blocks(q, r) => q \in V
           candidates == {V \in SUBSET D : V # {} /\ Closed(V)}
           sizes == {Cardinality(V) : V \in candidates}
<1>1. \A V \in candidates : IsFiniteSet(V) /\ Cardinality(V) \in Nat
  BY FS_Subset, FS_CardinalityType
<1>2. D \in candidates
  OBVIOUS
<1>3. sizes \subseteq Nat /\ sizes # {}
  BY <1>1, <1>2
<1>4. PICK n \in sizes : \A m \in sizes : n <= m
  <2> HIDE DEF sizes
  <2> QED
    BY <1>3, LeastExists
<1>5. PICK V \in candidates : n = Cardinality(V)
  BY <1>4
<1>6. PICK r \in V : TRUE
  BY <1>5
<1>7. ASSUME NEW W \in SUBSET Requests, r \notin W,
             \A p \in W \cup {r} : \A q \in Requests : Blocks(q, p) => q \in W
      PROVE  FALSE
  <2> DEFINE U == V \cap W
  <2>1. U \subseteq D /\ U \subseteq V /\ U # V
    BY <1>5, <1>6, <1>7
  <2>2. PICK q \in Requests : Blocks(q, r)
    BY <1>5, <1>6
  <2>3. q \in U
    BY <1>5, <1>6, <1>7, <2>2
  <2>4. Closed(U)
    BY <1>5, <1>7
  <2>5. U \in candidates
    BY <2>1, <2>3, <2>4
  <2>6. IsFiniteSet(V) /\ Cardinality(V) \in Nat /\ U \in SUBSET V /\ U # V
    BY <1>1, <1>5, <2>1
  <2>7. Cardinality(U) <= Cardinality(V) /\ Cardinality(U) # Cardinality(V)
    <3> HIDE DEF U
    <3> QED
      BY ONLY <2>6, FS_Subset
  <2>8. Cardinality(U) \in Nat /\ Cardinality(V) \in Nat /\ n <= Cardinality(U)
    BY <1>1, <1>4, <1>5, <2>5
  <2> QED
    BY <1>5, <2>7, <2>8
<1>8. WaitsForItself(r)
  BY <1>7 DEF WaitsForItself
<1> QED
  BY <1>5, <1>6, <1>8

LEMMA OneCanGoOn ==
  ASSUME Inv, GoInv
  PROVE  SomebodyGoesOn
<1> SUFFICES ASSUME NEW s \in Requests, req[s] # Idle, \A r \in Requests : ~CanGoOn(r)
             PROVE  FALSE
  BY DEF SomebodyGoesOn
<1> DEFINE D == {r \in Requests : req[r].at = "delete"}
<1>1. \A r \in Requests : req[r] \in Request /\ Placed(req[r])
  BY Facts DEF GoInv
<1>2. ASSUME NEW r \in Requests
      PROVE  req[r] = Idle \/ req[r].at \in {"pool", "delete", "insert"}
  <2>1. req[r].at \in Stages
    BY <1>1 DEF Request
  <2>2. req[r].at \notin {"embed", "select"}
    BY DEF CanGoOn
  <2> QED
    BY <1>1, <2>1, <2>2 DEF Stages, Placed
<1>3. ASSUME NEW q \in Requests, req[q].gone # {} PROVE q \in D
  BY <1>1, <1>2, <1>3, InsertHoldsNothing, IdleIsPlaced DEF Placed
<1>4. PICK r \in Requests : req[r].at \in {"delete", "insert"}
  <2>1. CASE req[s].at = "pool"
    <3>1. ~(Cardinality(Holders) < MAX_CONNECTIONS)
      BY <2>1 DEF CanGoOn, FreeConnection, Holders
    <3>2. ASSUME Holders = {} PROVE FALSE
      <4>1. Cardinality(Holders) = 0
        BY ONLY <3>2, FS_EmptySet
      <4>2. 0 < MAX_CONNECTIONS
        BY LimitsType
      <4> QED
        BY ONLY <3>1, <4>1, <4>2
    <3>3. PICK r \in Requests : HasConnection(r)
      BY <3>2 DEF Holders
    <3>4. req[r].at \in {"delete", "insert"}
      BY <1>2, <3>3, IdleIsPlaced DEF HasConnection
    <3> QED
      BY <3>4
  <2> QED
    BY <1>2, <2>1
<1>5. D # {}
  <2>1. CASE req[r].at = "insert"
    <3>1. Conflicting(r) # {} /\ Conflicting(r) \subseteq Locked(r)
      BY <2>1 DEF CanGoOn
    <3>2. PICK q \in Requests : req[q].gone # {}
      BY <3>1 DEF Locked
    <3> QED
      BY <1>3, <3>2
  <2> QED
    BY <1>4, <2>1
<1>6. IsFiniteSet(D)
  <2>1. D \subseteq Holders
    BY DEF Holders, HasConnection
  <2> QED
    BY <2>1, FS_Subset DEF GoInv
<1>7. \A p \in D : \E q \in Requests : Blocks(q, p)
  BY DeleteIsBlocked
<1>8. \A p \in D : \A q \in Requests : Blocks(q, p) => q \in D
  BY <1>3 DEF Blocks
<1>9. PICK p \in D : WaitsForItself(p)
  <2> HIDE DEF D
  <2>1. D \in SUBSET Requests
    BY DEF D
  <2> QED
    BY <1>5, <1>6, <1>7, <1>8, <2>1, SomeCircle
<1>10. CanGoOn(p)
  BY <1>9 DEF CanGoOn
<1> QED
  BY <1>10

\* Over any number of puts and deletes on a bounded pool of connections there is no
\* deadlock but the circles of deletes, which PostgreSQL ends: nobody who keeps a
\* connection or a lock waits for a connection.
THEOREM NoStandstill == Spec => []SomebodyGoesOn
<1>1. Init => Inv /\ GoInv
  BY InitOK, GoInit
<1>2. Inv /\ GoInv /\ [Next]_vars => (Inv /\ GoInv)'
  BY StepOK, GoStep
<1>3. Inv /\ GoInv => SomebodyGoesOn
  BY OneCanGoOn
<1> QED
  BY <1>1, <1>2, <1>3, PTL DEF Spec

(******************************* one model *******************************)

\* A put into the collection that has its vectors, or is about to get them, has
\* them of this model.
Agrees(x, c, m) ==
  x.op = "put" /\ x.docs \subseteq c /\ x.at \in {"embed", "insert"}
    => x.model = m /\ x.others = {}

LEMMA AgreeAll ==
  ASSUME NEW c, NEW m
  PROVE  /\ OfOneModel(c, m) <=> /\ \A row \in In(c, rows) : row.model = m
                                 /\ \A r \in Requests : Agrees(req[r], c, m)
         /\ OfOneModel(c, m)' <=> /\ \A row \in In(c, rows') : row.model = m
                                  /\ \A r \in Requests : Agrees(req'[r], c, m)
BY DEF OfOneModel, Agrees, In

\* One request goes on, and the rows stay.
LEMMA OneAgrees ==
  ASSUME Inv, NEW c, NEW m, OfOneModel(c, m), NEW r \in Requests, NEW x,
         req' = [req EXCEPT ![r] = x], rows' = rows, Agrees(x, c, m)
  PROVE  OfOneModel(c, m)'
<1>1. \A q \in Requests : req'[q] = x \/ req'[q] = req[q]
  BY DEF Inv, RequestsInv
<1> QED
  BY <1>1, AgreeAll

LEMMA IdleAgrees ==
  ASSUME NEW c, NEW m
  PROVE  Agrees(Idle, c, m)
BY DEF Agrees, Idle, Asked

\* All the rows seen are of one model: the collection's is that one.
LEMMA OnlyModel ==
  ASSUME NEW c, NEW table, NEW m, In(c, table) # {}, \A row \in In(c, table) : row.model = m
  PROVE  CollectionModels(c, table) \subseteq {m}
BY DEF CollectionModels

LEMMA CollectionIs ==
  ASSUME NEW c \in Collections, NEW d \in c
  PROVE  CollectionOf(d) = c
<1>1. CollectionOf(d) \in Collections /\ d \in CollectionOf(d)
  BY DEF CollectionOf
<1> QED
  BY <1>1, CollectionsType

LEMMA EmbedsAgrees ==
  ASSUME Inv, NEW c, NEW m, OfOneModel(c, m), NEW r \in Requests, Embeds(r)
  PROVE  OfOneModel(c, m)'
<1>1. req[r] \in Request /\ req[r].at = "embed" /\ Agrees(req[r], c, m)
  BY Facts, AgreeAll DEF Embeds
<1>2. req' = [req EXCEPT ![r] = After(r)] /\ rows' = rows
  BY DEF Embeds
<1>3. Agrees(After(r), c, m)
  <2>1. CASE req[r].op = "put"
    <3>1. After(r) = [req[r] EXCEPT !.at = "insert", !.others = {}]
      BY <2>1 DEF After
    <3>2. /\ After(r).op = req[r].op /\ After(r).docs = req[r].docs
          /\ After(r).model = req[r].model /\ After(r).others = {}
      BY <1>1, <3>1 DEF Request
    <3> QED
      BY <1>1, <3>2 DEF Agrees
  <2>2. CASE req[r].op = "search"
    <3>1. After(r) = [req[r] EXCEPT !.at = "select"]
      BY <2>2 DEF After
    <3>2. After(r).at = "select"
      BY <1>1, <3>1 DEF Request
    <3> QED
      BY <3>2 DEF Agrees
  <2>3. CASE req[r].op \notin {"put", "search"}
    BY <2>3, IdleAgrees DEF After
  <2> QED
    BY <2>1, <2>2, <2>3
<1> QED
  BY <1>2, <1>3, OneAgrees

LEMMA EmbedFailsAgrees ==
  ASSUME Inv, NEW c, NEW m, OfOneModel(c, m), NEW r \in Requests, EmbedFails(r)
  PROVE  OfOneModel(c, m)'
<1> DEFINE left == req[r].others
<1>1. req[r] \in Request /\ req[r].at = "embed" /\ Agrees(req[r], c, m) /\ rows' = rows
  BY Facts, AgreeAll DEF EmbedFails
<1>2. CASE left = {}
  BY <1>1, <1>2, IdleAgrees, OneAgrees DEF EmbedFails
<1>3. CASE left # {}
  <2> DEFINE x == Asking(req[r], First(left), left \ {First(left)})
  <2>1. req' = [req EXCEPT ![r] = x]
    BY <1>3 DEF EmbedFails
  <2>2. x.op = req[r].op /\ x.docs = req[r].docs
    BY <1>1 DEF Asking, Request
  <2>3. Agrees(x, c, m)
    <3> HIDE DEF x
    <3> QED
      BY <1>1, <1>3, <2>2 DEF Agrees
  <2> QED
    BY <1>1, <2>1, <2>3, OneAgrees
<1> QED
  BY <1>2, <1>3

LEMMA BeginAgrees ==
  ASSUME Inv, NEW c, NEW m, OfOneModel(c, m), NEW r \in Requests, Begin(r)
  PROVE  OfOneModel(c, m)'
<1>1. req[r] \in Request /\ rows' = rows
  BY Facts DEF Begin
<1>2. CASE req' = [req EXCEPT ![r].at = "delete", ![r].todo = In(req[r].docs, rows)]
  <2> DEFINE x == [req[r] EXCEPT !.at = "delete", !.todo = In(req[r].docs, rows)]
  <2>1. req' = [req EXCEPT ![r] = x] /\ x.at = "delete"
    BY <1>1, <1>2 DEF Request
  <2>2. Agrees(x, c, m)
    BY <2>1 DEF Agrees
  <2> QED
    BY <1>1, <2>1, <2>2, OneAgrees
<1>3. ASSUME NEW k, req[r].op # "put" PROVE Agrees(Embedding(r, k), c, m)
  <2>1. Embedding(r, k).op = req[r].op
    BY <1>1 DEF Embedding, Asking, Request
  <2> QED
    BY <1>3, <2>1 DEF Agrees
<1>4. CASE req[r].op # "put" /\ \E k : req' = [req EXCEPT ![r] = IF k = NoModel THEN Idle ELSE Embedding(r, k)]
  <2>1. PICK k : req' = [req EXCEPT ![r] = IF k = NoModel THEN Idle ELSE Embedding(r, k)]
    BY <1>4
  <2>2. Agrees(IF k = NoModel THEN Idle ELSE Embedding(r, k), c, m)
    BY <1>3, <1>4, IdleAgrees
  <2> QED
    BY <1>1, <2>1, <2>2, OneAgrees
<1>5. CASE req[r].op # "put" /\ req' = [req EXCEPT ![r] = Embedding(r, NoModel)]
  BY <1>1, <1>3, <1>5, OneAgrees
<1> QED
  BY <1>2, <1>4, <1>5 DEF Begin

LEMMA DeleteAgrees ==
  ASSUME Inv, NEW c, NEW m, OfOneModel(c, m), NEW r \in Requests, NEW d, Delete(r, d)
  PROVE  OfOneModel(c, m)'
<1> DEFINE reached == In({d}, req[r].todo)
           x == [req[r] EXCEPT !.todo = @ \ reached, !.gone = @ \cup reached]
<1>1. req' = [req EXCEPT ![r] = x] /\ rows' = rows
  BY DEF Delete
<1>2. x.at = "delete"
  BY Facts DEF Delete, Request
<1>3. Agrees(x, c, m)
  <2> HIDE DEF x
  <2> QED
    BY <1>2 DEF Agrees
<1> QED
  BY <1>1, <1>3, OneAgrees

\* A put asks for the collection's model, unless it finds no row of it.
LEMMA PinAgrees ==
  ASSUME Inv, NEW c \in Collections, NEW m \in Models, OfOneModel(c, m),
         NEW r \in Requests, Pin(r)
  PROVE  OfOneModel(c, m)' \/ FindsNothing(r, c)
<1>1. /\ req[r] \in Request /\ Good(req[r], rows) /\ rows' = rows
      /\ req[r].op = "put" /\ req[r].at = "delete"
  BY Facts DEF Pin, TableBeforeInsert
<1>2. PICK d \in req[r].docs : \E k \in CollectionModels(CollectionOf(d), Seen(r)) :
        req' = [req EXCEPT ![r] = Embedding(r, k)]
  BY DEF Pin
<1>3. PICK k \in CollectionModels(CollectionOf(d), Seen(r)) :
        req' = [req EXCEPT ![r] = Embedding(r, k)]
  BY <1>2
<1>4. /\ Embedding(r, k).op = "put" /\ Embedding(r, k).docs = req[r].docs
      /\ Embedding(r, k).at = "embed"
  BY <1>1 DEF Embedding, Asking, Request
<1>5. req'[r] = Embedding(r, k)
  BY <1>3 DEF Inv, RequestsInv
<1>6. CASE ~(req[r].docs \subseteq c)
  <2>1. Agrees(Embedding(r, k), c, m)
    BY <1>4, <1>6 DEF Agrees
  <2> QED
    BY <1>1, <1>3, <2>1, OneAgrees
<1>7. CASE req[r].docs \subseteq c /\ In(c, Seen(r)) = {}
  BY <1>1, <1>4, <1>5, <1>7 DEF FindsNothing
<1>8. CASE req[r].docs \subseteq c /\ In(c, Seen(r)) # {}
  <2>1. CollectionOf(d) = c
    BY <1>8, CollectionIs
  <2>2. \A row \in In(c, Seen(r)) : row.model = m
    BY AgreeAll DEF In, Seen
  <2>3. k = m
    <3>1. k \in CollectionModels(c, Seen(r))
      BY <1>3, <2>1
    <3>2. CollectionModels(c, Seen(r)) \subseteq {m}
      BY <1>8, <2>2, OnlyModel
    <3> QED
      BY <3>1, <3>2
  <2>4. Embedding(r, m) = [req[r] EXCEPT !.at = "embed", !.model = m, !.others = {}]
    BY ModelsThere DEF Embedding, Asking
  <2>5. Embedding(r, m).model = m /\ Embedding(r, m).others = {}
    BY <1>1, <2>4 DEF Request
  <2>6. Agrees(Embedding(r, m), c, m)
    BY <2>5 DEF Agrees
  <2> QED
    BY <1>1, <1>3, <2>3, <2>6, OneAgrees
<1> QED
  BY <1>6, <1>7, <1>8

LEMMA CommitAgrees ==
  ASSUME Inv, NEW c, NEW m, OfOneModel(c, m), NEW r \in Requests, NEW new, Commit(r, new),
         \A row \in In(c, new) : row.model = m
  PROVE  OfOneModel(c, m)'
<1> DEFINE y(q) == [req[q] EXCEPT !.todo = @ \ req[r].gone]
<1>1. \A q \in Requests : req'[q] = IF q = r THEN Idle ELSE y(q)
  BY DEF Commit
<1>2. ASSUME NEW q \in Requests PROVE Agrees(y(q), c, m)
  <2>1. req[q] \in Request /\ Agrees(req[q], c, m)
    BY Facts, AgreeAll
  <2>2. /\ y(q).at = req[q].at /\ y(q).op = req[q].op /\ y(q).docs = req[q].docs
        /\ y(q).model = req[q].model /\ y(q).others = req[q].others
    BY <2>1 DEF Request
  <2> HIDE DEF y
  <2> QED
    BY <2>1, <2>2 DEF Agrees
<1>3. \A row \in In(c, rows') : row.model = m
  BY AgreeAll DEF Commit, In
<1> HIDE DEF y
<1>4. \A q \in Requests : Agrees(req'[q], c, m)
  BY <1>1, <1>2, IdleAgrees
<1> QED
  BY <1>3, <1>4, AgreeAll

LEMMA InsertAgrees ==
  ASSUME Inv, NEW c, NEW m, OfOneModel(c, m), NEW r \in Requests, Insert(r)
  PROVE  OfOneModel(c, m)'
<1>1. Good(req[r], rows) /\ req[r].op = "put" /\ req[r].at = "insert" /\ Agrees(req[r], c, m)
  BY Facts, AgreeAll DEF Insert, Good
<1>2. PICK d \in Docs : req[r].docs = {d}
  BY <1>1 DEF Good
<1>3. \A row \in NewRows(r) : row.doc = d /\ row.model = req[r].model
  BY <1>2 DEF NewRows, Version
<1>4. ASSUME NEW row \in In(c, NewRows(r)) PROVE row.model = m
  <2>1. d \in c /\ row.model = req[r].model
    BY <1>3 DEF In
  <2>2. req[r].docs \subseteq c
    BY <1>2, <2>1
  <2> QED
    BY <1>1, <2>1, <2>2 DEF Agrees
<1> QED
  BY <1>4, CommitAgrees DEF Insert

\* app.py: "One vector space per collection".  A put that finds a row in its collection
\* is embedded by that row's model or not at all.  So only a put that finds none can
\* bring in a second model, over any number of puts, deletes and failing models.
THEOREM OneModelStays == Spec => OneModelKept
<1>1. Inv /\ [Next]_vars
        => [\A c \in Collections, m \in Models :
              OfOneModel(c, m) => OfOneModel(c, m)' \/ \E r \in Requests : FindsNothing(r, c)]_vars
  <2> SUFFICES ASSUME Inv, Next, NEW c \in Collections, NEW m \in Models, OfOneModel(c, m)
               PROVE  OfOneModel(c, m)' \/ \E r \in Requests : FindsNothing(r, c)
    OBVIOUS
  <2>1. CASE Restart
    <3>1. rows' = rows /\ \A r \in Requests : req'[r] = Idle
      BY <2>1 DEF Restart
    <3> QED
      BY <3>1, IdleAgrees, AgreeAll
  <2>2. ASSUME NEW r \in Requests, Ask(r) PROVE OfOneModel(c, m)'
    <3>1. PICK job \in Jobs[r] : req' = [req EXCEPT ![r] = job] /\ rows' = rows
      BY <2>2 DEF Ask
    <3>2. job = Asked(job.op, job.docs, job.pieces)
      BY JobsType
    <3>3. job.at = "pool"
      BY <3>2 DEF Asked
    <3>4. Agrees(job, c, m)
      BY <3>3 DEF Agrees
    <3> QED
      BY <3>1, <3>4, OneAgrees
  <2>3. ASSUME NEW r \in Requests, InsertFails(r) \/ Deadlocked(r) \/ Select(r)
        PROVE  OfOneModel(c, m)'
    BY <2>3, IdleAgrees, OneAgrees DEF InsertFails, Deadlocked, Select
  <2>4. ASSUME NEW r \in Requests, Forgotten(r) PROVE OfOneModel(c, m)'
    <3>1. Commit(r, {}) /\ In(c, {}) = {}
      BY <2>4 DEF Forgotten, In
    <3> QED
      BY <3>1, CommitAgrees
  <2>5. ASSUME NEW r \in Requests, Proceed(r)
        PROVE  OfOneModel(c, m)' \/ FindsNothing(r, c)
    BY <2>3, <2>4, <2>5, EmbedsAgrees, EmbedFailsAgrees, PinAgrees, InsertAgrees, DeleteAgrees
       DEF Proceed
  <2> QED
    BY <2>1, <2>2, <2>5, BeginAgrees DEF Next
<1>2. Init => Inv
  BY InitOK
<1>3. Inv /\ [Next]_vars => Inv'
  BY StepOK
<1> QED
  BY <1>1, <1>2, <1>3, PTL DEF Spec, OneModelKept

(******************************* chunk_text ******************************)

LEMMA MaxIs ==
  ASSUME NEW S, S \subseteq Nat, S # {}, NEW top \in Nat, \A x \in S : x <= top
  PROVE  Max(S) \in S
<1> DEFINE below == {top - x : x \in S}
<1>1. below \subseteq Nat /\ below # {}
  <2>1. \A x \in S : x \in Nat /\ top - x \in Nat
    OBVIOUS
  <2> QED
    BY <2>1
<1>2. PICK d \in below : \A e \in below : d <= e
  <2> HIDE DEF below
  <2> QED
    BY <1>1, LeastExists
<1>3. PICK x \in S : d = top - x
  OBVIOUS
<1>4. ASSUME NEW y \in S PROVE x >= y
  <2>1. top - x <= top - y /\ x \in Nat /\ y \in Nat
    BY <1>2, <1>3
  <2> QED
    BY <2>1
<1> QED
  BY <1>4 DEF Max

\* Where a piece ends: past its start, within its size and, unless it is the last,
\* far enough for the overlap.
LEMMA EndIs ==
  ASSUME NEW n \in Nat, NEW breaks \in SUBSET Breaks, NEW start \in 0..(n - 1)
  PROVE  /\ End(n, breaks, start) \in (start + 1)..n
         /\ End(n, breaks, start) <= start + CHUNK
         /\ End(n, breaks, start) # n => start + OVERLAP < End(n, breaks, start)
<1> DEFINE half == CHUNK \div 2
           full == Full(n, start)
           cuts == {b[1] : b \in {c \in breaks : c[1] > start + half /\ c[1] + c[2] <= full}}
           end  == End(n, breaks, start)
<1>1. CHUNK \in Nat /\ CHUNK > 0 /\ half \in Nat /\ half < CHUNK /\ OVERLAP \in Nat /\ OVERLAP <= half
  BY ChunkType
<1>2. /\ full \in (start + 1)..n /\ full <= start + CHUNK
      /\ full # n => full = start + CHUNK
  BY <1>1 DEF Full
<1>3. end = IF full = n \/ cuts = {} THEN full ELSE Max(cuts)
  BY DEF End
<1>4. CASE full = n \/ cuts = {}
  <2>1. end = full
    BY <1>3, <1>4
  <2>2. start + OVERLAP < start + CHUNK
    BY <1>1
  <2> HIDE DEF end, full, half, cuts
  <2> QED
    BY <1>2, <2>1, <2>2 DEF end
<1>5. CASE full # n /\ cuts # {}
  <2>1. \A c \in breaks : c[1] \in Nat /\ c[2] \in Nat
    BY DEF Breaks
  <2>2. \A p \in cuts : p \in Nat /\ p > start + half /\ p <= full
    BY <1>1, <1>2, <2>1
  <2>3. Max(cuts) \in cuts
    <3>1. cuts \subseteq Nat /\ full \in Nat /\ \A p \in cuts : p <= full
      BY <1>2, <2>2
    <3> HIDE DEF cuts, full
    <3> QED
      BY <1>5, <3>1, MaxIs
  <2>4. end \in Nat /\ end > start + half /\ end <= full
    BY <1>3, <1>5, <2>2, <2>3
  <2> HIDE DEF end, full, half, cuts
  <2> QED
    BY <1>1, <1>2, <2>4 DEF end
<1> QED
  BY <1>4, <1>5

LEMMA NextIs ==
  ASSUME NEW n \in Nat, NEW breaks \in SUBSET Breaks, NEW start \in 0..(n - 1),
         End(n, breaks, start) # n
  PROVE  /\ NextStart(start, End(n, breaks, start)) = End(n, breaks, start) - OVERLAP
         /\ NextStart(start, End(n, breaks, start)) \in (start + 1)..(n - 1)
<1>1. OVERLAP \in Nat
  BY ChunkType
<1>2. /\ End(n, breaks, start) \in (start + 1)..n
      /\ start + OVERLAP < End(n, breaks, start)
  BY EndIs
<1> QED
  BY <1>1, <1>2 DEF NextStart

\* The pieces from start on, as the recursive function of Pieces has them.
Step(n, breaks, from, start) ==
  {<<start, End(n, breaks, start)>>}
    \cup IF End(n, breaks, start) = n THEN {}
         ELSE from[NextStart(start, End(n, breaks, start))]

Cuts(n, breaks, from) == from = [start \in 0..n |-> Step(n, breaks, from, start)]

\* There is such a function: from the last piece to the first.
LEMMA CutsExist ==
  ASSUME NEW n \in Nat, NEW breaks \in SUBSET Breaks
  PROVE  \E from : Cuts(n, breaks, from)
<1> DEFINE Some(k, from) == from = [start \in (n - k)..n |-> Step(n, breaks, from, start)]
           bad == {k \in 0..n : ~\E from : Some(k, from)}
<1>1. End(n, breaks, n) = n
  <2>1. Full(n, n) = n
    BY ChunkType DEF Full
  <2> QED
    BY <2>1 DEF End
<1>2. ASSUME NEW start \in 0..n, End(n, breaks, start) # n
      PROVE  NextStart(start, End(n, breaks, start)) \in (start + 1)..n
  <2>1. start \in 0..(n - 1)
    BY <1>1, <1>2
  <2>2. NextStart(start, End(n, breaks, start)) \in (start + 1)..(n - 1)
    BY <1>2, <2>1, NextIs
  <2> QED
    BY <2>2
<1>3. 0 \notin bad
  <2> DEFINE from == [start \in (n - 0)..n |-> {<<n, n>>}]
  <2>1. \A start \in (n - 0)..n : start = n
    OBVIOUS
  <2>2. \A start \in (n - 0)..n : Step(n, breaks, from, start) = {<<n, n>>}
    BY <1>1, <2>1 DEF Step
  <2>3. Some(0, from)
    BY <2>2
  <2> QED
    BY <2>3
<1>4. ASSUME NEW k \in 0..(n - 1), k \notin bad PROVE k + 1 \notin bad
  <2>1. PICK old : Some(k, old)
    BY <1>4
  <2> DEFINE new == [start \in (n - (k + 1))..n |-> Step(n, breaks, old, start)]
  <2>2. \A start \in (n - k)..n :
          start \in (n - (k + 1))..n /\ new[start] = Step(n, breaks, old, start)
    BY <1>4
  <2>3. \A start \in (n - k)..n : new[start] = old[start]
    BY <2>1, <2>2
  <2>4. ASSUME NEW start \in (n - (k + 1))..n
        PROVE  Step(n, breaks, new, start) = Step(n, breaks, old, start)
    <3>1. start \in 0..n
      BY <1>4
    <3>2. CASE End(n, breaks, start) = n
      BY <3>2 DEF Step
    <3>3. CASE End(n, breaks, start) # n
      <4>1. NextStart(start, End(n, breaks, start)) \in (start + 1)..n
        BY <1>2, <3>1, <3>3
      <4>2. NextStart(start, End(n, breaks, start)) \in (n - k)..n
        BY <1>4, <2>4, <4>1
      <4> QED
        BY <2>3, <4>2 DEF Step
    <3> QED
      BY <3>2, <3>3
  <2>5. Some(k + 1, new)
    BY <2>4
  <2> HIDE DEF new, Some
  <2> QED
    BY <2>5
<1>5. bad = {}
  <2> SUFFICES ASSUME bad # {} PROVE FALSE
    OBVIOUS
  <2>1. PICK k \in bad : \A m \in bad : k <= m
    <3>1. bad \subseteq Nat
      OBVIOUS
    <3> HIDE DEF bad
    <3> QED
      BY <3>1, LeastExists
  <2>2. k \in 0..n
    OBVIOUS
  <2> HIDE DEF bad
  <2>3. k # 0 /\ k - 1 \in 0..(n - 1) /\ k - 1 \notin bad
    BY <1>3, <2>1, <2>2
  <2>4. k - 1 + 1 \notin bad
    BY <1>4, <2>3
  <2> QED
    BY <2>1, <2>2, <2>4
<1>6. PICK from : Some(n, from)
  <2>1. n \in 0..n
    OBVIOUS
  <2> QED
    BY <1>5, <2>1
<1>7. n - n = 0
  OBVIOUS
<1> QED
  BY <1>6, <1>7 DEF Cuts

LEMMA PiecesIs ==
  ASSUME NEW n \in Nat, NEW breaks \in SUBSET Breaks, n # 0
  PROVE  \E from : Cuts(n, breaks, from) /\ Pieces(n, breaks) = from[0]
<1> DEFINE it == CHOOSE from : Cuts(n, breaks, from)
<1>1. Cuts(n, breaks, it)
  BY CutsExist
<1>2. Pieces(n, breaks) = it[0]
  BY DEF Pieces, Cuts, Step
<1> QED
  BY <1>1, <1>2

\* Every piece is one, and the passages from start on are whole.
WholeFrom(pieces, n, start) ==
  /\ \A p \in pieces : p[1] < p[2] /\ p[2] <= p[1] + CHUNK
  /\ \A x \in start..(n - 1) : \E p \in pieces :
       p[1] <= x /\ (x + OVERLAP <= p[2] \/ p[2] = n)

LEMMA WholeStep ==
  ASSUME NEW n \in Nat, NEW breaks \in SUBSET Breaks, NEW from, Cuts(n, breaks, from),
         NEW start \in 0..(n - 1),
         \A later \in (start + 1)..(n - 1) : WholeFrom(from[later], n, later)
  PROVE  WholeFrom(from[start], n, start)
<1> DEFINE end == End(n, breaks, start)
           next == NextStart(start, end)
           first == <<start, end>>
<1>1. /\ end \in (start + 1)..n /\ end <= start + CHUNK
      /\ end # n => next = end - OVERLAP /\ next \in (start + 1)..(n - 1)
  BY EndIs, NextIs
<1>2. from[start] = {first} \cup IF end = n THEN {} ELSE from[next]
  <2>1. start \in 0..n
    OBVIOUS
  <2>2. from[start] = Step(n, breaks, from, start)
    BY <2>1 DEF Cuts
  <2> QED
    BY <2>2 DEF Step
<1> HIDE DEF end, next
<1>3. first[1] = start /\ first[2] = end /\ OVERLAP \in Nat /\ CHUNK \in Nat
  BY ChunkType
<1> HIDE DEF first
<1>4. CASE end = n
  <2>1. from[start] = {first}
    BY <1>2, <1>4
  <2> QED
    BY <1>1, <1>3, <1>4, <2>1 DEF WholeFrom
<1>5. CASE end # n
  <2>1. from[start] = {first} \cup from[next]
    BY <1>2, <1>5
  <2>2. WholeFrom(from[next], n, next)
    BY <1>1, <1>5
  <2>3. \A p \in from[start] : p[1] < p[2] /\ p[2] <= p[1] + CHUNK
    BY <1>1, <1>3, <2>1, <2>2 DEF WholeFrom
  <2>4. ASSUME NEW x \in start..(n - 1)
        PROVE  \E p \in from[start] : p[1] <= x /\ (x + OVERLAP <= p[2] \/ p[2] = n)
    <3>1. CASE x < next
      <4>1. x + OVERLAP <= end
        BY <1>1, <1>3, <1>5, <3>1
      <4> QED
        BY <1>3, <2>1, <4>1
    <3>2. CASE x >= next
      <4>1. x \in next..(n - 1)
        BY <1>1, <1>5, <3>2
      <4> QED
        BY <2>1, <2>2, <4>1 DEF WholeFrom
    <3> QED
      BY <1>1, <1>5, <3>1, <3>2
  <2> QED
    BY <2>3, <2>4 DEF WholeFrom
<1> QED
  BY <1>4, <1>5

LEMMA WholePieces ==
  ASSUME NEW n \in Nat, NEW breaks \in SUBSET Breaks
  PROVE  WholeIn(Pieces(n, breaks), n)
<1>1. CASE n = 0
  <2>1. Pieces(n, breaks) = {}
    BY <1>1 DEF Pieces
  <2> QED
    BY <1>1, <2>1 DEF WholeIn
<1>2. CASE n # 0
  <2>1. PICK from : Cuts(n, breaks, from) /\ Pieces(n, breaks) = from[0]
    BY <1>2, PiecesIs
  <2> DEFINE bad == {d \in 1..n : ~WholeFrom(from[n - d], n, n - d)}
  <2>2. bad = {}
    <3> SUFFICES ASSUME bad # {} PROVE FALSE
      OBVIOUS
    <3>1. PICK d \in bad : \A e \in bad : d <= e
      <4>1. bad \subseteq Nat
        OBVIOUS
      <4> HIDE DEF bad
      <4> QED
        BY <4>1, LeastExists
    <3>2. d \in 1..n /\ ~WholeFrom(from[n - d], n, n - d)
      OBVIOUS
    <3>3. ASSUME NEW later \in (n - d + 1)..(n - 1) PROVE WholeFrom(from[later], n, later)
      <4>1. n - later \in 1..n /\ n - later < d /\ n - (n - later) = later
        BY <3>2
      <4>2. n - later \notin bad
        <5>1. n - later \in bad => d <= n - later
          BY <3>1
        <5> HIDE DEF bad
        <5> QED
          BY <3>2, <4>1, <5>1
      <4> QED
        BY <4>1, <4>2
    <3>4. n - d \in 0..(n - 1)
      BY <3>2
    <3> QED
      BY <2>1, <3>2, <3>3, <3>4, WholeStep
  <2>3. WholeFrom(from[0], n, 0)
    <3>1. n \in 1..n /\ n - n = 0
      BY <1>2
    <3> QED
      BY <2>2, <3>1
  <2> QED
    BY <2>1, <2>3 DEF WholeFrom, WholeIn
<1> QED
  BY <1>1, <1>2

\* app.py, chunk_text: of no text, wherever its paragraphs and sentences end, is a
\* passage lost between two pieces; for every size of a piece and every overlap of
\* half of it at most.
THEOREM NoPassageLost == AnyText => []PassagesStayWhole
<1> DEFINE TextInv == text.length \in Nat /\ text.breaks \in SUBSET Breaks
<1>1. text = NoText => TextInv
  BY DEF NoText
<1>2. TextInv /\ [Writes \/ PutsAway]_text => TextInv'
  <2>1. ASSUME TextInv, Writes PROVE TextInv'
    BY <2>1 DEF Writes
  <2> QED
    BY <2>1 DEF PutsAway, NoText
<1>3. TextInv => PassagesStayWhole
  BY WholePieces DEF PassagesStayWhole
<1> QED
  BY <1>1, <1>2, <1>3, PTL DEF AnyText
=============================================================================
