----------------------------- MODULE IndexShim -----------------------------
(***************************************************************************)
(* services/index-shim/app.py: documents of a collection as rows of one    *)
(* table, each with the vector some embedding model made of it.  A put is  *)
(* one transaction around a call of the gateway; every request in the      *)
(* database holds a connection of the pool.                                *)
(*                                                                         *)
(* PostgreSQL (external) is READ COMMITTED: a DELETE goes by the rows      *)
(* committed when it began, waits for transactions that have deleted some  *)
(* of them and passes over those that then are gone; an INSERT of a key    *)
(* that is being deleted waits too, and of a key that is there fails.      *)
(* Rows of one document are locked together.                               *)
(***************************************************************************)
EXTENDS Integers, Sequences, FiniteSets

CONSTANTS Requests, Nothing,
          Collections,     \* disjoint sets of documents
          Jobs,            \* what each request may be, see Asked
          EMBED_MODELS,    \* in order of preference
          MAX_CONNECTIONS  \* the pool's max_size

ASSUME CollectionsType ==
  \A b, c \in Collections : b = c \/ b \cap c = {}

ASSUME LimitsType ==
  /\ MAX_CONNECTIONS \in Nat \ {0}
  /\ EMBED_MODELS \in Seq(STRING) /\ EMBED_MODELS # <<>>

Docs == UNION Collections
Models == {EMBED_MODELS[i] : i \in DOMAIN EMBED_MODELS}
NoModel == ""

VARIABLES
  rows,        \* committed: [doc, ordinal, of, model]
  preferred,   \* embedder.model
  req          \* what each request is doing

vars == <<rows, preferred, req>>

\* What is asked: op "put", "forget", "search" or "health" with its documents,
\* and for a put the number of pieces, which tells the versions apart.
\* todo are the rows a DELETE has yet to reach, gone those it has deleted in the
\* open transaction; model is the one asked for vectors, others would be next.
Asked(op, docs, pieces) ==
  [at |-> "pool", op |-> op, docs |-> docs, pieces |-> pieces,
   todo |-> {}, gone |-> {}, model |-> NoModel, others |-> {}]

\* A put is of one document, and cut into pieces; an empty one is a "forget".
ASSUME JobsType ==
  /\ NoModel \notin Models
  /\ \A r \in Requests : \A job \in Jobs[r] :
       /\ job = Asked(job.op, job.docs, job.pieces)
       /\ job.op \in {"put", "forget", "search", "health"}
       /\ job.docs \subseteq Docs /\ job.pieces \in Nat
       /\ job.op = "put" => job.pieces > 0 /\ \E d \in Docs : job.docs = {d}

Idle == [Asked("none", {}, 0) EXCEPT !.at = "idle"]

Init == rows = {} /\ preferred = NoModel /\ req = [r \in Requests |-> Idle]

In(docs, table) == {row \in table : row.doc \in docs}

CollectionOf(d) == CHOOSE c \in Collections : d \in c

\* The rows request r sees: committed, without those it has deleted itself.
Seen(r) == rows \ req[r].gone

Locked(r) == UNION {req[q].gone : q \in Requests \ {r}}

(******************************* the pool ********************************)

HasConnection(r) ==
  \/ req[r].at \in {"delete", "insert", "select"}
  \/ req[r].at = "embed" /\ req[r].op # "health"

FreeConnection == Cardinality({r \in Requests : HasConnection(r)}) < MAX_CONNECTIONS

Ask(r) ==
  /\ req[r] = Idle
  /\ \E job \in Jobs[r] : req' = [req EXCEPT ![r] = job]
  /\ UNCHANGED <<rows, preferred>>

(******************************* embedder ********************************)

Count(c, m, table) == Cardinality({row \in In(c, table) : row.model = m})

\* collection_model: a model that holds most rows; a tie goes either way.
CollectionModels(c, table) ==
  IF In(c, table) = {} THEN {NoModel}
  ELSE {m \in {row.model : row \in In(c, table)} :
          \A o \in {row.model : row \in In(c, table)} : Count(c, o, table) <= Count(c, m, table)}

\* The first of some models in the order of preference.
First(some) ==
  EMBED_MODELS[CHOOSE i \in DOMAIN EMBED_MODELS :
    EMBED_MODELS[i] \in some /\ \A j \in 1..(i - 1) : EMBED_MODELS[j] \notin some]

Asking(request, m, others) ==
  [request EXCEPT !.at = "embed", !.model = m, !.others = others]

\* A pinned model is asked alone, the one remembered before the others.
Embedding(r, pinned) ==
  LET m == IF preferred # NoModel THEN preferred ELSE First(Models) IN
  IF pinned # NoModel THEN Asking(req[r], pinned, {}) ELSE Asking(req[r], m, Models \ {m})

Remembers(r) == req[r].op # "health"

\* What follows the vectors.
After(r) ==
  CASE req[r].op = "put"    -> [req[r] EXCEPT !.at = "insert", !.others = {}]
    [] req[r].op = "search" -> [req[r] EXCEPT !.at = "select"]
    [] OTHER                -> Idle

Embeds(r) ==
  /\ req[r].at = "embed"
  /\ preferred' = IF Remembers(r) THEN req[r].model ELSE preferred
  /\ req' = [req EXCEPT ![r] = After(r)]
  /\ UNCHANGED rows

\* The last model that fails makes it 503, and rolls the transaction back.
EmbedFails(r) ==
  /\ req[r].at = "embed"
  /\ preferred' = IF Remembers(r) /\ preferred = req[r].model THEN NoModel ELSE preferred
  /\ LET left == req[r].others IN
     req' = [req EXCEPT ![r] = IF left = {} THEN Idle
                               ELSE Asking(@, First(left), left \ {First(left)})]
  /\ UNCHANGED rows

(************************** put_document, deletes ************************)

\* A connection is free: the first statement begins.
Begin(r) ==
  /\ req[r].at = "pool" /\ FreeConnection
  /\ \/ /\ req[r].op \in {"put", "forget"}
        /\ req' = [req EXCEPT ![r].at = "delete", ![r].todo = In(req[r].docs, rows)]
     \/ /\ req[r].op = "search"
        /\ \E m \in CollectionModels(req[r].docs, rows) :
             req' = [req EXCEPT ![r] = IF m = NoModel THEN Idle ELSE Embedding(r, m)]
     \/ /\ req[r].op = "health"
        /\ req' = [req EXCEPT ![r] = Embedding(r, NoModel)]
  /\ UNCHANGED <<rows, preferred>>

Delete(r, d) ==
  LET reached == In({d}, req[r].todo) IN
  /\ req[r].at = "delete" /\ reached # {} /\ reached \cap Locked(r) = {}
  /\ req' = [req EXCEPT ![r].todo = @ \ reached, ![r].gone = @ \cup reached]
  /\ UNCHANGED <<rows, preferred>>

\* A commit: other deletes pass over the rows that are gone.
Commit(r, new) ==
  /\ rows' = (rows \ req[r].gone) \cup new
  /\ req' = [q \in Requests |->
               IF q = r THEN Idle ELSE [req[q] EXCEPT !.todo = @ \ req[r].gone]]
  /\ UNCHANGED preferred

\* An empty document is a put that ends here as well.
Forgotten(r) ==
  /\ req[r].at = "delete" /\ req[r].op = "forget" /\ req[r].todo = {}
  /\ Commit(r, {})

\* A bug: each statement commits by itself.
DeletedRows(r) == Seen(r)

TableBeforeInsert(r) == rows

\* A bug: collection_model takes a connection of its own from the pool.
AnotherConnection == FreeConnection

OwnConnection == TRUE

\* The old version is deleted: the collection's model is looked up without it.
Pin(r) ==
  /\ req[r].at = "delete" /\ req[r].op = "put" /\ req[r].todo = {}
  /\ OwnConnection
  /\ \E d \in req[r].docs : \E m \in CollectionModels(CollectionOf(d), Seen(r)) :
       req' = [req EXCEPT ![r] = Embedding(r, m)]
  /\ rows' = TableBeforeInsert(r)
  /\ UNCHANGED preferred

\* The rows of a document cut into n pieces.
Version(d, n, m) == {[doc |-> d, ordinal |-> i, of |-> n, model |-> m] : i \in 1..n}

NewRows(r) == UNION {Version(d, req[r].pieces, req[r].model) : d \in req[r].docs}

\* A bug: there is no unique index.
NoneConflicts(r) == {}

Conflicting(r) ==
  {row \in Seen(r) : \E new \in NewRows(r) : new.doc = row.doc /\ new.ordinal = row.ordinal}

Insert(r) ==
  /\ req[r].at = "insert" /\ Conflicting(r) = {}
  /\ Commit(r, NewRows(r))

\* Another put was faster: the unique index refuses, 500 and a rollback.
InsertFails(r) ==
  /\ req[r].at = "insert" /\ Conflicting(r) \ Locked(r) # {}
  /\ req' = [req EXCEPT ![r] = Idle]
  /\ UNCHANGED <<rows, preferred>>

Blocks(q, r) == req[r].at = "delete" /\ req[r].todo \cap req[q].gone # {}

\* r waits for itself: for who blocks it, who blocks them, and so on.
WaitsForItself(r) ==
  \A W \in SUBSET Requests :
    (\A p \in W \cup {r} : \A q \in Requests : Blocks(q, p) => q \in W) => r \in W

\* Deletes that wait for each other in a circle: PostgreSQL rolls one of them back.
Deadlocked(r) ==
  /\ WaitsForItself(r)
  /\ req' = [req EXCEPT ![r] = Idle]
  /\ UNCHANGED <<rows, preferred>>

(********************************* search ********************************)

\* The rows of the model that embedded the query; reranked or not.
Select(r) ==
  /\ req[r].at = "select"
  /\ req' = [req EXCEPT ![r] = Idle]
  /\ UNCHANGED <<rows, preferred>>

\* The container is started again: open transactions are rolled back.
Restart == preferred' = NoModel /\ req' = [r \in Requests |-> Idle] /\ UNCHANGED rows

Proceed(r) ==
  \/ Embeds(r) \/ EmbedFails(r) \/ Forgotten(r) \/ Pin(r)
  \/ Insert(r) \/ InsertFails(r) \/ Deadlocked(r) \/ Select(r)
  \/ \E d \in Docs : Delete(r, d)

Next == Restart \/ \E r \in Requests : Ask(r) \/ Begin(r) \/ Proceed(r)

Spec == Init /\ [][Next]_vars

\* Calls of the gateway are under a time limit, the pool hands connections and
\* PostgreSQL locks to those who wait, in order.
Fairness == \A r \in Requests : SF_vars(Begin(r) \/ Proceed(r))

FairSpec == Spec /\ Fairness
-----------------------------------------------------------------------------
Versions == {job.pieces : job \in UNION {Jobs[r] : r \in Requests}} \X Models

\* The version of a document, if its rows are those of one put, all of them.
Content(d, table) ==
  LET mine  == In({d}, table)
      whole == {v \in Versions : mine = Version(d, v[1], v[2])}
  IN CASE mine = {}                -> Nothing
       [] mine # {} /\ whole = {} -> <<0, "torn">>
       [] OTHER                    -> CHOOSE v \in whole : TRUE

Store == INSTANCE DocumentStore WITH
  content <- [d \in Docs |-> Content(d, rows)],
  forgetting <- UNION {req[r].docs : r \in {q \in Requests : req[q].op = "forget"}}

\* The index implements DocumentStore: whatever puts and deletes of a document
\* meet in the database, and wherever one of them fails, its rows are all those
\* of one put, and an old version is lost only to a new one or a request.
StoreKept == Store!Spec

\* Every request ends: a put keeps a connection and its locks while the gateway
\* embeds, but waits for nobody who waits for it.
EveryRequestEnds == \A r \in Requests : req[r] # Idle ~> req[r] = Idle

\* What Begin or Proceed of a request under way wait for is there.
CanGoOn(r) ==
  LET reaches(d) == In({d}, req[r].todo) IN
  CASE req[r].at = "pool" -> FreeConnection
    [] req[r].at = "delete" ->
         \/ req[r].todo = {} /\ (req[r].op = "put" => OwnConnection)
         \/ \E d \in Docs : reaches(d) # {} /\ reaches(d) \cap Locked(r) = {}
         \/ WaitsForItself(r)
    [] req[r].at = "insert" -> Conflicting(r) = {} \/ Conflicting(r) \ Locked(r) # {}
    [] OTHER -> req[r].at # "idle"

\* While requests are under way, one of them can go on: put_document and the deletes
\* never all wait for connections of the pool and for rows of one another.
SomebodyGoesOn ==
  (\E r \in Requests : req[r] # Idle) => \E r \in Requests : CanGoOn(r)

\* The head of app.py: "A collection holds one embedding model's vectors".
OneModelPerCollection ==
  \A c \in Collections : Cardinality({row.model : row \in In(c, rows)}) <= 1

\* The rows of a collection, and the rows that puts are about to add, have this model.
OfOneModel(c, m) ==
  /\ \A row \in In(c, rows) : row.model = m
  /\ \A r \in Requests :
       req[r].op = "put" /\ req[r].docs \subseteq c /\ req[r].at \in {"embed", "insert"}
         => req[r].model = m /\ req[r].others = {}

\* r looks up the model of a collection that has no row but those it has deleted.
FindsNothing(r, c) ==
  /\ req[r].op = "put" /\ req[r].docs \subseteq c
  /\ req[r].at = "delete" /\ req'[r].at = "embed" /\ In(c, Seen(r)) = {}

\* What is true of it: a collection of one model stays one, whichever models are
\* preferred, fail or come back meanwhile, unless a put finds nothing in it.
OneModelKept ==
  [][\A c \in Collections, m \in Models :
       OfOneModel(c, m) => OfOneModel(c, m)' \/ \E r \in Requests : FindsNothing(r, c)]_vars
=============================================================================
