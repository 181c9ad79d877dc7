--------------------------- MODULE TaggingProofs ---------------------------
(***************************************************************************)
(* Proofs about Tagging, for any number of transactions, tags, requests    *)
(* and rebuilds, and about NaiveBayes, the classifier it uses, for any     *)
(* words, classes and texts.                                               *)
(***************************************************************************)
EXTENDS Tagging, NaiveBayes, FiniteSetTheorems, SequenceTheorems,
        WellFoundedInduction, TLAPS

-----------------------------------------------------------------------------
(* Types.                                                                  *)

\* ApplySimilar has one tag of one transaction when it selects.
Chosen == \A p \in Procs : req[p].at = "select" => \E d \in Docs : req[p].plan = {d}

TablesOK ==
  /\ tags \subseteq Tags
  /\ tx \in [Txs -> [at : {"new", "there", "gone"}, manual : BOOLEAN]]
  /\ tagged \subseteq There \X tags
  /\ rule \in tags \cup {NoTag}
  /\ hand \in [Txs -> SUBSET Tags]
  /\ excused \in [Txs -> BOOLEAN]
RequestsOK == req \in [Procs -> Request] /\ Chosen
BuildsOK ==
  /\ model \in Model
  /\ shared \in Seq(Model)
  /\ due \in [own : Nat, all : Nat]
  /\ build \in [Builders -> Build]
CountsOK == lag \in BOOLEAN /\ started \in Nat /\ faults \in Nat

TypeInv == TablesOK /\ RequestsOK /\ BuildsOK /\ CountsOK

LEMMA TypesIn == TypeInv => TypeOK
  BY DEF TypeInv, TablesOK, RequestsOK, BuildsOK, CountsOK, TypeOK

LEMMA EmptyRows ==
  Idle \in Request /\ NoBuild \in Build /\ NoModel \in Model
  BY DEF Idle, Request, NoBuild, Build, NoModel, Model

LEMMA TrainedOK ==
  ASSUME NEW D, D \subseteq Docs
  PROVE  Trained(D) \in Model
  BY DEF Trained, Model

\* What is learned of what came in.
LEMMA TrainedFromOK ==
  ASSUME tagged \subseteq Docs, NEW all \in BOOLEAN, NEW G \in SUBSET SystemTags, NEW T
  PROVE  /\ TrainedFrom(all, G, T) \in Model
         /\ TrainedFrom(all, G, T).docs \subseteq History(all)
  BY DEF TrainedFrom, History, Model

LEMMA Pairs ==
  ASSUME TablesOK
  PROVE  /\ There \subseteq Txs
         /\ tagged \subseteq Docs
         /\ \A d \in Docs : d = <<d[1], d[2]>> /\ d[1] \in Txs /\ d[2] \in Tags
         /\ \A d \in tagged : d[1] \in There /\ d[2] \in tags
  BY DEF TablesOK, There, Docs

-----------------------------------------------------------------------------
(* The tables.                                                             *)

LEMMA CommitTables ==
  ASSUME TypeInv, NEW p \in Procs, NEW heard \in BOOLEAN, CommitWrite(p, heard)
  PROVE  TablesOK'
<1> DEFINE r == req[p]
           T == r.on \cap There
<1>0. TablesOK /\ r \in Request
  BY DEF TypeInv, RequestsOK
<1>1. r.plan \subseteq Docs /\ \A d \in r.plan : d[1] \in There /\ d[2] \in tags
  BY <1>0 DEF CommitWrite, KeysHold, Request
<1>2. tx' \in [Txs -> [at : {"new", "there", "gone"}, manual : BOOLEAN]]
      /\ \A t \in Txs : tx'[t].at = tx[t].at
  <2>1. tx' = [t \in Txs |-> IF t \in T THEN [tx[t] EXCEPT !.manual = TRUE] ELSE tx[t]]
    BY DEF CommitWrite
  <2>2. \A t \in Txs : /\ [tx[t] EXCEPT !.manual = TRUE]
                             \in [at : {"new", "there", "gone"}, manual : BOOLEAN]
                       /\ [tx[t] EXCEPT !.manual = TRUE].at = tx[t].at
    BY <1>0 DEF TablesOK
  <2>3. QED
    BY <1>0, <2>1, <2>2 DEF TablesOK
<1>3. There' = There
  BY <1>2 DEF There
<1>4. tagged' \subseteq There' \X tags'
  <2>1. tagged' = (tagged \ r.seen) \cup r.plan /\ tags' = tags
    BY DEF CommitWrite
  <2>2. r.plan \subseteq There \X tags
    BY <1>0, <1>1, Pairs
  <2>3. QED
    BY <1>0, <1>3, <2>1, <2>2 DEF TablesOK
<1>5. hand' \in [Txs -> SUBSET Tags]
  <2>1. hand' = [t \in Txs |-> IF t \in T /\ r.kind = "update"
                               THEN {d[2] : d \in r.plan} ELSE hand[t]]
    BY DEF CommitWrite
  <2>2. {d[2] : d \in r.plan} \in SUBSET Tags
    BY <1>0, <1>1, Pairs
  <2>3. QED
    BY <1>0, <2>1, <2>2 DEF TablesOK
<1>6. excused' \in [Txs -> BOOLEAN]
  <2>1. excused' = [t \in Txs |->
          IF t \notin T THEN excused[t]
          ELSE ~r.alone \/ (r.kind # "update" /\ (excused[t] \/ r.include \/ t \in r.since))]
    BY DEF CommitWrite
  <2>2. \A t \in Txs : excused[t] \in BOOLEAN
    BY <1>0 DEF TablesOK
  <2>3. QED
    BY <2>1, <2>2
<1>7. UNCHANGED <<tags, rule>>
  BY DEF CommitWrite
<1>8. QED
  BY <1>0, <1>2, <1>4, <1>5, <1>6, <1>7 DEF TablesOK

LEMMA CreateTables ==
  ASSUME TypeInv, NEW p \in Procs, NEW t \in Txs, NEW G \in SUBSET Tags,
         NEW heard \in BOOLEAN, Create(p, t, G, heard)
  PROVE  TablesOK' /\ There' = There \cup {t}
<1>0. TablesOK /\ G \subseteq tags /\ tx[t].at = "new"
  BY DEF TypeInv, Create
<1>1. tx' = [tx EXCEPT ![t] = [at |-> "there", manual |-> G # {}]]
  BY DEF Create
<1>2. tx' \in [Txs -> [at : {"new", "there", "gone"}, manual : BOOLEAN]]
  BY <1>0, <1>1 DEF TablesOK
<1>3. There' = There \cup {t}
  BY <1>0, <1>1 DEF TablesOK, There
<1>4. tagged' \subseteq There' \X tags'
  BY <1>0, <1>3 DEF TablesOK, Create
<1>5. hand' \in [Txs -> SUBSET Tags] /\ UNCHANGED <<tags, rule, excused>>
  BY <1>0 DEF TablesOK, Create
<1>6. QED
  BY <1>0, <1>2, <1>3, <1>4, <1>5 DEF TablesOK

LEMMA DeleteTxTables ==
  ASSUME TypeInv, NEW t \in Txs, DeleteTx(t)
  PROVE  TablesOK' /\ There' = There \ {t}
<1>0. TablesOK
  BY DEF TypeInv
<1>1. tx' = [tx EXCEPT ![t].at = "gone"]
  BY DEF DeleteTx
<1>2. tx' \in [Txs -> [at : {"new", "there", "gone"}, manual : BOOLEAN]]
  BY <1>0, <1>1 DEF TablesOK
<1>3. There' = There \ {t}
  BY <1>0, <1>1 DEF TablesOK, There
<1>4. tagged' \subseteq There' \X tags'
  BY <1>0, <1>3, Pairs DEF TablesOK, DeleteTx, Rows
<1>5. QED
  BY <1>0, <1>2, <1>3, <1>4 DEF TablesOK, DeleteTx

LEMMA DeleteTagTables ==
  ASSUME TypeInv, NEW g \in Tags, DeleteTag(g)
  PROVE  TablesOK'
<1>0. TablesOK
  BY DEF TypeInv
<1>1. There' = There
  BY DEF DeleteTag, There
<1>2. tagged' \subseteq There' \X tags'
  BY <1>0, <1>1, Pairs DEF TablesOK, DeleteTag
<1>3. QED
  BY <1>0, <1>2 DEF TablesOK, DeleteTag

LEMMA InsertRowTables ==
  ASSUME TypeInv, NEW p \in Procs, NEW t \in Txs, InsertRow(p, t)
  PROVE  TablesOK' /\ There \subseteq There' /\ There' \subseteq There \cup {t}
<1>0. TablesOK
  BY DEF TypeInv
<1>1. (tx' = [tx EXCEPT ![t].at = "there"] /\ tx[t].at = "new") \/ tx' = tx
  BY DEF InsertRow
<1>2. tx' \in [Txs -> [at : {"new", "there", "gone"}, manual : BOOLEAN]]
  BY <1>0, <1>1 DEF TablesOK
<1>3. There \subseteq There' /\ There' \subseteq There \cup {t}
  BY <1>0, <1>1 DEF TablesOK, There
<1>4. tagged' \subseteq There' \X tags'
  BY <1>0, <1>3 DEF TablesOK, InsertRow
<1>5. QED
  BY <1>0, <1>2, <1>3, <1>4 DEF TablesOK, InsertRow

LEMMA InsertTagTables ==
  ASSUME TypeInv, NEW p \in Procs, InsertTag(p)
  PROVE  TablesOK'
<1> DEFINE new == {d \in req[p].plan : d[1] \in req[p].left}
           fits == \A d \in new : d[1] \in There /\ d[2] \in tags
<1>0. TablesOK /\ req[p].plan \subseteq Docs /\ There' = There
  BY DEF TypeInv, RequestsOK, Request, InsertTag, There
<1>1. UNCHANGED <<tags, tx, rule, hand>>
  BY DEF InsertTag
<1>2. CASE ~fits
  <2>1. UNCHANGED <<tagged, excused>>
    BY <1>2 DEF InsertTag
  <2>2. QED
    BY <1>0, <1>1, <2>1 DEF TablesOK
<1>3. CASE fits
  <2>1. /\ tagged' = tagged \cup new
        /\ excused' = [t \in Txs |-> excused[t] \/ t \in req[p].left]
    BY <1>3 DEF InsertTag
  <2>2. new \subseteq There \X tags
    BY <1>0, <1>3, Pairs
  <2> HIDE DEF new
  <2>3. \A t \in Txs : excused[t] \in BOOLEAN
    BY <1>0 DEF TablesOK
  <2>4. QED
    BY <1>0, <1>1, <2>1, <2>2, <2>3 DEF TablesOK
<1>4. QED
  BY <1>2, <1>3

LEMMA QuietTables ==
  ASSUME TypeInv, UNCHANGED <<tags, tx, tagged, rule, hand, excused>>
  PROVE  TablesOK'
  BY DEF TypeInv, TablesOK, There

LEMMA TablesStep == TypeInv /\ [Next]_vars => TablesOK'
<1> SUFFICES ASSUME TypeInv, [Next]_vars PROVE TablesOK'
  OBVIOUS
<1>0. CASE UNCHANGED vars
  BY <1>0, QuietTables DEF vars
<1>1. ASSUME NEW p \in Procs,
             \/ BeginWrite(p) \/ RollBack(p)
             \/ \E reads \in BOOLEAN : SelectSimilar(p, reads)
             \/ GetModel(p) \/ BuildNow(p) \/ Adopt(p) \/ Await(p)
             \/ EndBatch(p) \/ EndImport(p)
             \/ \E t \in Txs, G \in SUBSET Tags : Update(p, t, G) \/ Classify(p, t, G)
             \/ \E t \in Txs, g \in Tags, include \in BOOLEAN : ApplySimilar(p, t, g, include)
             \/ \E include \in BOOLEAN, T \in SUBSET Txs : AutoTagBatch(p, include, T)
             \/ \E T \in SUBSET Txs : Import(p, T)
             \/ \E i \in 0 .. Len(shared) : Inherit(p, i)
      PROVE  TablesOK'
  BY <1>1, QuietTables DEF BeginWrite, RollBack, SelectSimilar, GetModel, BuildNow, Adopt,
     Await, EndBatch, EndImport, Update, Classify, ApplySimilar, AutoTagBatch, Import, Inherit
<1>2. ASSUME NEW p \in Procs, Learn(p) PROVE TablesOK'
  <2>1. rule' \in tags \cup {NoTag}
    BY <1>2 DEF TypeInv, TablesOK, Learn
  <2>2. QED
    BY <1>2, <2>1 DEF TypeInv, TablesOK, There, Learn
<1>3. ASSUME NEW b \in Builders,
             \/ \E all \in BOOLEAN : BeginBuild(b, all)
             \/ \E G \in SUBSET SystemTags, T \in SUBSET Txs : Train(b, G, T)
             \/ TrainFails(b) \/ Store(b) \/ StoreFails(b)
             \/ \E i \in 0 .. Len(shared) : FindShared(b, i)
             \/ WriteShared(b) \/ SharedFails(b)
      PROVE  TablesOK'
  BY <1>3, QuietTables DEF BeginBuild, Train, TrainFails, Store, StoreFails, FindShared,
     WriteShared, SharedFails
<1>4. CASE Stop
  BY <1>4, QuietTables DEF Stop
<1>5. ASSUME NEW g \in Tags, CreateRule(g) \/ DeleteRule PROVE TablesOK'
  BY <1>5 DEF CreateRule, DeleteRule, TypeInv, TablesOK, There
<1>6. CASE DeleteRule
  BY <1>6 DEF DeleteRule, TypeInv, TablesOK, There
<1>7. QED
  BY <1>0, <1>1, <1>2, <1>3, <1>4, <1>5, <1>6, CommitTables, CreateTables, DeleteTxTables,
     DeleteTagTables, InsertRowTables, InsertTagTables DEF Next, Builders

-----------------------------------------------------------------------------
(* The requests.                                                           *)

LEMMA PutRequest ==
  ASSUME RequestsOK, NEW p \in Procs, NEW r \in Request,
         r.at # "select" \/ \E d \in Docs : r.plan = {d},
         req' = [req EXCEPT ![p] = r]
  PROVE  RequestsOK'
<1>1. req' \in [Procs -> Request]
  BY DEF RequestsOK
<1>2. \A q \in Procs : req'[q] = IF q = p THEN r ELSE req[q]
  BY DEF RequestsOK
<1>3. QED
  BY <1>1, <1>2 DEF RequestsOK, Chosen

\* A request that comes in.
LEMMA RequestComes ==
  ASSUME TypeInv, NEW p \in Procs,
         \/ \E t \in Txs, G \in SUBSET Tags : Update(p, t, G)
         \/ \E t \in Txs, G \in SUBSET Tags, heard \in BOOLEAN : Create(p, t, G, heard)
         \/ \E t \in Txs, g \in Tags, include \in BOOLEAN : ApplySimilar(p, t, g, include)
         \/ \E include \in BOOLEAN, T \in SUBSET Txs : AutoTagBatch(p, include, T)
         \/ \E T \in SUBSET Txs : Import(p, T)
  PROVE  RequestsOK'
<1>0. RequestsOK
  BY DEF TypeInv
<1>1. ASSUME NEW t \in Txs, NEW G \in SUBSET Tags, Update(p, t, G) PROVE RequestsOK'
  <2> DEFINE r == [Idle EXCEPT !.at = "delete", !.kind = "update",
                               !.on = {t}, !.plan = {t} \X G]
  <2>1. r \in Request /\ r.at = "delete"
    BY DEF Idle, Request, NoModel, Model, Docs
  <2>2. req' = [req EXCEPT ![p] = r]
    BY <1>1 DEF Update
  <2> HIDE DEF r
  <2>3. QED
    BY <1>0, <2>1, <2>2, PutRequest
<1>2. ASSUME NEW t \in Txs, NEW G \in SUBSET Tags, NEW heard \in BOOLEAN, Create(p, t, G, heard)
      PROVE  RequestsOK'
  <2> DEFINE r == [Idle EXCEPT !.at = "learn", !.kind = "create",
                               !.on = {t}, !.plan = {t} \X G]
  <2>1. r \in Request /\ r.at = "learn"
    BY DEF Idle, Request, NoModel, Model, Docs
  <2>2. req' = req \/ req' = [req EXCEPT ![p] = r]
    BY <1>2 DEF Create
  <2> HIDE DEF r
  <2>3. QED
    BY <1>0, <2>1, <2>2, PutRequest DEF RequestsOK, Chosen
<1>3. ASSUME NEW t \in Txs, NEW g \in Tags, NEW include \in BOOLEAN,
             ApplySimilar(p, t, g, include)
      PROVE  RequestsOK'
  <2> DEFINE r == [Idle EXCEPT !.at = "select", !.kind = "similar",
                               !.plan = {<<t, g>>}, !.include = include]
  <2>0. <<t, g>> \in Docs
    BY DEF Docs
  <2>1. r \in Request /\ r.plan = {<<t, g>>}
    BY <2>0 DEF Idle, Request, NoModel, Model
  <2>2. req' = [req EXCEPT ![p] = r]
    BY <1>3 DEF ApplySimilar
  <2> HIDE DEF r
  <2>3. QED
    BY <1>0, <2>0, <2>1, <2>2, PutRequest
<1>4. ASSUME NEW include \in BOOLEAN, NEW T \in SUBSET Txs, AutoTagBatch(p, include, T)
      PROVE  RequestsOK'
  <2> DEFINE r == [Idle EXCEPT !.at = "model", !.kind = "batch",
                               !.left = T, !.include = include]
  <2>1. req' = req \/ req' = [req EXCEPT ![p] = r]
    BY <1>4 DEF AutoTagBatch
  <2>2. r \in Request /\ r.at = "model"
    BY DEF Idle, Request, NoModel, Model
  <2> HIDE DEF r
  <2>3. QED
    BY <1>0, <2>2, <2>1, PutRequest DEF RequestsOK, Chosen
<1>5. ASSUME NEW T \in SUBSET Txs, Import(p, T) PROVE RequestsOK'
  <2> DEFINE r == [Idle EXCEPT !.at = "model", !.kind = "import", !.left = T, !.on = T]
  <2>1. r \in Request /\ r.at = "model"
    BY DEF Idle, Request, NoModel, Model
  <2>2. req' = [req EXCEPT ![p] = r]
    BY <1>5 DEF Import
  <2> HIDE DEF r
  <2>3. QED
    BY <1>0, <2>1, <2>2, PutRequest
<1>6. QED
  BY <1>1, <1>2, <1>3, <1>4, <1>5

\* A request that ends, or only moves to another of its statements.
LEMMA RequestMoves ==
  ASSUME TypeInv, NEW p \in Procs,
         \/ req' = [req EXCEPT ![p] = Idle]
         \/ \E a \in {"await", "next", "learn", "row"} : req' = [req EXCEPT ![p].at = a]
         \/ \E a \in {"next"} : req' = [req EXCEPT ![p].at = a, ![p].seen = {}]
         \/ \E a \in {"next"}, m \in Model : req' = [req EXCEPT ![p].at = a, ![p].docs = m]
  PROVE  RequestsOK'
<1>0. RequestsOK /\ req[p] \in Request
  BY DEF TypeInv, RequestsOK
<1>1. CASE req' = [req EXCEPT ![p] = Idle]
  BY <1>0, <1>1, PutRequest, EmptyRows DEF Idle
<1>2. ASSUME NEW a \in {"await", "next", "learn", "row"}, req' = [req EXCEPT ![p].at = a]
      PROVE  RequestsOK'
  <2> DEFINE r == [req[p] EXCEPT !.at = a]
  <2>1. r \in Request /\ r.at # "select"
    BY <1>0 DEF Request
  <2>2. req' = [req EXCEPT ![p] = r]
    BY <1>0, <1>2 DEF RequestsOK
  <2> HIDE DEF r
  <2>3. QED
    BY <1>0, <2>1, <2>2, PutRequest
<1>3. ASSUME NEW a \in {"next"}, req' = [req EXCEPT ![p].at = a, ![p].seen = {}]
      PROVE  RequestsOK'
  <2> DEFINE r1 == [req[p] EXCEPT !.at = a]
             r == [r1 EXCEPT !.seen = {}]
  <2>1. r1 \in Request /\ r1.at # "select"
    BY <1>0 DEF Request
  <2>2. req' = [req EXCEPT ![p] = r]
    BY <1>0, <1>3 DEF RequestsOK
  <2> HIDE DEF r1
  <2>3. r \in Request /\ r.at # "select"
    BY <2>1 DEF Request
  <2> HIDE DEF r
  <2>4. QED
    BY <1>0, <2>3, <2>2, PutRequest
<1>4. ASSUME NEW a \in {"next"}, NEW m \in Model, req' = [req EXCEPT ![p].at = a, ![p].docs = m]
      PROVE  RequestsOK'
  <2> DEFINE r1 == [req[p] EXCEPT !.at = a]
             r == [r1 EXCEPT !.docs = m]
  <2>1. r1 \in Request /\ r1.at # "select"
    BY <1>0 DEF Request
  <2>2. req' = [req EXCEPT ![p] = r]
    BY <1>0, <1>4 DEF RequestsOK
  <2> HIDE DEF r1
  <2>3. r \in Request /\ r.at # "select"
    BY <2>1 DEF Request
  <2> HIDE DEF r
  <2>4. QED
    BY <1>0, <2>3, <2>2, PutRequest
<1>5. QED
  BY <1>1, <1>2, <1>3, <1>4

LEMMA SelectRequests ==
  ASSUME TypeInv, NEW p \in Procs, NEW reads \in BOOLEAN, SelectSimilar(p, reads)
  PROVE  RequestsOK'
<1> DEFINE T == IF reads THEN Spared(req[p].include) ELSE {}
           g == (CHOOSE d \in req[p].plan : TRUE)[2]
           D == IF T = {} THEN req[p].plan ELSE T \X {g}
           a == IF T = {} THEN "learn" ELSE "delete"
           r1 == [req[p] EXCEPT !.at = a]
           r2 == [r1 EXCEPT !.on = T]
           r == [r2 EXCEPT !.plan = D]
<1>0. RequestsOK /\ req[p] \in Request /\ req[p].at = "select"
  BY DEF TypeInv, RequestsOK, SelectSimilar
<1>1. PICK d \in Docs : req[p].plan = {d}
  BY <1>0 DEF RequestsOK, Chosen
<1>2. g = d[2]
  BY <1>1
<1>3. g \in Tags
  BY <1>2 DEF Docs
<1>4. T \in SUBSET Txs /\ D \in SUBSET Docs
  BY <1>0, <1>3 DEF Spared, There, Docs, Request
<1>5. req' = [req EXCEPT ![p].at = a, ![p].on = T, ![p].plan = D]
  BY <1>0 DEF SelectSimilar, RequestsOK
<1>6. req' = [req EXCEPT ![p] = r]
  BY <1>0, <1>5 DEF RequestsOK
<1>7. a \in {"learn", "delete"}
  OBVIOUS
<1> HIDE DEF T, g, D, a
<1>8. r1 \in Request /\ r1.at # "select"
  BY <1>0, <1>7 DEF Request
<1> HIDE DEF r1
<1>9. r2 \in Request /\ r2.at # "select"
  BY <1>4, <1>8 DEF Request
<1> HIDE DEF r2
<1>10. r \in Request /\ r.at # "select"
  BY <1>4, <1>9 DEF Request
<1> HIDE DEF r
<1>11. QED
  BY <1>0, <1>6, <1>10, PutRequest

\* What changes in all requests at once.
LEMMA PutAll ==
  ASSUME RequestsOK, NEW p \in Procs,
         DOMAIN req' = Procs, req' = [q \in Procs |-> req'[q]],
         \A q \in Procs : req'[q] \in Request,
         req'[p].at # "select",
         \A q \in Procs \ {p} : req'[q].at = req[q].at /\ req'[q].plan = req[q].plan
  PROVE  RequestsOK'
<1>1. req' \in [Procs -> Request]
  OBVIOUS
<1>2. Chosen'
  BY DEF RequestsOK, Chosen
<1>3. QED
  BY <1>1, <1>2 DEF RequestsOK

LEMMA BeginWriteRequests ==
  ASSUME TypeInv, NEW p \in Procs, BeginWrite(p)
  PROVE  RequestsOK'
<1> DEFINE others == {q \in Procs \ {p} : req[q].at = "commit" /\ req[q].on \cap req[p].on # {}}
           D == Rows(req[p].on)
           r1 == [req[p] EXCEPT !.at = "commit"]
           r2 == [r1 EXCEPT !.seen = D]
           r3 == [r2 EXCEPT !.alone = (others = {})]
<1>0. RequestsOK /\ req[p] \in Request /\ TablesOK
  BY DEF TypeInv, RequestsOK
<1>1. D \in SUBSET Docs
  BY <1>0, Pairs DEF Rows
<1>2. req' = [q \in Procs |->
         IF q = p THEN r3
         ELSE IF q \in others THEN [req[q] EXCEPT !.alone = FALSE] ELSE req[q]]
  BY DEF BeginWrite
<1> HIDE DEF others, D
<1>3. r1 \in Request /\ r1.at = "commit"
  BY <1>0 DEF Request
<1> HIDE DEF r1
<1>4. r2 \in Request /\ r2.at = "commit"
  BY <1>1, <1>3 DEF Request
<1> HIDE DEF r2
<1>5. r3 \in Request /\ r3.at = "commit"
  BY <1>4 DEF Request
<1> HIDE DEF r3
<1>6. ASSUME NEW q \in Procs \ {p}
      PROVE  req'[q] \in Request /\ req'[q].at = req[q].at /\ req'[q].plan = req[q].plan
  <2> DEFINE s == [req[q] EXCEPT !.alone = FALSE]
  <2>1. req[q] \in Request
    BY <1>0 DEF RequestsOK
  <2>2. s \in Request /\ s.at = req[q].at /\ s.plan = req[q].plan
    BY <2>1 DEF Request
  <2>3. req'[q] = s \/ req'[q] = req[q]
    BY <1>2
  <2> HIDE DEF s
  <2>4. QED
    BY <2>1, <2>2, <2>3
<1>7. req'[p] = r3 /\ DOMAIN req' = Procs /\ req' = [q \in Procs |-> req'[q]]
  BY <1>2
<1>8. QED
  BY <1>0, <1>5, <1>6, <1>7, PutAll

LEMMA CommitRequests ==
  ASSUME TypeInv, NEW p \in Procs, NEW heard \in BOOLEAN, CommitWrite(p, heard)
  PROVE  RequestsOK'
<1> DEFINE r == req[p]
           r1 == [r EXCEPT !.at = After(p)]
           r2 == [r1 EXCEPT !.seen = {}]
           other(q) == [req[q] EXCEPT !.seen = @ \ r.seen,
                                      !.since = IF r.kind = "update" THEN @ \cup r.on ELSE @]
<1>0. RequestsOK /\ r \in Request /\ After(p) \in {"next", "learn"}
  BY DEF TypeInv, RequestsOK, After
<1>1. req' = [q \in Procs |-> IF q = p THEN IF heard THEN r2 ELSE Idle ELSE other(q)]
  BY DEF CommitWrite
<1>2. r1 \in Request /\ r1.at # "select"
  BY <1>0 DEF Request
<1>3. r2 \in Request /\ r2.at # "select"
  <2> HIDE DEF r1
  <2>1. QED
    BY <1>2 DEF Request
<1>4. ASSUME NEW q \in Procs \ {p}
      PROVE  req'[q] \in Request /\ req'[q].at = req[q].at /\ req'[q].plan = req[q].plan
  <2> DEFINE since2 == IF r.kind = "update" THEN req[q].since \cup r.on ELSE req[q].since
             s1 == [req[q] EXCEPT !.seen = @ \ r.seen]
             s2 == [s1 EXCEPT !.since = since2]
  <2>1. req[q] \in Request
    BY <1>0 DEF RequestsOK
  <2>2. s1 \in Request /\ s1.at = req[q].at /\ s1.plan = req[q].plan
        /\ s1.since = req[q].since
    BY <2>1 DEF Request
  <2>3. since2 \in SUBSET Txs
    BY <1>0, <2>1 DEF Request
  <2>4. req'[q] = s2
    BY <1>1, <2>2
  <2> HIDE DEF s1, since2
  <2>5. s2 \in Request /\ s2.at = s1.at /\ s2.plan = s1.plan
    BY <2>2, <2>3 DEF Request
  <2> HIDE DEF s2
  <2>6. QED
    BY <2>2, <2>4, <2>5
<1>5. DOMAIN req' = Procs /\ req' = [q \in Procs |-> req'[q]]
      /\ req'[p] = IF heard THEN r2 ELSE Idle
  BY <1>1
<1> HIDE DEF r1, r2
<1>6. req'[p] \in Request /\ req'[p].at # "select"
  BY <1>3, <1>5, EmptyRows DEF Idle
<1>7. QED
  BY <1>0, <1>4, <1>5, <1>6, PutAll

LEMMA ClassifyRequests ==
  ASSUME TypeInv, NEW p \in Procs, NEW t \in Txs, NEW G \in SUBSET Tags, Classify(p, t, G)
  PROVE  RequestsOK'
<1> DEFINE r == req[p]
           a == IF r.kind = "batch" /\ G # {} THEN "delete" ELSE "next"
           T == IF r.kind = "batch" THEN {t} ELSE r.on
           D == IF r.kind = "batch" THEN {t} \X G ELSE r.plan \cup ({t} \X G)
           r1 == [r EXCEPT !.left = @ \ {t}]
           r2 == [r1 EXCEPT !.at = a]
           r3 == [r2 EXCEPT !.on = T]
           r4 == [r3 EXCEPT !.plan = D]
<1>0. RequestsOK /\ r \in Request
  BY DEF TypeInv, RequestsOK
<1>1. a \in {"delete", "next"} /\ T \in SUBSET Txs /\ D \in SUBSET Docs
  BY <1>0 DEF Request, Docs
<1>2. req' = [req EXCEPT ![p] = r4]
  <2>1. req' = [req EXCEPT ![p].left = @ \ {t}, ![p].at = a, ![p].on = T, ![p].plan = D]
    BY <1>0 DEF Classify, RequestsOK, Request
  <2> HIDE DEF a, T, D
  <2>2. QED
    BY <1>0, <2>1 DEF RequestsOK
<1>3. r1 \in Request
  BY <1>0 DEF Request
<1> HIDE DEF a, T, D, r1
<1>4. r2 \in Request /\ r2.at # "select"
  BY <1>1, <1>3 DEF Request
<1> HIDE DEF r2
<1>5. r3 \in Request /\ r3.at # "select"
  BY <1>1, <1>4 DEF Request
<1> HIDE DEF r3
<1>6. r4 \in Request /\ r4.at # "select"
  BY <1>1, <1>5 DEF Request
<1> HIDE DEF r4
<1>7. QED
  BY <1>0, <1>2, <1>6, PutRequest

LEMMA InsertRowRequests ==
  ASSUME TypeInv, NEW p \in Procs, NEW t \in Txs, InsertRow(p, t)
  PROVE  RequestsOK'
<1> DEFINE r == req[p]
           a == IF tx[t].at = "new" /\ \E d \in r.plan : d[1] = t THEN "tag" ELSE "row"
           r1 == [r EXCEPT !.at = a]
           r2 == [r1 EXCEPT !.on = r.on \ {t}]
           r3 == [r2 EXCEPT !.left = {t}]
<1>0. RequestsOK /\ r \in Request
  BY DEF TypeInv, RequestsOK
<1>1. \/ req' = [req EXCEPT ![p].at = a, ![p].on = r.on \ {t}, ![p].left = {t}]
      \/ req' = [req EXCEPT ![p].at = a, ![p].on = r.on \ {t}]
  <2>1. CASE tx[t].at = "new"
    BY <1>0, <2>1 DEF InsertRow, RequestsOK, Request
  <2>2. CASE tx[t].at # "new"
    BY <1>0, <2>2 DEF InsertRow, RequestsOK, Request
  <2>3. QED
    BY <2>1, <2>2
<1>2. a \in {"tag", "row"}
  OBVIOUS
<1> HIDE DEF a
<1>3. req' = [req EXCEPT ![p] = r3] \/ req' = [req EXCEPT ![p] = r2]
  BY <1>0, <1>1 DEF RequestsOK
<1>4. r1 \in Request /\ r1.at # "select"
  BY <1>0, <1>2 DEF Request
<1>5. r.on \ {t} \in SUBSET Txs
  BY <1>0 DEF Request
<1> HIDE DEF r1
<1>6. r2 \in Request /\ r2.at # "select"
  BY <1>4, <1>5 DEF Request
<1> HIDE DEF r2
<1>7. r3 \in Request /\ r3.at # "select"
  BY <1>6 DEF Request
<1> HIDE DEF r3
<1>8. QED
  BY <1>0, <1>3, <1>6, <1>7, PutRequest

LEMMA InsertTagRequests ==
  ASSUME TypeInv, NEW p \in Procs, InsertTag(p)
  PROVE  RequestsOK'
<1> DEFINE r == req[p]
           r1 == [r EXCEPT !.at = "row"]
           other(q) == [req[q] EXCEPT !.alone = @ /\ req[q].on \cap r.left = {}]
<1>0. RequestsOK /\ r \in Request
  BY DEF TypeInv, RequestsOK
<1>1. \/ req' = [req EXCEPT ![p] = Idle]
      \/ req' = [q \in Procs |-> IF q = p THEN r1 ELSE other(q)]
  BY DEF InsertTag, Finish
<1>2. CASE req' = [req EXCEPT ![p] = Idle]
  BY <1>2, RequestMoves
<1>3. CASE req' = [q \in Procs |-> IF q = p THEN r1 ELSE other(q)]
  <2>1. r1 \in Request /\ r1.at = "row"
    BY <1>0 DEF Request
  <2>2. ASSUME NEW q \in Procs \ {p}
        PROVE  req'[q] \in Request /\ req'[q].at = req[q].at /\ req'[q].plan = req[q].plan
    <3> DEFINE x == req[q].alone /\ req[q].on \cap r.left = {}
               s == [req[q] EXCEPT !.alone = x]
    <3>1. req[q] \in Request
      BY <1>0 DEF RequestsOK
    <3>2. x \in BOOLEAN /\ req'[q] = s
      BY <1>3, <3>1 DEF Request
    <3> HIDE DEF x
    <3>3. s \in Request /\ s.at = req[q].at /\ s.plan = req[q].plan
      BY <3>1, <3>2 DEF Request
    <3> HIDE DEF s
    <3>4. QED
      BY <3>2, <3>3
  <2>3. req'[p] = r1 /\ DOMAIN req' = Procs /\ req' = [q \in Procs |-> req'[q]]
    BY <1>3
  <2> HIDE DEF r1
  <2>4. QED
    BY <1>0, <2>1, <2>2, <2>3, PutAll
<1>4. QED
  BY <1>1, <1>2, <1>3

LEMMA RequestsStep == TypeInv /\ [Next]_vars => RequestsOK'
<1> SUFFICES ASSUME TypeInv, [Next]_vars PROVE RequestsOK'
  OBVIOUS
<1>0. RequestsOK /\ BuildsOK
  BY DEF TypeInv
<1>1. CASE UNCHANGED req
  BY <1>0, <1>1 DEF RequestsOK, Chosen
<1>2. ASSUME NEW p \in Procs, RollBack(p) PROVE RequestsOK'
  BY <1>2, RequestMoves DEF RollBack, Finish
<1>3. ASSUME NEW p \in Procs, Learn(p) \/ EndBatch(p) \/ EndImport(p) PROVE RequestsOK'
  BY <1>3, RequestMoves DEF Learn, EndBatch, EndImport, Finish
<1>4. ASSUME NEW p \in Procs, GetModel(p) PROVE RequestsOK'
  <2>1. model \in Model /\ req' = [req EXCEPT ![p].at = "next", ![p].docs = model]
    BY <1>0, <1>4 DEF GetModel, BuildsOK
  <2>2. QED
    BY <2>1, RequestMoves
<1>5. ASSUME NEW p \in Procs, BuildNow(p) \/ \E i \in 0 .. Len(shared) : Inherit(p, i)
      PROVE  RequestsOK'
  BY <1>5, RequestMoves DEF BuildNow, Inherit
<1>6. ASSUME NEW p \in Procs, Await(p) PROVE RequestsOK'
  <2>1. build[p].docs \in Model
    BY <1>0 DEF BuildsOK, Builders, Build
  <2>2. req' = [req EXCEPT ![p].at = "next", ![p].docs = build[p].docs]
    BY <1>6 DEF Await
  <2>3. QED
    BY <2>1, <2>2, RequestMoves
<1>7. CASE Stop
  <2>1. req' = [p \in Procs |-> Idle]
    BY <1>7 DEF Stop
  <2>2. QED
    BY <2>1, EmptyRows DEF RequestsOK, Chosen, Idle
<1>8. ASSUME NEW p \in Procs, Adopt(p) PROVE UNCHANGED req
  BY <1>8 DEF Adopt
<1>9. ASSUME NEW b \in Builders,
             \/ \E all \in BOOLEAN : BeginBuild(b, all)
             \/ \E G \in SUBSET SystemTags, T \in SUBSET Txs : Train(b, G, T)
             \/ TrainFails(b) \/ Store(b) \/ StoreFails(b)
             \/ \E i \in 0 .. Len(shared) : FindShared(b, i)
             \/ WriteShared(b) \/ SharedFails(b)
      PROVE  UNCHANGED req
  BY <1>9 DEF BeginBuild, Train, TrainFails, Store, StoreFails, FindShared,
     WriteShared, SharedFails
<1>10. ASSUME NEW t \in Txs, DeleteTx(t) PROVE UNCHANGED req
  BY <1>10 DEF DeleteTx
<1>11. ASSUME NEW g \in Tags, DeleteTag(g) \/ CreateRule(g) PROVE UNCHANGED req
  BY <1>11 DEF DeleteTag, CreateRule
<1>12. CASE DeleteRule
  BY <1>1, <1>12 DEF DeleteRule
<1>13. CASE UNCHANGED vars
  BY <1>1, <1>13 DEF vars
<1>14. QED
  BY <1>1, <1>2, <1>3, <1>4, <1>5, <1>6, <1>7, <1>8, <1>9, <1>10, <1>11, <1>12, <1>13,
     RequestComes, SelectRequests, BeginWriteRequests, CommitRequests, ClassifyRequests,
     InsertRowRequests, InsertTagRequests DEF Next, Builders

-----------------------------------------------------------------------------
(* The rebuilds.                                                           *)

PutBuild(b, r) == build' = [build EXCEPT ![b] = r]

LEMMA PutBuildOK ==
  ASSUME BuildsOK, NEW b \in Builders, NEW r \in Build, PutBuild(b, r)
  PROVE  /\ build' \in [Builders -> Build]
         /\ build'[b] = r
         /\ \A c \in Builders \ {b} : build'[c] = build[c]
  BY DEF BuildsOK, PutBuild

\* The rebuild b ends; M of the others are marked as missed, O as overtaken.
EndsBuild(b, M, O) ==
  /\ build' \in [Builders -> Build]
  /\ \A c \in Builders \ {b} :
       /\ build'[c].at = build[c].at /\ build'[c].all = build[c].all
       /\ build'[c].row = build[c].row /\ build'[c].docs = build[c].docs
       /\ build'[c].older = build[c].older \ {b}
       /\ build'[c].overtaken = (build[c].overtaken \/ c \in O)
       /\ build'[c].missed = (build[c].missed \/ c \in M)
  /\ build'[b].at \in {"done", "idle"} /\ ~build'[b].all

LEMMA EndedMissed ==
  ASSUME BuildsOK, NEW b \in Builders, NEW B, Ended(b, Missed, B)
  PROVE  EndsBuild(b, B, {})
<1> DEFINE ended == IF b \in Procs THEN [NoBuild EXCEPT !.at = "done", !.docs = build[b].docs]
                    ELSE NoBuild
           mark(c) == IF c \in B THEN [build[c] EXCEPT !.missed = TRUE] ELSE build[c]
           left(c) == [mark(c) EXCEPT !.older = @ \ {b}]
<1>1. build' = [c \in Builders |-> IF c # b THEN left(c) ELSE ended]
  BY DEF Ended, Missed
<1>2. ended \in Build
  BY DEF BuildsOK, Build, NoBuild, NoModel, Model
<1>3. ASSUME NEW c \in Builders \ {b}
      PROVE  /\ left(c) \in Build
             /\ left(c).at = build[c].at /\ left(c).all = build[c].all
             /\ left(c).row = build[c].row /\ left(c).docs = build[c].docs
             /\ left(c).older = build[c].older \ {b}
             /\ left(c).overtaken = build[c].overtaken
             /\ left(c).missed = (build[c].missed \/ c \in B)
  <2> DEFINE r == mark(c)
  <2>1. build[c] \in Build
    BY DEF BuildsOK
  <2>2. /\ r \in Build
        /\ r.at = build[c].at /\ r.all = build[c].all
        /\ r.row = build[c].row /\ r.docs = build[c].docs
        /\ r.older = build[c].older /\ r.overtaken = build[c].overtaken
        /\ r.missed = (build[c].missed \/ c \in B)
    BY <2>1 DEF Build
  <2> HIDE DEF r, mark
  <2>3. [r EXCEPT !.older = @ \ {b}] \in Build
    BY <2>2 DEF Build
  <2>4. /\ [r EXCEPT !.older = @ \ {b}].at = r.at
        /\ [r EXCEPT !.older = @ \ {b}].all = r.all
        /\ [r EXCEPT !.older = @ \ {b}].row = r.row
        /\ [r EXCEPT !.older = @ \ {b}].docs = r.docs
        /\ [r EXCEPT !.older = @ \ {b}].older = r.older \ {b}
        /\ [r EXCEPT !.older = @ \ {b}].overtaken = r.overtaken
        /\ [r EXCEPT !.older = @ \ {b}].missed = r.missed
    BY <2>2 DEF Build
  <2>5. QED
    BY <2>2, <2>3, <2>4 DEF r
<1> HIDE DEF left, ended, mark
<1>4. \A c \in Builders \ {b} : build'[c] = left(c)
  BY <1>1
<1>5. build' \in [Builders -> Build] /\ build'[b] = ended
  BY <1>1, <1>2, <1>3
<1>6. ended.at \in {"done", "idle"} /\ ~ended.all
  BY DEF ended, NoBuild
<1>7. \A c \in Builders : build[c].overtaken \in BOOLEAN /\ build[c].missed \in BOOLEAN
  BY DEF BuildsOK, Build
<1>8. QED
  BY <1>3, <1>4, <1>5, <1>6, <1>7 DEF EndsBuild

LEMMA EndedOvertaken ==
  ASSUME BuildsOK, NEW b \in Builders, NEW B, Ended(b, Overtaken, B)
  PROVE  EndsBuild(b, {}, B)
<1> DEFINE ended == IF b \in Procs THEN [NoBuild EXCEPT !.at = "done", !.docs = build[b].docs]
                    ELSE NoBuild
           mark(c) == IF c \in B THEN [build[c] EXCEPT !.overtaken = TRUE] ELSE build[c]
           left(c) == [mark(c) EXCEPT !.older = @ \ {b}]
<1>1. build' = [c \in Builders |-> IF c # b THEN left(c) ELSE ended]
  BY DEF Ended, Overtaken
<1>2. ended \in Build
  BY DEF BuildsOK, Build, NoBuild, NoModel, Model
<1>3. ASSUME NEW c \in Builders \ {b}
      PROVE  /\ left(c) \in Build
             /\ left(c).at = build[c].at /\ left(c).all = build[c].all
             /\ left(c).row = build[c].row /\ left(c).docs = build[c].docs
             /\ left(c).older = build[c].older \ {b}
             /\ left(c).overtaken = (build[c].overtaken \/ c \in B)
             /\ left(c).missed = build[c].missed
  <2> DEFINE r == mark(c)
  <2>1. build[c] \in Build
    BY DEF BuildsOK
  <2>2. /\ r \in Build
        /\ r.at = build[c].at /\ r.all = build[c].all
        /\ r.row = build[c].row /\ r.docs = build[c].docs
        /\ r.older = build[c].older /\ r.missed = build[c].missed
        /\ r.overtaken = (build[c].overtaken \/ c \in B)
    BY <2>1 DEF Build
  <2> HIDE DEF r, mark
  <2>3. [r EXCEPT !.older = @ \ {b}] \in Build
    BY <2>2 DEF Build
  <2>4. /\ [r EXCEPT !.older = @ \ {b}].at = r.at
        /\ [r EXCEPT !.older = @ \ {b}].all = r.all
        /\ [r EXCEPT !.older = @ \ {b}].row = r.row
        /\ [r EXCEPT !.older = @ \ {b}].docs = r.docs
        /\ [r EXCEPT !.older = @ \ {b}].older = r.older \ {b}
        /\ [r EXCEPT !.older = @ \ {b}].overtaken = r.overtaken
        /\ [r EXCEPT !.older = @ \ {b}].missed = r.missed
    BY <2>2 DEF Build
  <2>5. QED
    BY <2>2, <2>3, <2>4 DEF r
<1> HIDE DEF left, ended, mark
<1>4. \A c \in Builders \ {b} : build'[c] = left(c)
  BY <1>1
<1>5. build' \in [Builders -> Build] /\ build'[b] = ended
  BY <1>1, <1>2, <1>3
<1>6. ended.at \in {"done", "idle"} /\ ~ended.all
  BY DEF ended, NoBuild
<1>7. \A c \in Builders : build[c].overtaken \in BOOLEAN /\ build[c].missed \in BOOLEAN
  BY DEF BuildsOK, Build
<1>8. QED
  BY <1>3, <1>4, <1>5, <1>6, <1>7 DEF EndsBuild

LEMMA EndSteps ==
  ASSUME TypeInv, NEW b \in Builders
  PROVE  /\ TrainFails(b) => EndsBuild(b, IF build[b].all THEN {} ELSE Storing, {})
         /\ Store(b) => EndsBuild(b, {}, build[b].older)
         /\ StoreFails(b) => EndsBuild(b, build[b].older, {})
<1>0. BuildsOK
  BY DEF TypeInv
<1>1. ASSUME TrainFails(b), build[b].all PROVE EndsBuild(b, {}, {})
  <2>1. Ended(b, Missed, {})
    BY <1>1 DEF TrainFails
  <2>2. QED
    BY <1>0, <2>1, EndedMissed
<1>2. ASSUME TrainFails(b), ~build[b].all PROVE EndsBuild(b, Storing, {})
  <2>1. Ended(b, Missed, Storing)
    BY <1>2 DEF TrainFails
  <2>2. QED
    BY <1>0, <2>1, EndedMissed
<1>3. ASSUME Store(b) PROVE EndsBuild(b, {}, build[b].older)
  <2>1. Ended(b, Overtaken, build[b].older)
    BY <1>3 DEF Store
  <2>2. QED
    BY <1>0, <2>1, EndedOvertaken
<1>4. ASSUME StoreFails(b) PROVE EndsBuild(b, build[b].older, {})
  <2>1. Ended(b, Missed, build[b].older)
    BY <1>4 DEF StoreFails
  <2>2. QED
    BY <1>0, <2>1, EndedMissed
<1>5. QED
  BY <1>1, <1>2, <1>3, <1>4

\* A change that starts no rebuild marks those that are to store, if it is one.
LEMMA UnlearnedMarks ==
  ASSUME BuildsOK, lag \in BOOLEAN, NEW changed \in BOOLEAN, Unlearned(changed)
  PROVE  /\ build' \in [Builders -> Build] /\ lag' = (lag \/ changed)
         /\ \A c \in Builders :
              /\ build'[c].at = build[c].at /\ build'[c].all = build[c].all
              /\ build'[c].row = build[c].row /\ build'[c].docs = build[c].docs
              /\ build'[c].older = build[c].older
              /\ build'[c].overtaken = build[c].overtaken
              /\ build'[c].missed = (build[c].missed \/ (changed /\ c \in Storing))
<1>1. CASE ~changed
  BY <1>1 DEF Unlearned, BuildsOK, Build
<1>2. CASE changed
  <2>1. build' = Missing(Storing) /\ lag' = TRUE
    BY <1>2 DEF Unlearned
  <2>2. build' = [c \in Builders |-> IF c \in Storing THEN [build[c] EXCEPT !.missed = TRUE]
                                     ELSE build[c]]
    BY <2>1 DEF Missing
  <2>3. ASSUME NEW c \in Builders
        PROVE  /\ build'[c] \in Build
               /\ build'[c].at = build[c].at /\ build'[c].all = build[c].all
               /\ build'[c].row = build[c].row /\ build'[c].docs = build[c].docs
               /\ build'[c].older = build[c].older
               /\ build'[c].overtaken = build[c].overtaken
               /\ build'[c].missed = (build[c].missed \/ c \in Storing)
    <3> DEFINE r == [build[c] EXCEPT !.missed = TRUE]
    <3>1. build[c] \in Build
      BY DEF BuildsOK
    <3>2. /\ r \in Build
          /\ r.at = build[c].at /\ r.all = build[c].all
          /\ r.row = build[c].row /\ r.docs = build[c].docs
          /\ r.older = build[c].older /\ r.overtaken = build[c].overtaken
          /\ r.missed = TRUE
      BY <3>1 DEF Build
    <3>3. build'[c] = IF c \in Storing THEN r ELSE build[c]
      BY <2>2
    <3> HIDE DEF r
    <3>4. build[c].missed \in BOOLEAN
      BY <3>1 DEF Build
    <3>5. QED
      BY <3>1, <3>2, <3>3, <3>4
  <2>4. build' \in [Builders -> Build]
    BY <2>2, <2>3
  <2>5. QED
    BY <1>2, <2>1, <2>3, <2>4
<1>3. QED
  BY <1>1, <1>2

\* A rebuild that reads.
LEMMA TrainPuts ==
  ASSUME TypeInv, NEW b \in Builders, NEW G \in SUBSET SystemTags, NEW T \in SUBSET Txs,
         Train(b, G, T)
  PROVE  \E r \in Build :
           /\ PutBuild(b, r)
           /\ r.at = IF build[b].all THEN "find" ELSE "store"
           /\ r.all = build[b].all
           /\ r.docs = TrainedFrom(build[b].all, G, T)
           /\ r.missed \/ r.docs = Trained(History(build[b].all))
           /\ r.overtaken = build[b].overtaken
           /\ r.older = IF build[b].all THEN {} ELSE Storing
<1> DEFINE all == build[b].all
           m == TrainedFrom(all, G, T)
           cut == m # Trained(History(all))
           O == IF all THEN {} ELSE Storing
           a == IF all THEN "find" ELSE "store"
           r1 == [build[b] EXCEPT !.docs = m]
           r2 == [r1 EXCEPT !.missed = cut]
           r3 == [r2 EXCEPT !.older = O]
           r == [r3 EXCEPT !.at = a]
<1>0. BuildsOK /\ TablesOK /\ build[b] \in Build
  BY DEF TypeInv, BuildsOK
<1>1. m \in Model
  <2>1. tagged \subseteq Docs /\ all \in BOOLEAN
    BY <1>0, Pairs DEF Build
  <2>2. QED
    BY <2>1, TrainedFromOK
<1>2. O \in SUBSET Builders /\ a \in {"find", "store"}
  BY DEF Storing
<1>2a. cut \in BOOLEAN /\ (cut \/ m = Trained(History(all)))
  OBVIOUS
<1>3. PutBuild(b, r)
  <2>1. build' = [build EXCEPT ![b].docs = m, ![b].missed = cut, ![b].older = O, ![b].at = a]
    BY DEF Train
  <2> HIDE DEF m, cut, O, a
  <2>2. QED
    BY <1>0, <2>1 DEF PutBuild, BuildsOK
<1> HIDE DEF m, cut, O, a
<1>4. r1 \in Build /\ r1.all = build[b].all /\ r1.docs = m /\ r1.overtaken = build[b].overtaken
  BY <1>0, <1>1 DEF Build
<1> HIDE DEF r1
<1>5. r2 \in Build /\ r2.all = r1.all /\ r2.docs = r1.docs /\ r2.overtaken = r1.overtaken
      /\ r2.missed = cut
  BY <1>4, <1>2a DEF Build
<1> HIDE DEF r2
<1>6. r3 \in Build /\ r3.all = r2.all /\ r3.docs = r2.docs /\ r3.overtaken = r2.overtaken
      /\ r3.missed = r2.missed /\ r3.older = O
  BY <1>2, <1>5 DEF Build
<1> HIDE DEF r3
<1>7. r \in Build /\ r.all = r3.all /\ r.docs = r3.docs /\ r.overtaken = r3.overtaken
      /\ r.missed = r3.missed /\ r.older = r3.older /\ r.at = a
  BY <1>2, <1>6 DEF Build
<1> HIDE DEF r
<1>8. QED
  BY <1>3, <1>4, <1>5, <1>6, <1>7, <1>2a DEF m, O, a

LEMMA FindPuts ==
  ASSUME TypeInv, NEW b \in Builders, NEW i \in 0 .. Len(shared), FindShared(b, i)
  PROVE  \E r \in Build :
           /\ PutBuild(b, r)
           /\ r.at = "write" /\ r.row = i
           /\ r.all = build[b].all /\ r.docs = build[b].docs
           /\ r.overtaken = build[b].overtaken /\ r.missed = build[b].missed
           /\ r.older = build[b].older
<1> DEFINE r1 == [build[b] EXCEPT !.at = "write"]
           r == [r1 EXCEPT !.row = i]
<1>0. BuildsOK /\ build[b] \in Build /\ i \in Nat
  BY DEF TypeInv, BuildsOK
<1>1. PutBuild(b, r)
  <2>1. build' = [build EXCEPT ![b].at = "write", ![b].row = i]
    BY DEF FindShared
  <2>2. QED
    BY <1>0, <2>1 DEF PutBuild, BuildsOK
<1>2. r1 \in Build /\ r1.at = "write" /\ r1.all = build[b].all /\ r1.docs = build[b].docs
      /\ r1.overtaken = build[b].overtaken /\ r1.missed = build[b].missed
      /\ r1.older = build[b].older
  BY <1>0 DEF Build
<1> HIDE DEF r1
<1>3. r \in Build /\ r.at = "write" /\ r.row = i /\ r.all = r1.all /\ r.docs = r1.docs
      /\ r.overtaken = r1.overtaken /\ r.missed = r1.missed
      /\ r.older = r1.older
  BY <1>0, <1>2 DEF Build
<1> HIDE DEF r
<1>4. QED
  BY <1>1, <1>2, <1>3

\* A request has a rebuild of its own, or takes what it has come to.
LEMMA BuildNowPuts ==
  ASSUME NEW p \in Procs, BuildNow(p)
  PROVE  \E r \in Build : PutBuild(p, r) /\ r.at = "read" /\ ~r.all /\ ~r.overtaken
<1> DEFINE r == [NoBuild EXCEPT !.at = "read"]
<1>1. r \in Build /\ r.at = "read" /\ ~r.all /\ ~r.overtaken
  BY DEF NoBuild, Build, NoModel, Model
<1>2. PutBuild(p, r)
  BY DEF BuildNow, PutBuild
<1> HIDE DEF r
<1>3. QED
  BY <1>1, <1>2

LEMMA InheritPuts ==
  ASSUME TypeInv, NEW p \in Procs, NEW i \in 0 .. Len(shared), Inherit(p, i)
  PROVE  \E r \in Build : PutBuild(p, r) /\ r.at = "adopt" /\ ~r.all
<1> DEFINE m == IF i = 0 THEN NoModel ELSE shared[i]
           r == [NoBuild EXCEPT !.at = "adopt", !.docs = m]
<1>1. m \in Model
  BY EmptyRows DEF TypeInv, BuildsOK
<1>2. PutBuild(p, r)
  BY DEF Inherit, PutBuild
<1> HIDE DEF m
<1>3. r \in Build /\ r.at = "adopt" /\ ~r.all
  BY <1>1 DEF NoBuild, Build
<1> HIDE DEF r
<1>4. QED
  BY <1>2, <1>3

LEMMA AdoptPuts ==
  ASSUME TypeInv, NEW p \in Procs, Adopt(p)
  PROVE  \E r \in Build : PutBuild(p, r) /\ r.at = "done" /\ r.all = build[p].all
<1> DEFINE r == [build[p] EXCEPT !.at = "done"]
<1>0. BuildsOK /\ build[p] \in Build
  BY DEF TypeInv, BuildsOK, Builders
<1>1. r \in Build /\ r.at = "done" /\ r.all = build[p].all
  BY <1>0 DEF Build
<1>2. PutBuild(p, r)
  BY <1>0 DEF Adopt, PutBuild, BuildsOK
<1> HIDE DEF r
<1>3. QED
  BY <1>1, <1>2

LEMMA BeginPuts ==
  ASSUME NEW b \in Slots, NEW all \in BOOLEAN, BeginBuild(b, all)
  PROVE  \E r \in Build : PutBuild(b, r) /\ r.at = "read" /\ r.all = all /\ ~r.overtaken
<1> DEFINE r == [NoBuild EXCEPT !.at = "read", !.all = all]
<1>1. r \in Build /\ r.at = "read" /\ r.all = all /\ ~r.overtaken
  BY DEF NoBuild, Build, NoModel, Model
<1>2. PutBuild(b, r)
  BY DEF BeginBuild, PutBuild
<1> HIDE DEF r
<1>3. QED
  BY <1>1, <1>2

LEMMA FreePuts ==
  ASSUME NEW b \in Builders, Await(b) \/ WriteShared(b) \/ SharedFails(b)
  PROVE  PutBuild(b, NoBuild)
  BY DEF Await, WriteShared, SharedFails, PutBuild

\* The steps in which a change is learned of or not.
Unlearning ==
  \E changed \in BOOLEAN : Unlearned(changed)

LEMMA TagSteps ==
  ASSUME \/ \E p \in Procs, heard \in BOOLEAN : CommitWrite(p, heard)
         \/ \E p \in Procs, t \in Txs, G \in SUBSET Tags, heard \in BOOLEAN :
              Create(p, t, G, heard)
         \/ \E t \in Txs : DeleteTx(t)
         \/ \E g \in Tags : DeleteTag(g)
         \/ \E p \in Procs : InsertTag(p)
  PROVE  Unlearning /\ UNCHANGED <<model, shared, due>>
<1>1. ASSUME NEW p \in Procs, NEW heard \in BOOLEAN, CommitWrite(p, heard)
      PROVE  Unlearning /\ UNCHANGED <<model, shared, due>>
  BY <1>1 DEF CommitWrite, Unlearning
<1>2. ASSUME NEW p \in Procs, NEW t \in Txs, NEW G \in SUBSET Tags, NEW heard \in BOOLEAN,
             Create(p, t, G, heard)
      PROVE  Unlearning /\ UNCHANGED <<model, shared, due>>
  BY <1>2 DEF Create, Unlearning
<1>3. ASSUME NEW t \in Txs, DeleteTx(t)
      PROVE  Unlearning /\ UNCHANGED <<model, shared, due>>
  BY <1>3 DEF DeleteTx, Unlearning
<1>4. ASSUME NEW g \in Tags, DeleteTag(g)
      PROVE  Unlearning /\ UNCHANGED <<model, shared, due>>
  BY <1>4 DEF DeleteTag, Unlearning
<1>5. ASSUME NEW p \in Procs, InsertTag(p)
      PROVE  Unlearning /\ UNCHANGED <<model, shared, due>>
  <2>1. Unlearned(FALSE) \/ \E changed \in BOOLEAN : Unlearned(changed)
    BY <1>5 DEF InsertTag, Unlearned
  <2>2. QED
    BY <1>5, <2>1 DEF InsertTag, Unlearning
<1>6. QED
  BY <1>1, <1>2, <1>3, <1>4, <1>5

\* Those that leave the classifier alone.
LEMMA OtherSteps ==
  ASSUME \/ \E p \in Procs :
              \/ BeginWrite(p) \/ RollBack(p) \/ GetModel(p) \/ EndImport(p)
              \/ \E reads \in BOOLEAN : SelectSimilar(p, reads)
              \/ \E t \in Txs, G \in SUBSET Tags : Update(p, t, G) \/ Classify(p, t, G)
              \/ \E t \in Txs, g \in Tags, include \in BOOLEAN : ApplySimilar(p, t, g, include)
              \/ \E include \in BOOLEAN, T \in SUBSET Txs : AutoTagBatch(p, include, T)
              \/ \E T \in SUBSET Txs : Import(p, T)
              \/ \E t \in Txs : InsertRow(p, t)
         \/ \E g \in Tags : CreateRule(g)
         \/ DeleteRule
         \/ UNCHANGED vars
  PROVE  UNCHANGED <<tagged, model, shared, due, build, lag>>
<1>1. ASSUME NEW p \in Procs,
             \/ BeginWrite(p) \/ RollBack(p) \/ GetModel(p) \/ EndImport(p)
             \/ \E reads \in BOOLEAN : SelectSimilar(p, reads)
      PROVE  UNCHANGED <<tagged, model, shared, due, build, lag>>
  BY <1>1 DEF BeginWrite, RollBack, SelectSimilar, GetModel, EndImport
<1>2. ASSUME NEW p \in Procs, NEW t \in Txs, NEW G \in SUBSET Tags,
             Update(p, t, G) \/ Classify(p, t, G)
      PROVE  UNCHANGED <<tagged, model, shared, due, build, lag>>
  BY <1>2 DEF Update, Classify
<1>3. ASSUME NEW p \in Procs,
             \/ \E t \in Txs, g \in Tags, include \in BOOLEAN : ApplySimilar(p, t, g, include)
             \/ \E include \in BOOLEAN, T \in SUBSET Txs : AutoTagBatch(p, include, T)
             \/ \E T \in SUBSET Txs : Import(p, T)
             \/ \E t \in Txs : InsertRow(p, t)
      PROVE  UNCHANGED <<tagged, model, shared, due, build, lag>>
  BY <1>3 DEF ApplySimilar, AutoTagBatch, Import, InsertRow
<1>4. CASE (\E g \in Tags : CreateRule(g)) \/ DeleteRule
  BY <1>4 DEF CreateRule, DeleteRule
<1>5. CASE UNCHANGED vars
  BY <1>5 DEF vars
<1>6. QED
  BY <1>1, <1>2, <1>3, <1>4, <1>5

LEMMA DueSteps ==
  ASSUME TypeInv, NEW p \in Procs, Learn(p) \/ EndBatch(p)
  PROVE  /\ due' = [due EXCEPT !.own = @ + 1] /\ due' \in [own : Nat, all : Nat] /\ due'.own > 0
         /\ UNCHANGED <<model, shared, build, lag>>
  BY DEF Learn, EndBatch, TypeInv, BuildsOK

LEMMA BuildsStep == TypeInv /\ [Next]_vars => BuildsOK' /\ lag' \in BOOLEAN
<1> SUFFICES ASSUME TypeInv, [Next]_vars PROVE BuildsOK' /\ lag' \in BOOLEAN
  OBVIOUS
<1>0. BuildsOK /\ lag \in BOOLEAN
  BY DEF TypeInv, CountsOK
<1>1. CASE UNCHANGED <<model, shared, due, build, lag>>
  BY <1>0, <1>1 DEF BuildsOK
<1>2. CASE Unlearning /\ UNCHANGED <<model, shared, due>>
  BY <1>0, <1>2, UnlearnedMarks DEF BuildsOK, Unlearning
<1>3. ASSUME NEW p \in Procs, Learn(p) \/ EndBatch(p) PROVE BuildsOK' /\ lag' \in BOOLEAN
  BY <1>0, <1>3, DueSteps DEF BuildsOK
<1>4. ASSUME NEW p \in Procs, BuildNow(p) PROVE BuildsOK' /\ lag' \in BOOLEAN
  <2>1. build' \in [Builders -> Build]
    BY <1>0, <1>4, BuildNowPuts, PutBuildOK DEF Builders
  <2>2. due' \in [own : Nat, all : Nat] /\ UNCHANGED <<model, shared, lag>>
    BY <1>0, <1>4 DEF BuildNow, BuildsOK
  <2>3. QED
    BY <1>0, <2>1, <2>2 DEF BuildsOK
<1>5. ASSUME NEW p \in Procs, Adopt(p) PROVE BuildsOK' /\ lag' \in BOOLEAN
  <2>1. build' \in [Builders -> Build]
    BY <1>0, <1>5, AdoptPuts, PutBuildOK DEF Builders
  <2>2. build[p].docs \in Model
    BY <1>0 DEF BuildsOK, Builders, Build
  <2>3. model' \in Model /\ lag' \in BOOLEAN /\ UNCHANGED <<shared, due>>
    BY <1>0, <1>5, <2>2 DEF Adopt, BuildsOK
  <2>4. QED
    BY <1>0, <2>1, <2>3 DEF BuildsOK
<1>6. ASSUME NEW p \in Procs, Await(p) PROVE BuildsOK' /\ lag' \in BOOLEAN
  <2>1. build' \in [Builders -> Build]
    BY <1>0, <1>6, FreePuts, PutBuildOK, EmptyRows DEF Builders
  <2>2. UNCHANGED <<model, shared, due, lag>>
    BY <1>6 DEF Await
  <2>3. QED
    BY <1>0, <2>1, <2>2 DEF BuildsOK
<1>7. ASSUME NEW p \in Procs, NEW i \in 0 .. Len(shared), Inherit(p, i)
      PROVE  BuildsOK' /\ lag' \in BOOLEAN
  <2>1. build' \in [Builders -> Build]
    BY <1>0, <1>7, InheritPuts, PutBuildOK DEF Builders
  <2>2. UNCHANGED <<model, shared, due, lag>>
    BY <1>7 DEF Inherit
  <2>3. QED
    BY <1>0, <2>1, <2>2 DEF BuildsOK
<1>8. ASSUME NEW b \in Slots, NEW all \in BOOLEAN, BeginBuild(b, all)
      PROVE  BuildsOK' /\ lag' \in BOOLEAN
  <2>1. build' \in [Builders -> Build]
    BY <1>0, <1>8, BeginPuts, PutBuildOK DEF Builders
  <2>2. due' \in [own : Nat, all : Nat] /\ UNCHANGED <<model, shared, lag>>
    BY <1>0, <1>8 DEF BeginBuild, BuildsOK
  <2>3. QED
    BY <1>0, <2>1, <2>2 DEF BuildsOK
<1>9. ASSUME NEW b \in Builders, NEW G \in SUBSET SystemTags, NEW T \in SUBSET Txs, Train(b, G, T)
      PROVE  BuildsOK' /\ lag' \in BOOLEAN
  <2>1. build' \in [Builders -> Build]
    BY <1>0, <1>9, TrainPuts, PutBuildOK
  <2>2. UNCHANGED <<model, shared, due, lag>>
    BY <1>9 DEF Train
  <2>3. QED
    BY <1>0, <2>1, <2>2 DEF BuildsOK
<1>10. ASSUME NEW b \in Builders, TrainFails(b)
       PROVE  BuildsOK' /\ lag' \in BOOLEAN
  <2>1. build' \in [Builders -> Build]
    BY <1>10, EndSteps DEF EndsBuild
  <2>2. lag' \in BOOLEAN /\ UNCHANGED <<model, shared, due>>
    BY <1>0, <1>10 DEF TrainFails
  <2>3. QED
    BY <1>0, <2>1, <2>2 DEF BuildsOK
<1>11. ASSUME NEW b \in Builders, Store(b)
       PROVE  BuildsOK' /\ lag' \in BOOLEAN
  <2>1. build' \in [Builders -> Build]
    BY <1>11, EndSteps DEF EndsBuild
  <2>2. build[b].docs \in Model /\ build[b].overtaken \in BOOLEAN /\ build[b].missed \in BOOLEAN
    BY <1>0 DEF BuildsOK, Build
  <2>3. model' \in Model /\ lag' \in BOOLEAN /\ shared' = shared
    BY <1>11, <2>2 DEF Store
  <2>4. due' \in [own : Nat, all : Nat]
    BY <1>0, <1>11 DEF BuildsOK, Store
  <2>5. QED
    BY <1>0, <2>1, <2>3, <2>4 DEF BuildsOK
<1>12. ASSUME NEW b \in Builders, StoreFails(b)
       PROVE  BuildsOK' /\ lag' \in BOOLEAN
  <2>1. build' \in [Builders -> Build]
    BY <1>12, EndSteps DEF EndsBuild
  <2>2. lag' \in BOOLEAN /\ UNCHANGED <<model, shared, due>>
    BY <1>0, <1>12 DEF StoreFails
  <2>3. QED
    BY <1>0, <2>1, <2>2 DEF BuildsOK
<1>13. ASSUME NEW b \in Builders, NEW i \in 0 .. Len(shared), FindShared(b, i)
       PROVE  BuildsOK' /\ lag' \in BOOLEAN
  <2>1. build' \in [Builders -> Build]
    BY <1>0, <1>13, FindPuts, PutBuildOK
  <2>2. UNCHANGED <<model, shared, due, lag>>
    BY <1>13 DEF FindShared
  <2>3. QED
    BY <1>0, <2>1, <2>2 DEF BuildsOK
<1>14. ASSUME NEW b \in Builders, WriteShared(b) \/ SharedFails(b)
       PROVE  BuildsOK' /\ lag' \in BOOLEAN
  <2>1. build' \in [Builders -> Build]
    BY <1>0, <1>14, FreePuts, PutBuildOK, EmptyRows
  <2>2. build[b].docs \in Model /\ build[b].row \in Nat
    BY <1>0 DEF BuildsOK, Build
  <2>3. shared' \in Seq(Model)
    <3> DEFINE i == build[b].row
               m == build[b].docs
    <3>1. CASE shared' = Append(shared, m)
      BY <1>0, <2>2, <3>1 DEF BuildsOK
    <3>2. CASE shared' = [shared EXCEPT ![i] = m] /\ i \in 1 .. Len(shared)
      BY <1>0, <2>2, <3>2 DEF BuildsOK
    <3>3. CASE shared' = [shared EXCEPT ![i] = m] /\ i \notin 1 .. Len(shared)
      <4>1. shared \in Seq(Model) /\ DOMAIN shared = 1 .. Len(shared)
        BY <1>0 DEF BuildsOK
      <4>2. shared' = shared
        BY <3>3, <4>1
      <4>3. QED
        BY <4>1, <4>2
    <3>4. shared' = shared \/ shared' = Append(shared, m) \/ shared' = [shared EXCEPT ![i] = m]
      BY <1>14 DEF WriteShared, SharedFails
    <3>5. QED
      BY <1>0, <3>1, <3>2, <3>3, <3>4 DEF BuildsOK
  <2>4. UNCHANGED <<model, due, lag>>
    BY <1>14 DEF WriteShared, SharedFails
  <2>5. QED
    BY <1>0, <2>1, <2>3, <2>4 DEF BuildsOK
<1>15. CASE Stop
  <2>1. build' = [b \in Builders |-> NoBuild] /\ due' = [own |-> 0, all |-> 0] /\ lag' = TRUE
        /\ UNCHANGED <<model, shared>>
    BY <1>15 DEF Stop
  <2>2. QED
    BY <1>0, <2>1, EmptyRows DEF BuildsOK
<1>16. QED
  BY <1>1, <1>2, <1>3, <1>4, <1>5, <1>6, <1>7, <1>8, <1>9, <1>10, <1>11, <1>12, <1>13, <1>14,
     <1>15, TagSteps, OtherSteps DEF Next

LEMMA CountsStep == TypeInv /\ [Next]_vars => started' \in Nat /\ faults' \in Nat
<1> SUFFICES ASSUME TypeInv, [Next]_vars PROVE started' \in Nat /\ faults' \in Nat
  OBVIOUS
<1>0. started \in Nat /\ faults \in Nat
  BY DEF TypeInv, CountsOK
<1>1. ASSUME Counted PROVE started' \in Nat
  BY <1>0, <1>1 DEF Counted
<1>2. ASSUME NEW fails, Fault(fails) PROVE faults' \in Nat
  BY <1>0, <1>2 DEF Fault
<1>3. ASSUME NEW p \in Procs,
             BeginWrite(p) \/ Learn(p) \/ GetModel(p) \/ Await(p)
               \/ EndBatch(p) \/ InsertTag(p) \/ EndImport(p)
      PROVE  UNCHANGED <<started, faults>>
  BY <1>3 DEF BeginWrite, Learn, GetModel, Await, EndBatch, InsertTag, EndImport
<1>4. ASSUME NEW p \in Procs, \/ RollBack(p) \/ BuildNow(p) \/ Adopt(p)
                               \/ \E reads \in BOOLEAN : SelectSimilar(p, reads)
      PROVE  started' = started /\ \E fails : Fault(fails)
  BY <1>4 DEF RollBack, BuildNow, Adopt, SelectSimilar
<1>5. ASSUME NEW p \in Procs, NEW heard \in BOOLEAN, CommitWrite(p, heard)
      PROVE  started' = started /\ \E fails : Fault(fails)
  BY <1>5 DEF CommitWrite
<1>6. ASSUME NEW p \in Procs, NEW i \in 0 .. Len(shared), Inherit(p, i)
      PROVE  started' = started /\ \E fails : Fault(fails)
  BY <1>6 DEF Inherit
<1>7. ASSUME NEW p \in Procs, NEW t \in Txs, NEW G \in SUBSET Tags, Update(p, t, G)
      PROVE  Counted /\ faults' = faults
  BY <1>7 DEF Update, ComesIn
<1>8. ASSUME NEW p \in Procs, NEW t \in Txs, NEW G \in SUBSET Tags, NEW heard \in BOOLEAN,
             Create(p, t, G, heard)
      PROVE  Counted /\ \E fails : Fault(fails)
  BY <1>8 DEF Create, ComesIn
<1>9. ASSUME NEW p \in Procs,
             \/ \E t \in Txs, g \in Tags, include \in BOOLEAN : ApplySimilar(p, t, g, include)
             \/ \E T \in SUBSET Txs : Import(p, T)
      PROVE  Counted /\ faults' = faults
  BY <1>9 DEF ApplySimilar, Import, ComesIn
<1>10. ASSUME NEW p \in Procs, NEW t \in Txs, InsertRow(p, t)
              \/ \E G \in SUBSET Tags : Classify(p, t, G)
       PROVE  UNCHANGED <<started, faults>>
  BY <1>10 DEF InsertRow, Classify
<1>11. CASE (\E t \in Txs : DeleteTx(t)) \/ (\E g \in Tags : DeleteTag(g) \/ CreateRule(g))
            \/ DeleteRule
  BY <1>0, <1>1, <1>11 DEF DeleteTx, DeleteTag, CreateRule, DeleteRule
<1>12. ASSUME NEW b \in Builders,
              \/ (b \in Slots /\ \E all \in BOOLEAN : BeginBuild(b, all)) \/ Store(b)
              \/ (\E i \in 0 .. Len(shared) : FindShared(b, i)) \/ WriteShared(b)
       PROVE  UNCHANGED <<started, faults>>
  BY <1>12 DEF BeginBuild, Store, FindShared, WriteShared
<1>13. ASSUME NEW b \in Builders,
              \/ \E G \in SUBSET SystemTags, T \in SUBSET Txs : Train(b, G, T)
              \/ TrainFails(b) \/ StoreFails(b) \/ SharedFails(b)
       PROVE  started' = started /\ \E fails : Fault(fails)
  BY <1>13 DEF Train, TrainFails, StoreFails, SharedFails
<1>14. CASE Stop
  BY <1>0, <1>2, <1>14 DEF Stop
<1>15. CASE UNCHANGED vars
  BY <1>0, <1>15 DEF vars
<1>16. ASSUME NEW p \in Procs, NEW include \in BOOLEAN, NEW T \in SUBSET Txs,
              AutoTagBatch(p, include, T)
       PROVE  Counted /\ \E fails : Fault(fails)
  BY <1>16 DEF AutoTagBatch, ComesIn
<1>17. QED
  BY <1>0, <1>1, <1>2, <1>3, <1>4, <1>5, <1>6, <1>7, <1>8, <1>9, <1>10, <1>11, <1>12, <1>13,
     <1>14, <1>15, <1>16 DEF Next, Builders

LEMMA TypesInit == Init => TypeInv
<1> SUFFICES ASSUME Init PROVE TypeInv
  OBVIOUS
<1>1. tx \in [Txs -> [at : {"new", "there", "gone"}, manual : BOOLEAN]]
  <2>1. {[at |-> "new", manual |-> FALSE], [at |-> "there", manual |-> FALSE],
         [at |-> "there", manual |-> TRUE]}
          \subseteq [at : {"new", "there", "gone"}, manual : BOOLEAN]
    OBVIOUS
  <2>2. QED
    BY <2>1 DEF Init
<1>2. tagged \subseteq There \X tags /\ tagged \subseteq Docs
  BY DEF Init, There, Docs
<1>3. hand \in [Txs -> SUBSET Tags] /\ excused \in [Txs -> BOOLEAN]
  <2>1. \A t \in Txs : {d[2] : d \in {e \in tagged : e[1] = t}} \in SUBSET Tags
    BY <1>2 DEF Docs
  <2>2. QED
    BY <2>1 DEF Init
<1>4. TablesOK
  BY <1>1, <1>2, <1>3 DEF Init, TablesOK
<1>5. RequestsOK
  <2>1. req = [p \in Procs |-> Idle]
    BY DEF Init
  <2>2. QED
    BY <2>1, EmptyRows DEF RequestsOK, Chosen, Idle
<1>6. BuildsOK /\ lag \in BOOLEAN
  <2>1. Trained(tagged) \in Model /\ Trained({}) \in Model
    BY <1>2, TrainedOK
  <2>2. model \in Model /\ lag \in BOOLEAN
    BY <2>1, EmptyRows DEF Init
  <2>3. shared \in Seq(Model)
    <3> DEFINE m == Trained({})
    <3>1. m \in Model /\ (shared = <<>> \/ shared = <<m>>)
      BY <2>1 DEF Init
    <3> HIDE DEF m
    <3>2. <<m>> \in Seq(Model)
      BY <3>1
    <3>3. <<>> \in Seq(Model)
      OBVIOUS
    <3>4. QED
      BY <3>1, <3>2, <3>3
  <2>4. build \in [Builders -> Build] /\ due \in [own : Nat, all : Nat]
    BY EmptyRows DEF Init
  <2>5. QED
    BY <2>2, <2>3, <2>4 DEF BuildsOK
<1>7. started \in Nat /\ faults \in Nat
  BY DEF Init
<1>8. QED
  BY <1>4, <1>5, <1>6, <1>7 DEF TypeInv, CountsOK

LEMMA TypesStep == TypeInv /\ [Next]_vars => TypeInv'
  BY TablesStep, RequestsStep, BuildsStep, CountsStep DEF TypeInv, CountsOK

LEMMA TypesHold == Spec => []TypeInv
  BY TypesInit, TypesStep, PTL DEF Spec

\* Tables, requests and rebuilds are well typed; a tag in use exists, on a
\* transaction that exists, whatever is deleted between the statements of a
\* write (internal/repository/transaction.go:212-269, 481-510).
THEOREM TypeCorrect == Spec => []TypeOK
  BY TypesHold, TypesIn, PTL

-----------------------------------------------------------------------------
(* What all families share.                                                *)

\* Only a rebuild for all looks for the shared row, with tags that all may
\* learn, and no request does.
ForAllPure ==
  /\ \A b \in Builders : build[b].at \in {"find", "write"} =>
       build[b].all /\ build[b].docs.docs \subseteq Txs \X SystemTags
  /\ \A p \in Procs : ~build[p].all

\* The rebuilds that have found no shared row and are to insert one.
Inserting == {b \in Slots : build[b].at = "write" /\ build[b].row = 0}
RowsBounded == Len(shared) + Cardinality(Inserting) <= Cardinality(Slots)

SharedInv == ForAllPure /\ SharedPure /\ RowsBounded

LEMMA Inserters ==
  ASSUME NEW S, S \subseteq Slots
  PROVE  /\ IsFiniteSet(S) /\ Cardinality(S) \in Nat
         /\ Cardinality(S) <= Cardinality(Slots) /\ Cardinality(Slots) \in Nat
  BY TaggingAssumption, FS_Subset, FS_CardinalityType

LEMMA SharedInit == Init => SharedInv
<1> SUFFICES ASSUME Init PROVE SharedInv
  OBVIOUS
<1>1. \A b \in Builders : build[b].at = "idle" /\ ~build[b].all
  BY DEF Init, NoBuild
<1>2. ForAllPure
  BY <1>1 DEF ForAllPure, Builders
<1>3. SharedPure
  <2>1. shared = <<>> \/ (shared = <<Trained({})>> /\ Trained({}).docs = {})
    BY DEF Init, Trained
  <2>2. QED
    BY <2>1 DEF SharedPure
<1>4. RowsBounded
  <2>1. Inserting = {}
    BY <1>1 DEF Inserting, Builders
  <2>2. Cardinality(Inserting) = 0
    BY <2>1, FS_EmptySet
  <2>3. Len(shared) <= 1
    <3> DEFINE m == Trained({})
    <3>1. shared = <<>> \/ shared = <<m>>
      BY DEF Init
    <3> HIDE DEF m
    <3>2. CASE shared = <<>>
      BY <3>2
    <3>3. CASE shared = <<m>>
      BY <3>3
    <3>4. QED
      BY <3>1, <3>2, <3>3
  <2>4. Cardinality(Slots) >= 1
    <3>1. PICK b \in Slots : TRUE
      BY TaggingAssumption
    <3>2. Cardinality({b}) = 1
      BY FS_Singleton
    <3>3. Cardinality({b}) <= Cardinality(Slots)
      BY Inserters
    <3>4. QED
      BY <3>2, <3>3, Inserters
  <2>5. Len(shared) \in Nat
    BY TypesInit DEF TypeInv, BuildsOK
  <2>6. QED
    BY <2>2, <2>3, <2>4, <2>5, Inserters DEF RowsBounded
<1>5. QED
  BY <1>2, <1>3, <1>4 DEF SharedInv

\* A step after which nobody is on the way to the shared row who was not before.
LEMMA SharedStays ==
  ASSUME TypeInv, SharedInv, shared' = shared,
         \A b \in Builders : build'[b].at \in {"find", "write"} =>
           /\ build'[b].at = build[b].at /\ build'[b].all = build[b].all
           /\ build'[b].docs = build[b].docs /\ build'[b].row = build[b].row,
         \A p \in Procs : ~build'[p].all
  PROVE  SharedInv'
<1>1. ForAllPure'
  BY DEF SharedInv, ForAllPure
<1>2. SharedPure'
  BY DEF SharedInv, SharedPure
<1>3. RowsBounded'
  <2>1. Inserting' \subseteq Inserting /\ Inserting \subseteq Slots
    BY DEF Inserting, Builders
  <2>2. Cardinality(Inserting') <= Cardinality(Inserting)
    BY <2>1, Inserters, FS_Subset
  <2>3. Cardinality(Inserting') \in Nat /\ Cardinality(Inserting) \in Nat
    BY <2>1, Inserters
  <2>4. Len(shared) \in Nat
    BY DEF TypeInv, BuildsOK
  <2>5. QED
    BY <2>2, <2>3, <2>4, Inserters DEF SharedInv, RowsBounded
<1>4. QED
  BY <1>1, <1>2, <1>3 DEF SharedInv

LEMMA TrainShared ==
  ASSUME TypeInv, SharedInv, NEW b \in Builders, NEW G \in SUBSET SystemTags,
         NEW T \in SUBSET Txs, Train(b, G, T)
  PROVE  SharedInv'
<1>0. BuildsOK /\ ForAllPure
  BY DEF TypeInv, SharedInv
<1>1. PICK r \in Build :
        /\ PutBuild(b, r)
        /\ r.at = IF build[b].all THEN "find" ELSE "store"
        /\ r.all = build[b].all
        /\ r.docs = TrainedFrom(build[b].all, G, T)
  BY TrainPuts
<1>2. /\ build'[b] = r
      /\ \A c \in Builders \ {b} : build'[c] = build[c]
  BY <1>0, <1>1, PutBuildOK
<1>3. build[b].all => r.docs.docs \subseteq Txs \X SystemTags
  <2>1. tagged \subseteq Docs
    BY Pairs DEF TypeInv
  <2>2. {d \in tagged : d[2] \in SystemTags} \subseteq Txs \X SystemTags
    BY <2>1 DEF Docs
  <2>3. r.docs.docs \subseteq History(build[b].all)
    <3>1. build[b].all \in BOOLEAN
      BY <1>0 DEF BuildsOK, Build
    <3>2. QED
      BY <1>1, <2>1, <3>1, TrainedFromOK
  <2>4. QED
    BY <2>2, <2>3 DEF History
<1>4. ForAllPure'
  BY <1>0, <1>1, <1>2, <1>3 DEF ForAllPure, Builders
<1>5. shared' = shared
  BY DEF Train
<1>6. SharedPure'
  BY <1>5 DEF SharedInv, SharedPure
<1>7. Inserting' = Inserting
  <2>1. build[b].at = "read" /\ build'[b].at # "write"
    BY <1>1, <1>2 DEF Train
  <2>2. QED
    BY <1>2, <2>1 DEF Inserting, Builders
<1>8. QED
  BY <1>4, <1>5, <1>6, <1>7 DEF SharedInv, RowsBounded

LEMMA FindSharedKeeps ==
  ASSUME TypeInv, SharedInv, NEW b \in Builders, NEW i \in 0 .. Len(shared), FindShared(b, i)
  PROVE  SharedInv'
<1>0. BuildsOK /\ ForAllPure
  BY DEF TypeInv, SharedInv
<1>1. PICK r \in Build :
        /\ PutBuild(b, r)
        /\ r.at = "write" /\ r.row = i
        /\ r.all = build[b].all /\ r.docs = build[b].docs
  BY FindPuts
<1>2. /\ build'[b] = r
      /\ \A c \in Builders \ {b} : build'[c] = build[c]
  BY <1>0, <1>1, PutBuildOK
<1>3. build[b].at = "find" /\ shared' = shared /\ (i \in DOMAIN shared \/ (shared = <<>> /\ i = 0))
  BY DEF FindShared
<1>4. ForAllPure'
  BY <1>0, <1>1, <1>2, <1>3 DEF ForAllPure, Builders
<1>5. SharedPure'
  BY <1>3 DEF SharedInv, SharedPure
<1>6. RowsBounded'
  <2>0. shared \in Seq(Model)
    BY <1>0 DEF BuildsOK
  <2>1. CASE i \in DOMAIN shared
    <3>1. i # 0
      BY <2>0, <2>1
    <3>2. Inserting' = Inserting
      BY <1>1, <1>2, <1>3, <3>1 DEF Inserting, Builders
    <3>3. QED
      BY <1>3, <3>2 DEF SharedInv, RowsBounded
  <2>2. CASE shared = <<>>
    <3>1. Inserting' \subseteq Slots /\ Len(shared') = 0
      BY <1>3, <2>2 DEF Inserting
    <3>2. QED
      BY <3>1, Inserters DEF RowsBounded
  <2>3. QED
    BY <1>3, <2>1, <2>2
<1>7. QED
  BY <1>4, <1>5, <1>6 DEF SharedInv

LEMMA WriteSharedKeeps ==
  ASSUME TypeInv, SharedInv, NEW b \in Builders, WriteShared(b)
  PROVE  SharedInv'
<1> DEFINE r == build[b]
<1>0. BuildsOK /\ ForAllPure /\ r \in Build
  BY DEF TypeInv, SharedInv, BuildsOK
<1>1. /\ build'[b] = NoBuild
      /\ \A c \in Builders \ {b} : build'[c] = build[c]
  BY <1>0, FreePuts, PutBuildOK, EmptyRows
<1>2. r.at = "write" /\ shared \in Seq(Model) /\ r.row \in Nat /\ r.docs \in Model
      /\ r.docs.docs \subseteq Txs \X SystemTags
  BY <1>0 DEF WriteShared, ForAllPure, BuildsOK, Build
<1>3. b \in Slots
  BY <1>0, <1>2 DEF ForAllPure, Builders
<1>4. ForAllPure'
  BY <1>0, <1>1 DEF ForAllPure, Builders, NoBuild
<1>5. Inserting' = Inserting \ {b}
  BY <1>1 DEF Inserting, Builders, NoBuild
<1>6. Inserting \subseteq Slots /\ Cardinality(Inserting) \in Nat /\ Len(shared) \in Nat
      /\ Cardinality(Inserting') \in Nat
  BY <1>2, <1>5, Inserters DEF Inserting
<1>7. CASE r.row = 0
  <2>1. shared' = Append(shared, r.docs)
    BY <1>7 DEF WriteShared
  <2>2. b \in Inserting
    BY <1>2, <1>3, <1>7 DEF Inserting
  <2>3. Cardinality(Inserting') = Cardinality(Inserting) - 1
    BY <1>5, <1>6, <2>2, Inserters, FS_RemoveElement
  <2>4. Len(shared') = Len(shared) + 1
    BY <1>2, <2>1
  <2>5. RowsBounded'
    BY <1>6, <2>3, <2>4, Inserters DEF SharedInv, RowsBounded
  <2>6. SharedPure'
    <3>1. ASSUME NEW i \in DOMAIN shared' PROVE \A d \in shared'[i].docs : d[2] \in SystemTags
      <4>1. i \in DOMAIN shared \/ shared'[i] = r.docs
        BY <1>2, <2>1
      <4>2. i \in DOMAIN shared => shared'[i] = shared[i]
        BY <1>2, <2>1
      <4>3. QED
        BY <1>2, <4>1, <4>2 DEF SharedInv, SharedPure
    <3>2. QED
      BY <3>1 DEF SharedPure
  <2>7. QED
    BY <1>4, <2>5, <2>6 DEF SharedInv
<1>8. CASE r.row # 0
  <2>1. shared' = [shared EXCEPT ![r.row] = r.docs]
    BY <1>8 DEF WriteShared
  <2>2. b \notin Inserting
    BY <1>8 DEF Inserting
  <2>3. Inserting' = Inserting
    BY <1>5, <2>2
  <2>4. Len(shared') = Len(shared) /\ DOMAIN shared' = DOMAIN shared
    BY <1>2, <2>1
  <2>5. RowsBounded'
    BY <2>3, <2>4 DEF SharedInv, RowsBounded
  <2>6. SharedPure'
    BY <1>2, <2>1, <2>4 DEF SharedInv, SharedPure
  <2>7. QED
    BY <1>4, <2>5, <2>6 DEF SharedInv
<1>9. QED
  BY <1>7, <1>8

LEMMA SharedStep == TypeInv /\ SharedInv /\ [Next]_vars => SharedInv'
<1> SUFFICES ASSUME TypeInv, SharedInv, [Next]_vars PROVE SharedInv'
  OBVIOUS
<1>0. BuildsOK /\ lag \in BOOLEAN /\ (\A p \in Procs : ~build[p].all)
  BY DEF TypeInv, SharedInv, ForAllPure, CountsOK
<1>1. CASE UNCHANGED <<shared, build>>
  BY <1>0, <1>1, SharedStays
<1>2. CASE Unlearning /\ UNCHANGED <<model, shared, due>>
  BY <1>0, <1>2, UnlearnedMarks, SharedStays DEF Unlearning, Builders
<1>3. ASSUME NEW p \in Procs, Learn(p) \/ EndBatch(p) PROVE SharedInv'
  BY <1>1, <1>3, DueSteps
<1>4. ASSUME NEW b \in Builders, NEW r \in Build, PutBuild(b, r), shared' = shared,
             r.at \notin {"find", "write"}, ~r.all \/ b \in Slots
      PROVE  SharedInv'
  <2>1. \A c \in Builders : build'[c] = IF c = b THEN r ELSE build[c]
    BY <1>0, <1>4, PutBuildOK
  <2>2. \A p \in Procs : ~build'[p].all
    BY <1>0, <1>4, <2>1, TaggingAssumption DEF Builders
  <2>3. QED
    BY <1>4, <2>1, <2>2, SharedStays
<1>5. ASSUME NEW p \in Procs,
             \/ BuildNow(p) \/ Adopt(p) \/ Await(p)
             \/ \E i \in 0 .. Len(shared) : Inherit(p, i)
      PROVE  SharedInv'
  <2>1. shared' = shared /\ p \in Builders
    BY <1>5 DEF BuildNow, Adopt, Await, Inherit, Builders
  <2>2. NoBuild.at = "idle" /\ ~NoBuild.all
    BY DEF NoBuild
  <2>3. \E r \in Build : PutBuild(p, r) /\ r.at \notin {"find", "write"} /\ ~r.all
    BY <1>0, <1>5, <2>1, <2>2, BuildNowPuts, AdoptPuts, InheritPuts, FreePuts, EmptyRows
  <2>4. QED
    BY <1>4, <2>1, <2>3
<1>6. ASSUME NEW b \in Slots, NEW all \in BOOLEAN, BeginBuild(b, all) PROVE SharedInv'
  <2>1. shared' = shared /\ b \in Builders
    BY <1>6 DEF BeginBuild, Builders
  <2>2. QED
    BY <1>4, <1>6, <2>1, BeginPuts
<1>7. ASSUME NEW b \in Builders, SharedFails(b) PROVE SharedInv'
  <2>1. shared' = shared /\ NoBuild.at = "idle" /\ ~NoBuild.all
    BY <1>7 DEF SharedFails, NoBuild
  <2>2. QED
    BY <1>4, <1>7, <2>1, FreePuts, EmptyRows
<1>8. ASSUME NEW b \in Builders, TrainFails(b) \/ Store(b) \/ StoreFails(b) PROVE SharedInv'
  <2>1. shared' = shared
    BY <1>8 DEF TrainFails, Store, StoreFails
  <2>2. \E M, O : EndsBuild(b, M, O)
    BY <1>8, EndSteps
  <2>3. QED
    BY <1>0, <2>1, <2>2, SharedStays DEF EndsBuild, Builders
<1>9. CASE Stop
  <2>1. build' = [b \in Builders |-> NoBuild] /\ shared' = shared
    BY <1>9 DEF Stop
  <2>2. \A b \in Builders : build'[b].at = "idle" /\ ~build'[b].all
    BY <2>1 DEF NoBuild
  <2>3. QED
    BY <2>1, <2>2, SharedStays DEF Builders
<1>10. QED
  BY <1>1, <1>2, <1>3, <1>5, <1>6, <1>7, <1>8, <1>9, TrainShared, FindSharedKeeps,
     WriteSharedKeeps, TagSteps, OtherSteps DEF Next

\* What overlapping rebuilds leave without a family is for all families: no tag
\* of one, and no more rows than rebuilds that run at once
\* (internal/classifier/trainer.go:13-79,
\* internal/repository/classifier_state.go:97-116).
THEOREM SharedStaysSound == Spec => []SharedSound
<1>1. TypeInv /\ SharedInv => SharedSound
  <2> SUFFICES ASSUME TypeInv, SharedInv PROVE SharedSound
    OBVIOUS
  <2>1. Inserting \subseteq Slots /\ Len(shared) \in Nat
    BY DEF Inserting, TypeInv, BuildsOK
  <2>2. SharedOnceUnlessOverlap
    BY <2>1, Inserters DEF SharedInv, RowsBounded, SharedOnceUnlessOverlap
  <2>3. QED
    BY <2>2 DEF SharedInv, SharedSound
<1>2. QED
  BY <1>1, SharedInit, SharedStep, TypesHold, PTL DEF Spec

-----------------------------------------------------------------------------
(* What the steps make of the requests.                                    *)

Others(p) == \A q \in Procs \ {p} : req'[q] = req[q]

\* What a request is for stays.
Keeps(p) ==
  /\ req'[p].kind = req[p].kind /\ req'[p].on = req[p].on /\ req'[p].plan = req[p].plan
  /\ req'[p].left = req[p].left /\ req'[p].include = req[p].include
  /\ req'[p].alone = req[p].alone /\ req'[p].since = req[p].since

LEMMA ReqFacts ==
  ASSUME TypeInv
  PROVE  req \in [Procs -> Request] /\ \A p \in Procs : req[p] \in Request
  BY DEF TypeInv, RequestsOK

\* The requests as they come in.
UpdateRow(t, G) ==
  [Idle EXCEPT !.at = "delete", !.kind = "update", !.on = {t}, !.plan = {t} \X G]
CreateRow(t, G) ==
  [Idle EXCEPT !.at = "learn", !.kind = "create", !.on = {t}, !.plan = {t} \X G]
SimilarRow(t, g, include) ==
  [Idle EXCEPT !.at = "select", !.kind = "similar", !.plan = {<<t, g>>}, !.include = include]
BatchRow(include, T) ==
  [Idle EXCEPT !.at = "model", !.kind = "batch", !.left = T, !.include = include]
ImportRow(T) == [Idle EXCEPT !.at = "model", !.kind = "import", !.left = T, !.on = T]

LEMMA ComesUpdate ==
  ASSUME TypeInv, NEW p \in Procs, NEW t \in Txs, NEW G \in SUBSET Tags, Update(p, t, G)
  PROVE  /\ Others(p) /\ req[p] = Idle /\ t \in There
         /\ req'[p] = UpdateRow(t, G)
  BY ReqFacts DEF Update, ComesIn, Others, UpdateRow

LEMMA ComesCreate ==
  ASSUME TypeInv, NEW p \in Procs, NEW t \in Txs, NEW G \in SUBSET Tags,
         NEW heard \in BOOLEAN, Create(p, t, G, heard)
  PROVE  /\ Others(p) /\ req[p] = Idle
         /\ \/ req'[p] = Idle /\ (G = {} \/ ~heard)
            \/ req'[p] = CreateRow(t, G)
  BY ReqFacts DEF Create, ComesIn, Others, CreateRow

LEMMA ComesSimilar ==
  ASSUME TypeInv, NEW p \in Procs, NEW t \in Txs, NEW g \in Tags, NEW include \in BOOLEAN,
         ApplySimilar(p, t, g, include)
  PROVE  /\ Others(p) /\ req[p] = Idle
         /\ req'[p] = SimilarRow(t, g, include)
  BY ReqFacts DEF ApplySimilar, ComesIn, Others, SimilarRow

LEMMA ComesBatch ==
  ASSUME TypeInv, NEW p \in Procs, NEW include \in BOOLEAN, NEW T \in SUBSET Txs,
         AutoTagBatch(p, include, T)
  PROVE  /\ Others(p) /\ req[p] = Idle /\ T \subseteq Untagged(include)
         /\ \/ req'[p] = Idle
            \/ req'[p] = BatchRow(include, T)
  BY ReqFacts DEF AutoTagBatch, ComesIn, Others, BatchRow

LEMMA ComesImport ==
  ASSUME TypeInv, NEW p \in Procs, NEW T \in SUBSET Txs, Import(p, T)
  PROVE  /\ Others(p) /\ req[p] = Idle
         /\ req'[p] = ImportRow(T)
  BY ReqFacts DEF Import, ComesIn, Others, ImportRow

LEMMA RowFields ==
  /\ \A t, G : /\ UpdateRow(t, G).at = "delete" /\ UpdateRow(t, G).kind = "update"
              /\ UpdateRow(t, G).on = {t} /\ UpdateRow(t, G).plan = {t} \X G
              /\ UpdateRow(t, G).left = {}
              /\ CreateRow(t, G).at = "learn" /\ CreateRow(t, G).kind = "create"
  /\ \A t, g, include :
       /\ SimilarRow(t, g, include).at = "select" /\ SimilarRow(t, g, include).kind = "similar"
  /\ \A include, T :
       /\ BatchRow(include, T).at = "model" /\ BatchRow(include, T).kind = "batch"
       /\ BatchRow(include, T).left = T /\ BatchRow(include, T).include = include
  /\ \A T : ImportRow(T).at = "model" /\ ImportRow(T).kind = "import"
  BY DEF Idle, UpdateRow, CreateRow, SimilarRow, BatchRow, ImportRow

ComesAs(p) ==
  /\ Others(p) /\ req[p] = Idle
  /\ \/ req'[p] = Idle
     \/ req'[p].at = "delete" /\ req'[p].kind = "update"
     \/ req'[p].at = "learn"
     \/ req'[p].at = "select" /\ req'[p].kind = "similar"
     \/ req'[p].at = "model" /\ req'[p].kind \in {"batch", "import"}

LEMMA ShapeComesAs ==
  ASSUME TypeInv, NEW p \in Procs,
         \/ \E t \in Txs, G \in SUBSET Tags : Update(p, t, G)
         \/ \E t \in Txs, G \in SUBSET Tags, heard \in BOOLEAN : Create(p, t, G, heard)
         \/ \E t \in Txs, g \in Tags, include \in BOOLEAN : ApplySimilar(p, t, g, include)
         \/ \E include \in BOOLEAN, T \in SUBSET Txs : AutoTagBatch(p, include, T)
         \/ \E T \in SUBSET Txs : Import(p, T)
  PROVE  ComesAs(p)
<1>1. ASSUME NEW t \in Txs, NEW G \in SUBSET Tags, Update(p, t, G) PROVE ComesAs(p)
  BY <1>1, ComesUpdate, RowFields DEF ComesAs
<1>2. ASSUME NEW t \in Txs, NEW G \in SUBSET Tags, NEW heard \in BOOLEAN, Create(p, t, G, heard)
      PROVE  ComesAs(p)
  <2>1. Others(p) /\ req[p] = Idle /\ (req'[p] = Idle \/ req'[p] = CreateRow(t, G))
    BY <1>2, ComesCreate
  <2>2. CreateRow(t, G).at = "learn"
    BY RowFields
  <2>3. QED
    BY <2>1, <2>2 DEF ComesAs
<1>3. ASSUME NEW t \in Txs, NEW g \in Tags, NEW include \in BOOLEAN,
             ApplySimilar(p, t, g, include)
      PROVE  ComesAs(p)
  BY <1>3, ComesSimilar, RowFields DEF ComesAs
<1>4. ASSUME NEW include \in BOOLEAN, NEW T \in SUBSET Txs, AutoTagBatch(p, include, T)
      PROVE  ComesAs(p)
  BY <1>4, ComesBatch, RowFields DEF ComesAs
<1>5. ASSUME NEW T \in SUBSET Txs, Import(p, T) PROVE ComesAs(p)
  BY <1>5, ComesImport, RowFields DEF ComesAs
<1>6. QED
  BY <1>1, <1>2, <1>3, <1>4, <1>5

\* It ends.
LEMMA ShapeEnds ==
  ASSUME TypeInv, NEW p \in Procs,
         Learn(p) \/ EndBatch(p) \/ EndImport(p) \/ (RollBack(p) /\ req[p].kind # "batch")
  PROVE  Others(p) /\ req'[p] = Idle
  BY ReqFacts DEF Learn, EndBatch, EndImport, RollBack, Finish, Others

\* It goes on to another statement.
LEMMA ShapeGoesOn ==
  ASSUME TypeInv, NEW p \in Procs,
         \/ GetModel(p) \/ Await(p) \/ (RollBack(p) /\ req[p].kind = "batch")
         \/ BuildNow(p) \/ (\E i \in 0 .. Len(shared) : Inherit(p, i))
  PROVE  /\ Others(p) /\ Keeps(p)
         /\ req'[p].at \in {"next", "await"}
         /\ req[p].at \in {"model", "await"} \/ req[p].kind = "batch"
<1>0. req \in [Procs -> Request] /\ req[p] \in Request
  BY ReqFacts
<1>1. ASSUME NEW a, req' = [req EXCEPT ![p].at = a]
      PROVE  Others(p) /\ Keeps(p) /\ req'[p].at = a
  BY <1>0, <1>1 DEF Others, Keeps, Request
<1>2. ASSUME NEW m, req' = [req EXCEPT ![p].at = "next", ![p].docs = m]
      PROVE  Others(p) /\ Keeps(p) /\ req'[p].at = "next"
  BY <1>0, <1>2 DEF Others, Keeps, Request
<1>3. ASSUME req' = [req EXCEPT ![p].at = "next", ![p].seen = {}]
      PROVE  Others(p) /\ Keeps(p) /\ req'[p].at = "next"
  BY <1>0, <1>3 DEF Others, Keeps, Request
<1>4. QED
  BY <1>1, <1>2, <1>3 DEF GetModel, Await, RollBack, BuildNow, Inherit

LEMMA ShapeSelects ==
  ASSUME TypeInv, NEW p \in Procs, NEW reads \in BOOLEAN, SelectSimilar(p, reads)
  PROVE  /\ Others(p) /\ req[p].at = "select"
         /\ req'[p].kind = req[p].kind /\ req'[p].include = req[p].include
         /\ req'[p].left = req[p].left /\ req'[p].since = req[p].since
         /\ req'[p].on \subseteq Spared(req[p].include)
         /\ \/ req'[p].at = "learn"
            \/ req'[p].at = "delete" /\ \E g \in Tags : req'[p].plan = req'[p].on \X {g}
<1> DEFINE T == IF reads THEN Spared(req[p].include) ELSE {}
           g == (CHOOSE d \in req[p].plan : TRUE)[2]
           a == IF T = {} THEN "learn" ELSE "delete"
           D == IF T = {} THEN req[p].plan ELSE T \X {g}
<1>0. req \in [Procs -> Request] /\ req[p] \in Request /\ RequestsOK
  BY ReqFacts DEF TypeInv
<1>1. req[p].at = "select"
  BY DEF SelectSimilar
<1>2. PICK d \in Docs : req[p].plan = {d}
  BY <1>0, <1>1 DEF RequestsOK, Chosen
<1>3. g \in Tags
  BY <1>2 DEF Docs
<1>4. req' = [req EXCEPT ![p].at = a, ![p].on = T, ![p].plan = D]
  BY <1>0 DEF SelectSimilar
<1>5. a = "learn" \/ (a = "delete" /\ D = T \X {g})
  OBVIOUS
<1> HIDE DEF T, g, a, D
<1>6. /\ Others(p)
      /\ req'[p].kind = req[p].kind /\ req'[p].include = req[p].include
      /\ req'[p].left = req[p].left /\ req'[p].since = req[p].since
      /\ req'[p].on = T /\ req'[p].at = a /\ req'[p].plan = D
  BY <1>0, <1>4 DEF Others, Request
<1>7. QED
  BY <1>1, <1>3, <1>5, <1>6 DEF T

LEMMA ShapeBegins ==
  ASSUME TypeInv, NEW p \in Procs, BeginWrite(p)
  PROVE  LET others == {q \in Procs \ {p} : req[q].at = "commit"
                                            /\ req[q].on \cap req[p].on # {}} IN
         /\ req[p].at = "delete"
         /\ \A q \in Procs :
              /\ req'[q].kind = req[q].kind /\ req'[q].on = req[q].on
              /\ req'[q].plan = req[q].plan /\ req'[q].left = req[q].left
              /\ req'[q].include = req[q].include /\ req'[q].since = req[q].since
         /\ \A q \in Procs \ {p} :
              /\ req'[q].at = req[q].at /\ req'[q].seen = req[q].seen
              /\ req'[q].alone = (req[q].alone /\ q \notin others)
         /\ req'[p].at = "commit" /\ req'[p].seen = Rows(req[p].on)
         /\ req'[p].alone = (others = {})
<1> DEFINE others == {q \in Procs \ {p} : req[q].at = "commit" /\ req[q].on \cap req[p].on # {}}
           D == Rows(req[p].on)
           x == others = {}
           r == [req[p] EXCEPT !.at = "commit", !.seen = D, !.alone = x]
<1>0. req[p] \in Request /\ \A q \in Procs : req[q] \in Request
  BY ReqFacts
<1>1. req[p].at = "delete" /\
      req' = [q \in Procs |->
         IF q = p THEN r
         ELSE IF q \in others THEN [req[q] EXCEPT !.alone = FALSE] ELSE req[q]]
  BY DEF BeginWrite
<1> HIDE DEF others, D, x
<1>2. /\ r.at = "commit" /\ r.seen = D /\ r.alone = x
      /\ r.kind = req[p].kind /\ r.on = req[p].on
      /\ r.plan = req[p].plan /\ r.left = req[p].left
      /\ r.include = req[p].include /\ r.since = req[p].since
  BY <1>0 DEF Request
<1> HIDE DEF r
<1>3. req'[p] = r
  BY <1>1
<1>4. ASSUME NEW q \in Procs \ {p}
      PROVE  /\ req'[q].at = req[q].at /\ req'[q].seen = req[q].seen
             /\ req'[q].alone = (req[q].alone /\ q \notin others)
             /\ req'[q].kind = req[q].kind /\ req'[q].on = req[q].on
             /\ req'[q].plan = req[q].plan /\ req'[q].left = req[q].left
             /\ req'[q].include = req[q].include /\ req'[q].since = req[q].since
  <2> DEFINE s == [req[q] EXCEPT !.alone = FALSE]
  <2>1. /\ s.at = req[q].at /\ s.seen = req[q].seen /\ s.alone = FALSE
        /\ s.kind = req[q].kind /\ s.on = req[q].on
        /\ s.plan = req[q].plan /\ s.left = req[q].left
        /\ s.include = req[q].include /\ s.since = req[q].since
    BY <1>0 DEF Request
  <2>2. req'[q] = IF q \in others THEN s ELSE req[q]
    BY <1>1
  <2> HIDE DEF s
  <2>3. req[q].alone \in BOOLEAN
    BY <1>0 DEF Request
  <2>4. QED
    BY <2>1, <2>2, <2>3
<1>5. QED
  BY <1>1, <1>2, <1>3, <1>4 DEF others, D, x

LEMMA ShapeCommits ==
  ASSUME TypeInv, NEW p \in Procs, NEW heard \in BOOLEAN, CommitWrite(p, heard)
  PROVE  /\ req[p].at = "commit"
         /\ heard => /\ Keeps(p) /\ req'[p].at = After(p)
         /\ ~heard => req'[p] = Idle /\ req[p].kind # "batch"
         /\ \A q \in Procs \ {p} :
              /\ req'[q].at = req[q].at /\ req'[q].kind = req[q].kind
              /\ req'[q].on = req[q].on /\ req'[q].plan = req[q].plan
              /\ req'[q].left = req[q].left /\ req'[q].include = req[q].include
              /\ req'[q].alone = req[q].alone
              /\ req'[q].seen = req[q].seen \ req[p].seen
              /\ req'[q].since = IF req[p].kind = "update" THEN req[q].since \cup req[p].on
                                 ELSE req[q].since
<1> DEFINE r == req[p]
           a == After(p)
           r2 == [r EXCEPT !.at = a, !.seen = {}]
           other(q) == [req[q] EXCEPT !.seen = @ \ r.seen,
                                      !.since = IF r.kind = "update" THEN @ \cup r.on ELSE @]
<1>0. r \in Request /\ \A q \in Procs : req[q] \in Request
  BY ReqFacts
<1>1. /\ r.at = "commit" /\ (heard \/ r.kind # "batch")
      /\ req' = [q \in Procs |-> IF q = p THEN IF heard THEN r2 ELSE Idle ELSE other(q)]
  BY DEF CommitWrite
<1> HIDE DEF a
<1>2. /\ r2.at = a
      /\ r2.kind = r.kind /\ r2.on = r.on /\ r2.plan = r.plan /\ r2.left = r.left
      /\ r2.include = r.include /\ r2.alone = r.alone /\ r2.since = r.since
  BY <1>0 DEF Request
<1>3. ASSUME NEW q \in Procs \ {p}
      PROVE  /\ req'[q].at = req[q].at /\ req'[q].kind = req[q].kind
             /\ req'[q].on = req[q].on /\ req'[q].plan = req[q].plan
             /\ req'[q].left = req[q].left /\ req'[q].include = req[q].include
             /\ req'[q].alone = req[q].alone
             /\ req'[q].seen = req[q].seen \ r.seen
             /\ req'[q].since = IF r.kind = "update" THEN req[q].since \cup r.on
                                ELSE req[q].since
  <2> DEFINE S == req[q].seen \ r.seen
             T == IF r.kind = "update" THEN req[q].since \cup r.on ELSE req[q].since
             s == [req[q] EXCEPT !.seen = S, !.since = T]
  <2>1. req'[q] = s
    BY <1>0, <1>1 DEF Request
  <2> HIDE DEF S, T
  <2>2. /\ s.at = req[q].at /\ s.kind = req[q].kind
        /\ s.on = req[q].on /\ s.plan = req[q].plan
        /\ s.left = req[q].left /\ s.include = req[q].include
        /\ s.alone = req[q].alone /\ s.seen = S /\ s.since = T
    BY <1>0 DEF Request
  <2> HIDE DEF s
  <2>3. QED
    BY <2>1, <2>2 DEF S, T
<1>4. req'[p] = IF heard THEN r2 ELSE Idle
  BY <1>1
<1> HIDE DEF r2
<1>5. QED
  BY <1>1, <1>2, <1>3, <1>4 DEF a, Keeps

LEMMA ShapeClassifies ==
  ASSUME TypeInv, NEW p \in Procs, NEW t \in Txs, NEW G \in SUBSET Tags, Classify(p, t, G)
  PROVE  /\ Others(p) /\ req[p].at = "next" /\ t \in req[p].left
         /\ req'[p].kind = req[p].kind /\ req'[p].include = req[p].include
         /\ req'[p].alone = req[p].alone /\ req'[p].since = req[p].since
         /\ req'[p].left = req[p].left \ {t}
         /\ req[p].kind = "batch" => /\ req'[p].on = {t} /\ req'[p].plan = {t} \X G
                                     /\ req'[p].at \in {"delete", "next"}
         /\ req[p].kind # "batch" => req'[p].at = "next"
<1> DEFINE r == req[p]
           a == IF r.kind = "batch" /\ G # {} THEN "delete" ELSE "next"
           T == IF r.kind = "batch" THEN {t} ELSE r.on
           D == IF r.kind = "batch" THEN {t} \X G ELSE r.plan \cup ({t} \X G)
           L == r.left \ {t}
<1>0. req \in [Procs -> Request] /\ r \in Request
  BY ReqFacts
<1>1. /\ r.at = "next" /\ t \in r.left
      /\ req' = [req EXCEPT ![p].left = L, ![p].at = a, ![p].on = T, ![p].plan = D]
  BY <1>0 DEF Classify, Request
<1>2. /\ r.kind = "batch" => a \in {"delete", "next"} /\ T = {t} /\ D = {t} \X G
      /\ r.kind # "batch" => a = "next"
  OBVIOUS
<1> HIDE DEF a, T, D, L
<1>3. /\ Others(p)
      /\ req'[p].kind = r.kind /\ req'[p].include = r.include
      /\ req'[p].alone = r.alone /\ req'[p].since = r.since
      /\ req'[p].left = L /\ req'[p].on = T /\ req'[p].plan = D /\ req'[p].at = a
  BY <1>0, <1>1 DEF Others, Request
<1>4. QED
  BY <1>1, <1>2, <1>3 DEF L

LEMMA ShapeInsertsRow ==
  ASSUME TypeInv, NEW p \in Procs, NEW t \in Txs, InsertRow(p, t)
  PROVE  /\ Others(p) /\ req[p].kind = "import" /\ req'[p].kind = "import"
         /\ req'[p].at \in {"row", "tag"} /\ req[p].at \in {"row", "next"}
<1> DEFINE r == req[p]
           a == IF tx[t].at = "new" /\ \E d \in r.plan : d[1] = t THEN "tag" ELSE "row"
           T == r.on \ {t}
<1>0. req \in [Procs -> Request] /\ r \in Request
  BY ReqFacts
<1>1. \/ req' = [req EXCEPT ![p].at = a, ![p].on = T, ![p].left = {t}]
      \/ req' = [req EXCEPT ![p].at = a, ![p].on = T]
  <2>1. CASE tx[t].at = "new"
    BY <1>0, <2>1 DEF InsertRow, Request
  <2>2. CASE tx[t].at # "new"
    BY <1>0, <2>2 DEF InsertRow, Request
  <2>3. QED
    BY <2>1, <2>2
<1>2. a \in {"row", "tag"} /\ r.kind = "import" /\ r.at \in {"row", "next"}
  BY DEF InsertRow
<1> HIDE DEF a, T
<1>3. Others(p) /\ req'[p].kind = r.kind /\ req'[p].at = a
  BY <1>0, <1>1 DEF Others, Request
<1>4. QED
  BY <1>2, <1>3

LEMMA ShapeInsertsTag ==
  ASSUME TypeInv, NEW p \in Procs, InsertTag(p)
  PROVE  /\ req[p].at = "tag"
         /\ \/ Others(p) /\ req'[p] = Idle /\ UNCHANGED <<tagged, excused, lag, build>>
            \/ /\ req'[p].at = "row" /\ Keeps(p) /\ req'[p].seen = req[p].seen
               /\ \A q \in Procs \ {p} :
                    /\ req'[q].at = req[q].at /\ req'[q].kind = req[q].kind
                    /\ req'[q].on = req[q].on /\ req'[q].plan = req[q].plan
                    /\ req'[q].left = req[q].left /\ req'[q].include = req[q].include
                    /\ req'[q].seen = req[q].seen /\ req'[q].since = req[q].since
                    /\ req'[q].alone = (req[q].alone /\ req[q].on \cap req[p].left = {})
               /\ tagged' = tagged \cup {d \in req[p].plan : d[1] \in req[p].left}
               /\ excused' = [t \in Txs |-> excused[t] \/ t \in req[p].left]
               /\ Unlearned(~({d \in req[p].plan : d[1] \in req[p].left} \subseteq tagged))
<1> DEFINE r == req[p]
           r1 == [r EXCEPT !.at = "row"]
           other(q) == [req[q] EXCEPT !.alone = @ /\ req[q].on \cap r.left = {}]
           new == {d \in req[p].plan : d[1] \in req[p].left}
           fits == \A d \in new : d[1] \in There /\ d[2] \in tags
<1>0. req \in [Procs -> Request] /\ r \in Request /\ r.at = "tag"
  BY ReqFacts DEF InsertTag
<1>1. CASE ~fits
  <2>1. req' = [req EXCEPT ![p] = Idle] /\ UNCHANGED <<tagged, excused, lag, build>>
    BY <1>1 DEF InsertTag, Finish
  <2>2. QED
    BY <1>0, <2>1 DEF Others
<1>2. CASE fits
  <2>1. /\ req' = [q \in Procs |-> IF q = p THEN r1 ELSE other(q)]
        /\ tagged' = tagged \cup new
        /\ excused' = [t \in Txs |-> excused[t] \/ t \in req[p].left]
        /\ Unlearned(~(new \subseteq tagged))
    BY <1>2 DEF InsertTag
  <2>2. req'[p].at = "row" /\ Keeps(p) /\ req'[p].seen = req[p].seen
    BY <1>0, <2>1 DEF Keeps, Request
  <2>3. ASSUME NEW q \in Procs \ {p}
        PROVE  /\ req'[q].at = req[q].at /\ req'[q].kind = req[q].kind
               /\ req'[q].on = req[q].on /\ req'[q].plan = req[q].plan
               /\ req'[q].left = req[q].left /\ req'[q].include = req[q].include
               /\ req'[q].seen = req[q].seen /\ req'[q].since = req[q].since
               /\ req'[q].alone = (req[q].alone /\ req[q].on \cap r.left = {})
    <3> DEFINE x == req[q].alone /\ req[q].on \cap r.left = {}
               s == [req[q] EXCEPT !.alone = x]
    <3>1. req'[q] = s
      BY <1>0, <2>1 DEF Request
    <3> HIDE DEF x
    <3>2. /\ s.at = req[q].at /\ s.kind = req[q].kind
          /\ s.on = req[q].on /\ s.plan = req[q].plan
          /\ s.left = req[q].left /\ s.include = req[q].include
          /\ s.seen = req[q].seen /\ s.since = req[q].since
          /\ s.alone = x
      BY <1>0 DEF Request
    <3> HIDE DEF s
    <3>3. QED
      BY <3>1, <3>2 DEF x
  <2>4. QED
    BY <1>0, <2>1, <2>2, <2>3
<1>3. QED
  BY <1>1, <1>2

-----------------------------------------------------------------------------
(* Which statements a kind of request has.                                 *)

KindsFit ==
  \A p \in Procs :
    /\ req[p].at = "select" => req[p].kind = "similar"
    /\ req[p].at \in {"model", "await", "next"} => req[p].kind \in {"batch", "import"}
    /\ req[p].at \in {"delete", "commit"} => req[p].kind \in {"update", "similar", "batch"}
    /\ req[p].at \in {"row", "tag"} => req[p].kind = "import"

LEMMA KindsInit == Init => KindsFit
  BY DEF Init, KindsFit, Idle

\* All requests but p go on as they were.
LEMMA KindsOf ==
  ASSUME KindsFit, NEW p \in Procs,
         \A q \in Procs \ {p} : req'[q].at = req[q].at /\ req'[q].kind = req[q].kind,
         /\ req'[p].at = "select" => req'[p].kind = "similar"
         /\ req'[p].at \in {"model", "await", "next"} => req'[p].kind \in {"batch", "import"}
         /\ req'[p].at \in {"delete", "commit"} => req'[p].kind \in {"update", "similar", "batch"}
         /\ req'[p].at \in {"row", "tag"} => req'[p].kind = "import"
  PROVE  KindsFit'
  BY DEF KindsFit

\* The requests that start a rebuild when they end: those that have something to
\* learn, and each batch.
Learner(p) == req[p].at = "learn" \/ req[p].kind = "batch"

\* No step but the end of the process loses one that is bound to start a rebuild,
\* and whoever waits for a rebuild goes on waiting until it is free again.
GoOn ==
  \A p \in Procs : /\ Learner(p) => Learner(p)' \/ due'.own > 0
                   /\ req[p].at = "await" => req'[p].at = "await" \/ build'[p].at = "idle"

LEMMA KindsStep == TypeInv /\ KindsFit /\ [Next]_vars => KindsFit' /\ (GoOn \/ Stop)
<1> SUFFICES ASSUME TypeInv, KindsFit, [Next]_vars PROVE KindsFit' /\ (GoOn \/ Stop)
  OBVIOUS
<1> DEFINE Stays == KindsFit' /\ GoOn
<1>1. CASE UNCHANGED req
  BY <1>1 DEF KindsFit, Learner, GoOn
<1>2. ASSUME NEW p \in Procs, Others(p), req'[p] = Idle, ~Learner(p) \/ due'.own > 0,
             req[p].at # "await"
      PROVE  Stays
  <2>1. KindsFit'
    BY <1>2, KindsOf DEF Others, Idle
  <2>2. QED
    BY <1>2, <2>1 DEF Others, Learner, GoOn
<1>3. ASSUME NEW p \in Procs,
             \/ \E t \in Txs, G \in SUBSET Tags : Update(p, t, G)
             \/ \E t \in Txs, G \in SUBSET Tags, heard \in BOOLEAN : Create(p, t, G, heard)
             \/ \E t \in Txs, g \in Tags, include \in BOOLEAN : ApplySimilar(p, t, g, include)
             \/ \E include \in BOOLEAN, T \in SUBSET Txs : AutoTagBatch(p, include, T)
             \/ \E T \in SUBSET Txs : Import(p, T)
      PROVE  Stays
  <2>1. ComesAs(p)
    BY <1>3, ShapeComesAs
  <2>2. KindsFit'
    BY <2>1, KindsOf DEF ComesAs, Others, Idle
  <2>3. QED
    BY <2>1, <2>2 DEF ComesAs, Others, Learner, GoOn, Idle
<1>4. ASSUME NEW p \in Procs,
             \/ GetModel(p) \/ Await(p) \/ (RollBack(p) /\ req[p].kind = "batch")
             \/ BuildNow(p) \/ (\E i \in 0 .. Len(shared) : Inherit(p, i))
      PROVE  Stays
  <2>1. Others(p) /\ Keeps(p) /\ req'[p].at \in {"next", "await"}
        /\ (req[p].at \in {"model", "await"} \/ req[p].kind = "batch")
    BY <1>4, ShapeGoesOn
  <2>2. KindsFit'
    BY <2>1, KindsOf DEF Others, Keeps, KindsFit
  <2>3. req[p].at # "await" \/ build'[p].at = "idle"
    <3>1. BuildsOK /\ p \in Builders
      BY DEF TypeInv, Builders
    <3>2. Await(p) => build'[p] = NoBuild
      BY <3>1, FreePuts, PutBuildOK, EmptyRows
    <3>3. req[p].at # "await" \/ Await(p)
      BY <1>4 DEF GetModel, RollBack, BuildNow, Inherit
    <3>4. QED
      BY <3>2, <3>3 DEF NoBuild
  <2>4. QED
    BY <2>1, <2>2, <2>3 DEF Others, Keeps, Learner, GoOn
<1>5. ASSUME NEW p \in Procs, Learn(p) \/ EndBatch(p) PROVE Stays
  <2>1. req[p].at # "await"
    BY <1>5 DEF Learn, EndBatch
  <2>2. QED
    BY <1>2, <1>5, <2>1, ShapeEnds, DueSteps
<1>6. ASSUME NEW p \in Procs, EndImport(p) PROVE Stays
  <2>1. ~Learner(p) /\ req[p].at # "await"
    BY <1>6 DEF EndImport, KindsFit, Learner
  <2>2. QED
    BY <1>2, <1>6, <2>1, ShapeEnds
<1>7. ASSUME NEW p \in Procs, RollBack(p), req[p].kind # "batch" PROVE Stays
  <2>1. ~Learner(p) /\ req[p].at # "await"
    BY <1>7 DEF RollBack, Learner
  <2>2. QED
    BY <1>2, <1>7, <2>1, ShapeEnds
<1>8. ASSUME NEW p \in Procs, NEW reads \in BOOLEAN, SelectSimilar(p, reads) PROVE Stays
  <2>1. /\ Others(p) /\ req[p].at = "select" /\ req'[p].kind = req[p].kind
        /\ req'[p].at \in {"learn", "delete"}
    BY <1>8, ShapeSelects
  <2>2. KindsFit'
    BY <2>1, KindsOf DEF Others, KindsFit
  <2>3. QED
    BY <2>1, <2>2 DEF Others, Learner, GoOn
<1>9. ASSUME NEW p \in Procs, BeginWrite(p) PROVE Stays
  <2>1. /\ req[p].at = "delete" /\ req'[p].at = "commit" /\ req'[p].kind = req[p].kind
        /\ \A q \in Procs \ {p} : req'[q].at = req[q].at /\ req'[q].kind = req[q].kind
    BY <1>9, ShapeBegins
  <2>2. KindsFit'
    BY <2>1, KindsOf DEF KindsFit
  <2>3. QED
    BY <2>1, <2>2 DEF Learner, GoOn
<1>10. ASSUME NEW p \in Procs, NEW heard \in BOOLEAN, CommitWrite(p, heard) PROVE Stays
  <2>1. /\ req[p].at = "commit"
        /\ \/ req'[p] = Idle /\ req[p].kind # "batch"
           \/ req'[p].kind = req[p].kind /\ req'[p].at = After(p)
        /\ \A q \in Procs \ {p} : req'[q].at = req[q].at /\ req'[q].kind = req[q].kind
    BY <1>10, ShapeCommits DEF Keeps
  <2>2. After(p) = IF req[p].kind = "batch" THEN "next" ELSE "learn"
    BY DEF After
  <2>3. KindsFit'
    BY <2>1, <2>2, KindsOf DEF KindsFit, Idle
  <2>4. QED
    BY <2>1, <2>3 DEF Learner, GoOn
<1>11. ASSUME NEW p \in Procs, NEW t \in Txs, NEW G \in SUBSET Tags, Classify(p, t, G) PROVE Stays
  <2>1. /\ Others(p) /\ req[p].at = "next" /\ req'[p].kind = req[p].kind
        /\ req[p].kind = "batch" => req'[p].at \in {"delete", "next"}
        /\ req[p].kind # "batch" => req'[p].at = "next"
    BY <1>11, ShapeClassifies
  <2>2. KindsFit'
    BY <2>1, KindsOf DEF Others, KindsFit
  <2>3. QED
    BY <2>1, <2>2 DEF Others, Learner, GoOn
<1>12. ASSUME NEW p \in Procs, NEW t \in Txs, InsertRow(p, t) PROVE Stays
  <2>1. /\ Others(p) /\ req[p].kind = "import" /\ req'[p].kind = "import"
        /\ req'[p].at \in {"row", "tag"} /\ req[p].at \in {"row", "next"}
    BY <1>12, ShapeInsertsRow
  <2>2. KindsFit'
    BY <2>1, KindsOf DEF Others
  <2>3. QED
    BY <2>1, <2>2 DEF Others, Learner, GoOn
<1>13. ASSUME NEW p \in Procs, InsertTag(p) PROVE Stays
  <2>1. req[p].at = "tag" /\ req[p].kind = "import"
    BY <1>13, ShapeInsertsTag DEF KindsFit
  <2>2. /\ \A q \in Procs \ {p} : req'[q].at = req[q].at /\ req'[q].kind = req[q].kind
        /\ req'[p] = Idle \/ (req'[p].at = "row" /\ req'[p].kind = req[p].kind)
    BY <1>13, ShapeInsertsTag DEF Others, Keeps
  <2>3. KindsFit'
    BY <2>1, <2>2, KindsOf DEF Idle
  <2>4. QED
    BY <2>1, <2>2, <2>3 DEF Learner, GoOn
<1>14. CASE Stop
  BY <1>14 DEF Stop, KindsFit, Idle
<1>15. ASSUME \/ \E p \in Procs : Adopt(p)
              \/ \E t \in Txs : DeleteTx(t)
              \/ \E g \in Tags : DeleteTag(g) \/ CreateRule(g)
              \/ DeleteRule
              \/ \E b \in Slots, all \in BOOLEAN : BeginBuild(b, all)
              \/ UNCHANGED vars
       PROVE  UNCHANGED req
  BY <1>15 DEF Adopt, DeleteTx, DeleteTag, CreateRule, DeleteRule, BeginBuild, vars
<1>16. ASSUME NEW b \in Builders,
              \/ \E G \in SUBSET SystemTags, T \in SUBSET Txs : Train(b, G, T)
              \/ TrainFails(b) \/ Store(b) \/ StoreFails(b)
              \/ \E i \in 0 .. Len(shared) : FindShared(b, i)
              \/ WriteShared(b) \/ SharedFails(b)
       PROVE  UNCHANGED req
  BY <1>16 DEF Train, TrainFails, Store, StoreFails, FindShared, WriteShared, SharedFails
<1>17. QED
  <2> HIDE DEF Stays
  <2>1. Stays \/ UNCHANGED req \/ Stop
    BY <1>3, <1>4, <1>5, <1>6, <1>7, <1>8, <1>9, <1>10, <1>11, <1>12, <1>13, <1>15, <1>16
    DEF Next
  <2>2. QED
    BY <1>1, <1>14, <2>1 DEF Stays

-----------------------------------------------------------------------------
(* The tags given by hand.                                                 *)

\* Only what was tagged by hand has tags by hand, and nothing new was.
HandMarked ==
  \A t \in Txs : /\ tx[t].at = "new" => ~tx[t].manual
                 /\ ~tx[t].manual => hand[t] = {}

Writing(p) == req[p].at \in {"delete", "commit"}

\* A write is of some transactions that were there, and so are those that a
\* batch has left; an update is of one.
WritesOwn ==
  \A p \in Procs :
    /\ req[p].kind = "batch" => \A t \in req[p].left : tx[t].at # "new"
    /\ Writing(p) => /\ \A t \in req[p].on : tx[t].at # "new"
                     /\ \A d \in req[p].plan : d[1] \in req[p].on
    /\ req[p].at = "commit" => \A d \in req[p].seen : d[1] \in req[p].on
    /\ Writing(p) /\ req[p].kind = "update" => \A t, u \in req[p].on : t = u

\* A write that nothing overlapped has seen all rows of its transactions.
Overlap(p, q) == req[q].at = "commit" /\ \E t \in req[q].on : t \in req[p].on
AloneSees ==
  \A p \in Procs : req[p].at = "commit" /\ req[p].alone =>
    /\ \A d \in tagged : d[1] \in req[p].on => d \in req[p].seen
    /\ \A q \in Procs \ {p} : ~Overlap(p, q)

\* The transactions chosen by a request that spares what was tagged by hand have
\* no tags by hand, or were given them since.
Sparing(p) == req[p].kind \in {"similar", "batch"} /\ ~req[p].include
ChosenBy(p, t) ==
  /\ Sparing(p)
  /\ \/ req[p].kind = "batch" /\ t \in req[p].left
     \/ Writing(p) /\ t \in req[p].on
SparesHand ==
  \A p \in Procs, t \in Txs :
    ChosenBy(p, t) /\ t \notin req[p].since /\ ~excused[t] => hand[t] \cap tags = {}

HandInv == HandMarked /\ WritesOwn /\ AloneSees /\ SparesHand /\ HandKept

HandTables == <<tags, tx, tagged, hand, excused>>

LEMMA HandInit == Init => HandInv
<1> SUFFICES ASSUME Init PROVE HandInv
  OBVIOUS
<1>1. \A p \in Procs : req[p] = Idle
  BY DEF Init
<1>2. WritesOwn /\ AloneSees /\ SparesHand
  BY <1>1 DEF Idle, WritesOwn, Writing, AloneSees, SparesHand, ChosenBy, Sparing
<1>3. /\ tags = Tags
      /\ tx \in [Txs -> {[at |-> "new", manual |-> FALSE], [at |-> "there", manual |-> FALSE],
                         [at |-> "there", manual |-> TRUE]}]
      /\ tagged \in SUBSET {d \in Docs : tx[d[1]].at = "there"}
      /\ hand = [t \in Txs |-> IF tx[t].manual THEN {d[2] : d \in {e \in tagged : e[1] = t}}
                               ELSE {}]
  BY DEF Init
<1>4. HandMarked
  BY <1>3 DEF HandMarked
<1>5. HandKept
  <2> SUFFICES ASSUME NEW t \in Txs, hand[t] \cap tags # {}
               PROVE  TagsOf(t) = hand[t] \cap tags
    BY DEF HandKept, There
  <2>1. hand[t] = {d[2] : d \in {e \in tagged : e[1] = t}}
    BY <1>3
  <2>2. \A d \in tagged : d = <<d[1], d[2]>> /\ d[2] \in Tags
    BY <1>3 DEF Docs
  <2>3. \A g \in Tags : <<t, g>>[1] = t /\ <<t, g>>[2] = g
    OBVIOUS
  <2>4. ASSUME NEW g PROVE g \in TagsOf(t) <=> g \in hand[t]
    <3>1. ASSUME g \in TagsOf(t) PROVE g \in hand[t]
      BY <2>1, <2>3, <3>1 DEF TagsOf
    <3>2. ASSUME g \in hand[t] PROVE g \in TagsOf(t)
      BY <2>1, <2>2, <3>2 DEF TagsOf
    <3>3. QED
      BY <3>1, <3>2
  <2>5. hand[t] \subseteq tags
    BY <1>3, <2>1, <2>2
  <2>6. QED
    BY <2>4, <2>5
<1>6. QED
  BY <1>2, <1>4, <1>5 DEF HandInv

\* One request moves, and does not come to a commit: what it is to write must fit.
LEMMA HandMoves ==
  ASSUME HandInv, NEW p \in Procs, Others(p), UNCHANGED HandTables,
         req'[p].at # "commit",
         /\ req'[p].kind = "batch" => \A t \in req'[p].left : tx[t].at # "new"
         /\ req'[p].at = "delete" => /\ \A t \in req'[p].on : tx[t].at # "new"
                                     /\ \A d \in req'[p].plan : d[1] \in req'[p].on
         /\ req'[p].at = "delete" /\ req'[p].kind = "update" => \A t, u \in req'[p].on : t = u,
         \A t \in Txs : ChosenBy(p, t)' /\ t \notin req'[p].since /\ ~excused[t]
                          => hand[t] \cap tags = {}
  PROVE  HandInv'
<1>1. HandMarked' /\ HandKept'
  BY DEF HandInv, HandTables, HandMarked, HandKept, There, TagsOf
<1>2. WritesOwn'
  BY DEF HandInv, HandTables, WritesOwn, Writing, Others
<1>3. AloneSees'
  BY DEF HandInv, HandTables, AloneSees, Overlap, Others
<1>4. SparesHand'
  <2> SUFFICES ASSUME NEW q \in Procs, NEW t \in Txs, ChosenBy(q, t)', t \notin req'[q].since,
                      ~excused[t]
               PROVE  hand[t] \cap tags = {}
    BY DEF HandTables, SparesHand
  <2>1. CASE q # p
    <3>1. req'[q] = req[q]
      BY <2>1 DEF Others
    <3>2. ChosenBy(q, t)
      BY <3>1 DEF ChosenBy, Sparing, Writing
    <3>3. QED
      BY <3>1, <3>2 DEF HandInv, SparesHand
  <2>2. QED
    BY <2>1
<1>5. QED
  BY <1>1, <1>2, <1>3, <1>4 DEF HandInv

\* ... as it does when it ends, or goes on with what it is for.
LEMMA HandEnds ==
  ASSUME HandInv, NEW p \in Procs, Others(p), UNCHANGED HandTables, req'[p] = Idle
  PROVE  HandInv'
  BY HandMoves DEF Idle, ChosenBy, Sparing

LEMMA HandGoesOn ==
  ASSUME HandInv, NEW p \in Procs, Others(p), UNCHANGED HandTables, Keeps(p),
         req'[p].at \in {"next", "await"}
  PROVE  HandInv'
<1>1. ASSUME NEW t \in Txs, ChosenBy(p, t)' PROVE ChosenBy(p, t)
  BY <1>1 DEF ChosenBy, Sparing, Writing, Keeps
<1>2. \A t \in Txs : ChosenBy(p, t)' /\ t \notin req'[p].since /\ ~excused[t]
                       => hand[t] \cap tags = {}
  BY <1>1 DEF HandInv, SparesHand, Keeps
<1>3. req'[p].kind = "batch" => \A t \in req'[p].left : tx[t].at # "new"
  BY DEF HandInv, WritesOwn, Keeps
<1>4. QED
  BY <1>2, <1>3, HandMoves

\* The requests that come in: a batch takes only what has no tags.
LEMMA HandComes ==
  ASSUME TypeInv, HandInv, NEW p \in Procs,
         \/ \E t \in Txs, G \in SUBSET Tags : Update(p, t, G)
         \/ \E t \in Txs, g \in Tags, include \in BOOLEAN : ApplySimilar(p, t, g, include)
         \/ \E include \in BOOLEAN, T \in SUBSET Txs : AutoTagBatch(p, include, T)
         \/ \E T \in SUBSET Txs : Import(p, T)
  PROVE  HandInv'
<1>1. ASSUME NEW t \in Txs, NEW G \in SUBSET Tags, Update(p, t, G) PROVE HandInv'
  <2>1. Others(p) /\ t \in There /\ req'[p] = UpdateRow(t, G)
    BY <1>1, ComesUpdate
  <2>2. /\ req'[p].at = "delete" /\ req'[p].kind = "update"
        /\ req'[p].on = {t} /\ req'[p].plan = {t} \X G
    BY <2>1, RowFields
  <2>3. \A d \in {t} \X G : d[1] = t
    OBVIOUS
  <2>4. UNCHANGED HandTables
    BY <1>1 DEF Update, HandTables
  <2>5. \A u \in Txs : ~ChosenBy(p, u)'
    BY <2>2 DEF ChosenBy, Sparing
  <2>6. tx[t].at # "new"
    BY <2>1 DEF There
  <2>7. QED
    BY <2>1, <2>2, <2>3, <2>4, <2>5, <2>6, HandMoves
<1>2. ASSUME NEW t \in Txs, NEW g \in Tags, NEW include \in BOOLEAN,
             ApplySimilar(p, t, g, include)
      PROVE  HandInv'
  <2>1. Others(p) /\ req'[p].at = "select" /\ req'[p].kind = "similar"
    BY <1>2, ComesSimilar, RowFields
  <2>2. UNCHANGED HandTables
    BY <1>2 DEF ApplySimilar, HandTables
  <2>3. \A u \in Txs : ~ChosenBy(p, u)'
    BY <2>1 DEF ChosenBy, Writing
  <2>4. QED
    BY <2>1, <2>2, <2>3, HandMoves
<1>3. ASSUME NEW include \in BOOLEAN, NEW T \in SUBSET Txs, AutoTagBatch(p, include, T)
      PROVE  HandInv'
  <2>1. /\ Others(p) /\ (req'[p] = Idle \/ req'[p] = BatchRow(include, T))
        /\ T \subseteq Untagged(include)
    BY <1>3, ComesBatch
  <2>2. UNCHANGED HandTables
    BY <1>3 DEF AutoTagBatch, HandTables
  <2>3. CASE req'[p] = BatchRow(include, T)
    <3>1. /\ req'[p].at = "model" /\ req'[p].kind = "batch"
          /\ req'[p].left = T /\ req'[p].include = include
      BY <2>3, RowFields
    <3>2. \A t \in T : tx[t].at # "new"
      BY <2>1 DEF Untagged, There
    <3>3. ASSUME NEW t \in Txs, ChosenBy(p, t)', ~excused[t] PROVE hand[t] \cap tags = {}
      <4>1. t \in There /\ TagsOf(t) = {}
        BY <2>1, <3>1, <3>3 DEF ChosenBy, Sparing, Writing, Untagged
      <4>2. QED
        BY <3>3, <4>1 DEF HandInv, HandKept
    <3>4. QED
      BY <2>1, <2>2, <3>1, <3>2, <3>3, HandMoves
  <2>4. QED
    BY <2>1, <2>2, <2>3, HandEnds
<1>4. ASSUME NEW T \in SUBSET Txs, Import(p, T) PROVE HandInv'
  <2>1. Others(p) /\ req'[p].at = "model" /\ req'[p].kind = "import"
    BY <1>4, ComesImport, RowFields
  <2>2. UNCHANGED HandTables
    BY <1>4 DEF Import, HandTables
  <2>3. \A u \in Txs : ~ChosenBy(p, u)'
    BY <2>1 DEF ChosenBy, Sparing
  <2>4. QED
    BY <2>1, <2>2, <2>3, HandMoves
<1>5. QED
  BY <1>1, <1>2, <1>3, <1>4

\* Those that are there, with what they are for, or end.
LEMMA HandRuns ==
  ASSUME TypeInv, HandInv, NEW p \in Procs,
         \/ Learn(p) \/ EndBatch(p) \/ EndImport(p) \/ RollBack(p)
         \/ GetModel(p) \/ Await(p) \/ BuildNow(p)
         \/ \E i \in 0 .. Len(shared) : Inherit(p, i)
  PROVE  HandInv'
<1>1. UNCHANGED HandTables
  BY DEF Learn, EndBatch, EndImport, RollBack, GetModel, Await, BuildNow, Inherit, HandTables
<1>2. CASE Learn(p) \/ EndBatch(p) \/ EndImport(p) \/ (RollBack(p) /\ req[p].kind # "batch")
  BY <1>1, <1>2, ShapeEnds, HandEnds
<1>3. CASE \/ GetModel(p) \/ Await(p) \/ (RollBack(p) /\ req[p].kind = "batch")
           \/ BuildNow(p) \/ (\E i \in 0 .. Len(shared) : Inherit(p, i))
  BY <1>1, <1>3, ShapeGoesOn, HandGoesOn
<1>4. QED
  BY <1>2, <1>3

\* ApplySimilar chooses by manually_tagged.
LEMMA HandSelects ==
  ASSUME TypeInv, KindsFit, HandInv, NEW p \in Procs, NEW reads \in BOOLEAN,
         SelectSimilar(p, reads)
  PROVE  HandInv'
<1>1. /\ Others(p) /\ req'[p].kind = "similar" /\ req'[p].include = req[p].include
      /\ req'[p].on \subseteq Spared(req[p].include)
      /\ \/ req'[p].at = "learn"
         \/ req'[p].at = "delete" /\ \E g \in Tags : req'[p].plan = req'[p].on \X {g}
  BY ShapeSelects DEF KindsFit
<1>2. UNCHANGED HandTables
  BY DEF SelectSimilar, HandTables
<1>3. req'[p].at = "delete" => \A d \in req'[p].plan : d[1] \in req'[p].on
  <2> SUFFICES ASSUME NEW g \in Tags, req'[p].plan = req'[p].on \X {g}
               PROVE  \A d \in req'[p].plan : d[1] \in req'[p].on
    BY <1>1
  <2>1. QED
    OBVIOUS
<1>4. \A t \in req'[p].on : /\ tx[t].at # "new"
                            /\ ~req[p].include => ~tx[t].manual
  BY <1>1 DEF Spared, There
<1>5. ASSUME NEW t \in Txs, ChosenBy(p, t)' PROVE hand[t] \cap tags = {}
  <2>1. t \in req'[p].on /\ ~req[p].include
    BY <1>1, <1>5 DEF ChosenBy, Sparing
  <2>2. QED
    BY <1>4, <2>1 DEF HandInv, HandMarked
<1>6. QED
  BY <1>1, <1>2, <1>3, <1>4, <1>5, HandMoves

\* A batch goes on to one of those that it has left.
LEMMA HandClassifies ==
  ASSUME TypeInv, KindsFit, HandInv, NEW p \in Procs, NEW t \in Txs, NEW G \in SUBSET Tags,
         Classify(p, t, G)
  PROVE  HandInv'
<1>1. /\ Others(p) /\ req[p].at = "next" /\ t \in req[p].left
      /\ req'[p].kind = req[p].kind /\ req'[p].include = req[p].include
      /\ req'[p].since = req[p].since
      /\ req'[p].left = req[p].left \ {t}
      /\ req[p].kind = "batch" => /\ req'[p].on = {t} /\ req'[p].plan = {t} \X G
                                  /\ req'[p].at \in {"delete", "next"}
      /\ req[p].kind # "batch" => req'[p].at = "next"
  BY ShapeClassifies
<1>2. UNCHANGED HandTables
  BY DEF Classify, HandTables
<1>3. req[p].kind \in {"batch", "import"}
  BY <1>1 DEF KindsFit
<1>4. \A d \in {t} \X G : d[1] = t
  OBVIOUS
<1>5. req[p].kind = "batch" => \A u \in req[p].left : tx[u].at # "new"
  BY DEF HandInv, WritesOwn
<1>6. ASSUME NEW u \in Txs, ChosenBy(p, u)' PROVE ChosenBy(p, u)
  BY <1>1, <1>3, <1>6 DEF ChosenBy, Sparing, Writing
<1>7. \A u \in Txs : ChosenBy(p, u)' /\ u \notin req'[p].since /\ ~excused[u]
                       => hand[u] \cap tags = {}
  BY <1>1, <1>6 DEF HandInv, SparesHand
<1>8. /\ req'[p].at # "commit"
      /\ req'[p].kind = "batch" => \A u \in req'[p].left : tx[u].at # "new"
      /\ req'[p].at = "delete" => /\ \A u \in req'[p].on : tx[u].at # "new"
                                  /\ \A d \in req'[p].plan : d[1] \in req'[p].on
      /\ req'[p].kind # "update"
  BY <1>1, <1>3, <1>4, <1>5
<1>9. QED
  BY <1>1, <1>2, <1>7, <1>8, HandMoves

\* The DELETE has seen all the rows that there are.
LEMMA HandBegins ==
  ASSUME TypeInv, HandInv, NEW p \in Procs, BeginWrite(p)
  PROVE  HandInv'
<1> DEFINE others == {q \in Procs \ {p} : req[q].at = "commit" /\ req[q].on \cap req[p].on # {}}
<1>1. /\ req[p].at = "delete"
      /\ \A q \in Procs :
           /\ req'[q].kind = req[q].kind /\ req'[q].on = req[q].on
           /\ req'[q].plan = req[q].plan /\ req'[q].left = req[q].left
           /\ req'[q].include = req[q].include /\ req'[q].since = req[q].since
      /\ \A q \in Procs \ {p} :
           /\ req'[q].at = req[q].at /\ req'[q].seen = req[q].seen
           /\ req'[q].alone = (req[q].alone /\ q \notin others)
      /\ req'[p].at = "commit" /\ req'[p].seen = Rows(req[p].on)
      /\ req'[p].alone = (others = {})
  BY ShapeBegins
<1>2. UNCHANGED HandTables
  BY DEF BeginWrite, HandTables
<1>3. \A q \in Procs \ {p} : q \in others <=> Overlap(p, q)
  BY DEF Overlap
<1> HIDE DEF others
<1>4. HandMarked' /\ HandKept'
  BY <1>2 DEF HandInv, HandTables, HandMarked, HandKept, There, TagsOf
<1>5. \A q \in Procs : Writing(q)' <=> Writing(q)
  BY <1>1 DEF Writing
<1>6. WritesOwn'
  <2>1. \A q \in Procs : req'[q].at = "commit" => \A d \in req'[q].seen : d[1] \in req'[q].on
    BY <1>1 DEF HandInv, WritesOwn, Rows
  <2>2. QED
    BY <1>1, <1>2, <1>5, <2>1 DEF HandInv, HandTables, WritesOwn
<1>7. AloneSees'
  <2> SUFFICES ASSUME NEW q \in Procs, req'[q].at = "commit", req'[q].alone
               PROVE  /\ \A d \in tagged : d[1] \in req'[q].on => d \in req'[q].seen
                      /\ \A s \in Procs \ {q} : ~Overlap(q, s)'
    BY <1>2 DEF HandTables, AloneSees
  <2>1. CASE q = p
    <3>1. \A s \in Procs \ {p} : ~Overlap(p, s)
      BY <1>1, <1>3, <2>1
    <3>2. \A s \in Procs \ {p} : ~Overlap(p, s)'
      BY <1>1, <3>1 DEF Overlap
    <3>3. QED
      BY <1>1, <2>1, <3>2 DEF Rows
  <2>2. CASE q # p
    <3>1. req[q].at = "commit" /\ req[q].alone /\ ~Overlap(p, q)
      BY <1>1, <1>3, <2>2
    <3>2. /\ \A d \in tagged : d[1] \in req[q].on => d \in req[q].seen
          /\ \A s \in Procs \ {q} : ~Overlap(q, s)
      BY <3>1 DEF HandInv, AloneSees
    <3>3. \A s \in Procs \ {p, q} : ~Overlap(q, s)'
      BY <1>1, <3>2 DEF Overlap
    <3>4. ~Overlap(q, p)'
      BY <1>1, <3>1 DEF Overlap
    <3>5. QED
      BY <1>1, <2>2, <3>2, <3>3, <3>4
  <2>3. QED
    BY <2>1, <2>2
<1>8. SparesHand'
  <2>1. \A q \in Procs, t \in Txs : ChosenBy(q, t)' <=> ChosenBy(q, t)
    BY <1>1, <1>5 DEF ChosenBy, Sparing
  <2>2. QED
    BY <1>1, <1>2, <2>1 DEF HandInv, HandTables, SparesHand
<1>9. QED
  BY <1>4, <1>6, <1>7, <1>8 DEF HandInv

Hit(p, t) == t \in There /\ t \in req[p].on

\* What a commit does to the transactions there are, and to no others.
LEMMA CommitHand ==
  ASSUME TypeInv, HandInv, NEW p \in Procs, NEW heard \in BOOLEAN, CommitWrite(p, heard)
  PROVE  /\ tags' = tags
         /\ \A t \in Txs : tx'[t].at = tx[t].at
         /\ \A t \in Txs : ~Hit(p, t) =>
              tx'[t].manual = tx[t].manual /\ hand'[t] = hand[t] /\ excused'[t] = excused[t]
         /\ \A t \in Txs : Hit(p, t) =>
              /\ tx'[t].manual
              /\ req[p].kind # "update" => hand'[t] = hand[t]
              /\ req[p].kind = "update" =>
                   \A g : g \in hand'[t] <=> \E d \in req[p].plan : g = d[2]
              /\ ~excused'[t] => /\ req[p].alone
                                 /\ req[p].kind = "update" \/ (~excused[t] /\ ~req[p].include
                                                               /\ t \notin req[p].since)
         /\ tagged' = (tagged \ req[p].seen) \cup req[p].plan
         /\ \A d \in req[p].plan : d[1] \in req[p].on /\ d[1] \in There /\ d[2] \in tags
         /\ \A d \in req[p].seen : d[1] \in req[p].on
         /\ \A d \in req[p].plan : d = <<d[1], d[2]>>
<1>1. /\ tags' = tags
      /\ tagged' = (tagged \ req[p].seen) \cup req[p].plan
      /\ \A d \in req[p].plan : d[1] \in There /\ d[2] \in tags
  BY DEF CommitWrite, KeysHold
<1>2. req[p].at = "commit" /\ Writing(p)
  BY DEF CommitWrite, Writing
<1>3. /\ \A d \in req[p].plan : d[1] \in req[p].on
      /\ \A d \in req[p].seen : d[1] \in req[p].on
  BY <1>2 DEF HandInv, WritesOwn
<1>4. \A d \in req[p].plan : d = <<d[1], d[2]>>
  BY ReqFacts DEF Request, Docs
<1>5. ASSUME NEW t \in Txs
      PROVE  /\ tx'[t].at = tx[t].at
             /\ ~Hit(p, t) =>
                  tx'[t].manual = tx[t].manual /\ hand'[t] = hand[t] /\ excused'[t] = excused[t]
             /\ Hit(p, t) =>
                  /\ tx'[t].manual
                  /\ req[p].kind # "update" => hand'[t] = hand[t]
                  /\ req[p].kind = "update" =>
                       \A g : g \in hand'[t] <=> \E d \in req[p].plan : g = d[2]
                  /\ ~excused'[t] => /\ req[p].alone
                                     /\ req[p].kind = "update" \/ (~excused[t] /\ ~req[p].include
                                                                   /\ t \notin req[p].since)
  <2> DEFINE T == req[p].on \cap There
             r1 == [tx[t] EXCEPT !.manual = TRUE]
  <2>1. tx[t] \in [at : {"new", "there", "gone"}, manual : BOOLEAN]
    BY DEF TypeInv, TablesOK
  <2>2. r1.at = tx[t].at /\ r1.manual
    BY <2>1
  <2>3. tx'[t] = IF t \in T THEN r1 ELSE tx[t]
    BY DEF CommitWrite
  <2> HIDE DEF r1
  <2>4. hand'[t] = IF t \in T /\ req[p].kind = "update" THEN {d[2] : d \in req[p].plan}
                   ELSE hand[t]
    BY DEF CommitWrite
  <2>5. excused'[t] = IF t \notin T THEN excused[t]
                      ELSE ~req[p].alone \/ (req[p].kind # "update"
                             /\ (excused[t] \/ req[p].include \/ t \in req[p].since))
    BY DEF CommitWrite
  <2>6. QED
    BY <2>2, <2>3, <2>4, <2>5 DEF Hit
<1>6. QED
  BY <1>1, <1>3, <1>4, <1>5

LEMMA HandCommits ==
  ASSUME TypeInv, KindsFit, HandInv, NEW p \in Procs, NEW heard \in BOOLEAN,
         CommitWrite(p, heard)
  PROVE  HandInv'
<1> DEFINE r == req[p]
<1>0. r.at = "commit" /\ Writing(p) /\ ~Writing(p)'
      /\ (req'[p] = Idle \/ (Keeps(p) /\ req'[p].at \in {"next", "learn"}))
      /\ r.kind \in {"update", "similar", "batch"}
      /\ tagged \subseteq Docs /\ Idle.kind = "none"
  <2>1. /\ r.at = "commit"
        /\ req'[p] = Idle \/ (Keeps(p) /\ req'[p].at = After(p))
    BY ShapeCommits
  <2>2. After(p) \in {"next", "learn"}
    BY DEF After
  <2>3. QED
    BY <2>1, <2>2, Pairs DEF Writing, Idle, KindsFit, TypeInv
<1>1. \A q \in Procs \ {p} :
        /\ req'[q].at = req[q].at /\ req'[q].kind = req[q].kind
        /\ req'[q].on = req[q].on /\ req'[q].plan = req[q].plan
        /\ req'[q].left = req[q].left /\ req'[q].include = req[q].include
        /\ req'[q].alone = req[q].alone
        /\ req'[q].seen = req[q].seen \ r.seen
        /\ req'[q].since = IF r.kind = "update" THEN req[q].since \cup r.on
                           ELSE req[q].since
  BY ShapeCommits
<1>2. /\ tags' = tags
      /\ \A t \in Txs : tx'[t].at = tx[t].at
      /\ \A t \in Txs : ~Hit(p, t) =>
           tx'[t].manual = tx[t].manual /\ hand'[t] = hand[t] /\ excused'[t] = excused[t]
      /\ \A t \in Txs : Hit(p, t) =>
           /\ tx'[t].manual
           /\ r.kind # "update" => hand'[t] = hand[t]
           /\ r.kind = "update" => \A g : g \in hand'[t] <=> \E d \in r.plan : g = d[2]
           /\ ~excused'[t] => /\ r.alone
                              /\ r.kind = "update" \/ (~excused[t] /\ ~r.include
                                                      /\ t \notin r.since)
      /\ tagged' = (tagged \ r.seen) \cup r.plan
      /\ \A d \in r.plan : d[1] \in r.on /\ d[1] \in There /\ d[2] \in tags
      /\ \A d \in r.seen : d[1] \in r.on
      /\ \A d \in r.plan : d = <<d[1], d[2]>>
  BY CommitHand
<1>3. There' = There
  BY <1>2 DEF There
<1>4. HandMarked'
  BY <1>2 DEF HandInv, HandMarked, There, Hit
<1>5. WritesOwn'
  <2>1. \A q \in Procs \ {p} : Writing(q)' <=> Writing(q)
    BY <1>1 DEF Writing
  <2>2. \A q \in Procs : req[q] \in Request
    BY ReqFacts
  <2>3. ASSUME NEW q \in Procs \ {p}
        PROVE  /\ req'[q].kind = "batch" => \A t \in req'[q].left : tx'[t].at # "new"
               /\ Writing(q)' => /\ \A t \in req'[q].on : tx'[t].at # "new"
                                 /\ \A d \in req'[q].plan : d[1] \in req'[q].on
               /\ req'[q].at = "commit" => \A d \in req'[q].seen : d[1] \in req'[q].on
               /\ Writing(q)' /\ req'[q].kind = "update" => \A t, u \in req'[q].on : t = u
    <3>1. req[q].on \subseteq Txs /\ req[q].left \subseteq Txs
      BY <2>2 DEF Request
    <3>2. \A t \in Txs : tx[t].at # "new" => tx'[t].at # "new"
      BY <1>2
    <3>3. /\ req'[q].kind = "batch" => \A t \in req'[q].left : tx'[t].at # "new"
          /\ Writing(q)' => \A t \in req'[q].on : tx'[t].at # "new"
      BY <1>1, <2>1, <3>1, <3>2 DEF HandInv, WritesOwn
    <3>4. /\ Writing(q)' => \A d \in req'[q].plan : d[1] \in req'[q].on
          /\ Writing(q)' /\ req'[q].kind = "update" => \A t, u \in req'[q].on : t = u
      <4>1. /\ Writing(q) => \A d \in req[q].plan : d[1] \in req[q].on
            /\ Writing(q) /\ req[q].kind = "update" => \A t, u \in req[q].on : t = u
        BY DEF HandInv, WritesOwn
      <4>2. QED
        BY <1>1, <2>1, <4>1
    <3>5. req'[q].at = "commit" => \A d \in req'[q].seen : d[1] \in req'[q].on
      <4>1. req[q].at = "commit" => \A d \in req[q].seen : d[1] \in req[q].on
        BY DEF HandInv, WritesOwn
      <4>2. QED
        BY <1>1, <4>1
    <3>6. QED
      BY <3>3, <3>4, <3>5
  <2>4. req'[p].kind = "batch" => \A t \in req'[p].left : tx'[t].at # "new"
    <3>1. req[p].left \subseteq Txs
      BY <2>2 DEF Request
    <3>2. QED
      BY <1>0, <1>2, <3>1 DEF HandInv, WritesOwn, Keeps
  <2>5. QED
    BY <1>0, <2>3, <2>4 DEF WritesOwn, Writing
<1>6. AloneSees'
  <2> SUFFICES ASSUME NEW q \in Procs, req'[q].at = "commit", req'[q].alone
               PROVE  /\ \A d \in tagged' : d[1] \in req'[q].on => d \in req'[q].seen
                      /\ \A s \in Procs \ {q} : ~Overlap(q, s)'
    BY DEF AloneSees
  <2>1. q # p
    BY <1>0 DEF Writing
  <2>2. /\ \A d \in tagged : d[1] \in req[q].on => d \in req[q].seen
        /\ \A s \in Procs \ {q} : ~Overlap(q, s)
    BY <1>1, <2>1 DEF HandInv, AloneSees
  <2>3. \A t \in r.on : t \notin req[q].on
    BY <1>0, <2>1, <2>2 DEF Overlap
  <2>4. \A d \in tagged' : d[1] \in req[q].on => d \in req[q].seen \ r.seen
    BY <1>2, <2>2, <2>3
  <2>5. \A s \in Procs \ {q} : ~Overlap(q, s)'
    BY <1>0, <1>1, <2>1, <2>2 DEF Overlap, Writing
  <2>6. QED
    BY <1>1, <2>1, <2>4, <2>5
<1>7. SparesHand'
  <2> SUFFICES ASSUME NEW q \in Procs, NEW t \in Txs, ChosenBy(q, t)', t \notin req'[q].since,
                      ~excused'[t]
               PROVE  hand'[t] \cap tags = {}
    BY <1>2 DEF SparesHand
  <2>1. /\ ChosenBy(q, t) /\ t \notin req[q].since
        /\ r.kind = "update" /\ q # p => t \notin r.on
    <3>1. CASE q = p
      BY <1>0, <3>1 DEF ChosenBy, Sparing, Keeps
    <3>2. CASE q # p
      BY <1>1, <3>2 DEF ChosenBy, Sparing, Writing
    <3>3. QED
      BY <3>1, <3>2
  <2>2. r.kind = "update" => ~Hit(p, t)
    BY <2>1 DEF ChosenBy, Sparing, Hit
  <2>3. ~excused[t] /\ hand'[t] = hand[t]
    BY <1>2, <2>2
  <2>4. QED
    BY <2>1, <2>3 DEF HandInv, SparesHand
<1>8. HandKept'
  <2> SUFFICES ASSUME NEW t \in There, hand'[t] \cap tags # {}, ~excused'[t]
               PROVE  TagsOf(t)' = hand'[t] \cap tags
    BY <1>2, <1>3 DEF HandKept
  <2>0. t \in Txs /\ \A g : <<t, g>>[1] = t /\ <<t, g>>[2] = g
    BY DEF There
  <2>1. CASE t \notin r.on
    <3>1. hand'[t] = hand[t] /\ ~excused[t]
      BY <1>2, <2>0, <2>1 DEF Hit
    <3>2. TagsOf(t) = hand[t] \cap tags
      BY <3>1 DEF HandInv, HandKept
    <3>3. \A g \in Tags : <<t, g>> \in tagged' <=> <<t, g>> \in tagged
      BY <1>2, <2>0, <2>1
    <3>4. QED
      BY <3>1, <3>2, <3>3 DEF TagsOf
  <2>2. CASE t \in r.on
    <3>1. r.alone /\ (r.kind # "update" => ~excused[t] /\ ~r.include /\ t \notin r.since)
      BY <1>2, <2>0, <2>2 DEF Hit
    <3>2. CASE r.kind # "update"
      <4>1. ChosenBy(p, t)
        BY <1>0, <2>2, <3>1, <3>2 DEF ChosenBy, Sparing
      <4>2. hand'[t] = hand[t] /\ hand[t] \cap tags = {}
        BY <1>2, <2>0, <2>2, <3>1, <3>2, <4>1 DEF HandInv, SparesHand, Hit
      <4>3. QED
        BY <4>2
    <3>3. CASE r.kind = "update"
      <4>1. \A g : g \in hand'[t] <=> \E d \in r.plan : g = d[2]
        BY <1>2, <2>0, <2>2, <3>3 DEF Hit
      <4>2. \A d \in tagged : d[1] = t => d \in r.seen
        BY <1>0, <2>2, <3>1 DEF HandInv, AloneSees
      <4>3. \A d \in r.plan : d[1] = t
        BY <1>0, <1>2, <2>2, <3>3 DEF HandInv, WritesOwn
      <4>4. \A g \in Tags : <<t, g>> \in tagged' <=> <<t, g>> \in r.plan
        BY <1>2, <2>0, <4>2
      <4>5. \A g : g \in hand'[t] <=> <<t, g>> \in r.plan
        <5>1. ASSUME NEW g, g \in hand'[t] PROVE <<t, g>> \in r.plan
          <6>1. PICK d \in r.plan : g = d[2]
            BY <4>1, <5>1
          <6>2. d = <<d[1], d[2]>> /\ d[1] = t
            BY <1>2, <4>3
          <6>3. QED
            BY <6>1, <6>2
        <5>2. ASSUME NEW g, <<t, g>> \in r.plan PROVE g \in hand'[t]
          BY <2>0, <4>1, <5>2
        <5>3. QED
          BY <5>1, <5>2
      <4>6. \A g : <<t, g>> \in r.plan => g \in tags
        BY <1>2, <2>0
      <4>7. tags \subseteq Tags
        BY DEF TypeInv, TablesOK
      <4>8. QED
        BY <4>4, <4>5, <4>6, <4>7 DEF TagsOf
    <3>4. QED
      BY <3>2, <3>3
  <2>3. QED
    BY <2>1, <2>2
<1>9. QED
  BY <1>4, <1>5, <1>6, <1>7, <1>8 DEF HandInv

\* A transaction that is created with its tags: nobody has chosen it before.
LEMMA HandCreates ==
  ASSUME TypeInv, HandInv, NEW p \in Procs, NEW t \in Txs, NEW G \in SUBSET Tags,
         NEW heard \in BOOLEAN, Create(p, t, G, heard)
  PROVE  HandInv'
<1>1. /\ tx[t].at = "new" /\ G \subseteq tags /\ tags' = tags /\ excused' = excused
      /\ tagged' = tagged \cup ({t} \X G)
      /\ tx' = [tx EXCEPT ![t] = [at |-> "there", manual |-> G # {}]]
      /\ hand' = [hand EXCEPT ![t] = G]
  BY DEF Create
<1>2. /\ tx'[t].at = "there" /\ (~tx'[t].manual => G = {}) /\ hand'[t] = G
      /\ \A u \in Txs \ {t} : tx'[u] = tx[u] /\ hand'[u] = hand[u]
  BY <1>1 DEF TypeInv, TablesOK
<1>3. \A u, g : <<u, g>> \in tagged' <=> <<u, g>> \in tagged \/ (u = t /\ g \in G)
  BY <1>1
<1>4. \A d \in tagged' : d \in tagged \/ d[1] = t
  BY <1>1
<1>5. Others(p) /\ req'[p].at \notin {"delete", "commit"} /\ req'[p].kind \in {"none", "create"}
  <2>1. Others(p) /\ (req'[p] = Idle \/ req'[p] = CreateRow(t, G))
    BY ComesCreate
  <2>2. CreateRow(t, G).at = "learn" /\ CreateRow(t, G).kind = "create"
    BY RowFields
  <2>3. QED
    BY <2>1, <2>2 DEF Idle
<1>6. \A q \in Procs : /\ Writing(q) => t \notin req[q].on
                       /\ req[q].kind = "batch" => t \notin req[q].left
  BY <1>1 DEF HandInv, WritesOwn
<1>7. HandMarked'
  BY <1>2 DEF HandInv, HandMarked
<1>8. WritesOwn'
  <2>1. ASSUME NEW q \in Procs \ {p}
        PROVE  /\ req'[q] = req[q] /\ (Writing(q)' <=> Writing(q))
               /\ req[q].on \subseteq Txs /\ req[q].left \subseteq Txs
    BY <1>5, ReqFacts DEF Others, Writing, Request
  <2>2. ~Writing(p)' /\ req'[p].kind # "batch"
    BY <1>5 DEF Writing
  <2>3. \A u \in Txs : tx[u].at # "new" => tx'[u].at # "new"
    BY <1>2
  <2>4. ASSUME NEW q \in Procs \ {p}
        PROVE  /\ req'[q].kind = "batch" => \A u \in req'[q].left : tx'[u].at # "new"
               /\ Writing(q)' => \A u \in req'[q].on : tx'[u].at # "new"
    BY <2>1, <2>3 DEF HandInv, WritesOwn
  <2>5. QED
    BY <1>5, <2>1, <2>2, <2>4 DEF HandInv, WritesOwn, Writing
<1>9. AloneSees'
  <2> SUFFICES ASSUME NEW q \in Procs, req'[q].at = "commit", req'[q].alone
               PROVE  /\ \A d \in tagged' : d[1] \in req'[q].on => d \in req'[q].seen
                      /\ \A s \in Procs \ {q} : ~Overlap(q, s)'
    BY DEF AloneSees
  <2>1. q # p /\ req'[q] = req[q] /\ t \notin req[q].on
    BY <1>5, <1>6 DEF Others, Writing
  <2>2. /\ \A d \in tagged : d[1] \in req[q].on => d \in req[q].seen
        /\ \A s \in Procs \ {q} : ~Overlap(q, s)
    BY <2>1 DEF HandInv, AloneSees
  <2>3. \A s \in Procs \ {q} : ~Overlap(q, s)'
    BY <1>5, <2>1, <2>2 DEF Overlap, Others
  <2>4. QED
    BY <1>4, <2>1, <2>2, <2>3
<1>10. SparesHand'
  <2> SUFFICES ASSUME NEW q \in Procs, NEW u \in Txs, ChosenBy(q, u)', u \notin req'[q].since,
                      ~excused[u]
               PROVE  hand'[u] \cap tags = {}
    BY <1>1 DEF SparesHand
  <2>1. q # p /\ req'[q] = req[q]
    BY <1>5 DEF Others, ChosenBy, Sparing
  <2>2. ChosenBy(q, u) /\ u # t
    BY <1>6, <2>1 DEF ChosenBy, Sparing, Writing
  <2>3. QED
    BY <1>2, <2>1, <2>2 DEF HandInv, SparesHand
<1>11. HandKept'
  <2> SUFFICES ASSUME NEW u \in There', hand'[u] \cap tags # {}, ~excused[u]
               PROVE  TagsOf(u)' = hand'[u] \cap tags
    BY <1>1 DEF HandKept
  <2>1. CASE u = t
    <3>1. \A g : <<t, g>> \notin tagged
      <4>1. t \notin There
        BY <1>1 DEF There
      <4>2. QED
        BY <4>1 DEF TypeInv, TablesOK
    <3>2. QED
      BY <1>1, <1>2, <1>3, <2>1, <3>1 DEF TagsOf
  <2>2. CASE u # t
    <3>1. u \in There /\ hand'[u] = hand[u]
      BY <1>2, <2>2 DEF There
    <3>2. TagsOf(u) = hand[u] \cap tags
      BY <3>1 DEF HandInv, HandKept
    <3>3. TagsOf(u)' = TagsOf(u)
      BY <1>3, <2>2 DEF TagsOf
    <3>4. QED
      BY <3>1, <3>2, <3>3
  <2>3. QED
    BY <2>1, <2>2
<1>12. QED
  BY <1>7, <1>8, <1>9, <1>10, <1>11 DEF HandInv

\* Fewer transactions, or fewer tags.
LEMMA HandDeletes ==
  ASSUME TypeInv, HandInv,
         (\E t \in Txs : DeleteTx(t)) \/ (\E g \in Tags : DeleteTag(g))
  PROVE  HandInv'
<1>1. ASSUME UNCHANGED <<hand, excused, req>>, tags' \subseteq tags, tagged' \subseteq tagged,
             \A u \in Txs : /\ tx'[u].manual = tx[u].manual
                            /\ tx'[u].at = "new" => tx[u].at = "new",
             \A u \in There' : /\ u \in There
                               /\ \A g \in Tags : <<u, g>> \in tagged'
                                                    <=> <<u, g>> \in tagged /\ g \in tags'
      PROVE  HandInv'
  <2>1. HandMarked'
    BY <1>1 DEF HandInv, HandMarked
  <2>2. \A q \in Procs : (Writing(q)' <=> Writing(q))
                         /\ req[q].on \subseteq Txs /\ req[q].left \subseteq Txs
    BY <1>1, ReqFacts DEF Writing, Request
  <2>3. WritesOwn'
    <3>1. \A u \in Txs : tx[u].at # "new" => tx'[u].at # "new"
      BY <1>1
    <3>2. QED
      BY <1>1, <2>2, <3>1 DEF HandInv, WritesOwn
  <2>4. AloneSees'
    BY <1>1 DEF HandInv, AloneSees, Overlap
  <2>5. SparesHand'
    BY <1>1 DEF HandInv, SparesHand, ChosenBy, Sparing, Writing
  <2>6. HandKept'
    <3> SUFFICES ASSUME NEW u \in There', hand[u] \cap tags' # {}, ~excused[u]
                 PROVE  TagsOf(u)' = hand[u] \cap tags'
      BY <1>1 DEF HandKept
    <3>1. u \in There /\ hand[u] \cap tags # {}
      BY <1>1
    <3>2. TagsOf(u) = hand[u] \cap tags
      BY <3>1 DEF HandInv, HandKept
    <3>3. \A g : g \in TagsOf(u)' <=> g \in TagsOf(u) /\ g \in tags'
      BY <1>1 DEF TagsOf
    <3>4. QED
      BY <1>1, <3>2, <3>3
  <2>7. QED
    BY <2>1, <2>3, <2>4, <2>5, <2>6 DEF HandInv
<1>2. ASSUME NEW t \in Txs, DeleteTx(t) PROVE HandInv'
  <2>1. /\ UNCHANGED <<hand, excused, req, tags>>
        /\ tx' = [tx EXCEPT ![t].at = "gone"] /\ tagged' = tagged \ Rows({t})
    BY <1>2 DEF DeleteTx
  <2>2. /\ \A u \in Txs : tx'[u].manual = tx[u].manual
        /\ \A u \in Txs \ {t} : tx'[u] = tx[u]
        /\ tx'[t].at = "gone"
    BY <2>1 DEF TypeInv, TablesOK
  <2>3. \A u \in There' : u \in There /\ u # t
    BY <2>2 DEF There
  <2>4. \A u, g : u # t => (<<u, g>> \in tagged' <=> <<u, g>> \in tagged)
    BY <2>1 DEF Rows
  <2>5. \A u, g : <<u, g>> \in tagged => g \in tags
    BY DEF TypeInv, TablesOK
  <2>6. QED
    BY <1>1, <2>1, <2>2, <2>3, <2>4, <2>5
<1>3. ASSUME NEW g \in Tags, DeleteTag(g) PROVE HandInv'
  <2>1. /\ UNCHANGED <<hand, excused, req, tx>>
        /\ tags' = tags \ {g} /\ tagged' = {d \in tagged : d[2] # g}
    BY <1>3 DEF DeleteTag
  <2>2. There' = There
    BY <2>1 DEF There
  <2>3. \A u, h : <<u, h>> \in tagged' <=> <<u, h>> \in tagged /\ h # g
    BY <2>1
  <2>4. \A u, h : <<u, h>> \in tagged => h \in tags
    BY DEF TypeInv, TablesOK
  <2>5. \A u \in There' : /\ u \in There
                          /\ \A h \in Tags : <<u, h>> \in tagged'
                                               <=> <<u, h>> \in tagged /\ h \in tags'
    BY <2>1, <2>2, <2>3, <2>4
  <2>6. QED
    BY <1>1, <2>1, <2>5
<1>4. QED
  BY <1>2, <1>3

\* The rows of an import come without tags, and were not tagged by hand.
LEMMA HandInsertsRow ==
  ASSUME TypeInv, HandInv, NEW p \in Procs, NEW t \in Txs, InsertRow(p, t)
  PROVE  HandInv'
<1>1. /\ Others(p) /\ req'[p].kind = "import" /\ req'[p].at \in {"row", "tag"}
      /\ UNCHANGED <<tags, tagged, hand, excused>>
  BY ShapeInsertsRow DEF InsertRow
<1>2. /\ \A u \in Txs : tx'[u].manual = tx[u].manual
      /\ \A u \in Txs : tx[u].at # "new" => tx'[u].at = tx[u].at
      /\ \A u \in Txs : tx'[u].at = "new" => tx[u].at = "new"
  <2>1. tx' = tx \/ (tx[t].at = "new" /\ tx' = [tx EXCEPT ![t].at = "there"])
    BY DEF InsertRow
  <2>2. QED
    BY <2>1 DEF TypeInv, TablesOK
<1>3. HandMarked'
  BY <1>1, <1>2 DEF HandInv, HandMarked
<1>4. ~Writing(p)' /\ ~Sparing(p)'
  BY <1>1 DEF Writing, Sparing
<1>5. \A q \in Procs \ {p} : /\ req'[q] = req[q] /\ (Writing(q)' <=> Writing(q))
                             /\ req[q].on \subseteq Txs /\ req[q].left \subseteq Txs
  BY <1>1, ReqFacts DEF Others, Writing, Request
<1>6. WritesOwn'
  <2>1. ASSUME NEW q \in Procs \ {p}
        PROVE  /\ req'[q].kind = "batch" => \A u \in req'[q].left : tx'[u].at # "new"
               /\ Writing(q)' => \A u \in req'[q].on : tx'[u].at # "new"
    BY <1>2, <1>5 DEF HandInv, WritesOwn
  <2>2. QED
    BY <1>1, <1>4, <1>5, <2>1 DEF HandInv, WritesOwn
<1>7. AloneSees'
  BY <1>1, <1>5 DEF HandInv, AloneSees, Overlap
<1>8. SparesHand'
  <2>1. \A q \in Procs, u \in Txs : ChosenBy(q, u)' => q # p /\ ChosenBy(q, u)
    BY <1>4, <1>5 DEF ChosenBy, Sparing
  <2>2. QED
    BY <1>1, <1>5, <2>1 DEF HandInv, SparesHand
<1>9. HandKept'
  <2> SUFFICES ASSUME NEW u \in There', hand[u] \cap tags # {}, ~excused[u]
               PROVE  TagsOf(u) = hand[u] \cap tags
    BY <1>1 DEF HandKept, TagsOf
  <2>1. u \in Txs /\ tx[u].manual
    BY DEF There, HandInv, HandMarked
  <2>2. tx[u].at # "new"
    BY <2>1 DEF HandInv, HandMarked
  <2>3. u \in There
    BY <1>2, <2>1, <2>2 DEF There
  <2>4. QED
    BY <2>3 DEF HandInv, HandKept
<1>10. QED
  BY <1>3, <1>6, <1>7, <1>8, <1>9 DEF HandInv

\* Whoever gave tags by hand to a row of an import loses to the tag of the file.
LEMMA HandInsertsTag ==
  ASSUME TypeInv, KindsFit, HandInv, NEW p \in Procs, InsertTag(p)
  PROVE  HandInv'
<1> DEFINE new == {d \in req[p].plan : d[1] \in req[p].left}
<1>0. req[p].kind = "import" /\ UNCHANGED <<tags, tx, hand>>
  BY DEF InsertTag, KindsFit
<1>1. CASE Others(p) /\ req'[p] = Idle /\ UNCHANGED <<tagged, excused>>
  BY <1>0, <1>1, HandEnds DEF HandTables
<1>2. CASE /\ req'[p].at = "row" /\ Keeps(p)
           /\ \A q \in Procs \ {p} :
                /\ req'[q].at = req[q].at /\ req'[q].kind = req[q].kind
                /\ req'[q].on = req[q].on /\ req'[q].plan = req[q].plan
                /\ req'[q].left = req[q].left /\ req'[q].include = req[q].include
                /\ req'[q].seen = req[q].seen /\ req'[q].since = req[q].since
                /\ req'[q].alone = (req[q].alone /\ req[q].on \cap req[p].left = {})
           /\ tagged' = tagged \cup new
           /\ excused' = [t \in Txs |-> excused[t] \/ t \in req[p].left]
  <2>1. \A d \in tagged' : d \in tagged \/ d[1] \in req[p].left
    BY <1>2
  <2>2. \A t \in Txs : ~excused'[t] => ~excused[t] /\ t \notin req[p].left
    BY <1>2
  <2>3. ~Writing(p)' /\ ~Sparing(p)' /\ req'[p].kind = "import"
    BY <1>0, <1>2 DEF Writing, Sparing, Keeps
  <2>4. \A q \in Procs \ {p} : (Writing(q)' <=> Writing(q)) /\ (Sparing(q)' <=> Sparing(q))
    BY <1>2 DEF Writing, Sparing
  <2>5. HandMarked'
    BY <1>0 DEF HandInv, HandMarked
  <2>6. WritesOwn'
    <3>1. ASSUME NEW q \in Procs \ {p}
          PROVE  /\ req'[q].kind = "batch" => \A u \in req'[q].left : tx[u].at # "new"
                 /\ Writing(q)' => \A u \in req'[q].on : tx[u].at # "new"
      BY <1>2, <2>4 DEF HandInv, WritesOwn
    <3>2. ASSUME NEW q \in Procs \ {p}
          PROVE  /\ Writing(q)' => \A d \in req'[q].plan : d[1] \in req'[q].on
                 /\ Writing(q)' /\ req'[q].kind = "update" => \A t, u \in req'[q].on : t = u
      <4>1. /\ Writing(q) => \A d \in req[q].plan : d[1] \in req[q].on
            /\ Writing(q) /\ req[q].kind = "update" => \A t, u \in req[q].on : t = u
        BY DEF HandInv, WritesOwn
      <4>2. QED
        BY <1>2, <2>4, <4>1
    <3>3. ASSUME NEW q \in Procs \ {p}
          PROVE  req'[q].at = "commit" => \A d \in req'[q].seen : d[1] \in req'[q].on
      <4>1. req[q].at = "commit" => \A d \in req[q].seen : d[1] \in req[q].on
        BY DEF HandInv, WritesOwn
      <4>2. QED
        BY <1>2, <4>1
    <3>4. QED
      BY <1>0, <2>3, <3>1, <3>2, <3>3 DEF WritesOwn, Writing
  <2>7. AloneSees'
    <3> SUFFICES ASSUME NEW q \in Procs, req'[q].at = "commit", req'[q].alone
                 PROVE  /\ \A d \in tagged' : d[1] \in req'[q].on => d \in req'[q].seen
                        /\ \A s \in Procs \ {q} : ~Overlap(q, s)'
      BY DEF AloneSees
    <3>1. q # p
      BY <1>2
    <3>2. /\ req[q].at = "commit" /\ req[q].alone
          /\ \A t \in req[p].left : t \notin req[q].on
          /\ req'[q].on = req[q].on /\ req'[q].seen = req[q].seen
      BY <1>2, <3>1
    <3>3. /\ \A d \in tagged : d[1] \in req[q].on => d \in req[q].seen
          /\ \A s \in Procs \ {q} : ~Overlap(q, s)
      BY <3>2 DEF HandInv, AloneSees
    <3>4. \A s \in Procs \ {q} : ~Overlap(q, s)'
      BY <1>2, <3>1, <3>2, <3>3 DEF Overlap
    <3>5. QED
      BY <2>1, <3>2, <3>3, <3>4
  <2>8. SparesHand'
    <3>1. \A q \in Procs, t \in Txs : ChosenBy(q, t)' => q # p /\ ChosenBy(q, t)
      BY <1>2, <2>3, <2>4 DEF ChosenBy
    <3>2. QED
      BY <1>0, <1>2, <2>2, <3>1 DEF HandInv, SparesHand
  <2>9. HandKept'
    <3> SUFFICES ASSUME NEW t \in There, hand[t] \cap tags # {}, ~excused'[t]
                 PROVE  TagsOf(t)' = hand[t] \cap tags
      BY <1>0 DEF HandKept, There
    <3>1. ~excused[t] /\ t \notin req[p].left
      BY <2>2 DEF There
    <3>2. TagsOf(t) = hand[t] \cap tags
      BY <3>1 DEF HandInv, HandKept
    <3>3. \A g : <<t, g>> \in tagged' <=> <<t, g>> \in tagged
      BY <1>2, <2>1, <3>1
    <3>4. QED
      BY <3>2, <3>3 DEF TagsOf
  <2>10. QED
    BY <2>5, <2>6, <2>7, <2>8, <2>9 DEF HandInv
<1>3. QED
  BY <1>1, <1>2, ShapeInsertsTag

LEMMA HandStep == TypeInv /\ KindsFit /\ HandInv /\ [Next]_vars => HandInv'
<1> SUFFICES ASSUME TypeInv, KindsFit, HandInv, [Next]_vars PROVE HandInv'
  OBVIOUS
<1>1. CASE UNCHANGED req /\ UNCHANGED HandTables
  BY <1>1 DEF HandInv, HandTables, HandMarked, WritesOwn, Writing, AloneSees, Overlap,
              SparesHand, ChosenBy, Sparing, HandKept, There, TagsOf
<1>2. ASSUME \/ \E p \in Procs : Adopt(p)
             \/ \E g \in Tags : CreateRule(g)
             \/ DeleteRule
             \/ \E b \in Slots, all \in BOOLEAN : BeginBuild(b, all)
             \/ UNCHANGED vars
      PROVE  UNCHANGED req /\ UNCHANGED HandTables
  BY <1>2 DEF Adopt, CreateRule, DeleteRule, BeginBuild, vars, HandTables
<1>3. ASSUME NEW b \in Builders,
             \/ \E G \in SUBSET SystemTags, T \in SUBSET Txs : Train(b, G, T)
             \/ TrainFails(b) \/ Store(b) \/ StoreFails(b)
             \/ \E i \in 0 .. Len(shared) : FindShared(b, i)
             \/ WriteShared(b) \/ SharedFails(b)
      PROVE  UNCHANGED req /\ UNCHANGED HandTables
  BY <1>3 DEF Train, TrainFails, Store, StoreFails, FindShared, WriteShared, SharedFails, HandTables
<1>4. ASSUME NEW p \in Procs,
             \/ \E t \in Txs, G \in SUBSET Tags : Update(p, t, G)
             \/ \E t \in Txs, g \in Tags, include \in BOOLEAN : ApplySimilar(p, t, g, include)
             \/ \E include \in BOOLEAN, T \in SUBSET Txs : AutoTagBatch(p, include, T)
             \/ \E T \in SUBSET Txs : Import(p, T)
      PROVE  HandInv'
  BY <1>4, HandComes
<1>5. ASSUME NEW p \in Procs,
             \/ Learn(p) \/ EndBatch(p) \/ EndImport(p) \/ RollBack(p)
             \/ GetModel(p) \/ Await(p) \/ BuildNow(p)
             \/ \E i \in 0 .. Len(shared) : Inherit(p, i)
      PROVE  HandInv'
  BY <1>5, HandRuns
<1>6. ASSUME NEW p \in Procs, NEW reads \in BOOLEAN,
             SelectSimilar(p, reads) \/ BeginWrite(p) \/ InsertTag(p)
      PROVE  HandInv'
  BY <1>6, HandSelects, HandBegins, HandInsertsTag
<1>7. ASSUME NEW p \in Procs, NEW heard \in BOOLEAN,
             CommitWrite(p, heard) \/ \E t \in Txs, G \in SUBSET Tags : Create(p, t, G, heard)
      PROVE  HandInv'
  BY <1>7, HandCommits, HandCreates
<1>8. ASSUME NEW p \in Procs, NEW t \in Txs,
             InsertRow(p, t) \/ \E G \in SUBSET Tags : Classify(p, t, G)
      PROVE  HandInv'
  BY <1>8, HandInsertsRow, HandClassifies
<1>9. CASE (\E t \in Txs : DeleteTx(t)) \/ (\E g \in Tags : DeleteTag(g))
  BY <1>9, HandDeletes
<1>10. CASE Stop
  <2>1. UNCHANGED HandTables /\ \A p \in Procs : req'[p] = Idle
    BY <1>10 DEF Stop, HandTables
  <2>2. HandMarked' /\ HandKept'
    BY <2>1 DEF HandInv, HandTables, HandMarked, HandKept, There, TagsOf
  <2>3. WritesOwn' /\ AloneSees' /\ SparesHand'
    BY <2>1 DEF Idle, WritesOwn, Writing, AloneSees, SparesHand, ChosenBy, Sparing
  <2>4. QED
    BY <2>2, <2>3 DEF HandInv
<1>11. QED
  BY <1>1, <1>2, <1>3, <1>4, <1>5, <1>6, <1>7, <1>8, <1>9, <1>10 DEF Next

\* The tags that someone gave by hand stay, less those that are deleted, however
\* updates, batches, ApplySimilar, imports and deletions interleave: unless
\* another write of the same transaction overlapped, or one that was told to
\* include it, or had chosen it before (internal/repository/transaction.go:212-269,
\* 481-510, 557-594).
THEOREM HandTagsStay == Spec => []HandKept
<1>1. TypeInv /\ KindsFit /\ [Next]_vars => KindsFit'
  BY KindsStep
<1>2. HandInv => HandKept
  BY DEF HandInv
<1>3. QED
  BY <1>1, <1>2, KindsInit, HandInit, HandStep, TypesHold, PTL DEF Spec

-----------------------------------------------------------------------------
(* The stored classifier.                                                  *)

\* A rebuild of the family's classifier is bound to begin, or has not read yet.
Reading == {b \in Builders : build[b].at = "read" /\ ~build[b].all}
RebuildDue == due.own > 0 \/ Reading # {} \/ \E p \in Procs : Learner(p)

\* Who waits has the rebuild, and what stores is no rebuild for all.
BuildsFit ==
  /\ \A p \in Procs : build[p].at = "idle" \/ req[p].at = "await"
  /\ \A b \in Builders : /\ build[b].at = "store" => ~build[b].all
                         /\ build[b].at = "read" => ~build[b].overtaken

\* older orders the rebuilds that are to store by when they have read, and who
\* is overtaken is so with all that read before.
ReadInOrder ==
  \A b \in Storing :
    /\ build[b].older \subseteq Storing \ {b}
    /\ \A c \in build[b].older : /\ build[c].older \subseteq build[b].older
                                 /\ build[b].overtaken => build[c].overtaken

\* The last one to read has the tags there are, or knows that it has not.
Newest(b) == \A c \in Storing : b \notin build[c].older
NewestFresh ==
  ~RebuildDue => \A b \in Storing :
    Newest(b) => build[b].overtaken \/ build[b].missed \/ build[b].docs = Trained(tagged)

\* When all that are to store were overtaken, the row has the tags there are.
RowFresh ==
  ~RebuildDue /\ (\A b \in Storing : build[b].overtaken) => lag \/ model = Trained(tagged)

LearnInv == BuildsFit /\ ReadInOrder /\ NewestFresh /\ RowFresh

LEMMA LearnInit == Init => LearnInv
<1> SUFFICES ASSUME Init PROVE LearnInv
  OBVIOUS
<1>1. \A b \in Builders : build[b].at = "idle"
  BY DEF Init, NoBuild
<1>2. Storing = {}
  BY <1>1 DEF Storing
<1>3. BuildsFit
  BY <1>1 DEF BuildsFit, Builders
<1>4. lag \/ model = Trained(tagged)
  BY DEF Init
<1>5. QED
  BY <1>2, <1>3, <1>4 DEF LearnInv, ReadInOrder, NewestFresh, RowFresh

\* A step that leaves those that are to store, and if it changes the tags, then
\* there will be a rebuild or lag and missed say so.
LEMMA LearnStays ==
  ASSUME LearnInv, BuildsFit', Storing' = Storing,
         \A b \in Storing : /\ build'[b].older = build[b].older
                            /\ build'[b].docs = build[b].docs
                            /\ build'[b].overtaken = build[b].overtaken
                            /\ build[b].missed => build'[b].missed,
         \/ RebuildDue'
         \/ lag' /\ \A b \in Storing : build'[b].missed
         \/ /\ tagged' = tagged /\ (RebuildDue => RebuildDue')
            /\ lag' \/ (lag' = lag /\ model' = model)
  PROVE  LearnInv'
<1>1. ReadInOrder'
  BY DEF LearnInv, ReadInOrder
<1>2. \A b \in Storing : Newest(b)' <=> Newest(b)
  BY DEF Newest
<1>3. NewestFresh'
  <2> SUFFICES ASSUME ~RebuildDue', NEW b \in Storing, Newest(b)
               PROVE  build'[b].overtaken \/ build'[b].missed \/ build'[b].docs = Trained(tagged')
    BY <1>2 DEF NewestFresh, Trained
  <2>1. CASE \A c \in Storing : build'[c].missed
    BY <2>1
  <2>2. CASE tagged' = tagged /\ (RebuildDue => RebuildDue')
    <3>1. build[b].overtaken \/ build[b].missed \/ build[b].docs = Trained(tagged)
      BY <2>2 DEF LearnInv, NewestFresh
    <3>2. QED
      BY <2>2, <3>1
  <2>3. QED
    BY <2>1, <2>2
<1>4. RowFresh'
  <2> SUFFICES ASSUME ~RebuildDue', \A b \in Storing : build[b].overtaken
               PROVE  lag' \/ model' = Trained(tagged')
    BY DEF RowFresh, Trained
  <2>1. CASE tagged' = tagged /\ (RebuildDue => RebuildDue') /\ lag' = lag /\ model' = model
    <3>1. lag \/ model = Trained(tagged)
      BY <2>1 DEF LearnInv, RowFresh
    <3>2. QED
      BY <2>1, <3>1
  <2>2. QED
    BY <2>1
<1>5. QED
  BY <1>1, <1>3, <1>4 DEF LearnInv

LEMMA DueStays ==
  ASSUME GoOn, due.own > 0 => due'.own > 0 \/ Reading' # {},
         Reading # {} => Reading' # {}
  PROVE  RebuildDue => RebuildDue'
  BY DEF GoOn, RebuildDue

\* A rebuild that is not to store, and will not be.
LEMMA AsidePuts ==
  ASSUME TypeInv, LearnInv, GoOn, NEW b \in Builders, NEW r \in Build, PutBuild(b, r),
         b \notin Storing, r.at # "store", r.at = "read" => ~r.overtaken,
         b \in Procs => r.at = "idle" \/ req'[b].at = "await",
         b \in Reading => r.at = "read" /\ ~r.all,
         tagged' = tagged, lag' \/ (lag' = lag /\ model' = model),
         due.own > 0 => due'.own > 0 \/ (r.at = "read" /\ ~r.all)
  PROVE  LearnInv'
<1>0. BuildsOK
  BY DEF TypeInv
<1>1. build'[b] = r /\ \A c \in Builders \ {b} : build'[c] = build[c]
  BY <1>0, PutBuildOK
<1>2. Storing' = Storing /\ \A c \in Storing : build'[c] = build[c]
  BY <1>1 DEF Storing
<1>3. BuildsFit'
  <2>1. \A p \in Procs : build'[p].at = "idle" \/ req'[p].at = "await"
    BY <1>1 DEF LearnInv, BuildsFit, GoOn, Builders
  <2>2. QED
    BY <1>1, <2>1 DEF LearnInv, BuildsFit
<1>4. Reading # {} => Reading' # {}
  BY <1>1 DEF Reading
<1>5. due.own > 0 => due'.own > 0 \/ Reading' # {}
  BY <1>1 DEF Reading
<1>6. RebuildDue => RebuildDue'
  BY <1>4, <1>5, DueStays
<1>7. QED
  BY <1>2, <1>3, <1>6, LearnStays

\* A step that is not about the rebuilds.
LEMMA QuietLearn ==
  ASSUME TypeInv, LearnInv, GoOn, UNCHANGED <<tagged, model, build, lag>>,
         due.own > 0 => due'.own > 0
  PROVE  LearnInv'
<1>1. Storing' = Storing /\ Reading' = Reading
  BY DEF Storing, Reading
<1>2. BuildsFit'
  BY DEF LearnInv, BuildsFit, GoOn
<1>3. RebuildDue => RebuildDue'
  BY <1>1, DueStays
<1>4. QED
  BY <1>1, <1>2, <1>3, LearnStays

\* The steps that change tags, of which only a commit that is heard is learned.
LEMMA MarksLearn ==
  ASSUME TypeInv, LearnInv, GoOn, NEW changed \in BOOLEAN, Unlearned(changed),
         UNCHANGED <<model, due>>,
         changed \/ tagged' = tagged \/ \E p \in Procs : Learner(p)'
  PROVE  LearnInv'
<1>0. BuildsOK /\ lag \in BOOLEAN
  BY DEF TypeInv, CountsOK
<1>1. /\ lag' = (lag \/ changed)
      /\ \A c \in Builders :
           /\ build'[c].at = build[c].at /\ build'[c].all = build[c].all
           /\ build'[c].docs = build[c].docs /\ build'[c].older = build[c].older
           /\ build'[c].overtaken = build[c].overtaken
           /\ build'[c].missed = (build[c].missed \/ (changed /\ c \in Storing))
  BY <1>0, UnlearnedMarks
<1>2. Storing' = Storing /\ Reading' = Reading /\ Storing \subseteq Builders
  BY <1>1 DEF Storing, Reading
<1>3. BuildsFit'
  BY <1>1 DEF LearnInv, BuildsFit, GoOn, Builders
<1>4. RebuildDue => RebuildDue'
  BY <1>2, DueStays
<1>5. (\E p \in Procs : Learner(p)') => RebuildDue'
  BY DEF RebuildDue
<1>6. \A b \in Storing : /\ build'[b].older = build[b].older
                         /\ build'[b].docs = build[b].docs
                         /\ build'[b].overtaken = build[b].overtaken
                         /\ build[b].missed => build'[b].missed
                         /\ changed => build'[b].missed
  BY <1>1, <1>2
<1>7. QED
  BY <1>0, <1>1, <1>2, <1>3, <1>4, <1>5, <1>6, LearnStays

LEMMA TagsLearn ==
  ASSUME TypeInv, KindsFit, LearnInv, GoOn,
         \/ \E p \in Procs, heard \in BOOLEAN : CommitWrite(p, heard)
         \/ \E p \in Procs, t \in Txs, G \in SUBSET Tags, heard \in BOOLEAN :
              Create(p, t, G, heard)
         \/ \E t \in Txs : DeleteTx(t)
         \/ \E g \in Tags : DeleteTag(g)
         \/ \E p \in Procs : InsertTag(p)
  PROVE  LearnInv'
<1>1. ASSUME NEW p \in Procs, NEW heard \in BOOLEAN, CommitWrite(p, heard) PROVE LearnInv'
  <2>1. Unlearned(~heard) /\ UNCHANGED <<model, due>>
    BY <1>1 DEF CommitWrite
  <2>2. heard => Learner(p)'
    <3>1. heard => req'[p].kind = req[p].kind /\ req'[p].at = After(p)
      BY <1>1, ShapeCommits DEF Keeps
    <3>2. QED
      BY <3>1 DEF Learner, After
  <2>3. QED
    BY <2>1, <2>2, MarksLearn
<1>2. ASSUME NEW p \in Procs, NEW t \in Txs, NEW G \in SUBSET Tags, NEW heard \in BOOLEAN,
             Create(p, t, G, heard)
      PROVE  LearnInv'
  <2> DEFINE changed == G # {} /\ ~heard
  <2>1. Unlearned(changed) /\ UNCHANGED <<model, due>> /\ tagged' = tagged \cup ({t} \X G)
    BY <1>2 DEF Create
  <2>2. G = {} => tagged' = tagged
    BY <2>1
  <2>3. changed \/ G = {} \/ Learner(p)'
    <3>1. \/ req'[p] = Idle /\ (G = {} \/ ~heard)
          \/ req'[p] = CreateRow(t, G)
      BY <1>2, ComesCreate
    <3>2. CreateRow(t, G).at = "learn"
      BY RowFields
    <3>3. QED
      BY <3>1, <3>2 DEF Learner
  <2>4. changed \in BOOLEAN
    OBVIOUS
  <2> HIDE DEF changed
  <2>5. QED
    BY <2>1, <2>2, <2>3, <2>4, MarksLearn
<1>3. ASSUME NEW t \in Txs, DeleteTx(t) PROVE LearnInv'
  <2> DEFINE changed == Rows({t}) # {}
  <2>1. Unlearned(changed) /\ UNCHANGED <<model, due>> /\ tagged' = tagged \ Rows({t})
    BY <1>3 DEF DeleteTx
  <2>2. changed \/ tagged' = tagged
    BY <2>1
  <2>3. changed \in BOOLEAN
    OBVIOUS
  <2> HIDE DEF changed
  <2>4. QED
    BY <2>1, <2>2, <2>3, MarksLearn
<1>4. ASSUME NEW g \in Tags, DeleteTag(g) PROVE LearnInv'
  <2> DEFINE changed == \E d \in tagged : d[2] = g
  <2>1. Unlearned(changed) /\ UNCHANGED <<model, due>> /\ tagged' = {d \in tagged : d[2] # g}
    BY <1>4 DEF DeleteTag
  <2>2. changed \/ tagged' = tagged
    BY <2>1
  <2>3. changed \in BOOLEAN
    OBVIOUS
  <2> HIDE DEF changed
  <2>4. QED
    BY <2>1, <2>2, <2>3, MarksLearn
<1>5. ASSUME NEW p \in Procs, InsertTag(p) PROVE LearnInv'
  <2> DEFINE new == {d \in req[p].plan : d[1] \in req[p].left}
             changed == ~(new \subseteq tagged)
  <2>1. UNCHANGED <<model, due>>
    BY <1>5 DEF InsertTag
  <2>2. \/ UNCHANGED <<tagged, lag, build>>
        \/ tagged' = tagged \cup new /\ Unlearned(changed)
    BY <1>5, ShapeInsertsTag
  <2>3. CASE UNCHANGED <<tagged, lag, build>>
    BY <2>1, <2>3, QuietLearn
  <2>4. CASE tagged' = tagged \cup new /\ Unlearned(changed)
    <3>1. changed \/ tagged' = tagged
      BY <2>4
    <3>2. changed \in BOOLEAN
      OBVIOUS
    <3> HIDE DEF changed
    <3>3. QED
      BY <2>1, <2>4, <3>1, <3>2, MarksLearn
  <2>5. QED
    BY <2>2, <2>3, <2>4
<1>6. QED
  BY <1>1, <1>2, <1>3, <1>4, <1>5

\* The rebuilds that begin, adopt what is shared, or are for all.
LEMMA AsideLearn ==
  ASSUME TypeInv, LearnInv, GoOn,
         \/ \E p \in Procs : \/ BuildNow(p) \/ Adopt(p) \/ Await(p)
                             \/ \E i \in 0 .. Len(shared) : Inherit(p, i)
         \/ \E b \in Slots, all \in BOOLEAN : BeginBuild(b, all)
         \/ \E b \in Builders : \/ \E i \in 0 .. Len(shared) : FindShared(b, i)
                                \/ WriteShared(b) \/ SharedFails(b)
         \/ \E b \in Builders, G \in SUBSET SystemTags, T \in SUBSET Txs :
              Train(b, G, T) /\ build[b].all
  PROVE  LearnInv'
<1>0. due \in [own : Nat, all : Nat] /\ BuildsFit /\ BuildsOK /\ req \in [Procs -> Request]
      /\ NoBuild.at = "idle" /\ NoBuild \in Build /\ Procs \subseteq Builders
  BY ReqFacts, EmptyRows DEF TypeInv, BuildsOK, LearnInv, NoBuild, Builders
<1>1. ASSUME NEW p \in Procs, BuildNow(p) PROVE LearnInv'
  <2>1. PICK r \in Build : PutBuild(p, r) /\ r.at = "read" /\ ~r.all /\ ~r.overtaken
    BY <1>1, BuildNowPuts
  <2>2. build[p].at = "idle" /\ UNCHANGED <<tagged, lag, model>>
    BY <1>0, <1>1 DEF BuildNow, BuildsFit
  <2>3. req'[p].at = "await"
    BY <1>0, <1>1 DEF BuildNow, Request
  <2>4. QED
    BY <1>0, <2>1, <2>2, <2>3, AsidePuts DEF Storing
<1>2. ASSUME NEW p \in Procs, NEW i \in 0 .. Len(shared), Inherit(p, i) PROVE LearnInv'
  <2>1. PICK r \in Build : PutBuild(p, r) /\ r.at = "adopt" /\ ~r.all
    BY <1>2, InheritPuts
  <2>2. build[p].at = "idle" /\ UNCHANGED <<tagged, lag, model, due>>
    BY <1>0, <1>2 DEF Inherit, BuildsFit
  <2>3. req'[p].at = "await"
    BY <1>0, <1>2 DEF Inherit, Request
  <2>4. QED
    BY <1>0, <2>1, <2>2, <2>3, AsidePuts DEF Storing, Reading
<1>3. ASSUME NEW p \in Procs, Adopt(p) PROVE LearnInv'
  <2>1. PICK r \in Build : PutBuild(p, r) /\ r.at = "done" /\ r.all = build[p].all
    BY <1>3, AdoptPuts
  <2>2. /\ build[p].at = "adopt" /\ UNCHANGED <<tagged, req, due>>
        /\ lag' \/ (lag' = lag /\ model' = model)
    BY <1>3 DEF Adopt
  <2>3. req'[p].at = "await"
    BY <1>0, <2>2 DEF BuildsFit
  <2>4. QED
    BY <1>0, <2>1, <2>2, <2>3, AsidePuts DEF Storing, Reading
<1>4. ASSUME NEW p \in Procs, Await(p) PROVE LearnInv'
  <2>1. PutBuild(p, NoBuild)
    BY <1>0, <1>4, FreePuts
  <2>2. build[p].at = "done" /\ UNCHANGED <<tagged, model, lag, due>>
    BY <1>4 DEF Await
  <2>3. QED
    BY <1>0, <2>1, <2>2, AsidePuts DEF Storing, Reading
<1>5. ASSUME NEW b \in Slots, NEW all \in BOOLEAN, BeginBuild(b, all) PROVE LearnInv'
  <2>1. PICK r \in Build : PutBuild(b, r) /\ r.at = "read" /\ r.all = all /\ ~r.overtaken
    BY <1>5, BeginPuts
  <2>2. /\ build[b] = NoBuild /\ UNCHANGED <<tagged, model, lag>>
        /\ all => due'.own = due.own
    BY <1>0, <1>5 DEF BeginBuild
  <2>3. b \in Builders /\ b \notin Procs
    BY TaggingAssumption DEF Builders
  <2>4. QED
    BY <1>0, <2>1, <2>2, <2>3, AsidePuts DEF Storing, Reading
<1>6. ASSUME NEW b \in Builders, NEW i \in 0 .. Len(shared), FindShared(b, i) PROVE LearnInv'
  <2>1. PICK r \in Build : PutBuild(b, r) /\ r.at = "write"
    BY <1>6, FindPuts
  <2>2. build[b].at = "find" /\ UNCHANGED <<tagged, model, lag, due, req>>
    BY <1>6 DEF FindShared
  <2>3. b \in Procs => req'[b].at = "await"
    BY <1>0, <2>2 DEF BuildsFit
  <2>4. QED
    BY <1>0, <2>1, <2>2, <2>3, AsidePuts DEF Storing, Reading
<1>7. ASSUME NEW b \in Builders, WriteShared(b) \/ SharedFails(b) PROVE LearnInv'
  <2>1. PutBuild(b, NoBuild)
    BY <1>7, FreePuts
  <2>2. build[b].at \in {"find", "write"} /\ UNCHANGED <<tagged, model, lag, due>>
    BY <1>7 DEF WriteShared, SharedFails
  <2>3. QED
    BY <1>0, <2>1, <2>2, AsidePuts DEF Storing, Reading
<1>8. ASSUME NEW b \in Builders, NEW G \in SUBSET SystemTags, NEW T \in SUBSET Txs,
             Train(b, G, T), build[b].all
      PROVE  LearnInv'
  <2>1. PICK r \in Build : PutBuild(b, r) /\ r.at = "find"
    BY <1>8, TrainPuts
  <2>2. build[b].at = "read" /\ UNCHANGED <<tagged, model, lag, due, req>>
    BY <1>8 DEF Train
  <2>3. b \in Procs => req'[b].at = "await"
    BY <1>0, <2>2 DEF BuildsFit
  <2>4. QED
    BY <1>0, <1>8, <2>1, <2>2, <2>3, AsidePuts DEF Storing, Reading
<1>9. QED
  BY <1>1, <1>2, <1>3, <1>4, <1>5, <1>6, <1>7, <1>8

\* A rebuild of the family's classifier reads: it is the newest.
LEMMA TrainLearn ==
  ASSUME TypeInv, LearnInv, NEW b \in Builders, NEW G \in SUBSET SystemTags,
         NEW T \in SUBSET Txs, Train(b, G, T), ~build[b].all
  PROVE  LearnInv'
<1>0. BuildsOK /\ BuildsFit
  BY DEF TypeInv, LearnInv
<1>1. PICK r \in Build :
        /\ PutBuild(b, r)
        /\ r.at = "store" /\ ~r.all
        /\ r.missed \/ r.docs = Trained(History(build[b].all))
        /\ r.overtaken = build[b].overtaken
        /\ r.older = Storing
  BY TrainPuts
<1>2. build[b].at = "read" /\ UNCHANGED <<tagged, req>>
  BY DEF Train
<1>3. build'[b] = r /\ \A c \in Builders \ {b} : build'[c] = build[c]
  BY <1>0, <1>1, PutBuildOK
<1>4. Storing' = Storing \cup {b} /\ b \notin Storing /\ Storing \subseteq Builders
  BY <1>1, <1>2, <1>3 DEF Storing
<1>5. ~r.overtaken
  BY <1>0, <1>1, <1>2 DEF BuildsFit
<1>6. BuildsFit'
  BY <1>0, <1>1, <1>2, <1>3, <1>5 DEF BuildsFit, Builders
<1>7. ReadInOrder'
  <2>1. \A c \in Storing : build'[c] = build[c]
    BY <1>3, <1>4
  <2>2. \A c \in Storing : build[c].older \subseteq Storing \ {c}
    BY DEF LearnInv, ReadInOrder
  <2>3. ASSUME NEW c \in Storing', NEW d \in build'[c].older
        PROVE  /\ build'[d].older \subseteq build'[c].older
               /\ build'[c].overtaken => build'[d].overtaken
    <3>1. CASE c = b
      BY <1>1, <1>3, <1>5, <2>1, <2>2, <2>3, <3>1
    <3>2. CASE c \in Storing
      BY <2>1, <2>2, <2>3, <3>2 DEF LearnInv, ReadInOrder
    <3>3. QED
      BY <1>4, <3>1, <3>2
  <2>4. \A c \in Storing' : build'[c].older \subseteq Storing' \ {c}
    BY <1>1, <1>3, <1>4, <2>1, <2>2
  <2>5. QED
    BY <2>3, <2>4 DEF ReadInOrder
<1>8. NewestFresh'
  <2>1. \A c \in Storing' : Newest(c)' => c = b
    BY <1>1, <1>3, <1>4 DEF Newest
  <2>2. r.missed \/ r.docs = Trained(tagged')
    <3>1. History(build[b].all) = tagged
      BY DEF History
    <3>2. QED
      BY <1>1, <1>2, <3>1
  <2>3. QED
    BY <1>3, <2>1, <2>2 DEF NewestFresh, Trained
<1>9. RowFresh'
  BY <1>3, <1>4, <1>5 DEF RowFresh
<1>10. QED
  BY <1>6, <1>7, <1>8, <1>9 DEF LearnInv

\* A rebuild ends; those that it marks as overtaken had read before it.
LEMMA EndsInOrder ==
  ASSUME TypeInv, LearnInv, UNCHANGED req, NEW b \in Builders, build[b].at # "idle",
         NEW M, NEW O, EndsBuild(b, M, O),
         O = {} \/ (b \in Storing /\ O = build[b].older)
  PROVE  /\ BuildsFit' /\ ReadInOrder'
         /\ Storing' = Storing \ {b} /\ Storing \subseteq Builders
         /\ O \subseteq Storing \ {b}
<1>1. /\ \A c \in Builders \ {b} :
           /\ build'[c].at = build[c].at /\ build'[c].all = build[c].all
           /\ build'[c].older = build[c].older \ {b}
           /\ build'[c].overtaken = (build[c].overtaken \/ c \in O)
      /\ build'[b].at \in {"done", "idle"} /\ ~build'[b].all
  BY DEF EndsBuild
<1>2. Storing' = Storing \ {b} /\ Storing \subseteq Builders
  BY <1>1 DEF Storing
<1>3. \A c \in Storing : build[c].older \subseteq Storing \ {c}
  BY DEF LearnInv, ReadInOrder
<1>4. O \subseteq Storing \ {b}
  BY <1>3
<1>5. BuildsFit'
  <2>1. \A p \in Procs : build'[p].at = "idle" \/ req'[p].at = "await"
    BY <1>1 DEF LearnInv, BuildsFit, Builders
  <2>2. ASSUME NEW c \in Builders, build'[c].at = "store" PROVE ~build'[c].all
    BY <1>1, <2>2 DEF LearnInv, BuildsFit
  <2>3. ASSUME NEW c \in Builders, build'[c].at = "read" PROVE ~build'[c].overtaken
    <3>1. c # b /\ build[c].at = "read"
      BY <1>1, <2>3
    <3>2. c \notin O
      BY <1>4, <3>1 DEF Storing
    <3>3. QED
      BY <1>1, <3>1, <3>2 DEF LearnInv, BuildsFit
  <2>4. QED
    BY <2>1, <2>2, <2>3 DEF BuildsFit
<1>6. ReadInOrder'
  <2>1. \A c \in Storing' : build'[c].older \subseteq Storing' \ {c}
    BY <1>1, <1>2, <1>3
  <2>2. ASSUME NEW c \in Storing', NEW d \in build'[c].older
        PROVE  /\ build'[d].older \subseteq build'[c].older
               /\ build'[c].overtaken => build'[d].overtaken
    <3>1. c \in Storing \ {b} /\ d \in build[c].older \ {b} /\ d \in Storing
      BY <1>1, <1>2, <1>3, <2>2
    <3>2. /\ build[d].older \subseteq build[c].older
          /\ build[c].overtaken => build[d].overtaken
      BY <3>1 DEF LearnInv, ReadInOrder
    <3>3. c \in O => d \in O
      BY <3>1 DEF LearnInv, ReadInOrder
    <3>4. /\ build'[c].older = build[c].older \ {b}
          /\ build'[d].older = build[d].older \ {b}
          /\ build'[c].overtaken = (build[c].overtaken \/ c \in O)
          /\ build'[d].overtaken = (build[d].overtaken \/ d \in O)
      BY <1>1, <1>2, <3>1
    <3>5. QED
      BY <3>2, <3>3, <3>4
  <2>3. QED
    BY <2>1, <2>2 DEF ReadInOrder
<1>7. QED
  BY <1>2, <1>4, <1>5, <1>6

LEMMA StoreLearn ==
  ASSUME TypeInv, LearnInv, NEW b \in Builders, Store(b)
  PROVE  LearnInv'
<1> DEFINE O == build[b].older
<1>0. BuildsOK
  BY DEF TypeInv
<1>1. b \in Storing /\ build[b].at = "store" /\ UNCHANGED <<tagged, req>> /\ model' = build[b].docs
      /\ lag' = (build[b].overtaken \/ build[b].missed) /\ due'.own = due.own
  BY <1>0 DEF Store, Storing, BuildsOK
<1>2. EndsBuild(b, {}, O)
  BY EndSteps
<1>3. /\ BuildsFit' /\ ReadInOrder'
      /\ Storing' = Storing \ {b} /\ Storing \subseteq Builders
  BY <1>1, <1>2, EndsInOrder
<1>4. \A c \in Storing \ {b} :
        /\ build'[c].docs = build[c].docs /\ build'[c].older = build[c].older \ {b}
        /\ build'[c].overtaken = (build[c].overtaken \/ c \in O)
        /\ build'[c].missed = (build[c].missed \/ c \in {})
  BY <1>2, <1>3 DEF EndsBuild
<1>5. RebuildDue => RebuildDue'
  <2>1. Reading' = Reading
    BY <1>1, <1>2 DEF EndsBuild, Reading
  <2>2. QED
    BY <1>1, <2>1 DEF RebuildDue, Learner
<1>6. NewestFresh'
  <2> SUFFICES ASSUME ~RebuildDue, NEW c \in Storing \ {b}, Newest(c)'
               PROVE  build'[c].overtaken \/ build'[c].missed \/ build'[c].docs = Trained(tagged)
    BY <1>1, <1>3, <1>5 DEF NewestFresh, Trained
  <2>1. CASE c \in O
    BY <1>4, <2>1
  <2>2. CASE c \notin O
    <3>1. Newest(c)
      BY <1>3, <1>4, <2>2 DEF Newest
    <3>2. build[c].overtaken \/ build[c].missed \/ build[c].docs = Trained(tagged)
      BY <3>1 DEF LearnInv, NewestFresh
    <3>3. QED
      BY <1>4, <3>2
  <2>3. QED
    BY <2>1, <2>2
<1>7. RowFresh'
  <2> SUFFICES ASSUME ~RebuildDue, \A c \in Storing \ {b} : build'[c].overtaken, ~lag'
               PROVE  build[b].docs = Trained(tagged)
    BY <1>1, <1>3, <1>5 DEF RowFresh, Trained
  <2>1. ~build[b].overtaken /\ ~build[b].missed
    BY <1>1
  <2>2. ASSUME NEW c \in Storing, b \in build[c].older PROVE FALSE
    <3>1. c # b /\ build[b].older \subseteq build[c].older /\ c \notin build[c].older
          /\ (build[c].overtaken => build[b].overtaken)
      BY <1>1, <2>2 DEF LearnInv, ReadInOrder
    <3>2. c \notin O /\ build'[c].overtaken
      BY <3>1
    <3>3. build[c].overtaken
      BY <1>4, <3>1, <3>2
    <3>4. QED
      BY <2>1, <3>1, <3>3
  <2>3. Newest(b)
    BY <2>2 DEF Newest
  <2>4. QED
    BY <1>1, <2>1, <2>3 DEF LearnInv, NewestFresh
<1>8. QED
  BY <1>3, <1>6, <1>7 DEF LearnInv

LEMMA StoreFailsLearn ==
  ASSUME TypeInv, LearnInv, NEW b \in Builders, StoreFails(b)
  PROVE  LearnInv'
<1> DEFINE M == build[b].older
<1>1. b \in Storing /\ build[b].at = "store" /\ UNCHANGED <<tagged, req, model, due>>
      /\ lag' = (lag \/ ~build[b].overtaken)
  BY DEF StoreFails, Storing
<1>2. EndsBuild(b, M, {})
  BY EndSteps
<1>3. /\ BuildsFit' /\ ReadInOrder'
      /\ Storing' = Storing \ {b} /\ Storing \subseteq Builders
  BY <1>1, <1>2, EndsInOrder
<1>4. \A c \in Storing \ {b} :
        /\ build'[c].docs = build[c].docs /\ build'[c].older = build[c].older \ {b}
        /\ build'[c].overtaken = (build[c].overtaken \/ c \in {})
        /\ build'[c].missed = (build[c].missed \/ c \in M)
  BY <1>2, <1>3 DEF EndsBuild
<1>5. RebuildDue => RebuildDue'
  <2>1. Reading' = Reading
    BY <1>1, <1>2 DEF EndsBuild, Reading
  <2>2. QED
    BY <1>1, <2>1 DEF RebuildDue, Learner
<1>6. NewestFresh'
  <2> SUFFICES ASSUME ~RebuildDue, NEW c \in Storing \ {b}, Newest(c)'
               PROVE  build'[c].overtaken \/ build'[c].missed \/ build'[c].docs = Trained(tagged)
    BY <1>1, <1>3, <1>5 DEF NewestFresh, Trained
  <2>1. CASE c \in M
    BY <1>4, <2>1
  <2>2. CASE c \notin M
    <3>1. Newest(c)
      BY <1>3, <1>4, <2>2 DEF Newest
    <3>2. build[c].overtaken \/ build[c].missed \/ build[c].docs = Trained(tagged)
      BY <3>1 DEF LearnInv, NewestFresh
    <3>3. QED
      BY <1>4, <3>2
  <2>3. QED
    BY <2>1, <2>2
<1>7. RowFresh'
  <2> SUFFICES ASSUME ~RebuildDue, \A c \in Storing \ {b} : build'[c].overtaken, ~lag'
               PROVE  model = Trained(tagged)
    BY <1>1, <1>3, <1>5 DEF RowFresh, Trained
  <2>1. build[b].overtaken /\ ~lag
    BY <1>1
  <2>2. \A c \in Storing : build[c].overtaken
    BY <1>4, <2>1
  <2>3. QED
    BY <2>1, <2>2 DEF LearnInv, RowFresh
<1>8. QED
  BY <1>3, <1>6, <1>7 DEF LearnInv

LEMMA TrainFailsLearn ==
  ASSUME TypeInv, LearnInv, GoOn, NEW b \in Builders, TrainFails(b)
  PROVE  LearnInv'
<1> DEFINE M == IF build[b].all THEN {} ELSE Storing
<1>1. b \notin Storing /\ build[b].at = "read" /\ UNCHANGED <<tagged, req, model, due>>
      /\ IF build[b].all THEN lag' = lag ELSE lag' = TRUE
  BY DEF TrainFails, Storing
<1>2. EndsBuild(b, M, {})
  BY EndSteps
<1>3. /\ BuildsFit' /\ Storing' = Storing /\ Storing \subseteq Builders
  BY <1>1, <1>2, EndsInOrder
<1>4. \A c \in Storing :
        /\ build'[c].docs = build[c].docs /\ build'[c].older = build[c].older \ {b}
        /\ build'[c].overtaken = (build[c].overtaken \/ c \in {})
        /\ build'[c].missed = (build[c].missed \/ c \in M)
  BY <1>1, <1>2, <1>3 DEF EndsBuild
<1>5. \A c \in Storing : /\ build[c].overtaken \in BOOLEAN
                         /\ b \notin build[c].older
  BY <1>1, <1>3 DEF TypeInv, BuildsOK, Build, LearnInv, ReadInOrder
<1>6. \A c \in Storing : /\ build'[c].older = build[c].older
                         /\ build'[c].docs = build[c].docs
                         /\ build'[c].overtaken = build[c].overtaken
                         /\ build[c].missed => build'[c].missed
                         /\ ~build[b].all => build'[c].missed
  BY <1>4, <1>5
<1>7. build[b].all => Reading' = Reading
  BY <1>1, <1>2 DEF EndsBuild, Reading
<1>8. build[b].all => (RebuildDue => RebuildDue')
  BY <1>1, <1>7, DueStays
<1>9. QED
  BY <1>1, <1>3, <1>6, <1>8, LearnStays

LEMMA LearnStep == TypeInv /\ KindsFit /\ LearnInv /\ [Next]_vars => LearnInv'
<1> SUFFICES ASSUME TypeInv, KindsFit, LearnInv, [Next]_vars PROVE LearnInv'
  OBVIOUS
<1>1. CASE Stop
  <2>1. build' = [b \in Builders |-> NoBuild] /\ lag' = TRUE
    BY <1>1 DEF Stop
  <2>2. \A b \in Builders : build'[b].at = "idle"
    BY <2>1 DEF NoBuild
  <2>3. Storing' = {}
    BY <2>2 DEF Storing
  <2>4. QED
    BY <2>1, <2>2, <2>3
    DEF LearnInv, BuildsFit, ReadInOrder, NewestFresh, RowFresh, Builders
<1>2. CASE GoOn
  <2>1. ASSUME UNCHANGED <<tagged, model, build, lag>>, due.own > 0 => due'.own > 0
        PROVE  LearnInv'
    BY <1>2, <2>1, QuietLearn
  <2>2. ASSUME \/ \E p \in Procs :
                    \/ BeginWrite(p) \/ RollBack(p) \/ GetModel(p)
                    \/ \E reads \in BOOLEAN : SelectSimilar(p, reads)
                    \/ EndImport(p)
                    \/ \E t \in Txs, G \in SUBSET Tags : Update(p, t, G) \/ Classify(p, t, G)
                    \/ \E t \in Txs, g \in Tags, include \in BOOLEAN :
                         ApplySimilar(p, t, g, include)
                    \/ \E include \in BOOLEAN, T \in SUBSET Txs : AutoTagBatch(p, include, T)
                    \/ \E T \in SUBSET Txs : Import(p, T)
                    \/ \E t \in Txs : InsertRow(p, t)
               \/ \E g \in Tags : CreateRule(g)
               \/ DeleteRule
               \/ UNCHANGED vars
        PROVE  LearnInv'
    <3>1. UNCHANGED <<tagged, model, due, build, lag>>
      BY <2>2, OtherSteps
    <3>2. QED
      BY <2>1, <3>1
  <2>3. ASSUME NEW p \in Procs, Learn(p) \/ EndBatch(p) PROVE LearnInv'
    <3>1. tagged' = tagged
      BY <2>3 DEF Learn, EndBatch
    <3>2. QED
      BY <2>1, <2>3, <3>1, DueSteps
  <2>4. ASSUME NEW b \in Builders, NEW G \in SUBSET SystemTags, NEW T \in SUBSET Txs,
               Train(b, G, T)
        PROVE  LearnInv'
    BY <1>2, <2>4, TrainLearn, AsideLearn
  <2>5. ASSUME \/ \E p \in Procs, heard \in BOOLEAN : CommitWrite(p, heard)
               \/ \E p \in Procs, t \in Txs, G \in SUBSET Tags, heard \in BOOLEAN :
                    Create(p, t, G, heard)
               \/ \E t \in Txs : DeleteTx(t)
               \/ \E g \in Tags : DeleteTag(g)
               \/ \E p \in Procs : InsertTag(p)
        PROVE  LearnInv'
    BY <1>2, <2>5, TagsLearn
  <2>6. ASSUME \/ \E p \in Procs : \/ BuildNow(p) \/ Adopt(p) \/ Await(p)
                                   \/ \E i \in 0 .. Len(shared) : Inherit(p, i)
               \/ \E b \in Slots, all \in BOOLEAN : BeginBuild(b, all)
               \/ \E b \in Builders : \/ \E i \in 0 .. Len(shared) : FindShared(b, i)
                                      \/ WriteShared(b) \/ SharedFails(b)
        PROVE  LearnInv'
    BY <1>2, <2>6, AsideLearn
  <2>7. ASSUME NEW b \in Builders, Store(b) \/ StoreFails(b) \/ TrainFails(b) PROVE LearnInv'
    BY <1>2, <2>7, StoreLearn, StoreFailsLearn, TrainFailsLearn
  <2>8. QED
    BY <1>1, <2>2, <2>3, <2>4, <2>5, <2>6, <2>7 DEF Next
<1>3. QED
  BY <1>1, <1>2, KindsStep

LEMMA LearnHolds == Spec => []LearnInv
<1>1. TypeInv /\ KindsFit /\ [Next]_vars => KindsFit'
  BY KindsStep
<1>2. QED
  BY <1>1, KindsInit, LearnInit, LearnStep, TypesHold, PTL DEF Spec

\* When nothing is under way, the family's classifier has learned the tags there
\* are, however the rebuilds that goroutines run overlap: unless one that had
\* read earlier stored last, one failed, the server stopped, or the last change
\* starts none (internal/classifier/trainer.go:81-153).
THEOREM ClassifierCatchesUp == Spec => []CaughtUp
<1>1. TypeInv /\ LearnInv => CaughtUp
  <2> SUFFICES ASSUME TypeInv, LearnInv, ~lag, due.own = 0,
                      \A p \in Procs : req[p] = Idle,
                      \A b \in Builders : build[b].at = "idle" \/ build[b].all
               PROVE  model = Trained(tagged)
    BY DEF CaughtUp
  <2>1. Storing = {}
    BY DEF LearnInv, BuildsFit, Storing
  <2>2. ~RebuildDue
    BY DEF RebuildDue, Reading, Learner, Idle
  <2>3. QED
    BY <2>1, <2>2 DEF LearnInv, RowFresh
<1>2. QED
  BY <1>1, LearnHolds, TypesHold, PTL
-----------------------------------------------------------------------------
(* NaiveBayes.  What the folds of the model compute is proved by induction *)
(* over the length of the sequence: the least element of a set stands in   *)
(* for a theorem with an operator as its parameter.                        *)

\* A set of naturals that is not empty has a least element (< is well-founded).
LEMMA Least ==
  ASSUME NEW S, S \subseteq Nat, S # {}
  PROVE  \E n \in S : \A m \in S : n <= m
<1> DEFINE R == OpToRel(<, Nat)
<1>1. IsWellFoundedOn(R, Nat)
  BY NatLessThanWellFounded
<1>2. \E n \in S : \A m \in S : ~ (<<m, n>> \in R)
  <2> HIDE DEF R
  <2> QED BY <1>1, WFMin
<1>3. \A m, n \in S : m < n => <<m, n>> \in R
  BY DEF OpToRel
<1> HIDE DEF R
<1>4. PICK n \in S : \A m \in S : <<m, n>> \notin R
  BY <1>2
<1>5. \A m \in S : ~ (m < n)
  BY <1>3, <1>4
<1>6. \A m \in S : n <= m
  BY <1>5
<1> QED BY <1>4, <1>6

\* Induction over the naturals, for sets.
LEMMA Climb ==
  ASSUME NEW S, 0 \in S, \A n \in Nat : n \in S => n + 1 \in S
  PROVE  \A n \in Nat : n \in S
<1> SUFFICES ASSUME Nat \ S # {} PROVE FALSE
  OBVIOUS
<1>1. PICK n \in Nat \ S : \A m \in Nat \ S : n <= m
  <2> DEFINE M == Nat \ S
  <2>1. M \subseteq Nat /\ M # {}
    OBVIOUS
  <2> HIDE DEF M
  <2>2. \E n \in M : \A m \in M : n <= m
    BY <2>1, Least
  <2> QED BY <2>2 DEF M
<1>2. n # 0 /\ n - 1 \in Nat
  BY <1>1
<1>3. n - 1 \in S
  BY <1>1, <1>2
<1> QED BY <1>1, <1>2, <1>3
\* What the fold of Product computes for each set of places.
Products(s) ==
  CHOOSE g : g = [t \in SUBSET DOMAIN s |->
                    IF t = {} THEN 1 ELSE g[t \ {Max(t)}] * s[Max(t)]]

\* The largest of numbers up to n, with n among them.
LEMMA TopOf ==
  ASSUME NEW n \in Nat, NEW t \in SUBSET (1..n), n \in t
  PROVE  Max(t) = n
<1>1. n \in t /\ \A y \in t : n >= y
  OBVIOUS
<1>2. \A x \in t : (\A y \in t : x >= y) => x = n
  OBVIOUS
<1> QED BY <1>1, <1>2 DEF Max

\* The recursion of the fold has a solution: one for the numbers up to n gives one
\* for those up to n + 1.
LEMMA ProductsExist ==
  ASSUME NEW s \in Seq(Nat \ {0})
  PROVE  Products(s) = [t \in SUBSET DOMAIN s |->
           IF t = {} THEN 1 ELSE Products(s)[t \ {Max(t)}] * s[Max(t)]]
<1> DEFINE Goes(g, n) == g = [t \in SUBSET (1..n) |->
                    IF t = {} THEN 1 ELSE g[t \ {Max(t)}] * s[Max(t)]]
           S == {n \in Nat : \E g : Goes(g, n)}
<1>1. 0 \in S
  <2> DEFINE g == [t \in SUBSET (1..0) |-> 1]
  <2>1. Goes(g, 0)
    OBVIOUS
  <2> QED BY <2>1
<1>2. ASSUME NEW n \in Nat, n \in S PROVE n + 1 \in S
  <2>1. PICK g : Goes(g, n)
    BY <1>2
  <2> DEFINE h == [t \in SUBSET (1..n+1) |->
                     IF n + 1 \in t THEN g[t \ {n + 1}] * s[n + 1] ELSE g[t]]
  <2>2. ASSUME NEW t \in SUBSET (1..n+1)
        PROVE  h[t] = IF t = {} THEN 1 ELSE h[t \ {Max(t)}] * s[Max(t)]
    <3>1. CASE n + 1 \in t
      <4>1. Max(t) = n + 1
        BY <3>1, TopOf
      <4>2. t \ {n + 1} \in SUBSET (1..n+1) /\ n + 1 \notin t \ {n + 1}
        OBVIOUS
      <4>3. h[t \ {n + 1}] = g[t \ {n + 1}]
        BY <4>2
      <4> QED BY <3>1, <4>1, <4>3
    <3>2. CASE n + 1 \notin t
      <4>1. t \in SUBSET (1..n)
        BY <3>2
      <4>2. h[t] = g[t]
        BY <3>2
      <4>3. t \ {Max(t)} \in SUBSET (1..n+1) /\ n + 1 \notin t \ {Max(t)}
        BY <3>2
      <4>4. h[t \ {Max(t)}] = g[t \ {Max(t)}]
        BY <4>3
      <4>5. g[t] = IF t = {} THEN 1 ELSE g[t \ {Max(t)}] * s[Max(t)]
        BY <2>1, <4>1
      <4> QED BY <4>2, <4>4, <4>5
    <3> QED BY <3>1, <3>2
  <2>3. Goes(h, n + 1)
    BY <2>2
  <2> HIDE DEF Goes, h
  <2>4. n + 1 \in Nat
    OBVIOUS
  <2> QED BY <2>3, <2>4
<1>3. \A n \in Nat : n \in S
  <2> HIDE DEF S
  <2> QED BY <1>1, <1>2, Climb
<1>4. PICK g : Goes(g, Len(s))
  <2>1. Len(s) \in S
    BY <1>3, LenProperties
  <2> QED BY <2>1
<1>5. DOMAIN s = 1..Len(s)
  OBVIOUS
<1> QED BY <1>4, <1>5 DEF Products

\* The product of positive numbers is positive, by induction over its length.
LEMMA ProductPositive ==
  ASSUME NEW s \in Seq(Nat \ {0})
  PROVE  Product(s) \in Nat \ {0}
<1> DEFINE g == Products(s)
           S == {n \in Nat : n <= Len(s) => g[1..n] \in Nat \ {0}}
<1>1. Product(s) = g[DOMAIN s] /\ DOMAIN s = 1..Len(s)
  BY DEF Product, FoldLeft, MapThenFoldSet, Products
<1>2. \A t \in SUBSET (1..Len(s)) :
        g[t] = IF t = {} THEN 1 ELSE g[t \ {Max(t)}] * s[Max(t)]
  BY <1>1, ProductsExist
<1> HIDE DEF g
<1>3. 0 \in S
  <2>1. 1..0 = {}
    OBVIOUS
  <2>2. g[{}] = 1
    BY <1>2
  <2> QED BY <2>1, <2>2
<1>4. ASSUME NEW n \in Nat, n \in S PROVE n + 1 \in S
  <2> SUFFICES ASSUME n + 1 <= Len(s) PROVE g[1..n+1] \in Nat \ {0}
    OBVIOUS
  <2>1. Max(1..n+1) = n + 1
    BY TopOf
  <2>2. (1..n+1) \ {n + 1} = 1..n
    OBVIOUS
  <2>3. 1..n+1 \in SUBSET (1..Len(s)) /\ n + 1 \in 1..n+1
    BY LenProperties
  <2>4. g[1..n+1] = g[1..n] * s[n + 1]
    BY <1>2, <2>1, <2>2, <2>3
  <2>5. g[1..n] \in Nat \ {0} /\ s[n + 1] \in Nat \ {0}
    BY <1>4
  <2> QED BY <2>4, <2>5
<1>5. \A n \in Nat : n \in S
  <2> HIDE DEF S
  <2> QED BY <1>3, <1>4, Climb
<1> QED BY <1>1, <1>5
\* One step of the loop of Tokenize, and what the loop computes.
Kept(words, w) == IF w \in Noise THEN words ELSE Append(words, w)

Leaves(s) ==
  CHOOSE g : g = [t \in SUBSET DOMAIN s |->
                    IF t = {} THEN <<>> ELSE Kept(g[t \ {Max(t)}], s[Max(t)])]

\* The same for the loop of Tokenize.
LEMMA KeepsExist ==
  ASSUME NEW s \in Seq(Words)
  PROVE  Leaves(s) = [t \in SUBSET DOMAIN s |->
           IF t = {} THEN <<>> ELSE Kept(Leaves(s)[t \ {Max(t)}], s[Max(t)])]
<1> DEFINE Goes(g, n) == g = [t \in SUBSET (1..n) |->
                    IF t = {} THEN <<>> ELSE Kept(g[t \ {Max(t)}], s[Max(t)])]
           S == {n \in Nat : \E g : Goes(g, n)}
<1>1. 0 \in S
  <2> DEFINE g == [t \in SUBSET (1..0) |-> <<>>]
  <2>1. Goes(g, 0)
    OBVIOUS
  <2> QED BY <2>1
<1>2. ASSUME NEW n \in Nat, n \in S PROVE n + 1 \in S
  <2>1. PICK g : Goes(g, n)
    BY <1>2
  <2> DEFINE h == [t \in SUBSET (1..n+1) |->
                     IF n + 1 \in t THEN Kept(g[t \ {n + 1}], s[n + 1]) ELSE g[t]]
  <2>2. ASSUME NEW t \in SUBSET (1..n+1)
        PROVE  h[t] = IF t = {} THEN <<>> ELSE Kept(h[t \ {Max(t)}], s[Max(t)])
    <3>1. CASE n + 1 \in t
      <4>1. Max(t) = n + 1
        BY <3>1, TopOf
      <4>2. t \ {n + 1} \in SUBSET (1..n+1) /\ n + 1 \notin t \ {n + 1}
        OBVIOUS
      <4>3. h[t \ {n + 1}] = g[t \ {n + 1}]
        BY <4>2
      <4> QED BY <3>1, <4>1, <4>3
    <3>2. CASE n + 1 \notin t
      <4>1. t \in SUBSET (1..n)
        BY <3>2
      <4>2. h[t] = g[t]
        BY <3>2
      <4>3. t \ {Max(t)} \in SUBSET (1..n+1) /\ n + 1 \notin t \ {Max(t)}
        BY <3>2
      <4>4. h[t \ {Max(t)}] = g[t \ {Max(t)}]
        BY <4>3
      <4>5. g[t] = IF t = {} THEN <<>> ELSE Kept(g[t \ {Max(t)}], s[Max(t)])
        BY <2>1, <4>1
      <4> QED BY <4>2, <4>4, <4>5
    <3> QED BY <3>1, <3>2
  <2>3. Goes(h, n + 1)
    BY <2>2
  <2> HIDE DEF Goes, h
  <2>4. n + 1 \in Nat
    OBVIOUS
  <2> QED BY <2>3, <2>4
<1>3. \A n \in Nat : n \in S
  <2> HIDE DEF S
  <2> QED BY <1>1, <1>2, Climb
<1>4. PICK g : Goes(g, Len(s))
  <2>1. Len(s) \in S
    BY <1>3, LenProperties
  <2> QED BY <2>1
<1>5. DOMAIN s = 1..Len(s)
  OBVIOUS
<1> QED BY <1>4, <1>5 DEF Leaves

\* What Tokenize leaves is a sequence of words.
LEMMA TokenizeType ==
  ASSUME NEW s \in Seq(Words)
  PROVE  Tokenize(s) \in Seq(Words)
<1> DEFINE g == Leaves(s)
           S == {n \in Nat : n <= Len(s) => g[1..n] \in Seq(Words)}
<1>1. Tokenize(s) = g[DOMAIN s] /\ DOMAIN s = 1..Len(s)
  BY DEF Tokenize, FoldLeft, MapThenFoldSet, Leaves, Kept
<1>2. \A t \in SUBSET (1..Len(s)) :
        g[t] = IF t = {} THEN <<>> ELSE Kept(g[t \ {Max(t)}], s[Max(t)])
  BY <1>1, KeepsExist
<1> HIDE DEF g
<1>3. 0 \in S
  <2>1. 1..0 = {}
    OBVIOUS
  <2>2. g[{}] = <<>>
    BY <1>2
  <2> QED BY <2>1, <2>2, EmptySeq
<1>4. ASSUME NEW n \in Nat, n \in S PROVE n + 1 \in S
  <2> SUFFICES ASSUME n + 1 <= Len(s) PROVE g[1..n+1] \in Seq(Words)
    OBVIOUS
  <2>1. Max(1..n+1) = n + 1
    BY TopOf
  <2>2. (1..n+1) \ {n + 1} = 1..n
    OBVIOUS
  <2>3. 1..n+1 \in SUBSET (1..Len(s)) /\ n + 1 \in 1..n+1
    BY LenProperties
  <2>4. g[1..n+1] = Kept(g[1..n], s[n + 1])
    BY <1>2, <2>1, <2>2, <2>3
  <2>5. g[1..n] \in Seq(Words) /\ s[n + 1] \in Words
    BY <1>4
  <2> QED BY <2>4, <2>5, AppendProperties DEF Kept
<1>5. \A n \in Nat : n \in S
  <2> HIDE DEF S
  <2> QED BY <1>3, <1>4, Climb
<1> QED BY <1>1, <1>5

\* What scores are.
Fractions == [num : Nat \ {0}, den : Nat \ {0}]

\* A positive factor keeps the order.
LEMMA Times ==
  ASSUME NEW x \in Nat, NEW y \in Nat, NEW z \in Nat \ {0}
  PROVE  x * z \in Nat /\ (x <= y <=> x * z <= y * z)
OBVIOUS

\* The order of scores is transitive, whatever their denominators.
LEMMA NotAboveChains ==
  ASSUME NEW a \in Fractions, NEW b \in Fractions, NEW c \in Fractions,
         ~ Above(a, b), ~ Above(b, c)
  PROVE  ~ Above(a, c)
<1> DEFINE an == a.num  ad == a.den  bn == b.num  bd == b.den  cn == c.num  cd == c.den
<1>1. /\ an \in Nat \ {0} /\ ad \in Nat \ {0} /\ bn \in Nat \ {0}
      /\ bd \in Nat \ {0} /\ cn \in Nat \ {0} /\ cd \in Nat \ {0}
  BY DEF Fractions
<1>2. an * bd <= bn * ad /\ bn * cd <= cn * bd
  BY <1>1 DEF Above
<1> HIDE DEF an, ad, bn, bd, cn, cd
<1>3. an * bd \in Nat /\ bn * ad \in Nat /\ bn * cd \in Nat /\ cn * bd \in Nat
      /\ an * cd \in Nat /\ cn * ad \in Nat
  BY <1>1
<1>4. (an * bd) * cd <= (bn * ad) * cd
  BY <1>1, <1>2, <1>3, Times
<1>5. (bn * cd) * ad <= (cn * bd) * ad
  BY <1>1, <1>2, <1>3, Times
<1>6. /\ (an * bd) * cd = (an * cd) * bd
      /\ (bn * ad) * cd = (bn * cd) * ad
      /\ (cn * bd) * ad = (cn * ad) * bd
  BY <1>1
<1>7. (an * cd) * bd <= (cn * ad) * bd
  BY <1>1, <1>3, <1>4, <1>5, <1>6
<1>8. an * cd <= cn * ad
  BY <1>1, <1>3, <1>7, Times
<1> QED BY <1>1, <1>3, <1>8 DEF Above, an, ad, cn, cd

\* It is strict, and the margin is part of it.
LEMMA AboveIsStrict ==
  ASSUME NEW a \in Fractions, NEW b \in Fractions
  PROVE  /\ Above(a, b) => ~ Above(b, a)
         /\ WellAbove(a, b) => Above(a, b)
         /\ ~ Above(a, a)
<1> DEFINE x == a.num * b.den  y == b.num * a.den
<1>1. x \in Nat \ {0} /\ y \in Nat \ {0}
  BY DEF Fractions
<1>2. a.num * a.den \in Nat
  BY DEF Fractions
<1>3. /\ Above(a, b) <=> x > y
      /\ Above(b, a) <=> y > x
      /\ WellAbove(a, b) <=> 100000 * x >= 110517 * y
      /\ Above(a, a) <=> a.num * a.den > a.num * a.den
  BY DEF Above, WellAbove
<1> HIDE DEF x, y
<1> QED BY <1>1, <1>2, <1>3

\* A class that is well above another is well above what is no higher.
LEMMA WellAboveLower ==
  ASSUME NEW a \in Fractions, NEW b \in Fractions, NEW c \in Fractions,
         WellAbove(a, b), ~ Above(c, b)
  PROVE  WellAbove(a, c)
<1> DEFINE an == a.num  ad == a.den  bn == b.num  bd == b.den  cn == c.num  cd == c.den
<1>1. /\ an \in Nat \ {0} /\ ad \in Nat \ {0} /\ bn \in Nat \ {0}
      /\ bd \in Nat \ {0} /\ cn \in Nat \ {0} /\ cd \in Nat \ {0}
  BY DEF Fractions
<1>2. 110517 * (bn * ad) <= 100000 * (an * bd) /\ cn * bd <= bn * cd
  BY <1>1 DEF Above, WellAbove
<1> HIDE DEF an, ad, bn, bd, cn, cd
<1>3. an * bd \in Nat /\ bn * ad \in Nat /\ bn * cd \in Nat /\ cn * bd \in Nat
      /\ an * cd \in Nat /\ cn * ad \in Nat
  BY <1>1
<1>4. (110517 * (bn * ad)) * cd <= (100000 * (an * bd)) * cd
  <2>1. 110517 * (bn * ad) \in Nat /\ 100000 * (an * bd) \in Nat
    BY <1>3
  <2> QED BY <1>1, <1>2, <2>1, Times
<1>5. (cn * bd) * ad <= (bn * cd) * ad
  BY <1>1, <1>2, <1>3, Times
<1>6. /\ (100000 * (an * bd)) * cd = (100000 * (an * cd)) * bd
      /\ (110517 * (bn * ad)) * cd = 110517 * ((bn * cd) * ad)
      /\ 110517 * ((cn * bd) * ad) = (110517 * (cn * ad)) * bd
  BY <1>1
<1>7. 110517 * ((cn * bd) * ad) <= 110517 * ((bn * cd) * ad)
  <2>1. (cn * bd) * ad \in Nat /\ (bn * cd) * ad \in Nat
    BY <1>1, <1>3
  <2> QED BY <1>5, <2>1
<1>8. /\ 110517 * (cn * ad) \in Nat /\ 100000 * (an * cd) \in Nat
      /\ (110517 * (cn * ad)) * bd \in Nat /\ (100000 * (an * cd)) * bd \in Nat
      /\ 110517 * ((bn * cd) * ad) \in Nat
  BY <1>1, <1>3
<1>9. (110517 * (cn * ad)) * bd <= (100000 * (an * cd)) * bd
  BY <1>4, <1>6, <1>7, <1>8
<1>10. 110517 * (cn * ad) <= 100000 * (an * cd)
  BY <1>1, <1>8, <1>9, Times
<1> QED BY <1>3, <1>8, <1>10 DEF WellAbove, an, ad, cn, cd

\* The types of the texts and the counts.
TextRow == [words : Seq(Words), class : Classes]

StatsTyped ==
  /\ docs \in Seq(TextRow)
  /\ stats \in [totalDocs : Nat, classDocs : [Classes -> Nat],
                wordCounts : [Classes -> [Words -> Nat]], totalWords : [Classes -> Nat],
                vocabulary : SUBSET Words]

\* What Train keeps is what the texts say.
StatsCount ==
  /\ stats.totalDocs = Cardinality(Learned)
  /\ stats.vocabulary = Vocabulary /\ IsFiniteSet(Vocabulary)
  /\ \A c \in Classes :
       /\ stats.classDocs[c] = Cardinality(TextsOf(c))
       /\ IsFiniteSet(Places(c)) /\ stats.totalWords[c] = Cardinality(Places(c))
       /\ \A w \in Words : stats.wordCounts[c][w] = Frequency(c, w)

\* Added are finitely many texts.
LEMMA TextsFinite ==
  ASSUME StatsTyped
  PROVE  /\ DOMAIN docs = 1..Len(docs) /\ Len(docs) \in Nat
         /\ IsFiniteSet(Learned) /\ \A c \in Classes : IsFiniteSet(TextsOf(c))
<1>1. DOMAIN docs = 1..Len(docs) /\ Len(docs) \in Nat
  BY LenProperties DEF StatsTyped
<1>2. IsFiniteSet(1..Len(docs))
  BY <1>1, FS_Interval
<1>3. Learned \in SUBSET (1..Len(docs)) /\ \A c \in Classes : TextsOf(c) \in SUBSET Learned
  BY <1>1 DEF Learned, TextsOf
<1>4. IsFiniteSet(Learned)
  BY <1>2, <1>3, FS_Subset
<1> QED BY <1>1, <1>3, <1>4, FS_Subset

\* Added are as many pairs as second elements.
LEMMA PairsCount ==
  ASSUME NEW n, NEW J, IsFiniteSet(J)
  PROVE  LET P == {<<n, j>> : j \in J} IN
         IsFiniteSet(P) /\ Cardinality(P) = Cardinality(J)
<1> DEFINE P == {<<n, j>> : j \in J}
           g == [j \in J |-> <<n, j>>]
<1>1. g \in Bijection(J, P)
  BY DEF Bijection, Injection, Surjection, IsInjective
<1>2. ExistsBijection(J, P)
  BY <1>1 DEF ExistsBijection
<1> QED BY <1>2, FS_Bijection

\* The size of a union of two sets that share nothing.
LEMMA TwoParts ==
  ASSUME NEW S, NEW T, IsFiniteSet(S), IsFiniteSet(T), S \cap T = {}
  PROVE  IsFiniteSet(S \cup T) /\ Cardinality(S \cup T) = Cardinality(S) + Cardinality(T)
<1>1. Cardinality(S) \in Nat /\ Cardinality(T) \in Nat /\ Cardinality(S \cap T) = 0
  BY FS_CardinalityType, FS_EmptySet
<1>2. /\ IsFiniteSet(S \cup T)
      /\ Cardinality(S \cup T) = Cardinality(S) + Cardinality(T) - Cardinality(S \cap T)
  BY FS_Union
<1> QED BY <1>1, <1>2

\* The new text is one more, behind the others; of what it leaves of the old ones.
LEMMA TextAdded ==
  ASSUME StatsTyped, NEW text \in Texts, NEW c \in Classes, TrainText(text, c)
  PROVE  LET words == Tokenize(text)  n == Len(docs) + 1 IN
         /\ words \in Seq(Words) /\ docs' \in Seq(TextRow)
         /\ DOMAIN docs' = DOMAIN docs \cup {n} /\ n \notin DOMAIN docs
         /\ docs'[n] = [words |-> words, class |-> c]
         /\ \A i \in DOMAIN docs : docs'[i] = docs[i] /\ docs[i] \in TextRow
<1> DEFINE words == Tokenize(text)  n == Len(docs) + 1  r == [words |-> words, class |-> c]
<1>1. text \in Seq(Words)
  BY SeqDef DEF Texts, SeqOf
<1>2. words \in Seq(Words)
  BY <1>1, TokenizeType
<1>3. r \in TextRow /\ docs' = Append(docs, r)
  BY <1>2 DEF TrainText, TextRow
<1> HIDE DEF words, r
<1>4. docs \in Seq(TextRow) /\ docs' \in Seq(TextRow) /\ Len(docs') = Len(docs) + 1
  BY <1>3, AppendProperties DEF StatsTyped
<1>5. DOMAIN docs = 1..Len(docs) /\ DOMAIN docs' = 1..(Len(docs) + 1) /\ Len(docs) \in Nat
  BY <1>4, LenProperties
<1>6. /\ docs'[n] = r
      /\ \A i \in DOMAIN docs : docs'[i] = docs[i] /\ docs[i] \in TextRow
  BY <1>3, <1>4, <1>5, AppendProperties, ElementOfSeq
<1> QED BY <1>2, <1>4, <1>5, <1>6 DEF r, words

\* Train keeps the counts well typed.
LEMMA StatsTypedKept ==
  ASSUME StatsTyped, NEW text \in Texts, NEW c \in Classes, TrainText(text, c)
  PROVE  StatsTyped'
<1> DEFINE words == Tokenize(text)
<1>1. words \in Seq(Words) /\ docs' \in Seq(TextRow)
  BY TextAdded
<1>2. \A w \in Words : Occurrences(w, words) \in Nat
  <2> SUFFICES ASSUME NEW w \in Words PROVE Occurrences(w, words) \in Nat
    OBVIOUS
  <2>1. DOMAIN words = 1..Len(words) /\ Len(words) \in Nat
    BY <1>1, LenProperties
  <2>2. {i \in DOMAIN words : words[i] = w} \in SUBSET (1..Len(words)) /\ IsFiniteSet(1..Len(words))
    BY <2>1, FS_Interval
  <2>3. IsFiniteSet({i \in DOMAIN words : words[i] = w})
    BY <2>2, FS_Subset
  <2> QED BY <2>3, FS_CardinalityType DEF Occurrences
<1>3. Len(words) \in Nat /\ ToSet(words) \in SUBSET Words
  BY <1>1, LenProperties DEF ToSet
<1>4. stats' = IF words = <<>> THEN stats ELSE CountText(c, words)
  BY DEF TrainText
<1> HIDE DEF words
<1>5. \A f \in [Words -> Nat] : [w \in Words |-> f[w] + Occurrences(w, words)] \in [Words -> Nat]
  BY <1>2
<1>6. CountText(c, words) \in
        [totalDocs : Nat, classDocs : [Classes -> Nat],
         wordCounts : [Classes -> [Words -> Nat]], totalWords : [Classes -> Nat],
         vocabulary : SUBSET Words]
  <2>1. /\ stats.totalDocs + 1 \in Nat
        /\ [stats.classDocs EXCEPT ![c] = @ + 1] \in [Classes -> Nat]
        /\ [stats.totalWords EXCEPT ![c] = @ + Len(words)] \in [Classes -> Nat]
        /\ stats.vocabulary \cup ToSet(words) \in SUBSET Words
    BY <1>3 DEF StatsTyped
  <2>2. stats.wordCounts \in [Classes -> [Words -> Nat]]
    BY DEF StatsTyped
  <2>3. [w \in Words |-> stats.wordCounts[c][w] + Occurrences(w, words)] \in [Words -> Nat]
    BY <1>5, <2>2
  <2>4. [stats.wordCounts EXCEPT ![c] = [w \in Words |-> @[w] + Occurrences(w, words)]]
          \in [Classes -> [Words -> Nat]]
    BY <2>2, <2>3
  <2> QED BY <2>1, <2>4 DEF CountText, CountWords
<1> QED BY <1>1, <1>4, <1>6 DEF StatsTyped

\* Train adds to each count what the new text adds to the texts.
LEMMA StatsCountKept ==
  ASSUME StatsTyped, StatsCount, NEW text \in Texts, NEW c \in Classes, TrainText(text, c)
  PROVE  StatsCount'
<1> DEFINE words == Tokenize(text)  n == Len(docs) + 1
           more == IF words = <<>> THEN {} ELSE {n}
           New == {<<n, j>> : j \in DOMAIN words}
           Of(w) == {j \in DOMAIN words : words[j] = w}
           In(d, w) == {p \in Places(d) : docs[p[1]].words[p[2]] = w}
<1>1. /\ words \in Seq(Words) /\ docs' \in Seq(TextRow)
      /\ DOMAIN docs' = DOMAIN docs \cup {n} /\ n \notin DOMAIN docs
      /\ docs'[n] = [words |-> words, class |-> c]
      /\ \A i \in DOMAIN docs : docs'[i] = docs[i] /\ docs[i] \in TextRow
  BY TextAdded
<1>2. stats' = IF words = <<>> THEN stats ELSE CountText(c, words)
  BY DEF TrainText
<1>3. DOMAIN words = 1..Len(words) /\ Len(words) \in Nat /\ (words = <<>> <=> DOMAIN words = {})
  BY <1>1, LenProperties
<1> HIDE DEF words, n
<1>4. /\ IsFiniteSet(DOMAIN words) /\ Cardinality(DOMAIN words) = Len(words)
      /\ \A w : IsFiniteSet(Of(w)) /\ Cardinality(Of(w)) = Occurrences(w, words)
  <2>1. IsFiniteSet(1..Len(words)) /\ Cardinality(1..Len(words)) = Len(words)
    <3>1. 1 \in Int /\ Len(words) \in Int
      BY <1>3
    <3>2. /\ IsFiniteSet(1..Len(words))
          /\ Cardinality(1..Len(words)) = IF 1 > Len(words) THEN 0 ELSE Len(words) - 1 + 1
      BY <3>1, FS_Interval
    <3> QED BY <1>3, <3>2
  <2>2. \A w : Of(w) \in SUBSET (1..Len(words))
    BY <1>3
  <2>3. \A w : IsFiniteSet(Of(w))
    BY <2>1, <2>2, FS_Subset
  <2> QED BY <1>3, <2>1, <2>3 DEF Occurrences
<1>5. Learned' = Learned \cup more
  BY <1>1 DEF Learned
<1>6. \A d \in Classes : TextsOf(d)' = TextsOf(d) \cup (IF d = c THEN more ELSE {})
  BY <1>1, <1>5 DEF TextsOf, Learned
<1>7. \A d \in Classes : Places(d)' = Places(d) \cup (IF d = c THEN New ELSE {})
  <2> SUFFICES ASSUME NEW d \in Classes
               PROVE  Places(d)' = Places(d) \cup (IF d = c THEN New ELSE {})
    OBVIOUS
  <2>1. \A p : p \in Places(d) <=>
          \E i \in TextsOf(d) : \E j \in DOMAIN docs[i].words : p = <<i, j>>
    BY DEF Places
  <2>2. \A p : p \in Places(d)' <=>
          \E i \in TextsOf(d)' : \E j \in DOMAIN docs'[i].words : p = <<i, j>>
    BY DEF Places
  <2>3. \A i \in TextsOf(d) : docs'[i].words = docs[i].words
    BY <1>1 DEF TextsOf, Learned
  <2>4. \A p : p \in New <=> \E j \in DOMAIN docs'[n].words : p = <<n, j>>
    BY <1>1
  <2>5. words = <<>> => New = {}
    BY <1>3
  <2> HIDE DEF New
  <2>6. CASE d = c /\ words # <<>>
    <3>1. TextsOf(d)' = TextsOf(d) \cup {n}
      BY <1>6, <2>6
    <3>2. \A p : p \in Places(d)' <=> p \in Places(d) \/ p \in New
      BY <2>1, <2>2, <2>3, <2>4, <3>1
    <3> QED BY <2>6, <3>2
  <2>7. CASE ~ (d = c /\ words # <<>>)
    <3>1. TextsOf(d)' = TextsOf(d) /\ (d = c => New = {})
      BY <1>6, <2>5, <2>7
    <3>2. \A p : p \in Places(d)' <=> p \in Places(d)
      BY <2>1, <2>2, <2>3, <3>1
    <3>3. Places(d)' = Places(d)
      BY <3>2
    <3> QED BY <3>1, <3>3
  <2> QED BY <2>6, <2>7
<1>8. \A d \in Classes : \A p \in Places(d) : p[1] \in DOMAIN docs /\ p[1] # n
  BY <1>1 DEF Places, TextsOf, Learned
<1>9. IsFiniteSet(New) /\ Cardinality(New) = Len(words)
  BY <1>4, PairsCount
<1>10. Vocabulary' = Vocabulary \cup ToSet(words)
  <2> DEFINE V(i) == ToSet(docs[i].words)
             W(i) == ToSet(docs'[i].words)
  <2>1. Vocabulary = UNION {V(i) : i \in DOMAIN docs} /\ Vocabulary' = UNION {W(i) : i \in DOMAIN docs'}
    BY DEF Vocabulary
  <2>2. (\A i \in DOMAIN docs : V(i) = W(i)) /\ W(n) = ToSet(words)
    BY <1>1
  <2> HIDE DEF V, W
  <2> QED BY <1>1, <2>1, <2>2
<1>11. IsFiniteSet(ToSet(words)) /\ (words = <<>> => ToSet(words) = {})
  <2>1. words \in [DOMAIN words -> ToSet(words)] /\ (words = <<>> => ToSet(words) = {})
    BY <1>1, <1>3 DEF ToSet
  <2>2. words \in Surjection(DOMAIN words, ToSet(words))
    BY <2>1 DEF ToSet, Surjection
  <2> QED BY <1>4, <2>1, <2>2, FS_Surjection
<1>12. IsFiniteSet(Vocabulary')
  BY <1>10, <1>11, FS_Union DEF StatsCount
<1>13. /\ IsFiniteSet(Learned)
       /\ \A d \in Classes : IsFiniteSet(TextsOf(d)) /\ TextsOf(d) \in SUBSET Learned
       /\ n \notin Learned
  BY <1>1, TextsFinite DEF Learned, TextsOf
<1>14. /\ Cardinality(Learned \cup {n}) = Cardinality(Learned) + 1
       /\ \A d \in Classes : Cardinality(TextsOf(d) \cup {n}) = Cardinality(TextsOf(d)) + 1
  BY <1>13, FS_AddElement
<1>15. stats'.totalDocs = Cardinality(Learned')
  BY <1>2, <1>5, <1>14 DEF StatsCount, CountText
<1>16. stats'.vocabulary = Vocabulary'
  BY <1>2, <1>10, <1>11 DEF StatsCount, CountText
<1>17. ASSUME NEW d \in Classes
       PROVE  /\ stats'.classDocs[d] = Cardinality(TextsOf(d)')
              /\ IsFiniteSet(Places(d)') /\ stats'.totalWords[d] = Cardinality(Places(d)')
              /\ \A w \in Words : stats'.wordCounts[d][w] = Frequency(d, w)'
  <2>1. /\ stats'.classDocs[d] = stats.classDocs[d] + (IF d = c /\ words # <<>> THEN 1 ELSE 0)
        /\ stats'.totalWords[d] = stats.totalWords[d] + (IF d = c THEN Len(words) ELSE 0)
        /\ \A w \in Words : stats'.wordCounts[d][w] =
             stats.wordCounts[d][w] + (IF d = c THEN Occurrences(w, words) ELSE 0)
    <3>1. CASE words = <<>>
      <4>1. Len(words) = 0 /\ \A w \in Words : Occurrences(w, words) = 0
        <5>1. \A w \in Words : Of(w) = {}
          BY <1>3, <3>1
        <5> QED BY <3>1, <1>4, <5>1, FS_EmptySet
      <4> QED BY <1>2, <3>1, <4>1 DEF StatsTyped
    <3>2. CASE words # <<>>
      <4>1. stats' = CountText(c, words)
        BY <1>2, <3>2
      <4>2. \A w \in Words : stats'.wordCounts[d][w] =
             stats.wordCounts[d][w] + (IF d = c THEN Occurrences(w, words) ELSE 0)
        <5>1. CASE d = c
          BY <4>1, <5>1 DEF CountText, StatsTyped
        <5>2. CASE d # c
          BY <4>1, <5>2 DEF CountText, StatsTyped
        <5> QED BY <5>1, <5>2
      <4>3. stats'.classDocs[d] = stats.classDocs[d] + (IF d = c /\ words # <<>> THEN 1 ELSE 0)
        BY <4>1, <3>2 DEF CountText, StatsTyped
      <4>4. stats'.totalWords[d] = stats.totalWords[d] + (IF d = c THEN Len(words) ELSE 0)
        BY <4>1 DEF CountText, CountWords, StatsTyped
      <4> QED BY <4>2, <4>3, <4>4
    <3> QED BY <3>1, <3>2
  <2>2. stats'.classDocs[d] = Cardinality(TextsOf(d)')
    <3>1. TextsOf(d)' = IF d = c /\ words # <<>> THEN TextsOf(d) \cup {n} ELSE TextsOf(d)
      BY <1>6
    <3>2. stats.classDocs[d] = Cardinality(TextsOf(d)) /\ stats.classDocs[d] \in Nat
      BY DEF StatsCount, StatsTyped
    <3> QED BY <1>14, <2>1, <3>1, <3>2
  <2>3. IsFiniteSet(Places(d)) /\ stats.totalWords[d] = Cardinality(Places(d)) /\ stats.totalWords[d] \in Nat
    BY DEF StatsCount, StatsTyped
  <2>4. Places(d) \cap New = {}
    BY <1>8
  <2>5. IsFiniteSet(Places(d)') /\ stats'.totalWords[d] = Cardinality(Places(d)')
    <3>1. CASE d = c
      <4>1. Places(d)' = Places(d) \cup New
        BY <1>7, <3>1
      <4>2. IsFiniteSet(Places(d) \cup New)
              /\ Cardinality(Places(d) \cup New) = Cardinality(Places(d)) + Cardinality(New)
        BY <1>9, <2>3, <2>4, TwoParts
      <4> QED BY <1>9, <2>1, <2>3, <3>1, <4>1, <4>2
    <3>2. CASE d # c
      <4>1. Places(d)' = Places(d)
        BY <1>7, <3>2
      <4> QED BY <2>1, <2>3, <3>2, <4>1
    <3> QED BY <3>1, <3>2
  <2>6. ASSUME NEW w \in Words PROVE stats'.wordCounts[d][w] = Frequency(d, w)'
    <3> DEFINE Now == {p \in Places(d)' : docs'[p[1]].words[p[2]] = w}
               Added == {<<n, j>> : j \in Of(w)}
    <3>1. Frequency(d, w)' = Cardinality(Now) /\ Frequency(d, w) = Cardinality(In(d, w))
      BY DEF Frequency
    <3>2. \A p \in Places(d) : docs'[p[1]].words[p[2]] = docs[p[1]].words[p[2]]
      BY <1>1, <1>8
    <3>3. stats.wordCounts[d][w] = Cardinality(In(d, w)) /\ stats.wordCounts[d][w] \in Nat
      BY <3>1 DEF StatsCount, StatsTyped
    <3>4. IsFiniteSet(In(d, w)) /\ In(d, w) \cap Added = {}
      <4>1. In(d, w) \in SUBSET Places(d)
        OBVIOUS
      <4>2. IsFiniteSet(In(d, w))
        BY <2>3, <4>1, FS_Subset
      <4> QED BY <1>8, <4>2
    <3>5. IsFiniteSet(Added) /\ Cardinality(Added) = Occurrences(w, words)
      <4>1. IsFiniteSet(Of(w)) /\ Cardinality(Of(w)) = Occurrences(w, words)
        BY <1>4
      <4> HIDE DEF Of
      <4> QED BY <4>1, PairsCount
    <3>6. CASE d = c
      <4>1. Places(d)' = Places(d) \cup New
        BY <1>7, <3>6
      <4>2. {p \in New : docs'[p[1]].words[p[2]] = w} = Added
        BY <1>1
      <4>3. Now = In(d, w) \cup Added
        BY <3>2, <4>1, <4>2
      <4>4. Cardinality(In(d, w) \cup Added) = Cardinality(In(d, w)) + Cardinality(Added)
        BY <3>4, <3>5, TwoParts
      <4> QED BY <2>1, <3>1, <3>3, <3>5, <3>6, <4>3, <4>4
    <3>7. CASE d # c
      <4>1. Now = In(d, w)
        BY <1>7, <3>2, <3>7
      <4>2. stats'.wordCounts[d][w] = stats.wordCounts[d][w]
        BY <2>1, <3>3, <3>7
      <4> QED BY <3>1, <3>3, <4>1, <4>2
    <3> QED BY <3>6, <3>7
  <2> QED BY <2>2, <2>5, <2>6
<1> QED BY <1>12, <1>15, <1>16, <1>17 DEF StatsCount

\* The types of a scan.
ScanTyped ==
  scan \in [at : {"idle", "scan", "done"}, words : Seq(Words), left : SUBSET Classes,
            best : Classes \cup {NoClass}, second : Classes \cup {NoClass},
            answer : Classes \cup {NoClass}]

\* The classes a scan has been through.
Seen == Known \ scan.left

NotAbove(c, d) == ~ Above(Score(c, scan.words), Score(d, scan.words))

\* The best two are the best two of the classes seen, in whatever order.
BestTwo ==
  scan.at = "scan" =>
    /\ ToSet(scan.words) \cap stats.vocabulary # {} /\ Known # {}
    /\ scan.left \subseteq Known
    /\ scan.best = NoClass => Seen = {}
    /\ scan.best # NoClass => scan.best \in Seen /\ \A c \in Seen : NotAbove(c, scan.best)
    /\ scan.second = NoClass => Seen \subseteq {scan.best}
    /\ scan.second # NoClass =>
         /\ scan.second \in Seen \ {scan.best}
         /\ \A c \in Seen \ {scan.best} : NotAbove(c, scan.second)

\* The inductive invariant.
BayesInv == StatsTyped /\ StatsCount /\ ScanTyped /\ BestTwo /\ BestByMargin

\* The classes with a count are those with a text.
LEMMA KnownLearned ==
  ASSUME StatsTyped, StatsCount
  PROVE  /\ Known = {c \in Classes : TextsOf(c) # {}}
         /\ Known # {} => stats.totalDocs > 0
         /\ Vocabulary # {} => Known # {}
<1>1. /\ IsFiniteSet(Learned) /\ DOMAIN docs = 1..Len(docs)
      /\ \A c \in Classes : IsFiniteSet(TextsOf(c)) /\ TextsOf(c) \subseteq Learned
  BY TextsFinite DEF TextsOf
<1>2. \A c \in Classes : stats.classDocs[c] \in Nat /\ (stats.classDocs[c] = 0 <=> TextsOf(c) = {})
  BY <1>1, FS_EmptySet DEF StatsTyped, StatsCount
<1>3. Known = {c \in Classes : TextsOf(c) # {}}
  BY <1>2 DEF Known
<1>4. stats.totalDocs \in Nat /\ (stats.totalDocs = 0 <=> Learned = {})
  BY <1>1, FS_EmptySet DEF StatsTyped, StatsCount
<1>5. Known # {} => stats.totalDocs > 0
  BY <1>1, <1>3, <1>4
<1>6. ASSUME Vocabulary # {} PROVE Known # {}
  <2>1. PICK i \in DOMAIN docs : ToSet(docs[i].words) # {}
    BY <1>6 DEF Vocabulary
  <2>2. docs[i] \in TextRow
    BY <1>1, <2>1, ElementOfSeq DEF StatsTyped
  <2>3. docs[i].words # <<>>
    BY <2>1 DEF ToSet
  <2>4. i \in TextsOf(docs[i].class) /\ docs[i].class \in Classes
    BY <2>1, <2>2, <2>3 DEF TextsOf, Learned, TextRow
  <2> QED BY <1>3, <2>4
<1> QED BY <1>3, <1>5, <1>6

\* The score of a known class is a positive fraction.
LEMMA ScoreFraction ==
  ASSUME StatsTyped, StatsCount, stats.vocabulary # {}, NEW c \in Known, NEW words \in Seq(Words)
  PROVE  Score(c, words) \in Fractions
<1> DEFINE f == [i \in DOMAIN words |-> stats.wordCounts[c][words[i]] + 1]
           g == [i \in DOMAIN words |-> stats.totalWords[c] + Cardinality(stats.vocabulary)]
<1>1. c \in Classes /\ stats.classDocs[c] \in Nat \ {0} /\ stats.totalDocs \in Nat \ {0}
  BY KnownLearned DEF Known, StatsTyped
<1>2. DOMAIN words = 1..Len(words) /\ Len(words) \in Nat /\ \A i \in 1..Len(words) : words[i] \in Words
  BY LenProperties, ElementOfSeq
<1>3. Cardinality(stats.vocabulary) \in Nat \ {0}
  BY FS_CardinalityType, FS_EmptySet DEF StatsCount
<1>4. stats.totalWords[c] \in Nat /\ \A w \in Words : stats.wordCounts[c][w] \in Nat
  BY <1>1 DEF StatsTyped
<1>5. f \in [1..Len(words) -> Nat \ {0}] /\ g \in [1..Len(words) -> Nat \ {0}]
  BY <1>2, <1>3, <1>4
<1>6. f \in Seq(Nat \ {0}) /\ g \in Seq(Nat \ {0})
  BY <1>2, <1>5, SeqDef
<1> HIDE DEF f, g
<1>7. Product(f) \in Nat \ {0} /\ Product(g) \in Nat \ {0}
  BY <1>6, ProductPositive
<1>8. stats.classDocs[c] * Product(f) \in Nat \ {0} /\ stats.totalDocs * Product(g) \in Nat \ {0}
  BY <1>1, <1>7
<1>9. Score(c, words) = [num |-> stats.classDocs[c] * Product(f), den |-> stats.totalDocs * Product(g)]
  BY DEF Score, f, g
<1> QED BY <1>8, <1>9 DEF Fractions

\* The score taken from the counts is the one of the definition.
LEMMA ScoreIsBayes ==
  ASSUME StatsTyped, StatsCount, NEW c \in Classes, NEW words \in Seq(Words)
  PROVE  BayesScore(c, words) = Score(c, words)
<1>1. \A i \in DOMAIN words : words[i] \in Words
  BY LenProperties, ElementOfSeq
<1>2. [i \in DOMAIN words |-> stats.wordCounts[c][words[i]] + 1]
        = [i \in DOMAIN words |-> Frequency(c, words[i]) + 1]
  BY <1>1 DEF StatsCount
<1>3. [i \in DOMAIN words |-> stats.totalWords[c] + Cardinality(stats.vocabulary)]
        = [i \in DOMAIN words |-> Cardinality(Places(c)) + Cardinality(Vocabulary)]
  BY DEF StatsCount
<1> QED BY <1>2, <1>3 DEF StatsCount, Score, BayesScore

\* At first nothing is known.
LEMMA BayesInitInv == ASSUME BayesInit PROVE BayesInv
<1>1. docs = <<>> /\ DOMAIN docs = {}
  BY DEF BayesInit
<1>2. Learned = {} /\ \A c : TextsOf(c) = {} /\ Places(c) = {}
  BY <1>1 DEF Learned, TextsOf, Places
<1>3. Vocabulary = {} /\ \A c, w : Frequency(c, w) = Cardinality({})
  BY <1>1, <1>2 DEF Vocabulary, Frequency
<1>4. StatsTyped
  BY <1>1, EmptySeq DEF BayesInit, Untrained, StatsTyped
<1>5. StatsCount
  BY <1>2, <1>3, FS_EmptySet DEF BayesInit, Untrained, StatsCount
<1>6. ScanTyped /\ BestTwo /\ BestByMargin
  BY EmptySeq DEF BayesInit, NoScan, ScanTyped, BestTwo, BestByMargin
<1> QED BY <1>4, <1>5, <1>6 DEF BayesInv

\* A scan begins with nothing seen, or ends at once without an answer.
LEMMA BeginScanKeeps ==
  ASSUME BayesInv, NEW text \in Texts, BeginScan(text)
  PROVE  ScanTyped' /\ BestTwo' /\ BestByMargin'
<1> DEFINE words == Tokenize(text)
<1>1. words \in Seq(Words)
  <2>1. text \in Seq(Words)
    BY SeqDef DEF Texts, SeqOf
  <2> QED BY <2>1, TokenizeType
<1>2. Known \in SUBSET Classes
  BY DEF Known
<1>3. /\ stats' = stats /\ docs' = docs
      /\ scan' = [NoScan EXCEPT !.words = words,
                !.at = IF Known = {} \/ ToSet(words) \cap stats.vocabulary = {}
                       THEN "done" ELSE "scan",
                !.left = Known]
  BY DEF BeginScan
<1> HIDE DEF words
<1>4. /\ scan'.words = words /\ scan'.left = Known /\ scan'.best = NoClass
      /\ scan'.second = NoClass /\ scan'.answer = NoClass
      /\ scan'.at = IF Known = {} \/ ToSet(words) \cap stats.vocabulary = {}
                    THEN "done" ELSE "scan"
  BY <1>3 DEF NoScan
<1>5. ScanTyped'
  BY <1>1, <1>2, <1>3, EmptySeq DEF ScanTyped, NoScan
<1>6. Known' = Known /\ Vocabulary' = Vocabulary
  BY <1>3 DEF Known, Vocabulary
<1>7. BestTwo'
  BY <1>3, <1>4, <1>6 DEF BestTwo, Seen
<1>8. BestByMargin'
  <2> SUFFICES ASSUME scan'.at = "done" PROVE ToSet(words) \cap Vocabulary = {}
    BY <1>4, <1>6 DEF BestByMargin
  <2>1. Known = {} \/ ToSet(words) \cap stats.vocabulary = {}
    BY <1>4
  <2>2. stats.vocabulary = Vocabulary /\ (Known = {} => Vocabulary = {})
    BY KnownLearned DEF BayesInv, StatsCount
  <2> QED BY <2>1, <2>2
<1> QED BY <1>5, <1>7, <1>8

\* One more class: the best two stay the best two.
LEMMA ScanClassKeeps ==
  ASSUME BayesInv, NEW c \in Classes, ScanClass(c)
  PROVE  ScanTyped' /\ BestTwo' /\ BestByMargin'
<1> DEFINE S(d) == Score(d, scan.words)
<1>1. /\ stats' = stats /\ docs' = docs /\ scan.at = "scan" /\ c \in scan.left
      /\ scan' = [Rank(c) EXCEPT !.left = @ \ {c}]
  BY DEF ScanClass
<1>2. /\ scan'.at = "scan" /\ scan'.words = scan.words /\ scan'.left = scan.left \ {c}
      /\ scan'.best = IF Beats(c, scan.best) THEN c ELSE scan.best
      /\ scan'.second = IF Beats(c, scan.best) THEN scan.best
                        ELSE IF Beats(c, scan.second) THEN c ELSE scan.second
      /\ ScanTyped'
  BY <1>1 DEF Rank, ScanTyped, BayesInv
<1>3. Known' = Known /\ \A d, e : NotAbove(d, e)' = NotAbove(d, e)
  BY <1>1, <1>2 DEF Known, NotAbove, Score
<1>4. /\ ToSet(scan.words) \cap stats.vocabulary # {} /\ Known # {}
      /\ scan.left \subseteq Known /\ c \in Known
  BY <1>1 DEF BestTwo, BayesInv
<1>5. Seen' = Seen \cup {c} /\ c \notin Seen /\ Seen \subseteq Known
  BY <1>1, <1>2, <1>3, <1>4 DEF Seen
<1>6. scan.words \in Seq(Words) /\ NoClass \notin Classes /\ Known \subseteq Classes
  BY ClassifierAssumption DEF ScanTyped, BayesInv, Known
<1>7. \A d \in Known : S(d) \in Fractions
  BY <1>4, <1>6, ScoreFraction DEF BayesInv
<1> HIDE DEF S
<1>8. \A d, e \in Known : NotAbove(d, e) <=> ~ Above(S(d), S(e))
  BY DEF NotAbove, S
<1>9. /\ \A d, e, g \in Known : NotAbove(d, e) /\ NotAbove(e, g) => NotAbove(d, g)
      /\ \A d, e \in Known : ~ NotAbove(d, e) => NotAbove(e, d)
      /\ \A d \in Known : NotAbove(d, d)
  BY <1>7, <1>8, NotAboveChains, AboveIsStrict
<1>10. \A d : Beats(c, d) <=> d = NoClass \/ ~ NotAbove(c, d)
  BY DEF Beats, NotAbove
<1>11. /\ scan.best = NoClass => Seen = {}
       /\ scan.best # NoClass => scan.best \in Seen /\ \A d \in Seen : NotAbove(d, scan.best)
       /\ scan.second = NoClass => Seen \subseteq {scan.best}
       /\ scan.second # NoClass =>
            /\ scan.second \in Seen \ {scan.best}
            /\ \A d \in Seen \ {scan.best} : NotAbove(d, scan.second)
  BY <1>1 DEF BestTwo, BayesInv
<1>12. c # NoClass /\ c # scan.best /\ c # scan.second
  BY <1>5, <1>6, <1>4, <1>11
<1>13. /\ scan'.best # NoClass
       /\ scan'.best \in Seen' /\ \A d \in Seen' : NotAbove(d, scan'.best)
  BY <1>2, <1>4, <1>5, <1>9, <1>10, <1>11, <1>12
<1>14. scan'.second = NoClass => Seen' \subseteq {scan'.best}
  BY <1>2, <1>5, <1>10, <1>11, <1>12
<1>15. scan'.second # NoClass =>
            /\ scan'.second \in Seen' \ {scan'.best}
            /\ \A d \in Seen' \ {scan'.best} : NotAbove(d, scan'.second)
  <2>1. CASE Beats(c, scan.best)
    BY <1>2, <1>5, <1>11, <1>12, <2>1
  <2>2. CASE ~ Beats(c, scan.best) /\ Beats(c, scan.second)
    BY <1>2, <1>4, <1>5, <1>9, <1>10, <1>11, <1>12, <2>2
  <2>3. CASE ~ Beats(c, scan.best) /\ ~ Beats(c, scan.second)
    BY <1>2, <1>5, <1>10, <1>11, <1>12, <2>3
  <2> QED BY <2>1, <2>2, <2>3
<1>16. BestTwo'
  BY <1>1, <1>2, <1>3, <1>4, <1>13, <1>14, <1>15 DEF BestTwo
<1> QED BY <1>2, <1>16 DEF BestByMargin

\* When all classes are seen, the second best speaks for all others.
LEMMA DecideKeeps ==
  ASSUME BayesInv, Decide
  PROVE  ScanTyped' /\ BestTwo' /\ BestByMargin'
<1> DEFINE S(d) == Score(d, scan.words)
           b == scan.best
           right == {c \in Known : \A d \in Known \ {c} : WellAbove(S(c), S(d))}
           sure == \/ Cardinality(Known) = 1 \/ scan.second = NoClass
                   \/ WellAbove(S(b), S(scan.second))
<1>1. /\ stats' = stats /\ docs' = docs /\ scan.at = "scan" /\ scan.left = {}
      /\ scan' = [scan EXCEPT !.at = "done", !.answer = IF sure THEN b ELSE NoClass]
  BY DEF Decide
<1>2. /\ scan'.at = "done" /\ scan'.words = scan.words /\ ScanTyped'
      /\ scan'.answer = IF sure THEN b ELSE NoClass
  BY <1>1 DEF ScanTyped, BayesInv
<1>3. /\ ToSet(scan.words) \cap stats.vocabulary # {} /\ Known # {} /\ Seen = Known
      /\ stats.vocabulary = Vocabulary
  BY <1>1 DEF BestTwo, BayesInv, Seen, StatsCount
<1>4. /\ b \in Known /\ b # NoClass /\ \A d \in Known : NotAbove(d, b)
      /\ scan.second = NoClass => Known \subseteq {b}
      /\ scan.second # NoClass =>
           scan.second \in Known \ {b} /\ \A d \in Known \ {b} : NotAbove(d, scan.second)
  BY <1>1, <1>3 DEF BestTwo, BayesInv
<1>5. scan.words \in Seq(Words) /\ NoClass \notin Classes /\ Known \subseteq Classes
  BY ClassifierAssumption DEF ScanTyped, BayesInv, Known
<1>6. \A d \in Known : S(d) \in Fractions
  BY <1>3, <1>5, ScoreFraction DEF BayesInv
<1>7. \A d, e \in Known : NotAbove(d, e) <=> ~ Above(S(d), S(e))
  BY DEF NotAbove
<1> HIDE DEF S
<1>8. \A d \in Known : d # b => ~ WellAbove(S(d), S(b))
  BY <1>4, <1>6, <1>7, AboveIsStrict
<1>9. right \subseteq {b}
  BY <1>4, <1>8
<1>10. sure => b \in right
  <2>1. CASE Cardinality(Known) = 1
    <3>1. IsFiniteSet(Known)
      <4>1. Known \subseteq {docs[i].class : i \in DOMAIN docs}
        BY KnownLearned DEF BayesInv, TextsOf, Learned
      <4>2. IsFiniteSet({docs[i].class : i \in DOMAIN docs})
        <5> DEFINE T == {docs[i].class : i \in DOMAIN docs}
                   f == [i \in DOMAIN docs |-> docs[i].class]
        <5>1. f \in Surjection(DOMAIN docs, T)
          BY DEF Surjection
        <5>2. IsFiniteSet(DOMAIN docs)
          BY TextsFinite, FS_Interval DEF BayesInv
        <5> QED BY <5>1, <5>2, FS_Surjection
      <4> QED BY <4>1, <4>2, FS_Subset
    <3>2. Known = {b}
      BY <1>4, <2>1, <3>1, FS_Singleton
    <3> QED BY <3>2
  <2>2. CASE scan.second = NoClass
    BY <1>4, <2>2
  <2>3. CASE scan.second # NoClass /\ WellAbove(S(b), S(scan.second))
    <3>1. \A d \in Known \ {b} : WellAbove(S(b), S(d))
      BY <1>4, <1>6, <1>7, <2>3, WellAboveLower
    <3> QED BY <1>4, <3>1
  <2> QED BY <2>1, <2>2, <2>3
<1>11. ~ sure => b \notin right
  BY <1>4
<1>12. right = IF sure THEN {b} ELSE {}
  BY <1>9, <1>10, <1>11
<1>13. \A d \in Known : BayesScore(d, scan.words) = S(d)
  BY <1>5, ScoreIsBayes DEF BayesInv, S
<1>14. /\ Vocabulary' = Vocabulary /\ \A d : TextsOf(d)' = TextsOf(d)
       /\ \A d : BayesScore(d, scan.words)' = BayesScore(d, scan.words)
  BY <1>1, <1>2 DEF Vocabulary, TextsOf, Learned, BayesScore, Places, Frequency
<1>15. Known = {c \in Classes : TextsOf(c) # {}}
  BY KnownLearned DEF BayesInv
<1> HIDE DEF sure
<1>16. BestByMargin'
  <2> DEFINE learned == {c \in Classes : TextsOf(c)' # {}}
             rightly == {c \in learned : \A d \in learned \ {c} :
                    WellAbove(BayesScore(c, scan.words)', BayesScore(d, scan.words)')}
  <2>1. learned = Known
    BY <1>14, <1>15
  <2> HIDE DEF learned
  <2>2. rightly = right
    BY <1>13, <1>14, <2>1
  <2>3. rightly = IF scan'.answer = NoClass THEN {} ELSE {scan'.answer}
    BY <1>2, <1>4, <1>12, <2>2
  <2> QED BY <1>2, <1>3, <1>14, <2>3 DEF BestByMargin, learned
<1> QED BY <1>2, <1>16 DEF BestTwo

\* The invariant is inductive.
LEMMA BayesInvNext == ASSUME BayesInv, [BayesNext]_bayesVars PROVE BayesInv'
<1>1. ASSUME NEW text \in Texts, NEW c \in Classes, TrainText(text, c) PROVE BayesInv'
  <2>1. StatsTyped' /\ StatsCount'
    BY <1>1, StatsTypedKept, StatsCountKept DEF BayesInv
  <2>2. scan' = scan /\ scan.at = "idle"
    BY <1>1 DEF TrainText
  <2> QED BY <2>1, <2>2 DEF BayesInv, ScanTyped, BestTwo, BestByMargin
<1>2. ASSUME stats' = stats, docs' = docs PROVE StatsTyped' /\ StatsCount'
  <2>1. Learned' = Learned /\ Vocabulary' = Vocabulary
    BY <1>2 DEF Learned, Vocabulary
  <2>2. \A c : TextsOf(c)' = TextsOf(c) /\ Places(c)' = Places(c)
    BY <1>2 DEF Learned, TextsOf, Places
  <2>3. \A c, w : Frequency(c, w)' = Frequency(c, w)
    BY <1>2, <2>2 DEF Frequency
  <2> QED BY <1>2, <2>1, <2>2, <2>3 DEF BayesInv, StatsTyped, StatsCount
<1>3. ASSUME NEW text \in Texts, BeginScan(text) PROVE BayesInv'
  BY <1>2, <1>3, BeginScanKeeps DEF BayesInv, BeginScan
<1>4. ASSUME NEW c \in Classes, ScanClass(c) PROVE BayesInv'
  BY <1>2, <1>4, ScanClassKeeps DEF BayesInv, ScanClass
<1>5. ASSUME Decide PROVE BayesInv'
  BY <1>2, <1>5, DecideKeeps DEF BayesInv, Decide
<1>6. ASSUME UNCHANGED bayesVars PROVE BayesInv'
  <2>1. stats' = stats /\ docs' = docs /\ scan' = scan
    BY <1>6 DEF bayesVars
  <2>2. StatsTyped' /\ StatsCount'
    BY <1>2, <2>1
  <2>3. ScanTyped' /\ BestTwo'
    <3>1. Known' = Known /\ \A c, d : NotAbove(c, d)' = NotAbove(c, d)
      BY <2>1 DEF Known, NotAbove, Score
    <3> QED BY <2>1, <3>1 DEF BayesInv, ScanTyped, BestTwo, Seen
  <2>4. BestByMargin'
    <3>1. /\ Vocabulary' = Vocabulary /\ \A c : TextsOf(c)' = TextsOf(c)
          /\ \A c : BayesScore(c, scan.words)' = BayesScore(c, scan.words)
      BY <2>1 DEF Vocabulary, TextsOf, Learned, BayesScore, Places, Frequency
    <3> QED BY <2>1, <3>1 DEF BayesInv, BestByMargin
  <2> QED BY <2>2, <2>3, <2>4 DEF BayesInv
<1> QED BY <1>1, <1>3, <1>4, <1>5, <1>6 DEF BayesNext

\* The classifier answers by naive Bayes for any words, classes, texts and order of
\* the scan: Train keeps the counts of the texts, the loop of Classify ends with the
\* best two of all classes, and the margin to the second decides for all others
\* (internal/classifier/classifier.go:199-287).
THEOREM AnswersByMargin == BayesSpec => []BestByMargin
<1>1. BayesInit => BayesInv
  BY BayesInitInv
<1>2. BayesInv /\ [BayesNext]_bayesVars => BayesInv'
  BY BayesInvNext
<1>3. BayesInv => BestByMargin
  BY DEF BayesInv
<1> QED BY <1>1, <1>2, <1>3, PTL DEF BayesSpec
=============================================================================
