------------------------------ MODULE Tagging ------------------------------
(***************************************************************************)
(* The tags of a family's transactions and what is learned from them: tags *)
(* by hand, ApplySimilar, AutoTagBatch, the tags of an import, merchant    *)
(* rules, and the stored classifier that goroutines rebuild                *)
(* (internal/handlers/transaction.go, ai_handler.go, tag.go,               *)
(* internal/classifier/trainer.go, internal/repository).                   *)
(*                                                                         *)
(* The transactions are those of one merchant, so one rule matches them    *)
(* all, each is similar to each and none is nameless; one family, whose    *)
(* system tags all have in common.  A document is a transaction with one   *)
(* of its tags: a stored classifier is the documents it was trained with,  *)
(* next to the built-in ones on system tags.  What it suggests is any      *)
(* class it knows, or none.  Of a list that is read, what came in counts as  *)
(* all: nobody asks whether the read was cut short.                        *)
(* A database transaction deletes the rows that its DELETE sees and adds   *)
(* its own when it commits.                                                *)
(***************************************************************************)
EXTENDS Naturals, Sequences, FiniteSets

CONSTANTS
  Txs, SystemTags, CustomTags,
  Procs,                \* slots for requests
  Slots,                \* slots for rebuilds in goroutines
  NoTag,
  MaxRequests, MaxFaults   \* bounds of the model

Tags == SystemTags \cup CustomTags
Docs == Txs \X Tags
Builders == Slots \cup Procs   \* a request may have to rebuild by itself

\* A classifier: the system tags whose built-in documents it has learned, and the
\* documents of the history.
Model == [known : SUBSET SystemTags, docs : SUBSET Docs]
NoModel == [known |-> {}, docs |-> {}]
Trained(docs) == [known |-> SystemTags, docs |-> docs]

ASSUME TaggingAssumption ==
  /\ SystemTags \cap CustomTags = {} /\ Slots \cap Procs = {} /\ Slots # {}
  /\ NoTag \notin Tags
  /\ IsFiniteSet(Slots) /\ MaxRequests \in Nat /\ MaxFaults \in Nat

VARIABLES
  tags,      \* the tags that exist
  tx,        \* transactions
  tagged,    \* transaction_tags
  rule,      \* the tag of the merchant's rule
  model,     \* classifier_states of the family
  shared,    \* its rows without a family
  due,       \* goroutines that have not begun: for the family, for all
  build,     \* rebuilds
  req,       \* requests
  hand,      \* history: the tags last given by hand
  excused,   \* history: a write that overlapped or was told to has changed them
  lag,       \* history: the family's row lacks a change
  started,   \* requests that have come in
  faults     \* statements that have failed, and stops

vars == <<tags, tx, tagged, rule, model, shared, due, build, req, hand, excused, lag,
          started, faults>>

\* on and plan: the transactions a write is about, and the rows it inserts;
\* seen: the rows its DELETE has seen.  alone and since are history: no write
\* has overlapped; what was tagged by hand since the request read its targets.
Request ==
  [at : {"idle", "select", "model", "inherit", "await", "next", "delete", "commit",
         "learn", "row", "tag"},
   kind : {"none", "update", "create", "similar", "batch", "import"},
   on : SUBSET Txs, plan : SUBSET Docs, seen : SUBSET Docs, left : SUBSET Txs,
   include : BOOLEAN, docs : Model,
   alone : BOOLEAN, since : SUBSET Txs]
Idle == [at |-> "idle", kind |-> "none", on |-> {}, plan |-> {}, seen |-> {},
         left |-> {}, include |-> FALSE, docs |-> NoModel, alone |-> TRUE, since |-> {}]

\* row: which of the shared rows it updates.  older, overtaken and missed are
\* history: the rebuilds that had read before this one and not stored; one that
\* read later has stored; a change that starts no rebuild came after the read.
Build == [at : {"idle", "read", "store", "adopt", "find", "write", "done"}, all : BOOLEAN,
          row : Nat, docs : Model,
          older : SUBSET Builders, overtaken : BOOLEAN, missed : BOOLEAN]
NoBuild == [at |-> "idle", all |-> FALSE, row |-> 0, docs |-> NoModel,
            older |-> {}, overtaken |-> FALSE, missed |-> FALSE]

\* Transactions may be there already, tagged by hand or by an import.
Init ==
  /\ tags = Tags
  /\ tx \in [Txs -> {[at |-> "new", manual |-> FALSE], [at |-> "there", manual |-> FALSE],
                     [at |-> "there", manual |-> TRUE]}]
  /\ tagged \in SUBSET {d \in Docs : tx[d[1]].at = "there"}
  /\ hand = [t \in Txs |-> IF tx[t].manual THEN {d[2] : d \in {e \in tagged : e[1] = t}} ELSE {}]
  /\ excused = [t \in Txs |-> FALSE]
  /\ rule = NoTag
  /\ model \in {NoModel, Trained(tagged)} /\ lag = (model = NoModel)
  /\ shared \in {<<>>, <<Trained({})>>}   \* other families may have trained
  /\ due = [own |-> 0, all |-> 0]
  /\ build = [b \in Builders |-> NoBuild]
  /\ req = [p \in Procs |-> Idle]
  /\ started = 0 /\ faults = 0

There == {t \in Txs : tx[t].at = "there"}
TagsOf(t) == {g \in Tags : <<t, g>> \in tagged}
Rows(T) == {d \in tagged : d[1] \in T}

Counted == started < MaxRequests /\ started' = started + 1
ComesIn(p) == req[p] = Idle /\ Counted
\* A statement fails, if fails.
Fault(fails) == IF fails THEN faults < MaxFaults /\ faults' = faults + 1
                         ELSE UNCHANGED faults
Finish(p) == req' = [req EXCEPT ![p] = Idle]

Storing == {b \in Builders : build[b].at = "store"}
Missing(B) == [b \in Builders |-> IF b \in B THEN [build[b] EXCEPT !.missed = TRUE]
                                             ELSE build[b]]

\* A change that starts no rebuild: what is stored or about to be lacks it.
Unlearned(changed) ==
  IF changed THEN lag' = TRUE /\ build' = Missing(Storing)
             ELSE UNCHANGED <<lag, build>>

-----------------------------------------------------------------------------
(* UpdateTags and ApplyTagToSimilar: one database transaction.             *)

\* DELETE FROM transaction_tags: it has seen these rows.
BeginWrite(p) ==
  LET others == {q \in Procs \ {p} : req[q].at = "commit" /\ req[q].on \cap req[p].on # {}} IN
  /\ req[p].at = "delete"
  /\ req' = [q \in Procs |->
       IF q = p THEN [req[p] EXCEPT !.at = "commit", !.seen = Rows(req[p].on),
                                    !.alone = others = {}]
       ELSE IF q \in others THEN [req[q] EXCEPT !.alone = FALSE] ELSE req[q]]
  /\ UNCHANGED <<tags, tx, tagged, rule, model, shared, due, build, hand, excused, lag,
                 started, faults>>

\* Primary and foreign keys let the rows of p in.
KeysHold(p) ==
  /\ req[p].plan \cap (tagged \ req[p].seen) = {}
  /\ \A d \in req[p].plan : d[1] \in There /\ d[2] \in tags

After(p) == IF req[p].kind = "batch" THEN "next" ELSE "learn"

\* The commit.  It takes from the others the rows that they had seen, and
\* manually_tagged holds whoever has asked for the tags.  An answer that does not
\* come is an error to Update and ApplySimilar, and ends them.
CommitWrite(p, heard) ==
  LET r == req[p]  T == r.on \cap There IN
  /\ r.at = "commit" /\ KeysHold(p) /\ (heard \/ r.kind # "batch")
  /\ tagged' = (tagged \ r.seen) \cup r.plan
  /\ tx' = [t \in Txs |-> IF t \in T THEN [tx[t] EXCEPT !.manual = TRUE] ELSE tx[t]]
  /\ hand' = [t \in Txs |-> IF t \in T /\ r.kind = "update"
                            THEN {d[2] : d \in r.plan} ELSE hand[t]]
  /\ excused' = [t \in Txs |->
       IF t \notin T THEN excused[t]
       ELSE ~r.alone \/ (r.kind # "update" /\ (excused[t] \/ r.include \/ t \in r.since))]
  /\ req' = [q \in Procs |->
       IF q = p THEN IF heard THEN [r EXCEPT !.at = After(p), !.seen = {}]
                                                 ELSE Idle
       ELSE [req[q] EXCEPT !.seen = @ \ r.seen,
                           !.since = IF r.kind = "update" THEN @ \cup r.on ELSE @]]
  /\ Unlearned(~heard)
  /\ Fault(~heard)
  /\ UNCHANGED <<tags, rule, model, shared, due, started>>

\* A key does not hold, or a statement fails: a write is rolled back, the rows
\* of an import stay.  The batch goes on.
RollBack(p) ==
  /\ req[p].at \in {"delete", "commit", "row", "tag"}
  /\ Fault(req[p].at = "commit" => KeysHold(p))
  /\ IF req[p].kind = "batch" THEN req' = [req EXCEPT ![p].at = "next", ![p].seen = {}]
                              ELSE Finish(p)
  /\ UNCHANGED <<tags, tx, tagged, rule, model, shared, due, build, hand, excused, lag,
                 started>>

\* Mutant of Learn: nothing to learn when all tags were taken away.
LearnNew(p) ==
  LET r == req[p] IN
  /\ r.at = "learn"
  /\ rule' \in {rule} \cup {d[2] : d \in {e \in r.plan : e[2] \in tags}}
  /\ due' = [due EXCEPT !.own = IF r.plan = {} THEN @ ELSE @ + 1]
  /\ Finish(p)
  /\ UNCHANGED <<tags, tx, tagged, model, shared, build, hand, excused, lag, started, faults>>

\* The rule and the goroutine at the end of Update, Create and ApplySimilar.  The
\* rule is the first tag, if the merchant's name is not empty and the UPSERT,
\* whose error is dropped, works.
Learn(p) ==
  LET r == req[p] IN
  /\ r.at = "learn"
  /\ rule' \in {rule} \cup {d[2] : d \in {e \in r.plan : e[2] \in tags}}
  /\ due' = [due EXCEPT !.own = @ + 1]
  /\ Finish(p)
  /\ UNCHANGED <<tags, tx, tagged, model, shared, build, hand, excused, lag, started, faults>>

-----------------------------------------------------------------------------
(* By hand.                                                                *)

\* Update of the transaction t, found in the family.
Update(p, t, G) ==
  /\ ComesIn(p) /\ t \in There
  /\ req' = [req EXCEPT ![p] = [Idle EXCEPT !.at = "delete", !.kind = "update",
                                            !.on = {t}, !.plan = {t} \X G]]
  /\ UNCHANGED <<tags, tx, tagged, rule, model, shared, due, build, hand, excused, lag, faults>>

\* Create: the transaction and its tags in one database transaction; only tags
\* are something to learn, for who hears of the commit.
Create(p, t, G, heard) ==
  /\ ComesIn(p) /\ tx[t].at = "new" /\ G \subseteq tags
  /\ tx' = [tx EXCEPT ![t] = [at |-> "there", manual |-> G # {}]]
  /\ tagged' = tagged \cup ({t} \X G)
  /\ hand' = [hand EXCEPT ![t] = G]
  /\ IF G = {} \/ ~heard THEN UNCHANGED req
     ELSE req' = [req EXCEPT ![p] = [Idle EXCEPT !.at = "learn", !.kind = "create",
                                                 !.on = {t}, !.plan = {t} \X G]]
  /\ Unlearned(G # {} /\ ~heard)
  /\ Fault(~heard)
  /\ UNCHANGED <<tags, rule, model, shared, due, excused>>

\* Delete of a transaction.
DeleteTx(t) ==
  /\ Counted
  /\ t \in There
  /\ tx' = [tx EXCEPT ![t].at = "gone"]
  /\ tagged' = tagged \ Rows({t})
  /\ Unlearned(Rows({t}) # {})
  /\ UNCHANGED <<tags, rule, model, shared, due, req, hand, excused, faults>>

\* Mutant of DeleteTag: the rule keeps the tag.
DeleteTagRuled(g) ==
  /\ Counted
  /\ g \in tags \cap CustomTags
  /\ tags' = tags \ {g}
  /\ tagged' = {d \in tagged : d[2] # g}
  /\ UNCHANGED rule
  /\ Unlearned(\E d \in tagged : d[2] = g)
  /\ UNCHANGED <<tx, model, shared, due, req, hand, excused, faults>>

\* Delete of a tag of the family: its rows and rules go with it, and what was
\* learned of it stays.  System tags are refused.
DeleteTag(g) ==
  /\ Counted
  /\ g \in tags \cap CustomTags
  /\ tags' = tags \ {g}
  /\ tagged' = {d \in tagged : d[2] # g}
  /\ rule' = IF rule = g THEN NoTag ELSE rule
  /\ Unlearned(\E d \in tagged : d[2] = g)
  /\ UNCHANGED <<tx, model, shared, due, req, hand, excused, faults>>

\* CreateRule and DeleteRule, one statement each.
CreateRule(g) ==
  /\ Counted
  /\ g \in tags /\ rule' = g
  /\ UNCHANGED <<tags, tx, tagged, model, shared, due, build, req, hand, excused, lag, faults>>

DeleteRule ==
  /\ Counted
  /\ rule # NoTag /\ rule' = NoTag
  /\ UNCHANGED <<tags, tx, tagged, model, shared, due, build, req, hand, excused, lag, faults>>

\* ApplySimilar has read the transaction t: the first of its tags, in no order.
ApplySimilar(p, t, g, include) ==
  /\ ComesIn(p) /\ t \in There /\ g \in TagsOf(t)
  /\ req' = [req EXCEPT ![p] = [Idle EXCEPT !.at = "select", !.kind = "similar",
                                            !.plan = {<<t, g>>}, !.include = include]]
  /\ UNCHANGED <<tags, tx, tagged, rule, model, shared, due, build, hand, excused, lag, faults>>

\* The transactions that are not left out.
Spared(include) == {t \in There : include \/ ~tx[t].manual}

\* The SELECT of ApplyTagToSimilar; a read that breaks off at once finds none, one
\* that breaks off later ends the database transaction (RollBack).
SelectSimilar(p, reads) ==
  LET T == IF reads THEN Spared(req[p].include) ELSE {}
      g == (CHOOSE d \in req[p].plan : TRUE)[2] IN
  /\ req[p].at = "select"
  /\ req' = [req EXCEPT ![p].at = IF T = {} THEN "learn" ELSE "delete",
                        ![p].on = T, ![p].plan = IF T = {} THEN @ ELSE T \X {g}]
  /\ Fault(~reads)
  /\ UNCHANGED <<tags, tx, tagged, rule, model, shared, due, build, hand, excused, lag,
                 started>>

-----------------------------------------------------------------------------
(* The stored classifier, for AutoTagBatch and Import.                     *)

\* Mutant of Untagged: the join is forgotten.
UntaggedAll(include) == There

\* FindAllUntagged: all, or those without a tag, by hand or not.
Untagged(include) == {t \in There : include \/ TagsOf(t) = {}}

\* AutoTagBatch has read the transactions T, all or what came in of them; there may
\* be none to classify.
AutoTagBatch(p, include, T) ==
  /\ ComesIn(p) /\ T \subseteq Untagged(include)
  /\ IF T = {} THEN UNCHANGED req
     ELSE req' = [req EXCEPT ![p] = [Idle EXCEPT !.at = "model", !.kind = "batch",
                                                 !.left = T, !.include = include]]
  /\ Fault(T # Untagged(include))
  /\ UNCHANGED <<tags, tx, tagged, rule, model, shared, due, build, hand, excused, lag>>

\* A file with transactions that are not there yet.
Import(p, T) ==
  /\ ComesIn(p) /\ T # {} /\ \A t \in T : tx[t].at = "new"
  /\ req' = [req EXCEPT ![p] = [Idle EXCEPT !.at = "model", !.kind = "import",
                                            !.left = T, !.on = T]]
  /\ UNCHANGED <<tags, tx, tagged, rule, model, shared, due, build, hand, excused, lag, faults>>

\* GetOrBuildForFamily: a missing row is read as an empty state.
GetModel(p) ==
  /\ req[p].at = "model"
  /\ req' = [req EXCEPT ![p].at = "next", ![p].docs = model]
  /\ UNCHANGED <<tags, tx, tagged, rule, model, shared, due, build, hand, excused, lag,
                 started, faults>>

\* The query fails: the shared state, or an empty one for a missing row, is to
\* become the state of the family.
Inherit(p, i) ==
  /\ req[p].at = "model"
  /\ i \in DOMAIN shared \/ (shared = <<>> /\ i = 0)
  /\ build' = [build EXCEPT ![p] = [NoBuild EXCEPT !.at = "adopt",
                                      !.docs = IF i = 0 THEN NoModel ELSE shared[i]]]
  /\ req' = [req EXCEPT ![p].at = "await"]
  /\ Fault(TRUE)
  /\ UNCHANGED <<tags, tx, tagged, rule, model, shared, due, hand, excused, lag, started>>

\* ... and does, over what the family had; the error of the UPSERT is dropped.
Adopt(p) ==
  /\ build[p].at = "adopt"
  /\ \/ model' = build[p].docs /\ lag' = TRUE /\ Fault(FALSE)
     \/ UNCHANGED <<model, lag>> /\ Fault(TRUE)
  /\ build' = [build EXCEPT ![p].at = "done"]
  /\ UNCHANGED <<tags, tx, tagged, rule, shared, due, req, hand, excused, started>>

\* Both queries fail: a goroutine for the shared state, and the request rebuilds
\* the family's.
BuildNow(p) ==
  /\ req[p].at = "model"
  /\ due' = [due EXCEPT !.all = @ + 1]
  /\ build' = [build EXCEPT ![p] = [NoBuild EXCEPT !.at = "read"]]
  /\ req' = [req EXCEPT ![p].at = "await"]
  /\ Fault(TRUE)
  /\ UNCHANGED <<tags, tx, tagged, rule, model, shared, hand, excused, lag, started>>

Await(p) ==
  /\ req[p].at = "await" /\ build[p].at = "done"
  /\ req' = [req EXCEPT ![p].at = "next", ![p].docs = build[p].docs]
  /\ build' = [build EXCEPT ![p] = NoBuild]
  /\ UNCHANGED <<tags, tx, tagged, rule, model, shared, due, hand, excused, lag, started, faults>>

\* The rule first, then what the classifier is sure enough of.
Suggestions(docs) ==
  IF rule # NoTag THEN {{rule}}
  ELSE {{}} \cup {{g} : g \in docs.known \cup {d[2] : d \in docs.docs}}

\* The next transaction is classified; the batch writes at once.
Classify(p, t, G) ==
  LET r == req[p] IN
  /\ r.at = "next" /\ t \in r.left /\ G \in Suggestions(r.docs)
  /\ req' = [req EXCEPT ![p].left = @ \ {t},
       ![p].at = IF r.kind = "batch" /\ G # {} THEN "delete" ELSE "next",
       ![p].on = IF r.kind = "batch" THEN {t} ELSE @,
       ![p].plan = IF r.kind = "batch" THEN {t} \X G ELSE @ \cup ({t} \X G)]
  /\ UNCHANGED <<tags, tx, tagged, rule, model, shared, due, build, hand, excused, lag,
                 started, faults>>

\* The batch has gone through all.
EndBatch(p) ==
  /\ req[p].at = "next" /\ req[p].kind = "batch" /\ req[p].left = {}
  /\ due' = [due EXCEPT !.own = @ + 1]
  /\ Finish(p)
  /\ UNCHANGED <<tags, tx, tagged, rule, model, shared, build, hand, excused, lag, started, faults>>

\* BulkUpsert: one row after the other, each before its tag; a row that is there
\* by now is skipped.
InsertRow(p, t) ==
  LET r == req[p] IN
  /\ r.kind = "import" /\ (r.at = "row" \/ (r.at = "next" /\ r.left = {})) /\ t \in r.on
  /\ IF tx[t].at = "new"
     THEN /\ tx' = [tx EXCEPT ![t].at = "there"]
          /\ req' = [req EXCEPT ![p].at = IF \E d \in r.plan : d[1] = t THEN "tag" ELSE "row",
                                ![p].on = @ \ {t}, ![p].left = {t}]
     ELSE /\ req' = [req EXCEPT ![p].at = "row", ![p].on = @ \ {t}]
          /\ UNCHANGED tx
  /\ UNCHANGED <<tags, tagged, rule, model, shared, due, build, hand, excused, lag, started, faults>>

\* The tag of the row t: refused, with the rest of the file, if the tag or the
\* row is gone; no rebuild follows.
InsertTag(p) ==
  LET new == {d \in req[p].plan : d[1] \in req[p].left} IN
  /\ req[p].at = "tag"
  /\ IF \A d \in new : d[1] \in There /\ d[2] \in tags
     THEN /\ tagged' = tagged \cup new
          /\ excused' = [t \in Txs |-> excused[t] \/ t \in req[p].left]
          /\ req' = [q \in Procs |->
               IF q = p THEN [req[p] EXCEPT !.at = "row"]
               ELSE [req[q] EXCEPT !.alone = @ /\ req[q].on \cap req[p].left = {}]]
          /\ Unlearned(~(new \subseteq tagged))
     ELSE Finish(p) /\ UNCHANGED <<tagged, excused, lag, build>>
  /\ UNCHANGED <<tags, tx, rule, model, shared, due, hand, started, faults>>

EndImport(p) ==
  /\ req[p].at = "row" /\ req[p].on = {}
  /\ Finish(p)
  /\ UNCHANGED <<tags, tx, tagged, rule, model, shared, due, build, hand, excused, lag,
                 started, faults>>

-----------------------------------------------------------------------------
(* RebuildStateForFamily.                                                  *)

\* A goroutine begins.
BeginBuild(b, all) ==
  /\ build[b] = NoBuild
  /\ IF all THEN due.all > 0 /\ due' = [due EXCEPT !.all = @ - 1]
            ELSE due.own > 0 /\ due' = [due EXCEPT !.own = @ - 1]
  /\ build' = [build EXCEPT ![b] = [NoBuild EXCEPT !.at = "read", !.all = all]]
  /\ UNCHANGED <<tags, tx, tagged, rule, model, shared, req, hand, excused, lag, started, faults>>

\* What FindAllTagged finds, less the tags of families when all learn from it.
History(all) == IF all THEN {d \in tagged : d[2] \in SystemTags} ELSE tagged

\* Mutant of TrainedFrom: the tags of the families are learned by all.
TrainedFromWhole(all, G, T) == [known |-> G, docs |-> {d \in tagged : d[1] \in T}]

\* What TrainForFamily learns when it has read the system tags G and the
\* transactions T: of built-in documents those on G; for all, nothing but tags of G.
TrainedFrom(all, G, T) ==
  [known |-> G, docs |-> {d \in History(all) : d[1] \in T /\ (all => d[2] \in G)}]

\* The two reads of TrainForFamily.  A read of tags or of transactions that is cut
\* short, or a failed query for the transactions, is no error: what came in is
\* learned, and stored as if it were all.
Train(b, G, T) ==
  LET all == build[b].all  learned == TrainedFrom(all, G, T)
      cut == learned # Trained(History(all)) IN
  /\ build[b].at = "read"
  /\ build' = [build EXCEPT ![b].docs = learned,
                            ![b].missed = cut,
                            ![b].older = IF all THEN {} ELSE Storing,
                            ![b].at = IF all THEN "find" ELSE "store"]
  /\ Fault(cut)
  /\ UNCHANGED <<tags, tx, tagged, rule, model, shared, due, req, hand, excused, lag,
                 started>>

\* b ends, and B are marked.
Ended(b, mark(_), B) ==
  build' = [c \in Builders |->
    IF c # b THEN [(IF c \in B THEN mark(build[c]) ELSE build[c]) EXCEPT !.older = @ \ {b}]
    ELSE IF b \in Procs THEN [NoBuild EXCEPT !.at = "done", !.docs = build[b].docs]
    ELSE NoBuild]
Overtaken(r) == [r EXCEPT !.overtaken = TRUE]
Missed(r) == [r EXCEPT !.missed = TRUE]

\* The query for the tags fails: nothing is stored.
TrainFails(b) ==
  /\ build[b].at = "read"
  /\ IF build[b].all THEN Ended(b, Missed, {}) /\ UNCHANGED lag
                     ELSE Ended(b, Missed, Storing) /\ lag' = TRUE
  /\ Fault(TRUE)
  /\ UNCHANGED <<tags, tx, tagged, rule, model, shared, due, req, hand, excused, started>>

\* UpsertState of the family; then a goroutine for the shared state.
Store(b) ==
  /\ build[b].at = "store"
  /\ model' = build[b].docs
  /\ lag' = (build[b].overtaken \/ build[b].missed)
  /\ due' = [due EXCEPT !.all = @ + 1]
  /\ Ended(b, Overtaken, build[b].older)
  /\ UNCHANGED <<tags, tx, tagged, rule, shared, req, hand, excused, started, faults>>

StoreFails(b) ==
  /\ build[b].at = "store"
  /\ lag' = (lag \/ ~build[b].overtaken)
  /\ Ended(b, Missed, build[b].older)
  /\ Fault(TRUE)
  /\ UNCHANGED <<tags, tx, tagged, rule, model, shared, due, req, hand, excused, started>>

\* UpsertState for all: SELECT of a row without a family, if there is one.
FindShared(b, i) ==
  /\ build[b].at = "find"
  /\ i \in DOMAIN shared \/ (shared = <<>> /\ i = 0)
  /\ build' = [build EXCEPT ![b].at = "write", ![b].row = i]
  /\ UNCHANGED <<tags, tx, tagged, rule, model, shared, due, req, hand, excused, lag,
                 started, faults>>

\* The UPDATE, or the INSERT, which no key refuses.
WriteShared(b) ==
  LET r == build[b] IN
  /\ r.at = "write"
  /\ shared' = IF r.row = 0 THEN Append(shared, r.docs) ELSE [shared EXCEPT ![r.row] = r.docs]
  /\ build' = [build EXCEPT ![b] = NoBuild]
  /\ UNCHANGED <<tags, tx, tagged, rule, model, due, req, hand, excused, lag, started, faults>>

SharedFails(b) ==
  /\ build[b].at \in {"find", "write"}
  /\ build' = [build EXCEPT ![b] = NoBuild]
  /\ Fault(TRUE)
  /\ UNCHANGED <<tags, tx, tagged, rule, model, shared, due, req, hand, excused, lag,
                 started>>

\* The server stops: no request and no goroutine goes on.
Stop ==
  /\ req' = [p \in Procs |-> Idle]
  /\ build' = [b \in Builders |-> NoBuild]
  /\ due' = [own |-> 0, all |-> 0]
  /\ lag' = TRUE
  /\ Fault(TRUE)
  /\ UNCHANGED <<tags, tx, tagged, rule, model, shared, hand, excused, started>>

Next ==
  \/ \E p \in Procs :
       \/ BeginWrite(p) \/ RollBack(p) \/ Learn(p)
       \/ \E reads \in BOOLEAN : SelectSimilar(p, reads)
       \/ \E heard \in BOOLEAN : CommitWrite(p, heard)
       \/ \E t \in Txs, G \in SUBSET Tags : Update(p, t, G)
       \/ \E t \in Txs, G \in SUBSET Tags, heard \in BOOLEAN : Create(p, t, G, heard)
       \/ \E t \in Txs, g \in Tags, include \in BOOLEAN : ApplySimilar(p, t, g, include)
       \/ \E include \in BOOLEAN, T \in SUBSET Txs : AutoTagBatch(p, include, T)
       \/ \E T \in SUBSET Txs : Import(p, T)
       \/ GetModel(p) \/ BuildNow(p) \/ Adopt(p) \/ Await(p)
       \/ \E i \in 0 .. Len(shared) : Inherit(p, i)
       \/ \E t \in Txs, G \in SUBSET Tags : Classify(p, t, G)
       \/ \E t \in Txs : InsertRow(p, t)
       \/ EndBatch(p) \/ InsertTag(p) \/ EndImport(p)
  \/ \E t \in Txs : DeleteTx(t)
  \/ \E g \in Tags : DeleteTag(g) \/ CreateRule(g)
  \/ DeleteRule
  \/ \E b \in Slots, all \in BOOLEAN : BeginBuild(b, all)
  \/ \E b \in Builders :
       \/ \E G \in SUBSET SystemTags, T \in SUBSET Txs : Train(b, G, T)
       \/ TrainFails(b) \/ Store(b) \/ StoreFails(b)
       \/ \E i \in 0 .. Len(shared) : FindShared(b, i)
       \/ WriteShared(b) \/ SharedFails(b)
  \/ Stop

Spec == Init /\ [][Next]_vars

-----------------------------------------------------------------------------
(* Properties.                                                             *)

\* Tables, requests and rebuilds are well typed; a tag in use exists, on a
\* transaction that exists.
TypeOK ==
  /\ tags \subseteq Tags
  /\ tx \in [Txs -> [at : {"new", "there", "gone"}, manual : BOOLEAN]]
  /\ tagged \subseteq There \X tags
  /\ rule \in tags \cup {NoTag}
  /\ model \in Model
  /\ shared \in Seq(Model)
  /\ due \in [own : Nat, all : Nat]
  /\ build \in [Builders -> Build]
  /\ req \in [Procs -> Request]
  /\ hand \in [Txs -> SUBSET Tags]
  /\ excused \in [Txs -> BOOLEAN] /\ lag \in BOOLEAN /\ started \in Nat /\ faults \in Nat

\* The tags given by hand stay, less those that are deleted: unless a write of
\* the same transaction overlapped, a batch or ApplySimilar was told to include
\* what is tagged by hand, or had chosen the transaction before.  A transaction
\* all whose tags were taken away or deleted gets new ones from the batch
\* (internal/repository/transaction.go:212-269, 481-510, 557-594).
HandKept ==
  \A t \in There :
    hand[t] \cap tags # {} /\ ~excused[t] => TagsOf(t) = hand[t] \cap tags

\* When nothing is under way, the family's classifier has learned the tags there
\* are: unless a rebuild that read earlier stored last, one failed or had its
\* reads cut short, the server stopped, or the last change starts none: an import,
\* a deleted transaction or tag, the state inherited when the family's could not be
\* read (internal/classifier/trainer.go:16-79, 117-153).
CaughtUp ==
  (/\ ~lag /\ due.own = 0
   /\ \A p \in Procs : req[p] = Idle
   /\ \A b \in Builders : build[b].at = "idle" \/ build[b].all)
  => model = Trained(tagged)

\* A new family begins with a pretrained classifier, the shared one's copy
\* (documentation/ai_classifier.md:43, internal/classifier/trainer.go:95-101): as
\* long as nothing has failed, no request classifies with an empty one.
\* GetModel breaks it: it takes the missing row for an empty state.
NewFamilyPretrained ==
  \A p \in Procs : faults = 0 /\ req[p].at = "next" => req[p].docs # NoModel

\* What all families share holds no tag of one ("anti-poisoning",
\* internal/classifier/trainer.go:13-79), whichever family is rebuilt meanwhile.
SharedPure == \A i \in DOMAIN shared : \A d \in shared[i].docs : d[2] \in SystemTags

\* However many rebuilds have looked for the row that all share and found none,
\* it exists no more often than rebuilds run at once
\* (internal/repository/classifier_state.go:97-116).
SharedOnceUnlessOverlap == Len(shared) <= Cardinality(Slots)

\* What overlapping rebuilds leave without a family is for all families: no tag
\* of one, and no row beyond those that overlapped.
SharedSound == SharedPure /\ SharedOnceUnlessOverlap
=============================================================================
