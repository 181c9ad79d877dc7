----------------------------- MODULE NaiveBayes -----------------------------
(***************************************************************************)
(* The classifier of a family as an algorithm                              *)
(* (internal/classifier/classifier.go): Train keeps counts, Classify scans *)
(* the classes in the order of a Go map, which is any order, keeping the   *)
(* best and the second best, and abstains when the two are close.          *)
(*                                                                         *)
(* A score is a fraction: the logarithms and their sums of the code are    *)
(* compared as products, exactly, and the margin of 0.1 between logarithms *)
(* as the factor e^0.1 between scores.  Which words stripAccents, the stop *)
(* words and the minimal length leave of a text is the set Noise.          *)
(***************************************************************************)
EXTENDS Naturals, Sequences, FiniteSets, SequencesExt

CONSTANTS
  Words, Noise,       \* words of texts; those that Tokenize leaves out
  Classes, NoClass,   \* tags
  MaxText, MaxDocs    \* bounds of the model

ASSUME ClassifierAssumption ==
  /\ Noise \subseteq Words /\ NoClass \notin Classes
  /\ MaxText \in Nat /\ MaxDocs \in Nat

VARIABLES
  stats,    \* the Classifier
  docs,     \* history: the texts it was trained with, and their classes
  scan      \* a call of Classify, if one is under way

bayesVars == <<stats, docs, scan>>

Texts == SeqOf(Words, MaxText)

\* ClassDocs has the classes that occur; a count that is not in a map reads as 0.
Untrained == [totalDocs |-> 0, classDocs |-> [c \in Classes |-> 0],
              wordCounts |-> [c \in Classes |-> [w \in Words |-> 0]],
              totalWords |-> [c \in Classes |-> 0], vocabulary |-> {}]

\* scan: the words, the classes to come, the best two so far.
NoScan == [at |-> "idle", words |-> <<>>, left |-> {}, best |-> NoClass, second |-> NoClass,
           answer |-> NoClass]

BayesInit == stats = Untrained /\ docs = <<>> /\ scan = NoScan

Tokenize(text) ==
  FoldLeft(LAMBDA words, w : IF w \in Noise THEN words ELSE Append(words, w), <<>>, text)

Occurrences(w, words) == Cardinality({i \in DOMAIN words : words[i] = w})

-----------------------------------------------------------------------------
(* Train.                                                                  *)

CountWords(c, words) == Len(words)

CountText(c, words) ==
  [totalDocs |-> stats.totalDocs + 1,
   classDocs |-> [stats.classDocs EXCEPT ![c] = @ + 1],
   wordCounts |-> [stats.wordCounts EXCEPT
                     ![c] = [w \in Words |-> @[w] + Occurrences(w, words)]],
   totalWords |-> [stats.totalWords EXCEPT ![c] = @ + CountWords(c, words)],
   vocabulary |-> stats.vocabulary \cup ToSet(words)]

TrainText(text, c) ==
  LET words == Tokenize(text) IN
  /\ Len(docs) < MaxDocs /\ scan.at = "idle"
  /\ docs' = Append(docs, [words |-> words, class |-> c])
  /\ stats' = IF words = <<>> THEN stats ELSE CountText(c, words)
  /\ UNCHANGED scan

-----------------------------------------------------------------------------
(* Classify.                                                               *)

Known == {c \in Classes : stats.classDocs[c] > 0}

Product(s) == FoldLeft(LAMBDA n, x : n * x, 1, s)

\* The prior times the smoothed frequency of each word, as a fraction.
Score(c, words) ==
  [num |-> stats.classDocs[c]
             * Product([i \in DOMAIN words |-> stats.wordCounts[c][words[i]] + 1]),
   den |-> stats.totalDocs
             * Product([i \in DOMAIN words |->
                         stats.totalWords[c] + Cardinality(stats.vocabulary)])]

Above(a, b) == a.num * b.den > b.num * a.den

\* By the margin, e^0.1 = 1.10517...
WellAbove(a, b) == 100000 * (a.num * b.den) >= 110517 * (b.num * a.den)

\* Nothing known of the text: no tag.  Otherwise the scan begins.
BeginScan(text) ==
  LET words == Tokenize(text) IN
  /\ scan.at = "idle" /\ Len(docs) = MaxDocs
  /\ scan' = [NoScan EXCEPT !.words = words,
                !.at = IF Known = {} \/ ToSet(words) \cap stats.vocabulary = {}
                       THEN "done" ELSE "scan",
                !.left = Known]
  /\ UNCHANGED <<stats, docs>>

Beats(c, d) == d = NoClass \/ Above(Score(c, scan.words), Score(d, scan.words))

\* Mutant of Rank: the second best is only whoever was best before.
RankBest(c) ==
  IF Beats(c, scan.best) THEN [scan EXCEPT !.best = c, !.second = scan.best] ELSE scan

\* One class of the loop.
Rank(c) ==
  IF Beats(c, scan.best) THEN [scan EXCEPT !.best = c, !.second = scan.best]
  ELSE IF Beats(c, scan.second) THEN [scan EXCEPT !.second = c]
  ELSE scan

ScanClass(c) ==
  /\ scan.at = "scan" /\ c \in scan.left
  /\ scan' = [Rank(c) EXCEPT !.left = @ \ {c}]
  /\ UNCHANGED <<stats, docs>>

\* The tag, if it is the only one or far enough above the second.
Decide ==
  /\ scan.at = "scan" /\ scan.left = {}
  /\ scan' = [scan EXCEPT !.at = "done",
       !.answer = IF \/ Cardinality(Known) = 1
                     \/ scan.second = NoClass
                     \/ WellAbove(Score(scan.best, scan.words), Score(scan.second, scan.words))
                  THEN scan.best ELSE NoClass]
  /\ UNCHANGED <<stats, docs>>

BayesNext ==
  \/ \E text \in Texts, c \in Classes : TrainText(text, c)
  \/ \E text \in Texts : BeginScan(text)
  \/ \E c \in Classes : ScanClass(c)
  \/ Decide

BayesSpec == BayesInit /\ [][BayesNext]_bayesVars

-----------------------------------------------------------------------------
(* Properties.                                                             *)

\* The texts that have words left, of a class, and where the words of a class are.
Learned == {i \in DOMAIN docs : docs[i].words # <<>>}
TextsOf(c) == {i \in Learned : docs[i].class = c}
Places(c) == UNION {{<<i, j>> : j \in DOMAIN docs[i].words} : i \in TextsOf(c)}

Vocabulary == UNION {ToSet(docs[i].words) : i \in DOMAIN docs}

Frequency(c, w) == Cardinality({p \in Places(c) : docs[p[1]].words[p[2]] = w})

\* The definition of naive Bayes with add-one smoothing over those texts.
BayesScore(c, words) ==
  [num |-> Cardinality(TextsOf(c)) * Product([i \in DOMAIN words |-> Frequency(c, words[i]) + 1]),
   den |-> Cardinality(Learned)
             * Product([i \in DOMAIN words |-> Cardinality(Places(c)) + Cardinality(Vocabulary)])]

\* Classify answers a class exactly when the definition puts it above every other
\* one by the margin, and the text has a known word: whatever order the texts were
\* learned in and the map is scanned in, with words and texts of which nothing is
\* left, and without a class of which nothing was learned
\* (internal/classifier/classifier.go:199-287).
BestByMargin ==
  scan.at = "done" =>
    LET learned == {c \in Classes : TextsOf(c) # {}}
        right == {c \in learned : \A d \in learned \ {c} :
                    WellAbove(BayesScore(c, scan.words), BayesScore(d, scan.words))}
    IN IF ToSet(scan.words) \cap Vocabulary = {}
       THEN scan.answer = NoClass
       ELSE right = IF scan.answer = NoClass THEN {} ELSE {scan.answer}
=============================================================================
