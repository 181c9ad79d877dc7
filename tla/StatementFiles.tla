--------------------------- MODULE StatementFiles ---------------------------
(***************************************************************************)
(* What identifies a bank movement from one statement file to the next     *)
(* (internal/csvparser/parser.go, internal/ofxparser/parser.go): the bank  *)
(* books movements, the customer exports the days from .. to and uploads   *)
(* the file, and rows whose FITID is known are skipped.                    *)
(*                                                                         *)
(* A CSV line of Inter, Flash and Bradesco has no identifier but shows the *)
(* balance; one of Nubank has the bank's identifier, or an empty field.    *)
(* OFX always has the identifier.  The bank itself, its order and its      *)
(* balance are external.  A file has whole days.                           *)
(***************************************************************************)
EXTENDS Integers, Sequences, FiniteSets, SequencesExt

CONSTANTS
  Layouts,          \* the formats the bank exports, a subset of AllLayouts
  Days, Amounts,    \* Amounts has 0: the bank's line of the opening balance
  MaxMovements, MaxUploads   \* bounds of the model

AllLayouts == {"balance", "ident", "noIdent", "ofx"}

ASSUME FilesAssumption ==
  /\ Layouts \subseteq AllLayouts
  /\ Days \subseteq Nat /\ Amounts \subseteq Int
  /\ MaxMovements \in Nat /\ MaxUploads \in Nat

VARIABLES
  ledger,    \* the bank's movements of the account, in its order
  books,     \* the rows of transactions
  uploads,   \* how many files were uploaded
  covered,   \* history: the movements that an uploaded file has shown
  shifted    \* history: days in the books before which something was booked later

filesVars == <<ledger, books, uploads, covered, shifted>>

Movement == [id : 1..MaxMovements, day : Days, amount : Amounts]

FilesInit == ledger = <<>> /\ books = {} /\ uploads = 0 /\ covered = {} /\ shifted = {}

-----------------------------------------------------------------------------
(* The bank.                                                               *)

Total(ms) == FoldLeft(LAMBDA sum, m : sum + m.amount, 0, ms)

BalanceAt(i) == Total(SubSeq(ledger, 1, i))

\* A new movement, behind those of its day: it may be dated back.
BookMovement(d, x) ==
  LET m == [id |-> Len(ledger) + 1, day |-> d, amount |-> x]
      i == Cardinality({j \in DOMAIN ledger : ledger[j].day <= d}) + 1
  IN
  /\ Len(ledger) < MaxMovements
  /\ x # 0
  /\ ledger' = InsertAt(ledger, i, m)
  /\ shifted' = shifted \cup {t.day : t \in {row \in books : row.day > d}}
  /\ UNCHANGED <<books, uploads, covered>>

Within(from, to) == {i \in DOMAIN ledger : ledger[i].day \in from..to}

\* A line is one of the table, or text: what precedes the header, the header
\* and what follows the table.
Text == [is |-> "text"]
Header(layout) == [is |-> "header", layout |-> layout]
Line(i) ==
  [is |-> "movement", day |-> ledger[i].day, amount |-> ledger[i].amount,
   id |-> ledger[i].id, balance |-> BalanceAt(i)]
Opening(d) ==
  [is |-> "movement", day |-> d, amount |-> 0, id |-> 0,
   balance |-> BalanceAt(Cardinality(Within(0, d - 1)))]

Export(layout, from, to) ==
  <<Text, Header(layout)>>
    \o (IF layout = "ofx" THEN <<>> ELSE <<Opening(from)>>)
    \o [k \in 1..Cardinality(Within(from, to)) |-> Line(k + Cardinality(Within(0, from - 1)))]
    \o <<Text, Header(layout)>>

-----------------------------------------------------------------------------
(* The parsers.                                                            *)

\* What a line shows in a layout, and so what is hashed.
Shows(layout, l) ==
  [day |-> l.day, amount |-> l.amount,
   balance |-> IF layout = "balance" THEN l.balance ELSE 0]

\* The line where the table begins: the first that is a known header.
HeaderAt(file) == SelectInSeq(file, LAMBDA l : l.is = "header")

BelowHeader(file) == SubSeq(file, HeaderAt(file) + 1, Len(file))

\* Mutant of TableOf: the amount is not looked at.
TableWithOpening(layout, file) ==
  FoldLeft(LAMBDA lines, l : IF l.is = "movement" THEN Append(lines, l) ELSE lines,
           <<>>, BelowHeader(file))

\* The lines with a date and, in CSV, an amount other than 0: neither the text
\* below the table, with its header again, nor the opening balance.
TableOf(layout, file) ==
  FoldLeft(LAMBDA lines, l : IF l.is = "movement" /\ (l.amount # 0 \/ layout = "ofx")
                             THEN Append(lines, l) ELSE lines,
           <<>>, BelowHeader(file))

\* Mutant of Occurrence: equal lines are not told apart.
OccurrenceOnce(layout, lines, i) == 1

\* seen[base]: the how-manieth of equal lines in the file.
Occurrence(layout, lines, i) ==
  Cardinality({j \in 1..i : Shows(layout, lines[j]) = Shows(layout, lines[i])})

\* The FITID: the bank's, or else the hash of the line and its occurrence.
FitId(layout, lines, i) ==
  IF layout \in {"ident", "ofx"}
  THEN [kind |-> layout, id |-> lines[i].id]
  ELSE [kind |-> layout, line |-> Shows(layout, lines[i]),
        nth |-> Occurrence(layout, lines, i)]

\* The transactions of a file.
Parse(file) ==
  LET layout == file[HeaderAt(file)].layout
      lines == TableOf(layout, file)
  IN [i \in DOMAIN lines |->
       [fitid |-> FitId(layout, lines, i), day |-> lines[i].day, amount |-> lines[i].amount]]

-----------------------------------------------------------------------------
(* Import: BulkUpsert skips what it knows by its FITID.                    *)

BulkUpsert(rows, t) == IF \E r \in rows : r.fitid = t.fitid THEN rows ELSE rows \cup {t}

Upload(layout, from, to) ==
  /\ uploads < MaxUploads
  /\ from <= to
  /\ books' = FoldLeft(BulkUpsert, books, Parse(Export(layout, from, to)))
  /\ uploads' = uploads + 1
  /\ covered' = covered \cup {ledger[i] : i \in Within(from, to)}
  /\ UNCHANGED <<ledger, shifted>>

FilesNext ==
  \/ \E d \in Days, x \in Amounts : BookMovement(d, x)
  \/ \E layout \in Layouts, from \in Days, to \in Days : Upload(layout, from, to)

FilesSpec == FilesInit /\ [][FilesNext]_filesVars

-----------------------------------------------------------------------------
(* Properties.                                                             *)

Alike(S, d, x) == {m \in S : m.day = d /\ m.amount = x}

\* The bank's movements and the rows are well typed; none is the opening balance.
FilesTypeOK ==
  /\ ledger \in Seq(Movement) /\ covered \subseteq ToSet(ledger)
  /\ \A r \in books : r.day \in Days /\ r.amount \in Amounts \ {0} /\ r.fitid.kind \in Layouts
  /\ uploads \in Nat /\ shifted \subseteq Days

\* Nothing is left out: of equal movements that a file has shown there are at
\* least as many rows as movements, equal lines of one file included
\* (internal/csvparser/parser.go:83, "recebem FITIDs distintos").
NothingMissing ==
  \A d \in Days, x \in Amounts :
    Cardinality(Alike(books, d, x)) >= Cardinality(Alike(covered, d, x))

\* Nothing is in the books twice, however the files overlap: of equal movements
\* there are no more rows than the bank has booked.  It takes the balance in the
\* line and a later booking before it to change a FITID, or files of two formats
\* (README.md:167, internal/csvparser/parser.go:97-103).
NothingTwice ==
  \A d \in Days, x \in Amounts :
    LET rows == Alike(books, d, x)  kinds == {r.fitid.kind : r \in rows} IN
    Cardinality(rows) > Cardinality(Alike(ToSet(ledger), d, x))
      => Cardinality(kinds) > 1 \/ (kinds = {"balance"} /\ d \in shifted)

\* A movement that a file has shown is in the books once, whatever files overlap
\* (internal/csvparser/parser.go:83-103, README.md:167).
EachMovementOnce == NothingMissing /\ NothingTwice
=============================================================================
