----------------------------- MODULE LegacyTable -----------------------------
(***************************************************************************)
(* The reading of an ownership filing that has no ownershipDocument XML    *)
(* (sec/parser.py): an HTMLParser with three variables, the current row,   *)
(* the current cell and a count of open cells, collects the rows of all    *)
(* tables; the rows between the headings of Table I and Table II are the   *)
(* transactions.                                                           *)
(*                                                                         *)
(* The filing is any HTML of tables, rows and cells, generated token by    *)
(* token: a cell may hold a table, and the end tags </td> and </tr> may be *)
(* omitted, as HTML allows.  `tables` is how a browser reads it.  A row is *)
(* looked at by _parse_legacy_transactions when it is recorded: the code   *)
(* does so after the last token, in the same order.                        *)
(*                                                                         *)
(* Of a piece of text the code sees which phrases are in it: a heading has *)
(* two of them, and so may a footnote, or several cells of a row together. *)
(***************************************************************************)
EXTENDS Integers, Sequences, FiniteSets, FiniteSetsExt, SequencesExt

CONSTANTS
    None,
    Text, Phrases,              \* pieces of text, and the phrases in each
    Date, HeadingI, HeadingII,  \* a date, and the headings of Table I and of Table II
    MinCells, DateAt, CodeAt,   \* 8 cells, row[1] and row[3]: 8, 2 and 4 here
    MaxTokens, MaxNesting,      \* bounds of the filing
    MaxCells                    \* bound: the cells of a row

VARIABLES
    row, cell, depth,           \* _current_row, _current_cell, _cell_depth
    section,                    \* of _parse_legacy_transactions
    taken,                      \* it has given an ordinal to the last row
    tables,                     \* the open tables, the innermost last
    tokens,                     \* how many tokens have been read
    fresh,                      \* no row has been opened since the last </tr>
    closed,                     \* the row that the last token has closed, or None,
    recorded,                   \* and what it has appended to the rows, or None
    plain,                      \* so far nothing is omitted or nested
    heading, meant,             \* section and taken by a reader of the tables
    misled                      \* a row that is not a heading reads like one, and none came since

parser == <<row, cell, depth>>
reading == <<section, taken, heading, meant, misled>>
legacyVars == <<row, cell, depth, tables, tokens, fresh, closed, recorded, plain, reading>>

ASSUME LegacyTableAssumption ==
    /\ MinCells \in Nat \ {0}
    /\ DateAt \in 1..MinCells /\ CodeAt \in 1..MinCells

ASSUME TextAssumption ==
    /\ {Date, HeadingI, HeadingII} \subseteq Text
    /\ Phrases \in [Text -> SUBSET {"Table I", "Table II", "Non-Derivative", "Derivative"}]
    /\ {"Table I", "Non-Derivative"} \subseteq Phrases[HeadingI]
    /\ {"Table II", "Derivative"} \subseteq Phrases[HeadingII]

ASSUME NoneIsNoSequence == None \notin Seq(Text) /\ None \notin Seq(Seq(Text))

\* The text of a row is that of its cells, each a sequence of pieces.
TextsOf(cells) == UNION {Range(cells[i]) : i \in DOMAIN cells}
Says(cells, phrase) == \E t \in TextsOf(cells) : phrase \in Phrases[t]

----------------------------------------------------------------------------
(* Plausible mistakes, for the tests of the properties                     *)

\* "Table I" alone is the heading; it also begins the one of Table II.
Section_LooseHeading(cells, current) ==
    IF Says(cells, "Table I") THEN "non_derivative"
    ELSE IF Says(cells, "Table II") THEN "derivative"
    ELSE current

\* A cell is recorded at its end tag, however deep.
EndCell_AnyDepth ==
    IF row # None /\ cell # None
    THEN /\ row' = Append(row, cell)
         /\ cell' = None
         /\ depth' = Max({0, depth - 1})
    ELSE UNCHANGED parser

\* The end of a row leaves the count of open cells as it is.
EndRow_KeepsDepth ==
    /\ row' = None
    /\ cell' = None
    /\ UNCHANGED depth

----------------------------------------------------------------------------
(* _LegacyHTMLTableParser: its handlers                                    *)

StartRow == row' = <<>> /\ UNCHANGED <<cell, depth>>

StartCell ==
    IF row # None
    THEN cell' = <<>> /\ depth' = depth + 1 /\ UNCHANGED row
    ELSE UNCHANGED parser

EndCell ==
    IF row # None /\ cell # None
    THEN /\ depth' = Max({0, depth - 1})
         /\ IF depth' = 0 THEN row' = Append(row, cell) /\ cell' = None
                          ELSE UNCHANGED <<row, cell>>
    ELSE UNCHANGED parser

EndRow ==
    IF row # None THEN row' = None /\ cell' = None /\ depth' = 0
                  ELSE UNCHANGED parser

\* What </tr> appends to the rows: a row with some text.
RecordedAtEnd == IF row # None /\ TextsOf(row) # {} THEN row ELSE None

Data(t) ==
    IF cell # None THEN cell' = Append(cell, t) /\ UNCHANGED <<row, depth>>
                   ELSE UNCHANGED parser

----------------------------------------------------------------------------
(* _parse_legacy_transactions                                              *)

Section(cells, current) ==
    IF Says(cells, "Table I") /\ Says(cells, "Non-Derivative") THEN "non_derivative"
    ELSE IF Says(cells, "Table II") /\ Says(cells, "Derivative") THEN "derivative"
    ELSE current

IsHeading(cells) ==
    \/ Says(cells, "Table I") /\ Says(cells, "Non-Derivative")
    \/ Says(cells, "Table II") /\ Says(cells, "Derivative")

\* A date in its column, and a letter in that of the code.
IsTransaction(cells) ==
    /\ Len(cells) >= MinCells
    /\ Date \in Range(cells[DateAt])
    /\ Range(cells[CodeAt]) \ {Date} # {}

\* _legacy_date: the year that a date of the table means in a filing of the year
\* `filed`; one of two digits is of the century of the filing, or of the last.
LegacyYear(year, filed) ==
    IF year >= 100 THEN year
    ELSE LET inCentury == year + (filed \div 100) * 100
         IN  IF inCentury > filed + 20 THEN inCentury - 100 ELSE inCentury

\* What the row, if there is one, does.
Take(cells) ==
    IF cells = None THEN taken' = FALSE /\ UNCHANGED section
    ELSE /\ section' = Section(cells, section)
         /\ taken' = (~IsHeading(cells) /\ section = "non_derivative" /\ IsTransaction(cells))

----------------------------------------------------------------------------
(* The tokens of the filing, and what a browser makes of them              *)

Top == Last(tables)
SetTop(frame) == tables' = [tables EXCEPT ![Len(tables)] = frame]

InRow == tables # <<>> /\ Top.cells # None
InCell == InRow /\ Top.cell # None

Token ==
    /\ tokens < MaxTokens
    /\ tokens' = tokens + 1

\* The token closes no row.
NoRowEnds == closed' = None /\ recorded' = None /\ UNCHANGED reading

\* The row of the innermost table, its last cell included if it is still open.
RowCells == IF Top.cell = None THEN Top.cells ELSE Append(Top.cells, Top.cell)

OpenTable ==
    /\ Token /\ NoRowEnds
    /\ tables = <<>> \/ (InCell /\ Len(tables) < MaxNesting)
    /\ LET outer == IF tables = <<>> THEN <<>> ELSE [tables EXCEPT ![Len(tables)].whole = FALSE]
       IN  tables' = Append(outer, [cells |-> None, cell |-> None, due |-> FALSE, whole |-> FALSE, spoilt |-> FALSE])
    /\ plain' = (plain /\ tables = <<>>)
    /\ UNCHANGED <<parser, fresh>>

\* The parser sees no </table>.  A row left open in a table within a cell is
\* still its current row when the rest of the row outside comes.
CloseTable ==
    /\ Token /\ NoRowEnds
    /\ tables # <<>>
    /\ tables' = IF Len(tables) = 1 THEN <<>>
                 ELSE [Front(tables) EXCEPT ![Len(tables) - 1].spoilt = @ \/ InRow]
    /\ plain' = (plain /\ ~InRow)
    /\ UNCHANGED <<parser, fresh>>

\* <tr>, which ends a row that is still open in the same table.
OpenRow ==
    /\ Token /\ NoRowEnds
    /\ tables # <<>>
    /\ SetTop([cells |-> <<>>, cell |-> None, due |-> fresh, whole |-> TRUE, spoilt |-> FALSE])
    /\ StartRow
    /\ plain' = (plain /\ ~InRow)
    /\ fresh' = FALSE

\* <td> or <th>, which ends a cell that is still open in the same row.
OpenCell ==
    /\ Token /\ NoRowEnds
    /\ InRow /\ Len(RowCells) < MaxCells
    /\ SetTop([Top EXCEPT !.cells = RowCells, !.cell = <<>>, !.whole = @ /\ ~InCell])
    /\ StartCell
    /\ plain' = (plain /\ ~InCell)
    /\ UNCHANGED fresh

WriteText ==
    /\ Token /\ NoRowEnds
    /\ InCell /\ Top.cell = <<>>
    /\ \E t \in Text : SetTop([Top EXCEPT !.cell = <<t>>]) /\ Data(t)
    /\ UNCHANGED <<plain, fresh>>

CloseCell ==
    /\ Token /\ NoRowEnds
    /\ InCell
    /\ SetTop([Top EXCEPT !.cells = RowCells, !.cell = None])
    /\ EndCell
    /\ UNCHANGED <<plain, fresh>>

\* The row has the phrases of a heading that it does not have.
Misleading(cells) ==
    \/ IsHeading(cells) /\ {HeadingI, HeadingII} \cap TextsOf(cells) = {}
    \/ HeadingII \in TextsOf(cells) /\ Says(cells, "Table I") /\ Says(cells, "Non-Derivative")

\* What a reader takes the row for.
Read(cells) ==
    /\ heading' = IF HeadingI \in TextsOf(cells) THEN "non_derivative"
                  ELSE IF HeadingII \in TextsOf(cells) THEN "derivative"
                  ELSE heading
    /\ meant' = (heading' = "non_derivative" /\ HeadingI \notin TextsOf(cells) /\ IsTransaction(cells))
    /\ misled' = (Misleading(cells) \/ (misled /\ {HeadingI, HeadingII} \cap TextsOf(cells) = {}))

\* </tr>, after the cells of the row or with the last of them still open.
CloseRow ==
    /\ Token
    /\ InRow
    /\ SetTop([Top EXCEPT !.cells = None, !.cell = None])
    /\ closed' = [cells |-> RowCells, due |-> Top.due /\ Top.whole /\ ~InCell, spoilt |-> Top.spoilt]
    /\ recorded' = RecordedAtEnd
    /\ Take(recorded')
    /\ EndRow
    /\ fresh' = TRUE
    /\ plain' = (plain /\ ~InCell)
    /\ Read(RowCells)

LegacyInit ==
    /\ row = None /\ cell = None /\ depth = 0
    /\ section = "none" /\ taken = FALSE
    /\ tables = <<>> /\ tokens = 0
    /\ fresh = TRUE /\ closed = None /\ recorded = None
    /\ plain = TRUE /\ heading = "none" /\ meant = FALSE /\ misled = FALSE

LegacyNext ==
    OpenTable \/ CloseTable \/ OpenRow \/ OpenCell \/ WriteText \/ CloseCell \/ CloseRow

LegacySpec == LegacyInit /\ [][LegacyNext]_legacyVars

----------------------------------------------------------------------------
(* Properties                                                              *)

\* The cells of a recorded row are the first cells of one row of the filing, each
\* with its own text, so that the columns of a transaction are not shifted into
\* one another: unless the row holds a table whose last row has no end tag.
Aligned ==
    (recorded # None /\ ~closed.spoilt) => IsPrefix(recorded, closed.cells)

\* After any row that has its end tag the parser is back in step, whatever came
\* before it: the next row that has all its end tags and holds no table is recorded
\* with all its cells, if it has any text.
InStepAfterRow ==
    (closed # None /\ closed.due /\ TextsOf(closed.cells) # {}) => recorded = closed.cells

\* A filing whose tables are written out in full is read as its reader does: the
\* transactions are the rows below the heading of Table I and above that of Table
\* II, with rows between them that have no text, or some of the phrases of a heading
\* but not both.  A row that has both without being a heading, such as a footnote
\* about a derivative security of Table II, is taken for one; what follows is read
\* as meant again from the next heading on.
ReadAsWritten == plain /\ ~misled => section = heading /\ taken = meant
=============================================================================
