------------------------- MODULE LegacyTableProofs --------------------------
(***************************************************************************)
(* Theorems about LegacyTable, for filings of any length, with tables      *)
(* nested to any depth, rows of any width and any columns: what the parser *)
(* records of a row, and what it takes for a transaction.  And what a year *)
(* of two digits is taken for, in a filing of any year.                    *)
(***************************************************************************)
EXTENDS LegacyTable, SequenceTheorems, TLAPS

Cell == Seq(Text)
Row == Seq(Cell)
Frame == [cells : Row \cup {None}, cell : Cell \cup {None},
          due : BOOLEAN, whole : BOOLEAN, spoilt : BOOLEAN]

TypeInv ==
    /\ row \in Row \cup {None}
    /\ cell \in Cell \cup {None}
    /\ depth \in Nat
    /\ tables \in Seq(Frame)
    /\ tokens \in Nat /\ fresh \in BOOLEAN
    /\ \A i \in DOMAIN tables :
          /\ tables[i].cells = None => tables[i].cell = None
          /\ i < Len(tables) => tables[i].cells # None

\* The parser has a cell as long as it counts open cells, and only in a row.
ShapeInv ==
    /\ cell = None <=> depth = 0
    /\ row = None => cell = None
    /\ fresh => row = None

----------------------------------------------------------------------------
(* The year                                                                *)

\* A transaction of the last eighty years is given its year again, whether it is
\* written with two digits or with four (_legacy_date).
THEOREM YearRecovered ==
    ASSUME NEW filed \in Nat, NEW year \in Nat, 100 <= year, filed - 79 <= year, year <= filed
    PROVE  LegacyYear(year, filed) = year /\ LegacyYear(year % 100, filed) = year
<1>1. LegacyYear(year, filed) = year
    BY DEF LegacyYear
<1>2. /\ year % 100 \in 0..99
      /\ year = 100 * (year \div 100) + (year % 100) /\ year \div 100 \in Nat
      /\ filed = 100 * (filed \div 100) + (filed % 100) /\ filed \div 100 \in Nat
      /\ filed % 100 \in 0..99
    OBVIOUS
<1>3. year \div 100 = filed \div 100 \/ year \div 100 = (filed \div 100) - 1
    BY <1>2
<1>4. LegacyYear(year % 100, filed) = year
    BY <1>2, <1>3 DEF LegacyYear
<1>5. QED
    BY <1>1, <1>4

----------------------------------------------------------------------------
(* Parser and reader                                                       *)

\* Parser and reader agree on the row of a frame.
Sync(f) == row = f.cells /\ cell = f.cell /\ depth = IF f.cell = None THEN 0 ELSE 1

\* The cells of which the parser has not seen the end.
Missed(f) == IF f.cell = None THEN depth ELSE depth - 1

FirstCells(r, cells) == Len(r) <= Len(cells) /\ \A i \in 1..Len(r) : r[i] = cells[i]

\* The parser follows the row of a frame, or it has missed the end of a cell and
\* records no more of it.
Follows(f) ==
    row # None =>
        /\ Missed(f) \in Nat
        /\ FirstCells(row, f.cells)
        /\ Missed(f) = 0 => Sync(f)

\* A row that follows a recorded one, and has its end tags so far, is agreed on.
SyncInv ==
    \A i \in DOMAIN tables :
        /\ i = Len(tables) /\ tables[i].due /\ tables[i].whole => Sync(tables[i])
        /\ i < Len(tables) => ~tables[i].whole

\* No row is open in the tables within this one.
Innermost(i) == \A j \in DOMAIN tables : j > i => tables[j].cells = None

\* The innermost row is followed, unless a row within it has been left open.
FollowInv ==
    \A i \in DOMAIN tables :
        (tables[i].cells # None /\ ~tables[i].spoilt /\ Innermost(i)) => Follows(tables[i])

\* The code takes the last row for what it is, and will take the next one.
Agreed == ~misled => section = heading /\ taken = meant

PlainInv ==
    plain =>
        /\ Len(tables) <= 1
        /\ tables = <<>> => row = None
        /\ \A i \in DOMAIN tables : Sync(tables[i])
        /\ Agreed

\* What the row that was closed last was recorded as.
ClosedInv ==
    /\ recorded # None => closed.cells \in Row
    /\ recorded # None /\ ~closed.spoilt => recorded \in Row /\ FirstCells(recorded, closed.cells)
    /\ InStepAfterRow

Inv == TypeInv /\ ShapeInv /\ SyncInv /\ FollowInv /\ PlainInv /\ ClosedInv

LEMMA InitInv == LegacyInit => Inv
<1> SUFFICES ASSUME LegacyInit PROVE Inv
    OBVIOUS
<1>1. Agreed => PlainInv
    BY DEF LegacyInit, PlainInv
<1>2. Agreed
    <2>1. section = "none" /\ heading = "none" /\ taken = FALSE /\ meant = FALSE
        BY DEF LegacyInit
    <2>2. taken = meant
        BY <2>1, Zenon
    <2>3. QED
        BY <2>1, <2>2, Zenon DEF Agreed
<1>3. TypeInv /\ ShapeInv /\ SyncInv /\ FollowInv /\ ClosedInv
    BY NoneIsNoSequence DEF LegacyInit, TypeInv, ShapeInv, SyncInv, FollowInv, ClosedInv, InStepAfterRow, Cell, Row
<1>4. QED
    BY <1>1, <1>2, <1>3 DEF Inv

LEMMA MaxOfZero ==
    ASSUME NEW n \in Nat
    PROVE  Max({0, n - 1}) = IF n = 0 THEN 0 ELSE n - 1
<1>1. CASE n = 0
    BY <1>1 DEF Max
<1>2. CASE n # 0
    BY <1>2 DEF Max
<1>3. QED
    BY <1>1, <1>2

LEMMA SequencesAreNotNone ==
    /\ \A c \in Cell : c # None
    /\ \A r \in Row : r # None
    /\ <<>> \in Cell /\ <<>> \in Row
BY NoneIsNoSequence DEF Cell, Row

LEMMA DomainOf ==
    ASSUME NEW S, NEW s \in Seq(S)
    PROVE  Len(s) \in Nat /\ DOMAIN s = 1..Len(s)
OBVIOUS

LEMMA Replaced ==
    ASSUME NEW S, NEW s \in Seq(S), NEW k \in 1..Len(s), NEW v \in S
    PROVE  /\ [s EXCEPT ![k] = v] \in Seq(S) /\ Len([s EXCEPT ![k] = v]) = Len(s)
           /\ [s EXCEPT ![k] = v][k] = v
           /\ \A i \in 1..Len(s) : i # k => [s EXCEPT ![k] = v][i] = s[i]
OBVIOUS

LEMMA Appended ==
    ASSUME NEW S, NEW s \in Seq(S), NEW v \in S
    PROVE  /\ Append(s, v) \in Seq(S) /\ Len(Append(s, v)) = Len(s) + 1
           /\ Append(s, v)[Len(s) + 1] = v
           /\ \A i \in 1..Len(s) : Append(s, v)[i] = s[i]
OBVIOUS

LEMMA FrontOf ==
    ASSUME NEW S, NEW s \in Seq(S), s # <<>>
    PROVE  /\ Front(s) \in Seq(S) /\ Len(Front(s)) = Len(s) - 1
           /\ \A i \in 1..Len(s) - 1 : Front(s)[i] = s[i]
<1> DEFINE m == Len(s) - 1
<1>1. m \in Nat /\ 1 \in Int /\ m \in Int /\ \A i \in 1..m : s[i] \in S
    OBVIOUS
<1>2. Front(s) = SubSeq(s, 1, m)
    BY DEF Front
<1> HIDE DEF m
<1>3. /\ SubSeq(s, 1, m) \in Seq(S)
      /\ Len(SubSeq(s, 1, m)) = IF 1 <= m THEN m - 1 + 1 ELSE 0
      /\ \A i \in 1..m - 1 + 1 : SubSeq(s, 1, m)[i] = s[1 + i - 1]
    BY <1>1, SubSeqProperties
<1>4. Len(SubSeq(s, 1, m)) = m /\ \A i \in 1..m : SubSeq(s, 1, m)[i] = s[i]
    <2>1. m - 1 + 1 = m /\ \A i \in 1..m : 1 + i - 1 = i
        BY <1>1
    <2>2. QED
        BY <1>1, <1>3, <2>1
<1>5. QED
    BY <1>2, <1>3, <1>4 DEF m

\* The innermost frame, and what replaces it.
LEMMA TopFrame ==
    ASSUME TypeInv, tables # <<>>
    PROVE  Len(tables) \in DOMAIN tables /\ Top = tables[Len(tables)] /\ Top \in Frame
BY DEF TypeInv, Top, Last

LEMMA TopReplaced ==
    ASSUME TypeInv, tables # <<>>, NEW f \in Frame, SetTop(f)
    PROVE  /\ tables' \in Seq(Frame) /\ Len(tables') = Len(tables) /\ DOMAIN tables' = DOMAIN tables
           /\ tables'[Len(tables)] = f
           /\ \A i \in DOMAIN tables : i # Len(tables) => tables'[i] = tables[i]
BY DEF TypeInv, SetTop

LEMMA CellsOfRow ==
    ASSUME TypeInv, InRow
    PROVE  /\ RowCells \in Row /\ Top.cells \in Row /\ FirstCells(Top.cells, RowCells)
           /\ Top.cell = None => RowCells = Top.cells
           /\ Top.cell # None => RowCells = Append(Top.cells, Top.cell)
<1>1. Top \in Frame
    BY TopFrame DEF InRow
<1>2. Top.cells \in Row /\ Top.cell \in Cell \cup {None}
    BY <1>1 DEF Frame, InRow
<1>3. CASE Top.cell = None
    BY <1>2, <1>3 DEF RowCells, FirstCells, Row
<1>4. CASE Top.cell # None
    BY <1>2, <1>4 DEF RowCells, FirstCells, Row
<1>5. QED
    BY <1>3, <1>4

\* Of what is closed or recorded nothing is left after any token but </tr>.
LEMMA NoRowEndsKeeps ==
    ASSUME NoRowEnds
    PROVE  ClosedInv' /\ (Agreed => Agreed')
BY DEF NoRowEnds, ClosedInv, InStepAfterRow, Agreed, reading

LEMMA OpenTableKeepsInv == Inv /\ OpenTable => Inv'
<1> SUFFICES ASSUME Inv, OpenTable PROVE Inv'
    OBVIOUS
<1> DEFINE new == [cells |-> None, cell |-> None, due |-> FALSE, whole |-> FALSE, spoilt |-> FALSE]
<1> PICK n \in Nat : n = Len(tables)
    BY DomainOf DEF Inv, TypeInv
<1>1. /\ UNCHANGED <<parser, fresh>> /\ NoRowEnds
      /\ tokens' = tokens + 1
      /\ tables = <<>> \/ InCell
      /\ plain' = (plain /\ tables = <<>>)
    BY DEF OpenTable, Token
<1>2. tables \in Seq(Frame) /\ n \in Nat /\ new \in Frame
    BY DEF Inv, TypeInv, Frame
<1>3. /\ tables' \in Seq(Frame) /\ Len(tables') = n + 1 /\ DOMAIN tables' = 1..n + 1
      /\ tables'[n + 1] = new
      /\ \A i \in 1..n : /\ tables'[i].cells = tables[i].cells /\ tables'[i].cell = tables[i].cell
                         /\ tables'[i].due = tables[i].due /\ tables'[i].spoilt = tables[i].spoilt
                         /\ i = n => tables'[i].whole = FALSE
                         /\ i # n => tables'[i].whole = tables[i].whole
    <2>1. CASE tables = <<>>
        <3>1. tables' = Append(<<>>, new)
            BY <2>1, Zenon DEF OpenTable
        <3> HIDE DEF new
        <3>2. <<>> \in Seq(Frame) /\ Len(<<>>) = 0 /\ n = 0
            BY <2>1
        <3>3. tables' \in Seq(Frame) /\ Len(tables') = n + 1 /\ tables'[n + 1] = new
            BY <1>2, <3>1, <3>2, Appended
        <3>4. DOMAIN tables' = 1..n + 1 /\ 1..n = {}
            BY <3>2, <3>3, DomainOf
        <3>5. QED
            BY <3>3, <3>4
    <2>2. CASE tables # <<>>
        <3> DEFINE outermost == [tables[n] EXCEPT !.whole = FALSE]
                   outer == [tables EXCEPT ![n] = outermost]
        <3>1. n \in 1..n /\ tables[n] \in Frame
            BY <1>2, <2>2
        <3>2. outermost \in Frame /\ outermost.whole = FALSE
            BY <3>1, Zenon DEF Frame
        <3>3. outermost.cells = tables[n].cells /\ outermost.cell = tables[n].cell
              /\ outermost.due = tables[n].due /\ outermost.spoilt = tables[n].spoilt
            BY <3>1, Zenon DEF Frame
        <3>4. tables' = Append(outer, new)
            BY <2>2, Zenon DEF OpenTable
        <3> HIDE DEF outermost, new
        <3>5. /\ outer \in Seq(Frame) /\ Len(outer) = n /\ outer[n] = outermost
              /\ \A i \in 1..n : i # n => outer[i] = tables[i]
            BY <1>2, <3>1, <3>2, Replaced
        <3> HIDE DEF outer
        <3>6. /\ tables' \in Seq(Frame) /\ Len(tables') = n + 1 /\ tables'[n + 1] = new
              /\ \A i \in 1..n : tables'[i] = outer[i]
            BY <1>2, <3>4, <3>5, Appended
        <3>7. tables'[n] = outermost /\ \A i \in 1..n : i # n => tables'[i] = tables[i]
            BY <3>1, <3>5, <3>6
        <3>8. DOMAIN tables' = 1..n + 1
            BY <3>6, DomainOf
        <3>9. QED
            BY <3>1, <3>2, <3>3, <3>6, <3>7, <3>8
    <2>3. QED
        BY <2>1, <2>2
<1>4. new.cells = None /\ new.cell = None /\ ~new.due /\ ~new.whole
    OBVIOUS
<1> HIDE DEF new
<1>5. TypeInv'
    <2>1. \A i \in 1..n : tables[i].cells # None
        BY <1>1, <1>2 DEF Inv, TypeInv, InCell, InRow, Top, Last
    <2>2. QED
        BY <1>1, <1>2, <1>3, <1>4, <2>1 DEF Inv, TypeInv, parser
<1>6. ShapeInv'
    BY <1>1 DEF Inv, ShapeInv, parser
<1>7. SyncInv'
    BY <1>2, <1>3, <1>4 DEF Inv, SyncInv
<1>8. FollowInv'
    <2> SUFFICES ASSUME NEW i \in 1..n, tables'[i].cells # None, ~tables'[i].spoilt, Innermost(i)'
                 PROVE  Follows(tables[i])'
        BY <1>2, <1>3, <1>4 DEF FollowInv
    <2>1. Innermost(i)
        BY <1>2, <1>3 DEF Innermost
    <2>2. Follows(tables[i])
        BY <1>2, <1>3, <2>1 DEF Inv, FollowInv
    <2>3. QED
        BY <1>1, <1>3, <2>2 DEF Follows, Missed, Sync, parser
<1>9. PlainInv'
    <2> SUFFICES ASSUME plain' PROVE PlainInv'
        BY DEF PlainInv
    <2>1. plain /\ n = 0 /\ row = None
        BY <1>1 DEF Inv, PlainInv
    <2>2. Sync(new)'
        BY <1>1, <1>4, <2>1 DEF Sync, Inv, ShapeInv, parser
    <2>3. Agreed'
        BY <1>1, <2>1, NoRowEndsKeeps DEF Inv, PlainInv
    <2>4. Len(tables') = 1 /\ \A i \in DOMAIN tables' : Sync(tables[i])'
        BY <1>3, <2>1, <2>2 DEF Sync
    <2>5. QED
        BY <2>3, <2>4 DEF PlainInv
<1>10. QED
    BY <1>1, <1>5, <1>6, <1>7, <1>8, <1>9, NoRowEndsKeeps DEF Inv

LEMMA CloseTableKeepsInv == Inv /\ CloseTable => Inv'
<1> SUFFICES ASSUME Inv, CloseTable PROVE Inv'
    OBVIOUS
<1> PICK n \in Nat : n = Len(tables)
    BY DomainOf DEF Inv, TypeInv
<1>1. /\ UNCHANGED <<parser, fresh>> /\ NoRowEnds
      /\ tokens' = tokens + 1
      /\ tables # <<>>
      /\ plain' = (plain /\ ~InRow)
    BY DEF CloseTable, Token
<1>2. tables \in Seq(Frame) /\ n \in Nat \ {0} /\ DOMAIN tables = 1..n
    BY <1>1 DEF Inv, TypeInv
<1>3. /\ tables' \in Seq(Frame) /\ Len(tables') = n - 1 /\ DOMAIN tables' = 1..n - 1
      /\ \A i \in 1..n - 1 : /\ tables'[i].cells = tables[i].cells /\ tables'[i].cell = tables[i].cell
                             /\ tables'[i].due = tables[i].due /\ tables'[i].whole = tables[i].whole
                             /\ ~tables'[i].spoilt => ~tables[i].spoilt
                             /\ i = n - 1 /\ ~tables'[i].spoilt => ~InRow
    <2>1. CASE n = 1
        <3>1. tables' = <<>>
            BY <2>1 DEF CloseTable
        <3>2. QED
            BY <2>1, <3>1
    <2>2. CASE n # 1
        <3> DEFINE front == Front(tables)
        <3>1. front \in Seq(Frame) /\ Len(front) = n - 1 /\ \A i \in 1..n - 1 : front[i] = tables[i]
            BY <1>1, <1>2, FrontOf
        <3>2. n - 1 \in 1..n - 1 /\ front[n - 1] = tables[n - 1] /\ tables[n - 1] \in Frame
              /\ InRow \in BOOLEAN
            BY <1>2, <2>2, <3>1 DEF InRow
        <3>3. PICK f \in Frame : /\ f.cells = tables[n - 1].cells /\ f.cell = tables[n - 1].cell
                                 /\ f.due = tables[n - 1].due /\ f.whole = tables[n - 1].whole
                                 /\ ~f.spoilt => ~tables[n - 1].spoilt /\ ~InRow
                                 /\ tables' = [front EXCEPT ![n - 1] = f]
            <4> DEFINE frame == [front[n - 1] EXCEPT !.spoilt = @ \/ InRow]
            <4>1. frame \in Frame
                BY <3>2, Zenon DEF Frame
            <4>2. /\ frame.cells = tables[n - 1].cells /\ frame.cell = tables[n - 1].cell
                  /\ frame.due = tables[n - 1].due /\ frame.whole = tables[n - 1].whole
                  /\ ~frame.spoilt => ~tables[n - 1].spoilt /\ ~InRow
                BY <3>2, Zenon DEF Frame
            <4>3. tables' = [front EXCEPT ![n - 1] = frame]
                BY <2>2, Zenon DEF CloseTable
            <4>4. QED
                BY <4>1, <4>2, <4>3, Zenon
        <3> HIDE DEF front
        <3>4. /\ tables' \in Seq(Frame) /\ Len(tables') = n - 1 /\ tables'[n - 1] = f
              /\ \A i \in 1..n - 1 : i # n - 1 => tables'[i] = tables[i]
            BY <3>1, <3>2, <3>3, Replaced
        <3>5. DOMAIN tables' = 1..n - 1
            BY <3>4, DomainOf
        <3>6. QED
            BY <3>3, <3>4, <3>5
    <2>3. QED
        BY <2>1, <2>2
<1>4. TypeInv'
    <2>1. \A i \in 1..n - 1 : /\ tables'[i].cells = None => tables'[i].cell = None
                              /\ tables'[i].cells # None
        <3>1. \A i \in 1..n : /\ tables[i].cells = None => tables[i].cell = None
                              /\ i < n => tables[i].cells # None
            BY <1>2 DEF Inv, TypeInv
        <3>2. \A i \in 1..n - 1 : i \in 1..n /\ i < n
            BY <1>2
        <3>3. QED
            BY <1>3, <3>1, <3>2
    <2>2. UNCHANGED <<row, cell, depth, fresh>> /\ tokens' \in Nat
        BY <1>1 DEF Inv, TypeInv, parser
    <2>3. QED
        BY <1>3, <2>1, <2>2 DEF Inv, TypeInv
<1>5. ShapeInv'
    BY <1>1 DEF Inv, ShapeInv, parser
<1>6. SyncInv'
    BY <1>2, <1>3 DEF Inv, SyncInv
<1>7. FollowInv'
    <2> SUFFICES ASSUME NEW i \in 1..n - 1, tables'[i].cells # None, ~tables'[i].spoilt, Innermost(i)'
                 PROVE  Follows(tables[i])'
        BY <1>2, <1>3 DEF FollowInv
    <2>1. tables[i].cells # None /\ ~tables[i].spoilt
        BY <1>2, <1>3
    <2>2. Innermost(i)
        <3> SUFFICES ASSUME NEW j \in 1..n, j > i PROVE tables[j].cells = None
            BY <1>2 DEF Innermost
        <3>1. CASE j = n
            <4>1. CASE i = n - 1
                <5>1. ~InRow
                    BY <1>2, <1>3, <4>1
                <5>2. Top = tables[n]
                    BY <1>1, TopFrame DEF Inv
                <5>3. QED
                    BY <1>1, <3>1, <5>1, <5>2 DEF InRow
            <4>2. CASE i # n - 1
                BY <1>1, <1>2, <1>3, <3>1, <4>2 DEF Innermost, Inv, TypeInv
            <4>3. QED
                BY <4>1, <4>2
        <3>2. CASE j # n
            <4>1. j \in 1..n - 1
                BY <1>2, <3>2
            <4>2. tables'[j].cells = None
                BY <1>3, <4>1 DEF Innermost
            <4>3. QED
                BY <1>3, <4>1, <4>2
        <3>3. QED
            BY <3>1, <3>2
    <2>3. Follows(tables[i])
        BY <1>2, <2>1, <2>2 DEF Inv, FollowInv
    <2>4. QED
        BY <1>1, <1>3, <2>3 DEF Follows, Missed, Sync, parser
<1>8. PlainInv'
    <2> SUFFICES ASSUME plain' PROVE PlainInv'
        BY DEF PlainInv
    <2>1. plain /\ n = 1 /\ ~InRow
        <3>1. plain /\ ~InRow
            BY <1>1
        <3>2. n <= 1
            BY <3>1 DEF Inv, PlainInv
        <3>3. QED
            BY <1>2, <3>1, <3>2
    <2>2. row = None
        BY <1>1, <1>2, <2>1 DEF Inv, PlainInv, Sync, InRow, Top, Last
    <2>3. QED
        BY <1>1, <1>3, <2>1, <2>2, NoRowEndsKeeps DEF Inv, PlainInv, parser
<1>9. QED
    BY <1>1, <1>4, <1>5, <1>6, <1>7, <1>8, NoRowEndsKeeps DEF Inv

\* What it takes for a token that changes the innermost frame to f.
LEMMA TopKeepsInv ==
    ASSUME Inv, tables # <<>>, NEW f \in Frame, SetTop(f),
           row' \in Row \cup {None}, cell' \in Cell \cup {None}, depth' \in Nat, tokens' \in Nat, fresh' \in BOOLEAN,
           ShapeInv', ClosedInv',
           f.cells = None => f.cell = None /\ row' = None,
           f.cells # None /\ ~f.spoilt => Follows(f)',
           f.due /\ f.whole => Sync(f)',
           plain' => plain /\ Sync(f)' /\ Agreed'
    PROVE  Inv'
<1> PICK n \in Nat : n = Len(tables)
    BY DomainOf DEF Inv, TypeInv
<1>1. n # 0 /\ DOMAIN tables = 1..n
    BY DEF Inv, TypeInv
<1>2. /\ tables' \in Seq(Frame) /\ Len(tables') = n /\ DOMAIN tables' = 1..n
      /\ tables'[n] = f
      /\ \A i \in 1..n : i # n => tables'[i] = tables[i]
    BY <1>1, TopReplaced DEF Inv
<1>3. TypeInv'
    BY <1>1, <1>2 DEF Inv, TypeInv
<1>4. SyncInv'
    <2>1. ASSUME NEW i \in 1..n, i = n, tables'[i].due, tables'[i].whole PROVE Sync(tables[i])'
        BY <1>2, <2>1 DEF Sync
    <2>2. ASSUME NEW i \in 1..n, i < n PROVE ~tables'[i].whole
        BY <1>1, <1>2, <2>2 DEF Inv, SyncInv
    <2>3. QED
        BY <1>1, <1>2, <2>1, <2>2 DEF SyncInv
<1>5. FollowInv'
    <2> SUFFICES ASSUME NEW i \in 1..n, tables'[i].cells # None, ~tables'[i].spoilt, Innermost(i)'
                 PROVE  Follows(tables[i])'
        BY <1>2 DEF FollowInv
    <2>1. CASE i = n
        <3>1. tables'[i] = f
            BY <1>2, <2>1
        <3>2. Follows(f)'
            BY <3>1
        <3>3. QED
            BY <3>1, <3>2 DEF Follows, Missed, Sync
    <2>2. CASE i # n
        <3>1. f.cells = None
            BY <1>1, <1>2, <2>2 DEF Innermost
        <3>2. QED
            BY <3>1 DEF Follows
    <2>3. QED
        BY <2>1, <2>2
<1>6. PlainInv'
    <2> SUFFICES ASSUME plain' PROVE PlainInv'
        BY DEF PlainInv
    <2>1. n = 1
        BY <1>1 DEF Inv, PlainInv
    <2>2. tables' # <<>>
        <3>1. Len(tables') # 0 /\ Len(<<>>) = 0
            BY <1>2, <2>1
        <3>2. QED
            BY <3>1
    <2>3. Sync(f)' /\ tables'[1] = f
        BY <1>2, <2>1
    <2>4. Sync(tables[1])'
        BY <2>3 DEF Sync
    <2>5. QED
        BY <1>2, <2>1, <2>2, <2>4 DEF PlainInv
<1>7. QED
    BY <1>3, <1>4, <1>5, <1>6 DEF Inv

\* What is known of the innermost frame.
LEMMA TopIsKnown ==
    ASSUME Inv, tables # <<>>
    PROVE  /\ Top \in Frame
           /\ Top.cells = None => Top.cell = None
           /\ Top.cells # None /\ ~Top.spoilt => Follows(Top)
           /\ Top.due /\ Top.whole => Sync(Top)
           /\ plain => Sync(Top)
<1> PICK n \in Nat : n = Len(tables)
    BY DomainOf DEF Inv, TypeInv
<1>1. n \in DOMAIN tables /\ DOMAIN tables = 1..n /\ Top = tables[n] /\ Top \in Frame
    BY TopFrame, DomainOf DEF Inv, TypeInv
<1>2. Innermost(n)
    BY <1>1 DEF Innermost
<1>3. QED
    BY <1>1, <1>2 DEF Inv, TypeInv, FollowInv, SyncInv, PlainInv

LEMMA OpenRowKeepsInv == Inv /\ OpenRow => Inv'
<1> SUFFICES ASSUME Inv, OpenRow PROVE Inv'
    OBVIOUS
<1>1. /\ tables # <<>> /\ NoRowEnds /\ tokens' = tokens + 1
      /\ row' = <<>> /\ cell' = cell /\ depth' = depth /\ fresh' = FALSE
      /\ plain' = (plain /\ ~InRow)
    BY DEF OpenRow, Token, StartRow
<1>2. PICK f \in Frame : /\ SetTop(f) /\ f.cells = <<>> /\ f.cell = None
                         /\ f.due = fresh /\ f.whole = TRUE /\ f.spoilt = FALSE
    <2> DEFINE frame == [cells |-> <<>>, cell |-> None, due |-> fresh, whole |-> TRUE, spoilt |-> FALSE]
    <2>1. frame \in Frame
        BY SequencesAreNotNone DEF Frame, Inv, TypeInv
    <2>2. SetTop(frame)
        BY DEF OpenRow
    <2>3. QED
        BY <2>1, <2>2
<1>3. ShapeInv' /\ row' # None
    BY <1>1, SequencesAreNotNone DEF Inv, ShapeInv
<1>4. Follows(f)'
    BY <1>1, <1>2 DEF Follows, Missed, Sync, FirstCells, Inv, TypeInv, ShapeInv
<1>5. fresh => Sync(f)'
    BY <1>1, <1>2 DEF Sync, Inv, ShapeInv
<1>6. ASSUME plain' PROVE plain /\ Sync(f)' /\ Agreed'
    <2>1. plain /\ Top.cells = None
        BY <1>1, <1>6 DEF InRow
    <2>2. row = None
        BY <1>1, <2>1, TopIsKnown DEF Sync
    <2>3. QED
        BY <1>1, <1>2, <2>1, <2>2, NoRowEndsKeeps DEF Sync, Inv, ShapeInv, PlainInv
<1>7. /\ row' \in Row \cup {None} /\ cell' \in Cell \cup {None} /\ depth' \in Nat
      /\ tokens' \in Nat /\ fresh' \in BOOLEAN /\ ClosedInv'
    <2>1. row' \in Row /\ cell \in Cell \cup {None} /\ depth \in Nat /\ tokens \in Nat
        BY <1>1, SequencesAreNotNone DEF Inv, TypeInv
    <2>2. ClosedInv'
        BY <1>1, NoRowEndsKeeps
    <2>3. fresh' \in BOOLEAN
        BY <1>1, Zenon
    <2>4. QED
        BY <1>1, <2>1, <2>2, <2>3
<1>8. QED
    BY <1>1, <1>2, <1>3, <1>4, <1>5, <1>6, <1>7, SequencesAreNotNone, TopKeepsInv

LEMMA OpenCellKeepsInv == Inv /\ OpenCell => Inv'
<1> SUFFICES ASSUME Inv, OpenCell PROVE Inv'
    OBVIOUS
<1>1. /\ tables # <<>> /\ Top.cells # None /\ NoRowEnds /\ tokens' = tokens + 1 /\ fresh' = fresh
      /\ plain' = (plain /\ ~InCell) /\ InCell = (Top.cell # None)
    BY DEF OpenCell, Token, InRow, InCell
<1>2. /\ Top \in Frame
      /\ ~Top.spoilt => Follows(Top)
      /\ (Top.due /\ Top.whole) \/ plain => Sync(Top)
    BY <1>1, TopIsKnown
<1>3. /\ RowCells \in Row /\ FirstCells(Top.cells, RowCells) /\ Top.cells \in Row
      /\ Top.cell = None => RowCells = Top.cells
    BY CellsOfRow DEF Inv, OpenCell
<1>4. PICK f \in Frame : /\ SetTop(f) /\ f.cells = RowCells /\ f.cell = <<>>
                         /\ f.due => Top.due
                         /\ f.whole => Top.whole /\ ~InCell
                         /\ ~f.spoilt => ~Top.spoilt
    <2> DEFINE frame == [Top EXCEPT !.cells = RowCells, !.cell = <<>>, !.whole = @ /\ ~InCell]
    <2>1. InCell \in BOOLEAN
        BY DEF InCell, InRow
    <2>2. frame \in Frame
        BY <1>2, <1>3, <2>1, SequencesAreNotNone, Zenon DEF Frame
    <2>3. /\ frame.cells = RowCells /\ frame.cell = <<>> /\ frame.due = Top.due
          /\ frame.spoilt = Top.spoilt /\ frame.whole = (Top.whole /\ ~InCell)
        BY <1>2, Zenon DEF Frame
    <2>4. SetTop(frame)
        BY Zenon DEF OpenCell
    <2> HIDE DEF frame
    <2>5. /\ frame.due => Top.due
          /\ frame.whole => Top.whole /\ ~InCell
          /\ ~frame.spoilt => ~Top.spoilt
        BY <2>3
    <2>6. QED
        BY <2>2, <2>3, <2>4, <2>5
<1>5. CASE row = None
    <2>1. row' = None /\ cell' = cell /\ depth' = depth
        BY <1>5 DEF OpenCell, StartCell, parser
    <2>2. ~Sync(Top)
        BY <1>1, <1>5 DEF Sync
    <2>3. ShapeInv' /\ Follows(f)'
        BY <1>1, <1>5, <2>1 DEF Inv, ShapeInv, Follows
    <2>4. /\ row' \in Row \cup {None} /\ cell' \in Cell \cup {None} /\ depth' \in Nat
          /\ tokens' \in Nat /\ fresh' \in BOOLEAN /\ ClosedInv'
        BY <1>1, <2>1, NoRowEndsKeeps DEF Inv, TypeInv
    <2>5. f.cells # None /\ ~(f.due /\ f.whole) /\ ~plain'
        BY <1>1, <1>2, <1>3, <1>4, <2>2, SequencesAreNotNone
    <2>6. QED
        BY <1>1, <1>4, <2>3, <2>4, <2>5, TopKeepsInv
<1>6. CASE row # None
    <2>1. row' = row /\ cell' = <<>> /\ depth' = depth + 1 /\ cell' # None
        BY <1>6, SequencesAreNotNone DEF OpenCell, StartCell
    <2>2. ShapeInv'
        BY <1>1, <1>6, <2>1 DEF Inv, ShapeInv, TypeInv
    <2>3. row \in Row /\ depth \in Nat
        BY <1>6 DEF Inv, TypeInv
    <2>4. ASSUME Top.cell = None, Sync(Top) PROVE Sync(f)'
        BY <1>3, <1>4, <2>1, <2>4, SequencesAreNotNone DEF Sync
    <2>5. ASSUME ~f.spoilt PROVE Follows(f)'
        <3>1. Missed(Top) \in Nat /\ FirstCells(row, Top.cells) /\ (Missed(Top) = 0 => Sync(Top))
            BY <1>2, <1>4, <1>6, <2>5 DEF Follows
        <3>2. FirstCells(row', f.cells)
            BY <1>3, <1>4, <2>1, <2>3, <3>1 DEF FirstCells, Row
        <3>3. Missed(f)' = depth
            BY <1>4, <2>1, <2>3, SequencesAreNotNone DEF Missed
        <3>4. depth = 0 => Top.cell = None /\ Missed(Top) = 0
            BY <3>1 DEF Missed
        <3>5. QED
            BY <2>3, <2>4, <3>1, <3>2, <3>3, <3>4 DEF Follows, FirstCells
    <2>6. f.due /\ f.whole => Sync(f)'
        BY <1>1, <1>2, <1>4, <2>4
    <2>7. ASSUME plain' PROVE plain /\ Sync(f)' /\ Agreed'
        <3>1. plain /\ Top.cell = None
            BY <1>1, <2>7
        <3>2. QED
            BY <1>1, <1>2, <2>4, <3>1, NoRowEndsKeeps DEF Inv, PlainInv
    <2>8. /\ row' \in Row \cup {None} /\ cell' \in Cell \cup {None} /\ depth' \in Nat
          /\ tokens' \in Nat /\ fresh' \in BOOLEAN /\ ClosedInv'
        BY <1>1, <2>1, <2>3, NoRowEndsKeeps, SequencesAreNotNone DEF Inv, TypeInv
    <2>9. f.cells # None
        BY <1>3, <1>4, SequencesAreNotNone
    <2>10. QED
        BY <1>1, <1>4, <2>2, <2>5, <2>6, <2>7, <2>8, <2>9, TopKeepsInv
<1>7. QED
    BY <1>5, <1>6

LEMMA WriteTextKeepsInv == Inv /\ WriteText => Inv'
<1> SUFFICES ASSUME Inv, WriteText PROVE Inv'
    OBVIOUS
<1>1. /\ tables # <<>> /\ Top.cells # None /\ Top.cell = <<>> /\ Top.cell # None
      /\ NoRowEnds /\ tokens' = tokens + 1 /\ fresh' = fresh /\ plain' = plain
    BY DEF WriteText, Token, InRow, InCell
<1>2. /\ Top \in Frame
      /\ ~Top.spoilt => Follows(Top)
      /\ (Top.due /\ Top.whole) \/ plain => Sync(Top)
    BY <1>1, TopIsKnown
<1>3. PICK t \in Text : SetTop([Top EXCEPT !.cell = <<t>>]) /\ Data(t)
    BY DEF WriteText
<1>4. <<t>> \in Cell /\ <<t>> # None /\ Append(<<>>, t) = <<t>>
    <2>1. <<t>> \in Cell
        BY DEF Cell
    <2>2. Append(<<>>, t) = <<t>>
        OBVIOUS
    <2>3. QED
        BY <2>1, <2>2, SequencesAreNotNone
<1>5. PICK f \in Frame : /\ SetTop(f) /\ f.cells = Top.cells /\ f.cell = <<t>>
                         /\ (f.due <=> Top.due) /\ (f.whole <=> Top.whole) /\ (f.spoilt <=> Top.spoilt)
    <2> DEFINE frame == [Top EXCEPT !.cell = <<t>>]
    <2>1. frame \in Frame
        BY <1>2, <1>4, Zenon DEF Frame
    <2>2. /\ frame.cells = Top.cells /\ frame.cell = <<t>> /\ frame.due = Top.due
          /\ frame.spoilt = Top.spoilt /\ frame.whole = Top.whole
        BY <1>2, Zenon DEF Frame
    <2>3. SetTop(frame)
        BY <1>3
    <2> HIDE DEF frame
    <2>4. QED
        BY <2>1, <2>2, <2>3
<1>6. Sync(Top) => Sync(f)'
    BY <1>1, <1>3, <1>4, <1>5 DEF Sync, Data
<1>7. /\ row' = row /\ depth' = depth /\ cell' \in Cell \cup {None}
      /\ row \in Row \cup {None} /\ depth \in Nat /\ tokens' \in Nat /\ fresh' \in BOOLEAN
      /\ cell' = None <=> cell = None
    <2>1. /\ row \in Row \cup {None} /\ depth \in Nat /\ tokens' \in Nat /\ fresh' \in BOOLEAN
          /\ cell \in Cell \cup {None}
        BY <1>1 DEF Inv, TypeInv
    <2>2. CASE cell = None
        BY <1>3, <2>1, <2>2 DEF Data, parser
    <2>3. CASE cell # None
        <3>1. Append(cell, t) \in Cell
            BY <2>1, <2>3 DEF Cell
        <3>2. QED
            BY <1>3, <2>1, <2>3, <3>1, SequencesAreNotNone DEF Data
    <2>4. QED
        BY <2>2, <2>3
<1>8. ShapeInv'
    BY <1>1, <1>7 DEF Inv, ShapeInv
<1>9. ASSUME ~f.spoilt PROVE Follows(f)'
    <2>1. row # None => /\ Missed(Top) \in Nat /\ FirstCells(row, Top.cells)
                        /\ Missed(Top) = 0 => Sync(Top)
        BY <1>2, <1>5, <1>9 DEF Follows
    <2>2. Missed(f)' = depth - 1 /\ Missed(Top) = depth - 1
        BY <1>1, <1>4, <1>5, <1>7 DEF Missed
    <2>3. QED
        BY <1>5, <1>6, <1>7, <2>1, <2>2 DEF Follows, FirstCells
<1>10. plain' => plain /\ Sync(f)' /\ Agreed'
    BY <1>1, <1>2, <1>6, NoRowEndsKeeps DEF Inv, PlainInv
<1>11. f.cells # None /\ (f.due /\ f.whole => Sync(f)')
    BY <1>1, <1>2, <1>5, <1>6
<1>12. ClosedInv'
    BY <1>1, NoRowEndsKeeps
<1>13. QED
    BY <1>1, <1>5, <1>7, <1>8, <1>9, <1>10, <1>11, <1>12, TopKeepsInv

LEMMA CloseCellKeepsInv == Inv /\ CloseCell => Inv'
<1> SUFFICES ASSUME Inv, CloseCell PROVE Inv'
    OBVIOUS
<1>1. /\ tables # <<>> /\ Top.cells # None /\ Top.cell # None /\ EndCell
      /\ NoRowEnds /\ tokens' = tokens + 1 /\ fresh' = fresh /\ plain' = plain
    BY DEF CloseCell, Token, InRow, InCell
<1>2. /\ Top \in Frame
      /\ ~Top.spoilt => Follows(Top)
      /\ (Top.due /\ Top.whole) \/ plain => Sync(Top)
    BY <1>1, TopIsKnown
<1>3. /\ RowCells \in Row /\ FirstCells(Top.cells, RowCells) /\ Top.cells \in Row
      /\ RowCells = Append(Top.cells, Top.cell)
    BY <1>1, CellsOfRow DEF Inv, CloseCell, InCell
<1>4. PICK f \in Frame : /\ SetTop(f) /\ f.cells = RowCells /\ f.cell = None
                         /\ (f.due <=> Top.due) /\ (f.whole <=> Top.whole) /\ (f.spoilt <=> Top.spoilt)
    <2> DEFINE frame == [Top EXCEPT !.cells = RowCells, !.cell = None]
    <2>1. frame \in Frame
        BY <1>2, <1>3, Zenon DEF Frame
    <2>2. /\ frame.cells = RowCells /\ frame.cell = None /\ frame.due = Top.due
          /\ frame.spoilt = Top.spoilt /\ frame.whole = Top.whole
        BY <1>2, Zenon DEF Frame
    <2>3. SetTop(frame)
        BY Zenon DEF CloseCell
    <2> HIDE DEF frame
    <2>4. QED
        BY <2>1, <2>2, <2>3
<1>5. /\ row \in Row \cup {None} /\ cell \in Cell \cup {None} /\ depth \in Nat
      /\ tokens' \in Nat /\ fresh' \in BOOLEAN /\ ClosedInv'
    BY <1>1, NoRowEndsKeeps DEF Inv, TypeInv
<1>6. \/ UNCHANGED <<row, cell, depth>> /\ (row = None \/ cell = None)
      \/ /\ row # None /\ cell # None /\ depth = 1
         /\ row' = Append(row, cell) /\ cell' = None /\ depth' = 0
      \/ /\ row # None /\ cell # None /\ depth > 1
         /\ row' = row /\ cell' = cell /\ depth' = depth - 1
    <2>1. cell # None => depth # 0
        BY DEF Inv, ShapeInv
    <2>2. QED
        BY <1>1, <1>5, <2>1, MaxOfZero DEF EndCell, parser
<1>7. row # None /\ cell # None => Append(row, cell) \in Row
    BY <1>5 DEF Row
<1>8. row' \in Row \cup {None} /\ cell' \in Cell \cup {None} /\ depth' \in Nat
    <2>1. CASE UNCHANGED <<row, cell, depth>>
        BY <1>5, <2>1
    <2>2. CASE row # None /\ cell # None /\ row' = Append(row, cell) /\ cell' = None /\ depth' = 0
        BY <1>7, <2>2
    <2>3. CASE depth > 1 /\ row' = row /\ cell' = cell /\ depth' = depth - 1
        BY <1>5, <2>3
    <2>4. QED
        BY <1>6, <2>1, <2>2, <2>3
<1>9. ShapeInv'
    BY <1>1, <1>5, <1>6, <1>7, SequencesAreNotNone DEF Inv, ShapeInv
<1>10. Sync(Top) => Sync(f)'
    BY <1>1, <1>3, <1>4, <1>6 DEF Sync
<1>11. ASSUME ~f.spoilt PROVE Follows(f)'
    <2> SUFFICES ASSUME row' # None
                 PROVE  /\ Missed(f)' \in Nat /\ FirstCells(row', f.cells)
                        /\ Missed(f)' = 0 => Sync(f)'
        BY DEF Follows, FirstCells
    <2>1. row # None
        BY <1>6
    <2>2. /\ Missed(Top) \in Nat /\ FirstCells(row, Top.cells)
          /\ Missed(Top) = 0 => Sync(Top)
        BY <1>2, <1>4, <1>11, <2>1 DEF Follows
    <2>3. Missed(Top) = depth - 1 /\ Missed(f)' = depth'
        BY <1>1, <1>4 DEF Missed
    <2>4. CASE depth = 1
        <3>1. Sync(f)'
            BY <1>10, <2>2, <2>3, <2>4
        <3>2. depth' = 0 /\ row' = RowCells
            BY <1>4, <3>1 DEF Sync
        <3>3. QED
            BY <1>3, <1>4, <2>3, <3>1, <3>2 DEF FirstCells, Row
    <2>5. CASE depth # 1
        <3>1. depth' = depth - 1 /\ row' = row
            BY <1>5, <1>6, <2>1, <2>2, <2>3, <2>5 DEF Inv, ShapeInv
        <3>2. FirstCells(row, RowCells)
            BY <1>3, <1>5, <2>1, <2>2 DEF FirstCells, Row
        <3>3. QED
            BY <1>4, <1>5, <2>2, <2>3, <2>5, <3>1, <3>2
    <2>6. QED
        BY <2>4, <2>5
<1>12. plain' => plain /\ Sync(f)' /\ Agreed'
    BY <1>1, <1>2, <1>10, NoRowEndsKeeps DEF Inv, PlainInv
<1>13. f.cells # None /\ (f.due /\ f.whole => Sync(f)')
    BY <1>2, <1>3, <1>4, <1>10, SequencesAreNotNone
<1>14. QED
    BY <1>1, <1>4, <1>5, <1>8, <1>9, <1>11, <1>12, <1>13, TopKeepsInv

----------------------------------------------------------------------------
(* The end of a row, and what becomes of it                                *)

\* A heading has its phrases, and in a row that does not mislead they are its.
LEMMA HeadingsToldApart ==
    ASSUME NEW cells \in Row, ~Misleading(cells)
    PROVE  /\ Says(cells, "Table I") /\ Says(cells, "Non-Derivative") <=> HeadingI \in TextsOf(cells)
           /\ HeadingI \notin TextsOf(cells) =>
                 (Says(cells, "Table II") /\ Says(cells, "Derivative") <=> HeadingII \in TextsOf(cells))
<1>1. HeadingI \in TextsOf(cells) => Says(cells, "Table I") /\ Says(cells, "Non-Derivative")
    BY TextAssumption DEF Says
<1>2. HeadingII \in TextsOf(cells) => Says(cells, "Table II") /\ Says(cells, "Derivative")
    BY TextAssumption DEF Says
<1>3. QED
    BY <1>1, <1>2 DEF Misleading, IsHeading

\* A row without text is neither a heading nor a transaction.
LEMMA EmptyRowIsNothing ==
    ASSUME NEW cells \in Row, TextsOf(cells) = {}
    PROVE  ~IsTransaction(cells)
<1> SUFFICES ASSUME IsTransaction(cells) PROVE FALSE
    OBVIOUS
<1>1. DateAt \in DOMAIN cells
    BY LegacyTableAssumption DEF IsTransaction, Row
<1>2. Range(cells[DateAt]) \subseteq TextsOf(cells)
    BY <1>1 DEF TextsOf
<1>3. QED
    BY <1>2 DEF IsTransaction

\* A row that has the phrases of a heading has some text.
LEMMA EmptyRowSaysNothing ==
    ASSUME NEW cells \in Row, TextsOf(cells) = {}
    PROVE  ~Misleading(cells) /\ HeadingI \notin TextsOf(cells) /\ HeadingII \notin TextsOf(cells)
BY DEF Misleading, IsHeading, Says

\* A row that does not mislead is taken for what a reader takes it for, and a heading
\* makes good what was misread before it.
LEMMA RowIsTaken ==
    ASSUME NEW cells \in Row, Agreed, Take(IF TextsOf(cells) # {} THEN cells ELSE None), Read(cells)
    PROVE  Agreed'
<1> SUFFICES ASSUME ~misled' PROVE section' = heading' /\ taken' = meant'
    BY DEF Agreed
<1>1. ~Misleading(cells) /\ (misled => HeadingI \in TextsOf(cells) \/ HeadingII \in TextsOf(cells))
    BY DEF Read
<1>2. ~misled => section = heading
    BY DEF Agreed
<1>3. /\ heading' = IF HeadingI \in TextsOf(cells) THEN "non_derivative"
                    ELSE IF HeadingII \in TextsOf(cells) THEN "derivative"
                    ELSE heading
      /\ meant' <=> heading' = "non_derivative" /\ HeadingI \notin TextsOf(cells) /\ IsTransaction(cells)
      /\ meant' \in BOOLEAN
    BY DEF Read
<1>4. CASE TextsOf(cells) = {}
    <2>1. section' = section /\ taken' = FALSE
        BY <1>4 DEF Take
    <2>2. heading' = heading /\ meant' = FALSE /\ ~misled
        BY <1>1, <1>3, <1>4, EmptyRowIsNothing, EmptyRowSaysNothing
    <2>3. QED
        BY <1>2, <2>1, <2>2
<1>5. CASE TextsOf(cells) # {}
    <2>1. /\ section' = Section(cells, section)
          /\ taken' <=> ~IsHeading(cells) /\ section = "non_derivative" /\ IsTransaction(cells)
          /\ taken' \in BOOLEAN
        BY <1>5, SequencesAreNotNone DEF Take
    <2>2. section' = heading'
        BY <1>1, <1>2, <1>3, <2>1, HeadingsToldApart DEF Section
    <2>3. ~IsHeading(cells) /\ section = "non_derivative"
            <=> heading' = "non_derivative" /\ HeadingI \notin TextsOf(cells)
        BY <1>1, <1>2, <1>3, HeadingsToldApart DEF IsHeading
    <2>4. taken' = meant'
        BY <1>3, <2>1, <2>3
    <2>5. QED
        BY <2>2, <2>4
<1>6. QED
    BY <1>4, <1>5

LEMMA CloseRowKeepsInv == Inv /\ CloseRow => Inv'
<1> SUFFICES ASSUME Inv, CloseRow PROVE Inv'
    OBVIOUS
<1>1. /\ tables # <<>> /\ Top.cells # None /\ tokens' = tokens + 1 /\ fresh' = TRUE
      /\ InCell = (Top.cell # None)
      /\ plain' = (plain /\ ~InCell)
    BY DEF CloseRow, Token, InRow, InCell
<1>2. /\ Top \in Frame
      /\ ~Top.spoilt => Follows(Top)
      /\ (Top.due /\ Top.whole) \/ plain => Sync(Top)
    BY <1>1, TopIsKnown
<1>3. /\ RowCells \in Row /\ FirstCells(Top.cells, RowCells) /\ Top.cells \in Row
      /\ Top.cell = None => RowCells = Top.cells
    BY CellsOfRow DEF Inv, CloseRow
<1>4. PICK f \in Frame : SetTop(f) /\ f.cells = None /\ f.cell = None
    <2> DEFINE frame == [Top EXCEPT !.cells = None, !.cell = None]
    <2>1. frame \in Frame /\ frame.cells = None /\ frame.cell = None
        BY <1>2, Zenon DEF Frame
    <2>2. SetTop(frame)
        BY Zenon DEF CloseRow
    <2> HIDE DEF frame
    <2>3. QED
        BY <2>1, <2>2
<1>5. row' = None /\ cell' = None /\ depth' = 0
    BY DEF CloseRow, EndRow, parser, Inv, ShapeInv
<1>6. ShapeInv' /\ Sync(f)'
    BY <1>4, <1>5 DEF ShapeInv, Sync
<1>7. row # None => row \in Row
    BY DEF Inv, TypeInv
<1>8. ClosedInv'
    <2>1. /\ closed'.cells = RowCells /\ closed'.spoilt = Top.spoilt
          /\ closed'.due => Top.due /\ Top.whole /\ ~InCell
          /\ recorded' = RecordedAtEnd
        BY DEF CloseRow
    <2>2. recorded' # None => row # None /\ recorded' = row
        BY <2>1 DEF RecordedAtEnd
    <2>3. ASSUME recorded' # None, ~closed'.spoilt
          PROVE  recorded' \in Row /\ FirstCells(recorded', closed'.cells)
        <3>1. FirstCells(row, Top.cells)
            BY <1>2, <2>1, <2>2, <2>3 DEF Follows
        <3>2. QED
            BY <1>3, <1>7, <2>1, <2>2, <2>3, <3>1 DEF FirstCells, Row
    <2>4. ASSUME closed'.due, TextsOf(closed'.cells) # {}
          PROVE  recorded' = closed'.cells
        <3>1. row = Top.cells /\ RowCells = Top.cells
            BY <1>1, <1>2, <1>3, <2>1, <2>4 DEF Sync
        <3>2. QED
            BY <1>1, <2>1, <2>4, <3>1 DEF RecordedAtEnd
    <2>5. QED
        BY <1>3, <2>1, <2>3, <2>4 DEF ClosedInv, InStepAfterRow
<1>9. ASSUME plain' PROVE plain /\ Sync(f)' /\ Agreed'
    <2>1. plain /\ Top.cell = None
        BY <1>1, <1>9
    <2>2. row = RowCells /\ row # None
        BY <1>1, <1>2, <1>3, <2>1 DEF Sync
    <2>3. Take(IF TextsOf(RowCells) # {} THEN RowCells ELSE None)
        <3>1. RecordedAtEnd = IF TextsOf(RowCells) # {} THEN RowCells ELSE None
            BY <2>2 DEF RecordedAtEnd
        <3>2. Take(RecordedAtEnd)
            BY DEF CloseRow, Take
        <3>3. QED
            BY <3>1, <3>2
    <2>4. Agreed /\ Read(RowCells)
        BY <2>1 DEF Inv, PlainInv, CloseRow
    <2>5. Agreed'
        BY <1>3, <2>3, <2>4, RowIsTaken
    <2>6. QED
        BY <1>6, <2>1, <2>5
<1>10. QED
    <2>1. fresh' \in BOOLEAN
        BY <1>1, Zenon
    <2>2. tokens' \in Nat /\ depth' \in Nat
        BY <1>1, <1>5 DEF Inv, TypeInv
    <2>3. QED
        BY <1>1, <1>4, <1>5, <1>6, <1>8, <1>9, <2>1, <2>2, TopKeepsInv

----------------------------------------------------------------------------
(* The theorems                                                            *)

LEMMA StutterKeepsInv == Inv /\ UNCHANGED legacyVars => Inv'
BY DEF legacyVars, reading, Agreed, parser, Inv, TypeInv, ShapeInv, SyncInv, FollowInv, PlainInv, ClosedInv, InStepAfterRow,
   Innermost, Follows, Missed, Sync

LEMMA StepKeepsInv == Inv /\ [LegacyNext]_legacyVars => Inv'
BY OpenTableKeepsInv, CloseTableKeepsInv, OpenRowKeepsInv, OpenCellKeepsInv, WriteTextKeepsInv,
   CloseCellKeepsInv, CloseRowKeepsInv, StutterKeepsInv DEF LegacyNext

LEMMA InvHolds == LegacySpec => []Inv
BY InitInv, StepKeepsInv, PTL DEF LegacySpec

\* Rows with the same first cells are prefixes of one another.
LEMMA FirstCellsArePrefix ==
    ASSUME NEW r \in Row, NEW cells \in Row, FirstCells(r, cells)
    PROVE  IsPrefix(r, cells)
<1> DEFINE n == Len(r)
<1>1. n \in Nat /\ n <= Len(cells) /\ \A i \in 1..n : r[i] = cells[i]
    BY DEF FirstCells, Row
<1>2. SubSeq(r, 1, n) = r
    BY DEF Row
<1>3. SubSeq(cells, 1, n) = r
    BY <1>1 DEF Row
<1>4. QED
    BY <1>1, <1>2, <1>3 DEF IsPrefix

\* No cell of a row takes the text of another one or its place, however the end
\* tags are omitted: a recorded row is the beginning of a row of the filing
\* (_LegacyHTMLTableParser).
THEOREM RowsAreAligned == LegacySpec => []Aligned
<1>1. Inv => Aligned
    BY FirstCellsArePrefix DEF Inv, ClosedInv, Aligned
<1>2. QED
    BY <1>1, InvHolds, PTL

\* One row with its end tag brings the parser back into step: the next row that
\* is written out is recorded as it is.
THEOREM BackInStep == LegacySpec => []InStepAfterRow
<1>1. Inv => InStepAfterRow
    BY DEF Inv, ClosedInv
<1>2. QED
    BY <1>1, InvHolds, PTL

\* In a filing written out in full each row is taken for what it is, whatever the
\* pieces of text are: from any heading on, until a row that has the phrases of a
\* heading without being one (_parse_legacy_transactions).
THEOREM ReadsAsWritten == LegacySpec => []ReadAsWritten
<1>1. Inv => ReadAsWritten
    BY DEF Inv, PlainInv, Agreed, ReadAsWritten
<1>2. QED
    BY <1>1, InvHolds, PTL
=============================================================================
