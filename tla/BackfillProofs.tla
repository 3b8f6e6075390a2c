--------------------------- MODULE BackfillProofs ---------------------------
(***************************************************************************)
(* Theorems about Backfill, for any indexes, datasets and batch size, and  *)
(* for datasets that are served at one request and not at the next.        *)
(***************************************************************************)
EXTENDS Backfill, TLAPS

----------------------------------------------------------------------------
(* The inductive invariant                                                 *)

\* The filing of entry p of quarter q is not a run's concern any more.
Done(q, p) == Index[q][p] \in Late \/ Recorded(Index[q][p])

\* A run that skips q's index through an accession number finds it there, and
\* passes over nothing that is not done.
Resumable(q, accession) ==
    \E n \in DOMAIN Index[q] :
        /\ Index[q][n] = accession
        /\ accession \in Visible
        /\ \A p \in DOMAIN Index[q] : p <= n => Done(q, p)

Running == pc \notin {"crashed", "raised", "done"}

\* The loop has left no quarter behind, and the cursor is not ahead of it.
LoopInv ==
    /\ Running =>
          /\ quarter >= 1
          /\ cursor.quarter <= quarter
          /\ resume.quarter <= quarter
          /\ \A q \in Quarters : q < quarter => Covered(q)
    /\ pc \in {"bulk", "index", "entries"} => quarter \in Quarters
    /\ pc = "bulk" => quarter \in BulkQuarters

\* A recorded filing is in an index, and what that index lists before it is
\* done: the order in which a walk records is the order in which one skips.
OrderInv ==
    /\ \A f \in Filings : Recorded(f) => \E q \in Quarters : \E n \in DOMAIN Index[q] : Index[q][n] = f
    /\ \A q \in Quarters : \A n \in DOMAIN Index[q] :
          Recorded(Index[q][n]) => Resumable(q, Index[q][n])

\* The accession number of the cursor can be resumed, whether the cursor comes
\* from an index or from a dataset.
CursorInv ==
    /\ cursor.accession # None =>
          /\ cursor.quarter \in Quarters
          /\ Resumable(cursor.quarter, cursor.accession)
    /\ Running /\ ResumeAccession # None =>
          /\ quarter \in Quarters
          /\ Resumable(quarter, ResumeAccession)

\* Batches passed so far.
BulkInv ==
    pc = "bulk" =>
        /\ pos >= 1
        /\ \A i \in DOMAIN Dataset[quarter] : i < pos => Recorded(Dataset[quarter][i])

\* Entries passed so far; while the run skips it has not met the cursor's entry.
EntriesInv ==
    pc = "entries" =>
        /\ pos >= 1
        /\ Filings \ Late \subseteq index
        /\ index \subseteq Visible
        /\ \A p \in DOMAIN Index[quarter] : p < pos => Done(quarter, p)
        /\ skipping =>
              /\ ResumeAccession # None
              /\ ResumeAccession \in index
              /\ \A p \in DOMAIN Index[quarter] : p < pos => Index[quarter][p] # ResumeAccession

Inv ==
    /\ TypeOK
    /\ LoopInv
    /\ OrderInv
    /\ CursorInv
    /\ BulkInv
    /\ EntriesInv
    /\ EstimateSound
    /\ NothingSkipped

----------------------------------------------------------------------------
(* Lemmas                                                                  *)

LEMMA IndexFacts ==
    ASSUME NEW q \in Quarters
    PROVE  /\ Len(Index[q]) \in Nat
           /\ DOMAIN Index[q] = 1 .. Len(Index[q])
           /\ \A p \in DOMAIN Index[q] : Index[q][p] \in Filings
<1>1. Index[q] \in Seq(Filings)
  BY FilingsAssumption
<1>2. QED
  BY <1>1

LEMMA DatasetFacts ==
    ASSUME NEW q \in BulkQuarters
    PROVE  /\ Len(Dataset[q]) \in Nat
           /\ DOMAIN Dataset[q] = 1 .. Len(Dataset[q])
           /\ \A i \in DOMAIN Dataset[q] : Dataset[q][i] \in Filings
<1>1. Dataset[q] \in Seq(Filings)
  BY FilingsAssumption
<1>2. QED
  BY <1>1

\* The next batch is a part of the dataset that begins at pos.
LEMMA BatchFacts ==
    ASSUME quarter \in BulkQuarters, pos \in Nat, pos >= 1, pos <= Len(Dataset[quarter])
    PROVE  /\ BatchEnd \in pos .. Len(Dataset[quarter])
           /\ Dataset[quarter][BatchEnd] \in Filings
BY DatasetFacts, QuartersAssumption DEF BatchEnd

LEMMA TypeStep == TypeOK /\ LoopInv /\ BulkInv /\ [Next]_vars => TypeOK'
<1> SUFFICES ASSUME TypeOK, LoopInv, BulkInv, [Next]_vars
             PROVE  TypeOK'
  OBVIOUS
<1> USE DEF TypeOK, Cursors
<1>q. LastQuarter \in Nat /\ Quarters = 1 .. LastQuarter
  BY QuartersAssumption DEF Quarters
<1>1. CASE Boot
  BY <1>1, <1>q DEF Boot
<1>2. CASE FetchDataset
  BY <1>2 DEF FetchDataset
<1>3. CASE BulkBatch /\ ~Down'
  <2>1. pos <= Len(Dataset[quarter])
    BY <1>3 DEF BulkBatch
  <2>2. BatchEnd \in Nat /\ Dataset[quarter][BatchEnd] \in Filings
    BY <1>3, <2>1, BatchFacts, DatasetFacts DEF BulkBatch, LoopInv, BulkInv
  <2>3. cursor' = [quarter |-> quarter, accession |-> Dataset[quarter][BatchEnd]] /\ pos' = BatchEnd + 1
    BY <1>3 DEF BulkBatch, Checkpoint, Die, Down
  <2>4. cursor' \in [quarter : 0 .. LastQuarter, accession : Filings \cup {None}]
    BY <1>3, <2>2, <2>3, <1>q DEF BulkBatch, LoopInv
  <2>5. UNCHANGED <<status, complete, published, current, pc, last, quarter, resume, index, skipping, took>>
    BY <1>3 DEF BulkBatch, Die, Down
  <2>6. QED
    BY <2>2, <2>3, <2>4, <2>5
<1>4. CASE BulkEnd
  BY <1>4, <1>q DEF BulkEnd, NextQuarter, database, world, LoopInv
<1>5. CASE FetchIndex
  BY <1>5, FilingsAssumption DEF FetchIndex, Visible
<1>6. CASE SkipEntry
  BY <1>6 DEF SkipEntry
<1>7. CASE IngestEntry
  <2>1. Index[quarter][pos] \in Filings
    BY <1>7 DEF IngestEntry
  <2>2. cursor' \in [quarter : 0 .. LastQuarter, accession : Filings \cup {None}]
    BY <1>7, <2>1, <1>q DEF IngestEntry, Checkpoint, LoopInv
  <2>3. QED
    BY <1>7, <2>2 DEF IngestEntry
<1>8. CASE EndIndex
  <2>1. ResumeAccession \in Filings \cup {None}
    BY DEF ResumeAccession
  <2>2. cursor' \in [quarter : 0 .. LastQuarter, accession : Filings \cup {None}]
    BY <1>8, <2>1, <1>q DEF EndIndex, Checkpoint, LoopInv
  <2>3. QED
    BY <1>8, <2>2, <1>q DEF EndIndex, NextQuarter, LoopInv
<1>9. CASE MarkComplete
  BY <1>9 DEF MarkComplete
<1>10. CASE \E how \in {"crashed", "raised"} : Die(how) /\ UNCHANGED <<database, world>>
  <2>1. resume' \in [quarter : 0 .. LastQuarter, accession : Filings \cup {None}]
    BY <1>10, <1>q DEF Die, NoCursor
  <2>2. UNCHANGED <<status, cursor, complete, published, current, last>>
    BY <1>10 DEF Die, database, world
  <2>3. /\ pc' \in {"crashed", "raised"} /\ quarter' = 0 /\ pos' = 0 /\ index' = {}
        /\ skipping' \in BOOLEAN /\ took' \in BOOLEAN
    BY <1>10 DEF Die
  <2>4. QED
    BY <2>1, <2>2, <2>3, <1>q
<1>11. CASE PublishFiling
  BY <1>11 DEF PublishFiling, database, worker
<1>12. CASE NewQuarter
  BY <1>12, <1>q DEF NewQuarter, database, worker
<1>13. CASE UNCHANGED vars
  BY <1>13 DEF vars
<1>14. CASE Crash \/ (BulkBatch /\ Down')
  BY <1>14, <1>10 DEF Crash, BulkBatch, Die, Down, LoopInv, database, world
<1>15. QED
  BY <1>1, <1>2, <1>3, <1>4, <1>5, <1>6, <1>7, <1>8, <1>9, <1>11, <1>12, <1>13, <1>14
     DEF Next, Work

\* Nothing done is ever undone, and SEC only adds.
Persists ==
    /\ \A f \in Filings : Recorded(f) => Recorded(f)'
    /\ Visible \subseteq Visible'
    /\ \A q \in Quarters : Covered(q) => Covered(q)'
    /\ \A q \in Quarters : \A p \in DOMAIN Index[q] : Done(q, p) => Done(q, p)'
    /\ \A q \in Quarters, accession \in Filings :
          Resumable(q, accession) => Resumable(q, accession)'

\* No action but the ingestion of an entry changes a filing.
LEMMA StatusChanges == [Next]_vars /\ ~IngestEntry => UNCHANGED status
BY DEF Next, Work, Boot, FetchDataset, BulkBatch, BulkEnd, FetchIndex, SkipEntry, EndIndex,
       MarkComplete, Crash, PublishFiling, NewQuarter, vars, database

LEMMA Persistence ==
    ASSUME TypeOK, LoopInv, [Next]_vars
    PROVE  Persists
<1>1. \A f \in Filings : Recorded(f) => Recorded(f)'
  <2>1. CASE IngestEntry
    BY <2>1 DEF IngestEntry, Recorded, TypeOK
  <2>2. CASE ~IngestEntry
    <3>1. UNCHANGED status
      BY <2>2, StatusChanges
    <3>2. QED
      BY <3>1 DEF Recorded
  <2>3. QED
    BY <2>1, <2>2
<1>2. published \subseteq published'
  BY DEF Next, Work, Boot, FetchDataset, BulkBatch, BulkEnd, FetchIndex, SkipEntry,
         IngestEntry, EndIndex, MarkComplete, Crash, PublishFiling, NewQuarter, vars, world
<1>3. \A q \in Quarters : \A p \in DOMAIN Index[q] : Done(q, p) => Done(q, p)'
  BY <1>1, IndexFacts DEF Done
<1>4. Visible \subseteq Visible'
  BY <1>2 DEF Visible
<1>5. \A q \in Quarters, accession \in Filings :
         Resumable(q, accession) => Resumable(q, accession)'
  BY <1>3, <1>4 DEF Resumable
<1>6. \A q \in Quarters : Covered(q) => Covered(q)'
  BY <1>1, IndexFacts DEF Covered
<1>7. QED
  BY <1>1, <1>2, <1>3, <1>4, <1>5, <1>6 DEF Persists

LEMMA OrderPersists ==
    ASSUME TypeOK, LoopInv, OrderInv, [Next]_vars, UNCHANGED status
    PROVE  OrderInv'
<1>1. Persists
  BY Persistence
<1>2. \A f \in Filings : Recorded(f)' => Recorded(f)
  BY <1>1 DEF Recorded
<1>3. QED
  BY <1>1, <1>2, IndexFacts DEF OrderInv, Persists

----------------------------------------------------------------------------
(* Every action preserves the invariant                                    *)

LEMMA InitInv == Init => Inv
<1> SUFFICES ASSUME Init
             PROVE  Inv
  OBVIOUS
<1>1. LastQuarter \in Nat /\ Quarters = 1 .. LastQuarter /\ None \notin Filings
  BY QuartersAssumption, FilingsAssumption DEF Quarters
<1>2. NoCursor \in Cursors
  BY <1>1 DEF NoCursor, Cursors
<1>3. TypeOK
  <2>1. status \in [Filings -> {"absent", "failed", "parsed"}]
    BY DEF Init
  <2>2. cursor \in Cursors /\ resume \in Cursors
    BY <1>2 DEF Init
  <2>3. published \subseteq Late /\ current \in Quarters /\ index \subseteq Filings
    BY DEF Init
  <2>4. complete \in BOOLEAN /\ skipping \in BOOLEAN /\ took \in BOOLEAN
    BY DEF Init
  <2>5. pc = "crashed" /\ last \in 0 .. LastQuarter /\ quarter \in 0 .. LastQuarter + 1 /\ pos \in Nat
    BY <1>1 DEF Init
  <2>6. QED
    BY <2>1, <2>2, <2>3, <2>4, <2>5 DEF TypeOK
<1>4. LoopInv /\ CursorInv /\ BulkInv /\ EntriesInv
  BY <1>1 DEF Init, NoCursor, LoopInv, CursorInv, BulkInv, EntriesInv, Running
<1>5. OrderInv /\ EstimateSound /\ NothingSkipped
  BY <1>1, IndexFacts DEF Init, NoCursor, OrderInv, Recorded, EstimateSound, NothingSkipped
<1>6. QED
  BY <1>3, <1>4, <1>5 DEF Inv

LEMMA BootInv ==
    ASSUME Inv, Boot
    PROVE  Inv'
<1> USE DEF Boot, Persists
<1>1. [Next]_vars
  BY DEF Next, Work
<1>2. TypeOK /\ TypeOK'
  BY <1>1, TypeStep DEF Inv
<1>3. Persists
  BY <1>1, Persistence DEF Inv
<1>4. LastQuarter \in Nat /\ Quarters = 1 .. LastQuarter /\ None \notin Filings
  BY QuartersAssumption, FilingsAssumption DEF Quarters
<1>5. LoopInv'
  BY <1>2, <1>3, <1>4 DEF Inv, LoopInv, Running, EstimateSound, TypeOK, Cursors
<1>6. CursorInv'
  BY <1>2, <1>3, <1>4 DEF Inv, CursorInv, Running, ResumeAccession, TypeOK, Cursors
<1>7. BulkInv' /\ EntriesInv'
  BY <1>2 DEF Inv, BulkInv, EntriesInv
<1>8. EstimateSound' /\ NothingSkipped'
  BY <1>3 DEF Inv, EstimateSound, NothingSkipped
<1>9. OrderInv'
  BY <1>1, <1>2, OrderPersists DEF Inv
<1>10. QED
  BY <1>2, <1>5, <1>6, <1>7, <1>8, <1>9 DEF Inv

LEMMA FetchDatasetInv ==
    ASSUME Inv, FetchDataset
    PROVE  Inv'
<1> USE DEF FetchDataset, Persists
<1>1. [Next]_vars
  BY DEF Next, Work
<1>2. TypeOK /\ TypeOK'
  BY <1>1, TypeStep DEF Inv
<1>3. Persists
  BY <1>1, Persistence DEF Inv
<1>4. LastQuarter \in Nat /\ Quarters = 1 .. LastQuarter /\ None \notin Filings
  BY QuartersAssumption, FilingsAssumption DEF Quarters
<1>5. LoopInv'
  BY <1>2, <1>3, <1>4 DEF Inv, LoopInv, Running, TypeOK, Cursors
<1>6. CursorInv'
  BY <1>2, <1>3, <1>4 DEF Inv, CursorInv, Running, ResumeAccession, TypeOK, Cursors
<1>7. BulkInv' /\ EntriesInv'
  BY <1>2, DatasetFacts DEF Inv, BulkInv, EntriesInv
<1>8. EstimateSound' /\ NothingSkipped'
  BY <1>3 DEF Inv, EstimateSound, NothingSkipped
<1>9. OrderInv'
  BY <1>1, <1>2, OrderPersists DEF Inv
<1>10. QED
  BY <1>2, <1>5, <1>6, <1>7, <1>8, <1>9 DEF Inv

LEMMA DieInv ==
    ASSUME Inv, NEW how \in {"crashed", "raised"}, Die(how), UNCHANGED <<database, world>>, [Next]_vars
    PROVE  Inv'
<1> USE DEF Die, Persists
<1>2. TypeOK /\ TypeOK'
  BY TypeStep DEF Inv
<1>3. Persists
  BY Persistence DEF Inv
<1>4. LastQuarter \in Nat /\ Quarters = 1 .. LastQuarter /\ None \notin Filings
  BY QuartersAssumption, FilingsAssumption DEF Quarters
<1> USE DEF database, world
<1>5. LoopInv' /\ BulkInv' /\ EntriesInv'
  BY DEF LoopInv, Running, BulkInv, EntriesInv
<1>6. CursorInv'
  BY <1>2, <1>3, <1>4 DEF Inv, CursorInv, Running, TypeOK, Cursors
<1>7. EstimateSound' /\ NothingSkipped'
  BY <1>3 DEF Inv, EstimateSound, NothingSkipped
<1>8. OrderInv'
  BY <1>2, OrderPersists DEF Inv
<1>9. QED
  BY <1>2, <1>5, <1>6, <1>7, <1>8 DEF Inv

\* A batch that goes through is parsed already, so its last filing is in this
\* quarter's index, and what that index lists before it is done.
LEMMA BulkBatchInv ==
    ASSUME Inv, BulkBatch
    PROVE  Inv'
<1>1. [Next]_vars
  BY DEF Next, Work
<1>2. TypeOK /\ TypeOK'
  BY <1>1, TypeStep DEF Inv
<1>3. Persists
  BY <1>1, Persistence DEF Inv
<1>4. LastQuarter \in Nat /\ Quarters = 1 .. LastQuarter /\ None \notin Filings
  BY QuartersAssumption, FilingsAssumption DEF Quarters
<1>5. CASE Die("raised") /\ UNCHANGED cursor
  BY <1>1, <1>5, DieInv DEF BulkBatch, database, world
<1>6. CASE ~(Die("raised") /\ UNCHANGED cursor)
  <2>1. /\ pc = "bulk" /\ pos <= Len(Dataset[quarter])
        /\ \A f \in Batch : status[f] = "parsed"
        /\ Checkpoint(Dataset[quarter][BatchEnd])
        /\ pos' = BatchEnd + 1
        /\ UNCHANGED <<status, complete, published, current, pc, last, quarter, resume, index, skipping, took>>
    BY <1>6 DEF BulkBatch
  <2>2. /\ quarter \in Quarters
        /\ quarter \in BulkQuarters
        /\ pos \in Nat /\ pos >= 1
        /\ BatchEnd \in pos .. Len(Dataset[quarter])
        /\ Dataset[quarter][BatchEnd] \in Filings
    BY <1>2, <2>1, BatchFacts DEF Inv, LoopInv, BulkInv, TypeOK
  <2>3. PICK accession \in Filings : accession = Dataset[quarter][BatchEnd]
    BY <2>2
  <2>4. cursor' = [quarter |-> quarter, accession |-> accession]
    BY <2>1, <2>3 DEF Checkpoint
  <2>5. \A i \in pos .. BatchEnd : Recorded(Dataset[quarter][i])
    <3>1. \A i \in pos .. BatchEnd : Dataset[quarter][i] \in Batch
      BY DEF Batch
    <3>2. QED
      BY <2>1, <3>1 DEF Recorded
  <2>6. Resumable(quarter, accession)
    <3>1. Recorded(accession)
      BY <2>2, <2>3, <2>5
    <3>2. PICK q \in Quarters : \E n \in DOMAIN Index[q] : Index[q][n] = accession
      BY <3>1 DEF Inv, OrderInv
    <3>3. PICK n \in DOMAIN Index[q] : Index[q][n] = accession
      BY <3>2
    <3>4. BatchEnd \in DOMAIN Dataset[quarter]
      BY <2>2, DatasetFacts
    <3>5. q = quarter
      BY <2>2, <2>3, <3>3, <3>4, OneQuarterPerFiling
    <3>6. QED
      BY <3>1, <3>3, <3>5 DEF Inv, OrderInv
  <2>7. LoopInv'
    BY <1>2, <1>3, <1>4, <2>1, <2>2, <2>4 DEF Inv, LoopInv, Running, Persists, TypeOK
  <2>8. CursorInv'
    <3>1. Resumable(quarter, accession)'
      BY <1>3, <2>1, <2>2, <2>6 DEF Persists
    <3>2. UNCHANGED ResumeAccession
      BY <2>1 DEF ResumeAccession
    <3>3. ResumeAccession \in Filings \cup {None}
      BY <1>2 DEF ResumeAccession, TypeOK, Cursors
    <3>4. ResumeAccession # None => Resumable(quarter, ResumeAccession)'
      BY <1>3, <2>1, <2>2, <3>2, <3>3 DEF Inv, CursorInv, Running, Persists
    <3>5. QED
      BY <2>1, <2>2, <2>4, <3>1, <3>2, <3>4 DEF CursorInv, Running
  <2>9. BulkInv'
    <3>1. ASSUME NEW i \in DOMAIN Dataset[quarter], i < BatchEnd + 1
          PROVE  Recorded(Dataset[quarter][i])
      <4>1. i \in Nat
        BY <2>2, DatasetFacts
      <4>2. CASE i < pos
        BY <2>1, <4>2 DEF Inv, BulkInv
      <4>3. CASE i >= pos
        BY <2>2, <2>5, <3>1, <4>1, <4>3
      <4>4. QED
        BY <2>2, <4>1, <4>2, <4>3
    <3>2. QED
      BY <2>1, <2>2, <3>1 DEF BulkInv, Recorded
  <2>10. OrderInv' /\ EntriesInv'
    BY <1>1, <1>2, <2>1, OrderPersists DEF Inv, EntriesInv
  <2>11. EstimateSound' /\ NothingSkipped'
    BY <1>2, <1>3, <1>4, <2>1, <2>2, <2>4
       DEF Inv, LoopInv, Running, EstimateSound, NothingSkipped, Persists
  <2>12. QED
    BY <1>2, <2>7, <2>8, <2>9, <2>10, <2>11 DEF Inv
<1>7. QED
  BY <1>5, <1>6

LEMMA BulkEndInv ==
    ASSUME Inv, BulkEnd
    PROVE  Inv'
<1> USE DEF BulkEnd, Persists
<1>1. [Next]_vars
  BY DEF Next, Work
<1>2. TypeOK /\ TypeOK'
  BY <1>1, TypeStep DEF Inv
<1>3. Persists
  BY <1>1, Persistence DEF Inv
<1>4. LastQuarter \in Nat /\ Quarters = 1 .. LastQuarter /\ None \notin Filings
  BY QuartersAssumption, FilingsAssumption DEF Quarters
<1> USE DEF NextQuarter, database, world
<1>5. Covered(quarter)
  <2>1. quarter \in Quarters /\ quarter \in BulkQuarters
    BY DEF Inv, LoopInv
  <2>2. ASSUME NEW p \in DOMAIN Index[quarter], Index[quarter][p] \notin Late
        PROVE  Recorded(Index[quarter][p])
    <3>1. PICK i \in DOMAIN Dataset[quarter] : Dataset[quarter][i] = Index[quarter][p]
      BY <2>1, <2>2, DatasetCoversIndex
    <3>2. i < pos
      BY <1>2, <2>1, <3>1, DatasetFacts DEF TypeOK
    <3>3. QED
      BY <3>1, <3>2 DEF Inv, BulkInv
  <2>3. QED
    BY <2>2 DEF Covered
<1>6. LoopInv'
  BY <1>2, <1>3, <1>4, <1>5 DEF Inv, LoopInv, Running, TypeOK, Cursors
<1>7. CursorInv'
  BY <1>2, <1>3, <1>4 DEF Inv, CursorInv, Running, ResumeAccession, TypeOK, Cursors
<1>8. BulkInv' /\ EntriesInv'
  BY DEF BulkInv, EntriesInv
<1>9. EstimateSound' /\ NothingSkipped'
  BY <1>3 DEF Inv, EstimateSound, NothingSkipped
<1>10. OrderInv'
  BY <1>1, <1>2, OrderPersists DEF Inv
<1>11. QED
  BY <1>2, <1>6, <1>7, <1>8, <1>9, <1>10 DEF Inv

LEMMA FetchIndexInv ==
    ASSUME Inv, FetchIndex
    PROVE  Inv'
<1> USE DEF FetchIndex, Persists
<1>1. [Next]_vars
  BY DEF Next, Work
<1>2. TypeOK /\ TypeOK'
  BY <1>1, TypeStep DEF Inv
<1>3. Persists
  BY <1>1, Persistence DEF Inv
<1>4. LastQuarter \in Nat /\ Quarters = 1 .. LastQuarter /\ None \notin Filings
  BY QuartersAssumption, FilingsAssumption DEF Quarters
<1>5. LoopInv'
  BY <1>2, <1>3, <1>4 DEF Inv, LoopInv, Running
<1>6. CursorInv'
  BY <1>2, <1>3, <1>4 DEF Inv, LoopInv, CursorInv, Running, ResumeAccession, TypeOK, Cursors
<1>7. BulkInv'
  BY DEF BulkInv
<1>8. EntriesInv'
  <2>1. \A p \in DOMAIN Index[quarter] : ~(p < 1)
    BY <1>4, IndexFacts DEF Inv, LoopInv
  <2>2. ResumeAccession # None => ResumeAccession \in Visible
    BY DEF Inv, CursorInv, Running, Resumable
  <2>3. UNCHANGED ResumeAccession /\ UNCHANGED Visible
    BY DEF ResumeAccession, Visible
  <2>4. quarter' = quarter /\ pos' = 1 /\ index' = Visible'
    BY <2>3
  <2>5. skipping' => ResumeAccession' # None /\ ResumeAccession' \in index'
    BY <2>2, <2>3
  <2>6. Filings \ Late \subseteq Visible'
    BY DEF Visible
  <2>7. QED
    BY <2>1, <2>4, <2>5, <2>6 DEF EntriesInv
<1>9. EstimateSound' /\ NothingSkipped'
  BY <1>3 DEF Inv, EstimateSound, NothingSkipped
<1>10. OrderInv'
  BY <1>1, <1>2, OrderPersists DEF Inv
<1>11. QED
  BY <1>2, <1>5, <1>6, <1>7, <1>8, <1>9, <1>10 DEF Inv

LEMMA SkipEntryInv ==
    ASSUME Inv, SkipEntry
    PROVE  Inv'
<1> USE DEF SkipEntry, Persists
<1>1. [Next]_vars
  BY DEF Next, Work
<1>2. TypeOK /\ TypeOK'
  BY <1>1, TypeStep DEF Inv
<1>3. Persists
  BY <1>1, Persistence DEF Inv
<1>4. LastQuarter \in Nat /\ Quarters = 1 .. LastQuarter /\ None \notin Filings
  BY QuartersAssumption, FilingsAssumption DEF Quarters
<1>5. UNCHANGED ResumeAccession /\ quarter \in Quarters /\ pos \in DOMAIN Index[quarter]
  BY <1>2, IndexFacts DEF ResumeAccession, Inv, LoopInv, EntriesInv, TypeOK
<1>6. LoopInv'
  BY <1>2, <1>3, <1>4 DEF Inv, LoopInv, Running
<1>7. CursorInv'
  <2>1. ResumeAccession \in Filings \cup {None}
    BY <1>2 DEF ResumeAccession, TypeOK, Cursors
  <2>2. ResumeAccession # None => Resumable(quarter, ResumeAccession)'
    BY <1>3, <1>5, <2>1 DEF Inv, CursorInv, Running
  <2>3. cursor.accession # None =>
           /\ cursor.quarter \in Quarters
           /\ Resumable(cursor.quarter, cursor.accession)'
    BY <1>2, <1>3 DEF Inv, CursorInv, Running, TypeOK, Cursors
  <2>4. QED
    BY <1>5, <2>2, <2>3 DEF CursorInv, Running
<1>8. BulkInv'
  BY DEF BulkInv
<1>9. Done(quarter, pos)
  <2>1. CASE Index[quarter][pos] \notin index
    BY <1>5, <2>1, IndexFacts DEF Inv, EntriesInv, Done
  <2>2. CASE skipping
    <3>1. PICK n \in DOMAIN Index[quarter] :
             /\ Index[quarter][n] = ResumeAccession
             /\ \A p \in DOMAIN Index[quarter] : p <= n => Done(quarter, p)
      BY <2>2 DEF Inv, CursorInv, Running, EntriesInv, Resumable
    <3>2. pos <= n
      BY <1>2, <1>5, <2>2, <3>1, IndexFacts DEF Inv, EntriesInv, TypeOK
    <3>3. QED
      BY <1>5, <3>1, <3>2
  <2>3. QED
    BY <2>1, <2>2
<1>10. EntriesInv'
  <2>1. ASSUME NEW p \in DOMAIN Index[quarter], p < pos + 1
        PROVE  Done(quarter, p)'
    <3>1. p < pos \/ p = pos
      BY <1>2, <1>5, <2>1, IndexFacts DEF TypeOK
    <3>2. QED
      BY <1>3, <1>5, <1>9, <3>1 DEF Inv, EntriesInv
  <2>2. ASSUME skipping', NEW p \in DOMAIN Index[quarter], p < pos + 1
        PROVE  Index[quarter][p] # ResumeAccession
    <3>1. p < pos \/ p = pos
      BY <1>2, <1>5, <2>2, IndexFacts DEF TypeOK
    <3>2. QED
      BY <1>5, <2>2, <3>1 DEF Inv, EntriesInv
  <2>3. pos' >= 1
    BY <1>2 DEF TypeOK
  <2>4. index' \subseteq Visible' /\ Filings \ Late \subseteq index'
    BY <1>3 DEF Inv, EntriesInv
  <2>5. skipping' => ResumeAccession' # None /\ ResumeAccession' \in index'
    BY <1>5 DEF Inv, EntriesInv
  <2>6. QED
    BY <1>5, <2>1, <2>2, <2>3, <2>4, <2>5 DEF EntriesInv
<1>11. EstimateSound' /\ NothingSkipped'
  BY <1>3 DEF Inv, EstimateSound, NothingSkipped
<1>12. OrderInv'
  BY <1>1, <1>2, OrderPersists DEF Inv
<1>13. QED
  BY <1>2, <1>6, <1>7, <1>8, <1>10, <1>11, <1>12 DEF Inv

LEMMA IngestEntryInv ==
    ASSUME Inv, IngestEntry
    PROVE  Inv'
<1> USE DEF IngestEntry, Persists
<1>1. [Next]_vars
  BY DEF Next, Work
<1>2. TypeOK /\ TypeOK'
  BY <1>1, TypeStep DEF Inv
<1>3. Persists
  BY <1>1, Persistence DEF Inv
<1>4. LastQuarter \in Nat /\ Quarters = 1 .. LastQuarter /\ None \notin Filings
  BY QuartersAssumption, FilingsAssumption DEF Quarters
<1>5. /\ UNCHANGED ResumeAccession
      /\ quarter \in Quarters
      /\ pos \in DOMAIN Index[quarter]
      /\ Index[quarter][pos] \in Filings
  BY <1>2, IndexFacts DEF ResumeAccession, Inv, LoopInv, EntriesInv, TypeOK
<1>6. PICK q \in Quarters, n \in Nat, f \in Filings :
         q = quarter /\ n = pos /\ f = Index[q][n] /\ n \in DOMAIN Index[q]
  BY <1>2, <1>5 DEF TypeOK
<1>7. cursor' = [quarter |-> q, accession |-> f]
  BY <1>6 DEF Checkpoint
<1>8. ASSUME NEW p \in DOMAIN Index[q], p <= n
      PROVE  Done(q, p)'
  <2>1. p < pos \/ p = n
    BY <1>6, <1>8, IndexFacts
  <2>2. Recorded(f)'
    BY <1>2, <1>6 DEF Recorded, TypeOK
  <2>3. Done(q, n)'
    BY <1>6, <2>2 DEF Done
  <2>4. QED
    BY <1>3, <1>6, <2>1, <2>3 DEF Inv, EntriesInv
<1>9. LoopInv'
  BY <1>2, <1>3, <1>4, <1>6, <1>7 DEF Inv, LoopInv, Running, TypeOK, Cursors
<1>10. CursorInv'
  <2>1. f \in Visible'
    BY <1>3, <1>6 DEF Inv, EntriesInv
  <2>2. Resumable(q, f)'
    BY <1>6, <1>8, <2>1 DEF Resumable
  <2>3. ResumeAccession \in Filings \cup {None}
    BY <1>2 DEF ResumeAccession, TypeOK, Cursors
  <2>4. ResumeAccession # None => Resumable(quarter, ResumeAccession)'
    BY <1>3, <1>5, <2>3 DEF Inv, CursorInv, Running
  <2>5. QED
    BY <1>5, <1>7, <2>2, <2>4 DEF CursorInv, Running
<1>11. BulkInv'
  BY DEF BulkInv
<1>12. EntriesInv'
  <2>1. ASSUME NEW p \in DOMAIN Index[q], p < n + 1
        PROVE  Done(q, p)'
    BY <1>6, <1>8, <2>1, IndexFacts
  <2>2. pos' >= 1 /\ pos' = n + 1 /\ quarter' = q
    BY <1>6
  <2>3. index' \subseteq Visible' /\ Filings \ Late \subseteq index' /\ ~skipping'
    BY <1>2, <1>3 DEF Inv, EntriesInv
  <2>4. QED
    BY <2>1, <2>2, <2>3 DEF EntriesInv
<1>13. EstimateSound' /\ NothingSkipped'
  BY <1>2, <1>3, <1>4, <1>6, <1>7 DEF Inv, LoopInv, Running, EstimateSound, NothingSkipped
<1>14. OrderInv'
  <2>1. Resumable(q, f)'
    <3>1. f \in Visible'
      BY <1>3, <1>6 DEF Inv, EntriesInv
    <3>2. QED
      BY <1>6, <1>8, <3>1 DEF Resumable
  <2>2. \A g \in Filings : Recorded(g)' => g = f \/ Recorded(g)
    BY <1>2, <1>6 DEF Recorded, TypeOK
  <2>3. ASSUME NEW r \in Quarters, NEW m \in DOMAIN Index[r], Recorded(Index[r][m])'
        PROVE  Resumable(r, Index[r][m])'
    <3>1. Index[r][m] \in Filings
      BY IndexFacts
    <3>2. CASE Index[r][m] = f
      BY <1>6, <2>1, <3>2, OneQuarterPerFiling
    <3>3. CASE Recorded(Index[r][m])
      BY <1>3, <3>1, <3>3 DEF Inv, OrderInv
    <3>4. QED
      BY <2>2, <2>3, <3>1, <3>2, <3>3
  <2>4. ASSUME NEW g \in Filings, Recorded(g)'
        PROVE  \E r \in Quarters : \E m \in DOMAIN Index[r] : Index[r][m] = g
    BY <1>6, <2>2, <2>4 DEF Inv, OrderInv
  <2>5. QED
    BY <2>3, <2>4 DEF OrderInv
<1>15. QED
  BY <1>2, <1>9, <1>10, <1>11, <1>12, <1>13, <1>14 DEF Inv

LEMMA EndIndexInv ==
    ASSUME Inv, EndIndex
    PROVE  Inv'
<1> USE DEF EndIndex, Persists
<1>1. [Next]_vars
  BY DEF Next, Work
<1>2. TypeOK /\ TypeOK'
  BY <1>1, TypeStep DEF Inv
<1>3. Persists
  BY <1>1, Persistence DEF Inv
<1>4. LastQuarter \in Nat /\ Quarters = 1 .. LastQuarter /\ None \notin Filings
  BY QuartersAssumption, FilingsAssumption DEF Quarters
<1> USE DEF NextQuarter
<1>5. quarter \in Quarters
  BY DEF Inv, LoopInv
<1>6. Covered(quarter)
  <2>1. \A p \in DOMAIN Index[quarter] : p < pos
    BY <1>2, <1>5, IndexFacts DEF TypeOK
  <2>2. QED
    BY <2>1 DEF Inv, EntriesInv, Covered, Done
<1>7. cursor' = cursor \/ cursor' = [quarter |-> quarter, accession |-> ResumeAccession]
  BY DEF Checkpoint
<1>8. LoopInv'
  <2>1. cursor'.quarter <= quarter
    BY <1>2, <1>4, <1>5, <1>7 DEF Inv, LoopInv, Running, TypeOK, Cursors
  <2>2. resume'.quarter = resume.quarter /\ cursor'.quarter \in Nat
    BY <1>2, <1>4, <1>5, <1>7 DEF TypeOK, Cursors
  <2>3. \A q \in Quarters : q < quarter + 1 => Covered(q)'
    BY <1>3, <1>4, <1>5, <1>6 DEF Inv, LoopInv, Running
  <2>4. QED
    BY <1>2, <1>4, <1>5, <2>1, <2>2, <2>3 DEF Inv, LoopInv, Running, TypeOK, Cursors
<1>9. CursorInv'
  <2>1. ResumeAccession' = None
    BY <1>2 DEF ResumeAccession, TypeOK, Cursors
  <2>2. CASE cursor' = cursor
    BY <1>2, <1>3, <2>1, <2>2 DEF Inv, CursorInv, Running, TypeOK, Cursors
  <2>3. CASE cursor' = [quarter |-> quarter, accession |-> ResumeAccession]
    <3>1. ResumeAccession \in Filings \cup {None}
      BY <1>2 DEF ResumeAccession, TypeOK, Cursors
    <3>2. QED
      BY <1>3, <1>5, <2>1, <2>3, <3>1 DEF Inv, CursorInv, Running
  <2>4. QED
    BY <1>7, <2>2, <2>3
<1>10. BulkInv' /\ EntriesInv'
  BY DEF BulkInv, EntriesInv
<1>11. EstimateSound' /\ NothingSkipped'
  BY <1>2, <1>3, <1>4, <1>5, <1>7 DEF Inv, LoopInv, Running, EstimateSound, NothingSkipped
<1>12. OrderInv'
  BY <1>1, <1>2, OrderPersists DEF Inv
<1>13. QED
  BY <1>2, <1>8, <1>9, <1>10, <1>11, <1>12 DEF Inv

LEMMA MarkCompleteInv ==
    ASSUME Inv, MarkComplete
    PROVE  Inv'
<1> USE DEF MarkComplete, Persists
<1>1. [Next]_vars
  BY DEF Next, Work
<1>2. TypeOK /\ TypeOK'
  BY <1>1, TypeStep DEF Inv
<1>3. Persists
  BY <1>1, Persistence DEF Inv
<1>4. LastQuarter \in Nat /\ Quarters = 1 .. LastQuarter /\ None \notin Filings
  BY QuartersAssumption, FilingsAssumption DEF Quarters
<1>5. LoopInv' /\ BulkInv' /\ EntriesInv'
  BY DEF LoopInv, Running, BulkInv, EntriesInv
<1>6. CursorInv'
  BY <1>2, <1>3, <1>4 DEF Inv, CursorInv, Running, TypeOK, Cursors
<1>7. NothingSkipped'
  BY <1>2, <1>3, <1>4 DEF Inv, LoopInv, Running, NothingSkipped, TypeOK
<1>8. EstimateSound'
  BY <1>3 DEF Inv, EstimateSound
<1>9. OrderInv'
  BY <1>1, <1>2, OrderPersists DEF Inv
<1>10. QED
  BY <1>2, <1>5, <1>6, <1>7, <1>8, <1>9 DEF Inv

LEMMA CrashInv ==
    ASSUME Inv, Crash
    PROVE  Inv'
BY DieInv DEF Crash, Next

LEMMA PublishFilingInv ==
    ASSUME Inv, PublishFiling
    PROVE  Inv'
<1> USE DEF PublishFiling, Persists
<1>1. [Next]_vars
  BY DEF Next, Work
<1>2. TypeOK /\ TypeOK'
  BY <1>1, TypeStep DEF Inv
<1>3. Persists
  BY <1>1, Persistence DEF Inv
<1>4. LastQuarter \in Nat /\ Quarters = 1 .. LastQuarter /\ None \notin Filings
  BY QuartersAssumption, FilingsAssumption DEF Quarters
<1> USE DEF database, worker
<1>5. UNCHANGED ResumeAccession
  BY DEF ResumeAccession
<1>6. LoopInv'
  BY <1>3 DEF Inv, LoopInv, Running
<1>7. CursorInv'
  BY <1>2, <1>3, <1>4, <1>5 DEF Inv, LoopInv, CursorInv, Running, ResumeAccession, TypeOK, Cursors
<1>8. BulkInv'
  BY DEF Inv, BulkInv, Recorded
<1>9. EntriesInv'
  BY <1>3, <1>5 DEF Inv, LoopInv, EntriesInv
<1>10. EstimateSound' /\ NothingSkipped'
  BY <1>3 DEF Inv, EstimateSound, NothingSkipped
<1>11. OrderInv'
  BY <1>1, <1>2, OrderPersists DEF Inv
<1>12. QED
  BY <1>2, <1>6, <1>7, <1>8, <1>9, <1>10, <1>11 DEF Inv

LEMMA NewQuarterInv ==
    ASSUME Inv, NewQuarter
    PROVE  Inv'
<1> USE DEF NewQuarter, Persists
<1>1. [Next]_vars
  BY DEF Next, Work
<1>2. TypeOK /\ TypeOK'
  BY <1>1, TypeStep DEF Inv
<1>3. Persists
  BY <1>1, Persistence DEF Inv
<1>4. LastQuarter \in Nat /\ Quarters = 1 .. LastQuarter /\ None \notin Filings
  BY QuartersAssumption, FilingsAssumption DEF Quarters
<1> USE DEF database, worker
<1>5. UNCHANGED ResumeAccession
  BY DEF ResumeAccession
<1>6. LoopInv'
  BY <1>3 DEF Inv, LoopInv, Running
<1>7. CursorInv'
  BY <1>2, <1>3, <1>4, <1>5 DEF Inv, LoopInv, CursorInv, Running, ResumeAccession, TypeOK, Cursors
<1>8. BulkInv'
  BY DEF Inv, BulkInv, Recorded
<1>9. EntriesInv'
  BY <1>3, <1>5 DEF Inv, LoopInv, EntriesInv
<1>10. EstimateSound' /\ NothingSkipped'
  BY <1>3 DEF Inv, EstimateSound, NothingSkipped
<1>11. OrderInv'
  BY <1>1, <1>2, OrderPersists DEF Inv
<1>12. QED
  BY <1>2, <1>6, <1>7, <1>8, <1>9, <1>10, <1>11 DEF Inv

LEMMA StutterInv ==
    ASSUME Inv, UNCHANGED vars
    PROVE  Inv'
BY DEF vars, Inv, TypeOK, LoopInv, OrderInv, CursorInv, BulkInv, EntriesInv, EstimateSound,
       NothingSkipped, Running, ResumeAccession, Resumable, Visible, Done, Covered, Recorded

LEMMA NextInv == Inv /\ [Next]_vars => Inv'
BY BootInv, FetchDatasetInv, BulkBatchInv, BulkEndInv, FetchIndexInv, SkipEntryInv,
   IngestEntryInv, EndIndexInv, MarkCompleteInv, CrashInv, PublishFilingInv,
   NewQuarterInv, StutterInv
   DEF Next, Work

----------------------------------------------------------------------------
(* Theorems                                                                *)

\* The invariant of the backfill, behind the theorems below.
THEOREM InvHolds == Spec => []Inv
BY InitInv, NextInv, PTL DEF Spec

\* The checkpoint table and the locals of the run keep their types.
THEOREM TypeCorrect == Spec => []TypeOK
BY InvHolds, PTL DEF Inv

\* However often the worker crashes, whatever the indexes, the datasets and the
\* batch size, whenever filings appear, quarters begin and a dataset is served,
\* a backfill marked complete has skipped no filing (BackfillRunner.run).
THEOREM CompleteIsComplete == Spec => []NothingSkipped
BY InvHolds, PTL DEF Inv

\* The startup report never counts a quarter as done that is not
\* (_outstanding_work_estimate).
THEOREM EstimateIsSound == Spec => []EstimateSound
BY InvHolds, PTL DEF Inv

LEMMA SkippedIsDone == Inv => SkippedWasRecorded
<1> SUFFICES ASSUME Inv, pc = "entries", skipping, pos <= Len(Index[quarter])
             PROVE  Done(quarter, pos)
  BY DEF SkippedWasRecorded, Done
<1>1. quarter \in Quarters /\ pos \in DOMAIN Index[quarter]
  BY IndexFacts DEF Inv, TypeOK, LoopInv, EntriesInv
<1>2. PICK n \in DOMAIN Index[quarter] :
         /\ Index[quarter][n] = ResumeAccession
         /\ \A p \in DOMAIN Index[quarter] : p <= n => Done(quarter, p)
  BY DEF Inv, CursorInv, Running, EntriesInv, Resumable
<1>3. pos <= n
  BY <1>1, <1>2, IndexFacts DEF Inv, EntriesInv, TypeOK
<1>4. QED
  BY <1>1, <1>2, <1>3

\* A resumed run passes over no entry that an earlier run has not recorded,
\* filings published since excepted, though the cursor it resumes may come from
\* a dataset in another order that is not served any more (should_skip in
\* _backfill_quarter).  It rests on the batches that go through being parsed
\* already: with normalize_ticker_symbol imported it would not hold.
THEOREM SkippingIsSafe == Spec => []SkippedWasRecorded
BY InvHolds, SkippedIsDone, PTL

\* No step, and no restart, moves the cursor to an earlier quarter
\* (checkpoint_backfill).
THEOREM CursorAdvances == Spec => QuarterNeverRegresses
<1>1. Inv /\ [Next]_vars => [cursor'.quarter >= cursor.quarter]_vars
  <2> SUFFICES ASSUME Inv, Next
               PROVE  cursor'.quarter >= cursor.quarter
    OBVIOUS
  <2>1. cursor.quarter \in Nat
    BY QuartersAssumption DEF Inv, TypeOK, Cursors
  <2>2. CASE UNCHANGED cursor
    BY <2>1, <2>2
  <2>3. CASE Running /\ \E accession \in {Dataset[quarter][BatchEnd], Index[quarter][pos], ResumeAccession} :
                Checkpoint(accession)
    BY <2>3 DEF Inv, LoopInv, Checkpoint
  <2>4. QED
    BY <2>2, <2>3
       DEF Next, Work, Boot, FetchDataset, BulkBatch, BulkEnd, FetchIndex, SkipEntry,
           IngestEntry, EndIndex, MarkComplete, Crash, PublishFiling, NewQuarter,
           database, Running
<1>2. QED
  BY <1>1, InvHolds, PTL DEF Spec, QuarterNeverRegresses

\* With any crashes between, datasets served or not, the backfill implements
\* the ledger: no recorded filing is lost, no parsed one touched.
THEOREM BackfillImplementsLedger == Spec => LedgerSpec
<1> DEFINE L == [f \in Filings |-> IF status[f] = "parsed" THEN "complete" ELSE status[f]]
<1>1. Init => Ledger!Init
  BY DEF Init, Ledger!Init
<1>2. Inv /\ [Next]_vars => [Ledger!Next]_L
  <2> SUFFICES ASSUME Inv, [Next]_vars
               PROVE  [Ledger!Next]_L
    OBVIOUS
  <2>1. CASE IngestEntry
    <3>1. PICK f \in Filings, outcome \in {"parsed", "failed"} :
             status' = [status EXCEPT ![f] = IF @ = "parsed" THEN @ ELSE outcome]
      BY <2>1, IndexFacts DEF IngestEntry, Inv, TypeOK, LoopInv, EntriesInv
    <3>2. CASE status[f] = "parsed" \/ (status[f] = "failed" /\ outcome = "failed")
      BY <3>1, <3>2 DEF Inv, TypeOK
    <3>3. CASE status[f] = "absent" /\ outcome = "failed"
      <4>1. L[f] = "absent" /\ L' = [L EXCEPT ![f] = "failed"]
        BY <3>1, <3>3 DEF Inv, TypeOK
      <4>2. QED
        BY <4>1 DEF Ledger!Next, Ledger!RecordFailure
    <3>4. CASE status[f] # "parsed" /\ outcome = "parsed"
      <4>1. L[f] # "complete" /\ L' = [L EXCEPT ![f] = "complete"]
        BY <3>1, <3>4 DEF Inv, TypeOK
      <4>2. QED
        BY <4>1 DEF Ledger!Next, Ledger!Complete
    <3>5. QED
      BY <3>1, <3>2, <3>3, <3>4 DEF Inv, TypeOK
  <2>2. CASE UNCHANGED status
    BY <2>2
  <2>3. QED
    BY <2>1, <2>2, StatusChanges
<1>3. QED
  BY <1>1, <1>2, InvHolds, PTL DEF Spec, LedgerSpec, Ledger!Spec
=============================================================================
