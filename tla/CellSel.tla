--------------------------------- MODULE CellSel ---------------------------------
(***************************************************************************)
(* The cell an LTE unit imitates, lte_cell_sel.c: a report of the modem is *)
(* read over the last one, and a neighbour of the serving cell is chosen   *)
(* from what is stored, so that phones reselect the unit: the weakest of a *)
(* better frequency, or else the weakest of the serving cell's own.  Main  *)
(* chooses; the scan thread reads reports into the same variables, with no *)
(* lock, between any two steps of a choice.                                *)
(*                                                                         *)
(* A report is a record, stored in two steps; its text is left out, and    *)
(* with it what a report that announces more cells than it lists does to   *)
(* the parser.                                                             *)
(***************************************************************************)
EXTENDS Integers, Sequences, FiniteSets

Lists == INSTANCE SequencesExt
Fin == INSTANCE FiniteSetsExt

CONSTANTS
  CellReports,    \* what the modem can answer: records [answered, main, serving, sib3, intra, inter]
  ParaUpdates     \* what the unit's own board can set: records [pbs, syn]

VARIABLES
  currentSCellInfo, num_intrafreq_cells, intrafreqCell, interfreqs,   \* atCmgrmiOut
  strPbsPara,     \* the cell to imitate
  strSynPara,     \* the cell whose timing a TDD unit follows
  tddfdd_mode,
  choosing,       \* main's step of a choice: none, head, read, built
  answer,         \* the report it chooses from
  targetCell,     \* the cell it found
  acquired,       \* the report the scan thread is in the middle of storing, or NoReport
  report,         \* ghost: the report the cell was chosen from, undisturbed; or NoReport
  crossed         \* ghost: the scan thread stored, or was storing, since the choice began

storedvars == <<currentSCellInfo, num_intrafreq_cells, intrafreqCell, interfreqs>>
unitvars == <<strPbsPara, strSynPara, tddfdd_mode, report>>
cellvars == <<storedvars, unitvars, choosing, answer, targetCell, acquired, crossed>>

NoServing == [band |-> 0, earfcn |-> 0, pci |-> 0, cellId |-> 0]
NoReport == [answered |-> FALSE, main |-> FALSE, serving |-> NoServing, sib3 |-> FALSE,
             intra |-> <<>>, inter |-> <<>>]
ServingPriority == 4    \* set by SerialPortInit, and by nothing else

\* TS 36.331; the arrays hold no more.
MAX_CELL_INTRA == 16
MAX_CELL_INTER == 16
MAX_FREQ == 8

UpTo(max, S) == {s \in Seq(S) : Len(s) <= max}
Serving == [band : Nat, earfcn : Nat, pci : Nat, cellId : Nat]
Cell == [pci : Nat, rsrp : Int, srxlev : Int]
Freq == [earfcn : Nat, priority : Nat, threshX : Nat, cells : UpTo(MAX_CELL_INTER, Cell)]
Report == [answered : BOOLEAN, main : BOOLEAN, serving : Serving, sib3 : BOOLEAN,
           intra : UpTo(MAX_CELL_INTRA, Cell), inter : UpTo(MAX_FREQ, Freq)]

ASSUME CellReportsAssumption == CellReports \subseteq Report

-----------------------------------------------------------------------------
(* Sorting *)

\* The element t moved before those at the end of s that are greater.
Placed(s, t, key) ==
  LET place == Fin!Max({0} \cup {j \in DOMAIN s : s[j][key] <= t[key]})
  IN  Lists!InsertAt(s, place + 1, t)

\* Dir_Insert_Rsrp, Dir_Insert_Srxlev, Dir_Insert_threshXHigh: an insertion sort, by a field.
Dir_Insert(A, key) ==
  LET sorted[k \in 0 .. Len(A)] == IF k = 0 THEN <<>> ELSE Placed(sorted[k - 1], A[k], key)
  IN  sorted[Len(A)]

\* The first after sorting by one field, and those that are equal to it, now in front, by another.
Least(A, first, second) ==
  LET sorted == Dir_Insert(A, first)
      same == Cardinality({i \in DOMAIN sorted : sorted[i][first] = sorted[1][first]})
  IN  Dir_Insert(SubSeq(sorted, 1, same), second)[1]

-----------------------------------------------------------------------------
(* GetCellsDataFromAtCmd *)

\* The cells read are stored over the first ones of the array.
Overlaid(read, stored) == read \o SubSeq(stored, Len(read) + 1, Len(stored))

\* The first n entries; what nothing was stored in is zero.
Entries(n, stored) ==
  [i \in 1 .. n |-> IF i <= Len(stored) THEN stored[i] ELSE [pci |-> 0, rsrp |-> 0, srxlev |-> 0]]

\* readMainInfo, readServingCellInfo: without an answer, a service or a serving cell of the country
\* nothing else is read.
Complete(r) == r.answered /\ r.main /\ r.serving # NoServing

\* readServingCellInfo, readLteIntraCellsNum: the number of cells is stored only when they are those of
\* the system information.
StoreHead(r) ==
  /\ Complete(r)
  /\ currentSCellInfo' = r.serving
  /\ num_intrafreq_cells' = IF r.sib3 THEN Len(r.intra) ELSE num_intrafreq_cells
  /\ UNCHANGED <<intrafreqCell, interfreqs>>

\* readACellPara, readInterFreqs, readInterCells.
StoreCells(r) ==
  /\ intrafreqCell' = Overlaid(r.intra, intrafreqCell)
  /\ interfreqs' = r.inter
  /\ UNCHANGED <<currentSCellInfo, num_intrafreq_cells>>

-----------------------------------------------------------------------------
(* buildReselTargetCellPara *)

\* Mutant: cells of the same power are not told apart.
IntraFreqCell_First(cells) == Dir_Insert(cells, "rsrp")[1]

IntraFreqCell(cells) == Least(cells, "rsrp", "srxlev")

Higher(freqs) ==
  LET kept[k \in 0 .. Len(freqs)] ==
        IF k = 0 THEN <<>>
        ELSE IF freqs[k].priority > ServingPriority THEN Append(kept[k - 1], freqs[k]) ELSE kept[k - 1]
  IN  kept[Len(freqs)]

InterFreq(freqs) == Dir_Insert(freqs, "threshX")[1]

\* InterFreqCellSelect; a frequency that is none, and a cell that is none, are zero.
InterFreqCellSelect(freqs) ==
  IF Higher(freqs) = <<>> THEN [earfcn |-> 0, pci |-> 0]
  ELSE LET freq == InterFreq(Higher(freqs))
       IN  [earfcn |-> freq.earfcn,
            pci |-> IF freq.cells = <<>> THEN 0 ELSE Least(freq.cells, "srxlev", "rsrp").pci]

\* The cell's identity is 16 bits of the new one.
Neighbour(serving, found) ==
  [serving EXCEPT !.earfcn = found.earfcn, !.pci = found.pci, !.cellId = (@ + 256) % 65536]

buildReselTargetCellPara(serving, num, intra, inter) ==
  IF inter # <<>> THEN Neighbour(serving, InterFreqCellSelect(inter))
  ELSE IF num > 0
       THEN Neighbour(serving, [earfcn |-> serving.earfcn, pci |-> IntraFreqCell(Entries(num, intra)).pci])
       ELSE [serving EXCEPT !.cellId = @ % 65536]

-----------------------------------------------------------------------------
(* lte_cell_select *)

lte_sync_cfg(para, serving) == strSynPara' = [band |-> para.band, earfcn |-> para.earfcn, pci |-> serving.pci]

Selects(r) ==
  /\ choosing = "none" /\ StoreHead(r)
  /\ choosing' = "head" /\ answer' = r /\ crossed' = (acquired # NoReport)
  /\ UNCHANGED <<unitvars, targetCell, acquired>>

SelectReads ==
  /\ choosing = "head" /\ StoreCells(answer)
  /\ choosing' = "read"
  /\ UNCHANGED <<unitvars, answer, targetCell, acquired, crossed>>

SelectBuilds ==
  /\ choosing = "read"
  /\ targetCell' = buildReselTargetCellPara(currentSCellInfo, num_intrafreq_cells, intrafreqCell, interfreqs)
  /\ choosing' = "built"
  /\ UNCHANGED <<storedvars, unitvars, answer, acquired, crossed>>

\* A cell of no band is a failure, after it was set; the mode and the timing stay those of the cell before.
SelectSets ==
  /\ choosing = "built"
  /\ strPbsPara' = targetCell
  /\ \/ targetCell.band >= 33 /\ tddfdd_mode' = "TDD" /\ lte_sync_cfg(targetCell, currentSCellInfo)
     \/ targetCell.band \in 1 .. 32 /\ tddfdd_mode' = "FDD" /\ UNCHANGED strSynPara
     \/ targetCell.band = 0 /\ UNCHANGED <<tddfdd_mode, strSynPara>>
  /\ report' = IF crossed THEN NoReport ELSE answer
  /\ choosing' = "none" /\ answer' = NoReport /\ targetCell' = NoServing /\ crossed' = FALSE
  /\ UNCHANGED <<storedvars, acquired>>

\* lte_cells_para_acquire, of the scan thread: the report is stored, and no cell chosen.
Acquires(r) ==
  /\ acquired = NoReport /\ StoreHead(r)
  /\ acquired' = r /\ crossed' = (choosing # "none")
  /\ UNCHANGED <<unitvars, choosing, answer, targetCell>>

AcquireReads ==
  /\ acquired # NoReport /\ StoreCells(acquired)
  /\ acquired' = NoReport /\ crossed' = (choosing # "none")
  /\ UNCHANGED <<unitvars, choosing, answer, targetCell>>

\* lte_para_update_req: the board names a cell itself, and main is not choosing one then.
lte_para_update_req(u) ==
  /\ choosing = "none"
  /\ strPbsPara' = u.pbs /\ strSynPara' = u.syn /\ report' = NoReport
  /\ UNCHANGED <<storedvars, tddfdd_mode, choosing, answer, targetCell, acquired, crossed>>

FirstCell == [band |-> 3, earfcn |-> 1650, pci |-> 131, cellId |-> 2]

\* SerialPortInit clears what is stored; lte_cfg_init gives the unit a first cell.
CellInit ==
  /\ currentSCellInfo = NoServing /\ num_intrafreq_cells = 0 /\ intrafreqCell = <<>> /\ interfreqs = <<>>
  /\ strPbsPara = FirstCell /\ strSynPara = [band |-> 3, earfcn |-> 0, pci |-> 0]
  /\ tddfdd_mode = "FDD" /\ report = NoReport
  /\ choosing = "none" /\ answer = NoReport /\ targetCell = NoServing
  /\ acquired = NoReport /\ crossed = FALSE

\* A report that is not Complete changes nothing.
CellNext ==
  \/ \E r \in CellReports : Selects(r) \/ Acquires(r)
  \/ SelectReads \/ SelectBuilds \/ SelectSets \/ AcquireReads
  \/ \E u \in ParaUpdates : lte_para_update_req(u)

CellSelSpec == CellInit /\ [][CellNext]_cellvars

-----------------------------------------------------------------------------
(* Properties *)

Cells(s) == {s[i] : i \in DOMAIN s}
Better(freqs) == {f \in Cells(freqs) : f.priority > ServingPriority}

\* The cell c is among the weakest of the set by the first field, and by the second among those.
Weakest(c, set, first, second) ==
  \A d \in set : c[first] < d[first] \/ (c[first] = d[first] /\ c[second] <= d[second])

\* The cells counted were all read from a report: no choice is made from entries of the array that
\* nothing was stored in, however short the reports since (lte_cell_sel.c:663, 933).
CountedCellsRead == choosing = "read" /\ ~crossed => num_intrafreq_cells <= Len(intrafreqCell)

\* Cell t is the weakest neighbour of report r, when it has no other frequencies and the system
\* information of the serving cell's own.  Without that, cells of earlier reports are counted with it.
WeakestNeighbour(t, r) ==
  r.sib3 /\ r.inter = <<>> /\ r.intra # <<>>
    => \E c \in Cells(r.intra) : c.pci = t.pci /\ Weakest(c, Cells(r.intra), "rsrp", "srxlev")

\* When a frequency of r has a higher priority than the serving cell, t is on one of these with the lowest
\* threshold, and is the weakest cell heard there, if one is.
WeakestOfLowest(t, r) ==
  Better(r.inter) # {}
    => \E f \in Better(r.inter) :
         /\ f.earfcn = t.earfcn
         /\ \A g \in Better(r.inter) : f.threshX <= g.threshX
         /\ f.cells # <<>> => \E c \in Cells(f.cells) :
                                c.pci = t.pci /\ Weakest(c, Cells(f.cells), "srxlev", "rsrp")

\* The mode is that of the cell imitated, and a TDD unit follows a cell it hears, never the neighbour it
\* imitates: its timing is that of the serving cell of the report its own cell comes from, on the band and
\* frequency it transmits on (lte_cell_sel.c:1188, 1199).  A choice of a cell of no band fails with the
\* cell set and the mode and timing of the one before (1218).
FollowsServing ==
  strPbsPara.band # 0 =>
    /\ tddfdd_mode = IF strPbsPara.band >= 33 THEN "TDD" ELSE "FDD"
    /\ tddfdd_mode = "TDD" =>
         strSynPara = [band |-> strPbsPara.band, earfcn |-> strPbsPara.earfcn, pci |-> report.serving.pci]

\* The cell imitated is the one the rules of the choice name, the order of the lists and what other reports
\* left in the array notwithstanding (lte_cell_sel.c:827, 1011), and its timing is that of a cell heard; also
\* after reports that the scan thread stores when the choice is over.  One that it stores in the middle of a
\* choice mixes with the report chosen from (1175, 1290), and the board may name another cell (lte_sm.c:350).
RightCell ==
  /\ CountedCellsRead
  /\ report # NoReport =>
       WeakestNeighbour(strPbsPara, report) /\ WeakestOfLowest(strPbsPara, report) /\ FollowsServing
=============================================================================
