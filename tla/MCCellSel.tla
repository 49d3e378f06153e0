------------------------------ MODULE MCCellSel ------------------------------
(* Reports for CellSel: serving cells of either mode, of no band or none, neighbours of which two are  *)
(* equally strong, and frequencies above and below the priority of the serving cell.                 *)
EXTENDS CellSel

MCCell(pci, rsrp, srxlev) == [pci |-> pci, rsrp |-> rsrp, srxlev |-> srxlev]
MCFreq(earfcn, priority, threshX, cells) ==
  [earfcn |-> earfcn, priority |-> priority, threshX |-> threshX, cells |-> cells]

MCNeighbours == <<MCCell(3, 30, 1), MCCell(1, 20, 9), MCCell(2, 20, 5)>>
MCFreqs == <<MCFreq(1825, 6, 8, <<MCCell(12, 30, 7)>>), MCFreq(1650, 3, 1, <<MCCell(11, 30, 5)>>),
             MCFreq(100, 5, 4, <<MCCell(13, 30, 5), MCCell(14, 20, 5), MCCell(15, 10, 9)>>)>>
MCServingFdd == [band |-> 3, earfcn |-> 1300, pci |-> 101, cellId |-> 65300]
MCServingTdd == [band |-> 41, earfcn |-> 40738, pci |-> 102, cellId |-> 7]
MCReport(serving, sib3, intra, inter) ==
  [answered |-> TRUE, main |-> TRUE, serving |-> serving, sib3 |-> sib3, intra |-> intra, inter |-> inter]

MCServingNoBand == [band |-> 0, earfcn |-> 1300, pci |-> 103, cellId |-> 8]

MCReports ==
  {MCReport(MCServingFdd, TRUE, MCNeighbours, <<>>), MCReport(MCServingFdd, FALSE, <<>>, MCFreqs),
   MCReport(MCServingTdd, TRUE, <<MCCell(3, 30, 1)>>, <<>>),
   MCReport(MCServingNoBand, FALSE, <<>>, <<>>), MCReport(NoServing, TRUE, <<>>, <<>>)}
    \cup {[NoReport EXCEPT !.answered = answered] : answered \in BOOLEAN}

MCUpdates == {[pbs |-> FirstCell, syn |-> [band |-> 41, earfcn |-> 40738, pci |-> 163]]}
=============================================================================
