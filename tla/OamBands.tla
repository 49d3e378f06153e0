-------------------------------- MODULE OamBands --------------------------------
(***************************************************************************)
(* The operators and their bands, lte_oam.c: a list of operators ordered   *)
(* by number, each with a list of bands in the order they were inserted.   *)
(* The band an operator starts with is the one of highest priority.        *)
(***************************************************************************)
EXTENDS Naturals, Sequences

Seqs == INSTANCE SequencesExt

CONSTANTS
  BandSet,        \* the bands that are inserted, and changed to
  OperSet,        \* the operators, numbers
  MaxNodes        \* bound on the nodes of each list

FDD == 0
TDD == 1

\* oam_bands_node_t and oam_opers_list_t
Band == [workMode : {FDD, TDD}, band : Nat, priority : Nat]
OperNode == [oper : OperSet, bands : Seq(Band)]

ASSUME BandsAssumption == OperSet \subseteq Nat /\ BandSet \subseteq Band

VARIABLE
  opers           \* p_opers_list

\* The place of the first node of operator o, 0 for none.
OperAt(l, o) ==
  LET hits == {n \in 1 .. Len(l) : l[n].oper = o}
  IN  IF hits = {} THEN 0 ELSE CHOOSE n \in hits : \A p \in hits : n <= p

BandsOf(l, o) == IF OperAt(l, o) = 0 THEN <<>> ELSE l[OperAt(l, o)].bands

-----------------------------------------------------------------------------
(* Changes of the lists; lte_oam_init makes the insertions, nothing the others *)

\* Before the first operator that is not smaller.
PlaceOf(l, o) ==
  LET after == {n \in 1 .. Len(l) : o <= l[n].oper}
  IN  IF after = {} THEN Len(l) + 1 ELSE CHOOSE n \in after : \A p \in after : n <= p

OperInserted(l, o) == Seqs!InsertAt(l, PlaceOf(l, o), [oper |-> o, bands |-> <<>>])

\* At the end of the bands of the first node of its operator.
BandInserted(l, o, b) ==
  IF OperAt(l, o) = 0 THEN l ELSE [l EXCEPT ![OperAt(l, o)].bands = Append(@, b)]

oam_oper_list_insert(o) ==
  /\ Len(opers) < MaxNodes /\ OperAt(opers, o) = 0
  /\ opers' = OperInserted(opers, o)

oam_bands_list_insert(o, b) ==
  /\ Len(BandsOf(opers, o)) < MaxNodes
  /\ opers' = BandInserted(opers, o, b)

\* The first band of the number goes.
Without(bs, band) ==
  LET hits == {n \in 1 .. Len(bs) : bs[n].band = band}
  IN  IF hits = {} THEN bs ELSE Seqs!RemoveAt(bs, CHOOSE n \in hits : \A p \in hits : n <= p)

oam_bands_list_delete(o, band) ==
  /\ OperAt(opers, o) # 0
  /\ opers' = [opers EXCEPT ![OperAt(opers, o)].bands = Without(@, band)]

\* Of an empty list the first node is looked at all the same: callers have one.
oam_oper_list_delete(o) ==
  /\ opers # <<>>
  /\ opers' = IF OperAt(opers, o) = 0 THEN opers ELSE Seqs!RemoveAt(opers, OperAt(opers, o))

oam_band_prio_modify(o, band, p) ==
  /\ OperAt(opers, o) # 0
  /\ LET k == OperAt(opers, o)
         hits == {n \in 1 .. Len(opers[k].bands) : opers[k].bands[n].band = band}
     IN  /\ hits # {}
         /\ opers' = [opers EXCEPT ![k].bands[CHOOSE n \in hits : \A q \in hits : n <= q].priority = p]

-----------------------------------------------------------------------------
(* Choices *)

\* One turn of the loops: the best so far starts with priority 0.
Better(b, best) == b.priority > best.priority

\* The loop over the bands, which passes over those of other modes.
Highest(bs, modes) ==
  LET best[n \in 0 .. Len(bs)] ==
        IF n = 0 THEN [workMode |-> FDD, band |-> 0, priority |-> 0]
        ELSE IF bs[n].workMode \in modes /\ Better(bs[n], best[n - 1]) THEN bs[n] ELSE best[n - 1]
  IN  best[Len(bs)]

\* get_highPrio_band_byOper: no band of a priority above 0, no choice.
BestOfOper(l, o) == Highest(BandsOf(l, o), {FDD, TDD})

\* get_highPrio_band_byMode
BestOfMode(l, o, mode) == Highest(BandsOf(l, o), {mode})

\* oam_band_check
Offered(l, o, band) == \E n \in 1 .. Len(BandsOf(l, o)) : BandsOf(l, o)[n].band = band

\* lte_oam_init: the operators, and the bands of each with their priorities.
TableOfInit ==
  LET B(m, b, p) == [workMode |-> m, band |-> b, priority |-> p]
  IN  <<[oper |-> 0, bands |-> <<B(TDD, 38, 7), B(TDD, 41, 5), B(TDD, 39, 3), B(TDD, 40, 0)>>],
        [oper |-> 1, bands |-> <<B(FDD, 3, 7), B(FDD, 1, 5), B(TDD, 41, 6)>>],
        [oper |-> 2, bands |-> <<B(FDD, 1, 6), B(FDD, 3, 5), B(TDD, 41, 4)>>]>>

BandsInit == opers = <<>>

BandsNext ==
  \/ \E o \in OperSet :
       \/ oam_oper_list_insert(o) \/ oam_oper_list_delete(o)
       \/ \E b \in BandSet :
            \/ oam_bands_list_insert(o, b) \/ oam_bands_list_delete(o, b.band)
            \/ oam_band_prio_modify(o, b.band, b.priority)

BandsSpec == BandsInit /\ [][BandsNext]_opers

-----------------------------------------------------------------------------
(* Properties *)

InOrder(l) == \A n \in 1 .. Len(l) - 1 : l[n].oper < l[n + 1].oper

\* The operators are in order, each once; and the band an operator is started on is the first of those
\* of its highest priority, whatever was inserted, deleted and changed before (lte_oam.c:148, 545).
BandsInOrder ==
  /\ \A n \in 1 .. Len(opers) : opers[n].oper \in OperSet
  /\ InOrder(opers)
  /\ \A o \in OperSet :
       LET bs == BandsOf(opers, o)
           best == BestOfOper(opers, o)
       IN  IF \A n \in 1 .. Len(bs) : bs[n].priority = 0 THEN best.band = 0
           ELSE \E n \in 1 .. Len(bs) :
                  /\ bs[n] = best
                  /\ \A m \in 1 .. Len(bs) : bs[m].priority <= best.priority
                  /\ \A m \in 1 .. n - 1 : bs[m].priority < best.priority
=============================================================================
