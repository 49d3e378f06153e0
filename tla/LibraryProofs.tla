------------------------------ MODULE LibraryProofs ------------------------------
(***************************************************************************)
(* The parts of the library together (MCLibrary): a behaviour of the whole *)
(* is a behaviour of each part, so what is proved of a part holds of the   *)
(* whole, for all values of the constants.                                 *)
(***************************************************************************)
EXTENDS MCLibrary, OssTimerProofs, ContainerProofs, DeviceProofs

\* A step of the whole is a step of each part or leaves it alone.
LEMMA StepsOfParts ==
  [LibNext]_libvars =>
    /\ [Next]_vars
    /\ [TickNext]_tickvars
    /\ [RingNext]_ringvars
    /\ [ListNext]_listvars
    /\ [NetNext]_netvars
    /\ [SimNext]_simvars
    /\ [CfgNext]_cfgvars
    /\ [LifeNext]_lifevars
    /\ [ReadNext]_readvars
    /\ [CellNext]_cellvars
<1> SUFFICES ASSUME [LibNext]_libvars
             PROVE  /\ [Next]_vars
                    /\ [TickNext]_tickvars
                    /\ [RingNext]_ringvars
                    /\ [ListNext]_listvars
                    /\ [NetNext]_netvars
                    /\ [SimNext]_simvars
                    /\ [CfgNext]_cfgvars
                    /\ [LifeNext]_lifevars
                    /\ [ReadNext]_readvars
                    /\ [CellNext]_cellvars
  OBVIOUS
<1>1. [Next]_vars
  BY DEF LibNext, Others, libvars
<1>2. [TickNext]_tickvars
  BY DEF LibNext, Others, libvars
<1>3. [RingNext]_ringvars
  BY DEF LibNext, Others, libvars
<1>4. [ListNext]_listvars
  BY DEF LibNext, Others, libvars
<1>5. [NetNext]_netvars
  BY DEF LibNext, Others, libvars
<1>6. [SimNext]_simvars
  BY DEF LibNext, Others, libvars
<1>7. [CfgNext]_cfgvars
  BY DEF LibNext, Others, libvars
<1>8. [LifeNext]_lifevars
  BY DEF LibNext, Others, libvars
<1>9. [ReadNext]_readvars
  BY DEF LibNext, Others, libvars
<1>10. [CellNext]_cellvars
  BY DEF LibNext, Others, libvars
<1> QED
  BY <1>1, <1>2, <1>3, <1>4, <1>5, <1>6, <1>7, <1>8, <1>9, <1>10

\* The whole begins as each part does.
LEMMA StartsOfParts ==
  LibInit =>
    /\ Init /\ TickInit /\ RingInit /\ ListInit /\ NetInit
    /\ SimInit /\ CfgInit /\ LifeInit /\ ReadInit /\ CellInit
  BY DEF LibInit

\* The whole implements each part.
LEMMA EachPart ==
  LibSpec =>
    /\ Spec /\ TickSpec /\ RingSpec /\ ListSpec /\ NetSpec
    /\ SimSpec /\ CfgSpec /\ LifeSpec /\ ReadSpec /\ CellSelSpec
<1> QED
  BY StartsOfParts, StepsOfParts, PTL
  DEF LibSpec, Spec, TickSpec, RingSpec, ListSpec, NetSpec, SimSpec, CfgSpec, LifeSpec,
      ReadSpec, CellSelSpec

\* Every part of the library is in order in every behaviour of the whole: a timer that is set finds a
\* slot, a list is linked through its nodes, a session is in the table from its accept to its close, and
\* the variables have values the code can give them; for any sizes, files and events, when a timer is
\* set to three periods at least and the table has two slots for each event.
THEOREM WholeInOrder ==
  ASSUME Long, IsFiniteSet(Events), 2 * Cardinality(Events) <= TimerEvents
  PROVE  LibSpec => []LibraryInOrder
<1>1. Spec => []Room
  BY SetFindsRoom
<1>2. /\ Spec => []TypeOK
      /\ TickSpec => []ScannedInTime
      /\ RingSpec => []RingTypeOK
      /\ SimSpec => []SimTypeOK
      /\ CfgSpec => []CfgTypeOK
      /\ LifeSpec => []LifeTypeOK
      /\ ListSpec => []ListTypeOK /\ []Linked /\ []TraverseEnds
      /\ NetSpec => []NetTypeOK /\ []SessionsListed
  BY TypeCorrect, ScansInTime, RingTypeCorrect, SimTypeCorrect, CfgTypeCorrect, LifeTypeCorrect,
     ListTypeCorrect, ListLinked, TraversalEnds, NetTypeCorrect, SessionsAreListed, PTL
<1> QED
  BY <1>1, <1>2, EachPart, PTL DEF LibraryInOrder

\* What each part promises holds of the whole, under the conditions of the part: one timer of an event is
\* fresh and timers fire on time, a deleted one never; the ring is a queue until a put goes past a get or a
\* clear; a modem that counts as registered has proved it, and its status is that of an open port unless
\* another thread interfered with its start; the columns of a row are true; one card is shown; a file that
\* is whole keeps its values; and the cell imitated is the right one of a choice nobody disturbed.
THEOREM WholeKeepsPromises ==
  LibSpec =>
    /\ []OneFresh /\ []StatusTrue /\ []RowsTrue /\ []RightCell
    /\ FiresOnTime /\ DeleteSilences /\ RingIsQueue /\ CardsApart /\ FileKeepsValues
<1>1. /\ Spec => []OneFresh /\ FiresOnTime /\ DeleteSilences
      /\ RingSpec => RingIsQueue
      /\ LifeSpec => []StatusTrue
      /\ ReadSpec => []RowsTrue
      /\ CellSelSpec => []RightCell
      /\ SimSpec => CardsApart
      /\ CfgSpec => FileKeepsValues
  BY OneFreshTimer, OnTime, DeleteSilencesEvent, RingImplementsQueue, StatusIsTrue, RowsAreTrue,
     ImitatesRightCell, CardsKeptApart, FileKept
<1> QED
  BY <1>1, EachPart
=============================================================================
