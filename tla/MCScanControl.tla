---------------------------- MODULE MCScanControl ----------------------------
(* Values of ScanControl's constants for TLC. *)
EXTENDS ScanControl

\* One modem of each make; a single modem of either make.
MCMaker     == [i \in 0 .. 1 |-> IF i = 0 THEN "HUAWEI" ELSE "YUGA"]
MCMaker1    == [i \in {0} |-> "HUAWEI"]
MCMakerYuga == [i \in {0} |-> "YUGA"]

\* The config as the form saves it; with a mode alone; with either key missing, but not both.
MCConfs      == [mode : {0, 1}, auto : {0, 1}]
MCConf4G     == [mode : {0}, auto : {0, 1}]
MCConfsPoor  == [mode : {0, 1, RET_FAILED}, auto : {0, 1}]
MCConfsHoles == {c \in [mode : {0, 1, RET_FAILED}, auto : {0, 1, RET_FAILED}] :
                   c.mode # RET_FAILED \/ c.auto # RET_FAILED}
=============================================================================
