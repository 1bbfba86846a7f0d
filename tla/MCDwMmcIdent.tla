--------------------------- MODULE MCDwMmcIdent ----------------------------
(***************************************************************************)
(* The capabilities of the two slots of this board's platform drivers, and *)
(* of two more that DwMmcHcDxe is written for.                             *)
(***************************************************************************)
EXTENDS DwMmcIdent

Slot ==
  [removable |-> TRUE, cardType |-> "sd", width |-> 4, highSpeed |-> TRUE,
   ddr50 |-> FALSE, sdr50 |-> FALSE, sdr104 |-> FALSE, s18 |-> FALSE,
   baseKHz |-> 52000]

MCCapabilities ==
  {Slot,                                           \* RkSdmmcDxe
   [Slot EXCEPT !.removable = FALSE, !.cardType = "emmc", !.width = 8],
                                                   \* RkEmmcDxe
   [Slot EXCEPT !.ddr50 = TRUE],
   [Slot EXCEPT !.sdr50 = TRUE, !.sdr104 = TRUE, !.s18 = TRUE,
                !.baseKHz = 200000]}
=============================================================================
