---------------------------- MODULE MCAdcKeypad ----------------------------
(***************************************************************************)
(* Two keys of the ladder for the runs of AdcKeypad.                       *)
(***************************************************************************)
EXTENDS AdcKeypad

CONSTANTS up, esc

MCStroke == [key : {up, esc}, down : BOOLEAN]
=============================================================================
