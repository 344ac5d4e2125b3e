---------------------------- MODULE MCDemoSession ----------------------------
(***************************************************************************)
(* Instances of DemoSession for TLC.                                       *)
(***************************************************************************)
EXTENDS DemoSession

\* The market may be flat for one or two candles in the middle of the file.
MCFlatable == {2, 3}
=============================================================================
