----------------------------- MODULE MCFullProbe -----------------------------
(***************************************************************************)
(* The instance of FullProbe that the tool is: its speeds, registers       *)
(* 2001..2004.                                                             *)
(***************************************************************************)
EXTENDS FullProbe

MCSpeeds == <<30, 50, 70, 100>>
=============================================================================
