----------------------------- MODULE MCPumpEntry -----------------------------
(***************************************************************************)
(* A small instance of PumpEntry: an interval changed alone, a narrow      *)
(* range, and forms that must not be stored.                               *)
(***************************************************************************)
EXTENDS PumpEntry

Narrow == [interval |-> "short", min |-> 2400, max |-> 2900,
           night |-> 2400, eco |-> 2400, day |-> 2900, full |-> 2900]

MCForms ==
    {[DefaultOptions EXCEPT !.interval = "long"],
     Narrow,
     [Narrow EXCEPT !.night = 2000],              \* a profile below the limits
     [Narrow EXCEPT !.min = 2450],                \* off the grid
     [Narrow EXCEPT !.max = 2400, !.day = 2400, !.full = 2400]}  \* no range

MCPanelStates == [isaver |-> {600, 1250}, modbus |-> {0, 33}]
=============================================================================
