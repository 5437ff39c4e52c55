--------------------------- MODULE MC_DeviceQueries ---------------------------
(* DeviceQueries with one control of each kind that the code treats apart. *)
EXTENDS DeviceQueries

Ctrl(typ, class, min, max, step, known) ==
  [typ |-> typ, class |-> class, minimum |-> min, maximum |-> max, step |-> step,
   known |-> known]

MCInteger     == Ctrl("Integer", "user", 0, 3, 1, {})
MCBoolean     == Ctrl("Boolean", "user", 0, 1, 1, {})
MCString      == Ctrl("String", "user", 0, 1, 1, {})
MCIntegerMenu == Ctrl("IntegerMenu", "user", 0, 1, 1, {0, 1})
MCInteger64   == Ctrl("Integer64", "camera", 0, 6, 1, {})
MCMenu        == Ctrl("Menu", "camera", 0, 2, 1, {0, 2})
MCStepMenu    == Ctrl("Menu", "camera", 0, 3, 2, {0, 2, 3})   \* no step leads to 3
MCZeroMenu    == Ctrl("IntegerMenu", "user", 0, 1, 0, {0, 1})

MCDevices ==
  { << >>, << MCInteger64 >>, << MCInteger, MCBoolean >>, << MCInteger64, MCMenu >>,
    << MCIntegerMenu, MCInteger >>, << MCMenu, MCIntegerMenu >>, << MCString, MCBoolean >>,
    << MCInteger, MCInteger64 >>, << MCStepMenu >>, << MCBoolean, MCZeroMenu >> }
MCStringOnly == { << MCString >> }
MCNumbers == {0, 1, 6, 9}
MCRanges  ==
  { [min |-> 1, max |-> 4, step |-> 1], [min |-> 1, max |-> 4, step |-> 2],
    [min |-> 2, max |-> 2, step |-> 0], [min |-> 2, max |-> 1, step |-> 2] }

===============================================================================
