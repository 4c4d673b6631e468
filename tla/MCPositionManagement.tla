------------------------ MODULE MCPositionManagement ------------------------
EXTENDS PositionManagement

\* One decision of each kind the guard and the executor treat differently.
D(action, type, stop, pct) ==
  [action |-> action, type |-> type, stop |-> stop, pct |-> pct]
StopsAdvised == {101500}
MCAdvised ==
  {D("TIGHTEN_SL", "modify_stop", s, "none") : s \in StopsAdvised}
  \cup {D("SCALE_OUT", "modify_stop", s, "none") : s \in StopsAdvised}
  \cup {D("LOOSEN_SL", "modify_stop", 99500, "none"),
        D("TRAIL_SL", "modify_stop", 0, "none"),
        D("MOVE_SL_TO_BREAKEVEN", "modify_stop", 0, "none")}
  \cup {D("TAKE_PARTIAL_PROFIT", "partial_exit", 0, "high")}
  \cup {D("REVERSE_AND_REOPEN", "full_exit", 0, "high"),
        D("SCALE_IN", "scale_in", 0, "in"), D("HOLD_AND_MONITOR", "full_exit", 0, "high"),
        D("TIGHTEN_SL", "full_exit", 0, "none")}
MCSetups == {<<"LONG", "SWING">>, <<"SHORT", "SWING">>, <<"SHORT", "INTRADAY">>}
MCPrices == {100000, 103000}
=============================================================================
