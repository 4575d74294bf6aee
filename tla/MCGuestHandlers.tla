--------------------------- MODULE MCGuestHandlers ---------------------------
EXTENDS GuestHandlers

MCStackSeg == 32768
MCTop == 8
MCCode == {[sel |-> 4095, ip |-> 65534], [sel |-> 112, ip |-> 256]}
MCGates == [v \in {19} |-> [sel |-> 1792, ip |-> 4]]
MCFlagWords == {0, 769}
MCPushed == {7}
MCOperands == {0,6}
MCDwords == {[hi |-> 1, lo |-> 3]}
=============================================================================
