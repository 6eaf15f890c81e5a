--------------------------- MODULE MCPageRequests ---------------------------
(* A grid of three pages and two requests under way at once.                *)
EXTENDS PageRequests
TwoSlots == {1, 2}
=============================================================================
