--------------------------- MODULE MCPpuBackground ---------------------------
(* Whole lines of the hardware, of which there are four: the last, whose   *)
(* successor is the first, and enough to see a row of a tile change.  The  *)
(* scrolls cover each phase of a tile relative to the ends of the fetches, *)
(* both nametables and the first and last column.                          *)
EXTENDS PpuBackground

Setting(x, y, nt, table) == [scroll_x |-> x, scroll_y |-> y, nt |-> nt, table |-> table]

MCSettings ==
    {Setting(0, 0, 0, 0), Setting(1, 14, 1, 1), Setting(2, 30, 0, 1), Setting(3, 238, 0, 0),
     Setting(4, 0, 1, 0), Setting(6, 31, 0, 0), Setting(7, 100, 1, 0), Setting(248, 15, 0, 1),
     Setting(253, 0, 0, 0), Setting(255, 7, 1, 1)}
=============================================================================
