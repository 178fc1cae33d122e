---------------------------- MODULE MCListColumns ----------------------------
(* Widths on both sides of every threshold in list.go.                     *)
EXTENDS ListColumns

MCTermWidths == {1, 7, 29, 30, 36, 37, 53, 80, 159, 160}
MCPathLengths == {1, 4, 21, 60}
MCBranchLengths == {1, 7, 30, 100}
MCMaxPathFlags == {-1, 0, 3, 30, 56}
MCMaxPathEnvs == {0, 2, 40}
=============================================================================
