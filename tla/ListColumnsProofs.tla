-------------------------- MODULE ListColumnsProofs --------------------------
(* Theorems about ListColumns, for terminals, names and limits of any width. *)
EXTENDS ListColumns, TLAPS

\* The lengths and the limit a layout starts from are whole numbers, and the
\* limit is positive.
LEMMA InputType ==
    ASSUME ListAssumption, NEW c \in Calls
    PROVE  /\ c.term \in Nat \ {0} /\ c.path \in Nat \ {0}
           /\ MaxPathLen(c) \in Nat /\ MaxPathLen(c) >= c.path
           /\ c.branch \in Nat /\ MaxBranchLen(c) \in Nat /\ MaxBranchLen(c) >= c.branch
           /\ StatusWidth(c) \in 7..9 /\ MaxStatusLen(c) = StatusWidth(c)
           /\ MaxPathWidth(c) \in Nat \ {0}
  <1>1. /\ c.term \in Nat \ {0} /\ c.path \in Nat \ {0} /\ c.branch \in Nat \ {0}
        /\ c.flag \in Int /\ c.env \in Int
    BY DEF ListAssumption, Calls
  <1>2. /\ MaxPathLen(c) \in Nat /\ MaxPathLen(c) >= c.path
        /\ MaxBranchLen(c) \in Nat /\ MaxBranchLen(c) >= c.branch
    BY <1>1 DEF MaxPathLen, MaxBranchLen, Larger, PathHeader, BranchHeader
  <1>3. StatusWidth(c) \in 7..9 /\ MaxStatusLen(c) = StatusWidth(c)
    BY DEF StatusWidth, MaxStatusLen, Larger, StatusHeader
  <1>4. MaxPathWidth(c) \in Nat \ {0}
    BY <1>1 DEF MaxPathWidth, defaultMaxPathWidth
  <1> QED
    BY <1>1, <1>2, <1>3, <1>4

\* The branch column shows its header, and falls short of the longest branch only
\* at the end of the room that minPathWidth leaves.
LEMMA BranchWidthBounds ==
    ASSUME ListAssumption, NEW c \in Calls
    PROVE  /\ BranchWidth(c) \in Nat /\ BranchWidth(c) >= BranchHeader
           /\ BranchWidth(c) > BranchHeader => BranchWidth(c) <= LeftForBranch(c)
           /\ BranchWidth(c) < MaxBranchLen(c) => BranchWidth(c) >= LeftForBranch(c)
           /\ LeftForBranch(c) = c.term - StatusWidth(c) - 37
  BY InputType DEF BranchWidth, LeftForBranch, Larger, Smaller, BranchHeader,
       minPathWidth, columnSpacing, columnSpacingSlots, headDisplayLength

\* The room for the path is what the other columns leave, and never less than
\* its header.
LEMMA AvailableBounds ==
    ASSUME ListAssumption, NEW c \in Calls
    PROVE  /\ AvailableForPath(c) \in Nat /\ AvailableForPath(c) >= PathHeader
           /\ \/ AvailableForPath(c) = PathHeader
              \/ AvailableForPath(c) = c.term - BranchWidth(c) - StatusWidth(c) - 17
  BY InputType, BranchWidthBounds DEF AvailableForPath, Larger, PathHeader,
       columnSpacing, headDisplayLength

\* The path column lies between its header and the room it has, and falls short
\* of the longest path only at the limit or at the end of that room.
LEMMA PathWidthBounds ==
    ASSUME ListAssumption, NEW c \in Calls
    PROVE  /\ PathWidth(c) \in Nat
           /\ PathWidth(c) >= PathHeader
           /\ PathWidth(c) <= AvailableForPath(c)
           /\ PathWidth(c) < MaxPathLen(c) =>
                \/ PathWidth(c) >= MaxPathWidth(c)
                \/ PathWidth(c) = AvailableForPath(c)
  <1>1. /\ MaxPathLen(c) \in Nat /\ MaxPathWidth(c) \in Nat
        /\ AvailableForPath(c) \in Nat /\ AvailableForPath(c) >= 4
    BY InputType, AvailableBounds DEF PathHeader
  <1>2. /\ FittedWidth(c) \in Nat
        /\ FittedWidth(c) < MaxPathLen(c) => FittedWidth(c) >= AvailableForPath(c)
    BY <1>1 DEF FittedWidth, CompactWidth, ExpandedWidth, Larger, Smaller, PathHeader,
         pathPadding, minPathWidth
  <1> QED
    BY <1>1, <1>2 DEF PathWidth, Larger, Smaller, PathHeader

\* What truncatePath keeps of a cell lies within the cell and within the column,
\* and has the end of the cell in it.
LEMMA TruncateBounds ==
    ASSUME NEW len \in Nat, NEW width \in Nat, width >= PathHeader
    PROVE  CutIsSound(len, width)
  <1> DEFINE third == (width - 3) \div 3
  <1>1. width - 3 \in Nat /\ width - 3 >= 1
    BY DEF PathHeader
  <1>2. third \in Nat /\ 3 * third <= width - 3
    BY <1>1
  <1>3. CASE len <= width
    BY <1>3 DEF CutIsSound, Truncate
  <1>4. CASE len > width
    <2>1. Truncate(len, width) = [start |-> third, dots |-> 3, end |-> (width - 3) - third]
      BY <1>1, <1>4 DEF Truncate
    <2> HIDE DEF third
    <2> QED
      BY <1>1, <1>2, <1>4, <2>1 DEF CutIsSound
  <1> QED
    BY <1>3, <1>4

\* What is shown was laid out by the functions above, for a listing of Calls.
Laid ==
    /\ call \in Calls
    /\ stage \in {"asked", "shown"}
    /\ widths = IF stage = "shown"
                  THEN [path |-> PathWidth(call), branch |-> BranchWidth(call),
                        status |-> StatusWidth(call)]
                  ELSE NoWidths

\* Laid holds in every reachable state.
LEMMA LaidInvariant == Spec => []Laid
  <1>1. Init => Laid
    BY DEF Init, Laid
  <1>2. Laid /\ [Next]_vars => Laid'
    BY DEF Laid, Next, Show, vars
  <1> QED
    BY <1>1, <1>2, PTL DEF Spec

\* The widths a listing ends with are natural numbers: the floors mend what the
\* subtractions before them leave negative.
THEOREM ListTypeCorrect == Spec => []TypeOK
  <1>1. Laid => TypeOK
    BY ListAssumption, InputType, BranchWidthBounds, PathWidthBounds DEF Laid, TypeOK, NoWidths
  <1> QED
    BY <1>1, LaidInvariant, PTL

\* No row of jtp list is wider than a terminal that has room for the headers.
THEOREM RowsFit == Spec => []RowFits
  <1>1. Laid => RowFits
    <2> SUFFICES ASSUME Laid, stage = "shown",
                        call.term >= PathHeader + BranchHeader + StatusWidth(call)
                                       + 3 + headDisplayLength
                 PROVE  RowLength <= call.term
      BY DEF RowFits
    <2>1. call \in Calls /\ widths = [path |-> PathWidth(call),
             branch |-> BranchWidth(call), status |-> StatusWidth(call)]
      BY DEF Laid
    <2>2. PathWidth(call) <= AvailableForPath(call) /\ PathWidth(call) \in Nat
      BY <2>1, ListAssumption, PathWidthBounds
    <2>3. PathWidth(call) + BranchWidth(call) + StatusWidth(call) + 11 <= call.term
      BY <2>1, <2>2, ListAssumption, InputType, BranchWidthBounds, AvailableBounds
         DEF PathHeader, BranchHeader, headDisplayLength
    <2>4. StatusWidth(call) \in Nat /\ BranchWidth(call) \in Nat
      BY <2>1, ListAssumption, InputType, BranchWidthBounds
    <2> QED
      BY <2>1, <2>2, <2>3, <2>4 DEF RowLength, headDisplayLength
  <1> QED
    BY <1>1, LaidInvariant, PTL

\* In each of the three columns, no cut of truncatePath leaves its cell or its
\* column, or loses the end of the cell.
THEOREM CutsSound == Spec => []CutsAreSound
  <1>1. Laid => CutsAreSound
    <2> SUFFICES ASSUME Laid, stage = "shown" PROVE CutsAreSound
      BY DEF CutsAreSound
    <2>1. call \in Calls /\ widths = [path |-> PathWidth(call),
             branch |-> BranchWidth(call), status |-> StatusWidth(call)]
      BY DEF Laid
    <2>2. /\ call.path \in Nat /\ call.branch \in Nat
          /\ MaxStatusLen(call) \in Nat
      BY <2>1, ListAssumption, InputType
    <2>3. /\ PathWidth(call) \in Nat /\ PathWidth(call) >= PathHeader
          /\ BranchWidth(call) \in Nat /\ BranchWidth(call) >= PathHeader
          /\ StatusWidth(call) \in Nat /\ StatusWidth(call) >= PathHeader
      BY <2>1, ListAssumption, InputType, PathWidthBounds, BranchWidthBounds
         DEF PathHeader, BranchHeader
    <2>4. \A len \in 1..call.path : CutIsSound(len, widths.path)
      BY <2>1, <2>2, <2>3, TruncateBounds
    <2>5. \A len \in 1..call.branch : CutIsSound(len, widths.branch)
      BY <2>1, <2>2, <2>3, TruncateBounds
    <2>6. \A len \in 1..MaxStatusLen(call) : CutIsSound(len, widths.status)
      BY <2>1, <2>2, <2>3, TruncateBounds
    <2> QED
      BY <2>4, <2>5, <2>6 DEF CutsAreSound
  <1> QED
    BY <1>1, LaidInvariant, PTL

\* A path or a branch is cut only in a row that fills the terminal, up to the
\* spacing that is reserved and never printed, or for a path at its limit.
THEOREM CutsNeeded == Spec => []CutsAreNeeded
  <1>1. Laid => CutsAreNeeded
    <2> SUFFICES ASSUME Laid, stage = "shown" PROVE CutsAreNeeded
      BY DEF CutsAreNeeded
    <2>1. call \in Calls /\ widths = [path |-> PathWidth(call),
             branch |-> BranchWidth(call), status |-> StatusWidth(call)]
      BY DEF Laid
    <2>2. /\ call.term \in Nat /\ call.path \in Nat /\ call.branch \in Nat
          /\ PathWidth(call) \in Nat /\ BranchWidth(call) \in Nat
          /\ StatusWidth(call) \in Nat /\ MaxPathWidth(call) \in Nat
      BY <2>1, ListAssumption, InputType, PathWidthBounds, BranchWidthBounds
    <2>3. RowLength + Unprinted = PathWidth(call) + BranchWidth(call) + StatusWidth(call) + 17
      BY <2>1, <2>2 DEF RowLength, Unprinted, headDisplayLength, columnSpacing,
           columnSpacingSlots
    <2>4. ASSUME PathWidth(call) < call.path, PathWidth(call) < MaxPathWidth(call)
          PROVE  RowLength + Unprinted >= call.term
      <3>1. PathWidth(call) = AvailableForPath(call)
        BY <2>1, <2>2, <2>4, ListAssumption, InputType, PathWidthBounds
      <3>2. AvailableForPath(call) >= call.term - BranchWidth(call) - StatusWidth(call) - 17
        BY <2>2, ListAssumption DEF AvailableForPath, Larger, columnSpacing,
             headDisplayLength, PathHeader
      <3> QED
        BY <2>2, <2>3, <3>1, <3>2
    <2>5. ASSUME BranchWidth(call) < call.branch
          PROVE  RowLength + Unprinted + Larger(0, minPathWidth - PathWidth(call)) >= call.term
      <3>1. BranchWidth(call) >= call.term - StatusWidth(call) - 37
        BY <2>1, <2>2, <2>5, ListAssumption, InputType, BranchWidthBounds
      <3> QED
        BY <2>2, <2>3, <3>1 DEF Larger, minPathWidth
    <2> QED
      BY <2>1, <2>4, <2>5 DEF CutsAreNeeded
  <1> QED
    BY <1>1, LaidInvariant, PTL
=============================================================================
