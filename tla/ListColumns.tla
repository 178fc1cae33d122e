----------------------------- MODULE ListColumns -----------------------------
(***************************************************************************)
(* How jtp list lays out its table (cmd/wtp/list.go): the options, the     *)
(* widths of the columns and the truncation of a cell.  Everything the     *)
(* layout depends on is a length, so a path or a branch is its length in   *)
(* bytes; a cell is cut to a prefix, "..." and a suffix of given lengths.  *)
(***************************************************************************)
EXTENDS Integers

CONSTANTS
    TermWidths,   \* what getTerminalWidth answers; 80 when there is none
    PathLengths,  \* the longest worktree name, the "*" of the current one included
    BranchLengths, \* the longest branch
    MaxPathFlags, \* --max-path-width
    MaxPathEnvs   \* WTP_LIST_MAX_PATH; not positive when unset or not a number

ASSUME ListAssumption ==
    /\ TermWidths \subseteq Nat \ {0}
    /\ PathLengths \subseteq Nat \ {0} /\ BranchLengths \subseteq Nat \ {0}
    /\ MaxPathFlags \subseteq Int /\ MaxPathEnvs \subseteq Int

headDisplayLength == 8
defaultMaxPathWidth == 56
superWideThreshold == 160
pathPadding == 2
minPathWidth == 20
columnSpacing == 3
columnSpacingSlots == 3

PathHeader == 4      \* len("PATH")
BranchHeader == 6    \* len("BRANCH")
StatusHeader == 6    \* len("STATUS")

Larger(a, b) == IF a >= b THEN a ELSE b
Smaller(a, b) == IF a <= b THEN a ELSE b

VARIABLES
    call,   \* the listing asked for
    stage,  \* "asked" or "shown"
    widths  \* the widths of the columns

vars == <<call, stage, widths>>

Calls ==
    [term : TermWidths, path : PathLengths, branch : BranchLengths,
     unmanaged : BOOLEAN, compact : BOOLEAN, tty : BOOLEAN,
     flag : MaxPathFlags, set : BOOLEAN, env : MaxPathEnvs]

-----------------------------------------------------------------------------
(* Options and metrics.                                                    *)

\* resolveListDisplayOptions: the flag, unless it is at its default and was not
\* given; then the environment; never a width that is not positive.
MaxPathWidth(c) ==
    LET asked == IF c.flag = defaultMaxPathWidth /\ ~c.set /\ c.env > 0
                   THEN c.env ELSE c.flag
    IN  IF asked <= 0 THEN defaultMaxPathWidth ELSE asked

\* listCommandWithWorktrees.
Compact(c) == c.compact \/ ~c.tty \/ c.term >= superWideThreshold

\* collectListDisplayData: "managed", or "unmanaged" for one row at least.
MaxPathLen(c) == Larger(c.path, PathHeader)
MaxBranchLen(c) == Larger(c.branch, BranchHeader)
MaxStatusLen(c) == Larger(IF c.unmanaged THEN 9 ELSE 7, StatusHeader)

-----------------------------------------------------------------------------
(* Widths.                                                                 *)

\* clampBranchAndStatusWidths: the branch leaves minPathWidth to the path.
StatusWidth(c) == Larger(MaxStatusLen(c), StatusHeader)
LeftForBranch(c) ==
    c.term - minPathWidth - StatusWidth(c)
      - columnSpacing * columnSpacingSlots - headDisplayLength
BranchWidthNoFloor(c) == Smaller(MaxBranchLen(c), LeftForBranch(c))
BranchWidth(c) == Larger(Smaller(MaxBranchLen(c), LeftForBranch(c)), BranchHeader)

\* The room the layout gives to the path.  It reserves columnSpacing, three
\* columns, after each of the other cells where a row prints one space: six
\* columns of the terminal stay unused.
AvailableForPath(c) ==
    Larger(c.term - columnSpacing - BranchWidth(c) - columnSpacing - StatusWidth(c)
             - columnSpacing - headDisplayLength,
           PathHeader)

CompactWidth(width, len) == Larger(Smaller(width, Larger(len, PathHeader)), PathHeader)
ExpandedWidth(width, len) ==
    Larger(Smaller(width, Larger(len + pathPadding, minPathWidth)), minPathWidth)

FittedWidth(c) ==
    IF Compact(c) THEN CompactWidth(AvailableForPath(c), MaxPathLen(c))
                  ELSE ExpandedWidth(AvailableForPath(c), MaxPathLen(c))

\* derivePathWidth.
PathWidthNoCeiling(c) ==
    Larger(Smaller(FittedWidth(c), MaxPathWidth(c)), PathHeader)
PathWidthFixed(c) ==
    Larger(Smaller(Smaller(minPathWidth, MaxPathWidth(c)), AvailableForPath(c)), PathHeader)
PathWidth(c) ==
    Larger(Smaller(Smaller(FittedWidth(c), MaxPathWidth(c)), AvailableForPath(c)), PathHeader)

\* truncatePath on a cell of len bytes: the lengths of what is kept of its start
\* and of its end, and of the dots between them.
TruncateNoReserve(len, width) ==
    IF len <= width THEN [start |-> len, dots |-> 0, end |-> 0]
    ELSE IF width <= 3 THEN [start |-> width, dots |-> 0, end |-> 0]
    ELSE [start |-> width \div 3, dots |-> 3, end |-> width - (width \div 3)]
Truncate(len, width) ==
    IF len <= width THEN [start |-> len, dots |-> 0, end |-> 0]
    ELSE IF width <= 3 THEN [start |-> width, dots |-> 0, end |-> 0]
    ELSE [start |-> (width - 3) \div 3, dots |-> 3,
          end |-> (width - 3) - ((width - 3) \div 3)]

-----------------------------------------------------------------------------
NoWidths == [path |-> 0, branch |-> 0, status |-> 0]

Init == call \in Calls /\ stage = "asked" /\ widths = NoWidths

\* displayWorktreesRelative.
Show ==
    /\ stage = "asked"
    /\ stage' = "shown"
    /\ widths' = [path |-> PathWidth(call), branch |-> BranchWidth(call),
                  status |-> StatusWidth(call)]
    /\ UNCHANGED call

Next == Show

Spec == Init /\ [][Next]_vars

-----------------------------------------------------------------------------
(* Properties.                                                             *)

TypeOK ==
    /\ call \in Calls
    /\ stage \in {"asked", "shown"}
    /\ widths \in [path : Nat, branch : Nat, status : Nat]

\* A row: three padded columns, a space after each, and the commit.
RowLength == widths.path + 1 + widths.branch + 1 + widths.status + 1 + headDisplayLength

\* No line is longer than the terminal is wide, as soon as the terminal has room
\* for the headers.
RowFits ==
    stage = "shown" /\ call.term >= PathHeader + BranchHeader + StatusWidth(call)
                                      + 3 + headDisplayLength
        => RowLength <= call.term

\* What is kept of a cell lies within the cell and within its column, and a cut
\* cell keeps its end.
CutIsSound(len, width) ==
    LET t == Truncate(len, width)
    IN  /\ t.start >= 0 /\ t.end >= 0
        /\ t.start + t.end <= len
        /\ t.start + t.dots + t.end <= width
        /\ t.start < len => t.end >= 1

\* However narrow the terminal and the limits, the cells of all three columns are
\* cut within their bounds and to their column, and keep their end: the "*" that
\* marks the current worktree is never lost.
CutsAreSound ==
    stage = "shown" =>
        /\ \A len \in 1..call.path : CutIsSound(len, widths.path)
        /\ \A len \in 1..call.branch : CutIsSound(len, widths.branch)
        /\ \A len \in 1..MaxStatusLen(call) : CutIsSound(len, widths.status)

\* What the row leaves of the terminal when the layout has reserved spacing that
\* the row does not print: two columns in each of three places.
Unprinted == columnSpacingSlots * (columnSpacing - 1)

\* Nothing is cut while the terminal has room to show for it, but for the spacing
\* that is reserved and never printed: a path is cut at the limit, or in a row
\* that leaves at most six columns free; a branch is cut in a row that leaves no
\* more than those six and what the paths do not use of minPathWidth.
CutsAreNeeded ==
    stage = "shown" =>
        /\ widths.path < call.path /\ widths.path < MaxPathWidth(call)
             => RowLength + Unprinted >= call.term
        /\ widths.branch < call.branch
             => RowLength + Unprinted + Larger(0, minPathWidth - widths.path) >= call.term
=============================================================================
