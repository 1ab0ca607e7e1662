------------------------------ MODULE Terminal ------------------------------
(***************************************************************************)
(* The cursor of a terminal, as the escape sequences of printEntry move it. *)
(* A position has the line, counted from the one where a report starts, and *)
(* the row of the window that this line is on.                              *)
(***************************************************************************)
EXTENDS Integers

At(line, row) == [line |-> line, row |-> row]

\* A line feed: on the last row the window scrolls.
NewLine(p, rows) == At(p.line + 1, IF p.row < rows THEN p.row + 1 ELSE rows)

\* A terminal takes the parameter 0 of a move for 1.
Moves(n) == IF n = 0 THEN 1 ELSE n

\* ESC[nA and ESC[nB: the cursor stops at the first and at the last row.
Up(p, n) ==
  LET d == IF Moves(n) < p.row THEN Moves(n) ELSE p.row - 1 IN At(p.line - d, p.row - d)

Down(p, n, rows) ==
  LET d == IF Moves(n) < rows - p.row THEN Moves(n) ELSE rows - p.row IN At(p.line + d, p.row + d)

=============================================================================
