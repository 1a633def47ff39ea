------------------------------ MODULE MCMatrix ------------------------------
(* Two clients, two servers and two matrices. X has a row for each server, Y *)
(* one more, and does not begin at 0. The clients may push them in either    *)
(* order, push rows that they have or have not pushed before, and pull into  *)
(* new vectors or into those of their last pull.                             *)
EXTENDS Matrix

CONSTANTS a, b, X, Y

MCClient == {a, b}
MCMatrices == {X, Y}
MCShape == [m \in MCMatrices |->
  IF m = X THEN [matrix |-> X, startRow |-> 0, endRow |-> 2, startCol |-> 0, endCol |-> 2]
  ELSE [matrix |-> Y, startRow |-> 1, endRow |-> 4, startCol |-> 2, endCol |-> 4]]

MCCalls ==
  {[op |-> "PushAll", matrix |-> X, vals |-> <<1, 2, 3, 5>>],
   [op |-> "PushAll", matrix |-> Y, vals |-> <<1, 3, 7, 2, 4, 9>>],
   [op |-> "PushRow", matrix |-> X, row |-> 1, vals |-> <<10, 30>>],
   [op |-> "PushRow", matrix |-> Y, row |-> 2, vals |-> <<10, 30>>],
   [op |-> "PullAll", matrix |-> X, fresh |-> TRUE],
   [op |-> "PullAll", matrix |-> Y, fresh |-> FALSE],
   [op |-> "GetRow", matrix |-> Y, row |-> 3, fresh |-> TRUE],
   [op |-> "RowSum", matrix |-> X, row |-> 1, fresh |-> FALSE],
   [op |-> "ColDot", matrix |-> X, matrix2 |-> X, col |-> 0, col2 |-> 1, fresh |-> TRUE]}

MCSymmetry == Permutations(MCClient)
=============================================================================
