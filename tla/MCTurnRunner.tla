---------------------------- MODULE MCTurnRunner ----------------------------
(* TurnRunner for model checking.  Calls 1 and 2 of a response are          *)
(* searches, 3 is another tool; 20 and 21 are calls of earlier turns, of    *)
(* which the second was refused and so left its notice unpaired.            *)
EXTENDS TurnRunner

MCCallIds == 1 .. 3 * MaxRounds \cup {20, 21}
MCIdOf(r, k) == 3 * (r - 1) + k
MCBatches == {<<1, 2>>, <<1, 3>>}
MCHistories ==
  {<<>>, <<User(NoId, 1), Assistant({20}, 1), ToolResult(20, 1), ToolResult(21, 1)>>}
=============================================================================
