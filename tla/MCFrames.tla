------------------------------ MODULE MCFrames ------------------------------
(* A small instance of Frames: what the frames of a run are.                 *)
EXTENDS Frames
CONSTANTS a, b, i, j, none
PlanList ==
  {<< <<a, "starters">>, <<a, "starters">>, <<a, "close">>,
      <<b, "starters">>, <<b, "starters">> >>,
   << <<a, "cart">>, <<a, "cart">> >>,
   << <<a, "utm">>, <<b, "utm">> >>,
   << <<a, "voice">>, <<b, "voice">> >>,
   << <<a, "register">>, <<b, "register">>, <<b, "voice">> >>,
   << <<a, "message">>, <<a, "message">>, <<b, "register">>, <<b, "history">>, <<b, "history">> >>,
   << <<a, "timeout">>, <<a, "language">>, <<a, "field">> >>}
CartWishes ==
  LET Want(p, part, n) == [id |-> <<p, part>>, qty |-> n]
  IN {<<Want("mug", TRUE, 1)>>, <<Want("mug", TRUE, 1), Want("mug", FALSE, 1)>>,
      <<Want("mug", FALSE, 1), Want("pen", FALSE, 1), Want("mug", FALSE, 1)>>,
      <<Want("pen", FALSE, 0)>>}
\* The store's reference for a pen is what it calls a mug.
CartNames == [p \in Products |-> IF p = "pen" THEN {"pen", "mug"} ELSE {p}]
CartStock == <<[product |-> "mug", qty |-> 1]>>
=============================================================================
