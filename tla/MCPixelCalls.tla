---------------------------- MODULE MCPixelCalls ----------------------------
(***************************************************************************)
(* Instance of PixelCalls: every rectangle and image position on a 5 x 4    *)
(* screen, the same rectangles as borders, and texts that fit.             *)
(***************************************************************************)
EXTENDS PixelCalls

\* The instance is one the promises are made for.
ASSUME InstanceFits == CallsFit /\ LayoutsAgree

Arrow == {<<0, 0>>, <<1, 0>>, <<0, 1>>}
AllPositions == (0 .. Width - 1) \X (0 .. Height - 1)
AllRectangles == (0 .. Width) \X (0 .. Height) \X (1 .. 3) \X (1 .. 3)
Letters == [c \in 0 .. 3 |-> CASE c = 0 -> {}
                               [] c = 1 -> {<<0, 0>>, <<0, 1>>, <<1, 2>>}
                               [] c = 2 -> {<<1, 0>>, <<1, 1>>, <<0, 2>>}
                               [] c = 3 -> {<<0, 0>>, <<1, 1>>}]
FittingTexts == {w \in AllPositions \X UNION {[1 .. n -> 0 .. 3] : n \in 0 .. 2} :
                    /\ w[1][1] + FontWidth * Len(w[2]) <= Width
                    /\ w[1][2] + FontHeight <= Height}
AllWritings == {<<w[1][1], w[1][2], w[2]>> : w \in FittingTexts}
=============================================================================
