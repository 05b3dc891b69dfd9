------------------------------- MODULE MCCore -------------------------------
(***************************************************************************)
(* Integers at both ends of the range and around 0, where the range is     *)
(* large enough for a thousand fixed point units; angles around the axes,  *)
(* the diagonals and the full turn.                                        *)
(***************************************************************************)
EXTENDS CoreProperties

MCHalf == 1048576
MCSinTable == [i \in 0 .. 255 |-> i]
MCNoise(x) == (x * 31 + 7) % MCHalf

MCInts == {-MCHalf, 1 - MCHalf, -1048, -7, -2, -1, 0, 1, 2, 3, 1000, MCHalf \div 8, MCHalf - 1}
MCAngles ==
  {18 * k : k \in {0, 1, 2, 3, 5, 13, 30, 47, 66, 90, 140, 300, 349}}
    \cup {-18 * k : k \in {1, 2, 3, 5, 13, 30, 47, 66, 90, 140, 300, 349}}
    \cup {1, 17, 6279, 6280, -6280, -MCHalf, MCHalf - 1}

MCWords == {-7, 1, 2, 3}
MCMeaning == [w \in MCWords |-> IF w = 3 THEN 2 ELSE w]
MCLists == {<< >>} \cup {<<a>> : a \in MCWords} \cup {<<1, a, b>> : a, b \in MCWords} \cup {[i \in 1 .. 2049 |-> 1]}
MCMaybes == [tag : {0, 1}, restIsZero : BOOLEAN, item : {1, 2}, beyond : {3}]

Place(x, y) == [x |-> x, y |-> y]
Area(w, h) == [width |-> w, height |-> h]
MCPositions == {Place(0, 0), Place(1, 0), Place(0, 1), Place(1, 1), Place(2, 1),
                Place(-1, 1), Place(1, -1), Place(0, -2)}
MCDimensions == {Area(3, 2), Area(2, 3), Area(2, 2), Area(1, 2), Area(1, 4), Area(1000, 2), Area(0, 1), Area(-1, 1)}
MCSizes == {Area(3, 2), Area(2, 3), Area(2, 1), Area(1, 2), Area(2, 2), Area(0, 1), Area(1, 0),
            Area(-1, 1), Area(1, -1), Area(-1, -1), Area(MCHalf - 1, 1), Area(1, MCHalf - 1)}
MCFillValues == {7, 260}

Line(at, file, line) == [at |-> at, file |-> file, line |-> line, column |-> 1]
MCLineTables ==
  {<< >>, <<Line(0, 0, 1), Line(2, 1, 2), Line(2, 0, 3), Line(5, 0, 4)>>,
   <<Line(1, 0, 0), Line(3, 1, 5)>>, <<Line(3, 0, 5), Line(4, 0, 0), Line(5, 1, 6)>>}
MCFileCounts == {0, 1, 2}
Life(start, end) == [start |-> start, end |-> end]
MCVariableTables ==
  {<< >>, <<Life(0, 4), Life(2, 3), Life(2, 5)>>, <<Life(4, 4), Life(0, 6), Life(3, 2)>>}
MCPositions16 == 0 .. 9

MCFirstBlobs == {<<<<1, 2, 3, 4, 5, 6>>, <<31, 32, 200, 9>>>>}

MCFactors == {-2000, -1048, -7, -1, 0, 1, 3, 999, 1000, 1500, 2500}
MCStrings == {<< >>, <<1>>, <<2>>, <<1, 2>>, <<1, 2, 3>>, [i \in 1 .. 10 |-> i]}
MCSizedLists ==
  {ListOf(0, << >>), ListOf(4, << >>), ListOf(4, <<1>>), ListOf(8, <<2, 3>>), ListOf(4, <<3, 3>>),
   ListOf(4, [i \in 1 .. 16 |-> 1])}
MCFirstFrames == {<<11, 12, 13, 14, 15>>}
MCTags == {0, 1, 7}
Case(value, at) == [value |-> value, at |-> at]
MCEnumTables ==
  {<<Case(0, 9), Case(1, 20), Case(2, 20)>>, <<Case(1, 6), Case(7, 30)>>, <<Case(1, 9), Case(0, 12), Case(0, 40)>>}
MCIntTables ==
  {<<Case(0, 14), Case(-7, 21), Case(0, 50), Case(0, 60)>>, <<Case(1, 14), Case(1, 14)>>, <<Case(0, 8)>>}
MCTypes == {Typed(1, 1), Typed(2, 2), Typed(4, 4), Typed(8, 8), Typed(12, 4), Typed(17, 1), Typed(24, 8)}
=============================================================================
