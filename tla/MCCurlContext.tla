--------------------------- MODULE MCCurlContext ---------------------------
EXTENDS CurlContext, TLC

CONSTANTS r1, r2, t1, t2, t3, b1, b2

One == {r1}
Two == {r1, r2}
TwoTasks == {t1, t2}
ThreeTasks == {t1, t2, t3}
AllEndings == {"failed", "threw"}
NoEndings == {}
OneBody == {b1}
TwoBodies == {b1, b2}

Interchangeable == Permutations(Two) \cup Permutations(TwoTasks)

=============================================================================
