----------------------------- MODULE MCDayPools -----------------------------
EXTENDS DayPools

\* Time is in hours, shares are in quarters. Of a day's two units one is the
\* floor's and one is standing's, or one is reserved for grants and the half
\* unit left to the floor rounds to none.
NoGrant ==
    [budget |-> 2, ceiling |-> 2, grantShare |-> 0, floorSlice |-> 2,
     anonShare |-> 2, spillStart |-> 6, spillInterval |-> 6]
HalfGrant ==
    [budget |-> 2, ceiling |-> 2, grantShare |-> 2, floorSlice |-> 2,
     anonShare |-> 4, spillStart |-> 6, spillInterval |-> 12]
NoLever == [cut |-> 0, anonShare |-> 4, anonOff |-> FALSE]
HalfCut == [cut |-> 2, anonShare |-> 4, anonOff |-> FALSE]

TwoVersions == {NoGrant, HalfGrant}
CutLever == {NoLever, HalfCut}
=============================================================================
