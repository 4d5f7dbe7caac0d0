------------------------- MODULE MCSignalGeneration -------------------------
EXTENDS SignalGeneration

CONSTANTS s1, s2, cl, bz

\* Two signals that compete for a history of one.
MCSignalIds == {s1, s2}
MCSymbols == {cl, bz}

\* A flat bar, and one that is wider on both sides.
MCBarRanges == {<<2000, 2000>>, <<1996, 2004>>}

\* One market that moves with WTI and one that moves against it.
MCWeight == [m \in {"BZ=F", "DX-Y.NYB"} |-> IF m = "BZ=F" THEN 1 ELSE -1]

\* Bars that follow upon each other tightly, and two that leave the range.
MCBars ==
    {[low |-> b[1], close |-> b[2], high |-> b[3], volume |-> v] :
        b \in {<<1000, 1002, 1003>>, <<1003, 1004, 1004>>, <<1005, 1010, 1010>>,
               <<990, 995, 1000>>},
        v \in {1, 3}}

\* A release and one entered by hand, at the same time, with windows of different lengths.
MCSchedule ==
    [e \in {"eia", "manual"} |-> IF e = "eia" THEN [pre |-> 1, at |-> 4, post |-> 5]
                               ELSE [pre |-> 0, at |-> 4, post |-> 6]]
=============================================================================
