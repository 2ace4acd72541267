--------------------------- MODULE MCEpochEngines ---------------------------
(* Instances of EpochEngines for TLC.                                        *)
EXTENDS EpochEngines

RW(r, w) == [reads |-> r, writes |-> w]

\* Not run.
None == {}

\* Two keys: each way to read one and write the other, a write alone and an
\* update.
ForAria == {RW({1}, {2}), RW({2}, {1}), RW({}, {1}), RW({1}, {1})}

\* With three workers the first two have two transactions each, so that the
\* second may return one with another behind it.
AriaBlocks == {<<a, b, c, d, RW({1}, {1})>> : a, b, c, d \in ForAria}

ForHarmony == {RW({1}, {2}), RW({2}, {1}), RW({}, {1}), RW({1, 2}, {})}

\* A block in which one worker has two transactions, and another one after it.
HarmonyBlocks == {<<<<a, b, c>>, <<d>>>> : a, b, c, d \in ForHarmony}

ForOptME == {RW({1}, {2}), RW({2}, {1}), RW({}, {1}), RW({1}, {1}), RW({}, {1, 2})}

OptMEBlocks == {<<<<a, b, c>>, <<d, e>>>> : a, b, c, d, e \in ForOptME}

\* Four transactions that only write: the last conflicts with the three before
\* it, of which the second and the third do not conflict.
Diamond == {<<<<RW({}, {1, 2}), RW({}, {1}), RW({}, {2}), RW({}, {1, 2})>>>>}

\* Three transactions over two keys that write one of them or both.
ThreeTxs ==
    {<<<<a, b, c>>>> : a, b, c \in {RW(r, w) : r \in {{}, {1, 2}, {2}}, w \in {{1}, {1, 2}}}}
=============================================================================
