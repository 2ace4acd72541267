-------------------------- MODULE MCOrderedEngines --------------------------
(* Instances of OrderedEngines for TLC.                                      *)
EXTENDS OrderedEngines

RW(r, w) == [reads |-> r, writes |-> w, stable |-> TRUE]

\* A transaction that does something else when it is executed again.
Unstable(r, w) == [RW(r, w) EXCEPT !.stable = FALSE]

\* Two keys: each way to read one and write the other, a write alone, an
\* update and a reader of both.
Shapes == {RW({1}, {2}), RW({2}, {1}), RW({}, {1}), RW({1}, {1}), RW({1, 2}, {})}

Threes == {<<a, b, c>> : a, b, c \in Shapes}

\* Four transactions, of which the last writes or reads both keys.
Fours == {s \o <<d>> : s \in Threes, d \in {RW({1}, {2}), RW({1, 2}, {})}}

\* A block and a reader in another one that makes its key hot.
WithReader == {<<s, <<RW({1}, {})>>>> : s \in Threes}

\* Also a second transaction that uses a key of its own or none, so that the
\* second planner has nothing in the ranges of the others.
Sparse == {<<s[1], d, s[2], s[3]>> : s \in Threes, d \in {RW({}, {3}), RW({}, {})}} \cup Fours

\* Blocks that stay as they are and blocks that do not.
Played ==
    {<<a, b, RW({1}, {2})>> : a, b \in Shapes}
    \cup {<<RW({}, {1}), a, Unstable({1}, {2})>> : a \in Shapes}
=============================================================================
