---------------------------- MODULE MCSpookyHash ----------------------------
EXTENDS SpookyHash

\* A message may be cut at any of these places: behind a word of the short
\* hash, around a block, around the two that fill m_data up, and behind three.
Cuts == {0, 9, 95, 96, 97, 191, 192, 193, 288}

\* The byte at a position; none repeats within two blocks.
ByteAt(i) == (7 * i + 3) % 251

MCSeeds == {0, 1}

\* A message in one piece may also be a short one: every length of the last bytes
\* behind no pair of words, and some behind one and more.
Shorts == 0 .. 16 \cup {31}

Upto(n, ends) == {[j \in 1 .. k - n |-> ByteAt(n + j)] : k \in {l \in ends : n <= l}}

MCFragments == [n \in Cuts |-> IF n = 0 THEN Upto(0, Cuts \cup Shorts) ELSE Upto(n, Cuts)]

MCStale == {[j \in 1 .. sc_bufSize |-> 255]}
=============================================================================
