---------------------------- MODULE MCFetchRange ----------------------------
EXTENDS FetchRange, MCTrees

\* One to three blocks, the first at genesis or above it; an empty range and
\* one whose length does not fit an int.
MCRanges == {<<0, 2>>, <<0, 0>>, <<1, 2>>, <<1, 1>>, <<2, 1>>, <<0, 7>>}
=============================================================================
