--------------------------- MODULE MCPostgresStore ---------------------------
EXTENDS PostgresStore, MCTrees

\* Initial loads, appends, replacements, an empty update that prunes, and
\* updates the store must refuse: another chain, a gap, a broken link, a
\* window above the replacement, a number outside bigint.
MCUpdates ==
    LET U(c, rep, ret, bs) ==
            [chainID |-> c, replaceFrom |-> rep, retainFrom |-> ret, blocks |-> bs]
    IN  {U(1, 0, 0, <<"g", "a1">>), U(1, 1, 1, <<"b1">>), U(1, 1, 0, <<"b1">>),
         U(1, 2, 1, <<"a2">>), U(1, 1, 0, <<"a1", "a2">>), U(1, 3, 2, << >>),
         U(2, 0, 0, <<"g">>), U(1, 0, 0, <<"g", "a2">>),
         U(1, 1, 1, <<"b1", "a2">>), U(1, 1, 2, <<"a1">>), U(1, 8, 0, << >>)}
=============================================================================
