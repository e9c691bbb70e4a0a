------------------------------ MODULE MCQueries ------------------------------
EXTENDS MemoryStore, MCTrees

\* "t" is included on both branches and emits different logs there; "y" is an
\* address whose events the pages of "x" must leave out.
MCEvent ==
    LET E(b, k, t, a) ==
            [block |-> b, logIndex |-> k, transaction |-> t, address |-> a]
    IN  {E("g", 0, "tg", "x"), E("a1", 0, "t", "x"), E("a1", 1, "t", "x"),
         E("a2", 0, "ta2", "y"), E("a2", 1, "ta2", "x"), E("a3", 4, "ta3", "x"),
         E("b1", 0, "tb1", "x"), E("b2", 0, "t", "x"), E("b2", 1, "t", "y")}

MCTransactionsOf ==
    ("g" :> {"tg"}) @@ ("a1" :> {"t"}) @@ ("a2" :> {"ta2"}) @@ ("a3" :> {"ta3"})
        @@ ("b1" :> {"tb1"}) @@ ("b2" :> {"t"})

\* Initial loads, appends that prune, reorganisations back and forth, a lower
\* window, and updates that only truncate or prune.
MCUpdates ==
    LET U(rep, ret, bs) ==
            [chainID |-> 1, replaceFrom |-> rep, retainFrom |-> ret, blocks |-> bs]
    IN  {U(0, 0, <<"g", "a1", "a2">>), U(3, 1, <<"a3">>), U(3, 0, <<"a3">>),
         U(1, 0, <<"b1", "b2">>), U(1, 1, <<"b1", "b2">>),
         U(1, 0, <<"a1", "a2">>), U(1, 1, <<"a1", "a2", "a3">>),
         U(2, 0, << >>), U(3, 2, << >>)}
=============================================================================
