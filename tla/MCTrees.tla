------------------------------- MODULE MCTrees ------------------------------
(***************************************************************************)
(* Small block trees for model checking.                                   *)
(***************************************************************************)
EXTENDS BlockTree, TLC

\* Two branches that part above block 0; the second is one block shorter.
ForkNumber ==
    ("g" :> 0) @@ ("a1" :> 1) @@ ("a2" :> 2) @@ ("a3" :> 3)
        @@ ("b1" :> 1) @@ ("b2" :> 2)
ForkParent ==
    ("g" :> NoBlock) @@ ("a1" :> "g") @@ ("a2" :> "a1") @@ ("a3" :> "a2")
        @@ ("b1" :> "g") @@ ("b2" :> "b1")
ForkBlock == DOMAIN ForkNumber

\* A chain of three blocks and a competitor of its second block.
TwigNumber == ("g" :> 0) @@ ("a1" :> 1) @@ ("a2" :> 2) @@ ("b1" :> 1)
TwigParent ==
    ("g" :> NoBlock) @@ ("a1" :> "g") @@ ("a2" :> "a1") @@ ("b1" :> "g")
TwigBlock == DOMAIN TwigNumber

\* Deeper branches: the fork point can lie inside the window, at its lower
\* bound, or below it.
DeepNumber ==
    ForkNumber @@ ("a4" :> 4) @@ ("c2" :> 2) @@ ("c3" :> 3) @@ ("c4" :> 4)
DeepParent ==
    ForkParent @@ ("a4" :> "a3") @@ ("c2" :> "a1") @@ ("c3" :> "c2")
        @@ ("c4" :> "c3")
DeepBlock == DOMAIN DeepNumber
=============================================================================
