----------------------------- MODULE MCExtension -----------------------------
EXTENDS Extension, TLC

CONSTANTS x, y      \* two titles of one page

\* Two titles under one url in a tab, and another tab.
MCPages ==
    {[tab |-> 1, url |-> "a", title |-> x], [tab |-> 1, url |-> "a", title |-> y],
     [tab |-> 2, url |-> "b", title |-> "b"]}

MCRules == {{}, {"a"}}

MCSymmetry == Permutations({x, y})
=============================================================================
