------------------------------ MODULE MCSessions ------------------------------
EXTENDS Sessions, TLC
CONSTANTS u1, u2, b1, b2, h1, h2
MCUsers == {u1, u2}
MCBrowsers == {b1, b2}
MCTabs == {b2}
MCHandlers == {h1, h2}
HandlersAreAlike == Permutations(MCHandlers)
AllAlike == Permutations(MCHandlers) \union Permutations(MCUsers)
=============================================================================
