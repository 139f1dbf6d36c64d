------------------------- MODULE MCConversationRegistry -------------------------
EXTENDS ConversationRegistry, TLC

MCIds == 1 .. 3

\* Handlers run the same code; so do coordinates' messages.
Symmetry == Permutations(Handlers) \cup Permutations(Coords)
=============================================================================
