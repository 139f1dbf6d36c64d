----------------------- MODULE MCConversationDispatch -----------------------
(* Instances of ConversationDispatch for TLC.                              *)
EXTENDS ConversationDispatch, TLC

CONSTANTS c1, m1, m2, m3, image

\* Three messages race for one conversation.
OneConversation == [m \in {m1, m2, m3} |-> c1]

\* An image without text comes in between.
WithImage == [m \in {m1, m2, m3, image} |-> c1]

\* Messages with text differ in nothing but their arrival.
MCSymmetry == Permutations({m1, m2, m3})
=============================================================================
