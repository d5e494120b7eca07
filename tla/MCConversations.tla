--------------------------- MODULE MCConversations ---------------------------
(* Conversations with two deliveries handled at once.                       *)
EXTENDS Conversations, TLC

CONSTANTS i1, h1, h2

Symmetry == Permutations(Handlers)

(* The bound of the run: conversations are paused while no consent is kept  *)
(* and no promotion is on its way.  The two have no state in common.        *)
Apart == asks # "idle" \/ subject[1] # 0 => \A c \in Convs : enabled[c]
=============================================================================
