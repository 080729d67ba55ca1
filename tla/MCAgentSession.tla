--------------------------- MODULE MCAgentSession ---------------------------
(* AgentSession on small instances; handlers are interchangeable, as are the *)
(* tools of a round.                                                         *)
EXTENDS AgentSession

Symmetry == Permutations(Clients) \cup Permutations(Tools)

=============================================================================
