-------------------------- MODULE MCRabbitEventBus --------------------------
(* RabbitEventBus on a small instance.                                     *)
EXTENDS RabbitEventBus, TLC

CONSTANTS m1, m2, m3, c1, c2

MCMessages == {m1, m2, m3}
MCPair == {m1, m2}
MCConsumers == {c1, c2}
MCSymmetry == Permutations(MCMessages) \cup Permutations(MCConsumers)
=============================================================================
