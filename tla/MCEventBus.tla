----------------------------- MODULE MCEventBus -----------------------------
EXTENDS EventBus

CONSTANTS c1, c2

\* One session with room for two events, and one that asks for none.
MCBuffer == [c \in Clients |-> IF c = c1 THEN 2 ELSE 0]
=============================================================================
