---------------------------- MODULE MCEditSession ----------------------------
EXTENDS EditSession, TLC

CONSTANTS a, b, ua, ub, p, q

\* One user per desktop.
MCOwnerOf == [c \in Clients |-> IF c = a THEN ua ELSE ub]
==============================================================================
