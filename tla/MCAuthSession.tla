---------------------------- MODULE MCAuthSession ----------------------------
EXTENDS AuthSession
CONSTANTS a, b
=============================================================================
