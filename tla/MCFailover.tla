----------------------------- MODULE MCFailover -----------------------------
EXTENDS Failover, TLC
=============================================================================
