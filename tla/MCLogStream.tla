---------------------------- MODULE MCLogStream -----------------------------
EXTENDS LogStream
=============================================================================
