---------------------------- MODULE MCDnsBatch ----------------------------
EXTENDS DnsBatch
Servers == <<4, 6>>
=============================================================================
