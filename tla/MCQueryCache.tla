---------------------------- MODULE MCQueryCache ----------------------------
EXTENDS QueryCache, MCQuery
=============================================================================
