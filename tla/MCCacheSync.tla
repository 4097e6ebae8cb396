---------------------------- MODULE MCCacheSync ----------------------------
EXTENDS CacheSync
=============================================================================
