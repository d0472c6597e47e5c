---------------------------- MODULE MC_PushHarness ----------------------------
EXTENDS PushHarness
=============================================================================
