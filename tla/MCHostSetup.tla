---------------------------- MODULE MCHostSetup ----------------------------
EXTENDS HostSetup
=============================================================================
