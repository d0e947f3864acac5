----------------------------- MODULE MCEventLoop ------------------------------
EXTENDS EventLoopProperties

CONSTANTS c1, c2, t1, t2
=============================================================================
