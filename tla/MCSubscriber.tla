---------------------------- MODULE MCSubscriber ----------------------------
EXTENDS Subscriber

CONSTANTS s1, s2
=============================================================================
