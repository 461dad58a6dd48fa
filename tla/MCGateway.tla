------------------------------ MODULE MCGateway ------------------------------
EXTENDS Gateway

CONSTANTS n1, n2
=============================================================================
