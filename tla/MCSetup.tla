------------------------------ MODULE MCSetup ------------------------------
EXTENDS Setup

=============================================================================
