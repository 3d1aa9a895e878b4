------------------------------- MODULE MCConfig -------------------------------
EXTENDS Config

=============================================================================
