------------------------- MODULE MCAPIServerRollout -------------------------
\* Instances of APIServerRollout for TLC.
EXTENDS APIServerRollout

=============================================================================
