-------------------------------- MODULE MCSMI --------------------------------
EXTENDS SMI
MCWeights == {0, 48, 50}
=============================================================================
