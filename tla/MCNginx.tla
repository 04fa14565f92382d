------------------------------ MODULE MCNginx ------------------------------
EXTENDS Nginx
CONSTANTS r1, r2
MCRuleSets == {r1, r2}
MCStableBacked == {r1}
MCWeights == {0, 50}
=============================================================================
