---------------------------- MODULE MCBlueGreen ----------------------------
(* Small instances of BlueGreen for TLC: three revisions, two replicas.    *)
EXTENDS BlueGreen

CONSTANTS h1, h2, h3, none

MCRevs == {h1, h2, h3}

=============================================================================
