------------------------------ MODULE MCBtHidh ------------------------------
\* BtHidh for two remote devices, for TLC.
EXTENDS BtHidh
=============================================================================
