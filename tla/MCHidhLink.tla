----------------------------- MODULE MCHidhLink -----------------------------
\* HidhLink on a small instance, for TLC.
EXTENDS HidhLink

\* A discovery of two procedures, one of each kind, and one CCC write.
MCDiscoveryOps == <<"disc", "read">>
MCListenerOps  == <<"write">>
=============================================================================
