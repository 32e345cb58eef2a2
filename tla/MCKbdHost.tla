----------------------------- MODULE MCKbdHost -----------------------------
\* KbdHost on a small instance, for TLC.
EXTENDS KbdHost, TLC

\* One procedure of each kind; the shorter one leaves out the reads, whose
\* effect on the caller HidhLink's own runs explore.
MCDiscoveryOps   == <<"disc", "read">>
MCShortDiscovery == <<"disc">>
MCListenerOps    == <<"write">>

MCSymmetry == Permutations(Addr)
=============================================================================
