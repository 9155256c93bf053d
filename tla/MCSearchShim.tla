--------------------------- MODULE MCSearchShim ---------------------------
EXTENDS SearchShimHistory

CONSTANTS c1, c2, k1, k2, k3, t1, t2

TwoCallers == {c1, c2}
ThreeKeys == {k1, k2, k3}
TwoCalls == {t1, t2}
=============================================================================
