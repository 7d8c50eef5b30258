------------------------------ MODULE MCGETraffic -----------------------------
EXTENDS GETraffic

UniformDraws == {1, 2}
ExponentialDraws == {0, 1, 2}

OneOrTwo == {1, 2}
ZeroOrTwo == {0, 2}

ZeroOrOne == {0, 1}
NeverOrFive == {0, 5}

===============================================================================
