--------------------------- MODULE MCRuntimeGate ----------------------------
\* An instance of RuntimeGate: the levels of memory are plenty, a drop of more
\* than 5%, and less than 10% of the total.
EXTENDS RuntimeGate

MCMemLevels == {1, 12, 15}
=============================================================================
