------------------------- MODULE MCCliUpdateInstall -------------------------
EXTENDS CliUpdateInstall, TLC

CONSTANTS h1, h2, h3

\* Those whose bundle brings a unit are interchangeable.
Helpers == Permutations(WithUnit)
=============================================================================
