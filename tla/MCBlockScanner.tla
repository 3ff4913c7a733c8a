--------------------------- MODULE MCBlockScanner ---------------------------
EXTENDS BlockScanner
=============================================================================
