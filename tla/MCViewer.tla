------------------------------ MODULE MCViewer ------------------------------
EXTENDS Viewer

CONSTANTS a1, a2, b1

MCOrigin(p) == IF p = b1 THEN "B" ELSE "A"
MCSize(p) == IF p = b1 THEN 2 ELSE 1
=============================================================================
