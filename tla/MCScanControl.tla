--------------------------- MODULE MCScanControl ----------------------------
\* ScanControl for TLC, which gives the armbands as model values.
EXTENDS ScanControl
=============================================================================
