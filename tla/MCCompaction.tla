----------------------------- MODULE MCCompaction -----------------------------
EXTENDS Compaction
===============================================================================
