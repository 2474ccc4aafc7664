---------------------------- MODULE MCInputPath ----------------------------
\* Instance of InputPath for TLC: a ring of three slots holds two bytes, so that
\* five bytes fill it, wrap it and still leave one to be refused.
EXTENDS InputPath
=============================================================================
