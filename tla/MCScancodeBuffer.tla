-------------------------- MODULE MCScancodeBuffer --------------------------
\* Instance of ScancodeBuffer for TLC: few enough slots that head and tail
\* wrap many times and the buffer fills.
EXTENDS ScancodeBuffer
=============================================================================
