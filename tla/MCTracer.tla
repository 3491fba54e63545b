------------------------------- MODULE MCTracer -------------------------------
\* TLC instance of the trajectory writer.
EXTENDS Tracer
=============================================================================
