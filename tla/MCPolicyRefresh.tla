-------------------------- MODULE MCPolicyRefresh --------------------------
\* A small instance of PolicyRefresh for TLC: three publication times and two
\* resource counts.
EXTENDS PolicyRefresh

MCPolicy == [time : 1 .. 3, count : 1 .. 2]
=============================================================================
