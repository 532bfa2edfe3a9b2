-------------------------- MODULE MCConsoleBridge --------------------------
\* Small instances of ConsoleBridge.  Two changes and commands show a command
\* that meets what the one before it left behind; three, a command, one that
\* overlaps it and one that comes after.
EXTENDS ConsoleBridge
=============================================================================
