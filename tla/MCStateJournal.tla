--------------------------- MODULE MCStateJournal ---------------------------
\* Small instance of StateJournal: two keys, two values.
EXTENDS StateJournal

=============================================================================
