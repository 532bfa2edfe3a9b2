---------------------------- MODULE MCUndoStack ----------------------------
\* Small instance of UndoStack: three states, two labels, one coalescing key
\* (the code has one, "edit"), a history of three steps.
EXTENDS UndoStack

=============================================================================
