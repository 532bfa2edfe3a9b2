---------------------------- MODULE MCGuiDocument ----------------------------
\* Small instances of GuiDocument.
EXTENDS GuiDocument

=============================================================================
