----------------------------- MODULE MCSheetCalc -----------------------------
\* Small instances of SheetCalc.
EXTENDS SheetCalc, TLC

CONSTANTS x, S1, S2, p1, p2, p3

Literal(t)     == [op |-> "literal", args |-> <<>>, text |-> t]
Form(op, args) == [op |-> op, args |-> args, text |-> None]
At(s, p)       == [sheet |-> s, pos |-> p]

\* Every kind of formula, on one sheet: chains, diamonds and cycles.
LocalInputs == {Empty, Literal(<<x>>), Form("bad", <<>>),
                Form("copy", <<At(Here, p1)>>), Form("copy", <<At(Here, p2)>>),
                Form("copy", <<At(Here, p3)>>),
                Form("join", <<At(Here, p1), At(Here, p2)>>),
                Form("iferror", <<At(Here, p2), At(Here, p1)>>)}

\* References between sheets, and a volatile formula.
CrossInputs == {Empty, Literal(<<x>>), Form("rand", <<>>),
                Form("copy", <<At(S1, p1)>>), Form("copy", <<At(S2, p1)>>),
                Form("join", <<At(S1, p1), At(S2, p1)>>)}

AnySheet == Permutations(Sheets)

Random == {<<x>>, <<>>}
=============================================================================
