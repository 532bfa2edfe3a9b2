---------------------------- MODULE MCSheetEdits ----------------------------
\* Small instance of SheetEdits: two sheets of three rows and two columns.
EXTENDS SheetEdits

MCExtent == [row |-> 3, col |-> 2]

MCGrid == {Cell(0, 0), Cell(2, 0)}

MCRegions == {[top |-> Cell(0, 0), bottom |-> Cell(2, 0)],
              [top |-> Cell(0, 0), bottom |-> Cell(0, 1)]}

Ref(r, c, fixed) == [row |-> r, col |-> c, fixed |-> fixed]

Operand(form, sheet, first, last) ==
    [form |-> form, sheet |-> sheet, first |-> first, last |-> last]

\* A cell, a range over three rows that grows when it is filled down, and a
\* range over both columns of sheet B.
MCOperands ==
    {Operand("cell", Own, Ref(1, 0, {}), Ref(1, 0, {})),
     Operand("range", Own, Ref(1, 0, {"row", "col"}), Ref(2, 0, {})),
     Operand("range", "B", Ref(1, 0, {}), Ref(2, 1, {"col"}))}
=============================================================================
