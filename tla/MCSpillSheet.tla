---------------------------- MODULE MCSpillSheet ----------------------------
\* Small instance of SpillSheet: two rows and two columns, the least where two
\* arrays contend for an empty cell.
EXTENDS SpillSheet

Content(kind, from, size, down) ==
    [kind |-> kind, from |-> from, size |-> size, down |-> down]

MCContents ==
    {Empty,
     Content("plain", <<>>, 1, TRUE),
     Content("sequence", <<>>, 2, FALSE),
     Content("hidden", <<>>, 2, TRUE),
     Content("sum", <<12, 22>>, 0, TRUE),
     Content("filter", <<12, 22>>, 0, TRUE),
     Content("sumspill", <<12>>, 0, TRUE)}
=============================================================================
