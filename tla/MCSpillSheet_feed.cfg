SPECIFICATION Spec
CONSTANTS
    Width = 2
    Height = 2
    Contents <- MCContents
    MaxFilled = 3
    Visible = {11, 22}
INVARIANTS SpilledCellsFeed
