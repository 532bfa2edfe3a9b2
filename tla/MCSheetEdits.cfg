SPECIFICATION Spec
CONSTANTS
    Sheets = {"A", "B"}
    Names = {n1}
    Numbers = {1}
    Styles = {bold}
    Operands <- MCOperands
    Grid <- MCGrid
    Regions <- MCRegions
    Extent <- MCExtent
    Inserts = {2}
    Deletes = {1, 2}
    MaxSteps = 4
INVARIANTS
    FormulasFollow
    RulesFollow
    NamesFollow
PROPERTIES
    StylesStayWithText
    CopiesKeepForm
CHECK_DEADLOCK FALSE
