\* Both protocols, stored or still unknown; the panel also leaves the pump off
\* the grid (1250, 33) and below its minimum (600, a ramp).
CONSTANTS
    Forms <- MCForms
    Percentages = {0, 1}
    NumberValues = {33, 1250}
    PanelStates <- MCPanelStates
    None = None
SPECIFICATION FairSpec
INVARIANTS
    IInv
    SliderRepeats
    PanelShownTruly
PROPERTIES
    CommandsInLimits
    EntrySettles
