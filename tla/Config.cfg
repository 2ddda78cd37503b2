SPECIFICATION ConfigSpec
CONSTANTS
    Presets <- MCPresets
    Groups <- MCGroups
    MaxEdits = 2
CHECK_DEADLOCK FALSE
INVARIANTS
    
    
    ProductionSealed
