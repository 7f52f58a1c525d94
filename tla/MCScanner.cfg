SPECIFICATION MCSpec
INVARIANT FingerprintProvesTitle
PROPERTIES
    ChangesAreScanned
    
    SelectionSettles
CHECK_DEADLOCK FALSE
