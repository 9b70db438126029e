SPECIFICATION Spec
CONSTANTS
    Systems = {"LTE", "NO SERVICE"}
    Plmns = {"334-20", "000-00", "33-20", "33420", ""}
    Tacs = {"0x232", "562", "0", "0x0", ""}
    Cells = {"43790378", "0", "00000000", ""}
    Bands = {"EUTRAN-BAND5", "EUTRAN-BAND0"}
    CpsiTries = 3
INVARIANT CellComplete
CHECK_DEADLOCK FALSE
