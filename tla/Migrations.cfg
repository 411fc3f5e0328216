SPECIFICATION MigrationSpec
CONSTANTS
    Order = {o1, o2}
SYMMETRY RowSymmetry
INVARIANTS
    MigrationTypeOK
    RulesStayEnforced
    OnlyDatesStop
    RowsAsMigrated
