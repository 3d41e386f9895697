CONSTANTS
    Stops = {0, 7, 15, 18, 21, 24, 29, 30, 31, 36, 41}
    Twins = {"products", "colors", "roles"}

SPECIFICATION MigrationSpec

CHECK_DEADLOCK FALSE

INVARIANTS
    ReconciliationVerifies
