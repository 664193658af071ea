\* Any four runs of pglg-setup as either of two roles, two of them interrupted. The runs end.
SPECIFICATION Spec
CONSTANTS
    r1 = r1
    r2 = r2
    Roles = {r1, r2}
    Hours = {0, 1}
    MaxCommands = 4
    MaxFaults = 2
SYMMETRY RolesAlike
CHECK_DEADLOCK FALSE
INVARIANTS
    SlotDecodes
    SetupUsable
    TeardownComplete
    MaintainedCovered
    PrivilegesSuffice
