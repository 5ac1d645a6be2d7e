SPECIFICATION Spec
CONSTANTS
    a1 = a1
    a2 = a2
    Roles = 2
    App = {a1, a2}
    RoleOf <- MCRoleOf
    Choice = {"interview"}
    Other = {"accepted"}
    Calls = 2
    MaxSends = 3
    None = None
INVARIANTS
    TypeOK
    PickedAreShown
    FormOfSelected
    RowsOfSelected
    OwnChangeShown
CHECK_DEADLOCK FALSE
