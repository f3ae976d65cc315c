\* Admins create, rename, assign and delete, around two seeds and a demo reset.
SPECIFICATION Spec
CONSTANTS
    Accounts <- AdminAndDriver
    OtherEmails = {"new"}
    OtherNames = {"ring"}
    OtherCodes = {"BUS-009"}
    Edits = {"createUser", "changeEmail", "deleteUser", "assign", "unassign",
             "createRoute", "renameRoute", "deleteRoute",
             "createVehicle", "renameVehicle", "deleteVehicle"}
    None = None
    MaxRows = 3
    MaxSeeds = 2
INVARIANTS TypeOK RefIntegrity
PROPERTIES SeedKeepsUsers SeedCompletes
CHECK_DEADLOCK FALSE
