SPECIFICATION Spec
CONSTANTS
    Profiles <- WidthProfiles
    Recipes <- MCRecipes
    WidthBits = 16
    Registers = {"a0", "v0", "v1", "vl", "flags"}
    VectorRegisters = {"v0", "v1"}
    StateRegisters = {"vl"}
INVARIANTS
    BoundIsExpandable
