SPECIFICATION Spec
CONSTANTS
    Profiles <- MCProfiles
    Recipes <- MCRecipes
    WidthBits = 16
    Registers = {"a0", "v0", "v1", "vl", "flags"}
    VectorRegisters = {"v0", "v1"}
    StateRegisters = {"vl"}
INVARIANTS
    BindsFaithfully
    ExpanderAccepts
    SlotsFaithful
