SPECIFICATION Spec
CONSTANTS
    Installer = {i1, i2}
    Plan = {old, new}
    Ops = 2
    CheckpointOps = 2
    FilesVanish = TRUE
    Nobody = Nobody
    Missing = Missing
    Zero = Zero
SYMMETRY Symmetry
INVARIANTS
    RecordIsTrue
PROPERTIES
    PromotesItsPlan
    OldStaysUntilNewIsWhole
