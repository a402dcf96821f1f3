SPECIFICATION Spec
CONSTANTS
    Installer = {i1}
    Plan = {old, new}
    Ops = 2
    CheckpointOps = 2
    FilesVanish = FALSE
    Nobody = Nobody
    Missing = Missing
    Zero = Zero
INVARIANT ManifestMeansComplete
