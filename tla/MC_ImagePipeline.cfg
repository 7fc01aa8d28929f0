CONSTANT
    IsoExports = FALSE
SPECIFICATION Spec
INVARIANTS
    TypeOK
    NoStaleImage
    RawImagePresent
    VerityMatchesRoot
    CosiMetadataCurrent
    RawFilesRemoved
