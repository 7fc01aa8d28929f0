CONSTANT
    IsoExports = TRUE
SPECIFICATION Spec
INVARIANT
    RawImagePresent
