\* Every command, two environments one after the other, two versions of the source.
SPECIFICATION Spec
CONSTANTS
    Menu <- Commands
    MaxGen = 2
    MaxDigest = 2
INVARIANTS TypeOK UpIsVerified SchemaBeforeService
