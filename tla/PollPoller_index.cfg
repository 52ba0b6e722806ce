SPECIFICATION Spec
CONSTANT Chans = {a, b, c}
INVARIANT IndexFindsOwnEntry
