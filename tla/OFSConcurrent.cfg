\* Two workers, room for both files.
SPECIFICATION Spec
CONSTANTS
    Worker = {w1, w2}
    NM = 2
    NB = 2
    None = None
INVARIANT CreatedStays
