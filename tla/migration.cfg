CONSTANTS
  Entries = {left, twin}
  Speakers = {l, r}
  Keys = {mute}
  Removable = {left, twin}
SYMMETRY Symmetry
SPECIFICATION Spec
INVARIANTS TypeOK UniqueEntities KeepsRegistrations ProvidedIsOwn
PROPERTY Completes
