SPECIFICATION Spec
CONSTANTS
  KB_BUF_SIZE = 3
  Keys = {"k"}
  Mute = {"ctrl"}
  MaxWire = 3
INVARIANTS
  TypeOK
  ShiftNeverStuck
PROPERTIES
  ImplementsTypeAhead
