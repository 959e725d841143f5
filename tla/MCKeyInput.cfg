CONSTANTS
  BufferSize = 3
  LShift = LShift
  RShift = RShift
  Alt = Alt
  Caps = Caps
  KeyA = KeyA
  KeyB = KeyB
  BackspaceKey = BackspaceKey
  a = a
  A = A
  b = b
  at = at
  Shifts = {LShift, RShift}
  AltGr = Alt
  CapsLock = Caps
  Codes = {KeyA, KeyB, BackspaceKey}
  regular <- MCRegular
  shifted <- MCShifted
  altgram <- MCAltgram
  Backspace = Backspace
  Nul = Nul
  MaxKeys = 5
SPECIFICATION FairSpec
INVARIANTS
  KeysKept
PROPERTIES
  KeyWakes
CHECK_DEADLOCK FALSE
