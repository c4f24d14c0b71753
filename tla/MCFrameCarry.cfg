SPECIFICATION Spec
CONSTANTS
  Formats <- MCFormats
  Transforms = {Plain, Reversed}
  Plain = Plain
  Cap = 2
  MaxPacket = 6
  MaxStream = 12
INVARIANTS
  TypeOK
  Lossless
  InPlaceAfterLoss
  RightTransform
