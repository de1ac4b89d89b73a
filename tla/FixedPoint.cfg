SPECIFICATION Spec
CONSTANTS
  Half = 64
  DecimalScale = 10
  BinaryScale = 16
  FractionScale = 8
  MaxSum = 180
INVARIANTS
  TypeOK
  QuotientsAreNearest
  ProductsAreNearest
  DividingIsUndone
  SumsHeal
  PrintedIsNearest
