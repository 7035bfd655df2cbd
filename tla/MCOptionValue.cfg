SPECIFICATION Spec
CONSTANTS
  Half <- MCHalf
  Type <- MCType
  Word <- MCWord
  Declaration <- MCDeclaration
  MaxTimes = 2
CHECK_DEADLOCK FALSE
INVARIANTS
  TypeOK
  ValueIsAsMeant
  RefusesOnlyTheImpossible
  CountsOccurrences
  ValidMeansWithin
  MandatoryIsDefined
