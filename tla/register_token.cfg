CONSTANTS
  Fees = {1, 4}
  Prices = {1, 3}
  Gas = 5
  CustomGas = 5
  CallValue = 1
  OwnValues = {8}
  OwnMinima = {1}
SPECIFICATION Spec
INVARIANT RegistrationRedeems
