CONSTANTS
  Fees = {1, 4, 5}
  Prices = {1, 4}
  Gas = 2
  CustomGas = 5
  CallValue = 1
  OwnValues = {8}
  OwnMinima = {1}
SPECIFICATION Spec
INVARIANTS TypeOK EstimateCoversRise ValueCoversCosts CustomGatewayHasGas AllowanceLostToMove
