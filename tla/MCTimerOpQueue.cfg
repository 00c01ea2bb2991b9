CONSTANTS
  op1 = op1
  op2 = op2
  op3 = op3
  main = main
  handler = handler
  NoOp = NoOp
  Op <- MCOp
  Producers <- MCProducers
  Size = 3
  PreemptsAt = {"read"}
SPECIFICATION Spec
PROPERTY ImplementsFifo
