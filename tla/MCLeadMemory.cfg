SPECIFICATION Spec
CONSTANTS
  Platforms = {pc}
  Objections = {caro}
  Runners = {worker, simulation}
  Stages = {"descoberta", "preco", "objecao", "pos_venda"}
  MaxTurns = 3
  MaxFaults = 2
  MaxExpired = 1
INVARIANTS ForgetsOnlyForCause
CHECK_DEADLOCK FALSE
