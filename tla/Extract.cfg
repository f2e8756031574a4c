SPECIFICATION Spec
CONSTANTS
  base = base
  first = first
  second = second
  alice = alice
  bob = bob
  stranger = stranger
  wallet1 = wallet1
  wallet2 = wallet2
  NoAddr = NoAddr
  NoKey = NoKey
  Tx <- MCTx
  Ins <- MCIns
  Outs <- MCOuts
  Coinbase = {base}
  Owner <- MCOwner
INVARIANT
  WholeOrNothing
