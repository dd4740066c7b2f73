SPECIFICATION Spec
CONSTANTS
  Owner = Owner
  Visitor = Visitor
  v1 = v1
  v2 = v2
  o1 = o1
  c1 = c1
  f1 = f1
  Requests = {v1, v2, f1, o1}
  Sender <- MCSender
  Target <- MCTarget
  ConvIds = {c1}
  Calls = {s1, s2}
  MaxInitiatorMsgs = 2
  MaxExpiries = 1
  MaxFaults = 1
SYMMETRY Sym
INVARIANTS
  PMInv
  OneSender
  SentOnce
  WindowBound
  BrokenOnceBothSpoke
CHECK_DEADLOCK FALSE
