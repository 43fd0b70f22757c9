\* One CPU and two processes that never block.
CONSTANTS
  NPROC = 2
  CPU = {c1}
  AgeLimit = 1
  DefaultTickets = 2
  Tickets = {1}
SPECIFICATION Spec
PROPERTY RoundRobinServes
