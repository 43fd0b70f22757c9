\* Three slots on one CPU: two contenders with unequal tickets and a third
\* process that changes queues, and waiting times on both sides of AgeLimit.
CONSTANTS
  NPROC = 3
  CPU = {c1}
  AgeLimit = 0
  DefaultTickets = 2
  Tickets = {1}
SPECIFICATION Spec
INVARIANTS
  
  LotteryProportional
PROPERTIES
  LotteryServes
