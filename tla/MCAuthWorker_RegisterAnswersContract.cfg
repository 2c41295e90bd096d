\* Two clients, two emails, four requests over a clock of two ticks; the
\* worker starts before /migrate has created any table.
CONSTANTS
  c1 = c1
  c2 = c2
  e1 = e1
  e2 = e2
  k1 = k1
  k2 = k2
  k3 = k3
  k4 = k4
  NoVal = NoVal
  Forged = Forged
  Clients <- MCClients
  Emails <- MCEmails
  Tokens <- MCTokens
  Expiry = 1
  MaxTime = 2
  MaxRequests = 4
  InitTables <- MCAllTables
SPECIFICATION Spec
\* The run ends when the request and clock bounds are spent.
CHECK_DEADLOCK FALSE
INVARIANT RegisterAnswersContract
