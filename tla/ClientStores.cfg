\* Three sessions of each store, a history of two and five jobs.
SPECIFICATION ClientSpec
CONSTANTS
  Null = Null
  Ttl <- MCTtl
  MaxHistory = 2
  MaxSessions = 3
  MaxJobs = 5
  MaxTime = 3
INVARIANTS TokensAgree HistoryIsRecent
\* The clock, the sessions and the jobs within the bounds run out.
CHECK_DEADLOCK FALSE
