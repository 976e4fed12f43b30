---------------------------- MODULE MCIngestion ----------------------------
EXTENDS PipelineMetrics

CONSTANTS s1, s2, s3

MCOrders == <<"entry", "exit", "again">>
MCSide == [entry |-> "BUY", exit |-> "SELL", again |-> "SELL"]

MCSignals == {[trade |-> Trade, place |-> "meta"], [trade |-> Trade, place |-> "event"],
              [trade |-> "t2", place |-> "meta"], [trade |-> "none", place |-> "meta"]}

Nothing == [placements |-> 0, drops |-> 0, restarts |-> 0, failures |-> 0, toggles |-> 0,
            misspelt |-> 0, checks |-> 0, signals |-> 0,
            filled |-> 0, recorded |-> 0, history |-> 0]

\* One order with faults of each kind; the connection alone; the checks with two
\* orders, with signals, and with signals and a fill.
MCBudgets ==
  {[Nothing EXCEPT !.placements = 1, !.restarts = 1, !.drops = 1],
   [Nothing EXCEPT !.placements = 1, !.restarts = 1, !.failures = 1],
   [Nothing EXCEPT !.placements = 1, !.recorded = 1, !.misspelt = 1],
   [Nothing EXCEPT !.toggles = 3, !.drops = 1, !.restarts = 1],
   [Nothing EXCEPT !.checks = 1, !.placements = 2, !.recorded = 1, !.history = 1],
   [Nothing EXCEPT !.checks = 1, !.signals = 2, !.failures = 1],
   [Nothing EXCEPT !.checks = 1, !.signals = 1, !.filled = 1, !.history = 1]}
=============================================================================
