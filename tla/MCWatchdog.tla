----------------------------- MODULE MCWatchdog -----------------------------
(***************************************************************************)
(* A small instance of Watchdog: every check is in one of the plans, and   *)
(* every two loops that share an alert key or a flag are in one together.  *)
(***************************************************************************)
EXTENDS Watchdog

NoChecks == [l \in Loops |-> <<>>]

MCPlans ==
  { [NoChecks EXCEPT !["infra"] = <<"DNS">>, !["ops"] = <<"BROKER_CONNECTION">>],
    [NoChecks EXCEPT !["infra"] = <<"VM">>],
    [NoChecks EXCEPT !["infra"] = <<"DOCKER">>],
    [NoChecks EXCEPT !["infra"] = <<"FREQTRADE">>],
    [NoChecks EXCEPT !["infra"] = <<"NETWORK">>],
    [NoChecks EXCEPT !["infra"] = <<"EXCHANGE_REACHABILITY">>],
    [NoChecks EXCEPT !["ops"] = <<"HEARTBEAT">>],
    [NoChecks EXCEPT !["ops"] = <<"EXCHANGE_ACK", "MARKET_DATA">>],
    [NoChecks EXCEPT !["ops"] = <<"ORDER_PIPELINE">>],
    [NoChecks EXCEPT !["ops"] = <<"LATENCY">>, !["runtime"] = <<"LATENCY", "WIN_RATE">>],
    [NoChecks EXCEPT !["ops"] = <<"TRADE_FREQUENCY">>, !["runtime"] = <<"SILENCE", "FILL_RATE">>],
    [NoChecks EXCEPT !["anomaly"] = <<"STUCK">>] }

MCWatched == {"silence_warning", "latency_spike_warning"}

=============================================================================
