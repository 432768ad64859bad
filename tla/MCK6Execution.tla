---------------------------- MODULE MCK6Execution ----------------------------
EXTENDS K6Execution

MCHistories ==
  { <<"PENDING", "VALIDATED", "RUNNING", "SUCCEEDED">>,
    <<"PENDING", "VALIDATED", "RUNNING", "CANCELLATION_REQUESTED", "CANCELLED">>,
    <<"PENDING", "VALIDATED", "RUNNING", "CANCELLATION_REQUESTED", "SUCCEEDED">>,
    <<"PENDING", "VALIDATED", "RUNNING", "TIMED_OUT">>,
    <<"PENDING", "VALIDATED", "RUNNING", "CANCELLED">>,
    <<"PENDING", "VALIDATED", "CANCELLED">>,
    <<"PENDING", "VALIDATED", "FAILED">>,
    <<"PENDING", "FAILED">>, <<"PENDING", "VALIDATED">>, <<"RUNNING", "FAILED">> }

\* The largest request; too many users, more grace than time, and half a second.
MCResources ==
  { [vus |-> 50, iterations |-> 10000, duration |-> 900000, grace |-> 30000,
     environment |-> {"K6_LOG_FORMAT", "K6_NO_COLOR"}, outputs |-> {"k6-run-summary-json"}],
    [vus |-> 51, iterations |-> 1, duration |-> 1000, grace |-> 0,
     environment |-> {}, outputs |-> {}],
    [vus |-> 1, iterations |-> 1, duration |-> 1000, grace |-> 2000,
     environment |-> {}, outputs |-> {}],
    [vus |-> 1, iterations |-> 1, duration |-> 1500, grace |-> 0,
     environment |-> {}, outputs |-> {}] }
=============================================================================
