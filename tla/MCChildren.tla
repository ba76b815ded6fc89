----------------------------- MODULE MCChildren -----------------------------
(* Children with a worker, which calls nothing; a manager, which the        *)
(* component runs in a batch and which sends to others; and an agent, which *)
(* is sent to in every way and calls the worker itself.                     *)
EXTENDS Children

MCCalls ==
  { <<"component", "spawn", "worker">>, <<"component", "spawn", "manager">>,
    <<"component", "spawn", "agent">>,
    <<"component", "send", "worker">>, <<"component", "async", "worker">>,
    <<"component", "batch", "worker">>, <<"component", "batch", "manager">>,
    <<"component", "send", "agent">>, <<"component", "async", "agent">>,
    <<"manager", "spawn", "worker">>, <<"manager", "send", "worker">>,
    <<"manager", "batch", "worker">>, <<"manager", "batch", "agent">>,
    <<"manager", "async", "agent">>,
    <<"agent", "send", "worker">>, <<"agent", "spawn", "worker">> }
=============================================================================
