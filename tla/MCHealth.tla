------------------------------ MODULE MCHealth ------------------------------
(* Two checkers with different intervals, two and three readings, of which    *)
(* one is a failed look.  A tick is 30 s.                                     *)
EXTENDS HealthMonitor

TwoComponents == {"telegram_api", "sessions"}
FewReadings ==
    [telegram_api |-> {[answer |-> "info", code |-> 0, latency |-> 40],
                       [answer |-> "error", code |-> 429, latency |-> 40]},
     sessions |-> {[total |-> 4, blocked |-> 0], [total |-> 4, blocked |-> 3], Raised}]
TwoIntervals == [telegram_api |-> 3, sessions |-> 2]
Idle == [cpu |-> 5, memory |-> 40, load |-> 10]
Running == [available |-> TRUE, total |-> 2, running |-> 2, stopped |-> 0]
FewHostStates ==
    {[host |-> Idle, docker |-> Running], [host |-> [Idle EXCEPT !.memory = 70], docker |-> Running],
     [host |-> Idle, docker |-> [Running EXCEPT !.running = 1, !.stopped = 1]]}
=============================================================================
