------------------------------- MODULE Metrics -------------------------------
(***************************************************************************)
(* The times of a transfer (metrics.rs): the agent's thread copies curl's   *)
(* values into cells, one store after another (handler.rs), while a program *)
(* computes durations from two loads.  The other cells are never combined.  *)
(*                                                                          *)
(* External: curl's clock and the stages of one connection, in their order. *)
(***************************************************************************)
EXTENDS Integers, Sequences

CONSTANT MaxTime   \* bound on curl's clock

ASSUME TimeAssumption == MaxTime \in Nat

VARIABLES
    times,      \* curl's values: 0 until the stage is reached
    cells,
    stored,     \* cells the update in progress has stored, 0 when there is none
    tls,
    observer    \* the duration being computed, its first load, and the last result

metricsVars == <<times, cells, stored, tls, observer>>

Stage == <<"namelookup", "connect", "appconnect", "starttransfer", "total">>
Cell == {Stage[i] : i \in DOMAIN Stage}
Duration == {"connect_time", "secure_connect_time", "transfer_time"}

MetricsInit ==
    /\ times = [c \in Cell |-> 0] /\ cells = times
    /\ stored = 0 /\ tls = FALSE
    /\ observer = [of |-> "none", first |-> 0, result |-> 0]

(* The transfer goes through some stages; without TLS there is no handshake. *)
Advance(reached) ==
    /\ stored = 0 /\ times["total"] < MaxTime
    /\ LET now == times["total"] + 1
           hit == {i \in 1..reached : times[Stage[i]] = 0 /\ (tls \/ Stage[i] # "appconnect")}
       IN  times' = [c \in Cell |-> IF c = "total" \/ \E i \in hit : Stage[i] = c THEN now ELSE times[c]]
    /\ UNCHANGED <<cells, stored, tls, observer>>

(* update_from_progress: one getinfo, straight into its cell. *)
Store ==
    /\ cells' = [cells EXCEPT ![Stage[stored + 1]] = times[Stage[stored + 1]]]
    /\ stored' = (stored + 1) % Len(Stage)
    /\ UNCHANGED <<times, tls, observer>>

(* The first load of connect_time, secure_connect_time or transfer_time. *)
Load(duration) ==
    /\ observer.of = "none"
    /\ LET first == cells[CASE duration = "connect_time" -> "connect"
                            [] duration = "secure_connect_time" -> "appconnect"
                            [] duration = "transfer_time" -> "total"]
       IN  observer' = IF duration = "secure_connect_time" /\ first = 0
                       THEN [observer EXCEPT !.result = 0]
                       ELSE [observer EXCEPT !.of = duration, !.first = first]
    /\ UNCHANGED <<times, cells, stored, tls>>

(* mutant: the difference is taken as it is *)
PlainDifference(duration, first, second) == first - second

Difference(duration, first, second) ==
    IF duration = "secure_connect_time" \/ first > second THEN first - second ELSE 0

(* The second load, and the duration. *)
Compute ==
    /\ observer.of # "none"
    /\ LET second == cells[CASE observer.of = "connect_time" -> "namelookup"
                             [] observer.of = "secure_connect_time" -> "connect"
                             [] observer.of = "transfer_time" -> "starttransfer"]
       IN  observer' = [of |-> "none", first |-> 0, result |-> Difference(observer.of, observer.first, second)]
    /\ UNCHANGED <<times, cells, stored, tls>>

Observe ==
    \/ \E reached \in 0..4 : Advance(reached)
    \/ Store
    \/ \E duration \in Duration : Load(duration)
    \/ Compute

(* Whatever stores fall between the two loads, the difference is one that   *)
(* Duration::from_secs_f64 takes: it panics on a negative number.           *)
DurationsAreNotNegative == observer.result >= 0
=============================================================================
