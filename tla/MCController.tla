---------------------------- MODULE MCController ----------------------------
(* Instances of Controller for TLC. *)
EXTENDS Controller

\* Two records, of which each is a batch, fill an endpoint.
Flow ==
    [config |-> Endpoints, outputs |-> OutputEndpoints, min_batch_size_records |-> 0, max_buffered_records |-> 2,
     records |-> 2, eoi |-> 0, calls |-> <<"start">>, errors |-> {}]

\* A step waits for more than one record, or for the buffering delay.
Delayed == [Flow EXCEPT !.min_batch_size_records = 1, !.records = 1]

\* One record fills an endpoint.
Tight == [Flow EXCEPT !.outputs = {}, !.max_buffered_records = 1]

\* The parser holds the only record back until the end of the input.
AtEnd == [Flow EXCEPT !.records = 0, !.eoi = 1]

Flows ==
    {Flow,
     Tight,
     [Tight EXCEPT !.records = 1, !.calls = <<"start", "pause">>],
     [Tight EXCEPT !.records = 1, !.calls = <<"start", "pause", "start">>],
     AtEnd,
     [AtEnd EXCEPT !.min_batch_size_records = 1],
     [AtEnd EXCEPT !.calls = <<"start", "pause">>],
     [Delayed EXCEPT !.outputs = {}, !.calls = <<"start", "pause">>],
     [Flow EXCEPT !.outputs = {}, !.records = 1, !.calls = <<"start", "connect_output">>],
     [Flow EXCEPT !.config = {}, !.outputs = {}, !.records = 1, !.calls = <<"start", "connect">>],
     [Flow EXCEPT !.config = {}, !.records = 1, !.errors = {"input", "step"},
                  !.calls = <<"connect", "start", "stop">>]}
=============================================================================
