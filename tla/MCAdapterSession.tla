--------------------------- MODULE MCAdapterSession ---------------------------
(* AdapterSession with two of the five dimensions and one configuration. *)
EXTENDS AdapterSession

MCFloor == [frame |-> 1, depth |-> 1]
MCCeiling == [frame |-> 4, depth |-> 2]

Extent(frame, depth) == [frame |-> frame, depth |-> depth]

Hello(endpoint, limits) ==
    [protocol |-> TRUE, major |-> 1, endpoint |-> endpoint, capabilities |-> {"discover"},
     limits |-> limits]

Config(limits, max_response, usable) ==
    [limits |-> limits, hello |-> Hello("control_plane", limits), peer |-> "python_adapter",
     max_response |-> max_response, usable |-> usable]

MCConfigs == {Config(Extent(4, 2), 3, TRUE), Config(Extent(4, 2), 3, FALSE),
              Config(Extent(5, 2), 3, TRUE)}

Request(id, endpoint, size, past) ==
    [kind |-> "request", id |-> id, sound |-> TRUE, size |-> size,
     body |-> [endpoint |-> endpoint, operation |-> "normalize_evidence", budget |-> None,
               poll |-> 1, past |-> past]]

MCRequests == {Request("q", "python_adapter", Extent(3, 2), FALSE),
               Request("q", "python_adapter", Extent(3, 2), TRUE),
               Request("q", "type_script_adapter", Extent(3, 2), FALSE),
               Request("q", "python_adapter", Extent(4, 3), FALSE),
               Request(None, "python_adapter", Extent(3, 2), FALSE)}

Answer(kind, id, size) ==
    [kind |-> kind, id |-> id, sound |-> TRUE, size |-> size, body |-> [budget |-> None]]

\* Hellos that agree, with narrow frames or shallow nesting, from someone else or beyond
\* the ceiling; answers that fit, are too long, or belong to another request; noise.
MCPeerFrames ==
    {HelloFrame(Hello("python_adapter", l)) : l \in {Extent(4, 2), Extent(2, 2)}}
    \cup {HelloFrame(Hello("oci_executor", Extent(4, 2)))}
    \cup {Answer("result", "q", Extent(3, 2)), Answer("failure", "q", Extent(4, 1)),
          Answer("cancel", "q", Extent(2, 1)), Answer("result", "other", Extent(2, 1)),
          [Answer("result", "q", Extent(2, 1)) EXCEPT !.sound = FALSE]}
=============================================================================
