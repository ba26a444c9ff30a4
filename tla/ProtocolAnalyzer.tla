---------------------------- MODULE ProtocolAnalyzer ----------------------------
(* The protocol analyzer of station 2 (station2/buddy3/protocol_analyzer.c): the   *)
(* GPIO interrupt records the times of edges and, from MIN_EDGES_FOR_VALID on,     *)
(* takes the shortest interval for a bit and looks for the nearest standard rate.  *)
(* The level of an edge is stored but never read: left out.  An error in percent   *)
(* is kept as a fraction of the standard rate.                                    *)
EXTENDS Integers, Sequences, FiniteSetsExt

CONSTANTS
  Modulus,          \* time_us_32() counts modulo this
  MaxEdges,         \* MAX_EDGES
  MinEdges,         \* MIN_EDGES_FOR_VALID
  PerSecond,        \* ticks in a second; longer intervals do not count
  Glitch,           \* nor do intervals of at most this (3 microseconds)
  StandardBauds,    \* STANDARD_BAUDS
  Fallback,         \* the rate when no standard one is within 100 % (9600)
  Tolerance         \* the error each rate is accepted with, in percent

ASSUME ProtocolAssumption ==
  /\ Modulus \in Nat \ {0} /\ PerSecond \in Nat \ {0} /\ Glitch \in Nat
  /\ MaxEdges \in Nat /\ MinEdges \in 1 .. MaxEdges
  /\ StandardBauds \subseteq Nat \ {0} /\ Fallback \in StandardBauds
  /\ Tolerance \in [StandardBauds -> 0 .. 100]

VARIABLE protocol   \* protocol_metrics; edge_buffer up to edge_count is `edges`

ProtocolInit ==
  protocol = [is_capturing |-> FALSE, edges |-> <<>>, detected |-> "UNKNOWN",
              is_valid |-> FALSE, baud_rate |-> 0]

ProtocolTypeOK ==
  /\ protocol.is_capturing \in BOOLEAN /\ protocol.is_valid \in BOOLEAN
  /\ protocol.edges \in Seq(0 .. Modulus - 1) /\ Len(protocol.edges) <= MaxEdges
  /\ protocol.detected \in {"UNKNOWN", "UART"}
  /\ protocol.baud_rate \in StandardBauds \cup {0}

-----------------------------------------------------------------------------
(* analyze_uart_timing                                                        *)

Intervals(edges) ==
  {(edges[i + 1] - edges[i]) % Modulus : i \in 1 .. Len(edges) - 1}

raw_baud(edges) ==
  LET counted == {d \in Intervals(edges) : Glitch < d /\ d < PerSecond} IN
  IF counted = {} THEN 0 ELSE PerSecond \div Min(counted)

Distance(raw, baud) == IF raw > baud THEN raw - baud ELSE baud - raw

(* The first, and least, of the rates with the least relative error below 100 %.  *)
closest_baud(raw) ==
  LET near == {b \in StandardBauds : Distance(raw, b) < b}
      best == {b \in near : \A c \in near : Distance(raw, b) * c <= Distance(raw, c) * b}
  IN IF best = {} THEN Fallback ELSE Min(best)

Accepted(raw, baud) ==
  Distance(raw, baud) < baud /\ Distance(raw, baud) * 100 < Tolerance[baud] * baud

-----------------------------------------------------------------------------

Analyzed(edges) ==
  LET raw == raw_baud(edges)
      valid == Accepted(raw, closest_baud(raw))
  IN [protocol EXCEPT !.edges = edges,
        !.is_valid = valid,
        !.detected = IF valid THEN "UART" ELSE "UNKNOWN",
        !.baud_rate = closest_baud(raw)]

handle_protocol_edge(now) ==
  LET edges == Append(protocol.edges, now) IN
  protocol' = IF Len(protocol.edges) >= MaxEdges THEN protocol
              ELSE IF Len(edges) >= MinEdges THEN Analyzed(edges)
              ELSE [protocol EXCEPT !.edges = edges]

start_protocol_capture_still_detected ==
  protocol' = [protocol EXCEPT !.is_capturing = TRUE, !.edges = <<>>]
start_protocol_capture ==
  protocol' = [protocol EXCEPT !.is_capturing = TRUE, !.edges = <<>>, !.detected = "UNKNOWN"]

stop_protocol_capture == protocol' = [protocol EXCEPT !.is_capturing = FALSE]
=============================================================================
