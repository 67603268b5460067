------------------------------- MODULE MCStreams -------------------------------
(***************************************************************************)
(* A stream on its way: the circuit it may join (StreamIsolation), and its *)
(* own flow control (StreamFlow), both of which this module is itself.     *)
(* Each part is explored by itself: part is chosen at first and only that  *)
(* part's variables move.                                                  *)
(***************************************************************************)
EXTENDS StreamIsolation, StreamFlow

VARIABLE part

mcVars == <<part, vars, flowVars>>

\* Streams 1 and 2 come from a default port with the same credentials, 3 from
\* a port that is not isolated by credentials and shares their session group.
Port(flags, auth) == [flags |-> flags, vals |-> [auth |-> auth, group |-> 1]]

MCKind == <<Port({"auth", "group"}, 1), Port({"auth", "group"}, 1),
            Port({"group"}, 2)>>

ASSUME StreamIsolationAssumption /\ OneLeg
ASSUME FlowAssumption

MCInit ==
  /\ part \in {"isolation", "flow"}
  /\ Init
  /\ FlowInit

MCNext ==
  \/ /\ part = "isolation" /\ Next
     /\ UNCHANGED <<part, flowVars>>
  \/ /\ part = "flow" /\ FlowNext
     /\ UNCHANGED <<part, vars>>

MCSpec == MCInit /\ [][MCNext]_mcVars

\* Circuits are interchangeable.
Swap == Permutations(Plain)

-----------------------------------------------------------------------------
(* Properties: IsolationKept and ListedOnce, which StreamIsolation defines  *)
(* and StreamIsolationProofs proves, PausesEnd, which StreamFlow defines    *)
(* and FlowControlProofs proves, and one more of the stream's flow.         *)

\* XOFFs and XONs are due.  flow_control_decide_xoff sends an XOFF only when the
\* buffer has stayed over its limit since the grace period began; and
\* circuit_process_stream_xoff and circuit_process_stream_xon never take an
\* XOFF or an XON of a correct exit for one too many.
XoffsAreDue == /\ [](part = "flow" => HonestIsValid)
               /\ [][part = "flow" => XoffWaits]_mcVars
=============================================================================
