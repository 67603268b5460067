---------------------------- MODULE ConfluxRefill ----------------------------
(***************************************************************************)
(* A conflux set that is refilled while it carries data (conflux_pool.c).  *)
(* When the client loses a leg and the set survives, or loses its only     *)
(* leg, it launches a replacement.  The LINK the new circuit carries holds *)
(* the client's numbers at the time of the launch, the exit's LINKED holds *)
(* its own at the time it arrives, and each end copies the other's numbers *)
(* into the new leg (cfx_add_leg).                                         *)
(*                                                                         *)
(* The actions of the data plane are those of ConfluxStream.               *)
(***************************************************************************)
EXTENDS ConfluxStream

VARIABLES
  link,     \* link[l]: the LINK or LINKED of a circuit being linked
  rebuilt,  \* ghost: a set with no legs was linked again
  busy,     \* ghost: a cell was under way while a leg was being linked
  anew      \* ghost: circuits that link a new set at the exit to an empty one

refillVars == <<vars, link, rebuilt, busy, anew>>

\* The circuits being linked; the other phases are "idle", "done" and "closed".
Pending(k) == {l \in Legs : k[l].phase \in {"launched", "linked", "refused"}}

\* What an end puts in a LINK or LINKED: conflux_get_max_seq_sent over its
\* legs, and last_seq_delivered.
Numbers(phase, sent, legset, recv) ==
  [phase |-> phase, sent |-> MaxSeq(sent, legset), recv |-> recv]

\* conflux_launch_leg, once the closing leg is gone.  Bound: one circuit is
\* linked at a time.
LaunchLeg ==
  /\ Pending(link) = {}
  /\ \E l \in Legs :
       /\ link[l].phase = "idle"
       /\ link' = [link EXCEPT ![l] =
            Numbers("launched", lastSent'["client"], legs'["client"],
                    delivered'["client"])]

\* unlinked_close_all_legs: the circuits being linked are closed.
Abandoned == [l \in Legs |-> IF l \in Pending(link)
                             THEN [link[l] EXCEPT !.phase = "closed"]
                             ELSE link[l]]

\* The end of linked_circuit_closed at the client.  A launch may also be
\* refused (shutdown, memory pressure, no budget) or fail.
AfterClose ==
  LET before == legs["client"]
      after  == legs'["client"]
      sole   == after = {} /\ Cardinality(before) = 1
      inUse  == \E l \in before : \/ inflight["client"][l] >= SendmeInc
                                  \/ curr["client"] = l
  IN  \/ before = after /\ UNCHANGED link
      \/ /\ before # after
         /\ after # {} \/ (sole /\ Pending(link) = {})
         /\ LaunchLeg
      \/ /\ before # after
         /\ link' = IF after = {} /\ (~sole \/ inUse) THEN Abandoned ELSE link

\* Mutant: the two numbers of the other end are swapped.
JoinSwapped(e, l, theirs) ==
  /\ legs' = [legs EXCEPT ![e] = @ \cup {l}]
  /\ lastRecv' = [lastRecv EXCEPT ![e][l] = theirs.recv]
  /\ lastSent' = [lastSent EXCEPT ![e][l] = theirs.sent]

\* cfx_add_leg: leg l joins the set of end e with the other end's numbers.
Join(e, l, theirs) ==
  /\ legs' = [legs EXCEPT ![e] = @ \cup {l}]
  /\ lastRecv' = [lastRecv EXCEPT ![e][l] = theirs.sent]
  /\ lastSent' = [lastSent EXCEPT ![e][l] = theirs.recv]

\* conflux_process_link at the exit, which answers LINKED.  With no legs left
\* the exit has dropped its set and starts a new one.
ProcessLink(l) ==
  LET fresh == legs["exit"] = {}
      recv  == IF fresh THEN 0 ELSE delivered["exit"]
  IN
  /\ link[l].phase = "launched"
  /\ IF link[l].sent > recv                                   \* data loss
     THEN /\ CloseLegs("exit", legs["exit"] \cup {l})
          /\ link' = [link EXCEPT ![l].phase = "refused"]
          /\ UNCHANGED <<lastRecv, lastSent, delivered, ooo, out, nsent,
                         rebuilt, anew>>
     ELSE /\ Join("exit", l, link[l])
          /\ link' = [link EXCEPT ![l] =
                        Numbers("linked", lastSent["exit"], legs["exit"], recv)]
          /\ delivered' = [delivered EXCEPT !["exit"] = recv]
          /\ ooo' = [ooo EXCEPT !["exit"] = IF fresh THEN {} ELSE @]
          /\ out' = [out EXCEPT !["exit"] = IF fresh THEN <<>> ELSE @]
          /\ nsent' = [nsent EXCEPT !["exit"] = IF fresh THEN 0 ELSE @]
          /\ rebuilt' = (rebuilt \/ fresh)
          /\ anew' = IF fresh THEN anew \cup {l} ELSE anew
          /\ UNCHANGED <<curr, dead>>
  /\ UNCHANGED <<inflight, unacked, wire>>

\* conflux_process_linked at the client.  A set that was empty is the old
\* conflux object with new streams.
ProcessLinked(l) ==
  /\ link[l].phase = "linked"
  /\ IF link[l].sent > delivered["client"]                    \* data loss
     THEN /\ CloseLegs("client", legs["client"] \cup {l})
          /\ link' = [link EXCEPT ![l].phase = "closed"]
          /\ UNCHANGED <<lastRecv, lastSent, out, nsent, rebuilt, anew>>
     ELSE LET empty == legs["client"] = {} IN
          /\ Join("client", l, link[l])
          /\ link' = [link EXCEPT ![l].phase = "done"]
          /\ out' = [out EXCEPT !["client"] = IF empty THEN <<>> ELSE @]
          /\ nsent' = [nsent EXCEPT !["client"] = IF empty THEN 0 ELSE @]
          /\ rebuilt' = (rebuilt \/ empty)
          /\ anew' = IF empty THEN anew ELSE anew \ {l}
          /\ UNCHANGED <<curr, dead>>
  /\ UNCHANGED <<delivered, ooo, inflight, unacked, wire>>

\* unlinked_circuit_closed: a circuit ends before it is linked (it fails, its
\* RTT is too high, or the exit refused it).
UnlinkedCloses(l) ==
  /\ l \in Pending(link)
  /\ link' = [link EXCEPT ![l].phase = "closed"]
  /\ UNCHANGED <<vars, rebuilt, anew>>

\* The exit sees the DESTROY of a circuit the client closed before linking it.
ExitLosesUnlinked(l) ==
  /\ link[l].phase = "closed"
  /\ MarkForClose("exit", l)
  /\ UNCHANGED <<link, rebuilt, anew>>

RefillInit ==
  /\ Init
  /\ link = [l \in Legs |-> [phase |-> IF l \in InitLegs THEN "done" ELSE "idle",
                             sent |-> 0, recv |-> 0]]
  /\ rebuilt = FALSE
  /\ busy = FALSE
  /\ anew = {}

RefillNext ==
  /\ \/ Next /\ AfterClose /\ UNCHANGED <<rebuilt, anew>>
     \/ \E l \in Legs : \/ ProcessLink(l) \/ ProcessLinked(l)
                        \/ UnlinkedCloses(l) \/ ExitLosesUnlinked(l)
  /\ busy' = (busy \/ (/\ Pending(link') # {}
                       /\ \E e \in End : nsent'[e] # delivered'[Peer(e)]))

RefillSpec == RefillInit /\ [][RefillNext]_refillVars

-----------------------------------------------------------------------------
\* A leg linked while no cell was under way joins the two ends with coherent
\* numbers: whatever is sent over it later is delivered in order, and no cell
\* is taken for one already delivered.
QuietRefill ==
  ~rebuilt /\ ~busy => InOrder /\ NoStaleCell /\ CurrentLegLeads

\* A set that lost its last leg is rebuilt with a fresh leg: when the exit has
\* dropped its set and starts a new one, the client does not take the cells it
\* sends over that leg for cells already delivered.
RebuiltSetWorks ==
  \A l \in anew \cap legs["client"] :
    HasCell("client", l, Multiplexed)
      => lastRecv["client"][l] + 1 > delivered["client"]

-----------------------------------------------------------------------------
\* What a comment, an assertion or a name in the source says and the code does
\* not keep (README, section "Departures"): TLC refutes each of these.

\* A replacement leg can be used like any other: streams that move onto it
\* still get their cells in order.
RefillInOrder == ~rebuilt => InOrder
=============================================================================
