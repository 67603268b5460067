------------------------------- MODULE MCPaths -------------------------------
(***************************************************************************)
(* What an application waits for: the managed proxies that carry tor's     *)
(* first hop (TransportProxies) and a circuit for its stream               *)
(* (StreamIsolation, with timeouts and a conflux set).  Each part is       *)
(* explored by itself: part is chosen at first and only that part's        *)
(* variables move.                                                         *)
(***************************************************************************)
EXTENDS TransportProxies, Sequences

VARIABLES
  part,
  strm, circ, pending, untried, todo, walking, opening, nym, used, shared

streamVars == <<strm, circ, pending, untried, todo, walking, opening, nym,
                used, shared>>
mcVars == <<part, vars, streamVars>>

\* Proxy 1 has obfs4 and meek, proxy 2 snowflake; every subset may be asked
\* for, with and without an outgoing proxy, and every subset be announced.
MCOffers == <<{"obfs4", "meek"}, {"snowflake"}>>
MCTorrcs == [cfg : {<<a, b>> : a \in SUBSET {"obfs4", "meek"},
                               b \in SUBSET {"snowflake"}},
             uri : BOOLEAN]

\* The same proxies with one configuration, and more deaths.
Steady == INSTANCE TransportProxies WITH
  Torrcs <- {[cfg |-> <<{"obfs4"}, {"snowflake"}>>, uri |-> FALSE]},
  MaxDeaths <- 3, MaxHups <- 0

Port(auth) == [flags |-> {"auth", "group"},
               vals |-> [auth |-> auth, group |-> 1]]

\* Two streams of a default port with different credentials, a plain circuit
\* and a conflux set of two legs; the time of both streams may run out.
Streams == INSTANCE StreamIsolation WITH
  Streams <- {1, 2}, Plain <- {"circuit"}, Sets <- {"set"}, None <- "none",
  Kind <- <<Port(1), Port(2)>>, Timed <- {1, 2}, MaxNym <- 0, MaxLegs <- 2,
  MaxPending <- 1

ASSUME ProxyAssumption /\ OffersApart
ASSUME Steady!ProxyAssumption /\ Steady!OffersApart
ASSUME Streams!StreamIsolationAssumption

MCInit ==
  /\ part \in {"proxies", "steady", "streams"}
  /\ IF part = "proxies" THEN Init ELSE Steady!Init
  /\ Streams!Init

MCNext ==
  \/ /\ \/ part = "proxies" /\ Next
        \/ part = "steady" /\ Steady!Next
     /\ UNCHANGED <<part, streamVars>>
  \/ /\ part = "streams" /\ Streams!Next
     /\ UNCHANGED <<part, vars>>

\* The fairness of each part, for the part that runs.
Fairness ==
  /\ \A p \in {1, 2} : WF_vars(part = "steady" /\ Steady!Progress(p))
  /\ WF_streamVars(part = "streams" /\ Streams!Attaching)
  /\ SF_streamVars(part = "streams" /\ ~walking /\ Streams!Expire)
  /\ \A s \in {1, 2} : /\ WF_streamVars(part = "streams" /\ Streams!Age(s))
                       /\ WF_streamVars(part = "streams" /\ Streams!NoAnswer(s))

MCSpec == MCInit /\ [][MCNext]_mcVars /\ Fairness

-----------------------------------------------------------------------------
(* Properties: ProxiesAgree, which TransportProxies defines and             *)
(* TransportProxiesProofs proves, and those of the parts that run.          *)

\* With one configuration a proxy that dies is launched again, and tor does
\* not wait for its proxies for ever (pt_proxies_configuration_pending).
ProxiesSettle == []<>(part = "steady" => n = 0 \/ fault # "none")

\* Whatever circuits, sets and exits do, no application waits for ever: every
\* stream is opened or closed (connection_ap_expire_beginning).
Settles == \A s \in {1, 2} : []<>(part = "streams" => ~Streams!Unsettled(s))
=============================================================================
