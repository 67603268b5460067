-------------------------- MODULE TransportProxies --------------------------
(***************************************************************************)
(* Managed pluggable-transport proxies (feature/client/transports.c, the   *)
(* transport part of options_act in app/config/config.c).                  *)
(*                                                                         *)
(* tor runs each proxy of its torrc as a child process, which says on its  *)
(* standard output which transports it offers; these are then registered   *)
(* by name for the bridges.  A proxy that dies is launched again after a   *)
(* second; a configuration that is read again keeps, restarts or removes   *)
(* the proxies.  While a proxy is not configured nothing is fetched from a *)
(* bridge.  Everything runs in the main thread, one callback at a time.    *)
(***************************************************************************)
EXTENDS Integers, FiniteSets

CONSTANTS
  Proxy,      \* proxies, told apart by their command line
  Name,       \* transports
  None,       \* no proxy
  Offers,     \* the transports a proxy's program may announce
  Torrcs,     \* the configurations: [cfg |-> .., uri |-> ..]
  MaxDeaths,  \* how often a proxy process dies of itself
  MaxHups,    \* how often the configuration is read again
  Rude        \* TRUE: a proxy may send a protocol line after it is done

ProxyAssumption ==
  /\ None \notin Proxy /\ IsFiniteSet(Proxy)
  /\ Torrcs \subseteq [cfg : [Proxy -> SUBSET Name], uri : BOOLEAN]
  /\ Offers \in [Proxy -> SUBSET Name]
  /\ {MaxDeaths, MaxHups} \subseteq Nat /\ Rude \in BOOLEAN

\* What a proxy may announce, asked for or not, no other proxy announces and no
\* torrc asks of another.
OffersApart ==
  \A c \in Torrcs, p, q \in Proxy :
    p # q => Offers[p] \cap (Offers[q] \cup c.cfg[q]) = {}

VARIABLES
  mp,      \* managed_proxy_list: the proxies by command line
  reg,     \* transport_list: the proxy whose address is known for a name
  n,       \* unconfigured_proxies_n
  torrc,   \* the options
  fault,   \* the assertion that failed, or "freed": a freed process is used
  deaths, hups

vars == <<mp, reg, n, torrc, fault, deaths, hups>>

\* toLaunch is what the torrc asks for, asked what the environment of the
\* process that runs says of it, trans what that process has announced.
Absent == [st |-> "absent", proc |-> "none", toLaunch |-> {}, asked |-> {},
           trans |-> {}, uri |-> FALSE, supported |-> FALSE]

\* managed_proxy_create
Created(c, p) ==
  [Absent EXCEPT !.st = "infant", !.toLaunch = c.cfg[p], !.uri = c.uri]

Listed(m) == {p \in Proxy : m[p].st # "absent"}
Unconfigured(m) == {p \in Listed(m) : m[p].st # "completed"}

Init ==
  /\ torrc \in Torrcs
  /\ mp = [p \in Proxy |-> IF torrc.cfg[p] = {} THEN Absent
                           ELSE [Created(torrc, p) EXCEPT !.st = "waiting"]]
  /\ reg = [t \in Name |-> None]
  /\ n = Cardinality(Listed(mp))
  /\ fault = "none"
  /\ deaths = 0 /\ hups = 0

-----------------------------------------------------------------------------
\* proxy_prepare_for_restart: m with the proxies R flagged as infants.  A
\* process that still runs is told to end and forgets its proxy; the proxy
\* does not forget the process.
Prepared(m, R, uri) ==
  [p \in Proxy |->
     IF p \notin R THEN m[p]
     ELSE [m[p] EXCEPT !.st = "infant", !.asked = {}, !.trans = {},
                       !.uri = uri, !.supported = FALSE,
                       !.proc = IF @ = "running" THEN "killed" ELSE @]]

\* Its registered transports are looked up by name and removed.
Swept(r, m, R) ==
  [t \in Name |-> IF \E p \in R : t \in m[p].trans THEN None ELSE r[t]]

\* What the assertions of pt_configure_remaining_proxies say of m.
ConfigureFault(m, k) ==
  CASE k # Cardinality(Unconfigured(m)) -> "count"
    [] \E p \in Proxy : m[p].st = "waiting" /\ m[p].proc = "none" -> "process"
    [] OTHER -> "none"

\* Slip: an infant is left alone
LaunchDueNever(m) == m

\* configure_proxy for every infant: the launch is due in a second.
LaunchDue(m) ==
  [p \in Proxy |-> IF m[p].st = "infant" THEN [m[p] EXCEPT !.st = "waiting"]
                                         ELSE m[p]]

-----------------------------------------------------------------------------
\* launch_proxy_ev, launch_managed_proxy, after the delay: the environment says
\* what is asked for (create_managed_proxy_environment).
Launch(p, ok) ==
  /\ fault = "none" /\ mp[p].st = "waiting"
  /\ IF mp[p].proc # "none"
       THEN fault' = "launch" /\ UNCHANGED <<mp, n>>
       ELSE /\ mp' = [mp EXCEPT ![p] =
                        IF ok THEN [@ EXCEPT !.st = "launched",
                                             !.proc = "running",
                                             !.asked = mp[p].toLaunch]
                              ELSE Absent]
            /\ n' = IF ok THEN n ELSE n - 1
            /\ UNCHANGED fault
  /\ UNCHANGED <<reg, torrc, deaths, hups>>

\* A protocol line in the state it belongs to (handle_proxy_line)
Line(p, st, new) ==
  /\ fault = "none" /\ mp[p].st = st /\ mp[p].proc = "running"
  /\ new # mp[p]
  /\ mp' = [mp EXCEPT ![p] = new]
  /\ UNCHANGED <<reg, n, torrc, fault, deaths, hups>>

Version(p) == Line(p, "launched", [mp[p] EXCEPT !.st = "methods"])

\* CMETHOD: any name is taken, asked for or not.  A name is announced once; of
\* CMETHOD-ERROR nothing remains but the missing name.
Method(p, t) ==
  /\ t \in Offers[p]
  /\ Line(p, "methods", [mp[p] EXCEPT !.trans = @ \cup {t}])

ProxyDone(p) == Line(p, "methods", [mp[p] EXCEPT !.supported = mp[p].uri])

\* register_client_proxy: a name that another address has is skipped.
Registered(p) ==
  [t \in Name |-> IF t \in mp[p].trans /\ reg[t] = None THEN p ELSE reg[t]]

\* CMETHODS DONE, handle_finished_proxy: the proxy is completed, or destroyed
\* when it says nothing of the outgoing proxy it was given.
MethodsDone(p) ==
  /\ fault = "none" /\ mp[p].st = "methods" /\ mp[p].proc = "running"
  /\ IF mp[p].uri /\ ~mp[p].supported
       THEN mp' = [mp EXCEPT ![p] = Absent] /\ UNCHANGED reg
       ELSE mp' = [mp EXCEPT ![p].st = "completed"] /\ reg' = Registered(p)
  /\ n' = n - 1
  /\ UNCHANGED <<torrc, fault, deaths, hups>>

\* A line that is malformed, reports a failure or is out of turn: the proxy is
\* broken and destroyed.
BadLine(p) ==
  /\ fault = "none" /\ mp[p].proc = "running"
  /\ mp[p].st \in {"launched", "methods"} \cup IF Rude THEN {"completed"}
                                                       ELSE {}
  /\ mp' = [mp EXCEPT ![p] = Absent]
  /\ n' = n - 1
  /\ UNCHANGED <<reg, torrc, fault, deaths, hups>>

-----------------------------------------------------------------------------
\* managed_proxy_exit_callback: the proxy is prepared for a restart, and
\* pt_configure_remaining_proxies visits every proxy.
Exit(p) ==
  LET m == Prepared([mp EXCEPT ![p].proc = "none"], {p}, torrc.uri)
      k == IF mp[p].st = "completed" THEN n + 1 ELSE n
  IN  /\ fault = "none" /\ deaths < MaxDeaths
      /\ mp[p].proc = "running"
      /\ deaths' = deaths + 1
      /\ reg' = Swept(reg, mp, {p})
      /\ n' = k
      /\ fault' = ConfigureFault(m, k)
      /\ mp' = IF fault' = "none" THEN LaunchDue(m) ELSE m
      /\ UNCHANGED <<torrc, hups>>

\* The same for a process that was told to end: its process_t is freed.
ExitKilled(p) ==
  /\ fault = "none" /\ mp[p].proc = "killed"
  /\ mp' = [mp EXCEPT ![p].proc = "freed"]
  /\ UNCHANGED <<reg, n, torrc, fault, deaths, hups>>

\* proxy_needs_restart
NeedsRestart(p, c) == mp[p].uri # c.uri \/ mp[p].trans # c.cfg[p]

\* Slip: a proxy that is kept does not unmark its transports
UnmarkedNever(c, keep) == [t \in Name |-> None]

\* pt_kickstart_proxy: a proxy that was there before unmarks the transports it
\* is listed with; the others are swept.
Unmarked(c, keep) ==
  [t \in Name |-> IF \E p \in keep : t \in c.cfg[p] THEN reg[t] ELSE None]

\* options_act: every proxy that is not completed is destroyed; the torrc
\* keeps, adds and drops proxies and transports; what is kept is restarted if
\* it offers something else; what is new will be launched.  (A DisableNetwork
\* configuration is one without proxies.)
Reread(c) ==
  LET done == {p \in Proxy : mp[p].st = "completed"}
      keep == {p \in done : c.cfg[p] # {}}
      again == {p \in keep : NeedsRestart(p, c)}
      m == [p \in Proxy |->
              CASE p \in keep -> [mp[p] EXCEPT !.toLaunch = c.cfg[p]]
                [] p \notin keep /\ c.cfg[p] # {} ->
                     [Created(c, p) EXCEPT !.st = "waiting"]
                [] OTHER -> Absent]
  IN  /\ fault = "none" /\ hups < MaxHups
      /\ hups' = hups + 1
      /\ torrc' = c
      /\ fault' = CASE n # Cardinality(Unconfigured(mp)) -> "count"
                    [] \E p \in Unconfigured(mp) : mp[p].proc = "freed"
                         -> "freed"
                    [] OTHER -> "none"
      /\ IF fault' # "none" THEN UNCHANGED <<mp, reg, n>>
         ELSE /\ mp' = Prepared(m, again, c.uri)
              /\ reg' = Swept(Unmarked(c, keep), m, again)
              /\ n' = Cardinality(Unconfigured(m)) + Cardinality(again)
      /\ UNCHANGED deaths

-----------------------------------------------------------------------------
Talk(p) ==
  \/ Version(p)
  \/ \E t \in Name : Method(p, t)
  \/ ProxyDone(p)
  \/ MethodsDone(p)
  \/ BadLine(p)

Progress(p) == (\E ok \in BOOLEAN : Launch(p, ok)) \/ Talk(p)

Next ==
  \/ \E p \in Proxy :
       \/ Progress(p)
       \/ Exit(p)
       \/ ExitKilled(p)
  \/ \E c \in Torrcs : Reread(c)

Spec == Init /\ [][Next]_vars

\* The launch timer fires, and a proxy that was launched answers.
FairSpec == Spec /\ \A p \in Proxy : WF_vars(Progress(p))

-----------------------------------------------------------------------------
\* unconfigured_proxies_n counts the proxies that are not completed, over
\* deaths, failures and configuration reads: while it is not zero tor fetches
\* nothing from its bridges.
CountIsRight == n = Cardinality(Unconfigured(mp))

\* A transport that is registered is the address of a proxy that is running,
\* completed and offers it: bridges are not sent to a dead port.
RegisteredIsServed ==
  \A t \in Name : reg[t] # None
    => LET p == mp[reg[t]]
       IN  p.st = "completed" /\ t \in p.trans /\ p.proc = "running"

\* Every transport a completed proxy offers is registered.
OfferedIsRegistered ==
  \A p \in Proxy : mp[p].st = "completed"
    => \A t \in mp[p].trans : reg[t] # None

\* A completed proxy has the outgoing proxy the torrc in force names, and its
\* process was asked for what that torrc asks for, or offers just that.
FitsTorrc ==
  \A p \in Proxy : mp[p].st = "completed" /\ fault = "none"
    => /\ mp[p].uri = torrc.uri
       /\ torrc.cfg[p] \in {mp[p].asked, mp[p].trans}

\* Proxies, registry and configuration agree, whoever dies, is dropped or is
\* kept by a configuration read, and whatever a proxy announces of what it is
\* asked for and of what it is not: unconfigured_proxies_n counts the listed
\* proxies that are not configured (assert_unconfigured_count_ok); a registered
\* transport is one of a live proxy that offers it, and what a configured proxy
\* offers is registered; and the process of a configured proxy was started for
\* the torrc in force or offers just what it asks for (proxy_needs_restart).
ProxiesAgree ==
  CountIsRight /\ RegisteredIsServed /\ OfferedIsRegistered /\ FitsTorrc

\* tor does not wait for its proxies for ever.
Unblocked == []<>(n = 0 \/ fault # "none")

-----------------------------------------------------------------------------
\* What a comment, an assertion or a name in the source says and the code does
\* not keep (README, section "Departures"): TLC refutes each of these.

\* The assertion of configure_proxy: a proxy that is not an infant has a
\* process.
ProcessAssertion == fault # "process"

\* The assertion of launch_managed_proxy: a proxy that is launched has none.
LaunchAssertion == fault # "launch"
=============================================================================
