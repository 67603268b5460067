----------------------- MODULE TransportProxiesProofs -----------------------
(***************************************************************************)
(* Proofs about TransportProxies, for any finite number of proxies, any    *)
(* transports, configurations, deaths and configuration reads, of proxies  *)
(* that send no line of the protocol once they are done, announce each of  *)
(* their transports once and share none.                                   *)
(***************************************************************************)
EXTENDS TransportProxies, FiniteSetTheorems, TLAPS

\* The case proved: README, section "Departures", has what the others lead to.
PoliteAndApart == ProxyAssumption /\ OffersApart /\ ~Rude

Alive == {"launched", "methods", "completed"}

Record ==
  [st : {"absent", "infant", "waiting"} \cup Alive,
   proc : {"none", "running", "killed", "freed"},
   toLaunch : SUBSET Name, asked : SUBSET Name, trans : SUBSET Name,
   uri : BOOLEAN, supported : BOOLEAN]

TypeOK ==
  /\ mp \in [Proxy -> Record]
  /\ reg \in [Name -> Proxy \cup {None}]
  /\ torrc \in Torrcs

\* A process runs for the proxies that were launched, and one that has said
\* nothing offers nothing.  It was asked for what is to be launched, or a
\* configuration read has kept it because it offers just that.
Sound(p, r) ==
  /\ r.proc = "running" <=> r.st \in Alive
  /\ r.trans # {} => r.st \in {"methods", "completed"}
  /\ r.trans \subseteq Offers[p]
  /\ r.st \in Alive => \/ r.asked = r.toLaunch
                       \/ r.st = "completed" /\ r.trans = r.toLaunch

\* A proxy is told what the configuration in force says.
Told(p) ==
  mp[p].st # "absent"
    => mp[p].toLaunch = torrc.cfg[p] /\ mp[p].uri = torrc.uri

\* The inductive invariant.  No action is taken after a fault.
ProxyInv ==
  /\ TypeOK
  /\ CountIsRight /\ RegisteredIsServed /\ OfferedIsRegistered
  /\ \A p \in Proxy : Sound(p, mp[p])
  /\ fault = "none" => \A p \in Proxy : Told(p)

-----------------------------------------------------------------------------
(* Lemmas                                                                   *)

\* Absent and Created are records, and sound.
LEMMA NewIsSound ==
  ASSUME ProxyAssumption, NEW c \in Torrcs, NEW p \in Proxy
  PROVE  /\ Absent \in Record /\ Sound(p, Absent)
         /\ Absent.st = "absent" /\ Absent.trans = {}
         /\ LET w == [Created(c, p) EXCEPT !.st = "waiting"]
            IN  /\ w \in Record /\ Sound(p, w) /\ w.st = "waiting"
                /\ w.trans = {} /\ w.toLaunch = c.cfg[p] /\ w.uri = c.uri
  BY DEF Absent, Created, Record, Sound, Alive, ProxyAssumption

\* What proxy_prepare_for_restart leaves of a proxy.
Restarted(r, x, u) ==
  [r EXCEPT !.proc = x, !.st = "infant", !.asked = {}, !.trans = {}, !.uri = u,
            !.supported = FALSE]

\* It is a record, and sound.
LEMMA RestartIsSound ==
  ASSUME NEW p \in Proxy, NEW r \in Record, NEW u \in BOOLEAN,
         NEW x \in {"none", "killed", "freed"}
  PROVE  LET d == Restarted(r, x, u)
         IN  /\ d \in Record /\ d.proc = x /\ d.st = "infant" /\ d.trans = {}
             /\ d.uri = u /\ d.toLaunch = r.toLaunch /\ Sound(p, d)
<1> DEFINE d == Restarted(r, x, u)
           e == [r EXCEPT !.proc = x, !.st = "infant", !.asked = {}]
<1>1. /\ e \in Record /\ e.proc = x /\ e.st = "infant"
      /\ e.toLaunch = r.toLaunch
  BY DEF Record
<1>2. d = [e EXCEPT !.trans = {}, !.uri = u, !.supported = FALSE]
  BY DEF Restarted
<1> HIDE DEF d, e
<1>3. /\ d \in Record /\ d.proc = x /\ d.st = "infant" /\ d.trans = {}
      /\ d.uri = u /\ d.toLaunch = r.toLaunch
  BY <1>1, <1>2, ZenonT(30) DEF Record
<1>4. Sound(p, d)
  BY <1>3 DEF Sound, Alive
<1>5. QED
  BY <1>3, <1>4 DEF d

\* The proxies are finitely many.
LEMMA Finite ==
  ASSUME ProxyAssumption, NEW m
  PROVE  IsFiniteSet(Unconfigured(m))
  BY FS_Subset DEF ProxyAssumption, Unconfigured, Listed

\* A proxy leaves the ones that count.
LEMMA OneLess ==
  ASSUME ProxyAssumption, CountIsRight, NEW p \in Unconfigured(mp),
         n' = n - 1, Unconfigured(mp') = Unconfigured(mp) \ {p}
  PROVE  CountIsRight'
<1>1. IsFiniteSet(Unconfigured(mp))
  BY Finite
<1>2. Cardinality(Unconfigured(mp) \ {p}) = Cardinality(Unconfigured(mp)) - 1
  BY <1>1, FS_RemoveElement
<1>3. QED
  BY <1>2 DEF CountIsRight

\* A proxy that is not completed goes: its name is in no register.
LEMMA Gone ==
  ASSUME ProxyAssumption, ProxyInv, NEW p \in Proxy, fault = "none",
         mp[p].st \in {"waiting", "launched", "methods"},
         mp' = [mp EXCEPT ![p] = Absent], n' = n - 1,
         UNCHANGED <<reg, torrc, fault>>
  PROVE  ProxyInv'
<1>1. TypeOK'
  BY NewIsSound DEF ProxyInv, TypeOK
<1>2. \A q \in Proxy : mp'[q] = IF q = p THEN Absent ELSE mp[q]
  BY DEF ProxyInv, TypeOK
<1>3. CountIsRight'
  <2>1. p \in Unconfigured(mp)
    BY DEF Unconfigured, Listed
  <2>2. Unconfigured(mp') = Unconfigured(mp) \ {p}
    BY <1>2 DEF Unconfigured, Listed, Absent
  <2>3. QED
    BY <2>1, <2>2, OneLess DEF ProxyInv
<1>4. RegisteredIsServed'
  BY <1>2 DEF ProxyInv, TypeOK, RegisteredIsServed
<1>5. OfferedIsRegistered'
  BY <1>2 DEF ProxyInv, OfferedIsRegistered, Absent
<1>6. \A q \in Proxy : Sound(q, mp[q])'
  <2> SUFFICES ASSUME NEW q \in Proxy PROVE Sound(q, mp'[q])
    BY DEF Sound
  <2> QED
    BY <1>2, NewIsSound DEF ProxyInv, TypeOK
<1>7. \A q \in Proxy : Told(q)'
  <2>1. Absent.st = "absent"
    BY DEF Absent
  <2>2. QED
    BY <1>2, <2>1 DEF ProxyInv, Told
<1>8. QED
  BY <1>1, <1>3, <1>4, <1>5, <1>6, <1>7 DEF ProxyInv

\* A proxy that is not completed moves on to a state that does not count less.
LEMMA MovesOn ==
  ASSUME ProxyAssumption, ProxyInv, NEW p \in Proxy, fault = "none",
         mp[p].st \in {"waiting", "launched", "methods"},
         NEW r \in Record, mp' = [mp EXCEPT ![p] = r], Sound(p, r),
         r.st \in {"launched", "methods"},
         r.toLaunch = mp[p].toLaunch, r.uri = mp[p].uri,
         UNCHANGED <<reg, n, torrc, fault>>
  PROVE  ProxyInv'
<1>1. TypeOK'
  BY DEF ProxyInv, TypeOK
<1>2. \A q \in Proxy : mp'[q] = IF q = p THEN r ELSE mp[q]
  BY DEF ProxyInv, TypeOK
<1>3. CountIsRight'
  <2>1. Unconfigured(mp') = Unconfigured(mp)
    BY <1>2 DEF Unconfigured, Listed
  <2>2. QED
    BY <2>1 DEF ProxyInv, CountIsRight
<1>4. RegisteredIsServed'
  BY <1>2 DEF ProxyInv, TypeOK, RegisteredIsServed
<1>5. OfferedIsRegistered'
  BY <1>2 DEF ProxyInv, OfferedIsRegistered
<1>6. \A q \in Proxy : Sound(q, mp[q])'
  <2> SUFFICES ASSUME NEW q \in Proxy PROVE Sound(q, mp'[q])
    BY DEF Sound
  <2> QED
    BY <1>2 DEF ProxyInv, TypeOK
<1>7. \A q \in Proxy : Told(q)'
  BY <1>2 DEF ProxyInv, Told
<1>8. QED
  BY <1>1, <1>3, <1>4, <1>5, <1>6, <1>7 DEF ProxyInv

-----------------------------------------------------------------------------
(* The actions                                                              *)

\* launch_managed_proxy.
LEMMA LaunchKeeps ==
  ASSUME ProxyAssumption, ProxyInv, NEW p \in Proxy, NEW ok \in BOOLEAN,
         Launch(p, ok)
  PROVE  ProxyInv'
<1>1. CASE mp[p].proc # "none"
  BY <1>1 DEF Launch, ProxyInv, TypeOK, CountIsRight, RegisteredIsServed,
              OfferedIsRegistered, Unconfigured, Listed, Sound
<1>2. CASE mp[p].proc = "none" /\ ok
  <2> DEFINE r == [mp[p] EXCEPT !.st = "launched", !.proc = "running",
                                !.asked = mp[p].toLaunch]
  <2>1. r \in Record /\ Sound(p, r) /\ r.st = "launched"
        /\ r.toLaunch = mp[p].toLaunch /\ r.uri = mp[p].uri
    BY <1>2 DEF Launch, ProxyInv, TypeOK, Record, Sound, Alive
  <2>2. mp' = [mp EXCEPT ![p] = r] /\ UNCHANGED <<reg, n, torrc, fault>>
        /\ fault = "none" /\ mp[p].st = "waiting"
    BY <1>2 DEF Launch
  <2> HIDE DEF r
  <2>3. QED
    BY <2>1, <2>2, MovesOn
<1>3. CASE mp[p].proc = "none" /\ ~ok
  <2>1. mp' = [mp EXCEPT ![p] = Absent] /\ n' = n - 1
        /\ UNCHANGED <<reg, torrc, fault>>
        /\ fault = "none" /\ mp[p].st = "waiting"
    BY <1>3 DEF Launch
  <2>2. QED
    BY <2>1, Gone
<1>4. QED
  BY <1>1, <1>2, <1>3

\* A line of the protocol arrives.
LEMMA LineKeeps ==
  ASSUME ProxyAssumption, ProxyInv, NEW p \in Proxy,
         Version(p) \/ (\E t \in Name : Method(p, t)) \/ ProxyDone(p)
  PROVE  ProxyInv'
<1>1. CASE Version(p)
  <2> DEFINE r == [mp[p] EXCEPT !.st = "methods"]
  <2>1. r \in Record /\ Sound(p, r) /\ r.st = "methods"
        /\ r.toLaunch = mp[p].toLaunch /\ r.uri = mp[p].uri
    BY <1>1 DEF Version, Line, ProxyInv, TypeOK, Record, Sound, Alive
  <2>2. mp' = [mp EXCEPT ![p] = r] /\ UNCHANGED <<reg, n, torrc, fault>>
        /\ fault = "none" /\ mp[p].st = "launched"
    BY <1>1 DEF Version, Line
  <2> HIDE DEF r
  <2>3. QED
    BY <2>1, <2>2, MovesOn
<1>2. CASE \E t \in Name : Method(p, t)
  <2> PICK t \in Name : Method(p, t)
    BY <1>2
  <2> DEFINE r == [mp[p] EXCEPT !.trans = @ \cup {t}]
  <2>1. r \in Record /\ Sound(p, r) /\ r.st = "methods"
        /\ r.toLaunch = mp[p].toLaunch /\ r.uri = mp[p].uri
    BY DEF Method, Line, ProxyInv, TypeOK, Record, Sound, Alive
  <2>2. mp' = [mp EXCEPT ![p] = r] /\ UNCHANGED <<reg, n, torrc, fault>>
        /\ fault = "none" /\ mp[p].st = "methods"
    BY DEF Method, Line
  <2> HIDE DEF r
  <2>3. QED
    BY <2>1, <2>2, MovesOn
<1>3. CASE ProxyDone(p)
  <2> DEFINE r == [mp[p] EXCEPT !.supported = mp[p].uri]
  <2>1. r \in Record /\ Sound(p, r) /\ r.st = "methods"
        /\ r.toLaunch = mp[p].toLaunch /\ r.uri = mp[p].uri
    BY <1>3 DEF ProxyDone, Line, ProxyInv, TypeOK, Record, Sound, Alive
  <2>2. mp' = [mp EXCEPT ![p] = r] /\ UNCHANGED <<reg, n, torrc, fault>>
        /\ fault = "none" /\ mp[p].st = "methods"
    BY <1>3 DEF ProxyDone, Line
  <2> HIDE DEF r
  <2>3. QED
    BY <2>1, <2>2, MovesOn
<1>4. QED
  BY <1>1, <1>2, <1>3

\* CMETHODS DONE: register_proxy and managed_proxy_set_state.
LEMMA DoneKeeps ==
  ASSUME ProxyAssumption, ProxyInv, NEW p \in Proxy, MethodsDone(p)
  PROVE  ProxyInv'
<1>1. CASE mp[p].uri /\ ~mp[p].supported
  <2>1. mp' = [mp EXCEPT ![p] = Absent] /\ n' = n - 1
        /\ UNCHANGED <<reg, torrc, fault>>
        /\ fault = "none" /\ mp[p].st = "methods"
    BY <1>1 DEF MethodsDone
  <2>2. QED
    BY <2>1, Gone
<1>2. CASE ~(mp[p].uri /\ ~mp[p].supported)
  <2> DEFINE r == [mp[p] EXCEPT !.st = "completed"]
  <2>1. r \in Record /\ Sound(p, r) /\ r.st = "completed" /\ r.proc = "running"
        /\ r.trans = mp[p].trans
        /\ r.toLaunch = mp[p].toLaunch /\ r.uri = mp[p].uri
    BY DEF MethodsDone, ProxyInv, TypeOK, Record, Sound, Alive
  <2>2. mp' = [mp EXCEPT ![p] = r] /\ n' = n - 1 /\ reg' = Registered(p)
        /\ UNCHANGED <<torrc, fault>> /\ fault = "none"
        /\ mp[p].st = "methods"
    BY <1>2 DEF MethodsDone
  <2> HIDE DEF r
  <2>3. TypeOK'
    BY <2>1, <2>2 DEF ProxyInv, TypeOK, Registered
  <2>4. \A q \in Proxy : mp'[q] = IF q = p THEN r ELSE mp[q]
    BY <2>2 DEF ProxyInv, TypeOK
  <2>5. CountIsRight'
    <3>1. p \in Unconfigured(mp)
      BY <2>2 DEF Unconfigured, Listed
    <3>2. Unconfigured(mp') = Unconfigured(mp) \ {p}
      BY <2>1, <2>4 DEF Unconfigured, Listed
    <3>3. QED
      BY <2>2, <3>1, <3>2, OneLess DEF ProxyInv
  <2>6. RegisteredIsServed'
    <3> SUFFICES ASSUME NEW t \in Name, reg'[t] # None
                 PROVE  /\ mp'[reg'[t]].st = "completed"
                        /\ t \in mp'[reg'[t]].trans
                        /\ mp'[reg'[t]].proc = "running"
      BY DEF RegisteredIsServed
    <3>1. reg'[t] = IF t \in mp[p].trans /\ reg[t] = None THEN p ELSE reg[t]
      BY <2>2 DEF Registered
    <3>2. CASE t \in mp[p].trans /\ reg[t] = None
      BY <2>1, <2>4, <3>1, <3>2
    <3>3. CASE ~(t \in mp[p].trans /\ reg[t] = None)
      <4>1. reg[t] \in Proxy /\ mp[reg[t]].st = "completed"
            /\ t \in mp[reg[t]].trans /\ mp[reg[t]].proc = "running"
        BY <3>1, <3>3 DEF ProxyInv, TypeOK, RegisteredIsServed
      <4>2. QED
        BY <2>2, <2>4, <3>1, <3>3, <4>1
    <3>4. QED
      BY <3>2, <3>3
  <2>7. OfferedIsRegistered'
    <3> SUFFICES ASSUME NEW q \in Proxy, mp'[q].st = "completed",
                        NEW t \in mp'[q].trans
                 PROVE  reg'[t] # None
      BY DEF OfferedIsRegistered
    <3>1. t \in Name
      BY <2>3 DEF TypeOK, Record
    <3>2. reg'[t] = IF t \in mp[p].trans /\ reg[t] = None THEN p ELSE reg[t]
      BY <2>2, <3>1 DEF Registered
    <3>3. QED
      BY <2>1, <2>4, <3>2
         DEF ProxyInv, OfferedIsRegistered, ProxyAssumption
  <2>8. \A q \in Proxy : Sound(q, mp[q])'
    <3> SUFFICES ASSUME NEW q \in Proxy PROVE Sound(q, mp'[q])
      BY DEF Sound
    <3> QED
      BY <2>1, <2>4 DEF ProxyInv
  <2>9. \A q \in Proxy : Told(q)'
    BY <2>1, <2>2, <2>4 DEF ProxyInv, Told
  <2>10. QED
    BY <2>3, <2>5, <2>6, <2>7, <2>8, <2>9 DEF ProxyInv
<1>3. QED
  BY <1>1, <1>2

\* A line that is not of the protocol.
LEMMA BadLineKeeps ==
  ASSUME ProxyAssumption, ~Rude, ProxyInv, NEW p \in Proxy, BadLine(p)
  PROVE  ProxyInv'
  BY Gone DEF BadLine

\* A proxy that was killed exits.
LEMMA ExitKilledKeeps ==
  ASSUME ProxyAssumption, ProxyInv, NEW p \in Proxy, ExitKilled(p)
  PROVE  ProxyInv'
<1> DEFINE r == [mp[p] EXCEPT !.proc = "freed"]
<1>1. r \in Record /\ Sound(p, r) /\ r.st = mp[p].st /\ r.trans = mp[p].trans
      /\ r.toLaunch = mp[p].toLaunch /\ r.uri = mp[p].uri
  BY DEF ExitKilled, ProxyInv, TypeOK, Record, Sound, Alive
<1>2. mp' = [mp EXCEPT ![p] = r] /\ UNCHANGED <<reg, n, torrc, fault>>
      /\ mp[p].proc = "killed"
  BY DEF ExitKilled
<1> HIDE DEF r
<1>3. TypeOK'
  BY <1>1, <1>2 DEF ProxyInv, TypeOK
<1>4. \A q \in Proxy : mp'[q] = IF q = p THEN r ELSE mp[q]
  BY <1>2 DEF ProxyInv, TypeOK
<1>5. CountIsRight'
  <2>1. Unconfigured(mp') = Unconfigured(mp)
    BY <1>1, <1>4 DEF Unconfigured, Listed
  <2>2. QED
    BY <1>2, <2>1 DEF ProxyInv, CountIsRight
<1>6. RegisteredIsServed'
  BY <1>1, <1>2, <1>4 DEF ProxyInv, TypeOK, RegisteredIsServed
<1>7. OfferedIsRegistered'
  BY <1>1, <1>2, <1>4 DEF ProxyInv, OfferedIsRegistered
<1>8. \A q \in Proxy : Sound(q, mp[q])'
  <2> SUFFICES ASSUME NEW q \in Proxy PROVE Sound(q, mp'[q])
    BY DEF Sound
  <2> QED
    BY <1>1, <1>4 DEF ProxyInv
<1>9. fault' = "none" => \A q \in Proxy : Told(q)'
  BY <1>1, <1>2, <1>4 DEF ProxyInv, Told
<1>10. QED
  BY <1>3, <1>5, <1>6, <1>7, <1>8, <1>9 DEF ProxyInv

\* managed_proxy_exit_callback.
LEMMA ExitKeeps ==
  ASSUME ProxyAssumption, OffersApart, ProxyInv, NEW p \in Proxy, Exit(p)
  PROVE  ProxyInv'
<1> DEFINE m == Prepared([mp EXCEPT ![p].proc = "none"], {p}, torrc.uri)
           dead == Restarted(mp[p], "none", torrc.uri)
<1>1. /\ fault = "none" /\ mp[p].proc = "running"
      /\ reg' = Swept(reg, mp, {p}) /\ UNCHANGED torrc
      /\ n' = IF mp[p].st = "completed" THEN n + 1 ELSE n
      /\ mp' = LaunchDue(m) \/ mp' = m
  BY DEF Exit
<1>2. /\ dead \in Record /\ dead.proc = "none" /\ dead.st = "infant"
      /\ dead.trans = {} /\ dead.uri = torrc.uri
      /\ dead.toLaunch = mp[p].toLaunch
  <2>1. mp[p] \in Record /\ torrc.uri \in BOOLEAN
    BY DEF ProxyInv, TypeOK, ProxyAssumption
  <2>2. QED
    BY <2>1, RestartIsSound
<1>3. m = [q \in Proxy |-> IF q = p THEN dead ELSE mp[q]]
  BY <1>1 DEF Prepared, Restarted, ProxyInv, TypeOK, Record
<1> HIDE DEF dead, m
\* The change of a proxy: the one that died starts again, and infants wait.
<1>4. \A q \in Proxy :
        /\ mp'[q] \in Record
        /\ mp'[q].toLaunch = mp[q].toLaunch
        /\ mp'[q].proc = IF q = p THEN "none" ELSE mp[q].proc
        /\ mp'[q].trans = IF q = p THEN {} ELSE mp[q].trans
        /\ mp'[q].uri = IF q = p THEN torrc.uri ELSE mp[q].uri
        /\ q # p => mp'[q].asked = mp[q].asked
        /\ q = p => mp'[q].st \in {"infant", "waiting"}
        /\ q # p => \/ mp'[q].st = mp[q].st
                    \/ mp[q].st = "infant" /\ mp'[q].st = "waiting"
  <2> SUFFICES ASSUME NEW q \in Proxy
               PROVE  /\ mp'[q] \in Record
                      /\ mp'[q].toLaunch = mp[q].toLaunch
                      /\ mp'[q].proc = IF q = p THEN "none" ELSE mp[q].proc
                      /\ mp'[q].trans = IF q = p THEN {} ELSE mp[q].trans
                      /\ mp'[q].uri = IF q = p THEN torrc.uri ELSE mp[q].uri
                      /\ q # p => mp'[q].asked = mp[q].asked
                      /\ q = p => mp'[q].st \in {"infant", "waiting"}
                      /\ q # p => \/ mp'[q].st = mp[q].st
                                  \/ /\ mp[q].st = "infant"
                                     /\ mp'[q].st = "waiting"
    OBVIOUS
  <2>1. m[q] \in Record /\ m[q] = IF q = p THEN dead ELSE mp[q]
    BY <1>2, <1>3 DEF ProxyInv, TypeOK
  <2>2. \/ mp'[q] = m[q]
        \/ m[q].st = "infant" /\ mp'[q] = [m[q] EXCEPT !.st = "waiting"]
    BY <1>1 DEF LaunchDue
  <2>3. /\ mp'[q] \in Record
        /\ mp'[q].toLaunch = m[q].toLaunch /\ mp'[q].proc = m[q].proc
        /\ mp'[q].trans = m[q].trans /\ mp'[q].uri = m[q].uri
        /\ mp'[q].asked = m[q].asked
        /\ \/ mp'[q].st = m[q].st
           \/ m[q].st = "infant" /\ mp'[q].st = "waiting"
    BY <2>1, <2>2 DEF Record
  <2>4. QED
    BY <1>2, <2>1, <2>3
<1>5. TypeOK'
  <2>1. mp' \in [Proxy -> Record]
    BY <1>1, <1>3, <1>4 DEF LaunchDue
  <2>2. reg' \in [Name -> Proxy \cup {None}]
    BY <1>1 DEF ProxyInv, TypeOK, Swept
  <2>3. QED
    BY <1>1, <2>1, <2>2 DEF ProxyInv, TypeOK
<1>6. CountIsRight'
  <2>1. mp[p].st \in Alive
    BY <1>1 DEF ProxyInv, Sound
  <2>2. Unconfigured(mp') = Unconfigured(mp) \cup {p}
    BY <1>4 DEF Unconfigured, Listed
  <2>3. p \in Unconfigured(mp) <=> mp[p].st # "completed"
    BY <2>1 DEF Unconfigured, Listed, Alive
  <2>4. QED
    BY <1>1, <2>2, <2>3, Finite, FS_AddElement DEF ProxyInv, CountIsRight
<1>7. \A t \in Name : reg'[t] = IF t \in mp[p].trans THEN None ELSE reg[t]
  BY <1>1 DEF Swept
<1>8. RegisteredIsServed'
  <2> SUFFICES ASSUME NEW t \in Name, reg'[t] # None
               PROVE  /\ mp'[reg'[t]].st = "completed"
                      /\ t \in mp'[reg'[t]].trans
                      /\ mp'[reg'[t]].proc = "running"
    BY DEF RegisteredIsServed
  <2>1. reg'[t] = reg[t] /\ t \notin mp[p].trans
    BY <1>7
  <2>2. reg[t] \in Proxy /\ mp[reg[t]].st = "completed"
        /\ t \in mp[reg[t]].trans /\ mp[reg[t]].proc = "running"
    BY <2>1 DEF ProxyInv, TypeOK, RegisteredIsServed
  <2>3. reg[t] # p
    BY <2>1, <2>2
  <2>4. QED
    BY <1>4, <2>1, <2>2, <2>3
<1>9. OfferedIsRegistered'
  <2> SUFFICES ASSUME NEW q \in Proxy, mp'[q].st = "completed",
                      NEW t \in mp'[q].trans
               PROVE  reg'[t] # None
    BY DEF OfferedIsRegistered
  <2>1. q # p /\ mp[q].st = "completed" /\ t \in mp[q].trans
    BY <1>4
  <2>2. t \in Name /\ reg[t] # None
    BY <2>1 DEF ProxyInv, TypeOK, Record, OfferedIsRegistered
  <2>3. t \notin mp[p].trans
    BY <2>1 DEF OffersApart, ProxyInv, TypeOK, Sound
  <2>4. QED
    BY <1>7, <2>2, <2>3
<1>10. \A q \in Proxy : Sound(q, mp[q])'
  <2> SUFFICES ASSUME NEW q \in Proxy PROVE Sound(q, mp'[q])
    BY DEF Sound
  <2>1. Sound(q, mp[q])
    BY DEF ProxyInv
  <2>2. QED
    BY <1>4, <2>1 DEF Sound, Alive
<1>11. \A q \in Proxy : Told(q)'
  <2> SUFFICES ASSUME NEW q \in Proxy PROVE Told(q)'
    OBVIOUS
  <2>1. mp[q].st # "absent" => mp[q].toLaunch = torrc.cfg[q]
                               /\ mp[q].uri = torrc.uri
    BY <1>1 DEF ProxyInv, Told
  <2>2. mp[p].st # "absent"
    BY <1>1 DEF ProxyInv, Sound, Alive
  <2>3. QED
    BY <1>1, <1>4, <2>1, <2>2 DEF Told
<1>12. QED
  BY <1>5, <1>6, <1>8, <1>9, <1>10, <1>11 DEF ProxyInv

\* A configuration that is read again: the proxies that are kept as they are
\* keep their transports registered, and those that are not lose them.
LEMMA RereadKeeps ==
  ASSUME ProxyAssumption, OffersApart, ProxyInv, NEW c \in Torrcs, Reread(c)
  PROVE  ProxyInv'
<1> DEFINE done == {p \in Proxy : mp[p].st = "completed"}
           keep == {p \in done : c.cfg[p] # {}}
           again == {p \in keep : NeedsRestart(p, c)}
           m == [p \in Proxy |->
                   CASE p \in keep -> [mp[p] EXCEPT !.toLaunch = c.cfg[p]]
                     [] p \notin keep /\ c.cfg[p] # {} ->
                          [Created(c, p) EXCEPT !.st = "waiting"]
                     [] OTHER -> Absent]
<1>1. fault = "none" /\ torrc' = c
  BY DEF Reread
<1>2. CASE fault' # "none"
  <2>1. UNCHANGED <<mp, reg, n>>
    BY <1>2 DEF Reread
  <2>2. QED
    BY <1>1, <1>2, <2>1
       DEF ProxyInv, TypeOK, CountIsRight, RegisteredIsServed,
           OfferedIsRegistered, Unconfigured, Listed, Sound
<1>3. CASE fault' = "none"
  <2>1. /\ mp' = Prepared(m, again, c.uri)
        /\ reg' = Swept(Unmarked(c, keep), m, again)
        /\ n' = Cardinality(Unconfigured(m)) + Cardinality(again)
    BY <1>3 DEF Reread
  \* The three ways a proxy goes.
  <2>2. \A p \in again :
          /\ p \in keep /\ mp[p].st = "completed"
          /\ m[p].trans = mp[p].trans /\ m[p].st = "completed"
          /\ mp'[p] \in Record /\ Sound(p, mp'[p])
          /\ mp'[p].st = "infant" /\ mp'[p].toLaunch = c.cfg[p]
          /\ mp'[p].uri = c.uri
    <3> SUFFICES ASSUME NEW p \in again
                 PROVE  /\ p \in keep /\ mp[p].st = "completed"
                        /\ m[p].trans = mp[p].trans /\ m[p].st = "completed"
                        /\ mp'[p] \in Record /\ Sound(p, mp'[p])
                        /\ mp'[p].st = "infant"
                        /\ mp'[p].toLaunch = c.cfg[p] /\ mp'[p].uri = c.uri
      OBVIOUS
    <3>1. p \in Proxy /\ p \in keep /\ mp[p].st = "completed"
      OBVIOUS
    <3>2. mp[p] \in Record /\ Sound(p, mp[p])
      BY <3>1 DEF ProxyInv, TypeOK
    <3>3. mp[p].proc = "running"
      BY <3>1, <3>2 DEF Sound, Alive
    <3>4. m[p] = [mp[p] EXCEPT !.toLaunch = c.cfg[p]]
      BY <3>1
    <3>5. mp'[p] = [m[p] EXCEPT !.st = "infant", !.asked = {}, !.trans = {},
                                !.uri = c.uri, !.supported = FALSE,
                                !.proc = IF @ = "running" THEN "killed"
                                                          ELSE @]
      BY <2>1, <3>1 DEF Prepared
    <3>6. c.cfg[p] \in SUBSET Name /\ c.uri \in BOOLEAN
      BY <3>1 DEF ProxyAssumption
    <3> HIDE DEF m, again, keep, done
    <3>7. m[p] \in Record /\ m[p].proc = "running" /\ m[p].toLaunch = c.cfg[p]
          /\ m[p].trans = mp[p].trans /\ m[p].st = "completed"
      BY <3>1, <3>2, <3>3, <3>4, <3>6 DEF Record
    <3>8. mp'[p] = Restarted(m[p], "killed", c.uri)
      BY <3>5, <3>7 DEF Record, Restarted
    <3>9. QED
      BY <3>1, <3>6, <3>7, <3>8, RestartIsSound
  <2>3. \A p \in keep \ again :
          /\ mp[p].st = "completed" /\ mp[p].trans = c.cfg[p]
          /\ m[p] = mp'[p] /\ mp'[p] \in Record /\ Sound(p, mp'[p])
          /\ mp'[p].st = "completed" /\ mp'[p].proc = "running"
          /\ mp'[p].trans = mp[p].trans
          /\ mp'[p].toLaunch = c.cfg[p] /\ mp'[p].uri = c.uri
    <3> SUFFICES ASSUME NEW p \in keep \ again
                 PROVE  /\ mp[p].st = "completed" /\ mp[p].trans = c.cfg[p]
                        /\ m[p] = mp'[p]
                        /\ mp'[p] \in Record /\ Sound(p, mp'[p])
                        /\ mp'[p].st = "completed" /\ mp'[p].proc = "running"
                        /\ mp'[p].trans = mp[p].trans
                        /\ mp'[p].toLaunch = c.cfg[p] /\ mp'[p].uri = c.uri
      OBVIOUS
    <3>1. /\ p \in Proxy /\ mp[p].st = "completed"
          /\ mp[p].trans = c.cfg[p] /\ mp[p].uri = c.uri
      BY DEF NeedsRestart
    <3>2. mp[p] \in Record /\ Sound(p, mp[p])
      BY <3>1 DEF ProxyInv, TypeOK
    <3>3. m[p] = [mp[p] EXCEPT !.toLaunch = c.cfg[p]]
      BY <3>1
    <3>4. mp'[p] = m[p]
      BY <2>1, <3>1 DEF Prepared
    <3>5. c.cfg[p] \in SUBSET Name
      BY <3>1 DEF ProxyAssumption
    <3> HIDE DEF m, again, keep, done
    <3>6. QED
      BY <3>1, <3>2, <3>3, <3>4, <3>5 DEF Record, Sound, Alive
  <2>4. \A p \in Proxy \ keep :
          /\ m[p] = mp'[p] /\ mp'[p] \in Record /\ Sound(p, mp'[p])
          /\ mp'[p].st \in {"absent", "waiting"} /\ mp'[p].trans = {}
          /\ mp'[p].st = "waiting" => /\ mp'[p].toLaunch = c.cfg[p]
                                      /\ mp'[p].uri = c.uri
    <3> SUFFICES ASSUME NEW p \in Proxy \ keep
                 PROVE  /\ m[p] = mp'[p]
                        /\ mp'[p] \in Record /\ Sound(p, mp'[p])
                        /\ mp'[p].st \in {"absent", "waiting"}
                        /\ mp'[p].trans = {}
                        /\ mp'[p].st = "waiting"
                             => mp'[p].toLaunch = c.cfg[p]
                                /\ mp'[p].uri = c.uri
      OBVIOUS
    <3>1. m[p] = IF c.cfg[p] # {}
                   THEN [Created(c, p) EXCEPT !.st = "waiting"] ELSE Absent
      OBVIOUS
    <3>2. mp'[p] = m[p]
      BY <2>1 DEF Prepared
    <3> HIDE DEF m, again, keep, done
    <3>3. QED
      BY <3>1, <3>2, NewIsSound
  <2>5. again \subseteq keep /\ keep \subseteq Proxy
    OBVIOUS
  <2> HIDE DEF again, keep, done
  <2>6. TypeOK'
    <3>1. mp' \in [Proxy -> Record]
      <4>1. \A p \in Proxy : mp'[p] \in Record
        BY <2>2, <2>3, <2>4
      <4>2. QED
        BY <2>1, <4>1 DEF Prepared
    <3>2. reg' \in [Name -> Proxy \cup {None}]
      BY <2>1 DEF ProxyInv, TypeOK, Swept, Unmarked
    <3>3. QED
      BY <1>1, <3>1, <3>2 DEF TypeOK
  <2> HIDE DEF m
  <2>7. CountIsRight'
    <3>1. Unconfigured(mp') = Unconfigured(m) \cup again
      <4>1. \A p \in Proxy : /\ p \in again => mp'[p].st = "infant"
                             /\ p \notin again => mp'[p] = m[p]
        BY <2>2, <2>3, <2>4
      <4>2. QED
        BY <2>5, <4>1 DEF Unconfigured, Listed
    <3>2. Unconfigured(m) \cap again = {}
      BY <2>2 DEF Unconfigured, Listed
    <3>3. IsFiniteSet(Unconfigured(m)) /\ IsFiniteSet(again)
      BY <2>5, Finite, FS_Subset DEF ProxyAssumption
    <3>4. Cardinality(Unconfigured(mp')) =
            Cardinality(Unconfigured(m)) + Cardinality(again)
      <4> DEFINE U == Unconfigured(m)
      <4>1. /\ Cardinality(U \cup again) =
                  Cardinality(U) + Cardinality(again) - Cardinality({})
            /\ Cardinality(U) \in Nat /\ Cardinality(again) \in Nat
        BY <3>2, <3>3, FS_Union, FS_CardinalityType, ZenonT(30)
      <4>2. QED
        BY <3>1, <4>1, FS_EmptySet
    <3>5. QED
      BY <2>1, <3>4 DEF CountIsRight
  \* Whose transports they are: OffersApart.
  <2>8. \A t \in Name, p, q \in Proxy :
          t \in mp[p].trans /\ (t \in mp[q].trans \/ t \in c.cfg[q])
            => p = q
    <3> SUFFICES ASSUME NEW t \in Name, NEW p \in Proxy, NEW q \in Proxy,
                        t \in mp[p].trans,
                        t \in mp[q].trans \/ t \in c.cfg[q], p # q
                 PROVE  FALSE
      OBVIOUS
    <3>1. t \in Offers[p] /\ (t \in Offers[q] \/ t \in c.cfg[q])
      BY DEF ProxyInv, Sound
    <3>2. QED
      BY <3>1 DEF OffersApart
  <2>9. RegisteredIsServed'
    <3> SUFFICES ASSUME NEW t \in Name, reg'[t] # None
                 PROVE  /\ mp'[reg'[t]].st = "completed"
                        /\ t \in mp'[reg'[t]].trans
                        /\ mp'[reg'[t]].proc = "running"
      BY DEF RegisteredIsServed
    <3>1. /\ reg'[t] = reg[t] /\ \E p \in keep : t \in c.cfg[p]
          /\ ~\E p \in again : t \in m[p].trans
      BY <2>1 DEF Swept, Unmarked
    <3> PICK k \in keep : t \in c.cfg[k]
      BY <3>1
    <3>2. /\ reg[t] \in Proxy /\ mp[reg[t]].st = "completed"
          /\ t \in mp[reg[t]].trans
      BY <3>1 DEF ProxyInv, TypeOK, RegisteredIsServed
    <3>3. reg[t] = k
      BY <2>5, <2>8, <3>2
    <3>4. k \notin again
      BY <2>2, <3>1, <3>2, <3>3
    <3>5. k \in keep \ again /\ reg'[t] = k /\ t \in mp[k].trans
      BY <3>1, <3>2, <3>3, <3>4
    <3>6. QED
      BY <2>3, <3>5
  <2>10. OfferedIsRegistered'
    <3> SUFFICES ASSUME NEW p \in Proxy, mp'[p].st = "completed",
                        NEW t \in mp'[p].trans
                 PROVE  reg'[t] # None
      BY DEF OfferedIsRegistered
    <3>1. p \in keep \ again
      BY <2>2, <2>4
    <3>2. mp[p].st = "completed" /\ t \in mp[p].trans /\ t \in c.cfg[p]
      BY <2>3, <3>1
    <3>3. t \in Name /\ reg[t] # None
      BY <3>2 DEF ProxyInv, TypeOK, Record, OfferedIsRegistered
    <3>4. \A q \in again : t \notin m[q].trans
      BY <2>2, <2>5, <2>8, <3>1, <3>2, <3>3
    <3>5. QED
      BY <2>1, <3>1, <3>2, <3>3, <3>4 DEF Swept, Unmarked
  <2>11. \A p \in Proxy : Sound(p, mp[p])'
    <3> SUFFICES ASSUME NEW p \in Proxy PROVE Sound(p, mp'[p])
      BY DEF Sound
    <3> QED
      BY <2>2, <2>3, <2>4
  <2>12. \A p \in Proxy : Told(p)'
    BY <1>1, <2>2, <2>3, <2>4 DEF Told
  <2>13. QED
    BY <2>6, <2>7, <2>9, <2>10, <2>11, <2>12 DEF ProxyInv
<1>4. QED
  BY <1>2, <1>3

-----------------------------------------------------------------------------
(* The invariant, and what follows from it                                  *)

\* The invariant holds at the start.
LEMMA InitIsSound ==
  ASSUME ProxyAssumption, Init
  PROVE  ProxyInv
<1>1. \A p \in Proxy :
        /\ mp[p] \in Record /\ Sound(p, mp[p]) /\ mp[p].trans = {}
        /\ mp[p].st \in {"absent", "waiting"} /\ Told(p)
  <2> SUFFICES ASSUME NEW p \in Proxy
               PROVE  /\ mp[p] \in Record /\ Sound(p, mp[p]) /\ mp[p].trans = {}
                      /\ mp[p].st \in {"absent", "waiting"} /\ Told(p)
    OBVIOUS
  <2>1. mp[p] = IF torrc.cfg[p] = {} THEN Absent
                ELSE [Created(torrc, p) EXCEPT !.st = "waiting"]
    BY DEF Init
  <2>2. torrc \in Torrcs
    BY DEF Init
  <2>3. QED
    BY <2>1, <2>2, NewIsSound DEF Told
<1>2. TypeOK
  BY <1>1 DEF Init, TypeOK
<1>3. Unconfigured(mp) = Listed(mp)
  BY <1>1 DEF Unconfigured, Listed
<1>4. QED
  BY <1>1, <1>2, <1>3
     DEF Init, ProxyInv, CountIsRight, RegisteredIsServed, OfferedIsRegistered

\* Every step keeps the invariant.
LEMMA ProxyStep ==
  ASSUME PoliteAndApart, ProxyInv, [Next]_vars
  PROVE  ProxyInv'
<1>1. ASSUME NEW p \in Proxy, Progress(p) PROVE ProxyInv'
  BY <1>1, LaunchKeeps, LineKeeps, DoneKeeps, BadLineKeeps
     DEF Progress, Talk, PoliteAndApart
<1>2. ASSUME NEW p \in Proxy, Exit(p) \/ ExitKilled(p) PROVE ProxyInv'
  BY <1>2, ExitKeeps, ExitKilledKeeps DEF PoliteAndApart
<1>3. ASSUME NEW c \in Torrcs, Reread(c) PROVE ProxyInv'
  BY <1>3, RereadKeeps DEF PoliteAndApart
<1>4. CASE UNCHANGED vars
  BY <1>4 DEF vars, ProxyInv, TypeOK, CountIsRight, RegisteredIsServed,
              OfferedIsRegistered, Unconfigured, Listed, Sound, Told
<1>5. QED
  BY <1>1, <1>2, <1>3, <1>4 DEF Next

\* The proxies, the registered transports and the torrc in force agree whatever
\* proxies announce, asked for or not, and whichever die, fail to start or are
\* dropped, kept and restarted by configuration reads: unconfigured_proxies_n is
\* the number of proxies that are not completed, a registered transport is one
\* of a live and completed proxy, what such a proxy offers is registered, and
\* its process was asked for what the torrc in force asks for or offers that.
THEOREM ProxiesInStep ==
  ASSUME PoliteAndApart
  PROVE  Spec => []ProxiesAgree
<1>1. Init => ProxyInv
  BY InitIsSound DEF PoliteAndApart
<1>2. ProxyInv /\ [Next]_vars => ProxyInv'
  BY ProxyStep
<1>3. ProxyInv => ProxiesAgree
  <2> SUFFICES ASSUME ProxyInv, NEW p \in Proxy, mp[p].st = "completed",
                      fault = "none"
               PROVE  /\ mp[p].uri = torrc.uri
                      /\ torrc.cfg[p] \in {mp[p].asked, mp[p].trans}
    BY DEF ProxyInv, ProxiesAgree, FitsTorrc
  <2>1. mp[p].toLaunch = torrc.cfg[p] /\ mp[p].uri = torrc.uri
    BY DEF ProxyInv, Told
  <2>2. mp[p].asked = mp[p].toLaunch \/ mp[p].trans = mp[p].toLaunch
    BY DEF ProxyInv, Sound, Alive
  <2>3. QED
    BY <2>1, <2>2
<1>4. QED
  BY <1>1, <1>2, <1>3, PTL DEF Spec
=============================================================================
