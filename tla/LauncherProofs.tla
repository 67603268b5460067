--------------------------- MODULE LauncherProofs ---------------------------
(***************************************************************************)
(* Proofs about SystemProxy, for any servers, number of edits and number   *)
(* of starts, of launchers of both kinds that run one at a time; about     *)
(* TorSession, for any ports, threads, processes and attempts; and about   *)
(* AutoRace, for any racers and races.                                     *)
(***************************************************************************)
EXTENDS SystemProxy, TorSession, AutoRace, TLAPS

\* One launcher at a time: README, section "Departures", has what two lead to.
OneLauncher == ServersAssumption /\ \E p : Launchers = {p}

Settings == [on : BOOLEAN, server : UserServers \cup {Ours}]

\* What SetSystemProxy has still to write, in both directions.
On2 == <<"enable", "point">>
On1 == <<"point">>
Off3 == <<"switch back", "point back", "drop backup">>
Off2 == <<"point back", "drop backup">>
Off1 == <<"drop backup">>
Writes == {<<>>, On2, On1, Off3, Off2, Off1}

\* Besides the types: a launcher that leaves runs and does not turn the proxy
\* on, and one that does not run has nothing to write.
TypeOK ==
  /\ registry \in Settings /\ wanted \in UserSettings
  /\ backup \subseteq Settings
  /\ running \in [Launchers -> {"no", "cli", "gui"}]
  /\ saved \in [Launchers -> Settings]
  /\ todo \in [Launchers -> Writes]
  /\ leaving \in [Launchers -> BOOLEAN]
  /\ crashed \in BOOLEAN /\ unsaved \in BOOLEAN /\ lost \in BOOLEAN
  /\ \A p \in Launchers :
       /\ leaving[p] => running[p] # "no" /\ todo[p] \notin {On2, On1}
       /\ running[p] = "no" => todo[p] = <<>>

OurSettings == [on |-> TRUE, server |-> Ours]

\* The file holds the user's settings, unless it could not be written.
Covered == backup = {wanted} \/ unsaved

\* The registry is the user's, or ours with the user's settings in the file.
AtRest ==
  \/ registry = wanted
  \/ registry = OurSettings /\ Covered

\* Where the registry is while a launcher has s still to write.
Stage(s) ==
  /\ s = <<>> => AtRest
  /\ s = On2 => Covered /\ AtRest
  /\ s = On1 => /\ Covered /\ registry.on
                /\ registry.server \in {wanted.server, Ours}
  /\ s = Off3 => Covered /\ registry = OurSettings
  /\ s = Off2 => Covered /\ registry = [on |-> wanted.on, server |-> Ours]
  /\ s = Off1 => registry = wanted

\* A launcher that writes, or that runs while the registry is not the user's,
\* has the user's settings in memory; one that leaves has restored them when
\* nothing is left to write; one that does not run has restored them unless it
\* was killed, and then the file has them.
Holds(p) ==
  /\ Stage(todo[p])
  /\ todo[p] # <<>> \/ (running[p] # "no" /\ registry # wanted)
       => saved[p] = wanted
  /\ leaving[p] /\ todo[p] = <<>> => registry = wanted
  /\ running[p] = "no" /\ registry # wanted => crashed /\ ~unsaved

ProxyInv == TypeOK /\ (lost \/ \A p \in Launchers : Holds(p))

-----------------------------------------------------------------------------
(* The lists of writes.                                                     *)

\* The rest of a sequence.
LEMMA TailOfSeq ==
  ASSUME NEW S, NEW s \in Seq(S), s # <<>>
  PROVE  /\ Tail(s) \in Seq(S) /\ Len(Tail(s)) = Len(s) - 1
         /\ \A i \in 1 .. Len(Tail(s)) : Tail(s)[i] = s[i + 1]
BY SMT

\* A sequence of one or two steps.
LEMMA ShortSeqs ==
  ASSUME NEW S, NEW t \in Seq(S)
  PROVE  /\ Len(t) = 1 => t = <<t[1]>>
         /\ Len(t) = 2 => t = <<t[1], t[2]>>
BY SMT

\* The rest of two steps.
LEMMA TailOfTwo ==
  ASSUME NEW a, NEW b
  PROVE  Head(<<a, b>>) = a /\ Tail(<<a, b>>) = <<b>>
<1> DEFINE S == {a, b}
           s == <<a, b>>
           t == Tail(s)
<1>1. s = [i \in 1 .. 2 |-> IF i = 1 THEN a ELSE b]
  OBVIOUS
<1>2. s \in Seq(S) /\ Len(s) = 2 /\ s # <<>> /\ s[1 + 1] = b
  BY <1>1
<1> HIDE DEF s, S
<1>3. t \in Seq(S) /\ Len(t) = 1 /\ t[1] = s[1 + 1]
  BY <1>2, TailOfSeq
<1> HIDE DEF t
<1>4. t = <<b>>
  BY <1>2, <1>3, ShortSeqs
<1> QED BY <1>2, <1>4 DEF s, t

\* The rest of three steps.
LEMMA TailOfThree ==
  ASSUME NEW a, NEW b, NEW c
  PROVE  Head(<<a, b, c>>) = a /\ Tail(<<a, b, c>>) = <<b, c>>
<1> DEFINE S == {a, b, c}
           s == <<a, b, c>>
           t == Tail(s)
<1>1. s = [i \in 1 .. 3 |-> IF i = 1 THEN a ELSE IF i = 2 THEN b ELSE c]
  OBVIOUS
<1>2. s \in Seq(S) /\ Len(s) = 3 /\ s # <<>> /\ s[1 + 1] = b /\ s[2 + 1] = c
  BY <1>1
<1> HIDE DEF s, S
<1>3. /\ t \in Seq(S) /\ Len(t) = Len(s) - 1
      /\ \A i \in 1 .. Len(t) : t[i] = s[i + 1]
  BY <1>2, TailOfSeq
<1> HIDE DEF t
<1>4. Len(t) = 2 /\ t[1] = b /\ t[2] = c
  BY <1>2, <1>3
<1>5. t = <<b, c>>
  BY <1>3, <1>4, ShortSeqs
<1> QED BY <1>2, <1>5 DEF s, t

\* Write takes the lists one by one.
LEMMA WriteLists ==
  /\ Head(On2) = "enable" /\ Tail(On2) = On1
  /\ Head(On1) = "point" /\ Tail(On1) = <<>>
  /\ Head(Off3) = "switch back" /\ Tail(Off3) = Off2
  /\ Head(Off2) = "point back" /\ Tail(Off2) = Off1
  /\ Head(Off1) = "drop backup" /\ Tail(Off1) = <<>>
<1>1. Head(On2) = "enable" /\ Tail(On2) = On1
  BY TailOfTwo DEF On2, On1
<1>2. Head(Off2) = "point back" /\ Tail(Off2) = Off1
  BY TailOfTwo DEF Off2, Off1
<1>3. Head(Off3) = "switch back" /\ Tail(Off3) = Off2
  BY TailOfThree DEF Off3, Off2
<1>4. /\ Head(On1) = "point" /\ Tail(On1) = <<>>
      /\ Head(Off1) = "drop backup" /\ Tail(Off1) = <<>>
  BY DEF On1, Off1
<1> QED BY <1>1, <1>2, <1>3, <1>4

\* What is left to do tells the operations apart.
LEMMA ListsDiffer ==
  /\ <<>> \notin {On2, On1, Off3, Off2, Off1}
  /\ On2 \notin {On1, Off3, Off2, Off1} /\ On1 \notin {Off3, Off2, Off1}
  /\ Off3 \notin {Off2, Off1} /\ Off2 # Off1
BY DEF On2, On1, Off3, Off2, Off1

-----------------------------------------------------------------------------
\* The invariant holds at the start.
LEMMA ProxyInit == OneLauncher /\ Init => ProxyInv
<1> SUFFICES ASSUME OneLauncher, Init PROVE ProxyInv
  OBVIOUS
<1>1. TypeOK
  BY ListsDiffer DEF OneLauncher, ServersAssumption, Init, TypeOK, Settings,
     UserSettings, Nothing, Writes
<1>2. ASSUME NEW p \in Launchers PROVE Holds(p)
  BY ListsDiffer DEF Init, Holds, Stage, AtRest
<1> QED BY <1>1, <1>2 DEF ProxyInv

\* Every step keeps the types, whether or not the settings were lost.
LEMMA ProxyTypes ==
  ASSUME OneLauncher, TypeOK, [Next]_vars
  PROVE  TypeOK'
<1> USE ListsDiffer
<1> USE DEF Settings
<1>1. UserSettings \subseteq Settings /\ Nothing \in Settings
  BY DEF UserSettings, Nothing, OneLauncher, ServersAssumption
<1>2. PICK p : Launchers = {p}
  BY DEF OneLauncher
<1>3. ASSUME NEW kind \in {"cli", "gui"}, Start(p, kind) PROVE TypeOK'
  <2>1. LoadProxyBackup(p) \in Settings
    BY <1>1 DEF LoadProxyBackup, TypeOK
  <2> QED BY <1>1, <1>2, <1>3, <2>1 DEF Start, TypeOK
<1>4. CASE SetProxyOn(p)
  <2>1. todo' = [todo EXCEPT ![p] = On2]
    BY <1>4 DEF SetProxyOn, On2
  <2>2. saved' \in [Launchers -> Settings]
    BY <1>2, <1>4 DEF SetProxyOn, TypeOK
  <2>3. backup' \subseteq Settings
    <3>1. registry \in Settings /\ [registry EXCEPT !.on = FALSE] \in Settings
      BY DEF TypeOK
    <3>2. \/ backup' = backup \/ backup' = {} \/ backup' = {registry}
          \/ backup' = {[registry EXCEPT !.on = FALSE]}
      BY <1>4 DEF SetProxyOn, SaveProxyBackup
    <3> HIDE DEF Settings
    <3> QED BY <3>1, <3>2 DEF TypeOK
  <2>4. unsaved' \in BOOLEAN
    BY <1>4 DEF SetProxyOn, SaveProxyBackup, TypeOK
  <2> QED BY <1>2, <1>4, <2>1, <2>2, <2>3, <2>4
          DEF SetProxyOn, Idle, TypeOK, Writes
<1>5. RestoreWrites \in {<<>>, Off3}
  BY DEF RestoreWrites, Off3
<1>6. CASE SetProxyOff(p)
  BY <1>2, <1>5, <1>6 DEF SetProxyOff, Idle, TypeOK, Writes
<1>7. CASE Cleanup(p)
  BY <1>2, <1>5, <1>7 DEF Cleanup, Idle, TypeOK, Writes
<1>8. CASE Write(p)
  <2>1. /\ Tail(todo[p]) \in Writes
        /\ todo[p] \notin {On2, On1} => Tail(todo[p]) \notin {On2, On1}
    BY <1>2, <1>8, WriteLists DEF Write, TypeOK, Writes
  <2>2. registry' \in Settings
    BY <1>2, <1>8 DEF Write, TypeOK
  <2>3. backup' \subseteq Settings
    BY <1>8 DEF Write, TypeOK
  <2> QED BY <1>2, <1>8, <2>1, <2>2, <2>3 DEF Write, TypeOK
<1>9. CASE Exit(p)
  BY <1>2, <1>9 DEF Exit, TypeOK
<1>10. ASSUME NEW ends \in BOOLEAN, Abandon(p, ends) PROVE TypeOK'
  BY <1>2, <1>10 DEF Abandon, TypeOK, Writes
<1>11. CASE Crash(p)
  BY <1>10, <1>11 DEF Crash
<1>12. CASE WriteFails(p)
  BY <1>2, <1>10, <1>12 DEF WriteFails, TypeOK
<1>13. ASSUME NEW s \in UserSettings, UserEdits(s) PROVE TypeOK'
  BY <1>1, <1>13 DEF UserEdits, TypeOK
<1>14. CASE UNCHANGED vars
  BY <1>14 DEF vars, TypeOK
<1> QED BY <1>2, <1>3, <1>4, <1>6, <1>7, <1>8, <1>9, <1>11, <1>12, <1>13, <1>14
        DEF Next

\* Every step preserves the invariant: one that starts where the settings were
\* lost finds them again only through the user.
LEMMA ProxyStep ==
  ASSUME OneLauncher, ProxyInv, [Next]_vars
  PROVE  ProxyInv'
<1>1. PICK p : Launchers = {p}
  BY DEF OneLauncher
<1>2. TypeOK /\ TypeOK' /\ p \in Launchers
  BY <1>1, ProxyTypes DEF ProxyInv
<1> USE ListsDiffer
<1>3. ASSUME NEW s \in UserSettings, UserEdits(s) PROVE Holds(p)'
  BY <1>2, <1>3 DEF UserEdits, TypeOK, Holds, Stage, AtRest
<1>4. CASE lost
  <2>1. lost' \/ \E s \in UserSettings : UserEdits(s)
    BY <1>2, <1>4 DEF Next, vars, Start, SetProxyOn, SetProxyOff, Write, Cleanup,
       Exit, Crash, WriteFails, Abandon
  <2> QED BY <1>1, <1>2, <1>3, <2>1 DEF ProxyInv
<1>5. SUFFICES ASSUME Holds(p) PROVE lost' \/ Holds(p)'
  BY <1>1, <1>2, <1>4 DEF ProxyInv
<1>6. wanted.server # Ours /\ wanted \in Settings /\ OurSettings # wanted
  BY <1>2 DEF TypeOK, UserSettings, Settings, OneLauncher, ServersAssumption,
     OurSettings
<1>7. AtRest /\ ProxyIsOurs => registry = OurSettings /\ Covered
  BY <1>6 DEF AtRest, ProxyIsOurs
<1>8. AtRest /\ ~ProxyIsOurs => registry = wanted
  BY <1>6 DEF AtRest, ProxyIsOurs, OurSettings
<1>9. ASSUME NEW kind \in {"cli", "gui"}, Start(p, kind) PROVE lost' \/ Holds(p)'
  <2>1. AtRest /\ todo[p] = <<>> /\ ~leaving[p]
    BY <1>2, <1>5, <1>9 DEF Start, Holds, Stage, TypeOK
  <2>2. kind = "cli" /\ ProxyIsOurs => LoadProxyBackup(p) = wanted
    BY <1>5, <1>6, <1>7, <1>9, <2>1 DEF LoadProxyBackup, Start, Holds, Covered
  <2>3. kind = "gui" /\ ProxyIsOurs => lost'
    BY <1>9 DEF Start
  <2>4. ~ProxyIsOurs => registry = wanted
    BY <1>8, <2>1
  <2>5. /\ UNCHANGED <<registry, backup, todo, leaving, crashed, wanted, unsaved>>
        /\ running'[p] # "no"
        /\ kind = "cli" => saved'[p] = LoadProxyBackup(p)
    BY <1>2, <1>9 DEF Start, TypeOK
  <2> QED BY <2>1, <2>2, <2>3, <2>4, <2>5 DEF Holds, Stage, AtRest, Covered
<1>10. CASE SetProxyOn(p)
  <2>1. /\ todo' = [todo EXCEPT ![p] = On2] /\ todo[p] = <<>>
        /\ UNCHANGED <<registry, running, leaving, crashed, wanted>>
        /\ running[p] # "no" /\ ~leaving[p]
    BY <1>10 DEF SetProxyOn, On2, Idle
  <2>2. CASE ProxyIsOurs
    <3>1. saved[p] = wanted /\ Covered /\ registry = OurSettings
      BY <1>5, <1>6, <1>7, <2>1, <2>2 DEF Holds, Stage
    <3>2. UNCHANGED <<saved, backup, unsaved>>
      BY <1>10, <2>2 DEF SetProxyOn
    <3> QED BY <1>2, <2>1, <3>1, <3>2 DEF TypeOK, Holds, Stage, AtRest, Covered
  <2>3. CASE ~ProxyIsOurs
    <3>1. registry = wanted
      BY <1>5, <1>8, <2>1, <2>3 DEF Holds, Stage
    <3>2. saved' = [saved EXCEPT ![p] = wanted] /\ Covered'
      BY <1>10, <2>3, <3>1 DEF SetProxyOn, SaveProxyBackup, Covered
    <3> QED BY <1>2, <2>1, <3>1, <3>2 DEF TypeOK, Holds, Stage, AtRest
  <2> QED BY <2>2, <2>3
<1>11. ASSUME Idle(p), todo' = [todo EXCEPT ![p] = RestoreWrites],
              UNCHANGED <<registry, backup, running, saved, crashed, wanted,
                          unsaved>>
       PROVE  Holds(p)'
  <2>1. todo[p] = <<>> /\ running[p] # "no"
    BY <1>11 DEF Idle
  <2>2. CASE ProxyIsOurs
    <3>1. saved[p] = wanted /\ Covered /\ registry = OurSettings
      BY <1>5, <1>6, <1>7, <2>1, <2>2 DEF Holds, Stage
    <3>2. todo' = [todo EXCEPT ![p] = Off3]
      BY <1>11, <2>2 DEF RestoreWrites, Off3
    <3> QED BY <1>2, <1>11, <2>1, <3>1, <3>2
            DEF TypeOK, Holds, Stage, AtRest, Covered
  <2>3. CASE ~ProxyIsOurs
    <3>1. registry = wanted
      BY <1>5, <1>8, <2>1, <2>3 DEF Holds, Stage
    <3>2. todo' = [todo EXCEPT ![p] = <<>>]
      BY <1>11, <2>3 DEF RestoreWrites
    <3> QED BY <1>2, <1>11, <2>1, <3>1, <3>2
            DEF TypeOK, Holds, Stage, AtRest, Covered
  <2> QED BY <2>2, <2>3
<1>12. CASE SetProxyOff(p)
  BY <1>11, <1>12 DEF SetProxyOff
<1>13. CASE Cleanup(p)
  BY <1>11, <1>13 DEF Cleanup
<1>14. CASE Write(p)
  <2>1. /\ todo[p] # <<>> /\ todo' = [todo EXCEPT ![p] = Tail(todo[p])]
        /\ UNCHANGED <<running, saved, leaving, crashed, wanted, unsaved>>
        /\ todo[p] \in Writes
    BY <1>2, <1>14 DEF Write, TypeOK
  <2>2. saved[p] = wanted /\ running[p] # "no"
    BY <1>2, <1>5, <2>1 DEF Holds, TypeOK
  <2>3. CASE todo[p] = On2
    <3>1. registry' = [registry EXCEPT !.on = TRUE] /\ backup' = backup
      BY <1>14, <2>3, WriteLists DEF Write
    <3>2. todo' = [todo EXCEPT ![p] = On1] /\ ~leaving[p]
      BY <1>2, <2>1, <2>3, WriteLists DEF TypeOK
    <3>3. Covered /\ registry.server \in {wanted.server, Ours}
      BY <1>5, <2>3 DEF Holds, Stage, AtRest, OurSettings
    <3>4. registry'.on /\ registry'.server = registry.server
      BY <1>2, <3>1 DEF TypeOK, Settings
    <3> QED BY <1>2, <2>1, <2>2, <2>3, <3>1, <3>2, <3>3, <3>4
            DEF TypeOK, Holds, Stage, Covered
  <2>4. CASE todo[p] = On1
    <3>1. registry' = [registry EXCEPT !.server = Ours] /\ backup' = backup
      BY <1>14, <2>4, WriteLists DEF Write
    <3>2. todo' = [todo EXCEPT ![p] = <<>>] /\ ~leaving[p]
      BY <1>2, <2>1, <2>4, WriteLists DEF TypeOK
    <3>3. Covered /\ registry' = OurSettings
      BY <1>2, <1>5, <2>4, <3>1 DEF Holds, Stage, OurSettings, TypeOK, Settings
    <3> QED BY <1>2, <2>1, <2>2, <2>4, <3>1, <3>2, <3>3
            DEF TypeOK, Holds, Stage, AtRest, Covered
  <2>5. CASE todo[p] = Off3
    <3>1. registry' = [registry EXCEPT !.on = wanted.on] /\ backup' = backup
      BY <1>14, <2>2, <2>5, WriteLists DEF Write
    <3>2. todo' = [todo EXCEPT ![p] = Off2]
      BY <2>1, <2>5, WriteLists
    <3>3. Covered /\ registry' = [on |-> wanted.on, server |-> Ours]
      BY <1>2, <1>5, <2>5, <3>1 DEF Holds, Stage, OurSettings, TypeOK, Settings
    <3> QED BY <1>2, <2>1, <2>2, <2>5, <3>1, <3>2, <3>3
            DEF TypeOK, Holds, Stage, Covered
  <2>6. CASE todo[p] = Off2
    <3>1. registry' = [registry EXCEPT !.server = wanted.server]
      BY <1>14, <2>2, <2>6, WriteLists DEF Write
    <3>2. todo' = [todo EXCEPT ![p] = Off1]
      BY <2>1, <2>6, WriteLists
    <3>3. registry' = wanted
      BY <1>2, <1>5, <2>6, <3>1 DEF Holds, Stage, TypeOK, UserSettings
    <3> QED BY <1>2, <2>1, <2>2, <2>6, <3>2, <3>3 DEF TypeOK, Holds, Stage
  <2>7. CASE todo[p] = Off1
    <3>1. registry' = registry
      BY <1>14, <2>7, WriteLists DEF Write
    <3>2. todo' = [todo EXCEPT ![p] = <<>>]
      BY <2>1, <2>7, WriteLists
    <3>3. registry = wanted
      BY <1>5, <2>7 DEF Holds, Stage
    <3> QED BY <1>2, <2>1, <2>2, <2>7, <3>1, <3>2, <3>3
            DEF TypeOK, Holds, Stage, AtRest
  <2> QED BY <2>1, <2>3, <2>4, <2>5, <2>6, <2>7 DEF Writes
<1>15. CASE Exit(p)
  BY <1>2, <1>5, <1>15 DEF Exit, TypeOK, Holds, Stage, AtRest
<1>16. ASSUME NEW ends \in BOOLEAN, Abandon(p, ends), running[p] # "no",
              leaving[p] => ends
       PROVE  lost' \/ Holds(p)'
  <2>1. SUFFICES ASSUME ~Loses(p, ends) PROVE Holds(p)'
    BY <1>16 DEF Abandon
  <2>2. AtRest
    <3>1. todo[p] \in Writes
      BY <1>2 DEF TypeOK
    <3>2. CASE todo[p] \in {<<>>, On2}
      BY <1>5, <3>2 DEF Holds, Stage
    <3>3. CASE todo[p] \in {Off3, Off1}
      BY <1>5, <3>3 DEF Holds, Stage, AtRest
    <3>4. CASE todo[p] \in {On1, Off2}
      <4>1. Covered /\ registry.server \in {wanted.server, Ours}
        BY <1>5, <3>4 DEF Holds, Stage
      <4>2. registry = wanted \/ ProxyIsOurs
        BY <2>1, <3>4, WriteLists DEF Loses, Torn
      <4>3. ProxyIsOurs => registry = OurSettings
        BY <1>2 DEF ProxyIsOurs, OurSettings, TypeOK, Settings
      <4> QED BY <4>1, <4>2, <4>3 DEF AtRest
    <3> QED BY <3>1, <3>2, <3>3, <3>4 DEF Writes
  <2>3. /\ todo'[p] = <<>> /\ ~leaving'[p]
        /\ running'[p] = (IF ends THEN "no" ELSE running[p])
        /\ crashed' = (crashed \/ ends)
        /\ UNCHANGED <<registry, backup, saved, wanted, unsaved>>
    BY <1>2, <1>16 DEF Abandon, TypeOK
  <2>4. ends => crashed' /\ (registry # wanted => ~unsaved)
    BY <2>1, <2>3 DEF Loses
  <2>5. ~ends /\ registry # wanted => saved[p] = wanted
    BY <1>5, <1>16 DEF Holds
  <2> QED BY <1>16, <2>2, <2>3, <2>4, <2>5 DEF Holds, Stage, AtRest, Covered
<1>17. CASE Crash(p)
  BY <1>16, <1>17 DEF Crash
<1>18. CASE WriteFails(p)
  <2>1. running[p] # "no" /\ leaving[p] \in BOOLEAN
    BY <1>2, <1>18 DEF WriteFails, TypeOK
  <2> QED BY <1>16, <1>18, <2>1 DEF WriteFails
<1>19. CASE UNCHANGED vars
  BY <1>5, <1>19 DEF vars, Holds, Stage, AtRest, Covered
<1> QED BY <1>1, <1>3, <1>9, <1>10, <1>12, <1>13, <1>14, <1>15, <1>17, <1>18,
           <1>19 DEF Next

\* The user's settings survive any sequence of starts, crashes, failed writes
\* and edits, of launchers of both kinds run one after the other, unless they
\* were lost in one of the three ways the ghost `lost` records
\* (SetSystemProxy, SaveProxyBackup, LoadProxyBackup, RunGui).
THEOREM SettingsSurvive == ASSUME OneLauncher PROVE Spec => []SettingsKept
<1>1. Init => ProxyInv
  BY ProxyInit
<1>2. ProxyInv /\ [Next]_vars => ProxyInv'
  BY ProxyStep
<1>3. ProxyInv => SettingsKept
  <2> SUFFICES ASSUME ProxyInv, ~lost PROVE BackupCovers /\ Restored
    BY DEF SettingsKept
  <2>1. PICK p : Launchers = {p}
    BY DEF OneLauncher
  <2>2. TypeOK /\ Holds(p)
    BY <2>1 DEF ProxyInv
  <2>3. Restored
    BY <2>1, <2>2 DEF Restored, Holds
  <2>4. registry # wanted => Covered
    BY <2>1, <2>2 DEF TypeOK, Writes, Holds, Stage, AtRest
  <2>5. registry # wanted /\ unsaved => running[p] # "no" /\ saved[p] = wanted
    BY <2>2 DEF Holds
  <2>6. BackupCovers
    BY <2>1, <2>4, <2>5 DEF BackupCovers, Covered
  <2> QED BY <2>3, <2>6
<1> QED BY <1>1, <1>2, <1>3, PTL DEF Spec

-----------------------------------------------------------------------------
(* The launcher's session. *)

Stages == {"menu", "boot", "race", "racing", "start", "bootstrap", "up", "serve",
           "restart", "exited"}
Doings == {"none", "up", "hung", "dead"}

SessionTypes ==
  /\ pc \in Stages /\ proc \in [Procs -> Doings]
  /\ born \in [Procs -> Nat] /\ attempt \in Nat
  /\ torProc \in Procs \cup {0}
  /\ field \subseteq Procs /\ marked \subseteq Procs

\* Which tor may be running: between sessions and attempts none but a racer
\* that was marked dead, the racers while they race, and torProc from then on.
WhoMayRun ==
  \A n \in Procs : Alive(n) =>
    /\ pc # "exited"
    /\ pc \in {"menu", "boot", "race", "start"} => n \in marked
    /\ pc = "racing" => n \in field
    /\ pc \in {"bootstrap", "up", "serve", "restart"} => n = torProc

\* Without races nobody is marked.
RaceOnly == Race \/ (pc \notin {"race", "racing"} /\ marked = {})

\* The system proxy is not ours between sessions.
GivenBack == pc \in {"menu", "exited"} => proxy = NoPort

\* In a race the racers, and then the tor that is served, are this attempt's.
RaceIsFresh ==
  Race => /\ pc = "racing" => torProc = 0 /\ \A n \in field : born[n] = attempt
          /\ pc = "race" => torProc = 0
          /\ pc \in {"bootstrap", "up", "serve"}
               => torProc \in Procs /\ born[torProc] = attempt

SessionInv == SessionTypes /\ WhoMayRun /\ RaceOnly /\ GivenBack /\ RaceIsFresh

\* Process.Kill ends processes and starts none.
Culled(f, g) ==
  /\ g \in [Procs -> Doings]
  /\ \A n \in Procs : g[n] \in {"up", "hung"} => f[n] \in {"up", "hung"}

\* The process that is killed no longer runs.
LEMMA KillIs ==
  ASSUME SessionTypes, NEW n
  PROVE  /\ Culled(proc, Kill(n))
         /\ n \in Procs /\ n # 0 => Kill(n)[n] \notin {"up", "hung"}
<1>1. CASE n \in Procs
  BY <1>1 DEF SessionTypes, Culled, Kill, Doings
<1>2. CASE n \notin Procs
  <2>1. [proc EXCEPT ![n] = "dead"] = proc
    BY <1>2 DEF SessionTypes
  <2>2. Kill(n) = proc
    BY <2>1 DEF Kill
  <2>3. Culled(proc, proc)
    BY DEF SessionTypes, Culled
  <2> QED BY <1>2, <2>2, <2>3
<1> QED BY <1>1, <1>2

\* So with AutoKillAll and StopPreviousRun.
LEMMA KillAllIs ==
  ASSUME SessionAssumption, SessionTypes, NEW S
  PROVE  /\ Culled(proc, KillAll(S))
         /\ \A n \in Procs : KillAll(S)[n] \in {"up", "hung"} => n \notin S
<1>1. \A n \in Procs : KillAll(S)[n] = IF n \in S /\ Alive(n) THEN "dead" ELSE proc[n]
  BY DEF KillAll
<1>2. KillAll(S) \in [Procs -> Doings]
  BY DEF KillAll, SessionTypes, Doings
<1>3. ASSUME NEW n \in Procs, KillAll(S)[n] \in {"up", "hung"}
      PROVE  n \notin S /\ proc[n] \in {"up", "hung"}
  <2>1. ~(n \in S /\ Alive(n)) /\ proc[n] \in {"up", "hung"}
    BY <1>1, <1>3
  <2>2. n # 0
    BY DEF SessionAssumption
  <2> QED BY <2>1, <2>2 DEF Alive
<1> QED BY <1>2, <1>3 DEF Culled

\* A step that starts no tor and leaves the main thread where it is.
LEMMA CullKeeps ==
  ASSUME SessionInv, Culled(proc, proc'),
         UNCHANGED <<pc, attempt, torProc, born, proxy, field, marked>>
  PROVE  SessionInv'
<1>1. \A n \in Procs : Alive(n)' => Alive(n)
  BY DEF Culled, Alive
<1>2. SessionTypes' /\ GivenBack' /\ RaceOnly' /\ RaceIsFresh'
  BY DEF SessionInv, SessionTypes, Culled, GivenBack, RaceOnly, RaceIsFresh
<1>3. WhoMayRun'
  BY <1>1 DEF SessionInv, WhoMayRun
<1> QED BY <1>2, <1>3 DEF SessionInv

\* The threads beside the main one, and tor itself.
LEMMA OthersKeep ==
  ASSUME SessionAssumption, SessionInv,
         \/ \E n \in Procs : TorHangs(n) \/ TorDies(n)
         \/ \E t \in Threads : Watchdog(t) \/ KeepAliveStep(t)
         \/ ToggleKeepAlive
  PROVE  SessionInv'
<1>1. UNCHANGED <<pc, attempt, torProc, born, proxy, field, marked>>
  BY DEF TorHangs, TorDies, Watchdog, WatchdogGrace, WatchdogWakes, WatchdogKills,
         WatchdogProbe, KeepAliveStep, ToggleKeepAlive, main, tor
<1>2. Culled(proc, proc)
  BY DEF SessionInv, SessionTypes, Culled
<1>3. ASSUME NEW n \in Procs, TorHangs(n)
      PROVE  Culled(proc, proc')
  BY <1>3 DEF TorHangs, SessionInv, SessionTypes, Culled, Doings
<1>4. ASSUME NEW n \in Procs, TorDies(n)
      PROVE  Culled(proc, proc')
  BY <1>4, KillIs DEF TorDies, SessionInv
<1>5. ASSUME NEW t \in Threads, WatchdogKills(t)
      PROVE  Culled(proc, proc')
  BY <1>5, KillIs DEF WatchdogKills, SessionInv
<1>6. ASSUME NEW t \in Threads,
             \/ WatchdogGrace(t) \/ WatchdogWakes(t) \/ KeepAliveStep(t)
             \/ \E ok \in BOOLEAN : WatchdogProbe(t, ok)
      PROVE  Culled(proc, proc')
  <2>1. proc' = proc
    BY <1>6 DEF WatchdogGrace, WatchdogWakes, WatchdogProbe, KeepAliveStep, tor
  <2> QED BY <1>2, <2>1, Zenon
<1>7. CASE ToggleKeepAlive
  <2>1. proc' = proc
    BY <1>7 DEF ToggleKeepAlive, tor
  <2> QED BY <1>1, <1>2, <2>1, CullKeeps, Zenon
<1>8. CASE \E n \in Procs : TorHangs(n) \/ TorDies(n)
  BY <1>1, <1>3, <1>4, <1>8, CullKeeps
<1>9. CASE \E t \in Threads : Watchdog(t) \/ KeepAliveStep(t)
  BY <1>1, <1>5, <1>6, <1>9, CullKeeps DEF Watchdog
<1> QED BY <1>7, <1>8, <1>9

\* The main thread's steps that leave every process alone.
LEMMA MainKeeps ==
  ASSUME SessionAssumption, SessionInv,
         \/ BeginSession \/ BeginAttempt \/ (\E auto \in BOOLEAN : GoLive(auto))
         \/ ToggleProxy \/ Bootstrapped
         \/ \E n \in Procs : MarkDead(n)
  PROVE  SessionInv'
<1>1. proc' = proc /\ born' = born /\ field' = field /\ 1 \in Nat
  BY DEF BeginSession, BeginAttempt, GoLive, ToggleProxy, Bootstrapped, MarkDead, tor
<1>2. \A n \in Procs : Alive(n)' <=> Alive(n)
  BY <1>1 DEF Alive
<1> USE DEF SessionInv, SessionTypes, Stages, WhoMayRun, RaceOnly, GivenBack,
            RaceIsFresh
<1>3. CASE BeginSession
  BY <1>1, <1>2, <1>3 DEF BeginSession, tor
<1>4. CASE BeginAttempt
  BY <1>1, <1>2, <1>4 DEF BeginAttempt, SessionAssumption
<1>5. ASSUME NEW auto \in BOOLEAN, GoLive(auto)
      PROVE  SessionInv'
  BY <1>1, <1>2, <1>5 DEF GoLive, tor
<1>6. CASE ToggleProxy
  BY <1>1, <1>2, <1>6 DEF ToggleProxy, main, tor
<1>7. CASE Bootstrapped
  BY <1>1, <1>2, <1>7 DEF Bootstrapped, tor
<1>8. ASSUME NEW n \in Procs, MarkDead(n)
      PROVE  SessionInv'
  BY <1>1, <1>2, <1>8 DEF MarkDead, main
<1> QED BY <1>3, <1>4, <1>5, <1>6, <1>7, <1>8

\* StopPreviousRun and the start of processes: StartTorAndWait, AutoRace, and a
\* racer that is restarted.
LEMMA StartKeeps ==
  ASSUME SessionAssumption, SessionInv,
         \/ \E n \in Procs : StartTor(n) \/ RestartRacer(n)
         \/ \E S \in SUBSET Procs : \E p \in [S -> Ports \ {Primary}] : BeginRace(S, p)
  PROVE  SessionInv'
<1>1. /\ SessionTypes /\ proc \in [Procs -> Doings] /\ born \in [Procs -> Nat]
      /\ attempt \in Nat /\ Procs \subseteq Nat \ {0}
  BY DEF SessionInv, SessionTypes, SessionAssumption
<1>2. /\ KillAll(Procs) \in [Procs -> Doings]
      /\ \A n \in Procs : KillAll(Procs)[n] \notin {"up", "hung"}
  BY <1>1, KillAllIs DEF Culled
<1>3. ASSUME NEW n \in Procs, StartTor(n)
      PROVE  SessionInv'
  <2>1. /\ proc' = [KillAll(Procs) EXCEPT ![n] = "up"]
        /\ born' = [born EXCEPT ![n] = attempt] /\ attempt' = attempt
        /\ torProc' = n /\ marked' = {} /\ field' = field /\ pc' = "bootstrap"
    BY <1>3 DEF StartTor
  <2>2. \A k \in Procs : Alive(k)' => k = n
    BY <1>2, <2>1 DEF Alive
  <2>3. SessionTypes'
    BY <1>1, <1>2, <2>1 DEF SessionTypes, Stages, Doings
  <2> QED BY <1>1, <2>1, <2>2, <2>3 DEF SessionInv, WhoMayRun, RaceOnly, GivenBack,
          RaceIsFresh
<1>4. ASSUME NEW n \in Procs, RestartRacer(n)
      PROVE  SessionInv'
  <2>1. /\ proc' = [proc EXCEPT ![n] = "up"] /\ n \in field /\ pc = "racing"
        /\ UNCHANGED <<pc, attempt, torProc, born, field, marked, proxy>>
    BY <1>4 DEF RestartRacer, main
  <2>2. \A k \in Procs : Alive(k)' => Alive(k) \/ k = n
    BY <1>1, <2>1 DEF Alive
  <2>3. SessionTypes'
    BY <1>1, <2>1 DEF SessionTypes, Doings
  <2>4. WhoMayRun'
    BY <2>1, <2>2 DEF SessionInv, WhoMayRun
  <2> QED BY <2>1, <2>3, <2>4 DEF SessionInv, RaceOnly, GivenBack, RaceIsFresh
<1>5. ASSUME NEW S \in SUBSET Procs, NEW p \in [S -> Ports \ {Primary}], BeginRace(S, p)
      PROVE  SessionInv'
  <2>1. /\ proc' = [n \in Procs |-> IF n \in S THEN "up" ELSE KillAll(Procs)[n]]
        /\ born' = [n \in Procs |-> IF n \in S THEN attempt ELSE born[n]]
        /\ field' = S /\ marked' = {} /\ attempt' = attempt
        /\ torProc' = torProc /\ pc = "race" /\ pc' = "racing"
    BY <1>5 DEF BeginRace
  <2>2. \A k \in Procs : Alive(k)' => k \in S
    BY <1>2, <2>1 DEF Alive
  <2>3. SessionTypes'
    BY <1>1, <1>2, <2>1 DEF SessionTypes, Stages, Doings
  <2> QED BY <1>1, <2>1, <2>2, <2>3 DEF SessionInv, WhoMayRun, RaceOnly, GivenBack,
          RaceIsFresh
<1> QED BY <1>3, <1>4, <1>5

\* The steps of the main thread that end processes.
LEMMA EndKeeps ==
  ASSUME SessionAssumption, SessionInv,
         \/ NoRace \/ RaceAborted \/ RaceDied \/ (\E w \in Procs : RaceWon(w))
         \/ StartFails \/ StartAgain \/ BootFails
         \/ StopSession \/ TorIsGone \/ RestartTor
  PROVE  SessionInv'
<1>1. /\ SessionTypes /\ proc \in [Procs -> Doings] /\ born \in [Procs -> Nat]
      /\ attempt \in Nat /\ Procs \subseteq Nat \ {0} /\ torProc \in Procs \cup {0}
      /\ field \subseteq Procs /\ marked \subseteq Procs
      /\ born' = born
  BY DEF SessionInv, SessionTypes, SessionAssumption, NoRace, RaceAborted, RaceDied,
         RaceWon, StartFails, StartAgain, BootFails, StopSession, TorIsGone, RestartTor
<1>2. ASSUME Culled(proc, proc'), \A n \in Procs : ~Alive(n)',
             pc' \in {"menu", "boot", "start", "exited"},
             pc' \in {"menu", "exited"} => proxy' = NoPort,
             attempt' \in Nat, torProc' \in Procs \cup {0},
             field' \subseteq Procs, marked' \in {{}, marked}
      PROVE  SessionInv'
  BY <1>1, <1>2 DEF SessionInv, SessionTypes, Culled, WhoMayRun, RaceOnly, GivenBack,
     RaceIsFresh, Stages
<1>3. ASSUME NEW S, \A n \in Procs : Alive(n) => n \in S, proc' = KillAll(S)
      PROVE  Culled(proc, proc') /\ \A k \in Procs : ~Alive(k)'
  <2>1. /\ Culled(proc, proc')
        /\ \A k \in Procs : proc'[k] \in {"up", "hung"} => k \notin S
    BY <1>1, <1>3, KillAllIs
  <2> QED BY <1>1, <1>3, <2>1 DEF Alive, Culled
<1>4. ASSUME pc \in {"bootstrap", "serve", "restart"}, proc' = Kill(torProc)
      PROVE  Culled(proc, proc') /\ \A k \in Procs : ~Alive(k)'
  <2>1. /\ Culled(proc, proc')
        /\ torProc \in Procs => proc'[torProc] \notin {"up", "hung"}
    BY <1>1, <1>4, KillIs
  <2> QED BY <1>4, <2>1 DEF SessionInv, WhoMayRun, Alive, Culled
<1>5. CASE NoRace
  BY <1>1, <1>2, <1>3, <1>5 DEF NoRace
<1>6. CASE StartFails
  BY <1>1, <1>2, <1>3, <1>6 DEF StartFails
<1>7. CASE RaceAborted
  BY <1>1, <1>2, <1>3, <1>7 DEF RaceAborted, SessionInv, WhoMayRun
<1>8. CASE RaceDied
  <2>1. /\ pc = "racing" /\ pc' = "menu" /\ proxy' = NoPort /\ field' = {}
        /\ UNCHANGED <<attempt, torProc, marked>> /\ proc' = Kill(torProc)
        /\ \A n \in field \ marked : ~Alive(n)
    BY <1>8 DEF RaceDied, SessionCleanup
  <2>2. Culled(proc, proc')
    BY <1>1, <2>1, KillIs
  <2>3. \A n \in Procs : Alive(n)' => n \in marked
    <3>1. \A n \in Procs : Alive(n)' => Alive(n)
      BY <2>2 DEF Culled, Alive
    <3> QED BY <2>1, <3>1 DEF SessionInv, WhoMayRun
  <2> QED BY <1>1, <2>1, <2>2, <2>3 DEF SessionInv, SessionTypes, Culled, WhoMayRun,
          RaceOnly, GivenBack, RaceIsFresh, Stages
<1>9. ASSUME NEW w \in Procs, RaceWon(w)
      PROVE  SessionInv'
  <2>1. /\ pc = "racing" /\ w \in field /\ proc' = KillAll(field \ {w})
        /\ field' = {} /\ marked' = {} /\ attempt' = attempt
    BY <1>9 DEF RaceWon
  <2>2. Culled(proc, proc')
    BY <1>1, <2>1, KillAllIs
  <2>3. \A n \in Procs : Alive(n)' => n = w /\ Alive(w)
    <3>1. \A n \in Procs : Alive(n)' => Alive(n)
      BY <2>2 DEF Culled, Alive
    <3>2. \A n \in Procs : Alive(n)' => n \notin field \ {w}
      BY <1>1, <2>1, KillAllIs DEF Alive
    <3> QED BY <2>1, <3>1, <3>2 DEF SessionInv, WhoMayRun
  <2>4. CASE Alive(w)
    <3>1. torProc' = w /\ pc' = "up"
      BY <1>9, <2>4 DEF RaceWon
    <3> QED BY <1>1, <2>1, <2>2, <2>3, <3>1 DEF SessionInv, SessionTypes, Culled,
            WhoMayRun, RaceOnly, GivenBack, RaceIsFresh, Stages
  <2>5. CASE ~Alive(w)
    <3>1. torProc' = torProc /\ pc' = "start"
      BY <1>9, <2>5 DEF RaceWon
    <3> QED BY <1>1, <1>2, <2>1, <2>2, <2>3, <2>5, <3>1
  <2> QED BY <2>4, <2>5
<1>10. CASE StartAgain
  BY <1>1, <1>2, <1>4, <1>10 DEF StartAgain
<1>11. CASE BootFails
  BY <1>1, <1>2, <1>4, <1>11 DEF BootFails
<1>12. CASE StopSession
  BY <1>1, <1>2, <1>4, <1>12 DEF StopSession, SessionCleanup
<1>13. CASE TorIsGone
  <2>1. CASE wdTriggered
    <3>1. /\ pc = "serve" /\ pc' = "restart" /\ proc' = proc
          /\ UNCHANGED <<attempt, torProc, field, marked>>
      BY <1>13, <2>1 DEF TorIsGone
    <3> QED BY <1>1, <3>1 DEF SessionInv, SessionTypes, WhoMayRun, RaceOnly, GivenBack,
         RaceIsFresh, Stages, Alive
  <2>2. CASE ~wdTriggered
    BY <1>1, <1>2, <1>4, <1>13, <2>2 DEF TorIsGone, SessionCleanup
  <2> QED BY <2>1, <2>2
<1>14. CASE RestartTor
  BY <1>1, <1>2, <1>4, <1>14 DEF RestartTor
<1> QED BY <1>5, <1>6, <1>7, <1>8, <1>9, <1>10, <1>11, <1>12, <1>13, <1>14

\* A launcher that has started nothing yet.
LEMMA SessionInitially ==
  ASSUME SessionAssumption, SessionInit
  PROVE  SessionInv
BY DEF SessionAssumption, SessionInit, SessionInv, SessionTypes, WhoMayRun, RaceOnly,
       GivenBack, RaceIsFresh, Stages, Doings, Alive

\* Every step of the launcher keeps the invariant.
LEMMA SessionStep ==
  ASSUME SessionAssumption, SessionInv, [SessionNext]_sessionVars
  PROVE  SessionInv'
<1>1. CASE SessionNext
  BY <1>1, OthersKeep, MainKeeps, StartKeeps, EndKeeps DEF SessionNext, MainStep, Wait,
     Serve
<1>2. CASE UNCHANGED sessionVars
  <2>1. Culled(proc, proc)
    BY DEF SessionInv, SessionTypes, Culled
  <2>2. UNCHANGED <<pc, attempt, torProc, born, proxy, field, marked>> /\ proc' = proc
    BY <1>2 DEF sessionVars, main, tor
  <2> QED BY <2>1, <2>2, CullKeeps, Zenon
<1> QED BY <1>1, <1>2

\* In the menu and after the session the system proxy is the user's again and no
\* tor is left running (Cleanup) but a racer a failed race had marked dead, and
\* that one is gone when the next session boots (StopPreviousRun): whatever the
\* watchdogs, the races and tor itself did before, for any number of processes,
\* threads and restarts.
THEOREM NoneLeft ==
  ASSUME SessionAssumption
  PROVE  SessionSpec => []NothingLeft
<1>1. SessionInit => SessionInv
  BY SessionInitially
<1>2. SessionInv /\ [SessionNext]_sessionVars => SessionInv'
  BY SessionStep
<1>3. SessionInv => NothingLeft
  BY DEF SessionInv, WhoMayRun, GivenBack, NothingLeft
<1> QED BY <1>1, <1>2, <1>3, PTL DEF SessionSpec

\* When every attempt is a race, the tor that is served is one this attempt
\* started (RunTorSession sets torProc to null before a race).  Without a race it
\* is not: see the README's section on departures.
THEOREM RaceServesFresh ==
  ASSUME SessionAssumption, Race
  PROVE  SessionSpec => []FreshTor
<1>1. SessionInit => SessionInv
  BY SessionInitially
<1>2. SessionInv /\ [SessionNext]_sessionVars => SessionInv'
  BY SessionStep
<1>3. SessionInv => FreshTor
  BY DEF SessionInv, RaceIsFresh, FreshTor
<1> QED BY <1>1, <1>2, <1>3, PTL DEF SessionSpec

-----------------------------------------------------------------------------
(* AutoRace.                                                                *)

\* While a race runs, a tor that runs although its racer counts as dead is one
\* that could not be restarted; when it is over, OneTor holds whatever the tors
\* do by themselves meanwhile.
RaceInv ==
  /\ raceProc \in [Racers -> {"none", "up", "exited"}]
  /\ DOMAIN alive = Racers /\ DOMAIN used = Racers
  /\ racePc # "idle" =>
       \A r \in Racers : raceProc[r] = "up" /\ ~alive[r] => FellBack(r)
  /\ OneTor

\* Nobody who is killed runs, and nobody is started.
LEMMA KilledIs ==
  ASSUME RaceInv, NEW S
  PROVE  /\ Killed(S) \in [Racers -> {"none", "up", "exited"}]
         /\ \A r \in Racers : Killed(S)[r] = "up" => r \notin S /\ raceProc[r] = "up"
BY DEF RaceInv, Killed

\* The steps of a race that goes on; it is not over when they are done.
LEMMA RacingKeeps ==
  ASSUME RaceInv,
         \/ \E started, fallback \in SUBSET Racers : StartRace(started, fallback)
         \/ \E x \in BOOLEAN, how \in {"no torrc", "no start", "started", "none"} :
              StallCheck(x, how)
         \/ Poll
  PROVE  RaceInv' /\ AdoptsLive
<1>1. ASSUME NEW started \in SUBSET Racers, NEW fallback \in SUBSET Racers,
             StartRace(started, fallback)
      PROVE  RaceInv' /\ AdoptsLive
  <2>1. /\ raceProc' = [r \in Racers |-> IF r \in started THEN "up" ELSE "none"]
        /\ alive' = [r \in Racers |-> r \in started]
        /\ used' = [r \in Racers |-> r \notin fallback]
        /\ racePc = "idle" /\ racePc' = "stall"
    BY <1>1 DEF StartRace
  <2>2. \A r \in Racers : raceProc'[r] = "up" => alive'[r]
    BY <2>1
  <2>3. raceProc' \in [Racers -> {"none", "up", "exited"}]
    BY <2>1
  <2>4. DOMAIN alive' = Racers /\ DOMAIN used' = Racers
    BY <2>1
  <2> QED BY <2>1, <2>2, <2>3, <2>4 DEF RaceInv, OneTor, AdoptsLive
<1>2. ASSUME NEW x \in BOOLEAN,
             NEW how \in {"no torrc", "no start", "started", "none"},
             StallCheck(x, how)
      PROVE  RaceInv' /\ AdoptsLive
  <2>1. racePc = "stall" /\ racePc' = racePc /\ UNCHANGED canFallback
    BY <1>2 DEF StallCheck
  <2>2. CASE ~x
    BY <1>2, <2>1, <2>2 DEF StallCheck, RaceInv, OneTor, AdoptsLive, FellBack
  <2>3. CASE x
    <3>1. PICK c : c = cursor
      OBVIOUS
    <3>2. /\ canFallback[c] /\ alive[c]
          /\ used' = [used EXCEPT ![c] = TRUE]
          /\ AutoRestartRacer(c, how)
      BY <1>2, <2>3, <3>1 DEF StallCheck, FallbackUsed
    <3>3. \A r \in Racers : FellBack(r) \/ r = c => FellBack(r)'
      BY <2>1, <3>2 DEF FellBack, RaceInv
    <3>4. DOMAIN used' = Racers
      BY <3>2 DEF RaceInv
    <3>5. alive' = alive \/ alive' = [alive EXCEPT ![c] = FALSE]
      BY <3>2 DEF AutoRestartRacer
    <3>6. /\ DOMAIN alive' = Racers
          /\ \A r \in Racers \ {c} : alive'[r] = alive[r]
      BY <3>5 DEF RaceInv
    <3>7. \/ raceProc' = raceProc \/ raceProc' = Killed({c})
          \/ raceProc' = [raceProc EXCEPT ![c] = "up"]
      BY <3>2 DEF AutoRestartRacer
    <3>8. /\ raceProc' \in [Racers -> {"none", "up", "exited"}]
          /\ \A r \in Racers \ {c} : raceProc'[r] = "up" => raceProc[r] = "up"
      <4>1. CASE raceProc' = Killed({c})
        BY <4>1, KilledIs
      <4>2. CASE raceProc' # Killed({c})
        BY <3>7, <4>2 DEF RaceInv
      <4> QED BY <4>1, <4>2
    <3>9. ASSUME NEW r \in Racers, raceProc'[r] = "up", ~alive'[r]
          PROVE  FellBack(r)'
      BY <2>1, <3>3, <3>6, <3>8, <3>9 DEF RaceInv
    <3> QED BY <2>1, <3>4, <3>6, <3>8, <3>9 DEF RaceInv, OneTor, AdoptsLive
  <2> QED BY <2>2, <2>3
<1>3. CASE Poll
  <2>1. /\ racePc = "poll" /\ racePc' = racePc
        /\ UNCHANGED <<raceProc, used, canFallback>>
        /\ alive' = [alive EXCEPT ![cursor] = alive[cursor] /\ raceProc[cursor] = "up"]
    BY <1>3 DEF Poll, tors
  <2> QED BY <2>1 DEF RaceInv, OneTor, AdoptsLive, FellBack
<1> QED BY <1>1, <1>2, <1>3

\* The steps that may end a race: AutoKillAll, nobody left, the winner kept.
LEMMA RaceEndKeeps ==
  ASSUME RaceInv, RaceRefused \/ AbortCheck \/ PollEnds \/ Settle
  PROVE  RaceInv' /\ AdoptsLive
<1>1. CASE RaceRefused
  <2>1. /\ raceProc' = Killed(Racers) /\ racePc = "idle" /\ racePc' = "idle"
        /\ UNCHANGED <<alive, used>>
    BY <1>1 DEF RaceRefused, Return, racer
  <2> QED BY <2>1, KilledIs DEF RaceInv, OneTor, AdoptsLive
<1>2. CASE AbortCheck
  <2>1. racePc = "stall" /\ UNCHANGED <<used, canFallback>>
    BY <1>2 DEF AbortCheck
  <2>2. CASE raceAbort
    <3>1. /\ raceProc' = Killed(Racers) /\ racePc' = "idle"
          /\ alive' = [r \in Racers |-> FALSE]
      BY <1>2, <2>2 DEF AbortCheck, Return
    <3> QED BY <2>1, <3>1, KilledIs DEF RaceInv, OneTor, AdoptsLive
  <2>3. CASE ~raceAbort
    BY <1>2, <2>1, <2>3 DEF AbortCheck, RaceInv, OneTor, AdoptsLive, FellBack
  <2> QED BY <2>2, <2>3
<1>3. CASE PollEnds
  <2>1. racePc = "poll" /\ UNCHANGED <<raceProc, alive, used, canFallback>>
    BY <1>3 DEF PollEnds, tors, racer
  <2>2. \/ racePc' # "idle"
        \/ outcome' = "died" /\ \A r \in Racers : ~alive[r]
    BY <1>3, <2>1 DEF PollEnds, Return
  <2>3. \A r \in Racers : FellBack(r)' <=> FellBack(r)
    BY <2>1 DEF FellBack
  <2> QED BY <2>1, <2>2, <2>3 DEF RaceInv, OneTor, AdoptsLive
<1>4. CASE Settle
  <2>1. /\ raceProc' = Killed(Racers \ {winner}) /\ outcome' = "won"
        /\ racePc' = "idle" /\ winner' = winner /\ used' = used
        /\ alive' = [r \in Racers |-> alive[r] /\ r = winner]
        /\ raceLive' = IF raceProc[winner] = "up" THEN winner ELSE 0
    BY <1>4 DEF Settle, Losers, Return, AdoptRacerPorts
  <2>2. RaceInv'
    BY <2>1, KilledIs DEF RaceInv, OneTor
  <2>3. AdoptsLive
    BY <2>1 DEF AdoptsLive
  <2> QED BY <2>2, <2>3
<1> QED BY <1>1, <1>2, <1>3, <1>4

\* What happens beside the race: the user's C key, and the tors' own steps.
LEMMA BesideRaceKeeps ==
  ASSUME RaceInv,
         \/ UserAborts \/ UNCHANGED raceVars
         \/ \E r \in Racers : TorProgress(r) \/ TorLogs(r) \/ TorExits(r)
  PROVE  RaceInv' /\ AdoptsLive
<1>0. UNCHANGED <<racePc, outcome, winner, alive, used, canFallback>>
  BY DEF UserAborts, raceVars, racer, TorProgress, TorLogs, TorExits
<1>1. /\ raceProc' \in [Racers -> {"none", "up", "exited"}]
      /\ \A r \in Racers : raceProc'[r] = "up" => raceProc[r] = "up"
  BY DEF RaceInv, UserAborts, raceVars, tors, TorProgress, TorLogs, TorExits
<1>2. \A r \in Racers : FellBack(r)' <=> FellBack(r)
  BY <1>0 DEF FellBack
<1> QED BY <1>0, <1>1, <1>2 DEF RaceInv, OneTor, AdoptsLive

\* Every step keeps the invariant, and adopts no ports of a dead winner.
LEMMA RaceStep ==
  ASSUME RaceInv, [RaceNext]_raceVars
  PROVE  RaceInv' /\ AdoptsLive
<1>1. CASE Launcher
  <2>1. \/ AbortCheck \/ PollEnds \/ Settle \/ Poll
        \/ \E x \in BOOLEAN, how \in {"no torrc", "no start", "started", "none"} :
             StallCheck(x, how)
    BY <1>1 DEF Launcher
  <2> QED BY <2>1, RacingKeeps, RaceEndKeeps
<1> QED BY <1>1, RacingKeeps, RaceEndKeeps, BesideRaceKeeps DEF RaceNext

\* A race that is over leaves no tor running but the winner and, if it "died",
\* racers that could not be restarted; and the ports of a winner that has died
\* are not adopted (AutoRace, AutoKillAll, AdoptRacerPorts), for any number of
\* racers and races, however the racers die, are restarted or take over from
\* one another.
THEOREM WinnerAlone == RaceSpec => OnlyWinnerLives
<1>1. RaceInit => RaceInv
  BY DEF RaceInit, RaceInv, OneTor
<1>2. RaceInv /\ [RaceNext]_raceVars
        => RaceInv' /\ [OneTor' /\ AdoptsLive]_raceVars
  BY RaceStep DEF RaceInv
<1> QED BY <1>1, <1>2, PTL DEF RaceSpec, OnlyWinnerLives
=============================================================================
