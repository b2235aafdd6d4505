---------------------------- MODULE ProcessProofs ----------------------------
(***************************************************************************)
(* Theorems about Process, for any configurations and any number of edits. *)
(* a.mu lets one reload through at a time, so the text it has read is at   *)
(* least as new as what is in force; and when it ends, every part it went  *)
(* through runs with that text, but for zeros, and these are the parts the *)
(* process has as long as a.cfg keeps its mode.                            *)
(***************************************************************************)
EXTENDS Process, TLAPS

Reloading(r) == reloader[r].pc = "reloading"

\* a.mu.
MutexSound == \A r, q \in Reloaders : Reloading(r) /\ Reloading(q) => r = q

\* What is in force was written before what is being loaded, and that before what
\* the file holds.
OrderSound ==
    /\ \A p \in PartSet : inForce[p].stamp <= file.stamp
    /\ \A r \in Reloaders : Reloading(r) =>
         /\ reloader[r].from.text \in Texts
         /\ reloader[r].from.stamp <= file.stamp
         /\ \A p \in PartSet : inForce[p].stamp <= reloader[r].from.stamp

\* As long as the mode is the one the process was started with, a reload has set the
\* parts it has passed, and a.cfg is in force when there is no reload.
ReportSound ==
    remoded \/
    /\ cfg.mode = wired.mode
    /\ ReportedUnlessRemoded
    /\ \A r \in Reloaders : Reloading(r) =>
         \A i \in 1..(reloader[r].at - 1) :
             Wired(Parts[i], wired) => RunsWith(Parts[i], reloader[r].from.text)

IInv == TypeOK /\ MutexSound /\ OrderSound /\ ReportSound

\* There are seven parts.
LEMMA PartsOf ==
    /\ Len(Parts) = 7
    /\ \A i \in 1..7 : Parts[i] \in PartSet
    /\ \A p \in PartSet : \E i \in 1..7 : Parts[i] = p
BY DEF Parts, PartSet

\* They differ.
LEMMA PartsDiffer ==
    \A i \in 1..7 : \A j \in 1..(i - 1) : Parts[j] # Parts[i]
BY DEF Parts

\* Settings are those of a text, which RunsWith says of a part.
RunsTo(set, p, text) == set.hot = text.hot /\ Time(p, text) \in {0, set.time}

\* A goroutine that does not reload.
LEMMA IdleType ==
    /\ Idle \in [pc : {"starting", "idle", "locking", "reloading"},
                 from : Loads, at : 1..(Len(Parts) + 1)]
    /\ Idle.pc = "idle"
BY ProcessAssumption, PartsOf DEF Idle, Loads, ProcessAssumption

\* A reload leaves a time, which is the text's if that is not zero.
LEMMA TimesOf ==
    ASSUME NEW p \in PartSet, NEW text \in Texts
    PROVE  /\ Time(p, text) \in Nat
           /\ \A old \in Nat : /\ TimeAfter(p, text, old) \in Nat
                              /\ Time(p, text) \in {0, TimeAfter(p, text, old)}
<1>1. text.ttl \in Nat /\ text.timeout \in Nat /\ text.fallback \in Nat
    BY ProcessAssumption DEF ProcessAssumption
<1>2. Time(p, text) \in Nat
    BY <1>1 DEF Time
<1> QED BY <1>1, <1>2 DEF TimeAfter

\* What a start makes of the file.
LEMMA StartTypes ==
    ASSUME file \in Loads, file.text \in Texts
    PROVE  /\ Started \in [PartSet -> Settings]
           /\ \A p \in PartSet : /\ Started[p].hot = file.text.hot
                                 /\ Started[p].time = Time(p, file.text)
                                 /\ Started[p].stamp = file.stamp
           /\ Waiting \in [Reloaders -> [pc : {"starting", "idle", "locking", "reloading"},
                                         from : Loads, at : 1..(Len(Parts) + 1)]]
           /\ \A r \in Reloaders : Waiting[r].pc # "reloading"
           /\ Running \in [Tasks -> {"running", "reporting", "stopped"}]
<1>1. \A p \in PartSet : [hot |-> file.text.hot, time |-> Time(p, file.text),
                          stamp |-> file.stamp] \in Settings
    BY TimesOf DEF Settings, Loads
<1>2. /\ Started \in [PartSet -> Settings]
      /\ \A p \in PartSet : Started[p] = [hot |-> file.text.hot, time |-> Time(p, file.text),
                                          stamp |-> file.stamp]
    BY <1>1 DEF Started
<1> QED BY <1>2, IdleType DEF Waiting, Running

\* What the process starts with.
LEMMA FirstFile == Init => file \in Loads /\ file.text \in Texts /\ file.stamp \in Nat
BY ProcessAssumption DEF Init, Loads, ProcessAssumption

\* The start.
LEMMA InitSound == Init => IInv
<1> SUFFICES ASSUME Init PROVE IInv
    OBVIOUS
<1>1. TypeOK
    <2>1. lastMod \in 0..(MaxWrites + 1) /\ errors \in 0..Capacity
        BY ProcessAssumption DEF Init, Capacity, ProcessAssumption
    <2>2. /\ inForce \in [PartSet -> Settings]
          /\ service \in [Tasks -> {"running", "reporting", "stopped"}]
          /\ reloader \in [Reloaders -> [pc : {"starting", "idle", "locking", "reloading"},
                                        from : Loads, at : 1..(Len(Parts) + 1)]]
        BY FirstFile, StartTypes DEF Init
    <2> QED BY FirstFile, <2>1, <2>2 DEF Init, TypeOK
<1>2. MutexSound /\ OrderSound
    BY StartTypes, FirstFile DEF Init, MutexSound, OrderSound, Reloading
<1>3. ReportSound
    BY StartTypes, FirstFile DEF Init, ReportSound, ReportedUnlessRemoded, RunsWith, Status, Reloading
<1> QED BY <1>1, <1>2, <1>3 DEF IInv

\* The file is written.
LEMMA WriteSound ==
    ASSUME IInv, Write
    PROVE  IInv'
<1>1. PICK t \in Texts \cup {Refused} : file' = [text |-> t, stamp |-> file.stamp + 1]
    BY DEF Write
<1>2. file.stamp \in Nat /\ file'.stamp = file.stamp + 1 /\ file' \in Loads
    BY <1>1, ProcessAssumption DEF IInv, TypeOK, Write, Loads, ProcessAssumption
<1>3. UNCHANGED <<reloading, running>>
    BY DEF Write
<1>4. TypeOK'
    BY <1>2, <1>3 DEF IInv, TypeOK, reloading, running
<1>5. MutexSound' /\ ReportSound'
    BY <1>3 DEF IInv, reloading, running, MutexSound, Reloading, ReportSound, ReportedUnlessRemoded,
                RunsWith, Status, Unlocked
<1>6. OrderSound'
    <2>1. \A x \in Loads \cup Settings : x.stamp \in Nat
        BY ProcessAssumption DEF Loads, Settings, ProcessAssumption
    <2> QED BY <1>2, <1>3, <2>1 DEF IInv, TypeOK, reloading, OrderSound, Reloading
<1> QED BY <1>4, <1>5, <1>6 DEF IInv

\* Steps that neither begin, nor end, nor are part of a reload.
LEMMA AsideSound ==
    ASSUME IInv, TypeOK', UNCHANGED <<file, wired, cfg, inForce, remoded>>,
           \A r \in Reloaders : /\ Reloading(r) <=> Reloading(r)'
                                /\ Reloading(r) => reloader'[r] = reloader[r]
    PROVE  IInv'
<1>1. MutexSound' /\ OrderSound'
    BY DEF IInv, MutexSound, OrderSound
<1>2. Unlocked' <=> Unlocked
    BY DEF Unlocked, Reloading
<1>3. ReportSound'
    BY <1>2 DEF IInv, ReportSound, ReportedUnlessRemoded, RunsWith, Status
<1> QED BY <1>1, <1>3 DEF IInv

\* What is watched, signalled, told, or fails.
LEMMA OutsideSound ==
    ASSUME IInv,
           \/ Watch \/ Sighup \/ TakeSighup \/ Terminate \/ TakeError \/ TakeDone \/ Exit
           \/ \E s \in Services : Fails(s)
           \/ \E t \in Tasks : Ends(t)
    PROVE  IInv'
<1>1. CASE FirstStat
    <2>1. TypeOK'
        <3>1. missed' \in BOOLEAN
            BY <1>1 DEF FirstStat
        <3>2. lastMod' \in 0..(MaxWrites + 1)
            BY <1>1, ProcessAssumption DEF IInv, TypeOK, FirstStat, Loads, ProcessAssumption
        <3>3. /\ UNCHANGED <<file, wired, cfg, inForce, signal, told, remoded, main, service, errors>>
              /\ reloader' = [reloader EXCEPT !["watcher"].pc = "idle"]
            BY <1>1 DEF FirstStat, running
        <3> QED BY <3>1, <3>2, <3>3 DEF IInv, TypeOK
    <2> QED BY <1>1, <2>1, AsideSound DEF IInv, TypeOK, FirstStat, Reloading, running
<1>2. CASE Poll
    <2>1. TypeOK'
        BY <1>2 DEF IInv, TypeOK, Poll, Loads, running
    <2> QED BY <1>2, <2>1, AsideSound DEF IInv, TypeOK, Poll, Reloading, running
<1>3. CASE Sighup \/ TakeSighup
    <2>1. TypeOK'
        BY <1>3 DEF IInv, TypeOK, Sighup, TakeSighup, running
    <2> QED BY <1>3, <2>1, AsideSound DEF IInv, TypeOK, Sighup, TakeSighup, Reloading, running
<1>4. CASE Terminate \/ TakeError \/ TakeDone \/ Exit
    <2>1. TypeOK'
        <3>1. UNCHANGED <<file, wired, cfg, inForce, reloader, lastMod, signal, missed, remoded, service>>
            BY <1>4 DEF Terminate, TakeError, TakeDone, Exit, reloading
        <3>2. errors' \in 0..Capacity
            BY <1>4 DEF IInv, TypeOK, Terminate, TakeError, TakeDone, Exit, Capacity
        <3>3. told' \in BOOLEAN /\ main' \in {"selecting", "waiting", "exited"}
            BY <1>4 DEF IInv, TypeOK, Terminate, TakeError, TakeDone, Exit
        <3> QED BY <3>1, <3>2, <3>3 DEF IInv, TypeOK
    <2> QED BY <1>4, <2>1, AsideSound DEF Terminate, TakeError, TakeDone, Exit, reloading, Reloading
<1>5. ASSUME NEW s \in Services, Fails(s) PROVE IInv'
    <2>1. TypeOK'
        BY <1>5 DEF IInv, TypeOK, Fails, reloading, Tasks
    <2> QED BY <1>5, <2>1, AsideSound DEF Fails, reloading, Reloading
<1>6. ASSUME NEW t \in Tasks, Stops(t) \/ Reports(t) PROVE IInv'
    <2>1. TypeOK'
        BY <1>6 DEF IInv, TypeOK, Stops, Reports, reloading, Capacity
    <2> QED BY <1>6, <2>1, AsideSound DEF Stops, Reports, reloading, Reloading
<1> QED BY <1>1, <1>2, <1>3, <1>4, <1>5, <1>6 DEF Watch, Ends

\* A reload reads the file, which is newer than what is in force.
LEMMA LoadSound ==
    ASSUME IInv, NEW r \in Reloaders, Load(r)
    PROVE  IInv'
<1>1. \A q \in Reloaders : ~Reloading(q)
    BY DEF Load, Unlocked, Reloading
<1>2. /\ UNCHANGED <<file, wired, cfg, inForce, remoded>>
      /\ UNCHANGED <<lastMod, signal, missed, main, told, service, errors>>
    BY DEF Load, running
<1>3. \/ reloader' = [reloader EXCEPT ![r] = Idle]
      \/ /\ file.text # Refused
         /\ reloader' = [reloader EXCEPT ![r] = [pc |-> "reloading", from |-> file, at |-> 1]]
    BY DEF Load
<1>4. TypeOK'
    <2>1. [pc |-> "reloading", from |-> file, at |-> 1]
             \in [pc : {"starting", "idle", "locking", "reloading"}, from : Loads,
                  at : 1..(Len(Parts) + 1)]
        BY PartsOf DEF IInv, TypeOK
    <2> QED BY <1>2, <1>3, <2>1, IdleType DEF IInv, TypeOK
<1>5. CASE reloader' = [reloader EXCEPT ![r] = Idle]
    <2>1. \A q \in Reloaders : ~Reloading(q)'
        BY <1>1, <1>5, IdleType DEF IInv, TypeOK, Reloading
    <2> QED BY <1>1, <1>2, <1>4, <2>1, AsideSound
<1>6. CASE /\ file.text # Refused
           /\ reloader' = [reloader EXCEPT ![r] = [pc |-> "reloading", from |-> file, at |-> 1]]
    <2>1. /\ \A q \in Reloaders : Reloading(q)' => q = r
          /\ reloader'[r] = [pc |-> "reloading", from |-> file, at |-> 1]
        BY <1>1, <1>6 DEF IInv, TypeOK, Reloading
    <2>2. MutexSound'
        BY <2>1 DEF MutexSound
    <2>3. OrderSound'
        <3>1. file.text \in Texts /\ file.stamp <= file.stamp
            BY <1>6 DEF IInv, TypeOK, Loads
        <3> QED BY <1>2, <2>1, <3>1 DEF IInv, OrderSound
    <2>4. ~Unlocked'
        BY <2>1 DEF Unlocked, Reloading
    <2>5. ReportSound'
        BY <1>2, <2>1, <2>4 DEF IInv, ReportSound, ReportedUnlessRemoded, RunsWith
    <2> QED BY <1>4, <2>2, <2>3, <2>5 DEF IInv
<1> QED BY <1>3, <1>5, <1>6

\* One part is set.
LEMMA ApplySound ==
    ASSUME IInv, NEW r \in Reloaders, Apply(r)
    PROVE  /\ IInv'
           /\ \A p \in PartSet : inForce'[p].stamp >= inForce[p].stamp
<1> DEFINE i   == reloader[r].at
           new == reloader[r].from
           p   == Parts[i]
           set == [hot |-> new.text.hot, time |-> TimeAfter(p, new.text, inForce[p].time),
                   stamp |-> new.stamp]
<1>1. /\ UNCHANGED <<file, wired, cfg, remoded>>
      /\ UNCHANGED <<lastMod, signal, missed, main, told, service, errors>>
      /\ inForce' = IF AppliesTo(p, new.text) THEN [inForce EXCEPT ![p] = set] ELSE inForce
      /\ reloader' = [reloader EXCEPT ![r].at = i + 1]
      /\ Reloading(r)
    BY DEF Apply, running, Reloading
<1>2. i \in 1..7 /\ p \in PartSet /\ new \in Loads /\ new.text \in Texts
    BY <1>1, PartsOf DEF IInv, TypeOK, Apply, OrderSound
<1>11. inForce[p].time \in Nat
    BY <1>2 DEF IInv, TypeOK, Settings
<1>12. set \in Settings /\ RunsTo(set, p, new.text)
    BY <1>2, <1>11, TimesOf DEF Settings, Loads, RunsTo
<1>13. set.stamp = new.stamp
    OBVIOUS
<1> HIDE DEF set
<1>3. TypeOK'
    BY <1>1, <1>2, <1>12, PartsOf DEF IInv, TypeOK
<1>4. /\ \A q \in Reloaders : Reloading(q)' <=> q = r
      /\ reloader'[r].from = new /\ reloader'[r].at = i + 1
    BY <1>1 DEF IInv, TypeOK, MutexSound, Reloading
<1>5. \A q \in PartSet : inForce'[q] = IF q = p /\ AppliesTo(p, new.text) THEN set ELSE inForce[q]
    BY <1>1, <1>2 DEF IInv, TypeOK
<1>6. \A x \in Loads \cup Settings : x.stamp \in Nat
    BY ProcessAssumption DEF Loads, Settings, ProcessAssumption
<1>7. \A q \in PartSet : inForce[q].stamp <= new.stamp /\ inForce[q] \in Settings
    BY <1>1 DEF IInv, TypeOK, OrderSound
<1>8. MutexSound'
    BY <1>4 DEF MutexSound
<1>9. OrderSound' /\ \A q \in PartSet : inForce'[q].stamp >= inForce[q].stamp
    <2> HIDE DEF new, p, i
    <2>1. new.stamp <= file.stamp /\ new.stamp \in Nat
        BY <1>1, <1>2, <1>6 DEF IInv, OrderSound, new
    <2>2. \A q \in PartSet : inForce'[q].stamp <= new.stamp /\ inForce'[q].stamp >= inForce[q].stamp
        BY <1>5, <1>6, <1>7, <1>13, <2>1
    <2>3. \A q \in PartSet : inForce'[q].stamp <= file.stamp
        BY <1>5, <1>13, <2>1 DEF IInv, OrderSound
    <2> QED BY <1>1, <1>2, <1>4, <2>1, <2>2, <2>3 DEF OrderSound
<1>10. ReportSound'
    <2>1. CASE remoded
        BY <1>1, <2>1 DEF ReportSound
    <2>2. CASE ~remoded
        <3>1. cfg.mode = wired.mode
            BY <2>2 DEF IInv, ReportSound
        <3>2. Wired(p, wired) => AppliesTo(p, new.text)
            BY <3>1 DEF Wired, AppliesTo, IsClient, IsRelay
        <3>3. ASSUME NEW j \in 1..i, Wired(Parts[j], wired)
              PROVE  RunsTo(inForce'[Parts[j]], Parts[j], new.text)
            <4>1. Parts[j] \in PartSet
                BY <1>2, PartsOf
            <4>2. CASE j = i
                BY <1>5, <1>12, <3>2, <3>3, <4>1, <4>2
            <4>3. CASE j \in 1..(i - 1)
                <5>1. RunsTo(inForce[Parts[j]], Parts[j], new.text)
                    BY <1>1, <2>2, <3>3, <4>3 DEF IInv, ReportSound, RunsWith, RunsTo
                <5>2. Parts[j] # p
                    BY <1>2, <4>3, PartsDiffer
                <5> QED BY <1>5, <4>1, <5>1, <5>2
            <4> QED BY <1>2, <4>2, <4>3
        <3>4. ~Unlocked'
            BY <1>4 DEF Unlocked, Reloading
        <3> QED BY <1>1, <1>2, <1>4, <3>1, <3>3, <3>4 DEF ReportSound, ReportedUnlessRemoded, RunsWith, RunsTo
    <2> QED BY <2>1, <2>2
<1> QED BY <1>3, <1>8, <1>9, <1>10 DEF IInv

\* The reload ends.
LEMMA FinishSound ==
    ASSUME IInv, NEW r \in Reloaders, Finish(r)
    PROVE  IInv'
<1> DEFINE new == reloader[r].from
<1>1. /\ UNCHANGED <<file, wired, inForce>>
      /\ UNCHANGED <<lastMod, signal, missed, main, told, service, errors>>
      /\ cfg' = new.text
      /\ remoded' = (remoded \/ new.text.mode # wired.mode)
      /\ reloader' = [reloader EXCEPT ![r] = Idle]
      /\ Reloading(r) /\ reloader[r].at > 7
    BY PartsOf DEF Finish, Becomes, running, Reloading
<1>2. new.text \in Texts
    BY <1>1 DEF IInv, OrderSound
<1>3. TypeOK'
    BY <1>1, <1>2, IdleType DEF IInv, TypeOK
<1>4. \A q \in Reloaders : ~Reloading(q)'
    BY <1>1, IdleType DEF IInv, TypeOK, MutexSound, Reloading
<1>5. MutexSound' /\ OrderSound'
    BY <1>1, <1>4 DEF IInv, MutexSound, OrderSound
<1>6. ReportSound'
    <2>1. CASE remoded'
        BY <2>1 DEF ReportSound
    <2>2. CASE ~remoded'
        <3>1. ~remoded /\ new.text.mode = wired.mode
            BY <1>1, <2>2
        <3>2. \A i \in 1..7 : Wired(Parts[i], wired) => RunsWith(Parts[i], new.text)
            BY <1>1, <3>1, PartsOf DEF IInv, TypeOK, ReportSound
        <3>3. \A p \in PartSet : Wired(p, wired) => RunsWith(p, new.text)
            BY <3>2, PartsOf
        <3> QED BY <1>1, <1>4, <3>1, <3>3 DEF ReportSound, ReportedUnlessRemoded, RunsWith, Status, Wired
    <2> QED BY <2>1, <2>2
<1> QED BY <1>3, <1>5, <1>6 DEF IInv

\* The process is started again, with the file as it is.
LEMMA RestartSound ==
    ASSUME IInv, Restart
    PROVE  /\ IInv'
           /\ \A p \in PartSet : inForce'[p].stamp >= inForce[p].stamp
<1>1. file \in Loads /\ file.text \in Texts /\ file.stamp \in Nat
    BY ProcessAssumption DEF IInv, TypeOK, Restart, Loads, ProcessAssumption
<1>2. TypeOK'
    <2>1. lastMod' \in 0..(MaxWrites + 1) /\ errors' \in 0..Capacity
        BY ProcessAssumption DEF Restart, Capacity, ProcessAssumption
    <2>2. /\ inForce' \in [PartSet -> Settings]
          /\ service' \in [Tasks -> {"running", "reporting", "stopped"}]
          /\ reloader' \in [Reloaders -> [pc : {"starting", "idle", "locking", "reloading"},
                                         from : Loads, at : 1..(Len(Parts) + 1)]]
        BY <1>1, StartTypes DEF Restart
    <2> QED BY <1>1, <2>1, <2>2 DEF Restart, TypeOK
<1>3. MutexSound' /\ OrderSound'
    BY <1>1, StartTypes DEF Restart, MutexSound, OrderSound, Reloading
<1>4. ReportSound'
    BY <1>1, StartTypes DEF Restart, ReportSound, ReportedUnlessRemoded, RunsWith, Status, Reloading
<1>5. \A p \in PartSet : inForce'[p].stamp >= inForce[p].stamp
    BY <1>1, StartTypes DEF Restart, IInv, OrderSound
<1> QED BY <1>2, <1>3, <1>4, <1>5 DEF IInv

\* The invariant is inductive, and nothing that is in force gets older.
LEMMA StepSound ==
    IInv /\ [Next]_vars => IInv' /\ [\A p \in PartSet : inForce'[p].stamp >= inForce[p].stamp]_inForce
<1> SUFFICES ASSUME IInv, [Next]_vars
             PROVE  IInv' /\ [\A p \in PartSet : inForce'[p].stamp >= inForce[p].stamp]_inForce
    OBVIOUS
<1>1. CASE Write
    BY <1>1, WriteSound DEF Write, reloading
<1>2. CASE \/ Watch \/ Sighup \/ TakeSighup \/ Terminate \/ TakeError \/ TakeDone \/ Exit
           \/ \E s \in Services : Fails(s)
           \/ \E t \in Tasks : Ends(t)
    <2>1. inForce' = inForce
        BY <1>2 DEF Watch, FirstStat, Poll, Sighup, TakeSighup, Terminate, TakeError, TakeDone, Exit,
                    Fails, Ends, Stops, Reports, reloading
    <2> QED BY <1>2, <2>1, OutsideSound
<1>3. ASSUME NEW r \in Reloaders, Load(r) \/ Finish(r)
      PROVE  IInv' /\ inForce' = inForce
    BY <1>3, LoadSound, FinishSound DEF Load, Finish
<1>4. ASSUME NEW r \in Reloaders, Apply(r)
      PROVE  IInv' /\ \A p \in PartSet : inForce'[p].stamp >= inForce[p].stamp
    BY <1>4, ApplySound
<1>5. CASE Restart
    BY <1>5, RestartSound
<1>6. CASE UNCHANGED vars
    BY <1>6, AsideSound DEF vars, reloading, running, IInv, TypeOK, Reloading
<1> QED BY <1>1, <1>2, <1>3, <1>4, <1>5, <1>6 DEF Next, Reload

\* It holds in every reachable state.
LEMMA Invariance == Spec => []IInv
BY InitSound, StepSound, PTL DEF Spec

\* Every variable of the process keeps its type: among others, a reload goes by a
\* configuration that was accepted, and errCh never holds more than it has room for.
THEOREM TypeCorrect == Spec => []TypeOK
<1>1. IInv => TypeOK
    BY DEF IInv
<1> QED BY <1>1, Invariance, PTL

\* Unless a reload has changed the mode, every part runs with what the admin status
\* reports, zeros for times aside, however the watcher's reloads and those of a
\* SIGHUP meet.
THEOREM ReportsHold == Spec => []ReportedUnlessRemoded
<1>1. IInv => ReportedUnlessRemoded
    BY DEF IInv, ReportSound, ReportedUnlessRemoded
<1> QED BY <1>1, Invariance, PTL

\* No reload puts an older file over a newer one.
THEOREM ReloadsInOrder == Spec => NeverBackwards
BY Invariance, StepSound, PTL DEF Spec, NeverBackwards
=============================================================================
