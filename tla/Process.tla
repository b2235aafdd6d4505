------------------------------- MODULE Process -------------------------------
(***************************************************************************)
(* The process of cmd/power-dns/main.go: it starts from its configuration  *)
(* file, runs its services, reloads the file when it changes or on a       *)
(* SIGHUP, and stops when it is told to or when a service fails.           *)
(*                                                                         *)
(* A text of the file is what a reload tells apart: the mode; whether the  *)
(* relay has a DoT listener; the settings that a reload sets whatever they *)
(* are, as one value, hot; the times for which it does not take zero: ttl, *)
(* any one of the cache's, and timeout and fallback, those of [relay] and  *)
(* of [upstream]; and the rest, which needs a restart, as one value, cold. *)
(* Or it is a text that config.Load refuses.  Every write has a stamp of   *)
(* its own, as modification time and size give it.                         *)
(***************************************************************************)
EXTENDS Integers, Sequences

CONSTANTS
    Texts,          \* configurations: records of mode, dot, hot, ttl, timeout, fallback, cold
    Refused,        \* a text that does not parse or validate, or no file
    MaxWrites       \* bound on the edits of the file

ASSUME ProcessAssumption ==
    /\ \A t \in Texts : t.mode \in {"client", "relay", "both"} /\ t.dot \in BOOLEAN
    /\ \A t \in Texts : t.ttl \in Nat /\ t.timeout \in Nat /\ t.fallback \in Nat
    /\ Refused \notin Texts
    /\ MaxWrites \in Nat

VARIABLES
    file,           \* the text and its stamp
    wired,          \* the configuration run started with
    cfg,            \* a.cfg
    inForce,        \* what each part was last set to, and the stamp
    reloader,       \* the goroutines of watchConfig and of SIGHUP
    lastMod,        \* the stamp watchConfig has seen
    signal,         \* hupCh
    main,           \* where run is
    told,           \* ctx is done
    service,        \* the services and the loop that saves the cache
    errors,         \* how many errors errCh holds
    missed,         \* history: an edit before watchConfig's first look
    remoded         \* history: a reload has changed the mode in a.cfg

reloading == <<cfg, inForce, reloader, lastMod, signal, missed, remoded>>
running   == <<wired, main, told, service, errors>>
vars      == <<file, reloading, running>>

-----------------------------------------------------------------------------
\* What a reload sets, in this order.
Parts == <<"log", "cache", "ban", "resolver", "security", "chain", "admin">>
PartSet == {Parts[i] : i \in DOMAIN Parts}

IsClient(config) == config.mode \in {"client", "both"}
IsRelay(config)  == config.mode \in {"relay", "both"}

\* The part exists in a process started with the configuration.
Wired(p, config) ==
    /\ p \in {"ban", "resolver"} => IsClient(config)
    /\ p \in {"security", "chain"} => IsRelay(config)

\* reload goes by the mode of a.cfg for the resolver, and for the relay by whether
\* there is one.
AppliesTo(p, new) ==
    /\ p \in {"ban", "resolver"} => IsClient(cfg)
    /\ p \in {"security", "chain"} => IsRelay(wired)

Services == {"api", "dns", "dot"}
Tasks == Services \cup {"saver"}
Reloaders == {"watcher", "hup"}

Runs(t, config) ==
    /\ t = "dns" => IsClient(config)
    /\ t = "dot" => IsRelay(config) /\ config.dot

Idle == [pc |-> "idle", from |-> [text |-> Refused, stamp |-> 0], at |-> 1]

\* The time in a part's settings: one of the cache, and the resolver's.
Time(p, text) ==
    CASE p = "cache" -> text.ttl
      [] p = "resolver" -> text.timeout
      [] OTHER -> 0

\* A reload: UpdateRuntime and ApplyRuntime keep the old time if the new one is zero,
\* reload asks ApplyRuntime for that of [upstream] first.
TimeAfter(p, text, old) ==
    IF Time(p, text) > 0 THEN Time(p, text)
    ELSE IF p = "resolver" /\ text.fallback > 0 THEN text.fallback ELSE old

\* What run makes of the file it is started with, up to watchConfig's first look.
Started == [p \in PartSet |-> [hot |-> file.text.hot, time |-> Time(p, file.text),
                              stamp |-> file.stamp]]
Waiting == [r \in Reloaders |-> IF r = "watcher" THEN [Idle EXCEPT !.pc = "starting"] ELSE Idle]
Running == [t \in Tasks |-> IF Runs(t, file.text) THEN "running" ELSE "stopped"]

Init ==
    /\ file \in [text : Texts, stamp : {1}]
    /\ wired = file.text /\ cfg = file.text
    /\ inForce = Started
    /\ reloader = Waiting
    /\ lastMod = 0
    /\ signal = FALSE
    /\ main = "selecting" /\ told = FALSE
    /\ service = Running
    /\ errors = 0
    /\ missed = FALSE /\ remoded = FALSE

\* Editors write in place, in parts, or replace the file.
Write ==
    /\ file.stamp <= MaxWrites
    /\ \E t \in (Texts \cup {Refused}) \ {file.text} :
         file' = [text |-> t, stamp |-> file.stamp + 1]
    /\ UNCHANGED <<reloading, running>>

-----------------------------------------------------------------------------
Up == main # "exited"

\* The first Stat of watchConfig; a missing file leaves the zero time.
FirstStat ==
    /\ Up
    /\ reloader["watcher"].pc = "starting"
    /\ reloader' = [reloader EXCEPT !["watcher"].pc = "idle"]
    /\ lastMod' \in {file.stamp} \cup (IF file.text = Refused THEN {0} ELSE {})
    /\ missed' = (file.stamp # inForce["log"].stamp)
    /\ UNCHANGED <<file, cfg, inForce, signal, remoded, running>>

\* A tick finds another file; a missing one is left for the next tick.  The time
\* to settle passes before the lock is taken.
Poll ==
    /\ Up
    /\ reloader["watcher"].pc = "idle"
    /\ lastMod # file.stamp
    /\ lastMod' = file.stamp
    /\ reloader' = [reloader EXCEPT !["watcher"].pc = "locking"]
    /\ UNCHANGED <<file, cfg, inForce, signal, missed, remoded, running>>

Sighup ==
    /\ Up
    /\ ~signal
    /\ signal' = TRUE
    /\ UNCHANGED <<file, cfg, inForce, reloader, lastMod, missed, remoded, running>>

TakeSighup ==
    /\ Up
    /\ signal
    /\ reloader["hup"].pc = "idle"
    /\ signal' = FALSE
    /\ reloader' = [reloader EXCEPT !["hup"].pc = "locking"]
    /\ UNCHANGED <<file, cfg, inForce, lastMod, missed, remoded, running>>

\* Mutant: reload does not take a.mu.
NoLock == TRUE

\* a.mu.
Unlocked == \A r \in Reloaders : reloader[r].pc # "reloading"

\* Mutant: a change that needs a restart waits for it with the rest.
PlansNone(new) == new # cfg /\ new.cold = cfg.cold

\* PlanReload: some hot setting differs.
Plans(new) ==
    new.hot # cfg.hot \/ new.ttl # cfg.ttl \/ new.timeout # cfg.timeout
    \/ new.fallback # cfg.fallback

\* reload up to the plan: the lock, Load, Validate.
Load(r) ==
    /\ Up
    /\ reloader[r].pc = "locking"
    /\ Unlocked
    /\ reloader' = [reloader EXCEPT ![r] =
          IF file.text # Refused /\ Plans(file.text)
          THEN [pc |-> "reloading", from |-> file, at |-> 1]
          ELSE Idle]
    /\ UNCHANGED <<file, cfg, inForce, lastMod, signal, missed, remoded, running>>

Apply(r) ==
    LET new == reloader[r].from
        p   == Parts[reloader[r].at]
        set == [hot |-> new.text.hot, time |-> TimeAfter(p, new.text, inForce[p].time),
                stamp |-> new.stamp]
    IN  /\ Up
        /\ reloader[r].pc = "reloading"
        /\ reloader[r].at <= Len(Parts)
        /\ inForce' = IF AppliesTo(p, new.text) THEN [inForce EXCEPT ![p] = set] ELSE inForce
        /\ reloader' = [reloader EXCEPT ![r].at = @ + 1]
        /\ UNCHANGED <<file, cfg, lastMod, signal, missed, remoded, running>>

\* Mutant: what needs a restart keeps the old configuration.
KeepsIfRestart(new) == IF new.cold # cfg.cold THEN cfg ELSE new

\* a.cfg afterwards: the whole of the new configuration, what needs a restart, too.
Becomes(new) == new

Finish(r) ==
    LET new == reloader[r].from.text
    IN  /\ Up
        /\ reloader[r].pc = "reloading"
        /\ reloader[r].at > Len(Parts)
        /\ cfg' = Becomes(new)
        /\ remoded' = (remoded \/ new.mode # wired.mode)
        /\ reloader' = [reloader EXCEPT ![r] = Idle]
        /\ UNCHANGED <<file, inForce, lastMod, signal, missed, running>>

-----------------------------------------------------------------------------
\* SIGINT or SIGTERM.
Terminate ==
    /\ Up
    /\ told' = TRUE
    /\ UNCHANGED <<file, reloading, wired, main, service, errors>>

\* A listener fails, or a Shutdown meets its deadline.
Fails(s) ==
    /\ service[s] = "running"
    /\ service' = [service EXCEPT ![s] = "reporting"]
    /\ UNCHANGED <<file, reloading, wired, main, told, errors>>

\* Mutant: room for the error that run waits for, and no other.
OneError == 1

Capacity == 4

Reports(s) ==
    /\ service[s] = "reporting"
    /\ errors < Capacity
    /\ errors' = errors + 1
    /\ service' = [service EXCEPT ![s] = "stopped"]
    /\ UNCHANGED <<file, reloading, wired, main, told>>

\* Run returns nil; the saver saves a last time.
Stops(t) ==
    /\ service[t] = "running"
    /\ told
    /\ service' = [service EXCEPT ![t] = "stopped"]
    /\ UNCHANGED <<file, reloading, wired, main, told, errors>>

TakeError ==
    /\ main = "selecting"
    /\ errors > 0
    /\ errors' = errors - 1
    /\ told' = TRUE
    /\ main' = "waiting"
    /\ UNCHANGED <<file, reloading, wired, service>>

TakeDone ==
    /\ main = "selecting"
    /\ told
    /\ main' = "waiting"
    /\ UNCHANGED <<file, reloading, wired, told, service, errors>>

Exit ==
    /\ main = "waiting"
    /\ \A t \in Tasks : service[t] = "stopped"
    /\ main' = "exited"
    /\ UNCHANGED <<file, reloading, wired, told, service, errors>>

\* The process is started again; it exits at once if its file is refused.
Restart ==
    /\ ~Up
    /\ file.text \in Texts
    /\ UNCHANGED file
    /\ wired' = file.text /\ cfg' = file.text
    /\ inForce' = Started
    /\ reloader' = Waiting
    /\ lastMod' = 0
    /\ signal' = FALSE
    /\ main' = "selecting" /\ told' = FALSE
    /\ service' = Running
    /\ errors' = 0
    /\ missed' = FALSE /\ remoded' = FALSE

\* buildStatus reads a.cfg under a.mu, and reports the settings it finds there.
Status == cfg

Reload(r) == Load(r) \/ Apply(r) \/ Finish(r)
Watch == FirstStat \/ Poll
Ends(t) == Stops(t) \/ (t \in Services /\ Reports(t))

Next ==
    \/ Write
    \/ Watch
    \/ Sighup \/ TakeSighup
    \/ \E r \in Reloaders : Reload(r)
    \/ Terminate
    \/ \E s \in Services : Fails(s)
    \/ \E t \in Tasks : Ends(t)
    \/ TakeError \/ TakeDone \/ Exit
    \/ Restart

Spec == Init /\ [][Next]_vars

\* Goroutines are scheduled, and a mutex of sync starves nobody.  Services end:
\* what they wait for has a deadline, and so has every query.
Fairness ==
    /\ WF_vars(Watch)
    /\ \A r \in Reloaders : SF_vars(Load(r)) /\ WF_vars(Apply(r) \/ Finish(r))
    /\ \A t \in Tasks : WF_vars(Ends(t))
    /\ WF_vars(TakeError \/ TakeDone)
    /\ WF_vars(Exit)

FairSpec == Spec /\ Fairness

-----------------------------------------------------------------------------
Loads == [text : Texts \cup {Refused}, stamp : 0..(MaxWrites + 1)]
Settings == [hot : {t.hot : t \in Texts}, time : Nat, stamp : 0..(MaxWrites + 1)]

TypeOK ==
    /\ file \in Loads
    /\ wired \in Texts /\ cfg \in Texts
    /\ inForce \in [PartSet -> Settings]
    /\ reloader \in [Reloaders -> [pc : {"starting", "idle", "locking", "reloading"},
                                   from : Loads, at : 1..(Len(Parts) + 1)]]
    /\ lastMod \in 0..(MaxWrites + 1)
    /\ signal \in BOOLEAN /\ told \in BOOLEAN /\ missed \in BOOLEAN /\ remoded \in BOOLEAN
    /\ main \in {"selecting", "waiting", "exited"}
    /\ service \in [Tasks -> {"running", "reporting", "stopped"}]
    /\ errors \in 0..Capacity

\* While nothing reloads, every part the process has runs with the settings the
\* admin status reports.
ReportedIsInForce ==
    Unlocked => \A p \in PartSet : Wired(p, wired) =>
        inForce[p].hot = Status.hot /\ inForce[p].time = Time(p, Status)

\* A part runs with the settings of a text, where the text has no zero for its time.
RunsWith(p, text) ==
    inForce[p].hot = text.hot /\ Time(p, text) \in {0, inForce[p].time}

\* As long as no reload has changed the mode, every part runs with what the status
\* reports while nothing reloads: but for a zero, which a reload does not apply
\* (the cache) or replaces by another time (the resolver), and the status reports.
ReportedUnlessRemoded ==
    Unlocked /\ ~remoded => \A p \in PartSet : Wired(p, wired) => RunsWith(p, Status)

\* Two reloads at a time never put an older file over a newer one.
NeverBackwards ==
    [][\A p \in PartSet : inForce'[p].stamp >= inForce[p].stamp]_inForce

\* A valid edit that stays in the file comes into force in every part, its zeros for
\* times aside, with no SIGHUP and whatever else was written before: unless it came
\* before watchConfig's first look, or the mode was changed.
EditsTakeEffect ==
    \A t \in Texts :
        file.text = t /\ Up
        ~> \/ \A p \in PartSet : Wired(p, wired) => RunsWith(p, t)
           \/ file.text # t \/ told \/ ~Up \/ missed \/ remoded

\* Once it is told to stop, or a service has failed, the process exits.
StopsForGood ==
    Up /\ (told \/ \E s \in Services : service[s] = "reporting") ~> ~Up
=============================================================================
