----------------------------- MODULE WifiTime -----------------------------
(***************************************************************************)
(* Wi-Fi association and IP configuration (network.rs,                     *)
(* network_supervisor.rs), the wait for it that every network task goes    *)
(* through, and the time those tasks get by NTP (time_sync.rs).            *)
(*                                                                         *)
(* embassy-net has one waker for everybody who waits for a configuration:  *)
(* the task that registered last is woken, no other.  wait_for_config_up   *)
(* therefore lets one task at a time wait.                                 *)
(*                                                                         *)
(* The clock runs in ticks, TicksPerSec of them to the second, and stops   *)
(* at MaxClock; software timers fire at any time after they were started.  *)
(***************************************************************************)
EXTENDS Integers, Sequences, FiniteSets

CONSTANTS
    Clients,      \* tasks that need the network, time_sync and the supervisor apart
    ServerCount,  \* how many servers the configured list holds
    StaticIp,     \* WIFI_STATIC_IP is configured
    TicksPerSec,
    BootTime,     \* the true time at start, in ticks
    MaxClock,     \* bound of the clock
    MaxDelay,     \* ticks the answer of a server may take
    MaxDrops,     \* bound of lost connections
    MaxSyncs      \* bound of answers

ASSUME WifiTimeAssumption ==
    /\ {"sup", "time", "nobody"} \cap Clients = {}
    /\ {ServerCount, TicksPerSec} \subseteq Nat \ {0}
    /\ {BootTime, MaxClock, MaxDelay, MaxDrops, MaxSyncs} \subseteq Nat
    /\ StaticIp \in BOOLEAN

VARIABLES
    sup,       \* the supervisor: configuring, connecting, backoff, ip, monitoring, reconnecting, reBackoff
    link,      \* the controller is connected
    config,    \* the stack has an IPv4 configuration
    seen,      \* CONFIG_UP_SEEN
    lock,      \* the holder of CONFIG_UP_WAIT_LOCK, or Nobody
    wait,      \* where each task is in wait_for_config_up: out, locking, polling, asleep, done
    waker,     \* the task registered with the stack, or Nobody
    ntp,       \* time_sync_loop: [pc, server, sent]; lost: waits for an answer that will not come
    reference, \* TIME_WATCH: NoReference or [unix_secs, captured_at]
    clock,     \* ticks since boot
    drops, syncs

netVars == <<link, config, drops>>
waitVars == <<seen, lock, wait, waker>>
timeVars == <<ntp, reference, syncs>>
vars == <<sup, netVars, waitVars, timeVars, clock>>

Tasks == Clients \cup {"sup", "time"}
Nobody == "nobody"
NoReference == [unix_secs |-> -1]

Init ==
    /\ sup = "configuring" /\ link = FALSE /\ config = StaticIp
    /\ seen = FALSE /\ lock = Nobody /\ waker = Nobody
    /\ wait = [t \in Tasks |-> IF t = "time" THEN "locking" ELSE "out"]
    /\ ntp = [pc |-> "network", server |-> 1, sent |-> 0]
    /\ reference = NoReference
    /\ clock = 0 /\ drops = 0 /\ syncs = 0

(***************************************************************************)
(* wait_for_config_up.                                                     *)
(***************************************************************************)
\* The wake-up of the registered task when a configuration comes.
WokenBy(w) == IF waker = Nobody THEN w ELSE [w EXCEPT ![waker] = IF @ = "asleep" THEN "polling" ELSE @]

\* Begins with the test that needs no lock.
Entered(t) == IF seen /\ config THEN "done" ELSE "locking"

\* Slip: every task waits with the stack on its own.
locks_nothing(t) ==
    /\ wait[t] = "locking"
    /\ lock' = lock
    /\ wait' = [wait EXCEPT ![t] = IF config THEN "done" ELSE "polling"]
    /\ seen' = (seen \/ config)

\* The lock, the second test under it.
WaitLocks(t) ==
    /\ wait[t] = "locking" /\ lock = Nobody
    /\ lock' = IF config THEN lock ELSE t
    /\ wait' = [wait EXCEPT ![t] = IF config THEN "done" ELSE "polling"]
    /\ seen' = (seen \/ config)

Locks(t) == WaitLocks(t) /\ UNCHANGED <<sup, netVars, timeVars, clock, waker>>

\* One poll of wait_config_up: the configuration, or the waker.
WaitPolls(t) ==
    /\ wait[t] = "polling"
    /\ IF config
       THEN /\ wait' = [wait EXCEPT ![t] = "done"]
            /\ lock' = IF lock = t THEN Nobody ELSE lock
            /\ seen' = TRUE /\ waker' = waker
       ELSE wait' = [wait EXCEPT ![t] = "asleep"] /\ waker' = t /\ UNCHANGED <<lock, seen>>
    /\ UNCHANGED <<sup, netVars, timeVars, clock>>

\* A client asks for the network when it likes, and uses it once it is there.
ClientAsks(t) ==
    /\ t \in Clients /\ wait[t] = "out"
    /\ wait' = [wait EXCEPT ![t] = Entered(t)]
    /\ UNCHANGED <<sup, netVars, timeVars, clock, seen, lock, waker>>
ClientLeaves(t) ==
    /\ t \in Clients /\ wait[t] = "done"
    /\ wait' = [wait EXCEPT ![t] = "out"]
    /\ UNCHANGED <<sup, netVars, timeVars, clock, seen, lock, waker>>

(***************************************************************************)
(* network_supervisor_task, connect_until_associated and                   *)
(* reconnect_until_connected.                                              *)
(***************************************************************************)
SupConfigures(ok) ==
    /\ sup = "configuring"
    /\ sup' = IF ok THEN "connecting" ELSE "backoff"
    /\ UNCHANGED <<netVars, waitVars, timeVars, clock>>

\* connect_async: the first connection and a later one.
SupConnects ==
    /\ sup \in {"connecting", "reconnecting"}
    /\ sup' = "ip" /\ link' = TRUE
    /\ wait' = [wait EXCEPT !["sup"] = Entered("sup")]
    /\ UNCHANGED <<config, drops, seen, lock, waker, timeVars, clock>>
SupConnectFails ==
    /\ sup \in {"connecting", "reconnecting"}
    /\ sup' = IF sup = "connecting" THEN "backoff" ELSE "reBackoff"
    /\ UNCHANGED <<netVars, waitVars, timeVars, clock>>
SupRetries ==
    /\ sup \in {"backoff", "reBackoff"}
    /\ sup' = IF sup = "backoff" THEN "configuring" ELSE "reconnecting"
    /\ UNCHANGED <<netVars, waitVars, timeVars, clock>>

SupHasIp ==
    /\ sup = "ip" /\ wait["sup"] = "done"
    /\ sup' = "monitoring"
    /\ wait' = [wait EXCEPT !["sup"] = "out"]
    /\ UNCHANGED <<netVars, seen, lock, waker, timeVars, clock>>

\* Slip: the supervisor is content once it has been connected.
monitors_nothing == sup = "monitoring" /\ ~link /\ sup' = "monitoring"

\* Every CONNECTION_MONITOR_INTERVAL_SECS.
Monitors == sup = "monitoring" /\ ~link /\ sup' = "reconnecting"
SupMonitors == Monitors /\ UNCHANGED <<netVars, waitVars, timeVars, clock>>

(***************************************************************************)
(* time_sync_loop and sync_time_once.                                      *)
(***************************************************************************)
\* The configuration is there: the first server is asked.  bind may fail.
NtpStarts(bound) ==
    /\ ntp.pc = "network" /\ wait["time"] = "done"
    /\ ntp' = IF bound THEN [pc |-> "asking", server |-> 1, sent |-> clock]
              ELSE [ntp EXCEPT !.pc = "sleeping"]
    /\ wait' = [wait EXCEPT !["time"] = "out"]
    /\ UNCHANGED <<sup, netVars, seen, lock, waker, reference, clock, syncs>>

Truth(t) == (BootTime + t) \div TicksPerSec

\* Slip: the instant is the one at which the server was asked.
captured_early(stamp) == [unix_secs |-> Truth(stamp), captured_at |-> ntp.sent]

\* The seconds the server put into its answer, with the instant of its arrival.
Captured(stamp) == [unix_secs |-> Truth(stamp), captured_at |-> clock]

\* The server wrote its answer at some instant since it was asked.
NtpAnswers ==
    /\ ntp.pc = "asking" /\ config /\ link /\ syncs < MaxSyncs
    /\ \E stamp \in ntp.sent .. clock : reference' = Captured(stamp)
    /\ ntp' = [ntp EXCEPT !.pc = "sleeping"]
    /\ syncs' = syncs + 1
    /\ UNCHANGED <<sup, netVars, waitVars, clock>>

\* Slip: after the last server the loop starts over without a new wait.
last_server_gives_up == IF ntp.server < ServerCount THEN [ntp EXCEPT !.server = @ + 1, !.sent = clock]
                        ELSE [ntp EXCEPT !.pc = "network"]

\* The next server; after the last one the task sleeps and starts over.
NextServer == IF ntp.server < ServerCount THEN [ntp EXCEPT !.server = @ + 1, !.sent = clock]
              ELSE [ntp EXCEPT !.pc = "sleeping"]

NtpFails ==
    /\ ntp.pc = "asking"
    /\ ntp' = NextServer
    /\ UNCHANGED <<sup, netVars, waitVars, reference, clock, syncs>>

\* The request or its answer is lost on the way: get_time waits for it without
\* a timeout, and the task asks nobody any more.
NtpLost ==
    /\ ntp.pc = "asking"
    /\ ntp' = [ntp EXCEPT !.pc = "lost"]
    /\ UNCHANGED <<sup, netVars, waitVars, reference, clock, syncs>>

\* 10 s until the first answer, RESYNC_INTERVAL_SECS from then on.
NtpWakes ==
    /\ ntp.pc = "sleeping"
    /\ ntp' = [ntp EXCEPT !.pc = "network"]
    /\ wait' = [wait EXCEPT !["time"] = Entered("time")]
    /\ UNCHANGED <<sup, netVars, seen, lock, waker, reference, clock, syncs>>

(***************************************************************************)
(* The reference in use.  Both subtractions are of whole seconds.          *)
(***************************************************************************)
now_unix_secs(r, now) == r.unix_secs + (now - r.captured_at) \div TicksPerSec

as_unix_secs(r, t) ==
    IF t >= r.captured_at THEN r.unix_secs + (t - r.captured_at) \div TicksPerSec
    ELSE IF r.unix_secs >= (r.captured_at - t) \div TicksPerSec
         THEN r.unix_secs - (r.captured_at - t) \div TicksPerSec ELSE 0

(***************************************************************************)
(* Access point, DHCP server and clock.                                    *)
(***************************************************************************)
\* A lease comes while the link is up; the wake-up goes to the last waiter.
ConfigComes ==
    /\ link /\ ~config
    /\ config' = TRUE
    /\ wait' = WokenBy(wait) /\ waker' = Nobody
    /\ UNCHANGED <<sup, link, drops, seen, lock, timeVars, clock>>

\* The link is lost, and with it a leased address.
LinkDrops ==
    /\ link /\ drops < MaxDrops
    /\ link' = FALSE /\ config' = StaticIp /\ drops' = drops + 1
    /\ UNCHANGED <<sup, waitVars, timeVars, clock>>

\* The clock matters while a server is asked, and once there is a reference.
Tick ==
    /\ clock < MaxClock
    /\ IF ntp.pc = "asking" THEN clock - ntp.sent < MaxDelay ELSE reference # NoReference
    /\ clock' = clock + 1
    /\ UNCHANGED <<sup, netVars, waitVars, timeVars>>

Next ==
    \/ \E t \in Tasks : Locks(t) \/ WaitPolls(t)
    \/ \E t \in Clients : ClientAsks(t) \/ ClientLeaves(t)
    \/ \E ok \in BOOLEAN : SupConfigures(ok) \/ NtpStarts(ok)
    \/ SupConnects \/ SupConnectFails \/ SupRetries \/ SupHasIp \/ SupMonitors
    \/ NtpAnswers \/ NtpFails \/ NtpLost \/ NtpWakes
    \/ ConfigComes \/ LinkDrops \/ Tick

\* Tasks run and timers fire.  An access point that is asked again and again
\* answers at last, and so does the DHCP server while the link is up.  A time
\* server answers at last, too, unless the request or the answer is lost; that
\* requests end by themselves is not assumed.  The lock is fair: its waiters
\* are served in order.
Fairness ==
    /\ \A t \in Tasks : SF_vars(Locks(t)) /\ WF_vars(WaitPolls(t))
    /\ WF_vars(SupRetries) /\ WF_vars(SupHasIp) /\ WF_vars(SupMonitors)
    /\ SF_vars(SupConfigures(TRUE)) /\ SF_vars(SupConnects)
    /\ SF_vars(NtpStarts(TRUE)) /\ SF_vars(NtpAnswers) /\ WF_vars(NtpWakes)
    /\ SF_vars(ConfigComes)

Spec == Init /\ [][Next]_vars /\ Fairness

(***************************************************************************)
(* Properties.                                                             *)
(***************************************************************************)
\* "embassy-net uses a single state waker for config waits; serialize callers
\* here": a task asleep in wait_config_up is the one the stack will wake, and
\* no configuration is there that it missed.
AsleepIsRegistered ==
    \A t \in Tasks : wait[t] = "asleep" => waker = t /\ lock = t /\ ~config

\* A time derived from the reference is behind the true time by no more than
\* the answer's delay and two seconds; it is never ahead of it, but for an
\* instant before the reference was taken, and then by a second at most.
TimestampsTrue ==
    reference # NoReference =>
        \A t \in 0 .. clock :
            LET behind == Truth(t) - as_unix_secs(reference, t) IN
            /\ behind >= IF t < reference.captured_at THEN -1 ELSE 0
            /\ behind <= MaxDelay \div TicksPerSec + 2
            /\ t = clock => now_unix_secs(reference, t) = as_unix_secs(reference, t)

\* The link was lost while the supervisor waited for an address: the wait has
\* no timeout and no look at the link, nobody makes it again, and no address
\* comes without it.  There is no way out of such a state.
Stranded == sup = "ip" /\ wait["sup"] # "done" /\ ~link /\ ~config

\* Whoever asks for the network gets it, whatever the order of lost links,
\* leases and other tasks' waits - no wake-up is lost and no lock is kept -
\* unless the supervisor is stranded: the one way in which a wait for the
\* configuration may have no end.
EveryWaitEnds ==
    \A t \in Tasks :
        wait[t] \in {"locking", "polling", "asleep"} ~> wait[t] = "done" \/ Stranded

\* "A dedicated supervisor task handles connect/reconnect loops": a lost link
\* is made again.  It is not when it is lost while the supervisor waits for an
\* address that only a new link could bring.
LinkIsMadeAgain == ~link ~> link

\* The device gets the time, however often servers refuse and the link is lost
\* and made again, but for the two waits without a timeout: get_time's for an
\* answer that was lost, and the supervisor's for an address without a link.
TimeIsSet == <>(reference # NoReference \/ ntp.pc = "lost" \/ Stranded)
=============================================================================
