-------------------------- MODULE WifiTime_proofs --------------------------
(***************************************************************************)
(* No waiter is forgotten by the stack's single waker, and the time is     *)
(* right, for any number of tasks, servers, lost links and answers.        *)
(***************************************************************************)
EXTENDS WifiTime, TLAPS

NtpType == [pc : {"network", "asking", "lost", "sleeping"}, server : Nat, sent : Nat]
WaitState == {"out", "locking", "polling", "asleep", "done"}

NetType ==
  /\ sup \in {"configuring", "connecting", "backoff", "ip", "monitoring",
              "reconnecting", "reBackoff"}
  /\ wait \in [Tasks -> WaitState]
  /\ waker \in Tasks \cup {Nobody} /\ lock \in Tasks \cup {Nobody}
  /\ config \in BOOLEAN /\ seen \in BOOLEAN /\ clock \in Nat
  /\ ntp \in NtpType

\* Only the holder of the lock polls or sleeps, the sleeper is registered, and
\* the two tasks that wait as a part of a longer loop wait nowhere else in it.
WaitInv ==
  /\ NetType
  /\ StaticIp => config
  /\ \A t \in Tasks : wait[t] \in {"polling", "asleep"} => lock = t
  /\ \A t \in Tasks : wait[t] = "asleep" => waker = t /\ ~config
  /\ sup # "ip" => wait["sup"] = "out"
  /\ ntp.pc # "network" => wait["time"] = "out"

\* The supervisor, the time task and the clients are different tasks.
LEMMA TaskFacts ==
  "sup" \in Tasks /\ "time" \in Tasks /\ Nobody \notin Tasks /\ Clients \subseteq Tasks
  /\ "sup" \notin Clients /\ "time" \notin Clients
BY WifiTimeAssumption DEF Tasks, Nobody

\* The next server is asked now, or the loop sleeps.
LEMMA NextServerFacts ==
  ASSUME ntp \in NtpType, clock \in Nat, ntp.pc = "asking"
  PROVE  /\ NextServer \in NtpType /\ NextServer.pc \in {"asking", "sleeping"}
         /\ NextServer.pc = "asking" => NextServer.sent = clock
<1>1. CASE ntp.server < ServerCount
  <2>1. NextServer = [ntp EXCEPT !.server = ntp.server + 1, !.sent = clock]
    BY <1>1 DEF NextServer
  <2>2. ntp.server + 1 \in Nat
    BY DEF NtpType
  <2>. QED
    BY <2>1, <2>2 DEF NtpType
<1>2. CASE ~(ntp.server < ServerCount)
  BY <1>2 DEF NextServer, NtpType
<1>. QED
  BY <1>1, <1>2

\* Every step keeps the sleeper registered with the stack and holding the lock.
LEMMA WaitStep ==
  ASSUME WaitInv, [Next]_vars
  PROVE  WaitInv'
<1>. USE TaskFacts, WifiTimeAssumption
     DEF WaitInv, NetType, NtpType, WaitState, netVars, waitVars, timeVars, Entered
<1>1. ASSUME NEW t \in Tasks, Locks(t) PROVE WaitInv'
  BY <1>1 DEF Locks, WaitLocks
<1>2. ASSUME NEW t \in Tasks, WaitPolls(t) PROVE WaitInv'
  BY <1>2 DEF WaitPolls
<1>3. ASSUME NEW t \in Clients, ClientAsks(t) \/ ClientLeaves(t) PROVE WaitInv'
  BY <1>3 DEF ClientAsks, ClientLeaves
<1>4. ASSUME NEW ok \in BOOLEAN, SupConfigures(ok) PROVE WaitInv'
  BY <1>4 DEF SupConfigures
<1>5. CASE SupConnects
  BY <1>5 DEF SupConnects
<1>6. CASE SupConnectFails \/ SupRetries \/ SupMonitors
  BY <1>6 DEF SupConnectFails, SupRetries, SupMonitors, Monitors
<1>7. CASE SupHasIp
  BY <1>7 DEF SupHasIp
<1>8. CASE NtpAnswers
  BY <1>8 DEF NtpAnswers
<1>9. CASE NtpFails
  <2>1. ntp' \in NtpType /\ ntp'.pc # "network" /\ ntp.pc # "network"
    BY <1>9, NextServerFacts DEF NtpFails
  <2>. QED
    BY <1>9, <2>1 DEF NtpFails
<1>10. CASE NtpWakes
  BY <1>10 DEF NtpWakes
<1>11. CASE ConfigComes
  BY <1>11 DEF ConfigComes, WokenBy
<1>12. CASE LinkDrops
  BY <1>12 DEF LinkDrops
<1>13. CASE Tick
  BY <1>13 DEF Tick
<1>14. ASSUME NEW ok \in BOOLEAN, NtpStarts(ok) PROVE WaitInv'
  BY <1>14 DEF NtpStarts
<1>15. CASE NtpLost
  BY <1>15 DEF NtpLost
<1>16. CASE UNCHANGED vars
  BY <1>16 DEF vars
<1>. QED
  BY <1>1, <1>2, <1>3, <1>4, <1>5, <1>6, <1>7, <1>8, <1>9, <1>10, <1>11, <1>12, <1>13,
     <1>14, <1>15, <1>16 DEF Next

\* Whoever sleeps in wait_config_up holds the lock, is the one the stack will
\* wake, and has not missed a configuration: for any number of tasks.
THEOREM SleeperIsRegistered == Spec => []AsleepIsRegistered
<1>1. Init => WaitInv
  <2>. SUFFICES ASSUME Init PROVE WaitInv
    OBVIOUS
  <2>1. wait \in [Tasks -> WaitState] /\ wait["sup"] = "out"
        /\ \A t \in Tasks : wait[t] \in {"out", "locking"}
    BY TaskFacts DEF Init, WaitState
  <2>. QED
    BY <2>1, WifiTimeAssumption DEF Init, WaitInv, NetType, NtpType
<1>2. WaitInv => AsleepIsRegistered
  BY DEF WaitInv, AsleepIsRegistered
<1>. QED
  BY <1>1, <1>2, WaitStep, PTL DEF Spec
----------------------------------------------------------------------------
(* Time.                                                                   *)

\* What rounding down to whole seconds means.
LEMMA Floor ==
  ASSUME NEW a \in Int, NEW k \in Nat \ {0}
  PROVE  a \div k \in Int /\ (a \div k) * k <= a /\ a < (a \div k) * k + k
OBVIOUS

\* Whole seconds of a natural number are a natural number.
LEMMA Division ==
  ASSUME NEW a \in Nat, NEW k \in Nat \ {0}
  PROVE  a \div k \in Nat
OBVIOUS

\* Multiples less than one factor apart the wrong way are in order.
LEMMA LessByFactor ==
  ASSUME NEW x \in Int, NEW y \in Int, NEW k \in Nat \ {0}, x * k < y * k + k
  PROVE  x <= y
OBVIOUS

\* Products with a common factor.
LEMMA Multiples ==
  ASSUME NEW x \in Int, NEW y \in Int, NEW k \in Nat \ {0}
  PROVE  /\ x * k \in Int /\ y * k \in Int
         /\ (x + y) * k = x * k + y * k /\ (x - y) * k = x * k - y * k
         /\ (x + 1) * k = x * k + k /\ (x + 2) * k = x * k + k + k
OBVIOUS

\* Whole seconds of a sum are the sum of the whole seconds, or one more.
LEMMA SumOfSeconds ==
  ASSUME NEW a \in Int, NEW b \in Int, NEW k \in Nat \ {0}
  PROVE  /\ a \div k + b \div k <= (a + b) \div k
         /\ (a + b) \div k <= a \div k + b \div k + 1
<1>. DEFINE p == a \div k
            q == b \div k
            s == (a + b) \div k
<1>1. /\ p \in Int /\ q \in Int /\ s \in Int
      /\ p * k <= a /\ a < p * k + k
      /\ q * k <= b /\ b < q * k + k
      /\ s * k <= a + b /\ a + b < s * k + k
  BY Floor
<1>. HIDE DEF p, q, s
<1>2. (p + q) * k = p * k + q * k /\ p * k \in Int /\ q * k \in Int /\ s * k \in Int
  BY <1>1, Multiples
<1>3. p + q <= s
  <2>1. (p + q) * k < s * k + k
    BY <1>1, <1>2
  <2>. QED
    BY <1>1, <2>1, LessByFactor
<1>4. s <= p + q + 1
  <2>1. (p + q + 1) * k = (p + q) * k + k
    BY <1>1, Multiples
  <2>2. s * k < (p + q + 1) * k + k
    BY <1>1, <1>2, <2>1
  <2>. QED
    BY <1>1, <2>2, LessByFactor
<1>. QED
  BY <1>3, <1>4 DEF p, q, s

\* A later instant has no fewer whole seconds.
LEMMA SecondsGrow ==
  ASSUME NEW a \in Int, NEW b \in Int, a <= b, NEW k \in Nat \ {0}
  PROVE  a \div k <= b \div k
<1>. DEFINE p == a \div k
            q == b \div k
<1>1. p \in Int /\ q \in Int /\ p * k <= a /\ b < q * k + k
  BY Floor
<1>. HIDE DEF p, q
<1>2. p * k \in Int /\ q * k \in Int
  BY <1>1, Multiples
<1>3. p * k < q * k + k
  BY <1>1, <1>2
<1>. QED
  BY <1>1, <1>3, LessByFactor DEF p, q

\* What the reference was made from: an answer written at some instant after
\* the question and received within MaxDelay.
StampedBy(r, stamp) ==
  /\ stamp \in Nat /\ r.captured_at \in Nat /\ r.captured_at <= clock
  /\ stamp <= r.captured_at /\ r.captured_at - stamp <= MaxDelay
  /\ r.unix_secs = Truth(stamp)

TimeInv ==
  /\ clock \in Nat
  /\ ntp \in NtpType
  /\ ntp.pc = "asking" => ntp.sent <= clock /\ clock - ntp.sent <= MaxDelay
  /\ reference # NoReference => \E stamp \in Nat : StampedBy(reference, stamp)

\* An instant after the capture: rounding twice loses at most two seconds.
LEMMA LaterInstant ==
  ASSUME NEW a \in Nat, NEW b \in Nat, NEW e \in Nat, NEW d \in Nat, e <= d,
         NEW k \in Nat \ {0}
  PROVE  /\ (a + b + e) \div k - (a \div k + b \div k) >= 0
         /\ (a + b + e) \div k - (a \div k + b \div k) <= d \div k + 2
<1>1. a + b \in Int
  OBVIOUS
<1>2. /\ a \div k + b \div k <= (a + b) \div k
      /\ (a + b) \div k <= a \div k + b \div k + 1
  BY SumOfSeconds
<1>3. /\ (a + b) \div k + e \div k <= (a + b + e) \div k
      /\ (a + b + e) \div k <= (a + b) \div k + e \div k + 1
  BY <1>1, SumOfSeconds
<1>4. 0 <= e \div k /\ e \div k <= d \div k
  BY SecondsGrow, Division
<1>5. /\ a \div k \in Int /\ b \div k \in Int /\ (a + b) \div k \in Int
      /\ e \div k \in Int /\ (a + b + e) \div k \in Int /\ d \div k \in Int
  BY <1>1, Floor
<1>. QED
  BY <1>2, <1>3, <1>4, <1>5

\* An instant before the capture: saturating subtraction, at most one second ahead.
LEMMA EarlierInstant ==
  ASSUME NEW a \in Nat, NEW p \in Nat, NEW e \in Nat, NEW d \in Nat, e <= d,
         a - p + e >= 0, NEW k \in Nat \ {0}
  PROVE  LET shown == IF a \div k >= p \div k THEN a \div k - p \div k ELSE 0 IN
         /\ (a - p + e) \div k - shown >= -1
         /\ (a - p + e) \div k - shown <= d \div k + 2
<1>1. a - p \in Int /\ a - p + e \in Nat
  OBVIOUS
<1>2. /\ (a - p) \div k + p \div k <= (a - p + p) \div k
      /\ (a - p + p) \div k <= (a - p) \div k + p \div k + 1
  BY <1>1, SumOfSeconds
<1>3. a - p + p = a
  OBVIOUS
<1>4. /\ (a - p) \div k + e \div k <= (a - p + e) \div k
      /\ (a - p + e) \div k <= (a - p) \div k + e \div k + 1
  BY <1>1, SumOfSeconds
<1>5. 0 <= e \div k /\ e \div k <= d \div k /\ 0 <= (a - p + e) \div k
  BY <1>1, SecondsGrow, Division
<1>6. /\ a \div k \in Int /\ p \div k \in Int /\ (a - p) \div k \in Int
      /\ e \div k \in Int /\ (a - p + e) \div k \in Int /\ d \div k \in Int
  BY <1>1, Floor
<1>. QED
  BY <1>2, <1>3, <1>4, <1>5, <1>6

\* A reference stamped by a server tells the time of any instant up to now.
LEMMA StampedIsTrue ==
  ASSUME TimeInv, NEW stamp \in Nat, StampedBy(reference, stamp), NEW t \in 0 .. clock
  PROVE  LET behind == Truth(t) - as_unix_secs(reference, t) IN
         /\ behind >= IF t < reference.captured_at THEN -1 ELSE 0
         /\ behind <= MaxDelay \div TicksPerSec + 2
         /\ t = clock => now_unix_secs(reference, t) = as_unix_secs(reference, t)
<1>. DEFINE k == TicksPerSec
            c == reference.captured_at
            a == BootTime + stamp
            e == c - stamp
<1>1. /\ k \in Nat \ {0} /\ MaxDelay \in Nat /\ BootTime \in Nat /\ clock \in Nat
      /\ stamp \in Nat /\ c \in Nat /\ e \in Nat /\ e <= MaxDelay /\ a \in Nat /\ t \in Nat
      /\ c <= clock /\ t <= clock /\ reference.unix_secs = a \div k
  BY WifiTimeAssumption DEF TimeInv, StampedBy, Truth
<1>2. BootTime + t = a + (t - c) + e /\ BootTime + t = a - (c - t) + e
  <2>1. \A x, y, z, w \in Int : /\ x + y = x + z + (y - w) + (w - z)
                              /\ x + y = x + z - (w - y) + (w - z)
    OBVIOUS
  <2>2. BootTime \in Int /\ t \in Int /\ stamp \in Int /\ c \in Int
    BY <1>1
  <2>. HIDE DEF c
  <2>. QED
    BY <2>1, <2>2
<1>. HIDE DEF a, e
<1>3. CASE t >= c
  <2>1. t - c \in Nat
    BY <1>1, <1>3
  <2>2. Truth(t) = (a + (t - c) + e) \div k
    BY <1>2 DEF Truth
  <2>3. as_unix_secs(reference, t) = a \div k + (t - c) \div k
        /\ now_unix_secs(reference, t) = as_unix_secs(reference, t)
    BY <1>1, <1>3 DEF as_unix_secs, now_unix_secs
  <2>4. /\ Truth(t) - as_unix_secs(reference, t) >= 0
        /\ Truth(t) - as_unix_secs(reference, t) <= MaxDelay \div k + 2
    BY <1>1, <2>1, <2>2, <2>3, LaterInstant
  <2>5. ~(t < c)
    BY <1>1, <1>3
  <2>. QED
    BY <2>3, <2>4, <2>5
<1>4. CASE t < c
  <2>1. c - t \in Nat /\ a - (c - t) + e >= 0 /\ t # clock
    BY <1>1, <1>2, <1>4
  <2>2. Truth(t) = (a - (c - t) + e) \div k
    BY <1>2 DEF Truth
  <2>3. as_unix_secs(reference, t) =
          IF a \div k >= (c - t) \div k THEN a \div k - (c - t) \div k ELSE 0
    BY <1>1, <1>4 DEF as_unix_secs
  <2>4. /\ Truth(t) - as_unix_secs(reference, t) >= -1
        /\ Truth(t) - as_unix_secs(reference, t) <= MaxDelay \div k + 2
    BY <1>1, <2>1, <2>2, <2>3, EarlierInstant
  <2>. QED
    BY <1>4, <2>1, <2>4
<1>. QED
  BY <1>1, <1>3, <1>4

\* Every step keeps the reference within the delay of one answer.
LEMMA TimeStep ==
  ASSUME TimeInv, [Next]_vars
  PROVE  TimeInv'
<1>. USE WifiTimeAssumption DEF TimeInv, NtpType, netVars, waitVars, timeVars
<1>1. CASE UNCHANGED <<ntp, reference, clock>>
  BY <1>1 DEF StampedBy, Truth
<1>2. ASSUME NEW ok \in BOOLEAN, NtpStarts(ok) PROVE TimeInv'
  BY <1>2 DEF NtpStarts, StampedBy, Truth
<1>3. CASE NtpAnswers
  <2>1. PICK stamp \in ntp.sent .. clock : reference' = Captured(stamp)
    BY <1>3 DEF NtpAnswers
  <2>2. /\ ntp' = [ntp EXCEPT !.pc = "sleeping"] /\ clock' = clock
        /\ ntp.sent <= clock /\ clock - ntp.sent <= MaxDelay /\ ntp.sent \in Nat
    BY <1>3 DEF NtpAnswers
  <2>3. stamp \in Nat /\ stamp <= clock /\ clock - stamp <= MaxDelay
    BY <2>2
  <2>4. StampedBy(reference, stamp)'
    BY <2>1, <2>2, <2>3 DEF StampedBy, Captured, Truth
  <2>. QED
    BY <2>2, <2>3, <2>4
<1>4. CASE NtpFails
  <2>1. ntp' \in NtpType /\ (ntp'.pc = "asking" => ntp'.sent = clock)
    BY <1>4, NextServerFacts DEF NtpFails
  <2>. QED
    BY <1>4, <2>1 DEF NtpFails, NtpType, StampedBy, Truth
<1>5. CASE NtpWakes
  BY <1>5 DEF NtpWakes, StampedBy, Truth
<1>6. CASE NtpLost
  BY <1>6 DEF NtpLost, StampedBy, Truth
<1>7. CASE Tick
  <2>1. clock' = clock + 1 /\ UNCHANGED <<ntp, reference>>
        /\ (ntp.pc = "asking" => clock - ntp.sent < MaxDelay)
    BY <1>7 DEF Tick
  <2>2. \A stamp \in Nat : StampedBy(reference, stamp) => StampedBy(reference, stamp)'
    BY <2>1 DEF StampedBy, Truth
  <2>. QED
    BY <2>1, <2>2
<1>. QED
  BY <1>1, <1>2, <1>3, <1>4, <1>5, <1>6, <1>7 DEF Next, vars, Locks, WaitPolls, ClientAsks,
     ClientLeaves, SupConfigures, SupConnects, SupConnectFails, SupRetries, SupHasIp,
     SupMonitors, ConfigComes, LinkDrops

\* The time shown is right to the delay of the answer and two seconds, however
\* long ago the reference was taken and for whatever instant it is asked.
THEOREM TimeIsTrue == Spec => []TimestampsTrue
<1>1. Init => TimeInv
  BY DEF Init, TimeInv, NtpType
<1>2. TimeInv => TimestampsTrue
  <2>. SUFFICES ASSUME TimeInv, reference # NoReference, NEW t \in 0 .. clock
                PROVE  LET behind == Truth(t) - as_unix_secs(reference, t) IN
                       /\ behind >= IF t < reference.captured_at THEN -1 ELSE 0
                       /\ behind <= MaxDelay \div TicksPerSec + 2
                       /\ t = clock =>
                            now_unix_secs(reference, t) = as_unix_secs(reference, t)
    BY DEF TimestampsTrue
  <2>1. PICK stamp \in Nat : StampedBy(reference, stamp)
    BY DEF TimeInv
  <2>. QED
    BY <2>1, StampedIsTrue
<1>. QED
  BY <1>1, <1>2, TimeStep, PTL DEF Spec
============================================================================
