-------------------------- MODULE RateLimitProofs --------------------------
(***************************************************************************)
(* Proofs about RateLimit, for every set of clients, window, limit and     *)
(* second.                                                                 *)
(***************************************************************************)
EXTENDS RateLimit, SequenceTheorems, TLAPS

-----------------------------------------------------------------------------
(* The inductive invariant.                                                *)

\* An admission lies in its window, windows of one client do not overlap, and
\* of Limit + 1 admissions in a row the last is in a later window than the first.
LogOK(log) ==
    /\ \A i \in 1..Len(log) :
           log[i].at < log[i].windowEnd /\ log[i].windowEnd <= log[i].at + WindowMs
    /\ \A i, j \in 1..Len(log) :
           j >= i + Limit => log[j].windowEnd >= log[i].windowEnd + WindowMs
    /\ \A i, j \in 1..Len(log) :
           j >= i => \/ log[j].windowEnd = log[i].windowEnd
                     \/ log[j].windowEnd >= log[i].windowEnd + WindowMs

\* The window in the map against the log: no later window was ever counted in,
\* and what was admitted in this one is among the last `count` entries.
WindowOK(w, log) ==
    /\ w.resetAt <= now + WindowMs
    /\ \A i \in 1..Len(log) :
           \/ log[i].windowEnd = w.resetAt /\ i > Len(log) - w.count
           \/ log[i].windowEnd + WindowMs <= w.resetAt

\* A client without a window has no admission in one that is still open.
ClosedLog(log) == \A i \in 1..Len(log) : log[i].windowEnd <= now

LogInv ==
    \A c \in Clients :
        /\ LogOK(admitted[c])
        /\ windows[c] = None => ClosedLog(admitted[c])
        /\ windows[c] # None => WindowOK(windows[c], admitted[c])

\* A sweep leaves only windows that end after it, and each is as long as a window.
SweepInv ==
    /\ lastRequest < nextSweep \/ \A c \in Clients : windows[c] = None
    /\ \A c \in Clients : windows[c] # None => windows[c].resetAt + WindowMs > nextSweep

\* A client that was refused may come back when its window is over, or later.
WaitInv ==
    \A c \in Clients :
        waitUntil[c] # 0 /\ windows[c] # None => windows[c].resetAt <= waitUntil[c]

IInv == TypeOK /\ LogInv /\ SweepInv /\ WaitInv

-----------------------------------------------------------------------------
(* What the operators give.                                                *)

\* Retry-After is never less than the rest of the window.
LEMMA RetryAfterCovers ==
    ASSUME NEW w \in Window, now \in Nat, now < w.resetAt
    PROVE  RetryAfter(w) \in Nat /\ RetryAfter(w) >= w.resetAt - now /\ RetryAfter(w) > 0
<1> DEFINE d == w.resetAt - now
           s == (d + Second - 1) \div Second
<1>1. d \in Nat /\ d > 0 /\ Second \in Nat /\ Second > 0
  BY SettingsPositive DEF Window
<1>2. s \in Int /\ Second * s > d - 1
  <2> HIDE DEF d
  <2> QED BY <1>1
<1>3. s > 0
  <2> HIDE DEF d
  <2> QED BY <1>1, <1>2
<1>4. Second * s >= d /\ Second * s \in Nat
  <2> HIDE DEF d, s
  <2> QED BY <1>1, <1>2, <1>3
<1>5. CASE s > 1
  BY <1>1, <1>4, <1>5 DEF RetryAfter, Window
<1>6. CASE ~(s > 1)
  <2>1. s = 1
    BY <1>2, <1>3, <1>6
  <2> QED BY <1>1, <1>4, <1>6, <2>1 DEF RetryAfter, Window
<1> QED BY <1>5, <1>6

\* A request is counted in a window that is open and no longer than a window,
\* against a log that has no later window and fewer admissions in this one.
LEMMA CountedFits ==
    ASSUME IInv, NEW c \in Clients
    PROVE  /\ Counted(c) \in Window
           /\ now < Counted(c).resetAt /\ Counted(c).resetAt <= now + WindowMs
           /\ \A i \in 1..Len(admitted[c]) :
                  \/ /\ admitted[c][i].windowEnd = Counted(c).resetAt
                     /\ i > Len(admitted[c]) - (Counted(c).count - 1)
                  \/ admitted[c][i].windowEnd + WindowMs <= Counted(c).resetAt
<1> DEFINE w == Swept[c]
           log == admitted[c]
<1>0. now \in Nat /\ WindowMs \in Nat /\ WindowMs > 0
  BY SettingsPositive, BoundsNat DEF IInv, TypeOK
<1>1. log \in Seq(Admission) /\ windows[c] \in Window \cup {None}
  BY DEF IInv, TypeOK
<1>entries. \A i \in 1..Len(log) : log[i].windowEnd \in Nat
  <2>1. \A i \in 1..Len(log) : log[i] \in Admission
    BY <1>1, ElementOfSeq
  <2> QED BY <2>1 DEF Admission
<1>len. Len(log) \in Nat
  BY <1>1
<1>2. None \notin Window
  BY NoneIsNoWindow DEF Window
<1>3. w = windows[c] \/ w = None
  BY DEF Swept
<1>4. w = None => ClosedLog(log)
  <2>1. CASE windows[c] = None
    BY <2>1 DEF IInv, LogInv
  <2>2. CASE windows[c] # None /\ w = None
    <3>1. Expired(windows[c])
      BY <2>2 DEF Swept
    <3>2. WindowOK(windows[c], log) /\ windows[c] \in Window
      BY <2>2, <1>1 DEF IInv, LogInv
    <3> HIDE DEF log
      <3> QED BY <3>1, <3>2, <1>0, <1>entries, <1>len DEF Expired, WindowOK, ClosedLog, Window
  <2> QED BY <1>3, <2>1, <2>2
<1>5. CASE w = None \/ Expired(w)
  <2>1. Counted(c) = [count |-> 1, resetAt |-> now + WindowMs]
    BY <1>5 DEF Counted
  <2>2. ClosedLog(log)
    <3>1. CASE w # None
      <4>1. w = windows[c] /\ w \in Window /\ WindowOK(w, log) /\ w.resetAt <= now
        BY <3>1, <1>1, <1>3, <1>5, <1>0 DEF IInv, LogInv, Expired, Window
      <4> HIDE DEF w, log
      <4> QED BY <4>1, <1>0, <1>entries, <1>len DEF WindowOK, ClosedLog, Window
    <3> QED BY <1>4, <3>1
  <2>3. \A i \in 1..Len(log) : log[i].windowEnd + WindowMs <= now + WindowMs
    BY <2>2, <1>0, <1>entries DEF ClosedLog
  <2> QED BY <2>1, <2>3, <1>0 DEF Window
<1>6. CASE ~(w = None \/ Expired(w))
  <2>1. Counted(c) = [w EXCEPT !.count = @ + 1]
    BY <1>6 DEF Counted
  <2>2. w = windows[c] /\ w \in Window /\ WindowOK(w, log) /\ ~(now >= w.resetAt)
    BY <1>6, <1>1, <1>3 DEF IInv, LogInv, Expired
  <2>3. Counted(c) \in Window /\ Counted(c).resetAt = w.resetAt /\ Counted(c).count = w.count + 1
    BY <2>1, <2>2 DEF Window
  <2> HIDE DEF w
  <2> QED BY <2>2, <2>3, <1>0, <1>1 DEF WindowOK, Window, Admission
<1> QED BY <1>5, <1>6

\* Admitting one more request in such a window keeps the log as it should be.
LEMMA AdmissionFits ==
    ASSUME now \in Nat, NEW log \in Seq(Admission), LogOK(log), NEW w \in Window,
           now < w.resetAt, w.resetAt <= now + WindowMs, w.count <= Limit,
           \A i \in 1..Len(log) :
               \/ log[i].windowEnd = w.resetAt /\ i > Len(log) - (w.count - 1)
               \/ log[i].windowEnd + WindowMs <= w.resetAt
    PROVE  LET longer == Append(log, [at |-> now, windowEnd |-> w.resetAt])
           IN longer \in Seq(Admission) /\ LogOK(longer) /\ WindowOK(w, longer)
<1> DEFINE e == [at |-> now, windowEnd |-> w.resetAt]
           longer == Append(log, e)
<1>1. e \in Admission /\ WindowMs \in Nat /\ WindowMs > 0 /\ Limit \in Nat /\ Limit > 0
  BY SettingsPositive DEF Admission, Window
<1>2. longer \in Seq(Admission) /\ Len(longer) = Len(log) + 1 /\ Len(log) \in Nat
  BY <1>1
<1>3. \A i \in 1..Len(longer) : longer[i] = (IF i = Len(log) + 1 THEN e ELSE log[i])
  BY <1>1, <1>2
<1>4. \A i \in 1..Len(log) : log[i].at \in Nat /\ log[i].windowEnd \in Nat
  <2>1. \A i \in 1..Len(log) : log[i] \in Admission
    BY ElementOfSeq
  <2> QED BY <2>1 DEF Admission
<1>5. e.at = now /\ e.windowEnd = w.resetAt /\ w.resetAt \in Nat /\ w.count \in Nat
  BY DEF Window
<1> HIDE DEF e, longer
<1>6. \A i \in 1..Len(longer) :
          longer[i].at < longer[i].windowEnd /\ longer[i].windowEnd <= longer[i].at + WindowMs
  <2> SUFFICES ASSUME NEW i \in 1..Len(longer)
               PROVE  longer[i].at < longer[i].windowEnd /\ longer[i].windowEnd <= longer[i].at + WindowMs
    OBVIOUS
  <2>1. CASE i = Len(log) + 1
    BY <2>1, <1>2, <1>3, <1>5
  <2>2. CASE i # Len(log) + 1
    BY <2>2, <1>2, <1>3 DEF LogOK
  <2> QED BY <2>1, <2>2
<1>7. \A i, j \in 1..Len(longer) :
          j >= i + Limit => longer[j].windowEnd >= longer[i].windowEnd + WindowMs
  <2> SUFFICES ASSUME NEW i \in 1..Len(longer), NEW j \in 1..Len(longer), j >= i + Limit
               PROVE  longer[j].windowEnd >= longer[i].windowEnd + WindowMs
    OBVIOUS
  <2>1. i \in 1..Len(log) /\ longer[i] = log[i]
    BY <1>1, <1>2, <1>3
  <2>2. CASE j = Len(log) + 1
    <3>1. log[i].windowEnd + WindowMs <= w.resetAt
      BY <2>1, <2>2, <1>1, <1>2, <1>4, <1>5
    <3> QED BY <3>1, <2>1, <2>2, <1>3, <1>5
  <2>3. CASE j # Len(log) + 1
    BY <2>1, <2>3, <1>2, <1>3 DEF LogOK
  <2> QED BY <2>2, <2>3
<1>8. \A i, j \in 1..Len(longer) :
          j >= i => \/ longer[j].windowEnd = longer[i].windowEnd
                    \/ longer[j].windowEnd >= longer[i].windowEnd + WindowMs
  <2> SUFFICES ASSUME NEW i \in 1..Len(longer), NEW j \in 1..Len(longer), j >= i
               PROVE  \/ longer[j].windowEnd = longer[i].windowEnd
                      \/ longer[j].windowEnd >= longer[i].windowEnd + WindowMs
    OBVIOUS
  <2>1. CASE j # Len(log) + 1
    BY <2>1, <1>2, <1>3 DEF LogOK
  <2>2. CASE j = Len(log) + 1 /\ i # j
    <3>1. i \in 1..Len(log) /\ longer[i] = log[i]
      BY <2>2, <1>2, <1>3
    <3> QED BY <3>1, <2>2, <1>2, <1>3, <1>4, <1>5
  <2> QED BY <2>1, <2>2
<1>9. WindowOK(w, longer)
  <2>1. \A i \in 1..Len(longer) :
            \/ longer[i].windowEnd = w.resetAt /\ i > Len(longer) - w.count
            \/ longer[i].windowEnd + WindowMs <= w.resetAt
    <3> SUFFICES ASSUME NEW i \in 1..Len(longer)
                 PROVE  \/ longer[i].windowEnd = w.resetAt /\ i > Len(longer) - w.count
                        \/ longer[i].windowEnd + WindowMs <= w.resetAt
      OBVIOUS
    <3>1. CASE i = Len(log) + 1
      <4>1. w.count > 0
        BY DEF Window
      <4> QED BY <4>1, <3>1, <1>2, <1>3, <1>5
    <3>2. CASE i # Len(log) + 1
      BY <3>2, <1>2, <1>3, <1>5
    <3> QED BY <3>1, <3>2
  <2> QED BY <2>1 DEF WindowOK
<1> QED BY <1>2, <1>6, <1>7, <1>8, <1>9 DEF LogOK, longer, e

-----------------------------------------------------------------------------
(* Invariance.                                                             *)

LEMMA InitInv == Init => IInv
BY SettingsPositive, BoundsNat
   DEF Init, IInv, TypeOK, LogInv, LogOK, ClosedLog, SweepInv, WaitInv
LEMMA RequestInv == \A c \in Clients : IInv /\ Request(c) => IInv'
<1> SUFFICES ASSUME NEW c \in Clients, IInv, Request(c)
             PROVE  IInv'
  OBVIOUS
<1> DEFINE w == Counted(c)
           log == admitted[c]
           longer == Append(log, [at |-> now, windowEnd |-> w.resetAt])
<1>1. /\ now \in Nat /\ WindowMs \in Nat /\ WindowMs > 0 /\ Limit \in Nat /\ Limit > 0
      /\ nextSweep \in Nat /\ nextSweep <= now + WindowMs /\ now' = now
  BY SettingsPositive, BoundsNat DEF IInv, TypeOK, Request
<1>2. /\ w \in Window /\ now < w.resetAt /\ w.resetAt <= now + WindowMs
      /\ \A i \in 1..Len(log) :
             \/ log[i].windowEnd = w.resetAt /\ i > Len(log) - (w.count - 1)
             \/ log[i].windowEnd + WindowMs <= w.resetAt
  BY CountedFits
<1>3. /\ windows' = [Swept EXCEPT ![c] = w] /\ nextSweep' = NextSweep /\ lastRequest' = now
      /\ \/ /\ ~OverLimit(w)
            /\ admitted' = [admitted EXCEPT ![c] = longer]
            /\ waitUntil' = [waitUntil EXCEPT ![c] = 0]
         \/ /\ OverLimit(w)
            /\ waitUntil' = [waitUntil EXCEPT ![c] = now + RetryAfter(w)]
            /\ admitted' = admitted
  BY DEF Request
<1>4. RetryAfter(w) \in Nat /\ RetryAfter(w) >= w.resetAt - now
  BY <1>1, <1>2, RetryAfterCovers
<1>5. None \notin Window
  BY NoneIsNoWindow DEF Window
<1>6. /\ Swept \in [Clients -> Window \cup {None}]
      /\ \A d \in Clients : Swept[d] # None => Swept[d] = windows[d]
  BY <1>5 DEF Swept, IInv, TypeOK
<1>7. log \in Seq(Admission) /\ LogOK(log)
  BY DEF IInv, TypeOK, LogInv
<1> HIDE DEF w, log, longer
<1>8. ~OverLimit(w) => longer \in Seq(Admission) /\ LogOK(longer) /\ WindowOK(w, longer)
  <2> SUFFICES ASSUME w.count <= Limit
               PROVE  longer \in Seq(Admission) /\ LogOK(longer) /\ WindowOK(w, longer)
    BY <1>1, <1>2 DEF OverLimit, Window
  <2> QED BY <1>1, <1>2, <1>7, AdmissionFits DEF longer
<1>9. /\ windows' \in [Clients -> Window \cup {None}] /\ windows'[c] = w
      /\ \A d \in Clients \ {c} : windows'[d] = Swept[d]
  BY <1>2, <1>3, <1>6
<1>10. TypeOK'
  <2>1. nextSweep' \in 0..(now' + WindowMs)
    BY <1>1, <1>3 DEF NextSweep
  <2>2. admitted' \in [Clients -> Seq(Admission)]
    BY <1>3, <1>8 DEF IInv, TypeOK
  <2>3. waitUntil' \in [Clients -> Nat]
    <3>1. now + RetryAfter(w) \in Nat
      BY <1>1, <1>4
    <3>2. waitUntil \in [Clients -> Nat]
      BY DEF IInv, TypeOK
    <3>3. \E u \in Nat : waitUntil' = [waitUntil EXCEPT ![c] = u]
      BY <3>1, <1>3
    <3> QED BY <3>2, <3>3
  <2>4. now' \in 0..MaxTime /\ lastRequest' \in 0..now'
    BY <1>1, <1>3 DEF IInv, TypeOK
  <2> QED BY <2>1, <2>2, <2>3, <2>4, <1>9 DEF TypeOK
<1>11. LogInv'
  <2> SUFFICES ASSUME NEW d \in Clients
               PROVE  /\ LogOK(admitted'[d])
                      /\ windows'[d] = None => ClosedLog(admitted'[d])
                      /\ windows'[d] # None => WindowOK(windows'[d], admitted'[d])
    BY <1>1 DEF LogInv, ClosedLog, WindowOK
  <2>1. CASE d = c
    <3>1. CASE ~OverLimit(w)
      <4>1. admitted'[c] = longer
        BY <1>3, <3>1 DEF IInv, TypeOK
      <4> QED BY <4>1, <3>1, <2>1, <1>5, <1>2, <1>8, <1>9
    <3>2. CASE OverLimit(w)
      <4>1. admitted'[c] = log
        BY <1>3, <3>2 DEF log
      <4>2. WindowOK(w, log)
        <5>1. \A i \in 1..Len(log) : log[i].windowEnd \in Nat
          <6>1. \A i \in 1..Len(log) : log[i] \in Admission
            BY <1>7, ElementOfSeq
          <6> QED BY <6>1 DEF Admission
        <5>2. w.count \in Nat /\ w.resetAt \in Nat /\ Len(log) \in Nat
          BY <1>2, <1>7 DEF Window
        <5>3. \A i \in 1..Len(log) : i > Len(log) - (w.count - 1) => i > Len(log) - w.count
          BY <5>2
        <5> QED BY <1>2, <5>3 DEF WindowOK
      <4> QED BY <4>1, <4>2, <2>1, <1>2, <1>5, <1>7, <1>9
    <3> QED BY <3>1, <3>2
  <2>2. CASE d # c
    <3>1. admitted'[d] = admitted[d] /\ windows'[d] = Swept[d]
      BY <2>2, <1>3, <1>9 DEF IInv, TypeOK
    <3>2. LogOK(admitted[d]) /\ (windows[d] # None => WindowOK(windows[d], admitted[d]))
      BY DEF IInv, LogInv
    <3>3. Swept[d] = None => ClosedLog(admitted[d])
      <4>1. CASE windows[d] = None
        BY <4>1 DEF IInv, LogInv
      <4>2. CASE windows[d] # None /\ Swept[d] = None
        <5>1. Expired(windows[d]) /\ windows[d] \in Window
          BY <4>2 DEF Swept, IInv, TypeOK
        <5>2. \A i \in 1..Len(admitted[d]) : admitted[d][i].windowEnd \in Nat
          <6>1. admitted[d] \in Seq(Admission)
            BY DEF IInv, TypeOK
          <6>2. \A i \in 1..Len(admitted[d]) : admitted[d][i] \in Admission
            BY <6>1, ElementOfSeq
          <6> QED BY <6>2 DEF Admission
        <5> QED BY <5>1, <5>2, <4>2, <3>2, <1>1 DEF Expired, WindowOK, ClosedLog, Window
      <4> QED BY <4>1, <4>2
    <3> QED BY <3>1, <3>2, <3>3, <1>6
  <2> QED BY <2>1, <2>2
<1>12. SweepInv'
  <2>1. lastRequest' < nextSweep'
    BY <1>1, <1>3 DEF NextSweep
  <2>2. ASSUME NEW d \in Clients, windows'[d] # None
        PROVE  windows'[d].resetAt + WindowMs > nextSweep'
    <3>1. CASE d = c
      BY <3>1, <1>1, <1>2, <1>3, <1>9 DEF NextSweep, Window
    <3>2. CASE d # c
      <4>1. windows'[d] = windows[d] /\ windows[d] # None /\ windows[d] \in Window
        BY <3>2, <2>2, <1>6, <1>9
      <4>2. CASE now >= nextSweep
        <5>1. ~(now >= windows[d].resetAt)
          BY <4>1, <4>2, <3>2, <2>2, <1>9 DEF Swept, Expired
        <5> QED BY <5>1, <4>1, <4>2, <1>1, <1>3 DEF NextSweep, Window
      <4>3. CASE ~(now >= nextSweep)
        BY <4>1, <4>3, <1>3 DEF NextSweep, IInv, SweepInv
      <4> QED BY <4>2, <4>3
    <3> QED BY <3>1, <3>2
  <2> QED BY <2>1, <2>2 DEF SweepInv
<1>13. WaitInv'
  <2> SUFFICES ASSUME NEW d \in Clients, waitUntil'[d] # 0, windows'[d] # None
               PROVE  windows'[d].resetAt <= waitUntil'[d]
    BY DEF WaitInv
  <2>1. CASE d = c
    <3>1. waitUntil'[c] = now + RetryAfter(w)
      BY <2>1, <1>3 DEF IInv, TypeOK
    <3> QED BY <3>1, <2>1, <1>1, <1>2, <1>4, <1>9 DEF Window
  <2>2. CASE d # c
    <3>1. waitUntil'[d] = waitUntil[d] /\ windows'[d] = windows[d]
      BY <2>2, <1>3, <1>6, <1>9 DEF IInv, TypeOK
    <3> QED BY <3>1 DEF IInv, WaitInv
  <2> QED BY <2>1, <2>2
<1> QED BY <1>10, <1>11, <1>12, <1>13 DEF IInv

LEMMA TickInv == IInv /\ Tick => IInv'
<1> SUFFICES ASSUME IInv, Tick PROVE IInv'
  OBVIOUS
<1>1. /\ now \in Nat /\ now' = now + 1 /\ now' \in 0..MaxTime /\ WindowMs \in Nat
      /\ UNCHANGED <<windows, nextSweep, admitted, waitUntil, lastRequest>>
  BY SettingsPositive, BoundsNat DEF IInv, TypeOK, Tick
<1>2. TypeOK'
  BY <1>1 DEF IInv, TypeOK
<1>3. LogInv'
  <2> SUFFICES ASSUME NEW c \in Clients
               PROVE  /\ LogOK(admitted[c])
                      /\ windows[c] = None => ClosedLog(admitted[c])'
                      /\ windows[c] # None => WindowOK(windows[c], admitted[c])'
    BY <1>1 DEF LogInv, ClosedLog, WindowOK
  <2>1. admitted[c] \in Seq(Admission)
    BY DEF IInv, TypeOK
  <2>2. \A i \in 1..Len(admitted[c]) : admitted[c][i] \in Admission
    BY <2>1, ElementOfSeq
  <2>3. windows[c] # None => windows[c] \in Window
    BY DEF IInv, TypeOK
  <2>4. \A i \in 1..Len(admitted[c]) : admitted[c][i].windowEnd \in Nat
    BY <2>2 DEF Admission
  <2>5. windows[c] = None => ClosedLog(admitted[c])'
    BY <1>1, <2>4 DEF IInv, LogInv, ClosedLog
  <2>6. windows[c] # None => WindowOK(windows[c], admitted[c])'
    BY <1>1, <2>3 DEF IInv, LogInv, WindowOK, Window
  <2> QED BY <2>5, <2>6 DEF IInv, LogInv
<1> QED BY <1>1, <1>2, <1>3 DEF IInv, SweepInv, WaitInv

LEMMA RestartInv == IInv /\ Restart => IInv'
BY SettingsPositive, BoundsNat
   DEF Restart, IInv, TypeOK, LogInv, LogOK, ClosedLog, SweepInv, WaitInv

THEOREM Invariance == Spec => []IInv
<1>1. IInv /\ [Next]_vars => IInv'
  <2> SUFFICES ASSUME IInv, [Next]_vars PROVE IInv'
    OBVIOUS
  <2>1. CASE UNCHANGED vars
    BY <2>1 DEF vars, IInv, TypeOK, LogInv, LogOK, ClosedLog, WindowOK, SweepInv, WaitInv
  <2> QED BY <2>1, RequestInv, TickInv, RestartInv DEF Next
<1> QED BY <1>1, InitInv, PTL DEF Spec

-----------------------------------------------------------------------------
(* What is proved of every behaviour.                                      *)

\* Clock, map, sweep and histories keep their types.
THEOREM TypeCorrect == Spec => []TypeOK
BY Invariance, PTL DEF IInv

\* However requests, sweeps and the clock interleave, a client that spent its
\* limit is let through again when its window has ended and not before, and
\* 2 * Limit + 1 admissions take longer than a window (rate-limit.ts:49-77).
THEOREM BurstBoundedHolds == Spec => []BurstBounded
<1>1. IInv => BurstBounded
  <2> SUFFICES ASSUME IInv, NEW c \in Clients,
                      NEW i \in 1..Len(admitted[c]), NEW j \in 1..Len(admitted[c])
               PROVE  /\ j >= i + Limit => admitted[c][j].at >= admitted[c][i].windowEnd
                      /\ j >= i + 2 * Limit => admitted[c][j].at > admitted[c][i].at + WindowMs
    BY DEF BurstBounded
  <2> DEFINE log == admitted[c]
             m == i + Limit
  <2>1. log \in Seq(Admission) /\ Len(log) \in Nat
    BY DEF IInv, TypeOK
  <2>2. Limit \in Nat /\ Limit > 0 /\ WindowMs \in Nat
    BY SettingsPositive
  <2>3. \A k \in 1..Len(log) : log[k].at \in Nat /\ log[k].windowEnd \in Nat
    <3>1. \A k \in 1..Len(log) : log[k] \in Admission
      BY <2>1, ElementOfSeq
    <3> QED BY <3>1 DEF Admission
  <2>4. LogOK(log)
    BY DEF IInv, LogInv
  <2>5. \A k, l \in 1..Len(log) : l >= k + Limit => log[l].at >= log[k].windowEnd
    <3> HIDE DEF log
    <3> SUFFICES ASSUME NEW k \in 1..Len(log), NEW l \in 1..Len(log), l >= k + Limit
                 PROVE  log[l].at >= log[k].windowEnd
      OBVIOUS
    <3>1. log[l].windowEnd >= log[k].windowEnd + WindowMs /\ log[l].windowEnd <= log[l].at + WindowMs
      BY <2>4 DEF LogOK
    <3> QED BY <2>2, <2>3, <3>1
  <2>6. ASSUME j >= i + 2 * Limit
        PROVE  log[j].at > log[i].at + WindowMs
    <3>1. m \in 1..Len(log) /\ m >= i + Limit /\ j >= m + Limit
      BY <2>1, <2>2, <2>6
    <3> HIDE DEF log, m
    <3>2. log[j].at >= log[m].windowEnd
      BY <2>5, <3>1 DEF log
    <3>3. /\ log[m].windowEnd >= log[i].windowEnd + WindowMs
          /\ log[i].at < log[i].windowEnd
      BY <2>4, <3>1 DEF LogOK, log
    <3>4. /\ log[i].at \in Nat /\ log[i].windowEnd \in Nat
          /\ log[m].windowEnd \in Nat /\ log[j].at \in Nat
      BY <2>3, <3>1 DEF log
    <3> QED BY <2>2, <3>2, <3>3, <3>4
  <2> QED BY <2>5, <2>6
<1> QED BY <1>1, Invariance, PTL

\* The lazy sweep, which runs only when a request comes, keeps the map as small
\* as a timer would (rate-limit.ts:52-62).
THEOREM MapBoundedHolds == Spec => []MapBounded
<1>1. IInv => MapBounded
  <2> SUFFICES ASSUME IInv, NEW c \in Clients, windows[c] # None
               PROVE  windows[c].resetAt + WindowMs > lastRequest
    BY DEF MapBounded
  <2>1. /\ lastRequest \in Nat /\ nextSweep \in Nat /\ WindowMs \in Nat
        /\ windows[c] \in Window
    BY SettingsPositive, BoundsNat DEF IInv, TypeOK
  <2>2. lastRequest < nextSweep /\ windows[c].resetAt + WindowMs > nextSweep
    BY DEF IInv, SweepInv
  <2> QED BY <2>1, <2>2 DEF Window
<1> QED BY <1>1, Invariance, PTL

\* A client that obeys Retry-After is let through (rate-limit.ts:64-74).
THEOREM RetryAfterSufficesHolds == Spec => RetryAfterSuffices
<1> DEFINE Obeyed == \A c \in Clients :
                         waitUntil[c] # 0 /\ waitUntil'[c] \notin {0, waitUntil[c]}
                             => now < waitUntil[c]
<1>1. IInv /\ [Next]_vars => [Obeyed]_vars
  <2> SUFFICES ASSUME IInv, Next, NEW c \in Clients,
                      waitUntil[c] # 0, waitUntil'[c] \notin {0, waitUntil[c]}
               PROVE  now < waitUntil[c]
    OBVIOUS
  <2>1. CASE Tick \/ Restart
    BY <2>1 DEF Tick, Restart
  <2>2. CASE \E d \in Clients : Request(d)
    <3>1. PICK d \in Clients : Request(d)
      BY <2>2
    <3>2. c = d /\ OverLimit(Counted(c))
      BY <3>1 DEF Request, IInv, TypeOK
    <3>3. /\ now \in Nat /\ Limit \in Nat /\ Limit > 0 /\ waitUntil[c] \in Nat
          /\ windows[c] \in Window \cup {None}
      BY SettingsPositive DEF IInv, TypeOK
    <3>4. Swept[c] # None /\ ~Expired(Swept[c])
      BY <3>2, <3>3 DEF OverLimit, Counted
    <3>5. Swept[c] = windows[c]
      BY <3>4 DEF Swept
    <3>6. windows[c].resetAt <= waitUntil[c] /\ windows[c] \in Window /\ ~(now >= windows[c].resetAt)
      BY <3>3, <3>4, <3>5 DEF Expired, IInv, WaitInv
    <3> QED BY <3>3, <3>6 DEF Window
  <2> QED BY <2>1, <2>2 DEF Next
<1> QED BY <1>1, Invariance, PTL DEF Spec, RetryAfterSuffices
=============================================================================
