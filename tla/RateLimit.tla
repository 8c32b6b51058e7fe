----------------------------- MODULE RateLimit -----------------------------
(***************************************************************************)
(* The rate limiter in front of every route but /healthz: one fixed window *)
(* per client address, in a map in memory that is swept lazily, at most    *)
(* once per window, by whichever request comes next.  A restart of the     *)
(* process forgets the map.                                                *)
(*                                                                         *)
(* A client is the address req.ip names.  A request to /healthz passes     *)
(* before anything is read or changed and is no step here.                 *)
(***************************************************************************)
EXTENDS Integers, Sequences

CONSTANTS
    Clients,    \* addresses
    WindowMs,   \* length of a window
    Limit,      \* requests admitted per window (`max`)
    Second,     \* the ticks of one second, the unit of Retry-After
    None,
    MaxTime,    \* BOUND: the last instant of the clock
    MaxCount    \* BOUND: requests counted in one window

ASSUME SettingsPositive == WindowMs \in Nat \ {0} /\ Limit \in Nat \ {0} /\ Second \in Nat \ {0}
ASSUME BoundsNat == MaxTime \in Nat /\ MaxCount \in Nat
ASSUME NoneIsNoWindow == None \notin [count : Nat, resetAt : Nat]

VARIABLES
    now,        \* the clock of the process
    windows,    \* windows[c]: the entry of c in the map, None if it has none
    nextSweep,  \* when the next request sweeps the map
    admitted,   \* admitted[c]: the requests of c let through since the process
                \* started, each with its time and its window's end (history)
    waitUntil,  \* waitUntil[c]: when c may come back by its last answer, 0 if that
                \* answer was not a refusal (history)
    lastRequest \* when the last request came (history)

vars == <<now, windows, nextSweep, admitted, waitUntil, lastRequest>>

-----------------------------------------------------------------------------
Window == [count : Nat \ {0}, resetAt : Nat]
Admission == [at : Nat, windowEnd : Nat]

TypeOK ==
    /\ now \in 0..MaxTime
    /\ windows \in [Clients -> Window \cup {None}]
    /\ nextSweep \in 0..(now + WindowMs)
    /\ admitted \in [Clients -> Seq(Admission)]
    /\ waitUntil \in [Clients -> Nat]
    /\ lastRequest \in 0..now

Init ==
    /\ now = 0
    /\ windows = [c \in Clients |-> None]
    /\ nextSweep = 0
    /\ admitted = [c \in Clients |-> << >>]
    /\ waitUntil = [c \in Clients |-> 0]
    /\ lastRequest = 0

-----------------------------------------------------------------------------
\* A window of which nothing is left: the reset and the sweep use one boundary.
ExpiredLate(w) == now > w.resetAt
Expired(w) == now >= w.resetAt

\* The map after the lazy sweep of a request that comes now.
SweptAll == [c \in Clients |-> IF now >= nextSweep THEN None ELSE windows[c]]
Swept ==
    IF now >= nextSweep
    THEN [c \in Clients |-> IF windows[c] # None /\ Expired(windows[c]) THEN None ELSE windows[c]]
    ELSE windows

NextSweepMoving == now + WindowMs
NextSweep == IF now >= nextSweep THEN now + WindowMs ELSE nextSweep

\* The window a request of c that comes now is counted in, counting it.
Counted(c) ==
    LET w == Swept[c] IN
    IF w = None \/ Expired(w)
    THEN [count |-> 1, resetAt |-> now + WindowMs]
    ELSE [w EXCEPT !.count = @ + 1]

\* Retry-After in ticks: the rest of the window, in whole seconds, at least one.
RetryAfterDown(w) ==
    LET seconds == (w.resetAt - now) \div Second
    IN Second * (IF seconds > 1 THEN seconds ELSE 1)
RetryAfter(w) ==
    LET seconds == (w.resetAt - now + Second - 1) \div Second
    IN Second * (IF seconds > 1 THEN seconds ELSE 1)

OverLimit(w) == w.count > Limit

Request(c) ==
    LET w == Counted(c) IN
    /\ w.count <= MaxCount                      \* BOUND
    /\ windows' = [Swept EXCEPT ![c] = w]
    /\ nextSweep' = NextSweep
    /\ lastRequest' = now
    /\ \/ /\ ~OverLimit(w)
          /\ admitted' = [admitted EXCEPT ![c] = Append(@, [at |-> now, windowEnd |-> w.resetAt])]
          /\ waitUntil' = [waitUntil EXCEPT ![c] = 0]
       \/ /\ OverLimit(w)
          /\ waitUntil' = [waitUntil EXCEPT ![c] = now + RetryAfter(w)]
          /\ UNCHANGED admitted
    /\ UNCHANGED now

Tick ==
    /\ now < MaxTime                            \* BOUND
    /\ now' = now + 1
    /\ UNCHANGED <<windows, nextSweep, admitted, waitUntil, lastRequest>>

Restart ==
    /\ windows' = [c \in Clients |-> None]
    /\ nextSweep' = 0
    /\ admitted' = [c \in Clients |-> << >>]
    /\ waitUntil' = [c \in Clients |-> 0]
    /\ lastRequest' = now
    /\ UNCHANGED now

Next ==
    \/ \E c \in Clients : Request(c)
    \/ Tick
    \/ Restart

Spec == Init /\ [][Next]_vars

-----------------------------------------------------------------------------
(* What is promised.                                                       *)

\* A client that has spent its limit waits for its window to end: no sweep, set
\* off by whoever comes next, forgets a window that is open, and a request at the
\* boundary is counted in one window.  Fixed windows let it spend the allowance of
\* one at its end and that of the next at its start, and never more: of any
\* 2 * Limit + 1 admissions in a row the last comes later than a whole window
\* after the first.
BurstBounded ==
    \A c \in Clients : \A i, j \in 1..Len(admitted[c]) :
        /\ j >= i + Limit => admitted[c][j].at >= admitted[c][i].windowEnd
        /\ j >= i + 2 * Limit => admitted[c][j].at > admitted[c][i].at + WindowMs

\* After any request the map holds no client whose window ended a whole window
\* ago or earlier: addresses that came once leave, without a timer, as soon as
\* anybody comes.
MapBounded ==
    \A c \in Clients :
        windows[c] # None => windows[c].resetAt + WindowMs > lastRequest

\* A client that waited as long as its last answer asked is not refused again,
\* although the header is rounded to seconds and windows and sweeps fall between.
RetryAfterSuffices ==
    [][\A c \in Clients :
           waitUntil[c] # 0 /\ waitUntil'[c] \notin {0, waitUntil[c]} => now < waitUntil[c]]_vars
=============================================================================
