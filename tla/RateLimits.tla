----------------------------- MODULE RateLimits -----------------------------
(***************************************************************************)
(* The sliding windows in front of the server: RateLimitMiddleware, which  *)
(* counts requests per address and, more strictly, failed logins; and the  *)
(* connection window of the WebSocket endpoint.                            *)
(*                                                                         *)
(* Everything up to call_next runs in one piece on the event loop, and so  *)
(* does everything after it: a login is two steps, with the verification   *)
(* of the password, in a thread and of any length, between them.  The code *)
(* goes on using the time it read at the first.                            *)
(***************************************************************************)
EXTENDS Integers, FiniteSets

CONSTANTS
    Addresses,       \* client addresses, as _get_client_ip resolves them
    Users,           \* those of them that log in; the others send requests only
    Logins,          \* login requests that may be in flight together
    Window, Hour,    \* 60 s and 3600 s
    LockSeconds,     \* auth_lock_seconds
    LoginLimit,      \* auth_login_per_minute
    MinuteLimit,     \* requests_per_minute
    HourLimit,       \* requests_per_hour
    ConnectLimit,    \* _WS_CONNECT_MAX
    MaxTracked,      \* _max_tracked_ips, _max_auth_locked, _WS_MAX_TRACKED_IPS
    MaxClock         \* bound: the last tick

ASSUME LimitsAssumption ==
    /\ {Window, Hour, LockSeconds, LoginLimit, MinuteLimit, HourLimit, ConnectLimit,
        MaxTracked, MaxClock} \subseteq Nat \ {0}
    /\ Window <= Hour
    /\ IsFiniteSet(Addresses) /\ "none" \notin Addresses /\ Users \subseteq Addresses

VARIABLES
    clock,
    log,         \* requests[ip]: the entries of its list, numbered as they came
    tracked,     \* the keys of requests, those with an empty list included
    lock,        \* _auth_locked: the time each address is locked until, or 0
    flight,      \* the login requests waiting for their response
    connects,    \* _ws_connect_log, numbered in the same way
    \* The history of an address begins anew when a sweep drops its list:
    failures,    \* the failed logins since the last one that succeeded
    admitted,    \* the requests that were let through
    dialled,     \* the connections that were let through
    pardoned     \* the time up to which a success cleared the list

limitVars == <<clock, log, tracked, lock, flight, connects,
               failures, admitted, dialled, pardoned>>

Idle == [addr |-> "none", at |-> 0]
Times == 0..MaxClock
Entry == [n : Nat, at : Times, login : BOOLEAN]

LimitTypes ==
    /\ clock \in Times
    /\ tracked \subseteq Addresses
    /\ DOMAIN log = Addresses /\ DOMAIN connects = Addresses
    /\ \A a \in Addresses :
         /\ log[a] \subseteq Entry /\ connects[a] \subseteq Entry
         /\ \A e, f \in log[a] : e.n = f.n => e = f
         /\ a \notin tracked => log[a] = {}
         /\ \A e, f \in connects[a] : e.n <= f.n => e.at <= f.at
    /\ lock \in [Addresses -> 0..(MaxClock + LockSeconds)]
    /\ flight \in [Logins -> {Idle} \cup [addr : Addresses, at : Times]]

LimitInit ==
    /\ clock = 0
    /\ log = [a \in Addresses |-> {}]
    /\ tracked = {}
    /\ lock = [a \in Addresses |-> 0]
    /\ flight = [r \in Logins |-> Idle]
    /\ connects = [a \in Addresses |-> {}]
    /\ failures = [a \in Addresses |-> {}]
    /\ admitted = [a \in Addresses |-> {}]
    /\ dialled = [a \in Addresses |-> {}]
    /\ pardoned = [a \in Addresses |-> -1]

-----------------------------------------------------------------------------
(* The last entry of a list, and the next one.                              *)

Newest(l) == CHOOSE e \in l : \A f \in l : f.n <= e.n
New(l, at, login) ==
    [n |-> IF l = {} THEN 0 ELSE Newest(l).n + 1, at |-> at, login |-> login]

\* Entries younger than span.
Since(l, span) == {e \in l : e.at > clock - span}

(* Capacity sweeps.                                                        *)

\* The sets of k members of S that a stable sort by age puts first; members of
\* equal age come in dictionary order, which is left open.
Oldest(S, age, k) ==
    {D \in SUBSET S : Cardinality(D) = k /\ \A d \in D, e \in S \ D : age[d] <= age[e]}

LastSeen(l) == [a \in Addresses |-> IF l[a] = {} THEN 0 ELSE Newest(l[a]).at]

\* _sweep_tracked over the lists l with the keys T: the keys it may leave.
Sweeps(l, T) ==
    LET busy == {a \in T : l[a] # {}} IN
    IF Cardinality(T) <= MaxTracked THEN {T}
    ELSE IF Cardinality(busy) <= MaxTracked THEN {busy}
    ELSE {busy \ D : D \in Oldest(busy, LastSeen(l), Cardinality(busy) - MaxTracked)}

\* The lists l once only the keys K are left; and a history of those lists.
Keep(l, K) == [a \in Addresses |-> IF a \in K THEN l[a] ELSE {}]
KeepHistory(h, l, K) == [a \in Addresses |-> IF a \in K \/ l[a] = {} THEN h[a] ELSE {}]

-----------------------------------------------------------------------------
(* dispatch for any path but the login and the health probes.              *)

Request(a) ==
    LET kept == [log EXCEPT ![a] = Since(@, Hour)]
        keys == IF kept[a] = {} THEN tracked \ {a} ELSE tracked \cup {a}
    IN \E K \in Sweeps(kept, keys) :
        LET swept == Keep(kept, K)
            full == \/ Cardinality(Since(swept[a], Window)) >= MinuteLimit
                    \/ Cardinality(swept[a]) >= HourLimit
            e == IF full THEN {} ELSE {New(swept[a], clock, FALSE)}
        IN /\ tracked' = K \cup {a}
           /\ log' = [swept EXCEPT ![a] = @ \cup e]
           /\ admitted' = [KeepHistory(admitted, kept, K) EXCEPT ![a] = @ \cup e]
           /\ failures' = KeepHistory(failures, kept, K)
           /\ UNCHANGED <<clock, lock, flight, connects, dialled, pardoned>>

-----------------------------------------------------------------------------
(* _check_auth_login.                                                      *)

InFlight(a) == {r \in Logins : flight[r].addr = a}
FailedLogins(l) == {e \in Since(l, Window) : e.login}

\* _sweep_auth_locked, and the removal of the lock of a itself when it is over.
SweptLocks(a) ==
    LET live == {b \in Addresses : lock[b] > clock}
        left == IF Cardinality(live) <= MaxTracked THEN {live}
                ELSE {live \ D : D \in Oldest(live, lock, Cardinality(live) - MaxTracked)}
    IN {[b \in Addresses |-> IF b \in L THEN lock[b] ELSE 0] : L \in left}

\* Mutant: a burst of requests in flight is taken for failures.
LocksBusy(failed, busy) == failed + busy >= LoginLimit
\* Only confirmed failures lock the address; requests in flight merely count
\* against what may still be admitted.
Locks(failed, busy) == failed >= LoginLimit

\* Mutant: requests in flight do not count.
AdmitsUncounted(failed, busy) == failed < LoginLimit
Admits(failed, busy) == failed + busy < LoginLimit

LoginArrives(r, a) ==
    /\ flight[r] = Idle
    /\ \E locks \in SweptLocks(a) :
         IF clock < locks[a]
         THEN lock' = locks /\ UNCHANGED <<log, tracked, flight>>
         ELSE LET kept == Since(log[a], Hour)
                  failed == Cardinality(FailedLogins(kept))
                  busy == Cardinality(InFlight(a))
              IN /\ log' = [log EXCEPT ![a] = kept]
                 /\ tracked' = tracked \cup {a}
                 /\ lock' = IF Locks(failed, busy)
                            THEN [locks EXCEPT ![a] = clock + LockSeconds] ELSE locks
                 /\ flight' = IF ~Locks(failed, busy) /\ Admits(failed, busy)
                              THEN [flight EXCEPT ![r] = [addr |-> a, at |-> clock]]
                              ELSE flight
    /\ UNCHANGED <<clock, connects, failures, admitted, dialled, pardoned>>

\* 401: the failure counts from the time the request was admitted.
LoginFails(r) ==
    LET a == flight[r].addr
        e == New(log[a], flight[r].at, TRUE)
        grown == [log EXCEPT ![a] = @ \cup {e}]
    IN /\ flight[r] # Idle
       /\ \E K \in Sweeps(grown, tracked \cup {a}) :
            /\ log' = Keep(grown, K)
            /\ tracked' = K
            /\ failures' = KeepHistory([failures EXCEPT ![a] = @ \cup {e}], grown, K)
            /\ admitted' = KeepHistory(admitted, grown, K)
       /\ flight' = [flight EXCEPT ![r] = Idle]
       /\ UNCHANGED <<clock, lock, connects, dialled, pardoned>>

\* 200: earlier failures are forgiven.  (The filter drops every entry older
\* than a minute with them, those that count for the hour included.)
LoginSucceeds(r) ==
    LET a == flight[r].addr
        left == {e \in log[a] : e.at > flight[r].at - Window /\ ~e.login}
    IN /\ flight[r] # Idle
       /\ log' = [log EXCEPT ![a] = left]
       /\ tracked' = IF left = {} THEN tracked \ {a} ELSE tracked \cup {a}
       /\ flight' = [flight EXCEPT ![r] = Idle]
       /\ failures' = [failures EXCEPT ![a] = {}]
       /\ pardoned' = [pardoned EXCEPT ![a] = IF flight[r].at - Window > @ THEN flight[r].at - Window ELSE @]
       /\ UNCHANGED <<clock, lock, connects, admitted, dialled>>

\* Any other status, or an exception out of call_next.
LoginEnds(r) ==
    /\ flight[r] # Idle
    /\ flight' = [flight EXCEPT ![r] = Idle]
    /\ UNCHANGED <<clock, log, tracked, lock, connects,
                   failures, admitted, dialled, pardoned>>

-----------------------------------------------------------------------------
(* _ws_rate_limited.                                                       *)

Connect(a) ==
    LET keys == {b \in Addresses : connects[b] # {}}
        left == IF Cardinality(keys) <= MaxTracked THEN {keys}
                ELSE {keys \ D : D \in Oldest(keys, LastSeen(connects), Cardinality(keys) - MaxTracked)}
    IN \E K \in left :
        LET swept == Keep(connects, K)
            \* popleft as long as the first one is too old
            young == {e \in swept[a] : \E f \in swept[a] : f.n <= e.n /\ f.at >= clock - Window}
            e == IF Cardinality(young) >= ConnectLimit THEN {} ELSE {New(young, clock, FALSE)}
        IN /\ connects' = [swept EXCEPT ![a] = young \cup e]
           /\ dialled' = [KeepHistory(dialled, connects, K) EXCEPT ![a] = @ \cup e]
           /\ UNCHANGED <<clock, log, tracked, lock, flight, failures, admitted, pardoned>>

LimitTick ==
    /\ clock < MaxClock
    /\ clock' = clock + 1
    /\ UNCHANGED <<log, tracked, lock, flight, connects,
                   failures, admitted, dialled, pardoned>>

HttpNext ==
    \/ \E a \in Addresses : Request(a)
    \/ \E r \in Logins : \/ \E a \in Users : LoginArrives(r, a)
                         \/ LoginFails(r) \/ LoginSucceeds(r) \/ LoginEnds(r)
    \/ LimitTick

\* The two limiters share nothing.
SocketNext == (\E a \in Addresses : Connect(a)) \/ LimitTick

LimitSpec == LimitInit /\ [][HttpNext \/ SocketNext]_limitVars

-----------------------------------------------------------------------------

\* However logins are interleaved with their slow verification, an address has
\* at most LoginLimit attempts in a window that failed or are still undecided,
\* unless one succeeded in between.  (A capacity sweep forgets an address.)
LoginBudget ==
    \A a \in Addresses :
        Cardinality(Since(failures[a], Window))
            + Cardinality({r \in InFlight(a) : flight[r].at > clock - Window})
            <= LoginLimit

\* An address is locked for failures the server has seen, never for attempts
\* that are still being verified and may all succeed.
LocksAreEarned ==
    [][\A a \in Addresses : lock[a] <= clock /\ lock'[a] > clock =>
           Cardinality(Since(failures[a], Window)) >= LoginLimit]_limitVars

\* No window lets more requests of an address through than its limit, whatever
\* the logins of that address do to the list they share; and no hour does,
\* except that a login that succeeds clears what the hour had counted.
RequestBudget ==
    \A a \in Addresses :
        /\ Cardinality(Since(admitted[a], Window)) <= MinuteLimit
        /\ Cardinality({e \in Since(admitted[a], Hour) : e.at > pardoned[a]}) <= HourLimit

\* Nor does a window let more connections of an address through.
ConnectBudget ==
    \A a \in Addresses :
        Cardinality({e \in dialled[a] : e.at >= clock - Window}) <= ConnectLimit

\* No budget can be exceeded by interleaving, cleaning up or sweeping.
Budgets == LoginBudget /\ RequestBudget /\ ConnectBudget
=============================================================================
