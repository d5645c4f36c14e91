----------------------------- MODULE Protection -----------------------------
(* The limits every request passes before its handler: the token bucket of   *)
(* pkg/ratelimit/ratelimit.go and the list of banned addresses of            *)
(* pkg/ratelimit/blocklist.go, both scripts that Redis runs atomically, as   *)
(* httpx/mw_protect.go calls them. SignIn puts the handlers behind them.     *)
(*                                                                           *)
(* One tick is the unit of every duration. The bucket counts fractions of a  *)
(* token: a request costs Window units and a tick brings Limit units back,   *)
(* which is the rate Limit / Window of the script without its floats.        *)
EXTENDS Naturals

CONSTANTS Addrs,          \* addresses of clients
          Limit, Window,  \* requests per window of the rule "login"
          Burst,          \* capacity of the bucket
          Threshold,      \* score that bans an address
          ScoreWindow,    \* life of a score
          BanBase, BanMax, \* shortest and longest ban
          StrikeLife,     \* life of the count of bans (a day)
          MaxTime         \* bound: ticks

ASSUME ProtectionAssumption ==
    /\ Limit \in Nat \ {0} /\ Window \in Nat \ {0} /\ Burst \in Nat \ {0}
    /\ Threshold \in Nat \ {0} /\ ScoreWindow \in Nat \ {0}
    /\ BanBase \in Nat \ {0} /\ BanMax \in Nat \ {0} /\ StrikeLife \in Nat \ {0}
    /\ MaxTime \in Nat /\ Addrs # {}
    /\ BanBase <= BanMax /\ BanMax <= StrikeLife   \* the defaults: 5 m, 24 h, 24 h
    /\ Burst <= 2 * Limit                          \* a bucket is full when its key dies

VARIABLES now,      \* the clock
          bucket,   \* units left in the bucket of an address, and when that was
          score,    \* suspicious events of an address, and when they are forgotten
          strikes,  \* bans of an address, and when they are forgotten
          ban,      \* the time until which an address is banned
          passes    \* history: requests of an address let through by the end of a tick

protectionVars == <<bucket, score, strikes, ban, passes>>

Least(a, b) == IF a <= b THEN a ELSE b

Capacity == Burst * Window

ProtectionInit ==
    /\ now = 0
    /\ bucket = [a \in Addrs |-> [units |-> Capacity, at |-> 0]]
    /\ score = [a \in Addrs |-> [n |-> 0, until |-> 0]]
    /\ strikes = [a \in Addrs |-> [n |-> 0, until |-> 0]]
    /\ ban = [a \in Addrs |-> 0]
    /\ passes = [a \in Addrs |-> [t \in 0 .. MaxTime |-> 0]]

IsBanned(a) == ban[a] > now

\* Mutant of Units: the bucket forgets when it was last used.
UnitsFull(a) == IF bucket[a].at < now THEN Capacity ELSE bucket[a].units

\* What the bucket holds now. A key that was not used for two windows has
\* died, and a missing key counts as a full bucket.
Units(a) ==
    IF now - bucket[a].at >= 2 * Window THEN Capacity
    ELSE Least(Capacity, bucket[a].units + (now - bucket[a].at) * Limit)

HasToken(a) == Units(a) >= Window

TakeToken(a) ==
    /\ bucket' = [bucket EXCEPT ![a] = [units |-> Units(a) - Window, at |-> now]]
    /\ passes' = [passes EXCEPT ![a] = [t \in 0 .. MaxTime |-> IF t < now THEN @[t] ELSE @[t] + 1]]

RefuseToken(a) ==
    /\ bucket' = [bucket EXCEPT ![a] = [units |-> Units(a), at |-> now]]
    /\ UNCHANGED passes

\* A value with a time to live that has run out is as if never written.
Alive(k) == IF k.until > now THEN k.n ELSE 0

TwoTo[n \in Nat] == IF n = 0 THEN 1 ELSE 2 * TwoTo[n - 1]

\* Mutant of BanFor: past the longest ban the shortest one is set.
BanForWrapped(n) == IF BanBase * TwoTo[n - 1] > BanMax THEN BanBase ELSE BanBase * TwoTo[n - 1]

BanFor(n) == Least(BanBase * TwoTo[Least(n - 1, 20)], BanMax)

\* The script of RegisterSuspicious: the score lives a window from its first
\* event, and the event that reaches the threshold spends it on a ban.
RegisterSuspicious(a, weight) ==
    LET n == Alive(score[a]) + weight
        k == Alive(strikes[a]) + 1
    IN IF n < Threshold
       THEN /\ score' = [score EXCEPT ![a] = [n |-> n,
                            until |-> IF Alive(@) = 0 THEN now + ScoreWindow ELSE @.until]]
            /\ UNCHANGED <<strikes, ban>>
       ELSE /\ score' = [score EXCEPT ![a] = [n |-> 0, until |-> 0]]
            /\ strikes' = [strikes EXCEPT ![a] = [n |-> k, until |-> now + StrikeLife]]
            /\ ban' = [ban EXCEPT ![a] = now + BanFor(k)]

\* Weights of the answers that count against an address.
Weight(answer) ==
    CASE answer \in {"unauthorized", "forbidden"} -> 2
      [] answer = "not_found" -> 1
      [] answer = "rate_limited" -> 3
      [] OTHER -> 0

\* PunishStatus: the answer of the handler is looked at once it is written.
PunishStatus(a, answer) ==
    IF Weight(answer) = 0 THEN UNCHANGED <<score, strikes, ban>>
    ELSE RegisterSuspicious(a, Weight(answer))

\* WAF: the weight of a request that is refused for its address line or host,
\* and of one for a path that only scanners ask for.
OddWeights == {5, 8}
ScannerWeight == 10

ProtectionTypeOK ==
    /\ now \in 0 .. MaxTime
    /\ bucket \in [Addrs -> [units: 0 .. Capacity, at: 0 .. MaxTime]]
    /\ score \in [Addrs -> [n: 0 .. Threshold - 1, until: 0 .. MaxTime + ScoreWindow]]
    /\ \A a \in Addrs : strikes[a].n \in Nat /\ strikes[a].until \in 0 .. MaxTime + StrikeLife
    /\ ban \in [Addrs -> 0 .. MaxTime + BanMax]
=============================================================================
