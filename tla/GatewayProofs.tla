--------------------------- MODULE GatewayProofs ----------------------------
(* Theorems about what a request passes before and while it is handled:      *)
(* Idempotency, for any number of copies of a request, and SignIn with the   *)
(* limits of Protection, for any number of addresses and requests, any rule, *)
(* any lock and any ban.                                                     *)
EXTENDS Idempotency, SignIn, FiniteSetTheorems, WellFoundedInduction, TLAPS


(* Every variable keeps its type.                                          *)
THEOREM IdempotencyTyping == IdempotencySpec => []IdempotencyTypeOK
<1>1. IdempotencyInit => IdempotencyTypeOK
  <2>1. IdempotencyInit => stored \in BOOLEAN
    BY DEF IdempotencyInit
  <2>2. IdempotencyInit => before \in [Copies -> SUBSET Copies]
    BY DEF IdempotencyInit
  <2> QED
    BY <2>1, <2>2 DEF IdempotencyInit, IdempotencyTypeOK
<1>2. IdempotencyTypeOK /\ [IdempotencyNext]_idempotencyVars => IdempotencyTypeOK'
  <2> SUFFICES ASSUME IdempotencyTypeOK, [IdempotencyNext]_idempotencyVars
               PROVE  IdempotencyTypeOK'
    OBVIOUS
  <2> USE DEF IdempotencyTypeOK
  <2>1. ASSUME NEW c \in Copies, LookUp(c)
        PROVE  IdempotencyTypeOK'
    BY <2>1 DEF LookUp, StoredAnswer, Succeeded
  <2>2. ASSUME NEW c \in Copies, TakeLock(c)
        PROVE  IdempotencyTypeOK'
    BY <2>2 DEF TakeLock
  <2>3. ASSUME NEW c \in Copies, Handle(c)
        PROVE  IdempotencyTypeOK'
    BY <2>3 DEF Handle
  <2>4. ASSUME NEW c \in Copies, StoreAndAnswer(c)
        PROVE  IdempotencyTypeOK'
    BY <2>4 DEF StoreAndAnswer, StoredAfter
  <2>5. ASSUME NEW c \in Copies, Unlock(c)
        PROVE  IdempotencyTypeOK'
    BY <2>5 DEF Unlock
  <2>6. ASSUME NEW c \in Copies, GiveUp(c) \/ Crash(c)
        PROVE  IdempotencyTypeOK'
    BY <2>6 DEF GiveUp, Crash
  <2>7. CASE LockExpires
    BY <2>7 DEF LockExpires
  <2>8. CASE UNCHANGED idempotencyVars
    BY <2>8 DEF idempotencyVars
  <2> QED
    BY <2>1, <2>2, <2>3, <2>4, <2>5, <2>6, <2>7, <2>8 DEF IdempotencyNext, Serve
<1> QED
  BY <1>1, <1>2, PTL DEF IdempotencySpec

-----------------------------------------------------------------------------
(* A copy at work is the one that set the lock.                            *)
AtWork(c) == pc[c] \in {"running", "answering", "unlock"}
WorkerHoldsLock == \A c \in Copies : AtWork(c) => lock = c

(* While no handler outlives the lock, at most one copy is at work, for    *)
(* any number of copies, whatever clients give up and processes die.       *)
THEOREM OneCopyAtWork ==
    ASSUME ~SlowHandlers
    PROVE  IdempotencySpec => []OneAtATime
<1>1. IdempotencyInit => WorkerHoldsLock
  BY DEF IdempotencyInit, WorkerHoldsLock, AtWork
<1>2. IdempotencyTypeOK /\ WorkerHoldsLock /\ [IdempotencyNext]_idempotencyVars => WorkerHoldsLock'
  <2> SUFFICES ASSUME IdempotencyTypeOK, WorkerHoldsLock, [IdempotencyNext]_idempotencyVars
               PROVE  WorkerHoldsLock'
    OBVIOUS
  <2> USE DEF IdempotencyTypeOK, WorkerHoldsLock, AtWork
  <2>1. ASSUME NEW c \in Copies, LookUp(c)
        PROVE  WorkerHoldsLock'
    BY <2>1 DEF LookUp
  <2>2. ASSUME NEW c \in Copies, TakeLock(c)
        PROVE  WorkerHoldsLock'
    BY <2>2, IdempotencyAssumption DEF TakeLock, MaySetLock, IdempotencyAssumption
  <2>3. ASSUME NEW c \in Copies, Handle(c) \/ StoreAndAnswer(c)
        PROVE  WorkerHoldsLock'
    BY <2>3 DEF Handle, StoreAndAnswer
  <2>4. ASSUME NEW c \in Copies, Unlock(c)
        PROVE  WorkerHoldsLock'
    BY <2>4 DEF Unlock
  <2>5. ASSUME NEW c \in Copies, GiveUp(c) \/ Crash(c)
        PROVE  WorkerHoldsLock'
    BY <2>5 DEF GiveUp, Crash
  <2>6. CASE LockExpires
    BY <2>6 DEF LockExpires
  <2>7. CASE UNCHANGED idempotencyVars
    BY <2>7 DEF idempotencyVars
  <2> QED
    BY <2>1, <2>2, <2>3, <2>4, <2>5, <2>6, <2>7 DEF IdempotencyNext, Serve
<1>3. WorkerHoldsLock => OneAtATime
  BY DEF WorkerHoldsLock, AtWork, OneAtATime
<1> QED
  BY <1>1, <1>2, <1>3, IdempotencyTyping, PTL DEF IdempotencySpec

-----------------------------------------------------------------------------
(* A success a client was told of is stored: the answer is stored before   *)
(* it is given, and what is stored stays.                                  *)
ToldIsStored == Succeeded # {} => stored

(* Once a client was told of a success, a copy it sends later never runs   *)
(* the handler, even if handlers outlive the lock.                         *)
THEOREM LaterCopiesAreReplayed == IdempotencySpec => []ToldMeansReplayed
<1> DEFINE IInv == ToldIsStored /\ ToldMeansReplayed
<1>1. IdempotencyInit => IInv
  BY DEF IdempotencyInit, ToldIsStored, ToldMeansReplayed, Succeeded
<1>2. IdempotencyTypeOK /\ IInv /\ [IdempotencyNext]_idempotencyVars => IInv'
  <2> SUFFICES ASSUME IdempotencyTypeOK, IInv, [IdempotencyNext]_idempotencyVars
               PROVE  IInv'
    OBVIOUS
  <2> USE DEF IdempotencyTypeOK, ToldIsStored, ToldMeansReplayed, Succeeded
  <2>1. ASSUME NEW c \in Copies, LookUp(c)
        PROVE  IInv'
    BY <2>1 DEF LookUp, Found, StoredAnswer
  <2>2. ASSUME NEW c \in Copies, TakeLock(c)
        PROVE  IInv'
    BY <2>2 DEF TakeLock
  <2>3. ASSUME NEW c \in Copies, Handle(c)
        PROVE  IInv'
    BY <2>3 DEF Handle
  <2>4. ASSUME NEW c \in Copies, StoreAndAnswer(c)
        PROVE  IInv'
    BY <2>4 DEF StoreAndAnswer, StoredAfter
  <2>5. ASSUME NEW c \in Copies, Unlock(c)
        PROVE  IInv'
    BY <2>5 DEF Unlock
  <2>6. ASSUME NEW c \in Copies, GiveUp(c) \/ Crash(c)
        PROVE  IInv'
    BY <2>6 DEF GiveUp, Crash
  <2>7. CASE LockExpires
    BY <2>7 DEF LockExpires
  <2>8. CASE UNCHANGED idempotencyVars
    BY <2>8 DEF idempotencyVars
  <2> QED
    BY <2>1, <2>2, <2>3, <2>4, <2>5, <2>6, <2>7, <2>8 DEF IdempotencyNext, Serve
<1> QED
  BY <1>1, <1>2, IdempotencyTyping, PTL DEF IdempotencySpec
-----------------------------------------------------------------------------
(* What is replayed did happen: only the answer of a handler that took     *)
(* effect is stored.                                                       *)
THEOREM ReplayedHappened == IdempotencySpec => []ReplaysAreTrue
<1> DEFINE Success == \E c \in Copies : answer[c] = "success"
           IInv == stored \/ Success \/ (\E c \in Copies : answer[c] = "replay")
                       => effects > 0
<1>1. IdempotencyInit => IInv
  BY DEF IdempotencyInit
<1>2. IdempotencyTypeOK /\ IInv /\ [IdempotencyNext]_idempotencyVars => IInv'
  <2> SUFFICES ASSUME IdempotencyTypeOK, IInv, [IdempotencyNext]_idempotencyVars
               PROVE  IInv'
    OBVIOUS
  <2> USE DEF IdempotencyTypeOK
  <2>1. ASSUME NEW c \in Copies, LookUp(c)
        PROVE  IInv'
    BY <2>1 DEF LookUp, Found, StoredAnswer
  <2>2. ASSUME NEW c \in Copies, TakeLock(c)
        PROVE  IInv'
    BY <2>2 DEF TakeLock
  <2>3. ASSUME NEW c \in Copies, Handle(c)
        PROVE  IInv'
    BY <2>3 DEF Handle
  <2>4. ASSUME NEW c \in Copies, StoreAndAnswer(c)
        PROVE  IInv'
    BY <2>4 DEF StoreAndAnswer, StoredAfter
  <2>5. CASE UNCHANGED <<stored, answer, effects>>
    BY <2>5
  <2> QED
    BY <2>1, <2>2, <2>3, <2>4, <2>5
       DEF IdempotencyNext, Serve, Unlock, LockExpires, GiveUp, Crash, idempotencyVars
<1>3. IInv => ReplaysAreTrue
  BY DEF ReplaysAreTrue
<1> QED
  BY <1>1, <1>2, <1>3, IdempotencyTyping, PTL DEF IdempotencySpec

-----------------------------------------------------------------------------
(* Natural numbers: the least element of a set, induction, powers of two.    *)

LEMMA LeastElement ==
    ASSUME NEW T \in SUBSET Nat, T # {}
    PROVE  \E m \in T : \A k \in T : m <= k
<1> DEFINE Before == {ss \in Nat \X Nat : ss[1] < ss[2]}
<1>1. IsWellFoundedOn(Before, Nat)
  BY NatLessThanWellFounded DEF OpToRel
<1> HIDE DEF Before
<1>2. PICK m \in T : \A k \in T : ~(<<k, m>> \in Before)
  BY <1>1, WFMin
<1>3. ASSUME NEW k \in T
      PROVE  m <= k
  <2>1. k \in Nat /\ m \in Nat
    OBVIOUS
  <2>2. ~(k < m)
    BY <1>2, <2>1 DEF Before
  <2> QED
    BY <2>1, <2>2
<1> QED
  BY <1>3

LEMMA SetInduction ==
    ASSUME NEW T \in SUBSET Nat, 0 \in T, \A n \in T : n + 1 \in T
    PROVE  T = Nat
<1> SUFFICES ASSUME Nat \ T # {}
             PROVE  FALSE
  OBVIOUS
<1>1. PICK m \in Nat \ T : \A k \in Nat \ T : m <= k
  BY LeastElement
<1>2. m - 1 \in T
  BY <1>1
<1> QED
  BY <1>1, <1>2

(* The definition of TwoTo has a solution, and only one.                     *)
Doubles(n) == {g \in [0 .. n -> Nat] : g[0] = 1 /\ \A i \in 1 .. n : g[i] = 2 * g[i - 1]}

LEMMA DoublesExist == \A n \in Nat : Doubles(n) # {}
<1> DEFINE T == {n \in Nat : Doubles(n) # {}}
<1>1. 0 \in T
  <2>1. [i \in 0 .. 0 |-> 1] \in Doubles(0)
    BY DEF Doubles
  <2> QED
    BY <2>1
<1>2. ASSUME NEW n \in T
      PROVE  n + 1 \in T
  <2>1. PICK g : g \in Doubles(n)
    BY <1>2
  <2> DEFINE h == [i \in 0 .. n + 1 |-> IF i = n + 1 THEN 2 * g[n] ELSE g[i]]
  <2>2. h \in [0 .. n + 1 -> Nat] /\ h[0] = 1
    BY <2>1 DEF Doubles
  <2>3. ASSUME NEW i \in 1 .. n + 1
        PROVE  h[i] = 2 * h[i - 1]
    BY <2>1 DEF Doubles
  <2>4. h \in Doubles(n + 1)
    BY <2>2, <2>3 DEF Doubles
  <2> QED
    BY <2>4
<1> HIDE DEF T
<1>3. T = Nat
  BY <1>1, <1>2, SetInduction DEF T
<1> QED
  BY <1>3 DEF T

LEMMA DoublesAgree ==
    ASSUME NEW n \in Nat, NEW m \in Nat, NEW g \in Doubles(n), NEW h \in Doubles(m)
    PROVE  \A i \in Nat : i <= n /\ i <= m => g[i] = h[i]
<1> DEFINE T == {i \in Nat : i <= n /\ i <= m => g[i] = h[i]}
<1>1. 0 \in T
  BY DEF Doubles
<1>2. ASSUME NEW i \in T
      PROVE  i + 1 \in T
  <2> SUFFICES ASSUME i + 1 <= n, i + 1 <= m
               PROVE  g[i + 1] = h[i + 1]
    OBVIOUS
  <2>1. g[i] = h[i] /\ i + 1 \in 1 .. n /\ i + 1 \in 1 .. m /\ (i + 1) - 1 = i
    BY <1>2
  <2> QED
    BY <2>1 DEF Doubles
<1> HIDE DEF T
<1>3. T = Nat
  BY <1>1, <1>2, SetInduction DEF T
<1> QED
  BY <1>3 DEF T

LEMMA TwoToIs == TwoTo = [n \in Nat |-> IF n = 0 THEN 1 ELSE 2 * TwoTo[n - 1]]
<1> DEFINE d(n) == CHOOSE g : g \in Doubles(n)
           f == [n \in Nat |-> d(n)[n]]
<1>1. \A n \in Nat : d(n) \in Doubles(n)
  BY DoublesExist
<1> HIDE DEF d
<1>2. f[0] = 1
  BY <1>1 DEF Doubles
<1>3. ASSUME NEW n \in Nat \ {0}
      PROVE  f[n] = 2 * f[n - 1]
  <2>1. d(n) \in Doubles(n) /\ d(n - 1) \in Doubles(n - 1) /\ n - 1 \in Nat
    BY <1>1
  <2>2. d(n)[n - 1] = d(n - 1)[n - 1]
    BY <2>1, DoublesAgree
  <2>3. d(n)[n] = 2 * d(n)[n - 1]
    BY <2>1 DEF Doubles
  <2> QED
    BY <2>1, <2>2, <2>3
<1> HIDE DEF f
<1>4. f = [n \in Nat |-> IF n = 0 THEN 1 ELSE 2 * f[n - 1]]
  <2>1. f = [n \in Nat |-> f[n]]
    BY DEF f
  <2>2. \A n \in Nat : f[n] = IF n = 0 THEN 1 ELSE 2 * f[n - 1]
    BY <1>2, <1>3
  <2> QED
    BY <2>1, <2>2
<1>5. \E g : g = [n \in Nat |-> IF n = 0 THEN 1 ELSE 2 * g[n - 1]]
  BY <1>4
<1> QED
  BY <1>5 DEF TwoTo

LEMMA TwoToFacts ==
    /\ TwoTo[0] = 1 /\ \A n \in Nat : TwoTo[n] \in Nat \ {0}
    /\ \A n \in Nat : TwoTo[n + 1] = 2 * TwoTo[n]
<1>0. TwoTo[0] = 1
  BY TwoToIs
<1>1. \A n \in Nat : TwoTo[n + 1] = 2 * TwoTo[n]
  BY TwoToIs
<1> DEFINE T == {n \in Nat : TwoTo[n] \in Nat \ {0}}
<1>2. 0 \in T /\ \A n \in T : n + 1 \in T
  BY <1>0, <1>1
<1> HIDE DEF T
<1>3. T = Nat
  BY <1>2, SetInduction DEF T
<1> QED
  BY <1>0, <1>1, <1>3 DEF T

LEMMA Product ==
    ASSUME NEW a \in Nat, NEW b \in Nat
    PROVE  /\ a * b \in Nat /\ (a + 1) * b = a * b + b
           /\ b # 0 => a <= a * b
           /\ \A c \in Nat : a <= c => a * b <= c * b /\ b * a <= b * c
OBVIOUS

LEMMA IntProduct ==
    ASSUME NEW a \in Int, NEW b \in Int
    PROVE  a * b \in Int /\ (a + 1) * b = a * b + b
OBVIOUS

(* Bans and locks double up to their cap.                                    *)
LEMMA BanForGrows ==
    ASSUME NEW n \in Nat \ {0}
    PROVE  BanFor(n) \in 1 .. BanMax /\ BanFor(n) <= BanFor(n + 1)
<1>0. BanBase \in Nat \ {0} /\ BanMax \in Nat /\ BanBase <= BanMax
  BY ProtectionAssumption DEF ProtectionAssumption
<1> DEFINE k == Least(n - 1, 20)
           l == Least(n, 20)
<1>1. k \in Nat /\ (l = k \/ l = k + 1)
  BY DEF Least
<1>2. BanFor(n) = Least(BanBase * TwoTo[k], BanMax) /\ BanFor(n + 1) = Least(BanBase * TwoTo[l], BanMax)
  BY DEF BanFor
<1> HIDE DEF k, l
<1>3. /\ TwoTo[k] \in Nat \ {0} /\ TwoTo[l] \in Nat /\ TwoTo[k] <= TwoTo[l]
  BY <1>1, TwoToFacts
<1>4. /\ BanBase * TwoTo[k] \in Nat /\ BanBase * TwoTo[l] \in Nat
      /\ BanBase <= BanBase * TwoTo[k] /\ BanBase * TwoTo[k] <= BanBase * TwoTo[l]
  BY <1>0, <1>3, Product
<1> QED
  BY <1>0, <1>2, <1>4 DEF Least

LEMMA LocksAfterFree ==
    ASSUME NEW n \in Nat
    PROVE  LockoutDuration(n) \in 0 .. LockMax /\ (n > FreeAttempts => LockoutDuration(n) > 0)
<1>0. FreeAttempts \in Nat /\ LockBase \in Nat \ {0} /\ LockMax \in Nat \ {0}
  BY SignInAssumption DEF SignInAssumption
<1>1. CASE n <= FreeAttempts
  BY <1>0, <1>1 DEF LockoutDuration
<1>2. CASE n > FreeAttempts
  <2> DEFINE k == n - FreeAttempts - 1
  <2>1. k \in Nat /\ LockoutDuration(n) = Least(LockBase * TwoTo[k], LockMax)
    BY <1>0, <1>2 DEF LockoutDuration
  <2> HIDE DEF k
  <2>2. LockBase * TwoTo[k] \in Nat /\ LockBase <= LockBase * TwoTo[k]
    BY <1>0, <2>1, TwoToFacts, Product
  <2> QED
    BY <1>0, <2>1, <2>2 DEF Least
<1> QED
  BY <1>0, <1>1, <1>2

(* The bucket is full by the time its key dies.                              *)
LEMMA Refilled ==
    ASSUME NEW d \in Nat, NEW u \in 0 .. Capacity
    PROVE  /\ (IF d >= 2 * Window THEN Capacity ELSE Least(Capacity, u + d * Limit))
                 = Least(Capacity, u + d * Limit)
           /\ Least(Capacity, u + d * Limit) \in u .. Capacity /\ d * Limit \in Nat
<1>0. Limit \in Nat /\ Window \in Nat /\ Burst \in Nat /\ Burst <= 2 * Limit
  BY ProtectionAssumption DEF ProtectionAssumption
<1>1. Capacity \in Nat /\ d * Limit \in Nat /\ Capacity <= (2 * Limit) * Window
  BY <1>0, Product DEF Capacity
<1>2. (2 * Limit) * Window = (2 * Window) * Limit
  BY <1>0
<1>3. d >= 2 * Window => (2 * Window) * Limit <= d * Limit
  BY <1>0, Product
<1>4. d >= 2 * Window => Capacity <= u + d * Limit
  BY <1>0, <1>1, <1>2, <1>3
<1> QED
  BY <1>1, <1>4 DEF Least

LEMMA UnitsAre ==
    ASSUME NEW a \in Addrs, now \in Nat, bucket[a].at \in 0 .. now, bucket[a].units \in 0 .. Capacity
    PROVE  /\ Units(a) = Least(Capacity, bucket[a].units + (now - bucket[a].at) * Limit)
           /\ Units(a) \in 0 .. Capacity /\ bucket[a].units <= Units(a)
<1> DEFINE d == now - bucket[a].at
           u == bucket[a].units
<1>1. d \in Nat /\ u \in 0 .. Capacity
      /\ Units(a) = IF d >= 2 * Window THEN Capacity ELSE Least(Capacity, u + d * Limit)
  BY DEF Units
<1> HIDE DEF d, u
<1>2. Units(a) = Least(Capacity, u + d * Limit) /\ Units(a) \in u .. Capacity
  BY <1>1, Refilled
<1>3. Units(a) \in 0 .. Capacity /\ u <= Units(a)
  BY <1>1, <1>2
<1> QED
  BY <1>2, <1>3 DEF d, u

-----------------------------------------------------------------------------
(* Types, and what the requests in flight hold.                              *)

States == {"idle", "unknown", "login", "failed", "succeeded", "send", "issue", "mail", "confirm", "verify",
           "reissue"}
CallState == [at: States, addr: Addrs, seen: Nat]

CallsOK ==
    /\ call \in [Requests -> CallState]
    /\ \A r \in Requests : call[r].at = "idle" => call[r] = Idle
    /\ \A r \in Requests : call[r].at = "mail" => call[r].seen \in CodeIds
BucketsOK ==
    /\ bucket \in [Addrs -> [units: 0 .. Capacity, at: 0 .. MaxTime]]
    /\ \A a \in Addrs : bucket[a].at <= now
    /\ passes \in [Addrs -> [0 .. MaxTime -> Nat]]
StrikesTyped == strikes \in [Addrs -> [n: Nat, until: 0 .. MaxTime + StrikeLife]]

(* A failure that was counted was one of the requests started.               *)
Busy == {r \in Requests : call[r].at # "idle"}
FailuresOK == failed = missed /\ missed + Cardinality(Busy) <= served

LimitsOK == ProtectionTypeOK /\ StrikesTyped /\ BucketsOK
AccountOK ==
    /\ status \in Statuses /\ verified \in BOOLEAN
    /\ failed \in 0 .. MaxServed /\ missed \in 0 .. MaxServed /\ locked \in 0 .. MaxTime + LockMax
    /\ codes \in [CodeIds -> Code] /\ inbox \subseteq CodeIds
    /\ served \in 0 .. MaxServed
SignInGood == LimitsOK /\ AccountOK /\ CallsOK /\ FailuresOK

LEMMA LimitConstants ==
    /\ Limit \in Nat \ {0} /\ Window \in Nat \ {0} /\ Burst \in Nat \ {0}
    /\ Threshold \in Nat \ {0} /\ ScoreWindow \in Nat \ {0} /\ StrikeLife \in Nat \ {0}
    /\ BanMax \in Nat /\ BanMax <= StrikeLife /\ MaxTime \in Nat /\ Addrs # {}
    /\ Capacity \in Nat /\ Window <= Capacity
<1>1. Burst \in Nat \ {0} /\ Window \in Nat \ {0}
  BY ProtectionAssumption DEF ProtectionAssumption
<1>2. Capacity \in Nat /\ Window <= Capacity
  BY <1>1, Product DEF Capacity
<1> QED
  BY <1>2, ProtectionAssumption DEF ProtectionAssumption

(* What the limits do with a request keeps them typed, and touches nothing   *)
(* else.                                                                     *)
LEMMA RegisterTyped ==
    ASSUME LimitsOK, NEW a \in Addrs, NEW weight \in Nat, RegisterSuspicious(a, weight),
           UNCHANGED now, BucketsOK'
    PROVE  LimitsOK'
<1> DEFINE n == Alive(score[a]) + weight
           k == Alive(strikes[a]) + 1
<1>0. /\ now \in 0 .. MaxTime
      /\ score \in [Addrs -> [n: 0 .. Threshold - 1, until: 0 .. MaxTime + ScoreWindow]]
      /\ strikes \in [Addrs -> [n: Nat, until: 0 .. MaxTime + StrikeLife]]
      /\ ban \in [Addrs -> 0 .. MaxTime + BanMax]
  BY DEF LimitsOK, ProtectionTypeOK, StrikesTyped
<1>1. n \in Nat /\ k \in Nat \ {0}
  BY <1>0, LimitConstants DEF Alive
<1>2. CASE n < Threshold
  <2> DEFINE row == [n |-> n, until |-> IF Alive(score[a]) = 0 THEN now + ScoreWindow ELSE score[a].until]
  <2>1. score' = [score EXCEPT ![a] = row] /\ UNCHANGED <<strikes, ban>>
    BY <1>2 DEF RegisterSuspicious
  <2>2. row \in [n: 0 .. Threshold - 1, until: 0 .. MaxTime + ScoreWindow]
    BY <1>0, <1>1, <1>2, LimitConstants
  <2> HIDE DEF row
  <2>3. score' \in [Addrs -> [n: 0 .. Threshold - 1, until: 0 .. MaxTime + ScoreWindow]]
    BY <1>0, <2>1, <2>2
  <2> QED
    BY <2>1, <2>3 DEF LimitsOK, ProtectionTypeOK, StrikesTyped, BucketsOK
<1>3. CASE ~(n < Threshold)
  <2>1. /\ score' = [score EXCEPT ![a] = [n |-> 0, until |-> 0]]
        /\ strikes' = [strikes EXCEPT ![a] = [n |-> k, until |-> now + StrikeLife]]
        /\ ban' = [ban EXCEPT ![a] = now + BanFor(k)]
    BY <1>3 DEF RegisterSuspicious
  <2>2. BanFor(k) \in 1 .. BanMax
    BY <1>1, BanForGrows
  <2> HIDE DEF n, k
  <2>3. now + BanFor(k) \in 0 .. MaxTime + BanMax /\ now + StrikeLife \in 0 .. MaxTime + StrikeLife
    BY <1>0, <2>2, LimitConstants
  <2>4. /\ [n |-> 0, until |-> 0] \in [n: 0 .. Threshold - 1, until: 0 .. MaxTime + ScoreWindow]
        /\ [n |-> k, until |-> now + StrikeLife] \in [n: Nat, until: 0 .. MaxTime + StrikeLife]
    BY <1>1, <2>3, LimitConstants
  <2>5. /\ score' \in [Addrs -> [n: 0 .. Threshold - 1, until: 0 .. MaxTime + ScoreWindow]]
        /\ strikes' \in [Addrs -> [n: Nat, until: 0 .. MaxTime + StrikeLife]]
        /\ ban' \in [Addrs -> 0 .. MaxTime + BanMax]
    BY <1>0, <2>1, <2>3, <2>4
  <2>6. \A x \in Addrs : strikes'[x].n \in Nat /\ strikes'[x].until \in 0 .. MaxTime + StrikeLife
    BY <2>5
  <2> QED
    BY <2>5, <2>6 DEF LimitsOK, ProtectionTypeOK, StrikesTyped, BucketsOK
<1> QED
  BY <1>2, <1>3

LEMMA LimitsStay ==
    ASSUME LimitsOK, UNCHANGED <<now, protectionVars>>
    PROVE  LimitsOK'
BY DEF LimitsOK, ProtectionTypeOK, StrikesTyped, BucketsOK, protectionVars

LEMMA PunishTyped ==
    ASSUME LimitsOK, NEW a \in Addrs, NEW what, PunishStatus(a, what), UNCHANGED now, BucketsOK'
    PROVE  LimitsOK'
<1>1. Weight(what) \in {0, 1, 2, 3}
  BY DEF Weight
<1>2. CASE Weight(what) = 0
  BY <1>2 DEF PunishStatus, LimitsOK, ProtectionTypeOK, StrikesTyped, BucketsOK
<1>3. CASE Weight(what) # 0
  BY <1>1, <1>3, RegisterTyped DEF PunishStatus
<1> QED
  BY <1>2, <1>3

LEMMA BucketTyped ==
    ASSUME LimitsOK, NEW a \in Addrs
    PROVE  /\ Units(a) \in 0 .. Capacity /\ now \in Nat /\ bucket[a].at \in 0 .. now
           /\ bucket[a].units \in 0 .. Capacity /\ bucket[a].units <= Units(a)
           /\ Units(a) = Least(Capacity, bucket[a].units + (now - bucket[a].at) * Limit)
<1>1. now \in Nat /\ bucket[a].at \in 0 .. now /\ bucket[a].units \in 0 .. Capacity
  BY LimitConstants DEF LimitsOK, ProtectionTypeOK, BucketsOK
<1> QED
  BY <1>1, UnitsAre

LEMMA TakeTyped ==
    ASSUME LimitsOK, NEW a \in Addrs, HasToken(a), TakeToken(a), UNCHANGED <<now, score, strikes, ban>>
    PROVE  LimitsOK'
<1>1. Units(a) - Window \in 0 .. Capacity /\ now \in 0 .. MaxTime
  BY BucketTyped, LimitConstants DEF HasToken, LimitsOK, ProtectionTypeOK
<1>2. bucket' \in [Addrs -> [units: 0 .. Capacity, at: 0 .. MaxTime]] /\ \A x \in Addrs : bucket'[x].at <= now
  BY <1>1 DEF TakeToken, LimitsOK, ProtectionTypeOK, BucketsOK
<1>3. passes' \in [Addrs -> [0 .. MaxTime -> Nat]]
  <2> DEFINE row == [t \in 0 .. MaxTime |-> IF t < now THEN passes[a][t] ELSE passes[a][t] + 1]
  <2>1. passes \in [Addrs -> [0 .. MaxTime -> Nat]] /\ passes' = [passes EXCEPT ![a] = row]
    BY DEF TakeToken, LimitsOK, BucketsOK
  <2>2. now \in Nat /\ passes[a] \in [0 .. MaxTime -> Nat]
    BY <2>1, BucketTyped
  <2>3. \A t \in 0 .. MaxTime : (IF t < now THEN passes[a][t] ELSE passes[a][t] + 1) \in Nat
    <3>1. \A t \in 0 .. MaxTime : passes[a][t] \in Nat
      BY <2>2
    <3> QED
      BY <3>1
  <2>4. row \in [0 .. MaxTime -> Nat]
    BY <2>3
  <2> HIDE DEF row
  <2> QED
    BY <2>1, <2>4
<1>4. BucketsOK'
  BY <1>2, <1>3 DEF BucketsOK
<1> QED
  BY <1>4 DEF LimitsOK, ProtectionTypeOK, StrikesTyped, BucketsOK

LEMMA RefuseTyped ==
    ASSUME LimitsOK, NEW a \in Addrs, RefuseToken(a), UNCHANGED now
    PROVE  BucketsOK'
<1>1. Units(a) \in 0 .. Capacity /\ now \in 0 .. MaxTime
  BY BucketTyped DEF LimitsOK, ProtectionTypeOK
<1> QED
  BY <1>1 DEF RefuseToken, LimitsOK, ProtectionTypeOK, BucketsOK

(* A request moves on, and the others stay where they are.                   *)
LEMMA IdleIsCall == Idle \in CallState /\ Idle.at = "idle" /\ Idle.seen = 0
<1>1. (CHOOSE a \in Addrs : TRUE) \in Addrs
  BY LimitConstants
<1> QED
  BY <1>1 DEF Idle, CallState, States

LEMMA Constants ==
    /\ FreeAttempts \in Nat \ {0} /\ LockMax \in Nat /\ MaxCodes \in Nat /\ MaxServed \in Nat
    /\ MaxTime \in Nat /\ IsFiniteSet(Requests) /\ CodeIds \subseteq Nat
BY SignInAssumption, ProtectionAssumption DEF SignInAssumption, ProtectionAssumption, CodeIds

LEMMA CallMoves ==
    ASSUME CallsOK, NEW r \in Requests, NEW c \in CallState, call' = [call EXCEPT ![r] = c],
           c.at = "idle" => c = Idle, c.at = "mail" => c.seen \in CodeIds
    PROVE  CallsOK' /\ call'[r] = c /\ \A x \in Requests \ {r} : call'[x] = call[x]
BY DEF CallsOK

LEMMA GoesTo ==
    ASSUME CallsOK, NEW r \in Requests, NEW at \in States \ {"idle", "mail"}, Goto(r, at)
    PROVE  CallsOK' /\ call'[r].at = at /\ \A x \in Requests \ {r} : call'[x] = call[x]
<1> DEFINE c == [call[r] EXCEPT !.at = at]
<1>1. c \in CallState /\ c.at = at /\ call' = [call EXCEPT ![r] = c]
  BY DEF CallsOK, CallState, Goto
<1> HIDE DEF c
<1> QED
  BY <1>1, CallMoves

LEMMA Answers ==
    ASSUME LimitsOK, CallsOK, NEW r \in Requests, NEW what, Answer(r, what), UNCHANGED now
    PROVE  LimitsOK' /\ CallsOK' /\ call'[r] = Idle /\ \A x \in Requests \ {r} : call'[x] = call[x]
<1>1. CallsOK' /\ call'[r] = Idle /\ \A x \in Requests \ {r} : call'[x] = call[x]
  BY CallMoves, IdleIsCall DEF Answer
<1>2. call[r].addr \in Addrs /\ BucketsOK'
  BY DEF Answer, CallsOK, CallState, LimitsOK, BucketsOK
<1>3. LimitsOK'
  BY <1>2, PunishTyped DEF Answer
<1> QED
  BY <1>1, <1>3

(* Busy requests are counted.                                                *)
LEMMA Counted ==
    ASSUME NEW S \in SUBSET Requests, NEW T \in SUBSET Requests
    PROVE  /\ Cardinality(S) \in Nat /\ Cardinality(S) <= Cardinality(Requests)
           /\ S \subseteq T => Cardinality(S) <= Cardinality(T)
           /\ \A r \in Requests : S \subseteq T \cup {r} => Cardinality(S) <= Cardinality(T) + 1
           /\ \A r \in T : S \subseteq T \ {r} => Cardinality(S) <= Cardinality(T) - 1
<1>1. IsFiniteSet(Requests) /\ IsFiniteSet(S) /\ IsFiniteSet(T)
  BY Constants, FS_Subset
<1>2. Cardinality(S) \in Nat /\ Cardinality(T) \in Nat /\ Cardinality(Requests) \in Nat
  BY <1>1, FS_CardinalityType
<1>3. Cardinality(S) <= Cardinality(Requests) /\ (S \subseteq T => Cardinality(S) <= Cardinality(T))
  BY <1>1, FS_Subset
<1>4. ASSUME NEW r \in Requests, S \subseteq T \cup {r}
      PROVE  Cardinality(S) <= Cardinality(T) + 1
  <2>1. IsFiniteSet(T \cup {r}) /\ Cardinality(T \cup {r}) <= Cardinality(T) + 1
    <3>1. /\ IsFiniteSet(T \cup {r})
          /\ Cardinality(T \cup {r}) = IF r \in T THEN Cardinality(T) ELSE Cardinality(T) + 1
      BY <1>1, FS_AddElement
    <3> QED
      BY <1>2, <3>1
  <2>2. Cardinality(T \cup {r}) \in Nat /\ Cardinality(S) <= Cardinality(T \cup {r})
    BY <1>4, <2>1, FS_Subset, FS_CardinalityType
  <2> QED
    BY <1>2, <2>1, <2>2
<1>5. ASSUME NEW r \in T, S \subseteq T \ {r}
      PROVE  Cardinality(S) <= Cardinality(T) - 1
  <2>1. IsFiniteSet(T \ {r}) /\ Cardinality(T \ {r}) = Cardinality(T) - 1
    BY <1>1, FS_RemoveElement
  <2> QED
    BY <1>5, <2>1, FS_Subset
<1> QED
  BY <1>2, <1>3, <1>4, <1>5

LEMMA FailuresStay ==
    ASSUME SignInGood, NEW r \in Requests, served' \in Nat, served <= served',
           \A x \in Requests \ {r} : call'[x] = call[x],
           call[r].at # "idle" \/ served' = served + 1 \/ call'[r].at = "idle",
           UNCHANGED <<failed, missed>>
    PROVE  FailuresOK'
<1> DEFINE T == Busy'
<1>1. T \in SUBSET Requests /\ Busy \in SUBSET Requests /\ T \subseteq Busy \cup {r}
      /\ (call[r].at # "idle" \/ call'[r].at = "idle" => T \subseteq Busy)
  BY DEF Busy
<1> HIDE DEF T
<1>2. /\ Cardinality(T) \in Nat /\ Cardinality(Busy) \in Nat /\ Cardinality(T) <= Cardinality(Busy) + 1
      /\ (call[r].at # "idle" \/ call'[r].at = "idle" => Cardinality(T) <= Cardinality(Busy))
  BY <1>1, Counted
<1>3. failed = missed /\ missed + Cardinality(Busy) <= served /\ missed \in Nat /\ served \in Nat
  BY Constants DEF SignInGood, FailuresOK, AccountOK
<1>4. missed + Cardinality(T) <= served'
  BY <1>2, <1>3
<1> QED
  BY <1>3, <1>4 DEF FailuresOK, T

(* One action after the other. The conjuncts that it leaves alone:           *)
LEMMA AccountStays ==
    ASSUME AccountOK, UNCHANGED <<accountVars, codeVars>>, served' \in 0 .. MaxServed
    PROVE  AccountOK'
BY DEF AccountOK, accountVars, codeVars

LEMMA ArriveGood ==
    ASSUME SignInGood, NEW r \in Requests, NEW a \in Addrs, NEW h \in Handlers, Arrive(r, a, h)
    PROVE  SignInGood'
<1>1. /\ call[r] = Idle /\ served < MaxServed /\ served' = served + 1
      /\ UNCHANGED <<now, accountVars, codeVars>>
  BY DEF Arrive
<1>2. served \in Nat /\ served' \in 0 .. MaxServed
  BY <1>1, Constants DEF SignInGood, AccountOK
<1>3. AccountOK'
  BY <1>1, <1>2, AccountStays DEF SignInGood
<1>4. LimitsOK' /\ CallsOK' /\ \A x \in Requests \ {r} : call'[x] = call[x]
  <2>1. ASSUME Admit(r, a, h)
        PROVE  CallsOK' /\ \A x \in Requests \ {r} : call'[x] = call[x]
    <3>1. [at |-> h, addr |-> a, seen |-> 0] \in CallState /\ h \notin {"idle", "mail"}
      BY DEF Handlers, CallState, States
    <3> QED
      BY <2>1, <3>1, CallMoves DEF SignInGood, Admit
  <2>2. ASSUME UNCHANGED call
        PROVE  CallsOK' /\ \A x \in Requests \ {r} : call'[x] = call[x]
    BY <2>2 DEF SignInGood, CallsOK
  <2>3. CASE LimitedByAddress(r, a, h)
    <3>1. CASE TakeToken(a) /\ HasToken(a) /\ Admit(r, a, h) /\ UNCHANGED <<score, strikes, ban>>
      BY <1>1, <2>1, <3>1, TakeTyped DEF SignInGood
    <3>2. CASE RefuseToken(a) /\ PunishStatus(a, "rate_limited") /\ UNCHANGED call
      BY <1>1, <2>2, <3>2, RefuseTyped, PunishTyped DEF SignInGood
    <3> QED
      BY <2>3, <3>1, <3>2 DEF LimitedByAddress, Refuse
  <2>4. CASE LimitedByUser(r, a, h)
    <3>1. BucketsOK'
      BY <1>1, <2>4 DEF LimitedByUser, SignInGood, LimitsOK, BucketsOK
    <3>2. CASE Admit(r, a, h) /\ UNCHANGED <<score, strikes, ban>>
      BY <1>1, <2>1, <2>4, <3>2, LimitsStay DEF LimitedByUser, SignInGood, protectionVars
    <3>3. CASE PunishStatus(a, "rate_limited") /\ UNCHANGED call
      BY <1>1, <2>2, <3>1, <3>3, PunishTyped DEF SignInGood
    <3> QED
      BY <2>4, <3>2, <3>3 DEF LimitedByUser, Refuse
  <2> QED
    BY <2>3, <2>4 DEF Arrive
<1>5. UNCHANGED <<failed, missed>>
  BY <1>1 DEF accountVars
<1>6. FailuresOK'
  BY <1>1, <1>2, <1>4, <1>5, FailuresStay
<1> QED
  BY <1>3, <1>4, <1>6 DEF SignInGood

LEMMA RecognisedGood ==
    ASSUME SignInGood, NEW r \in Requests, NEW a \in Addrs, Recognised(r, a)
    PROVE  SignInGood'
<1>1. /\ call[r] = Idle /\ served < MaxServed /\ served' = served + 1
      /\ UNCHANGED <<now, bucket, passes, accountVars, codeVars>>
  BY DEF Recognised
<1>2. served \in Nat /\ served' \in 0 .. MaxServed
  BY <1>1, Constants DEF SignInGood, AccountOK
<1>3. AccountOK'
  BY <1>1, <1>2, AccountStays DEF SignInGood
<1>4. LimitsOK'
  <2>1. \E weight \in Nat : RegisterSuspicious(a, weight)
    BY DEF Recognised, OddWeights, ScannerWeight
  <2>2. BucketsOK'
    BY <1>1 DEF SignInGood, LimitsOK, BucketsOK
  <2> QED
    BY <1>1, <2>1, <2>2, RegisterTyped DEF SignInGood
<1>5. CallsOK' /\ \A x \in Requests \ {r} : call'[x] = call[x]
  <2>1. CASE UNCHANGED call
    BY <2>1 DEF SignInGood, CallsOK
  <2>2. CASE call' = [call EXCEPT ![r] = [at |-> "unknown", addr |-> a, seen |-> 0]]
    <3>1. [at |-> "unknown", addr |-> a, seen |-> 0] \in CallState
      BY DEF CallState, States
    <3> QED
      BY <2>2, <3>1, CallMoves DEF SignInGood
  <2> QED
    BY <2>1, <2>2 DEF Recognised
<1>6. UNCHANGED <<failed, missed>>
  BY <1>1 DEF accountVars
<1>7. FailuresOK'
  BY <1>1, <1>2, <1>5, <1>6, FailuresStay
<1> QED
  BY <1>3, <1>4, <1>5, <1>7 DEF SignInGood

(* A request that was counted goes on or answers; it changes the account in  *)
(* no way or in one that the lemma is given.                                 *)
LEMMA RequestGood ==
    ASSUME SignInGood, NEW r \in Requests, call[r].at # "idle", UNCHANGED <<failed, missed, served>>,
           AccountOK', LimitsOK', CallsOK', \A x \in Requests \ {r} : call'[x] = call[x]
    PROVE  SignInGood'
<1>1. served \in Nat
  BY Constants DEF SignInGood, AccountOK
<1> QED
  BY <1>1, FailuresStay DEF SignInGood

LEMMA AnswerGood ==
    ASSUME SignInGood, NEW r \in Requests, call[r].at # "idle", NEW what, Answer(r, what),
           UNCHANGED <<now, failed, missed, served>>, AccountOK'
    PROVE  SignInGood'
BY Answers, RequestGood DEF SignInGood

LEMMA GotoGood ==
    ASSUME SignInGood, NEW r \in Requests, call[r].at # "idle", NEW at \in States \ {"idle", "mail"},
           Goto(r, at), UNCHANGED <<now, protectionVars, failed, missed, served>>, AccountOK'
    PROVE  SignInGood'
BY GoesTo, LimitsStay, RequestGood DEF SignInGood

LEMMA LoginReadGood ==
    ASSUME SignInGood, NEW r \in Requests, LoginRead(r)
    PROVE  SignInGood'
<1>1. /\ UNCHANGED <<now, accountVars, codeVars, served>> /\ call[r].at # "idle"
      /\ UNCHANGED <<failed, missed>>
  BY DEF LoginRead, accountVars
<1>2. AccountOK'
  BY <1>1, AccountStays DEF SignInGood, AccountOK
<1>3. CASE Answer(r, "locked") \/ Answer(r, "forbidden")
  BY <1>1, <1>2, <1>3, AnswerGood
<1>4. ASSUME NEW at \in {"failed", "succeeded"}, UNCHANGED protectionVars,
             call' = [call EXCEPT ![r].at = at, ![r].seen = failed]
      PROVE  SignInGood'
  <2> DEFINE c == [call[r] EXCEPT !.at = at, !.seen = failed]
  <2>1. failed \in Nat
    BY Constants DEF SignInGood, AccountOK
  <2>2. c \in CallState /\ c.at = at /\ call' = [call EXCEPT ![r] = c]
    BY <1>4, <2>1 DEF SignInGood, CallsOK, CallState, States
  <2> HIDE DEF c
  <2>3. CallsOK' /\ \A x \in Requests \ {r} : call'[x] = call[x]
    BY <2>2, CallMoves DEF SignInGood
  <2> QED
    BY <1>1, <1>2, <1>4, <2>3, LimitsStay, RequestGood DEF SignInGood
<1> QED
  BY <1>3, <1>4 DEF LoginRead

LEMMA LoginEndsGood ==
    ASSUME SignInGood, NEW r \in Requests, LoginFailed(r) \/ LoginSucceeded(r)
    PROVE  SignInGood'
<1> DEFINE T == Busy'
<1>0. /\ call \in [Requests -> CallState] /\ call[r].at # "idle"
      /\ UNCHANGED <<now, status, verified, codeVars, served>>
  BY DEF LoginFailed, LoginSucceeded, SignInGood, CallsOK
<1>1. LimitsOK' /\ CallsOK' /\ call'[r] = Idle /\ \A x \in Requests \ {r} : call'[x] = call[x]
  BY <1>0, Answers DEF LoginFailed, LoginSucceeded, SignInGood
<1>2. T \in SUBSET Requests /\ Busy \in SUBSET Requests /\ r \in Busy /\ T \subseteq Busy \ {r}
  BY <1>0, <1>1, IdleIsCall DEF Busy
<1> HIDE DEF T
<1>3. /\ Cardinality(T) \in Nat /\ Cardinality(Busy) \in Nat /\ Cardinality(T) <= Cardinality(Busy) - 1
  BY <1>2, Counted
<1>4. /\ failed = missed /\ missed \in Nat /\ served \in 0 .. MaxServed
      /\ missed + Cardinality(Busy) <= served /\ MaxServed \in Nat
      /\ now \in 0 .. MaxTime /\ MaxTime \in Nat /\ LockMax \in Nat /\ locked \in 0 .. MaxTime + LockMax
  BY Constants DEF SignInGood, FailuresOK, AccountOK, LimitsOK, ProtectionTypeOK
<1>5. failed' = missed' /\ missed' + Cardinality(T) <= served /\ missed' \in Nat
  BY <1>3, <1>4 DEF LoginFailed, LoginSucceeded, RegisterFailedLogin
<1>6. locked' \in 0 .. MaxTime + LockMax
  <2>1. CASE LoginSucceeded(r)
    BY <1>4, <2>1 DEF LoginSucceeded
  <2>2. CASE LoginFailed(r)
    <3> DEFINE d == LockoutDuration(call[r].seen + 1)
    <3>1. call[r].seen + 1 \in Nat
      BY <1>0 DEF CallState
    <3>2. d \in 0 .. LockMax
      BY <3>1, LocksAfterFree
    <3>3. locked' = IF d > 0 THEN now + d ELSE locked
      BY <2>2 DEF LoginFailed, RegisterFailedLogin
    <3> HIDE DEF d
    <3> QED
      BY <1>4, <3>2, <3>3
  <2> QED
    BY <2>1, <2>2
<1>7. missed' \in 0 .. MaxServed
  BY <1>3, <1>4, <1>5
<1>8. AccountOK'
  BY <1>0, <1>4, <1>5, <1>6, <1>7 DEF SignInGood, AccountOK, codeVars
<1>9. FailuresOK'
  BY <1>0, <1>5 DEF FailuresOK, T
<1> QED
  BY <1>1, <1>8, <1>9 DEF SignInGood

LEMMA CodesGood ==
    ASSUME SignInGood, NEW r \in Requests,
           \/ NotFound(r) \/ SendCode(r) \/ IssueCode(r) \/ IssueConflicts(r) \/ MailCode(r)
           \/ ConfirmCode(r) \/ ConfirmMistyped(r) \/ MarkVerified(r)
           \/ ReissueAccess(r)
    PROVE  SignInGood'
<1>0. /\ call[r].at # "idle" /\ UNCHANGED <<now, failed, missed, served>>
      /\ served' \in 0 .. MaxServed
      /\ codes \in [CodeIds -> Code] /\ now \in 0 .. MaxTime /\ call \in [Requests -> CallState]
  BY DEF NotFound, SendCode, IssueCode, IssueConflicts, MailCode, ConfirmCode, ConfirmMistyped, MarkVerified,
         ReissueAccess, accountVars, SignInGood, AccountOK, LimitsOK, ProtectionTypeOK, CallsOK
<1>1. CASE NotFound(r) \/ IssueConflicts(r) \/ ConfirmMistyped(r) \/ ReissueAccess(r)
  <2>1. AccountOK'
    BY <1>0, <1>1, AccountStays DEF NotFound, IssueConflicts, ConfirmMistyped, ReissueAccess, SignInGood
  <2> QED
    BY <1>0, <1>1, <2>1, AnswerGood DEF NotFound, IssueConflicts, ConfirmMistyped, ReissueAccess
<1>2. CASE SendCode(r)
  <2>1. AccountOK'
    BY <1>0, <1>2, AccountStays DEF SendCode, SignInGood
  <2>2. CASE Answer(r, "refused")
    BY <1>0, <2>1, <2>2, AnswerGood
  <2>3. CASE Goto(r, "issue") /\ UNCHANGED protectionVars
    BY <1>0, <2>1, <2>3, GotoGood DEF States
  <2> QED
    BY <1>2, <2>2, <2>3 DEF SendCode
<1>3. CASE IssueCode(r)
  <2>1. PICK c \in CodeIds :
          /\ codes' = [x \in CodeIds |->
                IF x = c THEN [state |-> "open", at |-> now]
                ELSE IF x \in Open THEN [codes[x] EXCEPT !.state = "consumed"] ELSE codes[x]]
          /\ call' = [call EXCEPT ![r].at = "mail", ![r].seen = c]
    BY <1>3 DEF IssueCode
  <2>2. codes' \in [CodeIds -> Code]
    BY <1>0, <2>1 DEF Code
  <2>3. AccountOK'
    BY <1>0, <1>3, <2>2 DEF IssueCode, SignInGood, AccountOK, accountVars
  <2> DEFINE q == [call[r] EXCEPT !.at = "mail", !.seen = c]
  <2>4. q \in CallState /\ q.at = "mail" /\ q.seen = c /\ call' = [call EXCEPT ![r] = q]
    BY <1>0, <2>1, Constants DEF CallState, States
  <2> HIDE DEF q
  <2>5. CallsOK' /\ \A x \in Requests \ {r} : call'[x] = call[x]
    BY <2>4, CallMoves DEF SignInGood
  <2> QED
    BY <1>0, <1>3, <2>3, <2>5, LimitsStay, RequestGood DEF IssueCode, SignInGood
<1>4. CASE MailCode(r)
  <2>1. inbox' \subseteq CodeIds
    BY <1>4 DEF MailCode, Deliver, SignInGood, AccountOK, CallsOK
  <2>2. AccountOK'
    BY <1>0, <1>4, <2>1 DEF MailCode, SignInGood, AccountOK, accountVars
  <2> QED
    BY <1>0, <1>4, <2>2, AnswerGood DEF MailCode
<1>5. CASE ConfirmCode(r)
  <2>1. PICK c \in inbox : Consume(r, c)
    BY <1>5 DEF ConfirmCode
  <2>2. codes' \in [CodeIds -> Code]
    BY <1>0, <2>1 DEF Consume, Code
  <2>3. AccountOK'
    BY <1>0, <1>5, <2>2 DEF ConfirmCode, SignInGood, AccountOK, accountVars
  <2>4. CASE Goto(r, "verify") /\ UNCHANGED protectionVars
    BY <1>0, <2>3, <2>4, GotoGood DEF States
  <2>5. CASE \E what : Answer(r, what)
    BY <1>0, <2>3, <2>5, AnswerGood
  <2>6. (Goto(r, "verify") /\ UNCHANGED protectionVars) \/ \E what : Answer(r, what)
    BY <2>1 DEF Consume
  <2> QED
    BY <2>4, <2>5, <2>6
<1>6. CASE MarkVerified(r)
  <2>1. status' \in Statuses /\ verified' \in BOOLEAN
    BY <1>6 DEF MarkVerified, SignInGood, AccountOK, Statuses
  <2>2. AccountOK'
    BY <1>0, <1>6, <2>1 DEF MarkVerified, SignInGood, AccountOK, codeVars
  <2> QED
    BY <1>0, <1>6, <2>2, GotoGood DEF MarkVerified, States
<1> QED
  BY <1>1, <1>2, <1>3, <1>4, <1>5, <1>6

LEMMA AbandonGood ==
    ASSUME SignInGood, NEW r \in Requests, Abandon(r)
    PROVE  SignInGood'
<1>1. /\ call[r] # Idle /\ call' = [call EXCEPT ![r] = Idle]
      /\ UNCHANGED <<now, protectionVars, accountVars, codeVars, served>>
      /\ UNCHANGED <<failed, missed>>
  BY DEF Abandon, accountVars
<1>2. call[r].at # "idle"
  BY <1>1 DEF SignInGood, CallsOK
<1>3. CallsOK' /\ \A x \in Requests \ {r} : call'[x] = call[x]
  BY <1>1, CallMoves, IdleIsCall DEF SignInGood
<1>4. AccountOK'
  BY <1>1, AccountStays DEF SignInGood, AccountOK
<1> QED
  BY <1>1, <1>2, <1>3, <1>4, LimitsStay, RequestGood DEF SignInGood

LEMMA SetUserStatusGood ==
    ASSUME SignInGood, NEW st \in Statuses, SetUserStatus(st)
    PROVE  SignInGood'
<1>1. /\ served < MaxServed /\ served' = served + 1 /\ served \in Nat
      /\ UNCHANGED <<now, protectionVars, failed, missed, call>>
  BY Constants DEF SetUserStatus, SignInGood, AccountOK
<1>2. AccountOK'
  BY <1>1, Constants DEF SetUserStatus, SignInGood, AccountOK, codeVars
<1>3. Busy' = Busy /\ Cardinality(Busy) \in Nat
  BY <1>1, Counted DEF Busy
<1>4. FailuresOK'
  BY <1>1, <1>3, Constants DEF SignInGood, FailuresOK, AccountOK
<1> QED
  BY <1>1, <1>2, <1>4, LimitsStay DEF SignInGood, CallsOK

LEMMA TickGood ==
    ASSUME SignInGood, Tick
    PROVE  SignInGood'
<1>1. /\ now < MaxTime /\ now' = now + 1 /\ now \in Nat /\ MaxTime \in Nat
      /\ UNCHANGED <<protectionVars, accountVars, codeVars, call, served>>
  BY Constants DEF Tick, SignInGood, LimitsOK, ProtectionTypeOK
<1>2. \A a \in Addrs : bucket[a].at \in Nat /\ bucket[a].at <= now
  BY <1>1 DEF SignInGood, LimitsOK, ProtectionTypeOK, BucketsOK
<1>3. BucketsOK'
  BY <1>1, <1>2 DEF SignInGood, LimitsOK, BucketsOK, protectionVars
<1>4. now' \in 0 .. MaxTime
  BY <1>1
<1>5. LimitsOK'
  BY <1>1, <1>3, <1>4 DEF SignInGood, LimitsOK, ProtectionTypeOK, StrikesTyped, protectionVars
<1>6. AccountOK'
  BY <1>1, AccountStays DEF SignInGood, AccountOK
<1>7. CallsOK' /\ FailuresOK'
  BY <1>1 DEF SignInGood, CallsOK, FailuresOK, Busy, accountVars
<1> QED
  BY <1>5, <1>6, <1>7 DEF SignInGood

LEMMA InitSignInGood == Init => SignInGood
<1> SUFFICES ASSUME Init
             PROVE  SignInGood
  OBVIOUS
<1>1. /\ bucket \in [Addrs -> [units: 0 .. Capacity, at: 0 .. MaxTime]] /\ \A a \in Addrs : bucket[a].at <= now
      /\ now \in 0 .. MaxTime /\ passes \in [Addrs -> [0 .. MaxTime -> Nat]]
  BY LimitConstants DEF Init, ProtectionInit
<1>2. /\ score \in [Addrs -> [n: 0 .. Threshold - 1, until: 0 .. MaxTime + ScoreWindow]]
      /\ strikes \in [Addrs -> [n: Nat, until: 0 .. MaxTime + StrikeLife]]
      /\ ban \in [Addrs -> 0 .. MaxTime + BanMax]
  BY LimitConstants DEF Init, ProtectionInit
<1>3. LimitsOK
  BY <1>1, <1>2 DEF LimitsOK, ProtectionTypeOK, StrikesTyped, BucketsOK
<1>4. AccountOK
  <2>1. codes \in [CodeIds -> Code] /\ inbox \subseteq CodeIds
    BY Constants DEF Init, Code
  <2>2. 0 \in 0 .. MaxServed /\ 0 \in 0 .. MaxTime + LockMax
    BY Constants
  <2>3. status \in Statuses /\ verified \in BOOLEAN /\ failed = 0 /\ missed = 0 /\ locked = 0 /\ served = 0
    BY DEF Init, Statuses
  <2> QED
    BY <2>1, <2>2, <2>3 DEF AccountOK
<1>5. CallsOK
  BY IdleIsCall DEF Init, CallsOK
<1>6. Busy = {}
  BY IdleIsCall DEF Init, Busy
<1>7. FailuresOK
  BY <1>6, FS_EmptySet DEF Init, FailuresOK
<1> QED
  BY <1>3, <1>4, <1>5, <1>7 DEF SignInGood

LEMMA NextSignInGood == SignInGood /\ [Next]_vars => SignInGood'
<1> SUFFICES ASSUME SignInGood, [Next]_vars
             PROVE  SignInGood'
  OBVIOUS
<1>1. CASE UNCHANGED vars
  <2>1. LimitsOK' /\ AccountOK'
    BY <1>1, LimitsStay, AccountStays DEF vars, SignInGood, AccountOK
  <2> QED
    BY <1>1, <2>1 DEF vars, SignInGood, CallsOK, FailuresOK, Busy, accountVars
<1> QED
  BY <1>1, ArriveGood, RecognisedGood, LoginReadGood, LoginEndsGood, CodesGood, AbandonGood,
     SetUserStatusGood, TickGood DEF Next

LEMMA AlwaysSignInGood == Spec => []SignInGood
BY InitSignInGood, NextSignInGood, PTL DEF Spec

(* Every variable of SignIn and of Protection keeps its type.                *)
THEOREM SignInTyping == Spec => []TypeOK
<1>1. SignInGood => TypeOK
  BY DEF SignInGood, LimitsOK, AccountOK, TypeOK
<1> QED
  BY <1>1, AlwaysSignInGood, PTL

-----------------------------------------------------------------------------
(* The lock. *)

Low == {r \in Requests : call[r].at = "failed" /\ call[r].seen < FreeAttempts}
LockInv == locked = 0 => missed + Cardinality(Low) < FreeAttempts + Cardinality(Requests)

LEMMA LockKept ==
    ASSUME SignInGood, LockInv, UNCHANGED <<locked, missed>>, NEW r \in Requests,
           \A x \in Requests \ {r} : call'[x] = call[x],
           call'[r].at = "failed" => call[r].at = "failed" /\ call'[r].seen = call[r].seen
    PROVE  LockInv'
<1> DEFINE T == Low'
<1>1. T \in SUBSET Requests /\ Low \in SUBSET Requests /\ T \subseteq Low
  BY DEF Low
<1> HIDE DEF T
<1>2. /\ Cardinality(T) \in Nat /\ Cardinality(Low) \in Nat /\ Cardinality(T) <= Cardinality(Low)
      /\ Cardinality(Requests) \in Nat
  BY <1>1, Counted
<1>3. missed \in Nat /\ FreeAttempts \in Nat
  BY Constants DEF SignInGood, AccountOK
<1> QED
  BY <1>2, <1>3 DEF LockInv, T

(* A failure whose count was past the free ones locks the account; so the    *)
(* failures that do not are those of requests that read it before, and there *)
(* is one such request less each time.                                       *)
LEMMA LockStep ==
    ASSUME SignInGood, LockInv, [Next]_vars
    PROVE  LockInv'
<1>0. /\ call \in [Requests -> CallState] /\ missed \in Nat /\ failed = missed /\ locked \in Nat
      /\ now \in Nat /\ FreeAttempts \in Nat \ {0}
      /\ Idle.at = "idle" /\ Low \in SUBSET Requests /\ Low' \in SUBSET Requests
  BY Constants, IdleIsCall DEF SignInGood, CallsOK, AccountOK, FailuresOK, LimitsOK, ProtectionTypeOK, Low
<1>1. /\ Cardinality(Low) \in Nat /\ Cardinality(Low') \in Nat /\ Cardinality(Requests) \in Nat
      /\ Cardinality(Low') <= Cardinality(Requests)
  BY <1>0, Counted
<1>2. ASSUME NEW r \in Requests, NEW a \in Addrs, Recognised(r, a) \/ \E h \in Handlers : Arrive(r, a, h)
      PROVE  LockInv'
  <2>1. /\ UNCHANGED <<locked, missed>> /\ \A x \in Requests \ {r} : call'[x] = call[x]
        /\ call'[r].at # "failed"
    BY <1>0, <1>2 DEF Recognised, Arrive, LimitedByAddress, LimitedByUser, Admit, Refuse, Handlers, accountVars
  <2> QED
    BY <2>1, LockKept
<1>3. ASSUME NEW r \in Requests, LoginRead(r)
      PROVE  LockInv'
  <2>1. UNCHANGED <<locked, missed>> /\ \A x \in Requests \ {r} : call'[x] = call[x]
    BY <1>0, <1>3 DEF LoginRead, accountVars, Answer
  <2>2. CASE call'[r].at # "failed"
    BY <2>1, <2>2, LockKept
  <2>3. CASE call'[r].at = "failed"
    <3>1. call'[r].seen = missed /\ call[r].at = "login"
      BY <1>0, <1>3, <2>3 DEF LoginRead, Answer, CallState
    <3>2. CASE missed < FreeAttempts
      BY <1>0, <1>1, <2>1, <3>2 DEF LockInv
    <3>3. CASE ~(missed < FreeAttempts)
      <4>1. Low' \subseteq Low
        BY <1>0, <2>1, <3>1, <3>3 DEF Low
      <4>2. Cardinality(Low') <= Cardinality(Low)
        BY <1>0, <4>1, Counted
      <4> QED
        BY <1>0, <1>1, <2>1, <4>2 DEF LockInv
    <3> QED
      BY <3>2, <3>3
  <2> QED
    BY <2>2, <2>3
<1>4. ASSUME NEW r \in Requests, LoginFailed(r)
      PROVE  LockInv'
  <2> DEFINE d == LockoutDuration(call[r].seen + 1)
  <2>1. /\ locked' = IF d > 0 THEN now + d ELSE locked
        /\ missed' = missed + 1 /\ call[r].at = "failed" /\ call'[r] = Idle
        /\ \A x \in Requests \ {r} : call'[x] = call[x]
    BY <1>0, <1>4 DEF LoginFailed, RegisterFailedLogin, Answer
  <2>2. call[r].seen \in Nat /\ d \in Nat /\ (call[r].seen >= FreeAttempts => d > 0)
    <3>1. call[r].seen \in Nat
      BY <1>0 DEF CallState
    <3>2. d \in 0 .. LockMax /\ (call[r].seen + 1 > FreeAttempts => d > 0)
      BY <3>1, LocksAfterFree
    <3> QED
      BY <1>0, <3>1, <3>2, Constants
  <2> HIDE DEF d
  <2>3. CASE d > 0
    BY <1>0, <2>1, <2>2, <2>3 DEF LockInv
  <2>4. CASE d = 0
    <3>1. r \in Low /\ Low' \subseteq Low \ {r}
      BY <1>0, <2>1, <2>2, <2>4 DEF Low
    <3>2. Cardinality(Low') <= Cardinality(Low) - 1
      BY <1>0, <3>1, Counted
    <3> QED
      BY <1>0, <1>1, <2>1, <2>4, <3>2 DEF LockInv
  <2> QED
    BY <2>2, <2>3, <2>4
<1>5. ASSUME NEW r \in Requests, LoginSucceeded(r)
      PROVE  LockInv'
  BY <1>0, <1>1, <1>5 DEF LoginSucceeded, LockInv
<1>6. ASSUME NEW r \in Requests,
             \/ NotFound(r) \/ SendCode(r) \/ IssueCode(r) \/ IssueConflicts(r) \/ MailCode(r)
             \/ ConfirmCode(r) \/ ConfirmMistyped(r) \/ MarkVerified(r)
             \/ ReissueAccess(r) \/ Abandon(r)
      PROVE  LockInv'
  <2>1. UNCHANGED <<locked, missed>>
    BY <1>6 DEF NotFound, SendCode, IssueCode, IssueConflicts, MailCode, ConfirmCode, ConfirmMistyped,
                MarkVerified, ReissueAccess, Abandon, accountVars
  <2>2. \A x \in Requests \ {r} : call'[x] = call[x]
    BY <1>0, <1>6 DEF NotFound, SendCode, IssueCode, IssueConflicts, MailCode, ConfirmCode, Consume,
                      ConfirmMistyped, MarkVerified, ReissueAccess, Abandon, Answer, Goto
  <2>3. call'[r].at # "failed"
    BY <1>0, <1>6 DEF NotFound, SendCode, IssueCode, IssueConflicts, MailCode, ConfirmCode, Consume,
                      ConfirmMistyped, MarkVerified, ReissueAccess, Abandon, Answer, Goto, CallState
  <2> QED
    BY <2>1, <2>2, <2>3, LockKept
<1>7. CASE (\E st \in Statuses : SetUserStatus(st)) \/ Tick \/ UNCHANGED vars
  <2>1. UNCHANGED <<locked, missed, call>>
    BY <1>7 DEF SetUserStatus, Tick, vars, accountVars
  <2> QED
    BY <2>1 DEF LockInv, Low
<1> QED
  BY <1>2, <1>3, <1>4, <1>5, <1>6, <1>7 DEF Next

(* However many sign-ins run at once, an account with as many more failures  *)
(* since its last success than are free as requests can be served at a time  *)
(* has been locked: what RegisterFailedLogin promises of concurrent attempts.*)
THEOREM LateLocksAreBounded == Spec => []OvershootBounded
<1>1. Init => LockInv
  <2>1. Init => Low = {}
    BY IdleIsCall DEF Init, Low
  <2>2. Cardinality(Requests) \in Nat /\ FreeAttempts \in Nat \ {0} /\ Cardinality({}) = 0
    BY Constants, FS_CardinalityType, FS_EmptySet
  <2> QED
    BY <2>1, <2>2 DEF Init, LockInv
<1>2. SignInGood /\ LockInv => OvershootBounded
  <2>1. Low \in SUBSET Requests
    BY DEF Low
  <2>2. Cardinality(Low) \in Nat /\ Cardinality(Requests) \in Nat /\ FreeAttempts \in Nat
    BY <2>1, Counted, Constants
  <2> QED
    BY <2>2, Constants DEF SignInGood, AccountOK, LockInv, OvershootBounded
<1> QED
  BY <1>1, <1>2, AlwaysSignInGood, LockStep, PTL DEF Spec

-----------------------------------------------------------------------------
(* The status. *)

(* A confirmed code never lets a suspended or deleted account in again: only *)
(* an administrator, whose request is counted, changes such a status.        *)
THEOREM SuspensionHolds == Spec => SuspendedStays
<1>1. SignInGood /\ [Next]_vars =>
          [(status \in {"suspended", "deleted"}) => (status' = status \/ served' > served)]_vars
  <2> SUFFICES ASSUME SignInGood, Next, status \in {"suspended", "deleted"}, status' # status
               PROVE  served' > served
    OBVIOUS
  <2>1. served \in Nat
    BY Constants DEF SignInGood, AccountOK
  <2>2. ~Tick /\ \A r \in Requests : ~MarkVerified(r)
    BY DEF Tick, MarkVerified, accountVars
  <2>3. \E st \in Statuses : SetUserStatus(st)
    BY <2>2 DEF Next, Recognised, Arrive, NotFound, LoginRead, LoginFailed, LoginSucceeded, SendCode, IssueCode,
                IssueConflicts, MailCode, ConfirmCode, ConfirmMistyped, ReissueAccess, Abandon, accountVars
  <2> QED
    BY <2>1, <2>3 DEF SetUserStatus
<1> QED
  BY <1>1, AlwaysSignInGood, PTL DEF Spec, SuspendedStays

-----------------------------------------------------------------------------
(* The token bucket. What is let through and what is left never exceed what  *)
(* the bucket held and what time has brought back; and nothing is counted    *)
(* past the present.                                                         *)

Spent(a, s) == PassesBetween(a, s, now) * Window + Units(a) <= Capacity + (now - s) * Limit
RateInv ==
    /\ \A a \in Addrs : \A t \in now .. MaxTime : passes[a][t] = passes[a][now]
    /\ \A a \in Addrs, s \in 0 .. now : Spent(a, s)

LEMMA PassesAre ==
    ASSUME SignInGood, NEW a \in Addrs, NEW s \in 0 .. now
    PROVE  /\ now \in 0 .. MaxTime /\ MaxTime \in Nat /\ passes[a][now] \in Nat
           /\ s > 0 => passes[a][s - 1] \in Nat
           /\ PassesBetween(a, s, now) \in Int
<1>1. now \in 0 .. MaxTime /\ MaxTime \in Nat /\ passes[a] \in [0 .. MaxTime -> Nat]
  BY LimitConstants DEF SignInGood, LimitsOK, ProtectionTypeOK, BucketsOK
<1>2. passes[a][now] \in Nat /\ (s > 0 => passes[a][s - 1] \in Nat)
  BY <1>1
<1> QED
  BY <1>1, <1>2 DEF PassesBetween

(* A token is taken: one more request, and a window's worth of units less.   *)
LEMMA TakeRate ==
    ASSUME SignInGood, RateInv, NEW b \in Addrs, HasToken(b), TakeToken(b), UNCHANGED now
    PROVE  RateInv'
<1> DEFINE row == [t \in 0 .. MaxTime |-> IF t < now THEN passes[b][t] ELSE passes[b][t] + 1]
<1>0. /\ passes \in [Addrs -> [0 .. MaxTime -> Nat]] /\ passes' = [passes EXCEPT ![b] = row]
      /\ bucket \in [Addrs -> [units: 0 .. Capacity, at: 0 .. MaxTime]]
      /\ bucket' = [bucket EXCEPT ![b] = [units |-> Units(b) - Window, at |-> now]]
      /\ now \in 0 .. MaxTime /\ MaxTime \in Nat
  BY LimitConstants DEF SignInGood, LimitsOK, ProtectionTypeOK, BucketsOK, TakeToken
<1>1. \A t \in 0 .. MaxTime : row[t] = IF t < now THEN passes[b][t] ELSE passes[b][t] + 1
  OBVIOUS
<1> HIDE DEF row
<1>2. passes'[b] = row /\ \A a \in Addrs \ {b} : passes'[a] = passes[a] /\ bucket'[a] = bucket[a]
  BY <1>0
<1>3. Units(b) \in 0 .. Capacity /\ Window <= Units(b) /\ Window \in Nat /\ Limit \in Nat /\ Capacity \in Nat
  BY BucketTyped, LimitConstants DEF SignInGood, HasToken
<1>4. Units(b)' = Units(b) - Window
  <2>1. bucket'[b].units = Units(b) - Window /\ bucket'[b].at = now
    BY <1>0
  <2>2. now - now = 0 /\ ~(0 >= 2 * Window) /\ 0 * Limit = 0
    BY <1>0, <1>3, LimitConstants
  <2> QED
    BY <1>3, <2>1, <2>2 DEF Units, Least
<1>5. ASSUME NEW a \in Addrs, NEW t \in now .. MaxTime
      PROVE  passes'[a][t] = passes'[a][now]
  BY <1>0, <1>1, <1>2 DEF RateInv
<1>6. ASSUME NEW a \in Addrs, NEW s \in 0 .. now
      PROVE  Spent(a, s)'
  <2>1. Spent(a, s)
    BY DEF RateInv
  <2>2. CASE a # b
    BY <1>2, <2>1, <2>2 DEF Spent, PassesBetween, Units
  <2>3. CASE a = b
    <3>1. PassesBetween(a, s, now) \in Int /\ (s > 0 => s - 1 \in 0 .. MaxTime /\ s - 1 < now)
      BY <1>0, PassesAre
    <3>2. PassesBetween(a, s, now)' = PassesBetween(a, s, now) + 1
      BY <1>0, <1>1, <1>2, <2>3, <3>1, PassesAre DEF PassesBetween
    <3>3. (PassesBetween(a, s, now) + 1) * Window = PassesBetween(a, s, now) * Window + Window
          /\ PassesBetween(a, s, now) * Window \in Int /\ (now - s) * Limit \in Int
      <4>1. PassesBetween(a, s, now) \in Int /\ Window \in Int /\ now - s \in Int /\ Limit \in Int
        BY <1>0, <1>3, <3>1
      <4> QED
        BY <4>1, IntProduct
    <3> DEFINE x == PassesBetween(a, s, now) * Window
               y == (now - s) * Limit
    <3>4. x + Units(b) <= Capacity + y /\ x \in Int /\ y \in Int
      BY <2>1, <2>3, <3>3 DEF Spent
    <3>5. Spent(a, s)' <=> (x + Window) + (Units(b) - Window) <= Capacity + y
      BY <1>4, <2>3, <3>2, <3>3 DEF Spent
    <3> HIDE DEF x, y
    <3> QED
      BY <1>3, <3>4, <3>5
  <2> QED
    BY <2>2, <2>3
<1> QED
  BY <1>5, <1>6 DEF RateInv

(* A look at the bucket moves its time and what it holds by then.            *)
LEMMA RefuseRate ==
    ASSUME SignInGood, RateInv, NEW b \in Addrs, RefuseToken(b), UNCHANGED now
    PROVE  RateInv'
<1>1. /\ bucket \in [Addrs -> [units: 0 .. Capacity, at: 0 .. MaxTime]]
      /\ bucket' = [bucket EXCEPT ![b] = [units |-> Units(b), at |-> now]] /\ UNCHANGED passes
  BY DEF SignInGood, LimitsOK, BucketsOK, RefuseToken
<1>2. Units(b) \in 0 .. Capacity /\ now \in Nat /\ Window \in Nat \ {0} /\ Limit \in Nat /\ Capacity \in Nat
  BY BucketTyped, LimitConstants DEF SignInGood
<1>3. Units(b)' = Units(b)
  <2>1. bucket'[b].units = Units(b) /\ bucket'[b].at = now
    BY <1>1
  <2>2. now - now = 0 /\ ~(0 >= 2 * Window) /\ 0 * Limit = 0
    BY <1>2
  <2> QED
    BY <1>2, <2>1, <2>2 DEF Units, Least
<1>4. \A a \in Addrs : Units(a)' = Units(a)
  <2>1. \A a \in Addrs \ {b} : bucket'[a] = bucket[a]
    BY <1>1
  <2> QED
    BY <1>3, <2>1 DEF Units
<1> QED
  BY <1>1, <1>4 DEF RateInv, Spent, PassesBetween

LEMMA TickRate ==
    ASSUME SignInGood, RateInv, Tick
    PROVE  RateInv'
<1>1. /\ now' = now + 1 /\ now \in 0 .. MaxTime - 1 /\ MaxTime \in Nat
      /\ UNCHANGED <<bucket, passes>>
  BY LimitConstants DEF Tick, SignInGood, LimitsOK, ProtectionTypeOK, protectionVars
<1>2. Limit \in Nat /\ Window \in Nat /\ Capacity \in Nat
  BY LimitConstants
<1>3. ASSUME NEW a \in Addrs
      PROVE  Units(a)' \in 0 .. Capacity /\ Units(a)' <= Units(a) + Limit /\ Units(a) \in Nat
  <2> DEFINE d == now - bucket[a].at
             u == bucket[a].units
  <2>1. /\ Units(a) = Least(Capacity, u + d * Limit) /\ d \in Nat /\ u \in 0 .. Capacity
        /\ bucket[a].at \in 0 .. now
    BY <1>1, BucketTyped DEF SignInGood
  <2>2. now' - bucket'[a].at = d + 1 /\ bucket'[a].units = u
    BY <1>1, <2>1
  <2>3. Units(a)' = IF d + 1 >= 2 * Window THEN Capacity ELSE Least(Capacity, u + (d + 1) * Limit)
    BY <2>2 DEF Units
  <2> HIDE DEF d, u
  <2>4. Units(a)' = Least(Capacity, u + (d + 1) * Limit) /\ Units(a)' \in 0 .. Capacity
    <3>1. d + 1 \in Nat
      BY <2>1
    <3>2. Units(a)' = Least(Capacity, u + (d + 1) * Limit) /\ Units(a)' \in u .. Capacity
      BY <2>1, <2>3, <3>1, Refilled
    <3> QED
      BY <1>2, <2>1, <3>2
  <2>5. (d + 1) * Limit = d * Limit + Limit /\ d * Limit \in Nat
    BY <1>2, <2>1, Product
  <2> QED
    BY <1>2, <2>1, <2>4, <2>5 DEF Least
<1>4. ASSUME NEW a \in Addrs, NEW t \in now' .. MaxTime
      PROVE  passes'[a][t] = passes'[a][now']
  BY <1>1 DEF RateInv
<1>5. ASSUME NEW a \in Addrs, NEW s \in 0 .. now'
      PROVE  Spent(a, s)'
  <2>1. passes[a][now + 1] = passes[a][now] /\ passes[a][now] \in Nat
    <3>1. 0 \in 0 .. now
      BY <1>1
    <3> QED
      BY <1>1, <3>1, PassesAre DEF RateInv
  <2>2. CASE s = now + 1
    <3>1. PassesBetween(a, s, now)' = 0 /\ now' - s = 0
      BY <1>1, <2>1, <2>2 DEF PassesBetween
    <3> QED
      BY <1>1, <1>2, <1>3, <3>1 DEF Spent
  <2>3. CASE s \in 0 .. now
    <3>1. Spent(a, s) /\ PassesBetween(a, s, now) \in Int
      BY <2>3, PassesAre DEF RateInv
    <3>2. PassesBetween(a, s, now)' = PassesBetween(a, s, now)
      BY <1>1, <2>1 DEF PassesBetween
    <3>3. now' - s = (now - s) + 1 /\ now - s \in Nat
      BY <1>1, <2>3
    <3>4. ((now - s) + 1) * Limit = (now - s) * Limit + Limit /\ (now - s) * Limit \in Nat
      BY <1>2, <3>3, Product
    <3>5. PassesBetween(a, s, now) * Window \in Int
      BY <1>2, <3>1
    <3> QED
      BY <1>2, <1>3, <3>1, <3>2, <3>3, <3>4, <3>5 DEF Spent
  <2> QED
    BY <1>1, <2>2, <2>3
<1> QED
  BY <1>4, <1>5 DEF RateInv

LEMMA RateStays ==
    ASSUME RateInv, UNCHANGED <<now, bucket, passes>>
    PROVE  RateInv'
BY DEF RateInv, Spent, PassesBetween, Units

LEMMA RateStep ==
    ASSUME SignInGood, RateInv, [Next]_vars
    PROVE  RateInv'
<1>1. ASSUME NEW r \in Requests, NEW a \in Addrs, NEW h \in Handlers, Arrive(r, a, h)
      PROVE  RateInv'
  BY <1>1, TakeRate, RefuseRate, RateStays DEF Arrive, LimitedByAddress, LimitedByUser
<1>2. ASSUME NEW r \in Requests,
             \/ NotFound(r) \/ LoginRead(r) \/ LoginFailed(r) \/ LoginSucceeded(r)
             \/ SendCode(r) \/ IssueCode(r) \/ IssueConflicts(r) \/ MailCode(r)
             \/ ConfirmCode(r) \/ ConfirmMistyped(r) \/ MarkVerified(r)
             \/ ReissueAccess(r) \/ Abandon(r)
      PROVE  RateInv'
  <2>1. UNCHANGED <<now, bucket, passes>>
    BY <1>2 DEF NotFound, LoginRead, LoginFailed, LoginSucceeded, SendCode, IssueCode, IssueConflicts, MailCode,
                ConfirmCode, Consume, ConfirmMistyped, MarkVerified, ReissueAccess, Abandon, Answer, protectionVars
  <2> QED
    BY <2>1, RateStays
<1>3. CASE (\E r \in Requests, a \in Addrs : Recognised(r, a)) \/ (\E st \in Statuses : SetUserStatus(st))
           \/ UNCHANGED vars
  <2>1. UNCHANGED <<now, bucket, passes>>
    BY <1>3 DEF Recognised, SetUserStatus, vars, protectionVars
  <2> QED
    BY <2>1, RateStays
<1> QED
  BY <1>1, <1>2, <1>3, TickRate DEF Next

(* Between any two ticks an address gets no more requests through than the   *)
(* burst and the rate of the rule allow, for any rule, although its key dies *)
(* after two windows (pkg/ratelimit/ratelimit.go).                           *)
THEOREM RateIsBounded == Spec => []RateBound
<1>1. Init => RateInv
  <2> SUFFICES ASSUME Init
               PROVE  RateInv
    OBVIOUS
  <2>1. /\ now = 0 /\ \A a \in Addrs : bucket[a] = [units |-> Capacity, at |-> 0]
        /\ \A a \in Addrs, t \in 0 .. MaxTime : passes[a][t] = 0
        /\ MaxTime \in Nat /\ Capacity \in Nat /\ Window \in Nat \ {0} /\ Limit \in Nat
    BY LimitConstants DEF Init, ProtectionInit
  <2>2. \A a \in Addrs : Units(a) = Capacity /\ PassesBetween(a, 0, 0) = 0
    <3> SUFFICES ASSUME NEW a \in Addrs
                 PROVE  Units(a) = Capacity /\ PassesBetween(a, 0, 0) = 0
      OBVIOUS
    <3>1. bucket[a].units = Capacity /\ bucket[a].at = 0 /\ passes[a][0] = 0
      BY <2>1
    <3>2. Least(Capacity, Capacity + 0 * Limit) = Capacity /\ 0 - 0 = 0
      BY <2>1 DEF Least
    <3> QED
      BY <2>1, <3>1, <3>2 DEF Units, PassesBetween
  <2>3. 0 * Window = 0 /\ (0 - 0) * Limit = 0
    BY <2>1
  <2>4. \A a \in Addrs, s \in 0 .. now : Spent(a, s)
    BY <2>1, <2>2, <2>3 DEF Spent
  <2> QED
    BY <2>1, <2>4 DEF RateInv
<1>2. SignInGood /\ RateInv => RateBound
  <2> SUFFICES ASSUME SignInGood, RateInv, NEW a \in Addrs, NEW s \in 0 .. now
               PROVE  PassesBetween(a, s, now) * Window <= Capacity + (now - s) * Limit
    BY DEF RateBound
  <2>1. Spent(a, s) /\ PassesBetween(a, s, now) \in Int /\ now \in Nat
    BY PassesAre DEF RateInv
  <2>2. Units(a) \in 0 .. Capacity /\ Window \in Nat /\ Limit \in Nat /\ Capacity \in Nat
    BY BucketTyped, LimitConstants DEF SignInGood
  <2>3. PassesBetween(a, s, now) * Window \in Int /\ (now - s) * Limit \in Int
    BY <2>1, <2>2
  <2> QED
    BY <2>1, <2>2, <2>3 DEF Spent
<1> QED
  BY <1>1, <1>2, AlwaysSignInGood, RateStep, PTL DEF Spec

-----------------------------------------------------------------------------
(* The bans. *)

(* The last ban was set for no longer than the strikes counted then ask, and *)
(* the strikes are remembered from then.                                     *)
StrikesInv ==
    \A a \in Addrs :
        /\ strikes[a].n = 0 => ban[a] = 0
        /\ strikes[a].n > 0 => /\ strikes[a].until <= now + StrikeLife
                               /\ ban[a] + StrikeLife <= strikes[a].until + BanFor(strikes[a].n)

LEMMA RegisterBan ==
    ASSUME SignInGood, StrikesInv, NEW a \in Addrs, NEW weight \in Nat, RegisterSuspicious(a, weight),
           UNCHANGED now
    PROVE  StrikesInv' /\ \A x \in Addrs : ban'[x] >= ban[x]
<1> DEFINE k == Alive(strikes[a]) + 1
<1>0. /\ now \in 0 .. MaxTime /\ MaxTime \in Nat
      /\ strikes \in [Addrs -> [n: Nat, until: 0 .. MaxTime + StrikeLife]]
      /\ ban \in [Addrs -> 0 .. MaxTime + BanMax]
      /\ BanMax \in Nat /\ StrikeLife \in Nat \ {0} /\ BanMax <= StrikeLife
  BY LimitConstants DEF SignInGood, LimitsOK, ProtectionTypeOK, StrikesTyped
<1>1. k \in Nat \ {0}
  BY <1>0 DEF Alive
<1>2. BanFor(k) \in 1 .. BanMax
  BY <1>1, BanForGrows
<1>3. CASE UNCHANGED <<strikes, ban>>
  BY <1>0, <1>3 DEF StrikesInv
<1>4. CASE /\ strikes' = [strikes EXCEPT ![a] = [n |-> k, until |-> now + StrikeLife]]
           /\ ban' = [ban EXCEPT ![a] = now + BanFor(k)]
  <2>1. ban[a] <= now + BanFor(k)
    <3> DEFINE n == strikes[a].n
    <3>1. n \in Nat /\ strikes[a].until \in Nat /\ ban[a] \in Nat /\ now \in Nat
      BY <1>0
    <3>2. CASE n = 0
      BY <1>2, <3>1, <3>2 DEF StrikesInv
    <3>3. CASE n # 0 /\ strikes[a].until > now
      <4>1. k = n + 1 /\ BanFor(n) <= BanFor(n + 1) /\ BanFor(n) \in 1 .. BanMax
        BY <1>0, <3>1, <3>3, BanForGrows DEF Alive
      <4>2. strikes[a].until <= now + StrikeLife /\ ban[a] + StrikeLife <= strikes[a].until + BanFor(n)
        BY <3>1, <3>3 DEF StrikesInv
      <4> QED
        BY <1>0, <1>2, <3>1, <4>1, <4>2
    <3>4. CASE n # 0 /\ ~(strikes[a].until > now)
      <4>1. ban[a] + StrikeLife <= strikes[a].until + BanFor(n) /\ BanFor(n) \in 1 .. BanMax
        BY <3>1, <3>4, BanForGrows DEF StrikesInv
      <4> QED
        BY <1>0, <1>2, <3>1, <3>4, <4>1
    <3> QED
      BY <3>2, <3>3, <3>4
  <2> HIDE DEF k
  <2>2. /\ strikes'[a].n = k /\ strikes'[a].until = now + StrikeLife /\ ban'[a] = now + BanFor(k)
        /\ \A x \in Addrs \ {a} : strikes'[x] = strikes[x] /\ ban'[x] = ban[x]
    BY <1>0, <1>4
  <2>3. \A x \in Addrs : ban'[x] >= ban[x]
    BY <1>0, <2>1, <2>2
  <2>4. StrikesInv'
    BY <1>0, <1>1, <1>2, <2>2 DEF StrikesInv
  <2> QED
    BY <2>3, <2>4
<1> QED
  BY <1>3, <1>4 DEF RegisterSuspicious

LEMMA BansStay ==
    ASSUME SignInGood, StrikesInv, UNCHANGED <<strikes, ban>>, now' \in Nat, now <= now'
    PROVE  StrikesInv' /\ \A x \in Addrs : ban'[x] >= ban[x]
<1>0. /\ now \in Nat
      /\ strikes \in [Addrs -> [n: Nat, until: 0 .. MaxTime + StrikeLife]]
      /\ ban \in [Addrs -> 0 .. MaxTime + BanMax] /\ StrikeLife \in Nat /\ MaxTime \in Nat /\ BanMax \in Nat
  BY LimitConstants DEF SignInGood, LimitsOK, ProtectionTypeOK, StrikesTyped
<1> QED
  BY <1>0 DEF StrikesInv

LEMMA PunishBan ==
    ASSUME SignInGood, StrikesInv, NEW a \in Addrs, NEW what, PunishStatus(a, what), UNCHANGED now
    PROVE  StrikesInv' /\ \A x \in Addrs : ban'[x] >= ban[x]
<1>1. Weight(what) \in {0, 1, 2, 3}
  BY DEF Weight
<1>2. CASE Weight(what) = 0
  <2>1. now \in Nat
    BY LimitConstants DEF SignInGood, LimitsOK, ProtectionTypeOK
  <2> QED
    BY <1>2, <2>1, BansStay DEF PunishStatus
<1>3. CASE Weight(what) # 0
  BY <1>1, <1>3, RegisterBan DEF PunishStatus
<1> QED
  BY <1>2, <1>3

LEMMA BanStep ==
    ASSUME SignInGood, StrikesInv, [Next]_vars
    PROVE  StrikesInv' /\ \A x \in Addrs : ban'[x] >= ban[x]
<1>0. now \in Nat /\ \A r \in Requests : call[r].addr \in Addrs
  BY LimitConstants DEF SignInGood, LimitsOK, ProtectionTypeOK, CallsOK, CallState
<1>1. ASSUME NEW r \in Requests, NEW a \in Addrs, NEW h \in Handlers, Arrive(r, a, h)
      PROVE  StrikesInv' /\ \A x \in Addrs : ban'[x] >= ban[x]
  BY <1>0, <1>1, PunishBan, BansStay DEF Arrive, LimitedByAddress, LimitedByUser, Refuse
<1>2. ASSUME NEW r \in Requests, NEW a \in Addrs, Recognised(r, a)
      PROVE  StrikesInv' /\ \A x \in Addrs : ban'[x] >= ban[x]
  <2>1. \E weight \in Nat : RegisterSuspicious(a, weight)
    BY <1>2 DEF Recognised, OddWeights, ScannerWeight
  <2> QED
    BY <1>2, <2>1, RegisterBan DEF Recognised
<1>3. ASSUME NEW r \in Requests,
             \/ NotFound(r) \/ LoginRead(r) \/ LoginFailed(r) \/ LoginSucceeded(r)
             \/ SendCode(r) \/ IssueCode(r) \/ IssueConflicts(r) \/ MailCode(r)
             \/ ConfirmCode(r) \/ ConfirmMistyped(r) \/ MarkVerified(r)
             \/ ReissueAccess(r) \/ Abandon(r)
      PROVE  StrikesInv' /\ \A x \in Addrs : ban'[x] >= ban[x]
  <2>1. UNCHANGED now
        /\ (UNCHANGED <<strikes, ban>> \/ \E what : PunishStatus(call[r].addr, what))
    BY <1>3 DEF NotFound, LoginRead, LoginFailed, LoginSucceeded, SendCode, IssueCode, IssueConflicts, MailCode,
                ConfirmCode, Consume, ConfirmMistyped, MarkVerified, ReissueAccess, Abandon, Answer, protectionVars
  <2> QED
    BY <1>0, <2>1, BansStay, PunishBan
<1>4. CASE (\E st \in Statuses : SetUserStatus(st)) \/ Tick \/ UNCHANGED vars
  <2>1. UNCHANGED <<strikes, ban>> /\ now' \in Nat /\ now <= now'
    BY <1>0, <1>4 DEF SetUserStatus, Tick, vars, protectionVars
  <2> QED
    BY <2>1, BansStay
<1> QED
  BY <1>1, <1>2, <1>3, <1>4 DEF Next

(* A ban is not shortened by a later one: the duration doubles with the      *)
(* strikes up to the longest ban, and the strikes are remembered as long     *)
(* (registerScript of pkg/ratelimit/blocklist.go).                           *)
THEOREM BansAreNeverShortened == Spec => BanNeverShortened
<1>1. Init => StrikesInv
  <2> SUFFICES ASSUME Init
               PROVE  StrikesInv
    OBVIOUS
  <2> SUFFICES ASSUME NEW a \in Addrs
               PROVE  strikes[a].n = 0 /\ ban[a] = 0 /\ ~(strikes[a].n > 0)
    BY DEF StrikesInv
  <2>1. strikes = [x \in Addrs |-> [n |-> 0, until |-> 0]] /\ ban = [x \in Addrs |-> 0]
    BY DEF Init, ProtectionInit
  <2>2. strikes[a] = [n |-> 0, until |-> 0] /\ ban[a] = 0
    BY <2>1
  <2>3. strikes[a].n = 0
    BY <2>2
  <2> QED
    BY <2>2, <2>3
<1>2. SignInGood /\ StrikesInv /\ [Next]_vars => StrikesInv' /\ [\A a \in Addrs : ban'[a] >= ban[a]]_vars
  BY BanStep
<1> QED
  BY <1>1, <1>2, AlwaysSignInGood, PTL DEF Spec, BanNeverShortened
=============================================================================
