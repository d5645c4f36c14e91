---------------------------- MODULE Idempotency -----------------------------
(***************************************************************************)
(* The copies of one request that carry one Idempotency-Key: a client that *)
(* gets no answer in time, or loses the connection, sends another copy.    *)
(* The middleware looks for a stored answer, takes a lock in Redis, runs   *)
(* the handler, stores a successful answer, answers the client, and        *)
(* removes the lock: each a step of its own, between which other copies    *)
(* run, the client may give up, or the process may die.                    *)
(*                                                                         *)
(* A client that gives up cancels the context of its copy: what the        *)
(* handler would still write and the storing of the answer then fail; the  *)
(* removal of the lock does not (context.WithoutCancel).                   *)
(*                                                                         *)
(* Left out: the check of the key, the day after which a stored answer is  *)
(* forgotten, and a Redis that does not answer (the handler then runs      *)
(* without any protection).                                                *)
(***************************************************************************)
EXTENDS Naturals

CONSTANTS
    Copies,        \* copies of the request
    NoCopy,        \* nobody holds the lock
    SlowHandlers,  \* may a handler take longer than idempotencyLockTTL
    MayGiveUp,     \* may the client go away
    MayCrash       \* may the process die

ASSUME IdempotencyAssumption ==
    /\ NoCopy \notin Copies
    /\ SlowHandlers \in BOOLEAN
    /\ MayGiveUp \in BOOLEAN
    /\ MayCrash \in BOOLEAN

VARIABLES
    stored,   \* is an answer stored under the key
    lock,     \* the copy that set the lock
    pc,       \* where each copy is
    gone,     \* the copies whose client has gone away
    answer,   \* the answer each copy has
    effects,  \* how often the handler took effect
    before    \* the copies whose success was known when each copy began

idempotencyVars == <<stored, lock, pc, gone, answer, effects, before>>

IdempotencyInit ==
    /\ stored = FALSE
    /\ lock = NoCopy
    /\ pc = [c \in Copies |-> "new"]
    /\ gone = {}
    /\ answer = [c \in Copies |-> "none"]
    /\ effects = 0
    /\ before = [c \in Copies |-> {}]

(* The copies whose client was told of a success.                          *)
Succeeded == {c \in Copies : answer[c] = "success" /\ pc[c] \in {"unlock", "done"} /\ c \notin gone}

-----------------------------------------------------------------------------
(* Mutant: the stored answer is not looked for.                            *)
FoundNothing == FALSE

(* GET finds an answer under the key.                                      *)
Found == stored

(* Mutant: an answer that cannot be read is passed on as it is.            *)
StoredAnswerUnread == "unread"

StoredAnswer == "replay"

(* GET: a stored answer is replayed.                                       *)
LookUp(c) ==
    /\ pc[c] = "new"
    /\ before' = [before EXCEPT ![c] = Succeeded]
    /\ IF Found
       THEN /\ pc' = [pc EXCEPT ![c] = "done"]
            /\ answer' = [answer EXCEPT ![c] = StoredAnswer]
       ELSE /\ pc' = [pc EXCEPT ![c] = "missed"]
            /\ UNCHANGED answer
    /\ UNCHANGED <<stored, lock, gone, effects>>

(* Mutant: the lock is set whether it is there or not.                     *)
MaySetLockAlways == TRUE

MaySetLock == lock = NoCopy

(* SETNX: while another copy is at work this one is told to wait.          *)
TakeLock(c) ==
    /\ pc[c] = "missed"
    /\ IF MaySetLock
       THEN /\ lock' = c
            /\ pc' = [pc EXCEPT ![c] = "running"]
            /\ UNCHANGED answer
       ELSE /\ pc' = [pc EXCEPT ![c] = "done"]
            /\ answer' = [answer EXCEPT ![c] = "conflict"]
            /\ UNCHANGED lock
    /\ UNCHANGED <<stored, gone, effects, before>>

(* The handler takes effect and says so; or takes effect and fails on what *)
(* comes after its transaction; or fails.  Without its client it writes    *)
(* nothing any more.                                                       *)
Handle(c) ==
    /\ pc[c] = "running"
    /\ \/ /\ c \notin gone
          /\ effects' = effects + 1
          /\ \E a \in {"success", "failure"} : answer' = [answer EXCEPT ![c] = a]
       \/ /\ answer' = [answer EXCEPT ![c] = "failure"]
          /\ UNCHANGED effects
    /\ pc' = [pc EXCEPT ![c] = "answering"]
    /\ UNCHANGED <<stored, lock, gone, before>>

(* SET, for a 2xx answer and a context that is not cancelled.              *)
StoredAfter(c) == stored \/ (answer[c] = "success" /\ c \notin gone)

StoreAndAnswer(c) ==
    /\ pc[c] = "answering"
    /\ stored' = StoredAfter(c)
    /\ pc' = [pc EXCEPT ![c] = "unlock"]
    /\ UNCHANGED <<lock, gone, answer, effects, before>>

(* The deferred DEL: whoever set the lock.                                 *)
Unlock(c) ==
    /\ pc[c] = "unlock"
    /\ lock' = NoCopy
    /\ pc' = [pc EXCEPT ![c] = "done"]
    /\ UNCHANGED <<stored, gone, answer, effects, before>>

(* Mutant: the lock is set without a time to live.                         *)
LockExpiresNever ==
    /\ lock # NoCopy
    /\ SlowHandlers
    /\ lock' = NoCopy
    /\ UNCHANGED <<stored, pc, gone, answer, effects, before>>

(* The time to live of the lock is over: its copy has died or, if handlers *)
(* may be that slow, is still at work.                                     *)
LockExpires ==
    /\ lock # NoCopy
    /\ SlowHandlers \/ pc[lock] = "done"
    /\ lock' = NoCopy
    /\ UNCHANGED <<stored, pc, gone, answer, effects, before>>

(* The client gives up before its copy is answered.                        *)
GiveUp(c) ==
    /\ MayGiveUp
    /\ pc[c] \in {"running", "answering"}
    /\ gone' = gone \cup {c}
    /\ UNCHANGED <<stored, lock, pc, answer, effects, before>>

(* The process dies, and the copy with it.                                 *)
Crash(c) ==
    /\ MayCrash
    /\ pc[c] \notin {"new", "done"}
    /\ pc' = [pc EXCEPT ![c] = "done"]
    /\ gone' = gone \cup {c}
    /\ UNCHANGED <<stored, lock, answer, effects, before>>

-----------------------------------------------------------------------------
Serve(c) == TakeLock(c) \/ Handle(c) \/ StoreAndAnswer(c) \/ Unlock(c)

IdempotencyNext ==
    \/ \E c \in Copies : LookUp(c) \/ Serve(c) \/ GiveUp(c) \/ Crash(c)
    \/ LockExpires

(* A copy that was begun is served, unless its process dies, and time goes *)
(* on.                                                                     *)
IdempotencySpec ==
    /\ IdempotencyInit /\ [][IdempotencyNext]_idempotencyVars
    /\ \A c \in Copies : WF_idempotencyVars(Serve(c))
    /\ WF_idempotencyVars(LockExpires)

-----------------------------------------------------------------------------
(* Every variable keeps its type.                                          *)
IdempotencyTypeOK ==
    /\ stored \in BOOLEAN
    /\ lock \in Copies \cup {NoCopy}
    /\ pc \in [Copies -> {"new", "missed", "running", "answering", "unlock", "done"}]
    /\ gone \subseteq Copies
    /\ answer \in [Copies -> {"none", "replay", "conflict", "success", "failure"}]
    /\ effects \in Nat
    /\ before \in [Copies -> SUBSET Copies]

(* While no handler outlives the lock, two copies are never at work at     *)
(* once: SETNX lets one in, and only that one, or the end of its time,     *)
(* removes the lock.                                                       *)
OneAtATime ==
    \A c, d \in Copies :
        pc[c] \in {"running", "answering", "unlock"} /\ pc[d] \in {"running", "answering", "unlock"}
            => c = d

(* Once a client was told of a success, a copy it sends later never runs   *)
(* the handler again, whatever was given up, died or expired in between.   *)
ToldMeansReplayed ==
    \A c \in Copies : before[c] # {} => pc[c] = "done" /\ answer[c] = "replay"

(* What is replayed did happen.                                            *)
ReplaysAreTrue == (\E c \in Copies : answer[c] = "replay") => effects > 0

(* A key is never locked for ever: after a crash the lock ends with its    *)
(* time to live.                                                           *)
KeyIsFreed == []<>(lock = NoCopy)
=============================================================================
