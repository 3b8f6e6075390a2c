------------------------------ MODULE SecClient ------------------------------
(***************************************************************************)
(* The client of SEC (sec/client.py).  All its callers share one lock and  *)
(* the time of the last request: a caller computes under the lock how long *)
(* it has to wait, sleeps, and stamps the time.  A request that fails for  *)
(* a reason that may pass is sent again after a pause, MaxAttempts times   *)
(* in all, and each time it has to wait its turn again.                    *)
(*                                                                         *)
(* Time is in ticks.  since is the time since the last stamp, up to        *)
(* Interval, beyond which the code does not distinguish it.                *)
(***************************************************************************)
EXTENDS Integers

CONSTANTS
    Callers,        \* threads that share the client
    Nobody,         \* the holder of the lock when it is free
    Interval,       \* 1 / sec_requests_per_second
    MaxAttempts     \* stop_after_attempt

ASSUME ClientAssumption ==
    /\ Nobody \notin Callers
    /\ Interval \in Nat
    /\ MaxAttempts \in Nat \ {0}

VARIABLES
    pc,         \* where the call of each caller stands
    lock,       \* the holder of _rate_lock
    since,      \* time since _last_request_at
    nap,        \* what is left of each caller's time.sleep
    attempt,    \* attempt_number of the current call
    retries,    \* retry_count of the log entry of the current call
    result      \* what the last call returned or raised

client == <<pc, lock, since, nap, attempt, retries, result>>

Least(a, b) == IF a <= b THEN a ELSE b
Excess(a, b) == IF a > b THEN a - b ELSE 0

----------------------------------------------------------------------------
(* Plausible mistakes.  Each definition replaces the action it is named    *)
(* after when the properties are tested; the specification uses none.      *)

\* The waiting time is computed before the lock is taken.
Acquire_NoLock(c) ==
    /\ pc[c] = "locking"
    /\ nap' = [nap EXCEPT ![c] = Excess(Interval, since)]
    /\ pc' = [pc EXCEPT ![c] = "sleeping"]
    /\ UNCHANGED <<lock, since, attempt, retries, result>>

\* Every retry is counted but the first.
Retryable_CountsRepeats(c) ==
    /\ pc[c] = "sent"
    /\ attempt[c] < MaxAttempts
    /\ pc' = [pc EXCEPT ![c] = "pausing"]
    /\ retries' = [retries EXCEPT ![c] = IF attempt[c] > 1 THEN @ + 1 ELSE @]
    /\ UNCHANGED <<lock, since, nap, attempt, result>>

\* A retry calls get anew, which counts from one.
Retry_CallsGet(c) ==
    /\ pc[c] = "pausing"
    /\ pc' = [pc EXCEPT ![c] = "locking"]
    /\ attempt' = [attempt EXCEPT ![c] = 1]
    /\ retries' = [retries EXCEPT ![c] = 0]
    /\ UNCHANGED <<lock, since, nap, result>>

----------------------------------------------------------------------------

ClientInit ==
    /\ pc = [c \in Callers |-> "idle"]
    /\ lock = Nobody
    /\ since = Interval
    /\ nap = [c \in Callers |-> 0]
    /\ attempt = [c \in Callers |-> 0]
    /\ retries = [c \in Callers |-> 0]
    /\ result = [c \in Callers |-> "none"]

\* get is called.
Call(c) ==
    /\ pc[c] = "idle"
    /\ pc' = [pc EXCEPT ![c] = "locking"]
    /\ attempt' = [attempt EXCEPT ![c] = 1]
    /\ retries' = [retries EXCEPT ![c] = 0]
    /\ UNCHANGED <<lock, since, nap, result>>

\* The lock is taken, and the clock read.
Acquire(c) ==
    /\ pc[c] = "locking"
    /\ lock = Nobody
    /\ lock' = c
    /\ nap' = [nap EXCEPT ![c] = Excess(Interval, since)]
    /\ pc' = [pc EXCEPT ![c] = "sleeping"]
    /\ UNCHANGED <<since, attempt, retries, result>>

\* The sleep is over: the time is stamped, the lock released, the request sent.
Send(c) ==
    /\ pc[c] = "sleeping"
    /\ nap[c] = 0
    /\ since' = 0
    /\ lock' = Nobody
    /\ pc' = [pc EXCEPT ![c] = "sent"]
    /\ UNCHANGED <<nap, attempt, retries, result>>

Return(c, outcome) ==
    /\ pc' = [pc EXCEPT ![c] = "idle"]
    /\ result' = [result EXCEPT ![c] = outcome]
    /\ attempt' = [attempt EXCEPT ![c] = 0]
    /\ retries' = [retries EXCEPT ![c] = 0]
    /\ UNCHANGED <<lock, since, nap>>

\* A response, or an error that would only repeat itself, a 404 among them.
Answer(c) ==
    /\ pc[c] = "sent"
    /\ \E outcome \in {"ok", "missing", "raised"} : Return(c, outcome)

\* 429, 5xx, a timeout or a broken connection: the retry is logged, and the
\* caller pauses; after the last attempt the error is raised.
Retryable(c) ==
    /\ pc[c] = "sent"
    /\ IF attempt[c] < MaxAttempts
       THEN /\ pc' = [pc EXCEPT ![c] = "pausing"]
            /\ retries' = [retries EXCEPT ![c] = @ + 1]
            /\ UNCHANGED <<lock, since, nap, attempt, result>>
       ELSE Return(c, "raised")

\* The pause is over, however long it is.
Retry(c) ==
    /\ pc[c] = "pausing"
    /\ pc' = [pc EXCEPT ![c] = "locking"]
    /\ attempt' = [attempt EXCEPT ![c] = @ + 1]
    /\ UNCHANGED <<lock, since, nap, retries, result>>

\* The clock.
Tick ==
    /\ since' = Least(since + 1, Interval)
    /\ nap' = [c \in Callers |-> Excess(nap[c], 1)]
    /\ UNCHANGED <<pc, lock, attempt, retries, result>>

\* What a call does once it is made.
CallStep(c) == Acquire(c) \/ Send(c) \/ Answer(c) \/ Retryable(c) \/ Retry(c)

\* The client with callers that call it at any time.
ClientNext == Tick \/ \E c \in Callers : Call(c) \/ CallStep(c)

ClientSpec == ClientInit /\ [][ClientNext]_client

----------------------------------------------------------------------------
(* Properties                                                              *)

\* The types of the client's attributes and of the locals of get.
ClientTypeOK ==
    /\ pc \in [Callers -> {"idle", "locking", "sleeping", "sent", "pausing"}]
    /\ lock \in Callers \cup {Nobody}
    /\ since \in 0 .. Interval
    /\ nap \in [Callers -> 0 .. Interval]
    /\ attempt \in [Callers -> 0 .. MaxAttempts]
    /\ retries \in [Callers -> 0 .. MaxAttempts - 1]
    /\ result \in [Callers -> {"none", "ok", "missing", "raised"}]

\* Whichever threads send, for the first time or again, a request is stamped no
\* earlier than Interval after the one before (_rate_limit).
Spaced ==
    [][\A c \in Callers : pc[c] = "sleeping" /\ pc'[c] = "sent" => since = Interval]_client

\* retry_count in the log is the number of requests sent after the first, until
\* the call is over (_before_retry_sleep, increment_retry).
RetriesCounted ==
    \A c \in Callers :
        /\ pc[c] = "idle" => retries[c] = 0
        /\ pc[c] = "pausing" => retries[c] = attempt[c]
        /\ pc[c] \in {"locking", "sleeping", "sent"} => retries[c] = attempt[c] - 1
=============================================================================
