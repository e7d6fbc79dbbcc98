------------------------------ MODULE Semaphore ------------------------------
(***************************************************************************)
(* client-lib/semaphores.c, the pthread build: a counter under a mutex and *)
(* a condition variable.  Each thread runs SemaphoreTake and SemaphoreGive *)
(* any number of times; at[t] is where it is in them.                      *)
(***************************************************************************)
EXTENDS Integers, FiniteSets

CONSTANTS
    Takers, Givers,     \* the threads that call Take, and those that call Give
    NoThread,
    initVal,
    MaxValue,           \* callers stop giving at this value ...
    MaxDebt,            \* ... and taking once it is this far below zero
    Spurious            \* may pthread_cond_wait() return without a signal?

Thread == Takers \cup Givers

ASSUME SemaphoreAssumption ==
    /\ IsFiniteSet(Takers) /\ IsFiniteSet(Givers)
    /\ NoThread \notin Thread
    /\ initVal \in Nat /\ MaxValue \in Nat /\ MaxDebt \in Nat
    /\ Spurious \in BOOLEAN

VARIABLES
    mutex,      \* the thread that holds it
    value,
    at

semvars == <<mutex, value, at>>

(* "wait" is asleep in pthread_cond_wait, "woken" is past the signal and   *)
(* still without the mutex.                                                *)
At == {"out", "test", "wait", "woken", "dec", "inc", "signal", "unlock"}

SemTypeOK ==
    /\ mutex \in Thread \cup {NoThread}
    /\ value \in Int
    /\ at \in [Thread -> At]

SemaphoreCreate ==
    /\ mutex = NoThread
    /\ value = initVal
    /\ at = [t \in Thread |-> "out"]

(* pthread_mutex_lock: on entry, and inside pthread_cond_wait after a      *)
(* wake-up, where the code goes on to value-- without a second test.       *)
Lock(t, from, to) ==
    /\ mutex = NoThread /\ at[t] = from
    /\ mutex' = t
    /\ at' = [at EXCEPT ![t] = to]
    /\ UNCHANGED value

TakeTest(t) ==
    /\ at[t] = "test"
    /\ IF value = 0
       THEN mutex' = NoThread /\ at' = [at EXCEPT ![t] = "wait"]
       ELSE UNCHANGED mutex /\ at' = [at EXCEPT ![t] = "dec"]
    /\ UNCHANGED value

TakeDec(t) ==
    /\ at[t] = "dec"
    /\ value' = value - 1
    /\ at' = [at EXCEPT ![t] = "unlock"]
    /\ UNCHANGED mutex

GiveInc(t) ==
    /\ at[t] = "inc"
    /\ value' = value + 1
    /\ at' = [at EXCEPT ![t] = "signal"]
    /\ UNCHANGED mutex

Asleep == {t \in Thread : at[t] = "wait"}

(* A SemaphoreGive that signals only when the counter was zero before, as  *)
(* if one wake-up were enough for every give that follows it.              *)
GiveSignal_edge(t) ==
    /\ at[t] = "signal"
    /\ IF Asleep = {} \/ value # 1
       THEN at' = [at EXCEPT ![t] = "unlock"]
       ELSE \E w \in Asleep : at' = [at EXCEPT ![t] = "unlock", ![w] = "woken"]
    /\ UNCHANGED <<mutex, value>>

(* pthread_cond_signal wakes one sleeper, if there is one.                 *)
GiveSignal(t) ==
    /\ at[t] = "signal"
    /\ IF Asleep = {}
       THEN at' = [at EXCEPT ![t] = "unlock"]
       ELSE \E w \in Asleep : at' = [at EXCEPT ![t] = "unlock", ![w] = "woken"]
    /\ UNCHANGED <<mutex, value>>

SpuriousWakeup(t) ==
    /\ Spurious /\ at[t] = "wait"
    /\ at' = [at EXCEPT ![t] = "woken"]
    /\ UNCHANGED <<mutex, value>>

Unlock(t) ==
    /\ at[t] = "unlock"
    /\ mutex' = NoThread
    /\ at' = [at EXCEPT ![t] = "out"]
    /\ UNCHANGED value

(* One call of each, between "out" and "unlock".                           *)
SemaphoreTake(t) ==
    \/ value > -MaxDebt /\ Lock(t, "out", "test")
    \/ TakeTest(t)
    \/ SpuriousWakeup(t)
    \/ Lock(t, "woken", "dec")
    \/ TakeDec(t)

SemaphoreGive(t) ==
    \/ value < MaxValue /\ Lock(t, "out", "inc")
    \/ GiveInc(t)
    \/ GiveSignal(t)

SemNext ==
    \/ \E t \in Takers : SemaphoreTake(t)
    \/ \E t \in Givers : SemaphoreGive(t)
    \/ \E t \in Thread : Unlock(t)

SemSpec == SemaphoreCreate /\ [][SemNext]_semvars
-------------------------------------------------------------------------------
(* The threads that have a signal to hand on or a unit to take away.       *)
Pending == {t \in Thread : at[t] \in {"woken", "dec", "signal"}}

(* No wake-up is lost: while a thread sleeps in SemaphoreTake, every unit  *)
(* of the counter is already spoken for, however takes, gives, overtaking  *)
(* and spurious wake-ups interleave.                                       *)
NoLostWakeup == Asleep # {} => value <= Cardinality(Pending)
===============================================================================
