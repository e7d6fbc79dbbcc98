--------------------------- MODULE SemaphoreProofs ---------------------------
(***************************************************************************)
(* SemaphoreTake and SemaphoreGive lose no wake-up, for any number of      *)
(* threads, any initial value and with or without spurious wake-ups.       *)
(***************************************************************************)
EXTENDS Semaphore, FiniteSetTheorems, TLAPS

SemInv == SemTypeOK /\ NoLostWakeup

(* How many threads are pending is a natural number.                       *)
LEMMA PendingFinite ==
    SemTypeOK => IsFiniteSet(Pending) /\ Cardinality(Pending) \in Nat
<1>1. IsFiniteSet(Thread)
  BY SemaphoreAssumption, FS_Union DEF Thread
<1>2. Pending \subseteq Thread
  BY DEF Pending
<1> QED
  BY <1>1, <1>2, FS_Subset, FS_CardinalityType

(* One more or one less element: what a step does to a set it counts.      *)
LEMMA AddOne ==
    ASSUME NEW S, IsFiniteSet(S), NEW x, x \notin S
    PROVE  Cardinality(S \cup {x}) = Cardinality(S) + 1
BY FS_AddElement

(* The same for taking an element out.                                    *)
LEMMA RemoveOne ==
    ASSUME NEW S, IsFiniteSet(S), NEW x \in S
    PROVE  Cardinality(S \ {x}) = Cardinality(S) - 1
BY FS_RemoveElement

(* SemaphoreCreate: nobody sleeps yet.                                     *)
LEMMA SemInitInv == SemaphoreCreate => SemInv
BY SemaphoreAssumption DEF SemaphoreCreate, SemInv, SemTypeOK, NoLostWakeup, Asleep, At

(* Inside the mutex, on the way in and on the way out: a step that moves t *)
(* between places that are neither asleep nor pending, or from pending to  *)
(* pending, changes nothing the invariant looks at.                        *)
LEMMA MoveInv ==
    ASSUME SemInv, NEW t \in Thread, NEW to \in At,
           at' = [at EXCEPT ![t] = to], value' = value,
           mutex' \in Thread \cup {NoThread},
           at[t] # "wait", to # "wait",
           t \in Pending <=> to \in {"woken", "dec", "signal"}
    PROVE  SemInv'
<1>1. SemTypeOK'
  BY DEF SemInv, SemTypeOK
<1>2. Asleep' = Asleep
  BY DEF SemInv, SemTypeOK, Asleep
<1>3. Pending' = Pending
  BY DEF SemInv, SemTypeOK, Pending
<1> QED
  BY <1>1, <1>2, <1>3 DEF SemInv, NoLostWakeup

(* A step that makes t pending and adds at most one unit: the test of      *)
(* SemaphoreTake passed, value++ done, or a spurious wake-up.              *)
LEMMA AddInv ==
    ASSUME SemInv, NEW t \in Thread, NEW to \in {"woken", "dec", "signal"},
           at' = [at EXCEPT ![t] = to],
           value' = value \/ value' = value + 1,
           mutex' = mutex,
           t \notin Pending, value' = value \/ at[t] # "wait"
    PROVE  SemInv'
<1>1. SemTypeOK'
  BY DEF SemInv, SemTypeOK, At
<1>2. Asleep' \subseteq Asleep
  BY DEF SemInv, SemTypeOK, Asleep
<1>3. Pending' = Pending \cup {t}
  BY DEF SemInv, SemTypeOK, Pending
<1>4. IsFiniteSet(Pending) /\ Cardinality(Pending) \in Nat
  BY PendingFinite DEF SemInv
<1>5. Cardinality(Pending') = Cardinality(Pending) + 1
  BY <1>3, <1>4, AddOne
<1>6. value \in Int /\ (Asleep # {} => value <= Cardinality(Pending))
  BY DEF SemInv, SemTypeOK, NoLostWakeup
<1>7. Asleep' # {} => value' <= Cardinality(Pending')
  <2>1. SUFFICES ASSUME Asleep' # {} PROVE value' <= Cardinality(Pending')
    OBVIOUS
  <2>2. value <= Cardinality(Pending)
    BY <1>2, <1>6, <2>1
  <2> QED
    BY <1>4, <1>5, <1>6, <2>2
<1> QED
  BY <1>1, <1>7 DEF SemInv, NoLostWakeup

(* value == 0: t goes to sleep, and there is no unit it could have had.    *)
LEMMA SleepInv ==
    ASSUME SemInv, NEW t \in Thread, at[t] = "test", value = 0, value' = value,
           mutex' = NoThread, at' = [at EXCEPT ![t] = "wait"]
    PROVE  SemInv'
<1>1. SemTypeOK'
  BY DEF SemInv, SemTypeOK, At
<1>2. Pending' = Pending
  BY DEF SemInv, SemTypeOK, Pending
<1>3. Cardinality(Pending) \in Nat
  BY PendingFinite DEF SemInv
<1> QED
  BY <1>1, <1>2, <1>3 DEF SemInv, NoLostWakeup

(* value--: the unit and the thread that was to take it go together.       *)
LEMMA DecInv ==
    ASSUME SemInv, NEW t \in Thread, TakeDec(t)
    PROVE  SemInv'
<1>1. SemTypeOK'
  BY DEF SemInv, SemTypeOK, At, TakeDec
<1>2. Asleep' = Asleep
  BY DEF SemInv, SemTypeOK, Asleep, TakeDec
<1>3. Pending' = Pending \ {t} /\ t \in Pending
  BY DEF SemInv, SemTypeOK, Pending, TakeDec
<1>4. IsFiniteSet(Pending) /\ Cardinality(Pending) \in Nat
  BY PendingFinite DEF SemInv
<1>5. Cardinality(Pending') = Cardinality(Pending) - 1
  BY <1>3, <1>4, RemoveOne
<1>6. value \in Int /\ value' = value - 1 /\ (Asleep # {} => value <= Cardinality(Pending))
  BY DEF SemInv, SemTypeOK, NoLostWakeup, TakeDec
<1>7. Asleep' # {} => value' <= Cardinality(Pending')
  BY <1>2, <1>4, <1>5, <1>6
<1> QED
  BY <1>1, <1>7 DEF SemInv, NoLostWakeup

(* pthread_cond_signal: the signalling thread hands its place to the one   *)
(* it wakes; without a sleeper there is nothing to keep.                   *)
LEMMA SignalInv ==
    ASSUME SemInv, NEW t \in Thread, GiveSignal(t)
    PROVE  SemInv'
<1>1. CASE Asleep = {}
  <2>1. at' = [at EXCEPT ![t] = "unlock"] /\ mutex' = mutex /\ value' = value
    BY <1>1 DEF GiveSignal
  <2>2. SemTypeOK'
    BY <2>1 DEF SemInv, SemTypeOK, At
  <2>3. Asleep' = {}
    BY <1>1, <2>1 DEF SemInv, SemTypeOK, Asleep
  <2> QED
    BY <2>2, <2>3 DEF SemInv, NoLostWakeup
<1>2. CASE Asleep # {}
  <2>1. PICK w \in Asleep : at' = [at EXCEPT ![t] = "unlock", ![w] = "woken"]
    BY <1>2 DEF GiveSignal
  <2>2. w \in Thread /\ at[w] = "wait" /\ at[t] = "signal" /\ w # t
    BY <2>1 DEF GiveSignal, Asleep
  <2>3. mutex' = mutex /\ value' = value
    BY DEF GiveSignal
  <2>4. SemTypeOK'
    BY <2>1, <2>2, <2>3 DEF SemInv, SemTypeOK, At
  <2>5. t \in Pending /\ w \notin Pending \ {t} /\ Pending' = (Pending \ {t}) \cup {w}
    BY <2>1, <2>2 DEF SemInv, SemTypeOK, Pending
  <2>6. IsFiniteSet(Pending) /\ Cardinality(Pending) \in Nat
    BY PendingFinite DEF SemInv
  <2>7. IsFiniteSet(Pending \ {t})
    BY <2>6, FS_Subset
  <2>8. Cardinality(Pending \ {t}) = Cardinality(Pending) - 1
    BY <2>5, <2>6, RemoveOne
  <2>9. Cardinality(Pending') = Cardinality(Pending)
    BY <2>5, <2>6, <2>7, <2>8, AddOne
  <2>10. value <= Cardinality(Pending)
    BY <1>2 DEF SemInv, NoLostWakeup
  <2> QED
    BY <2>3, <2>4, <2>9, <2>10 DEF SemInv, NoLostWakeup
<1> QED
  BY <1>1, <1>2

(* Every step of every thread preserves the invariant.                     *)
LEMMA SemNextInv == SemInv /\ [SemNext]_semvars => SemInv'
<1> SUFFICES ASSUME SemInv, [SemNext]_semvars PROVE SemInv'
  OBVIOUS
<1>1. ASSUME NEW t \in Thread, SemaphoreTake(t) PROVE SemInv'
  <2>1. CASE Lock(t, "out", "test")
    BY <2>1, MoveInv DEF Lock, At, Pending
  <2>2. CASE TakeTest(t) /\ value = 0
    BY <2>2, SleepInv DEF TakeTest
  <2>3. CASE TakeTest(t) /\ value # 0
    <3>1. /\ at' = [at EXCEPT ![t] = "dec"] /\ value' = value /\ mutex' = mutex
          /\ t \notin Pending
      BY <2>3 DEF TakeTest, Pending
    <3> QED
      BY <3>1, AddInv
  <2>4. CASE SpuriousWakeup(t)
    <3>1. /\ at' = [at EXCEPT ![t] = "woken"] /\ value' = value /\ mutex' = mutex
          /\ t \notin Pending
      BY <2>4 DEF SpuriousWakeup, Pending
    <3> QED
      BY <3>1, AddInv
  <2>5. CASE Lock(t, "woken", "dec")
    BY <2>5, MoveInv DEF Lock, At, Pending
  <2>6. CASE TakeDec(t)
    BY <2>6, DecInv
  <2> QED
    BY <1>1, <2>1, <2>2, <2>3, <2>4, <2>5, <2>6 DEF SemaphoreTake
<1>2. ASSUME NEW t \in Thread, SemaphoreGive(t) PROVE SemInv'
  <2>1. CASE Lock(t, "out", "inc")
    BY <2>1, MoveInv DEF Lock, At, Pending
  <2>2. CASE GiveInc(t)
    <3>1. /\ at' = [at EXCEPT ![t] = "signal"] /\ value' = value + 1 /\ mutex' = mutex
          /\ t \notin Pending /\ at[t] # "wait"
      BY <2>2 DEF GiveInc, Pending
    <3> QED
      BY <3>1, AddInv
  <2>3. CASE GiveSignal(t)
    BY <2>3, SignalInv
  <2> QED
    BY <1>2, <2>1, <2>2, <2>3 DEF SemaphoreGive
<1>3. ASSUME NEW t \in Thread, Unlock(t) PROVE SemInv'
  BY <1>3, MoveInv DEF Unlock, At, Pending
<1>4. CASE UNCHANGED semvars
  BY <1>4 DEF semvars, SemInv, SemTypeOK, NoLostWakeup, Asleep, Pending
<1> QED
  BY <1>1, <1>2, <1>3, <1>4 DEF SemNext, Thread

(* SemaphoreTake and SemaphoreGive never leave a thread asleep beside a    *)
(* unit nobody is on the way to take: for every set of threads, initial    *)
(* value and bound, spurious wake-ups included.                            *)
THEOREM WakeupsKept == SemSpec => []NoLostWakeup
<1>1. SemSpec => []SemInv
  BY SemInitInv, SemNextInv, PTL DEF SemSpec
<1>2. SemInv => NoLostWakeup
  BY DEF SemInv
<1> QED
  BY <1>1, <1>2, PTL
===============================================================================
