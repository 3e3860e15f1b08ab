---------------------------- MODULE RateLimiter_proofs ----------------------------
(***************************************************************************)
(* What the rate limiter promises, for every limit, window, number of      *)
(* concurrent requests and latency.                                        *)
(***************************************************************************)
EXTENDS RateLimiter, TLAPS, FiniteSetTheorems

\* A waiting request is at most Latency old.
CallsAreRecent ==
  \A r \in Requests : call[r].waiting => call[r].at \leq now /\ now \leq call[r].at + Latency

\* Admitted requests have times of the past.
LogIsPast == \A i \in 1..Len(log) : log[i] \leq now /\ log[i] + Window \leq expires

\* What the window does not hold any more is older than a window.
ForgottenIsOld == \A i \in (1..Len(log)) \ window : log[i] + Window \leq now

IInv == TypeOK /\ CallsAreRecent /\ LogIsPast /\ ForgottenIsOld /\ NoBurst

--------------------------------------------------------------------------------

\* The window is finite, and the script leaves a part of it.
LEMMA KeptIsPart ==
  ASSUME TypeOK, NEW r \in Requests
  PROVE  /\ IsFiniteSet(window) /\ IsFiniteSet(Kept(r))
         /\ Kept(r) \subseteq window
         /\ Cardinality(Kept(r)) \in Nat /\ Cardinality(Kept(r)) \leq Cardinality(window)
<1>1. IsFiniteSet(1..Len(log))
  BY FS_Interval DEF TypeOK
<1>2. IsFiniteSet(window)
  BY <1>1, FS_Subset DEF TypeOK
<1>3. Kept(r) \subseteq window
  BY DEF Kept
<1>4. IsFiniteSet(Kept(r)) /\ Cardinality(Kept(r)) \leq Cardinality(window)
  BY <1>2, <1>3, FS_Subset
<1>5. QED
  BY <1>2, <1>3, <1>4, FS_CardinalityType

\* When the script counts less than Limit, one of the last Limit admissions
\* has left the window, and is older than a window.
LEMMA OneIsForgotten ==
  ASSUME IInv, NEW r \in Requests, call[r].waiting,
         Cardinality(Kept(r)) < Limit, Len(log) \geq Limit
  PROVE  \E j \in (Len(log) + 1 - Limit)..Len(log) : log[j] + Window \leq now
<1> DEFINE Last == (Len(log) + 1 - Limit)..Len(log)
<1>1. Len(log) \in Nat /\ Limit \in Nat \ {0} /\ Window \in Nat
  BY LimiterAssumption DEF IInv, TypeOK
<1>2. IsFiniteSet(Last) /\ Cardinality(Last) = Limit
  <2>1. Len(log) + 1 - Limit \in Int /\ Len(log) \in Int
    BY <1>1
  <2>2. IsFiniteSet(Last)
    BY <2>1, FS_Interval
  <2>3. Cardinality(Last) = Len(log) - (Len(log) + 1 - Limit) + 1
    BY <1>1, <2>1, FS_Interval
  <2>4. QED
    BY <1>1, <2>2, <2>3
<1>3. ~(Last \subseteq Kept(r))
  <2>1. SUFFICES ASSUME Last \subseteq Kept(r) PROVE FALSE
    OBVIOUS
  <2>2. Cardinality(Last) \leq Cardinality(Kept(r))
    BY <2>1, KeptIsPart, FS_Subset DEF IInv
  <2>3. Cardinality(Kept(r)) \in Nat
    BY KeptIsPart DEF IInv
  <2>4. QED
    BY <1>1, <1>2, <2>2, <2>3
<1>4. PICK j \in Last : j \notin Kept(r)
  BY <1>3
<1>5. j \in 1..Len(log) /\ log[j] \in Nat
  BY <1>1, <1>4 DEF IInv, TypeOK
<1>6. call[r].at \in Nat /\ call[r].at \leq now /\ now \in Nat
  BY DEF IInv, TypeOK, CallsAreRecent
<1>7. CASE j \in window
  BY <1>1, <1>4, <1>5, <1>6, <1>7 DEF Kept
<1>8. CASE j \notin window
  BY <1>5, <1>4, <1>8 DEF IInv, ForgottenIsOld
<1>9. QED
  BY <1>4, <1>7, <1>8

--------------------------------------------------------------------------------

LEMMA InitIInv == Init => IInv
<1> SUFFICES ASSUME Init PROVE IInv
  OBVIOUS
<1> USE DEF Init
<1>1. Len(log) = 0 /\ log \in Seq(Nat)
  OBVIOUS
<1>2. TypeOK
  BY <1>1, FS_EmptySet, LimiterAssumption DEF TypeOK
<1>3. CallsAreRecent /\ LogIsPast /\ ForgottenIsOld /\ NoBurst
  BY <1>1 DEF CallsAreRecent, LogIsPast, ForgottenIsOld, NoBurst
<1>4. QED
  BY <1>2, <1>3 DEF IInv

LEMMA AdmitIInv == ASSUME IInv, NEW r \in Requests, Admit(r) PROVE IInv'
<1> DEFINE n == Len(log)
<1>1. /\ n \in Nat /\ log \in Seq(Nat) /\ now \in Nat /\ call[r].at \in Nat
      /\ Limit \in Nat \ {0} /\ Window \in Nat /\ Grace \in Nat /\ Latency \in Nat
      /\ call[r].waiting /\ call[r].at \leq now /\ now \leq call[r].at + Latency
  BY LimiterAssumption DEF IInv, TypeOK, CallsAreRecent, Admit
<1>2. /\ log' \in Seq(Nat) /\ Len(log') = n + 1 /\ log'[n + 1] = call[r].at
      /\ \A i \in 1..n : log'[i] = log[i]
  BY <1>1 DEF Admit
<1>3. window' = Kept(r) \cup {n + 1} /\ now' = now /\ expires' = now + Window + Grace
  BY <1>2 DEF Admit
<1>4. /\ \A i \in 1..n : log[i] \in Nat /\ log[i] \leq now
      /\ Kept(r) \subseteq window /\ window \subseteq 1..n
  <2>1. TypeOK /\ LogIsPast
    BY DEF IInv
  <2>2. \A i \in 1..n : log[i] \in Nat
    BY <1>1
  <2>3. Kept(r) \subseteq window
    BY <2>1, KeptIsPart
  <2>4. QED
    BY <2>1, <2>2, <2>3 DEF TypeOK, LogIsPast
<1>5. Cardinality(window') \leq Limit
  <2>1. n + 1 \notin Kept(r) /\ IsFiniteSet(Kept(r)) /\ Cardinality(Kept(r)) \in Nat
    BY <1>1, <1>4, KeptIsPart DEF IInv
  <2>2. Cardinality(window') = Cardinality(Kept(r)) + 1
    BY <1>3, <2>1, FS_AddElement
  <2>3. QED
    BY <1>1, <2>1, <2>2 DEF Admit
<1>6. call' \in [Requests -> [waiting : BOOLEAN, at : Nat]] /\ CallsAreRecent'
  BY <1>1, <1>3 DEF IInv, TypeOK, CallsAreRecent, Admit, Answered
<1>7. TypeOK'
  <2>1. 1..n \subseteq 1..(n + 1) /\ n + 1 \in 1..(n + 1)
    BY <1>1
  <2>2. window' \subseteq 1..(n + 1)
    BY <1>3, <1>4, <2>1
  <2>3. window' \subseteq 1..Len(log')
    BY <1>2, <2>2
  <2>4. QED
    BY <1>1, <1>2, <1>3, <1>5, <1>6, <2>3 DEF TypeOK
<1>8. LogIsPast'
  <2>1. ASSUME NEW i \in 1..(n + 1)
        PROVE  log'[i] \leq now /\ log'[i] + Window \leq now + Window + Grace
    <3>1. CASE i \in 1..n
      <4>1. log'[i] \in Nat /\ log'[i] \leq now
        BY <1>2, <1>4, <3>1
      <4>2. QED
        BY <1>1, <4>1
    <3>2. CASE i = n + 1
      BY <1>1, <1>2, <3>2
    <3>3. QED
      BY <1>1, <3>1, <3>2
  <2>2. QED
    BY <1>2, <1>3, <2>1 DEF LogIsPast
<1>9. ForgottenIsOld'
  <2>1. ASSUME NEW i \in (1..(n + 1)) \ (Kept(r) \cup {n + 1}) PROVE log[i] + Window \leq now
    <3>1. i \in 1..n /\ log[i] \in Nat
      BY <1>1, <1>4, <2>1
    <3>2. CASE i \in window
      BY <1>1, <2>1, <3>1, <3>2 DEF Kept
    <3>3. CASE i \notin window
      BY <3>1, <3>3 DEF IInv, ForgottenIsOld
    <3>4. QED
      BY <3>2, <3>3
  <2>2. ASSUME NEW i \in (1..(n + 1)) \ (Kept(r) \cup {n + 1}) PROVE log'[i] + Window \leq now
    <3>1. i \in 1..n
      BY <1>1, <2>2
    <3>2. QED
      BY <1>2, <2>1, <2>2, <3>1
  <2>3. QED
    BY <1>2, <1>3, <2>2 DEF ForgottenIsOld
<1>10. NoBurst'
  <2> SUFFICES ASSUME NEW i \in 1..(n + 1), i > Limit
               PROVE  \E j \in (i - Limit)..(i - 1) : log'[j] + Window \leq log'[i] + Latency
    BY <1>2 DEF NoBurst
  <2>1. CASE i \in 1..n
    <3>1. PICK j \in (i - Limit)..(i - 1) : log[j] + Window \leq log[i] + Latency
      BY <2>1 DEF IInv, NoBurst
    <3>2. j \in 1..n
      BY <1>1, <2>1
    <3>3. QED
      BY <1>2, <2>1, <3>1, <3>2
  <2>2. CASE i = n + 1
    <3>1. n \geq Limit
      BY <1>1, <2>2
    <3>2. PICK j \in (n + 1 - Limit)..n : log[j] + Window \leq now
      BY <1>1, <3>1, OneIsForgotten DEF Admit
    <3>3. j \in 1..n
      BY <1>1, <3>1, <3>2
    <3>4. log'[j] = log[j] /\ log[j] \in Nat /\ log'[i] = call[r].at
      BY <1>2, <1>4, <2>2, <3>3
    <3>5. log'[j] + Window \leq log'[i] + Latency
      <4>1. /\ call[r].at \in Nat /\ now \in Nat /\ Window \in Nat /\ Latency \in Nat
            /\ now \leq call[r].at + Latency
        BY <1>1
      <4>2. log[j] + Window \leq call[r].at + Latency
        BY <3>2, <3>4, <4>1
      <4>3. QED
        BY <3>4, <4>2
    <3>6. j \in (i - Limit)..(i - 1)
      BY <1>1, <2>2, <3>2
    <3>7. QED
      BY <3>5, <3>6
  <2>3. QED
    BY <1>1, <2>1, <2>2
<1>11. QED
  BY <1>6, <1>7, <1>8, <1>9, <1>10 DEF IInv

\* Refusals, drops and samples leave the log; a refusal prunes the window.
LEMMA RequestIInv ==
  ASSUME IInv, NEW r \in Requests, Sample(r) \/ Refuse(r) \/ Drop(r)
  PROVE  IInv'
<1>1. /\ UNCHANGED <<now, log, expires>>
      /\ window' = window \/ window' = Kept(r)
  BY DEF Sample, Refuse, Drop
<1>2. /\ call' \in [Requests -> [waiting : BOOLEAN, at : Nat]]
      /\ CallsAreRecent'
  <2>1. now \in Nat /\ Latency \in Nat
    BY LimiterAssumption DEF IInv, TypeOK
  <2>2. CASE Sample(r)
    BY <1>1, <2>1, <2>2 DEF IInv, TypeOK, CallsAreRecent, Sample
  <2>3. CASE Refuse(r) \/ Drop(r)
    BY <1>1, <2>1, <2>3 DEF IInv, TypeOK, CallsAreRecent, Refuse, Drop, Answered
  <2>4. QED
    BY <2>2, <2>3
<1>3. TypeOK'
  <2>1. Cardinality(window') \leq Limit /\ window' \subseteq 1..Len(log)
    <3>1. Cardinality(window) \leq Limit /\ IsFiniteSet(window) /\ Limit \in Nat
      BY KeptIsPart, LimiterAssumption DEF IInv, TypeOK
    <3>2. Cardinality(window) \in Nat
      BY <3>1, FS_CardinalityType
    <3>3. /\ Kept(r) \subseteq window /\ Cardinality(Kept(r)) \in Nat
          /\ Cardinality(Kept(r)) \leq Cardinality(window)
      BY KeptIsPart DEF IInv
    <3>4. window \subseteq 1..Len(log)
      BY DEF IInv, TypeOK
    <3>5. Cardinality(Kept(r)) \leq Limit
      BY <3>1, <3>2, <3>3
    <3>6. Kept(r) \subseteq 1..Len(log)
      BY <3>3, <3>4
    <3>7. CASE window' = window
      BY <3>1, <3>4, <3>7
    <3>8. CASE window' = Kept(r)
      BY <3>5, <3>6, <3>8
    <3>9. QED
      BY <1>1, <3>7, <3>8
  <2>2. QED
    BY <1>1, <1>2, <2>1 DEF IInv, TypeOK
<1>4. LogIsPast' /\ NoBurst'
  BY <1>1 DEF IInv, LogIsPast, NoBurst
<1>5. ForgottenIsOld'
  <2>1. CASE window' = window
    BY <1>1, <2>1 DEF IInv, ForgottenIsOld
  <2>2. CASE window' = Kept(r) /\ call[r].waiting
    <3>1. /\ call[r].at \in Nat /\ call[r].at \leq now /\ now \in Nat /\ Window \in Nat
          /\ \A i \in 1..Len(log) : log[i] \in Nat
      BY <2>2, LimiterAssumption DEF IInv, TypeOK, CallsAreRecent
    <3>2. ASSUME NEW i \in (1..Len(log)) \ Kept(r) PROVE log[i] + Window \leq now
      <4>1. CASE i \in window
        BY <3>1, <3>2, <4>1 DEF Kept
      <4>2. CASE i \notin window
        BY <3>2, <4>2 DEF IInv, ForgottenIsOld
      <4>3. QED
        BY <4>1, <4>2
    <3>3. QED
      BY <1>1, <2>2, <3>2 DEF ForgottenIsOld
  <2>3. QED
    BY <2>1, <2>2 DEF Sample, Refuse, Drop
<1>6. QED
  BY <1>2, <1>3, <1>4, <1>5 DEF IInv

LEMMA TickIInv == ASSUME IInv, Tick PROVE IInv'
<1>1. /\ now \in Nat /\ now' = now + 1 /\ UNCHANGED <<call, log, expires>>
      /\ expires \in Nat /\ Window \in Nat /\ Limit \in Nat
      /\ \A i \in 1..Len(log) : log[i] \in Nat
  BY LimiterAssumption DEF IInv, TypeOK, Tick
<1>2. window' = window \/ (window' = {} /\ now + 1 \geq expires)
  BY <1>1 DEF Tick
<1>3. TypeOK'
  <2>1. Cardinality(window') \leq Limit /\ window' \subseteq 1..Len(log)
    <3>1. CASE window' = window
      BY <3>1 DEF IInv, TypeOK
    <3>2. CASE window' = {}
      BY <1>1, <3>2, FS_EmptySet
    <3>3. QED
      BY <1>2, <3>1, <3>2
  <2>2. QED
    BY <1>1, <2>1 DEF IInv, TypeOK
<1>4. CallsAreRecent'
  BY <1>1, LimiterAssumption DEF IInv, TypeOK, CallsAreRecent, Tick
<1>5. LogIsPast' /\ NoBurst'
  BY <1>1 DEF IInv, LogIsPast, NoBurst
<1>6. ForgottenIsOld'
  BY <1>1, <1>2 DEF IInv, ForgottenIsOld, LogIsPast
<1>7. QED
  BY <1>3, <1>4, <1>5, <1>6 DEF IInv

LEMMA NextIInv == IInv /\ [Next]_vars => IInv'
<1> SUFFICES ASSUME IInv, [Next]_vars PROVE IInv'
  OBVIOUS
<1>1. ASSUME NEW r \in Requests, Sample(r) \/ Admit(r) \/ Refuse(r) \/ Drop(r) PROVE IInv'
  BY <1>1, AdmitIInv, RequestIInv
<1>2. CASE Tick
  BY <1>2, TickIInv
<1>3. CASE UNCHANGED vars
  BY <1>3 DEF IInv, TypeOK, CallsAreRecent, LogIsPast, ForgottenIsOld, NoBurst, vars
<1>4. QED
  BY <1>1, <1>2, <1>3 DEF Next

LEMMA Invariance == Spec => []IInv
BY InitIInv, NextIInv, PTL DEF Spec

--------------------------------------------------------------------------------

(* The variables have their types, and the sorted set never holds more than *)
(* Limit members.                                                           *)
THEOREM LimiterTypes == Spec => []TypeOK
<1>1. IInv => TypeOK
  BY DEF IInv
<1>2. QED
  BY <1>1, Invariance, PTL

(* No burst: among the Limit admissions before any other one is a window    *)
(* older, less the latency, though requests overtake one another between    *)
(* the sample and the script and though Redis expires the key.              *)
THEOREM LimiterAdmits == Spec => []NoBurst
<1>1. IInv => NoBurst
  BY DEF IInv
<1>2. QED
  BY <1>1, Invariance, PTL

(* A refusal is earned: whoever is refused finds Limit admissions within    *)
(* the window before its own time.                                          *)
THEOREM LimiterRefuses == Spec => RefusedJustly
<1>1. ASSUME TypeOK, NEW r \in Requests, Refuse(r)
      PROVE  Cardinality({i \in 1..Len(log) : log[i] + Window > call[r].at}) \geq Limit
  <2> DEFINE Recent == {i \in 1..Len(log) : log[i] + Window > call[r].at}
  <2>1. Kept(r) \subseteq Recent
    BY <1>1 DEF Kept, TypeOK
  <2>2. IsFiniteSet(Recent)
    <3>1. IsFiniteSet(1..Len(log)) /\ Recent \subseteq 1..Len(log)
      BY <1>1, FS_Interval DEF TypeOK
    <3>2. QED
      BY <3>1, FS_Subset
  <2>3. Cardinality(Kept(r)) \leq Cardinality(Recent)
    BY <2>1, <2>2, FS_Subset
  <2>4. Cardinality(Kept(r)) \in Nat /\ Cardinality(Recent) \in Nat
    BY <1>1, <2>2, KeptIsPart, FS_CardinalityType
  <2>5. QED
    BY <1>1, <2>3, <2>4, LimiterAssumption DEF Refuse
<1>2. TypeOK /\ [Next]_vars =>
        [\A r \in Requests : Refuse(r) =>
           Cardinality({i \in 1..Len(log) : log[i] + Window > call[r].at}) \geq Limit]_vars
  BY <1>1
<1>3. QED
  BY <1>2, LimiterTypes, PTL DEF Spec, RefusedJustly
================================================================================
