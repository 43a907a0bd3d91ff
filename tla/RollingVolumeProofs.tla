------------------------- MODULE RollingVolumeProofs -------------------------
(***************************************************************************)
(* Proofs about RollingVolume: what the fixed bucket of the Solana program *)
(* bounds, for every limit, window and sequence of transfers.              *)
(***************************************************************************)
EXTENDS RollingVolume, SumsProofs, SequenceTheorems

\* What initialize and set_limit accept: some limits, and a window that is not
\* empty.
Configured ==
    /\ IsFiniteSet(LimitValues) /\ LimitValues # {} /\ LimitValues \subseteq Nat
    /\ Amounts \subseteq Nat
    /\ Seconds \in Nat \ {0}

-----------------------------------------------------------------------------
(* The inductive invariant *)

TransferType == [at : Nat, amount : Nat]

\* A transfer is never older than its bucket allows: a later one would have
\* opened a bucket of its own.
Shape ==
    /\ window \in [start : Nat, total : Nat] /\ window.start <= clock
    /\ limit \in LimitValues
    /\ clock \in Nat
    /\ log \in Seq(TransferType) /\ resets \in 0 .. Len(log)
    /\ \A i \in DOMAIN log : log[i].at <= clock /\ log[i].at < window.start + Seconds

Largest == Max(LimitValues)

\* Transfers since the last reset: in the present bucket, in the time just
\* before it, and in the stretch that begins at t.
InBucket == {i \in DOMAIN log : i > resets /\ log[i].at >= window.start}
JustBefore ==
    {i \in DOMAIN log : i > resets /\ window.start < log[i].at + Seconds /\ log[i].at < window.start}
Stretch(t) == {i \in DOMAIN log : i > resets /\ log[i].at \in t..(t + Seconds - 1)}

\* The stretch that reaches into the present bucket can only touch the bucket
\* before it, so that one's bound has to be remembered after it has closed.
VInv ==
    /\ Shape
    /\ window.total = VolumeOf(InBucket) /\ window.total <= Largest
    /\ VolumeOf(JustBefore) <= Largest
    /\ \A t \in Nat : VolumeOf(Stretch(t)) <= 2 * Largest

-----------------------------------------------------------------------------
(* Facts about volumes *)

\* What each transfer carries; VolumeOf sums over it.
Shares == [i \in DOMAIN log |-> log[i].amount]

LEMMA LogFacts ==
    ASSUME Shape
    PROVE  /\ Len(log) \in Nat /\ DOMAIN log = 1 .. Len(log) /\ IsFiniteSet(DOMAIN log)
           /\ \A i \in DOMAIN log : log[i] \in TransferType /\ log[i].amount \in Nat /\ log[i].at \in Nat
<1>1. log \in Seq(TransferType)
    BY DEF Shape
<1>2. Len(log) \in Nat /\ DOMAIN log = 1 .. Len(log)
    BY <1>1, LenProperties
<1>3. IsFiniteSet(DOMAIN log)
    BY <1>2, FS_Interval
<1>4. \A i \in 1 .. Len(log) : log[i] \in TransferType
    BY <1>1, <1>2
<1> QED
    BY <1>2, <1>3, <1>4 DEF TransferType

LEMMA LogFactsNext ==
    ASSUME Shape'
    PROVE  /\ IsFiniteSet(DOMAIN log')
           /\ \A i \in DOMAIN log' : log'[i].amount \in Nat /\ log'[i].at \in Nat
<1>1. log' \in Seq(TransferType)
    BY DEF Shape
<1>2. Len(log') \in Nat /\ DOMAIN log' = 1 .. Len(log')
    BY <1>1, LenProperties
<1>3. IsFiniteSet(DOMAIN log')
    BY <1>2, FS_Interval
<1>4. \A i \in 1 .. Len(log') : log'[i] \in TransferType
    BY <1>1, <1>2
<1> QED
    BY <1>2, <1>3, <1>4 DEF TransferType

LEMMA LargestFacts ==
    ASSUME Configured
    PROVE  Largest \in Nat /\ \A v \in LimitValues : v <= Largest
<1>1. /\ IsFiniteSet(LimitValues) /\ LimitValues # {} /\ LimitValues \subseteq Nat
      /\ \A v \in LimitValues : v \in Int
    BY DEF Configured
<1>2. Max(LimitValues) \in LimitValues /\ \A v \in LimitValues : v <= Max(LimitValues)
    BY <1>1, MaxBounds
<1> QED
    BY <1>1, <1>2 DEF Largest

LEMMA VolumeFacts ==
    ASSUME Shape, NEW A \in SUBSET DOMAIN log
    PROVE  /\ VolumeOf(A) \in Nat
           /\ \A B \in SUBSET A : VolumeOf(B) <= VolumeOf(A)
           /\ \A B \in SUBSET DOMAIN log : VolumeOf(A \cup B) <= VolumeOf(A) + VolumeOf(B)
<1> DEFINE w == [i \in DOMAIN log |-> log[i].amount]
<1>1. \A i \in DOMAIN log : w[i] \in Nat
    BY LogFacts
<1>2. \A B \in SUBSET DOMAIN log : IsFiniteSet(B) /\ \A i \in B : w[i] \in Nat
    BY <1>1, LogFacts, FS_Subset
<1>3. VolumeOf(A) = SumOver(w, A) /\ \A B : VolumeOf(B) = SumOver(w, B)
    BY DEF VolumeOf
<1> HIDE DEF w
<1>4. VolumeOf(A) \in Nat
    BY <1>2, <1>3, SumType
<1>5. \A B \in SUBSET A : VolumeOf(B) <= VolumeOf(A)
    BY <1>2, <1>3, SumMonotone
<1>6. ASSUME NEW B \in SUBSET DOMAIN log PROVE VolumeOf(A \cup B) <= VolumeOf(A) + VolumeOf(B)
  <2>1. IsFiniteSet(A) /\ IsFiniteSet(B) /\ \A i \in A \cup B : w[i] \in Nat
    BY <1>2
  <2> QED
    BY <1>3, <2>1, SumUnion
<1> QED
    BY <1>4, <1>5, <1>6

LEMMA NoVolume == VolumeOf({}) = 0
BY SumEmpty DEF VolumeOf

\* A transfer admitted as number n leaves the volume of earlier ones alone and
\* adds its own.
LEMMA Admitted ==
    ASSUME Shape, NEW a \in Nat, log' = Append(log, [at |-> clock, amount |-> a]),
           NEW n, n = Len(log) + 1
    PROVE  /\ DOMAIN log' = DOMAIN log \cup {n} /\ n \notin DOMAIN log /\ Len(log') = n
           /\ log' \in Seq(TransferType) /\ n \in Nat
           /\ log'[n].at = clock
           /\ \A i \in DOMAIN log : log'[i] = log[i]
           /\ \A A \in SUBSET DOMAIN log :
                /\ SumOver(Shares', A) = VolumeOf(A)
                /\ SumOver(Shares', A \cup {n}) = VolumeOf(A) + a
<1> DEFINE e == [at |-> clock, amount |-> a]
<1>1. /\ log \in Seq(TransferType) /\ e \in TransferType /\ Len(log) \in Nat
      /\ DOMAIN log = 1 .. Len(log)
    BY LogFacts DEF Shape, TransferType
<1>2. /\ log' \in Seq(TransferType) /\ Len(log') = n /\ log'[n] = e
      /\ \A i \in 1 .. Len(log) : log'[i] = log[i]
    BY <1>1, AppendProperties
<1>3. DOMAIN log' = 1 .. n
    BY <1>2, LenProperties
<1>4. DOMAIN log' = DOMAIN log \cup {n} /\ n \notin DOMAIN log /\ n \in Nat
    BY <1>1, <1>3
<1>5. ASSUME NEW A \in SUBSET DOMAIN log
      PROVE  SumOver(Shares', A) = VolumeOf(A) /\ SumOver(Shares', A \cup {n}) = VolumeOf(A) + a
  <2>1. IsFiniteSet(A) /\ n \notin A
    BY <1>4, LogFacts, FS_Subset
  <2>2. \A i \in A : Shares'[i] = Shares[i] /\ Shares[i] \in Nat
    BY <1>1, <1>2, <1>4, LogFacts DEF Shares
  <2>3. Shares'[n] = a
    BY <1>2, <1>4 DEF Shares
  <2>4. SumOver(Shares', A) = SumOver(Shares, A)
    BY <2>1, <2>2, SumAgrees
  <2>5. SumOver(Shares', A \cup {n}) = SumOver(Shares, A) + a
    BY <2>1, <2>2, <2>3, SumAdd
  <2> QED
    BY <2>4, <2>5 DEF VolumeOf, Shares
<1>6. log'[n].at = clock
    BY <1>2
<1>7. \A i \in DOMAIN log : log'[i] = log[i]
    BY <1>1, <1>2
<1> QED
    BY <1>2, <1>4, <1>5, <1>6, <1>7

-----------------------------------------------------------------------------
(* The steps *)

LEMMA InitVolume ==
    ASSUME Configured, Init
    PROVE  VInv
<1>1. /\ window = [start |-> 0, total |-> 0] /\ clock = 0 /\ log = <<>> /\ resets = 0
      /\ limit \in LimitValues
    BY DEF Init
<1>2. log \in Seq(TransferType) /\ Len(log) = 0 /\ DOMAIN log = {}
    BY <1>1
<1>3. Shape
    BY <1>1, <1>2 DEF Shape
<1>4. InBucket = {} /\ JustBefore = {} /\ \A t \in Nat : Stretch(t) = {}
    BY <1>2 DEF InBucket, JustBefore, Stretch
<1>5. window.total = 0
    BY <1>1
<1> QED
    BY <1>3, <1>4, <1>5, NoVolume, LargestFacts DEF VInv

\* A transfer charged to the present bucket.
LEMMA ChargeKeeps ==
    ASSUME Configured, VInv, NEW a \in Nat, clock - window.start < Seconds,
           window.total + a <= limit,
           window' = [start |-> window.start, total |-> window.total + a],
           log' = Append(log, [at |-> clock, amount |-> a]),
           UNCHANGED <<limit, clock, resets>>
    PROVE  /\ Shape'
           /\ window'.total = VolumeOf(InBucket)' /\ window'.total <= Largest
           /\ VolumeOf(JustBefore)' <= Largest
<1>1. Shape /\ Largest \in Nat /\ limit <= Largest /\ limit \in Nat /\ Seconds \in Nat \ {0}
    BY LargestFacts DEF VInv, Shape, Configured
<1>2. /\ window.start \in Nat /\ window.total \in Nat /\ window.start <= clock /\ clock \in Nat
      /\ window'.start = window.start /\ window'.total = window.total + a
      /\ window' \in [start : Nat, total : Nat]
    BY <1>1 DEF Shape
<1>3. PICK n : n = Len(log) + 1
    OBVIOUS
<1>4. /\ DOMAIN log' = DOMAIN log \cup {n} /\ n \notin DOMAIN log /\ Len(log') = n
      /\ log' \in Seq(TransferType) /\ log'[n].at = clock
      /\ \A i \in DOMAIN log : log'[i] = log[i]
      /\ \A A \in SUBSET DOMAIN log :
           SumOver(Shares', A) = VolumeOf(A) /\ SumOver(Shares', A \cup {n}) = VolumeOf(A) + a
    BY <1>1, <1>3, Admitted
<1>5. n \in Nat /\ resets \in Nat /\ resets < n /\ resets' = resets /\ clock' = clock
    BY <1>1, <1>3, LogFacts DEF Shape
<1>6. Shape'
  <2>1. \A i \in DOMAIN log' : log'[i].at <= clock /\ log'[i].at < window.start + Seconds
    BY <1>1, <1>2, <1>4 DEF Shape
  <2>2. resets' \in 0 .. Len(log')
    BY <1>4, <1>5
  <2> QED
    BY <1>1, <1>2, <1>4, <1>5, <2>1, <2>2 DEF Shape
<1>7. InBucket' = InBucket \cup {n} /\ InBucket \in SUBSET DOMAIN log
    BY <1>2, <1>4, <1>5 DEF InBucket
<1>8. JustBefore' = JustBefore /\ JustBefore \in SUBSET DOMAIN log
    BY <1>2, <1>4, <1>5 DEF JustBefore
<1>9. VolumeOf(InBucket)' = VolumeOf(InBucket) + a
  <2>1. VolumeOf(InBucket)' = SumOver(Shares', InBucket \cup {n})
    BY <1>7 DEF VolumeOf, Shares
  <2> QED
    BY <1>4, <1>7, <2>1
<1>10. VolumeOf(JustBefore)' = VolumeOf(JustBefore)
  <2>1. VolumeOf(JustBefore)' = SumOver(Shares', JustBefore)
    BY <1>8 DEF VolumeOf, Shares
  <2> QED
    BY <1>4, <1>8, <2>1
<1> QED
    BY <1>1, <1>2, <1>6, <1>9, <1>10 DEF VInv

\* A transfer that opens a bucket: the one it closes becomes the one before.
LEMMA RollKeeps ==
    ASSUME Configured, VInv, NEW a \in Nat, clock - window.start >= Seconds,
           a <= limit,
           window' = [start |-> clock, total |-> a],
           log' = Append(log, [at |-> clock, amount |-> a]),
           UNCHANGED <<limit, clock, resets>>
    PROVE  /\ Shape'
           /\ window'.total = VolumeOf(InBucket)' /\ window'.total <= Largest
           /\ VolumeOf(JustBefore)' <= Largest
<1>1. Shape /\ Largest \in Nat /\ limit <= Largest /\ limit \in Nat /\ Seconds \in Nat \ {0}
    BY LargestFacts DEF VInv, Shape, Configured
<1>2. /\ window.start \in Nat /\ window.total \in Nat /\ window.start <= clock /\ clock \in Nat
      /\ window'.start = clock /\ window'.total = a
      /\ window' \in [start : Nat, total : Nat]
    BY <1>1 DEF Shape
<1>3. PICK n : n = Len(log) + 1
    OBVIOUS
<1>4. /\ DOMAIN log' = DOMAIN log \cup {n} /\ n \notin DOMAIN log /\ Len(log') = n
      /\ log' \in Seq(TransferType) /\ log'[n].at = clock
      /\ \A i \in DOMAIN log : log'[i] = log[i]
      /\ \A A \in SUBSET DOMAIN log :
           SumOver(Shares', A) = VolumeOf(A) /\ SumOver(Shares', A \cup {n}) = VolumeOf(A) + a
    BY <1>1, <1>3, Admitted
<1>5. n \in Nat /\ resets \in Nat /\ resets < n /\ resets' = resets /\ clock' = clock
    BY <1>1, <1>3, LogFacts DEF Shape
<1>6. \A i \in DOMAIN log : log[i].at \in Nat /\ log[i].at < window.start + Seconds /\ log[i].at < clock
    BY <1>1, <1>2, LogFacts DEF Shape
<1>7. Shape'
  <2>1. \A i \in DOMAIN log' : log'[i].at <= clock /\ log'[i].at < clock + Seconds
    BY <1>1, <1>2, <1>4, <1>6
  <2>2. resets' \in 0 .. Len(log')
    BY <1>4, <1>5
  <2> QED
    BY <1>1, <1>2, <1>4, <1>5, <2>1, <2>2 DEF Shape
<1>8. InBucket' = {} \cup {n}
    BY <1>2, <1>4, <1>5, <1>6 DEF InBucket
<1>9. VolumeOf(InBucket)' = a
  <2>1. VolumeOf(InBucket)' = SumOver(Shares', {} \cup {n})
    BY <1>8 DEF VolumeOf, Shares
  <2>2. SumOver(Shares', {} \cup {n}) = VolumeOf({}) + a
    BY <1>4
  <2> QED
    BY <2>1, <2>2, NoVolume
<1>10. PICK J : J = JustBefore'
    OBVIOUS
<1>11. J \in SUBSET InBucket /\ InBucket \in SUBSET DOMAIN log
  <2>1. \A i \in J : i \in DOMAIN log /\ i > resets /\ log[i].at >= window.start
    BY <1>1, <1>2, <1>4, <1>5, <1>6, <1>10 DEF JustBefore
  <2> QED
    BY <2>1 DEF InBucket
<1>12. VolumeOf(JustBefore)' = VolumeOf(J)
  <2>1. VolumeOf(JustBefore)' = SumOver(Shares', J)
    BY <1>10 DEF VolumeOf, Shares
  <2> QED
    BY <1>4, <1>11, <2>1
<1>13. VolumeOf(J) <= VolumeOf(InBucket) /\ VolumeOf(J) \in Nat /\ VolumeOf(InBucket) \in Nat
    BY <1>1, <1>11, VolumeFacts
<1> QED
    BY <1>1, <1>2, <1>7, <1>9, <1>12, <1>13 DEF VInv

\* Either way no stretch carries more than twice the largest limit: one that
\* holds the new transfer lies in its bucket and just before it.
LEMMA TransferKeeps ==
    ASSUME Configured, VInv, NEW a \in Amounts, EnforceAndRecordRollingVolume(a)
    PROVE  VInv'
<1>1. a \in Nat /\ Shape /\ Largest \in Nat /\ Seconds \in Nat \ {0}
    BY LargestFacts DEF Configured, VInv
<1>2. /\ log' = Append(log, [at |-> clock, amount |-> a]) /\ UNCHANGED <<limit, clock, resets>>
      /\ window \in [start : Nat, total : Nat] /\ clock \in Nat
    BY <1>1 DEF EnforceAndRecordRollingVolume, Shape
<1>3. /\ Shape'
      /\ window'.total = VolumeOf(InBucket)' /\ window'.total <= Largest
      /\ VolumeOf(JustBefore)' <= Largest
  <2>1. CASE clock - window.start >= Seconds
    <3>1. a <= limit /\ window' = [start |-> clock, total |-> a]
      BY <1>1, <1>2, <2>1 DEF EnforceAndRecordRollingVolume, RollingVolumeOK, RecordedVolume, CurrentBucket
    <3> QED
      BY <1>1, <1>2, <2>1, <3>1, RollKeeps
  <2>2. CASE ~(clock - window.start >= Seconds)
    <3>1. /\ window.total + a <= limit /\ clock - window.start < Seconds
          /\ window' = [start |-> window.start, total |-> window.total + a]
      BY <1>1, <1>2, <2>2 DEF EnforceAndRecordRollingVolume, RollingVolumeOK, RecordedVolume, CurrentBucket
    <3> QED
      BY <1>1, <1>2, <3>1, ChargeKeeps
  <2> QED
    BY <2>1, <2>2
<1>4. PICK n : n = Len(log) + 1
    OBVIOUS
<1>5. /\ DOMAIN log' = DOMAIN log \cup {n} /\ n \notin DOMAIN log /\ log'[n].at = clock
      /\ \A i \in DOMAIN log : log'[i] = log[i]
      /\ \A A \in SUBSET DOMAIN log : SumOver(Shares', A) = VolumeOf(A)
    BY <1>1, <1>2, <1>4, Admitted
<1>6. ASSUME NEW t \in Nat PROVE VolumeOf(Stretch(t))' <= 2 * Largest
  <2>1. PICK A, B, J : A = Stretch(t)' /\ B = InBucket' /\ J = JustBefore'
    OBVIOUS
  <2>2. VolumeOf(Stretch(t))' = SumOver(Shares', A)
    BY <2>1 DEF VolumeOf, Shares
  <2>3. CASE clock \in t..(t + Seconds - 1)
    <3>1. window'.start \in Nat /\ window'.start <= clock /\ clock' = clock
      BY <1>2, <1>3 DEF Shape
    <3>2. \A i \in DOMAIN log' : log'[i].at \in Nat
      BY <1>3, LogFactsNext
    <3>3. A \subseteq B \cup J /\ B \cup J \subseteq DOMAIN log'
      <4>1. B \cup J \subseteq DOMAIN log'
        BY <2>1 DEF InBucket, JustBefore
      <4>2. ASSUME NEW i \in A PROVE i \in B \cup J
        <5>1. i \in DOMAIN log' /\ i > resets' /\ log'[i].at \in t..(t + Seconds - 1)
          BY <2>1, <4>2 DEF Stretch
        <5>2. log'[i].at \in Nat /\ window'.start < log'[i].at + Seconds
          BY <1>1, <1>2, <2>3, <3>1, <3>2, <5>1
        <5>3. log'[i].at >= window'.start \/ log'[i].at < window'.start
          BY <3>1, <5>2
        <5> QED
          BY <2>1, <5>1, <5>2, <5>3 DEF InBucket, JustBefore
      <4> QED
        BY <4>1, <4>2
    <3>4. /\ IsFiniteSet(B) /\ IsFiniteSet(J) /\ IsFiniteSet(B \cup J) /\ IsFiniteSet(A)
          /\ \A i \in B \cup J : Shares'[i] \in Nat
      BY <1>3, <3>3, LogFactsNext, FS_Subset DEF Shares
    <3>5. SumOver(Shares', A) <= SumOver(Shares', B \cup J)
      BY <3>3, <3>4, SumMonotone
    <3>6. SumOver(Shares', B \cup J) <= SumOver(Shares', B) + SumOver(Shares', J)
      BY <3>4, SumUnion
    <3>7. SumOver(Shares', B) = window'.total /\ SumOver(Shares', J) <= Largest
      BY <1>3, <2>1 DEF VolumeOf, Shares
    <3>8. /\ SumOver(Shares', A) \in Nat /\ SumOver(Shares', B \cup J) \in Nat
          /\ SumOver(Shares', B) \in Nat /\ SumOver(Shares', J) \in Nat
      BY <3>3, <3>4, SumType
    <3> QED
      BY <1>1, <1>3, <2>2, <3>5, <3>6, <3>7, <3>8
  <2>4. CASE clock \notin t..(t + Seconds - 1)
    <3>1. A = Stretch(t)
      BY <1>2, <1>5, <2>1, <2>4 DEF Stretch
    <3>2. A \in SUBSET DOMAIN log
      BY <3>1 DEF Stretch
    <3>3. SumOver(Shares', A) = VolumeOf(A) /\ VolumeOf(A) = VolumeOf(Stretch(t))
      BY <1>5, <3>1, <3>2
    <3> QED
      BY <2>2, <3>3 DEF VInv
  <2> QED
    BY <2>3, <2>4
<1> QED
    BY <1>3, <1>6 DEF VInv

\* A manual reset forgets every transfer; time and the switches move no volume.
LEMMA OtherStepsKeep ==
    ASSUME Configured, VInv,
           \/ ResetRollingVolumeWindow \/ Tick \/ UNCHANGED vars
           \/ \E v \in LimitValues : SetRollingVolumeLimit(v)
           \/ \E p \in BOOLEAN : SetPaused(p)
    PROVE  VInv'
<1>1. Shape /\ Largest \in Nat /\ Seconds \in Nat \ {0} /\ log' = log
    BY LargestFacts DEF VInv, Configured, ResetRollingVolumeWindow, Tick, vars,
                        SetRollingVolumeLimit, SetPaused
<1>2. CASE ResetRollingVolumeWindow
  <2>1. window' = [start |-> clock, total |-> 0] /\ resets' = Len(log) /\ UNCHANGED <<limit, clock>>
    BY <1>2 DEF ResetRollingVolumeWindow
  <2>2. /\ clock \in Nat /\ Len(log) \in Nat /\ DOMAIN log = 1 .. Len(log)
        /\ \A i \in DOMAIN log : log[i].at \in Nat /\ log[i].at <= clock
    BY <1>1, LogFacts DEF Shape
  <2>3. window'.start = clock /\ window'.total = 0 /\ window' \in [start : Nat, total : Nat]
    BY <2>1, <2>2
  <2>4. Shape'
    BY <1>1, <2>1, <2>2, <2>3 DEF Shape
  <2>5. \A i \in DOMAIN log' : ~(i > resets')
    BY <1>1, <2>1, <2>2
  <2>6. InBucket' = {} /\ JustBefore' = {} /\ \A t \in Nat : Stretch(t)' = {}
    BY <2>5 DEF InBucket, JustBefore, Stretch
  <2>7. SumOver(Shares', {}) = 0
    BY SumEmpty
  <2>8. /\ VolumeOf(InBucket)' = 0 /\ VolumeOf(JustBefore)' = 0
        /\ \A t \in Nat : VolumeOf(Stretch(t))' = 0
    BY <2>6, <2>7 DEF VolumeOf, Shares
  <2> QED
    BY <1>1, <2>3, <2>4, <2>8 DEF VInv
<1>3. CASE ~ResetRollingVolumeWindow
  <2>1. /\ UNCHANGED <<window, resets>> /\ clock' \in Nat /\ clock <= clock'
        /\ limit' \in LimitValues /\ clock \in Nat
    BY <1>1, <1>3 DEF Tick, vars, SetRollingVolumeLimit, SetPaused, Shape
  <2>2. Shape'
    <3>1. \A i \in DOMAIN log : log[i].at \in Nat /\ window.start \in Nat
      BY <1>1, LogFacts DEF Shape
    <3> QED
      BY <1>1, <2>1, <3>1 DEF Shape
  <2>3. /\ VolumeOf(InBucket)' = VolumeOf(InBucket) /\ VolumeOf(JustBefore)' = VolumeOf(JustBefore)
        /\ \A t \in Nat : VolumeOf(Stretch(t))' = VolumeOf(Stretch(t))
    BY <1>1, <2>1 DEF InBucket, JustBefore, Stretch, VolumeOf
  <2> QED
    BY <2>1, <2>2, <2>3 DEF VInv
<1> QED
    BY <1>2, <1>3

-----------------------------------------------------------------------------
(* The theorem *)

\* For every limit, window length and sequence of transfers, limit changes,
\* pauses and resets: the stored total is exactly the volume since the bucket
\* opened, and between two manual resets no stretch of rolling_window_seconds
\* carries more than twice the largest limit (limits.rs).
THEOREM BurstsBounded ==
    ASSUME Configured
    PROVE  Spec => [](BucketCountsExactly /\ BurstAtMostDouble)
<1>1. Init => VInv
    BY InitVolume
<1>2. VInv /\ [Next]_vars => VInv'
    BY TransferKeeps, OtherStepsKeep DEF Next
<1>3. VInv => BucketCountsExactly /\ BurstAtMostDouble
  <2> SUFFICES ASSUME VInv PROVE BucketCountsExactly /\ BurstAtMostDouble
    OBVIOUS
  <2>1. \A t \in 0 .. clock : t \in Nat
    BY DEF VInv, Shape
  <2> QED
    BY <2>1 DEF VInv, BucketCountsExactly, BurstAtMostDouble, InBucket, Stretch, Largest
<1> QED
    BY <1>1, <1>2, <1>3, PTL DEF Spec
=============================================================================
