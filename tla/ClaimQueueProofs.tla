-------------------------- MODULE ClaimQueueProofs --------------------------
(***************************************************************************)
(* The claim transaction is safe and takes the best job for any number of  *)
(* jobs, workers and priorities, any budgets and any time, and with its    *)
(* locks and statements it implements the queue.                           *)
(*                                                                         *)
(* The retry delay and its description are recursive functions.  That such *)
(* functions exist, and what they compute, is proved first, by induction   *)
(* over sets of natural numbers.                                           *)
(***************************************************************************)
EXTENDS ClaimQueue, WellFoundedInduction, TLAPS

-----------------------------------------------------------------------------
(***************************************************************************)
(* Induction over the natural numbers                                      *)
(***************************************************************************)
\* The order of the natural numbers, as a relation.
Less == OpToRel(<, Nat)

\* A set of natural numbers that is not empty has a least element.
LEMMA LeastElement ==
  ASSUME NEW T \in SUBSET Nat, T # {}
  PROVE  \E x \in T : \A y \in T : x <= y
<1>1. IsWellFoundedOn(Less, Nat)
  BY NatLessThanWellFounded, Zenon DEF Less
<1>2. \A x, y \in Nat : <<x, y>> \in Less <=> x < y
  BY DEF Less, OpToRel
<1>3. PICK x \in T : \A y \in T : ~(<<y, x>> \in Less)
  BY <1>1, WFMin
<1>4. ASSUME NEW y \in T
      PROVE  x <= y
  <2>1. x \in Nat /\ y \in Nat
    OBVIOUS
  <2>2. ~(y < x)
    BY <1>2, <1>3, <2>1
  <2> QED
    BY <2>1, <2>2
<1> QED
  BY <1>4

\* Induction, of a set.
LEMMA Inductive ==
  ASSUME NEW S \in SUBSET Nat, 0 \in S, \A n \in S : n + 1 \in S
  PROVE  S = Nat
<1> SUFFICES ASSUME S # Nat
             PROVE  FALSE
  OBVIOUS
<1>1. Nat \ S \in SUBSET Nat /\ Nat \ S # {}
  OBVIOUS
<1>2. PICK x \in Nat \ S : \A y \in Nat \ S : x <= y
  BY <1>1, LeastElement
<1>3. x # 0 /\ x - 1 \in Nat /\ x - 1 \notin Nat \ S
  BY <1>2
<1> QED
  BY <1>2, <1>3

\* g starts with a and goes on with step, up to n.
Iterates(g, a, step, n) ==
  /\ g \in [0 .. n -> Nat]
  /\ g[0] = a
  /\ \A i \in 0 .. n - 1 : g[i + 1] = step[g[i]]

\* A function of a natural number is defined by its first value and a step.
LEMMA Iteration ==
  ASSUME NEW a \in Nat, NEW step \in [Nat -> Nat]
  PROVE  \E f \in [Nat -> Nat] : f[0] = a /\ \A n \in Nat : f[n + 1] = step[f[n]]
<1>1. \A n \in Nat : \E g : Iterates(g, a, step, n)
  <2> DEFINE S == {n \in Nat : \E g : Iterates(g, a, step, n)}
  <2>1. 0 \in S
    <3>1. Iterates([i \in 0 .. 0 |-> a], a, step, 0)
      BY DEF Iterates
    <3> QED
      BY <3>1
  <2>2. ASSUME NEW n \in S
        PROVE  n + 1 \in S
    <3>1. PICK g : Iterates(g, a, step, n)
      OBVIOUS
    <3>2. PICK h : h = [i \in 0 .. n + 1 |-> IF i = n + 1 THEN step[g[n]] ELSE g[i]]
      OBVIOUS
    <3>3. n \in Nat /\ g \in [0 .. n -> Nat] /\ g[n] \in Nat
      <4>1. n \in Nat /\ n \in 0 .. n
        OBVIOUS
      <4>2. g \in [0 .. n -> Nat]
        BY <3>1 DEF Iterates
      <4> QED
        BY <4>1, <4>2
    <3>4. h \in [0 .. n + 1 -> Nat]
      <4>1. step[g[n]] \in Nat
        BY <3>3
      <4>2. ASSUME NEW i \in 0 .. n + 1, i # n + 1
            PROVE  g[i] \in Nat
        <5>1. i \in 0 .. n
          BY <3>3, <4>2
        <5> QED
          BY <3>3, <5>1
      <4> QED
        BY <3>2, <4>1, <4>2
    <3>5. h[0] = a
      <4>1. 0 \in 0 .. n + 1 /\ 0 # n + 1
        BY <3>3
      <4> QED
        BY <3>1, <3>2, <4>1 DEF Iterates
    <3>6. ASSUME NEW i \in 0 .. n
          PROVE  h[i + 1] = step[h[i]]
      <4>1. CASE i = n
        BY <3>2, <3>3, <4>1
      <4>2. CASE i # n
        <5>1. i \in 0 .. n - 1 /\ i + 1 # n + 1 /\ i # n + 1 /\ i + 1 \in 0 .. n
          BY <3>3, <4>2
        <5>2. g[i + 1] = step[g[i]]
          BY <3>1, <5>1 DEF Iterates
        <5>3. h[i] = g[i] /\ h[i + 1] = g[i + 1]
          <6>1. i \in 0 .. n + 1 /\ i + 1 \in 0 .. n + 1
            BY <3>3
          <6> QED
            BY <3>2, <5>1, <6>1
        <5> QED
          BY <5>2, <5>3
      <4> QED
        BY <4>1, <4>2
    <3>7. (n + 1) - 1 = n /\ n + 1 \in Nat
      BY <3>3
    <3>8. Iterates(h, a, step, n + 1)
      BY <3>4, <3>5, <3>6, <3>7 DEF Iterates
    <3> QED
      BY <3>7, <3>8
  <2> HIDE DEF S
  <2>3. S = Nat
    <3>1. S \in SUBSET Nat
      BY DEF S
    <3> QED
      BY <2>1, <2>2, <3>1, Inductive
  <2> QED
    BY <2>3 DEF S
<1>2. ASSUME NEW n \in Nat, NEW g, NEW h, Iterates(g, a, step, n), Iterates(h, a, step, n + 1)
      PROVE  h[n + 1] = step[g[n]]
  <2> DEFINE S == {i \in Nat : i <= n => g[i] = h[i]}
  <2>1. 0 \in S
    BY <1>2 DEF Iterates
  <2>2. ASSUME NEW i \in S
        PROVE  i + 1 \in S
    <3>1. CASE i + 1 <= n
      <4>1. i \in 0 .. n - 1 /\ i \in 0 .. (n + 1) - 1 /\ g[i] = h[i]
        BY <3>1
      <4>2. g[i + 1] = step[g[i]] /\ h[i + 1] = step[h[i]]
        BY <1>2, <4>1 DEF Iterates
      <4> QED
        BY <4>1, <4>2
    <3>2. CASE ~(i + 1 <= n)
      BY <3>2
    <3> QED
      BY <3>1, <3>2
  <2> HIDE DEF S
  <2>3. S = Nat
    <3>1. S \in SUBSET Nat
      BY DEF S
    <3> QED
      BY <2>1, <2>2, <3>1, Inductive
  <2>4. g[n] = h[n]
    BY <2>3 DEF S
  <2>5. n \in 0 .. (n + 1) - 1
    OBVIOUS
  <2> QED
    BY <1>2, <2>4, <2>5 DEF Iterates
<1>3. PICK G : G = [n \in Nat |-> CHOOSE g : Iterates(g, a, step, n)]
  OBVIOUS
<1>4. \A n \in Nat : Iterates(G[n], a, step, n)
  BY <1>1, <1>3
<1>5. PICK f : f = [n \in Nat |-> G[n][n]]
  OBVIOUS
<1>6. f \in [Nat -> Nat]
  <2>1. ASSUME NEW n \in Nat
        PROVE  G[n][n] \in Nat
    <3>1. G[n] \in [0 .. n -> Nat] /\ n \in 0 .. n
      BY <1>4 DEF Iterates
    <3> QED
      BY <3>1
  <2> QED
    BY <1>5, <2>1
<1>7. f[0] = a
  BY <1>4, <1>5 DEF Iterates
<1>8. ASSUME NEW n \in Nat
      PROVE  f[n + 1] = step[f[n]]
  <2>1. n + 1 \in Nat
    OBVIOUS
  <2>2. G[n + 1][n + 1] = step[G[n][n]]
    BY <1>2, <1>4, <2>1
  <2> QED
    BY <1>5, <2>1, <2>2
<1> QED
  BY <1>6, <1>7, <1>8

\* 2 ** n doubles with each n.
LEMMA PowersOfTwo ==
  /\ \A n \in Nat : PowerOfTwo[n] \in Nat
  /\ PowerOfTwo[0] = 1
  /\ \A n \in Nat : PowerOfTwo[n + 1] = 2 * PowerOfTwo[n]
<1>1. PICK step \in [Nat -> Nat] : \A x \in Nat : step[x] = 2 * x
  <2>1. [x \in Nat |-> 2 * x] \in [Nat -> Nat]
    OBVIOUS
  <2> QED
    BY <2>1
<1>2. PICK f \in [Nat -> Nat] : f[0] = 1 /\ \A n \in Nat : f[n + 1] = step[f[n]]
  <2>1. PICK one \in Nat : one = 1
    OBVIOUS
  <2>2. \E f \in [Nat -> Nat] : f[0] = one /\ \A n \in Nat : f[n + 1] = step[f[n]]
    BY Iteration
  <2> QED
    BY <2>1, <2>2
<1>3. f = [n \in Nat |-> IF n = 0 THEN 1 ELSE 2 * f[n - 1]]
  <2>1. ASSUME NEW n \in Nat
        PROVE  f[n] = IF n = 0 THEN 1 ELSE 2 * f[n - 1]
    <3>1. CASE n = 0
      BY <1>2, <3>1
    <3>2. CASE n # 0
      <4>1. PICK m \in Nat : m = n - 1 /\ n = m + 1
        BY <3>2
      <4> QED
        BY <1>1, <1>2, <3>2, <4>1
    <3> QED
      BY <3>1, <3>2
  <2> QED
    BY <2>1
<1>4. PowerOfTwo = [n \in Nat |-> IF n = 0 THEN 1 ELSE 2 * PowerOfTwo[n - 1]]
  BY <1>3 DEF PowerOfTwo
<1> HIDE DEF PowerOfTwo
<1>5. PowerOfTwo[0] = 1
  BY <1>4
<1>6. \A n \in Nat : PowerOfTwo[n + 1] = 2 * PowerOfTwo[n]
  <2>1. ASSUME NEW n \in Nat
        PROVE  PowerOfTwo[n + 1] = 2 * PowerOfTwo[n]
    <3>1. PICK m \in Nat : m = n + 1 /\ m # 0 /\ m - 1 = n
      OBVIOUS
    <3>2. PowerOfTwo[m] = 2 * PowerOfTwo[m - 1]
      BY <1>4, <3>1
    <3> QED
      BY <3>1, <3>2
  <2> QED
    BY <2>1
<1>7. \A n \in Nat : PowerOfTwo[n] \in Nat
  <2> DEFINE S == {n \in Nat : PowerOfTwo[n] \in Nat}
  <2>1. 0 \in S
    BY <1>5
  <2>2. ASSUME NEW n \in S
        PROVE  n + 1 \in S
    BY <1>6
  <2> HIDE DEF S
  <2>3. S \in SUBSET Nat
    BY DEF S
  <2>4. S = Nat
    BY <2>1, <2>2, <2>3, Inductive
  <2> QED
    BY <2>4 DEF S
<1> QED
  BY <1>5, <1>6, <1>7

\* The delay of the comment, step by step.
LEMMA DescribedDelays ==
  /\ DelayAsDescribed[1] = BaseDelay
  /\ \A n \in Nat \ {0} :
       DelayAsDescribed[n + 1] =
         IF 2 * DelayAsDescribed[n] < MaxDelay THEN 2 * DelayAsDescribed[n] ELSE MaxDelay
<1>1. PICK step \in [Nat -> Nat] :
        \A x \in Nat : step[x] = IF 2 * x < MaxDelay THEN 2 * x ELSE MaxDelay
  <2>1. [x \in Nat |-> IF 2 * x < MaxDelay THEN 2 * x ELSE MaxDelay] \in [Nat -> Nat]
    BY ClaimQueueAssumption
  <2> QED
    BY <2>1
<1>2. BaseDelay \in Nat
  BY ClaimQueueAssumption
<1>3. PICK f \in [Nat -> Nat] : f[0] = BaseDelay /\ \A n \in Nat : f[n + 1] = step[f[n]]
  BY <1>2, Iteration
<1>4. PICK g : g = [n \in Nat \ {0} |-> f[n - 1]]
  OBVIOUS
<1>5. g = [n \in Nat \ {0} |-> IF n = 1 THEN BaseDelay
                               ELSE IF 2 * g[n - 1] < MaxDelay THEN 2 * g[n - 1]
                               ELSE MaxDelay]
  <2>1. ASSUME NEW n \in Nat \ {0}
        PROVE  g[n] = IF n = 1 THEN BaseDelay
                      ELSE IF 2 * g[n - 1] < MaxDelay THEN 2 * g[n - 1] ELSE MaxDelay
    <3>1. CASE n = 1
      BY <1>3, <1>4, <3>1
    <3>2. CASE n # 1
      <4>1. PICK m \in Nat : m + 1 = n - 1 /\ n - 1 \in Nat \ {0} /\ (n - 1) - 1 = m
        <5>1. n - 2 \in Nat /\ (n - 2) + 1 = n - 1 /\ n - 1 \in Nat \ {0} /\ (n - 1) - 1 = n - 2
          BY <3>2
        <5> QED
          BY <5>1
      <4>2. g[n] = f[m + 1] /\ g[n - 1] = f[m] /\ f[m] \in Nat
        BY <1>4, <4>1
      <4> QED
        BY <1>1, <1>3, <3>2, <4>2
    <3> QED
      BY <3>1, <3>2
  <2> QED
    BY <1>4, <2>1
<1>6. DelayAsDescribed =
        [n \in Nat \ {0} |-> IF n = 1 THEN BaseDelay
                             ELSE IF 2 * DelayAsDescribed[n - 1] < MaxDelay
                                  THEN 2 * DelayAsDescribed[n - 1]
                             ELSE MaxDelay]
  BY <1>5 DEF DelayAsDescribed
<1> HIDE DEF DelayAsDescribed
<1>7. DelayAsDescribed[1] = BaseDelay
  BY <1>6
<1>8. ASSUME NEW n \in Nat \ {0}
      PROVE  DelayAsDescribed[n + 1] =
               IF 2 * DelayAsDescribed[n] < MaxDelay THEN 2 * DelayAsDescribed[n] ELSE MaxDelay
  <2>1. PICK m \in Nat \ {0} : m = n + 1 /\ m # 1 /\ m - 1 = n
    OBVIOUS
  <2>2. DelayAsDescribed[m] = IF 2 * DelayAsDescribed[m - 1] < MaxDelay
                              THEN 2 * DelayAsDescribed[m - 1] ELSE MaxDelay
    BY <1>6, <2>1
  <2> QED
    BY <2>1, <2>2
<1> QED
  BY <1>7, <1>8

\* calculateRetryDelayMs computes the delay that its comment describes, for
\* every attempt: base, twice as much each time, and never more than the cap.
THEOREM DelayIsAsDescribed ==
  \A n \in Nat \ {0} : RetryDelay(n) = DelayAsDescribed[n] /\ RetryDelay(n) \in Nat
<1> DEFINE Right(k) == /\ RetryDelay(k + 1) = DelayAsDescribed[k + 1]
                       /\ RetryDelay(k + 1) \in Nat
           S == {k \in Nat : Right(k)}
<1>1. BaseDelay \in Nat \ {0} /\ MaxDelay \in Nat /\ BaseDelay <= MaxDelay
  BY ClaimQueueAssumption
<1>2. 0 \in S
  <2>1. RetryDelay(1) = Least(BaseDelay * PowerOfTwo[0], MaxDelay)
    BY DEF RetryDelay
  <2>2. BaseDelay * PowerOfTwo[0] = BaseDelay
    BY <1>1, PowersOfTwo
  <2>3. RetryDelay(1) = BaseDelay
    BY <1>1, <2>1, <2>2 DEF Least
  <2> QED
    BY <1>1, <2>3, DescribedDelays
<1>3. ASSUME NEW k \in S
      PROVE  k + 1 \in S
  <2>1. k \in Nat /\ k + 1 \in Nat \ {0} /\ (k + 1) - 1 = k /\ (k + 2) - 1 = k + 1 /\ (k + 1) + 1 = k + 2
    OBVIOUS
  <2>2. PICK p \in Nat : p = PowerOfTwo[k]
    BY <2>1, PowersOfTwo
  <2>3. PICK x \in Nat : x = BaseDelay * p
    BY <1>1
  <2>4. RetryDelay(k + 1) = Least(x, MaxDelay)
    BY <2>1, <2>2, <2>3 DEF RetryDelay
  <2>5. PowerOfTwo[k + 1] = 2 * p
    BY <2>1, <2>2, PowersOfTwo
  <2>6. BaseDelay * (2 * p) = 2 * x
    BY <1>1, <2>3
  <2>7. RetryDelay(k + 2) = Least(2 * x, MaxDelay)
    BY <2>1, <2>5, <2>6 DEF RetryDelay
  <2>8. PICK d : d = DelayAsDescribed[k + 1]
    OBVIOUS
  <2>9. d = Least(x, MaxDelay)
    BY <2>4, <2>8
  <2>10. DelayAsDescribed[k + 2] = IF 2 * d < MaxDelay THEN 2 * d ELSE MaxDelay
    BY <2>1, <2>8, DescribedDelays
  <2>11. (IF 2 * d < MaxDelay THEN 2 * d ELSE MaxDelay) = Least(2 * x, MaxDelay)
    BY <1>1, <2>9 DEF Least
  <2>12. Least(2 * x, MaxDelay) \in Nat
    BY <1>1 DEF Least
  <2> QED
    BY <2>1, <2>7, <2>10, <2>11, <2>12
<1> HIDE DEF S
<1>4. S = Nat
  <2>1. S \in SUBSET Nat
    BY DEF S
  <2> QED
    BY <1>2, <1>3, <2>1, Inductive
<1> SUFFICES ASSUME NEW n \in Nat \ {0}
             PROVE  RetryDelay(n) = DelayAsDescribed[n] /\ RetryDelay(n) \in Nat
  OBVIOUS
<1>5. PICK k \in Nat : k + 1 = n
  <2>1. n - 1 \in Nat /\ (n - 1) + 1 = n
    OBVIOUS
  <2> QED
    BY <2>1
<1>6. Right(k)
  <2>1. k \in S
    BY <1>4
  <2> HIDE DEF Right
  <2> QED
    BY <2>1 DEF S
<1> QED
  BY <1>5, <1>6
-----------------------------------------------------------------------------
(***************************************************************************)
(* The inductive invariant                                                 *)
(***************************************************************************)
\* What a row r of job j may hold: the owner goes with PROCESSING, the count
\* stays in the budget, and a waiting job has a try left.
Sound(j, r) ==
  /\ r \in Row
  /\ r.status = "PROCESSING" <=> r.owner # NoWorker
  /\ r.status = "ABSENT" => r.attemptCount = 0
  /\ r.attemptCount <= MaxAttempts[j]
  /\ r.status \in ClaimableStatuses => r.attemptCount < MaxAttempts[j]
  /\ r.status = "DEAD_LETTER" => r.attemptCount = MaxAttempts[j]
  /\ r.status \in {"PROCESSING", "RETRYING"} => r.attemptCount > 0
  /\ r.status = "RETRYING" => r.availableAt = r.finishedAt + RetryDelay(r.attemptCount)

RowsAreSound == \A j \in Jobs : Sound(j, row[j])

\* A worker locks the row it has selected and no other, and the cancellation
\* locks only rows that may be cancelled.
LocksAreHeld ==
  \A j \in Jobs :
    /\ lock[j] = Canceller => row[j].status \in ClaimableStatuses
    /\ \A w \in Workers : lock[j] = w <=> tx[w].step = "selected" /\ tx[w].job = {j}

Looking(w) == tx[w].step \in {"visiting", "selected", "none"}

\* A row that nobody locked or changed since the SELECT of w started: it is
\* free, and if it matches it is still to be visited, or nothing was found to
\* be better than what w selected.
Undisturbed(w, k) ==
  /\ lock[k] \in {NoWorker, w}
  /\ Matches(k, tx[w].claimedAt) =>
       /\ tx[w].step = "visiting" => k \in tx[w].rows
       /\ tx[w].step # "none"
       /\ tx[w].step = "selected" => \A j \in tx[w].job : ~Before(k, j, tx[w].seen)

ClaimsAreFair == \A w \in Workers, k \in Jobs : Looking(w) /\ k \notin disturbed[w] => Undisturbed(w, k)

\* The inductive invariant.
ClaimInv ==
  ClaimQueueTypeOK /\ RowsAreSound /\ LocksAreHeld /\ SelectedIsClaimable /\ ClaimsAreFair

-----------------------------------------------------------------------------
(***************************************************************************)
(* Steps of others                                                         *)
(***************************************************************************)
\* Whatever else changes row j: claims in progress notice, and those that
\* have selected a row keep it.
LEMMA OthersDisturb ==
  ASSUME ClaimInv, NEW t, NEW j \in Jobs, Disturbs(t, j), UNCHANGED tx, ClaimQueueTypeOK',
         \A k \in Jobs \ {j} : row'[k] = row[k] /\ lock'[k] = lock[k],
         t \in Workers => ~Looking(t),
         lock[j] \notin Workers, lock'[j] \notin Workers,
         row'[j].owner \in {row[j].owner, NoWorker},
         Sound(j, row'[j]),
         lock'[j] = Canceller => row'[j].status \in ClaimableStatuses
  PROVE  ClaimInv'
<1>1. RowsAreSound'
  BY DEF ClaimInv, RowsAreSound
<1>2. LocksAreHeld'
  <2>1. \A w \in Workers : tx[w].job # {j} \/ tx[w].step # "selected"
    BY DEF ClaimInv, LocksAreHeld
  <2> QED
    BY <2>1 DEF ClaimInv, LocksAreHeld
<1>3. SelectedIsClaimable'
  BY DEF ClaimInv, SelectedIsClaimable, Matches
<1>5. ClaimsAreFair'
  <2> SUFFICES ASSUME NEW w \in Workers, NEW k \in Jobs, Looking(w)', k \notin disturbed'[w]
               PROVE  Undisturbed(w, k)'
    BY DEF ClaimsAreFair
  <2>1. Looking(w) /\ w # t
    BY DEF Looking
  <2>2. disturbed'[w] = disturbed[w] \cup {j}
    BY <2>1 DEF Disturbs, Looking
  <2>3. k # j /\ Undisturbed(w, k) /\ row'[k] = row[k] /\ lock'[k] = lock[k]
    BY <2>1, <2>2 DEF ClaimInv, ClaimsAreFair
  <2>4. ASSUME tx[w].step = "selected", NEW i \in tx[w].job PROVE row'[i] = row[i]
    BY <2>4 DEF ClaimInv, SelectedIsClaimable
  <2> QED
    BY <2>3, <2>4 DEF Undisturbed, Matches, Before
<1> QED
  BY <1>1, <1>2, <1>3, <1>5 DEF ClaimInv

\* A committed row is typed again.
LEMMA RowWritten ==
  ASSUME ClaimQueueTypeOK, NEW j \in Jobs, NEW r \in Row, Write(j, r)
  PROVE  row' \in [Jobs -> Row] /\ row'[j] = r /\ \A k \in Jobs \ {j} : row'[k] = row[k]
BY DEF ClaimQueueTypeOK, Write

\* What others note is a set of rows.
LEMMA DisturbedIsTyped ==
  ASSUME ClaimQueueTypeOK, NEW t, NEW j \in Jobs, Disturbs(t, j)
  PROVE  disturbed' \in [Workers -> SUBSET Jobs]
BY DEF ClaimQueueTypeOK, Disturbs

\* A submitted job is waiting and has all its tries.
LEMMA SubmitKeepsInv ==
  ASSUME ClaimInv, NEW j \in Jobs, NEW p \in Priorities, NEW a \in Time, Submit(j, p, a)
  PROVE  ClaimInv'
<1>. DEFINE s == IF a > now THEN "SCHEDULED" ELSE "QUEUED"
            r == [NoRow EXCEPT !.status = s, !.priority = p, !.availableAt = a, !.createdAt = now]
<1>0. s \in {"SCHEDULED", "QUEUED"}
  OBVIOUS
<1>1. ClaimQueueTypeOK /\ Sound(j, row[j]) /\ row[j].status = "ABSENT" /\ row[j].owner = NoWorker
  BY DEF ClaimInv, RowsAreSound, Sound, Submit
<1>4. Write(j, r) /\ Disturbs(NoWorker, j) /\ UNCHANGED <<now, lock, tx>>
  BY DEF Submit
<1>. HIDE DEF s
<1>2. r \in Row /\ r.status \in {"SCHEDULED", "QUEUED"} /\ r.owner = NoWorker /\ r.attemptCount = 0
  <2>1. a \in Nat /\ now \in Time /\ 0 \in Time /\ 0 \in Nat
    BY <1>1, ClaimQueueAssumption DEF ClaimQueueTypeOK, Time
  <2>2. s \in JobStatus
    BY <1>0 DEF JobStatus, ClaimableStatuses
  <2> QED
    BY <1>0, <2>1, <2>2 DEF NoRow, Row
<1>3. Sound(j, r)
  BY <1>2, ClaimQueueAssumption DEF Sound, ClaimableStatuses
<1>. HIDE DEF r
<1>5. row' \in [Jobs -> Row] /\ row'[j] = r /\ \A k \in Jobs \ {j} : row'[k] = row[k]
  BY <1>1, <1>2, <1>4, RowWritten
<1>6. lock[j] \notin Workers /\ lock[j] # Canceller
  BY <1>1 DEF ClaimInv, LocksAreHeld, SelectedIsClaimable, Matches, ClaimableStatuses
<1>7. ClaimQueueTypeOK'
  BY <1>1, <1>4, <1>5, DisturbedIsTyped DEF ClaimQueueTypeOK
<1> QED
  BY <1>1, <1>2, <1>3, <1>4, <1>5, <1>6, <1>7, OthersDisturb, ClaimQueueAssumption

\* A cancellation locks a row that may be cancelled.
LEMMA LockToCancelKeepsInv ==
  ASSUME ClaimInv, NEW j \in Jobs, LockToCancel(j)
  PROVE  ClaimInv'
<1>1. ClaimQueueTypeOK /\ Sound(j, row[j]) /\ lock[j] = NoWorker
  BY DEF ClaimInv, RowsAreSound, LockToCancel, Unlocked
<1>2. lock' = [lock EXCEPT ![j] = Canceller] /\ Disturbs(NoWorker, j) /\ UNCHANGED <<now, row, tx>>
      /\ row[j].status \in ClaimableStatuses
  BY DEF LockToCancel
<1>3. ClaimQueueTypeOK'
  BY <1>1, <1>2, DisturbedIsTyped DEF ClaimQueueTypeOK
<1>4. lock'[j] = Canceller /\ \A k \in Jobs \ {j} : lock'[k] = lock[k]
  BY <1>1, <1>2 DEF ClaimQueueTypeOK
<1> QED
  BY <1>1, <1>2, <1>3, <1>4, OthersDisturb, ClaimQueueAssumption

\* A cancellation ends: the job is cancelled, or nothing happened to it.
LEMMA EndCancelKeepsInv ==
  ASSUME ClaimInv, NEW j \in Jobs, EndCancel(j)
  PROVE  ClaimInv'
<1>. DEFINE r == [row[j] EXCEPT !.status = "CANCELLED", !.owner = NoWorker]
<1>1. ClaimQueueTypeOK /\ Sound(j, row[j]) /\ lock[j] = Canceller /\ lock' = [lock EXCEPT ![j] = NoWorker]
      /\ Disturbs(NoWorker, j) /\ UNCHANGED <<now, tx>> /\ (Write(j, r) \/ UNCHANGED row)
  BY DEF ClaimInv, RowsAreSound, EndCancel
<1>2. r \in Row /\ Sound(j, r) /\ r.owner = NoWorker
  BY <1>1, ClaimQueueAssumption DEF Sound, Row, JobStatus, ClaimableStatuses
<1>. HIDE DEF r
<1>3. row' \in [Jobs -> Row] /\ row'[j] \in {r, row[j]} /\ \A k \in Jobs \ {j} : row'[k] = row[k]
  <2>1. CASE Write(j, r)
    BY <1>1, <1>2, <2>1, RowWritten
  <2>2. CASE UNCHANGED row
    BY <1>1, <2>2 DEF ClaimQueueTypeOK
  <2> QED
    BY <1>1, <2>1, <2>2
<1>4. ClaimQueueTypeOK'
  BY <1>1, <1>3, DisturbedIsTyped DEF ClaimQueueTypeOK
<1>5. lock'[j] = NoWorker /\ \A k \in Jobs \ {j} : lock'[k] = lock[k]
  BY <1>1 DEF ClaimQueueTypeOK
<1> QED
  BY <1>1, <1>2, <1>3, <1>4, <1>5, OthersDisturb, ClaimQueueAssumption

\* What ends an attempt leaves a sound row, whichever status it gives.
LEMMA EndAttemptKeepsInv ==
  ASSUME ClaimInv, NEW w \in Workers, NEW j \in Jobs, NEW endedAt \in Time,
         NEW s \in JobStatus \ {"PROCESSING", "ABSENT"}, NEW a \in Nat,
         EndAttempt(w, j, endedAt, s, a),
         s \in ClaimableStatuses => row[j].attemptCount < MaxAttempts[j],
         s = "DEAD_LETTER" => row[j].attemptCount = MaxAttempts[j],
         s = "RETRYING" => a = endedAt + RetryDelay(row[j].attemptCount)
  PROVE  ClaimInv'
<1>. DEFINE e == IF s = "RETRYING" THEN endedAt ELSE 0
            r == [row[j] EXCEPT !.status = s, !.owner = NoWorker, !.availableAt = a, !.finishedAt = e]
<1>0. e \in Time /\ (s = "RETRYING" => e = endedAt)
  BY ClaimQueueAssumption DEF Time
<1>1. ClaimQueueTypeOK /\ Sound(j, row[j]) /\ row[j].owner = w /\ lock[j] = NoWorker
      /\ Write(j, r) /\ Disturbs(NoWorker, j) /\ UNCHANGED <<now, lock, tx>>
  BY DEF ClaimInv, RowsAreSound, EndAttempt, Unlocked
<1>. HIDE DEF e
<1>2. /\ r \in Row /\ r.owner = NoWorker /\ r.status = s /\ r.attemptCount = row[j].attemptCount
      /\ r.availableAt = a /\ r.finishedAt = e
  BY <1>0, <1>1 DEF Sound, Row
<1>. HIDE DEF r
<1>3. Sound(j, r)
  <2>1. row[j].status = "PROCESSING"
    BY DEF EndAttempt
  <2>2. row[j].attemptCount > 0 /\ row[j].attemptCount <= MaxAttempts[j]
    BY <1>1, <2>1 DEF Sound
  <2> QED
    BY <1>0, <1>2, <2>2 DEF Sound
<1>4. row' \in [Jobs -> Row] /\ row'[j] = r /\ \A k \in Jobs \ {j} : row'[k] = row[k]
  BY <1>1, <1>2, RowWritten
<1>5. ClaimQueueTypeOK'
  BY <1>1, <1>4, DisturbedIsTyped DEF ClaimQueueTypeOK
<1> QED
  BY <1>1, <1>2, <1>3, <1>4, <1>5, OthersDisturb, ClaimQueueAssumption

\* The three transactions that end an attempt.
LEMMA AttemptEndsKeepsInv ==
  ASSUME ClaimInv, NEW w \in Workers, NEW j \in Jobs, AttemptEnds(w, j)
  PROVE  ClaimInv'
<1>1. PICK endedAt \in Time :
        Complete(w, j, endedAt) \/ ReleaseForRetry(w, j, endedAt) \/ MoveToDeadLetter(w, j, endedAt)
  BY DEF AttemptEnds
<1>2. Sound(j, row[j]) /\ row[j].attemptCount \in Nat /\ row[j].availableAt \in Nat
      /\ MaxAttempts[j] \in Nat
  BY ClaimQueueAssumption DEF ClaimInv, RowsAreSound, Sound, Row
<1>3. CASE Complete(w, j, endedAt)
  BY <1>2, <1>3, EndAttemptKeepsInv DEF Complete, JobStatus, ClaimableStatuses
<1>4. CASE ReleaseForRetry(w, j, endedAt)
  <2>1. endedAt + RetryDelay(row[j].attemptCount) \in Nat
    <3>1. row[j].status = "PROCESSING"
      BY <1>4 DEF ReleaseForRetry, EndAttempt
    <3>2. RetryDelay(row[j].attemptCount) \in Nat
      BY <1>2, <3>1, DelayIsAsDescribed DEF Sound
    <3> QED
      BY <3>2 DEF Time
  <2> QED
    BY <1>2, <1>4, <2>1, EndAttemptKeepsInv DEF ReleaseForRetry, JobStatus, ClaimableStatuses
<1>5. CASE MoveToDeadLetter(w, j, endedAt)
  BY <1>2, <1>5, EndAttemptKeepsInv DEF MoveToDeadLetter, Sound, JobStatus, ClaimableStatuses
<1> QED
  BY <1>1, <1>3, <1>4, <1>5
-----------------------------------------------------------------------------
(***************************************************************************)
(* Steps of a claim                                                        *)
(***************************************************************************)
\* A claim that moves on without the tables or a lock, to c.
LEMMA ClaimMoves ==
  ASSUME ClaimInv, NEW w \in Workers, NEW c \in Claim, tx' = [tx EXCEPT ![w] = c],
         tx[w].step # "selected", c.step # "selected", UNCHANGED <<now, row, lock>>,
         disturbed' \in [Workers -> SUBSET Jobs],
         \A v \in Workers \ {w} : disturbed'[v] = disturbed[v],
         Looking(w)' => \A k \in Jobs \ disturbed'[w] : Undisturbed(w, k)'
  PROVE  ClaimInv'
<1>0. tx'[w] = c /\ tx' \in [Workers -> Claim] /\ \A v \in Workers \ {w} : tx'[v] = tx[v]
  BY DEF ClaimInv, ClaimQueueTypeOK
<1>1. ClaimQueueTypeOK' /\ RowsAreSound'
  BY <1>0 DEF ClaimInv, ClaimQueueTypeOK, RowsAreSound
<1>2. LocksAreHeld'
  BY <1>0 DEF ClaimInv, LocksAreHeld
<1>3. SelectedIsClaimable'
  BY <1>0 DEF ClaimInv, SelectedIsClaimable, Matches
<1>5. ASSUME NEW v \in Workers, NEW k \in Jobs, Looking(v)', k \notin disturbed'[v]
      PROVE  Undisturbed(v, k)'
  <2>1. CASE v = w
    BY <1>5, <2>1
  <2>2. CASE v # w
    <3>1. Looking(v) /\ k \notin disturbed[v] /\ tx'[v] = tx[v]
      BY <1>0, <1>5, <2>2 DEF Looking
    <3>2. Undisturbed(v, k)
      BY <3>1 DEF ClaimInv, ClaimsAreFair
    <3> QED
      BY <3>1, <3>2 DEF Undisturbed, Matches, Before
  <2> QED
    BY <2>1, <2>2
<1> QED
  BY <1>1, <1>2, <1>3, <1>5 DEF ClaimInv, ClaimsAreFair

\* The steps of a claim before it has selected a job.
LEMMA CallClaimKeepsInv ==
  ASSUME ClaimInv, NEW w \in Workers, CallClaim(w)
  PROVE  ClaimInv'
<1>. DEFINE c == [NoClaim EXCEPT !.step = "called", !.claimedAt = now]
<1>1. ClaimQueueTypeOK /\ tx' = [tx EXCEPT ![w] = c] /\ disturbed' = [disturbed EXCEPT ![w] = {}]
      /\ UNCHANGED <<now, row, lock>> /\ tx[w].step # "selected"
  BY DEF ClaimInv, CallClaim
<1>2. c \in Claim /\ c.step = "called"
  <2>1. [j \in Jobs |-> 0] \in [Jobs -> Nat] /\ now \in Time
    BY <1>1 DEF ClaimQueueTypeOK
  <2> QED
    BY <2>1 DEF NoClaim, Claim, ClaimStep
<1>3. ~Looking(w)'
  BY <1>1, <1>2 DEF Looking, ClaimQueueTypeOK
<1>4. disturbed' \in [Workers -> SUBSET Jobs] /\ \A v \in Workers \ {w} : disturbed'[v] = disturbed[v]
  BY <1>1 DEF ClaimQueueTypeOK
<1>. HIDE DEF c
<1> QED
  BY <1>1, <1>2, <1>3, <1>4, ClaimMoves

\* The SELECT sees every row that matches and notes those that are locked.
LEMMA StartSelectKeepsInv ==
  ASSUME ClaimInv, NEW w \in Workers, StartSelect(w)
  PROVE  ClaimInv'
<1>. DEFINE matching == {j \in Jobs : Matches(j, tx[w].claimedAt)}
            times == [j \in Jobs |-> row[j].availableAt]
            locked == {j \in Jobs : ~Unlocked(j)}
            c == [tx[w] EXCEPT !.step = "visiting", !.rows = matching, !.seen = times]
<1>1. ClaimQueueTypeOK /\ tx[w].step = "called" /\ UNCHANGED <<now, row, lock>>
      /\ disturbed' = [disturbed EXCEPT ![w] = locked]
  BY DEF ClaimInv, StartSelect
<1>2. tx' = [tx EXCEPT ![w] = c]
  BY DEF StartSelect, ClaimInv, ClaimQueueTypeOK
<1>3. times \in [Jobs -> Nat] /\ matching \subseteq Jobs
  BY <1>1 DEF ClaimQueueTypeOK, Row
<1>4. disturbed' \in [Workers -> SUBSET Jobs] /\ disturbed'[w] = locked
      /\ \A v \in Workers \ {w} : disturbed'[v] = disturbed[v]
  BY <1>1 DEF ClaimQueueTypeOK
<1>6. ASSUME NEW k \in Jobs \ locked PROVE lock[k] = NoWorker /\ (Matches(k, tx[w].claimedAt) => k \in matching)
  BY DEF Unlocked
<1>. HIDE DEF matching, times, locked
<1>7. c \in Claim /\ c.step = "visiting" /\ c.rows = matching /\ c.claimedAt = tx[w].claimedAt
  BY <1>1, <1>3 DEF ClaimQueueTypeOK, Claim, ClaimStep
<1>. HIDE DEF c
<1>8. tx'[w] = c
  BY <1>1, <1>2 DEF ClaimQueueTypeOK
<1>9. ASSUME NEW k \in Jobs \ disturbed'[w] PROVE Undisturbed(w, k)'
  BY <1>1, <1>4, <1>6, <1>7, <1>8 DEF Undisturbed, Matches
<1> QED
  BY <1>1, <1>2, <1>4, <1>7, <1>9, ClaimMoves

\* A row is passed over only if somebody locked or changed it.
LEMMA PassOverKeepsInv ==
  ASSUME ClaimInv, NEW w \in Workers, NEW j \in Jobs, PassOver(w, j)
  PROVE  ClaimInv'
<1>. DEFINE left == tx[w].rows \ {j}
            c == [tx[w] EXCEPT !.rows = left]
<1>1. ClaimQueueTypeOK /\ tx[w].step = "visiting" /\ UNCHANGED <<now, row, lock, disturbed>>
      /\ (~Unlocked(j) \/ ~Matches(j, tx[w].claimedAt))
  BY DEF ClaimInv, PassOver
<1>2. tx' = [tx EXCEPT ![w] = c]
  BY DEF PassOver, ClaimInv, ClaimQueueTypeOK
<1>3. left \subseteq Jobs /\ \A k \in tx[w].rows : k # j => k \in left
  BY <1>1 DEF ClaimQueueTypeOK, Claim
<1>. HIDE DEF left
<1>7. c \in Claim /\ c.step = "visiting" /\ c.rows = left /\ c.claimedAt = tx[w].claimedAt
  BY <1>1, <1>3 DEF ClaimQueueTypeOK, Claim
<1>. HIDE DEF c
<1>8. tx'[w] = c
  BY <1>1, <1>2 DEF ClaimQueueTypeOK
<1>9. ASSUME NEW k \in Jobs \ disturbed'[w] PROVE Undisturbed(w, k)'
  <2>1. Undisturbed(w, k)
    BY <1>1 DEF ClaimInv, ClaimsAreFair, Looking
  <2>2. lock[k] # w
    BY <1>1 DEF ClaimInv, LocksAreHeld
  <2> QED
    BY <1>1, <1>3, <1>7, <1>8, <2>1, <2>2 DEF Undisturbed, Unlocked, Matches
<1> QED
  BY <1>1, <1>2, <1>7, <1>9, ClaimMoves DEF ClaimQueueTypeOK

\* Nothing is found only if every row that matches is one of others.
LEMMA FindNothingKeepsInv ==
  ASSUME ClaimInv, NEW w \in Workers, FindNothing(w)
  PROVE  ClaimInv'
<1>. DEFINE c == [tx[w] EXCEPT !.step = "none", !.seen = NoClaim.seen]
<1>1. ClaimQueueTypeOK /\ tx[w].step = "visiting" /\ tx[w].rows = {} /\ UNCHANGED <<now, row, lock, disturbed>>
  BY DEF ClaimInv, FindNothing
<1>2. tx' = [tx EXCEPT ![w] = c]
  BY DEF FindNothing, ClaimInv, ClaimQueueTypeOK
<1>3. NoClaim.seen \in [Jobs -> Nat]
  BY DEF NoClaim
<1>7. c \in Claim /\ c.step = "none" /\ c.claimedAt = tx[w].claimedAt
  BY <1>1, <1>3 DEF ClaimQueueTypeOK, Claim, ClaimStep
<1>. HIDE DEF c
<1>8. tx'[w] = c
  BY <1>1, <1>2 DEF ClaimQueueTypeOK
<1>9. ASSUME NEW k \in Jobs \ disturbed'[w] PROVE Undisturbed(w, k)'
  <2>1. Undisturbed(w, k)
    BY <1>1 DEF ClaimInv, ClaimsAreFair, Looking
  <2> QED
    BY <1>1, <1>7, <1>8, <2>1 DEF Undisturbed, Matches
<1> QED
  BY <1>1, <1>2, <1>7, <1>9, ClaimMoves DEF ClaimQueueTypeOK
\* The selected row is locked, and no undisturbed row is better.
LEMMA SelectKeepsInv ==
  ASSUME ClaimInv, NEW w \in Workers, NEW j \in Jobs, Select(w, j)
  PROVE  ClaimInv'
<1>. DEFINE c == [tx[w] EXCEPT !.step = "selected", !.job = {j}, !.rows = {}]
<1>1. ClaimQueueTypeOK /\ tx[w].step = "visiting" /\ UNCHANGED <<now, row>> /\ lock' = [lock EXCEPT ![j] = w]
      /\ Disturbs(w, j) /\ lock[j] = NoWorker /\ Matches(j, tx[w].claimedAt)
      /\ \A k \in tx[w].rows : ~Before(k, j, tx[w].seen)
  BY DEF ClaimInv, Select, Unlocked, NextRows
<1>2. tx' = [tx EXCEPT ![w] = c]
  BY DEF Select, ClaimInv, ClaimQueueTypeOK
<1>3. c \in Claim /\ c.step = "selected" /\ c.job = {j}
      /\ c.claimedAt = tx[w].claimedAt /\ c.seen = tx[w].seen
  BY <1>1 DEF ClaimQueueTypeOK, Claim, ClaimStep
<1>. HIDE DEF c
<1>4. /\ tx'[w] = c /\ \A v \in Workers \ {w} : tx'[v] = tx[v]
      /\ lock'[j] = w /\ \A k \in Jobs \ {j} : lock'[k] = lock[k]
  BY <1>1, <1>2 DEF ClaimQueueTypeOK
<1>5. ClaimQueueTypeOK' /\ RowsAreSound'
  BY <1>1, <1>2, <1>3, DisturbedIsTyped DEF ClaimQueueTypeOK, ClaimInv, RowsAreSound
<1>6. LocksAreHeld'
  <2>1. \A v \in Workers : ~(tx[v].step = "selected" /\ tx[v].job = {j})
    BY <1>1, ClaimQueueAssumption DEF ClaimInv, LocksAreHeld
  <2>2. \A k \in Jobs : lock[k] # w
    BY <1>1 DEF ClaimInv, LocksAreHeld
  <2>3. \A k \in Jobs : lock'[k] = Canceller => row'[k].status \in ClaimableStatuses
    BY <1>1, <1>4, ClaimQueueAssumption DEF ClaimInv, LocksAreHeld
  <2>4. ASSUME NEW k \in Jobs, NEW v \in Workers
        PROVE  lock'[k] = v <=> tx'[v].step = "selected" /\ tx'[v].job = {k}
    BY <1>1, <1>3, <1>4, <2>1, <2>2 DEF ClaimInv, LocksAreHeld
  <2> QED
    BY <2>3, <2>4 DEF LocksAreHeld
<1>7. SelectedIsClaimable'
  <2>1. ASSUME NEW v \in Workers, tx'[v].step = "selected", v # w
        PROVE  \E k \in Jobs : tx'[v].job = {k} /\ lock'[k] = v /\ Matches(k, tx[v].claimedAt)
    BY <1>1, <1>4, <2>1, ClaimQueueAssumption DEF ClaimInv, SelectedIsClaimable
  <2> QED
    BY <1>1, <1>3, <1>4, <2>1 DEF SelectedIsClaimable, Matches
<1>9. ASSUME NEW v \in Workers, NEW k \in Jobs, Looking(v)', k \notin disturbed'[v]
      PROVE  Undisturbed(v, k)'
  <2>1. CASE v = w
    <3>1. k \notin disturbed[w]
      BY <1>1, <1>9, <2>1 DEF Disturbs, Looking
    <3>2. Undisturbed(w, k)
      BY <1>1, <3>1 DEF ClaimInv, ClaimsAreFair, Looking
    <3> QED
      BY <1>1, <1>3, <1>4, <2>1, <3>2 DEF Undisturbed, Matches, Before
  <2>2. CASE v # w
    <3>1. Looking(v) /\ tx'[v] = tx[v]
      BY <1>4, <1>9, <2>2 DEF Looking
    <3>2. k # j /\ k \notin disturbed[v]
      BY <1>1, <1>9, <2>2, <3>1 DEF Disturbs, Looking
    <3>3. Undisturbed(v, k)
      BY <3>1, <3>2 DEF ClaimInv, ClaimsAreFair
    <3> QED
      BY <1>1, <1>4, <3>1, <3>2, <3>3 DEF Undisturbed, Matches, Before
  <2> QED
    BY <2>1, <2>2
<1> QED
  BY <1>5, <1>6, <1>7, <1>9 DEF ClaimInv, ClaimsAreFair

\* The update takes the selected row, and no claim sees it unnoticed.
LEMMA CommitClaimKeepsInv ==
  ASSUME ClaimInv, NEW w \in Workers, NEW j \in Jobs, CommitClaim(w, j)
  PROVE  ClaimInv'
<1>. DEFINE n == row[j].attemptCount + 1
            r == [row[j] EXCEPT !.status = "PROCESSING", !.owner = w, !.attemptCount = n]
<1>1. ClaimQueueTypeOK /\ Sound(j, row[j]) /\ tx[w].step = "selected" /\ tx[w].job = {j} /\ lock[j] = w
      /\ row[j].status \in ClaimableStatuses
  BY DEF ClaimInv, RowsAreSound, CommitClaim, SelectedIsClaimable, Matches
<1>2. /\ Write(j, r) /\ lock' = [lock EXCEPT ![j] = NoWorker] /\ tx' = [tx EXCEPT ![w] = NoClaim]
      /\ Disturbs(w, j) /\ UNCHANGED now
  BY DEF CommitClaim
<1>0. row[j].attemptCount \in Nat /\ n \in Nat /\ n = row[j].attemptCount + 1
  BY <1>1 DEF Sound, Row
<1>. HIDE DEF n
<1>3. r \in Row /\ r.status = "PROCESSING" /\ r.owner = w /\ r.attemptCount = n
  BY <1>0, <1>1 DEF Sound, Row, JobStatus
<1>. HIDE DEF r
<1>4. Sound(j, r)
  BY <1>0, <1>1, <1>3, ClaimQueueAssumption DEF Sound, ClaimableStatuses, Row
<1>5. row' \in [Jobs -> Row] /\ row'[j] = r /\ \A k \in Jobs \ {j} : row'[k] = row[k]
  BY <1>1, <1>2, <1>3, RowWritten
<1>6. /\ tx'[w] = NoClaim /\ NoClaim.step = "idle" /\ \A v \in Workers \ {w} : tx'[v] = tx[v]
      /\ lock'[j] = NoWorker /\ \A k \in Jobs \ {j} : lock'[k] = lock[k]
  BY <1>1, <1>2 DEF ClaimQueueTypeOK, NoClaim
<1>7. ClaimQueueTypeOK' /\ RowsAreSound'
  <2>1. NoClaim \in Claim
    <3>1. [i \in Jobs |-> 0] \in [Jobs -> Nat] /\ 0 \in Time
      BY ClaimQueueAssumption DEF Time
    <3> QED
      BY <3>1 DEF NoClaim, Claim, ClaimStep
  <2> QED
    BY <1>1, <1>2, <1>4, <1>5, <2>1, DisturbedIsTyped DEF ClaimQueueTypeOK, ClaimInv, RowsAreSound
<1>8. LocksAreHeld'
  <2>1. \A k \in Jobs : lock'[k] = Canceller => row'[k].status \in ClaimableStatuses
    BY <1>5, <1>6, ClaimQueueAssumption DEF ClaimInv, LocksAreHeld
  <2>2. ASSUME NEW k \in Jobs, NEW v \in Workers
        PROVE  lock'[k] = v <=> tx'[v].step = "selected" /\ tx'[v].job = {k}
    BY <1>1, <1>6, ClaimQueueAssumption DEF ClaimInv, LocksAreHeld
  <2> QED
    BY <2>1, <2>2 DEF LocksAreHeld
<1>9. SelectedIsClaimable'
  <2>1. ASSUME NEW v \in Workers, tx'[v].step = "selected"
        PROVE  /\ tx'[v] = tx[v]
               /\ \E k \in Jobs : /\ tx[v].job = {k} /\ lock'[k] = v /\ row'[k] = row[k]
                                 /\ Matches(k, tx[v].claimedAt)
    <3>1. v # w /\ tx'[v] = tx[v]
      BY <1>6, <2>1
    <3>2. PICK k \in Jobs : tx[v].job = {k} /\ lock[k] = v /\ Matches(k, tx[v].claimedAt)
      BY <2>1, <3>1 DEF ClaimInv, SelectedIsClaimable
    <3>3. k # j
      BY <1>1, <3>1, <3>2
    <3> QED
      BY <1>5, <1>6, <3>1, <3>2, <3>3
  <2> QED
    BY <2>1 DEF SelectedIsClaimable, Matches
<1>11. ASSUME NEW v \in Workers, NEW k \in Jobs, Looking(v)', k \notin disturbed'[v]
       PROVE  Undisturbed(v, k)'
  <2>1. Looking(v) /\ tx'[v] = tx[v] /\ v # w
    BY <1>6, <1>11 DEF Looking
  <2>2. k # j /\ k \notin disturbed[v]
    BY <1>2, <1>11, <2>1 DEF Disturbs, Looking
  <2>3. Undisturbed(v, k)
    BY <2>1, <2>2 DEF ClaimInv, ClaimsAreFair
  <2>4. ASSUME tx[v].step = "selected", NEW i \in tx[v].job PROVE row'[i] = row[i]
    <3>1. i \in Jobs /\ lock[i] = v
      BY <2>4 DEF ClaimInv, SelectedIsClaimable
    <3> QED
      BY <1>1, <1>5, <2>1, <3>1
  <2> QED
    BY <1>5, <1>6, <2>1, <2>2, <2>3, <2>4 DEF Undisturbed, Matches, Before
<1> QED
  BY <1>7, <1>8, <1>9, <1>11 DEF ClaimInv, ClaimsAreFair

\* A claim that is rolled back gives its lock back.
LEMMA RollBackKeepsInv ==
  ASSUME ClaimInv, NEW w \in Workers, RollBackClaim(w)
  PROVE  ClaimInv'
<1>1. /\ ClaimQueueTypeOK /\ tx' = [tx EXCEPT ![w] = NoClaim] /\ UNCHANGED <<now, row>>
      /\ disturbed' = [disturbed EXCEPT ![w] = {}]
      /\ lock' = [k \in Jobs |-> IF lock[k] = w THEN NoWorker ELSE lock[k]]
  BY DEF ClaimInv, RollBackClaim
<1>2. NoClaim \in Claim
  <2>1. [i \in Jobs |-> 0] \in [Jobs -> Nat] /\ 0 \in Time
    BY ClaimQueueAssumption DEF Time
  <2> QED
    BY <2>1 DEF NoClaim, Claim, ClaimStep
<1>3. tx'[w] = NoClaim /\ NoClaim.step = "idle" /\ \A v \in Workers \ {w} : tx'[v] = tx[v]
  BY <1>1 DEF ClaimQueueTypeOK, NoClaim
<1>4. ClaimQueueTypeOK' /\ RowsAreSound'
  BY <1>1, <1>2 DEF ClaimQueueTypeOK, ClaimInv, RowsAreSound
<1>5. LocksAreHeld'
  BY <1>1, <1>3, ClaimQueueAssumption DEF ClaimInv, LocksAreHeld
<1>6. SelectedIsClaimable'
  BY <1>1, <1>3, ClaimQueueAssumption DEF ClaimInv, SelectedIsClaimable, Matches
<1>8. ASSUME NEW v \in Workers, NEW k \in Jobs, Looking(v)', k \notin disturbed'[v]
      PROVE  Undisturbed(v, k)'
  <2>1. Looking(v) /\ tx'[v] = tx[v] /\ k \notin disturbed[v]
    BY <1>1, <1>3, <1>8 DEF Looking
  <2>2. Undisturbed(v, k)
    BY <2>1 DEF ClaimInv, ClaimsAreFair
  <2> QED
    BY <1>1, <2>1, <2>2 DEF Undisturbed, Matches, Before
<1> QED
  BY <1>4, <1>5, <1>6, <1>8 DEF ClaimInv, ClaimsAreFair

\* Time passes.
LEMMA TickKeepsInv == ClaimInv /\ Tick => ClaimInv'
<1>. SUFFICES ASSUME ClaimInv, Tick PROVE ClaimInv'
  OBVIOUS
<1>1. UNCHANGED <<row, lock, tx, disturbed>> /\ now' \in Time
  BY ClaimQueueAssumption DEF ClaimInv, ClaimQueueTypeOK, Tick, Time
<1>2. ClaimQueueTypeOK' /\ RowsAreSound' /\ LocksAreHeld'
  BY <1>1 DEF ClaimInv, ClaimQueueTypeOK, RowsAreSound, LocksAreHeld
<1>3. SelectedIsClaimable' /\ ClaimsAreFair'
  BY <1>1 DEF ClaimInv, SelectedIsClaimable, ClaimsAreFair, Looking, Undisturbed, Matches, Before
<1> QED
  BY <1>2, <1>3 DEF ClaimInv

\* The invariant is inductive.
LEMMA ClaimStepKeepsInv == ClaimInv /\ [Next]_queueVars => ClaimInv'
<1>. SUFFICES ASSUME ClaimInv, [Next]_queueVars PROVE ClaimInv'
  OBVIOUS
<1>1. CASE Tick
  BY <1>1, TickKeepsInv
<1>2. ASSUME NEW w \in Workers, ClaimNext(w) PROVE ClaimInv'
  BY <1>2, CallClaimKeepsInv, StartSelectKeepsInv, PassOverKeepsInv, FindNothingKeepsInv,
     SelectKeepsInv, CommitClaimKeepsInv, RollBackKeepsInv
  DEF ClaimNext
<1>3. ASSUME NEW j \in Jobs,
             \/ \E p \in Priorities, availableAt \in Time : Submit(j, p, availableAt)
             \/ LockToCancel(j) \/ EndCancel(j)
             \/ \E w \in Workers : AttemptEnds(w, j)
      PROVE  ClaimInv'
  BY <1>3, SubmitKeepsInv, LockToCancelKeepsInv, EndCancelKeepsInv, AttemptEndsKeepsInv
<1>4. CASE UNCHANGED queueVars
  <2>1. ClaimQueueTypeOK' /\ RowsAreSound' /\ LocksAreHeld'
    BY <1>4 DEF queueVars, ClaimInv, ClaimQueueTypeOK, RowsAreSound, LocksAreHeld
  <2>2. SelectedIsClaimable' /\ ClaimsAreFair'
    BY <1>4 DEF queueVars, ClaimInv, SelectedIsClaimable, ClaimsAreFair, Looking, Undisturbed, Matches, Before
  <2> QED
    BY <2>1, <2>2 DEF ClaimInv
<1> QED
  BY <1>1, <1>2, <1>3, <1>4 DEF Next

\* Empty tables and idle workers.
LEMMA InitClaimInv == Init => ClaimInv
<1>. SUFFICES ASSUME Init PROVE ClaimInv
  OBVIOUS
<1>1. 0 \in Time /\ 0 \in Nat
  BY ClaimQueueAssumption DEF Time
<1>2. NoClaim \in Claim /\ NoClaim.step = "idle"
  BY <1>1 DEF NoClaim, Claim, ClaimStep
<1>3. NoRow \in Row /\ NoRow.status = "ABSENT" /\ NoRow.owner = NoWorker /\ NoRow.attemptCount = 0
  BY <1>1 DEF NoRow, Row, JobStatus
<1>4. ClaimQueueTypeOK
  BY <1>1, <1>2, <1>3 DEF Init, ClaimQueueTypeOK
<1>5. RowsAreSound
  <2>1. ASSUME NEW j \in Jobs PROVE Sound(j, NoRow)
    <3>1. MaxAttempts[j] \in Nat /\ 0 <= MaxAttempts[j]
      BY ClaimQueueAssumption
    <3> HIDE DEF NoRow
    <3> QED
      BY <1>3, <3>1 DEF Sound, ClaimableStatuses
  <2> QED
    BY <2>1 DEF Init, RowsAreSound
<1>6. LocksAreHeld /\ SelectedIsClaimable /\ ClaimsAreFair
  BY <1>2, <1>3, ClaimQueueAssumption
  DEF Init, LocksAreHeld, SelectedIsClaimable, ClaimsAreFair, Looking
<1> QED
  BY <1>4, <1>5, <1>6 DEF ClaimInv

\* For any number of jobs, workers and priorities, any budgets and delays, the
\* strengthened invariant holds in every state.
THEOREM ClaimInvariant == Spec => []ClaimInv
  BY InitClaimInv, ClaimStepKeepsInv, PTL DEF Spec

\* Every column and every transaction holds a value that the code gives it.
THEOREM ClaimQueueIsTyped == Spec => []ClaimQueueTypeOK
BY ClaimInvariant, PTL DEF ClaimInv

\* A job that waits for its retry becomes available when the backoff that the
\* comment of calculateRetryDelayMs describes is over, for any base and cap.
THEOREM BackoffIsAsDescribed == Spec => []BackoffIsExact
<1>1. ASSUME ClaimInv, NEW j \in Jobs, row[j].status = "RETRYING"
      PROVE  /\ row[j].availableAt = row[j].finishedAt + RetryDelay(row[j].attemptCount)
             /\ \A n \in row[j].attemptCount .. row[j].attemptCount + 8 :
                  RetryDelay(n) = DelayAsDescribed[n]
  <2>1. Sound(j, row[j])
    BY <1>1 DEF ClaimInv, RowsAreSound
  <2>2. row[j].attemptCount \in Nat \ {0}
    BY <1>1, <2>1 DEF Sound, Row
  <2>3. \A n \in row[j].attemptCount .. row[j].attemptCount + 8 : n \in Nat \ {0}
    BY <2>2
  <2> QED
    BY <1>1, <2>1, <2>3, DelayIsAsDescribed DEF Sound
<1>2. ClaimInv => BackoffIsExact
  BY <1>1 DEF BackoffIsExact
<1> QED
  BY <1>2, ClaimInvariant, PTL

\* The job whose row the claim's update names is locked, claimable and
\* available until the update commits.
THEOREM SelectedStaysClaimable == Spec => []SelectedIsClaimable
<1>1. ClaimInv => SelectedIsClaimable
  BY DEF ClaimInv
<1> QED
  BY <1>1, ClaimInvariant, PTL

\* SKIP LOCKED and READ COMMITTED let a claim pass over a better job only if
\* somebody locked or changed that job in the meantime.
THEOREM ClaimsTakeTheBest == Spec => []BestFirst
<1>1. ClaimInv => BestFirst
  BY DEF ClaimInv, ClaimsAreFair, BestFirst, Undisturbed, Looking
<1> QED
  BY <1>1, ClaimInvariant, PTL
-----------------------------------------------------------------------------
(***************************************************************************)
(* What a step may do to a row, and the refinement of JobQueue             *)
(***************************************************************************)
\* The changes of row j to r that the transactions can make.
Moves(j, r) ==
  \/ /\ row[j].status = "ABSENT" /\ r.status \in {"SCHEDULED", "QUEUED"}
     /\ r.owner = row[j].owner /\ r.attemptCount = row[j].attemptCount
  \/ /\ row[j].status \in ClaimableStatuses /\ r.status = "CANCELLED"
     /\ r.owner = row[j].owner /\ r.attemptCount = row[j].attemptCount
  \/ /\ row[j].status \in ClaimableStatuses /\ r.status = "PROCESSING"
     /\ r.owner \in Workers /\ r.attemptCount = row[j].attemptCount + 1
     /\ row[j].attemptCount < MaxAttempts[j]
     /\ Matches(j, tx[r.owner].claimedAt)
  \/ /\ row[j].status = "PROCESSING" /\ r.owner = NoWorker /\ r.attemptCount = row[j].attemptCount
     /\ \/ r.status = "COMPLETED"
        \/ r.status = "RETRYING" /\ row[j].attemptCount < MaxAttempts[j]
        \/ r.status = "DEAD_LETTER" /\ row[j].attemptCount = MaxAttempts[j]

\* A step changes no row, or one row as its transaction may.
LEMMA StepMovesOneRow ==
  ASSUME ClaimInv, [Next]_queueVars
  PROVE  UNCHANGED row \/ \E j \in Jobs, r \in Row : Write(j, r) /\ Moves(j, r)
<1>0. ClaimQueueTypeOK /\ RowsAreSound /\ \A j \in Jobs : row[j] \in Row
  BY DEF ClaimInv, ClaimQueueTypeOK
<1>1. ASSUME NEW w \in Workers, NEW j \in Jobs, CommitClaim(w, j)
      PROVE  \E r \in Row : Write(j, r) /\ Moves(j, r)
  <2>. DEFINE n == row[j].attemptCount + 1
              r == [row[j] EXCEPT !.status = "PROCESSING", !.owner = w, !.attemptCount = n]
  <2>1. Write(j, r) /\ Sound(j, row[j]) /\ Matches(j, tx[w].claimedAt)
    BY <1>0, <1>1 DEF CommitClaim, RowsAreSound, ClaimInv, SelectedIsClaimable
  <2>2. n \in Nat /\ n = row[j].attemptCount + 1
    BY <1>0 DEF Row
  <2>. HIDE DEF n
  <2>3. r \in Row /\ r.status = "PROCESSING" /\ r.owner = w /\ r.attemptCount = n
    BY <1>0, <2>2 DEF Row, JobStatus
  <2>. HIDE DEF r
  <2>4. Moves(j, r)
    BY <2>1, <2>2, <2>3 DEF Moves, Matches, Sound
  <2> QED
    BY <2>1, <2>3, <2>4
<1>2. ASSUME NEW j \in Jobs, NEW p \in Priorities, NEW a \in Time, Submit(j, p, a)
      PROVE  \E r \in Row : Write(j, r) /\ Moves(j, r)
  <2>. DEFINE s == IF a > now THEN "SCHEDULED" ELSE "QUEUED"
              r == [NoRow EXCEPT !.status = s, !.priority = p, !.availableAt = a, !.createdAt = now]
  <2>1. Write(j, r) /\ row[j].status = "ABSENT" /\ row[j].owner = NoWorker /\ row[j].attemptCount = 0
    BY <1>0, <1>2 DEF Submit, RowsAreSound, Sound
  <2>2. s \in {"SCHEDULED", "QUEUED"} /\ s \in JobStatus
    BY DEF JobStatus, ClaimableStatuses
  <2>. HIDE DEF s
  <2>3. a \in Nat /\ now \in Time /\ 0 \in Time /\ 0 \in Nat
    BY <1>0, ClaimQueueAssumption DEF ClaimQueueTypeOK, Time
  <2>4. r \in Row /\ r.status = s /\ r.owner = NoWorker /\ r.attemptCount = 0
    BY <2>2, <2>3 DEF NoRow, Row
  <2>. HIDE DEF r
  <2> QED
    BY <2>1, <2>2, <2>4 DEF Moves
<1>3. ASSUME NEW j \in Jobs, EndCancel(j)
      PROVE  UNCHANGED row \/ \E r \in Row : Write(j, r) /\ Moves(j, r)
  <2>. DEFINE r == [row[j] EXCEPT !.status = "CANCELLED", !.owner = NoWorker]
  <2>1. row[j].status \in ClaimableStatuses /\ Sound(j, row[j]) /\ (Write(j, r) \/ UNCHANGED row)
    BY <1>0, <1>3 DEF EndCancel, ClaimInv, LocksAreHeld, RowsAreSound
  <2>2. row[j].owner = NoWorker
    BY <2>1 DEF Sound, ClaimableStatuses
  <2>3. r \in Row /\ r.status = "CANCELLED" /\ r.owner = NoWorker /\ r.attemptCount = row[j].attemptCount
    BY <1>0 DEF Row, JobStatus
  <2>. HIDE DEF r
  <2> QED
    BY <2>1, <2>2, <2>3 DEF Moves
<1>4. ASSUME NEW w \in Workers, NEW j \in Jobs, AttemptEnds(w, j)
      PROVE  \E r \in Row : Write(j, r) /\ Moves(j, r)
  <2>1. PICK endedAt \in Time, s \in {"COMPLETED", "RETRYING", "DEAD_LETTER"}, a \in Nat :
          /\ EndAttempt(w, j, endedAt, s, a)
          /\ s = "RETRYING" => row[j].attemptCount < MaxAttempts[j]
          /\ s = "DEAD_LETTER" => row[j].attemptCount >= MaxAttempts[j]
    <3>1. PICK endedAt \in Time :
            Complete(w, j, endedAt) \/ ReleaseForRetry(w, j, endedAt) \/ MoveToDeadLetter(w, j, endedAt)
      BY <1>4 DEF AttemptEnds
    <3>2. row[j].availableAt \in Nat /\ endedAt \in Nat
      BY <1>0 DEF Row, Time
    <3>3. ASSUME ReleaseForRetry(w, j, endedAt)
          PROVE  endedAt + RetryDelay(row[j].attemptCount) \in Nat
      <4>1. Sound(j, row[j]) /\ row[j].status = "PROCESSING"
        BY <1>0, <3>3 DEF ReleaseForRetry, EndAttempt, RowsAreSound
      <4>2. row[j].attemptCount \in Nat \ {0}
        BY <1>0, <4>1 DEF Sound, Row
      <4>3. RetryDelay(row[j].attemptCount) \in Nat
        BY <4>2, DelayIsAsDescribed
      <4> QED
        BY <3>2, <4>3
    <3> QED
      BY <3>1, <3>2, <3>3 DEF Complete, ReleaseForRetry, MoveToDeadLetter
  <2>. DEFINE e == IF s = "RETRYING" THEN endedAt ELSE 0
              r == [row[j] EXCEPT !.status = s, !.owner = NoWorker, !.availableAt = a, !.finishedAt = e]
  <2>2. Write(j, r) /\ row[j].status = "PROCESSING" /\ Sound(j, row[j])
    BY <1>0, <2>1 DEF EndAttempt, RowsAreSound
  <2>3. e \in Time
    BY ClaimQueueAssumption DEF Time
  <2>. HIDE DEF e
  <2>4. r \in Row /\ r.status = s /\ r.owner = NoWorker /\ r.attemptCount = row[j].attemptCount
    BY <1>0, <2>1, <2>3 DEF Row, JobStatus, ClaimableStatuses
  <2>. HIDE DEF r
  <2>5. s = "DEAD_LETTER" => row[j].attemptCount = MaxAttempts[j]
    BY <2>1, <2>2, ClaimQueueAssumption DEF Sound, Row
  <2> QED
    BY <2>1, <2>2, <2>4, <2>5 DEF Moves
<1>5. CASE UNCHANGED queueVars
  BY <1>5 DEF queueVars
<1> QED
  BY <1>1, <1>2, <1>3, <1>4, <1>5
  DEF Next, ClaimNext, Tick, CallClaim, StartSelect, FindNothing, RollBackClaim, PassOver, Select, LockToCancel

\* A retried job is not claimed before its backoff has passed, by any claim.
THEOREM RetriesWait == Spec => BackoffRespected
<1>1. ClaimInv /\ [Next]_queueVars => [DelayKept]_queueVars
  <2> SUFFICES ASSUME ClaimInv, [Next]_queueVars, NEW j \in Jobs,
                      row[j].status = "RETRYING", row'[j].status = "PROCESSING"
               PROVE  tx[row'[j].owner].claimedAt >= row[j].finishedAt + RetryDelay(row[j].attemptCount)
    BY DEF DelayKept
  <2>1. PICK k \in Jobs, r \in Row : Write(k, r) /\ Moves(k, r)
    BY StepMovesOneRow
  <2>2. k = j /\ row'[j] = r
    BY <2>1, RowWritten DEF ClaimInv
  <2>3. Matches(j, tx[r.owner].claimedAt)
    BY <2>1, <2>2 DEF Moves
  <2>4. row[j].availableAt = row[j].finishedAt + RetryDelay(row[j].attemptCount)
    BY DEF ClaimInv, RowsAreSound, Sound
  <2> QED
    BY <2>2, <2>3, <2>4 DEF Matches
<1> QED
  BY <1>1, ClaimInvariant, PTL DEF Spec, BackoffRespected
\* The phase of every status a row can have.
LEMMA RowPhases ==
  /\ PhaseOf("ABSENT") = "absent"
  /\ \A s \in ClaimableStatuses : PhaseOf(s) = "waiting"
  /\ PhaseOf("PROCESSING") = "leased"
  /\ PhaseOf("COMPLETED") = "succeeded"
  /\ PhaseOf("DEAD_LETTER") = "exhausted"
  /\ PhaseOf("CANCELLED") = "withdrawn"
BY DEF PhaseOf, ClaimableStatuses

\* What a changed row means to the queue.
LEMMA RowInQueue ==
  ASSUME ClaimQueueTypeOK, NEW j \in Jobs, NEW r \in Row, Write(j, r)
  PROVE  /\ Queue!Move(j, PhaseOf(row[j].status), PhaseOf(r.status))
         /\ [k \in Jobs |-> row'[k].owner] = [[k \in Jobs |-> row[k].owner] EXCEPT ![j] = r.owner]
         /\ [k \in Jobs |-> row'[k].attemptCount] =
              [[k \in Jobs |-> row[k].attemptCount] EXCEPT ![j] = r.attemptCount]
<1>1. row'[j] = r /\ \A k \in Jobs \ {j} : row'[k] = row[k]
  BY RowWritten
<1>2. [k \in Jobs |-> PhaseOf(row'[k].status)] =
        [[k \in Jobs |-> PhaseOf(row[k].status)] EXCEPT ![j] = PhaseOf(r.status)]
  BY <1>1
<1> QED
  BY <1>1, <1>2 DEF Queue!Move

\* Each statement is a step of the queue or leaves it unchanged.
LEMMA StatementRefines == ClaimInv /\ [Next]_queueVars => [Queue!QueueNext]_(Queue!queueVars)
<1>. SUFFICES ASSUME ClaimInv, [Next]_queueVars PROVE Queue!QueueNext \/ UNCHANGED Queue!queueVars
  OBVIOUS
<1>1. CASE UNCHANGED row
  BY <1>1 DEF Queue!queueVars
<1>2. ASSUME NEW j \in Jobs, NEW r \in Row, Write(j, r), Moves(j, r) PROVE Queue!QueueNext
  <2>. DEFINE holders == [k \in Jobs |-> row[k].owner]
              counts == [k \in Jobs |-> row[k].attemptCount]
  <2>1. /\ Queue!Move(j, PhaseOf(row[j].status), PhaseOf(r.status))
        /\ holders' = [holders EXCEPT ![j] = r.owner]
        /\ counts' = [counts EXCEPT ![j] = r.attemptCount]
    BY <1>2, RowInQueue DEF ClaimInv
  <2>2. holders[j] = row[j].owner /\ counts[j] = row[j].attemptCount
    OBVIOUS
  <2>3. /\ r.owner = row[j].owner => holders' = holders
        /\ r.attemptCount = row[j].attemptCount => counts' = counts
    BY <2>1, <2>2
  <2>4. CASE row[j].status = "ABSENT"
    <3>1. Queue!Move(j, "absent", "waiting") /\ UNCHANGED <<holders, counts>>
      BY <1>2, <2>1, <2>3, <2>4, RowPhases DEF Moves, ClaimableStatuses
    <3> QED
      BY <3>1 DEF Queue!Submit, Queue!QueueNext
  <2>5. CASE row[j].status \in ClaimableStatuses /\ r.status = "CANCELLED"
    <3>1. Queue!Move(j, "waiting", "withdrawn") /\ UNCHANGED <<holders, counts>>
      BY <1>2, <2>1, <2>3, <2>5, RowPhases DEF Moves, ClaimableStatuses
    <3> QED
      BY <3>1 DEF Queue!Withdraw, Queue!QueueNext
  <2>6. CASE row[j].status \in ClaimableStatuses /\ r.status = "PROCESSING"
    <3>1. /\ Queue!Move(j, "waiting", "leased") /\ counts[j] < MaxAttempts[j]
          /\ r.owner \in Workers /\ r.attemptCount = counts[j] + 1
      BY <1>2, <2>1, <2>2, <2>6, RowPhases DEF Moves, ClaimableStatuses
    <3>2. Queue!Lease(r.owner, j)
      BY <2>1, <3>1 DEF Queue!Lease
    <3> QED
      BY <3>1, <3>2 DEF Queue!QueueNext
  <2>7. CASE row[j].status = "PROCESSING"
    <3>1. Queue!EndLease(j, PhaseOf(r.status))
      BY <1>2, <2>1, <2>3, <2>7, RowPhases DEF Moves, ClaimableStatuses, Queue!EndLease
    <3>2. \/ r.status = "COMPLETED"
          \/ r.status = "RETRYING" /\ counts[j] < MaxAttempts[j]
          \/ r.status = "DEAD_LETTER" /\ counts[j] = MaxAttempts[j]
      BY <1>2, <2>2, <2>7 DEF Moves, ClaimableStatuses
    <3>3. Queue!Succeed(j) \/ Queue!GiveBack(j) \/ Queue!Exhaust(j)
      BY <3>1, <3>2, RowPhases DEF ClaimableStatuses, Queue!Succeed, Queue!GiveBack, Queue!Exhaust
    <3> QED
      BY <3>3 DEF Queue!QueueNext
  <2> QED
    BY <1>2, <2>4, <2>5, <2>6, <2>7 DEF Moves
<1> QED
  BY <1>1, <1>2, StepMovesOneRow

\* With its statements, its locks and the races between them, the claim is
\* still one step of the queue: the atomicity that JobStore gives it.
THEOREM ClaimsRefineTheQueue == Spec => ClaimsImplementQueue
<1>1. Init => Queue!QueueInit
  <2>1. NoRow.status = "ABSENT" /\ NoRow.owner = NoWorker /\ NoRow.attemptCount = 0
    BY DEF NoRow
  <2> HIDE DEF NoRow
  <2> QED
    BY <2>1, RowPhases DEF Init, Queue!QueueInit
<1> QED
  BY <1>1, ClaimInvariant, StatementRefines, PTL DEF Spec, ClaimsImplementQueue, Queue!QueueSpec
=============================================================================
