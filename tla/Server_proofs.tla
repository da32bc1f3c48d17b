---------------------------- MODULE Server_proofs ----------------------------
(***************************************************************************)
(* Theorems about Admission, for any connections, handlers and pool sizes; *)
(* and about Sessions, for any users, tokens, requests, limits and window, *)
(* with a clock that only advances or one that is also set back.           *)
(***************************************************************************)
EXTENDS Sessions, Admission, TLAPS

-----------------------------------------------------------------------------
(* The steps of the handlers.                                              *)

\* An acquisition is of one resource; a release leaves nothing.
StepRecords ==
  {x \in [op : {"try", "wait", "timed", "until", "free"}, res : SUBSET Resource, n : Nat] :
     IF x.op = "free" THEN x.n = 0 ELSE x.n > 0 /\ \E res \in Resource : x.res = {res}}

\* What handlers other than the password checks do.
SyncSteps == {x \in StepRecords : "check" \notin x.res /\ x.n <= 1}

\* Steps on neither a password check nor memory.
QuietSteps == {x \in StepRecords : "check" \notin x.res /\ "bulk" \notin x.res}

\* A password check: permit p, memory b, both given back at f.
Checks(s, p, b, f) ==
  /\ p < b /\ b < f /\ f <= Len(s)
  /\ s[p].op # "free" /\ s[p].res = {"check"} /\ s[p].n = 1
  /\ s[b].op # "free" /\ s[b].res = {"bulk"} /\ s[b].n = Argon2
  /\ s[f].op = "free" /\ s[f].res = {"check", "bulk"}
  /\ \A i \in 1..Len(s) : i \notin {p, b, f} => s[i] \in QuietSteps

CheckPlan(s) == s \in Seq(StepRecords) /\ \E p, b, f \in Nat \ {0} : Checks(s, p, b, f)

\* Two sequences one after the other.
LEMMA Cat ==
  ASSUME NEW S, NEW s \in Seq(S), NEW t \in Seq(S)
  PROVE  /\ s \o t \in Seq(S) /\ Len(s \o t) = Len(s) + Len(t) /\ Len(s) \in Nat /\ Len(t) \in Nat
         /\ \A i \in 1..Len(s) : (s \o t)[i] = s[i]
         /\ \A i \in 1..Len(t) : (s \o t)[Len(s) + i] = t[i]
BY SMT

LEMMA Single ==
  ASSUME NEW S, NEW x \in S
  PROVE  <<x>> \in Seq(S) /\ Len(<<x>>) = 1 /\ <<x>>[1] = x
BY SMT

LEMMA Element ==
  ASSUME NEW S, NEW s \in Seq(S), NEW i \in 1..Len(s)
  PROVE  s[i] \in S
BY SMT

LEMMA Wider ==
  ASSUME NEW S, NEW T, S \subseteq T, NEW s \in Seq(S)
  PROVE  s \in Seq(T)
<1>1. s \in [1..Len(s) -> T] /\ Len(s) \in Nat
  BY SMT
<1> QED BY <1>1, SMT

\* One more step.
LEMMA Snoc ==
  ASSUME NEW S, NEW s \in Seq(S), NEW t \in Seq(S)
  PROVE  Len(t) = 1 =>
           /\ s \o t \in Seq(S) /\ Len(s \o t) = Len(s) + 1 /\ (s \o t)[Len(s) + 1] = t[1]
           /\ \A i \in 1..Len(s) : (s \o t)[i] = s[i]
<1>1. Len(t) = 1 => 1 \in 1..Len(t)
  BY SMT
<1>2. \A i \in 1..Len(t) : (s \o t)[Len(s) + i] = t[i]
  BY SMT
<1>3. Len(t) = 1 => (s \o t)[Len(s) + 1] = t[1]
  BY <1>1, <1>2, Zenon
<1>4. s \o t \in Seq(S) /\ Len(s \o t) = Len(s) + Len(t) /\ \A i \in 1..Len(s) : (s \o t)[i] = s[i]
  BY Cat, Zenon
<1> QED BY <1>3, <1>4, Zenon

\* A position in the two is one in the first or one in the second.
LEMMA Position ==
  ASSUME NEW S, NEW s \in Seq(S), NEW t \in Seq(S), NEW i \in 1..Len(s \o t)
  PROVE  \/ i \in 1..Len(s) /\ (s \o t)[i] = s[i]
         \/ \E j \in 1..Len(t) : i = Len(s) + j /\ (s \o t)[i] = t[j]
<1>1. Len(s \o t) = Len(s) + Len(t) /\ Len(s) \in Nat /\ Len(t) \in Nat
  BY SMT
<1>2. i \in 1..Len(s) \/ \E j \in 1..Len(t) : i = Len(s) + j
  <2>1. CASE i <= Len(s)
    BY <1>1, <2>1
  <2>2. CASE ~(i <= Len(s))
    <3>1. i - Len(s) \in 1..Len(t) /\ i = Len(s) + (i - Len(s))
      BY <1>1, <2>2
    <3> QED BY <3>1, Zenon
  <2> QED BY <2>1, <2>2
<1>3. /\ \A k \in 1..Len(s) : (s \o t)[k] = s[k]
      /\ \A k \in 1..Len(t) : (s \o t)[Len(s) + k] = t[k]
  BY SMT
<1> QED BY <1>2, <1>3, Zenon

\* Quiet steps before or after a password check.
LEMMA QuietBefore ==
  ASSUME NEW s, CheckPlan(s), NEW t \in Seq(QuietSteps)
  PROVE  CheckPlan(t \o s)
<1>1. PICK p \in Nat \ {0}, b \in Nat \ {0}, f \in Nat \ {0} : Checks(s, p, b, f)
  BY Zenon DEF CheckPlan
<1>2. s \in Seq(StepRecords) /\ t \in Seq(StepRecords)
  <2>1. QuietSteps \subseteq StepRecords
    BY Zenon DEF QuietSteps
  <2> QED BY <2>1, Wider, Zenon DEF CheckPlan
<1>3. /\ t \o s \in Seq(StepRecords) /\ Len(t \o s) = Len(t) + Len(s)
      /\ Len(t) \in Nat /\ Len(s) \in Nat
      /\ \A i \in 1..Len(s) : (t \o s)[Len(t) + i] = s[i]
  BY <1>2, SMT
<1>4. p \in 1..Len(s) /\ b \in 1..Len(s) /\ f \in 1..Len(s) /\ p < b /\ b < f
  BY <1>1, <1>3 DEF Checks
<1>5. /\ Len(t) + p < Len(t) + b /\ Len(t) + b < Len(t) + f /\ Len(t) + f <= Len(t \o s)
      /\ Len(t) + p \in Nat \ {0} /\ Len(t) + b \in Nat \ {0} /\ Len(t) + f \in Nat \ {0}
  BY <1>3, <1>4
<1>6. /\ (t \o s)[Len(t) + p] = s[p] /\ (t \o s)[Len(t) + b] = s[b] /\ (t \o s)[Len(t) + f] = s[f]
  BY <1>3, <1>4, Zenon
<1>7. ASSUME NEW i \in 1..Len(t \o s), i \notin {Len(t) + p, Len(t) + b, Len(t) + f}
      PROVE  (t \o s)[i] \in QuietSteps
  <2>1. CASE i \in 1..Len(t) /\ (t \o s)[i] = t[i]
    BY <2>1, Element, Zenon
  <2>2. CASE \E j \in 1..Len(s) : i = Len(t) + j /\ (t \o s)[i] = s[j]
    BY <1>1, <1>7, <2>2, Zenon DEF Checks
  <2> QED BY <1>2, <2>1, <2>2, Position, SMT
<1>8. Checks(t \o s, Len(t) + p, Len(t) + b, Len(t) + f)
  BY <1>1, <1>5, <1>6, <1>7, Zenon DEF Checks
<1> QED BY <1>3, <1>5, <1>8, Zenon DEF CheckPlan

LEMMA QuietAfter ==
  ASSUME NEW s, CheckPlan(s), NEW t \in Seq(QuietSteps)
  PROVE  CheckPlan(s \o t)
<1>1. PICK p \in Nat \ {0}, b \in Nat \ {0}, f \in Nat \ {0} : Checks(s, p, b, f)
  BY Zenon DEF CheckPlan
<1>2. s \in Seq(StepRecords) /\ t \in Seq(StepRecords)
  <2>1. QuietSteps \subseteq StepRecords
    BY Zenon DEF QuietSteps
  <2> QED BY <2>1, Wider, Zenon DEF CheckPlan
<1>3. /\ s \o t \in Seq(StepRecords) /\ Len(s \o t) = Len(s) + Len(t)
      /\ Len(t) \in Nat /\ Len(s) \in Nat
      /\ \A i \in 1..Len(s) : (s \o t)[i] = s[i]
  BY <1>2, SMT
<1>4. p \in 1..Len(s) /\ b \in 1..Len(s) /\ f \in 1..Len(s) /\ p < b /\ b < f
  BY <1>1, <1>3 DEF Checks
<1>5. f <= Len(s \o t)
  BY <1>3, <1>4
<1>6. (s \o t)[p] = s[p] /\ (s \o t)[b] = s[b] /\ (s \o t)[f] = s[f]
  BY <1>3, <1>4, Zenon
<1>7. ASSUME NEW i \in 1..Len(s \o t), i \notin {p, b, f}
      PROVE  (s \o t)[i] \in QuietSteps
  <2>1. CASE i \in 1..Len(s) /\ (s \o t)[i] = s[i]
    BY <1>1, <1>7, <2>1, Zenon DEF Checks
  <2>2. CASE \E j \in 1..Len(t) : i = Len(s) + j /\ (s \o t)[i] = t[j]
    BY <2>2, Element, Zenon
  <2> QED BY <1>2, <2>1, <2>2, Position, SMT
<1>8. Checks(s \o t, p, b, f)
  BY <1>1, <1>4, <1>5, <1>6, <1>7, Zenon DEF Checks
<1> QED BY <1>3, <1>8, Zenon DEF CheckPlan

Waits == {"try", "wait", "timed", "until"}

\* Single steps.
LEMMA OneStep ==
  ASSUME NEW op \in Waits, NEW res \in Resource, NEW n \in Nat \ {0}
  PROVE  /\ [op |-> op, res |-> {res}, n |-> n] \in StepRecords
         /\ Acquire(op, res, n) = <<[op |-> op, res |-> {res}, n |-> n]>>
         /\ Acquire(op, res, n) \in Seq(StepRecords) /\ Len(Acquire(op, res, n)) = 1
<1>1. [op |-> op, res |-> {res}, n |-> n] \in StepRecords
  BY SMT DEF StepRecords, Waits
<1> QED BY <1>1, Single, Zenon DEF Acquire

LEMMA OneRelease ==
  ASSUME NEW res \in SUBSET Resource
  PROVE  /\ [op |-> "free", res |-> res, n |-> 0] \in StepRecords
         /\ Free(res) = <<[op |-> "free", res |-> res, n |-> 0]>>
         /\ Free(res) \in Seq(StepRecords) /\ Len(Free(res)) = 1
<1>1. [op |-> "free", res |-> res, n |-> 0] \in StepRecords
  BY SMT DEF StepRecords
<1> QED BY <1>1, Single, Zenon DEF Free

LEMMA QuietStep ==
  ASSUME NEW op \in Waits, NEW res \in Resource \ {"check", "bulk"}
  PROVE  Acquire(op, res, 1) \in Seq(QuietSteps) /\ Len(Acquire(op, res, 1)) = 1
<1>1. [op |-> op, res |-> {res}, n |-> 1] \in StepRecords
  BY OneStep
<1>2. [op |-> op, res |-> {res}, n |-> 1] \in QuietSteps
  BY <1>1, SMT DEF QuietSteps
<1> QED BY <1>2, Single, Zenon DEF Acquire

LEMMA QuietRelease ==
  ASSUME NEW res \in SUBSET (Resource \ {"check", "bulk"})
  PROVE  Free(res) \in Seq(QuietSteps) /\ Len(Free(res)) = 1
<1>1. [op |-> "free", res |-> res, n |-> 0] \in StepRecords
  BY OneRelease, SMT
<1>2. [op |-> "free", res |-> res, n |-> 0] \in QuietSteps
  BY <1>1, SMT DEF QuietSteps
<1> QED BY <1>2, Single, Zenon DEF Free

LEMMA SyncStep ==
  ASSUME NEW op \in Waits, NEW res \in Resource \ {"check"}
  PROVE  Acquire(op, res, 1) \in Seq(SyncSteps) /\ Len(Acquire(op, res, 1)) = 1
<1>1. [op |-> op, res |-> {res}, n |-> 1] \in StepRecords
  BY OneStep
<1>2. [op |-> op, res |-> {res}, n |-> 1] \in SyncSteps
  BY <1>1, SMT DEF SyncSteps
<1> QED BY <1>2, Single, Zenon DEF Acquire

LEMMA SyncRelease ==
  ASSUME NEW res \in SUBSET (Resource \ {"check"})
  PROVE  Free(res) \in Seq(SyncSteps) /\ Len(Free(res)) = 1
<1>1. [op |-> "free", res |-> res, n |-> 0] \in StepRecords
  BY OneRelease, SMT
<1>2. [op |-> "free", res |-> res, n |-> 0] \in SyncSteps
  BY <1>1, SMT DEF SyncSteps
<1> QED BY <1>2, Single, Zenon DEF Free

LEMMA CatIn ==
  ASSUME NEW S, NEW s \in Seq(S), NEW t \in Seq(S)
  PROVE  s \o t \in Seq(S) /\ (Len(s) >= 1 => Len(s \o t) >= 1)
BY SMT

LEMMA TaskPlan ==
  /\ DbTask \in Seq(QuietSteps) /\ DbTask \in Seq(SyncSteps) /\ Len(DbTask) = 2
  /\ DbTask[2].op = "free" /\ DbTask[2].res = {"worker"}
<1>1. "worker" \in Resource \ {"check", "bulk"} /\ "worker" \in Resource \ {"check"}
      /\ {"worker"} \in SUBSET (Resource \ {"check", "bulk"}) /\ {"worker"} \in SUBSET (Resource \ {"check"})
  BY SMT DEF Resource
<1>2. "timed" \in Waits
  BY Zenon DEF Waits
<1>3. /\ Acquire("timed", "worker", 1) \in Seq(QuietSteps) /\ Free({"worker"}) \in Seq(QuietSteps)
      /\ Acquire("timed", "worker", 1) \in Seq(SyncSteps) /\ Free({"worker"}) \in Seq(SyncSteps)
      /\ Len(Acquire("timed", "worker", 1)) = 1 /\ Len(Free({"worker"})) = 1
  BY <1>1, <1>2, QuietStep, QuietRelease, SyncStep, SyncRelease, Zenon
<1>4. DbTask \in Seq(QuietSteps) /\ DbTask \in Seq(SyncSteps)
  BY <1>3, CatIn, Zenon DEF DbTask
<1>5. Len(DbTask) = 2 /\ DbTask[2] = Free({"worker"})[1]
  BY <1>3, SMT DEF DbTask
<1>6. Free({"worker"})[1] = [op |-> "free", res |-> {"worker"}, n |-> 0]
  BY SMT DEF Free
<1> QED BY <1>4, <1>5, <1>6, SMT

\* A password check around quiet work.
LEMMA PasswordPlan ==
  ASSUME NEW work \in Seq(QuietSteps)
  PROVE  CheckPlan(Password(work))
<1> DEFINE w == Acquire("try", "waiter", 1)
           c == Acquire("timed", "check", 1)
           v == Free({"waiter"})
           b == Acquire("timed", "bulk", Argon2)
           e == Free({"check", "bulk"})
           n == Len(work)
           s2 == w \o c
           s3 == s2 \o v
           s4 == s3 \o b
           s5 == s4 \o work
           s6 == s5 \o e
<1>1. /\ "waiter" \in Resource \ {"check", "bulk"} /\ "check" \in Resource /\ "bulk" \in Resource
      /\ {"waiter"} \in SUBSET (Resource \ {"check", "bulk"}) /\ {"check", "bulk"} \in SUBSET Resource
  BY SMT DEF Resource
<1>2. "try" \in Waits /\ "timed" \in Waits /\ Argon2 \in Nat \ {0} /\ 1 \in Nat \ {0}
  BY AdmissionAssumption, SMT DEF Waits, Resource
<1>3. QuietSteps \subseteq StepRecords
  BY Zenon DEF QuietSteps
<1>4. /\ w \in Seq(QuietSteps) /\ v \in Seq(QuietSteps) /\ Len(w) = 1 /\ Len(v) = 1
  BY <1>1, <1>2, QuietStep, QuietRelease, Zenon
<1>5. /\ w \in Seq(StepRecords) /\ v \in Seq(StepRecords) /\ work \in Seq(StepRecords)
      /\ w[1] \in QuietSteps /\ v[1] \in QuietSteps /\ \A i \in 1..n : work[i] \in QuietSteps
      /\ n \in Nat
  <2>1. w \in Seq(StepRecords) /\ v \in Seq(StepRecords) /\ work \in Seq(StepRecords)
    BY <1>3, <1>4, Wider, Zenon
  <2>2. 1 \in 1..Len(w) /\ 1 \in 1..Len(v) /\ n \in Nat
    BY <1>4, SMT
  <2> QED BY <1>4, <2>1, <2>2, Element, Zenon
<1>6. /\ c \in Seq(StepRecords) /\ b \in Seq(StepRecords) /\ e \in Seq(StepRecords)
      /\ Len(c) = 1 /\ Len(b) = 1 /\ Len(e) = 1
  BY <1>1, <1>2, OneStep, OneRelease, Zenon
<1>7. /\ c[1].op # "free" /\ c[1].res = {"check"} /\ c[1].n = 1
      /\ b[1].op # "free" /\ b[1].res = {"bulk"} /\ b[1].n = Argon2
      /\ e[1].op = "free" /\ e[1].res = {"check", "bulk"}
  BY SMT DEF Acquire, Free
<1> HIDE DEF w, c, v, b, e, n
<1>8. s2 \in Seq(StepRecords) /\ Len(s2) = 2 /\ s2[1] = w[1] /\ s2[2] = c[1]
  <2>1. Len(w) + 1 = 2 /\ 1 \in 1..Len(w)
    BY <1>4, SMT
  <2>2. /\ s2 \in Seq(StepRecords) /\ Len(s2) = Len(w) + 1 /\ s2[Len(w) + 1] = c[1]
        /\ \A i \in 1..Len(w) : s2[i] = w[i]
    BY <1>5, <1>6, Snoc, Zenon
  <2> QED BY <2>1, <2>2, Zenon
<1> HIDE DEF s2
<1>9. s3 \in Seq(StepRecords) /\ Len(s3) = 3 /\ s3[1] = w[1] /\ s3[2] = c[1] /\ s3[3] = v[1]
  <2>1. Len(s2) + 1 = 3 /\ 1 \in 1..Len(s2) /\ 2 \in 1..Len(s2)
    BY <1>8, SMT
  <2>2. /\ s3 \in Seq(StepRecords) /\ Len(s3) = Len(s2) + 1 /\ s3[Len(s2) + 1] = v[1]
        /\ \A i \in 1..Len(s2) : s3[i] = s2[i]
    <3>1. s2 \in Seq(StepRecords) /\ v \in Seq(StepRecords) /\ Len(v) = 1
      BY <1>4, <1>5, <1>8, Zenon
    <3> QED BY <3>1, Snoc, Zenon
  <2> QED BY <1>8, <2>1, <2>2, Zenon
<1> HIDE DEF s3
<1>10. /\ s4 \in Seq(StepRecords) /\ Len(s4) = 4
       /\ s4[1] = w[1] /\ s4[2] = c[1] /\ s4[3] = v[1] /\ s4[4] = b[1]
  <2>1. Len(s3) + 1 = 4 /\ 1 \in 1..Len(s3) /\ 2 \in 1..Len(s3) /\ 3 \in 1..Len(s3)
    BY <1>9, SMT
  <2>2. /\ s4 \in Seq(StepRecords) /\ Len(s4) = Len(s3) + 1 /\ s4[Len(s3) + 1] = b[1]
        /\ \A i \in 1..Len(s3) : s4[i] = s3[i]
    <3>1. s3 \in Seq(StepRecords) /\ b \in Seq(StepRecords) /\ Len(b) = 1
      BY <1>6, <1>9, Zenon
    <3> QED BY <3>1, Snoc, Zenon
  <2> QED BY <1>9, <2>1, <2>2, Zenon
<1> HIDE DEF s4
<1>11. /\ s5 \in Seq(StepRecords) /\ Len(s5) = 4 + n
       /\ s5[1] = w[1] /\ s5[2] = c[1] /\ s5[3] = v[1] /\ s5[4] = b[1]
       /\ \A i \in 5..(4 + n) : s5[i] \in QuietSteps
  <2>1. /\ s5 \in Seq(StepRecords) /\ Len(s5) = Len(s4) + n /\ \A i \in 1..Len(s4) : s5[i] = s4[i]
    <3>1. s4 \in Seq(StepRecords) /\ work \in Seq(StepRecords)
      BY <1>5, <1>10, Zenon
    <3> QED BY <3>1, Cat, Zenon DEF n
  <2>2. 1 \in 1..Len(s4) /\ 2 \in 1..Len(s4) /\ 3 \in 1..Len(s4) /\ 4 \in 1..Len(s4)
    BY <1>10, SMT
  <2>3. ASSUME NEW i \in 5..(4 + n) PROVE s5[i] \in QuietSteps
    <3>2. \E j \in 1..Len(work) : s5[i] = work[j]
      <4>1. s4 \in Seq(StepRecords) /\ work \in Seq(StepRecords)
        BY <1>5, <1>10, Zenon
      <4>2. \A j \in 1..Len(work) : (s4 \o work)[Len(s4) + j] = work[j]
        BY <4>1, SMT
      <4> DEFINE j == i - 4
      <4>3. j \in 1..Len(work) /\ Len(s4) + j = i
        BY <1>5, <1>10, SMT DEF n
      <4> HIDE DEF j
      <4> QED BY <4>2, <4>3, Zenon
    <3> QED BY <1>5, <3>2, Zenon DEF n
  <2> QED BY <1>10, <2>1, <2>2, <2>3, Zenon
<1> HIDE DEF s5
<1>12. /\ s6 \in Seq(StepRecords) /\ Len(s6) = 5 + n /\ s6[5 + n] = e[1]
       /\ s6[1] = w[1] /\ s6[2] = c[1] /\ s6[3] = v[1] /\ s6[4] = b[1]
       /\ \A i \in 5..(4 + n) : s6[i] = s5[i]
  <2>1. /\ Len(s5) + 1 = 5 + n /\ 1 \in 1..Len(s5) /\ 2 \in 1..Len(s5) /\ 3 \in 1..Len(s5)
        /\ 4 \in 1..Len(s5) /\ \A i \in 5..(4 + n) : i \in 1..Len(s5)
    BY <1>5, <1>11, SMT
  <2>2. /\ s6 \in Seq(StepRecords) /\ Len(s6) = Len(s5) + 1 /\ s6[Len(s5) + 1] = e[1]
        /\ \A i \in 1..Len(s5) : s6[i] = s5[i]
    <3>1. s5 \in Seq(StepRecords) /\ e \in Seq(StepRecords) /\ Len(e) = 1
      BY <1>6, <1>11, Zenon
    <3> QED BY <3>1, Snoc, Zenon
  <2> QED BY <1>11, <2>1, <2>2, Zenon
<1>13. /\ 2 < 4 /\ 4 < 5 + n /\ 5 + n <= Len(s6) /\ 2 \in Nat \ {0} /\ 4 \in Nat \ {0} /\ 5 + n \in Nat \ {0}
       /\ \A i \in 1..Len(s6) : i \notin {2, 4, 5 + n} => i = 1 \/ i = 3 \/ i \in 5..(4 + n)
  BY <1>5, <1>12, SMT
<1> HIDE DEF s6
<1>14. Checks(s6, 2, 4, 5 + n)
  BY <1>5, <1>7, <1>11, <1>12, <1>13, Zenon DEF Checks
<1>15. s6 = Password(work)
  BY Zenon DEF Password, s6, s5, s4, s3, s2, w, c, v, b, e
<1> QED BY <1>12, <1>13, <1>14, <1>15, Zenon DEF CheckPlan

\* A control request around a plan.
LEMMA ControlPlan ==
  ASSUME NEW s
  PROVE  /\ CheckPlan(s) => CheckPlan(Control(s))
         /\ s \in Seq(SyncSteps) => Control(s) \in Seq(SyncSteps) /\ Len(Control(s)) >= 1
<1> DEFINE a == Acquire("try", "reader", 1)
           b == Free({"reader"})
           c == Acquire("try", "control", 1)
           e == Free({"control"})
<1>1. /\ "reader" \in Resource \ {"check", "bulk"} /\ "control" \in Resource \ {"check", "bulk"}
      /\ {"reader"} \in SUBSET (Resource \ {"check", "bulk"})
      /\ {"control"} \in SUBSET (Resource \ {"check", "bulk"})
      /\ "reader" \in Resource \ {"check"} /\ "control" \in Resource \ {"check"}
      /\ {"reader"} \in SUBSET (Resource \ {"check"}) /\ {"control"} \in SUBSET (Resource \ {"check"})
  BY SMT DEF Resource
<1>2. "try" \in Waits
  BY Zenon DEF Waits
<1>3. /\ a \in Seq(QuietSteps) /\ b \in Seq(QuietSteps) /\ c \in Seq(QuietSteps) /\ e \in Seq(QuietSteps)
      /\ a \in Seq(SyncSteps) /\ b \in Seq(SyncSteps) /\ c \in Seq(SyncSteps) /\ e \in Seq(SyncSteps)
      /\ Len(a) = 1
  BY <1>1, <1>2, QuietStep, QuietRelease, SyncStep, SyncRelease, Zenon
<1>4. Len(a) >= 1
  <2>1. Len(a) = 1
    BY <1>3, Zenon
  <2> HIDE DEF a
  <2> QED BY <2>1
<1>5. Control(s) = (((a \o b) \o c) \o s) \o e
  BY Zenon DEF Control
<1> HIDE DEF a, b, c, e
<1>6. ASSUME CheckPlan(s) PROVE CheckPlan(Control(s))
  <2>1. (a \o b) \o c \in Seq(QuietSteps)
    BY <1>3, CatIn, Zenon
  <2> QED BY <1>3, <1>5, <1>6, <2>1, QuietBefore, QuietAfter, Zenon
<1>7. ASSUME s \in Seq(SyncSteps) PROVE Control(s) \in Seq(SyncSteps) /\ Len(Control(s)) >= 1
  <2>1. a \o b \in Seq(SyncSteps) /\ Len(a \o b) >= 1
    BY <1>3, <1>4, CatIn, Zenon
  <2>2. (a \o b) \o c \in Seq(SyncSteps) /\ Len((a \o b) \o c) >= 1
    BY <1>3, <2>1, CatIn, Zenon
  <2>3. ((a \o b) \o c) \o s \in Seq(SyncSteps) /\ Len(((a \o b) \o c) \o s) >= 1
    BY <1>7, <2>2, CatIn, Zenon
  <2> QED BY <1>3, <1>5, <2>3, CatIn, Zenon
<1> QED BY <1>6, <1>7, Zenon

\* What each handler may do.
LEMMA PasswordPlans == CheckPlan(Steps["signin"]) /\ CheckPlan(Steps["register"])
<1>1. Steps["signin"] = Signin /\ Steps["register"] = Register
  BY Zenon DEF Steps
<1>2. <<>> \in Seq(QuietSteps)
  BY SMT
<1>3. CheckPlan(Password(DbTask)) /\ CheckPlan(Password(<<>>))
  BY <1>2, PasswordPlan, TaskPlan, Zenon
<1>4. CheckPlan(Password(DbTask) \o DbTask) /\ CheckPlan((DbTask \o Password(<<>>)) \o DbTask)
  BY <1>3, QuietBefore, QuietAfter, TaskPlan, Zenon
<1> QED BY <1>1, <1>4, ControlPlan, Zenon DEF Signin, Register

LEMMA HashPlan ==
  /\ CheckPlan(Steps["hash"]) /\ Len(Steps["hash"]) = 3
  /\ Steps["hash"][3].op = "free"
<1> DEFINE c == Acquire("wait", "check", 1)
           b == Acquire("wait", "bulk", Argon2)
           e == Free({"check", "bulk"})
           s2 == c \o b
           s3 == s2 \o e
<1>1. Steps["hash"] = s3
  BY Zenon DEF Steps
<1>2. "check" \in Resource /\ "bulk" \in Resource /\ {"check", "bulk"} \in SUBSET Resource
  BY SMT DEF Resource
<1>3. "wait" \in Waits /\ Argon2 \in Nat \ {0} /\ 1 \in Nat \ {0}
  BY AdmissionAssumption, SMT DEF Waits, Resource
<1>4. /\ c \in Seq(StepRecords) /\ b \in Seq(StepRecords) /\ e \in Seq(StepRecords)
      /\ Len(c) = 1 /\ Len(b) = 1 /\ Len(e) = 1
  BY <1>2, <1>3, OneStep, OneRelease, Zenon
<1>5. /\ c[1].op # "free" /\ c[1].res = {"check"} /\ c[1].n = 1
      /\ b[1].op # "free" /\ b[1].res = {"bulk"} /\ b[1].n = Argon2
      /\ e[1].op = "free" /\ e[1].res = {"check", "bulk"}
  BY SMT DEF Acquire, Free
<1> HIDE DEF c, b, e
<1>6. s2 \in Seq(StepRecords) /\ Len(s2) = 2 /\ s2[1] = c[1] /\ s2[2] = b[1]
  <2>1. Len(c) + 1 = 2 /\ 1 \in 1..Len(c)
    BY <1>4, SMT
  <2>2. /\ s2 \in Seq(StepRecords) /\ Len(s2) = Len(c) + 1 /\ s2[Len(c) + 1] = b[1]
        /\ \A i \in 1..Len(c) : s2[i] = c[i]
    BY <1>4, Snoc, Zenon
  <2> QED BY <2>1, <2>2, Zenon
<1> HIDE DEF s2
<1>7. s3 \in Seq(StepRecords) /\ Len(s3) = 3 /\ s3[1] = c[1] /\ s3[2] = b[1] /\ s3[3] = e[1]
  <2>1. Len(s2) + 1 = 3 /\ 1 \in 1..Len(s2) /\ 2 \in 1..Len(s2)
    BY <1>6, SMT
  <2>2. /\ s3 \in Seq(StepRecords) /\ Len(s3) = Len(s2) + 1 /\ s3[Len(s2) + 1] = e[1]
        /\ \A i \in 1..Len(s2) : s3[i] = s2[i]
    <3>1. s2 \in Seq(StepRecords) /\ e \in Seq(StepRecords) /\ Len(e) = 1
      BY <1>4, <1>6, Zenon
    <3> QED BY <3>1, Snoc, Zenon
  <2> QED BY <1>6, <2>1, <2>2, Zenon
<1> HIDE DEF s3
<1>8. /\ 1 < 2 /\ 2 < 3 /\ 3 <= Len(s3) /\ \A i \in 1..Len(s3) : i \in {1, 2, 3}
      /\ 1 \in Nat \ {0} /\ 2 \in Nat \ {0} /\ 3 \in Nat \ {0}
  BY <1>7, SMT
<1>9. Checks(s3, 1, 2, 3)
  BY <1>5, <1>7, <1>8, Zenon DEF Checks
<1> QED BY <1>1, <1>5, <1>7, <1>8, <1>9, Zenon DEF CheckPlan

LEMMA SyncPlans ==
  \A kind \in {"rename", "pull", "upload", "history", "deleted", "init", "task"} :
    Steps[kind] \in Seq(SyncSteps) /\ Len(Steps[kind]) >= 1
<1>1. /\ \A res \in Resource \ {"check"}, op \in Waits :
           Acquire(op, res, 1) \in Seq(SyncSteps) /\ Len(Acquire(op, res, 1)) >= 1
      /\ \A res \in SUBSET (Resource \ {"check"}) : Free(res) \in Seq(SyncSteps)
  <2>1. 1 >= 1
    OBVIOUS
  <2> QED BY <2>1, SyncStep, SyncRelease, Zenon
<1>2. /\ {"order", "pull", "bulk", "large"} \subseteq Resource \ {"check"}
      /\ {{"order"}, {"bulk"}, {"pull", "bulk"}, {"large", "bulk"}} \subseteq SUBSET (Resource \ {"check"})
      /\ {"wait", "until"} \subseteq Waits
  BY SMT DEF Resource, Waits
<1>3. /\ \A op \in {"wait", "until"}, res \in {"order", "pull", "bulk", "large"} :
           Acquire(op, res, 1) \in Seq(SyncSteps) /\ Len(Acquire(op, res, 1)) >= 1
      /\ \A res \in {{"order"}, {"bulk"}, {"pull", "bulk"}, {"large", "bulk"}} :
           Free(res) \in Seq(SyncSteps)
      /\ DbTask \in Seq(SyncSteps) /\ Len(DbTask) >= 1
  <2>1. DbTask \in Seq(SyncSteps) /\ Len(DbTask) = 2
    BY TaskPlan, Zenon
  <2>2. Len(DbTask) >= 1
    BY <2>1, SMT
  <2> QED BY <1>1, <1>2, <2>1, <2>2, Zenon
<1>4. \A s, t \in Seq(SyncSteps) : s \o t \in Seq(SyncSteps) /\ (Len(s) >= 1 => Len(s \o t) >= 1)
  BY CatIn, Zenon
<1>5. Rename \in Seq(SyncSteps) /\ Len(Rename) >= 1
  <2>1. DbTask \o Acquire("wait", "order", 1) \o DbTask \o Free({"order"}) \in Seq(SyncSteps)
    BY <1>3, <1>4, Zenon
  <2> QED BY <2>1, ControlPlan, Zenon DEF Rename
<1>6. Pull \in Seq(SyncSteps) /\ Len(Pull) >= 1
  BY <1>3, <1>4, Zenon DEF Pull
<1>7. Upload \in Seq(SyncSteps) /\ Len(Upload) >= 1
  BY <1>3, <1>4, Zenon DEF Upload
<1>8. History \in Seq(SyncSteps) /\ Len(History) >= 1
  BY <1>3, <1>4, Zenon DEF History
<1>9. Deleted \in Seq(SyncSteps) /\ Len(Deleted) >= 1
  BY <1>3, <1>4, Zenon DEF Deleted
<1>10. InitReplay \in Seq(SyncSteps) /\ Len(InitReplay) >= 1
  BY <1>3, <1>4, Zenon DEF InitReplay
<1>11. /\ Steps["rename"] = Rename /\ Steps["pull"] = Pull /\ Steps["upload"] = Upload
       /\ Steps["history"] = History /\ Steps["deleted"] = Deleted /\ Steps["init"] = InitReplay
       /\ Steps["task"] = DbTask
  BY Zenon DEF Steps
<1> QED BY <1>3, <1>5, <1>6, <1>7, <1>8, <1>9, <1>10, <1>11, Zenon

-----------------------------------------------------------------------------
(* What a request holds.                                                   *)

LEMMA IsMax ==
  ASSUME NEW S \in SUBSET Nat, NEW x \in S, \A y \in S : y <= x
  PROVE  Max(S) = x
<1>1. \A y \in S : x >= y
  OBVIOUS
<1>2. Max(S) \in S /\ \A y \in S : Max(S) >= y
  BY <1>1, Zenon DEF Max
<1>3. \A m \in S : (\A y \in S : m >= y) => m = x
  OBVIOUS
<1> QED BY <1>2, <1>3, Zenon

\* The last step on res before i is j.
LastOn(s, i, res, j) ==
  j \in 1..(i - 1) /\ res \in s[j].res /\ \A k \in 1..(i - 1) : res \in s[k].res => k <= j

LEMMA HeldSince ==
  ASSUME NEW s, NEW i \in Nat, NEW res, NEW j, LastOn(s, i, res, j)
  PROVE  Holding(s, i, res) = s[j].n
<1> DEFINE mine == {k \in 1..(i - 1) : res \in s[k].res}
<1>1. mine \in SUBSET Nat /\ j \in mine /\ \A k \in mine : k <= j
  BY SMT DEF LastOn
<1>2. Max(mine) = j /\ mine # {}
  BY <1>1, IsMax, Zenon
<1>3. Holding(s, i, res) = IF mine = {} THEN 0 ELSE s[Max(mine)].n
  BY Zenon DEF Holding
<1> QED BY <1>2, <1>3, Zenon

LEMMA NotHeld ==
  ASSUME NEW s, NEW i, NEW res, \A k \in 1..(i - 1) : res \notin s[k].res
  PROVE  Holding(s, i, res) = 0
<1>1. {k \in 1..(i - 1) : res \in s[k].res} = {}
  BY Zenon
<1> QED BY <1>1, Zenon DEF Holding

\* A step changes the permits of its own resources only.
LEMMA HoldNext ==
  ASSUME NEW s, NEW i \in Nat \ {0}, NEW res
  PROVE  Holding(s, i + 1, res) = IF res \in s[i].res THEN s[i].n ELSE Holding(s, i, res)
<1>1. i + 1 \in Nat /\ (i + 1) - 1 = i
  OBVIOUS
<1>2. i \in 1..((i + 1) - 1) /\ \A k \in 1..((i + 1) - 1) : k <= i
  OBVIOUS
<1>3. CASE res \in s[i].res
  <2>1. LastOn(s, i + 1, res, i)
    BY <1>2, <1>3, Zenon DEF LastOn
  <2> QED BY <1>1, <1>3, <2>1, HeldSince, Zenon
<1>4. CASE res \notin s[i].res
  <2>1. \A k : k \in 1..i <=> k \in 1..(i - 1) \/ k = i
    OBVIOUS
  <2>2. {k \in 1..((i + 1) - 1) : res \in s[k].res} = {k \in 1..(i - 1) : res \in s[k].res}
    BY <1>1, <1>4, <2>1, Zenon
  <2> QED BY <1>4, <2>2, Zenon DEF Holding
<1> QED BY <1>3, <1>4, Zenon

\* Handlers other than the password checks never hold a check permit.
LEMMA SyncHolds ==
  ASSUME NEW s \in Seq(SyncSteps), NEW i \in 1..Len(s)
  PROVE  Holding(s, i, "check") = 0 /\ s[i] \in StepRecords /\ "check" \notin s[i].res /\ s[i].n <= 1
<1>1. \A k \in 1..Len(s) : s[k] \in SyncSteps
  BY Element, Zenon
<1>2. \A k \in 1..(i - 1) : k \in 1..Len(s)
  OBVIOUS
<1>3. \A k \in 1..(i - 1) : "check" \notin s[k].res
  BY <1>1, <1>2, Zenon DEF SyncSteps
<1> QED BY <1>1, <1>3, NotHeld, Zenon DEF SyncSteps

\* A password check holds its permit whenever it holds or asks for memory.
LEMMA CheckHolds ==
  ASSUME NEW s, CheckPlan(s), NEW i \in 1..Len(s)
  PROVE  /\ s[i] \in StepRecords
         /\ Holding(s, i, "check") \in {0, 1}
         /\ Holding(s, i, "bulk") \in {0, Argon2}
         /\ Holding(s, i, "bulk") # 0 => Holding(s, i, "check") = 1
         /\ s[i].op # "free" /\ "bulk" \in s[i].res =>
              s[i].n = Argon2 /\ Holding(s, i, "check") = 1 /\ Holding(s, i, "bulk") = 0
         /\ s[i].op = "free" /\ "check" \in s[i].res => Holding(s, i, "check") = 1
<1>1. PICK p \in Nat \ {0}, b \in Nat \ {0}, f \in Nat \ {0} : Checks(s, p, b, f)
  BY Zenon DEF CheckPlan
<1>2. s \in Seq(StepRecords) /\ \A k \in 1..Len(s) : s[k] \in StepRecords
  BY Element, Zenon DEF CheckPlan
<1>3. Len(s) \in Nat
  BY <1>2, SMT
<1>4. p < b /\ b < f /\ f <= Len(s)
  BY <1>1, Zenon DEF Checks
<1>5. p \in 1..Len(s) /\ b \in 1..Len(s) /\ f \in 1..Len(s) /\ p # b /\ b # f /\ p # f
  BY <1>3, <1>4
<1>6. /\ s[p].op # "free" /\ s[p].res = {"check"} /\ s[p].n = 1
      /\ s[b].op # "free" /\ s[b].res = {"bulk"} /\ s[b].n = Argon2
      /\ s[f].op = "free" /\ s[f].res = {"check", "bulk"} /\ s[f].n = 0
  BY <1>1, <1>2, <1>5, Zenon DEF Checks, StepRecords
<1>7. \A k \in 1..Len(s) : /\ "check" \in s[k].res <=> k \in {p, f}
                           /\ "bulk" \in s[k].res <=> k \in {b, f}
  BY <1>1, <1>5, <1>6, Zenon DEF Checks, QuietSteps
<1>15. "check" \in s[p].res /\ "bulk" \in s[b].res /\ "check" \in s[f].res /\ "bulk" \in s[f].res
  BY <1>6, Zenon
<1>8. \A k \in 1..(i - 1) : k \in 1..Len(s)
  BY <1>3
<1>9. i \in Nat
  BY <1>3
<1>10. CASE i <= p
  <2>1. p \notin 1..(i - 1) /\ b \notin 1..(i - 1) /\ f \notin 1..(i - 1) /\ i # b /\ i # f
    BY <1>4, <1>10
  <2>2. \A k \in 1..(i - 1) : "check" \notin s[k].res /\ "bulk" \notin s[k].res
    BY <1>7, <1>8, <2>1, Zenon
  <2>3. Holding(s, i, "check") = 0 /\ Holding(s, i, "bulk") = 0
    BY <2>2, NotHeld, Zenon
  <2> QED BY <1>2, <1>6, <1>7, <2>1, <2>3, Zenon
<1>11. CASE p < i /\ i <= b
  <2>1. p \in 1..(i - 1) /\ b \notin 1..(i - 1) /\ f \notin 1..(i - 1) /\ i # f /\ i # p /\ p <= p
    BY <1>4, <1>11
  <2>2. \A k \in 1..(i - 1) : ("check" \in s[k].res => k <= p) /\ "bulk" \notin s[k].res
    BY <1>7, <1>8, <2>1, Zenon
  <2>5. LastOn(s, i, "check", p)
    BY <1>15, <2>1, <2>2, Zenon DEF LastOn
  <2>3. Holding(s, i, "check") = s[p].n
    BY <1>9, <2>5, HeldSince, Zenon
  <2>4. Holding(s, i, "bulk") = 0
    BY <2>2, NotHeld, Zenon
  <2> QED BY <1>2, <1>6, <1>7, <2>1, <2>3, <2>4, Zenon
<1>12. CASE b < i /\ i <= f
  <2>1. /\ p \in 1..(i - 1) /\ b \in 1..(i - 1) /\ f \notin 1..(i - 1)
        /\ i # p /\ i # b /\ p <= p /\ b <= b
    BY <1>4, <1>12
  <2>2. \A k \in 1..(i - 1) : ("check" \in s[k].res => k <= p) /\ ("bulk" \in s[k].res => k <= b)
    BY <1>7, <1>8, <2>1, Zenon
  <2>5. LastOn(s, i, "check", p)
    BY <1>15, <2>1, <2>2, Zenon DEF LastOn
  <2>3. Holding(s, i, "check") = s[p].n
    BY <1>9, <2>5, HeldSince, Zenon
  <2>6. LastOn(s, i, "bulk", b)
    BY <1>15, <2>1, <2>2, Zenon DEF LastOn
  <2>4. Holding(s, i, "bulk") = s[b].n
    BY <1>9, <2>6, HeldSince, Zenon
  <2> QED BY <1>2, <1>6, <1>7, <2>1, <2>3, <2>4, Zenon
<1>13. CASE f < i
  <2>1. /\ f \in 1..(i - 1) /\ i # p /\ i # b /\ i # f /\ p <= f /\ b <= f /\ f <= f
    BY <1>4, <1>13
  <2>2. \A k \in 1..(i - 1) : ("check" \in s[k].res => k <= f) /\ ("bulk" \in s[k].res => k <= f)
    BY <1>7, <1>8, <2>1, Zenon
  <2>4. LastOn(s, i, "check", f)
    BY <1>15, <2>1, <2>2, Zenon DEF LastOn
  <2>5. LastOn(s, i, "bulk", f)
    BY <1>15, <2>1, <2>2, Zenon DEF LastOn
  <2>6. Holding(s, i, "check") = s[f].n
    BY <1>9, <2>4, HeldSince, Zenon
  <2>7. Holding(s, i, "bulk") = s[f].n
    BY <1>9, <2>5, HeldSince, Zenon
  <2>3. Holding(s, i, "check") = s[f].n /\ Holding(s, i, "bulk") = s[f].n
    BY <2>6, <2>7
  <2> QED BY <1>2, <1>6, <1>7, <2>1, <2>3, Zenon
<1>14. i <= p \/ (p < i /\ i <= b) \/ (b < i /\ i <= f) \/ f < i
  BY <1>4, <1>9
<1> QED BY <1>10, <1>11, <1>12, <1>13, <1>14, Zenon

-----------------------------------------------------------------------------
(* The inductive invariant.                                                *)

Jobs == {x \in [kind : Kind \cup Detached, step : Nat \ {0}] : x.step \in 1..Len(Steps[x.kind])}

\* What a job holds.
HoldOf(x, res) == IF x = NoJob THEN 0 ELSE Holding(Steps[x.kind], x.step, res)

\* Requests wait once, for what their next step asks, and one of them at a time
\* holds the permit of a password check.
PoolInv ==
  /\ job \in [Client -> Jobs \cup {NoJob}]
  /\ queue \in [Resource -> Seq(Client)]
  /\ \A res \in Resource : IsInjective(queue[res])
  /\ \A res \in Resource : \A r \in Range(queue[res]) :
       Busy(r) /\ Now(r).op # "free" /\ Now(r).res = {res}
  /\ \A r, t \in Client :
       HoldOf(job[r], "check") # 0 /\ HoldOf(job[t], "check") # 0 => r = t

\* A free permit for a password check means that nobody holds one.
CheckIsOne ==
  \A n \in Nat : n >= 1 /\ Available("check") >= n =>
    \A t \in Client : HoldOf(job[t], "check") = 0

LEMMA IdleIsNoJob == NoJob \notin Jobs
<1>1. NoJob.step = 0
  BY SMT DEF NoJob
<1> QED BY <1>1, SMT DEF Jobs

\* Each handler is a password check or has none.
LEMMA PlanOf ==
  ASSUME NEW kind \in Kind \cup Detached
  PROVE  /\ kind \in {"signin", "register", "hash"} => CheckPlan(Steps[kind])
         /\ kind \notin {"signin", "register", "hash"} => Steps[kind] \in Seq(SyncSteps)
         /\ Steps[kind] \in Seq(StepRecords)
         /\ Len(Steps[kind]) \in Nat /\ Len(Steps[kind]) >= 1
<1>1. kind \in {"signin", "register", "hash"} => CheckPlan(Steps[kind])
  BY PasswordPlans, HashPlan, Zenon
<1>2. kind \notin {"signin", "register", "hash"} =>
        Steps[kind] \in Seq(SyncSteps) /\ Len(Steps[kind]) >= 1
  BY SyncPlans, Zenon DEF Kind, Detached
<1>3. SyncSteps \subseteq StepRecords
  BY Zenon DEF SyncSteps
<1>4. Steps[kind] \in Seq(StepRecords)
  BY <1>1, <1>2, <1>3, Wider, Zenon DEF CheckPlan
<1>5. Len(Steps[kind]) \in Nat
  BY <1>4, SMT
<1>6. CheckPlan(Steps[kind]) => Len(Steps[kind]) >= 1
  <2> SUFFICES ASSUME CheckPlan(Steps[kind]) PROVE Len(Steps[kind]) >= 1
    BY Zenon
  <2>1. PICK p \in Nat \ {0}, b \in Nat \ {0}, f \in Nat \ {0} : Checks(Steps[kind], p, b, f)
    BY Zenon DEF CheckPlan
  <2>2. p < b /\ b < f /\ f <= Len(Steps[kind])
    BY <2>1, Zenon DEF Checks
  <2> QED BY <1>5, <2>2
<1> QED BY <1>1, <1>2, <1>4, <1>5, <1>6, Zenon

\* What a busy request asks for, and what it holds.
LEMMA JobFacts ==
  ASSUME NEW x \in Jobs
  PROVE  /\ x.kind \in Kind \cup Detached /\ x.step \in Nat \ {0}
         /\ x.step \in 1..Len(Steps[x.kind]) /\ x # NoJob
         /\ Steps[x.kind][x.step] \in StepRecords
         /\ HoldOf(x, "check") \in {0, 1}
         /\ x.kind \in {"signin", "register", "hash"} =>
              /\ HoldOf(x, "bulk") \in {0, Argon2}
              /\ HoldOf(x, "bulk") # 0 => HoldOf(x, "check") = 1
              /\ LET now == Steps[x.kind][x.step] IN
                   /\ now.op # "free" /\ "bulk" \in now.res =>
                        now.n = Argon2 /\ HoldOf(x, "check") = 1 /\ HoldOf(x, "bulk") = 0
                   /\ now.op = "free" /\ "check" \in now.res => HoldOf(x, "check") = 1
         /\ x.kind \notin {"signin", "register", "hash"} =>
              /\ HoldOf(x, "check") = 0 /\ "check" \notin Steps[x.kind][x.step].res
              /\ Steps[x.kind][x.step].n <= 1
<1>1. x.kind \in Kind \cup Detached /\ x.step \in Nat \ {0} /\ x.step \in 1..Len(Steps[x.kind]) /\ x # NoJob
  BY IdleIsNoJob, Zenon DEF Jobs
<1>2. HoldOf(x, "check") = Holding(Steps[x.kind], x.step, "check")
      /\ HoldOf(x, "bulk") = Holding(Steps[x.kind], x.step, "bulk")
  BY <1>1, Zenon DEF HoldOf
<1>3. CASE x.kind \in {"signin", "register", "hash"}
  <2>1. CheckPlan(Steps[x.kind])
    BY <1>1, <1>3, PlanOf, Zenon
  <2> QED BY <1>1, <1>2, <1>3, <2>1, CheckHolds, Zenon
<1>4. CASE x.kind \notin {"signin", "register", "hash"}
  <2>1. Steps[x.kind] \in Seq(SyncSteps)
    BY <1>1, <1>4, PlanOf, Zenon
  <2> QED BY <1>1, <1>2, <1>4, <2>1, SyncHolds, Zenon
<1> QED BY <1>3, <1>4, Zenon

\* The kinds of work are the rows of Steps.
LEMMA HeldIs ==
  ASSUME NEW res \in Resource, NEW r, job[r] \in Jobs \cup {NoJob}
  PROVE  Held(r, res) = HoldOf(job[r], res)
<1>1. CASE job[r] = NoJob
  BY <1>1, Zenon DEF Held, Busy, HoldOf
<1>2. CASE job[r] \in Jobs
  <2>1. job[r].kind \in Kind \cup Detached /\ job[r].step \in 1..Len(Steps[job[r].kind]) /\ job[r] # NoJob
    BY <1>2, JobFacts, Zenon
  <2>2. DOMAIN Steps = Kind \cup Detached
    BY SMT DEF Steps, Kind, Detached
  <2>3. DOMAIN Steps[job[r].kind] = 1..Len(Steps[job[r].kind])
    <3>1. Steps[job[r].kind] \in Seq(StepRecords)
      BY <2>1, PlanOf, Zenon
    <3> QED BY <3>1, SMT
  <2>4. Holdings[job[r].kind][job[r].step][res] = Holding(Steps[job[r].kind], job[r].step, res)
    BY <2>1, <2>2, <2>3, Zenon DEF Holdings
  <2> QED BY <2>1, <2>4, Zenon DEF Held, Busy, HoldOf
<1> QED BY <1>1, <1>2, Zenon

-----------------------------------------------------------------------------
(* Queues.                                                                 *)

LEMMA Ranges ==
  ASSUME NEW S, NEW q \in Seq(S)
  PROVE  Range(q) = {q[i] : i \in 1..Len(q)} /\ DOMAIN q = 1..Len(q) /\ Len(q) \in Nat
<1>1. DOMAIN q = 1..Len(q) /\ Len(q) \in Nat
  BY SMT
<1> QED BY <1>1, Zenon DEF Range

LEMMA Joined ==
  ASSUME NEW S, NEW q \in Seq(S), IsInjective(q), NEW r \in S, r \notin Range(q)
  PROVE  Append(q, r) \in Seq(S) /\ IsInjective(Append(q, r)) /\ Range(Append(q, r)) = Range(q) \cup {r}
<1> DEFINE a == Append(q, r)
           n == Len(q)
<1>1. /\ a \in Seq(S) /\ Len(a) = n + 1 /\ a[n + 1] = r /\ n \in Nat
      /\ \A i \in 1..n : a[i] = q[i]
  BY SMT
<1>2. Range(q) = {q[i] : i \in 1..n} /\ Range(a) = {a[i] : i \in 1..Len(a)}
      /\ DOMAIN q = 1..n /\ DOMAIN a = 1..Len(a)
  BY <1>1, Ranges, Zenon
<1>3. \A i : i \in 1..Len(a) <=> i \in 1..n \/ i = n + 1
  <2>1. Len(a) = n + 1 /\ n \in Nat
    BY <1>1, Zenon
  <2> HIDE DEF a, n
  <2> QED BY <2>1
<1> HIDE DEF a, n
<1>4. Range(a) = Range(q) \cup {r}
  BY <1>1, <1>2, <1>3, Zenon
<1>5. IsInjective(a)
  <2>1. \A i, j \in 1..n : q[i] = q[j] => i = j
    BY <1>2, Zenon DEF IsInjective
  <2>2. \A i \in 1..n : q[i] # r
    BY <1>2, Zenon
  <2>3. \A i, j \in 1..Len(a) : a[i] = a[j] => i = j
    BY <1>1, <1>3, <2>1, <2>2, Zenon
  <2> QED BY <1>2, <2>3, Zenon DEF IsInjective
<1> QED BY <1>1, <1>4, <1>5, Zenon DEF a

\* The queue w is q without its element at i.
Shorter(w, q, i) ==
  Len(w) = Len(q) - 1 /\ \A k \in 1..Len(w) : w[k] = IF k < i THEN q[k] ELSE q[k + 1]

LEMMA Removed ==
  ASSUME NEW S, NEW q \in Seq(S), IsInjective(q), NEW i \in 1..Len(q), NEW w \in Seq(S),
         Shorter(w, q, i)
  PROVE  IsInjective(w) /\ Range(w) = Range(q) \ {q[i]}
<1> DEFINE n == Len(q)
<1>1. Range(q) = {q[k] : k \in 1..n} /\ Range(w) = {w[k] : k \in 1..Len(w)}
      /\ DOMAIN q = 1..n /\ DOMAIN w = 1..Len(w) /\ n \in Nat
  BY Ranges, Zenon
<1>2. \A k, l \in 1..n : q[k] = q[l] => k = l
  BY <1>1, Zenon DEF IsInjective
<1> DEFINE at(k) == IF k < i THEN k ELSE k + 1
<1>0. Len(w) = n - 1
  BY Zenon DEF Shorter
<1>3. \A k \in 1..Len(w) : w[k] = q[at(k)]
  BY Zenon DEF Shorter
<1>4. \A k \in 1..Len(w) : at(k) \in 1..n /\ at(k) # i
  BY <1>0, <1>1
<1>5. \A k, l \in 1..Len(w) : at(k) = at(l) => k = l
  BY <1>0, <1>1
<1>6. \A k \in 1..n : k # i => \E l \in 1..Len(w) : at(l) = k
  <2> SUFFICES ASSUME NEW k \in 1..n, k # i PROVE \E l \in 1..Len(w) : at(l) = k
    BY Zenon
  <2>1. CASE k < i
    <3>1. k \in 1..Len(w) /\ at(k) = k
      BY <1>0, <1>1, <2>1
    <3> QED BY <3>1, Zenon
  <2>2. CASE k > i
    <3>1. k - 1 \in 1..Len(w) /\ at(k - 1) = k
      BY <1>0, <1>1, <2>2
    <3> QED BY <3>1, Zenon
  <2> QED BY <1>1, <2>1, <2>2
<1> HIDE DEF at, n
<1>7. i \in 1..n
  BY Zenon DEF n
<1>8. Range(w) = Range(q) \ {q[i]}
  <2>1. ASSUME NEW k \in 1..Len(w) PROVE w[k] \in Range(q) \ {q[i]}
    <3>1. w[k] = q[at(k)] /\ at(k) \in 1..n /\ at(k) # i
      BY <1>3, <1>4, Zenon
    <3>2. q[at(k)] # q[i]
      BY <1>2, <1>7, <3>1, Zenon
    <3> QED BY <1>1, <3>1, <3>2, Zenon
  <2>2. ASSUME NEW k \in 1..n, q[k] # q[i] PROVE q[k] \in Range(w)
    <3>1. k # i
      BY <2>2, Zenon
    <3>2. PICK l \in 1..Len(w) : at(l) = k
      BY <1>6, <3>1, Zenon
    <3> QED BY <1>1, <1>3, <3>2, Zenon
  <2> QED BY <1>1, <2>1, <2>2, Zenon
<1>9. ASSUME NEW k \in 1..Len(w), NEW l \in 1..Len(w), w[k] = w[l] PROVE k = l
  <2>1. q[at(k)] = q[at(l)] /\ at(k) \in 1..n /\ at(l) \in 1..n
    BY <1>3, <1>4, <1>9, Zenon
  <2>2. at(k) = at(l)
    BY <1>2, <2>1, Zenon
  <2> QED BY <1>5, <2>2, Zenon
<1> QED BY <1>1, <1>8, <1>9, Zenon DEF IsInjective

LEMMA Served ==
  ASSUME NEW S, NEW q \in Seq(S), IsInjective(q), NEW r \in Range(q), Head(q) = r
  PROVE  Tail(q) \in Seq(S) /\ IsInjective(Tail(q)) /\ Range(Tail(q)) = Range(q) \ {r}
<1>1. Len(q) \in Nat /\ Len(q) >= 1
  <2>1. PICK i \in 1..Len(q) : q[i] = r
    BY Ranges, Zenon
  <2>2. Len(q) \in Nat
    BY SMT
  <2> QED BY <2>1, <2>2
<1>2. q # <<>>
  BY <1>1, SMT
<1>3. /\ Tail(q) \in Seq(S) /\ Len(Tail(q)) = Len(q) - 1 /\ q[1] = r
      /\ \A k \in 1..Len(Tail(q)) : Tail(q)[k] = q[k + 1]
  BY <1>2, SMT
<1>4. 1 \in 1..Len(q)
  BY <1>1
<1>5. \A k \in 1..Len(Tail(q)) : ~(k < 1)
  BY <1>1, <1>3
<1>6. Shorter(Tail(q), q, 1)
  BY <1>3, <1>5, Zenon DEF Shorter
<1>8. Tail(q) \in Seq(S)
  BY <1>3, Zenon
<1>7. IsInjective(Tail(q)) /\ Range(Tail(q)) = Range(q) \ {q[1]}
  <2>1. \A w \in Seq(S) : Shorter(w, q, 1) => IsInjective(w) /\ Range(w) = Range(q) \ {q[1]}
    BY <1>4, Removed, Zenon
  <2> QED BY <1>6, <1>8, <2>1, Zenon
<1> QED BY <1>3, <1>7, Zenon

LEMMA Left ==
  ASSUME NEW S, NEW q \in Seq(S), IsInjective(q), NEW r
  PROVE  Without(q, r) \in Seq(S) /\ IsInjective(Without(q, r)) /\ Range(Without(q, r)) = Range(q) \ {r}
<1>1. CASE r \notin Range(q)
  BY <1>1, Zenon DEF Without
<1>2. CASE r \in Range(q)
  <2> DEFINE i == CHOOSE i \in DOMAIN q : q[i] = r
             a == SubSeq(q, 1, i - 1)
             b == SubSeq(q, i + 1, Len(q))
  <2>1. i \in 1..Len(q) /\ q[i] = r /\ Len(q) \in Nat
    <3>1. DOMAIN q = 1..Len(q) /\ Len(q) \in Nat /\ \E k \in DOMAIN q : q[k] = r
      BY <1>2, Ranges, Zenon DEF Range
    <3>2. i \in DOMAIN q /\ q[i] = r
      BY <3>1, Zenon
    <3> QED BY <3>1, <3>2, Zenon
  <2>2. Without(q, r) = a \o b
    BY <1>2, Zenon DEF Without
  <2> HIDE DEF i
  <2>3. a \in Seq(S) /\ Len(a) = i - 1 /\ \A k \in 1..(i - 1) : a[k] = q[k]
    BY <2>1, SMT
  <2>4. b \in Seq(S) /\ Len(b) = Len(q) - i /\ \A k \in 1..(Len(q) - i) : b[k] = q[i + k]
    BY <2>1, SMT
  <2> HIDE DEF a, b
  <2>5. a \o b \in Seq(S) /\ Len(a \o b) = Len(a) + Len(b)
        /\ (\A k \in 1..Len(a) : (a \o b)[k] = a[k])
        /\ (\A k \in 1..Len(b) : (a \o b)[Len(a) + k] = b[k])
    <3>1. a \in Seq(S) /\ b \in Seq(S)
      BY <2>3, <2>4, Zenon
    <3> QED BY <3>1, SMT
  <2> DEFINE w == a \o b
  <2>6. w \in Seq(S) /\ Len(w) = Len(a) + Len(b)
        /\ (\A k \in 1..Len(a) : w[k] = a[k]) /\ (\A k \in 1..Len(b) : w[Len(a) + k] = b[k])
    BY <2>5, Zenon
  <2> HIDE DEF w
  <2>7. Len(w) = Len(q) - 1
    BY <2>1, <2>3, <2>4, <2>6
  <2>8. ASSUME NEW k \in 1..Len(w) PROVE w[k] = IF k < i THEN q[k] ELSE q[k + 1]
    <3>1. CASE k < i
      <4>1. k \in 1..Len(a) /\ k \in 1..(i - 1)
        BY <2>1, <2>3, <3>1
      <4> QED BY <2>3, <2>6, <3>1, <4>1, Zenon
    <3>2. CASE ~(k < i)
      <4> DEFINE l == k - (i - 1)
      <4>1. l \in 1..Len(b) /\ l \in 1..(Len(q) - i) /\ Len(a) + l = k /\ i + l = k + 1
        BY <2>1, <2>3, <2>4, <2>7, <3>2
      <4> HIDE DEF l
      <4> QED BY <2>4, <2>6, <3>2, <4>1, Zenon
    <3> QED BY <3>1, <3>2, Zenon
  <2>9. IsInjective(w) /\ Range(w) = Range(q) \ {q[i]}
    <3>1. Shorter(w, q, i)
      BY <2>7, <2>8, Zenon DEF Shorter
    <3>2. w \in Seq(S) /\ i \in 1..Len(q)
      BY <2>1, <2>6, Zenon
    <3>3. \A v \in Seq(S) : Shorter(v, q, i) => IsInjective(v) /\ Range(v) = Range(q) \ {q[i]}
      BY <3>2, Removed, Zenon
    <3> QED BY <3>1, <3>2, <3>3, Zenon
  <2> QED BY <2>1, <2>2, <2>6, <2>9, Zenon DEF w
<1> QED BY <1>1, <1>2, Zenon

-----------------------------------------------------------------------------
(* Every step keeps the invariant.                                         *)

LEMMA Queued ==
  ASSUME PoolInv, NEW res \in Resource
  PROVE  Range(queue[res]) \subseteq Client
<1>1. queue[res] \in Seq(Client)
  BY Zenon DEF PoolInv
<1>2. \A i \in 1..Len(queue[res]) : queue[res][i] \in Client
  BY <1>1, Element, Zenon
<1>3. Range(queue[res]) = {queue[res][i] : i \in 1..Len(queue[res])}
  BY <1>1, Ranges, Zenon
<1> QED BY <1>2, <1>3, Zenon

\* Request r goes on as x and leaves the queues.
LEMMA Moves ==
  ASSUME PoolInv, NEW r \in Client, NEW x \in Jobs \cup {NoJob}, job' = [job EXCEPT ![r] = x],
         queue' \in [Resource -> Seq(Client)],
         \A res \in Resource : IsInjective(queue'[res]) /\ Range(queue'[res]) = Range(queue[res]) \ {r},
         \/ HoldOf(x, "check") = 0
         \/ HoldOf(job[r], "check") # 0
         \/ \A t \in Client : HoldOf(job[t], "check") = 0
  PROVE  PoolInv'
<1>1. job \in [Client -> Jobs \cup {NoJob}]
  BY Zenon DEF PoolInv
<1>2. job' \in [Client -> Jobs \cup {NoJob}] /\ job'[r] = x /\ \A t \in Client \ {r} : job'[t] = job[t]
  BY <1>1, Zenon
<1>3. ASSUME NEW res \in Resource, NEW t \in Range(queue'[res])
      PROVE  Busy(t)' /\ (Now(t).op # "free")' /\ (Now(t).res = {res})'
  <2>1. t \in Range(queue[res]) /\ t \in Client \ {r}
    BY <1>3, Queued, Zenon
  <2>2. Busy(t) /\ Now(t).op # "free" /\ Now(t).res = {res}
    BY <2>1, Zenon DEF PoolInv
  <2> QED BY <1>2, <2>1, <2>2, Zenon DEF Busy, Now
<1>4. ASSUME NEW t \in Client, NEW u \in Client,
             HoldOf(job'[t], "check") # 0, HoldOf(job'[u], "check") # 0
      PROVE  t = u
  <2>1. \A v, w \in Client : HoldOf(job[v], "check") # 0 /\ HoldOf(job[w], "check") # 0 => v = w
    BY Zenon DEF PoolInv
  <2> QED BY <1>2, <1>4, <2>1, Zenon
<1> QED BY <1>2, <1>3, <1>4, Zenon DEF PoolInv

LEMMA NotQueued ==
  ASSUME PoolInv, NEW r, ~Busy(r) \/ ~Waiting(r) \/ Now(r).op = "free"
  PROVE  \A res \in Resource : r \notin Range(queue[res])
<1> SUFFICES ASSUME NEW res \in Resource, r \in Range(queue[res]) PROVE FALSE
  BY Zenon
<1>1. Busy(r) /\ Now(r).op # "free" /\ Now(r).res = {res}
  BY Zenon DEF PoolInv
<1>2. Waiting(r)
  BY <1>1, Zenon DEF Waiting
<1> QED BY <1>1, <1>2, Zenon

\* Request r goes on as x, from outside the queues.
LEMMA MovesOn ==
  ASSUME PoolInv, NEW r \in Client, NEW x \in Jobs \cup {NoJob}, job' = [job EXCEPT ![r] = x],
         queue' = queue, \A res \in Resource : r \notin Range(queue[res]),
         \/ HoldOf(x, "check") = 0
         \/ HoldOf(job[r], "check") # 0
         \/ \A t \in Client : HoldOf(job[t], "check") = 0
  PROVE  PoolInv'
<1>1. queue' \in [Resource -> Seq(Client)]
  BY Zenon DEF PoolInv
<1>2. \A res \in Resource : IsInjective(queue'[res]) /\ Range(queue'[res]) = Range(queue[res]) \ {r}
  BY Zenon DEF PoolInv
<1> QED BY <1>1, <1>2, Moves, Zenon

LEMMA Advances ==
  ASSUME PoolInv, NEW r \in Client, Busy(r), Advance(r)
  PROVE  \E x \in Jobs \cup {NoJob} :
           /\ job' = [job EXCEPT ![r] = x]
           /\ HoldOf(x, "check") = 0 \/ HoldOf(job[r], "check") # 0
                \/ (Now(r).op # "free" /\ "check" \in Now(r).res)
<1> DEFINE j == job[r]
<1>1. j \in Jobs /\ job \in [Client -> Jobs \cup {NoJob}]
  BY Zenon DEF PoolInv, Busy
<1>2. /\ j.kind \in Kind \cup Detached /\ j.step \in Nat \ {0} /\ j.step \in 1..Len(Steps[j.kind])
      /\ Steps[j.kind][j.step] \in StepRecords /\ j # NoJob
  BY <1>1, JobFacts, Zenon
<1>3. j \in [kind : Kind \cup Detached, step : Nat \ {0}]
  BY <1>1, Zenon DEF Jobs
<1>4. CASE j.step = Len(Steps[j.kind])
  <2>1. job' = [job EXCEPT ![r] = NoJob]
    BY <1>4, Zenon DEF Advance
  <2> QED BY <2>1, Zenon DEF HoldOf
<1>5. CASE j.step # Len(Steps[j.kind])
  <2> DEFINE x == [kind |-> j.kind, step |-> j.step + 1]
  <2>1. job' = [job EXCEPT ![r] = x]
    BY <1>5, Zenon DEF Advance
  <2>2. x.kind = j.kind /\ x.step = j.step + 1 /\ x \in [kind : Kind \cup Detached, step : Nat \ {0}]
    BY <1>2, <1>3, SMT
  <2>3. Len(Steps[j.kind]) \in Nat
    BY <1>2, PlanOf, Zenon
  <2>4. j.step + 1 \in 1..Len(Steps[j.kind])
    BY <1>2, <1>5, <2>3
  <2>5. x \in Jobs
    BY <2>2, <2>4, Zenon DEF Jobs
  <2>6. x # NoJob
    BY <2>5, IdleIsNoJob, Zenon
  <2>7. HoldOf(x, "check") = Holding(Steps[j.kind], j.step + 1, "check")
        /\ HoldOf(j, "check") = Holding(Steps[j.kind], j.step, "check")
    BY <1>2, <2>2, <2>6, Zenon DEF HoldOf
  <2> HIDE DEF x
  <2>8. Holding(Steps[j.kind], j.step + 1, "check") =
          IF "check" \in Now(r).res THEN Now(r).n ELSE Holding(Steps[j.kind], j.step, "check")
    BY <1>2, HoldNext, Zenon DEF Now
  <2>9. Now(r).op = "free" => Now(r).n = 0
    BY <1>2, Zenon DEF Now, StepRecords
  <2> QED BY <2>1, <2>5, <2>7, <2>8, <2>9, Zenon
<1> QED BY <1>4, <1>5, Zenon

\* What an acquisition asks for.
LEMMA Asks ==
  ASSUME PoolInv, NEW r \in Client, Busy(r), Now(r).op # "free"
  PROVE  \E res \in Resource : /\ Now(r).res = {res} /\ (CHOOSE x \in Now(r).res : TRUE) = res
                               /\ Now(r).n >= 1 /\ Now(r).n \in Nat
<1>1. job[r] \in Jobs
  BY Zenon DEF PoolInv, Busy
<1>2. Now(r) \in StepRecords
  BY <1>1, JobFacts, Zenon DEF Now
<1>3. PICK res \in Resource : Now(r).res = {res}
  BY <1>2, Zenon DEF StepRecords
<1>4. Now(r).n > 0 /\ Now(r).n \in Nat
  BY <1>2, SMT DEF StepRecords
<1>5. Now(r).n >= 1
  BY <1>4
<1>6. (CHOOSE x \in Now(r).res : TRUE) = res
  BY <1>3, Zenon
<1> QED BY <1>3, <1>4, <1>5, <1>6, Zenon

LEMMA StartKeeps ==
  ASSUME PoolInv, NEW r \in Client, NEW kind \in Kinds[r], Start(r, kind)
  PROVE  PoolInv'
<1> DEFINE x == [kind |-> kind, step |-> 1]
<1>1. kind \in Kind \cup Detached
  BY AdmissionAssumption, Zenon
<1>2. 1 \in 1..Len(Steps[kind])
  <2>1. Len(Steps[kind]) \in Nat /\ Len(Steps[kind]) >= 1
    BY <1>1, PlanOf, Zenon
  <2> QED BY <2>1
<1>3. x.kind = kind /\ x.step = 1 /\ x \in [kind : Kind \cup Detached, step : Nat \ {0}]
  BY <1>1, SMT
<1>4. x \in Jobs
  BY <1>2, <1>3, Zenon DEF Jobs
<1>5. HoldOf(x, "check") = 0
  <2>1. \A k \in 1..(1 - 1) : FALSE
    BY SMT
  <2>2. Holding(Steps[kind], 1, "check") = 0
    BY <2>1, NotHeld, Zenon
  <2> QED BY <1>3, <2>2, Zenon DEF HoldOf
<1>6. ~Busy(r) /\ job' = [job EXCEPT ![r] = x] /\ queue' = queue
  BY Zenon DEF Start
<1> HIDE DEF x
<1>7. \A res \in Resource : r \notin Range(queue[res])
  BY <1>6, NotQueued, Zenon
<1> QED BY <1>4, <1>5, <1>6, <1>7, MovesOn, Zenon

LEMMA ReleaseKeeps ==
  ASSUME PoolInv, NEW r \in Client, Release(r)
  PROVE  PoolInv'
<1>1. Busy(r) /\ Now(r).op = "free" /\ Advance(r) /\ queue' = queue
  BY Zenon DEF Release
<1>2. \A res \in Resource : r \notin Range(queue[res])
  BY <1>1, NotQueued, Zenon
<1>3. PICK x \in Jobs \cup {NoJob} :
        job' = [job EXCEPT ![r] = x] /\ (HoldOf(x, "check") = 0 \/ HoldOf(job[r], "check") # 0)
  BY <1>1, Advances, Zenon
<1> QED BY <1>1, <1>2, <1>3, MovesOn, Zenon

\* An acquisition that found its permits.
LEMMA Acquired ==
  ASSUME PoolInv, CheckIsOne, NEW r \in Client, Busy(r), Now(r).op # "free", Advance(r),
         Available(CHOOSE x \in Now(r).res : TRUE) >= Now(r).n
  PROVE  \E x \in Jobs \cup {NoJob} :
           /\ job' = [job EXCEPT ![r] = x]
           /\ \/ HoldOf(x, "check") = 0
              \/ HoldOf(job[r], "check") # 0
              \/ \A t \in Client : HoldOf(job[t], "check") = 0
<1>1. PICK x \in Jobs \cup {NoJob} :
        /\ job' = [job EXCEPT ![r] = x]
        /\ HoldOf(x, "check") = 0 \/ HoldOf(job[r], "check") # 0 \/ "check" \in Now(r).res
  BY Advances, Zenon
<1>2. PICK res \in Resource : /\ Now(r).res = {res} /\ (CHOOSE y \in Now(r).res : TRUE) = res
                             /\ Now(r).n >= 1 /\ Now(r).n \in Nat
  BY Asks, Zenon
<1>3. ASSUME "check" \in Now(r).res PROVE \A t \in Client : HoldOf(job[t], "check") = 0
  <2>3. Now(r).res = {res}
    BY <1>2, Zenon
  <2>1. res = "check"
    BY <1>3, <2>3, SMT
  <2>2. Available("check") >= Now(r).n
    BY <1>2, <2>1, Zenon
  <2> QED BY <1>2, <2>2, Zenon DEF CheckIsOne
<1> QED BY <1>1, <1>3, Zenon

LEMMA Joins ==
  \A S : \A q \in Seq(S) : \A r \in S : IsInjective(q) /\ r \notin Range(q) =>
    /\ Append(q, r) \in Seq(S) /\ IsInjective(Append(q, r))
    /\ Range(Append(q, r)) = Range(q) \cup {r}
BY Joined

LEMMA JoinKeeps ==
  ASSUME PoolInv, NEW r \in Client, Busy(r), Now(r).op # "free",
         NEW res \in Resource, Now(r).res = {res}, r \notin Range(queue[res])
  PROVE  queue' = [queue EXCEPT ![res] = Append(@, r)] /\ job' = job => PoolInv'
<1>1. queue \in [Resource -> Seq(Client)] /\ queue[res] \in Seq(Client) /\ IsInjective(queue[res])
  BY Zenon DEF PoolInv
<1>2. /\ Append(queue[res], r) \in Seq(Client) /\ IsInjective(Append(queue[res], r))
      /\ Range(Append(queue[res], r)) = Range(queue[res]) \cup {r}
  <2> DEFINE q == queue[res]
  <2>1. q \in Seq(Client) /\ IsInjective(q) /\ r \notin Range(q)
    BY <1>1, Zenon
  <2> HIDE DEF q
  <2>2. /\ Append(q, r) \in Seq(Client) /\ IsInjective(Append(q, r))
        /\ Range(Append(q, r)) = Range(q) \cup {r}
    BY <2>1, Joins, SMT
  <2> QED BY <2>2, Zenon DEF q
<1> SUFFICES ASSUME queue' = [queue EXCEPT ![res] = Append(@, r)], job' = job PROVE PoolInv'
  OBVIOUS
<1>3. /\ queue' \in [Resource -> Seq(Client)] /\ queue'[res] = Append(queue[res], r)
      /\ \A other \in Resource \ {res} : queue'[other] = queue[other]
  BY <1>1, <1>2, Zenon
<1>4. \A other \in Resource : IsInjective(queue'[other])
  BY <1>2, <1>3, Zenon DEF PoolInv
<1>5. ASSUME NEW other \in Resource, NEW t \in Range(queue'[other])
      PROVE  Busy(t)' /\ (Now(t).op # "free")' /\ (Now(t).res = {other})'
  <2>1. t \in Range(queue[other]) \/ (t = r /\ other = res)
    BY <1>2, <1>3, <1>5, Zenon
  <2>2. Busy(t) /\ Now(t).op # "free" /\ Now(t).res = {other}
    BY <2>1, Zenon DEF PoolInv
  <2> QED BY <2>2, Zenon DEF Busy, Now
<1> QED BY <1>3, <1>4, <1>5, Zenon DEF PoolInv

LEMMA RequestKeeps ==
  ASSUME PoolInv, CheckIsOne, NEW r \in Client, Request(r)
  PROVE  PoolInv'
<1> DEFINE ask == CHOOSE x \in Now(r).res : TRUE
<1>1. Busy(r) /\ Now(r).op # "free" /\ ~Waiting(r)
  BY Zenon DEF Request
<1>2. \A res \in Resource : r \notin Range(queue[res])
  BY <1>1, NotQueued, Zenon
<1>3. ask \in Resource /\ Now(r).res = {ask}
  BY <1>1, Asks, Zenon
<1>4. \/ Available(ask) >= Now(r).n /\ Advance(r) /\ queue' = queue
      \/ job' = [job EXCEPT ![r] = NoJob] /\ queue' = queue
      \/ queue' = [queue EXCEPT ![ask] = Append(@, r)] /\ job' = job
  BY Zenon DEF Request
<1>5. CASE Available(ask) >= Now(r).n /\ Advance(r) /\ queue' = queue
  <2>1. PICK x \in Jobs \cup {NoJob} :
          /\ job' = [job EXCEPT ![r] = x]
          /\ \/ HoldOf(x, "check") = 0
             \/ HoldOf(job[r], "check") # 0
             \/ \A t \in Client : HoldOf(job[t], "check") = 0
    BY <1>1, <1>5, Acquired, Zenon
  <2> QED BY <1>2, <1>5, <2>1, MovesOn, Zenon
<1>6. CASE job' = [job EXCEPT ![r] = NoJob] /\ queue' = queue
  <2>1. HoldOf(NoJob, "check") = 0 /\ NoJob \in Jobs \cup {NoJob}
    BY Zenon DEF HoldOf
  <2> QED BY <1>2, <1>6, <2>1, MovesOn, Zenon
<1>7. CASE queue' = [queue EXCEPT ![ask] = Append(@, r)] /\ job' = job
  <2>1. r \notin Range(queue[ask])
    BY <1>2, <1>3, Zenon
  <2> HIDE DEF ask
  <2> QED BY <1>1, <1>3, <1>7, <2>1, JoinKeeps, Zenon
<1> QED BY <1>4, <1>5, <1>6, <1>7, Zenon

LEMMA GrantKeeps ==
  ASSUME PoolInv, CheckIsOne, NEW r \in Client, Grant(r)
  PROVE  PoolInv'
<1> DEFINE ask == CHOOSE x \in Now(r).res : TRUE
<1>1. Busy(r) /\ \E res \in Now(r).res : r \in Range(queue[res])
  BY Zenon DEF Grant, Waiting
<1>2. /\ Head(queue[ask]) = r /\ Available(ask) >= Now(r).n /\ Advance(r)
      /\ queue' = [queue EXCEPT ![ask] = Tail(@)]
  BY Zenon DEF Grant
<1>3. Now(r).op # "free"
  <2>1. Now(r) \in StepRecords
    BY <1>1, JobFacts, Zenon DEF PoolInv, Busy, Now
  <2>2. Now(r).res \subseteq Resource
    BY <2>1, SMT DEF StepRecords
  <2> QED BY <1>1, <2>2, Zenon DEF PoolInv
<1>4. ask \in Resource /\ Now(r).res = {ask}
  BY <1>1, <1>3, Asks, Zenon
<1>5. r \in Range(queue[ask])
  <2> HIDE DEF ask
  <2> QED BY <1>1, <1>4, Zenon
<1>6. PICK x \in Jobs \cup {NoJob} :
        /\ job' = [job EXCEPT ![r] = x]
        /\ \/ HoldOf(x, "check") = 0
           \/ HoldOf(job[r], "check") # 0
           \/ \A t \in Client : HoldOf(job[t], "check") = 0
  BY <1>1, <1>2, <1>3, Acquired, Zenon
<1> HIDE DEF ask
<1>7. queue \in [Resource -> Seq(Client)] /\ queue[ask] \in Seq(Client) /\ IsInjective(queue[ask])
  BY <1>4, Zenon DEF PoolInv
<1>8. /\ Tail(queue[ask]) \in Seq(Client) /\ IsInjective(Tail(queue[ask]))
      /\ Range(Tail(queue[ask])) = Range(queue[ask]) \ {r}
  BY <1>2, <1>5, <1>7, Served, Zenon
<1>9. /\ queue' \in [Resource -> Seq(Client)] /\ queue'[ask] = Tail(queue[ask])
      /\ \A other \in Resource \ {ask} : queue'[other] = queue[other]
  BY <1>2, <1>4, <1>7, <1>8, Zenon
<1>10. \A other \in Resource \ {ask} : r \notin Range(queue[other])
  <2> SUFFICES ASSUME NEW other \in Resource \ {ask}, r \in Range(queue[other]) PROVE FALSE
    BY Zenon
  <2>1. Now(r).res = {other}
    BY Zenon DEF PoolInv
  <2> QED BY <1>4, <2>1, SMT
<1>11. ASSUME NEW res \in Resource
       PROVE  IsInjective(queue'[res]) /\ Range(queue'[res]) = Range(queue[res]) \ {r}
  <2>1. CASE res = ask
    BY <1>8, <1>9, <2>1, Zenon
  <2>2. CASE res # ask
    <3>1. queue'[res] = queue[res] /\ r \notin Range(queue[res]) /\ IsInjective(queue[res])
      BY <1>9, <1>10, <2>2, Zenon DEF PoolInv
    <3> QED BY <3>1, Zenon
  <2> QED BY <2>1, <2>2, Zenon
<1> QED BY <1>6, <1>9, <1>11, Moves, Zenon

LEMMA AbandonKeeps ==
  ASSUME PoolInv, NEW r \in Client, Abandon(r)
  PROVE  PoolInv'
<1>1. job' = [job EXCEPT ![r] = NoJob] /\ queue' = [res \in Resource |-> Without(queue[res], r)]
  BY Zenon DEF Abandon
<1>2. HoldOf(NoJob, "check") = 0 /\ NoJob \in Jobs \cup {NoJob}
  BY Zenon DEF HoldOf
<1>3. \A res \in Resource : /\ Without(queue[res], r) \in Seq(Client)
                            /\ IsInjective(Without(queue[res], r))
                            /\ Range(Without(queue[res], r)) = Range(queue[res]) \ {r}
  <2>1. \A res \in Resource : queue[res] \in Seq(Client) /\ IsInjective(queue[res])
    BY Zenon DEF PoolInv
  <2> QED BY <2>1, Left, Zenon
<1>4. queue' \in [Resource -> Seq(Client)] /\ \A res \in Resource : queue'[res] = Without(queue[res], r)
  BY <1>1, <1>3, Zenon
<1>5. \A res \in Resource : IsInjective(queue'[res]) /\ Range(queue'[res]) = Range(queue[res]) \ {r}
  BY <1>3, <1>4, Zenon
<1> QED BY <1>1, <1>2, <1>4, <1>5, Moves, Zenon

LEMMA DropKeeps ==
  ASSUME PoolInv, NEW r \in Client, Drop(r)
  PROVE  PoolInv'
<1>1. Busy(r) /\ job[r] \in Jobs
  BY Zenon DEF Drop, PoolInv, Busy
<1>2. CASE Now(r).op = "free" /\ "worker" \in Now(r).res
  <2> DEFINE x == [kind |-> "task", step |-> 2]
  <2>1. job' = [job EXCEPT ![r] = x] /\ queue' = queue
    BY <1>2, Zenon DEF Drop
  <2>2. Steps["task"] = DbTask
    BY Zenon DEF Steps
  <2>3. 2 \in 1..Len(Steps["task"])
    <3>1. Len(Steps["task"]) = 2
      BY <2>2, TaskPlan, Zenon
    <3> QED BY <3>1
  <2>4. x.kind = "task" /\ x.step = 2 /\ x \in [kind : Kind \cup Detached, step : Nat \ {0}]
    BY SMT DEF Detached
  <2>5. x \in Jobs
    BY <2>3, <2>4, Zenon DEF Jobs
  <2>6. HoldOf(x, "check") = 0
    BY <2>4, <2>5, JobFacts, Zenon
  <2> HIDE DEF x
  <2>7. \A res \in Resource : r \notin Range(queue[res])
    BY <1>2, NotQueued, Zenon
  <2> QED BY <2>1, <2>5, <2>6, <2>7, MovesOn, Zenon
<1>3. CASE Now(r).op = "free" /\ "check" \in Now(r).res /\ "worker" \notin Now(r).res
  <2> DEFINE x == [kind |-> "hash", step |-> 3]
  <2>1. job' = [job EXCEPT ![r] = x] /\ queue' = queue
    BY <1>3, Zenon DEF Drop
  <2>3. 3 \in 1..Len(Steps["hash"])
    <3>1. Len(Steps["hash"]) = 3
      BY HashPlan, Zenon
    <3> QED BY <3>1
  <2>4. x.kind = "hash" /\ x.step = 3 /\ x \in [kind : Kind \cup Detached, step : Nat \ {0}]
    BY SMT DEF Detached
  <2>5. x \in Jobs
    BY <2>3, <2>4, Zenon DEF Jobs
  <2> HIDE DEF x
  <2>6. HoldOf(job[r], "check") = 1
    BY <1>1, <1>3, JobFacts, Zenon DEF Now
  <2>7. HoldOf(job[r], "check") # 0
    BY <2>6
  <2>8. \A res \in Resource : r \notin Range(queue[res])
    BY <1>3, NotQueued, Zenon
  <2> QED BY <2>1, <2>5, <2>7, <2>8, MovesOn, Zenon
<1>4. CASE ~(Now(r).op = "free" /\ "worker" \in Now(r).res) /\ ~(Now(r).op = "free" /\ "check" \in Now(r).res)
  <2>1. Abandon(r)
    BY <1>4, Zenon DEF Drop
  <2> QED BY <2>1, AbandonKeeps, Zenon
<1> QED BY <1>2, <1>3, <1>4, Zenon

LEMMA PoolInvInit == AdmissionInit => PoolInv
<1> SUFFICES ASSUME AdmissionInit PROVE PoolInv
  BY Zenon
<1>1. /\ job \in [Client -> Jobs \cup {NoJob}] /\ \A r \in Client : job[r] = NoJob
      /\ \A res \in Resource : queue[res] = <<>>
  BY Zenon DEF AdmissionInit
<1>2. <<>> \in Seq(Client) /\ DOMAIN <<>> = {}
  BY SMT
<1>3. queue \in [Resource -> Seq(Client)]
  BY <1>2, Zenon DEF AdmissionInit
<1>4. IsInjective(<<>>) /\ Range(<<>>) = {}
  BY <1>2, Zenon DEF IsInjective, Range
<1>5. \A r \in Client : HoldOf(job[r], "check") = 0
  BY <1>1, Zenon DEF HoldOf
<1> QED BY <1>1, <1>3, <1>4, <1>5, Zenon DEF PoolInv

LEMMA PoolInvNext ==
  ASSUME PoolInv, CheckIsOne, [AdmissionNext]_admissionVars
  PROVE  PoolInv'
<1>1. CASE job' = job /\ queue' = queue
  BY <1>1, Zenon DEF PoolInv, Busy, Now
<1>2. ASSUME NEW r \in Client, Step(r) PROVE PoolInv'
  BY <1>2, ReleaseKeeps, RequestKeeps, GrantKeeps, Zenon DEF Step
<1>3. ASSUME NEW r \in Client, GiveUp(r) PROVE PoolInv'
  BY <1>3, AbandonKeeps, Zenon DEF GiveUp
<1> QED BY <1>1, <1>2, <1>3, DropKeeps, StartKeeps, Zenon
        DEF AdmissionNext, admissionVars, Shutdown, Restart

-----------------------------------------------------------------------------
(* One lane stays live.                                                    *)

INSTANCE FiniteSetTheorems

\* A free permit for a password check means that nobody holds one.
LEMMA FreeCheck ==
  ASSUME PoolInv
  PROVE  CheckIsOne
<1>1. "check" \in Resource
  BY Zenon DEF Resource
<1>2. \A t \in Client : job[t] \in Jobs \cup {NoJob}
  BY Zenon DEF PoolInv
<1>3. \A t \in Client : HoldOf(job[t], "check") \in {0, 1}
  BY <1>2, JobFacts, Zenon DEF HoldOf
<1>4. \A t \in Client : Held(t, "check") = HoldOf(job[t], "check")
  BY <1>1, <1>2, HeldIs, Zenon
<1>5. \A t \in Client : 1..Held(t, "check") \subseteq {1}
  BY <1>3, <1>4
<1>6. Taken("check") \subseteq Client \X {1}
  <2>1. ASSUME NEW y \in Taken("check") PROVE y \in Client \X {1}
    <3>1. PICK t \in Client : y \in {t} \X (1..Held(t, "check"))
      BY <2>1, Zenon DEF Taken
    <3>2. y \in {t} \X {1}
      <4>1. 1..Held(t, "check") \subseteq {1}
        BY <1>5, Zenon
      <4> QED BY <3>1, <4>1, SMT
    <3> QED BY <3>2, SMT
  <2> QED BY <2>1, Zenon
<1>7. IsFiniteSet(Client \X {1})
  BY AdmissionAssumption, FS_Product, FS_Singleton, Zenon
<1>8. IsFiniteSet(Taken("check")) /\ Cardinality(Taken("check")) \in Nat
  BY <1>6, <1>7, FS_Subset, FS_CardinalityType, Zenon
<1> SUFFICES ASSUME NEW n \in Nat, n >= 1, Available("check") >= n
             PROVE  \A t \in Client : HoldOf(job[t], "check") = 0
  BY Zenon DEF CheckIsOne
<1>9. Cardinality(Taken("check")) = 0
  BY <1>8, AdmissionAssumption DEF Available
<1>10. Taken("check") = {}
  BY <1>8, <1>9, FS_EmptySet, Zenon
<1> SUFFICES ASSUME NEW t \in Client, HoldOf(job[t], "check") = 1 PROVE FALSE
  BY <1>3, Zenon
<1>11. 1 \in 1..Held(t, "check")
  <2>1. Held(t, "check") = 1
    BY <1>4, Zenon
  <2> QED BY <2>1
<1>12. <<t, 1>> \in {t} \X (1..Held(t, "check"))
  BY <1>11, Zenon
<1> QED BY <1>10, <1>12, Zenon DEF Taken

LEMMA NothingTaken ==
  ASSUME NEW res, \A r \in Client : Held(r, res) = 0
  PROVE  Cardinality(Taken(res)) = 0
<1>1. 1..0 = {}
  BY SMT
<1>2. \A r \in Client : {r} \X (1..Held(r, res)) = {}
  BY <1>1, SMT
<1>3. Taken(res) = {}
  BY <1>2, Zenon DEF Taken
<1> QED BY <1>3, FS_EmptySet, Zenon

LEMMA OneTaker ==
  ASSUME NEW res, NEW t \in Client, NEW n \in Nat, Held(t, res) = n,
         \A r \in Client \ {t} : Held(r, res) = 0
  PROVE  Cardinality(Taken(res)) = n
<1>1. 1..0 = {}
  BY SMT
<1>2. \A r \in Client \ {t} : {r} \X (1..Held(r, res)) = {}
  BY <1>1, SMT
<1>3. Taken(res) = {t} \X (1..n)
  BY <1>2, Zenon DEF Taken
<1>4. IsFiniteSet({t}) /\ Cardinality({t}) = 1
  BY FS_Singleton, Zenon
<1>5. IsFiniteSet(1..n) /\ Cardinality(1..n) = IF 1 > n THEN 0 ELSE n - 1 + 1
  BY FS_Interval, SMT
<1>6. Cardinality(1..n) = n
  BY <1>5, SMT
<1>7. Cardinality(Taken(res)) = Cardinality({t}) * Cardinality(1..n)
  BY <1>3, <1>4, <1>5, FS_Product, Zenon
<1> QED BY <1>4, <1>6, <1>7, SMT

LEMMA LaneFromInv == PoolInv => SyncLaneLive
<1> SUFFICES ASSUME PoolInv, NEW s \in Client \ Passwords, s \in Range(queue["bulk"]),
                    \A r \in Client \ Passwords : Held(r, "bulk") = 0
             PROVE  Available("bulk") >= Now(Head(queue["bulk"])).n
  BY Zenon DEF SyncLaneLive
<1> DEFINE h == Head(queue["bulk"])
           check == {"signin", "register", "hash"}
<1>1. "bulk" \in Resource /\ "check" \in Resource
  BY Zenon DEF Resource
<1>2. h \in Range(queue["bulk"]) /\ h \in Client
  <2>1. queue["bulk"] \in Seq(Client)
    BY <1>1, Zenon DEF PoolInv
  <2>6. Range(queue["bulk"]) = {queue["bulk"][i] : i \in 1..Len(queue["bulk"])}
    BY <2>1, Ranges, Zenon
  <2>2. PICK i \in 1..Len(queue["bulk"]) : queue["bulk"][i] = s
    BY <2>6, Zenon
  <2>3. Len(queue["bulk"]) \in Nat /\ 1 \in 1..Len(queue["bulk"])
    BY <2>1, <2>2, SMT
  <2>4. h = queue["bulk"][1]
    BY <2>1, <2>3, SMT
  <2>5. h \in Range(queue["bulk"])
    BY <2>3, <2>4, <2>6, Zenon
  <2> QED BY <1>1, <2>5, Queued, Zenon
<1> HIDE DEF h
<1>3. Busy(h) /\ Now(h).op # "free" /\ Now(h).res = {"bulk"}
  BY <1>1, <1>2, Zenon DEF PoolInv
<1>4. \A r \in Client : job[r] \in Jobs \cup {NoJob}
  BY Zenon DEF PoolInv
<1>5. \A r \in Client : /\ Held(r, "bulk") = HoldOf(job[r], "bulk")
                        /\ r \in Passwords <=> job[r] # NoJob /\ job[r].kind \in check
  BY <1>1, <1>4, HeldIs, Zenon DEF Passwords, Busy
<1>6. \A r \in Client \ Passwords : Held(r, "bulk") = 0
  OBVIOUS
<1>7. ASSUME NEW r \in Passwords
      PROVE  /\ Held(r, "bulk") \in {0, Argon2}
             /\ Held(r, "bulk") # 0 => HoldOf(job[r], "check") # 0
  <2>1. r \in Client /\ job[r] \in Jobs /\ job[r].kind \in check
    BY <1>4, <1>5, <1>7, Zenon DEF Passwords
  <2>2. HoldOf(job[r], "bulk") \in {0, Argon2} /\ (HoldOf(job[r], "bulk") # 0 => HoldOf(job[r], "check") = 1)
    BY <2>1, JobFacts, Zenon
  <2> QED BY <1>5, <2>1, <2>2, SMT
<1>8. \A r, t \in Client : HoldOf(job[r], "check") # 0 /\ HoldOf(job[t], "check") # 0 => r = t
  BY Zenon DEF PoolInv
<1>9. Argon2 \in Nat \ {0} /\ Capacity["bulk"] \in Nat /\ Argon2 <= Capacity["bulk"] - 1
  BY AdmissionAssumption, <1>1
<1>10. CASE h \in Passwords
  <2>1. job[h] \in Jobs /\ job[h].kind \in check
    BY <1>2, <1>4, <1>5, <1>10, Zenon
  <2>2. Now(h).n = Argon2 /\ HoldOf(job[h], "check") = 1 /\ HoldOf(job[h], "bulk") = 0
    BY <1>3, <2>1, JobFacts, Zenon DEF Now
  <2>3. HoldOf(job[h], "check") # 0
    BY <2>2
  <2>4. ASSUME NEW r \in Client PROVE Held(r, "bulk") = 0
    <3>1. CASE r = h
      BY <1>2, <1>5, <2>2, <3>1, Zenon
    <3>2. CASE r # h
      BY <1>2, <1>6, <1>7, <1>8, <2>3, <3>2, Zenon
    <3> QED BY <3>1, <3>2, Zenon
  <2>5. Cardinality(Taken("bulk")) = 0
    BY <2>4, NothingTaken, Zenon
  <2>6. Available("bulk") = Capacity["bulk"] - 0
    BY <2>5, Zenon DEF Available
  <2> QED BY <1>9, <2>2, <2>6 DEF h
<1>11. CASE h \notin Passwords
  <2>1. job[h] \in Jobs /\ job[h].kind \notin check
    BY <1>2, <1>3, <1>4, <1>5, <1>11, Zenon DEF Busy
  <2>2. Now(h).n <= 1 /\ Now(h) \in StepRecords
    BY <2>1, JobFacts, Zenon DEF Now
  <2>3. Now(h).n \in Nat
    BY <2>2, SMT DEF StepRecords
  <2>4. Cardinality(Taken("bulk")) \in {0, Argon2}
    <3>1. CASE \A r \in Client : Held(r, "bulk") = 0
      BY <3>1, NothingTaken, Zenon
    <3>2. ASSUME NEW t \in Client, Held(t, "bulk") # 0
          PROVE  Cardinality(Taken("bulk")) = Argon2
      <4>1. t \in Passwords
        BY <1>6, <3>2, Zenon
      <4>2. Held(t, "bulk") = Argon2 /\ HoldOf(job[t], "check") # 0
        BY <1>7, <3>2, <4>1, Zenon
      <4>3. \A r \in Client \ {t} : Held(r, "bulk") = 0
        BY <1>6, <1>7, <1>8, <4>2, Zenon
      <4> QED BY <1>9, <4>2, <4>3, OneTaker, Zenon
    <3> QED BY <3>1, <3>2, Zenon
  <2>5. Available("bulk") \in {Capacity["bulk"] - 0, Capacity["bulk"] - Argon2}
    BY <2>4, Zenon DEF Available
  <2> QED BY <1>9, <2>2, <2>3, <2>5 DEF h
<1> QED BY <1>10, <1>11, Zenon

\* The memory a password check takes leaves one permit, and one check at a time takes
\* it: while only password checks hold memory, the head of the queue is served.
THEOREM LaneLive == AdmissionSpec => []SyncLaneLive
<1>1. AdmissionInit => PoolInv
  BY PoolInvInit
<1>2. PoolInv /\ [AdmissionNext]_admissionVars => PoolInv'
  BY FreeCheck, PoolInvNext
<1>3. PoolInv => SyncLaneLive
  BY LaneFromInv
<1> QED BY <1>1, <1>2, <1>3, PTL DEF AdmissionSpec

-----------------------------------------------------------------------------
(* Sessions.                                                               *)

\* The states of a request.
Issuing  == [op : {"issue"}, x : User, now : 0..MaxClock]
Renewing == [op : {"renew", "renewForVault"}, x : Token, now : 0..MaxClock]
Pending  == {Idle} \cup Issuing \cup Renewing

\* The inductive invariant.
Inv ==
  /\ TypeOK /\ req \in [Req -> Pending]
  /\ TableVerifies /\ WindowSlides /\ DisabledHoldNoSession

\* What a step does to the sessions there are.
Extends ==
  \A t \in Token :
    /\ t \in Live /\ t \in Live' => rows'[t].expires >= rows[t].expires
    /\ t \in issued \ Live => t \notin Live'

\* A step ends the sessions of S, and changes no other row.
Ends(S) ==
  /\ rows' \in [Token -> Row \cup {None}]
  /\ Present' = Present /\ Live' = Live \ S /\ \A t \in Live' : rows'[t] = rows[t]

-----------------------------------------------------------------------------
LEMMA Constants ==
  /\ IsFiniteSet(Token) /\ MaxSessions \in Nat /\ MaxPerUser \in Nat /\ MaxClock \in Nat
  /\ TTL \in Nat /\ TTL > 0 /\ TTL \div 2 \in Nat /\ TTL \div 2 < TTL
BY SessionAssumption

LEMMA NoRow == \A x \in Row : x # None
<1>1. DOMAIN None = {"user"}
  BY Zenon DEF None
<1>2. \A x \in Row : "expires" \in DOMAIN x
  BY Zenon DEF Row
<1> QED BY <1>1, <1>2

\* A session that is present has a row.
LEMMA RowOf ==
  ASSUME rows \in [Token -> Row \cup {None}], NEW t \in Present
  PROVE  /\ t \in Token /\ rows[t] \in Row /\ rows[t].user \in User
         /\ rows[t].expires \in 1..MaxClock + TTL /\ rows[t].used \in 0..MaxClock
         /\ rows[t].revoked \in BOOLEAN
BY Zenon DEF Present, Row

\* The sessions of u that are not revoked.
HeldBy(u) == {t \in Live : rows[t].user = u}

\* Fewer rows keep the limits.
LEMMA FewerVerify ==
  ASSUME TableVerifies, Present' \subseteq Present, \A u \in User : HeldBy(u)' \subseteq HeldBy(u)
  PROVE  TableVerifies'
<1>1. Present \subseteq Token /\ \A u \in User : HeldBy(u) \subseteq Token
  BY Zenon DEF HeldBy, Live, Present
<1>2. IsFiniteSet(Present) /\ \A u \in User : IsFiniteSet(HeldBy(u))
  BY <1>1, Constants, FS_Subset, Zenon
<1>3. /\ Cardinality(Present') <= Cardinality(Present)
      /\ Cardinality(Present) \in Nat /\ Cardinality(Present') \in Nat
  BY <1>2, FS_Subset, FS_CardinalityType, Zenon
<1>4. ASSUME NEW u \in User PROVE Cardinality(HeldBy(u)') <= MaxPerUser
  <2>1. /\ Cardinality(HeldBy(u)') <= Cardinality(HeldBy(u))
        /\ Cardinality(HeldBy(u)) \in Nat /\ Cardinality(HeldBy(u)') \in Nat
    BY <1>2, FS_Subset, FS_CardinalityType, Zenon
  <2>2. Cardinality(HeldBy(u)) <= MaxPerUser
    BY Zenon DEF TableVerifies, HeldBy
  <2> QED BY <2>1, <2>2, Constants
<1>5. Cardinality(Present) <= MaxSessions
  BY Zenon DEF TableVerifies
<1>6. Cardinality(Present') <= MaxSessions
  BY <1>3, <1>5, Constants
<1> QED BY <1>4, <1>6, Zenon DEF TableVerifies, HeldBy

\* Ending sessions keeps the limits and the windows, and extends no session.
LEMMA EndsKeeps ==
  ASSUME TypeOK, TableVerifies, WindowSlides, NEW S, Ends(S)
  PROVE  TableVerifies' /\ WindowSlides' /\ Extends
<1>1. \A t \in Live' : t \in Live /\ rows'[t] = rows[t]
  BY Zenon DEF Ends
<1>2. Present' \subseteq Present /\ \A u \in User : HeldBy(u)' \subseteq HeldBy(u)
  BY <1>1, Zenon DEF Ends, HeldBy
<1>3. WindowSlides'
  BY <1>1, Zenon DEF WindowSlides
<1>4. \A t \in Live : rows[t].expires \in Nat
  BY RowOf, Constants DEF TypeOK, Live
<1>5. Extends
  BY <1>1, <1>4 DEF Extends
<1> QED BY <1>2, <1>3, <1>5, FewerVerify, Zenon

LEMMA UnchangedEnds == ASSUME TypeOK, UNCHANGED rows PROVE Ends({})
BY Zenon DEF Ends, TypeOK, Present, Live

LEMMA EndedEnds ==
  ASSUME TypeOK, NEW S \in SUBSET Present, rows' = Ended(S)
  PROVE  Ends(S)
<1>1. rows \in [Token -> Row \cup {None}]
  BY Zenon DEF TypeOK
<1>2. \A t \in Token : rows'[t] = IF t \in S THEN [rows[t] EXCEPT !.revoked = TRUE] ELSE rows[t]
  BY Zenon DEF Ended
<1>3. \A t \in S : t \in Token /\ rows[t] \in Row /\ rows'[t] = [rows[t] EXCEPT !.revoked = TRUE]
  BY <1>1, <1>2, RowOf, Zenon
<1>4. \A t \in S : rows'[t] \in Row /\ rows'[t].revoked = TRUE
  BY <1>3, ZenonT(40) DEF Row
<1>5. \A t \in Token : t \notin S => rows'[t] = rows[t]
  BY <1>2, Zenon
<1>6. rows' \in [Token -> Row \cup {None}]
  BY <1>1, <1>2, <1>4, Zenon DEF Ended
<1>7. Present' = Present
  BY <1>1, <1>3, <1>4, <1>5, NoRow, Zenon DEF Present
<1>8. \A t \in Token : t \in Live' <=> t \in Live /\ t \notin S
  BY <1>4, <1>5, <1>7, Zenon DEF Live
<1>9. Live' = Live \ S
  BY <1>8, Zenon DEF Live, Present
<1> QED BY <1>5, <1>6, <1>7, <1>9, Zenon DEF Ends, Live, Present

-----------------------------------------------------------------------------
(* Renewal.                                                                *)

\* What a renewal does to the row: the window it leaves contains the one it
\* found, and starts at the latest use.
LEMMA RenewedRow ==
  ASSUME NEW e \in 1..MaxClock + TTL, NEW w \in 0..MaxClock, NEW now \in 0..MaxClock,
         w + TTL \div 2 < e, e <= w + TTL,
         NEW e2, e2 = IF e <= now + TTL \div 2 THEN now + TTL ELSE e,
         NEW w2, w2 = IF w > now THEN w ELSE now
  PROVE  /\ e2 \in 1..MaxClock + TTL /\ w2 \in 0..MaxClock
         /\ w2 + TTL \div 2 < e2 /\ e2 <= w2 + TTL /\ e <= e2
<1> DEFINE h == TTL \div 2
<1>1. h \in Nat /\ h < TTL /\ TTL \in Nat /\ MaxClock \in Nat
  BY Constants, Zenon
<1>2. h = TTL \div 2
  OBVIOUS
<1> HIDE DEF h
<1> QED BY <1>1, <1>2

LEMMA SlideKeeps ==
  ASSUME TypeOK, TableVerifies, WindowSlides, DisabledHoldNoSession,
         NEW t \in Live, NEW now \in 0..MaxClock, Slide(t, now), UNCHANGED <<active, issued>>
  PROVE  /\ rows' \in [Token -> Row \cup {None}] /\ Present' = Present
         /\ TableVerifies' /\ WindowSlides' /\ DisabledHoldNoSession' /\ Extends
<1> DEFINE e2 == IF rows[t].expires <= now + TTL \div 2 THEN now + TTL ELSE rows[t].expires
           w2 == IF rows[t].used > now THEN rows[t].used ELSE now
           row == [rows[t] EXCEPT !.expires = e2, !.used = w2]
<1>1. rows \in [Token -> Row \cup {None}] /\ t \in Present /\ ~rows[t].revoked
  BY Zenon DEF TypeOK, Live
<1>2. /\ t \in Token /\ rows[t] \in Row
      /\ rows[t].expires \in 1..MaxClock + TTL /\ rows[t].used \in 0..MaxClock
  BY <1>1, RowOf, Zenon
<1>3. rows[t].expires > rows[t].used + TTL \div 2 /\ rows[t].expires <= rows[t].used + TTL
  BY Zenon DEF WindowSlides
<1>4. rows' = [rows EXCEPT ![t] = row]
  BY <1>1, <1>2, Zenon DEF Slide, Due, Row
<1>5. /\ e2 \in 1..MaxClock + TTL /\ w2 \in 0..MaxClock
      /\ w2 + TTL \div 2 < e2 /\ e2 <= w2 + TTL /\ rows[t].expires <= e2
  <2> DEFINE e == rows[t].expires
             w == rows[t].used
  <2>1. e \in 1..MaxClock + TTL /\ w \in 0..MaxClock /\ w + TTL \div 2 < e /\ e <= w + TTL
    BY <1>2, <1>3, Constants, Zenon
  <2>2. e2 = (IF e <= now + TTL \div 2 THEN now + TTL ELSE e) /\ w2 = IF w > now THEN w ELSE now
    OBVIOUS
  <2> HIDE DEF e, w, e2, w2
  <2>3. /\ e2 \in 1..MaxClock + TTL /\ w2 \in 0..MaxClock
        /\ w2 + TTL \div 2 < e2 /\ e2 <= w2 + TTL /\ e <= e2
    BY <2>1, <2>2, RenewedRow
  <2> QED BY <2>3, Zenon DEF e
<1> HIDE DEF e2, w2
<1>6. /\ row \in Row /\ row.user = rows[t].user /\ ~row.revoked /\ row.expires = e2
      /\ row.used = w2
  BY <1>1, <1>2, <1>5, Zenon DEF Row
<1> HIDE DEF row
<1>7. /\ rows' \in [Token -> Row \cup {None}] /\ rows'[t] = row
      /\ \A x \in Token : x # t => rows'[x] = rows[x]
  BY <1>1, <1>2, <1>4, <1>6, Zenon
<1>8. Present' = Present
  BY <1>1, <1>2, <1>6, <1>7, NoRow, Zenon DEF Present
<1>9. Live' = Live
  BY <1>1, <1>6, <1>7, <1>8, Zenon DEF Live, Present
<1>10. \A x \in Live : x \in Token /\ rows'[x].user = rows[x].user
  BY <1>6, <1>7, Zenon DEF Live, Present
<1>11. TableVerifies'
  BY <1>8, <1>9, <1>10, FewerVerify, Zenon DEF HeldBy
<1>12. w2 + TTL \div 2 \in Nat /\ e2 \in Nat
  BY <1>5, Constants
<1>13. WindowSlides'
  <2> SUFFICES ASSUME NEW x \in Live'
               PROVE  /\ rows'[x].expires > rows'[x].used + TTL \div 2
                      /\ rows'[x].expires <= rows'[x].used + TTL
    BY Zenon DEF WindowSlides
  <2>1. CASE x = t
    BY <1>5, <1>6, <1>7, <1>12, <2>1, Zenon
  <2>2. CASE x # t
    BY <1>7, <1>9, <1>10, <2>2, Zenon DEF WindowSlides
  <2> QED BY <2>1, <2>2, Zenon
<1>14. DisabledHoldNoSession'
  BY <1>9, <1>10, Zenon DEF DisabledHoldNoSession
<1>15. Extends
  <2>1. \A x \in Live : rows[x].expires \in Nat
    BY <1>1, RowOf, Constants DEF Live
  <2>2. \A x \in Live : rows'[x].expires >= rows[x].expires
    BY <1>5, <1>6, <1>7, <1>10, <1>12, <2>1
  <2> QED BY <1>9, <2>2, Zenon DEF Extends
<1> QED BY <1>7, <1>8, <1>11, <1>13, <1>14, <1>15, Zenon

-----------------------------------------------------------------------------
(* Issuing.                                                                *)

\* What is left after the sweep of issue_session_for_user.
LEMMA SweptRows ==
  ASSUME TypeOK, NEW now \in 0..MaxClock
  PROVE  /\ Swept(now) \in [Token -> Row \cup {None}]
         /\ \A t \in Token : Swept(now)[t] # None =>
              t \in Live /\ Swept(now)[t] = rows[t] /\ rows[t].expires > now
<1>1. \A t \in Token : rows[t] \in Row \cup {None}
  BY Zenon DEF TypeOK
<1> QED BY <1>1, Zenon DEF Swept

\* One element more.
LEMMA OneMore ==
  ASSUME NEW S, IsFiniteSet(S), NEW x, NEW n \in Nat, Cardinality(S) < n
  PROVE  IsFiniteSet(S \cup {x}) /\ Cardinality(S \cup {x}) <= n
<1>1. /\ IsFiniteSet(S \cup {x})
      /\ Cardinality(S \cup {x}) = IF x \in S THEN Cardinality(S) ELSE Cardinality(S) + 1
  BY FS_AddElement, Zenon
<1>2. Cardinality(S) \in Nat /\ Cardinality(S \cup {x}) \in Nat
  BY <1>1, FS_CardinalityType, Zenon
<1> QED BY <1>1, <1>2

\* A session is added: to the limits, the sweep has left room for it; an issued
\* token is never issued again.
LEMMA IssuedKeeps ==
  ASSUME TypeOK, TableVerifies, WindowSlides, DisabledHoldNoSession,
         NEW u \in User, NEW now \in 0..MaxClock, NEW t \in Token \ issued,
         Room(Swept(now), u, now), UNCHANGED active, issued' = issued \cup {t},
         rows' = [Swept(now) EXCEPT ![t] =
                    [user |-> u, expires |-> now + TTL, revoked |-> FALSE, used |-> now]]
  PROVE  /\ rows' \in [Token -> Row \cup {None}] /\ Present' \subseteq issued'
         /\ TableVerifies' /\ WindowSlides' /\ DisabledHoldNoSession' /\ Extends
<1> DEFINE row == [user |-> u, expires |-> now + TTL, revoked |-> FALSE, used |-> now]
           left == {x \in Token : Swept(now)[x] # None}
           mine == {x \in Token : Swept(now)[x] # None /\ Swept(now)[x].user = u
                                    /\ Swept(now)[x].expires > now}
<1>1. /\ row \in Row /\ row.user = u /\ row.expires = now + TTL /\ row.used = now
      /\ row.revoked = FALSE
  BY Constants DEF Row
<1>2. /\ Swept(now) \in [Token -> Row \cup {None}]
      /\ \A x \in Token : Swept(now)[x] # None =>
           x \in Live /\ Swept(now)[x] = rows[x] /\ rows[x].expires > now
  BY SweptRows, Zenon
<1>3. Cardinality(left) < MaxSessions /\ u \in active /\ Cardinality(mine) < MaxPerUser
  BY Zenon DEF Room
<1>4. left \subseteq Token /\ mine \subseteq Token
  OBVIOUS
<1>5. /\ rows' = [Swept(now) EXCEPT ![t] = row]
      /\ \A x \in Token : x \in left => x \in Live /\ rows[x].expires > now
                                        /\ Swept(now)[x] = rows[x]
      /\ \A x \in Token : x \notin left => Swept(now)[x] = None
      /\ \A x \in Live : x \in left /\ rows[x].user = u => x \in mine
  <2>1. rows' = [Swept(now) EXCEPT ![t] = row]
    OBVIOUS
  <2>2. \A x \in Token : x \in left => x \in Live /\ rows[x].expires > now
                                       /\ Swept(now)[x] = rows[x]
    BY <1>2, Zenon DEF left
  <2>3. \A x \in Token : x \notin left => Swept(now)[x] = None
    BY Zenon DEF left
  <2>4. \A x \in Live : x \in left /\ rows[x].user = u => x \in mine
    BY <1>2, Zenon
  <2> HIDE DEF row, left, mine
  <2> QED BY <2>1, <2>2, <2>3, <2>4, Zenon
<1> HIDE DEF row, left, mine
<1>6. IsFiniteSet(left) /\ IsFiniteSet(mine)
  BY <1>4, Constants, FS_Subset, Zenon
<1>7. /\ rows' \in [Token -> Row \cup {None}] /\ rows'[t] = row
      /\ \A x \in Token : x # t => rows'[x] = Swept(now)[x]
  <2> DEFINE old == Swept(now)
  <2>1. old \in [Token -> Row \cup {None}] /\ rows' = [old EXCEPT ![t] = row] /\ t \in Token
    BY <1>2, <1>5, Zenon
  <2> HIDE DEF old
  <2>2. /\ [old EXCEPT ![t] = row] \in [Token -> Row \cup {None}]
        /\ [old EXCEPT ![t] = row][t] = row
        /\ \A x \in Token : x # t => [old EXCEPT ![t] = row][x] = old[x]
    BY <1>1, <2>1, Zenon
  <2>3. rows' \in [Token -> Row \cup {None}] /\ rows'[t] = row
    BY <2>1, <2>2, Zenon
  <2>4. \A x \in Token : x # t => rows'[x] = old[x]
    BY <2>1, <2>2, Zenon
  <2> QED BY <2>3, <2>4, Zenon DEF old
<1>8. t \notin Present /\ t \notin Live /\ Present \subseteq issued
  BY Zenon DEF TypeOK, Live
<1>9. Present' = left \cup {t}
  <2>1. \A x \in Token : x \in Present' <=> x \in left \cup {t}
    BY <1>1, <1>5, <1>7, <1>8, NoRow, ZenonT(40) DEF Present, Live
  <2> QED BY <1>4, <2>1, Zenon DEF Present
<1>10. \A x \in Live' : x \in Token /\ (x = t \/ (x \in Live /\ x \in left /\ rows'[x] = rows[x]))
  BY <1>4, <1>5, <1>7, <1>9, Zenon DEF Live
<1>11. Cardinality(Present') <= MaxSessions
  BY <1>3, <1>6, <1>9, Constants, OneMore, Zenon
<1>12. ASSUME NEW w \in User PROVE Cardinality(HeldBy(w)') <= MaxPerUser
  <2>1. CASE w = u
    <3>1. HeldBy(w)' \subseteq mine \cup {t}
      BY <1>5, <1>10, <2>1, Zenon DEF HeldBy
    <3>2. IsFiniteSet(mine \cup {t}) /\ Cardinality(mine \cup {t}) <= MaxPerUser
      BY <1>3, <1>6, Constants, OneMore, Zenon
    <3>3. /\ Cardinality(HeldBy(w)') <= Cardinality(mine \cup {t})
          /\ Cardinality(HeldBy(w)') \in Nat /\ Cardinality(mine \cup {t}) \in Nat
      BY <3>1, <3>2, FS_Subset, FS_CardinalityType, Zenon
    <3> QED BY <3>2, <3>3, Constants
  <2>2. CASE w # u
    <3>1. HeldBy(w)' \subseteq HeldBy(w)
      BY <1>1, <1>7, <1>10, <2>2, Zenon DEF HeldBy
    <3>2. HeldBy(w) \subseteq Token
      BY Zenon DEF HeldBy, Live, Present
    <3>3. /\ Cardinality(HeldBy(w)') <= Cardinality(HeldBy(w))
          /\ Cardinality(HeldBy(w)') \in Nat /\ Cardinality(HeldBy(w)) \in Nat
      BY <3>1, <3>2, Constants, FS_Subset, FS_CardinalityType, Zenon
    <3>4. Cardinality(HeldBy(w)) <= MaxPerUser
      BY Zenon DEF TableVerifies, HeldBy
    <3> QED BY <3>3, <3>4, Constants
  <2> QED BY <2>1, <2>2, Zenon
<1>13. TableVerifies'
  BY <1>11, <1>12, Zenon DEF TableVerifies, HeldBy
<1>14. now + TTL > now + TTL \div 2 /\ now + TTL <= now + TTL
  BY Constants
<1>15. WindowSlides'
  BY <1>1, <1>7, <1>10, <1>14, Zenon DEF WindowSlides
<1>16. DisabledHoldNoSession'
  BY <1>1, <1>3, <1>7, <1>10, Zenon DEF DisabledHoldNoSession
<1>17. \A x \in Live : rows[x].expires \in Nat
  BY RowOf, Constants DEF TypeOK, Live
<1>18. Extends
  BY <1>8, <1>10, <1>17 DEF Extends
<1>19. Present' \subseteq issued'
  BY <1>5, <1>8, <1>9, <1>4, Zenon DEF Live
<1> QED BY <1>7, <1>13, <1>15, <1>16, <1>18, <1>19, Zenon

-----------------------------------------------------------------------------
(* The steps.                                                              *)

\* A request that begins, ends or is lost leaves the requests typed.
LEMMA RequestTyped ==
  ASSUME req \in [Req -> Pending], NEW r \in Req, NEW state \in Pending,
         req' = [req EXCEPT ![r] = state]
  PROVE  req' \in [Req -> Pending]
OBVIOUS

LEMMA PendingNow ==
  ASSUME req \in [Req -> Pending]
  PROVE  /\ \A r \in Req : req[r] # Idle => req[r].now \in 0..MaxClock
         /\ \A r \in Req : req[r].op = "issue" => req[r] \in Issuing
         /\ \A r \in Req : req[r].op \in {"renew", "renewForVault"} => req[r] \in Renewing
<1>1. Idle.op = "idle"
  BY Zenon DEF Idle
<1> HIDE DEF Idle
<1> QED BY <1>1, Zenon DEF Pending, Issuing, Renewing

\* A step that only ends sessions keeps the invariant.
LEMMA EndingKeeps ==
  ASSUME Inv, NEW S, Ends(S), req' \in [Req -> Pending], UNCHANGED issued,
         clock' \in 0..MaxClock, active' \subseteq User, access' \subseteq User,
         \A t \in Live \ S : rows[t].user \in active'
  PROVE  Inv' /\ Extends
<1>1. TableVerifies' /\ WindowSlides' /\ Extends
  BY EndsKeeps, Zenon DEF Inv
<1>2. DisabledHoldNoSession'
  BY Zenon DEF DisabledHoldNoSession, Ends
<1>3. rows' \in [Token -> Row \cup {None}] /\ Present' \subseteq issued'
  BY Zenon DEF Ends, Inv, TypeOK
<1>4. \A r \in Req : req'[r] # Idle => req'[r].now \in 0..MaxClock
  <2> DEFINE q == req'
  <2>1. q \in [Req -> Pending]
    OBVIOUS
  <2> HIDE DEF q
  <2>2. \A r \in Req : q[r] # Idle => q[r].now \in 0..MaxClock
    BY <2>1, Zenon DEF Pending, Issuing, Renewing
  <2> QED BY <2>2, Zenon DEF q
<1> QED BY <1>1, <1>2, <1>3, <1>4, Zenon DEF Inv, TypeOK

\* The parts of the invariant that do not mention the requests are kept by what
\* a request does to the rows.
LEMMA DoneKeeps ==
  ASSUME Inv, NEW r \in Req, Done(r), rows' \in [Token -> Row \cup {None}],
         Present' \subseteq issued', TableVerifies', WindowSlides', DisabledHoldNoSession'
  PROVE  Inv'
<1>1. Idle \in Pending
  BY Zenon DEF Pending
<1>2. req' = [req EXCEPT ![r] = Idle] /\ UNCHANGED <<clock, active, access>>
  BY Zenon DEF Done
<1> HIDE DEF Idle
<1>3. req' \in [Req -> Pending]
  BY <1>1, <1>2, Zenon DEF Inv
<1>4. \A q \in Req : req'[q] # Idle => req'[q].now \in 0..MaxClock
  BY <1>2, Zenon DEF Inv, TypeOK
<1> QED BY <1>2, <1>3, <1>4, Zenon DEF Inv, TypeOK

LEMMA IssueKeeps == ASSUME Inv, NEW r \in Req, Issue(r) PROVE Inv' /\ Extends
<1> DEFINE u == req[r].x
           now == req[r].now
<1>1. req[r].op = "issue" /\ Done(r)
  BY Zenon DEF Issue
<1>2. u \in User /\ now \in 0..MaxClock
  BY <1>1, PendingNow, Zenon DEF Inv, Issuing
<1>3. \/ UNCHANGED <<rows, issued>>
      \/ /\ Room(Swept(now), u, now)
         /\ \E t \in Token \ issued :
              /\ rows' = [Swept(now) EXCEPT ![t] =
                   [user |-> u, expires |-> now + TTL, revoked |-> FALSE, used |-> now]]
              /\ issued' = issued \cup {t}
  BY Zenon DEF Issue
<1>4. UNCHANGED <<clock, active, access>>
  BY <1>1, Zenon DEF Done
<1> HIDE DEF u, now
<1>5. CASE UNCHANGED <<rows, issued>>
  <2>1. Ends({})
    BY <1>5, UnchangedEnds, Zenon DEF Inv
  <2>2. TableVerifies' /\ WindowSlides' /\ Extends
    BY <2>1, EndsKeeps, Zenon DEF Inv
  <2>3. /\ rows' \in [Token -> Row \cup {None}] /\ Present' \subseteq issued'
        /\ DisabledHoldNoSession'
    BY <1>4, <1>5, <2>1, Zenon DEF Ends, Inv, TypeOK, DisabledHoldNoSession
  <2> QED BY <1>1, <2>2, <2>3, DoneKeeps, Zenon
<1>6. CASE Room(Swept(now), u, now) /\ ~UNCHANGED <<rows, issued>>
  <2>1. PICK t \in Token \ issued :
          /\ rows' = [Swept(now) EXCEPT ![t] =
               [user |-> u, expires |-> now + TTL, revoked |-> FALSE, used |-> now]]
          /\ issued' = issued \cup {t}
    BY <1>3, <1>6, Zenon
  <2>2. /\ rows' \in [Token -> Row \cup {None}] /\ Present' \subseteq issued'
        /\ TableVerifies' /\ WindowSlides' /\ DisabledHoldNoSession' /\ Extends
    BY <1>2, <1>4, <1>6, <2>1, IssuedKeeps, Zenon DEF Inv
  <2> QED BY <1>1, <2>2, DoneKeeps, Zenon
<1> QED BY <1>3, <1>5, <1>6, Zenon

LEMMA RenewalKeeps ==
  ASSUME Inv, NEW r \in Req, Renew(r) \/ RenewForVault(r)
  PROVE  Inv' /\ Extends
<1> DEFINE t == req[r].x
           now == req[r].now
<1>1. req[r].op \in {"renew", "renewForVault"} /\ Done(r) /\ UNCHANGED issued
  BY Zenon DEF Renew, RenewForVault
<1>2. t \in Token /\ now \in 0..MaxClock
  BY <1>1, PendingNow, Zenon DEF Inv, Renewing
<1>3. UNCHANGED rows \/ (t \in Live /\ Slide(t, now))
  BY Zenon DEF Renew, RenewForVault, Valid, ValidForVault
<1>4. UNCHANGED <<clock, active, access>>
  BY <1>1, Zenon DEF Done
<1> HIDE DEF t, now
<1>5. CASE UNCHANGED rows
  <2>1. Ends({})
    BY <1>5, UnchangedEnds, Zenon DEF Inv
  <2>2. TableVerifies' /\ WindowSlides' /\ Extends
    BY <2>1, EndsKeeps, Zenon DEF Inv
  <2>3. /\ rows' \in [Token -> Row \cup {None}] /\ Present' \subseteq issued'
        /\ DisabledHoldNoSession'
    BY <1>1, <1>4, <1>5, <2>1, Zenon DEF Ends, Inv, TypeOK, DisabledHoldNoSession
  <2> QED BY <1>1, <2>2, <2>3, DoneKeeps, Zenon
<1>6. CASE t \in Live /\ Slide(t, now)
  <2>1. /\ rows' \in [Token -> Row \cup {None}] /\ Present' = Present
        /\ TableVerifies' /\ WindowSlides' /\ DisabledHoldNoSession' /\ Extends
    BY <1>1, <1>2, <1>4, <1>6, SlideKeeps, Zenon DEF Inv
  <2>2. Present' \subseteq issued'
    BY <1>1, <2>1, Zenon DEF Inv, TypeOK
  <2> QED BY <1>1, <2>1, <2>2, DoneKeeps, Zenon
<1> QED BY <1>3, <1>5, <1>6, Zenon

\* The steps that leave the rows alone, or end sessions.
LEMMA QuietKeeps ==
  ASSUME Inv,
         \/ \E c \in 0..MaxClock : SetClock(c)
         \/ \E u \in User : SetAccess(u) \/ Activate(u)
         \/ \E r \in Req : \/ \E u \in User : Begin(r, "issue", u)
                           \/ \E t \in Present : Begin(r, "renew", t) \/ Begin(r, "renewForVault", t)
         \/ UNCHANGED vars
  PROVE  Inv' /\ Extends
<1>1. UNCHANGED <<rows, issued>>
  BY Zenon DEF SetClock, SetAccess, Activate, Offline, Begin, vars
<1>2. Ends({})
  BY <1>1, UnchangedEnds, Zenon DEF Inv
<1>3. clock' \in 0..MaxClock /\ access' \subseteq User
  BY Zenon DEF SetClock, SetAccess, Activate, Offline, Begin, vars, Inv, TypeOK
<1>4. active' \subseteq User /\ active \subseteq active'
  BY Zenon DEF SetClock, SetAccess, Activate, Offline, Begin, vars, Inv, TypeOK
<1>5. req' \in [Req -> Pending]
  <2>1. req \in [Req -> Pending] /\ clock \in 0..MaxClock
    BY Zenon DEF Inv, TypeOK
  <2>2. CASE req' = req
    BY <2>1, <2>2, Zenon
  <2>3. CASE req' = [r \in Req |-> Idle]
    BY <2>3, Zenon DEF Pending
  <2>4. ASSUME NEW r \in Req, NEW u \in User, Begin(r, "issue", u) PROVE req' \in [Req -> Pending]
    <3>1. [op |-> "issue", x |-> u, now |-> clock] \in Pending
      BY <2>1, Zenon DEF Pending, Issuing
    <3> QED BY <2>1, <2>4, <3>1, RequestTyped, Zenon DEF Begin
  <2>5. ASSUME NEW r \in Req, NEW t \in Present, NEW op \in {"renew", "renewForVault"},
               Begin(r, op, t)
        PROVE  req' \in [Req -> Pending]
    <3>1. [op |-> op, x |-> t, now |-> clock] \in Pending
      BY <2>1, Zenon DEF Pending, Renewing, Present
    <3> QED BY <2>1, <2>5, <3>1, RequestTyped, Zenon DEF Begin
  <2>6. CASE \E c \in 0..MaxClock : SetClock(c)
    BY <2>2, <2>6, Zenon DEF SetClock
  <2>7. CASE \E u \in User : SetAccess(u) \/ Activate(u)
    BY <2>2, <2>3, <2>7, Zenon DEF SetAccess, Activate, Offline
  <2>8. CASE UNCHANGED vars
    BY <2>2, <2>8, Zenon DEF vars
  <2> QED BY <2>4, <2>5, <2>6, <2>7, <2>8, Zenon
<1>6. \A t \in Live \ {} : rows[t].user \in active'
  BY <1>4, Zenon DEF Inv, DisabledHoldNoSession
<1> QED BY <1>1, <1>2, <1>3, <1>4, <1>5, <1>6, EndingKeeps, Zenon

LEMMA RevocationKeeps ==
  ASSUME Inv, RevokeAll \/ \E t \in Token : Revoke(t)
  PROVE  Inv' /\ Extends
<1>1. PICK S \in SUBSET Present : rows' = Ended(S)
  BY Zenon DEF RevokeAll, Revoke, Live
<1>2. UNCHANGED <<clock, active, access, req, issued>>
  BY Zenon DEF RevokeAll, Revoke
<1>3. Ends(S)
  BY <1>1, EndedEnds, Zenon DEF Inv
<1>4. \A t \in Live \ S : rows[t].user \in active'
  BY <1>2, Zenon DEF Inv, DisabledHoldNoSession
<1>5. /\ req' \in [Req -> Pending] /\ clock' \in 0..MaxClock /\ active' \subseteq User
      /\ access' \subseteq User
  BY <1>2, Zenon DEF Inv, TypeOK
<1> QED BY <1>2, <1>3, <1>4, <1>5, EndingKeeps, Zenon

LEMMA DisableKeeps == ASSUME Inv, NEW u \in User, Disable(u) PROVE Inv' /\ Extends
<1> DEFINE S == {t \in Live : rows[t].user = u}
<1>1. /\ rows' = Ended(S) /\ active' = active \ {u} /\ UNCHANGED <<clock, access, issued>>
      /\ req' = [r \in Req |-> Idle]
  BY Zenon DEF Disable, Offline
<1>2. S \in SUBSET Present /\ \A t \in Live \ S : t \in Live /\ rows[t].user # u
  BY Zenon DEF Live
<1> HIDE DEF S
<1>3. Ends(S)
  BY <1>1, <1>2, EndedEnds, Zenon DEF Inv
<1>4. \A t \in Live \ S : rows[t].user \in active'
  BY <1>1, <1>2, Zenon DEF Inv, DisabledHoldNoSession
<1>5. req' \in [Req -> Pending]
  BY <1>1, Zenon DEF Pending
<1>6. clock' \in 0..MaxClock /\ active' \subseteq User /\ access' \subseteq User
  BY <1>1, Zenon DEF Inv, TypeOK
<1> QED BY <1>1, <1>3, <1>4, <1>5, <1>6, EndingKeeps, Zenon

-----------------------------------------------------------------------------
(* The theorems.                                                           *)

LEMMA InitInv == Init => Inv
<1> SUFFICES ASSUME Init PROVE Inv
  OBVIOUS
<1>1. rows \in [Token -> Row \cup {None}] /\ Present = {} /\ Live = {}
  BY Zenon DEF Init, Present, Live
<1>2. clock \in 0..MaxClock /\ active \subseteq User /\ access \subseteq User
  BY Constants DEF Init
<1>3. req \in [Req -> Pending] /\ \A r \in Req : req[r] = Idle
  BY Zenon DEF Init, Pending
<1>4. Cardinality({}) = 0
  BY FS_EmptySet, Zenon
<1>5. \A u \in User : {t \in Live : rows[t].user = u} = {}
  BY <1>1, Zenon
<1>6. TableVerifies
  BY <1>1, <1>4, <1>5, Constants DEF TableVerifies
<1> HIDE DEF Idle
<1> QED BY <1>1, <1>2, <1>3, <1>6, Zenon DEF Inv, TypeOK, WindowSlides, DisabledHoldNoSession

LEMMA NextInv == ASSUME Inv, [Next]_vars PROVE Inv' /\ Extends
<1>1. CASE \E r \in Req : Issue(r) \/ Renew(r) \/ RenewForVault(r)
  BY <1>1, IssueKeeps, RenewalKeeps, Zenon
<1>2. CASE RevokeAll \/ \E t \in Token : Revoke(t)
  BY <1>2, RevocationKeeps, Zenon
<1>3. CASE \E u \in User : Disable(u)
  BY <1>3, DisableKeeps, Zenon
<1>4. CASE \/ \E c \in 0..MaxClock : SetClock(c)
           \/ \E u \in User : SetAccess(u) \/ Activate(u)
           \/ \E r \in Req : \/ \E u \in User : Begin(r, "issue", u)
                             \/ \E t \in Present : Begin(r, "renew", t) \/ Begin(r, "renewForVault", t)
           \/ UNCHANGED vars
  BY <1>4, QuietKeeps, Zenon
<1> QED BY <1>1, <1>2, <1>3, <1>4, Zenon DEF Next

LEMMA Safe == Spec => []Inv
<1>1. Inv /\ [Next]_vars => Inv'
  BY NextInv, Zenon
<1> QED BY <1>1, InitInv, PTL DEF Spec

\* The rows and the requests have their types, and every session in the table
\* has a token that was issued.
THEOREM TypeCorrect == Spec => []TypeOK
BY Safe, PTL DEF Inv

\* MAX_SESSIONS and MAX_SESSIONS_PER_USER hold of the table whatever the clock
\* says when verification runs, although every request decides with a reading
\* that may be old, or later than the next one.
THEOREM SessionsAlwaysVerify == Spec => []TableVerifies
BY Safe, PTL DEF Inv

\* A session lasts more than half a window and at most a window after the
\* latest use that renews, in whatever order requests get the mutex.
THEOREM WindowAlwaysSlides == Spec => []WindowSlides
BY Safe, PTL DEF Inv

\* Disabling a user leaves no session for the day the account is active again,
\* and none is issued to a disabled user by a sign-in that was under way.
THEOREM DisabledAreOut == Spec => []DisabledHoldNoSession
BY Safe, PTL DEF Inv

\* No request takes time away from a session, and a session that was revoked or
\* swept is never valid again.
THEOREM SessionsOnlyExtend == Spec => OnlyExtends
<1>1. Inv /\ [Next]_vars => Extends
  BY NextInv, Zenon
<1>2. Inv /\ [Next]_vars =>
        [\A t \in Token :
           /\ t \in Live /\ t \in Live' => rows'[t].expires >= rows[t].expires
           /\ t \in issued \ Live => t \notin Live']_vars
  BY <1>1, Zenon DEF Extends
<1> QED BY <1>2, Safe, PTL DEF Spec, OnlyExtends
=============================================================================
