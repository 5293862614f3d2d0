----------------------------- MODULE ScanProofs -----------------------------
(* Proofs about Scan and ScanDirected, for any targets, any answers of the  *)
(* bus and any number of registry calls of other goroutines.                *)
EXTENDS ScanProps, RegistryFaceProofs

-----------------------------------------------------------------------------
\* Lists of targets

\* dedupeScanTargets keeps every target once (scan.go:460-474).
LEMMA DedupeLists ==
  ASSUME NEW A, NEW targets \in Seq(A)
  PROVE  LET q == DedupeScanTargets(targets)
         IN  /\ q \in Seq(A)
             /\ Distinct(q)
             /\ Elements(q) = Elements(targets)
<1> DEFINE F == FirstOccurrences(targets)
           firsts == InOrder(F)
           n == Cardinality(F)
           q == DedupeScanTargets(targets)
<1>1. DOMAIN targets = 1 .. Len(targets) /\ Len(targets) \in Nat
  OBVIOUS
<1>2. F \subseteq 1 .. Len(targets)
  BY <1>1 DEF FirstOccurrences
<1>3. IsFiniteSet(1 .. Len(targets))
  BY <1>1, FS_Interval
<1>4. IsFiniteSet(F) /\ F \subseteq Int
  BY <1>2, <1>3, FS_Subset
<1>5. ASSUME NEW i \in F, NEW j \in F, targets[i] = targets[j]
      PROVE  i = j
  <2>1. i \in 1 .. Len(targets) /\ j \in 1 .. Len(targets)
    BY <1>2
  <2>2. ~ (i < j) /\ ~ (j < i)
    BY <1>1, <1>5, <2>1 DEF FirstOccurrences
  <2>3. QED BY <2>1, <2>2
<1>6. ASSUME NEW i \in 1 .. Len(targets)
      PROVE  \E j \in F : targets[j] = targets[i]
  <2> DEFINE I == {j \in 1 .. Len(targets) : targets[j] = targets[i]}
             order == InOrder(I)
  <2>1. I \subseteq Int /\ IsFiniteSet(I)
    BY <1>3, FS_Subset
  <2>2. /\ order \in [1 .. Cardinality(I) -> I]
        /\ Cardinality(I) \in Nat
        /\ \A k \in DOMAIN order : Cardinality(Below(I, order[k])) = k - 1
        /\ Elements(order) = I
    BY <2>1, InOrderLists
  <2>3. i \in I
    OBVIOUS
  <2> HIDE DEF order
  <2>4. 1 \in DOMAIN order
    BY <2>2, <2>3 DEF Elements
  <2> DEFINE j == order[1]
  <2>5. j \in I /\ Cardinality(Below(I, j)) = 0
    BY <2>2, <2>4
  <2> HIDE DEF j
  <2>6. Below(I, j) \subseteq I
    BY DEF Below
  <2>7. Below(I, j) = {}
    BY <2>1, <2>5, <2>6, FS_Subset, FS_EmptySet
  <2>8. j \in 1 .. Len(targets) /\ targets[j] = targets[i]
    BY <2>5
  <2>9. ASSUME NEW k \in 1 .. j - 1
        PROVE  targets[k] # targets[j]
    <3>1. k \in 1 .. Len(targets) /\ k < j
      BY <1>1, <2>8
    <3>2. k \notin I
      BY <2>7, <3>1 DEF Below
    <3>3. QED BY <2>8, <3>1, <3>2
  <2>10. j \in F
    BY <1>1, <2>8, <2>9 DEF FirstOccurrences
  <2>11. QED BY <2>8, <2>10
<1>7. q = [k \in DOMAIN firsts |-> targets[firsts[k]]]
  BY DEF DedupeScanTargets
<1>8. /\ firsts \in [1 .. n -> F] /\ n \in Nat
      /\ Distinct(firsts) /\ Elements(firsts) = F
  BY <1>4, InOrderLists
<1> HIDE DEF firsts, q, F, n
<1>9. q \in [1 .. n -> A]
  <2>1. \A i \in F : targets[i] \in A
    BY <1>1, <1>2
  <2>2. \A k \in 1 .. n : firsts[k] \in F
    BY <1>8
  <2>3. DOMAIN firsts = 1 .. n
    BY <1>8
  <2>4. QED BY <1>7, <2>1, <2>2, <2>3
<1>10. q \in Seq(A)
  BY <1>8, <1>9
<1>11. Distinct(q)
  BY <1>5, <1>7, <1>8 DEF Distinct
<1>12. Elements(q) = Elements(targets)
  <2>1. ASSUME NEW x \in Elements(q)
        PROVE  x \in Elements(targets)
    BY <1>1, <1>2, <1>7, <1>8 DEF Elements
  <2>2. ASSUME NEW x \in Elements(targets)
        PROVE  x \in Elements(q)
    <3>1. PICK j \in F : targets[j] = x
      BY <1>1, <1>6 DEF Elements
    <3>2. PICK k \in DOMAIN firsts : firsts[k] = j
      BY <1>8 DEF Elements
    <3>3. QED BY <1>7, <3>1, <3>2 DEF Elements
  <2>3. QED BY <2>1, <2>2
<1>13. QED BY <1>10, <1>11, <1>12 DEF q

\* DefaultScanTargets names addresses only (scan.go:277-284).
LEMMA DefaultTargetsType == DefaultScanTargets \in Seq(Address)
<1> DEFINE S == Address \intersect 1 .. 253
<1>1. IsFiniteSet(1 .. 253)
  <2>1. 1 \in Int /\ 253 \in Int
    OBVIOUS
  <2>2. QED BY <2>1, FS_Interval
<1>2. S \subseteq Int /\ IsFiniteSet(S)
  BY <1>1, FS_Subset
<1>3. /\ DefaultScanTargets \in [1 .. Cardinality(S) -> S]
      /\ Cardinality(S) \in Nat
  BY <1>2, InOrderLists DEF DefaultScanTargets
<1> DEFINE n == Cardinality(S)
<1>4. DefaultScanTargets \in [1 .. n -> Address] /\ n \in Nat
  BY <1>3
<1> HIDE DEF n
<1>5. QED BY <1>4

\* A target is taken from the front of the list, or put at its end
\* (scan.go:104, 127, 131).
LEMMA ListElements ==
  ASSUME NEW A, NEW q \in Seq(A)
  PROVE  /\ Elements(q) \subseteq A
         /\ \A x \in A : /\ Append(q, x) \in Seq(A)
                         /\ Elements(Append(q, x)) = Elements(q) \union {x}
         /\ q # <<>> => /\ Head(q) \in A /\ Tail(q) \in Seq(A)
                        /\ Elements(q) = Elements(Tail(q)) \union {Head(q)}
                        /\ Distinct(q) => Distinct(Tail(q)) /\ Head(q) \notin Elements(Tail(q))
         /\ q = <<>> => Elements(q) = {}
<1>1. DOMAIN q = 1 .. Len(q) /\ Len(q) \in Nat
  OBVIOUS
<1>2. Elements(q) \subseteq A
  BY <1>1 DEF Elements
<1>3. ASSUME NEW x \in A
      PROVE  /\ Append(q, x) \in Seq(A)
             /\ Elements(Append(q, x)) = Elements(q) \union {x}
  <2> DEFINE r == Append(q, x)
  <2>1. /\ r \in Seq(A) /\ DOMAIN r = 1 .. Len(q) + 1
        /\ \A i \in 1 .. Len(q) : r[i] = q[i]
        /\ r[Len(q) + 1] = x
    BY <1>1
  <2> HIDE DEF r
  <2>2. Elements(r) = Elements(q) \union {x}
    BY <1>1, <2>1 DEF Elements
  <2>3. QED BY <2>1, <2>2 DEF r
<1>4. ASSUME q # <<>>
      PROVE  /\ Head(q) \in A /\ Tail(q) \in Seq(A)
             /\ Elements(q) = Elements(Tail(q)) \union {Head(q)}
             /\ Distinct(q) => Distinct(Tail(q)) /\ Head(q) \notin Elements(Tail(q))
  <2> DEFINE r == Tail(q)
             n == Len(q)
  <2>1. /\ r \in Seq(A) /\ n >= 1 /\ DOMAIN r = 1 .. n - 1
        /\ \A i \in 1 .. n - 1 : r[i] = q[i + 1]
        /\ Head(q) = q[1] /\ Head(q) \in A
    BY <1>1, <1>4
  <2>2. n \in Nat /\ DOMAIN q = 1 .. n
    BY <1>1
  <2> HIDE DEF r, n
  <2>3. ASSUME NEW x \in Elements(q)
        PROVE  x \in Elements(r) \union {Head(q)}
    <3>1. PICK i \in 1 .. n : x = q[i]
      BY <2>2 DEF Elements
    <3>2. i = 1 \/ (i - 1 \in 1 .. n - 1 /\ r[i - 1] = q[i])
      BY <2>1, <2>2
    <3>3. QED BY <2>1, <3>1, <3>2 DEF Elements
  <2>4. ASSUME NEW x \in Elements(r) \union {Head(q)}
        PROVE  x \in Elements(q)
    <3>1. CASE x = Head(q)
      <4>1. 1 \in DOMAIN q /\ x = q[1]
        BY <2>1, <2>2, <3>1
      <4>2. QED BY <4>1 DEF Elements
    <3>2. CASE x \in Elements(r)
      <4>1. PICK i \in 1 .. n - 1 : x = r[i]
        BY <2>1, <3>2 DEF Elements
      <4>2. i + 1 \in DOMAIN q
        BY <2>1, <2>2
      <4>3. x = q[i + 1]
        BY <2>1, <4>1
      <4>4. QED BY <4>2, <4>3 DEF Elements
    <3>3. QED BY <2>4, <3>1, <3>2
  <2>5. ASSUME Distinct(q)
        PROVE  Distinct(r) /\ Head(q) \notin Elements(r)
    <3>1. Distinct(r)
      <4> SUFFICES ASSUME NEW i \in 1 .. n - 1, NEW j \in 1 .. n - 1, r[i] = r[j]
                   PROVE  i = j
        BY <2>1 DEF Distinct
      <4>1. i + 1 \in DOMAIN q /\ j + 1 \in DOMAIN q /\ q[i + 1] = q[j + 1]
        BY <2>1, <2>2
      <4>2. i + 1 = j + 1
        BY <2>5, <4>1 DEF Distinct
      <4>3. QED BY <4>2
    <3>2. ASSUME NEW i \in 1 .. n - 1, r[i] = Head(q)
          PROVE  FALSE
      <4>1. i + 1 \in DOMAIN q /\ 1 \in DOMAIN q /\ q[i + 1] = q[1]
        BY <2>1, <2>2, <3>2
      <4>2. i + 1 = 1
        BY <2>5, <4>1 DEF Distinct
      <4>3. QED BY <4>2
    <3>3. QED BY <2>1, <3>1, <3>2 DEF Elements
  <2>6. QED BY <2>1, <2>3, <2>4, <2>5 DEF r
<1>5. q = <<>> => Elements(q) = {}
  BY DEF Elements
<1>6. QED BY <1>2, <1>3, <1>4, <1>5

\* Two lists are joined (scan.go:226).
LEMMA JoinedElements ==
  ASSUME NEW A, NEW q \in Seq(A), NEW r \in Seq(A)
  PROVE  q \o r \in Seq(A) /\ Elements(q \o r) = Elements(q) \union Elements(r)
<1> DEFINE c == q \o r
           m == Len(q)
           n == Len(r)
<1>1. /\ c \in Seq(A) /\ m \in Nat /\ n \in Nat
      /\ DOMAIN c = 1 .. m + n /\ DOMAIN q = 1 .. m /\ DOMAIN r = 1 .. n
      /\ \A i \in 1 .. m : c[i] = q[i]
      /\ \A i \in 1 .. n : c[m + i] = r[i]
  OBVIOUS
<1>2. \A i \in 1 .. m + n : i \in 1 .. m \/ (i - m \in 1 .. n /\ c[i] = r[i - m])
  BY <1>1
<1> HIDE DEF c, m, n
<1>3. ASSUME NEW x \in Elements(c)
      PROVE  x \in Elements(q) \union Elements(r)
  BY <1>1, <1>2 DEF Elements
<1>4. ASSUME NEW x \in Elements(q) \union Elements(r)
      PROVE  x \in Elements(c)
  <2>1. CASE x \in Elements(q)
    BY <1>1, <2>1 DEF Elements
  <2>2. CASE x \in Elements(r)
    <3>1. PICK i \in 1 .. n : x = r[i]
      BY <1>1, <2>2 DEF Elements
    <3>2. m + i \in DOMAIN c /\ c[m + i] = x
      BY <1>1, <3>1
    <3>3. QED BY <3>2 DEF Elements
  <2>3. QED BY <1>4, <2>1, <2>2
<1>5. QED BY <1>1, <1>3, <1>4 DEF c

-----------------------------------------------------------------------------
\* Passes over the targets

Active  == {"probe", "serial", "register", "alias", "join", "reload", "confirm",
            "lookup", "collect"}
Ending  == {"display", "resolve", "keep", "done"}
Resting == {"idle", "failed"}

Decided == {"ineligible", "answered", "absent"}

\* The targets the next pass asks again.
Waiting(s) == Elements(s.collisions) \union Elements(s.retries)

Lists(s) ==
  /\ DOMAIN s = DOMAIN Idle
  /\ s.pass \in 0 .. scanCollisionMaxPasses
  /\ s.pending \in Seq(Address) /\ s.collisions \in Seq(Address) /\ s.retries \in Seq(Address)
  /\ Distinct(s.pending)
  /\ s.requested \subseteq Address
  /\ s.asked \in [Address -> Nat]
  /\ DOMAIN s.outcome = Address

\* A requested target is to be asked in this pass, waits for the next one after
\* it was asked in this and every earlier one, or is decided.
Deferring(s) ==
  /\ Lists(s)
  /\ \A t \in s.requested :
        /\ t \in Elements(s.pending) => t \notin Waiting(s) /\ s.asked[t] = s.pass
        /\ t \in Waiting(s) => s.outcome[t] = "deferred" /\ s.asked[t] = s.pass + 1
        /\ t \notin Elements(s.pending) \union Waiting(s) => s.outcome[t] \in Decided

Exhausted(s) ==
  \A t \in s.requested :
     \/ s.outcome[t] \in Decided
     \/ s.outcome[t] = "deferred" /\ s.asked[t] = scanCollisionMaxPasses + 1

DeferralInv(s) ==
  /\ DOMAIN s = DOMAIN Idle
  /\ s.pc \in Active \union Ending \union Resting
  /\ s.pc \in Active => Deferring(s)
  /\ s.pc \in Ending => Exhausted(s)

\* A step that is not about the passes.
SameBook(s, t) ==
  /\ DOMAIN t = DOMAIN s
  /\ t.pass = s.pass /\ t.pending = s.pending
  /\ t.collisions = s.collisions /\ t.retries = s.retries
  /\ t.requested = s.requested /\ t.asked = s.asked /\ t.outcome = s.outcome

\* Serial chunks, registry calls and the result (scan.go:133-217, 256-275).
LEMMA SameBookKeeps ==
  ASSUME NEW s, DeferralInv(s), NEW t, SameBook(s, t),
         \/ s.pc \in Active /\ t.pc \in Active
         \/ s.pc \in Ending /\ t.pc \in Ending
  PROVE  DeferralInv(t)
<1>1. Deferring(s) => Deferring(t)
  BY DEF SameBook, Deferring, Lists, Waiting
<1>2. Exhausted(s) => Exhausted(t)
  BY DEF SameBook, Exhausted
<1>3. QED
  BY <1>1, <1>2 DEF DeferralInv, SameBook, Active, Ending, Resting

\* Every requested target is to be asked in the first pass (scan.go:72-98).
LEMMA StartedDefers ==
  ASSUME NEW s, DOMAIN s = DOMAIN Idle, NEW targets \in Seq(Address),
         s.pass = 0, s.collisions = <<>>, s.retries = <<>>,
         s.asked = [a \in Address |-> 0], DOMAIN s.outcome = Address
  PROVE  DeferralInv(Started(s, targets))
<1> DEFINE t == Started(s, targets)
           q == DedupeScanTargets(targets)
<1>1. q \in Seq(Address) /\ Distinct(q) /\ Elements(q) = Elements(targets)
  BY DedupeLists
<1> HIDE DEF q
<1>2. /\ DOMAIN t = DOMAIN Idle /\ t.pc = "probe" /\ t.pass = 0
      /\ t.pending = q /\ t.collisions = <<>> /\ t.retries = <<>>
      /\ t.requested = Elements(targets)
      /\ t.asked = [a \in Address |-> 0] /\ t.outcome = s.outcome
  BY DEF Started, Goto, Idle, Elements, q
<1> HIDE DEF t
<1>3. Elements(targets) \subseteq Address /\ Waiting(t) = {} /\ <<>> \in Seq(Address)
  BY <1>2, ListElements DEF Waiting, Elements
<1>4. Lists(t)
  BY <1>1, <1>2, <1>3 DEF Lists, scanCollisionMaxPasses
<1>5. Deferring(t)
  BY <1>1, <1>2, <1>3, <1>4 DEF Deferring
<1>6. QED BY <1>2, <1>5 DEF DeferralInv, Active, Ending, t

\* The head of the pending targets is taken off and its outcome recorded.
ProbeStep(s, t, h, outcome, n) ==
  /\ DOMAIN t = DOMAIN Idle /\ t.pc \in Active
  /\ t.pass = s.pass /\ t.requested = s.requested /\ t.pending = Tail(s.pending)
  /\ t.outcome = [s.outcome EXCEPT ![h] = outcome]
  /\ t.collisions \in Seq(Address) /\ t.retries \in Seq(Address)
  /\ n \in Nat /\ t.asked = [s.asked EXCEPT ![h] = n]
  /\ \/ /\ outcome = "deferred"
        /\ n = s.asked[h] + 1
        /\ Waiting(t) = Waiting(s) \union {h}
     \/ /\ outcome \in Decided
        /\ Waiting(t) = Waiting(s)

\* A target was asked, or passed over: it waits for the next pass or is decided
\* (scan.go:104-142).
LEMMA ProbedDefers ==
  ASSUME NEW s, Deferring(s), s.pending # <<>>, NEW h, h = Head(s.pending),
         NEW t, NEW outcome, NEW n, ProbeStep(s, t, h, outcome, n)
  PROVE  DeferralInv(t)
<1>0. /\ DOMAIN t = DOMAIN Idle /\ t.pc \in Active
      /\ t.pass = s.pass /\ t.requested = s.requested /\ t.pending = Tail(s.pending)
      /\ t.outcome = [s.outcome EXCEPT ![h] = outcome]
      /\ t.collisions \in Seq(Address) /\ t.retries \in Seq(Address)
      /\ n \in Nat /\ t.asked = [s.asked EXCEPT ![h] = n]
      /\ \/ outcome = "deferred" /\ n = s.asked[h] + 1 /\ Waiting(t) = Waiting(s) \union {h}
         \/ outcome \in Decided /\ Waiting(t) = Waiting(s)
  BY DEF ProbeStep
<1>1. /\ h \in Address /\ Tail(s.pending) \in Seq(Address)
      /\ Elements(s.pending) = Elements(t.pending) \union {h}
      /\ Distinct(t.pending) /\ h \notin Elements(t.pending)
  BY <1>0, ListElements DEF Deferring, Lists
<1>2. t.asked \in [Address -> Nat] /\ DOMAIN t.outcome = Address
  BY <1>0, <1>1 DEF Deferring, Lists
<1>3. Lists(t)
  BY <1>0, <1>1, <1>2 DEF Deferring, Lists
<1>4. /\ t.outcome[h] = outcome
      /\ \A x \in Address \ {h} : t.outcome[x] = s.outcome[x] /\ t.asked[x] = s.asked[x]
      /\ outcome = "deferred" => t.asked[h] = s.asked[h] + 1
  BY <1>0, <1>1 DEF Deferring, Lists, Decided
<1>5. /\ outcome = "deferred" => Waiting(t) = Waiting(s) \union {h}
      /\ outcome # "deferred" => outcome \in Decided /\ Waiting(t) = Waiting(s)
  BY <1>0 DEF Decided
<1>6. ASSUME NEW x \in t.requested
      PROVE  /\ x \in Elements(t.pending) => x \notin Waiting(t) /\ t.asked[x] = t.pass
             /\ x \in Waiting(t) => t.outcome[x] = "deferred" /\ t.asked[x] = t.pass + 1
             /\ x \notin Elements(t.pending) \union Waiting(t) => t.outcome[x] \in Decided
  <2>1. /\ x \in Address
        /\ x \in Elements(s.pending) => x \notin Waiting(s) /\ s.asked[x] = s.pass
        /\ x \in Waiting(s) => s.outcome[x] = "deferred" /\ s.asked[x] = s.pass + 1
        /\ x \notin Elements(s.pending) \union Waiting(s) => s.outcome[x] \in Decided
    BY <1>0, <1>6 DEF Deferring, Lists
  <2>2. CASE x = h
    BY <1>0, <1>1, <1>4, <1>5, <2>1, <2>2
  <2>3. CASE x # h
    BY <1>0, <1>1, <1>4, <1>5, <2>1, <2>3
  <2>4. QED BY <2>2, <2>3
<1>7. QED BY <1>0, <1>3, <1>6 DEF Deferring, DeferralInv, Active, Ending

\* The next pass asks again what waited for it (scan.go:220-226).
LEMMA NextPassDefers ==
  ASSUME NEW s, Deferring(s), s.pc = "probe", s.pending = <<>>, s.pass < scanCollisionMaxPasses
  PROVE  DeferralInv([s EXCEPT !.pass = @ + 1,
                               !.pending = DedupeScanTargets(s.collisions \o s.retries),
                               !.collisions = <<>>, !.retries = <<>>])
<1> DEFINE q == DedupeScanTargets(s.collisions \o s.retries)
           t == [s EXCEPT !.pass = @ + 1, !.pending = q, !.collisions = <<>>, !.retries = <<>>]
<1>1. /\ s.collisions \o s.retries \in Seq(Address)
      /\ Elements(s.collisions \o s.retries) = Waiting(s)
  BY JoinedElements DEF Deferring, Lists, Waiting
<1>2. q \in Seq(Address) /\ Distinct(q) /\ Elements(q) = Waiting(s)
  BY <1>1, DedupeLists
<1> HIDE DEF q
<1>3. /\ DOMAIN t = DOMAIN Idle /\ t.pc = "probe" /\ t.pass = s.pass + 1
      /\ t.pending = q /\ t.collisions = <<>> /\ t.retries = <<>>
      /\ t.requested = s.requested /\ t.asked = s.asked /\ t.outcome = s.outcome
  BY DEF Deferring, Lists, Idle
<1> HIDE DEF t
<1>4. Waiting(t) = {} /\ Elements(s.pending) = {} /\ <<>> \in Seq(Address)
  BY <1>3 DEF Waiting, Elements
<1>5. Lists(t)
  BY <1>2, <1>3, <1>4 DEF Deferring, Lists, scanCollisionMaxPasses
<1>6. Deferring(t)
  BY <1>2, <1>3, <1>4, <1>5 DEF Deferring
<1>7. QED BY <1>3, <1>6 DEF DeferralInv, Active, Ending, t, q

\* A scan ends when nothing waits, or after its last pass (scan.go:220-225, 237).
LEMMA LastPassSettles ==
  ASSUME NEW s, Deferring(s), s.pending = <<>>,
         s.collisions \o s.retries = <<>> \/ s.pass >= scanCollisionMaxPasses
  PROVE  Exhausted(s)
<1>1. Elements(s.pending) = {}
  BY DEF Elements
<1>2. Waiting(s) = {} \/ s.pass = scanCollisionMaxPasses
  <2>1. Elements(s.collisions \o s.retries) = Waiting(s)
    BY JoinedElements DEF Deferring, Lists, Waiting
  <2>2. CASE s.collisions \o s.retries = <<>>
    BY <2>1, <2>2 DEF Elements
  <2>3. CASE s.pass >= scanCollisionMaxPasses
    BY <2>3 DEF Deferring, Lists, scanCollisionMaxPasses
  <2>4. QED BY <2>2, <2>3
<1>3. QED BY <1>1, <1>2 DEF Deferring, Exhausted

-----------------------------------------------------------------------------
\* The steps of a scan, as far as the passes go

\* A target list is checked and deduplicated (scan.go:69-98).
LEMMA BeginDefers ==
  ASSUME NEW targets \in TargetLists, scan = Idle,
         Begin(targets) \/ BeginDirected(targets)
  PROVE  DeferralInv(scan')
<1>1. targets \in Seq(Address) /\ DefaultScanTargets \in Seq(Address)
  BY TargetAssumption, DefaultTargetsType
<1>2. /\ Idle.pass = 0 /\ Idle.collisions = <<>> /\ Idle.retries = <<>>
      /\ Idle.asked = [a \in Address |-> 0] /\ DOMAIN Idle.outcome = Address
  BY DEF Idle
<1>3. DeferralInv(Started(Idle, targets)) /\ DeferralInv(Started(Idle, DefaultScanTargets))
  BY <1>1, <1>2, StartedDefers
<1>4. DeferralInv(Goto(Idle, "failed"))
  BY DEF DeferralInv, Goto, Idle, Resting, Active, Ending
<1>5. QED BY <1>3, <1>4 DEF Begin, BeginDirected

\* A probe ends in an answer, an error or a refusal (scan.go:104-142).
LEMMA ProbeDefers ==
  ASSUME DeferralInv(scan), Probe \/ PassOver
  PROVE  DeferralInv(scan')
<1> DEFINE h == Head(scan.pending)
<1>0. h = Head(scan.pending)
  OBVIOUS
<1>1. Deferring(scan) /\ scan.pending # <<>> /\ DOMAIN scan = DOMAIN Idle
  BY DEF DeferralInv, Probe, PassOver, Active
<1>2. /\ h \in Address
      /\ scan.collisions \in Seq(Address) /\ scan.retries \in Seq(Address)
  BY <1>1, ListElements DEF Deferring, Lists
<1>3. /\ Append(scan.collisions, h) \in Seq(Address)
      /\ Elements(Append(scan.collisions, h)) = Elements(scan.collisions) \union {h}
      /\ Append(scan.retries, h) \in Seq(Address)
      /\ Elements(Append(scan.retries, h)) = Elements(scan.retries) \union {h}
  BY <1>2, ListElements
<1>4. scan.pc = "probe" /\ "probe" \in Active
  BY DEF Probe, PassOver, Active
<1>5. scan.asked[h] \in Nat /\ scan.asked[h] + 1 \in Nat
  <2>1. scan.asked \in [Address -> Nat]
    BY <1>1 DEF Deferring, Lists
  <2>2. QED BY <1>2, <2>1
<1> HIDE DEF h
<1>6. DeferralInv(Ineligible(scan, h))
  <2> DEFINE t == Ineligible(scan, h)
             n == scan.asked[h]
  <2>1. /\ DOMAIN t = DOMAIN Idle /\ t.pc \in Active
        /\ t.pass = scan.pass /\ t.requested = scan.requested
        /\ t.pending = Tail(scan.pending)
        /\ t.outcome = [scan.outcome EXCEPT ![h] = "ineligible"]
        /\ t.collisions = scan.collisions /\ t.retries = scan.retries
        /\ t.asked = scan.asked
    BY <1>1, <1>4 DEF Ineligible, Idle
  <2> HIDE DEF t
  <2>2. Waiting(t) = Waiting(scan)
    BY <1>3, <2>1 DEF Waiting
  <2>3. t.asked = [scan.asked EXCEPT ![h] = scan.asked[h]]
    BY <1>1, <1>2, <2>1 DEF Deferring, Lists
  <2>4. ProbeStep(scan, t, h, "ineligible", n)
    BY <1>2, <1>3, <1>5, <2>1, <2>2, <2>3 DEF ProbeStep, Decided
  <2> HIDE DEF n
  <2>5. DeferralInv(t)
    BY <1>0, <1>1, <2>4, ProbedDefers
  <2>6. QED BY <2>5 DEF t
<1>7. DeferralInv(Collided(scan, h))
  <2> DEFINE t == Collided(scan, h)
             n == scan.asked[h] + 1
  <2>1. /\ DOMAIN t = DOMAIN Idle /\ t.pc \in Active
        /\ t.pass = scan.pass /\ t.requested = scan.requested
        /\ t.pending = Tail(scan.pending)
        /\ t.outcome = [scan.outcome EXCEPT ![h] = "deferred"]
        /\ t.collisions = Append(scan.collisions, h) /\ t.retries = scan.retries
        /\ t.asked = [scan.asked EXCEPT ![h] = scan.asked[h] + 1]
    BY <1>1, <1>4 DEF Collided, Asked, Idle
  <2> HIDE DEF t
  <2>2. Waiting(t) = Waiting(scan) \union {h}
    BY <1>3, <2>1 DEF Waiting
  <2>4. ProbeStep(scan, t, h, "deferred", n)
    BY <1>2, <1>3, <1>5, <2>1, <2>2 DEF ProbeStep, Decided
  <2> HIDE DEF n
  <2>5. DeferralInv(t)
    BY <1>0, <1>1, <2>4, ProbedDefers
  <2>6. QED BY <2>5 DEF t
<1>8. DeferralInv(Retried(scan, h))
  <2> DEFINE t == Retried(scan, h)
             n == scan.asked[h] + 1
  <2>1. /\ DOMAIN t = DOMAIN Idle /\ t.pc \in Active
        /\ t.pass = scan.pass /\ t.requested = scan.requested
        /\ t.pending = Tail(scan.pending)
        /\ t.outcome = [scan.outcome EXCEPT ![h] = "deferred"]
        /\ t.collisions = scan.collisions /\ t.retries = Append(scan.retries, h)
        /\ t.asked = [scan.asked EXCEPT ![h] = scan.asked[h] + 1]
    BY <1>1, <1>4 DEF Retried, Asked, Idle
  <2> HIDE DEF t
  <2>2. Waiting(t) = Waiting(scan) \union {h}
    BY <1>3, <2>1 DEF Waiting
  <2>4. ProbeStep(scan, t, h, "deferred", n)
    BY <1>2, <1>3, <1>5, <2>1, <2>2 DEF ProbeStep, Decided
  <2> HIDE DEF n
  <2>5. DeferralInv(t)
    BY <1>0, <1>1, <2>4, ProbedDefers
  <2>6. QED BY <2>5 DEF t
<1>9. DeferralInv(Skipped(scan, h))
  <2> DEFINE t == Skipped(scan, h)
             n == scan.asked[h] + 1
  <2>1. /\ DOMAIN t = DOMAIN Idle /\ t.pc \in Active
        /\ t.pass = scan.pass /\ t.requested = scan.requested
        /\ t.pending = Tail(scan.pending)
        /\ t.outcome = [scan.outcome EXCEPT ![h] = "absent"]
        /\ t.collisions = scan.collisions /\ t.retries = scan.retries
        /\ t.asked = [scan.asked EXCEPT ![h] = scan.asked[h] + 1]
    BY <1>1, <1>4 DEF Skipped, Asked, Idle
  <2> HIDE DEF t
  <2>2. Waiting(t) = Waiting(scan)
    BY <1>3, <2>1 DEF Waiting
  <2>4. ProbeStep(scan, t, h, "absent", n)
    BY <1>2, <1>3, <1>5, <2>1, <2>2 DEF ProbeStep, Decided
  <2> HIDE DEF n
  <2>5. DeferralInv(t)
    BY <1>0, <1>1, <2>4, ProbedDefers
  <2>6. QED BY <2>5 DEF t
<1>10. ASSUME NEW r
      PROVE  DeferralInv(Identified(scan, h, r))
  <2> DEFINE t == Identified(scan, h, r)
             n == scan.asked[h] + 1
  <2>1. /\ DOMAIN t = DOMAIN Idle /\ t.pc \in Active
        /\ t.pass = scan.pass /\ t.requested = scan.requested
        /\ t.pending = Tail(scan.pending)
        /\ t.outcome = [scan.outcome EXCEPT ![h] = "answered"]
        /\ t.collisions = scan.collisions /\ t.retries = scan.retries
        /\ t.asked = [scan.asked EXCEPT ![h] = scan.asked[h] + 1]
    BY <1>1 DEF Identified, Asked, Idle, Active
  <2> HIDE DEF t
  <2>2. Waiting(t) = Waiting(scan)
    BY <1>3, <2>1 DEF Waiting
  <2>4. ProbeStep(scan, t, h, "answered", n)
    BY <1>2, <1>3, <1>5, <2>1, <2>2 DEF ProbeStep, Decided
  <2> HIDE DEF n
  <2>5. DeferralInv(t)
    BY <1>0, <1>1, <2>4, ProbedDefers
  <2>6. QED BY <2>5 DEF t
<1>11. DeferralInv(Failed(scan, h))
  BY DEF Failed, DeferralInv, Goto, Idle, Resting, Active, Ending
<1>12. CASE PassOver
  BY <1>0, <1>6, <1>12 DEF PassOver
<1>13. CASE Probe
  <2>1. \A err \in ScanErrors : DeferralInv(AfterError(scan, h, err))
    BY <1>7, <1>8, <1>9, <1>11 DEF AfterError
  <2>2. \A r : DeferralInv(AfterResponse(scan, h, r))
    BY <1>10, <2>1 DEF AfterResponse, ScanErrors, SkippedErrors, RetriedErrors
  <2>3. QED BY <1>0, <1>13, <2>1, <2>2 DEF Probe
<1>14. QED BY <1>12, <1>13

\* The end of a pass (scan.go:220-237).
LEMMA PassEndDefers ==
  ASSUME DeferralInv(scan), NextPass \/ LastPass
  PROVE  DeferralInv(scan')
<1>1. Deferring(scan) /\ scan.pc = "probe" /\ scan.pending = <<>> /\ DOMAIN scan = DOMAIN Idle
  BY DEF DeferralInv, NextPass, LastPass, PassEnded, Active
<1>2. CASE NextPass
  BY <1>1, <1>2, NextPassDefers DEF NextPass, PassesLeft, Deferred
<1>3. CASE LastPass
  <2>1. Exhausted(scan)
    <3>1. scan.pass \in Nat
      BY <1>1 DEF Deferring, Lists, scanCollisionMaxPasses
    <3>2. QED BY <1>1, <1>3, <3>1, LastPassSettles
          DEF LastPass, PassesLeft, Deferred, scanCollisionMaxPasses
  <2>2. scan' = [Goto(scan, "display") EXCEPT !.since = elsewhere]
    BY <1>3 DEF LastPass
  <2>3. /\ DOMAIN scan' = DOMAIN Idle /\ scan'.pc = "display"
        /\ scan'.requested = scan.requested
        /\ scan'.outcome = scan.outcome /\ scan'.asked = scan.asked
    BY <1>1, <2>2 DEF Goto, Idle
  <2>4. QED BY <2>1, <2>3 DEF DeferralInv, Exhausted, Active, Ending
<1>4. QED BY <1>2, <1>3

\* A scan that is aborted promises nothing (scan.go:106, 228-235).
LEMMA AbortDefers ==
  ASSUME Abort
  PROVE  DeferralInv(scan')
BY DEF Abort, DeferralInv, Goto, Idle, Resting, Active, Ending

\* A step that is not about the passes, nor ends them.
Aside(s, t) ==
  /\ SameBook(s, t)
  /\ \/ s.pc \in Active /\ t.pc \in Active
     \/ s.pc \in Ending /\ t.pc \in Ending

\* Everything else leaves the passes alone (scan.go:133-217, 256-275).
LEMMA OtherStepsAreAside ==
  ASSUME DeferralInv(scan),
         \/ \E text \in BOOLEAN : ReadChunk(text)
         \/ ChunkMissing \/ ReadSerial
         \/ RegisterAnswer \/ RegisterAlias \/ JoinAlias \/ Reload \/ Confirm
         \/ LookupConfirmed \/ Collect
         \/ ReadDisplay \/ Resolve \/ Keep \/ Return
  PROVE  Aside(scan, scan')
<1>1. DOMAIN scan = DOMAIN Idle
  BY DEF DeferralInv
<1>2. CASE (\E text \in BOOLEAN : ReadChunk(text)) \/ ChunkMissing \/ ReadSerial
  <2>1. scan.pc = "serial" /\ scan'.pc \in {"serial", "register"}
    BY <1>1, <1>2 DEF ReadChunk, ChunkMissing, ReadSerial, SerialRead, Goto, Idle
  <2>2. SameBook(scan, scan')
    <3>1. CASE \E text \in BOOLEAN : ReadChunk(text)
      BY <1>1, <3>1 DEF ReadChunk, SameBook, Idle
    <3>2. CASE ChunkMissing
      BY <1>1, <3>2 DEF ChunkMissing, SerialRead, Goto, SameBook, Idle
    <3>3. CASE ReadSerial
      <4> DEFINE t == SerialRead(scan)
      <4>1. SameBook(scan, t)
        BY <1>1 DEF SerialRead, Goto, SameBook, Idle
      <4>2. PICK serial : scan' = [t EXCEPT !.info["SerialNumber"] = serial]
        BY <3>3 DEF ReadSerial
      <4> HIDE DEF t
      <4> DEFINE info == [t.info EXCEPT !["SerialNumber"] = serial]
      <4>3. scan' = [t EXCEPT !.info = info]
        BY <4>2
      <4> HIDE DEF info
      <4>4. QED BY <1>1, <4>1, <4>3 DEF SameBook, Idle
    <3>4. QED BY <1>2, <3>1, <3>2, <3>3
  <2>3. QED BY <2>1, <2>2 DEF Aside, Active
<1>3. CASE RegisterAnswer \/ RegisterAlias \/ JoinAlias \/ Reload \/ Confirm \/ LookupConfirmed
  <2>1. scan.pc \in Active /\ scan'.pc \in Active
    BY <1>1, <1>3
    DEF RegisterAnswer, RegisterAlias, JoinAlias, Reload, Confirm, LookupConfirmed, Goto,
        Active, Idle
  <2>2. SameBook(scan, scan')
    <3>1. CASE RegisterAnswer
      <4>1. PICK pc, entry, parted :
               scan' = [scan EXCEPT !.pc = pc, !.entry = entry, !.parted = parted]
        BY <1>1, <3>1 DEF RegisterAnswer, Goto, Idle
      <4>2. QED BY <1>1, <4>1 DEF SameBook, Idle
    <3>2. CASE RegisterAlias
      <4>1. PICK pc : scan' = [scan EXCEPT !.pc = pc]
        BY <1>1, <3>2 DEF RegisterAlias, Goto, Idle
      <4>2. QED BY <1>1, <4>1 DEF SameBook, Idle
    <3>3. CASE JoinAlias \/ Confirm
      <4>1. PICK pc : scan' = [scan EXCEPT !.pc = pc]
        BY <3>3 DEF JoinAlias, Confirm, Goto
      <4>2. QED BY <1>1, <4>1 DEF SameBook, Idle
    <3>4. CASE Reload \/ LookupConfirmed
      <4>1. PICK pc, entry : scan' = [scan EXCEPT !.pc = pc, !.entry = entry]
        BY <1>1, <3>4 DEF Reload, LookupConfirmed, Goto, Idle
      <4>2. QED BY <1>1, <4>1 DEF SameBook, Idle
    <3>5. QED BY <1>3, <3>1, <3>2, <3>3, <3>4
  <2>3. QED BY <2>1, <2>2 DEF Aside
<1>4. CASE Collect
  <2> DEFINE t == Collected(scan, PrimaryDisplayAddress(scan.entry))
  <2>1. SameBook(scan, t)
    BY <1>1 DEF Collected, SameBook, Idle
  <2>2. scan.pc = "collect"
        /\ scan' = [t EXCEPT !.pc = "probe", !.target = 0, !.address = 0,
                             !.info = NoInfo, !.entry = Nil]
    BY <1>4 DEF Collect
  <2> HIDE DEF t
  <2>3. scan'.pc = "probe" /\ SameBook(scan, scan')
    BY <1>1, <2>1, <2>2 DEF SameBook, Idle
  <2>4. QED BY <2>2, <2>3 DEF Aside, Active
<1>5. CASE ReadDisplay \/ Resolve \/ Return
  <2>1. scan.pc \in Ending /\ scan'.pc \in Ending /\ SameBook(scan, scan')
    BY <1>1, <1>5, ZenonT(40) DEF ReadDisplay, Resolve, Return, Goto, SameBook, Ending, Idle
  <2>2. QED BY <2>1 DEF Aside
<1>6. CASE Keep
  <2> DEFINE t == KeptOnce(scan, PrimaryDisplayAddress(scan.entry))
  <2>1. SameBook(scan, t)
    BY <1>1 DEF KeptOnce, SameBook, Idle
  <2>2. scan.pc = "keep" /\ scan' = [t EXCEPT !.pc = "display", !.entry = Nil]
    BY <1>6 DEF Keep
  <2> HIDE DEF t
  <2>3. scan'.pc = "display" /\ SameBook(scan, scan')
    BY <1>1, <2>1, <2>2 DEF SameBook, Idle
  <2>4. QED BY <2>2, <2>3 DEF Aside, Ending
<1>7. QED BY <1>2, <1>3, <1>4, <1>5, <1>6

\* They keep the passes in order (scan.go:133-217, 256-275).
LEMMA OtherStepsDefer ==
  ASSUME DeferralInv(scan),
         \/ \E text \in BOOLEAN : ReadChunk(text)
         \/ ChunkMissing \/ ReadSerial
         \/ RegisterAnswer \/ RegisterAlias \/ JoinAlias \/ Reload \/ Confirm
         \/ LookupConfirmed \/ Collect
         \/ ReadDisplay \/ Resolve \/ Keep \/ Return
  PROVE  DeferralInv(scan')
BY OtherStepsAreAside, SameBookKeeps DEF Aside

\* The passes invariant, and the one idle state (scan.go:72-238).
PassInv == DeferralInv(scan) /\ (scan.pc = "idle" => scan = Idle)

\* A step of the scan, or of another goroutine, keeps the passes in order.
LEMMA PassesContinue ==
  ASSUME PassInv, [ScanNext]_scanVars
  PROVE  PassInv'
<1> USE DEF PassInv
<1>1. ASSUME NEW targets \in TargetLists, Begin(targets) \/ BeginDirected(targets)
      PROVE  PassInv'
  <2>1. scan = Idle
    BY <1>1 DEF Begin, BeginDirected
  <2>2. DeferralInv(scan')
    BY <1>1, <2>1, BeginDefers
  <2>3. scan'.pc # "idle"
    BY <1>1, <2>1 DEF Begin, BeginDirected, Started, Goto, Idle
  <2>4. QED BY <2>2, <2>3
<1>2. CASE Probe \/ PassOver \/ NextPass \/ LastPass \/ Abort
  <2>1. DeferralInv(scan')
    BY <1>2, ProbeDefers, PassEndDefers, AbortDefers
  <2>2. scan.pc # "idle" /\ DOMAIN scan = DOMAIN Idle
    BY <1>2 DEF Probe, PassOver, NextPass, LastPass, Abort, PassEnded, DeferralInv
  <2>3. scan'.pc # "idle"
    <3>1. CASE Probe
      <4>1. \A t, err : AfterError(scan, t, err).pc # "idle"
        BY <2>2, <3>1 DEF Probe, AfterError, Collided, Retried, Skipped, Failed, Asked, Goto, Idle
      <4>2. \A t, r : AfterResponse(scan, t, r).pc # "idle"
        BY <2>2, <4>1 DEF AfterResponse, Identified, Asked, Idle
      <4>3. QED BY <3>1, <4>1, <4>2 DEF Probe
    <3>2. CASE PassOver \/ NextPass \/ LastPass \/ Abort
      BY <2>2, <3>2, ZenonT(40)
      DEF PassOver, NextPass, LastPass, Abort, PassEnded, Ineligible, Goto, Idle
    <3>3. QED BY <1>2, <3>1, <3>2
  <2>4. QED BY <2>1, <2>3
<1>3. ASSUME \/ \E text \in BOOLEAN : ReadChunk(text)
             \/ ChunkMissing \/ ReadSerial
             \/ RegisterAnswer \/ RegisterAlias \/ JoinAlias \/ Reload \/ Confirm
             \/ LookupConfirmed \/ Collect
             \/ ReadDisplay \/ Resolve \/ Keep \/ Return
      PROVE  PassInv'
  <2>1. DeferralInv(scan')
    BY <1>3, OtherStepsDefer
  <2>2. scan'.pc # "idle"
    <3>1. DOMAIN scan = DOMAIN Idle
      BY DEF DeferralInv
    <3>2. CASE \/ \E text \in BOOLEAN : ReadChunk(text)
               \/ ChunkMissing
      BY <3>1, <3>2 DEF ReadChunk, ChunkMissing, SerialRead, Goto, Idle
    <3>3. CASE ReadSerial
      <4> DEFINE t == SerialRead(scan)
      <4>1. t.pc = "register" /\ DOMAIN t = DOMAIN Idle
        BY <3>1 DEF SerialRead, Goto, Idle
      <4>2. PICK serial : scan' = [t EXCEPT !.info["SerialNumber"] = serial]
        BY <3>3 DEF ReadSerial
      <4> HIDE DEF t
      <4> DEFINE info == [t.info EXCEPT !["SerialNumber"] = serial]
      <4>3. scan' = [t EXCEPT !.info = info]
        BY <4>2
      <4> HIDE DEF info
      <4>4. QED BY <4>1, <4>3 DEF Idle
    <3>4. CASE \/ RegisterAnswer \/ RegisterAlias \/ JoinAlias \/ Reload \/ Confirm
               \/ LookupConfirmed \/ Collect
               \/ ReadDisplay \/ Resolve \/ Keep \/ Return
      BY <3>1, <3>4, ZenonT(40)
      DEF RegisterAnswer, RegisterAlias, JoinAlias, Reload, Confirm, LookupConfirmed, Collect,
          Collected, ReadDisplay, Resolve, Keep, KeptOnce, Return, Goto, Idle
    <3>5. QED BY <1>3, <3>2, <3>3, <3>4
  <2>3. QED BY <2>1, <2>2
<1>4. CASE Elsewhere
  BY <1>4 DEF Elsewhere
<1>5. CASE UNCHANGED scanVars
  BY <1>5 DEF scanVars
<1>6. QED BY <1>1, <1>2, <1>3, <1>4, <1>5 DEF ScanNext, ScanStep

-----------------------------------------------------------------------------
\* The steps of a scan, as far as its answers go

\* An answer is at hand that is not recorded yet.
Recording == {"serial", "register", "alias", "join", "reload", "confirm"}

\* The same answer is at hand.
SameAnswer(s, t) ==
  t.target = s.target /\ t.address = s.address /\ t.answered = s.answered

\* No answer comes to be at hand; one that was is given up with the scan.
Rests(s, t) ==
  /\ t.pc \notin Recording
  /\ \/ t.answered = {}
     \/ s.pc \notin Recording /\ t.answered = s.answered

\* What the device at a says, with any serial it may spell.
SerialsOf(info, a) ==
  {[info EXCEPT !["SerialNumber"] = serial] : serial \in SerialTexts[a] \union {Missing}}

\* A probe is answered (scan.go:133-148).
Answer(s, t) ==
  /\ s.pc \notin Recording /\ t.pc \in {"serial", "register"}
  /\ t.target = Head(s.pending)
  /\ \E r \in {x \in Answers[Head(s.pending)] : Identifies(x)} :
        t.address = r.Source /\ t.info = r.payload /\ t.answered = s.answered \union {r.Source}

\* Its serial is read (scan.go:286-340).
Serial(s, t) ==
  /\ s.pc = "serial" /\ t.pc \in {"serial", "register"} /\ SameAnswer(s, t)
  /\ \/ t.info = s.info
     \/ t.pc = "register" /\ t.info \in SerialsOf(s.info, s.address)

\* It is recorded by the registry (scan.go:190-209).
Record(s, t, from, to) ==
  s.pc = from /\ t.pc = to /\ SameAnswer(s, t) /\ t.info = s.info

\* A scan that is given up is told no answers (scan.go:106, 126, 228-235).
LEMMA GivenUpRests ==
  ASSUME NEW s
  PROVE  Rests(s, Goto(Idle, "failed"))
<1> DEFINE t == Goto(Idle, "failed")
<1>1. t.pc = "failed" /\ t.answered = {}
  BY DEF Goto, Idle
<1> HIDE DEF t
<1>2. Rests(s, t)
  BY <1>1 DEF Rests, Recording
<1>3. QED BY <1>2 DEF t

\* Every step is one of these (scan.go:72-275).
LEMMA ScanStepIsOneOf ==
  ASSUME DOMAIN scan = DOMAIN Idle, ScanStep
  PROVE  \/ UNCHANGED <<registry, elsewhere>> /\ Rests(scan, scan')
         \/ UNCHANGED <<registry, elsewhere>> /\ scan.pending # <<>> /\ scan.pc = "probe"
            /\ Answer(scan, scan')
         \/ UNCHANGED <<registry, elsewhere>> /\ Serial(scan, scan')
         \/ RegisterAnswer /\ \E to \in {"alias", "confirm"} :
               /\ Record(scan, scan', "register", to)
               /\ to = "confirm" <=> scan.address = scan.target
         \/ RegisterAlias /\ Record(scan, scan', "alias", "join")
         \/ JoinAlias /\ Record(scan, scan', "join", "reload")
         \/ UNCHANGED <<registry, elsewhere>> /\ Record(scan, scan', "reload", "confirm")
         \/ Confirm /\ scan.pc = "confirm" /\ scan'.pc = "lookup" /\ SameAnswer(scan, scan')
<1>1. ASSUME NEW targets, Begin(targets) \/ BeginDirected(targets)
      PROVE  UNCHANGED <<registry, elsewhere>> /\ Rests(scan, scan')
  BY <1>1 DEF Begin, BeginDirected, Started, Goto, Rests, Recording, Idle
<1>2. CASE Probe
  <2> DEFINE h == Head(scan.pending)
  <2>1. scan.pc = "probe" /\ scan.pending # <<>> /\ UNCHANGED <<registry, elsewhere>>
    BY <1>2 DEF Probe
  <2>2. \A err : Rests(scan, AfterError(scan, h, err))
    <3>1. Rests(scan, Collided(scan, h)) /\ Rests(scan, Retried(scan, h))
      BY <2>1 DEF Collided, Retried, Asked, Rests, Recording, Idle
    <3>2. Rests(scan, Skipped(scan, h))
      BY <2>1 DEF Skipped, Asked, Rests, Recording, Idle
    <3>3. Rests(scan, Failed(scan, h))
      BY GivenUpRests DEF Failed
    <3>4. QED BY <3>1, <3>2, <3>3 DEF AfterError
  <2>3. ASSUME NEW r \in Answers[h], Identifies(r)
        PROVE  Answer(scan, Identified(scan, h, r))
    <3> DEFINE t == Identified(scan, h, r)
    <3>1. /\ t.pc \in {"serial", "register"} /\ t.target = h
          /\ t.address = r.Source /\ t.info = r.payload
          /\ t.answered = scan.answered \union {r.Source}
      BY DEF Identified, Asked, Idle
    <3> HIDE DEF t
    <3>2. QED BY <2>1, <2>3, <3>1 DEF Answer, Recording, t
  <2>4. ASSUME NEW r \in Answers[h]
        PROVE  \/ Rests(scan, AfterResponse(scan, h, r))
               \/ Answer(scan, AfterResponse(scan, h, r))
    BY <2>2, <2>3 DEF AfterResponse
  <2>5. QED BY <1>2, <2>1, <2>2, <2>4 DEF Probe
<1>3. CASE PassOver \/ NextPass \/ LastPass \/ Abort
  <2>1. CASE PassOver
    <3>1. /\ scan.pc = "probe" /\ scan'.pc = "probe" /\ scan'.answered = scan.answered
          /\ UNCHANGED <<registry, elsewhere>>
      BY <2>1 DEF PassOver, Ineligible, Idle
    <3>2. QED BY <3>1 DEF Rests, Recording
  <2>2. CASE NextPass
    <3>1. /\ scan.pc = "probe" /\ scan'.pc = "probe" /\ scan'.answered = scan.answered
          /\ UNCHANGED <<registry, elsewhere>>
      BY <2>2 DEF NextPass, PassEnded, Idle
    <3>2. QED BY <3>1 DEF Rests, Recording
  <2>3. CASE LastPass
    <3>1. /\ scan.pc = "probe" /\ scan'.pc = "display" /\ scan'.answered = scan.answered
          /\ UNCHANGED <<registry, elsewhere>>
      BY <2>3 DEF LastPass, PassEnded, Goto, Idle
    <3>2. QED BY <3>1 DEF Rests, Recording
  <2>4. CASE Abort
    BY <2>4, GivenUpRests DEF Abort
  <2>5. QED BY <1>3, <2>1, <2>2, <2>3, <2>4
<1>4. CASE (\E text \in BOOLEAN : ReadChunk(text)) \/ ChunkMissing
  <2>1. CASE \E text \in BOOLEAN : ReadChunk(text)
    BY <2>1 DEF ReadChunk, Serial, SameAnswer, Idle
  <2>2. CASE ChunkMissing
    BY <2>2 DEF ChunkMissing, SerialRead, Goto, Serial, SameAnswer, Idle
  <2>3. QED BY <1>4, <2>1, <2>2
<1>5. CASE ReadSerial
  <2> DEFINE t == SerialRead(scan)
  <2>1. /\ DOMAIN t = DOMAIN Idle /\ t.pc = "register" /\ t.info = scan.info
        /\ SameAnswer(scan, t)
    BY DEF SerialRead, Goto, SameAnswer, Idle
  <2>2. PICK serial \in SerialTexts[scan.address] \union {Missing} :
           scan' = [t EXCEPT !.info["SerialNumber"] = serial]
    BY <1>5 DEF ReadSerial
  <2>3. scan.pc = "serial" /\ UNCHANGED <<registry, elsewhere>>
    BY <1>5 DEF ReadSerial
  <2> HIDE DEF t
  <2> DEFINE info == [t.info EXCEPT !["SerialNumber"] = serial]
  <2>4. scan' = [t EXCEPT !.info = info] /\ info \in SerialsOf(scan.info, scan.address)
    BY <2>1, <2>2 DEF SerialsOf
  <2> HIDE DEF info
  <2>5. Serial(scan, scan')
    BY <2>1, <2>3, <2>4 DEF Serial, SameAnswer, Idle
  <2>6. QED BY <2>3, <2>5
<1>6. CASE RegisterAnswer
  <2> DEFINE to == IF scan.address = scan.target THEN "confirm" ELSE "alias"
  <2>1. PICK entry, parted :
           scan' = [scan EXCEPT !.pc = to, !.entry = entry, !.parted = parted]
    BY <1>6 DEF RegisterAnswer, Goto, Idle
  <2>4. to \in {"alias", "confirm"} /\ (to = "confirm" <=> scan.address = scan.target)
    OBVIOUS
  <2> HIDE DEF to
  <2>2. scan.pc = "register"
    BY <1>6 DEF RegisterAnswer
  <2>3. Record(scan, scan', "register", to)
    BY <2>1, <2>2 DEF Record, SameAnswer, Idle
  <2>5. QED BY <1>6, <2>3, <2>4
<1>7. CASE RegisterAlias
  <2>1. scan' = [scan EXCEPT !.pc = "join"]
    BY <1>7 DEF RegisterAlias, Goto, Idle
  <2>2. scan.pc = "alias"
    BY <1>7 DEF RegisterAlias
  <2>3. Record(scan, scan', "alias", "join")
    BY <2>1, <2>2 DEF Record, SameAnswer, Idle
  <2>4. QED BY <1>7, <2>3
<1>8. CASE JoinAlias
  <2>1. Record(scan, scan', "join", "reload")
    BY <1>8 DEF JoinAlias, Record, SameAnswer, Goto, Idle
  <2>2. QED BY <1>8, <2>1
<1>9. CASE Reload
  <2>1. UNCHANGED <<registry, elsewhere>> /\ Record(scan, scan', "reload", "confirm")
    BY <1>9 DEF Reload, Record, SameAnswer, Goto, Idle
  <2>2. QED BY <2>1
<1>10. CASE Confirm
  <2>1. scan.pc = "confirm" /\ scan'.pc = "lookup" /\ SameAnswer(scan, scan')
    BY <1>10 DEF Confirm, SameAnswer, Goto, Idle
  <2>2. QED BY <1>10, <2>1
<1>11. CASE LookupConfirmed \/ Collect \/ ReadDisplay \/ Resolve \/ Keep \/ Return
  <2>1. CASE LookupConfirmed \/ ReadDisplay \/ Resolve \/ Return
    <3>1. /\ scan.pc \notin Recording /\ UNCHANGED <<registry, elsewhere>>
          /\ scan'.pc \in {"collect", "resolve", "display", "keep", "done"}
      BY <2>1 DEF LookupConfirmed, ReadDisplay, Resolve, Return, Goto, Recording, Idle
    <3>2. scan'.answered = scan.answered
      BY <2>1 DEF LookupConfirmed, ReadDisplay, Resolve, Return, Goto, Idle
    <3>3. QED BY <3>1, <3>2 DEF Rests, Recording
  <2>2. CASE Collect
    <3> DEFINE t == Collected(scan, PrimaryDisplayAddress(scan.entry))
    <3>1. DOMAIN t = DOMAIN Idle /\ t.answered = scan.answered
      BY DEF Collected, Idle
    <3>2. /\ scan.pc = "collect" /\ UNCHANGED <<registry, elsewhere>>
          /\ scan' = [t EXCEPT !.pc = "probe", !.target = 0, !.address = 0,
                               !.info = NoInfo, !.entry = Nil]
      BY <2>2 DEF Collect
    <3> HIDE DEF t
    <3>3. QED BY <3>1, <3>2 DEF Rests, Recording, Idle
  <2>3. CASE Keep
    <3> DEFINE t == KeptOnce(scan, PrimaryDisplayAddress(scan.entry))
    <3>1. DOMAIN t = DOMAIN Idle /\ t.answered = scan.answered
      BY DEF KeptOnce, Idle
    <3>2. /\ scan.pc = "keep" /\ UNCHANGED <<registry, elsewhere>>
          /\ scan' = [t EXCEPT !.pc = "display", !.entry = Nil]
      BY <2>3 DEF Keep
    <3> HIDE DEF t
    <3>3. QED BY <3>1, <3>2 DEF Rests, Recording, Idle
  <2>4. QED BY <1>11, <2>1, <2>2, <2>3
<1>12. QED
  BY <1>1, <1>2, <1>3, <1>4, <1>5, <1>6, <1>7, <1>8, <1>9, <1>10, <1>11 DEF ScanStep

\* The answer at hand is one the registry can be told of.
AnswerInv ==
  scan.pc \in Recording =>
     /\ scan.address \in Address /\ scan.target \in Address /\ scan.info \in Observation
     /\ scan.pc = "serial" => SerialsOf(scan.info, scan.address) \subseteq Observation

\* What the bus answers, with a serial read later, is an observation of a bus
\* address (scan.go:133-196, 286-340).
LEMMA AnswersContinue ==
  ASSUME PassInv, AnswerInv, [ScanNext]_scanVars
  PROVE  AnswerInv'
<1>1. DOMAIN scan = DOMAIN Idle
  BY DEF PassInv, DeferralInv
<1>2. CASE Rests(scan, scan')
  BY <1>2 DEF Rests, AnswerInv
<1>3. CASE scan.pending # <<>> /\ scan.pc = "probe" /\ Answer(scan, scan')
  <2>1. Head(scan.pending) \in Address
    BY <1>3, ListElements DEF PassInv, DeferralInv, Deferring, Lists, Active
  <2>2. PICK r \in {x \in Answers[Head(scan.pending)] : Identifies(x)} :
           scan'.address = r.Source /\ scan'.info = r.payload
    BY <1>3 DEF Answer
  <2>3. /\ r.payload \in Observation /\ r.Source \in Address
        /\ SerialsOf(r.payload, r.Source) \subseteq Observation
    BY <2>1, <2>2, AnswerAssumption DEF SerialsOf
  <2>4. scan'.target \in Address
    BY <1>3, <2>1 DEF Answer
  <2>5. QED BY <2>2, <2>3, <2>4 DEF AnswerInv
<1>4. CASE Serial(scan, scan')
  BY <1>4 DEF Serial, SameAnswer, AnswerInv, Recording
<1>5. CASE \E from \in Recording \ {"serial"}, to \in Recording \ {"serial"} :
              Record(scan, scan', from, to)
  BY <1>5 DEF Record, SameAnswer, AnswerInv
<1>6. CASE scan'.pc = "lookup"
  BY <1>6 DEF AnswerInv, Recording
<1>7. CASE scan' = scan
  BY <1>7 DEF AnswerInv
<1>8. CASE ScanStep
  BY <1>1, <1>2, <1>3, <1>4, <1>5, <1>6, <1>8, ScanStepIsOneOf DEF Recording
<1>9. QED BY <1>7, <1>8 DEF ScanNext, Elsewhere, scanVars

\* Everything a step of the scan, or of another goroutine, does to the registry is
\* an operation of the registry (scan.go:190-209).
LEMMA StepsAreOperations ==
  ASSUME PassInv, AnswerInv, [ScanNext]_scanVars
  PROVE  [Next]_registry
<1>1. DOMAIN scan = DOMAIN Idle
  BY DEF PassInv, DeferralInv
<1>2. scan.pc \in Recording => /\ scan.address \in Address /\ scan.target \in Address
                               /\ scan.info \in Observation
  BY DEF AnswerInv
<1>3. CASE RegisterAnswer
  BY <1>2, <1>3 DEF RegisterAnswer, CallRegister, Next, Recording
<1>4. CASE RegisterAlias
  BY <1>2, <1>4 DEF RegisterAlias, CallRegister, Next, Recording
<1>5. CASE JoinAlias
  BY <1>2, <1>5 DEF JoinAlias, Next, Recording
<1>6. CASE Confirm
  BY <1>2, <1>6 DEF Confirm, Next, Recording
<1>7. CASE ScanStep
  BY <1>1, <1>3, <1>4, <1>5, <1>6, <1>7, ScanStepIsOneOf
<1>8. QED BY <1>7 DEF ScanNext, Elsewhere, scanVars

\* The inductive invariant of a scan: its passes, and the answer at hand.
ScanInv == PassInv /\ AnswerInv

\* It holds of every scan (scan.go:72-275).
LEMMA ScanInvHolds == ScanSpec => []ScanInv
<1>1. ScanInit => PassInv
  <2>1. DeferralInv(Idle)
    BY DEF DeferralInv, Idle, Active, Ending, Resting
  <2>2. QED BY <2>1 DEF ScanInit, PassInv
<1>2. ScanInit => AnswerInv
  BY DEF ScanInit, AnswerInv, Idle, Recording
<1>3. ScanInv /\ [ScanNext]_scanVars => ScanInv'
  BY PassesContinue, AnswersContinue DEF ScanInv
<1>4. QED BY <1>1, <1>2, <1>3, PTL DEF ScanSpec, ScanInv

\* The calls of a scan and those of the goroutines beside it are a behaviour of
\* the registry: what is proved of the registry holds while scans run
\* (scan.go:190-209).
THEOREM ScanUsesTheRegistry == ScanSpec => Spec
<1>1. ScanInit => Init
  BY DEF ScanInit
<1>2. ScanInv /\ [ScanNext]_scanVars => [Next]_registry
  BY StepsAreOperations DEF ScanInv
<1>3. QED BY <1>1, <1>2, ScanInvHolds, PTL DEF ScanSpec, Spec

\* A target whose probe collided or went unanswered is asked again in every
\* later pass of the scan: when the scan is over, it was asked once in each
\* (scan.go:104-142, 220-237), whatever other goroutines do to the registry.
THEOREM DeferredTargetsAreAsked == ScanSpec => []DeferredTargetsAreAskedAgain
<1>1. ScanInv => DeferredTargetsAreAskedAgain
  BY DEF ScanInv, PassInv, DeferralInv, Ending, Exhausted, Decided, DeferredTargetsAreAskedAgain
<1>2. QED BY <1>1, ScanInvHolds, PTL

-----------------------------------------------------------------------------
\* Every answering face is confirmed

\* The faces whose confirmation is still to come.
Owed(s) ==
  CASE s.pc \in {"serial", "register", "alias"}  -> {s.address}
    [] s.pc \in {"join", "reload", "confirm"} -> {s.address, s.target}
    [] OTHER -> {}

\* b resolves to the entry of a, which is not nil, over an explicit relation.
Related(r, a, b) ==
  /\ r.entries[a] # Nil
  /\ a # b => b \in r.topology[a] /\ r.entries[b] = r.entries[a]

\* Every face that answered is confirmed, or will be; the calls in between have
\* prepared for it.
Confirming(s, r) ==
  /\ s.answered \subseteq Address
  /\ \A a \in s.answered : SlotConfirmed(r.addressTable[a]) \/ a \in Owed(s)
  /\ s.pc \in {"alias", "join"} => r.entries[s.address] # Nil /\ s.address # s.target
  /\ s.pc \in {"reload", "confirm"} => Related(r, s.address, s.target)

\* A call of Register, also one that retains a conflict, leaves its address an
\* entry, and every other confirmed face confirmed (registry_registration.go:10-113).
LEMMA CallRegisterResolves ==
  ASSUME FaceInv, NEW a \in Address, NEW o \in Observation, CallRegister(a, o), FaceInv'
  PROVE  /\ registry'.entries[a] # Nil
         /\ \A x \in Address : registry.entries[x] # Nil => registry'.entries[x] # Nil
         /\ \A x \in Others(a) : SlotConfirmed(registry.addressTable[x])
                                    => SlotConfirmed(registry'.addressTable[x])
<1>1. Typed(registry) /\ Sound(registry) /\ Symmetric(registry) /\ Typed(registry')
  BY DEF FaceInv, PartitionInv, IdentityInv, Typed, PointersType
<1>2. CASE Register(a, o)
  <2>1. Preserves(registry, registry') /\ registry'.entries[a] # Nil
    BY <1>1, <1>2, RegisterPreserves
  <2>2. Tells(registry, registry', a)
    BY <1>1, <1>2, RegisterTells
  <2>3. QED BY <1>1, <2>1, <2>2, ConfirmedStays DEF Preserves, Tells, Others
<1>3. CASE RetainedConflict(registry, a, o) /\ UNCHANGED registry
  BY <1>3 DEF RetainedConflict
<1>4. QED BY <1>2, <1>3 DEF CallRegister

\* AliasAddresses puts b into the group of a, and relates the two
\* (registry_alias.go:133-193).
LEMMA AliasRelates ==
  ASSUME FaceInv, NEW a \in Address, NEW b \in Address, a # b, registry.entries[a] # Nil,
         AliasAddresses(a, b), FaceInv'
  PROVE  /\ Related(registry', a, b) /\ OnlyMoves(registry, registry', b)
         /\ \A x \in Address : SlotConfirmed(registry.addressTable[x])
                                  => SlotConfirmed(registry'.addressTable[x])
<1>1. Typed(registry) /\ Sound(registry) /\ Symmetric(registry) /\ Typed(registry')
  BY DEF FaceInv, PartitionInv, IdentityInv, Typed, PointersType
<1>2. PICK heir \in Heirs(registry, b) :
         registry' = ReconcileQualifiedIdentityWitnessesLocked(
                         Advance(Aliased(registry, a, b, heir)))
  BY DEF AliasAddresses
<1>3. heir \in Address /\ GoodHeir(registry, b, heir)
  BY <1>1, HeirsType, HeirsAreGood
<1> DEFINE e == registry.entries[a]
           U == Ensured(registry, {a, b})
           V == MoveToGroup(U, e, b, heir)
           T == RecordIfJoined(V, a, b)
<1>4. Typed(U) /\ U.addressTable[a] # NoSlot /\ U.addressTable[b] # NoSlot
  BY <1>1, EnsuredYields DEF Yields
<1>5. Sound(U) /\ SameGroups(registry, U) /\ U.heap = registry.heap
  BY <1>1, EnsuredSound
<1>6. Aliased(registry, a, b, heir) = RecordIfJoined(Grouped(U, a, b, heir), a, b)
  BY DEF Aliased
<1> HIDE DEF U
<1>7. GoodHeir(U, b, heir) /\ e \in U.order /\ e # Nil /\ U.addressTable[a].Device = e
  BY <1>1, <1>3, <1>4, <1>5 DEF GoodHeir, SameGroups, Sound, Groups, Slots
<1>8. Grouped(U, a, b, heir) = V
  BY <1>7 DEF Grouped
<1>9. OnlyMoves(U, V, b) /\ V.entries[b] = e
  BY <1>3, <1>4, <1>5, <1>7, MoveToGroupSound
<1>10. Typed(V)
  BY <1>3, <1>4, <1>8, GroupedYields DEF Yields
<1>11. V.entries[a] = e
  BY <1>5, <1>9 DEF OnlyMoves, SameGroups
<1> HIDE DEF V, e
<1>12. T.entries = V.entries /\ b \in T.topology[a]
  BY <1>7, <1>9, <1>10, <1>11
  DEF RecordIfJoined, RecordTopologyAliasLocked, Typed, RegistryState
<1>13. Typed(T)
  BY <1>1, <1>3, <1>6, <1>8, AliasedYields DEF Yields
<1> HIDE DEF T
<1>14. SameFaces(T, registry') /\ registry'.entries = T.entries
  BY <1>2, <1>6, <1>8, <1>13, EndingsKeepFaces DEF T
<1>15. Related(registry', a, b)
  BY <1>7, <1>9, <1>11, <1>12, <1>14 DEF SameFaces, Related
<1>16. registry'.entries[a] = registry.entries[a]
  BY <1>11, <1>12, <1>14 DEF e
<1>17. Tells(registry, registry', a)
  BY <1>1, AliasAddressesTells
<1>18. OnlyMoves(registry, registry', b)
  BY <1>5, <1>9, <1>12, <1>14 DEF OnlyMoves, SameGroups
<1>19. QED BY <1>1, <1>15, <1>16, <1>17, <1>18, ConfirmedStays DEF Tells

\* confirmScanIdentity confirms the address it is asked for and those related to it
\* (registry_registration.go:28-50, 242-268).
LEMMA ConfirmScanIdentityReaches ==
  ASSUME FaceInv, NEW a \in Address, NEW b \in Address, Related(registry, a, b),
         ConfirmScanIdentity(a), FaceInv'
  PROVE  \A x \in Address : SlotConfirmed(registry.addressTable[x]) \/ x \in {a, b}
                                => SlotConfirmed(registry'.addressTable[x])
<1>1. Typed(registry) /\ Symmetric(registry) /\ Typed(registry')
  BY DEF FaceInv, PartitionInv, IdentityInv, Typed, PointersType
<1>2. /\ Tells(registry, registry', a)
      /\ registry'.entries = registry.entries /\ Reaches(registry, registry', a)
  BY <1>1, ConfirmScanIdentityTells
<1>3. SlotConfirmed(registry'.addressTable[a]) /\ SlotConfirmed(registry'.addressTable[b])
  BY <1>2 DEF Reaches, Related
<1>4. QED BY <1>1, <1>2, <1>3, ConfirmedStays DEF Tells

\* As long as the scan is the only one to use the registry, every step keeps its
\* promise (scan.go:133-217).
LEMMA ConfirmingContinues ==
  ASSUME ScanInv, FaceInv, FaceInv', Confirming(scan, registry), ScanStep
  PROVE  Confirming(scan', registry')
<1>1. DOMAIN scan = DOMAIN Idle
  BY DEF ScanInv, PassInv, DeferralInv
<1>2. scan.pc \in Recording => /\ scan.address \in Address /\ scan.target \in Address
                               /\ scan.info \in Observation
  BY DEF ScanInv, AnswerInv
<1>3. CASE UNCHANGED <<registry, elsewhere>> /\ Rests(scan, scan')
  BY <1>3 DEF Rests, Confirming, Owed, Recording
<1>4. CASE /\ UNCHANGED <<registry, elsewhere>>
           /\ scan.pending # <<>> /\ scan.pc = "probe" /\ Answer(scan, scan')
  <2>1. ScanNext
    BY DEF ScanNext
  <2>2. scan'.address \in Address
    BY <1>4, <2>1, AnswersContinue DEF ScanInv, AnswerInv, Answer, Recording
  <2>3. scan'.answered = scan.answered \union {scan'.address}
    BY <1>4 DEF Answer
  <2>4. scan'.pc \in {"serial", "register"} /\ scan.pc \notin Recording
    BY <1>4 DEF Answer
  <2>5. QED BY <1>4, <2>2, <2>3, <2>4 DEF Confirming, Owed, Recording
<1>5. CASE UNCHANGED <<registry, elsewhere>> /\ Serial(scan, scan')
  BY <1>5 DEF Serial, SameAnswer, Confirming, Owed
<1>6. ASSUME RegisterAnswer, NEW to \in {"alias", "confirm"},
             Record(scan, scan', "register", to),
             to = "confirm" <=> scan.address = scan.target
      PROVE  Confirming(scan', registry')
  <2>1. /\ registry'.entries[scan.address] # Nil
        /\ \A x \in Others(scan.address) : SlotConfirmed(registry.addressTable[x])
                                              => SlotConfirmed(registry'.addressTable[x])
    BY <1>2, <1>6, CallRegisterResolves DEF RegisterAnswer, Recording
  <2>2. /\ scan.pc = "register" /\ scan'.pc = to /\ SameAnswer(scan, scan')
    BY <1>6 DEF Record
  <2>3. \A a \in scan.answered : SlotConfirmed(registry.addressTable[a]) \/ a = scan.address
    BY <2>2 DEF Confirming, Owed
  <2>4. scan.address \in Owed(scan')
    BY <2>2 DEF SameAnswer, Owed
  <2>5. QED
    BY <1>6, <2>1, <2>2, <2>3, <2>4 DEF Confirming, SameAnswer, Others, Related
<1>7. CASE RegisterAlias /\ Record(scan, scan', "alias", "join")
  <2>1. /\ registry.entries[scan.address] # Nil => registry'.entries[scan.address] # Nil
        /\ \A x \in Others(scan.target) : SlotConfirmed(registry.addressTable[x])
                                              => SlotConfirmed(registry'.addressTable[x])
    BY <1>2, <1>7, CallRegisterResolves DEF RegisterAlias, Recording
  <2>2. scan.pc = "alias" /\ scan'.pc = "join" /\ SameAnswer(scan, scan')
    BY <1>7 DEF Record
  <2>3. \A a \in scan.answered : SlotConfirmed(registry.addressTable[a]) \/ a = scan.address
    BY <2>2 DEF Confirming, Owed
  <2>4. Owed(scan') = {scan.address, scan.target}
    BY <2>2 DEF SameAnswer, Owed
  <2>5. QED
    BY <2>1, <2>2, <2>3, <2>4 DEF Confirming, SameAnswer, Others
<1>8. CASE JoinAlias /\ Record(scan, scan', "join", "reload")
  <2>1. scan.pc = "join" /\ scan'.pc = "reload" /\ SameAnswer(scan, scan')
    BY <1>8 DEF Record
  <2>2. registry.entries[scan.address] # Nil /\ scan.address # scan.target
    BY <2>1 DEF Confirming
  <2>3. /\ Related(registry', scan.address, scan.target)
        /\ \A x \in Address : SlotConfirmed(registry.addressTable[x])
                                 => SlotConfirmed(registry'.addressTable[x])
    BY <1>2, <1>8, <2>1, <2>2, AliasRelates DEF JoinAlias, Recording
  <2>4. Owed(scan') = Owed(scan)
    BY <2>1 DEF SameAnswer, Owed
  <2>5. QED BY <2>1, <2>3, <2>4 DEF Confirming, SameAnswer
<1>9. CASE UNCHANGED <<registry, elsewhere>> /\ Record(scan, scan', "reload", "confirm")
  BY <1>9 DEF Record, SameAnswer, Confirming, Owed
<1>10. CASE Confirm /\ scan.pc = "confirm" /\ scan'.pc = "lookup" /\ SameAnswer(scan, scan')
  <2>1. Related(registry, scan.address, scan.target)
    BY <1>10 DEF Confirming
  <2>2. ConfirmScanIdentity(scan.address)
    BY <1>10, <2>1 DEF Confirm, Related
  <2>3. \A x \in Address :
           SlotConfirmed(registry.addressTable[x]) \/ x \in {scan.address, scan.target}
              => SlotConfirmed(registry'.addressTable[x])
    BY <1>2, <1>10, <2>1, <2>2, ConfirmScanIdentityReaches DEF Recording
  <2>4. Owed(scan) = {scan.address, scan.target}
    BY <1>10 DEF Owed
  <2>5. QED BY <1>10, <2>3, <2>4 DEF Confirming, SameAnswer
<1>11. QED BY <1>1, <1>3, <1>4, <1>5, <1>6, <1>7, <1>8, <1>9, <1>10, ScanStepIsOneOf

\* Another goroutine's call is counted, and the count is never taken back.
Alone(s, r, n) == n \in Nat /\ (n = 0 => Confirming(s, r))

\* It holds of every scan that it counts (scan.go:133-217).
LEMMA AloneHolds == ScanSpec => []Alone(scan, registry, elsewhere)
<1>1. ScanInit => Alone(scan, registry, elsewhere)
  BY DEF ScanInit, Idle, Alone, Confirming
<1>2. ScanInv /\ FaceInv /\ FaceInv' /\ Alone(scan, registry, elsewhere) /\ [ScanNext]_scanVars
        => Alone(scan, registry, elsewhere)'
  <2> SUFFICES ASSUME ScanInv, FaceInv, FaceInv', Alone(scan, registry, elsewhere),
                      [ScanNext]_scanVars
               PROVE  Alone(scan', registry', elsewhere')
    BY DEF Alone, Confirming, Owed, Related
  <2>1. CASE ScanStep
    <3>1. elsewhere' = elsewhere
      <4>1. DOMAIN scan = DOMAIN Idle
        BY DEF ScanInv, PassInv, DeferralInv
      <4>2. QED
        BY <2>1, <4>1, ScanStepIsOneOf DEF RegisterAnswer, RegisterAlias, JoinAlias, Confirm
    <3>2. QED BY <2>1, <3>1, ConfirmingContinues DEF Alone
  <2>2. CASE Elsewhere
    BY <2>2 DEF Elsewhere, Alone
  <2>3. CASE UNCHANGED scanVars
    BY <2>3 DEF scanVars
  <2>4. QED BY <2>1, <2>2, <2>3 DEF ScanNext
<1>3. ScanSpec => []FaceInv
  BY ScanUsesTheRegistry, FaceInvHolds, PTL
<1>4. QED BY <1>1, <1>2, <1>3, ScanInvHolds, PTL DEF ScanSpec

\* When a scan is over, every face that answered is confirmed, though later answers
\* split and joined the groups, unless another goroutine used the registry meanwhile
\* (scan.go:190-209).
THEOREM AnsweringFacesGetConfirmed == ScanSpec => []AnsweringFacesAreConfirmed
<1>1. Alone(scan, registry, elsewhere) => AnsweringFacesAreConfirmed
  BY DEF Alone, Confirming, Owed, SlotConfirmed, AnsweringFacesAreConfirmed
<1>2. QED BY <1>1, AloneHolds, PTL

-----------------------------------------------------------------------------
\* A scan comes to an end

ScanLength == Cardinality(Address)
PassLength == PerProbe * ScanLength + 2

\* What the passes may still take, and what one answer and the result may.
PassesCost(s) == (scanCollisionMaxPasses - s.pass) * PassLength + PerProbe * Len(s.pending) + 1
AnswerCost(s, base) == base + StepsTo[s.pc] - s.chunks + 3 * Len(s.entries) + 1
Progress(s) == StepsTo[s.pc] - s.chunks + 3 * Len(s.entries)

Cost(s) ==
  CASE s.pc \in {"done", "failed"} -> 0
    [] s.pc = "idle" -> 6 * PassLength
    [] OTHER -> AnswerCost(s, IF s.pc \in Active THEN PassesCost(s) ELSE 0)

\* Entries are listed, and at most four chunks of one serial are read.
Counted(s) ==
  /\ \E S : s.entries \in Seq(S)
  /\ s.chunks \in 0 .. 4
  /\ s.pc # "serial" => s.chunks = 0

\* The number of addresses is finite, they are bytes (scan.go:277-284).
LEMMA LengthsAreNumbers ==
  /\ IsFiniteSet(Address)
  /\ ScanLength \in Nat
  /\ PassLength \in Nat /\ PassLength = 20 * ScanLength + 2
<1>1. IsFiniteSet(0 .. 255)
  <2>1. 0 \in Int /\ 255 \in Int
    OBVIOUS
  <2>2. QED BY <2>1, FS_Interval
<1>2. IsFiniteSet(Address)
  BY <1>1, TargetAssumption, FS_Subset
<1>3. ScanLength \in Nat
  BY <1>2, FS_CardinalityType DEF ScanLength
<1>4. QED BY <1>2, <1>3 DEF PassLength, PerProbe

\* A list without duplicates is no longer than there are addresses
\* (scan.go:460-474).
LEMMA DistinctIsShort ==
  ASSUME NEW q \in Seq(Address), Distinct(q)
  PROVE  Len(q) \in 0 .. ScanLength
<1>1. Len(q) \in Nat /\ DOMAIN q = 1 .. Len(q) /\ q \in [1 .. Len(q) -> Address]
  OBVIOUS
<1>2. q \in Injection(1 .. Len(q), Address)
  BY <1>1 DEF Distinct, Injection, IsInjective
<1>3. Cardinality(1 .. Len(q)) = Len(q)
  BY <1>1, FS_Interval
<1>4. QED BY <1>1, <1>2, <1>3, LengthsAreNumbers, FS_Injection DEF ScanLength

\* What is left of the passes is a number, and less when one is over.
LEMMA PassesCostType ==
  ASSUME NEW s, Deferring(s)
  PROVE  /\ Len(s.pending) \in 0 .. ScanLength
         /\ (scanCollisionMaxPasses - s.pass) * PassLength \in Nat
         /\ PassesCost(s) \in Nat /\ PassesCost(s) >= 1
         /\ PassesCost(s) = (scanCollisionMaxPasses - s.pass) * PassLength
                            + 20 * Len(s.pending) + 1
<1>1. Len(s.pending) \in 0 .. ScanLength
  BY DistinctIsShort DEF Deferring, Lists
<1>2. scanCollisionMaxPasses - s.pass \in Nat
  BY DEF Deferring, Lists, scanCollisionMaxPasses
<1>3. (scanCollisionMaxPasses - s.pass) * PassLength \in Nat
  BY <1>2, LengthsAreNumbers
<1>4. QED BY <1>1, <1>3, LengthsAreNumbers DEF PassesCost, PerProbe

\* The steps an answer may take are counted down (scan.go:133-217, 256-275).
LEMMA ProgressType ==
  ASSUME NEW s, Counted(s), s.pc \in Active \union Ending
  PROVE  /\ Progress(s) \in Nat
         /\ \A base \in Nat : AnswerCost(s, base) = base + Progress(s) + 1
<1>1. Len(s.entries) \in Nat
  BY DEF Counted
<1>2. StepsTo[s.pc] \in Nat /\ (s.pc = "serial" => StepsTo[s.pc] = 16)
  <2>1. s.pc \in DOMAIN StepsTo
    BY DEF StepsTo, Active, Ending
  <2>2. QED BY <2>1 DEF StepsTo
<1>3. s.chunks \in 0 .. 4 /\ (s.pc # "serial" => s.chunks = 0)
  BY DEF Counted
<1> DEFINE t == StepsTo[s.pc]
           c == s.chunks
           l == Len(s.entries)
<1>4. /\ Progress(s) = t - c + 3 * l
      /\ \A base : AnswerCost(s, base) = base + t - c + 3 * l + 1
  BY DEF AnswerCost, Progress
<1>5. l \in Nat /\ c \in 0 .. 4 /\ t \in Nat /\ t >= c
  BY <1>1, <1>2, <1>3
<1> HIDE DEF t, c, l
<1>6. QED BY <1>4, <1>5

\* The cost of a state of the scan (no single line of the code).
LEMMA CostOf ==
  ASSUME NEW s, Counted(s)
  PROVE  /\ s.pc \in Active /\ Deferring(s) =>
               Cost(s) = PassesCost(s) + Progress(s) + 1 /\ Cost(s) \in Nat /\ Cost(s) >= 1
         /\ s.pc \in Ending \ {"done"} => Cost(s) = Progress(s) + 1 /\ Cost(s) \in Nat
         /\ s.pc \in {"done", "failed"} => Cost(s) = 0
         /\ s.pc = "idle" => Cost(s) = 6 * PassLength
<1>1. CASE s.pc \in Active
  <2>1. Cost(s) = AnswerCost(s, PassesCost(s))
    BY <1>1 DEF Cost, Active
  <2>2. CASE Deferring(s)
    <3>1. PassesCost(s) \in Nat
      BY <2>2, PassesCostType
    <3>2. Progress(s) \in Nat /\ AnswerCost(s, PassesCost(s)) = PassesCost(s) + Progress(s) + 1
      BY <1>1, <3>1, ProgressType
    <3>3. QED BY <1>1, <2>1, <3>1, <3>2 DEF Active, Ending
  <2>3. QED BY <1>1, <2>2 DEF Active, Ending
<1>2. CASE s.pc \in Ending \ {"done"}
  <2>1. Cost(s) = AnswerCost(s, 0)
    BY <1>2 DEF Cost, Active, Ending
  <2>2. QED BY <1>2, <2>1, ProgressType DEF Active, Ending
<1>3. CASE s.pc \in Resting \union {"done"}
  BY <1>3 DEF Cost, Resting, Active, Ending
<1>4. CASE s.pc \notin Active \union Ending \union Resting
  BY <1>4 DEF Active, Ending, Resting
<1>5. QED BY <1>1, <1>2, <1>3, <1>4

\* The cost is what ScanComesToAnEnd counts (no single line of the code).
LEMMA CostIsStepsLeft ==
  scan.pc \in Active \union Ending \union Resting => StepsLeft = Cost(scan)
<1> SUFFICES ASSUME scan.pc \in Active \union Ending \union Resting
             PROVE  StepsLeft = Cost(scan)
  OBVIOUS
<1>1. CASE scan.pc \in {"done", "failed"}
  BY <1>1 DEF StepsLeft, Cost
<1>2. CASE scan.pc = "idle"
  BY <1>2 DEF StepsLeft, Cost, PassLength, ScanLength
<1>3. CASE scan.pc \in Active
  BY <1>3 DEF StepsLeft, Cost, PassLength, ScanLength, PassesCost, AnswerCost, Active
<1>4. CASE scan.pc \in {"display", "resolve", "keep"}
  BY <1>4 DEF StepsLeft, Cost, AnswerCost, Active
<1>5. QED BY <1>1, <1>2, <1>3, <1>4 DEF Active, Ending, Resting

\* A step to t leaves fewer steps than s had.
Costs(s, t) == Counted(t) /\ Cost(t) \in Nat /\ Cost(t) < Cost(s)

\* The values of StepsTo (no single line of the code).
LEMMA StepsToValues ==
  /\ StepsTo["probe"] = 0 /\ StepsTo["serial"] = 16 /\ StepsTo["register"] = 10
  /\ StepsTo["alias"] = 9 /\ StepsTo["join"] = 8 /\ StepsTo["reload"] = 7
  /\ StepsTo["confirm"] = 6 /\ StepsTo["lookup"] = 5 /\ StepsTo["collect"] = 4
  /\ StepsTo["display"] = 0 /\ StepsTo["resolve"] = 2 /\ StepsTo["keep"] = 1
BY DEF StepsTo

\* A step that is not about the passes (scan.go:133-217).
LEMMA SameBookCosts ==
  ASSUME NEW s, Counted(s), Deferring(s), s.pc \in Active, NEW t, Counted(t), t.pc \in Active,
         SameBook(s, t), Progress(t) < Progress(s)
  PROVE  Costs(s, t)
<1>1. PassesCost(t) = PassesCost(s)
  BY DEF SameBook, PassesCost
<1>2. Deferring(t)
  BY DEF SameBook, Deferring, Lists, Waiting
<1>3. PassesCost(s) \in Nat
  BY PassesCostType
<1>4. Progress(s) \in Nat /\ Progress(t) \in Nat
  BY ProgressType
<1>5. QED BY <1>1, <1>2, <1>3, <1>4, CostOf DEF Costs

\* A scan that ends, or is given up, has nothing left to do (scan.go:106-126, 275).
LEMMA OverCosts ==
  ASSUME NEW s, Counted(s),
         \/ s.pc \in Active /\ Deferring(s)
         \/ s.pc \in Ending \ {"done"}
         \/ s.pc = "idle",
         NEW t, t.pc \in {"done", "failed"}, Counted(t)
  PROVE  Costs(s, t)
<1>1. Cost(t) = 0
  BY CostOf
<1>2. 6 * PassLength >= 1 /\ 6 * PassLength \in Nat
  BY LengthsAreNumbers
<1>3. s.pc \in Ending => Progress(s) \in Nat
  BY ProgressType
<1>4. Cost(s) >= 1 /\ Cost(s) \in Nat
  BY <1>2, <1>3, CostOf
<1>5. QED BY <1>1, <1>4 DEF Costs

\* The targets of the first pass are no more than there are addresses
\* (scan.go:69-98).
LEMMA BeginCosts ==
  ASSUME scan = Idle, NEW targets \in TargetLists, Begin(targets) \/ BeginDirected(targets)
  PROVE  Costs(scan, scan')
<1>1. DeferralInv(scan')
  BY BeginDefers
<1>2. \/ scan'.pc = "failed"
      \/ scan'.pc = "probe" /\ scan'.pass = 0
  BY DEF Begin, BeginDirected, Started, Goto, Idle
<1>3. scan'.entries = <<>> /\ scan'.chunks = 0
  BY DEF Begin, BeginDirected, Started, Goto, Idle
<1>4. Counted(scan')
  BY <1>3 DEF Counted
<1>5. Counted(scan) /\ scan.pc = "idle"
  <2>1. Idle.entries = <<>> /\ Idle.chunks = 0 /\ Idle.pc = "idle"
    BY DEF Idle
  <2>2. QED BY <2>1 DEF Counted
<1>6. CASE scan'.pc = "failed"
  BY <1>4, <1>5, <1>6, OverCosts
<1>7. CASE scan'.pc = "probe" /\ scan'.pass = 0
  <2>1. Deferring(scan') /\ scan'.pc \in Active
    BY <1>1, <1>7 DEF DeferralInv, Active
  <2>2. /\ Len(scan'.pending) \in 0 .. ScanLength
        /\ PassesCost(scan') = 3 * PassLength + 20 * Len(scan'.pending) + 1
    BY <1>7, <2>1, PassesCostType DEF scanCollisionMaxPasses
  <2>3. Progress(scan') = 0
    BY <1>3, <1>7, StepsToValues DEF Progress
  <2>4. Cost(scan') = PassesCost(scan') + Progress(scan') + 1 /\ Cost(scan') \in Nat
    BY <1>4, <2>1, CostOf
  <2>5. Cost(scan') < 6 * PassLength
    <3> DEFINE p == PassLength
               m == Len(scan'.pending)
               c == PassesCost(scan')
               n == ScanLength
    <3>1. /\ p = 20 * n + 2 /\ n \in Nat /\ m \in 0 .. n
          /\ c = 3 * p + 20 * m + 1 /\ Cost(scan') = c + 0 + 1
      BY <2>2, <2>3, <2>4, LengthsAreNumbers
    <3> HIDE DEF p, m, c, n
    <3>2. Cost(scan') < 6 * p
      BY <3>1
    <3>3. QED BY <3>2 DEF p
  <2>6. QED BY <1>4, <1>5, <2>4, <2>5, CostOf DEF Costs
<1>8. QED BY <1>2, <1>6, <1>7

\* One target fewer is pending, and its answer takes no more than a probe is counted
\* for (scan.go:104-148).
LEMMA ProbedCosts ==
  ASSUME NEW s, Counted(s), Deferring(s), s.pc = "probe", s.pending # <<>>,
         NEW t, DeferralInv(t), t.pass = s.pass, t.pending = Tail(s.pending),
         t.entries = s.entries, t.chunks = s.chunks, t.pc \in {"probe", "serial", "register"}
  PROVE  Costs(s, t)
<1>1. Counted(t) /\ s.chunks = 0
  BY DEF Counted
<1>2. Deferring(t) /\ t.pc \in Active /\ s.pc \in Active
  BY DEF DeferralInv, Active
<1>3. Len(t.pending) = Len(s.pending) - 1 /\ Len(s.pending) \in Nat
  BY DEF Deferring, Lists
<1> DEFINE p == (scanCollisionMaxPasses - s.pass) * PassLength
           m == Len(s.pending)
           l == Len(s.entries)
           u == StepsTo[t.pc]
<1>4. /\ p \in Nat
      /\ PassesCost(s) = p + 20 * m + 1
      /\ PassesCost(t) = p + 20 * (m - 1) + 1
  <2>1. Len(t.pending) = m - 1 /\ t.pass = s.pass
    BY <1>3
  <2>2. /\ p \in Nat /\ PassesCost(s) = p + 20 * m + 1
        /\ PassesCost(t) = p + 20 * Len(t.pending) + 1
    BY <1>2, PassesCostType
  <2>3. QED BY <2>1, <2>2
<1>5. u \in 0 .. 16 /\ StepsTo[s.pc] = 0 /\ l \in Nat
  BY StepsToValues DEF Counted
<1>6. Progress(s) = 0 - 0 + 3 * l /\ Progress(t) = u - 0 + 3 * l
  BY <1>1, <1>5 DEF Progress
<1>7. /\ Cost(s) = PassesCost(s) + Progress(s) + 1
      /\ Cost(t) = PassesCost(t) + Progress(t) + 1 /\ Cost(t) \in Nat
  BY <1>1, <1>2, CostOf
<1>8. m \in Nat
  BY <1>3
<1> HIDE DEF p, m, l, u
<1>9. Cost(t) < Cost(s)
  BY <1>4, <1>5, <1>6, <1>7, <1>8
<1>10. QED BY <1>1, <1>7, <1>9 DEF Costs

\* A probe ends in one of these ways (scan.go:104-148).
LEMMA ProbeCosts ==
  ASSUME Counted(scan), DeferralInv(scan), Probe \/ PassOver
  PROVE  Costs(scan, scan')
<1>1. /\ scan.pc = "probe" /\ scan.pending # <<>> /\ Deferring(scan) /\ DOMAIN scan = DOMAIN Idle
  BY DEF Probe, PassOver, DeferralInv, Active
<1>2. DeferralInv(scan')
  BY ProbeDefers
<1> DEFINE h == Head(scan.pending)
           Probed(t) == /\ t.pass = scan.pass /\ t.pending = Tail(scan.pending)
                        /\ t.entries = scan.entries /\ t.chunks = scan.chunks
                        /\ t.pc \in {"probe", "serial", "register"}
           Over(t) == t.pc = "failed" /\ t.entries = <<>> /\ t.chunks = 0
<1>3. Probed(Ineligible(scan, h))
  BY <1>1 DEF Ineligible, Idle
<1>4. \A err : Probed(AfterError(scan, h, err)) \/ Over(AfterError(scan, h, err))
  <2>1. Probed(Collided(scan, h))
    BY <1>1 DEF Collided, Asked, Idle
  <2>2. Probed(Retried(scan, h))
    BY <1>1 DEF Retried, Asked, Idle
  <2>3. Probed(Skipped(scan, h))
    BY <1>1 DEF Skipped, Asked, Idle
  <2>4. Over(Failed(scan, h))
    BY DEF Failed, Goto, Idle
  <2> HIDE DEF Probed, Over, h
  <2>5. QED BY <2>1, <2>2, <2>3, <2>4 DEF AfterError
<1>5. \A r : Probed(Identified(scan, h, r))
  BY <1>1 DEF Identified, Asked, Idle
<1>6. Probed(scan') \/ Over(scan')
  <2> HIDE DEF Probed, Over
  <2>1. \A r : Probed(AfterResponse(scan, h, r)) \/ Over(AfterResponse(scan, h, r))
    BY <1>4, <1>5 DEF AfterResponse
  <2>2. QED BY <1>3, <1>4, <2>1 DEF Probe, PassOver
<1>7. CASE Probed(scan')
  BY <1>1, <1>2, <1>7, ProbedCosts
<1>8. CASE Over(scan')
  <2>1. Counted(scan')
    BY <1>8 DEF Counted
  <2>2. QED BY <1>1, <1>8, <2>1, OverCosts DEF Active
<1>9. QED BY <1>6, <1>7, <1>8

\* Another pass, of which there are few, or none (scan.go:220-237).
LEMMA PassEndCosts ==
  ASSUME Counted(scan), DeferralInv(scan), NextPass \/ LastPass
  PROVE  Costs(scan, scan')
<1> DEFINE s == scan
           t == scan'
<1>1. /\ s.pc = "probe" /\ s.pending = <<>> /\ Deferring(s) /\ DOMAIN s = DOMAIN Idle
      /\ Len(s.pending) = 0
  BY DEF NextPass, LastPass, PassEnded, DeferralInv, Active
<1>2. DeferralInv(t)
  BY PassEndDefers
<1>3. t.entries = s.entries /\ t.chunks = s.chunks
  BY <1>1 DEF NextPass, LastPass, Goto, Idle
<1>4. Counted(t) /\ s.chunks = 0 /\ t.chunks = 0
  BY <1>1, <1>3 DEF Counted
<1> DEFINE p == PassLength
           l == Len(s.entries)
           k == scanCollisionMaxPasses - s.pass
<1>5. p = 20 * ScanLength + 2 /\ p \in Nat /\ ScanLength \in Nat /\ l \in Nat
  BY LengthsAreNumbers DEF Counted
<1>6. k \in 0 .. 3 /\ k * p \in Nat
  BY <1>1, <1>5 DEF Deferring, Lists, scanCollisionMaxPasses
<1>7. Cost(s) = k * p + 3 * l + 2
  <2>1. Progress(s) = 0 - 0 + 3 * l
    BY <1>1, <1>4, StepsToValues DEF Progress
  <2>2. PassesCost(s) = k * p + 20 * 0 + 1
    BY <1>1, PassesCostType
  <2>3. Cost(s) = PassesCost(s) + Progress(s) + 1
    BY <1>1, CostOf DEF Active
  <2> HIDE DEF k, p, l
  <2>4. QED BY <1>5, <1>6, <2>1, <2>2, <2>3
<1>8. CASE NextPass
  <2>1. t.pc = "probe" /\ t.pass = s.pass + 1 /\ s.pass < scanCollisionMaxPasses
    BY <1>1, <1>8 DEF NextPass, PassesLeft, Idle
  <2>2. Deferring(t) /\ t.pc \in Active
    BY <1>2, <2>1 DEF DeferralInv, Active
  <2> DEFINE m == Len(t.pending)
  <2>3. m \in 0 .. ScanLength /\ PassesCost(t) = (k - 1) * p + 20 * m + 1
    <3>1. scanCollisionMaxPasses - t.pass = k - 1
      BY <1>1, <2>1 DEF Deferring, Lists, scanCollisionMaxPasses
    <3> HIDE DEF k
    <3>2. QED BY <2>2, <3>1, PassesCostType
  <2>4. Progress(t) = 0 - 0 + 3 * l
    BY <1>3, <1>4, <2>1, StepsToValues DEF Progress
  <2>5. Cost(t) = PassesCost(t) + Progress(t) + 1 /\ Cost(t) \in Nat
    BY <1>4, <2>2, CostOf
  <2>6. (k - 1) * p = k * p - p
    <3> HIDE DEF k, p
    <3>1. QED BY <1>5, <1>6
  <2> DEFINE q == k * p
             r == (k - 1) * p
             n == ScanLength
  <2>7. Cost(t) < Cost(s)
    <3>1. /\ r = q - p /\ q \in Nat /\ p = 20 * n + 2 /\ n \in Nat /\ m \in 0 .. n /\ l \in Nat
          /\ PassesCost(t) = r + 20 * m + 1 /\ Progress(t) = 0 - 0 + 3 * l
          /\ Cost(t) = PassesCost(t) + Progress(t) + 1 /\ Cost(s) = q + 3 * l + 2
      BY <1>5, <1>6, <1>7, <2>3, <2>4, <2>5, <2>6
    <3> HIDE DEF q, r, n, m, l, p
    <3>2. QED BY <3>1
  <2>8. QED BY <1>4, <2>5, <2>7 DEF Costs
<1>9. CASE LastPass
  <2>1. t.pc = "display"
    BY <1>1, <1>9 DEF LastPass, Goto, Idle
  <2>2. Progress(t) = 0 - 0 + 3 * l
    BY <1>3, <1>4, <2>1, StepsToValues DEF Progress
  <2>3. Cost(t) = Progress(t) + 1 /\ Cost(t) \in Nat
    BY <1>4, <2>1, CostOf DEF Ending
  <2> DEFINE q == k * p
  <2>4. Cost(t) < Cost(s)
    <3>1. q \in Nat /\ Cost(s) = q + 3 * l + 2
      BY <1>6, <1>7
    <3> HIDE DEF q, l
    <3>2. QED BY <1>5, <2>2, <2>3, <3>1
  <2>5. QED BY <1>4, <2>3, <2>4 DEF Costs
<1>10. QED BY <1>8, <1>9

\* A handle is added to the list (scan.go:213-217).
LEMMA AppendCounts ==
  ASSUME NEW q, NEW e, \E S : q \in Seq(S)
  PROVE  (\E S : Append(q, e) \in Seq(S)) /\ Len(Append(q, e)) = Len(q) + 1
<1>1. PICK S : q \in Seq(S)
  OBVIOUS
<1>2. q \in Seq(S \union {e})
  BY <1>1
<1>3. Append(q, e) \in Seq(S \union {e}) /\ Len(Append(q, e)) = Len(q) + 1
  BY <1>2
<1>4. QED BY <1>3

\* The serial and the calls of the registry come one after the other
\* (scan.go:133-209, 286-340).
LEMMA AnswerStepCosts ==
  ASSUME Counted(scan), DeferralInv(scan),
         \/ \E text \in BOOLEAN : ReadChunk(text)
         \/ ChunkMissing \/ ReadSerial
         \/ RegisterAnswer \/ RegisterAlias \/ JoinAlias \/ Reload \/ Confirm
         \/ LookupConfirmed
  PROVE  Costs(scan, scan')
<1> DEFINE l == Len(scan.entries)
<1>1. DOMAIN scan = DOMAIN Idle /\ l \in Nat /\ scan.chunks \in 0 .. 4
  BY DEF DeferralInv, Counted
<1>2. CASE \E text \in BOOLEAN : ReadChunk(text)
  <2>1. /\ scan.pc = "serial" /\ scan'.pc = "serial" /\ scan.chunks < 4
        /\ scan'.chunks = scan.chunks + 1 /\ scan'.entries = scan.entries
    BY <1>1, <1>2 DEF ReadChunk, Idle
  <2>2. Counted(scan')
    BY <1>1, <2>1 DEF Counted
  <2>3. Progress(scan') < Progress(scan)
    <3>1. /\ Progress(scan) = 16 - scan.chunks + 3 * l
          /\ Progress(scan') = 16 - (scan.chunks + 1) + 3 * l
      BY <2>1, StepsToValues DEF Progress
    <3> HIDE DEF l
    <3>2. QED BY <1>1, <3>1
  <2>4. QED BY <1>2, <2>1, <2>2, <2>3, OtherStepsAreAside, SameBookCosts
        DEF Aside, Active, DeferralInv
<1>3. CASE ChunkMissing \/ ReadSerial
  <2>1. /\ scan.pc = "serial" /\ scan'.pc = "register"
        /\ scan'.chunks = 0 /\ scan'.entries = scan.entries
    <3> DEFINE t == SerialRead(scan)
    <3>1. /\ DOMAIN t = DOMAIN Idle /\ t.pc = "register"
          /\ t.chunks = 0 /\ t.entries = scan.entries
      BY <1>1 DEF SerialRead, Goto, Idle
    <3>2. CASE ChunkMissing
      BY <3>1, <3>2 DEF ChunkMissing
    <3>3. CASE ReadSerial
      <4>1. PICK serial : scan' = [t EXCEPT !.info["SerialNumber"] = serial]
        BY <3>3 DEF ReadSerial
      <4> HIDE DEF t
      <4> DEFINE info == [t.info EXCEPT !["SerialNumber"] = serial]
      <4>2. scan' = [t EXCEPT !.info = info]
        BY <4>1
      <4> HIDE DEF info
      <4>3. QED BY <3>1, <3>3, <4>2 DEF ReadSerial, Idle
    <3>4. QED BY <1>3, <3>2, <3>3
  <2>2. Counted(scan')
    BY <2>1 DEF Counted
  <2>3. Progress(scan') < Progress(scan)
    <3>1. /\ Progress(scan) = 16 - scan.chunks + 3 * l
          /\ Progress(scan') = 10 - 0 + 3 * l
      BY <2>1, StepsToValues DEF Progress
    <3> HIDE DEF l
    <3>2. QED BY <1>1, <3>1
  <2>4. QED BY <1>3, <2>1, <2>2, <2>3, OtherStepsAreAside, SameBookCosts
        DEF Aside, Active, DeferralInv
<1>4. CASE RegisterAnswer \/ RegisterAlias \/ JoinAlias \/ Reload \/ Confirm \/ LookupConfirmed
  <2>1. scan'.chunks = scan.chunks /\ scan'.entries = scan.entries
    BY <1>1, <1>4
    DEF RegisterAnswer, RegisterAlias, JoinAlias, Reload, Confirm, LookupConfirmed, Goto, Idle
  <2>2. /\ scan.pc # "serial" /\ scan.pc \in Active /\ scan'.pc \in Active
        /\ StepsTo[scan.pc] \in Nat /\ StepsTo[scan'.pc] \in Nat
        /\ StepsTo[scan'.pc] < StepsTo[scan.pc]
    <3>1. \/ scan.pc = "register" /\ scan'.pc \in {"alias", "confirm"}
          \/ scan.pc = "alias" /\ scan'.pc = "join"
          \/ scan.pc = "join" /\ scan'.pc = "reload"
          \/ scan.pc = "reload" /\ scan'.pc = "confirm"
          \/ scan.pc = "confirm" /\ scan'.pc = "lookup"
          \/ scan.pc = "lookup" /\ scan'.pc = "collect"
      BY <1>1, <1>4
      DEF RegisterAnswer, RegisterAlias, JoinAlias, Reload, Confirm, LookupConfirmed, Goto, Idle
    <3>2. QED BY <3>1, StepsToValues DEF Active
  <2>3. Counted(scan') /\ scan.chunks = 0
    BY <2>1, <2>2 DEF Counted
  <2>4. Progress(scan') < Progress(scan)
    <3> DEFINE u == StepsTo[scan.pc]
               v == StepsTo[scan'.pc]
    <3>1. Progress(scan) = u - 0 + 3 * l /\ Progress(scan') = v - 0 + 3 * l
      BY <2>1, <2>3 DEF Progress
    <3>2. u \in Nat /\ v \in Nat /\ v < u
      BY <2>2
    <3> HIDE DEF u, v, l
    <3>3. QED BY <1>1, <3>1, <3>2
  <2>5. QED BY <1>4, <2>2, <2>3, <2>4, OtherStepsAreAside, SameBookCosts
        DEF Aside, DeferralInv
<1>5. QED BY <1>2, <1>3, <1>4

\* The entry of an answer is collected once (scan.go:213-217).
LEMMA CollectCosts ==
  ASSUME Counted(scan), DeferralInv(scan), Collect
  PROVE  Costs(scan, scan')
<1> DEFINE c == Collected(scan, PrimaryDisplayAddress(scan.entry))
           l == Len(scan.entries)
<1>1. DOMAIN scan = DOMAIN Idle /\ l \in Nat /\ scan.pc = "collect" /\ scan.chunks = 0
  BY DEF DeferralInv, Counted, Collect
<1>2. /\ DOMAIN c = DOMAIN Idle /\ c.chunks = 0
      /\ c.entries = scan.entries \/ c.entries = Append(scan.entries, scan.entry)
  BY <1>1 DEF Collected, Idle
<1>3. scan' = [c EXCEPT !.pc = "probe", !.target = 0, !.address = 0,
                        !.info = NoInfo, !.entry = Nil]
  BY DEF Collect
<1> HIDE DEF c
<1>4. scan'.pc = "probe" /\ scan'.chunks = 0 /\ scan'.entries = c.entries
  BY <1>2, <1>3 DEF Idle
<1>5. (\E S : scan'.entries \in Seq(S)) /\ Len(scan'.entries) \in {l, l + 1}
  <2>1. \E S : scan.entries \in Seq(S)
    BY DEF Counted
  <2>2. CASE c.entries = scan.entries
    BY <1>4, <2>1, <2>2
  <2>3. CASE c.entries = Append(scan.entries, scan.entry)
    <3>1. (\E S : c.entries \in Seq(S)) /\ Len(c.entries) = l + 1
      BY <2>1, <2>3, AppendCounts
    <3>2. QED BY <1>4, <3>1
  <2>4. QED BY <1>2, <2>2, <2>3
<1>6. Counted(scan')
  BY <1>4, <1>5 DEF Counted
<1> DEFINE m == Len(scan'.entries)
<1>7. Progress(scan) = 4 - 0 + 3 * l /\ Progress(scan') = 0 - 0 + 3 * m
  BY <1>1, <1>4, StepsToValues DEF Progress
<1>8. Progress(scan') < Progress(scan)
  <2>1. m \in {l, l + 1} /\ l \in Nat
    BY <1>1, <1>5
  <2> HIDE DEF l, m
  <2>2. QED BY <1>7, <2>1
<1>9. QED BY <1>1, <1>4, <1>6, <1>8, OtherStepsAreAside, SameBookCosts
      DEF Aside, Active, DeferralInv

\* A scan that is aborted has nothing left to do (scan.go:106, 228-235).
LEMMA AbortCosts ==
  ASSUME Counted(scan), DeferralInv(scan), Abort
  PROVE  Costs(scan, scan')
<1>1. scan.pc \in Active /\ Deferring(scan)
  BY DEF Abort, PassEnded, Active, DeferralInv
<1>2. scan'.pc = "failed" /\ scan'.entries = <<>> /\ scan'.chunks = 0
  BY DEF Abort, Goto, Idle
<1>3. Counted(scan')
  BY <1>2 DEF Counted
<1>4. QED BY <1>1, <1>2, <1>3, OverCosts

\* Each collected handle is taken off, resolved and kept, until none is left
\* (scan.go:256-275).
LEMMA ResultCosts ==
  ASSUME Counted(scan), DeferralInv(scan), ReadDisplay \/ Resolve \/ Keep \/ Return
  PROVE  Costs(scan, scan')
<1> DEFINE l == Len(scan.entries)
           m == Len(scan'.entries)
<1>1. DOMAIN scan = DOMAIN Idle /\ l \in Nat
  BY DEF DeferralInv, Counted
<1>2. CASE ReadDisplay
  <2>1. /\ scan.pc = "display" /\ scan.entries # <<>>
        /\ scan'.pc = "resolve" /\ scan'.entries = Tail(scan.entries)
        /\ scan'.chunks = scan.chunks
    BY <1>1, <1>2 DEF ReadDisplay, Goto, Idle
  <2>2. (\E S : scan'.entries \in Seq(S)) /\ m = l - 1 /\ l >= 1
    BY <2>1 DEF Counted
  <2>3. Counted(scan') /\ scan.chunks = 0 /\ scan'.chunks = 0
    BY <2>1, <2>2 DEF Counted
  <2>4. Progress(scan) = 0 - 0 + 3 * l /\ Progress(scan') = 2 - 0 + 3 * m
    BY <2>1, <2>3, StepsToValues DEF Progress
  <2>5. /\ Cost(scan) = Progress(scan) + 1
        /\ Cost(scan') = Progress(scan') + 1 /\ Cost(scan') \in Nat
    BY <2>1, <2>3, CostOf DEF Ending
  <2>6. Cost(scan') < Cost(scan)
    <3> HIDE DEF l, m
    <3>1. QED BY <1>1, <2>2, <2>4, <2>5
  <2>7. QED BY <2>3, <2>5, <2>6 DEF Costs
<1>3. CASE Resolve \/ Keep
  <2>1. /\ \/ scan.pc = "resolve" /\ scan'.pc \in {"display", "keep"}
           \/ scan.pc = "keep" /\ scan'.pc = "display"
        /\ scan'.entries = scan.entries /\ scan'.chunks = scan.chunks
    <3>1. CASE Resolve
      BY <1>1, <3>1 DEF Resolve, Goto, Idle
    <3>2. CASE Keep
      <4> DEFINE t == KeptOnce(scan, PrimaryDisplayAddress(scan.entry))
      <4>1. DOMAIN t = DOMAIN Idle /\ t.entries = scan.entries /\ t.chunks = scan.chunks
        BY <1>1 DEF KeptOnce, Idle
      <4>2. scan.pc = "keep" /\ scan' = [t EXCEPT !.pc = "display", !.entry = Nil]
        BY <3>2 DEF Keep
      <4> HIDE DEF t
      <4>3. QED BY <4>1, <4>2 DEF Idle
    <3>3. QED BY <1>3, <3>1, <3>2
  <2>2. Counted(scan') /\ scan.chunks = 0 /\ scan'.chunks = 0
    BY <2>1 DEF Counted
  <2> DEFINE u == StepsTo[scan.pc]
             v == StepsTo[scan'.pc]
  <2>3. u \in Nat /\ v \in Nat /\ v < u
    BY <2>1, StepsToValues
  <2>4. Progress(scan) = u - 0 + 3 * l /\ Progress(scan') = v - 0 + 3 * l
    BY <2>1, <2>2 DEF Progress
  <2>5. /\ Cost(scan) = Progress(scan) + 1
        /\ Cost(scan') = Progress(scan') + 1 /\ Cost(scan') \in Nat
    BY <2>1, <2>2, CostOf DEF Ending
  <2>6. Cost(scan') < Cost(scan)
    <3> HIDE DEF l, u, v
    <3>1. QED BY <1>1, <2>3, <2>4, <2>5
  <2>7. QED BY <2>2, <2>5, <2>6 DEF Costs
<1>4. CASE Return
  <2>1. /\ scan.pc = "display" /\ scan'.pc = "done"
        /\ scan'.entries = scan.entries /\ scan'.chunks = scan.chunks
    BY <1>1, <1>4 DEF Return, Goto, Idle
  <2>2. Counted(scan')
    BY <2>1 DEF Counted
  <2>3. QED BY <2>1, <2>2, OverCosts DEF Ending
<1>5. QED BY <1>2, <1>3, <1>4

\* Every step of the scan itself leaves it fewer steps (scan.go:72-275).
LEMMA EveryStepCosts ==
  ASSUME PassInv, Counted(scan), ScanStep
  PROVE  Costs(scan, scan')
<1>1. DeferralInv(scan) /\ (scan.pc = "idle" => scan = Idle)
  BY DEF PassInv
<1>2. ASSUME NEW targets \in TargetLists, Begin(targets) \/ BeginDirected(targets)
      PROVE  Costs(scan, scan')
  BY <1>1, <1>2, BeginCosts DEF Begin, BeginDirected
<1>3. QED
  BY <1>1, <1>2, ProbeCosts, PassEndCosts, AbortCosts, AnswerStepCosts, CollectCosts,
     ResultCosts
  DEF ScanStep

Measured == StepsLeft = Cost(scan)

\* However the bus answers and whatever other goroutines do, every step of a scan
\* leaves it fewer steps: what is deferred is probed in at most three more passes, and
\* an answer, its serial and its place in the result take so many steps each
\* (scan.go:72-275).
THEOREM ScansEnd == ScanSpec => ScanComesToAnEnd
<1>1. ScanInit => Counted(scan)
  BY DEF ScanInit, Idle, Counted
<1>2. ScanInv /\ Counted(scan) /\ [ScanNext]_scanVars
        => scan' = scan \/ Costs(scan, scan')
  BY EveryStepCosts DEF ScanInv, ScanNext, Elsewhere, scanVars
<1>3. Counted(scan) /\ (scan' = scan \/ Costs(scan, scan')) => Counted(scan)'
  BY DEF Costs, Counted
<1>4. ScanInv => Measured
  BY CostIsStepsLeft DEF Measured, ScanInv, PassInv, DeferralInv
<1>5. ScanInv /\ Counted(scan) => Cost(scan) \in Nat
  <2> SUFFICES ASSUME ScanInv, Counted(scan)
               PROVE  Cost(scan) \in Nat
    OBVIOUS
  <2>1. DeferralInv(scan)
    BY DEF ScanInv, PassInv
  <2>2. 0 \in Nat /\ 6 * PassLength \in Nat
    BY LengthsAreNumbers
  <2>3. QED BY <2>1, <2>2, CostOf DEF DeferralInv, Active, Ending, Resting
<1>6. /\ Costs(scan, scan') /\ Cost(scan) \in Nat
      /\ StepsLeft = Cost(scan) /\ StepsLeft' = Cost(scan')
      => StepsLeft' \in 0 .. StepsLeft - 1
  <2> DEFINE m == Cost(scan)
             n == Cost(scan')
  <2>1. ASSUME m \in Nat, n \in Nat, n < m
        PROVE  n \in 0 .. m - 1
    <3> HIDE DEF m, n
    <3>1. QED BY <2>1
  <2>2. QED BY <2>1 DEF Costs
<1>7. ScanInv /\ Measured /\ Measured' /\ Counted(scan) /\ [ScanNext]_scanVars
        => [scan' # scan => StepsLeft' \in 0 .. StepsLeft - 1]_scan
  <2> SUFFICES ASSUME ScanInv, Measured, Measured', Counted(scan), [ScanNext]_scanVars, scan' # scan
               PROVE  StepsLeft' \in 0 .. StepsLeft - 1
    OBVIOUS
  <2>1. StepsLeft = Cost(scan)
    BY DEF Measured
  <2>2. StepsLeft' = Cost(scan')
    <3>1. Cost(scan') = Cost(scan)'
      BY DEF Cost, AnswerCost, PassesCost
    <3>2. QED BY <3>1 DEF Measured
  <2>3. QED BY <1>2, <1>5, <1>6, <2>1, <2>2
<1>8. QED
  BY <1>1, <1>2, <1>3, <1>4, <1>7, ScanInvHolds, PTL DEF ScanSpec, ScanComesToAnEnd

-----------------------------------------------------------------------------
\* The handles a scan keeps, and what it returns

\* The scan holds a handle to an entry; the entry's address resolves.
Holding == {"alias", "join", "reload", "confirm", "lookup", "collect", "keep"}
Calling == {"alias", "join", "reload", "confirm", "lookup"}

\* No handle dangles or is nil, though the entries behind may have been released.
Handles(s, r) ==
  /\ s.entries \in Seq(EntryId) /\ s.canonical \in Seq(EntryId)
  /\ \A e \in Elements(s.entries) : Points(r, e)
  /\ s.pc \in Holding => Points(r, s.entry)
  /\ s.pc \in Calling => s.address \in Address /\ r.entries[s.address] # Nil
  /\ s.pc = "resolve" => s.display \in Address
  /\ s.pc \notin Ending => s.canonical = <<>> /\ s.seen = {}

\* t keeps the handles of s.
SameHandles(s, t) ==
  t.entries = s.entries /\ t.canonical = s.canonical /\ t.seen = s.seen

\* An operation deallocates nothing a handle points to, and drops no address
\* (registry_alias.go:286-357).
LEMMA HandlesOutlive ==
  ASSUME PartitionInv, [Next]_registry
  PROVE  /\ \A e : Points(registry, e) => Points(registry', e)
         /\ \A a \in Address : registry.entries[a] # Nil => registry'.entries[a] # Nil
<1>1. Typed(registry) /\ Sound(registry)
  BY DEF PartitionInv, IdentityInv
<1>2. CASE Next
  <2>1. PICK t : /\ Yields(registry, t)
                 /\ \/ Unmoved(registry, t) /\ registry' = Advance(t)
                    \/ registry' = ReconcileQualifiedIdentityWitnessesLocked(Advance(t))
                    \/ \E a \in Address, o \in Observation : \E e :
                          registry' = RecordDirectQualifiedIdentityWitnessLocked(
                              ReconcileQualifiedIdentityWitnessesLocked(Advance(t)), a, o, e)
    BY <1>1, <1>2, EveryOperationCompletes DEF Completes
  <2>2. SameBooks(t, registry')
    BY <2>1, EndingsKeepBooks DEF Yields
  <2>3. \A e : Points(registry, e) => Points(registry', e)
    BY <2>1, <2>2 DEF Yields, SameBooks, Points
  <2>4. QED BY <1>1, <1>2, <2>3, EveryOperationPreserves DEF Preserves
<1>3. CASE UNCHANGED registry
  BY <1>3
<1>4. QED BY <1>2, <1>3

\* What other goroutines do leaves the handles what they are.
LEMMA HandlesKept ==
  ASSUME PartitionInv, [Next]_registry, NEW s, Handles(s, registry)
  PROVE  Handles(s, registry')
<1>1. /\ \A e : Points(registry, e) => Points(registry', e)
      /\ \A a \in Address : registry.entries[a] # Nil => registry'.entries[a] # Nil
  BY HandlesOutlive
<1>2. QED BY <1>1 DEF Handles

\* The passes collect no handle (scan.go:72-148, 220-237).
LEMMA PassesKeepHandles ==
  ASSUME PassInv, Handles(scan, registry),
         \/ \E targets \in TargetLists : Begin(targets) \/ BeginDirected(targets)
         \/ Probe \/ PassOver \/ NextPass \/ LastPass \/ Abort
  PROVE  Handles(scan', registry) /\ (scan'.pc \in Ending => LastPass)
<1> DEFINE Fresh(t) == t.entries = <<>> /\ t.canonical = <<>> /\ t.seen = {}
           Beside(t) == SameHandles(scan, t) \/ Fresh(t)
<1>1. DOMAIN scan = DOMAIN Idle /\ (scan.pc = "idle" => scan = Idle)
  BY DEF PassInv, DeferralInv
<1>2. scan.pc \in {"idle", "probe", "serial"}
  BY DEF Begin, BeginDirected, Probe, PassOver, NextPass, LastPass, Abort, PassEnded
<1>3. /\ \/ scan'.pc \in {"probe", "serial", "register", "failed"}
         \/ scan'.pc = "display" /\ LastPass
      /\ Beside(scan')
  <2>1. CASE \E targets \in TargetLists : Begin(targets) \/ BeginDirected(targets)
    BY <1>1, <2>1 DEF Begin, BeginDirected, Started, Goto, Idle, SameHandles
  <2>2. CASE Probe
    <3> DEFINE h == Head(scan.pending)
               Fits(t) == t.pc \in {"probe", "serial", "register", "failed"} /\ Beside(t)
    <3>1. scan.pc = "probe"
      BY <2>2 DEF Probe
    <3>2. Fits(Collided(scan, h)) /\ Fits(Retried(scan, h))
      BY <1>1, <3>1 DEF Collided, Retried, Asked, Idle, SameHandles
    <3>3. Fits(Skipped(scan, h))
      BY <1>1, <3>1 DEF Skipped, Asked, Idle, SameHandles
    <3>4. Fits(Failed(scan, h))
      BY DEF Failed, Goto, Idle
    <3>5. \A r : Fits(Identified(scan, h, r))
      BY <1>1 DEF Identified, Asked, Idle, SameHandles
    <3> HIDE DEF Fits, h
    <3>6. \A err : Fits(AfterError(scan, h, err))
      BY <3>2, <3>3, <3>4 DEF AfterError
    <3>7. \A r : Fits(AfterResponse(scan, h, r))
      BY <3>5, <3>6 DEF AfterResponse
    <3>8. Fits(scan')
      BY <2>2, <3>6, <3>7 DEF Probe, h
    <3>9. QED BY <3>8 DEF Fits
  <2>3. CASE PassOver \/ NextPass \/ LastPass
    BY <1>1, <2>3, ZenonT(40)
    DEF PassOver, NextPass, LastPass, PassEnded, Ineligible, Goto, Idle, SameHandles
  <2>4. CASE Abort
    BY <2>4 DEF Abort, Goto, Idle
  <2>5. QED BY <2>1, <2>2, <2>3, <2>4
<1>4. scan.canonical = <<>> /\ scan.seen = {}
  BY <1>2 DEF Handles, Ending
<1>5. <<>> \in Seq(EntryId) /\ Elements(<<>>) = {}
  BY DEF Elements
<1>6. scan'.pc \notin Holding \union Calling \union {"resolve"}
  BY <1>3 DEF Holding, Calling
<1>7. SameHandles(scan, scan') => Handles(scan', registry)
  BY <1>4, <1>6 DEF Handles, SameHandles
<1>8. Fresh(scan') => Handles(scan', registry)
  BY <1>5, <1>6 DEF Handles
<1>9. QED BY <1>3, <1>7, <1>8 DEF Ending

\* Each of the calls that record an answer finds the address resolved by the one before
\* (scan.go:133-209).
LEMMA CallsKeepHandles ==
  ASSUME ScanInv, FaceInv, FaceInv', Handles(scan, registry), [Next]_registry,
         \/ \E text \in BOOLEAN : ReadChunk(text)
         \/ ChunkMissing \/ ReadSerial
         \/ RegisterAnswer \/ RegisterAlias \/ JoinAlias \/ Reload \/ Confirm
  PROVE  Handles(scan', registry')
<1>1. DOMAIN scan = DOMAIN Idle
  BY DEF ScanInv, PassInv, DeferralInv
<1>2. scan.pc \in Recording => /\ scan.address \in Address /\ scan.info \in Observation
  BY DEF ScanInv, AnswerInv
<1>3. Handles(scan, registry')
  BY HandlesKept DEF FaceInv
<1>4. \A a \in Address : registry'.entries[a] # Nil => Points(registry', registry'.entries[a])
  BY DEF FaceInv, PartitionInv, IdentityInv, Typed, PointersType, Points
<1>5. scan.pc \notin Ending
  BY DEF ReadChunk, ChunkMissing, ReadSerial, RegisterAnswer, RegisterAlias, JoinAlias,
         Reload, Confirm, Ending
<1>6. CASE (\E text \in BOOLEAN : ReadChunk(text)) \/ ChunkMissing \/ ReadSerial
  <2>1. SameHandles(scan, scan') /\ scan'.pc \in {"serial", "register"}
    <3>1. CASE \E text \in BOOLEAN : ReadChunk(text)
      BY <1>1, <3>1 DEF ReadChunk, SameHandles, Idle
    <3>2. CASE ChunkMissing
      BY <1>1, <3>2 DEF ChunkMissing, SerialRead, Goto, SameHandles, Idle
    <3>3. CASE ReadSerial
      <4> DEFINE t == SerialRead(scan)
      <4>1. SameHandles(scan, t) /\ DOMAIN t = DOMAIN Idle /\ t.pc = "register"
        BY <1>1 DEF SerialRead, Goto, SameHandles, Idle
      <4>2. PICK serial : scan' = [t EXCEPT !.info["SerialNumber"] = serial]
        BY <3>3 DEF ReadSerial
      <4> HIDE DEF t
      <4> DEFINE info == [t.info EXCEPT !["SerialNumber"] = serial]
      <4>3. scan' = [t EXCEPT !.info = info]
        BY <4>2
      <4> HIDE DEF info
      <4>4. QED BY <4>1, <4>3 DEF SameHandles, Idle
    <3>4. QED BY <1>6, <3>1, <3>2, <3>3
  <2>2. QED BY <1>3, <1>5, <2>1 DEF Handles, SameHandles, Holding, Calling, Ending
<1>7. CASE RegisterAnswer
  <2>1. PICK pc \in {"alias", "confirm"} : \E parted :
           scan' = [scan EXCEPT !.pc = pc, !.entry = registry'.entries[scan.address],
                                !.parted = parted]
    BY <1>1, <1>7 DEF RegisterAnswer, Goto, Idle
  <2>2. /\ SameHandles(scan, scan') /\ scan'.pc \in {"alias", "confirm"}
        /\ scan'.entry = registry'.entries[scan.address] /\ scan'.address = scan.address
    BY <1>1, <2>1 DEF SameHandles, Idle
  <2>3. scan.address \in Address /\ registry'.entries[scan.address] # Nil
    BY <1>2, <1>7, CallRegisterResolves DEF RegisterAnswer, Recording
  <2>4. QED BY <1>3, <1>4, <1>5, <2>2, <2>3 DEF Handles, SameHandles, Holding, Calling, Ending
<1>8. CASE RegisterAlias
  <2>1. scan' = [scan EXCEPT !.pc = "join"]
    BY <1>1, <1>8 DEF RegisterAlias, Goto, Idle
  <2>2. /\ SameHandles(scan, scan') /\ scan.pc = "alias" /\ scan'.pc = "join"
        /\ scan'.entry = scan.entry /\ scan'.address = scan.address
    BY <1>1, <1>8, <2>1, ZenonT(40) DEF RegisterAlias, SameHandles, Idle
  <2>3. QED BY <1>3, <1>5, <2>2 DEF Handles, SameHandles, Holding, Calling, Ending
<1>9. CASE JoinAlias \/ Confirm
  <2>1. /\ SameHandles(scan, scan') /\ scan.pc \in Calling /\ scan'.pc \in {"reload", "lookup"}
        /\ scan'.entry = scan.entry /\ scan'.address = scan.address
    BY <1>1, <1>9 DEF JoinAlias, Confirm, Goto, SameHandles, Idle, Calling
  <2>2. QED BY <1>3, <1>5, <2>1 DEF Handles, SameHandles, Holding, Calling, Ending
<1>10. CASE Reload
  <2>1. /\ SameHandles(scan, scan') /\ scan.pc = "reload" /\ scan'.pc = "confirm"
        /\ scan'.entry = registry.entries[scan.address] /\ scan'.address = scan.address
        /\ UNCHANGED registry
    BY <1>1, <1>10 DEF Reload, Goto, SameHandles, Idle
  <2>2. scan.address \in Address
    BY <1>2, <2>1 DEF Recording
  <2>3. QED BY <1>3, <1>4, <1>5, <2>1, <2>2
        DEF Handles, SameHandles, Holding, Calling, Ending
<1>11. QED BY <1>6, <1>7, <1>8, <1>9, <1>10

\* The entry is looked up a last time and its handle collected; the collected handles
\* are resolved one by one (scan.go:210-275).
LEMMA ResultKeepsHandles ==
  ASSUME ScanInv, FaceInv, Handles(scan, registry),
         LookupConfirmed \/ Collect \/ ReadDisplay \/ Resolve \/ Keep \/ Return
  PROVE  Handles(scan', registry)
<1>1. DOMAIN scan = DOMAIN Idle
  BY DEF ScanInv, PassInv, DeferralInv
<1>2. \A a \in Address : registry.entries[a] # Nil => Points(registry, registry.entries[a])
  BY DEF FaceInv, PartitionInv, IdentityInv, Typed, PointersType
<1>3. \A e : Points(registry, e) => e \in EntryId /\ registry.heap[e].primaryAddress \in Address
  BY DEF Points, DeviceEntry
<1>4. CASE LookupConfirmed
  <2>1. /\ SameHandles(scan, scan') /\ scan.pc = "lookup" /\ scan'.pc = "collect"
        /\ scan'.entry \in {scan.entry, registry.entries[scan.address]}
        /\ registry.entries[scan.address] = Nil => scan'.entry = scan.entry
    BY <1>1, <1>4 DEF LookupConfirmed, Goto, SameHandles, Idle
  <2>2. Points(registry, registry.entries[scan.address]) /\ Points(registry, scan.entry)
    BY <1>2, <2>1 DEF Handles, Calling, Holding
  <2>3. QED BY <2>1, <2>2 DEF Handles, SameHandles, Holding, Calling, Ending
<1>5. CASE Collect
  <2> DEFINE c == Collected(scan, PrimaryDisplayAddress(scan.entry))
  <2>1. /\ DOMAIN c = DOMAIN Idle /\ c.canonical = scan.canonical /\ c.seen = scan.seen
        /\ c.entries = scan.entries \/ c.entries = Append(scan.entries, scan.entry)
    BY <1>1 DEF Collected, Idle
  <2>2. /\ scan.pc = "collect"
        /\ scan' = [c EXCEPT !.pc = "probe", !.target = 0, !.address = 0,
                             !.info = NoInfo, !.entry = Nil]
    BY <1>5 DEF Collect
  <2> HIDE DEF c
  <2>3. /\ scan'.pc = "probe" /\ scan'.canonical = scan.canonical /\ scan'.seen = scan.seen
        /\ scan'.entries = c.entries
    BY <2>1, <2>2 DEF Idle
  <2>4. Points(registry, scan.entry) /\ scan.entry \in EntryId /\ scan.entries \in Seq(EntryId)
    BY <1>3, <2>2 DEF Handles, Holding
  <2>5. /\ scan'.entries \in Seq(EntryId)
        /\ Elements(scan'.entries) \subseteq Elements(scan.entries) \union {scan.entry}
    <3> DEFINE q == scan.entries
               e == scan.entry
    <3>1. Append(q, e) \in Seq(EntryId) /\ Elements(Append(q, e)) = Elements(q) \union {e}
      BY <2>4, ListElements
    <3>2. q \in Seq(EntryId) /\ (scan'.entries = q \/ scan'.entries = Append(q, e))
      BY <2>1, <2>3, <2>4
    <3> HIDE DEF q, e
    <3>3. /\ scan'.entries \in Seq(EntryId)
          /\ Elements(scan'.entries) \subseteq Elements(q) \union {e}
      BY <3>1, <3>2
    <3>4. QED BY <3>3 DEF q, e
  <2>6. QED BY <2>2, <2>3, <2>4, <2>5 DEF Handles, Holding, Calling, Ending
<1>6. CASE ReadDisplay
  <2>1. /\ scan.pc = "display" /\ scan.entries # <<>> /\ scan'.pc = "resolve"
        /\ scan'.entries = Tail(scan.entries) /\ scan'.canonical = scan.canonical
        /\ scan'.display = registry.heap[Head(scan.entries)].primaryAddress
    BY <1>1, <1>6 DEF ReadDisplay, PrimaryDisplayAddress, Goto, Idle
  <2>2. /\ scan.entries \in Seq(EntryId) /\ scan.canonical \in Seq(EntryId)
        /\ \A e \in Elements(scan.entries) : Points(registry, e)
    BY DEF Handles
  <2>3. /\ Head(scan.entries) \in Elements(scan.entries) /\ scan'.entries \in Seq(EntryId)
        /\ Elements(scan'.entries) \subseteq Elements(scan.entries)
    BY <2>1, <2>2, ListElements
  <2>4. QED BY <1>3, <2>1, <2>2, <2>3 DEF Handles, Holding, Calling, Ending
<1>7. CASE Resolve
  <2>1. /\ scan.pc = "resolve" /\ SameHandles(scan, scan')
        /\ scan'.entry = registry.entries[scan.display]
        /\ scan'.pc \in {"display", "keep"} /\ (scan'.pc = "keep" => scan'.entry # Nil)
    BY <1>1, <1>7 DEF Resolve, Goto, SameHandles, Idle
  <2>2. scan.display \in Address
    BY <2>1 DEF Handles
  <2>3. scan'.pc = "keep" => Points(registry, scan'.entry)
    BY <1>2, <2>1, <2>2
  <2>4. QED BY <2>1, <2>3 DEF Handles, SameHandles, Holding, Calling, Ending
<1>8. CASE Keep
  <2> DEFINE k == KeptOnce(scan, PrimaryDisplayAddress(scan.entry))
  <2>1. /\ DOMAIN k = DOMAIN Idle /\ k.entries = scan.entries
        /\ k.canonical = scan.canonical \/ k.canonical = Append(scan.canonical, scan.entry)
    BY <1>1 DEF KeptOnce, Idle
  <2>2. scan.pc = "keep" /\ scan' = [k EXCEPT !.pc = "display", !.entry = Nil]
    BY <1>8 DEF Keep
  <2> HIDE DEF k
  <2>3. scan'.pc = "display" /\ scan'.entries = scan.entries /\ scan'.canonical = k.canonical
    BY <2>1, <2>2 DEF Idle
  <2>4. scan.entry \in EntryId /\ scan.canonical \in Seq(EntryId)
    BY <1>3, <2>2 DEF Handles, Holding
  <2>5. scan'.canonical \in Seq(EntryId)
    BY <2>1, <2>3, <2>4
  <2>6. QED BY <2>2, <2>3, <2>5 DEF Handles, Holding, Calling, Ending
<1>9. CASE Return
  <2>1. SameHandles(scan, scan') /\ scan.pc = "display" /\ scan'.pc = "done"
    BY <1>1, <1>9 DEF Return, Goto, SameHandles, Idle
  <2>2. QED BY <2>1 DEF Handles, SameHandles, Holding, Calling, Ending
<1>10. QED BY <1>4, <1>5, <1>6, <1>7, <1>8, <1>9

\* Every step, of the scan or beside it, keeps the handles sound.
LEMMA HandlesContinue ==
  ASSUME ScanInv, FaceInv, FaceInv', Handles(scan, registry), [ScanNext]_scanVars
  PROVE  Handles(scan', registry')
<1>1. [Next]_registry
  BY StepsAreOperations DEF ScanInv
<1>2. CASE \/ \E targets \in TargetLists : Begin(targets) \/ BeginDirected(targets)
           \/ Probe \/ PassOver \/ NextPass \/ LastPass \/ Abort
  <2>1. UNCHANGED registry
    BY <1>2 DEF Begin, BeginDirected, Probe, PassOver, NextPass, LastPass, Abort
  <2>2. Handles(scan', registry)
    BY <1>2, PassesKeepHandles DEF ScanInv
  <2>3. QED BY <2>1, <2>2
<1>3. CASE \/ \E text \in BOOLEAN : ReadChunk(text)
           \/ ChunkMissing \/ ReadSerial
           \/ RegisterAnswer \/ RegisterAlias \/ JoinAlias \/ Reload \/ Confirm
  BY <1>1, <1>3, CallsKeepHandles
<1>4. CASE LookupConfirmed \/ Collect \/ ReadDisplay \/ Resolve \/ Keep \/ Return
  <2>1. UNCHANGED registry
    BY <1>4 DEF LookupConfirmed, Collect, ReadDisplay, Resolve, Keep, Return
  <2>2. Handles(scan', registry)
    BY <1>4, ResultKeepsHandles
  <2>3. QED BY <2>1, <2>2
<1>5. CASE Elsewhere \/ UNCHANGED scanVars
  <2>1. UNCHANGED scan
    BY <1>5 DEF Elsewhere, scanVars
  <2>2. PartitionInv
    BY DEF FaceInv
  <2>3. QED BY <1>1, <2>1, <2>2, HandlesKept
<1>6. QED BY <1>2, <1>3, <1>4, <1>5 DEF ScanNext, ScanStep

\* What was kept is live, and known by its display address; each entry once.
Kept(s, r) ==
  /\ \A e \in Elements(s.canonical) : e \in r.order /\ r.heap[e].primaryAddress \in s.seen
  /\ Distinct(s.canonical)
  /\ s.pc = "keep" => s.entry \in r.order

\* The registry has not changed since the passes ended, or what was kept may be stale.
Resolved(s, r, n) ==
  /\ n \in Nat
  /\ s.pc \in Ending => s.since \in 0 .. n /\ (s.since = n => Kept(s, r))

\* An entry is kept once: one whose display address was seen is not (scan.go:256-275).
LEMMA KeepKeeps ==
  ASSUME NEW s, NEW r, DOMAIN s = DOMAIN Idle, s.canonical \in Seq(EntryId),
         Kept(s, r), s.pc = "keep", s.entry \in EntryId,
         NEW t, t = [KeptOnce(s, r.heap[s.entry].primaryAddress) EXCEPT
                        !.pc = "display", !.entry = Nil]
  PROVE  Kept(t, r) /\ t.pc = "display" /\ t.since = s.since
<1> DEFINE p == r.heap[s.entry].primaryAddress
           k == KeptOnce(s, p)
           q == s.canonical
           e == s.entry
<1>1. /\ DOMAIN k = DOMAIN Idle /\ k.since = s.since
      /\ p \in s.seen => k.canonical = q /\ k.seen = s.seen
      /\ p \notin s.seen => k.canonical = Append(q, e) /\ k.seen = s.seen \union {p}
  BY DEF KeptOnce, Idle
<1>2. t = [k EXCEPT !.pc = "display", !.entry = Nil]
  OBVIOUS
<1> HIDE DEF k
<1>3. /\ t.pc = "display" /\ t.since = s.since
      /\ t.canonical = k.canonical /\ t.seen = k.seen
  BY <1>1, <1>2 DEF Idle
<1>4. CASE p \in s.seen
  BY <1>1, <1>3, <1>4 DEF Kept
<1>5. CASE p \notin s.seen
  <2>1. Append(q, e) \in Seq(EntryId) /\ Elements(Append(q, e)) = Elements(q) \union {e}
    BY ListElements
  <2>2. t.canonical = Append(q, e) /\ t.seen = s.seen \union {p} /\ t.pc = "display"
    BY <1>1, <1>3, <1>5
  <2>3. \A d \in Elements(q) : d \in r.order /\ r.heap[d].primaryAddress \in s.seen
    BY DEF Kept
  <2>4. e \in r.order /\ e \notin Elements(q)
    BY <1>5, <2>3 DEF Kept
  <2>5. \A d \in Elements(t.canonical) : d \in r.order /\ r.heap[d].primaryAddress \in t.seen
    <3>1. Elements(t.canonical) = Elements(q) \union {e} /\ p = r.heap[e].primaryAddress
      BY <2>1, <2>2
    <3> HIDE DEF p, e, q
    <3>2. QED BY <2>2, <2>3, <2>4, <3>1
  <2>6. Distinct(t.canonical)
    <3> DEFINE n == Len(q)
    <3>1. q \in Seq(EntryId) /\ n \in Nat /\ DOMAIN q = 1 .. n /\ Distinct(q)
      BY DEF Kept
    <3>2. /\ DOMAIN t.canonical = 1 .. n + 1
          /\ \A i \in 1 .. n : t.canonical[i] = q[i]
          /\ t.canonical[n + 1] = e
      BY <2>2, <3>1, SMTT(20)
    <3> HIDE DEF n, q, e
    <3>3. \A i \in 1 .. n : q[i] # e
      BY <2>4, <3>1 DEF Elements
    <3>4. \A i \in 1 .. n + 1 : i \in 1 .. n \/ i = n + 1
      BY <3>1
    <3> DEFINE c == t.canonical
    <3>5. ASSUME NEW i \in 1 .. n + 1, NEW j \in 1 .. n + 1, c[i] = c[j]
          PROVE  i = j
      <4> HIDE DEF c
      <4>1. CASE i \in 1 .. n /\ j \in 1 .. n
        BY <3>1, <3>2, <3>5, <4>1 DEF Distinct, c
      <4>2. CASE i = n + 1 \/ j = n + 1
        BY <3>2, <3>3, <3>4, <3>5, <4>2 DEF c
      <4>3. QED BY <3>4, <4>1, <4>2
    <3>6. QED BY <3>2, <3>5 DEF Distinct
  <2>7. QED BY <1>3, <2>2, <2>5, <2>6 DEF Kept
<1>6. QED BY <1>4, <1>5

\* A step of the scan keeps what it resolved, and another goroutine's call is counted
\* (scan.go:256-275).
LEMMA ResolutionContinues ==
  ASSUME ScanInv, FaceInv, Handles(scan, registry), Resolved(scan, registry, elsewhere),
         [ScanNext]_scanVars
  PROVE  Resolved(scan', registry', elsewhere')
<1>1. DeferralInv(scan) /\ DOMAIN scan = DOMAIN Idle /\ elsewhere \in Nat
  BY DEF ScanInv, PassInv, DeferralInv, Resolved
<1>2. CASE ReadDisplay \/ Resolve \/ Keep \/ Return
  <2>1. UNCHANGED <<registry, elsewhere>> /\ scan.pc \in Ending
    BY <1>2 DEF ReadDisplay, Resolve, Keep, Return, Ending
  <2>2. /\ scan'.since = scan.since
        /\ Kept(scan, registry) => Kept(scan', registry)
    <3>1. CASE ReadDisplay \/ Return
      <4>1. /\ scan'.since = scan.since /\ scan'.canonical = scan.canonical
            /\ scan'.seen = scan.seen /\ scan'.pc \in {"resolve", "done"}
        BY <1>1, <3>1 DEF ReadDisplay, Return, Goto, Idle
      <4>2. QED BY <4>1 DEF Kept
    <3>2. CASE Resolve
      <4>1. /\ scan'.since = scan.since /\ scan'.canonical = scan.canonical
            /\ scan'.seen = scan.seen /\ scan.pc = "resolve"
            /\ scan'.entry = registry.entries[scan.display]
            /\ scan'.pc = "keep" => scan'.entry # Nil
        BY <1>1, <3>2 DEF Resolve, Goto, Idle
      <4>2. scan.display \in Address
        BY <4>1 DEF Handles
      <4>3. scan'.pc = "keep" => scan'.entry \in registry.order
        BY <4>1, <4>2 DEF FaceInv, PartitionInv, Sound, Groups
      <4>4. QED BY <4>1, <4>3 DEF Kept
    <3>3. CASE Keep
      <4>1. scan.pc = "keep" /\ scan.canonical \in Seq(EntryId) /\ scan.entry \in EntryId
        BY <3>3 DEF Keep, Handles, Holding, Points
      <4>2. scan' = [KeptOnce(scan, registry.heap[scan.entry].primaryAddress) EXCEPT
                        !.pc = "display", !.entry = Nil]
        BY <3>3 DEF Keep, PrimaryDisplayAddress
      <4>3. scan'.since = scan.since
        <5> DEFINE k == KeptOnce(scan, registry.heap[scan.entry].primaryAddress)
        <5>1. DOMAIN k = DOMAIN Idle /\ k.since = scan.since
          BY <1>1 DEF KeptOnce, Idle
        <5>2. scan' = [k EXCEPT !.pc = "display", !.entry = Nil]
          BY <4>2
        <5> HIDE DEF k
        <5>3. QED BY <5>1, <5>2 DEF Idle
      <4>4. QED BY <1>1, <4>1, <4>2, <4>3, KeepKeeps
    <3>4. QED BY <1>2, <3>1, <3>2, <3>3
  <2>3. QED BY <2>1, <2>2 DEF Resolved
<1>3. CASE LastPass
  <2>1. /\ scan.pc = "probe" /\ scan'.pc = "display" /\ scan'.since = elsewhere
        /\ scan'.canonical = scan.canonical /\ UNCHANGED <<registry, elsewhere>>
    BY <1>1, <1>3 DEF LastPass, PassEnded, Goto, Idle
  <2>2. scan'.canonical = <<>>
    BY <2>1 DEF Handles, Ending
  <2>3. Kept(scan', registry)
    BY <2>1, <2>2 DEF Kept, Elements, Distinct
  <2>4. QED BY <1>1, <2>1, <2>3 DEF Resolved
<1>4. CASE /\ ScanStep /\ ~ (ReadDisplay \/ Resolve \/ Keep \/ Return) /\ ~ LastPass
  <2>1. elsewhere' = elsewhere
    BY <1>1, <1>4, ScanStepIsOneOf DEF RegisterAnswer, RegisterAlias, JoinAlias, Confirm
  <2>2. scan'.pc \notin Ending
    <3>1. CASE \/ \E targets \in TargetLists : Begin(targets) \/ BeginDirected(targets)
               \/ Probe \/ PassOver \/ NextPass \/ Abort
      BY <1>4, <3>1, PassesKeepHandles DEF ScanInv
    <3>2. CASE \/ \E text \in BOOLEAN : ReadChunk(text)
               \/ ChunkMissing \/ ReadSerial
               \/ RegisterAnswer \/ RegisterAlias \/ JoinAlias \/ Reload \/ Confirm
               \/ LookupConfirmed \/ Collect
      <4>1. scan.pc \notin Ending
        BY <3>2 DEF ReadChunk, ChunkMissing, ReadSerial, RegisterAnswer, RegisterAlias,
                    JoinAlias, Reload, Confirm, LookupConfirmed, Collect, Ending
      <4>2. Aside(scan, scan')
        BY <1>1, <3>2, OtherStepsAreAside
      <4>3. QED BY <4>1, <4>2 DEF Aside, Active, Ending
    <3>3. QED BY <1>4, <3>1, <3>2 DEF ScanStep
  <2>3. QED BY <1>1, <2>1, <2>2 DEF Resolved
<1>5. CASE Elsewhere
  <2>1. elsewhere' = elsewhere + 1 /\ UNCHANGED scan
    BY <1>5 DEF Elsewhere
  <2>2. QED BY <1>1, <2>1 DEF Resolved
<1>6. CASE UNCHANGED scanVars
  BY <1>6 DEF scanVars, Resolved
<1>7. QED BY <1>2, <1>3, <1>4, <1>5, <1>6 DEF ScanNext

\* The handles of every scan (scan.go:133-275).
LEMMA HandlesHold == ScanSpec => []Handles(scan, registry)
<1>1. ScanInit => Handles(scan, registry)
  BY DEF ScanInit, Idle, Handles, Elements, Holding, Calling
<1>2. ScanInv /\ FaceInv /\ FaceInv' /\ Handles(scan, registry) /\ [ScanNext]_scanVars
        => Handles(scan, registry)'
  BY HandlesContinue DEF Handles, Points
<1>3. ScanSpec => []FaceInv
  BY ScanUsesTheRegistry, FaceInvHolds, PTL
<1>4. QED BY <1>1, <1>2, <1>3, ScanInvHolds, PTL DEF ScanSpec

\* Wherever the scan reads through a handle it kept while the lock was released, the
\* handle points to an entry, though the entry may have left the registry meanwhile;
\* no lookup result it calls a method on is nil (scan.go:213-217, 256-275).
HandlesAreNeverNil ==
  /\ scan.pc \in {"collect", "keep"} => registry.heap[scan.entry] \in DeviceEntry
  /\ \A i \in DOMAIN scan.entries : registry.heap[scan.entries[i]] \in DeviceEntry

\* A scan that probes, records and collects without holding the lock never follows a
\* handle to nothing: an entry taken out of the registry stays with whoever holds a
\* pointer to it (scan.go:213-217, 256-275; registry_alias.go:203-223).
THEOREM HandlesNeverDangle == ScanSpec => []HandlesAreNeverNil
<1>1. Handles(scan, registry) => HandlesAreNeverNil
  BY DEF Handles, HandlesAreNeverNil, Points, Holding, Elements
<1>2. QED BY <1>1, HandlesHold, PTL

\* What every scan keeps is live (scan.go:256-275).
LEMMA ResolvedHolds == ScanSpec => []Resolved(scan, registry, elsewhere)
<1>1. ScanInit => Resolved(scan, registry, elsewhere)
  BY DEF ScanInit, Idle, Resolved, Ending
<1>2. ScanInv /\ FaceInv /\ Handles(scan, registry)
        /\ Resolved(scan, registry, elsewhere) /\ [ScanNext]_scanVars
      => Resolved(scan, registry, elsewhere)'
  <2> SUFFICES ASSUME ScanInv, FaceInv, Handles(scan, registry),
                      Resolved(scan, registry, elsewhere), [ScanNext]_scanVars
               PROVE  Resolved(scan', registry', elsewhere')
    BY DEF Resolved, Kept, Elements, Distinct, Ending
  <2>1. QED BY ResolutionContinues
<1>3. ScanSpec => []FaceInv
  BY ScanUsesTheRegistry, FaceInvHolds, PTL
<1>4. QED BY <1>1, <1>2, <1>3, HandlesHold, ScanInvHolds, PTL DEF ScanSpec

\* Unless another goroutine mutated the registry while the handles were resolved, a
\* scan returns live entries, each once, however groups merged and split while they
\* were collected (scan.go:256-275).
THEOREM LiveEntriesAreReturnedOnce == ScanSpec => []ReturnsLiveEntriesOnce
<1>1. Handles(scan, registry) /\ Resolved(scan, registry, elsewhere) => ReturnsLiveEntriesOnce
  <2> SUFFICES ASSUME Handles(scan, registry), Resolved(scan, registry, elsewhere),
                      scan.pc = "done", Undisturbed
               PROVE  /\ Returned \subseteq registry.order
                      /\ Cardinality(Returned) = Len(scan.canonical)
    BY DEF ReturnsLiveEntriesOnce
  <2> DEFINE q == scan.canonical
             n == Len(q)
  <2>1. Kept(scan, registry)
    BY DEF Resolved, Undisturbed, Ending
  <2>2. q \in Seq(EntryId) /\ n \in Nat /\ DOMAIN q = 1 .. n /\ Distinct(q)
    BY <2>1 DEF Handles, Kept
  <2>3. Returned = Elements(q)
    BY DEF Returned, Elements
  <2>4. q \in Bijection(1 .. n, Elements(q))
    <3>1. q \in [1 .. n -> Elements(q)]
      BY <2>2 DEF Elements
    <3> HIDE DEF q, n
    <3>2. QED BY <2>2, <3>1 DEF Distinct, Elements, Bijection, Injection, Surjection, IsInjective
  <2>5. IsFiniteSet(1 .. n) /\ Cardinality(1 .. n) = n
    BY <2>2, FS_Interval
  <2>6. Cardinality(Elements(q)) = n
    <3> HIDE DEF q, n
    <3>1. ExistsBijection(1 .. n, Elements(q))
      BY <2>4 DEF ExistsBijection
    <3>2. QED BY <2>5, <3>1, FS_Bijection
  <2>7. QED BY <2>1, <2>3, <2>6 DEF Kept
<1>2. QED BY <1>1, HandlesHold, ResolvedHolds, PTL

-----------------------------------------------------------------------------
\* The device behind every answer is returned

\* The entries the scan has collected, or has seen an answering face taken out of.
Behind(s) == Elements(s.entries) \union s.parted

\* No answer has been recorded yet, or the last one is collected.
Gathering == {"idle", "probe", "serial", "register"}
Answering == Calling \union {"collect"}

\* What was registered still resolves.
StillKnown(s, r) == \A x \in s.registered : x \in Address /\ r.entries[x] # Nil

\* Between answers nothing else is live.
NothingMissing(s, r) == s.pc \in Gathering => r.order \subseteq Behind(s)

\* e is behind the scan, or is collected when its display address is.
Collectable(s, r, e) ==
  \/ e \in Behind(s)
  \/ r.heap[e].primaryAddress = s.address /\ s.address \notin s.registered

\* While an answer is recorded, nothing is live but what is behind the scan, the entry
\* of the face that answered and, until the two are joined, that of the target.
AnswerMissing(s, r) ==
  s.pc \in Answering =>
     LET e == r.entries[s.address]
         f == r.entries[s.target]
     IN  /\ s.address \in Address /\ e # Nil
         /\ Collectable(s, r, e)
         /\ s.pc # "join" => r.order \subseteq Behind(s) \union {e}
         /\ s.pc = "join" =>
               /\ r.order \subseteq Behind(s) \union {e, f}
               /\ f \in Behind(s) \union {e} \/ r.heap[f].addresses = {s.target}
         /\ s.pc = "collect" => s.entry = e

\* The entry that was taken off the list and is not in the result yet.
InHand(s, r) ==
  CASE s.pc = "resolve" -> {r.entries[s.display]}
    [] s.pc = "keep"    -> {s.entry}
    [] OTHER            -> {}

\* In the end what is live is in the result, or still to be resolved; an address was
\* seen with an entry that is in the result.
ResultMissing(s, r) ==
  s.pc \in Ending =>
     /\ r.order \subseteq Behind(s) \union Elements(s.canonical) \union InHand(s, r)
     /\ \A p \in s.seen : \E d \in Elements(s.canonical) : r.heap[d].primaryAddress = p
     /\ s.pc = "done" => s.entries = <<>>

Gathered(s, r) ==
  StillKnown(s, r) /\ NothingMissing(s, r) /\ AnswerMissing(s, r) /\ ResultMissing(s, r)

\* A step that collects nothing.
KeepsBooks(s, t) ==
  t.registered = s.registered /\ t.parted = s.parted /\ t.entries = s.entries

\* The passes collect nothing (scan.go:72-148, 220-237, 286-340).
LEMMA PassesCollectNothing ==
  ASSUME PassInv,
         \/ \E targets \in TargetLists : Begin(targets) \/ BeginDirected(targets)
         \/ Probe \/ PassOver \/ NextPass \/ LastPass \/ Abort
         \/ \E text \in BOOLEAN : ReadChunk(text)
         \/ ChunkMissing \/ ReadSerial
  PROVE  /\ scan.pc \in Gathering
         /\ \/ scan'.pc = "failed" /\ scan'.registered = {}
            \/ KeepsBooks(scan, scan') /\ scan'.pc \in Gathering \union {"display"}
<1> DEFINE Over(t) == t.pc = "failed" /\ t.registered = {}
           Goes(t) == KeepsBooks(scan, t) /\ t.pc \in Gathering \union {"display"}
<1>1. DOMAIN scan = DOMAIN Idle /\ (scan.pc = "idle" => scan = Idle)
  BY DEF PassInv, DeferralInv
<1>2. scan.pc \in Gathering
  BY DEF Begin, BeginDirected, Probe, PassOver, NextPass, LastPass, Abort, PassEnded,
         ReadChunk, ChunkMissing, ReadSerial, Gathering
<1>3. Over(Goto(Idle, "failed"))
  BY DEF Goto, Idle
<1>4. CASE \E targets \in TargetLists : Begin(targets) \/ BeginDirected(targets)
  <2>1. \A targets : Goes(Started(scan, targets))
    BY <1>1 DEF Started, Goto, Idle, KeepsBooks, Gathering
  <2>2. scan.pc = "idle"
    BY <1>4 DEF Begin, BeginDirected
  <2> HIDE DEF Goes, Over
  <2>3. Over(scan') \/ Goes(scan')
    BY <1>1, <1>3, <1>4, <2>1, <2>2 DEF Begin, BeginDirected
  <2>4. QED BY <1>2, <2>3 DEF Over, Goes
<1>5. CASE Probe
  <2> DEFINE h == Head(scan.pending)
             Fits(t) == Over(t) \/ Goes(t)
  <2>1. scan.pc = "probe"
    BY <1>5 DEF Probe
  <2>2. Goes(Collided(scan, h)) /\ Goes(Retried(scan, h))
    BY <1>1, <2>1 DEF Collided, Retried, Asked, Idle, KeepsBooks, Gathering
  <2>3. Goes(Skipped(scan, h))
    BY <1>1, <2>1 DEF Skipped, Asked, Idle, KeepsBooks, Gathering
  <2>4. Over(Failed(scan, h))
    BY <1>3 DEF Failed
  <2>5. \A r : Goes(Identified(scan, h, r))
    BY <1>1 DEF Identified, Asked, Idle, KeepsBooks, Gathering
  <2> HIDE DEF Over, Goes, h
  <2>6. \A err : Fits(AfterError(scan, h, err))
    BY <2>2, <2>3, <2>4 DEF AfterError
  <2>7. \A r : Fits(AfterResponse(scan, h, r))
    BY <2>5, <2>6 DEF AfterResponse
  <2>8. Fits(scan')
    BY <1>5, <2>6, <2>7 DEF Probe, h
  <2>9. QED BY <1>2, <2>8 DEF Over, Goes
<1>6. CASE PassOver \/ NextPass \/ LastPass
  <2>1. CASE PassOver
    BY <1>1, <1>2, <2>1 DEF PassOver, Ineligible, Idle, KeepsBooks, Gathering
  <2>2. CASE NextPass
    BY <1>1, <1>2, <2>2 DEF NextPass, PassEnded, Idle, KeepsBooks, Gathering
  <2>3. CASE LastPass
    BY <1>1, <1>2, <2>3 DEF LastPass, PassEnded, Goto, Idle, KeepsBooks, Gathering
  <2>4. QED BY <1>6, <2>1, <2>2, <2>3
<1>7. CASE Abort
  BY <1>2, <1>3, <1>7 DEF Abort
<1>8. CASE (\E text \in BOOLEAN : ReadChunk(text)) \/ ChunkMissing
  <2>1. CASE \E text \in BOOLEAN : ReadChunk(text)
    BY <1>1, <1>2, <2>1 DEF ReadChunk, Idle, KeepsBooks, Gathering
  <2>2. CASE ChunkMissing
    BY <1>1, <1>2, <2>2 DEF ChunkMissing, SerialRead, Goto, Idle, KeepsBooks, Gathering
  <2>3. QED BY <1>8, <2>1, <2>2
<1>9. CASE ReadSerial
  <2> DEFINE t == SerialRead(scan)
  <2>1. DOMAIN t = DOMAIN Idle /\ Goes(t)
    BY <1>1 DEF SerialRead, Goto, Idle, KeepsBooks, Gathering
  <2>2. PICK serial : scan' = [t EXCEPT !.info["SerialNumber"] = serial]
    BY <1>9 DEF ReadSerial
  <2> HIDE DEF t
  <2> DEFINE info == [t.info EXCEPT !["SerialNumber"] = serial]
  <2>3. scan' = [t EXCEPT !.info = info]
    BY <2>2
  <2> HIDE DEF info
  <2>4. Goes(scan')
    BY <2>1, <2>3 DEF KeepsBooks, Idle
  <2>5. QED BY <1>2, <2>4
<1>10. QED BY <1>4, <1>5, <1>6, <1>7, <1>8, <1>9

\* A pass collects nothing, and ends with nothing kept (scan.go:72-148, 220-237).
LEMMA PassesGather ==
  ASSUME PassInv, Gathered(scan, registry),
         \/ \E targets \in TargetLists : Begin(targets) \/ BeginDirected(targets)
         \/ Probe \/ PassOver \/ NextPass \/ LastPass \/ Abort
         \/ \E text \in BOOLEAN : ReadChunk(text)
         \/ ChunkMissing \/ ReadSerial,
         scan'.pc = "display" => scan'.canonical = <<>> /\ scan'.seen = {}
  PROVE  Gathered(scan', registry)
<1>1. /\ scan.pc \in Gathering
      /\ \/ scan'.pc = "failed" /\ scan'.registered = {}
         \/ KeepsBooks(scan, scan') /\ scan'.pc \in Gathering \union {"display"}
  BY PassesCollectNothing
<1>2. CASE scan'.pc = "failed" /\ scan'.registered = {}
  BY <1>2 DEF Gathered, StillKnown, NothingMissing, AnswerMissing, ResultMissing, Gathering,
              Answering, Calling, Ending
<1>3. CASE KeepsBooks(scan, scan') /\ scan'.pc \in Gathering \union {"display"}
  <2>1. registry.order \subseteq Behind(scan') /\ StillKnown(scan', registry)
    BY <1>1, <1>3 DEF KeepsBooks, Behind, Gathered, StillKnown, NothingMissing
  <2>2. NothingMissing(scan', registry) /\ AnswerMissing(scan', registry)
    BY <1>3, <2>1 DEF NothingMissing, AnswerMissing, Gathering, Answering, Calling
  <2>3. scan'.pc \in Ending => scan'.pc = "display"
    BY <1>3 DEF Gathering, Ending
  <2>4. ResultMissing(scan', registry)
    BY <2>1, <2>3 DEF ResultMissing
  <2>5. QED BY <2>1, <2>2, <2>4 DEF Gathered
<1>4. QED BY <1>1, <1>2, <1>3

\* A call of Register, also one that retains a conflict, moves other addresses with the
\* group of its own only, and shows no entry by another address but the one that was
\* shown by its own (registry_registration.go:5-26, 66-209).
LEMMA CallRegisterMoves ==
  ASSUME FaceInv, NEW a \in Address, NEW o \in Observation, CallRegister(a, o), FaceInv'
  PROVE  /\ MovesTogether(registry, registry', a)
         /\ \A e \in registry.order :
               registry.heap[e].primaryAddress # a => Shows(registry, registry', e)
<1>1. Typed(registry) /\ Sound(registry)
  BY DEF FaceInv, PartitionInv, IdentityInv
<1>2. CASE Register(a, o)
  BY <1>1, <1>2, RegisterPreserves, RegisterShows
<1>3. CASE UNCHANGED registry
  BY <1>3 DEF MovesTogether, Shows
<1>4. QED BY <1>2, <1>3 DEF CallRegister

\* What FaceInv says of a registry as a state.
LEMMA FaceInvStates ==
  ASSUME FaceInv, FaceInv'
  PROVE  /\ Typed(registry) /\ Sound(registry) /\ Typed(registry') /\ Sound(registry')
         /\ \A x \in Address : registry.entries[x] # Nil => registry.entries[x] \in registry.order
         /\ \A x \in Address : registry'.entries[x] # Nil => registry'.entries[x] \in registry'.order
BY DEF FaceInv, PartitionInv, IdentityInv, Typed, PointersType, Sound, Groups

\* The entry of the face that answered is behind the scan, or it is new and shown by the
\* face (scan.go:190).
LEMMA RegisterAnswerGathers ==
  ASSUME ScanInv, FaceInv, FaceInv', Gathered(scan, registry), RegisterAnswer
  PROVE  Gathered(scan', registry')
<1> DEFINE a == scan.address
           n == registry'.entries[a]
           p == Parted(scan.parted, registry, a, n)
<1>1. DOMAIN scan = DOMAIN Idle
  BY DEF ScanInv, PassInv, DeferralInv
<1>2. scan.pc = "register" /\ a \in Address /\ scan.info \in Observation
  BY DEF RegisterAnswer, ScanInv, AnswerInv, Recording
<1>3. CallRegister(a, scan.info)
  BY DEF RegisterAnswer
<1>4. /\ MovesTogether(registry, registry', a) /\ n # Nil
      /\ \A x \in Address : registry.entries[x] # Nil => registry'.entries[x] # Nil
  BY <1>2, <1>3, CallRegisterMoves, CallRegisterResolves
<1>5. /\ registry'.order \subseteq registry.order \union {n}
      /\ n \notin registry.order => registry'.heap[n].primaryAddress = a
  BY <1>2, <1>4, FaceInvStates, GroupsAfterMove
<1>6. /\ scan'.pc \in {"alias", "confirm"} /\ scan'.parted = p /\ scan'.address = a
      /\ scan'.registered = scan.registered /\ scan'.entries = scan.entries
  BY <1>1 DEF RegisterAnswer, Goto, Idle
<1>7. registry.order \subseteq Behind(scan) /\ StillKnown(scan, registry)
  BY <1>2 DEF Gathered, NothingMissing, Gathering
<1>8. /\ p = scan.parted \/ n \notin registry.order
      /\ n \notin registry.order /\ registry.entries[a] = Nil => p = scan.parted \ {n}
      /\ n \notin registry.order /\ registry.entries[a] # Nil => p = scan.parted \union {n}
  BY DEF Parted
<1> HIDE DEF n, p, a
<1>9. registry'.order \subseteq Behind(scan') \union {n}
  BY <1>5, <1>6, <1>7, <1>8 DEF Behind
<1>10. Collectable(scan', registry', n)
  <2>1. CASE n \in registry.order
    BY <1>6, <1>7, <1>8, <2>1 DEF Collectable, Behind
  <2>2. CASE n \notin registry.order /\ registry.entries[a] = Nil
    BY <1>5, <1>6, <1>7, <2>2 DEF Collectable, StillKnown
  <2>3. CASE n \notin registry.order /\ registry.entries[a] # Nil
    BY <1>6, <1>8, <2>3 DEF Collectable, Behind
  <2>4. QED BY <2>1, <2>2, <2>3
<1>11. AnswerMissing(scan', registry')
  BY <1>2, <1>4, <1>6, <1>9, <1>10 DEF AnswerMissing, n
<1>12. StillKnown(scan', registry')
  BY <1>4, <1>6, <1>7 DEF StillKnown
<1>13. QED
  BY <1>6, <1>11, <1>12 DEF Gathered, NothingMissing, ResultMissing, Gathering, Ending

\* The target gets an entry of its own, or its group moves along (scan.go:191-194).
LEMMA RegisterAliasGathers ==
  ASSUME ScanInv, FaceInv, FaceInv', Confirming(scan, registry), Gathered(scan, registry),
         RegisterAlias
  PROVE  Gathered(scan', registry')
<1> DEFINE a == scan.address
           b == scan.target
           e == registry.entries[a]
           n == registry'.entries[a]
           f == registry'.entries[b]
<1>1. DOMAIN scan = DOMAIN Idle
  BY DEF ScanInv, PassInv, DeferralInv
<1>2. scan.pc = "alias" /\ a \in Address /\ b \in Address /\ scan.info \in Observation
  BY DEF RegisterAlias, ScanInv, AnswerInv, Recording
<1>3. CallRegister(b, scan.info) /\ a # b
  BY <1>2 DEF RegisterAlias, Confirming
<1>4. /\ MovesTogether(registry, registry', b) /\ f # Nil
      /\ \A x \in Address : registry.entries[x] # Nil => registry'.entries[x] # Nil
      /\ \A d \in registry.order :
            registry.heap[d].primaryAddress # b => Shows(registry, registry', d)
  BY <1>2, <1>3, CallRegisterMoves, CallRegisterResolves
<1>5. /\ registry'.order \subseteq registry.order \union {f}
      /\ f \notin registry.order => registry'.heap[f].addresses = {b}
      /\ n # e => n \in registry.order /\ e \notin registry'.order
  BY <1>2, <1>3, <1>4, FaceInvStates, GroupsAfterMove
<1>6. scan' = [scan EXCEPT !.pc = "join"]
  BY <1>1 DEF RegisterAlias, Goto, Idle
<1>7. /\ scan'.pc = "join" /\ scan'.parted = scan.parted /\ scan'.address = a
      /\ scan'.target = b
      /\ scan'.registered = scan.registered /\ scan'.entries = scan.entries
  BY <1>1, <1>6 DEF Idle
<1>8. /\ StillKnown(scan, registry) /\ e # Nil /\ Collectable(scan, registry, e)
      /\ registry.order \subseteq Behind(scan) \union {e}
  BY <1>2 DEF Gathered, AnswerMissing, Answering, Calling
<1>9. e \in registry.order /\ f \in registry'.order /\ n # Nil /\ n \in registry'.order
  BY <1>2, <1>4, <1>8, FaceInvStates
<1> HIDE DEF e, n, f, a, b
<1>10. Behind(scan') = Behind(scan)
  BY <1>7 DEF Behind
<1>11. n # e => n \in Behind(scan)
  BY <1>5, <1>8
<1>12. Collectable(scan', registry', n)
  <2>1. CASE n = e /\ e \notin Behind(scan)
    <3>1. registry.heap[e].primaryAddress = a /\ a \notin scan.registered
      BY <1>8, <2>1 DEF Collectable, a
    <3>2. registry'.heap[e].primaryAddress = a
      BY <1>3, <1>4, <1>9, <3>1 DEF Shows
    <3>3. QED BY <1>7, <2>1, <3>1, <3>2 DEF Collectable
  <2>2. QED BY <1>10, <1>11, <2>1 DEF Collectable
<1>13. registry'.order \subseteq Behind(scan') \union {n, f}
  BY <1>5, <1>8, <1>10
<1>14. f \in Behind(scan') \union {n} \/ registry'.heap[f].addresses = {b}
  BY <1>5, <1>8, <1>9, <1>10
<1>15. AnswerMissing(scan', registry')
  BY <1>2, <1>7, <1>9, <1>12, <1>13, <1>14 DEF AnswerMissing, n, f
<1>16. StillKnown(scan', registry')
  BY <1>4, <1>7, <1>8 DEF StillKnown
<1>17. QED
  BY <1>7, <1>15, <1>16 DEF Gathered, NothingMissing, ResultMissing, Gathering, Ending

\* The target joins the group of the face that answered; an entry of its own is gone
\* (scan.go:199-201).
LEMMA JoinAliasGathers ==
  ASSUME ScanInv, FaceInv, FaceInv', [Next]_registry, Confirming(scan, registry),
         Gathered(scan, registry), JoinAlias
  PROVE  Gathered(scan', registry')
<1> DEFINE a == scan.address
           b == scan.target
           e == registry.entries[a]
           f == registry.entries[b]
<1>1. DOMAIN scan = DOMAIN Idle
  BY DEF ScanInv, PassInv, DeferralInv
<1>2. scan.pc = "join" /\ a \in Address /\ b \in Address
  BY DEF JoinAlias, ScanInv, AnswerInv, Recording
<1>3. AliasAddresses(a, b) /\ a # b
  BY <1>2 DEF JoinAlias, Confirming
<1>4. /\ StillKnown(scan, registry) /\ e # Nil /\ Collectable(scan, registry, e)
      /\ registry.order \subseteq Behind(scan) \union {e, f}
      /\ f \in Behind(scan) \union {e} \/ registry.heap[f].addresses = {b}
  BY <1>2 DEF Gathered, AnswerMissing, Answering, Calling
<1>5. Related(registry', a, b) /\ OnlyMoves(registry, registry', b)
  BY <1>2, <1>3, <1>4, AliasRelates
<1>6. registry'.entries[a] = e /\ registry'.entries[b] = e
  BY <1>2, <1>3, <1>5 DEF OnlyMoves, Related
<1>7. e \in registry.order /\ e \in registry'.order
  BY <1>2, <1>4, <1>6, FaceInvStates
<1>8. /\ registry'.order \subseteq registry.order
      /\ f \in registry.order /\ registry.heap[f].addresses = {b} /\ f # e =>
            f \notin registry'.order
  BY <1>2, <1>5, <1>6, <1>7, FaceInvStates, GroupsAfterJoin
<1>9. registry.heap[e].primaryAddress # b => Shows(registry, registry', e)
  BY <1>2, <1>3, <1>4, <1>7, FaceInvStates, AliasShows
<1>10. scan' = [scan EXCEPT !.pc = "reload"]
  BY <1>1 DEF JoinAlias, Goto, Idle
<1>11. /\ scan'.pc = "reload" /\ scan'.parted = scan.parted /\ scan'.address = a
       /\ scan'.registered = scan.registered /\ scan'.entries = scan.entries
  BY <1>1, <1>10 DEF Idle
<1>12. \A x \in Address : registry.entries[x] # Nil => registry'.entries[x] # Nil
  BY HandlesOutlive DEF FaceInv
<1> HIDE DEF e, f, a, b
<1>13. Behind(scan') = Behind(scan)
  BY <1>11 DEF Behind
<1>14. registry'.order \subseteq Behind(scan') \union {e}
  BY <1>4, <1>8, <1>13
<1>15. Collectable(scan', registry', e)
  <2>1. CASE e \notin Behind(scan)
    <3>1. registry.heap[e].primaryAddress = a /\ a \notin scan.registered
      BY <1>4, <2>1 DEF Collectable, a
    <3>2. QED BY <1>3, <1>9, <1>11, <3>1 DEF Collectable, Shows
  <2>2. QED BY <1>13, <2>1 DEF Collectable
<1>16. AnswerMissing(scan', registry')
  BY <1>2, <1>4, <1>6, <1>11, <1>14, <1>15 DEF AnswerMissing
<1>17. StillKnown(scan', registry')
  BY <1>4, <1>11, <1>12 DEF StillKnown
<1>18. QED
  BY <1>11, <1>16, <1>17 DEF Gathered, NothingMissing, ResultMissing, Gathering, Ending

\* Nothing moves while the entry is reloaded, confirmed and looked up (scan.go:202-212).
LEMMA ConfirmGathers ==
  ASSUME ScanInv, FaceInv, FaceInv', [Next]_registry, Gathered(scan, registry),
         Reload \/ Confirm \/ LookupConfirmed
  PROVE  Gathered(scan', registry')
<1> DEFINE a == scan.address
           e == registry.entries[a]
<1>1. DOMAIN scan = DOMAIN Idle
  BY DEF ScanInv, PassInv, DeferralInv
<1>2. scan.pc \in {"reload", "confirm", "lookup"}
  BY DEF Reload, Confirm, LookupConfirmed
<1>3. /\ StillKnown(scan, registry) /\ a \in Address /\ e # Nil
      /\ Collectable(scan, registry, e) /\ registry.order \subseteq Behind(scan) \union {e}
  BY <1>2 DEF Gathered, AnswerMissing, Answering, Calling
<1>4. e \in registry.order /\ Points(registry, e)
  BY <1>3, FaceInvStates DEF Typed, PointersType
<1>5. registry'.entries = registry.entries /\ Shows(registry, registry', e)
  <2>1. CASE UNCHANGED registry
    BY <2>1 DEF Shows
  <2>2. CASE Confirm
    <3>1. ConfirmScanIdentity(a)
      BY <1>3, <2>2 DEF Confirm
    <3>2. Typed(registry) /\ Symmetric(registry)
      BY DEF FaceInv, PartitionInv, IdentityInv
    <3>3. QED BY <1>3, <1>4, <3>1, <3>2, ConfirmScanIdentityTells, ConfirmScanIdentityShows
  <2>3. QED BY <2>1, <2>2 DEF Reload, LookupConfirmed
<1>6. registry'.order \subseteq registry.order
  <2>1. \A x \in registry'.order : \E y \in Address : registry'.entries[y] = x
    BY FaceInvStates, LiveByDisplay
  <2>2. Nil \notin registry'.order
    BY FaceInvStates, NilIsNotLive
  <2>3. QED BY <1>5, <2>1, <2>2, FaceInvStates
<1>7. /\ scan'.pc \in {"confirm", "lookup", "collect"} /\ scan'.parted = scan.parted
      /\ scan'.address = a
      /\ scan'.registered = scan.registered /\ scan'.entries = scan.entries
      /\ scan'.pc = "collect" => scan'.entry = e
  BY <1>1, <1>2, <1>3 DEF Reload, Confirm, LookupConfirmed, Goto, Idle
<1> HIDE DEF e, a
<1>8. Collectable(scan', registry', e) /\ Behind(scan') = Behind(scan)
  BY <1>3, <1>5, <1>7 DEF Collectable, Behind, Shows, a
<1>9. AnswerMissing(scan', registry')
  BY <1>3, <1>5, <1>6, <1>7, <1>8 DEF AnswerMissing, e
<1>10. StillKnown(scan', registry')
  BY <1>3, <1>5, <1>7 DEF StillKnown
<1>11. QED
  BY <1>7, <1>9, <1>10 DEF Gathered, NothingMissing, ResultMissing, Gathering, Ending

\* The entry is collected unless its display address was registered, and then it is
\* behind the scan (scan.go:213-217).
LEMMA CollectGathers ==
  ASSUME ScanInv, FaceInv, Handles(scan, registry), Gathered(scan, registry), Collect
  PROVE  Gathered(scan', registry)
<1> DEFINE e == scan.entry
           p == registry.heap[e].primaryAddress
           q == scan.entries
           c == Collected(scan, p)
<1>1. DOMAIN scan = DOMAIN Idle
  BY DEF ScanInv, PassInv, DeferralInv
<1>2. /\ scan.pc = "collect"
      /\ scan' = [c EXCEPT !.pc = "probe", !.target = 0, !.address = 0,
                           !.info = NoInfo, !.entry = Nil]
  BY DEF Collect, PrimaryDisplayAddress
<1>3. /\ StillKnown(scan, registry) /\ scan.address \in Address
      /\ e = registry.entries[scan.address] /\ e # Nil
      /\ Collectable(scan, registry, e) /\ registry.order \subseteq Behind(scan) \union {e}
  BY <1>2 DEF Gathered, AnswerMissing, Answering
<1>4. Typed(registry) /\ Sound(registry) /\ e \in registry.order
  BY <1>3 DEF FaceInv, PartitionInv, IdentityInv, Sound, Groups
<1>5. p \in Address /\ registry.entries[p] # Nil
  BY <1>3, <1>4, LiveByDisplay
<1>6. e \in EntryId /\ q \in Seq(EntryId)
  BY <1>2 DEF Handles, Holding, Points
<1>7. Elements(Append(q, e)) = Elements(q) \union {e}
  BY <1>6, ListElements
<1>8. /\ DOMAIN c = DOMAIN Idle /\ c.parted = scan.parted
      /\ p \in scan.registered => c.registered = scan.registered /\ c.entries = q
      /\ p \notin scan.registered => /\ c.registered = scan.registered \union {p}
                                     /\ c.entries = Append(q, e)
  BY <1>1 DEF Collected, Idle
<1> HIDE DEF c
<1>9. /\ scan'.pc = "probe" /\ scan'.parted = scan.parted
      /\ scan'.registered = c.registered /\ scan'.entries = c.entries
  BY <1>2, <1>8 DEF Idle
<1> HIDE DEF e, p, q
<1>10. StillKnown(scan', registry)
  BY <1>3, <1>5, <1>8, <1>9 DEF StillKnown
<1>11. registry.order \subseteq Behind(scan')
  <2>1. CASE p \in scan.registered
    <3>1. e \in Behind(scan)
      BY <1>3, <2>1 DEF Collectable, p
    <3>2. QED BY <1>3, <1>8, <1>9, <2>1, <3>1 DEF Behind, q
  <2>2. CASE p \notin scan.registered
    BY <1>3, <1>7, <1>8, <1>9, <2>2 DEF Behind, q
  <2>3. QED BY <2>1, <2>2
<1>12. QED
  BY <1>9, <1>10, <1>11
  DEF Gathered, NothingMissing, AnswerMissing, ResultMissing, Gathering, Answering, Calling, Ending

\* Nothing is lost between a list of handles and the result: a live handle is found
\* again by its display address, and left out only for itself (scan.go:256-275).
LEMMA ResultGathers ==
  ASSUME ScanInv, FaceInv, Handles(scan, registry), Kept(scan, registry),
         Gathered(scan, registry),
         ReadDisplay \/ Resolve \/ Keep \/ Return
  PROVE  Gathered(scan', registry)
<1> DEFINE R == registry.order
           can == Elements(scan.canonical)
           Shown(t) == \A p \in t.seen : \E d \in Elements(t.canonical) :
                          registry.heap[d].primaryAddress = p
<1>1. DOMAIN scan = DOMAIN Idle
  BY DEF ScanInv, PassInv, DeferralInv
<1>2. Typed(registry) /\ Sound(registry)
  BY DEF FaceInv, PartitionInv, IdentityInv
<1>3. scan.pc \in Ending
  BY DEF ReadDisplay, Resolve, Keep, Return, Ending
<1>4. /\ StillKnown(scan, registry) /\ Shown(scan)
      /\ R \subseteq Behind(scan) \union can \union InHand(scan, registry)
  BY <1>3 DEF Gathered, ResultMissing
<1>5. Nil \notin R
  BY <1>2, NilIsNotLive
<1>6. /\ scan'.registered = scan.registered /\ scan'.parted = scan.parted
      /\ scan'.pc \in Ending /\ (scan'.pc = "done" => scan'.entries = <<>>)
      /\ R \subseteq Behind(scan') \union Elements(scan'.canonical) \union InHand(scan', registry)
      /\ Shown(scan')
  <2>1. CASE ReadDisplay
    <3> DEFINE q == scan.entries
               h == Head(q)
    <3>1. /\ scan.pc = "display" /\ q # <<>>
          /\ scan' = [scan EXCEPT !.pc = "resolve", !.entries = Tail(q),
                                  !.display = registry.heap[h].primaryAddress]
      BY <1>1, <2>1 DEF ReadDisplay, PrimaryDisplayAddress, Goto, Idle
    <3>2. q \in Seq(EntryId)
      BY DEF Handles
    <3>3. Elements(q) = Elements(Tail(q)) \union {h}
      BY <3>1, <3>2, ListElements
    <3> HIDE DEF h
    <3>4. /\ scan'.pc = "resolve" /\ scan'.entries = Tail(q)
          /\ scan'.display = registry.heap[h].primaryAddress
          /\ scan'.registered = scan.registered /\ scan'.parted = scan.parted
          /\ scan'.canonical = scan.canonical /\ scan'.seen = scan.seen
      BY <1>1, <3>1 DEF Idle
    <3> HIDE DEF q
    <3>5. h \in R => h \in InHand(scan', registry)
      BY <1>2, <3>4, LiveByDisplay DEF InHand
    <3>6. R \subseteq Elements(q) \union scan.parted \union can
      BY <1>4, <3>1 DEF InHand, Behind, q
    <3>7. R \subseteq Behind(scan') \union can \union InHand(scan', registry)
      BY <3>3, <3>4, <3>5, <3>6 DEF Behind
    <3>8. QED BY <1>4, <3>4, <3>7 DEF Ending
  <2>2. CASE Resolve
    <3> DEFINE n == registry.entries[scan.display]
    <3>1. /\ scan.pc = "resolve" /\ scan'.entry = n
          /\ scan'.pc = IF n = Nil THEN "display" ELSE "keep"
          /\ scan'.registered = scan.registered /\ scan'.parted = scan.parted
          /\ scan'.canonical = scan.canonical /\ scan'.seen = scan.seen
          /\ scan'.entries = scan.entries
      BY <1>1, <2>2 DEF Resolve, Goto, Idle
    <3>2. R \subseteq Behind(scan) \union can \union {n}
      BY <1>4, <3>1 DEF InHand
    <3> HIDE DEF n
    <3>3. Behind(scan') = Behind(scan)
      BY <3>1 DEF Behind
    <3>4. R \subseteq Behind(scan') \union can \union InHand(scan', registry)
      BY <1>5, <3>1, <3>2, <3>3 DEF InHand
    <3>5. QED BY <1>4, <3>1, <3>4 DEF Ending
  <2>3. CASE Keep
    <3> DEFINE e == scan.entry
               p == registry.heap[e].primaryAddress
               q == scan.canonical
               k == KeptOnce(scan, p)
    <3>1. scan.pc = "keep" /\ scan' = [k EXCEPT !.pc = "display", !.entry = Nil]
      BY <2>3 DEF Keep, PrimaryDisplayAddress
    <3>2. /\ DOMAIN k = DOMAIN Idle /\ k.registered = scan.registered
          /\ k.parted = scan.parted /\ k.entries = scan.entries
          /\ p \in scan.seen => k.seen = scan.seen /\ k.canonical = q
          /\ p \notin scan.seen => k.seen = scan.seen \union {p} /\ k.canonical = Append(q, e)
      BY <1>1 DEF KeptOnce, Idle
    <3> HIDE DEF k
    <3>3. /\ scan'.pc = "display" /\ scan'.registered = scan.registered
          /\ scan'.parted = scan.parted /\ scan'.entries = scan.entries
          /\ scan'.seen = k.seen /\ scan'.canonical = k.canonical
      BY <3>1, <3>2 DEF Idle
    <3>4. q \in Seq(EntryId) /\ e \in EntryId /\ e \in R
      BY <3>1 DEF Handles, Holding, Points, Kept
    <3>5. Elements(Append(q, e)) = Elements(q) \union {e}
      BY <3>4, ListElements
    <3>6. R \subseteq Behind(scan') \union Elements(q) \union {e}
      BY <1>4, <3>1, <3>3 DEF InHand, Behind
    <3>7. p \in scan.seen => e \in Elements(q)
      <4>1. SUFFICES ASSUME p \in scan.seen PROVE e \in Elements(q)
        OBVIOUS
      <4>2. PICK d \in Elements(q) : registry.heap[d].primaryAddress = p
        BY <1>4, <4>1
      <4>3. d \in R
        BY <4>2 DEF Kept
      <4>4. d = e
        BY <1>2, <3>4, <4>2, <4>3, LiveByDisplay
      <4>5. QED BY <4>2, <4>4
    <3> HIDE DEF e, q
    <3>8. R \subseteq Behind(scan') \union Elements(scan'.canonical)
      BY <3>2, <3>3, <3>5, <3>6, <3>7
    <3>9. Shown(scan')
      BY <1>4, <3>2, <3>3, <3>5 DEF q
    <3>10. QED BY <3>3, <3>8, <3>9 DEF Ending
  <2>4. CASE Return
    <3>1. /\ scan.pc = "display" /\ scan'.pc = "done" /\ scan.entries = <<>>
          /\ scan'.registered = scan.registered /\ scan'.parted = scan.parted
          /\ scan'.canonical = scan.canonical /\ scan'.seen = scan.seen
          /\ scan'.entries = scan.entries
      BY <1>1, <2>4 DEF Return, Goto, Idle
    <3>2. QED BY <1>4, <3>1 DEF InHand, Behind, Ending
  <2>5. QED BY <2>1, <2>2, <2>3, <2>4
<1>7. QED
  BY <1>4, <1>6
  DEF Gathered, StillKnown, NothingMissing, AnswerMissing, ResultMissing, Gathering, Answering,
      Calling, Ending

\* As long as the scan is the only one to use the registry, nothing is lost
\* (scan.go:72-275).
LEMMA GatheredContinues ==
  ASSUME ScanInv, FaceInv, FaceInv', Handles(scan, registry), Confirming(scan, registry),
         Resolved(scan, registry, 0), Gathered(scan, registry), ScanStep
  PROVE  Gathered(scan', registry')
<1>1. [Next]_registry
  BY StepsAreOperations DEF ScanInv, ScanNext
<1>2. CASE \/ \E targets \in TargetLists : Begin(targets) \/ BeginDirected(targets)
           \/ Probe \/ PassOver \/ NextPass \/ LastPass \/ Abort
           \/ \E text \in BOOLEAN : ReadChunk(text)
           \/ ChunkMissing \/ ReadSerial
  <2>1. UNCHANGED registry
    BY <1>2 DEF Begin, BeginDirected, Probe, PassOver, NextPass, LastPass, Abort,
                ReadChunk, ChunkMissing, ReadSerial
  <2>2. scan.pc \in Gathering /\ DOMAIN scan = DOMAIN Idle /\ DeferralInv(scan)
    BY <1>2, PassesCollectNothing DEF ScanInv, PassInv, DeferralInv
  <2>3. scan'.pc = "display" => scan'.canonical = <<>> /\ scan'.seen = {}
    <3>1. CASE (\E text \in BOOLEAN : ReadChunk(text)) \/ ChunkMissing \/ ReadSerial
      <4>1. Aside(scan, scan')
        BY <2>2, <3>1, OtherStepsAreAside
      <4>2. QED BY <2>2, <4>1 DEF Aside, Active, Gathering, Ending
    <3>2. CASE LastPass
      <4>1. scan'.canonical = scan.canonical /\ scan'.seen = scan.seen
        BY <2>2, <3>2 DEF LastPass, Goto, Idle
      <4>2. QED BY <2>2, <4>1 DEF Handles, Gathering, Ending
    <3>3. CASE \/ \E targets \in TargetLists : Begin(targets) \/ BeginDirected(targets)
               \/ Probe \/ PassOver \/ NextPass \/ LastPass \/ Abort
      BY <3>2, <3>3, PassesKeepHandles DEF ScanInv, Ending
    <3>4. QED BY <1>2, <3>1, <3>3
  <2>4. Gathered(scan', registry)
    BY <1>2, <2>3, PassesGather DEF ScanInv
  <2>5. QED BY <2>1, <2>4
<1>3. CASE RegisterAnswer
  BY <1>3, RegisterAnswerGathers
<1>4. CASE RegisterAlias
  BY <1>4, RegisterAliasGathers
<1>5. CASE JoinAlias
  BY <1>1, <1>5, JoinAliasGathers
<1>6. CASE Reload \/ Confirm \/ LookupConfirmed
  BY <1>1, <1>6, ConfirmGathers
<1>7. CASE Collect
  <2>1. UNCHANGED registry
    BY <1>7 DEF Collect
  <2>2. QED BY <1>7, <2>1, CollectGathers
<1>8. CASE ReadDisplay \/ Resolve \/ Keep \/ Return
  <2>1. UNCHANGED registry /\ scan.pc \in Ending
    BY <1>8 DEF ReadDisplay, Resolve, Keep, Return, Ending
  <2>2. Kept(scan, registry)
    BY <2>1 DEF Resolved
  <2>3. QED BY <1>8, <2>1, <2>2, ResultGathers
<1>9. QED BY <1>2, <1>3, <1>4, <1>5, <1>6, <1>7, <1>8 DEF ScanStep

\* Every face that answered resolves, but the one that is about to be registered.
AnswersResolve(s, r) ==
  \A a \in s.answered :
     r.entries[a] # Nil \/ (s.pc \in {"serial", "register"} /\ a = s.address)

\* An answer is registered before the next one is taken, and no address is dropped
\* (scan.go:133-196).
LEMMA AnswersResolveOn ==
  ASSUME ScanInv, FaceInv, FaceInv', Confirming(scan, registry),
         AnswersResolve(scan, registry), ScanStep
  PROVE  AnswersResolve(scan', registry')
<1>1. DOMAIN scan = DOMAIN Idle
  BY DEF ScanInv, PassInv, DeferralInv
<1>2. scan.answered \subseteq Address
  BY DEF Confirming
<1>3. \A a \in Address : registry.entries[a] # Nil => registry'.entries[a] # Nil
  BY StepsAreOperations, HandlesOutlive DEF ScanInv, ScanNext, FaceInv
<1>4. CASE UNCHANGED registry /\ Rests(scan, scan')
  BY <1>4 DEF Rests, Recording, AnswersResolve
<1>5. CASE UNCHANGED registry /\ Answer(scan, scan')
  <2>1. /\ scan.pc \notin {"serial", "register"} /\ scan'.pc \in {"serial", "register"}
        /\ scan'.answered = scan.answered \union {scan'.address}
    BY <1>5 DEF Answer, Recording
  <2>2. QED BY <1>5, <2>1 DEF AnswersResolve
<1>6. CASE UNCHANGED registry /\ Serial(scan, scan')
  BY <1>6 DEF Serial, SameAnswer, AnswersResolve
<1>7. CASE RegisterAnswer /\ \E to \in {"alias", "confirm"} : Record(scan, scan', "register", to)
  <2>1. /\ scan.pc = "register" /\ scan'.answered = scan.answered
        /\ scan.address \in Address /\ scan.info \in Observation
    BY <1>7 DEF Record, SameAnswer, ScanInv, AnswerInv, Recording
  <2>2. registry'.entries[scan.address] # Nil
    BY <1>7, <2>1, CallRegisterResolves DEF RegisterAnswer
  <2>3. QED BY <1>2, <1>3, <2>1, <2>2 DEF AnswersResolve
<1>8. CASE scan.pc \in {"alias", "join", "reload", "confirm"} /\ SameAnswer(scan, scan')
  BY <1>2, <1>3, <1>8 DEF SameAnswer, AnswersResolve
<1>9. QED
  BY <1>1, <1>4, <1>5, <1>6, <1>7, <1>8, ScanStepIsOneOf DEF Record

\* Another goroutine's call is counted: what was gathered before it may be stale.
Undisturbedly(s, r, n) == n = 0 => AnswersResolve(s, r) /\ Gathered(s, r)

\* A scan that was alone with the registry returns the device behind every face that
\* answered it, once, but for one that was started for a face whose answer contradicted
\* its group: no list of handles, merge, split or display address on the way loses
\* another (scan.go:133-217, 256-275).
THEOREM EveryAnsweringDeviceIsReturned == ScanSpec => []ReturnsEachAnsweringDeviceOnce
<1>1. ScanInit => Undisturbedly(scan, registry, elsewhere)
  <2>1. Init => registry.order = {}
    BY DEF Init
  <2>2. /\ AnswersResolve(Idle, registry) /\ StillKnown(Idle, registry)
        /\ Idle.pc = "idle"
    BY DEF Idle, AnswersResolve, StillKnown
  <2>3. QED
    BY <2>1, <2>2
    DEF ScanInit, Undisturbedly, Gathered, NothingMissing, AnswerMissing, ResultMissing,
        Answering, Calling, Ending
<1>2. /\ ScanInv /\ FaceInv /\ FaceInv' /\ Handles(scan, registry)
      /\ Alone(scan, registry, elsewhere) /\ Resolved(scan, registry, elsewhere)
      /\ Undisturbedly(scan, registry, elsewhere) /\ [ScanNext]_scanVars
      => Undisturbedly(scan, registry, elsewhere)'
  <2> SUFFICES ASSUME ScanInv, FaceInv, FaceInv', Handles(scan, registry),
                      Alone(scan, registry, elsewhere), Resolved(scan, registry, elsewhere),
                      Undisturbedly(scan, registry, elsewhere), [ScanNext]_scanVars
               PROVE  Undisturbedly(scan', registry', elsewhere')
    BY DEF Undisturbedly, AnswersResolve, Gathered, StillKnown, NothingMissing, AnswerMissing,
           ResultMissing, Collectable, Behind, InHand, Elements
  <2>1. CASE ScanStep
    <3>1. elsewhere' = elsewhere
      <4>1. DOMAIN scan = DOMAIN Idle
        BY DEF ScanInv, PassInv, DeferralInv
      <4>2. QED
        BY <2>1, <4>1, ScanStepIsOneOf DEF RegisterAnswer, RegisterAlias, JoinAlias, Confirm
    <3>2. QED BY <2>1, <3>1, GatheredContinues, AnswersResolveOn DEF Undisturbedly, Alone
  <2>2. CASE Elsewhere
    BY <2>2 DEF Elsewhere, Alone, Undisturbedly
  <2>3. CASE UNCHANGED scanVars
    BY <2>3 DEF scanVars, Undisturbedly
  <2>4. QED BY <2>1, <2>2, <2>3 DEF ScanNext
<1>3. /\ FaceInv /\ Alone(scan, registry, elsewhere)
      /\ Undisturbedly(scan, registry, elsewhere) /\ ReturnsLiveEntriesOnce
      => ReturnsEachAnsweringDeviceOnce
  <2> SUFFICES ASSUME FaceInv, Alone(scan, registry, elsewhere),
                      Undisturbedly(scan, registry, elsewhere),
                      scan.pc = "done", elsewhere = 0, NEW a \in scan.answered
               PROVE  registry.entries[a] \in Returned \union scan.parted
    BY DEF ReturnsEachAnsweringDeviceOnce
  <2>1. a \in Address /\ registry.entries[a] # Nil
    BY DEF Alone, Confirming, Undisturbedly, AnswersResolve
  <2>2. registry.entries[a] \in registry.order
    BY <2>1 DEF FaceInv, PartitionInv, Sound, Groups
  <2>3. /\ registry.order \subseteq Behind(scan) \union Elements(scan.canonical)
        /\ scan.entries = <<>>
    BY DEF Undisturbedly, Gathered, ResultMissing, InHand, Ending
  <2>4. QED BY <2>2, <2>3 DEF Behind, Elements, Returned
<1>4. ScanSpec => []FaceInv
  BY ScanUsesTheRegistry, FaceInvHolds, PTL
<1>5. QED
  BY <1>1, <1>2, <1>3, <1>4, AloneHolds, ResolvedHolds, HandlesHold, LiveEntriesAreReturnedOnce,
     ScanInvHolds, PTL DEF ScanSpec
=============================================================================
